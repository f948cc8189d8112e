-------------------------- MODULE ReviewedReplyProofs --------------------------
(***************************************************************************)
(* Theorems about ReviewedReply, for every set of leads, messages and      *)
(* request threads: the reviewed reply leaves the registry's own promises  *)
(* alone, and one command sends at most once.                              *)
(***************************************************************************)
EXTENDS ReviewedReply, Tier2ManagerProofs

----------------------------------------------------------------------------
(* The registry inside the larger system *)

LEMMA RegistryStep == [ReplyNext]_allVars => [Next]_vars
<1> SUFFICES ASSUME [ReplyNext]_allVars PROVE [Next]_vars
  OBVIOUS
<1>1. ASSUME NEW w \in Workers, NEW m \in Messages, Authorize(w, m) \/ Refuse(w, m)
      PROVE  UNCHANGED vars
  BY <1>1 DEF Authorize, Refuse
<1>2. ASSUME NEW w \in Workers, Work(w) PROVE UNCHANGED vars
  BY <1>2 DEF Work, Start, Send, RecordOutbound, Verify, Complete
<1>3. ASSUME NEW l \in Leads, Mirror(l) PROVE Next
  BY <1>3 DEF Mirror, Next, Inbound
<1>4. ASSUME NEW m, Arrive(m) \/ SentElsewhere(m) PROVE UNCHANGED vars
  BY <1>4 DEF Arrive, SentElsewhere
<1>5. ASSUME NEW p, NEW t, Post(p, t) \/ ConfirmThread(p) \/ DeleteThread(t) PROVE UNCHANGED vars
  BY <1>5 DEF Post, ConfirmThread, DeleteThread
<1>6. ASSUME Registry PROVE Next
  BY <1>6 DEF Registry, Next, Inbound
<1>7. ASSUME Die PROVE [Next]_vars
  BY <1>7 DEF Die, Next
<1>8. ASSUME UNCHANGED allVars PROVE UNCHANGED vars
  BY <1>8 DEF allVars
<1>9. ASSUME SweepTokens PROVE Next
  BY <1>9 DEF SweepTokens, Next
<1>10. QED BY <1>1, <1>2, <1>3, <1>4, <1>5, <1>6, <1>7, <1>8, <1>9 DEF ReplyNext

\* The system with reviewed replies does nothing to the registry that the
\* registry could not do by itself, so every theorem about Spec holds of it.
THEOREM ReplyKeepsManager == ReplySpec => Spec
<1>1. ReplyInit => Init
  BY DEF ReplyInit
<1>2. QED BY <1>1, RegistryStep, PTL DEF ReplySpec, Spec

\* Replies in flight do not disturb the ledger: a grant that ends under one of them
\* ends on time.
THEOREM LedgerHoldsWithReplies == ReplySpec => ImplementsLedger
BY ReplyKeepsManager, Implementation

----------------------------------------------------------------------------
(* The inductive invariant *)

\* What a transport may answer.
LEMMA AnswerFacts ==
    ASSUME NEW x \in Transports, NEW a \in Answers[x]
    PROVE  /\ a[1] \in SendStatus /\ a[2] \in Ids
           /\ x = "stub" <=> a[2] = "stub"
           /\ a[1] = "outbound_disabled" => x # "bridge"
BY ReplyAssumption DEF Answers, SendStatus, Ids

\* A thread that has sent holds an answer of the transport, and one that completes
\* an outcome complete_contact_reply is meant to record.
Answered(w) == pc[w] \in {"record", "verify", "complete"}
StatusFitsStep ==
    \A w \in Workers :
        /\ pc[w] = "record" => <<status[w], guid[w]>> \in Answers[transport]
        /\ pc[w] = "verify" => status[w] = "sent"
        /\ pc[w] = "complete" => status[w] \in Final
        /\ Answered(w) => (guid[w] = "stub" <=> transport = "stub")

ReplyTypeInv == ReplyTypeOK /\ StatusFitsStep

\* A running thread works on a command recorded as authorized, which is its own:
\* no other thread has it.
Busy(w) == pc[w] # "idle"
OneThreadPerReply ==
    /\ \A w \in Workers : Busy(w) => job[w] \in Messages /\ replies[job[w]] = "authorized"
    /\ \A v, w \in Workers : Busy(v) /\ Busy(w) /\ job[v] = job[w] => v = w

\* Until it sends, nothing of the command is out or on its way; what is on its way
\* is not out.
NeverOut(m) == created[m] = 0 /\ m \notin inflight
OutOnce ==
    /\ \A m \in Messages : replies[m] = "none" => NeverOut(m)
    /\ \A w \in Workers : pc[w] \in {"start", "send"} => NeverOut(job[w])
    /\ \A m \in inflight : created[m] = 0
    /\ AtMostOneSend

ReplyInv ==
    /\ TypeOK
    /\ ReplyTypeInv
    /\ OneThreadPerReply
    /\ OutOnce

\* The steps that leave the commands, the bridge and the request threads alone.
LEMMA ThreadsElsewhere ==
    ASSUME UNCHANGED <<replies, bridgeVars, workerVars>>
    PROVE  /\ StatusFitsStep => StatusFitsStep'
           /\ OneThreadPerReply => OneThreadPerReply'
           /\ OutOnce => OutOnce'
BY DEF StatusFitsStep, OneThreadPerReply, OutOnce, NeverOut, AtMostOneSend, Busy, Answered,
       bridgeVars, workerVars

LEMMA ReplyInvInit == ReplyInit => ReplyInv
<1> SUFFICES ASSUME ReplyInit PROVE ReplyInv
  OBVIOUS
<1>1. TypeOK
  BY InitType DEF ReplyInit
<1>2. ReplyTypeOK
  BY ReplyAssumption DEF ReplyInit, ReplyTypeOK, Homes, Places, Final, Ids
<1>3. StatusFitsStep /\ OneThreadPerReply /\ OutOnce
  BY DEF ReplyInit, StatusFitsStep, OneThreadPerReply, OutOnce, NeverOut, AtMostOneSend,
         Busy, Answered
<1>4. QED BY <1>1, <1>2, <1>3 DEF ReplyInv, ReplyTypeInv

\* What turns up in the history disturbs no thread.
LEMMA AppearsType ==
    ASSUME ReplyTypeOK, OneThreadPerReply, NEW m \in Messages, NEW own, Appears(m, own)
    PROVE  /\ since' \in [Workers -> SUBSET Hands]
           /\ alike' \subseteq Messages
           /\ alike \subseteq alike'
<1>1. \A w \in Listening(m) : w \in Workers /\ job[w] \in Messages
  BY DEF Listening, OneThreadPerReply, Busy
<1>2. QED BY <1>1 DEF Appears, ReplyTypeOK, Hands

LEMMA ReplyInvStep == ReplyInv /\ [ReplyNext]_allVars => ReplyInv'
<1> SUFFICES ASSUME ReplyInv, [ReplyNext]_allVars PROVE ReplyInv'
  OBVIOUS
<1> USE DEF ReplyInv, ReplyTypeInv
<1>t. TypeOK'
  BY RegistryStep, TypeStep
<1> DEFINE Rest == ReplyTypeInv /\ OneThreadPerReply /\ OutOnce
<1>1. ASSUME NEW w \in Workers, NEW m \in Messages, Authorize(w, m) PROVE Rest'
  <2> USE <1>1 DEF Authorize, Deliverable, threadVars, bridgeVars
  <2>1. ReplyTypeOK'
    BY DEF ReplyTypeOK
  <2>2. StatusFitsStep'
    BY DEF ReplyTypeOK, StatusFitsStep, Answered
  <2>3. OneThreadPerReply'
    BY DEF ReplyTypeOK, OneThreadPerReply, Busy
  <2>4. OutOnce'
    BY DEF ReplyTypeOK, OneThreadPerReply, OutOnce, NeverOut, AtMostOneSend, Busy
  <2>5. QED BY <2>1, <2>2, <2>3, <2>4
<1>2. ASSUME NEW w \in Workers, NEW m \in Messages, Refuse(w, m) PROVE Rest'
  <2>1. ReplyTypeOK'
    BY <1>2 DEF Refuse, ReplyTypeOK, threadVars, bridgeVars, workerVars
  <2>2. QED BY <1>2, <2>1, ThreadsElsewhere DEF Refuse
<1>3. ASSUME NEW w \in Workers, Start(w) PROVE Rest'
  <2> USE <1>3 DEF Start, threadVars, replyVars, bridgeVars
  <2>1. ReplyTypeOK'
    BY DEF ReplyTypeOK
  <2>2. StatusFitsStep'
    BY DEF ReplyTypeOK, StatusFitsStep, Answered
  <2>3. OneThreadPerReply'
    BY DEF ReplyTypeOK, OneThreadPerReply, Busy
  <2>4. OutOnce'
    BY DEF ReplyTypeOK, OutOnce, NeverOut, AtMostOneSend
  <2>5. QED BY <2>1, <2>2, <2>3, <2>4
<1>4. ASSUME NEW w \in Workers, Send(w) PROVE Rest'
  <2>1. /\ pc[w] = "send"
        /\ job[w] \in Messages
        /\ replies[job[w]] = "authorized"
        /\ NeverOut(job[w])
    BY <1>4 DEF Send, OneThreadPerReply, OutOnce, Busy
  <2>2. PICK a \in Answers[transport] :
           /\ status' = [status EXCEPT ![w] = a[1]]
           /\ guid' = [guid EXCEPT ![w] = a[2]]
    BY <1>4 DEF Send
  <2>3. /\ transport \in Transports
        /\ a[1] \in SendStatus /\ a[2] \in Ids
        /\ a = <<a[1], a[2]>>
        /\ transport = "stub" <=> a[2] = "stub"
    <3>1. transport \in Transports
      BY DEF ReplyTypeOK
    <3>2. a = <<a[1], a[2]>>
      BY <3>1, ReplyAssumption DEF Answers
    <3>3. QED BY <3>1, <3>2, AnswerFacts
  <2>4. /\ pc' = [pc EXCEPT ![w] = "record"]
        /\ inflight' = inflight \/ inflight' = inflight \cup {job[w]}
        /\ UNCHANGED <<threadVars, replyVars, transport, created, alike, job, since>>
    BY <1>4 DEF Send
  <2>5. ReplyTypeOK'
    BY <2>1, <2>2, <2>3, <2>4 DEF ReplyTypeOK, SendStatus, Final, threadVars, replyVars
  <2>6. StatusFitsStep'
    BY <2>2, <2>3, <2>4 DEF ReplyTypeOK, StatusFitsStep, Answered
  <2>7. OneThreadPerReply'
    BY <2>1, <2>4 DEF ReplyTypeOK, OneThreadPerReply, Busy, replyVars
  <2>8. OutOnce'
    BY <2>1, <2>4
    DEF ReplyTypeOK, OneThreadPerReply, OutOnce, NeverOut, AtMostOneSend, Busy, replyVars
  <2>9. QED BY <2>5, <2>6, <2>7, <2>8
<1>5. ASSUME NEW w \in Workers, RecordOutbound(w) PROVE Rest'
  <2>1. /\ job[w] \in Messages /\ status[w] \in SendStatus
        /\ status[w] # "sent" => status[w] \in Final
        /\ guid[w] = "stub" <=> transport = "stub"
    <3>1. <<status[w], guid[w]>> \in Answers[transport] /\ job[w] \in Messages
      BY <1>5 DEF RecordOutbound, OneThreadPerReply, StatusFitsStep, Busy
    <3>2. QED BY <1>5, <3>1, AnswerFacts
              DEF RecordOutbound, ReplyTypeOK, StatusFitsStep, Answered, SendStatus, Final
  <2> USE <1>5, <2>1 DEF RecordOutbound, threadVars, bridgeVars
  <2>2. ReplyTypeOK'
    BY DEF ReplyTypeOK
  <2>3. StatusFitsStep'
    BY DEF ReplyTypeOK, StatusFitsStep, Answered
  <2>4. OneThreadPerReply'
    BY DEF ReplyTypeOK, OneThreadPerReply, Busy
  <2>5. OutOnce'
    BY DEF ReplyTypeOK, OutOnce, NeverOut, AtMostOneSend
  <2>6. QED BY <2>2, <2>3, <2>4, <2>5
<1>6. ASSUME NEW w \in Workers, Verify(w) PROVE Rest'
  <2>1. PICK s \in {"verified", "sent_unverified"} : status' = [status EXCEPT ![w] = s]
    BY <1>6 DEF Verify
  <2>2. /\ pc[w] = "verify" /\ pc' = [pc EXCEPT ![w] = "complete"]
        /\ UNCHANGED <<threadVars, replyVars, bridgeVars, job, since, guid>>
    BY <1>6 DEF Verify
  <2> USE DEF threadVars, replyVars, bridgeVars
  <2>4. ReplyTypeOK'
    BY <2>1, <2>2 DEF ReplyTypeOK, Final
  <2>5. StatusFitsStep'
    BY <2>1, <2>2 DEF ReplyTypeOK, StatusFitsStep, Final, Answered
  <2>6. OneThreadPerReply'
    BY <2>2 DEF ReplyTypeOK, OneThreadPerReply, Busy
  <2>7. OutOnce'
    BY <2>2 DEF ReplyTypeOK, OutOnce, NeverOut, AtMostOneSend
  <2>8. QED BY <2>4, <2>5, <2>6, <2>7
<1>7. ASSUME NEW w \in Workers, Complete(w) PROVE Rest'
  <2>1. job[w] \in Messages /\ status[w] \in Final
    BY <1>7 DEF Complete, OneThreadPerReply, StatusFitsStep, Busy
  <2> USE <1>7, <2>1 DEF Complete, threadVars, bridgeVars
  <2>2. ReplyTypeOK'
    BY DEF ReplyTypeOK, Final, Ids
  <2>3. StatusFitsStep'
    BY DEF ReplyTypeOK, StatusFitsStep, Answered
  <2>4. OneThreadPerReply'
    BY DEF ReplyTypeOK, OneThreadPerReply, Busy
  <2>5. OutOnce'
    BY DEF ReplyTypeOK, OutOnce, NeverOut, AtMostOneSend, Final
  <2>6. QED BY <2>2, <2>3, <2>4, <2>5
<1>8. ASSUME NEW m \in Messages, Arrive(m) PROVE Rest'
  <2>1. /\ m \in inflight /\ created[m] = 0
        /\ created' = [created EXCEPT ![m] = 1] /\ 0 < MaxSends
        /\ inflight' = inflight \ {m}
        /\ UNCHANGED <<threadVars, replyVars, transport, pc, job, status, guid>>
    <3>1. m \in inflight /\ created[m] = 0
      BY <1>8 DEF Arrive, OutOnce
    <3>2. /\ created[m] < MaxSends /\ created' = [created EXCEPT ![m] = created[m] + 1]
          /\ inflight' = inflight \ {m}
          /\ UNCHANGED <<threadVars, replyVars, transport, pc, job, status, guid>>
      BY <1>8 DEF Arrive
    <3>3. QED BY <3>1, <3>2
  <2>2. since' \in [Workers -> SUBSET Hands] /\ alike' \subseteq Messages
    BY <1>8, AppearsType DEF Arrive
  <2>3. ReplyTypeOK'
    BY <2>1, <2>2, ReplyAssumption DEF ReplyTypeOK, threadVars, replyVars
  <2>4. StatusFitsStep' /\ OneThreadPerReply'
    BY <2>1 DEF StatusFitsStep, OneThreadPerReply, Busy, Answered, replyVars
  <2>5. OutOnce'
    BY <2>1, <2>3 DEF ReplyTypeOK, OutOnce, NeverOut, AtMostOneSend, replyVars, OneThreadPerReply, Busy
  <2>6. QED BY <2>3, <2>4, <2>5
<1>9. ASSUME NEW m \in Messages, SentElsewhere(m) PROVE Rest'
  <2>1. UNCHANGED <<threadVars, replyVars, transport, inflight, created, pc, job, status, guid>>
    BY <1>9 DEF SentElsewhere
  <2>2. since' \in [Workers -> SUBSET Hands] /\ alike' \subseteq Messages
    BY <1>9, AppearsType DEF SentElsewhere
  <2>3. ReplyTypeOK'
    BY <2>1, <2>2 DEF ReplyTypeOK, threadVars, replyVars
  <2>4. StatusFitsStep' /\ OneThreadPerReply' /\ OutOnce'
    BY <2>1 DEF StatusFitsStep, OneThreadPerReply, OutOnce, NeverOut, AtMostOneSend, Busy,
                Answered, replyVars
  <2>5. QED BY <2>3, <2>4
<1>10. ASSUME NEW l \in Leads, Mirror(l) PROVE Rest'
  <2>1. Channelled \subseteq Categories /\ bound[l].thread \in Places
    BY ReplyAssumption DEF ReplyTypeOK
  <2>2. mirrored' \subseteq Token
    <3>1. \A c \in {contacts'[l].category} \cap Channelled :
             [lead |-> l, category |-> c, thread |-> bound[l].thread, posted |-> FALSE] \in Token
      BY <2>1 DEF Token
    <3>2. QED BY <1>10, <3>1 DEF Mirror, ReplyTypeOK
  <2>3. ReplyTypeOK'
    BY <1>10, <2>2 DEF Mirror, ReplyTypeOK, replyVars, bridgeVars, workerVars
  <2>4. QED BY <1>10, <2>3, ThreadsElsewhere DEF Mirror, replyVars
<1>11. ASSUME NEW p \in mirrored, NEW t \in Threads, Post(p, t) PROVE Rest'
  <2>1. p \in Token
    BY DEF ReplyTypeOK
  <2>2. home' \in [Threads -> Homes] /\ alive' \subseteq Threads
    BY <1>11, <2>1 DEF Post, ReplyTypeOK, Token, Homes
  <2>3. mirrored' \subseteq Token
    <3>1. [p EXCEPT !.thread = t, !.posted = TRUE] \in Token
      BY <2>1 DEF Token, Places
    <3>2. QED BY <1>11, <3>1 DEF Post, ReplyTypeOK
  <2>4. ReplyTypeOK'
    BY <1>11, <2>2, <2>3 DEF Post, ReplyTypeOK, replyVars, bridgeVars, workerVars
  <2>5. QED BY <1>11, <2>4, ThreadsElsewhere DEF Post, replyVars
<1>12. ASSUME NEW p \in mirrored, ConfirmThread(p) PROVE Rest'
  <2>1. p \in Token
    BY DEF ReplyTypeOK
  <2>2. bound' \in [Leads -> [category : Homes, thread : Places]]
    BY <1>12, <2>1 DEF ConfirmThread, ReplyTypeOK, Token, Homes
  <2>3. ReplyTypeOK'
    BY <1>12, <2>2 DEF ConfirmThread, ReplyTypeOK, replyVars, bridgeVars, workerVars
  <2>4. QED BY <1>12, <2>3, ThreadsElsewhere DEF ConfirmThread, replyVars
<1>13. ASSUME NEW t \in Threads, DeleteThread(t) PROVE Rest'
  <2>1. ReplyTypeOK'
    BY <1>13 DEF DeleteThread, ReplyTypeOK, replyVars, bridgeVars, workerVars
  <2>2. QED BY <1>13, <2>1, ThreadsElsewhere DEF DeleteThread, replyVars
<1>14. ASSUME Registry \/ UNCHANGED allVars PROVE Rest'
  <2>1. UNCHANGED <<threadVars, replyVars, bridgeVars, workerVars>>
    BY <1>14 DEF Registry, allVars
  <2>2. ReplyTypeOK'
    BY <2>1 DEF ReplyTypeOK, threadVars, replyVars, bridgeVars, workerVars
  <2>3. QED BY <2>1, <2>2, ThreadsElsewhere DEF replyVars
<1>15. ASSUME Die PROVE Rest'
  <2> USE <1>15 DEF Die, threadVars
  <2>1. ReplyTypeOK'
    BY DEF ReplyTypeOK, Final, Ids
  <2>2. StatusFitsStep' /\ OneThreadPerReply'
    BY DEF StatusFitsStep, OneThreadPerReply, Busy, Answered
  <2>3. OutOnce'
    BY DEF OutOnce, NeverOut, AtMostOneSend
  <2>4. QED BY <2>1, <2>2, <2>3
<1>16. ASSUME SweepTokens PROVE Rest'
  <2>1. ReplyTypeOK'
    BY <1>16 DEF SweepTokens, ReplyTypeOK, replyVars, bridgeVars, workerVars
  <2>2. QED BY <1>16, <2>1, ThreadsElsewhere DEF SweepTokens, replyVars
<1>17. QED
  BY <1>t, <1>1, <1>2, <1>3, <1>4, <1>5, <1>6, <1>7, <1>8, <1>9, <1>10, <1>11, <1>12,
     <1>13, <1>14, <1>15, <1>16
  DEF ReplyNext, Work

----------------------------------------------------------------------------
(* The theorems *)

LEMMA ReplyInvariance == ReplySpec => []ReplyInv
BY ReplyInvInit, ReplyInvStep, PTL DEF ReplySpec

\* The tables and the request threads are always well formed: in particular
\* every outcome recorded is one complete_contact_reply is meant to record.
THEOREM ReplyTypeCorrect == ReplySpec => []ReplyTypeOK
<1>1. ReplyInv => ReplyTypeOK
  BY DEF ReplyInv, ReplyTypeInv
<1>2. QED BY <1>1, ReplyInvariance, PTL

\* The text of one command goes out at most once, for any number of deliveries,
\* threads and crashes, and however late the bridge is.
THEOREM SendsAtMostOnce == ReplySpec => []AtMostOneSend
<1>1. ReplyInv => AtMostOneSend
  BY DEF ReplyInv, OutOnce
<1>2. QED BY <1>1, ReplyInvariance, PTL

\* A recorded outcome is never rewritten: the thread that completes a command is
\* the one that was authorized to send it.
THEOREM OutcomesAreFinal == ReplySpec => OutcomeIsFinal
<1> DEFINE Kept == \A m \in Messages : replies[m] \in Final => replies'[m] = replies[m]
<1>1. ReplyInv /\ [ReplyNext]_allVars => Kept
  <2> SUFFICES ASSUME ReplyInv, [ReplyNext]_allVars PROVE Kept
    OBVIOUS
  <2>1. CASE UNCHANGED replies
    BY <2>1
  <2>2. ASSUME NEW w \in Workers, NEW m \in Messages, Authorize(w, m) PROVE Kept
    BY <2>2 DEF Authorize, Deliverable, ReplyInv, ReplyTypeInv, ReplyTypeOK, Final
  <2>3. ASSUME NEW w \in Workers, Complete(w) PROVE Kept
    <3>1. replies[job[w]] = "authorized"
      BY <2>3 DEF Complete, ReplyInv, OneThreadPerReply, Busy
    <3>2. QED BY <2>3, <3>1 DEF Complete, ReplyInv, ReplyTypeInv, ReplyTypeOK, Final
  <2>4. QED BY <2>1, <2>2, <2>3
      DEF ReplyNext, Refuse, Work, Start, Send, RecordOutbound, Verify, Arrive, SentElsewhere,
          Mirror, Post, ConfirmThread, SweepTokens, DeleteThread, Registry, Die, replyVars,
          allVars
<1>2. QED BY <1>1, ReplyInvariance, PTL DEF ReplySpec, OutcomeIsFinal

----------------------------------------------------------------------------
(* What "verified" rests on *)

\* The evidence for a text, by the id its send was answered with.
Evidence(m, id) ==
    \/ id = "stub" /\ created[m] = 0
    \/ id # "stub" /\ created[m] > 0
    \/ id = "null" /\ m \in alike

\* What a thread has found is there; what no bridge was handed never goes out; and
\* "verified" comes from the read-back, or from the stub.
SourceInv ==
    /\ \A w \in Workers :
          /\ pc[w] \in {"send", "record", "verify"} =>
                /\ "own" \in since[w] => created[job[w]] > 0
                /\ "other" \in since[w] => job[w] \in alike
          /\ Answered(w) /\ transport # "bridge" => NeverOut(job[w])
          /\ pc[w] = "complete" /\ status[w] = "verified" => Evidence(job[w], guid[w])
    /\ \A m \in Messages : ids[m] = "stub" => replies[m] \in Final /\ NeverOut(m)
    /\ \A m \in Messages : replies[m] = "verified" => Evidence(m, ids[m])

\* Evidence lasts: nothing that was found in the history goes away, and what the
\* stub took is never handed to a bridge.
LEMMA SourceInvGrows ==
    ASSUME ReplyInv, SourceInv, NEW m \in Messages, NEW own, Appears(m, own),
           UNCHANGED <<replies, ids, transport, pc, job, status, guid>>,
           \A n \in Messages : /\ NeverOut(n) => NeverOut(n)'
                               /\ created[n] > 0 => created'[n] > 0
                               /\ n \in own => created'[n] > 0
    PROVE  SourceInv'
<1>1. alike \subseteq alike'
  BY DEF Appears
<1>2. \A n \in Messages : NeverOut(n) => created'[n] = 0
  BY DEF NeverOut
<1>3. ASSUME NEW w \in Workers, pc[w] \in {"send", "record", "verify"}
      PROVE  /\ "own" \in since'[w] => created'[job[w]] > 0
             /\ "other" \in since'[w] => job[w] \in alike'
  <2>1. job[w] \in Messages
    BY <1>3 DEF ReplyInv, OneThreadPerReply, Busy
  <2>2. since'[w] = since[w] \cup {IF job[w] \in own THEN "own" ELSE "other" :
                                      v \in {w} \cap Listening(m)}
    BY DEF Appears
  <2>3. "own" \in since'[w] => "own" \in since[w] \/ job[w] \in own
    BY <2>2
  <2>4. "other" \in since'[w] => "other" \in since[w] \/ (w \in Listening(m) /\ job[w] \notin own)
    BY <2>2
  <2>5. w \in Listening(m) /\ job[w] \notin own => job[w] \in alike'
    BY DEF Appears
  <2>6. QED BY <1>1, <1>3, <2>1, <2>3, <2>4, <2>5 DEF SourceInv
<1>4. ASSUME NEW w \in Workers, Answered(w), transport # "bridge" PROVE NeverOut(job[w])'
  BY <1>4 DEF SourceInv, ReplyInv, OneThreadPerReply, Busy, Answered
<1>5. ASSUME NEW n \in Messages, NEW id, Evidence(n, id), id = "stub" => NeverOut(n)
      PROVE  Evidence(n, id)'
  BY <1>1, <1>2, <1>5 DEF Evidence
<1>6. ASSUME NEW w \in Workers, pc[w] = "complete", status[w] = "verified"
      PROVE  Evidence(job[w], guid[w])'
  <2>1. job[w] \in Messages /\ Evidence(job[w], guid[w])
    BY <1>6 DEF SourceInv, ReplyInv, OneThreadPerReply, Busy
  <2>2. guid[w] = "stub" => NeverOut(job[w])
    BY <1>6 DEF SourceInv, ReplyInv, ReplyTypeInv, StatusFitsStep, Answered
  <2>3. Evidence(job[w], guid[w]) => (Evidence(job[w], guid[w]))'
    BY <1>1, <1>2, <2>1, <2>2 DEF Evidence
  <2>4. QED BY <2>1, <2>3
<1>7. ASSUME NEW n \in Messages, replies[n] = "verified" PROVE Evidence(n, ids[n])'
  <2>1. Evidence(n, ids[n]) /\ (ids[n] = "stub" => NeverOut(n))
    BY <1>7 DEF SourceInv
  <2>2. QED BY <1>1, <1>2, <2>1 DEF Evidence
<1>8. QED BY <1>3, <1>4, <1>6, <1>7 DEF SourceInv, Answered

LEMMA SourceInvStep ==
    ASSUME ReplyInv, SourceInv, [ReplyNext]_allVars
    PROVE  SourceInv'
<1> USE DEF ReplyInv, ReplyTypeInv, SourceInv
<1>1. ASSUME NEW w \in Workers, NEW m \in Messages, Authorize(w, m) PROVE SourceInv'
  BY <1>1 DEF Authorize, Deliverable, bridgeVars, ReplyTypeOK, OneThreadPerReply, Busy,
              Answered, NeverOut, Evidence, Final
<1>2. ASSUME NEW w \in Workers, Start(w) PROVE SourceInv'
  BY <1>2 DEF Start, replyVars, bridgeVars, ReplyTypeOK, Answered, NeverOut, Evidence
<1>3. ASSUME NEW w \in Workers, Send(w) PROVE SourceInv'
  <2>1. /\ pc[w] = "send"
        /\ job[w] \in Messages
        /\ replies[job[w]] = "authorized"
        /\ NeverOut(job[w])
    BY <1>3 DEF Send, OneThreadPerReply, OutOnce, Busy
  <2>2. /\ pc' = [pc EXCEPT ![w] = "record"]
        /\ transport # "bridge" => inflight' = inflight
        /\ \A n \in Messages \ {job[w]} : n \in inflight' <=> n \in inflight
        /\ UNCHANGED <<replyVars, transport, created, alike, job, since>>
        /\ \A v \in Workers \ {w} : status'[v] = status[v] /\ guid'[v] = guid[v]
    BY <1>3 DEF Send, ReplyTypeOK
  <2>3. \A n \in Messages \ {job[w]} : NeverOut(n) => NeverOut(n)'
    BY <2>2 DEF NeverOut
  <2>4. transport # "bridge" => NeverOut(job[w])'
    BY <2>1, <2>2 DEF NeverOut
  <2>5. \A v \in Workers \ {w} : pc[v] # "idle" => job[v] \in Messages /\ job[v] # job[w]
    BY <2>1 DEF OneThreadPerReply, Busy
  <2>6. pc'[w] = "record" /\ \A v \in Workers \ {w} : pc'[v] = pc[v]
    BY <2>2 DEF ReplyTypeOK
  <2>7. \A n \in Messages : ids[n] = "stub" => n # job[w]
    BY <2>1 DEF Final
  <2>8. QED
    BY <2>1, <2>2, <2>3, <2>4, <2>5, <2>6, <2>7 DEF Answered, replyVars, Evidence
<1>4. ASSUME NEW w \in Workers, RecordOutbound(w) PROVE SourceInv'
  <2>1. <<status[w], guid[w]>> \in Answers[transport] /\ transport \in Transports
    BY <1>4 DEF RecordOutbound, StatusFitsStep, ReplyTypeOK
  <2>2. status[w] \in SendStatus
    BY <2>1, AnswerFacts
  <2>3. status[w] # "verified"
    BY <2>2 DEF SendStatus
  <2>4. QED BY <1>4, <2>3 DEF RecordOutbound, bridgeVars, ReplyTypeOK, Answered, NeverOut, Evidence
<1>5. ASSUME NEW w \in Workers, Verify(w) PROVE SourceInv'
  <2>1. PICK s \in {"verified", "sent_unverified"} :
           /\ status' = [status EXCEPT ![w] = s]
           /\ s = "verified" => transport = "stub" \/ ReadBack(w) # {}
    BY <1>5 DEF Verify
  <2>2. /\ pc[w] = "verify" /\ pc' = [pc EXCEPT ![w] = "complete"]
        /\ UNCHANGED <<replyVars, bridgeVars, job, since, guid>>
    BY <1>5 DEF Verify
  <2>3. s = "verified" => Evidence(job[w], guid[w])
    <3>1. guid[w] = "stub" <=> transport = "stub"
      BY <2>2 DEF StatusFitsStep, Answered
    <3>2. transport = "stub" => NeverOut(job[w])
      BY <2>2 DEF Answered
    <3>3. since[w] \subseteq Hands
      BY DEF ReplyTypeOK
    <3>4. ReadBack(w) # {} => "own" \in since[w] \/ (guid[w] = "null" /\ "other" \in since[w])
      BY <3>3 DEF ReadBack, Hands
    <3>5. QED BY <2>1, <2>2, <3>1, <3>2, <3>4 DEF Evidence, NeverOut
  <2>4. QED
    BY <2>1, <2>2, <2>3 DEF replyVars, bridgeVars, ReplyTypeOK, Answered, NeverOut, Evidence
<1>6. ASSUME NEW w \in Workers, Complete(w) PROVE SourceInv'
  <2>1. /\ pc[w] = "complete" /\ job[w] \in Messages /\ status[w] \in Final
        /\ status[w] = "verified" => Evidence(job[w], guid[w])
        /\ guid[w] = "stub" => NeverOut(job[w])
    BY <1>6 DEF Complete, OneThreadPerReply, Busy, StatusFitsStep, Answered
  <2>2. QED
    BY <1>6, <2>1
    DEF Complete, bridgeVars, ReplyTypeOK, OneThreadPerReply, Busy, Answered, NeverOut, Evidence
<1>7. ASSUME NEW m \in Messages, Arrive(m) PROVE SourceInv'
  <2>1. /\ m \in inflight /\ created[m] = 0
        /\ inflight' = inflight \ {m}
        /\ created' = [created EXCEPT ![m] = created[m] + 1]
        /\ Appears(m, {m})
        /\ UNCHANGED <<replies, ids, transport, pc, job, status, guid>>
    BY <1>7 DEF Arrive, OutOnce, replyVars
  <2>2. created'[m] = 1 /\ \A n \in Messages \ {m} : created'[n] = created[n]
    BY <2>1 DEF ReplyTypeOK
  <2>3. \A n \in Messages : /\ NeverOut(n) => NeverOut(n)'
                            /\ created[n] > 0 => created'[n] > 0
                            /\ n \in {m} => created'[n] > 0
    BY <2>1, <2>2 DEF NeverOut
  <2> HIDE DEF ReplyInv, SourceInv
  <2>4. QED BY <2>1, <2>3, SourceInvGrows
<1>8. ASSUME NEW m \in Messages, SentElsewhere(m) PROVE SourceInv'
  <2>1. /\ Appears(m, {})
        /\ UNCHANGED <<replies, ids, transport, inflight, created, pc, job, status, guid>>
    BY <1>8 DEF SentElsewhere, replyVars
  <2>2. \A n \in Messages : /\ NeverOut(n) => NeverOut(n)'
                            /\ created[n] > 0 => created'[n] > 0
                            /\ n \in {} => created'[n] > 0
    BY <2>1 DEF NeverOut
  <2> HIDE DEF ReplyInv, SourceInv
  <2>3. QED BY <2>1, <2>2, SourceInvGrows
<1>9. ASSUME Die PROVE SourceInv'
  BY <1>9 DEF Die, Answered, NeverOut, Evidence
<1>10. CASE UNCHANGED <<replies, ids, bridgeVars, workerVars>>
  BY <1>10 DEF bridgeVars, workerVars, Answered, NeverOut, Evidence
<1>11. QED
  BY <1>1, <1>2, <1>3, <1>4, <1>5, <1>6, <1>7, <1>8, <1>9, <1>10
  DEF ReplyNext, Work, Refuse, Mirror, Post, ConfirmThread, SweepTokens, DeleteThread,
      Registry, replyVars, bridgeVars, workerVars, allVars

LEMMA SourceInvariance == ReplySpec => []SourceInv
<1>1. ReplyInit => SourceInv
  BY DEF ReplyInit, SourceInv, Answered, Evidence
<1>2. ReplyInv /\ SourceInv /\ [ReplyNext]_allVars => SourceInv'
  BY SourceInvStep
<1>3. QED BY <1>1, <1>2, ReplyInvariance, PTL DEF ReplySpec

\* What "verified" is worth, for any messages with any texts, any threads, restarts
\* with another transport, late arrivals and other senders: with an id of the bridge
\* the command's own text is in the history, without one it is or the same words
\* went to the contact during the attempt, and with the stub's nothing went out.
THEOREM VerifiedHasItsSource == ReplySpec => []VerifiedInSource
<1>1. SourceInv => VerifiedInSource
  BY DEF SourceInv, VerifiedInSource, Evidence
<1>2. QED BY <1>1, SourceInvariance, PTL

----------------------------------------------------------------------------
(* The lane as a desk: the table outbound tells the same story *)

\* The attempt in hand is noted once, after the send; what it was noted as is what
\* the outcome will say; and what was noted as held never goes out.
NotedAsItWas ==
    /\ \A m \in Messages :
          /\ replies[m] = "none" => outbound[m] = {}
          /\ "outbound_disabled" \in outbound[m] => replies[m] # "none" /\ NeverOut(m)
    /\ \A w \in Workers :
          /\ pc[w] \in {"start", "send", "record"} => outbound[job[w]] = {}
          /\ pc[w] = "verify" => outbound[job[w]] = {"sent"}
          /\ pc[w] = "complete" => outbound[job[w]] = {Desk!AttemptOf(status[w])}

LEMMA NotedStep ==
    ASSUME ReplyInv, SourceInv, NotedAsItWas, [ReplyNext]_allVars
    PROVE  NotedAsItWas'
<1> USE DEF ReplyInv, ReplyTypeInv, NotedAsItWas
<1>1. ASSUME NEW w \in Workers, NEW m \in Messages, Authorize(w, m) PROVE NotedAsItWas'
  BY <1>1 DEF Authorize, Deliverable, bridgeVars, ReplyTypeOK, OneThreadPerReply, Busy, NeverOut
<1>2. ASSUME NEW w \in Workers, Start(w) PROVE NotedAsItWas'
  BY <1>2 DEF Start, replyVars, bridgeVars, ReplyTypeOK, NeverOut
<1>3. ASSUME NEW w \in Workers, Send(w) PROVE NotedAsItWas'
  <2>1. pc[w] = "send" /\ job[w] \in Messages /\ outbound[job[w]] = {}
    BY <1>3 DEF Send, OneThreadPerReply, Busy
  <2>2. /\ pc' = [pc EXCEPT ![w] = "record"]
        /\ \A n \in Messages \ {job[w]} : n \in inflight' <=> n \in inflight
        /\ UNCHANGED <<replies, outbound, created, job>>
        /\ \A v \in Workers \ {w} : status'[v] = status[v]
    BY <1>3 DEF Send, ReplyTypeOK, replyVars
  <2>3. QED BY <2>1, <2>2 DEF ReplyTypeOK, NeverOut
<1>4. ASSUME NEW w \in Workers, RecordOutbound(w) PROVE NotedAsItWas'
  <2>1. /\ pc[w] = "record"
        /\ job[w] \in Messages
        /\ replies[job[w]] = "authorized"
        /\ outbound' = [outbound EXCEPT ![job[w]] = {status[w]}]
        /\ pc' = [pc EXCEPT ![w] = IF status[w] = "sent" THEN "verify" ELSE "complete"]
        /\ UNCHANGED <<replies, bridgeVars, job, status>>
    BY <1>4 DEF RecordOutbound, OneThreadPerReply, Busy
  <2>2. <<status[w], guid[w]>> \in Answers[transport] /\ transport \in Transports
    BY <2>1 DEF StatusFitsStep, ReplyTypeOK
  <2>3. status[w] \in SendStatus /\ (status[w] = "outbound_disabled" => transport # "bridge")
    BY <2>2, AnswerFacts
  <2>4. status[w] = "outbound_disabled" => NeverOut(job[w])
    BY <2>1, <2>3 DEF SourceInv, Answered
  <2>5. status[w] # "sent" => Desk!AttemptOf(status[w]) = status[w]
    BY <2>3 DEF SendStatus, Desk!AttemptOf
  <2>6. \A v \in Workers \ {w} : pc[v] # "idle" => job[v] \in Messages /\ job[v] # job[w]
    BY <2>1 DEF OneThreadPerReply, Busy
  <2>7. QED BY <2>1, <2>4, <2>5, <2>6 DEF ReplyTypeOK, bridgeVars, NeverOut
<1>5. ASSUME NEW w \in Workers, Verify(w) PROVE NotedAsItWas'
  <2>1. PICK s \in {"verified", "sent_unverified"} : status' = [status EXCEPT ![w] = s]
    BY <1>5 DEF Verify
  <2>2. Desk!AttemptOf(s) = "sent"
    BY DEF Desk!AttemptOf
  <2>3. QED BY <1>5, <2>1, <2>2 DEF Verify, replyVars, bridgeVars, ReplyTypeOK, NeverOut
<1>6. ASSUME NEW w \in Workers, Complete(w) PROVE NotedAsItWas'
  <2>1. job[w] \in Messages /\ status[w] # "none"
    BY <1>6 DEF Complete, OneThreadPerReply, Busy, StatusFitsStep, Final
  <2>2. QED BY <1>6, <2>1 DEF Complete, bridgeVars, ReplyTypeOK, OneThreadPerReply, Busy, NeverOut
<1>7. ASSUME NEW m \in Messages, Arrive(m) PROVE NotedAsItWas'
  <2>1. \A n \in Messages : NeverOut(n) => NeverOut(n)'
    BY <1>7 DEF Arrive, NeverOut, ReplyTypeOK
  <2>2. QED BY <1>7, <2>1 DEF Arrive, replyVars
<1>8. ASSUME NEW m \in Messages, SentElsewhere(m) PROVE NotedAsItWas'
  BY <1>8 DEF SentElsewhere, replyVars, NeverOut
<1>9. ASSUME Die PROVE NotedAsItWas'
  BY <1>9 DEF Die, NeverOut
<1>10. CASE UNCHANGED <<replies, outbound, bridgeVars, workerVars>>
  BY <1>10 DEF bridgeVars, workerVars, NeverOut
<1>11. QED
  BY <1>1, <1>2, <1>3, <1>4, <1>5, <1>6, <1>7, <1>8, <1>9, <1>10
  DEF ReplyNext, Work, Refuse, Mirror, Post, ConfirmThread, SweepTokens, DeleteThread,
      Registry, replyVars, bridgeVars, workerVars, allVars

LEMMA NotedInvariance == ReplySpec => []NotedAsItWas
<1>1. ReplyInit => NotedAsItWas
  BY DEF ReplyInit, NotedAsItWas
<1>2. ReplyInv /\ SourceInv /\ NotedAsItWas /\ [ReplyNext]_allVars => NotedAsItWas'
  BY NotedStep
<1>3. QED BY <1>1, <1>2, ReplyInvariance, SourceInvariance, PTL DEF ReplySpec

\* Every step of the lane is one of the desk, or none.  The read-back and the begin
\* and the answer of a send are the lane's own.
LEMMA DeskStep ==
    ASSUME ReplyInv, SourceInv, NotedAsItWas, [ReplyNext]_allVars
    PROVE  [Desk!Next]_(Desk!vars)
<1> USE DEF ReplyInv, ReplyTypeInv
<1>g. Granted \subseteq Leads /\ Granted' \subseteq Leads
  BY DEF Granted
<1>x. transport \in Transports /\ transport' \in Transports
  BY ReplyInvStep DEF ReplyTypeOK
<1>r. ASSUME UNCHANGED <<replies, outbound, created, alike>> PROVE Desk!Decide
  BY <1>r, <1>g, <1>x DEF Desk!Decide
<1>v. UNCHANGED vars => Granted' = Granted
  BY DEF vars, Granted
<1>1. ASSUME NEW w \in Workers, NEW m \in Messages, Authorize(w, m) PROVE Desk!Open(m)
  <2>1. LeadOfMessage[m] \in Granted
    BY <1>1, ReplyAssumption DEF Authorize, MayReply, Granted, LeadOfMessage, Lead
  <2>2. QED BY <1>1, <1>v, <2>1 DEF Authorize, Deliverable, bridgeVars, Desk!Open
<1>2. ASSUME NEW w \in Workers, RecordOutbound(w)
      PROVE  \E m \in Messages, s \in Desk!Attempts : Desk!Log(m, s)
  <2>1. /\ job[w] \in Messages
        /\ replies[job[w]] = "authorized"
        /\ outbound[job[w]] = {}
    BY <1>2 DEF RecordOutbound, OneThreadPerReply, NotedAsItWas, Busy
  <2>2. <<status[w], guid[w]>> \in Answers[transport]
    BY <1>2 DEF RecordOutbound, StatusFitsStep
  <2>3. status[w] \in SendStatus /\ (status[w] = "outbound_disabled" => transport # "bridge")
    BY <1>x, <2>2, AnswerFacts
  <2>4. status[w] = "outbound_disabled" => created[job[w]] = 0
    BY <1>2, <2>3 DEF RecordOutbound, SourceInv, Answered, NeverOut
  <2>5. /\ outbound' = [outbound EXCEPT ![job[w]] = {status[w]}]
        /\ UNCHANGED <<vars, replies, bridgeVars>>
    BY <1>2, <2>1 DEF RecordOutbound
  <2>6. Desk!Log(job[w], status[w])
    BY <1>v, <2>1, <2>4, <2>5 DEF Desk!Log, bridgeVars
  <2>7. status[w] \in Desk!Attempts
    BY <2>3 DEF SendStatus, Desk!Attempts
  <2>8. QED BY <2>1, <2>6, <2>7
<1>3. ASSUME NEW w \in Workers, Complete(w)
      PROVE  \E m \in Messages, o \in Desk!Outcomes : Desk!Close(m, o)
  <2>1. /\ job[w] \in Messages
        /\ replies[job[w]] = "authorized"
        /\ outbound[job[w]] = {Desk!AttemptOf(status[w])}
        /\ status[w] \in Desk!Outcomes
    BY <1>3
    DEF Complete, OneThreadPerReply, NotedAsItWas, Busy, StatusFitsStep, Final,
        Desk!Outcomes, Desk!Attempts
  <2>2. status[w] = "verified" => Desk!Backed(job[w])
    <3>1. guid[w] = "stub" <=> transport = "stub"
      BY <1>3 DEF Complete, StatusFitsStep, Answered
    <3>2. status[w] = "verified" => Evidence(job[w], guid[w])
      BY <1>3 DEF Complete, SourceInv
    <3>3. QED BY <3>1, <3>2 DEF Evidence, Desk!Backed
  <2>3. /\ replies' = [replies EXCEPT ![job[w]] = status[w]]
        /\ UNCHANGED <<vars, outbound, bridgeVars>>
    BY <1>3 DEF Complete
  <2>4. Desk!Close(job[w], status[w])
    BY <1>v, <2>1, <2>2, <2>3 DEF Desk!Close, bridgeVars
  <2>5. QED BY <2>1, <2>4
<1>4. ASSUME NEW m \in Messages, NEW own, Appears(m, own) PROVE Desk!Heard(m)
  <2>1. \A w \in Listening(m) : /\ job[w] \in Messages
                                /\ replies[job[w]] = "authorized"
                                /\ Lead(job[w]) = Lead(m) /\ BodyOf[job[w]] = BodyOf[m]
    BY DEF Listening, OneThreadPerReply, Busy
  <2>2. \A n \in alike' \ alike : replies[n] = "authorized" /\ Desk!SameText(m, n)
    BY <1>4, <2>1 DEF Appears, Desk!SameText, LeadOfMessage
  <2>3. QED BY <1>4, <2>2 DEF Appears, Desk!Heard
<1>5. ASSUME NEW m \in Messages, Arrive(m) PROVE Desk!Deliver(m)
  <2>1. /\ m \in inflight /\ created[m] = 0 /\ replies[m] # "none"
        /\ "outbound_disabled" \notin outbound[m]
    BY <1>5 DEF Arrive, OutOnce, NotedAsItWas, NeverOut
  <2>2. /\ created' = [created EXCEPT ![m] = created[m] + 1]
        /\ Appears(m, {m})
        /\ UNCHANGED <<vars, replies, outbound, transport>>
    BY <1>5 DEF Arrive, replyVars
  <2>3. created' = [created EXCEPT ![m] = 1]
    BY <2>1, <2>2
  <2>4. m \in alike' => m \in alike
    BY <2>2 DEF Appears
  <2>5. QED BY <1>4, <1>v, <2>1, <2>2, <2>3, <2>4 DEF Desk!Deliver
<1>6. ASSUME NEW m \in Messages, SentElsewhere(m) PROVE Desk!Overhear(m)
  <2>1. Appears(m, {}) /\ UNCHANGED <<vars, replies, outbound, transport, created>>
    BY <1>6 DEF SentElsewhere, replyVars
  <2>2. QED BY <1>4, <1>v, <2>1 DEF Desk!Overhear
<1>7. CASE UNCHANGED <<replies, outbound, created, alike>>
  BY <1>7, <1>r DEF Desk!Next
<1>8. ASSUME NEW w \in Workers, Start(w) \/ Send(w) \/ Verify(w)
      PROVE  UNCHANGED <<replies, outbound, created, alike>>
  BY <1>8 DEF Start, Send, Verify, replyVars, bridgeVars
<1>9. QED
  BY <1>1, <1>2, <1>3, <1>5, <1>6, <1>7, <1>8
  DEF ReplyNext, Work, Refuse, Mirror, Post, ConfirmThread, SweepTokens, DeleteThread,
      Registry, Die, replyVars, bridgeVars, allVars, Desk!Next

\* The reviewed-reply lane implements the desk: for any leads, commands, texts,
\* transports and request threads, a command is taken in once and under a grant, its
\* text goes out once at most and not after it was noted as held, and it ends once,
\* as both tables say.
THEOREM DeskImplementation == ReplySpec => ImplementsDesk
<1>1. ReplyInit => Desk!Init
  <2>1. ReplyInit => Granted = {}
    BY DEF ReplyInit, Init, NoRow, Granted
  <2>2. QED BY <2>1 DEF ReplyInit, Desk!Init
<1>2. ReplyInv /\ SourceInv /\ NotedAsItWas /\ [ReplyNext]_allVars
        => [Desk!Next]_(Desk!vars)
  BY DeskStep
<1>3. QED
  BY <1>1, <1>2, ReplyInvariance, SourceInvariance, NotedInvariance, PTL
  DEF ReplySpec, ImplementsDesk, Desk!Spec
===============================================================================
