------------------------ MODULE InboundPipelineProofs ------------------------
(***************************************************************************)
(* What the inbound pipeline promises for any number of messages, any      *)
(* limits and any number of crashes.                                       *)
(***************************************************************************)
EXTENDS InboundPipeline, FiniteSetTheorems, TLAPS

\* What the holder of the lock has established by the time it gets to a step.
JobOK ==
    /\ Free => job = Idle
    /\ job.step \in {"limit", "send", "count", "settle"} =>
          /\ job.event \in Messages
          /\ job.lane \in Lanes
          /\ inbound[job.event] = "pending"
    /\ job.step \in {"send", "count"} => limits[job.lane].count < Allowed[job.lane]
    /\ job.step \in {"queue", "relay"} => job.event \in Messages /\ inbound[job.event] # "none"
    /\ At("log") => job.event \in Orders
    /\ job.step \in {"remind", "close"} => job.event = "check"

\* A message is answered by the job that recorded it, and not before.
AttemptsOK ==
    \A m \in Messages :
        /\ attempts[m] <= 1
        /\ attempts[m] # 0 => inbound[m] # "none"
        /\ job.event = m /\ job.step \in {"limit", "send"} => attempts[m] = 0

\* The try at telling the owner is the last step of that job.
ToldOK ==
    \A m \in Messages :
        /\ told[m] <= (IF m \in unheard THEN 0 ELSE 1)
        /\ told[m] # 0 \/ m \in unheard => inbound[m] # "none" /\ job.event # m

\* A check leaves "pending" for good before it is relayed.
RemindedOK ==
    /\ reminded # 0 => seen.status \in {"sending", "sent", "failed"} /\ ~At("remind")
    /\ At("remind") => grant = "none" /\ seen.status = "sending"

\* An order runs before its event is recorded, and within the same job.
RanOK ==
    \A o \in Orders \ lost :
        /\ ran[o] <= 1
        /\ ran[o] # 0 => inbound[o] # "none" \/ (At("log") /\ job.event = o)

IInv ==
    /\ InboundTypeOK
    /\ JobOK
    /\ AttemptsOK
    /\ ToldOK
    /\ RemindedOK
    /\ RanOK
    /\ EachRelayTried

----------------------------------------------------------------------------

LEMMA AllowedType ==
    /\ Allowed \in [Lanes -> Nat]
    /\ \A l \in Lanes : MaxIn[l] <= Allowed[l]
    /\ "tier2" \in Lanes /\ Allowed["tier2"] > 0
BY PipelineAssumption DEF Allowed, MaxIn, Lanes

\* A job begins well formed, and moves on well formed.
LEMMA JobBegins ==
    ASSUME NEW step \in Steps, NEW e \in Events \cup {"check"},
           NEW lane \in Lanes \cup {"none"}, NEW ack \in BOOLEAN
    PROVE  Job(step, e, lane, ack) \in Jobs
BY DEF Job, Jobs

LEMMA JobMoves ==
    ASSUME job \in Jobs, NEW step \in Steps, NEW sent \in BOOLEAN
    PROVE  /\ [job EXCEPT !.step = step] \in Jobs
           /\ [job EXCEPT !.step = step, !.sent = sent] \in Jobs
BY DEF Jobs

LEMMA CountedType ==
    ASSUME now \in Nat, NEW row \in [start: Nat, count: Nat, ack: Nat]
    PROVE  /\ Counted(row) \in [start: Nat, count: Nat, ack: Nat]
           /\ Counted(row).count = row.count + 1
BY DEF Counted

LEMMA IdleJob == Idle \in Jobs
BY DEF Idle, Jobs

LEMMA TypeKept ==
    ASSUME InboundTypeOK, JobOK, Next PROVE InboundTypeOK'
<1> USE PipelineAssumption, AllowedType DEF InboundTypeOK, JobOK, At, Free, tables,
        history, Events
<1>1. ASSUME NEW m \in Messages, ReceiveTier1(m) PROVE InboundTypeOK'
  <2>a. PICK step \in {"settle", "limit"}, ack \in BOOLEAN : job' = Job(step, m, "tier1", ack)
    BY <1>1 DEF ReceiveTier1
  <2>1. job' \in Jobs
    BY <2>a, JobBegins DEF Lanes, Steps
  <2> QED
    BY <1>1, <2>1 DEF ReceiveTier1, New, Record
<1>2. ASSUME NEW m \in Messages, ReceiveTier2(m) PROVE InboundTypeOK'
  <2>a. PICK step \in {"settle", "limit"} : job' = Job(step, m, "tier2", FALSE)
    BY <1>2 DEF ReceiveTier2
  <2>1. job' \in Jobs
    BY <2>a, JobBegins DEF Lanes, Steps
  <2> QED
    BY <1>2, <2>1 DEF ReceiveTier2, New, Record
<1>3. ASSUME NEW m \in Messages, ReceiveSilently(m) PROVE InboundTypeOK'
  <2>a. job' = Idle \/ job' = Job("relay", m, "none", FALSE)
    BY <1>3 DEF ReceiveSilently
  <2>b. Job("relay", m, "none", FALSE) \in Jobs
    BY JobBegins DEF Steps
  <2>1. job' \in Jobs
    BY <2>a, <2>b, IdleJob
  <2> QED
    BY <1>3, <2>1 DEF ReceiveSilently, New
<1>4. ASSUME NEW o \in Orders, Execute(o) PROVE InboundTypeOK'
  <2>1. job' \in Jobs
    BY <1>4, JobBegins DEF Execute, Steps
  <2>2. grant' \in {"none", "active", "downgraded", "blocked"}
    BY <1>4 DEF Execute, After
  <2>3. ran' \in [Orders -> Nat]
    BY <1>4 DEF Execute
  <2> QED
    BY <1>4, <2>1, <2>2, <2>3 DEF Execute
<1>5. ASSUME NEW e \in Events, Duplicate(e) PROVE InboundTypeOK'
    BY <1>5 DEF Duplicate, vars
<1>6. CASE CheckLimit
  <2>1. job' \in Jobs
    BY <1>6, JobMoves DEF CheckLimit, Steps
  <2> QED
    BY <1>6, <2>1 DEF CheckLimit, Within, NoLimit, Lanes
<1>7. CASE Send
  <2>1. job' \in Jobs
    <3>1. PICK sent \in BOOLEAN : job' = [job EXCEPT !.step = "count", !.sent = sent]
      BY <1>7 DEF Send
    <3> QED
      BY <3>1, JobMoves DEF Steps
  <2> QED
    BY <1>7, <2>1 DEF Send, Lanes
<1>8. CASE Count
  <2>1. job' \in Jobs
    BY <1>8, JobMoves DEF Count, Steps
  <2>2. job.sent => job.lane \in Lanes /\ limits[job.lane].count < Allowed[job.lane]
    BY <1>8 DEF Count
  <2>3. limits' \in [Lanes -> [start: Nat, count: Nat, ack: Nat]]
    BY <1>8, <2>2, CountedType DEF Count
  <2>4. \A l \in Lanes : limits'[l].count <= Allowed[l]
    BY <1>8, <2>2, CountedType DEF Count
  <2> QED
    BY <1>8, <2>1, <2>3, <2>4 DEF Count
<1>9. CASE Settle
  <2>1. job' \in Jobs
    BY <1>9, JobMoves DEF Settle, Steps
  <2> QED
    BY <1>9, <2>1 DEF Settle
<1>10. CASE QueueCheck
  <2>1. job' \in Jobs
    BY <1>10, JobMoves DEF QueueCheck, Steps
  <2> QED
    BY <1>10, <2>1 DEF QueueCheck, Queued
<1>11. CASE Relay
  <2>1. job' \in Jobs
    BY <1>11, IdleJob DEF Relay
  <2>2. job.event \in Messages
    BY <1>11 DEF Relay
  <2>3. told' \in [Messages -> Nat] /\ unheard' \subseteq Messages
    BY <1>11, <2>2 DEF Relay, Relayed
  <2> QED
    BY <1>11, <2>1, <2>3 DEF Relay
<1>12. CASE Log
  <2>1. job' \in Jobs
    BY <1>12, IdleJob DEF Log
  <2> QED
    BY <1>12, <2>1 DEF Log, Logged
<1>13. CASE CancelCheck
    BY <1>13 DEF CancelCheck, Due
<1>14. CASE ClaimCheck
  <2>1. job' \in Jobs
    BY <1>14, JobBegins DEF ClaimCheck, Steps
  <2> QED
    BY <1>14, <2>1 DEF ClaimCheck, Due, Claimed
<1>15. CASE Remind
  <2>1. job' \in Jobs
    BY <1>15, JobMoves DEF Remind, Steps
  <2> QED
    BY <1>15, <2>1 DEF Remind
<1>16. CASE CloseCheck
  <2>1. job' \in Jobs
    BY <1>16, IdleJob DEF CloseCheck
  <2> QED
    BY <1>16, <2>1 DEF CloseCheck
<1>17. CASE Crash
  <2>1. job' \in Jobs
    BY <1>17, IdleJob DEF Crash
  <2> QED
    BY <1>17, <2>1 DEF Crash, Jobs, Steps
<1>18. CASE Tick
    BY <1>18 DEF Tick
<1> QED
    BY <1>1, <1>2, <1>3, <1>4, <1>5, <1>6, <1>7, <1>8, <1>9, 
       <1>10, <1>11, <1>12, <1>13, <1>14, <1>15, <1>16, <1>17, <1>18 DEF Next, Work,
       Sweep

LEMMA JobKept ==
    ASSUME InboundTypeOK, JobOK, Next PROVE JobOK'
<1> USE PipelineAssumption, AllowedType DEF InboundTypeOK, JobOK, At, Free, tables,
        history, Idle, Events, Jobs
<1>1. ASSUME NEW m \in Messages, ReceiveTier1(m) PROVE JobOK'
  <2>1. inbound'[m] = "pending"
    BY <1>1 DEF ReceiveTier1, Record
  <2>2. /\ job'.event = m
        /\ job'.step \in {"limit", "settle"}
        /\ job'.lane \in Lanes
    BY <1>1 DEF ReceiveTier1, Job, Lanes
  <2> QED
    BY <2>1, <2>2
<1>2. ASSUME NEW m \in Messages, ReceiveTier2(m) PROVE JobOK'
  <2>1. inbound'[m] = "pending"
    BY <1>2 DEF ReceiveTier2, Record
  <2>2. /\ job'.event = m
        /\ job'.step \in {"limit", "settle"}
        /\ job'.lane \in Lanes
    BY <1>2 DEF ReceiveTier2, Job, Lanes
  <2> QED
    BY <2>1, <2>2
<1>3. ASSUME NEW m \in Messages, ReceiveSilently(m) PROVE JobOK'
    BY <1>3 DEF ReceiveSilently, New, Job
<1>4. ASSUME NEW o \in Orders, Execute(o) PROVE JobOK'
    BY <1>4 DEF Execute, New, Job
<1>5. ASSUME NEW e \in Events, Duplicate(e) PROVE JobOK'
    BY <1>5 DEF Duplicate, vars
<1>6. CASE CheckLimit
  <2> DEFINE lane == job.lane
             over == now - limits[lane].start >= Day
             row == IF over THEN [NoLimit EXCEPT !.start = now] ELSE limits[lane]
  <2>1. /\ job.event \in Messages /\ lane \in Lanes /\ inbound[job.event] = "pending"
        /\ UNCHANGED inbound
        /\ limits' = [limits EXCEPT ![lane] = row]
    BY <1>6 DEF CheckLimit
  <2>2. PICK step \in {"send", "settle"} :
            /\ job' = [job EXCEPT !.step = step]
            /\ step = "send" => (over /\ lane = "tier2") \/ Within(lane, row, job.ack)
    BY <1>6 DEF CheckLimit
  <2>3. limits'[lane] = row
    BY <2>1
  <2>4. step = "send" => row.count < Allowed[lane]
    <3>1. CASE over /\ lane = "tier2"
      BY <3>1 DEF NoLimit
    <3>2. CASE Within(lane, row, job.ack)
      <4>1. row.count < MaxIn[lane] /\ MaxIn[lane] <= Allowed[lane]
        BY <2>1, <3>2 DEF Within
      <4>2. row.count \in Nat /\ MaxIn[lane] \in Nat /\ Allowed[lane] \in Nat
        BY <2>1 DEF NoLimit, MaxIn, Lanes
      <4>3. QED BY <4>1, <4>2
    <3>3. QED BY <2>2, <3>1, <3>2
  <2>5. job'.step = step /\ job'.event = job.event /\ job'.lane = lane
    BY <2>2
  <2>6. QED BY <2>1, <2>2, <2>3, <2>4, <2>5
<1>7. CASE Send
    BY <1>7 DEF Send
<1>8. CASE Count
    BY <1>8 DEF Count, Counted
<1>9. CASE Settle
    BY <1>9 DEF Settle
<1>10. CASE QueueCheck
    BY <1>10 DEF QueueCheck, Queued
<1>11. CASE Relay
    BY <1>11 DEF Relay, Relayed
<1>12. CASE Log
    BY <1>12 DEF Log, Logged
<1>13. CASE CancelCheck
    BY <1>13 DEF CancelCheck, Due
<1>14. CASE ClaimCheck
    BY <1>14 DEF ClaimCheck, Due, Claimed, Job
<1>15. CASE Remind
    BY <1>15 DEF Remind
<1>16. CASE CloseCheck
    BY <1>16 DEF CloseCheck
<1>17. CASE Crash
    BY <1>17 DEF Crash
<1>18. CASE Tick
    BY <1>18 DEF Tick
<1> QED
    BY <1>1, <1>2, <1>3, <1>4, <1>5, <1>6, <1>7, <1>8, <1>9, 
       <1>10, <1>11, <1>12, <1>13, <1>14, <1>15, <1>16, <1>17, <1>18 DEF Next, Work,
       Sweep

LEMMA AttemptsKept ==
    ASSUME InboundTypeOK, JobOK, AttemptsOK, Next PROVE AttemptsOK'
<1> USE PipelineAssumption DEF InboundTypeOK, JobOK, AttemptsOK, At, Free, tables,
        history, Idle, Events
<1>1. ASSUME NEW m \in Messages, ReceiveTier1(m) PROVE AttemptsOK'
    BY <1>1 DEF ReceiveTier1, New, Record, Job
<1>2. ASSUME NEW m \in Messages, ReceiveTier2(m) PROVE AttemptsOK'
    BY <1>2 DEF ReceiveTier2, New, Record, Job
<1>3. ASSUME NEW m \in Messages, ReceiveSilently(m) PROVE AttemptsOK'
    BY <1>3 DEF ReceiveSilently, New, Job
<1>4. ASSUME NEW o \in Orders, Execute(o) PROVE AttemptsOK'
    BY <1>4 DEF Execute, New, Job
<1>5. ASSUME NEW e \in Events, Duplicate(e) PROVE AttemptsOK'
    BY <1>5 DEF Duplicate, vars
<1>6. CASE CheckLimit
    BY <1>6 DEF CheckLimit, Within, NoLimit
<1>7. CASE Send
    BY <1>7 DEF Send
<1>8. CASE Count
    BY <1>8 DEF Count, Counted
<1>9. CASE Settle
    BY <1>9 DEF Settle
<1>10. CASE QueueCheck
    BY <1>10 DEF QueueCheck, Queued
<1>11. CASE Relay
    BY <1>11 DEF Relay, Relayed
<1>12. CASE Log
    BY <1>12 DEF Log, Logged
<1>13. CASE CancelCheck
    BY <1>13 DEF CancelCheck, Due
<1>14. CASE ClaimCheck
    BY <1>14 DEF ClaimCheck, Due, Claimed, Job
<1>15. CASE Remind
    BY <1>15 DEF Remind
<1>16. CASE CloseCheck
    BY <1>16 DEF CloseCheck
<1>17. CASE Crash
    BY <1>17 DEF Crash
<1>18. CASE Tick
    BY <1>18 DEF Tick
<1> QED
    BY <1>1, <1>2, <1>3, <1>4, <1>5, <1>6, <1>7, <1>8, <1>9, 
       <1>10, <1>11, <1>12, <1>13, <1>14, <1>15, <1>16, <1>17, <1>18 DEF Next, Work,
       Sweep

LEMMA ToldKept ==
    ASSUME InboundTypeOK, JobOK, ToldOK, Next PROVE ToldOK'
<1> USE PipelineAssumption DEF InboundTypeOK, JobOK, ToldOK, At, Free, tables,
        history, Idle, Events
<1>1. ASSUME NEW m \in Messages, ReceiveTier1(m) PROVE ToldOK'
    BY <1>1 DEF ReceiveTier1, New, Record, Job
<1>2. ASSUME NEW m \in Messages, ReceiveTier2(m) PROVE ToldOK'
    BY <1>2 DEF ReceiveTier2, New, Record, Job
<1>3. ASSUME NEW m \in Messages, ReceiveSilently(m) PROVE ToldOK'
    BY <1>3 DEF ReceiveSilently, New, Job
<1>4. ASSUME NEW o \in Orders, Execute(o) PROVE ToldOK'
    BY <1>4 DEF Execute, New, Job
<1>5. ASSUME NEW e \in Events, Duplicate(e) PROVE ToldOK'
    BY <1>5 DEF Duplicate, vars
<1>6. CASE CheckLimit
    BY <1>6 DEF CheckLimit, Within, NoLimit
<1>7. CASE Send
    BY <1>7 DEF Send
<1>8. CASE Count
    BY <1>8 DEF Count, Counted
<1>9. CASE Settle
    BY <1>9 DEF Settle
<1>10. CASE QueueCheck
    BY <1>10 DEF QueueCheck, Queued
<1>11. CASE Relay
    BY <1>11 DEF Relay, Relayed
<1>12. CASE Log
    BY <1>12 DEF Log, Logged
<1>13. CASE CancelCheck
    BY <1>13 DEF CancelCheck, Due
<1>14. CASE ClaimCheck
    BY <1>14 DEF ClaimCheck, Due, Claimed, Job
<1>15. CASE Remind
    BY <1>15 DEF Remind
<1>16. CASE CloseCheck
    BY <1>16 DEF CloseCheck
<1>17. CASE Crash
    BY <1>17 DEF Crash
<1>18. CASE Tick
    BY <1>18 DEF Tick
<1> QED
    BY <1>1, <1>2, <1>3, <1>4, <1>5, <1>6, <1>7, <1>8, <1>9, 
       <1>10, <1>11, <1>12, <1>13, <1>14, <1>15, <1>16, <1>17, <1>18 DEF Next, Work,
       Sweep

LEMMA RemindedKept ==
    ASSUME InboundTypeOK, JobOK, RemindedOK, Next PROVE RemindedOK'
<1> USE PipelineAssumption DEF InboundTypeOK, JobOK, RemindedOK, At, Free, tables,
        history, Idle
<1>1. ASSUME NEW m \in Messages, ReceiveTier1(m) PROVE RemindedOK'
    BY <1>1 DEF ReceiveTier1, New, Record, Job
<1>2. ASSUME NEW m \in Messages, ReceiveTier2(m) PROVE RemindedOK'
    BY <1>2 DEF ReceiveTier2, New, Record, Job
<1>3. ASSUME NEW m \in Messages, ReceiveSilently(m) PROVE RemindedOK'
    BY <1>3 DEF ReceiveSilently, New, Job
<1>4. ASSUME NEW o \in Orders, Execute(o) PROVE RemindedOK'
    BY <1>4 DEF Execute, New, Job
<1>5. ASSUME NEW e \in Events, Duplicate(e) PROVE RemindedOK'
    BY <1>5 DEF Duplicate, vars
<1>6. CASE CheckLimit
    BY <1>6 DEF CheckLimit, Within, NoLimit
<1>7. CASE Send
    BY <1>7 DEF Send
<1>8. CASE Count
    BY <1>8 DEF Count, Counted
<1>9. CASE Settle
    BY <1>9 DEF Settle
<1>10. CASE QueueCheck
    BY <1>10 DEF QueueCheck, Queued
<1>11. CASE Relay
    BY <1>11 DEF Relay, Relayed
<1>12. CASE Log
    BY <1>12 DEF Log, Logged
<1>13. CASE CancelCheck
    BY <1>13 DEF CancelCheck, Due
<1>14. CASE ClaimCheck
    BY <1>14 DEF ClaimCheck, Due, Claimed, Job
<1>15. CASE Remind
    BY <1>15 DEF Remind
<1>16. CASE CloseCheck
    BY <1>16 DEF CloseCheck
<1>17. CASE Crash
    BY <1>17 DEF Crash
<1>18. CASE Tick
    BY <1>18 DEF Tick
<1> QED
    BY <1>1, <1>2, <1>3, <1>4, <1>5, <1>6, <1>7, <1>8, <1>9, 
       <1>10, <1>11, <1>12, <1>13, <1>14, <1>15, <1>16, <1>17, <1>18 DEF Next, Work,
       Sweep

LEMMA RanKept ==
    ASSUME InboundTypeOK, JobOK, RanOK, Next PROVE RanOK'
<1> USE PipelineAssumption DEF InboundTypeOK, JobOK, RanOK, At, Free, tables,
        history, Idle, Events
<1>1. ASSUME NEW m \in Messages, ReceiveTier1(m) PROVE RanOK'
    BY <1>1 DEF ReceiveTier1, New, Record, Job
<1>2. ASSUME NEW m \in Messages, ReceiveTier2(m) PROVE RanOK'
    BY <1>2 DEF ReceiveTier2, New, Record, Job
<1>3. ASSUME NEW m \in Messages, ReceiveSilently(m) PROVE RanOK'
    BY <1>3 DEF ReceiveSilently, New, Job
<1>4. ASSUME NEW o \in Orders, Execute(o) PROVE RanOK'
    BY <1>4 DEF Execute, New, Job
<1>5. ASSUME NEW e \in Events, Duplicate(e) PROVE RanOK'
    BY <1>5 DEF Duplicate, vars
<1>6. CASE CheckLimit
    BY <1>6 DEF CheckLimit, Within, NoLimit
<1>7. CASE Send
    BY <1>7 DEF Send
<1>8. CASE Count
    BY <1>8 DEF Count, Counted
<1>9. CASE Settle
    BY <1>9 DEF Settle
<1>10. CASE QueueCheck
    BY <1>10 DEF QueueCheck, Queued
<1>11. CASE Relay
    BY <1>11 DEF Relay, Relayed
<1>12. CASE Log
    BY <1>12 DEF Log, Logged
<1>13. CASE CancelCheck
    BY <1>13 DEF CancelCheck, Due
<1>14. CASE ClaimCheck
    BY <1>14 DEF ClaimCheck, Due, Claimed, Job
<1>15. CASE Remind
    BY <1>15 DEF Remind
<1>16. CASE CloseCheck
    BY <1>16 DEF CloseCheck
<1>17. CASE Crash
    BY <1>17 DEF Crash
<1>18. CASE Tick
    BY <1>18 DEF Tick
<1> QED
    BY <1>1, <1>2, <1>3, <1>4, <1>5, <1>6, <1>7, <1>8, <1>9, 
       <1>10, <1>11, <1>12, <1>13, <1>14, <1>15, <1>16, <1>17, <1>18 DEF Next, Work,
       Sweep

LEMMA EachRelayTriedKept ==
    ASSUME InboundTypeOK, JobOK, EachRelayTried, Next PROVE EachRelayTried'
<1> USE PipelineAssumption DEF InboundTypeOK, JobOK, EachRelayTried, At, Free,
        tables, history, Idle, Events
<1>1. ASSUME NEW m \in Messages, ReceiveTier1(m) PROVE EachRelayTried'
    BY <1>1 DEF ReceiveTier1, New, Record, Job
<1>2. ASSUME NEW m \in Messages, ReceiveTier2(m) PROVE EachRelayTried'
    BY <1>2 DEF ReceiveTier2, New, Record, Job
<1>3. ASSUME NEW m \in Messages, ReceiveSilently(m) PROVE EachRelayTried'
    BY <1>3 DEF ReceiveSilently, New, Job
<1>4. ASSUME NEW o \in Orders, Execute(o) PROVE EachRelayTried'
    BY <1>4 DEF Execute, New, Job
<1>5. ASSUME NEW e \in Events, Duplicate(e) PROVE EachRelayTried'
    BY <1>5 DEF Duplicate, vars
<1>6. CASE CheckLimit
    BY <1>6 DEF CheckLimit, Within, NoLimit
<1>7. CASE Send
    BY <1>7 DEF Send
<1>8. CASE Count
    BY <1>8 DEF Count, Counted
<1>9. CASE Settle
    BY <1>9 DEF Settle
<1>10. CASE QueueCheck
    BY <1>10 DEF QueueCheck, Queued
<1>11. CASE Relay
    BY <1>11 DEF Relay, Relayed
<1>12. CASE Log
    BY <1>12 DEF Log, Logged
<1>13. CASE CancelCheck
    BY <1>13 DEF CancelCheck, Due
<1>14. CASE ClaimCheck
    BY <1>14 DEF ClaimCheck, Due, Claimed, Job
<1>15. CASE Remind
    BY <1>15 DEF Remind
<1>16. CASE CloseCheck
    BY <1>16 DEF CloseCheck
<1>17. CASE Crash
    BY <1>17 DEF Crash
<1>18. CASE Tick
    BY <1>18 DEF Tick
<1> QED
    BY <1>1, <1>2, <1>3, <1>4, <1>5, <1>6, <1>7, <1>8, <1>9, 
       <1>10, <1>11, <1>12, <1>13, <1>14, <1>15, <1>16, <1>17, <1>18 DEF Next, Work,
       Sweep

----------------------------------------------------------------------------

LEMMA InitIInv == Init => IInv
<1> SUFFICES ASSUME Init PROVE IInv
  OBVIOUS
<1>1. job = Idle /\ job.step = "idle" /\ job.event = "none"
  BY DEF Init, Idle
<1>2. InboundTypeOK
  BY PipelineAssumption, AllowedType, IdleJob DEF Init, InboundTypeOK, NoLimit,
     NoCheck, NoReply, Lanes, Events
<1>3. JobOK /\ RemindedOK
  BY <1>1 DEF Init, JobOK, RemindedOK, Free, At
<1>4. AttemptsOK /\ ToldOK /\ RanOK
  BY <1>1, PipelineAssumption DEF Init, AttemptsOK, ToldOK, RanOK
<1>5. EachRelayTried
  BY DEF Init, EachRelayTried, NoCheck, Events
<1> QED
  BY <1>2, <1>3, <1>4, <1>5 DEF IInv

LEMMA NextIInv == IInv /\ [Next]_vars => IInv'
<1>1. ASSUME IInv, Next PROVE IInv'
  BY <1>1, TypeKept, JobKept, AttemptsKept, ToldKept, RemindedKept, RanKept,
     EachRelayTriedKept DEF IInv
<1>2. ASSUME IInv, UNCHANGED vars PROVE IInv'
  BY <1>2 DEF IInv, InboundTypeOK, JobOK, AttemptsOK, ToldOK, RemindedOK, RanOK,
     EachRelayTried, At, Free, vars, tables, history
<1> QED
  BY <1>1, <1>2

THEOREM Inductive == Spec => []IInv
BY InitIInv, NextIInv, PTL DEF Spec

\* The tables are well formed, and no window of a lane counts more answers than
\* its maximum, whatever the maxima are.
THEOREM InboundTypeCorrect == Spec => []InboundTypeOK
<1>1. IInv => InboundTypeOK
  BY DEF IInv
<1> QED
  BY <1>1, Inductive, PTL

\* One answer to the contact and one try at telling the owner for each message, for
\* any number of messages, deliveries and crashes.
THEOREM MessagesAnsweredOnce == Spec => []AnsweredOnce
<1>1. IInv => AnsweredOnce
  BY DEF IInv, AttemptsOK, ToldOK, AnsweredOnce
<1> QED
  BY <1>1, Inductive, PTL

\* A new contact is called to the owner's attention once, and only while the
\* owner has decided nothing.
THEOREM RemindedOnce == Spec => RemindsUndecidedOnce
<1>1. ASSUME IInv, Next, reminded' # reminded
      PROVE  reminded = 0 /\ grant = "none"
  <2>1. CASE Remind
    BY <1>1, <2>1 DEF Remind, IInv, RemindedOK, At
  <2>2. CASE ~Remind
    BY <1>1, <2>2 DEF Next, Work, Sweep, history, vars, ReceiveTier1, ReceiveTier2,
       ReceiveSilently, Execute, Duplicate, CheckLimit, Send, Count, Settle, QueueCheck,
       Relay, Log, CancelCheck, ClaimCheck, CloseCheck, Crash, Tick
  <2> QED
    BY <2>1, <2>2
<1>2. IInv /\ [Next]_vars => (reminded' # reminded => reminded = 0 /\ grant = "none")
  BY <1>1 DEF vars, history
<1> QED
  BY <1>2, Inductive, PTL DEF Spec, RemindsUndecidedOnce

\* A redelivered command changes nothing, but for a crash between its execution
\* and its record.
THEOREM OrdersRunOnce == Spec => []RunsOnceUnlessLost
<1>1. IInv => RunsOnceUnlessLost
  BY PipelineAssumption DEF IInv, InboundTypeOK, RanOK, RunsOnceUnlessLost
<1> QED
  BY <1>1, Inductive, PTL

\* For whatever is neither in hand nor lost in a crash, the owner has been told or
\* the one try at telling him has failed.
THEOREM EveryRelayIsTried == Spec => []EachRelayTried
<1>1. IInv => EachRelayTried
  BY DEF IInv
<1> QED
  BY <1>1, Inductive, PTL

----------------------------------------------------------------------------
(* The limit over any 24 hours *)

\* The answers that limits has heard of: a crash loses one, and the one that was
\* just sent is still to be counted.
Known == (Messages \ lost) \ (IF At("count") THEN {job.event} ELSE {})
Since(l, t) == {m \in Known : replies[m].lane = l /\ t <= replies[m].at}
DayFrom(l, t) == {m \in Since(l, t) : replies[m].at < t + Day}

\* What is known of the times of windows and answers.
SentOK ==
    /\ \A m \in Messages : replies[m].at <= now /\ (attempts[m] = 0 => replies[m].lane = "none")
    /\ \A l \in Lanes : limits[l].start <= now
    /\ At("count") /\ job.sent =>
          replies[job.event].lane = job.lane /\ limits[job.lane].start <= replies[job.event].at
    /\ At("count") /\ ~job.sent => replies[job.event].lane = "none"

\* Answers after the start of the window are counted in it; with those of the day
\* before it, which all belong to the window before, they are as many more as a
\* window takes; and a day that was over when the window began is settled.  (An
\* answer can be later than the end of the window it is counted in, when the
\* transport is slow, so that its time alone does not tell its window.)
WindowsOK ==
    \A l \in Lanes, t \in Nat :
        /\ limits[l].start < t => Cardinality(Since(l, t)) <= limits[l].count
        /\ t <= limits[l].start /\ limits[l].start < t + Day =>
              Cardinality(Since(l, t)) <= Allowed[l] + limits[l].count
        /\ t + Day <= limits[l].start => Cardinality(DayFrom(l, t)) <= 2 * Allowed[l]

WInv == IInv /\ SentOK /\ WindowsOK

LEMMA Counting ==
    ASSUME InboundTypeOK, NEW l, NEW t
    PROVE  /\ IsFiniteSet(Since(l, t))
           /\ Cardinality(Since(l, t)) \in Nat
           /\ \A T : T \subseteq Since(l, t) =>
                 Cardinality(T) \in Nat /\ Cardinality(T) <= Cardinality(Since(l, t))
           /\ \A T, x : T \subseteq Since(l, t) \cup {x} =>
                 Cardinality(T) \in Nat /\ Cardinality(T) <= Cardinality(Since(l, t)) + 1
<1>1. IsFiniteSet(Since(l, t))
  <2>1. Since(l, t) \subseteq Messages
    BY DEF Since, Known
  <2>2. QED BY <2>1, PipelineAssumption, FS_Subset
<1>2. ASSUME NEW S, IsFiniteSet(S), NEW T, T \subseteq S
      PROVE  Cardinality(T) \in Nat /\ Cardinality(T) <= Cardinality(S)
  BY <1>2, FS_Subset, FS_CardinalityType
<1>3. ASSUME NEW x
      PROVE  /\ IsFiniteSet(Since(l, t) \cup {x})
             /\ Cardinality(Since(l, t) \cup {x}) \in Nat
             /\ Cardinality(Since(l, t) \cup {x}) <= Cardinality(Since(l, t)) + 1
  <2>1. /\ IsFiniteSet(Since(l, t) \cup {x})
        /\ Cardinality(Since(l, t) \cup {x}) =
              IF x \in Since(l, t) THEN Cardinality(Since(l, t)) ELSE Cardinality(Since(l, t)) + 1
    BY <1>1, FS_AddElement
  <2>2. Cardinality(Since(l, t)) \in Nat
    BY <1>1, FS_CardinalityType
  <2>3. QED BY <2>1, <2>2
<1>4. Cardinality(Since(l, t)) \in Nat
  BY <1>1, FS_CardinalityType
<1>5. ASSUME NEW T, NEW x, T \subseteq Since(l, t) \cup {x}
      PROVE  Cardinality(T) \in Nat /\ Cardinality(T) <= Cardinality(Since(l, t)) + 1
  <2>1. IsFiniteSet(Since(l, t) \cup {x})
    BY <1>3
  <2>2. Cardinality(T) \in Nat /\ Cardinality(T) <= Cardinality(Since(l, t) \cup {x})
    BY <2>1, <1>5, FS_Subset, FS_CardinalityType
  <2>3. Cardinality(Since(l, t) \cup {x}) \in Nat
        /\ Cardinality(Since(l, t) \cup {x}) <= Cardinality(Since(l, t)) + 1
    BY <1>3
  <2>4. QED BY <2>2, <2>3, <1>4
<1>6. QED BY <1>1, <1>2, <1>4, <1>5

\* Only an answer leads to the counting of it.
LEMMA LeavesCount ==
    ASSUME job \in Jobs, Settle \/ QueueCheck \/ Relay \/ Log \/ Remind \/ CloseCheck
    PROVE  job.step # "count" /\ job'.step # "count"
<1>1. CASE Settle \/ QueueCheck
  BY <1>1 DEF Settle, QueueCheck, At, Jobs
<1>2. CASE Relay \/ Log \/ CloseCheck
  BY <1>2 DEF Relay, Log, CloseCheck, At, Idle
<1>3. CASE Remind
  <2>1. PICK sent \in BOOLEAN : job' = [job EXCEPT !.step = "close", !.sent = sent]
    BY <1>3 DEF Remind
  <2>2. QED BY <1>3, <2>1 DEF Remind, At, Jobs
<1>4. QED BY <1>1, <1>2, <1>3

LEMMA SentKept ==
    ASSUME InboundTypeOK, JobOK, AttemptsOK, SentOK, Next PROVE SentOK'
<1> USE PipelineAssumption DEF InboundTypeOK, JobOK, AttemptsOK, SentOK, At, Free, tables,
        history, Idle, Jobs
<1>1. ASSUME NEW m \in Messages, ReceiveTier1(m) \/ ReceiveTier2(m) \/ ReceiveSilently(m)
      PROVE  SentOK'
  BY <1>1 DEF ReceiveTier1, ReceiveTier2, ReceiveSilently, Job
<1>2. ASSUME NEW o \in Orders, Execute(o) PROVE SentOK'
  BY <1>2 DEF Execute, Job
<1>3. ASSUME NEW e \in Events, Duplicate(e) PROVE SentOK'
  BY <1>3 DEF Duplicate, vars
<1>4. CASE CheckLimit
  BY <1>4 DEF CheckLimit, NoLimit
<1>5. CASE Send
  <2>1. /\ job.event \in Messages
        /\ job.lane \in Lanes
        /\ attempts[job.event] = 0
        /\ attempts'[job.event] # 0
        /\ replies[job.event].lane = "none"
    BY <1>5 DEF Send
  <2>2. PICK sent \in BOOLEAN :
           /\ job' = [job EXCEPT !.step = "count", !.sent = sent]
           /\ replies' = IF sent
                         THEN [replies EXCEPT ![job.event] = [lane |-> job.lane, at |-> now]]
                         ELSE replies
    BY <1>5 DEF Send
  <2>3. job'.event = job.event /\ job'.lane = job.lane /\ job'.sent = sent
    BY <2>2
  <2>4. UNCHANGED <<now, limits>> /\ \A m \in Messages \ {job.event} : attempts'[m] = attempts[m]
    BY <1>5 DEF Send
  <2>5. QED BY <2>1, <2>2, <2>3, <2>4
<1>6. CASE Count
  BY <1>6 DEF Count, Counted
<1>7. CASE Settle \/ QueueCheck \/ Relay \/ Log \/ Remind \/ CloseCheck
  <2>1. job'.step # "count"
    BY <1>7, LeavesCount
  <2>2. UNCHANGED <<now, limits, replies, attempts>>
    BY <1>7 DEF Settle, QueueCheck, Relay, Log, Remind, CloseCheck
  <2>3. QED BY <2>1, <2>2
<1>8. CASE CancelCheck \/ ClaimCheck
  BY <1>8 DEF CancelCheck, ClaimCheck, Job
<1>9. CASE Crash
  BY <1>9 DEF Crash
<1>10. CASE Tick
  BY <1>10 DEF Tick
<1>11. QED
  BY <1>1, <1>2, <1>3, <1>4, <1>5, <1>6, <1>7, <1>8, <1>9, <1>10 DEF Next, Work, Sweep

\* A step that opens no window and counts nothing.
LEMMA NothingNew ==
    ASSUME InboundTypeOK, WindowsOK, limits' = limits, Known' \subseteq Known,
           \A m \in Known' : replies'[m] = replies[m]
    PROVE  WindowsOK'
<1> SUFFICES ASSUME NEW l \in Lanes, NEW t \in Nat
             PROVE  /\ limits[l].start < t => Cardinality(Since(l, t)') <= limits[l].count
                    /\ t <= limits[l].start /\ limits[l].start < t + Day =>
                          Cardinality(Since(l, t)') <= Allowed[l] + limits[l].count
                    /\ t + Day <= limits[l].start =>
                          Cardinality(DayFrom(l, t)') <= 2 * Allowed[l]
  BY DEF WindowsOK
<1>1. Since(l, t)' \subseteq Since(l, t) /\ DayFrom(l, t)' \subseteq DayFrom(l, t)
  BY DEF Since, DayFrom
<1>2. Cardinality(Since(l, t)') \in Nat /\ Cardinality(Since(l, t)') <= Cardinality(Since(l, t))
  BY <1>1, Counting
<1>3. IsFiniteSet(DayFrom(l, t))
  BY Counting, FS_Subset DEF DayFrom
<1>4. /\ Cardinality(DayFrom(l, t)) \in Nat /\ Cardinality(DayFrom(l, t)') \in Nat
      /\ Cardinality(DayFrom(l, t)') <= Cardinality(DayFrom(l, t))
  BY <1>1, <1>3, FS_Subset, FS_CardinalityType
<1>5. Cardinality(Since(l, t)) \in Nat /\ Allowed[l] \in Nat /\ limits[l].count \in Nat
  BY Counting, AllowedType DEF InboundTypeOK
<1>6. QED BY <1>2, <1>4, <1>5 DEF WindowsOK

\* A new window: the day before it lies in the old one.
LEMMA WindowOpens ==
    ASSUME InboundTypeOK, SentOK, WindowsOK, CheckLimit, job.lane \in Lanes
    PROVE  WindowsOK'
<1> DEFINE lane == job.lane
           old == limits[lane]
<1>1. CASE limits' = limits
  <2>1. Known' = Known /\ replies' = replies
    BY DEF CheckLimit, Known, At, history
  <2>2. QED BY <1>1, <2>1, NothingNew
<1>2. CASE limits' # limits
  <2>1. /\ now - old.start >= Day
        /\ limits' = [limits EXCEPT ![lane] = [start |-> now, count |-> 0, ack |-> 0]]
        /\ old \in [start: Nat, count: Nat, ack: Nat]
    <3>1. old \in [start: Nat, count: Nat, ack: Nat]
      BY DEF InboundTypeOK
    <3>2. limits' = [limits EXCEPT ![lane] =
                        IF now - old.start >= Day THEN [NoLimit EXCEPT !.start = now] ELSE old]
      BY DEF CheckLimit
    <3>3. CASE ~(now - old.start >= Day)
      <4>1. limits' = [limits EXCEPT ![lane] = limits[lane]]
        BY <3>2, <3>3
      <4>2. limits' = limits
        BY <4>1 DEF InboundTypeOK
      <4>3. QED BY <1>2, <4>2
    <3>4. CASE now - old.start >= Day
      <4>1. [NoLimit EXCEPT !.start = now] = [start |-> now, count |-> 0, ack |-> 0]
        BY DEF NoLimit
      <4>2. limits' = [limits EXCEPT ![lane] = [NoLimit EXCEPT !.start = now]]
        BY <3>2, <3>4
      <4>3. QED BY <3>1, <3>4, <4>1, <4>2, Zenon
    <3>5. QED BY <3>3, <3>4
  <2>2. \A l, t : Since(l, t)' = Since(l, t) /\ DayFrom(l, t)' = DayFrom(l, t)
    BY DEF CheckLimit, Known, Since, DayFrom, At, history
  <2> SUFFICES ASSUME NEW l \in Lanes, NEW t \in Nat
               PROVE  /\ limits'[l].start < t => Cardinality(Since(l, t)) <= limits'[l].count
                      /\ t <= limits'[l].start /\ limits'[l].start < t + Day =>
                            Cardinality(Since(l, t)) <= Allowed[l] + limits'[l].count
                      /\ t + Day <= limits'[l].start =>
                            Cardinality(DayFrom(l, t)) <= 2 * Allowed[l]
    BY <2>2 DEF WindowsOK
  <2>3. CASE l # lane
    BY <2>1, <2>3 DEF WindowsOK, InboundTypeOK
  <2>4. CASE l = lane
    <3>1. limits'[l].start = now /\ limits'[l].count = 0
      BY <2>1, <2>4 DEF InboundTypeOK
    <3>2. /\ now \in Nat /\ Day \in Nat /\ old.start \in Nat /\ old.count \in Nat
          /\ Allowed[l] \in Nat /\ old.count <= Allowed[l]
          /\ Cardinality(Since(l, t)) \in Nat /\ Cardinality(DayFrom(l, t)) \in Nat
          /\ Cardinality(DayFrom(l, t)) <= Cardinality(Since(l, t))
      BY <2>1, <2>4, PipelineAssumption, AllowedType, Counting DEF InboundTypeOK, DayFrom
    <3>3. CASE now < t
      <4>1. Since(l, t) = {}
        BY <3>2, <3>3 DEF Since, Known, SentOK, InboundTypeOK
      <4>2. QED BY <3>1, <3>2, <3>3, <4>1, FS_EmptySet
    <3>4. CASE t <= now /\ now < t + Day
      <4>1. old.start < t
        BY <2>1, <3>2, <3>4
      <4>2. Cardinality(Since(l, t)) <= old.count
        BY <2>4, <4>1 DEF WindowsOK
      <4>3. QED BY <3>1, <3>2, <3>4, <4>2
    <3>5. CASE t + Day <= now
      <4>1. Cardinality(DayFrom(l, t)) <= 2 * Allowed[l]
        BY <2>4, <3>2 DEF WindowsOK
      <4>2. QED BY <3>1, <3>2, <3>5, <4>1
    <3>6. QED BY <3>2, <3>3, <3>4, <3>5
  <2>5. QED BY <2>3, <2>4
<1>3. QED BY <1>1, <1>2

\* An answer is counted in the present window, in which it was sent.
LEMMA WindowCounts ==
    ASSUME InboundTypeOK, JobOK, SentOK, WindowsOK, Count
    PROVE  WindowsOK'
<1> DEFINE m == job.event
           lane == job.lane
<1>1. /\ At("count") /\ ~At("count")' /\ m \in Messages /\ lane \in Lanes
      /\ UNCHANGED <<lost, replies>>
  BY DEF Count, JobOK, At, history, InboundTypeOK, Jobs
<1>2. Known' \subseteq Known \cup {m}
  BY <1>1 DEF Known
<1>3. CASE ~job.sent
  <2>1. limits' = limits /\ replies[m].lane = "none"
    BY <1>3, <1>1 DEF Count, SentOK
  <2>2. \A l \in Lanes, t \in Nat : Since(l, t)' \subseteq Since(l, t)
                                 /\ DayFrom(l, t)' \subseteq DayFrom(l, t)
    BY <1>1, <1>2, <2>1 DEF Since, DayFrom, Lanes
  <2>3. ASSUME NEW l \in Lanes, NEW t \in Nat
        PROVE  /\ Cardinality(Since(l, t)') <= Cardinality(Since(l, t))
               /\ Cardinality(DayFrom(l, t)') <= Cardinality(DayFrom(l, t))
               /\ Cardinality(Since(l, t)') \in Nat /\ Cardinality(Since(l, t)) \in Nat
               /\ Cardinality(DayFrom(l, t)') \in Nat /\ Cardinality(DayFrom(l, t)) \in Nat
    <3>1. IsFiniteSet(Since(l, t)) /\ IsFiniteSet(DayFrom(l, t))
      BY Counting, FS_Subset DEF DayFrom
    <3>2. QED BY <2>2, <3>1, FS_Subset, FS_CardinalityType
  <2>4. ASSUME NEW l \in Lanes PROVE Allowed[l] \in Nat /\ limits[l].count \in Nat
    BY <2>4, AllowedType DEF InboundTypeOK
  <2>5. QED BY <2>1, <2>3, <2>4 DEF WindowsOK
<1>4. CASE job.sent
  <2>1. /\ limits' = [limits EXCEPT ![lane] = Counted(@)]
        /\ replies[m].lane = lane /\ limits[lane].start <= replies[m].at
    BY <1>4, <1>1 DEF Count, SentOK
  <2>2. /\ \A l \in Lanes \ {lane} : limits'[l] = limits[l]
        /\ limits'[lane].start = limits[lane].start
        /\ limits'[lane].count = limits[lane].count + 1
    BY <1>1, <2>1 DEF InboundTypeOK, Counted
  <2> SUFFICES ASSUME NEW l \in Lanes, NEW t \in Nat
               PROVE  /\ limits'[l].start < t => Cardinality(Since(l, t)') <= limits'[l].count
                      /\ t <= limits'[l].start /\ limits'[l].start < t + Day =>
                            Cardinality(Since(l, t)') <= Allowed[l] + limits'[l].count
                      /\ t + Day <= limits'[l].start =>
                            Cardinality(DayFrom(l, t)') <= 2 * Allowed[l]
    BY DEF WindowsOK
  <2>3. /\ Allowed[l] \in Nat /\ limits[l].count \in Nat /\ limits[l].start \in Nat
        /\ Cardinality(Since(l, t)) \in Nat
        /\ IsFiniteSet(Since(l, t)) /\ IsFiniteSet(DayFrom(l, t))
        /\ Cardinality(DayFrom(l, t)) \in Nat
    BY AllowedType, Counting, FS_Subset, FS_CardinalityType DEF InboundTypeOK, DayFrom
  <2>4. CASE l # lane
    <3>1. Since(l, t)' \subseteq Since(l, t) /\ DayFrom(l, t)' \subseteq DayFrom(l, t)
      BY <1>1, <1>2, <2>1, <2>4 DEF Since, DayFrom
    <3>2. /\ Cardinality(Since(l, t)') \in Nat
          /\ Cardinality(Since(l, t)') <= Cardinality(Since(l, t))
          /\ Cardinality(DayFrom(l, t)') \in Nat
          /\ Cardinality(DayFrom(l, t)') <= Cardinality(DayFrom(l, t))
      BY <2>3, <3>1, FS_Subset, FS_CardinalityType
    <3>3. QED BY <2>2, <2>3, <2>4, <3>2 DEF WindowsOK
  <2>5. CASE l = lane
    <3>1. Since(l, t)' \subseteq Since(l, t) \cup {m}
      BY <1>1, <1>2 DEF Since
    <3>2. Cardinality(Since(l, t)') \in Nat
          /\ Cardinality(Since(l, t)') <= Cardinality(Since(l, t)) + 1
      BY <3>1, Counting
    <3>3. ASSUME t + Day <= limits[l].start
          PROVE  Cardinality(DayFrom(l, t)') <= 2 * Allowed[l]
      <4>1. ~(replies[m].at < t + Day)
        BY <1>1, <2>1, <2>3, <2>5, <3>3, PipelineAssumption DEF InboundTypeOK
      <4>2. DayFrom(l, t)' \subseteq DayFrom(l, t)
        BY <1>1, <1>2, <4>1 DEF Since, DayFrom
      <4>3. /\ Cardinality(DayFrom(l, t)') \in Nat
            /\ Cardinality(DayFrom(l, t)') <= Cardinality(DayFrom(l, t))
        BY <2>3, <4>2, FS_Subset, FS_CardinalityType
      <4>4. QED BY <2>3, <3>3, <4>3 DEF WindowsOK
    <3>4. QED BY <2>2, <2>3, <2>5, <3>2, <3>3 DEF WindowsOK
  <2>6. QED BY <2>4, <2>5
<1>5. QED BY <1>3, <1>4

LEMMA WindowsKept ==
    ASSUME InboundTypeOK, JobOK, SentOK, WindowsOK, [Next]_vars PROVE WindowsOK'
<1>1. CASE CheckLimit
  BY <1>1, WindowOpens DEF JobOK, CheckLimit, At
<1>2. CASE Count
  BY <1>2, WindowCounts
<1>3. CASE Send
  <2>1. Known' \subseteq Known /\ limits' = limits
    BY <1>3 DEF Send, Known, At, tables
  <2>2. \A m \in Known' : replies'[m] = replies[m]
    BY <1>3 DEF Send, Known, At, InboundTypeOK, Jobs
  <2>3. QED BY <2>1, <2>2, NothingNew
<1>4. CASE Crash
  BY <1>4, NothingNew DEF Crash, Known, At, Free, Idle, tables
<1>5. ASSUME ~At("count"), ~At("count")', UNCHANGED <<limits, replies, lost>>
      PROVE  WindowsOK'
  BY <1>5, NothingNew DEF Known
<1>6. ASSUME UNCHANGED <<limits, replies, lost, job>> PROVE WindowsOK'
  BY <1>6, NothingNew DEF Known, At
<1>7. ASSUME NEW m \in Messages, ReceiveTier1(m) \/ ReceiveTier2(m) \/ ReceiveSilently(m)
      PROVE  WindowsOK'
  BY <1>7, <1>5 DEF ReceiveTier1, ReceiveTier2, ReceiveSilently, Job, Idle, At, Free, history
<1>8. ASSUME NEW o \in Orders, Execute(o) PROVE WindowsOK'
  BY <1>8, <1>5 DEF Execute, Job, At, Free
<1>9. CASE Settle \/ QueueCheck \/ Relay \/ Log \/ Remind \/ CloseCheck
  <2>1. ~At("count") /\ ~At("count")'
    BY <1>9, LeavesCount DEF At, InboundTypeOK
  <2>2. UNCHANGED <<limits, replies, lost>>
    BY <1>9 DEF Settle, QueueCheck, Relay, Log, Remind, CloseCheck, tables, history
  <2>3. QED BY <2>1, <2>2, <1>5
<1>10. CASE CancelCheck \/ ClaimCheck
  BY <1>10, <1>5 DEF CancelCheck, ClaimCheck, Job, At, Free, history
<1>11. CASE Tick \/ UNCHANGED vars \/ \E e \in Events : Duplicate(e)
  BY <1>11, <1>6 DEF Tick, Duplicate, vars, tables, history
<1>12. QED
  BY <1>1, <1>2, <1>3, <1>4, <1>7, <1>8, <1>9, <1>10, <1>11 DEF Next, Work, Sweep

LEMMA WInvInit == Init => WInv
<1> SUFFICES ASSUME Init PROVE WInv
  OBVIOUS
<1>1. IInv /\ InboundTypeOK
  BY InitIInv DEF IInv
<1>2. SentOK
  BY PipelineAssumption DEF Init, SentOK, At, Idle, NoReply, NoLimit
<1>3. \A l \in Lanes, t \in Nat : Since(l, t) = {} /\ DayFrom(l, t) = {}
  BY DEF Init, Since, DayFrom, Known, NoReply, Lanes
<1>4. \A l \in Lanes : Allowed[l] \in Nat /\ limits[l].count \in Nat
  BY <1>1, AllowedType DEF InboundTypeOK
<1>5. \A l \in Lanes, t \in Nat :
          Cardinality(Since(l, t)) = 0 /\ Cardinality(DayFrom(l, t)) = 0
  <2>1. Cardinality({}) = 0
    BY FS_EmptySet
  <2>2. QED BY <1>3, <2>1, Zenon
<1>6. WindowsOK
  BY <1>4, <1>5 DEF WindowsOK
<1>7. QED BY <1>1, <1>2, <1>6 DEF WInv

LEMMA WInvStep == WInv /\ [Next]_vars => WInv'
<1> SUFFICES ASSUME WInv, [Next]_vars PROVE WInv'
  OBVIOUS
<1>1. IInv' /\ WindowsOK'
  BY NextIInv, WindowsKept DEF WInv, IInv
<1>2. SentOK'
  <2>1. CASE Next
    BY <2>1, SentKept DEF WInv, IInv
  <2>2. CASE UNCHANGED vars
    BY <2>2 DEF WInv, SentOK, At, vars, tables, history
  <2>3. QED BY <2>1, <2>2
<1>3. QED BY <1>1, <1>2 DEF WInv

\* In any 24 hours, wherever the windows lie in them and however late the answers
\* went out, a contact gets at most twice what a window of the lane lets through:
\* the daily maximum, or one where the maximum of Tier 2 is zero.
THEOREM LimitHolds == Spec => []TwiceTheLimit
<1>1. WInv => TwiceTheLimit
  <2> SUFFICES ASSUME WInv, NEW l \in Lanes, NEW m \in Messages
               PROVE  Cardinality(AcceptedFrom(l, replies[m].at)) <= 2 * Allowed[l]
    BY DEF TwiceTheLimit
  <2> DEFINE t == replies[m].at
  <2>1. /\ t \in Nat /\ Allowed[l] \in Nat /\ Day \in Nat
        /\ limits[l].start \in Nat /\ limits[l].count \in Nat /\ limits[l].count <= Allowed[l]
        /\ Cardinality(Since(l, t)) \in Nat
    BY AllowedType, Counting, PipelineAssumption DEF WInv, IInv, InboundTypeOK
  <2> HIDE DEF t
  <2>2. CASE limits[l].start < t + Day
    <3>1. Cardinality(Since(l, t)) <= Allowed[l] + limits[l].count
      BY <2>1, <2>2 DEF WInv, WindowsOK
    <3>2. CASE At("count") /\ job.sent /\ job.lane = l
      <4>1. limits[l].count < Allowed[l]
        BY <3>2 DEF WInv, IInv, JobOK, At
      <4>2. AcceptedFrom(l, t) \subseteq Since(l, t) \cup {job.event}
        BY DEF AcceptedFrom, Since, Known
      <4>3. Cardinality(AcceptedFrom(l, t)) <= Cardinality(Since(l, t)) + 1
            /\ Cardinality(AcceptedFrom(l, t)) \in Nat
        BY <4>2, Counting DEF WInv, IInv
      <4>4. QED BY <2>1, <3>1, <4>1, <4>3 DEF t
    <3>3. CASE ~(At("count") /\ job.sent /\ job.lane = l)
      <4>1. AcceptedFrom(l, t) \subseteq Since(l, t)
        BY <3>3 DEF AcceptedFrom, Since, Known, WInv, SentOK, Lanes
      <4>2. Cardinality(AcceptedFrom(l, t)) <= Cardinality(Since(l, t))
            /\ Cardinality(AcceptedFrom(l, t)) \in Nat
        BY <4>1, Counting DEF WInv, IInv
      <4>3. QED BY <2>1, <3>1, <4>2 DEF t
    <3>4. QED BY <3>2, <3>3
  <2>3. CASE ~(limits[l].start < t + Day)
    <3>1. At("count") /\ job.sent /\ job.lane = l => ~(replies[job.event].at < t + Day)
      <4>1. At("count") => job.event \in Messages
        BY DEF WInv, IInv, JobOK, At
      <4>2. QED BY <2>1, <2>3, <4>1 DEF WInv, SentOK, IInv, InboundTypeOK
    <3>2. AcceptedFrom(l, t) = DayFrom(l, t)
      BY <3>1 DEF AcceptedFrom, DayFrom, Since, Known, WInv, SentOK, Lanes
    <3>3. QED BY <2>1, <2>3, <3>2 DEF WInv, WindowsOK, t
  <2>4. QED BY <2>2, <2>3
<1>2. QED BY <1>1, WInvInit, WInvStep, PTL DEF Spec

\* All that the transport accepted from time t on, for a day, counted or not.
AllFrom(l, t) ==
    {m \in Messages : replies[m].lane = l /\ t <= replies[m].at /\ replies[m].at < t + Day}

\* A crash adds the one answer at most that it kept from being counted: in any 24
\* hours a lane gives a contact no more than twice what a window lets through and
\* the losses.
THEOREM LimitWithCrashes ==
    Spec => [](\A l \in Lanes, m \in Messages :
                  Cardinality(AllFrom(l, replies[m].at))
                      <= 2 * Allowed[l] + Cardinality(lost \cap Messages))
<1>1. ASSUME TwiceTheLimit, NEW l \in Lanes, NEW m \in Messages
      PROVE  Cardinality(AllFrom(l, replies[m].at))
                 <= 2 * Allowed[l] + Cardinality(lost \cap Messages)
  <2> DEFINE A == AllFrom(l, replies[m].at)
             B == AcceptedFrom(l, replies[m].at)
             C == lost \cap Messages
  <2>1. A \subseteq B \cup C /\ B \subseteq Messages /\ C \subseteq Messages
    BY DEF AcceptedFrom, AllFrom
  <2>2. Cardinality(B) <= 2 * Allowed[l]
    BY <1>1 DEF TwiceTheLimit
  <2> HIDE DEF A, B, C
  <2>3. IsFiniteSet(B) /\ IsFiniteSet(C) /\ IsFiniteSet(B \cup C)
    BY <2>1, FS_Subset, FS_Union, PipelineAssumption
  <2>4. /\ Cardinality(A) <= Cardinality(B \cup C)
        /\ Cardinality(A) \in Nat /\ Cardinality(B) \in Nat /\ Cardinality(C) \in Nat
    BY <2>1, <2>3, FS_Subset, FS_CardinalityType
  <2>5. /\ Cardinality(B \cup C) = Cardinality(B) + Cardinality(C) - Cardinality(B \cap C)
        /\ Cardinality(B \cap C) \in Nat
    BY <2>3, FS_Union, FS_Intersection, FS_CardinalityType
  <2>6. Cardinality(A) <= 2 * Allowed[l] + Cardinality(C)
    BY <2>2, <2>4, <2>5, AllowedType
  <2>7. QED BY <2>6 DEF A, C
<1>2. TwiceTheLimit =>
        \A l \in Lanes, m \in Messages :
            Cardinality(AllFrom(l, replies[m].at))
                <= 2 * Allowed[l] + Cardinality(lost \cap Messages)
  BY <1>1
<1>3. QED BY <1>2, LimitHolds, PTL

----------------------------------------------------------------------------
\* The pipeline implements the mailbox.

\* While a message is in hand the grant under which it was taken stands: the
\* commands of the owner wait for the lock.
HandOK ==
    /\ job.event \in Messages => grant # "blocked"
    /\ job.lane = "tier2" => grant = "active"

BoxInv == IInv /\ HandOK

\* Between its first step and its last a job keeps its event and its lane.
LEMMA JobContinues ==
    ASSUME InboundTypeOK, CheckLimit \/ Send \/ Count \/ Settle \/ QueueCheck \/ Remind
    PROVE  job'.event = job.event /\ job'.lane = job.lane
<1> USE DEF InboundTypeOK, Jobs
<1>1. CASE CheckLimit
  BY <1>1 DEF CheckLimit
<1>2. CASE Send
  BY <1>2 DEF Send
<1>3. CASE Count
  BY <1>3 DEF Count
<1>4. CASE Settle
  BY <1>4 DEF Settle
<1>5. CASE QueueCheck
  BY <1>5 DEF QueueCheck
<1>6. CASE Remind
  BY <1>6 DEF Remind
<1>7. QED BY <1>1, <1>2, <1>3, <1>4, <1>5, <1>6

LEMMA HandKept ==
    ASSUME InboundTypeOK, JobOK, HandOK, [Next]_vars PROVE HandOK'
<1> USE PipelineAssumption DEF HandOK, At, Free, Idle, Job
<1>1. CASE \E m \in Messages : ReceiveTier1(m) \/ ReceiveTier2(m) \/ ReceiveSilently(m)
  BY <1>1 DEF ReceiveTier1, ReceiveTier2, ReceiveSilently
<1>2. CASE \E o \in Orders : Execute(o)
  BY <1>2 DEF Execute
<1>3. ASSUME UNCHANGED grant, job'.event = job.event, job'.lane = job.lane PROVE HandOK'
  BY <1>3
<1>4. CASE CheckLimit \/ Send \/ Count \/ Settle \/ QueueCheck \/ Remind
  <2>1. UNCHANGED grant
    BY <1>4 DEF CheckLimit, Send, Count, Settle, QueueCheck, Remind, tables
  <2>2. job'.event = job.event /\ job'.lane = job.lane
    BY <1>4, JobContinues
  <2>3. QED BY <2>1, <2>2, <1>3
<1>5. CASE Relay \/ Log \/ CloseCheck \/ Crash
  BY <1>5 DEF Relay, Log, CloseCheck, Crash, tables
<1>6. CASE ClaimCheck
  BY <1>6 DEF ClaimCheck
<1>7. CASE CancelCheck \/ Tick \/ UNCHANGED vars \/ \E e \in Events : Duplicate(e)
  BY <1>7, <1>3 DEF CancelCheck, Tick, Duplicate, vars, tables
<1>8. QED
  BY <1>1, <1>2, <1>4, <1>5, <1>6, <1>7 DEF Next, Work, Sweep

LEMMA BoxInvariance == Spec => []BoxInv
<1>1. Init => BoxInv
  BY InitIInv, PipelineAssumption DEF BoxInv, HandOK, Init, Idle
<1>2. BoxInv /\ [Next]_vars => BoxInv'
  BY NextIInv, HandKept DEF BoxInv, IInv
<1>3. QED BY <1>1, <1>2, PTL DEF Spec

\* What the mailbox sees of the tables and of the lock holder.
Arrived == {m \in Messages : inbound[m] # "none"}
Hand == IF job.event \in Messages THEN job.event ELSE "none"
Answered == [m \in Messages |-> replies[m].lane]
Lost == lost \cap Messages
boxed == <<grant, Arrived, Hand, attempts, Answered, told, unheard, Lost>>

LEMMA BoxVars == Box!vars = boxed
BY DEF Box!vars, boxed, Arrived, Hand, Answered, Lost

\* Taking a message in hand, or only noting it.
LEMMA BoxTake ==
    ASSUME InboundTypeOK, NEW m \in Messages, Free, JobOK, New(m),
           NEW s \in {"pending", "silent"}, inbound' = [inbound EXCEPT ![m] = s],
           \/ grant # "blocked" /\ job'.event = m
           \/ job' = Idle,
           UNCHANGED <<grant, history>>
    PROVE  Box!Take(m)
<1> USE PipelineAssumption
<1>1. job.event = "none"
  BY DEF JobOK, Idle
<1>2. Hand = "none"
  BY <1>1 DEF Hand
<1>3. m \notin Arrived /\ Arrived' = Arrived \cup {m}
  BY DEF Arrived, New, InboundTypeOK, Events
<1>4. \/ grant # "blocked" /\ Hand' = m
      \/ Hand' = Hand
  BY <1>2 DEF Hand, Idle
<1>5. UNCHANGED <<grant, attempts, Answered, told, unheard, Lost>>
  BY DEF history, Answered, Lost
<1>6. QED
  BY <1>2, <1>3, <1>4, <1>5 DEF Box!Take, Hand, Arrived, Answered, Lost

\* A step that leaves in place what the mailbox sees.
LEMMA BoxStutters ==
    ASSUME UNCHANGED <<grant, history>>, Hand' = Hand, Arrived' = Arrived
    PROVE  UNCHANGED Box!vars
BY BoxVars DEF boxed, history, Answered, Lost, Arrived, Hand, Box!vars

LEMMA BoxStep == BoxInv /\ [Next]_vars => [Box!Next]_(Box!vars)
<1> SUFFICES ASSUME BoxInv, [Next]_vars PROVE [Box!Next]_(Box!vars)
  OBVIOUS
<1> USE PipelineAssumption
<1>0. InboundTypeOK /\ JobOK /\ AttemptsOK /\ ToldOK /\ HandOK
  BY DEF BoxInv, IInv
<1>1. ASSUME NEW m \in Messages, ReceiveTier1(m) \/ ReceiveTier2(m) PROVE Box!Take(m)
  <2>1. job'.event = m /\ grant # "blocked"
    BY <1>1 DEF ReceiveTier1, ReceiveTier2, Job
  <2>2. inbound' = [inbound EXCEPT ![m] = "pending"] /\ Free /\ New(m) /\ UNCHANGED <<grant, history>>
    BY <1>1 DEF ReceiveTier1, ReceiveTier2, Record
  <2>3. QED BY <1>0, <2>1, <2>2, BoxTake
<1>2. ASSUME NEW m \in Messages, ReceiveSilently(m) PROVE Box!Take(m)
  <2>1. \/ grant # "blocked" /\ job'.event = m
        \/ job' = Idle
    BY <1>2 DEF ReceiveSilently, Job
  <2>2. inbound' = [inbound EXCEPT ![m] = "silent"] /\ Free /\ New(m) /\ UNCHANGED <<grant, history>>
    BY <1>2 DEF ReceiveSilently
  <2>3. QED BY <1>0, <2>1, <2>2, BoxTake
<1>3. ASSUME NEW o \in Orders, Execute(o) PROVE Box!Decide
  <2>1. Hand = "none" /\ Hand' = "none"
    BY <1>0, <1>3 DEF Execute, Job, JobOK, Hand, Idle
  <2>2. grant' \in Box!Grants
    BY <1>0, <1>3 DEF Execute, After, InboundTypeOK, Box!Grants
  <2>3. UNCHANGED <<Arrived, attempts, Answered, told, unheard, Lost>>
    BY <1>3 DEF Execute, Arrived, Answered, Lost
  <2>4. QED BY <2>1, <2>2, <2>3 DEF Box!Decide, Hand, Arrived, Answered, Lost
<1>4. CASE Send
  <2>1. PICK sent \in BOOLEAN :
            /\ job' = [job EXCEPT !.step = "count", !.sent = sent]
            /\ replies' = IF sent
                          THEN [replies EXCEPT ![job.event] = [lane |-> job.lane, at |-> now]]
                          ELSE replies
    BY <1>4 DEF Send
  <2>2. PICK m \in Messages, lane \in Lanes : m = job.event /\ lane = job.lane
    BY <1>0, <1>4 DEF Send, At, JobOK
  <2>3. Hand = m /\ Hand' = Hand
    BY <1>0, <2>1, <2>2 DEF Hand, InboundTypeOK, Jobs
  <2>4. attempts[m] = 0 /\ attempts' = [attempts EXCEPT ![m] = 1]
    <3>1. attempts[m] = 0 /\ 0 + 1 = 1
      BY <1>0, <1>4, <2>2 DEF AttemptsOK, InboundTypeOK, Send, At
    <3>2. attempts' = [attempts EXCEPT ![m] = attempts[m] + 1]
      BY <1>4, <2>2 DEF Send
    <3>3. QED BY <3>1, <3>2, Zenon
  <2>5. lane \in Box!Open(grant)
    BY <1>0, <2>2 DEF HandOK, InboundTypeOK, Box!Open, Box!Lanes, Lanes
  <2>6. Answered' \in {Answered, [Answered EXCEPT ![m] = lane]}
    BY <1>0, <2>1, <2>2 DEF Answered, InboundTypeOK
  <2>7. UNCHANGED <<grant, Arrived, told, unheard, Lost>>
    BY <1>4 DEF Send, tables, Arrived, Lost
  <2>8. Box!Answer(m, lane)
    BY <2>3, <2>4, <2>5, <2>6, <2>7 DEF Box!Answer, Hand, Arrived, Answered, Lost
  <2>9. lane \in Box!Lanes
    BY <2>2 DEF Box!Lanes, Lanes
  <2>10. QED BY <2>8, <2>9 DEF Box!Next
<1>5. CASE Relay
  <2>1. PICK m \in Messages : m = job.event
    BY <1>0, <1>5 DEF Relay, At, JobOK
  <2>2. /\ told[m] = 0 /\ m \notin unheard
        /\ \/ told' = [told EXCEPT ![m] = 1] /\ UNCHANGED unheard
           \/ unheard' = unheard \cup {m} /\ UNCHANGED told
    <3>1. told[m] = 0 /\ m \notin unheard /\ 0 + 1 = 1
      BY <1>0, <2>1 DEF ToldOK
    <3>2. \/ told' = [told EXCEPT ![m] = told[m] + 1] /\ UNCHANGED unheard
          \/ unheard' = unheard \cup {m} /\ UNCHANGED told
      BY <1>5, <2>1 DEF Relay, Relayed
    <3>3. QED BY <3>1, <3>2, Zenon
  <2>3. Hand = m /\ Hand' = "none"
    BY <1>5, <2>1 DEF Relay, Hand, Idle
  <2>4. UNCHANGED <<grant, Arrived, attempts, Answered, Lost>>
    BY <1>5 DEF Relay, tables, Arrived, Answered, Lost
  <2>5. Box!Tell(m)
    BY <2>2, <2>3, <2>4 DEF Box!Tell, Hand, Arrived, Answered, Lost
  <2>6. QED BY <2>5 DEF Box!Next
<1>6. CASE Crash
  <2>1. Hand' = "none" /\ UNCHANGED <<grant, Arrived, attempts, Answered, told, unheard>>
    BY <1>6 DEF Crash, Hand, Idle, tables, Arrived, Answered
  <2>2. CASE job.event \in Messages
    <3>1. PICK m \in Messages : m = job.event
      BY <2>2
    <3>2. Hand = m /\ Lost' = Lost \cup {m}
      BY <1>6, <3>1 DEF Crash, Hand, Lost
    <3>3. Box!Lose(m)
      BY <2>1, <3>2 DEF Box!Lose, Hand, Arrived, Answered, Lost
    <3>4. QED BY <3>3 DEF Box!Next
  <2>3. CASE job.event \notin Messages
    <3>1. Hand = "none" /\ Lost' = Lost
      BY <1>6, <2>3 DEF Crash, Hand, Lost
    <3>2. QED BY <2>1, <3>1, BoxVars DEF boxed, Box!vars, Hand, Arrived, Answered, Lost
  <2>4. QED BY <2>2, <2>3
<1>7. CASE CheckLimit \/ Count \/ Settle \/ QueueCheck
  <2>1. UNCHANGED <<grant, history>>
    BY <1>7 DEF CheckLimit, Count, Settle, QueueCheck
  <2>2. Hand' = Hand
    <3>1. job'.event = job.event
      BY <1>0, <1>7, JobContinues
    <3>2. QED BY <3>1 DEF Hand
  <2>3. Arrived' = Arrived
    <3>1. CASE Settle
      BY <1>0, <3>1 DEF Settle, Arrived, At, JobOK, InboundTypeOK, Events
    <3>2. CASE CheckLimit \/ Count \/ QueueCheck
      BY <3>2 DEF CheckLimit, Count, QueueCheck, Arrived
    <3>3. QED BY <1>7, <3>1, <3>2
  <2>4. QED BY <2>1, <2>2, <2>3, BoxStutters
<1>8. CASE Log
  <2>1. UNCHANGED <<grant, history>>
    BY <1>8 DEF Log
  <2>2. job.event \in Orders
    BY <1>0, <1>8 DEF Log, JobOK
  <2>3. Hand' = Hand
    BY <1>8, <2>2 DEF Log, Hand, Idle
  <2>4. Arrived' = Arrived
    BY <1>0, <1>8, <2>2 DEF Log, Logged, Arrived, InboundTypeOK, Events
  <2>5. QED BY <2>1, <2>3, <2>4, BoxStutters
<1>9. CASE Remind \/ CloseCheck \/ CancelCheck \/ ClaimCheck
  <2>1. Hand = "none" /\ Hand' = "none"
    <3>1. CASE Remind
      <4>1. job.event = "check" /\ job'.event = "check"
        BY <1>0, <3>1, JobContinues DEF Remind, At, JobOK
      <4>2. QED BY <4>1 DEF Hand
    <3>2. CASE CloseCheck
      BY <1>0, <3>2 DEF CloseCheck, At, JobOK, Hand, Idle
    <3>3. CASE CancelCheck
      BY <1>0, <3>3 DEF CancelCheck, Free, At, JobOK, Hand, Idle
    <3>4. CASE ClaimCheck
      BY <1>0, <3>4 DEF ClaimCheck, Free, At, JobOK, Hand, Idle, Job
    <3>5. QED BY <1>9, <3>1, <3>2, <3>3, <3>4
  <2>2. UNCHANGED <<grant, Arrived, attempts, Answered, told, unheard, Lost>>
    BY <1>9 DEF Remind, CloseCheck, CancelCheck, ClaimCheck, tables, history, Arrived,
       Answered, Lost
  <2>3. QED BY <2>1, <2>2, BoxVars DEF boxed, Box!vars, Hand, Arrived, Answered, Lost
<1>10. CASE Tick \/ UNCHANGED vars \/ \E e \in Events : Duplicate(e)
  <2>1. UNCHANGED <<tables, job, history>>
    BY <1>10 DEF Tick, Duplicate, vars
  <2>2. Hand' = Hand /\ Arrived' = Arrived
    BY <2>1 DEF Hand, Arrived, tables
  <2>3. QED BY <2>1, <2>2, BoxStutters DEF tables
<1>11. QED
  BY <1>1, <1>2, <1>3, <1>4, <1>5, <1>6, <1>7, <1>8, <1>9, <1>10
  DEF Next, Work, Sweep, Box!Next

\* Whatever crashes and whatever is delivered again: messages are handled one at
\* a time and once, and no answer leaves under a grant that no longer stands.
THEOREM MailboxImplementation == Spec => ImplementsMailbox
<1>1. Init => Box!Init
  BY PipelineAssumption DEF Init, Box!Init, NoReply, Idle, Events
<1>2. QED
  BY <1>1, BoxInvariance, BoxStep, PTL DEF Spec, ImplementsMailbox, Box!Spec

=============================================================================
