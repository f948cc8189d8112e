----------------------------- MODULE ReviewedReply -----------------------------
(***************************************************************************)
(* The one path from Discord to a contact: the owner's "reply <message>"   *)
(* in a lead's thread.  handle_discord_contact_reply of app.py authorizes  *)
(* it under the database lock (handle_contact_reply of discord_routing.py),*)
(* sends and reads back without the lock, and records the outcome under it *)
(* again (complete_contact_reply).  Each HTTP request has its own thread,  *)
(* so several deliveries of one command, the registry of Tier2Manager, the *)
(* bridge that carries the text and a crash may come between any two of    *)
(* these steps.                                                            *)
(***************************************************************************)
EXTENDS Tier2Manager

CONSTANTS
    Channelled, \* the categories with a channel of their own (category_channels)
    Threads,    \* ids Discord gives to threads
    NoThread,   \* no thread
    LeadOf,     \* the lead a thread is made for
    Messages,   \* command messages of the owner, in threads of the guild
    ThreadOf,   \* the thread a message was written in
    BodyOf,     \* the text to be sent
    Transports, \* the transports the process may come up with
    Workers,    \* request threads of the HTTP server
    NoMessage,  \* the job of an idle thread
    MaxSends    \* bound on the sends counted for a message

\* What a transport answers to one send: the status, and the message id.
\*   stub    StubTransport, whenever outbound is disabled and by default: the send
\*           is only recorded, and answered with a synthetic id
\*   held    a transport handed to Receptionist, with outbound disabled: no send
\*   bridge  BlueBubblesTransport with outbound enabled: any answer, or none
Answers ==
    [stub   |-> {<<"sent", "stub">>},
     held   |-> {<<"outbound_disabled", "null">>},
     bridge |-> ({"sent", "failed"} \X {"guid", "null"})
                    \cup {<<"uncertain_timeout_no_retry", "null">>}]

ASSUME ReplyAssumption ==
    /\ Channelled \subseteq Categories
    /\ NoThread \notin Threads
    /\ LeadOf \in [Threads -> Leads]
    /\ ThreadOf \in [Messages -> Threads]
    /\ Transports \subseteq {"stub", "held", "bridge"}
    /\ NoMessage \notin Messages
    /\ MaxSends \in Nat

VARIABLES
    bound,     \* discord_threads: a lead's thread, and the category it is bound to
    home,      \* the category whose channel a thread really hangs under
    alive,     \* the threads that exist in Discord
    mirrored,  \* pending category posts, and the thread each goes to
    replies,   \* discord_contact_replies: message -> status
    ids,       \* its message_id_transport: null, a stub's, or the bridge's
    outbound,  \* the statuses recorded in the table outbound for a message
    refused,   \* messages whose delivery was answered "Reply not sent"
    lost,      \* (history) replies that were in hand when the process died
    transport, \* the transport of the running process
    inflight,  \* texts handed to the bridge that may still go out
    created,   \* how many messages of the bridge's history a command brought about
    alike,     \* (history) commands whose text somebody else sent during the attempt
    pc,        \* the step a request thread is at
    job,       \* the message it works on
    since,     \* its text in its chat, in the history since started_at_ms
    status,    \* the status of its send
    guid       \* the message id the transport returned

threadVars == <<bound, home, alive, mirrored>>
replyVars == <<replies, ids, outbound, refused, lost>>
bridgeVars == <<transport, inflight, created, alike>>
workerVars == <<pc, job, since, status, guid>>
allVars == <<vars, threadVars, replyVars, bridgeVars, workerVars>>

NoHome == "none"
Homes == Categories \cup {NoHome}
Places == Threads \cup {NoThread}
Token == [lead : Leads, category : Categories, thread : Places, posted : BOOLEAN]
SendStatus == {"sent", "failed", "uncertain_timeout_no_retry", "outbound_disabled"}
Final == {"verified", "sent_unverified", "failed", "uncertain_timeout_no_retry",
          "outbound_disabled"}
Ids == {"null", "stub", "guid"}
Hands == {"own", "other"}
Lead(m) == LeadOf[ThreadOf[m]]

ReplyTypeOK ==
    /\ bound \in [Leads -> [category : Homes, thread : Places]]
    /\ home \in [Threads -> Homes]
    /\ alive \subseteq Threads
    /\ mirrored \subseteq Token
    /\ replies \in [Messages -> {"none", "authorized"} \cup Final]
    /\ ids \in [Messages -> Ids]
    /\ outbound \in [Messages -> SUBSET SendStatus]
    /\ refused \subseteq Messages
    /\ lost \subseteq Messages
    /\ transport \in Transports
    /\ inflight \subseteq Messages
    /\ created \in [Messages -> 0..MaxSends]
    /\ alike \subseteq Messages
    /\ pc \in [Workers -> {"idle", "start", "send", "record", "verify", "complete"}]
    /\ job \in [Workers -> Messages \cup {NoMessage}]
    /\ since \in [Workers -> SUBSET Hands]
    /\ status \in [Workers -> Final \cup {"sent"}]
    /\ guid \in [Workers -> Ids]

ReplyInit ==
    /\ Init
    /\ bound = [l \in Leads |-> [category |-> NoHome, thread |-> NoThread]]
    /\ home = [t \in Threads |-> NoHome]
    /\ alive = {}
    /\ mirrored = {}
    /\ replies = [m \in Messages |-> "none"]
    /\ ids = [m \in Messages |-> "null"]
    /\ outbound = [m \in Messages |-> {}]
    /\ refused = {}
    /\ lost = {}
    /\ transport \in Transports
    /\ inflight = {}
    /\ created = [m \in Messages |-> 0]
    /\ alike = {}
    /\ pc = [w \in Workers |-> "idle"]
    /\ job = [w \in Workers |-> NoMessage]
    /\ since = [w \in Workers |-> {}]
    /\ status = [w \in Workers |-> "outbound_disabled"]
    /\ guid = [w \in Workers |-> "null"]

----------------------------------------------------------------------------
\* handle_contact_reply: the checks on the stored bindings.  The thread the command
\* comes from must be the one bound to its lead, and hang under the channel of the
\* category it is bound to; the contact row must be active, of that category, and
\* bound to the fingerprint the lead was last seen with.  Nothing here expires a
\* grant or looks for a block recorded under another lead.
MayReply(t) ==
    LET l == LeadOf[t]
    IN  /\ bound[l].thread = t
        /\ home[t] = bound[l].category
        /\ contacts[l].status = "active"
        /\ contacts[l].category = bound[l].category
        /\ identity[l] # NoFp
        /\ contacts[l].fp = identity[l]

\* A command comes from a thread that exists, or did.
Deliverable(m) == home[ThreadOf[m]] # NoHome /\ replies[m] = "none"

\* Plausible bug: the send is attempted first and the command recorded at the end.
BugAuthorize(w, m) ==
    /\ pc[w] = "idle"
    /\ Deliverable(m)
    /\ MayReply(ThreadOf[m])
    /\ pc' = [pc EXCEPT ![w] = "start"]
    /\ job' = [job EXCEPT ![w] = m]
    /\ UNCHANGED <<vars, threadVars, replyVars, bridgeVars, since, status, guid>>

\* Authorization and the INSERT of the command id are one critical section.
Authorize(w, m) ==
    /\ pc[w] = "idle"
    /\ Deliverable(m)
    /\ MayReply(ThreadOf[m])
    /\ replies' = [replies EXCEPT ![m] = "authorized"]
    /\ pc' = [pc EXCEPT ![w] = "start"]
    /\ job' = [job EXCEPT ![w] = m]
    /\ UNCHANGED <<vars, threadVars, ids, outbound, refused, lost, bridgeVars,
                   since, status, guid>>

\* A rejection is audited and answered, and leaves no row behind.
Refuse(w, m) ==
    /\ pc[w] = "idle"
    /\ Deliverable(m)
    /\ ~MayReply(ThreadOf[m])
    /\ refused' = refused \cup {m}
    /\ UNCHANGED <<vars, threadVars, replies, ids, outbound, lost, bridgeVars, workerVars>>

\* send_reply_with_result, outside the lock, notes the time and sends once.
Start(w) ==
    /\ pc[w] = "start"
    /\ since' = [since EXCEPT ![w] = {}]
    /\ pc' = [pc EXCEPT ![w] = "send"]
    /\ UNCHANGED <<vars, threadVars, replyVars, bridgeVars, job, status, guid>>

\* Whatever the bridge answers, the text may go out, at any time or never.
Send(w) ==
    /\ pc[w] = "send"
    /\ \E a \in Answers[transport] :
          /\ status' = [status EXCEPT ![w] = a[1]]
          /\ guid' = [guid EXCEPT ![w] = a[2]]
    /\ inflight' = inflight \cup {m \in {job[w]} : transport = "bridge"}
    /\ pc' = [pc EXCEPT ![w] = "record"]
    /\ UNCHANGED <<vars, threadVars, replyVars, transport, created, alike, job, since>>

\* Plausible bug: a send that failed is answered without being completed.
BugRecordOutbound(w) ==
    /\ pc[w] = "record"
    /\ outbound' = [outbound EXCEPT ![job[w]] = @ \cup {status[w]}]
    /\ pc' = [pc EXCEPT ![w] = IF status[w] = "sent" THEN "verify" ELSE "idle"]
    /\ UNCHANGED <<vars, threadVars, replies, ids, refused, lost, bridgeVars,
                   job, since, status, guid>>

\* The row of the table outbound, under the lock.
RecordOutbound(w) ==
    /\ pc[w] = "record"
    /\ outbound' = [outbound EXCEPT ![job[w]] = @ \cup {status[w]}]
    /\ pc' = [pc EXCEPT ![w] = IF status[w] = "sent" THEN "verify" ELSE "complete"]
    /\ UNCHANGED <<vars, threadVars, replies, ids, refused, lost, bridgeVars,
                   job, since, status, guid>>

\* Plausible bug: the id the bridge returned is not compared.
BugReadBack(w) == since[w]

\* verify_sent: a message of the source history from this side, with the chat and
\* the text, not older than the attempt, and with the returned id if there is one.
ReadBack(w) == IF guid[w] = "null" THEN since[w] ELSE since[w] \cap {"own"}

\* Plausible bug: the status of the send stands when it is not verified.
BugVerify(w) ==
    /\ pc[w] = "verify"
    /\ \E verified \in BOOLEAN :
          /\ verified => transport = "stub" \/ ReadBack(w) # {}
          /\ status' = [status EXCEPT ![w] = IF verified THEN "verified" ELSE @]
    /\ pc' = [pc EXCEPT ![w] = "complete"]
    /\ UNCHANGED <<vars, threadVars, replyVars, bridgeVars, job, since, guid>>

\* The stub finds what it recorded.  The bridge's history is queried, which may
\* fail, so a message that is there may go unverified.
Verify(w) ==
    /\ pc[w] = "verify"
    /\ \E verified \in BOOLEAN :
          /\ transport = "stub" => verified
          /\ verified => transport = "stub" \/ ReadBack(w) # {}
          /\ status' = [status EXCEPT ![w] =
                           IF verified THEN "verified" ELSE "sent_unverified"]
    /\ pc' = [pc EXCEPT ![w] = "complete"]
    /\ UNCHANGED <<vars, threadVars, replyVars, bridgeVars, job, since, guid>>

\* complete_contact_reply, under the lock; the thread returns its answer.
Complete(w) ==
    /\ pc[w] = "complete"
    /\ replies' = [replies EXCEPT ![job[w]] = status[w]]
    /\ ids' = [ids EXCEPT ![job[w]] = guid[w]]
    /\ pc' = [pc EXCEPT ![w] = "idle"]
    /\ job' = [job EXCEPT ![w] = NoMessage]
    /\ since' = [since EXCEPT ![w] = {}]
    /\ status' = [status EXCEPT ![w] = "outbound_disabled"]
    /\ guid' = [guid EXCEPT ![w] = "null"]
    /\ UNCHANGED <<vars, threadVars, outbound, refused, lost, bridgeVars>>

Work(w) ==
    Start(w) \/ Send(w) \/ RecordOutbound(w) \/ Verify(w) \/ Complete(w)

----------------------------------------------------------------------------
\* The bridge.  A message from this side turns up in its history, and the threads
\* that are sending the same text to the same contact may find it there.
Listening(m) ==
    {w \in Workers : /\ pc[w] \in {"send", "record", "verify"}
                     /\ Lead(job[w]) = Lead(m)
                     /\ BodyOf[job[w]] = BodyOf[m]}

Appears(m, own) ==
    /\ since' = [w \in Workers |->
                    since[w] \cup {IF job[w] \in own THEN "own" ELSE "other" :
                                       v \in {w} \cap Listening(m)}]
    /\ alike' = alike \cup ({job[w] : w \in Listening(m)} \ own)

\* What was handed over goes out: in time, after the timeout, after the row of
\* outbound, after the answer, or after the process has died.
Arrive(m) ==
    /\ m \in inflight
    /\ created[m] < MaxSends
    /\ inflight' = inflight \ {m}
    /\ created' = [created EXCEPT ![m] = @ + 1]
    /\ Appears(m, {m})
    /\ UNCHANGED <<vars, threadVars, replyVars, transport, pc, job, status, guid>>

\* The same words to the same contact by another hand: an automatic reply of
\* Tier 2, or the owner at the phone.
SentElsewhere(m) ==
    /\ transport = "bridge"
    /\ Listening(m) # {}
    /\ Appears(m, {})
    /\ UNCHANGED <<vars, threadVars, replyVars, transport, inflight, created,
                   pc, job, status, guid>>

----------------------------------------------------------------------------
\* The rest of the process.

\* An accepted Tier-2 message is mirrored: plan_outbound names the thread to
\* reuse, whatever its category, and register_pending_alert notes the category.
\* Without a channel for the category the post is an intake alert (DiscordIntake).
Mirror(l) ==
    /\ InboundTier2(l)
    /\ mirrored' = mirrored \cup
          {[lead |-> l, category |-> c, thread |-> bound[l].thread, posted |-> FALSE] :
              c \in {contacts'[l].category} \cap Channelled}
    /\ UNCHANGED <<bound, home, alive, replyVars, bridgeVars, workerVars>>

\* The gateway's delivery hook posts into the thread to reuse, or into a new one
\* under the category's channel if the plan names none.  If the thread to reuse is
\* gone it gives up: such a plan has no name for a new one.
Post(p, t) ==
    /\ p \in mirrored
    /\ ~p.posted
    /\ \/ p.thread = t /\ t \in alive /\ home' = home
       \/ /\ p.thread = NoThread
          /\ home[t] = NoHome /\ LeadOf[t] = p.lead
          /\ home' = [home EXCEPT ![t] = p.category]
    /\ alive' = alive \cup {t}
    /\ mirrored' = (mirrored \ {p}) \cup {[p EXCEPT !.thread = t, !.posted = TRUE]}
    /\ UNCHANGED <<vars, bound, replyVars, bridgeVars, workerVars>>

\* It reports the thread back, if the call gets through: confirm_alert_posted and
\* record_thread bind it.  A token whose post fails is one that is never confirmed.
ConfirmThread(p) ==
    /\ p \in mirrored
    /\ p.posted
    /\ mirrored' = mirrored \ {p}
    /\ bound' = [bound EXCEPT ![p.lead] = [category |-> p.category, thread |-> p.thread]]
    /\ UNCHANGED <<vars, home, alive, replyVars, bridgeVars, workerVars>>

\* The sweeper's pass drops the tokens that have grown too old as well
\* (prune_pending); how old a token is, is not kept.
SweepTokens ==
    /\ Sweep
    /\ mirrored' \in SUBSET mirrored
    /\ UNCHANGED <<bound, home, alive, replyVars, bridgeVars, workerVars>>

\* Somebody deletes the thread in Discord; the row stays.
DeleteThread(t) ==
    /\ t \in alive
    /\ alive' = alive \ {t}
    /\ UNCHANGED <<vars, bound, home, mirrored, replyVars, bridgeVars, workerVars>>

\* Everything else the registry does; the request threads are elsewhere.
Registry ==
    /\ \/ \E l \in Leads : Tapback(l) \/ InboundBlocked(l) \/ InboundTier1(l)
       \/ AdminCommand \/ Tick
    /\ UNCHANGED <<threadVars, replyVars, bridgeVars, workerVars>>

\* The process dies and comes back with the tables it had committed, perhaps with
\* another transport; a thread that was sending is gone, and the reply it worked
\* on stays "authorized".  What the bridge has, it has.
Die ==
    /\ CrashesHappen
    /\ Crash \/ (\E k \in Keys : Restart(k)) \/ UNCHANGED vars
    /\ transport' \in Transports
    /\ lost' = lost \cup {m \in Messages : replies[m] = "authorized"}
    /\ pc' = [w \in Workers |-> "idle"]
    /\ job' = [w \in Workers |-> NoMessage]
    /\ since' = [w \in Workers |-> {}]
    /\ status' = [w \in Workers |-> "outbound_disabled"]
    /\ guid' = [w \in Workers |-> "null"]
    /\ UNCHANGED <<threadVars, replies, ids, outbound, refused, inflight, created, alike>>

ReplyNext ==
    \/ \E w \in Workers, m \in Messages : Authorize(w, m) \/ Refuse(w, m)
    \/ \E w \in Workers : Work(w)
    \/ \E m \in Messages : Arrive(m) \/ SentElsewhere(m)
    \/ \E l \in Leads : Mirror(l)
    \/ \E p \in mirrored, t \in Threads : Post(p, t)
    \/ \E p \in mirrored : ConfirmThread(p)
    \/ \E t \in Threads : DeleteThread(t)
    \/ SweepTokens
    \/ Registry
    \/ Die

ReplySpec == ReplyInit /\ [][ReplyNext]_allVars

\* A request thread that is running gets on: sends and queries have timeouts and
\* the lock is held only for the length of a handler.
FairReplySpec == ReplySpec /\ \A w \in Workers : WF_allVars(Work(w))

----------------------------------------------------------------------------
(* Properties *)

\* However often a reply command is delivered, by however many threads, and
\* whatever dies in between, its text goes out at most once
\* (RELEASE-1.1-ADVERSARIAL-REVIEW.md: "One command ID authorizes at most one
\* send attempt"; the claim in handle_contact_reply).
AtMostOneSend == \A m \in Messages : created[m] <= 1

\* The outcome recorded for a command is never rewritten, by another delivery or
\* after a crash (complete_contact_reply updates without looking).
OutcomeIsFinal ==
    [][\A m \in Messages : replies[m] \in Final => replies'[m] = replies[m]]_allVars

\* What "verified" is worth.  With an id of the bridge, the text of this command is
\* in the bridge's history.  Without one, it is, or the same words went to the same
\* contact by another hand during the attempt, which nothing tells apart.  With an
\* id of the stub it says that the stub was asked, and nothing went out
\* (verify_sent of both transports, handle_discord_contact_reply).
VerifiedInSource ==
    \A m \in Messages : replies[m] = "verified" =>
        \/ ids[m] = "stub" /\ created[m] = 0
        \/ ids[m] # "stub" /\ created[m] > 0
        \/ ids[m] = "null" /\ m \in alike

\* A reply that is authorized gets its outcome recorded in the end, or the process
\* died with it: no result of the send or of the read-back leaves it in limbo
\* (handle_discord_contact_reply).
ReplyCompletes ==
    \A m \in Messages :
        replies[m] = "authorized" ~> replies[m] \in Final \/ m \in lost

\* What the lane amounts to, whatever the threads, deliveries and crashes: a
\* command is taken in once, under a grant bound to the identity last seen; its
\* text goes out once at most, although the grant may have gone by then and the
\* outcome been recorded; discord_contact_replies and outbound agree on how it
\* ended, and the end is for good (app.py: handle_discord_contact_reply).
Granted ==
    {l \in Leads : /\ contacts[l].status = "active"
                   /\ identity[l] # NoFp
                   /\ contacts[l].fp = identity[l]}
LeadOfMessage == [m \in Messages |-> Lead(m)]
Desk == INSTANCE ReplyDesk WITH
    LeadOf <- LeadOfMessage, granted <- Granted, reply <- replies, logged <- outbound

ImplementsDesk == Desk!Spec

\* A delivery answered "Reply not sent" is inert when it comes again (THREAT-MODEL.md:
\* "Discord command messages are recorded exactly once (replays are inert)").
\* A rejected reply leaves no row, so the same delivery is sent once what it was
\* refused for is no more: its thread is confirmed, or the lead promoted.
RefusedNeverSent == \A m \in refused : created[m] = 0

\* A promoted contact's messages are posted under the channel of the contact's
\* category (plan_outbound: "the category channel plus a stable per-lead
\* thread").  After a change of category the old thread is reused where it is.
ThreadUnderItsCategory ==
    \A l \in Leads :
        bound[l].thread # NoThread => home[bound[l].thread] = bound[l].category
===============================================================================
