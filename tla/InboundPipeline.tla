--------------------------- MODULE InboundPipeline ---------------------------
(***************************************************************************)
(* One contact's messages and the owner's commands about that contact, as  *)
(* handle_inbound of src/receptionist/app.py works through them: record    *)
(* the event, answer within the limits, settle the record, queue the       *)
(* owner's seen-check, tell the owner.  The handlers and the sweeper hold  *)
(* _db_lock throughout, so one job runs at a time, but it commits and      *)
(* talks to the transport and the relay in between: each commit or call is *)
(* a step here, and the process may die before any of them.  Every table   *)
(* is keyed by the lead (or by the event), so one lead is enough.          *)
(*                                                                         *)
(* Who is trusted is the business of Tier2Manager; here a grant is no more *)
(* than the status that chooses the lane.                                  *)
(***************************************************************************)
EXTENDS Integers, FiniteSets

CONSTANTS
    Messages,         \* events of the contact
    Orders,           \* events of the owner: one per command, named after it
    MaxReplies,       \* outbound.max_auto_replies_per_contact_per_day
    MaxTier2Replies,  \* tier2.max_daily_replies
    AckCooldown,      \* outbound.ack_cooldown_seconds
    Day,              \* 86400
    SeenDelay,        \* owner_seen_check.delay_seconds
    MaxCrashes,       \* bound on the jobs the process dies in, each once at most
    MaxNow            \* bound on the clock

ASSUME PipelineAssumption ==
    /\ IsFiniteSet(Messages)
    /\ Orders \subseteq {"tier2", "tier1", "block", "unblock"}
    /\ Messages \cap (Orders \cup {"check", "none"}) = {}
    /\ MaxReplies \in Nat
    /\ MaxTier2Replies \in Nat
    /\ AckCooldown \in Nat
    /\ Day \in Nat \ {0}
    /\ SeenDelay \in Nat \ {0}
    /\ MaxCrashes \in Nat
    /\ MaxNow \in Nat

Events == Messages \cup Orders
Lanes == {"tier1", "tier2"}
MaxIn == [l \in Lanes |-> IF l = "tier1" THEN MaxReplies ELSE MaxTier2Replies]

\* What a window of a lane really lets through: may_reply does not look at the
\* maximum in the call that opens a window, so that a maximum of zero lets one
\* answer out in each window of Tier 2.
Allowed == [l \in Lanes |-> IF l = "tier2" /\ MaxTier2Replies = 0 THEN 1 ELSE MaxIn[l]]

VARIABLES
    now,      \* the clock
    inbound,  \* inbound.auto_reply_status by event; "none": no row
    limits,   \* contact_limits and the day counter of tier2_contacts, by lane
    grant,    \* tier2_contacts.status; "none": no row
    seen,     \* owner_seen_checks
    job,      \* what the holder of the lock is doing
    \* History, which no step reads:
    attempts, \* how often a message was answered through the transport
    replies,  \* when, and in which lane, the transport accepted an answer
    told,     \* how often the owner was told of a message
    unheard,  \* the messages whose relay failed
    ran,      \* how often an order changed the grant
    reminded, \* how often the seen-check was relayed
    lost      \* what the process was working on when it died

tables == <<inbound, limits, grant, seen>>
history == <<attempts, replies, told, unheard, ran, reminded, lost>>
vars == <<now, tables, job, history>>

\* Times are Unix seconds: 0 is long past when the clock starts at Day, and a
\* row that is not there is as good as one whose window is long over.
NoLimit == [start |-> 0, count |-> 0, ack |-> 0]
NoCheck == [status |-> "none", due |-> 0]
NoReply == [lane |-> "none", at |-> 0]

Steps == {"limit", "send", "count", "settle", "queue", "relay", "log", "remind", "close"}
Jobs == [step: Steps \cup {"idle"}, event: Events \cup {"check", "none"},
         lane: Lanes \cup {"none"}, ack: BOOLEAN, sent: BOOLEAN]
Idle == [step |-> "idle", event |-> "none", lane |-> "none", ack |-> FALSE, sent |-> FALSE]
Job(step, e, lane, ack) ==
    [step |-> step, event |-> e, lane |-> lane, ack |-> ack, sent |-> FALSE]

\* The tables are well formed, and no window of a lane counts more answers than
\* the lane's daily maximum (one, where the maximum of Tier 2 is zero).
InboundTypeOK ==
    /\ now \in Nat
    /\ inbound \in [Events -> {"none", "pending", "settled", "silent"}]
    /\ limits \in [Lanes -> [start: Nat, count: Nat, ack: Nat]]
    /\ \A l \in Lanes : limits[l].count <= Allowed[l]
    /\ grant \in {"none", "active", "downgraded", "blocked"}
    /\ seen \in [status: {"none", "pending", "sending", "sent", "failed", "cancelled"}, due: Nat]
    /\ job \in Jobs
    /\ attempts \in [Messages -> Nat]
    /\ replies \in [Messages -> [lane: Lanes \cup {"none"}, at: Nat]]
    /\ told \in [Messages -> Nat]
    /\ unheard \subseteq Messages
    /\ ran \in [Orders -> Nat]
    /\ reminded \in Nat
    /\ lost \subseteq Events \cup {"check"}

Init ==
    /\ now = Day
    /\ inbound = [e \in Events |-> "none"]
    /\ limits = [l \in Lanes |-> NoLimit]
    /\ grant = "none"
    /\ seen = NoCheck
    /\ job = Idle
    /\ attempts = [m \in Messages |-> 0]
    /\ replies = [m \in Messages |-> NoReply]
    /\ told = [m \in Messages |-> 0]
    /\ unheard = {}
    /\ ran = [o \in Orders |-> 0]
    /\ reminded = 0
    /\ lost = {}

At(step) == job.step = step
Free == At("idle")

\* Plausible bug: the event is looked up among the settled ones only.
BugNew(e) == inbound[e] # "settled"

New(e) == inbound[e] = "none"

----------------------------------------------------------------------------
\* Messages of the contact.

\* The transport, or the shim after a timeout, delivers an event again.
Duplicate(e) ==
    /\ Free
    /\ ~New(e)
    /\ UNCHANGED vars

\* Plausible bug: the event is only recorded once it has been answered.
BugRecord(e) == inbound

Record(e) == [inbound EXCEPT ![e] = "pending"]

\* The lane of a message whose text gets no answer, a canned one or an
\* acknowledgement.  A group chat is never answered.  Active contacts come here
\* too: in a group, or when their fingerprint is no longer that of the grant.
ReceiveTier1(m) ==
    /\ Free
    /\ New(m)
    /\ grant # "blocked"
    /\ inbound' = Record(m)
    /\ \/ job' = Job("settle", m, "tier1", FALSE)
       \/ \E ack \in BOOLEAN : job' = Job("limit", m, "tier1", ack)
    /\ UNCHANGED <<now, limits, grant, seen, history>>

\* An active contact: the model, a refusal, an image reply or a silent fast ack.
ReceiveTier2(m) ==
    /\ Free
    /\ New(m)
    /\ grant = "active"
    /\ inbound' = Record(m)
    /\ \E step \in {"limit", "settle"} : job' = Job(step, m, "tier2", FALSE)
    /\ UNCHANGED <<now, limits, grant, seen, history>>

\* A reaction is recorded and, if it is a question or a dislike, shown to the
\* owner; a blocked contact is met with silence.
ReceiveSilently(m) ==
    /\ Free
    /\ New(m)
    /\ inbound' = [inbound EXCEPT ![m] = "silent"]
    /\ \/ job' = Idle
       \/ grant # "blocked" /\ job' = Job("relay", m, "none", FALSE)
    /\ UNCHANGED <<now, limits, grant, seen, history>>

\* Plausible bug: the limit is compared one too late.
BugWithin(lane, row, ack) ==
    row.count <= MaxIn[lane] /\ (ack => now - row.ack >= AckCooldown)

Within(lane, row, ack) ==
    row.count < MaxIn[lane] /\ (ack => now - row.ack >= AckCooldown)

\* may_auto_reply and may_reply: a window that is over is opened anew, with its
\* acknowledgement forgotten.  Tier 1 compares in the new window too; Tier 2
\* answers without a comparison when it opens one.
CheckLimit ==
    LET old == limits[job.lane]
        over == now - old.start >= Day
        row == IF over THEN [NoLimit EXCEPT !.start = now] ELSE old
        free == over /\ job.lane = "tier2"
    IN  /\ At("limit")
        /\ limits' = [limits EXCEPT ![job.lane] = row]
        /\ job' = [job EXCEPT !.step =
                      IF free \/ Within(job.lane, row, job.ack) THEN "send" ELSE "settle"]
        /\ UNCHANGED <<now, inbound, grant, seen, history>>

\* One attempt, whatever becomes of it.
Send ==
    /\ At("send")
    /\ attempts' = [attempts EXCEPT ![job.event] = @ + 1]
    /\ \E sent \in BOOLEAN :
          /\ job' = [job EXCEPT !.step = "count", !.sent = sent]
          /\ replies' = IF sent
                        THEN [replies EXCEPT ![job.event] = [lane |-> job.lane, at |-> now]]
                        ELSE replies
    /\ UNCHANGED <<now, tables, told, unheard, ran, reminded, lost>>

\* Only what the transport accepted counts.
Counted(row) ==
    [start |-> row.start, count |-> row.count + 1, ack |-> IF job.ack THEN now ELSE row.ack]

Count ==
    /\ At("count")
    /\ limits' = IF job.sent THEN [limits EXCEPT ![job.lane] = Counted(@)] ELSE limits
    /\ job' = [job EXCEPT !.step = "settle"]
    /\ UNCHANGED <<now, inbound, grant, seen, history>>

Settle ==
    /\ At("settle")
    /\ inbound' = [inbound EXCEPT ![job.event] = "settled"]
    /\ job' = [job EXCEPT !.step = IF job.lane = "tier1" THEN "queue" ELSE "relay"]
    /\ UNCHANGED <<now, limits, grant, seen, history>>

\* Plausible bug: INSERT OR REPLACE, as for the limits.
BugQueued == [status |-> "pending", due |-> now + SeenDelay]

\* queue_owner_seen_check: INSERT OR IGNORE.
Queued ==
    IF seen.status = "none" THEN [status |-> "pending", due |-> now + SeenDelay] ELSE seen

\* A Tier-1 message that has a route into Discord queues the seen-check; one of
\* a group, or whose route fails, does not.
QueueCheck ==
    /\ At("queue")
    /\ seen' \in {seen, Queued}
    /\ job' = [job EXCEPT !.step = "relay"]
    /\ UNCHANGED <<now, inbound, limits, grant, history>>

\* Plausible bug: no relay for what was answered.
BugRelayed == IF job.sent THEN told ELSE [told EXCEPT ![job.event] = @ + 1]

Relayed == [told EXCEPT ![job.event] = @ + 1]

\* One attempt: a relay that fails is logged and not repeated, and the owner
\* never hears of the message.
Relay ==
    /\ At("relay")
    /\ \/ told' = Relayed /\ UNCHANGED unheard
       \/ unheard' = unheard \cup {job.event} /\ UNCHANGED told
    /\ job' = Idle
    /\ UNCHANGED <<now, tables, attempts, replies, ran, reminded, lost>>

----------------------------------------------------------------------------
\* Commands of the owner.

After(o, g) ==
    CASE o = "tier2" /\ g # "blocked" -> "active"
      [] o = "tier1" /\ g = "active" -> "downgraded"
      [] o = "block" -> "blocked"
      [] o = "unblock" /\ g = "blocked" -> "downgraded"
      [] OTHER -> g

\* Plausible bug: a command does not wait for the lock.
BugExecute(o) ==
    /\ New(o)
    /\ grant' = After(o, grant)
    /\ ran' = [ran EXCEPT ![o] = IF grant' # grant THEN @ + 1 ELSE @]
    /\ inbound' = [inbound EXCEPT ![o] = "settled"]
    /\ UNCHANGED <<now, limits, seen, job, attempts, replies, told, unheard, reminded, lost>>

\* The command is executed, and committed, before its event is recorded.
Execute(o) ==
    /\ Free
    /\ New(o)
    /\ grant' = After(o, grant)
    /\ ran' = [ran EXCEPT ![o] = IF grant' # grant THEN @ + 1 ELSE @]
    /\ job' = Job("log", o, "none", FALSE)
    /\ UNCHANGED <<now, inbound, limits, seen, attempts, replies, told, unheard, reminded, lost>>

\* Plausible bug: the event of a command is not recorded.
BugLogged == inbound

Logged == [inbound EXCEPT ![job.event] = "settled"]

\* The read-back and the disclosure follow; they change none of these tables.
Log ==
    /\ At("log")
    /\ inbound' = Logged
    /\ job' = Idle
    /\ UNCHANGED <<now, limits, grant, seen, history>>

----------------------------------------------------------------------------
\* The sweeper: process_owner_seen_checks.

Due == seen.status = "pending" /\ seen.due <= now

CancelCheck ==
    /\ Free
    /\ Due
    /\ grant # "none"
    /\ seen' = [seen EXCEPT !.status = "cancelled"]
    /\ UNCHANGED <<now, inbound, limits, grant, job, history>>

\* Plausible bug: a check is relayed first and taken off the queue afterwards.
BugClaimed == seen

Claimed == [seen EXCEPT !.status = "sending"]

ClaimCheck ==
    /\ Free
    /\ Due
    /\ grant = "none"
    /\ seen' = Claimed
    /\ job' = Job("remind", "check", "none", FALSE)
    /\ UNCHANGED <<now, inbound, limits, grant, history>>

Remind ==
    /\ At("remind")
    /\ reminded' = reminded + 1
    /\ \E sent \in BOOLEAN : job' = [job EXCEPT !.step = "close", !.sent = sent]
    /\ UNCHANGED <<now, tables, attempts, replies, told, unheard, ran, lost>>

CloseCheck ==
    /\ At("close")
    /\ seen' = [seen EXCEPT !.status = IF job.sent THEN "sent" ELSE "failed"]
    /\ job' = Idle
    /\ UNCHANGED <<now, inbound, limits, grant, history>>

----------------------------------------------------------------------------
\* The process dies inside a job and is started again: the job is forgotten,
\* the tables stay.
Crash ==
    /\ ~Free
    /\ job.event \notin lost
    /\ Cardinality(lost) < MaxCrashes
    /\ job' = Idle
    /\ lost' = lost \cup {job.event}
    /\ UNCHANGED <<now, tables, attempts, replies, told, unheard, ran, reminded>>

Tick ==
    /\ now < MaxNow
    /\ now' = now + 1
    /\ UNCHANGED <<tables, job, history>>

Work == CheckLimit \/ Send \/ Count \/ Settle \/ QueueCheck \/ Relay \/ Log \/ Remind \/ CloseCheck
Sweep == CancelCheck \/ ClaimCheck

Next ==
    \/ \E m \in Messages : ReceiveTier1(m) \/ ReceiveTier2(m) \/ ReceiveSilently(m)
    \/ \E o \in Orders : Execute(o)
    \/ \E e \in Events : Duplicate(e)
    \/ Work
    \/ Sweep
    \/ Crash
    \/ Tick

Spec == Init /\ [][Next]_vars

----------------------------------------------------------------------------
\* Properties.

\* However often a message is delivered, and wherever the process died over it,
\* the contact is answered once at most and one relay to the owner is attempted:
\* he is told once at most, and not at all of a message whose relay failed.
AnsweredOnce ==
    \A m \in Messages : attempts[m] <= 1 /\ told[m] <= (IF m \in unheard THEN 0 ELSE 1)

\* The answers of one lane that the transport accepted from time t on, for a
\* day, those left out whose counting a crash prevented.
AcceptedFrom(l, t) ==
    {m \in Messages \ lost : replies[m].lane = l /\ t <= replies[m].at /\ replies[m].at < t + Day}

\* The limit is per window and a window starts when somebody asks: in any 24
\* hours, however they lie, a contact gets at most twice the daily maximum (at
\* most two answers in Tier 2 when the maximum there is zero).
TwiceTheLimit ==
    \A l \in Lanes, m \in Messages :
        Cardinality(AcceptedFrom(l, replies[m].at)) <= 2 * Allowed[l]

\* A new contact is called to the owner's attention once at most, whatever
\* crashes, further messages and sweeps there are, and not after a decision.
RemindsUndecidedOnce ==
    [][reminded' # reminded => reminded = 0 /\ grant = "none"]_vars

\* A command delivered again changes nothing, unless the process died between
\* executing it and recording its event.
RunsOnceUnlessLost == \A o \in Orders : ran[o] > 1 => o \in lost

\* A message taken on has been told to the owner or its one relay has failed,
\* unless it is the one the lock holder is working on or was lost in a crash; a
\* seen-check that is being sent is in hand or lost.  With progress of the lock
\* holder this is what brings every message to an attempt to tell the owner; that
\* he hears of it is not promised.
EachRelayTried ==
    /\ \A m \in Messages :
          inbound[m] \in {"pending", "settled"} =>
              told[m] > 0 \/ m \in unheard \/ job.event = m \/ m \in lost
    /\ seen.status = "sending" => job.event = "check" \/ "check" \in lost

\* A message in hand is answered at most once, in a lane that the grant in force
\* at that moment leaves open, and is put away by one try at telling the owner; none is
\* taken in hand again, and no decision falls between the lookup of the grant
\* and the answer given under it, although every step commits.
Box == INSTANCE Mailbox WITH
    arrived <- {m \in Messages : inbound[m] # "none"},
    hand <- IF job.event \in Messages THEN job.event ELSE "none",
    tried <- attempts,
    answered <- [m \in Messages |-> replies[m].lane],
    lost <- lost \cap Messages

ImplementsMailbox == Box!Spec

=============================================================================
