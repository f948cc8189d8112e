------------------------------ MODULE ReplyDesk ------------------------------
(***************************************************************************)
(* What the reviewed-reply lane promises, without threads, deliveries or   *)
(* read-back: a desk at which a command to reply is taken in while the     *)
(* contact's grant stands, is carried out at most once, and gets one       *)
(* outcome, after which nothing about it changes.  The grants and the      *)
(* transport come and go meanwhile, and a text that was handed over goes   *)
(* out when it pleases.  ReviewedReply implements it.                      *)
(***************************************************************************)
EXTENDS Integers

CONSTANTS Leads, Messages, LeadOf, BodyOf, Transports

VARIABLES
    granted,   \* the leads that hold a grant bound to the identity last seen
    transport, \* what carries a text: the stub carries none
    reply,     \* "none", "authorized" or the outcome of a command
    logged,    \* what was noted of the attempt to send it
    created,   \* how often its text went out
    alike      \* commands whose text went to their contact by another hand meanwhile

vars == <<granted, transport, reply, logged, created, alike>>

Attempts == {"sent", "failed", "uncertain_timeout_no_retry", "outbound_disabled"}
Outcomes == (Attempts \ {"sent"}) \cup {"verified", "sent_unverified"}

\* An outcome says of the attempt what the log says; "verified" needs its words in
\* the source the transport is asked for.
AttemptOf(o) == IF o \in {"verified", "sent_unverified"} THEN "sent" ELSE o
Backed(m) == transport = "stub" \/ created[m] > 0 \/ m \in alike

Init ==
    /\ granted = {}
    /\ transport \in Transports
    /\ reply = [m \in Messages |-> "none"]
    /\ logged = [m \in Messages |-> {}]
    /\ created = [m \in Messages |-> 0]
    /\ alike = {}

\* Grants are given, bound again, taken back and end; a restart brings a transport.
Decide ==
    /\ granted' \in SUBSET Leads
    /\ transport' \in Transports
    /\ UNCHANGED <<reply, logged, created, alike>>

\* A command is taken in once, and only under a grant.
Open(m) ==
    /\ reply[m] = "none"
    /\ LeadOf[m] \in granted
    /\ reply' = [reply EXCEPT ![m] = "authorized"]
    /\ UNCHANGED <<granted, transport, logged, created, alike>>

\* Words are heard by the commands in hand that would send the same to the same.
SameText(m, n) == LeadOf[m] = LeadOf[n] /\ BodyOf[m] = BodyOf[n]
Heard(m) ==
    /\ alike \subseteq alike'
    /\ \A n \in alike' \ alike : reply[n] = "authorized" /\ SameText(m, n)

\* Its text goes out, once, unless it was noted that it was held.  The grant may be
\* gone, and the outcome may say anything by then.
Deliver(m) ==
    /\ reply[m] # "none"
    /\ "outbound_disabled" \notin logged[m]
    /\ created[m] = 0
    /\ created' = [created EXCEPT ![m] = 1]
    /\ Heard(m)
    /\ m \in alike' => m \in alike
    /\ UNCHANGED <<granted, transport, reply, logged>>

\* The same words by another hand.
Overhear(m) ==
    /\ Heard(m)
    /\ UNCHANGED <<granted, transport, reply, logged, created>>

Log(m, s) ==
    /\ reply[m] = "authorized"
    /\ logged[m] = {}
    /\ s = "outbound_disabled" => created[m] = 0
    /\ logged' = [logged EXCEPT ![m] = {s}]
    /\ UNCHANGED <<granted, transport, reply, created, alike>>

Close(m, o) ==
    /\ reply[m] = "authorized"
    /\ logged[m] = {AttemptOf(o)}
    /\ o = "verified" => Backed(m)
    /\ reply' = [reply EXCEPT ![m] = o]
    /\ UNCHANGED <<granted, transport, logged, created, alike>>

Next ==
    \/ Decide
    \/ \E m \in Messages : Open(m) \/ Deliver(m) \/ Overhear(m)
    \/ \E m \in Messages, s \in Attempts : Log(m, s)
    \/ \E m \in Messages, o \in Outcomes : Close(m, o)

Spec == Init /\ [][Next]_vars
===============================================================================
