------------------------------- MODULE Mailbox -------------------------------
(***************************************************************************)
(* What the inbound handler promises about the messages of one contact,    *)
(* without jobs, tables, windows or a clock: a clerk takes each message in *)
(* hand at most once and no two at a time, may try to answer the one in    *)
(* hand, once, and puts it away by one try at telling the owner, who may   *)
(* not hear it, unless it is lost.                                         *)
(* The owner decides about the contact while the hand is empty, so that an *)
(* answer is always one the standing decision allows, whatever was decided *)
(* before it and after it.  InboundPipeline implements it.                 *)
(***************************************************************************)
EXTENDS Integers

CONSTANT Messages

VARIABLES
    grant,     \* the owner's standing decision about the contact
    arrived,   \* the messages that have come in
    hand,      \* the one being worked on; "none": the hand is empty
    tried,     \* how often an answer was attempted
    answered,  \* the lane in which an answer was accepted
    told,      \* how often the owner was told
    unheard,   \* what he was to be told and did not hear
    lost       \* what was in hand when it was dropped

vars == <<grant, arrived, hand, tried, answered, told, unheard, lost>>

Grants == {"none", "active", "downgraded", "blocked"}
Lanes == {"tier1", "tier2"}

\* The lanes a decision leaves open.
Open(g) ==
    CASE g = "blocked" -> {}
      [] g = "active" -> Lanes
      [] OTHER -> {"tier1"}

Init ==
    /\ grant = "none"
    /\ arrived = {}
    /\ hand = "none"
    /\ tried = [m \in Messages |-> 0]
    /\ answered = [m \in Messages |-> "none"]
    /\ told = [m \in Messages |-> 0]
    /\ unheard = {}
    /\ lost = {}

Decide ==
    /\ hand = "none"
    /\ grant' \in Grants
    /\ UNCHANGED <<arrived, hand, tried, answered, told, unheard, lost>>

\* A message is taken in hand when it comes in, or is only noted.
Take(m) ==
    /\ hand = "none"
    /\ m \notin arrived
    /\ arrived' = arrived \cup {m}
    /\ \/ grant # "blocked" /\ hand' = m
       \/ hand' = hand
    /\ UNCHANGED <<grant, tried, answered, told, unheard, lost>>

\* The attempt, which the transport accepts or does not.
Answer(m, lane) ==
    /\ hand = m
    /\ tried[m] = 0
    /\ lane \in Open(grant)
    /\ tried' = [tried EXCEPT ![m] = 1]
    /\ answered' \in {answered, [answered EXCEPT ![m] = lane]}
    /\ UNCHANGED <<grant, arrived, hand, told, unheard, lost>>

\* The owner hears of it, or the one try fails.
Tell(m) ==
    /\ hand = m
    /\ told[m] = 0
    /\ m \notin unheard
    /\ \/ told' = [told EXCEPT ![m] = 1] /\ UNCHANGED unheard
       \/ unheard' = unheard \cup {m} /\ UNCHANGED told
    /\ hand' = "none"
    /\ UNCHANGED <<grant, arrived, tried, answered, lost>>

\* What is lost is not taken in hand again: it has arrived.
Lose(m) ==
    /\ hand = m
    /\ hand' = "none"
    /\ lost' = lost \cup {m}
    /\ UNCHANGED <<grant, arrived, tried, answered, told, unheard>>

Next ==
    \/ Decide
    \/ \E m \in Messages : Take(m) \/ Tell(m) \/ Lose(m)
    \/ \E m \in Messages, lane \in Lanes : Answer(m, lane)

Spec == Init /\ [][Next]_vars

=============================================================================
