------------------------------ MODULE TrustLedger ------------------------------
(***************************************************************************)
(* What the Tier-2 machinery promises, without tables, fingerprints, lazy  *)
(* expiry or a sweeper: a ledger of how far each contact is trusted, in    *)
(* which a temporary grant ends at the very tick its window closes, and    *)
(* the messages that may leave because of it.  Tier2Manager implements it. *)
(***************************************************************************)
EXTENDS Integers, FiniteSets

CONSTANTS Leads, Categories, TestCohortMax, TestTTL

VARIABLES
    clock,
    trust,     \* what the owner has decided about each contact
    out        \* the <<lead, kind>> messages the last step sent to contacts

vars == <<clock, trust, out>>

Stranger == [level |-> "tier1"]
Barred == [level |-> "blocked"]
Grant(c, h, n) == [level |-> "tier2", category |-> c, cohort |-> h, renewed |-> n]

Trusted(l) == trust[l].level = "tier2"
Temporary(e) == e.level = "tier2" /\ e.cohort = "test"
Cohort == {l \in Leads : Temporary(trust[l])}

Init ==
    /\ clock = 0
    /\ trust = [l \in Leads |-> Stranger]
    /\ out = {}

\* Time passes: the grants whose window closes are gone at once.
Tick ==
    /\ clock' = clock + 1
    /\ trust' = [l \in Leads |->
                    IF Temporary(trust[l]) /\ trust[l].renewed + TestTTL <= clock'
                    THEN Stranger ELSE trust[l]]
    /\ out' = {}

\* The owner grants trust: never to a blocked contact, never beyond the cohort,
\* and with a disclosure to the contact when the trust is new.
Promote(l, c, h) ==
    /\ trust[l].level # "blocked"
    /\ h = "test" => Cardinality(Cohort \ {l}) < TestCohortMax
    /\ trust' = [trust EXCEPT ![l] = Grant(c, h, clock)]
    /\ out' \subseteq (IF Trusted(l) THEN {} ELSE {<<l, "disclosure">>})
    /\ UNCHANGED clock

\* The owner takes trust back, or lifts a block: both end at Tier 1.
Demote(l) ==
    /\ trust' = [trust EXCEPT ![l] = Stranger]
    /\ out' = {}
    /\ UNCHANGED clock

Block(l) ==
    /\ trust' = [trust EXCEPT ![l] = Barred]
    /\ out' = {}
    /\ UNCHANGED clock

\* A trusted contact writes: the grant's window starts again.
Serve(l) ==
    /\ Trusted(l)
    /\ trust' = [trust EXCEPT ![l].renewed = clock]
    /\ out' \subseteq {<<l, "tier2">>}
    /\ UNCHANGED clock

\* Anyone who is not blocked may get the canned answer; a blocked contact
\* gets none.  Trust does not change.
Answer(l) ==
    /\ out' \subseteq (IF trust[l].level = "blocked" THEN {} ELSE {<<l, "tier1">>})
    /\ UNCHANGED <<clock, trust>>

\* Anything else the system does leaves trust alone and sends nothing.
Rest ==
    /\ out' = {}
    /\ UNCHANGED <<clock, trust>>

Next ==
    \/ Tick
    \/ Rest
    \/ \E l \in Leads, c \in Categories, h \in {"test", "standing"} : Promote(l, c, h)
    \/ \E l \in Leads : Demote(l) \/ Block(l) \/ Serve(l) \/ Answer(l)

Spec == Init /\ [][Next]_vars
===============================================================================
