------------------------------ MODULE Tier2Table ------------------------------
(***************************************************************************)
(* The rows of the SQLite table tier2_contacts, and the queries and        *)
(* updates Tier2Manager (src/receptionist/tier2.py) runs on it, as         *)
(* operators on a function from leads to rows.  The module has no state of *)
(* its own: Tier2Manager and the modules above it hold the table.          *)
(***************************************************************************)
EXTENDS Integers, FiniteSets

CONSTANTS
    Leads,          \* lead ids: one per (chat, sender address) pair
    AddressOf,      \* the normalized address behind a lead
    NoAddress,      \* the blank address of an address-less event
    Keys,           \* values contact_hash_key can have
    NoKey,          \* an unkeyed deployment: contact_hash_key = ""
    Categories,     \* family, client, vendor
    TestCohortMax,  \* tier2.test_cohort_max
    TestTTL         \* tier2.test_ttl_seconds, in clock ticks

ASSUME TableAssumption ==
    /\ IsFiniteSet(Leads)
    /\ "unclassified" \notin Categories
    /\ TestCohortMax \in Nat
    /\ TestTTL \in Nat \ {0}

\* The empty fingerprint, and the keyed fingerprint of a lead's address.
NoFp == <<>>
Fingerprints == {NoFp} \cup {<<k, AddressOf[l]>> : k \in Keys, l \in Leads}
Fingerprint(k, l) ==
    IF k = NoKey \/ AddressOf[l] = NoAddress THEN NoFp ELSE <<k, AddressOf[l]>>

Cohorts == {"test", "standing"}
Status == {"none", "active", "downgraded", "blocked", "expired"}

\* "none" is the status of a lead that has no row.
Row == [status   : Status,
        fp       : Fingerprints,
        category : Categories \cup {"unclassified"},
        cohort   : Cohorts,
        last     : Nat,        \* last_inbound_at
        notified : BOOLEAN,    \* expiry_notified
        disclosed: BOOLEAN]    \* disclosure_sent

NoRow == [status |-> "none", fp |-> NoFp, category |-> "unclassified",
          cohort |-> "standing", last |-> 0,
          notified |-> FALSE, disclosed |-> FALSE]

Table == [Leads -> Row]
Identities == [Leads -> Fingerprints]

\* record_lead_identity: an empty fingerprint leaves the stored one alone.
RecordIdentity(id, l, fp) == IF fp = NoFp THEN id ELSE [id EXCEPT ![l] = fp]

ActiveTest(t) == {l \in Leads : t[l].status = "active" /\ t[l].cohort = "test"}

\* Plausible bug: the grant lives through the tick that ends its window.
BugDueLate(t, n) == {l \in ActiveTest(t) : t[l].last + TestTTL < n}

\* expire_due: the test-cohort rows whose window has closed at time n.
Due(t, n) == {l \in ActiveTest(t) : t[l].last + TestTTL <= n}
Expire(t, S) ==
    [l \in Leads |-> IF l \in S THEN [t[l] EXCEPT !.status = "expired"] ELSE t[l]]
ExpireDue(t, n) == Expire(t, Due(t, n))

\* Plausible bug: the row changes and its conversation stays.
BugForgetNothing(ctx, S) == ctx

\* The contexts of the leads in S are deleted with the row update.
Forget(ctx, S) == [l \in Leads |-> IF l \in S THEN 0 ELSE ctx[l]]

Unnotified(t) == {l \in Leads : t[l].status = "expired" /\ ~t[l].notified}
\* Plausible bug: the notice goes out and the row does not say so.
BugMarkNotified(t, S) == t

MarkNotified(t, S) ==
    [l \in Leads |-> IF l \in S THEN [t[l] EXCEPT !.notified = TRUE] ELSE t[l]]

\* Plausible bug: the block is looked up by lead only.
BugBlockedByLeadOnly(t, l, fp) == t[l].status = "blocked"

\* is_blocked: by the lead's own row, or by any blocked row with the same
\* fingerprint, so that another chat of a blocked person is silenced too.
IsBlocked(t, l, fp) ==
    \/ t[l].status = "blocked"
    \/ fp # NoFp /\ \E m \in Leads : t[m].status = "blocked" /\ t[m].fp = fp

\* The lookup of resolve_status, after its expire_due.
Resolves(t, l, fp) == t[l].status = "active" /\ fp # NoFp /\ t[l].fp = fp

\* Plausible bugs: one test grant too many; a blocked lead promoted directly.
BugPromoteOverCap(t, id, k, l, h) ==
    /\ id[l] # NoFp
    /\ k # NoKey
    /\ t[l].status # "blocked"
    /\ h = "test" => Cardinality(ActiveTest(t) \ {l}) <= TestCohortMax
BugPromoteBlocked(t, id, k, l, h) ==
    /\ id[l] # NoFp
    /\ k # NoKey
    /\ h = "test" => Cardinality(ActiveTest(t) \ {l}) < TestCohortMax

\* handle_admin_command, "tier2" and "tier2-test".
MayPromote(t, id, k, l, h) ==
    /\ id[l] # NoFp
    /\ k # NoKey
    /\ t[l].status # "blocked"
    /\ h = "test" => Cardinality(ActiveTest(t) \ {l}) < TestCohortMax

\* Plausible bug: the command's cohort is compared with the wrong column.
BugSameGrant(t, l, c, h) ==
    t[l].status = "active" /\ t[l].category = c /\ t[l].category = h

\* A promotion to what the lead already has: nothing is written.
SameGrant(t, l, c, h) ==
    t[l].status = "active" /\ t[l].category = c /\ t[l].cohort = h

\* Plausible bug: only a lead without a row counts as new.
BugFirstActivation(t, l) == t[l].status = "none"
FirstActivation(t, l) == t[l].status # "active"

Activate(t, id, l, c, h, n) ==
    [t EXCEPT ![l] = [status |-> "active", fp |-> id[l], category |-> c,
                      cohort |-> h, last |-> n, notified |-> FALSE,
                      disclosed |-> t[l].disclosed]]

\* _deactivate: an existing row keeps its fingerprint, category and cohort.
Deactivate(t, id, l, s, n) ==
    [t EXCEPT ![l] =
        IF t[l].status = "none"
        THEN [NoRow EXCEPT !.status = s, !.fp = id[l], !.last = n]
        ELSE [t[l] EXCEPT !.status = s]]

MarkDisclosed(t, l) == [t EXCEPT ![l].disclosed = TRUE]
AcceptInbound(t, l, n) ==
    IF t[l].status = "active" THEN [t EXCEPT ![l].last = n] ELSE t
===============================================================================
