-------------------------- MODULE Tier2ManagerProofs --------------------------
(***************************************************************************)
(* Theorems about Tier2Manager, for every set of leads, every assignment   *)
(* of addresses, every cohort size and every TTL.                          *)
(***************************************************************************)
EXTENDS Tier2Manager, FiniteSetTheorems, TLAPS

----------------------------------------------------------------------------
(* The table operators *)

LEMMA FingerprintType ==
    ASSUME NEW k \in Keys, NEW l \in Leads
    PROVE  Fingerprint(k, l) \in Fingerprints
BY DEF Fingerprint, Fingerprints

LEMMA RecordType ==
    ASSUME NEW id \in Identities, NEW l \in Leads, NEW fp \in Fingerprints
    PROVE  RecordIdentity(id, l, fp) \in Identities
BY DEF RecordIdentity, Identities

LEMMA ExpireType ==
    ASSUME NEW t \in Table, NEW S
    PROVE  Expire(t, S) \in Table
BY DEF Expire, Table, Row, Status

LEMMA MarkType ==
    ASSUME NEW t \in Table, NEW S
    PROVE  MarkNotified(t, S) \in Table
BY DEF MarkNotified, Table, Row

LEMMA ForgetType ==
    ASSUME NEW ctx \in [Leads -> 0..ContextMaxTurns], NEW S
    PROVE  Forget(ctx, S) \in [Leads -> 0..ContextMaxTurns]
BY ManagerAssumption DEF Forget

LEMMA ActivateType ==
    ASSUME NEW t \in Table, NEW id \in Identities, NEW l \in Leads,
           NEW c \in Categories, NEW h \in Cohorts, NEW n \in Nat
    PROVE  Activate(t, id, l, c, h, n) \in Table
<1>1. [status |-> "active", fp |-> id[l], category |-> c, cohort |-> h, last |-> n,
       notified |-> FALSE, disclosed |-> t[l].disclosed] \in Row
  BY DEF Row, Table, Status, Identities
<1>2. QED BY <1>1 DEF Activate, Table

LEMMA DeactivateType ==
    ASSUME NEW t \in Table, NEW id \in Identities, NEW l \in Leads,
           NEW s \in Status, NEW n \in Nat
    PROVE  Deactivate(t, id, l, s, n) \in Table
<1>1. [NoRow EXCEPT !.status = s, !.fp = id[l], !.last = n] \in Row
  BY DEF NoRow, Row, Identities, Cohorts
<1>2. [t[l] EXCEPT !.status = s] \in Row
  BY DEF Table, Row
<1>3. QED BY <1>1, <1>2 DEF Deactivate, Table

LEMMA DiscloseType ==
    ASSUME NEW t \in Table, NEW l \in Leads
    PROVE  MarkDisclosed(t, l) \in Table
BY DEF MarkDisclosed, Table, Row

LEMMA AcceptType ==
    ASSUME NEW t \in Table, NEW l \in Leads, NEW n \in Nat
    PROVE  AcceptInbound(t, l, n) \in Table
BY DEF AcceptInbound, Table, Row

LEMMA AppendType ==
    ASSUME NEW n \in 0..ContextMaxTurns, NEW turns \in {0, 1, 2}
    PROVE  Append(n, turns) \in 0..ContextMaxTurns
BY ManagerAssumption DEF Append

----------------------------------------------------------------------------
(* Type correctness *)

\* The notices about S, however they come out, say nothing else of nobody else.
LEMMA NoticesAre ==
    ASSUME NEW S, NEW notices \in Notices(S)
    PROVE  \A e \in notices : \E l \in S :
               e = <<l, "expiry_notice">> \/ e = <<l, "notice_failed">>
BY DEF Notices

LEMMA NoticesType ==
    ASSUME NEW S \in SUBSET Leads, NEW notices \in Notices(S)
    PROVE  notices \subseteq Leads \X Kinds
BY NoticesAre DEF Kinds

LEMMA NoticesNotOut ==
    ASSUME NEW S, NEW notices \in Notices(S), NEW l
    PROVE  /\ <<l, "tier1">> \notin notices
           /\ <<l, "tier2">> \notin notices
           /\ <<l, "disclosure">> \notin notices
           /\ NoticeTried(l, notices) => l \in S
BY NoticesAre DEF NoticeTried

LEMMA SentType ==
    ASSUME NEW l \in Leads
    PROVE  /\ {<<l, "disclosure">>} \subseteq Leads \X Kinds
           /\ {<<l, "tier2">>} \subseteq Leads \X Kinds
           /\ {<<m, "tier1">> : m \in {l} \ GroupLeads} \subseteq Leads \X Kinds
BY DEF Kinds

LEMMA UnnotifiedType ==
    ASSUME NEW t
    PROVE  Unnotified(t) \in SUBSET Leads
BY DEF Unnotified

\* Where an inbound message finds the tables well typed, so does its handler
\* leave them, up to the message it sends.
LEMMA InboundType ==
    ASSUME TypeOK, NEW l \in Leads
    PROVE  /\ RecordIdentity(identity, l, SenderFp(l)) \in Identities
           /\ MarkNotified(Resolved(l), Unnotified(Resolved(l))) \in Table
           /\ AcceptInbound(MarkNotified(Resolved(l), Unnotified(Resolved(l))), l, now)
                  \in Table
           /\ Forget(context, DueAtInbound(l)) \in [Leads -> 0..ContextMaxTurns]
           /\ \A notices \in Notices(Unnotified(Resolved(l))) : notices \subseteq Leads \X Kinds
<1>1. SenderFp(l) \in Fingerprints
  BY FingerprintType DEF TypeOK, SenderFp
<1>2. Resolved(l) \in Table
  BY ExpireType DEF TypeOK, Resolved
<1>3. RecordIdentity(identity, l, SenderFp(l)) \in Identities
  BY <1>1, RecordType DEF TypeOK
<1>4. MarkNotified(Resolved(l), Unnotified(Resolved(l))) \in Table
  BY <1>2, MarkType
<1>5. AcceptInbound(MarkNotified(Resolved(l), Unnotified(Resolved(l))), l, now) \in Table
  BY <1>4, AcceptType DEF TypeOK
<1>6. Forget(context, DueAtInbound(l)) \in [Leads -> 0..ContextMaxTurns]
  BY ForgetType DEF TypeOK
<1>7. QED BY <1>3, <1>4, <1>5, <1>6, NoticesType, UnnotifiedType

\* A turn of a conversation leaves the context bounded.
LEMMA TurnType ==
    ASSUME TypeOK, NEW l \in Leads, NEW turns \in {0, 1, 2},
           NEW ctx \in [Leads -> 0..ContextMaxTurns]
    PROVE  [ctx EXCEPT ![l] = Append(@, turns)] \in [Leads -> 0..ContextMaxTurns]
<1>1. Append(ctx[l], turns) \in 0..ContextMaxTurns
  BY AppendType
<1>2. QED BY <1>1

LEMMA TypeStep == TypeOK /\ [Next]_vars => TypeOK'
<1> SUFFICES ASSUME TypeOK, [Next]_vars PROVE TypeOK'
  OBVIOUS
<1> DEFINE t == ExpireDue(contacts, now)
<1>t. t \in Table
  BY ExpireType DEF TypeOK, ExpireDue
<1>f. \A S : Forget(context, S) \in [Leads -> 0..ContextMaxTurns]
  BY ForgetType DEF TypeOK
<1> HIDE DEF t
<1>1. ASSUME NEW l \in Leads, Tapback(l) \/ InboundBlocked(l) PROVE TypeOK'
  BY <1>1, InboundType DEF TypeOK, Tapback, InboundBlocked
<1>2. ASSUME NEW l \in Leads, InboundTier1(l) PROVE TypeOK'
  <2>1. sent' \subseteq Leads \X Kinds
    BY <1>2, InboundType, SentType DEF InboundTier1
  <2>2. QED BY <1>2, <2>1, InboundType DEF TypeOK, InboundTier1
<1>3. ASSUME NEW l \in Leads, InboundTier2(l) PROVE TypeOK'
  <2>1. sent' \subseteq Leads \X Kinds
    BY <1>3, InboundType, SentType DEF InboundTier2
  <2>2. PICK turns \in {0, 2} :
           context' = [Forget(context, DueAtInbound(l)) EXCEPT ![l] = Append(@, turns)]
    BY <1>3 DEF InboundTier2
  <2>3. context' \in [Leads -> 0..ContextMaxTurns]
    BY <2>2, InboundType, TurnType
  <2>4. QED BY <1>3, <2>1, <2>3, InboundType DEF TypeOK, InboundTier2
<1>4. ASSUME NEW l \in Leads, NEW c \in Categories, NEW h \in Cohorts, Promote(l, c, h)
      PROVE  TypeOK'
  <2>1. Activate(t, identity, l, c, h, now) \in Table
    BY <1>t, ActivateType DEF TypeOK
  <2>2. MarkDisclosed(Activate(t, identity, l, c, h, now), l) \in Table
    BY <2>1, DiscloseType
  <2>3. contacts' \in Table
    BY <1>4, <2>1, <2>2 DEF Promote, t
  <2>4. QED BY <1>4, <1>f, <2>3, SentType DEF TypeOK, Promote
<1>5. ASSUME NEW l \in Leads, Downgrade(l) \/ Block(l) PROVE TypeOK'
  <2>1. \A s \in Status : Deactivate(t, identity, l, s, now) \in Table
    BY <1>t, DeactivateType DEF TypeOK
  <2>2. contacts' \in Table
    BY <1>5, <2>1 DEF Downgrade, Block, Status, t
  <2>3. QED BY <1>5, <1>f, <2>2 DEF TypeOK, Downgrade, Block
<1>6. ASSUME NEW l \in Leads, Unblock(l) PROVE TypeOK'
  <2>1. [t EXCEPT ![l].status = "downgraded"] \in Table
    BY <1>t DEF Table, Row, Status
  <2>2. QED BY <1>6, <1>f, <2>1 DEF TypeOK, Unblock, t
<1>7. ASSUME NoChangeCommand PROVE TypeOK'
  BY <1>7, <1>t, <1>f DEF TypeOK, NoChangeCommand, t
<1>8. ASSUME Sweep PROVE TypeOK'
  <2>1. MarkNotified(t, Unnotified(t)) \in Table
    BY <1>t, MarkType
  <2>2. sent' \subseteq Leads \X Kinds
    BY <1>8, NoticesType, UnnotifiedType DEF Sweep, t
  <2>3. QED BY <1>8, <1>f, <2>1, <2>2 DEF TypeOK, Sweep, t
<1>9. ASSUME Tick PROVE TypeOK'
  BY <1>9 DEF TypeOK, Tick
<1>10. ASSUME NEW k \in Keys, Restart(k) PROVE TypeOK'
  BY <1>10 DEF TypeOK, Restart
<1>11. ASSUME CrashInExpiry PROVE TypeOK'
  <2>1. PICK S \in SUBSET Due(contacts, now) :
          \E N \in SUBSET Unnotified(Expire(contacts, S)) :
             /\ contacts' = MarkNotified(Expire(contacts, S), N)
             /\ context' = Forget(context, S)
             /\ \E M \in SUBSET N : sent' \in Notices(M)
    BY <1>11 DEF CrashInExpiry
  <2>2. PICK N \in SUBSET Unnotified(Expire(contacts, S)) :
             /\ contacts' = MarkNotified(Expire(contacts, S), N)
             /\ context' = Forget(context, S)
             /\ \E M \in SUBSET N : sent' \in Notices(M)
    BY <2>1
  <2>3. N \in SUBSET Leads
    BY UnnotifiedType
  <2>4. sent' \subseteq Leads \X Kinds
    <3>1. PICK M \in SUBSET N : sent' \in Notices(M)
      BY <2>2
    <3>2. M \in SUBSET Leads
      BY <2>3
    <3>3. QED BY <3>1, <3>2, NoticesType
  <2>5. contacts' \in Table
    BY <2>2, ExpireType, MarkType DEF TypeOK
  <2>6. QED BY <1>11, <1>f, <2>2, <2>4, <2>5 DEF TypeOK, CrashInExpiry
<1>12. ASSUME NEW l \in Leads, NEW c \in Categories, NEW h \in Cohorts,
              CrashInPromote(l, c, h)
       PROVE  TypeOK'
  <2>1. Activate(t, identity, l, c, h, now) \in Table
    BY <1>t, ActivateType DEF TypeOK
  <2>2. sent' \subseteq Leads \X Kinds
    BY <1>12, SentType DEF CrashInPromote
  <2>3. QED BY <1>12, <1>f, <2>1, <2>2 DEF TypeOK, CrashInPromote, t
<1>13. ASSUME NEW l \in Leads, CrashInTier2(l) PROVE TypeOK'
  <2>1. PICK turns \in {0, 1} :
           context' = [Forget(context, DueAtInbound(l)) EXCEPT ![l] = Append(@, turns)]
    BY <1>13 DEF CrashInTier2
  <2>2. context' \in [Leads -> 0..ContextMaxTurns]
    BY <2>1, InboundType, TurnType
  <2>3. QED BY <1>13, <2>2, InboundType DEF TypeOK, CrashInTier2
<1>14. CASE UNCHANGED vars
  BY <1>14 DEF TypeOK, vars
<1>15. QED
  BY <1>1, <1>2, <1>3, <1>4, <1>5, <1>6, <1>7, <1>8, <1>9, <1>10, <1>11, <1>12,
     <1>13, <1>14
  DEF Next, Inbound, AdminCommand, Crash

LEMMA InitType == Init => TypeOK
<1>1. NoRow \in Row
  BY DEF NoRow, Row, Status, Fingerprints, Cohorts
<1>2. QED BY <1>1, ManagerAssumption DEF Init, TypeOK, Table, Identities, Fingerprints

\* The tables always hold well-formed rows and the context of a contact never
\* exceeds context_max_turns.
THEOREM TypeCorrect == Spec => []TypeOK
<1>1. Init => TypeOK
  BY InitType
<1>2. TypeOK /\ [Next]_vars => TypeOK'
  BY TypeStep
<1>3. QED BY <1>1, <1>2, PTL DEF Spec

----------------------------------------------------------------------------
(* The test cohort *)

\* No update but an activation puts a lead into the test cohort.
LEMMA ActiveTestExpire ==
    ASSUME NEW t \in Table, NEW S
    PROVE  ActiveTest(Expire(t, S)) \subseteq ActiveTest(t)
BY DEF ActiveTest, Expire, Table, Row

LEMMA ActiveTestMark ==
    ASSUME NEW t \in Table, NEW S
    PROVE  ActiveTest(MarkNotified(t, S)) \subseteq ActiveTest(t)
BY DEF ActiveTest, MarkNotified, Table, Row

LEMMA ActiveTestAccept ==
    ASSUME NEW t \in Table, NEW l \in Leads, NEW n \in Nat
    PROVE  ActiveTest(AcceptInbound(t, l, n)) \subseteq ActiveTest(t)
BY DEF ActiveTest, AcceptInbound, Table, Row

LEMMA ActiveTestDisclose ==
    ASSUME NEW t \in Table, NEW l \in Leads
    PROVE  ActiveTest(MarkDisclosed(t, l)) \subseteq ActiveTest(t)
BY DEF ActiveTest, MarkDisclosed, Table, Row

LEMMA ActiveTestDeactivate ==
    ASSUME NEW t \in Table, NEW l \in Leads, NEW n \in Nat,
           NEW id \in Identities, NEW s \in Status \ {"active"}
    PROVE  ActiveTest(Deactivate(t, id, l, s, n)) \subseteq ActiveTest(t)
BY DEF ActiveTest, Deactivate, Table, Row, NoRow

LEMMA ActiveTestFinite ==
    ASSUME NEW t
    PROVE  IsFiniteSet(ActiveTest(t))
BY TableAssumption, FS_Subset DEF ActiveTest

\* A smaller cohort is within the cap when a larger one was.
LEMMA CapShrinks ==
    ASSUME NEW t, NEW u, ActiveTest(u) \subseteq ActiveTest(t),
           Cardinality(ActiveTest(t)) <= TestCohortMax
    PROVE  Cardinality(ActiveTest(u)) <= TestCohortMax
<1>1. /\ Cardinality(ActiveTest(u)) <= Cardinality(ActiveTest(t))
      /\ Cardinality(ActiveTest(u)) \in Nat
      /\ Cardinality(ActiveTest(t)) \in Nat
  BY ActiveTestFinite, FS_Subset, FS_CardinalityType
<1>2. QED BY <1>1, TableAssumption

\* The count of the others that MayPromote makes is enough: activating the lead
\* keeps the cohort within the cap, whether the lead was in it or not.
LEMMA CapActivate ==
    ASSUME NEW t \in Table, NEW id \in Identities, NEW l \in Leads, NEW k,
           NEW c \in Categories, NEW h \in Cohorts, NEW n \in Nat,
           MayPromote(t, id, k, l, h),
           Cardinality(ActiveTest(t)) <= TestCohortMax
    PROVE  Cardinality(ActiveTest(Activate(t, id, l, c, h, n))) <= TestCohortMax
<1> DEFINE u == Activate(t, id, l, c, h, n)
           others == ActiveTest(t) \ {l}
<1>1. ActiveTest(u) \subseteq others \cup {l}
  BY DEF ActiveTest, Activate, Table
<1>2. CASE h = "test"
  <2>1. IsFiniteSet(others)
    BY ActiveTestFinite, FS_Subset
  <2>2. Cardinality(others) < TestCohortMax
    BY <1>2 DEF MayPromote
  <2>3. /\ IsFiniteSet(others \cup {l})
        /\ Cardinality(others \cup {l}) = Cardinality(others) + 1
    BY <2>1, FS_AddElement
  <2>4. /\ Cardinality(ActiveTest(u)) <= Cardinality(others \cup {l})
        /\ Cardinality(ActiveTest(u)) \in Nat
        /\ Cardinality(others) \in Nat
    BY <1>1, <2>1, <2>3, ActiveTestFinite, FS_Subset, FS_CardinalityType
  <2>5. QED BY <2>2, <2>3, <2>4, TableAssumption
<1>3. CASE h = "standing"
  <2>1. ActiveTest(u) \subseteq ActiveTest(t)
    BY <1>3 DEF ActiveTest, Activate, Table
  <2>2. QED BY <2>1, CapShrinks
<1>4. QED BY <1>2, <1>3 DEF Cohorts

LEMMA CapStep == TypeOK /\ CohortCap /\ [Next]_vars => CohortCap'
<1> SUFFICES ASSUME TypeOK, CohortCap, [Next]_vars PROVE CohortCap'
  OBVIOUS
<1> DEFINE t == ExpireDue(contacts, now)
<1>t. t \in Table
  BY ExpireType DEF TypeOK, ExpireDue
<1>e. \A S : /\ Expire(contacts, S) \in Table
             /\ ActiveTest(Expire(contacts, S)) \subseteq ActiveTest(contacts)
  BY ExpireType, ActiveTestExpire DEF TypeOK
<1>m. \A S, T : /\ MarkNotified(Expire(contacts, S), T) \in Table
                /\ ActiveTest(MarkNotified(Expire(contacts, S), T))
                       \subseteq ActiveTest(contacts)
  BY <1>e, MarkType, ActiveTestMark
<1>c. Cardinality(ActiveTest(t)) <= TestCohortMax
  BY <1>e, CapShrinks DEF CohortCap, ExpireDue
<1>s. ASSUME ActiveTest(contacts') \subseteq ActiveTest(contacts) PROVE CohortCap'
  BY <1>s, CapShrinks DEF CohortCap
<1> HIDE DEF t
<1>1. ASSUME NEW l \in Leads, Inbound(l) \/ CrashInTier2(l) PROVE CohortCap'
  <2>1. CASE contacts' = contacts
    BY <2>1, <1>s
  <2>2. CASE contacts' = MarkNotified(Resolved(l), Unnotified(Resolved(l)))
    BY <2>2, <1>m, <1>s DEF Resolved
  <2>3. CASE contacts' = AcceptInbound(
                 MarkNotified(Resolved(l), Unnotified(Resolved(l))), l, now)
    <3>1. ActiveTest(contacts')
             \subseteq ActiveTest(MarkNotified(Resolved(l), Unnotified(Resolved(l))))
      BY <2>3, <1>m, ActiveTestAccept DEF Resolved, TypeOK
    <3>2. QED BY <3>1, <1>m, <1>s DEF Resolved
  <2>4. QED BY <1>1, <2>1, <2>2, <2>3
            DEF Inbound, Tapback, InboundBlocked, InboundTier1, InboundTier2, CrashInTier2
<1>2. ASSUME NEW l \in Leads, NEW c \in Categories, NEW h \in Cohorts,
             Promote(l, c, h) \/ CrashInPromote(l, c, h)
      PROVE  CohortCap'
  <2> DEFINE u == Activate(t, identity, l, c, h, now)
  <2>1. MayPromote(t, identity, key, l, h)
    BY <1>2 DEF Promote, CrashInPromote, t
  <2>2. Cardinality(ActiveTest(u)) <= TestCohortMax
    BY <2>1, <1>t, <1>c, CapActivate DEF TypeOK
  <2>3. u \in Table
    BY <1>t, ActivateType DEF TypeOK
  <2>4. ActiveTest(contacts') \subseteq ActiveTest(u)
    <3>1. contacts' = u \/ contacts' = MarkDisclosed(u, l)
      BY <1>2 DEF Promote, CrashInPromote, t
    <3>2. QED BY <3>1, <2>3, ActiveTestDisclose
  <2>5. QED BY <2>2, <2>4, CapShrinks DEF CohortCap
<1>3. ASSUME NEW l \in Leads, Downgrade(l) \/ Block(l) PROVE CohortCap'
  <2>1. ActiveTest(contacts') \subseteq ActiveTest(t)
    BY <1>3, <1>t, ActiveTestDeactivate DEF Downgrade, Block, TypeOK, Status, t
  <2>2. QED BY <2>1, <1>c, CapShrinks DEF CohortCap
<1>4. ASSUME NEW l \in Leads, Unblock(l) PROVE CohortCap'
  <2>1. ActiveTest(contacts') \subseteq ActiveTest(t)
    BY <1>4, <1>t DEF Unblock, ActiveTest, Table, Row, t
  <2>2. QED BY <2>1, <1>c, CapShrinks DEF CohortCap
<1>5. ASSUME NoChangeCommand PROVE CohortCap'
  BY <1>5, <1>e, <1>s DEF NoChangeCommand, ExpireDue
<1>6. ASSUME Sweep PROVE CohortCap'
  BY <1>6, <1>m, <1>s DEF Sweep, ExpireDue
<1>7. ASSUME Tick \/ \E k \in Keys : Restart(k) PROVE CohortCap'
  BY <1>7, <1>s DEF Tick, Restart
<1>8. ASSUME CrashInExpiry PROVE CohortCap'
  BY <1>8, <1>m, <1>s DEF CrashInExpiry
<1>9. CASE UNCHANGED vars
  BY <1>9, <1>s DEF vars
<1>10. QED BY <1>1, <1>2, <1>3, <1>4, <1>5, <1>6, <1>7, <1>8, <1>9
           DEF Next, AdminCommand, Crash

\* However commands, expiries, crashes and restarts interleave, no more than
\* test_cohort_max contacts hold a temporary grant.
THEOREM CohortWithinCap == Spec => []CohortCap
<1>1. Init => CohortCap
  <2>1. Init => ActiveTest(contacts) = {}
    BY DEF Init, ActiveTest, NoRow
  <2>2. QED BY <2>1, FS_EmptySet, TableAssumption DEF CohortCap
<1>2. TypeOK /\ CohortCap /\ [Next]_vars => CohortCap'
  BY CapStep
<1>3. QED BY <1>1, <1>2, TypeCorrect, PTL DEF Spec

----------------------------------------------------------------------------
(* Conversation context *)

\* A step that forgets the contexts of S, and leaves active whoever was active
\* outside S, leaves no context behind without a grant.
LEMMA ContextRule ==
    ASSUME TypeOK, NoContextWithoutGrant, NEW S,
           context' = Forget(context, S),
           \A l \in Leads : l \notin S /\ contacts[l].status = "active"
                              => contacts'[l].status = "active"
    PROVE  NoContextWithoutGrant'
BY DEF NoContextWithoutGrant, Forget, TypeOK

LEMMA ExpireKeeps ==
    ASSUME NEW t \in Table, NEW S, NEW l \in Leads, l \notin S
    PROVE  Expire(t, S)[l] = t[l]
BY DEF Expire

LEMMA MarkKeeps ==
    ASSUME NEW t \in Table, NEW S, NEW l \in Leads
    PROVE  /\ MarkNotified(t, S)[l].status = t[l].status
           /\ MarkNotified(t, S)[l].fp = t[l].fp
           /\ MarkNotified(t, S)[l].category = t[l].category
           /\ MarkNotified(t, S)[l].cohort = t[l].cohort
           /\ MarkNotified(t, S)[l].last = t[l].last
BY DEF MarkNotified, Table, Row

LEMMA AcceptKeeps ==
    ASSUME NEW t \in Table, NEW l \in Leads, NEW m \in Leads, NEW n \in Nat
    PROVE  /\ AcceptInbound(t, m, n)[l].status = t[l].status
           /\ l # m => AcceptInbound(t, m, n)[l] = t[l]
BY DEF AcceptInbound, Table, Row

LEMMA NoContextStep ==
    TypeOK /\ NoContextWithoutGrant /\ [Next]_vars => NoContextWithoutGrant'
<1> SUFFICES ASSUME TypeOK, NoContextWithoutGrant, [Next]_vars
             PROVE  NoContextWithoutGrant'
  OBVIOUS
<1> DEFINE D == Due(contacts, now)
           t == ExpireDue(contacts, now)
<1>t. t \in Table
  BY ExpireType DEF TypeOK, ExpireDue
<1>k. \A l \in Leads : l \notin D => t[l] = contacts[l]
  BY ExpireKeeps DEF TypeOK, ExpireDue
<1>m. \A S, N : \A l \in Leads :
         l \notin S => MarkNotified(Expire(contacts, S), N)[l].status = contacts[l].status
  BY ExpireKeeps, ExpireType, MarkKeeps DEF TypeOK
<1> HIDE DEF D, t
<1>1. ASSUME NEW l \in Leads, Tapback(l) \/ InboundBlocked(l)
      PROVE  NoContextWithoutGrant'
  BY <1>1 DEF NoContextWithoutGrant, Tapback, InboundBlocked
<1>2. ASSUME NEW l \in Leads, InboundTier1(l) PROVE NoContextWithoutGrant'
  <2>1. \A m \in Leads : m \notin DueAtInbound(l) =>
           contacts'[m].status = contacts[m].status
    BY <1>2, <1>m DEF InboundTier1, Resolved
  <2>2. context' = Forget(context, DueAtInbound(l))
    BY <1>2 DEF InboundTier1
  <2>3. QED BY <2>1, <2>2, ContextRule
<1>3. ASSUME NEW l \in Leads, InboundTier2(l) \/ CrashInTier2(l)
      PROVE  NoContextWithoutGrant'
  <2> DEFINE u == MarkNotified(Resolved(l), Unnotified(Resolved(l)))
  <2>1. u \in Table
    BY ExpireType, MarkType DEF TypeOK, Resolved
  <2>2. contacts' = AcceptInbound(u, l, now)
    BY <1>3 DEF InboundTier2, CrashInTier2
  <2>3. \A m \in Leads : contacts'[m].status = u[m].status
    BY <2>1, <2>2, AcceptKeeps DEF TypeOK
  <2>4. \A m \in Leads : m \notin DueAtInbound(l) => u[m].status = contacts[m].status
    BY <1>m DEF Resolved
  <2>5. contacts'[l].status = "active"
    <3>1. Resolved(l)[l].status = "active"
      BY <1>3 DEF InboundTier2, CrashInTier2, Resolves
    <3>2. Resolved(l) \in Table
      BY ExpireType DEF TypeOK, Resolved
    <3>3. QED BY <2>3, <3>1, <3>2, MarkKeeps
  <2>6. \A m \in Leads : m # l => context'[m] = Forget(context, DueAtInbound(l))[m]
    <3>1. Forget(context, DueAtInbound(l)) \in [Leads -> 0..ContextMaxTurns]
      BY ForgetType DEF TypeOK
    <3>2. QED BY <1>3, <3>1 DEF InboundTier2, CrashInTier2
  <2>7. \A m \in Leads : m # l /\ context'[m] > 0 =>
           m \notin DueAtInbound(l) /\ context[m] > 0
    BY <2>6 DEF Forget
  <2>8. QED BY <2>3, <2>4, <2>5, <2>7 DEF NoContextWithoutGrant
<1>4. ASSUME NEW l \in Leads, NEW c \in Categories, NEW h \in Cohorts,
             Promote(l, c, h) \/ CrashInPromote(l, c, h)
      PROVE  NoContextWithoutGrant'
  <2> DEFINE u == Activate(t, identity, l, c, h, now)
  <2>1. contacts' = u \/ contacts' = MarkDisclosed(u, l)
    BY <1>4 DEF Promote, CrashInPromote, t
  <2>2. \A m \in Leads : contacts'[m].status = IF m = l THEN "active" ELSE t[m].status
    BY <1>t, <2>1 DEF Activate, MarkDisclosed, Table
  <2>3. context' = Forget(context, D)
    BY <1>4 DEF Promote, CrashInPromote, D
  <2>4. QED BY <1>k, <2>2, <2>3, ContextRule
<1>5. ASSUME NEW l \in Leads, Downgrade(l) \/ Block(l) PROVE NoContextWithoutGrant'
  <2>1. \A m \in Leads : m # l => contacts'[m] = t[m]
    BY <1>5, <1>t DEF Downgrade, Block, Deactivate, Table, t
  <2>2. context' = Forget(context, D \cup {l})
    BY <1>5 DEF Downgrade, Block, D
  <2>3. QED BY <1>k, <2>1, <2>2, ContextRule
<1>6. ASSUME NEW l \in Leads, Unblock(l) PROVE NoContextWithoutGrant'
  <2>1. \A m \in Leads : m # l => contacts'[m] = t[m]
    BY <1>6, <1>t DEF Unblock, Table, t
  <2>2. t[l].status = "blocked"
    BY <1>6 DEF Unblock, t
  <2>3. context' = Forget(context, D)
    BY <1>6 DEF Unblock, D
  <2>4. QED BY <1>k, <2>1, <2>2, <2>3, ContextRule
<1>7. ASSUME NoChangeCommand PROVE NoContextWithoutGrant'
  BY <1>7, <1>k, ContextRule DEF NoChangeCommand, D, t
<1>8. ASSUME Sweep PROVE NoContextWithoutGrant'
  BY <1>8, <1>m, ContextRule DEF Sweep, ExpireDue
<1>9. ASSUME CrashInExpiry PROVE NoContextWithoutGrant'
  <2>1. PICK S \in SUBSET Due(contacts, now) :
          \E N \in SUBSET Unnotified(Expire(contacts, S)) :
             /\ contacts' = MarkNotified(Expire(contacts, S), N)
             /\ context' = Forget(context, S)
    BY <1>9 DEF CrashInExpiry
  <2>2. \A m \in Leads : m \notin S => contacts'[m].status = contacts[m].status
    BY <2>1, <1>m
  <2>3. QED BY <2>1, <2>2, ContextRule
<1>10. ASSUME Tick \/ (\E k \in Keys : Restart(k)) \/ UNCHANGED vars
       PROVE  NoContextWithoutGrant'
  BY <1>10 DEF NoContextWithoutGrant, Tick, Restart, vars
<1>11. QED BY <1>1, <1>2, <1>3, <1>4, <1>5, <1>6, <1>7, <1>8, <1>9, <1>10
           DEF Next, Inbound, AdminCommand, Crash

\* A contact's conversation never survives the grant it was held under.
THEOREM ContextNeedsGrant == Spec => []NoContextWithoutGrant
<1>1. Init => NoContextWithoutGrant
  BY DEF Init, NoContextWithoutGrant
<1>2. TypeOK /\ NoContextWithoutGrant /\ [Next]_vars => NoContextWithoutGrant'
  BY NoContextStep
<1>3. QED BY <1>1, <1>2, TypeCorrect, PTL DEF Spec

----------------------------------------------------------------------------
(* Blocks *)

LEMMA BlockedStep ==
    ASSUME TypeOK, [Next]_vars, NEW b \in Leads, contacts[b].status = "blocked"
    PROVE  contacts'[b].status = "blocked" \/ Unblock(b)
<1> DEFINE t == ExpireDue(contacts, now)
           KeptBlocked == contacts'[b].status = "blocked"
<1>t. t \in Table
  BY ExpireType DEF TypeOK, ExpireDue
<1>b. t[b].status = "blocked"
  BY DEF ExpireDue, Expire, Due, ActiveTest
<1>m. \A S \in SUBSET Due(contacts, now) : \A N :
         MarkNotified(Expire(contacts, S), N)[b].status = "blocked"
  <2> SUFFICES ASSUME NEW S \in SUBSET Due(contacts, now), NEW N
               PROVE  MarkNotified(Expire(contacts, S), N)[b].status = "blocked"
    OBVIOUS
  <2>1. Expire(contacts, S)[b].status = "blocked"
    BY DEF Expire, Due, ActiveTest
  <2>2. QED BY <2>1, ExpireType, MarkKeeps DEF TypeOK
<1>r. \A l \in Leads : DueAtInbound(l) \in SUBSET Due(contacts, now)
  BY DEF DueAtInbound
<1> HIDE DEF t
<1>1. ASSUME NEW l \in Leads, Inbound(l) \/ CrashInTier2(l) PROVE KeptBlocked
  <2> DEFINE u == MarkNotified(Resolved(l), Unnotified(Resolved(l)))
  <2>1. u \in Table /\ u[b].status = "blocked"
    BY <1>m, <1>r, ExpireType, MarkType DEF Resolved, TypeOK
  <2>2. AcceptInbound(u, l, now)[b].status = "blocked"
    BY <2>1, AcceptKeeps DEF TypeOK
  <2>3. contacts' \in {contacts, u, AcceptInbound(u, l, now)}
    BY <1>1 DEF Inbound, Tapback, InboundBlocked, InboundTier1, InboundTier2, CrashInTier2
  <2>4. QED BY <2>1, <2>2, <2>3
<1>2. ASSUME NEW l \in Leads, NEW c \in Categories, NEW h \in Cohorts,
             Promote(l, c, h) \/ CrashInPromote(l, c, h)
      PROVE  KeptBlocked
  <2>1. l # b
    BY <1>2, <1>b DEF Promote, CrashInPromote, MayPromote, t
  <2>2. contacts'[b] = t[b]
    BY <1>2, <2>1, <1>t DEF Promote, CrashInPromote, Activate, MarkDisclosed, Table, t
  <2>3. QED BY <2>2, <1>b
<1>3. ASSUME NEW l \in Leads, Downgrade(l) PROVE KeptBlocked
  <2>1. l # b
    BY <1>3, <1>b DEF Downgrade, t
  <2>2. QED BY <1>3, <2>1, <1>b, <1>t DEF Downgrade, Deactivate, Table, t
<1>4. ASSUME NEW l \in Leads, Block(l) PROVE KeptBlocked
  BY <1>4, <1>b, <1>t DEF Block, Deactivate, Table, Row, t
<1>5. ASSUME NEW l \in Leads, Unblock(l) PROVE KeptBlocked \/ Unblock(b)
  <2>1. CASE l = b
    BY <2>1, <1>5
  <2>2. CASE l # b
    BY <2>2, <1>5, <1>b, <1>t DEF Unblock, Table, t
  <2>3. QED BY <2>1, <2>2
<1>6. ASSUME NoChangeCommand PROVE KeptBlocked
  BY <1>6, <1>b DEF NoChangeCommand, t
<1>7. ASSUME Sweep PROVE KeptBlocked
  BY <1>7, <1>m DEF Sweep, ExpireDue
<1>8. ASSUME CrashInExpiry PROVE KeptBlocked
  BY <1>8, <1>m DEF CrashInExpiry
<1>9. ASSUME Tick \/ (\E k \in Keys : Restart(k)) \/ UNCHANGED vars PROVE KeptBlocked
  BY <1>9 DEF Tick, Restart, vars
<1>10. QED BY <1>1, <1>2, <1>3, <1>4, <1>5, <1>6, <1>7, <1>8, <1>9
           DEF Next, AdminCommand, Crash

\* Nothing but the owner's unblock takes a contact out of a block.
THEOREM BlockHolds == Spec => BlockedUntilUnblocked
<1>1. TypeOK /\ [Next]_vars =>
        [\A l \in Leads : contacts[l].status = "blocked" =>
            contacts'[l].status = "blocked" \/ Unblock(l)]_vars
  BY BlockedStep
<1>2. QED BY <1>1, TypeCorrect, PTL DEF Spec, BlockedUntilUnblocked

----------------------------------------------------------------------------
(* Who is served *)

\* Only an accepted Tier-2 message sends a Tier-2 reply.
LEMMA ServingStep ==
    ASSUME [Next]_vars, NEW l \in Leads, <<l, "tier2">> \in sent'
    PROVE  InboundTier2(l) \/ UNCHANGED vars
<1>n. \A S : \A notices \in Notices(S) : <<l, "tier2">> \notin notices
  BY NoticesNotOut
<1>1. ASSUME NEW m \in Leads, Inbound(m) PROVE InboundTier2(l)
  <2>1. CASE Tapback(m) \/ InboundBlocked(m)
    BY <2>1 DEF Tapback, InboundBlocked
  <2>2. CASE InboundTier1(m)
    BY <2>2, <1>n DEF InboundTier1
  <2>3. CASE InboundTier2(m)
    <3>1. m = l
      BY <2>3, <1>n DEF InboundTier2
    <3>2. QED BY <2>3, <3>1
  <2>4. QED BY <1>1, <2>1, <2>2, <2>3 DEF Inbound
<1>2. ASSUME AdminCommand PROVE FALSE
  <2>1. \A m \in Leads, c \in Categories, h \in Cohorts : ~Promote(m, c, h)
    BY DEF Promote
  <2>2. \A m \in Leads : ~Downgrade(m) /\ ~Block(m) /\ ~Unblock(m)
    BY DEF Downgrade, Block, Unblock
  <2>3. ~NoChangeCommand
    BY DEF NoChangeCommand
  <2>4. QED BY <1>2, <2>1, <2>2, <2>3 DEF AdminCommand
<1>3. ~Sweep /\ ~Tick /\ ~(\E k \in Keys : Restart(k))
  BY <1>n DEF Sweep, Tick, Restart
<1>4. ASSUME Crash PROVE FALSE
  <2>1. ~CrashInExpiry
    BY <1>n DEF CrashInExpiry
  <2>2. \A m \in Leads, c \in Categories, h \in Cohorts : ~CrashInPromote(m, c, h)
    BY DEF CrashInPromote
  <2>3. \A m \in Leads : ~CrashInTier2(m)
    BY <1>n DEF CrashInTier2
  <2>4. QED BY <1>4, <2>1, <2>2, <2>3 DEF Crash
<1>5. QED BY <1>1, <1>2, <1>3, <1>4 DEF Next

\* What resolve_status has found out about the contact it accepts.
LEMMA AcceptedIsOpen ==
    ASSUME TypeOK, NEW l \in Leads, Resolves(Resolved(l), l, SenderFp(l))
    PROVE  /\ contacts[l].status = "active"
           /\ l \notin Due(contacts, now)
           /\ contacts[l].fp = Fingerprint(key, l)
           /\ AddressOf[l] # NoAddress
<1>1. SenderFp(l) # NoFp /\ Resolved(l)[l].status = "active" /\ Resolved(l)[l].fp = SenderFp(l)
  BY DEF Resolves
<1>2. DueAtInbound(l) = Due(contacts, now)
  BY <1>1 DEF DueAtInbound
<1>3. l \notin Due(contacts, now) /\ Resolved(l)[l] = contacts[l]
  <2>1. CASE l \in Due(contacts, now)
    <3>1. Resolved(l)[l] = [contacts[l] EXCEPT !.status = "expired"]
      BY <2>1, <1>2 DEF Resolved, Expire
    <3>2. Resolved(l)[l].status = "expired"
      BY <3>1 DEF TypeOK, Table, Row
    <3>3. QED BY <3>2, <1>1
  <2>2. CASE l \notin Due(contacts, now)
    BY <2>2, <1>2 DEF Resolved, Expire
  <2>3. QED BY <2>1, <2>2
<1>4. AddressOf[l] # NoAddress
  BY <1>1 DEF SenderFp, Fingerprint
<1>5. QED BY <1>1, <1>3, <1>4 DEF SenderFp

\* A Tier-2 reply needs an open grant bound to the sender's present fingerprint,
\* whatever keys come and go and whatever has not been swept yet.
THEOREM ServesOpenGrants == Spec => ServedUnderOpenGrant
<1>1. TypeOK /\ [Next]_vars =>
        [\A l \in Leads : <<l, "tier2">> \in sent' =>
            /\ contacts[l].status = "active"
            /\ l \notin Due(contacts, now)
            /\ contacts[l].fp = Fingerprint(key, l)
            /\ AddressOf[l] # NoAddress]_vars
  <2> SUFFICES ASSUME TypeOK, [Next]_vars, vars' # vars,
                      NEW l \in Leads, <<l, "tier2">> \in sent'
               PROVE  /\ contacts[l].status = "active"
                      /\ l \notin Due(contacts, now)
                      /\ contacts[l].fp = Fingerprint(key, l)
                      /\ AddressOf[l] # NoAddress
    OBVIOUS
  <2>1. InboundTier2(l)
    BY ServingStep
  <2>2. QED BY <2>1, AcceptedIsOpen DEF InboundTier2
<1>2. QED BY <1>1, TypeCorrect, PTL DEF Spec, ServedUnderOpenGrant

----------------------------------------------------------------------------
(* The window of a temporary grant *)

\* A step that moves the window of an open grant is a message of the contact or a
\* promotion to another category.
LEMMA WindowStep ==
    ASSUME TypeOK, [Next]_vars, NEW b \in ActiveTest(contacts) \ Due(contacts, now),
           contacts'[b].status = "active", contacts'[b].cohort = "test",
           contacts'[b].last # contacts[b].last
    PROVE  \/ contacts'[b].category # contacts[b].category
           \/ InboundTier2(b)
           \/ CrashInTier2(b)
<1> DEFINE t == ExpireDue(contacts, now)
<1>l. b \in Leads /\ contacts[b].status = "active" /\ contacts[b].cohort = "test"
  BY DEF ActiveTest
<1>t. t \in Table
  BY ExpireType DEF TypeOK, ExpireDue
<1>b. t[b] = contacts[b]
  BY <1>l DEF ExpireDue, Expire
<1>m. \A S \in SUBSET Due(contacts, now) : \A N :
         MarkNotified(Expire(contacts, S), N)[b].last = contacts[b].last
  <2> SUFFICES ASSUME NEW S \in SUBSET Due(contacts, now), NEW N
               PROVE  MarkNotified(Expire(contacts, S), N)[b].last = contacts[b].last
    OBVIOUS
  <2>1. Expire(contacts, S)[b] = contacts[b]
    BY <1>l DEF Expire
  <2>2. QED BY <2>1, <1>l DEF MarkNotified, TypeOK, Table, Row
<1>r. \A l \in Leads : DueAtInbound(l) \in SUBSET Due(contacts, now)
  BY DEF DueAtInbound
<1> HIDE DEF t
<1>1. ASSUME NEW l \in Leads, Inbound(l) \/ CrashInTier2(l)
      PROVE  InboundTier2(b) \/ CrashInTier2(b)
  <2> DEFINE u == MarkNotified(Resolved(l), Unnotified(Resolved(l)))
  <2>1. u \in Table /\ u[b].last = contacts[b].last
    BY <1>m, <1>r, ExpireType, MarkType DEF Resolved, TypeOK
  <2> HIDE DEF u
  <2>2. CASE contacts' \in {contacts, u}
    BY <2>1, <2>2
  <2>3. CASE contacts' = AcceptInbound(u, l, now) /\ (InboundTier2(l) \/ CrashInTier2(l))
    <3>1. CASE l = b
      BY <2>3, <3>1
    <3>2. CASE l # b
      BY <2>1, <2>3, <3>2, <1>l DEF AcceptInbound, Table
    <3>3. QED BY <3>1, <3>2
  <2>4. QED BY <1>1, <2>2, <2>3
            DEF Inbound, Tapback, InboundBlocked, InboundTier1, InboundTier2, CrashInTier2, u
<1>2. ASSUME NEW l \in Leads, NEW c \in Categories, NEW h \in Cohorts,
             Promote(l, c, h) \/ CrashInPromote(l, c, h)
      PROVE  contacts'[b].category # contacts[b].category
  <2>1. CASE l = b
    <3>1. ~SameGrant(t, b, c, h) /\ contacts'[b].category = c /\ contacts'[b].cohort = h
      BY <1>2, <2>1, <1>t, <1>l
         DEF Promote, CrashInPromote, Activate, MarkDisclosed, Table, Row, t
    <3>2. QED BY <3>1, <1>b, <1>l DEF SameGrant
  <2>2. CASE l # b
    <3>1. contacts'[b] = t[b]
      BY <1>2, <2>2, <1>t, <1>l
         DEF Promote, CrashInPromote, Activate, MarkDisclosed, Table, t
    <3>2. QED BY <3>1, <1>b
  <2>3. QED BY <2>1, <2>2
<1>3. ASSUME NEW l \in Leads, Downgrade(l) \/ Block(l) \/ Unblock(l) PROVE FALSE
  <2>1. CASE l = b
    <3>1. contacts'[b].status # "active"
      BY <1>3, <2>1, <1>b, <1>l, <1>t
         DEF Downgrade, Block, Unblock, Deactivate, Table, Row, t
    <3>2. QED BY <3>1
  <2>2. CASE l # b
    <3>1. contacts'[b] = t[b]
      BY <1>3, <2>2, <1>l, <1>t DEF Downgrade, Block, Unblock, Deactivate, Table, t
    <3>2. QED BY <3>1, <1>b
  <2>3. QED BY <2>1, <2>2
<1>4. ~NoChangeCommand
  BY <1>b DEF NoChangeCommand, t
<1>5. ~Sweep /\ ~CrashInExpiry
  BY <1>m DEF Sweep, CrashInExpiry, ExpireDue
<1>6. ~Tick /\ ~(\E k \in Keys : Restart(k)) /\ ~(UNCHANGED vars)
  BY DEF Tick, Restart, vars
<1>7. QED BY <1>1, <1>2, <1>3, <1>4, <1>5, <1>6 DEF Next, AdminCommand, Crash

\* Repeating a promotion, messages of others, sweeps and crashes leave the window
\* of a temporary grant where the contact's last message put it.
THEOREM WindowsMoveByContact == Spec => WindowMovedByContact
<1>1. TypeOK /\ [Next]_vars =>
        [\A l \in ActiveTest(contacts) \ Due(contacts, now) :
            /\ contacts'[l].status = "active" /\ contacts'[l].cohort = "test"
            /\ contacts'[l].last # contacts[l].last
            => \/ contacts'[l].category # contacts[l].category
               \/ InboundTier2(l)
               \/ CrashInTier2(l)]_vars
  BY WindowStep
<1>2. QED BY <1>1, TypeCorrect, PTL DEF Spec, WindowMovedByContact

----------------------------------------------------------------------------
(* Blocks cover the person *)

\* Every row was written with the fingerprint of a known identity.
RowsBound == \A l \in Leads : contacts[l].status # "none" => contacts[l].fp # NoFp

\* Expiry, its notices and renewals leave who a row belongs to, and whether there
\* is one.
OwnerKept(t, b) ==
    /\ t[b].fp = contacts[b].fp
    /\ t[b].status = "none" <=> contacts[b].status = "none"

LEMMA SameOwner ==
    ASSUME TypeOK, NEW S \in SUBSET Due(contacts, now), NEW N, NEW l \in Leads,
           NEW b \in Leads
    PROVE  /\ OwnerKept(Expire(contacts, S), b)
           /\ OwnerKept(MarkNotified(Expire(contacts, S), N), b)
           /\ OwnerKept(AcceptInbound(MarkNotified(Expire(contacts, S), N), l, now), b)
<1> DEFINE t == Expire(contacts, S)
           u == MarkNotified(t, N)
           v == AcceptInbound(u, l, now)
<1>1. t \in Table /\ OwnerKept(t, b)
  BY ExpireType DEF TypeOK, Expire, Due, ActiveTest, Table, Row, OwnerKept
<1> HIDE DEF t
<1>2. u \in Table /\ u[b].fp = t[b].fp /\ u[b].status = t[b].status
  BY <1>1, MarkType DEF MarkNotified, Table, Row
<1> HIDE DEF u
<1>3. v[b].fp = u[b].fp /\ v[b].status = u[b].status
  BY <1>2 DEF AcceptInbound, Table, Row
<1>4. QED BY <1>1, <1>2, <1>3 DEF OwnerKept, t, u

\* Promotions and blocks write the fingerprint of an identity, never the empty one.
LEMMA RowsBoundStep == TypeOK /\ RowsBound /\ [Next]_vars => RowsBound'
<1> SUFFICES ASSUME TypeOK, RowsBound, [Next]_vars, NEW b \in Leads,
                    contacts'[b].status # "none"
             PROVE  contacts'[b].fp # NoFp
  BY DEF RowsBound
<1> DEFINE t == ExpireDue(contacts, now)
           Bound == contacts'[b].fp # NoFp
<1>t. t \in Table
  BY ExpireType DEF TypeOK, ExpireDue
<1>b. t[b].status # "none" => t[b].fp # NoFp
  <2>1. OwnerKept(Expire(contacts, Due(contacts, now)), b)
    BY SameOwner
  <2>2. QED BY <2>1 DEF ExpireDue, OwnerKept, RowsBound
<1>r. \A l \in Leads : DueAtInbound(l) \in SUBSET Due(contacts, now)
  BY DEF DueAtInbound
<1> HIDE DEF t
<1>1. ASSUME NEW l \in Leads, Inbound(l) \/ CrashInTier2(l) PROVE Bound
  <2> DEFINE u == MarkNotified(Resolved(l), Unnotified(Resolved(l)))
  <2>1. contacts' \in {contacts, u, AcceptInbound(u, l, now)}
    BY <1>1 DEF Inbound, Tapback, InboundBlocked, InboundTier1, InboundTier2, CrashInTier2
  <2>2. OwnerKept(u, b) /\ OwnerKept(AcceptInbound(u, l, now), b)
    BY <1>r, SameOwner DEF Resolved
  <2> HIDE DEF u
  <2>3. QED BY <2>1, <2>2 DEF OwnerKept, RowsBound
<1>2. ASSUME NEW l \in Leads, NEW c \in Categories, NEW h \in Cohorts,
             Promote(l, c, h) \/ CrashInPromote(l, c, h)
      PROVE  Bound
  <2>1. CASE l = b
    <3>1. identity[b] # NoFp
      BY <1>2, <2>1 DEF Promote, CrashInPromote, MayPromote
    <3>2. contacts'[b].fp = identity[b]
      BY <1>2, <2>1, <1>t
         DEF Promote, CrashInPromote, Activate, MarkDisclosed, Table, Row, t
    <3>3. QED BY <3>1, <3>2
  <2>2. CASE l # b
    BY <1>2, <2>2, <1>b, <1>t
       DEF Promote, CrashInPromote, Activate, MarkDisclosed, Table, t
  <2>3. QED BY <2>1, <2>2
<1>3. ASSUME NEW l \in Leads, Downgrade(l) \/ Block(l) PROVE Bound
  <2>1. CASE l = b
    <3>1. t[b].status # "none" \/ identity[b] # NoFp
      BY <1>3, <2>1 DEF Downgrade, Block, t
    <3>2. \E st \in Status : contacts' = Deactivate(t, identity, b, st, now)
      BY <1>3, <2>1 DEF Downgrade, Block, Status, t
    <3>3. CASE t[b].status = "none"
      BY <3>1, <3>2, <3>3, <1>t DEF Deactivate, NoRow, Table
    <3>4. CASE t[b].status # "none"
      BY <3>2, <3>4, <1>b, <1>t DEF Deactivate, Table, Row
    <3>5. QED BY <3>3, <3>4
  <2>2. CASE l # b
    BY <1>3, <2>2, <1>b, <1>t DEF Downgrade, Block, Deactivate, Table, t
  <2>3. QED BY <2>1, <2>2
<1>4. ASSUME NEW l \in Leads, Unblock(l) PROVE Bound
  BY <1>4, <1>b, <1>t DEF Unblock, Table, Row, t
<1>5. ASSUME NoChangeCommand PROVE Bound
  BY <1>5, <1>b DEF NoChangeCommand, t
<1>6. ASSUME Sweep \/ CrashInExpiry PROVE Bound
  <2>1. PICK S \in SUBSET Due(contacts, now), N \in SUBSET Leads :
           contacts' = MarkNotified(Expire(contacts, S), N)
    BY <1>6, UnnotifiedType DEF Sweep, CrashInExpiry, ExpireDue
  <2>2. OwnerKept(MarkNotified(Expire(contacts, S), N), b)
    BY SameOwner
  <2>3. QED BY <2>1, <2>2 DEF OwnerKept, RowsBound
<1>7. ASSUME Tick \/ (\E k \in Keys : Restart(k)) \/ UNCHANGED vars PROVE Bound
  BY <1>7 DEF Tick, Restart, vars, RowsBound
<1>8. QED BY <1>1, <1>2, <1>3, <1>4, <1>5, <1>6, <1>7 DEF Next, AdminCommand, Crash

\* Only a Tier-1 message is answered with the canned answer.
LEMMA AnsweringStep ==
    ASSUME [Next]_vars, NEW l \in Leads, <<l, "tier1">> \in sent'
    PROVE  InboundTier1(l) \/ UNCHANGED vars
<1>n. \A S : \A notices \in Notices(S) : <<l, "tier1">> \notin notices
  BY NoticesNotOut
<1>1. ASSUME NEW m \in Leads, Inbound(m) PROVE InboundTier1(l)
  <2>1. ~Tapback(m) /\ ~InboundBlocked(m)
    BY DEF Tapback, InboundBlocked
  <2>2. ~InboundTier2(m)
    BY <1>n DEF InboundTier2
  <2>3. InboundTier1(m)
    BY <1>1, <2>1, <2>2 DEF Inbound
  <2>4. m = l
    BY <2>3, <1>n DEF InboundTier1
  <2>5. QED BY <2>3, <2>4
<1>2. ASSUME AdminCommand PROVE FALSE
  <2>1. \A m \in Leads, c \in Categories, h \in Cohorts : ~Promote(m, c, h)
    BY DEF Promote
  <2>2. \A m \in Leads : ~Downgrade(m) /\ ~Block(m) /\ ~Unblock(m)
    BY DEF Downgrade, Block, Unblock
  <2>3. ~NoChangeCommand
    BY DEF NoChangeCommand
  <2>4. QED BY <1>2, <2>1, <2>2, <2>3 DEF AdminCommand
<1>3. ~Sweep /\ ~Tick /\ ~(\E k \in Keys : Restart(k))
  BY <1>n DEF Sweep, Tick, Restart
<1>4. ASSUME Crash PROVE FALSE
  <2>1. ~CrashInExpiry
    BY <1>n DEF CrashInExpiry
  <2>2. \A m \in Leads, c \in Categories, h \in Cohorts : ~CrashInPromote(m, c, h)
    BY DEF CrashInPromote
  <2>3. \A m \in Leads : ~CrashInTier2(m)
    BY <1>n DEF CrashInTier2
  <2>4. QED BY <1>4, <2>1, <2>2, <2>3 DEF Crash
<1>5. QED BY <1>1, <1>2, <1>3, <1>4 DEF Next

\* A block recorded under the present key silences every chat of the person.
THEOREM BlocksCoverPersons == Spec => BlockCoversPerson
<1>1. TypeOK /\ RowsBound /\ [Next]_vars =>
        [\A l, m \in Leads :
            /\ contacts[m].status = "blocked"
            /\ contacts[m].fp = Fingerprint(key, m)
            /\ AddressOf[l] = AddressOf[m]
            => <<l, "tier1">> \notin sent' /\ <<l, "tier2">> \notin sent']_vars
  <2> SUFFICES ASSUME TypeOK, RowsBound, [Next]_vars, vars' # vars,
                      NEW l \in Leads, NEW m \in Leads,
                      contacts[m].status = "blocked",
                      contacts[m].fp = Fingerprint(key, m),
                      AddressOf[l] = AddressOf[m],
                      <<l, "tier1">> \in sent' \/ <<l, "tier2">> \in sent'
               PROVE  FALSE
    OBVIOUS
  <2>1. contacts[m].fp # NoFp
    BY DEF RowsBound
  <2>2. SenderFp(l) = contacts[m].fp
    BY DEF SenderFp, Fingerprint
  <2>3. IsBlocked(contacts, l, SenderFp(l))
    BY <2>1, <2>2 DEF IsBlocked
  <2>4. InboundTier1(l) \/ InboundTier2(l)
    BY ServingStep, AnsweringStep
  <2>5. QED BY <2>3, <2>4 DEF InboundTier1, InboundTier2
<1>2. Init => RowsBound
  BY DEF Init, NoRow, RowsBound
<1>3. QED BY <1>1, <1>2, RowsBoundStep, TypeCorrect, PTL DEF Spec, BlockCoversPerson

----------------------------------------------------------------------------
(* Trust is bound to the person *)

\* The fingerprints of the address behind a chat, one for each key.
OwnFingerprints(l) == {<<k, AddressOf[l]>> : k \in Keys \ {NoKey}}

FpsAreOwn ==
    \A l \in Leads :
        /\ identity[l] \in OwnFingerprints(l) \cup {NoFp}
        /\ contacts[l].fp \in OwnFingerprints(l) \cup {NoFp}

\* A row keeps its fingerprint or takes the one its lead was last seen with.
LEMMA FpStep ==
    ASSUME TypeOK, [Next]_vars, NEW b \in Leads
    PROVE  contacts'[b].fp \in {contacts[b].fp, identity[b]}
<1> DEFINE t == ExpireDue(contacts, now)
           Kept == contacts'[b].fp \in {contacts[b].fp, identity[b]}
<1>t. t \in Table
  BY ExpireType DEF TypeOK, ExpireDue
<1>b. t[b].fp = contacts[b].fp
  <2>1. OwnerKept(Expire(contacts, Due(contacts, now)), b)
    BY SameOwner
  <2>2. QED BY <2>1 DEF ExpireDue, OwnerKept
<1>r. \A l \in Leads : DueAtInbound(l) \in SUBSET Due(contacts, now)
  BY DEF DueAtInbound
<1> HIDE DEF t
<1>1. ASSUME NEW l \in Leads, Inbound(l) \/ CrashInTier2(l) PROVE Kept
  <2> DEFINE u == MarkNotified(Resolved(l), Unnotified(Resolved(l)))
  <2>1. contacts' \in {contacts, u, AcceptInbound(u, l, now)}
    BY <1>1 DEF Inbound, Tapback, InboundBlocked, InboundTier1, InboundTier2, CrashInTier2
  <2>2. OwnerKept(u, b) /\ OwnerKept(AcceptInbound(u, l, now), b)
    BY <1>r, SameOwner DEF Resolved
  <2> HIDE DEF u
  <2>3. QED BY <2>1, <2>2 DEF OwnerKept
<1>2. ASSUME NEW l \in Leads, NEW c \in Categories, NEW h \in Cohorts,
             Promote(l, c, h) \/ CrashInPromote(l, c, h)
      PROVE  Kept
  <2>1. CASE l = b
    BY <1>2, <2>1, <1>t
       DEF Promote, CrashInPromote, Activate, MarkDisclosed, Table, Row, t
  <2>2. CASE l # b
    BY <1>2, <2>2, <1>b, <1>t
       DEF Promote, CrashInPromote, Activate, MarkDisclosed, Table, t
  <2>3. QED BY <2>1, <2>2
<1>3. ASSUME NEW l \in Leads, Downgrade(l) \/ Block(l) PROVE Kept
  <2>1. CASE l = b
    <3>1. \E st \in Status : contacts' = Deactivate(t, identity, b, st, now)
      BY <1>3, <2>1 DEF Downgrade, Block, Status, t
    <3>2. CASE t[b].status = "none"
      BY <3>1, <3>2, <1>t DEF Deactivate, NoRow, Table
    <3>3. CASE t[b].status # "none"
      BY <3>1, <3>3, <1>b, <1>t DEF Deactivate, Table, Row
    <3>4. QED BY <3>2, <3>3
  <2>2. CASE l # b
    BY <1>3, <2>2, <1>b, <1>t DEF Downgrade, Block, Deactivate, Table, t
  <2>3. QED BY <2>1, <2>2
<1>4. ASSUME NEW l \in Leads, Unblock(l) PROVE Kept
  BY <1>4, <1>b, <1>t DEF Unblock, Table, Row, t
<1>5. ASSUME NoChangeCommand PROVE Kept
  BY <1>5, <1>b DEF NoChangeCommand, t
<1>6. ASSUME Sweep \/ CrashInExpiry PROVE Kept
  <2>1. PICK S \in SUBSET Due(contacts, now), N \in SUBSET Leads :
           contacts' = MarkNotified(Expire(contacts, S), N)
    BY <1>6, UnnotifiedType DEF Sweep, CrashInExpiry, ExpireDue
  <2>2. OwnerKept(MarkNotified(Expire(contacts, S), N), b)
    BY SameOwner
  <2>3. QED BY <2>1, <2>2 DEF OwnerKept
<1>7. ASSUME Tick \/ (\E k \in Keys : Restart(k)) \/ UNCHANGED vars PROVE Kept
  BY <1>7 DEF Tick, Restart, vars
<1>8. QED BY <1>1, <1>2, <1>3, <1>4, <1>5, <1>6, <1>7 DEF Next, AdminCommand, Crash

\* A lead keeps its identity or takes the sender's present fingerprint.
LEMMA IdentityStep ==
    ASSUME TypeOK, [Next]_vars, NEW b \in Leads
    PROVE  identity'[b] \in {identity[b]} \cup ({SenderFp(b)} \ {NoFp})
<1>1. ASSUME NEW l \in Leads, Inbound(l) \/ CrashInTier2(l)
      PROVE  identity'[b] \in {identity[b]} \cup ({SenderFp(b)} \ {NoFp})
  <2>1. identity' = RecordIdentity(identity, l, SenderFp(l))
    BY <1>1 DEF Inbound, Tapback, InboundBlocked, InboundTier1, InboundTier2, CrashInTier2
  <2>2. QED BY <2>1 DEF RecordIdentity, TypeOK, Identities
<1>2. ASSUME UNCHANGED identity
      PROVE  identity'[b] \in {identity[b]} \cup ({SenderFp(b)} \ {NoFp})
  BY <1>2
<1>3. AdminCommand \/ Sweep \/ Tick \/ CrashInExpiry => UNCHANGED identity
  BY DEF AdminCommand, Promote, Downgrade, Block, Unblock, NoChangeCommand, Sweep, Tick,
     CrashInExpiry
<1>4. (\E k \in Keys : Restart(k)) \/ UNCHANGED vars => UNCHANGED identity
  BY DEF Restart, vars
<1>5. \A l \in Leads, c \in Categories, h \in Cohorts :
          CrashInPromote(l, c, h) => UNCHANGED identity
  BY DEF CrashInPromote
<1>6. QED BY <1>1, <1>2, <1>3, <1>4, <1>5 DEF Next, Crash

LEMMA FpsAreOwnInvariance == Spec => [](TypeOK /\ RowsBound /\ FpsAreOwn)
<1>1. Init => RowsBound /\ FpsAreOwn
  BY DEF Init, NoRow, RowsBound, FpsAreOwn
<1>2. TypeOK /\ FpsAreOwn /\ [Next]_vars => FpsAreOwn'
  <2> SUFFICES ASSUME TypeOK, FpsAreOwn, [Next]_vars, NEW l \in Leads
               PROVE  /\ identity'[l] \in OwnFingerprints(l) \cup {NoFp}
                      /\ contacts'[l].fp \in OwnFingerprints(l) \cup {NoFp}
    BY DEF FpsAreOwn
  <2>1. SenderFp(l) \in OwnFingerprints(l) \cup {NoFp}
    BY DEF SenderFp, Fingerprint, OwnFingerprints, TypeOK
  <2>2. QED BY <2>1, FpStep, IdentityStep DEF FpsAreOwn
<1>3. QED BY <1>1, <1>2, RowsBoundStep, TypeCorrect, PTL DEF Spec

\* Whatever is rotated, blocked, promoted and cut short: no row is ever bound to
\* nobody, or to an address that is not that of its own chat, under any key.
THEOREM RowsBelongToTheirLead ==
    Spec => [](\A l \in Leads :
                  contacts[l].status # "none" => contacts[l].fp \in OwnFingerprints(l))
<1>1. RowsBound /\ FpsAreOwn =>
          \A l \in Leads :
              contacts[l].status # "none" => contacts[l].fp \in OwnFingerprints(l)
  BY DEF RowsBound, FpsAreOwn
<1>2. QED BY <1>1, FpsAreOwnInvariance, PTL

\* It takes a second key for a promotion that is repeated to leave a dead
\* fingerprint behind: as long as the one key there is may at most be lost and
\* restored, what the operator's guide says of such promotions is true.
THEOREM RebindsWithoutRotation ==
    ASSUME NEW k \in Keys, Keys \subseteq {k, NoKey}
    PROVE  Spec => RepromotionRebinds
<1>1. TypeOK /\ RowsBound /\ FpsAreOwn /\ [Next]_vars =>
        [\A l \in Leads, c \in Categories, h \in Cohorts :
            PromoteAgain(l, c, h) => contacts'[l].fp = identity[l]]_vars
  <2> SUFFICES ASSUME TypeOK, RowsBound, FpsAreOwn,
                      NEW l \in Leads, NEW c \in Categories, NEW h \in Cohorts,
                      PromoteAgain(l, c, h)
               PROVE  contacts'[l].fp = identity[l]
    OBVIOUS
  <2> DEFINE t == ExpireDue(contacts, now)
  <2>1. contacts' = t /\ t[l].status = "active" /\ identity[l] # NoFp
    BY DEF PromoteAgain, NoChangeCommand, SameGrant, MayPromote
  <2>2. t[l].fp = contacts[l].fp /\ (t[l].status = "none" <=> contacts[l].status = "none")
    BY SameOwner DEF OwnerKept, ExpireDue
  <2> HIDE DEF t
  <2>3. contacts[l].fp # NoFp
    BY <2>1, <2>2 DEF RowsBound
  <2>4. contacts[l].fp \in OwnFingerprints(l) /\ identity[l] \in OwnFingerprints(l)
    BY <2>1, <2>3 DEF FpsAreOwn
  <2>5. QED BY <2>1, <2>2, <2>4 DEF OwnFingerprints
<1>2. QED BY <1>1, FpsAreOwnInvariance, PTL DEF Spec, RepromotionRebinds

----------------------------------------------------------------------------
(* The table implements the ledger *)

\* Neither an expiry nor its notice changes what a row is worth: expiry only
\* records what the clock has already decided.
LEMMA TrustOfExpired ==
    ASSUME TypeOK, NEW S \in SUBSET Due(contacts, now), NEW N, NEW l \in Leads
    PROVE  /\ TrustOf(Expire(contacts, S)[l], now) = EffectiveTrust[l]
           /\ TrustOf(MarkNotified(Expire(contacts, S), N)[l], now) = EffectiveTrust[l]
<1>1. TrustOf(Expire(contacts, S)[l], now) = TrustOf(contacts[l], now)
  <2>1. CASE l \in S
    BY <2>1 DEF Expire, Due, ActiveTest, TrustOf, TypeOK, Table, Row
  <2>2. CASE l \notin S
    BY <2>2, ExpireKeeps DEF TypeOK
  <2>3. QED BY <2>1, <2>2
<1>2. Expire(contacts, S) \in Table
  BY ExpireType DEF TypeOK
<1>3. TrustOf(MarkNotified(Expire(contacts, S), N)[l], now)
        = TrustOf(Expire(contacts, S)[l], now)
  BY <1>2, MarkKeeps DEF TrustOf
<1>4. QED BY <1>1, <1>3 DEF EffectiveTrust

\* After expire_due an active row is worth what it says.
LEMMA ActiveIsTrusted ==
    ASSUME TypeOK, NEW l \in Leads, ExpireDue(contacts, now)[l].status = "active"
    PROVE  EffectiveTrust[l] =
             [level |-> "tier2", category |-> ExpireDue(contacts, now)[l].category,
              cohort |-> ExpireDue(contacts, now)[l].cohort,
              renewed |-> ExpireDue(contacts, now)[l].last]
<1>1. l \notin Due(contacts, now) /\ ExpireDue(contacts, now)[l] = contacts[l]
  BY DEF ExpireDue, Expire, TypeOK, Table, Row
<1>2. QED BY <1>1 DEF EffectiveTrust, TrustOf, Due, ActiveTest

\* The ledger's cohort is the table's once the due rows are expired.
LEMMA CohortIsActiveTest ==
    ASSUME TypeOK
    PROVE  Ledger!Cohort = ActiveTest(ExpireDue(contacts, now))
<1> SUFFICES ASSUME NEW l \in Leads
             PROVE  l \in Ledger!Cohort <=> l \in ActiveTest(ExpireDue(contacts, now))
  BY DEF Ledger!Cohort, ActiveTest
<1>1. CASE l \in Due(contacts, now)
  <2>1. ExpireDue(contacts, now)[l].status = "expired"
    BY <1>1 DEF ExpireDue, Expire, TypeOK, Table, Row
  <2>2. EffectiveTrust[l] = [level |-> "tier1"]
    BY <1>1 DEF EffectiveTrust, TrustOf, Due, ActiveTest
  <2>3. QED BY <2>1, <2>2 DEF Ledger!Cohort, Ledger!Temporary, ActiveTest
<1>2. CASE l \notin Due(contacts, now)
  <2>1. ExpireDue(contacts, now)[l] = contacts[l]
    BY <1>2, ExpireKeeps DEF ExpireDue, TypeOK
  <2>2. EffectiveTrust[l] = TrustOf(contacts[l], now)
    BY DEF EffectiveTrust
  <2>3. CASE l \in ActiveTest(contacts)
    BY <1>2, <2>1, <2>2, <2>3 DEF Ledger!Cohort, Ledger!Temporary, ActiveTest, Due, TrustOf
  <2>4. CASE l \notin ActiveTest(contacts)
    <3>1. ~Ledger!Temporary(EffectiveTrust[l])
      BY <2>2, <2>4 DEF Ledger!Temporary, ActiveTest, TrustOf
    <3>2. QED BY <2>1, <2>4, <3>1 DEF Ledger!Cohort, ActiveTest
  <2>5. QED BY <2>3, <2>4
<1>3. QED BY <1>1, <1>2

\* Two states in which every row is worth the same hold the same trust.
LEMMA SameTrust ==
    ASSUME \A l \in Leads : TrustOf(contacts'[l], now') = EffectiveTrust[l]
    PROVE  EffectiveTrust' = EffectiveTrust
BY DEF EffectiveTrust

LEMMA NoticesNotOutbound ==
    ASSUME NEW S, NEW A, NEW notices \in Notices(S), sent' = A \cup notices
    PROVE  Outbound' \subseteq A
BY NoticesAre DEF Outbound

\* Steps that only expire and announce are rests of the ledger.
LEMMA RestRule ==
    ASSUME TypeOK, NEW S \in SUBSET Due(contacts, now), NEW N, NEW M,
           contacts' = MarkNotified(Expire(contacts, S), N) \/ contacts' = Expire(contacts, S),
           now' = now, sent' \in Notices(M) \/ sent' = {}
    PROVE  Ledger!Rest
<1>1. EffectiveTrust' = EffectiveTrust
  BY TrustOfExpired, SameTrust
<1>2. Outbound' = {}
  BY NoticesAre DEF Outbound
<1>3. QED BY <1>1, <1>2 DEF Ledger!Rest

\* The update of one row maps to the update of one ledger entry, when the rest of
\* the table is as expire_due leaves it.
LEMMA OneRow ==
    ASSUME TypeOK, NEW l \in Leads, NEW e, now' = now,
           \A m \in Leads : m # l => contacts'[m] = ExpireDue(contacts, now)[m],
           TrustOf(contacts'[l], now) = e
    PROVE  EffectiveTrust' = [EffectiveTrust EXCEPT ![l] = e]
<1>1. \A m \in Leads : m # l => TrustOf(contacts'[m], now) = EffectiveTrust[m]
  BY TrustOfExpired DEF ExpireDue
<1>2. QED BY <1>1 DEF EffectiveTrust

LEMMA TickRefines == ASSUME TypeOK, Tick PROVE Ledger!Tick
<1>1. \A l \in Leads :
        EffectiveTrust'[l] =
          IF Ledger!Temporary(EffectiveTrust[l]) /\ EffectiveTrust[l].renewed + TestTTL <= now'
          THEN Ledger!Stranger ELSE EffectiveTrust[l]
  <2> SUFFICES ASSUME NEW l \in Leads
               PROVE  TrustOf(contacts[l], now + 1) =
                        IF /\ Ledger!Temporary(EffectiveTrust[l])
                           /\ EffectiveTrust[l].renewed + TestTTL <= now + 1
                        THEN Ledger!Stranger ELSE EffectiveTrust[l]
    BY DEF Tick, EffectiveTrust
  <2> DEFINE r == contacts[l]
  <2>1. EffectiveTrust[l] = TrustOf(r, now)
    BY DEF EffectiveTrust
  <2>2. r.last \in Nat /\ now \in Nat /\ TestTTL \in Nat
    BY TableAssumption DEF TypeOK, Table, Row
  <2>3. CASE r.status # "active"
    <3>1. ~Ledger!Temporary(EffectiveTrust[l])
      BY <2>1, <2>3 DEF Ledger!Temporary, TrustOf
    <3>2. QED BY <2>1, <2>3, <3>1 DEF TrustOf
  <2>4. CASE r.status = "active" /\ r.cohort # "test"
    <3>1. ~Ledger!Temporary(EffectiveTrust[l])
      BY <2>1, <2>4 DEF Ledger!Temporary, TrustOf
    <3>2. QED BY <2>1, <2>4, <3>1 DEF TrustOf
  <2>5. CASE r.status = "active" /\ r.cohort = "test" /\ r.last + TestTTL <= now
    <3>1. r.last + TestTTL <= now + 1
      BY <2>2, <2>5
    <3>2. TrustOf(r, now + 1) = [level |-> "tier1"]
      BY <2>5, <3>1 DEF TrustOf
    <3>3. TrustOf(r, now) = [level |-> "tier1"]
      BY <2>5 DEF TrustOf
    <3>4. QED BY <2>1, <3>2, <3>3 DEF Ledger!Temporary, Ledger!Stranger
  <2>6. CASE r.status = "active" /\ r.cohort = "test" /\ ~(r.last + TestTTL <= now)
    <3>1. EffectiveTrust[l] = [level |-> "tier2", category |-> r.category,
                               cohort |-> r.cohort, renewed |-> r.last]
      BY <2>1, <2>6 DEF TrustOf
    <3>2. Ledger!Temporary(EffectiveTrust[l]) /\ EffectiveTrust[l].renewed = r.last
      BY <2>6, <3>1 DEF Ledger!Temporary
    <3>3. CASE r.last + TestTTL <= now + 1
      BY <2>6, <3>2, <3>3 DEF TrustOf, Ledger!Stranger
    <3>4. CASE ~(r.last + TestTTL <= now + 1)
      BY <2>6, <3>1, <3>2, <3>4 DEF TrustOf
    <3>5. QED BY <3>3, <3>4
  <2>7. QED BY <2>3, <2>4, <2>5, <2>6
<1>2. Outbound' = {}
  BY DEF Tick, Outbound
<1>3. EffectiveTrust' = [l \in Leads |-> EffectiveTrust'[l]]
  BY DEF EffectiveTrust
<1>4. QED BY <1>1, <1>2, <1>3 DEF Ledger!Tick, Tick

LEMMA PromoteRefines ==
    ASSUME TypeOK, NEW l \in Leads, NEW c \in Categories, NEW h \in Cohorts,
           Promote(l, c, h) \/ CrashInPromote(l, c, h)
    PROVE  Ledger!Promote(l, c, h)
<1> DEFINE t == ExpireDue(contacts, now)
           u == Activate(t, identity, l, c, h, now)
<1>t. t \in Table
  BY ExpireType DEF TypeOK, ExpireDue
<1>1. contacts' = u \/ contacts' = MarkDisclosed(u, l)
  BY DEF Promote, CrashInPromote
<1>2. \A m \in Leads : m # l => contacts'[m] = t[m]
  BY <1>1, <1>t DEF Activate, MarkDisclosed, Table
<1>3. /\ contacts'[l].status = "active" /\ contacts'[l].category = c
      /\ contacts'[l].cohort = h /\ contacts'[l].last = now
  BY <1>1, <1>t DEF Activate, MarkDisclosed, Table
<1>4. TrustOf(contacts'[l], now) = Ledger!Grant(c, h, now)
  BY <1>3, TableAssumption DEF TrustOf, Ledger!Grant, TypeOK
<1>5. now' = now
  BY DEF Promote, CrashInPromote
<1>6. EffectiveTrust' = [EffectiveTrust EXCEPT ![l] = Ledger!Grant(c, h, now)]
  BY <1>2, <1>4, <1>5, OneRow
<1>7. MayPromote(t, identity, key, l, h)
  BY DEF Promote, CrashInPromote
<1>8. EffectiveTrust[l].level # "blocked"
  <2>1. t[l].status # "blocked"
    BY <1>7 DEF MayPromote
  <2>2. contacts[l].status # "blocked"
    BY <2>1, ExpireKeeps DEF ExpireDue, TypeOK, Due, ActiveTest
  <2>3. QED BY <2>2 DEF EffectiveTrust, TrustOf
<1>9. h = "test" => Cardinality(Ledger!Cohort \ {l}) < TestCohortMax
  BY <1>7, CohortIsActiveTest DEF MayPromote
<1>10. Outbound' \subseteq (IF Ledger!Trusted(l) THEN {} ELSE {<<l, "disclosure">>})
  <2>1. CASE t[l].status = "active"
    <3>1. sent' = {}
      BY <2>1 DEF Promote, CrashInPromote, FirstActivation
    <3>2. QED BY <3>1 DEF Outbound
  <2>2. CASE t[l].status # "active"
    <3>1. TrustOf(t[l], now).level # "tier2"
      BY <2>2 DEF TrustOf
    <3>2. TrustOf(t[l], now) = EffectiveTrust[l]
      BY TrustOfExpired DEF ExpireDue
    <3>3. ~Ledger!Trusted(l)
      BY <3>1, <3>2 DEF Ledger!Trusted
    <3>4. sent' \subseteq {<<l, "disclosure">>}
      BY DEF Promote, CrashInPromote
    <3>5. QED BY <3>3, <3>4 DEF Outbound
  <2>3. QED BY <2>1, <2>2
<1>11. QED BY <1>5, <1>6, <1>8, <1>9, <1>10 DEF Ledger!Promote, Ledger!Cardinality, Cardinality

LEMMA ServeRefines ==
    ASSUME TypeOK, NEW l \in Leads, InboundTier2(l) \/ CrashInTier2(l)
    PROVE  Ledger!Serve(l)
<1> DEFINE t == ExpireDue(contacts, now)
           u == MarkNotified(t, Unnotified(t))
<1>1. Resolves(Resolved(l), l, SenderFp(l))
  BY DEF InboundTier2, CrashInTier2
<1>2. Resolved(l) = t
  BY <1>1 DEF Resolves, Resolved, DueAtInbound, ExpireDue
<1>3. t \in Table /\ u \in Table
  BY ExpireType, MarkType DEF ExpireDue, TypeOK
<1>4. t[l].status = "active"
  BY <1>1, <1>2 DEF Resolves
<1>5. u[l].status = "active" /\ u[l].category = t[l].category /\ u[l].cohort = t[l].cohort
  BY <1>3, <1>4, MarkKeeps
<1>6. contacts' = AcceptInbound(u, l, now)
  BY <1>2 DEF InboundTier2, CrashInTier2
<1>7. contacts' = [u EXCEPT ![l].last = now]
  BY <1>5, <1>6 DEF AcceptInbound
<1>8. /\ contacts'[l].status = "active" /\ contacts'[l].category = t[l].category
      /\ contacts'[l].cohort = t[l].cohort /\ contacts'[l].last = now
  BY <1>3, <1>5, <1>7 DEF Table, Row
<1>9. now' = now
  BY DEF InboundTier2, CrashInTier2
<1>10. EffectiveTrust[l] =
         [level |-> "tier2", category |-> t[l].category, cohort |-> t[l].cohort,
          renewed |-> t[l].last]
  BY <1>4, ActiveIsTrusted
<1>11. TrustOf(contacts'[l], now) = [EffectiveTrust[l] EXCEPT !.renewed = now]
  <2>1. TrustOf(contacts'[l], now) =
          [level |-> "tier2", category |-> t[l].category, cohort |-> t[l].cohort,
           renewed |-> now]
    BY <1>8, TableAssumption DEF TrustOf, TypeOK
  <2>2. QED BY <1>10, <2>1
<1>12. EffectiveTrust' = [EffectiveTrust EXCEPT ![l].renewed = now]
  <2>1. \A m \in Leads : m # l => TrustOf(contacts'[m], now) = EffectiveTrust[m]
    BY <1>3, <1>7, TrustOfExpired DEF ExpireDue, Table
  <2>2. QED BY <1>9, <1>11, <2>1 DEF EffectiveTrust
<1>13. Outbound' \subseteq {<<l, "tier2">>}
  <2>1. CASE InboundTier2(l)
    BY <2>1, NoticesNotOutbound DEF InboundTier2
  <2>2. CASE CrashInTier2(l)
    <3>1. sent' = {} \cup sent'
      OBVIOUS
    <3>2. QED BY <2>2, <3>1, NoticesNotOutbound DEF CrashInTier2
  <2>3. QED BY <2>1, <2>2
<1>14. Ledger!Trusted(l)
  BY <1>10 DEF Ledger!Trusted
<1>15. QED BY <1>9, <1>12, <1>13, <1>14 DEF Ledger!Serve

LEMMA AnswerRefines ==
    ASSUME TypeOK, NEW l \in Leads, InboundTier1(l)
    PROVE  Ledger!Answer(l)
<1>1. EffectiveTrust' = EffectiveTrust
  <2>1. DueAtInbound(l) \in SUBSET Due(contacts, now)
    BY DEF DueAtInbound
  <2>2. QED BY <2>1, TrustOfExpired, SameTrust DEF InboundTier1, Resolved
<1>2. EffectiveTrust[l].level # "blocked"
  <2>1. contacts[l].status # "blocked"
    BY DEF InboundTier1, IsBlocked
  <2>2. QED BY <2>1 DEF EffectiveTrust, TrustOf
<1>3. Outbound' \subseteq {<<l, "tier1">>}
  BY NoticesNotOutbound DEF InboundTier1
<1>4. QED BY <1>1, <1>2, <1>3 DEF Ledger!Answer, InboundTier1

LEMMA RevokeRefines ==
    ASSUME TypeOK, NEW l \in Leads
    PROVE  /\ Downgrade(l) \/ Unblock(l) => Ledger!Demote(l)
           /\ Block(l) => Ledger!Block(l)
<1> DEFINE t == ExpireDue(contacts, now)
<1>t. t \in Table
  BY ExpireType DEF TypeOK, ExpireDue
<1>1. ASSUME Downgrade(l) \/ Unblock(l) PROVE Ledger!Demote(l)
  <2>1. /\ \A m \in Leads : m # l => contacts'[m] = t[m]
        /\ contacts'[l].status = "downgraded"
    BY <1>1, <1>t DEF Downgrade, Unblock, Deactivate, Table, Row
  <2>2. TrustOf(contacts'[l], now) = Ledger!Stranger
    BY <2>1 DEF TrustOf, Ledger!Stranger
  <2>3. QED BY <1>1, <2>1, <2>2, OneRow DEF Downgrade, Unblock, Ledger!Demote, Outbound
<1>2. ASSUME Block(l) PROVE Ledger!Block(l)
  <2>1. /\ \A m \in Leads : m # l => contacts'[m] = t[m]
        /\ contacts'[l].status = "blocked"
    BY <1>2, <1>t DEF Block, Deactivate, Table, Row, NoRow
  <2>2. TrustOf(contacts'[l], now) = Ledger!Barred
    BY <2>1 DEF TrustOf, Ledger!Barred
  <2>3. QED BY <1>2, <2>1, <2>2, OneRow DEF Block, Ledger!Block, Outbound
<1>3. QED BY <1>1, <1>2

\* What touches no grant at all: tapbacks, messages of blocked contacts, commands
\* without effect, sweeps, restarts, crashes among the expiries.
LEMMA IdleRefines ==
    ASSUME TypeOK,
           \/ \E l \in Leads : Tapback(l) \/ InboundBlocked(l)
           \/ NoChangeCommand \/ Sweep \/ (\E k \in Keys : Restart(k))
           \/ CrashInExpiry
    PROVE  Ledger!Rest
<1>1. ASSUME contacts' = contacts, now' = now, sent' = {} PROVE Ledger!Rest
  BY <1>1 DEF Ledger!Rest, EffectiveTrust, Outbound
<1>2. CASE NoChangeCommand
  BY <1>2, RestRule DEF NoChangeCommand, ExpireDue
<1>3. CASE Sweep
  BY <1>3, RestRule DEF Sweep, ExpireDue
<1>4. CASE CrashInExpiry
  <2>1. PICK S \in SUBSET Due(contacts, now) :
        \E N \in SUBSET Unnotified(Expire(contacts, S)) :
           /\ contacts' = MarkNotified(Expire(contacts, S), N)
           /\ \E M \in SUBSET N : sent' \in Notices(M)
    BY <1>4 DEF CrashInExpiry
  <2>2. PICK N \in SUBSET Unnotified(Expire(contacts, S)) :
           /\ contacts' = MarkNotified(Expire(contacts, S), N)
           /\ \E M \in SUBSET N : sent' \in Notices(M)
    BY <2>1
  <2>3. PICK M : sent' \in Notices(M)
    BY <2>2
  <2>4. QED BY <1>4, <2>2, <2>3, RestRule DEF CrashInExpiry
<1>5. QED BY <1>1, <1>2, <1>3, <1>4 DEF Tapback, InboundBlocked, Restart

LEMMA StepRefines == TypeOK /\ [Next]_vars => [Ledger!Next]_(Ledger!vars)
<1> SUFFICES ASSUME TypeOK, [Next]_vars PROVE [Ledger!Next]_(Ledger!vars)
  OBVIOUS
<1>1. ASSUME NEW l \in Leads, Inbound(l) \/ CrashInTier2(l) PROVE Ledger!Next
  BY <1>1, ServeRefines, AnswerRefines, IdleRefines DEF Inbound, Ledger!Next
<1>2. ASSUME NEW l \in Leads, NEW c \in Categories, NEW h \in Cohorts,
             Promote(l, c, h) \/ CrashInPromote(l, c, h)
      PROVE  Ledger!Next
  <2>1. Ledger!Promote(l, c, h)
    BY <1>2, PromoteRefines
  <2>2. QED BY <2>1 DEF Ledger!Next, Cohorts
<1>3. ASSUME NEW l \in Leads, Downgrade(l) \/ Block(l) \/ Unblock(l) PROVE Ledger!Next
  BY <1>3, RevokeRefines DEF Ledger!Next
<1>4. ASSUME NoChangeCommand \/ Sweep \/ (\E k \in Keys : Restart(k)) \/ CrashInExpiry
      PROVE  Ledger!Next
  BY <1>4, IdleRefines DEF Ledger!Next
<1>5. ASSUME Tick PROVE Ledger!Next
  BY <1>5, TickRefines DEF Ledger!Next
<1>6. ASSUME UNCHANGED vars PROVE UNCHANGED Ledger!vars
  BY <1>6 DEF vars, Ledger!vars, EffectiveTrust, Outbound
<1>7. QED BY <1>1, <1>2, <1>3, <1>4, <1>5, <1>6 DEF Next, AdminCommand, Crash

\* The lazily expired, crash-prone table with its sweeper implements the ledger in
\* which a temporary grant ends on time and messages go out on trust alone.
THEOREM Implementation == Spec => ImplementsLedger
<1>1. Init => Ledger!Init
  <2>1. Init => \A l \in Leads : TrustOf(contacts[l], now) = [level |-> "tier1"]
    BY DEF Init, NoRow, TrustOf
  <2>2. QED BY <2>1 DEF Init, EffectiveTrust, Outbound, Ledger!Init, Ledger!Stranger
<1>2. TypeOK /\ [Next]_vars => [Ledger!Next]_(Ledger!vars)
  BY StepRefines
<1>3. QED BY <1>1, <1>2, TypeCorrect, PTL DEF Spec, ImplementsLedger, Ledger!Spec

\* What the ledger promises, read in the table.
Promised == INSTANCE TrustLedgerProofs WITH
    clock <- now, trust <- EffectiveTrust, out <- Outbound

LEMMA SameLedger ==
    /\ Ledger!Init => Promised!Init
    /\ [Ledger!Next]_(Ledger!vars) => [Promised!Next]_(Promised!vars)
<1>1. Ledger!Init => Promised!Init
  BY DEF Ledger!Init, Promised!Init, Ledger!Stranger, Promised!Stranger
<1>2. UNCHANGED Ledger!vars => UNCHANGED Promised!vars
  BY DEF Ledger!vars, Promised!vars
<1>3. /\ Ledger!Tick => Promised!Tick
      /\ Ledger!Rest => Promised!Rest
  BY DEF Ledger!Tick, Promised!Tick, Ledger!Rest, Promised!Rest, Ledger!Temporary,
     Promised!Temporary, Ledger!Stranger, Promised!Stranger
<1>4. \A l \in Leads, c \in Categories, h \in {"test", "standing"} :
          Ledger!Promote(l, c, h) => Promised!Promote(l, c, h)
  BY DEF Ledger!Promote, Promised!Promote, Ledger!Cohort, Promised!Cohort, Ledger!Temporary,
     Promised!Temporary, Ledger!Grant, Promised!Grant, Ledger!Trusted, Promised!Trusted,
     Ledger!Cardinality, Promised!Cardinality, Ledger!IsFiniteSet, Promised!IsFiniteSet
<1>5. \A l \in Leads :
          /\ Ledger!Demote(l) => Promised!Demote(l)
          /\ Ledger!Block(l) => Promised!Block(l)
          /\ Ledger!Serve(l) => Promised!Serve(l)
          /\ Ledger!Answer(l) => Promised!Answer(l)
  BY DEF Ledger!Demote, Promised!Demote, Ledger!Block, Promised!Block, Ledger!Serve,
     Promised!Serve, Ledger!Answer, Promised!Answer, Ledger!Stranger, Promised!Stranger,
     Ledger!Barred, Promised!Barred, Ledger!Trusted, Promised!Trusted
<1>6. Ledger!Next => Promised!Next
  BY <1>3, <1>4, <1>5 DEF Ledger!Next, Promised!Next
<1>7. [Ledger!Next]_(Ledger!vars) => [Promised!Next]_(Promised!vars)
  BY <1>2, <1>6
<1>8. QED BY <1>1, <1>7

\* Nothing goes to a contact beyond the trust that stands once it is sent: no
\* answer to a blocked one, no disclosure and no Tier-2 reply to one whose grant
\* is over, whether or not the table has noticed, and however handlers died.
THEOREM NothingBeyondTrust ==
    Spec => [](\A l \in Leads :
                  /\ <<l, "tier1">> \in sent => contacts[l].status # "blocked"
                  /\ <<l, "tier2">> \in sent \/ <<l, "disclosure">> \in sent =>
                        TrustOf(contacts[l], now).level = "tier2")
<1>1. Promised!Sizes
  BY TableAssumption DEF Promised!Sizes, Promised!IsFiniteSet, IsFiniteSet
<1>2. Spec => Promised!Spec
  BY Implementation, SameLedger, PTL DEF ImplementsLedger, Ledger!Spec, Promised!Spec
<1>3. Spec => []Promised!Promises
  BY <1>1, <1>2, Promised!LedgerPromises
<1>4. Promised!Promises =>
          \A l \in Leads :
              /\ <<l, "tier1">> \in sent => contacts[l].status # "blocked"
              /\ <<l, "tier2">> \in sent \/ <<l, "disclosure">> \in sent =>
                    TrustOf(contacts[l], now).level = "tier2"
  <2> SUFFICES ASSUME Promised!OutAllowed, NEW l \in Leads
               PROVE  /\ <<l, "tier1">> \in sent => contacts[l].status # "blocked"
                      /\ <<l, "tier2">> \in sent \/ <<l, "disclosure">> \in sent =>
                            TrustOf(contacts[l], now).level = "tier2"
    BY DEF Promised!Promises
  <2>1. EffectiveTrust[l] = TrustOf(contacts[l], now)
    BY DEF EffectiveTrust
  <2>2. \A k \in {"tier1", "tier2", "disclosure"} : <<l, k>> \in sent => <<l, k>> \in Outbound
    BY DEF Outbound
  <2>3. contacts[l].status = "blocked" => TrustOf(contacts[l], now).level = "blocked"
    BY DEF TrustOf
  <2>4. QED BY <2>1, <2>2, <2>3 DEF Promised!OutAllowed, Promised!Trusted
<1>5. QED BY <1>3, <1>4, PTL

----------------------------------------------------------------------------
(* The disclosure *)

\* Whoever is in Tier 2 undisclosed in the table u was so in t.
NoFurther(t, u) == \A b \in Leads : Undisclosed(u[b]) => Undisclosed(t[b])

LEMMA NoFurtherExpire ==
    ASSUME NEW t \in Table, NEW S
    PROVE  NoFurther(t, Expire(t, S))
BY DEF NoFurther, Undisclosed, Expire, Table, Row

LEMMA NoFurtherMark ==
    ASSUME NEW t \in Table, NEW S
    PROVE  NoFurther(t, MarkNotified(t, S))
BY DEF NoFurther, Undisclosed, MarkNotified, Table, Row

LEMMA NoFurtherAccept ==
    ASSUME NEW t \in Table, NEW l \in Leads, NEW n \in Nat
    PROVE  NoFurther(t, AcceptInbound(t, l, n))
BY DEF NoFurther, Undisclosed, AcceptInbound, Table, Row

\* A promotion of an active contact keeps the mark, any other one sets it, and
\* neither changes anybody else's.
LEMMA NoFurtherActivate ==
    ASSUME NEW t \in Table, NEW l \in Leads, NEW n \in Nat,
           NEW id \in Identities, NEW c \in Categories, NEW h \in Cohorts
    PROVE  /\ ~FirstActivation(t, l) => NoFurther(t, Activate(t, id, l, c, h, n))
           /\ NoFurther(t, MarkDisclosed(Activate(t, id, l, c, h, n), l))
           /\ \A b \in Leads \ {l} : Activate(t, id, l, c, h, n)[b] = t[b]
<1>1. ~FirstActivation(t, l) => NoFurther(t, Activate(t, id, l, c, h, n))
  BY DEF NoFurther, Undisclosed, Activate, FirstActivation, Table
<1>2. Activate(t, id, l, c, h, n) \in Table
  BY ActivateType
<1>3. \A m \in Leads \ {l} : Activate(t, id, l, c, h, n)[m] = t[m]
  BY DEF Activate, Table
<1>4. QED BY <1>1, <1>2, <1>3 DEF NoFurther, Undisclosed, MarkDisclosed, Table, Row

LEMMA NoFurtherDeactivate ==
    ASSUME NEW t \in Table, NEW l \in Leads, NEW n \in Nat,
           NEW id \in Identities, NEW s \in Status \ {"active"}
    PROVE  NoFurther(t, Deactivate(t, id, l, s, n))
BY DEF NoFurther, Undisclosed, Deactivate, Table, Row, NoRow

LEMMA NoFurtherTrans ==
    ASSUME NEW t, NEW u, NEW v, NoFurther(t, u), NoFurther(u, v)
    PROVE  NoFurther(t, v)
BY DEF NoFurther

\* What all handlers begin with, in whole or cut short.
LEMMA NoFurtherBegin ==
    ASSUME TypeOK, NEW S, NEW N
    PROVE  /\ Expire(contacts, S) \in Table
           /\ NoFurther(contacts, Expire(contacts, S))
           /\ MarkNotified(Expire(contacts, S), N) \in Table
           /\ NoFurther(contacts, MarkNotified(Expire(contacts, S), N))
<1>1. contacts \in Table
  BY DEF TypeOK
<1>2. Expire(contacts, S) \in Table /\ NoFurther(contacts, Expire(contacts, S))
  BY <1>1, ExpireType, NoFurtherExpire
<1>3. /\ MarkNotified(Expire(contacts, S), N) \in Table
      /\ NoFurther(Expire(contacts, S), MarkNotified(Expire(contacts, S), N))
  BY <1>2, MarkType, NoFurtherMark
<1>4. QED BY <1>2, <1>3, NoFurtherTrans

LEMMA UndisclosedStep ==
    ASSUME TypeOK, [Next]_vars, NEW b \in Leads, Undisclosed(contacts'[b])
    PROVE  \/ Undisclosed(contacts[b])
           \/ \E c \in Categories, h \in Cohorts : CrashInPromote(b, c, h)
<1> DEFINE Before == Undisclosed(contacts[b])
           t == ExpireDue(contacts, now)
<1>n. now \in Nat /\ identity \in Identities /\ contacts \in Table
  BY DEF TypeOK
<1>t. t \in Table /\ NoFurther(contacts, t)
  BY NoFurtherBegin DEF ExpireDue
<1>u. ASSUME NEW u, NoFurther(t, u), contacts' = u PROVE Before
  <2>1. NoFurther(contacts, u)
    BY <1>t, <1>u, NoFurtherTrans
  <2>2. QED BY <1>u, <2>1 DEF NoFurther
<1> HIDE DEF t
<1>1. ASSUME NEW l \in Leads, Inbound(l) \/ CrashInTier2(l) PROVE Before
  <2> DEFINE u == MarkNotified(Resolved(l), Unnotified(Resolved(l)))
  <2>1. u \in Table /\ NoFurther(contacts, u)
    BY NoFurtherBegin DEF Resolved
  <2>2. contacts' = contacts \/ contacts' = u \/ contacts' = AcceptInbound(u, l, now)
    BY <1>1 DEF Inbound, Tapback, InboundBlocked, InboundTier1, InboundTier2, CrashInTier2
  <2> HIDE DEF u
  <2>3. NoFurther(contacts, AcceptInbound(u, l, now))
    BY <2>1, <1>n, NoFurtherAccept, NoFurtherTrans
  <2>4. QED BY <2>1, <2>2, <2>3 DEF NoFurther
<1>2. ASSUME NEW l \in Leads, NEW c \in Categories, NEW h \in Cohorts, Promote(l, c, h)
      PROVE  Before
  BY <1>2, <1>t, <1>n, <1>u, NoFurtherActivate DEF Promote, t
<1>3. ASSUME NEW l \in Leads, NEW c \in Categories, NEW h \in Cohorts,
             CrashInPromote(l, c, h), l # b
      PROVE  Before
  <2>1. contacts'[b] = t[b]
    BY <1>3, <1>t, <1>n, NoFurtherActivate DEF CrashInPromote, t
  <2>2. QED BY <2>1, <1>t DEF NoFurther
<1>4. ASSUME NEW l \in Leads, Downgrade(l) \/ Block(l) PROVE Before
  <2>1. \A s \in Status \ {"active"} : NoFurther(t, Deactivate(t, identity, l, s, now))
    BY <1>t, <1>n, NoFurtherDeactivate
  <2>2. QED BY <1>4, <1>u, <2>1 DEF Downgrade, Block, Status, t
<1>5. ASSUME NEW l \in Leads, Unblock(l) PROVE Before
  <2>1. NoFurther(t, [t EXCEPT ![l].status = "downgraded"])
    BY <1>t DEF NoFurther, Undisclosed, Table, Row
  <2>2. QED BY <1>5, <1>u, <2>1 DEF Unblock, t
<1>6. ASSUME NoChangeCommand \/ Sweep PROVE Before
  <2>1. NoFurther(t, MarkNotified(t, Unnotified(t))) /\ NoFurther(t, t)
    BY <1>t, NoFurtherMark DEF NoFurther
  <2>2. QED BY <1>6, <1>u, <2>1 DEF NoChangeCommand, Sweep, t
<1>7. ASSUME CrashInExpiry PROVE Before
  <2>1. PICK S, N : contacts' = MarkNotified(Expire(contacts, S), N)
    BY <1>7 DEF CrashInExpiry
  <2>2. NoFurther(contacts, contacts')
    BY <2>1, NoFurtherBegin
  <2>3. QED BY <2>2 DEF NoFurther
<1>8. CASE Tick \/ (\E k \in Keys : Restart(k)) \/ UNCHANGED vars
  BY <1>8 DEF Tick, Restart, vars
<1>9. QED BY <1>1, <1>2, <1>3, <1>4, <1>5, <1>6, <1>7, <1>8 DEF Next, AdminCommand, Crash

\* A contact comes to hold a grant without the disclosure in one way only, a
\* death between the promotion and its mark, whatever else happens before, after
\* and to whom.
THEOREM UndisclosedByCrashOnly == Spec => UndisclosedOnlyByCrash
<1>1. TypeOK /\ [Next]_vars =>
        [\A l \in Leads : Undisclosed(contacts'[l]) =>
            \/ Undisclosed(contacts[l])
            \/ \E c \in Categories, h \in Cohorts : CrashInPromote(l, c, h)]_vars
  BY UndisclosedStep
<1>2. QED BY <1>1, TypeCorrect, PTL DEF Spec, UndisclosedOnlyByCrash

\* As long as no process dies in a handler, nobody is answered by the model who
\* has not been told that it answers.
THEOREM DisclosureFirst ==
    ASSUME ~CrashesHappen
    PROVE  Spec => DisclosedBeforeServed
<1> DEFINE Told == \A l \in Leads : ~Undisclosed(contacts[l])
<1>1. Init => Told
  BY DEF Init, NoRow, Undisclosed
<1>2. TypeOK /\ Told /\ [Next]_vars => Told'
  <2> SUFFICES ASSUME TypeOK, Told, [Next]_vars, NEW l \in Leads,
                      Undisclosed(contacts'[l])
               PROVE  FALSE
    BY DEF Undisclosed
  <2>1. PICK c \in Categories, h \in Cohorts : CrashInPromote(l, c, h)
    BY UndisclosedStep
  <2>2. QED BY <2>1 DEF CrashInPromote
<1>3. TypeOK /\ Told /\ [Next]_vars =>
        [\A l \in Leads : <<l, "tier2">> \in sent' => contacts[l].disclosed]_vars
  <2> SUFFICES ASSUME TypeOK, Told, [Next]_vars, vars' # vars,
                      NEW l \in Leads, <<l, "tier2">> \in sent'
               PROVE  contacts[l].disclosed
    OBVIOUS
  <2>1. InboundTier2(l)
    BY ServingStep
  <2>2. contacts[l].status = "active"
    BY <2>1, AcceptedIsOpen DEF InboundTier2
  <2>3. QED BY <2>2 DEF Undisclosed
<1> HIDE DEF Told
<1>4. QED BY <1>1, <1>2, <1>3, TypeCorrect, PTL DEF Spec, DisclosedBeforeServed

----------------------------------------------------------------------------
(* The notices of expiries *)

\* A grant that stands has not been announced as expired.
Unannounced(t) ==
    \A l \in Leads : t[l].status \in {"none", "active"} => ~t[l].notified

\* The table u may follow the present one when the leads of N are announced.
Announces(u, N) ==
    \A l \in Leads :
        /\ l \in N =>
              /\ contacts[l].status = "expired" \/ l \in Due(contacts, now)
              /\ ~contacts[l].notified
              /\ u[l].notified
        /\ contacts[l].notified /\ ~u[l].notified => u[l].status = "active"

\* What all handlers begin with, in whole or cut short.
LEMMA AnnounceExpired ==
    ASSUME TypeOK, Unannounced(contacts), NEW S \in SUBSET Due(contacts, now),
           NEW N \in SUBSET Unnotified(Expire(contacts, S))
    PROVE  /\ MarkNotified(Expire(contacts, S), N) \in Table
           /\ Unannounced(MarkNotified(Expire(contacts, S), N))
           /\ Announces(MarkNotified(Expire(contacts, S), N), N)
<1> DEFINE t == Expire(contacts, S)
           u == MarkNotified(t, N)
<1>1. t \in Table /\ u \in Table
  BY ExpireType, MarkType DEF TypeOK
<1>2. \A l \in Leads : /\ t[l].notified = contacts[l].notified
                       /\ l \in S => t[l].status = "expired"
                       /\ l \notin S => t[l] = contacts[l]
  BY DEF Expire, TypeOK, Table, Row
<1>3. N \subseteq Leads /\ \A l \in N : t[l].status = "expired" /\ ~t[l].notified
  BY DEF Unnotified
<1> HIDE DEF t
<1>4. \A l \in Leads : /\ u[l].status = t[l].status
                       /\ l \in N => u[l].notified
                       /\ l \notin N => u[l].notified = t[l].notified
  BY <1>1 DEF MarkNotified, Table, Row
<1> HIDE DEF u
<1>5. Unannounced(u)
  BY <1>2, <1>3, <1>4 DEF Unannounced
<1>6. Announces(u, N)
  BY <1>2, <1>3, <1>4 DEF Announces
<1>7. QED BY <1>1, <1>5, <1>6 DEF u, t

LEMMA AnnounceAccepted ==
    ASSUME NEW u \in Table, NEW N, Unannounced(u), Announces(u, N),
           NEW l \in Leads, NEW n \in Nat
    PROVE  Unannounced(AcceptInbound(u, l, n)) /\ Announces(AcceptInbound(u, l, n), N)
<1>1. \A m \in Leads : /\ AcceptInbound(u, l, n)[m].status = u[m].status
                       /\ AcceptInbound(u, l, n)[m].notified = u[m].notified
  BY DEF AcceptInbound, Table, Row
<1>2. QED BY <1>1 DEF Unannounced, Announces

\* Commands announce nothing; only a promotion clears the flag.
LEMMA AnnounceNothing ==
    ASSUME NEW t \in Table, Unannounced(t), NEW l \in Leads, NEW n \in Nat,
           NEW id \in Identities,
           \A m \in Leads : t[m].notified = contacts[m].notified
    PROVE  /\ \A c \in Categories, h \in Cohorts :
                 /\ Unannounced(Activate(t, id, l, c, h, n))
                 /\ Announces(Activate(t, id, l, c, h, n), {})
                 /\ Unannounced(MarkDisclosed(Activate(t, id, l, c, h, n), l))
                 /\ Announces(MarkDisclosed(Activate(t, id, l, c, h, n), l), {})
           /\ \A s \in {"downgraded", "blocked"} :
                 /\ Unannounced(Deactivate(t, id, l, s, n))
                 /\ Announces(Deactivate(t, id, l, s, n), {})
           /\ t[l].status = "blocked" =>
                 /\ Unannounced([t EXCEPT ![l].status = "downgraded"])
                 /\ Announces([t EXCEPT ![l].status = "downgraded"], {})
<1>1. ASSUME NEW c \in Categories, NEW h \in Cohorts
      PROVE  /\ Unannounced(Activate(t, id, l, c, h, n))
             /\ Announces(Activate(t, id, l, c, h, n), {})
             /\ Unannounced(MarkDisclosed(Activate(t, id, l, c, h, n), l))
             /\ Announces(MarkDisclosed(Activate(t, id, l, c, h, n), l), {})
  <2> DEFINE u == Activate(t, id, l, c, h, n)
  <2>1. u \in Table
    BY ActivateType
  <2>2. /\ u[l].status = "active" /\ ~u[l].notified
        /\ \A m \in Leads \ {l} : u[m] = t[m]
    BY DEF Activate, Table
  <2> HIDE DEF u
  <2>3. \A m \in Leads : /\ MarkDisclosed(u, l)[m].status = u[m].status
                         /\ MarkDisclosed(u, l)[m].notified = u[m].notified
    BY <2>1 DEF MarkDisclosed, Table, Row
  <2>4. Unannounced(u) /\ Announces(u, {})
    BY <2>2 DEF Unannounced, Announces
  <2>5. Unannounced(MarkDisclosed(u, l)) /\ Announces(MarkDisclosed(u, l), {})
    BY <2>3, <2>4 DEF Unannounced, Announces
  <2>6. QED BY <2>4, <2>5 DEF u
<1>2. ASSUME NEW s \in {"downgraded", "blocked"}
      PROVE  Unannounced(Deactivate(t, id, l, s, n)) /\ Announces(Deactivate(t, id, l, s, n), {})
  <2> DEFINE u == Deactivate(t, id, l, s, n)
  <2>1. CASE t[l].status # "none"
    <3>1. /\ u[l].status = s /\ u[l].notified = t[l].notified
          /\ \A m \in Leads \ {l} : u[m] = t[m]
      BY <2>1 DEF Deactivate, Table, Row
    <3> HIDE DEF u
    <3>2. Unannounced(u) /\ Announces(u, {})
      BY <3>1 DEF Unannounced, Announces
    <3>3. QED BY <3>2 DEF u
  <2>2. CASE t[l].status = "none"
    <3>1. /\ u[l].status = s /\ ~u[l].notified /\ ~t[l].notified
          /\ \A m \in Leads \ {l} : u[m] = t[m]
      BY <2>2 DEF Deactivate, Table, Row, NoRow, Unannounced
    <3> HIDE DEF u
    <3>2. Unannounced(u) /\ Announces(u, {})
      BY <2>2, <3>1 DEF Unannounced, Announces
    <3>3. QED BY <3>2 DEF u
  <2>3. QED BY <2>1, <2>2
<1>3. ASSUME t[l].status = "blocked"
      PROVE  /\ Unannounced([t EXCEPT ![l].status = "downgraded"])
             /\ Announces([t EXCEPT ![l].status = "downgraded"], {})
  <2> DEFINE u == [t EXCEPT ![l].status = "downgraded"]
  <2>1. /\ u[l].status = "downgraded" /\ u[l].notified = t[l].notified
        /\ \A m \in Leads \ {l} : u[m] = t[m]
    BY DEF Table, Row
  <2> HIDE DEF u
  <2>2. Unannounced(u) /\ Announces(u, {})
    BY <2>1 DEF Unannounced, Announces
  <2>3. QED BY <2>2 DEF u
<1>4. QED BY <1>1, <1>2, <1>3

\* One conjunct for the table, one for what goes out.
NoticeRule(N) ==
    /\ Unannounced(contacts')
    /\ Announces(contacts', N)
    /\ \A l \in Leads : NoticeTried(l, sent') => l \in N

LEMMA NoticeStep ==
    ASSUME TypeOK, Unannounced(contacts), [Next]_vars, vars' # vars
    PROVE  \E N : NoticeRule(N)
<1>n. now \in Nat /\ identity \in Identities /\ contacts \in Table
  BY DEF TypeOK
<1>e. \A N : \A notices \in Notices(N) : \A l : NoticeTried(l, notices) => l \in N
  BY NoticesNotOut
<1>o. \A l : ~NoticeTried(l, {})
  BY DEF NoticeTried
<1>0. Announces(contacts, {})
  BY DEF Announces
<1> DEFINE t == ExpireDue(contacts, now)
<1>t. /\ t \in Table /\ Unannounced(t) /\ Announces(t, {})
      /\ \A m \in Leads : t[m].notified = contacts[m].notified
  <2>1. /\ MarkNotified(t, {}) \in Table /\ Unannounced(MarkNotified(t, {}))
        /\ Announces(MarkNotified(t, {}), {})
    BY AnnounceExpired DEF ExpireDue
  <2>2. t \in Table
    BY <1>n, ExpireType DEF ExpireDue
  <2>3. MarkNotified(t, {}) = t
    BY <2>2 DEF MarkNotified, Table
  <2>4. \A m \in Leads : t[m].notified = contacts[m].notified
    BY <1>n DEF ExpireDue, Expire, Table, Row
  <2>5. QED BY <2>1, <2>2, <2>3, <2>4
<1>1. ASSUME NEW l \in Leads, Tapback(l) \/ InboundBlocked(l) PROVE NoticeRule({})
  BY <1>1, <1>0, <1>o DEF NoticeRule, Tapback, InboundBlocked
<1>2. ASSUME NEW l \in Leads, InboundTier1(l) \/ InboundTier2(l) \/ CrashInTier2(l)
      PROVE  NoticeRule(Unnotified(Resolved(l)))
  <2> DEFINE N == Unnotified(Resolved(l))
             u == MarkNotified(Resolved(l), N)
  <2>1. u \in Table /\ Unannounced(u) /\ Announces(u, N)
    <3>1. DueAtInbound(l) \in SUBSET Due(contacts, now)
      BY DEF DueAtInbound
    <3>2. QED BY <3>1, AnnounceExpired DEF Resolved
  <2>2. contacts' = u \/ contacts' = AcceptInbound(u, l, now)
    BY <1>2 DEF InboundTier1, InboundTier2, CrashInTier2
  <2>3. \A m \in Leads : NoticeTried(m, sent') => m \in N
    <3>1. PICK notices \in Notices(N) : \A m : NoticeTried(m, sent') => NoticeTried(m, notices)
      BY <1>2 DEF InboundTier1, InboundTier2, CrashInTier2, NoticeTried
    <3>2. QED BY <3>1, <1>e
  <2> HIDE DEF u, N
  <2>4. Unannounced(contacts') /\ Announces(contacts', N)
    BY <2>1, <2>2, <1>n, AnnounceAccepted
  <2>5. QED BY <2>3, <2>4 DEF NoticeRule, N
<1>3. ASSUME NEW l \in Leads, NEW c \in Categories, NEW h \in Cohorts,
             Promote(l, c, h) \/ CrashInPromote(l, c, h)
      PROVE  NoticeRule({})
  <2>1. \/ contacts' = MarkDisclosed(Activate(t, identity, l, c, h, now), l)
        \/ contacts' = Activate(t, identity, l, c, h, now)
    BY <1>3 DEF Promote, CrashInPromote
  <2>2. \A m \in Leads : ~NoticeTried(m, sent')
    BY <1>3 DEF Promote, CrashInPromote, NoticeTried
  <2> HIDE DEF t
  <2> DEFINE u == Activate(t, identity, l, c, h, now)
  <2>3. /\ Unannounced(u) /\ Announces(u, {})
        /\ Unannounced(MarkDisclosed(u, l)) /\ Announces(MarkDisclosed(u, l), {})
    BY <1>t, <1>n, AnnounceNothing
  <2> HIDE DEF u
  <2>4. Unannounced(contacts') /\ Announces(contacts', {})
    <3>1. CASE contacts' = u
      BY <2>3, <3>1, Zenon
    <3>2. CASE contacts' = MarkDisclosed(u, l)
      BY <2>3, <3>2, Zenon
    <3>3. QED BY <2>1, <3>1, <3>2 DEF u
  <2>5. QED BY <2>2, <2>4 DEF NoticeRule
<1>4. ASSUME NEW l \in Leads, Downgrade(l) \/ Block(l) \/ Unblock(l) PROVE NoticeRule({})
  <2>1. \/ contacts' = Deactivate(t, identity, l, "downgraded", now)
        \/ contacts' = Deactivate(t, identity, l, "blocked", now)
        \/ t[l].status = "blocked" /\ contacts' = [t EXCEPT ![l].status = "downgraded"]
    BY <1>4 DEF Downgrade, Block, Unblock
  <2>2. sent' = {}
    BY <1>4 DEF Downgrade, Block, Unblock
  <2> HIDE DEF t
  <2>3. QED BY <2>1, <2>2, <1>t, <1>n, <1>o, AnnounceNothing DEF NoticeRule
<1>5. CASE NoChangeCommand
  BY <1>5, <1>t, <1>o DEF NoChangeCommand, NoticeRule
<1>6. CASE Sweep
  <2>1. Unannounced(contacts') /\ Announces(contacts', Unnotified(t))
    BY <1>6, AnnounceExpired DEF Sweep, ExpireDue
  <2>2. sent' \in Notices(Unnotified(t))
    BY <1>6 DEF Sweep
  <2>3. NoticeRule(Unnotified(t))
    BY <2>1, <2>2, <1>e DEF NoticeRule
  <2>4. QED BY <2>3
<1>7. CASE CrashInExpiry
  <2>0. PICK S \in SUBSET Due(contacts, now) :
           \E N \in SUBSET Unnotified(Expire(contacts, S)) :
              /\ contacts' = MarkNotified(Expire(contacts, S), N)
              /\ \E M \in SUBSET N : sent' \in Notices(M)
    BY <1>7 DEF CrashInExpiry
  <2>1. PICK N \in SUBSET Unnotified(Expire(contacts, S)) :
           /\ contacts' = MarkNotified(Expire(contacts, S), N)
           /\ \E M \in SUBSET N : sent' \in Notices(M)
    BY <2>0
  <2>2. Unannounced(contacts') /\ Announces(contacts', N)
    BY <2>1, AnnounceExpired
  <2>3. \A l \in Leads : NoticeTried(l, sent') => l \in N
    <3>1. PICK M \in SUBSET N : sent' \in Notices(M)
      BY <2>1
    <3>2. QED BY <3>1, <1>e
  <2>4. NoticeRule(N)
    BY <2>2, <2>3 DEF NoticeRule
  <2>5. QED BY <2>4
<1>8. CASE Tick \/ \E k \in Keys : Restart(k)
  <2>1. NoticeRule({})
    BY <1>8, <1>0, <1>o DEF Tick, Restart, NoticeRule
  <2>2. QED BY <2>1
<1>9. QED
  BY <1>1, <1>2, <1>3, <1>4, <1>5, <1>6, <1>7, <1>8 DEF Next, Inbound, AdminCommand, Crash

\* One relay at most is tried of the expiry of a grant, and only for a grant that
\* time has ended, whoever finds it and wherever a process dies.
THEOREM ExpiryIsToldOnce == Spec => ExpiryToldOnce
<1> DEFINE Standing == Unannounced(contacts)
<1>1. Init => Standing
  BY DEF Init, NoRow, Unannounced
<1>2. TypeOK /\ Standing /\ [Next]_vars => Standing'
  <2>1. CASE vars' = vars
    BY <2>1 DEF vars, Unannounced
  <2>2. CASE vars' # vars
    BY <2>2, NoticeStep DEF NoticeRule
  <2>3. QED BY <2>1, <2>2
<1>3. TypeOK /\ Standing /\ [Next]_vars =>
        [\A l \in Leads :
            /\ NoticeTried(l, sent') =>
                  /\ contacts[l].status = "expired" \/ l \in Due(contacts, now)
                  /\ ~contacts[l].notified
                  /\ contacts'[l].notified
            /\ contacts[l].notified /\ ~contacts'[l].notified =>
                  contacts'[l].status = "active"]_vars
  BY NoticeStep DEF NoticeRule, Announces
<1> HIDE DEF Standing
<1>4. QED BY <1>1, <1>2, <1>3, TypeCorrect, PTL DEF Spec, ExpiryToldOnce
===============================================================================
