--------------------------- MODULE TrustLedgerProofs ---------------------------
(***************************************************************************)
(* What the ledger itself promises, and with it everything that implements *)
(* it: that the abstract specification is worth implementing.              *)
(***************************************************************************)
EXTENDS TrustLedger, FiniteSetTheorems, TLAPS

Entry == {Stranger, Barred}
    \cup {Grant(c, h, n) : c \in Categories, h \in {"test", "standing"}, n \in Nat}

LedgerTypeOK ==
    /\ clock \in Nat
    /\ trust \in [Leads -> Entry]

\* A temporary grant stands only while its window is open.
WindowsOpen == \A l \in Leads : Temporary(trust[l]) => clock < trust[l].renewed + TestTTL

\* No more temporary grants than the cohort has places.
CohortBounded == Cardinality(Cohort) <= TestCohortMax

\* What went out last is what the trust allows that stands after it: nothing to a
\* blocked contact, and a Tier-2 reply or a disclosure to a trusted one alone.
OutAllowed ==
    \A l \in Leads :
        /\ <<l, "tier1">> \in out => trust[l].level # "blocked"
        /\ <<l, "tier2">> \in out \/ <<l, "disclosure">> \in out => Trusted(l)

Promises == WindowsOpen /\ CohortBounded /\ OutAllowed

Sizes ==
    /\ IsFiniteSet(Leads)
    /\ TestCohortMax \in Nat
    /\ TestTTL \in Nat \ {0}

----------------------------------------------------------------------------

LEMMA EntryFields ==
    ASSUME NEW e \in Entry, e.level = "tier2"
    PROVE  \E c \in Categories, h \in {"test", "standing"}, n \in Nat : e = Grant(c, h, n)
BY DEF Entry, Stranger, Barred

LEMMA RenewedEntry ==
    ASSUME NEW e \in Entry, e.level = "tier2", NEW n \in Nat
    PROVE  /\ [e EXCEPT !.renewed = n] \in Entry
           /\ [e EXCEPT !.renewed = n].level = "tier2"
           /\ [e EXCEPT !.renewed = n].cohort = e.cohort
           /\ [e EXCEPT !.renewed = n].renewed = n
<1>1. PICK c \in Categories, h \in {"test", "standing"}, m \in Nat : e = Grant(c, h, m)
  BY EntryFields
<1>2. [e EXCEPT !.renewed = n] = Grant(c, h, n)
  BY <1>1 DEF Grant
<1>3. QED BY <1>1, <1>2 DEF Entry, Grant

LEMMA CohortFinite ==
    ASSUME Sizes, NEW S \in SUBSET Leads, NEW T \in SUBSET S
    PROVE  IsFiniteSet(S) /\ Cardinality(S) \in Nat /\ Cardinality(T) <= Cardinality(S)
           /\ Cardinality(T) \in Nat
BY FS_Subset, FS_CardinalityType DEF Sizes

\* A step in which nobody joins the cohort.
LEMMA CohortShrinks ==
    ASSUME Sizes, CohortBounded, Cohort' \subseteq Cohort
    PROVE  CohortBounded'
<1>1. Cohort \subseteq Leads
  BY DEF Cohort
<1>2. Cardinality(Cohort') <= Cardinality(Cohort) /\ Cardinality(Cohort') \in Nat
      /\ Cardinality(Cohort) \in Nat
  BY <1>1, CohortFinite
<1>3. QED BY <1>2 DEF CohortBounded, Sizes

LEMMA PromoteKeeps ==
    ASSUME Sizes, LedgerTypeOK, Promises,
           NEW l \in Leads, NEW c \in Categories, NEW h \in {"test", "standing"},
           Promote(l, c, h)
    PROVE  LedgerTypeOK' /\ Promises'
<1>1. trust' = [trust EXCEPT ![l] = Grant(c, h, clock)] /\ clock' = clock
  BY DEF Promote
<1>2. LedgerTypeOK'
  BY <1>1 DEF LedgerTypeOK, Entry
<1>3. WindowsOpen'
  BY <1>1 DEF WindowsOpen, Promises, LedgerTypeOK, Sizes, Temporary, Grant
<1>4. CohortBounded'
  <2>1. CASE h = "test"
    <3>1. Cohort' \subseteq (Cohort \ {l}) \cup {l} /\ Cohort \ {l} \subseteq Leads
      BY <1>1 DEF Cohort, LedgerTypeOK
    <3>2. Cardinality(Cohort \ {l}) < TestCohortMax
      BY <2>1 DEF Promote
    <3>3. IsFiniteSet(Cohort \ {l}) /\ Cardinality(Cohort \ {l}) \in Nat
      BY <3>1, CohortFinite
    <3>4. /\ IsFiniteSet((Cohort \ {l}) \cup {l})
          /\ Cardinality((Cohort \ {l}) \cup {l}) = Cardinality(Cohort \ {l}) + 1
      BY <3>3, FS_AddElement
    <3>5. /\ Cardinality(Cohort') <= Cardinality((Cohort \ {l}) \cup {l})
          /\ Cardinality(Cohort') \in Nat
      BY <3>1, <3>4, FS_Subset, FS_CardinalityType
    <3>6. QED BY <3>2, <3>3, <3>4, <3>5 DEF CohortBounded, Sizes
  <2>2. CASE h # "test"
    <3>1. Cohort' \subseteq Cohort
      BY <1>1, <2>2 DEF Cohort, LedgerTypeOK, Temporary, Grant
    <3>2. QED BY <3>1, CohortShrinks DEF Promises
  <2>3. QED BY <2>1, <2>2
<1>5. OutAllowed'
  BY <1>1 DEF OutAllowed, Promote, LedgerTypeOK, Trusted, Grant
<1>6. QED BY <1>2, <1>3, <1>4, <1>5 DEF Promises

LEMMA ServeKeeps ==
    ASSUME Sizes, LedgerTypeOK, Promises, NEW l \in Leads, Serve(l)
    PROVE  LedgerTypeOK' /\ Promises'
<1> DEFINE e == [trust[l] EXCEPT !.renewed = clock]
<1>1. trust' = [trust EXCEPT ![l] = e] /\ clock' = clock /\ clock \in Nat
  BY DEF Serve, LedgerTypeOK
<1>2. /\ e \in Entry /\ e.level = "tier2" /\ e.cohort = trust[l].cohort
      /\ e.renewed = clock /\ trust[l].level = "tier2"
  BY RenewedEntry DEF Serve, Trusted, LedgerTypeOK
<1> HIDE DEF e
<1>3. LedgerTypeOK'
  BY <1>1, <1>2 DEF LedgerTypeOK
<1>4. WindowsOpen'
  BY <1>1, <1>2 DEF WindowsOpen, Promises, LedgerTypeOK, Sizes, Temporary
<1>5. Cohort' \subseteq Cohort
  BY <1>1, <1>2 DEF Cohort, LedgerTypeOK, Temporary
<1>6. OutAllowed'
  BY <1>1, <1>2 DEF OutAllowed, Serve, LedgerTypeOK, Trusted
<1>7. QED BY <1>3, <1>4, <1>5, <1>6, CohortShrinks DEF Promises

LEMMA PromisesStep ==
    ASSUME Sizes, LedgerTypeOK, Promises, [Next]_vars
    PROVE  LedgerTypeOK' /\ Promises'
<1>1. ASSUME Tick PROVE LedgerTypeOK' /\ Promises'
  <2>1. clock' = clock + 1 /\ clock' \in Nat /\ out' = {}
    BY <1>1 DEF Tick, LedgerTypeOK
  <2>2. trust' = [l \in Leads |->
                    IF Temporary(trust[l]) /\ trust[l].renewed + TestTTL <= clock'
                    THEN Stranger ELSE trust[l]]
    BY <1>1 DEF Tick
  <2>3. LedgerTypeOK'
    BY <2>1, <2>2 DEF LedgerTypeOK, Entry
  <2>4. ~Temporary(Stranger)
    BY DEF Temporary, Stranger
  <2>5. WindowsOpen'
    <3> SUFFICES ASSUME NEW l \in Leads, Temporary(trust'[l])
                 PROVE  clock' < trust'[l].renewed + TestTTL
      BY DEF WindowsOpen, Temporary
    <3>1. trust'[l] = trust[l] /\ ~(trust[l].renewed + TestTTL <= clock')
      BY <2>2, <2>4
    <3>2. PICK c \in Categories, h \in {"test", "standing"}, n \in Nat :
              trust[l] = Grant(c, h, n)
      BY <3>1, EntryFields DEF Temporary, LedgerTypeOK
    <3>3. trust[l].renewed \in Nat
      BY <3>2 DEF Grant
    <3>4. QED BY <2>1, <3>1, <3>3 DEF Sizes
  <2>6. Cohort' \subseteq Cohort
    BY <2>2, <2>4 DEF Cohort, Temporary
  <2>7. OutAllowed'
    BY <2>1 DEF OutAllowed
  <2>8. QED BY <2>3, <2>5, <2>6, <2>7, CohortShrinks DEF Promises
<1>2. ASSUME NEW l \in Leads, Demote(l) \/ Block(l) PROVE LedgerTypeOK' /\ Promises'
  <2>1. /\ trust' \in {[trust EXCEPT ![l] = Stranger], [trust EXCEPT ![l] = Barred]}
        /\ clock' = clock /\ out' = {}
    BY <1>2 DEF Demote, Block
  <2>2. ~Temporary(Stranger) /\ ~Temporary(Barred) /\ Stranger \in Entry /\ Barred \in Entry
    BY DEF Temporary, Stranger, Barred, Entry
  <2>3. LedgerTypeOK'
    BY <2>1, <2>2 DEF LedgerTypeOK
  <2>4. \A m \in Leads : Temporary(trust'[m]) => trust'[m] = trust[m]
    BY <2>1, <2>2 DEF LedgerTypeOK
  <2>5. WindowsOpen'
    BY <2>1, <2>4 DEF WindowsOpen, Promises, Temporary
  <2>6. Cohort' \subseteq Cohort
    BY <2>4 DEF Cohort, Temporary
  <2>7. OutAllowed'
    BY <2>1 DEF OutAllowed
  <2>8. QED BY <2>3, <2>5, <2>6, <2>7, CohortShrinks DEF Promises
<1>3. ASSUME UNCHANGED <<clock, trust>>, OutAllowed' PROVE LedgerTypeOK' /\ Promises'
  BY <1>3 DEF LedgerTypeOK, Promises, WindowsOpen, CohortBounded, Cohort
<1>4. ASSUME NEW l \in Leads, Answer(l) PROVE OutAllowed'
  BY <1>4 DEF Answer, OutAllowed
<1>5. ASSUME Rest PROVE OutAllowed'
  BY <1>5 DEF Rest, OutAllowed
<1>6. ASSUME UNCHANGED vars PROVE LedgerTypeOK' /\ Promises'
  BY <1>6 DEF vars, LedgerTypeOK, Promises, WindowsOpen, CohortBounded, Cohort, OutAllowed,
     Trusted
<1>7. QED
  BY <1>1, <1>2, <1>3, <1>4, <1>5, <1>6, PromoteKeeps, ServeKeeps DEF Next, Answer, Rest

\* In the ledger every temporary grant stands inside its window, the cohort never
\* outgrows its places, and nothing goes to a contact beyond the trust that stands.
THEOREM LedgerPromises ==
    ASSUME Sizes PROVE Spec => []Promises
<1>1. Init => LedgerTypeOK /\ Promises
  <2> SUFFICES ASSUME Init PROVE LedgerTypeOK /\ Promises
    OBVIOUS
  <2>1. \A l \in Leads : trust[l] = Stranger /\ ~Temporary(trust[l])
    BY DEF Init, Stranger, Temporary
  <2>2. Cohort = {}
    BY <2>1 DEF Cohort
  <2>3. CohortBounded
    BY <2>2, FS_EmptySet DEF CohortBounded, Sizes
  <2>4. QED BY <2>1, <2>3 DEF Init, LedgerTypeOK, Entry, Promises, WindowsOpen, OutAllowed
<1>2. LedgerTypeOK /\ Promises /\ [Next]_vars => LedgerTypeOK' /\ Promises'
  BY PromisesStep
<1>3. QED BY <1>1, <1>2, PTL DEF Spec
===============================================================================
