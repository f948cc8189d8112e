-------------------------- MODULE DiscordIntakeProofs --------------------------
(***************************************************************************)
(* Theorems about DiscordIntake, for every set of leads, alerts and        *)
(* command messages, and whatever the commands say.                        *)
(***************************************************************************)
EXTENDS DiscordIntake, Tier2ManagerProofs

----------------------------------------------------------------------------
(* The registry inside the larger system *)

LEMMA ExecuteStep ==
    ASSUME NEW l \in Leads, NEW m \in Commands, Execute(l, ActionOf[m])
    PROVE  Next
<1> DEFINE act == ActionOf[m]
<1>1. act.category \in Categories /\ act.cohort \in Cohorts
  BY IntakeAssumption
<1>2. \/ Promote(l, act.category, act.cohort)
      \/ NoChangeCommand
      \/ Downgrade(l)
      \/ Block(l)
  BY DEF Execute, PromoteAgain
<1>3. AdminCommand
  BY <1>1, <1>2 DEF AdminCommand
<1>4. QED BY <1>3 DEF Next

LEMMA CutStep ==
    ASSUME NEW l \in Leads, NEW m \in Commands,
           CrashInPromote(l, ActionOf[m].category, ActionOf[m].cohort)
    PROVE  Next
<1>1. ActionOf[m].category \in Categories /\ ActionOf[m].cohort \in Cohorts
  BY IntakeAssumption
<1>2. QED BY <1>1 DEF Next, Crash

LEMMA RegistryStep == IntakeTypeOK /\ [IntakeNext]_allVars => [Next]_vars
<1> SUFFICES ASSUME IntakeTypeOK, [IntakeNext]_allVars PROVE [Next]_vars
  OBVIOUS
<1>1. ASSUME NEW l \in Leads, MirrorIntake(l) \/ MirrorPromoted(l) PROVE Next
  BY <1>1 DEF MirrorIntake, MirrorPromoted, Next, Inbound
<1>2. ASSUME NEW a \in Alerts, NEW p, ConfirmAlert(a, p) PROVE UNCHANGED vars
  BY <1>2 DEF ConfirmAlert
<1>3. ASSUME NEW m \in Commands, Command(m) PROVE [Next]_vars
  <2>1. alerts[RefOf[m]].lead \in Leads
    BY IntakeAssumption DEF IntakeTypeOK, Alert
  <2>2. CASE Resolve(m)
    BY <2>1, <2>2, ExecuteStep DEF Resolve
  <2>3. CASE Reopen(m) \/ DieFailed(m)
    BY <2>3 DEF Reopen, DieFailed, Next, AdminCommand
  <2>4. CASE DieExecuted(m)
    BY <2>1, <2>4, ExecuteStep, CutStep DEF DieExecuted
  <2>5. CASE DieRecorded(m)
    BY <2>1, <2>5, CutStep DEF DieRecorded
  <2>6. CASE Refuse(m) \/ DieClaimed(m)
    BY <2>6 DEF Refuse, DieClaimed
  <2>7. QED BY <1>3, <2>2, <2>3, <2>4, <2>5, <2>6 DEF Command
<1>4. ASSUME Registry PROVE Next
  BY <1>4, ManagerAssumption DEF Registry, Next, Inbound
<1>5. ASSUME SweepTokens PROVE Next
  BY <1>5 DEF SweepTokens, Next
<1>6. CASE UNCHANGED allVars
  BY <1>6 DEF allVars
<1>7. QED BY <1>1, <1>2, <1>3, <1>4, <1>5, <1>6 DEF IntakeNext

----------------------------------------------------------------------------
(* The inductive invariant *)

\* What an alert has been through: it changes trust only while it is open, and
\* is not open afterwards; a command answered ok is one that resolved it.
AlertHistory ==
    /\ \A a \in Alerts :
          /\ effects[a] \in {0, 1}
          /\ effects[a] = 1 => alerts[a].status \in {"resolving", "resolved"}
    /\ OkMeansDone

IntakeInv == TypeOK /\ IntakeTypeOK /\ AlertHistory

LEMMA IntakeInvInit == IntakeInit => IntakeInv
<1> SUFFICES ASSUME IntakeInit PROVE IntakeInv
  OBVIOUS
<1>1. TypeOK
  BY InitType DEF IntakeInit
<1>2. (CHOOSE l \in Leads : TRUE) \in Leads
  BY IntakeAssumption
<1>3. NoFp \in Fingerprints
  BY DEF Fingerprints
<1>4. IntakeTypeOK
  BY <1>2, <1>3 DEF IntakeInit, IntakeTypeOK, Alert, AlertStatus
<1>5. AlertHistory
  BY DEF IntakeInit, AlertHistory, OkMeansDone
<1>6. QED BY <1>1, <1>4, <1>5 DEF IntakeInv

LEMMA IntakeInvStep == IntakeInv /\ [IntakeNext]_allVars => IntakeInv'
<1> SUFFICES ASSUME IntakeInv, [IntakeNext]_allVars PROVE IntakeInv'
  OBVIOUS
<1> USE DEF IntakeInv
<1>t. TypeOK'
  BY RegistryStep, TypeStep
<1> DEFINE Rest == IntakeTypeOK /\ AlertHistory
<1>1. ASSUME NEW l \in Leads, MirrorIntake(l) \/ MirrorPromoted(l) PROVE Rest'
  <2>1. SenderFp(l) \in Fingerprints /\ NoFp \in Fingerprints
    BY FingerprintType DEF TypeOK, SenderFp, Fingerprints
  <2>2. pending' \subseteq Leads \X Fingerprints
    BY <1>1, <2>1 DEF MirrorIntake, MirrorPromoted, IntakeTypeOK
  <2>3. QED
    BY <1>1, <2>2
    DEF MirrorIntake, MirrorPromoted, IntakeTypeOK, AlertHistory, OkMeansDone
<1>2. ASSUME NEW a \in Alerts, NEW p \in Leads \X Fingerprints, ConfirmAlert(a, p)
      PROVE  Rest'
  <2>1. [lead |-> p[1], fp |-> p[2], status |-> "open"] \in Alert
    BY DEF Alert, AlertStatus
  <2>2. IntakeTypeOK'
    BY <1>2, <2>1 DEF ConfirmAlert, IntakeTypeOK
  <2>3. effects[a] = 0 /\ \A m \in Commands : RefOf[m] = a => commands[m] # "ok"
    BY <1>2 DEF ConfirmAlert, AlertHistory, OkMeansDone
  <2>4. AlertHistory'
    BY <1>2, <2>3, IntakeAssumption DEF ConfirmAlert, IntakeTypeOK, AlertHistory, OkMeansDone
  <2>5. QED BY <2>2, <2>4
<1>3. ASSUME NEW m \in Commands, Command(m) PROVE Rest'
  <2> DEFINE a == RefOf[m]
  <2>1. a \in Alerts /\ alerts[a] \in Alert
    BY IntakeAssumption DEF IntakeTypeOK
  <2>2. Accepts(a) =>
           /\ alerts[a].status = "open"
           /\ effects[a] = 0
           /\ \A n \in Commands : RefOf[n] = a => commands[n] # "ok"
    BY <2>1 DEF Accepts, AlertHistory, OkMeansDone
  <2>3. \A s \in AlertStatus :
           [alerts EXCEPT ![a].status = s] \in [Alerts -> Alert]
    BY <2>1 DEF IntakeTypeOK, Alert
  <2>4. CASE Resolve(m) \/ DieRecorded(m)
    <3>1. /\ alerts' = [alerts EXCEPT ![a].status = "resolved"]
          /\ commands' = [commands EXCEPT ![m] = "ok"]
          /\ effects' = [effects EXCEPT ![a] = @ + 1]
          /\ pending' = pending
          /\ Accepts(a)
      BY <2>4 DEF Resolve, DieRecorded, SetStatus, Record, Count
    <3>2. IntakeTypeOK'
      BY <2>1, <2>3, <3>1 DEF IntakeTypeOK, AlertStatus
    <3>3. AlertHistory'
      BY <2>1, <2>2, <3>1, IntakeAssumption DEF IntakeTypeOK, AlertHistory, OkMeansDone, Alert
    <3>4. QED BY <3>2, <3>3
  <2>5. CASE DieExecuted(m)
    <3>1. PICK s \in {"resolving", "resolved"} :
             alerts' = [alerts EXCEPT ![a].status = s]
      BY <2>5 DEF DieExecuted, SetStatus
    <3>2. /\ effects' = [effects EXCEPT ![a] = @ + 1]
          /\ UNCHANGED <<pending, commands>>
          /\ Accepts(a)
      BY <2>5 DEF DieExecuted, Count
    <3>3. IntakeTypeOK'
      BY <2>1, <2>3, <3>1, <3>2 DEF IntakeTypeOK, AlertStatus
    <3>4. AlertHistory'
      BY <2>1, <2>2, <3>1, <3>2, IntakeAssumption
      DEF IntakeTypeOK, AlertHistory, OkMeansDone, Alert
    <3>5. QED BY <3>3, <3>4
  <2>6. CASE DieClaimed(m) \/ DieFailed(m)
    <3>1. PICK s \in {"resolving", "open"} : alerts' = [alerts EXCEPT ![a].status = s]
      BY <2>6 DEF DieClaimed, DieFailed, SetStatus
    <3>2. UNCHANGED <<pending, commands, effects>> /\ Accepts(a)
      BY <2>6 DEF DieClaimed, DieFailed
    <3>3. IntakeTypeOK'
      BY <2>3, <3>1, <3>2 DEF IntakeTypeOK, AlertStatus
    <3>4. AlertHistory'
      BY <2>1, <2>2, <3>1, <3>2, IntakeAssumption
      DEF IntakeTypeOK, AlertHistory, OkMeansDone, Alert
    <3>5. QED BY <3>3, <3>4
  <2>7. CASE Refuse(m) \/ Reopen(m)
    <3>1. /\ commands' = [commands EXCEPT ![m] = "refused"]
          /\ commands[m] = "none"
          /\ UNCHANGED <<pending, alerts, effects>>
      BY <2>7 DEF Refuse, Reopen, Record
    <3>2. QED BY <3>1 DEF IntakeTypeOK, AlertHistory, OkMeansDone
  <2>8. QED BY <1>3, <2>4, <2>5, <2>6, <2>7 DEF Command
<1>4. ASSUME Registry \/ UNCHANGED allVars PROVE Rest'
  BY <1>4 DEF Registry, allVars, intakeVars, IntakeTypeOK, AlertHistory, OkMeansDone
<1>5. ASSUME SweepTokens PROVE Rest'
  BY <1>5 DEF SweepTokens, IntakeTypeOK, AlertHistory, OkMeansDone
<1>6. QED BY <1>t, <1>1, <1>2, <1>3, <1>4, <1>5 DEF IntakeNext

----------------------------------------------------------------------------
(* The theorems *)

LEMMA IntakeInvariance == IntakeSpec => []IntakeInv
BY IntakeInvInit, IntakeInvStep, PTL DEF IntakeSpec

\* The intake tables are always well formed; an alert never holds anything but a
\* keyed fingerprint, or none.
THEOREM IntakeTypeCorrect == IntakeSpec => []IntakeTypeOK
<1>1. IntakeInv => IntakeTypeOK
  BY DEF IntakeInv
<1>2. QED BY <1>1, IntakeInvariance, PTL

\* An alert changes trust at most once, for any number of commands that reply to
\* it and any crashes.
THEOREM AlertsResolveOnce == IntakeSpec => []ResolveOnce
<1>1. IntakeInv => ResolveOnce
  BY DEF IntakeInv, AlertHistory, ResolveOnce
<1>2. QED BY <1>1, IntakeInvariance, PTL

\* A command recorded as executed was executed, through its alert and alone.
THEOREM OkIsDone == IntakeSpec => []OkMeansDone
<1>1. IntakeInv => OkMeansDone
  BY DEF IntakeInv, AlertHistory
<1>2. QED BY <1>1, IntakeInvariance, PTL

\* The Discord lane does nothing to the registry that the owner's own line could
\* not do, so every theorem about Spec holds with it: no approval, replay or
\* crash on the way lifts a block or overfills the test cohort.
THEOREM IntakeKeepsManager == IntakeSpec => Spec
<1>1. IntakeInit => Init
  BY DEF IntakeInit
<1>2. IntakeInv /\ [IntakeNext]_allVars => [Next]_vars
  BY RegistryStep DEF IntakeInv
<1>3. QED BY <1>1, <1>2, IntakeInvariance, PTL DEF IntakeSpec, Spec

\* In particular a block is lifted by the owner's unblock alone, which Discord
\* does not offer: no reply to any alert, old or new, undoes it.
THEOREM BlockHoldsInDiscord == IntakeSpec => BlockedUntilUnblocked
BY IntakeKeepsManager, BlockHolds

\* With alerts answered in any order and cut short anywhere, the owner's decisions
\* still add up to a ledger in which grants end on time and the cohort is bounded.
THEOREM LedgerHoldsInDiscord == IntakeSpec => ImplementsLedger
BY IntakeKeepsManager, Implementation

----------------------------------------------------------------------------
(* Whose trust an alert moves *)

\* What a command executes, or dies in, moves one entry of the ledger, and a grant
\* that it gives is bound to the identity the lead was last seen with.
LEMMA ExecuteMoves ==
    ASSUME TypeOK, NEW l \in Leads, NEW m \in Commands,
           \/ Execute(l, ActionOf[m])
           \/ CrashInPromote(l, ActionOf[m].category, ActionOf[m].cohort)
    PROVE  /\ \A b \in Leads \ {l} : EffectiveTrust'[b] = EffectiveTrust[b]
           /\ EffectiveTrust'[l].level = "tier2" /\ EffectiveTrust'[l] # EffectiveTrust[l] =>
                 contacts'[l].fp = identity[l]
<1> DEFINE act == ActionOf[m]
           t == ExpireDue(contacts, now)
<1>a. act.category \in Categories /\ act.cohort \in Cohorts
  BY IntakeAssumption
<1>e. EffectiveTrust \in [Leads -> {EffectiveTrust[b] : b \in Leads}]
  BY DEF EffectiveTrust
<1>1. CASE Promote(l, act.category, act.cohort) \/ CrashInPromote(l, act.category, act.cohort)
  <2>1. Ledger!Promote(l, act.category, act.cohort)
    BY <1>1, <1>a, PromoteRefines
  <2>2. \A b \in Leads \ {l} : EffectiveTrust'[b] = EffectiveTrust[b]
    BY <2>1, <1>e DEF Ledger!Promote
  <2>3. t \in Table
    BY ExpireType DEF TypeOK, ExpireDue
  <2>4. contacts'[l].fp = identity[l]
    <3> DEFINE u == Activate(t, identity, l, act.category, act.cohort, now)
    <3>1. u \in Table
      BY <2>3, <1>a, ActivateType DEF TypeOK
    <3>2. u[l].fp = identity[l]
      BY <2>3 DEF Activate, Table
    <3>3. contacts' = u \/ contacts' = MarkDisclosed(u, l)
      BY <1>1 DEF Promote, CrashInPromote
    <3> HIDE DEF u
    <3>4. QED BY <3>1, <3>2, <3>3 DEF MarkDisclosed, Table, Row
  <2>5. QED BY <2>2, <2>4
<1>2. CASE PromoteAgain(l, act.category, act.cohort)
  <2>1. Ledger!Rest
    BY <1>2, IdleRefines DEF PromoteAgain
  <2>2. QED BY <2>1 DEF Ledger!Rest
<1>3. CASE Downgrade(l)
  <2>1. Ledger!Demote(l)
    BY <1>3, RevokeRefines
  <2>2. EffectiveTrust'[l].level # "tier2"
    BY <2>1, <1>e DEF Ledger!Demote, Ledger!Stranger
  <2>3. QED BY <2>1, <2>2, <1>e DEF Ledger!Demote
<1>4. CASE Block(l)
  <2>1. Ledger!Block(l)
    BY <1>4, RevokeRefines
  <2>2. EffectiveTrust'[l].level # "tier2"
    BY <2>1, <1>e DEF Ledger!Block, Ledger!Barred
  <2>3. QED BY <2>1, <2>2, <1>e DEF Ledger!Block
<1>5. QED BY <1>1, <1>2, <1>3, <1>4 DEF Execute

\* The property of one lead, in one step of the lane.
MovedByOwnAlert(l) ==
    /\ \A m \in Commands : commands'[m] = "refused" => commands[m] = "refused"
    /\ \E a \in Alerts :
          /\ alerts[a].lead = l
          /\ alerts[a].status = "open" /\ alerts'[a].status # "open"
          /\ EffectiveTrust'[l].level = "tier2" =>
                contacts'[l].fp = IF alerts[a].fp # NoFp THEN alerts[a].fp ELSE identity[l]

LEMMA MovesStep ==
    ASSUME IntakeInv, [IntakeNext]_allVars, NEW l \in Leads,
           <<alerts, commands>>' # <<alerts, commands>>,
           EffectiveTrust'[l] # EffectiveTrust[l]
    PROVE  MovedByOwnAlert(l)
<1> USE DEF IntakeInv
<1>1. ASSUME UNCHANGED vars PROVE FALSE
  BY <1>1 DEF vars, EffectiveTrust
<1>2. ASSUME NoChangeCommand PROVE FALSE
  <2>1. Ledger!Rest
    BY <1>2, IdleRefines
  <2>2. QED BY <2>1 DEF Ledger!Rest
<1>3. ASSUME NEW m \in Commands, Command(m) PROVE MovedByOwnAlert(l)
  <2> DEFINE a == RefOf[m]
  <2>1. a \in Alerts /\ alerts[a] \in Alert /\ alerts[a].lead \in Leads
    BY IntakeAssumption DEF IntakeTypeOK, Alert
  <2>2. Resolve(m) \/ DieExecuted(m) \/ DieRecorded(m)
    BY <1>1, <1>2, <1>3 DEF Command, Refuse, Reopen, DieClaimed, DieFailed
  <2>3. \/ Execute(alerts[a].lead, ActionOf[m])
        \/ CrashInPromote(alerts[a].lead, ActionOf[m].category, ActionOf[m].cohort)
    BY <2>2 DEF Resolve, DieExecuted, DieRecorded
  <2>4. alerts[a].lead = l
    BY <2>1, <2>3, ExecuteMoves
  <2>5. Accepts(a)
    BY <2>2 DEF Resolve, DieExecuted, DieRecorded
  <2>6. alerts'[a].status # "open"
    BY <2>1, <2>2 DEF Resolve, DieExecuted, DieRecorded, SetStatus, IntakeTypeOK, Alert
  <2>7. EffectiveTrust'[l].level = "tier2" => contacts'[l].fp = identity[l]
    BY <2>1, <2>3, <2>4, ExecuteMoves
  <2>8. commands' \in {commands, [commands EXCEPT ![m] = "ok"]}
    BY <2>2 DEF Resolve, DieExecuted, DieRecorded, Record
  <2>9. \A n \in Commands : commands'[n] = "refused" => commands[n] = "refused"
    BY <2>8 DEF IntakeTypeOK
  <2>10. QED BY <2>1, <2>4, <2>5, <2>6, <2>7, <2>9 DEF MovedByOwnAlert, Accepts
<1>4. QED
  BY <1>1, <1>3
  DEF IntakeNext, MirrorIntake, MirrorPromoted, ConfirmAlert, SweepTokens, Registry, intakeVars, allVars

\* An alert moves the trust of its own contact only, and gives it to the identity
\* it showed, or, if it showed none, to the one the contact has by then, for any
\* commands, any rotations of the key and any crashes.
THEOREM AlertsMoveTheirOwn == IntakeSpec => AlertMovesItsOwn
<1>1. IntakeInv /\ [IntakeNext]_allVars =>
        [\A l \in Leads :
            /\ <<alerts, commands>>' # <<alerts, commands>>
            /\ EffectiveTrust'[l] # EffectiveTrust[l]
            => /\ \A m \in Commands : commands'[m] = "refused" => commands[m] = "refused"
               /\ \E a \in Alerts :
                     /\ alerts[a].lead = l
                     /\ alerts[a].status = "open" /\ alerts'[a].status # "open"
                     /\ EffectiveTrust'[l].level = "tier2" =>
                           contacts'[l].fp = IF alerts[a].fp # NoFp
                                             THEN alerts[a].fp ELSE identity[l]]_allVars
  BY MovesStep DEF MovedByOwnAlert
<1>2. QED BY <1>1, IntakeInvariance, PTL DEF IntakeSpec, AlertMovesItsOwn

----------------------------------------------------------------------------
(* Which alerts show an identity *)

\* A deployment in which every message that is mirrored to the intake channel has
\* a fingerprint to show: it has a key, every sender has an address, and every
\* category has a channel.
EverythingBound ==
    /\ NoKey \notin Keys
    /\ \A l \in Leads : AddressOf[l] # NoAddress
    /\ Channelled = Categories

\* A grant has one of the categories a promotion can name.
GrantsNamed == \A l \in Leads : contacts[l].status = "active" => contacts[l].category \in Categories

LEMMA GrantsNamedStep ==
    ASSUME TypeOK, GrantsNamed, [Next]_vars
    PROVE  GrantsNamed'
<1> DEFINE t == ExpireDue(contacts, now)
<1>e. ASSUME NEW S
      PROVE  /\ Expire(contacts, S) \in Table
             /\ \A l \in Leads : Expire(contacts, S)[l].status = "active" =>
                    Expire(contacts, S)[l].category \in Categories
  <2>1. Expire(contacts, S) \in Table
    BY ExpireType DEF TypeOK
  <2>2. QED BY <2>1 DEF GrantsNamed, Expire, TypeOK, Table, Row
<1>m. ASSUME NEW u \in Table, NEW N,
             \A l \in Leads : u[l].status = "active" => u[l].category \in Categories
      PROVE  /\ MarkNotified(u, N) \in Table
             /\ \A l \in Leads : MarkNotified(u, N)[l].status = "active" =>
                    MarkNotified(u, N)[l].category \in Categories
  <2>1. MarkNotified(u, N) \in Table
    BY MarkType
  <2>2. QED BY <1>m, <2>1 DEF MarkNotified, Table, Row
<1>t. t \in Table /\ \A l \in Leads : t[l].status = "active" => t[l].category \in Categories
  BY <1>e DEF ExpireDue
<1> HIDE DEF t
<1>1. ASSUME NEW l \in Leads, Inbound(l) \/ CrashInTier2(l) PROVE GrantsNamed'
  <2> DEFINE N == Unnotified(Resolved(l))
             u == MarkNotified(Resolved(l), N)
  <2>1. u \in Table /\ \A m \in Leads : u[m].status = "active" => u[m].category \in Categories
    BY <1>e, <1>m DEF Resolved
  <2> HIDE DEF u
  <2>2. \A m \in Leads : AcceptInbound(u, l, now)[m].status = u[m].status
                      /\ AcceptInbound(u, l, now)[m].category = u[m].category
    BY <2>1 DEF AcceptInbound, Table, Row
  <2>3. contacts' = contacts \/ contacts' = u \/ contacts' = AcceptInbound(u, l, now)
    BY <1>1 DEF Inbound, Tapback, InboundBlocked, InboundTier1, InboundTier2, CrashInTier2, u
  <2>4. QED BY <2>1, <2>2, <2>3 DEF GrantsNamed
<1>2. ASSUME NEW l \in Leads, NEW c \in Categories, NEW h \in Cohorts,
             Promote(l, c, h) \/ CrashInPromote(l, c, h)
      PROVE  GrantsNamed'
  <2> DEFINE u == Activate(t, identity, l, c, h, now)
  <2>1. u \in Table /\ \A m \in Leads : u[m].status = "active" => u[m].category \in Categories
    <3>1. u \in Table
      BY <1>t, ActivateType DEF TypeOK
    <3>2. QED BY <1>t, <3>1 DEF Activate, Table
  <2>2. contacts' = u \/ contacts' = MarkDisclosed(u, l)
    BY <1>2 DEF Promote, CrashInPromote, t
  <2> HIDE DEF u
  <2>3. \A m \in Leads : MarkDisclosed(u, l)[m].status = u[m].status
                      /\ MarkDisclosed(u, l)[m].category = u[m].category
    BY <2>1 DEF MarkDisclosed, Table, Row
  <2>4. QED BY <2>1, <2>2, <2>3 DEF GrantsNamed
<1>3. ASSUME NEW l \in Leads, Downgrade(l) \/ Block(l) \/ Unblock(l) PROVE GrantsNamed'
  <2>1. PICK s \in {"downgraded", "blocked"} :
           \/ contacts' = Deactivate(t, identity, l, s, now)
           \/ contacts' = [t EXCEPT ![l].status = s]
    BY <1>3 DEF Downgrade, Block, Unblock, t
  <2>2. contacts'[l].status # "active" /\ \A m \in Leads \ {l} : contacts'[m] = t[m]
    BY <1>t, <2>1 DEF Deactivate, Table, Row, NoRow
  <2>3. QED BY <1>t, <2>2 DEF GrantsNamed
<1>4. CASE NoChangeCommand \/ Tick \/ (\E k \in Keys : Restart(k)) \/ UNCHANGED vars
  BY <1>4, <1>t DEF NoChangeCommand, Tick, Restart, vars, GrantsNamed, t
<1>5. CASE Sweep
  BY <1>5, <1>t, <1>m DEF Sweep, GrantsNamed, t
<1>6. CASE CrashInExpiry
  BY <1>6, <1>e, <1>m DEF CrashInExpiry, GrantsNamed
<1>7. QED
  BY <1>1, <1>2, <1>3, <1>4, <1>5, <1>6 DEF Next, AdminCommand, Crash

\* Only then does every alert show the identity its command is compared with: the
\* comparison of handle_intake_command is skipped for no alert.
THEOREM AlertsShowIdentity ==
    EverythingBound =>
        (IntakeSpec => [](\A a \in Alerts : alerts[a].status # "none" => alerts[a].fp # NoFp))
<1> SUFFICES ASSUME EverythingBound
             PROVE  IntakeSpec =>
                        [](\A a \in Alerts : alerts[a].status # "none" => alerts[a].fp # NoFp)
  OBVIOUS
<1> DEFINE Shown == /\ GrantsNamed
                    /\ \A p \in pending : p[2] # NoFp
                    /\ \A a \in Alerts : alerts[a].status # "none" => alerts[a].fp # NoFp
<1>1. IntakeInit => Shown
  BY DEF IntakeInit, Init, NoRow, GrantsNamed
<1>2. ASSUME IntakeInv, Shown, [IntakeNext]_allVars PROVE Shown'
  <2>1. GrantsNamed'
    BY <1>2, RegistryStep, GrantsNamedStep DEF IntakeInv
  <2>2. CASE \E l \in Leads : MirrorIntake(l)
    <3>1. PICK l \in Leads : MirrorIntake(l)
      BY <2>2
    <3>2. SenderFp(l) # NoFp
      BY <1>2 DEF SenderFp, Fingerprint, NoFp, EverythingBound, IntakeInv, TypeOK
    <3>3. QED BY <1>2, <2>1, <3>1, <3>2 DEF MirrorIntake
  <2>3. CASE \E l \in Leads : MirrorPromoted(l)
    <3>1. PICK l \in Leads : MirrorPromoted(l)
      BY <2>3
    <3>2. contacts[l].status = "active"
      BY <1>2, <3>1, AcceptedIsOpen DEF MirrorPromoted, InboundTier2, IntakeInv
    <3>3. l \notin Unchannelled
      BY <1>2, <3>2 DEF GrantsNamed, Unchannelled, EverythingBound
    <3>4. QED BY <1>2, <2>1, <3>1, <3>3 DEF MirrorPromoted
  <2>4. CASE \E a \in Alerts, p \in Leads \X Fingerprints : ConfirmAlert(a, p)
    BY <1>2, <2>1, <2>4 DEF ConfirmAlert, IntakeInv, IntakeTypeOK, Alert
  <2>5. CASE SweepTokens \/ Registry \/ UNCHANGED allVars
    BY <1>2, <2>1, <2>5 DEF SweepTokens, Registry, intakeVars, allVars
  <2>6. CASE \E m \in Commands : Command(m)
    <3>1. PICK m \in Commands : Command(m)
      BY <2>6
    <3>2. RefOf[m] \in Alerts /\ (alerts[RefOf[m]].status = "open" \/ alerts' = alerts)
      BY <3>1, IntakeAssumption
      DEF Command, Refuse, Resolve, Reopen, DieClaimed, DieExecuted, DieRecorded, DieFailed,
          Accepts
    <3>3. \/ alerts' = alerts
          \/ \E s \in {"open", "resolving", "resolved"} :
                alerts' = [alerts EXCEPT ![RefOf[m]].status = s]
      BY <3>1
      DEF Command, Refuse, Resolve, Reopen, DieClaimed, DieExecuted, DieRecorded, DieFailed,
          SetStatus
    <3>4. \A a \in Alerts :
             /\ alerts'[a].fp = alerts[a].fp
             /\ alerts'[a].status # "none" => alerts[a].status # "none"
      BY <1>2, <3>2, <3>3 DEF IntakeInv, IntakeTypeOK, Alert
    <3>5. pending' = pending
      <4>1. CASE Refuse(m)
        BY <4>1 DEF Refuse
      <4>2. CASE Resolve(m)
        BY <4>2 DEF Resolve
      <4>3. CASE Reopen(m)
        BY <4>3 DEF Reopen
      <4>4. CASE DieClaimed(m)
        BY <4>4 DEF DieClaimed
      <4>5. CASE DieExecuted(m)
        BY <4>5 DEF DieExecuted
      <4>6. CASE DieRecorded(m)
        BY <4>6 DEF DieRecorded
      <4>7. CASE DieFailed(m)
        BY <4>7 DEF DieFailed
      <4>8. QED BY <3>1, <4>1, <4>2, <4>3, <4>4, <4>5, <4>6, <4>7 DEF Command
    <3>6. \A p \in pending' : p[2] # NoFp
      BY <1>2, <3>5
    <3>7. ASSUME NEW a \in Alerts, alerts'[a].status # "none" PROVE alerts'[a].fp # NoFp
      <4>1. alerts'[a].fp = alerts[a].fp /\ alerts[a].status # "none"
        BY <3>4, <3>7
      <4>2. alerts[a].fp # NoFp
        BY <1>2, <4>1
      <4>3. QED BY <4>1, <4>2
    <3>8. QED BY <2>1, <3>6, <3>7
  <2>7. QED BY <1>2, <2>2, <2>3, <2>4, <2>5, <2>6 DEF IntakeNext
<1>3. Shown => \A a \in Alerts : alerts[a].status # "none" => alerts[a].fp # NoFp
  OBVIOUS
<1> HIDE DEF Shown
<1>4. QED BY <1>1, <1>2, <1>3, IntakeInvariance, PTL DEF IntakeSpec
===============================================================================
