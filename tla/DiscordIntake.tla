----------------------------- MODULE DiscordIntake -----------------------------
(***************************************************************************)
(* The owner's decisions from Discord: a Tier-1 message, or that of a       *)
(* Tier-2 contact whose category has no channel, is mirrored to the intake *)
(* channel as an alert, and a reply to the alert ("approve family",        *)
(* "approve client test", "tier1", "block") is executed once through the   *)
(* registry.  handle_intake_command of discord_routing.py holds the        *)
(* database lock throughout, so a command is one action; it commits five   *)
(* times on the way, and the actions named Die... leave it between two.    *)
(***************************************************************************)
EXTENDS Tier2Manager

CONSTANTS
    Channelled,  \* the categories with a channel: keys of discord.category_channels
    Alerts,    \* ids of the messages posted in the intake channel
    Commands,  \* ids of the owner's command messages, grammatical and addressed
    RefOf,     \* the alert a command message replies to
    ActionOf   \* what it says: [kind, category, cohort]

ASSUME IntakeAssumption ==
    /\ Channelled \subseteq Categories
    /\ RefOf \in [Commands -> Alerts]
    /\ ActionOf \in [Commands -> [kind : {"approve", "tier1", "block"},
                                  category : Categories, cohort : Cohorts]]
    /\ Leads # {}

VARIABLES
    pending,   \* discord_pending_alerts of kind intake: <<lead, fingerprint>>
    alerts,    \* discord_alerts
    commands,  \* discord_commands: the ok flag recorded for a command
    effects    \* history: how often an alert led to a change of trust

intakeVars == <<pending, alerts, commands, effects>>
allVars == <<vars, intakeVars>>

AlertStatus == {"none", "open", "resolving", "resolved"}
Alert == [lead : Leads, fp : Fingerprints, status : AlertStatus]

IntakeTypeOK ==
    /\ pending \subseteq Leads \X Fingerprints
    /\ alerts \in [Alerts -> Alert]
    /\ commands \in [Commands -> {"none", "ok", "refused"}]
    /\ effects \in [Alerts -> Nat]

IntakeInit ==
    /\ Init
    /\ pending = {}
    /\ alerts = [a \in Alerts |->
                    [lead |-> CHOOSE l \in Leads : TRUE, fp |-> NoFp, status |-> "none"]]
    /\ commands = [m \in Commands |-> "none"]
    /\ effects = [a \in Alerts |-> 0]

----------------------------------------------------------------------------
\* Plausible bug: the alert is bound to the raw address of the sender.
BugMirrorIntake(l) ==
    /\ l \notin GroupLeads
    /\ InboundTier1(l)
    /\ pending' = pending \cup {<<l, AddressOf[l]>>}
    /\ UNCHANGED <<alerts, commands, effects>>

\* The mirror of a Tier-1 message reserves a token for its alert
\* (plan_outbound, register_pending_alert).
MirrorIntake(l) ==
    /\ l \notin GroupLeads
    /\ InboundTier1(l)
    /\ pending' = pending \cup {<<l, SenderFp(l)>>}
    /\ UNCHANGED <<alerts, commands, effects>>

\* So does the mirror of a Tier-2 message when the contact's category has no
\* channel of its own.  _handle_tier2 passes no fingerprint for it, whether the
\* deployment has a key or not: the alert shows no identity.
Unchannelled == {l \in Leads : contacts[l].category \notin Channelled}
MirrorPromoted(l) ==
    /\ InboundTier2(l)
    /\ pending' = pending \cup {<<m, NoFp>> : m \in {l} \cap Unchannelled}
    /\ UNCHANGED <<alerts, commands, effects>>

\* confirm_alert_posted: the token becomes an alert under its real message id.
\* A token whose post fails is one never confirmed.
ConfirmAlert(a, p) ==
    /\ p \in pending
    /\ alerts[a].status = "none"
    /\ pending' = pending \ {p}
    /\ alerts' = [alerts EXCEPT ![a] = [lead |-> p[1], fp |-> p[2], status |-> "open"]]
    /\ UNCHANGED <<vars, commands, effects>>

\* The sweeper's pass drops the tokens that have grown too old as well
\* (prune_pending); how old a token is, is not kept.
SweepTokens ==
    /\ Sweep
    /\ pending' \in SUBSET pending
    /\ UNCHANGED <<alerts, commands, effects>>

----------------------------------------------------------------------------
\* Plausible bug: the alert is looked up, its status is not.
BugAccepts(a) ==
    LET l == alerts[a].lead
    IN  /\ alerts[a].status # "none"
        /\ identity[l] # NoFp
        /\ alerts[a].fp # NoFp => identity[l] = alerts[a].fp

\* Plausible bug: the identity the alert was bound to is not looked at again.
BugAcceptsAnyone(a) ==
    /\ alerts[a].status = "open"
    /\ identity[alerts[a].lead] # NoFp

\* The alert is open, and its lead is still known under the same fingerprint; an
\* alert that shows none is not compared.
Accepts(a) ==
    LET l == alerts[a].lead
    IN  /\ alerts[a].status = "open"
        /\ identity[l] # NoFp
        /\ alerts[a].fp # NoFp => identity[l] = alerts[a].fp

\* What handle_admin_command does for the command, when it answers ok.
Execute(l, act) ==
    \/ /\ act.kind = "approve"
       /\ Promote(l, act.category, act.cohort)
             \/ PromoteAgain(l, act.category, act.cohort)
    \/ act.kind = "tier1" /\ Downgrade(l)
    \/ act.kind = "block" /\ Block(l)

\* When it does not: a full cohort, a blocked lead, no grant to take back.
Fails(l, act) ==
    LET t == ExpireDue(contacts, now)
    IN  \/ act.kind = "approve" /\ ~MayPromote(t, identity, key, l, act.cohort)
        \/ act.kind = "tier1" /\ t[l].status # "active"

SetStatus(a, s) == alerts' = [alerts EXCEPT ![a].status = s]
Record(m, ok) == commands' = [commands EXCEPT ![m] = ok]
Count(a) == effects' = [effects EXCEPT ![a] = @ + 1]

\* Every rejection is recorded, so a replay of the command is rejected again.
Refuse(m) ==
    /\ commands[m] = "none"
    /\ ~Accepts(RefOf[m])
    /\ Record(m, "refused")
    /\ UNCHANGED <<vars, pending, alerts, effects>>

\* Claim, execute, resolve, record, disclose.
Resolve(m) ==
    LET a == RefOf[m]
    IN  /\ commands[m] = "none"
        /\ Accepts(a)
        /\ Execute(alerts[a].lead, ActionOf[m])
        /\ SetStatus(a, "resolved")
        /\ Record(m, "ok")
        /\ Count(a)
        /\ UNCHANGED pending

\* Claim, fail, re-open, record.
Reopen(m) ==
    LET a == RefOf[m]
    IN  /\ commands[m] = "none"
        /\ Accepts(a)
        /\ Fails(alerts[a].lead, ActionOf[m])
        /\ NoChangeCommand
        /\ Record(m, "refused")
        /\ UNCHANGED <<pending, alerts, effects>>

----------------------------------------------------------------------------
\* The process dies between two commits of the handler.

\* Plausible bug: the outcome is recorded with the claim, before the execution.
BugDieClaimed(m) ==
    /\ CrashesHappen
    /\ commands[m] = "none"
    /\ Accepts(RefOf[m])
    /\ SetStatus(RefOf[m], "resolving")
    /\ Record(m, "ok")
    /\ UNCHANGED <<vars, pending, effects>>

\* After the claim.  (Within the expiry that follows it: CrashInExpiry.)
DieClaimed(m) ==
    /\ CrashesHappen
    /\ commands[m] = "none"
    /\ Accepts(RefOf[m])
    /\ SetStatus(RefOf[m], "resolving")
    /\ UNCHANGED <<vars, pending, commands, effects>>

\* After the change of trust: before or after the alert is resolved.
DieExecuted(m) ==
    LET a == RefOf[m]
        l == alerts[a].lead
        act == ActionOf[m]
    IN  /\ CrashesHappen
        /\ commands[m] = "none"
        /\ Accepts(a)
        /\ \/ Execute(l, act)
           \/ act.kind = "approve" /\ CrashInPromote(l, act.category, act.cohort)
        /\ sent' = {}
        /\ SetStatus(a, "resolving") \/ SetStatus(a, "resolved")
        /\ Count(a)
        /\ UNCHANGED <<pending, commands>>

\* After the outcome is recorded, around the disclosure.
DieRecorded(m) ==
    LET a == RefOf[m]
    IN  /\ commands[m] = "none"
        /\ Accepts(a)
        /\ ActionOf[m].kind = "approve"
        /\ CrashInPromote(alerts[a].lead, ActionOf[m].category, ActionOf[m].cohort)
        /\ SetStatus(a, "resolved")
        /\ Record(m, "ok")
        /\ Count(a)
        /\ UNCHANGED pending

\* After a failure: before or after the alert is opened again.
DieFailed(m) ==
    LET a == RefOf[m]
    IN  /\ CrashesHappen
        /\ commands[m] = "none"
        /\ Accepts(a)
        /\ Fails(alerts[a].lead, ActionOf[m])
        /\ NoChangeCommand
        /\ SetStatus(a, "resolving") \/ SetStatus(a, "open")
        /\ UNCHANGED <<pending, commands, effects>>

----------------------------------------------------------------------------
Command(m) ==
    \/ Refuse(m) \/ Resolve(m) \/ Reopen(m)
    \/ DieClaimed(m) \/ DieExecuted(m) \/ DieRecorded(m) \/ DieFailed(m)

\* Everything else the registry does.
Registry ==
    /\ \/ \E l \in Leads : Tapback(l) \/ InboundBlocked(l)
       \/ \E l \in GroupLeads : InboundTier1(l)
       \/ AdminCommand \/ Tick \/ Crash
       \/ \E k \in Keys : Restart(k)
    /\ UNCHANGED intakeVars

IntakeNext ==
    \/ \E l \in Leads : MirrorIntake(l) \/ MirrorPromoted(l)
    \/ \E a \in Alerts, p \in Leads \X Fingerprints : ConfirmAlert(a, p)
    \/ \E m \in Commands : Command(m)
    \/ SweepTokens
    \/ Registry

IntakeSpec == IntakeInit /\ [][IntakeNext]_allVars

----------------------------------------------------------------------------
(* Properties *)

\* An alert changes somebody's trust at most once, however many commands reply
\* to it, whatever they fail on and wherever the process dies (docs/DISCORD.md:
\* "Each alert resolves exactly once").
ResolveOnce == \A a \in Alerts : effects[a] <= 1

\* A command recorded as executed was: its alert is resolved, the change it names
\* was made, and no other command was told the same of that alert.
OkMeansDone ==
    \A m \in Commands : commands[m] = "ok" =>
        /\ alerts[RefOf[m]].status = "resolved"
        /\ effects[RefOf[m]] = 1
        /\ \A n \in Commands : commands[n] = "ok" /\ RefOf[n] = RefOf[m] => n = m

\* Through an alert trust moves for the contact it showed and for nobody else, and
\* does not move with a command that is refused.  An alert that showed an identity
\* gives trust to that very identity, whatever the contact has written and the key
\* has become since; one that showed none (a sender without a fingerprint, or a
\* promoted contact whose category has no channel) gives it to the identity the
\* contact has by then (discord_routing.py: handle_intake_command).
AlertMovesItsOwn ==
    [][\A l \in Leads :
          /\ <<alerts, commands>>' # <<alerts, commands>>
          /\ EffectiveTrust'[l] # EffectiveTrust[l]
          => /\ \A m \in Commands : commands'[m] = "refused" => commands[m] = "refused"
             /\ \E a \in Alerts :
                   /\ alerts[a].lead = l
                   /\ alerts[a].status = "open" /\ alerts'[a].status # "open"
                   /\ EffectiveTrust'[l].level = "tier2" =>
                         contacts'[l].fp = IF alerts[a].fp # NoFp
                                           THEN alerts[a].fp ELSE identity[l]]_allVars

\* "An alert with no stored fingerprint -- an unkeyed deployment -- still fails
\* closed for `approve` downstream, which requires the contact hash key"
\* (discord_routing.py: handle_intake_command).  It does not: a keyed deployment
\* raises such alerts too, and approving one puts the contact in Tier 2 under
\* whatever identity it has by then.
UnboundAlertApprovesNobody ==
    [][\A l \in Leads, a \in Alerts :
          /\ alerts[a].lead = l /\ alerts[a].fp = NoFp
          /\ alerts[a].status = "open" /\ alerts'[a].status # "open"
          /\ EffectiveTrust'[l].level = "tier2"
          => EffectiveTrust[l].level = "tier2"]_allVars
===============================================================================
