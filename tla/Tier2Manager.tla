----------------------------- MODULE Tier2Manager -----------------------------
(***************************************************************************)
(* The Tier-2 state machine of the receptionist: who is trusted, since     *)
(* when, bound to which keyed identity, and which messages that trust lets *)
(* out.  src/receptionist/tier2.py keeps the state; the handlers that      *)
(* drive it are handle_inbound, the owner's admin commands and the sweeper *)
(* of src/receptionist/app.py.  Each of them holds the database lock from  *)
(* its first query to its last commit, so each is one action here; a crash *)
(* (the unit restarts the process) can leave any prefix of the commits,    *)
(* which the actions named Crash... stand for.                             *)
(***************************************************************************)
EXTENDS Tier2Table

CONSTANTS
    GroupLeads,       \* leads whose chat is a group chat
    ContextMaxTurns,  \* tier2.context_max_turns
    CrashesHappen,    \* whether the process may die inside a handler
    MaxNow            \* bound on the clock

ASSUME ManagerAssumption ==
    /\ GroupLeads \subseteq Leads
    /\ ContextMaxTurns \in Nat
    /\ CrashesHappen \in BOOLEAN
    /\ MaxNow \in Nat

VARIABLES
    now,       \* the clock
    key,       \* contact_hash_key of the running process
    identity,  \* lead_identity: the fingerprint last recorded for a lead
    contacts,  \* tier2_contacts
    context,   \* tier2_context: the number of turns kept for a lead
    sent       \* what the last step sent: <<lead, kind>> pairs

vars == <<now, key, identity, contacts, context, sent>>

Kinds == {"tier1", "tier2", "disclosure", "expiry_notice", "notice_failed"}

\* What may come of the notices about S: each is relayed once, and a relay that
\* fails is logged and not repeated (_safe_relay).
Notices(S) ==
    {{<<l, IF l \in heard THEN "expiry_notice" ELSE "notice_failed">> : l \in S} :
        heard \in SUBSET S}

TypeOK ==
    /\ now \in Nat
    /\ key \in Keys
    /\ identity \in Identities
    /\ contacts \in Table
    /\ context \in [Leads -> 0..ContextMaxTurns]
    /\ sent \subseteq Leads \X Kinds

Init ==
    /\ now = 0
    /\ key \in Keys
    /\ identity = [l \in Leads |-> NoFp]
    /\ contacts = [l \in Leads |-> NoRow]
    /\ context = [l \in Leads |-> 0]
    /\ sent = {}

----------------------------------------------------------------------------
\* Inbound messages of contacts: _handle_inbound_locked of app.py.

\* The fingerprint record_lead_identity computes for the sender.
SenderFp(l) == Fingerprint(key, l)

\* Plausible bug: the lookup does not expire first.
BugNoExpiryAtInbound(l) == {}

\* resolve_status runs, and so expires, only for a sender with a fingerprint.
DueAtInbound(l) == IF SenderFp(l) = NoFp THEN {} ELSE Due(contacts, now)
Resolved(l) == Expire(contacts, DueAtInbound(l))

\* Plausible bug: the context is never trimmed.
BugAppend(n, turns) == n + turns

\* append_context, turn by turn, keeps the most recent turns.
Append(n, turns) == IF n + turns > ContextMaxTurns THEN ContextMaxTurns ELSE n + turns

\* A tapback is recorded before the block check and never answered.
Tapback(l) ==
    /\ identity' = RecordIdentity(identity, l, SenderFp(l))
    /\ sent' = {}
    /\ UNCHANGED <<now, key, contacts, context>>

InboundBlocked(l) ==
    /\ IsBlocked(contacts, l, SenderFp(l))
    /\ identity' = RecordIdentity(identity, l, SenderFp(l))
    /\ sent' = {}
    /\ UNCHANGED <<now, key, contacts, context>>

\* A Tier-1 message: the canned answer is sent unless the chat is a group, the
\* text has no category or the contact's reply limit is used up.
InboundTier1(l) ==
    /\ ~IsBlocked(contacts, l, SenderFp(l))
    /\ ~Resolves(Resolved(l), l, SenderFp(l)) \/ l \in GroupLeads
    /\ identity' = RecordIdentity(identity, l, SenderFp(l))
    /\ contacts' = MarkNotified(Resolved(l), Unnotified(Resolved(l)))
    /\ context' = Forget(context, DueAtInbound(l))
    /\ \E answers \in SUBSET {<<m, "tier1">> : m \in {l} \ GroupLeads},
          notices \in Notices(Unnotified(Resolved(l))) : sent' = answers \cup notices
    /\ UNCHANGED <<now, key>>

\* An accepted Tier-2 message renews the grant.  A conversation turn appends the
\* message and the reply to the context; fast acks and images append nothing.
InboundTier2(l) ==
    /\ ~IsBlocked(contacts, l, SenderFp(l))
    /\ Resolves(Resolved(l), l, SenderFp(l))
    /\ l \notin GroupLeads
    /\ identity' = RecordIdentity(identity, l, SenderFp(l))
    /\ contacts' = AcceptInbound(
                      MarkNotified(Resolved(l), Unnotified(Resolved(l))), l, now)
    /\ \E turns \in {0, 2} :
          context' = [Forget(context, DueAtInbound(l)) EXCEPT ![l] = Append(@, turns)]
    /\ \E answers \in SUBSET {<<l, "tier2">>}, notices \in Notices(Unnotified(Resolved(l))) :
          sent' = answers \cup notices
    /\ UNCHANGED <<now, key>>

----------------------------------------------------------------------------
\* Owner commands: handle_admin_command, from the owner's line or from Discord.
\* Every command first expires what is due; the notices wait for the next
\* inbound message or sweep.

Promote(l, c, h) ==
    LET t == ExpireDue(contacts, now)
        first == FirstActivation(t, l)
    IN  /\ MayPromote(t, identity, key, l, h)
        /\ ~SameGrant(t, l, c, h)
        /\ contacts' = IF first
                       THEN MarkDisclosed(Activate(t, identity, l, c, h, now), l)
                       ELSE Activate(t, identity, l, c, h, now)
        /\ context' = Forget(context, Due(contacts, now))
        /\ sent' = IF first THEN {<<l, "disclosure">>} ELSE {}
        /\ UNCHANGED <<now, key, identity>>

Downgrade(l) ==
    LET t == ExpireDue(contacts, now)
    IN  /\ t[l].status = "active"
        /\ contacts' = Deactivate(t, identity, l, "downgraded", now)
        /\ context' = Forget(context, Due(contacts, now) \cup {l})
        /\ sent' = {}
        /\ UNCHANGED <<now, key, identity>>

Block(l) ==
    LET t == ExpireDue(contacts, now)
    IN  /\ identity[l] # NoFp \/ t[l].status # "none"
        /\ contacts' = Deactivate(t, identity, l, "blocked", now)
        /\ context' = Forget(context, Due(contacts, now) \cup {l})
        /\ sent' = {}
        /\ UNCHANGED <<now, key, identity>>

Unblock(l) ==
    LET t == ExpireDue(contacts, now)
    IN  /\ t[l].status = "blocked"
        /\ contacts' = [t EXCEPT ![l].status = "downgraded"]
        /\ context' = Forget(context, Due(contacts, now))
        /\ sent' = {}
        /\ UNCHANGED <<now, key, identity>>

\* tier2-status, a command that fails, and the promotion that changes nothing
\* have only the expiry in common with the ones above.
NoChangeCommand ==
    /\ contacts' = ExpireDue(contacts, now)
    /\ context' = Forget(context, Due(contacts, now))
    /\ sent' = {}
    /\ UNCHANGED <<now, key, identity>>

\* The promotion that changes nothing: a NoChangeCommand, answered "ok".
PromoteAgain(l, c, h) ==
    LET t == ExpireDue(contacts, now)
    IN  /\ MayPromote(t, identity, key, l, h)
        /\ SameGrant(t, l, c, h)
        /\ NoChangeCommand

----------------------------------------------------------------------------
\* The sweeper thread, the clock and the process.

\* Plausible bug: the pass that expires relays no notice.
BugSweepQuiet ==
    /\ contacts' = ExpireDue(contacts, now)
    /\ context' = Forget(context, Due(contacts, now))
    /\ sent' = {}
    /\ UNCHANGED <<now, key, identity>>

Sweep ==
    LET t == ExpireDue(contacts, now)
    IN  /\ contacts' = MarkNotified(t, Unnotified(t))
        /\ context' = Forget(context, Due(contacts, now))
        /\ sent' \in Notices(Unnotified(t))
        /\ UNCHANGED <<now, key, identity>>

Tick ==
    /\ now < MaxNow
    /\ now' = now + 1
    /\ sent' = {}
    /\ UNCHANGED <<key, identity, contacts, context>>

\* A restart may bring a new contact_hash_key (secret rotation).
Restart(k) ==
    /\ k # key
    /\ key' = k
    /\ sent' = {}
    /\ UNCHANGED <<now, identity, contacts, context>>

\* The process dies among the commits all handlers begin with: one per lead
\* expired (in no order), then one per notice, each marked before it is sent.
CrashInExpiry ==
    /\ CrashesHappen
    /\ \E S \in SUBSET Due(contacts, now) :
       \E N \in SUBSET Unnotified(Expire(contacts, S)) :
          /\ N # {} => S = Due(contacts, now)
          /\ contacts' = MarkNotified(Expire(contacts, S), N)
          /\ context' = Forget(context, S)
          /\ \E M \in {N} \cup {N \ {m} : m \in N} : sent' \in Notices(M)
    /\ UNCHANGED <<now, key, identity>>

\* It dies after the promotion's commit and before mark_disclosure_sent.
CrashInPromote(l, c, h) ==
    LET t == ExpireDue(contacts, now)
    IN  /\ CrashesHappen
        /\ MayPromote(t, identity, key, l, h)
        /\ ~SameGrant(t, l, c, h)
        /\ FirstActivation(t, l)
        /\ contacts' = Activate(t, identity, l, c, h, now)
        /\ context' = Forget(context, Due(contacts, now))
        /\ sent' \in SUBSET {<<l, "disclosure">>}
        /\ UNCHANGED <<now, key, identity>>

\* It dies after accept_inbound, or between the two appends of a turn.
CrashInTier2(l) ==
    /\ CrashesHappen
    /\ ~IsBlocked(contacts, l, SenderFp(l))
    /\ Resolves(Resolved(l), l, SenderFp(l))
    /\ l \notin GroupLeads
    /\ identity' = RecordIdentity(identity, l, SenderFp(l))
    /\ contacts' = AcceptInbound(
                      MarkNotified(Resolved(l), Unnotified(Resolved(l))), l, now)
    /\ \E turns \in {0, 1} :
          context' = [Forget(context, DueAtInbound(l)) EXCEPT ![l] = Append(@, turns)]
    /\ sent' \in Notices(Unnotified(Resolved(l)))
    /\ UNCHANGED <<now, key>>

----------------------------------------------------------------------------
Inbound(l) ==
    Tapback(l) \/ InboundBlocked(l) \/ InboundTier1(l) \/ InboundTier2(l)

AdminCommand ==
    \/ \E l \in Leads, c \in Categories, h \in Cohorts : Promote(l, c, h)
    \/ \E l \in Leads : Downgrade(l) \/ Block(l) \/ Unblock(l)
    \/ NoChangeCommand

Crash ==
    \/ CrashInExpiry
    \/ \E l \in Leads, c \in Categories, h \in Cohorts : CrashInPromote(l, c, h)
    \/ \E l \in Leads : CrashInTier2(l)

Next ==
    \/ \E l \in Leads : Inbound(l)
    \/ AdminCommand
    \/ Sweep
    \/ Tick
    \/ \E k \in Keys : Restart(k)
    \/ Crash

Spec == Init /\ [][Next]_vars

\* The sweeper is a daemon thread that catches every exception and runs again
\* after each pause, so a pass is always made in the end.
FairSpec == Spec /\ WF_vars(Sweep)

----------------------------------------------------------------------------
(* Properties *)

\* Never more than test_cohort_max contacts hold a temporary grant at once,
\* whatever mix of promotions, category changes, expiries and crashes led here
\* (tier2.py: the count in handle_admin_command, behind expire_due).
CohortCap == Cardinality(ActiveTest(contacts)) <= TestCohortMax

\* No turn of a conversation outlives the grant it was held under, so a contact
\* promoted again never has an earlier conversation shown to the model
\* (tier2.py: the DELETE in _deactivate and in expire_due).
NoContextWithoutGrant ==
    \A l \in Leads : context[l] > 0 => contacts[l].status = "active"

\* A Tier-2 reply is only ever sent on the strength of a grant that was open at
\* that moment and bound to the very fingerprint the sender has now: an expiry
\* nobody has swept yet, or a row bound under another key, serves nobody
\* (tier2.py: resolve_status).
ServedUnderOpenGrant ==
    [][\A l \in Leads : <<l, "tier2">> \in sent' =>
          /\ contacts[l].status = "active"
          /\ l \notin Due(contacts, now)
          /\ contacts[l].fp = Fingerprint(key, l)
          /\ AddressOf[l] # NoAddress]_vars

\* While any chat of a person is blocked, no message of theirs is answered in
\* any chat, as long as the key the block was recorded under is in use
\* (tier2.py: is_blocked; docs/OPERATOR-GUIDE.md: "total silence").
BlockCoversPerson ==
    [][\A l, m \in Leads :
          /\ contacts[m].status = "blocked"
          /\ contacts[m].fp = Fingerprint(key, m)
          /\ AddressOf[l] = AddressOf[m]
          => <<l, "tier1">> \notin sent' /\ <<l, "tier2">> \notin sent']_vars

\* The window of an open temporary grant moves for a message of the contact, or
\* for a promotion that changes the category; repeating the promotion, messages
\* of others, sweeps and crashes leave it where it was (ARCHITECTURE.md: "admin
\* traffic never extend a temporary grant", which a change of category does).
WindowMovedByContact ==
    [][\A l \in ActiveTest(contacts) \ Due(contacts, now) :
          /\ contacts'[l].status = "active" /\ contacts'[l].cohort = "test"
          /\ contacts'[l].last # contacts[l].last
          => \/ contacts'[l].category # contacts[l].category
             \/ InboundTier2(l)
             \/ CrashInTier2(l)]_vars

\* A block is lifted by the owner's unblock and leads to Tier 1: no expiry,
\* sweep, promotion, restart or message takes a contact out of it any other way,
\* and the way back to Tier 2 is a second command.
BlockedUntilUnblocked ==
    [][\A l \in Leads : contacts[l].status = "blocked" =>
          contacts'[l].status = "blocked" \/ Unblock(l)]_vars

\* The disclosure has been sent, or at least tried, before the first Tier-2
\* reply of a grant (app.py: send_disclosure in _handle_tier3).
DisclosedBeforeServed ==
    [][\A l \in Leads : <<l, "tier2">> \in sent' => contacts[l].disclosed]_vars

\* A grant the contact has not been told of comes of one thing only: the process
\* died between the promotion that opened it and mark_disclosure_sent.  No expiry,
\* block, change of category or later grant, in any order, leads there, and no
\* step takes the mark back from a grant that had it (app.py: _handle_tier3).
Undisclosed(r) == r.status = "active" /\ ~r.disclosed
UndisclosedOnlyByCrash ==
    [][\A l \in Leads : Undisclosed(contacts'[l]) =>
          \/ Undisclosed(contacts[l])
          \/ \E c \in Categories, h \in Cohorts : CrashInPromote(l, c, h)]_vars

\* After a rotation of the key the owner restores a contact by promoting it again
\* (docs/OPERATOR-GUIDE.md: "Old fingerprints become invalid, so re-promote
\* active Tier-2 contacts").  Promoting to the category it has is answered "ok"
\* and leaves the dead fingerprint in the row.
RepromotionRebinds ==
    [][\A l \in Leads, c \in Categories, h \in Cohorts :
          PromoteAgain(l, c, h) => contacts'[l].fp = identity[l]]_vars

\* An expiry is marked before its notice is relayed, so that a crash or a relay
\* that fails may lose the notice (app.py: notify_tier2_expiries), but none is
\* tried again, whichever of the messages, commands and sweeps find the expiry:
\* one try at most for a grant that time has ended, until there is a new grant.
NoticeTried(l, out) == <<l, "expiry_notice">> \in out \/ <<l, "notice_failed">> \in out
ExpiryToldOnce ==
    [][\A l \in Leads :
          /\ NoticeTried(l, sent') =>
                /\ contacts[l].status = "expired" \/ l \in Due(contacts, now)
                /\ ~contacts[l].notified
                /\ contacts'[l].notified
          /\ contacts[l].notified /\ ~contacts'[l].notified =>
                contacts'[l].status = "active"]_vars

\* Every temporary grant whose window closes is revoked and the relay of its
\* notice to the owner attempted, unless the owner has decided about the contact
\* in between (app.py: sweep, notify_tier2_expiries).  That he hears of it is not
\* promised: a relay may fail, and is not repeated.
ExpiryNoticeTried ==
    \A l \in Leads :
        l \in Due(contacts, now) ~>
            \/ NoticeTried(l, sent)
            \/ contacts[l].status # "expired" /\ l \notin Due(contacts, now)

\* The lazily expired table implements the ledger in which grants end on time.
TrustOf(r, n) ==
    IF r.status = "blocked" THEN [level |-> "blocked"]
    ELSE IF r.status = "active" /\ ~(r.cohort = "test" /\ r.last + TestTTL <= n)
    THEN [level |-> "tier2", category |-> r.category, cohort |-> r.cohort,
          renewed |-> r.last]
    ELSE [level |-> "tier1"]
EffectiveTrust == [l \in Leads |-> TrustOf(contacts[l], now)]
Outbound == {e \in sent : e[2] \notin {"expiry_notice", "notice_failed"}}

Ledger == INSTANCE TrustLedger WITH
    clock <- now, trust <- EffectiveTrust, out <- Outbound

ImplementsLedger == Ledger!Spec
===============================================================================
