# Verification of the local-first receptionist

TLA+ modules, TLC configurations and TLAPS proofs for the service under
`src/receptionist/` and its Discord gateway hooks. The code is the reference:
every definition names the lines it translates in `PROJECT.json` ("map").
Paths below are relative to the repository root; `tier2.py`, `app.py`,
`discord_routing.py` and `identity.py` are those of `src/receptionist/`.

## 1. The system

A single process receives signed webhooks (messages of contacts from the
BlueBubbles transport, the owner's commands from the owner's own line or from
Discord), keeps everything in one SQLite connection, and answers or stays
silent according to how far the owner trusts the contact: Tier 1 (anybody, a
canned answer), Tier 2 (promoted by the owner, a conversation with a local
model), Tier 3 (the owner). The HTTP server is threaded; `_db_lock`, one
re-entrant lock, is held by each handler from its first query to its last
commit. There are two exceptions, and both matter here: the reviewed reply
sends without the lock, and a crash (the service unit restarts the process)
leaves whatever had been committed.

| Component | State | Operations | Correct when |
|---|---|---|---|
| Tier-2 registry (`tier2.py`, `identity.py`) | `lead_identity`, `tier2_contacts`, `tier2_context`, `contact_hash_key` | record identity, promote, downgrade, block, unblock, expire, renew, append context | grants end on time, blocks last, the cohort is bounded, trust is bound to the keyed identity, no conversation outlives its grant |
| Inbound handler (`app.py`) | `inbound` | deduplicate, tapback, block check, resolve, Tier 1 / Tier 2 answer, relay | one event is answered and relayed once at most; none is passed over; nobody is answered above their trust |
| Owner commands (`tier2.py`, `app.py`) | none of its own | `tier2`, `tier2-test`, `tier1`, `block`, `unblock`, `tier2-status`; the disclosure | each does what it says, and its read-back is true |
| Sweeper (`app.py`) | none of its own | expire, announce, clean images, seen-checks, prune tokens | every expiry is found, and its announcement tried once |
| Reviewed replies (`app.py`, `discord_routing.py`) | `discord_contact_replies`, `outbound`, the locals of a request thread | authorize, send, record, read back, complete | a command is sent once at most; its outcome is final and worth what the read-back is |
| Per-lead threads (`discord_routing.py`, delivery hook) | `discord_threads`, `discord_pending_alerts` | plan, confirm, record | a contact's messages land in a live thread of its category |
| Discord intake (`discord_routing.py`) | `discord_alerts`, `discord_commands`, `discord_pending_alerts` | register, confirm, command | an alert changes trust once; an outcome recorded as ok is one |
| Owner seen-check (`app.py`) | `owner_seen_checks` | queue, process | one reminder per lead, none after a decision |
| Reply limits (`app.py`, `tier2.py`) | `contact_limits`, day counters of `tier2_contacts` | may reply, record | no window above the daily maximum, no 24 hours above twice that |
| Image quarantine (`tier2.py`, `images.py`) | `tier2_attachments`, `tier2_image_limits`, files | accept, screen, clean up | a file has a row and dies with it; a day's work is bounded |
| Gateway overlay (`integrations/hermes/render_overlay.py`) | patched files and backups | render, apply, verify, roll back | all files or none, never twice; a rollback restores what was there |
| Relay to the owner (`app.py`) | none | one signed post per message or notice | one attempt each |
| Tier-1 classifier, configuration, signatures, ingress shim, model client, HTTP layer, installers | none over time | | |

**Interactions.** The inbound handler, the owner's commands, Discord's and the
sweeper all write the registry. A mirrored message becomes a token
(`discord_pending_alerts`); the gateway posts it and confirms it, which makes
an alert (Tier 1) or a thread binding (Tier 2). A reply to an alert changes the
registry; a `reply ...` in a thread reads the registry and the binding, and
reaches the contact.

**What is hard.** Grants expire lazily, whenever some path happens to call
`expire_due`. A person has one lead id per chat, tied together only by a keyed
fingerprint, which a rotation of the key kills. Handlers commit several times.
Sends time out without saying what happened, and may go out later. Relays fail and
are not repeated. Deliveries repeat. A reviewed
reply lives through any number of other handlers between its authorization and
its outcome. Files and rows are changed one after the other. "hazards" in `PROJECT.json` lists these at their lines.

## 2. The modules

| Module | Models |
|---|---|
| `Tier2Table` | Rows of `tier2_contacts`; the queries and updates of `tier2.py` as operators on them. No state. |
| `Tier2Manager` | The registry and every handler that writes it. |
| `TrustLedger` | The abstract specification: who is trusted now, without tables, fingerprints, lazy expiry or a sweeper. |
| `ReviewedReply` | `Tier2Manager` composed with reviewed replies, request threads and per-lead threads. |
| `ReplyDesk` | The abstract specification of the reply lane: a command is taken in under a grant, goes out at most once and is closed once. |
| `DiscordIntake` | `Tier2Manager` composed with alerts, tokens and the owner's replies to alerts. |
| `InboundPipeline` | One contact's messages and the commands about it, step by step through limits, send, count, settlement, seen-check and relay. |
| `Mailbox` | The abstract specification of `InboundPipeline`: one message in hand at a time, answered under the standing decision, told or lost. |
| `ImageQuarantine` | One contact's images: quota, files, rows, purge and retention. |
| `OverlayApply` | `render_overlay.py` over the files of a Hermes checkout. |
| `MCTier2`, `MCReply`, `MCIntake`, `MCInbound`, `MCQuarantine`, `MCOverlay` | Instances for TLC. |
| `...Proofs` | The theorems about the module of that name. |

`Tier2Manager` is about who is trusted and takes a handler as one action, cut
only where a crash can leave trust half changed. `InboundPipeline` and
`ImageQuarantine` look at the same handlers with the trust reduced to a status
and each commit, call and file write a step of its own.

### Tier2Manager

`contacts` is `tier2_contacts` (status `"none"`: the lead has no row),
`identity` the fingerprint column of `lead_identity`, `context` the number of
turns in `tier2_context`, `key` the process's `contact_hash_key` and `sent`
what the last step sent, or, as `notice_failed`, tried to send: a notice is
marked first, and a relay that fails is swallowed and not repeated
(`Notices`; `app.py:655-659`, `678-684`). A fingerprint is the pair of key and address, so that
two agree exactly when the HMACs do; `NoFp` is the empty one (unkeyed, or
without address).

- `Tapback`, `InboundBlocked`, `InboundTier1`, `InboundTier2` are the returns of
  `_handle_inbound_locked`, each with the identity write before it, the
  expiry inside `resolve_status` (which only a sender with a fingerprint
  reaches) and `notify_tier2_expiries`.
- `Promote`, `Downgrade`, `Block`, `Unblock`, `NoChangeCommand` are
  `handle_admin_command`, which always expires first; `PromoteAgain` names the
  part of the last one that answers "no change".
- `Sweep` is the sweeper's pass, `Restart` a start with another key.
- `CrashInExpiry`, `CrashInPromote`, `CrashInTier2` end a handler after any
  commit that changes these variables.

Abstracted to a choice: the text of a message (category, fast ack, refusal,
model answer, hence 0 or 2 turns), and whether a limit lets the answer out.

`TrustLedger` is implemented under the mapping `TrustOf`: a row that is active
and whose window has not closed is trust; an active row past its window is
none, although the table still says `active`. `Tick` of the ledger removes
grants; `Tick` of the table removes none.

### ReviewedReply

A request thread goes `idle, start, send, record, verify, complete`.
`Authorize` and `Refuse` are `handle_contact_reply`, one critical section;
`Start` and `Send` are outside the lock; `RecordOutbound`, `Verify` and
`Complete` follow. `Die` is a crash at any point: the threads are gone, the
tables stay, and the process may come back with another transport.

*Transports.* `transport` is what `__init__` chose (`app.py:229-237`), and
`Answers` what it may answer: the `stub` always "sent" with an id of its own
(the default, and whenever outbound is disabled and no transport is handed in);
`held`, a transport handed in while outbound is disabled, nothing is sent; the
`bridge` anything. What is handed to the bridge is `inflight` and goes out
(`Arrive`) at any later moment or never, whatever was answered: within the
attempt, after the timeout, after the outcome, after a crash.

*Read-back.* `since[w]` is what the bridge's history holds of the worker's text in its
chat since `started_at_ms`: the command's `own` message, or an `other` one
(`SentElsewhere`: an automatic reply or the owner at the phone; another
command with the same words counts too). With an id only the own message
matches, without one either does (`ReadBack`). The stub finds what it recorded.
The query may fail.

*Threads.* A command belongs to the thread it was written in (`ThreadOf`), as the code
looks the binding up by the command's own `channel_id`. `bound` is the row of
`discord_threads`, `home` the channel a thread really hangs under, `alive` the
threads that exist. `Mirror` is `plan_outbound` with its token, `Post` the gateway's
delivery hook, which reuses the thread named by the plan or makes a new one, and
`ConfirmThread` is `confirm_alert_posted`. A category without a channel makes an
intake alert instead, which is `DiscordIntake`'s.

`ReplyDesk` is implemented with `granted` as the leads whose active row is bound
to the identity last seen, and without threads, so that a delivery that is
refused or repeated, a mirrored message or a thread is a stutter. Its
`Deliver` has no guard on the grant and none on the outcome: the send comes after the
authorization and looks at nothing again, and the text may go out after everything
is noted. What it does promise is that the text goes out once at most, and not if it
was held; that the outcome agrees with the log; and that "verified" has its
words where the transport is asked for them (`Backed`).

### DiscordIntake

`Resolve`, `Reopen` and `Refuse` are the outcomes of
`handle_intake_command`. It commits the claim, the command's own changes, the
resolution, the record and the disclosure one after the other; `DieClaimed`,
`DieExecuted`, `DieRecorded`, `DieFailed` stop between two of them. `effects`
is a history variable: how often an alert changed somebody's trust. Rejections
before the alert is looked up (wrong user, channel, grammar) read only the
message and leave just a record; `Commands` are those that pass them.

An alert is raised by a Tier-1 message (`MirrorIntake`), with the sender's
fingerprint, and by a Tier-2 message of a contact whose category is not in
`Channelled` (`MirrorPromoted`), with an empty one, also in a keyed deployment
(`app.py:591`, `discord_routing.py:145`). For an alert with an empty fingerprint
`Accepts` compares nothing. `config.py:66` has no channels by default.

In this module and in `ReviewedReply`, `SweepTokens` is the sweeper's pass with
its last part, `prune_pending`: any of the tokens may be too old. One that is
pruned is never confirmed, so no alert or binding comes of it.

### InboundPipeline

`job` is what the holder of `_db_lock` is doing: its next step, the event, the
lane, whether the answer is an acknowledgement and whether the transport took
it. A message goes `limit, send, count, settle, queue, relay` or joins later; a
command `log`; a seen-check `remind, close`. `Crash` forgets the job and keeps
the tables `inbound`, `limits`, `grant` and `seen`. `limits` holds both kinds of
window, `contact_limits` (Tier 1) and the day counter of `tier2_contacts`. All
tables are keyed by the lead or the event, so one lead is enough. `attempts`,
`replies`, `told`, `unheard`, `ran`, `reminded` and `lost` are history.

`Duplicate` is the transport's, or the shim's caller's, second delivery: the
shim gives up after 30 seconds and answers 502 while the receptionist goes on.
Which lane's check a message meets is decided when it is received; the text, its
category and what the model says are choices, and so is the fate of every send.

`Mailbox` is implemented with the job reduced to the message it holds. Its owner
decides only while the hand is empty and its clerk answers only in a lane that the
standing decision leaves open: what the lock buys, over all the commits, the
limit and the model call between the lookup of the grant and the send. A seen-check
and a command are stutters or decisions of it, a crash loses what is in hand.

What the code does here, and the module with it:

- `may_reply` opens a new window and returns true without a look at the
  maximum (`tier2.py:573-579`), so a maximum of 0 lets one answer out per window of Tier 2;
  `may_auto_reply` goes on to compare (`app.py:302-303`). `Allowed` is what a window
  of a lane lets through, and the bounds are stated with it, for all maxima.
- A new window forgets the cooldown of the acknowledgement (`app.py:296`).
- Sends that failed or timed out are not counted, although they may have
  arrived. An answer whose send is slow may go out after its window ended.
- A relay that fails is logged and never repeated (`app.py:655`): `Relay` either
  tells the owner or leaves the message `unheard`.
- A command is executed before its event is recorded (`app.py:537`): a crash in
  between and a second delivery run it again, over later orders.
  `RunsOnceUnlessLost` says that nothing else does.
- A crash leaves a seen-check at `sending`, or a message at `pending`, for good.
  `EachRelayTried` says that nothing else keeps a message from one attempt to
  tell the owner. It does not say that he hears of it.

### ImageQuarantine

An image is its content, since the path of a file is the lead and the hash: the
same picture sent twice shares one file. A batch is charged (`TakeBatch`), then
each attachment is skipped, or written, described and kept or discarded
(`Write`, `Keep`, `Discard`). `Deactivate` and `Sweep` select rows, `Unlink`
deletes one file after the other and `Commit` the rows at the end. `Crash`
comes at any step; `orphans` and `interrupted` remember what it left behind,
`worked` counts what was taken in hand since the window of the quota began.

- A crash while the vision model is asked leaves a file without a row, which no
  cleanup finds (`tier2.py:785-794`): the exception in every property here.
- Two rows may share a file. The older one's retention, or a second copy that is
  not described, deletes it for both: images go too early, never too late.

Left out: errors of `unlink`, and the stripping of metadata (bytes). An
attachment is good or `Bad` by choice. The rows born deleted are a log.

### OverlayApply

A file is a generation (the bytes of an update or an edit, what the sha256 tells
apart) and the overlays inserted into it. `Render` writes the hooks one by one
and then looks at the targets and writes the lockfile; `Apply` checks everything
first and then does backup and `os.replace` per target; `Rollback` restores the
newest backup of each. Only the replacement of a target is atomic: the crash
actions may leave half a hook, lockfile, backup or restored target, which is a
generation of its own, or no lockfile. Updates and edits of the checkout come
between commands; edits touch files without an overlay. Backups made within one
second share a name in the code; they are told apart here.

- A render that fails has already written its hooks, though the error text says
  "(no changes made)" (`render_overlay.py:51`); `HooksOfTheOverlay` therefore ends with
  the next render.
- A death during `apply` leaves some targets patched; `AppliedTogether` excepts
  it until another command has run through. A rollback then restores older
  backups for the targets that were not reached, and half a backup if that was
  the newest: `RollbackRestores` speaks of files that have the overlay.

## 3. The runs

Passing runs, TLC explores all states:

| Run | Instance | Shows |
|---|---|---|
| `core` | 2 leads with different addresses, 2 categories, cohort of 1, TTL 2, clock to 3, crashes | `TypeOK`; `CohortCap`; `NoContextWithoutGrant`; `BlockedUntilUnblocked`; `WindowMovedByContact`; `ExpiryToldOnce`; `UndisclosedOnlyByCrash`; `ImplementsLedger` |
| `rotation` | 2 chats of one person, one a group, keys k1, k2 and none, cohort of 1, TTL 1, clock to 1, crashes | `ServedUnderOpenGrant`; `BlockCoversPerson` |
| `expiry` | 2 leads, cohort of 2, TTL 1, clock to 2, no crashes, sweeper fair | `DisclosedBeforeServed`; `ExpiryNoticeTried` |
| `reply` | 1 lead, 1 command in 1 thread, 2 request threads, 3 transports, crashes, two sends possible, threads fair | `ReplyTypeOK`; `AtMostOneSend`; `VerifiedInSource`; `OutcomeIsFinal`; `ImplementsDesk`; `ReplyCompletes` |
| `pipeline` | 3 messages, orders `tier2`, `tier1`, daily maxima 1 and, in Tier 2, 0, cooldown 1, day 2, delay 1, 1 crash or 1 failed relay, clock to 4 | `InboundTypeOK`; `AnsweredOnce`; `TwiceTheLimit`; `RunsOnceUnlessLost`; `EachRelayTried`; `RemindsUndecidedOnce`; `ImplementsMailbox` |
| `quarantine` | 2 images and a bad one, batches of 2, 3 a day, retention 2, day 2, last message at 4, clock to 6, 2 crashes, fair | `QuarantineTypeOK`; `FilesAccountedFor`; `NoImagesWithoutGrant`; `QuotaBoundsWork`; `FilesGo` |
| `overlay` | 2 targets, 2 hooks, 2 configurations, 3 generations, 2 backups a target, 2 crashes | `OverlayTypeOK`; `OneOverlay`; `RollbackRestores`; `AppliedTogether`; `HooksOfTheOverlay` |
| `intake` | 1 lead that writes and a group without address, 1 alert, 3 commands (approve, block, tier1), 1 category without a channel, 2 keys, crashes | `IntakeTypeOK`; `OkMeansDone`; `ResolveOnce`; `AlertMovesItsOwn` |

Why the bounds are enough. Leads interact through the count of the cohort and
through equal fingerprints only: both take two. A cohort of 1 is full after one
promotion and so makes the cap bite. TTL 2 with the clock to 3 has a grant
renewed inside its window, one at its last tick and one past it. Two keys and
none give a binding that is live, dead and live again, and an unkeyed
deployment. Two request threads are all that a race for one command needs. What the
read-back can confuse is another message of the same text, which `SentElsewhere`
supplies; that two commands may be it for each other is left to the theorems, which
take any number of commands with any texts. `MaxSends` = 2 lets
a second send happen, so that `AtMostOneSend` is not a bound in disguise. In
`reply` the clock stands: the lane reads no time, and grants end by the owner's
commands there.
`MaxNow` bounds the clock, `ContextMaxTurns` is the code's own limit. A context
of 0 in `MCReply` and `MCIntake` only drops a variable the lanes do not read.

In `pipeline`, three messages are one more than any 24 hours
may hold in a lane, whether it lets 1 through by its maximum or, with the maximum 0,
by opening its window; the clock runs through two windows of a day of 2, at any
offset to each other. The two orders open the second lane and close it again, and one can be
run twice over the other; a block, which only closes lanes, is left to the proofs, which
take all four. The constraint `OneFailure` ends a behaviour at the second of its
failed relays and crashes: one shows what is not repeated, and the theorems are
without it. In `quarantine`, two images may share a path, be the two of
one batch, or be sent again; 3 a day fills up with a batch and a half; retention
and day end within the clock, and no message comes after 4, so that the sweeper
can be seen to finish. Two crashes let one hit what the other left. In
`overlay`, two targets and two hooks are what can be half done, two
configurations what can be mixed, and the third generation is an update over an
overlay that a backup still remembers. `quarantine` alone turns the deadlock check off: when
the clock has run out and nothing is left to sweep, an active contact whose
quota is used up may have nothing more to do.

Runs in which the code does not do what a text of the repository says (each is
a finding in `PROJECT.json`, with the quotation):

| Run | Property refuted | What happens |
|---|---|---|
| `rebind` | `RepromotionRebinds` | after a key rotation, re-promoting an active contact to its category is a no-change that keeps the dead fingerprint, so the contact stays in Tier 1 although the owner is told it is active |
| `replay` | `RefusedNeverSent` | a refused reply leaves no row: written in a thread before the thread is confirmed, it is refused as `unknown_thread`, and the same delivery is sent once the thread is bound |
| `unbound` | `UnboundAlertApprovesNobody` | with a key, a message of a promoted contact whose category has no channel becomes an alert without a fingerprint; after a downgrade its approval is executed with no identity compared |
| `moved` | `ThreadUnderItsCategory` | after a change of category the old thread is reused and then bound to the new channel; replies in it are refused |

Further divergences met while modelling, which no run carries:

- With outbound disabled the stub answers "sent" and verifies what it recorded
  (`app.py:70-87`, `263`), so a reply that reached nobody is recorded and answered as
  verified. Without an id, another message of the same text verifies a reply as well
  (`app.py:163`). THREAT-MODEL.md:87 has the path require "transport source
  read-back before claiming verified"; `VerifiedInSource` says what the claim is worth.
- `handle_contact_reply` reads the status without `expire_due`
  (`discord_routing.py:378`), so that a reply is authorized under a grant whose
  window is over but which nothing has expired yet; docs/DISCORD.md:71 says "The
  contact must still be active Tier 2".
- `plan_outbound` names a thread or a thread name, never both
  (`discord_routing.py:153-160`), so after a deletion the delivery hook has
  nothing to make a new one with and gives up;
  `delivery_hook.py.tmpl:13` says "else create a fresh thread named
  route.thread_name".
- A crash after the claim of an alert leaves it `resolving`
  (`discord_routing.py:562`); docs/DISCORD.md:59-61 has a command that cannot
  complete re-open the alert.
- `disclosure_sent` is recorded and nothing decides by it, so every new grant
  sends the "one-time" disclosure again (`tier2.py:387`). A crash between
  promotion and disclosure loses it (`app.py:542`), which is why `expiry` runs
  without crashes; `UndisclosedOnlyByCrash` says that nothing else does.
- A change of category within the test cohort restarts the 24 hours
  (`tier2.py:395`), which `WindowMovedByContact` therefore excepts.
- `block` drops the fingerprint it has just looked up when the lead already has
  a row (`tier2.py:464`), so `BlockCoversPerson` speaks of blocks under the
  present key; promoting a second chat of a blocked person sends that person the
  disclosure (`tier2.py:365`), so it speaks of answers.
- docs/TRANSPORT.md:29 calls a repeated event inert; after a crash within a
  command it is not (`app.py:537`). README.md:13 has every conversation relayed;
  one whose relay fails is not (`app.py:655`).
- `images.py:8` has images "retained only after an explicit non-sensitive
  classification"; one that a crash leaves unclassified is retained for good.
- docs/UPDATE-ROLLBACK.md:33 has the overlay never partially applied; a death in
  `apply` applies it partially (`render_overlay.py:206`).

## 4. Fairness

- `FairSpec`: `WF(Sweep)`. `run_sweeper` is a daemon loop that catches every
  exception of a pass and sleeps a fixed time.
- `FairReplySpec`: `WF(Work(w))` per request thread. Sends and queries have
  socket timeouts, and the lock is only held for the length of a handler.
- `FairSpec` of `ImageQuarantine`: `WF(Work)`, `WF(Sweep)`, `WF(Tick)`. The
  holder of the lock goes on, since fetching and the vision model have
  timeouts; the sweeper is as above; retention is a matter of time, so time has
  to pass.

Nobody is assumed to write, command or restart, and in the first two the clock
need not move.

## 5. The proofs

For all finite sets of leads, all addresses, keys, categories and limits, and
all commands, threads, messages, images, files and crashes. Assumptions are
those named in the modules: `TableAssumption`, `ManagerAssumption`,
`ReplyAssumption`, `IntakeAssumption`, `PipelineAssumption`,
`QuarantineAssumption`, `OverlayAssumption`. A theorem that needs more says so
in its own hypotheses: `DisclosureFirst`, `RebindsWithoutRotation`,
`AlertsShowIdentity` and `LedgerPromises` (whose `Sizes` is
`TableAssumption` for the ledger).

- `Tier2ManagerProofs`. `TypeCorrect` is inductive by itself. `CohortWithinCap`
  uses it (the cohort must be a finite set for its cardinality to mean
  something): each step either shrinks the cohort, or is a promotion whose
  guard counted the others. `ContextNeedsGrant`, `BlockHolds` and
  `WindowsMoveByContact` go action by action. `ServesOpenGrants` shows that only
  `InboundTier2` sends a Tier-2 reply and that what `resolve_status` accepts is
  open and bound. `BlocksCoverPersons` needs `RowsBound` as well: no row holds
  the empty fingerprint, so a blocked row is found by the fingerprint of any
  chat of the person. `Implementation` proves `Spec => ImplementsLedger`: every step maps
  to a step or stutter of the ledger under `TrustOf`, given `TypeOK`; the key
  lemma is that expiring what is due changes no effective trust.
- `TrustLedgerProofs`. `LedgerPromises` shows that the ledger is worth
  implementing: temporary grants stand inside their windows, the cohort within
  its places, and what went out last within the trust that stands. Through
  `Implementation`, `NothingBeyondTrust` (in `Tier2ManagerProofs`) reads this in
  the table: `SameLedger` identifies the two instances, and a blocked row or a
  lapsed one is no trust under `TrustOf`.
- `RowsBelongToTheirLead` (in `Tier2ManagerProofs`) rests on `FpsAreOwn`: a row
  keeps its fingerprint or takes the lead's identity (`FpStep`), and an identity
  is replaced by the sender's own alone (`IdentityStep`). With one key the two
  can then not differ, which is `RebindsWithoutRotation`: what run `rebind`
  refutes takes a second key, and neither a crash nor a lost key will do.
- `ReviewedReplyProofs`. `ReplyKeepsManager`: the composed system is a
  `Tier2Manager`, so the theorems above hold of it. `ReplyInv` is the inductive
  invariant: types; the status a thread holds fits its step (`StatusFitsStep`);
  a busy
  thread owns a command that is recorded as authorized, alone
  (`OneThreadPerReply`); until it has sent, nothing of the command is out or on
  its way, and what is on its way is not out (`OutOnce`). `AtMostOneSend` alone
  is not inductive: without these, a second thread could be about to send the
  same command, or a late text go out twice.
  `SendsAtMostOnce` and `OutcomesAreFinal` follow. `VerifiedHasItsSource` takes
  `SourceInv`: what a thread has found in the history is there, what no bridge was
  handed never goes out, and a status "verified" has the evidence its id calls for
  (`Evidence`), which nothing that happens later takes away: late arrivals, other
  commands, other hands or a restart with another transport (`SourceInvGrows`).
  `DeskImplementation` proves `ReplySpec => ImplementsDesk`. It takes `NotedAsItWas`
  as well: what is noted of an attempt is what the thread's status says and nothing
  else, and what was noted as held never goes out. `LedgerHoldsWithReplies` is `Implementation` for the
  larger system.
- `DiscordIntakeProofs`. `IntakeKeepsManager` as above, hence
  `BlockHoldsInDiscord` and `LedgerHoldsInDiscord`. `IntakeInv` adds `AlertHistory`: an open alert has no
  effect yet and no command recorded as ok; any alert has at most one effect.
  `AlertsResolveOnce`, `OkIsDone` and `IntakeTypeCorrect` follow.
  `AlertsMoveTheirOwn` goes through the steps that change an alert or a command
  (`MovesStep`): what such a step executes moves one entry of the ledger, that of
  the alert's lead (`ExecuteMoves`), and gives trust to the identity the lead was
  last seen with, which `Accepts` has just compared with the alert's if that shows
  one. `AlertsShowIdentity` says which deployments raise no other alerts: those with
  a key, an address for every sender and a channel for every category
  (`EverythingBound`).
- `UndisclosedByCrashOnly` (in `Tier2ManagerProofs`): no operation on the table
  makes an undisclosed Tier-2 row of one that was none (`NoFurther`, one lemma per
  operator), save `Activate`, which `Promote` follows with `MarkDisclosed` and
  `CrashInPromote` does not. `DisclosureFirst` is its corollary for a process
  that does not die (`~CrashesHappen`, without which it is false).
- `ExpiryIsToldOnce` (in `Tier2ManagerProofs`): a row that is active, or that is
  not there, never carries the mark of an announcement (`Unannounced`), and every
  notice sets it in the step that tries it, whether its relay succeeds or not. A notice may be
  lost in a crash or with a relay that fails (the mark is committed first) but not repeated.
- `InboundPipelineProofs`. `IInv` says what the job has established at each step
  (`JobOK`): whoever sends or counts found room in the window, and holds a
  message whose row is `pending`. From it follow `InboundTypeCorrect` (counting
  keeps within what a window allows), `MessagesAnsweredOnce`, `RemindedOnce`,
  `OrdersRunOnce`, `EveryRelayIsTried`. `LimitHolds` needs more: the property
  counts messages over an interval that no table knows. `WindowsOK` is its
  inductive form, for every lane and every time `t`: the answers after the start
  of the present window are at most its count; those since a `t` less than a day
  before its start are at most a window's worth more; a day that was over by then has
  its bound for good. Opening a window turns the first clause into the second;
  counting adds one to both sides; an answer sent but not yet counted is kept
  out by `Known`, and fits because `JobOK` left room for it. `LimitWithCrashes`
  adds the answers whose counting a crash prevented. `MailboxImplementation`
  proves `Spec => ImplementsMailbox`; beside `IInv` it takes `HandOK`, that the
  grant under which a message was taken in hand stands as long as it is in hand,
  which holds because `Execute` waits for the lock.
- `ImageQuarantineProofs`. The type invariant carries that what is described has
  a file and what is purged has a row. `FilesAreAccountedFor`, `ImagesNeedGrant`
  and `QuotaHolds` go action by action with what a purge has still to do: its
  files are gone but for `left`; the work of a batch was charged before it began.
- `OverlayApplyProofs`. A running apply has its targets clean and its checks
  still true (nothing else runs meanwhile), from which `NeverTwice`,
  `RollbackIsExact`, `AllOrNone` and `HooksFit` follow.

Model-checked only: `ExpiryNoticeTried`, `ReplyCompletes` and `FilesGo`, since
liveness under fairness and ENABLED are outside what TLAPS proves.

## 6. Not modelled, and why

- The Tier-1 classifier, masking, redaction, prompts, wording and the model
  client: text, whose outcome is a choice in the models.
- `config.py`: validation of one document at start-up; its limits are the
  constants. Signatures and secrets: no behaviour over time.
- HTTP routing and size limits; the ingress shim, but for its timeout
  (`Duplicate`): no state. The gateway's hooks, but for the delivery hook's
  choice of thread: field extraction and forwarding.
- Byte parsing of images; `verify` of the overlay, which reads and prints; the
  installers and the privacy scan, tools run by hand.
- The several modules are not composed into one: what they share, the lock and
  the status of a grant, is in each of them.
- Send-time checks of a reviewed reply: the code has none after the
  authorization, so a block in between does not stop it, and no text says it
  should. `Deliver` of `ReplyDesk` states it that way.
- In `ReviewedReply`: the history is searched whole (the code asks for its 100 newest
  messages, `app.py:141`) and a message is older than an attempt or not (the code
  compares milliseconds); channels of categories are distinct and do not change; two
  tokens for the same lead, category and thread are one. The several reasons of a
  refusal that only read the command (wrong user, guild, grammar) are left out, as is a
  chat id that changed without the fingerprint: a lead id is made from the chat.
- How long the lock is held while the model is asked (`tier2.py:680`): no module
  measures time within a handler.
