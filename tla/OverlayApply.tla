----------------------------- MODULE OverlayApply -----------------------------
(***************************************************************************)
(* The overlay tool of integrations/hermes/render_overlay.py: render,      *)
(* apply and rollback over the files of a Hermes checkout.  Each command   *)
(* is a run of file writes, one step here each, and can die at any of      *)
(* them; only apply's replacement of a target is atomic, every other file  *)
(* may be left half-written.  The checkout is changed by its own updates   *)
(* and by hand as well, though not in the middle of a command.             *)
(*                                                                         *)
(* What a file holds is a generation, which stands for the bytes that came *)
(* with an update or an edit (so it is what the sha256 tells apart), and   *)
(* the overlays inserted into them, each with the configuration it was     *)
(* rendered for.  A half-written file is a generation of its own.  verify  *)
(* only reads and is left out.                                             *)
(***************************************************************************)
EXTENDS Integers, Sequences, FiniteSets

CONSTANTS
    Targets,     \* files of the gateway that get an insertion
    Hooks,       \* rendered hook modules
    Configs,     \* configurations render is called with
    None,        \* a hook that is missing or half-written
    MaxGen,      \* bound on generations
    MaxBackups,  \* bound on the backups of a target
    MaxCrashes   \* bound on the crashes

ASSUME OverlayAssumption ==
    /\ None \notin Configs
    /\ MaxGen \in Nat
    /\ MaxBackups \in Nat
    /\ MaxCrashes \in Nat

VARIABLES
    target,   \* content of each target file
    backups,  \* its .overlay-backup-<seconds> files, oldest first
    hooks,    \* configuration each file in rendered/ was written for
    lock,     \* overlay.lock.json
    step,     \* what the running command is doing
    cfg,      \* the configuration it works with
    todo,     \* hooks or targets it has still to write
    fresh,    \* generations so far
    crashes,  \* crashes so far
    \* History, which no step reads:
    cut,      \* apply or rollback died, and neither has run through since
    stale     \* render was started after the last apply passed its checks

checkout == <<target, backups>>
rendered == <<hooks, lock>>
command == <<step, cfg, todo>>
counters == <<fresh, crashes>>
vars == <<checkout, rendered, command, counters, cut, stale>>

Content == [gen: Nat, ins: Seq(Configs)]
Clean(c) == c.ins = <<>>
Backups == {s \in Seq(Content) : \A i \in 1..Len(s) : Clean(s[i])}
New == [gen |-> fresh, ins |-> <<>>]

\* No lockfile, or half of one, which is not JSON: apply refuses either.
NoLock == [cfg |-> None, seen |-> <<>>]
Lock == [cfg: Configs, seen: [Targets -> Content]] \cup {NoLock}

Free == step = "idle"

\* The files are well formed, and no backup holds an overlay.
OverlayTypeOK ==
    /\ target \in [Targets -> Content]
    /\ backups \in [Targets -> Backups]
    /\ hooks \in [Hooks -> Configs \cup {None}]
    /\ lock \in Lock
    /\ step \in {"idle", "render", "apply", "rollback"}
    /\ cfg \in Configs \cup {None}
    /\ step \in {"render", "apply"} => cfg \in Configs
    /\ todo \subseteq (IF step = "render" THEN Hooks ELSE Targets)
    /\ fresh \in Nat
    /\ crashes \in Nat
    /\ cut \in BOOLEAN
    /\ stale \in BOOLEAN

Init ==
    /\ target = [t \in Targets |-> [gen |-> 0, ins |-> <<>>]]
    /\ backups = [t \in Targets |-> <<>>]
    /\ hooks = [h \in Hooks |-> None]
    /\ lock = NoLock
    /\ step = "idle"
    /\ cfg = None
    /\ todo = {}
    /\ fresh = 1
    /\ crashes = 0
    /\ cut = FALSE
    /\ stale = TRUE

----------------------------------------------------------------------------
\* render

\* With a configuration that is valid; another one is refused here.
Render(c) ==
    /\ Free
    /\ step' = "render"
    /\ cfg' = c
    /\ todo' = Hooks
    /\ stale' = TRUE
    /\ UNCHANGED <<checkout, rendered, counters, cut>>

WriteHook ==
    /\ step = "render"
    /\ \E h \in todo :
          /\ hooks' = [hooks EXCEPT ![h] = cfg]
          /\ todo' = todo \ {h}
    /\ UNCHANGED <<checkout, lock, step, cfg, counters, cut, stale>>

\* Only now are the targets looked at, whatever they hold; a file that is missing
\* or has no single anchor fails the command, and the hooks stay as they are.
WriteLock ==
    /\ step = "render"
    /\ todo = {}
    /\ lock' \in {lock, [cfg |-> cfg, seen |-> target]}
    /\ step' = "idle"
    /\ UNCHANGED <<checkout, hooks, cfg, todo, counters, cut, stale>>

----------------------------------------------------------------------------
\* apply

\* Plausible bug: no look at the hooks, which render has just written.
BugHooksMatch == TRUE

HooksMatch == \A h \in Hooks : hooks[h] = lock.cfg

\* Plausible bug: the hash is held to be enough.
BugUnmarked(t) == TRUE

Unmarked(t) == Clean(target[t])

Passes(t) == target[t] = lock.seen[t] /\ Unmarked(t)

\* Plausible bug: a target that fails is skipped.
BugStaged == {t \in Targets : Passes(t)}

\* A target that fails, fails the command, before anything is written.
Staged == IF \A t \in Targets : Passes(t) THEN Targets ELSE {}

Apply ==
    /\ Free
    /\ lock # NoLock
    /\ HooksMatch
    /\ Staged # {}
    /\ \A t \in Targets : Len(backups[t]) < MaxBackups
    /\ step' = "apply"
    /\ cfg' = lock.cfg
    /\ todo' = Staged
    /\ stale' = FALSE
    /\ UNCHANGED <<checkout, rendered, counters, cut>>

\* Plausible bug: the backup is taken of what is about to be written.
BugSaved(t) == Append(backups[t], [target[t] EXCEPT !.ins = Append(@, cfg)])

Saved(t) == Append(backups[t], target[t])

\* One target: a backup, a temporary file, and os.replace.
ApplyTarget ==
    /\ step = "apply"
    /\ \E t \in todo :
          /\ backups' = [backups EXCEPT ![t] = Saved(t)]
          /\ target' = [target EXCEPT ![t].ins = Append(@, cfg)]
          /\ todo' = todo \ {t}
    /\ UNCHANGED <<rendered, step, cfg, counters, cut, stale>>

----------------------------------------------------------------------------
\* rollback

\* Plausible bug: the first of the sorted backups, not the last.
BugLatest(t) == backups[t][1]

Latest(t) == backups[t][Len(backups[t])]

Rollback ==
    /\ Free
    /\ step' = "rollback"
    /\ todo' = Targets
    /\ UNCHANGED <<checkout, rendered, cfg, counters, cut, stale>>

\* A target without a backup is left as it is; nothing else is asked of it.
RestoreTarget ==
    /\ step = "rollback"
    /\ \E t \in todo :
          /\ target' = IF backups[t] = <<>> THEN target ELSE [target EXCEPT ![t] = Latest(t)]
          /\ todo' = todo \ {t}
    /\ UNCHANGED <<backups, rendered, step, cfg, counters, cut, stale>>

\* Either command has been through all its targets.
End ==
    /\ step \in {"apply", "rollback"}
    /\ todo = {}
    /\ step' = "idle"
    /\ cut' = FALSE
    /\ UNCHANGED <<checkout, rendered, cfg, todo, counters, stale>>

----------------------------------------------------------------------------
\* What else happens to the files.

\* Hermes is updated: its files are as its repository has them.
Update ==
    /\ Free
    /\ fresh < MaxGen
    /\ target' = [t \in Targets |-> New]
    /\ fresh' = fresh + 1
    /\ cut' = FALSE
    /\ UNCHANGED <<backups, rendered, command, crashes, stale>>

\* A file without an overlay is edited.
Edit(t) ==
    /\ Free
    /\ fresh < MaxGen
    /\ Clean(target[t])
    /\ target' = [target EXCEPT ![t] = New]
    /\ fresh' = fresh + 1
    /\ UNCHANGED <<backups, rendered, command, crashes, cut, stale>>

Dies ==
    /\ ~Free
    /\ crashes < MaxCrashes
    /\ crashes' = crashes + 1
    /\ step' = "idle"
    /\ todo' = {}
    /\ UNCHANGED <<cfg, stale>>

\* Between two writes, or with half a hook or half a lockfile.
CrashInRender ==
    /\ step = "render"
    /\ Dies
    /\ \/ UNCHANGED rendered
       \/ \E h \in todo : hooks' = [hooks EXCEPT ![h] = None] /\ UNCHANGED lock
       \/ todo = {} /\ lock' = NoLock /\ UNCHANGED hooks
    /\ UNCHANGED <<checkout, fresh, cut>>

\* Between two targets, or with a backup, or half of one, but no replacement.
CrashInApply ==
    /\ step = "apply"
    /\ Dies
    /\ cut' = TRUE
    /\ \/ UNCHANGED <<backups, fresh>>
       \/ \E t \in todo : backups' = [backups EXCEPT ![t] = Saved(t)] /\ UNCHANGED fresh
       \/ \E t \in todo : backups' = [backups EXCEPT ![t] = Append(@, New)] /\ fresh' = fresh + 1
    /\ UNCHANGED <<target, rendered>>

\* Between two targets, or with half a target.
CrashInRollback ==
    /\ step = "rollback"
    /\ Dies
    /\ cut' = TRUE
    /\ \/ UNCHANGED <<target, fresh>>
       \/ \E t \in todo :
             /\ backups[t] # <<>>
             /\ target' = [target EXCEPT ![t] = New]
             /\ fresh' = fresh + 1
    /\ UNCHANGED <<backups, rendered>>

Next ==
    \/ \E c \in Configs : Render(c)
    \/ WriteHook
    \/ WriteLock
    \/ Apply
    \/ ApplyTarget
    \/ Rollback
    \/ RestoreTarget
    \/ End
    \/ Update
    \/ \E t \in Targets : Edit(t)
    \/ CrashInRender
    \/ CrashInApply
    \/ CrashInRollback

Spec == Init /\ [][Next]_vars

----------------------------------------------------------------------------
\* Properties.

\* Whatever is rendered, applied, cut short and rolled back: no file ever gets a
\* second insertion.
OneOverlay == \A t \in Targets : Len(target[t].ins) <= 1

\* The backup that rollback picks for a file with an overlay is that very file
\* without it, and whole.
RollbackRestores ==
    \A t \in Targets :
        ~Clean(target[t]) =>
            /\ backups[t] # <<>>
            /\ Latest(t) = [target[t] EXCEPT !.ins = <<>>]

\* The overlay is on every file or on none, unless a command died; then another
\* rollback that runs through puts it right.
AppliedTogether ==
    Free /\ ~cut => \A t, u \in Targets : Clean(target[t]) <=> Clean(target[u])

\* Until the next render, what was inserted and the hooks it calls are of one
\* configuration: not those of a render that failed after writing its hooks.
HooksOfTheOverlay ==
    ~stale => \A t \in Targets, h \in Hooks :
        ~Clean(target[t]) => target[t].ins = <<hooks[h]>>

=============================================================================
