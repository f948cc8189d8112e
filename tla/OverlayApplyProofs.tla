-------------------------- MODULE OverlayApplyProofs --------------------------
(***************************************************************************)
(* What the overlay tool promises for any targets, hooks, configurations,  *)
(* updates and crashes.                                                    *)
(***************************************************************************)
EXTENDS OverlayApply, SequenceTheorems, TLAPS

\* apply starts from clean targets and hooks of its configuration.
ApplyOK ==
    step = "apply" =>
        /\ \A t \in todo : Clean(target[t])
        /\ \A t \in Targets \ todo : target[t].ins = <<cfg>>
        /\ \A h \in Hooks : hooks[h] = cfg

\* rollback leaves every target clean that it is done with.
RollbackOK == step = "rollback" => \A t \in Targets \ todo : Clean(target[t])

\* The targets agree while no command that writes them is running or was cut.
Agree ==
    step \in {"idle", "render"} /\ ~cut =>
        \A t, u \in Targets : Clean(target[t]) <=> Clean(target[u])

\* The hooks are those of the overlay, which only a render can change.
HooksOK == HooksOfTheOverlay /\ (step = "render" => stale)

IInv ==
    /\ OverlayTypeOK
    /\ OneOverlay
    /\ RollbackRestores
    /\ ApplyOK
    /\ RollbackOK
    /\ Agree
    /\ HooksOK

----------------------------------------------------------------------------


LEMMA NewType ==
    ASSUME fresh \in Nat PROVE New \in Content /\ Clean(New)
BY DEF New, Content, Clean

\* A backup added to clean ones is the latest of clean ones.
LEMMA AppendType ==
    ASSUME NEW s \in Backups, NEW c \in Content, Clean(c)
    PROVE  /\ Append(s, c) \in Backups
           /\ Append(s, c) # <<>>
           /\ Append(s, c)[Len(Append(s, c))] = c
<1>1. s \in Seq(Content) /\ \A i \in 1..Len(s) : Clean(s[i])
  BY DEF Backups
<1>2. /\ Append(s, c) \in Seq(Content)
      /\ Append(s, c) # <<>>
      /\ Len(Append(s, c)) = Len(s) + 1
      /\ \A i \in 1..Len(s) : Append(s, c)[i] = s[i]
      /\ Append(s, c)[Len(s) + 1] = c
  BY <1>1, AppendProperties
<1>3. \A i \in 1..Len(Append(s, c)) : Clean(Append(s, c)[i])
  BY <1>1, <1>2
<1> QED
  BY <1>1, <1>2, <1>3 DEF Backups

LEMMA LatestType ==
    ASSUME NEW s \in Backups, s # <<>>
    PROVE  s[Len(s)] \in Content /\ Clean(s[Len(s)])
BY DEF Backups

\* A clean file with an overlay inserted, and with it taken out again.
LEMMA InsertType ==
    ASSUME NEW c \in Content, Clean(c), NEW g \in Configs
    PROVE  /\ [c EXCEPT !.ins = Append(@, g)] \in Content
           /\ [c EXCEPT !.ins = Append(@, g)].ins = <<g>>
           /\ ~Clean([c EXCEPT !.ins = Append(@, g)])
           /\ [[c EXCEPT !.ins = Append(@, g)] EXCEPT !.ins = <<>>] = c
<1>1. c.ins = <<>> /\ c.gen \in Nat /\ c = [gen |-> c.gen, ins |-> c.ins]
  BY DEF Content, Clean
<1>2. Append(c.ins, g) = <<g>> /\ <<g>> \in Seq(Configs) /\ <<g>> # <<>>
  BY <1>1
<1>3. [c EXCEPT !.ins = Append(@, g)] = [gen |-> c.gen, ins |-> <<g>>]
  BY <1>1, <1>2
<1> QED
  BY <1>1, <1>2, <1>3 DEF Content, Clean

\* What the step of apply for one target does.
LEMMA ApplyTargetDoes ==
    ASSUME OverlayTypeOK, ApplyOK, ApplyTarget
    PROVE  \E t \in todo :
              /\ t \in Targets /\ target[t] \in Content /\ Clean(target[t])
              /\ cfg \in Configs
              /\ target' = [target EXCEPT ![t] = [target[t] EXCEPT !.ins = Append(@, cfg)]]
              /\ backups' = [backups EXCEPT ![t] = Append(backups[t], target[t])]
              /\ todo' = todo \ {t}
              /\ step = "apply" /\ step' = "apply"
BY DEF OverlayTypeOK, ApplyOK, ApplyTarget, Saved, command

LEMMA TypeKept ==
    ASSUME OverlayTypeOK, ApplyOK, Next PROVE OverlayTypeOK'
<1> USE OverlayAssumption DEF OverlayTypeOK, ApplyOK, Free, checkout, rendered,
        command, counters
<1>1. ASSUME NEW c \in Configs, Render(c) PROVE OverlayTypeOK'
  BY <1>1 DEF Render
<1>2. CASE WriteHook
  BY <1>2 DEF WriteHook
<1>3. CASE WriteLock
  <2>1. step = "render" /\ lock' \in {lock, [cfg |-> cfg, seen |-> target]}
    BY <1>3 DEF WriteLock
  <2>2. lock' \in Lock
    BY <2>1 DEF Lock
  <2> QED
    BY <1>3, <2>2 DEF WriteLock
<1>4. CASE Apply
  <2>1. lock.cfg \in Configs
    BY <1>4 DEF Apply, Lock
  <2>2. Staged \subseteq Targets
    BY DEF Staged
  <2> QED
    BY <1>4, <2>1, <2>2 DEF Apply
<1>5. CASE ApplyTarget
  <2>1. PICK t \in todo :
          /\ t \in Targets /\ target[t] \in Content /\ Clean(target[t])
          /\ cfg \in Configs
          /\ target' = [target EXCEPT ![t] = [target[t] EXCEPT !.ins = Append(@, cfg)]]
          /\ backups' = [backups EXCEPT ![t] = Append(backups[t], target[t])]
          /\ todo' = todo \ {t}
          /\ step = "apply" /\ step' = "apply"
    BY <1>5, ApplyTargetDoes
  <2>2. target' \in [Targets -> Content]
    BY <2>1, InsertType
  <2>3. backups' \in [Targets -> Backups]
    BY <2>1, AppendType
  <2> QED
    BY <1>5, <2>1, <2>2, <2>3 DEF ApplyTarget
<1>6. CASE Rollback
  BY <1>6 DEF Rollback
<1>7. CASE RestoreTarget
  <2>1. target' \in [Targets -> Content]
    BY <1>7, LatestType DEF RestoreTarget, Latest
  <2> QED
    BY <1>7, <2>1 DEF RestoreTarget
<1>8. CASE End
  BY <1>8 DEF End
<1>9. CASE Update
  <2>1. target' \in [Targets -> Content]
    BY <1>9, NewType DEF Update
  <2>2. fresh' = fresh + 1 /\ cut' = FALSE /\ crashes' = crashes /\ stale' = stale
    BY <1>9 DEF Update
  <2>3. UNCHANGED <<backups, hooks, lock, step, cfg, todo>>
    BY <1>9 DEF Update
  <2>4. fresh' \in Nat /\ crashes' \in Nat
    BY <2>2
  <2>6. cut' \in BOOLEAN /\ stale' \in BOOLEAN
    BY <2>2, Zenon
  <2>5. todo' \subseteq (IF step' = "render" THEN Hooks ELSE Targets)
    BY <2>3
  <2> QED
    BY <2>1, <2>3, <2>4, <2>5, <2>6
<1>10. ASSUME NEW t \in Targets, Edit(t) PROVE OverlayTypeOK'
  BY <1>10, NewType DEF Edit
<1>11. CASE CrashInRender
  <2>1. hooks' \in [Hooks -> Configs \cup {None}]
    BY <1>11 DEF CrashInRender
  <2>2. lock' \in Lock
    BY <1>11 DEF CrashInRender, Lock
  <2> QED
    BY <1>11, <2>1, <2>2 DEF CrashInRender, Dies
<1>12. CASE CrashInApply
  <2>1. CASE UNCHANGED <<backups, fresh>>
    BY <1>12, <2>1 DEF CrashInApply, Dies
  <2>2. ASSUME NEW t \in todo, backups' = [backups EXCEPT ![t] = Saved(t)], fresh' = fresh
        PROVE  OverlayTypeOK'
    <3>1. step = "apply" /\ t \in Targets /\ Clean(target[t])
      BY <1>12, <2>2 DEF CrashInApply
    <3>2. backups' \in [Targets -> Backups]
      BY <2>2, <3>1, AppendType DEF Saved
    <3> QED
      BY <1>12, <2>2, <3>2 DEF CrashInApply, Dies
  <2>3. ASSUME NEW t \in todo, backups' = [backups EXCEPT ![t] = Append(@, New)],
               fresh' = fresh + 1
        PROVE  OverlayTypeOK'
    <3>1. step = "apply" /\ t \in Targets
      BY <1>12 DEF CrashInApply
    <3>2. backups' \in [Targets -> Backups]
      BY <2>3, <3>1, NewType, AppendType
    <3> QED
      BY <1>12, <2>3, <3>2 DEF CrashInApply, Dies
  <2> QED
    BY <1>12, <2>1, <2>2, <2>3 DEF CrashInApply
<1>13. CASE CrashInRollback
  <2>1. target' \in [Targets -> Content]
    BY <1>13, NewType DEF CrashInRollback
  <2> QED
    BY <1>13, <2>1 DEF CrashInRollback, Dies
<1> QED
  BY <1>1, <1>2, <1>3, <1>4, <1>5, <1>6, <1>7, <1>8, <1>9, 
     <1>10, <1>11, <1>12, <1>13 DEF Next

LEMMA OneKept ==
    ASSUME OverlayTypeOK, OneOverlay, ApplyOK, Next PROVE OneOverlay'
<1> USE OverlayAssumption DEF OverlayTypeOK, OneOverlay, ApplyOK, Free, checkout, rendered,
        command, counters, Clean
<1>1. ASSUME NEW c \in Configs, Render(c) PROVE OneOverlay'
  BY <1>1 DEF Render
<1>2. CASE WriteHook
  BY <1>2 DEF WriteHook
<1>3. CASE WriteLock
  BY <1>3 DEF WriteLock
<1>4. CASE Apply
  BY <1>4 DEF Apply, Staged, Passes, Unmarked, HooksMatch
<1>5. CASE ApplyTarget
  <2>1. PICK t \in todo :
          /\ t \in Targets /\ target[t] \in Content /\ Clean(target[t])
          /\ cfg \in Configs
          /\ target' = [target EXCEPT ![t] = [target[t] EXCEPT !.ins = Append(@, cfg)]]
          /\ backups' = [backups EXCEPT ![t] = Append(backups[t], target[t])]
          /\ todo' = todo \ {t}
          /\ step = "apply" /\ step' = "apply"
    BY <1>5, ApplyTargetDoes
  <2>2. target'[t].ins = <<cfg>>
    BY <2>1, InsertType
  <2> QED
    BY <1>5, <2>1, <2>2
<1>6. CASE Rollback
  BY <1>6 DEF Rollback
<1>7. CASE RestoreTarget
  <2>1. \A t \in Targets : target'[t] = target[t] \/ Clean(target'[t])
    BY <1>7, LatestType DEF RestoreTarget, Latest
  <2> QED
    BY <1>7, <2>1 DEF RestoreTarget
<1>8. CASE End
  BY <1>8 DEF End
<1>9. CASE Update
  BY <1>9 DEF Update, New
<1>10. ASSUME NEW t \in Targets, Edit(t) PROVE OneOverlay'
  BY <1>10 DEF Edit, New
<1>11. CASE CrashInRender
  BY <1>11 DEF CrashInRender, Dies
<1>12. CASE CrashInApply
  BY <1>12 DEF CrashInApply, Dies, Saved, New
<1>13. CASE CrashInRollback
  BY <1>13 DEF CrashInRollback, Dies, New
<1> QED
  BY <1>1, <1>2, <1>3, <1>4, <1>5, <1>6, <1>7, <1>8, <1>9, 
     <1>10, <1>11, <1>12, <1>13 DEF Next

LEMMA RestoresKept ==
    ASSUME OverlayTypeOK, ApplyOK, RollbackRestores, Next PROVE RollbackRestores'
<1> USE OverlayAssumption DEF OverlayTypeOK, ApplyOK, RollbackRestores, Free, checkout, rendered,
        command, counters, Latest
<1>1. ASSUME NEW c \in Configs, Render(c) PROVE RollbackRestores'
  BY <1>1 DEF Render
<1>2. CASE WriteHook
  BY <1>2 DEF WriteHook
<1>3. CASE WriteLock
  BY <1>3 DEF WriteLock
<1>4. CASE Apply
  BY <1>4 DEF Apply, Staged, Passes, Unmarked, HooksMatch
<1>5. CASE ApplyTarget
  <2>1. PICK t \in todo :
          /\ t \in Targets /\ target[t] \in Content /\ Clean(target[t])
          /\ cfg \in Configs
          /\ target' = [target EXCEPT ![t] = [target[t] EXCEPT !.ins = Append(@, cfg)]]
          /\ backups' = [backups EXCEPT ![t] = Append(backups[t], target[t])]
          /\ todo' = todo \ {t}
          /\ step = "apply" /\ step' = "apply"
    BY <1>5, ApplyTargetDoes
  <2>2. /\ backups'[t] # <<>>
        /\ backups'[t][Len(backups'[t])] = target[t]
        /\ [target'[t] EXCEPT !.ins = <<>>] = target[t]
    <3>1. backups[t] \in Backups /\ backups'[t] = Append(backups[t], target[t])
      BY <2>1
    <3>2. target'[t] = [target[t] EXCEPT !.ins = Append(@, cfg)]
      BY <2>1
    <3>3. backups'[t] # <<>> /\ backups'[t][Len(backups'[t])] = target[t]
      BY <2>1, <3>1, AppendType
    <3>4. [target'[t] EXCEPT !.ins = <<>>] = target[t]
      BY <2>1, <3>2, InsertType
    <3> QED
      BY <3>3, <3>4
  <2>3. \A u \in Targets \ {t} : target'[u] = target[u] /\ backups'[u] = backups[u]
    BY <2>1
  <2> QED
    BY <2>2, <2>3
<1>6. CASE Rollback
  BY <1>6 DEF Rollback
<1>7. CASE RestoreTarget
  <2>1. \A t \in Targets : target'[t] = target[t] \/ Clean(target'[t])
    BY <1>7, LatestType DEF RestoreTarget, Latest
  <2> QED
    BY <1>7, <2>1 DEF RestoreTarget
<1>8. CASE End
  BY <1>8 DEF End
<1>9. CASE Update
  BY <1>9, NewType DEF Update
<1>10. ASSUME NEW t \in Targets, Edit(t) PROVE RollbackRestores'
  BY <1>10, NewType DEF Edit
<1>11. CASE CrashInRender
  BY <1>11 DEF CrashInRender, Dies
<1>12. CASE CrashInApply
  <2>1. \A t \in Targets : backups'[t] = backups[t] \/ t \in todo
    BY <1>12 DEF CrashInApply
  <2> QED
    BY <1>12, <2>1 DEF CrashInApply
<1>13. CASE CrashInRollback
  BY <1>13, NewType DEF CrashInRollback, Dies
<1> QED
  BY <1>1, <1>2, <1>3, <1>4, <1>5, <1>6, <1>7, <1>8, <1>9, 
     <1>10, <1>11, <1>12, <1>13 DEF Next

LEMMA ApplyKept ==
    ASSUME OverlayTypeOK, ApplyOK, Next PROVE ApplyOK'
<1> USE OverlayAssumption DEF OverlayTypeOK, ApplyOK, Free, checkout, rendered,
        command, counters, Clean
<1>1. ASSUME NEW c \in Configs, Render(c) PROVE ApplyOK'
  BY <1>1 DEF Render
<1>2. CASE WriteHook
  BY <1>2 DEF WriteHook
<1>3. CASE WriteLock
  BY <1>3 DEF WriteLock
<1>4. CASE Apply
  BY <1>4 DEF Apply, Staged, Passes, Unmarked, HooksMatch
<1>5. CASE ApplyTarget
  <2>1. PICK t \in todo :
          /\ t \in Targets /\ target[t] \in Content /\ Clean(target[t])
          /\ cfg \in Configs
          /\ target' = [target EXCEPT ![t] = [target[t] EXCEPT !.ins = Append(@, cfg)]]
          /\ backups' = [backups EXCEPT ![t] = Append(backups[t], target[t])]
          /\ todo' = todo \ {t}
          /\ step = "apply" /\ step' = "apply"
    BY <1>5, ApplyTargetDoes
  <2>2. target'[t].ins = <<cfg>>
    BY <2>1, InsertType
  <2> QED
    BY <1>5, <2>1, <2>2 DEF ApplyTarget
<1>6. CASE Rollback
  BY <1>6 DEF Rollback
<1>7. CASE RestoreTarget
  BY <1>7 DEF RestoreTarget
<1>8. CASE End
  BY <1>8 DEF End
<1>9. CASE Update
  BY <1>9 DEF Update, New
<1>10. ASSUME NEW t \in Targets, Edit(t) PROVE ApplyOK'
  BY <1>10 DEF Edit, New
<1>11. CASE CrashInRender
  BY <1>11 DEF CrashInRender, Dies
<1>12. CASE CrashInApply
  BY <1>12 DEF CrashInApply, Dies, Saved, New
<1>13. CASE CrashInRollback
  BY <1>13 DEF CrashInRollback, Dies, New
<1> QED
  BY <1>1, <1>2, <1>3, <1>4, <1>5, <1>6, <1>7, <1>8, <1>9, 
     <1>10, <1>11, <1>12, <1>13 DEF Next

LEMMA RollbackKept ==
    ASSUME OverlayTypeOK, RollbackOK, RollbackRestores, Next PROVE RollbackOK'
<1> USE OverlayAssumption DEF OverlayTypeOK, RollbackOK, RollbackRestores, Free, checkout, rendered,
        command, counters, Latest
<1>1. ASSUME NEW c \in Configs, Render(c) PROVE RollbackOK'
  BY <1>1 DEF Render
<1>2. CASE WriteHook
  BY <1>2 DEF WriteHook
<1>3. CASE WriteLock
  BY <1>3 DEF WriteLock
<1>4. CASE Apply
  BY <1>4 DEF Apply, Staged, Passes, Unmarked, HooksMatch
<1>5. CASE ApplyTarget
  BY <1>5 DEF ApplyTarget, Saved
<1>6. CASE Rollback
  BY <1>6 DEF Rollback
<1>7. CASE RestoreTarget
  <2>1. PICK t \in todo :
          /\ t \in Targets /\ todo' = todo \ {t}
          /\ target' = IF backups[t] = <<>> THEN target ELSE [target EXCEPT ![t] = Latest(t)]
    BY <1>7 DEF RestoreTarget
  <2>2. Clean(target'[t])
    BY <2>1, LatestType DEF Latest
  <2> QED
    BY <1>7, <2>1, <2>2 DEF RestoreTarget
<1>8. CASE End
  BY <1>8 DEF End
<1>9. CASE Update
  BY <1>9 DEF Update, New
<1>10. ASSUME NEW t \in Targets, Edit(t) PROVE RollbackOK'
  BY <1>10 DEF Edit, New
<1>11. CASE CrashInRender
  BY <1>11 DEF CrashInRender, Dies
<1>12. CASE CrashInApply
  BY <1>12 DEF CrashInApply, Dies, Saved, New
<1>13. CASE CrashInRollback
  BY <1>13 DEF CrashInRollback, Dies, New
<1> QED
  BY <1>1, <1>2, <1>3, <1>4, <1>5, <1>6, <1>7, <1>8, <1>9, 
     <1>10, <1>11, <1>12, <1>13 DEF Next

LEMMA AgreeKept ==
    ASSUME OverlayTypeOK, ApplyOK, RollbackOK, Agree, Next PROVE Agree'
<1> USE OverlayAssumption DEF OverlayTypeOK, ApplyOK, RollbackOK, Agree, Free, checkout, rendered,
        command, counters, Clean
<1>1. ASSUME NEW c \in Configs, Render(c) PROVE Agree'
  BY <1>1 DEF Render
<1>2. CASE WriteHook
  BY <1>2 DEF WriteHook
<1>3. CASE WriteLock
  BY <1>3 DEF WriteLock
<1>4. CASE Apply
  BY <1>4 DEF Apply, Staged, Passes, Unmarked, HooksMatch
<1>5. CASE ApplyTarget
  BY <1>5 DEF ApplyTarget, Saved
<1>6. CASE Rollback
  BY <1>6 DEF Rollback
<1>7. CASE RestoreTarget
  BY <1>7 DEF RestoreTarget
<1>8. CASE End
  BY <1>8 DEF End
<1>9. CASE Update
  BY <1>9 DEF Update, New
<1>10. ASSUME NEW t \in Targets, Edit(t) PROVE Agree'
  BY <1>10 DEF Edit, New
<1>11. CASE CrashInRender
  BY <1>11 DEF CrashInRender, Dies
<1>12. CASE CrashInApply
  BY <1>12 DEF CrashInApply, Dies, Saved, New
<1>13. CASE CrashInRollback
  BY <1>13 DEF CrashInRollback, Dies, New
<1> QED
  BY <1>1, <1>2, <1>3, <1>4, <1>5, <1>6, <1>7, <1>8, <1>9, 
     <1>10, <1>11, <1>12, <1>13 DEF Next

LEMMA HooksKept ==
    ASSUME OverlayTypeOK, ApplyOK, HooksOK, Next PROVE HooksOK'
<1> USE OverlayAssumption DEF OverlayTypeOK, ApplyOK, HooksOK, Free, checkout, rendered,
        command, counters, HooksOfTheOverlay, Clean
<1>1. ASSUME NEW c \in Configs, Render(c) PROVE HooksOK'
  BY <1>1 DEF Render
<1>2. CASE WriteHook
  BY <1>2 DEF WriteHook
<1>3. CASE WriteLock
  BY <1>3 DEF WriteLock
<1>4. CASE Apply
  BY <1>4 DEF Apply, Staged, Passes, Unmarked, HooksMatch
<1>5. CASE ApplyTarget
  <2>1. PICK t \in todo :
          /\ t \in Targets /\ target[t] \in Content /\ Clean(target[t])
          /\ cfg \in Configs
          /\ target' = [target EXCEPT ![t] = [target[t] EXCEPT !.ins = Append(@, cfg)]]
          /\ backups' = [backups EXCEPT ![t] = Append(backups[t], target[t])]
          /\ todo' = todo \ {t}
          /\ step = "apply" /\ step' = "apply"
    BY <1>5, ApplyTargetDoes
  <2>2. step = "apply" => \A h \in Hooks : hooks[h] = cfg
    OBVIOUS
  <2>3. target'[t].ins = <<cfg>>
    BY <2>1, InsertType
  <2> QED
    BY <1>5, <2>1, <2>2, <2>3 DEF ApplyTarget
<1>6. CASE Rollback
  BY <1>6 DEF Rollback
<1>7. CASE RestoreTarget
  <2>1. \A t \in Targets : target'[t] = target[t] \/ Clean(target'[t])
    BY <1>7, LatestType DEF RestoreTarget, Latest
  <2> QED
    BY <1>7, <2>1 DEF RestoreTarget
<1>8. CASE End
  BY <1>8 DEF End
<1>9. CASE Update
  BY <1>9 DEF Update, New
<1>10. ASSUME NEW t \in Targets, Edit(t) PROVE HooksOK'
  BY <1>10 DEF Edit, New
<1>11. CASE CrashInRender
  BY <1>11 DEF CrashInRender, Dies
<1>12. CASE CrashInApply
  BY <1>12 DEF CrashInApply, Dies, Saved, New
<1>13. CASE CrashInRollback
  BY <1>13 DEF CrashInRollback, Dies, New
<1> QED
  BY <1>1, <1>2, <1>3, <1>4, <1>5, <1>6, <1>7, <1>8, <1>9, 
     <1>10, <1>11, <1>12, <1>13 DEF Next

----------------------------------------------------------------------------

LEMMA InitIInv == Init => IInv
<1> SUFFICES ASSUME Init PROVE IInv
  OBVIOUS
<1>1. [gen |-> 0, ins |-> <<>>] \in Content /\ Clean([gen |-> 0, ins |-> <<>>])
  BY DEF Content, Clean
<1>2. <<>> \in Backups
  BY DEF Backups
<1>3. \A t \in Targets : target[t] \in Content /\ Clean(target[t]) /\ Len(target[t].ins) = 0
  BY <1>1 DEF Init
<1>4. target \in [Targets -> Content] /\ backups \in [Targets -> Backups]
  BY <1>1, <1>2 DEF Init
<1>5. OverlayTypeOK
  BY <1>4 DEF Init, OverlayTypeOK, Lock
<1> QED
  BY <1>3, <1>5 DEF Init, IInv, OneOverlay, RollbackRestores, ApplyOK, RollbackOK, Agree,
     HooksOK, HooksOfTheOverlay

LEMMA NextIInv == IInv /\ [Next]_vars => IInv'
<1>1. ASSUME IInv, Next PROVE IInv'
  BY <1>1, TypeKept, OneKept, RestoresKept, ApplyKept, RollbackKept, AgreeKept, HooksKept
     DEF IInv
<1>2. ASSUME IInv, UNCHANGED vars PROVE IInv'
  BY <1>2 DEF IInv, OverlayTypeOK, OneOverlay, RollbackRestores, Latest, ApplyOK, RollbackOK,
     Agree, HooksOK, HooksOfTheOverlay, Clean, vars, checkout, rendered, command, counters
<1> QED
  BY <1>1, <1>2

THEOREM Inductive == Spec => []IInv
BY InitIInv, NextIInv, PTL DEF Spec

\* The files are well formed and no backup ever holds an overlay.
THEOREM OverlayTypeCorrect == Spec => []OverlayTypeOK
<1>1. IInv => OverlayTypeOK
  BY DEF IInv
<1> QED
  BY <1>1, Inductive, PTL

\* No sequence of commands, updates and crashes inserts an overlay twice.
THEOREM NeverTwice == Spec => []OneOverlay
<1>1. IInv => OneOverlay
  BY DEF IInv
<1> QED
  BY <1>1, Inductive, PTL

\* What rollback restores for a file with an overlay is what apply found.
THEOREM RollbackIsExact == Spec => []RollbackRestores
<1>1. IInv => RollbackRestores
  BY DEF IInv
<1> QED
  BY <1>1, Inductive, PTL

\* Only a command that died leaves an overlay on some of the files.
THEOREM AllOrNone == Spec => []AppliedTogether
<1>1. IInv => AppliedTogether
  BY DEF IInv, Agree, AppliedTogether, Free
<1> QED
  BY <1>1, Inductive, PTL

\* What was inserted calls hooks of its own configuration until the next render.
THEOREM HooksFit == Spec => []HooksOfTheOverlay
<1>1. IInv => HooksOfTheOverlay
  BY DEF IInv, HooksOK
<1> QED
  BY <1>1, Inductive, PTL

=============================================================================
