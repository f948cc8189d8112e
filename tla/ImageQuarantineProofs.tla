------------------------ MODULE ImageQuarantineProofs ------------------------
(***************************************************************************)
(* What the image quarantine promises for any images, limits and crashes.  *)
(* FilesGo is about fairness and left to TLC.                              *)
(***************************************************************************)
EXTENDS ImageQuarantine, SequenceTheorems, TLAPS

\* Batches are worked on under a grant, and never an empty one.
BatchOK ==
    /\ step \in {"work", "describe"} => active /\ todo # <<>>
    /\ step \in {"idle", "purge"} => todo = <<>>

\* A purge has dealt with the selected files that are not left; one that began
\* with the end of the grant has selected every row.
PurgeOK ==
    /\ step = "purge" => files \cap Shas(going) \subseteq left
    /\ step # "purge" => going = {} /\ left = {}
    /\ ~active /\ ~interrupted => (IF step = "purge" THEN going = rows ELSE rows = {})

\* What has been and what will be worked on has been paid for.
QuotaOK ==
    /\ step = "describe" => worked + Len(todo) - 1 <= quota.count
    /\ step # "describe" => worked + Len(todo) <= quota.count

IInv ==
    /\ QuarantineTypeOK
    /\ BatchOK
    /\ PurgeOK
    /\ QuotaOK
    /\ FilesAccountedFor

----------------------------------------------------------------------------

LEMMA BatchType ==
    ASSUME NEW b \in Batches
    PROVE  b \in Seq(Images \cup {Bad}) /\ b # <<>> /\ Len(b) \in Nat
<1>1. PICK n \in 1..MaxBatch : b \in [1..n -> Images \cup {Bad}]
  BY DEF Batches
<1>2. b \in Seq(Images \cup {Bad}) /\ Len(b) = n
  BY <1>1, QuarantineAssumption, IsASeq
<1> QED
  BY <1>1, <1>2, QuarantineAssumption

\* The attachments that remain, one fewer.
LEMMA TailType ==
    ASSUME todo \in Seq(Images \cup {Bad}), todo # <<>>
    PROVE  /\ Head(todo) \in Images \cup {Bad}
           /\ Tail(todo) \in Seq(Images \cup {Bad})
           /\ Len(todo) \in Nat
           /\ Len(Tail(todo)) = Len(todo) - 1
           /\ Len(<<>>) = 0
OBVIOUS

LEMMA TypeKept ==
    ASSUME QuarantineTypeOK, BatchOK, Next PROVE QuarantineTypeOK'
<1> USE QuarantineAssumption DEF QuarantineTypeOK, BatchOK, Free, stored, batch,
        purge, history, InHand, Row, Shas
<1>1. CASE RefuseBatch
  BY <1>1 DEF RefuseBatch, Rolled, Over
<1>2. ASSUME NEW b \in Batches, TakeBatch(b) PROVE QuarantineTypeOK'
  <2>1. b \in Seq(Images \cup {Bad}) /\ Len(b) \in Nat
    BY BatchType
  <2>2. Rolled.start \in Nat /\ Rolled.count \in 0..MaxPerDay
    BY DEF Rolled
  <2>3. quota' \in [start: Nat, count: 0..MaxPerDay]
    BY <1>2, <2>1, <2>2 DEF TakeBatch, Fits, Charged
  <2>4. /\ todo' \in Seq(Images \cup {Bad})
        /\ step' \in {"work", "idle"}
        /\ worked' \in Nat /\ started' \in Nat
    BY <1>2, <2>1 DEF TakeBatch
  <2> QED
    BY <1>2, <2>3, <2>4 DEF TakeBatch
<1>3. CASE SkipBad
  BY <1>3, TailType DEF SkipBad, NextAttachment
<1>4. CASE Write
  BY <1>4, TailType DEF Write
<1>5. CASE Keep
  BY <1>5, TailType DEF Keep, NextAttachment
<1>6. CASE Discard
  BY <1>6, TailType DEF Discard, Unlinked
<1>7. CASE Unlink
  BY <1>7 DEF Unlink
<1>8. CASE Commit
  BY <1>8 DEF Commit
<1>9. CASE Deactivate
  BY <1>9 DEF Deactivate, Select, Purged
<1>10. CASE Activate
  BY <1>10 DEF Activate
<1>11. CASE Sweep
  BY <1>11 DEF Sweep, Select, Expired
<1>12. CASE Crash
  BY <1>12, TailType DEF Crash
<1>13. CASE Tick
  BY <1>13 DEF Tick
<1> QED
  BY <1>1, <1>2, <1>3, <1>4, <1>5, <1>6, <1>7, <1>8, <1>9, 
     <1>10, <1>11, <1>12, <1>13 DEF Next, Work

LEMMA BatchKept ==
    ASSUME QuarantineTypeOK, BatchOK, Next PROVE BatchOK'
<1> USE QuarantineAssumption DEF QuarantineTypeOK, BatchOK, Free, stored, batch,
        purge, history
<1>1. CASE RefuseBatch
  BY <1>1 DEF RefuseBatch, Rolled, Over
<1>2. ASSUME NEW b \in Batches, TakeBatch(b) PROVE BatchOK'
  BY <1>2, BatchType DEF TakeBatch, Fits, Charged, Rolled, Over
<1>3. CASE SkipBad
  BY <1>3, TailType DEF SkipBad, NextAttachment
<1>4. CASE Write
  BY <1>4, TailType DEF Write
<1>5. CASE Keep
  BY <1>5, TailType DEF Keep, NextAttachment
<1>6. CASE Discard
  BY <1>6, TailType DEF Discard, Unlinked
<1>7. CASE Unlink
  BY <1>7 DEF Unlink
<1>8. CASE Commit
  BY <1>8 DEF Commit
<1>9. CASE Deactivate
  BY <1>9 DEF Deactivate, Select, Purged
<1>10. CASE Activate
  BY <1>10 DEF Activate
<1>11. CASE Sweep
  BY <1>11 DEF Sweep, Select, Expired
<1>12. CASE Crash
  BY <1>12, TailType DEF Crash
<1>13. CASE Tick
  BY <1>13 DEF Tick
<1> QED
  BY <1>1, <1>2, <1>3, <1>4, <1>5, <1>6, <1>7, <1>8, <1>9, 
     <1>10, <1>11, <1>12, <1>13 DEF Next, Work

LEMMA PurgeKept ==
    ASSUME QuarantineTypeOK, BatchOK, PurgeOK, Next PROVE PurgeOK'
<1> USE QuarantineAssumption DEF QuarantineTypeOK, BatchOK, PurgeOK, Free, stored, batch,
        purge, history, Shas
<1>1. CASE RefuseBatch
  BY <1>1 DEF RefuseBatch, Rolled, Over
<1>2. ASSUME NEW b \in Batches, TakeBatch(b) PROVE PurgeOK'
  BY <1>2 DEF TakeBatch, Fits, Charged, Rolled, Over
<1>3. CASE SkipBad
  BY <1>3 DEF SkipBad, NextAttachment
<1>4. CASE Write
  BY <1>4 DEF Write
<1>5. CASE Keep
  BY <1>5 DEF Keep, NextAttachment
<1>6. CASE Discard
  BY <1>6 DEF Discard, Unlinked
<1>7. CASE Unlink
  BY <1>7 DEF Unlink
<1>8. CASE Commit
  BY <1>8 DEF Commit
<1>9. CASE Deactivate
  BY <1>9 DEF Deactivate, Select, Purged
<1>10. CASE Activate
  BY <1>10 DEF Activate
<1>11. CASE Sweep
  BY <1>11 DEF Sweep, Select, Expired
<1>12. CASE Crash
  BY <1>12 DEF Crash
<1>13. CASE Tick
  BY <1>13 DEF Tick
<1> QED
  BY <1>1, <1>2, <1>3, <1>4, <1>5, <1>6, <1>7, <1>8, <1>9, 
     <1>10, <1>11, <1>12, <1>13 DEF Next, Work

LEMMA QuotaKept ==
    ASSUME QuarantineTypeOK, BatchOK, QuotaOK, Next PROVE QuotaOK'
<1> USE QuarantineAssumption DEF QuarantineTypeOK, BatchOK, QuotaOK, Free, stored, batch,
        purge, history
<1>1. CASE RefuseBatch
  BY <1>1 DEF RefuseBatch, Rolled, Over
<1>2. ASSUME NEW b \in Batches, TakeBatch(b) PROVE QuotaOK'
  BY <1>2, BatchType DEF TakeBatch, Fits, Charged, Rolled, Over
<1>3. CASE SkipBad
  BY <1>3, TailType DEF SkipBad, NextAttachment
<1>4. CASE Write
  BY <1>4, TailType DEF Write
<1>5. CASE Keep
  BY <1>5, TailType DEF Keep, NextAttachment
<1>6. CASE Discard
  BY <1>6, TailType DEF Discard, Unlinked
<1>7. CASE Unlink
  BY <1>7 DEF Unlink
<1>8. CASE Commit
  BY <1>8 DEF Commit
<1>9. CASE Deactivate
  BY <1>9 DEF Deactivate, Select, Purged
<1>10. CASE Activate
  BY <1>10 DEF Activate
<1>11. CASE Sweep
  BY <1>11 DEF Sweep, Select, Expired
<1>12. CASE Crash
  BY <1>12, TailType DEF Crash
<1>13. CASE Tick
  BY <1>13 DEF Tick
<1> QED
  BY <1>1, <1>2, <1>3, <1>4, <1>5, <1>6, <1>7, <1>8, <1>9, 
     <1>10, <1>11, <1>12, <1>13 DEF Next, Work

LEMMA FilesKept ==
    ASSUME QuarantineTypeOK, BatchOK, PurgeOK, FilesAccountedFor, Next PROVE FilesAccountedFor'
<1> USE QuarantineAssumption DEF QuarantineTypeOK, BatchOK, PurgeOK, FilesAccountedFor, Free, stored, batch,
        purge, history, InHand, Shas
<1>1. CASE RefuseBatch
  BY <1>1 DEF RefuseBatch, Rolled, Over
<1>2. ASSUME NEW b \in Batches, TakeBatch(b) PROVE FilesAccountedFor'
  BY <1>2 DEF TakeBatch, Fits, Charged, Rolled, Over
<1>3. CASE SkipBad
  BY <1>3 DEF SkipBad, NextAttachment
<1>4. CASE Write
  BY <1>4 DEF Write
<1>5. CASE Keep
  <2>1. [sha |-> Head(todo), ts |-> started] \in rows'
    BY <1>5 DEF Keep
  <2>2. rows \subseteq rows' /\ files' = files /\ orphans' = orphans \ {Head(todo)}
    BY <1>5 DEF Keep
  <2>3. Head(todo) \in Shas(rows') /\ Shas(rows) \subseteq Shas(rows')
    BY <2>1, <2>2
  <2> QED
    BY <1>5, <2>2, <2>3 DEF Keep
<1>6. CASE Discard
  BY <1>6 DEF Discard, Unlinked
<1>7. CASE Unlink
  BY <1>7 DEF Unlink
<1>8. CASE Commit
  BY <1>8 DEF Commit
<1>9. CASE Deactivate
  BY <1>9 DEF Deactivate, Select, Purged
<1>10. CASE Activate
  BY <1>10 DEF Activate
<1>11. CASE Sweep
  BY <1>11 DEF Sweep, Select, Expired
<1>12. CASE Crash
  BY <1>12 DEF Crash
<1>13. CASE Tick
  BY <1>13 DEF Tick
<1> QED
  BY <1>1, <1>2, <1>3, <1>4, <1>5, <1>6, <1>7, <1>8, <1>9, 
     <1>10, <1>11, <1>12, <1>13 DEF Next, Work

----------------------------------------------------------------------------

LEMMA InitIInv == Init => IInv
<1> SUFFICES ASSUME Init PROVE IInv
  OBVIOUS
<1>1. Shas({}) = {} /\ Len(<<>>) = 0 /\ <<>> \in Seq(Images \cup {Bad})
  BY DEF Shas
<1>a. quota \in [start: Nat, count: 0..MaxPerDay]
  BY QuarantineAssumption DEF Init
<1>b. todo \in Seq(Images \cup {Bad})
  BY <1>1 DEF Init
<1>2. QuarantineTypeOK
  BY <1>a, <1>b, QuarantineAssumption DEF Init, QuarantineTypeOK
<1>3. BatchOK /\ PurgeOK
  BY DEF Init, BatchOK, PurgeOK
<1>4. QuotaOK
  BY <1>1 DEF Init, QuotaOK
<1>5. FilesAccountedFor
  BY DEF Init, FilesAccountedFor
<1> QED
  BY <1>2, <1>3, <1>4, <1>5 DEF IInv

LEMMA NextIInv == IInv /\ [Next]_vars => IInv'
<1>1. ASSUME IInv, Next PROVE IInv'
  BY <1>1, TypeKept, BatchKept, PurgeKept, QuotaKept, FilesKept DEF IInv
<1>2. ASSUME IInv, UNCHANGED vars PROVE IInv'
  BY <1>2 DEF IInv, QuarantineTypeOK, BatchOK, PurgeOK, QuotaOK, FilesAccountedFor, InHand,
     Shas, vars, stored, batch, purge, history
<1> QED
  BY <1>1, <1>2

THEOREM Inductive == Spec => []IInv
BY InitIInv, NextIInv, PTL DEF Spec

\* The tables and the lock holder's state are well formed, and the quota never
\* exceeds its maximum.
THEOREM QuarantineTypeCorrect == Spec => []QuarantineTypeOK
<1>1. IInv => QuarantineTypeOK
  BY DEF IInv
<1> QED
  BY <1>1, Inductive, PTL

\* A file without a row is in hand or was left by a crash, for any batches.
THEOREM FilesAreAccountedFor == Spec => []FilesAccountedFor
<1>1. IInv => FilesAccountedFor
  BY DEF IInv
<1> QED
  BY <1>1, Inductive, PTL

\* The images of a contact do not outlive its grant, if its purge was not cut
\* short.
THEOREM ImagesNeedGrant == Spec => []NoImagesWithoutGrant
<1>1. IInv => NoImagesWithoutGrant
  BY DEF IInv, PurgeOK, FilesAccountedFor, NoImagesWithoutGrant, Free, InHand, Shas
<1> QED
  BY <1>1, Inductive, PTL

\* No window works on more attachments than the day allows.
THEOREM QuotaHolds == Spec => []QuotaBoundsWork
<1>1. ASSUME IInv PROVE QuotaBoundsWork
  <2>1. /\ worked \in Nat /\ Len(todo) \in Nat /\ MaxPerDay \in Nat
        /\ quota.count \in 0..MaxPerDay
        /\ step = "describe" => todo # <<>>
    BY <1>1, QuarantineAssumption DEF IInv, QuarantineTypeOK, BatchOK
  <2>2. step = "describe" => Len(todo) >= 1
    BY <1>1, <2>1 DEF IInv, QuarantineTypeOK
  <2> QED
    BY <1>1, <2>1, <2>2 DEF IInv, QuotaOK, QuotaBoundsWork
<1> QED
  BY <1>1, Inductive, PTL

=============================================================================
