--------------------------- MODULE ImageQuarantine ---------------------------
(***************************************************************************)
(* The images of one Tier-2 contact: Tier2Manager.handle_images, the purge *)
(* when the contact's grant ends and the retention sweep, of               *)
(* src/receptionist/tier2.py.  They run under _db_lock, one at a time, but *)
(* the file system and the table are changed one after the other, and the  *)
(* vision model is asked in between: the process may die at any of these   *)
(* points.  Files, rows and quota are all kept by the lead, so one contact *)
(* is enough.                                                              *)
(*                                                                         *)
(* An image is its content: the path of a file is made from the lead and   *)
(* the hash, so the same content sent twice shares one file.  Two rows of  *)
(* one batch with the same content are never told apart by the code; they  *)
(* are one element of rows.  Rows that are born deleted (malformed,        *)
(* unclassified, sensitive) are a log that nothing reads.                  *)
(***************************************************************************)
EXTENDS Integers, Sequences, FiniteSets

CONSTANTS
    Images,       \* contents that pass the checks of type, size and structure
    Bad,          \* an attachment that fails one of them
    MaxBatch,     \* tier2.image.max_per_message
    MaxPerDay,    \* tier2.image.max_per_day
    Retention,    \* tier2.image.retention_seconds
    Day,          \* 86400
    LastMessage,  \* bound: no images arrive after this time
    MaxNow,       \* bound on the clock
    MaxCrashes    \* bound on the crashes

ASSUME QuarantineAssumption ==
    /\ Bad \notin Images
    /\ MaxBatch \in Nat
    /\ MaxPerDay \in Nat
    /\ Retention \in Nat
    /\ Day \in Nat \ {0}
    /\ LastMessage \in Nat
    /\ MaxNow \in Nat
    /\ MaxCrashes \in Nat

VARIABLES
    now,         \* the clock
    active,      \* the contact has an active grant
    quota,       \* tier2_image_limits
    files,       \* contents that have a file in the quarantine directory
    rows,        \* tier2_attachments, where deleted_at IS NULL
    step,        \* what the holder of the lock is doing
    todo,        \* attachments of the batch, the one in hand first
    started,     \* when the batch was taken up
    going,       \* rows a purge or sweep has selected
    left,        \* contents among them whose file is still to be unlinked
    \* History, which no step reads:
    orphans,     \* contents whose file a crash left without a row
    interrupted, \* a purge was cut short by a crash
    worked,      \* attachments taken in hand since the quota's window began
    crashes

stored == <<quota, files, rows>>
batch == <<todo, started>>
purge == <<going, left>>
history == <<orphans, interrupted, worked, crashes>>
vars == <<now, active, stored, step, batch, purge, history>>

Row == [sha: Images, ts: Nat]
Shas(R) == {r.sha : r \in R}
Batches == UNION {[1..n -> Images \cup {Bad}] : n \in 1..MaxBatch}

Free == step = "idle"
InHand == IF step = "describe" THEN {Head(todo)} ELSE {}

\* The quota never exceeds its maximum; an image is in hand only while it is
\* described, and a purge concerns rows there are.
QuarantineTypeOK ==
    /\ now \in Nat
    /\ active \in BOOLEAN
    /\ quota \in [start: Nat, count: 0..MaxPerDay]
    /\ files \subseteq Images
    /\ rows \subseteq Row
    /\ step \in {"idle", "work", "describe", "purge"}
    /\ todo \in Seq(Images \cup {Bad})
    /\ step = "describe" => todo # <<>> /\ Head(todo) \in files
    /\ started \in Nat
    /\ going \subseteq rows
    /\ left \subseteq Shas(going)
    /\ orphans \subseteq Images
    /\ interrupted \in BOOLEAN
    /\ worked \in Nat
    /\ crashes \in Nat

Init ==
    /\ now = Day
    /\ active = FALSE
    /\ quota = [start |-> 0, count |-> 0]
    /\ files = {}
    /\ rows = {}
    /\ step = "idle"
    /\ todo = <<>>
    /\ started = 0
    /\ going = {}
    /\ left = {}
    /\ orphans = {}
    /\ interrupted = FALSE
    /\ worked = 0
    /\ crashes = 0

----------------------------------------------------------------------------
\* A message with attachments.

\* _image_rate_ok opens a new window when the old one is over.
Over == now - quota.start >= Day
Rolled == IF Over THEN [start |-> now, count |-> 0] ELSE quota

\* Plausible bug: a batch is let through as long as the day has any room.
BugFits(n) == Rolled.count < MaxPerDay

Fits(n) == Rolled.count + n <= MaxPerDay

\* Plausible bug: only a batch that comes to a good end is charged.
BugCharged(n) == Rolled

Charged(n) == [start |-> Rolled.start, count |-> Rolled.count + n]

\* More than the day allows; a crash before the charge leaves the same.  Without
\* a vision model, or with too many attachments, nothing happens at all.
RefuseBatch ==
    /\ Free
    /\ active
    /\ quota' = Rolled
    /\ worked' = IF Over THEN 0 ELSE worked
    /\ UNCHANGED <<now, active, files, rows, step, batch, purge,
                   orphans, interrupted, crashes>>

\* The batch is charged before anything is looked at; a caption that sounds
\* sensitive ends it there.
TakeBatch(b) ==
    /\ Free
    /\ active
    /\ now <= LastMessage
    /\ Fits(Len(b))
    /\ quota' = Charged(Len(b))
    /\ worked' = IF Over THEN 0 ELSE worked
    /\ started' = now
    /\ \/ step' = "work" /\ todo' = b
       \/ UNCHANGED <<step, todo>>
    /\ UNCHANGED <<now, active, files, rows, purge, orphans, interrupted, crashes>>

\* The batch goes on without its first attachment.
NextAttachment ==
    /\ todo' = Tail(todo)
    /\ step' = IF Tail(todo) = <<>> THEN "idle" ELSE "work"

\* Of the wrong type or size, not to be fetched, not what it claims, malformed.
SkipBad ==
    /\ step = "work"
    /\ Head(todo) = Bad
    /\ NextAttachment
    /\ worked' = worked + 1
    /\ UNCHANGED <<now, active, stored, started, purge, orphans, interrupted, crashes>>

\* Fetched, sanitized, written; the vision model is asked next.
Write ==
    /\ step = "work"
    /\ Head(todo) # Bad
    /\ files' = files \cup {Head(todo)}
    /\ step' = "describe"
    /\ worked' = worked + 1
    /\ UNCHANGED <<now, active, quota, rows, batch, purge, orphans, interrupted, crashes>>

\* Described, and not as something sensitive: the file gets its row, which is as
\* old as the batch.
Keep ==
    /\ step = "describe"
    /\ rows' = rows \cup {[sha |-> Head(todo), ts |-> started]}
    /\ orphans' = orphans \ {Head(todo)}
    /\ NextAttachment
    /\ UNCHANGED <<now, active, quota, files, started, purge, interrupted, worked, crashes>>

\* Plausible bug: only what is called sensitive is deleted, not what the vision
\* model failed to describe.
BugUnlinked == files

Unlinked == files \ {Head(todo)}

\* Not described, or sensitive: the file is deleted, and the rest of the batch
\* is left alone.
Discard ==
    /\ step = "describe"
    /\ files' = Unlinked
    /\ orphans' = orphans \ {Head(todo)}
    /\ step' = "idle"
    /\ todo' = <<>>
    /\ UNCHANGED <<now, active, quota, rows, started, purge, interrupted, worked, crashes>>

----------------------------------------------------------------------------
\* The ends of images.

Select(R) ==
    /\ going' = R
    /\ left' = Shas(R)
    /\ step' = "purge"

\* Plausible bug: the grant ends without a look at the images.
BugPurged == {}

\* _purge_quarantine_for: every row that is not deleted, however old.
Purged == rows

\* A command of the owner or an expiry: the status is committed first.  A block
\* does all this for a contact without a grant, too.
Deactivate ==
    /\ Free
    /\ active' = FALSE
    /\ interrupted' = FALSE
    /\ Select(Purged)
    /\ UNCHANGED <<now, stored, batch, orphans, worked, crashes>>

Activate ==
    /\ Free
    /\ ~active
    /\ active' = TRUE
    /\ UNCHANGED <<now, stored, step, batch, purge, history>>

\* Plausible bug: the sweep looks at the rows of active contacts only.
BugExpired == IF active THEN {r \in rows : r.ts + Retention <= now} ELSE {}

Expired == {r \in rows : r.ts + Retention <= now}

\* cleanup_images
Sweep ==
    /\ Free
    /\ Expired # {}
    /\ Select(Expired)
    /\ UNCHANGED <<now, active, stored, batch, history>>

\* One file after the other is unlinked,
Unlink ==
    /\ step = "purge"
    /\ \E i \in left :
          /\ files' = files \ {i}
          /\ left' = left \ {i}
          /\ orphans' = orphans \ {i}
    /\ UNCHANGED <<now, active, quota, rows, step, batch, going, interrupted, worked, crashes>>

\* and the rows are committed as deleted together.
Commit ==
    /\ step = "purge"
    /\ left = {}
    /\ rows' = rows \ going
    /\ going' = {}
    /\ step' = "idle"
    /\ UNCHANGED <<now, active, quota, files, batch, left, history>>

\* The process dies and starts again; nothing looks through the directory then.
Crash ==
    /\ ~Free
    /\ crashes < MaxCrashes
    /\ crashes' = crashes + 1
    /\ orphans' = orphans \cup (InHand \ Shas(rows))
    /\ interrupted' = (interrupted \/ step = "purge")
    /\ step' = "idle"
    /\ todo' = <<>>
    /\ going' = {}
    /\ left' = {}
    /\ UNCHANGED <<now, active, stored, started, worked>>

Tick ==
    /\ now < MaxNow
    /\ now' = now + 1
    /\ UNCHANGED <<active, stored, step, batch, purge, history>>

Work == SkipBad \/ Write \/ Keep \/ Discard \/ Unlink \/ Commit

Next ==
    \/ RefuseBatch
    \/ \E b \in Batches : TakeBatch(b)
    \/ Work
    \/ Deactivate
    \/ Activate
    \/ Sweep
    \/ Crash
    \/ Tick

Spec == Init /\ [][Next]_vars

\* The handler that holds the lock goes on (every call it makes times out), the
\* sweeper keeps running, and time passes.
FairSpec == Spec /\ WF_vars(Work) /\ WF_vars(Sweep) /\ WF_vars(Tick)

----------------------------------------------------------------------------
\* Properties.

\* Cleanup finds files by their rows alone: every file has one that will lead to
\* it, is in hand, or was left behind by a crash.
FilesAccountedFor == files \subseteq Shas(rows) \cup InHand \cup orphans

\* With the grant of a contact the images go, unless a crash cut the purge short.
NoImagesWithoutGrant ==
    ~active /\ Free /\ ~interrupted => rows = {} /\ files \subseteq orphans

\* No more attachments are worked on in a window than the day allows, however
\* the batches end: refused, failed, or in a crash.
QuotaBoundsWork == worked <= MaxPerDay

\* Every file is deleted in the end, crashes between file and row excepted:
\* neither a shared file nor a purge cut short keeps one.
FilesGo == \A i \in Images : i \in files ~> i \notin files \/ i \in orphans

=============================================================================
