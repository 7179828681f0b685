----------------------------- MODULE ConfigUpdate -----------------------------
(***************************************************************************)
(* dependency_manager: a writable BaseConfig collects update jobs, uploads *)
(* their files to the bucket, rewrites the config file, and rolls the      *)
(* uploads back when anything fails.  The pairs <dependency, platform>     *)
(* share one dependency, so that the path of a file in the bucket is given *)
(* by its hash; the hash stands for the contents, too.                     *)
(***************************************************************************)
EXTENDS Naturals, Sequences

CONSTANTS
  Pairs,        \* <dependency, platform> pairs of the config
  Bucketless,   \* those whose dependency names no bucket
  Hashes,
  Initial,      \* the hash that the checked-out config holds
  Other,        \* contents whose hash is not the one in their path
  Absent,
  Broken,       \* a config file that is no JSON
  MaxJobs,      \* bound on the pending uploads
  UsedAgain,    \* whether a config is used after an update that was rolled back
  SameFile      \* whether two pending jobs may upload the same file

VARIABLES
  disk,     \* the hashes in the config file
  memory,   \* _config_data
  pending,  \* _pending_uploads
  pc,
  force,    \* the argument of ExecuteUpdateJobs
  at,       \* the job being uploaded or rolled back
  bucket,
  before,   \* the bucket when the update began
  unnoted,  \* the file that was uploaded, but not noted as such
  written   \* an interrupt came after the config file was written
            \* (these three are read by properties only)

vars == <<disk, memory, pending, pc, force, at, bucket, before, unnoted, written>>

Backup(hash) == <<"old", hash>>
NoName == <<"None">>   \* what a backup path of None becomes in an address
Objects == Hashes \cup {Backup(h) : h \in Hashes} \cup {NoName}
Contents == Hashes \cup {Other, Absent}
Configs == [Pairs -> Hashes]

Job(pair, hash) ==
  [pair |-> pair, hash |-> hash, backup |-> Backup(hash),
   backedUp |-> FALSE, updated |-> FALSE]

IsDirty == memory # disk

Init ==
  /\ disk = [p \in Pairs |-> Initial]
  /\ memory = disk /\ pending = <<>> /\ pc = "idle" /\ force = FALSE /\ at = 1
  /\ bucket \in {[o \in Objects |-> IF o = Initial THEN Initial ELSE
                                    IF o \in Hashes THEN there[o] ELSE Absent] :
                  there \in [Hashes -> Contents \ (Hashes \ {Initial})]}
  /\ before = bucket /\ unnoted = {} /\ written = FALSE

-----------------------------------------------------------------------------
Begin(forced) ==
  /\ pc' = "uploads" /\ at' = 1 /\ force' = forced
  /\ before' = bucket /\ unnoted' = {}

Refuses(pair) == pair \in Bucketless

(* A job that is to be executed at once is refused on a dirty config.  The *)
(* hash is set before the uploader refuses a missing bucket.  A config     *)
(* that the job has not made dirty is left, and so is the upload.          *)
AddJob(pair, hash, execute) ==
  LET changed == [memory EXCEPT ![pair] = hash] IN
  /\ pc = "idle" /\ disk # Broken
  /\ Len(pending) < MaxJobs
  /\ SameFile \/ \A i \in DOMAIN pending : pending[i].hash # hash
  /\ ~(execute /\ IsDirty)
  /\ memory' = changed
  /\ IF Refuses(pair) THEN UNCHANGED <<pending, pc, force, at, before, unnoted>>
     ELSE /\ pending' = Append(pending, Job(pair, hash))
          /\ IF execute /\ changed # disk THEN Begin(FALSE)
             ELSE UNCHANGED <<pc, force, at, before, unnoted>>
  /\ UNCHANGED <<disk, bucket, written>>

ExecuteUpdateJobs(forced) ==
  /\ pc = "idle" /\ disk # Broken
  /\ IsDirty /\ pending # <<>>
  /\ Begin(forced)
  /\ UNCHANGED <<disk, memory, pending, bucket, written>>

Raise == pc' = "rollback" /\ at' = Len(pending)

(* One job of the update: an existing file is a conflict or, when forced,  *)
(* copied to the backup; then the new one is inserted.                     *)
Uploads == pc \in {"uploads", "inserts"} /\ at <= Len(pending)
Exists == bucket[pending[at].hash] # Absent

MayReplace == force

BackedUp == pending' = [pending EXCEPT ![at].backedUp = TRUE]

BackUp ==
  /\ Uploads /\ pc = "uploads" /\ pc' = "inserts"
  /\ IF Exists
       THEN /\ MayReplace
            /\ bucket' = [bucket EXCEPT ![pending[at].backup] = bucket[pending[at].hash]]
            /\ BackedUp
       ELSE UNCHANGED <<bucket, pending>>
  /\ UNCHANGED <<disk, memory, force, at, before, unnoted, written>>

Insert ==
  /\ Uploads /\ pc = "inserts" /\ pc' = "uploads"
  /\ bucket' = [bucket EXCEPT ![pending[at].hash] = pending[at].hash]
  /\ pending' = [pending EXCEPT ![at].updated = TRUE]
  /\ at' = at + 1
  /\ UNCHANGED <<disk, memory, force, before, unnoted, written>>

(* A conflict, or a command of gsutil that fails.                          *)
UploadFails ==
  /\ Uploads
  /\ Raise
  /\ UNCHANGED <<disk, memory, pending, force, bucket, before, unnoted, written>>

Write ==
  /\ pc = "uploads" /\ at > Len(pending)
  /\ disk' = memory /\ pending' = <<>> /\ pc' = "idle"

WriteConfig == Write /\ UNCHANGED <<memory, force, at, bucket, before, unnoted, written>>

(* The file is truncated by its opening; Ctrl+C may come between a command *)
(* of gsutil and the note of its success, or before the pending jobs are   *)
(* dropped.                                                                *)
IsInterrupted ==
  /\ pc \in {"uploads", "inserts"}
  /\ Raise
  /\ \/ /\ Uploads /\ pc = "uploads" /\ Exists /\ force
        /\ bucket' = [bucket EXCEPT ![pending[at].backup] = bucket[pending[at].hash]]
        /\ UNCHANGED <<disk, unnoted, written>>
     \/ /\ Uploads /\ pc = "inserts"
        /\ bucket' = [bucket EXCEPT ![pending[at].hash] = pending[at].hash]
        /\ unnoted' = {pending[at].hash}
        /\ UNCHANGED <<disk, written>>
     \/ /\ at > Len(pending)
        /\ \/ disk' = Broken /\ UNCHANGED written
           \/ disk' = memory /\ written' = TRUE
        /\ UNCHANGED <<bucket, unnoted>>
  /\ UNCHANGED <<memory, pending, force, before>>

-----------------------------------------------------------------------------
(* Mutant: a file that was uploaded stays in the bucket.                   *)
Kept(job) == bucket

Deleted(job) == IF job.updated THEN [bucket EXCEPT ![job.hash] = Absent] ELSE bucket

JobBefore == at - 1

(* The jobs are rolled back from the last to the first.                    *)
Rollback ==
  LET job == pending[at]
      source == bucket[job.backup] IN
  /\ pc = "rollback" /\ at > 0
  /\ at' = JobBefore /\ pc' = pc
  /\ IF job.backedUp
       THEN /\ source # Absent
            /\ bucket' = [bucket EXCEPT ![job.hash] = source]
            /\ pending' = [pending EXCEPT ![at].backup = NoName, ![at].updated = FALSE]
       ELSE /\ bucket' = Deleted(job)
            /\ pending' = [pending EXCEPT ![at].updated = FALSE]
  /\ UNCHANGED <<disk, memory, force, before, unnoted, written>>

(* A rollback that fails leaves the rest of the jobs as they are.          *)
RollbackFails ==
  /\ pc = "rollback" /\ at > 0
  /\ pending[at].backedUp \/ pending[at].updated
  /\ pc' = "stuck"
  /\ UNCHANGED <<disk, memory, pending, force, at, bucket, before, unnoted, written>>

RolledBack ==
  /\ pc = "rollback" /\ at = 0
  /\ pc' = "failed"
  /\ UNCHANGED <<disk, memory, pending, force, at, bucket, before, unnoted, written>>

Again ==
  /\ UsedAgain /\ pc = "failed"
  /\ pc' = "idle"
  /\ UNCHANGED <<disk, memory, pending, force, at, bucket, before, unnoted, written>>

(* The process ends, or is killed, and a new one reads the config file; a  *)
(* broken one it cannot read until it is checked out again.                *)
NewProcess ==
  /\ disk' = IF disk = Broken THEN [p \in Pairs |-> Initial] ELSE disk
  /\ memory' = disk' /\ pending' = <<>> /\ pc' = "idle" /\ force' = FALSE /\ at' = 1
  /\ before' = bucket /\ unnoted' = {} /\ written' = (written /\ disk # Broken)
  /\ UNCHANGED bucket

Next ==
  \/ \E pair \in Pairs, hash \in Hashes, execute \in BOOLEAN : AddJob(pair, hash, execute)
  \/ \E forced \in BOOLEAN : ExecuteUpdateJobs(forced)
  \/ BackUp \/ Insert \/ UploadFails \/ WriteConfig \/ IsInterrupted
  \/ Rollback \/ RollbackFails \/ RolledBack \/ Again \/ NewProcess

Spec == Init /\ [][Next]_vars
GoesOn ==
  BackUp \/ Insert \/ UploadFails \/ WriteConfig \/ Rollback \/ RollbackFails \/ RolledBack
FairSpec == Spec /\ WF_vars(GoesOn)

-----------------------------------------------------------------------------
Jobs ==
  [pair : Pairs \ Bucketless, hash : Hashes, backup : Objects, backedUp : BOOLEAN, updated : BOOLEAN]

TypeOK ==
  /\ disk \in Configs \cup {Broken} /\ memory \in Configs
  /\ pending \in Seq(Jobs)
  /\ Len(pending) <= MaxJobs
  /\ pc \in {"idle", "uploads", "inserts", "rollback", "failed", "stuck"}
  /\ force \in BOOLEAN /\ at \in 0..(MaxJobs + 1)
  /\ bucket \in [Objects -> Contents] /\ before \in [Objects -> Contents]
  /\ unnoted \in SUBSET Hashes /\ written \in BOOLEAN

(* Whatever the config file names can be downloaded, with the contents of  *)
(* its hash: a config is never ahead of the bucket, unless the update was  *)
(* interrupted after the file was written.                                 *)
Named == disk # Broken /\ ~written
ConfigIsDownloadable ==
  Named => \A p \in Pairs \ Bucketless : bucket[disk[p]] = disk[p]

(* A new file whose upload was interrupted before it was noted remains, as *)
(* a whole.                                                                *)
Remains(h) == h \in unnoted /\ before[h] = Absent /\ bucket[h] = h

(* "both ... or neither", and "even user interrupt via Ctrl+C": a failed   *)
(* update that has been rolled back leaves each file of the bucket as it   *)
(* was, but for that one.                                                  *)
FailureRestores == pc = "failed" => \A h \in Hashes : bucket[h] = before[h] \/ Remains(h)

(* An update that is not forced leaves every file that was in the bucket.  *)
UnforcedKeepsFiles ==
  pc \in {"uploads", "inserts", "rollback", "failed"} /\ ~force =>
    \A h \in Hashes : before[h] # Absent => bucket[h] = before[h]

Uploading == pc = "uploads"
Over == pc \in {"idle", "failed", "stuck"}

(* An update changes the config file only by all its jobs, each of them    *)
(* uploaded by then, unless it breaks the file.                            *)
UpdatedTogether ==
   disk' # disk /\ Broken \notin {disk, disk'} =>
        \A i \in DOMAIN pending : pending[i].updated
                                  /\ disk'[pending[i].pair] = memory[pending[i].pair]

-----------------------------------------------------------------------------
(* What the constants stand for.                                           *)
NamesDiffer ==
  /\ Initial \in Hashes /\ Other \notin Hashes /\ Absent \notin Hashes /\ Absent # Other
  /\ Broken \notin Configs /\ MaxJobs \in Nat
  /\ \A h \in Hashes : Backup(h) \notin Hashes /\ Backup(h) # NoName
  /\ NoName \notin Hashes

(* Nobody goes on with a config that was rolled back, and no two pending   *)
(* jobs upload the same file.                                              *)
Careful == ~UsedAgain /\ ~SameFile

InUpdate == pc \in {"uploads", "inserts", "rollback"}

(* A job that has done nothing, one that can be rolled back, and one that  *)
(* has been.                                                               *)
Fresh(job) == job.backup = Backup(job.hash) /\ ~job.backedUp /\ ~job.updated
Uploaded(job) == job.updated \/ job.hash \in unnoted
Intact(job) ==
  /\ bucket[job.hash] = IF Uploaded(job) THEN job.hash ELSE before[job.hash]
  /\ job.backup = Backup(job.hash)
  /\ job.backedUp => before[job.hash] # Absent /\ bucket[job.backup] = before[job.hash]
  /\ Uploaded(job) /\ ~job.backedUp => before[job.hash] = Absent

Undone(job) == bucket[job.hash] = before[job.hash] \/ Remains(job.hash)

(* No two pending jobs upload the same file.                               *)
DistinctFiles == \A i, j \in DOMAIN pending : pending[i].hash = pending[j].hash => i = j

(* What the config in memory names and the file does not is pending.       *)
MemoryIsPending ==
  disk # Broken =>
    \A p \in Pairs \ Bucketless :
      memory[p] = disk[p] \/ \E i \in DOMAIN pending : pending[i].hash = memory[p]

(* The jobs from the current one on have done nothing, those before it are *)
(* uploaded; only an interrupt leaves one unnoted or breaks the file.      *)
AwaitsUpload(i) ==
  \/ pc = "idle"
  \/ pc = "uploads" /\ i >= at
  \/ pc = "inserts" /\ i > at
PendingIsFresh == \A i \in DOMAIN pending : AwaitsUpload(i) => Fresh(pending[i])

UploadedSoFar ==
  pc \in {"uploads", "inserts"} =>
    /\ unnoted = {} /\ disk # Broken
    /\ at # 0 /\ at <= Len(pending) + 1
    /\ \A i \in DOMAIN pending : i < at => pending[i].updated
    /\ pc = "inserts" => /\ at <= Len(pending) /\ ~pending[at].updated
                         /\ pending[at].backedUp \/ before[pending[at].hash] = Absent

(* What a job of the update has done can be undone, and nothing else has   *)
(* changed in the bucket.                                                  *)
CanBeUndone ==
  InUpdate =>
    /\ pc = "rollback" => at <= Len(pending)
    /\ \A i \in DOMAIN pending :
         IF pc = "rollback" /\ i > at THEN Undone(pending[i]) ELSE Intact(pending[i])
    /\ \A h \in Hashes : (\A i \in DOMAIN pending : pending[i].hash # h) => bucket[h] = before[h]
    /\ Named => \A p \in Pairs \ Bucketless : before[disk[p]] = disk[p]

(* The file of the config that is checked out is never lost.               *)
InitialStays == bucket[Initial] = Initial /\ before[Initial] = Initial

(* The inductive invariant, as long as everybody is careful.               *)
IInv ==
  /\ TypeOK /\ ConfigIsDownloadable /\ FailureRestores /\ InitialStays
  /\ DistinctFiles /\ MemoryIsPending /\ PendingIsFresh /\ UploadedSoFar /\ CanBeUndone
=============================================================================
