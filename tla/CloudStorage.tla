---------------------------- MODULE CloudStorage ----------------------------
(***************************************************************************)
(* py_utils.cloud_storage: processes fetch the same local file, each under *)
(* the lock of that file (module PseudoLock, used here as the mutex it     *)
(* implements).  A download goes to a temporary file first.                *)
(***************************************************************************)
EXTENDS Naturals, FiniteSets

CONSTANTS
  Processes,
  Hashes,     \* contents, which stand for their hashes
  None,
  Enabled     \* IsNetworkIOEnabled: DISABLE_CLOUD_STORAGE_IO is not 1

Partial == "partial"
Errors == {"NotFoundError", "ServerError", "CredentialsError", "PermissionError",
           "CloudStorageError", "CloudStorageIODisabled", "TimeoutException"}

VARIABLES
  pc, op,      \* where each process is, and in which function
  want,        \* the contents it asks for
  downloads,   \* gsutil commands it has tried in this call
  answer,      \* what its last call returned or raised
  holder,      \* who holds the lock of the file
  file,        \* the local file
  hashFile,    \* the .sha1 file beside it
  temp,        \* the temporary file of each process
  bucket       \* what the bucket holds

calls == <<pc, op, want, downloads, answer>>
local == <<file, temp>>
vars == <<calls, holder, hashFile, local, bucket>>

Contents == Hashes \cup {None, Partial}

Init ==
  /\ pc = [p \in Processes |-> "idle"]
  /\ op = [p \in Processes |-> "none"]
  /\ want = [p \in Processes |-> None]
  /\ downloads = [p \in Processes |-> 0]
  /\ answer = [p \in Processes |-> "none"]
  /\ holder = None
  /\ file \in Hashes \cup {None} /\ hashFile \in Hashes \cup {None}
  /\ temp = [p \in Processes |-> None]
  /\ bucket \in SUBSET Hashes

Goes(p, from, to) == pc[p] = from /\ pc' = [pc EXCEPT ![p] = to]

(* The call ends; the lock is still held, until it is released.            *)
Ends(p, from, how) ==
  /\ Goes(p, from, "ends")
  /\ answer' = [answer EXCEPT ![p] = how]
  /\ UNCHANGED <<op, want, downloads>>

-----------------------------------------------------------------------------
Call(p) ==
  /\ Goes(p, "idle", "waits")
  /\ \E name \in {"Get", "GetIfHashChanged", "GetIfChanged"}, hash \in Hashes :
       /\ op' = [op EXCEPT ![p] = name]
       /\ want' = [want EXCEPT ![p] = hash]
  /\ downloads' = [downloads EXCEPT ![p] = 0]
  /\ answer' = [answer EXCEPT ![p] = "none"]
  /\ UNCHANGED <<holder, hashFile, local, bucket>>

(* Mutant: the file is not locked.                                         *)
NoLock(p) == UNCHANGED holder

TakeLock(p) == holder = None /\ holder' = p

Acquire(p) ==
  /\ Goes(p, "waits", "checks")
  /\ TakeLock(p)
  /\ UNCHANGED <<op, want, downloads, answer, hashFile, local, bucket>>

WaitTimesOut(p) ==
  /\ Goes(p, "waits", "idle")
  /\ answer' = [answer EXCEPT ![p] = "TimeoutException"]
  /\ UNCHANGED <<op, want, downloads, holder, hashFile, local, bucket>>

(* GetIfChanged takes the hash from the file; without one it returns.      *)
Wanted(p) == IF op[p] = "GetIfChanged" THEN hashFile ELSE want[p]

Checks(p) ==
  /\ pc[p] = "checks"
  /\ IF op[p] # "Get" /\ Wanted(p) \in {file, None}
       THEN Ends(p, "checks", "unchanged")
       ELSE /\ Goes(p, "checks", "downloads")
            /\ want' = [want EXCEPT ![p] = Wanted(p)]
            /\ UNCHANGED <<op, downloads, answer>>
  /\ UNCHANGED <<holder, hashFile, local, bucket>>

(* gsutil writes the temporary file; the error that it reports is told by  *)
(* its words, and a server error is worth one more attempt.                *)
Downloads(p) ==
  /\ Goes(p, "downloads", "copied")
  /\ Enabled /\ want[p] \in bucket
  /\ temp' = [temp EXCEPT ![p] = want[p]]
  /\ UNCHANGED <<op, want, downloads, answer, holder, hashFile, file, bucket>>

WorthRetrying(p, error) == error = "ServerError" /\ downloads[p] = 0

(* Mutant: the repeated download is not counted.                           *)
NotCounted(p) == downloads[p]

Counted(p) == downloads[p] + 1

Reported(p) ==
  IF ~Enabled THEN {"CloudStorageIODisabled"}
  ELSE (Errors \ {"CloudStorageIODisabled", "TimeoutException", "NotFoundError"})
       \cup IF want[p] \in bucket THEN {} ELSE {"NotFoundError"}

DownloadFails(p) ==
  /\ pc[p] = "downloads"
  /\ \E error \in Reported(p) :
       IF WorthRetrying(p, error)
         THEN /\ downloads' = [downloads EXCEPT ![p] = Counted(p)]
              /\ \E rest \in {None, Partial} : temp' = [temp EXCEPT ![p] = rest]
              /\ UNCHANGED <<pc, op, want, answer>>
         ELSE /\ Ends(p, "downloads", error)
              /\ temp' = [temp EXCEPT ![p] = None]
  /\ UNCHANGED <<holder, hashFile, file, bucket>>

(* The temporary file is in the same directory: the move is a renaming.    *)
Move(p) ==
  /\ Ends(p, "copied", "changed")
  /\ file' = temp[p]
  /\ temp' = [temp EXCEPT ![p] = None]

Moves(p) ==
  /\ pc[p] = "copied"
  /\ Move(p)
  /\ UNCHANGED <<holder, hashFile, bucket>>

Release(p) ==
  /\ Goes(p, "ends", "idle")
  /\ holder' = IF holder = p THEN None ELSE holder
  /\ UNCHANGED <<op, want, downloads, answer, hashFile, local, bucket>>

(* What the temporary file holds is lost: its name is known to nobody.     *)
Dies(p) ==
  /\ pc[p] # "idle"
  /\ pc' = [pc EXCEPT ![p] = "idle"]
  /\ op' = [op EXCEPT ![p] = "none"] /\ want' = [want EXCEPT ![p] = None]
  /\ downloads' = [downloads EXCEPT ![p] = 0] /\ answer' = [answer EXCEPT ![p] = "none"]
  /\ temp' = [temp EXCEPT ![p] = None]
  /\ holder' = IF holder = p THEN None ELSE holder
  /\ UNCHANGED <<file, hashFile, bucket>>

-----------------------------------------------------------------------------
(* Insert, Delete and Move change the bucket; a checkout, the hash file.   *)
Others ==
  /\ \/ bucket' \in {bucket \cup {h} : h \in Hashes} /\ UNCHANGED hashFile
     \/ bucket' \in {bucket \ {h} : h \in Hashes} /\ UNCHANGED hashFile
     \/ hashFile' \in Hashes \cup {None} /\ UNCHANGED bucket
  /\ UNCHANGED <<calls, holder, local>>

Proceeds(p) ==
  \/ Acquire(p) \/ WaitTimesOut(p) \/ Checks(p) \/ Downloads(p)
  \/ DownloadFails(p) \/ Moves(p) \/ Release(p)

Next == (\E p \in Processes : Call(p) \/ Proceeds(p) \/ Dies(p)) \/ Others

Spec == Init /\ [][Next]_vars
FairSpec == Spec /\ \A p \in Processes : WF_vars(Proceeds(p))

-----------------------------------------------------------------------------
TypeOK ==
  /\ pc \in [Processes -> {"idle", "waits", "checks", "downloads", "copied", "ends"}]
  /\ op \in [Processes -> {"none", "Get", "GetIfHashChanged", "GetIfChanged"}]
  /\ want \in [Processes -> Hashes \cup {None}]
  /\ downloads \in [Processes -> 0..1]
  /\ answer \in [Processes -> Errors \cup {"none", "unchanged", "changed"}]
  /\ holder \in Processes \cup {None}
  /\ file \in Contents /\ hashFile \in Hashes \cup {None}
  /\ temp \in [Processes -> Contents]
  /\ bucket \subseteq Hashes

(* Whoever looks at the local file, with or without the lock and whoever   *)
(* has died, finds whole contents or no file.                              *)
FileIsWhole == file # Partial

(* When a call returns, and until it releases the lock, the file is the    *)
(* one that was asked for.                                                 *)
CallerHasItsFile ==
  \A p \in Processes :
    pc[p] = "ends" =>
      /\ answer[p] = "changed" => file = want[p]
      /\ answer[p] = "unchanged" /\ op[p] = "GetIfHashChanged" => file = want[p]

DownloadsAreWhole == FileIsWhole /\ CallerHasItsFile

(* What the constants stand for.                                           *)
ContentsDiffer == None \notin Hashes \cup Processes /\ Partial \notin Hashes \cup {None}

ASSUME CloudStorageAssumption == ContentsDiffer

Locked == {"checks", "downloads", "copied", "ends"}

HolderWorks == \A p \in Processes : pc[p] \in Locked => holder = p

MovesWhatItWants ==
  \A p \in Processes :
    /\ pc[p] \in {"waits", "checks", "downloads"} => want[p] \in Hashes
    /\ pc[p] = "copied" => temp[p] = want[p] /\ temp[p] \in Hashes

(* The inductive invariant: only the holder of the lock is at work, and    *)
(* what it moves is what it asked for.                                     *)
IInv == TypeOK /\ HolderWorks /\ DownloadsAreWhole /\ MovesWhatItWants

(* Every call that waits for the lock comes to its end: it gets the lock   *)
(* or times out, and its download is retried only once.                    *)
CallersReturn == \A p \in Processes : pc[p] = "waits" ~> pc[p] = "idle"
=============================================================================
