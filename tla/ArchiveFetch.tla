----------------------------- MODULE ArchiveFetch -----------------------------
(***************************************************************************)
(* dependency_manager: CloudStorageInfo.GetRemotePath downloads an archive *)
(* and ArchiveInfo.GetUnzippedPath unzips it into a directory named after  *)
(* its hash, once the directories of other versions are removed.  Only the *)
(* download is locked.                                                     *)
(***************************************************************************)
EXTENDS Naturals, FiniteSets

CONSTANTS
  Processes,
  Hashes,   \* the versions of the archive
  Lacking,  \* those without the dependency in them
  Bad,      \* those with a member outside of the archive, or unreadable
  None,
  Killed    \* whether a process may be killed

VARIABLES
  pc, want, answer,
  spoiled,  \* whether the directory was removed while the process unzips
  archive,  \* the file at the download path
  dir       \* for each version: None, or <the version unzipped, its stage>;
            \* stages: empty, partial (members missing), unset (all members,
            \* permissions not yet set), whole

vars == <<pc, want, answer, spoiled, archive, dir>>

Init ==
  /\ pc = [p \in Processes |-> "idle"]
  /\ want = [p \in Processes |-> None]
  /\ answer = [p \in Processes |-> "none"]
  /\ spoiled = [p \in Processes |-> FALSE]
  /\ archive = None
  /\ dir = [h \in Hashes |-> None]

Goes(p, from, to) == pc[p] = from /\ pc' = [pc EXCEPT ![p] = to]

Returns(p, from, what) ==
  Goes(p, from, "idle") /\ answer' = [answer EXCEPT ![p] = what]

(* The expected path is all that is looked at.                             *)
ShouldUnzipArchive(h) ==
  dir[h] = None \/ dir[h][2] = "empty" \/ dir[h][1] \in Lacking

-----------------------------------------------------------------------------
(* The archive is fetched if the file has another hash, or it is not.      *)
GetRemotePath(p, h) ==
  /\ want' = [want EXCEPT ![p] = h]
  /\ \/ Goes(p, "idle", "unzips") /\ archive' = h /\ answer' = [answer EXCEPT ![p] = "none"]
     \/ Returns(p, "idle", "CloudStorageError") /\ UNCHANGED archive
  /\ UNCHANGED <<spoiled, dir>>

Removes(p) == Hashes

(* rmtree of every directory that the glob finds; others lose what they    *)
(* are unzipping.                                                          *)
GetUnzippedPath(p) ==
  /\ pc[p] = "unzips"
  /\ IF ShouldUnzipArchive(want[p])
       THEN /\ Goes(p, "unzips", "makes")
            /\ dir' = [h \in Hashes |-> IF h \in Removes(p) THEN None ELSE dir[h]]
            /\ spoiled' = [q \in Processes |-> spoiled[q] \/ pc[q] = "extracts"]
            /\ UNCHANGED answer
       ELSE Returns(p, "unzips", "path") /\ UNCHANGED <<spoiled, dir>>
  /\ UNCHANGED <<want, archive>>

MakeDirs(p) ==
  /\ Goes(p, "makes", "verifies")
  /\ dir' = IF dir[want[p]] = None THEN [dir EXCEPT ![want[p]] = <<None, "empty">>] ELSE dir
  /\ UNCHANGED <<want, answer, spoiled, archive>>

(* The path that the handler removes is bound only after the verification. *)
VerifyFails(p) ==
  /\ archive \in Bad
  /\ Returns(p, "verifies", "UnboundLocalError")
  /\ UNCHANGED <<want, spoiled, archive, dir>>

ExtractAll(p) ==
  /\ archive \notin Bad
  /\ Goes(p, "verifies", "extracts")
  /\ dir' = [dir EXCEPT ![want[p]] = <<archive, "partial">>]
  /\ spoiled' = [spoiled EXCEPT ![p] = FALSE]
  /\ UNCHANGED <<want, answer, archive>>

(* What was removed meanwhile is not extracted again.                      *)
Extracted(p) ==
  /\ Goes(p, "extracts", "permits")
  /\ dir' = [dir EXCEPT ![want[p]] =
               <<archive, IF spoiled[p] THEN "partial" ELSE "unset">>]
  /\ UNCHANGED <<want, answer, spoiled, archive>>

SetUnzippedDirPermissions(p) ==
  /\ Goes(p, "permits", "checks")
  /\ dir' = IF dir[want[p]] # None /\ dir[want[p]][2] = "unset"
              THEN [dir EXCEPT ![want[p]][2] = "whole"] ELSE dir
  /\ UNCHANGED <<want, answer, spoiled, archive>>

RemoveDir(p) == dir' = [dir EXCEPT ![want[p]] = None]

ExtractFails(p) ==
  /\ \/ Returns(p, "extracts", "OSError")
     \/ Returns(p, "permits", "OSError")
  /\ RemoveDir(p)
  /\ spoiled' = [q \in Processes |-> spoiled[q] \/ (q # p /\ pc[q] = "extracts" /\ want[q] = want[p])]
  /\ UNCHANGED <<want, archive>>

Checked(p) ==
  Returns(p, "checks", IF ShouldUnzipArchive(want[p]) THEN "ArchiveError" ELSE "path")

CheckAgain(p) ==
  /\ Checked(p)
  /\ UNCHANGED <<want, spoiled, archive, dir>>

Dies(p) ==
  /\ Killed /\ pc[p] # "idle"
  /\ Returns(p, pc[p], "none")
  /\ UNCHANGED <<want, spoiled, archive, dir>>

Proceed(p) ==
  \/ GetUnzippedPath(p) \/ MakeDirs(p) \/ VerifyFails(p) \/ ExtractAll(p) \/ Extracted(p)
  \/ SetUnzippedDirPermissions(p) \/ ExtractFails(p) \/ CheckAgain(p)

Next ==
  \E p \in Processes :
    \/ \E h \in Hashes : GetRemotePath(p, h)
    \/ Proceed(p) \/ Dies(p)

Spec == Init /\ [][Next]_vars
FairSpec == Spec /\ \A p \in Processes : WF_vars(Proceed(p))

-----------------------------------------------------------------------------
(* The path that a call returns is the dependency of the version asked     *)
(* for, with all of its archive beside it and executable.                  *)
ReturnedIsWhole ==
   \A p \in Processes :
        pc[p] # "idle" /\ pc'[p] = "idle" /\ answer'[p] = "path" =>
          dir[want[p]] = <<want[p], "whole">>

(* A single process, killed wherever it may be, keeps one version of the   *)
(* dependency on the disk.                                                 *)
OneVersionOnDisk == Cardinality({h \in Hashes : dir[h] # None}) <= 1

Unzipping(p) == pc[p] = "unzips"
Returned(p) == pc[p] = "idle"
=============================================================================
