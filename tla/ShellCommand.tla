----------------------------- MODULE ShellCommand -----------------------------
(***************************************************************************)
(* DeviceUtils.RunShellCommand over AdbWrapper.Shell: one command after    *)
(* the other, each with a status and an output that adb may truncate, lose *)
(* or replace by an error of its own; temporary files on the device.       *)
(***************************************************************************)
EXTENDS Naturals, FiniteSets

CONSTANTS
  AdbTries,     \* tries of one adb command
  Tries,        \* tries of RunShellCommand
  MaxTemps,     \* bound on the temporary files at one time
  AdbFails      \* TRUE: adb may fail by itself

VARIABLES
  pc, check, large, script, \* the call: check_return, large_output, a long cmd
  isLong, status,           \* the command: its output is long; its exit status
  mode,                     \* large_output_mode of handle_large_output
  adbTry, try,
  runs,                     \* how often the device has run the command
  held, deleting, temps,    \* temporary files: of the call, in deletion, there
  undeleted,                \* and those whose deletion has failed
  result                    \* [out |-> , status |-> ] of the last call

command == <<check, large, script, isLong, status>>
files == <<held, deleting, temps, undeleted>>
vars == <<pc, command, mode, adbTry, try, runs, files, result>>

None == [out |-> "none"]
Output(out, code) == [out |-> out, status |-> code]

Init ==
  /\ pc = "idle" /\ mode = FALSE /\ adbTry = 0 /\ try = 0 /\ runs = 0
  /\ check = FALSE /\ large = FALSE /\ script = FALSE /\ isLong = FALSE /\ status = 0
  /\ held = {} /\ deleting = {} /\ temps = {} /\ undeleted = {}
  /\ result = None

Call ==
  /\ pc = "idle" /\ pc' = "starts"
  /\ check' \in BOOLEAN /\ large' \in BOOLEAN /\ script' \in BOOLEAN
  /\ isLong' \in BOOLEAN /\ status' \in {0, 1}
  /\ mode' = large' /\ adbTry' = 1 /\ try' = 1 /\ runs' = 0 /\ result' = None
  /\ UNCHANGED files

-----------------------------------------------------------------------------
(* DeviceTempFile: a name when it is entered, an asynchronous rm when it   *)
(* is left, by whatever way.                                               *)
Free == 1 .. MaxTemps \ (temps \cup deleting)

Enter ==
  /\ pc = "starts"
  /\ LET n == (IF mode THEN 1 ELSE 0) + (IF script THEN 1 ELSE 0) IN
       /\ Cardinality(Free) >= n
       /\ held' = CHOOSE names \in SUBSET Free : Cardinality(names) = n
  /\ pc' = IF script THEN "push" ELSE "shell"
  /\ adbTry' = 1
  /\ UNCHANGED <<command, mode, try, runs, deleting, temps, undeleted, result>>

Leave == held' = {} /\ deleting' = deleting \cup held

Delete(t) ==
  /\ t \in deleting /\ deleting' = deleting \ {t}
  /\ temps' = temps \ {t}
  /\ UNCHANGED <<pc, command, mode, adbTry, try, runs, held, undeleted, result>>

(* The deleting thread swallows the error of rm, or ends with it: nobody   *)
(* tries again. (MaxTemps bounds the files that stay: a call has two.)     *)
DeletionFails(t) ==
  /\ AdbFails
  /\ t \in deleting \cap temps /\ deleting' = deleting \ {t}
  /\ Cardinality(undeleted) + 2 < MaxTemps
  /\ undeleted' = undeleted \cup {t}
  /\ UNCHANGED <<pc, command, mode, adbTry, try, runs, held, temps, result>>

Return(out, code) ==
  /\ pc' = "idle" /\ result' = Output(out, code)
  /\ Leave /\ UNCHANGED <<mode, try>>

(* The call ends, or it is tried again from the start.                     *)
Raise(error) ==
  IF try < Tries
    THEN /\ try' = try + 1 /\ pc' = "starts" /\ mode' = large
         /\ Leave /\ UNCHANGED result
    ELSE Return(error, status)

(* The script goes to a file on the device, and the command is to run it.  *)
PushScript ==
  /\ pc = "push" /\ UNCHANGED <<command, runs, adbTry, undeleted>>
  /\ \/ pc' = "shell" /\ temps' = temps \cup held /\ UNCHANGED <<mode, try, held, deleting, result>>
     \/ AdbFails /\ Raise("error") /\ temps' \in {temps, temps \cup held}

-----------------------------------------------------------------------------
(* The device runs the command, whether or not adb will tell.              *)
Runs == runs' = runs + 1 /\ temps' = IF mode THEN temps \cup held ELSE temps

(* Mutant: a status that is missing is a success.                          *)
LastIsSuccess == 0

(* AdbWrapper.Shell asks for the status after the output: it is missing    *)
(* when the output is truncated.                                           *)
MissingStatus == 255

Reported == IF isLong /\ ~mode THEN MissingStatus ELSE status

(* handle_check_return: without it, what an error carries is the output.   *)
Failed(out, code) == IF check THEN Raise(out) ELSE Return(out, code)

Shell ==
  /\ pc = "shell" /\ Runs /\ UNCHANGED <<command, adbTry, undeleted>>
  /\ \/ /\ Reported = 0
        /\ IF mode THEN pc' = "read" /\ UNCHANGED <<mode, try, held, deleting, result>>
           ELSE Return(IF isLong THEN "part" ELSE "whole", 0)
     \/ /\ Reported = 1
        /\ IF mode /\ ~check THEN pc' = "read" /\ UNCHANGED <<mode, try, held, deleting, result>>
           ELSE Failed("whole", 1)
     \/ /\ Reported = MissingStatus
        /\ IF check
             THEN /\ mode' = TRUE /\ pc' = "starts" /\ Leave   \* handle_large_output(cmd, True)
                  /\ UNCHANGED <<try, result>>
             ELSE Return("part", MissingStatus)

(* adb fails before or after the command ran: it is tried again, then      *)
(* raises; a device that is gone raises whatever was asked for.            *)
AdbError ==
  /\ pc = "shell" /\ AdbFails /\ UNCHANGED <<command, undeleted>>
  /\ Runs \/ UNCHANGED <<runs, temps>>
  /\ IF adbTry < AdbTries
       THEN adbTry' = adbTry + 1 /\ UNCHANGED <<pc, mode, try, held, deleting, result>>
       ELSE /\ UNCHANGED adbTry
            /\ Raise("unreachable")
               \/ IF mode /\ ~check THEN pc' = "read" /\ UNCHANGED <<mode, try, held, deleting, result>>
                  ELSE Failed("adb", 1)

(* ReadFile(force_pull=True) of the output.                                *)
PullOutput ==
  /\ pc = "read" /\ UNCHANGED <<command, adbTry, runs, temps, undeleted>>
  /\ \/ held \cap temps # {} /\ Return("whole", status)
     \/ (AdbFails \/ held \cap temps = {}) /\ Raise("error")

Next ==
  \/ Call \/ Enter \/ PushScript \/ Shell \/ AdbError \/ PullOutput
  \/ \E t \in deleting : Delete(t) \/ DeletionFails(t)

Spec == Init /\ [][Next]_vars

-----------------------------------------------------------------------------
Ended == pc = "idle" /\ result # None

(* With check_return, what is returned as the output is all of it, of a    *)
(* command that succeeded.                                                 *)
CheckedIsWhole ==
  Ended /\ check /\ result.out \in {"whole", "part"} /\ result.status = 0 =>
    result.out = "whole" /\ status = 0 /\ runs > 0

(* A command may run again: after a lost answer, to redirect its output,   *)
(* and with each try of the call, but no more than that.                   *)
RunsAreBounded == runs <= Tries * 2 * AdbTries

(* Every temporary file on the device is of the running call or about to   *)
(* be deleted, or the one deletion of it has failed.                       *)
TempsHaveOwners == temps \subseteq held \cup deleting \cup undeleted

-----------------------------------------------------------------------------
TypeOK ==
  /\ pc \in {"idle", "starts", "push", "shell", "read"}
  /\ check \in BOOLEAN /\ large \in BOOLEAN /\ script \in BOOLEAN /\ isLong \in BOOLEAN
  /\ status \in {0, 1} /\ mode \in BOOLEAN
  /\ adbTry \in 0 .. AdbTries /\ try \in 0 .. Tries /\ runs \in Nat

(* A call has temporary files from when it enters them until it leaves.    *)
HeldWhileRunning == pc \in {"idle", "starts"} => held = {}

(* What the earlier tries may have cost, and what this one has: each of    *)
(* them runs with a pipe first and then with a file, once for each try of  *)
(* adb.                                                                    *)
Spent(t) == t * (2 * AdbTries)

RunsSoFar ==
  pc # "idle" =>
    /\ try >= 1
    /\ pc \in {"starts", "push"} => runs <= Spent(try - 1) + (IF mode THEN AdbTries ELSE 0)
    /\ pc \in {"push", "shell"} => adbTry >= 1
    /\ pc = "shell" => runs + 1 <= Spent(try - 1) + (IF mode THEN AdbTries ELSE 0) + adbTry
    /\ pc = "read" => runs <= Spent(try)

(* An output is only read after a command that has run.                    *)
ReadHasRun == pc = "read" /\ check => runs > 0

IInv ==
  /\ TypeOK /\ HeldWhileRunning /\ RunsSoFar /\ ReadHasRun
  /\ CheckedIsWhole /\ RunsAreBounded /\ TempsHaveOwners

(* What the constants stand for.                                           *)
TriesAreMade == AdbTries \in Nat \ {0} /\ Tries \in Nat \ {0} /\ MaxTemps \in Nat
=============================================================================
