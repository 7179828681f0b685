----------------------------- MODULE BattOrAgent -----------------------------
(***************************************************************************)
(* Power tracing with a BattOr: the agent switches charging off, talks to  *)
(* the meter through a shell process, replaces its firmware when it is     *)
(* old, and switches charging on again. Starting, stopping and collecting  *)
(* run in a thread that the controller gives up on after a timeout; the    *)
(* thread goes on. Handlers at exit kill the shell and restore charging.   *)
(***************************************************************************)
EXTENDS Naturals

CONSTANTS
  MaxFaults,    \* bound on the commands that fail and on crashes of the shell
  Platforms,    \* the target platforms tried
  ChargingFails,  \* TRUE: a command that sets charging may take effect and fail
  ShellDies,      \* TRUE: the shell may crash
  TimesOut        \* TRUE: the controller may give up on a call

VARIABLES
  platform, given, battors, mapped,  \* the setup: what is attached and configured
  main,      \* the controller
  worker,    \* the thread of the current call: its next step
  started,   \* the agent is one of the controller's child agents
  charging, handler,   \* handler: charging is restored at exit
  ref,       \* _battor_shell is set
  shell,     \* the process
  tracing, firmware, results, faults

setup == <<platform, given, battors, mapped>>
agent == <<ref, tracing, results>>
vars == <<setup, main, worker, started, charging, handler, shell, firmware, faults, agent>>

Alive == {"ready", "tracing", "saving"}

Init ==
  /\ platform \in Platforms /\ given \in BOOLEAN /\ battors \in 0 .. 2 /\ mapped \in BOOLEAN
  /\ main = "start" /\ worker = "path" /\ started = FALSE
  /\ charging = TRUE /\ handler = FALSE
  /\ ref = FALSE /\ shell = "none" /\ tracing = FALSE
  /\ firmware \in {"old", "new"} /\ results = "none" /\ faults = 0

Fault == faults < MaxFaults /\ faults' = faults + 1

IsBattOrConnected ==
  CASE platform = "android" -> battors = 1 \/ mapped
    [] platform \in {"win", "mac", "linux"} -> battors > 0
    [] OTHER -> FALSE

GetBattOrPath ==
  CASE platform \in {"android", "linux"} /\ given -> "given"
    [] platform \in {"win", "mac"} /\ battors > 0 -> "found"
    [] platform = "android" /\ (battors = 1 \/ (battors > 1 /\ mapped)) -> "found"
    [] platform = "linux" /\ battors = 1 -> "found"
    [] OTHER -> "raises"

-----------------------------------------------------------------------------
(* The thread of a call. It ends with a value or an exception.             *)
Step(to) == worker' = to /\ UNCHANGED <<setup, main, started>>
Raise == Step("raised")

FindPath ==
  /\ worker = "path"
  /\ IF GetBattOrPath = "raises" THEN Raise ELSE Step("off")
  /\ UNCHANGED <<charging, handler, shell, firmware, faults, agent>>

Register == worker = "register" /\ Step("shell") /\ handler' = TRUE

SetCharging(from, on, to) ==
  /\ worker = from
  /\ \/ charging' = on /\ Step(to) /\ UNCHANGED faults
     \/ Raise /\ Fault /\ charging' \in {charging} \cup (IF ChargingFails THEN {on} ELSE {})
  /\ UNCHANGED <<handler, shell, firmware, agent>>

RegisterHandler == Register /\ UNCHANGED <<charging, shell, firmware, faults, agent>>

StartShell(to) ==
  /\ ref' = TRUE
  /\ \/ shell' = "ready" /\ Step(to) /\ UNCHANGED faults
     \/ shell' = "dead" /\ Raise /\ Fault

StartFirstShell ==
  /\ worker = "shell" /\ StartShell("hash")
  /\ UNCHANGED <<charging, handler, firmware, tracing, results>>

(* A pipe to a dead process: the write raises.                             *)
BrokenPipe(from) ==
  /\ worker = from /\ shell \notin Alive /\ Raise
  /\ UNCHANGED <<charging, handler, shell, firmware, faults, agent>>

(* A hash that is no number is logged and the firmware left alone.         *)
GetFirmwareGitHash ==
  /\ worker = "hash" /\ shell \in Alive
  /\ \/ Step(IF firmware = "old" THEN "exit" ELSE "trace") /\ UNCHANGED faults
     \/ Step("trace") /\ Fault
  /\ UNCHANGED <<charging, handler, shell, firmware, agent>>

StopShell ==
  /\ worker = "exit" /\ shell \in Alive
  /\ \/ shell' = "none" /\ UNCHANGED faults
     \/ shell' = "dead" /\ Fault
  /\ ref' = FALSE /\ Step("flash")
  /\ UNCHANGED <<charging, handler, firmware, tracing, results>>

(* A shell is started again whether avrdude succeeds or not.               *)
FlashFirmware ==
  /\ worker = "flash"
  /\ \/ firmware' = "new" /\ Step("reshell") /\ UNCHANGED faults
     \/ firmware' = "old" /\ Step("reshell after error") /\ Fault
  /\ UNCHANGED <<charging, handler, shell, agent>>

RestartShell ==
  /\ \/ worker = "reshell" /\ StartShell("trace")
     \/ worker = "reshell after error" /\ StartShell("raised")
  /\ UNCHANGED <<charging, handler, firmware, tracing, results>>

(* A command that is not answered "Done." costs the shell its life.        *)
StartTracing ==
  /\ worker = "trace" /\ shell \in Alive
  /\ \/ shell' = "tracing" /\ tracing' = TRUE /\ Step("returned") /\ UNCHANGED faults
     \/ shell' = "dead" /\ Raise /\ Fault /\ UNCHANGED tracing
  /\ UNCHANGED <<charging, handler, firmware, ref, results>>

StopTracing ==
  /\ worker = "stop" /\ tracing /\ shell \in Alive
  /\ shell' = "saving" /\ tracing' = FALSE /\ Step("on")
  /\ UNCHANGED <<charging, handler, firmware, faults, ref, results>>

CollectTraceData ==
  /\ worker = "collect"
  /\ shell \in {"done", "dead"}
  /\ results' = (IF shell = "done" THEN "whole" ELSE "partial")
  /\ ref' = FALSE /\ Step("returned")
  /\ UNCHANGED <<charging, handler, shell, firmware, faults, tracing>>

(* The wait is as long as the trace was, in whole seconds.                 *)
CollectionTimesOut ==
  /\ worker = "collect" /\ shell = "saving" /\ Step("raised timeout")
  /\ UNCHANGED <<charging, handler, shell, firmware, faults, agent>>

Works ==
  \/ FindPath \/ SetCharging("off", FALSE, "register") \/ RegisterHandler \/ StartFirstShell
  \/ \E w \in {"hash", "exit", "trace", "stop"} : BrokenPipe(w)
  \/ GetFirmwareGitHash \/ StopShell \/ FlashFirmware \/ RestartShell \/ StartTracing
  \/ StopTracing \/ SetCharging("on", TRUE, "returned")
  \/ CollectTraceData \/ CollectionTimesOut

-----------------------------------------------------------------------------
(* The process on its own.                                                 *)
World == UNCHANGED <<setup, main, worker, started, charging, handler, firmware, agent>>

ShellSaves == shell = "saving" /\ shell' = "done" /\ World /\ UNCHANGED faults
ShellCrashes == ShellDies /\ shell \in Alive /\ shell' = "dead" /\ Fault /\ World

-----------------------------------------------------------------------------
(* The controller.                                                         *)
Goes(m, w) ==
  /\ main' = m /\ worker' = w
  /\ UNCHANGED <<setup, charging, handler, shell, firmware, faults, agent>>

Ended(w) == w \in {"returned", "raised", "raised timeout"}

(* An exception ends the script; an agent that did not start or stop in    *)
(* time is left out.                                                       *)
StartEnds ==
  /\ main = "start" /\ Ended(worker)
  /\ IF worker = "returned" THEN Goes("mark", "idle") /\ started' = TRUE
     ELSE Goes("exit", "idle") /\ UNCHANGED started

GivesUp ==
  /\ TimesOut /\ main \in {"start", "stop", "collect"} /\ ~Ended(worker)
  /\ Goes("exit", worker) /\ UNCHANGED started

(* Not under a timeout.                                                    *)
IssueClockSyncMarker ==
  /\ main = "mark"
  /\ IF shell \notin Alive THEN Goes("exit", "idle") /\ UNCHANGED started
     ELSE \/ Goes("stop", "stop") /\ UNCHANGED started
          \/ /\ Fault /\ shell' = "dead" /\ main' = "exit" /\ worker' = "idle"
             /\ UNCHANGED <<setup, started, charging, handler, firmware, agent>>

StopEnds ==
  /\ main = "stop" /\ Ended(worker) /\ UNCHANGED started
  /\ IF worker = "returned" THEN Goes("collect", "collect") ELSE Goes("exit", "idle")

GetResults ==
  /\ main = "collect" /\ Ended(worker) /\ UNCHANGED started
  /\ IF worker = "raised timeout" THEN Goes("abort", "idle") ELSE Goes("exit", "idle")

AbortEnds == main = "abort" /\ Goes("exit", "idle") /\ UNCHANGED started

(* Threads that still run go on until the interpreter is gone.             *)
RunExitHandlers ==
  /\ main = "exit" /\ main' = "leaves"
  /\ shell' = (IF ref /\ shell \in Alive THEN "dead" ELSE shell)
  /\ charging' = (charging \/ handler)
  /\ UNCHANGED <<setup, worker, started, handler, firmware, faults, agent>>

Gone == main = "leaves" /\ Goes("gone", "idle") /\ UNCHANGED started

Controls ==
  StartEnds \/ IssueClockSyncMarker \/ StopEnds \/ GetResults \/ AbortEnds
  \/ RunExitHandlers \/ Gone

Next ==
  \/ main # "gone" /\ Works
  \/ ShellSaves \/ ShellCrashes \/ Controls \/ GivesUp

Spec == Init /\ [][Next]_vars

(* The thread of a call may hang; the controller does not wait for it.     *)
FairSpec == Spec /\ WF_vars(Controls) /\ WF_vars(GivesUp)

-----------------------------------------------------------------------------
(* A script that is over leaves the phone charging: _reenable_charging_if_ *)
(* needed at exit covers every way out.                                    *)
ChargingAtExit == main = "gone" => charging

(* avrdude has the port to itself: no shell of the agent holds it.         *)
FlashOwnsBattOr == worker = "flash" => shell \notin Alive

(* What GetResults returns was written to its end.                         *)
ResultsAreWhole == results # "partial"

(* Where the wrapper finds a BattOr of its own accord, IsBattOrConnected   *)
(* says there is one.                                                      *)
FoundIsConnected == GetBattOrPath = "found" => IsBattOrConnected

ScriptIsOver == main = "gone"
=============================================================================
