-------------------------- MODULE TracingController --------------------------
(***************************************************************************)
(* The tracing controller of systrace and profile_chrome: it starts its    *)
(* agents one by one, each call in a thread under a timeout, marks their   *)
(* clocks, stops them and collects their results, and the runner writes    *)
(* these to a file.                                                        *)
(***************************************************************************)
EXTENDS Naturals, Sequences, FiniteSets, SequencesExt

CONSTANTS
  N,         \* the agents, 1 .. N
  Name,      \* the source name of each agent's results
  Late,      \* TRUE: a call that timed out may still take place
  Raises     \* TRUE: a call of an agent may raise

Agents == 1 .. N
Controller == 0   \* the controller's own agent
Outcomes == {"done", "refused", "timeout"} \cup (IF Raises THEN {"raised"} ELSE {})

VARIABLES
  pc, at,       \* the phase and the agent it is at
  inProgress,   \* _trace_in_progress
  children,     \* _child_agents, empty before the first start
  oks,          \* succ_agents of the running phase
  tracing,      \* the agents that trace, of them all and the controller's
  pending,      \* starts that timed out and are still running
  unstopped,    \* the agents whose stop did not report success
  marks,        \* the markers the agents have recorded
  log,          \* the markers in the controller's trace
  results,      \* all_results: the agents they are of
  written,      \* the names in the written file
  outcome

vars == <<pc, at, inProgress, children, oks, tracing, pending, unstopped, marks, log,
          results, written, outcome>>

Init ==
  /\ pc = "idle" /\ at = 0 /\ inProgress = FALSE /\ children = <<>> /\ oks = <<>>
  /\ tracing = {} /\ pending = {} /\ unstopped = {} /\ marks = {} /\ log = {}
  /\ results = <<>> /\ written = {} /\ outcome = "none"

(* An exception leaves everything as it is.                                *)
Abort == pc' = "end" /\ outcome' = "raised" /\ at' = 0

-----------------------------------------------------------------------------
StartTracing ==
  /\ pc = "idle" /\ ~inProgress /\ inProgress' = TRUE
  /\ oks' = <<>> /\ unstopped' = {} /\ marks' = {} /\ log' = {} /\ results' = <<>>
  /\ \/ pc' = "start" /\ at' = 1 /\ tracing' = tracing \cup {Controller} /\ outcome' = "none"
     \/ pc' = "waiting" /\ at' = 0 /\ outcome' = "unable" /\ UNCHANGED tracing
  /\ UNCHANGED <<children, pending, written>>

(* StartAgentTracing under py_utils.Timeout: what returns False has not    *)
(* started, or not yet.                                                    *)
StartAgent(o) ==
  /\ pc = "start" /\ at <= N
  /\ tracing' = IF o = "done" THEN tracing \cup {at} ELSE tracing
  /\ pending' = IF o = "timeout" /\ Late THEN pending \cup {at} ELSE pending
  /\ oks' = IF o = "done" THEN Append(oks, at) ELSE oks
  /\ IF o = "raised" THEN Abort ELSE at' = at + 1 /\ UNCHANGED <<pc, outcome>>
  /\ UNCHANGED <<inProgress, children, unstopped, marks, log, results, written>>

ChildAgents == oks

Started ==
  /\ pc = "start" /\ at > N /\ children' = ChildAgents /\ pc' = "waiting" /\ at' = 0
  /\ UNCHANGED <<inProgress, oks, tracing, pending, unstopped, marks, log, results, written, outcome>>

LateStart(a) ==
  /\ a \in pending /\ pending' = pending \ {a} /\ tracing' = tracing \cup {a}
  /\ UNCHANGED <<pc, at, inProgress, children, oks, unstopped, marks, log, results, written, outcome>>

-----------------------------------------------------------------------------
(* _IssueClockSyncMarker: an agent records the marker and calls the        *)
(* controller back, whose record is lost when it does not trace.           *)
Recorded(a) == IF Controller \in tracing THEN log \cup {a} ELSE log

StopTracing ==
  /\ pc = "waiting" /\ inProgress /\ inProgress' = FALSE
  /\ oks' = <<>>
  /\ IF outcome = "unable" THEN Abort ELSE pc' = "sync" /\ at' = 1 /\ UNCHANGED outcome
  /\ UNCHANGED <<children, tracing, pending, unstopped, marks, log, results, written>>

(* The command may raise after its marker was written: the controller is   *)
(* not called back then.                                                   *)
Mark(o) ==
  /\ pc = "sync" /\ at <= Len(children) /\ o \in {"done", "raised"}
  /\ \/ /\ o = "done" /\ marks' = marks \cup {children[at]} /\ log' = Recorded(children[at])
        /\ at' = at + 1 /\ UNCHANGED <<pc, outcome>>
     \/ /\ o = "raised" /\ Abort /\ UNCHANGED log
        /\ marks' \in {marks, marks \cup {children[at]}}
  /\ UNCHANGED <<inProgress, children, oks, tracing, pending, unstopped, results, written>>

Marked ==
  /\ pc = "sync" /\ at > Len(children) /\ pc' = "stop" /\ at' = 1
  /\ UNCHANGED <<inProgress, children, oks, tracing, pending, unstopped, marks, log, results, written, outcome>>

StopAgent(o) ==
  /\ pc = "stop" /\ at <= Len(children)
  /\ \E t \in IF o = "done" THEN {tracing \ {children[at]}}
              ELSE {tracing} \cup (IF Late THEN {tracing \ {children[at]}} ELSE {}) : tracing' = t
  /\ unstopped' = IF o = "done" THEN unstopped ELSE unstopped \cup {children[at]}
  /\ oks' = IF o = "done" THEN Append(oks, children[at]) ELSE oks
  /\ IF o = "raised" THEN Abort ELSE at' = at + 1 /\ UNCHANGED <<pc, outcome>>
  /\ UNCHANGED <<inProgress, children, pending, marks, log, results, written>>

Remaining == oks

StopController(o) ==
  /\ pc = "stop" /\ at > Len(children) /\ o \in {"done", "refused"}
  /\ IF o = "done"
     THEN /\ tracing' = tracing \ {Controller}
          /\ children' = Remaining /\ pc' = "collect" /\ at' = 1 /\ UNCHANGED outcome
     ELSE pc' = "output" /\ outcome' = "unable" /\ UNCHANGED <<tracing, children, at>>
  /\ UNCHANGED <<inProgress, oks, pending, unstopped, marks, log, results, written>>

Asked == Append(children, Controller)

(* GetResults: a timeout leaves the agent out.                             *)
Collect(o) ==
  /\ pc = "collect" /\ at <= Len(Asked)
  /\ results' = IF o = "done" THEN Append(results, Asked[at]) ELSE results
  /\ IF o = "raised" THEN Abort ELSE at' = at + 1 /\ UNCHANGED <<pc, outcome>>
  /\ UNCHANGED <<inProgress, children, oks, tracing, pending, unstopped, marks, log, written>>

Collected ==
  /\ pc = "collect" /\ at > Len(Asked) /\ pc' = "output" /\ outcome' = "stopped" /\ at' = 0
  /\ UNCHANGED <<inProgress, children, oks, tracing, pending, unstopped, marks, log, results, written>>

(* OutputSystraceResults: JSON is a dictionary by source name, HTML has a  *)
(* section of each result. Without results it raises.                      *)
NameOf(a) == IF a = Controller THEN "controller" ELSE Name[a]

Output(json) ==
  /\ pc = "output" /\ pc' = "end"
  /\ IF outcome = "stopped"
     THEN /\ written' = IF json THEN {<<NameOf(results[i]), 0>> : i \in 1 .. Len(results)}
                        ELSE {<<NameOf(results[i]), results[i]>> : i \in 1 .. Len(results)}
          /\ UNCHANGED outcome
     ELSE outcome' = "raised" /\ UNCHANGED written
  /\ UNCHANGED <<at, inProgress, children, oks, tracing, pending, unstopped, marks, log, results>>

Next ==
  \/ StartTracing \/ Started \/ StopTracing \/ Marked \/ Collected
  \/ \E o \in Outcomes : StartAgent(o) \/ Mark(o) \/ StopAgent(o) \/ StopController(o) \/ Collect(o)
  \/ \E a \in Agents : LateStart(a)
  \/ \E json \in BOOLEAN : Output(json)

Spec == Init /\ [][Next]_vars

-----------------------------------------------------------------------------
(* Results are only asked of agents whose stop was reported.               *)
ResultsAreStopped ==
  \A i \in 1 .. Len(results) : results[i] \notin unstopped /\ results[i] \notin tracing

(* Every marker an agent has recorded is in the controller's trace too:    *)
(* without its other side the clocks cannot be aligned. Only a stop that   *)
(* raises, and so gives no results, may leave the one it was at.           *)
MarksArePaired ==
  /\ outcome # "raised" => marks \subseteq log
  /\ Cardinality(marks \ log) <= 1

(* When StopTracing has collected the results, only an agent whose stop    *)
(* was not reported may still trace.                                       *)
OthersAreStopped == outcome = "stopped" => tracing \subseteq unstopped

(* What was collected is in the file, each result under its own name.      *)
CollectedIsWritten ==
  pc = "end" /\ outcome = "stopped" => Cardinality(written) = Len(results)
=============================================================================
