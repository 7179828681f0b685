----------------------------- MODULE FtraceAgent -----------------------------
(***************************************************************************)
(* The agent that traces the kernel of a Linux host through the files of   *)
(* ftrace: it enables the events of the categories it is asked for, clears *)
(* the trace, turns tracing on, and undoes this when it stops. The files   *)
(* outlive the agent; every run has an agent of its own.                   *)
(***************************************************************************)
EXTENDS Naturals, FiniteSets, FiniteSetsExt

CONSTANTS
  Categories, Required, Optional,    \* all_categories: "req" and "opt" of each
  Default,                           \* the category traced when none is asked for
  Asked,                             \* what the options may hold
  Breaks,                            \* a file may refuse to be written
  MaxRuns, MaxRecords                \* bounds on the agents and on what the kernel records

Events == UNION {Required[c] \cup Optional[c] : c \in Categories}

VARIABLES
  writable,                        \* the events whose files the user may write
  on, enabled, trace, buffer,      \* the files: tracing_on, events/.../enable, trace, size
  recorded,                        \* the records made since the trace was cleared
  run, pc, asked, todo,            \* the agent of this run
  categories, result

files == <<on, enabled, trace, buffer>>
agent == <<run, pc, asked, todo, categories, result>>
vars == <<writable, files, recorded, agent>>

Init ==
  /\ writable \in SUBSET Events
  /\ on = FALSE /\ enabled = {} /\ trace = {} /\ buffer = "small" /\ recorded = {}
  /\ run = 0 /\ pc = "idle" /\ asked = [kind |-> "none", names |-> {}] /\ todo = {}
  /\ categories = {} /\ result = {}

(* The kernel records the events that are enabled while tracing is on.     *)
Record(e) ==
  /\ on /\ e \in enabled /\ Cardinality(recorded) < MaxRecords
  /\ LET r == [run |-> run, event |-> e, number |-> Cardinality(recorded)]
     IN  /\ trace' = trace \cup {r}
         /\ recorded' = recorded \cup {r}
  /\ UNCHANGED <<writable, on, enabled, buffer, agent>>

-----------------------------------------------------------------------------
(* Mutant: a category needs its optional events too.                       *)
NeedsAll(c) == Required[c] \cup Optional[c] \subseteq writable

IsCategoryAvailable(c) == Required[c] \subseteq writable

(* The names of an option are not split at their commas: the agent goes    *)
(* through its letters, and none of them names a category.                 *)
Names(a) == IF a.kind = "option" THEN {} ELSE a.names

FixCategories(a) ==
  LET names == IF a.kind = "none" THEN {Default} ELSE Names(a)
  IN  {c \in names : IsCategoryAvailable(c)}

CategoryEnablePaths(cs) == UNION {Required[c] \cup (Optional[c] \cap writable) : c \in cs}

Goes(from, to) == pc = from /\ pc' = to

StartAgentTracing(a) ==
  /\ run < MaxRuns /\ Goes("idle", "config")
  /\ run' = run + 1 /\ asked' = a /\ categories' = FixCategories(a) /\ result' = {}
  /\ UNCHANGED <<writable, files, recorded, todo>>

WriteConfig ==
  /\ Goes("config", "enable")
  /\ buffer' = "asked" /\ todo' = CategoryEnablePaths(categories)
  /\ UNCHANGED <<writable, on, enabled, trace, recorded, run, asked, categories, result>>

CategoryEnable(e) ==
  /\ pc = "enable" /\ e \in todo
  /\ enabled' = enabled \cup {e} /\ todo' = todo \ {e}
  /\ UNCHANGED <<writable, on, trace, buffer, recorded, run, pc, asked, categories, result>>

ClearTrace ==
  /\ todo = {} /\ Goes("enable", "cleared")
  /\ trace' = {} /\ recorded' = {}
  /\ UNCHANGED <<writable, on, enabled, buffer, run, asked, todo, categories, result>>

TraceOn ==
  /\ Goes("cleared", "running")
  /\ on' = TRUE
  /\ UNCHANGED <<writable, enabled, trace, buffer, recorded, run, asked, todo, categories, result>>

StopAgentTracing ==
  /\ Goes("running", "disable")
  /\ on' = FALSE /\ todo' = CategoryEnablePaths(categories)
  /\ UNCHANGED <<writable, enabled, trace, buffer, recorded, run, asked, categories, result>>

CategoryDisable(e) ==
  /\ pc = "disable" /\ e \in todo
  /\ enabled' = enabled \ {e} /\ todo' = todo \ {e}
  /\ UNCHANGED <<writable, on, trace, buffer, recorded, run, pc, asked, categories, result>>

Stopped ==
  /\ todo = {} /\ Goes("disable", "stopped")
  /\ UNCHANGED <<writable, files, recorded, run, asked, todo, categories, result>>

(* A smaller buffer has lost what it held.                                 *)
Shrink == buffer' = "small" /\ trace' = {}

GetResults ==
  /\ Goes("stopped", "done")
  /\ result' = trace /\ Shrink
  /\ UNCHANGED <<writable, on, enabled, recorded, run, asked, todo, categories>>

(* The controller stops no agent whose start raised.                       *)
WriteFileRaises ==
  /\ Breaks /\ \E from \in {"config", "enable", "cleared", "running", "disable"} : Goes(from, "raised")
  /\ todo' = {}
  /\ UNCHANGED <<writable, files, recorded, run, asked, categories, result>>

NextRun ==
  /\ \E from \in {"done", "raised"} : Goes(from, "idle")
  /\ UNCHANGED <<writable, files, recorded, run, asked, todo, categories, result>>

Next ==
  \/ \E e \in Events : Record(e) \/ CategoryEnable(e) \/ CategoryDisable(e)
  \/ \E a \in Asked : StartAgentTracing(a)
  \/ WriteConfig \/ ClearTrace \/ TraceOn
  \/ StopAgentTracing \/ Stopped \/ GetResults
  \/ WriteFileRaises \/ NextRun

Spec == Init /\ [][Next]_vars

-----------------------------------------------------------------------------
(* A trace holds what the kernel recorded since it was cleared: no record   *)
(* of a run before, and none lost when the buffer is given back.           *)
ResultIsOfRun == pc = "done" => result = recorded

WantedEvents == UNION {Required[c] \cup Optional[c] :
                       c \in IF asked.kind = "none" THEN {Default} ELSE asked.names}

(* Only events of the categories asked for are traced.                     *)
OnlyWanted == pc = "done" => \A r \in result : r.event \in WantedEvents

(* Every category asked for whose required events can be enabled is traced *)
(* while the agent runs, whether its optional events can be or not.        *)
AskedIsTraced ==
  pc = "running" => \A c \in asked.names : Required[c] \subseteq writable => Required[c] \subseteq enabled

(* The kernel traces no more when the agent has stopped.                   *)
StoppedIsQuiet == pc \in {"stopped", "done"} => ~on /\ enabled = {}
=============================================================================
