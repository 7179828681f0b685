----------------------------- MODULE AtraceAgent -----------------------------
(***************************************************************************)
(* The atrace agent: the kernel of the device records events in one ring   *)
(* buffer per processor; a thread of the agent dumps them, stops the       *)
(* tracing and repairs the text, while the controller waits for it.        *)
(***************************************************************************)
EXTENDS Naturals, Sequences, SequencesExt

CONSTANTS
  Cpus, Capacity,   \* the buffers and the events each holds
  Pids,             \* the processes the traced thread may belong to
  MaxEvents,        \* bound on the events of a trace
  Marshmallow,      \* FALSE: --async_stop may leave the tracing on
  Fails             \* TRUE: a command of the device may fail

Unknown == 0   \* "(-----)", and no process

VARIABLES
  on, events,   \* the kernel: tracing_on, and all it has recorded, in order
  owner,        \* the process the traced thread id belongs to now
  pc,           \* the controller
  thread,       \* the collection thread
  lines,        \* the text the thread works on
  data,         \* _trace_data, with whether there is any
  result, output

vars == <<on, events, owner, pc, thread, lines, data, result, output>>

None == <<FALSE, <<>>>>   \* Python's None

Init ==
  /\ on = FALSE /\ events = <<>> /\ owner \in Pids /\ pc = "idle" /\ thread = "none"
  /\ lines = <<>> /\ data = None /\ result = None /\ output = "old"

(* The kernel knows the process of a thread, or it does not.               *)
Record(c) ==
  /\ on /\ owner # Unknown /\ Len(events) < MaxEvents
  /\ \E known \in BOOLEAN :
       events' = Append(events, [cpu |-> c, truth |-> owner,
                                 tgid |-> IF known THEN owner ELSE Unknown])
  /\ UNCHANGED <<on, owner, pc, thread, lines, data, result, output>>

(* The process ends; the id goes to a thread of another one.               *)
Reuse(p) ==
  /\ owner # p /\ owner' = p
  /\ UNCHANGED <<on, events, pc, thread, lines, data, result, output>>

-----------------------------------------------------------------------------
StartAgentTracing ==
  /\ pc = "idle" /\ on' = TRUE /\ events' = <<>> /\ pc' = "tracing"
  /\ UNCHANGED <<owner, thread, lines, data, result, output>>

StopAgentTracing ==
  /\ pc = "tracing" /\ pc' = "stopped" /\ thread' = "dump"
  /\ UNCHANGED <<on, events, owner, lines, data, result, output>>

(* --async_dump prints what the buffers hold; before the first event of a  *)
(* processor whose buffer has overflowed it prints that it starts there.   *)
Later(i) == {j \in 1 .. Len(events) : j > i /\ events[j].cpu = events[i].cpu}
Held(i) == Cardinality(Later(i)) < Capacity
Overflowed(c) == Cardinality({i \in 1 .. Len(events) : events[i].cpu = c}) > Capacity
Line(i) == <<[kind |-> "event", at |-> i] @@ events[i]>>
Started(c) == <<[kind |-> "started", cpu |-> c]>>
Printed(i) ==
  IF ~Held(i) THEN <<>>
  ELSE IF Overflowed(events[i].cpu) /\ Cardinality(Later(i)) = Capacity - 1
       THEN Started(events[i].cpu) \o Line(i) ELSE Line(i)
Dump == FlattenSeq([i \in 1 .. Len(events) |-> Printed(i)])

Go(where) == thread' = where

(* The dump must hold "TRACE:"; the thread ends with any exception.        *)
CollectTraceData ==
  /\ thread = "dump"
  /\ \/ Go("stop") /\ lines' = Dump
     \/ Fails /\ Go("dead") /\ UNCHANGED lines
  /\ UNCHANGED <<on, events, owner, pc, data, result, output>>

(* Mutant: a device before Marshmallow is trusted.                         *)
NeverLooks == FALSE

LooksAgain == ~Marshmallow

StopTrace ==
  /\ thread = "stop"
  /\ \E off \in IF Marshmallow THEN {TRUE} ELSE BOOLEAN :
       /\ on' = (on /\ ~off)
       /\ Go(IF LooksAgain THEN "look" ELSE "repair")
  /\ UNCHANGED <<events, owner, pc, lines, data, result, output>>

StopAgain ==
  /\ thread = "look" /\ on' = FALSE /\ Go("repair")
  /\ UNCHANGED <<events, owner, pc, lines, data, result, output>>

StopFails ==
  /\ Fails /\ thread \in {"stop", "look"} /\ Go("dead")
  /\ UNCHANGED <<on, events, owner, pc, lines, data, result, output>>

-----------------------------------------------------------------------------
(* fix_missing_tgids: /proc says who has the id now.                       *)
FixMissingTgids(ls) ==
  [i \in 1 .. Len(ls) |->
     IF ls[i].kind = "event" /\ ls[i].tgid = Unknown THEN [ls[i] EXCEPT !.tgid = owner] ELSE ls[i]]

(* fix_circular_traces: what precedes the last start of a buffer goes.     *)
Starts(ls) == {i \in 1 .. Len(ls) : ls[i].kind = "started"}
StartOfFullTrace(ls) == CHOOSE i \in Starts(ls) : \A j \in Starts(ls) : i >= j

FixCircularTraces(ls) ==
  IF Starts(ls) = {} THEN ls ELSE SubSeq(ls, StartOfFullTrace(ls), Len(ls))

(* Without data the thread prints "Output file was not written" and ends;  *)
(* it ends with an exception if the data are not what zlib expects or the  *)
(* device does not tell its processes.                                     *)
Preprocess ==
  /\ thread = "repair"
  /\ \/ Go("dead") /\ UNCHANGED data
     \/ /\ lines # <<>> /\ Go("done")
        /\ data' = <<TRUE, FixCircularTraces(FixMissingTgids(lines))>>
  /\ UNCHANGED <<on, events, owner, pc, lines, result, output>>

(* Mutant: the data is waited for, not the end of the thread.              *)
HasData == data # None

Joined == thread \in {"done", "dead"}

GetResults ==
  /\ pc = "stopped" /\ Joined /\ pc' = "output" /\ result' = data
  /\ UNCHANGED <<on, events, owner, thread, lines, data, output>>

(* GenerateHTMLOutput opens the file before it looks at the results.       *)
GenerateHTMLOutput ==
  /\ pc = "output" /\ pc' = "end" /\ output' = IF result = None THEN "cut" ELSE "whole"
  /\ UNCHANGED <<on, events, owner, thread, lines, data, result>>

Next ==
  \/ StartAgentTracing \/ StopAgentTracing \/ CollectTraceData \/ StopTrace \/ StopAgain
  \/ StopFails \/ Preprocess \/ GetResults \/ GenerateHTMLOutput
  \/ \E c \in Cpus : Record(c)
  \/ \E p \in Pids \cup {Unknown} : Reuse(p)

Spec == Init /\ [][Next]_vars
Stops == StopTrace \/ StopAgain \/ StopFails
FairSpec ==
  Spec /\ WF_vars(CollectTraceData) /\ WF_vars(Stops)
       /\ WF_vars(Preprocess) /\ WF_vars(GetResults)

-----------------------------------------------------------------------------
Shown == {result[2][i].at : i \in {j \in 1 .. Len(result[2]) : result[2][j].kind = "event"}}

(* From its first event on the trace has no gaps: every event of every     *)
(* processor up to its last one is in it.                                  *)
TraceIsComplete ==
  \A i, j \in Shown : \A k \in i .. j : k \in Shown

(* When the results are there, the device does not trace any more.         *)
TracingIsOff == pc \in {"output", "end"} /\ result # None => ~on

Stopped == pc = "stopped"
HasResults == pc = "output"
=============================================================================
