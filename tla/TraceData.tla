------------------------------ MODULE TraceData ------------------------------
(***************************************************************************)
(* The container in which the traces of all agents are put together: a     *)
(* builder collects them, by part, and turns into data once; a trace of    *)
(* Chrome may be kept on disk behind a handle until it is asked for. What  *)
(* is written to a handle is a sequence of pieces.                         *)
(***************************************************************************)
EXTENDS Naturals, Sequences, FiniteSets, SequencesExt

CONSTANTS
  Handles, Pieces, MaxPieces,      \* trace files, what is appended to them and how much
  Parts, Chrome, AllTraceParts,    \* the parts; the listed ones
  MaxTraces,                       \* a bound on the traces of a part
  Careless                         \* a user may add open handles and ask handles for their data

VARIABLES
  backing, path, loaded,    \* _backing_file, _file_path and _trace_data of each handle
  disk, content,            \* the files there are and what was appended to them
  building, given, raw,     \* whether the builder collects, has given its data, and the traces
  added,                    \* the traces given to the builder
  last                      \* the last call of the data, whether it raised, and its answer

handles == <<backing, path, loaded, disk, content>>
data == <<building, given, raw, added>>
vars == <<handles, data, last>>

Call(op, ok, answer) == last' = [op |-> op, ok |-> ok, answer |-> answer]

Init ==
  /\ backing = {} /\ path = {} /\ loaded = {}
  /\ disk = {} /\ content = [h \in Handles |-> <<>>]
  /\ building = TRUE /\ given = FALSE /\ raw = [p \in Parts |-> <<>>] /\ added = [p \in Parts |-> <<>>]
  /\ last = [op |-> "none", ok |-> TRUE, answer |-> <<>>]

-----------------------------------------------------------------------------
(* TraceFileHandle                                                         *)
Open(h) ==
  /\ h \notin backing \cup path \cup loaded /\ content[h] = <<>>
  /\ backing' = backing \cup {h} /\ disk' = disk \cup {h}
  /\ Call("open", TRUE, <<>>)
  /\ UNCHANGED <<path, loaded, content, data>>

AppendTraceData(h, piece) ==
  /\ h \in backing /\ Len(content[h]) < MaxPieces
  /\ content' = [content EXCEPT ![h] = Append(@, piece)]
  /\ Call("append", TRUE, <<>>)
  /\ UNCHANGED <<backing, path, loaded, disk, data>>

Close(h) ==
  /\ h \in backing
  /\ backing' = backing \ {h} /\ path' = path \cup {h}
  /\ Call("close", TRUE, <<>>)
  /\ UNCHANGED <<loaded, disk, content, data>>

(* A file to which nothing was appended holds no trace.                    *)
Parses(h) == content[h] # <<>>

Clean(hs) ==
  /\ path' = path \ hs
  /\ disk' = disk \ hs

AsTraceData(h) ==
  /\ Careless /\ h \in path /\ Parses(h)
  /\ loaded' = loaded \cup {h} /\ Clean({h})
  /\ Call("as_data", TRUE, <<content[h]>>)
  /\ UNCHANGED <<backing, content, data>>

-----------------------------------------------------------------------------
InMemory(value) == [kind |-> "memory", value |-> value]
InFile(h) == [kind |-> "handle", value |-> <<h>>]
HandlesIn(traces) == {t.value[1] : t \in {u \in ToSet(traces) : u.kind = "handle"}}

Adds(p, trace, value) ==
  IF building
  THEN /\ raw' = [raw EXCEPT ![p] = Append(@, trace)]
       /\ added' = [added EXCEPT ![p] = Append(@, value)]
       /\ Call("add", TRUE, <<>>)
  ELSE Call("add", FALSE, <<>>) /\ UNCHANGED <<raw, added>>

(* TraceDataBuilder. Only a trace of Chrome may be a handle.               *)
AddTraceFor(p, piece) ==
  /\ Len(added[p]) < MaxTraces
  /\ Adds(p, InMemory(<<piece>>), <<piece>>)
  /\ UNCHANGED <<handles, building, given>>

AddHandle(h) ==
  /\ Len(added[Chrome]) < MaxTraces /\ h \notin HandlesIn(raw[Chrome])
  /\ h \in path \/ (Careless /\ h \in backing)
  /\ Adds(Chrome, InFile(h), <<h>>)
  /\ UNCHANGED <<handles, building, given>>

(* Mutant: the builder goes on with the traces it gave away.               *)
SharesData ==
  /\ given' = TRUE /\ Call("data", TRUE, <<>>)
  /\ UNCHANGED <<handles, building, raw, added>>

AsData ==
  /\ building' = FALSE /\ given' = TRUE /\ Call("data", building, <<>>)
  /\ UNCHANGED <<handles, raw, added>>

-----------------------------------------------------------------------------
Held(trace) == IF trace.kind = "memory" THEN trace ELSE InMemory(content[trace.value[1]])

(* The traces of the part up to the first whose file cannot be read: it    *)
(* stays a handle, and so do those behind it.                              *)
Readable(t) == t.kind = "memory" \/ t.value[1] \in loaded \/ (t.value[1] \in path /\ Parses(t.value[1]))
Run(traces, OK(_)) == CHOOSE n \in 0 .. Len(traces) :
                        /\ \A i \in 1 .. n : OK(traces[i])
                        /\ n < Len(traces) => ~OK(traces[n + 1])

Converted(p) ==
  LET n == Run(raw[p], Readable)
  IN  [i \in DOMAIN raw[p] |-> IF i <= n THEN Held(raw[p][i]) ELSE raw[p][i]]

GetTracesFor(p) ==
  /\ given
  /\ LET n == Run(raw[p], Readable)
         read == HandlesIn(SubSeq(raw[p], 1, n))
         ok == n = Len(raw[p])
     IN  /\ raw' = [raw EXCEPT ![p] = Converted(p)]
         /\ loaded' = loaded \cup read /\ Clean(read)
         /\ Call("get", ok, IF ok THEN [i \in DOMAIN raw[p] |-> Held(raw[p][i]).value] ELSE <<>>)
  /\ UNCHANGED <<backing, content, building, given, added>>

(* A handle that is open, or that was cleaned before, ends the clean-up.   *)
Cleanable(t) == t.kind = "memory" \/ t.value[1] \in path

CleanUpAllTraces ==
  /\ given
  /\ LET n == Run(raw[Chrome], Cleanable)
         ok == n = Len(raw[Chrome])
     IN  /\ Clean(HandlesIn(SubSeq(raw[Chrome], 1, n)))
         /\ raw' = IF ok THEN [p \in Parts |-> <<>>] ELSE raw
         /\ added' = IF ok THEN [p \in Parts |-> <<>>] ELSE added
         /\ Call("clean", ok, <<>>)
  /\ UNCHANGED <<backing, loaded, content, building, given>>

(* trace2html reads the files of the handles, and files of a temporary     *)
(* directory for the other traces.                                         *)
Serialize ==
  /\ given
  /\ LET ok == \A i \in DOMAIN raw[Chrome] : Cleanable(raw[Chrome][i])
     IN  Call("serialize", ok, IF ok THEN [i \in DOMAIN raw[Chrome] |-> Held(raw[Chrome][i]).value] ELSE <<>>)
  /\ UNCHANGED <<handles, data>>

Next ==
  \/ \E h \in Handles : Open(h) \/ Close(h) \/ AsTraceData(h) \/ AddHandle(h)
  \/ \E h \in Handles, x \in Pieces : AppendTraceData(h, x)
  \/ \E p \in Parts, x \in Pieces : AddTraceFor(p, x)
  \/ AsData
  \/ \E p \in Parts : GetTracesFor(p)
  \/ CleanUpAllTraces \/ Serialize

Spec == Init /\ [][Next]_vars

-----------------------------------------------------------------------------
(* What was added for a part, by value: what a file holds for a handle.    *)
Value(v) == IF v[1] \in Handles THEN content[v[1]] ELSE v

(* Whoever asks for the traces of a part, or has those of Chrome written,  *)
(* gets every trace that was added, in order, wherever it was kept.        *)
AnswersAreWhole ==
  \A p \in Parts :
       (GetTracesFor(p) \/ (p = Chrome /\ Serialize)) /\ last'.ok =>
         last'.answer = [i \in DOMAIN added[p] |-> Value(added[p][i])]

(* No file is left on disk that no handle knows.                           *)
FilesAreKnown == disk = backing \cup path

(* The builder does not change the data it has given away.                *)
BuiltIsSealed == given => (added' = added \/ CleanUpAllTraces)

(* When all traces are to be cleaned up, none of their files is left.      *)
CleanedUp == CleanUpAllTraces => HandlesIn(raw[Chrome]) \cap disk' = {}
=============================================================================
