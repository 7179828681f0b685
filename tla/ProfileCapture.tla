---------------------------- MODULE ProfileCapture ----------------------------
(***************************************************************************)
(* A profile from its beginning to its file: the agents are started and    *)
(* stopped, the results that came are merged where they are JSON, and one  *)
(* file is written. A value of a JSON result is 0 when Python takes it for *)
(* false.                                                                  *)
(***************************************************************************)
EXTENDS Naturals, Sequences, SequencesExt

CONSTANTS
  Intervals,   \* the intervals asked for; None is until the user stops
  Empties      \* a result may be an empty string

VARIABLES
  interval, compress, writeJson, output,            \* the arguments
  agents, asked, pc, results, merged, saved         \* the agents, and those still to be asked

options == <<interval, compress, writeJson, output>>
vars == <<options, agents, asked, pc, results, merged, saved>>

Json(name, data) == [name |-> name, kind |-> "json", data |-> data]
Plain(name, kind) == [name |-> name, kind |-> kind, data |-> <<>>]

(* What an agent may answer with; "broken" begins as JSON does and is not. *)
Answers(name) ==
  (CASE name = "traceEvents" -> {Json(name, [traceEvents |-> n]) : n \in {0, 1}} \cup {Plain(name, "broken")}
     [] name = "perf" -> {Json(name, [traceEvents |-> 0, samples |-> n]) : n \in {0, 1}}
     [] OTHER -> {Plain(name, "text")})
  \cup (IF Empties THEN {Plain(name, "empty")} ELSE {})

NoFile == [file |-> "none", format |-> "none", results |-> <<>>]

Init ==
  /\ interval \in Intervals /\ compress \in BOOLEAN /\ writeJson \in BOOLEAN
  /\ output \in {"none", "out"}
  /\ agents = <<>> /\ asked = <<>> /\ pc = "idle"
  /\ results = <<>> /\ merged = <<>> /\ saved = NoFile

Modules == <<"traceEvents", "ddms", "perf", "systemTraceEvents">>

StartTracing ==
  /\ pc = "idle" /\ pc' = "stopping"
  /\ \E chosen \in SUBSET ToSet(Modules) :
       agents' = SelectSeq(Modules, LAMBDA name : name \in chosen)
  /\ asked' = agents'
  /\ UNCHANGED <<options, results, merged, saved>>

(* The controller asks one agent after the other; a late one is left out.  *)
Collect ==
  /\ pc = "stopping" /\ asked # <<>> /\ asked' = Tail(asked)
  /\ results' \in {results} \cup {Append(results, answer) : answer \in Answers(Head(asked))}
  /\ UNCHANGED <<options, agents, pc, merged, saved>>

(* A quarter of the interval is slept for a browser that still writes.     *)
Sleep ==
  /\ pc = "stopping" /\ asked = <<>>
  /\ pc' = CASE interval = "None" /\ "traceEvents" \in ToSet(agents) -> "raised"
             [] results = <<>> -> "done"
             [] OTHER -> "merging"
  /\ UNCHANGED <<options, agents, asked, results, merged, saved>>

-----------------------------------------------------------------------------
Candidates == SelectSeq(results, LAMBDA r : r.kind = "json")

Keys(candidates) == UNION {DOMAIN r.data : r \in ToSet(candidates)}

(* A value is taken from a later result as long as it is false.            *)
Merged(candidates) ==
  [key \in Keys(candidates) |->
     FoldLeft(LAMBDA value, r : IF key \in DOMAIN r.data /\ value = 0 THEN r.data[key] ELSE value,
              0, candidates)]

MergeTraceResultsIfNeeded ==
  IF Len(results) <= 1 \/ Len(Candidates) <= 1 THEN results
  ELSE <<Json("merged-data", Merged(Candidates))>>
       \o SelectSeq(results, LAMBDA r : \A c \in ToSet(Candidates) : c.name # r.name)

(* An empty string has no first character to look at.                      *)
Merge ==
  /\ pc = "merging"
  /\ IF Len(results) > 1 /\ \E r \in ToSet(results) : r.kind = "empty"
     THEN pc' = "raised" /\ UNCHANGED merged
     ELSE pc' = "writing" /\ merged' = MergeTraceResultsIfNeeded
  /\ UNCHANGED <<options, agents, asked, results, saved>>

Written(file, format, rs) == [file |-> file, format |-> format, results |-> rs]
OutputOr(name) == IF output # "none" THEN output ELSE name

Output ==
  CASE ~writeJson -> Written(merged[1].name, "html", merged)
    [] writeJson /\ compress /\ Len(merged) = 1 -> Written(OutputOr(merged[1].name), "gz", merged)
    [] writeJson /\ Len(merged) > 1 -> Written(OutputOr("combined"), "zip", merged)
    [] OTHER -> Written(OutputOr(merged[1].name), "raw", <<merged[1]>>)

(* The generator of large pages knows no part for the data of perf and of  *)
(* ddms, nor for merged data.                                              *)
NoPart == {"ddms", "perf", "merged-data"}

Write ==
  /\ pc = "writing"
  /\ IF ~writeJson /\ Len(merged) > 3 /\ \E r \in ToSet(merged) : r.name \in NoPart
     THEN pc' = "raised" /\ UNCHANGED saved
     ELSE pc' = "done" /\ saved' = Output
  /\ UNCHANGED <<options, agents, asked, results, merged>>

Next == StartTracing \/ Collect \/ Sleep \/ Merge \/ Write

Spec == Init /\ [][Next]_vars

-----------------------------------------------------------------------------
Value(r, key) == IF key \in DOMAIN r.data THEN r.data[key] ELSE 0

(* Whatever is merged, each value that is not false and each result that   *)
(* is no JSON is in the file.                                              *)
NothingIsLost ==
  saved # NoFile =>
    \A r \in ToSet(results) :
      IF r.kind = "json"
      THEN \E s \in ToSet(saved.results) : s.kind = "json" /\ \A key \in DOMAIN r.data : r.data[key] <= Value(s, key)
      ELSE r \in ToSet(saved.results)
=============================================================================
