---------------------------- MODULE CommandOutput ----------------------------
(***************************************************************************)
(* A command of the host run in a process of its own, whose output is read *)
(* either in one piece or chunk by chunk while it runs, with a timeout for *)
(* the command and one for each line; where select does not work on pipes, *)
(* a thread reads the chunks into a queue. The process writes, pauses,     *)
(* closes its output and exits in its own time.                            *)
(***************************************************************************)
EXTENDS Naturals, Sequences, SequencesExt

CONSTANTS
  Characters, MaxLength,   \* of the output; a newline is "n", a return "r"
  BufferSize,    \* bound on the characters of one read
  Closes,        \* the process may close its output before it exits
  Pauses,        \* the process exits only when its output is read
  IterTimeout    \* lines are waited for with a timeout

VARIABLES
  how, output,                   \* the call, and all that the process will write
  written, read,                 \* how much of it is written and read
  alive, closed, killed,         \* the process
  pc, data, polled,              \* the reader
  queue, thread,                 \* the chunks on their way, and who reads them
  buffer, lines, result          \* the consumer

process == <<output, written, alive, closed>>
chunks == <<queue, thread>>
vars == <<how, process, read, killed, pc, data, polled, chunks, buffer, lines, result>>

Init ==
  /\ how \in {"communicate", "iterate", "queue"}
  /\ output \in UNION {[1..n -> Characters] : n \in 0..MaxLength}
  /\ written = 0 /\ read = 0 /\ alive = TRUE /\ closed = FALSE /\ killed = FALSE
  /\ pc = "select" /\ data = <<>> /\ polled = FALSE
  /\ queue = <<>> /\ thread = "reading"
  /\ buffer = <<>> /\ lines = <<>> /\ result = "none"

-----------------------------------------------------------------------------
Write ==
  /\ alive /\ ~closed /\ written < Len(output) /\ written' = written + 1
  /\ UNCHANGED <<how, output, read, alive, closed, killed, pc, data, polled, chunks, buffer, lines, result>>

CloseStdout ==
  /\ Closes /\ alive /\ ~closed /\ written = Len(output) /\ closed' = TRUE
  /\ UNCHANGED <<how, output, written, read, alive, killed, pc, data, polled, chunks, buffer, lines, result>>

Exit ==
  /\ alive /\ written = Len(output) /\ (Pauses => read = written)
  /\ alive' = FALSE /\ closed' = TRUE
  /\ UNCHANGED <<how, output, written, read, killed, pc, data, polled, chunks, buffer, lines, result>>

-----------------------------------------------------------------------------
(* communicate reads to the end of the output.                             *)
Communicate ==
  /\ how = "communicate" /\ pc = "select" /\ closed
  /\ read' = written /\ pc' = "end"
  /\ UNCHANGED <<how, process, killed, data, polled, chunks, buffer, lines, result>>

CommunicateEnds ==
  /\ how = "communicate" /\ pc = "end" /\ ~alive
  /\ pc' = "done" /\ result' = "status"
  /\ UNCHANGED <<how, process, read, killed, data, polled, chunks, buffer, lines>>

Size == IF written - read < BufferSize THEN written - read ELSE BufferSize

Read ==
  /\ how = "iterate" /\ pc = "select" /\ written > read
  /\ data' = SubSeq(output, read + 1, read + Size) /\ read' = read + Size
  /\ pc' = "consume"
  /\ UNCHANGED <<how, process, killed, polled, chunks, buffer, lines, result>>

(* Mutant: an output that is empty now is taken for closed.                *)
EmptyIsEnd ==
  /\ how = "iterate" /\ pc = "select" /\ written = read
  /\ pc' = "finally"
  /\ UNCHANGED <<how, process, read, killed, data, polled, chunks, buffer, lines, result>>

NothingToRead ==
  /\ how = "iterate" /\ pc = "select" /\ written = read
  /\ pc' = IF closed THEN "finally" ELSE "poll"
  /\ UNCHANGED <<how, process, read, killed, data, polled, chunks, buffer, lines, result>>

(* A line ends at any of the two characters, and at both in one chunk.     *)
Breaks == {"n", "r"}
LineEnds(text) == {i \in DOMAIN text : text[i] \in Breaks /\ ~(text[i] = "r" /\ i < Len(text) /\ text[i + 1] = "n")}
LineStart(text, i) == IF i > 1 /\ text[i] = "n" /\ text[i - 1] = "r" THEN i - 1 ELSE i
LastEnd(text, i) == LET before == {j \in LineEnds(text) : j < i} IN IF before = {} THEN 0 ELSE CHOOSE j \in before : \A k \in before : k <= j

SplitLines(text) ==
  LET ends == SetToSortSeq(LineEnds(text), <) IN
  [k \in DOMAIN ends |-> SubSeq(text, LastEnd(text, ends[k]) + 1, LineStart(text, ends[k]) - 1)]

Rest(text) == SubSeq(text, LastEnd(text, Len(text) + 1) + 1, Len(text))

TakeLines(text) == lines' = lines \o SplitLines(text) /\ buffer' = Rest(text)

Resumes == pc' = IF how = "queue" THEN "select" ELSE "poll"

Consume ==
  /\ pc = "consume" /\ Resumes /\ data' = <<>>
  /\ TakeLines(buffer \o data)
  /\ UNCHANGED <<how, process, read, killed, polled, chunks, result>>

(* The time of the line is over: None is yielded, and the data is dropped. *)
ConsumeLate ==
  /\ IterTimeout /\ pc = "consume" /\ Resumes /\ data' = <<>>
  /\ UNCHANGED <<how, process, read, killed, polled, chunks, buffer, lines, result>>

Poll ==
  /\ pc = "poll" /\ pc' = IF alive THEN "select" ELSE "finally"
  /\ polled' = ~alive
  /\ UNCHANGED <<how, process, read, killed, data, chunks, buffer, lines, result>>

TimesOut ==
  /\ how # "communicate" /\ pc = "select" /\ pc' = "finally" /\ result' = "timeout"
  /\ UNCHANGED <<how, process, read, killed, data, polled, chunks, buffer, lines>>

-----------------------------------------------------------------------------
(* _IterProcessStdoutQueue: the thread puts what it reads into the queue,  *)
(* at the end of the output an empty chunk again and again until it finds  *)
(* the process ended. A second empty chunk in the queue is never looked at *)
(* and is left out.                                                        *)
Put(chunk) == IF chunk = <<>> /\ queue # <<>> /\ Last(queue) = <<>> THEN queue ELSE Append(queue, chunk)

ReadToQueue ==
  /\ how = "queue" /\ thread = "reading" /\ (written > read \/ closed)
  /\ read' = read + Size /\ queue' = Put(SubSeq(output, read + 1, read'))
  /\ thread' = IF Size = 0 THEN "poll" ELSE "reading"
  /\ UNCHANGED <<how, process, killed, pc, data, polled, buffer, lines, result>>

ThreadPolls ==
  /\ thread = "poll" /\ thread' = IF alive THEN "reading" ELSE "ended"
  /\ polled' = (polled \/ ~alive)
  /\ UNCHANGED <<how, process, read, killed, pc, data, queue, buffer, lines, result>>

(* The time is looked at before a chunk is waited for, and not again.      *)
LooksAtTime ==
  /\ how = "queue" /\ pc = "select" /\ pc' = "get"
  /\ UNCHANGED <<how, process, read, killed, data, polled, chunks, buffer, lines, result>>

Get ==
  /\ pc = "get" /\ queue # <<>> /\ queue' = Tail(queue) /\ data' = Head(queue)
  /\ pc' = IF data' = <<>> THEN "finally" ELSE "consume"
  /\ UNCHANGED <<how, process, read, killed, polled, thread, buffer, lines, result>>

QueueIsEmpty ==
  /\ pc = "get" /\ IterTimeout /\ queue = <<>> /\ pc' = "select"
  /\ UNCHANGED <<how, process, read, killed, data, polled, chunks, buffer, lines, result>>

-----------------------------------------------------------------------------
Kills == ~polled

Finally ==
  /\ pc = "finally" /\ pc' = "end"
  /\ killed' = (Kills /\ alive) /\ alive' = (alive /\ ~Kills)
  /\ closed' = (closed \/ ~alive')
  /\ UNCHANGED <<how, output, written, read, data, polled, chunks, buffer, lines, result>>

IterateEnds ==
  /\ how # "communicate" /\ pc = "end" /\ ~alive /\ pc' = "done"
  /\ how = "queue" => thread = "ended"
  /\ IF result = "timeout" THEN UNCHANGED <<lines, result>>
     ELSE lines' = lines \o (IF buffer = <<>> THEN <<>> ELSE <<buffer>>) /\ result' = "status"
  /\ UNCHANGED <<how, process, read, killed, data, polled, chunks, buffer>>

Reader ==
  \/ Communicate \/ CommunicateEnds \/ Read \/ NothingToRead \/ Consume \/ ConsumeLate
  \/ Poll \/ TimesOut \/ LooksAtTime \/ Get \/ QueueIsEmpty \/ Finally \/ IterateEnds

ReaderThread == ReadToQueue \/ ThreadPolls

Next == Write \/ CloseStdout \/ Exit \/ Reader \/ ReaderThread
Spec == Init /\ [][Next]_vars
FairSpec == Spec /\ WF_vars(Reader) /\ WF_vars(ReaderThread) /\ SF_vars(TimesOut)

-----------------------------------------------------------------------------
Done == pc = "done"

(* The lines are those of what was read, wherever the chunks begin.        *)
LinesAreOfOutput ==
  how # "communicate" /\ Done /\ result = "status" =>
    LET text == SubSeq(output, 1, read) IN
    lines = SplitLines(text) \o (IF Rest(text) = <<>> THEN <<>> ELSE <<Rest(text)>>)

(* "(exit code, output)": a call that did not time out has read everything *)
(* the process wrote.                                                      *)
OutputIsWhole == Done /\ result = "status" => read = Len(output)

(* "if we fail with an exception": a command that did not time out is not  *)
(* killed.                                                                 *)
KilledOnlyOnTimeout == killed => result = "timeout"

IterationEnds == how # "communicate" => Done
=============================================================================
