---------------------------- MODULE LogcatMonitor ----------------------------
(***************************************************************************)
(* A monitor that records the log of a device in a file, with a thread of  *)
(* its own that reads the log until an event is set. Its user starts and   *)
(* stops it, waits for lines, and closes the file. Lines are their number  *)
(* in the log.                                                             *)
(***************************************************************************)
EXTENDS Naturals, Sequences, FiniteSets, SequencesExt

CONSTANTS
  MaxLines, MaxThreads,    \* bounds on the log and on the threads started
  Success, Failure,        \* the lines that match what WaitFor looks for
  JoinTimesOut,            \* a thread may take longer to end than it is waited for
  LogcatFails              \* reading the log may fail

VARIABLES
  logged, first,             \* the log of the device, and where it begins
  state, next, held,         \* the threads
  current, used,             \* the thread of the monitor, and how many there were
  stop, open, file, output,  \* the event, the record, and its last copy
  pc, at, result             \* the user

log == <<logged, first>>
threads == <<state, next, held>>
monitor == <<current, used, stop, open, file, output>>
user == <<pc, at, result>>
vars == <<log, threads, monitor, user>>
Threads == 1..MaxThreads

Init ==
  /\ logged = 0 /\ first = 1
  /\ state = [t \in Threads |-> "none"]
  /\ next = [t \in Threads |-> 1] /\ held = [t \in Threads |-> 0]
  /\ current = 0 /\ used = 0 /\ stop = FALSE /\ open = FALSE /\ file = <<>> /\ output = <<>>
  /\ pc = "idle" /\ at = 0 /\ result = "none"

Log ==
  /\ logged < MaxLines /\ logged' = logged + 1
  /\ UNCHANGED <<first, threads, monitor, user>>

-----------------------------------------------------------------------------
(* record_to_file                                                          *)
Fetch(t) ==
  /\ state[t] = "running" /\ held[t] = 0 /\ next[t] <= logged
  /\ held' = [held EXCEPT ![t] = next[t]]
  /\ next' = [next EXCEPT ![t] = @ + 1]
  /\ UNCHANGED <<log, state, monitor, user>>

Ends(t, how) == state' = [state EXCEPT ![t] = how] /\ held' = [held EXCEPT ![t] = 0]

(* Without a line for a while the event is looked at all the same.         *)
FetchesNone(t) ==
  /\ state[t] = "running" /\ held[t] = 0 /\ stop /\ Ends(t, "ended")
  /\ UNCHANGED <<log, next, monitor, user>>

Record(t) ==
  /\ state[t] = "running" /\ held[t] # 0
  /\ IF stop THEN Ends(t, "ended") /\ UNCHANGED file
     ELSE /\ held' = [held EXCEPT ![t] = 0] /\ UNCHANGED state
          /\ file' = IF open THEN Append(file, held[t]) ELSE file
  /\ UNCHANGED <<log, next, current, used, stop, open, output, user>>

LogcatRaises(t) ==
  /\ LogcatFails /\ state[t] = "running" /\ Ends(t, "failed")
  /\ UNCHANGED <<log, next, monitor, user>>

-----------------------------------------------------------------------------
Cleared == logged + 1

Start ==
  /\ pc = "idle" /\ (current = 0 => used < MaxThreads)
  /\ first' = Cleared
  /\ open' = TRUE /\ file' = (IF open THEN file ELSE <<>>)
  /\ stop' = FALSE
  /\ IF current = 0
     THEN /\ current' = used + 1 /\ used' = used + 1
          /\ state' = [state EXCEPT ![used + 1] = "running"]
          /\ next' = [next EXCEPT ![used + 1] = first']
     ELSE UNCHANGED <<current, used, state, next>>
  /\ result' = "none"
  /\ UNCHANGED <<logged, held, output, pc, at>>

Stop ==
  /\ pc = "idle"
  /\ pc' = IF current = 0 THEN "copy" ELSE "join"
  /\ stop' = (stop \/ current # 0)
  /\ UNCHANGED <<log, threads, current, used, open, file, output, at, result>>

ForgetsThread == current' = 0

Joined ==
  /\ pc = "join"
  /\ \/ state[current] = "ended" /\ pc' = "copy" /\ ForgetsThread /\ UNCHANGED result
     \/ state[current] = "running" /\ JoinTimesOut /\ pc' = "copy" /\ ForgetsThread /\ UNCHANGED result
     \/ state[current] = "failed" /\ pc' = "idle" /\ result' = "raised" /\ UNCHANGED current
  /\ UNCHANGED <<log, threads, used, stop, open, file, output, at>>

Copy ==
  /\ pc = "copy" /\ pc' = "idle"
  /\ output' = IF open THEN file ELSE output
  /\ UNCHANGED <<log, threads, current, used, stop, open, file, at, result>>

Close ==
  /\ pc = "idle" /\ current = 0 /\ open
  /\ open' = FALSE /\ file' = <<>>
  /\ UNCHANGED <<log, threads, current, used, stop, output, user>>

WaitFor ==
  /\ pc = "idle" /\ current # 0 /\ open
  /\ pc' = "wait" /\ at' = 1 /\ result' = "none"
  /\ UNCHANGED <<log, threads, monitor>>

Answers(r) == pc' = "idle" /\ at' = 0 /\ result' = r

IsFailure(l) == l \in Failure

ReadLine ==
  /\ pc = "wait" /\ at <= Len(file)
  /\ IF file[at] \in Success THEN Answers("match")
     ELSE IF IsFailure(file[at]) THEN Answers("no match")
     ELSE at' = at + 1 /\ UNCHANGED <<pc, result>>
  /\ UNCHANGED <<log, threads, monitor>>

(* Mutant: at its end the file is read again from the beginning.           *)
ReadsAgain ==
  /\ pc = "wait" /\ at = Len(file) + 1 /\ at' = 1
  /\ UNCHANGED <<log, threads, monitor, pc, result>>

WaitTimesOut ==
  /\ pc = "wait" /\ at = Len(file) + 1 /\ Answers("timeout")
  /\ UNCHANGED <<log, threads, monitor>>

User == Joined \/ Copy \/ ReadLine \/ WaitTimesOut
Thread(t) == Fetch(t) \/ FetchesNone(t) \/ Record(t)

Next ==
  \/ Log \/ Start \/ Stop \/ Close \/ WaitFor \/ User
  \/ \E t \in Threads : Thread(t) \/ LogcatRaises(t)

Spec == Init /\ [][Next]_vars
FairSpec == Spec /\ WF_vars(User) /\ \A t \in Threads : WF_vars(Thread(t))

-----------------------------------------------------------------------------
(* A record has no line twice, and its lines are in the order of the log.  *)
RecordedOnce == \A i \in 1..(Len(file) - 1) : file[i] < file[i + 1]

(* A wait answers by the first line that matches either of its patterns.   *)
AnswerIsOfFirstMatch ==
  ReadLine /\ result' # result =>
       \E i \in DOMAIN file :
         /\ \A j \in 1..(i - 1) : file[j] \notin Success \cup Failure
         /\ result' = IF file[i] \in Success THEN "match" ELSE "no match"

(* "Starts the logcat monitor": after a stop, or the first time, a thread  *)
(* records from then on.                                                   *)
StartRecords == Start /\ (stop \/ current = 0) => current' # 0 /\ state'[current'] = "running"

Waiting == pc \in {"join", "copy", "wait"}
Returned == pc = "idle"
=============================================================================
