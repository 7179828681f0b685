------------------------------- MODULE TraceLog -------------------------------
(***************************************************************************)
(* The event log of py_trace_event: threads of two processes buffer events *)
(* under a lock of their process and flush them to one file under flock.   *)
(* The second process is a forked child, which inherits buffer, lock and   *)
(* open file, or a program of its own that enables the same log.           *)
(***************************************************************************)
EXTENDS Integers, Sequences, FiniteSets

CONSTANTS
  Forks,      \* TRUE: the second process is forked by multiprocessing
  Threads,    \* the threads of the first process: "main", "side"
  MaxEvents   \* bound on the events logged

Processes == {"parent", "child"}
Actors == Threads \cup {"kid"}
Proc(t) == IF t = "kid" THEN "child" ELSE "parent"
Free == "free"
Open == -1      \* "["
Argv == -2      \* the first element
Comma == 0

VARIABLES
  enabled, control, buf, desc, registered, mutex, \* of each process; desc: its
                         \* open file description, registered: for whose pid
  tls,                   \* the pid each thread remembers
  pc, op,                \* the call of each thread
  flock,                 \* the description that holds the lock of the file
  file, logged,          \* logged: the events each process has logged
  crossed                \* "mixed": two have held the flock at once; "copied": a
                         \* process has written what it inherited from another

process == <<enabled, control, buf, desc, registered>>
vars == <<process, mutex, tls, pc, op, flock, file, logged, crossed>>

Init ==
  /\ enabled = [p \in Processes |-> FALSE] /\ control = [p \in Processes |-> TRUE]
  /\ buf = [p \in Processes |-> <<>>] /\ desc = [p \in Processes |-> 0]
  /\ registered = [p \in Processes |-> "none"] /\ mutex = [p \in Processes |-> Free]
  /\ tls = [t \in Actors |-> "none"] /\ op = [t \in Actors |-> "none"]
  /\ pc = [t \in Actors |-> IF t = "kid" THEN "unborn" ELSE "idle"]
  /\ flock = 0 /\ file = <<>> /\ logged = [p \in Processes |-> {}] /\ crossed = {}

Call(t, o) ==
  /\ pc[t] = "idle" /\ pc' = [pc EXCEPT ![t] = "wait"] /\ op' = [op EXCEPT ![t] = o]
  /\ UNCHANGED <<process, mutex, tls, flock, file, logged, crossed>>

(* The decorator _locked. A call with nothing to do leaves at once.        *)
Locked(t) == mutex[Proc(t)] = Free /\ mutex' = [mutex EXCEPT ![Proc(t)] = t]

Acquire(t) ==
  /\ pc[t] = "wait" /\ Locked(t) /\ pc' = [pc EXCEPT ![t] = op[t]]
  /\ UNCHANGED <<process, tls, op, flock, file, logged, crossed>>

Release(t) == mutex' = [mutex EXCEPT ![Proc(t)] = Free]

Leave(t) ==
  /\ Release(t) /\ pc' = [pc EXCEPT ![t] = IF op[t] = "end" THEN "gone" ELSE "idle"]
  /\ UNCHANGED op

-----------------------------------------------------------------------------
(* add_trace_event: the first event of a process after a fork clears what  *)
(* it has inherited.                                                       *)
NewPid(t) == tls[t] # Proc(t)
Clears(t) == NewPid(t) /\ registered[Proc(t)] # Proc(t)

Logged == Cardinality(logged["parent"] \cup logged["child"])
Logging == Cardinality({t \in Actors : pc[t] \in {"wait", "log"} /\ op[t] = "log"})

AddTraceEvent(t) ==
  LET p == Proc(t)
      e == Logged + 1
  IN /\ pc[t] = "log" /\ Leave(t)
     /\ \/ ~enabled[p] /\ UNCHANGED <<buf, registered, tls, logged>>
        \/ /\ enabled[p]
           /\ buf' = [buf EXCEPT ![p] = Append(IF Clears(t) THEN <<>> ELSE @, e)]
           /\ registered' = [registered EXCEPT ![p] = p]
           /\ tls' = [tls EXCEPT ![t] = p]
           /\ logged' = [logged EXCEPT ![p] = @ \cup {e}]
     /\ UNCHANGED <<enabled, control, desc, flock, file, crossed>>

(* trace_enable opens the file for appending: a description of its own,    *)
(* not the one the other process may have, inherited or not.               *)
Fresh(p) == IF \E q \in Processes \ {p} : desc[q] = 1 THEN 2 ELSE 1

TraceEnable(t) ==
  LET p == Proc(t)
  IN /\ pc[t] = "enable"
     /\ \/ (enabled[p] \/ ~control[p]) /\ Leave(t) /\ UNCHANGED process
        \/ /\ ~enabled[p] /\ control[p] /\ pc' = [pc EXCEPT ![t] = "header"]
           /\ enabled' = [enabled EXCEPT ![p] = TRUE] /\ desc' = [desc EXCEPT ![p] = Fresh(p)]
           /\ UNCHANGED <<control, buf, registered, mutex, op>>
     /\ UNCHANGED <<tls, flock, file, logged, crossed>>

(* flock(2) knows descriptions, not processes.                             *)
(* Mutant: the file is not locked.                                         *)
NoLock(p) == p \in Processes

CanLock(p) == flock \in {0, desc[p]}

WriteHeader(t) ==
  /\ pc[t] = "header" /\ CanLock(Proc(t)) /\ Leave(t)
  /\ file' = IF file = <<>> THEN <<Open, Argv>> ELSE file
  /\ UNCHANGED <<process, tls, flock, logged, crossed>>

(* trace_flush and trace_disable, and what a child does at its end.        *)
StartFlush(t) ==
  LET p == Proc(t)
  IN /\ pc[t] \in {"flush", "disable", "end"}
     /\ IF enabled[p] /\ (pc[t] = "disable" => control[p])
        THEN /\ pc' = [pc EXCEPT ![t] = "flock"] /\ UNCHANGED <<mutex, op>>
             /\ enabled' = [enabled EXCEPT ![p] = pc[t] # "disable"]
        ELSE Leave(t) /\ UNCHANGED enabled
     /\ UNCHANGED <<control, buf, desc, registered, tls, flock, file, logged, crossed>>

(* Who holds a description of its own writes alone.                        *)
Writes(t) == pc[t] \in {"comma", "events", "unlock"}

GetFlock(t) ==
  LET p == Proc(t)
  IN /\ pc[t] = "flock" /\ CanLock(p) /\ flock' = desc[p]
     /\ pc' = [pc EXCEPT ![t] = IF buf[p] = <<>> THEN "unlock" ELSE "comma"]
     /\ crossed' = crossed \cup IF \E u \in Actors \ {t} : Writes(u) THEN {"mixed"} ELSE {}
     /\ UNCHANGED <<process, mutex, tls, op, file, logged>>

WriteComma(t) ==
  /\ pc[t] = "comma" /\ pc' = [pc EXCEPT ![t] = "events"] /\ file' = Append(file, Comma)
  /\ UNCHANGED <<process, mutex, tls, op, flock, logged, crossed>>

Joined(es) == [i \in 1 .. 2 * Len(es) - 1 |-> IF i % 2 = 1 THEN es[(i + 1) \div 2] ELSE Comma]

Emptied(p) == <<>>

WriteEvents(t) ==
  LET p == Proc(t)
  IN /\ pc[t] = "events" /\ pc' = [pc EXCEPT ![t] = "unlock"]
     /\ file' = file \o Joined(buf[p])
     /\ buf' = [buf EXCEPT ![p] = Emptied(p)]
     /\ crossed' = crossed \cup IF registered[p] # p THEN {"copied"} ELSE {}
     /\ UNCHANGED <<enabled, control, desc, registered, mutex, tls, op, flock, logged>>

Unlock(t) ==
  LET p == Proc(t)
  IN /\ pc[t] = "unlock" /\ Leave(t)
     /\ flock' = IF flock = desc[p] THEN 0 ELSE flock
     /\ desc' = [desc EXCEPT ![p] = IF op[t] = "disable" THEN 0 ELSE @]
     /\ UNCHANGED <<enabled, control, buf, registered, tls, file, logged, crossed>>

(* A forked child gets copies of everything, of the lock of its parent     *)
(* too, and may not control the tracing; the file stays shared.            *)
Start ==
  /\ pc["kid"] = "unborn" /\ pc' = [pc EXCEPT !["kid"] = "idle"]
  /\ IF Forks
     THEN /\ pc["main"] = "idle"
          /\ enabled' = [enabled EXCEPT !["child"] = enabled["parent"]]
          /\ control' = [control EXCEPT !["child"] = FALSE]
          /\ buf' = [buf EXCEPT !["child"] = buf["parent"]]
          /\ desc' = [desc EXCEPT !["child"] = desc["parent"]]
          /\ registered' = [registered EXCEPT !["child"] = registered["parent"]]
          /\ mutex' = [mutex EXCEPT !["child"] = mutex["parent"]]
          /\ tls' = [tls EXCEPT !["kid"] = tls["main"]]
     ELSE UNCHANGED <<process, mutex, tls>>
  /\ UNCHANGED <<op, flock, file, logged, crossed>>

Step(t) ==
  \/ Acquire(t) \/ AddTraceEvent(t) \/ TraceEnable(t) \/ WriteHeader(t)
  \/ StartFlush(t) \/ GetFlock(t) \/ WriteComma(t) \/ WriteEvents(t) \/ Unlock(t)

Next ==
  \/ Start
  \/ \E t \in Actors : \/ Step(t)
                       \/ Call(t, "log") /\ Logged + Logging < MaxEvents
                       \/ \E o \in {"enable", "flush", "disable"} : Call(t, o)
  \/ Call("kid", IF Forks THEN "end" ELSE "disable")

Spec == Init /\ [][Next]_vars
(* Locks are given to those that wait for them in turn.                    *)
FairSpec == Spec /\ \A t \in Actors : SF_vars(Step(t))

-----------------------------------------------------------------------------
Elements(es) == {es[i] : i \in 1 .. Len(es)}
InFile == Elements(file)
Flushing(t) == pc[t] \in {"flock", "comma", "events", "unlock"}
Quiet == flock = 0 /\ \A t \in Actors : ~Flushing(t)

(* Whenever no process is writing, the file with a "]" is a list: that is  *)
(* how the controller of systrace and the viewer read it.                  *)
FileParses ==
  Quiet => \A i \in 1 .. Len(file) :
    CASE i = 1 -> file[i] = Open
      [] i = 2 -> file[i] = Argv
      [] i > 2 /\ i % 2 = 1 -> file[i] = Comma /\ i < Len(file)
      [] OTHER -> file[i] > 0

(* No event is written twice.                                              *)
EventsOnce == \A i, j \in 1 .. Len(file) : file[i] > 0 /\ file[i] = file[j] => i = j

(* When tracing is off in a process, or the process has ended, everything  *)
(* it logged is in the file.                                               *)
EventsKept ==
  \A p \in Processes :
    (\A t \in Actors : Proc(t) = p => ~Flushing(t))
      /\ (~enabled[p] \/ \E t \in Actors : Proc(t) = p /\ pc[t] = "gone")
      => logged[p] \subseteq InFile

(* What the log promises to whoever reads it.                              *)
LogIsWhole == FileParses /\ EventsOnce /\ EventsKept

(* With a fork the flock does not keep parent and child apart, and a child *)
(* may flush before it has logged: the list is whole up to the first time  *)
(* that both write at once, and has each event once up to the first flush  *)
(* of inherited events. What was logged is there in any case.              *)
WholeUntilCrossed ==
  /\ "mixed" \notin crossed => FileParses
  /\ "copied" \notin crossed => EventsOnce
  /\ EventsKept

(* The lock of a process is held by one of its own threads: nobody else    *)
(* will release it.                                                        *)
LockHasOwner == \A p \in Processes : mutex[p] # Free => Proc(mutex[p]) = p

-----------------------------------------------------------------------------
(* What the constants stand for: a thread has a name of its own, and the   *)
(* parent forks in its main thread.                                        *)
ThreadsDiffer == "kid" \notin Threads /\ Free \notin Threads /\ "main" \in Threads

ASSUME TraceLogAssumption == ThreadsDiffer

Working == {"log", "enable", "header", "flush", "disable", "end", "flock", "comma", "events", "unlock"}

TypeOK ==
  /\ enabled \in [Processes -> BOOLEAN] /\ control \in [Processes -> BOOLEAN]
  /\ buf \in [Processes -> Seq(Nat \ {0})] /\ desc \in [Processes -> 0..2]
  /\ registered \in [Processes -> Processes \cup {"none"}]
  /\ mutex \in [Processes -> Actors \cup {Free}]
  /\ pc \in [Actors -> {"unborn", "idle", "wait", "gone"} \cup Working]
  /\ op \in [Actors -> {"none", "log", "enable", "flush", "disable", "end"}]
  /\ file \in Seq(Int) /\ logged \in [Processes -> SUBSET (Nat \ {0})]
  /\ flock \in 0..2 /\ crossed \subseteq {"mixed", "copied"}

(* Of the threads of a process one is at work; a call is what it began as. *)
OneWorks ==
  \A t \in Actors :
    /\ pc[t] \in Working => mutex[Proc(t)] = t
    /\ pc[t] \in {"log", "enable", "flush", "disable", "end"} => op[t] = pc[t]
    /\ pc[t] = "header" => op[t] = "enable"
    /\ pc[t] = "wait" => op[t] # "none"
    /\ op[t] = "end" => t = "kid"
    /\ pc[t] = "gone" => t = "kid"

(* What was logged is in the buffer or in the file.                        *)
NoneIsLost ==
  /\ \A p \in Processes :
       /\ logged[p] \subseteq InFile \cup Elements(buf[p])
       /\ registered[p] # p => logged[p] = {}
  /\ \A t \in Actors : pc[t] = "unlock" => logged[Proc(t)] \subseteq InFile
  /\ pc["kid"] = "unborn" => logged["child"] = {}

(* Events are numbered as they are logged.                                 *)
Numbered == Logged \in Nat /\ logged["parent"] \cup logged["child"] = 1 .. Logged

(* The invariant of the log, with a forked child or without.               *)
KeptInv == TypeOK /\ OneWorks /\ Numbered /\ NoneIsLost /\ EventsKept

(* A log is open while it is enabled, and until a disabling has returned.  *)
(* While it is empty, whoever holds the lock of a process that has it open *)
(* is at its header: a child forked meanwhile waits for that thread.       *)
Headed ==
  /\ \A p \in Processes :
       /\ enabled[p] => desc[p] # 0
       /\ desc[p] # 0 /\ file = <<>> => \E t \in Actors : mutex[p] = t /\ pc[t] = "header"
  /\ \A t \in Actors :
       /\ pc[t] = "header" \/ Flushing(t) => desc[Proc(t)] # 0
       /\ Flushing(t) /\ op[t] = "disable" => ~enabled[Proc(t)]
       /\ pc[t] \in {"comma", "events"} => buf[Proc(t)] # <<>>

(* A process whose threads have logged in it is the registered one.        *)
Known ==
  /\ tls \in [Actors -> Processes \cup {"none"}] /\ registered["parent"] # "child"
  /\ \A t \in Actors :
       /\ tls[t] = Proc(t) => registered[Proc(t)] = Proc(t)
       /\ t # "kid" => tls[t] # "child"

OneWriter == \A t, u \in Actors : Writes(t) /\ Writes(u) => t = u

(* Events and commas take turns; a comma is last while events follow.      *)
InTurns ==
  /\ \A i \in 1 .. Len(file) :
       CASE i = 1 -> file[i] = Open
         [] i = 2 -> file[i] = Argv
         [] i > 2 /\ i % 2 = 1 -> file[i] = Comma
         [] OTHER -> file[i] > 0
  /\ \A t \in Actors : pc[t] = "events" => Len(file) > 2 /\ Len(file) % 2 = 1
  /\ (\A t \in Actors : pc[t] # "events") => Len(file) % 2 = 0

(* An event is in the file or in the buffer of its process, at one place.  *)
EachOnce ==
  /\ EventsOnce
  /\ \A p \in Processes : registered[p] = p =>
       /\ \A i, j \in 1 .. Len(buf[p]) : buf[p][i] = buf[p][j] => i = j
       /\ Elements(buf[p]) \subseteq logged[p] \ InFile
  /\ \A e \in InFile : e > 0 => e \in logged["parent"] \cup logged["child"]

(* Without a fork: each process has a description of the file of its own,  *)
(* who writes holds the flock, and nothing is inherited.                   *)
OwnFile ==
  /\ desc["parent"] # 0 => desc["child"] # desc["parent"]
  /\ \A t \in Actors : Writes(t) => flock = desc[Proc(t)]
  /\ \A p \in Processes : registered[p] # p => buf[p] = <<>>
  /\ crossed = {}

IInv ==
  /\ KeptInv /\ Headed /\ Known
  /\ logged["parent"] \cap logged["child"] = {}
  /\ "mixed" \notin crossed => OneWriter /\ InTurns
  /\ "copied" \notin crossed => EachOnce
  /\ ~Forks => OwnFile

Waits(t) == pc[t] = "wait"
Returned(t) == pc[t] \in {"idle", "gone"}
=============================================================================
