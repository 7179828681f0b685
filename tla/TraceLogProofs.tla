---------------------------- MODULE TraceLogProofs ----------------------------
(***************************************************************************)
(* The log of events of py_trace_event keeps what was logged, for any      *)
(* number of threads and events; the file is a list and has no event twice *)
(* until a forked child writes with its parent, or what it has inherited.  *)
(***************************************************************************)
EXTENDS TraceLog, FiniteSetTheorems, SequenceTheorems, TLAPS

USE DEF Processes, Actors, Proc, Free, Working

-----------------------------------------------------------------------------
(* What is joined has the events at odd places and commas between them.    *)
LEMMA JoinedSeq ==
  ASSUME NEW es \in Seq(Nat \ {0})
  PROVE  /\ Joined(es) \in Seq(Nat)
         /\ Len(Joined(es)) = IF es = <<>> THEN 0 ELSE 2 * Len(es) - 1
         /\ \A i \in 1 .. Len(Joined(es)) :
              Joined(es)[i] = IF i % 2 = 1 THEN es[(i + 1) \div 2] ELSE 0
         /\ \A i \in 1 .. Len(es) : 2 * i - 1 \in 1 .. Len(Joined(es)) /\ Joined(es)[2 * i - 1] = es[i]
<1>1. CASE es = <<>>
  <2>1. Joined(es) = <<>>
    BY <1>1 DEF Joined
  <2>2. Joined(es) \in Seq(Nat) /\ Len(Joined(es)) = 0 /\ Len(es) = 0
    BY <1>1, <2>1, EmptySeq
  <2> QED BY <1>1, <2>2
<1>2. CASE es # <<>>
  <2> DEFINE n == 2 * Len(es) - 1
  <2>1. n \in Nat \ {0} /\ Len(es) \in Nat \ {0}
    BY <1>2
  <2>2. \A i \in 1 .. n : i % 2 = 1 => (i + 1) \div 2 \in 1 .. Len(es)
    BY <2>1
  <2>3. Joined(es) \in [1 .. n -> Nat]
    BY <2>2 DEF Joined, Comma
  <2>4. Joined(es) \in Seq(Nat) /\ Len(Joined(es)) = n
    BY <2>1, <2>3
  <2>5. \A i \in 1 .. n : Joined(es)[i] = IF i % 2 = 1 THEN es[(i + 1) \div 2] ELSE 0
    BY DEF Joined, Comma
  <2>6. \A i \in 1 .. Len(es) : 2 * i - 1 \in 1 .. n /\ (2 * i - 1) % 2 = 1 /\ (2 * i) \div 2 = i
    BY <2>1
  <2>7. ASSUME NEW i \in 1 .. Len(es) PROVE Joined(es)[2 * i - 1] = es[i]
    <3>1. ((2 * i - 1) + 1) \div 2 = i
      BY <2>6
    <3> QED BY <2>5, <2>6, <3>1
  <2> QED BY <1>2, <2>4, <2>5, <2>6, <2>7
<1> QED BY <1>1, <1>2

LEMMA JoinedElements ==
  ASSUME NEW es \in Seq(Nat \ {0})
  PROVE  Elements(es) \subseteq Elements(Joined(es))
<1>1. ASSUME NEW i \in 1 .. Len(es) PROVE es[i] \in Elements(Joined(es))
  <2>1. 2 * i - 1 \in 1 .. Len(Joined(es)) /\ Joined(es)[2 * i - 1] = es[i]
    BY JoinedSeq
  <2> QED BY <2>1 DEF Elements
<1> QED BY <1>1 DEF Elements

LEMMA ConcatElements ==
  ASSUME NEW S, NEW s \in Seq(S), NEW u \in Seq(S)
  PROVE  Elements(s \o u) = Elements(s) \cup Elements(u)
<1>1. /\ Len(s \o u) = Len(s) + Len(u) /\ Len(s) \in Nat /\ Len(u) \in Nat
      /\ \A i \in 1 .. Len(s) + Len(u) : (s \o u)[i] = IF i <= Len(s) THEN s[i] ELSE u[i - Len(s)]
  BY ConcatProperties
<1>2. Elements(s \o u) \subseteq Elements(s) \cup Elements(u)
  BY <1>1 DEF Elements
<1>3. ASSUME NEW i \in 1 .. Len(s) PROVE s[i] \in Elements(s \o u)
  <2>1. i \in 1 .. Len(s \o u) /\ (s \o u)[i] = s[i]
    BY <1>1
  <2> QED BY <2>1 DEF Elements
<1>4. ASSUME NEW i \in 1 .. Len(u) PROVE u[i] \in Elements(s \o u)
  <2>1. Len(s) + i \in 1 .. Len(s \o u) /\ (s \o u)[Len(s) + i] = u[i]
    BY <1>1
  <2> QED BY <2>1 DEF Elements
<1> QED BY <1>2, <1>3, <1>4 DEF Elements

LEMMA AppendElements ==
  ASSUME NEW S, NEW s \in Seq(S), NEW e \in S
  PROVE  Elements(Append(s, e)) = Elements(s) \cup {e}
<1>1. /\ Len(Append(s, e)) = Len(s) + 1 /\ Len(s) \in Nat
      /\ \A i \in 1 .. Len(s) : Append(s, e)[i] = s[i]
      /\ Append(s, e)[Len(s) + 1] = e
  OBVIOUS
<1> QED BY <1>1 DEF Elements

(* A flush writes the whole buffer, and the file only grows.               *)
LEMMA FlushWrites ==
  ASSUME TypeOK, NEW t \in Actors, WriteEvents(t)
  PROVE  /\ file' \in Seq(Int)
         /\ InFile' = InFile \cup Elements(Joined(buf[Proc(t)]))
         /\ Elements(buf[Proc(t)]) \subseteq InFile'
<1> DEFINE es == buf[Proc(t)]
<1>1. es \in Seq(Nat \ {0}) /\ file \in Seq(Int) /\ file' = file \o Joined(es)
  BY DEF WriteEvents, TypeOK
<1>2. Joined(es) \in Seq(Int)
  BY <1>1, JoinedSeq, SeqMonotonic
<1>3. file' \in Seq(Int) /\ InFile' = InFile \cup Elements(Joined(es))
  BY <1>1, <1>2, ConcatProperties, ConcatElements DEF InFile
<1> QED BY <1>1, <1>3, JoinedElements

-----------------------------------------------------------------------------
LEMMA InitKept == ASSUME ThreadsDiffer PROVE Init => KeptInv
<1>1. Init => Numbered
  BY FS_EmptySet DEF Init, Numbered, Logged
<1> QED BY <1>1 DEF ThreadsDiffer, Init, KeptInv, TypeOK, OneWorks, NoneIsLost, EventsKept

(* A call, its lock and its beginning change neither buffer nor file.      *)
Calls(t) == \E o \in {"log", "enable", "flush", "disable", "end"} : Call(t, o) /\ (o = "end" => t = "kid")

LEMMA CallKept ==
  ASSUME ThreadsDiffer, KeptInv, NEW t \in Actors, Acquire(t) \/ Calls(t)
  PROVE  KeptInv'
<1>1. UNCHANGED <<process, tls, flock, file, logged, crossed>>
  BY DEF Calls, Call, Acquire, process
<1>2. /\ \A u \in Actors : u # t => pc'[u] = pc[u] /\ op'[u] = op[u]
      /\ pc[t] \in {"idle", "wait"} /\ pc'[t] \in {"wait", "log", "enable", "flush", "disable", "end"}
      /\ pc' \in [Actors -> {"unborn", "idle", "wait", "gone"} \cup Working]
      /\ op' \in [Actors -> {"none", "log", "enable", "flush", "disable", "end"}]
      /\ op'[t] \in {"log", "enable", "flush", "disable", "end"} /\ (op'[t] = "end" => t = "kid")
      /\ mutex' \in [Processes -> Actors \cup {Free}]
      /\ \/ pc'[t] = "wait" /\ UNCHANGED mutex
         \/ pc'[t] = op'[t] /\ mutex[Proc(t)] = Free /\ mutex' = [mutex EXCEPT ![Proc(t)] = t]
  <2>1. CASE Acquire(t)
    BY <2>1 DEF Acquire, Locked, KeptInv, TypeOK, OneWorks
  <2>2. CASE Calls(t)
    BY <2>2 DEF Calls, Call, KeptInv, TypeOK, OneWorks
  <2> QED BY <2>1, <2>2
<1>3. TypeOK'
  BY <1>1, <1>2 DEF KeptInv, TypeOK, process
<1>4. OneWorks'
  BY <1>2 DEF KeptInv, TypeOK, OneWorks, ThreadsDiffer
<1>6. NoneIsLost'
  BY <1>1, <1>2 DEF KeptInv, NoneIsLost, InFile, process
<1>7. EventsKept'
  BY <1>1, <1>2 DEF KeptInv, EventsKept, InFile, Flushing, process
<1> QED BY <1>1, <1>3, <1>4, <1>6, <1>7 DEF KeptInv, Numbered, Logged

(* Whoever leaves lets the lock go; who goes on keeps it.                  *)
LEMMA Leaving ==
  ASSUME ThreadsDiffer, TypeOK, OneWorks, NEW t \in Actors, pc[t] \in Working, Leave(t)
  PROVE  /\ OneWorks'
         /\ UNCHANGED op
         /\ mutex' \in [Processes -> Actors \cup {Free}]
         /\ pc' \in [Actors -> {"unborn", "idle", "wait", "gone"} \cup Working]
         /\ \A u \in Actors : pc'[u] = IF u # t THEN pc[u] ELSE IF op[t] = "end" THEN "gone" ELSE "idle"
<1>1. /\ pc' = [pc EXCEPT ![t] = IF op[t] = "end" THEN "gone" ELSE "idle"]
      /\ mutex' = [mutex EXCEPT ![Proc(t)] = Free] /\ UNCHANGED op
  BY DEF Leave, Release
<1> QED BY <1>1 DEF TypeOK, OneWorks, ThreadsDiffer

LEMMA GoingOn ==
  ASSUME TypeOK, OneWorks, NEW t \in Actors, pc[t] \in Working,
         NEW next \in {"header", "flock", "comma", "events", "unlock"},
         pc' = [pc EXCEPT ![t] = next], UNCHANGED <<mutex, op>>, next = "header" => op[t] = "enable"
  PROVE  /\ OneWorks'
         /\ pc' \in [Actors -> {"unborn", "idle", "wait", "gone"} \cup Working]
BY DEF TypeOK, OneWorks

(* An event gets the next number, and a fork no longer counts.             *)
LEMMA AddKept ==
  ASSUME ThreadsDiffer, KeptInv, NEW t \in Actors, AddTraceEvent(t)
  PROVE  KeptInv'
<1> DEFINE p == Proc(t)
           e == Logged + 1
<1>1. pc[t] = "log" /\ Leave(t) /\ UNCHANGED <<enabled, control, desc, flock, file, crossed>>
  BY DEF AddTraceEvent
<1>2. /\ OneWorks' /\ mutex' \in [Processes -> Actors \cup {Free}] /\ UNCHANGED op
      /\ pc' \in [Actors -> {"unborn", "idle", "wait", "gone"} \cup Working]
      /\ \A u \in Actors : pc'[u] = IF u # t THEN pc[u] ELSE "idle"
  BY <1>1, Leaving DEF KeptInv, OneWorks
<1>3. CASE ~enabled[p]
  <2>1. UNCHANGED <<buf, registered, logged>>
    BY <1>3 DEF AddTraceEvent
  <2>2. TypeOK' /\ Numbered'
    BY <1>1, <1>2, <2>1 DEF KeptInv, TypeOK, Numbered, Logged
  <2>3. NoneIsLost'
    BY <1>1, <1>2, <2>1 DEF KeptInv, NoneIsLost, InFile
  <2>4. EventsKept'
    BY <1>1, <1>2, <2>1 DEF KeptInv, EventsKept, InFile, Flushing
  <2> QED BY <1>2, <2>2, <2>3, <2>4 DEF KeptInv
<1>4. CASE enabled[p]
  <2> DEFINE old == IF Clears(t) THEN <<>> ELSE buf[p]
  <2>1. /\ buf' = [buf EXCEPT ![p] = Append(old, e)]
        /\ registered' = [registered EXCEPT ![p] = p]
        /\ logged' = [logged EXCEPT ![p] = @ \cup {e}]
    BY <1>4 DEF AddTraceEvent
  <2>2. p \in Processes /\ e \in Nat \ {0} /\ Logged \in Nat
    BY DEF KeptInv, Numbered
  <2>3. old \in Seq(Nat \ {0})
    BY <2>2, EmptySeq DEF KeptInv, TypeOK
  <2>7. logged[p] \subseteq InFile \cup Elements(old)
    BY <2>2 DEF KeptInv, NoneIsLost, Clears
  <2> HIDE DEF old, e
  <2>4. Append(old, e) \in Seq(Nat \ {0}) /\ Elements(Append(old, e)) = Elements(old) \cup {e}
    <3>1. \A S : old \in Seq(S) /\ e \in S => Elements(Append(old, e)) = Elements(old) \cup {e}
      BY AppendElements
    <3> QED BY <2>2, <2>3, <3>1
  <2>5. TypeOK'
    BY <1>1, <1>2, <2>1, <2>2, <2>4 DEF KeptInv, TypeOK
  <2>6. Numbered'
    <3>1. logged'["parent"] \cup logged'["child"] = 1 .. e
      <4>1. logged'["parent"] \cup logged'["child"] = (logged["parent"] \cup logged["child"]) \cup {e}
        BY <2>1 DEF KeptInv, TypeOK
      <4>2. logged["parent"] \cup logged["child"] = 1 .. Logged
        BY DEF KeptInv, Numbered
      <4> QED BY <2>2, <4>1, <4>2 DEF e
    <3>2. Cardinality(1 .. e) = e
      BY <2>2, FS_Interval
    <3>3. Logged' = e
      BY <3>1, <3>2 DEF Logged
    <3> QED BY <2>2, <3>1, <3>3 DEF Numbered
  <2>8. NoneIsLost'
    <3>1. /\ logged'[p] = logged[p] \cup {e} /\ buf'[p] = Append(old, e) /\ registered'[p] = p
          /\ \A q \in Processes : q # p => /\ logged'[q] = logged[q] /\ buf'[q] = buf[q]
                                           /\ registered'[q] = registered[q]
          /\ InFile' = InFile
      BY <1>1, <2>1, <2>2 DEF KeptInv, TypeOK, InFile
    <3>2. \A q \in Processes : /\ logged'[q] \subseteq InFile' \cup Elements(buf'[q])
                               /\ registered'[q] # q => logged'[q] = {}
      BY <2>4, <2>7, <3>1 DEF KeptInv, NoneIsLost
    <3>3. \A u \in Actors : pc'[u] = "unlock" => u # t /\ pc[u] = "unlock" /\ Proc(u) # p
      BY <1>1, <1>2 DEF KeptInv, OneWorks
    <3>4. \A u \in Actors : pc'[u] = "unlock" => logged'[Proc(u)] \subseteq InFile'
      BY <3>1, <3>3 DEF KeptInv, NoneIsLost
    <3>5. pc'["kid"] = "unborn" => pc["kid"] = "unborn" /\ p # "child"
      BY <1>1, <1>2
    <3>6. pc'["kid"] = "unborn" => logged'["child"] = {}
      BY <3>1, <3>5 DEF KeptInv, NoneIsLost
    <3> HIDE DEF p
    <3> QED BY <3>2, <3>4, <3>6 DEF NoneIsLost
  <2>9. EventsKept'
    BY <1>1, <1>2, <1>4, <2>1, <2>2 DEF KeptInv, TypeOK, OneWorks, EventsKept, InFile, Flushing
  <2> QED BY <1>2, <2>5, <2>6, <2>8, <2>9 DEF KeptInv
<1> QED BY <1>3, <1>4

(* A step inside of a call, to the place next.                             *)
LEMMA StayKept ==
  ASSUME ThreadsDiffer, KeptInv, NEW t \in Actors, NEW next,
         \/ next = "header" /\ pc[t] = "enable"
         \/ next = "flock" /\ pc[t] \in {"flush", "disable", "end"}
         \/ next \in {"comma", "events", "unlock"} /\ pc[t] \in {"flock", "comma", "events"},
         pc' = [pc EXCEPT ![t] = next], UNCHANGED <<mutex, op, registered, logged>>, TypeOK',
         \A p \in Processes : p # Proc(t) => enabled'[p] = enabled[p],
         enabled'[Proc(t)] = enabled[Proc(t)] \/ next = "flock" \/ (next = "header" /\ enabled'[Proc(t)]),
         InFile \subseteq InFile',
         \A p \in Processes : logged[p] \subseteq InFile' \cup Elements(buf'[p]),
         next = "unlock" => logged[Proc(t)] \subseteq InFile'
  PROVE  KeptInv'
<1>1. OneWorks'
  BY GoingOn DEF KeptInv, OneWorks
<1>2. Numbered'
  BY DEF KeptInv, Numbered, Logged
<1>3. NoneIsLost'
  BY DEF KeptInv, TypeOK, NoneIsLost
<1>4. EventsKept'
  <2>1. ASSUME NEW p \in Processes, \A u \in Actors : Proc(u) = p => ~Flushing(u)',
               ~enabled'[p] \/ \E u \in Actors : Proc(u) = p /\ pc'[u] = "gone"
        PROVE  logged[p] \subseteq InFile
    <3>1. p = Proc(t) => next = "header"
      BY <2>1 DEF Flushing, KeptInv, TypeOK
    <3>2. \A u \in Actors : Proc(u) = p => ~Flushing(u)
      BY <2>1, <3>1 DEF Flushing, KeptInv, TypeOK
    <3>3. p = Proc(t) /\ pc'[t] = "header" => \A u \in Actors : Proc(u) = p => pc'[u] # "gone"
      BY DEF KeptInv, TypeOK, OneWorks
    <3>4. ~enabled[p] \/ \E u \in Actors : Proc(u) = p /\ pc[u] = "gone"
      BY <2>1, <3>1, <3>3 DEF KeptInv, TypeOK
    <3> QED BY <3>2, <3>4 DEF KeptInv, EventsKept
  <2> QED BY <2>1 DEF EventsKept
<1> QED BY <1>1, <1>2, <1>3, <1>4 DEF KeptInv

LEMMA LeaveKept ==
  ASSUME ThreadsDiffer, KeptInv, NEW t \in Actors,
         pc[t] \in {"enable", "header", "flush", "disable", "end", "unlock"}, Leave(t),
         UNCHANGED <<enabled, buf, registered, logged>>, InFile \subseteq InFile', TypeOK',
         op[t] = "end" => pc[t] = "unlock" \/ ~enabled[Proc(t)]
  PROVE  KeptInv'
<1>1. OneWorks' /\ \A u \in Actors : pc'[u] = IF u # t THEN pc[u] ELSE IF op[t] = "end" THEN "gone" ELSE "idle"
  BY Leaving DEF KeptInv
<1>2. Numbered'
  BY DEF KeptInv, Numbered, Logged
<1>3. NoneIsLost'
  BY <1>1 DEF KeptInv, TypeOK, NoneIsLost
<1>4. EventsKept'
  <2>1. ASSUME NEW p \in Processes, \A u \in Actors : Proc(u) = p => ~Flushing(u)',
               ~enabled[p] \/ \E u \in Actors : Proc(u) = p /\ pc'[u] = "gone"
        PROVE  logged[p] \subseteq InFile
    <3>1. CASE p = Proc(t) /\ pc[t] = "unlock"
      BY <3>1 DEF KeptInv, NoneIsLost
    <3>2. CASE p # Proc(t) \/ pc[t] # "unlock"
      BY <1>1, <2>1, <3>2 DEF KeptInv, TypeOK, OneWorks, EventsKept, Flushing
    <3> QED BY <3>1, <3>2
  <2> QED BY <2>1 DEF EventsKept
<1> QED BY <1>1, <1>2, <1>3, <1>4 DEF KeptInv

(* A flag that is set to a truth value stays one.                         *)
LEMMA FlagIsSet ==
  ASSUME NEW S, NEW f \in [S -> BOOLEAN], NEW k, NEW b \in BOOLEAN
  PROVE  [f EXCEPT ![k] = b] \in [S -> BOOLEAN]
BY Zenon

LEMMA StepType ==
  ASSUME ThreadsDiffer, KeptInv, NEW t \in Actors,
         \/ TraceEnable(t) \/ WriteHeader(t) \/ StartFlush(t) \/ GetFlock(t)
         \/ WriteComma(t) \/ WriteEvents(t) \/ Unlock(t)
  PROVE  TypeOK'
<1> USE DEF KeptInv
<1>0. pc[t] \in Working /\ Leave(t) =>
        /\ UNCHANGED op /\ mutex' \in [Processes -> Actors \cup {Free}]
        /\ pc' \in [Actors -> {"unborn", "idle", "wait", "gone"} \cup Working]
  BY Leaving
<1>1. CASE TraceEnable(t)
  <2>1. enabled' \in [Processes -> BOOLEAN] /\ desc' \in [Processes -> 0..2]
    <3>1. /\ UNCHANGED enabled \/ enabled' = [enabled EXCEPT ![Proc(t)] = TRUE]
          /\ UNCHANGED desc \/ desc' = [desc EXCEPT ![Proc(t)] = Fresh(Proc(t))]
      BY <1>1 DEF TraceEnable, process
    <3>2. enabled' \in [Processes -> BOOLEAN]
      <4>1. enabled \in [Processes -> BOOLEAN]
        BY DEF TypeOK
      <4> QED BY <3>1, <4>1, FlagIsSet
    <3>3. desc' \in [Processes -> 0..2]
      BY <3>1 DEF TypeOK, Fresh
    <3> QED BY <3>2, <3>3
  <2>2. /\ UNCHANGED <<control, buf, registered, tls, flock, file, logged, crossed>> /\ pc[t] \in Working
        /\ Leave(t) \/ (pc' = [pc EXCEPT ![t] = "header"] /\ UNCHANGED <<mutex, op>>)
    BY <1>1 DEF TraceEnable, process
  <2> QED BY <1>0, <2>1, <2>2 DEF TypeOK
<1>2. CASE WriteHeader(t)
  <2>1. file' \in Seq(Int)
    BY <1>2 DEF WriteHeader, TypeOK, Open, Argv
  <2> QED BY <1>0, <1>2, <2>1 DEF WriteHeader, TypeOK, process
<1>3. CASE StartFlush(t)
  <2>1. enabled' \in [Processes -> BOOLEAN]
    <3>1. UNCHANGED enabled \/ enabled' = [enabled EXCEPT ![Proc(t)] = pc[t] # "disable"]
      BY <1>3 DEF StartFlush
    <3>2. enabled \in [Processes -> BOOLEAN] /\ (pc[t] # "disable") \in BOOLEAN
      BY DEF TypeOK
    <3> QED BY <3>1, <3>2, FlagIsSet
  <2>2. /\ UNCHANGED <<control, buf, desc, registered, tls, flock, file, logged, crossed>> /\ pc[t] \in Working
        /\ Leave(t) \/ (pc' = [pc EXCEPT ![t] = "flock"] /\ UNCHANGED <<mutex, op>>)
    BY <1>3 DEF StartFlush
  <2> QED BY <1>0, <2>1, <2>2 DEF TypeOK
<1>4. CASE GetFlock(t)
  BY <1>4 DEF GetFlock, TypeOK, process
<1>5. CASE WriteComma(t)
  BY <1>5, AppendProperties DEF WriteComma, TypeOK, process, Comma
<1>6. CASE WriteEvents(t)
  <2>1. file' \in Seq(Int) /\ <<>> \in Seq(Nat \ {0})
    BY <1>6, FlushWrites, EmptySeq
  <2> QED BY <1>6, <2>1 DEF WriteEvents, TypeOK, Emptied
<1>7. CASE Unlock(t)
  BY <1>0, <1>7 DEF Unlock, TypeOK
<1> QED BY <1>1, <1>2, <1>3, <1>4, <1>5, <1>6, <1>7

LEMMA StepKept ==
  ASSUME ThreadsDiffer, KeptInv, NEW t \in Actors, Step(t)
  PROVE  KeptInv'
<1>1. Acquire(t) \/ AddTraceEvent(t) => KeptInv'
  BY CallKept, AddKept
<1>2. ~Acquire(t) /\ ~AddTraceEvent(t) => TypeOK'
  BY StepType DEF Step
<1>3. \A p \in Processes : logged[p] \subseteq InFile \cup Elements(buf[p])
  BY DEF KeptInv, NoneIsLost
<1>4. CASE TraceEnable(t)
  <2>1. UNCHANGED <<registered, logged, buf, file, InFile>> /\ pc[t] = "enable" /\ op[t] # "end" /\ TypeOK'
    BY <1>2, <1>4 DEF TraceEnable, AddTraceEvent, Acquire, process, InFile, KeptInv, OneWorks
  <2>2. CASE Leave(t) /\ UNCHANGED enabled
    BY <2>1, <2>2, LeaveKept
  <2>3. CASE pc' = [pc EXCEPT ![t] = "header"] /\ UNCHANGED <<mutex, op>>
    <3>1. /\ \A p \in Processes : p # Proc(t) => enabled'[p] = enabled[p]
          /\ enabled'[Proc(t)] = enabled[Proc(t)] \/ enabled'[Proc(t)]
      BY <1>4, <2>1 DEF TraceEnable, process, KeptInv, TypeOK
    <3> QED BY <1>3, <2>1, <2>3, <3>1, StayKept
  <2> QED BY <1>4, <2>2, <2>3 DEF TraceEnable, process
<1>5. CASE WriteHeader(t)
  <2>1. file = <<>> => InFile = {}
    BY EmptySeq DEF InFile, Elements
  <2>2. /\ UNCHANGED <<enabled, buf, registered, logged>> /\ pc[t] = "header" /\ Leave(t) /\ op[t] # "end"
        /\ TypeOK' /\ InFile \subseteq InFile'
    BY <1>2, <1>5, <2>1 DEF WriteHeader, AddTraceEvent, Acquire, process, InFile, KeptInv, OneWorks
  <2> QED BY <2>2, LeaveKept
<1>6. CASE StartFlush(t)
  <2>1. UNCHANGED <<registered, logged, buf, file, InFile>> /\ pc[t] \in {"flush", "disable", "end"} /\ TypeOK'
    BY <1>2, <1>6 DEF StartFlush, AddTraceEvent, Acquire, InFile
  <2>2. CASE Leave(t) /\ UNCHANGED enabled /\ (pc[t] = "end" => ~enabled[Proc(t)])
    <3>1. op[t] = "end" => ~enabled[Proc(t)]
      BY <2>1, <2>2 DEF KeptInv, OneWorks
    <3> QED BY <2>1, <2>2, <3>1, LeaveKept
  <2>3. CASE pc' = [pc EXCEPT ![t] = "flock"] /\ UNCHANGED <<mutex, op>>
    <3>1. \A p \in Processes : p # Proc(t) => enabled'[p] = enabled[p]
      BY <1>6 DEF StartFlush, KeptInv, TypeOK
    <3> QED BY <1>3, <2>1, <2>3, <3>1, StayKept
  <2> QED BY <1>6, <2>2, <2>3 DEF StartFlush
<1>7. CASE GetFlock(t)
  <2>1. /\ UNCHANGED <<enabled, registered, logged, mutex, op, buf, file, InFile>> /\ pc[t] = "flock" /\ TypeOK'
        /\ pc' = [pc EXCEPT ![t] = IF buf[Proc(t)] = <<>> THEN "unlock" ELSE "comma"]
    BY <1>2, <1>7 DEF GetFlock, AddTraceEvent, Acquire, process, InFile
  <2>2. buf[Proc(t)] = <<>> => Elements(buf[Proc(t)]) = {}
    BY EmptySeq DEF Elements
  <2>3. buf[Proc(t)] = <<>> => logged[Proc(t)] \subseteq InFile
    BY <1>3, <2>2
  <2> QED BY <1>3, <2>1, <2>3, StayKept
<1>8. CASE WriteComma(t)
  <2>1. /\ UNCHANGED <<enabled, registered, logged, mutex, op, buf>> /\ pc[t] = "comma" /\ TypeOK'
        /\ pc' = [pc EXCEPT ![t] = "events"] /\ file' = Append(file, Comma)
    BY <1>2, <1>8 DEF WriteComma, AddTraceEvent, Acquire, process
  <2>2. file \in Seq(Int) /\ Comma \in Int
    BY DEF KeptInv, TypeOK, Comma
  <2>3. InFile \subseteq InFile'
    BY <2>1, <2>2, AppendElements DEF InFile
  <2> QED BY <1>3, <2>1, <2>3, StayKept
<1>9. CASE WriteEvents(t)
  <2>1. /\ UNCHANGED <<enabled, registered, logged, mutex, op>> /\ pc[t] = "events" /\ TypeOK'
        /\ pc' = [pc EXCEPT ![t] = "unlock"] /\ buf' = [buf EXCEPT ![Proc(t)] = <<>>]
    BY <1>2, <1>9 DEF WriteEvents, Emptied, AddTraceEvent, Acquire
  <2>2. InFile \subseteq InFile' /\ Elements(buf[Proc(t)]) \subseteq InFile'
    BY <1>9, FlushWrites DEF KeptInv
  <2>3. \A p \in Processes : logged[p] \subseteq InFile' \cup Elements(buf'[p])
    BY <1>3, <2>1, <2>2 DEF KeptInv, TypeOK
  <2>4. logged[Proc(t)] \subseteq InFile'
    BY <1>3, <2>2
  <2> QED BY <2>1, <2>2, <2>3, <2>4, StayKept
<1>10. CASE Unlock(t)
  <2>1. /\ UNCHANGED <<enabled, buf, registered, logged, InFile>> /\ pc[t] = "unlock" /\ Leave(t) /\ TypeOK'
    BY <1>2, <1>10 DEF Unlock, AddTraceEvent, Acquire, InFile
  <2> QED BY <2>1, LeaveKept
<1> QED BY <1>1, <1>4, <1>5, <1>6, <1>7, <1>8, <1>9, <1>10 DEF Step

(* What a forked child inherits is not its own: it has logged nothing.     *)
LEMMA StartKept ==
  ASSUME ThreadsDiffer, KeptInv, Start
  PROVE  KeptInv'
<1>1. UNCHANGED <<op, flock, file, logged, crossed, InFile>> /\ pc["kid"] = "unborn" /\ pc' = [pc EXCEPT !["kid"] = "idle"]
  BY DEF Start, InFile
<1>2. logged["child"] = {} /\ "kid" \in Actors
  BY <1>1 DEF KeptInv, NoneIsLost
<1>3. /\ UNCHANGED <<enabled, control, buf, desc, registered, mutex>>
         \/ /\ control' = [control EXCEPT !["child"] = FALSE]
            /\ enabled' = [enabled EXCEPT !["child"] = enabled["parent"]]
            /\ buf' = [buf EXCEPT !["child"] = buf["parent"]]
            /\ desc' = [desc EXCEPT !["child"] = desc["parent"]]
            /\ registered' = [registered EXCEPT !["child"] = registered["parent"]]
            /\ mutex' = [mutex EXCEPT !["child"] = mutex["parent"]]
  BY DEF Start, process
<1>4. enabled' \in [Processes -> BOOLEAN] /\ control' \in [Processes -> BOOLEAN]
  <2>1. enabled \in [Processes -> BOOLEAN] /\ control \in [Processes -> BOOLEAN]
    BY DEF KeptInv, TypeOK
  <2>2. UNCHANGED enabled \/ enabled' = [enabled EXCEPT !["child"] = enabled["parent"]]
    BY <1>3
  <2>3. UNCHANGED control \/ control' = [control EXCEPT !["child"] = FALSE]
    BY <1>3
  <2>4. enabled["parent"] \in BOOLEAN
    BY <2>1, Zenon
  <2>5. enabled' \in [Processes -> BOOLEAN]
    BY <2>1, <2>2, <2>4, Zenon
  <2>6. control' \in [Processes -> BOOLEAN]
    BY <2>1, <2>3, Zenon
  <2> QED BY <2>5, <2>6
<1>5. TypeOK'
  BY <1>1, <1>3, <1>4 DEF KeptInv, TypeOK
<1>6. OneWorks'
  BY <1>1, <1>3 DEF KeptInv, TypeOK, OneWorks, ThreadsDiffer
<1>7. Numbered'
  BY <1>1 DEF KeptInv, Numbered, Logged
<1>8. NoneIsLost'
  BY <1>1, <1>2, <1>3 DEF KeptInv, TypeOK, NoneIsLost
<1>9. EventsKept'
  BY <1>1, <1>2, <1>3 DEF KeptInv, TypeOK, EventsKept, Flushing
<1> QED BY <1>5, <1>6, <1>7, <1>8, <1>9 DEF KeptInv

LEMMA NextKept == ASSUME ThreadsDiffer, KeptInv, [Next]_vars PROVE KeptInv'
<1>1. CASE Start
  BY <1>1, StartKept
<1>2. ASSUME NEW t \in Actors, Step(t) PROVE KeptInv'
  BY <1>2, StepKept
<1>3. ASSUME NEW t \in Actors, NEW o \in {"log", "enable", "flush", "disable"}, Call(t, o) PROVE KeptInv'
  BY <1>3, CallKept DEF Calls
<1>4. CASE Call("kid", IF Forks THEN "end" ELSE "disable")
  BY <1>4, CallKept DEF Calls
<1>5. CASE UNCHANGED vars
  <2>1. UNCHANGED <<enabled, control, buf, desc, registered, mutex, pc, op, flock, file, logged, crossed>>
    BY <1>5 DEF vars, process
  <2>2. TypeOK' /\ OneWorks' /\ Numbered'
    BY <2>1 DEF KeptInv, TypeOK, OneWorks, Numbered, Logged
  <2>3. NoneIsLost' /\ EventsKept'
    BY <2>1 DEF KeptInv, NoneIsLost, EventsKept, InFile, Flushing
  <2> QED BY <2>2, <2>3 DEF KeptInv
<1> QED BY <1>1, <1>2, <1>3, <1>4, <1>5 DEF Next

(* What a process has logged is in the file when its tracing is off or it  *)
(* has ended, also for a forked child that inherits buffer and lock.       *)
THEOREM LoggedIsKept == Spec => []EventsKept
<1>a. ThreadsDiffer
  BY TraceLogAssumption
<1>1. Init => KeptInv
  BY <1>a, InitKept
<1>2. KeptInv /\ [Next]_vars => KeptInv'
  BY <1>a, NextKept
<1>3. KeptInv => EventsKept
  BY DEF KeptInv
<1> QED BY <1>1, <1>2, <1>3, PTL DEF Spec

-----------------------------------------------------------------------------
(* Until two have held the flock at once, who writes does so alone.        *)
Inv == ThreadsDiffer /\ IInv

LEMMA InitInv == ASSUME ThreadsDiffer PROVE Init => IInv
<1>1. Elements(<<>>) = {}
  BY DEF Elements
<1>2. Init => /\ Headed /\ Known /\ OwnFile /\ OneWriter /\ InTurns /\ EachOnce
              /\ logged["parent"] \cap logged["child"] = {}
  BY <1>1 DEF Init, Headed, Known, OwnFile, OneWriter, InTurns, EachOnce, EventsOnce, InFile,
              Flushing, Writes, ThreadsDiffer
<1> QED BY <1>2, InitKept DEF IInv

(* Whoever leaves writes no more.                                          *)
LEMMA Left ==
  ASSUME Inv, NEW t \in Actors, pc[t] \in Working, Leave(t)
  PROVE  /\ UNCHANGED op
         /\ \A u \in Actors : u # t => pc'[u] = pc[u]
         /\ pc'[t] \in {"idle", "gone"}
         /\ mutex' = [mutex EXCEPT ![Proc(t)] = Free]
BY Leaving DEF Inv, IInv, KeptInv, Leave, Release

LEMMA HeadedStep ==
  ASSUME Inv, NEW t \in Actors, Step(t)
  PROVE  Headed'
<1> USE DEF Inv, IInv, Flushing
<1> DEFINE p == Proc(t)
<1>0. KeptInv /\ Headed /\ p \in Processes /\ \A q \in Processes : Fresh(q) \in {1, 2}
  BY DEF Fresh
<1>1. CASE Acquire(t)
  <2>1. UNCHANGED <<enabled, desc, buf, file, op>> /\ pc[t] = "wait" /\ mutex[p] = Free
        /\ pc' = [pc EXCEPT ![t] = op[t]] /\ mutex' = [mutex EXCEPT ![p] = t]
    BY <1>1 DEF Acquire, Locked, process
  <2>2. op[t] \in {"log", "enable", "flush", "disable", "end"}
    BY <1>0, <2>1 DEF KeptInv, TypeOK, OneWorks
  <2>3. desc[p] # 0 => file # <<>>
    BY <1>0, <2>1 DEF Headed, ThreadsDiffer
  <2>4. (\A u \in Actors : u # t => pc'[u] = pc[u]) /\ pc'[t] = op[t]
        /\ \A q \in Processes : q # p => mutex'[q] = mutex[q]
    BY <1>0, <2>1 DEF KeptInv, TypeOK
  <2>5. \A q \in Processes : desc[q] # 0 /\ file = <<>> => \E u \in Actors : mutex'[q] = u /\ pc'[u] = "header"
    BY <1>0, <2>1, <2>3, <2>4 DEF Headed
  <2> QED BY <1>0, <2>1, <2>2, <2>4, <2>5 DEF Headed
<1>2. CASE AddTraceEvent(t)
  <2>1. UNCHANGED <<enabled, desc, file, op>> /\ pc[t] = "log" /\ mutex' = [mutex EXCEPT ![p] = Free]
        /\ (\A u \in Actors : u # t => pc'[u] = pc[u]) /\ pc'[t] \in {"idle", "gone"}
    BY <1>2, Left DEF AddTraceEvent
  <2>2. \A q \in Processes : q # p => buf'[q] = buf[q]
    BY <1>0, <1>2 DEF AddTraceEvent, KeptInv, TypeOK
  <2>3. \A u \in Actors : u # t /\ Proc(u) = p => pc[u] \notin Working
    BY <2>1 DEF KeptInv, OneWorks
  <2>4. mutex[p] = t
    BY <2>1 DEF KeptInv, OneWorks
  <2>5. desc[p] # 0 => file # <<>>
    BY <1>0, <2>1, <2>4 DEF Headed
  <2> QED BY <1>0, <2>1, <2>2, <2>3, <2>5 DEF Headed, KeptInv, TypeOK
<1>3. CASE TraceEnable(t)
  <2>1. UNCHANGED <<buf, file, op>> /\ pc[t] = "enable" /\ op[t] = "enable" /\ mutex[p] = t
    BY <1>3, Left DEF TraceEnable, process, KeptInv, OneWorks
  <2>2. CASE UNCHANGED <<enabled, desc>> /\ Leave(t)
    <3>1. (\A u \in Actors : u # t => pc'[u] = pc[u]) /\ pc'[t] \in {"idle", "gone"}
          /\ mutex' = [mutex EXCEPT ![p] = Free]
      BY <2>1, <2>2, Left
    <3>2. desc[p] # 0 => file # <<>>
      BY <1>0, <2>1 DEF Headed
    <3> QED BY <1>0, <2>1, <2>2, <3>1, <3>2 DEF Headed, KeptInv, TypeOK
  <2>3. CASE /\ pc' = [pc EXCEPT ![t] = "header"] /\ UNCHANGED mutex
             /\ enabled' = [enabled EXCEPT ![p] = TRUE] /\ desc' = [desc EXCEPT ![p] = Fresh(p)]
    <3>1. \A u \in Actors : Proc(u) = p => ~Flushing(u)
      BY <2>1 DEF KeptInv, OneWorks
    <3> QED BY <1>0, <2>1, <2>3, <3>1 DEF Headed, KeptInv, TypeOK
  <2> QED BY <1>3, <2>2, <2>3 DEF TraceEnable, process
<1>4. CASE WriteHeader(t)
  <2>1. /\ UNCHANGED <<enabled, desc, buf, op>> /\ pc[t] = "header" /\ file' # <<>>
        /\ (\A u \in Actors : u # t => pc'[u] = pc[u]) /\ pc'[t] \in {"idle", "gone"}
    BY <1>4, Left DEF WriteHeader, process
  <2> QED BY <1>0, <2>1 DEF Headed
<1>5. CASE StartFlush(t)
  <2>1. UNCHANGED <<desc, buf, file, op>> /\ pc[t] \in {"flush", "disable", "end"} /\ op[t] = pc[t]
        /\ mutex[p] = t
    BY <1>5, Left DEF StartFlush, KeptInv, OneWorks
  <2>2. CASE UNCHANGED enabled /\ Leave(t)
    <3>1. (\A u \in Actors : u # t => pc'[u] = pc[u]) /\ pc'[t] \in {"idle", "gone"}
          /\ mutex' = [mutex EXCEPT ![p] = Free]
      BY <2>1, <2>2, Left
    <3>2. desc[p] # 0 => file # <<>>
      BY <1>0, <2>1 DEF Headed
    <3> QED BY <1>0, <2>1, <2>2, <3>1, <3>2 DEF Headed, KeptInv, TypeOK
  <2>3. CASE enabled[p] /\ pc' = [pc EXCEPT ![t] = "flock"] /\ UNCHANGED mutex
             /\ enabled' = [enabled EXCEPT ![p] = pc[t] # "disable"]
    <3>1. /\ \A u \in Actors : u # t => pc'[u] = pc[u]
          /\ pc'[t] = "flock" /\ desc[p] # 0 /\ (op[t] = "disable" => ~enabled'[p])
          /\ \A q \in Processes : enabled'[q] => enabled[q]
      BY <1>0, <2>1, <2>3 DEF Headed, KeptInv, TypeOK
    <3>2. \A u \in Actors : Proc(u) \in Processes
      OBVIOUS
    <3> QED BY <1>0, <2>1, <2>3, <3>1, <3>2 DEF Headed
  <2> QED BY <1>5, <2>2, <2>3 DEF StartFlush
<1>6. CASE GetFlock(t)
  <2>1. /\ UNCHANGED <<enabled, desc, buf, file, op, mutex>> /\ pc[t] = "flock"
        /\ pc' = [pc EXCEPT ![t] = IF buf[p] = <<>> THEN "unlock" ELSE "comma"]
    BY <1>6 DEF GetFlock, process
  <2> QED BY <1>0, <2>1 DEF Headed, KeptInv, TypeOK
<1>7. CASE WriteComma(t)
  <2>1. /\ UNCHANGED <<enabled, desc, buf, op, mutex>> /\ pc[t] = "comma" /\ file' = Append(file, Comma)
        /\ pc' = [pc EXCEPT ![t] = "events"]
    BY <1>7 DEF WriteComma, process
  <2>2. file \in Seq(Int) /\ Comma \in Int
    BY <1>0 DEF KeptInv, TypeOK, Comma
  <2>3. file' # <<>>
    BY <2>1, <2>2, AppendProperties
  <2> QED BY <1>0, <2>1, <2>3 DEF Headed, KeptInv, TypeOK
<1>8. CASE WriteEvents(t)
  <2>1. /\ UNCHANGED <<enabled, desc, op, mutex>> /\ pc[t] = "events"
        /\ pc' = [pc EXCEPT ![t] = "unlock"]
        /\ \A q \in Processes : q # p => buf'[q] = buf[q]
    BY <1>0, <1>8 DEF WriteEvents, KeptInv, TypeOK
  <2>2. file # <<>> => file' # <<>>
    <3>1. buf[p] \in Seq(Nat \ {0}) /\ file \in Seq(Int)
      BY <1>0 DEF KeptInv, TypeOK
    <3>2. Joined(buf[p]) \in Seq(Int)
      BY <3>1, JoinedSeq, SeqMonotonic
    <3> QED BY <1>8, <3>1, <3>2, ConcatEqualIffEmpty DEF WriteEvents
  <2>3. \A u \in Actors : u # t /\ Proc(u) = p => pc[u] \notin Working
    BY <2>1 DEF KeptInv, OneWorks
  <2>4. mutex[p] = t
    BY <2>1 DEF KeptInv, OneWorks
  <2>5. desc[p] # 0 => file # <<>>
    BY <1>0, <2>1, <2>4 DEF Headed
  <2> QED BY <1>0, <2>1, <2>2, <2>3, <2>5 DEF Headed, KeptInv, TypeOK
<1>9. CASE Unlock(t)
  <2>1. /\ UNCHANGED <<enabled, buf, file, op>> /\ pc[t] = "unlock" /\ mutex' = [mutex EXCEPT ![p] = Free]
        /\ desc' = [desc EXCEPT ![p] = IF op[t] = "disable" THEN 0 ELSE @]
        /\ (\A u \in Actors : u # t => pc'[u] = pc[u]) /\ pc'[t] \in {"idle", "gone"}
    BY <1>9, Left DEF Unlock
  <2>3. \A u \in Actors : u # t /\ Proc(u) = p => pc[u] \notin Working
    BY <2>1 DEF KeptInv, OneWorks
  <2>4. mutex[p] = t
    BY <2>1 DEF KeptInv, OneWorks
  <2>5. desc[p] # 0 => file # <<>>
    BY <1>0, <2>1, <2>4 DEF Headed
  <2>6. op[t] = "disable" => ~enabled[p]
    BY <1>0, <2>1 DEF Headed
  <2>7. \A q \in Processes : desc'[q] = IF q = p /\ op[t] = "disable" THEN 0 ELSE desc[q]
    BY <2>1 DEF KeptInv, TypeOK
  <2>8. \A q \in Processes : mutex'[q] = IF q = p THEN Free ELSE mutex[q]
    BY <2>1 DEF KeptInv, TypeOK
  <2> QED BY <1>0, <2>1, <2>3, <2>5, <2>6, <2>7, <2>8 DEF Headed
<1> QED BY <1>1, <1>2, <1>3, <1>4, <1>5, <1>6, <1>7, <1>8, <1>9 DEF Step

(* Whoever logs makes its process the registered one.                      *)
LEMMA KnownStep ==
  ASSUME Inv, NEW t \in Actors, Step(t)
  PROVE  Known'
<1> USE DEF Inv, IInv
<1> DEFINE p == Proc(t)
<1>0. KeptInv /\ Known /\ p \in Processes
  OBVIOUS
<1>1. CASE UNCHANGED <<registered, tls>>
  BY <1>0, <1>1 DEF Known
<1>2. CASE registered' = [registered EXCEPT ![p] = p] /\ tls' = [tls EXCEPT ![t] = p]
  <2>1. registered'["parent"] # "child" /\ registered'[p] = p
        /\ \A q \in Processes : q # p => registered'[q] = registered[q]
    BY <1>0, <1>2 DEF Known, KeptInv, TypeOK
  <2>2. \A u \in Actors : u # t => tls'[u] = tls[u] \/ tls'[u] = tls[u]
    BY <1>2
  <2> QED BY <1>0, <1>2, <2>1 DEF Known
<1>3. UNCHANGED <<registered, tls>>
        \/ (registered' = [registered EXCEPT ![p] = p] /\ tls' = [tls EXCEPT ![t] = p])
  BY DEF Step, Acquire, AddTraceEvent, TraceEnable, WriteHeader, StartFlush, GetFlock,
         WriteComma, WriteEvents, Unlock, process
<1> QED BY <1>1, <1>2, <1>3

(* A second writer is noted, and without a fork there is none.             *)
LEMMA OneWriterStep ==
  ASSUME Inv, NEW t \in Actors, Step(t), "mixed" \notin crossed'
  PROVE  "mixed" \notin crossed /\ OneWriter'
<1> USE DEF Inv, IInv
<1>0. KeptInv
  OBVIOUS
<1>1. CASE GetFlock(t)
  <2>1. /\ crossed' = crossed \cup IF \E u \in Actors \ {t} : Writes(u) THEN {"mixed"} ELSE {}
        /\ pc' = [pc EXCEPT ![t] = IF buf[Proc(t)] = <<>> THEN "unlock" ELSE "comma"]
    BY <1>1 DEF GetFlock
  <2>2. \A u \in Actors : u # t => ~Writes(u)
    BY <2>1
  <2>3. \A u \in Actors : u # t => pc'[u] = pc[u]
    BY <1>0, <2>1 DEF KeptInv, TypeOK
  <2>4. \A u \in Actors : Writes(u)' => u = t
    BY <2>2, <2>3 DEF Writes
  <2> QED BY <2>1, <2>4 DEF OneWriter
<1>2. CASE ~GetFlock(t)
  <2>1. crossed \subseteq crossed'
    BY <1>2 DEF Step, Acquire, AddTraceEvent, TraceEnable, WriteHeader, StartFlush,
                WriteComma, WriteEvents, Unlock
  <2>2. pc[t] \in Working /\ Leave(t) =>
          (\A u \in Actors : u # t => pc'[u] = pc[u]) /\ pc'[t] \in {"idle", "gone"}
    BY Left
  <2>3. \A u \in Actors : Writes(u)' => Writes(u)
    <3>1. \/ (\A u \in Actors : u # t => pc'[u] = pc[u]) /\ pc'[t] \in {"idle", "gone"}
          \/ pc' = [pc EXCEPT ![t] = "header"] \/ pc' = [pc EXCEPT ![t] = "flock"]
          \/ pc' = [pc EXCEPT ![t] = op[t]] /\ pc[t] = "wait"
          \/ pc' = [pc EXCEPT ![t] = "events"] /\ pc[t] = "comma"
          \/ pc' = [pc EXCEPT ![t] = "unlock"] /\ pc[t] = "events"
      BY <1>2, <2>2 DEF Step, Acquire, AddTraceEvent, TraceEnable, WriteHeader, StartFlush,
                        WriteComma, WriteEvents, Unlock
    <3>2. op[t] \notin {"comma", "events", "unlock"}
      BY <1>0 DEF KeptInv, TypeOK
    <3> QED BY <1>0, <3>1, <3>2 DEF Writes, KeptInv, TypeOK
  <2> QED BY <2>1, <2>3 DEF OneWriter
<1> QED BY <1>1, <1>2

(* Without a fork the flock keeps writers apart, and a buffer has what its *)
(* own process has logged.                                                 *)
LEMMA OwnFileStep ==
  ASSUME Inv, ~Forks, NEW t \in Actors, Step(t)
  PROVE  OwnFile'
<1> USE DEF Inv, IInv
<1> DEFINE p == Proc(t)
<1>0. KeptInv /\ Headed /\ OwnFile /\ p \in Processes
  OBVIOUS
<1>1. pc[t] \in Working /\ Leave(t) =>
        (\A u \in Actors : u # t => pc'[u] = pc[u]) /\ pc'[t] \in {"idle", "gone"}
  BY Left
<1>2. \A u \in Actors : u # t /\ Proc(u) = p /\ pc[t] \in Working => ~Writes(u)
  BY <1>0 DEF KeptInv, OneWorks, Writes
<1>3. ASSUME pc[t] \in {"flock", "comma", "events", "unlock"}, CanLock(p) \/ Writes(t)
      PROVE  \A u \in Actors : u # t => ~Writes(u)
  <2>1. desc[p] # 0 /\ flock \in {0, desc[p]}
    BY <1>0, <1>3 DEF Headed, Flushing, OwnFile, CanLock, Writes
  <2>2. \A u \in Actors : Writes(u) => flock = desc[Proc(u)] /\ desc[Proc(u)] # 0
    BY <1>0 DEF Headed, OwnFile, Flushing, Writes
  <2>3. ASSUME NEW u \in Actors, Proc(u) # p PROVE ~Writes(u)
    <3>1. desc[p] # 0 /\ desc[Proc(u)] # 0 => desc[p] # desc[Proc(u)]
      BY <1>0, <2>3 DEF OwnFile
    <3> QED BY <2>1, <2>2, <3>1
  <2> QED BY <1>2, <1>3, <2>3
<1>4. CASE Acquire(t) \/ AddTraceEvent(t) \/ WriteHeader(t) \/ StartFlush(t) \/ WriteComma(t)
  <2>1. UNCHANGED <<desc, flock, crossed>>
    BY <1>4 DEF Acquire, AddTraceEvent, WriteHeader, StartFlush, WriteComma, process
  <2>2. \A u \in Actors : Writes(u)' => Writes(u)
    <3>1. \/ (\A u \in Actors : u # t => pc'[u] = pc[u]) /\ pc'[t] \in {"idle", "gone"}
          \/ pc' = [pc EXCEPT ![t] = "flock"]
          \/ pc' = [pc EXCEPT ![t] = op[t]] /\ pc[t] = "wait"
          \/ pc' = [pc EXCEPT ![t] = "events"] /\ pc[t] = "comma"
      BY <1>1, <1>4 DEF Acquire, AddTraceEvent, WriteHeader, StartFlush, WriteComma
    <3>2. op[t] \notin {"comma", "events", "unlock"}
      BY <1>0 DEF KeptInv, TypeOK
    <3> QED BY <1>0, <3>1, <3>2 DEF Writes, KeptInv, TypeOK
  <2>3. \A q \in Processes : registered'[q] # q => registered[q] # q /\ buf'[q] = buf[q]
    BY <1>0, <1>4 DEF Acquire, AddTraceEvent, WriteHeader, StartFlush, WriteComma, process, KeptInv, TypeOK
  <2> QED BY <1>0, <2>1, <2>2, <2>3 DEF OwnFile
<1>5. CASE TraceEnable(t)
  <2>1. /\ UNCHANGED <<flock, crossed, registered, buf>> /\ pc[t] = "enable"
        /\ UNCHANGED desc \/ desc' = [desc EXCEPT ![p] = Fresh(p)]
    BY <1>5 DEF TraceEnable, process
  <2>2. \A u \in Actors : Writes(u)' => Writes(u) /\ u # t
    BY <1>0, <1>1, <1>5 DEF Writes, TraceEnable, KeptInv, TypeOK
  <2>3. \A q \in Processes : q # p => desc'[q] = desc[q] /\ (desc'[p] # desc[p] => desc'[p] # desc'[q])
    BY <1>0, <2>1 DEF Fresh, KeptInv, TypeOK
  <2>4. desc'["parent"] # 0 => desc'["child"] # desc'["parent"]
    <3>1. CASE UNCHANGED desc
      BY <1>0, <3>1 DEF OwnFile
    <3>2. CASE desc' = [desc EXCEPT ![p] = Fresh(p)]
      BY <1>0, <3>2 DEF Fresh, KeptInv, TypeOK
    <3> QED BY <2>1, <3>1, <3>2
  <2>5. \A u \in Actors : Writes(u)' => flock' = desc'[Proc(u)]
    BY <1>0, <1>2, <2>1, <2>2, <2>3 DEF OwnFile
  <2> QED BY <1>0, <2>1, <2>4, <2>5 DEF OwnFile
<1>6. CASE GetFlock(t)
  <2>1. /\ UNCHANGED <<desc, buf, registered>> /\ pc[t] = "flock" /\ flock' = desc[p] /\ CanLock(p)
        /\ pc' = [pc EXCEPT ![t] = IF buf[p] = <<>> THEN "unlock" ELSE "comma"]
        /\ crossed' = crossed \cup IF \E u \in Actors \ {t} : Writes(u) THEN {"mixed"} ELSE {}
    BY <1>6 DEF GetFlock, process
  <2>2. \A u \in Actors : u # t => ~Writes(u)
    BY <1>3, <2>1
  <2>3. \A u \in Actors : Writes(u)' => u = t
    BY <1>0, <2>1, <2>2 DEF Writes, KeptInv, TypeOK
  <2> QED BY <1>0, <2>1, <2>2, <2>3 DEF OwnFile
<1>7. CASE WriteEvents(t)
  <2>1. /\ UNCHANGED <<desc, flock, registered>> /\ pc[t] = "events" /\ pc' = [pc EXCEPT ![t] = "unlock"]
        /\ buf' = [buf EXCEPT ![p] = <<>>]
        /\ crossed' = crossed \cup IF registered[p] # p THEN {"copied"} ELSE {}
    BY <1>7 DEF WriteEvents, Emptied
  <2>2. registered[p] = p
    BY <1>0, <2>1 DEF OwnFile, Headed
  <2>3. \A u \in Actors : Writes(u)' => Writes(u)
    BY <1>0, <2>1 DEF Writes, KeptInv, TypeOK
  <2>4. \A q \in Processes : buf'[q] = <<>> \/ buf'[q] = buf[q]
    BY <1>0, <2>1 DEF KeptInv, TypeOK
  <2> QED BY <1>0, <2>1, <2>2, <2>3, <2>4 DEF OwnFile
<1>8. CASE Unlock(t)
  <2>1. /\ UNCHANGED <<crossed, buf, registered>> /\ pc[t] = "unlock"
        /\ desc' = [desc EXCEPT ![p] = IF op[t] = "disable" THEN 0 ELSE @]
    BY <1>8 DEF Unlock
  <2>2. \A u \in Actors : u # t => ~Writes(u)
    BY <1>3, <2>1 DEF Writes
  <2>3. \A u \in Actors : ~Writes(u)'
    BY <1>1, <1>8, <2>1, <2>2 DEF Unlock, Writes
  <2>4. \A q \in Processes : desc'[q] \in {0, desc[q]}
    BY <1>0, <2>1 DEF KeptInv, TypeOK
  <2> QED BY <1>0, <2>1, <2>3, <2>4 DEF OwnFile
<1> QED BY <1>4, <1>5, <1>6, <1>7, <1>8 DEF Step

LEMMA Parity ==
  ASSUME NEW a \in Nat, NEW b \in Nat, a % 2 = 1
  PROVE  /\ (a + b) % 2 = 1 <=> b % 2 = 0
         /\ b % 2 \in {0, 1} /\ (a + b) % 2 \in {0, 1}
OBVIOUS

LEMMA Odd == ASSUME NEW n \in Nat \ {0} PROVE (2 * n - 1) % 2 = 1 /\ 2 * n - 1 \in Nat \ {0}
OBVIOUS

(* The commas and events of a flush continue the list.                     *)
LEMMA InTurnsStep ==
  ASSUME Inv, NEW t \in Actors, Step(t), "mixed" \notin crossed'
  PROVE  InTurns'
<1> DEFINE p == Proc(t)
<1>a. KeptInv /\ Headed /\ InTurns /\ OneWriter
  BY OneWriterStep DEF Inv, IInv
<1> USE <1>a
<1>0. p \in Processes /\ file \in Seq(Int) /\ Len(file) \in Nat
  BY DEF KeptInv, TypeOK
<1>1. CASE AddTraceEvent(t)
  <2>1. UNCHANGED file /\ pc[t] = "log"
        /\ (\A u \in Actors : u # t => pc'[u] = pc[u]) /\ pc'[t] \in {"idle", "gone"}
        /\ \A q \in Processes : q # p => buf'[q] = buf[q]
    BY <1>0, <1>1, Left DEF AddTraceEvent, KeptInv, TypeOK
  <2>2. \A u \in Actors : u # t /\ Proc(u) = p => pc[u] \notin Working
    BY <2>1 DEF KeptInv, OneWorks
  <2> QED BY <2>1, <2>2 DEF InTurns
<1>2. CASE WriteHeader(t)
  <2>1. /\ UNCHANGED buf /\ pc[t] = "header" /\ file' = IF file = <<>> THEN <<Open, Argv>> ELSE file
        /\ (\A u \in Actors : u # t => pc'[u] = pc[u]) /\ pc'[t] \in {"idle", "gone"}
    BY <1>2, Left DEF WriteHeader, process
  <2>2. CASE file = <<>>
    <3>1. \A u \in Actors : pc[u] # "events"
      BY <1>0, <2>2, EmptySeq DEF InTurns
    <3>2. Len(file') = 2 /\ file'[1] = Open /\ file'[2] = Argv
      BY <2>1, <2>2
    <3>3. \A u \in Actors : pc'[u] # "events" /\ (pc'[u] = "comma" => pc[u] = "comma")
      BY <2>1, <3>1
    <3>4. 1 .. Len(file') = {1, 2} /\ Len(file') % 2 = 0
      BY <3>2
    <3>5. \A i \in {1, 2} : CASE i = 1 -> file'[i] = Open
                           [] i = 2 -> file'[i] = Argv
                           [] i > 2 /\ i % 2 = 1 -> file'[i] = Comma
                           [] OTHER -> file'[i] > 0
      BY <3>2
    <3> QED BY <2>1, <3>3, <3>4, <3>5 DEF InTurns
  <2> QED BY <2>1, <2>2 DEF InTurns
<1>3. CASE GetFlock(t)
  <2>1. /\ UNCHANGED <<buf, file>> /\ pc[t] = "flock"
        /\ pc' = [pc EXCEPT ![t] = IF buf[p] = <<>> THEN "unlock" ELSE "comma"]
    BY <1>3 DEF GetFlock, process
  <2> QED BY <1>0, <2>1 DEF InTurns, KeptInv, TypeOK
<1>4. CASE WriteComma(t)
  <2>1. /\ UNCHANGED buf /\ pc[t] = "comma" /\ file' = Append(file, Comma) /\ pc' = [pc EXCEPT ![t] = "events"]
    BY <1>4 DEF WriteComma, process
  <2>2. \A u \in Actors : pc[u] # "events"
    BY <2>1 DEF OneWriter, Writes
  <2>3. desc[p] # 0 /\ \A u \in Actors : Proc(u) = p => pc[u] # "header"
    BY <2>1 DEF KeptInv, OneWorks, Headed, Flushing
  <2>a. mutex[p] = t
    BY <2>1 DEF KeptInv, OneWorks
  <2>4. Len(file) # 0 /\ Len(file) % 2 = 0
    BY <1>0, <2>2, <2>3, <2>a, EmptySeq DEF Headed, InTurns
  <2>5. /\ Len(file') = Len(file) + 1 /\ file'[Len(file) + 1] = Comma
        /\ \A i \in 1 .. Len(file) : file'[i] = file[i]
    BY <1>0, <2>1 DEF Comma
  <2>6. Len(file') > 2 /\ Len(file') % 2 = 1
    BY <1>0, <2>4, <2>5
  <2>7. /\ pc'[t] = "events" /\ \A u \in Actors : u # t => pc'[u] = pc[u]
        /\ \A u \in Actors : pc'[u] \in {"comma", "events"} => pc[u] \in {"comma", "events"}
    BY <1>0, <2>1 DEF KeptInv, TypeOK
  <2>8. \A i \in 1 .. Len(file') : i \in 1 .. Len(file) \/ (i = Len(file') /\ i > 2 /\ i % 2 = 1)
    BY <1>0, <2>5, <2>6
  <2>9. \A i \in 1 .. Len(file') : CASE i = 1 -> file'[i] = Open
                                    [] i = 2 -> file'[i] = Argv
                                    [] i > 2 /\ i % 2 = 1 -> file'[i] = Comma
                                    [] OTHER -> file'[i] > 0
    BY <2>5, <2>8 DEF InTurns
  <2> QED BY <2>1, <2>2, <2>6, <2>7, <2>9 DEF InTurns
<1>5. CASE WriteEvents(t)
  <2> DEFINE es == buf[p]
             js == Joined(es)
  <2>1. /\ buf' = [buf EXCEPT ![p] = <<>>] /\ pc[t] = "events" /\ file' = file \o js
        /\ pc' = [pc EXCEPT ![t] = "unlock"]
    BY <1>5 DEF WriteEvents, Emptied
  <2>2. \A u \in Actors : u # t => pc[u] \notin {"comma", "events"}
    BY <2>1 DEF OneWriter, Writes
  <2>3. es \in Seq(Nat \ {0}) /\ es # <<>> /\ Len(es) \in Nat \ {0}
    BY <1>0, <2>1, EmptySeq DEF KeptInv, TypeOK, Headed
  <2>4. /\ js \in Seq(Int) /\ Len(js) = 2 * Len(es) - 1
        /\ \A i \in 1 .. Len(js) : js[i] = IF i % 2 = 1 THEN es[(i + 1) \div 2] ELSE 0
    <3>1. /\ js \in Seq(Nat) /\ Len(js) = 2 * Len(es) - 1
          /\ \A i \in 1 .. Len(js) : js[i] = IF i % 2 = 1 THEN es[(i + 1) \div 2] ELSE 0
      BY <2>3, JoinedSeq
    <3> QED BY <3>1, SeqMonotonic
  <2>5. \A i \in 1 .. Len(js) : i % 2 = 1 => js[i] > 0
    <3>1. \A i \in 1 .. Len(js) : i % 2 = 1 => (i + 1) \div 2 \in 1 .. Len(es)
      BY <2>3, <2>4
    <3>2. \A k \in 1 .. Len(es) : es[k] > 0
      BY <2>3
    <3> QED BY <2>4, <3>1, <3>2
  <2>6. Len(file) > 2 /\ Len(file) % 2 = 1
    BY <2>1 DEF InTurns
  <2> HIDE DEF js, es
  <2>7. /\ Len(file') = Len(file) + Len(js)
        /\ \A i \in 1 .. Len(file) + Len(js) : file'[i] = IF i <= Len(file) THEN file[i] ELSE js[i - Len(file)]
    BY <1>0, <2>1, <2>4, ConcatProperties
  <2>8. Len(js) \in Nat /\ Len(js) % 2 = 1 /\ Len(file') % 2 = 0
    <3>1. Len(js) \in Nat /\ Len(js) % 2 = 1
      BY <2>3, <2>4, Odd
    <3> QED BY <1>0, <2>6, <2>7, <3>1, Parity
  <2>9. \A i \in 1 .. Len(js) : (Len(file) + i) % 2 = 1 <=> i % 2 = 0
    BY <1>0, <2>6, <2>8, Parity
  <2>10. ASSUME NEW i \in 1 .. Len(js)
         PROVE  IF (Len(file) + i) % 2 = 1 THEN file'[Len(file) + i] = Comma ELSE file'[Len(file) + i] > 0
    <3>1. file'[Len(file) + i] = js[i]
      BY <1>0, <2>7, <2>8
    <3>2. i % 2 \in {0, 1}
      BY <2>8
    <3> QED BY <2>4, <2>5, <2>9, <3>1, <3>2 DEF Comma
  <2>11. ASSUME NEW i \in 1 .. Len(file')
         PROVE CASE i = 1 -> file'[i] = Open
                 [] i = 2 -> file'[i] = Argv
                 [] i > 2 /\ i % 2 = 1 -> file'[i] = Comma
                 [] OTHER -> file'[i] > 0
    <3>1. CASE i <= Len(file)
      BY <1>0, <2>7, <3>1 DEF InTurns
    <3>2. CASE i > Len(file)
      <4>1. i - Len(file) \in 1 .. Len(js) /\ Len(file) + (i - Len(file)) = i
        BY <1>0, <2>7, <2>8, <3>2
      <4>2. i > 2 /\ i \in Nat
        BY <1>0, <2>6, <3>2
      <4>3. IF i % 2 = 1 THEN file'[i] = Comma ELSE file'[i] > 0
        BY <2>10, <4>1
      <4> QED BY <4>2, <4>3
    <3> QED BY <1>0, <3>1, <3>2
  <2> QED BY <1>0, <2>1, <2>2, <2>8, <2>11 DEF InTurns, KeptInv, TypeOK
<1>6. CASE Acquire(t) \/ TraceEnable(t) \/ StartFlush(t) \/ Unlock(t)
  <2>1. UNCHANGED <<buf, file>> /\ pc[t] \notin {"comma", "events"}
        /\ (\A u \in Actors : u # t => pc'[u] = pc[u]) /\ pc'[t] \notin {"comma", "events"}
    BY <1>0, <1>6, Left DEF Acquire, TraceEnable, StartFlush, Unlock, process, KeptInv, TypeOK
  <2> QED BY <2>1 DEF InTurns
<1> QED BY <1>1, <1>2, <1>3, <1>4, <1>5, <1>6 DEF Step

Once(es) == \A i, j \in 1 .. Len(es) : es[i] > 0 /\ es[i] = es[j] => i = j

LEMMA ConcatOnce ==
  ASSUME NEW s \in Seq(Int), NEW u \in Seq(Int), Once(s), Once(u),
         \A e \in Elements(s) \cap Elements(u) : e <= 0
  PROVE  Once(s \o u)
<1>1. /\ Len(s \o u) = Len(s) + Len(u) /\ Len(s) \in Nat /\ Len(u) \in Nat
      /\ \A i \in 1 .. Len(s) + Len(u) : (s \o u)[i] = IF i <= Len(s) THEN s[i] ELSE u[i - Len(s)]
  BY ConcatProperties
<1>2. ASSUME NEW i \in 1 .. Len(s), NEW j \in 1 .. Len(u), s[i] > 0 PROVE s[i] # u[j]
  <2>1. s[i] \in Elements(s) /\ u[j] \in Elements(u)
    BY DEF Elements
  <2> QED BY <1>2, <2>1
<1> SUFFICES ASSUME NEW i \in 1 .. Len(s \o u), NEW j \in 1 .. Len(s \o u),
                    (s \o u)[i] > 0, (s \o u)[i] = (s \o u)[j]
             PROVE  i = j
  BY DEF Once
<1>3. CASE i <= Len(s) /\ j <= Len(s)
  BY <1>1, <1>3 DEF Once
<1>4. CASE i <= Len(s) /\ j > Len(s)
  <2>1. j - Len(s) \in 1 .. Len(u) /\ i \in 1 .. Len(s)
    BY <1>1, <1>4
  <2> QED BY <1>1, <1>2, <1>4, <2>1
<1>5. CASE i > Len(s) /\ j <= Len(s)
  <2>1. i - Len(s) \in 1 .. Len(u) /\ j \in 1 .. Len(s)
    BY <1>1, <1>5
  <2>2. (s \o u)[i] = u[i - Len(s)] /\ (s \o u)[j] = s[j]
    BY <1>1, <1>5
  <2> QED BY <1>2, <2>1, <2>2
<1>6. CASE i > Len(s) /\ j > Len(s)
  <2> DEFINE a == i - Len(s)
             b == j - Len(s)
  <2>1. a \in 1 .. Len(u) /\ b \in 1 .. Len(u) /\ (s \o u)[i] = u[a] /\ (s \o u)[j] = u[b]
    BY <1>1, <1>6
  <2>2. a = b
    BY <2>1 DEF Once
  <2> QED BY <1>1, <2>2
<1> QED BY <1>1, <1>3, <1>4, <1>5, <1>6

(* The place of an event among the commas.                                 *)
LEMMA Halves ==
  ASSUME NEW n \in Nat \ {0}, NEW i \in 1 .. 2 * n - 1, i % 2 = 1
  PROVE  (i + 1) \div 2 \in 1 .. n /\ 2 * ((i + 1) \div 2) - 1 = i
OBVIOUS

(* What is joined has no event twice if the buffer has none twice.         *)
LEMMA JoinedOnce ==
  ASSUME NEW es \in Seq(Nat \ {0}), \A i, j \in 1 .. Len(es) : es[i] = es[j] => i = j
  PROVE  Once(Joined(es)) /\ Elements(Joined(es)) \subseteq Elements(es) \cup {0}
<1> DEFINE js == Joined(es)
<1>1. /\ js \in Seq(Nat) /\ Len(js) = IF es = <<>> THEN 0 ELSE 2 * Len(es) - 1
      /\ \A i \in 1 .. Len(js) : js[i] = IF i % 2 = 1 THEN es[(i + 1) \div 2] ELSE 0
  BY JoinedSeq
<1> HIDE DEF js
<1>2. ASSUME NEW i \in 1 .. Len(js), i % 2 = 1
      PROVE  (i + 1) \div 2 \in 1 .. Len(es) /\ 2 * ((i + 1) \div 2) - 1 = i
  <2>1. es # <<>> /\ Len(es) \in Nat \ {0}
    BY <1>1, EmptySeq
  <2> QED BY <1>1, <1>2, <2>1, Halves
<1>3. ASSUME NEW i \in 1 .. Len(js), NEW j \in 1 .. Len(js), js[i] > 0, js[i] = js[j]
      PROVE  i = j
  <2> DEFINE a == (i + 1) \div 2
             b == (j + 1) \div 2
  <2>1. i % 2 = 1 /\ j % 2 = 1
    BY <1>1, <1>3
  <2>2. a \in 1 .. Len(es) /\ b \in 1 .. Len(es) /\ 2 * a - 1 = i /\ 2 * b - 1 = j
    BY <1>2, <2>1
  <2>3. es[a] = es[b]
    BY <1>1, <1>3, <2>1
  <2> HIDE DEF a, b
  <2>4. a = b
    BY <2>2, <2>3
  <2> QED BY <2>2, <2>4
<1>4. ASSUME NEW i \in 1 .. Len(js) PROVE js[i] \in Elements(es) \cup {0}
  BY <1>1, <1>2 DEF Elements
<1>5. Elements(js) \subseteq Elements(es) \cup {0}
  BY <1>4 DEF Elements
<1> QED BY <1>3, <1>5 DEF js, Once

(* An event is logged with a new number, and a flush moves it to the file. *)
LEMMA ApartStep ==
  ASSUME Inv, NEW t \in Actors, Step(t)
  PROVE  logged'["parent"] \cap logged'["child"] = {}
<1> DEFINE p == Proc(t)
<1>0. KeptInv /\ p \in Processes /\ logged["parent"] \cap logged["child"] = {}
  BY DEF Inv, IInv
<1>1. UNCHANGED logged \/ logged' = [logged EXCEPT ![p] = @ \cup {Logged + 1}]
  BY DEF Step, Acquire, AddTraceEvent, TraceEnable, WriteHeader, StartFlush, GetFlock,
         WriteComma, WriteEvents, Unlock, process
<1>2. Logged + 1 \notin logged["parent"] \cup logged["child"]
  BY <1>0 DEF KeptInv, Numbered
<1> QED BY <1>0, <1>1, <1>2 DEF KeptInv, TypeOK

LEMMA EachOnceStep ==
  ASSUME Inv, NEW t \in Actors, Step(t), "copied" \notin crossed'
  PROVE  EachOnce'
<1> DEFINE p == Proc(t)
<1>a. crossed \subseteq crossed'
  BY DEF Step, Acquire, AddTraceEvent, TraceEnable, WriteHeader, StartFlush, GetFlock,
         WriteComma, WriteEvents, Unlock, process
<1>b. KeptInv /\ Known /\ EachOnce /\ logged["parent"] \cap logged["child"] = {}
  BY <1>a DEF Inv, IInv
<1> USE <1>b
<1>0. /\ p \in Processes /\ file \in Seq(Int) /\ Len(file) \in Nat
      /\ \A q \in Processes : buf[q] \in Seq(Nat \ {0}) /\ logged[q] \subseteq Nat \ {0}
  BY DEF KeptInv, TypeOK
<1>1. CASE AddTraceEvent(t)
  <2> DEFINE e == Logged + 1
             old == IF Clears(t) THEN <<>> ELSE buf[p]
  <2>1. CASE UNCHANGED <<file, buf, logged, registered>>
    BY <2>1 DEF EachOnce, EventsOnce, InFile
  <2>2. CASE /\ UNCHANGED file /\ buf' = [buf EXCEPT ![p] = Append(old, e)]
             /\ logged' = [logged EXCEPT ![p] = @ \cup {e}]
             /\ registered' = [registered EXCEPT ![p] = p]
    <3>1. e \in Nat \ {0} /\ e \notin logged["parent"] \cup logged["child"]
      BY DEF KeptInv, Numbered
    <3>2. old \in Seq(Nat \ {0}) /\ Elements(old) \subseteq logged[p] \ InFile
          /\ \A i, j \in 1 .. Len(old) : old[i] = old[j] => i = j
      <4>1. Elements(<<>>) = {} /\ <<>> \in Seq(Nat \ {0}) /\ Len(<<>>) = 0
        BY EmptySeq DEF Elements
      <4>2. ~Clears(t) => registered[p] = p
        BY DEF Clears, NewPid, Known
      <4> QED BY <1>0, <4>1, <4>2 DEF EachOnce
    <3> HIDE DEF e, old
    <3>3. Elements(Append(old, e)) = Elements(old) \cup {e}
      <4>1. \A S : old \in Seq(S) /\ e \in S => Elements(Append(old, e)) = Elements(old) \cup {e}
        BY AppendElements
      <4> QED BY <3>1, <3>2, <4>1
    <3>4. e \notin Elements(old) /\ e \notin InFile
      BY <1>0, <3>1, <3>2 DEF EachOnce
    <3>5. /\ Len(Append(old, e)) = Len(old) + 1 /\ Append(old, e)[Len(old) + 1] = e /\ Len(old) \in Nat
          /\ \A i \in 1 .. Len(old) : Append(old, e)[i] = old[i] /\ old[i] # e
      BY <3>1, <3>2, <3>4 DEF Elements
    <3>6. \A i, j \in 1 .. Len(Append(old, e)) : Append(old, e)[i] = Append(old, e)[j] => i = j
      BY <3>2, <3>5
    <3>7. buf'[p] = Append(old, e) /\ logged'[p] = logged[p] \cup {e} /\ InFile' = InFile
          /\ \A q \in Processes : q # p => buf'[q] = buf[q] /\ logged'[q] = logged[q] /\ registered'[q] = registered[q]
      BY <1>0, <2>2 DEF KeptInv, TypeOK, InFile
    <3>8. \A q \in Processes : registered'[q] = q => Elements(buf'[q]) \subseteq logged'[q] \ InFile'
      BY <3>2, <3>3, <3>4, <3>7 DEF EachOnce
    <3>9. \A q \in Processes : registered'[q] = q => \A i, j \in 1 .. Len(buf'[q]) : buf'[q][i] = buf'[q][j] => i = j
      <4>1. ASSUME NEW q \in Processes, q # p, registered'[q] = q
            PROVE  \A i, j \in 1 .. Len(buf'[q]) : buf'[q][i] = buf'[q][j] => i = j
        <5>1. buf'[q] = buf[q] /\ registered[q] = q
          BY <3>7, <4>1
        <5> QED BY <5>1 DEF EachOnce
      <4>2. \A i, j \in 1 .. Len(buf'[p]) : buf'[p][i] = buf'[p][j] => i = j
        BY <3>6, <3>7
      <4> QED BY <4>1, <4>2
    <3>10. EventsOnce'
           /\ \A d \in InFile' : d > 0 => d \in logged'["parent"] \cup logged'["child"]
      BY <2>2, <3>1, <3>7 DEF EachOnce, EventsOnce
    <3> QED BY <3>8, <3>9, <3>10 DEF EachOnce
  <2> QED BY <1>1, <2>1, <2>2 DEF AddTraceEvent
<1>2. CASE WriteHeader(t)
  <2>1. UNCHANGED <<buf, logged, registered>> /\ file' = IF file = <<>> THEN <<Open, Argv>> ELSE file
    BY <1>2 DEF WriteHeader, process
  <2>2. CASE file # <<>>
    BY <2>1, <2>2 DEF EachOnce, EventsOnce, InFile
  <2>3. CASE file = <<>>
    <3>1. file' = <<-1, -2>> /\ InFile' \subseteq {-1, -2}
      BY <2>1, <2>3 DEF InFile, Elements, Open, Argv
    <3> QED BY <1>0, <2>1, <3>1 DEF EachOnce, EventsOnce
  <2> QED BY <2>2, <2>3
<1>3. CASE WriteComma(t)
  <2>1. UNCHANGED <<buf, logged, registered>> /\ file' = Append(file, 0) /\ 0 \in Int
    BY <1>3 DEF WriteComma, process, Comma
  <2>2. InFile' = InFile \cup {0}
    BY <1>0, <2>1, AppendElements DEF InFile
  <2>3. EventsOnce'
    BY <1>0, <2>1 DEF EachOnce, EventsOnce
  <2> QED BY <1>0, <2>1, <2>2, <2>3 DEF EachOnce
<1>4. CASE WriteEvents(t)
  <2> DEFINE es == buf[p]
             js == Joined(es)
  <2>1. UNCHANGED <<logged, registered>> /\ buf' = [buf EXCEPT ![p] = <<>>] /\ file' = file \o js
        /\ registered[p] = p
    BY <1>4 DEF WriteEvents, Emptied
  <2>2. Once(js) /\ Elements(js) \subseteq Elements(es) \cup {0} /\ js \in Seq(Int)
    <3>1. js \in Seq(Nat)
      BY <1>0, JoinedSeq
    <3>2. js \in Seq(Int)
      BY <3>1, SeqMonotonic
    <3> QED BY <1>0, <2>1, <3>2, JoinedOnce DEF EachOnce
  <2>3. InFile' = InFile \cup Elements(js)
    BY <1>4, FlushWrites DEF KeptInv
  <2>4. Elements(es) \subseteq logged[p] \ InFile
    BY <1>0, <2>1 DEF EachOnce
  <2> HIDE DEF js, es
  <2>5. EventsOnce'
    <3>1. Once(file) /\ \A e \in Elements(file) \cap Elements(js) : e <= 0
      BY <2>2, <2>4 DEF EachOnce, EventsOnce, Once, InFile
    <3>2. Once(file \o js)
      BY <1>0, <2>2, <3>1, ConcatOnce
    <3> QED BY <2>1, <3>2 DEF EventsOnce, Once
  <2>6. Elements(<<>>) = {} /\ Len(<<>>) = 0
    BY EmptySeq DEF Elements
  <2>7. \A q \in Processes : q # p => logged[q] \cap logged[p] = {}
    BY <1>0
  <2> QED BY <1>0, <2>1, <2>2, <2>3, <2>4, <2>5, <2>6, <2>7 DEF KeptInv, TypeOK, EachOnce
<1>5. CASE Acquire(t) \/ TraceEnable(t) \/ StartFlush(t) \/ GetFlock(t) \/ Unlock(t)
  <2>1. UNCHANGED <<buf, file, logged, registered>>
    BY <1>5 DEF Acquire, TraceEnable, StartFlush, GetFlock, Unlock, process
  <2> QED BY <2>1 DEF EachOnce, EventsOnce, InFile
<1> QED BY <1>1, <1>2, <1>3, <1>4, <1>5 DEF Step

(* A forked child inherits the file with the lock of who is at its header, *)
(* and a buffer it is not registered for.                                  *)
LEMMA StartInv ==
  ASSUME Inv, Start
  PROVE  IInv'
<1> USE DEF Inv, IInv
<1>0. KeptInv' /\ KeptInv /\ Headed /\ Known
  BY StartKept
<1>1. /\ UNCHANGED <<op, flock, file, logged, crossed>> /\ pc["kid"] = "unborn"
      /\ pc' = [pc EXCEPT !["kid"] = "idle"]
      /\ logged' = logged /\ InFile' = InFile
  BY DEF Start, InFile
<1>2. \A t \in Actors : pc'[t] = pc[t] \/ (t = "kid" /\ pc[t] = "unborn" /\ pc'[t] = "idle")
  BY <1>0, <1>1 DEF KeptInv, TypeOK
<1>3. \A t \in Actors : Writes(t)' => Writes(t)
  BY <1>2 DEF Writes
<1>4. "mixed" \notin crossed' => OneWriter' /\ InTurns'
  <2>1. \A t \in Actors : pc'[t] = "events" <=> pc[t] = "events"
    BY <1>2
  <2> QED BY <1>1, <1>3, <2>1 DEF OneWriter, InTurns
<1>5. CASE UNCHANGED <<process, mutex, tls>>
  <2>1. UNCHANGED <<enabled, buf, desc, registered, mutex, tls>>
    BY <1>5 DEF process
  <2>2. Headed'
    BY <1>0, <1>1, <1>2, <2>1 DEF Headed, Flushing
  <2>3. Known' /\ ("copied" \notin crossed' => EachOnce')
    BY <1>0, <1>1, <2>1 DEF Known, EachOnce, EventsOnce
  <2>4. ~Forks => OwnFile'
    BY <1>1, <1>3, <2>1 DEF OwnFile
  <2> QED BY <1>0, <1>1, <1>4, <2>2, <2>3, <2>4
<1>6. CASE Forks /\ ~UNCHANGED <<process, mutex, tls>>
  <2>1. /\ enabled' = [enabled EXCEPT !["child"] = enabled["parent"]]
        /\ buf' = [buf EXCEPT !["child"] = buf["parent"]]
        /\ desc' = [desc EXCEPT !["child"] = desc["parent"]]
        /\ registered' = [registered EXCEPT !["child"] = registered["parent"]]
        /\ mutex' = [mutex EXCEPT !["child"] = mutex["parent"]]
        /\ tls' = [tls EXCEPT !["kid"] = tls["main"]]
    BY <1>6 DEF Start
  <2>2. /\ enabled'["parent"] = enabled["parent"] /\ enabled'["child"] = enabled["parent"]
        /\ desc'["parent"] = desc["parent"] /\ desc'["child"] = desc["parent"]
        /\ mutex'["parent"] = mutex["parent"] /\ mutex'["child"] = mutex["parent"]
        /\ registered'["parent"] = registered["parent"] /\ registered'["child"] = registered["parent"]
        /\ buf'["parent"] = buf["parent"]
    BY <1>0, <2>1 DEF KeptInv, TypeOK
  <2>3. Headed'
    <3>1. \A p \in Processes :
            /\ enabled'[p] => desc'[p] # 0
            /\ desc'[p] # 0 /\ file' = <<>> => \E t \in Actors : mutex'[p] = t /\ pc'[t] = "header"
      <4>1. enabled["parent"] => desc["parent"] # 0
        BY <1>0 DEF Headed
      <4>2. desc["parent"] # 0 /\ file = <<>> => \E t \in Actors : mutex["parent"] = t /\ pc'[t] = "header"
        BY <1>0, <1>2 DEF Headed
      <4> QED BY <1>1, <2>2, <4>1, <4>2
    <3>2. ASSUME NEW t \in Actors, t # "kid"
          PROVE  /\ pc'[t] = "header" \/ Flushing(t)' => desc'[Proc(t)] # 0
                 /\ Flushing(t)' /\ op'[t] = "disable" => ~enabled'[Proc(t)]
                 /\ pc'[t] \in {"comma", "events"} => buf'[Proc(t)] # <<>>
      <4>1. Proc(t) = "parent" /\ pc'[t] = pc[t] /\ op'[t] = op[t]
        BY <1>1, <1>2, <3>2
      <4> QED BY <1>0, <2>2, <4>1 DEF Headed, Flushing
    <3>3. pc'["kid"] = "idle"
      BY <1>0, <1>1 DEF KeptInv, TypeOK
    <3>4. \A t \in Actors :
            /\ pc'[t] = "header" \/ Flushing(t)' => desc'[Proc(t)] # 0
            /\ Flushing(t)' /\ op'[t] = "disable" => ~enabled'[Proc(t)]
            /\ pc'[t] \in {"comma", "events"} => buf'[Proc(t)] # <<>>
      BY <3>2, <3>3 DEF Flushing
    <3> QED BY <3>1, <3>4 DEF Headed
  <2>4. Known'
    <3>1. "main" \in Actors /\ "main" # "kid"
      BY DEF ThreadsDiffer
    <3>2. tls["main"] # "child"
      BY <1>0, <3>1 DEF Known
    <3>4. \A t \in Actors : t # "kid" => tls'[t] = tls[t]
      BY <2>1
    <3>5. tls'["kid"] = tls["main"] /\ tls' \in [Actors -> Processes \cup {"none"}]
      BY <1>0, <2>1, <3>1 DEF Known
    <3>6. registered'["parent"] # "child" /\ \A t \in Actors : t # "kid" =>
            (tls'[t] = "parent" => registered'["parent"] = "parent") /\ tls'[t] # "child"
      BY <1>0, <2>2, <3>4 DEF Known
    <3>7. tls'["kid"] # "child"
      BY <3>2, <3>5
    <3> QED BY <3>5, <3>6, <3>7 DEF Known
  <2>5. "copied" \notin crossed' => EachOnce'
    BY <1>0, <1>1, <2>2 DEF EachOnce, EventsOnce, Known
  <2> QED BY <1>0, <1>1, <1>4, <1>6, <2>3, <2>4, <2>5
<1> QED BY <1>5, <1>6 DEF Start

LEMMA NextInv == ASSUME Inv, [Next]_vars PROVE IInv'
<1> USE DEF Inv
<1>0. KeptInv'
  BY NextKept DEF IInv
<1>1. ASSUME NEW t \in Actors, Step(t) PROVE IInv'
  <2>1. "mixed" \notin crossed' => OneWriter' /\ InTurns'
    BY <1>1, OneWriterStep, InTurnsStep
  <2> QED BY <1>0, <1>1, <2>1, HeadedStep, KnownStep, ApartStep, EachOnceStep, OwnFileStep DEF IInv
<1>2. ASSUME UNCHANGED <<process, mutex, tls, flock, file, logged, crossed>>, UNCHANGED <<pc, op>> \/
             \E t \in Actors : /\ pc[t] = "idle" /\ pc'[t] = "wait"
                              /\ \A u \in Actors : u # t => pc'[u] = pc[u] /\ op'[u] = op[u]
      PROVE  IInv'
  <2>1. UNCHANGED <<enabled, buf, desc, registered>> /\ InFile' = InFile
    BY <1>2 DEF process, InFile
  <2>2. \A u \in Actors : pc'[u] # pc[u] => pc[u] = "idle" /\ pc'[u] = "wait"
    BY <1>2
  <2>3. \A u \in Actors : pc'[u] \notin {"idle", "wait"} => op'[u] = op[u]
    BY <1>2
  <2>4. Headed'
    BY <1>2, <2>1, <2>2, <2>3 DEF IInv, Headed, Flushing
  <2>5. Known' /\ ("copied" \notin crossed' => EachOnce')
    BY <1>2, <2>1 DEF IInv, Known, EachOnce, EventsOnce
  <2>6. \A u \in Actors : (Writes(u)' <=> Writes(u)) /\ (pc'[u] = "events" <=> pc[u] = "events")
    BY <2>2 DEF Writes
  <2>7. "mixed" \notin crossed' => OneWriter' /\ InTurns'
    BY <1>2, <2>6 DEF IInv, OneWriter, InTurns
  <2>8. ~Forks => OwnFile'
    BY <1>2, <2>1, <2>6 DEF IInv, OwnFile
  <2> QED BY <1>0, <1>2, <2>4, <2>5, <2>7, <2>8 DEF IInv
<1>3. ASSUME NEW t \in Actors, NEW o, Call(t, o) PROVE IInv'
  <2>1. UNCHANGED <<process, mutex, tls, flock, file, logged, crossed>> /\ pc[t] = "idle"
        /\ pc' = [pc EXCEPT ![t] = "wait"] /\ op' = [op EXCEPT ![t] = o]
    BY <1>3 DEF Call
  <2>2. pc'[t] = "wait" /\ \A u \in Actors : u # t => pc'[u] = pc[u] /\ op'[u] = op[u]
    BY <2>1 DEF IInv, KeptInv, TypeOK
  <2> QED BY <1>2, <2>1, <2>2
<1>4. CASE UNCHANGED vars
  BY <1>2, <1>4 DEF vars
<1>5. CASE Start
  BY <1>5, StartInv
<1>6. "kid" \in Actors
  OBVIOUS
<1> QED BY <1>1, <1>3, <1>4, <1>5, <1>6 DEF Next

-----------------------------------------------------------------------------
(* The invariant of the log, inductive for any number of threads.          *)
THEOREM Invariance == Spec => []IInv
<1>a. ThreadsDiffer
  BY TraceLogAssumption
<1>1. Init => IInv
  BY <1>a, InitInv
<1>2. IInv /\ [Next]_vars => IInv'
  BY <1>a, NextInv DEF Inv
<1> QED BY <1>1, <1>2, PTL DEF Spec

(* Also with a forked child that shares the file, the file is a list       *)
(* whenever nobody writes, as long as parent and child have not written at *)
(* once, has each event once, as long as the child has not flushed what it *)
(* has inherited, and has all events of whoever has stopped. Without a     *)
(* fork neither happens.                                                   *)
THEOREM WholeLog == Spec => [](WholeUntilCrossed /\ (~Forks => LogIsWhole))
<1>1. IInv => WholeUntilCrossed /\ (~Forks => LogIsWhole)
  <2> SUFFICES ASSUME IInv PROVE WholeUntilCrossed /\ (~Forks => LogIsWhole)
    OBVIOUS
  <2>1. KeptInv
    BY DEF IInv
  <2>2. "mixed" \notin crossed => FileParses
    <3> SUFFICES ASSUME Quiet, InTurns PROVE FileParses
      BY DEF FileParses, IInv
    <3>1. Len(file) % 2 = 0 /\ Len(file) \in Nat
      BY <2>1 DEF Quiet, Flushing, InTurns, KeptInv, TypeOK
    <3>2. \A i \in 1 .. Len(file) : i % 2 = 1 => i < Len(file)
      BY <3>1
    <3> QED BY <3>2 DEF FileParses, InTurns
  <2>3. "copied" \notin crossed => EventsOnce
    BY DEF IInv, EachOnce
  <2>4. ~Forks => crossed = {}
    BY DEF IInv, OwnFile
  <2> QED BY <2>1, <2>2, <2>3, <2>4 DEF WholeUntilCrossed, LogIsWhole, KeptInv
<1> QED BY <1>1, Invariance, PTL
=============================================================================
