----------------------------- MODULE HostProofs -----------------------------
(***************************************************************************)
(* Proofs about the components that MCHost composes, for all values of     *)
(* their constants: for each the inductive invariant, one lemma for every  *)
(* operation, and at the end what the runs check of them.                  *)
(***************************************************************************)
EXTENDS MCHost, Sequences, FiniteSetTheorems, WellFoundedInduction, TLAPS

-----------------------------------------------------------------------------
(* A call with a timeout: what Run promises, for any number of retries and *)
(* of threads of the function, and any timeouts. Its types, its deadline,  *)
(* that tries overlap only when the watchdog ended the first, and the      *)
(* refinement.                                                             *)

USE DEF Tries, Ended

(* Before the first step nothing runs but the first try.                   *)
LEMMA InitInv == ASSUME TimesAreNatural PROVE Init => IInv
<1> SUFFICES ASSUME Init PROVE IInv
  OBVIOUS
<1>1. TypeOK
  BY DEF TimesAreNatural, Init, TypeOK, ThreadStates, ChildStates
<1>2. InTime
  BY DEF TimesAreNatural, Init, InTime
<1>3. LaterTriesAreNew
  BY DEF TimesAreNatural, Init, LaterTriesAreNew
<1>4. ChildrenAreBlocked /\ SleepersEndInTime /\ GroupsEndTogether
  BY DEF TimesAreNatural, Init, ChildrenAreBlocked, SleepersEndInTime, GroupsEndTogether
<1>5. LeftAreEnded /\ ResultIsOfTry
  BY DEF TimesAreNatural, Init, LeftAreEnded, ResultIsOfTry
<1> QED BY <1>1, <1>2, <1>3, <1>4, <1>5 DEF IInv

-----------------------------------------------------------------------------
(* Leaving a try, for another one or for good. A try that is left for      *)
(* another reason than the watchdog must have ended.                       *)
LEMMA LeaveInv ==
  ASSUME TimesAreNatural, IInv, caller # "done", now' = now,
         NEW why \in {"watchdog", "timeout", "error"}, Leave(why),
         why # "watchdog" => func[try] \in Ended
  PROVE  IInv'
<1> USE DEF TimesAreNatural
<1>a. TypeOK
  BY DEF IInv
<1>1. CASE try > Retries
  <2>1. /\ left' = [left EXCEPT ![try] = why]
        /\ result' \in {"error", "timeout"} /\ caller' = "done"
        /\ UNCHANGED <<try, timing, threads>>
    BY <1>1 DEF Leave
  <2>2. TypeOK'
    BY <1>a, <2>1 DEF TypeOK, timing, threads
  <2>3. InTime'
    BY <2>1 DEF InTime
  <2>4. LaterTriesAreNew' /\ ChildrenAreBlocked' /\ SleepersEndInTime' /\ GroupsEndTogether'
    BY <1>a, <2>1 DEF TypeOK, IInv, timing, threads, LaterTriesAreNew, ChildrenAreBlocked,
                SleepersEndInTime, GroupsEndTogether
  <2>5. LeftAreEnded'
    BY <1>a, <2>1 DEF TypeOK, IInv, threads, LeftAreEnded
  <2>6. ResultIsOfTry'
    BY <2>1 DEF ResultIsOfTry
  <2> QED BY <2>2, <2>3, <2>4, <2>5, <2>6 DEF IInv
<1>2. CASE ~(try > Retries)
  <2>1. /\ try + 1 \in Tries /\ try' = try + 1
        /\ left' = [left EXCEPT ![try] = why]
        /\ func' = [func EXCEPT ![try + 1] = "starts"]
        /\ started' = [started EXCEPT ![try + 1] = now]
        /\ endTime' = now + JoinLimit /\ caller' = "check"
        /\ UNCHANGED <<result, joined, blocked, child, wake>>
    BY <1>2, <1>a DEF Leave, TypeOK
  <2>2. func[try + 1] = "none" /\ left[try + 1] = "no"
    BY <1>a, <2>1 DEF TypeOK, IInv, LaterTriesAreNew
  <2>3. TypeOK'
    BY <1>a, <2>1 DEF TypeOK, ThreadStates
  <2>4. InTime'
    <3>1. started'[try'] = now /\ try \in Nat /\ now \in Nat /\ started[try] \in Nat
      BY <1>a, <2>1 DEF TypeOK
    <3>2. now <= try * (Timeout + 1)
      <4>1. /\ started[try] + Timeout + 1 <= try * (Timeout + 1)
            /\ now <= started[try] + Timeout + 1
        BY DEF IInv, InTime
      <4> DEFINE share == try * (Timeout + 1)
      <4>2. share \in Nat
        BY <3>1
      <4> HIDE DEF share
      <4> QED BY <3>1, <4>1, <4>2 DEF share
    <3>3. (try + 1) * (Timeout + 1) = try * (Timeout + 1) + Timeout + 1
      BY <3>1
    <3> QED BY <2>1, <3>1, <3>2, <3>3 DEF InTime
  <2>5. LaterTriesAreNew'
    BY <1>a, <2>1 DEF TypeOK, IInv, LaterTriesAreNew
  <2>6. ChildrenAreBlocked' /\ GroupsEndTogether'
    <3>1. \A a \in Tries : func'[a] = IF a = try + 1 THEN "starts" ELSE func[a]
      BY <1>a, <2>1 DEF TypeOK
    <3>2. ChildrenAreBlocked'
      BY <2>1, <2>2, <3>1 DEF IInv, ChildrenAreBlocked
    <3>3. GroupsEndTogether'
      BY <2>1, <3>1 DEF IInv, GroupsEndTogether
    <3> QED BY <3>2, <3>3
  <2>7. SleepersEndInTime'
    <3>1. \A c \in Children : child[try + 1][c] # "sleeps"
      BY <2>1, <2>2 DEF IInv, ChildrenAreBlocked
    <3>2. \A a \in Tries : a # try + 1 => started'[a] = started[a]
      BY <1>a, <2>1 DEF TypeOK
    <3> QED BY <2>1, <3>1, <3>2 DEF IInv, SleepersEndInTime
  <2>8. LeftAreEnded' /\ ResultIsOfTry'
    BY <1>a, <2>1, <2>2 DEF TypeOK, IInv, LeftAreEnded, ResultIsOfTry
  <2> QED BY <2>3, <2>4, <2>5, <2>6, <2>7, <2>8 DEF IInv
<1> QED BY <1>1, <1>2

LEMMA CallerInv == ASSUME TimesAreNatural, IInv, Caller PROVE IInv'
<1> USE DEF TimesAreNatural
<1>a. TypeOK
  BY DEF IInv
<1>1. CASE CheckWatchdog /\ IsTimedOut(try)
  BY <1>1, LeaveInv DEF CheckWatchdog
<1>2. CASE CheckWatchdog /\ ~IsTimedOut(try)
  <2>1. /\ caller = "check" /\ caller' = "join" /\ joined' = now
        /\ now <= started[try] + Timeout
        /\ UNCHANGED <<now, endTime, started, try, result, left, threads>>
    BY <1>2, <1>a DEF CheckWatchdog, IsTimedOut, Stay, TypeOK
  <2>2. TypeOK' /\ InTime'
    BY <1>a, <2>1 DEF TypeOK, IInv, InTime, threads
  <2> QED BY <2>1, <2>2 DEF IInv, threads, LaterTriesAreNew, ChildrenAreBlocked,
               SleepersEndInTime, GroupsEndTogether, LeftAreEnded, ResultIsOfTry
<1>3. CASE JoinEnds
  <2>1. TypeOK' /\ InTime'
    BY <1>a, <1>3 DEF JoinEnds, Stay, timing, threads, TypeOK, IInv, InTime
  <2> QED BY <1>3, <2>1 DEF JoinEnds, Stay, timing, threads, IInv, LaterTriesAreNew,
               ChildrenAreBlocked, SleepersEndInTime, GroupsEndTogether, LeftAreEnded, ResultIsOfTry
<1>4. CASE AfterJoin /\ func[try] \notin Ended
  <2>1. TypeOK' /\ InTime'
    BY <1>a, <1>4 DEF AfterJoin, StillWorking, Stay, threads, TypeOK, IInv, InTime
  <2> QED BY <1>4, <2>1 DEF AfterJoin, StillWorking, Stay, threads, IInv, LaterTriesAreNew,
               ChildrenAreBlocked, SleepersEndInTime, GroupsEndTogether, LeftAreEnded, ResultIsOfTry
<1>5. CASE AfterJoin /\ func[try] = "returned"
  <2>1. /\ caller = "joined" /\ caller' = "done" /\ result' = "value"
        /\ left' = [left EXCEPT ![try] = "value"]
        /\ UNCHANGED <<now, try, timing, threads>>
    BY <1>5 DEF AfterJoin, GetReturnValue
  <2>2. TypeOK'
    BY <1>a, <2>1 DEF TypeOK, timing, threads
  <2>3. InTime'
    BY <2>1 DEF InTime
  <2>4. LeftAreEnded' /\ ResultIsOfTry'
    BY <1>a, <1>5, <2>1 DEF TypeOK, IInv, timing, threads, LeftAreEnded, ResultIsOfTry
  <2> QED BY <1>a, <2>1, <2>2, <2>3, <2>4 DEF TypeOK, IInv, timing, threads, LaterTriesAreNew,
               ChildrenAreBlocked, SleepersEndInTime, GroupsEndTogether
<1>6. CASE AfterJoin /\ func[try] \in {"late", "raised"}
  BY <1>6, LeaveInv DEF AfterJoin, GetReturnValue
<1> QED BY <1>1, <1>2, <1>3, <1>4, <1>5, <1>6 DEF Caller, AfterJoin

-----------------------------------------------------------------------------
(* The threads. No step of theirs reaches what the caller keeps.           *)
LEMMA WorksInv ==
  ASSUME IInv, Works, TypeOK',
         \A a \in Tries : func'[a] = "none" <=> func[a] = "none",
         \A a \in Tries : func[a] \in Ended => func'[a] = func[a],
         ChildrenAreBlocked', GroupsEndTogether',
         \A a \in Tries, c \in Children : child'[a][c] = "sleeps" =>
           wake'[a][c] <= started[a] + Timeout
  PROVE  IInv'
<1>1. InTime'
  BY DEF Works, timing, IInv, InTime
<1>2. LaterTriesAreNew'
  BY DEF Works, IInv, LaterTriesAreNew
<1>3. SleepersEndInTime'
  BY DEF Works, timing, SleepersEndInTime
<1>4. LeftAreEnded' /\ ResultIsOfTry'
  BY DEF Works, IInv, TypeOK, LeftAreEnded, ResultIsOfTry
<1> QED BY <1>1, <1>2, <1>3, <1>4 DEF IInv

LEMMA StartAllInv == ASSUME TimesAreNatural, IInv, NEW a \in Tries, StartAll(a) PROVE IInv'
<1>1. TypeOK'
  BY DEF StartAll, Works, timing, IInv, TypeOK, ThreadStates, ChildStates
<1>2. ChildrenAreBlocked' /\ GroupsEndTogether'
  BY DEF StartAll, Works, timing, IInv, TypeOK, ChildrenAreBlocked, GroupsEndTogether
<1> QED BY <1>1, <1>2, WorksInv DEF StartAll, IInv, TypeOK, SleepersEndInTime

(* A group ends with all its children, by a value only if all have one.    *)
LEMMA JoinChildrenInv ==
  ASSUME TimesAreNatural, IInv, NEW a \in Tries, JoinChildren(a) PROVE IInv'
<1>1. PICK state \in Ended : /\ func' = [func EXCEPT ![a] = state]
                             /\ state = "returned" => \A c \in Children : child[a][c] = "returned"
  BY DEF JoinChildren, AllEnded
<1>2. TypeOK'
  BY <1>1 DEF JoinChildren, Works, timing, IInv, TypeOK, ThreadStates
<1>3. ChildrenAreBlocked'
  BY <1>1 DEF JoinChildren, AllEnded, IInv, TypeOK, ChildrenAreBlocked
<1>4. GroupsEndTogether'
  BY <1>1 DEF JoinChildren, AllEnded, IInv, TypeOK, GroupsEndTogether
<1> QED BY <1>1, <1>2, <1>3, <1>4, WorksInv DEF JoinChildren, IInv, TypeOK, SleepersEndInTime

(* A child that is at its condition, or asleep, moves on.                  *)
LEMMA BecomesInv ==
  ASSUME TimesAreNatural, IInv, NEW a \in Tries, NEW c \in Children,
         child[a][c] \in {"condition", "sleeps"}, NEW state \in ChildStates \ {"none"},
         Becomes(a, c, state), wake' \in [Tries -> [Children -> Nat]],
         \A b \in Tries, d \in Children : <<b, d>> # <<a, c>> => wake'[b][d] = wake[b][d],
         state = "sleeps" => wake'[a][c] <= started[a] + Timeout
  PROVE  IInv'
<1>1. /\ UNCHANGED <<func, blocked>> /\ Works
      /\ child' = [child EXCEPT ![a] = [child[a] EXCEPT ![c] = state]]
  BY DEF Becomes
<1>2. TypeOK'
  BY <1>1 DEF Works, timing, IInv, TypeOK
<1>3. ChildrenAreBlocked' /\ GroupsEndTogether'
  BY <1>1 DEF IInv, TypeOK, ChildrenAreBlocked, GroupsEndTogether, ChildStates
<1>4. \A b \in Tries, d \in Children : child'[b][d] = "sleeps" =>
        wake'[b][d] <= started[b] + Timeout
  BY <1>1 DEF IInv, TypeOK, SleepersEndInTime
<1> QED BY <1>1, <1>2, <1>3, <1>4, WorksInv

LEMMA ChildInv ==
  ASSUME TimesAreNatural, IInv, NEW a \in Tries, NEW c \in Children,
         ConditionEnds(a, c) \/ ConditionNotMet(a, c) \/ SleepEnds(a, c)
  PROVE  IInv'
<1> USE DEF TimesAreNatural, ChildStates
<1>a. TypeOK
  BY DEF IInv
<1>1. CASE ConditionEnds(a, c)
  <2>1. PICK state \in {"returned", "raised"} : Becomes(a, c, state)
    BY <1>1 DEF ConditionEnds
  <2> QED BY <1>a, <1>1, <2>1, BecomesInv DEF ConditionEnds, TypeOK
<1>2. CASE SleepEnds(a, c)
  BY <1>a, <1>2, BecomesInv DEF SleepEnds, TypeOK
<1>3. CASE ConditionNotMet(a, c) /\ GetRemaining(a) < Period
  <2>1. blocked[a]
    BY <1>3 DEF ConditionNotMet, IInv, ChildrenAreBlocked
  <2> QED BY <1>a, <1>3, <2>1, BecomesInv DEF ConditionNotMet, TypeOK
<1>4. CASE ConditionNotMet(a, c) /\ ~(GetRemaining(a) < Period)
  <2>1. /\ child[a][c] = "condition" /\ Becomes(a, c, "sleeps")
        /\ wake' = [wake EXCEPT ![a] = [wake[a] EXCEPT ![c] = now + Period]]
    BY <1>4 DEF ConditionNotMet
  <2>2. now + Period <= started[a] + Timeout /\ now + Period \in Nat
    <3>1. now \in Nat /\ started[a] \in Nat
      BY <1>a DEF TypeOK
    <3> QED BY <1>4, <3>1 DEF GetRemaining
  <2>3. /\ wake' \in [Tries -> [Children -> Nat]] /\ wake'[a][c] = now + Period
        /\ \A b \in Tries, d \in Children : <<b, d>> # <<a, c>> => wake'[b][d] = wake[b][d]
    BY <1>a, <2>1, <2>2 DEF TypeOK
  <2> QED BY <2>1, <2>2, <2>3, BecomesInv
<1> QED BY <1>1, <1>2, <1>3, <1>4

(* The clock goes on once in a join of the caller, which began in time.    *)
LEMMA TickInv == ASSUME TimesAreNatural, IInv, Tick PROVE IInv'
<1>1. TypeOK'
  BY DEF TimesAreNatural, Tick, timing, threads, IInv, TypeOK
<1>2. InTime'
  BY DEF TimesAreNatural, Tick, timing, threads, IInv, TypeOK, InTime
<1> QED BY <1>1, <1>2 DEF Tick, timing, threads, IInv, LaterTriesAreNew, ChildrenAreBlocked,
             SleepersEndInTime, GroupsEndTogether, LeftAreEnded, ResultIsOfTry

LEMMA NextInv == ASSUME TimesAreNatural, IInv, [Next]_vars PROVE IInv'
<1>1. CASE Caller
  BY <1>1, CallerInv
<1>2. CASE Threads
  BY <1>2, StartAllInv, JoinChildrenInv, ChildInv DEF Threads
<1>3. CASE Tick
  BY <1>3, TickInv
<1>4. CASE UNCHANGED vars
  BY <1>4 DEF vars, timing, threads, IInv, TypeOK, InTime, LaterTriesAreNew, ChildrenAreBlocked,
        SleepersEndInTime, GroupsEndTogether, LeftAreEnded, ResultIsOfTry
<1> QED BY <1>1, <1>2, <1>3, <1>4 DEF Next

-----------------------------------------------------------------------------
(* The invariant, inductive for any number of retries and of children.     *)
THEOREM Invariance == Spec => []IInv
<1>a. TimesAreNatural
  BY TimeoutRetryAssumption
<1>1. Init => IInv
  BY <1>a, InitInv
<1>2. IInv /\ [Next]_vars => IInv'
  BY <1>a, NextInv
<1> QED BY <1>1, <1>2, PTL DEF Spec
(* Two tries run beside one another only if the watchdog ended the first;  *)
(* WaitFor never sleeps past the end of its try; every try costs the       *)
(* caller at most one poll more than its timeout; and a value is returned  *)
(* only if every thread of the last try returned one.                      *)
THEOREM KeepsItsTries == Spec => []TriesAreKept
<1>a. TimesAreNatural
  BY TimeoutRetryAssumption
<1>1. ASSUME IInv PROVE TriesAreKept
  <2>1. OnlyLateTriesOverlap
    BY <1>1 DEF IInv, LeftAreEnded, GroupsEndTogether, OnlyLateTriesOverlap
  <2>2. DeadlineKept
    BY <1>a, <1>1 DEF TimesAreNatural, IInv, TypeOK, InTime, DeadlineKept
  <2>3. ValueIsWhole
    BY <1>1 DEF IInv, TypeOK, ResultIsOfTry, GroupsEndTogether, ValueIsWhole
  <2> QED BY <1>1, <2>1, <2>2, <2>3 DEF IInv, TriesAreKept
<1>2. IInv => TriesAreKept
  BY <1>1
<1> QED BY <1>2, Invariance, PTL

-----------------------------------------------------------------------------
(* A try that is left is one step of the abstract call: another try, or    *)
(* its result; whatever the threads and the clock do is none.              *)
LEMMA StepIsAbstract ==
  ASSUME TimesAreNatural, IInv, [Next]_vars PROVE [Call!Next]_(Call!vars)
<1> USE DEF TimesAreNatural, Call!vars, Call!Next, Call!TryAgain, Call!Finish, Call!Results
<1>a. try \in Nat /\ (caller # "done" => result = "none")
  BY DEF IInv, TypeOK, ResultIsOfTry
<1>1. ASSUME caller # "done", NEW why \in {"watchdog", "timeout", "error"}, Leave(why)
      PROVE  Call!Next
  BY <1>a, <1>1 DEF Leave
<1>2. CASE CheckWatchdog
  BY <1>1, <1>2 DEF CheckWatchdog, Stay
<1>3. CASE JoinEnds
  BY <1>3 DEF JoinEnds, Stay
<1>4. CASE AfterJoin /\ func[try] = "returned"
  BY <1>a, <1>4 DEF AfterJoin, GetReturnValue
<1>5. CASE AfterJoin /\ func[try] \in {"late", "raised"}
  BY <1>1, <1>5 DEF AfterJoin, GetReturnValue
<1>6. CASE AfterJoin /\ func[try] \notin Ended
  BY <1>6 DEF AfterJoin, StillWorking, Stay
<1>7. CASE Threads
  BY <1>7 DEF Threads, StartAll, JoinChildren, ConditionEnds, ConditionNotMet, SleepEnds,
        Becomes, Works
<1>8. CASE Tick
  BY <1>8 DEF Tick
<1>9. CASE UNCHANGED vars
  BY <1>9 DEF vars
<1> QED BY <1>2, <1>3, <1>4, <1>5, <1>6, <1>7, <1>8, <1>9 DEF Next, Caller, AfterJoin

(* The threads, the watchdog and the polls implement the abstract call.    *)
THEOREM ImplementsCall == Spec => ImplementsBoundedCall
<1>a. TimesAreNatural
  BY TimeoutRetryAssumption
<1>1. Init => Call!Init
  BY DEF Init, Call!Init
<1>2. IInv /\ [Next]_vars => [Call!Next]_(Call!vars)
  BY <1>a, StepIsAbstract
<1> QED BY <1>1, <1>2, Invariance, PTL DEF Spec, ImplementsBoundedCall, Call!Spec
-----------------------------------------------------------------------------
(* The update of a config.                                                 *)

LEMMA ConfigNamed ==
  ASSUME Config!NamesDiffer PROVE
  /\ \A h \in Hashes : h \in Config!Objects /\ Config!Backup(h) \in Config!Objects /\ Config!Backup(h) \notin Hashes /\ h \in Config!Contents /\ h # Absent
  /\ \A g, h \in Hashes : Config!Backup(g) = Config!Backup(h) => g = h
  /\ Absent \in Config!Contents /\ Config!NoName \in Config!Objects
BY DEF Config!NamesDiffer, Config!Objects, Config!Contents, Config!Backup

LEMMA ConfigInitInv == ASSUME Config!NamesDiffer PROVE Config!Init => Config!IInv
<1> SUFFICES ASSUME Config!Init PROVE Config!IInv
  OBVIOUS
<1>1. bucket \in [Config!Objects -> Config!Contents] /\ bucket[Initial] = Initial
  <2>1. PICK there \in [Hashes -> Config!Contents \ (Hashes \ {Initial})] :
      bucket = [o \in Config!Objects |-> IF o = Initial THEN Initial ELSE
                                    IF o \in Hashes THEN there[o] ELSE Absent]
    BY DEF Config!Init
  <2> QED BY <2>1, ConfigNamed DEF Config!NamesDiffer
<1>2. /\ disk = [p \in Pairs |-> Initial] /\ memory = disk /\ pending = <<>> /\ pc = "idle"
      /\ force = FALSE /\ at = 1 /\ before = bucket /\ unnoted = {} /\ written = FALSE
  BY DEF Config!Init
<1>3. Config!TypeOK
  <2>1. disk \in Config!Configs /\ disk # Broken
    BY <1>2 DEF Config!NamesDiffer, Config!Configs
  <2>2. /\ pending \in Seq([pair : Pairs \ Bucketless, hash : Hashes, backup : Config!Objects,
                           backedUp : BOOLEAN, updated : BOOLEAN])
        /\ Len(pending) = 0 /\ 1 \in 0 .. (MaxJobs + 1)
    BY <1>2 DEF Config!NamesDiffer
  <2>3. force \in BOOLEAN /\ pc = "idle"
    BY <1>2
  <2>4. at \in 0 .. (MaxJobs + 1)
    BY <1>2, <2>2 
  <2>5. Len(pending) <= MaxJobs
    BY <2>2 DEF Config!NamesDiffer
  <2>6. unnoted \in SUBSET Hashes /\ written \in BOOLEAN
    BY <1>2
  <2>7. pending \in Seq(Config!Jobs) /\ memory \in Config!Configs /\ before \in [Config!Objects -> Config!Contents]
    BY <1>1, <1>2, <2>1, <2>2 DEF Config!Jobs
  <2> QED BY <1>1, <2>1, <2>3, <2>4, <2>5, <2>6, <2>7 DEF Config!TypeOK
<1> QED BY <1>1, <1>2, <1>3 DEF Config!IInv, Config!ConfigIsDownloadable,
              Config!FailureRestores, Config!InitialStays, Config!DistinctFiles,
     Config!MemoryIsPending, Config!PendingIsFresh, Config!UploadedSoFar, Config!CanBeUndone,
     Config!InUpdate

(* An update begins with jobs that have done nothing.                      *)
LEMMA ConfigBeginInv ==
  ASSUME Config!NamesDiffer, Config!IInv, NEW forced \in BOOLEAN, Config!Begin(forced),
         pc = "idle", disk # Broken,
         UNCHANGED <<disk, bucket, written>>, memory' \in Config!Configs, pending' \in Seq(Config!Jobs), Len(pending') <= MaxJobs,
         Config!DistinctFiles', Config!MemoryIsPending', \A i \in DOMAIN pending' : Config!Fresh(pending'[i])
  PROVE  Config!IInv'
<1>1. pc' = "uploads" /\ at' = 1 /\ force' \in BOOLEAN /\ before' = bucket /\ unnoted' = {}
  BY DEF Config!Begin
<1>2. 1 \in 0 .. (MaxJobs + 1)
  BY DEF Config!NamesDiffer
<1>3. Config!TypeOK'
  BY <1>1, <1>2 DEF Config!IInv, Config!TypeOK, Config!Jobs
<1>4. Config!ConfigIsDownloadable' /\ Config!FailureRestores' /\ Config!InitialStays'
  BY <1>1 DEF Config!IInv, Config!ConfigIsDownloadable, Config!Named, Config!FailureRestores,
        Config!InitialStays
<1>5. Config!UploadedSoFar'
  BY <1>1, <1>3 DEF Config!TypeOK, Config!UploadedSoFar
<1>6. Config!CanBeUndone'
  BY <1>1 DEF Config!CanBeUndone, Config!Fresh, Config!Intact, Config!Uploaded, Config!IInv,
        Config!TypeOK, Config!ConfigIsDownloadable, Config!Named
<1> QED BY <1>3, <1>4, <1>5, <1>6 DEF Config!IInv, Config!PendingIsFresh

LEMMA ConfigAddJobInv ==
  ASSUME Config!NamesDiffer, Config!Careful, Config!IInv, NEW pair \in Pairs,
         NEW hash \in Hashes, NEW execute \in BOOLEAN,
         Config!AddJob(pair, hash, execute)
  PROVE  Config!IInv'
<1>1. /\ pc = "idle" /\ Len(pending) < MaxJobs /\ UNCHANGED <<disk, bucket, written>>
      /\ disk # Broken
      /\ \A i \in DOMAIN pending : pending[i].hash # hash
      /\ memory' = [memory EXCEPT ![pair] = hash]
  BY DEF Config!AddJob, Config!Careful
<1>2. /\ memory \in Config!Configs /\ memory' \in Config!Configs
      /\ \A p \in Pairs : memory'[p] = IF p = pair THEN hash ELSE memory[p]
  BY <1>1 DEF Config!IInv, Config!TypeOK, Config!Configs
<1>3. CASE pair \in Bucketless
  <2>1. UNCHANGED <<disk, pending, pc, force, at, bucket, before, unnoted, written>>
    BY <1>1, <1>3 DEF Config!AddJob, Config!Refuses
  <2>2. Config!TypeOK'
    BY <1>2, <2>1 DEF Config!IInv, Config!TypeOK
  <2>3. Config!MemoryIsPending'
    BY <1>2, <1>3, <2>1 DEF Config!IInv, Config!MemoryIsPending
  <2> QED BY <2>1, <2>2, <2>3 DEF Config!IInv, Config!ConfigIsDownloadable,
                Config!FailureRestores, Config!DistinctFiles,
       Config!PendingIsFresh, Config!AwaitsUpload, Config!Fresh, Config!UploadedSoFar,
       Config!CanBeUndone, Config!InUpdate, Config!Intact, Config!Uploaded, Config!Undone,
       Config!Remains, Config!Named, Config!InitialStays
<1>4. CASE pair \notin Bucketless
  <2> DEFINE new == Config!Job(pair, hash)
  <2>1. new \in Config!Jobs /\ new.hash = hash /\ Config!Fresh(new)
    BY <1>4, ConfigNamed DEF Config!Job, Config!Jobs, Config!Fresh
  <2>2. pending' = Append(pending, new)
    BY <1>4 DEF Config!AddJob, Config!Refuses
  <2> HIDE DEF new
  <2>3. pending \in Seq(Config!Jobs)
    BY DEF Config!IInv, Config!TypeOK, Config!Jobs
  <2>4. /\ pending' \in Seq(Config!Jobs) /\ Len(pending') = Len(pending) + 1
        /\ \A i \in DOMAIN pending : i \in DOMAIN pending' /\ pending'[i] = pending[i]
        /\ \A i \in DOMAIN pending' : i \in DOMAIN pending \/ i = Len(pending) + 1
        /\ Len(pending) + 1 \in DOMAIN pending' /\ pending'[Len(pending) + 1] = new
    BY <2>1, <2>2, <2>3
  <2>5. Len(pending') <= MaxJobs
    BY <1>1, <2>3, <2>4 DEF Config!NamesDiffer
  <2>6. Config!DistinctFiles'
    BY <1>1, <2>1, <2>4 DEF Config!IInv, Config!DistinctFiles
  <2>7. Config!MemoryIsPending'
    BY <1>1, <1>2, <2>1, <2>4 DEF Config!IInv, Config!MemoryIsPending
  <2>8. \A i \in DOMAIN pending' : Config!Fresh(pending'[i])
    BY <1>1, <2>1, <2>4 DEF Config!IInv, Config!PendingIsFresh, Config!AwaitsUpload,
          Config!Fresh
  <2>9. CASE Config!Begin(FALSE)
    BY <1>1, <1>2, <2>4, <2>5, <2>6, <2>7, <2>8, <2>9, ConfigBeginInv
  <2>10. CASE UNCHANGED <<pc, force, at, before, unnoted>>
    <3>1. Config!TypeOK'
      BY <1>1, <1>2, <2>4, <2>5, <2>10 DEF Config!IInv, Config!TypeOK, Config!Jobs
    <3>2. ~Config!InUpdate'
      BY <1>1, <2>10 DEF Config!InUpdate
    <3> QED BY <1>1, <2>6, <2>7, <2>8, <2>10, <3>1, <3>2 DEF Config!IInv,
                  Config!ConfigIsDownloadable, Config!Named, Config!FailureRestores, Config!Remains,
             Config!InitialStays, Config!PendingIsFresh, Config!UploadedSoFar, Config!CanBeUndone, Config!InUpdate
  <2> QED BY <1>4, <2>9, <2>10 DEF Config!AddJob, Config!Refuses
<1> QED BY <1>3, <1>4

LEMMA ConfigJobsAre ==
  ASSUME Config!IInv
  PROVE  /\ pending \in Seq(Config!Jobs) /\ DOMAIN pending = 1 .. Len(pending)
         /\ Len(pending) \in Nat
         /\ \A i \in DOMAIN pending : pending[i] \in Config!Jobs /\ pending[i].hash \in Hashes
         /\ at \in Nat
<1>1. pending \in Seq(Config!Jobs) /\ at \in Nat
  BY DEF Config!IInv, Config!TypeOK, Config!Jobs
<1>2. \A i \in DOMAIN pending : pending[i] \in Config!Jobs
  BY <1>1
<1>3. \A job \in Config!Jobs : job.hash \in Hashes
  BY DEF Config!Jobs
<1> QED BY <1>1, <1>2, <1>3

LEMMA ConfigReplaced ==
  ASSUME NEW jobs \in Seq(Config!Jobs), NEW k \in DOMAIN jobs, NEW job \in Config!Jobs,
         job.hash = jobs[k].hash,
         NEW after, after = [jobs EXCEPT ![k] = job]
  PROVE  /\ after \in Seq(Config!Jobs) /\ Len(after) = Len(jobs) /\ DOMAIN after = DOMAIN jobs
         /\ after[k] = job
         /\ \A i \in DOMAIN jobs : i # k => after[i] = jobs[i]
         /\ \A i \in DOMAIN jobs : after[i].hash = jobs[i].hash
<1>1. after \in Seq(Config!Jobs) /\ Len(after) = Len(jobs) /\ DOMAIN after = DOMAIN jobs
  OBVIOUS
<1>2. after[k] = job /\ \A i \in DOMAIN jobs : i # k => after[i] = jobs[i]
  OBVIOUS
<1> QED BY <1>1, <1>2

LEMMA ConfigNoted ==
  ASSUME NEW job \in Config!Jobs
  PROVE  /\ \A v \in BOOLEAN :
              /\ [job EXCEPT !.backedUp = v] \in Config!Jobs
              /\ [job EXCEPT !.backedUp = v].hash = job.hash
              /\ [job EXCEPT !.backedUp = v].backup = job.backup
              /\ [job EXCEPT !.backedUp = v].backedUp = v
              /\ [job EXCEPT !.backedUp = v].updated = job.updated
         /\ \A v \in BOOLEAN :
              /\ [job EXCEPT !.updated = v] \in Config!Jobs
              /\ [job EXCEPT !.updated = v].hash = job.hash
              /\ [job EXCEPT !.updated = v].backup = job.backup
              /\ [job EXCEPT !.updated = v].updated = v
              /\ [job EXCEPT !.updated = v].backedUp = job.backedUp
BY DEF Config!Jobs

LEMMA ConfigBackUpInv ==
  ASSUME Config!NamesDiffer, Config!Careful, Config!IInv, Config!BackUp PROVE Config!IInv'
<1> DEFINE job == pending[at]
<1>1. /\ pc = "uploads" /\ pc' = "inserts" /\ UNCHANGED <<disk, memory, force, at, before, unnoted, written>>
      /\ at \in DOMAIN pending /\ pending \in Seq(Config!Jobs) /\ job \in Config!Jobs
      /\ Config!Fresh(job) /\ unnoted = {}
      /\ Config!Intact(job) /\ job.hash \in Hashes /\ job.backup = Config!Backup(job.hash)
  <2>1. /\ pc = "uploads" /\ pc' = "inserts" /\ UNCHANGED <<disk, memory, force, at, before, unnoted, written>>
        /\ at <= Len(pending)
    BY DEF Config!BackUp, Config!Uploads
  <2>2. at \in DOMAIN pending
    BY <2>1, ConfigJobsAre DEF Config!IInv, Config!UploadedSoFar
  <2>3. Config!Fresh(job) /\ Config!Intact(job) /\ unnoted = {}
    BY <2>1, <2>2, ConfigJobsAre DEF Config!IInv, Config!PendingIsFresh, Config!AwaitsUpload,
          Config!CanBeUndone, Config!InUpdate, Config!UploadedSoFar
  <2> QED BY <2>1, <2>2, <2>3, ConfigJobsAre DEF Config!Fresh
<1>2. CASE ~Config!Exists
  <2>1. UNCHANGED <<bucket, pending>> /\ before[job.hash] = Absent
    BY <1>1, <1>2 DEF Config!BackUp, Config!Exists, Config!Intact, Config!Uploaded, Config!Fresh
  <2>2. Config!TypeOK'
    BY <1>1, <2>1 DEF Config!IInv, Config!TypeOK
  <2>3. Config!PendingIsFresh' /\ Config!UploadedSoFar'
    BY <1>1, <2>1 DEF Config!IInv, Config!PendingIsFresh, Config!UploadedSoFar,
          Config!AwaitsUpload, Config!Fresh, Config!TypeOK
  <2>4. Config!CanBeUndone'
    BY <1>1, <2>1 DEF Config!IInv, Config!CanBeUndone, Config!InUpdate, Config!Intact,
          Config!Uploaded, Config!Named
  <2> QED BY <1>1, <2>1, <2>2, <2>3, <2>4 DEF Config!IInv, Config!ConfigIsDownloadable,
                Config!Named, Config!FailureRestores, Config!InitialStays, Config!DistinctFiles,
                Config!MemoryIsPending
<1>3. CASE Config!Exists
  <2>1. /\ bucket' = [bucket EXCEPT ![Config!Backup(job.hash)] = bucket[job.hash]]
        /\ pending' = [pending EXCEPT ![at].backedUp = TRUE]
        /\ bucket[job.hash] # Absent
    BY <1>1, <1>3 DEF Config!BackUp, Config!BackedUp, Config!Exists
  <2>2. /\ pending' \in Seq(Config!Jobs) /\ Len(pending') = Len(pending)
        /\ DOMAIN pending' = DOMAIN pending
        /\ \A i \in DOMAIN pending : i # at => pending'[i] = pending[i]
        /\ pending'[at].hash = job.hash /\ pending'[at].backup = Config!Backup(job.hash)
        /\ pending'[at].backedUp /\ pending'[at].updated = job.updated
    <3> DEFINE new == [job EXCEPT !.backedUp = TRUE]
    <3>1. new \in Config!Jobs /\ new.hash = job.hash /\ new.backup = job.backup /\ new.updated = job.updated /\ new.backedUp
      BY <1>1, ConfigNoted
    <3>2. pending' = [pending EXCEPT ![at] = new]
      BY <2>1
    <3> HIDE DEF new
    <3> QED BY <1>1, <3>1, <3>2, ConfigReplaced
  <2>3. \A i \in DOMAIN pending : pending'[i].hash = pending[i].hash /\ pending[i].hash \in Hashes
    BY <1>1, <2>2, ConfigJobsAre
  <2>4. /\ bucket' \in [Config!Objects -> Config!Contents]
        /\ \A h \in Hashes : bucket'[h] = bucket[h]
        /\ bucket'[Config!Backup(job.hash)] = bucket[job.hash]
        /\ \A h \in Hashes : h # job.hash => bucket'[Config!Backup(h)] = bucket[Config!Backup(h)]
    BY <1>1, <2>1, ConfigNamed DEF Config!IInv, Config!TypeOK
  <2>5. Config!TypeOK'
    BY <1>1, <2>2, <2>4 DEF Config!IInv, Config!TypeOK, Config!Jobs
  <2>6. Config!DistinctFiles' /\ Config!MemoryIsPending'
    BY <1>1, <2>2, <2>3 DEF Config!IInv, Config!DistinctFiles, Config!MemoryIsPending
  <2>7. Config!PendingIsFresh'
    BY <1>1, <2>2 DEF Config!IInv, Config!PendingIsFresh, Config!AwaitsUpload, Config!Fresh,
          Config!TypeOK
  <2>8. Config!UploadedSoFar'
    <3>1. at # 0 /\ at <= Len(pending) + 1 /\ at <= Len(pending)
      BY <1>1 DEF Config!IInv, Config!UploadedSoFar
    <3>2. \A i \in DOMAIN pending' : i < at => pending'[i].updated
      <4> SUFFICES ASSUME NEW i \in DOMAIN pending', i < at PROVE pending'[i].updated
        OBVIOUS
      <4>1. pending[i].updated
        BY <1>1, <2>2 DEF Config!IInv, Config!UploadedSoFar
      <4>2. i # at
        BY <1>1
      <4> QED BY <2>2, <4>1, <4>2
    <3>3. ~pending'[at].updated /\ pending'[at].backedUp
      BY <1>1, <2>2 DEF Config!Fresh
    <3>4. unnoted' = {} /\ disk' # Broken
      BY <1>1 DEF Config!IInv, Config!UploadedSoFar
    <3> QED BY <1>1, <2>2, <3>1, <3>2, <3>3, <3>4 DEF Config!UploadedSoFar
  <2>9. Config!CanBeUndone'
    <3>1. \A i \in DOMAIN pending : Config!Intact(pending[i])
      BY <1>1 DEF Config!IInv, Config!CanBeUndone, Config!InUpdate
    <3>2. \A i \in DOMAIN pending : i # at => pending[i].hash # job.hash
      BY <1>1 DEF Config!IInv, Config!DistinctFiles
    <3>3. \A i \in DOMAIN pending : i # at => Config!Intact(pending[i])'
      BY <1>1, <2>2, <2>3, <2>4, <3>1, <3>2 DEF Config!Intact, Config!Uploaded
    <3>4. Config!Intact(pending[at])'
      BY <1>1, <2>1, <2>2, <2>4 DEF Config!Intact, Config!Uploaded, Config!Fresh
    <3>5. /\ \A h \in Hashes : (\A i \in DOMAIN pending' : pending'[i].hash # h) => bucket'[h] = before'[h]
          /\ Config!Named' => \A p \in Pairs \ Bucketless : before'[disk'[p]] = disk'[p]
      BY <1>1, <2>2, <2>3, <2>4 DEF Config!IInv, Config!CanBeUndone, Config!InUpdate, Config!Named
    <3> QED BY <1>1, <2>2, <3>3, <3>4, <3>5 DEF Config!CanBeUndone
  <2>10. Config!ConfigIsDownloadable' /\ Config!FailureRestores' /\ Config!InitialStays'
    BY <1>1, <2>4 DEF Config!IInv, Config!TypeOK, Config!Configs, Config!NamesDiffer, Config!Named,
          Config!ConfigIsDownloadable, Config!FailureRestores, Config!InitialStays
  <2> QED BY <2>5, <2>6, <2>7, <2>8, <2>9, <2>10 DEF Config!IInv
<1> QED BY <1>2, <1>3

LEMMA ConfigInsertInv ==
  ASSUME Config!NamesDiffer, Config!Careful, Config!IInv, Config!Insert PROVE Config!IInv'
<1> DEFINE job == pending[at]
<1>1. /\ pc = "inserts" /\ pc' = "uploads" /\ UNCHANGED <<disk, memory, force, before, unnoted, written>>
      /\ at \in DOMAIN pending /\ pending \in Seq(Config!Jobs) /\ job \in Config!Jobs
      /\ Config!Intact(job) /\ job.hash \in Hashes /\ job.backup = Config!Backup(job.hash)
      /\ at' = at + 1 /\ at \in Nat /\ at <= Len(pending) /\ unnoted = {} /\ disk # Broken
      /\ bucket' = [bucket EXCEPT ![job.hash] = job.hash]
      /\ pending' = [pending EXCEPT ![at].updated = TRUE]
  <2>1. /\ pc = "inserts" /\ pc' = "uploads" /\ UNCHANGED <<disk, memory, force, before, unnoted, written>>
        /\ at <= Len(pending) /\ at' = at + 1
        /\ bucket' = [bucket EXCEPT ![job.hash] = job.hash]
        /\ pending' = [pending EXCEPT ![at].updated = TRUE]
    BY DEF Config!Insert, Config!Uploads
  <2>2. at \in DOMAIN pending /\ unnoted = {} /\ disk # Broken
    BY <2>1, ConfigJobsAre DEF Config!IInv, Config!UploadedSoFar
  <2>3. Config!Intact(job)
    BY <2>1, <2>2, ConfigJobsAre DEF Config!IInv, Config!CanBeUndone, Config!InUpdate
  <2> QED BY <2>1, <2>2, <2>3, ConfigJobsAre DEF Config!Intact
<1>2. /\ pending' \in Seq(Config!Jobs) /\ Len(pending') = Len(pending)
      /\ DOMAIN pending' = DOMAIN pending
      /\ \A i \in DOMAIN pending : i # at => pending'[i] = pending[i]
      /\ pending'[at].hash = job.hash /\ pending'[at].backup = Config!Backup(job.hash)
      /\ pending'[at].updated /\ pending'[at].backedUp = job.backedUp
  <2> DEFINE new == [job EXCEPT !.updated = TRUE]
  <2>1. new \in Config!Jobs /\ new.hash = job.hash /\ new.backup = job.backup /\ new.backedUp = job.backedUp /\ new.updated
    BY <1>1, ConfigNoted
  <2>2. pending' = [pending EXCEPT ![at] = new]
    BY <1>1
  <2>3. at \in DOMAIN pending /\ pending \in Seq(Config!Jobs) /\ job.backup = Config!Backup(job.hash)
    BY <1>1
  <2> HIDE DEF new
  <2>4. /\ pending' \in Seq(Config!Jobs) /\ Len(pending') = Len(pending)
        /\ DOMAIN pending' = DOMAIN pending
        /\ pending'[at] = new /\ \A i \in DOMAIN pending : i # at => pending'[i] = pending[i]
    BY <2>1, <2>2, <2>3, ConfigReplaced
  <2> QED BY <2>1, <2>3, <2>4
<1>3. \A i \in DOMAIN pending : pending'[i].hash = pending[i].hash /\ pending[i].hash \in Hashes
  BY <1>1, <1>2, ConfigJobsAre
<1>4. /\ bucket' \in [Config!Objects -> Config!Contents] /\ bucket'[job.hash] = job.hash
      /\ \A o \in Config!Objects : o # job.hash => bucket'[o] = bucket[o]
  BY <1>1, ConfigNamed DEF Config!IInv, Config!TypeOK
<1>5. Config!TypeOK'
  <2>1. at' \in 0 .. (MaxJobs + 1)
    BY <1>1 DEF Config!IInv, Config!TypeOK, Config!NamesDiffer
  <2> QED BY <1>1, <1>2, <1>4, <2>1 DEF Config!IInv, Config!TypeOK, Config!Jobs
<1>6. Config!DistinctFiles' /\ Config!MemoryIsPending'
  BY <1>1, <1>2, <1>3 DEF Config!IInv, Config!DistinctFiles, Config!MemoryIsPending
<1>7. Config!PendingIsFresh'
  BY <1>1, <1>2 DEF Config!IInv, Config!PendingIsFresh, Config!AwaitsUpload, Config!Fresh
<1>8. Config!UploadedSoFar'
  BY <1>1, <1>2 DEF Config!IInv, Config!UploadedSoFar
<1>9. Config!CanBeUndone'
  <2>1. \A i \in DOMAIN pending : Config!Intact(pending[i])
    BY <1>1 DEF Config!IInv, Config!CanBeUndone, Config!InUpdate
  <2>2. \A i \in DOMAIN pending : i # at => pending[i].hash # job.hash
    BY <1>1 DEF Config!IInv, Config!DistinctFiles
  <2>3. \A i \in DOMAIN pending : i # at => Config!Intact(pending[i])'
    <3> SUFFICES ASSUME NEW i \in DOMAIN pending, i # at PROVE Config!Intact(pending[i])'
      OBVIOUS
    <3>1. pending'[i] = pending[i] /\ pending[i].hash \in Hashes /\ pending[i].hash # job.hash /\ Config!Intact(pending[i])
      BY <1>2, <1>3, <2>1, <2>2
    <3>2. bucket'[pending[i].hash] = bucket[pending[i].hash] /\ bucket'[Config!Backup(pending[i].hash)] = bucket[Config!Backup(pending[i].hash)]
      BY <1>1, <1>4, <3>1, ConfigNamed
    <3> QED BY <1>1, <3>1, <3>2 DEF Config!Intact, Config!Uploaded
  <2>4. ASSUME NEW k \in DOMAIN pending, k = at PROVE Config!Intact(pending[k])'
    <3>1. bucket'[Config!Backup(job.hash)] = bucket[Config!Backup(job.hash)]
      BY <1>1, <1>4, ConfigNamed
    <3>2. job.backedUp \/ before[job.hash] = Absent
      BY <1>1 DEF Config!IInv, Config!UploadedSoFar
    <3>3. job.backedUp => before[job.hash] # Absent /\ bucket[Config!Backup(job.hash)] = before[job.hash]
      BY <1>1 DEF Config!Intact
    <3> QED BY <1>1, <1>2, <1>4, <2>4, <3>1, <3>2, <3>3 DEF Config!Intact, Config!Uploaded
  <2>5. \A h \in Hashes : (\A i \in DOMAIN pending' : pending'[i].hash # h) => bucket'[h] = before'[h]
    BY <1>1, <1>2, <1>3, <1>4, ConfigNamed DEF Config!IInv, Config!CanBeUndone, Config!InUpdate
  <2>6. Config!Named' => \A p \in Pairs \ Bucketless : before'[disk'[p]] = disk'[p]
    BY <1>1 DEF Config!IInv, Config!CanBeUndone, Config!InUpdate, Config!Named
  <2>7. pc' = "uploads" /\ DOMAIN pending' = DOMAIN pending
    BY <1>1, <1>2
  <2> QED BY <2>3, <2>4, <2>5, <2>6, <2>7 DEF Config!CanBeUndone
<1>10. Config!ConfigIsDownloadable' /\ Config!FailureRestores' /\ Config!InitialStays'
  BY <1>1, <1>4, ConfigNamed DEF Config!IInv, Config!TypeOK, Config!Configs, Config!NamesDiffer,
        Config!Named, Config!ConfigIsDownloadable, Config!FailureRestores, Config!InitialStays
<1> QED BY <1>5, <1>6, <1>7, <1>8, <1>9, <1>10 DEF Config!IInv

(* Where nothing is uploaded or undone the bucket stays as it is.          *)
LEMMA ConfigEndInv ==
  ASSUME Config!IInv, Config!TypeOK', UNCHANGED bucket, Config!ConfigIsDownloadable',
         Config!FailureRestores', Config!InitialStays', Config!DistinctFiles', Config!MemoryIsPending',
         pc' \in {"idle", "failed", "stuck"}, pc' = "idle" => \A i \in DOMAIN pending' : Config!Fresh(pending'[i])
  PROVE  Config!IInv'
BY DEF Config!IInv, Config!PendingIsFresh, Config!AwaitsUpload, Config!UploadedSoFar,
      Config!CanBeUndone, Config!InUpdate, Config!Fresh

LEMMA ConfigUploadFailsInv ==
  ASSUME Config!NamesDiffer, Config!Careful, Config!IInv, Config!UploadFails PROVE Config!IInv'
<1>1. /\ pc \in {"uploads", "inserts"} /\ pc' = "rollback" /\ at' = Len(pending)
      /\ Len(pending) \in Nat
      /\ UNCHANGED <<disk, memory, pending, force, bucket, before, unnoted, written>>
  BY ConfigJobsAre DEF Config!UploadFails, Config!Uploads, Config!Raise
<1>2. Config!TypeOK'
  BY <1>1 DEF Config!IInv, Config!TypeOK, Config!NamesDiffer
<1>3. Config!CanBeUndone'
  BY <1>1, ConfigJobsAre DEF Config!IInv, Config!CanBeUndone, Config!InUpdate, Config!Intact,
        Config!Uploaded, Config!Named
<1> QED BY <1>1, <1>2, <1>3 DEF Config!IInv, Config!ConfigIsDownloadable, Config!Named,
              Config!FailureRestores, Config!InitialStays, Config!DistinctFiles,
     Config!MemoryIsPending, Config!PendingIsFresh, Config!AwaitsUpload, Config!UploadedSoFar

(* What an interrupt leaves can be rolled back: a backup that was not      *)
(* noted, a file that was uploaded and not noted, or the config file.      *)
LEMMA ConfigInterruptInv ==
  ASSUME Config!NamesDiffer, Config!Careful, Config!IInv, Config!IsInterrupted
  PROVE  Config!IInv' /\ Config!UpdatedTogether
<1> DEFINE AllIntact == \A i \in DOMAIN pending : Config!Intact(pending[i])
           Only == \A h \in Hashes : bucket'[h] = bucket[h]
                     \/ (bucket'[h] = h /\ \E i \in DOMAIN pending : pending[i].hash = h)
<1>1. /\ pc \in {"uploads", "inserts"} /\ pc' = "rollback" /\ at' = Len(pending)
      /\ Len(pending) \in Nat /\ DOMAIN pending = 1 .. Len(pending)
      /\ UNCHANGED <<memory, pending, force, before>>
      /\ unnoted = {} /\ disk # Broken /\ at # 0 /\ at \in Nat
      /\ \A i \in DOMAIN pending :
           Config!Intact(pending[i]) /\ pending[i].hash \in Hashes /\ (i < at => pending[i].updated)
  BY ConfigJobsAre DEF Config!IsInterrupted, Config!Raise, Config!IInv, Config!UploadedSoFar,
     Config!CanBeUndone, Config!InUpdate
<1>2. /\ Config!TypeOK /\ at' \in 0 .. (MaxJobs + 1)
      /\ Config!DistinctFiles' /\ Config!PendingIsFresh' /\ Config!UploadedSoFar'
      /\ Config!FailureRestores'
  BY <1>1 DEF Config!IInv, Config!TypeOK, Config!NamesDiffer, Config!DistinctFiles,
     Config!PendingIsFresh, Config!AwaitsUpload, Config!UploadedSoFar, Config!FailureRestores
<1>3. ASSUME UNCHANGED <<disk, written>>, unnoted' \in SUBSET Hashes,
             bucket' \in [Config!Objects -> Config!Contents],
             AllIntact', Only
      PROVE  Config!IInv' /\ Config!UpdatedTogether
  <2>1. Config!TypeOK'
    BY <1>1, <1>2, <1>3 DEF Config!TypeOK
  <2>2. Config!MemoryIsPending' /\ Config!UpdatedTogether
    BY <1>1, <1>3 DEF Config!IInv, Config!MemoryIsPending, Config!UpdatedTogether
  <2>3. Config!ConfigIsDownloadable' /\ Config!InitialStays'
    BY <1>1, <1>3 DEF Config!IInv, Config!TypeOK, Config!Configs, Config!NamesDiffer, Config!Named,
       Config!ConfigIsDownloadable, Config!InitialStays
  <2>4. Config!CanBeUndone'
    <3>1. \A h \in Hashes : (\A i \in DOMAIN pending' : pending'[i].hash # h) => bucket'[h] = before'[h]
      BY <1>1, <1>3 DEF Config!IInv, Config!CanBeUndone, Config!InUpdate
    <3>2. Config!Named' => \A p \in Pairs \ Bucketless : before'[disk'[p]] = disk'[p]
      BY <1>1, <1>3 DEF Config!IInv, Config!CanBeUndone, Config!InUpdate, Config!Named
    <3>3. at' <= Len(pending') /\ \A i \in DOMAIN pending' : ~(i > at')
      BY <1>1
    <3> QED BY <1>1, <1>3, <3>1, <3>2, <3>3 DEF Config!CanBeUndone
  <2> QED BY <1>2, <2>1, <2>2, <2>3, <2>4 DEF Config!IInv
<1>4. ASSUME at <= Len(pending)
      PROVE  /\ at \in DOMAIN pending /\ pending[at].hash \in Hashes
             /\ pending[at].backup = Config!Backup(pending[at].hash)
             /\ ~pending[at].updated
             /\ \A i \in DOMAIN pending : i # at =>
                  pending[i].hash # pending[at].hash /\ pending[i].backup # pending[at].backup
  <2>1. at \in DOMAIN pending
    BY <1>1, <1>4
  <2>2. ~pending[at].updated
    BY <1>1, <2>1 DEF Config!IInv, Config!PendingIsFresh, Config!AwaitsUpload, Config!Fresh,
       Config!UploadedSoFar
  <2>3. \A i \in DOMAIN pending : pending[i].backup = Config!Backup(pending[i].hash)
    BY <1>1 DEF Config!Intact
  <2>4. \A i \in DOMAIN pending : i # at => pending[i].hash # pending[at].hash
    BY <2>1 DEF Config!IInv, Config!DistinctFiles
  <2> QED BY <1>1, <2>1, <2>2, <2>3, <2>4, ConfigNamed
<1>5. CASE /\ Config!Uploads /\ pc = "uploads"
           /\ bucket' = [bucket EXCEPT ![pending[at].backup] = bucket[pending[at].hash]]
           /\ UNCHANGED <<disk, unnoted, written>>
  <2>1. at \in DOMAIN pending /\ at <= Len(pending) /\ ~pending[at].backedUp
    BY <1>1, <1>4, <1>5 DEF Config!Uploads, Config!IInv, Config!PendingIsFresh,
       Config!AwaitsUpload, Config!Fresh
  <2>2. /\ bucket' \in [Config!Objects -> Config!Contents]
        /\ \A h \in Hashes : bucket'[h] = bucket[h]
        /\ \A o \in Config!Objects : o # pending[at].backup => bucket'[o] = bucket[o]
    BY <1>2, <1>4, <1>5, <2>1, ConfigNamed DEF Config!TypeOK
  <2>3. ASSUME NEW i \in DOMAIN pending PROVE Config!Intact(pending[i])'
    <3>1. pending'[i] = pending[i] /\ Config!Intact(pending[i]) /\ pending[i].hash \in Hashes
      BY <1>1
    <3>2. CASE i = at
      BY <1>1, <1>5, <2>1, <2>2, <3>1, <3>2 DEF Config!Intact, Config!Uploaded
    <3>3. CASE i # at
      <4>1. bucket'[pending[i].backup] = bucket[pending[i].backup]
        BY <1>4, <2>1, <2>2, <3>1, <3>3, ConfigNamed DEF Config!Intact
      <4> QED BY <1>1, <1>5, <2>2, <3>1, <4>1 DEF Config!Intact, Config!Uploaded
    <3> QED BY <3>2, <3>3
  <2>4. unnoted' \in SUBSET Hashes /\ AllIntact' /\ Only
    BY <1>1, <1>5, <2>2, <2>3
  <2> HIDE DEF AllIntact, Only
  <2> QED BY <1>3, <1>5, <2>2, <2>4
<1>6. CASE /\ Config!Uploads /\ pc = "inserts"
           /\ bucket' = [bucket EXCEPT ![pending[at].hash] = pending[at].hash]
           /\ unnoted' = {pending[at].hash}
           /\ UNCHANGED <<disk, written>>
  <2>1. /\ at \in DOMAIN pending /\ at <= Len(pending)
        /\ pending[at].backedUp \/ before[pending[at].hash] = Absent
    BY <1>1, <1>4, <1>6 DEF Config!Uploads, Config!IInv, Config!UploadedSoFar
  <2>2. /\ bucket' \in [Config!Objects -> Config!Contents]
        /\ bucket'[pending[at].hash] = pending[at].hash
        /\ \A o \in Config!Objects : o # pending[at].hash => bucket'[o] = bucket[o]
    BY <1>2, <1>4, <1>6, <2>1, ConfigNamed DEF Config!TypeOK
  <2>3. ASSUME NEW i \in DOMAIN pending PROVE Config!Intact(pending[i])'
    <3>1. pending'[i] = pending[i] /\ Config!Intact(pending[i]) /\ pending[i].hash \in Hashes
      BY <1>1
    <3>2. bucket'[pending[i].backup] = bucket[pending[i].backup]
      BY <1>4, <2>1, <2>2, <3>1, ConfigNamed DEF Config!Intact
    <3>3. CASE i = at
      BY <1>1, <1>6, <2>1, <2>2, <3>1, <3>2, <3>3 DEF Config!Intact, Config!Uploaded
    <3>4. CASE i # at
      <4>1. bucket'[pending[i].hash] = bucket[pending[i].hash] /\ pending[i].hash # pending[at].hash
        BY <1>4, <2>1, <2>2, <3>1, <3>4, ConfigNamed
      <4> QED BY <1>1, <1>6, <3>1, <3>2, <4>1 DEF Config!Intact, Config!Uploaded
    <3> QED BY <3>3, <3>4
  <2>4. unnoted' \in SUBSET Hashes
    BY <1>4, <1>6, <2>1
  <2>5. Only
    BY <2>1, <2>2, ConfigNamed
  <2>6. AllIntact'
    BY <1>1, <2>3
  <2> HIDE DEF AllIntact, Only
  <2> QED BY <1>3, <1>6, <2>2, <2>4, <2>5, <2>6
<1>7. CASE /\ at > Len(pending)
           /\ \/ disk' = Broken /\ UNCHANGED written
              \/ disk' = memory /\ written' = TRUE
           /\ UNCHANGED <<bucket, unnoted>>
  <2>1. Config!TypeOK' /\ ~Config!Named'
    BY <1>1, <1>2, <1>7 DEF Config!TypeOK, Config!Named
  <2>2. Config!ConfigIsDownloadable' /\ Config!InitialStays' /\ Config!MemoryIsPending'
    BY <1>1, <1>7, <2>1 DEF Config!IInv, Config!ConfigIsDownloadable, Config!InitialStays,
       Config!MemoryIsPending
  <2>3. Config!CanBeUndone'
    <3>1. \A i \in DOMAIN pending : Config!Intact(pending[i])'
      BY <1>1, <1>7 DEF Config!Intact, Config!Uploaded
    <3>2. \A h \in Hashes : (\A i \in DOMAIN pending' : pending'[i].hash # h) => bucket'[h] = before'[h]
      BY <1>1, <1>7 DEF Config!IInv, Config!CanBeUndone, Config!InUpdate
    <3>3. at' <= Len(pending') /\ \A i \in DOMAIN pending' : ~(i > at')
      BY <1>1
    <3> QED BY <1>1, <2>1, <3>1, <3>2, <3>3 DEF Config!CanBeUndone
  <2>4. Config!UpdatedTogether
    BY <1>1, <1>7 DEF Config!UpdatedTogether
  <2> QED BY <1>2, <2>1, <2>2, <2>3, <2>4 DEF Config!IInv
<1> QED BY <1>5, <1>6, <1>7 DEF Config!IsInterrupted

LEMMA ConfigWriteConfigInv ==
  ASSUME Config!NamesDiffer, Config!IInv, Config!WriteConfig
  PROVE  Config!IInv' /\ Config!UpdatedTogether
<1>1. /\ pc = "uploads" /\ at > Len(pending) /\ disk' = memory /\ pending' = <<>>
      /\ pc' = "idle"
      /\ UNCHANGED <<memory, force, at, bucket, before, unnoted, written>> /\ disk # Broken
      /\ unnoted = {}
  BY DEF Config!IInv, Config!UploadedSoFar, Config!WriteConfig, Config!Write
<1>2. /\ \A i \in DOMAIN pending : pending[i].updated /\ bucket[pending[i].hash] = pending[i].hash
      /\ Config!Named => \A p \in Pairs \ Bucketless : bucket[disk[p]] = disk[p]
  BY <1>1, ConfigJobsAre DEF Config!IInv, Config!TypeOK, Config!UploadedSoFar,
        Config!CanBeUndone, Config!InUpdate, Config!Intact, Config!Uploaded,
        Config!ConfigIsDownloadable
<1>3. Config!ConfigIsDownloadable' /\ Config!InitialStays'
  BY <1>1, <1>2 DEF Config!IInv, Config!MemoryIsPending, Config!ConfigIsDownloadable,
        Config!Named, Config!InitialStays
<1>4. Config!TypeOK'
  <2>1. disk' \in Config!Configs /\ disk' # Broken
    BY <1>1 DEF Config!NamesDiffer, Config!IInv, Config!TypeOK
  <2>2. pending' \in Seq(Config!Jobs) /\ Len(pending') = 0 /\ Len(pending') <= MaxJobs
    BY <1>1 DEF Config!NamesDiffer
  <2> QED BY <1>1, <2>1, <2>2 DEF Config!IInv, Config!TypeOK, Config!Jobs
<1>5. Config!DistinctFiles' /\ Config!MemoryIsPending' /\ Config!FailureRestores' /\ \A i \in DOMAIN pending' : Config!Fresh(pending'[i])
  BY <1>1 DEF Config!DistinctFiles, Config!MemoryIsPending, Config!FailureRestores
<1>6. Config!UpdatedTogether
  BY <1>1, <1>2 DEF Config!UpdatedTogether
<1> QED BY <1>1, <1>3, <1>4, <1>5, <1>6, ConfigEndInv

LEMMA ConfigRollbackInv ==
  ASSUME Config!NamesDiffer, Config!Careful, Config!IInv, Config!Rollback PROVE Config!IInv'
<1> DEFINE job == pending[at]
<1>1. /\ pc = "rollback" /\ pc' = "rollback" /\ at' = at - 1 /\ at > 0
      /\ UNCHANGED <<disk, memory, force, before, unnoted, written>>
      /\ at \in DOMAIN pending /\ pending \in Seq(Config!Jobs) /\ job \in Config!Jobs
      /\ Config!Intact(job) /\ job.hash \in Hashes /\ job.backup = Config!Backup(job.hash)
  <2>1. /\ pc = "rollback" /\ pc' = "rollback" /\ at' = at - 1 /\ at > 0
        /\ UNCHANGED <<disk, memory, force, before, unnoted, written>>
    BY DEF Config!Rollback, Config!JobBefore
  <2>2. at \in DOMAIN pending
    BY <2>1, ConfigJobsAre DEF Config!IInv, Config!CanBeUndone, Config!InUpdate
  <2>3. Config!Intact(job)
    BY <2>1, <2>2, ConfigJobsAre DEF Config!IInv, Config!CanBeUndone, Config!InUpdate
  <2> QED BY <2>1, <2>2, <2>3, ConfigJobsAre DEF Config!Intact

(* The file of the job is what it was before the update, or remains.       *)
<1>2. /\ bucket' \in [Config!Objects -> Config!Contents]
      /\ \/ bucket'[job.hash] = before[job.hash]
         \/ Config!Remains(job.hash) /\ bucket'[job.hash] = job.hash
      /\ \A o \in Config!Objects : o # job.hash => bucket'[o] = bucket[o]
  <2>1. bucket \in [Config!Objects -> Config!Contents] /\ before \in [Config!Objects -> Config!Contents] /\ job.hash \in Config!Objects
    BY <1>1, ConfigNamed DEF Config!IInv, Config!TypeOK
  <2>2. CASE job.backedUp
    BY <1>1, <2>1, <2>2 DEF Config!Rollback, Config!Intact
  <2>3. CASE ~job.backedUp /\ job.updated
    BY <1>1, <2>1, <2>3, ConfigNamed DEF Config!Rollback, Config!Deleted, Config!Intact,
       Config!Uploaded
  <2>4. CASE ~job.backedUp /\ ~job.updated
    BY <1>1, <2>1, <2>4 DEF Config!Rollback, Config!Deleted, Config!Intact, Config!Uploaded,
       Config!Remains
  <2> QED BY <2>2, <2>3, <2>4
<1>3. /\ pending' \in Seq(Config!Jobs) /\ Len(pending') = Len(pending)
      /\ DOMAIN pending' = DOMAIN pending
      /\ \A i \in DOMAIN pending : i # at => pending'[i] = pending[i]
      /\ \A i \in DOMAIN pending : pending'[i].hash = pending[i].hash /\ pending[i].hash \in Hashes
  <2>1. PICK new \in Config!Jobs : new.hash = job.hash /\ pending' = [pending EXCEPT ![at] = new]
    <3>1. CASE ~job.backedUp
      BY <1>1, <3>1, ConfigNoted DEF Config!Rollback
    <3>2. CASE job.backedUp
      <4> DEFINE new == [job EXCEPT !.backup = Config!NoName, !.updated = FALSE]
      <4>1. new \in Config!Jobs /\ new.hash = job.hash
        BY <1>1, ConfigNamed DEF Config!Jobs
      <4>2. pending' = [pending EXCEPT ![at] = new]
        BY <3>2 DEF Config!Rollback
      <4> QED BY <4>1, <4>2
    <3> QED BY <3>1, <3>2
  <2> QED BY <1>1, <2>1, ConfigReplaced, ConfigJobsAre
<1>4. Config!TypeOK'
  <2>1. at' \in 0 .. (MaxJobs + 1)
    BY <1>1, ConfigJobsAre DEF Config!IInv, Config!TypeOK, Config!NamesDiffer
  <2> QED BY <1>1, <1>2, <1>3, <2>1 DEF Config!IInv, Config!TypeOK, Config!Jobs
<1>5. Config!DistinctFiles' /\ Config!MemoryIsPending'
  BY <1>1, <1>3 DEF Config!IInv, Config!DistinctFiles, Config!MemoryIsPending
<1>6. Config!CanBeUndone'
  <2>1. ASSUME NEW i \in DOMAIN pending, i <= at' PROVE Config!Intact(pending[i])'
    <3>1. i # at /\ Config!Intact(pending[i]) /\ pending[i].hash # job.hash
      BY <1>1, <2>1, ConfigJobsAre DEF Config!IInv, Config!CanBeUndone, Config!InUpdate,
            Config!DistinctFiles
    <3>2. /\ bucket'[pending[i].hash] = bucket[pending[i].hash]
          /\ bucket'[Config!Backup(pending[i].hash)] = bucket[Config!Backup(pending[i].hash)]
      BY <1>1, <1>2, <1>3, <3>1, ConfigNamed
    <3> QED BY <1>1, <1>3, <3>1, <3>2 DEF Config!Intact, Config!Uploaded
  <2>2. ASSUME NEW i \in DOMAIN pending, i > at' PROVE Config!Undone(pending[i])'
    <3>1. CASE i = at
      BY <1>1, <1>2, <1>3, <3>1 DEF Config!Undone, Config!Remains
    <3>2. CASE i # at
      <4>1. Config!Undone(pending[i]) /\ pending[i].hash # job.hash
        BY <1>1, <2>2, <3>2, ConfigJobsAre DEF Config!IInv, Config!CanBeUndone,
              Config!InUpdate, Config!DistinctFiles
      <4> QED BY <1>1, <1>2, <1>3, <4>1, ConfigNamed DEF Config!Undone, Config!Remains
    <3> QED BY <3>1, <3>2
  <2>3. \A h \in Hashes : (\A i \in DOMAIN pending' : pending'[i].hash # h) => bucket'[h] = before'[h]
    BY <1>1, <1>2, <1>3, ConfigNamed DEF Config!IInv, Config!CanBeUndone, Config!InUpdate
  <2>4. Config!Named' => \A p \in Pairs \ Bucketless : before'[disk'[p]] = disk'[p]
    BY <1>1 DEF Config!IInv, Config!CanBeUndone, Config!InUpdate, Config!Named
  <2>5. pc' = "rollback" /\ DOMAIN pending' = DOMAIN pending /\ DOMAIN pending \subseteq Nat /\ at' \in Nat /\ at' <= Len(pending')
    BY <1>1, <1>3, ConfigJobsAre
  <2> QED BY <2>1, <2>2, <2>3, <2>4, <2>5 DEF Config!CanBeUndone
<1>7. Config!ConfigIsDownloadable' /\ Config!FailureRestores' /\ Config!InitialStays'
  <2>1. Config!Named => \A p \in Pairs \ Bucketless : disk[p] \in Config!Objects /\ before[disk[p]] = disk[p] /\ bucket[disk[p]] = disk[p]
    BY <1>1, ConfigNamed DEF Config!IInv, Config!TypeOK, Config!Configs, Config!Named,
          Config!CanBeUndone, Config!InUpdate, Config!ConfigIsDownloadable
  <2>2. Initial \in Config!Objects /\ bucket[Initial] = Initial /\ before[Initial] = Initial
    BY ConfigNamed DEF Config!NamesDiffer, Config!IInv, Config!InitialStays
  <2>3. Config!ConfigIsDownloadable'
    BY <1>1, <1>2, <2>1 DEF Config!ConfigIsDownloadable, Config!Named
  <2> QED BY <1>1, <1>2, <2>2, <2>3 DEF Config!FailureRestores, Config!InitialStays
<1> QED BY <1>1, <1>4, <1>5, <1>6, <1>7 DEF Config!IInv, Config!PendingIsFresh,
              Config!AwaitsUpload, Config!UploadedSoFar

LEMMA ConfigRolledBackInv ==
  ASSUME Config!NamesDiffer, Config!IInv,
         Config!RolledBack \/ Config!RollbackFails PROVE Config!IInv'
<1>1. /\ pc = "rollback" /\ pc' \in {"failed", "stuck"}
      /\ UNCHANGED <<disk, memory, pending, force, at, bucket, before, unnoted, written>>
  BY DEF Config!RolledBack, Config!RollbackFails
<1>2. /\ Config!TypeOK' /\ Config!ConfigIsDownloadable' /\ Config!InitialStays'
      /\ Config!DistinctFiles' /\ Config!MemoryIsPending'
  BY <1>1 DEF Config!IInv, Config!TypeOK, Config!ConfigIsDownloadable, Config!Named, Config!InitialStays,
        Config!DistinctFiles, Config!MemoryIsPending
<1>3. Config!FailureRestores'
  <2>1. ASSUME pc' = "failed" PROVE at = 0
    BY <1>1, <2>1 DEF Config!RolledBack, Config!RollbackFails
  <2>2. ASSUME at = 0, NEW h \in Hashes PROVE bucket[h] = before[h] \/ Config!Remains(h)
    <3>1. CASE \A i \in DOMAIN pending : pending[i].hash # h
      BY <1>1, <3>1 DEF Config!IInv, Config!CanBeUndone, Config!InUpdate
    <3>2. ASSUME NEW i \in DOMAIN pending, pending[i].hash = h PROVE bucket[h] = before[h] \/ Config!Remains(h)
      BY <1>1, <2>2, <3>2, ConfigJobsAre DEF Config!IInv, Config!CanBeUndone, Config!InUpdate,
            Config!Undone
    <3> QED BY <3>1, <3>2
  <2> QED BY <1>1, <2>1, <2>2 DEF Config!FailureRestores, Config!Remains
<1> QED BY <1>1, <1>2, <1>3, ConfigEndInv

LEMMA ConfigNewProcessInv ==
  ASSUME Config!NamesDiffer, Config!IInv, Config!NewProcess PROVE Config!IInv'
<1>1. /\ disk' \in Config!Configs /\ memory' = disk' /\ pending' = <<>> /\ pc' = "idle"
      /\ at' = 1 /\ before' = bucket /\ bucket' = bucket /\ unnoted' = {}
      /\ written' = (written /\ disk # Broken)
      /\ disk # Broken => disk' = disk
      /\ disk = Broken => disk' = [p \in Pairs |-> Initial]
  <2>1. [p \in Pairs |-> Initial] \in Config!Configs
    BY DEF Config!Configs, Config!NamesDiffer
  <2> QED BY <2>1 DEF Config!NewProcess, Config!IInv, Config!TypeOK
<1>2. force' \in BOOLEAN
  BY DEF Config!NewProcess
<1>3. Config!TypeOK'
  <2>1. pending' \in Seq(Config!Jobs) /\ Len(pending') = 0 /\ Len(pending') <= MaxJobs /\ 1 \in 0 .. (MaxJobs + 1)
    BY <1>1 DEF Config!NamesDiffer
  <2>2. unnoted' \in SUBSET Hashes /\ written' \in BOOLEAN
    BY <1>1
  <2>3. bucket' \in [Config!Objects -> Config!Contents] /\ before' \in [Config!Objects -> Config!Contents]
    BY <1>1 DEF Config!IInv, Config!TypeOK
  <2>4. pending' \in Seq(Config!Jobs) /\ disk' \in Config!Configs \cup {Broken} /\ memory' \in Config!Configs
    BY <1>1, <2>1 DEF Config!Jobs
  <2>5. pc' = "idle" /\ at' \in 0 .. (MaxJobs + 1) /\ Len(pending') <= MaxJobs
    BY <1>1, <2>1
  <2> QED BY <1>2, <2>2, <2>3, <2>4, <2>5 DEF Config!TypeOK
<1>4. Config!ConfigIsDownloadable'
  <2>1. CASE disk = Broken
    <3>1. \A p \in Pairs : bucket'[disk'[p]] = disk'[p]
      BY <1>1, <2>1 DEF Config!IInv, Config!InitialStays
    <3> QED BY <3>1 DEF Config!ConfigIsDownloadable
  <2>2. CASE disk # Broken
    <3>1. disk' = disk /\ bucket' = bucket
      BY <1>1, <2>2
    <3>2. Config!Named' => Config!Named
      BY <1>1, <2>2, Zenon DEF Config!Named
    <3> QED BY <3>1, <3>2 DEF Config!IInv, Config!ConfigIsDownloadable
  <2> QED BY <2>1, <2>2
<1>5. /\ Config!FailureRestores' /\ Config!InitialStays' /\ Config!DistinctFiles'
      /\ Config!MemoryIsPending'
      /\ \A i \in DOMAIN pending' : Config!Fresh(pending'[i])
  BY <1>1 DEF Config!IInv, Config!FailureRestores, Config!InitialStays, Config!DistinctFiles,
        Config!MemoryIsPending
<1> QED BY <1>1, <1>3, <1>4, <1>5, ConfigEndInv

LEMMA ConfigNextInv ==
  ASSUME Config!NamesDiffer, Config!Careful, Config!IInv,
         [Config!Next]_(Config!vars) PROVE Config!IInv' /\ Config!UpdatedTogether
<1>1. ASSUME NEW pair \in Pairs, NEW hash \in Hashes, NEW execute \in BOOLEAN,
             Config!AddJob(pair, hash, execute)
      PROVE  Config!IInv' /\ UNCHANGED disk
  BY <1>1, ConfigAddJobInv DEF Config!AddJob
<1>2. ASSUME NEW forced \in BOOLEAN, Config!ExecuteUpdateJobs(forced)
      PROVE  Config!IInv' /\ UNCHANGED disk
  <2>1. /\ pc = "idle" /\ Config!Begin(forced) /\ disk # Broken
        /\ UNCHANGED <<disk, memory, pending, bucket, written>>
    BY <1>2 DEF Config!ExecuteUpdateJobs
  <2>2. /\ memory' \in Config!Configs /\ pending' \in Seq(Config!Jobs)
        /\ Len(pending') <= MaxJobs
        /\ Config!DistinctFiles' /\ Config!MemoryIsPending' /\ \A i \in DOMAIN pending' : Config!Fresh(pending'[i])
    BY <2>1 DEF Config!IInv, Config!TypeOK, Config!Jobs, Config!DistinctFiles,
          Config!MemoryIsPending, Config!PendingIsFresh, Config!AwaitsUpload
  <2> QED BY <2>1, <2>2, ConfigBeginInv
<1>3. CASE Config!BackUp \/ Config!Insert \/ Config!UploadFails
  BY <1>3, ConfigBackUpInv, ConfigInsertInv, ConfigUploadFailsInv DEF Config!BackUp,
        Config!Insert, Config!UploadFails, Config!UpdatedTogether
<1>4. CASE Config!WriteConfig
  BY <1>4, ConfigWriteConfigInv
<1>5. CASE Config!Rollback \/ Config!RollbackFails \/ Config!RolledBack
  BY <1>5, ConfigRollbackInv, ConfigRolledBackInv DEF Config!Rollback, Config!RollbackFails,
        Config!RolledBack, Config!UpdatedTogether
<1>6. CASE Config!NewProcess
  BY <1>6, ConfigNewProcessInv DEF Config!NewProcess, Config!UpdatedTogether
<1>7. CASE UNCHANGED Config!vars
  BY <1>7 DEF Config!vars, Config!IInv, Config!TypeOK,
        Config!ConfigIsDownloadable, Config!Named, Config!FailureRestores, Config!Remains,
        Config!InitialStays, Config!Uploaded, Config!DistinctFiles, Config!MemoryIsPending,
       Config!PendingIsFresh, Config!AwaitsUpload, Config!Fresh, Config!UploadedSoFar,
       Config!CanBeUndone, Config!InUpdate, Config!Intact, Config!Undone, Config!UpdatedTogether
<1>8. CASE Config!IsInterrupted
  BY <1>8, ConfigInterruptInv
<1>9. ~Config!Again
  BY DEF Config!Careful, Config!Again
<1> QED BY <1>1, <1>2, <1>3, <1>4, <1>5, <1>6, <1>7, <1>8, <1>9 DEF Config!Next,
              Config!UpdatedTogether

-----------------------------------------------------------------------------
(* Flashing.                                                               *)

LEMMA FlashOneIsFlashed ==
  ASSUME NEW S, NEW s \in Seq(S), s # <<>>
  PROVE  /\ Head(s) \in S /\ Tail(s) \in Seq(S)
         /\ Flash!Range(s) = {Head(s)} \cup Flash!Range(Tail(s))
<1>1. /\ Len(s) \in Nat \ {0} /\ DOMAIN s = 1 .. Len(s) /\ Head(s) = s[1] /\ Head(s) \in S
      /\ Tail(s) \in Seq(S) /\ DOMAIN Tail(s) = 1 .. Len(s) - 1
      /\ \A i \in 1 .. Len(s) - 1 : Tail(s)[i] = s[i + 1]
  OBVIOUS
<1>2. ASSUME NEW i \in DOMAIN s PROVE s[i] \in {Head(s)} \cup Flash!Range(Tail(s))
  <2>1. i = 1 \/ i - 1 \in 1 .. Len(s) - 1
    BY <1>1
  <2>2. CASE i = 1
    BY <1>1, <2>2
  <2>3. CASE i - 1 \in 1 .. Len(s) - 1
    <3>1. Tail(s)[i - 1] = s[i]
      BY <1>1, <2>3
    <3> QED BY <1>1, <2>3, <3>1 DEF Flash!Range
  <2> QED BY <2>1, <2>2, <2>3
<1>3. ASSUME NEW i \in DOMAIN Tail(s) PROVE Tail(s)[i] \in Flash!Range(s)
  BY <1>1 DEF Flash!Range
<1>4. Head(s) \in Flash!Range(s)
  BY <1>1 DEF Flash!Range
<1>5. Flash!Range(Tail(s)) = {Tail(s)[i] : i \in DOMAIN Tail(s)} /\ Flash!Range(s) = {s[i] : i \in DOMAIN s}
  BY DEF Flash!Range
<1> QED BY <1>1, <1>2, <1>3, <1>4, <1>5

LEMMA FlashNothingLeft == Flash!Range(<<>>) = {}
BY DEF Flash!Range

LEMMA FlashPartitionsAre == Flash!Range(Flash!Partitions) = {"bootloader", "system", "userdata", "vendor"}
BY DEF Flash!Range, Flash!Partitions

LEMMA FlashToFlashIsKnown == Flash!ToFlash \in Seq(Flash!Range(Flash!Partitions))
<1>1. \A p \in Flash!Range(Flash!Partitions) : Flash!IfWanted(p) \in Seq(Flash!Range(Flash!Partitions))
  BY DEF Flash!IfWanted
<1> QED BY <1>1, FlashPartitionsAre DEF Flash!ToFlash

LEMMA FlashInitInv == Flash!Init => Flash!IInv
BY DEF Flash!Init, Flash!IInv, Flash!TypeOK, Flash!Progress, Flash!InBody

(* What was to be flashed stays the same.                                  *)
LEMMA FlashGivenStays ==
  ASSUME UNCHANGED Flash!given
  PROVE  /\ Flash!ToFlash' = Flash!ToFlash /\ (Flash!Verified' <=> Flash!Verified)
<1>1. build' = build /\ wipe' = wipe
  BY DEF Flash!given
<1>2. \A p : Flash!IfWanted(p)' = Flash!IfWanted(p)
  BY <1>1 DEF Flash!IfWanted
<1>3. Flash!ToFlash' = Flash!ToFlash
  BY <1>1 DEF Flash!ToFlash, Flash!IfWanted
<1>4. Flash!Verified' <=> Flash!Verified
  BY <1>1 DEF Flash!Verified, Flash!VerifyBoard, Flash!FindAndVerifyPartitionsAndImages
<1> QED BY <1>3, <1>4

(* A step of one device leaves the others alone.                           *)
LEMMA FlashOthersStay ==
  ASSUME Flash!IInv, NEW d \in Phones, UNCHANGED Flash!given,
         \A e \in Phones \ {d} : /\ image'[e] = image[e] /\ pc'[e] = pc[e] /\ partitions'[e] = partitions[e]
                                  /\ (e \in broken' <=> e \in broken) /\ (e \in flashed' <=> e \in flashed),
         Flash!TypeOK', Flash!Progress(d)'
  PROVE  Flash!IInv'
<1> SUFFICES ASSUME NEW e \in Phones, e # d PROVE Flash!Progress(e)'
  BY DEF Flash!IInv
<1>1. Flash!Progress(e)
  BY DEF Flash!IInv
<1> QED BY <1>1, FlashGivenStays DEF Flash!Progress, Flash!InBody

(* A step outside of the flashing itself: only the place changes.          *)
LEMMA FlashPlaceInv ==
  ASSUME Flash!IInv, NEW d \in Phones, UNCHANGED <<Flash!given, image, partitions, broken>>,
         NEW from, NEW to, Flash!Goes(d, from, to),
         to \in {"wait", "oem off", "verify", "flash", "restart", "back", "oem on", "reboot", "boot", "end", "done"},
         to \in {"wait", "oem off", "verify"} => from \in {"enable", "wait", "oem off"},
         to \in {"flash", "restart", "back"} => from \in {"flash", "restart", "back"},
         to \in {"oem on", "reboot", "boot", "end", "done"} =>
           \/ from \in {"oem on", "reboot", "boot", "end"}
           \/ from = "flash" /\ partitions[d] = <<>>,
         from # "done",
         flashed' \in {flashed, flashed \cup {d}},
         flashed' # flashed => to = "done" /\ d \notin broken
  PROVE  Flash!IInv'
<1>1. Flash!TypeOK /\ Flash!Progress(d)
  BY DEF Flash!IInv
<1>2. /\ pc[d] = from /\ pc'[d] = to /\ Flash!TypeOK'
      /\ \A e \in Phones \ {d} : pc'[e] = pc[e]
  BY <1>1 DEF Flash!Goes, Flash!TypeOK
<1>3. Flash!Progress(d)'
  BY <1>1, <1>2, FlashGivenStays, FlashNothingLeft DEF Flash!Progress, Flash!InBody
<1> QED BY <1>2, <1>3, FlashOthersStay

LEMMA FlashFlashInv ==
  ASSUME Flash!IInv, NEW d \in Phones, Flash!Flash(d) PROVE Flash!IInv'
<1> DEFINE p == Head(partitions[d])
<1>1. /\ partitions[d] # <<>> /\ pc[d] = "flash" /\ pc' = [pc EXCEPT ![d] = IF Flash!Restarts(p) THEN "restart" ELSE "flash"]
      /\ image' = [image EXCEPT ![d] = @ \cup {p}]
      /\ partitions' = [partitions EXCEPT ![d] = Tail(partitions[d])]
      /\ UNCHANGED <<Flash!given, broken, flashed>>
  BY DEF Flash!Flash, Flash!Goes, Flash!NextPartition
<1>2. Flash!TypeOK /\ Flash!Progress(d) /\ partitions[d] \in Seq(Flash!Range(Flash!Partitions))
  BY DEF Flash!IInv, Flash!TypeOK
<1>3. p \in Flash!Range(Flash!Partitions) /\ Tail(partitions[d]) \in Seq(Flash!Range(Flash!Partitions))
      /\ Flash!Range(partitions[d]) = {p} \cup Flash!Range(Tail(partitions[d]))
  BY <1>1, <1>2, FlashOneIsFlashed
<1>4. Flash!TypeOK'
  BY <1>1, <1>2, <1>3 DEF Flash!TypeOK
<1>5. /\ pc'[d] \in {"restart", "flash"} /\ image'[d] = image[d] \cup {p}
      /\ partitions'[d] = Tail(partitions[d])
      /\ \A e \in Phones \ {d} : pc'[e] = pc[e] /\ image'[e] = image[e] /\ partitions'[e] = partitions[e]
  BY <1>1, <1>2 DEF Flash!TypeOK
<1>6. Flash!Progress(d)'
  BY <1>1, <1>2, <1>3, <1>5, FlashGivenStays DEF Flash!Progress, Flash!InBody
<1> QED BY <1>1, <1>4, <1>5, <1>6, FlashOthersStay

LEMMA FlashVerifyInv ==
  ASSUME Flash!IInv, NEW d \in Phones, Flash!Verify(d) PROVE Flash!IInv'
<1>1. Flash!TypeOK /\ Flash!Progress(d) /\ UNCHANGED <<Flash!given, image, flashed>> /\ pc[d] = "verify"
  BY DEF Flash!IInv, Flash!Verify, Flash!device, Flash!Goes
<1>2. CASE Flash!Verified
  <2>1. Flash!Goes(d, "verify", "flash") /\ partitions' = [partitions EXCEPT ![d] = Flash!ToFlash] /\ broken' = broken
    BY <1>2 DEF Flash!Verify, Flash!Verified
  <2>2. /\ Flash!TypeOK' /\ pc'[d] = "flash" /\ partitions'[d] = Flash!ToFlash
        /\ \A e \in Phones \ {d} : pc'[e] = pc[e] /\ partitions'[e] = partitions[e]
    BY <1>1, <2>1, FlashToFlashIsKnown DEF Flash!Goes, Flash!TypeOK
  <2>3. Flash!Progress(d)'
    BY <1>1, <1>2, <2>1, <2>2, FlashGivenStays DEF Flash!Progress, Flash!InBody
  <2> QED BY <1>1, <2>1, <2>2, <2>3, FlashOthersStay
<1>3. CASE ~Flash!Verified
  <2>1. Flash!Goes(d, "verify", "oem on") /\ partitions' = partitions /\ broken' = broken \cup {d}
    BY <1>3 DEF Flash!Verify, Flash!Verified
  <2>2. Flash!TypeOK' /\ pc'[d] = "oem on" /\ \A e \in Phones \ {d} : pc'[e] = pc[e]
    BY <1>1, <2>1 DEF Flash!Goes, Flash!TypeOK
  <2>3. Flash!Progress(d)'
    BY <1>1, <1>3, <2>1, <2>2, FlashGivenStays DEF Flash!Progress, Flash!InBody
  <2> QED BY <1>1, <2>1, <2>2, <2>3, FlashOthersStay
<1> QED BY <1>2, <1>3

(* A device whose flash has failed is never reported as flashed.           *)
LEMMA FlashFailureInv ==
  ASSUME Flash!IInv, NEW d \in Phones, UNCHANGED <<Flash!given, image, partitions, flashed>>,
         pc[d] # "done", NEW to \in {"oem on", "end"}, pc' = [pc EXCEPT ![d] = to],
         broken' = broken \cup {d}
  PROVE  Flash!IInv'
<1>1. Flash!TypeOK /\ Flash!Progress(d)
  BY DEF Flash!IInv
<1>2. Flash!TypeOK' /\ pc'[d] = to /\ \A e \in Phones \ {d} : pc'[e] = pc[e]
  BY <1>1 DEF Flash!TypeOK
<1>3. Flash!Progress(d)'
  BY <1>1, <1>2, FlashGivenStays DEF Flash!Progress, Flash!InBody
<1> QED BY <1>2, <1>3, FlashOthersStay

LEMMA FlashNextInv ==
  ASSUME Flash!FailingAreSteps, Flash!IInv, [Flash!Next]_(Flash!vars)
  PROVE  Flash!IInv'
<1> SUFFICES ASSUME NEW d \in Phones, Flash!Step(d) \/ Flash!DeviceStarts(d) PROVE Flash!IInv'
  <2>1. CASE UNCHANGED Flash!vars
    BY <2>1, FlashGivenStays DEF Flash!vars, Flash!given, Flash!device, Flash!IInv,
          Flash!TypeOK, Flash!Progress, Flash!InBody
  <2> QED BY <2>1 DEF Flash!Next
<1>1. CASE Flash!DeviceStarts(d)
  <2>1. UNCHANGED <<Flash!given, image, pc, partitions, broken, flashed>>
    BY <1>1 DEF Flash!DeviceStarts
  <2> QED BY <2>1, FlashGivenStays DEF Flash!IInv, Flash!TypeOK, Flash!Progress, Flash!InBody
<1>2. CASE Flash!EnableFastbootMode(d) \/ Flash!WaitForFastbootMode(d) \/ Flash!OffModeChargeOff(d)
  <2>1. PICK from \in {"enable", "wait", "oem off"}, to \in {"wait", "oem off", "verify"} :
          Flash!Goes(d, from, to) /\ UNCHANGED <<Flash!given, image, partitions, broken, flashed>>
    BY <1>2 DEF Flash!EnableFastbootMode, Flash!WaitForFastbootMode, Flash!OffModeChargeOff,
          Flash!device
  <2> QED BY <2>1, FlashPlaceInv
<1>3. CASE Flash!RebootBootloader(d) \/ Flash!BackInFastboot(d)
  <2>1. PICK from \in {"restart", "back"}, to \in {"back", "flash"} :
          Flash!Goes(d, from, to) /\ UNCHANGED <<Flash!given, image, partitions, broken, flashed>>
    BY <1>3 DEF Flash!RebootBootloader, Flash!BackInFastboot, Flash!device
  <2> QED BY <2>1, FlashPlaceInv
<1>4. CASE Flash!EndOfBody(d)
  <2>1. Flash!Goes(d, "flash", "oem on") /\ partitions[d] = <<>> /\ UNCHANGED <<Flash!given, image, partitions, broken, flashed>>
    BY <1>4 DEF Flash!EndOfBody, Flash!device
  <2> QED BY <2>1, FlashPlaceInv
<1>5. CASE Flash!OffModeChargeOn(d) \/ Flash!Reboot(d) \/ Flash!WaitUntilFullyBooted(d)
  <2>1. PICK from \in {"oem on", "reboot", "boot"}, to \in {"reboot", "boot", "end"} :
          Flash!Goes(d, from, to) /\ UNCHANGED <<Flash!given, image, partitions, broken, flashed>>
    BY <1>5 DEF Flash!OffModeChargeOn, Flash!Reboot, Flash!WaitUntilFullyBooted, Flash!device
  <2> QED BY <2>1, FlashPlaceInv
<1>6. CASE Flash!Report(d)
  <2>1. /\ Flash!Goes(d, "end", "done") /\ UNCHANGED <<Flash!given, image, partitions, broken>>
        /\ flashed' \in {flashed, flashed \cup {d}} /\ (flashed' # flashed => d \notin broken)
    BY <1>6 DEF Flash!Report, Flash!device
  <2> QED BY <2>1, FlashPlaceInv
<1>7. CASE Flash!FlashFails(d)
  <2>1. /\ UNCHANGED <<Flash!given, image, partitions, flashed>> /\ pc[d] = "flash"
        /\ pc' = [pc EXCEPT ![d] = "oem on"] /\ broken' = broken \cup {d}
    BY <1>7 DEF Flash!FlashFails, Flash!BreaksOff, Flash!Goes, Flash!device
  <2> QED BY <2>1, FlashFailureInv
<1>8. CASE Flash!StepFails(d)
  <2>1. /\ UNCHANGED <<Flash!given, image, partitions, flashed>> /\ pc[d] # "done"
        /\ pc' = [pc EXCEPT ![d] = "end"] /\ broken' = broken \cup {d}
    BY <1>8 DEF Flash!StepFails, Flash!device, Flash!FailingAreSteps
  <2> QED BY <2>1, FlashFailureInv
<1>9. CASE Flash!RestartFails(d)
  <2>1. /\ UNCHANGED <<Flash!given, image, partitions, flashed>> /\ pc[d] # "done"
        /\ pc' = [pc EXCEPT ![d] = "oem on"] /\ broken' = broken \cup {d}
    BY <1>9 DEF Flash!RestartFails
  <2> QED BY <2>1, FlashFailureInv
<1> QED BY <1>1, <1>2, <1>3, <1>4, <1>5, <1>6, <1>7, <1>8, <1>9, FlashVerifyInv,
              FlashFlashInv DEF Flash!Step

LEMMA FlashInvImplies == Flash!IInv => Flash!FlashedIsWhole /\ Flash!InvalidIsUntouched
<1> SUFFICES ASSUME Flash!IInv PROVE Flash!FlashedIsWhole /\ Flash!InvalidIsUntouched
  OBVIOUS
<1>1. Flash!FlashedIsWhole
  BY DEF Flash!IInv, Flash!TypeOK, Flash!Progress, Flash!FlashedIsWhole
<1>2. Flash!InvalidIsUntouched
  <2>1. ASSUME Flash!FindAndVerifyPartitionsAndImages, NEW p \in Flash!Range(Flash!Partitions)
        PROVE  Flash!Optional(p) \/ p \in build.images
    BY <2>1 DEF Flash!FindAndVerifyPartitionsAndImages, Flash!Range
  <2> QED BY <2>1 DEF Flash!IInv, Flash!Progress, Flash!Verified, Flash!InvalidIsUntouched
<1> QED BY <1>1, <1>2

-----------------------------------------------------------------------------
(* The forwarder.                                                          *)

LEMMA ForwardInitInv ==
  ASSUME Forward!Grouped, Forward!OwnHostPorts
  PROVE  Forward!Init => Forward!IInv
BY DEF Forward!Init, Forward!Idle, Forward!IInv, Forward!TypeOK, Forward!KnownBothWays,
      Forward!LiveIsKnown

ForwardCallOK ==
  /\ holder \in Processes \cup {NoOne}
  /\ call \in [name : {"idle", "init", "map", "unmap", "unmapAll", "killDevice", "killHost"},
                serial : Forward!Serials \cup {NoOne}, todo : SUBSET Forwards]
  /\ call.name \in {"idle", "killHost"} \/ call.serial \in Forward!Serials
  /\ raised \in {"nothing", "HostForwarderError", "DeviceError", "KeyError", "NameError"}

ForwardOthersOK ==
  /\ pidFile \in Processes \cup {NoOne} /\ instance \subseteq Processes
  /\ initialized \in [Processes -> SUBSET Forward!Serials]
  /\ running \subseteq installed /\ installed \subseteq Forward!Serials

LEMMA ForwardTypeParts ==
  Forward!TypeOK <=> /\ ForwardCallOK /\ ForwardOthersOK
             /\ toHost \in [Processes -> SUBSET Forwards]
             /\ toDevice \in [Processes -> SUBSET Forwards]
             /\ forwards \subseteq [pair : Forwards, maker : Processes \cup {NoOne}, lost : BOOLEAN]
BY DEF Forward!TypeOK, ForwardCallOK, ForwardOthersOK

LEMMA ForwardEndsOK ==
  ASSUME NEW how \in {"nothing", "HostForwarderError", "DeviceError", "KeyError", "NameError"},
         Forward!Ends(how)
  PROVE  ForwardCallOK'
BY DEF Forward!Ends, Forward!Idle, ForwardCallOK

LEMMA ForwardGoesOnOK ==
  ASSUME ForwardCallOK, NEW c, Forward!GoesOn(c),
         \/ c = [call EXCEPT !.name = "map"] /\ call.serial \in Forward!Serials
         \/ \E ahead \in SUBSET Forwards : c = [call EXCEPT !.todo = ahead]
  PROVE  ForwardCallOK'
BY DEF Forward!GoesOn, ForwardCallOK

(* Whoever stops forwards only, and keeps the maps, forgets no forward.    *)
LEMMA ForwardFewerInv ==
  ASSUME Forward!Grouped, Forward!OwnHostPorts, Forward!IInv, ForwardCallOK', ForwardOthersOK',
         UNCHANGED Forward!maps, forwards' \subseteq forwards
  PROVE  Forward!IInv'
<1>1. Forward!TypeOK'
  BY DEF Forward!IInv, Forward!TypeOK, Forward!maps, ForwardCallOK, ForwardOthersOK
<1> QED BY <1>1 DEF Forward!IInv, Forward!KnownBothWays, Forward!LiveIsKnown, Forward!maps

LEMMA ForwardCallsInv ==
  ASSUME Forward!Grouped, Forward!OwnHostPorts, Forward!IInv, NEW p \in Processes,
         Forward!Calls(p) PROVE Forward!IInv'
<1>1. PICK name \in {"init", "unmap", "unmapAll", "killDevice", "killHost"}, s \in Forward!Serials \cup {NoOne},
            ahead \in SUBSET Forwards : Forward!Begin(p, name, s, ahead) /\ (name = "killHost" \/ s \in Forward!Serials)
  <2>1. \A q \in Forwards : q[1] \in Forward!Serials
    BY DEF Forward!Serials
  <2>2. CASE \E t \in Forward!Serials : \E ahead \in SUBSET {q \in Forwards : q[1] = t} : Forward!Begin(p, "init", t, ahead)
    BY <2>2
  <2>3. CASE \E q \in Forwards : Forward!Begin(p, "unmap", q[1], {q})
    BY <2>1, <2>3
  <2>4. CASE \E t \in Forward!Serials, name \in {"unmapAll", "killDevice"} : Forward!Begin(p, name, t, {})
    BY <2>4
  <2>5. CASE Forward!Begin(p, "killHost", NoOne, {})
    BY <2>5
  <2> QED BY <2>2, <2>3, <2>4, <2>5 DEF Forward!Calls
<1>2. ForwardCallOK' /\ UNCHANGED <<pidFile, instance, initialized, Forward!maps, forwards, running, installed>>
  BY <1>1 DEF Forward!Begin, Forward!daemons, Forward!IInv, Forward!TypeOK, ForwardCallOK
<1>3. ForwardOthersOK'
  BY <1>2 DEF Forward!IInv, Forward!TypeOK, ForwardOthersOK
<1> QED BY <1>2, <1>3, ForwardFewerInv

LEMMA ForwardGetInstanceInv ==
  ASSUME Forward!Grouped, Forward!OwnHostPorts, Forward!IInv, NEW p \in Processes,
         Forward!GetInstanceLocked(p) PROVE Forward!IInv'
<1>1. UNCHANGED <<initialized, Forward!maps, running, installed>> /\ forwards' \subseteq forwards
  BY DEF Forward!GetInstanceLocked
<1>2. ForwardCallOK'
  <2>1. CASE UNCHANGED <<call, holder, raised>>
    BY <2>1 DEF Forward!IInv, Forward!TypeOK, ForwardCallOK
  <2>2. CASE Forward!Ends("HostForwarderError")
    BY <2>2, ForwardEndsOK
  <2> QED BY <2>1, <2>2 DEF Forward!GetInstanceLocked
<1>3. ForwardOthersOK'
  BY <1>1 DEF Forward!GetInstanceLocked, Forward!IInv, Forward!TypeOK, ForwardOthersOK,
        Forward!Grouped
<1> QED BY <1>1, <1>2, <1>3, ForwardFewerInv

LEMMA ForwardInitDeviceInv ==
  ASSUME Forward!Grouped, Forward!OwnHostPorts, Forward!IInv, NEW p \in Processes,
         Forward!InitDeviceLocked(p) PROVE Forward!IInv'
<1> DEFINE s == call.serial
<1>1. ForwardCallOK /\ ForwardOthersOK /\ s \in Forward!Serials /\ Forward!Lives /\ UNCHANGED Forward!maps
  BY DEF Forward!InitDeviceLocked, Forward!Has, Forward!IInv, Forward!TypeOK, ForwardCallOK,
        ForwardOthersOK
<1>2. CASE s \in initialized[p]
  <2>1. Forward!GoesOn([call EXCEPT !.name = "map"]) /\ UNCHANGED <<initialized, forwards, running, installed>>
    BY <1>2 DEF Forward!InitDeviceLocked, Forward!daemons
  <2> QED BY <1>1, <2>1, ForwardGoesOnOK, ForwardFewerInv DEF ForwardOthersOK, Forward!Lives
<1>3. CASE /\ forwards' = forwards \ Forward!Of(s) /\ running' = running \cup {s} /\ installed' = Forward!Pushed(s)
           /\ initialized' = [initialized EXCEPT ![p] = @ \cup {s}]
           /\ Forward!GoesOn([call EXCEPT !.name = "map"])
  <2>1. ForwardCallOK'
    BY <1>1, <1>3, ForwardGoesOnOK
  <2>2. ForwardOthersOK'
    BY <1>1, <1>3 DEF ForwardOthersOK, Forward!Lives, Forward!Pushed
  <2> QED BY <1>1, <1>3, <2>1, <2>2, ForwardFewerInv
<1>4. CASE /\ \E killed \in BOOLEAN :
                    /\ forwards' = Forward!Stopped(s, killed)
                    /\ running' = IF killed THEN running \ {s} ELSE running
           /\ installed' \in {installed, Forward!Pushed(s)}
           /\ Forward!Ends("DeviceError") /\ UNCHANGED initialized
  <2>1. forwards' \subseteq forwards
    BY <1>4 DEF Forward!Stopped
  <2>2. ForwardCallOK' 
    BY <1>4, ForwardEndsOK
  <2>3. ForwardOthersOK'
    BY <1>1, <1>4 DEF ForwardOthersOK, Forward!Lives, Forward!Pushed
  <2> QED BY <1>1, <2>1, <2>2, <2>3, ForwardFewerInv
<1> QED BY <1>2, <1>3, <1>4 DEF Forward!InitDeviceLocked

LEMMA ForwardKillOK ==
  ASSUME Forward!IInv, NEW p \in Processes, NEW s, NEW killed \in BOOLEAN,
         Forward!KillDeviceLocked(p, s, killed), Forward!Lives
  PROVE  ForwardOthersOK'
<1>1. /\ initialized' = [initialized EXCEPT ![p] = @ \ {s}]
      /\ running' \subseteq running /\ installed' = installed
  BY DEF Forward!KillDeviceLocked
<1> QED BY <1>1 DEF Forward!IInv, Forward!TypeOK, ForwardOthersOK, Forward!Lives

LEMMA ForwardStoppedIsFewer ==
  ASSUME NEW s, NEW killed \in BOOLEAN PROVE Forward!Stopped(s, killed) \subseteq forwards
BY DEF Forward!Stopped

(* A pair that is mapped takes the place of an entry whose forward is gone. *)
LEMMA ForwardMapSucceedsInv ==
  ASSUME Forward!Grouped, Forward!OwnHostPorts, Forward!IInv, NEW p \in Processes,
         NEW pair \in Forwards, Forward!MapSucceeds(p, pair), Forward!Lives
  PROVE  Forward!IInv'
<1> DEFINE onHost == {q \in toHost[p] : <<q[1], q[2]>> # <<pair[1], pair[2]>>} \cup {pair}
           onDevice == {q \in toDevice[p] : q[3] # pair[3]} \cup {pair}
<1>1. /\ toHost' = [toHost EXCEPT ![p] = onHost] /\ toDevice' = [toDevice EXCEPT ![p] = onDevice]
      /\ forwards' = forwards \cup {[pair |-> pair, maker |-> p, lost |-> FALSE]}
      /\ UNCHANGED <<initialized, running, installed>>
      /\ Forward!GoesOn([call EXCEPT !.todo = @ \ {pair}])
      /\ ~Forward!InUse(pair)
  BY DEF Forward!MapSucceeds
<1>2. /\ toHost \in [Processes -> SUBSET Forwards]
      /\ toDevice \in [Processes -> SUBSET Forwards]
      /\ ForwardCallOK /\ ForwardOthersOK
  BY DEF Forward!IInv, Forward!TypeOK, ForwardCallOK, ForwardOthersOK
<1>3. onHost \subseteq Forwards /\ onDevice \subseteq Forwards
  BY <1>2
<1>4. /\ \A x \in Processes : toHost'[x] = IF x = p THEN onHost ELSE toHost[x]
      /\ \A x \in Processes : toDevice'[x] = IF x = p THEN onDevice ELSE toDevice[x]
      /\ toHost' \in [Processes -> SUBSET Forwards]
      /\ toDevice' \in [Processes -> SUBSET Forwards]
  <2> HIDE DEF onHost, onDevice
  <2> QED BY <1>1, <1>2, <1>3
<1>5. ForwardCallOK' /\ ForwardOthersOK'
  <2>1. call.todo \ {pair} \in SUBSET Forwards
    BY <1>2 DEF ForwardCallOK
  <2>2. ForwardCallOK'
    BY <1>1, <1>2, <2>1, ForwardGoesOnOK
  <2> QED BY <1>1, <1>2, <2>2 DEF ForwardOthersOK, Forward!Lives
<1>6. forwards' \subseteq [pair : Forwards, maker : Processes \cup {NoOne}, lost : BOOLEAN]
  <2>1. [pair |-> pair, maker |-> p, lost |-> FALSE]
          \in [pair : Forwards, maker : Processes \cup {NoOne}, lost : BOOLEAN]
    OBVIOUS
  <2> QED BY <1>1, <2>1 DEF Forward!IInv, Forward!TypeOK
<1>7. Forward!TypeOK'
  BY <1>4, <1>5, <1>6 DEF Forward!TypeOK, ForwardCallOK, ForwardOthersOK
<1>8. onHost \subseteq onDevice
  <2>1. toHost[p] \subseteq toDevice[p] /\ toHost[p] \subseteq Forwards
    BY <1>2 DEF Forward!IInv, Forward!KnownBothWays
  <2>2. \A q \in toHost[p] : q[3] = pair[3] => q = pair
    BY <2>1 DEF Forward!Grouped, Forward!OwnHostPorts
  <2> QED BY <2>1, <2>2
<1>9. Forward!KnownBothWays'
  BY <1>4, <1>8 DEF Forward!IInv, Forward!KnownBothWays
<1>10. ASSUME NEW f \in forwards', f.maker # NoOne, ~f.lost PROVE f.pair \in toHost'[f.maker]
  <2>1. CASE f \in forwards
    <3>1. f.pair \in toHost[f.maker] /\ f.maker \in Processes
      BY <1>10, <2>1 DEF Forward!IInv, Forward!LiveIsKnown, Forward!TypeOK
    <3>2. ~(f.pair[1] = pair[1] /\ f.pair[2] = pair[2])
      BY <1>1, <2>1 DEF Forward!InUse
    <3> QED BY <1>4, <3>1, <3>2
  <2>2. CASE f = [pair |-> pair, maker |-> p, lost |-> FALSE]
    BY <1>4, <2>2
  <2> QED BY <1>1, <2>1, <2>2
<1> QED BY <1>7, <1>9, <1>10 DEF Forward!IInv, Forward!LiveIsKnown

LEMMA ForwardAnswerLostInv ==
  ASSUME Forward!Grouped, Forward!OwnHostPorts, Forward!IInv, NEW p \in Processes,
         NEW pair \in Forwards, Forward!AnswerLost(p, pair), Forward!Lives
  PROVE  Forward!IInv'
<1>1. /\ forwards' \subseteq forwards \cup {[pair |-> pair, maker |-> p, lost |-> TRUE]}
      /\ Forward!Ends("HostForwarderError")
      /\ UNCHANGED <<initialized, Forward!maps, running, installed>>
  BY DEF Forward!AnswerLost
<1>2. ForwardCallOK' /\ ForwardOthersOK'
  BY <1>1, ForwardEndsOK DEF Forward!IInv, Forward!TypeOK, ForwardOthersOK, Forward!Lives
<1>3. Forward!TypeOK'
  <2>1. [pair |-> pair, maker |-> p, lost |-> TRUE]
          \in [pair : Forwards, maker : Processes \cup {NoOne}, lost : BOOLEAN]
    OBVIOUS
  <2>2. forwards' \subseteq [pair : Forwards, maker : Processes \cup {NoOne}, lost : BOOLEAN]
    BY <1>1, <2>1 DEF Forward!IInv, Forward!TypeOK
  <2> QED BY <1>1, <1>2, <2>2 DEF Forward!IInv, Forward!TypeOK, ForwardCallOK, ForwardOthersOK, Forward!maps
<1> QED BY <1>1, <1>3 DEF Forward!IInv, Forward!KnownBothWays, Forward!LiveIsKnown, Forward!maps

LEMMA ForwardMapInv ==
  ASSUME Forward!Grouped, Forward!OwnHostPorts, Forward!IInv, NEW p \in Processes,
         Forward!MapPair(p) \/ Forward!MapReturns(p) PROVE Forward!IInv'
<1>1. CASE Forward!MapReturns(p)
  <2>1. Forward!Ends("nothing") /\ Forward!Lives /\ UNCHANGED <<initialized, Forward!maps, forwards, running, installed>>
    BY <1>1 DEF Forward!MapReturns, Forward!daemons
  <2> QED BY <2>1, ForwardEndsOK, ForwardFewerInv DEF Forward!IInv, Forward!TypeOK,
                ForwardOthersOK, Forward!Lives
<1>2. CASE Forward!MapPair(p)
  <2>1. PICK pair \in call.todo : Forward!MapSucceeds(p, pair) \/ Forward!MapFails(p, pair[1]) \/ Forward!AnswerLost(p, pair)
    BY <1>2 DEF Forward!MapPair
  <2>2. pair \in Forwards /\ Forward!Lives
    BY <1>2, <2>1 DEF Forward!MapPair, Forward!IInv, Forward!TypeOK
  <2>3. CASE Forward!MapFails(p, pair[1])
    <3>1. PICK killed \in BOOLEAN : /\ Forward!KillDeviceLocked(p, pair[1], killed) /\ forwards' = Forward!Stopped(pair[1], killed)
                                    /\ Forward!Ends(IF killed THEN "HostForwarderError" ELSE "NameError")
      BY <2>3 DEF Forward!MapFails
    <3>2. UNCHANGED Forward!maps
      BY <2>3 DEF Forward!MapFails
    <3>3. ForwardCallOK'
      BY <3>1, ForwardEndsOK
    <3> QED BY <2>2, <3>1, <3>2, <3>3, ForwardKillOK, ForwardStoppedIsFewer, ForwardFewerInv
  <2> QED BY <2>1, <2>2, <2>3, ForwardMapSucceedsInv, ForwardAnswerLostInv
<1> QED BY <1>1, <1>2

(* What is taken out of the maps together with its forwards.               *)
LEMMA ForwardForgottenInv ==
  ASSUME Forward!Grouped, Forward!OwnHostPorts, Forward!IInv, ForwardCallOK', ForwardOthersOK',
         NEW p \in Processes, NEW entries \in SUBSET toHost[p],
         toHost' = [toHost EXCEPT ![p] = @ \ entries],
         toDevice' = [toDevice EXCEPT ![p] = {q \in @ : q[3] \notin Forward!HostPorts(entries)}],
         \A f \in forwards' :
           \/ f \in forwards /\ f.pair \notin entries
           \/ f.lost /\ f \in [pair : Forwards, maker : Processes \cup {NoOne}, lost : BOOLEAN]
  PROVE  Forward!IInv'
<1> DEFINE onDevice == {q \in toDevice[p] : q[3] \notin Forward!HostPorts(entries)}
<1>1. /\ toHost \in [Processes -> SUBSET Forwards]
      /\ toDevice \in [Processes -> SUBSET Forwards]
      /\ forwards \subseteq [pair : Forwards, maker : Processes \cup {NoOne}, lost : BOOLEAN]
  BY DEF Forward!IInv, Forward!TypeOK
<1>2. /\ \A x \in Processes : toHost'[x] = IF x = p THEN toHost[p] \ entries ELSE toHost[x]
      /\ \A x \in Processes : toDevice'[x] = IF x = p THEN onDevice ELSE toDevice[x]
      /\ toHost' \in [Processes -> SUBSET Forwards]
      /\ toDevice' \in [Processes -> SUBSET Forwards]
  <2>1. onDevice \subseteq Forwards
    BY <1>1
  <2> HIDE DEF onDevice
  <2>2. toDevice' = [toDevice EXCEPT ![p] = onDevice]
    BY DEF onDevice
  <2> QED BY <1>1, <2>1, <2>2
<1>3. Forward!TypeOK'
  <2>1. forwards' \subseteq [pair : Forwards, maker : Processes \cup {NoOne}, lost : BOOLEAN]
    BY <1>1
  <2> QED BY <1>2, <2>1 DEF Forward!TypeOK, ForwardCallOK, ForwardOthersOK
<1>4. toHost[p] \ entries \subseteq onDevice
  <2>1. ASSUME NEW q \in toHost[p], q \notin entries PROVE q \in onDevice
    <3>1. q \in toDevice[p] /\ q \in Forwards /\ entries \subseteq Forwards
      BY <1>1, <2>1 DEF Forward!IInv, Forward!KnownBothWays
    <3>2. \A e \in entries : e[3] # q[3]
      BY <2>1, <3>1 DEF Forward!Grouped, Forward!OwnHostPorts
    <3> QED BY <3>1, <3>2 DEF Forward!HostPorts
  <2> QED BY <2>1
<1>5. Forward!KnownBothWays'
  <2> HIDE DEF onDevice
  <2> QED BY <1>2, <1>4 DEF Forward!IInv, Forward!KnownBothWays
<1>6. Forward!LiveIsKnown'
  <2>1. ASSUME NEW f \in forwards', f.maker # NoOne, ~f.lost PROVE f.pair \in toHost'[f.maker]
    <3>1. f \in forwards /\ f.pair \notin entries
      BY <2>1
    <3>2. f.pair \in toHost[f.maker] /\ f.maker \in Processes
      BY <1>1, <2>1, <3>1 DEF Forward!IInv, Forward!LiveIsKnown
    <3> QED BY <1>2, <3>1, <3>2
  <2> QED BY <2>1 DEF Forward!LiveIsKnown
<1> QED BY <1>3, <1>5, <1>6 DEF Forward!IInv

LEMMA ForwardUnmapInv ==
  ASSUME Forward!Grouped, Forward!OwnHostPorts, Forward!IInv, NEW p \in Processes,
         Forward!UnmapDevicePortLocked(p) PROVE Forward!IInv'
<1>1. Forward!Lives /\ UNCHANGED <<initialized, running, installed>>
  BY DEF Forward!UnmapDevicePortLocked
<1>2. PICK wanted \in call.todo :
     LET entry == {q \in Forward!Known(p, wanted[1]) : q[2] = wanted[2]}
         ports == {q[3] : q \in entry} IN
       /\ toHost' = [toHost EXCEPT ![p] = @ \ entry]
       /\ toDevice' = [toDevice EXCEPT ![p] = {q \in @ : q[3] \notin ports}]
       /\ \/ /\ \A h \in ports : \E q \in toDevice[p] : q[3] = h
             /\ \E gone \in BOOLEAN, how \in {"nothing", "HostForwarderError"} :
                  forwards' = Forward!Released(gone, entry) /\ Forward!Ends(how)
          \/ /\ \E h \in ports : \A q \in toDevice[p] : q[3] # h
             /\ Forward!Ends("KeyError") /\ UNCHANGED forwards
  BY DEF Forward!UnmapDevicePortLocked
<1> DEFINE entry == {q \in Forward!Known(p, wanted[1]) : q[2] = wanted[2]}
<1>3. entry \subseteq toHost[p] /\ toHost[p] \subseteq toDevice[p]
  BY DEF Forward!Known, Forward!IInv, Forward!KnownBothWays
<1> HIDE DEF entry
<1>4. Forward!HostPorts(entry) = {q[3] : q \in entry}
  BY DEF Forward!HostPorts
<1>5. /\ toHost' = [toHost EXCEPT ![p] = @ \ entry]
      /\ toDevice' = [toDevice EXCEPT ![p] = {q \in @ : q[3] \notin Forward!HostPorts(entry)}]
  BY <1>2, <1>4 DEF entry
<1>6. \A h \in Forward!HostPorts(entry) : \E q \in toDevice[p] : q[3] = h
  BY <1>3, <1>4
<1>7. PICK gone \in BOOLEAN, how \in {"nothing", "HostForwarderError"} :
         forwards' = Forward!Released(gone, entry) /\ Forward!Ends(how)
  BY <1>2, <1>4, <1>6 DEF entry
<1>8. ForwardCallOK' /\ ForwardOthersOK'
  BY <1>1, <1>7, ForwardEndsOK DEF Forward!IInv, Forward!TypeOK, ForwardOthersOK, Forward!Lives
<1>9. \A f \in forwards' :
         \/ f \in forwards /\ f.pair \notin entry
         \/ f.lost /\ f \in [pair : Forwards, maker : Processes \cup {NoOne}, lost : BOOLEAN]
  <2>1. forwards \subseteq [pair : Forwards, maker : Processes \cup {NoOne}, lost : BOOLEAN]
    BY DEF Forward!IInv, Forward!TypeOK
  <2>2. \A g \in forwards :
           /\ [g EXCEPT !.lost = TRUE] \in [pair : Forwards, maker : Processes \cup {NoOne}, lost : BOOLEAN]
           /\ [g EXCEPT !.lost = TRUE].lost
    BY <2>1
  <2> QED BY <1>7, <2>2 DEF Forward!Released
<1> QED BY <1>3, <1>5, <1>8, <1>9, ForwardForgottenInv

LEMMA ForwardUnmapAllInv ==
  ASSUME Forward!Grouped, Forward!OwnHostPorts, Forward!IInv, NEW p \in Processes,
         Forward!UnmapAllDevicePorts(p) PROVE Forward!IInv'
<1> DEFINE s == call.serial
           all == Forward!Known(p, s)
<1>1. Forward!Lives /\ installed' = installed
  BY DEF Forward!UnmapAllDevicePorts
<1>2. all \subseteq toHost[p] /\ toHost[p] \subseteq toDevice[p] /\ toHost[p] \subseteq Forwards
  BY DEF Forward!Known, Forward!IInv, Forward!KnownBothWays, Forward!TypeOK
<1>3. CASE Forward!UnmapFails(p, s)
  <2>1. Forward!Ends("HostForwarderError") /\ UNCHANGED <<Forward!maps, forwards, running, initialized>>
    BY <1>3 DEF Forward!UnmapFails
  <2> QED BY <1>1, <2>1, ForwardEndsOK, ForwardFewerInv DEF Forward!IInv, Forward!TypeOK,
                ForwardOthersOK, Forward!Lives
<1>4. ASSUME NEW deleted \in SUBSET all, NEW x \in deleted PROVE ~Forward!Stumbles(p, deleted, x)
  <2>1. x \in toDevice[p] /\ x \in Forwards /\ deleted \subseteq Forwards
    BY <1>2
  <2>2. x[3] \in Forward!HostPorts(toDevice[p])
    BY <2>1 DEF Forward!HostPorts
  <2>3. x[3] \notin Forward!HostPorts(deleted \ {x})
    BY <2>1 DEF Forward!HostPorts, Forward!Grouped, Forward!OwnHostPorts
  <2> QED BY <2>2, <2>3 DEF Forward!Stumbles
<1>5. ASSUME Forward!Delete(p, all), forwards' = forwards \ Forward!Of(s),
             NEW killed \in BOOLEAN, Forward!KillDeviceLocked(p, s, killed),
             Forward!Ends(IF killed THEN "nothing" ELSE "DeviceError")
      PROVE  Forward!IInv'
  <2>1. /\ toHost' = [toHost EXCEPT ![p] = @ \ all]
        /\ toDevice' = [toDevice EXCEPT ![p] = {q \in @ : q[3] \notin Forward!HostPorts(all)}]
    BY <1>5 DEF Forward!Delete
  <2>2. ForwardCallOK' /\ ForwardOthersOK'
    BY <1>1, <1>5, ForwardEndsOK, ForwardKillOK
  <2>3. \A f \in forwards' : f \in forwards /\ f.pair \notin all
    BY <1>5 DEF Forward!Of, Forward!Known
  <2> HIDE DEF all
  <2> QED BY <1>2, <2>1, <2>2, <2>3, ForwardForgottenInv
<1> QED BY <1>3, <1>4, <1>5 DEF Forward!UnmapAllDevicePorts

LEMMA ForwardKillInv ==
  ASSUME Forward!Grouped, Forward!OwnHostPorts, Forward!IInv, NEW p \in Processes,
         Forward!KillDevice(p) \/ Forward!KillHost(p) PROVE Forward!IInv'
<1>1. CASE Forward!KillDevice(p)
  <2>1. PICK killed \in BOOLEAN :
           /\ Forward!KillDeviceLocked(p, call.serial, killed)
           /\ forwards' = Forward!Stopped(call.serial, killed)
           /\ Forward!Ends(IF killed THEN "nothing" ELSE "DeviceError")
    BY <1>1 DEF Forward!KillDevice
  <2>2. Forward!Lives /\ UNCHANGED Forward!maps
    BY <1>1 DEF Forward!KillDevice
  <2>3. ForwardCallOK'
    BY <2>1, ForwardEndsOK
  <2> QED BY <2>1, <2>2, <2>3, ForwardKillOK, ForwardStoppedIsFewer, ForwardFewerInv
<1>2. CASE Forward!KillHost(p)
  <2>1. Forward!Lives /\ UNCHANGED <<initialized, Forward!maps, running, installed>> /\ forwards' \subseteq forwards
    BY <1>2 DEF Forward!KillHost
  <2>2. ForwardCallOK'
    BY <1>2, ForwardEndsOK DEF Forward!KillHost
  <2> QED BY <2>1, <2>2, ForwardFewerInv DEF Forward!IInv, Forward!TypeOK, ForwardOthersOK,
                Forward!Lives
<1> QED BY <1>1, <1>2

(* What a process has forwarded stays when it dies, for nobody.            *)
LEMMA ForwardDiesInv ==
  ASSUME Forward!Grouped, Forward!OwnHostPorts, Forward!IInv, NEW p \in Processes,
         Forward!Dies(p) PROVE Forward!IInv'
<1>1. /\ toHost' = [toHost EXCEPT ![p] = {}] /\ toDevice' = [toDevice EXCEPT ![p] = {}]
      /\ forwards' = {[f EXCEPT !.maker = IF @ = p THEN NoOne ELSE @] : f \in forwards}
      /\ instance' = instance \ {p} /\ initialized' = [initialized EXCEPT ![p] = {}]
      /\ UNCHANGED <<pidFile, running, installed>>
  BY DEF Forward!Dies
<1>2. Forward!TypeOK
  BY DEF Forward!IInv
<1>3. ForwardCallOK'
  <2>1. CASE holder = p
    BY <2>1, ForwardEndsOK DEF Forward!Dies
  <2>2. CASE holder # p
    BY <2>2, <1>2 DEF Forward!Dies, Forward!TypeOK, ForwardCallOK
  <2> QED BY <2>1, <2>2
<1>4. ForwardOthersOK'
  BY <1>1, <1>2 DEF Forward!TypeOK, ForwardOthersOK
<1>5. /\ \A x \in Processes : toHost'[x] = IF x = p THEN {} ELSE toHost[x]
      /\ \A x \in Processes : toDevice'[x] = IF x = p THEN {} ELSE toDevice[x]
      /\ toHost' \in [Processes -> SUBSET Forwards]
      /\ toDevice' \in [Processes -> SUBSET Forwards]
  BY <1>1, <1>2 DEF Forward!TypeOK
<1>6. \A g \in forwards' : \E f \in forwards :
         /\ g.pair = f.pair /\ g.maker = IF f.maker = p THEN NoOne ELSE f.maker
         /\ g.lost = f.lost
         /\ g \in [pair : Forwards, maker : Processes \cup {NoOne}, lost : BOOLEAN]
  BY <1>1, <1>2 DEF Forward!TypeOK
<1>7. Forward!TypeOK'
  BY <1>3, <1>4, <1>5, <1>6 DEF Forward!TypeOK, ForwardCallOK, ForwardOthersOK
<1>8. Forward!KnownBothWays'
  BY <1>5 DEF Forward!IInv, Forward!KnownBothWays
<1>9. Forward!LiveIsKnown'
  <2>1. ASSUME NEW g \in forwards', g.maker # NoOne, ~g.lost PROVE g.pair \in toHost'[g.maker]
    <3>1. PICK f \in forwards : g.pair = f.pair /\ f.maker # p /\ g.maker = f.maker /\ ~f.lost
      BY <1>6, <2>1
    <3>2. f.pair \in toHost[f.maker] /\ f.maker \in Processes
      BY <1>2, <2>1, <3>1 DEF Forward!IInv, Forward!LiveIsKnown, Forward!TypeOK
    <3> QED BY <1>5, <3>1, <3>2
  <2> QED BY <2>1 DEF Forward!LiveIsKnown
<1> QED BY <1>7, <1>8, <1>9 DEF Forward!IInv

LEMMA ForwardNextInv ==
  ASSUME Forward!Grouped, Forward!OwnHostPorts, Forward!IInv, [Forward!Next]_(Forward!vars)
  PROVE  Forward!IInv'
<1>1. CASE UNCHANGED Forward!vars
  BY <1>1 DEF Forward!vars, Forward!maps, Forward!daemons, Forward!IInv, Forward!TypeOK,
        Forward!KnownBothWays, Forward!LiveIsKnown
<1>2. ASSUME NEW p \in Processes,
             \/ Forward!Calls(p) \/ Forward!GetInstanceLocked(p) \/ Forward!InitDeviceLocked(p)
             \/ Forward!MapPair(p) \/ Forward!MapReturns(p) \/ Forward!UnmapDevicePortLocked(p)
             \/ Forward!UnmapAllDevicePorts(p) \/ Forward!KillDevice(p) \/ Forward!KillHost(p) \/ Forward!Dies(p)
      PROVE  Forward!IInv'
  BY <1>2, ForwardCallsInv, ForwardGetInstanceInv, ForwardInitDeviceInv, ForwardMapInv,
        ForwardUnmapInv, ForwardUnmapAllInv, ForwardKillInv, ForwardDiesInv
<1> QED BY <1>1, <1>2 DEF Forward!Next

(* Only a call about its port loses a forward.                             *)
LEMMA ForwardLostIsAsked ==
  ASSUME Forward!Grouped, Forward!IInv, [Forward!Next]_(Forward!vars)
  PROVE  Forward!LostIsAskedFor
<1>a. CASE forwards' \subseteq forwards
  BY <1>a DEF Forward!LostIsAskedFor
<1>1. CASE UNCHANGED Forward!vars
  BY <1>1, <1>a DEF Forward!vars, Forward!daemons
<1> SUFFICES ASSUME NEW p \in Processes,
             \/ Forward!Calls(p) \/ Forward!GetInstanceLocked(p) \/ Forward!InitDeviceLocked(p)
             \/ Forward!MapPair(p) \/ Forward!MapReturns(p) \/ Forward!UnmapDevicePortLocked(p)
             \/ Forward!UnmapAllDevicePorts(p) \/ Forward!KillDevice(p) \/ Forward!KillHost(p) \/ Forward!Dies(p)
             PROVE  Forward!LostIsAskedFor
  BY <1>1 DEF Forward!Next
<1>2. CASE Forward!Calls(p)
  BY <1>2, <1>a DEF Forward!Calls, Forward!Begin, Forward!daemons
<1>3. CASE \/ Forward!GetInstanceLocked(p) \/ Forward!MapReturns(p) \/ Forward!KillDevice(p)
           \/ Forward!KillHost(p)
  BY <1>3, <1>a DEF Forward!GetInstanceLocked, Forward!MapReturns, Forward!KillDevice,
        Forward!KillHost, Forward!daemons, Forward!Stopped
<1>4. CASE Forward!InitDeviceLocked(p)
  BY <1>4, <1>a DEF Forward!InitDeviceLocked, Forward!daemons, Forward!Stopped
<1>5. CASE Forward!UnmapAllDevicePorts(p)
  BY <1>5, <1>a DEF Forward!UnmapAllDevicePorts, Forward!UnmapFails
<1>6. CASE Forward!MapPair(p)
  <2>1. PICK pair \in call.todo : Forward!MapSucceeds(p, pair) \/ Forward!MapFails(p, pair[1]) \/ Forward!AnswerLost(p, pair)
    BY <1>6 DEF Forward!MapPair
  <2>2. CASE Forward!MapSucceeds(p, pair)
    BY <2>2 DEF Forward!MapSucceeds, Forward!LostIsAskedFor
  <2>3. CASE Forward!MapFails(p, pair[1])
    BY <2>3, <1>a DEF Forward!MapFails, Forward!Stopped
  <2>4. CASE Forward!AnswerLost(p, pair)
    <3>1. forwards' \subseteq forwards \cup {[pair |-> pair, maker |-> p, lost |-> TRUE]}
      BY <2>4 DEF Forward!AnswerLost
    <3>2. call.name = "map" /\ raised' = "HostForwarderError"
      BY <1>6, <2>4 DEF Forward!MapPair, Forward!Has, Forward!AnswerLost, Forward!Ends
    <3> QED BY <3>1, <3>2 DEF Forward!LostIsAskedFor
  <2> QED BY <2>1, <2>2, <2>3, <2>4
<1>7. CASE Forward!UnmapDevicePortLocked(p)
  <2>1. PICK wanted \in call.todo : \A f \in forwards' :
           f \in forwards \/ (f.pair[1] = wanted[1] /\ f.pair[2] = wanted[2])
    <3>1. forwards \subseteq [pair : Forwards, maker : Processes \cup {NoOne}, lost : BOOLEAN]
      BY DEF Forward!IInv, Forward!TypeOK
    <3>2. \A g \in forwards : [g EXCEPT !.lost = TRUE].pair = g.pair
      BY <3>1
    <3>3. PICK wanted \in call.todo :
             LET entry == {q \in Forward!Known(p, wanted[1]) : q[2] = wanted[2]}
             IN  (\E gone \in BOOLEAN : forwards' = Forward!Released(gone, entry)) \/ UNCHANGED forwards
      BY <1>7 DEF Forward!UnmapDevicePortLocked
    <3> DEFINE entry == {q \in Forward!Known(p, wanted[1]) : q[2] = wanted[2]}
    <3>4. ASSUME NEW f \in forwards', f \notin forwards
          PROVE  f.pair[1] = wanted[1] /\ f.pair[2] = wanted[2]
      <4>1. PICK gone \in BOOLEAN : forwards' = Forward!Released(gone, entry)
        BY <3>3, <3>4
      <4>2. PICK g \in forwards : g.pair \in entry /\ f = [g EXCEPT !.lost = TRUE]
        BY <3>4, <4>1 DEF Forward!Released
      <4>3. f.pair \in entry
        BY <3>2, <4>2
      <4> QED BY <4>3 DEF Forward!Known
    <3> QED BY <3>4
  <2>2. call.name = "unmap"
    BY <1>7 DEF Forward!UnmapDevicePortLocked, Forward!Has
  <2> QED BY <2>1, <2>2 DEF Forward!LostIsAskedFor
<1>8. CASE Forward!Dies(p)
  <2>1. forwards \subseteq [pair : Forwards, maker : Processes \cup {NoOne}, lost : BOOLEAN]
    BY DEF Forward!IInv, Forward!TypeOK
  <2>2. \A f \in forwards' : \E g \in forwards : g.pair = f.pair /\ g.lost = f.lost
    BY <1>8, <2>1 DEF Forward!Dies
  <2> QED BY <2>2 DEF Forward!LostIsAskedFor
<1> QED BY <1>2, <1>3, <1>4, <1>5, <1>6, <1>7, <1>8

-----------------------------------------------------------------------------
(* Commands of a device.                                                   *)

(* Every try adds the same number of runs, and the last one comes to the   *)
(* bound.                                                                  *)
LEMMA ShellSpentGrows ==
  ASSUME Shell!TriesAreMade, NEW t \in 1 .. CallTries
  PROVE  /\ Shell!Spent(t - 1) \in Nat /\ Shell!Spent(t) = Shell!Spent(t - 1) + 2 * AdbTries
         /\ Shell!Spent(t) <= CallTries * 2 * AdbTries
<1>1. /\ t - 1 \in Nat /\ CallTries - t \in Nat /\ 2 * AdbTries \in Nat
      /\ t \in Int /\ CallTries \in Int /\ AdbTries \in Int
  BY DEF Shell!TriesAreMade
<1> DEFINE K == 2 * AdbTries
<1>2. \A a, b \in Nat : a * b \in Nat
  OBVIOUS
<1>3. \A k \in Int : t * k = (t - 1) * k + k /\ (CallTries - t) * k = CallTries * k - t * k
  BY <1>1
<1>4. CallTries * 2 * AdbTries = CallTries * K
  BY <1>1
<1>5. (t - 1) * K \in Nat /\ (CallTries - t) * K \in Nat /\ K \in Int
  BY <1>1, <1>2
<1>6. t * K = (t - 1) * K + K /\ (CallTries - t) * K = CallTries * K - t * K
  BY <1>3, <1>5
<1>7. (t - 1) * K \in Int /\ t * K \in Int /\ CallTries * K \in Int
  BY <1>1, <1>5
<1> QED BY <1>4, <1>5, <1>6, <1>7 DEF Shell!Spent

LEMMA ShellBoundIsNatural == ASSUME Shell!TriesAreMade PROVE CallTries * 2 * AdbTries \in Nat
<1>1. \A a, b \in Nat : a * b \in Nat
  OBVIOUS
<1> QED BY <1>1 DEF Shell!TriesAreMade

LEMMA ShellInitInv == ASSUME Shell!TriesAreMade, Shell!Init PROVE Shell!IInv
<1>1. Shell!TypeOK
  <2>1. 0 \in 0 .. AdbTries /\ 0 \in 0 .. CallTries /\ 0 \in Nat
    BY DEF Shell!TriesAreMade
  <2> QED BY <2>1 DEF Shell!Init, Shell!TypeOK
<1>2. Shell!RunsAreBounded
  BY ShellBoundIsNatural DEF Shell!Init, Shell!RunsAreBounded
<1>3. Shell!HeldWhileRunning /\ Shell!RunsSoFar /\ Shell!ReadHasRun /\ Shell!CheckedIsWhole /\ Shell!TempsHaveOwners
  BY DEF Shell!Init, Shell!HeldWhileRunning, Shell!RunsSoFar, Shell!ReadHasRun,
        Shell!CheckedIsWhole, Shell!Ended, Shell!TempsHaveOwners
<1> QED BY <1>1, <1>2, <1>3 DEF Shell!IInv

(* What is needed of the counters after a step.                            *)
ShellCounted == attempt \in 1 .. CallTries /\ runs \in Nat /\ runs <= Shell!Spent(attempt)

LEMMA ShellCountedIsBounded ==
  ASSUME Shell!TriesAreMade, ShellCounted PROVE Shell!RunsAreBounded
BY ShellSpentGrows DEF ShellCounted, Shell!RunsAreBounded, Shell!TriesAreMade

LEMMA ShellSoFarIsCounted ==
  ASSUME Shell!TriesAreMade, Shell!IInv, pc # "idle"
  PROVE  ShellCounted /\ (pc = "shell" => runs + 1 <= Shell!Spent(attempt))
<1>1. attempt \in 1 .. CallTries /\ runs \in Nat /\ adbTry \in 0 .. AdbTries /\ AdbTries \in Nat /\ largeMode \in BOOLEAN
  BY DEF Shell!IInv, Shell!TypeOK, Shell!RunsSoFar, Shell!TriesAreMade
<1>2. Shell!Spent(attempt - 1) \in Nat /\ Shell!Spent(attempt) = Shell!Spent(attempt - 1) + 2 * AdbTries /\ Shell!Spent(attempt) \in Nat
  BY <1>1, ShellSpentGrows DEF Shell!TriesAreMade
<1>3. (IF largeMode THEN AdbTries ELSE 0) <= AdbTries /\ (IF largeMode THEN AdbTries ELSE 0) \in Nat
  BY <1>1
<1>4. pc \in {"starts", "push", "shell", "read"}
  BY DEF Shell!IInv, Shell!TypeOK
<1>5. CASE pc \in {"starts", "push"}
  BY <1>1, <1>2, <1>3, <1>5 DEF Shell!IInv, Shell!RunsSoFar, ShellCounted
<1>6. CASE pc = "shell"
  BY <1>1, <1>2, <1>3, <1>6 DEF Shell!IInv, Shell!RunsSoFar, ShellCounted
<1>7. CASE pc = "read"
  BY <1>1, <1>2, <1>7 DEF Shell!IInv, Shell!RunsSoFar, ShellCounted
<1> QED BY <1>4, <1>5, <1>6, <1>7

LEMMA ShellCallInv == ASSUME Shell!TriesAreMade, Shell!IInv, Shell!Call PROVE Shell!IInv'
<1>1. /\ pc = "idle" /\ pc' = "starts" /\ largeMode' \in BOOLEAN /\ adbTry' = 1 /\ attempt' = 1
      /\ runs' = 0
      /\ reported' = Shell!None /\ UNCHANGED <<held, deleting, temps, undeleted>>
      /\ check' \in BOOLEAN /\ large' \in BOOLEAN /\ script' \in BOOLEAN /\ isLong' \in BOOLEAN
      /\ status' \in {0, 1}
  BY DEF Shell!Call, Shell!files
<1>2. Shell!TypeOK'
  BY <1>1 DEF Shell!TypeOK, Shell!TriesAreMade
<1>3. Shell!HeldWhileRunning' /\ Shell!TempsHaveOwners'
  BY <1>1 DEF Shell!IInv, Shell!HeldWhileRunning, Shell!TempsHaveOwners
<1>4. Shell!Spent(0) = 0
  BY DEF Shell!Spent, Shell!TriesAreMade
<1>5. 0 <= IF largeMode' THEN AdbTries ELSE 0
  BY DEF Shell!TriesAreMade
<1>6. Shell!RunsSoFar'
  <2>1. Shell!Spent(0)' = 0 /\ attempt' - 1 = 0 /\ (IF largeMode' THEN AdbTries ELSE 0) \in Nat
    BY <1>1, <1>4 DEF Shell!Spent, Shell!TriesAreMade
  <2>2. runs' <= Shell!Spent(attempt' - 1) + (IF largeMode' THEN AdbTries ELSE 0)
    BY <1>1, <1>4, <2>1
  <2> QED BY <1>1, <2>1, <2>2 DEF Shell!RunsSoFar, Shell!Spent
<1>7. ShellCounted'
  <2>1. 1 \in 1 .. CallTries
    BY DEF Shell!TriesAreMade
  <2>2. Shell!Spent(1) \in Nat
    BY DEF Shell!Spent, Shell!TriesAreMade
  <2> QED BY <1>1, <2>1, <2>2 DEF ShellCounted
<1>8. Shell!RunsAreBounded'
  <2>1. 0 <= CallTries * 2 * AdbTries
    BY ShellBoundIsNatural
  <2> QED BY <1>1, <2>1 DEF Shell!RunsAreBounded
<1> QED BY <1>1, <1>2, <1>3, <1>6, <1>8 DEF Shell!IInv, Shell!ReadHasRun, Shell!CheckedIsWhole,
              Shell!Ended

(* A call that raises begins another try, or ends with an error.           *)
LEMMA ShellRaiseInv ==
  ASSUME Shell!TriesAreMade, Shell!IInv, pc # "idle", NEW out, Shell!Raise(out),
         UNCHANGED Shell!command,
         runs' \in Nat, runs' <= Shell!Spent(attempt), adbTry' \in 0 .. AdbTries,
         temps' \subseteq temps \cup held, undeleted' = undeleted,
         out \notin {"whole", "part"} \/ status = 1
  PROVE  Shell!IInv'
<1>1. ShellCounted
  BY ShellSoFarIsCounted
<1>2. held' = {} /\ deleting' = deleting \cup held
  BY DEF Shell!Raise, Shell!Return, Shell!Leave
<1>3. Shell!HeldWhileRunning' /\ Shell!TempsHaveOwners'
  BY <1>2 DEF Shell!IInv, Shell!HeldWhileRunning, Shell!TempsHaveOwners
<1>4. check' = check /\ large' = large /\ script' = script /\ isLong' = isLong /\ status' = status
  BY DEF Shell!command
<1>5. Shell!Spent(attempt - 1) \in Nat /\ Shell!Spent(attempt) = Shell!Spent(attempt - 1) + 2 * AdbTries /\ Shell!Spent(attempt) \in Nat
      /\ Shell!Spent(attempt) <= CallTries * 2 * AdbTries
  BY <1>1, ShellSpentGrows DEF ShellCounted, Shell!TriesAreMade
<1>6. Shell!RunsAreBounded'
  <2>1. CallTries * 2 * AdbTries \in Int
    BY DEF Shell!TriesAreMade
  <2> QED BY <1>5, <2>1 DEF Shell!RunsAreBounded
<1>7. CASE attempt < CallTries
  <2>1. attempt' = attempt + 1 /\ pc' = "starts" /\ largeMode' = large /\ UNCHANGED reported
    BY <1>7 DEF Shell!Raise
  <2>2. Shell!TypeOK'
    BY <1>1, <1>4, <1>7, <2>1 DEF Shell!IInv, Shell!TypeOK, ShellCounted, Shell!TriesAreMade
  <2>3. attempt' >= 1 /\ attempt' - 1 = attempt
    BY <1>1, <2>1 DEF ShellCounted, Shell!TriesAreMade
  <2>4. Shell!RunsSoFar'
    <3>1. (IF largeMode' THEN AdbTries ELSE 0) \in Nat
      BY <2>1 DEF Shell!TriesAreMade
    <3>2. runs' <= Shell!Spent(attempt' - 1) + (IF largeMode' THEN AdbTries ELSE 0)
      BY <1>5, <2>3, <3>1
    <3>3. Shell!Spent(attempt' - 1) = Shell!Spent(attempt - 1)'
      BY DEF Shell!Spent
    <3> QED BY <2>1, <2>3, <3>2, <3>3 DEF Shell!RunsSoFar
  <2> QED BY <1>3, <1>4, <1>6, <2>1, <2>2, <2>4 DEF Shell!IInv, Shell!ReadHasRun,
                Shell!CheckedIsWhole, Shell!Ended
<1>8. CASE ~(attempt < CallTries)
  <2>1. pc' = "idle" /\ reported' = Shell!Output(out, status) /\ UNCHANGED <<largeMode, attempt>>
    BY <1>8 DEF Shell!Raise, Shell!Return
  <2>2. Shell!TypeOK'
    BY <1>4, <2>1 DEF Shell!IInv, Shell!TypeOK
  <2>3. Shell!CheckedIsWhole'
    BY <1>4, <2>1 DEF Shell!CheckedIsWhole, Shell!Output
  <2> QED BY <1>3, <1>6, <2>1, <2>2, <2>3 DEF Shell!IInv, Shell!ReadHasRun, Shell!RunsSoFar
<1> QED BY <1>7, <1>8

LEMMA ShellReturnInv ==
  ASSUME Shell!TriesAreMade, Shell!IInv, pc # "idle", NEW out, NEW code, Shell!Return(out, code),
         UNCHANGED Shell!command,
         runs' \in Nat, runs' <= Shell!Spent(attempt), adbTry' \in 0 .. AdbTries,
         temps' \subseteq temps \cup held, undeleted' = undeleted,
         check /\ code = 0 /\ out \in {"whole", "part"} => out = "whole" /\ status = 0 /\ runs' > 0
  PROVE  Shell!IInv'
<1>1. ShellCounted
  BY ShellSoFarIsCounted
<1>2. held' = {} /\ deleting' = deleting \cup held /\ pc' = "idle" /\ reported' = Shell!Output(out, code)
      /\ UNCHANGED <<largeMode, attempt>>
  BY DEF Shell!Return, Shell!Leave
<1>3. Shell!HeldWhileRunning' /\ Shell!TempsHaveOwners'
  BY <1>2 DEF Shell!IInv, Shell!HeldWhileRunning, Shell!TempsHaveOwners
<1>4. check' = check /\ large' = large /\ script' = script /\ isLong' = isLong /\ status' = status
  BY DEF Shell!command
<1>5. Shell!Spent(attempt) \in Nat /\ Shell!Spent(attempt) <= CallTries * 2 * AdbTries
  BY <1>1, ShellSpentGrows DEF ShellCounted, Shell!TriesAreMade
<1>6. Shell!RunsAreBounded'
  <2>1. CallTries * 2 * AdbTries \in Int
    BY DEF Shell!TriesAreMade
  <2> QED BY <1>5, <2>1 DEF Shell!RunsAreBounded
<1>7. Shell!TypeOK'
  BY <1>2, <1>4 DEF Shell!IInv, Shell!TypeOK
<1>8. Shell!CheckedIsWhole'
  BY <1>2, <1>4 DEF Shell!CheckedIsWhole, Shell!Output
<1> QED BY <1>2, <1>3, <1>6, <1>7, <1>8 DEF Shell!IInv, Shell!ReadHasRun, Shell!RunsSoFar

LEMMA ShellEnterInv == ASSUME Shell!TriesAreMade, Shell!IInv, Shell!Enter PROVE Shell!IInv'
<1>1. /\ pc = "starts" /\ pc' = IF script THEN "push" ELSE "shell"
      /\ adbTry' = 1
      /\ UNCHANGED <<Shell!command, largeMode, attempt, runs, deleting, temps, undeleted, reported>>
  BY DEF Shell!Enter
<1>2. check' = check /\ large' = large /\ script' = script /\ isLong' = isLong /\ status' = status
  BY <1>1 DEF Shell!command
<1>3. Shell!TypeOK'
  BY <1>1, <1>2 DEF Shell!IInv, Shell!TypeOK, Shell!TriesAreMade
<1>4. Shell!HeldWhileRunning' /\ Shell!TempsHaveOwners'
  BY <1>1 DEF Shell!IInv, Shell!HeldWhileRunning, Shell!TempsHaveOwners
<1>5. Shell!RunsSoFar'
  <2>1. attempt \in 1 .. CallTries /\ runs \in Nat /\ Shell!Spent(attempt - 1) \in Nat /\ AdbTries \in Nat
    BY <1>1, ShellSpentGrows DEF Shell!IInv, Shell!TypeOK, Shell!RunsSoFar, Shell!TriesAreMade
  <2>2. /\ attempt >= 1 /\ runs <= Shell!Spent(attempt - 1) + (IF largeMode THEN AdbTries ELSE 0)
        /\ (IF largeMode THEN AdbTries ELSE 0) \in Nat
    BY <1>1, <2>1 DEF Shell!IInv, Shell!RunsSoFar
  <2>3. runs + 1 <= Shell!Spent(attempt - 1) + (IF largeMode THEN AdbTries ELSE 0) + 1
    BY <2>1, <2>2
  <2> QED BY <1>1, <2>2, <2>3 DEF Shell!RunsSoFar, Shell!Spent
<1> QED BY <1>1, <1>2, <1>3, <1>4, <1>5 DEF Shell!IInv, Shell!ReadHasRun, Shell!CheckedIsWhole,
              Shell!Ended, Shell!RunsAreBounded

LEMMA ShellPushScriptInv ==
  ASSUME Shell!TriesAreMade, Shell!IInv, Shell!PushScript
  PROVE  Shell!IInv'
<1>1. pc = "push" /\ UNCHANGED <<Shell!command, runs, adbTry, undeleted>>
  BY DEF Shell!PushScript
<1>2. ShellCounted
  BY <1>1, ShellSoFarIsCounted
<1>3. CASE Shell!Raise("error") /\ temps' \in {temps, temps \cup held}
  BY <1>1, <1>2, <1>3, ShellRaiseInv DEF Shell!IInv, Shell!TypeOK, ShellCounted
<1>4. CASE pc' = "shell" /\ temps' = temps \cup held /\ UNCHANGED <<largeMode, attempt, held, deleting, reported>>
  <2>1. check' = check /\ large' = large /\ script' = script /\ isLong' = isLong /\ status' = status
    BY <1>1 DEF Shell!command
  <2>2. Shell!TypeOK'
    BY <1>1, <1>4, <2>1 DEF Shell!IInv, Shell!TypeOK
  <2>3. Shell!HeldWhileRunning' /\ Shell!TempsHaveOwners'
    BY <1>1, <1>4 DEF Shell!IInv, Shell!HeldWhileRunning, Shell!TempsHaveOwners
  <2>4. Shell!RunsSoFar'
    <3>1. attempt \in 1 .. CallTries /\ runs \in Nat /\ adbTry >= 1 /\ adbTry \in Nat /\ Shell!Spent(attempt - 1) \in Nat
          /\ (IF largeMode THEN AdbTries ELSE 0) \in Nat
      BY <1>1, <1>2, ShellSpentGrows DEF Shell!IInv, Shell!TypeOK, Shell!RunsSoFar,
            ShellCounted, Shell!TriesAreMade
    <3>2. runs <= Shell!Spent(attempt - 1) + (IF largeMode THEN AdbTries ELSE 0)
      BY <1>1 DEF Shell!IInv, Shell!RunsSoFar
    <3>3. runs + 1 <= Shell!Spent(attempt - 1) + (IF largeMode THEN AdbTries ELSE 0) + adbTry
      BY <3>1, <3>2
    <3> QED BY <1>1, <1>4, <3>1, <3>3 DEF Shell!RunsSoFar, Shell!Spent
  <2> QED BY <1>1, <1>4, <2>1, <2>2, <2>3, <2>4 DEF Shell!IInv, Shell!ReadHasRun,
                Shell!CheckedIsWhole, Shell!Ended, Shell!RunsAreBounded
<1> QED BY <1>3, <1>4 DEF Shell!PushScript

(* The output is in a file on the device and will be read.                 *)
LEMMA ShellReadInv ==
  ASSUME Shell!TriesAreMade, Shell!IInv, pc = "shell", pc' = "read",
         UNCHANGED <<Shell!command, largeMode, attempt, held, deleting, reported>>,
         runs' \in Nat, runs' <= Shell!Spent(attempt), adbTry' \in 0 .. AdbTries,
         temps' \subseteq temps \cup held, undeleted' = undeleted, check => runs' > 0
  PROVE  Shell!IInv'
<1>1. ShellCounted
  BY ShellSoFarIsCounted
<1>2. check' = check /\ large' = large /\ script' = script /\ isLong' = isLong /\ status' = status
  BY DEF Shell!command
<1>3. Shell!TypeOK'
  BY <1>2 DEF Shell!IInv, Shell!TypeOK
<1>4. Shell!HeldWhileRunning' /\ Shell!TempsHaveOwners'
  BY DEF Shell!IInv, Shell!HeldWhileRunning, Shell!TempsHaveOwners
<1>5. Shell!RunsSoFar'
  BY <1>1 DEF Shell!RunsSoFar, Shell!Spent, ShellCounted
<1>6. Shell!RunsAreBounded'
  <2>1. CallTries * 2 * AdbTries \in Int /\ Shell!Spent(attempt) \in Nat /\ Shell!Spent(attempt) <= CallTries * 2 * AdbTries
    BY <1>1, ShellSpentGrows DEF ShellCounted, Shell!TriesAreMade
  <2> QED BY <2>1 DEF Shell!RunsAreBounded
<1> QED BY <1>2, <1>3, <1>4, <1>5, <1>6 DEF Shell!IInv, Shell!ReadHasRun, Shell!CheckedIsWhole,
              Shell!Ended

LEMMA ShellFailedInv ==
  ASSUME Shell!TriesAreMade, Shell!IInv, pc # "idle", NEW out, NEW code, Shell!Failed(out, code),
         UNCHANGED Shell!command,
         runs' \in Nat, runs' <= Shell!Spent(attempt), adbTry' \in 0 .. AdbTries,
         temps' \subseteq temps \cup held, undeleted' = undeleted,
         out \notin {"whole", "part"} \/ status = 1
  PROVE  Shell!IInv'
<1>1. CASE check
  BY <1>1, ShellRaiseInv DEF Shell!Failed
<1>2. CASE ~check
  BY <1>2, ShellReturnInv DEF Shell!Failed
<1> QED BY <1>1, <1>2

LEMMA ShellShellInv == ASSUME Shell!TriesAreMade, Shell!IInv, Shell!Shell PROVE Shell!IInv'
<1>1. pc = "shell" /\ Shell!Runs /\ UNCHANGED <<Shell!command, adbTry, undeleted>>
  BY DEF Shell!Shell
<1>2. /\ ShellCounted /\ runs + 1 <= Shell!Spent(attempt)
      /\ runs' = runs + 1 /\ temps' \subseteq temps \cup held /\ undeleted' = undeleted
  BY <1>1, ShellSoFarIsCounted DEF Shell!Runs
<1>3. runs' \in Nat /\ runs' <= Shell!Spent(attempt) /\ runs' > 0 /\ adbTry' \in 0 .. AdbTries
  BY <1>1, <1>2 DEF Shell!IInv, Shell!TypeOK, ShellCounted
<1>4. check' = check /\ large' = large /\ script' = script /\ isLong' = isLong /\ status' = status
  BY <1>1 DEF Shell!command
<1>5. CASE pc' = "read" /\ UNCHANGED <<largeMode, attempt, held, deleting, reported>>
  BY <1>1, <1>2, <1>3, <1>5, ShellReadInv
<1>6. CASE Shell!Reported = 0 /\ ~largeMode /\ Shell!Return(IF isLong THEN "part" ELSE "whole", 0)
  <2>1. ~isLong /\ status = 0
    BY <1>6 DEF Shell!Reported, Shell!MissingStatus
  <2>2. Shell!Return("whole", 0)
    BY <1>6, <2>1
  <2> QED BY <1>1, <1>2, <1>3, <2>1, <2>2, ShellReturnInv
<1>7. CASE Shell!Reported = 1 /\ Shell!Failed("whole", 1)
  <2>1. status = 1
    BY <1>7 DEF Shell!Reported, Shell!MissingStatus
  <2> QED BY <1>1, <1>2, <1>3, <1>7, <2>1, ShellFailedInv
<1>8. CASE Shell!Reported = Shell!MissingStatus /\ ~check /\ Shell!Return("part", Shell!MissingStatus)
  BY <1>1, <1>2, <1>3, <1>8, ShellReturnInv
<1>9. CASE /\ Shell!Reported = Shell!MissingStatus /\ largeMode' = TRUE /\ pc' = "starts" /\ Shell!Leave
           /\ UNCHANGED <<attempt, reported>>
  <2>1. ~largeMode
    BY <1>9 DEF Shell!Reported, Shell!MissingStatus, Shell!IInv, Shell!TypeOK
  <2>2. Shell!TypeOK'
    BY <1>1, <1>3, <1>4, <1>9 DEF Shell!IInv, Shell!TypeOK
  <2>3. Shell!HeldWhileRunning' /\ Shell!TempsHaveOwners'
    BY <1>2, <1>9 DEF Shell!IInv, Shell!HeldWhileRunning, Shell!TempsHaveOwners, Shell!Leave
  <2>4. Shell!RunsSoFar'
    <3>1. /\ attempt \in 1 .. CallTries /\ runs \in Nat /\ AdbTries \in Nat
          /\ adbTry \in 0 .. AdbTries
          /\ Shell!Spent(attempt - 1) \in Nat
      BY <1>2, ShellSpentGrows DEF ShellCounted, Shell!TriesAreMade, Shell!IInv, Shell!TypeOK
    <3>2. runs + 1 <= Shell!Spent(attempt - 1) + 0 + adbTry
      BY <1>1, <2>1 DEF Shell!IInv, Shell!RunsSoFar
    <3>3. runs' <= Shell!Spent(attempt - 1) + AdbTries
      BY <1>2, <3>1, <3>2
    <3> QED BY <1>9, <3>1, <3>3 DEF Shell!RunsSoFar, Shell!Spent
  <2>5. Shell!RunsAreBounded'
    <3>1. CallTries * 2 * AdbTries \in Int /\ Shell!Spent(attempt) \in Nat /\ Shell!Spent(attempt) <= CallTries * 2 * AdbTries
      BY <1>2, ShellSpentGrows DEF ShellCounted, Shell!TriesAreMade
    <3> QED BY <1>3, <3>1 DEF Shell!RunsAreBounded
  <2> QED BY <1>9, <2>2, <2>3, <2>4, <2>5 DEF Shell!IInv, Shell!ReadHasRun,
                Shell!CheckedIsWhole, Shell!Ended
<1> QED
  <2>1. CASE Shell!Reported = 0
    BY <1>5, <1>6, <2>1 DEF Shell!Shell, Shell!MissingStatus
  <2>2. CASE Shell!Reported = 1
    BY <1>5, <1>7, <2>2 DEF Shell!Shell, Shell!MissingStatus
  <2>3. CASE Shell!Reported = Shell!MissingStatus
    <3>1. CASE check
      BY <1>9, <2>3, <3>1 DEF Shell!Shell, Shell!MissingStatus
    <3>2. CASE ~check
      BY <1>8, <2>3, <3>2 DEF Shell!Shell, Shell!MissingStatus
    <3> QED BY <3>1, <3>2
  <2> QED BY <2>1, <2>2, <2>3 DEF Shell!Shell

LEMMA ShellAdbErrorInv == ASSUME Shell!TriesAreMade, Shell!IInv, Shell!AdbError PROVE Shell!IInv'
<1>1. pc = "shell" /\ UNCHANGED <<Shell!command, undeleted>> /\ (Shell!Runs \/ UNCHANGED <<runs, temps>>)
  BY DEF Shell!AdbError
<1>2. ShellCounted /\ runs + 1 <= Shell!Spent(attempt)
  BY <1>1, ShellSoFarIsCounted
<1>3. runs' \in {runs, runs + 1} /\ temps' \subseteq temps \cup held /\ undeleted' = undeleted
  BY <1>1 DEF Shell!Runs
<1>4. runs' \in Nat /\ runs' <= runs + 1
  BY <1>2, <1>3 DEF ShellCounted
<1>5. runs' <= Shell!Spent(attempt)
  <2>1. Shell!Spent(attempt) \in Nat
    BY <1>2, ShellSpentGrows DEF ShellCounted, Shell!TriesAreMade
  <2> QED BY <1>2, <1>4, <2>1 DEF ShellCounted
<1>6. check' = check /\ large' = large /\ script' = script /\ isLong' = isLong /\ status' = status
  BY <1>1 DEF Shell!command
<1>7. CASE adbTry < AdbTries
  <2>1. adbTry' = adbTry + 1 /\ UNCHANGED <<pc, largeMode, attempt, held, deleting, reported>>
    BY <1>7 DEF Shell!AdbError
  <2>2. Shell!TypeOK'
    BY <1>1, <1>4, <1>6, <1>7, <2>1 DEF Shell!IInv, Shell!TypeOK, Shell!TriesAreMade
  <2>3. Shell!HeldWhileRunning' /\ Shell!TempsHaveOwners'
    BY <1>3, <2>1 DEF Shell!IInv, Shell!HeldWhileRunning, Shell!TempsHaveOwners
  <2>4. Shell!RunsSoFar'
    <3>1. /\ attempt \in 1 .. CallTries /\ runs \in Nat /\ adbTry \in Nat /\ adbTry >= 1
          /\ Shell!Spent(attempt - 1) \in Nat
          /\ (IF largeMode THEN AdbTries ELSE 0) \in Nat
      BY <1>1, <1>2, ShellSpentGrows DEF Shell!IInv, Shell!TypeOK, Shell!RunsSoFar,
            ShellCounted, Shell!TriesAreMade
    <3>2. runs + 1 <= Shell!Spent(attempt - 1) + (IF largeMode THEN AdbTries ELSE 0) + adbTry
      BY <1>1 DEF Shell!IInv, Shell!RunsSoFar
    <3>3. runs' + 1 <= Shell!Spent(attempt - 1) + (IF largeMode THEN AdbTries ELSE 0) + (adbTry + 1)
      BY <1>4, <3>1, <3>2
    <3> QED BY <1>1, <2>1, <3>1, <3>3 DEF Shell!RunsSoFar, Shell!Spent
  <2>5. Shell!RunsAreBounded'
    <3>1. CallTries * 2 * AdbTries \in Int /\ Shell!Spent(attempt) \in Nat /\ Shell!Spent(attempt) <= CallTries * 2 * AdbTries
      BY <1>2, ShellSpentGrows DEF ShellCounted, Shell!TriesAreMade
    <3> QED BY <1>4, <1>5, <3>1 DEF Shell!RunsAreBounded
  <2> QED BY <1>1, <1>6, <2>1, <2>2, <2>3, <2>4, <2>5 DEF Shell!IInv, Shell!ReadHasRun,
                Shell!CheckedIsWhole, Shell!Ended
<1>8. CASE ~(adbTry < AdbTries)
  <2>1. UNCHANGED adbTry
    BY <1>8 DEF Shell!AdbError
  <2>2. adbTry' \in 0 .. AdbTries
    BY <2>1 DEF Shell!IInv, Shell!TypeOK
  <2>3. CASE Shell!Raise("unreachable")
    BY <1>1, <1>3, <1>4, <1>5, <2>2, <2>3, ShellRaiseInv
  <2>4. CASE largeMode /\ ~check /\ pc' = "read" /\ UNCHANGED <<largeMode, attempt, held, deleting, reported>>
    BY <1>1, <1>3, <1>4, <1>5, <2>2, <2>4, ShellReadInv
  <2>5. CASE Shell!Failed("adb", 1)
    BY <1>1, <1>3, <1>4, <1>5, <2>2, <2>5, ShellFailedInv
  <2> QED BY <1>8, <2>3, <2>4, <2>5 DEF Shell!AdbError
<1> QED BY <1>7, <1>8

LEMMA ShellPullOutputInv ==
  ASSUME Shell!TriesAreMade, Shell!IInv, Shell!PullOutput
  PROVE  Shell!IInv'
<1>1. pc = "read" /\ UNCHANGED <<Shell!command, adbTry, runs, temps, undeleted>>
  BY DEF Shell!PullOutput
<1>2. /\ runs' \in Nat /\ runs' <= Shell!Spent(attempt) /\ adbTry' \in 0 .. AdbTries
      /\ temps' \subseteq temps \cup held /\ undeleted' = undeleted
  BY <1>1, ShellSoFarIsCounted DEF ShellCounted, Shell!IInv, Shell!TypeOK
<1>3. CASE Shell!Return("whole", status)
  <2>1. check => runs' > 0
    BY <1>1 DEF Shell!IInv, Shell!ReadHasRun
  <2> QED BY <1>1, <1>2, <1>3, <2>1, ShellReturnInv
<1>4. CASE Shell!Raise("error")
  BY <1>1, <1>2, <1>4, ShellRaiseInv
<1> QED BY <1>3, <1>4 DEF Shell!PullOutput

LEMMA ShellDeleteInv ==
  ASSUME Shell!TriesAreMade, Shell!IInv, NEW t \in deleting,
         Shell!Delete(t) \/ Shell!DeletionFails(t)
  PROVE  Shell!IInv'
<1>1. /\ UNCHANGED <<pc, check, large, script, isLong, status, largeMode, adbTry, attempt, runs, held, reported>>
      /\ deleting' = deleting \ {t}
      /\ \/ temps' = temps \ {t} /\ undeleted' = undeleted
         \/ temps' = temps /\ undeleted' = undeleted \cup {t}
  BY DEF Shell!Delete, Shell!DeletionFails, Shell!command
<1>2. Shell!TypeOK' /\ Shell!RunsSoFar'
  BY <1>1 DEF Shell!IInv, Shell!TypeOK, Shell!RunsSoFar, Shell!Spent
<1> QED BY <1>1, <1>2 DEF Shell!IInv, Shell!HeldWhileRunning, Shell!ReadHasRun,
              Shell!CheckedIsWhole, Shell!Ended, Shell!RunsAreBounded, Shell!TempsHaveOwners

LEMMA ShellNextInv ==
  ASSUME Shell!TriesAreMade, Shell!IInv, [Shell!Next]_(Shell!vars)
  PROVE  Shell!IInv'
<1>1. CASE UNCHANGED Shell!vars
  BY <1>1 DEF Shell!vars, Shell!command, Shell!files, Shell!IInv, Shell!TypeOK,
        Shell!HeldWhileRunning, Shell!RunsSoFar, Shell!Spent, Shell!ReadHasRun,
              Shell!CheckedIsWhole, Shell!Ended, Shell!RunsAreBounded, Shell!TempsHaveOwners
<1> QED BY <1>1, ShellCallInv, ShellEnterInv, ShellPushScriptInv, ShellShellInv,
              ShellAdbErrorInv, ShellPullOutputInv, ShellDeleteInv DEF Shell!Next

-----------------------------------------------------------------------------
(* Pushing files.                                                          *)

(* What holds of every file of a directory and of no file of another.      *)
LEMMA PushBelowOne ==
  ASSUME Push!Disjoint, NEW t \in Tuples, NEW u \in Tuples, NEW f \in Below[t], f \in Below[u]
  PROVE  u = t
BY DEF Push!Disjoint

LEMMA PushFileIsBelow == ASSUME NEW t \in Tuples, NEW f \in Below[t] PROVE f \in Push!Files
BY DEF Push!Files

LEMMA PushVersionsAre ==
  ASSUME Push!PushesApart
  PROVE  Push!Missing \in Push!Versions /\ 1 \in Push!Versions /\ Push!Versions \subseteq Nat
BY DEF Push!PushesApart, Push!Versions, Push!Missing

LEMMA PushInitInv == ASSUME Push!PushesApart, Push!Disjoint, Push!Init PROVE Push!IInv
<1>1. /\ \A t \in Tuples : host[t] = [f \in Below[t] |-> 1]
      /\ DOMAIN host = Tuples /\ newest = 1
      /\ dev \in [Push!Files -> {Push!Missing, 1}] /\ tool = "none" /\ commands = "None"
      /\ DOMAIN cache = Tuples /\ \A t \in Tuples : cache[t] = Push!Unknown
      /\ pc = "idle" /\ delete = FALSE /\ todo = {} /\ changed = {} /\ stale = {}
      /\ touched = {} /\ omitted = {}
      /\ DOMAIN seen = Tuples /\ \A t \in Tuples : seen[t] = Push!NotCompared
      /\ zip = [f \in Push!Files |-> Push!Missing]
  BY DEF Push!Init, Push!NoFiles
<1>2. Push!TypeOK
  <2>1. Push!Missing \in Push!Versions /\ 1 \in Push!Versions
    BY PushVersionsAre
  <2>2. \A t \in Tuples : host[t] \in Push!Sums(t)
    BY <1>1, <2>1 DEF Push!Sums
  <2>3. dev \in [Push!Files -> Push!Versions] /\ zip \in [Push!Files -> Push!Versions]
    BY <1>1, <2>1
  <2>4. \A t \in Tuples : seen[t] \in {Push!NotCompared} \cup Push!Sums(t)
    BY <1>1
  <2>5. newest \in Push!Versions /\ changed \subseteq {<<t, f>> : t \in Tuples, f \in Push!Files}
    BY <1>1, <2>1
  <2>6. /\ tool \in {"none", "half", "whole"} /\ commands \in {"None", "True", "False"}
        /\ pc \in {"idle", "compares", "pushes", "individually", "zipped", "commits"}
        /\ delete \in BOOLEAN /\ todo \subseteq Tuples /\ stale \subseteq Push!Files
        /\ touched \subseteq Push!Files /\ omitted \subseteq Push!Files
    BY <1>1
  <2>7. \A t \in Tuples : cache[t] = Push!Unknown \/ cache[t] \in [ignore : BOOLEAN, sums : Push!Sums(t)]
    BY <1>1
  <2> QED BY <1>1, <2>2, <2>3, <2>4, <2>5, <2>6, <2>7 DEF Push!TypeOK
<1>3. Push!NewestIsLast
  BY <1>1 DEF Push!NewestIsLast, Push!Missing, Push!NotCompared
<1>4. Push!Phases /\ Push!UnchangedIsPushed /\ Push!ZippedIsChanged /\ Push!CacheIsTrue /\ Push!LackingIsStale
  BY <1>1 DEF Push!Phases, Push!UnchangedIsPushed, Push!ZippedIsChanged, Push!CacheIsTrue,
        Push!LackingIsStale, Push!Compared
<1> QED BY <1>2, <1>3, <1>4 DEF Push!IInv

LEMMA PushTypesOf ==
  ASSUME Push!PushesApart, Push!IInv, NEW t \in Tuples, NEW f \in Below[t]
  PROVE  /\ f \in Push!Files /\ newest \in Nat /\ Push!Missing \in Nat
         /\ host[t][f] \in Nat /\ host[t][f] \in Push!Versions /\ dev[f] \in Nat
         /\ zip[f] \in Nat
         /\ host[t][f] <= newest /\ dev[f] <= newest /\ zip[f] <= newest
         /\ Push!Compared(t) => seen[t][f] \in Nat /\ seen[t][f] <= newest /\ f \in DOMAIN seen[t]
         /\ cache[t] # Push!Unknown => cache[t].sums[f] \in Nat
<1>1. f \in Push!Files /\ Push!Versions \subseteq Nat /\ newest \in Push!Versions /\ Push!Missing \in Push!Versions
  BY PushVersionsAre, PushFileIsBelow DEF Push!IInv, Push!TypeOK
<1>2. host[t][f] \in Push!Versions /\ dev[f] \in Push!Versions /\ zip[f] \in Push!Versions
  BY <1>1 DEF Push!IInv, Push!TypeOK, Push!Sums
<1>3. host[t][f] <= newest /\ dev[f] <= newest /\ zip[f] <= newest
  BY <1>1 DEF Push!IInv, Push!NewestIsLast
<1>4. Push!Compared(t) => seen[t] \in Push!Sums(t)
  BY DEF Push!IInv, Push!TypeOK, Push!Compared
<1>5. Push!Compared(t) => f \in DOMAIN seen[t] /\ seen[t][f] \in Push!Versions
  BY <1>4 DEF Push!Sums
<1>6. Push!Compared(t) => seen[t][f] <= newest
  BY <1>5 DEF Push!IInv, Push!NewestIsLast
<1>7. cache[t] # Push!Unknown => cache[t].sums[f] \in Push!Versions
  BY DEF Push!IInv, Push!TypeOK, Push!Sums
<1> QED BY <1>1, <1>2, <1>3, <1>5, <1>6, <1>7

LEMMA PushHostChangesInv ==
  ASSUME Push!PushesApart, Push!Disjoint, Push!IInv, NEW t \in Tuples, NEW f \in Below[t],
         Push!HostChanges(t, f)
  PROVE  Push!IInv'
<1>1. PICK v \in Push!Versions : /\ v = Push!Missing \/ v > newest \/ (Reverts /\ v <= newest)
                            /\ host' = [host EXCEPT ![t][f] = v]
                            /\ newest' = IF v > newest THEN v ELSE newest
  BY DEF Push!HostChanges, Push!Versions
<1>2. /\ touched' = IF pc = "idle" THEN {} ELSE touched \cup {f}
      /\ UNCHANGED <<dev, tool, cache, commands, pc, delete, seen, todo, changed, stale, zip, omitted>>
  BY DEF Push!HostChanges, Push!call
<1>3. /\ v \in Nat /\ newest \in Nat /\ newest' \in Push!Versions /\ newest' \in Nat
      /\ newest <= newest' /\ v <= newest'
  <2>1. v \in Nat /\ newest \in Nat /\ newest' \in Push!Versions /\ newest' \in Nat
    BY <1>1, PushVersionsAre DEF Push!IInv, Push!TypeOK
  <2> QED BY <1>1, <2>1
<1>4. /\ DOMAIN host' = Tuples
      /\ \A u \in Tuples : host'[u] \in Push!Sums(u)
      /\ host'[t][f] = v
      /\ \A u \in Tuples : \A g \in Below[u] : u # t \/ g # f => host'[u][g] = host[u][g]
  <2>1. DOMAIN host = Tuples /\ \A u \in Tuples : host[u] \in Push!Sums(u)
    BY DEF Push!IInv, Push!TypeOK
  <2>2. host' = [host EXCEPT ![t] = [host[t] EXCEPT ![f] = v]]
    BY <1>1
  <2>3. [host[t] EXCEPT ![f] = v] \in Push!Sums(t)
    BY <1>1, <2>1 DEF Push!Sums
  <2>4. [host[t] EXCEPT ![f] = v][f] = v /\ \A g \in Below[t] : g # f => [host[t] EXCEPT ![f] = v][g] = host[t][g]
    BY <2>1 DEF Push!Sums
  <2> QED BY <2>1, <2>2, <2>3, <2>4
<1>5. Push!TypeOK'
  <2>1. touched' \subseteq Push!Files
    BY <1>2, PushFileIsBelow DEF Push!IInv, Push!TypeOK
  <2> QED BY <1>2, <1>3, <1>4, <2>1 DEF Push!IInv, Push!TypeOK, Push!Sums
<1>6. Push!NewestIsLast'
  <2>1. \A u \in Tuples : \A g \in Below[u] : host'[u][g] <= newest'
    <3> SUFFICES ASSUME NEW u \in Tuples, NEW g \in Below[u] PROVE host'[u][g] <= newest'
      OBVIOUS
    <3>1. CASE u # t \/ g # f
      BY <1>3, <1>4, <3>1, PushTypesOf
    <3>2. CASE u = t /\ g = f
      BY <1>3, <1>4, <3>2
    <3> QED BY <3>1, <3>2
  <2>2. \A u \in Tuples : \A g \in DOMAIN seen[u] : seen[u][g] <= newest'
    <3> SUFFICES ASSUME NEW u \in Tuples, NEW g \in DOMAIN seen[u] PROVE seen[u][g] <= newest'
      OBVIOUS
    <3>1. seen[u] \in Push!Sums(u)
      BY DEF Push!IInv, Push!TypeOK, Push!NotCompared
    <3>2. seen[u][g] \in Nat
      BY <3>1, PushVersionsAre DEF Push!Sums
    <3> QED BY <1>3, <3>2 DEF Push!IInv, Push!NewestIsLast
  <2>3. \A g \in Push!Files : dev[g] <= newest' /\ zip[g] <= newest'
    <3> SUFFICES ASSUME NEW g \in Push!Files PROVE dev[g] <= newest' /\ zip[g] <= newest'
      OBVIOUS
    <3>1. dev[g] \in Nat /\ zip[g] \in Nat
      BY PushVersionsAre DEF Push!IInv, Push!TypeOK
    <3> QED BY <1>3, <3>1 DEF Push!IInv, Push!NewestIsLast
  <2> QED BY <1>2, <2>1, <2>2, <2>3 DEF Push!NewestIsLast
<1>7. Push!Phases'
  BY <1>2 DEF Push!IInv, Push!Phases, Push!Compared

(* A version that somebody knows of is not that of a file that has changed. *)
<1>8. ASSUME ~Reverts, NEW c \in Nat, c <= newest, c # Push!Missing PROVE v # c
  BY <1>1, <1>3, <1>8
<1>9. \A u \in Tuples : Push!Compared(u)' <=> Push!Compared(u)
  BY <1>2 DEF Push!Compared
<1>10. pc = "idle" => \A u \in Tuples : ~Push!Compared(u)
  BY DEF Push!IInv, Push!Phases
<1>11. ASSUME NEW u \in Tuples, NEW g \in Below[u], Push!Compared(u), seen[u][g] # Push!Missing,
              Push!Unchanged(u, g)'
       PROVE  Push!Unchanged(u, g) /\ host'[u][g] = host[u][g]
  <2>1. CASE u = t /\ g = f
    <3>1. touched' = touched \cup {f}
      BY <1>2, <1>10, <1>11
    <3>2. ~Reverts /\ seen[t][f] = v
      BY <1>2, <1>4, <1>11, <2>1, <3>1 DEF Push!Unchanged
    <3>3. seen[t][f] \in Nat /\ seen[t][f] <= newest
      BY <1>11, <2>1, PushTypesOf
    <3> QED BY <1>8, <1>11, <2>1, <3>2, <3>3
  <2>2. CASE u # t \/ g # f
    <3>1. Reverts => g \notin touched
      BY <1>2, <1>10, <1>11 DEF Push!Unchanged
    <3> QED BY <1>2, <1>4, <1>11, <2>2, <3>1 DEF Push!Unchanged
  <2> QED BY <2>1, <2>2
<1>12. ASSUME Cached, NEW u \in Tuples, NEW g \in Below[u], Push!IsOfHost(u, g)'
       PROVE  Push!IsOfHost(u, g) /\ host'[u][g] = host[u][g]
  <2>1. CASE u = t /\ g = f
    <3>1. cache[t] # Push!Unknown /\ cache[t].sums[f] # Push!Missing /\ cache[t].sums[f] = v
      BY <1>2, <1>4, <1>12, <2>1 DEF Push!IsOfHost
    <3>2. cache[t].sums[f] \in Nat
      BY <3>1, PushTypesOf
    <3>3. cache[t].sums[f] <= newest
      BY <1>12, <3>1 DEF Push!IInv, Push!CacheIsTrue
    <3> QED BY <1>8, <1>12, <3>1, <3>2, <3>3 DEF Push!PushesApart
  <2>2. CASE u # t \/ g # f
    BY <1>2, <1>4, <1>12, <2>2 DEF Push!IsOfHost
  <2> QED BY <2>1, <2>2
<1>13. Push!UnchangedIsPushed'
  <2> SUFFICES ASSUME NEW u \in Tuples, Push!Compared(u), NEW g \in Below[u]
               PROVE  /\ g \notin touched' => seen[u][g] = host'[u][g]
                      /\ <<u, g>> \in changed => seen[u][g] # Push!Missing
                      /\ g \in stale => seen[u][g] = Push!Missing
                      /\ seen[u][g] # Push!Missing /\ Push!Unchanged(u, g)' => <<u, g>> \in changed \/ dev[g] = host'[u][g] \/ g \in omitted
    BY <1>2, <1>9 DEF Push!UnchangedIsPushed
  <2>1. touched' = touched \cup {f}
    BY <1>2, <1>10
  <2>2. g \notin touched' => host'[u][g] = host[u][g] /\ g \notin touched
    BY <1>4, <2>1
  <2> QED BY <1>11, <2>2 DEF Push!IInv, Push!UnchangedIsPushed, Push!Phases
<1>14. Push!ZippedIsChanged'
  <2> SUFFICES ASSUME pc = "zipped", NEW u \in Tuples, NEW g \in Below[u]
               PROVE  /\ zip[g] # Push!Missing => <<u, g>> \in changed
                      /\ zip[g] # Push!Missing /\ Push!Compared(u) /\ Push!Unchanged(u, g)' => zip[g] = host'[u][g]
                      /\ zip[g] # Push!Missing /\ Cached /\ Push!IsOfHost(u, g)' => zip[g] = host'[u][g]
    BY <1>2, <1>9 DEF Push!ZippedIsChanged
  <2>1. zip[g] # Push!Missing => <<u, g>> \in changed
    BY DEF Push!IInv, Push!ZippedIsChanged
  <2>2. zip[g] # Push!Missing /\ Push!Compared(u) => seen[u][g] # Push!Missing
    BY <2>1 DEF Push!IInv, Push!UnchangedIsPushed
  <2> QED BY <1>11, <1>12, <2>1, <2>2 DEF Push!IInv, Push!ZippedIsChanged
<1>15. Push!CacheIsTrue'
  <2> SUFFICES ASSUME Cached, NEW u \in Tuples, cache[u] # Push!Unknown, NEW g \in Below[u]
               PROVE  /\ cache[u].sums[g] <= newest'
                      /\ Push!IsOfHost(u, g)' => (dev[g] = host'[u][g] \/ g \in omitted) /\ g \notin stale
    BY <1>2 DEF Push!CacheIsTrue
  <2>1. cache[u].sums[g] \in Nat /\ cache[u].sums[g] <= newest
    BY PushTypesOf DEF Push!IInv, Push!CacheIsTrue
  <2>2. Push!IsOfHost(u, g)' => (dev[g] = host'[u][g] \/ g \in omitted) /\ g \notin stale
    BY <1>12 DEF Push!IInv, Push!CacheIsTrue
  <2> QED BY <1>3, <2>1, <2>2
<1>16. Push!LackingIsStale'
  <2>1. \A u \in Tuples : Push!Compared(u) => touched \subseteq touched'
    BY <1>2, <1>10
  <2> QED BY <1>2, <1>9, <2>1 DEF Push!IInv, Push!LackingIsStale, Push!AlwaysReads
<1> QED BY <1>5, <1>6, <1>7, <1>13, <1>14, <1>15, <1>16 DEF Push!IInv

(* A call that ends leaves nothing to be done.                             *)
LEMMA PushFailsInv ==
  ASSUME Push!PushesApart, Push!IInv, Push!Fails, UNCHANGED <<host, newest, tool>>,
         commands' \in {"None", "True", "False"}, dev' \in [Push!Files -> Push!Versions],
         \A f \in Push!Files : dev'[f] <= newest,
         DOMAIN cache' = Tuples,
         \A t \in Tuples : cache'[t] = Push!Unknown \/ cache'[t] \in [ignore : BOOLEAN, sums : Push!Sums(t)],
         omitted' = omitted, omitted # {} => commands' = "True",
         Push!CacheIsTrue'
  PROVE  Push!IInv'
<1>1. /\ pc' = "idle" /\ touched' = {} /\ zip' = [f \in Push!Files |-> Push!Missing]
      /\ todo' = {} /\ changed' = {} /\ stale' = {} /\ delete' = FALSE
      /\ DOMAIN seen' = Tuples /\ \A t \in Tuples : seen'[t] = Push!NotCompared
  BY DEF Push!Fails, Push!NoFiles
<1>2. Push!TypeOK'
  <2>1. zip' \in [Push!Files -> Push!Versions]
    BY <1>1, PushVersionsAre
  <2>2. \A t \in Tuples : seen'[t] \in {Push!NotCompared} \cup Push!Sums(t)
    BY <1>1
  <2>3. DOMAIN host = Tuples /\ (\A t \in Tuples : host[t] \in Push!Sums(t)) /\ newest \in Push!Versions
        /\ tool \in {"none", "half", "whole"}
    BY DEF Push!IInv, Push!TypeOK
  <2>4. /\ pc' \in {"idle", "compares", "pushes", "individually", "zipped", "commits"}
        /\ delete' \in BOOLEAN /\ todo' \subseteq Tuples /\ stale' \subseteq Push!Files
        /\ touched' \subseteq Push!Files
    BY <1>1
  <2>6. omitted' \subseteq Push!Files
    BY DEF Push!IInv, Push!TypeOK
  <2>5. changed' \subseteq {<<t, f>> : t \in Tuples, f \in Push!Files}
    BY <1>1
  <2> QED BY <1>1, <2>1, <2>2, <2>3, <2>4, <2>5, <2>6 DEF Push!TypeOK, Push!Sums
<1>3. Push!NewestIsLast'
  <2>1. Push!Missing <= newest
    BY PushVersionsAre DEF Push!IInv, Push!TypeOK, Push!Missing
  <2> QED BY <1>1, <2>1 DEF Push!IInv, Push!NewestIsLast, Push!NotCompared
<1>4. \A t \in Tuples : ~Push!Compared(t)'
  BY <1>1 DEF Push!Compared
<1>5. Push!Phases' /\ Push!UnchangedIsPushed' /\ Push!ZippedIsChanged'
  BY <1>1, <1>4 DEF Push!Phases, Push!UnchangedIsPushed, Push!ZippedIsChanged
<1>6. Push!LackingIsStale'
  BY <1>1 DEF Push!IInv, Push!LackingIsStale, Push!AlwaysReads
<1> QED BY <1>2, <1>3, <1>5, <1>6 DEF Push!IInv

LEMMA PushCallInv ==
  ASSUME Push!PushesApart, Push!IInv, NEW del \in BOOLEAN, Push!Call(del) PROVE Push!IInv'
<1>1. /\ pc = "idle" /\ pc' = "compares" /\ delete' = del /\ todo' = Tuples
      /\ changed' = {} /\ stale' = {} /\ touched' = {}
      /\ zip' = [f \in Push!Files |-> Push!Missing]
      /\ DOMAIN seen' = Tuples /\ \A t \in Tuples : seen'[t] = Push!NotCompared
      /\ omitted' = IF Cached THEN omitted ELSE {}
      /\ UNCHANGED <<host, newest, dev, tool, cache, commands>>
  BY DEF Push!Call, Push!NoFiles, Push!tree
<1>2. Push!TypeOK'
  <2>1. zip' \in [Push!Files -> Push!Versions]
    BY <1>1, PushVersionsAre
  <2> QED BY <1>1, <2>1 DEF Push!IInv, Push!TypeOK, Push!Sums
<1>3. Push!NewestIsLast'
  <2>1. Push!Missing <= newest
    BY PushVersionsAre DEF Push!IInv, Push!TypeOK, Push!Missing
  <2> QED BY <1>1, <2>1 DEF Push!IInv, Push!NewestIsLast, Push!NotCompared
<1>4. \A t \in Tuples : ~Push!Compared(t)'
  BY <1>1 DEF Push!Compared
<1>5. Push!Phases' /\ Push!UnchangedIsPushed' /\ Push!ZippedIsChanged'
  BY <1>1, <1>4 DEF Push!IInv, Push!Phases, Push!UnchangedIsPushed, Push!ZippedIsChanged
<1>6. Push!LackingIsStale'
  BY <1>1, <1>4 DEF Push!IInv, Push!LackingIsStale, Push!AlwaysReads
<1>7. Push!CacheIsTrue'
  BY <1>1 DEF Push!IInv, Push!CacheIsTrue, Push!IsOfHost
<1> QED BY <1>2, <1>3, <1>5, <1>6, <1>7 DEF Push!IInv

(* What a comparison takes for the checksums of the device.                *)
LEMMA PushDeviceSumsAre ==
  ASSUME Push!PushesApart, Push!IInv, NEW t \in Tuples, t \in todo,
         IF Push!IsCached(t) THEN UNCHANGED tool ELSE Push!PushTool
  PROVE  /\ Push!DeviceSums(t) \in Push!Sums(t) /\ tool' \in {"none", "half", "whole"}
         /\ \A f \in Below[t] :
              /\ Push!DeviceSums(t)[f] <= newest
              /\ Push!DeviceSums(t)[f] # Push!Missing /\ Push!DeviceSums(t)[f] = host[t][f] => dev[f] = host[t][f] \/ f \in omitted
              /\ Push!AlwaysReads => tool' = "whole" /\ Push!DeviceSums(t)[f] = dev[f]
         /\ Push!AlwaysReads => tool' # "half"
<1>1. tool' \in {"none", "half", "whole"}
  BY DEF Push!IInv, Push!TypeOK, Push!PushTool
<1>2. Push!Missing \in Push!Versions /\ Push!Versions \subseteq Nat /\ newest \in Nat /\ Push!Missing <= newest
  BY PushVersionsAre DEF Push!IInv, Push!TypeOK, Push!Missing
<1>3. CASE Push!IsCached(t)
  <2>1. cache[t] # Push!Unknown /\ Cached /\ Push!DeviceSums(t) = cache[t].sums /\ tool' = tool
    BY <1>3 DEF Push!IsCached, Push!DeviceSums
  <2>2. Push!DeviceSums(t) \in Push!Sums(t)
    BY <2>1 DEF Push!IInv, Push!TypeOK
  <2>3. \A f \in Below[t] : /\ Push!DeviceSums(t)[f] <= newest
                            /\ Push!DeviceSums(t)[f] # Push!Missing /\ Push!DeviceSums(t)[f] = host[t][f] => dev[f] = host[t][f] \/ f \in omitted
    BY <2>1 DEF Push!IInv, Push!CacheIsTrue, Push!IsOfHost
  <2> QED BY <1>1, <2>1, <2>2, <2>3 DEF Push!AlwaysReads
<1>4. CASE ~Push!IsCached(t)
  <2>1. Push!DeviceSums(t) = [f \in Below[t] |-> IF tool' = "whole" THEN dev[f] ELSE Push!Missing]
    BY <1>4 DEF Push!DeviceSums, Push!Md5Sums
  <2>2. \A f \in Below[t] : dev[f] \in Push!Versions /\ dev[f] <= newest
    BY PushTypesOf DEF Push!IInv, Push!TypeOK, Push!Files
  <2>3. Push!AlwaysReads => tool' = "whole"
    BY <1>4 DEF Push!PushTool, Push!AlwaysReads, Push!IInv, Push!LackingIsStale, Push!TypeOK
  <2>4. Push!DeviceSums(t) \in Push!Sums(t)
    BY <1>2, <2>1, <2>2 DEF Push!Sums
  <2> QED BY <1>1, <1>2, <2>1, <2>2, <2>3, <2>4
<1> QED BY <1>3, <1>4

LEMMA PushEntryIs ==
  ASSUME delete \in BOOLEAN, NEW S, NEW found \in S
  PROVE  Push!Entry(found) \in [ignore : BOOLEAN, sums : S] /\ Push!Entry(found).sums = found
BY DEF Push!Entry

LEMMA PushCompareInv ==
  ASSUME Push!PushesApart, Push!Disjoint, Push!IInv, NEW t \in Tuples,
         Push!Compare(t) PROVE Push!IInv'
<1> DEFINE found == Push!DeviceSums(t)
<1>1. /\ pc = "compares" /\ t \in todo /\ todo' = todo \ {t}
      /\ IF Push!IsCached(t) THEN UNCHANGED tool ELSE Push!PushTool
      /\ cache' = [cache EXCEPT ![t] = Push!Entry(found)]
      /\ changed' = changed \cup ({t} \X Push!ToPush(t, found))
      /\ stale' = stale \cup Push!ToDelete(t, found)
      /\ seen' = [seen EXCEPT ![t] = host[t]]
      /\ UNCHANGED <<host, newest, dev, commands, pc, delete, touched, zip, omitted>>
  BY DEF Push!Compare, Push!tree
<1>2. /\ found \in Push!Sums(t) /\ tool' \in {"none", "half", "whole"}
      /\ \A f \in Below[t] :
           /\ found[f] <= newest
           /\ found[f] # Push!Missing /\ found[f] = host[t][f] => dev[f] = host[t][f] \/ f \in omitted
           /\ Push!AlwaysReads => tool' = "whole" /\ found[f] = dev[f]
      /\ Push!AlwaysReads => tool' # "half"
  BY <1>1, PushDeviceSumsAre
<1>3. Push!Entry(found) \in [ignore : BOOLEAN, sums : Push!Sums(t)] /\ Push!Entry(found).sums = found
  BY <1>2, PushEntryIs DEF Push!IInv, Push!TypeOK
<1> HIDE DEF found
<1>4. /\ DOMAIN cache' = Tuples /\ cache'[t] = Push!Entry(found)
      /\ DOMAIN seen' = Tuples /\ seen'[t] = host[t]
      /\ \A u \in Tuples : u # t => cache'[u] = cache[u] /\ seen'[u] = seen[u]
  BY <1>1 DEF Push!IInv, Push!TypeOK
<1>5. /\ \A u \in Tuples : u # t => \A g \in Below[u] :
              /\ <<u, g>> \in changed' <=> <<u, g>> \in changed
              /\ g \in stale' <=> g \in stale
      /\ \A g \in Below[t] :
              /\ <<t, g>> \in changed' <=> host[t][g] # Push!Missing /\ found[g] # host[t][g]
              /\ g \in stale' <=> delete /\ host[t][g] = Push!Missing /\ found[g] # Push!Missing
  <2>1. Push!ToDelete(t, found) \subseteq Below[t]
    BY DEF Push!ToDelete
  <2>2. \A g \in Below[t] : <<t, g>> \notin changed /\ g \notin stale
    BY <1>1 DEF Push!IInv, Push!Phases
  <2>3. \A u \in Tuples : u # t => \A g \in Below[u] : g \notin Push!ToDelete(t, found)
    BY <2>1, PushBelowOne
  <2>4. \A g \in Below[t] : /\ g \in Push!ToPush(t, found) <=> host[t][g] # Push!Missing /\ found[g] # host[t][g]
                            /\ g \in Push!ToDelete(t, found) <=> delete /\ host[t][g] = Push!Missing /\ found[g] # Push!Missing
    BY DEF Push!ToPush, Push!ToDelete, Push!Exists
  <2> QED BY <1>1, <2>2, <2>3, <2>4
<1>6. Push!TypeOK'
  <2>1. Push!ToPush(t, found) \subseteq Push!Files /\ Push!ToDelete(t, found) \subseteq Push!Files
    BY DEF Push!ToPush, Push!ToDelete, Push!Exists, Push!Files
  <2>2. changed' \subseteq {<<u, f>> : u \in Tuples, f \in Push!Files} /\ stale' \subseteq Push!Files
    BY <1>1, <2>1 DEF Push!IInv, Push!TypeOK
  <2>3. host[t] \in Push!Sums(t)
    BY DEF Push!IInv, Push!TypeOK
  <2>4. \A u \in Tuples : cache'[u] = Push!Unknown \/ cache'[u] \in [ignore : BOOLEAN, sums : Push!Sums(u)]
    BY <1>3, <1>4 DEF Push!IInv, Push!TypeOK
  <2>5. \A u \in Tuples : seen'[u] \in {Push!NotCompared} \cup Push!Sums(u)
    BY <1>4, <2>3 DEF Push!IInv, Push!TypeOK
  <2> QED BY <1>1, <1>2, <1>4, <2>2, <2>4, <2>5 DEF Push!IInv, Push!TypeOK, Push!Sums
<1>7. Push!NewestIsLast'
  <2>1. \A g \in DOMAIN seen'[t] : seen'[t][g] <= newest
    BY <1>4 DEF Push!IInv, Push!NewestIsLast, Push!TypeOK, Push!Sums
  <2> QED BY <1>1, <1>4, <2>1 DEF Push!IInv, Push!NewestIsLast
<1>8. \A u \in Tuples : u # t => (Push!Compared(u)' <=> Push!Compared(u))
  BY <1>4 DEF Push!Compared
<1>9. Push!Phases'
  <2>1. \A u \in todo' : ~Push!Compared(u)' /\ \A g \in Below[u] : <<u, g>> \notin changed'
    BY <1>1, <1>5, <1>8 DEF Push!IInv, Push!Phases, Push!TypeOK
  <2>2. \A u \in Tuples : ~Push!Compared(u)' => Below[u] \cap stale' = {}
    <3>1. CASE Below[t] = {}
      BY <1>5, <1>8, <3>1 DEF Push!IInv, Push!Phases
    <3>2. CASE Below[t] # {}
      <4>1. DOMAIN host[t] = Below[t] /\ DOMAIN Push!NotCompared = {}
        BY DEF Push!IInv, Push!TypeOK, Push!Sums, Push!NotCompared
      <4>2. Push!Compared(t)'
        BY <1>4, <3>2, <4>1 DEF Push!Compared, Push!NotCompared
      <4> QED BY <1>5, <1>8, <4>2 DEF Push!IInv, Push!Phases
    <3> QED BY <3>1, <3>2
  <2>3. \A p \in changed' : p[2] \in Below[p[1]]
    <3>1. Push!ToPush(t, found) \subseteq Below[t]
      BY DEF Push!ToPush, Push!Exists
    <3> QED BY <1>1, <3>1 DEF Push!IInv, Push!Phases
  <2>4. omitted' # {} \/ pc' = "zipped" => commands' = "True"
    BY <1>1 DEF Push!IInv, Push!Phases
  <2> QED BY <1>1, <2>1, <2>2, <2>3, <2>4 DEF Push!Phases
<1>10. Push!UnchangedIsPushed'
  <2> SUFFICES ASSUME NEW u \in Tuples, Push!Compared(u)', NEW g \in Below[u]
               PROVE  /\ g \notin touched => seen'[u][g] = host[u][g]
                      /\ <<u, g>> \in changed' => seen'[u][g] # Push!Missing
                      /\ g \in stale' => seen'[u][g] = Push!Missing
                      /\ seen'[u][g] # Push!Missing /\ Push!Unchanged(u, g)' => <<u, g>> \in changed' \/ dev[g] = host[u][g] \/ g \in omitted
    BY <1>1, <1>9 DEF Push!UnchangedIsPushed, Push!Phases
  <2>1. CASE u = t
    BY <1>1, <1>2, <1>4, <1>5, <2>1
  <2>2. CASE u # t
    <3>1. Push!Compared(u) /\ seen'[u] = seen[u] /\ (Push!Unchanged(u, g)' <=> Push!Unchanged(u, g))
      BY <1>1, <1>4, <1>8, <2>2 DEF Push!Unchanged, Push!IInv, Push!Phases
    <3>2. /\ <<u, g>> \in changed' <=> <<u, g>> \in changed
          /\ g \in stale' <=> g \in stale
      BY <1>5, <2>2
    <3> QED BY <1>1, <3>1, <3>2 DEF Push!IInv, Push!UnchangedIsPushed
  <2> QED BY <2>1, <2>2
<1>11. Push!ZippedIsChanged'
  BY <1>1 DEF Push!ZippedIsChanged
<1>12. Push!CacheIsTrue'
  <2> SUFFICES ASSUME Cached, NEW u \in Tuples, cache'[u] # Push!Unknown, NEW g \in Below[u]
               PROVE  /\ cache'[u].sums[g] <= newest
                      /\ Push!IsOfHost(u, g)' => (dev[g] = host[u][g] \/ g \in omitted) /\ g \notin stale'
    BY <1>1 DEF Push!CacheIsTrue
  <2>1. CASE u = t
    <3>1. cache'[t].sums = found
      BY <1>3, <1>4
    <3>2. Push!IsOfHost(t, g)' => found[g] # Push!Missing /\ found[g] = host[t][g]
      BY <1>1, <3>1 DEF Push!IsOfHost
    <3> QED BY <1>2, <1>5, <2>1, <3>1, <3>2
  <2>2. CASE u # t
    BY <1>1, <1>4, <1>5, <2>2 DEF Push!IInv, Push!CacheIsTrue, Push!IsOfHost
  <2> QED BY <2>1, <2>2
<1>13. Push!LackingIsStale'
  <2> SUFFICES ASSUME Push!AlwaysReads, delete, NEW u \in Tuples, Push!Compared(u)', NEW g \in Below[u],
                      seen'[u][g] = Push!Missing, g \notin touched
               PROVE  dev[g] = Push!Missing \/ (pc = "compares" /\ g \in stale')
    BY <1>1, <1>2 DEF Push!LackingIsStale, Push!AlwaysReads
  <2>1. CASE u = t
    BY <1>1, <1>2, <1>4, <1>5, <2>1
  <2>2. CASE u # t
    BY <1>1, <1>4, <1>5, <1>8, <2>2 DEF Push!IInv, Push!LackingIsStale
  <2> QED BY <2>1, <2>2
<1> QED BY <1>6, <1>7, <1>9, <1>10, <1>11, <1>12, <1>13 DEF Push!IInv

LEMMA PushCompareFailsInv ==
  ASSUME Push!PushesApart, Push!Disjoint, Push!IInv, NEW t \in Tuples,
         Push!CompareFails(t) PROVE Push!IInv'
<1>1. /\ pc = "compares" /\ t \in todo /\ todo' = todo \ {t}
      /\ changed' = changed \cup ({t} \X Push!Exists(t))
      /\ UNCHANGED <<host, newest, dev, tool, cache, commands, pc, delete, seen, stale, touched, zip, omitted>>
  BY DEF Push!CompareFails, Push!tree, Push!call
<1>2. ~Push!Compared(t)
  BY <1>1 DEF Push!IInv, Push!Phases
<1>3. /\ \A u \in Tuples : \A g \in Below[u] : u # t => (<<u, g>> \in changed' <=> <<u, g>> \in changed)
      /\ \A u \in Tuples : Push!Compared(u)' <=> Push!Compared(u)
  BY <1>1 DEF Push!Compared
<1>4. Push!TypeOK'
  <2>1. Push!Exists(t) \subseteq Push!Files
    BY DEF Push!Exists, Push!Files
  <2>2. changed' \subseteq {<<u, f>> : u \in Tuples, f \in Push!Files}
    BY <1>1, <2>1 DEF Push!IInv, Push!TypeOK
  <2> QED BY <1>1, <2>2 DEF Push!IInv, Push!TypeOK, Push!Sums
<1>5. Push!Phases'
  <2>1. \A p \in changed' : p[2] \in Below[p[1]]
    <3>1. Push!Exists(t) \subseteq Below[t]
      BY DEF Push!Exists
    <3> QED BY <1>1, <3>1 DEF Push!IInv, Push!Phases
  <2>2. \A u \in todo' : ~Push!Compared(u)' /\ \A g \in Below[u] : <<u, g>> \notin changed'
    BY <1>1, <1>3 DEF Push!IInv, Push!Phases, Push!TypeOK
  <2> QED BY <1>1, <1>3, <2>1, <2>2 DEF Push!IInv, Push!Phases
<1>6. Push!UnchangedIsPushed'
  <2> SUFFICES ASSUME NEW u \in Tuples, Push!Compared(u), NEW g \in Below[u]
               PROVE  /\ g \notin touched => seen[u][g] = host[u][g]
                      /\ <<u, g>> \in changed' => seen[u][g] # Push!Missing
                      /\ g \in stale => seen[u][g] = Push!Missing
                      /\ seen[u][g] # Push!Missing /\ Push!Unchanged(u, g)' => <<u, g>> \in changed' \/ dev[g] = host[u][g] \/ g \in omitted
    BY <1>1, <1>3, <1>5 DEF Push!UnchangedIsPushed, Push!Phases
  <2>1. u # t /\ (Push!Unchanged(u, g)' <=> Push!Unchanged(u, g))
    BY <1>1, <1>2 DEF Push!Unchanged, Push!IInv, Push!Phases
  <2> QED BY <1>1, <1>3, <2>1 DEF Push!IInv, Push!UnchangedIsPushed
<1>7. Push!NewestIsLast' /\ Push!CacheIsTrue' /\ Push!LackingIsStale'
  BY <1>1, <1>3 DEF Push!IInv, Push!NewestIsLast, Push!CacheIsTrue, Push!IsOfHost,
        Push!LackingIsStale
<1>8. Push!ZippedIsChanged'
  BY <1>1 DEF Push!ZippedIsChanged
<1> QED BY <1>4, <1>5, <1>6, <1>7, <1>8 DEF Push!IInv

LEMMA PushDeleteStaleInv ==
  ASSUME Push!PushesApart, Push!Disjoint, Push!IInv, Push!DeleteStale PROVE Push!IInv'
<1>1. pc = "compares" /\ todo = {} /\ UNCHANGED <<host, newest, tool, cache, commands, omitted>>
  BY DEF Push!DeleteStale, Push!tree
<1>2. PICK some \in SUBSET stale :
        /\ dev' = [f \in Push!Files |-> IF f \in some THEN Push!Missing ELSE dev[f]]
        /\ \/ /\ some = stale /\ pc' = (IF changed = {} THEN "commits" ELSE "pushes")
              /\ UNCHANGED <<delete, seen, todo, changed, stale, touched, zip>>
           \/ Push!Fails
  <2>1. CASE stale # {} /\ Push!Fails /\ \E some \in SUBSET stale :
               dev' = [f \in Push!Files |-> IF f \in some THEN Push!Missing ELSE dev[f]]
    BY <2>1
  <2>2. CASE /\ dev' = [f \in Push!Files |-> IF f \in stale THEN Push!Missing ELSE dev[f]]
             /\ pc' = (IF changed = {} THEN "commits" ELSE "pushes")
             /\ UNCHANGED <<Push!call, todo, changed, stale, touched, zip>>
    BY <2>2 DEF Push!call
  <2> QED BY <2>1, <2>2 DEF Push!DeleteStale
<1>3. /\ dev' \in [Push!Files -> Push!Versions]
      /\ \A f \in Push!Files : dev'[f] <= newest
      /\ \A f \in Push!Files \ stale : dev'[f] = dev[f]
  <2>1. Push!Missing \in Push!Versions /\ Push!Missing <= newest
    BY PushVersionsAre DEF Push!IInv, Push!TypeOK, Push!Missing
  <2>2. dev \in [Push!Files -> Push!Versions] /\ \A f \in Push!Files : dev[f] <= newest
    BY DEF Push!IInv, Push!TypeOK, Push!NewestIsLast
  <2> QED BY <1>2, <2>1, <2>2
<1>4. \A u \in Tuples : \A g \in Below[u] : g \in Push!Files
  BY PushFileIsBelow
<1>5. Push!CacheIsTrue'
  <2> SUFFICES ASSUME Cached, NEW u \in Tuples, cache[u] # Push!Unknown, NEW g \in Below[u]
               PROVE  /\ cache[u].sums[g] <= newest
                      /\ Push!IsOfHost(u, g)' => (dev'[g] = host[u][g] \/ g \in omitted) /\ g \notin stale'
    BY <1>1 DEF Push!CacheIsTrue
  <2>1. stale' \subseteq stale /\ (Push!IsOfHost(u, g)' <=> Push!IsOfHost(u, g))
    BY <1>1, <1>2 DEF Push!Fails, Push!IsOfHost
  <2> QED BY <1>3, <1>4, <2>1 DEF Push!IInv, Push!CacheIsTrue
<1>6. CASE Push!Fails
  BY <1>1, <1>3, <1>5, <1>6, PushFailsInv DEF Push!IInv, Push!TypeOK, Push!Phases
<1>7. CASE /\ some = stale /\ pc' = (IF changed = {} THEN "commits" ELSE "pushes")
           /\ UNCHANGED <<delete, seen, todo, changed, stale, touched, zip>>
  <2>1. Push!TypeOK' /\ Push!NewestIsLast'
    BY <1>1, <1>3, <1>7 DEF Push!IInv, Push!TypeOK, Push!NewestIsLast, Push!Sums
  <2>2. \A u \in Tuples : Push!Compared(u)' <=> Push!Compared(u)
    BY <1>7 DEF Push!Compared
  <2>3. Push!Phases'
    BY <1>1, <1>7, <2>2 DEF Push!IInv, Push!Phases
  <2>4. Push!UnchangedIsPushed'
    <3> SUFFICES ASSUME NEW u \in Tuples, Push!Compared(u), NEW g \in Below[u]
                 PROVE  /\ g \notin touched => seen[u][g] = host[u][g]
                        /\ <<u, g>> \in changed => seen[u][g] # Push!Missing
                        /\ g \in stale => seen[u][g] = Push!Missing
                        /\ seen[u][g] # Push!Missing /\ Push!Unchanged(u, g)' => <<u, g>> \in changed \/ dev'[g] = host[u][g] \/ g \in omitted
      BY <1>1, <1>7, <2>2 DEF Push!UnchangedIsPushed
    <3>1. Push!Unchanged(u, g)' <=> Push!Unchanged(u, g)
      BY <1>1, <1>7 DEF Push!Unchanged
    <3> QED BY <1>3, <1>4, <3>1 DEF Push!IInv, Push!UnchangedIsPushed
  <2>5. Push!ZippedIsChanged'
    BY <1>7 DEF Push!ZippedIsChanged
  <2>6. Push!LackingIsStale'
    <3> SUFFICES ASSUME Push!AlwaysReads, delete, NEW u \in Tuples, Push!Compared(u), NEW g \in Below[u],
                        seen[u][g] = Push!Missing, g \notin touched
                 PROVE  dev'[g] = Push!Missing
      BY <1>1, <1>7, <2>2 DEF Push!IInv, Push!LackingIsStale, Push!AlwaysReads
    <3>1. dev[g] = Push!Missing \/ g \in stale
      BY DEF Push!IInv, Push!LackingIsStale
    <3> QED BY <1>2, <1>4, <1>7, <3>1
  <2> QED BY <1>5, <2>1, <2>3, <2>4, <2>5, <2>6 DEF Push!IInv
<1> QED BY <1>2, <1>6, <1>7

LEMMA PushOfFileInv ==
  ASSUME Push!PushesApart, Push!Disjoint, Push!IInv, NEW t \in Tuples, NEW f \in Below[t],
         Push!Push(t, f) PROVE Push!IInv'
<1>1. /\ pc \in {"pushes", "individually"} /\ <<t, f>> \in changed /\ host[t][f] # Push!Missing
      /\ dev' = [dev EXCEPT ![f] = host[t][f]]
      /\ changed' = changed \ {<<t, f>>} /\ omitted' = omitted \ {f}
      /\ pc' = IF changed' = {} THEN "commits" ELSE "individually"
      /\ UNCHANGED <<host, newest, tool, cache, commands, delete, seen, todo, stale, touched, zip>>
  BY DEF Push!Push, Push!tree, Push!call
<1>2. /\ f \in Push!Files /\ host[t][f] \in Push!Versions /\ host[t][f] <= newest
      /\ dev'[f] = host[t][f] /\ \A g \in Push!Files : g # f => dev'[g] = dev[g]
      /\ dev' \in [Push!Files -> Push!Versions] /\ \A g \in Push!Files : dev'[g] <= newest
  <2>1. f \in Push!Files /\ host[t][f] \in Push!Versions /\ host[t][f] <= newest
    BY PushTypesOf
  <2>2. dev \in [Push!Files -> Push!Versions] /\ \A g \in Push!Files : dev[g] <= newest
    BY DEF Push!IInv, Push!TypeOK, Push!NewestIsLast
  <2> QED BY <1>1, <2>1, <2>2
<1>3. \A u \in Tuples : \A g \in Below[u] : g \in Push!Files /\ (g = f => u = t)
  BY PushFileIsBelow, PushBelowOne
<1>4. \A u \in Tuples : Push!Compared(u)' <=> Push!Compared(u)
  BY <1>1 DEF Push!Compared
<1>5. Push!TypeOK' /\ Push!NewestIsLast'
  BY <1>1, <1>2 DEF Push!IInv, Push!TypeOK, Push!NewestIsLast, Push!Sums
<1>6. Push!Phases'
  BY <1>1, <1>4 DEF Push!IInv, Push!Phases
<1>7. Push!UnchangedIsPushed'
  <2> SUFFICES ASSUME NEW u \in Tuples, Push!Compared(u), NEW g \in Below[u]
               PROVE  /\ g \notin touched => seen[u][g] = host[u][g]
                      /\ <<u, g>> \in changed' => seen[u][g] # Push!Missing
                      /\ g \in stale => seen[u][g] = Push!Missing
                      /\ seen[u][g] # Push!Missing /\ Push!Unchanged(u, g)' => <<u, g>> \in changed' \/ dev'[g] = host[u][g] \/ g \in omitted'
    BY <1>1, <1>4 DEF Push!UnchangedIsPushed
  <2>1. Push!Unchanged(u, g)' <=> Push!Unchanged(u, g)
    BY <1>1 DEF Push!Unchanged
  <2>2. /\ g \notin touched => seen[u][g] = host[u][g]
        /\ <<u, g>> \in changed => seen[u][g] # Push!Missing
        /\ g \in stale => seen[u][g] = Push!Missing
        /\ seen[u][g] # Push!Missing /\ Push!Unchanged(u, g) => <<u, g>> \in changed \/ dev[g] = host[u][g] \/ g \in omitted
    BY DEF Push!IInv, Push!UnchangedIsPushed
  <2> QED BY <1>1, <1>2, <1>3, <2>1, <2>2
<1>8. Push!ZippedIsChanged'
  BY <1>1 DEF Push!ZippedIsChanged
<1>9. Push!CacheIsTrue'
  <2> SUFFICES ASSUME Cached, NEW u \in Tuples, cache[u] # Push!Unknown, NEW g \in Below[u]
               PROVE  /\ cache[u].sums[g] <= newest
                      /\ Push!IsOfHost(u, g)' => (dev'[g] = host[u][g] \/ g \in omitted') /\ g \notin stale
    BY <1>1 DEF Push!CacheIsTrue
  <2>1. Push!IsOfHost(u, g)' <=> Push!IsOfHost(u, g)
    BY <1>1 DEF Push!IsOfHost
  <2>2. cache[u].sums[g] <= newest /\ (Push!IsOfHost(u, g) => (dev[g] = host[u][g] \/ g \in omitted) /\ g \notin stale)
    BY DEF Push!IInv, Push!CacheIsTrue
  <2> QED BY <1>1, <1>2, <1>3, <2>1, <2>2
<1>10. Push!LackingIsStale'
  <2> SUFFICES ASSUME Push!AlwaysReads, delete, NEW u \in Tuples, Push!Compared(u), NEW g \in Below[u],
                      seen[u][g] = Push!Missing, g \notin touched
               PROVE  dev'[g] = Push!Missing
    BY <1>1, <1>4 DEF Push!IInv, Push!LackingIsStale, Push!AlwaysReads
  <2>1. dev[g] = Push!Missing
    BY <1>1 DEF Push!IInv, Push!LackingIsStale
  <2>2. host[u][g] = Push!Missing
    BY DEF Push!IInv, Push!UnchangedIsPushed
  <2> QED BY <1>1, <1>2, <1>3, <2>1, <2>2
<1> QED BY <1>5, <1>6, <1>7, <1>8, <1>9, <1>10 DEF Push!IInv

LEMMA PushOfFileFailsInv == ASSUME Push!PushesApart, Push!IInv, Push!PushFails PROVE Push!IInv'
<1>1. Push!Fails /\ UNCHANGED <<host, newest, dev, tool, cache, commands, omitted>>
  BY DEF Push!PushFails, Push!tree
<1>2. stale' = {}
  BY <1>1 DEF Push!Fails
<1>3. Push!CacheIsTrue'
  BY <1>1, <1>2 DEF Push!IInv, Push!CacheIsTrue, Push!IsOfHost
<1>4. /\ dev' \in [Push!Files -> Push!Versions] /\ \A f \in Push!Files : dev'[f] <= newest
      /\ commands' \in {"None", "True", "False"} /\ DOMAIN cache' = Tuples
      /\ \A t \in Tuples : cache'[t] = Push!Unknown \/ cache'[t] \in [ignore : BOOLEAN, sums : Push!Sums(t)]
      /\ omitted # {} => commands' = "True"
  BY <1>1 DEF Push!IInv, Push!TypeOK, Push!NewestIsLast, Push!Phases
<1> QED BY <1>1, <1>3, <1>4, PushFailsInv

LEMMA PushZipFilesInv ==
  ASSUME Push!PushesApart, Push!Disjoint, Push!IInv, Push!ZipFiles PROVE Push!IInv'
<1>1. /\ pc = "pushes" /\ commands' = "True" /\ pc' = "zipped"
      /\ zip' \in [Push!Files -> 0 .. MaxVersion]
      /\ \A f \in Push!Files :
           zip'[f] # Push!Missing => \E t \in Tuples : <<t, f>> \in changed /\ zip'[f] = host[t][f]
      /\ UNCHANGED <<host, newest, dev, tool, cache, delete, seen, todo, changed, stale, touched, omitted>>
  BY DEF Push!ZipFiles, Push!tree, Push!call
<1>2. \A u \in Tuples : Push!Compared(u)' <=> Push!Compared(u)
  BY <1>1 DEF Push!Compared
<1>3. ASSUME NEW u \in Tuples, NEW f \in Push!Files, <<u, f>> \in changed PROVE f \in Below[u]
  <2>1. <<u, f>>[2] \in Below[<<u, f>>[1]]
    BY <1>3 DEF Push!IInv, Push!Phases
  <2> QED BY <2>1
<1>4. ASSUME NEW u \in Tuples, NEW f \in Below[u], zip'[f] # Push!Missing
      PROVE  <<u, f>> \in changed /\ zip'[f] = host[u][f]
  <2>1. PICK t \in Tuples : <<t, f>> \in changed /\ zip'[f] = host[t][f]
    BY <1>1, <1>4, PushFileIsBelow
  <2>2. t = u
    BY <1>3, <2>1, PushFileIsBelow, PushBelowOne
  <2> QED BY <2>1, <2>2
<1>5. Push!TypeOK'
  BY <1>1 DEF Push!IInv, Push!TypeOK, Push!Sums, Push!Versions
<1>6. Push!NewestIsLast'
  <2>1. ASSUME NEW f \in Push!Files PROVE zip'[f] <= newest
    <3>1. Push!Missing <= newest
      BY PushVersionsAre DEF Push!IInv, Push!TypeOK, Push!Missing
    <3>2. CASE zip'[f] # Push!Missing
      <4>1. PICK t \in Tuples : <<t, f>> \in changed /\ zip'[f] = host[t][f]
        BY <1>1, <3>2
      <4> QED BY <1>3, <4>1 DEF Push!IInv, Push!NewestIsLast
    <3> QED BY <1>1, <3>1, <3>2
  <2> QED BY <1>1, <2>1 DEF Push!IInv, Push!NewestIsLast
<1>7. Push!Phases' /\ Push!CacheIsTrue'
  BY <1>1, <1>2 DEF Push!IInv, Push!Phases, Push!CacheIsTrue, Push!IsOfHost
<1>8. Push!UnchangedIsPushed' /\ Push!LackingIsStale'
  BY <1>1, <1>2 DEF Push!IInv, Push!UnchangedIsPushed, Push!Unchanged, Push!LackingIsStale
<1>9. Push!ZippedIsChanged'
  BY <1>1, <1>4 DEF Push!ZippedIsChanged
<1> QED BY <1>5, <1>6, <1>7, <1>8, <1>9 DEF Push!IInv

LEMMA PushNoUnzipInv == ASSUME Push!IInv, Push!NoUnzip PROVE Push!IInv'
<1>1. /\ pc = "pushes" /\ commands' = "False" /\ pc' = "individually"
      /\ commands = "None"
      /\ UNCHANGED <<host, newest, dev, tool, cache, delete, seen, todo, changed, stale, touched, zip, omitted>>
  BY DEF Push!NoUnzip, Push!tree, Push!call
<1>2. \A u \in Tuples : Push!Compared(u)' <=> Push!Compared(u)
  BY <1>1 DEF Push!Compared
<1>3. Push!TypeOK' /\ Push!NewestIsLast' /\ Push!Phases'
  BY <1>1, <1>2 DEF Push!IInv, Push!TypeOK, Push!NewestIsLast, Push!Phases, Push!Sums
<1>4. Push!UnchangedIsPushed' /\ Push!ZippedIsChanged'
  BY <1>1, <1>2 DEF Push!IInv, Push!UnchangedIsPushed, Push!Unchanged, Push!ZippedIsChanged
<1>5. Push!CacheIsTrue' /\ Push!LackingIsStale'
  BY <1>1, <1>2 DEF Push!IInv, Push!CacheIsTrue, Push!IsOfHost, Push!LackingIsStale
<1> QED BY <1>3, <1>4, <1>5 DEF Push!IInv

LEMMA PushUnzipInv ==
  ASSUME Push!PushesApart, Push!Disjoint, Push!IInv, Push!Unzip PROVE Push!IInv'
<1>1. pc = "zipped" /\ UNCHANGED <<host, newest, tool, cache, commands>>
  BY DEF Push!Unzip, Push!tree
<1>2. PICK some \in SUBSET Push!Files :
        /\ dev' = Push!Unzipped(some)
        /\ \/ /\ some = Push!Files /\ pc' = "commits" /\ changed' = {} /\ zip' = Push!NoFiles
              /\ omitted' = (omitted \cup {p[2] : p \in changed}) \ Push!Zipped
              /\ UNCHANGED <<delete, seen, todo, stale, touched>>
           \/ Push!Fails /\ UNCHANGED omitted
  <2>1. CASE \E some \in SUBSET Push!Files : dev' = Push!Unzipped(some) /\ Push!Fails /\ UNCHANGED omitted
    BY <2>1
  <2>2. CASE /\ dev' = Push!Unzipped(Push!Files) /\ pc' = "commits" /\ changed' = {} /\ zip' = Push!NoFiles
             /\ omitted' = (omitted \cup {p[2] : p \in changed}) \ Push!Zipped
             /\ UNCHANGED <<Push!call, todo, stale, touched>>
    BY <2>2 DEF Push!call
  <2> QED BY <2>1, <2>2 DEF Push!Unzip
<1>3. /\ dev' \in [Push!Files -> Push!Versions] /\ \A f \in Push!Files : dev'[f] <= newest
      /\ \A f \in Push!Files : dev'[f] = IF f \in some /\ zip[f] # Push!Missing THEN zip[f] ELSE dev[f]
  <2>1. /\ dev \in [Push!Files -> Push!Versions] /\ zip \in [Push!Files -> Push!Versions]
        /\ \A f \in Push!Files : dev[f] <= newest /\ zip[f] <= newest
    BY DEF Push!IInv, Push!TypeOK, Push!NewestIsLast
  <2> QED BY <1>2, <2>1 DEF Push!Unzipped, Push!Zipped
<1>4. Push!CacheIsTrue'
  <2> SUFFICES ASSUME Cached, NEW u \in Tuples, cache[u] # Push!Unknown, NEW g \in Below[u]
               PROVE  /\ cache[u].sums[g] <= newest
                      /\ Push!IsOfHost(u, g)' => (dev'[g] = host[u][g] \/ g \in omitted') /\ g \notin stale'
    BY <1>1 DEF Push!CacheIsTrue
  <2>1. (Push!IsOfHost(u, g)' <=> Push!IsOfHost(u, g)) /\ stale' \subseteq stale /\ g \in Push!Files
    BY <1>1, <1>2, PushFileIsBelow DEF Push!IsOfHost, Push!Fails
  <2>2. cache[u].sums[g] <= newest /\ (Push!IsOfHost(u, g) => (dev[g] = host[u][g] \/ g \in omitted) /\ g \notin stale)
    BY DEF Push!IInv, Push!CacheIsTrue
  <2>3. zip[g] # Push!Missing /\ Push!IsOfHost(u, g) => zip[g] = host[u][g]
    BY <1>1 DEF Push!IInv, Push!ZippedIsChanged
  <2>4. CASE Push!Fails /\ UNCHANGED omitted
    BY <1>3, <2>1, <2>2, <2>3, <2>4
  <2>5. CASE some = Push!Files /\ omitted' = (omitted \cup {p[2] : p \in changed}) \ Push!Zipped
    BY <1>3, <2>1, <2>2, <2>3, <2>5 DEF Push!Zipped
  <2> QED BY <1>2, <2>4, <2>5
<1>5. CASE Push!Fails /\ UNCHANGED omitted
  <2>1. /\ commands' \in {"None", "True", "False"} /\ DOMAIN cache' = Tuples
        /\ \A t \in Tuples : cache'[t] = Push!Unknown \/ cache'[t] \in [ignore : BOOLEAN, sums : Push!Sums(t)]
        /\ omitted # {} => commands' = "True"
    BY <1>1 DEF Push!IInv, Push!TypeOK, Push!Phases
  <2> QED BY <1>1, <1>3, <1>4, <1>5, <2>1, PushFailsInv
<1>6. CASE /\ some = Push!Files /\ pc' = "commits" /\ changed' = {} /\ zip' = Push!NoFiles
           /\ omitted' = (omitted \cup {p[2] : p \in changed}) \ Push!Zipped
           /\ UNCHANGED <<delete, seen, todo, stale, touched>>
  <2>1. zip' \in [Push!Files -> Push!Versions] /\ \A f \in Push!Files : zip'[f] <= newest
    <3>1. Push!Missing \in Push!Versions /\ Push!Missing <= newest
      BY PushVersionsAre DEF Push!IInv, Push!TypeOK, Push!Missing
    <3> QED BY <1>6, <3>1 DEF Push!NoFiles
  <2>9. omitted' \subseteq Push!Files
    <3>1. omitted \subseteq Push!Files /\ changed \subseteq {<<t, f>> : t \in Tuples, f \in Push!Files}
      BY DEF Push!IInv, Push!TypeOK
    <3> QED BY <1>6, <3>1
  <2>2. Push!TypeOK' /\ Push!NewestIsLast'
    BY <2>9, <1>1, <1>3, <1>6, <2>1 DEF Push!IInv, Push!TypeOK, Push!NewestIsLast, Push!Sums
  <2>3. \A u \in Tuples : Push!Compared(u)' <=> Push!Compared(u)
    BY <1>6 DEF Push!Compared
  <2>4. Push!Phases'
    BY <1>1, <1>6, <2>3 DEF Push!IInv, Push!Phases
  <2>5. ASSUME NEW u \in Tuples, Push!Compared(u), NEW g \in Below[u]
        PROVE  /\ g \in Push!Files /\ (Push!Unchanged(u, g)' <=> Push!Unchanged(u, g))
               /\ g \notin touched => seen[u][g] = host[u][g]
               /\ g \in stale => seen[u][g] = Push!Missing
               /\ seen[u][g] # Push!Missing /\ Push!Unchanged(u, g) => dev'[g] = host[u][g] \/ g \in omitted'
               /\ seen[u][g] = Push!Missing => dev'[g] = dev[g]
    <3>1. g \in Push!Files /\ (Push!Unchanged(u, g)' <=> Push!Unchanged(u, g))
      BY <1>1, <1>6, <2>5, PushFileIsBelow DEF Push!Unchanged
    <3>2. /\ g \notin touched => seen[u][g] = host[u][g]
          /\ <<u, g>> \in changed => seen[u][g] # Push!Missing
          /\ g \in stale => seen[u][g] = Push!Missing
          /\ seen[u][g] # Push!Missing /\ Push!Unchanged(u, g) => <<u, g>> \in changed \/ dev[g] = host[u][g] \/ g \in omitted
      BY <2>5 DEF Push!IInv, Push!UnchangedIsPushed
    <3>3. /\ zip[g] # Push!Missing => <<u, g>> \in changed
          /\ zip[g] # Push!Missing /\ Push!Unchanged(u, g) => zip[g] = host[u][g]
      BY <1>1, <2>5 DEF Push!IInv, Push!ZippedIsChanged
    <3>4. <<u, g>> \in changed => g \in {p[2] : p \in changed}
      OBVIOUS
    <3>5. g \in omitted' <=> (g \in omitted \/ g \in {p[2] : p \in changed}) /\ zip[g] = Push!Missing
      BY <1>6, <3>1 DEF Push!Zipped
    <3> QED BY <1>3, <1>6, <3>1, <3>2, <3>3, <3>4, <3>5
  <2>6. Push!UnchangedIsPushed'
    BY <1>1, <1>6, <2>3, <2>5 DEF Push!UnchangedIsPushed
  <2>7. Push!ZippedIsChanged'
    BY <1>6 DEF Push!ZippedIsChanged
  <2>8. Push!LackingIsStale'
    BY <1>1, <1>6, <2>3, <2>5 DEF Push!IInv, Push!LackingIsStale, Push!AlwaysReads
  <2> QED BY <1>4, <2>2, <2>4, <2>6, <2>7, <2>8 DEF Push!IInv
<1> QED BY <1>2, <1>5, <1>6

LEMMA PushCommitInv == ASSUME Push!PushesApart, Push!IInv, Push!Commit PROVE Push!IInv'
<1>1. /\ pc = "commits" /\ Push!Fails /\ UNCHANGED <<host, newest, dev, tool, commands, omitted>>
      /\ cache' = [t \in Tuples |-> IF seen[t] = Push!NotCompared THEN cache[t] ELSE Push!Entry(seen[t])]
  BY DEF Push!Commit, Push!tree
<1>2. changed = {} /\ stale' = {}
  BY <1>1 DEF Push!IInv, Push!Phases, Push!Fails
<1>3. ASSUME NEW t \in Tuples, Push!Compared(t)
      PROVE  /\ cache'[t] \in [ignore : BOOLEAN, sums : Push!Sums(t)] /\ cache'[t].sums = seen[t]
  <2>1. seen[t] \in Push!Sums(t) /\ delete \in BOOLEAN
    BY <1>3 DEF Push!IInv, Push!TypeOK, Push!Compared
  <2>2. cache'[t] = Push!Entry(seen[t])
    BY <1>1, <1>3 DEF Push!Compared
  <2> QED BY <2>1, <2>2, PushEntryIs
<1>4. \A t \in Tuples : ~Push!Compared(t) => cache'[t] = cache[t]
  BY <1>1 DEF Push!Compared
<1>5. Push!CacheIsTrue'
  <2> SUFFICES ASSUME Cached, NEW t \in Tuples, cache'[t] # Push!Unknown, NEW f \in Below[t]
               PROVE  /\ cache'[t].sums[f] <= newest
                      /\ Push!IsOfHost(t, f)' => (dev[f] = host[t][f] \/ f \in omitted) /\ f \notin stale'
    BY <1>1 DEF Push!CacheIsTrue
  <2>1. CASE Push!Compared(t)
    <3>1. seen[t][f] <= newest
      BY <2>1, PushTypesOf
    <3>2. Push!IsOfHost(t, f)' => seen[t][f] # Push!Missing /\ Push!Unchanged(t, f)
      BY <1>1, <1>3, <2>1 DEF Push!IsOfHost, Push!Unchanged, Push!PushesApart
    <3>3. seen[t][f] # Push!Missing /\ Push!Unchanged(t, f) => dev[f] = host[t][f] \/ f \in omitted
      BY <1>2, <2>1 DEF Push!IInv, Push!UnchangedIsPushed
    <3> QED BY <1>2, <1>3, <2>1, <3>1, <3>2, <3>3
  <2>2. CASE ~Push!Compared(t)
    BY <1>1, <1>2, <1>4, <2>2 DEF Push!IInv, Push!CacheIsTrue, Push!IsOfHost
  <2> QED BY <2>1, <2>2
<1>6. /\ dev' \in [Push!Files -> Push!Versions] /\ \A f \in Push!Files : dev'[f] <= newest
      /\ commands' \in {"None", "True", "False"} /\ DOMAIN cache' = Tuples
      /\ \A t \in Tuples : cache'[t] = Push!Unknown \/ cache'[t] \in [ignore : BOOLEAN, sums : Push!Sums(t)]
      /\ omitted # {} => commands' = "True"
  BY <1>1, <1>3, <1>4 DEF Push!IInv, Push!TypeOK, Push!NewestIsLast, Push!Phases
<1> QED BY <1>1, <1>5, <1>6, PushFailsInv

LEMMA PushClearCacheInv == ASSUME Push!IInv, Push!ClearCache PROVE Push!IInv'
<1>1. /\ pc = "idle" /\ cache' = [t \in Tuples |-> Push!Unknown]
      /\ commands' \in {commands, "None"} /\ omitted' = {}
      /\ UNCHANGED <<host, newest, dev, tool, pc, delete, seen, todo, changed, stale, touched, zip>>
  BY DEF Push!ClearCache, Push!tree, Push!call
<1>2. \A u \in Tuples : Push!Compared(u)' <=> Push!Compared(u)
  BY <1>1 DEF Push!Compared
<1>3. Push!TypeOK' /\ Push!NewestIsLast' /\ Push!Phases'
  BY <1>1, <1>2 DEF Push!IInv, Push!TypeOK, Push!NewestIsLast, Push!Phases, Push!Sums
<1>6. \A u \in Tuples : ~Push!Compared(u)
  BY <1>1 DEF Push!IInv, Push!Phases
<1>4. Push!UnchangedIsPushed' /\ Push!ZippedIsChanged'
  BY <1>1, <1>2, <1>6 DEF Push!IInv, Push!UnchangedIsPushed, Push!Unchanged, Push!ZippedIsChanged
<1>5. Push!CacheIsTrue' /\ Push!LackingIsStale'
  BY <1>1, <1>2 DEF Push!IInv, Push!CacheIsTrue, Push!LackingIsStale
<1> QED BY <1>3, <1>4, <1>5 DEF Push!IInv

LEMMA PushNextInv ==
  ASSUME Push!PushesApart, Push!Disjoint, Push!IInv, [Push!Next]_(Push!vars)
  PROVE  Push!IInv'
<1>1. CASE UNCHANGED Push!vars
  <2>1. UNCHANGED <<host, newest, dev, tool, cache, commands, pc, delete, seen, todo, changed, stale, touched, zip, omitted>>
    BY <1>1 DEF Push!vars, Push!tree, Push!call
  <2>2. Push!TypeOK' /\ Push!NewestIsLast' /\ Push!Phases' /\ Push!CacheIsTrue' /\ Push!LackingIsStale'
    BY <2>1 DEF Push!IInv, Push!TypeOK, Push!NewestIsLast, Push!Phases, Push!Compared,
          Push!CacheIsTrue, Push!IsOfHost, Push!LackingIsStale, Push!Sums
  <2>3. Push!UnchangedIsPushed' /\ Push!ZippedIsChanged'
    BY <2>1 DEF Push!IInv, Push!UnchangedIsPushed, Push!Unchanged, Push!Compared,
          Push!ZippedIsChanged, Push!IsOfHost
  <2> QED BY <2>2, <2>3 DEF Push!IInv
<1> QED BY <1>1, PushHostChangesInv, PushCallInv, PushCompareInv, PushCompareFailsInv,
              PushDeleteStaleInv, PushOfFileInv,
           PushOfFileFailsInv, PushZipFilesInv, PushNoUnzipInv, PushUnzipInv, PushCommitInv,
           PushClearCacheInv DEF Push!Next

LEMMA PushInvImplies ==
  ASSUME Push!PushesApart, Push!IInv
  PROVE  Push!PushedIsThere /\ (Push!AlwaysReads => Push!StaleIsGone)
<1> SUFFICES ASSUME pc = "commits", NEW t \in Tuples, NEW f \in DOMAIN seen[t] \ touched
             PROVE  /\ seen[t][f] # Push!Missing => dev[f] = seen[t][f] \/ (f \in omitted /\ commands = "True")
                    /\ Push!AlwaysReads /\ delete /\ seen[t][f] = Push!Missing => dev[f] = Push!Missing
  BY DEF Push!PushedIsThere, Push!StaleIsGone
<1>1. Push!Compared(t)
  BY DEF Push!Compared, Push!NotCompared
<1>2. f \in Below[t]
  BY <1>1 DEF Push!IInv, Push!TypeOK, Push!Compared, Push!Sums
<1>3. changed = {} /\ seen[t][f] = host[t][f] /\ Push!Unchanged(t, f)
  BY <1>1, <1>2 DEF Push!IInv, Push!Phases, Push!UnchangedIsPushed, Push!Unchanged
<1>4. f \in omitted => commands = "True"
  BY DEF Push!IInv, Push!Phases
<1> QED BY <1>1, <1>2, <1>3, <1>4 DEF Push!IInv, Push!UnchangedIsPushed, Push!LackingIsStale

-----------------------------------------------------------------------------
(* Root and reboot of a device.                                            *)

LEMMA BootInitInv == ASSUME Boot!Init PROVE Boot!IInv
<1>1. boots \in Nat /\ since \in Nat /\ since <= boots
  BY DEF Boot!Init
<1>2. Boot!TypeOK
  BY <1>1 DEF Boot!Init, Boot!TypeOK
<1> QED BY <1>2 DEF Boot!Init, Boot!IInv, Boot!FallsInCall, Boot!SeenStays, Boot!SeenDown,
              Boot!SuIsTrue

(* The device by itself.                                                   *)
LEMMA BootDeviceInv ==
  ASSUME Boot!IInv,
         Boot!GoesDown \/ Boot!ComesUp \/ \E stage \in Boot!Stages : Boot!GetsReady(stage)
  PROVE  Boot!IInv' /\ told' = told
<1>1. CASE Boot!GoesDown
  BY <1>1 DEF Boot!GoesDown, Boot!cache, Boot!call, Boot!IInv, Boot!TypeOK, Boot!FallsInCall,
        Boot!SeenStays, Boot!SeenDown, Boot!SuIsTrue
<1>2. CASE Boot!ComesUp
  <2>1. /\ power = "down" /\ power' = "up" /\ boots' = boots + 1 /\ ready' \subseteq Boot!Stages
        /\ UNCHANGED <<root, Boot!cache, Boot!call, pc, tries, told>>
    BY <1>2 DEF Boot!ComesUp, Boot!Stages
  <2>2. Boot!TypeOK' /\ boots' > since'
    BY <2>1 DEF Boot!IInv, Boot!TypeOK, Boot!cache, Boot!call
  <2>3. Boot!FallsInCall' /\ Boot!SeenStays' /\ Boot!SeenDown' /\ Boot!SuIsTrue'
    BY <2>1, <2>2 DEF Boot!IInv, Boot!FallsInCall, Boot!SeenStays, Boot!SeenDown,
          Boot!SuIsTrue, Boot!cache, Boot!call
  <2> QED BY <2>1, <2>2, <2>3 DEF Boot!IInv
<1>3. ASSUME NEW stage \in Boot!Stages, Boot!GetsReady(stage) PROVE Boot!IInv' /\ told' = told
  BY <1>3 DEF Boot!GetsReady, Boot!cache, Boot!call, Boot!IInv, Boot!TypeOK, Boot!FallsInCall,
        Boot!SeenStays, Boot!SeenDown, Boot!SuIsTrue
<1> QED BY <1>1, <1>2, <1>3

LEMMA BootCallInv ==
  ASSUME Boot!IInv, NEW b \in BOOLEAN, NEW w \in BOOLEAN,
         \/ Boot!Call("reboot", b, w, "reboots") \/ Boot!Call("wait", TRUE, w, "device")
         \/ Boot!Call("root", TRUE, FALSE, "roots")
  PROVE  Boot!IInv' /\ told' # "ok"
<1>1. /\ pc = "idle" /\ since' = boots /\ told' = "none"
      /\ UNCHANGED <<power, boots, ready, root, needsSu>>
      /\ block' \in BOOLEAN /\ wifi' \in BOOLEAN
      /\ \/ op' = "reboot" /\ pc' = "reboots"
         \/ op' = "wait" /\ pc' = "device"
         \/ op' = "root" /\ pc' = "roots"
  BY DEF Boot!Call, Boot!device, Boot!cache
<1>2. Boot!TypeOK'
  BY <1>1 DEF Boot!IInv, Boot!TypeOK
<1> QED BY <1>1, <1>2 DEF Boot!IInv, Boot!FallsInCall, Boot!SeenStays, Boot!SeenDown,
              Boot!SuIsTrue

(* A call that is tried again is at its first step, and has answered       *)
(* nothing; the device may have changed as the step before left it.        *)
LEMMA BootRaiseInv ==
  ASSUME Boot!IInv, pc # "idle", NEW error \in {"error", "$EXTERNAL_STORAGE is not set"},
         Boot!Raise(error),
         UNCHANGED Boot!call, UNCHANGED <<power, boots, ready, root>>,
         needsSu' \in {"unset", needsSu}, pc = "offline" => power = "up"
  PROVE  Boot!IInv' /\ told' # "ok"
<1>1. /\ told' \in {"none", error}
      /\ \/ pc' = "idle"
         \/ op = "reboot" /\ pc' = "reboots"
         \/ op = "wait" /\ pc' = "device"
         \/ op = "root" /\ pc' = "roots"
      /\ pc' # "idle" => told' = "none"
  BY DEF Boot!Raise, Boot!FirstStep, Boot!IInv, Boot!TypeOK, Boot!SeenDown
<1>2. UNCHANGED <<op, block, wifi, since>>
  BY DEF Boot!call
<1>3. Boot!TypeOK'
  BY <1>1, <1>2 DEF Boot!IInv, Boot!TypeOK
<1>4. Boot!FallsInCall'
  BY DEF Boot!IInv, Boot!FallsInCall
<1>5. Boot!SeenStays' /\ Boot!SeenDown'
  BY <1>1, <1>2 DEF Boot!IInv, Boot!SeenStays, Boot!SeenDown
<1>6. Boot!SuIsTrue'
  BY DEF Boot!IInv, Boot!SuIsTrue
<1> QED BY <1>1, <1>3, <1>4, <1>5, <1>6 DEF Boot!IInv

LEMMA BootAdbRebootInv ==
  ASSUME Boot!AdbIsTrue, Boot!IInv, Boot!AdbReboot
  PROVE  Boot!IInv' /\ told' # "ok"
<1>1. CASE power' = "falling" /\ Boot!ClearCache /\ Boot!Goto("offline") /\ Boot!Online
  <2>1. /\ pc = "reboots" /\ pc' = "offline" /\ needsSu' = "unset" /\ told' = told
        /\ UNCHANGED <<op, block, wifi, since, boots, ready, root>>
    BY <1>1 DEF Boot!AdbReboot, Boot!ClearCache, Boot!Goto, Boot!call
  <2>2. Boot!TypeOK'
    BY <1>1, <2>1 DEF Boot!IInv, Boot!TypeOK
  <2> QED BY <1>1, <2>1, <2>2 DEF Boot!IInv, Boot!FallsInCall, Boot!SeenStays, Boot!SeenDown,
                Boot!SuIsTrue
<1>2. CASE Boot!Raise("error") /\ UNCHANGED <<power, Boot!cache>>
  <2>1. pc = "reboots" /\ UNCHANGED Boot!call /\ UNCHANGED <<power, boots, ready, root>> /\ needsSu' = needsSu
    BY <1>2 DEF Boot!AdbReboot, Boot!cache
  <2> QED BY <1>2, <2>1, BootRaiseInv
<1> QED BY <1>1, <1>2 DEF Boot!AdbReboot, Boot!AdbIsTrue

LEMMA BootPollOfflineInv ==
  ASSUME Boot!AdbIsTrue, Boot!IInv,
         Boot!PollOffline PROVE Boot!IInv' /\ (told' = "ok" => ~block)
<1>1. /\ pc = "offline" /\ power = "down" /\ UNCHANGED <<power, boots, ready, root, needsSu>>
      /\ UNCHANGED <<op, block, wifi, since>>
      /\ \/ block /\ pc' = "device" /\ told' = told
         \/ ~block /\ pc' = "idle" /\ told' = "ok"
  BY DEF Boot!PollOffline, Boot!SeesOffline, Boot!Online, Boot!AdbIsTrue, Boot!Goto,
        Boot!Return, Boot!device, Boot!cache, Boot!call
<1>2. op = "reboot" \/ op = "wait"
  BY <1>1 DEF Boot!IInv, Boot!TypeOK, Boot!SeenDown
<1>3. Boot!TypeOK'
  BY <1>1 DEF Boot!IInv, Boot!TypeOK
<1> QED BY <1>1, <1>2, <1>3 DEF Boot!IInv, Boot!FallsInCall, Boot!SeenStays, Boot!SeenDown,
              Boot!SuIsTrue

(* Stage by stage until the device is ready.                               *)
LEMMA BootStagesInv ==
  ASSUME Boot!IInv,
         Boot!WaitForDevice \/ Boot!SdCardReady \/ Boot!PmReady \/ Boot!BootCompleted \/ Boot!WifiEnabled
  PROVE  /\ Boot!IInv'
         /\ told' = "ok" =>
                /\ op = "reboot" => boots > since
                /\ op # "root" => {"sd", "pm", "boot"} \cup (IF wifi THEN {"wifi"} ELSE {}) \subseteq ready
<1>1. /\ UNCHANGED <<power, boots, ready, root, needsSu>>
      /\ UNCHANGED <<op, block, wifi, since>>
  BY DEF Boot!WaitForDevice, Boot!SdCardReady, Boot!PmReady, Boot!BootCompleted,
        Boot!WifiEnabled, Boot!device, Boot!cache, Boot!call
<1>2. pc # "idle" /\ told = "none"
  BY DEF Boot!WaitForDevice, Boot!SdCardReady, Boot!PmReady, Boot!BootCompleted,
        Boot!WifiEnabled, Boot!IInv, Boot!SeenDown
<1>3. CASE Boot!SdCardReady /\ Boot!Raise("$EXTERNAL_STORAGE is not set")
  <2>1. UNCHANGED Boot!call /\ pc = "sd"
    BY <1>3 DEF Boot!SdCardReady
  <2> QED BY <1>1, <1>2, <1>3, <2>1, BootRaiseInv
<1>4. CASE ~Boot!Raise("$EXTERNAL_STORAGE is not set") \/ ~Boot!SdCardReady
  <2>1. \/ /\ pc = "device" /\ pc' = "sd" /\ power # "down" /\ told' = "none"
        \/ /\ pc = "sd" /\ pc' = "pm" /\ "sd" \in ready /\ told' = "none"
        \/ /\ pc = "sd" /\ pc' = "sd" /\ told' = "none"
        \/ /\ pc = "pm" /\ pc' = "boot" /\ "pm" \in ready /\ told' = "none"
        \/ /\ pc = "boot" /\ "boot" \in ready /\ wifi /\ pc' = "wifi" /\ told' = "none"
        \/ /\ pc = "boot" /\ "boot" \in ready /\ ~wifi /\ pc' = "idle" /\ told' = "ok"
        \/ /\ pc = "wifi" /\ "wifi" \in ready /\ pc' = "idle" /\ told' = "ok"
    BY <1>2, <1>4 DEF Boot!WaitForDevice, Boot!SdCardReady, Boot!PmReady, Boot!BootCompleted,
          Boot!WifiEnabled, Boot!Goto, Boot!Return, Boot!Online
  <2>2. power \in {"up", "falling", "down"} /\ (power = "falling" => pc = "offline")
    BY DEF Boot!IInv, Boot!TypeOK, Boot!FallsInCall
  <2>3. Boot!TypeOK'
    BY <1>1, <2>1 DEF Boot!IInv, Boot!TypeOK
  <2>4. Boot!FallsInCall' /\ Boot!SuIsTrue'
    BY <1>1, <2>1 DEF Boot!IInv, Boot!FallsInCall, Boot!SuIsTrue
  <2>5. Boot!SeenStays'
    BY <1>1, <2>1, <2>2 DEF Boot!IInv, Boot!SeenStays
  <2>6. Boot!SeenDown'
    BY <1>1, <2>1 DEF Boot!IInv, Boot!SeenDown
  <2>7. told' = "ok" =>
            /\ op = "reboot" => boots > since
            /\ op # "root" => {"sd", "pm", "boot"} \cup (IF wifi THEN {"wifi"} ELSE {}) \subseteq ready
    BY <2>1 DEF Boot!IInv, Boot!SeenStays, Boot!SeenDown
  <2> QED BY <2>3, <2>4, <2>5, <2>6, <2>7 DEF Boot!IInv
<1> QED BY <1>3, <1>4

LEMMA BootFailsInv ==
  ASSUME Boot!IInv, Boot!Unreachable \/ Boot!TimesOut
  PROVE  Boot!IInv' /\ told' # "ok"
<1>1. /\ Boot!Raise("error") /\ UNCHANGED Boot!call /\ UNCHANGED <<power, boots, ready, root>>
      /\ needsSu' = needsSu /\ pc # "idle" /\ (pc = "offline" => power = "up")
  BY DEF Boot!Unreachable, Boot!TimesOut, Boot!device, Boot!cache
<1> QED BY <1>1, BootRaiseInv

(* What restarts adbd, and what asks for su.                               *)
LEMMA BootRootInv ==
  ASSUME Boot!IInv,
         Boot!AdbRoot \/ Boot!OnlineWithRoot PROVE Boot!IInv' /\ (told' = "ok" => op = "root")
<1>1. CASE Boot!AdbRoot /\ Boot!Raise("error")
  <2>1. /\ pc = "roots" /\ UNCHANGED Boot!call /\ UNCHANGED <<power, boots, ready>>
        /\ needsSu' = "unset"
        /\ root' \in {root, TRUE}
    BY <1>1 DEF Boot!AdbRoot
  <2>2. op = "root"
    BY <2>1 DEF Boot!IInv, Boot!SeenDown
  <2>3. /\ UNCHANGED <<op, block, wifi, since>> /\ told' \in {told, "error"}
        /\ \/ pc' = "idle"
           \/ pc' = "roots" /\ told' = told
    BY <1>1, <2>1, <2>2 DEF Boot!Raise, Boot!FirstStep, Boot!call
  <2>4. Boot!TypeOK'
    BY <2>1, <2>3 DEF Boot!IInv, Boot!TypeOK
  <2> QED BY <2>1, <2>2, <2>3, <2>4 DEF Boot!IInv, Boot!FallsInCall, Boot!SeenStays,
                Boot!SeenDown, Boot!SuIsTrue
<1>2. CASE Boot!AdbRoot /\ root' = TRUE /\ Boot!Goto("rooted")
  <2>1. /\ pc = "roots" /\ pc' = "rooted" /\ told' = told /\ needsSu' = "unset"
        /\ UNCHANGED <<power, boots, ready, op, block, wifi, since>>
    BY <1>2 DEF Boot!AdbRoot, Boot!Goto, Boot!call
  <2>2. Boot!TypeOK'
    BY <1>2, <2>1 DEF Boot!IInv, Boot!TypeOK
  <2> QED BY <2>1, <2>2 DEF Boot!IInv, Boot!FallsInCall, Boot!SeenStays, Boot!SeenDown,
                Boot!SuIsTrue
<1>3. CASE Boot!OnlineWithRoot
  <2>1. /\ pc = "rooted" /\ pc' = "idle" /\ told' = "ok"
        /\ UNCHANGED <<power, boots, ready, root, needsSu, op, block, wifi, since>>
    BY <1>3 DEF Boot!OnlineWithRoot, Boot!Return, Boot!device, Boot!cache, Boot!call
  <2>2. Boot!TypeOK'
    BY <2>1 DEF Boot!IInv, Boot!TypeOK
  <2> QED BY <2>1, <2>2 DEF Boot!IInv, Boot!FallsInCall, Boot!SeenStays, Boot!SeenDown,
                Boot!SuIsTrue
<1> QED BY <1>1, <1>2, <1>3 DEF Boot!AdbRoot

LEMMA BootNeedsSUInv == ASSUME Boot!IInv, Boot!NeedsSU PROVE Boot!IInv' /\ told' = told
<1>1. /\ pc = "idle" /\ power # "down" /\ needsSu' \in {IF HasSu /\ ~root THEN "yes" ELSE "no", "failed"}
      /\ UNCHANGED <<power, boots, ready, root, op, block, wifi, since, pc, told>>
  BY DEF Boot!NeedsSU, Boot!Online, Boot!device, Boot!call
<1>2. power = "up"
  BY <1>1 DEF Boot!IInv, Boot!TypeOK, Boot!FallsInCall
<1>3. Boot!TypeOK'
  BY <1>1 DEF Boot!IInv, Boot!TypeOK
<1> QED BY <1>1, <1>2, <1>3 DEF Boot!IInv, Boot!FallsInCall, Boot!SeenStays, Boot!SeenDown,
              Boot!SuIsTrue

LEMMA BootNextInv ==
  ASSUME Boot!AdbIsTrue, Boot!IInv,
         [Boot!Next]_(Boot!vars) PROVE Boot!IInv' /\ Boot!RebootedIsNew /\ Boot!BootedIsReady
<1>1. CASE UNCHANGED Boot!vars
  <2>1. Boot!IInv'
    BY <1>1 DEF Boot!vars, Boot!device, Boot!cache, Boot!call, Boot!IInv, Boot!TypeOK,
          Boot!FallsInCall, Boot!SeenStays, Boot!SeenDown, Boot!SuIsTrue
  <2>2. told' = told
    BY <1>1 DEF Boot!vars
  <2> QED BY <2>1, <2>2 DEF Boot!IInv, Boot!SeenDown, Boot!RebootedIsNew, Boot!BootedIsReady
<1>2. CASE Boot!NeedsSU \/ Boot!GoesDown \/ Boot!ComesUp \/ \E stage \in Boot!Stages : Boot!GetsReady(stage)
  <2>1. Boot!IInv' /\ told' = told
    BY <1>2, BootNeedsSUInv, BootDeviceInv
  <2> QED BY <2>1 DEF Boot!IInv, Boot!SeenDown, Boot!RebootedIsNew, Boot!BootedIsReady
<1>3. ASSUME NEW b \in BOOLEAN, NEW w \in BOOLEAN,
         \/ Boot!Call("reboot", b, w, "reboots") \/ Boot!Call("wait", TRUE, w, "device")
         \/ Boot!Call("root", TRUE, FALSE, "roots")
      PROVE  Boot!IInv' /\ Boot!RebootedIsNew /\ Boot!BootedIsReady
  BY <1>3, BootCallInv DEF Boot!RebootedIsNew, Boot!BootedIsReady
<1>4. CASE Boot!Step
  <2>1. CASE Boot!AdbReboot \/ Boot!Unreachable \/ Boot!TimesOut
    BY <2>1, BootAdbRebootInv, BootFailsInv DEF Boot!RebootedIsNew, Boot!BootedIsReady
  <2>2. CASE Boot!PollOffline
    BY <2>2, BootPollOfflineInv DEF Boot!RebootedIsNew, Boot!BootedIsReady
  <2>3. CASE Boot!WaitForDevice \/ Boot!SdCardReady \/ Boot!PmReady \/ Boot!BootCompleted \/ Boot!WifiEnabled
    BY <2>3, BootStagesInv DEF Boot!RebootedIsNew, Boot!BootedIsReady
  <2>4. CASE Boot!AdbRoot \/ Boot!OnlineWithRoot
    BY <2>4, BootRootInv DEF Boot!RebootedIsNew, Boot!BootedIsReady
  <2> QED BY <1>4, <2>1, <2>2, <2>3, <2>4 DEF Boot!Step
<1> QED BY <1>1, <1>2, <1>3, <1>4 DEF Boot!Next

-----------------------------------------------------------------------------
(* The cache of a device.                                                  *)

LEMMA CacheInitInv == ASSUME Cache!Init PROVE Cache!IInv
<1>1. /\ issued \in Nat /\ devToken = NoValue /\ file = [token |-> NoValue, known |-> NoValue]
      /\ prop \in Values /\ content \in Values /\ phase = [s \in Sessions |-> "off"]
      /\ token = [s \in Sessions |-> NoValue] /\ prev = token /\ cached = token /\ known = token
      /\ doubt = [s \in Sessions |-> "no"]
  BY DEF Cache!Init
<1>2. Cache!TypeOK
  BY <1>1 DEF Cache!TypeOK, Cache!Tokens, Cache!Known
<1> QED BY <1>1, <1>2 DEF Cache!IInv, Cache!TokensAreMade, Cache!OverKnowsNothing,
              Cache!TokenIsOfDevice,
              Cache!DumpOfDeviceIsTrue, Cache!DumpOfPrevIsTrue, Cache!KnownIsTrue,
              Cache!CachedPropIsTrue, Cache!IsInitialized

(* What a session learns of the device, or forgets.                        *)
LEMMA CacheLearnsInv ==
  ASSUME Cache!IInv, NEW s \in Sessions, NEW k,
         k \in {NoValue, content},
         known' \in {known, [known EXCEPT ![s] = k]},
         \/ UNCHANGED <<cached, doubt>>
         \/ cached' = [cached EXCEPT ![s] = prop] /\ doubt' = [doubt EXCEPT ![s] = "no"],
         phase' \in {phase, [phase EXCEPT ![s] = "works"], [phase EXCEPT ![s] = "loaded"]},
         phase[s] # "off", UNCHANGED <<Cache!device, token, prev, file, issued>>
  PROVE  Cache!IInv'
<1>1. k \in Cache!Known /\ prop \in Cache!Known /\ UNCHANGED <<devToken, prop, content, token, prev, file, issued>>
  BY DEF Cache!IInv, Cache!TypeOK, Cache!Known, Cache!device
<1>2. Cache!TypeOK'
  BY <1>1 DEF Cache!IInv, Cache!TypeOK
<1>3. \A u \in Sessions : /\ phase'[u] = phase[u] \/ (u = s /\ phase'[u] \in {"works", "loaded"})
                          /\ known'[u] = known[u] \/ known'[u] = k
                          /\ \/ cached'[u] = cached[u] /\ doubt'[u] = doubt[u]
                             \/ u = s /\ cached'[u] = prop /\ doubt'[u] = "no"
  BY DEF Cache!IInv, Cache!TypeOK
<1>4. Cache!TokensAreMade' /\ Cache!TokenIsOfDevice' /\ Cache!DumpOfDeviceIsTrue' /\ Cache!KnownIsTrue'
  BY <1>1, <1>3 DEF Cache!IInv, Cache!TokensAreMade, Cache!TokenIsOfDevice,
        Cache!DumpOfDeviceIsTrue, Cache!KnownIsTrue, Cache!DumpIsTrue
<1>5. Cache!OverKnowsNothing'
  BY <1>1, <1>3 DEF Cache!IInv, Cache!OverKnowsNothing
<1>6. Cache!DumpOfPrevIsTrue'
  BY <1>1, <1>3 DEF Cache!IInv, Cache!DumpOfPrevIsTrue, Cache!DumpIsTrue
<1>7. Cache!CachedPropIsTrue'
  BY <1>1, <1>3 DEF Cache!IInv, Cache!CachedPropIsTrue, Cache!IsInitialized
<1> QED BY <1>2, <1>4, <1>5, <1>6, <1>7 DEF Cache!IInv

LEMMA CacheStartInv ==
  ASSUME Cache!OneSession, Cache!IInv, NEW s \in Sessions, Cache!Start(s)
  PROVE  Cache!IInv'
<1>1. /\ phase[s] = "off" /\ phase' = [phase EXCEPT ![s] = "starts"]
      /\ UNCHANGED <<devToken, prop, content, token, prev, cached, known, doubt, file, issued>>
  BY DEF Cache!Start, Cache!Set, Cache!device
<1>2. Cache!TypeOK' /\ phase'[s] = "starts"
  BY <1>1 DEF Cache!IInv, Cache!TypeOK
<1>3. token[s] = NoValue /\ cached[s] = NoValue /\ doubt[s] = "no" /\ \A u \in Sessions : u = s
  BY <1>1 DEF Cache!IInv, Cache!OverKnowsNothing, Cache!OneSession
<1> QED BY <1>1, <1>2, <1>3 DEF Cache!IInv, Cache!TokensAreMade, Cache!OverKnowsNothing,
              Cache!TokenIsOfDevice,
              Cache!DumpOfDeviceIsTrue, Cache!DumpOfPrevIsTrue, Cache!DumpIsTrue,
              Cache!KnownIsTrue, Cache!CachedPropIsTrue, Cache!IsInitialized

(* A script that ends, with a dump or without one, and one that forgets    *)
(* everything.                                                             *)
LEMMA CacheForgetsInv ==
  ASSUME Cache!OneSession, Cache!IInv, NEW s \in Sessions, NEW p \in {"off", "works"},
         phase' = [phase EXCEPT ![s] = p], token' = [token EXCEPT ![s] = NoValue],
         prev' = [prev EXCEPT ![s] = NoValue], cached' = [cached EXCEPT ![s] = NoValue],
         known' = [known EXCEPT ![s] = NoValue], doubt' = [doubt EXCEPT ![s] = "no"], UNCHANGED <<Cache!device, issued>>,
         \/ file' = file
         \/ token[s] # NoValue /\ file' = [token |-> token[s], known |-> known[s]]
  PROVE  Cache!IInv'
<1>1. /\ UNCHANGED <<devToken, prop, content>> /\ issued' = issued
      /\ \A u \in Sessions : u = s
  BY DEF Cache!device, Cache!OneSession
<1>2. /\ phase'[s] = p /\ token'[s] = NoValue /\ prev'[s] = NoValue /\ cached'[s] = NoValue
      /\ known'[s] = NoValue /\ doubt'[s] = "no" /\ token[s] \in Cache!Tokens /\ known[s] \in Cache!Known
  BY DEF Cache!IInv, Cache!TypeOK
<1>3. token[s] # NoValue => token[s] = devToken
  BY DEF Cache!IInv, Cache!TokenIsOfDevice
<1>4. Cache!TypeOK'
  <2>1. file' \in [token : Cache!Tokens, known : Cache!Known]
    BY <1>2 DEF Cache!IInv, Cache!TypeOK
  <2>2. NoValue \in Cache!Tokens /\ NoValue \in Cache!Known
    BY DEF Cache!Tokens, Cache!Known
  <2> QED BY <1>1, <2>1, <2>2 DEF Cache!IInv, Cache!TypeOK
<1>5. Cache!TokensAreMade'
  BY <1>1, <1>3 DEF Cache!IInv, Cache!TokensAreMade
<1>6. known[s] \in {NoValue, content}
  BY DEF Cache!IInv, Cache!KnownIsTrue
<1>7. Cache!DumpOfDeviceIsTrue'
  BY <1>1, <1>6 DEF Cache!IInv, Cache!DumpOfDeviceIsTrue, Cache!DumpIsTrue
<1> QED BY <1>1, <1>2, <1>4, <1>5, <1>7 DEF Cache!IInv, Cache!OverKnowsNothing,
              Cache!TokenIsOfDevice,
              Cache!DumpOfPrevIsTrue, Cache!KnownIsTrue, Cache!CachedPropIsTrue, Cache!IsInitialized

(* The token is a new one; the dump is compared with the one before, which *)
(* nobody has changed the device under.                                    *)
LEMMA CacheEnsureCacheInitializedInv ==
  ASSUME Cache!OneSession, Cache!IInv, NEW s \in Sessions,
         Cache!EnsureCacheInitialized(s) PROVE Cache!IInv'
<1>1. /\ phase[s] # "off" /\ token[s] = NoValue /\ issued' = issued + 1 /\ devToken' = issued'
      /\ UNCHANGED <<prop, content, phase, known, file>>
      /\ \/ /\ token' = [token EXCEPT ![s] = issued'] /\ cached' = [cached EXCEPT ![s] = prop]
            /\ doubt' = [doubt EXCEPT ![s] = "no"]
            /\ \E t \in {devToken, issued'} : prev' = [prev EXCEPT ![s] = t]
         \/ UNCHANGED <<token, prev, cached, doubt>>
  BY DEF Cache!EnsureCacheInitialized, Cache!IsInitialized, Cache!Set
<1>2. /\ issued' \in Nat /\ issued' # NoValue /\ issued' > issued /\ issued' # issued
      /\ devToken' \in Cache!Tokens /\ issued' \in Cache!Tokens
  BY <1>1 DEF Cache!OneSession, Cache!IInv, Cache!TypeOK, Cache!Tokens
<1>3. \A u \in Sessions : u = s
  BY DEF Cache!OneSession
<1>4. file.token # devToken' /\ (file.token # NoValue => file.token <= issued')
  <2>1. file.token # NoValue => file.token \in Nat /\ file.token <= issued
    BY DEF Cache!IInv, Cache!TypeOK, Cache!Tokens, Cache!TokensAreMade
  <2>2. issued \in Nat
    BY DEF Cache!IInv, Cache!TypeOK
  <2> QED BY <1>1, <1>2, <2>1, <2>2
<1>5. Cache!TypeOK'
  <2>1. token' \in [Sessions -> Cache!Tokens] /\ prev' \in [Sessions -> Cache!Tokens]
    BY <1>1, <1>2 DEF Cache!IInv, Cache!TypeOK
  <2>2. cached' \in [Sessions -> Cache!Known]
    BY <1>1 DEF Cache!IInv, Cache!TypeOK, Cache!Known
  <2> QED BY <1>1, <1>2, <2>1, <2>2 DEF Cache!IInv, Cache!TypeOK
<1>6. Cache!TokensAreMade'
  BY <1>1, <1>2, <1>4 DEF Cache!TokensAreMade
<1>7. \/ token'[s] = NoValue /\ cached'[s] = cached[s] /\ doubt'[s] = doubt[s]
      \/ token'[s] = issued' /\ doubt'[s] = "no" /\ cached'[s] = prop /\ prev'[s] \in {devToken, issued'}
  BY <1>1 DEF Cache!IInv, Cache!TypeOK
<1>8. Cache!OverKnowsNothing'
  BY <1>1, <1>3 DEF Cache!OverKnowsNothing
<1>9. Cache!TokenIsOfDevice' /\ Cache!DumpOfDeviceIsTrue'
  BY <1>1, <1>3, <1>4, <1>7 DEF Cache!TokenIsOfDevice, Cache!DumpOfDeviceIsTrue
<1>10. Cache!DumpOfPrevIsTrue'
  BY <1>1, <1>3, <1>4, <1>7 DEF Cache!IInv, Cache!DumpOfDeviceIsTrue, Cache!DumpOfPrevIsTrue,
        Cache!DumpIsTrue
<1>11. Cache!KnownIsTrue' /\ Cache!CachedPropIsTrue'
  BY <1>1, <1>3, <1>7 DEF Cache!IInv, Cache!KnownIsTrue, Cache!CachedPropIsTrue,
        Cache!IsInitialized
<1> QED BY <1>5, <1>6, <1>8, <1>9, <1>10, <1>11 DEF Cache!IInv

(* A property or what is installed changes, by the only session there is.  *)
LEMMA CacheSetPropInv ==
  ASSUME Cache!OneSession, Cache!IInv, NEW s \in Sessions, NEW v \in Values,
         NEW checks \in BOOLEAN,
         Cache!SetProp(s, v, checks) \/ Cache!SetPropFails(s, v)
  PROVE  Cache!IInv'
<1>1. /\ phase[s] # "off" /\ prop' \in {prop, v}
      /\ \/ /\ cached' = [cached EXCEPT ![s] = IF checks THEN prop' ELSE NoValue]
            /\ doubt' = [doubt EXCEPT ![s] = IF checks THEN "no" ELSE "out"]
         \/ cached' = cached /\ doubt' = [doubt EXCEPT ![s] = "lost"]
      /\ UNCHANGED <<devToken, content, phase, token, prev, known, file, issued>>
  BY DEF Cache!SetProp, Cache!SetPropFails, Cache!Uncached, Cache!Set
<1>2. prop' \in Values /\ prop' \in Cache!Known /\ NoValue \in Cache!Known
  BY <1>1 DEF Cache!IInv, Cache!TypeOK, Cache!Known
<1>3. Cache!TypeOK' /\ \A u \in Sessions : u = s
  BY <1>1, <1>2 DEF Cache!IInv, Cache!TypeOK, Cache!OneSession
<1>4. Cache!CachedPropIsTrue'
  <2>1. \/ cached'[s] = prop' /\ doubt'[s] = "no"
        \/ cached'[s] = NoValue /\ doubt'[s] = "out"
        \/ doubt'[s] = "lost"
    BY <1>1 DEF Cache!IInv, Cache!TypeOK
  <2> QED BY <1>3, <2>1 DEF Cache!CachedPropIsTrue
<1> QED BY <1>1, <1>3, <1>4 DEF Cache!IInv, Cache!TokensAreMade, Cache!OverKnowsNothing,
              Cache!TokenIsOfDevice,
              Cache!DumpOfDeviceIsTrue, Cache!DumpOfPrevIsTrue, Cache!DumpIsTrue,
              Cache!KnownIsTrue

LEMMA CacheChangeInv ==
  ASSUME Cache!OneSession, Cache!IInv, NEW s \in Sessions, NEW v \in Values,
         Cache!Change(s, v) PROVE Cache!IInv'
<1>1. /\ phase[s] # "off" /\ token[s] # NoValue /\ phase' = [phase EXCEPT ![s] = "works"]
      /\ content' = v
      /\ \E k \in {v, NoValue} : known' = [known EXCEPT ![s] = k]
      /\ UNCHANGED <<devToken, prop, token, prev, cached, doubt, file, issued>>
  BY DEF Cache!Change, Cache!Uses, Cache!IsInitialized, Cache!Set
<1>2. v \in Cache!Known /\ NoValue \in Cache!Known
  BY DEF Cache!Known
<1>3. Cache!TypeOK' /\ phase'[s] = "works" /\ known'[s] \in {NoValue, content'} /\ \A u \in Sessions : u = s
  BY <1>1, <1>2 DEF Cache!IInv, Cache!TypeOK, Cache!OneSession
<1>4. token[s] = devToken /\ file.token # devToken
  BY <1>1 DEF Cache!IInv, Cache!TokenIsOfDevice
<1> QED BY <1>1, <1>3, <1>4 DEF Cache!IInv, Cache!TokensAreMade, Cache!OverKnowsNothing,
              Cache!TokenIsOfDevice,
              Cache!DumpOfDeviceIsTrue, Cache!DumpOfPrevIsTrue, Cache!KnownIsTrue,
              Cache!CachedPropIsTrue, Cache!IsInitialized

(* What is loaded is what the dump says, if nobody came in between.        *)
LEMMA CacheLoadInv ==
  ASSUME Cache!IInv, NEW s \in Sessions, Cache!LoadCacheData(s) PROVE Cache!IInv'
<1>1. /\ phase[s] = "starts" /\ token[s] # NoValue /\ phase' = [phase EXCEPT ![s] = "loaded"]
      /\ known' = [known EXCEPT ![s] = IF Cache!Accepts(s) THEN file.known ELSE known[s]]
      /\ UNCHANGED <<Cache!device, token, prev, cached, doubt, file, issued>>
  BY DEF Cache!LoadCacheData, Cache!Uses, Cache!IsInitialized, Cache!Set
<1>2. Cache!Accepts(s) => file.known \in {NoValue, content}
  BY <1>1 DEF Cache!IInv, Cache!DumpOfPrevIsTrue, Cache!DumpIsTrue, Cache!Accepts
<1>3. known[s] \in {NoValue, content}
  BY DEF Cache!IInv, Cache!KnownIsTrue
<1> QED BY <1>1, <1>2, <1>3, CacheLearnsInv

LEMMA CacheNextInv ==
  ASSUME Cache!OneSession, Cache!IInv, [Cache!Next]_(Cache!vars)
  PROVE  Cache!IInv' /\ Cache!LoadedIsTrue
<1>1. Cache!IInv'
  <2>1. CASE UNCHANGED Cache!vars
    BY <2>1 DEF Cache!vars, Cache!device, Cache!local, Cache!IInv, Cache!TypeOK,
          Cache!TokensAreMade, Cache!OverKnowsNothing, Cache!TokenIsOfDevice,
          Cache!DumpOfDeviceIsTrue, Cache!DumpOfPrevIsTrue, Cache!DumpIsTrue, Cache!KnownIsTrue,
          Cache!CachedPropIsTrue, Cache!IsInitialized
  <2>2. ASSUME NEW s \in Sessions, Cache!GetCachedProp(s) \/ Cache!GetProp(s) \/ Cache!Look(s)
        PROVE  Cache!IInv'
    <3>1. /\ phase[s] # "off" /\ UNCHANGED <<Cache!device, token, prev, file, issued>>
          /\ known' \in {known, [known EXCEPT ![s] = content]}
          /\ \/ UNCHANGED <<cached, doubt>>
             \/ cached' = [cached EXCEPT ![s] = prop] /\ doubt' = [doubt EXCEPT ![s] = "no"]
          /\ phase' \in {phase, [phase EXCEPT ![s] = "works"]}
      BY <2>2 DEF Cache!GetCachedProp, Cache!GetProp, Cache!Look, Cache!Uses, Cache!Set
    <3> QED BY <3>1, CacheLearnsInv
  <2>3. ASSUME NEW s \in Sessions, Cache!End(s) \/ Cache!ClearCache(s) \/ Cache!DumpCacheData(s)
        PROVE  Cache!IInv'
    BY <2>3, CacheForgetsInv DEF Cache!End, Cache!Ends, Cache!ClearCache, Cache!DumpCacheData,
          Cache!Uses, Cache!IsInitialized, Cache!Set
  <2> QED BY <2>1, <2>2, <2>3, CacheStartInv, CacheEnsureCacheInitializedInv, CacheLoadInv,
                CacheSetPropInv, CacheChangeInv
        DEF Cache!Next
<1>2. Cache!LoadedIsTrue
  <2>1. ASSUME NEW s \in Sessions, phase[s] = "starts", phase'[s] = "loaded", Cache!LoadCacheData(s)
        PROVE  known'[s] \in {NoValue, content, known[s]}
    <3>1. Cache!Accepts(s) => file.known \in {NoValue, content}
      BY <2>1 DEF Cache!LoadCacheData, Cache!Uses, Cache!IsInitialized, Cache!IInv,
            Cache!DumpOfPrevIsTrue, Cache!DumpIsTrue, Cache!Accepts
    <3>2. known'[s] = IF Cache!Accepts(s) THEN file.known ELSE known[s]
      BY <2>1 DEF Cache!LoadCacheData, Cache!Set, Cache!IInv, Cache!TypeOK
    <3> QED BY <3>1, <3>2
  <2>2. ASSUME NEW s \in Sessions, phase[s] = "starts", phase'[s] = "loaded"
        PROVE  Cache!LoadCacheData(s)
    <3>1. \A u \in Sessions : u = s
      BY DEF Cache!OneSession
    <3> QED BY <2>2, <3>1 DEF Cache!Next, Cache!vars, Cache!local, Cache!IInv, Cache!TypeOK,
                  Cache!Start, Cache!End, Cache!Ends, Cache!EnsureCacheInitialized,
                  Cache!GetCachedProp,
              Cache!GetProp, Cache!Look, Cache!ClearCache, Cache!DumpCacheData, Cache!SetProp,
              Cache!SetPropFails,
              Cache!Change, Cache!Set
  <2> QED BY <2>1, <2>2 DEF Cache!LoadedIsTrue
<1> QED BY <1>1, <1>2

-----------------------------------------------------------------------------
(* Installing packages.                                                    *)

(* The operators of FiniteSets are those the instance reaches.             *)
LEMMA PackageCardinality ==
  ASSUME NEW S
  PROVE  /\ Package!IsFiniteSet(S) <=> IsFiniteSet(S)
         /\ Package!Cardinality(S) = Cardinality(S)
BY DEF Package!IsFiniteSet, IsFiniteSet, Package!Cardinality, Cardinality

(* A package is a finite set of apks, one for each of its names.           *)
LEMMA PackagePackageIs ==
  ASSUME Package!UnknownIsNone, NEW package \in Package!Packages
  PROVE  /\ package \subseteq Package!Apks /\ Package!IsFiniteSet(package) /\ package # {}
         /\ package # NotCached
         /\ \A a, b \in package : a[1] = b[1] => a = b
<1>1. PICK names \in SUBSET Splits, v \in ApkVersions : package = {<<n, v>> : n \in names \cup {Base}}
  BY DEF Package!Packages
<1>2. package \subseteq Package!Apks
  BY <1>1 DEF Package!Apks
<1>3. Package!IsFiniteSet(package)
  <2>1. Package!IsFiniteSet(names)
    BY FS_Subset, PackageCardinality DEF Package!UnknownIsNone
  <2>2. Package!IsFiniteSet(names \cup {Base})
    BY <2>1, FS_AddElement, PackageCardinality
  <2> DEFINE f == [n \in names \cup {Base} |-> <<n, v>>]
  <2>3. f \in Surjection(names \cup {Base}, package)
    BY <1>1 DEF Surjection
  <2> QED BY <2>2, <2>3, FS_Surjection, PackageCardinality
<1>4. \A a, b \in package : a[1] = b[1] => a = b
  BY <1>1
<1>5. <<Base, v>> \in package
  BY <1>1
<1>6. package # NotCached
  BY <1>2 DEF Package!UnknownIsNone
<1> QED BY <1>2, <1>3, <1>4, <1>5, <1>6

LEMMA PackageSetsAreKnown ==
  ASSUME Package!UnknownIsNone, Package!IInv
  PROVE  /\ {} # NotCached /\ apks # NotCached /\ asked # NotCached
         /\ apks \in Package!MaybeApks /\ {} \in Package!MaybeApks
         /\ NotCached \in Package!MaybeApks
         /\ asked \in SUBSET Package!Apks /\ asked \in Package!MaybeApks
<1>1. asked \in SUBSET Package!Apks
  BY PackagePackageIs DEF Package!IInv, Package!TypeOK
<1> QED BY <1>1 DEF Package!UnknownIsNone, Package!MaybeApks, Package!IInv, Package!TypeOK

LEMMA PackageInitInv == ASSUME Package!UnknownIsNone, Package!Init PROVE Package!IInv
<1>1. apks \subseteq Package!Apks /\ Package!IsFiniteSet(apks)
  BY PackagePackageIs, FS_EmptySet, PackageCardinality DEF Package!Init
<1>2. data \in BOOLEAN
  BY DEF Package!Init
<1>3. Package!TypeOK
  BY <1>1, <1>2 DEF Package!Init, Package!TypeOK, Package!MaybeApks
<1> QED BY <1>3 DEF Package!Init, Package!IInv, Package!PathsAreOfPackage,
              Package!SumsAreVerified, Package!CallStands

(* The package is looked up, in the cache or on the device, or pm fails.   *)
LEMMA PackageLookupCaches ==
  ASSUME Package!UnknownIsNone, Package!IInv, Package!GetApplicationPaths \/ Package!PmFails,
         UNCHANGED apks
  PROVE  /\ paths' \in Package!MaybeApks /\ sums' \in Package!MaybeApks /\ verify' \in BOOLEAN
         /\ Package!PathsAreOfPackage' /\ Package!SumsAreVerified'
         /\ Package!GetApplicationPaths => paths' # NotCached /\ ~verify'
<1>1. /\ paths \in Package!MaybeApks /\ sums \in Package!MaybeApks /\ verify \in BOOLEAN
      /\ Package!PathsAreOfPackage /\ Package!SumsAreVerified
      /\ apks \in Package!MaybeApks /\ apks # NotCached /\ NotCached \in Package!MaybeApks
  BY PackageSetsAreKnown DEF Package!IInv, Package!TypeOK
<1>2. CASE Package!GetApplicationPaths
  <2>1. paths' = Package!Lookup /\ verify' = (verify /\ paths = NotCached) /\ sums' \in {sums, NotCached}
    BY <1>2 DEF Package!GetApplicationPaths
  <2>2. paths' \in Package!MaybeApks /\ sums' \in Package!MaybeApks /\ verify' \in BOOLEAN
    BY <1>1, <2>1 DEF Package!Lookup
  <2>3. paths' # NotCached /\ ~verify' /\ Package!PathsAreOfPackage'
    BY <1>1, <2>1 DEF Package!Lookup, Package!IsCached, Package!PathsAreOfPackage
  <2>4. Package!SumsAreVerified'
    BY <1>1, <1>2 DEF Package!GetApplicationPaths, Package!Lookup, Package!IsCached,
          Package!SumsAreVerified
  <2> QED BY <2>2, <2>3, <2>4
<1>3. CASE Package!PmFails /\ ~Package!GetApplicationPaths
  <2>1. paths' = paths /\ verify' = (verify /\ paths = NotCached) /\ sums' \in {sums, NotCached}
    BY <1>3 DEF Package!PmFails
  <2>2. sums' # NotCached => paths = NotCached
    BY <1>3 DEF Package!PmFails
  <2>3. Package!SumsAreVerified'
    BY <1>1, <2>1, <2>2 DEF Package!SumsAreVerified
  <2>4. Package!PathsAreOfPackage' /\ verify' \in BOOLEAN
    BY <1>1, <2>1 DEF Package!PathsAreOfPackage
  <2> QED BY <1>1, <1>3, <2>1, <2>3, <2>4
<1> QED BY <1>2, <1>3

LEMMA PackageInstallInv ==
  ASSUME Package!UnknownIsNone, Package!IInv, NEW package \in Package!Packages,
         NEW asSplit \in BOOLEAN, NEW keep \in BOOLEAN,
         Package!Install(package, asSplit, keep)
  PROVE  Package!IInv' /\ pc = "idle"
<1>1. /\ pc = "idle" /\ asked' = package /\ split' = asSplit /\ reinstall' = keep
      /\ lacking' = {} /\ hostSums' = NotCached /\ UNCHANGED <<apks, data>>
      /\ asSplit \/ Package!Cardinality(package) = 1
      /\ \/ Package!GetApplicationPaths /\ pc' = "decides" /\ said' = "none"
         \/ Package!PmFails /\ pc' = "idle"
  BY DEF Package!Install, Package!Fails, Package!device
<1>2. /\ paths' \in Package!MaybeApks /\ sums' \in Package!MaybeApks /\ verify' \in BOOLEAN
      /\ Package!PathsAreOfPackage' /\ Package!SumsAreVerified'
      /\ Package!GetApplicationPaths => paths' # NotCached /\ ~verify'
  BY <1>1, PackageLookupCaches
<1>3. package # {}
  BY PackagePackageIs
<1>4. Package!TypeOK'
  BY <1>1, <1>2 DEF Package!IInv, Package!TypeOK
<1>5. Package!CallStands'
  BY <1>1, <1>2, <1>3 DEF Package!CallStands
<1> QED BY <1>1, <1>2, <1>4, <1>5 DEF Package!IInv

(* If the checksums of the device lack nothing, the apks are installed,    *)
(* and nothing beside a whole one.                                         *)
LEMMA PackageNothingLacks ==
  ASSUME Package!UnknownIsNone, Package!IInv, pc = "decides", paths # {}, ~Package!Switches,
         asked \subseteq Package!DeviceSums
  PROVE  Package!AskedIsThere
<1>1. paths # NotCached /\ asked # {} /\ (split \/ Package!Cardinality(asked) = 1)
  BY DEF Package!IInv, Package!CallStands
<1>2. Package!DeviceSums \subseteq apks
  BY <1>1 DEF Package!DeviceSums, Package!IInv, Package!SumsAreVerified, Package!CallStands
<1>3. asked \subseteq apks /\ apks # {}
  BY <1>1, <1>2
<1>4. ASSUME ~split PROVE apks = asked
  <2>1. paths = apks /\ Package!IsFiniteSet(apks)
    BY <1>1, <1>3 DEF Package!IInv, Package!PathsAreOfPackage, Package!TypeOK
  <2>2. Package!Cardinality(apks) \in Nat /\ ~(Package!Cardinality(apks) > 1)
    BY <1>4, <2>1, FS_CardinalityType, PackageCardinality DEF Package!Switches
  <2>3. Package!Cardinality(apks) # 0
    BY <1>3, <2>1, FS_EmptySet, PackageCardinality
  <2>4. Package!Cardinality(apks) = 1
    BY <2>2, <2>3
  <2>5. \E x : apks = {x}
    BY <2>1, <2>4, FS_Singleton, PackageCardinality
  <2> QED BY <1>1, <1>3, <2>5
<1> QED BY <1>3, <1>4 DEF Package!AskedIsThere

LEMMA PackageDecideInv ==
  ASSUME Package!UnknownIsNone, Package!IInv, Package!Decide
  PROVE  Package!IInv' /\ said' # "ok"
<1>1. /\ pc = "decides" /\ UNCHANGED <<apks, data, paths, verify, asked, split, reinstall>>
      /\ said' = said
  BY DEF Package!Decide, Package!device, Package!call
<1>2. paths # NotCached /\ ~verify /\ asked # {} /\ hostSums = NotCached /\ said # "ok" /\ (split \/ Package!Cardinality(asked) = 1)
  BY <1>1 DEF Package!IInv, Package!CallStands
<1>3. CASE lacking' = asked /\ pc' = "installs" /\ UNCHANGED <<hostSums, sums>>
  <2>1. Package!TypeOK'
    BY <1>1, <1>3 DEF Package!IInv, Package!TypeOK
  <2>2. Package!PathsAreOfPackage' /\ Package!SumsAreVerified'
    BY <1>1, <1>3 DEF Package!IInv, Package!PathsAreOfPackage, Package!SumsAreVerified
  <2>3. Package!CallStands'
    BY <1>1, <1>2, <1>3 DEF Package!CallStands
  <2> QED BY <1>1, <1>2, <2>1, <2>2, <2>3 DEF Package!IInv
<1>4. CASE /\ paths # {} /\ ~Package!Switches
           /\ \/ sums' = Package!DeviceSums /\ hostSums' = asked /\ lacking' = Package!Stale(Package!DeviceSums)
              \/ sums' \in {sums, Package!DeviceSums} /\ UNCHANGED hostSums /\ lacking' = asked
           /\ pc' = IF lacking' = {} THEN "stops" ELSE IF reinstall THEN "installs" ELSE "uninstalls"
  <2>1. sums # NotCached => sums \subseteq apks
    BY <1>2, <1>4 DEF Package!IInv, Package!SumsAreVerified
  <2>2. Package!DeviceSums \subseteq apks /\ Package!DeviceSums \in Package!MaybeApks
    BY <2>1 DEF Package!DeviceSums, Package!IInv, Package!TypeOK, Package!MaybeApks
  <2>3. lacking' \subseteq asked /\ asked \ lacking' \subseteq apks /\ hostSums' \in {NotCached, asked}
    BY <1>2, <1>4, <2>2 DEF Package!Stale
  <2>4. lacking' = {} => Package!AskedIsThere
    BY <1>1, <1>2, <1>4, PackageNothingLacks DEF Package!Stale
  <2>5. pc' \in {"stops", "installs", "uninstalls"} /\ (pc' = "stops" => lacking' = {})
    BY <1>4
  <2>6. Package!TypeOK'
    BY <1>1, <1>4, <2>2, <2>3, <2>5 DEF Package!IInv, Package!TypeOK
  <2>7. Package!PathsAreOfPackage' /\ Package!SumsAreVerified'
    BY <1>1, <1>4, <2>1, <2>2 DEF Package!IInv, Package!PathsAreOfPackage,
          Package!SumsAreVerified
  <2>8. Package!CallStands'
    BY <1>1, <1>2, <2>3, <2>4, <2>5 DEF Package!CallStands, Package!AskedIsThere
  <2> QED BY <1>1, <1>2, <2>6, <2>7, <2>8 DEF Package!IInv
<1> QED BY <1>3, <1>4 DEF Package!Decide

LEMMA PackageUninstallFirstInv ==
  ASSUME Package!UnknownIsNone, Package!IInv, Package!UninstallFirst
  PROVE  Package!IInv' /\ said' # "ok"
<1>1. /\ pc = "uninstalls" /\ UNCHANGED <<verify, asked, split, reinstall, hostSums>>
      /\ \/ Package!Uninstalled /\ pc' = "installs" /\ lacking' = asked /\ said' = said
         \/ Package!UninstallFails /\ pc' = "idle" /\ said' = "CommandFailedError" /\ lacking' = lacking
  BY DEF Package!UninstallFirst, Package!Fails, Package!call
<1>2. ~verify /\ said # "ok" /\ hostSums \in {NotCached, asked} /\ asked # {} /\ (split \/ Package!Cardinality(asked) = 1)
  BY <1>1 DEF Package!IInv, Package!CallStands
<1>3. /\ apks' \in {{}, apks} /\ data' \in {FALSE, data} /\ paths' \in Package!MaybeApks
      /\ sums' \in Package!MaybeApks
      /\ Package!Uninstalled => apks' = {} /\ paths' = {} /\ sums' = {}
      /\ Package!UninstallFails => paths' = NotCached /\ sums' = NotCached
  BY <1>1, PackageSetsAreKnown DEF Package!Uninstalled, Package!UninstallFails,
        Package!PopCaches, Package!device
<1>4. apks' \subseteq Package!Apks /\ Package!IsFiniteSet(apks') /\ data' \in BOOLEAN
  BY <1>3, FS_EmptySet, PackageCardinality DEF Package!IInv, Package!TypeOK
<1>5. Package!TypeOK'
  BY <1>1, <1>3, <1>4 DEF Package!IInv, Package!TypeOK
<1>6. Package!PathsAreOfPackage' /\ Package!SumsAreVerified'
  BY <1>1, <1>2, <1>3 DEF Package!PathsAreOfPackage, Package!SumsAreVerified
<1>7. Package!CallStands'
  BY <1>1, <1>2 DEF Package!CallStands
<1> QED BY <1>1, <1>2, <1>5, <1>6, <1>7 DEF Package!IInv

(* adb replaces the package, or adds to it what was stale.                 *)
LEMMA PackageAdbInstallInv ==
  ASSUME Package!UnknownIsNone, Package!IInv, Package!AdbInstall
  PROVE  Package!IInv' /\ said' # "ok"
<1>1. /\ pc = "installs" /\ paths' = NotCached /\ sums' = NotCached
      /\ UNCHANGED <<data, verify, asked, split, reinstall, lacking, hostSums>>
      /\ \/ apks' = Package!Result /\ pc' = "grants" /\ said' = said
         \/ apks' \in {apks, Package!Result} /\ pc' = "idle" /\ said' = "CommandFailedError"
  BY DEF Package!AdbInstall, Package!PopCaches, Package!Fails, Package!call
<1>2. /\ ~verify /\ said # "ok" /\ hostSums \in {NotCached, asked} /\ asked # {} /\ (split \/ Package!Cardinality(asked) = 1)
      /\ asked \ lacking \subseteq apks /\ lacking \subseteq asked
  BY <1>1 DEF Package!IInv, Package!CallStands, Package!TypeOK
<1>3. asked \in Package!Packages
  BY <1>2 DEF Package!IInv, Package!TypeOK
<1>4. Package!Result \subseteq apks \cup asked
  BY <1>2 DEF Package!Result
<1>5. asked \subseteq Package!Apks /\ Package!IsFiniteSet(asked) /\ \A a, b \in asked : a[1] = b[1] => a = b
  BY <1>3, PackagePackageIs
<1>6. Package!Result \subseteq Package!Apks /\ Package!IsFiniteSet(Package!Result)
  <2>1. apks \subseteq Package!Apks /\ Package!IsFiniteSet(apks \cup asked)
    BY <1>5, FS_Union, PackageCardinality DEF Package!IInv, Package!TypeOK
  <2>2. Package!IsFiniteSet(Package!Result)
    BY <1>4, <2>1, FS_Subset, PackageCardinality
  <2> QED BY <1>4, <1>5, <2>1, <2>2
<1>7. asked \subseteq Package!Result /\ (split \/ Package!Result = asked)
  <2>1. ASSUME NEW a \in asked, Package!IsPartial, a \notin lacking
        PROVE  a \in apks /\ a[1] \notin {b[1] : b \in lacking}
    BY <1>2, <1>5, <2>1
  <2> QED BY <2>1 DEF Package!Result, Package!IsPartial
<1>8. Package!TypeOK'
  BY <1>1, <1>6, PackageSetsAreKnown DEF Package!IInv, Package!TypeOK
<1>9. Package!PathsAreOfPackage' /\ Package!SumsAreVerified'
  BY <1>1, <1>2 DEF Package!PathsAreOfPackage, Package!SumsAreVerified
<1>10. Package!CallStands'
  BY <1>1, <1>2, <1>7 DEF Package!CallStands, Package!AskedIsThere
<1> QED BY <1>1, <1>2, <1>8, <1>9, <1>10 DEF Package!IInv

(* The end of a call.                                                      *)
LEMMA PackageEndInv ==
  ASSUME Package!UnknownIsNone, Package!IInv, Package!GrantPermissions \/ Package!ForceStop
  PROVE  Package!IInv' /\ (pc \in {"grants", "stops"} /\ Package!AskedIsThere)
<1>1. /\ pc \in {"grants", "stops"} /\ pc' = "idle"
      /\ UNCHANGED <<apks, data, paths, verify, asked, split, reinstall, lacking, hostSums>>
      /\ sums' \in {sums, hostSums}
  BY DEF Package!GrantPermissions, Package!ForceStop, Package!Fails, Package!NotesSums,
        Package!device, Package!cache, Package!call
<1>2. Package!AskedIsThere /\ hostSums \in {NotCached, asked}
  BY <1>1 DEF Package!IInv, Package!CallStands
<1>3. asked \in Package!MaybeApks /\ asked # NotCached /\ NotCached \in Package!MaybeApks
  BY PackageSetsAreKnown
<1>4. sums' \in Package!MaybeApks
  BY <1>1, <1>2, <1>3 DEF Package!IInv, Package!TypeOK
<1>5. Package!TypeOK'
  BY <1>1, <1>4 DEF Package!IInv, Package!TypeOK
<1>6. Package!PathsAreOfPackage'
  BY <1>1 DEF Package!IInv, Package!PathsAreOfPackage
<1>7. Package!SumsAreVerified'
  BY <1>1, <1>2, <1>3 DEF Package!IInv, Package!SumsAreVerified, Package!AskedIsThere
<1>8. Package!CallStands'
  BY <1>1 DEF Package!CallStands
<1> QED BY <1>1, <1>2, <1>5, <1>6, <1>7, <1>8 DEF Package!IInv

(* The other calls, and what happens between calls.                        *)
LEMMA PackageBetweenInv ==
  ASSUME Package!UnknownIsNone, Package!IInv,
         \/ Package!Uninstall \/ Package!ClearApplicationState \/ Package!GetApplicationVersion
         \/ Package!GetApplicationDataDirectory \/ Package!AppRuns \/ Package!NewSession
  PROVE  Package!IInv' /\ pc = "idle"
<1>1. /\ pc = "idle" /\ pc' = "idle" /\ UNCHANGED <<asked, split, reinstall, lacking, hostSums>>
      /\ data' \in BOOLEAN
  BY DEF Package!Uninstall, Package!ClearApplicationState, Package!GetApplicationVersion,
        Package!GetApplicationDataDirectory,
         Package!AppRuns, Package!NewSession, Package!PmClears, Package!Uninstalled,
         Package!UninstallFails, Package!device, Package!call, Package!IInv, Package!TypeOK
<1>2. /\ apks' \in {apks, {}}
      /\ \/ (Package!GetApplicationPaths \/ Package!PmFails) /\ UNCHANGED apks
         \/ paths' = {} /\ sums' = {} /\ apks' = {} /\ verify' \in BOOLEAN
         \/ paths' = NotCached /\ sums' = NotCached /\ ~verify' /\ verify' \in BOOLEAN
         \/ UNCHANGED <<apks, paths, sums, verify>>
         \/ verify' = (paths # NotCached) /\ UNCHANGED <<paths, sums>>
  <2>1. verify' = (verify /\ paths = NotCached) => ~verify' /\ verify' \in BOOLEAN
    BY DEF Package!IInv, Package!PathsAreOfPackage
  <2>2. CASE Package!Uninstall
    BY <2>1, <2>2 DEF Package!Uninstall, Package!Uninstalled, Package!UninstallFails,
          Package!PopCaches, Package!device
  <2>3. CASE Package!ClearApplicationState
    BY <2>3 DEF Package!ClearApplicationState, Package!cache
  <2>4. CASE Package!GetApplicationVersion \/ Package!GetApplicationDataDirectory \/ Package!AppRuns
    BY <2>4 DEF Package!GetApplicationVersion, Package!GetApplicationDataDirectory,
          Package!AppRuns, Package!device, Package!cache
  <2>5. CASE Package!NewSession
    BY <2>5 DEF Package!NewSession, Package!PopCaches, Package!device
  <2> QED BY <2>2, <2>3, <2>4, <2>5
<1>3. apks' \subseteq Package!Apks /\ Package!IsFiniteSet(apks')
  BY <1>2, FS_EmptySet, PackageCardinality DEF Package!IInv, Package!TypeOK
<1>4. /\ paths' \in Package!MaybeApks /\ sums' \in Package!MaybeApks /\ verify' \in BOOLEAN
      /\ Package!PathsAreOfPackage' /\ Package!SumsAreVerified'
  <2>1. CASE (Package!GetApplicationPaths \/ Package!PmFails) /\ UNCHANGED apks
    BY <2>1, PackageLookupCaches
  <2>2. CASE paths' = {} /\ sums' = {} /\ apks' = {} /\ verify' \in BOOLEAN
    BY <2>2, PackageSetsAreKnown DEF Package!PathsAreOfPackage, Package!SumsAreVerified
  <2>3. CASE paths' = NotCached /\ sums' = NotCached /\ ~verify' /\ verify' \in BOOLEAN
    BY <2>3, PackageSetsAreKnown DEF Package!PathsAreOfPackage, Package!SumsAreVerified
  <2>4. CASE UNCHANGED <<apks, paths, sums, verify>>
    BY <2>4 DEF Package!IInv, Package!TypeOK, Package!PathsAreOfPackage, Package!SumsAreVerified
  <2>5. CASE verify' = (paths # NotCached) /\ UNCHANGED <<paths, sums>>
    BY <1>2, <2>5 DEF Package!IInv, Package!TypeOK, Package!PathsAreOfPackage,
          Package!SumsAreVerified
  <2> QED BY <1>2, <2>1, <2>2, <2>3, <2>4, <2>5
<1>5. Package!TypeOK'
  BY <1>1, <1>3, <1>4 DEF Package!IInv, Package!TypeOK
<1>6. Package!CallStands'
  BY <1>1 DEF Package!CallStands
<1> QED BY <1>1, <1>4, <1>5, <1>6 DEF Package!IInv

LEMMA PackageNextInv ==
  ASSUME Package!UnknownIsNone, Package!IInv, [Package!Next]_(Package!vars)
  PROVE  Package!IInv' /\ Package!InstalledIsAsked
<1>1. CASE UNCHANGED Package!vars
  BY <1>1 DEF Package!vars, Package!device, Package!cache, Package!call, Package!IInv,
        Package!TypeOK, Package!PathsAreOfPackage, Package!SumsAreVerified, Package!CallStands,
        Package!AskedIsThere, Package!InstalledIsAsked
<1>2. ASSUME NEW package \in Package!Packages, NEW asSplit \in BOOLEAN, NEW keep \in BOOLEAN,
             Package!Install(package, asSplit, keep)
      PROVE  Package!IInv' /\ Package!InstalledIsAsked
  BY <1>2, PackageInstallInv DEF Package!InstalledIsAsked
<1>3. CASE Package!Decide \/ Package!UninstallFirst \/ Package!AdbInstall
  BY <1>3, PackageDecideInv, PackageUninstallFirstInv,
        PackageAdbInstallInv DEF Package!InstalledIsAsked
<1>4. CASE Package!GrantPermissions \/ Package!ForceStop
  BY <1>4, PackageEndInv DEF Package!InstalledIsAsked, Package!AskedIsThere
<1>5. CASE \/ Package!Uninstall \/ Package!ClearApplicationState \/ Package!GetApplicationVersion
           \/ Package!GetApplicationDataDirectory \/ Package!AppRuns \/ Package!NewSession
  BY <1>5, PackageBetweenInv DEF Package!InstalledIsAsked
<1> QED BY <1>1, <1>2, <1>3, <1>4, <1>5 DEF Package!Next

LEMMA PackageInvImplies == ASSUME Package!IInv PROVE Package!SumsAreInstalled
BY DEF Package!IInv, Package!SumsAreVerified, Package!SumsAreInstalled

-----------------------------------------------------------------------------
(* Calls on a wrapper are in order for any number of devices and calls:    *)
(* what is waited for has ended, and nothing starts before its parent has. *)

(* Of the devices that raised there is a first one.                        *)
LEMMA WrapperFirstIsFirst ==
  ASSUME Wrapper!CountsAreNatural, NEW ds, ds \subseteq Wrapper!Devices, ds # {}
  PROVE  Wrapper!First(ds) \in ds /\ \A d \in ds : Wrapper!First(ds) <= d
<1> DEFINE less == {p \in Nat \X Nat : p[1] < p[2]}
<1>1. IsWellFoundedOn(less, Nat)
  BY NatLessThanWellFounded DEF OpToRel
<1>2. ds \subseteq Nat
  BY DEF Wrapper!CountsAreNatural, Wrapper!Devices
<1>3. PICK d \in ds : \A e \in ds : ~(<<e, d>> \in less)
  BY <1>1, <1>2, WFMin
<1>4. \A e \in ds : d <= e
  <2> SUFFICES ASSUME NEW e \in ds PROVE d <= e
    OBVIOUS
  <2>1. d \in Nat /\ e \in Nat
    BY <1>2
  <2>2. ~(e < d)
    BY <1>3, <2>1
  <2> QED BY <2>1, <2>2
<1> QED BY <1>4 DEF Wrapper!First

(* At first there is the wrapper of the devices, which are their values.   *)
LEMMA WrapperInitInv == ASSUME Wrapper!CountsAreNatural PROVE Wrapper!Init => Wrapper!IInv
<1> SUFFICES ASSUME Wrapper!Init PROVE Wrapper!IInv
  OBVIOUS
<1>1. 0 \in Wrapper!Wrappers /\ Wrapper!Made = {0}
  BY DEF Wrapper!CountsAreNatural, Wrapper!Init, Wrapper!Wrappers, Wrapper!Made
<1> QED BY <1>1 DEF Wrapper!Init, Wrapper!IInv, Wrapper!TypeOK, Wrapper!ListsAreValues,
              Wrapper!WaitsForAlive, Wrapper!ParentsAreMade,
              Wrapper!CallsAreInOrder, Wrapper!AllMayComplete, Wrapper!StartsAfterParent,
              Wrapper!BlockedByRunning, Wrapper!Ended

(* A thread that ends changes nothing for those that have ended.           *)
LEMMA WrapperRunInv ==
  ASSUME Wrapper!CountsAreNatural, Wrapper!IInv, NEW w \in Wrapper!Wrappers,
         NEW d \in Wrapper!Devices,
         Wrapper!RunReturns(w, d) \/ Wrapper!RunRaises(w, d)
  PROVE  Wrapper!IInv'
<1>1. PICK end \in {"value", "raised"} :
        /\ thread[w][d] = "running" /\ UNCHANGED <<made, objs, parent, Wrapper!caller>>
        /\ thread' = [thread EXCEPT ![w] = [thread[w] EXCEPT ![d] = end]]
  BY DEF Wrapper!RunReturns, Wrapper!RunRaises
<1>2. Wrapper!TypeOK'
  BY <1>1 DEF Wrapper!caller, Wrapper!IInv, Wrapper!TypeOK, Wrapper!Made
<1>3. \A v \in Wrapper!Wrappers, e \in Wrapper!Devices :
         thread[v][e] \in {"value", "raised"} => thread'[v][e] = thread[v][e]
  BY <1>1 DEF Wrapper!IInv, Wrapper!TypeOK
<1>4. \A v \in Wrapper!Wrappers : Wrapper!Ended(v) \subseteq Wrapper!Ended(v)'
  BY <1>3 DEF Wrapper!Ended
<1>5. \A v \in Wrapper!Wrappers :
         Wrapper!Ended(v) = Wrapper!Devices =>
           Wrapper!Ended(v)' = Wrapper!Devices /\ Wrapper!Raised(v)' = Wrapper!Raised(v)
  BY <1>3 DEF Wrapper!Ended, Wrapper!Raised
<1>6. Wrapper!Made' = Wrapper!Made /\ Wrapper!Made \subseteq Wrapper!Wrappers
  BY <1>1 DEF Wrapper!Made
<1>7. Wrapper!ListsAreValues' /\ Wrapper!ParentsAreMade'
  BY <1>1, <1>3, <1>6 DEF Wrapper!IInv, Wrapper!ListsAreValues, Wrapper!ParentsAreMade
<1>8. Wrapper!WaitsForAlive'
  BY <1>1, <1>4, <1>6 DEF Wrapper!caller, Wrapper!IInv, Wrapper!TypeOK, Wrapper!WaitsForAlive
<1>9. Wrapper!BlockedByRunning'
  BY <1>1, <1>5, <1>6 DEF Wrapper!caller, Wrapper!IInv, Wrapper!BlockedByRunning
<1>10. Wrapper!AllMayComplete'
  BY <1>1, <1>5, <1>6 DEF Wrapper!caller, Wrapper!IInv, Wrapper!TypeOK,
        Wrapper!CallsAreInOrder, Wrapper!AllMayComplete
<1>11. Wrapper!StartsAfterParent'
  BY <1>1, <1>3, <1>6 DEF Wrapper!IInv, Wrapper!CallsAreInOrder, Wrapper!StartsAfterParent,
        Wrapper!ParentsAreMade
<1> QED BY <1>2, <1>7, <1>8, <1>9, <1>10, <1>11 DEF Wrapper!IInv, Wrapper!CallsAreInOrder

(* A step of the caller that starts no threads.                            *)
LEMMA WrapperWaitInv ==
  ASSUME Wrapper!CountsAreNatural, Wrapper!IInv, Wrapper!TypeOK',
         UNCHANGED <<made, parent, thread>>, Wrapper!ListsAreValues', Wrapper!WaitsForAlive',
         Wrapper!AllMayComplete', Wrapper!BlockedByRunning'
  PROVE  Wrapper!IInv'
BY DEF Wrapper!IInv, Wrapper!ParentsAreMade, Wrapper!CallsAreInOrder,
      Wrapper!StartsAfterParent, Wrapper!Made

(* A new call, on values that are there, by a caller that waits for no     *)
(* other call.                                                             *)
LEMMA WrapperStartInv ==
  ASSUME Wrapper!CountsAreNatural, Wrapper!IInv, NEW w \in Wrapper!Made, made < MaxCalls,
         Wrapper!StartAll(w),
         \A d \in Wrapper!Devices : thread[w][d] = "value", Wrapper!Answer("none", w, 0),
         Sync => \A v \in Wrapper!Made : Wrapper!Ended(v) = Wrapper!Devices,
         IF Sync THEN /\ pc' = "waiting" /\ on' = made' /\ then' = "finish"
                      /\ limit' = "none" /\ alive' = Wrapper!Devices
                 ELSE pc' = "idle" /\ UNCHANGED <<on, then, limit, alive>>
  PROVE  Wrapper!IInv'
<1> DEFINE new == made + 1
<1>1. /\ made' = new /\ objs' = [objs EXCEPT ![new] = "group"]
      /\ parent' = [parent EXCEPT ![new] = w]
      /\ thread' = [thread EXCEPT ![new] = [d \in Wrapper!Devices |-> "running"]]
  BY DEF Wrapper!StartAll
<1>2. /\ new \in Wrapper!Wrappers /\ new \notin Wrapper!Made
      /\ Wrapper!Made' = Wrapper!Made \cup {new} /\ Wrapper!Made \subseteq Wrapper!Wrappers
  <2>1. made \in Nat /\ MaxCalls \in Nat /\ made \in Wrapper!Wrappers
    BY DEF Wrapper!CountsAreNatural, Wrapper!IInv, Wrapper!TypeOK, Wrapper!Wrappers
  <2>2. /\ new \in Wrapper!Wrappers /\ new \notin Wrapper!Made
        /\ Wrapper!Made \subseteq Wrapper!Wrappers
    BY <2>1 DEF Wrapper!Wrappers, Wrapper!Made
  <2>3. \A v \in Wrapper!Wrappers : v <= new <=> v <= made \/ v = new
    BY <2>1 DEF Wrapper!Wrappers
  <2> QED BY <1>1, <2>2, <2>3 DEF Wrapper!Made
<1> HIDE DEF new
<1>3. Wrapper!TypeOK'
  <2>1. /\ made' \in Wrapper!Wrappers /\ objs' \in [Wrapper!Wrappers -> {"list", "group"}]
        /\ parent' \in [Wrapper!Wrappers -> Wrapper!Wrappers]
        /\ thread' \in [Wrapper!Wrappers ->
                           [Wrapper!Devices -> {"none", "running", "value", "raised"}]]
    BY <1>1, <1>2 DEF Wrapper!IInv, Wrapper!TypeOK
  <2>2. /\ answer' \in [kind : {"none"}, of : Wrapper!Made', device : {0}]
        /\ pc' \in {"idle", "waiting"} /\ on' \in Wrapper!Made'
        /\ alive' \subseteq Wrapper!Devices
    BY <1>1, <1>2 DEF Wrapper!IInv, Wrapper!TypeOK, Wrapper!Answer
  <2> QED BY <2>1, <2>2 DEF Wrapper!IInv, Wrapper!TypeOK
<1>4. /\ \A v \in Wrapper!Made : thread'[v] = thread[v] /\ objs'[v] = objs[v] /\ parent'[v] = parent[v]
      /\ objs'[new] = "group" /\ parent'[new] = w
  BY <1>1, <1>2 DEF Wrapper!IInv, Wrapper!TypeOK
<1>5. \A v \in Wrapper!Made : Wrapper!Ended(v)' = Wrapper!Ended(v)
  BY <1>4 DEF Wrapper!Ended
<1>6. Wrapper!ListsAreValues' /\ Wrapper!ParentsAreMade'
  BY <1>2, <1>4 DEF Wrapper!IInv, Wrapper!ListsAreValues, Wrapper!ParentsAreMade
<1>7. Wrapper!WaitsForAlive'
  BY DEF Wrapper!WaitsForAlive
<1>8. Wrapper!BlockedByRunning'
  BY <1>1, <1>2, <1>5 DEF Wrapper!BlockedByRunning
<1>9. Wrapper!AllMayComplete'
  BY DEF Wrapper!Answer, Wrapper!AllMayComplete
<1>10. Wrapper!StartsAfterParent'
  BY <1>2, <1>4 DEF Wrapper!IInv, Wrapper!CallsAreInOrder, Wrapper!StartsAfterParent,
        Wrapper!ParentsAreMade
<1> QED BY <1>3, <1>6, <1>7, <1>8, <1>9, <1>10 DEF Wrapper!IInv, Wrapper!CallsAreInOrder

(* The caller.                                                             *)
LEMMA WrapperCallerInv ==
  ASSUME Wrapper!CountsAreNatural, Wrapper!IInv, Wrapper!Caller
  PROVE  Wrapper!IInv'
<1>a. /\ Wrapper!TypeOK /\ on \in Wrapper!Wrappers
      /\ \A v \in Wrapper!Made : v \in Wrapper!Wrappers
      /\ \A v \in Wrapper!Wrappers : v <= made <=> v \in Wrapper!Made
  BY DEF Wrapper!IInv, Wrapper!TypeOK, Wrapper!Made
<1>1. ASSUME NEW w \in Wrapper!Made, pc = "idle", NEW how \in {"none", "seconds"},
             NEW for \in {"call", "get"}, for = "call" => made < MaxCalls,
             Wrapper!Waits(w, for, how), Wrapper!Answer("none", w, 0),
             UNCHANGED <<made, objs, parent, thread>>
      PROVE  Wrapper!IInv'
  <2>1. Wrapper!TypeOK'
    BY <1>1 DEF Wrapper!Waits, Wrapper!Answer, Wrapper!IInv, Wrapper!TypeOK, Wrapper!Made
  <2>2. Wrapper!WaitsForAlive'
    BY <1>1, <1>a DEF Wrapper!Waits, Wrapper!IInv, Wrapper!TypeOK, Wrapper!ListsAreValues,
          Wrapper!WaitsForAlive, Wrapper!Ended
  <2>3. Wrapper!ListsAreValues' /\ Wrapper!AllMayComplete'
    BY <1>1 DEF Wrapper!Answer, Wrapper!IInv, Wrapper!ListsAreValues, Wrapper!AllMayComplete,
          Wrapper!Made
  <2>4. Wrapper!BlockedByRunning'
    BY <1>1 DEF Wrapper!IInv, Wrapper!BlockedByRunning, Wrapper!Ended, Wrapper!Made
  <2> QED BY <1>1, <2>1, <2>2, <2>3, <2>4, WrapperWaitInv
<1>2. ASSUME NEW w \in Wrapper!Made, Wrapper!pMap(w), objs[w] = "group" PROVE Wrapper!IInv'
  <2>1. /\ Wrapper!Answer("no_list", w, 0) /\ pc = "idle"
        /\ UNCHANGED <<made, objs, parent, thread, pc, on, then, limit, alive>>
    BY <1>2 DEF Wrapper!pMap
  <2>2. Wrapper!TypeOK'
    BY <2>1 DEF Wrapper!Answer, Wrapper!IInv, Wrapper!TypeOK, Wrapper!Made
  <2> QED BY <2>1, <2>2, WrapperWaitInv DEF Wrapper!Answer, Wrapper!IInv,
               Wrapper!ListsAreValues, Wrapper!WaitsForAlive, Wrapper!AllMayComplete,
               Wrapper!BlockedByRunning, Wrapper!Ended, Wrapper!Made
<1>3. ASSUME NEW w \in Wrapper!Made, Wrapper!pMap(w), objs[w] # "group" PROVE Wrapper!IInv'
  <2>1. /\ \A d \in Wrapper!Devices : thread[w][d] = "value"
        /\ Sync => \A v \in Wrapper!Made : Wrapper!Ended(v) = Wrapper!Devices
    BY <1>3, <1>a DEF Wrapper!pMap, Wrapper!IInv, Wrapper!TypeOK, Wrapper!ListsAreValues,
          Wrapper!BlockedByRunning
  <2> QED BY <1>3, <2>1, WrapperStartInv DEF Wrapper!pMap
<1>4. ASSUME NEW d \in Wrapper!Devices, Wrapper!Join(d) PROVE Wrapper!IInv'
  <2>1. Wrapper!TypeOK' /\ Wrapper!WaitsForAlive'
    BY <1>4 DEF Wrapper!Join, Wrapper!IInv, Wrapper!TypeOK, Wrapper!WaitsForAlive,
          Wrapper!Ended, Wrapper!Made
  <2> QED BY <1>4, <2>1, WrapperWaitInv DEF Wrapper!Join, Wrapper!IInv, Wrapper!ListsAreValues,
               Wrapper!AllMayComplete, Wrapper!CallsAreInOrder,
               Wrapper!BlockedByRunning, Wrapper!Ended, Wrapper!Raised, Wrapper!Made
<1>5. ASSUME pc = "waiting", alive = {} PROVE Wrapper!Ended(on) = Wrapper!Devices
  BY <1>5 DEF Wrapper!IInv, Wrapper!WaitsForAlive, Wrapper!Ended
<1>6. CASE Wrapper!ReraiseIfException
  <2>1. /\ Wrapper!First(Wrapper!Raised(on)) \in Wrapper!Raised(on)
        /\ Wrapper!Raised(on) \subseteq Wrapper!Devices
        /\ \A d \in Wrapper!Raised(on) : Wrapper!First(Wrapper!Raised(on)) <= d
    BY <1>6, WrapperFirstIsFirst DEF Wrapper!ReraiseIfException, Wrapper!Reraises,
          Wrapper!Raised
  <2>2. Wrapper!TypeOK'
    BY <1>6, <2>1 DEF Wrapper!ReraiseIfException, Wrapper!Answer, Wrapper!IInv, Wrapper!TypeOK,
          Wrapper!Made
  <2>3. Wrapper!AllMayComplete'
    <3>1. /\ answer'.kind = "raised" /\ answer'.of = on
          /\ answer'.device = Wrapper!First(Wrapper!Raised(on))
          /\ Wrapper!Raised(on) # {} /\ Wrapper!Ended(on) = Wrapper!Devices /\ UNCHANGED thread
      BY <1>5, <1>6 DEF Wrapper!ReraiseIfException, Wrapper!Reraises, Wrapper!Answer
    <3> QED BY <2>1, <3>1 DEF Wrapper!AllMayComplete, Wrapper!Ended, Wrapper!Raised
  <2>4. Wrapper!WaitsForAlive' /\ Wrapper!ListsAreValues'
    BY <1>6 DEF Wrapper!ReraiseIfException, Wrapper!WaitsForAlive, Wrapper!IInv,
          Wrapper!ListsAreValues, Wrapper!Made
  <2>5. Wrapper!BlockedByRunning'
    BY <1>5, <1>6 DEF Wrapper!ReraiseIfException, Wrapper!Reraises, Wrapper!IInv,
          Wrapper!BlockedByRunning, Wrapper!Ended, Wrapper!Made
  <2> QED BY <1>6, <2>2, <2>3, <2>4, <2>5, WrapperWaitInv DEF Wrapper!ReraiseIfException
<1>7. ASSUME Wrapper!AllReturned PROVE \A d \in Wrapper!Devices : thread[on][d] = "value"
  <2>1. Wrapper!Ended(on) = Wrapper!Devices /\ Wrapper!Raised(on) = {}
    BY <1>5, <1>7 DEF Wrapper!AllReturned
  <2> QED BY <2>1 DEF Wrapper!Ended, Wrapper!Raised
<1>8. CASE Wrapper!Finished
  <2>1. Wrapper!TypeOK'
    BY <1>8 DEF Wrapper!Finished, Wrapper!Answer, Wrapper!IInv, Wrapper!TypeOK, Wrapper!Made
  <2>2. Wrapper!ListsAreValues' /\ Wrapper!WaitsForAlive'
    BY <1>7, <1>8, <1>a DEF Wrapper!Finished, Wrapper!IInv, Wrapper!TypeOK,
          Wrapper!ListsAreValues, Wrapper!WaitsForAlive, Wrapper!Made
  <2>3. Wrapper!AllMayComplete'
    <3>1. /\ answer'.kind = "values" /\ answer'.of = on /\ Wrapper!Raised(on) = {}
          /\ Wrapper!Ended(on) = Wrapper!Devices /\ UNCHANGED thread
      BY <1>5, <1>8 DEF Wrapper!Finished, Wrapper!AllReturned, Wrapper!Answer
    <3> QED BY <3>1 DEF Wrapper!AllMayComplete, Wrapper!Ended, Wrapper!Raised
  <2>4. Wrapper!BlockedByRunning'
    BY <1>5, <1>8 DEF Wrapper!Finished, Wrapper!AllReturned, Wrapper!IInv,
          Wrapper!BlockedByRunning, Wrapper!Ended, Wrapper!Made
  <2> QED BY <1>8, <2>1, <2>2, <2>3, <2>4, WrapperWaitInv DEF Wrapper!Finished
<1>9. CASE Wrapper!StartCall
  <2>1. made < MaxCalls /\ (Sync => \A v \in Wrapper!Made : Wrapper!Ended(v) = Wrapper!Devices)
    BY <1>9 DEF Wrapper!StartCall, Wrapper!AllReturned, Wrapper!IInv, Wrapper!WaitsForAlive,
          Wrapper!BlockedByRunning
  <2> QED BY <1>7, <1>9, <2>1, WrapperStartInv DEF Wrapper!StartCall, Wrapper!IInv,
                Wrapper!TypeOK
<1> QED BY <1>a, <1>1, <1>2, <1>3, <1>4, <1>6, <1>8, <1>9 DEF Wrapper!Caller, Wrapper!Call,
              Wrapper!pGet, Wrapper!pMap

LEMMA WrapperNextInv ==
  ASSUME Wrapper!CountsAreNatural, Wrapper!IInv, [Wrapper!Next]_(Wrapper!vars)
  PROVE  Wrapper!IInv'
<1>1. CASE UNCHANGED Wrapper!vars
  BY <1>1 DEF Wrapper!vars, Wrapper!caller, Wrapper!IInv, Wrapper!TypeOK,
        Wrapper!ListsAreValues, Wrapper!WaitsForAlive, Wrapper!ParentsAreMade,
        Wrapper!CallsAreInOrder, Wrapper!AllMayComplete, Wrapper!StartsAfterParent,
        Wrapper!BlockedByRunning, Wrapper!Ended, Wrapper!Raised, Wrapper!Made
<1> QED BY <1>1, WrapperRunInv, WrapperCallerInv DEF Wrapper!Next, Wrapper!Threads

(* With the blocking wrapper at most one call has threads that run.        *)
LEMMA WrapperBlockingRunsOne ==
  ASSUME Wrapper!IInv, Sync PROVE Wrapper!OneAtATime
<1> DEFINE unfinished == {w \in Wrapper!Made : Wrapper!Ended(w) # Wrapper!Devices}
<1>1. unfinished \subseteq {on}
  BY DEF Wrapper!IInv, Wrapper!BlockedByRunning
<1>2. IsFiniteSet({on}) /\ Cardinality({on}) = 1
  BY FS_Singleton
<1>3. Cardinality(unfinished) <= 1
  BY <1>1, <1>2, FS_Subset
<1>4. Wrapper!Cardinality(unfinished) = Cardinality(unfinished)
  BY DEF Wrapper!Cardinality, Cardinality
<1> QED BY <1>3, <1>4 DEF Wrapper!OneAtATime

-----------------------------------------------------------------------------
(* Preferences of an application.                                          *)

LEMMA PrefsInitInv == Prefs!Init => Prefs!IInv
BY DEF Prefs!Init, Prefs!IInv, Prefs!TypeOK, Prefs!LabelledIsThere, Prefs!CommitsInOrder,
      Prefs!AppIsCurrent, Prefs!CommittedIsReadable, Prefs!Idle

(* The helper changes its copy, or commits it.                             *)
LEMMA PrefsHelperInv ==
  ASSUME Prefs!IInv,
         \/ Prefs!Load \/ Prefs!Clear
         \/ Prefs!Commit \/ Prefs!CommitWrites \/ Prefs!CommitLabels \/ Prefs!CommitKills
         \/ Prefs!CommitFails
         \/ \E k \in Keys, type \in PrefTypes : \E text \in Prefs!Texts(type) :
              Prefs!SetPrefValue(k, type, text)
         \/ \E k \in Keys : Prefs!Remove(k)
  PROVE  Prefs!IInv'
<1> USE DEF Prefs!IInv, Prefs!TypeOK, Prefs!LabelledIsThere, Prefs!CommitsInOrder,
            Prefs!AppIsCurrent, Prefs!CommittedIsReadable, Prefs!Idle,
            Prefs!copy, Prefs!device
<1>1. CASE Prefs!Load
  BY <1>1 DEF Prefs!Load
<1>2. CASE Prefs!Clear
  BY <1>2 DEF Prefs!Clear
<1>3. CASE Prefs!Commit
  BY <1>3 DEF Prefs!Commit
<1>4. CASE Prefs!CommitWrites
  BY <1>4 DEF Prefs!CommitWrites
<1>5. CASE Prefs!CommitLabels
  BY <1>5 DEF Prefs!CommitLabels
<1>6. CASE Prefs!CommitKills
  BY <1>6 DEF Prefs!CommitKills
<1>7. CASE Prefs!CommitFails
  BY <1>7 DEF Prefs!CommitFails
<1>8. ASSUME NEW k, NEW type, NEW text, Prefs!SetPrefValue(k, type, text) PROVE Prefs!IInv'
  BY <1>8 DEF Prefs!SetPrefValue
<1>9. ASSUME NEW k, Prefs!Remove(k) PROVE Prefs!IInv'
  BY <1>9 DEF Prefs!Remove
<1> QED BY <1>1, <1>2, <1>3, <1>4, <1>5, <1>6, <1>7, <1>8, <1>9

(* The application reads the file when it starts, and writes it.           *)
LEMMA PrefsAppInv ==
  ASSUME Prefs!IInv, Prefs!AppStarts \/ \E k \in Keys : Prefs!AppSaves(k) PROVE Prefs!IInv'
<1> USE DEF Prefs!IInv, Prefs!TypeOK, Prefs!LabelledIsThere, Prefs!CommitsInOrder,
            Prefs!AppIsCurrent, Prefs!CommittedIsReadable, Prefs!Idle,
            Prefs!copy
<1>1. CASE Prefs!AppStarts
  BY <1>1 DEF Prefs!AppStarts
<1>2. ASSUME NEW k \in Keys, Prefs!AppSaves(k) PROVE Prefs!IInv'
  BY <1>2 DEF Prefs!AppSaves
<1> QED BY <1>1, <1>2

LEMMA PrefsNextInv == ASSUME Prefs!IInv, [Prefs!Next]_(Prefs!vars) PROVE Prefs!IInv'
<1>1. CASE UNCHANGED Prefs!vars
  BY <1>1 DEF Prefs!vars, Prefs!copy, Prefs!device, Prefs!IInv, Prefs!TypeOK,
        Prefs!LabelledIsThere, Prefs!CommitsInOrder, Prefs!AppIsCurrent,
         Prefs!CommittedIsReadable, Prefs!Idle
<1> QED BY <1>1, PrefsHelperInv, PrefsAppInv DEF Prefs!Next

-----------------------------------------------------------------------------
(* Flags of a browser.                                                     *)

(* What a sequence is without its last element, and with another one.      *)
LEMMA ChangerFrontOf ==
  ASSUME NEW S, NEW s \in Seq(S), s # <<>>
  PROVE  /\ Len(s) \in Nat \ {0} /\ Changer!Last(s) \in S /\ Changer!Last(s) = s[Len(s)]
         /\ Changer!Front(s) \in Seq(S) /\ Len(Changer!Front(s)) = Len(s) - 1
         /\ \A i \in 1..(Len(s) - 1) : Changer!Front(s)[i] = s[i]
<1>1. Len(s) \in Nat \ {0}
  OBVIOUS
<1>2. Changer!Last(s) = s[Len(s)]
  BY DEF Changer!Last
<1>3. Changer!Last(s) \in S
  BY <1>1, <1>2
<1>4. Changer!Front(s) \in Seq(S)
  BY <1>1 DEF Changer!Front
<1>5. Len(Changer!Front(s)) = Len(s) - 1
  <2>1. Len(s) - 1 \in Nat
    BY <1>1
  <2>2. CASE Len(s) - 1 = 0
    BY <1>1, <2>2 DEF Changer!Front
  <2>3. CASE 1 <= Len(s) - 1
    BY <1>1, <2>1, <2>3 DEF Changer!Front
  <2>4. \A k \in Nat : k = 0 \/ 1 <= k
    OBVIOUS
  <2> QED BY <2>1, <2>2, <2>3, <2>4, Zenon
<1>6. \A i \in 1..(Len(s) - 1) : Changer!Front(s)[i] = s[i]
  BY <1>1 DEF Changer!Front
<1> QED BY <1>1, <1>2, <1>3, <1>4, <1>5, <1>6

LEMMA ChangerAppendOf ==
  ASSUME NEW S, NEW s \in Seq(S), NEW e \in S
  PROVE  /\ Append(s, e) \in Seq(S) /\ Len(Append(s, e)) = Len(s) + 1 /\ Len(s) \in Nat
         /\ \A i \in 1..Len(s) : Append(s, e)[i] = s[i]
         /\ Append(s, e)[Len(s) + 1] = e
         /\ Append(s, e) # <<>> /\ Changer!Last(Append(s, e)) = e
BY DEF Changer!Last

LEMMA ChangerRemovesLast ==
  ASSUME NEW S, NEW s \in Seq(S), s # <<>>,
         \A i, j \in 1..Len(s) : s[i] = s[j] => i = j
  PROVE  Changer!RemoveAt(s, CHOOSE i \in DOMAIN s : s[i] = Changer!Last(s)) = Changer!Front(s)
<1> DEFINE n == Len(s)
<1>1. n \in Nat \ {0} /\ DOMAIN s = 1..n
  OBVIOUS
<1>2. \A i \in DOMAIN s : s[i] = Changer!Last(s) <=> i = n
  BY <1>1 DEF Changer!Last
<1>3. (CHOOSE i \in DOMAIN s : s[i] = Changer!Last(s)) = n
  BY <1>1, <1>2
<1>4. SubSeq(s, n + 1, n) = <<>> /\ SubSeq(s, 1, n - 1) \in Seq(S)
  BY <1>1
<1>5. SubSeq(s, 1, n - 1) \o <<>> = SubSeq(s, 1, n - 1)
  BY <1>4
<1> QED BY <1>3, <1>4, <1>5 DEF Changer!RemoveAt, Changer!Front

LEMMA ChangerInitInv ==
  ASSUME Changer!ChangersApart, Nested PROVE Changer!Init => Changer!IInv
<1> SUFFICES ASSUME Changer!Init PROVE Changer!IInv
  OBVIOUS
<1>1. Changer!TypeOK
  <2>1. <<>> \in Seq(SUBSET Flags) /\ <<>> \in Seq(Changer!Changers) /\ 0 \in Nat
    OBVIOUS
  <2>2. original \in [file : SUBSET Flags, enforce : BOOLEAN]
    BY DEF Changer!Init
  <2>3. /\ stack \in [Changer!Changers -> Seq(SUBSET Flags)] /\ order \in Seq(Changer!Changers)
        /\ owed \in [Changer!Changers -> Nat] /\ flagFaults \in Nat
    BY <2>1 DEF Changer!Init
  <2>4. pc \in [Changer!Changers -> {"out", "open", "replace", "in", "restore", "enforce"}]
    BY DEF Changer!Init
  <2>5. needs \in [Changer!Changers -> BOOLEAN]
    BY DEF Changer!Init
  <2> QED BY <2>2, <2>3, <2>4, <2>5 DEF Changer!Init, Changer!TypeOK
<1>2. Changer!OrderIsOfUse
  BY DEF Changer!Init, Changer!OrderIsOfUse
<1>3. Changer!StacksAreOwed
  BY DEF Changer!Init, Changer!StacksAreOwed, Changer!StackIsOwed, Changer!Changers
<1>4. Changer!EnforcementIsOwed
  BY DEF Changer!Init, Changer!EnforcementIsOwed
<1>5. Changer!FileIsOfLast /\ Changer!StacksBeginOutside
  BY DEF Changer!Init, Changer!FileIsOfLast, Changer!StacksBeginOutside
<1> QED BY <1>1, <1>2, <1>3, <1>4, <1>5 DEF Changer!IInv

-----------------------------------------------------------------------------

(* The last one in the order changes its place, its stack and the file.    *)
LEMMA ChangerLastInOrder ==
  ASSUME Changer!ChangersApart, Nested, Changer!IInv, NEW c \in Changer!Changers,
         pc[c] # "out", Changer!May(c)
  PROVE  /\ order # <<>> /\ Changer!Last(order) = c /\ Len(order) \in Nat \ {0}
         /\ order[Len(order)] = c
         /\ \A i \in 1..(Len(order) - 1) : order[i] # c /\ order[i] \in Changer!Changers
<1>1. order \in Seq(Changer!Changers) /\ order # <<>>
  BY DEF Changer!IInv, Changer!TypeOK, Changer!OrderIsOfUse
<1>2. Changer!Last(order) = c /\ Len(order) \in Nat \ {0} /\ order[Len(order)] = c
  BY <1>1, ChangerFrontOf DEF Changer!ChangersApart, Changer!May
<1>3. ASSUME NEW i \in 1..(Len(order) - 1) PROVE order[i] # c /\ order[i] \in Changer!Changers
  <2>1. i \in 1..Len(order) /\ Len(order) \in 1..Len(order) /\ i # Len(order)
    BY <1>2
  <2>2. order[i] \in Changer!Changers
    BY <1>1, <2>1
  <2> QED BY <1>2, <2>1, <2>2 DEF Changer!IInv, Changer!OrderIsOfUse
<1> QED BY <1>1, <1>2, <1>3

LEMMA ChangerOrderStays ==
  ASSUME Changer!ChangersApart, Nested, Changer!IInv, NEW c \in Changer!Changers,
         pc[c] # "out", Changer!May(c), order' = order,
         NEW to \in {"open", "replace", "in", "restore", "enforce"},
         pc' = [pc EXCEPT ![c] = to]
  PROVE  Changer!OrderIsOfUse'
<1>1. \A i \in 1..(Len(order) - 1) : order[i] # c /\ order[i] \in Changer!Changers
  BY ChangerLastInOrder
<1>2. \A d \in Changer!Changers : pc'[d] = IF d = c THEN to ELSE pc[d]
  BY DEF Changer!IInv, Changer!TypeOK
<1>3. \A d \in Changer!Changers : pc'[d] # "out" <=> pc[d] # "out"
  BY <1>2
<1> QED BY <1>1, <1>2, <1>3 DEF Changer!IInv, Changer!OrderIsOfUse

(* The stacks of the others stay, and with them what the others came upon. *)
LEMMA ChangerFilesStay ==
  ASSUME Changer!ChangersApart, Nested, Changer!IInv, NEW c \in Changer!Changers,
         pc[c] # "out", Changer!May(c),
         order' = order, original' = original, ~unrestored,
         \A d \in Changer!Changers \ {c} : stack'[d] = stack[d],
         stack'[c] # <<>> => stack'[c][1] = Changer!Outer(Len(order)),
         IF stack'[c] = <<>> THEN flagFile' = Changer!Outer(Len(order))
         ELSE pc'[c] # "restore" => flagFile' = Changer!Last(stack'[c])
  PROVE  Changer!FileIsOfLast' /\ Changer!StacksBeginOutside'
<1>1. order # <<>> /\ Len(order) \in Nat \ {0} /\ order[Len(order)] = c /\ Changer!Last(order) = c
  BY ChangerLastInOrder
<1>2. \A i \in 1..(Len(order) - 1) : order[i] # c /\ order[i] \in Changer!Changers
  BY ChangerLastInOrder
<1>3. \A i \in 1..Len(order) : Changer!Outer(i)' = Changer!Outer(i)
  <2> SUFFICES ASSUME NEW i \in 1..Len(order) PROVE Changer!Outer(i)' = Changer!Outer(i)
    OBVIOUS
  <2>1. CASE i = 1
    BY <2>1 DEF Changer!Outer
  <2>2. CASE i # 1
    <3>1. i - 1 \in 1..(Len(order) - 1)
      BY <1>1, <2>2
    <3>2. stack'[order[i - 1]] = stack[order[i - 1]]
      BY <1>2, <3>1
    <3> QED BY <2>2, <3>2 DEF Changer!Outer
  <2> QED BY <2>1, <2>2
<1>4. \A i \in 1..Len(order) : stack'[order[i]] # <<>> => stack'[order[i]][1] = Changer!Outer(i)
  <2> SUFFICES ASSUME NEW i \in 1..Len(order), stack'[order[i]] # <<>>
               PROVE  stack'[order[i]][1] = Changer!Outer(i)
    OBVIOUS
  <2>1. CASE i = Len(order)
    BY <1>1, <2>1
  <2>2. CASE i # Len(order)
    <3>1. i \in 1..(Len(order) - 1)
      BY <1>1, <2>2
    <3>2. stack'[order[i]] = stack[order[i]]
      BY <1>2, <3>1
    <3> QED BY <3>2 DEF Changer!IInv, Changer!StacksBeginOutside
  <2> QED BY <2>1, <2>2
<1>5. Changer!FileIsOfLast'
  BY <1>1, <1>3 DEF Changer!FileIsOfLast
<1> QED BY <1>3, <1>4, <1>5 DEF Changer!StacksBeginOutside

(* Another one comes into use within the body of the last one.             *)
LEMMA ChangerComes ==
  ASSUME Changer!ChangersApart, Nested, Changer!IInv, NEW c \in Changer!Changers,
         pc[c] = "out",
         order # <<>> => pc[Changer!Last(order)] = "in",
         NEW to \in {"open", "in"}, pc' = [pc EXCEPT ![c] = to],
         order' = Append(order, c), original' = original, flagFile' = flagFile,
         \A d \in Changer!Changers \ {c} : stack'[d] = stack[d],
         stack'[c] = <<>> \/ stack'[c] = <<flagFile>>
  PROVE  Changer!OrderIsOfUse' /\ (~unrestored => Changer!FileIsOfLast' /\ Changer!StacksBeginOutside')
<1>0. PICK n : n = Len(order)
  OBVIOUS
<1>1. /\ order \in Seq(Changer!Changers) /\ n \in Nat /\ Len(order') = n + 1 /\ order' # <<>>
      /\ order'[n + 1] = c /\ Changer!Last(order') = c /\ \A i \in 1..n : order'[i] = order[i]
  <2>1. order \in Seq(Changer!Changers)
    BY DEF Changer!IInv, Changer!TypeOK
  <2> QED BY <1>0, <2>1, ChangerAppendOf
<1>2. \A i \in 1..n : order[i] \in Changer!Changers
  BY <1>0, <1>1
<1>3. \A i \in 1..n : order[i] # c /\ pc[order[i]] # "out"
  BY <1>0, <1>2 DEF Changer!IInv, Changer!OrderIsOfUse
<1>4. n # 0 => order # <<>> /\ Changer!Last(order) = order[n] /\ n \in 1..n
  <2>1. n # 0 => order # <<>> /\ n \in 1..n
    BY <1>0, <1>1
  <2> QED BY <1>0, <1>1, <2>1, ChangerFrontOf
<1>5. \A i \in 1..n : pc[order[i]] = "in"
  <2> SUFFICES ASSUME NEW i \in 1..n PROVE pc[order[i]] = "in"
    OBVIOUS
  <2>1. CASE i = n
    BY <1>1, <1>4, <2>1
  <2>2. CASE i # n
    <3>1. i \in 1..(n - 1)
      BY <1>1, <2>2
    <3> QED BY <1>0, <3>1 DEF Changer!IInv, Changer!OrderIsOfUse
  <2> QED BY <2>1, <2>2
<1>6. \A d \in Changer!Changers : pc'[d] = IF d = c THEN to ELSE pc[d]
  BY DEF Changer!IInv, Changer!TypeOK
<1>7. Changer!OrderIsOfUse'
  <2>1. \A i \in 1..(n + 1) : i = n + 1 \/ i \in 1..n
    BY <1>1
  <2>2. \A i, j \in 1..(n + 1) : order'[i] = order'[j] => i = j
    BY <1>0, <1>1, <1>3, <2>1 DEF Changer!IInv, Changer!OrderIsOfUse
  <2>3. \A d \in Changer!Changers : pc'[d] # "out" <=> \E i \in 1..(n + 1) : order'[i] = d
    <3> SUFFICES ASSUME NEW d \in Changer!Changers
                 PROVE  pc'[d] # "out" <=> \E i \in 1..(n + 1) : order'[i] = d
      OBVIOUS
    <3>1. CASE d = c
      <4>1. n + 1 \in 1..(n + 1)
        BY <1>1
      <4> QED BY <1>1, <1>6, <3>1, <4>1
    <3>2. CASE d # c
      <4>1. pc[d] # "out" <=> \E i \in 1..n : order[i] = d
        BY <1>0 DEF Changer!IInv, Changer!OrderIsOfUse
      <4>2. \A i \in 1..n : i \in 1..(n + 1)
        BY <1>1
      <4> QED BY <1>1, <1>6, <2>1, <3>2, <4>1, <4>2
    <3> QED BY <3>1, <3>2
  <2>4. \A i \in 1..(n + 1 - 1) : pc'[order'[i]] = "in"
    <3>1. n + 1 - 1 = n
      BY <1>1
    <3> QED BY <1>1, <1>2, <1>3, <1>5, <1>6, <3>1
  <2> QED BY <1>1, <2>2, <2>3, <2>4 DEF Changer!OrderIsOfUse
<1>8. ASSUME ~unrestored PROVE Changer!FileIsOfLast' /\ Changer!StacksBeginOutside'
  <2>1. \A i \in 1..n : stack'[order'[i]] = stack[order[i]]
    BY <1>1, <1>2, <1>3
  <2>2. \A i \in 1..n : Changer!Outer(i)' = Changer!Outer(i)
    <3> SUFFICES ASSUME NEW i \in 1..n PROVE Changer!Outer(i)' = Changer!Outer(i)
      OBVIOUS
    <3>1. CASE i = 1
      BY <3>1 DEF Changer!Outer
    <3>2. CASE i # 1
      <4>1. i - 1 \in 1..n
        BY <1>1, <3>2
      <4> QED BY <2>1, <3>2, <4>1 DEF Changer!Outer
    <3> QED BY <3>1, <3>2
  <2>3. Changer!Outer(n + 1)' = flagFile
    <3>1. CASE n = 0
      <4>1. order = <<>> /\ n + 1 = 1
        BY <1>0, <1>1, <3>1
      <4> QED BY <4>1, <1>8 DEF Changer!Outer, Changer!IInv, Changer!FileIsOfLast
    <3>2. CASE n # 0
      <4>1. n + 1 # 1 /\ n + 1 - 1 = n /\ n \in 1..n
        BY <1>1, <3>2
      <4>2. Changer!Outer(n + 1)' = Changer!Last(stack[order[n]])
        <5>1. Changer!Outer(n + 1)' = Changer!Last(stack'[order'[n]])
          BY <1>1, <4>1 DEF Changer!Outer
        <5> QED BY <2>1, <4>1, <5>1
      <4>3. order[n] \in Changer!Changers /\ pc[order[n]] = "in"
        BY <1>2, <1>5, <4>1
      <4>4. Len(stack[order[n]]) # 0
        <5>1. /\ owed[order[n]] \in Nat
              /\ Len(stack[order[n]]) = IF order[n] \in Contexts THEN 2 ELSE owed[order[n]] + 1
          BY <4>3 DEF Changer!IInv, Changer!TypeOK, Changer!StacksAreOwed, Changer!StackIsOwed
        <5> QED BY <5>1
      <4>5. stack[order[n]] # <<>>
        BY <4>4
      <4> QED BY <1>4, <1>8, <3>2, <4>2, <4>3, <4>5 DEF Changer!IInv, Changer!FileIsOfLast
    <3> QED BY <3>1, <3>2
  <2>4. Changer!FileIsOfLast'
    <3>1. Changer!Last(<<flagFile>>) = flagFile
      BY DEF Changer!Last
    <3>2. CASE stack'[c] = <<>>
      <4>1. Changer!Outer(Len(order))' = flagFile
        BY <1>1, <2>3 DEF Changer!Outer
      <4> QED BY <1>1, <3>2, <4>1 DEF Changer!FileIsOfLast
    <3>3. CASE stack'[c] = <<flagFile>>
      BY <1>1, <3>1, <3>3 DEF Changer!FileIsOfLast
    <3> QED BY <3>2, <3>3
  <2>5. Changer!StacksBeginOutside'
    <3> SUFFICES ASSUME NEW i \in 1..(n + 1), stack'[order'[i]] # <<>>
                 PROVE  stack'[order'[i]][1] = Changer!Outer(i)'
      BY <1>1 DEF Changer!StacksBeginOutside
    <3>1. CASE i = n + 1
      BY <1>1, <2>3, <3>1
    <3>2. CASE i # n + 1
      <4>1. i \in 1..n
        BY <1>1, <3>2
      <4> QED BY <1>0, <1>8, <2>1, <2>2, <4>1 DEF Changer!IInv, Changer!StacksBeginOutside
    <3> QED BY <3>1, <3>2
  <2> QED BY <2>4, <2>5
<1> QED BY <1>7, <1>8

(* The last one is out of use when the file is as it found it.             *)
LEMMA ChangerGoesOut ==
  ASSUME Changer!ChangersApart, Nested, Changer!IInv, NEW c \in Changer!Changers,
         pc[c] # "out", Changer!May(c),
         pc' = [pc EXCEPT ![c] = "out"], original' = original, flagFile' = flagFile,
         Changer!Closed(c), ~unrestored => flagFile = Changer!Outer(Len(order))
  PROVE  Changer!OrderIsOfUse' /\ (~unrestored => Changer!FileIsOfLast' /\ Changer!StacksBeginOutside')
<1>0. PICK n : n = Len(order)
  OBVIOUS
<1>1. order # <<>> /\ n \in Nat \ {0} /\ order[n] = c /\ Changer!Last(order) = c
      /\ \A i \in 1..(n - 1) : order[i] # c /\ order[i] \in Changer!Changers
  BY <1>0, ChangerLastInOrder
<1>2. order' = Changer!Front(order)
  BY <1>1, ChangerRemovesLast DEF Changer!Closed, Changer!IInv, Changer!TypeOK,
        Changer!OrderIsOfUse
<1>3. order' \in Seq(Changer!Changers) /\ Len(order') = n - 1 /\ \A i \in 1..(n - 1) : order'[i] = order[i]
  BY <1>0, <1>1, <1>2, ChangerFrontOf DEF Changer!IInv, Changer!TypeOK
<1>4. \A d \in Changer!Changers : pc'[d] = IF d = c THEN "out" ELSE pc[d]
  BY DEF Changer!IInv, Changer!TypeOK
<1>5. \A i \in 1..n : i = n \/ i \in 1..(n - 1)
  BY <1>1
<1>6. \A i \in 1..(n - 1) : i \in 1..n /\ pc[order[i]] = "in"
  BY <1>0, <1>1 DEF Changer!IInv, Changer!OrderIsOfUse
<1>7. Changer!OrderIsOfUse'
  <2>1. \A i, j \in 1..(n - 1) : order'[i] = order'[j] => i = j
    BY <1>0, <1>3, <1>6 DEF Changer!IInv, Changer!OrderIsOfUse
  <2>2. \A d \in Changer!Changers : pc'[d] # "out" <=> \E i \in 1..(n - 1) : order'[i] = d
    <3> SUFFICES ASSUME NEW d \in Changer!Changers
                 PROVE  pc'[d] # "out" <=> \E i \in 1..(n - 1) : order'[i] = d
      OBVIOUS
    <3>1. pc[d] # "out" <=> \E i \in 1..n : order[i] = d
      BY <1>0 DEF Changer!IInv, Changer!OrderIsOfUse
    <3> QED BY <1>1, <1>3, <1>4, <1>5, <1>6, <3>1
  <2>3. \A i \in 1..(n - 1 - 1) : pc'[order'[i]] = "in"
    <3>1. \A i \in 1..(n - 1 - 1) : i \in 1..(n - 1)
      BY <1>1
    <3> QED BY <1>1, <1>3, <1>4, <1>6, <3>1
  <2> QED BY <1>3, <2>1, <2>2, <2>3 DEF Changer!OrderIsOfUse
<1>8. ASSUME ~unrestored PROVE Changer!FileIsOfLast' /\ Changer!StacksBeginOutside'
  <2>1. \A i \in 1..(n - 1) : stack'[order'[i]] = stack[order[i]]
    BY <1>1, <1>3 DEF Changer!Closed, Changer!IInv, Changer!TypeOK
  <2>2. \A i \in 1..(n - 1) : Changer!Outer(i)' = Changer!Outer(i)
    <3> SUFFICES ASSUME NEW i \in 1..(n - 1) PROVE Changer!Outer(i)' = Changer!Outer(i)
      OBVIOUS
    <3>1. CASE i = 1
      BY <3>1 DEF Changer!Outer
    <3>2. CASE i # 1
      <4>1. i - 1 \in 1..(n - 1)
        BY <1>1, <3>2
      <4> QED BY <2>1, <3>2, <4>1 DEF Changer!Outer
    <3> QED BY <3>1, <3>2
  <2>3. Changer!FileIsOfLast'
    <3>1. CASE n = 1
      <4>1. Len(order') = 0
        BY <1>3, <3>1
      <4>2. order' = <<>>
        BY <1>3, <4>1
      <4> QED BY <1>0, <1>8, <3>1, <4>2 DEF Changer!FileIsOfLast, Changer!Outer
    <3>2. CASE n # 1
      <4>1. n - 1 # 0 /\ n - 1 \in Nat
        BY <1>1, <3>2
      <4>8. n - 1 \in 1..(n - 1)
        BY <1>1, <3>2
      <4>2. order' # <<>> /\ Changer!Last(order') = order[n - 1]
        <5>1. order' # <<>>
          BY <1>3, <4>1
        <5> QED BY <1>3, <4>8, <5>1, ChangerFrontOf
      <4>3. order[n - 1] \in Changer!Changers /\ pc[order[n - 1]] = "in" /\ order[n - 1] # c
        BY <1>1, <1>6, <4>8
      <4>4. Len(stack[order[n - 1]]) # 0
        <5>1. /\ owed[order[n - 1]] \in Nat
              /\ Len(stack[order[n - 1]]) = IF order[n - 1] \in Contexts THEN 2 ELSE owed[order[n - 1]] + 1
          BY <4>3 DEF Changer!IInv, Changer!TypeOK, Changer!StacksAreOwed, Changer!StackIsOwed
        <5> QED BY <5>1
      <4>5. stack[order[n - 1]] # <<>>
        BY <4>4
      <4>6. stack'[Changer!Last(order')] = stack[order[n - 1]]
        BY <1>3, <2>1, <4>8, <4>2
      <4>7. flagFile = Changer!Last(stack[order[n - 1]])
        BY <1>0, <1>8, <3>2 DEF Changer!Outer
      <4> QED BY <4>2, <4>5, <4>6, <4>7 DEF Changer!FileIsOfLast
    <3> QED BY <3>1, <3>2
  <2>4. Changer!StacksBeginOutside'
    BY <1>0, <1>3, <1>6, <1>8, <2>1, <2>2 DEF Changer!IInv, Changer!StacksBeginOutside
  <2> QED BY <2>3, <2>4
<1> QED BY <1>7, <1>8
-----------------------------------------------------------------------------

(* What holds of the one that is last in the order.                        *)
LEMMA ChangerOwnFile ==
  ASSUME Changer!ChangersApart, Nested, Changer!IInv, NEW c \in Changer!Changers,
         pc[c] # "out", Changer!May(c), ~unrestored
  PROVE  /\ stack[c] = <<>> => flagFile = Changer!Outer(Len(order))
         /\ stack[c] # <<>> => stack[c][1] = Changer!Outer(Len(order))
         /\ stack[c] # <<>> /\ pc[c] # "restore" => flagFile = Changer!Last(stack[c])
<1>1. order # <<>> /\ Changer!Last(order) = c /\ Len(order) \in 1..Len(order) /\ order[Len(order)] = c
  BY ChangerLastInOrder
<1> QED BY <1>1 DEF Changer!IInv, Changer!FileIsOfLast, Changer!StacksBeginOutside

LEMMA ChangerOwnStack ==
  ASSUME Changer!IInv, NEW c \in Changer!Changers
  PROVE  stack[c] \in Seq(SUBSET Flags) /\ Len(stack[c]) \in Nat /\ owed[c] \in Nat /\ Changer!StackIsOwed(c)
<1>1. stack[c] \in Seq(SUBSET Flags) /\ owed[c] \in Nat
  BY DEF Changer!IInv, Changer!TypeOK
<1>2. Len(stack[c]) \in Nat
  BY <1>1
<1> QED BY <1>1, <1>2 DEF Changer!IInv, Changer!StacksAreOwed

(* The last one in the order goes on: what is left to show is its own.     *)
LEMMA ChangerGoesOn ==
  ASSUME Changer!ChangersApart, Nested, Changer!IInv, NEW c \in Changer!Changers,
         pc[c] # "out", Changer!May(c),
         NEW to \in {"open", "replace", "in", "restore", "enforce"}, pc' = [pc EXCEPT ![c] = to],
         NEW states \in Seq(SUBSET Flags), stack' = [stack EXCEPT ![c] = states],
         order' = order, original' = original, enforce' = enforce, needs' = needs, lifted' = lifted,
         legacy' \in BOOLEAN, flagFaults' \in Nat, flagFile' \in SUBSET Flags, unrestored' \in BOOLEAN,
         owed' \in [Changer!Changers -> Nat], \A d \in Changer!Changers \ {c} : owed'[d] = owed[d],
         unrestored => unrestored', Changer!StackIsOwed(c)',
         ~unrestored' => /\ states # <<>> => states[1] = Changer!Outer(Len(order))
                         /\ IF states = <<>> THEN flagFile' = Changer!Outer(Len(order))
                            ELSE to # "restore" => flagFile' = Changer!Last(states)
  PROVE  Changer!IInv'
<1>1. \A d \in Changer!Changers : /\ pc'[d] = IF d = c THEN to ELSE pc[d]
                                  /\ stack'[d] = IF d = c THEN states ELSE stack[d]
  BY DEF Changer!IInv, Changer!TypeOK
<1>2. Changer!TypeOK'
  <2>1. stack' \in [Changer!Changers -> Seq(SUBSET Flags)]
    BY DEF Changer!IInv, Changer!TypeOK
  <2>2. pc' \in [Changer!Changers -> {"out", "open", "replace", "in", "restore", "enforce"}]
    BY DEF Changer!IInv, Changer!TypeOK
  <2> QED BY <2>1, <2>2 DEF Changer!IInv, Changer!TypeOK
<1>3. Changer!OrderIsOfUse'
  BY ChangerOrderStays
<1>4. Changer!StacksAreOwed'
  <2>1. \A d \in Changer!Changers \ {c} : Changer!StackIsOwed(d)'
    BY <1>1 DEF Changer!IInv, Changer!StacksAreOwed, Changer!StackIsOwed
  <2> QED BY <2>1 DEF Changer!StacksAreOwed
<1>5. Changer!EnforcementIsOwed'
  BY <1>1 DEF Changer!IInv, Changer!EnforcementIsOwed
<1>6. ~unrestored' => Changer!FileIsOfLast' /\ Changer!StacksBeginOutside'
  BY <1>1, ChangerFilesStay
<1> QED BY <1>2, <1>3, <1>4, <1>5, <1>6 DEF Changer!IInv

LEMMA ChangerCreateInv ==
  ASSUME Changer!ChangersApart, Nested, Changer!IInv, NEW c \in Changer!Changers,
         Changer!Create(c)
  PROVE  Changer!IInv'
<1>1. /\ <<flagFile>> \in Seq(SUBSET Flags) /\ Len(<<flagFile>>) = 1
      /\ Changer!Last(<<flagFile>>) = flagFile /\ <<flagFile>> # <<>> /\ <<flagFile>>[1] = flagFile
  BY DEF Changer!Last, Changer!IInv, Changer!TypeOK
<1>2. stack' = [stack EXCEPT ![c] = <<flagFile>>] /\ stack'[c] = <<flagFile>>
  BY DEF Changer!Create, Changer!IInv, Changer!TypeOK
<1>3. CASE c \in Contexts
  <2>1. pc[c] = "open" /\ Changer!May(c) /\ pc' = [pc EXCEPT ![c] = "replace"] /\ order' = order
    BY <1>3 DEF Changer!Create, Changer!Goes
  <2>2. pc'[c] = "replace" /\ c \notin FlagObjects
    BY <1>3, <2>1 DEF Changer!IInv, Changer!TypeOK, Changer!ChangersApart
  <2>3. Changer!StackIsOwed(c)'
    <3>1. owed'[c] = 0
      BY <1>3, ChangerOwnStack DEF Changer!StackIsOwed, Changer!Create
    <3>2. Len(stack'[c]) = 1
      BY <1>1, <1>2
    <3> QED BY <2>2, <3>1, <3>2 DEF Changer!StackIsOwed
  <2>4. Len(stack[c]) = 0 /\ stack[c] = <<>>
    BY <2>1, ChangerOwnStack DEF Changer!StackIsOwed
  <2>5. ~unrestored => flagFile = Changer!Outer(Len(order))
    BY <2>1, <2>4, ChangerOwnFile
  <2>6. /\ order' = order /\ original' = original /\ enforce' = enforce /\ needs' = needs /\ lifted' = lifted
        /\ legacy' \in BOOLEAN /\ flagFaults' \in Nat /\ flagFile' \in SUBSET Flags
        /\ unrestored' \in BOOLEAN
        /\ owed' \in [Changer!Changers -> Nat] /\ owed' = owed /\ unrestored' = unrestored
        /\ flagFile' = flagFile
    BY <2>1 DEF Changer!Create, Changer!IInv, Changer!TypeOK
  <2> QED BY <1>1, <1>2, <2>1, <2>3, <2>5, <2>6, ChangerGoesOn
<1>4. CASE c \notin Contexts
  <2>1. /\ pc[c] = "out" /\ pc' = [pc EXCEPT ![c] = "in"] /\ order' = Append(order, c)
        /\ order # <<>> => pc[Changer!Last(order)] = "in"
    BY <1>4 DEF Changer!Create, Changer!ChangersApart
  <2>2. /\ original' = original /\ enforce' = enforce /\ needs' = needs /\ legacy' = FALSE
        /\ flagFaults' = flagFaults /\ flagFile' = flagFile /\ unrestored' = unrestored
        /\ owed' = owed /\ lifted' = lifted
    BY DEF Changer!Create
  <2>3. \A d \in Changer!Changers : /\ pc'[d] = IF d = c THEN "in" ELSE pc[d]
                                    /\ stack'[d] = IF d = c THEN <<flagFile>> ELSE stack[d]
    BY <1>2, <2>1 DEF Changer!IInv, Changer!TypeOK
  <2>4. Changer!TypeOK'
    <3>1. stack' \in [Changer!Changers -> Seq(SUBSET Flags)]
      BY <1>1, <1>2 DEF Changer!IInv, Changer!TypeOK
    <3>2. order' \in Seq(Changer!Changers)
      BY <2>1 DEF Changer!IInv, Changer!TypeOK
    <3>3. pc' \in [Changer!Changers -> {"out", "open", "replace", "in", "restore", "enforce"}]
      BY <2>1 DEF Changer!IInv, Changer!TypeOK
    <3> QED BY <2>2, <3>1, <3>2, <3>3 DEF Changer!IInv, Changer!TypeOK
  <2>5. Changer!OrderIsOfUse' /\ (~unrestored => Changer!FileIsOfLast' /\ Changer!StacksBeginOutside')
    BY <1>2, <2>1, <2>2, <2>3, ChangerComes
  <2>6. owed[c] = 0
    BY <2>1, ChangerOwnStack DEF Changer!StackIsOwed
  <2>7. Changer!StacksAreOwed'
    <3>1. \A d \in Changer!Changers \ {c} : Changer!StackIsOwed(d)'
      BY <2>2, <2>3 DEF Changer!IInv, Changer!StacksAreOwed, Changer!StackIsOwed
    <3>2. Changer!StackIsOwed(c)'
      BY <1>1, <1>4, <2>2, <2>3, <2>6 DEF Changer!StackIsOwed
    <3> QED BY <3>1, <3>2 DEF Changer!StacksAreOwed
  <2>8. Changer!EnforcementIsOwed'
    BY <2>2, <2>3 DEF Changer!IInv, Changer!EnforcementIsOwed
  <2> QED BY <2>2, <2>4, <2>5, <2>7, <2>8 DEF Changer!IInv
<1> QED BY <1>3, <1>4

(* The enforcement is lifted, and the context is in use.                   *)
LEMMA ChangerEnterInv ==
  ASSUME Changer!ChangersApart, Nested, Changer!IInv, NEW c \in Changer!Changers,
         Changer!EnterContext(c) \/ Changer!EnterFails(c) PROVE Changer!IInv'
<1>1. CASE Changer!EnterContext(c)
  <2>1. /\ pc[c] = "out" /\ pc' = [pc EXCEPT ![c] = "open"] /\ order' = Append(order, c)
        /\ order # <<>> => pc[Changer!Last(order)] = "in"
        /\ needs' = [needs EXCEPT ![c] = enforce] /\ enforce' = FALSE /\ stack' = stack
        /\ flagFile' = flagFile /\ legacy' = legacy /\ original' = original /\ owed' = owed
        /\ flagFaults' = flagFaults /\ unrestored' = unrestored /\ lifted' = lifted
    BY <1>1 DEF Changer!EnterContext, Changer!Needs, Changer!ChangersApart
  <2>2. Len(stack[c]) = 0 /\ stack[c] = <<>>
    BY <2>1, ChangerOwnStack DEF Changer!StackIsOwed
  <2>3. \A d \in Changer!Changers : /\ pc'[d] = IF d = c THEN "open" ELSE pc[d]
                                    /\ needs'[d] = IF d = c THEN enforce ELSE needs[d]
    BY <2>1 DEF Changer!IInv, Changer!TypeOK
  <2>4. Changer!TypeOK'
    <3>1. order' \in Seq(Changer!Changers)
      BY <2>1 DEF Changer!IInv, Changer!TypeOK
    <3>2. pc' \in [Changer!Changers -> {"out", "open", "replace", "in", "restore", "enforce"}]
      BY <2>1 DEF Changer!IInv, Changer!TypeOK
    <3>3. needs' \in [Changer!Changers -> BOOLEAN]
      BY <2>1 DEF Changer!IInv, Changer!TypeOK
    <3> QED BY <2>1, <3>1, <3>2, <3>3 DEF Changer!IInv, Changer!TypeOK
  <2>5. Changer!OrderIsOfUse' /\ (~unrestored => Changer!FileIsOfLast' /\ Changer!StacksBeginOutside')
    BY <2>1, <2>2, ChangerComes
  <2>6. Changer!StacksAreOwed'
    <3>1. \A d \in Changer!Changers \ {c} : Changer!StackIsOwed(d)'
      BY <2>1, <2>3 DEF Changer!IInv, Changer!StacksAreOwed, Changer!StackIsOwed
    <3>2. c \notin FlagObjects
      BY <1>1 DEF Changer!EnterContext, Changer!ChangersApart
    <3>3. Changer!StackIsOwed(c)'
      BY <2>1, <2>2, <2>3, <3>2, ChangerOwnStack DEF Changer!StackIsOwed
    <3> QED BY <3>1, <3>3 DEF Changer!StacksAreOwed
  <2>7. Changer!EnforcementIsOwed'
    <3>1. ~needs[c]
      BY <2>1 DEF Changer!IInv, Changer!EnforcementIsOwed
    <3>2. original.enforce = (enforce \/ lifted \/ \E d \in Changer!Changers : needs[d])
      BY DEF Changer!IInv, Changer!EnforcementIsOwed
    <3>3. (\E d \in Changer!Changers : needs'[d]) <=> (enforce \/ \E d \in Changer!Changers : needs[d])
      BY <2>3, <3>1
    <3>4. \A d \in Changer!Changers : pc'[d] = "out" \/ d \in FlagObjects => ~needs'[d]
      BY <1>1, <2>3 DEF Changer!EnterContext, Changer!ChangersApart,
            Changer!IInv, Changer!EnforcementIsOwed
    <3> QED BY <2>1, <3>2, <3>3, <3>4, Zenon DEF Changer!EnforcementIsOwed
  <2> QED BY <2>1, <2>4, <2>5, <2>6, <2>7 DEF Changer!IInv
<1>2. CASE Changer!EnterFails(c)
  <2>1. /\ enforce = TRUE /\ enforce' \in BOOLEAN /\ lifted' = (lifted \/ ~enforce')
        /\ flagFaults' = flagFaults + 1
        /\ UNCHANGED <<flagFile, legacy, original, pc, stack, needs, owed, order, unrestored>>
    BY <1>2 DEF Changer!EnterFails, Changer!CommandFails, Changer!MayEnforce, Changer!IInv, Changer!TypeOK
  <2>2. Changer!TypeOK'
    <3>1. flagFaults + 1 \in Nat
      BY DEF Changer!IInv, Changer!TypeOK
    <3>2. lifted' \in BOOLEAN
      BY <2>1, Zenon DEF Changer!IInv, Changer!TypeOK
    <3> QED BY <2>1, <3>1, <3>2 DEF Changer!IInv, Changer!TypeOK
  <2>3. Changer!EnforcementIsOwed'
    <3>1. original.enforce = (enforce \/ lifted \/ \E d \in Changer!Changers : needs[d])
      BY DEF Changer!IInv, Changer!EnforcementIsOwed
    <3>2. (enforce' \/ lifted' \/ \E d \in Changer!Changers : needs[d]) = TRUE
      BY <2>1, Zenon
    <3>3. original.enforce = TRUE
      BY <2>1, <3>1, Zenon
    <3>4. original'.enforce = (enforce' \/ lifted' \/ \E d \in Changer!Changers : needs'[d])
      BY <2>1, <3>2, <3>3, Zenon
    <3>5. \A d \in Changer!Changers : pc'[d] = "out" \/ d \in FlagObjects => ~needs'[d]
      BY <2>1 DEF Changer!IInv, Changer!EnforcementIsOwed
    <3> QED BY <3>4, <3>5, Zenon DEF Changer!EnforcementIsOwed
  <2>4. Changer!OrderIsOfUse' /\ Changer!StacksAreOwed'
    BY <2>1 DEF Changer!IInv, Changer!OrderIsOfUse, Changer!StacksAreOwed, Changer!StackIsOwed
  <2>5. ~unrestored' => Changer!FileIsOfLast' /\ Changer!StacksBeginOutside'
    BY <2>1 DEF Changer!IInv, Changer!FileIsOfLast, Changer!StacksBeginOutside, Changer!Outer
  <2> QED BY <2>2, <2>3, <2>4, <2>5 DEF Changer!IInv
<1> QED BY <1>1, <1>2

(* The context closes, and gives back what it has lifted.                  *)
LEMMA ChangerClosesInv ==
  ASSUME Changer!ChangersApart, Nested, Changer!IInv, NEW c \in Changer!Changers,
         Changer!ExitContext(c) \/ Changer!ExitFails(c) \/ Changer!Drop(c) PROVE Changer!IInv'
<1>1. /\ pc[c] # "out" /\ Changer!May(c) /\ pc' = [pc EXCEPT ![c] = "out"] /\ Changer!Closed(c)
      /\ flagFile' = flagFile /\ original' = original /\ legacy' = legacy /\ owed' = owed
      /\ unrestored' = unrestored
      /\ stack' = [stack EXCEPT ![c] = <<>>] /\ needs' = [needs EXCEPT ![c] = FALSE]
  BY DEF Changer!ExitContext, Changer!ExitFails, Changer!Drop, Changer!Goes, Changer!Closed
<1>2. \A d \in Changer!Changers : /\ pc'[d] = IF d = c THEN "out" ELSE pc[d]
                                  /\ needs'[d] = IF d = c THEN FALSE ELSE needs[d]
                          /\ stack'[d] = IF d = c THEN <<>> ELSE stack[d]
  BY <1>1 DEF Changer!IInv, Changer!TypeOK
<1>3. Len(stack[c]) <= 1 /\ owed[c] = 0 /\ pc[c] # "restore"
  <2>1. CASE Changer!ExitContext(c) \/ Changer!ExitFails(c)
    <3>1. pc[c] = "enforce"
      BY <2>1 DEF Changer!ExitContext, Changer!ExitFails, Changer!Goes
    <3>2. c \in Contexts
      BY <3>1, ChangerOwnStack DEF Changer!StackIsOwed, Changer!Changers
    <3> QED BY <3>1, <3>2, ChangerOwnStack DEF Changer!StackIsOwed
  <2>2. CASE Changer!Drop(c)
    <3>1. pc[c] = "in" /\ owed[c] = 0 /\ c \notin Contexts
      BY <2>2 DEF Changer!Drop, Changer!Goes, Changer!ChangersApart
    <3> QED BY <3>1, ChangerOwnStack DEF Changer!StackIsOwed
  <2> QED BY <2>1, <2>2
<1>4. ASSUME ~unrestored PROVE flagFile = Changer!Outer(Len(order))
  <2>1. CASE stack[c] = <<>>
    BY <1>1, <1>4, <2>1, ChangerOwnFile
  <2>2. CASE stack[c] # <<>>
    <3>1. stack[c] \in Seq(SUBSET Flags) /\ Len(stack[c]) \in Nat
      BY ChangerOwnStack
    <3>2. Changer!Last(stack[c]) = stack[c][Len(stack[c])] /\ Len(stack[c]) # 0
      BY <2>2, <3>1, ChangerFrontOf
    <3>4. \A k \in Nat : k <= 1 /\ k # 0 => k = 1
      OBVIOUS
    <3>3. Len(stack[c]) = 1
      BY <1>3, <3>1, <3>2, <3>4, Zenon
    <3> QED BY <3>2, <3>3, <1>1, <1>3, <1>4, <2>2, <3>1, ChangerOwnFile
  <2> QED BY <2>1, <2>2
<1>5. Changer!OrderIsOfUse' /\ (~unrestored => Changer!FileIsOfLast' /\ Changer!StacksBeginOutside')
  BY <1>1, <1>4, ChangerGoesOut
<1>6. Changer!StacksAreOwed'
  <2>1. \A d \in Changer!Changers \ {c} : Changer!StackIsOwed(d)'
    BY <1>1, <1>2 DEF Changer!IInv, Changer!StacksAreOwed, Changer!StackIsOwed
  <2>2. Changer!StackIsOwed(c)'
    <3>1. Len(<<>>) = 0 /\ pc'[c] = "out" /\ stack'[c] = <<>> /\ owed'[c] = 0
      BY <1>1, <1>2, <1>3
    <3> QED BY <3>1 DEF Changer!StackIsOwed
  <2> QED BY <2>1, <2>2 DEF Changer!StacksAreOwed
<1>7. /\ Changer!EnforcementIsOwed'
      /\ enforce' \in BOOLEAN /\ lifted' \in BOOLEAN /\ flagFaults' \in Nat
  <2>1. /\ original.enforce = (enforce \/ lifted \/ \E d \in Changer!Changers : needs[d])
        /\ enforce \in BOOLEAN /\ lifted \in BOOLEAN /\ flagFaults \in Nat
    BY DEF Changer!IInv, Changer!EnforcementIsOwed, Changer!TypeOK
  <2>2. /\ (enforce' \/ lifted') <=> (enforce \/ lifted \/ needs[c])
        /\ enforce' \in BOOLEAN /\ lifted' \in BOOLEAN
    <3>1. CASE Changer!ExitContext(c)
      <4>1. enforce' = (enforce \/ needs[c]) /\ lifted' = lifted
        BY <3>1 DEF Changer!ExitContext
      <4> QED BY <2>1, <4>1, Zenon
    <3>2. CASE Changer!ExitFails(c)
      <4>1. needs[c] /\ lifted' = (lifted \/ ~enforce') /\ enforce' \in {enforce, TRUE}
        BY <3>2 DEF Changer!ExitFails, Changer!MayEnforce
      <4> QED BY <2>1, <4>1, Zenon
    <3>3. CASE Changer!Drop(c)
      <4>1. ~needs[c]
        BY <3>3 DEF Changer!Drop, Changer!IInv, Changer!EnforcementIsOwed
      <4>2. enforce' = enforce /\ lifted' = lifted
        BY <3>3 DEF Changer!Drop
      <4> QED BY <2>1, <4>1, <4>2, Zenon
    <3> QED BY <3>1, <3>2, <3>3
  <2>3. (enforce' \/ lifted' \/ \E d \in Changer!Changers : needs'[d]) <=> (enforce \/ lifted \/ \E d \in Changer!Changers : needs[d])
    <3>1. \A d \in Changer!Changers : needs'[d] => needs[d]
      BY <1>2
    <3>2. \A d \in Changer!Changers : needs[d] => needs'[d] \/ needs[c]
      BY <1>2
    <3> QED BY <2>2, <3>1, <3>2, Zenon
  <2>4. \A d \in Changer!Changers : pc'[d] = "out" \/ d \in FlagObjects => ~needs'[d]
    BY <1>2 DEF Changer!IInv, Changer!EnforcementIsOwed
  <2>5. original'.enforce = (enforce' \/ lifted' \/ \E d \in Changer!Changers : needs'[d])
    BY <1>1, <2>1, <2>3, Zenon
  <2>6. flagFaults' \in Nat
    <3>1. flagFaults' = flagFaults \/ flagFaults' = flagFaults + 1
      BY DEF Changer!ExitContext, Changer!ExitFails, Changer!Drop, Changer!CommandFails
    <3> QED BY <2>1, <3>1
  <2> QED BY <2>2, <2>4, <2>5, <2>6, Zenon DEF Changer!EnforcementIsOwed
<1>8. Changer!TypeOK'
  <2>1. stack' \in [Changer!Changers -> Seq(SUBSET Flags)]
    <3>1. <<>> \in Seq(SUBSET Flags)
      OBVIOUS
    <3> QED BY <1>1, <3>1 DEF Changer!IInv, Changer!TypeOK
  <2>2. pc' \in [Changer!Changers -> {"out", "open", "replace", "in", "restore", "enforce"}]
    BY <1>1 DEF Changer!IInv, Changer!TypeOK
  <2>3. needs' \in [Changer!Changers -> BOOLEAN]
    BY <1>1 DEF Changer!IInv, Changer!TypeOK
  <2>4. order' \in Seq(Changer!Changers)
    <3>1. order \in Seq(Changer!Changers) /\ order # <<>> /\ Changer!Last(order) = c
      BY <1>1, ChangerLastInOrder DEF Changer!IInv, Changer!TypeOK
    <3>2. order' = Changer!Front(order)
      BY <1>1, <3>1, ChangerRemovesLast DEF Changer!Closed, Changer!IInv, Changer!OrderIsOfUse
    <3> QED BY <3>1, <3>2, ChangerFrontOf
  <2> QED BY <1>1, <1>7, <2>1, <2>2, <2>3, <2>4 DEF Changer!IInv, Changer!TypeOK
<1> QED BY <1>1, <1>5, <1>6, <1>7, <1>8 DEF Changer!IInv

(* The stack gets another state, or loses its last.                        *)
LEMMA ChangerStackInv ==
  ASSUME Changer!ChangersApart, Nested, Changer!IInv, NEW c \in Changer!Changers,
         \/ Changer!GetCurrentFlags(c) \/ Changer!Restore(c) \/ Changer!RestoreFails(c) \/ Changer!LeaveBody(c) \/ Changer!CreateFails(c)
         \/ \E flags \in SUBSET Flags : Changer!ReplaceFlags(c, flags) \/ Changer!ReplaceFails(c, flags)
         \/ \E add, remove \in SUBSET Flags : Changer!PushFlags(c, add, remove) \/ Changer!PushFails(c, add, remove)
  PROVE  Changer!IInv'
<1> DEFINE n == Len(stack[c])
<1>1. /\ stack[c] \in Seq(SUBSET Flags) /\ n \in Nat /\ owed[c] \in Nat
      /\ Changer!StackIsOwed(c)
      /\ flagFile \in SUBSET Flags /\ flagFaults \in Nat /\ legacy \in BOOLEAN
      /\ unrestored \in BOOLEAN /\ lifted \in BOOLEAN
      /\ owed \in [Changer!Changers -> Nat]
  BY ChangerOwnStack DEF Changer!IInv, Changer!TypeOK
<1>2. \A to, states : /\ pc' = [pc EXCEPT ![c] = to] => pc'[c] = to
                      /\ stack' = [stack EXCEPT ![c] = states] => stack'[c] = states
  BY DEF Changer!IInv, Changer!TypeOK
<1>3. n # 0 => stack[c] # <<>>
  BY <1>1
<1>0. flagFaults + 1 \in Nat
  BY <1>1
<1>4. CASE Changer!LeaveBody(c)
  <2>1. /\ pc[c] = "in" /\ Changer!May(c) /\ pc' = [pc EXCEPT ![c] = "restore"]
        /\ c \in Contexts
        /\ stack' = [stack EXCEPT ![c] = stack[c]]
        /\ UNCHANGED <<flagFile, legacy, enforce, original, needs, owed, order, flagFaults, unrestored, lifted>>
    BY <1>4 DEF Changer!LeaveBody, Changer!Goes, Changer!IInv, Changer!TypeOK
  <2>2. n = 2 /\ c \notin FlagObjects /\ owed[c] = 0
    BY <1>1, <2>1 DEF Changer!StackIsOwed, Changer!ChangersApart
  <2>3. Changer!StackIsOwed(c)'
    BY <1>2, <2>1, <2>2 DEF Changer!StackIsOwed
  <2>4. stack[c] # <<>>
    BY <1>3, <2>2
  <2>5. ~unrestored => stack[c][1] = Changer!Outer(Len(order))
    BY <2>1, <2>4, ChangerOwnFile
  <2> QED BY <1>1, <2>1, <2>3, <2>4, <2>5, ChangerGoesOn
<1>5. CASE Changer!CreateFails(c)
  <2>1. /\ pc[c] = "open" /\ Changer!May(c) /\ pc' = [pc EXCEPT ![c] = "enforce"]
        /\ flagFaults' = flagFaults + 1 /\ legacy' \in BOOLEAN
        /\ stack' = [stack EXCEPT ![c] = stack[c]]
        /\ UNCHANGED <<flagFile, enforce, original, needs, owed, order, unrestored, lifted>>
    BY <1>5 DEF Changer!CreateFails, Changer!CommandFails, Changer!Goes, Changer!IInv, Changer!TypeOK
  <2>2. n = 0 /\ c \notin FlagObjects /\ c \in Contexts /\ owed[c] = 0
    BY <1>1, <2>1 DEF Changer!StackIsOwed, Changer!Changers
  <2>3. Changer!StackIsOwed(c)'
    BY <1>2, <2>1, <2>2 DEF Changer!StackIsOwed
  <2>4. stack[c] = <<>>
    BY <1>1, <2>2
  <2>5. ~unrestored => flagFile = Changer!Outer(Len(order))
    BY <2>1, <2>4, ChangerOwnFile
  <2> QED BY <1>0, <1>1, <2>1, <2>3, <2>4, <2>5, ChangerGoesOn
<1>6. CASE Changer!GetCurrentFlags(c)
  <2> DEFINE states == Append(Changer!Front(stack[c]), flagFile)
  <2>1. /\ pc[c] = "in" /\ Changer!May(c) /\ pc' = [pc EXCEPT ![c] = "in"] /\ c \in FlagObjects
        /\ stack' = [stack EXCEPT ![c] = states]
        /\ UNCHANGED <<flagFile, legacy, enforce, original, needs, owed, order, flagFaults, unrestored, lifted>>
    BY <1>6 DEF Changer!GetCurrentFlags, Changer!IInv, Changer!TypeOK
  <2>2. n = owed[c] + 1 /\ c \notin Contexts
    BY <1>1, <2>1 DEF Changer!StackIsOwed, Changer!ChangersApart
  <2>3. stack[c] # <<>>
    <3>1. n # 0
      BY <1>1, <2>2
    <3> QED BY <1>3, <3>1
  <2>4. /\ Changer!Front(stack[c]) \in Seq(SUBSET Flags) /\ Len(Changer!Front(stack[c])) = n - 1
        /\ \A i \in 1..(n - 1) : Changer!Front(stack[c])[i] = stack[c][i]
        /\ Changer!Last(stack[c]) = stack[c][n]
    BY <1>1, <2>3, ChangerFrontOf
  <2>5. /\ states \in Seq(SUBSET Flags) /\ Len(states) = n - 1 + 1 /\ states # <<>>
        /\ Changer!Last(states) = flagFile
        /\ \A i \in 1..(n - 1) : states[i] = Changer!Front(stack[c])[i]
        /\ states[n - 1 + 1] = flagFile
    BY <1>1, <2>4, ChangerAppendOf
  <2>6. Len(states) = n
    BY <1>1, <2>5
  <2>7. Changer!StackIsOwed(c)'
    BY <1>1, <1>2, <2>1, <2>2, <2>6 DEF Changer!StackIsOwed
  <2>8. ~unrestored => states[1] = Changer!Outer(Len(order))
    <3>1. ~unrestored => flagFile = Changer!Last(stack[c]) /\ stack[c][1] = Changer!Outer(Len(order))
      BY <2>1, <2>3, ChangerOwnFile
    <3>2. CASE n = 1
      BY <2>4, <2>5, <3>1, <3>2
    <3>3. CASE n # 1
      <4>1. 1 \in 1..(n - 1)
        BY <1>1, <2>2, <3>3
      <4> QED BY <2>4, <2>5, <3>1, <4>1
    <3> QED BY <3>2, <3>3
  <2> QED BY <1>1, <2>1, <2>5, <2>7, <2>8, ChangerGoesOn
<1>7. ASSUME NEW flags \in SUBSET Flags, Changer!ReplaceFlags(c, flags) \/ Changer!ReplaceFails(c, flags) PROVE Changer!IInv'
  <2> DEFINE states == Append(stack[c], flags)
  <2>1. /\ pc[c] = "replace" /\ Changer!May(c) /\ stack' = [stack EXCEPT ![c] = states]
        /\ UNCHANGED <<legacy, enforce, original, needs, owed, order, unrestored, lifted>>
    BY <1>7 DEF Changer!ReplaceFlags, Changer!ReplaceFails, Changer!Goes, Changer!Updates
  <2>2. /\ c \notin FlagObjects /\ c \in Contexts /\ owed[c] = 0 /\ n = 1
    BY <1>1, <2>1 DEF Changer!StackIsOwed, Changer!Changers
  <2>3. stack[c] # <<>>
    BY <1>3, <2>2
  <2>4. /\ states \in Seq(SUBSET Flags) /\ Len(states) = n + 1 /\ states # <<>>
        /\ Changer!Last(states) = flags
        /\ \A i \in 1..n : states[i] = stack[c][i]
    <3>1. stack[c] \in Seq(SUBSET Flags)
      BY <1>1
    <3> QED BY <3>1, ChangerAppendOf
  <2>5. Len(states) = 2 /\ states[1] = stack[c][1]
    BY <2>2, <2>4
  <2>6. ~unrestored => states[1] = Changer!Outer(Len(order))
    BY <2>1, <2>3, <2>5, ChangerOwnFile
  <2>7. CASE Changer!ReplaceFlags(c, flags)
    <3>1. pc' = [pc EXCEPT ![c] = "in"] /\ flagFile' = flags /\ flagFaults' = flagFaults
      BY <2>4, <2>7 DEF Changer!ReplaceFlags, Changer!Goes, Changer!Updates
    <3>2. Changer!StackIsOwed(c)'
      BY <1>2, <2>1, <2>2, <2>5, <3>1 DEF Changer!StackIsOwed
    <3> QED BY <1>1, <2>1, <2>4, <2>6, <3>1, <3>2, ChangerGoesOn
  <2>8. CASE Changer!ReplaceFails(c, flags)
    <3>1. /\ pc' = [pc EXCEPT ![c] = "restore"] /\ flagFile' \in {flagFile, {}, flags}
          /\ flagFaults' = flagFaults + 1
      BY <2>8 DEF Changer!ReplaceFails, Changer!CommandFails, Changer!Goes, Changer!MayWrite
    <3>2. Changer!StackIsOwed(c)'
      BY <1>2, <2>1, <2>2, <2>5, <3>1 DEF Changer!StackIsOwed
    <3>3. flagFile' \in SUBSET Flags
      BY <1>1, <3>1
    <3> HIDE DEF states
    <3> QED BY <1>0, <1>1, <2>1, <2>4, <2>6, <3>1, <3>2, <3>3, ChangerGoesOn
  <2> QED BY <1>7, <2>7, <2>8
<1>8. ASSUME NEW add \in SUBSET Flags, NEW remove \in SUBSET Flags,
             Changer!PushFlags(c, add, remove) \/ Changer!PushFails(c, add, remove)
      PROVE  Changer!IInv'
  <2> DEFINE top == Changer!Pushed(c, add, remove)
  <2> DEFINE states == Append(stack[c], top)
  <2>1. /\ pc[c] = "in" /\ Changer!May(c) /\ c \in FlagObjects
        /\ stack' = [stack EXCEPT ![c] = states]
        /\ owed' = [owed EXCEPT ![c] = owed[c] + 1]
        /\ UNCHANGED <<legacy, enforce, original, needs, order, unrestored, lifted>>
    BY <1>8 DEF Changer!PushFlags, Changer!PushFails, Changer!OwesOne, Changer!Updates
  <2>2. n = owed[c] + 1 /\ c \notin Contexts
    BY <1>1, <2>1 DEF Changer!StackIsOwed, Changer!ChangersApart
  <2>3. stack[c] # <<>>
    <3>1. n # 0
      BY <1>1, <2>2
    <3> QED BY <1>3, <3>1
  <2>4. top \in SUBSET Flags
    BY <1>1, <2>3, ChangerFrontOf DEF Changer!Pushed
  <2>5. /\ states \in Seq(SUBSET Flags) /\ Len(states) = n + 1 /\ states # <<>>
        /\ Changer!Last(states) = top
        /\ \A i \in 1..n : states[i] = stack[c][i]
    <3> HIDE DEF top
    <3> QED BY <1>1, <2>4, ChangerAppendOf
  <2>6. states[1] = stack[c][1]
    <3>1. 1 \in 1..n
      BY <1>1, <2>2
    <3> QED BY <2>5, <3>1
  <2>7. owed' \in [Changer!Changers -> Nat] /\ owed'[c] = owed[c] + 1 /\ \A d \in Changer!Changers \ {c} : owed'[d] = owed[d]
    BY <1>1, <2>1
  <2>8. /\ pc' \in {[pc EXCEPT ![c] = "in"], [pc EXCEPT ![c] = "restore"]}
        /\ flagFile' \in {flagFile, {}, top} /\ flagFaults' \in Nat
        /\ pc' = [pc EXCEPT ![c] = "restore"] \/ flagFile' = top
    <3>1. CASE Changer!PushFlags(c, add, remove)
      <4>1. flagFile' = Changer!Last(states) /\ flagFaults' = flagFaults /\ pc' = pc
        BY <3>1 DEF Changer!PushFlags, Changer!Updates
      <4>2. pc = [pc EXCEPT ![c] = "in"]
        BY <2>1 DEF Changer!IInv, Changer!TypeOK
      <4> HIDE DEF states, top
      <4> QED BY <1>1, <2>5, <4>1, <4>2
    <3>2. CASE Changer!PushFails(c, add, remove)
      <4>1. /\ flagFile' \in {flagFile, {}, top} /\ flagFaults' = flagFaults + 1
            /\ pc' = [pc EXCEPT ![c] = "restore"]
        BY <3>2 DEF Changer!PushFails, Changer!CommandFails, Changer!MayWrite
      <4> HIDE DEF states, top
      <4> QED BY <1>0, <4>1
    <3> QED BY <1>8, <3>1, <3>2
  <2>9. Changer!StackIsOwed(c)'
    <3> HIDE DEF states, top
    <3>4. owed[c] \in Nat
      BY <1>1
    <3>1. pc'[c] \in {"in", "restore"} /\ stack'[c] = states /\ owed'[c] > 0
      <4>1. pc'[c] \in {"in", "restore"}
        BY <1>2, <2>8
      <4>2. stack'[c] = states
        BY <1>2, <2>1
      <4>3. owed'[c] > 0
        BY <2>7, <3>4
      <4> QED BY <4>1, <4>2, <4>3
    <3>2. Len(stack'[c]) = owed'[c] + 1
      BY <2>2, <2>5, <2>7, <3>1, <3>4
    <3> QED BY <2>1, <2>2, <3>1, <3>2 DEF Changer!StackIsOwed
  <2>10. ~unrestored => states[1] = Changer!Outer(Len(order))
    BY <2>1, <2>3, <2>6, ChangerOwnFile
  <2>11. flagFile' \in SUBSET Flags
    <3> HIDE DEF top
    <3> QED BY <1>1, <2>4, <2>8
  <2> HIDE DEF states, top
  <2>12. CASE pc' = [pc EXCEPT ![c] = "restore"]
    BY <1>1, <2>1, <2>5, <2>7, <2>8, <2>9, <2>10, <2>11, <2>12, ChangerGoesOn
  <2>13. CASE pc' = [pc EXCEPT ![c] = "in"] /\ flagFile' = top
    BY <1>1, <2>1, <2>5, <2>7, <2>8, <2>9, <2>10, <2>11, <2>13, ChangerGoesOn
  <2> QED BY <2>8, <2>12, <2>13
<1>9. CASE Changer!Restore(c) \/ Changer!RestoreFails(c)
  <2> DEFINE states == Changer!Front(stack[c])
  <2>1. /\ Changer!May(c) /\ stack' = [stack EXCEPT ![c] = states] /\ Changer!Restores(c)
        /\ UNCHANGED <<legacy, enforce, original, needs, order, lifted>>
    BY <1>9 DEF Changer!Restore, Changer!RestoreFails, Changer!PopsState, Changer!Updates,
          Changer!Restores, Changer!Goes
  <2>2. pc[c] # "out" /\ n # 0 /\ n # 1 /\ stack[c] # <<>>
    <3>1. CASE c \in Contexts
      <4>1. pc[c] = "restore" /\ n = 2
        BY <1>1, <2>1, <3>1 DEF Changer!Restores, Changer!Goes, Changer!StackIsOwed
      <4> QED BY <1>3, <4>1
    <3>2. CASE c \notin Contexts
      <4>1. pc[c] \in {"in", "restore"} /\ owed[c] > 0 /\ n = owed[c] + 1
        BY <1>1, <2>1, <3>2 DEF Changer!Restores, Changer!StackIsOwed
      <4>2. n # 0 /\ n # 1
        BY <1>1, <4>1
      <4> QED BY <1>3, <4>1, <4>2
    <3> QED BY <3>1, <3>2
  <2>3. /\ states \in Seq(SUBSET Flags) /\ Len(states) = n - 1
        /\ \A i \in 1..(n - 1) : states[i] = stack[c][i]
    BY <1>1, <2>2, ChangerFrontOf
  <2>4. 1 \in 1..(n - 1) /\ n - 1 # 0
    <3>1. n \in Nat
      BY <1>1
    <3> HIDE DEF n
    <3> QED BY <2>2, <3>1
  <2>5. states[1] = stack[c][1] /\ states # <<>>
    <3>1. Len(states) # 0
      BY <2>3, <2>4
    <3> QED BY <2>3, <2>4, <3>1
  <2>6. Changer!Last(states) \in SUBSET Flags
    <3> HIDE DEF states
    <3> QED BY <2>3, <2>5, ChangerFrontOf
  <2>7. ~unrestored => states[1] = Changer!Outer(Len(order))
    BY <2>1, <2>2, <2>5, ChangerOwnFile
  <2>8. /\ flagFile' \in {flagFile, {}, Changer!Last(states)} /\ flagFaults' \in Nat
        /\ unrestored' = (unrestored \/ flagFile' # Changer!Last(states))
    <3>1. CASE Changer!Restore(c)
      <4>1. flagFile' = Changer!Last(states) /\ flagFaults' = flagFaults /\ unrestored' = unrestored
        BY <3>1 DEF Changer!Restore, Changer!PopsState, Changer!Updates
      <4> HIDE DEF states
      <4>2. unrestored' = (unrestored \/ flagFile' # Changer!Last(states))
        BY <1>1, <4>1, Zenon
      <4> QED BY <1>1, <4>1, <4>2
    <3>2. CASE Changer!RestoreFails(c)
      <4>1. /\ flagFile' \in {flagFile, {}, Changer!Last(states)} /\ flagFaults' = flagFaults + 1
            /\ unrestored' = (unrestored \/ flagFile' # Changer!Last(states))
        BY <3>2 DEF Changer!RestoreFails, Changer!CommandFails, Changer!MayWrite
      <4> HIDE DEF states
      <4> QED BY <1>0, <4>1
    <3> QED BY <1>9, <3>1, <3>2
  <2>9. /\ flagFile' \in SUBSET Flags /\ unrestored' \in BOOLEAN
        /\ unrestored => unrestored'
        /\ ~unrestored' => ~unrestored /\ flagFile' = Changer!Last(states)
    <3> HIDE DEF states
    <3>1. flagFile' \in SUBSET Flags
      BY <1>1, <2>6, <2>8
    <3>2. unrestored' = (unrestored \/ flagFile' # Changer!Last(states))
      BY <2>8
    <3>3. unrestored' \in BOOLEAN
      BY <3>2, Zenon
    <3>4. unrestored => unrestored'
      BY <3>2, Zenon
    <3>5. ~unrestored' => ~unrestored /\ flagFile' = Changer!Last(states)
      BY <3>2, Zenon
    <3> QED BY <3>1, <3>3, <3>4, <3>5
  <2>10. CASE c \in Contexts
    <3>1. /\ pc[c] = "restore" /\ pc' = [pc EXCEPT ![c] = "enforce"] /\ owed' = owed
      BY <2>1, <2>10 DEF Changer!Restores, Changer!Goes
    <3>2. n = 2 /\ owed[c] = 0 /\ c \notin FlagObjects
      BY <1>1, <2>10, <3>1 DEF Changer!StackIsOwed, Changer!ChangersApart
    <3>3. Changer!StackIsOwed(c)'
      <4>1. pc'[c] = "enforce" /\ owed'[c] = 0 /\ stack'[c] = states
        BY <1>2, <2>1, <3>1, <3>2
      <4>2. Len(states) <= 1
        <5> HIDE DEF states
        <5> QED BY <2>3, <3>2
      <4>3. Len(stack'[c]) <= 1
        BY <4>1, <4>2
      <4> QED BY <3>2, <4>1, <4>3 DEF Changer!StackIsOwed
    <3> HIDE DEF states
    <3> QED BY <1>1, <2>1, <2>2, <2>3, <2>5, <2>7, <2>8, <2>9, <3>1, <3>3, ChangerGoesOn
  <2>11. CASE c \notin Contexts
    <3>1. /\ pc[c] \in {"in", "restore"} /\ pc' = [pc EXCEPT ![c] = "in"] /\ owed[c] > 0
          /\ owed' = [owed EXCEPT ![c] = owed[c] - 1]
      BY <2>1, <2>11 DEF Changer!Restores
    <3>2. n = owed[c] + 1 /\ owed[c] - 1 \in Nat
      BY <1>1, <2>11, <3>1 DEF Changer!StackIsOwed
    <3>3. owed' \in [Changer!Changers -> Nat] /\ owed'[c] = owed[c] - 1 /\ \A d \in Changer!Changers \ {c} : owed'[d] = owed[d]
      BY <1>1, <3>1, <3>2
    <3>4. Changer!StackIsOwed(c)'
      <4>1. pc'[c] = "in" /\ stack'[c] = states
        BY <1>2, <2>1, <3>1
      <4>2. Len(stack'[c]) = owed'[c] + 1
        <5> HIDE DEF states
        <5> QED BY <1>1, <2>3, <3>2, <3>3, <4>1
      <4> QED BY <2>11, <4>1, <4>2 DEF Changer!StackIsOwed
    <3> HIDE DEF states
    <3> QED BY <1>1, <2>1, <2>2, <2>3, <2>5, <2>7, <2>8, <2>9, <3>1, <3>3, <3>4, ChangerGoesOn
  <2> QED BY <2>10, <2>11
<1> QED BY <1>4, <1>5, <1>6, <1>7, <1>8, <1>9

LEMMA ChangerNextInv == ASSUME Changer!ChangersApart, Nested, Changer!IInv, [Changer!Next]_(Changer!vars) PROVE Changer!IInv'
<1>1. CASE UNCHANGED Changer!vars
  BY <1>1 DEF Changer!vars, Changer!IInv, Changer!TypeOK, Changer!OrderIsOfUse,
        Changer!StacksAreOwed, Changer!StackIsOwed, Changer!EnforcementIsOwed,
         Changer!FileIsOfLast, Changer!StacksBeginOutside, Changer!Outer
<1>2. ASSUME NEW c \in Changer!Changers, Changer!EnterContext(c) \/ Changer!EnterFails(c) PROVE Changer!IInv'
  BY <1>2, ChangerEnterInv
<1>3. ASSUME NEW c \in Changer!Changers, Changer!Create(c) PROVE Changer!IInv'
  BY <1>3, ChangerCreateInv
<1>4. ASSUME NEW c \in Changer!Changers, Changer!ExitContext(c) \/ Changer!ExitFails(c) \/ Changer!Drop(c) PROVE Changer!IInv'
  BY <1>4, ChangerClosesInv
<1> QED BY <1>1, <1>2, <1>3, <1>4, ChangerStackInv DEF Changer!Next

(* What the user relies on follows.                                        *)
LEMMA ChangerInvSuffices == ASSUME Changer!ChangersApart, Nested, Changer!IInv PROVE Changer!Restored /\ Changer!OriginalIsOuter
<1>1. Changer!Restored
  <2> SUFFICES ASSUME order = <<>>
               PROVE  /\ ~unrestored => flagFile = original.file
                      /\ ~lifted => enforce = original.enforce
    BY DEF Changer!Restored
  <2>1. \A c \in Changer!Changers : pc[c] = "out"
    BY DEF Changer!IInv, Changer!OrderIsOfUse
  <2>2. ~lifted => original.enforce = enforce
    BY <2>1 DEF Changer!IInv, Changer!EnforcementIsOwed, Changer!TypeOK
  <2>3. ~unrestored => original.file = flagFile
    BY DEF Changer!IInv, Changer!FileIsOfLast
  <2> QED BY <2>2, <2>3
<1>2. Changer!OriginalIsOuter
  <2> SUFFICES ASSUME ~unrestored, NEW i \in 1..(Len(order) - 1), stack[order[i + 1]] # <<>>
               PROVE  Head(stack[order[i + 1]]) = Changer!Last(stack[order[i]])
    BY DEF Changer!OriginalIsOuter
  <2>1. order \in Seq(Changer!Changers) /\ i + 1 \in 1..Len(order) /\ i + 1 # 1 /\ i + 1 - 1 = i
    <3>1. order \in Seq(Changer!Changers)
      BY DEF Changer!IInv, Changer!TypeOK
    <3> QED BY <3>1
  <2>2. stack[order[i + 1]] \in Seq(SUBSET Flags)
    <3>1. order[i + 1] \in Changer!Changers
      BY <2>1
    <3> QED BY <3>1, ChangerOwnStack
  <2>3. Head(stack[order[i + 1]]) = stack[order[i + 1]][1]
    BY <2>2
  <2>4. stack[order[i + 1]][1] = Changer!Outer(i + 1)
    BY <2>1 DEF Changer!IInv, Changer!StacksBeginOutside
  <2>5. Changer!Outer(i + 1) = Changer!Last(stack[order[i]])
    BY <2>1 DEF Changer!Outer
  <2> QED BY <2>3, <2>4, <2>5
<1> QED BY <1>1, <1>2

-----------------------------------------------------------------------------
(* The composition: a step is one of the component whose behaviour it is,  *)
(* or leaves the variables of that component alone.                        *)
LEMMA AnyStep ==
  ASSUME [AnyNext]_allVars
  PROVE  /\ component' = component
         /\ component = "config" => [Config!Next]_(Config!vars)
         /\ component = "fastboot" => [Flash!Next]_(Flash!vars)
         /\ component = "forwarder" => [Forward!Next]_(Forward!vars)
         /\ component = "parallel" => [Wrapper!Next]_(Wrapper!vars)
         /\ component = "shell" => [Shell!Next]_(Shell!vars)
         /\ component = "push" => [Push!Next]_(Push!vars)
         /\ component = "boot" => [Boot!Next]_(Boot!vars)
         /\ component = "cache" => [Cache!Next]_(Cache!vars)
         /\ component = "install" => [Package!Next]_(Package!vars)
         /\ component = "prefs" => [Prefs!Next]_(Prefs!vars)
         /\ component = "flags" => [Changer!Next]_(Changer!vars)
<1>1. CASE UNCHANGED allVars
  BY <1>1 DEF allVars, ofHost, ofDevice, ofSettings, ofConfig, ofFlashing, ofForwarder,
        ofWrapper, ofShell, ofPush, ofBoot, ofCache, ofPackage, ofPrefs, ofFlags, Config!vars, Flash!vars, Flash!given, Flash!device,
        Forward!vars, Forward!maps, Forward!daemons, Wrapper!vars, Wrapper!caller, Shell!vars,
        Shell!command, Shell!files, Push!vars, Push!tree, Push!call, Boot!vars, Boot!device,
        Boot!cache, Boot!call, Cache!vars, Cache!device, Cache!local, Package!vars,
        Package!device, Package!cache, Package!call, Prefs!vars, Prefs!copy, Prefs!device,
        Changer!vars
<1>2. CASE AnyNext
  BY <1>1, <1>2 DEF AnyNext, Stops
<1> QED BY <1>1, <1>2

(* If nobody goes on with a config that was rolled back, and no two jobs   *)
(* upload the same file, then, whatever fails and wherever Ctrl+C comes,   *)
(* what the config names is in the bucket (unless the interrupt came after *)
(* the config file was written), what is rolled back leaves the bucket as  *)
(* it was (but for a new file that was uploaded whole and not noted), and  *)
(* the config file changes only by updates that are complete.              *)
THEOREM WholeUpdates == ASSUME Config!Careful PROVE AnySpec => UpdatesAreWhole
<1> DEFINE Inv == component = "config" => Config!IInv
<1>1. AnyInit => Inv
  BY MCHostAssumption, ConfigInitInv DEF AnyInit
<1>2. Inv /\ [AnyNext]_allVars => Inv' /\ (component = "config" => Config!UpdatedTogether)
  BY MCHostAssumption, ConfigNextInv, AnyStep
<1>3. Inv => (component = "config" => Config!IInv /\ Config!ConfigIsDownloadable /\ Config!FailureRestores)
  BY DEF Config!IInv
<1> QED BY <1>1, <1>2, <1>3, PTL DEF AnySpec, UpdatesAreWhole

(* Whichever commands fail, and whenever: a device that is reported as     *)
(* flashed has every image, and none has one of a build that is not valid. *)
THEOREM WholeFlash == AnySpec => []FlashedIsWhole
<1> DEFINE Inv == component = "fastboot" => Flash!IInv
<1>1. AnyInit => Inv
  BY FlashInitInv DEF AnyInit
<1>2. Inv /\ [AnyNext]_allVars => Inv'
  BY MCHostAssumption, FlashNextInv, AnyStep
<1>3. Inv => FlashedIsWhole
  BY FlashInvImplies DEF FlashedIsWhole
<1> QED BY <1>1, <1>2, <1>3, PTL DEF AnySpec

(* Whatever fails and whoever dies: as long as no host port is asked for   *)
(* with two ports of devices, a process knows of its forwards, but for     *)
(* those whose own call failed.                                            *)
THEOREM KnownForwards == ASSUME Forward!OwnHostPorts PROVE AnySpec => LiveIsKnown
<1> DEFINE Inv == component = "forwarder" => Forward!IInv
           Asked == component = "forwarder" => Forward!LostIsAskedFor
           Known == component = "forwarder" => Forward!IInv /\ Forward!LiveIsKnown
<1>1. AnyInit => Inv
  BY MCHostAssumption, ForwardInitInv DEF AnyInit
<1>2. Inv /\ [AnyNext]_allVars => Inv' /\ Asked
  BY MCHostAssumption, ForwardNextInv, ForwardLostIsAsked, AnyStep
<1>3. Inv => Known
  BY DEF Forward!IInv
<1> QED BY <1>1, <1>2, <1>3, PTL DEF AnySpec, LiveIsKnown

(* Parallel calls are answered when all threads have ended, and started in *)
(* order, for any number of devices and calls.                             *)
THEOREM OrderedCalls == AnySpec => []CallsAreInOrder
<1> DEFINE Inv == component = "parallel" => Wrapper!IInv
<1>1. AnyInit => Inv
  BY MCHostAssumption, WrapperInitInv DEF AnyInit
<1>2. Inv /\ [AnyNext]_allVars => Inv'
  BY MCHostAssumption, WrapperNextInv, AnyStep
<1>3. Inv => CallsAreInOrder
  BY DEF CallsAreInOrder, Wrapper!IInv
<1> QED BY <1>1, <1>2, <1>3, PTL DEF AnySpec

(* With the blocking wrapper at most one call runs at any time, on any     *)
(* wrapper.                                                                *)
THEOREM BlockingRunsOne ==
  ASSUME Sync PROVE AnySpec => [](component = "parallel" => Wrapper!OneAtATime)
<1> DEFINE Inv == component = "parallel" => Wrapper!IInv
<1>1. AnyInit => Inv
  BY MCHostAssumption, WrapperInitInv DEF AnyInit
<1>2. Inv /\ [AnyNext]_allVars => Inv'
  BY MCHostAssumption, WrapperNextInv, AnyStep
<1>3. Inv => (component = "parallel" => Wrapper!OneAtATime)
  BY WrapperBlockingRunsOne
<1> QED BY <1>1, <1>2, <1>3, PTL DEF AnySpec

(* However many tries and whatever adb loses or truncates: what is         *)
(* returned is whole, the command runs a bounded number of times, and no   *)
(* temporary file is forgotten but for those whose deletion has failed.    *)
THEOREM WholeCommands == AnySpec => []CommandsAreWhole
<1> DEFINE Inv == component = "shell" => Shell!IInv
<1>1. AnyInit => Inv
  BY MCHostAssumption, ShellInitInv DEF AnyInit
<1>2. Inv /\ [AnyNext]_allVars => Inv'
  BY MCHostAssumption, ShellNextInv, AnyStep
<1>3. Inv => CommandsAreWhole
  BY DEF CommandsAreWhole, Shell!IInv
<1> QED BY <1>1, <1>2, <1>3, PTL DEF AnySpec

(* Whatever changes on the host meanwhile and whichever push fails: as     *)
(* long as no two directories of the device overlap, what a call skips is  *)
(* on the device, unless a zip that failed has left it out.                *)
THEOREM ThereAfterPush == ASSUME Push!Disjoint PROVE AnySpec => []PushedIsThere
<1> DEFINE Inv == component = "push" => Push!IInv
<1>1. AnyInit => Inv
  BY MCHostAssumption, PushInitInv DEF AnyInit
<1>2. Inv /\ [AnyNext]_allVars => Inv'
  BY MCHostAssumption, PushNextInv, AnyStep
<1>3. Inv => PushedIsThere
  BY MCHostAssumption, PushInvImplies DEF PushedIsThere
<1> QED BY <1>1, <1>2, <1>3, PTL DEF AnySpec

(* If adb reports what it did and one script at a time uses the device,    *)
(* then what the caches say is true, but for what a failed command has     *)
(* left in doubt, and calls have done what they say when they return.      *)
THEOREM TrueCaches ==
  ASSUME Boot!AdbIsTrue, Cache!OneSession PROVE AnySpec => CachesAreTrue
<1> DEFINE Inv == /\ component = "boot" => Boot!IInv
                  /\ component = "cache" => Cache!IInv
                  /\ component = "install" => Package!IInv
           Promised == /\ component = "boot" => Boot!RebootedIsNew /\ Boot!BootedIsReady
                       /\ component = "cache" => Cache!LoadedIsTrue
                       /\ component = "install" => Package!InstalledIsAsked
           True == /\ component = "boot" => Boot!IInv /\ Boot!SuIsTrue
                   /\ component = "cache" => Cache!IInv /\ Cache!CachedPropIsTrue /\ Cache!KnownIsTrue
                   /\ component = "install" => Package!IInv /\ Package!SumsAreInstalled
<1>1. AnyInit => Inv
  BY MCHostAssumption, BootInitInv, CacheInitInv, PackageInitInv DEF AnyInit
<1>2. Inv /\ [AnyNext]_allVars => Inv' /\ Promised
  BY MCHostAssumption, BootNextInv, CacheNextInv, PackageNextInv, AnyStep
<1>3. Inv => True
  BY PackageInvImplies DEF Boot!IInv, Cache!IInv
<1> QED BY <1>1, <1>2, <1>3, PTL DEF AnySpec, CachesAreTrue

(* If the changers of flags are used one within the other: whatever the    *)
(* application saves and whichever commit fails, a commit is what the      *)
(* application runs with; the flags and the enforcement of the device are  *)
(* put back, unless the command that puts them back has failed.            *)
THEOREM KeptSettings == ASSUME Nested PROVE AnySpec => []SettingsAreKept
<1> DEFINE Inv == /\ component = "prefs" => Prefs!IInv
                  /\ component = "flags" => Changer!IInv
<1>1. AnyInit => Inv
  BY MCHostAssumption, PrefsInitInv, ChangerInitInv DEF AnyInit
<1>2. Inv /\ [AnyNext]_allVars => Inv'
  BY MCHostAssumption, PrefsNextInv, ChangerNextInv, AnyStep
<1>3. Inv => SettingsAreKept
  BY MCHostAssumption, ChangerInvSuffices DEF SettingsAreKept, Prefs!IInv
<1> QED BY <1>1, <1>2, <1>3, PTL DEF AnySpec
=============================================================================
