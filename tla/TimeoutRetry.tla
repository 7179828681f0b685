---------------------------- MODULE TimeoutRetry ----------------------------
(***************************************************************************)
(* timeout_retry.Run: a function is run in a thread of its own, watched by *)
(* a watchdog, and run again in a new thread if it fails or is late.  A    *)
(* late thread cannot be stopped: it goes on beside its successor.         *)
(*                                                                         *)
(* The function runs Children in parallel (RunAsync); each waits for a     *)
(* condition (WaitFor).  Time is counted in polls of thread.join.          *)
(***************************************************************************)
EXTENDS Naturals

CONSTANTS
  Children,   \* threads that the function starts
  Retries,    \* retries after the first try
  Timeout,    \* of each try
  JoinLimit,  \* the 60 seconds of JoinAll
  Period,     \* wait_period of WaitFor
  MaxTime     \* bound: the clock stops here

Tries == 1..(Retries + 1)

VARIABLES
  now,
  caller,   \* where the thread that called Run is
  try,      \* num_try
  result,   \* what Run returned or raised
  joined,   \* when the current thread.join began
  endTime,  \* when the current JoinAll gives up
  started,  \* the watchdog of each try
  left,     \* why the caller left each try
  func,     \* the thread of each try
  blocked,  \* blocked_parent_thread_group of the group of the children
  child,    \* the children of each try
  wake      \* when their sleep ends

timing == <<joined, endTime, started>>
threads == <<func, blocked, child, wake>>
vars == <<now, caller, try, result, left, timing, threads>>

Ended == {"returned", "raised", "late"}

Init ==
  /\ now = 0
  /\ caller = "check" /\ try = 1 /\ result = "none"
  /\ joined = 0 /\ endTime = JoinLimit
  /\ started = [a \in Tries |-> 0]
  /\ left = [a \in Tries |-> "no"]
  /\ func = [a \in Tries |-> IF a = 1 THEN "starts" ELSE "none"]
  /\ blocked = [a \in Tries |-> FALSE]
  /\ child = [a \in Tries |-> [c \in Children |-> "none"]]
  /\ wake = [a \in Tries |-> [c \in Children |-> 0]]

-----------------------------------------------------------------------------
(* The caller.                                                             *)

GetRemaining(a) == started[a] + Timeout - now

IsTimedOut(a) == started[a] + Timeout < now

(* Mutant: only a timeout is worth another try.                            *)
LeaveAtOnce(why) ==
  /\ left' = [left EXCEPT ![try] = why]
  /\ result' = IF why = "error" THEN "error" ELSE "timeout"
  /\ caller' = "done"
  /\ UNCHANGED <<try, timing, threads>>

Leave(why) ==
  /\ left' = [left EXCEPT ![try] = why]
  /\ IF try > Retries
       THEN /\ result' = IF why = "error" THEN "error" ELSE "timeout"
            /\ caller' = "done"
            /\ UNCHANGED <<try, timing, threads>>
       ELSE /\ try' = try + 1
            /\ func' = [func EXCEPT ![try + 1] = "starts"]
            /\ started' = [started EXCEPT ![try + 1] = now]
            /\ endTime' = now + JoinLimit
            /\ caller' = "check"
            /\ UNCHANGED <<result, joined, blocked, child, wake>>

Stay == UNCHANGED <<try, result, left, threads>>

(* The loop of _JoinAll: the watchdog first, then 100 ms of join.          *)
CheckWatchdog ==
  /\ caller = "check"
  /\ IF IsTimedOut(try)
       THEN Leave("watchdog")
       ELSE /\ caller' = "join" /\ joined' = now
            /\ UNCHANGED <<endTime, started>> /\ Stay
  /\ UNCHANGED now

JoinEnds ==
  /\ caller = "join"
  /\ \/ func[try] \in Ended
     \/ joined < now
  /\ caller' = IF func[try] \in Ended \/ endTime <= now
                 THEN "joined" ELSE "check"
  /\ UNCHANGED <<now, timing>> /\ Stay

StillWorking ==
  /\ caller' = "check" /\ endTime' = now + JoinLimit
  /\ UNCHANGED <<joined, started>> /\ Stay

GetReturnValue(outcome) ==
  CASE outcome = "returned" ->
         /\ left' = [left EXCEPT ![try] = "value"]
         /\ result' = "value" /\ caller' = "done"
         /\ UNCHANGED <<try, timing, threads>>
    [] outcome = "late" -> Leave("timeout")
    [] OTHER -> Leave("error")

(* The thread has ended, or only this round of JoinAll has.                *)
AfterJoin ==
  /\ caller = "joined"
  /\ IF func[try] \in Ended
       THEN GetReturnValue(func[try])
       ELSE StillWorking
  /\ UNCHANGED now

-----------------------------------------------------------------------------
(* The thread of a try, and its children.                                  *)

Works == UNCHANGED <<now, caller, try, result, left, timing>>

(* Mutant: the group is not marked as blocking the group of the try.       *)
StartAllUnmarked(a) ==
  /\ func[a] = "starts"
  /\ func' = [func EXCEPT ![a] = "waits"]
  /\ child' = [child EXCEPT ![a] = [c \in Children |-> "condition"]]
  /\ Works /\ UNCHANGED <<blocked, wake>>

StartAll(a) ==
  /\ func[a] = "starts"
  /\ func' = [func EXCEPT ![a] = "waits"]
  /\ blocked' = [blocked EXCEPT ![a] = TRUE]
  /\ child' = [child EXCEPT ![a] = [c \in Children |-> "condition"]]
  /\ Works /\ UNCHANGED wake

AllEnded(a) == \A c \in Children : child[a][c] \in Ended

(* The first exception in the order of the list is raised again.           *)
JoinChildren(a) ==
  /\ func[a] = "waits"
  /\ AllEnded(a)
  /\ func' = [func EXCEPT ![a] =
       IF \A c \in Children : child[a][c] = "returned" THEN "returned"
       ELSE child[a][CHOOSE c \in Children : child[a][c] \in {"raised", "late"}]]
  /\ blocked' = [blocked EXCEPT ![a] = FALSE]
  /\ Works /\ UNCHANGED <<child, wake>>

Becomes(a, c, state) ==
  /\ child' = [child EXCEPT ![a][c] = state]
  /\ Works /\ UNCHANGED <<func, blocked>>

ConditionEnds(a, c) ==
  /\ child[a][c] = "condition"
  /\ \E state \in {"returned", "raised"} : Becomes(a, c, state)
  /\ UNCHANGED wake

(* WaitFor asks the group it is blocked in, if any, for the time it has.   *)
ConditionNotMet(a, c) ==
  /\ child[a][c] = "condition"
  /\ IF blocked[a] /\ GetRemaining(a) < Period
       THEN Becomes(a, c, "late") /\ UNCHANGED wake
       ELSE /\ Becomes(a, c, "sleeps")
            /\ wake' = [wake EXCEPT ![a][c] = now + Period]

SleepEnds(a, c) ==
  /\ child[a][c] = "sleeps"
  /\ wake[a][c] <= now
  /\ Becomes(a, c, "condition")
  /\ UNCHANGED wake

-----------------------------------------------------------------------------
(* The caller takes its steps in time; the threads may be slow.            *)
Tick ==
  /\ now < MaxTime
  /\ \/ caller = "join" /\ joined = now /\ func[try] \notin Ended
     \/ caller = "done"
  /\ now' = now + 1
  /\ UNCHANGED <<caller, try, result, left, timing, threads>>

Caller == CheckWatchdog \/ JoinEnds \/ AfterJoin

Threads ==
  \E a \in Tries :
    \/ StartAll(a) \/ JoinChildren(a)
    \/ \E c \in Children :
         ConditionEnds(a, c) \/ ConditionNotMet(a, c) \/ SleepEnds(a, c)

Next == Caller \/ Threads \/ Tick

Spec == Init /\ [][Next]_vars

(* The caller and the clock go on whatever the function does.              *)
FairSpec == Spec /\ WF_vars(Caller) /\ WF_vars(Tick)

-----------------------------------------------------------------------------
ThreadStates == {"none", "starts", "waits"} \cup Ended
ChildStates == {"none", "condition", "sleeps"} \cup Ended

TypeOK ==
  /\ now \in 0..MaxTime
  /\ caller \in {"check", "join", "joined", "done"}
  /\ try \in Tries
  /\ result \in {"none", "value", "error", "timeout"}
  /\ joined \in Nat /\ endTime \in Nat
  /\ started \in [Tries -> Nat]
  /\ left \in [Tries -> {"no", "watchdog", "timeout", "error", "value"}]
  /\ func \in [Tries -> ThreadStates]
  /\ blocked \in [Tries -> BOOLEAN]
  /\ child \in [Tries -> [Children -> ChildStates]]
  /\ wake \in [Tries -> [Children -> Nat]]

(* Two tries run beside one another only if the watchdog ended the first:  *)
(* an exception is raised again only when every thread of the try is over. *)
OnlyLateTriesOverlap ==
  \A a \in Tries : left[a] \notin {"no", "watchdog"} =>
    /\ func[a] \in Ended
    /\ \A c \in Children : child[a][c] \in Ended

(* WaitFor never sleeps past the end of its try, not even in the thread of *)
(* a try that the caller has given up.                                     *)
SleepersEndInTime ==
  \A a \in Tries : \A c \in Children :
    child[a][c] = "sleeps" => wake[a][c] <= started[a] + Timeout

(* Every try, and so the whole call, costs the caller at most one poll     *)
(* more than its timeout.                                                  *)
DeadlineKept == caller # "done" => now <= try * (Timeout + 1)

(* A value is returned only if every thread of the last try returned one.  *)
ValueIsWhole ==
  result = "value" => \A c \in Children : child[try][c] = "returned"

(* What the proofs and the runs assume of the constants.                   *)
TimesAreNatural ==
  Retries \in Nat /\ Timeout \in Nat /\ JoinLimit \in Nat /\ Period \in Nat /\ MaxTime \in Nat

ASSUME TimeoutRetryAssumption == TimesAreNatural

(* No try that lasts began later, or joins longer, than its share of time. *)
InTime ==
  caller # "done" =>
    /\ started[try] + Timeout + 1 <= try * (Timeout + 1)
    /\ now <= started[try] + Timeout + 1
    /\ caller = "join" => joined <= now /\ now <= joined + 1 /\ joined <= started[try] + Timeout

LaterTriesAreNew == \A a \in Tries : a > try => func[a] = "none" /\ left[a] = "no"

ChildrenAreBlocked ==
  \A a \in Tries, c \in Children :
    child[a][c] \in {"condition", "sleeps"} => func[a] = "waits" /\ blocked[a]

GroupsEndTogether ==
  \A a \in Tries : \A c \in Children :
    /\ func[a] \in Ended => child[a][c] \in Ended
    /\ func[a] = "returned" => child[a][c] = "returned"

LeftAreEnded == \A a \in Tries : left[a] \notin {"no", "watchdog"} => func[a] \in Ended

ResultIsOfTry ==
  /\ caller = "done" <=> result # "none"
  /\ result = "value" => func[try] = "returned"

(* The inductive invariant: a try ends in time, its children are blocked   *)
(* in its group, and groups, tries and the result end in this order.       *)
IInv ==
  /\ TypeOK /\ InTime /\ LaterTriesAreNew
  /\ ChildrenAreBlocked /\ SleepersEndInTime /\ GroupsEndTogether
  /\ LeftAreEnded /\ ResultIsOfTry

TriesAreKept == OnlyLateTriesOverlap /\ SleepersEndInTime /\ DeadlineKept /\ ValueIsWhole

Returned == caller = "done"

(* A bounded number of tries and one result.                               *)
Call == INSTANCE BoundedCall

ImplementsBoundedCall == Call!Spec

=============================================================================
