---------------------------- MODULE Parallelizer ----------------------------
(***************************************************************************)
(* A wrapper around a list of devices that runs whatever is called on it   *)
(* on all of them at once, a thread for each. A call returns a wrapper of  *)
(* its own, which stands for the values to come: whoever uses it waits for *)
(* the threads. The value of a device is the list of the calls it has been *)
(* through.                                                                *)
(***************************************************************************)
EXTENDS Naturals, Sequences, FiniteSets

CONSTANTS
  N,            \* the devices are 1..N
  MaxCalls,     \* a bound on the wrappers made
  Sync,         \* TRUE: SyncParallelizer
  Raises,       \* what is called may raise
  Maps          \* the wrappers on which pMap is used may be unfinished

Devices == 1 .. N
Wrappers == 0 .. MaxCalls

VARIABLES
  made,                 \* the wrappers made so far; 0 is that of the devices
  objs,                 \* whether a wrapper holds a group of threads or a list
  parent, thread,       \* on which wrapper it was called; its threads
  pc, on, then, limit,  \* the caller: the wrapper it waits for, what for and how long
  alive,                \* alive_threads
  answer                \* what the last call of the caller came to

caller == <<pc, on, then, limit, alive, answer>>
vars == <<made, objs, parent, thread, caller>>

Init ==
  /\ made = 0
  /\ objs = [w \in Wrappers |-> "list"] /\ parent = [w \in Wrappers |-> 0]
  /\ thread = [w \in Wrappers |-> [d \in Devices |-> IF w = 0 THEN "value" ELSE "none"]]
  /\ pc = "idle" /\ on = 0 /\ then = "none" /\ limit = "none" /\ alive = {}
  /\ answer = [kind |-> "none", of |-> 0, device |-> 0]

Ended(w) == {d \in Devices : thread[w][d] \in {"value", "raised"}}
Raised(w) == {d \in Devices : thread[w][d] = "raised"}
Answer(kind, w, d) == answer' = [kind |-> kind, of |-> w, device |-> d]

-----------------------------------------------------------------------------
(* ReraiserThread.run                                                      *)
RunReturns(w, d) ==
  /\ thread[w][d] = "running"
  /\ thread' = [thread EXCEPT ![w][d] = "value"]
  /\ UNCHANGED <<made, objs, parent, caller>>

RunRaises(w, d) ==
  /\ Raises /\ thread[w][d] = "running"
  /\ thread' = [thread EXCEPT ![w][d] = "raised"]
  /\ UNCHANGED <<made, objs, parent, caller>>

StartAll(w) ==
  LET new == made + 1
  IN  /\ made' = new
      /\ objs' = [objs EXCEPT ![new] = "group"] /\ parent' = [parent EXCEPT ![new] = w]
      /\ thread' = [thread EXCEPT ![new] = [d \in Devices |-> "running"]]

Waits(w, for, how) ==
  /\ pc' = "waiting" /\ on' = w /\ then' = for /\ limit' = how
  /\ alive' = IF objs[w] = "group" THEN Devices ELSE {}

(* The call starts on the devices once the values it is called on are      *)
(* there.                                                                  *)
Call(w) ==
  /\ pc = "idle" /\ w <= made /\ made < MaxCalls
  /\ Waits(w, "call", "none") /\ Answer("none", w, 0)
  /\ UNCHANGED <<made, objs, parent, thread>>

pGet(w, how) ==
  /\ pc = "idle" /\ w <= made
  /\ Waits(w, "get", how) /\ Answer("none", w, 0)
  /\ UNCHANGED <<made, objs, parent, thread>>

(* pMap does not wait: a group of threads is no list to go through.        *)
pMap(w) ==
  /\ pc = "idle" /\ w <= made /\ made < MaxCalls
  /\ objs[w] = "list" \/ Maps
  /\ IF objs[w] = "group"
     THEN /\ Answer("no_list", w, 0)
          /\ UNCHANGED <<made, objs, parent, thread, pc, on, then, limit, alive>>
     ELSE /\ StartAll(w)
          /\ Answer("none", w, 0)
          /\ IF Sync
             THEN /\ pc' = "waiting" /\ on' = made' /\ then' = "finish" /\ limit' = "none"
                  /\ alive' = Devices
             ELSE UNCHANGED <<pc, on, then, limit, alive>>

(* JoinAll is given no watchdog: it waits whatever the limit.              *)
Join(d) ==
  /\ pc = "waiting" /\ d \in alive /\ d \in Ended(on)
  /\ alive' = alive \ {d}
  /\ UNCHANGED <<made, objs, parent, thread, pc, on, then, limit, answer>>

Reraises == alive = {} /\ Raised(on) # {}

First(ds) == CHOOSE d \in ds : \A e \in ds : d <= e

ReraiseIfException ==
  /\ pc = "waiting" /\ Reraises
  /\ pc' = "idle" /\ alive' = {} /\ Answer("raised", on, First(Raised(on)))
  /\ UNCHANGED <<made, objs, parent, thread, on, then, limit>>

(* Mutant: the call does not wait for the threads.                         *)
NotJoined == pc = "waiting"

AllReturned == pc = "waiting" /\ alive = {} /\ Raised(on) = {}

Finished ==
  /\ AllReturned /\ then \in {"get", "finish"}
  /\ objs' = [objs EXCEPT ![on] = "list"]
  /\ pc' = "idle" /\ Answer("values", on, 0)
  /\ UNCHANGED <<made, parent, thread, on, then, limit, alive>>

StartCall ==
  /\ AllReturned /\ then = "call"
  /\ StartAll(on)
  /\ Answer("none", on, 0)
  /\ IF Sync
     THEN /\ pc' = "waiting" /\ on' = made' /\ then' = "finish" /\ limit' = "none"
          /\ alive' = Devices
     ELSE pc' = "idle" /\ UNCHANGED <<on, then, limit, alive>>

Caller ==
  \/ \E w \in Wrappers : Call(w) \/ pMap(w) \/ \E how \in {"none", "seconds"} : pGet(w, how)
  \/ \E d \in Devices : Join(d)
  \/ ReraiseIfException \/ Finished \/ StartCall

Threads == \E w \in Wrappers, d \in Devices : RunReturns(w, d) \/ RunRaises(w, d)

Next == Caller \/ Threads

Spec == Init /\ [][Next]_vars

(* The caller goes on with what it waits for; what is called may hang.     *)
Proceeds == (\E d \in Devices : Join(d)) \/ ReraiseIfException \/ Finished \/ StartCall
CallerSpec == Spec /\ WF_vars(Proceeds)

(* What is called ends.                                                    *)
FairSpec == CallerSpec /\ WF_vars(Threads)

-----------------------------------------------------------------------------
Made == {w \in Wrappers : w <= made}

CountsAreNatural == N \in Nat /\ MaxCalls \in Nat

TypeOK ==
  /\ made \in Wrappers
  /\ objs \in [Wrappers -> {"list", "group"}] /\ parent \in [Wrappers -> Wrappers]
  /\ thread \in [Wrappers -> [Devices -> {"none", "running", "value", "raised"}]]
  /\ pc \in {"idle", "waiting"} /\ on \in Made
  /\ then \in {"none", "call", "get", "finish"} /\ limit \in {"none", "seconds"}
  /\ alive \subseteq Devices
  /\ answer \in [kind : {"none", "no_list", "raised", "values"}, of : Made,
                 device : Devices \cup {0}]

(* Whoever asks for the values of a call gets an answer when all threads   *)
(* have ended, whether one raised or not, and the exception is that of the *)
(* first device that has one.                                              *)
AllMayComplete ==
  answer.kind \in {"raised", "values"} =>
    /\ Ended(answer.of) = Devices
    /\ answer.kind = "values" <=> Raised(answer.of) = {}
    /\ answer.kind = "raised" => /\ answer.device \in Raised(answer.of)
                                 /\ \A d \in Raised(answer.of) : answer.device <= d

(* What is called on the values of a call is started on no device before   *)
(* the call has returned on all of them.                                   *)
StartsAfterParent == \A w \in Made : \A d \in Devices : thread[parent[w]][d] = "value"

CallsAreInOrder == AllMayComplete /\ StartsAfterParent

(* With the blocking wrapper no two calls run at once, on any wrapper.     *)
OneAtATime ==
  Cardinality({w \in Made : Ended(w) # Devices}) <= 1

(* A list holds the values of a finished call; who is not waited for any   *)
(* more has ended; and of a blocking wrapper only the call waited for runs.*)
ListsAreValues ==
  \A w \in Made : objs[w] = "list" => \A d \in Devices : thread[w][d] = "value"

WaitsForAlive ==
  pc = "waiting" => /\ Devices \ alive \subseteq Ended(on)
                    /\ then = "call" => made < MaxCalls

ParentsAreMade == \A w \in Made : parent[w] \in Made

BlockedByRunning ==
  Sync => \A w \in Made :
    Ended(w) # Devices => pc = "waiting" /\ on = w /\ then = "finish"

IInv ==
  /\ TypeOK /\ ListsAreValues /\ WaitsForAlive /\ ParentsAreMade
  /\ CallsAreInOrder /\ BlockedByRunning

Waiting == pc = "waiting"
Returned == pc = "idle"
=============================================================================
