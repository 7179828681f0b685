----------------------------- MODULE PseudoLock -----------------------------
(***************************************************************************)
(* cloud_storage._FileLock: processes exclude one another with a lock on a *)
(* pseudo lock file that is created for the purpose and removed afterwards.*)
(* A name may stand for different files over time, so opening and locking, *)
(* and unlocking and removing, are each done under one global lock.        *)
(***************************************************************************)
EXTENDS TLAPS

CONSTANTS
  Clients,
  Inodes,   \* the name of the pseudo lock stands for one, or none
  Nil

ASSUME PseudoLockAssumption == Nil \notin Clients /\ Nil \notin Inodes

VARIABLES
  pc,
  guard,   \* who holds the global lock
  name,    \* the file that the name stands for
  fd,      \* the open file of each process
  owner    \* who holds the lock of each file

vars == <<pc, guard, name, fd, owner>>

Init ==
  /\ pc = [p \in Clients |-> "idle"]
  /\ guard = Nil /\ name = Nil
  /\ fd = [p \in Clients |-> Nil]
  /\ owner = [f \in Inodes |-> Nil]

Goes(p, from, to) == pc[p] = from /\ pc' = [pc EXCEPT ![p] = to]

-----------------------------------------------------------------------------
(* _AttemptPseudoLockAcquisition, one attempt after another.  Neither lock *)
(* is waited for: an attempt that finds one taken is made again later.     *)
Wants(p) ==
  /\ Goes(p, "idle", "tries")
  /\ UNCHANGED <<guard, name, fd, owner>>

(* Mutant: the global lock is not asked for.                               *)
NoGuard(p) == UNCHANGED guard

TakeGuard(p) == guard = Nil /\ guard' = p

BeginAttempt(p) ==
  /\ Goes(p, "tries", "guarded")
  /\ TakeGuard(p)
  /\ UNCHANGED <<name, fd, owner>>

Open(p) ==
  /\ Goes(p, "guarded", "opened")
  /\ \E f \in Inodes :
       /\ IF name # Nil THEN f = name ELSE \A q \in Clients : fd[q] # f
       /\ name' = f
       /\ fd' = [fd EXCEPT ![p] = f]
  /\ UNCHANGED <<guard, owner>>

Lock(p) ==
  /\ Goes(p, "opened", "in")
  /\ owner[fd[p]] = Nil
  /\ owner' = [owner EXCEPT ![fd[p]] = p]
  /\ guard' = Nil
  /\ UNCHANGED <<name, fd>>

IsBusy(p) == owner[fd[p]] # Nil

LockIsBusy(p) ==
  /\ Goes(p, "opened", "tries")
  /\ IsBusy(p)
  /\ fd' = [fd EXCEPT ![p] = Nil]
  /\ guard' = Nil
  /\ UNCHANGED <<name, owner>>

(* _AttemptPseudoLockRelease.                                              *)
Leaves(p) ==
  /\ Goes(p, "in", "leaves")
  /\ UNCHANGED <<guard, name, fd, owner>>

BeginRelease(p) ==
  /\ Goes(p, "leaves", "unlocks")
  /\ TakeGuard(p)
  /\ UNCHANGED <<name, fd, owner>>

Unlock(p) ==
  /\ Goes(p, "unlocks", "removes")
  /\ owner' = [owner EXCEPT ![fd[p]] = Nil]
  /\ fd' = [fd EXCEPT ![p] = Nil]
  /\ UNCHANGED <<guard, name>>

Remove(p) ==
  /\ Goes(p, "removes", "idle")
  /\ name' = Nil /\ guard' = Nil
  /\ UNCHANGED <<fd, owner>>

(* The system closes the files of p, which releases its locks: at its      *)
(* death, or when WaitFor has given up and nobody refers to the file.      *)
CloseAll(p) ==
  /\ fd' = [fd EXCEPT ![p] = Nil]
  /\ owner' = [f \in Inodes |-> IF owner[f] = p THEN Nil ELSE owner[f]]
  /\ UNCHANGED name

GivesUp(p) ==
  /\ Goes(p, "tries", "idle") \/ Goes(p, "leaves", "idle")
  /\ CloseAll(p) /\ UNCHANGED guard

Dies(p) ==
  /\ pc[p] # "idle"
  /\ pc' = [pc EXCEPT ![p] = "idle"]
  /\ CloseAll(p)
  /\ guard' = IF guard = p THEN Nil ELSE guard

-----------------------------------------------------------------------------
Proceeds(p) ==
  Open(p) \/ Lock(p) \/ LockIsBusy(p) \/ Leaves(p) \/ Unlock(p) \/ Remove(p)

Polls(p) == BeginAttempt(p) \/ BeginRelease(p)

Next ==
  \E p \in Clients :
    Wants(p) \/ Polls(p) \/ Proceeds(p) \/ GivesUp(p) \/ Dies(p)

Spec == Init /\ [][Next]_vars

(* A process goes on, and polls often enough to meet the global lock free. *)
FairSpec ==
  Spec /\ \A p \in Clients : WF_vars(Proceeds(p)) /\ SF_vars(Polls(p))

-----------------------------------------------------------------------------
States == {"idle", "tries", "guarded", "opened", "in", "leaves", "unlocks", "removes"}

TypeOK ==
  /\ pc \in [Clients -> States]
  /\ guard \in Clients \cup {Nil}
  /\ name \in Inodes \cup {Nil}
  /\ fd \in [Clients -> Inodes \cup {Nil}]
  /\ owner \in [Inodes -> Clients \cup {Nil}]

(* From the acquisition to the release.                                    *)
Holds(p) == pc[p] \in {"in", "leaves", "unlocks"}

(* "All processes are referring to the same lock": no two hold it.         *)
Exclusive == \A p, q \in Clients : Holds(p) /\ Holds(q) => p = q

(* Whoever is at work under the global lock holds it.                      *)
Guarded ==
  \A p \in Clients :
    pc[p] \in {"guarded", "opened", "unlocks", "removes"} => guard = p

(* A holder has locked the file that the name stands for; the file that is *)
(* about to be locked is that one too; it is removed when nobody holds it. *)
SameFile ==
  \A p \in Clients :
    /\ Holds(p) => name # Nil /\ fd[p] = name /\ owner[name] = p
    /\ pc[p] = "opened" => name # Nil /\ fd[p] = name
    /\ pc[p] = "removes" => \A q \in Clients : ~Holds(q)

(* The lock of a file belongs to a holder that has the file open.          *)
OwnersHaveOpened ==
  \A f \in Inodes : owner[f] # Nil => Holds(owner[f]) /\ fd[owner[f]] = f

Consistent == TypeOK /\ Guarded /\ SameFile /\ OwnersHaveOpened

(* Nobody who waits for the lock stops the process that must release it.   *)
HolderGetsOut == \A p \in Clients : pc[p] = "leaves" ~> pc[p] = "idle"

(* The lock implements mutual exclusion.                                   *)
Abstract == INSTANCE Mutex WITH inside <- {p \in Clients : Holds(p)}
ImplementsMutex == Abstract!Spec

-----------------------------------------------------------------------------
(* The pseudo lock excludes, for any number of processes and files.        *)
(* Consistent is inductive: whoever opens, locks, unlocks or removes works *)
(* under the global lock, so the name stands for the file that was opened. *)

USE DEF States, Goes, Holds

(* Before the first attempt nothing is open, locked or held.               *)
LEMMA InitConsistent == Init => Consistent
BY PseudoLockAssumption
DEF PseudoLockAssumption, Init, Consistent, TypeOK, Guarded, SameFile,
    OwnersHaveOpened

(* A step that changes only where processes are, and enters no state with  *)
(* a duty, keeps the invariant.                                            *)
LEMMA WantsConsistent ==
  ASSUME Consistent, NEW p \in Clients, Wants(p)
  PROVE  Consistent'
BY PseudoLockAssumption
DEF PseudoLockAssumption, Consistent, TypeOK, Guarded, SameFile,
    OwnersHaveOpened, Wants

(* Taking the global lock: nobody else is at work under it.                *)
LEMMA PollsConsistent ==
  ASSUME Consistent, NEW p \in Clients, Polls(p)
  PROVE  Consistent'
BY PseudoLockAssumption
DEF PseudoLockAssumption, Consistent, TypeOK, Guarded, SameFile,
    OwnersHaveOpened, Polls, BeginAttempt, BeginRelease, TakeGuard

(* Opening: the name stands for the opened file from now on; a new file    *)
(* has no owner, for owners have their files open.                         *)
LEMMA OpenConsistent ==
  ASSUME Consistent, NEW p \in Clients, Open(p)
  PROVE  Consistent'
<1> USE PseudoLockAssumption DEF PseudoLockAssumption
<1>1. PICK f \in Inodes :
        /\ IF name # Nil THEN f = name ELSE \A q \in Clients : fd[q] # f
        /\ name' = f
        /\ fd' = [fd EXCEPT ![p] = f]
  BY DEF Open
<1>2. /\ pc[p] = "guarded" /\ pc' = [pc EXCEPT ![p] = "opened"]
      /\ guard = p /\ UNCHANGED <<guard, owner>>
  BY DEF Open, Consistent, Guarded
<1>3. TypeOK'
  BY <1>1, <1>2 DEF Consistent, TypeOK
<1>4. Guarded'
  BY <1>2 DEF Consistent, TypeOK, Guarded
<1>5. SameFile'
  <2>1. \A q \in Clients : Holds(q)' <=> Holds(q)
    BY <1>2 DEF Consistent, TypeOK
  <2>2. \A q \in Clients : pc'[q] = "opened" => q = p
    BY <1>2 DEF Consistent, TypeOK, Guarded
  <2>3. \A q \in Clients : Holds(q) => q # p /\ name # Nil
    BY <1>2 DEF Consistent, SameFile
  <2>4. \A q \in Clients : pc'[q] = "removes" => pc[q] = "removes"
    BY <1>2 DEF Consistent, TypeOK
  <2> QED BY <1>1, <1>2, <2>1, <2>2, <2>3, <2>4 DEF Consistent, TypeOK, SameFile
<1>6. OwnersHaveOpened'
  <2>1. \A g \in Inodes : owner[g] # p
    BY <1>2 DEF Consistent, OwnersHaveOpened
  <2>2. \A q \in Clients : Holds(q) => Holds(q)'
    BY <1>2 DEF Consistent, TypeOK
  <2> QED BY <1>1, <1>2, <2>1, <2>2 DEF Consistent, TypeOK, OwnersHaveOpened
<1> QED BY <1>3, <1>4, <1>5, <1>6 DEF Consistent

(* Locking the file that the name stands for, when nobody has it locked.   *)
LEMMA LockConsistent ==
  ASSUME Consistent, NEW p \in Clients, Lock(p)
  PROVE  Consistent'
<1> USE PseudoLockAssumption DEF PseudoLockAssumption, Lock
<1>1. /\ name \in Inodes /\ fd[p] = name /\ owner[name] = Nil /\ guard = p
      /\ \A q \in Clients : ~Holds(q) /\ pc[q] # "removes"
      /\ \A q \in Clients : pc[q] = "opened" => q = p
  BY DEF Consistent, TypeOK, Guarded, SameFile
<1>2. TypeOK'
  BY DEF Consistent, TypeOK
<1>3. Guarded'
  BY DEF Consistent, TypeOK, Guarded
<1>4. SameFile'
  BY <1>1 DEF Consistent, TypeOK, SameFile
<1>5. OwnersHaveOpened'
  BY <1>1 DEF Consistent, TypeOK, OwnersHaveOpened
<1> QED BY <1>2, <1>3, <1>4, <1>5 DEF Consistent

LEMMA LockIsBusyConsistent ==
  ASSUME Consistent, NEW p \in Clients, LockIsBusy(p)
  PROVE  Consistent'
<1> USE PseudoLockAssumption DEF PseudoLockAssumption, LockIsBusy, IsBusy
<1>1. TypeOK'
  BY DEF Consistent, TypeOK
<1>2. Guarded'
  BY DEF Consistent, TypeOK, Guarded
<1>3. SameFile'
  BY DEF Consistent, TypeOK, SameFile
<1>4. OwnersHaveOpened'
  BY DEF Consistent, TypeOK, OwnersHaveOpened, SameFile
<1> QED BY <1>1, <1>2, <1>3, <1>4 DEF Consistent

LEMMA LeavesConsistent ==
  ASSUME Consistent, NEW p \in Clients, Leaves(p)
  PROVE  Consistent'
BY PseudoLockAssumption
DEF PseudoLockAssumption, Consistent, TypeOK, Guarded, SameFile,
    OwnersHaveOpened, Leaves

(* Unlocking: nobody else holds the lock, and nobody can get it before the *)
(* name is removed.                                                        *)
LEMMA UnlockConsistent ==
  ASSUME Consistent, NEW p \in Clients, Unlock(p)
  PROVE  Consistent'
BY PseudoLockAssumption
DEF PseudoLockAssumption, Consistent, TypeOK, Guarded, SameFile,
    OwnersHaveOpened, Unlock

LEMMA RemoveConsistent ==
  ASSUME Consistent, NEW p \in Clients, Remove(p)
  PROVE  Consistent'
BY PseudoLockAssumption
DEF PseudoLockAssumption, Consistent, TypeOK, Guarded, SameFile,
    OwnersHaveOpened, Remove

LEMMA GivesUpConsistent ==
  ASSUME Consistent, NEW p \in Clients, GivesUp(p)
  PROVE  Consistent'
BY PseudoLockAssumption
DEF PseudoLockAssumption, Consistent, TypeOK, Guarded, SameFile,
    OwnersHaveOpened, GivesUp, CloseAll

(* A death between two steps: the system releases what p had locked.       *)
LEMMA DiesConsistent ==
  ASSUME Consistent, NEW p \in Clients, Dies(p)
  PROVE  Consistent'
BY PseudoLockAssumption
DEF PseudoLockAssumption, Consistent, TypeOK, Guarded, SameFile,
    OwnersHaveOpened, Dies, CloseAll

LEMMA NextConsistent == Consistent /\ [Next]_vars => Consistent'
<1> SUFFICES ASSUME Consistent, [Next]_vars PROVE Consistent'
  OBVIOUS
<1>1. CASE UNCHANGED vars
  BY <1>1 DEF vars, Consistent, TypeOK, Guarded, SameFile, OwnersHaveOpened
<1>2. CASE Next
  <2>1. PICK p \in Clients :
          Wants(p) \/ Polls(p) \/ Proceeds(p) \/ GivesUp(p) \/ Dies(p)
    BY <1>2 DEF Next
  <2> QED
    BY <2>1, WantsConsistent, PollsConsistent, OpenConsistent, LockConsistent,
       LockIsBusyConsistent, LeavesConsistent, UnlockConsistent,
       RemoveConsistent, GivesUpConsistent, DiesConsistent
    DEF Proceeds
<1> QED BY <1>1, <1>2

(* The invariant of the lock: see Consistent.                              *)
THEOREM SpecConsistent == Spec => []Consistent
BY InitConsistent, NextConsistent, PTL DEF Spec

LEMMA ConsistentExcludes == Consistent => Exclusive
BY DEF Consistent, TypeOK, SameFile, Exclusive

(* "All processes are referring to the same lock": two never hold it.      *)
THEOREM SpecExclusive == Spec => []Exclusive
BY SpecConsistent, ConsistentExcludes, PTL

-----------------------------------------------------------------------------
(* A step of the lock is one of the mutex, or leaves the holders alone.    *)
LEMMA StepRefines ==
  ASSUME Consistent, [Next]_vars
  PROVE  [Abstract!Next]_{p \in Clients : Holds(p)}
<1> DEFINE inside == {p \in Clients : Holds(p)}
<1>1. CASE UNCHANGED vars
  BY <1>1 DEF vars
<1>2. ASSUME NEW p \in Clients, Lock(p) PROVE Abstract!Acquire(p)
  <2>1. /\ fd[p] = name /\ owner[name] = Nil /\ name # Nil
        /\ \A q \in Clients : ~Holds(q)
    BY <1>2, PseudoLockAssumption
    DEF PseudoLockAssumption, Lock, Consistent, SameFile
  <2>2. \A q \in Clients : Holds(q)' <=> q = p
    BY <1>2, <2>1 DEF Lock, Consistent, TypeOK
  <2> QED BY <2>1, <2>2 DEF Abstract!Acquire
<1>3. ASSUME NEW p \in Clients,
             Unlock(p) \/ GivesUp(p) \/ Dies(p), Holds(p)
      PROVE  Abstract!Release(p)
  <2>1. \A q \in Clients : Holds(q)' <=> Holds(q) /\ q # p
    BY <1>3 DEF Unlock, GivesUp, Dies, Consistent, TypeOK
  <2> QED BY <1>3, <2>1 DEF Abstract!Release
<1>4. ASSUME NEW p \in Clients,
             \/ Wants(p) \/ Polls(p) \/ Open(p) \/ LockIsBusy(p) \/ Leaves(p)
             \/ Remove(p) \/ ((GivesUp(p) \/ Dies(p)) /\ ~Holds(p))
      PROVE  inside' = inside
  <2>1. \A q \in Clients : Holds(q)' <=> Holds(q)
    BY <1>4 DEF Wants, Polls, BeginAttempt, BeginRelease, Open, LockIsBusy,
       Leaves, Remove, GivesUp, Dies, Consistent, TypeOK
  <2> QED BY <2>1
<1>5. ASSUME NEW p \in Clients, Unlock(p) PROVE Holds(p)
  BY <1>5 DEF Unlock
<1>6. CASE Next
  <2>1. PICK p \in Clients :
          Wants(p) \/ Polls(p) \/ Proceeds(p) \/ GivesUp(p) \/ Dies(p)
    BY <1>6 DEF Next
  <2>2. Abstract!Acquire(p) \/ Abstract!Release(p) \/ inside' = inside
    <3>1. CASE Lock(p)
      BY <3>1, <1>2
    <3>2. CASE Holds(p) /\ (Unlock(p) \/ GivesUp(p) \/ Dies(p))
      BY <3>2, <1>3
    <3>3. CASE ~Lock(p) /\ ~(Holds(p) /\ (Unlock(p) \/ GivesUp(p) \/ Dies(p)))
      BY <2>1, <3>3, <1>4, <1>5 DEF Proceeds
    <3> QED BY <3>1, <3>2, <3>3
  <2> QED BY <2>2 DEF Abstract!Next
<1> QED BY <1>1, <1>6

(* The lock, with its files, its global lock, its deaths and its timeouts, *)
(* implements mutual exclusion.                                            *)
THEOREM SpecImplementsMutex == Spec => ImplementsMutex
<1>1. Init => Abstract!Init
  BY DEF Init, Abstract!Init
<1> QED
  BY <1>1, StepRefines, SpecConsistent, PTL
  DEF Spec, ImplementsMutex, Abstract!Spec
==============================================================================
