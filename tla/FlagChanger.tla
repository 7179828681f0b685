----------------------------- MODULE FlagChanger -----------------------------
(***************************************************************************)
(* The file of command line flags of a browser on a device, changed by     *)
(* objects that each keep a stack of the states they go back to. Some of   *)
(* them are contexts, which replace the flags and lift the enforcement of  *)
(* the device while their body runs; the others are used call by call.     *)
(***************************************************************************)
EXTENDS Naturals, Sequences, FiniteSets

CONSTANTS
  Flags, Contexts, Objects,
  Nested,      \* the objects are used one within the other
  MaxDepth,    \* bound on the calls an object has to restore
  MaxFaults    \* bound on the commands that fail

VARIABLES
  file, legacy, enforce,     \* of the device
  original,                  \* the flags and the enforcement it began with
  pc, stack, needs, owed,    \* of each object; what its user has to restore
  order,                     \* the objects in use, in the order they came
  faults, unrestored,        \* whether a restoring command left another file
  lifted                     \* whether one of the enforcement left it lifted

vars ==
  <<file, legacy, enforce, original, pc, stack, needs, owed, order, faults, unrestored, lifted>>
Changers == Contexts \cup Objects

Last(s) == s[Len(s)]
Front(s) == SubSeq(s, 1, Len(s) - 1)
RemoveAt(s, i) == SubSeq(s, 1, i - 1) \o SubSeq(s, i + 1, Len(s))

Init ==
  /\ file \in SUBSET Flags /\ legacy \in BOOLEAN /\ enforce \in BOOLEAN
  /\ original = [file |-> file, enforce |-> enforce]
  /\ pc = [c \in Changers |-> "out"]
  /\ stack = [c \in Changers |-> <<>>]
  /\ needs = [c \in Changers |-> FALSE]
  /\ owed = [c \in Changers |-> 0]
  /\ order = <<>> /\ faults = 0 /\ unrestored = FALSE /\ lifted = FALSE

-----------------------------------------------------------------------------
May(c) == Nested /\ order # <<>> => Last(order) = c
Goes(c, from, to) == pc[c] = from /\ May(c) /\ pc' = [pc EXCEPT ![c] = to]
CommandFails == faults < MaxFaults /\ faults' = faults + 1

(* A command that fails may have done its work, or cleared the file first. *)
MayWrite(flags) == file' \in {file, {}, flags}
MayEnforce(on) == enforce' \in {enforce, on} /\ lifted' = (lifted \/ ~enforce')

(* _UpdateCommandLineFile: the top is written, and read back.              *)
Updates(c, states) ==
  /\ stack' = [stack EXCEPT ![c] = states]
  /\ file' = Last(states)

(* Only a context that finds the device enforcing has to undo it.          *)
Needs(c) == needs' = [needs EXCEPT ![c] = enforce]

EnterContext(c) ==
  /\ c \in Contexts /\ pc[c] = "out" /\ pc' = [pc EXCEPT ![c] = "open"]
  /\ Nested /\ order # <<>> => pc[Last(order)] = "in"
  /\ Needs(c) /\ enforce' = FALSE /\ order' = Append(order, c)
  /\ UNCHANGED <<file, legacy, original, stack, owed, faults, unrestored, lifted>>

(* The command that lifts it fails: the context is not entered, and what   *)
(* the command did is not undone.                                          *)
EnterFails(c) ==
  /\ c \in Contexts /\ pc[c] = "out" /\ enforce /\ CommandFails /\ MayEnforce(FALSE)
  /\ UNCHANGED <<file, legacy, original, pc, stack, needs, owed, order, unrestored>>

(* The constructor removes a legacy file and records the flags.            *)
Create(c) ==
  /\ IF c \in Contexts THEN Goes(c, "open", "replace") /\ UNCHANGED order
     ELSE /\ pc[c] = "out" /\ pc' = [pc EXCEPT ![c] = "in"] /\ order' = Append(order, c)
          /\ Nested /\ order # <<>> => pc[Last(order)] = "in"
  /\ legacy' = FALSE /\ stack' = [stack EXCEPT ![c] = <<file>>]
  /\ UNCHANGED <<file, enforce, original, needs, owed, faults, unrestored, lifted>>

CreateFails(c) ==
  /\ CommandFails /\ Goes(c, "open", "enforce") /\ legacy' \in {legacy, FALSE}
  /\ UNCHANGED <<file, enforce, original, stack, needs, owed, order, unrestored, lifted>>

ReplaceFlags(c, flags) ==
  /\ Goes(c, "replace", "in")
  /\ Updates(c, Append(stack[c], flags))
  /\ UNCHANGED <<legacy, enforce, original, needs, owed, order, faults, unrestored, lifted>>

ReplaceFails(c, flags) ==
  /\ CommandFails /\ Goes(c, "replace", "restore") /\ MayWrite(flags)
  /\ stack' = [stack EXCEPT ![c] = Append(@, flags)]
  /\ UNCHANGED <<legacy, enforce, original, needs, owed, order, unrestored, lifted>>

LeaveBody(c) ==
  /\ c \in Contexts /\ Goes(c, "in", "restore")
  /\ UNCHANGED <<file, legacy, enforce, original, stack, needs, owed, order, faults, unrestored, lifted>>

(* AddFlags and RemoveFlags.                                               *)
Pushed(c, add, remove) == (Last(stack[c]) \cup add) \ remove
OwesOne(c) ==
  /\ c \in Objects /\ pc[c] = "in" /\ May(c) /\ owed[c] < MaxDepth
  /\ owed' = [owed EXCEPT ![c] = @ + 1]

PushFlags(c, add, remove) ==
  /\ OwesOne(c) /\ Updates(c, Append(stack[c], Pushed(c, add, remove)))
  /\ UNCHANGED <<legacy, enforce, original, pc, needs, order, faults, unrestored, lifted>>

(* The state is on the stack before the file is written: the user whose    *)
(* call failed restores it before anything else, as a context does.        *)
PushFails(c, add, remove) ==
  /\ OwesOne(c) /\ CommandFails /\ MayWrite(Pushed(c, add, remove))
  /\ stack' = [stack EXCEPT ![c] = Append(@, Pushed(c, add, remove))]
  /\ pc' = [pc EXCEPT ![c] = "restore"]
  /\ UNCHANGED <<legacy, enforce, original, needs, order, unrestored, lifted>>

GetCurrentFlags(c) ==
  /\ c \in Objects /\ pc[c] = "in" /\ May(c)
  /\ stack' = [stack EXCEPT ![c] = Append(Front(@), file)]
  /\ UNCHANGED <<file, legacy, enforce, original, pc, needs, owed, order, faults, unrestored, lifted>>

Restores(c) ==
  IF c \in Contexts THEN Goes(c, "restore", "enforce") /\ UNCHANGED owed
  ELSE /\ pc[c] \in {"in", "restore"} /\ May(c) /\ pc' = [pc EXCEPT ![c] = "in"]
       /\ owed[c] > 0 /\ owed' = [owed EXCEPT ![c] = @ - 1]

PopsState(c) == Updates(c, Front(stack[c]))

Restore(c) ==
  /\ Restores(c) /\ PopsState(c)
  /\ UNCHANGED <<legacy, enforce, original, needs, order, faults, unrestored, lifted>>

(* The state is off the stack, whatever the file has.                      *)
RestoreFails(c) ==
  /\ Restores(c) /\ CommandFails /\ MayWrite(Last(Front(stack[c])))
  /\ stack' = [stack EXCEPT ![c] = Front(@)]
  /\ unrestored' = (unrestored \/ file' # Last(Front(stack[c])))
  /\ UNCHANGED <<legacy, enforce, original, needs, order, lifted>>

Closed(c) ==
  /\ stack' = [stack EXCEPT ![c] = <<>>] /\ needs' = [needs EXCEPT ![c] = FALSE]
  /\ order' = RemoveAt(order, CHOOSE i \in DOMAIN order : order[i] = c)

ExitContext(c) ==
  /\ Goes(c, "enforce", "out") /\ Closed(c)
  /\ enforce' = (enforce \/ needs[c])
  /\ UNCHANGED <<file, legacy, original, owed, faults, unrestored, lifted>>

(* The command that enforces again fails.                                  *)
ExitFails(c) ==
  /\ needs[c] /\ Goes(c, "enforce", "out") /\ Closed(c) /\ CommandFails /\ MayEnforce(TRUE)
  /\ UNCHANGED <<file, legacy, original, owed, unrestored>>

(* An object whose user has restored all it changed is no longer used.     *)
Drop(c) ==
  /\ c \in Objects /\ owed[c] = 0 /\ Goes(c, "in", "out") /\ Closed(c)
  /\ UNCHANGED <<file, legacy, enforce, original, owed, faults, unrestored, lifted>>

Next ==
  \E c \in Changers :
    \/ EnterContext(c) \/ EnterFails(c) \/ Create(c) \/ CreateFails(c) \/ LeaveBody(c)
    \/ GetCurrentFlags(c) \/ Restore(c) \/ RestoreFails(c) \/ ExitContext(c) \/ ExitFails(c) \/ Drop(c)
    \/ \E flags \in SUBSET Flags : ReplaceFlags(c, flags) \/ ReplaceFails(c, flags)
    \/ \E add, remove \in SUBSET Flags :
         /\ add \cap remove = {} /\ add \cup remove # {}
         /\ PushFlags(c, add, remove) \/ PushFails(c, add, remove)

Spec == Init /\ [][Next]_vars

-----------------------------------------------------------------------------
(* "Previous set of flags on the device is now restored": when no object   *)
(* is in use, the device has the flags it began with, unless a restoring   *)
(* command left others, and enforces what it did, unless one that lifts or *)
(* restores the enforcement failed and left it lifted.                     *)
Restored ==
  order = <<>> => /\ ~unrestored => file = original.file
                  /\ ~lifted => enforce = original.enforce

(* In the body of a context the browser may read the file.                 *)
ReadableInside == \A c \in Contexts : pc[c] = "in" => ~enforce

(* What an object took for the original is what the object around it set.  *)
OriginalIsOuter ==
  Nested /\ ~unrestored =>
    \A i \in 1..(Len(order) - 1) :
      stack[order[i + 1]] # <<>> /\ stack[order[i]] # <<>>
        => Head(stack[order[i + 1]]) = Last(stack[order[i]])

-----------------------------------------------------------------------------
(* A changer is used as a context, or call by call.                        *)
ChangersApart == Contexts \cap Objects = {}

TypeOK ==
  /\ file \in SUBSET Flags /\ legacy \in BOOLEAN /\ enforce \in BOOLEAN
  /\ original \in [file : SUBSET Flags, enforce : BOOLEAN]
  /\ pc \in [Changers -> {"out", "open", "replace", "in", "restore", "enforce"}]
  /\ stack \in [Changers -> Seq(SUBSET Flags)]
  /\ needs \in [Changers -> BOOLEAN] /\ owed \in [Changers -> Nat]
  /\ order \in Seq(Changers) /\ faults \in Nat /\ unrestored \in BOOLEAN /\ lifted \in BOOLEAN

(* Who is in use is in the order once, and around it are bodies only.      *)
OrderIsOfUse ==
  /\ \A i, j \in 1..Len(order) : order[i] = order[j] => i = j
  /\ \A c \in Changers : pc[c] # "out" <=> \E i \in 1..Len(order) : order[i] = c
  /\ \A i \in 1..(Len(order) - 1) : pc[order[i]] = "in"

(* What is on a stack is what has still to be undone.                      *)
StackIsOwed(c) ==
  /\ c \in Objects => pc[c] \in {"out", "in", "restore"}
  /\ pc[c] = "out" \/ c \in Contexts => owed[c] = 0
  /\ pc[c] \in {"out", "open"} => Len(stack[c]) = 0
  /\ pc[c] = "replace" => Len(stack[c]) = 1
  /\ pc[c] = "restore" /\ c \in Objects => owed[c] > 0
  /\ pc[c] \in {"in", "restore"} => Len(stack[c]) = IF c \in Contexts THEN 2 ELSE owed[c] + 1
  /\ pc[c] = "enforce" => Len(stack[c]) <= 1

StacksAreOwed == \A c \in Changers : StackIsOwed(c)

(* The flags that the i-th in the order came upon.                         *)
Outer(i) == IF i = 1 THEN original.file ELSE Last(stack[order[i - 1]])

(* Every stack begins with what its object came upon, and the file has     *)
(* what is on top of the last one.                                         *)
FileIsOfLast ==
  IF order = <<>> THEN file = original.file
  ELSE IF stack[Last(order)] = <<>> THEN file = Outer(Len(order))
  ELSE pc[Last(order)] # "restore" => file = Last(stack[Last(order)])

StacksBeginOutside ==
  \A i \in 1..Len(order) : stack[order[i]] # <<>> => stack[order[i]][1] = Outer(i)

(* The enforcement that was lifted is that of a context in use, or of a    *)
(* command that failed.                                                    *)
EnforcementIsOwed ==
  /\ original.enforce = (enforce \/ lifted \/ \E c \in Changers : needs[c])
  /\ \A c \in Changers : pc[c] = "out" \/ c \in Objects => ~needs[c]

IInv ==
  /\ TypeOK /\ OrderIsOfUse /\ StacksAreOwed /\ EnforcementIsOwed
  /\ ~unrestored => FileIsOfLast /\ StacksBeginOutside
=============================================================================
