----------------------------- MODULE SharedPrefs -----------------------------
(***************************************************************************)
(* The preferences of an application, kept in a file on the device that    *)
(* the application reads when it starts and writes while it runs. The      *)
(* helper loads the file, changes its copy and commits it; commands of the *)
(* commit may fail, and the application runs on meanwhile.                 *)
(***************************************************************************)
EXTENDS Naturals, FiniteSets

CONSTANTS
  Keys,
  Types,       \* the tags in use
  CanRemove,   \* preferences are removed
  AppWrites,   \* the application saves preferences of its own
  MaxFaults    \* bound on the commands that fail

VARIABLES
  xml, changed,    \* the copy, and whether a commit would save it
  file, labelled,  \* the file, and whether the application may read it
  app,             \* whether the application runs, and with what
  pc, last,        \* where Commit stands, and how the last one ended
  faults

copy == <<xml, changed>>
device == <<file, labelled, app>>
vars == <<copy, device, pc, last, faults>>

(* A value is the text of its element; an empty element has no text.       *)
Texts(type) ==
  CASE type = "boolean" -> {"true", "false"}
    [] type = "int" -> {"1", "2"}
    [] type = "string" -> {"", "a"}

Prefs == UNION {[S -> {p \in [type : Types, text : UNION {Texts(t) : t \in Types} \cup {"none"}] :
                        p.text \in Texts(p.type) \cup (IF p.type = "string" THEN {"none"} ELSE {})}] : S \in SUBSET Keys}
NoPrefs == [k \in {} |-> k]

(* The document written out and parsed again.                              *)
Parsed(prefs) == [k \in DOMAIN prefs |-> IF prefs[k].text = "" THEN [prefs[k] EXCEPT !.text = "none"] ELSE prefs[k]]
Without(prefs, k) == [j \in DOMAIN prefs \ {k} |-> prefs[j]]
With(prefs, k, p) == [j \in DOMAIN prefs \cup {k} |-> IF j = k THEN p ELSE prefs[j]]

Init ==
  /\ xml = NoPrefs /\ changed = FALSE
  /\ file \in {f \in [there : BOOLEAN, prefs : {Parsed(p) : p \in Prefs}] : f.there \/ f.prefs = NoPrefs}
  /\ labelled = file.there
  /\ app = [running |-> FALSE, prefs |-> NoPrefs]
  /\ pc = "new" /\ last = "none" /\ faults = 0

-----------------------------------------------------------------------------
Idle == pc = "idle"

(* Also on entering a context.                                             *)
Load ==
  /\ pc \in {"new", "idle"}
  /\ xml' = file.prefs /\ changed' = FALSE /\ pc' = "idle" /\ last' = "none"
  /\ UNCHANGED <<device, faults>>

(* The getters and setters of a type: a key of another type is a TypeError. *)
Typed(k, type) == k \in DOMAIN xml => xml[k].type = type

(* An equal value changes nothing.                                         *)
SetPrefValue(k, type, text) ==
  /\ Idle
  /\ Typed(k, type)
  /\ k \in DOMAIN xml => xml[k].text # text
  /\ xml' = With(xml, k, [type |-> type, text |-> text]) /\ changed' = TRUE
  /\ UNCHANGED <<device, pc, last, faults>>

Remove(k) ==
  /\ Idle /\ CanRemove /\ k \in DOMAIN xml
  /\ xml' = Without(xml, k)
  /\ UNCHANGED <<changed, device, pc, last, faults>>

Clear ==
  /\ Idle /\ xml # NoPrefs
  /\ xml' = NoPrefs /\ changed' = TRUE
  /\ UNCHANGED <<device, pc, last, faults>>

Commit ==
  /\ Idle
  /\ IF changed THEN pc' = "write" /\ UNCHANGED last ELSE UNCHANGED <<pc, last>>
  /\ UNCHANGED <<copy, device, faults>>

(* A new file is not the application's until it is labelled.               *)
CommitWrites ==
  /\ pc = "write" /\ pc' = "label"
  /\ file' = [there |-> TRUE, prefs |-> Parsed(xml)]
  /\ labelled' = (labelled /\ file.there)
  /\ UNCHANGED <<copy, app, last, faults>>

CommitLabels ==
  /\ pc = "label" /\ pc' = "kill"
  /\ labelled' = TRUE
  /\ UNCHANGED <<copy, file, app, last, faults>>

(* Mutant: the application is left running.                                *)
LeavesRunning ==
  /\ pc = "kill" /\ pc' = "idle" /\ last' = "ok"
  /\ changed' = FALSE
  /\ UNCHANGED <<xml, device, faults>>

CommitKills ==
  /\ pc = "kill" /\ pc' = "idle" /\ last' = "ok"
  /\ app' = [running |-> FALSE, prefs |-> NoPrefs]
  /\ changed' = FALSE
  /\ UNCHANGED <<xml, file, labelled, faults>>

CommitFails ==
  /\ pc \in {"write", "label", "kill"} /\ faults < MaxFaults
  /\ pc' = "idle" /\ last' = "failed" /\ faults' = faults + 1
  /\ UNCHANGED <<copy, device>>

-----------------------------------------------------------------------------
AppStarts ==
  /\ ~app.running
  /\ app' = [running |-> TRUE, prefs |-> IF labelled THEN file.prefs ELSE NoPrefs]
  /\ UNCHANGED <<copy, file, labelled, pc, last, faults>>

(* The application writes all it holds when it changes a preference.       *)
AppSaves(k) ==
  /\ AppWrites /\ app.running /\ labelled /\ k \in DOMAIN app.prefs
  /\ app' = [app EXCEPT !.prefs = Without(@, k)]
  /\ file' = [there |-> TRUE, prefs |-> Without(app.prefs, k)]
  /\ last' = IF pc = "idle" THEN "none" ELSE last
  /\ UNCHANGED <<copy, labelled, pc, faults>>

Next ==
  \/ Load \/ Clear \/ Commit \/ CommitWrites \/ CommitLabels \/ CommitKills \/ CommitFails
  \/ \E k \in Keys :
       \/ \E type \in Types : \E text \in Texts(type) : SetPrefValue(k, type, text)
       \/ Remove(k) \/ AppSaves(k)
  \/ AppStarts

Spec == Init /\ [][Next]_vars

-----------------------------------------------------------------------------
(* "True if properties have changed and a commit would be needed": what is *)
(* not changed is what the file has.                                       *)
UnchangedIsSaved == Idle /\ ~changed => Parsed(xml) = file.prefs

(* After a commit the application runs with what the file has.             *)
AppIsCurrent == last = "ok" /\ Idle /\ app.running => app.prefs = file.prefs

(* "mimics the behavior of a file created by the app itself": after a      *)
(* commit the application can read its file.                               *)
CommittedIsReadable == last = "ok" => labelled

-----------------------------------------------------------------------------
(* What is inductive: a file that can be read is there, a commit labels    *)
(* what it has written, and stops the application when it is labelled.     *)
TypeOK ==
  /\ app = [running |-> app.running, prefs |-> app.prefs]
  /\ pc \in {"new", "idle", "write", "label", "kill"}
  /\ last \in {"none", "ok", "failed"}

LabelledIsThere == labelled => file.there
CommitsInOrder ==
  /\ pc = "label" => file.there
  /\ pc = "kill" => labelled

IInv ==
  /\ TypeOK /\ LabelledIsThere /\ CommitsInOrder
  /\ AppIsCurrent /\ CommittedIsReadable
=============================================================================
