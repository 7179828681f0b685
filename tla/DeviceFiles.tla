------------------------------ MODULE DeviceFiles ------------------------------
(***************************************************************************)
(* ReadFile, WriteFile and PullFile of DeviceUtils for one file that an    *)
(* app on the device writes, too.  Contents are numbered versions; what is *)
(* read is a version, nothing, or the part of one that adb let through.    *)
(***************************************************************************)
EXTENDS Naturals, FiniteSets

CONSTANTS
  Short,      \* versions that are short enough for cat and echo
  Long,       \* versions that are pulled and pushed
  Tries,
  DiskFull,   \* TRUE: the host may fail to make a temporary directory
  Silent      \* TRUE: adb pull may end well without a file

Versions == Short \cup Long
Missing == "missing"
Part == "part"       \* a file that a failed copy or push left

VARIABLES
  file,       \* the file on the device
  hostFile,   \* the file PullFile writes
  op, root,   \* the call; root: as_root and NeedsSU
  contents,   \* of WriteFile
  pc, try,
  temp,       \* the temporary file on the device, or Missing
  dir,        \* the temporary directory of the host: "none", Missing or a version
  seen,       \* the versions the file has had during the try
  answer      \* [kind |-> "ok", "error" or "UnboundLocalError", got |-> ]

vars == <<file, hostFile, op, root, contents, pc, try, temp, dir, seen, answer>>

Answer(kind, got) == [kind |-> kind, got |-> got]

Init ==
  /\ file \in Versions \cup {Missing} /\ hostFile = Missing
  /\ op = "none" /\ root = FALSE /\ contents = Missing /\ pc = "idle" /\ try = 0
  /\ temp = Missing /\ dir = "none" /\ seen = {}
  /\ answer = Answer("none", Missing)

AppWrites(v) ==
  /\ v # file /\ file' = v /\ seen' = IF pc = "idle" THEN {} ELSE seen \cup {v}
  /\ UNCHANGED <<hostFile, op, root, contents, pc, try, temp, dir, answer>>

Starts(name) ==
  /\ pc = "idle" /\ op' = name /\ try' = 1 /\ seen' = {file}
  /\ root' \in BOOLEAN /\ answer' = Answer("none", Missing)
  /\ temp' = Missing /\ dir' = "none"
  /\ UNCHANGED <<file, hostFile>>

Ends(kind, got) ==
  /\ pc' = "idle" /\ answer' = Answer(kind, got) /\ seen' = {} /\ UNCHANGED try

(* Every call is tried again after an error of adb.                        *)
First == CASE op = "read" -> "size" [] op = "pull" -> "pulls" [] OTHER -> "writes"

Raise ==
  /\ temp' = Missing /\ dir' = "none"
  /\ IF try < Tries
       THEN try' = try + 1 /\ pc' = First /\ seen' = {file} /\ UNCHANGED answer
       ELSE Ends("error", Missing)

Fixed == <<op, root, contents>>

-----------------------------------------------------------------------------
(* ReadFile asks for the size first.  The file may change before it is     *)
(* read; a long one that is printed is read again through a file.          *)
Read == Starts("read") /\ pc' = "size" /\ UNCHANGED contents

IsShort == file \in Short

AskSize ==
  /\ pc = "size" /\ UNCHANGED <<file, hostFile, Fixed>>
  /\ \/ /\ pc' = IF IsShort THEN "cat" ELSE IF root THEN "copy" ELSE "mkdtemp"
        /\ UNCHANGED <<try, temp, dir, seen, answer>>
     \/ Raise

(* The status of a command whose output is truncated is missing: it runs   *)
(* again and its output is pulled.                                         *)
Printed == IF IsShort THEN file ELSE Part

(* Mutant: the last line of a truncated output is taken for the status.    *)
AnyStatus == TRUE

StatusIsThere == IsShort

Cat ==
  /\ pc = "cat" /\ UNCHANGED <<file, hostFile, Fixed>>
  /\ \/ StatusIsThere /\ Ends("ok", Printed) /\ UNCHANGED <<temp, dir>>
     \/ /\ file # Missing /\ ~StatusIsThere /\ temp' = file /\ pc' = "mkdtemp"
        /\ UNCHANGED <<try, dir, seen, answer>>
     \/ Raise

Copy ==
  /\ pc = "copy" /\ UNCHANGED <<file, hostFile, Fixed>>
  /\ \/ /\ file # Missing /\ temp' = file /\ pc' = "mkdtemp"
        /\ UNCHANGED <<try, dir, seen, answer>>
     \/ Raise

(* _ReadFileWithPull: the directory is made inside the try whose finally   *)
(* removes it.                                                             *)
MkDTemp ==
  /\ pc = "mkdtemp" /\ UNCHANGED <<file, hostFile, Fixed>>
  /\ \/ /\ dir' = Missing /\ pc' = "pull" /\ UNCHANGED <<try, temp, seen, answer>>
     \/ DiskFull /\ Ends("UnboundLocalError", Missing) /\ UNCHANGED <<temp, dir>>

Source == IF temp # Missing THEN temp ELSE file

Pull ==
  /\ pc = "pull" /\ UNCHANGED <<file, hostFile, Fixed>>
  /\ \/ /\ Source # Missing /\ Ends("ok", Source)
        /\ temp' = Missing /\ dir' = "none"
     \/ Raise

-----------------------------------------------------------------------------
(* PullFile writes where the caller says: AdbWrapper.Pull only looks       *)
(* whether there is a file then.                                           *)
PullFile == Starts("pull") /\ pc' = "pulls" /\ UNCHANGED contents

PullToHost ==
  /\ pc = "pulls" /\ UNCHANGED <<file, Fixed>>
  /\ \/ file # Missing /\ hostFile' = file /\ Ends("ok", file) /\ UNCHANGED <<temp, dir>>
     \/ /\ Silent /\ hostFile # Missing /\ Ends("ok", hostFile)
        /\ UNCHANGED <<hostFile, temp, dir>>
     \/ Raise /\ UNCHANGED hostFile

-----------------------------------------------------------------------------
(* WriteFile: echo for what is short; else a push, to a temporary file     *)
(* first if it takes su to write the file.                                 *)
Write == Starts("write") /\ contents' \in Versions /\ pc' = "writes"

Directly == contents \in Short \/ ~root

WriteDirectly ==
  /\ pc = "writes" /\ Directly /\ UNCHANGED <<hostFile, Fixed>>
  /\ \/ file' = contents /\ Ends("ok", contents) /\ UNCHANGED <<temp, dir>>
     \/ file' \in {file, Part} /\ Raise

PushTemp ==
  /\ pc = "writes" /\ ~Directly /\ UNCHANGED <<file, hostFile, Fixed>>
  /\ \/ temp' = contents /\ pc' = "cp" /\ UNCHANGED <<try, dir, seen, answer>>
     \/ Raise

Copies == {temp}

CopyTemp ==
  /\ pc = "cp" /\ UNCHANGED <<hostFile, Fixed>>
  /\ \/ file' \in Copies /\ Ends("ok", contents) /\ temp' = Missing /\ UNCHANGED dir
     \/ file' \in {file, Part} /\ Raise

Next ==
  \/ Read \/ PullFile \/ Write
  \/ AskSize \/ Cat \/ Copy \/ MkDTemp \/ Pull \/ PullToHost
  \/ WriteDirectly \/ PushTemp \/ CopyTemp
  \/ \E v \in Versions \cup {Missing} : AppWrites(v)

Spec == Init /\ [][Next]_vars

-----------------------------------------------------------------------------
(* What is read is all of what the file held at some time of the try, also *)
(* when the file got long after its size was asked for.                    *)
ReadIsWhole ==
   op = "read" /\ pc # "idle" /\ answer'.kind = "ok" => answer'.got \in seen \ {Missing}

(* A call that wrote has left the contents on the device.                  *)
WrittenIsThere ==
   op = "write" /\ pc # "idle" /\ answer'.kind = "ok" => file' = contents
=============================================================================
