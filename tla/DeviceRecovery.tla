---------------------------- MODULE DeviceRecovery ----------------------------
(***************************************************************************)
(* device_status and device_recovery: each looks at all devices in         *)
(* parallel, one thread per device, and notes the bad ones in a blacklist  *)
(* file; recovery erases it first, restarts adb and USB and reboots. The   *)
(* lock of the blacklist object holds within one script, the file is       *)
(* shared by both.                                                         *)
(***************************************************************************)
EXTENDS Naturals, FiniteSets

CONSTANTS
  Devices,
  Programs,      \* the scripts that run, of "status" and "recovery"
  UsbReset       \* --enable-usb-reset

AdbStatuses == {"device", "offline", "unauthorized", "missing"}
Absent == [is |-> "absent", set |-> {}]
Torn == [is |-> "torn", set |-> {}]
Whole(S) == [is |-> "whole", set |-> S]

VARIABLES
  known, usb, adb,   \* the known devices file; what lsusb and adb listed
  file,              \* the blacklist
  main, mine, lock,  \* of each script: its place, its devices, its lock
  thread, then, copy,   \* of each script and device: the thread and its local blacklist
  seen,              \* of each script and device: blacklisted in its status
  todo,              \* devices whose USB is still to be reset
  noted,             \* devices added to the blacklist since it was last reset
  lines              \* the buildbot file

outside == <<known, usb, adb>>
vars == <<outside, file, main, mine, lock, thread, then, copy, seen, todo, noted, lines>>

Init ==
  /\ known \in SUBSET Devices /\ usb \in SUBSET Devices
  /\ adb \in [Devices -> AdbStatuses]
  /\ file \in {Absent, Whole(Devices)}
  /\ main = [p \in Programs |-> "start"] /\ mine = [p \in Programs |-> {}]
  /\ lock = [p \in Programs |-> FALSE]
  /\ thread = [p \in Programs |-> [d \in Devices |-> "none"]]
  /\ then = [p \in Programs |-> [d \in Devices |-> "none"]]
  /\ copy = [p \in Programs |-> [d \in Devices |-> {}]]
  /\ seen = [p \in Programs |-> {}] /\ todo = [p \in Programs |-> {}]
  /\ noted = [p \in Programs |-> {}] /\ lines = {}

-----------------------------------------------------------------------------
(* The blacklist.                                                          *)

(* Read removes a file that it cannot parse.                               *)
Read == IF file.is = "torn" THEN Absent ELSE file
IsBlacklisted(d) == d \in file.set

Goes(p, d, to) == thread' = [thread EXCEPT ![p][d] = to]

(* An Extend, and what the thread does next.                               *)
Extend(p, d, next) ==
  /\ Goes(p, d, "extend") /\ then' = [then EXCEPT ![p][d] = next]

(* Mutant: the file is read before the lock is taken.                      *)
ReadUnlocked(p, d) ==
  /\ thread[p][d] = "extend" /\ Goes(p, d, "truncate")
  /\ copy' = [copy EXCEPT ![p][d] = Read.set] /\ file' = Read
  /\ UNCHANGED <<outside, lock, main, mine, then, seen, todo, noted, lines>>

ExtendReads(p, d) ==
  /\ thread[p][d] = "extend" /\ ~lock[p]
  /\ lock' = [lock EXCEPT ![p] = TRUE] /\ Goes(p, d, "truncate")
  /\ copy' = [copy EXCEPT ![p][d] = Read.set] /\ file' = Read
  /\ UNCHANGED <<outside, main, mine, then, seen, todo, noted, lines>>

(* open(path, 'w') empties the file, json.dump fills it.                   *)
WriteTruncates(p, d) ==
  /\ thread[p][d] = "truncate" /\ Goes(p, d, "write") /\ file' = Torn
  /\ UNCHANGED <<outside, lock, main, mine, then, copy, seen, todo, noted, lines>>

Releases(p) == lock' = [lock EXCEPT ![p] = FALSE]

(* A file that was removed since it was opened has no name any more.       *)
WriteFills(p, d) ==
  /\ thread[p][d] = "write" /\ Releases(p)
  /\ file' = (IF file = Absent THEN Absent ELSE Whole(copy[p][d] \cup {d}))
  /\ noted' = [noted EXCEPT ![p] = @ \cup {d}]
  /\ Goes(p, d, then[p][d]) /\ then' = [then EXCEPT ![p][d] = "none"]
  /\ copy' = [copy EXCEPT ![p][d] = {}]
  /\ UNCHANGED <<outside, main, mine, seen, todo, lines>>

BlacklistSteps(p, d) == ExtendReads(p, d) \/ WriteTruncates(p, d) \/ WriteFills(p, d)

-----------------------------------------------------------------------------
(* DeviceStatus.                                                           *)

GetDevices == known \cup usb

Start(p) ==
  /\ main[p] = "start" /\ main' = [main EXCEPT ![p] = "status"]
  /\ mine' = [mine EXCEPT ![p] = GetDevices]
  /\ thread' = [thread EXCEPT ![p] = [d \in Devices |-> IF d \in GetDevices THEN "look" ELSE "none"]]
  /\ UNCHANGED <<outside, file, lock, then, copy, seen, todo, noted, lines>>

(* A device that answers is noted when its battery is low or a query       *)
(* fails, any other with the state adb reports.                            *)
BlacklistingDeviceStatus(p, d) ==
  /\ thread[p][d] = "look" /\ ~lock[p] /\ file' = Read
  /\ \/ /\ IsBlacklisted(d) \/ adb[d] = "device"
        /\ Goes(p, d, "status") /\ UNCHANGED then
     \/ ~IsBlacklisted(d) /\ Extend(p, d, "status")
  /\ UNCHANGED <<outside, lock, main, mine, copy, seen, todo, noted, lines>>

StatusOfDevice(p, d) ==
  /\ thread[p][d] = "status" /\ ~lock[p] /\ file' = Read
  /\ seen' = [seen EXCEPT ![p] = IF IsBlacklisted(d) THEN @ \cup {d} ELSE @ \ {d}]
  /\ Goes(p, d, "ended")
  /\ UNCHANGED <<outside, lock, main, mine, then, copy, todo, noted, lines>>

Joined(p) == \A d \in mine[p] : thread[p][d] = "ended"
NeedsUsb(d) == d \notin usb \/ adb[d] \in {"offline", "missing"}
ShouldReboot(p, d) == NeedsUsb(d) \/ adb[d] = "unauthorized" \/ d \in seen[p]

(* The line of a device that answers names keys its status does not have:  *)
(* the exception is swallowed.                                             *)
WriteBuildbotFile == lines' = {d \in mine["status"] : adb[d] # "device"}

(* With --overwrite-known-devices-files.                                   *)
Report ==
  /\ "status" \in Programs /\ main["status"] = "status" /\ Joined("status")
  /\ main' = [main EXCEPT !["status"] = "done"]
  /\ known' = mine["status"]
  /\ WriteBuildbotFile
  /\ UNCHANGED <<usb, adb, file, lock, mine, thread, then, copy, seen, todo, noted>>

-----------------------------------------------------------------------------
(* RecoverDevices.                                                         *)
R == "recovery"

Reset ==
  /\ R \in Programs /\ main[R] = "status" /\ Joined(R)
  /\ main' = [main EXCEPT ![R] = "usb"]
  /\ file' = Absent /\ noted' = [p \in Programs |-> {}]
  /\ todo' = [todo EXCEPT ![R] = {d \in mine[R] : NeedsUsb(d)}]
  /\ UNCHANGED <<outside, lock, mine, thread, then, copy, seen, lines>>

(* A reset that fails notes the device.                                    *)
ResetUsb(d) ==
  /\ R \in Programs /\ main[R] = "usb" /\ d \in todo[R]
  /\ \A e \in mine[R] : thread[R][e] \in {"ended", "usb failed"}
  /\ todo' = [todo EXCEPT ![R] = @ \ {d}]
  /\ \/ UNCHANGED <<thread, then>>
     \/ UsbReset /\ Extend(R, d, "usb failed")
  /\ UNCHANGED <<outside, file, lock, main, mine, copy, seen, noted, lines>>

StartRecovery ==
  /\ R \in Programs /\ main[R] = "usb" /\ todo[R] = {}
  /\ \A e \in mine[R] : thread[R][e] \in {"ended", "usb failed"}
  /\ main' = [main EXCEPT ![R] = "recover"]
  /\ thread' = [thread EXCEPT ![R] = [d \in Devices |-> IF d \in mine[R] THEN "check" ELSE "none"]]
  /\ UNCHANGED <<outside, file, lock, mine, then, copy, seen, todo, noted, lines>>

SkipsRecovery(d) == IsBlacklisted(d)

RecoverDevice(d) ==
  /\ R \in Programs /\ main[R] = "recover" /\ thread[R][d] = "check" /\ ~lock[R]
  /\ file' = Read
  /\ Goes(R, d, IF SkipsRecovery(d) \/ ~ShouldReboot(R, d) THEN "ended" ELSE "reboot")
  /\ UNCHANGED <<outside, lock, main, mine, then, copy, seen, todo, noted, lines>>

(* A timeout is answered with a reboot through sysrq; what fails is noted, *)
(* and so is a device that does not come up again.                         *)
Reboot(d) ==
  /\ R \in Programs /\ thread[R][d] = "reboot"
  /\ \/ Goes(R, d, "boot") /\ UNCHANGED then
     \/ Extend(R, d, "boot")
  /\ UNCHANGED <<outside, file, lock, main, mine, copy, seen, todo, noted, lines>>

WaitUntilFullyBooted(d) ==
  /\ R \in Programs /\ thread[R][d] = "boot"
  /\ \/ Goes(R, d, "ended") /\ UNCHANGED then
     \/ Extend(R, d, "ended")
  /\ UNCHANGED <<outside, file, lock, main, mine, copy, seen, todo, noted, lines>>

RecoveryEnds ==
  /\ R \in Programs /\ main[R] = "recover" /\ Joined(R)
  /\ main' = [main EXCEPT ![R] = "done"]
  /\ UNCHANGED <<outside, file, lock, mine, thread, then, copy, seen, todo, noted, lines>>

Next ==
  \/ \E p \in Programs, d \in Devices :
       BlacklistSteps(p, d) \/ BlacklistingDeviceStatus(p, d) \/ StatusOfDevice(p, d)
  \/ \E p \in Programs : Start(p)
  \/ Report \/ Reset \/ StartRecovery \/ RecoveryEnds
  \/ \E d \in Devices : ResetUsb(d) \/ RecoverDevice(d) \/ Reboot(d) \/ WaitUntilFullyBooted(d)

Spec == Init /\ [][Next]_vars
FairSpec == Spec /\ WF_vars(Next)

-----------------------------------------------------------------------------
(* "Adds devices to blacklist file.": whoever adds its device at the same  *)
(* time, none of them is lost.                                             *)
NotedAreListed ==
  \A p \in Programs : main[p] = "done" => noted[p] \subseteq file.set

(* What a status says of the blacklist is what the blacklist says when     *)
(* all threads have ended.                                                 *)
StatusIsTrue ==
  \A p \in Programs : main[p] = "status" /\ Joined(p) => seen[p] = file.set \cap mine[p]

(* A device whose USB could not be reset is not rebooted.                  *)
RebootedAreClean ==
   \A d \in Devices : R \in Programs /\ thread[R][d] = "check" /\ thread'[R][d] = "reboot"
        => d \notin noted[R]

(* A device that is missing once stays on the list of known devices.       *)
KnownDevicesStay == known \subseteq known'

Finished == \A p \in Programs : main[p] = "done"

-----------------------------------------------------------------------------
(* What is inductive when one script runs at a time: of two, the reset of  *)
(* one removes the file that the other is writing.                         *)
OneProgram == \A p, q \in Programs : p = q

Places == {"none", "look", "extend", "truncate", "write", "status", "ended", "usb failed",
           "check", "reboot", "boot"}

TypeOK ==
  /\ known \in SUBSET Devices /\ usb \in SUBSET Devices
  /\ file \in [is : {"absent", "torn", "whole"}, set : SUBSET Devices]
  /\ main \in [Programs -> {"start", "status", "usb", "recover", "done"}]
  /\ mine \in [Programs -> SUBSET Devices] /\ lock \in [Programs -> BOOLEAN]
  /\ thread \in [Programs -> [Devices -> Places]] /\ then \in [Programs -> [Devices -> Places]]
  /\ copy \in [Programs -> [Devices -> SUBSET Devices]]
  /\ seen \in [Programs -> SUBSET Devices] /\ todo \in [Programs -> SUBSET Devices]
  /\ noted \in [Programs -> SUBSET Devices]

(* Where the thread of a device may be, or goes on after an Extend.        *)
Extends(p, d) == thread[p][d] \in {"extend", "truncate", "write"}
At(p, d) == IF Extends(p, d) THEN then[p][d] ELSE thread[p][d]

Placed(p, d) ==
  /\ main[p] \in {"start", "done"} => ~Extends(p, d)
  /\ main[p] = "start" => At(p, d) = "none"
  /\ main[p] # "start" => (At(p, d) = "none" <=> d \notin mine[p])
  /\ main[p] = "status" => At(p, d) \in {"none", "look", "status", "ended"}
  /\ main[p] = "status" /\ Extends(p, d) => At(p, d) = "status"
  /\ main[p] = "usb" => At(p, d) \in {"none", "ended", "usb failed"}
  /\ main[p] = "recover" => At(p, d) \in {"none", "check", "reboot", "boot", "ended"}
  /\ main[p] = "done" => At(p, d) \in {"none", "ended"}
  /\ Extends(p, d) => At(p, d) # "none"
  /\ At(p, d) \notin {"extend", "truncate", "write"}

ThreadsArePlaced ==
  \A p \in Programs :
    /\ todo[p] \subseteq mine[p]
    /\ main[p] = "start" => noted[p] = {} /\ seen[p] = {} /\ todo[p] = {}
    /\ \A d \in Devices : Placed(p, d)

(* Who writes holds the lock and has read what was there.                  *)
Writing(p) == {d \in Devices : thread[p][d] \in {"truncate", "write"}}
OneWrites ==
  \A p \in Programs : \A d \in Writing(p) :
    /\ lock[p] /\ \A e \in Writing(p) : e = d
    /\ IF thread[p][d] = "write" THEN file = Torn ELSE file.is # "torn" /\ copy[p][d] = file.set

TornIsWritten ==
  file.is = "torn" => \E p \in Programs, d \in Devices : thread[p][d] = "write"

(* The list, while it is written too.                                      *)
Listed(p) == file.set \cup UNION {copy[p][d] : d \in {e \in Devices : thread[p][e] = "write"}}

ListIsKept ==
  \A p \in Programs :
    /\ noted[p] \subseteq Listed(p)
    /\ seen[p] \subseteq mine[p]
    /\ \A d \in mine[p] : main[p] = "status" /\ thread[p][d] = "ended" => (d \in seen[p] <=> d \in Listed(p))

IInv == TypeOK /\ ThreadsArePlaced /\ OneWrites /\ TornIsWritten /\ ListIsKept
=============================================================================
