------------------------------ MODULE Fastboot ------------------------------
(***************************************************************************)
(* flash_device: each device is taken to fastboot mode, its partitions are *)
(* flashed in order, and it is rebooted. A command that fails within the   *)
(* body of the mode ends the body, one outside of it the whole flash.      *)
(***************************************************************************)
EXTENDS Naturals, Sequences, Functions

CONSTANTS
  Devices,
  Failing,     \* the steps at which a command may fail
  MaxFaults,   \* bound on those that do
  Lingers      \* a device that reboots is listed for a moment longer

VARIABLES
  build, wipe,            \* the directory and the option
  mode, image, charge,    \* of the devices: partitions that are new
  pc, left,               \* the step, and the partitions left
  faults, broken, flashed, failed

given == <<build, wipe>>
device == <<mode, image, charge>>
vars == <<given, device, pc, left, faults, broken, flashed, failed>>

(* One partition of each kind, in the order of _KNOWN_PARTITIONS.          *)
Partitions == <<"bootloader", "system", "userdata", "vendor">>
Restarts(p) == p = "bootloader"
WipeOnly(p) == p = "userdata"
Optional(p) == p = "vendor"

Init ==
  /\ build \in [images : SUBSET Range(Partitions),
                info : {<<>>, <<"ours">>, <<"other">>, <<"other", "ours">>}, archive : BOOLEAN]
  /\ wipe \in BOOLEAN
  /\ mode = [d \in Devices |-> "android"]
  /\ image = [d \in Devices |-> {}]
  /\ charge = [d \in Devices |-> TRUE]
  /\ pc = [d \in Devices |-> "enable"]
  /\ left = [d \in Devices |-> <<>>]
  /\ faults = 0 /\ broken = {} /\ flashed = {} /\ failed = {}

-----------------------------------------------------------------------------
(* The first board the file names decides; without one, the archive does.  *)
VerifyBoard == IF build.info # <<>> THEN Head(build.info) = "ours" ELSE build.archive

(* Mutant: an image that is missing is noticed when its turn comes.        *)
FindAndVerifyNothing == TRUE

FindAndVerifyPartitionsAndImages ==
  \A i \in DOMAIN Partitions : Optional(Partitions[i]) \/ Partitions[i] \in build.images

IfWanted(p) ==
  IF ~(Optional(p) /\ p \notin build.images) /\ (WipeOnly(p) => wipe) THEN <<p>> ELSE <<>>

ToFlash == IfWanted("bootloader") \o IfWanted("system") \o IfWanted("userdata") \o IfWanted("vendor")

Goes(d, from, to) == pc[d] = from /\ pc' = [pc EXCEPT ![d] = to]
Moves(d, to) == mode' = [mode EXCEPT ![d] = to]

EnableFastbootMode(d) ==
  /\ Goes(d, "enable", "wait") /\ mode[d] = "android" /\ Moves(d, "to fastboot")
  /\ UNCHANGED <<given, image, charge, left, faults, broken, flashed, failed>>

Listed(d) == mode[d] \in {"fastboot", "leaving"}

WaitForFastbootMode(d) ==
  /\ Goes(d, "wait", "oem off") /\ Listed(d)
  /\ UNCHANGED <<given, device, left, faults, broken, flashed, failed>>

OffModeChargeOff(d) ==
  /\ Goes(d, "oem off", "verify")
  /\ charge' = [charge EXCEPT ![d] = FALSE]
  /\ UNCHANGED <<given, mode, image, left, faults, broken, flashed, failed>>

Verify(d) ==
  /\ IF VerifyBoard /\ FindAndVerifyPartitionsAndImages
     THEN Goes(d, "verify", "flash") /\ left' = [left EXCEPT ![d] = ToFlash] /\ UNCHANGED broken
     ELSE Goes(d, "verify", "oem on") /\ broken' = broken \cup {d} /\ UNCHANGED left
  /\ UNCHANGED <<given, device, faults, flashed, failed>>

NextPartition(d) == Tail(left[d])

(* A device on its way to another mode, or without the image, fails.       *)
Flash(d) ==
  /\ left[d] # <<>>
  /\ LET p == Head(left[d]) IN
       /\ mode[d] = "fastboot" /\ p \in build.images
       /\ Goes(d, "flash", IF Restarts(p) THEN "restart" ELSE "flash")
       /\ image' = [image EXCEPT ![d] = @ \cup {p}]
  /\ left' = [left EXCEPT ![d] = NextPartition(d)]
  /\ UNCHANGED <<given, mode, charge, faults, broken, flashed, failed>>

RebootBootloader(d) ==
  /\ Goes(d, "restart", "back") /\ Moves(d, IF Lingers THEN "leaving" ELSE "to fastboot")
  /\ UNCHANGED <<given, image, charge, left, faults, broken, flashed, failed>>

BackInFastboot(d) ==
  /\ Goes(d, "back", "flash") /\ Listed(d)
  /\ UNCHANGED <<given, device, left, faults, broken, flashed, failed>>

EndOfBody(d) ==
  /\ Goes(d, "flash", "oem on") /\ left[d] = <<>>
  /\ UNCHANGED <<given, device, left, faults, broken, flashed, failed>>

OffModeChargeOn(d) ==
  /\ Goes(d, "oem on", "reboot") /\ mode[d] = "fastboot"
  /\ charge' = [charge EXCEPT ![d] = TRUE]
  /\ UNCHANGED <<given, mode, image, left, faults, broken, flashed, failed>>

(* A wiped device has no keys and is not waited for.                       *)
Reboot(d) ==
  /\ Goes(d, "reboot", IF wipe THEN "end" ELSE "boot") /\ mode[d] = "fastboot"
  /\ Moves(d, "to android")
  /\ UNCHANGED <<given, image, charge, left, faults, broken, flashed, failed>>

WaitUntilFullyBooted(d) ==
  /\ Goes(d, "boot", "end") /\ mode[d] = "android"
  /\ UNCHANGED <<given, device, left, faults, broken, flashed, failed>>

Report(d) ==
  /\ Goes(d, "end", "done")
  /\ IF d \in broken THEN failed' = failed \cup {d} /\ UNCHANGED flashed
     ELSE flashed' = flashed \cup {d} /\ UNCHANGED failed
  /\ UNCHANGED <<given, device, left, faults, broken>>

(* The body ends where a partition fails to flash.                         *)
BreaksOff(d) ==
  /\ Goes(d, "flash", "oem on") /\ broken' = broken \cup {d} /\ UNCHANGED left

FlashFails(d) ==
  /\ pc[d] = "flash" /\ left[d] # <<>>
  /\ IF mode[d] # "fastboot" \/ Head(left[d]) \notin build.images THEN UNCHANGED faults
     ELSE "flash" \in Failing /\ faults < MaxFaults /\ faults' = faults + 1
  /\ BreaksOff(d)
  /\ UNCHANGED <<given, device, flashed, failed>>

(* So it does where the restart into the bootloader fails, whether the     *)
(* device has left or not.                                                 *)
RestartFails(d) ==
  /\ pc[d] \in Failing \cap {"restart", "back"} /\ faults < MaxFaults /\ faults' = faults + 1
  /\ \/ UNCHANGED mode
     \/ pc[d] = "restart" /\ Moves(d, IF Lingers THEN "leaving" ELSE "to fastboot")
  /\ pc' = [pc EXCEPT ![d] = "oem on"] /\ broken' = broken \cup {d}
  /\ UNCHANGED <<given, image, charge, left, flashed, failed>>

(* Steps around the body, those of its finally clause too: the whole flash *)
(* fails.                                                                  *)
StepFails(d) ==
  /\ pc[d] \in Failing \ {"flash", "restart", "back"} /\ faults < MaxFaults /\ faults' = faults + 1
  /\ pc' = [pc EXCEPT ![d] = "end"] /\ broken' = broken \cup {d}
  /\ UNCHANGED <<given, device, left, flashed, failed>>

DeviceStarts(d) ==
  /\ \/ mode[d] = "leaving" /\ Moves(d, "to fastboot")
     \/ mode[d] = "to fastboot" /\ Moves(d, "fastboot")
     \/ mode[d] = "to android" /\ Moves(d, "android")
  /\ UNCHANGED <<given, image, charge, pc, left, faults, broken, flashed, failed>>

Step(d) ==
  \/ EnableFastbootMode(d) \/ WaitForFastbootMode(d) \/ OffModeChargeOff(d) \/ Verify(d) \/ Flash(d)
  \/ RebootBootloader(d) \/ BackInFastboot(d) \/ EndOfBody(d) \/ OffModeChargeOn(d) \/ Reboot(d)
  \/ WaitUntilFullyBooted(d) \/ Report(d) \/ FlashFails(d) \/ RestartFails(d)
  \/ StepFails(d)

Done == \A d \in Devices : pc[d] = "done" /\ mode[d] \in {"android", "fastboot"}

Next == \E d \in Devices : Step(d) \/ DeviceStarts(d)
Spec == Init /\ [][Next]_vars
FairSpec == Spec /\ \A d \in Devices : WF_vars(Step(d)) /\ WF_vars(DeviceStarts(d))

-----------------------------------------------------------------------------
(* A device reported as flashed has every image that was to be flashed.    *)
FlashedIsWhole == \A d \in flashed : image[d] = Range(ToFlash)

(* "Cannot stop mid flash so its important to validate everything first":  *)
(* no partition is flashed of a build that lacks an image or is not for    *)
(* this board.                                                             *)
InvalidIsUntouched ==
  \A d \in Devices : image[d] # {} =>
    /\ VerifyBoard
    /\ \A p \in Range(Partitions) : Optional(p) \/ p \in build.images

(* "Context manager that enables fastboot mode, and reboots after": no     *)
(* device is left behind in fastboot mode or without off-mode charging.    *)
RebootsAfter ==
  \A d \in Devices : pc[d] = "done" => mode[d] \in {"android", "to android"} /\ charge[d]

AllReported == flashed \cup failed = Devices

-----------------------------------------------------------------------------
TypeOK ==
  /\ image \in [Devices -> SUBSET Range(Partitions)]
  /\ pc \in [Devices -> {"enable", "wait", "oem off", "verify", "flash", "restart", "back",
                        "oem on", "reboot", "boot", "end", "done"}]
  /\ left \in [Devices -> Seq(Range(Partitions))]
  /\ flashed \subseteq Devices

(* Before the build is verified nothing is flashed, then what is flashed   *)
(* and what is left make up what was to be, until nothing is left or the   *)
(* flash has failed.                                                       *)
Verified == VerifyBoard /\ FindAndVerifyPartitionsAndImages
InBody(d) == pc[d] \in {"flash", "restart", "back"}

Progress(d) ==
  /\ pc[d] \in {"enable", "wait", "oem off", "verify"} => image[d] = {}
  /\ image[d] # {} \/ InBody(d) => Verified
  /\ InBody(d) => image[d] \cup Range(left[d]) = Range(ToFlash)
  /\ pc[d] \in {"oem on", "reboot", "boot", "end", "done"} =>
       d \in broken \/ image[d] = Range(ToFlash)
  /\ d \in flashed => pc[d] = "done" /\ d \notin broken

IInv == TypeOK /\ \A d \in Devices : Progress(d)

(* The steps at which a command is sent to a device.                       *)
FailingAreSteps ==
  Failing \subseteq {"enable", "wait", "oem off", "flash", "restart", "back", "oem on", "reboot", "boot"}
=============================================================================
