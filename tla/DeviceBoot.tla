------------------------------ MODULE DeviceBoot ------------------------------
(***************************************************************************)
(* DeviceUtils.Reboot, WaitUntilFullyBooted, EnableRoot and NeedsSU, with  *)
(* the device that goes down and comes up stage by stage beneath them.     *)
(***************************************************************************)
EXTENDS Naturals, FiniteSets

CONSTANTS
  MaxBoots,   \* bound on the number of boots
  MaxTries,   \* 1 + the retries of a call
  UserBuild,  \* TRUE: adbd never runs as root
  HasSu,      \* TRUE: the device has su
  EarlyEnv,   \* TRUE: the shell always has $EXTERNAL_STORAGE
  Loses,      \* TRUE: adb reboot may report an error of what it did
  Glitches    \* TRUE: adb may fail to list the devices

Stages == {"env", "sd", "pm", "boot", "wifi"}

VARIABLES
  power,     \* "up", "falling" (told to reboot, still up) or "down"
  boots, ready, root,
  needsSu, storage,   \* of the cache; "unset" is not in it, "failed" is
             \* the False of a NeedsSU whose command failed
  op, pc, block, wifi, tries,
  since,     \* the number of boots when the call began
  answer

device == <<power, boots, ready, root>>
cache == <<needsSu, storage>>
call == <<op, block, wifi, since>>
vars == <<device, cache, call, pc, tries, answer>>

Init ==
  /\ power = "up" /\ boots = 0 /\ ready = Stages /\ root = FALSE
  /\ needsSu = "unset" /\ storage = "unset"
  /\ op = "none" /\ pc = "idle" /\ block = FALSE /\ wifi = FALSE
  /\ tries = 0 /\ since = 0 /\ answer = "none"

Online == power # "down"

(* The device: it goes down, comes up, and gets ready in any order.        *)
GoesDown ==
  /\ power = "falling" /\ power' = "down"
  /\ ready' = {} /\ root' = FALSE
  /\ UNCHANGED <<boots, cache, call, pc, tries, answer>>

ComesUp ==
  /\ power = "down" /\ power' = "up" /\ boots' = boots + 1
  /\ ready' = IF EarlyEnv THEN {"env"} ELSE {}
  /\ UNCHANGED <<root, cache, call, pc, tries, answer>>

GetsReady(stage) ==
  /\ power = "up" /\ stage \notin ready /\ ready' = ready \cup {stage}
  /\ UNCHANGED <<power, boots, root, cache, call, pc, tries, answer>>

-----------------------------------------------------------------------------
Call(name, isBlocking, withWifi, first) ==
  /\ pc = "idle" /\ pc' = first
  /\ op' = name /\ block' = isBlocking /\ wifi' = withWifi /\ since' = boots
  /\ tries' = 1 /\ answer' = "none"
  /\ UNCHANGED <<device, cache>>

FirstStep == CASE op = "reboot" -> "reboots" [] op = "wait" -> "device" [] OTHER -> "roots"

(* A call that fails is tried again from its first step.                   *)
Raise(error) ==
  IF tries < MaxTries
    THEN tries' = tries + 1 /\ pc' = FirstStep /\ UNCHANGED answer
    ELSE pc' = "idle" /\ answer' = error /\ UNCHANGED tries

Return == pc' = "idle" /\ answer' = "ok" /\ UNCHANGED tries
Goto(step) == pc' = step /\ UNCHANGED <<tries, answer>>

ClearCache == storage' = "unset" /\ needsSu' = "unset"

AdbReboot ==
  /\ pc = "reboots" /\ UNCHANGED <<call, boots, ready, root>>
  /\ \/ /\ Online /\ boots < MaxBoots /\ power' = "falling"
        /\ \/ ClearCache /\ Goto("offline")
           \/ Loses /\ Raise("error") /\ UNCHANGED cache
     \/ (~Online \/ boots = MaxBoots) /\ Raise("error") /\ UNCHANGED <<power, cache>>

(* IsOnline takes an error of adb for a device that is not online.         *)
SeesOffline == ~Online \/ Glitches

PollOffline ==
  /\ pc = "offline" /\ SeesOffline
  /\ IF block THEN Goto("device") ELSE Return
  /\ UNCHANGED <<device, cache, call>>

WaitForDevice ==
  /\ pc = "device" /\ Online /\ Goto("sd")
  /\ UNCHANGED <<device, cache, call>>

(* GetExternalStoragePath: the first command of the shell caches what it   *)
(* sees, and an empty path stays in the cache.                             *)
Storage ==
  CASE storage # "unset" -> storage [] "env" \in ready -> "path" [] OTHER -> ""

SdCardReady ==
  /\ pc = "sd" /\ Online
  /\ storage' = Storage
  /\ \/ Storage = "" /\ Raise("$EXTERNAL_STORAGE is not set")
     \/ Storage = "path" /\ "sd" \in ready /\ Goto("pm")
     \/ Storage = "path" /\ "sd" \notin ready /\ UNCHANGED <<pc, tries, answer>>
  /\ UNCHANGED <<device, needsSu, call>>

PmReady ==
  /\ pc = "pm" /\ "pm" \in ready /\ Goto("boot")
  /\ UNCHANGED <<device, cache, call>>

BootCompleted ==
  /\ pc = "boot" /\ "boot" \in ready
  /\ IF wifi THEN Goto("wifi") ELSE Return
  /\ UNCHANGED <<device, cache, call>>

WifiEnabled ==
  /\ pc = "wifi" /\ "wifi" \in ready /\ Return
  /\ UNCHANGED <<device, cache, call>>

(* Any command finds the device gone, or the time of the call is over (a   *)
(* device that was told to reboot is down by then).                        *)
Unreachable ==
  /\ pc \in {"sd", "pm", "boot", "wifi"} /\ ~Online /\ Raise("error")
  /\ UNCHANGED <<device, cache, call>>

TimesOut ==
  /\ pc \in {"offline", "device", "sd", "pm", "boot", "wifi", "rooted"}
  /\ pc = "offline" => power = "up"
  /\ Raise("error")
  /\ UNCHANGED <<device, cache, call>>

(* EnableRoot: adbd is restarted, and polled until it says it is root.     *)
AdbRoot ==
  /\ pc = "roots" /\ needsSu' = "unset" /\ UNCHANGED <<power, boots, ready, storage, call>>
  /\ \/ Online /\ ~UserBuild /\ root' = TRUE /\ Goto("rooted")
     \/ (~Online \/ UserBuild) /\ UNCHANGED root /\ Raise("error")

OnlineWithRoot ==
  /\ pc = "rooted" /\ Online /\ root /\ Return
  /\ UNCHANGED <<device, cache, call>>

(* NeedsSU asks the device once, and takes an error of adb for an answer.  *)
NeedsSU ==
  /\ pc = "idle" /\ Online /\ needsSu = "unset"
  /\ needsSu' \in {IF HasSu /\ ~root THEN "yes" ELSE "no", "failed"}
  /\ UNCHANGED <<device, storage, call, pc, tries, answer>>

Step ==
  \/ AdbReboot \/ PollOffline \/ WaitForDevice \/ SdCardReady \/ PmReady
  \/ BootCompleted \/ WifiEnabled \/ Unreachable \/ TimesOut \/ AdbRoot \/ OnlineWithRoot

Next ==
  \/ \E b, w \in BOOLEAN : Call("reboot", b, w, "reboots")
  \/ \E w \in BOOLEAN : Call("wait", TRUE, w, "device")
  \/ Call("root", TRUE, FALSE, "roots")
  \/ Step \/ NeedsSU
  \/ GoesDown \/ ComesUp \/ \E stage \in Stages : GetsReady(stage)

Spec == Init /\ [][Next]_vars

(* Calls are bounded by their time; a device does what it is told.         *)
FairSpec == Spec /\ WF_vars(Step) /\ WF_vars(TimesOut) /\ WF_vars(GoesDown) /\ WF_vars(ComesUp)

-----------------------------------------------------------------------------
(* Reboot "waits for the reboot to complete": when it returns the device   *)
(* has gone down and come up again.                                        *)
RebootedIsNew ==
   pc # "idle" /\ answer' = "ok" /\ op = "reboot" /\ block => boots > since

(* A device that was waited for has everything that was asked for.         *)
BootedIsReady ==
   pc # "idle" /\ answer' = "ok" /\ block /\ op # "root" =>
        {"sd", "pm", "boot"} \cup (IF wifi THEN {"wifi"} ELSE {}) \subseteq ready

(* "True if su is available on the device and is needed": commands for     *)
(* root are run the way the device needs it now.  The False of an error of *)
(* adb says nothing, and stays until the device restarts or gets root.     *)
SuIsTrue ==
  power = "up" /\ needsSu \in {"yes", "no"} => (needsSu = "yes" <=> HasSu /\ ~root)

Busy == pc # "idle"

-----------------------------------------------------------------------------
TypeOK ==
  /\ power \in {"up", "falling", "down"} /\ boots \in Nat /\ ready \subseteq Stages
  /\ root \in BOOLEAN /\ needsSu \in {"unset", "yes", "no", "failed"}
  /\ op \in {"none", "reboot", "wait", "root"} /\ block \in BOOLEAN /\ wifi \in BOOLEAN
  /\ pc \in {"idle", "reboots", "offline", "device", "sd", "pm", "boot", "wifi", "roots", "rooted"}
  /\ since \in Nat /\ since <= boots

(* Only a call that waits for it sees the device fall; and who falls, or   *)
(* is down, has lost what was known of it.                                 *)
FallsInCall ==
  /\ power = "falling" => pc = "offline"
  /\ power # "up" => needsSu = "unset"

(* What a call has seen of the device stays, as the device does not go     *)
(* down by itself; and the one of Reboot has seen it down.                 *)
SeenStays ==
  /\ pc \in {"sd", "pm", "boot", "wifi"} => power = "up"
  /\ pc \in {"pm", "boot", "wifi"} => "sd" \in ready
  /\ pc \in {"boot", "wifi"} => "pm" \in ready
  /\ pc = "wifi" => "boot" \in ready

SeenDown ==
  /\ pc # "idle" => answer = "none"
  /\ op = "reboot" /\ pc = "device" => power = "down" \/ boots > since
  /\ op = "reboot" /\ pc \in {"sd", "pm", "boot", "wifi"} => boots > since
  /\ pc \in {"roots", "rooted"} => op = "root"
  /\ op = "root" => pc \in {"idle", "roots", "rooted"}
  /\ pc = "wifi" => wifi
  /\ op = "none" => pc = "idle"

IInv == TypeOK /\ FallsInCall /\ SeenStays /\ SeenDown /\ SuIsTrue

(* adb reports what it did, and which devices there are.                   *)
AdbIsTrue == ~Loses /\ ~Glitches
=============================================================================
