---------------------------- MODULE BatteryUtils ----------------------------
(***************************************************************************)
(* devil.android.battery_utils: charging is switched in the hardware of    *)
(* the device, where a profile knows how, or only in what the system       *)
(* reports.  Every call is a list of commands, any of which may fail; what *)
(* has been switched off must be switched on again.                        *)
(***************************************************************************)
EXTENDS Naturals, Sequences, SequencesExt

CONSTANTS
  Names,          \* of the calls that are made
  HasHardware,    \* the profile of the device has an enable_command
  HasGauge,       \* and a charge_counter
  Full,           \* the highest level of the battery
  MaxChargeError, \* _MAX_CHARGE_ERROR
  MaxUid          \* bound on the installations of the measured package

VARIABLES
  hardware,  \* the charger takes energy from USB
  stopped,   \* "UPDATES STOPPED": the system reports what it was told
  ac, usb,   \* the reported sources of power
  old,       \* the power data hold usage from before the current call
  todo,      \* the steps left of the current call
  unwinds,   \* an exception looks for its handler
  pending,   \* the finally clause is left with an exception
  call,      \* the current or last call, whether the device really was charging
             \* when it began, and how it found charger and updates
  failed,    \* the last call raised
  charge,    \* charge_status of ChargeDeviceToLevel
  app,       \* the package: its uid (0: not installed), the one in the cache,
             \* and whether it was reinstalled since that one was read
  answer     \* what the last call for data found

device == <<hardware, stopped, ac, usb>>
control == <<todo, unwinds, pending, call, failed>>
package == <<app, answer>>
vars == <<device, old, control, charge, package>>

Charging == ac \/ usb       \* GetCharging
Step(op, on) == [op |-> op, on |-> on]
NoCharge == [last |-> 0, failures |-> 0]

Init ==
  /\ hardware = TRUE /\ stopped = FALSE /\ ac = FALSE /\ usb = TRUE
  /\ old = TRUE
  /\ todo = <<>> /\ unwinds = FALSE /\ pending = FALSE
  /\ call = [name |-> "none", charging |-> TRUE, found |-> <<TRUE, FALSE>>] /\ failed = FALSE
  /\ charge = NoCharge
  /\ app = [uid |-> 0, cached |-> 0, moved |-> FALSE] /\ answer = "none"

-----------------------------------------------------------------------------
(* What each method does, as the steps that replace it.                    *)

ClearPowerData ==
  << Step("usb", TRUE), Step("ac", TRUE), Step("waitClear", TRUE),
     Step("finally", TRUE), Step("reset", TRUE), Step("end", TRUE) >>

HardwareCommand(on) ==
  IF on THEN << Step("hardware", TRUE), Step("reset", TRUE) >>
  ELSE << Step("hardware", FALSE), Step("ac", FALSE), Step("usb", FALSE) >>

HardwareSetCharging(on) ==
  IF HasHardware THEN HardwareCommand(on) \o << Step("waitCharging", on) >>
  ELSE << Step("raise", TRUE) >>

DisableBatteryUpdates ==
  << Step("clear", TRUE), Step("ac", FALSE), Step("usb", FALSE),
     Step("waitCharging", FALSE) >>

(* Mutant: power from USB is reported instead of the updates resumed.      *)
EnableByReport == << Step("usb", TRUE) >>

EnableBatteryUpdates == << Step("reset", TRUE) >>

SetCharging(on) ==
  IF Charging = on THEN <<>>
  ELSE IF on THEN IF HasHardware THEN << Step("setHardware", TRUE) >>
                  ELSE EnableBatteryUpdates
  ELSE IF HasHardware THEN << Step("clear", TRUE), Step("setHardware", FALSE) >>
       ELSE DisableBatteryUpdates

(* Mutant: charging stays off while the level is read.                     *)
DischargedUnplugged(done) ==
  IF done THEN <<>> ELSE << Step("discharged", TRUE) >>

(* Charging is on while the level is read, and afterwards if it is low.    *)
Discharged(done) ==
  << Step("setHardware", TRUE) >> \o
  IF done THEN <<>> ELSE << Step("setHardware", FALSE), Step("discharged", TRUE) >>

Retried(op, on) == << Step(op, on), [op |-> "retry", on |-> on, of |-> op] >>

Calls ==
  [ power |-> Retried("setCharging", FALSE) \o << Step("body", TRUE) >> \o
              << Step("finally", TRUE) >> \o Retried("setCharging", TRUE) \o
              << Step("end", TRUE) >>,
    battery |-> Retried("disable", TRUE) \o << Step("body", TRUE) >> \o
              << Step("finally", TRUE) >> \o Retried("enable", TRUE) \o
              << Step("end", TRUE) >>,
    charge |-> Retried("setCharging", TRUE) \o << Step("charged", TRUE) >>,
    discharge |-> << Step("level", TRUE) >>,
    cool |-> Retried("enable", TRUE) \o << Step("cooled", TRUE) >>,
    usage |-> Retried("usage", TRUE),
    network |-> Retried("network", TRUE),
    gauge |-> Retried("gauge", TRUE) ]

(* The uid of a package is asked for once and then taken from the cache.   *)
GetNetworkData ==
  (IF app.cached = 0 THEN Retried("usage", TRUE) ELSE <<>>) \o << Step("stat", TRUE) >>

Expand(step) ==
  CASE step.op = "clear" -> ClearPowerData
    [] step.op = "setHardware" -> HardwareSetCharging(step.on)
    [] step.op = "setCharging" -> SetCharging(step.on)
    [] step.op = "disable" -> DisableBatteryUpdates
    [] step.op = "enable" -> EnableBatteryUpdates
    [] step.op = "network" -> GetNetworkData

Methods == {"clear", "setHardware", "setCharging", "disable", "enable", "network"}

-----------------------------------------------------------------------------
At(op) == todo # <<>> /\ ~unwinds /\ Head(todo).op = op
GoOn(steps) == todo' = steps \o Tail(todo) /\ UNCHANGED <<unwinds, pending, call, failed>>
Returns == GoOn(<<>>)
Raises == unwinds' = TRUE /\ todo' = Tail(todo) /\ UNCHANGED <<pending, call, failed>>

Begin(name) ==
  /\ todo = <<>> /\ ~unwinds
  /\ todo' = Calls[name]
  /\ call' = [name |-> name, charging |-> Charging /\ hardware, found |-> <<hardware, stopped>>]
  /\ old' = TRUE /\ failed' = FALSE /\ charge' = NoCharge /\ answer' = "none"
  /\ UNCHANGED <<device, unwinds, pending, app>>

EntersMethod ==
  /\ \E op \in Methods : At(op)
  /\ GoOn(Expand(Head(todo)))
  /\ UNCHANGED <<device, old, charge, package>>

(* What a command of the shell does to the device.                         *)
HardwareSwitched(on) ==
  hardware' = on /\ usb' = (IF stopped THEN usb ELSE on) /\ UNCHANGED <<stopped, ac>>
AcReported(on) == ac' = on /\ stopped' = TRUE /\ UNCHANGED <<hardware, usb>>
UsbReported(on) == usb' = on /\ stopped' = TRUE /\ UNCHANGED <<hardware, ac>>
UpdatesReset == stopped' = FALSE /\ ac' = FALSE /\ usb' = hardware /\ UNCHANGED hardware

Changes ==
  \/ At("hardware") /\ HardwareSwitched(Head(todo).on)
  \/ At("ac") /\ AcReported(Head(todo).on)
  \/ At("usb") /\ UsbReported(Head(todo).on)
  \/ At("reset") /\ UpdatesReset

Runs == Changes /\ Returns /\ UNCHANGED <<old, charge, package>>

CanFail == {"hardware", "ac", "usb", "reset", "waitClear", "waitCharging", "level",
            "body", "raise", "charged", "discharged", "cooled", "usage", "stat", "gauge"}

(* A command that raises may have had its effect.                          *)
Fails ==
  /\ \E op \in CanFail : At(op)
  /\ Changes \/ UNCHANGED device
  /\ Raises /\ UNCHANGED <<old, charge, package>>

WaitCharging ==
  /\ At("waitCharging") /\ Charging = Head(todo).on
  /\ Returns /\ UNCHANGED <<device, old, charge, package>>

(* batterystats is reset again and again until it shows no consumption.    *)
TestIfClear ==
  /\ At("waitClear")
  /\ Returns /\ old' = FALSE /\ UNCHANGED <<device, charge, package>>

Body == At("body") /\ Returns /\ UNCHANGED <<device, old, charge, package>>

(* A battery that is too low for it is not discharged.                     *)
DischargeDevice ==
  /\ At("level") /\ UNCHANGED <<device, old, charge, app>>
  /\ \/ Returns /\ answer' = "too low"
     \/ GoOn(<<Step("setHardware", FALSE), Step("discharged", TRUE)>>) /\ UNCHANGED answer

Discharges ==
  /\ At("discharged")
  /\ \E done \in BOOLEAN : GoOn(Discharged(done))
  /\ UNCHANGED <<device, old, charge, package>>

(* A Nexus 5 is discharged by one percent while it is too warm.            *)
Cools ==
  /\ At("cooled")
  /\ \E steps \in {<<>>, <<Step("cooled", TRUE)>>,
                   Calls.discharge \o <<Step("cooled", TRUE)>>} : GoOn(steps)
  /\ UNCHANGED <<device, old, charge, package>>

ChargeStatus(level) ==
  IF level > charge.last THEN [last |-> level, failures |-> 0]
  ELSE [charge EXCEPT !.failures = @ + 1]

(* device_charged: the wanted level is Full, an unreadable one counts so.  *)
Charges ==
  /\ At("charged") /\ UNCHANGED <<device, old, package>>
  /\ \E level \in 0..Full :
       /\ charge' = ChargeStatus(level)
       /\ IF level = Full THEN Returns
          ELSE IF charge'.failures >= MaxChargeError THEN Raises
          ELSE GoOn(<<Step("charged", TRUE)>>)

(* Leaving a try or a finally clause, with or without an exception.        *)
Marker ==
  /\ UNCHANGED <<device, old, charge, call, failed, package>>
  /\ \/ /\ At("retry")
        /\ todo' = Tail(todo) /\ UNCHANGED <<pending, unwinds>>
     \/ /\ At("finally")
        /\ todo' = Tail(todo) /\ pending' = FALSE /\ UNCHANGED unwinds
     \/ /\ At("end")
        /\ todo' = Tail(todo) /\ unwinds' = pending /\ pending' = FALSE

Unwind ==
  /\ unwinds /\ UNCHANGED <<device, old, charge, call, package>>
  /\ LET at == SelectInSeq(todo, LAMBDA s : s.op \in {"retry", "finally"}) IN
     \/ /\ at = 0
        /\ todo' = <<>> /\ unwinds' = FALSE /\ pending' = FALSE /\ failed' = TRUE
     \/ /\ at # 0
        /\ LET rest == SubSeq(todo, at + 1, Len(todo)) IN
           IF todo[at].op = "finally"
             THEN /\ todo' = rest /\ unwinds' = FALSE /\ pending' = TRUE
                  /\ UNCHANGED failed
             ELSE /\ \/ todo' = Retried(todo[at].of, todo[at].on) \o rest
                        /\ unwinds' = FALSE
                     \/ todo' = rest /\ unwinds' = TRUE
                  /\ UNCHANGED <<pending, failed>>

-----------------------------------------------------------------------------
(* dumpsys lists the uid of every package; another one than in the cache   *)
(* is taken for a package that is listed twice.                            *)
GetPowerData ==
  /\ At("usage") /\ UNCHANGED <<device, old, charge>>
  /\ IF 0 \in {app.uid, app.cached} \/ app.uid = app.cached
       THEN /\ Returns /\ UNCHANGED answer
            /\ app' = IF app.uid = 0 THEN app ELSE [app EXCEPT !.cached = app.uid]
       ELSE Raises /\ answer' = "multiple" /\ UNCHANGED app

(* A uid that has sent nothing has no file, and counts zero bytes.         *)
NetworkStat ==
  /\ At("stat") /\ Returns /\ UNCHANGED <<device, old, charge, app>>
  /\ answer' \in IF app.cached = 0 THEN {"nothing"}
                 ELSE {"zero", IF app.cached = app.uid THEN "own" ELSE "another's"}

SupportsFuelGauge == HasHardware /\ HasGauge

GetFuelGaugeChargeCounter ==
  /\ At("gauge") /\ UNCHANGED <<device, old, charge, package>>
  /\ IF SupportsFuelGauge THEN Returns ELSE Raises

(* The package is installed, or installed anew under another uid.          *)
Reinstall ==
  /\ app.uid < MaxUid
  /\ app' = [app EXCEPT !.uid = @ + 1, !.moved = app.cached # 0]
  /\ UNCHANGED <<device, old, control, charge, answer>>

(* DeviceUtils clears the caches of its clients with its own.              *)
ClearCache ==
  /\ todo = <<>> /\ app.cached # 0
  /\ app' = [app EXCEPT !.cached = 0, !.moved = FALSE]
  /\ UNCHANGED <<device, old, control, charge, answer>>

Next ==
  \/ \E name \in Names : Begin(name)
  \/ GetPowerData \/ NetworkStat \/ GetFuelGaugeChargeCounter \/ Reinstall \/ ClearCache
  \/ EntersMethod \/ Runs \/ Fails \/ WaitCharging \/ TestIfClear \/ Body
  \/ DischargeDevice \/ Discharges \/ Cools \/ Charges \/ Marker \/ Unwind

Spec == Init /\ [][Next]_vars
GoesOn == Charges \/ Unwind
FairSpec == Spec /\ WF_vars(GoesOn)

-----------------------------------------------------------------------------
TypeOK ==
  /\ hardware \in BOOLEAN /\ stopped \in BOOLEAN /\ ac \in BOOLEAN /\ usb \in BOOLEAN
  /\ old \in BOOLEAN /\ unwinds \in BOOLEAN /\ pending \in BOOLEAN /\ failed \in BOOLEAN
  /\ \A i \in DOMAIN todo : todo[i].on \in BOOLEAN
  /\ charge.last \in 0..Full /\ charge.failures \in 0..MaxChargeError

Succeeded(name) == todo = <<>> /\ ~unwinds /\ ~failed /\ call.name = name

(* A call that returns normally has charging on and the updates running,   *)
(* whatever earlier calls have left behind; only a discharge that was      *)
(* declined for a low battery leaves both as it found them.                *)
ChargingIsRestored ==
  /\ Succeeded("power") => hardware /\ ~stopped
  /\ Succeeded("discharge") =>
       (hardware /\ ~stopped) \/ (answer = "too low" /\ <<hardware, stopped>> = call.found)

(* The measured block runs on battery, and its power data hold nothing     *)
(* from before if the device was charging when the call began.             *)
BodyMeasuresFromZero ==
  At("body") => ~Charging /\ (call.charging => ~old)

(* "found multiple times with different UIDs", and bytes of another uid:   *)
(* only of a package that was reinstalled after its uid was cached.        *)
UidsAreOfPackage ==
  answer' \in {"multiple", "another's"} => answer' = answer \/ app.moved

WaitsForCharge == At("charged")
Over == todo = <<>>
=============================================================================
