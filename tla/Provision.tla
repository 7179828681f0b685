------------------------------ MODULE Provision ------------------------------
(***************************************************************************)
(* provision_devices: every device goes through the same steps in a thread *)
(* of its own; each step waits for the device to be up, carries out its    *)
(* commands and may reboot. A command that fails is overlooked by some     *)
(* steps and ends others, and then the device is blacklisted.              *)
(***************************************************************************)
EXTENDS Naturals, Sequences, FiniteSets

CONSTANTS
  Devices,
  Emulators,  \* those that are emulators
  MaxFaults   \* bound on the commands that fail

VARIABLES
  options,   \* what the script is asked to do
  kind,      \* of each device: its build, and whether it asks for a key
  device,    \* its state
  steps, ops,   \* the steps left, and the commands left of the current one
  tries, faults, blacklist,
  chosen,    \* the devices to be provisioned
  result

given == <<options, kind>>
vars == <<given, device, steps, ops, tries, faults, blacklist, chosen, result>>

Options == [wipe : BOOLEAN, emulators : BOOLEAN, network : BOOLEAN, remove : BOOLEAN, battery : BOOLEAN]
Kinds == [user : BOOLEAN, marshmallow : BOOLEAN, secure : BOOLEAN]

(* A command, and what its failure does: it ends the thread, only the      *)
(* step, or nothing.                                                       *)
Op(do) == [do |-> do, fails |-> "thread"]
OpOfStep(do) == [do |-> do, fails |-> "step"]
OpIgnored(do) == [do |-> do, fails |-> "nothing"]

WipeChromeData == <<OpOfStep("uninstall"), OpOfStep("rm")>>

(* Keys whose file is not found, be it that the question failed, are not   *)
(* written again.                                                          *)
WipeDevice(k) ==
  <<OpOfStep("root"), OpIgnored("find keys"), OpOfStep("read keys"), OpOfStep("wipe")>>
    \o (IF k.secure THEN <<OpOfStep("keys")>> ELSE <<>>)

Wipe(k) == IF k.user \/ k.marshmallow THEN WipeChromeData ELSE WipeDevice(k)

(* The file of the local properties is written and closed to other         *)
(* writers, without which it is as good as none; if either fails, this is  *)
(* only logged.                                                            *)
SetProperties(k) ==
  <<OpIgnored("root")>> \o (IF k.user THEN <<>> ELSE <<OpIgnored("local properties")>>)
    \o <<Op("settings"), Op("lock screen")>>

(* The network or the system browser is switched off.                      *)
DisableNetwork == <<Op("network")>>
WaitForCharge == <<Op("charge")>>
WaitForBatteryTemperature == <<OpIgnored("cool")>>

RemoveSystemApps(k) ==
  <<Op("root")>>
    \o (IF k.marshmallow THEN <<Op("verity"), Op("reboot"), Op("root")>> ELSE <<>>)
    \o <<Op("remount"), Op("stop"), Op("remove"), Op("start")>>

SetDate(k) == IF k.user THEN <<>> ELSE <<Op("date"), Op("root"), Op("time set")>>
CheckExternalStorage == <<Op("storage")>>

ProvisionStep(cmds, reboot) == <<<<Op("boot")>> \o cmds \o (IF reboot THEN <<Op("reboot")>> ELSE <<>>)>>

LaterSteps(o, k) ==
  (IF o.network THEN ProvisionStep(DisableNetwork, FALSE) ELSE <<>>)
    \o (IF o.battery THEN ProvisionStep(WaitForBatteryTemperature, FALSE)
                         \o ProvisionStep(WaitForCharge, FALSE) ELSE <<>>)
    \o (IF o.remove THEN ProvisionStep(RemoveSystemApps(k), FALSE) ELSE <<>>)
    \o ProvisionStep(SetDate(k), FALSE)
    \o ProvisionStep(CheckExternalStorage, FALSE)

StepsOf(o, k) ==
  (IF o.wipe THEN ProvisionStep(Wipe(k), TRUE) ELSE <<>>)
    \o ProvisionStep(SetProperties(k), ~o.emulators)
    \o LaterSteps(o, k)

Init ==
  /\ options \in {o \in Options : o.wipe => ~o.emulators}
  /\ kind \in [Devices -> Kinds]
  /\ device = [d \in Devices |->
       [reachable |-> TRUE, keys |-> kind[d].secure, found |-> FALSE, missed |-> {},
        root |-> FALSE, verity |-> kind[d].marshmallow,
        rw |-> FALSE, running |-> TRUE, props |-> FALSE, effective |-> FALSE, set |-> FALSE,
        date |-> FALSE, apps |-> TRUE]]
  /\ steps = [d \in Devices |-> StepsOf(options, kind[d])]
  /\ ops = [d \in Devices |-> <<>>]
  /\ tries = [d \in Devices |-> 0] /\ faults = 0 /\ blacklist = {}
  /\ chosen = {} /\ result = "starting"

-----------------------------------------------------------------------------
(* The devices that are attached, or the one of the environment whether    *)
(* attached or not, without the blacklisted ones.                          *)
HealthyDevices(attached, listed, serial) == (IF serial = {} THEN attached ELSE serial) \ listed

(* All devices that are asked for must be healthy.                         *)
Chooses(attached, listed, asked, serial) ==
  LET healthy == HealthyDevices(attached, listed, serial)
      wanted == IF asked = {} THEN healthy ELSE asked IN
  /\ Cardinality(serial) <= 1
  /\ blacklist' = listed
  /\ device' = [d \in Devices |-> [device[d] EXCEPT !.reachable = d \in attached]]
  /\ \/ healthy = {} /\ result' = "no devices" /\ chosen' = {}
     \/ healthy # {} /\ ~(asked \subseteq healthy) /\ result' = "unreachable" /\ chosen' = {}
     \/ /\ healthy # {} /\ asked \subseteq healthy /\ result' = "running"
        /\ chosen' = IF options.emulators THEN wanted \cap Emulators ELSE wanted

GetDevices ==
  /\ result = "starting"
  /\ \E attached, listed, asked, serial \in SUBSET Devices : Chooses(attached, listed, asked, serial)
  /\ UNCHANGED <<given, steps, ops, tries, faults>>

(* The local properties and the keys count from the next start of the      *)
(* device on; root, a remount and a stopped framework do not outlive it.   *)
Rebooted(d) ==
  [device[d] EXCEPT !.reachable = ~kind[d].secure \/ device[d].keys, !.root = FALSE, !.rw = FALSE,
                    !.running = TRUE, !.effective = device[d].props]

After(d, do) ==
  CASE do = "root" -> [device[d] EXCEPT !.root = TRUE]
    [] do = "wipe" -> [device[d] EXCEPT !.keys = FALSE, !.props = FALSE, !.set = FALSE]
    [] do = "find keys" -> [device[d] EXCEPT !.found = device[d].keys]
    [] do = "keys" -> [device[d] EXCEPT !.keys = device[d].keys \/ device[d].found]
    [] do = "local properties" -> [device[d] EXCEPT !.props = TRUE]
    [] do = "settings" -> [device[d] EXCEPT !.set = TRUE]
    [] do = "verity" -> [device[d] EXCEPT !.verity = FALSE]
    [] do = "reboot" -> Rebooted(d)
    [] do = "remount" -> [device[d] EXCEPT !.rw = TRUE]
    [] do = "stop" -> [device[d] EXCEPT !.running = FALSE]
    [] do = "remove" -> [device[d] EXCEPT !.apps = FALSE]
    [] do = "start" -> [device[d] EXCEPT !.running = TRUE]
    [] do = "date" -> [device[d] EXCEPT !.date = TRUE]
    [] OTHER -> device[d]

Possible(d, do) ==
  /\ device[d].reachable
  /\ do = "root" => ~kind[d].user
  /\ do = "remount" => device[d].root /\ ~device[d].verity
  /\ do = "remove" => device[d].rw

Running(d) == ops[d] # <<>>
Current(d) == Head(ops[d])

NextStep(d) ==
  /\ result = "running" /\ d \in chosen /\ ops[d] = <<>> /\ steps[d] # <<>>
  /\ ops' = [ops EXCEPT ![d] = Head(steps[d])]
  /\ steps' = [steps EXCEPT ![d] = Tail(@)]
  /\ UNCHANGED <<given, device, tries, faults, blacklist, chosen, result>>

Succeeds(d) ==
  /\ Running(d) /\ Possible(d, Current(d).do)
  /\ device' = [device EXCEPT ![d] = After(d, Current(d).do)]
  /\ ops' = [ops EXCEPT ![d] = Tail(@)]
  /\ tries' = [tries EXCEPT ![d] = 0]
  /\ UNCHANGED <<given, steps, faults, blacklist, chosen, result>>

(* The date read back differs: a second try.                               *)
DateMismatch(d) ==
  /\ Running(d) /\ Current(d).do = "date" /\ device[d].reachable /\ tries[d] = 0
  /\ tries' = [tries EXCEPT ![d] = 1]
  /\ UNCHANGED <<given, device, steps, ops, faults, blacklist, chosen, result>>

(* A device that is not up in time, or does not charge, is rebooted once;  *)
(* a storage that cannot be written is remounted once.                     *)
SecondChance(d) ==
  /\ Running(d) /\ Current(d).do \in {"boot", "charge", "storage"} /\ tries[d] = 0
  /\ device[d].reachable
  /\ tries' = [tries EXCEPT ![d] = 1]
  /\ device' = [device EXCEPT ![d] =
       IF Current(d).do = "storage" THEN [device[d] EXCEPT !.root = TRUE] ELSE Rebooted(d)]
  /\ UNCHANGED <<given, steps, ops, faults, blacklist, chosen, result>>

Blacklists(d, how) == blacklist' = blacklist \cup {d}

(* The commands whose failure may be overlooked, to the harm of a promise. *)
Noted == {"find keys", "wipe", "keys", "local properties"}

(* A command that failed may have had its effect.                          *)
LeavesBehind(d, do) ==
  \E left \in {device[d]} \cup (IF Possible(d, do) THEN {After(d, do)} ELSE {}) :
    device' = [device EXCEPT ![d] = [left EXCEPT !.missed = left.missed \cup ({do} \cap Noted)]]

(* Handlers within a step catch a command that failed, not one that timed  *)
(* out.                                                                    *)
Fails(d) ==
  /\ Running(d)
  /\ IF Possible(d, Current(d).do) THEN faults < MaxFaults /\ faults' = faults + 1
     ELSE UNCHANGED faults
  /\ \E how \in IF device[d].reachable THEN {"failed", "timeout"} ELSE {"timeout"} :
       CASE how = "failed" /\ Current(d).fails = "nothing" ->
              ops' = [ops EXCEPT ![d] = Tail(@)] /\ UNCHANGED <<steps, blacklist>>
         [] how = "failed" /\ Current(d).fails = "step" ->
              /\ ops' = [ops EXCEPT ![d] = <<Op("reboot")>>] /\ UNCHANGED <<steps, blacklist>>
         [] OTHER ->
              /\ ops' = [ops EXCEPT ![d] = <<>>] /\ steps' = [steps EXCEPT ![d] = <<>>]
              /\ Blacklists(d, how)
  /\ LeavesBehind(d, Current(d).do)
  /\ tries' = [tries EXCEPT ![d] = 0]
  /\ UNCHANGED <<given, chosen, result>>

Ended(d) == ops[d] = <<>> /\ steps[d] = <<>>

(* DeviceUtils has an __eq__ for serial numbers but the hash of an object: *)
(* no device is found among the keys of the blacklist.                     *)
Found == {}

ProvisionDevices ==
  /\ result = "running" /\ \A d \in chosen : Ended(d)
  /\ result' = IF \A d \in chosen : d \in Found THEN "no devices" ELSE "done"
  /\ UNCHANGED <<given, device, steps, ops, tries, faults, blacklist, chosen>>

Next ==
  \/ \E d \in Devices : NextStep(d) \/ Succeeds(d) \/ DateMismatch(d) \/ SecondChance(d) \/ Fails(d)
  \/ GetDevices \/ ProvisionDevices

Spec == Init /\ [][Next]_vars
FairSpec == Spec /\ WF_vars(Next)

-----------------------------------------------------------------------------
Reported == result \notin {"starting", "running"}
Good(d) == Reported /\ d \in chosen \ blacklist

(* A device that is not blacklisted answers, runs its framework and has    *)
(* what the options asked for.                                             *)
GoodIsReady ==
  \A d \in Devices : Good(d) =>
    /\ device[d].reachable /\ device[d].running /\ device[d].set
    /\ device[d].date \/ kind[d].user
    /\ options.remove => ~device[d].apps

(* Properties that were written to it are in effect: a reboot and no wipe  *)
(* came after them. They are written unless the build is a user's or the   *)
(* writing failed.                                                         *)
PropertiesAreInEffect ==
  \A d \in Devices : Good(d) /\ ~options.emulators =>
    /\ device[d].effective = device[d].props
    /\ device[d].effective \/ kind[d].user \/ "local properties" \in device[d].missed

(* "Wipes data from device, keeping only the adb_keys for authorization."  *)
(* They are lost only if the wipe itself failed, or what was to save them. *)
WipeKeepsKeys ==
  \A d \in Devices : Reported /\ kind[d].secure =>
    device[d].keys \/ device[d].missed \cap {"find keys", "wipe", "keys"} # {}

-----------------------------------------------------------------------------
(* What is inductive.                                                      *)
States == [reachable : BOOLEAN, keys : BOOLEAN, found : BOOLEAN, missed : SUBSET Noted,
           root : BOOLEAN, verity : BOOLEAN, rw : BOOLEAN,
           running : BOOLEAN, props : BOOLEAN, effective : BOOLEAN, set : BOOLEAN,
           date : BOOLEAN, apps : BOOLEAN]

(* A command that the device cannot do without ends the thread if it fails. *)
Needed == {"settings", "date", "remove", "stop", "start", "reboot"}
Names ==
  {"boot", "uninstall", "rm", "root", "find keys", "read keys", "wipe", "keys", "local properties",
   "settings", "lock screen", "network", "charge", "cool", "verity", "reboot", "remount", "stop", "remove",
   "start", "date", "time set", "storage"}
Commands == {c \in [do : Names, fails : {"thread", "step", "nothing"}] :
               c.do \in Needed => c.fails = "thread"}

TypeOK ==
  /\ options \in Options /\ kind \in [Devices -> Kinds] /\ device \in [Devices -> States]
  /\ steps \in [Devices -> Seq(Seq(Commands))] /\ ops \in [Devices -> Seq(Commands)]
  /\ blacklist \subseteq Devices /\ chosen \subseteq Devices

Has(cmds, do) == \E i \in 1..Len(cmds) : cmds[i].do = do
EndsInReboot(cmds) == cmds # <<>> /\ cmds[Len(cmds)].do = "reboot"
LaterHas(d, do) == \E i \in 1..Len(steps[d]) : Has(steps[d][i], do)
Left(d, do) == Has(ops[d], do) \/ LaterHas(d, do)

(* What is stopped is started, what counts from the next start on is       *)
(* followed by one, and a step that may be cut short has nothing needed.   *)
WellFormed(cmds, o) ==
  /\ \A i \in 1..Len(cmds) : cmds[i].do = "stop" => \E j \in (i + 1)..Len(cmds) : cmds[j].do = "start"
  /\ Has(cmds, "wipe") => EndsInReboot(cmds)
  /\ Has(cmds, "local properties") /\ ~o.emulators => EndsInReboot(cmds)
  /\ (\E i \in 1..Len(cmds) : cmds[i].fails = "step") =>
       \A do \in {"local properties", "settings", "date", "remove", "start"} : ~Has(cmds, do)

(* What a wipe removed is set again.                                       *)
SetsAll(cmds, k) == Has(cmds, "settings") /\ (k.user \/ Has(cmds, "local properties"))

StepsFit(d) ==
  /\ WellFormed(ops[d], options)
  /\ \A i \in 1..Len(steps[d]) : steps[d][i] # <<>> /\ WellFormed(steps[d][i], options)
  /\ Has(ops[d], "wipe") => \E j \in 1..Len(steps[d]) : SetsAll(steps[d][j], kind[d])
  /\ \A i \in 1..Len(steps[d]) : Has(steps[d][i], "wipe") =>
       \E j \in (i + 1)..Len(steps[d]) : SetsAll(steps[d][j], kind[d])

StepsAreWellFormed == \A d \in Devices : StepsFit(d)

(* Nothing that is still missing has been left out.                        *)
OnTheWay(d) ==
  /\ device[d].set \/ Left(d, "settings")
  /\ device[d].date \/ kind[d].user \/ Left(d, "date")
  /\ \/ device[d].props \/ kind[d].user
     \/ "local properties" \in device[d].missed \/ Left(d, "local properties")
  /\ options.remove => ~device[d].apps \/ Left(d, "remove")
  /\ device[d].running \/ Has(ops[d], "start")
  /\ device[d].reachable \/ ops[d] # <<>> \/ steps[d] # <<>>
  /\ device[d].reachable /\ kind[d].secure /\ ~device[d].keys =>
       EndsInReboot(ops[d]) /\ LaterHas(d, "settings")
  /\ ~options.emulators /\ device[d].props # device[d].effective => EndsInReboot(ops[d])

GoodAreOnTheWay == \A d \in Devices \ blacklist : OnTheWay(d)

WorkIsOfRun ==
  /\ result = "starting" => blacklist = {}
  /\ result = "starting" =>
       \A d \in Devices : ops[d] = <<>> /\ steps[d] # <<>> /\ (kind[d].secure => device[d].keys)
  /\ Reported => \A d \in Devices : ops[d] = <<>> /\ (d \in chosen => steps[d] = <<>>)
  /\ \A d \in Devices : ops[d] # <<>> => d \in chosen

IInv == TypeOK /\ StepsAreWellFormed /\ GoodAreOnTheWay /\ WorkIsOfRun
=============================================================================
