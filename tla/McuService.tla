----------------------------- MODULE McuService ------------------------------
(***************************************************************************)
(* The polling of the multimedia service (UsbService): the power state the *)
(* MCU announces, the fan and the clock limit that follow the temperature  *)
(* of the CPU.                                                             *)
(*                                                                         *)
(* Everything here runs on the main looper, one handler at a time.  Two    *)
(* runnables repeat: the poll (CheckCallStatus) and, every ten seconds,    *)
(* the temperature check (checkCpuTemp).  Commands reach the MCU after a   *)
(* delay; those of one check (at most 300 ms) arrive before the next one,  *)
(* while a press on the home screen puts its own command anywhere between. *)
(* Temperatures are compared only, so integers stand for the floats.       *)
(***************************************************************************)
EXTENDS Integers, TLAPS

CONSTANTS
  Temps,        \* what CpuManager.getTemperature can return; 51 and 0 stand
                \* for an empty line and for a sensor that cannot be read
  MaxRestarts   \* bound: how often the process is killed in a behaviour

ASSUME McuServiceAssumption ==
  /\ Temps \subseteq Int
  /\ {0, 51} \subseteq Temps
  /\ MaxRestarts \in Nat

None == "none"
Levels == 0..3           \* oth-tmp-000 .. oth-tmp-003
maxTemp == 68            \* the same in both power states
middleTemp == 60

VARIABLES
  (* statics of MyHandler and UsbService *)
  buffer,               \* the last frame: RUN, OFF, any other, or cleared
  threadStatus, swcDelay,
  minTemp, emergencyTemp, emergencyTempOn, criticalTemp,
  (* commands on their way *)
  pendingCheck,         \* of the temperature check, at most one; 0 is none
  pendingHand,          \* of the home screen
  pendingClock,         \* the clock limit a check has posted
  (* outside the process *)
  temp,                 \* what the sensor returns
  fan,                  \* the level the MCU was told last
  cpuMax,               \* scaling_max_freq: it survives the process
  touch,                \* the driver of the touch screen is loaded
  (* history *)
  overridden,           \* the home screen had the last word about the fan
  forgotten,            \* the process died while the clock was limited
  restarts

power == <<buffer, minTemp, emergencyTemp, touch>>
pending == <<pendingCheck, pendingHand, pendingClock>>
outside == <<fan, cpuMax, overridden, forgotten>>
vars == <<power, threadStatus, swcDelay, emergencyTempOn, criticalTemp,
          pending, temp, outside, restarts>>

PowerOK ==
  /\ buffer \in {"RUN", "OFF", "other", ""}
  /\ minTemp \in {52, 59} /\ emergencyTemp \in {74, 75}
  /\ touch \in BOOLEAN

FlagsOK ==
  /\ threadStatus \in BOOLEAN /\ swcDelay \in BOOLEAN
  /\ emergencyTempOn \in BOOLEAN /\ criticalTemp \in BOOLEAN
  /\ overridden \in BOOLEAN /\ forgotten \in BOOLEAN

PendingOK ==
  /\ pendingCheck \in Levels
  /\ pendingHand \subseteq {0, 1, 2}
  /\ pendingClock \in {"low", "high", None}

OutsideOK ==
  /\ temp \in Temps
  /\ fan \in Levels
  /\ cpuMax \in {"low", "high"}
  /\ restarts \in 0..MaxRestarts

TypeOK == PowerOK /\ FlagsOK /\ PendingOK /\ OutsideOK

-----------------------------------------------------------------------------
(* Start of the process.                                                   *)

(* Mutant: switched off, the emergency is still that of the running car. *)
OffProfileHalf == minTemp' = 59 /\ touch' = FALSE /\ UNCHANGED emergencyTemp

RunProfile == minTemp' = 52 /\ emergencyTemp' = 75 /\ touch' = TRUE
OffProfile == minTemp' = 59 /\ emergencyTemp' = 74 /\ touch' = FALSE

Init ==
  /\ buffer = ""
  /\ threadStatus = TRUE /\ swcDelay = FALSE
  /\ minTemp = 52 /\ emergencyTemp = 75 /\ touch = TRUE
  /\ emergencyTempOn = FALSE /\ criticalTemp = FALSE
  /\ pendingCheck = 0 /\ pendingHand = {} /\ pendingClock = None
  /\ temp \in Temps
  /\ fan = 0
  /\ cpuMax = "high"
  /\ overridden = FALSE /\ forgotten = FALSE
  /\ restarts = 0

(* The process dies with its looper; START_STICKY runs onCreate again.     *)
Killed ==
  /\ restarts < MaxRestarts
  /\ restarts' = restarts + 1
  /\ buffer' = ""
  /\ threadStatus' = TRUE /\ swcDelay' = FALSE
  /\ RunProfile
  /\ emergencyTempOn' = FALSE /\ criticalTemp' = FALSE
  /\ pendingCheck' = 0 /\ pendingHand' = {} /\ pendingClock' = None
  /\ forgotten' = (cpuMax = "low")
  /\ UNCHANGED <<temp, fan, cpuMax, overridden>>

-----------------------------------------------------------------------------
(* The one-slot mailbox of frames and the poll that reads it.              *)

Frame(f) ==
  /\ buffer' = f
  /\ UNCHANGED <<minTemp, emergencyTemp, touch, threadStatus, swcDelay,
                 emergencyTempOn, criticalTemp, pending, temp, outside,
                 restarts>>

(* checkMCUstate.  A frame that another one overwrote is never obeyed. *)
CheckMCUstate ==
  \/ /\ buffer = "RUN"
     /\ RunProfile
     /\ threadStatus' = TRUE
     /\ buffer' = ""
  \/ /\ buffer = "OFF"
     /\ OffProfile
     /\ threadStatus' = FALSE
     /\ buffer' = ""
  \/ /\ buffer \notin {"RUN", "OFF"}
     /\ UNCHANGED <<power, threadStatus>>

Poll ==
  /\ IF swcDelay THEN UNCHANGED <<power, threadStatus>> ELSE CheckMCUstate
  /\ UNCHANGED <<swcDelay, emergencyTempOn, criticalTemp, pending, temp,
                 outside, restarts>>

(* Others write the two gates: a key of the steering wheel stops the poll  *)
(* of the calls (OPT6, OPT7), the dialler and the pairing start it again;  *)
(* a running command and the search of stations hold the service.          *)
ThreadStatus(b) ==
  /\ threadStatus' = b
  /\ UNCHANGED <<power, swcDelay, emergencyTempOn, criticalTemp, pending, temp,
                 outside, restarts>>

SwcDelay(b) ==
  /\ swcDelay' = b
  /\ UNCHANGED <<power, threadStatus, emergencyTempOn, criticalTemp, pending,
                 temp, outside, restarts>>

TempChanges(t) ==
  /\ temp' = t
  /\ UNCHANGED <<power, threadStatus, swcDelay, emergencyTempOn, criticalTemp,
                 pending, outside, restarts>>

-----------------------------------------------------------------------------
(* checkCpuTemp.  The answer to the first condition that holds is sent     *)
(* with a delay; "off" is sent at once.                                    *)

Emergency == temp > emergencyTemp

(* Mutant: the level follows the temperature while the emergency is on. *)
BetweenUnlatched(t) == temp > t /\ ~Emergency /\ threadStatus

Between(t) == temp > t /\ ~Emergency /\ ~emergencyTempOn /\ threadStatus

Full == Between(maxTemp)
Half == Between(middleTemp) /\ ~Full

(* Mutant: too cool a limit, the fan of a cold CPU is not switched off. *)
ColdLate == temp < minTemp - 40 /\ ~Emergency /\ ~Full /\ ~Half

Cold == temp < minTemp /\ ~Emergency /\ ~Full /\ ~Half

FanCommand ==
  \/ /\ Emergency
     /\ emergencyTempOn' = TRUE /\ pendingCheck' = 3
     /\ UNCHANGED <<fan, overridden>>
  \/ /\ Full
     /\ pendingCheck' = 2
     /\ UNCHANGED <<emergencyTempOn, fan, overridden>>
  \/ /\ Half
     /\ pendingCheck' = 1
     /\ UNCHANGED <<emergencyTempOn, fan, overridden>>
  \/ /\ Cold
     /\ emergencyTempOn' = FALSE /\ fan' = 0 /\ overridden' = FALSE
     /\ UNCHANGED pendingCheck
  \/ /\ ~Emergency /\ ~Full /\ ~Half /\ ~Cold
     /\ UNCHANGED <<emergencyTempOn, pendingCheck, fan, overridden>>

ClockCommand ==
  pendingClock' = IF temp > 80 /\ ~criticalTemp THEN "low"
                  ELSE IF Cold /\ criticalTemp THEN "high"
                  ELSE pendingClock

CheckCpuTemp ==
  /\ pendingCheck = 0 /\ pendingClock = None
  /\ IF swcDelay
       THEN UNCHANGED <<emergencyTempOn, pendingCheck, pendingClock, fan,
                        overridden>>
       ELSE FanCommand /\ ClockCommand
  /\ UNCHANGED <<power, threadStatus, swcDelay, criticalTemp, pendingHand,
                 temp, cpuMax, forgotten, restarts>>

(* Mutant: the limit is forgotten, it is only written. *)
ClockIsSetOnly ==
  /\ pendingClock # None
  /\ cpuMax' = pendingClock
  /\ forgotten' = FALSE
  /\ pendingClock' = None
  /\ UNCHANGED <<power, threadStatus, swcDelay, emergencyTempOn, criticalTemp,
                 pendingCheck, pendingHand, temp, fan, overridden, restarts>>

(* The posted runnable writes the limit and remembers it. *)
ClockIsSet ==
  /\ pendingClock # None
  /\ cpuMax' = pendingClock
  /\ criticalTemp' = (pendingClock = "low")
  /\ forgotten' = FALSE
  /\ pendingClock' = None
  /\ UNCHANGED <<power, threadStatus, swcDelay, emergencyTempOn, pendingCheck,
                 pendingHand, temp, fan, overridden, restarts>>

CheckArrives ==
  /\ pendingCheck # 0
  /\ fan' = pendingCheck
  /\ overridden' = FALSE
  /\ pendingCheck' = 0
  /\ UNCHANGED <<power, threadStatus, swcDelay, emergencyTempOn, criticalTemp,
                 pendingHand, pendingClock, temp, cpuMax, forgotten, restarts>>

-----------------------------------------------------------------------------
(* The home screen: its "steering wheel" and "audio settings" buttons send *)
(* a fan level, and so does its start with a hot CPU.                      *)

HomePress(l) ==
  /\ l \in {0, 2} \/ (l = 1 /\ temp > 79)
  /\ pendingHand' = pendingHand \cup {l}
  /\ UNCHANGED <<power, threadStatus, swcDelay, emergencyTempOn, criticalTemp,
                 pendingCheck, pendingClock, temp, outside, restarts>>

HomeArrives(l) ==
  /\ l \in pendingHand
  /\ fan' = l
  /\ overridden' = TRUE
  /\ pendingHand' = pendingHand \ {l}
  /\ UNCHANGED <<power, threadStatus, swcDelay, emergencyTempOn, criticalTemp,
                 pendingCheck, pendingClock, temp, cpuMax, forgotten, restarts>>

-----------------------------------------------------------------------------
Environment ==
  \/ \E f \in {"RUN", "OFF", "other"} : Frame(f)
  \/ \E b \in BOOLEAN : ThreadStatus(b) \/ SwcDelay(b)
  \/ \E t \in Temps : TempChanges(t)
  \/ \E l \in {0, 1, 2} : HomePress(l)

Looper ==
  \/ Poll \/ CheckCpuTemp \/ ClockIsSet \/ CheckArrives
  \/ \E l \in {0, 1, 2} : HomeArrives(l)

Next == Environment \/ Looper \/ Killed

Spec == Init /\ [][Next]_vars

(* Repeated and posted runnables run; nobody owes frames or presses. *)
FairSpec ==
  /\ Spec
  /\ WF_vars(Poll) /\ WF_vars(CheckCpuTemp)
  /\ WF_vars(ClockIsSet) /\ WF_vars(CheckArrives)

-----------------------------------------------------------------------------
(* The two power states are switched as a whole (checkMCUstate), and a     *)
(* restart comes back in the first: a parked car whose touch screen is     *)
(* unloaded always has the parked thresholds, and only then.               *)
ProfileIsWhole ==
  /\ touch <=> minTemp = 52
  /\ touch <=> emergencyTemp = 75

(* While the emergency is on, the fan runs at full level: between the      *)
(* check that saw it and the first cold reading no other check may weaken  *)
(* it, whatever the power state does to the thresholds meanwhile.  Only    *)
(* the home screen can, until the next check that is hot again.            *)
EmergencyRunsFull ==
  emergencyTempOn /\ ~overridden /\ pendingCheck = 0 => fan = 3

(* checkCpuTemp knows whether the clock is limited, although limit and     *)
(* flag are written later than the check that asked for them; only the     *)
(* death of the process makes it forget.                                   *)
LimitIsKnown == ~forgotten => (criticalTemp <=> cpuMax = "low")

(* The fan follows the heat. A CPU that stays hot is cooled at full level  *)
(* again and again, in every power state and whatever the home screen      *)
(* sends; one that stays cold gets its silence and, once the service knows *)
(* of the limit, its clock back.                                           *)
HeatIsAnswered ==
  /\ <>[](~swcDelay /\ temp > 75) => []<>(fan = 3)
  /\ <>[](~swcDelay /\ temp < 52) => []<>(fan = 0) /\ <>[](~criticalTemp)

-------------------------------------------------------------------------------
(***************************************************************************)
(* Theorems about the polling, for every set of readings.                  *)
(***************************************************************************)
(* A weaker level can be on its way only when no emergency is known: the   *)
(* check that would have sent it saw none, and no other check runs before  *)
(* it arrives.                                                             *)
OnItsWay == emergencyTempOn => pendingCheck \in {0, 3}

IInv == TypeOK /\ ProfileIsWhole /\ EmergencyRunsFull /\ LimitIsKnown /\ OnItsWay

LEMMA InitIInv == Init => IInv
<1>. SUFFICES ASSUME Init PROVE IInv
  OBVIOUS
<1>1. PowerOK /\ FlagsOK
  BY DEF Init, PowerOK, FlagsOK
<1>2. PendingOK
  <2>1. pendingCheck = 0 /\ pendingClock = None
    BY DEF Init
  <2>2. pendingHand \subseteq {0, 1, 2}
    BY Zenon DEF Init
  <2>. QED
    BY <2>1, <2>2 DEF PendingOK, Levels, None
<1>3. OutsideOK
  <2>1. temp \in Temps /\ fan = 0 /\ cpuMax = "high" /\ restarts = 0
    BY DEF Init
  <2>. QED
    BY <2>1, McuServiceAssumption
    DEF McuServiceAssumption, OutsideOK, Levels
<1>4. ProfileIsWhole /\ EmergencyRunsFull /\ LimitIsKnown /\ OnItsWay
  BY DEF Init, ProfileIsWhole, EmergencyRunsFull, LimitIsKnown, OnItsWay
<1>. QED
  BY <1>1, <1>2, <1>3, <1>4 DEF IInv, TypeOK

(* The power state is written by the poll, a frame and a new process.      *)
LEMMA StepPower == PowerOK /\ [Next]_vars => PowerOK'
<1>. SUFFICES ASSUME PowerOK, [Next]_vars PROVE PowerOK'
  OBVIOUS
<1>. USE DEF PowerOK
<1>1. CASE Killed
  BY <1>1 DEF Killed, RunProfile
<1>2. ASSUME NEW f \in {"RUN", "OFF", "other"}, Frame(f)
      PROVE  PowerOK'
  BY <1>2 DEF Frame
<1>3. CASE Poll
  <2>1. CASE UNCHANGED power
    BY <2>1 DEF power
  <2>2. CASE RunProfile /\ buffer' = ""
    BY <2>2 DEF RunProfile
  <2>3. CASE OffProfile /\ buffer' = ""
    BY <2>3 DEF OffProfile
  <2>. QED
    BY <1>3, <2>1, <2>2, <2>3 DEF Poll, CheckMCUstate
<1>4. CASE UNCHANGED power
  BY <1>4 DEF power
<1>. QED
  BY <1>1, <1>2, <1>3, <1>4
  DEF Next, Environment, Looper, ThreadStatus, SwcDelay, TempChanges,
      HomePress, HomeArrives, CheckCpuTemp, ClockIsSet, CheckArrives, vars

LEMMA StepFlags == FlagsOK /\ [Next]_vars => FlagsOK'
<1>. SUFFICES ASSUME FlagsOK, [Next]_vars PROVE FlagsOK'
  OBVIOUS
<1>. USE DEF FlagsOK
<1>1. CASE Killed
  BY <1>1 DEF Killed
<1>2. ASSUME NEW b \in BOOLEAN, ThreadStatus(b) \/ SwcDelay(b)
      PROVE  FlagsOK'
  BY <1>2 DEF ThreadStatus, SwcDelay, outside
<1>3. CASE Poll
  BY <1>3 DEF Poll, CheckMCUstate, outside
<1>4. CASE CheckCpuTemp
  BY <1>4 DEF CheckCpuTemp, FanCommand
<1>5. CASE ClockIsSet
  BY <1>5 DEF ClockIsSet
<1>6. CASE CheckArrives
  BY <1>6 DEF CheckArrives
<1>7. ASSUME NEW l \in {0, 1, 2}, HomeArrives(l)
      PROVE  FlagsOK'
  BY <1>7 DEF HomeArrives
<1>8. CASE UNCHANGED <<threadStatus, swcDelay, emergencyTempOn, criticalTemp,
                       overridden, forgotten>>
  BY <1>8
<1>. QED
  BY <1>1, <1>2, <1>3, <1>4, <1>5, <1>6, <1>7, <1>8
  DEF Next, Environment, Looper, Frame, TempChanges, HomePress, vars, outside

LEMMA StepPending == PendingOK /\ [Next]_vars => PendingOK'
<1>. SUFFICES ASSUME PendingOK, [Next]_vars PROVE PendingOK'
  OBVIOUS
<1>. USE DEF PendingOK, Levels, None
<1>1. CASE Killed
  <2>1. pendingCheck' = 0 /\ pendingClock' = None
    BY <1>1 DEF Killed
  <2>2. (pendingHand \subseteq {0, 1, 2})'
    BY Zenon, <1>1 DEF Killed
  <2>. QED
    BY <2>1, <2>2
<1>2. CASE CheckCpuTemp
  <2>1. pendingCheck' \in Levels
    BY <1>2 DEF CheckCpuTemp, FanCommand
  <2>2. pendingClock' \in {"low", "high", None}
    BY <1>2 DEF CheckCpuTemp, ClockCommand
  <2>. QED
    BY <1>2, <2>1, <2>2 DEF CheckCpuTemp
<1>3. CASE ClockIsSet
  BY <1>3 DEF ClockIsSet
<1>4. CASE CheckArrives
  BY <1>4 DEF CheckArrives
<1>5. ASSUME NEW l \in {0, 1, 2}, HomePress(l) \/ HomeArrives(l)
      PROVE  PendingOK'
  BY <1>5 DEF HomePress, HomeArrives
<1>6. CASE UNCHANGED pending
  BY <1>6 DEF pending
<1>. QED
  BY <1>1, <1>2, <1>3, <1>4, <1>5, <1>6
  DEF Next, Environment, Looper, Frame, ThreadStatus, SwcDelay, TempChanges,
      Poll, vars

LEMMA StepOutside == PendingOK /\ OutsideOK /\ [Next]_vars => OutsideOK'
<1>. SUFFICES ASSUME PendingOK, OutsideOK, [Next]_vars PROVE OutsideOK'
  OBVIOUS
<1>. USE DEF OutsideOK, Levels
<1>1. CASE Killed
  <2>1. /\ restarts < MaxRestarts /\ restarts' = restarts + 1
        /\ UNCHANGED <<temp, fan, cpuMax>>
    BY <1>1 DEF Killed
  <2>. QED
    BY <2>1, McuServiceAssumption DEF McuServiceAssumption
<1>2. ASSUME NEW t \in Temps, TempChanges(t)
      PROVE  OutsideOK'
  BY <1>2 DEF TempChanges, outside
<1>3. CASE CheckCpuTemp
  BY <1>3 DEF CheckCpuTemp, FanCommand
<1>4. CASE ClockIsSet
  BY <1>4 DEF ClockIsSet, PendingOK, None
<1>5. CASE CheckArrives
  BY <1>5 DEF CheckArrives, PendingOK
<1>6. ASSUME NEW l \in {0, 1, 2}, HomeArrives(l)
      PROVE  OutsideOK'
  BY <1>6 DEF HomeArrives
<1>7. CASE UNCHANGED <<temp, fan, cpuMax, restarts>>
  BY <1>7
<1>. QED
  BY <1>1, <1>2, <1>3, <1>4, <1>5, <1>6, <1>7
  DEF Next, Environment, Looper, Frame, ThreadStatus, SwcDelay, HomePress,
      Poll, vars, outside

LEMMA StepType == TypeOK /\ [Next]_vars => TypeOK'
  BY StepPower, StepFlags, StepPending, StepOutside DEF TypeOK

(* Every step that leaves the power state alone, and the three that do not *)
LEMMA StepProfile == IInv /\ [Next]_vars => ProfileIsWhole'
<1>. SUFFICES ASSUME IInv, [Next]_vars PROVE ProfileIsWhole'
  OBVIOUS
<1>. USE DEF IInv, ProfileIsWhole
<1>1. CASE Killed
  BY <1>1 DEF Killed, RunProfile
<1>2. CASE Poll
  <2>1. CASE UNCHANGED power
    BY <2>1 DEF power
  <2>2. CASE RunProfile
    BY <2>2 DEF RunProfile
  <2>3. CASE OffProfile
    BY <2>3 DEF OffProfile
  <2>. QED
    BY <1>2, <2>1, <2>2, <2>3 DEF Poll, CheckMCUstate
<1>3. CASE UNCHANGED <<minTemp, emergencyTemp, touch>>
  BY <1>3
<1>. QED
  BY <1>1, <1>2, <1>3
  DEF Next, Environment, Looper, Frame, ThreadStatus, SwcDelay, TempChanges,
      HomePress, HomeArrives, CheckCpuTemp, ClockIsSet, CheckArrives, vars,
      power

(* The latch, the command on its way and the level of the fan move         *)
(* together only in a check; an arrival can then only bring full level.    *)
LEMMA StepEmergency == IInv /\ [Next]_vars => (EmergencyRunsFull /\ OnItsWay)'
<1>. SUFFICES ASSUME IInv, [Next]_vars PROVE (EmergencyRunsFull /\ OnItsWay)'
  OBVIOUS
<1>. USE DEF IInv, EmergencyRunsFull, OnItsWay
<1>1. CASE Killed
  BY <1>1 DEF Killed
<1>2. CASE CheckCpuTemp
  <2>1. CASE UNCHANGED <<emergencyTempOn, pendingCheck, fan, overridden>>
    BY <2>1
  <2>2. CASE FanCommand
    BY <1>2, <2>2 DEF CheckCpuTemp, FanCommand, Full, Half, Between
  <2>. QED
    BY <1>2, <2>1, <2>2 DEF CheckCpuTemp
<1>3. CASE CheckArrives
  BY <1>3 DEF CheckArrives
<1>4. ASSUME NEW l \in {0, 1, 2}, HomeArrives(l)
      PROVE  (EmergencyRunsFull /\ OnItsWay)'
  BY <1>4 DEF HomeArrives
<1>5. CASE UNCHANGED <<emergencyTempOn, pendingCheck, fan, overridden>>
  BY <1>5
<1>. QED
  BY <1>1, <1>2, <1>3, <1>4, <1>5
  DEF Next, Environment, Looper, Frame, ThreadStatus, SwcDelay, TempChanges,
      HomePress, Poll, ClockIsSet, vars, pending, outside

LEMMA StepLimit == IInv /\ [Next]_vars => LimitIsKnown'
<1>. SUFFICES ASSUME IInv, [Next]_vars PROVE LimitIsKnown'
  OBVIOUS
<1>. USE DEF IInv, LimitIsKnown
<1>1. CASE Killed
  BY <1>1 DEF Killed
<1>2. CASE ClockIsSet
  BY <1>2 DEF ClockIsSet
<1>3. CASE UNCHANGED <<criticalTemp, cpuMax, forgotten>>
  BY <1>3
<1>. QED
  BY <1>1, <1>2, <1>3
  DEF Next, Environment, Looper, Frame, ThreadStatus, SwcDelay, TempChanges,
      HomePress, HomeArrives, Poll, CheckCpuTemp, CheckArrives, vars, outside

LEMMA StepIInv == IInv /\ [Next]_vars => IInv'
  BY StepType, StepProfile, StepEmergency, StepLimit DEF IInv

LEMMA AlwaysIInv == Spec => []IInv
  BY InitIInv, StepIInv, PTL DEF Spec

-----------------------------------------------------------------------------
(* The statics of the service, the commands on their way and the settings  *)
(* outside the process keep their types through every poll, check, press   *)
(* and death of the process.                                               *)
THEOREM ServiceTypes == Spec => []TypeOK
<1>1. IInv => TypeOK
  BY DEF IInv
<1>. QED
  BY <1>1, AlwaysIInv, PTL

(* checkMCUstate switches thresholds and touch driver as a whole, and a    *)
(* restart of UsbService does so too.                                      *)
THEOREM PowerStateIsWhole == Spec => []ProfileIsWhole
<1>1. IInv => ProfileIsWhole
  BY DEF IInv
<1>. QED
  BY <1>1, AlwaysIInv, PTL

(* checkCpuTemp keeps the fan at full level from the emergency to the      *)
(* first cold reading, unless the home screen intervenes.                  *)
THEOREM FullFanInEmergency == Spec => []EmergencyRunsFull
<1>1. IInv => EmergencyRunsFull
  BY DEF IInv
<1>. QED
  BY <1>1, AlwaysIInv, PTL

(* The flag criticalTemp of checkCpuTemp is the clock limit of the CPU     *)
(* until a death of the process separates them.                            *)
THEOREM LimitFlagIsRight == Spec => []LimitIsKnown
<1>1. IInv => LimitIsKnown
  BY DEF IInv
<1>. QED
  BY <1>1, AlwaysIInv, PTL

=============================================================================
