---------------------------- MODULE SteeringWheel ----------------------------
(***************************************************************************)
(* The steering-wheel keys and the touch-button panel of the head unit.    *)
(*                                                                         *)
(* Two threads share the statics of MyHandler without a lock:              *)
(*   - the main looper, which decodes the frames of the MCU, runs the      *)
(*     teaching activity (SteeringWheelContorllerActivity and its          *)
(*     presenter) and owns every write to the table of learned values;     *)
(*   - the dispatcher, which wakes every 10 ms and, unless the teaching    *)
(*     activity is running, executes the panel press and the option whose  *)
(*     learned value is near the last reading.                             *)
(* A step of this module is one access to a shared static, so that every   *)
(* interleaving of the two threads is a behaviour.  The effect of a        *)
(* command on other components (volume, player, calls) is not state of     *)
(* this one: the history variable firedFor only counts the commands.       *)
(***************************************************************************)
EXTENDS Integers

CONSTANTS
  NumOptions,   \* teachable rows of the table, OPT0 .. OPT13 without OPT9
  Readings,     \* the readings (raw value / 10) that a key can produce
  Presses,      \* the codes of the touch-button panel
  NULL,         \* the value of an option that learned nothing
  MaxRestarts   \* bound: how often the process is killed in a behaviour

ASSUME SteeringWheelAssumption ==
  /\ NumOptions \in Nat \ {0}
  /\ Readings \subseteq 0..359
  /\ Presses \subseteq Nat
  /\ 999 \notin Presses
  /\ NULL \notin Int
  /\ MaxRestarts \in Nat

Idle == 999             \* "nothing pressed", in both mailboxes
Tolerance == 3
Options == 1..NumOptions
Values == Readings \cup {Idle}

VARIABLES
  (* statics of MyHandler and the presenter *)
  steeringWheelData, steeringWheelDataStatus, touchBtnPanelData,
  activityIsRun,          \* SteeringWheelControllerActivityIsRun
  swcDelay,               \* UsbService.swcDelay
  learned,                \* the table in swc.db: it survives the process
  (* main looper *)
  ui,                     \* life cycle of the teaching activity
  finger,                 \* a finger is down on an option
  mpc, mopt, min,         \* where the running click handler is, and its locals
  (* dispatcher thread *)
  dpc, row, options,      \* where it is, its loop index, the list it loaded
  (* history *)
  held,                   \* the reading of the last swc frame, NULL once released
  calm,                   \* the dispatcher slept when the last touch began
  firedFor,               \* commands matched since the last reading
  pressRuns,              \* executions since the last panel press
  restarts

threadVars == <<mpc, mopt, min, dpc, row, options>>
uiVars == <<ui, finger, activityIsRun>>
history == <<held, calm, firedFor, pressRuns, restarts>>
vars == <<steeringWheelData, steeringWheelDataStatus, touchBtnPanelData,
          swcDelay, learned, uiVars, threadVars, history>>

mainVars == <<mpc, mopt, min>>
dispatcherVars == <<dpc, row, options>>

StaticsOK ==
  /\ steeringWheelData \in Values
  /\ steeringWheelDataStatus \in BOOLEAN
  /\ touchBtnPanelData \in Presses \cup {Idle}
  /\ swcDelay \in BOOLEAN
  /\ learned \in [Options -> Values \cup {NULL}]

MainOK ==
  /\ ui \in {"closed", "resumed", "paused"}
  /\ finger \in BOOLEAN
  /\ activityIsRun \in BOOLEAN
  /\ mpc \in {"loop", "max", "lower", "upper", "notIdle", "set", "refresh"}
  /\ mopt \in Options
  /\ min \in Int

DispatcherOK ==
  /\ dpc \in {"sleep", "panel", "switch", "clear", "load",
              "low", "high", "act", "reset"}
  /\ row \in 1..(NumOptions + 1)
  /\ dpc \in {"high", "act", "reset"} => row \in Options /\ options[row] # NULL
  /\ options \in [Options -> Values \cup {NULL}]

HistoryOK ==
  /\ held \in Readings \cup {NULL}
  /\ calm \in BOOLEAN
  /\ firedFor \in Nat
  /\ pressRuns \in Nat
  /\ restarts \in 0..MaxRestarts

TypeOK == StaticsOK /\ MainOK /\ DispatcherOK /\ HistoryOK

-----------------------------------------------------------------------------
(* Start of the process: UsbService.onCreate and the initial statics.      *)

NothingLearned == [o \in Options |-> NULL]

Init ==
  /\ steeringWheelData = Idle
  /\ steeringWheelDataStatus = FALSE
  /\ touchBtnPanelData = Idle
  /\ activityIsRun = FALSE
  /\ swcDelay = FALSE
  /\ ui = "closed"
  /\ finger = FALSE
  /\ mpc = "loop" /\ mopt = 1 /\ min = 0
  /\ dpc = "sleep" /\ row = 1 /\ options = NothingLearned
  /\ held = NULL /\ calm = TRUE /\ firedFor = 0 /\ pressRuns = 0
  /\ learned = NothingLearned
  /\ restarts = 0

(* The process dies and START_STICKY brings the service back: the statics  *)
(* start again, the table stays.                                           *)
ProcessStartsAgain ==
  /\ steeringWheelData' = Idle
  /\ steeringWheelDataStatus' = FALSE
  /\ touchBtnPanelData' = Idle
  /\ activityIsRun' = FALSE
  /\ swcDelay' = FALSE
  /\ ui' = "closed"
  /\ finger' = FALSE
  /\ mpc' = "loop" /\ mopt' = 1 /\ min' = 0
  /\ dpc' = "sleep" /\ row' = 1 /\ options' = NothingLearned
  /\ held' = NULL /\ calm' = TRUE /\ firedFor' = 0 /\ pressRuns' = 0
  /\ UNCHANGED learned

(* The system kills it. *)
Killed ==
  /\ restarts < MaxRestarts
  /\ restarts' = restarts + 1
  /\ ProcessStartsAgain

-----------------------------------------------------------------------------
(* Frames of the MCU, handled on the main looper (MyHandler.handleMessage) *)

MainIsFree == mpc = "loop"

(* "swc-NNNN" below 3600: a key is pressed. *)
FrameReading(r) ==
  /\ MainIsFree
  /\ steeringWheelDataStatus' = TRUE
  /\ steeringWheelData' = r
  /\ held' = r
  /\ firedFor' = 0
  /\ UNCHANGED <<touchBtnPanelData, swcDelay, learned, uiVars, threadVars,
                 calm, pressRuns, restarts>>

(* Mutant: a frame without a reading does not drop the status. *)
FrameNoReadingKeepsStatus ==
  /\ MainIsFree
  /\ held' = NULL
  /\ UNCHANGED <<steeringWheelData, steeringWheelDataStatus, touchBtnPanelData,
                 swcDelay, learned, uiVars, threadVars, calm, firedFor,
                 pressRuns, restarts>>

(* "swc-NNNN" from 3600 on, or a frame that does not parse: the reading    *)
(* stays in its mailbox, only its status is dropped.                       *)
FrameNoReading ==
  /\ MainIsFree
  /\ steeringWheelDataStatus' = FALSE
  /\ held' = NULL
  /\ UNCHANGED <<steeringWheelData, touchBtnPanelData, swcDelay, learned,
                 uiVars, threadVars, calm, firedFor, pressRuns, restarts>>

(* "tbn-N": a button of the panel. *)
FramePress(p) ==
  /\ MainIsFree
  /\ touchBtnPanelData' = p
  /\ pressRuns' = 0
  /\ UNCHANGED <<steeringWheelData, steeringWheelDataStatus, swcDelay, learned,
                 uiVars, threadVars, held, calm, firedFor, restarts>>

-----------------------------------------------------------------------------
(* Life cycle of the teaching activity.                                    *)

ActivityStarts ==
  /\ MainIsFree
  /\ ui \in {"closed", "paused"}
  /\ ui' = "resumed"
  /\ activityIsRun' = TRUE
  /\ UNCHANGED <<steeringWheelData, steeringWheelDataStatus, touchBtnPanelData,
                 swcDelay, learned, finger, threadVars, history>>

(* onPause, onBackPressed (to "paused") and then onStop, onDestroy.        *)
ActivityLeaves(to) ==
  /\ MainIsFree
  /\ <<ui, to>> \in {<<"resumed", "paused">>, <<"paused", "closed">>}
  /\ ui' = to
  /\ finger' = FALSE
  /\ activityIsRun' = FALSE
  /\ steeringWheelData' = Idle
  /\ UNCHANGED <<steeringWheelDataStatus, touchBtnPanelData, swcDelay, learned,
                 threadVars, history>>

-----------------------------------------------------------------------------
(* Teaching: clickedOnOptionsTouchDown reads the reading's mailbox six     *)
(* times while a pass of the dispatcher may still write it.                *)

InWindow(v, r) == v - Tolerance <= r /\ r <= v + Tolerance

(* The locals of a handler die when it returns to the looper. *)
MainGoesTo(pc) ==
  /\ mpc' = pc
  /\ IF pc = "loop" THEN mopt' = 1 /\ min' = 0 ELSE UNCHANGED <<mopt, min>>

mainReads == <<steeringWheelData, steeringWheelDataStatus, touchBtnPanelData,
               swcDelay, uiVars, dispatcherVars, held, firedFor, pressRuns,
               restarts>>

(* The finger goes down: without a status the click is refused, else the   *)
(* first read gives the lower end of the range to query.                   *)
TouchDown(o) ==
  /\ MainIsFree
  /\ ui = "resumed"
  /\ ~finger
  /\ finger' = TRUE
  /\ IF steeringWheelDataStatus
       THEN mpc' = "max" /\ mopt' = o /\ min' = steeringWheelData - Tolerance
       ELSE UNCHANGED mainVars
  /\ calm' = (dpc = "sleep")
  /\ UNCHANGED <<steeringWheelData, steeringWheelDataStatus, touchBtnPanelData,
                 swcDelay, ui, activityIsRun, learned, dispatcherVars, held,
                 firedFor, pressRuns, restarts>>

(* Mutant: the ends of the range are not part of it. *)
NoneBetweenOpen(lo, hi) ==
  \A o \in Options : learned[o] # NULL => ~(lo < learned[o] /\ learned[o] < hi)

(* The second read gives the upper end; any value between refuses.         *)
NoneBetween(lo, hi) ==
  \A o \in Options : learned[o] # NULL => ~(lo <= learned[o] /\ learned[o] <= hi)

QueryBetween ==
  /\ mpc = "max"
  /\ MainGoesTo(IF ~NoneBetween(min, steeringWheelData + Tolerance) THEN "loop"
                ELSE IF learned[mopt] = NULL THEN "notIdle" ELSE "lower")
  /\ UNCHANGED <<mainReads, learned, calm>>

(* The option's own value is compared once more, with two reads.           *)
OwnValueLower ==
  /\ mpc = "lower"
  /\ MainGoesTo(IF learned[mopt] - Tolerance <= steeringWheelData
                  THEN "upper" ELSE "notIdle")
  /\ UNCHANGED <<mainReads, learned, calm>>

OwnValueUpper ==
  /\ mpc = "upper"
  /\ MainGoesTo(IF steeringWheelData <= learned[mopt] + Tolerance
                  THEN "loop" ELSE "notIdle")
  /\ UNCHANGED <<mainReads, learned, calm>>

CheckNotIdle ==
  /\ mpc = "notIdle"
  /\ MainGoesTo(IF steeringWheelData # Idle THEN "set" ELSE "loop")
  /\ UNCHANGED <<mainReads, learned, calm>>

(* The last read is the value stored.  The column is unique: a duplicate   *)
(* makes the update throw, and the process dies.                           *)
Duplicate == \E o \in Options \ {mopt} : learned[o] = steeringWheelData

StoreValue ==
  /\ mpc = "set"
  /\ ~Duplicate
  /\ learned' = [learned EXCEPT ![mopt] = steeringWheelData]
  /\ MainGoesTo("loop")
  /\ UNCHANGED <<mainReads, calm>>

StoreFails ==
  /\ mpc = "set"
  /\ Duplicate
  /\ ProcessStartsAgain
  /\ UNCHANGED restarts

TouchUp ==
  /\ MainIsFree
  /\ finger
  /\ finger' = FALSE
  /\ steeringWheelData' = Idle
  /\ UNCHANGED <<steeringWheelDataStatus, touchBtnPanelData, swcDelay, learned,
                 ui, activityIsRun, threadVars, history>>

(* The refresh item forgets every value, one update of a row at a time.    *)
RefreshClick ==
  /\ MainIsFree
  /\ ui = "resumed"
  /\ mpc' = "refresh" /\ mopt' = 1 /\ UNCHANGED min
  /\ UNCHANGED <<mainReads, learned, calm>>

RefreshRow ==
  /\ mpc = "refresh"
  /\ learned' = [learned EXCEPT ![mopt] = NULL]
  /\ IF mopt = NumOptions
       THEN MainGoesTo("loop")
       ELSE mopt' = mopt + 1 /\ UNCHANGED <<mpc, min>>
  /\ UNCHANGED <<mainReads, calm>>

-----------------------------------------------------------------------------
(* The dispatcher: one pass of carSteeringWheelRunnable.                   *)

DispatcherGoesTo(pc) == dpc' = pc /\ UNCHANGED <<row, options>>

dispatcherReads == <<steeringWheelDataStatus, learned, uiVars, mainVars, held,
                     calm, restarts>>

(* The only look at the gate: a pass that has begun is never stopped.      *)
Wake ==
  /\ dpc = "sleep"
  /\ ~activityIsRun
  /\ DispatcherGoesTo("panel")
  /\ UNCHANGED <<steeringWheelData, touchBtnPanelData, swcDelay, firedFor,
                 pressRuns, dispatcherReads>>

PanelCheck ==
  /\ dpc = "panel"
  /\ DispatcherGoesTo(IF touchBtnPanelData # Idle THEN "switch" ELSE "load")
  /\ UNCHANGED <<steeringWheelData, touchBtnPanelData, swcDelay, firedFor,
                 pressRuns, dispatcherReads>>

PanelSwitch ==
  /\ dpc = "switch"
  /\ pressRuns' = pressRuns + 1
  /\ DispatcherGoesTo("clear")
  /\ UNCHANGED <<steeringWheelData, touchBtnPanelData, swcDelay, firedFor,
                 dispatcherReads>>

(* Mutant: the press stays in its mailbox. *)
KeepPanel == UNCHANGED touchBtnPanelData

ClearPanel == touchBtnPanelData' = Idle

PanelClear ==
  /\ dpc = "clear"
  /\ ClearPanel
  /\ DispatcherGoesTo("load")
  /\ UNCHANGED <<steeringWheelData, swcDelay, firedFor, pressRuns,
                 dispatcherReads>>

LoadOptions ==
  /\ dpc = "load"
  /\ options' = learned
  /\ row' = 1
  /\ dpc' = "low"
  /\ UNCHANGED <<steeringWheelData, touchBtnPanelData, swcDelay, firedFor,
                 pressRuns, dispatcherReads>>

NextRow == dpc' = "low" /\ row' = row + 1 /\ UNCHANGED options

(* Mutant: the lower end of the window is left out. *)
CompareLowerStrict ==
  /\ dpc = "low"
  /\ row \in Options
  /\ IF options[row] # NULL /\ options[row] - Tolerance < steeringWheelData
       THEN DispatcherGoesTo("high")
       ELSE NextRow
  /\ UNCHANGED <<steeringWheelData, touchBtnPanelData, swcDelay, firedFor,
                 pressRuns, dispatcherReads>>

(* The comparison of a row reads the mailbox twice. *)
CompareLower ==
  /\ dpc = "low"
  /\ row \in Options
  /\ IF options[row] # NULL /\ options[row] - Tolerance <= steeringWheelData
       THEN DispatcherGoesTo("high")
       ELSE NextRow
  /\ UNCHANGED <<steeringWheelData, touchBtnPanelData, swcDelay, firedFor,
                 pressRuns, dispatcherReads>>

CompareUpper ==
  /\ dpc = "high"
  /\ IF steeringWheelData <= options[row] + Tolerance
       THEN DispatcherGoesTo("act") /\
            firedFor' = firedFor + (IF options[row] = Idle THEN 0 ELSE 1)
       ELSE NextRow /\ UNCHANGED firedFor
  /\ UNCHANGED <<steeringWheelData, touchBtnPanelData, swcDelay, pressRuns,
                 dispatcherReads>>

(* The command of the row runs while swcDelay holds the service's polling. *)
RunCommand ==
  /\ dpc = "act"
  /\ swcDelay' = TRUE
  /\ DispatcherGoesTo("reset")
  /\ UNCHANGED <<steeringWheelData, touchBtnPanelData, firedFor, pressRuns,
                 dispatcherReads>>

(* Mutant: the answered reading stays in its mailbox. *)
ResetNothing ==
  /\ dpc = "reset"
  /\ swcDelay' = FALSE
  /\ NextRow
  /\ UNCHANGED <<steeringWheelData, touchBtnPanelData, firedFor, pressRuns,
                 dispatcherReads>>

ResetReading ==
  /\ dpc = "reset"
  /\ steeringWheelData' = Idle
  /\ swcDelay' = FALSE
  /\ NextRow
  /\ UNCHANGED <<touchBtnPanelData, firedFor, pressRuns, dispatcherReads>>

(* The list of the pass is not read again: the next one loads its own. *)
EndOfPass ==
  /\ dpc = "low"
  /\ row = NumOptions + 1
  /\ ClearPanel
  /\ dpc' = "sleep" /\ row' = 1 /\ options' = NothingLearned
  /\ UNCHANGED <<steeringWheelData, swcDelay, firedFor, pressRuns,
                 dispatcherReads>>

-----------------------------------------------------------------------------
Frames ==
  \/ \E r \in Readings : FrameReading(r)
  \/ FrameNoReading
  \/ \E p \in Presses : FramePress(p)

Activity ==
  \/ ActivityStarts
  \/ \E to \in {"paused", "closed"} : ActivityLeaves(to)
  \/ \E o \in Options : TouchDown(o)
  \/ TouchUp
  \/ RefreshClick

Handler ==
  \/ QueryBetween \/ OwnValueLower \/ OwnValueUpper \/ CheckNotIdle
  \/ StoreValue \/ StoreFails \/ RefreshRow

Dispatcher ==
  \/ Wake \/ PanelCheck \/ PanelSwitch \/ PanelClear \/ LoadOptions
  \/ CompareLower \/ CompareUpper \/ RunCommand \/ ResetReading \/ EndOfPass

Next == Frames \/ Activity \/ Handler \/ Dispatcher \/ Killed

Spec == Init /\ [][Next]_vars

(* The two threads are scheduled; frames, the user and deaths are not owed *)
FairSpec == Spec /\ WF_vars(Dispatcher) /\ WF_vars(Handler)

-----------------------------------------------------------------------------
(* Any two learned values are more than a tolerance apart, so no reading   *)
(* equals the value of two options and a taught key never takes over       *)
(* another: what the range query of clickedOnOptionsTouchDown is for, with *)
(* a mailbox that the dispatcher may empty between any two of its reads.   *)
LearnedApart ==
  \A o, p \in Options :
    o # p /\ learned[o] # NULL /\ learned[p] # NULL
      => ~InWindow(learned[o], learned[p])

(* One reading of the wheel starts at most one command, although the       *)
(* windows of two options may overlap and the reading stays in its mailbox *)
(* over several passes (an option that learned Idle aside).                *)
OneCommandPerReading == firedFor <= 1

(* One press of the panel is executed at most once. *)
OneRunPerPress == pressRuns <= 1

(* An option learns the reading of the key that is held down, never a      *)
(* released one; only a pass that began before the activity was opened can *)
(* make it learn Idle instead.                                             *)
LearnsTheHeldKey ==
  [][\A o \in Options : learned'[o] \notin {learned[o], NULL} =>
       learned'[o] = held \/ (~calm /\ learned'[o] = Idle)]_vars

(* Once the activity stays closed, a reading near a learned value does not *)
(* stay unanswered: the window of the dispatcher is the window of the      *)
(* teaching, and the single mailbox always empties.                        *)
Answers(o) ==
  /\ learned[o] # NULL
  /\ steeringWheelData # Idle
  /\ InWindow(learned[o], steeringWheelData)

MatchedReadingIsConsumed ==
  <>[](~activityIsRun) => \A o \in Options : Answers(o) ~> ~Answers(o)

=============================================================================
