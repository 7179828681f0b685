------------------------- MODULE SteeringWheelProofs -------------------------
(***************************************************************************)
(* Proofs of the safety properties of SteeringWheel, for every number of   *)
(* options and every set of readings.  The inductive invariant IInv says   *)
(* what each thread knows, at each of its program points, of the mailbox   *)
(* that the other thread writes.                                           *)
(***************************************************************************)
EXTENDS SteeringWheel, TLAPS

Teaching == mpc \in {"max", "lower", "upper", "notIdle", "set"}
Queried == mpc \in {"lower", "upper", "notIdle", "set"}

(* A dropped frame apart, the mailbox holds the pressed key or nothing. *)
StatusInv ==
  steeringWheelDataStatus =>
    held # NULL /\ steeringWheelData \in {held, Idle}

(* The lower end of the queried range comes from the held key, or the      *)
(* mailbox was empty then, and it is still empty.                          *)
RangeInv ==
  Teaching =>
    /\ steeringWheelDataStatus
    /\ held # NULL
    /\ \/ min = held - Tolerance
       \/ min = Idle - Tolerance /\ steeringWheelData = Idle

(* What the query found free stays free until the value is stored. *)
QueryInv ==
  Queried =>
    \A p \in Options :
      learned[p] # NULL => ~(min <= learned[p] /\ learned[p] <= min + 2 * Tolerance)

(* A touch that began while the dispatcher slept keeps it asleep. *)
GateInv ==
  /\ ui = "resumed" => activityIsRun
  /\ Teaching => ui = "resumed"
  /\ Teaching /\ calm => dpc = "sleep"
  /\ mpc = "set" /\ calm => steeringWheelData # Idle

(* A reading that started a command is erased before the next comparison. *)
CommandInv ==
  /\ firedFor <= 1
  /\ firedFor = 1 => steeringWheelData = Idle \/ dpc \in {"act", "reset"}

(* A press that was executed is erased before the next look at the panel. *)
PressInv ==
  /\ pressRuns <= 1
  /\ pressRuns = 1 => touchBtnPanelData = Idle \/ dpc = "clear"
  /\ dpc = "switch" => touchBtnPanelData # Idle

IInv ==
  /\ TypeOK
  /\ LearnedApart
  /\ StatusInv
  /\ RangeInv
  /\ QueryInv
  /\ GateInv
  /\ CommandInv
  /\ PressInv

-----------------------------------------------------------------------------
(* A key's reading is never the idle mark, and every stored value is a     *)
(* number.                                                                 *)
LEMMA ValueFacts ==
  /\ Values \subseteq Int
  /\ Idle \in Values /\ Idle \notin Readings
  /\ NULL \notin Values
  /\ \A r \in Readings : r \in Int /\ 0 <= r /\ r <= 359
  /\ Idle \notin Presses
  /\ NumOptions \in Nat /\ 1 <= NumOptions
  /\ MaxRestarts \in Nat
<1>1. \A r \in Readings : r \in Int /\ 0 <= r /\ r <= 359
  BY SteeringWheelAssumption DEF SteeringWheelAssumption
<1>2. Values \subseteq Int
  BY <1>1 DEF Values, Idle
<1>3. Idle \in Values /\ Idle \notin Readings
  BY <1>1 DEF Values, Idle
<1>4. NULL \notin Int
  BY SteeringWheelAssumption, Zenon DEF SteeringWheelAssumption
<1>5. NULL \notin Values
  BY <1>2, <1>4, Zenon
<1>6. Idle \notin Presses
  BY SteeringWheelAssumption DEF SteeringWheelAssumption, Idle
<1>7. NumOptions \in Nat /\ 1 <= NumOptions /\ MaxRestarts \in Nat
  BY SteeringWheelAssumption DEF SteeringWheelAssumption
<1> QED
  BY <1>1, <1>2, <1>3, <1>5, <1>6, <1>7

LEMMA InitInv == Init => IInv
<1> SUFFICES ASSUME Init PROVE IInv
  OBVIOUS
<1>1. 1 \in Options /\ 1 \in 1..(NumOptions + 1) /\ 0 \in 0..MaxRestarts
  BY ValueFacts DEF Options
<1>2. NothingLearned \in [Options -> Values \cup {NULL}]
  BY DEF NothingLearned
<1>3. Idle \in Values
  BY ValueFacts
<1>4. StaticsOK
  BY <1>2, <1>3 DEF Init, StaticsOK
<1>5. MainOK
  <2>1. mopt \in Options /\ min \in Int
    BY <1>1 DEF Init
  <2> QED
    BY <2>1 DEF Init, MainOK
<1>6. DispatcherOK /\ HistoryOK
  BY <1>1, <1>2 DEF Init, DispatcherOK, HistoryOK
<1>7. LearnedApart
  BY DEF Init, LearnedApart, NothingLearned
<1>8. StatusInv /\ RangeInv /\ QueryInv /\ GateInv /\ CommandInv /\ PressInv
  BY DEF Init, StatusInv, RangeInv, QueryInv, GateInv, CommandInv, PressInv,
         Teaching, Queried
<1> QED
  BY <1>4, <1>5, <1>6, <1>7, <1>8 DEF IInv, TypeOK

-----------------------------------------------------------------------------
(* Who writes what: the four kinds of steps and the state each leaves      *)
(* alone.                                                                  *)
LEMMA FramesFrame ==
  Frames => UNCHANGED <<swcDelay, learned, uiVars, threadVars, calm, restarts>>
BY DEF Frames, FrameReading, FrameNoReading, FramePress

LEMMA ActivityFrame ==
  Activity => UNCHANGED <<steeringWheelDataStatus, touchBtnPanelData, swcDelay,
                          learned, dispatcherVars, held, firedFor, pressRuns,
                          restarts>>
BY DEF Activity, ActivityStarts, ActivityLeaves, TouchDown, TouchUp, RefreshClick,
       mainReads, history, threadVars, dispatcherVars

LEMMA HandlerFrame ==
  Handler => UNCHANGED <<mainReads, calm>> \/ (ProcessStartsAgain /\ UNCHANGED restarts)
BY DEF Handler, QueryBetween, OwnValueLower, OwnValueUpper, CheckNotIdle, StoreValue,
       StoreFails, RefreshRow

LEMMA DispatcherFrame == Dispatcher => UNCHANGED dispatcherReads
BY DEF Dispatcher, Wake, PanelCheck, PanelSwitch, PanelClear, LoadOptions,
       CompareLower, CompareUpper, RunCommand, ResetReading, EndOfPass

-----------------------------------------------------------------------------
(* The type invariant, part by part. *)
LEMMA StaticsStep == TypeOK /\ [Next]_vars => StaticsOK'
<1> SUFFICES ASSUME StaticsOK, TypeOK, [Next]_vars PROVE StaticsOK'
  BY DEF TypeOK
<1>1. Idle \in Values /\ (\A r \in Readings : r \in Values)
  BY ValueFacts DEF Values
<1>2. CASE Frames
  BY <1>1, <1>2 DEF Frames, FrameReading, FrameNoReading, FramePress, StaticsOK
<1>3. CASE Activity
  <2>1. steeringWheelData' \in Values
    BY <1>1, <1>3 DEF Activity, ActivityStarts, ActivityLeaves, TouchDown, TouchUp,
       RefreshClick, mainReads, StaticsOK
  <2> QED
    BY <1>3, <2>1, ActivityFrame DEF StaticsOK
<1>4. CASE Handler /\ UNCHANGED mainReads
  <2>1. learned' \in [Options -> Values \cup {NULL}]
    <3>1. CASE StoreValue
      BY <3>1 DEF StoreValue, StaticsOK
    <3>2. CASE RefreshRow
      BY <3>2 DEF RefreshRow, StaticsOK
    <3>3. CASE UNCHANGED learned
      BY <3>3 DEF StaticsOK
    <3> QED
      BY <1>4, <3>1, <3>2, <3>3 DEF Handler, QueryBetween, OwnValueLower,
         OwnValueUpper, CheckNotIdle, StoreFails, ProcessStartsAgain
  <2> QED
    BY <1>4, <2>1 DEF mainReads, StaticsOK
<1>5. CASE Dispatcher
  <2>1. steeringWheelData' \in {steeringWheelData, Idle}
    BY <1>5 DEF Dispatcher, Wake, PanelCheck, PanelSwitch, PanelClear, LoadOptions,
       CompareLower, CompareUpper, RunCommand, ResetReading, EndOfPass
  <2>2. touchBtnPanelData' \in {touchBtnPanelData, Idle}
    BY <1>5 DEF Dispatcher, Wake, PanelCheck, PanelSwitch, PanelClear, LoadOptions,
       CompareLower, CompareUpper, RunCommand, ResetReading, EndOfPass, ClearPanel
  <2>3. swcDelay' \in {swcDelay, TRUE, FALSE}
    BY <1>5 DEF Dispatcher, Wake, PanelCheck, PanelSwitch, PanelClear, LoadOptions,
       CompareLower, CompareUpper, RunCommand, ResetReading, EndOfPass
  <2> QED
    BY <1>1, <1>5, <2>1, <2>2, <2>3, DispatcherFrame DEF dispatcherReads, StaticsOK
<1>6. CASE ProcessStartsAgain
  BY <1>1, <1>6 DEF ProcessStartsAgain, StaticsOK
<1>7. CASE UNCHANGED vars
  BY <1>7 DEF vars, StaticsOK
<1> QED
  BY <1>2, <1>3, <1>4, <1>5, <1>6, <1>7, HandlerFrame DEF Next, Killed

LEMMA MainStep == TypeOK /\ [Next]_vars => MainOK'
<1> SUFFICES ASSUME MainOK, TypeOK, [Next]_vars PROVE MainOK'
  BY DEF TypeOK
<1>1. steeringWheelData - Tolerance \in Int /\ 0 \in Int
  BY ValueFacts DEF TypeOK, StaticsOK, Tolerance
<1>2. 1 \in Options
  BY ValueFacts DEF Options
<1>3. CASE Frames \/ Dispatcher
  BY <1>3, FramesFrame, DispatcherFrame
     DEF uiVars, threadVars, dispatcherReads, mainVars, MainOK
<1>4. CASE Activity
  <2>1. ui' \in {"closed", "resumed", "paused"} /\ finger' \in BOOLEAN
          /\ activityIsRun' \in BOOLEAN
    BY <1>4 DEF Activity, ActivityStarts, ActivityLeaves, TouchDown, TouchUp,
       RefreshClick, mainReads, uiVars, MainOK
  <2>2. mpc' \in {mpc, "max", "refresh"} /\ mopt' \in Options /\ min' \in Int
    BY <1>1, <1>2, <1>4 DEF Activity, ActivityStarts, ActivityLeaves, TouchDown,
       TouchUp, RefreshClick, threadVars, mainVars, MainOK
  <2> QED
    BY <2>1, <2>2 DEF MainOK
<1>5. CASE Handler /\ UNCHANGED mainReads
  <2>1. mpc' \in {"loop", "lower", "upper", "notIdle", "set", "refresh"}
    BY <1>5 DEF Handler, QueryBetween, OwnValueLower, OwnValueUpper, CheckNotIdle,
       StoreValue, StoreFails, RefreshRow, MainGoesTo, ProcessStartsAgain
  <2>2. mopt' \in Options /\ min' \in Int
    <3>1. CASE RefreshRow
      BY <1>1, <1>2, <3>1, ValueFacts DEF RefreshRow, MainGoesTo, Options, MainOK
    <3>2. CASE mopt' \in {1, mopt} /\ min' \in {0, min}
      BY <1>1, <1>2, <3>2 DEF MainOK
    <3> QED
      BY <1>5, <3>1, <3>2 DEF Handler, QueryBetween, OwnValueLower, OwnValueUpper,
         CheckNotIdle, StoreValue, StoreFails, MainGoesTo, ProcessStartsAgain
  <2> QED
    BY <1>5, <2>1, <2>2 DEF mainReads, uiVars, MainOK
<1>6. CASE ProcessStartsAgain
  <2>1. mopt' \in Options /\ min' \in Int
    BY <1>2, <1>6 DEF ProcessStartsAgain
  <2> QED
    BY <1>6, <2>1 DEF ProcessStartsAgain, MainOK
<1>7. CASE UNCHANGED vars
  BY <1>7 DEF vars, uiVars, threadVars, MainOK
<1> QED
  BY <1>3, <1>4, <1>5, <1>6, <1>7, HandlerFrame DEF Next, Killed

LEMMA DispatcherStep == TypeOK /\ [Next]_vars => DispatcherOK'
<1> SUFFICES ASSUME DispatcherOK, TypeOK, [Next]_vars PROVE DispatcherOK'
  BY DEF TypeOK
<1>1. NumOptions \in Nat /\ 1 \in 1..(NumOptions + 1)
  BY ValueFacts
<1>2. NothingLearned \in [Options -> Values \cup {NULL}]
  BY DEF NothingLearned
<1>3. UNCHANGED dispatcherVars => DispatcherOK'
  BY DEF dispatcherVars, DispatcherOK
<1>4. CASE Frames \/ Activity
  BY <1>3, <1>4, FramesFrame, ActivityFrame DEF threadVars, dispatcherVars
<1>5. CASE Handler /\ UNCHANGED mainReads
  BY <1>3, <1>5 DEF mainReads
<1>6. CASE Wake \/ PanelCheck \/ PanelSwitch \/ PanelClear
  BY <1>6 DEF Wake, PanelCheck, PanelSwitch, PanelClear, DispatcherGoesTo, DispatcherOK
<1>7. CASE LoadOptions
  BY <1>1, <1>7 DEF LoadOptions, DispatcherOK, TypeOK, StaticsOK
<1>8. ASSUME row \in Options, NextRow PROVE DispatcherOK'
  BY <1>1, <1>8 DEF NextRow, Options, DispatcherOK
<1>9. CASE CompareLower
  <2>1. CASE options[row] # NULL /\ DispatcherGoesTo("high")
    BY <1>9, <2>1 DEF CompareLower, DispatcherGoesTo, DispatcherOK
  <2> QED
    BY <1>8, <1>9, <2>1 DEF CompareLower
<1>10. CASE CompareUpper
  <2>1. row \in Options /\ options[row] # NULL
    BY <1>10 DEF CompareUpper, DispatcherOK
  <2>2. CASE DispatcherGoesTo("act")
    BY <2>1, <2>2 DEF DispatcherGoesTo, DispatcherOK
  <2> QED
    BY <1>8, <1>10, <2>1, <2>2 DEF CompareUpper
<1>11. CASE RunCommand
  BY <1>11 DEF RunCommand, DispatcherGoesTo, DispatcherOK
<1>12. CASE ResetReading
  BY <1>8, <1>12 DEF ResetReading, DispatcherOK
<1>13. CASE EndOfPass
  BY <1>1, <1>2, <1>13 DEF EndOfPass, DispatcherOK
<1>14. CASE ProcessStartsAgain
  BY <1>1, <1>2, <1>14 DEF ProcessStartsAgain, DispatcherOK
<1>15. CASE UNCHANGED vars
  BY <1>3, <1>15 DEF vars, threadVars, dispatcherVars
<1> QED
  BY <1>4, <1>5, <1>6, <1>7, <1>9, <1>10, <1>11, <1>12, <1>13, <1>14, <1>15,
     HandlerFrame DEF Next, Dispatcher, Killed

LEMMA HistoryStep == TypeOK /\ [Next]_vars => HistoryOK'
<1> SUFFICES ASSUME HistoryOK, [Next]_vars PROVE HistoryOK'
  BY DEF TypeOK
<1>1. UNCHANGED history => HistoryOK'
  BY DEF history, HistoryOK
<1>2. CASE Frames
  BY <1>2 DEF Frames, FrameReading, FrameNoReading, FramePress, HistoryOK
<1>3. CASE Activity
  BY <1>3, ActivityFrame DEF Activity, ActivityStarts, ActivityLeaves, TouchDown,
     TouchUp, RefreshClick, history, mainReads, HistoryOK
<1>4. CASE UNCHANGED <<mainReads, calm>>
  BY <1>1, <1>4 DEF mainReads, history
<1>5. CASE Dispatcher
  <2>1. firedFor' \in Nat /\ pressRuns' \in Nat
    BY <1>5 DEF Dispatcher, Wake, PanelCheck, PanelSwitch, PanelClear, LoadOptions,
       CompareLower, CompareUpper, RunCommand, ResetReading, EndOfPass, HistoryOK
  <2> QED
    BY <1>5, <2>1, DispatcherFrame DEF dispatcherReads, HistoryOK
<1>6. ASSUME ProcessStartsAgain, restarts' \in 0..MaxRestarts PROVE HistoryOK'
  BY <1>6 DEF ProcessStartsAgain, HistoryOK
<1>7. CASE ProcessStartsAgain /\ UNCHANGED restarts
  BY <1>6, <1>7 DEF HistoryOK
<1>8. CASE Killed
  BY <1>6, <1>8, ValueFacts DEF Killed, HistoryOK
<1>9. CASE UNCHANGED vars
  BY <1>1, <1>9 DEF vars, history
<1> QED
  BY <1>2, <1>3, <1>4, <1>5, <1>7, <1>8, <1>9, HandlerFrame DEF Next

LEMMA TypeStep == TypeOK /\ [Next]_vars => TypeOK'
BY StaticsStep, MainStep, DispatcherStep, HistoryStep DEF TypeOK

-----------------------------------------------------------------------------
(* The mailbox holds the pressed key or nothing, and a press that ran is   *)
(* forgotten.                                                              *)
LEMMA StatusStep == TypeOK /\ StatusInv /\ [Next]_vars => StatusInv'
<1> SUFFICES ASSUME TypeOK, StatusInv, [Next]_vars PROVE StatusInv'
  OBVIOUS
<1>1. CASE Frames
  BY <1>1, ValueFacts DEF Frames, FrameReading, FrameNoReading, FramePress, StatusInv,
     Values
<1>2. CASE Activity
  <2>1. steeringWheelData' \in {steeringWheelData, Idle}
    BY <1>2 DEF Activity, ActivityStarts, ActivityLeaves, TouchDown, TouchUp,
       RefreshClick, mainReads
  <2> QED
    BY <1>2, <2>1, ActivityFrame DEF StatusInv
<1>3. CASE UNCHANGED <<mainReads, calm>>
  BY <1>3 DEF mainReads, StatusInv
<1>4. CASE Dispatcher
  <2>1. steeringWheelData' \in {steeringWheelData, Idle}
    BY <1>4 DEF Dispatcher, Wake, PanelCheck, PanelSwitch, PanelClear, LoadOptions,
       CompareLower, CompareUpper, RunCommand, ResetReading, EndOfPass
  <2> QED
    BY <1>4, <2>1, DispatcherFrame DEF dispatcherReads, StatusInv
<1>5. CASE ProcessStartsAgain
  BY <1>5 DEF ProcessStartsAgain, StatusInv
<1>6. CASE UNCHANGED vars
  BY <1>6 DEF vars, history, StatusInv
<1> QED
  BY <1>1, <1>2, <1>3, <1>4, <1>5, <1>6, HandlerFrame DEF Next, Killed

(* Every step of the click handler continues a click or ends it. *)
LEMMA HandlerContinues ==
  ASSUME Handler, UNCHANGED mainReads, Teaching'
  PROVE  /\ Teaching /\ UNCHANGED <<mopt, min, learned, calm>>
         /\ \/ mpc = "max" /\ NoneBetween(min, steeringWheelData + Tolerance)
            \/ Queried
         /\ mpc' = "set" => steeringWheelData # Idle
<1>1. QueryBetween \/ OwnValueLower \/ OwnValueUpper \/ CheckNotIdle
  BY DEF Handler, StoreValue, StoreFails, RefreshRow, ProcessStartsAgain,
     MainGoesTo, Teaching
<1>2. CASE QueryBetween
  BY <1>2 DEF QueryBetween, MainGoesTo, Teaching, Queried
<1>3. CASE OwnValueLower \/ OwnValueUpper \/ CheckNotIdle
  BY <1>3 DEF OwnValueLower, OwnValueUpper, CheckNotIdle, MainGoesTo, Teaching, Queried
<1> QED
  BY <1>1, <1>2, <1>3

(* Only a new reading fills the mailbox. *)
LEMMA MailboxEmpties ==
  Activity \/ Dispatcher => steeringWheelData' \in {steeringWheelData, Idle}
BY DEF Activity, ActivityStarts, ActivityLeaves, TouchDown, TouchUp, RefreshClick,
   mainReads, Dispatcher, Wake, PanelCheck, PanelSwitch, PanelClear, LoadOptions,
   CompareLower, CompareUpper, RunCommand, ResetReading, EndOfPass

(* Frames and life cycle run when no click does: only a touch starts one. *)
LEMMA FreeStart ==
  /\ Frames => ~Teaching'
  /\ Activity /\ Teaching' =>
       \E o \in Options : TouchDown(o) /\ steeringWheelDataStatus /\ mpc' = "max"
                            /\ min' = steeringWheelData - Tolerance
<1>1. Frames => ~Teaching'
  BY DEF Frames, FrameReading, FrameNoReading, FramePress, MainIsFree, threadVars,
     Teaching
<1>2. ASSUME NEW o \in Options, TouchDown(o), Teaching'
      PROVE  steeringWheelDataStatus /\ mpc' = "max"
               /\ min' = steeringWheelData - Tolerance
  BY <1>2 DEF TouchDown, MainIsFree, mainVars, Teaching
<1>3. ASSUME Activity, Teaching' PROVE \E o \in Options : TouchDown(o)
  BY <1>3 DEF Activity, ActivityStarts, ActivityLeaves, TouchUp, RefreshClick,
     MainIsFree, threadVars, Teaching
<1> QED
  BY <1>1, <1>2, <1>3

LEMMA GateStep == TypeOK /\ GateInv /\ [Next]_vars => GateInv'
<1> SUFFICES ASSUME TypeOK, GateInv, [Next]_vars PROVE GateInv'
  OBVIOUS
<1>1. CASE Frames
  BY <1>1, FramesFrame, FreeStart DEF GateInv, uiVars, threadVars, Teaching
<1>2. CASE Activity
  <2>1. ui' = "resumed" => activityIsRun'
    BY <1>2 DEF Activity, ActivityStarts, ActivityLeaves, TouchDown, TouchUp,
       RefreshClick, mainReads, uiVars, GateInv
  <2>2. CASE Teaching'
    <3> PICK o \in Options : TouchDown(o) /\ mpc' = "max"
      BY <1>2, <2>2, FreeStart
    <3> QED
      BY <2>1 DEF TouchDown, dispatcherVars, GateInv
  <2>3. CASE ~Teaching'
    BY <2>1, <2>3 DEF GateInv, Teaching
  <2> QED
    BY <2>2, <2>3
<1>3. CASE Handler /\ UNCHANGED mainReads
  <2>1. UNCHANGED <<ui, activityIsRun, dpc, steeringWheelData>>
    BY <1>3 DEF mainReads, uiVars, dispatcherVars
  <2>2. CASE Teaching'
    BY <1>3, <2>1, <2>2, HandlerContinues DEF GateInv
  <2>3. CASE ~Teaching'
    BY <2>1, <2>3 DEF GateInv, Teaching
  <2> QED
    BY <2>2, <2>3
<1>4. CASE Dispatcher
  <2>1. UNCHANGED <<ui, activityIsRun, mpc, calm>>
    BY <1>4, DispatcherFrame DEF dispatcherReads, uiVars, mainVars
  <2>2. CASE Teaching /\ calm
    <3>1. dpc = "sleep" /\ activityIsRun
      BY <2>2 DEF GateInv
    <3> QED
      BY <1>4, <3>1 DEF Dispatcher, Wake, PanelCheck, PanelSwitch, PanelClear,
         LoadOptions, CompareLower, CompareUpper, RunCommand, ResetReading, EndOfPass
  <2>3. CASE ~(Teaching /\ calm)
    BY <2>1, <2>3 DEF GateInv, Teaching
  <2> QED
    BY <2>2, <2>3
<1>5. CASE ProcessStartsAgain
  BY <1>5 DEF ProcessStartsAgain, GateInv, Teaching
<1>6. CASE UNCHANGED vars
  BY <1>6 DEF vars, uiVars, threadVars, history, GateInv, Teaching
<1> QED
  BY <1>1, <1>2, <1>3, <1>4, <1>5, <1>6, HandlerFrame DEF Next, Killed

LEMMA RangeStep == TypeOK /\ StatusInv /\ RangeInv /\ [Next]_vars => RangeInv'
<1> SUFFICES ASSUME TypeOK, StatusInv, RangeInv, [Next]_vars, Teaching'
             PROVE  /\ steeringWheelDataStatus'
                    /\ held' # NULL
                    /\ \/ min' = held' - Tolerance
                       \/ min' = Idle - Tolerance /\ steeringWheelData' = Idle
  BY DEF RangeInv
<1>1. CASE Frames
  BY <1>1, FreeStart
<1>2. CASE Activity
  <2> PICK o \in Options : /\ TouchDown(o) /\ steeringWheelDataStatus
                           /\ min' = steeringWheelData - Tolerance
    BY <1>2, FreeStart
  <2> QED
    BY DEF TouchDown, StatusInv
<1>3. CASE Handler /\ UNCHANGED mainReads
  BY <1>3, HandlerContinues DEF mainReads, RangeInv
<1>4. CASE Dispatcher
  BY <1>4, DispatcherFrame, MailboxEmpties
     DEF dispatcherReads, mainVars, RangeInv, Teaching
<1>5. CASE ProcessStartsAgain
  BY <1>5 DEF ProcessStartsAgain, Teaching
<1>6. CASE UNCHANGED vars
  BY <1>6 DEF vars, threadVars, history, RangeInv, Teaching
<1> QED
  BY <1>1, <1>2, <1>3, <1>4, <1>5, <1>6, HandlerFrame DEF Next, Killed

(* The range the query found free covers the tolerance around the held key. *)
LEMMA QueryStep == IInv /\ [Next]_vars => QueryInv'
<1> SUFFICES ASSUME IInv, [Next]_vars, Queried', NEW p \in Options,
                    learned'[p] # NULL
             PROVE  ~(min' <= learned'[p] /\ learned'[p] <= min' + 2 * Tolerance)
  BY DEF QueryInv
<1>1. Teaching'
  BY DEF Queried, Teaching
<1>2. CASE Frames
  BY <1>1, <1>2, FreeStart
<1>3. CASE Activity
  <2> PICK o \in Options : TouchDown(o) /\ mpc' = "max"
    BY <1>1, <1>3, FreeStart
  <2> QED
    BY DEF Queried
<1>4. CASE Handler /\ UNCHANGED mainReads
  <2>1. Teaching /\ UNCHANGED <<min, learned>>
    BY <1>1, <1>4, HandlerContinues
  <2>2. CASE Queried
    BY <2>1, <2>2 DEF IInv, QueryInv
  <2>3. CASE NoneBetween(min, steeringWheelData + Tolerance)
    <3>1. ~(min <= learned[p] /\ learned[p] <= steeringWheelData + Tolerance)
      BY <2>1, <2>3 DEF NoneBetween
    <3>2. learned[p] \in Int /\ steeringWheelData \in Int /\ min \in Int
      BY <2>1, ValueFacts DEF IInv, TypeOK, StaticsOK, MainOK
    <3>3. min + 2 * Tolerance <= steeringWheelData + Tolerance
      <4>1. held \in Readings /\ steeringWheelData \in {held, Idle}
        BY <2>1 DEF IInv, RangeInv, StatusInv, TypeOK, HistoryOK
      <4>2. CASE min = held - Tolerance
        BY <4>1, <4>2, ValueFacts DEF Tolerance, Idle
      <4>3. CASE min = Idle - Tolerance /\ steeringWheelData = Idle
        BY <4>3 DEF Tolerance, Idle
      <4> QED
        BY <2>1, <4>2, <4>3 DEF IInv, RangeInv
    <3> QED
      BY <2>1, <3>1, <3>2, <3>3 DEF Tolerance
  <2> QED
    BY <1>1, <1>4, <2>2, <2>3, HandlerContinues
<1>5. CASE Dispatcher
  BY <1>5, DispatcherFrame DEF dispatcherReads, mainVars, IInv, QueryInv, Queried
<1>6. CASE ProcessStartsAgain
  BY <1>6 DEF ProcessStartsAgain, Queried
<1>7. CASE UNCHANGED vars
  BY <1>7 DEF vars, threadVars, IInv, QueryInv, Queried
<1> QED
  BY <1>2, <1>3, <1>4, <1>5, <1>6, <1>7, HandlerFrame DEF Next, Killed

(* The value stored by the last read is away from every other value. *)
LEMMA StoredIsApart ==
  ASSUME IInv, StoreValue, NEW p \in Options \ {mopt}, learned[p] # NULL
  PROVE  /\ ~InWindow(steeringWheelData, learned[p])
         /\ ~InWindow(learned[p], steeringWheelData)
<1>1. learned[p] \in Values /\ steeringWheelData \in Values /\ min \in Int
  BY DEF IInv, TypeOK, StaticsOK, MainOK
<1>2. learned[p] # steeringWheelData
  BY DEF StoreValue, Duplicate
<1>3. ~(min <= learned[p] /\ learned[p] <= min + 2 * Tolerance)
  BY DEF StoreValue, IInv, QueryInv, Queried
<1>4. held \in Readings /\ steeringWheelData \in {held, Idle}
        /\ (steeringWheelData # Idle => min = held - Tolerance)
  BY DEF StoreValue, IInv, RangeInv, StatusInv, Teaching, TypeOK, HistoryOK
<1>5. CASE steeringWheelData = Idle
  <2>1. learned[p] \in Readings
    BY <1>1, <1>2, <1>5 DEF Values
  <2> QED
    BY <1>5, <2>1, ValueFacts DEF InWindow, Tolerance, Idle
<1>6. CASE steeringWheelData # Idle
  <2>1. steeringWheelData = held /\ min = held - 3
    BY <1>4, <1>6 DEF Tolerance
  <2>2. learned[p] \in Int /\ held \in Int
    BY <1>1, <1>4, ValueFacts
  <2> QED
    BY <1>3, <2>1, <2>2 DEF InWindow, Tolerance
<1> QED
  BY <1>5, <1>6

LEMMA ApartStep == IInv /\ [Next]_vars => LearnedApart'
<1> SUFFICES ASSUME IInv, [Next]_vars PROVE LearnedApart'
  OBVIOUS
<1> USE DEF IInv
<1>1. CASE UNCHANGED learned
  BY <1>1 DEF LearnedApart, InWindow
<1>2. CASE StoreValue
  <2> SUFFICES ASSUME NEW o \in Options, NEW p \in Options, o # p,
                      learned'[o] # NULL, learned'[p] # NULL
               PROVE  ~InWindow(learned'[o], learned'[p])
    BY DEF LearnedApart, InWindow
  <2>1. \A q \in Options : learned'[q] = IF q = mopt THEN steeringWheelData ELSE learned[q]
    BY <1>2 DEF StoreValue, TypeOK, StaticsOK
  <2>2. CASE o = mopt
    BY <1>2, <2>1, <2>2, StoredIsApart
  <2>3. CASE p = mopt
    BY <1>2, <2>1, <2>3, StoredIsApart
  <2>4. CASE o # mopt /\ p # mopt
    BY <2>1, <2>4 DEF LearnedApart
  <2> QED
    BY <2>2, <2>3, <2>4
<1>3. CASE RefreshRow
  <2>1. \A q \in Options : learned'[q] \in {learned[q], NULL}
    BY <1>3 DEF RefreshRow, TypeOK, StaticsOK
  <2>2. \A q \in Options : learned'[q] # NULL => learned'[q] = learned[q]
    BY <2>1
  <2> QED
    BY <2>2 DEF LearnedApart, InWindow
<1>4. CASE Handler /\ ~StoreValue /\ ~RefreshRow
  BY <1>1, <1>4 DEF Handler, QueryBetween, OwnValueLower, OwnValueUpper, CheckNotIdle,
     StoreFails, ProcessStartsAgain
<1>5. CASE Frames \/ Activity \/ Dispatcher \/ Killed \/ UNCHANGED vars
  BY <1>1, <1>5, FramesFrame, ActivityFrame, DispatcherFrame
     DEF dispatcherReads, Killed, ProcessStartsAgain, vars
<1> QED
  BY <1>2, <1>3, <1>4, <1>5 DEF Next

-----------------------------------------------------------------------------
(* A second match needs a reading that the first one's reset left behind. *)
LEMMA CommandStep == TypeOK /\ CommandInv /\ [Next]_vars => CommandInv'
<1> SUFFICES ASSUME TypeOK, CommandInv, [Next]_vars PROVE CommandInv'
  OBVIOUS
<1> USE DEF CommandInv
<1>1. firedFor \in Nat
  BY DEF TypeOK, HistoryOK
<1>2. CASE Frames
  BY <1>2 DEF Frames, FrameReading, FrameNoReading, FramePress, threadVars
<1>3. CASE Activity
  BY <1>3, ActivityFrame, MailboxEmpties DEF dispatcherVars
<1>4. CASE UNCHANGED <<mainReads, calm>>
  BY <1>4 DEF mainReads, dispatcherVars
<1>5. CASE CompareUpper
  <2>1. options[row] \in Values
    BY <1>5 DEF CompareUpper, TypeOK, DispatcherOK
  <2>2. steeringWheelData \in Int
    BY ValueFacts DEF TypeOK, StaticsOK
  <2>3. CASE steeringWheelData <= options[row] + Tolerance /\ options[row] # Idle
    <3>1. options[row] \in Readings
      BY <2>1, <2>3 DEF Values
    <3>2. steeringWheelData # Idle
      BY <2>3, <3>1, ValueFacts DEF Idle, Tolerance
    <3>3. firedFor = 0
      BY <1>1, <1>5, <3>2 DEF CompareUpper
    <3> QED
      BY <1>5, <2>3, <3>3 DEF CompareUpper, DispatcherGoesTo
  <2>4. CASE ~(steeringWheelData <= options[row] + Tolerance /\ options[row] # Idle)
    <3>1. UNCHANGED <<firedFor, steeringWheelData>>
      BY <1>1, <1>5, <2>4 DEF CompareUpper
    <3> QED
      BY <1>5, <3>1 DEF CompareUpper
  <2> QED
    BY <2>3, <2>4
<1>6. CASE RunCommand
  BY <1>6 DEF RunCommand, DispatcherGoesTo
<1>7. CASE ResetReading
  BY <1>7 DEF ResetReading
<1>8. CASE Dispatcher /\ ~CompareUpper /\ ~RunCommand /\ ~ResetReading
  BY <1>8 DEF Dispatcher, Wake, PanelCheck, PanelSwitch, PanelClear, LoadOptions,
     CompareLower, EndOfPass
<1>9. CASE ProcessStartsAgain
  BY <1>9 DEF ProcessStartsAgain
<1>10. CASE UNCHANGED vars
  BY <1>10 DEF vars, threadVars, history
<1> QED
  BY <1>2, <1>3, <1>4, <1>5, <1>6, <1>7, <1>8, <1>9, <1>10, HandlerFrame DEF Next, Killed

LEMMA PressStep == TypeOK /\ PressInv /\ [Next]_vars => PressInv'
<1> SUFFICES ASSUME TypeOK, PressInv, [Next]_vars PROVE PressInv'
  OBVIOUS
<1> USE DEF PressInv
<1>1. pressRuns \in Nat
  BY DEF TypeOK, HistoryOK
<1>2. CASE Frames
  <2>1. CASE \E p \in Presses : FramePress(p)
    BY <2>1, ValueFacts DEF FramePress
  <2>2. CASE UNCHANGED <<touchBtnPanelData, pressRuns, threadVars>>
    BY <2>2 DEF threadVars
  <2> QED
    BY <1>2, <2>1, <2>2 DEF Frames, FrameReading, FrameNoReading
<1>3. CASE Activity \/ UNCHANGED <<mainReads, calm>>
  BY <1>3, ActivityFrame DEF mainReads, dispatcherVars
<1>4. CASE PanelCheck
  BY <1>4 DEF PanelCheck, DispatcherGoesTo
<1>5. CASE PanelSwitch
  BY <1>1, <1>5 DEF PanelSwitch, DispatcherGoesTo
<1>6. CASE PanelClear \/ EndOfPass
  BY <1>6 DEF PanelClear, EndOfPass, ClearPanel, DispatcherGoesTo
<1>7. CASE Dispatcher /\ ~PanelCheck /\ ~PanelSwitch /\ ~PanelClear /\ ~EndOfPass
  BY <1>7 DEF Dispatcher, Wake, LoadOptions, CompareLower, CompareUpper, RunCommand,
     ResetReading, DispatcherGoesTo, NextRow
<1>8. CASE ProcessStartsAgain
  BY <1>8 DEF ProcessStartsAgain
<1>9. CASE UNCHANGED vars
  BY <1>9 DEF vars, threadVars, history
<1> QED
  BY <1>2, <1>3, <1>4, <1>5, <1>6, <1>7, <1>8, <1>9, HandlerFrame DEF Next, Killed

-----------------------------------------------------------------------------
(* The results. *)

LEMMA Induction == IInv /\ [Next]_vars => IInv'
BY TypeStep, StatusStep, GateStep, RangeStep, QueryStep, ApartStep, CommandStep,
   PressStep DEF IInv

LEMMA Invariance == Spec => []IInv
BY InitInv, Induction, PTL DEF Spec

(* The statics, the program points and locals of the two threads and the   *)
(* table keep their types.                                                 *)
THEOREM TypeCorrect == Spec => []TypeOK
<1>1. IInv => TypeOK
  BY DEF IInv
<1> QED
  BY <1>1, Invariance, PTL

(* clickedOnOptionsTouchDown never stores a value within the tolerance of  *)
(* another option's, whatever the dispatcher writes between its reads.     *)
THEOREM TaughtValuesApart == Spec => []LearnedApart
<1>1. IInv => LearnedApart
  BY DEF IInv
<1> QED
  BY <1>1, Invariance, PTL

(* carSteeringWheelRunnable runs at most one command for a reading.        *)
THEOREM AtMostOneCommand == Spec => []OneCommandPerReading
<1>1. IInv => OneCommandPerReading
  BY DEF IInv, CommandInv, OneCommandPerReading
<1> QED
  BY <1>1, Invariance, PTL

(* carSteeringWheelRunnable runs a press of the panel at most once.        *)
THEOREM AtMostOneRun == Spec => []OneRunPerPress
<1>1. IInv => OneRunPerPress
  BY DEF IInv, PressInv, OneRunPerPress
<1> QED
  BY <1>1, Invariance, PTL

(* An option learns the key that is held, or Idle in a touch that a pass   *)
(* of the dispatcher overlaps.                                             *)
THEOREM TeachingIsExact == Spec => LearnsTheHeldKey
<1> DEFINE Exact == \A o \in Options : learned'[o] \notin {learned[o], NULL} =>
                      learned'[o] = held \/ (~calm /\ learned'[o] = Idle)
<1>1. ASSUME IInv, [Next]_vars PROVE [Exact]_vars
  <2>1. CASE StoreValue
    <3>1. \A o \in Options : learned'[o] = IF o = mopt THEN steeringWheelData
                                                       ELSE learned[o]
      BY <1>1, <2>1 DEF StoreValue, IInv, TypeOK, StaticsOK
    <3>2. steeringWheelData \in {held, Idle} /\ (calm => steeringWheelData # Idle)
      BY <1>1, <2>1 DEF StoreValue, IInv, RangeInv, StatusInv, GateInv, Teaching
    <3> QED
      BY <3>1, <3>2
  <2>2. CASE RefreshRow
    <3>1. \A o \in Options : learned'[o] \in {learned[o], NULL}
      BY <1>1, <2>2 DEF RefreshRow, IInv, TypeOK, StaticsOK
    <3> QED
      BY <3>1
  <2>3. CASE UNCHANGED learned
    BY <2>3
  <2> QED
    BY <1>1, <2>1, <2>2, <2>3, FramesFrame, ActivityFrame, DispatcherFrame
       DEF Next, Handler, QueryBetween, OwnValueLower, OwnValueUpper, CheckNotIdle,
           StoreFails, ProcessStartsAgain, Killed, dispatcherReads, vars
<1>2. Spec => [][Exact]_vars
  BY <1>1, Invariance, PTL DEF Spec
<1> QED
  BY <1>2 DEF LearnsTheHeldKey

=============================================================================
