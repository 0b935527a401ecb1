----------------------------- MODULE Calibration -----------------------------
(***************************************************************************)
(* The calibration and the check of the height encoder: the HMI asks, the  *)
(* work flow of the control task sets a pressure and triggers the SC, the  *)
(* SC lets the horn make a stroke and measures, and the answer of the SC   *)
(* makes the work flow store the point and go on to the next pressure.     *)
(* HeightProperty, RawHeight, the table and the target pressure are        *)
(* globals; the messages of the control queue carry nothing.               *)
(*                                                                         *)
(* A count is the pressure it was measured at; a pressure is a name.       *)
(***************************************************************************)
EXTENDS Naturals, Sequences, FiniteSets

CONSTANTS
  CalibrateReference,  \* m_CalibrateReference: the pressures of a calibration
  CheckPressures,      \* the pressures a check may ask for
  MinPointSize,        \* MIN_POINT_SIZE
  Requests             \* bound: messages that wait for the control task

\* No pressure, or a point that is not calibrated.
NoPressure == "none"

\* A count that was never measured: what m_RawCount is before the first check, and
\* RawHeight before the first stroke.
Unmeasured == "unmeasured"

References == {CalibrateReference[i] : i \in DOMAIN CalibrateReference}

\* The table of references is never empty.
ASSUME CalibrationAssumption ==
  CalibrateReference \in Seq(References) /\ CalibrateReference # <<>>

TablePressures == References \cup CheckPressures

VARIABLES
  workFlow,        \* HeightCalibrateWorkFlow: [state, mode, step, pressure, rawCount]
  heights,         \* HeightCalibratedMap: the calibrated points
  heightPressure,  \* HeightProperty.Pressure
  targetPressure,  \* AC_RX->TargetPressure
  rawHeight,       \* RawHeight: [count, calibrated]
  stroke,          \* the SC: "waiting" for a trigger, ... , "alarm"
  ctrlQueue,       \* messages for the control task
  triggering,      \* the control task is in the delay of TriggerProcess
  orderly          \* history: the points come from a calibration that was begun at
                   \* rest, and every request since came when the last was done with

calibrationVars == <<workFlow, heights, heightPressure, targetPressure, rawHeight, stroke,
                     ctrlQueue, triggering, orderly>>

NoPoints == [p \in TablePressures |-> NoPressure]

\* The height calibration screen has just been loaded.
CalibrationInit ==
  /\ workFlow = [state |-> "INVALID", mode |-> "IDLE", step |-> 0, pressure |-> NoPressure,
                 rawCount |-> Unmeasured]
  /\ heights = NoPoints
  /\ heightPressure = NoPressure
  /\ targetPressure = NoPressure
  /\ rawHeight = [count |-> Unmeasured, calibrated |-> FALSE]
  /\ stroke = "waiting"
  /\ ctrlQueue = <<>>
  /\ triggering = FALSE
  /\ orderly = FALSE

-----------------------------------------------------------------------------
(* The work flow's operations.                                             *)

\* Slip: the points of the last calibration stay.
InitProcessSlip(points) == points

InitProcess(points) == NoPoints

Calibrated(points) == {p \in TablePressures : points[p] # NoPressure}

\* UpdateResult: two points make a line.
UpdateResult(points) ==
  IF Cardinality(Calibrated(points)) < MinPointSize THEN "INVALID" ELSE "FINISH"

\* Slip: an alarm is not noticed.
ResetProcessSlip(w) == w

ResetProcess(w) == [w EXCEPT !.state = "INVALID"]

\* The first half of TriggerProcess: `m_State = FINISH' in its condition makes
\* it go on in any state.
SetPressures(pressure) ==
  /\ heightPressure' = pressure
  /\ targetPressure' = pressure
  /\ triggering' = TRUE

NoTrigger == UNCHANGED <<heightPressure, targetPressure, triggering>>

\* What the table says of a raw height that is copied into it.
Point(raw) == IF raw.calibrated THEN raw.count ELSE NoPressure

\* RunProcess of a calibration.
RunCalibration ==
  LET points == [heights EXCEPT ![heightPressure] = Point(rawHeight)]
      step == workFlow.step + 1 IN
  /\ heights' = points
  /\ workFlow' =
       IF step < Len(CalibrateReference)
       THEN [workFlow EXCEPT !.step = step, !.pressure = CalibrateReference[step + 1]]
       ELSE [workFlow EXCEPT !.step = Len(CalibrateReference), !.state = UpdateResult(points)]

\* RunProcess of a check.
RunCheck ==
  /\ workFlow' = [workFlow EXCEPT !.rawCount = rawHeight.count, !.state = "FINISH"]
  /\ UNCHANGED heights

\* No stroke is answered before the first request has set the mode.
RunProcess ==
  \/ workFlow.mode = "HEIGHT_CALIBRATE" /\ RunCalibration
  \/ workFlow.mode = "HEIGHT_CHECK" /\ RunCheck

-----------------------------------------------------------------------------
(* The control task.                                                       *)

Receives(id) == ~triggering /\ ctrlQueue # <<>> /\ Head(ctrlQueue).id = id
Taken == ctrlQueue' = Tail(ctrlQueue)

\* No stroke is under way and none is to be answered.
AtRest == /\ stroke = "waiting"
          /\ \A i \in DOMAIN ctrlQueue : ctrlQueue[i].id # "SC_RESPONSE"

\* TO_CTRL_TRIGGER_HEIGHT_CALIBRATE
TriggerCalibrate ==
  LET pressure == CalibrateReference[1] IN
  /\ Receives("TRIGGER_HEIGHT_CALIBRATE")
  /\ Taken
  /\ workFlow' = [workFlow EXCEPT !.mode = "HEIGHT_CALIBRATE", !.step = 0,
                                  !.pressure = pressure]
  /\ heights' = InitProcess(heights)
  /\ SetPressures(pressure)
  /\ orderly' = AtRest
  /\ UNCHANGED <<rawHeight, stroke>>

\* TO_CTRL_TRIGGER_HEIGHT_CHECK
TriggerCheck ==
  LET pressure == Head(ctrlQueue).pressure IN
  /\ Receives("TRIGGER_HEIGHT_CHECK")
  /\ Taken
  /\ workFlow' = [workFlow EXCEPT !.mode = "HEIGHT_CHECK", !.pressure = pressure]
  /\ SetPressures(pressure)
  /\ orderly' = (orderly /\ AtRest /\ workFlow.state # "ONGOING")
  /\ UNCHANGED <<heights, rawHeight, stroke>>

\* TO_CTRL_HEIGHT_CORRECT: SetCorrectHeight stores the count of the last
\* check, less the shim, at the pressure of the last request; UpdateResult
\* then interpolates, and its outcome is not looked at.
HeightCorrect ==
  /\ Receives("HEIGHT_CORRECT")
  /\ Taken
  /\ rawHeight' = [rawHeight EXCEPT !.count = workFlow.rawCount]
  /\ heights' = IF workFlow.pressure = NoPressure THEN heights
                ELSE [heights EXCEPT ![workFlow.pressure] = Point(rawHeight')]
  /\ orderly' = (orderly /\ workFlow.mode = "HEIGHT_CHECK" /\ workFlow.state = "FINISH"
                         /\ AtRest)
  /\ NoTrigger
  /\ UNCHANGED <<workFlow, stroke>>

\* The second half of TriggerProcess, after its delay: ExecuteStateAction is
\* heard only by a READY_FOR_TRIGGER that loops.
TriggerStroke ==
  /\ triggering
  /\ triggering' = FALSE
  /\ stroke' = IF stroke = "waiting" THEN "triggered" ELSE stroke
  /\ workFlow' = [workFlow EXCEPT !.state = "ONGOING"]
  /\ UNCHANGED <<heights, heightPressure, targetPressure, rawHeight, ctrlQueue, orderly>>

\* TO_CTRL_SC_RESPONSE: responseStateMachineProcess.  Only a finished work
\* flow answers the HMI, only one that goes on triggers the next stroke.
StrokeAnswered ==
  /\ Receives("SC_RESPONSE")
  /\ Taken
  /\ RunProcess
  /\ \/ /\ workFlow'.state = "ONGOING"
        /\ SetPressures(workFlow'.pressure)
     \/ /\ workFlow'.state # "ONGOING"
        /\ NoTrigger
  /\ UNCHANGED <<rawHeight, stroke, orderly>>

\* TO_CTRL_ALARM_EVENT
AlarmAnswered ==
  /\ Receives("ALARM_EVENT")
  /\ Taken
  /\ workFlow' = ResetProcess(workFlow)
  /\ NoTrigger
  /\ UNCHANGED <<heights, rawHeight, stroke, orderly>>

ControlTaskStep == \/ TriggerCalibrate \/ TriggerCheck \/ HeightCorrect
                   \/ TriggerStroke \/ StrokeAnswered \/ AlarmAnswered

-----------------------------------------------------------------------------
(* The HMI, through the UI task, and the SC.                               *)

Room == Len(ctrlQueue) < Requests

HeightRequest ==
  /\ Room
  /\ \E m \in [id : {"TRIGGER_HEIGHT_CALIBRATE", "HEIGHT_CORRECT"}, pressure : {NoPressure}]
              \cup [id : {"TRIGGER_HEIGHT_CHECK"}, pressure : CheckPressures] :
       ctrlQueue' = Append(ctrlQueue, m)
  /\ UNCHANGED <<workFlow, heights, heightPressure, targetPressure, rawHeight, stroke,
                 triggering, orderly>>

SCMessage(id) == Append(ctrlQueue, [id |-> id, pressure |-> NoPressure])

StrokeBegins ==
  /\ stroke = "triggered"
  /\ stroke' = "stroke"
  /\ UNCHANGED <<workFlow, heights, heightPressure, targetPressure, rawHeight, ctrlQueue,
                 triggering, orderly>>

\* HeightCalibrate::Loop, the horn held at the pressure that is set.
StrokeMeasured ==
  /\ stroke = "stroke"
  /\ stroke' = "measured"
  /\ rawHeight' = [rawHeight EXCEPT !.count = targetPressure]
  /\ UNCHANGED <<workFlow, heights, heightPressure, targetPressure, ctrlQueue, triggering,
                 orderly>>

\* HeightCalibrate::Exit with the actuator in AC_READY, however the stroke came to
\* its end, takes the count for calibrated and answers.
Answer ==
  /\ stroke' = "waiting"
  /\ rawHeight' = [rawHeight EXCEPT !.calibrated = TRUE]
  /\ ctrlQueue' = SCMessage("SC_RESPONSE")
  /\ UNCHANGED <<workFlow, heights, heightPressure, targetPressure, triggering>>

\* The horn is at home again.
StrokeEnds == stroke = "measured" /\ Answer /\ UNCHANGED orderly

\* An alarm has aborted the stroke, but by the time of Exit its error has cleared
\* itself and the actuator is back in AC_READY: the answer stands for a count that
\* this stroke need not have measured.  An alarm that is listed all the same is
\* a StrokeFails that follows.
StrokeAborted ==
  /\ stroke \in {"stroke", "measured"}
  /\ Answer
  /\ orderly' = (orderly /\ stroke = "measured")

\* An alarm or the E-stop, and an Exit that does not answer.  An error that clears
\* itself before the SC lists it is reported to nobody.
StrokeFails ==
  /\ stroke # "alarm"
  /\ stroke' = "alarm"
  /\ \/ Room /\ ctrlQueue' = SCMessage("ALARM_EVENT") /\ UNCHANGED orderly
     \/ orderly' = FALSE /\ UNCHANGED ctrlQueue
  /\ UNCHANGED <<workFlow, heights, heightPressure, targetPressure, rawHeight, triggering>>

\* The alarm is reset and READY_FOR_TRIGGER loops again.
AlarmReset ==
  /\ stroke = "alarm"
  /\ stroke' = "waiting"
  /\ UNCHANGED <<workFlow, heights, heightPressure, targetPressure, rawHeight, ctrlQueue,
                 triggering, orderly>>

StrokeStep == StrokeBegins \/ StrokeMeasured \/ StrokeEnds

-----------------------------------------------------------------------------

CalibrationNext ==
  ControlTaskStep \/ HeightRequest \/ StrokeStep \/ StrokeAborted \/ StrokeFails \/ AlarmReset

CalibrationSpec == CalibrationInit /\ [][CalibrationNext]_calibrationVars

-----------------------------------------------------------------------------
(* Properties.                                                             *)

\* Every point of the table was measured at its own pressure, or corrected
\* from a check at it, through alarms, resets and new calibrations - as long
\* as a request does not disturb a stroke and no stroke that was aborted before it
\* had measured is answered.  The code sees to neither (TriggerProcess assigns FINISH
\* where it means to compare; Exit looks at the actuator alone), nor that a
\* correction follows a check.
PointsMeasured == orderly => \A p \in Calibrated(heights) : heights[p] = p

\* A calibration or check begun at rest is answered, or ended by its alarm:
\* the work flow does not wait for a stroke that nobody makes.
CalibrationAnswered ==
  (orderly /\ workFlow.state = "ONGOING") ~> (~orderly \/ workFlow.state # "ONGOING")
=============================================================================
