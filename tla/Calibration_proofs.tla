------------------------- MODULE Calibration_proofs -------------------------
(***************************************************************************)
(* Proof about the calibration of the height encoder, for all references   *)
(* and check pressures and any number of waiting messages: what the table  *)
(* holds at a pressure was measured at it.                                 *)
(***************************************************************************)
EXTENDS Calibration, TLAPS

Counts == TablePressures \cup {NoPressure, Unmeasured}
RawHeights == [count : Counts, calibrated : BOOLEAN]
WorkFlows == [state : {"INVALID", "ONGOING", "FINISH"},
              mode : {"IDLE", "HEIGHT_CALIBRATE", "HEIGHT_CHECK"},
              step : Nat, pressure : Counts, rawCount : Counts]
Messages == [id : {"TRIGGER_HEIGHT_CALIBRATE", "TRIGGER_HEIGHT_CHECK", "HEIGHT_CORRECT",
                   "SC_RESPONSE", "ALARM_EVENT"},
             pressure : CheckPressures \cup {NoPressure}]

CalibrationTyped ==
  /\ workFlow \in WorkFlows
  /\ heights \in [TablePressures -> Counts]
  /\ heightPressure \in Counts /\ targetPressure \in Counts /\ rawHeight \in RawHeights
  /\ stroke \in {"waiting", "triggered", "stroke", "measured", "alarm"}
  /\ ctrlQueue \in Seq(Messages)
  /\ triggering \in BOOLEAN /\ orderly \in BOOLEAN

\* The answers to strokes that wait for the control task.
Answers == {i \in DOMAIN ctrlQueue : ctrlQueue[i].id = "SC_RESPONSE"}
Striking == stroke \in {"triggered", "stroke", "measured"}

\* A stroke is about to be triggered, under way or to be answered, never two of these.
OneStroke ==
  /\ triggering => ~Striking
  /\ triggering \/ Striking => Answers = {}
  /\ \A i, j \in Answers : i = j

\* It is made, measured and stored at the pressure the work flow is at.
PressuresAgree ==
  /\ triggering \/ Striking \/ Answers # {} =>
       heightPressure = workFlow.pressure /\ targetPressure = workFlow.pressure
  /\ stroke = "measured" \/ Answers # {} => rawHeight.count = workFlow.pressure

\* A check that is done with leaves the count of its own pressure.
CheckMeasured ==
  workFlow.mode = "HEIGHT_CHECK" /\ workFlow.state = "FINISH" /\ ~triggering =>
    workFlow.rawCount = workFlow.pressure

-----------------------------------------------------------------------------
(* The queue.                                                              *)

\* A message taken leaves the others, and their answers.
LEMMA QueueTaken ==
  ASSUME CalibrationTyped, NEW id, Receives(id), Taken
  PROVE  /\ Head(ctrlQueue) \in Messages /\ Head(ctrlQueue).id = id
         /\ ctrlQueue' \in Seq(Messages)
         /\ \A i \in Answers' : i + 1 \in Answers
         /\ id = "SC_RESPONSE" => 1 \in Answers
<1>1. ctrlQueue \in Seq(Messages) /\ ctrlQueue # <<>>
  BY DEF CalibrationTyped, Receives
<1>2. /\ Head(ctrlQueue) = ctrlQueue[1] /\ 1 \in DOMAIN ctrlQueue
      /\ ctrlQueue' \in Seq(Messages)
      /\ \A i \in DOMAIN ctrlQueue' : i + 1 \in DOMAIN ctrlQueue /\ ctrlQueue'[i] = ctrlQueue[i + 1]
  BY <1>1 DEF Taken
<1>. QED  BY <1>1, <1>2 DEF Answers, Receives

\* A message appended adds an answer only if it is one.
LEMMA QueueAppended ==
  ASSUME CalibrationTyped, NEW m \in Messages, ctrlQueue' = Append(ctrlQueue, m)
  PROVE  /\ ctrlQueue' \in Seq(Messages)
         /\ m.id # "SC_RESPONSE" => Answers' = Answers
         /\ Answers = {} => \A i, j \in Answers' : i = j
<1>1. ctrlQueue \in Seq(Messages)
  BY DEF CalibrationTyped
<1>2. /\ ctrlQueue' \in Seq(Messages) /\ Len(ctrlQueue') = Len(ctrlQueue) + 1
      /\ ctrlQueue'[Len(ctrlQueue) + 1] = m
      /\ \A i \in 1 .. Len(ctrlQueue) : ctrlQueue'[i] = ctrlQueue[i]
      /\ DOMAIN ctrlQueue = 1 .. Len(ctrlQueue) /\ DOMAIN ctrlQueue' = 1 .. Len(ctrlQueue')
  BY <1>1
<1>3. ASSUME m.id # "SC_RESPONSE" PROVE Answers' = Answers
  BY <1>1, <1>2, <1>3 DEF Answers
<1>4. ASSUME Answers = {} PROVE \A i \in Answers' : i = Len(ctrlQueue) + 1
  BY <1>1, <1>2, <1>4 DEF Answers
<1>. QED  BY <1>2, <1>3, <1>4

\* A reference is a pressure of the table.
LEMMA ReferenceTyped ==
  ASSUME NEW i \in 1 .. Len(CalibrateReference)
  PROVE  CalibrateReference[i] \in TablePressures
BY CalibrationAssumption DEF TablePressures, References

-----------------------------------------------------------------------------
(* Types.                                                                  *)

LEMMA TypeInitial == CalibrationInit => CalibrationTyped
<1>1. NoPressure \in Counts /\ Unmeasured \in Counts /\ NoPoints \in [TablePressures -> Counts]
  BY DEF Counts, NoPoints
<1>2. [state |-> "INVALID", mode |-> "IDLE", step |-> 0, pressure |-> NoPressure,
       rawCount |-> Unmeasured] \in WorkFlows
  BY <1>1 DEF WorkFlows
<1>3. <<>> \in Seq(Messages)
  OBVIOUS
<1>4. [count |-> Unmeasured, calibrated |-> FALSE] \in RawHeights
  BY <1>1 DEF RawHeights
<1>. QED  BY <1>1, <1>2, <1>3, <1>4 DEF CalibrationInit, CalibrationTyped

LEMMA TypeStep == CalibrationTyped /\ [CalibrationNext]_calibrationVars => CalibrationTyped'
<1>. SUFFICES ASSUME CalibrationTyped, [CalibrationNext]_calibrationVars
              PROVE  CalibrationTyped'
  OBVIOUS
<1>0. /\ NoPressure \in Counts /\ Len(CalibrateReference) \in Nat \ {0}
      /\ \A p \in CheckPressures \cup {NoPressure} : p \in Counts
      /\ \A i \in 1 .. Len(CalibrateReference) : CalibrateReference[i] \in Counts
  BY CalibrationAssumption, ReferenceTyped DEF Counts, TablePressures
<1>1. CASE TriggerCalibrate
  <2>1. ctrlQueue' \in Seq(Messages)
    BY <1>1, QueueTaken DEF TriggerCalibrate
  <2>2. CalibrateReference[1] \in Counts
    BY <1>0
  <2>5. workFlow' \in WorkFlows
    BY <1>1, <2>2 DEF TriggerCalibrate, CalibrationTyped, WorkFlows
  <2>3. heights' \in [TablePressures -> Counts]
    BY <1>1 DEF TriggerCalibrate, InitProcess, NoPoints, Counts
  <2>4. orderly' \in BOOLEAN
    BY <1>1 DEF TriggerCalibrate, AtRest
  <2>. QED
    BY <1>1, <2>1, <2>2, <2>3, <2>4, <2>5 DEF TriggerCalibrate, SetPressures, CalibrationTyped
<1>2. CASE TriggerCheck
  <2>1. ctrlQueue' \in Seq(Messages) /\ Head(ctrlQueue).pressure \in Counts
    BY <1>0, <1>2, QueueTaken DEF TriggerCheck, Messages
  <2>2. workFlow' \in WorkFlows
    BY <1>2, <2>1 DEF TriggerCheck, CalibrationTyped, WorkFlows
  <2>3. orderly' \in BOOLEAN
    BY <1>2 DEF TriggerCheck, AtRest
  <2>. QED  BY <1>2, <2>1, <2>2, <2>3 DEF TriggerCheck, SetPressures, CalibrationTyped
<1>3. CASE HeightCorrect
  <2>1. ctrlQueue' \in Seq(Messages)
    BY <1>3, QueueTaken DEF HeightCorrect
  <2>2. rawHeight' \in RawHeights
    BY <1>0, <1>3 DEF HeightCorrect, CalibrationTyped, WorkFlows, RawHeights
  <2>5. Point(rawHeight') \in Counts
    BY <1>0, <2>2 DEF Point, RawHeights
  <2>3. heights' \in [TablePressures -> Counts]
    BY <1>3, <2>5 DEF HeightCorrect, CalibrationTyped
  <2>4. orderly' \in BOOLEAN
    BY <1>3 DEF HeightCorrect, AtRest
  <2>. QED  BY <1>3, <2>1, <2>2, <2>3, <2>4 DEF HeightCorrect, NoTrigger, CalibrationTyped
<1>4. CASE TriggerStroke
  BY <1>4 DEF TriggerStroke, CalibrationTyped, WorkFlows
<1>5. CASE StrokeAnswered
  <2>1. ctrlQueue' \in Seq(Messages)
    BY <1>5, QueueTaken DEF StrokeAnswered
  <2>2. ASSUME RunCalibration
        PROVE  heights' \in [TablePressures -> Counts] /\ workFlow' \in WorkFlows
    <3>0. Point(rawHeight) \in Counts
      BY <1>0 DEF Point, RawHeights, CalibrationTyped
    <3>1. heights' \in [TablePressures -> Counts]
      BY <2>2, <3>0 DEF RunCalibration, CalibrationTyped
    <3>2. UpdateResult(heights') \in {"INVALID", "FINISH"}
      BY DEF UpdateResult
    <3>3. workFlow.step + 1 \in Nat /\ Len(CalibrateReference) \in Nat
      BY <1>0 DEF CalibrationTyped, WorkFlows
    <3>4. CASE workFlow.step + 1 < Len(CalibrateReference)
      <4>1. CalibrateReference[workFlow.step + 1 + 1] \in Counts
        BY <1>0, <3>3, <3>4
      <4>. QED  BY <2>2, <3>1, <3>3, <3>4, <4>1 DEF RunCalibration, CalibrationTyped, WorkFlows
    <3>5. CASE ~(workFlow.step + 1 < Len(CalibrateReference))
      BY <2>2, <3>1, <3>2, <3>3, <3>5 DEF RunCalibration, CalibrationTyped, WorkFlows
    <3>. QED  BY <3>4, <3>5
  <2>3. ASSUME RunCheck
        PROVE  heights' \in [TablePressures -> Counts] /\ workFlow' \in WorkFlows
    BY <2>3 DEF RunCheck, CalibrationTyped, WorkFlows, RawHeights
  <2>4. heights' \in [TablePressures -> Counts] /\ workFlow' \in WorkFlows
    BY <1>5, <2>2, <2>3 DEF StrokeAnswered, RunProcess
  <2>5. workFlow'.pressure \in Counts
    BY <2>4 DEF WorkFlows
  <2>. QED
    BY <1>5, <2>1, <2>4, <2>5 DEF StrokeAnswered, SetPressures, NoTrigger, CalibrationTyped
<1>6. CASE AlarmAnswered
  <2>1. ctrlQueue' \in Seq(Messages)
    BY <1>6, QueueTaken DEF AlarmAnswered
  <2>. QED  BY <1>6, <2>1 DEF AlarmAnswered, ResetProcess, NoTrigger, CalibrationTyped, WorkFlows
<1>7. CASE HeightRequest
  <2>1. ctrlQueue' \in Seq(Messages)
    BY <1>7, QueueAppended DEF HeightRequest, Messages
  <2>. QED  BY <1>7, <2>1 DEF HeightRequest, CalibrationTyped
<1>8. CASE StrokeBegins \/ StrokeMeasured \/ AlarmReset
  BY <1>8 DEF StrokeBegins, StrokeMeasured, AlarmReset, CalibrationTyped, RawHeights
<1>9. CASE StrokeFails
  <2>1. ctrlQueue' \in Seq(Messages)
    BY <1>9, QueueAppended DEF StrokeFails, SCMessage, Messages, CalibrationTyped
  <2>. QED  BY <1>9, <2>1 DEF StrokeFails, CalibrationTyped
<1>11. CASE StrokeEnds \/ StrokeAborted
  <2>1. ctrlQueue' \in Seq(Messages)
    BY <1>11, QueueAppended DEF StrokeEnds, StrokeAborted, Answer, SCMessage, Messages
  <2>2. rawHeight' \in RawHeights /\ orderly' \in BOOLEAN
    BY <1>11 DEF StrokeEnds, StrokeAborted, Answer, RawHeights, CalibrationTyped
  <2>. QED  BY <1>11, <2>1, <2>2 DEF StrokeEnds, StrokeAborted, Answer, CalibrationTyped
<1>10. CASE UNCHANGED calibrationVars
  BY <1>10 DEF calibrationVars, CalibrationTyped
<1>. QED
  BY <1>1, <1>2, <1>3, <1>4, <1>5, <1>6, <1>7, <1>8, <1>9, <1>10, <1>11
  DEF CalibrationNext, ControlTaskStep, StrokeStep

-----------------------------------------------------------------------------
(* The order of requests and strokes.                                      *)

PointsAgree == \A p \in TablePressures : heights[p] # NoPressure => heights[p] = p

\* What an orderly calibration keeps.
Order == OneStroke /\ PressuresAgree /\ CheckMeasured /\ PointsAgree

\* With nothing on its way there is one stroke at most.
LEMMA RestIsNoStroke ==
  ASSUME AtRest, ~triggering
  PROVE  ~Striking /\ Answers = {}
BY DEF AtRest, Striking, Answers

LEMMA OrderStep ==
  ASSUME CalibrationTyped, orderly => Order, [CalibrationNext]_calibrationVars, orderly'
  PROVE  Order'
<1>. USE DEF Order
<1>0. CalibrationTyped'
  BY TypeStep
<1>1. CASE TriggerCalibrate
  <2>1. ~Striking' /\ Answers' = {} /\ triggering'
    BY <1>1, RestIsNoStroke, QueueTaken DEF TriggerCalibrate, Receives, SetPressures, Striking
  <2>2. /\ workFlow'.pressure = heightPressure' /\ workFlow'.pressure = targetPressure'
        /\ workFlow'.mode = "HEIGHT_CALIBRATE"
    BY <1>1 DEF TriggerCalibrate, SetPressures, CalibrationTyped, WorkFlows
  <2>3. PointsAgree'
    BY <1>1 DEF TriggerCalibrate, InitProcess, NoPoints, PointsAgree
  <2>. QED  BY <2>1, <2>2, <2>3 DEF OneStroke, PressuresAgree, CheckMeasured, Striking
<1>2. CASE TriggerCheck
  <2>1. orderly /\ ~Striking' /\ Answers' = {} /\ triggering'
    BY <1>2, RestIsNoStroke, QueueTaken DEF TriggerCheck, Receives, SetPressures, Striking
  <2>2. workFlow'.pressure = heightPressure' /\ workFlow'.pressure = targetPressure'
    BY <1>2 DEF TriggerCheck, SetPressures, CalibrationTyped, WorkFlows
  <2>3. PointsAgree'
    BY <1>2, <2>1 DEF TriggerCheck, PointsAgree
  <2>. QED  BY <2>1, <2>2, <2>3 DEF OneStroke, PressuresAgree, CheckMeasured, Striking
<1>3. CASE HeightCorrect
  <2>1. /\ orderly /\ ~Striking' /\ Answers' = {} /\ ~triggering'
        /\ UNCHANGED workFlow /\ workFlow.rawCount = workFlow.pressure
    BY <1>3, RestIsNoStroke, QueueTaken
    DEF HeightCorrect, Receives, NoTrigger, Striking, CheckMeasured
  <2>2. Point(rawHeight') \in {NoPressure, workFlow.pressure}
    BY <1>3, <2>1 DEF HeightCorrect, Point, CalibrationTyped, RawHeights
  <2>3. PointsAgree'
    BY <1>3, <2>1, <2>2 DEF HeightCorrect, PointsAgree, CalibrationTyped
  <2>. QED  BY <2>1, <2>3 DEF OneStroke, PressuresAgree, CheckMeasured, Striking
<1>4. CASE TriggerStroke
  <2>1. /\ orderly /\ triggering /\ ~triggering' /\ ~Striking /\ Answers' = {}
        /\ UNCHANGED <<heightPressure, targetPressure, heights>>
        /\ stroke' # "measured"
    BY <1>4 DEF TriggerStroke, OneStroke, Striking, Answers
  <2>2. workFlow'.pressure = workFlow.pressure /\ workFlow'.state = "ONGOING"
    BY <1>4 DEF TriggerStroke, CalibrationTyped, WorkFlows
  <2>. QED
    BY <2>1, <2>2 DEF OneStroke, PressuresAgree, CheckMeasured, PointsAgree, Striking
<1>5. CASE StrokeAnswered
  <2>1. /\ orderly /\ ~triggering /\ 1 \in Answers /\ \A i \in Answers' : i + 1 \in Answers
        /\ UNCHANGED <<stroke, rawHeight>>
    BY <1>5, QueueTaken DEF StrokeAnswered, Receives
  <2>2. ~Striking /\ Answers' = {}
    <3>1. \A i \in Answers' : i \in 1 .. Len(ctrlQueue')
      BY <1>0 DEF Answers, CalibrationTyped
    <3>2. ~ \E i \in Answers' : TRUE
      BY <2>1, <3>1 DEF OneStroke
    <3>. QED  BY <2>1, <3>2 DEF OneStroke
  <2>3. ~Striking' /\ stroke' # "measured"
    BY <2>1, <2>2 DEF Striking
  <2>4. /\ rawHeight.count = workFlow.pressure /\ heightPressure = workFlow.pressure
        /\ Point(rawHeight) \in {NoPressure, workFlow.pressure}
    BY <2>1 DEF PressuresAgree, Point
  <2>5. PointsAgree'
    <3>1. ASSUME RunCalibration PROVE PointsAgree'
      BY <2>1, <2>4, <3>1 DEF RunCalibration, PointsAgree, CalibrationTyped
    <3>2. ASSUME RunCheck PROVE PointsAgree'
      BY <2>1, <3>2 DEF RunCheck, PointsAgree
    <3>. QED  BY <1>5, <3>1, <3>2 DEF StrokeAnswered, RunProcess
  <2>6. CheckMeasured'
    <3>1. ASSUME workFlow.mode = "HEIGHT_CALIBRATE", RunCalibration
          PROVE  workFlow'.mode = "HEIGHT_CALIBRATE"
      BY <3>1 DEF RunCalibration, CalibrationTyped, WorkFlows
    <3>2. ASSUME RunCheck PROVE workFlow'.rawCount = workFlow'.pressure
      BY <2>4, <3>2 DEF RunCheck, CalibrationTyped, WorkFlows
    <3>. QED  BY <1>5, <3>1, <3>2 DEF StrokeAnswered, RunProcess, CheckMeasured
  <2>7. triggering' => heightPressure' = workFlow'.pressure /\ targetPressure' = workFlow'.pressure
    BY <1>5, <2>1 DEF StrokeAnswered, SetPressures, NoTrigger
  <2>8. OneStroke' /\ PressuresAgree'
    BY <2>2, <2>3, <2>7 DEF OneStroke, PressuresAgree
  <2>. QED  BY <2>5, <2>6, <2>8
<1>6. CASE AlarmAnswered
  <2>1. /\ orderly /\ \A i \in Answers' : i + 1 \in Answers
        /\ UNCHANGED <<stroke, rawHeight, heights, heightPressure, targetPressure, triggering>>
    BY <1>6, QueueTaken DEF AlarmAnswered, NoTrigger
  <2>2. workFlow'.pressure = workFlow.pressure /\ workFlow'.state = "INVALID"
    BY <1>6 DEF AlarmAnswered, ResetProcess, CalibrationTyped, WorkFlows
  <2>3. Answers' # {} => Answers # {}
    BY <2>1
  <2>4. \A i, j \in Answers' : i = j
    <3>. SUFFICES ASSUME NEW i \in Answers', NEW j \in Answers' PROVE i = j
      OBVIOUS
    <3>1. i \in Nat /\ j \in Nat
      BY <1>0 DEF Answers, CalibrationTyped
    <3>2. i + 1 = j + 1
      BY <2>1 DEF OneStroke
    <3>. QED  BY <3>1, <3>2
  <2>. QED
    BY <2>1, <2>2, <2>3, <2>4
    DEF OneStroke, PressuresAgree, CheckMeasured, PointsAgree, Striking
<1>7. CASE HeightRequest
  <2>1. Answers' = Answers
    BY <1>7, QueueAppended DEF HeightRequest, Messages
  <2>. QED
    BY <1>7, <2>1
    DEF HeightRequest, OneStroke, PressuresAgree, CheckMeasured, PointsAgree, Striking
<1>8. CASE StrokeBegins \/ StrokeMeasured
  <2>1. /\ Answers = {} /\ Answers' = Answers /\ ~triggering
        /\ targetPressure = workFlow.pressure /\ heightPressure = workFlow.pressure
    BY <1>8 DEF StrokeBegins, StrokeMeasured, OneStroke, PressuresAgree, Striking, Answers
  <2>2. /\ orderly /\ UNCHANGED <<workFlow, heights, heightPressure, targetPressure, triggering>>
        /\ stroke' = "measured" => rawHeight'.count = targetPressure
    BY <1>8 DEF StrokeBegins, StrokeMeasured, CalibrationTyped, RawHeights
  <2>3. OneStroke' /\ PressuresAgree'
    BY <2>1, <2>2 DEF OneStroke, PressuresAgree
  <2>4. CheckMeasured' /\ PointsAgree'
    BY <2>2 DEF CheckMeasured, PointsAgree
  <2>. QED  BY <2>3, <2>4
<1>9. CASE StrokeEnds \/ StrokeAborted
  <2>0. /\ orderly /\ stroke = "measured" /\ Answer
    BY <1>9 DEF StrokeEnds, StrokeAborted
  <2>1. /\ Answers = {} /\ ~triggering /\ rawHeight.count = workFlow.pressure
        /\ targetPressure = workFlow.pressure /\ heightPressure = workFlow.pressure
    BY <2>0 DEF OneStroke, PressuresAgree, Striking
  <2>2. \A i, j \in Answers' : i = j
    BY <2>0, <2>1, QueueAppended DEF Answer, SCMessage, Messages
  <2>3. rawHeight'.count = rawHeight.count
    BY <2>0 DEF Answer, CalibrationTyped, RawHeights
  <2>. QED
    BY <2>0, <2>1, <2>2, <2>3
    DEF Answer, OneStroke, PressuresAgree, CheckMeasured, PointsAgree, Striking
<1>10. CASE StrokeFails
  <2>1. /\ stroke' = "alarm"
        /\ UNCHANGED <<workFlow, heights, heightPressure, targetPressure, rawHeight, triggering>>
    BY <1>10 DEF StrokeFails
  <2>2. ctrlQueue' = SCMessage("ALARM_EVENT") /\ orderly
    BY <1>10 DEF StrokeFails
  <2>3. Answers' = Answers
    BY <2>2, QueueAppended DEF SCMessage, Messages
  <2>4. OneStroke' /\ PressuresAgree'
    BY <2>1, <2>2, <2>3 DEF OneStroke, PressuresAgree, Striking
  <2>5. CheckMeasured' /\ PointsAgree'
    BY <2>1, <2>2 DEF CheckMeasured, PointsAgree
  <2>. QED  BY <2>4, <2>5
<1>11. CASE AlarmReset \/ UNCHANGED calibrationVars
  <2>1. /\ orderly /\ Answers' = Answers /\ stroke' \in {stroke, "waiting"}
        /\ UNCHANGED <<workFlow, heights, heightPressure, targetPressure, rawHeight, triggering>>
    BY <1>11 DEF AlarmReset, calibrationVars, Answers
  <2>2. OneStroke' /\ PressuresAgree'
    BY <2>1 DEF OneStroke, PressuresAgree, Striking
  <2>3. CheckMeasured' /\ PointsAgree'
    BY <2>1 DEF CheckMeasured, PointsAgree
  <2>. QED  BY <2>2, <2>3
<1>. QED
  BY <1>1, <1>2, <1>3, <1>4, <1>5, <1>6, <1>7, <1>8, <1>9, <1>10, <1>11
  DEF CalibrationNext, ControlTaskStep, StrokeStep

\* Every point of the table was measured at its own pressure, through alarms,
\* resets, corrections and new calibrations, as long as no request disturbs a
\* stroke: for any references, check pressures and number of waiting messages.
THEOREM PointsCorrect == CalibrationSpec => []PointsMeasured
<1>. DEFINE Inv == CalibrationTyped /\ (orderly => Order)
<1>1. CalibrationInit => Inv
  BY TypeInitial DEF CalibrationInit
<1>2. Inv /\ [CalibrationNext]_calibrationVars => Inv'
  BY TypeStep, OrderStep
<1>3. Inv => PointsMeasured
  BY DEF Order, PointsAgree, PointsMeasured, Calibrated
<1>. QED  BY <1>1, <1>2, <1>3, PTL DEF CalibrationSpec
=============================================================================
