------------------------------- MODULE Cooling -------------------------------
(***************************************************************************)
(* The cooling air after a weld.  The SC, in the interrupt, resets the     *)
(* cooling timer as the sonics start and sets it as they end; the actuator *)
(* task counts it down, a delay first and then a duration, and switches    *)
(* the air.  Neither locks the timer: an interrupt may fall between any    *)
(* two accesses of the task.                                               *)
(***************************************************************************)
EXTENDS Integers

CONSTANTS
  CoolingSetups,    \* [option, delay, duration]: what the configuration may say
  Energies,         \* Energy / 1000 of a weld, the seconds of SECOND_PER_100JOULE
  MinDuration,      \* the 5 a duration is compared with
  DefaultDuration,  \* the 5000 ms that replace a shorter one
  Milliseconds,     \* in a second
  Words             \* 2^32, the values of a counter

ASSUME CoolingAssumption ==
  /\ Words \in Nat \ {0}
  /\ DefaultDuration \in 0 .. (Words - 1)
  /\ CoolingSetups \subseteq [option : {"DISABLE", "SECOND_PER_100JOULE", "OTHER"},
                              delay : 0 .. (Words - 1), duration : 0 .. (Words - 1)]
  /\ Energies \subseteq Nat /\ MinDuration \in Nat /\ Milliseconds \in Nat

VARIABLES
  coolingSetup,    \* the system configuration
  coolingEnabled,  \* IsCoolingTimerEnabled
  coolingTimer,    \* CoolingTimer: [delay, duration]
  coolingAir,      \* O_COOLAIR
  sonics,          \* WELD_SONIC_ON runs
  counting,        \* the actuator task within RunCoolingTimer: [at, of, value]
  disturbed        \* history: this weld's reset cut into a count of the duration,
                   \* or the air was switched on by hand in it

coolingVars == <<coolingSetup, coolingEnabled, coolingTimer, coolingAir, sonics, counting,
                 disturbed>>

Counters == {"delay", "duration"}
Timer(delay, duration) == [c \in Counters |-> IF c = "delay" THEN delay ELSE duration]

\* Between two calls of RunCoolingTimer.
NotCounting == [at |-> "idle", of |-> "delay", value |-> 0]

CoolingInit ==
  /\ coolingSetup \in CoolingSetups
  /\ coolingEnabled = FALSE
  /\ coolingTimer = Timer(0, 0)
  /\ coolingAir = FALSE
  /\ sonics = FALSE
  /\ counting = NotCounting
  /\ disturbed = FALSE

-----------------------------------------------------------------------------
(* RunCoolingTimer, once per ms in the actuator task.                      *)

\* The delay is looked at first, and the duration only past it.
TestDelay ==
  /\ coolingEnabled
  /\ counting.at = "idle"
  /\ counting' = [NotCounting EXCEPT !.at = IF coolingTimer["delay"] # 0 THEN "due" ELSE "passed"]
  /\ UNCHANGED <<coolingSetup, coolingEnabled, coolingTimer, coolingAir, sonics, disturbed>>

TestDuration ==
  /\ counting.at = "passed"
  /\ counting' = [NotCounting EXCEPT !.at = IF coolingTimer["duration"] # 0 THEN "due" ELSE "off",
                                     !.of = "duration"]
  /\ UNCHANGED <<coolingSetup, coolingEnabled, coolingTimer, coolingAir, sonics, disturbed>>

\* The air goes on with the duration; the counter is read once more.
LoadCounter ==
  /\ counting.at = "due"
  /\ coolingAir' = (coolingAir \/ counting.of = "duration")
  /\ counting' = [counting EXCEPT !.at = "loaded", !.value = coolingTimer[counting.of]]
  /\ UNCHANGED <<coolingSetup, coolingEnabled, coolingTimer, sonics, disturbed>>

StoreCounter ==
  /\ counting.at = "loaded"
  /\ coolingTimer' = [coolingTimer EXCEPT ![counting.of] = (counting.value - 1) % Words]
  /\ counting' = NotCounting
  /\ UNCHANGED <<coolingSetup, coolingEnabled, coolingAir, sonics, disturbed>>

\* Slip: a timer that has run out leaves the air alone.
AirOffSlip ==
  /\ counting.at = "off"
  /\ counting' = NotCounting
  /\ UNCHANGED <<coolingSetup, coolingEnabled, coolingTimer, coolingAir, sonics, disturbed>>

AirOff ==
  /\ counting.at = "off"
  /\ coolingAir' = FALSE
  /\ counting' = NotCounting
  /\ UNCHANGED <<coolingSetup, coolingEnabled, coolingTimer, sonics, disturbed>>

RunCoolingTimer == TestDelay \/ TestDuration \/ LoadCounter \/ StoreCounter \/ AirOff

-----------------------------------------------------------------------------
(* The rest of the actuator task, between two of these calls.              *)

\* COOLING_TIMER_ENABLE follows every mode request.
EnableCoolingTimer(enabled) ==
  /\ counting.at = "idle"
  /\ coolingEnabled' = enabled
  /\ UNCHANGED <<coolingSetup, coolingTimer, coolingAir, sonics, counting, disturbed>>

\* AUX_MOTION of the HMI: DO_COOLING_ON, DO_COOLING_OFF.
DoCooling(on) ==
  /\ counting.at = "idle"
  /\ coolingAir' = on
  /\ disturbed' = (disturbed \/ (on /\ sonics))
  /\ UNCHANGED <<coolingSetup, coolingEnabled, coolingTimer, sonics, counting>>

\* ACReady::Enter: DO_COOLING_OFF.
ACReadyCoolingOff ==
  /\ counting.at = "idle"
  /\ coolingAir' = FALSE
  /\ UNCHANGED <<coolingSetup, coolingEnabled, coolingTimer, sonics, counting, disturbed>>

-----------------------------------------------------------------------------
(* The SC, in the interrupt.                                               *)

\* Slip: the air is off but the timer runs on.
ResetCoolingTimerSlip ==
  /\ coolingAir' = FALSE
  /\ UNCHANGED coolingTimer

ResetCoolingTimer ==
  /\ coolingTimer' = Timer(0, 0)
  /\ coolingAir' = FALSE

\* The count of the duration that the reset cuts into.
DurationCounted == counting.at \in {"due", "loaded"} /\ counting.of = "duration"

\* WeldSonicOn::Enter
WeldSonicOnEnter ==
  /\ ~sonics
  /\ sonics' = TRUE
  /\ ResetCoolingTimer
  /\ disturbed' = DurationCounted
  /\ UNCHANGED <<coolingSetup, coolingEnabled, counting>>

\* The duration for a weld's energy.  What is compared with the minimum is
\* the old duration, which the weld's own reset has left 0.
DurationOfEnergy(seconds) ==
  IF coolingTimer["duration"] < MinDuration THEN DefaultDuration
  ELSE (seconds * Milliseconds) % Words

TimerOf(seconds) ==
  CASE coolingSetup.option = "DISABLE" ->
         Timer(coolingSetup.delay, coolingSetup.duration)
    [] coolingSetup.option = "SECOND_PER_100JOULE" ->
         Timer(coolingSetup.delay, DurationOfEnergy(seconds))
    [] OTHER -> Timer(0, 0)

SetCoolingTimer(seconds) ==
  /\ coolingTimer' = TimerOf(seconds)
  /\ coolingAir' = (coolingTimer'["delay"] = 0 /\ coolingTimer'["duration"] # 0)

\* WeldSonicOn::Exit: a weld whose pre-height was missed sets no timer.
WeldSonicOnExit ==
  /\ sonics
  /\ sonics' = FALSE
  /\ \/ \E seconds \in Energies : SetCoolingTimer(seconds)
     \/ UNCHANGED <<coolingTimer, coolingAir>>
  /\ UNCHANGED <<coolingSetup, coolingEnabled, counting, disturbed>>

-----------------------------------------------------------------------------

CoolingNext ==
  \/ RunCoolingTimer
  \/ \E enabled \in BOOLEAN : EnableCoolingTimer(enabled)
  \/ \E on \in BOOLEAN : DoCooling(on)
  \/ ACReadyCoolingOff
  \/ WeldSonicOnEnter
  \/ WeldSonicOnExit

CoolingSpec == CoolingInit /\ [][CoolingNext]_coolingVars

-----------------------------------------------------------------------------
(* Properties.                                                             *)

CoolingTypeOK ==
  /\ coolingSetup \in CoolingSetups
  /\ coolingEnabled \in BOOLEAN
  /\ coolingTimer \in [Counters -> 0 .. (Words - 1)]
  /\ coolingAir \in BOOLEAN
  /\ sonics \in BOOLEAN
  /\ counting \in [at : {"idle", "passed", "due", "loaded", "off"}, of : Counters,
                   value : 0 .. (Words - 1)]
  /\ disturbed \in BOOLEAN

\* From the start of the sonics to their end the air is off
\* (ResetCoolingTimer: "the cooling should be close until the current weld
\* cycle finished"), whatever the task was counting, whatever is enabled
\* meanwhile - but for the one unlocked spot that remains: a reset between
\* the task's test of the duration and its store.
CoolingOffInWeld == sonics => ~coolingAir \/ disturbed

\* While the timer is enabled the air does not stay on, however often the
\* timer is set, reset or passed over by hand.
CoolingEnds == coolingAir ~> (~coolingAir \/ ~coolingEnabled)
=============================================================================
