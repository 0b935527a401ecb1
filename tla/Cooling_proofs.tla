--------------------------- MODULE Cooling_proofs ---------------------------
(***************************************************************************)
(* The air is off during a weld, for every configuration, every length of  *)
(* the counters and every interleaving of the interrupt with the task.     *)
(***************************************************************************)
EXTENDS Cooling, TLAPS

\* The counters are words: what a count stores is one.
LEMMA StoredWord == ASSUME NEW v \in 0 .. (Words - 1)
                    PROVE  (v - 1) % Words \in 0 .. (Words - 1)
BY CoolingAssumption

\* What WeldSonicOn::Exit sets the timer to is a timer.
LEMMA TimerIsTimer ==
  ASSUME CoolingTypeOK, NEW seconds \in Energies
  PROVE  TimerOf(seconds) \in [Counters -> 0 .. (Words - 1)]
<1>1. DurationOfEnergy(seconds) \in 0 .. (Words - 1)
  <2>1. seconds * Milliseconds \in Nat
    BY CoolingAssumption
  <2>2. (seconds * Milliseconds) % Words \in 0 .. (Words - 1)
    BY <2>1, CoolingAssumption
  <2>. QED BY <2>2, CoolingAssumption DEF DurationOfEnergy
<1>2. coolingSetup \in [option : {"DISABLE", "SECOND_PER_100JOULE", "OTHER"},
                        delay : 0 .. (Words - 1), duration : 0 .. (Words - 1)]
  BY CoolingAssumption DEF CoolingTypeOK
<1>3. /\ 0 \in 0 .. (Words - 1)
      /\ coolingSetup.delay \in 0 .. (Words - 1)
      /\ coolingSetup.duration \in 0 .. (Words - 1)
  BY <1>2, CoolingAssumption
<1>4. \A d, e \in 0 .. (Words - 1) :
        Timer(d, e) \in [Counters -> 0 .. (Words - 1)]
  BY DEF Timer
<1>5. CASE coolingSetup.option = "DISABLE"
  BY <1>3, <1>4, <1>5 DEF TimerOf
<1>6. CASE coolingSetup.option = "SECOND_PER_100JOULE"
  BY <1>1, <1>3, <1>4, <1>6 DEF TimerOf
<1>7. CASE coolingSetup.option \notin {"DISABLE", "SECOND_PER_100JOULE"}
  BY <1>3, <1>4, <1>7 DEF TimerOf
<1>. QED BY <1>5, <1>6, <1>7

\* Every variable keeps its type; in particular the counters stay words
\* whatever the interrupt writes between a load and a store.
THEOREM CoolingTyped == CoolingSpec => []CoolingTypeOK
<1>1. CoolingInit => CoolingTypeOK
  <2>1. 0 \in 0 .. (Words - 1)
    BY CoolingAssumption
  <2>2. Timer(0, 0) \in [Counters -> 0 .. (Words - 1)]
    BY <2>1 DEF Timer
  <2>3. NotCounting \in [at : {"idle", "passed", "due", "loaded", "off"}, of : Counters,
                         value : 0 .. (Words - 1)]
    BY <2>1 DEF NotCounting, Counters
  <2>. QED BY <2>2, <2>3 DEF CoolingInit, CoolingTypeOK
<1>2. CoolingTypeOK /\ [CoolingNext]_coolingVars => CoolingTypeOK'
  <2>. SUFFICES ASSUME CoolingTypeOK, [CoolingNext]_coolingVars PROVE CoolingTypeOK'
    OBVIOUS
  <2>. USE DEF CoolingTypeOK
  <2>0. 0 \in 0 .. (Words - 1)
    BY CoolingAssumption
  <2>1. CASE TestDelay
    BY <2>0, <2>1 DEF TestDelay, NotCounting, Counters
  <2>11. CASE TestDuration
    BY <2>0, <2>11 DEF TestDuration, NotCounting, Counters
  <2>2. CASE LoadCounter
    BY <2>2 DEF LoadCounter, Counters
  <2>3. CASE StoreCounter
    <3>1. (counting.value - 1) % Words \in 0 .. (Words - 1)
      BY StoredWord
    <3>. QED BY <2>0, <2>3, <3>1 DEF StoreCounter, NotCounting, Counters
  <2>4. CASE AirOff
    BY <2>0, <2>4 DEF AirOff, NotCounting, Counters
  <2>5. CASE \E enabled \in BOOLEAN : EnableCoolingTimer(enabled)
    BY <2>5 DEF EnableCoolingTimer
  <2>6. CASE \E on \in BOOLEAN : DoCooling(on)
    BY <2>6 DEF DoCooling
  <2>7. CASE ACReadyCoolingOff
    BY <2>7 DEF ACReadyCoolingOff
  <2>8. CASE WeldSonicOnEnter
    BY <2>0, <2>8 DEF WeldSonicOnEnter, ResetCoolingTimer, DurationCounted, Timer, Counters
  <2>9. CASE WeldSonicOnExit
    <3>1. CASE UNCHANGED <<coolingTimer, coolingAir>>
      BY <2>9, <3>1 DEF WeldSonicOnExit
    <3>2. CASE \E seconds \in Energies : SetCoolingTimer(seconds)
      <4>1. PICK seconds \in Energies : SetCoolingTimer(seconds)
        BY <3>2
      <4>2. coolingTimer' \in [Counters -> 0 .. (Words - 1)] /\ coolingAir' \in BOOLEAN
        BY <4>1, TimerIsTimer DEF SetCoolingTimer
      <4>. QED BY <2>9, <4>2 DEF WeldSonicOnExit
    <3>. QED BY <2>9, <3>1, <3>2 DEF WeldSonicOnExit
  <2>10. CASE UNCHANGED coolingVars
    BY <2>10 DEF coolingVars
  <2>. QED BY <2>1, <2>2, <2>3, <2>4, <2>5, <2>6, <2>7, <2>8, <2>9, <2>10, <2>11
           DEF CoolingNext, RunCoolingTimer
<1>. QED BY <1>1, <1>2, PTL DEF CoolingSpec

\* During an undisturbed weld the duration is nought and the task does not
\* count it: so nothing will switch the air on.
NothingToCool ==
  sonics /\ ~disturbed => ~coolingAir /\ coolingTimer["duration"] = 0 /\ ~DurationCounted

\* The safety property of the run `services', strengthened by what it rests
\* on: the reset has left no duration, and a count of the delay cannot make one.
THEOREM CoolingSafe == CoolingSpec => []CoolingOffInWeld
<1>. DEFINE IInv == CoolingTypeOK /\ NothingToCool
<1>1. CoolingInit => NothingToCool
  BY DEF CoolingInit, NothingToCool
<1>2. CoolingTypeOK /\ NothingToCool /\ [CoolingNext]_coolingVars => NothingToCool'
  <2>. SUFFICES ASSUME CoolingTypeOK, NothingToCool, [CoolingNext]_coolingVars
                PROVE  NothingToCool'
    OBVIOUS
  <2>. USE DEF NothingToCool, DurationCounted
  <2>1. CASE TestDelay
    BY <2>1 DEF TestDelay, NotCounting
  <2>11. CASE TestDuration
    BY <2>11 DEF TestDuration, NotCounting
  <2>2. CASE LoadCounter
    BY <2>2 DEF LoadCounter, CoolingTypeOK
  <2>3. CASE StoreCounter
    <3>1. CASE counting.of = "duration"
      BY <2>3, <3>1 DEF StoreCounter, NotCounting
    <3>2. CASE counting.of = "delay"
      BY <2>3, <3>2 DEF StoreCounter, NotCounting, CoolingTypeOK, Counters
    <3>. QED BY <3>1, <3>2 DEF CoolingTypeOK, Counters
  <2>4. CASE AirOff
    BY <2>4 DEF AirOff, NotCounting
  <2>5. CASE \E enabled \in BOOLEAN : EnableCoolingTimer(enabled)
    BY <2>5 DEF EnableCoolingTimer
  <2>6. CASE \E on \in BOOLEAN : DoCooling(on)
    <3>1. CASE DoCooling(TRUE)
      <4>1. sonics' /\ ~disturbed' => ~sonics /\ sonics
        BY <3>1, Zenon DEF DoCooling
      <4>. QED BY <4>1
    <3>2. CASE DoCooling(FALSE)
      <4>1. /\ ~coolingAir'
            /\ sonics' /\ ~disturbed' => sonics /\ ~disturbed
            /\ UNCHANGED <<coolingTimer, counting>>
        BY <3>2, Zenon DEF DoCooling
      <4>. QED BY <4>1
    <3>. QED BY <2>6, <3>1, <3>2
  <2>7. CASE ACReadyCoolingOff
    BY <2>7 DEF ACReadyCoolingOff
  <2>8. CASE WeldSonicOnEnter
    BY <2>8 DEF WeldSonicOnEnter, ResetCoolingTimer, Timer, Counters
  <2>9. CASE WeldSonicOnExit
    BY <2>9 DEF WeldSonicOnExit
  <2>10. CASE UNCHANGED coolingVars
    BY <2>10 DEF coolingVars
  <2>. QED BY <2>1, <2>2, <2>3, <2>4, <2>5, <2>6, <2>7, <2>8, <2>9, <2>10, <2>11
           DEF CoolingNext, RunCoolingTimer
<1>3. NothingToCool => CoolingOffInWeld
  BY DEF NothingToCool, CoolingOffInWeld
<1>. QED BY <1>1, <1>2, <1>3, CoolingTyped, PTL DEF CoolingSpec
=============================================================================
