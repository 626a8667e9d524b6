------------------------------- MODULE Osccal -------------------------------
(***************************************************************************)
(* The calibration of the oscillator (osccal.c).  usbPoll calls            *)
(* OSCCAL_Start at the end of every bus reset: a binary search for the     *)
(* last value of OSCCAL that is too slow, a look at its neighbours, and    *)
(* the best value is stored in EEPROM for the next start.                  *)
(*                                                                         *)
(* What usbMeasureFrameLength returns depends on OSCCAL in a way that      *)
(* changes with the supply and the temperature: it rises with OSCCAL in    *)
(* each half of its range, and falls back where the upper half begins.     *)
(* The watchdog ends a search that does not.                               *)
(***************************************************************************)
EXTENDS Integers

CONSTANTS
  Half,        \* 128: the first step of the search
  Curves,      \* the frame lengths that may be measured, by OSCCAL
  targetValue,
  Factory      \* OSCCAL when the chip leaves reset

Values == 0 .. 2 * Half - 1
OSCCAL_INVALID == 2 * Half - 1

(* The steps of the search: what a uchar that is shifted right can hold    *)
(* before it is 0.                                                         *)
Steps == {1, 2, 4, 8, 16, 32, 64, 128}

Rises(f, from) ==
  \A v, w \in from .. from + Half - 1 : v < w => f[v] < f[w]

(* One step of OSCCAL never more than doubles the frequency: the length    *)
(* osccal.c:36 takes for a first deviation is no better than any that the  *)
(* values next to the target have.                                         *)
Fine(f) == \A v \in 0 .. 2 * Half - 2 : f[v + 1] <= 2 * f[v]

ASSUME HalfAssumption == Half \in Steps \ {1} /\ Factory \in Values
ASSUME CurvesAssumption ==
  /\ Curves \subseteq [Values -> Nat] /\ targetValue \in Nat
  /\ \A f \in Curves :
       Rises(f, 0) /\ Rises(f, Half) /\ f[Half] < f[Half - 1] /\ Fine(f)

VARIABLES
  OSCCAL,
  eeprom,      \* OSCCAL_EEP_VALUE
  pc,          \* "run", or the part of OSCCAL_Start: "search", "neighbours",
               \* "store"
  trialValue, step, x, optimumValue, optimumDev,
  frameLength  \* the member of Curves that holds at present

local == <<trialValue, step, x, optimumValue, optimumDev>>
vars == <<OSCCAL, eeprom, pc, local, frameLength>>

(* Definitions whose names end in _fault are faulty variants of the        *)
(* definition that follows them.  No action uses one; each shows that some *)
(* property would notice the fault.                                        *)

OSCCAL_Init(calib) == IF calib # OSCCAL_INVALID THEN calib ELSE Factory

Init ==
  /\ eeprom = OSCCAL_INVALID /\ OSCCAL = OSCCAL_Init(eeprom)
  /\ pc = "run"
  /\ trialValue = 0 /\ step = 0 /\ x = 0 /\ optimumValue = 0 /\ optimumDev = 0
  /\ frameLength \in Curves

(* The end of a bus reset.                                                 *)
OSCCAL_Start ==
  /\ pc = "run"
  /\ pc' = "search"
  /\ step' = Half /\ trialValue' = 0
  /\ UNCHANGED <<OSCCAL, eeprom, x, optimumValue, optimumDev, frameLength>>

SearchStep ==
  /\ pc = "search" /\ step > 0
  /\ OSCCAL' = trialValue + step
  /\ x' = frameLength[OSCCAL']
  /\ trialValue' = IF x' < targetValue THEN trialValue + step ELSE trialValue
  /\ step' = step \div 2
  /\ UNCHANGED <<eeprom, pc, optimumValue, optimumDev, frameLength>>

(* The loop over the neighbours counts with OSCCAL itself, eight bits      *)
(* wide; its bound is an int.  From 0 it starts at the largest value and   *)
(* is over at once; from the last two values it never ends.                *)
Counted(v) == v % (2 * Half)

WrappedLoop_fault == OSCCAL # Counted(trialValue + 2)
InLoop_fault == OSCCAL <= trialValue + 2
InLoop == OSCCAL <= trialValue + 1

SearchEnds ==
  /\ pc = "search" /\ step = 0
  /\ pc' = "neighbours"
  /\ optimumValue' = trialValue /\ optimumDev' = x
  /\ OSCCAL' = Counted(trialValue - 1)
  /\ UNCHANGED <<eeprom, trialValue, step, x, frameLength>>

Deviation_fault(v) == frameLength[v] - targetValue
Deviation(v) ==
  IF frameLength[v] < targetValue THEN targetValue - frameLength[v]
  ELSE frameLength[v] - targetValue

Compare ==
  /\ pc = "neighbours" /\ InLoop
  /\ x' = Deviation(OSCCAL)
  /\ IF x' < optimumDev
     THEN optimumDev' = x' /\ optimumValue' = OSCCAL
     ELSE UNCHANGED <<optimumDev, optimumValue>>
  /\ OSCCAL' = Counted(OSCCAL + 1)
  /\ UNCHANGED <<eeprom, pc, trialValue, step, frameLength>>

LoopEnds ==
  /\ pc = "neighbours" /\ ~InLoop
  /\ pc' = "store" /\ OSCCAL' = optimumValue
  /\ UNCHANGED <<eeprom, local, frameLength>>

Store ==
  /\ pc = "store"
  /\ pc' = "run" /\ eeprom' = OSCCAL
  /\ UNCHANGED <<OSCCAL, local, frameLength>>

(* The plug or the watchdog.  A byte of EEPROM that was being written may  *)
(* hold anything afterwards.                                               *)
Restart ==
  /\ eeprom' \in IF pc = "store" THEN Values ELSE {eeprom}
  /\ OSCCAL' = OSCCAL_Init(eeprom')
  /\ pc' = "run"
  /\ frameLength' \in Curves
  /\ trialValue' = 0 /\ step' = 0 /\ x' = 0 /\ optimumValue' = 0 /\ optimumDev' = 0

Calibrate == SearchStep \/ SearchEnds \/ Compare \/ LoopEnds \/ Store
Next == OSCCAL_Start \/ Calibrate \/ Restart

(* The main loop is inside OSCCAL_Start until it returns.                  *)
Spec == Init /\ [][Next]_vars /\ WF_vars(Calibrate)
------------------------------------------------------------------------------
(* Properties                                                              *)

TypeOK ==
  /\ OSCCAL \in Values /\ eeprom \in Values
  /\ pc \in {"run", "search", "neighbours", "store"}
  /\ trialValue \in Values /\ step \in Steps \cup {0} /\ step <= Half
  /\ x \in Nat /\ optimumValue \in Values /\ optimumDev \in Nat
  /\ frameLength \in Curves

SameHalf(v, w) == v < Half <=> w < Half

(* Whatever value the oscillator ran with before, no value in the half of  *)
(* the range that the search went into is better than the one that         *)
(* OSCCAL_Start ends with.  Where the search ends at 0, and does not look  *)
(* at the neighbours, 1 may be better: +/- 1, as osccal.c:35 says.         *)
ResultIsBest ==
  pc = "store" =>
    \A v \in Values : SameHalf(v, trialValue) =>
      \/ Deviation(OSCCAL) <= Deviation(v)
      \/ trialValue = 0 /\ OSCCAL = 0 /\ Deviation(1) <= Deviation(v)

(* The value stored is never the one that OSCCAL_Init takes for none.      *)
StoredIsUsed == pc = "store" => OSCCAL # OSCCAL_INVALID

(* Where an oscillator reaches the target before its last value, every     *)
(* calibration ends: the watchdog is not needed.                           *)
CalibrationEnds ==
  frameLength[2 * Half - 2] >= targetValue /\ pc # "run" ~> pc = "run"
=============================================================================
