----------------------------- MODULE ClockProofs -----------------------------
(***************************************************************************)
(* Proofs about what keeps the device's time.                              *)
(*                                                                         *)
(* The oscillator: for all oscillators, and a register of two to eight     *)
(* bits, the search of the calibration stays inside the range, what it     *)
(* ends with is the best value of its half, and what it stores is a value  *)
(* that OSCCAL_Init uses.                                                  *)
(*                                                                         *)
(* The scheduler and the buttons it reads, for all periods, sizes of the   *)
(* counters, debounce times and samples.                                   *)
(***************************************************************************)
EXTENDS Osccal, Buttons, TLAPS

------------------------------------------------------------------------------
(* The calibration.                                                        *)

LEMMA Sizes ==
  /\ Half \in Nat /\ Half >= 2 /\ Half \in Steps /\ Factory \in Values
  /\ targetValue \in Nat
  /\ \A f \in Curves : f \in [Values -> Nat]
BY HalfAssumption, CurvesAssumption DEF Steps

(* A step is halved exactly until it is 1.                                 *)
LEMMA Halved ==
  ASSUME NEW s \in Steps
  PROVE  /\ s \in Nat /\ s >= 1 /\ s \div 2 \in Steps \cup {0}
         /\ s = 1 => s \div 2 = 0
         /\ s > 1 => s \div 2 > 0 /\ 2 * (s \div 2) = s
BY DEF Steps

Above == trialValue + IF step = 0 THEN 1 ELSE 2 * step

(* The binary search has the target between trialValue, whose frequency is *)
(* too low unless it is 0, and Above, whose frequency is not unless it is  *)
(* past the range; x is the length of one of the two.                      *)
SearchInv ==
  pc = "search" =>
    /\ Above <= 2 * Half
    /\ trialValue > 0 => frameLength[trialValue] < targetValue
    /\ Above < 2 * Half => frameLength[Above] >= targetValue
    /\ step < Half =>
         \/ trialValue > 0 /\ x = frameLength[trialValue]
         \/ Above < 2 * Half /\ x = frameLength[Above]

Found ==
  /\ trialValue > 0 => frameLength[trialValue] < targetValue
  /\ trialValue + 1 < 2 * Half => frameLength[trialValue + 1] >= targetValue

(* The value the loop over the neighbours holds for the best deviates no   *)
(* more than optimumDev, and none of those before OSCCAL deviates less.    *)
(* The search never leaves the loop with the last two values.              *)
NeighbourInv ==
  /\ pc = "neighbours" =>
       /\ Found
       /\ trialValue = 0 => OSCCAL = 2 * Half - 1 /\ optimumValue = 0
       /\ trialValue > 0 /\ trialValue < 2 * Half - 2 =>
            /\ trialValue - 1 <= OSCCAL /\ OSCCAL <= trialValue + 2
            /\ optimumValue <= trialValue + 1
            /\ Deviation(optimumValue) <= optimumDev
            /\ \A v \in Values :
                 trialValue - 1 <= v /\ v < OSCCAL => optimumDev <= Deviation(v)
  /\ pc = "store" =>
       /\ Found
       /\ trialValue = 0 => OSCCAL = 0
       /\ trialValue > 0 =>
            /\ trialValue < 2 * Half - 2 /\ OSCCAL <= trialValue + 1
            /\ Deviation(OSCCAL) <= Deviation(trialValue)
            /\ Deviation(OSCCAL) <= Deviation(trialValue + 1)

CalibrationInv == TypeOK /\ SearchInv /\ NeighbourInv

LEMMA FrameType ==
  ASSUME TypeOK, NEW v \in Values
  PROVE  frameLength[v] \in Nat /\ Deviation(v) \in Nat
<1>1. frameLength[v] \in Nat
  BY Sizes DEF TypeOK
<1> QED BY <1>1, Sizes DEF Deviation

LEMMA CountedType ==
  ASSUME NEW v \in Int PROVE Counted(v) \in Values
BY Sizes DEF Counted, Values

LEMMA CountedValue ==
  /\ Counted(-1) = 2 * Half - 1
  /\ \A v \in Values : Counted(v) = v
  /\ Counted(2 * Half) = 0
<1>1. DEFINE n == 2 * Half
<1>2. n \in Nat /\ n > 0
  BY Sizes
<1>3. \A v \in 0 .. n - 1 : v % n = v
  BY <1>2
<1>4. (-1) % n = n - 1 /\ n % n = 0
  BY <1>2
<1> QED BY <1>3, <1>4 DEF Counted, Values

LEMMA StartInv ==
  ASSUME CalibrationInv, OSCCAL_Start PROVE CalibrationInv'
<1>1. /\ pc' = "search" /\ step' = Half /\ trialValue' = 0
      /\ Half \in Nat /\ Half >= 2 /\ Half \in Steps
  BY Sizes DEF OSCCAL_Start
<1>2. Above' = 2 * Half
  BY <1>1 DEF Above
<1>3. TypeOK'
  BY <1>1 DEF OSCCAL_Start, CalibrationInv, TypeOK, Values
<1>4. SearchInv' /\ NeighbourInv'
  BY <1>1, <1>2 DEF SearchInv, NeighbourInv
<1> QED BY <1>3, <1>4 DEF CalibrationInv

LEMMA SearchStepInv ==
  ASSUME CalibrationInv, SearchStep PROVE CalibrationInv'
<1>1. /\ pc = "search" /\ step > 0 /\ step \in Steps /\ step <= Half
      /\ Half \in Nat /\ Half >= 2 /\ targetValue \in Nat
      /\ trialValue \in Nat /\ trialValue \in Values
  BY Sizes DEF SearchStep, CalibrationInv, TypeOK, Values
<1>2. /\ step \in Nat /\ step >= 1 /\ step' = step \div 2
      /\ step' \in Steps \cup {0}
      /\ step = 1 => step' = 0
      /\ step > 1 => step' > 0 /\ 2 * step' = step
  BY <1>1, Halved DEF SearchStep
<1>3. step' \in Nat /\ step' < step
  BY <1>2
<1>4. /\ Above = trialValue + 2 * step
      /\ Above <= 2 * Half
      /\ trialValue > 0 => frameLength[trialValue] < targetValue
      /\ Above < 2 * Half => frameLength[Above] >= targetValue
  BY <1>1 DEF Above, CalibrationInv, SearchInv
<1>5. Above' = trialValue' + step
  BY <1>1, <1>2 DEF Above
<1>6. trialValue + step \in Values /\ trialValue + step < 2 * Half
  BY <1>1, <1>2, <1>4 DEF Values
<1>7. /\ OSCCAL' = trialValue + step /\ OSCCAL' \in Values
      /\ x' = frameLength[trialValue + step] /\ x' \in Nat
      /\ frameLength' = frameLength /\ pc' = pc
  BY <1>6, FrameType DEF SearchStep, CalibrationInv
<1>8. /\ trialValue' \in Values /\ Above' \in Nat /\ Above' <= 2 * Half
      /\ trialValue' > 0 => frameLength[trialValue'] < targetValue
      /\ Above' < 2 * Half => frameLength[Above'] >= targetValue
      /\ \/ trialValue' > 0 /\ x' = frameLength[trialValue']
         \/ Above' < 2 * Half /\ x' = frameLength[Above']
  <2>1. CASE x' < targetValue
    <3>1. trialValue' = trialValue + step
      BY <2>1 DEF SearchStep
    <3>2. Above' = Above
      BY <1>1, <1>2, <1>4, <1>5, <3>1
    <3>3. trialValue' > 0 /\ Above' \in Nat
      BY <1>1, <1>2, <1>4, <3>1, <3>2
    <3> QED BY <1>4, <1>6, <1>7, <2>1, <3>1, <3>2, <3>3
  <2>2. CASE ~(x' < targetValue)
    <3>1. trialValue' = trialValue
      BY <2>2 DEF SearchStep
    <3>2. Above' = trialValue + step
      BY <1>5, <3>1
    <3>3. x' >= targetValue
      BY <1>1, <1>7, <2>2
    <3>4. Above' \in Nat /\ Above' <= 2 * Half
      BY <1>1, <1>2, <1>6, <3>2
    <3> QED BY <1>1, <1>4, <1>6, <1>7, <3>1, <3>2, <3>3, <3>4
  <2> QED BY <2>1, <2>2
<1>9. TypeOK'
  <2>1. step' <= Half
    BY <1>1, <1>2, <1>3
  <2> QED BY <1>2, <1>7, <1>8, <2>1 DEF SearchStep, CalibrationInv, TypeOK
<1>10. SearchInv'
  BY <1>7, <1>8 DEF SearchInv
<1>11. NeighbourInv'
  BY <1>1, <1>7 DEF NeighbourInv
<1> QED BY <1>9, <1>10, <1>11 DEF CalibrationInv

(* The length of the last value that was tried is no less than the         *)
(* deviation of the value the search ends with.                            *)
LEMMA FarAway ==
  ASSUME CalibrationInv, pc = "search", step = 0,
         trialValue > 0, trialValue < 2 * Half - 2
  PROVE  Deviation(trialValue) <= x
<1>1. /\ trialValue \in Nat /\ trialValue \in Values /\ Half \in Nat /\ Half >= 2
      /\ targetValue \in Nat /\ x \in Nat /\ frameLength \in Curves
  BY Sizes DEF CalibrationInv, TypeOK, Values
<1>2. Above = trialValue + 1
  BY DEF Above
<1>3. /\ trialValue + 1 \in Values /\ Above < 2 * Half
      /\ trialValue \in 0 .. 2 * Half - 2
  BY <1>1, <1>2 DEF Values
<1>4. /\ frameLength[trialValue] \in Nat
      /\ frameLength[trialValue + 1] \in Nat
  BY <1>1, <1>3, FrameType DEF CalibrationInv
<1>5. /\ frameLength[trialValue] < targetValue
      /\ frameLength[trialValue + 1] >= targetValue
      /\ x = frameLength[trialValue] \/ x = frameLength[trialValue + 1]
  BY <1>1, <1>2, <1>3 DEF CalibrationInv, SearchInv
<1>6. frameLength[trialValue + 1] <= 2 * frameLength[trialValue]
  BY <1>1, <1>3, CurvesAssumption DEF Fine
<1>7. Deviation(trialValue) = targetValue - frameLength[trialValue]
  BY <1>5 DEF Deviation
<1> QED BY <1>1, <1>4, <1>5, <1>6, <1>7

LEMMA SearchEndsInv ==
  ASSUME CalibrationInv, SearchEnds PROVE CalibrationInv'
<1>1. /\ trialValue \in Nat /\ trialValue <= 2 * Half - 1 /\ Half \in Nat
      /\ Half >= 2 /\ pc = "search" /\ step = 0
  BY Sizes DEF SearchEnds, CalibrationInv, TypeOK, Values
<1>2. OSCCAL' = Counted(trialValue - 1) /\ OSCCAL' \in Values
  BY <1>1, CountedType DEF SearchEnds
<1>3. trialValue = 0 => OSCCAL' = 2 * Half - 1
  BY <1>2, CountedValue
<1>4. trialValue > 0 => OSCCAL' = trialValue - 1
  <2>1. trialValue > 0 => trialValue - 1 \in Values
    BY <1>1 DEF Values
  <2> QED BY <1>2, <2>1, CountedValue
<1>5. /\ pc' = "neighbours" /\ optimumValue' = trialValue /\ optimumDev' = x
      /\ trialValue' = trialValue /\ step' = step /\ x' = x
      /\ frameLength' = frameLength /\ eeprom' = eeprom
  BY DEF SearchEnds
<1>6. Found'
  BY <1>1, <1>5 DEF CalibrationInv, SearchInv, Above, Found
<1>7. trialValue > 0 /\ trialValue < 2 * Half - 2 =>
        Deviation(optimumValue)' <= optimumDev'
  <2>1. Deviation(optimumValue)' = Deviation(trialValue)
    BY <1>5 DEF Deviation
  <2> QED BY <1>1, <1>5, <2>1, FarAway
<1>8. trialValue > 0 =>
        \A v \in Values : ~(trialValue - 1 <= v /\ v < OSCCAL')
  BY <1>1, <1>4 DEF Values
<1>9. TypeOK'
  BY <1>2, <1>5 DEF CalibrationInv, TypeOK
<1>10. NeighbourInv'
  BY <1>1, <1>3, <1>4, <1>5, <1>6, <1>7, <1>8 DEF NeighbourInv
<1> QED BY <1>5, <1>9, <1>10 DEF CalibrationInv, SearchInv

LEMMA CompareInv ==
  ASSUME CalibrationInv, Compare PROVE CalibrationInv'
<1>1. /\ pc = "neighbours" /\ OSCCAL <= trialValue + 1
      /\ OSCCAL \in Values /\ trialValue \in Values /\ Half \in Nat /\ Half >= 2
      /\ optimumDev \in Nat /\ optimumValue \in Values
  BY Sizes DEF Compare, InLoop, CalibrationInv, TypeOK
<1>2. trialValue > 0
  BY <1>1 DEF CalibrationInv, NeighbourInv, Values
<1>3. /\ x' = Deviation(OSCCAL) /\ x' \in Nat
      /\ \/ optimumDev' = x' /\ optimumValue' = OSCCAL /\ x' < optimumDev
         \/ /\ optimumDev' = optimumDev /\ optimumValue' = optimumValue
            /\ ~(x' < optimumDev)
  BY <1>1, FrameType DEF Compare, CalibrationInv
<1>4. /\ pc' = pc /\ trialValue' = trialValue /\ step' = step
      /\ frameLength' = frameLength /\ eeprom' = eeprom
  BY DEF Compare
<1>5. OSCCAL' = Counted(OSCCAL + 1) /\ OSCCAL' \in Values
  BY <1>1, CountedType DEF Compare, Values
<1>6. TypeOK'
  BY <1>1, <1>3, <1>4, <1>5 DEF CalibrationInv, TypeOK
<1>7. Found' /\ SearchInv'
  BY <1>1, <1>4 DEF CalibrationInv, NeighbourInv, Found, SearchInv
<1>8. ASSUME trialValue < 2 * Half - 2
      PROVE  /\ trialValue - 1 <= OSCCAL' /\ OSCCAL' <= trialValue + 2
             /\ optimumValue' <= trialValue + 1
             /\ Deviation(optimumValue)' <= optimumDev'
             /\ \A v \in Values :
                  trialValue - 1 <= v /\ v < OSCCAL' =>
                    optimumDev' <= Deviation(v)
  <2>1. /\ trialValue - 1 <= OSCCAL /\ optimumValue <= trialValue + 1
        /\ Deviation(optimumValue) <= optimumDev
        /\ \A v \in Values :
             trialValue - 1 <= v /\ v < OSCCAL => optimumDev <= Deviation(v)
    BY <1>1, <1>2, <1>8 DEF CalibrationInv, NeighbourInv
  <2>2. OSCCAL' = OSCCAL + 1
    <3>1. OSCCAL + 1 \in Values
      BY <1>1, <1>8 DEF Values
    <3> QED BY <1>5, <3>1, CountedValue
  <2>3. trialValue - 1 <= OSCCAL' /\ OSCCAL' <= trialValue + 2
    BY <1>1, <2>1, <2>2 DEF Values
  <2>4. optimumValue' <= trialValue + 1
    BY <1>1, <1>3, <2>1
  <2>5. Deviation(optimumValue)' = Deviation(optimumValue')
    BY <1>4 DEF Deviation
  <2>6. Deviation(optimumValue') <= optimumDev'
    BY <1>3, <2>1
  <2>7. ASSUME NEW v \in Values, trialValue - 1 <= v, v < OSCCAL'
        PROVE  optimumDev' <= Deviation(v)
    <3>1. v < OSCCAL \/ v = OSCCAL
      BY <1>1, <2>2, <2>7 DEF Values
    <3>2. optimumDev' <= optimumDev /\ optimumDev' <= x' /\ optimumDev' \in Nat
      BY <1>1, <1>3
    <3>3. Deviation(v) \in Nat
      BY FrameType DEF CalibrationInv
    <3>4. CASE v = OSCCAL
      BY <1>3, <3>2, <3>4
    <3>5. CASE v < OSCCAL
      BY <1>1, <2>1, <2>7, <3>2, <3>3, <3>5
    <3> QED BY <3>1, <3>4, <3>5
  <2> QED BY <2>3, <2>4, <2>5, <2>6, <2>7
<1>9. \A v : Deviation(v)' = Deviation(v)
  BY <1>4 DEF Deviation
<1>10. NeighbourInv'
  BY <1>1, <1>2, <1>4, <1>7, <1>8, <1>9 DEF NeighbourInv
<1> QED BY <1>6, <1>7, <1>10 DEF CalibrationInv

(* The loop is left from 0, or past both neighbours of a smaller value     *)
(* than the last two: from those it is never left.                         *)
LEMMA LoopEndsInv ==
  ASSUME CalibrationInv, LoopEnds PROVE CalibrationInv'
<1>1. /\ pc = "neighbours" /\ OSCCAL > trialValue + 1
      /\ OSCCAL \in Nat /\ OSCCAL <= 2 * Half - 1
      /\ trialValue \in Nat /\ Half \in Nat /\ Half >= 2
      /\ optimumValue \in Nat /\ optimumValue \in Values /\ optimumDev \in Nat
  BY Sizes DEF LoopEnds, InLoop, CalibrationInv, TypeOK, Values
<1>2. /\ pc' = "store" /\ OSCCAL' = optimumValue
      /\ eeprom' = eeprom /\ frameLength' = frameLength
      /\ trialValue' = trialValue /\ step' = step /\ x' = x
      /\ optimumValue' = optimumValue /\ optimumDev' = optimumDev
  BY DEF LoopEnds, local
<1>3. \A v : Deviation(v)' = Deviation(v)
  BY <1>2 DEF Deviation
<1>4. Found'
  BY <1>1, <1>2 DEF CalibrationInv, NeighbourInv, Found
<1>5. trialValue = 0 => OSCCAL' = 0
  BY <1>1, <1>2 DEF CalibrationInv, NeighbourInv
<1>6. ASSUME trialValue > 0
      PROVE  /\ trialValue < 2 * Half - 2 /\ OSCCAL' <= trialValue + 1
             /\ Deviation(OSCCAL') <= Deviation(trialValue)
             /\ Deviation(OSCCAL') <= Deviation(trialValue + 1)
  <2>1. trialValue < 2 * Half - 2
    BY <1>1
  <2>2. /\ optimumValue <= trialValue + 1
        /\ Deviation(optimumValue) <= optimumDev
        /\ \A v \in Values :
             trialValue - 1 <= v /\ v < OSCCAL => optimumDev <= Deviation(v)
    BY <1>1, <1>6, <2>1 DEF CalibrationInv, NeighbourInv
  <2>3. trialValue \in Values /\ trialValue + 1 \in Values
    BY <1>1, <2>1 DEF Values
  <2>4. /\ trialValue - 1 <= trialValue /\ trialValue < OSCCAL
        /\ trialValue - 1 <= trialValue + 1 /\ trialValue + 1 < OSCCAL
    BY <1>1
  <2>5. /\ optimumDev <= Deviation(trialValue)
        /\ optimumDev <= Deviation(trialValue + 1)
    BY <2>2, <2>3, <2>4
  <2>6. /\ Deviation(trialValue) \in Nat /\ Deviation(trialValue + 1) \in Nat
        /\ Deviation(optimumValue) \in Nat
    BY <1>1, <2>3, FrameType DEF CalibrationInv
  <2> QED BY <1>1, <1>2, <2>1, <2>2, <2>5, <2>6
<1>7. NeighbourInv'
  BY <1>2, <1>3, <1>4, <1>5, <1>6 DEF NeighbourInv
<1>8. TypeOK' /\ SearchInv'
  BY <1>1, <1>2 DEF CalibrationInv, TypeOK, SearchInv
<1> QED BY <1>7, <1>8 DEF CalibrationInv

LEMMA StoreInv ==
  ASSUME CalibrationInv, Store \/ UNCHANGED vars PROVE CalibrationInv'
<1>1. CASE Store
  BY <1>1 DEF Store, local, CalibrationInv, TypeOK, SearchInv, NeighbourInv
<1>2. CASE UNCHANGED vars
  BY <1>2 DEF vars, local, CalibrationInv, TypeOK, SearchInv, NeighbourInv,
              Above, Found, Deviation
<1> QED BY <1>1, <1>2

LEMMA RestartInv ==
  ASSUME CalibrationInv, Restart PROVE CalibrationInv'
<1>1. eeprom' \in Values
  BY DEF Restart, CalibrationInv, TypeOK
<1>2. OSCCAL' \in Values
  BY <1>1, Sizes DEF Restart, OSCCAL_Init
<1> QED BY <1>1, <1>2, Sizes
        DEF Restart, CalibrationInv, TypeOK, SearchInv, NeighbourInv, Values

LEMMA InitInv ==
  ASSUME Init PROVE CalibrationInv
BY Sizes DEF Init, OSCCAL_Init, OSCCAL_INVALID, CalibrationInv, TypeOK, SearchInv,
             NeighbourInv, Values

(* The search stays inside the range of OSCCAL, and leaves its neighbours  *)
(* with a value that is not the largest (OSCCAL_Start).                    *)
THEOREM CalibrationInvariant == Spec => []CalibrationInv
<1>1. Init => CalibrationInv
  BY InitInv
<1>2. CalibrationInv /\ [Next]_vars => CalibrationInv'
  BY StartInv, SearchStepInv, SearchEndsInv, CompareInv, LoopEndsInv, StoreInv,
     RestartInv DEF Next, Calibrate
<1> QED BY <1>1, <1>2, PTL DEF Spec

(* Every value of OSCCAL the search tries is one of its range, also where  *)
(* its loop counter wraps (osccal.c:39-45).                                *)
THEOREM TypeCorrect == Spec => []TypeOK
<1>1. CalibrationInv => TypeOK
  BY DEF CalibrationInv
<1> QED BY <1>1, CalibrationInvariant, PTL

(* A calibration that ends stores a value that OSCCAL_Init takes for one,  *)
(* for every oscillator.                                                   *)
THEOREM StoredUsed == Spec => []StoredIsUsed
<1>1. CalibrationInv => StoredIsUsed
  BY Sizes DEF CalibrationInv, TypeOK, NeighbourInv, StoredIsUsed,
               OSCCAL_INVALID, Values
<1> QED BY <1>1, CalibrationInvariant, PTL

(* Of two values on the same side of the target, in the same half, the     *)
(* one nearer to it deviates less.                                         *)
LEMMA Nearer ==
  ASSUME TypeOK, NEW v \in Values, NEW w \in Values, SameHalf(v, w), v < w
  PROVE  /\ frameLength[w] <= targetValue => Deviation(w) <= Deviation(v)
         /\ frameLength[v] >= targetValue => Deviation(v) <= Deviation(w)
<1>1. /\ Half \in Nat /\ Half >= 2 /\ targetValue \in Nat
      /\ v \in Nat /\ w \in Nat /\ v < 2 * Half /\ w < 2 * Half
  BY Sizes DEF Values
<1>2. frameLength[v] \in Nat /\ frameLength[w] \in Nat
  BY FrameType
<1>3. frameLength[v] < frameLength[w]
  <2>1. Rises(frameLength, 0) /\ Rises(frameLength, Half)
    BY CurvesAssumption DEF TypeOK
  <2>2. CASE w < Half
    <3>1. v \in 0 .. 0 + Half - 1 /\ w \in 0 .. 0 + Half - 1
      BY <1>1, <2>2
    <3> QED BY <2>1, <3>1 DEF Rises
  <2>3. CASE ~(w < Half)
    <3>1. ~(v < Half)
      BY <2>3 DEF SameHalf
    <3>2. v \in Half .. Half + Half - 1 /\ w \in Half .. Half + Half - 1
      BY <1>1, <2>3, <3>1
    <3> QED BY <2>1, <3>2 DEF Rises
  <2> QED BY <2>2, <2>3
<1> QED BY <1>1, <1>2, <1>3 DEF Deviation

LEMMA BestOfHalf ==
  ASSUME TypeOK, Found, trialValue > 0, trialValue < 2 * Half - 2,
         NEW v \in Values, SameHalf(v, trialValue)
  PROVE  \/ Deviation(trialValue) <= Deviation(v)
         \/ Deviation(trialValue + 1) <= Deviation(v)
<1>1. /\ Half \in Nat /\ Half >= 2 /\ targetValue \in Nat
      /\ v \in Nat /\ v < 2 * Half
      /\ trialValue \in Nat /\ trialValue \in Values
      /\ trialValue + 1 \in Values
  BY Sizes DEF TypeOK, Values
<1>2. /\ frameLength[trialValue] \in Nat /\ Deviation(v) \in Nat
      /\ frameLength[trialValue + 1] \in Nat
  BY <1>1, FrameType
<1>3. /\ frameLength[trialValue] <= targetValue
      /\ frameLength[trialValue + 1] >= targetValue
  BY <1>1, <1>2 DEF Found
<1>4. CASE v < trialValue
  BY <1>1, <1>3, <1>4, Nearer
<1>5. CASE v = trialValue \/ v = trialValue + 1
  BY <1>2, <1>5
<1>6. CASE v > trialValue + 1
  <2>1. SameHalf(trialValue + 1, v)
    BY <1>1, <1>6 DEF SameHalf
  <2> QED BY <1>1, <1>3, <1>6, <2>1, Nearer
<1> QED BY <1>1, <1>4, <1>5, <1>6

(* What OSCCAL_Start ends with is the best value in the half of the range  *)
(* that the search went into, for every oscillator: that the search may be *)
(* off by one, as osccal.c:35 says, is what the neighbours make up for,    *)
(* except at 0.                                                            *)
THEOREM BestStored == Spec => []ResultIsBest
<1>1. ASSUME CalibrationInv, pc = "store",
             NEW v \in Values, SameHalf(v, trialValue)
      PROVE  \/ Deviation(OSCCAL) <= Deviation(v)
             \/ trialValue = 0 /\ OSCCAL = 0 /\ Deviation(1) <= Deviation(v)
  <2>1. /\ TypeOK /\ Found /\ OSCCAL \in Values
        /\ trialValue \in Nat /\ trialValue \in Values
        /\ Half \in Nat /\ Half >= 2 /\ v \in Nat /\ 1 \in Values
        /\ targetValue \in Nat
    BY <1>1, Sizes DEF CalibrationInv, NeighbourInv, TypeOK, Values
  <2>2. Deviation(OSCCAL) \in Nat /\ Deviation(v) \in Nat
    BY <2>1, FrameType
  <2>3. CASE trialValue = 0
    <3>1. OSCCAL = 0
      BY <1>1, <2>3 DEF CalibrationInv, NeighbourInv
    <3>2. frameLength[1] >= targetValue
      BY <2>1, <2>3 DEF Found
    <3>3. CASE v = 0
      BY <2>2, <3>1, <3>3
    <3>4. CASE v = 1
      <4>1. Deviation(1) \in Nat
        BY <2>1, FrameType
      <4> QED BY <2>3, <3>1, <3>4, <4>1
    <3>5. CASE v > 1
      <4>1. SameHalf(1, v)
        BY <1>1, <2>1, <2>3 DEF SameHalf
      <4> QED BY <2>1, <2>3, <3>1, <3>2, <3>5, <4>1, Nearer
    <3> QED BY <2>1, <3>3, <3>4, <3>5
  <2>4. CASE trialValue > 0
    <3>1. /\ trialValue < 2 * Half - 2
          /\ Deviation(OSCCAL) <= Deviation(trialValue)
          /\ Deviation(OSCCAL) <= Deviation(trialValue + 1)
      BY <1>1, <2>4 DEF CalibrationInv, NeighbourInv
    <3>2. trialValue + 1 \in Values
      BY <2>1, <3>1 DEF Values
    <3>3. Deviation(trialValue) \in Nat /\ Deviation(trialValue + 1) \in Nat
      BY <2>1, <3>2, FrameType
    <3>4. \/ Deviation(trialValue) <= Deviation(v)
          \/ Deviation(trialValue + 1) <= Deviation(v)
      BY <1>1, <2>1, <2>4, <3>1, BestOfHalf
    <3> QED BY <2>2, <3>1, <3>3, <3>4
  <2> QED BY <2>1, <2>3, <2>4
<1>2. CalibrationInv => ResultIsBest
  BY <1>1 DEF ResultIsBest
<1> QED BY <1>2, CalibrationInvariant, PTL

------------------------------------------------------------------------------
(* The scheduler and the buttons.                                          *)

LEMMA ButtonSizes ==
  /\ TimerSize \in Nat \ {0} /\ TickSize \in Nat \ {0}
  /\ Period \in Nat \ {0}
  /\ uib_INIT_DEBOUNCE \in Nat \ {0} /\ uib_SECOND_DEBOUNCE \in Nat \ {0}
  /\ uib_REPEAT_DEBOUNCE \in Nat \ {0}
  /\ MaxLag \in Nat \ {0} /\ MaxLag < TimerSize
BY ButtonsAssumption

(* The milliseconds SCH_Task has not counted, of which MaxLag came since it *)
(* ran last: the timer may have been running before SCH_Init.              *)
Lag == (timer - sch_lastTimerVal) % TimerSize
Uncounted == IF Lag < MaxLag THEN Lag ELSE MaxLag

(* The ticks since the task ran are what sch_tick is past a multiple of    *)
(* Period, and none took longer than MaxLag.  Where sch_tick wraps the     *)
(* task runs, however many there were.                                     *)
ClockInv ==
  /\ timer \in 0 .. TimerSize - 1 /\ sch_lastTimerVal \in 0 .. TimerSize - 1
  /\ sch_tick \in 0 .. TickSize - 1 /\ since \in Nat
  /\ \E q \in Nat, k \in 0 .. Period - 1 :
       sch_tick = Period * q + k /\ since <= k * MaxLag + Uncounted

(* How often a button was read again says where its debouncing is.         *)
DebounceInv ==
  /\ held \in Nat
  /\ uib_debounceCtr \in 0 .. Limit(uib_state) - 1
  /\ uib_state \in {"INIT_DEBOUNCE", "SECOND_DEBOUNCE", "REPEAT_DEBOUNCE"}
  /\ UIB_buttonChanged \in {0, 1}
  /\ uib_state = "INIT_DEBOUNCE" =>
       held = uib_debounceCtr /\ UIB_buttonChanged = 0
  /\ uib_state = "SECOND_DEBOUNCE" =>
       /\ held = uib_INIT_DEBOUNCE + uib_debounceCtr
       /\ UIB_buttonChanged = 1 <=> uib_debounceCtr = 0
  /\ uib_state = "REPEAT_DEBOUNCE" =>
       /\ UIB_buttonChanged = 1 <=> uib_debounceCtr = 0
       /\ \/ held = FirstRepeat + uib_debounceCtr
          \/ uib_debounceCtr = 0 /\ held = FirstRepeat + uib_REPEAT_DEBOUNCE

LEMMA Remainder ==
  ASSUME NEW p \in Nat \ {0}, NEW q \in Nat, NEW r \in 0 .. p - 1
  PROVE  (p * q + r) % p = r
OBVIOUS

(* The next number is due exactly after the last remainder.                *)
LEMMA NextRemainder ==
  ASSUME NEW p \in Nat \ {0}, NEW q \in Nat, NEW r \in 0 .. p - 1
  PROVE  /\ r + 1 = p => /\ (p * q + r + 1) % p = 0
                        /\ p * q + r + 1 = p * (q + 1) + 0
         /\ r + 1 < p => /\ (p * q + r + 1) % p = r + 1
                        /\ p * q + r + 1 = p * q + (r + 1)
<1>1. ASSUME r + 1 = p
      PROVE  p * q + r + 1 = p * (q + 1) + 0
  BY <1>1
<1>2. ASSUME r + 1 = p
      PROVE  (p * (q + 1) + 0) % p = 0
  BY Remainder
<1>3. ASSUME r + 1 < p
      PROVE  p * q + r + 1 = p * q + (r + 1) /\ (p * q + (r + 1)) % p = r + 1
  <2>1. r + 1 \in 0 .. p - 1
    BY <1>3
  <2> QED BY <2>1, Remainder
<1> QED BY <1>1, <1>2, <1>3

LEMMA LagType ==
  ASSUME ClockInv
  PROVE  /\ Lag \in 0 .. TimerSize - 1
         /\ Uncounted \in Nat /\ Uncounted <= MaxLag
<1>1. Lag \in 0 .. TimerSize - 1
  BY ButtonSizes DEF ClockInv, Lag
<1> QED BY <1>1, ButtonSizes DEF Uncounted

(* The timer moves on by one, also where it wraps.                         *)
LEMMA LagGrows ==
  ASSUME NEW n \in Nat \ {0}, NEW t \in 0 .. n - 1, NEW l \in 0 .. n - 1,
         ((t - l) % n) + 1 < n
  PROVE  (((t + 1) % n) - l) % n = ((t - l) % n) + 1
<1>1. CASE l <= t /\ t + 1 < n
  <2>1. (t - l) % n = t - l /\ (t + 1) % n = t + 1
    BY <1>1
  <2>2. ((t + 1) - l) % n = (t + 1) - l
    BY <1>1
  <2> QED BY <2>1, <2>2
<1>2. CASE l <= t /\ t + 1 = n
  <2>1. (t - l) % n = t - l /\ (t + 1) % n = 0
    BY <1>2
  <2>2. l > 0 /\ (0 - l) % n = n - l
    BY <1>2, <2>1
  <2> QED BY <1>2, <2>1, <2>2
<1>3. CASE t < l
  <2>1. (t - l) % n = t - l + n /\ (t + 1) % n = t + 1
    BY <1>3
  <2>2. CASE t + 1 < l
    <3>1. ((t + 1) - l) % n = (t + 1) - l + n
      BY <2>2
    <3> QED BY <2>1, <3>1
  <2>3. CASE t + 1 = l
    BY <2>1, <2>3
  <2> QED BY <1>3, <2>2, <2>3
<1> QED BY <1>1, <1>2, <1>3

LEMMA TimeStep ==
  ASSUME ClockInv, Time PROVE ClockInv'
<1>1. /\ timer \in 0 .. TimerSize - 1 /\ sch_lastTimerVal \in 0 .. TimerSize - 1
      /\ TimerSize \in Nat \ {0} /\ MaxLag \in Nat /\ MaxLag < TimerSize
      /\ Lag \in Nat /\ Lag < MaxLag
  BY LagType, ButtonSizes DEF ClockInv, Time, Lag
<1>2. Lag' = Lag + 1
  <2>1. ((timer - sch_lastTimerVal) % TimerSize) + 1 < TimerSize
    BY <1>1 DEF Lag
  <2>2. (((timer + 1) % TimerSize) - sch_lastTimerVal) % TimerSize =
          ((timer - sch_lastTimerVal) % TimerSize) + 1
    BY <1>1, <2>1, LagGrows
  <2> QED BY <2>2 DEF Lag, Time
<1>3. Uncounted' = Uncounted + 1
  BY <1>1, <1>2 DEF Uncounted
<1>4. timer' \in 0 .. TimerSize - 1
  BY <1>1 DEF Time
<1>5. PICK q \in Nat, k \in 0 .. Period - 1 :
        sch_tick = Period * q + k /\ since <= k * MaxLag + Uncounted
  BY DEF ClockInv
<1>6. since' \in Nat /\ since' <= k * MaxLag + Uncounted'
  <2>1. k * MaxLag \in Nat /\ Uncounted \in Nat /\ since \in Nat
    BY <1>1, LagType, ButtonSizes DEF ClockInv
  <2>2. since' = since + 1
    BY DEF Time
  <2> QED BY <1>3, <1>5, <2>1, <2>2
<1> QED BY <1>4, <1>5, <1>6 DEF ClockInv, Time

LEMMA TicksStep ==
  ASSUME ClockInv, Ticks, since' = IF Due THEN 0 ELSE since
  PROVE  ClockInv'
<1>1. sch_tick \in Nat /\ sch_tick < TickSize /\ TickSize \in Nat \ {0}
  BY ButtonSizes DEF ClockInv
<1>2. sch_tick' = (sch_tick + 1) % TickSize /\ sch_tick' \in 0 .. TickSize - 1
  BY <1>1 DEF Ticks
<1>3. /\ timer' \in 0 .. TimerSize - 1 /\ sch_lastTimerVal' \in 0 .. TimerSize - 1
      /\ since' \in Nat
  BY DEF Ticks, ClockInv
<1>4. Uncounted' = 0
  <2>1. Lag' = 0
    BY ButtonSizes DEF Ticks, ClockInv, Lag
  <2> QED BY <2>1, ButtonSizes DEF Uncounted
<1>5. Period \in Nat \ {0} /\ MaxLag \in Nat /\ since \in Nat
  BY ButtonSizes DEF ClockInv
<1>6. CASE sch_tick + 1 < TickSize
  <2>1. sch_tick' = sch_tick + 1
    BY <1>1, <1>2, <1>6
  <2>2. PICK q \in Nat, k \in 0 .. Period - 1 :
          sch_tick = Period * q + k /\ since <= k * MaxLag + Uncounted
    BY DEF ClockInv
  <2>3. sch_tick' = Period * q + k + 1
    BY <2>1, <2>2
  <2>4. CASE k + 1 = Period
    <3>1. sch_tick' = Period * (q + 1) + 0 /\ since' = 0
      BY <1>5, <2>3, <2>4, NextRemainder DEF Due
    <3>2. q + 1 \in Nat /\ 0 \in 0 .. Period - 1 /\ 0 <= 0 * MaxLag + Uncounted'
      BY <1>4, <1>5
    <3>3. sch_tick' = Period * (q + 1) + 0 /\ since' <= 0 * MaxLag + Uncounted'
      BY <3>1, <3>2
    <3> DEFINE r == q + 1
    <3>4. r \in Nat /\ sch_tick' = Period * r + 0
      BY <3>2, <3>3
    <3> HIDE DEF r
    <3> QED BY <1>2, <1>3, <3>2, <3>3, <3>4 DEF ClockInv
  <2>5. CASE k + 1 < Period
    <3>1. sch_tick' % Period = k + 1 /\ sch_tick' = Period * q + (k + 1)
      BY <1>5, <2>3, <2>5, NextRemainder
    <3>2. since' = since
      BY <3>1 DEF Due
    <3>3. since <= (k + 1) * MaxLag
      <4>1. (k + 1) * MaxLag = k * MaxLag + MaxLag
        BY <1>5
      <4>2. k * MaxLag \in Nat
        BY <1>5
      <4>3. Uncounted \in Nat /\ Uncounted <= MaxLag
        BY LagType
      <4> DEFINE a == k * MaxLag
                 b == (k + 1) * MaxLag
      <4>4. b = a + MaxLag /\ a \in Nat /\ since <= a + Uncounted
        BY <2>2, <4>1, <4>2
      <4> HIDE DEF a
      <4>5. since <= b
        BY <1>5, <4>3, <4>4
      <4> QED BY <4>5
    <3>4. k + 1 \in 0 .. Period - 1
      BY <1>5, <2>5
    <3> DEFINE j == k + 1
    <3>5. /\ j \in 0 .. Period - 1 /\ sch_tick' = Period * q + j
          /\ since' <= j * MaxLag
      BY <3>1, <3>2, <3>3, <3>4
    <3> HIDE DEF j
    <3>6. j * MaxLag + Uncounted' = j * MaxLag
      BY <1>4, <1>5, <3>5
    <3> QED BY <1>2, <1>3, <3>5, <3>6 DEF ClockInv
  <2> QED BY <1>5, <2>4, <2>5
<1>7. CASE sch_tick + 1 = TickSize
  <2>1. sch_tick' = 0
    BY <1>1, <1>2, <1>7
  <2>2. /\ 0 % Period = 0 /\ Period * 0 + 0 = 0 /\ 0 \in Nat
        /\ 0 \in 0 .. Period - 1 /\ 0 <= 0 * MaxLag + Uncounted'
    BY <1>4, <1>5
  <2>3. since' = 0
    BY <2>1, <2>2 DEF Due
  <2> QED BY <1>2, <1>3, <2>1, <2>2, <2>3 DEF ClockInv
<1> QED BY <1>1, <1>6, <1>7

LEMMA ClockStep ==
  ASSUME ClockInv, [ButtonsNext]_buttonsVars PROVE ClockInv'
<1>1. CASE Time
  BY <1>1, TimeStep
<1>2. CASE SchCount
  BY <1>2, TicksStep DEF SchCount
<1>3. CASE SchTask
  BY <1>3, TicksStep DEF SchTask
<1>4. CASE UNCHANGED buttonsVars
  BY <1>4 DEF buttonsVars, clock, ClockInv, Uncounted, Lag
<1> QED BY <1>1, <1>2, <1>3, <1>4 DEF ButtonsNext, SCH_Task

(* Another button starts its debouncing again.                             *)
LEMMA OtherButton ==
  ASSUME DebounceInv, Debounce(FALSE), held' = 0 PROVE DebounceInv'
<1>1. ~ (0 >= uib_INIT_DEBOUNCE)
  BY ButtonSizes
<1>2. /\ UIB_buttonChanged' = 0 /\ uib_debounceCtr' = 0
      /\ uib_state' = "INIT_DEBOUNCE"
  BY <1>1 DEF Debounce, Limit
<1> QED BY <1>2, ButtonSizes DEF DebounceInv, Limit

(* The same button: one more towards the limit of its state.               *)
LEMMA SameButton ==
  ASSUME DebounceInv, Debounce(TRUE), held' = Again PROVE DebounceInv'
<1> DEFINE ctr == uib_debounceCtr + 1
<1> USE ButtonSizes DEF DebounceInv, Limit, FirstRepeat
<1>1. IF ctr >= Limit(uib_state)
      THEN /\ UIB_buttonChanged' = 1 /\ uib_debounceCtr' = 0
           /\ uib_state' = After(uib_state)
      ELSE /\ UIB_buttonChanged' = 0 /\ uib_debounceCtr' = ctr
           /\ uib_state' = uib_state
  BY DEF Debounce
<1>2. CASE uib_state = "INIT_DEBOUNCE"
  <2>1. held' = ctr
    BY <1>2 DEF Again
  <2>2. CASE ctr >= uib_INIT_DEBOUNCE
    BY <1>1, <1>2, <2>1, <2>2 DEF After
  <2>3. CASE ctr < uib_INIT_DEBOUNCE
    BY <1>1, <1>2, <2>1, <2>3 DEF After
  <2> QED BY <2>2, <2>3
<1>3. CASE uib_state = "SECOND_DEBOUNCE"
  <2>1. held' = uib_INIT_DEBOUNCE + ctr
    BY <1>3 DEF Again
  <2>2. CASE ctr >= uib_SECOND_DEBOUNCE
    BY <1>1, <1>3, <2>1, <2>2 DEF After
  <2>3. CASE ctr < uib_SECOND_DEBOUNCE
    BY <1>1, <1>3, <2>1, <2>3 DEF After
  <2> QED BY <2>2, <2>3
<1>4. CASE uib_state = "REPEAT_DEBOUNCE"
  <2>1. held' = FirstRepeat + ctr
    BY <1>4 DEF Again
  <2>2. CASE ctr >= uib_REPEAT_DEBOUNCE
    BY <1>1, <1>4, <2>1, <2>2 DEF After
  <2>3. CASE ctr < uib_REPEAT_DEBOUNCE
    BY <1>1, <1>4, <2>1, <2>3 DEF After
  <2> QED BY <2>2, <2>3
<1> QED BY <1>2, <1>3, <1>4

LEMMA DebounceStep ==
  ASSUME DebounceInv, [ButtonsNext]_buttonsVars PROVE DebounceInv'
<1>1. CASE SchTask
  <2>1. CASE UIB_buttonPressed' = UIB_buttonPressed
    BY <1>1, <2>1, SameButton DEF SchTask, UIB_Task
  <2>2. CASE UIB_buttonPressed' # UIB_buttonPressed
    BY <1>1, <2>2, OtherButton DEF SchTask, UIB_Task
  <2> QED BY <2>1, <2>2
<1>2. CASE Time \/ SchCount \/ UNCHANGED buttonsVars
  BY <1>2 DEF Time, SchCount, buttonsVars, button, DebounceInv, Limit
<1> QED BY <1>1, <1>2 DEF ButtonsNext, SCH_Task

LEMMA ButtonsStart ==
  ASSUME ButtonsInit PROVE ClockInv /\ DebounceInv
<1>1. DebounceInv
  BY ButtonSizes DEF ButtonsInit, DebounceInv, Limit
<1>2. Uncounted \in Nat
  BY ButtonSizes DEF ButtonsInit, Uncounted, Lag
<1>3. /\ 0 = Period * 0 + 0 /\ 0 \in Nat /\ 0 \in 0 .. Period - 1
      /\ 0 <= 0 * MaxLag + Uncounted
  BY <1>2, ButtonSizes
<1>4. ClockInv
  BY <1>3, ButtonSizes DEF ButtonsInit, ClockInv
<1> QED BY <1>1, <1>4

(* The clock and the debouncing stay in step with what was read (SCH_Task, *)
(* UIB_Task).                                                              *)
THEOREM ButtonsInvariant == ButtonsSpec => [](ClockInv /\ DebounceInv)
BY ButtonsStart, ClockStep, DebounceStep, PTL DEF ButtonsSpec

(* The joystick is read in time, for every period, size of sch_tick and    *)
(* lag of the main loop.                                                   *)
THEOREM JoystickRead == ButtonsSpec => []ReadInTime
<1>1. ClockInv => ReadInTime
  <2> SUFFICES ASSUME ClockInv PROVE since <= Period * MaxLag
    BY DEF ReadInTime
  <2>1. PICK k \in 0 .. Period - 1 : since <= k * MaxLag + Uncounted
    BY DEF ClockInv
  <2>2. /\ Uncounted \in Nat /\ Uncounted <= MaxLag /\ since \in Nat
        /\ MaxLag \in Nat /\ Period \in Nat
    BY LagType, ButtonSizes DEF ClockInv
  <2>3. k * MaxLag + MaxLag <= Period * MaxLag
    <3> DEFINE d == Period - 1 - k
    <3>1. d \in Nat /\ Period = k + 1 + d
      BY <2>2
    <3> HIDE DEF d
    <3>2. Period * MaxLag = k * MaxLag + MaxLag + d * MaxLag
      BY <2>2, <3>1
    <3>3. d * MaxLag \in Nat /\ k * MaxLag \in Nat
      BY <2>2, <3>1
    <3> QED BY <2>2, <3>2, <3>3
  <2>4. k * MaxLag \in Nat /\ Period * MaxLag \in Nat
    BY <2>2
  <2> QED BY <2>1, <2>2, <2>3, <2>4
<1> QED BY <1>1, ButtonsInvariant, PTL

(* A button is reported on its schedule, for all debounce times.           *)
THEOREM ButtonsReported == ButtonsSpec => []ReportsOnSchedule
<1>1. DebounceInv => ReportsOnSchedule
  BY ButtonSizes DEF DebounceInv, ReportsOnSchedule, Limit, FirstRepeat
<1> QED BY <1>1, ButtonsInvariant, PTL
==============================================================================
