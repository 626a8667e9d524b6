------------------------------- MODULE Buttons -------------------------------
(***************************************************************************)
(* The joystick of the MemType and the clock that reads it: the scheduler  *)
(* (sch.c), the analog input (adm.c) and the debouncing of what it reads   *)
(* (uib.c).  The menus take a button when UIF_Task finds one reported.     *)
(***************************************************************************)
EXTENDS Integers

CONSTANTS
  TimerSize,      \* values of TCNT1, which counts milliseconds: 256
  TickSize,       \* values of sch_tick: 256
  Period,         \* ticks between two tasks: 10
  uib_INIT_DEBOUNCE, uib_SECOND_DEBOUNCE, uib_REPEAT_DEBOUNCE,  \* 5, 100, 25
  Samples,        \* what the converter may read
  MaxLag          \* bound: milliseconds between two calls of SCH_Task

ASSUME ButtonsAssumption ==
  /\ TimerSize \in Nat /\ TickSize \in Nat \ {0} /\ Period \in Nat \ {0}
  /\ uib_INIT_DEBOUNCE \in Nat \ {0} /\ uib_SECOND_DEBOUNCE \in Nat \ {0}
  /\ uib_REPEAT_DEBOUNCE \in Nat \ {0}
  /\ Samples \subseteq 0 .. 255
  /\ MaxLag \in 1 .. TimerSize - 1

VARIABLES
  timer, sch_lastTimerVal, sch_tick,
  adm_ADCValue,
  UIB_buttonPressed, UIB_buttonChanged, uib_debounceCtr, uib_state,
  taken,          \* the button UIF_Task took last time it ran
  since,          \* history: milliseconds since it ran
  held            \* history: how often the same button was read again

clock == <<timer, sch_lastTimerVal, sch_tick>>
button == <<UIB_buttonPressed, UIB_buttonChanged, uib_debounceCtr, uib_state>>
buttonsVars == <<clock, adm_ADCValue, button, taken, since, held>>

(* RANGE1 to RANGE4: a quarter of the range for each button, half a        *)
(* quarter off.                                                            *)
Pressed(v) ==
  CASE v > 221 -> "RIGHT"
    [] v > 158 /\ v <= 221 -> "UP"
    [] v > 95 /\ v <= 158 -> "DOWN"
    [] v > 32 /\ v <= 95 -> "LEFT"
    [] OTHER -> "NOT_PRESSED"

buttonStates == {"NOT_PRESSED", "DOWN", "RIGHT", "UP", "LEFT"}

ButtonsInit ==
  /\ timer \in 0 .. TimerSize - 1 /\ sch_lastTimerVal = 0 /\ sch_tick = 0
  /\ adm_ADCValue = 0
  /\ UIB_buttonPressed = "NOT_PRESSED" /\ UIB_buttonChanged = 0
  /\ uib_debounceCtr = 0 /\ uib_state = "INIT_DEBOUNCE"
  /\ taken = "NOT_PRESSED" /\ since = 0 /\ held = 0

------------------------------------------------------------------------------
Time ==
  /\ (timer - sch_lastTimerVal) % TimerSize < MaxLag
  /\ timer' = (timer + 1) % TimerSize
  /\ since' = since + 1
  /\ UNCHANGED <<sch_lastTimerVal, sch_tick, adm_ADCValue, button, taken, held>>

Limit(state) ==
  CASE state = "INIT_DEBOUNCE"   -> uib_INIT_DEBOUNCE
    [] state = "SECOND_DEBOUNCE" -> uib_SECOND_DEBOUNCE
    [] OTHER                     -> uib_REPEAT_DEBOUNCE

(* Definitions whose names end in _fault are faulty variants of the        *)
(* definition that follows them.  No action uses one; each shows that some *)
(* property would notice the fault.                                        *)

After(state) ==
  IF state = "INIT_DEBOUNCE" THEN "SECOND_DEBOUNCE" ELSE "REPEAT_DEBOUNCE"

(* The fault: another button goes on with the repeat of the one before.    *)
Debounce_fault(same) ==
  LET ctr == IF same THEN uib_debounceCtr + 1 ELSE 0 IN
  IF ctr >= Limit(uib_state)
  THEN /\ UIB_buttonChanged' = 1 /\ uib_debounceCtr' = 0
       /\ uib_state' = After(uib_state)
  ELSE UIB_buttonChanged' = 0 /\ uib_debounceCtr' = ctr /\ uib_state' = uib_state

Debounce(same) ==
  LET ctr == IF same THEN uib_debounceCtr + 1 ELSE 0
      state == IF same THEN uib_state ELSE "INIT_DEBOUNCE" IN
  IF ctr >= Limit(state)
  THEN UIB_buttonChanged' = 1 /\ uib_debounceCtr' = 0 /\ uib_state' = After(state)
  ELSE UIB_buttonChanged' = 0 /\ uib_debounceCtr' = ctr /\ uib_state' = state

(* History: held, past the first repeat, counts within one repeat.         *)
FirstRepeat == uib_INIT_DEBOUNCE + uib_SECOND_DEBOUNCE
Again == IF held = FirstRepeat + uib_REPEAT_DEBOUNCE THEN FirstRepeat + 1
         ELSE held + 1

UIB_Task ==
  /\ UIB_buttonPressed' = Pressed(adm_ADCValue')
  /\ Debounce(UIB_buttonPressed' = UIB_buttonPressed)
  /\ held' = IF UIB_buttonPressed' = UIB_buttonPressed THEN Again ELSE 0

UIF_Task_fault ==
  taken' = IF UIB_buttonChanged' = 1 /\ uib_state' # "REPEAT_DEBOUNCE"
           THEN UIB_buttonPressed' ELSE "NOT_PRESSED"

UIF_Task ==
  taken' = IF UIB_buttonChanged' = 1 THEN UIB_buttonPressed' ELSE "NOT_PRESSED"

(* SCH_Task counts one tick however much the timer moved.                  *)
Ticks ==
  /\ timer # sch_lastTimerVal
  /\ sch_lastTimerVal' = timer
  /\ sch_tick' = (sch_tick + 1) % TickSize
  /\ UNCHANGED timer

Due_fault == sch_tick' = 0
Due == sch_tick' % Period = 0

SchCount ==
  /\ Ticks /\ ~Due
  /\ UNCHANGED <<adm_ADCValue, button, taken, since, held>>

(* sch_Task_10ms; the converter may have nothing new.                      *)
SchTask ==
  /\ Ticks /\ Due
  /\ adm_ADCValue' \in Samples \cup {adm_ADCValue}
  /\ UIB_Task
  /\ UIF_Task
  /\ since' = 0

SCH_Task == SchCount \/ SchTask

ButtonsNext == Time \/ SCH_Task

ButtonsSpec ==
  /\ ButtonsInit /\ [][ButtonsNext]_buttonsVars
  /\ WF_buttonsVars(Time) /\ WF_buttonsVars(SCH_Task)

------------------------------------------------------------------------------
(* Properties.                                                             *)

ButtonsTypeOK ==
  /\ timer \in 0 .. TimerSize - 1 /\ sch_lastTimerVal \in 0 .. TimerSize - 1
  /\ sch_tick \in 0 .. TickSize - 1
  /\ adm_ADCValue \in Samples \cup {0}
  /\ UIB_buttonPressed \in buttonStates /\ UIB_buttonChanged \in {0, 1}
  /\ uib_state \in {"INIT_DEBOUNCE", "SECOND_DEBOUNCE", "REPEAT_DEBOUNCE"}
  /\ uib_debounceCtr \in 0 .. Limit(uib_state) - 1
  /\ taken \in buttonStates
  /\ since \in Nat
  /\ held \in 0 .. FirstRepeat + uib_REPEAT_DEBOUNCE

(* A button is reported when it was read again uib_INIT_DEBOUNCE times,    *)
(* then after uib_SECOND_DEBOUNCE more and every uib_REPEAT_DEBOUNCE after *)
(* that, and never otherwise: whatever was read before it (UIB_Task).      *)
ReportsOnSchedule ==
  UIB_buttonChanged = 1 <=>
    held \in {uib_INIT_DEBOUNCE, FirstRepeat, FirstRepeat + uib_REPEAT_DEBOUNCE}

(* The joystick is read at the latest after Period times what the main     *)
(* loop may lag: SCH_Task counts one tick for any number of milliseconds,  *)
(* and sch_tick wraps before it is a multiple of Period (sch.c:48-55).     *)
ReadInTime == since <= Period * MaxLag

(* A button that stays pressed is taken again and again (UIB_Task,         *)
(* UIF_Task).                                                              *)
HeldIsTaken ==
  \A b \in {Pressed(v) : v \in Samples} \ {"NOT_PRESSED"} :
    <>[](UIB_buttonPressed = b) => []<>(taken = b)

------------------------------------------------------------------------------
(* What the documentation says, or the code means to do, and what the code *)
(* does not do: TLC refutes this.                                          *)

(* The tasks run every Period ticks, not more often: "execute tasks at a   *)
(* cyclic predefined time" (sch.c:2).                                      *)
TaskIsCyclic == [][SchTask => sch_tick % Period = Period - 1]_buttonsVars

==============================================================================
