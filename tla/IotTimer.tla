------------------------------ MODULE IotTimer ------------------------------
(***************************************************************************)
(* The timers of Utilities/iot/iot_timer.c: a deadline on a clock of       *)
(* milliseconds that wraps.  iot_timer_left reads the clock twice.         *)
(***************************************************************************)
EXTENDS Integers

CONSTANTS
  Half,       \* 2 ^ (width of uint32_t - 1)
  MaxMs,      \* the longest time-out that is set
  MaxElapsed  \* bound: time a timer is looked at

\* The warning in iot_timer_countdown; a timer is looked at before its deadline
\* is half a turn of the clock away.
ASSUME TimerAssumption ==
  /\ Half \in Nat /\ MaxMs \in Nat /\ MaxElapsed \in Nat
  /\ 0 < MaxMs /\ MaxMs < Half /\ MaxElapsed < Half - 1

VARIABLES
  clock,      \* osKernelSysTick
  time,       \* timer->time
  leftPc,     \* iot_timer_left: between calls, or after its first look
  left,       \* what it returned last
  ms, elapsed,\* history: the time-out set, the time since
  firstLook   \* history: elapsed at iot_timer_left's first look

timerVars == <<clock, time, leftPc, left, ms, elapsed, firstLook>>

Clock == 0 .. 2 * Half - 1

TimerTypeOK ==
  /\ clock \in Clock /\ time \in Clock /\ left \in Clock
  /\ leftPc \in {"idle", "looked"}
  /\ ms \in 0 .. MaxMs /\ elapsed \in 0 .. MaxElapsed /\ firstLook \in 0 .. MaxElapsed

\* Addition and subtraction of uint32_t
Plus(a, b) == IF a + b < 2 * Half THEN a + b ELSE a + b - 2 * Half
Minus(a, b) == IF a >= b THEN a - b ELSE a - b + 2 * Half

\* A timer that was just set
TimerInit ==
  /\ clock \in Clock /\ ms \in 0 .. MaxMs /\ time = Plus(clock, ms)
  /\ leftPc = "idle" /\ left = 0 /\ elapsed = 0 /\ firstLook = 0

iot_timer_is_expired_Signed == clock >= time

\* UINT32_MAX / 2 is Half - 1.
iot_timer_is_expired == Minus(clock, time) < Half - 1

\* iot_timer_spend, for a timer set with iot_timer_start
iot_timer_spend == Minus(clock, time)

Tick ==
  /\ elapsed < MaxElapsed
  /\ clock' = Plus(clock, 1) /\ elapsed' = elapsed + 1
  /\ UNCHANGED <<time, leftPc, left, ms, firstLook>>

\* iot_timer_countdown; with 0 iot_timer_start
Countdown ==
  /\ leftPc = "idle"
  /\ ms' \in 0 .. MaxMs /\ time' = Plus(clock, ms') /\ elapsed' = 0
  /\ UNCHANGED <<clock, leftPc, left, firstLook>>

LeftLook_Unchecked ==
  /\ leftPc = "idle" /\ firstLook' = elapsed
  /\ leftPc' = "looked"
  /\ UNCHANGED <<clock, time, left, ms, elapsed>>

LeftLook ==
  /\ leftPc = "idle" /\ firstLook' = elapsed
  /\ IF iot_timer_is_expired THEN left' = 0 /\ UNCHANGED leftPc
                             ELSE leftPc' = "looked" /\ UNCHANGED left
  /\ UNCHANGED <<clock, time, ms, elapsed>>

LeftSubtract ==
  /\ leftPc = "looked" /\ leftPc' = "idle"
  /\ left' = Minus(time, clock)
  /\ UNCHANGED <<clock, time, ms, elapsed, firstLook>>

TimerNext == Tick \/ Countdown \/ LeftLook \/ LeftSubtract
TimerSpec == TimerInit /\ [][TimerNext]_timerVars

-----------------------------------------------------------------------------
\* A timer is expired from its deadline on and never before, and a started one
\* tells the time since, wherever the clock wraps (iot_timer.c:8-45).
ExpiredOnTime ==
  /\ iot_timer_is_expired <=> elapsed >= ms
  /\ ms = 0 => iot_timer_spend = elapsed

\* iot_timer_left returns the time that is left; it returns more than was ever
\* set, nearly a turn of the clock, when the deadline passes between its two
\* looks at the clock, and in no other case (iot_timer.c:18-29).
LeftIsLeft ==
  [][LeftSubtract => IF elapsed <= ms THEN left' = ms - elapsed
                     ELSE firstLook < ms /\ left' > MaxMs]_timerVars
=============================================================================
