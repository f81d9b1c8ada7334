------------------------------ MODULE AltAlarm ------------------------------
(***************************************************************************)
(* alt_alarm_start.c and alt_tick.c: an alarm calls its callback again and *)
(* again, Period ticks apart, by a tick counter that wraps around.         *)
(***************************************************************************)
EXTENDS Naturals

CONSTANTS
  Wrap,       \* the number of values of alt_u32
  Period      \* what the callback returns, alt_ticks_per_second()

AlarmAssumption == Wrap \in Nat /\ Period \in Nat \ {0} /\ Period + 1 < Wrap

VARIABLES
  nticks,           \* _alt_nticks
  time, rollover,   \* of alt_alarm
  left              \* the ticks until the callback should be called

vars == <<nticks, time, rollover, left>>

\* Addition of two values of alt_u32.
Sum32(i, k) == IF i + k < Wrap THEN i + k ELSE i + k - Wrap

\* alt_alarm_start for Period ticks, at any time.
alt_alarm_start ==
  /\ nticks \in 0 .. Wrap - 1
  /\ time = Sum32(Period + 1, nticks)
  /\ rollover = (time < nticks)
  /\ left = Period + 1

\* The roll-over flag is cleared when the counter wraps; an alarm that has it
\* set is not due although its time may be below the counter.
Ticked == Sum32(nticks, 1)
Rollover == rollover /\ Ticked # 0
Due == time <= Ticked /\ ~Rollover

alt_tick ==
  /\ nticks' = Ticked
  /\ left' = IF left = 1 THEN Period ELSE left - 1
  /\ time' = IF Due THEN Sum32(time, Period) ELSE time
  /\ rollover' = (Rollover \/ (Due /\ Sum32(time, Period) < Ticked))

Spec == alt_alarm_start /\ [][alt_tick]_vars

-----------------------------------------------------------------------------
\* The next tick calls the callback when it is the last of the period, and no
\* other one does, wherever the counter wraps.
OnTime == Due <=> left = 1
=============================================================================
