------------------------------ MODULE EthTimer ------------------------------
(***************************************************************************)
(* The timers of the Ethernet boot loader (timer.c) and their simplest     *)
(* user, the heartbeat LED (led.c).  An interrupt every 10 ms advances     *)
(* current_time; the main loop reads its two fields one after the other,   *)
(* in set_timer and in timer_expired, with interrupts on.                  *)
(*                                                                         *)
(* Time is counted in ticks of 10 ms.  Seconds are kept relative to the    *)
(* current second, so that a behaviour can run for ever: at most           *)
(* TicksPerRead ticks fall between two reads of the main loop, which are a *)
(* few instructions apart.  All timers are set to whole or half seconds.   *)
(***************************************************************************)
EXTENDS Integers, FiniteSetsExt

CONSTANTS
  SecTicks,     \* ticks in a second: 100
  Durations,    \* the ticks timers are set to: 50, 100 and 500
  Longest,      \* the longest of them
  TicksPerRead  \* the most ticks between two accesses of the main loop

EthTimerAssumption ==
  /\ SecTicks \in Nat \ {0, 1}
  /\ Durations \subseteq Nat \ {0}
  /\ Longest \in Durations /\ \A d \in Durations : d <= Longest
  /\ \A d \in Durations : d % SecTicks = 0 \/ 2 * (d % SecTicks) = SecTicks
  /\ TicksPerRead \in Nat /\ 4 * TicksPerRead <= SecTicks

Wrap == 16 * SecTicks      \* unsigned arithmetic is modulo a large number
MaxAge == Longest + 4 * SecTicks

VARIABLES
  ms,     \* current_time_g->milliseconds, in ticks
  timer,  \* the expiry time: seconds from now, milliseconds
  main,   \* where the main loop is, what it has read, its timer's duration
  led,    \* LED 0
  age     \* history: ticks since the call of set_timer, and since the last read

vars == <<ms, timer, main, led, age>>

Carries(d) == ms >= SecTicks - (d % SecTicks)

-----------------------------------------------------------------------------
(* init_led has cleared the LEDs, new_timer the timer, and set_timer begins. *)
Init ==
  /\ ms = 0 /\ led = 0
  /\ timer = [seconds |-> 0, milliseconds |-> 0]
  /\ \E d \in Durations : main = [at |-> "compare", dur |-> d, carry |-> FALSE]
  /\ age = [set |-> 0, read |-> 0]

(* A bug: the tick does not carry into the seconds.                        *)
timer_interrupt_KeepSeconds ==
  /\ age.read < TicksPerRead
  /\ ms' = (ms + 1) % SecTicks
  /\ age' = [set |-> Min({age.set + 1, MaxAge}), read |-> age.read + 1]
  /\ UNCHANGED <<main, led, timer>>

(* timer.c:103-122 *)
timer_interrupt ==
  /\ age.read < TicksPerRead
  /\ ms' = (ms + 1) % SecTicks
  /\ timer' = IF ms' = 0 /\ timer.seconds > -5 THEN [timer EXCEPT !.seconds = @ - 1]
              ELSE timer
  /\ age' = [set |-> Min({age.set + 1, MaxAge}), read |-> age.read + 1]
  /\ UNCHANGED <<main, led>>

Reads(from, to) ==
  /\ main.at = from
  /\ main' = [main EXCEPT !.at = to]
  /\ age' = [age EXCEPT !.read = 0]
  /\ UNCHANGED ms

(* set_timer, timer.c:85-100: one read for the comparison, one of seconds, *)
(* one of milliseconds.                                                    *)
SetCompare ==
  /\ main.at = "compare"
  /\ main' = [main EXCEPT !.at = "seconds", !.carry = Carries(main.dur)]
  /\ age' = [age EXCEPT !.read = 0]
  /\ UNCHANGED <<ms, timer, led>>

(* A bug: the carry of the milliseconds is dropped.                        *)
SetSeconds_NoCarry ==
  /\ Reads("seconds", "milliseconds")
  /\ timer' = [timer EXCEPT !.seconds = main.dur \div SecTicks]
  /\ UNCHANGED led

SetSeconds ==
  /\ Reads("seconds", "milliseconds")
  /\ timer' = [timer EXCEPT !.seconds = main.dur \div SecTicks + (IF main.carry THEN 1 ELSE 0)]
  /\ UNCHANGED led

SetMilliseconds ==
  /\ Reads("milliseconds", "earlier")
  /\ timer' = [timer EXCEPT !.milliseconds =
                 (ms + (main.dur % SecTicks) - (IF main.carry THEN SecTicks ELSE 0)) % Wrap]
  /\ UNCHANGED led

(* process_led, led.c:67-69: flip, and set the timer again.                *)
Fire ==
  /\ led' = 1 - led
  /\ \E d \in Durations : main' = [at |-> "compare", dur |-> d, carry |-> FALSE]
  /\ age' = [set |-> 0, read |-> 0]
  /\ UNCHANGED <<ms, timer>>

Poll(from, fires, next) ==
  /\ main.at = from
  /\ IF fires THEN Fire ELSE Reads(from, next) /\ UNCHANGED <<timer, led>>

(* timer_expired, timer.c:126-138: two reads of seconds and then one of    *)
(* milliseconds.  A timer at 0:0 counts as not set; no timer that has been *)
(* set is at 0:0.                                                          *)
PollEarlier == Poll("earlier", timer.seconds < 0, "equal")

PollEqual == Poll("equal", FALSE, IF timer.seconds = 0 THEN "within" ELSE "earlier")

PollWithin == Poll("within", timer.milliseconds < ms, "earlier")

MainLoop == \/ SetCompare \/ SetSeconds \/ SetMilliseconds
            \/ PollEarlier \/ PollEqual \/ PollWithin

Next == timer_interrupt \/ MainLoop

Spec == Init /\ [][Next]_vars

(* The timer of the hardware keeps ticking and the main loop keeps going.  *)
FairSpec == Spec /\ WF_vars(timer_interrupt) /\ WF_vars(MainLoop)

-----------------------------------------------------------------------------
TypeOK ==
  /\ ms \in 0 .. SecTicks - 1
  /\ timer \in [seconds : -5 .. 1 + Longest \div SecTicks, milliseconds : 0 .. Wrap - 1]
  /\ main \in [at : {"compare", "seconds", "milliseconds", "earlier", "equal", "within"},
               dur : Durations, carry : BOOLEAN]
  /\ led \in {0, 1}
  /\ age \in [set : 0 .. MaxAge, read : 0 .. TicksPerRead]

(* A timer that was set to part of a second (the 500 ms of the LED and of  *)
(* the TCP retransmissions) never fires before its time, wherever the      *)
(* ticks fall between the reads of set_timer and timer_expired.            *)
NotEarly ==
  [][led' # led /\ main.dur % SecTicks # 0 => age.set > main.dur]_vars

(* One that was set to whole seconds may: when the second turns between    *)
(* the reads of seconds and milliseconds, up to a second is lost, no more. *)
EarlyByLessThanASecond == [][led' # led => age.set + SecTicks > main.dur]_vars

(* A timer fires at most a second and a half late, also when the tick that *)
(* turns the second made set_timer store a negative number of milliseconds. *)
NotLate == age.set < main.dur + (3 * SecTicks) \div 2 + 4 * TicksPerRead

(* The heartbeat goes on.                                                  *)
KeepsFlashing == []<><<led' # led>>_vars
=============================================================================
