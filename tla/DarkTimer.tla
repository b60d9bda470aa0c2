----------------------------- MODULE DarkTimer -----------------------------
(***************************************************************************)
(* The DarkRISCV timer (darksocv.v) and the firmware that counts its       *)
(* ticks: irq_handler and the polling loop of main.c, usleep of stdio.c,   *)
(* and the commands timer and reboot.                                      *)
(*                                                                         *)
(* A step is a clock.  In it the processor makes one access to the timer   *)
(* or to utimers, in irq_handler if an interrupt is pending and enabled,   *)
(* or does something else.                                                 *)
(***************************************************************************)
EXTENDS Integers

CONSTANTS
  Cores,        \* what get_mtvec() finds: TRUE, or FALSE and the firmware polls
  Periods,      \* the values the timer command writes
  Slow,         \* the periods from here on leave the handler and main time
  Reload,       \* 999999
  Delay,        \* usleep's argument in reboot (1000000)
  Rounds        \* usleeps in a reboot (3)

DarkTimerAssumption ==
  /\ Cores \subseteq BOOLEAN
  /\ Periods \subseteq Nat /\ {Slow, Reload, Delay, Rounds} \subseteq Nat \ {0}
  /\ Slow >= 8      \* the handler and a pass of main's loop

VARIABLES
  hw,       \* the registers TIMERFF, TIMER, IREQ[7] and IACK[7]
  utimers,
  irq,      \* where irq_handler stands
  main,     \* where main stands; rounds and delay to go, and usleep's t
  since,    \* history: ticks handled since the LED was last counted up
  span      \* history: clocks since usleep was called, and TIMER at the call

vars == <<hw, utimers, irq, main, since, span>>

Least(a, b) == IF a < b THEN a ELSE b
Slack == 8      \* clocks that counting a tick, reading utimers and calling usleep take
Longest(first, period) == first + Delay * (period + 1) + Slack

-----------------------------------------------------------------------------
(* One clock of the timer; ack: the processor writes 0x80 to io.irq, and   *)
(* ff is what TIMERFF becomes.                                             *)
Pending == hw.ireq # hw.iack

Timer(ack, ff) ==
  hw' = [timerff |-> ff,
          timer |-> IF hw.timerff = 0 THEN hw.timer
                    ELSE IF hw.timer # 0 THEN hw.timer - 1 ELSE hw.timerff,
          ireq |-> IF hw.timerff # 0 /\ hw.timer = 0 /\ ~Pending THEN 1 - hw.iack ELSE hw.ireq,
          iack |-> IF ack THEN hw.ireq ELSE hw.iack]

Asleep == main.pc \in {"arm", "wait"}
Clock(ack, ff) ==
  /\ Timer(ack, ff)
  /\ span' = IF Asleep
             THEN [span EXCEPT !.clocks = Least(@ + 1, Longest(span.first, hw.timerff) + 1)]
             ELSE IF main.pc = "slept" THEN span ELSE [clocks |-> 0, first |-> 0]

Quiet == Clock(FALSE, hw.timerff)

(* if(!utimers--) { io.led++; utimers=999999; }                            *)
CountTick ==
  IF utimers = 0
  THEN utimers' = Reload /\ since' = 0
  ELSE utimers' = utimers - 1 /\ since' = Least(since + 1, Reload + 1)

-----------------------------------------------------------------------------
(* irq_handler; mie is set before main first clears io.irq.                *)
Enter ==
  /\ irq = "none" /\ main.mtvec /\ Pending /\ main.pc # "start"
  /\ irq' = "count"
  /\ Quiet /\ UNCHANGED <<utimers, main, since>>

Count ==
  /\ irq = "count" /\ CountTick
  /\ irq' = "ack"
  /\ Quiet /\ UNCHANGED main

AckWrites == TRUE
Ack ==
  /\ irq = "ack" /\ irq' = "return"
  /\ Clock(AckWrites, hw.timerff) /\ UNCHANGED <<utimers, main, since>>

(* The registers are restored after the acknowledgement, in a clock or two. *)
Mret ==
  /\ \/ irq = "return" /\ irq' \in {"restore", "none"}
     \/ irq = "restore" /\ irq' = "none"
  /\ Quiet /\ UNCHANGED <<utimers, main, since>>

Handler == Enter \/ Count \/ Ack \/ Mret

-----------------------------------------------------------------------------
Free == irq = "none" /\ (main.mtvec /\ main.pc # "start" => ~Pending)
Goto(pc) == main' = [main EXCEPT !.pc = pc]

Start ==
  /\ Free /\ main.pc = "start" /\ Goto("clear")
  /\ Quiet /\ UNCHANGED <<utimers, irq, since>>

Clear ==
  /\ Free /\ main.pc = "clear" /\ Goto("prompt")
  /\ Clock(TRUE, hw.timerff) /\ UNCHANGED <<utimers, irq, since>>

(* The loop in which main waits for a character when there is no mtvec.    *)
PollTick ==
  /\ Free /\ main.pc = "prompt" /\ ~main.mtvec /\ Pending
  /\ CountTick /\ Goto("clear")
  /\ Quiet /\ UNCHANGED irq

Idle ==
  /\ Free /\ main.pc = "prompt"
  /\ Quiet /\ UNCHANGED <<utimers, irq, main, since>>

TimerCommand(n) ==
  /\ Free /\ main.pc = "prompt" /\ n \in Periods
  /\ Clock(FALSE, n) /\ UNCHANGED <<utimers, irq, main, since>>

RebootCommand ==
  /\ Free /\ main.pc = "prompt"
  /\ main' = [main EXCEPT !.pc = "usleep", !.rounds = Rounds]
  /\ Quiet /\ UNCHANGED <<utimers, irq, since>>

(* usleep.                                                                 *)
CallSleep ==
  /\ Free /\ main.pc = "usleep"
  /\ main' = [main EXCEPT !.pc = "arm", !.delay = Delay]
  /\ Timer(FALSE, hw.timerff)
  /\ span' = [clocks |-> 1, first |-> hw.timer]
  /\ UNCHANGED <<utimers, irq, since>>

(* A bug: utimers is read once, before the wait.                           *)
Sample_Once == IF main.delay = Delay THEN utimers ELSE main.t

(* With interrupts t = utimers, without io.irq = IRQ_TIMR.                 *)
Sample == utimers
ClearsFirst == ~main.mtvec

Arm ==
  /\ Free /\ main.pc = "arm"
  /\ main' = [main EXCEPT !.pc = "wait", !.t = Sample]
  /\ Clock(ClearsFirst, hw.timerff) /\ UNCHANGED <<utimers, irq, since>>

Ticked == IF main.mtvec THEN utimers # main.t ELSE Pending

Wait ==
  /\ Free /\ main.pc = "wait"
  /\ main' = IF ~Ticked THEN main
             ELSE IF main.delay > 1 THEN [main EXCEPT !.pc = "arm", !.delay = @ - 1]
             ELSE [main EXCEPT !.pc = "slept", !.delay = 0]
  /\ Quiet /\ UNCHANGED <<utimers, irq, since>>

(* A dot, and the next usleep, or the end of main; what runs before main   *)
(* again may clear utimers.                                                *)
Slept ==
  /\ Free /\ main.pc = "slept"
  /\ IF main.rounds > 1
     THEN main' = [main EXCEPT !.pc = "usleep", !.rounds = @ - 1] /\ UNCHANGED <<utimers, since>>
     ELSE /\ main' = [main EXCEPT !.pc = "start", !.rounds = 0]
          /\ \/ UNCHANGED <<utimers, since>>
             \/ utimers' = 0 /\ since' = Reload
  /\ Quiet /\ UNCHANGED irq

Main == Start \/ Clear \/ PollTick \/ Idle \/ (\E n \in Periods : TimerCommand(n))
          \/ RebootCommand \/ CallSleep \/ Arm \/ Wait \/ Slept

-----------------------------------------------------------------------------
Init ==
  /\ \E n \in Periods : hw = [timerff |-> n, timer |-> 0, ireq |-> 0, iack |-> 0]
  /\ utimers = 0 /\ irq = "none"
  /\ \E c \in Cores : main = [mtvec |-> c, pc |-> "start", rounds |-> 0, delay |-> 0, t |-> 0]
  /\ since = Reload /\ span = [clocks |-> 0, first |-> 0]

Next == Handler \/ Main
Spec == Init /\ [][Next]_vars

(* The clock runs, and the processor goes on with each clock.              *)
FairSpec == Spec /\ WF_vars(Next)

-----------------------------------------------------------------------------
TypeOK ==
  /\ hw.timerff \in Periods /\ hw.timer \in Nat /\ hw.ireq \in {0, 1} /\ hw.iack \in {0, 1}
  /\ utimers \in 0 .. Reload
  /\ main.delay \in 0 .. Delay /\ main.rounds \in 0 .. Rounds

(* The LED counts once in Reload + 1 ticks that are handled.               *)
LedPeriod == utimers + since = Reload

(* usleep(n) takes at least n - 1 periods, and with a timer that is slow   *)
(* enough at most n after the tick that TIMER is counting down to.         *)
SleepIsAccurate ==
  main.pc = "slept" =>
    /\ span.clocks >= (Delay - 1) * (hw.timerff + 1)
    /\ hw.timerff >= Slow => span.clocks <= Longest(span.first, hw.timerff)

(* A reboot ends, unless the timer has been stopped, or set so fast that   *)
(* its handler leaves no time.                                             *)
RebootEnds == main.pc = "usleep" ~> main.pc = "start" \/ hw.timerff < Slow

-----------------------------------------------------------------------------
(* Why it is so.  The ticks of this usleep: those it has counted, one it   *)
(* is about to see, and one that irq_handler has not counted yet.          *)
Period == hw.timerff + 1
Uncounted == main.mtvec /\ Pending /\ irq # "ack"
Seen == main.pc = "wait" /\ Ticked
Ticks == Delay - main.delay + (IF Seen THEN 1 ELSE 0) + (IF Uncounted THEN 1 ELSE 0)

TimerTypes ==
  /\ hw \in [timerff : Periods, timer : Nat, ireq : {0, 1}, iack : {0, 1}]
  /\ utimers \in 0 .. Reload /\ since \in 0 .. Reload
  /\ irq \in {"none", "count", "ack", "return", "restore"}
  /\ main \in [mtvec : Cores, rounds : 0 .. Rounds, delay : 0 .. Delay, t : 0 .. Reload,
               pc : {"start", "clear", "prompt", "usleep", "arm", "wait", "slept"}]
  /\ span \in [clocks : Nat, first : Nat]

(* A handler runs while the core has one, until it has acknowledged.       *)
Handles ==
  /\ irq # "none" => main.mtvec
  /\ irq \in {"count", "ack"} => Pending
  /\ Asleep => main.delay >= 1
  /\ main.pc = "slept" => main.delay = 0

(* Two ticks are a period apart.                                           *)
AtLeast(n) == hw.timer <= hw.timerff
              /\ span.clocks >= (n - 1) * Period + (hw.timerff - hw.timer)
NotTooShort ==
  Asleep /\ Ticks >= 1 => span.clocks > Longest(span.first, hw.timerff) \/ AtLeast(Ticks)

(* Where the handler and usleep are in a period that is long enough.       *)
HandlerInPeriod ==
  /\ irq = "none" /\ Pending => hw.timer = hw.timerff
  /\ irq = "count" => hw.timer = hw.timerff - 1
  /\ irq = "ack" => hw.timer = hw.timerff - 2
  /\ irq = "return" => hw.timer = hw.timerff - 3
  /\ irq = "restore" => hw.timer = hw.timerff - 4
  /\ irq \in {"return", "restore"} => ~Pending
  /\ Seen => ~Uncounted /\ hw.timer >= hw.timerff - 5
  /\ main.pc = "arm" /\ main.delay < Delay =>
       irq = "none" /\ ~Pending /\ hw.timer >= hw.timerff - 6

PollInPeriod ==
  /\ Seen => hw.timer = hw.timerff
  /\ main.pc = "arm" /\ main.delay < Delay => Pending /\ hw.timer = hw.timerff - 1
  /\ main.pc = "arm" /\ main.delay = Delay =>
       /\ span.clocks <= 1
       /\ \/ span.first = hw.timer + 1
          \/ span.first = 0 /\ hw.timer = hw.timerff

(* At most one tick is lost, the first one, before usleep has sampled.     *)
NotTooLong ==
  Asleep /\ hw.timerff >= Slow =>
    /\ span.clocks + hw.timer <= span.first + (Ticks + 1) * Period
    /\ main.mtvec /\ main.pc = "arm" /\ (Pending \/ irq # "none") =>
         main.delay = Delay /\ span.clocks + hw.timer <= span.first + Period
    /\ IF main.mtvec THEN HandlerInPeriod ELSE PollInPeriod

TimerInv ==
  /\ TimerTypes /\ Handles /\ NotTooShort /\ NotTooLong /\ LedPeriod /\ SleepIsAccurate
=============================================================================
