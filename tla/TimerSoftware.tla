--------------------------- MODULE TimerSoftware ---------------------------
(***************************************************************************)
(* The timer and the software that drives it                               *)
(* (example/common/simple_system_common.c): a program that calls           *)
(* timer_enable(), timer_disable(), timecmp_update() and timer_read(), and *)
(* simple_timer_handler(), which interrupts it.  The 64-bit registers are  *)
(* accessed by halves while the time goes on.                              *)
(*                                                                         *)
(* There are two contexts, the program ("main") and the handler ("irq");   *)
(* both may be inside of increment_timecmp().  Every access takes a clock  *)
(* cycle, and any number of cycles may pass between two of them.           *)
(***************************************************************************)
EXTENDS Timer

CONSTANTS
  TimeBases,    \* the arguments of timer_enable()
  NewTimes,     \* the arguments of timecmp_update()
  MaxTime       \* bound on mtime

(* 64 bits do not run over: the times looked at leave room for the sum      *)
(* current_time + time_base.                                                *)
ASSUME SoftwareAssumption ==
  /\ MaxTime \in 0..(Base * Base - 1)
  /\ TimeBases \subseteq Nat
  /\ \A b \in TimeBases : MaxTime + b < Base * Base
  /\ NewTimes \subseteq 0..(Base * Base - 1)

VARIABLES
  pc,               \* pc[c]: the next access of context c
  op,               \* the function the program is in
  timeh, timel,     \* current_timeh, current_time, per context
  new_time,         \* the argument of timecmp_update(), per context
  enabled,          \* MTIE and MIE are set
  time_elapsed, time_increment,
  \* History, read by no action:
  called,           \* per context, the time timer_read() was called
  deadline,         \* the argument of the last completed timecmp_update(),
  completed,        \* and when that was
  start             \* the time that timer_enable() read

swVars == <<pc, op, timeh, timel, new_time, enabled, time_elapsed,
            time_increment, called, deadline, completed, start>>
vars == <<timerVars, swVars>>

Contexts == {"main", "irq"}
Times == 0..(Base * Base - 1)

TypeOK ==
  /\ TimerTypeOK
  /\ pc \in [Contexts -> {"idle", "read_h", "read_l", "reread_h",
                          "mask", "cmp_h", "cmp_l", "enable"}]
  /\ op \in {"none", "timer_read", "timer_enable", "timecmp_update"}
  /\ timeh \in [Contexts -> 0..(Base - 1)]
  /\ timel \in [Contexts -> 0..(Base - 1)]
  /\ new_time \in [Contexts -> Times]
  /\ enabled \in BOOLEAN
  /\ time_elapsed \in Nat /\ time_increment \in TimeBases \cup {0}
  /\ called \in [Contexts -> Times]
  /\ deadline \in Times /\ completed \in Times /\ start \in Times

Init ==
  /\ Reset
  /\ pc = [c \in Contexts |-> "idle"] /\ op = "none"
  /\ timeh = [c \in Contexts |-> 0] /\ timel = [c \in Contexts |-> 0]
  /\ new_time = [c \in Contexts |-> 0]
  /\ enabled = FALSE
  /\ time_elapsed = 0 /\ time_increment = 0
  /\ called = [c \in Contexts |-> 0]
  /\ deadline = 0 /\ completed = 0 /\ start = 0

-----------------------------------------------------------------------------
InHandler == pc["irq"] # "idle"

(* The core takes an interrupt before the next instruction; the handler     *)
(* runs with interrupts off.                                                *)
Runs(c) ==
  /\ mtime < MaxTime
  /\ IF c = "irq" THEN InHandler ELSE ~InHandler /\ ~(enabled /\ interrupt)

At(c, where) == Runs(c) /\ pc[c] = where
Goto(c, where) == pc' = [pc EXCEPT ![c] = where]

(* A cycle without access: an instruction of the caller or of these         *)
(* functions, or the core sleeps.                                           *)
Tick ==
  /\ mtime < MaxTime
  /\ ClockEdge(NoAccess)
  /\ UNCHANGED swVars

(* timer_read(): the high word, the low word, and the high word again.      *)
Called(c) == called' = [called EXCEPT ![c] = mtime]

ReadHigh(c) ==
  /\ At(c, "read_h")
  /\ ClockEdge(Read("MTIME_HIGH"))
  /\ timeh' = [timeh EXCEPT ![c] = ReadData("MTIME_HIGH")]
  /\ Goto(c, "read_l")
  /\ UNCHANGED <<op, timel, new_time, enabled, time_elapsed, time_increment,
                 called, deadline, completed, start>>

ReadLow(c) ==
  /\ At(c, "read_l")
  /\ ClockEdge(Read("MTIME_LOW"))
  /\ timel' = [timel EXCEPT ![c] = ReadData("MTIME_LOW")]
  /\ Goto(c, "reread_h")
  /\ UNCHANGED <<op, timeh, new_time, enabled, time_elapsed, time_increment,
                 called, deadline, completed, start>>

(* Mutant: no retry.                                                        *)
Overflowed_Never(c) == FALSE

Overflowed(c) == timeh[c] # ReadData("MTIME_HIGH")

(* What follows timer_read(): increment_timecmp() adds the time base and    *)
(* calls timecmp_update(), unless the program wanted the time itself.       *)
ReadHighAgain(c) ==
  LET final_time == Join(timeh[c], timel[c]) IN
  /\ At(c, "reread_h")
  /\ ClockEdge(Read("MTIME_HIGH"))
  /\ \/ /\ Overflowed(c)
        /\ Goto(c, "read_h")
        /\ UNCHANGED <<op, new_time, start>>
     \/ /\ ~Overflowed(c)
        /\ IF c = "main" /\ op = "timer_read"
           THEN /\ Goto(c, "idle") /\ op' = "none"
                /\ UNCHANGED <<new_time, start>>
           ELSE /\ Goto(c, "mask")
                /\ new_time' = [new_time EXCEPT ![c] = final_time + time_increment]
                /\ start' = IF c = "main" THEN final_time ELSE start
                /\ UNCHANGED op
  /\ UNCHANGED <<timeh, timel, enabled, time_elapsed, time_increment, called,
                 deadline, completed>>

(* timecmp_update(): the low word is set to all ones first, so that no      *)
(* mixture of the old and the new value lies in the past.                   *)
(* Mutant: to zero.                                                         *)
AllOnes_Zero == 0

AllOnes == Base - 1

WriteCmpMask(c) ==
  /\ At(c, "mask")
  /\ ClockEdge(Write("MTIMECMP_LOW", AllOnes))
  /\ Goto(c, "cmp_h")
  /\ UNCHANGED <<op, timeh, timel, new_time, enabled, time_elapsed,
                 time_increment,
                 called, deadline, completed, start>>

WriteCmpHigh(c) ==
  /\ At(c, "cmp_h")
  /\ ClockEdge(Write("MTIMECMP_HIGH", High(new_time[c])))
  /\ Goto(c, "cmp_l")
  /\ UNCHANGED <<op, timeh, timel, new_time, enabled, time_elapsed,
                 time_increment,
                 called, deadline, completed, start>>

(* The last access, and what follows: timer_enable() goes on, the handler   *)
(* counts and returns.                                                      *)
WriteCmpLow(c) ==
  /\ At(c, "cmp_l")
  /\ ClockEdge(Write("MTIMECMP_LOW", Low(new_time[c])))
  /\ deadline' = new_time[c] /\ completed' = mtime
  /\ IF c = "main" /\ op = "timer_enable"
     THEN Goto(c, "enable") /\ UNCHANGED <<op, time_elapsed>>
     ELSE /\ Goto(c, "idle")
          /\ op' = IF c = "main" THEN "none" ELSE op
          /\ time_elapsed' = IF c = "irq" THEN time_elapsed + 1 ELSE time_elapsed
  /\ UNCHANGED <<timeh, timel, new_time, enabled, time_increment, called,
                 start>>

-----------------------------------------------------------------------------
(* The calls of the program.  timecmp_update() and timer_enable(), which    *)
(* are not made to be interrupted by the handler, are called while the      *)
(* interrupt is disabled.                                                   *)
TimerRead ==
  /\ At("main", "idle")
  /\ op' = "timer_read"
  /\ Called("main") /\ Goto("main", "read_h")
  /\ UNCHANGED <<timerVars, timeh, timel, new_time, enabled, time_elapsed,
                 time_increment, deadline, completed, start>>

TimerEnable(time_base) ==
  /\ At("main", "idle") /\ ~enabled
  /\ op' = "timer_enable"
  /\ time_elapsed' = 0
  /\ time_increment' = time_base
  /\ Called("main") /\ Goto("main", "read_h")
  /\ UNCHANGED <<timerVars, timeh, timel, new_time, enabled,
                 deadline, completed, start>>

SetEnabled ==
  /\ At("main", "enable")
  /\ enabled' = TRUE
  /\ op' = "none" /\ Goto("main", "idle")
  /\ UNCHANGED <<timerVars, timeh, timel, new_time, time_elapsed,
                 time_increment,
                 called, deadline, completed, start>>

TimerDisable ==
  /\ At("main", "idle") /\ enabled
  /\ enabled' = FALSE
  /\ UNCHANGED <<timerVars, pc, op, timeh, timel, new_time, time_elapsed,
                 time_increment, called, deadline, completed, start>>

TimecmpUpdate(t) ==
  /\ At("main", "idle") /\ ~enabled
  /\ op' = "timecmp_update"
  /\ new_time' = [new_time EXCEPT !["main"] = t]
  /\ Goto("main", "mask")
  /\ UNCHANGED <<timerVars, timeh, timel, enabled, time_elapsed,
                 time_increment,
                 called, deadline, completed, start>>

(* simple_timer_handler() is entered.                                       *)
Interrupt ==
  /\ mtime < MaxTime
  /\ enabled /\ interrupt /\ ~InHandler
  /\ Called("irq") /\ Goto("irq", "read_h")
  /\ UNCHANGED <<timerVars, op, timeh, timel, new_time, enabled, time_elapsed,
                 time_increment, deadline, completed, start>>

Next ==
  \/ Tick
  \/ \E c \in Contexts :
       \/ ReadHigh(c) \/ ReadLow(c) \/ ReadHighAgain(c)
       \/ WriteCmpMask(c) \/ WriteCmpHigh(c) \/ WriteCmpLow(c)
  \/ TimerRead \/ TimerDisable \/ SetEnabled \/ Interrupt
  \/ \E b \in TimeBases : TimerEnable(b)
  \/ \E t \in NewTimes : TimecmpUpdate(t)

Spec == Init /\ [][Next]_vars

-----------------------------------------------------------------------------
(* timer_read() returns a time at which it was running, although it reads   *)
(* the two halves in different cycles and may be interrupted in between by  *)
(* a handler that reads them too.                                           *)
ReadExact ==
  [][\A c \in Contexts :
       pc[c] = "reread_h" /\ pc'[c] \notin {"reread_h", "read_h"} =>
         Join(timeh[c], timel[c]) \in called[c]..mtime]_vars

(* The timer never interrupts early, at no point of the three writes of     *)
(* timecmp_update(), which the program makes with the interrupt disabled    *)
(* and the handler makes with interrupts off: if the interrupt is pending   *)
(* then the compare value last completed is in the past or, before the last *)
(* write, the new one.                                                      *)
NeverEarly ==
  interrupt =>
    \/ mtime > deadline /\ \A c \in Contexts : pc[c] # "cmp_l"
    \/ \E c \in Contexts : pc[c] = "cmp_l" /\ mtime > new_time[c]

(* No interrupt is lost, even if the compare value is already in the past   *)
(* when the last of its words is written: outside of timecmp_update() it is *)
(* pending from the cycle after the one in which the time is reached, and   *)
(* at the latest from the second cycle after the last write.                *)
NeverLost ==
  /\ \A c \in Contexts : pc[c] \notin {"cmp_h", "cmp_l"}
  /\ mtime > deadline
  /\ mtime > completed + 1
  => interrupt

(* time_elapsed never runs ahead of the time: since timer_enable() that     *)
(* many time bases have passed.                                             *)
ElapsedHonest ==
  enabled => start + time_elapsed * time_increment <= mtime
=============================================================================
