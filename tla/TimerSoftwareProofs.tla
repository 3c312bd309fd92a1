------------------------ MODULE TimerSoftwareProofs ------------------------
(***************************************************************************)
(* The safety properties of the timer and its software, for every width of *)
(* the bus word, every time base and every compare value.                  *)
(***************************************************************************)
EXTENDS TimerSoftware, Integers, TLAPS

-----------------------------------------------------------------------------
(***************************************************************************)
(* The words of a register.                                                *)
(***************************************************************************)

(* A bus word has values.                                                   *)
LEMMA BaseType == Base \in Nat \ {0}
BY WordAssumption DEF Base

(* A number is made of its words.                                           *)
LEMMA WordsOf ==
  ASSUME NEW x \in Nat
  PROVE  High(x) \in Nat /\ Low(x) \in 0..(Base - 1) /\ x = Join(High(x), Low(x))
<1> DEFINE B == Base
<1>1. B \in Nat \ {0} BY BaseType
<1> HIDE DEF B
<1>2. x \div B \in Nat /\ x % B \in 0..(B - 1) /\ x = (x \div B) * B + (x % B)
  BY <1>1
<1> QED BY <1>2 DEF B, High, Low, Join

(* Words make a number below Base^2, not below its high word's share.       *)
LEMMA JoinType ==
  ASSUME NEW hi \in 0..(Base - 1), NEW lo \in 0..(Base - 1)
  PROVE  Join(hi, lo) \in Times
<1> DEFINE B == Base
<1>1. B \in Nat \ {0} BY BaseType
<1>2. hi \in 0..(B - 1) /\ lo \in 0..(B - 1) OBVIOUS
<1> HIDE DEF B
<1>3. hi * B \in Nat BY <1>1, <1>2
<1>4. (B - 1 - hi) * B \in Nat BY <1>1, <1>2
<1>5. (B - 1 - hi) * B = B * B - B - hi * B BY <1>1, <1>2
<1>6. hi * B + lo \in 0..(B * B - 1) BY <1>1, <1>2, <1>3, <1>4, <1>5
<1> QED BY <1>6 DEF B, Join, Times

(* The words of what two words make are these words.                        *)
LEMMA JoinWords ==
  ASSUME NEW hi \in Nat, NEW lo \in 0..(Base - 1)
  PROVE  High(Join(hi, lo)) = hi /\ Low(Join(hi, lo)) = lo
<1> DEFINE B == Base
           x == hi * B + lo
<1>1. B \in Nat \ {0} BY BaseType
<1>2. lo \in 0..(B - 1) OBVIOUS
<1> HIDE DEF B
<1>3. x \in Nat BY <1>1, <1>2
<1> DEFINE q == x \div B
           r == x % B
<1>4. q \in Nat /\ r \in 0..(B - 1) /\ x = q * B + r BY <1>1, <1>3
<1> HIDE DEF q, r
<1>5. (q - hi) * B = lo - r BY <1>1, <1>2, <1>4
<1>6. ASSUME q - hi >= 1 PROVE FALSE
  <2>1. (q - hi - 1) * B \in Nat BY <1>1, <1>4, <1>6
  <2>2. (q - hi) * B = (q - hi - 1) * B + B BY <1>1, <1>4
  <2> QED BY <1>1, <1>2, <1>4, <1>5, <2>1, <2>2
<1>7. ASSUME hi - q >= 1 PROVE FALSE
  <2>1. (hi - q - 1) * B \in Nat BY <1>1, <1>4, <1>7
  <2>2. (q - hi) * B = 0 - (hi - q - 1) * B - B BY <1>1, <1>4
  <2> QED BY <1>1, <1>2, <1>4, <1>5, <2>1, <2>2
<1>8. q = hi BY <1>4, <1>6, <1>7
<1>9. r = lo BY <1>1, <1>2, <1>4, <1>8
<1> QED BY <1>8, <1>9 DEF B, q, r, High, Low, Join

(* The high word of a smaller number is not larger.                         *)
LEMMA HighMonotonic ==
  ASSUME NEW x \in Nat, NEW y \in Nat, x <= y
  PROVE  High(x) <= High(y)
<1> DEFINE B == Base
           p == High(x)
           q == High(y)
<1>1. B \in Nat \ {0} BY BaseType
<1>2. /\ p \in Nat /\ Low(x) \in 0..(B - 1) /\ x = p * B + Low(x)
      /\ q \in Nat /\ Low(y) \in 0..(B - 1) /\ y = q * B + Low(y)
  BY WordsOf DEF Join
<1> HIDE DEF B, p, q
<1>3. ASSUME p - q >= 1 PROVE FALSE
  <2>1. (p - q - 1) * B \in Nat BY <1>1, <1>2, <1>3
  <2>2. p * B = q * B + B + (p - q - 1) * B BY <1>1, <1>2
  <2> QED BY <1>1, <1>2, <2>1, <2>2
<1>4. p <= q BY <1>2, <1>3
<1> QED BY <1>4 DEF p, q

(* A register has two words.                                                *)
LEMMA HighType ==
  ASSUME NEW x \in Times
  PROVE  High(x) \in 0..(Base - 1)
<1> DEFINE B == Base
           q == High(x)
<1>1. B \in Nat \ {0} BY BaseType
<1>2. x \in 0..(B * B - 1) BY DEF Times
<1>3. q \in Nat /\ Low(x) \in 0..(B - 1) /\ x = q * B + Low(x)
  BY <1>1, <1>2, WordsOf DEF Join
<1> HIDE DEF B, q
<1>4. ASSUME q >= B PROVE FALSE
  <2>1. (q - B) * B \in Nat BY <1>1, <1>3, <1>4
  <2>2. q * B = (q - B) * B + B * B BY <1>1, <1>3
  <2> QED BY <1>1, <1>2, <1>3, <2>1, <2>2
<1>5. q \in 0..(B - 1) BY <1>1, <1>3, <1>4
<1> QED BY <1>5 DEF B, q

(* What timecmp_update() relies on: with all ones in its low word a number  *)
(* does not become smaller.                                                 *)
LEMMA MaskedNotSmaller ==
  ASSUME NEW x \in Nat
  PROVE  Join(High(x), Base - 1) \in Nat /\ x <= Join(High(x), Base - 1)
<1> DEFINE B == Base
           q == High(x)
<1>1. B \in Nat \ {0} BY BaseType
<1>2. q \in Nat /\ Low(x) \in 0..(B - 1) /\ x = q * B + Low(x)
  BY WordsOf DEF Join
<1> HIDE DEF B, q
<1>3. q * B + (B - 1) \in Nat /\ x <= q * B + (B - 1) BY <1>1, <1>2
<1> QED BY <1>3 DEF B, q, Join

-----------------------------------------------------------------------------
(***************************************************************************)
(* What a clock edge does, for the accesses that the software makes.       *)
(***************************************************************************)

(* The time goes on by one as long as the compare register or nothing is    *)
(* written.                                                                 *)
LEMMA TimeGoesOn ==
  ASSUME NEW acc, TimerTypeOK, mtime < MaxTime, ClockEdge(acc),
         ~Writes(acc, "MTIME_HIGH"), ~Writes(acc, "MTIME_LOW")
  PROVE  mtime' = mtime + 1 /\ mtime' \in Times
<1> DEFINE BB == Base * Base
<1>1. BB \in Nat /\ mtime + 1 \in 0..(BB - 1)
  BY BaseType, SoftwareAssumption DEF TimerTypeOK
<1> HIDE DEF BB
<1>2. (mtime + 1) % BB = mtime + 1 BY <1>1
<1>3. mtime' = Join(High(mtime + 1), Low(mtime + 1))
  BY <1>2 DEF ClockEdge, Updated, BB
<1>4. mtime' = mtime + 1 BY <1>1, <1>3, WordsOf
<1> QED BY <1>1, <1>4 DEF BB, Times

(* A cycle without access, or in which a register is read.                  *)
LEMMA EdgeRead ==
  ASSUME TimerTypeOK, mtime < MaxTime,
         NEW acc, acc.we = FALSE, ClockEdge(acc)
  PROVE  /\ mtime' = mtime + 1
         /\ mtimecmp' = mtimecmp
         /\ interrupt' <=> (mtime >= mtimecmp \/ interrupt)
         /\ TimerTypeOK'
<1>1. \A a : ~Writes(acc, a) BY DEF Writes
<1>2. mtime' = mtime + 1 /\ mtime' \in Times BY <1>1, TimeGoesOn
<1>3. mtimecmp' = Join(High(mtimecmp), Low(mtimecmp))
  BY <1>1 DEF ClockEdge, Updated
<1>4. mtimecmp \in Nat BY BaseType DEF TimerTypeOK
<1>5. mtimecmp' = mtimecmp BY <1>3, <1>4, WordsOf
<1>6. interrupt' = ((Expired \/ interrupt) /\ ~FALSE)
  BY <1>1 DEF ClockEdge, Acknowledged
<1>7. interrupt' \in BOOLEAN /\ (interrupt' <=> (mtime >= mtimecmp \/ interrupt))
  BY <1>6, Zenon DEF Expired
<1> QED BY <1>2, <1>5, <1>7 DEF TimerTypeOK, Times

(* A cycle in which a word of the compare register is written: the          *)
(* interrupt is acknowledged, whatever the comparator says.                 *)
LEMMA EdgeWriteLow ==
  ASSUME TimerTypeOK, mtime < MaxTime, NEW d \in 0..(Base - 1),
         ClockEdge(Write("MTIMECMP_LOW", d))
  PROVE  /\ mtime' = mtime + 1
         /\ mtimecmp' = Join(High(mtimecmp), d)
         /\ ~interrupt'
         /\ TimerTypeOK'
<1> DEFINE acc == Write("MTIMECMP_LOW", d)
<1>1. /\ Writes(acc, "MTIMECMP_LOW") /\ acc.wdata = d
      /\ ~Writes(acc, "MTIMECMP_HIGH")
      /\ ~Writes(acc, "MTIME_HIGH") /\ ~Writes(acc, "MTIME_LOW")
  BY DEF Writes, Write
<1> HIDE DEF acc
<1>2. ClockEdge(acc) BY DEF acc
<1>3. mtime' = mtime + 1 /\ mtime' \in Times BY <1>1, <1>2, TimeGoesOn
<1>4. mtimecmp' = Join(High(mtimecmp), d) BY <1>1, <1>2 DEF ClockEdge, Updated
<1>5. mtimecmp \in Times BY DEF TimerTypeOK, Times
<1>6. mtimecmp' \in Times BY <1>4, <1>5, HighType, JoinType
<1>7. interrupt' = FALSE BY <1>1, <1>2 DEF ClockEdge, Acknowledged
<1> QED BY <1>3, <1>4, <1>6, <1>7 DEF TimerTypeOK, Times

LEMMA EdgeWriteHigh ==
  ASSUME TimerTypeOK, mtime < MaxTime, NEW d \in 0..(Base - 1),
         ClockEdge(Write("MTIMECMP_HIGH", d))
  PROVE  /\ mtime' = mtime + 1
         /\ mtimecmp' = Join(d, Low(mtimecmp))
         /\ ~interrupt'
         /\ TimerTypeOK'
<1> DEFINE acc == Write("MTIMECMP_HIGH", d)
<1>1. /\ Writes(acc, "MTIMECMP_HIGH") /\ acc.wdata = d
      /\ ~Writes(acc, "MTIMECMP_LOW")
      /\ ~Writes(acc, "MTIME_HIGH") /\ ~Writes(acc, "MTIME_LOW")
  BY DEF Writes, Write
<1> HIDE DEF acc
<1>2. ClockEdge(acc) BY DEF acc
<1>3. mtime' = mtime + 1 /\ mtime' \in Times BY <1>1, <1>2, TimeGoesOn
<1>4. mtimecmp' = Join(d, Low(mtimecmp)) BY <1>1, <1>2 DEF ClockEdge, Updated
<1>5. mtimecmp \in Nat BY BaseType DEF TimerTypeOK
<1>6. mtimecmp' \in Times BY <1>4, <1>5, WordsOf, JoinType
<1>7. interrupt' = FALSE BY <1>1, <1>2 DEF ClockEdge, Acknowledged
<1> QED BY <1>3, <1>4, <1>6, <1>7 DEF TimerTypeOK, Times

-----------------------------------------------------------------------------
(***************************************************************************)
(* The inductive invariant, in parts.                                      *)
(***************************************************************************)

(* Who runs: the handler is entered only while the interrupt is enabled,    *)
(* and the functions of the program that write the compare register run     *)
(* while it is not, so that at most one context is in timecmp_update().     *)
ReadPC == {"read_h", "read_l", "reread_h"}
CmpPC == {"mask", "cmp_h", "cmp_l"}

ControlInv ==
  /\ op \in {"timer_enable", "timecmp_update"} => ~enabled
  /\ ~enabled => pc["irq"] = "idle"
  /\ pc["main"] \in CmpPC => op \in {"timer_enable", "timecmp_update"}
  /\ pc["main"] = "enable" => op = "timer_enable"
  /\ pc["main"] \in ReadPC => op \in {"timer_read", "timer_enable"}
  /\ pc["irq"] # "enable"

(* The time goes up to MaxTime, and is never written.                       *)
TimeInv ==
  /\ mtime <= MaxTime
  /\ \A c \in Contexts : pc[c] \in ReadPC => called[c] <= mtime

(* The compare register at every point of the three writes.                 *)
CmpInv ==
  /\ \A c \in Contexts : pc[c] = "cmp_h" =>
       mtimecmp = Join(High(deadline), Base - 1)
  /\ \A c \in Contexts : pc[c] = "cmp_l" =>
       mtimecmp = Join(High(new_time[c]), Base - 1)
  /\ (\A c \in Contexts : pc[c] \notin {"cmp_h", "cmp_l"}) =>
       mtimecmp = deadline

(* The words that timer_read() has so far are words of times at which it    *)
(* was running, the low word's not before the high word's.                  *)
ReadInv ==
  \A c \in Contexts :
    /\ pc[c] = "read_l" => timeh[c] <= High(mtime)
    /\ pc[c] = "reread_h" =>
         \E t \in called[c]..mtime :
           timel[c] = Low(t) /\ timeh[c] <= High(t)

(* The end of the n-th period since timer_enable().                         *)
Period(n) == start + n * time_increment

(* While the interrupt is enabled, the compare value is at or behind the    *)
(* end of the period that is being counted; the handler runs after it.      *)
ElapsedInv ==
  /\ enabled => Period(time_elapsed) <= mtime
  /\ enabled => Period(time_elapsed + 1) <= deadline
  /\ InHandler => Period(time_elapsed + 1) <= mtime
  /\ pc["irq"] \in ReadPC => Period(time_elapsed + 1) <= called["irq"]
  /\ pc["irq"] \in CmpPC => Period(time_elapsed + 2) <= new_time["irq"]
  /\ op = "timer_enable" => time_elapsed = 0
  /\ op = "timer_enable" /\ pc["main"] \in CmpPC \cup {"enable"} => start <= mtime
  /\ op = "timer_enable" /\ pc["main"] \in CmpPC =>
       new_time["main"] = start + time_increment
  /\ pc["main"] = "enable" => deadline = start + time_increment

IInv ==
  /\ TypeOK /\ ControlInv /\ TimeInv /\ CmpInv /\ ReadInv
  /\ NeverEarly /\ NeverLost /\ ElapsedInv
-----------------------------------------------------------------------------
(***************************************************************************)
(* The steps.                                                              *)
(***************************************************************************)
Reads(c) == ReadHigh(c) \/ ReadLow(c) \/ ReadHighAgain(c)

(* Steps that leave the timer alone: calls and returns.                     *)
Calls ==
  \/ TimerRead \/ TimerDisable \/ SetEnabled \/ Interrupt
  \/ \E b \in TimeBases : TimerEnable(b)
  \/ \E t \in NewTimes : TimecmpUpdate(t)

LEMMA NextCases ==
  ASSUME Next
  PROVE  \/ Tick \/ Calls
         \/ \E c \in Contexts : \/ ReadHigh(c) \/ ReadLow(c) \/ ReadHighAgain(c)
                                \/ WriteCmpMask(c) \/ WriteCmpHigh(c) \/ WriteCmpLow(c)
BY DEF Next, Calls

(* The timer in a step that does not write a register.                      *)
LEMMA TickEdge ==
  ASSUME TypeOK, Tick \/ \E c \in Contexts : Reads(c)
  PROVE  /\ mtime < MaxTime /\ mtime' = mtime + 1
         /\ mtimecmp' = mtimecmp
         /\ interrupt' <=> (mtime >= mtimecmp \/ interrupt)
         /\ TimerTypeOK'
<1>1. TimerTypeOK /\ mtime < MaxTime
  BY DEF TypeOK, Tick, Reads, ReadHigh, ReadLow, ReadHighAgain, At, Runs
<1>2. PICK acc \in {NoAccess, Read("MTIME_HIGH"), Read("MTIME_LOW")} : ClockEdge(acc)
  BY DEF Tick, Reads, ReadHigh, ReadLow, ReadHighAgain
<1>3. acc.we = FALSE BY DEF NoAccess, Read
<1> QED BY <1>1, <1>2, <1>3, EdgeRead

(* The three writes of timecmp_update().                                    *)
LEMMA MaskEdge ==
  ASSUME TypeOK, NEW c \in Contexts, WriteCmpMask(c)
  PROVE  /\ mtime < MaxTime /\ mtime' = mtime + 1
         /\ mtimecmp' = Join(High(mtimecmp), Base - 1)
         /\ ~interrupt'
         /\ TimerTypeOK'
<1>1. TimerTypeOK /\ mtime < MaxTime BY DEF TypeOK, WriteCmpMask, At, Runs
<1>2. Base - 1 \in 0..(Base - 1) BY BaseType
<1>3. ClockEdge(Write("MTIMECMP_LOW", Base - 1)) BY DEF WriteCmpMask, AllOnes
<1> QED BY <1>1, <1>2, <1>3, EdgeWriteLow

LEMMA HighEdge ==
  ASSUME TypeOK, NEW c \in Contexts, WriteCmpHigh(c)
  PROVE  /\ mtime < MaxTime /\ mtime' = mtime + 1
         /\ mtimecmp' = Join(High(new_time[c]), Low(mtimecmp))
         /\ ~interrupt'
         /\ TimerTypeOK'
<1>1. TimerTypeOK /\ mtime < MaxTime /\ new_time[c] \in Times
  BY DEF TypeOK, WriteCmpHigh, At, Runs
<1>2. High(new_time[c]) \in 0..(Base - 1) BY <1>1, HighType
<1>3. ClockEdge(Write("MTIMECMP_HIGH", High(new_time[c]))) BY DEF WriteCmpHigh
<1> QED BY <1>1, <1>2, <1>3, EdgeWriteHigh

LEMMA LowEdge ==
  ASSUME TypeOK, NEW c \in Contexts, WriteCmpLow(c)
  PROVE  /\ mtime < MaxTime /\ mtime' = mtime + 1
         /\ mtimecmp' = Join(High(mtimecmp), Low(new_time[c]))
         /\ ~interrupt'
         /\ TimerTypeOK'
<1>1. TimerTypeOK /\ mtime < MaxTime /\ new_time[c] \in Nat
  BY BaseType DEF TypeOK, WriteCmpLow, At, Runs, Times
<1>2. Low(new_time[c]) \in 0..(Base - 1) BY <1>1, WordsOf
<1>3. ClockEdge(Write("MTIMECMP_LOW", Low(new_time[c]))) BY DEF WriteCmpLow
<1> QED BY <1>1, <1>2, <1>3, EdgeWriteLow

(* Calls and returns.                                                       *)
LEMMA CallEdge ==
  ASSUME TypeOK, Calls
  PROVE  UNCHANGED timerVars /\ mtime < MaxTime /\ TimerTypeOK'
BY DEF TypeOK, Calls, TimerRead, TimerDisable, SetEnabled, Interrupt, TimerEnable,
       TimecmpUpdate, At, Runs, timerVars, TimerTypeOK

(* The time that timer_read() returns is one at which it was running.       *)
LEMMA ReadReturns ==
  ASSUME TypeOK, TimeInv, ReadInv, NEW c \in Contexts, ReadHighAgain(c),
         ~Overflowed(c)
  PROVE  Join(timeh[c], timel[c]) \in called[c]..mtime
<1>1. pc[c] = "reread_h" /\ timeh[c] = High(mtime)
  BY DEF ReadHighAgain, At, Overflowed, ReadData
<1>2. PICK t \in called[c]..mtime : timel[c] = Low(t) /\ timeh[c] <= High(t)
  BY <1>1 DEF ReadInv
<1>3. called[c] \in Nat /\ mtime \in Nat BY BaseType DEF TypeOK, TimerTypeOK, Times
<1>4. t \in Nat /\ t <= mtime BY <1>3
<1>5. High(t) <= High(mtime) BY <1>3, <1>4, HighMonotonic
<1>6. High(t) \in Nat /\ High(mtime) \in Nat BY <1>3, <1>4, WordsOf
<1>7. timeh[c] = High(t) BY <1>1, <1>2, <1>5, <1>6
<1>8. Join(timeh[c], timel[c]) = t BY <1>2, <1>4, <1>7, WordsOf
<1> QED BY <1>2, <1>8

(* Every variable keeps its type; in particular the compare values that     *)
(* increment_timecmp() computes fit into the register.                      *)
LEMMA TypeNext ==
  ASSUME TypeOK, ControlInv, TimeInv, ReadInv, [Next]_vars
  PROVE  TypeOK'
<1> USE DEF Contexts, Goto, Called
<1>0. /\ \A x \in Times : x \in Nat /\ High(x) \in 0..(Base - 1) /\ Low(x) \in 0..(Base - 1)
      /\ mtime \in Times
  BY BaseType, HighType, WordsOf DEF TypeOK, TimerTypeOK, Times
<1>1. CASE Tick BY <1>1, TickEdge DEF Tick, TypeOK, swVars
<1>2. CASE Calls
  <2>1. TimerTypeOK' BY <1>2, CallEdge
  <2>2. enabled' \in BOOLEAN
    BY <1>2 DEF TypeOK, Calls, TimerRead, TimerDisable, SetEnabled, Interrupt,
                TimerEnable, TimecmpUpdate
  <2>3. NewTimes \subseteq Times BY SoftwareAssumption DEF Times
  <2> QED BY <1>0, <1>2, <2>1, <2>2, <2>3, SoftwareAssumption
          DEF TypeOK, Calls, TimerRead, TimerDisable, SetEnabled, Interrupt,
              TimerEnable, TimecmpUpdate
<1>3. ASSUME NEW c \in Contexts, ReadHigh(c) PROVE TypeOK'
  <2>1. TimerTypeOK' BY <1>3, TickEdge DEF Reads
  <2> QED BY <1>0, <1>3, <2>1 DEF TypeOK, ReadHigh, ReadData
<1>4. ASSUME NEW c \in Contexts, ReadLow(c) PROVE TypeOK'
  <2>1. TimerTypeOK' BY <1>4, TickEdge DEF Reads
  <2> QED BY <1>0, <1>4, <2>1 DEF TypeOK, ReadLow, ReadData
<1>5. ASSUME NEW c \in Contexts, ReadHighAgain(c) PROVE TypeOK'
  <2>1. TimerTypeOK' BY <1>5, TickEdge DEF Reads
  <2>2. CASE Overflowed(c) BY <1>5, <2>1, <2>2 DEF TypeOK, ReadHighAgain
  <2>3. CASE ~Overflowed(c)
    <3> DEFINE t == Join(timeh[c], timel[c])
    <3>1. t \in called[c]..mtime BY <1>5, <2>3, ReadReturns
    <3>2. called[c] \in Nat BY BaseType DEF TypeOK, Times
    <3>3. t \in Nat /\ t <= mtime /\ mtime < MaxTime
      BY <1>0, <1>5, <3>1, <3>2 DEF ReadHighAgain, At, Runs
    <3>4. time_increment \in Nat /\ MaxTime + time_increment < Base * Base
      BY BaseType, SoftwareAssumption DEF TypeOK
    <3> HIDE DEF t
    <3>5. t \in Times /\ t + time_increment \in Times
      BY <1>0, <3>3, <3>4, BaseType, SoftwareAssumption DEF Times
    <3>6. /\ new_time' = new_time \/ new_time' = [new_time EXCEPT ![c] = t + time_increment]
          /\ start' = start \/ start' = t
          /\ pc' = [pc EXCEPT ![c] = "idle"] \/ pc' = [pc EXCEPT ![c] = "mask"]
          /\ op' = op \/ op' = "none"
      BY <1>5, <2>3 DEF ReadHighAgain, t
    <3>7. UNCHANGED <<timeh, timel, enabled, time_elapsed, time_increment, called,
                      deadline, completed>>
      BY <1>5 DEF ReadHighAgain
    <3> QED BY <2>1, <3>5, <3>6, <3>7 DEF TypeOK
  <2> QED BY <2>2, <2>3
<1>6. ASSUME NEW c \in Contexts, WriteCmpMask(c) PROVE TypeOK'
  BY <1>6, MaskEdge DEF TypeOK, WriteCmpMask
<1>7. ASSUME NEW c \in Contexts, WriteCmpHigh(c) PROVE TypeOK'
  BY <1>7, HighEdge DEF TypeOK, WriteCmpHigh
<1>8. ASSUME NEW c \in Contexts, WriteCmpLow(c) PROVE TypeOK'
  <2>1. TimerTypeOK' BY <1>8, LowEdge
  <2> QED BY <1>0, <1>8, <2>1 DEF TypeOK, WriteCmpLow
<1>9. CASE UNCHANGED vars BY <1>9 DEF TypeOK, TimerTypeOK, vars, timerVars, swVars
<1> QED BY <1>1, <1>2, <1>3, <1>4, <1>5, <1>6, <1>7, <1>8, <1>9, NextCases

LEMMA ControlNext ==
  ASSUME TypeOK, ControlInv, [Next]_vars
  PROVE  ControlInv'
<1> USE DEF Contexts, Goto, ControlInv, TypeOK, CmpPC, ReadPC, InHandler, Runs, At
<1>1. CASE Tick BY <1>1 DEF Tick, swVars
<1>2. CASE Calls
  BY <1>2 DEF Calls, TimerRead, TimerDisable, SetEnabled, Interrupt, TimerEnable,
              TimecmpUpdate
<1>3. ASSUME NEW c \in Contexts, ReadHigh(c) PROVE ControlInv' BY <1>3 DEF ReadHigh
<1>4. ASSUME NEW c \in Contexts, ReadLow(c) PROVE ControlInv' BY <1>4 DEF ReadLow
<1>5. ASSUME NEW c \in Contexts, ReadHighAgain(c) PROVE ControlInv'
  BY <1>5 DEF ReadHighAgain
<1>6. ASSUME NEW c \in Contexts, WriteCmpMask(c) PROVE ControlInv'
  BY <1>6 DEF WriteCmpMask
<1>7. ASSUME NEW c \in Contexts, WriteCmpHigh(c) PROVE ControlInv'
  BY <1>7 DEF WriteCmpHigh
<1>8. ASSUME NEW c \in Contexts, WriteCmpLow(c) PROVE ControlInv'
  BY <1>8 DEF WriteCmpLow
<1>9. CASE UNCHANGED vars BY <1>9 DEF vars, swVars
<1> QED BY <1>1, <1>2, <1>3, <1>4, <1>5, <1>6, <1>7, <1>8, <1>9, NextCases

LEMMA TimeNext ==
  ASSUME TypeOK, TimeInv, [Next]_vars
  PROVE  TimeInv'
<1> USE DEF Contexts, Goto, Called, TimeInv, ReadPC
<1>a. pc = [c \in Contexts |-> pc[c]] BY DEF TypeOK
<1>b. mtime \in Nat /\ MaxTime \in Nat /\ Times \subseteq Nat
  BY SoftwareAssumption, BaseType DEF TypeOK, TimerTypeOK, Times
<1>c. called \in [Contexts -> Nat] BY <1>b DEF TypeOK
<1>0. /\ mtime \in Nat /\ MaxTime \in Nat /\ called \in [Contexts -> Nat]
      /\ pc = [c \in Contexts |-> pc[c]]
  BY <1>a, <1>b, <1>c
<1>1. CASE Tick BY <1>0, <1>1, TickEdge DEF Tick, swVars
<1>2. CASE Calls
  BY <1>0, <1>2, CallEdge
  DEF Calls, TimerRead, TimerDisable, SetEnabled, Interrupt, TimerEnable,
      TimecmpUpdate, timerVars
<1>3. ASSUME NEW c \in Contexts, ReadHigh(c) PROVE TimeInv'
  <2>1. mtime < MaxTime /\ mtime' = mtime + 1 BY <1>3, TickEdge DEF Reads
  <2> QED BY <1>0, <1>3, <2>1 DEF ReadHigh, At
<1>4. ASSUME NEW c \in Contexts, ReadLow(c) PROVE TimeInv'
  <2>1. mtime < MaxTime /\ mtime' = mtime + 1 BY <1>4, TickEdge DEF Reads
  <2> QED BY <1>0, <1>4, <2>1 DEF ReadLow, At
<1>5. ASSUME NEW c \in Contexts, ReadHighAgain(c) PROVE TimeInv'
  <2>1. mtime < MaxTime /\ mtime' = mtime + 1 BY <1>5, TickEdge DEF Reads
  <2> QED BY <1>0, <1>5, <2>1 DEF ReadHighAgain, At
<1>6. ASSUME NEW c \in Contexts, WriteCmpMask(c) PROVE TimeInv'
  <2>1. mtime < MaxTime /\ mtime' = mtime + 1 BY <1>6, MaskEdge
  <2> QED BY <1>0, <1>6, <2>1 DEF WriteCmpMask, At
<1>7. ASSUME NEW c \in Contexts, WriteCmpHigh(c) PROVE TimeInv'
  <2>1. mtime < MaxTime /\ mtime' = mtime + 1 BY <1>7, HighEdge
  <2> QED BY <1>0, <1>7, <2>1 DEF WriteCmpHigh, At
<1>8. ASSUME NEW c \in Contexts, WriteCmpLow(c) PROVE TimeInv'
  <2>1. mtime < MaxTime /\ mtime' = mtime + 1 BY <1>8, LowEdge
  <2> QED BY <1>0, <1>8, <2>1 DEF WriteCmpLow, At
<1>9. CASE UNCHANGED vars BY <1>9 DEF vars, swVars, timerVars
<1> QED BY <1>1, <1>2, <1>3, <1>4, <1>5, <1>6, <1>7, <1>8, <1>9, NextCases

(* While one context is in timecmp_update() the other is not.               *)
LEMMA OneUpdates ==
  ASSUME TypeOK, ControlInv, NEW c \in Contexts, NEW d \in Contexts,
         pc[c] \in CmpPC, d # c
  PROVE  pc[d] \notin CmpPC
BY DEF TypeOK, ControlInv, Contexts, CmpPC

LEMMA CmpNext ==
  ASSUME TypeOK, ControlInv, CmpInv, [Next]_vars
  PROVE  CmpInv'
<1>0. /\ pc = [c \in Contexts |-> pc[c]] /\ new_time = [c \in Contexts |-> new_time[c]]
      /\ deadline \in Nat /\ \A c \in Contexts : new_time[c] \in Nat
      /\ Base - 1 \in 0..(Base - 1)
  BY BaseType DEF TypeOK, Times
<1>1. CASE Tick
  <2>1. mtimecmp' = mtimecmp /\ UNCHANGED swVars BY <1>1, TickEdge DEF Tick
  <2> QED BY <2>1 DEF CmpInv, swVars, Join, High
<1>2. CASE Calls
  <2>1. mtimecmp' = mtimecmp /\ deadline' = deadline
    BY <1>2, CallEdge
    DEF timerVars, Calls, TimerRead, TimerDisable, SetEnabled, Interrupt, TimerEnable,
        TimecmpUpdate
  <2>2. \A c \in Contexts :
          /\ pc[c] \in {"cmp_h", "cmp_l"} => pc'[c] = pc[c] /\ new_time'[c] = new_time[c]
          /\ pc'[c] \in {"cmp_h", "cmp_l"} => pc'[c] = pc[c]
    BY <1>0, <1>2
    DEF Calls, TimerRead, TimerDisable, SetEnabled, Interrupt, TimerEnable,
        TimecmpUpdate, At, Goto, InHandler, Contexts
  <2> QED BY <2>1, <2>2 DEF CmpInv
<1>3. ASSUME NEW c \in Contexts, Reads(c) PROVE CmpInv'
  <2>1. mtimecmp' = mtimecmp /\ deadline' = deadline
    BY <1>3, TickEdge DEF Reads, ReadHigh, ReadLow, ReadHighAgain
  <2>2. \A d \in Contexts :
          /\ pc[d] \in {"cmp_h", "cmp_l"} => pc'[d] = pc[d] /\ new_time'[d] = new_time[d]
          /\ pc'[d] \in {"cmp_h", "cmp_l"} => pc'[d] = pc[d]
    BY <1>0, <1>3 DEF Reads, ReadHigh, ReadLow, ReadHighAgain, At, Goto
  <2> QED BY <2>1, <2>2 DEF CmpInv
<1>4. ASSUME NEW c \in Contexts, WriteCmpMask(c) PROVE CmpInv'
  <2>1. /\ pc[c] = "mask" /\ pc' = [pc EXCEPT ![c] = "cmp_h"]
        /\ UNCHANGED <<deadline, new_time>>
    BY <1>4 DEF WriteCmpMask, At, Goto
  <2>2. \A d \in Contexts : pc[d] \notin {"cmp_h", "cmp_l"}
    BY <2>1, OneUpdates DEF CmpPC
  <2>3. mtimecmp' = Join(High(deadline), Base - 1)
    BY <1>4, <2>2, MaskEdge DEF CmpInv
  <2>4. pc'[c] = "cmp_h" /\ \A d \in Contexts : pc'[d] # "cmp_l"
    BY <1>0, <2>1, <2>2
  <2> QED BY <2>1, <2>3, <2>4 DEF CmpInv
<1>5. ASSUME NEW c \in Contexts, WriteCmpHigh(c) PROVE CmpInv'
  <2>1. /\ pc[c] = "cmp_h" /\ pc' = [pc EXCEPT ![c] = "cmp_l"]
        /\ UNCHANGED <<deadline, new_time>>
    BY <1>5 DEF WriteCmpHigh, At, Goto
  <2>2. \A d \in Contexts : d # c => pc[d] \notin {"cmp_h", "cmp_l"}
    BY <2>1, OneUpdates DEF CmpPC
  <2>3. mtimecmp = Join(High(deadline), Base - 1) BY <2>1 DEF CmpInv
  <2>4. Low(mtimecmp) = Base - 1 BY <1>0, <2>3, WordsOf, JoinWords
  <2>5. mtimecmp' = Join(High(new_time[c]), Base - 1) BY <1>5, <2>4, HighEdge
  <2>6. pc'[c] = "cmp_l" /\ \A d \in Contexts : d # c => pc'[d] \notin {"cmp_h", "cmp_l"}
    BY <1>0, <2>1, <2>2
  <2> QED BY <2>1, <2>5, <2>6 DEF CmpInv
<1>6. ASSUME NEW c \in Contexts, WriteCmpLow(c) PROVE CmpInv'
  <2>1. /\ pc[c] = "cmp_l"
        /\ \E where \in {"idle", "enable"} : pc' = [pc EXCEPT ![c] = where]
        /\ deadline' = new_time[c]
    BY <1>6 DEF WriteCmpLow, At, Goto
  <2>2. \A d \in Contexts : d # c => pc[d] \notin {"cmp_h", "cmp_l"}
    BY <2>1, OneUpdates DEF CmpPC
  <2>3. mtimecmp = Join(High(new_time[c]), Base - 1) BY <2>1 DEF CmpInv
  <2>4. High(mtimecmp) = High(new_time[c]) BY <1>0, <2>3, WordsOf, JoinWords
  <2>5. mtimecmp' = Join(High(new_time[c]), Low(new_time[c])) BY <1>6, <2>4, LowEdge
  <2>6. mtimecmp' = deadline' BY <1>0, <2>1, <2>5, WordsOf
  <2>7. \A d \in Contexts : pc'[d] \notin {"cmp_h", "cmp_l"} BY <1>0, <2>1, <2>2
  <2> QED BY <2>6, <2>7 DEF CmpInv
<1>7. CASE UNCHANGED vars BY <1>7 DEF CmpInv, vars, swVars, timerVars, Join, High
<1> QED BY <1>1, <1>2, <1>3, <1>4, <1>5, <1>6, <1>7, NextCases DEF Reads

LEMMA ReadNext ==
  ASSUME TypeOK, TimeInv, ReadInv, [Next]_vars
  PROVE  ReadInv'
<1>0. /\ pc = [c \in Contexts |-> pc[c]] /\ called = [c \in Contexts |-> called[c]]
      /\ timeh = [c \in Contexts |-> timeh[c]] /\ timel = [c \in Contexts |-> timel[c]]
      /\ mtime \in Nat /\ \A c \in Contexts : called[c] \in Nat /\ timeh[c] \in Nat
  BY BaseType DEF TypeOK, TimerTypeOK, Times
(* A step of another context, or of no context, lets some time pass.        *)
<1> DEFINE Same(c) == /\ pc[c] \in {"read_l", "reread_h"} \/ pc'[c] \in {"read_l", "reread_h"} =>
                           pc'[c] = pc[c]
                      /\ pc[c] \in {"read_l", "reread_h"} =>
                           timeh'[c] = timeh[c] /\ timel'[c] = timel[c] /\ called'[c] = called[c]
           Good(c) == /\ pc'[c] = "read_l" => timeh'[c] <= High(mtime')
                      /\ pc'[c] = "reread_h" =>
                           \E t \in called'[c]..mtime' :
                             timel'[c] = Low(t) /\ timeh'[c] <= High(t)
<1>1. ASSUME NEW c \in Contexts, Same(c), mtime' \in Nat, mtime <= mtime'
      PROVE  Good(c)
  <2>1. CASE pc'[c] = "read_l"
    <3>1. pc[c] = "read_l" /\ timeh'[c] = timeh[c] /\ timeh[c] <= High(mtime)
      BY <1>1, <2>1 DEF ReadInv
    <3>2. High(mtime) <= High(mtime') /\ High(mtime) \in Nat /\ High(mtime') \in Nat
      BY <1>0, <1>1, HighMonotonic, WordsOf
    <3>3. timeh[c] <= High(mtime') BY <1>0, <3>1, <3>2
    <3> QED BY <2>1, <3>1, <3>3
  <2>2. CASE pc'[c] = "reread_h"
    <3>1. /\ pc[c] = "reread_h" /\ timeh'[c] = timeh[c]
          /\ timel'[c] = timel[c] /\ called'[c] = called[c]
      BY <1>1, <2>2
    <3>2. PICK t \in called[c]..mtime : timel[c] = Low(t) /\ timeh[c] <= High(t)
      BY <3>1 DEF ReadInv
    <3>3. t \in called[c]..mtime' BY <1>0, <1>1
    <3> QED BY <2>2, <3>1, <3>2, <3>3
  <2> QED BY <2>1, <2>2
<1>2. CASE Tick
  <2>1. mtime' \in Nat /\ mtime <= mtime' BY <1>0, <1>2, TickEdge
  <2>2. ASSUME NEW c \in Contexts PROVE Same(c) BY <1>2 DEF Tick, swVars
  <2> QED BY <1>1, <2>1, <2>2 DEF ReadInv
<1>3. CASE Calls
  <2>1. mtime' = mtime BY <1>3, CallEdge DEF timerVars
  <2>2. ASSUME NEW c \in Contexts PROVE Same(c)
    BY <1>0, <1>3
    DEF Calls, TimerRead, TimerDisable, SetEnabled, Interrupt, TimerEnable,
        TimecmpUpdate, At, Goto, Called, InHandler, Contexts
  <2> QED BY <1>0, <1>1, <2>1, <2>2 DEF ReadInv
<1>4. ASSUME NEW c \in Contexts, ReadHigh(c) PROVE ReadInv'
  <2>1. mtime' \in Nat /\ mtime <= mtime' BY <1>0, <1>4, TickEdge DEF Reads
  <2>2. ASSUME NEW d \in Contexts, d # c PROVE Same(d)
    BY <1>0, <1>4, <2>2 DEF ReadHigh, Goto
  <2>3. pc'[c] = "read_l" /\ timeh'[c] = High(mtime)
    BY <1>0, <1>4 DEF ReadHigh, Goto, ReadData
  <2>4. timeh'[c] <= High(mtime')
    <3>1. High(mtime) <= High(mtime') BY <1>0, <2>1, HighMonotonic
    <3> QED BY <2>3, <3>1
  <2>5. Good(c) BY <2>3, <2>4
  <2>6. \A d \in Contexts : Good(d) BY <1>1, <2>1, <2>2, <2>5
  <2> QED BY <2>6 DEF ReadInv
<1>5. ASSUME NEW c \in Contexts, ReadLow(c) PROVE ReadInv'
  <2>1. mtime' \in Nat /\ mtime <= mtime' BY <1>0, <1>5, TickEdge DEF Reads
  <2>2. ASSUME NEW d \in Contexts, d # c PROVE Same(d)
    BY <1>0, <1>5, <2>2 DEF ReadLow, Goto
  <2>3. /\ pc[c] = "read_l" /\ pc'[c] = "reread_h" /\ timel'[c] = Low(mtime)
        /\ timeh'[c] = timeh[c] /\ called'[c] = called[c]
    BY <1>0, <1>5 DEF ReadLow, Goto, ReadData, At
  <2>4. timeh[c] <= High(mtime) BY <2>3 DEF ReadInv
  <2>5. called[c] <= mtime BY <2>3 DEF TimeInv, ReadPC
  <2>6. mtime \in called'[c]..mtime' BY <1>0, <2>1, <2>3, <2>5
  <2>7. Good(c) BY <2>3, <2>4, <2>6
  <2>8. \A d \in Contexts : Good(d) BY <1>1, <2>1, <2>2, <2>7
  <2> QED BY <2>8 DEF ReadInv
<1>6. ASSUME NEW c \in Contexts, ReadHighAgain(c) PROVE ReadInv'
  <2>1. mtime' \in Nat /\ mtime <= mtime' BY <1>0, <1>6, TickEdge DEF Reads
  <2>2. ASSUME NEW d \in Contexts, d # c PROVE Same(d)
    BY <1>0, <1>6, <2>2 DEF ReadHighAgain, Goto
  <2>3. pc'[c] \notin {"read_l", "reread_h"} BY <1>0, <1>6 DEF ReadHighAgain, Goto
  <2>4. \A d \in Contexts : Good(d) BY <1>1, <2>1, <2>2, <2>3
  <2> QED BY <2>4 DEF ReadInv
<1>7. ASSUME NEW c \in Contexts, WriteCmpMask(c) \/ WriteCmpHigh(c) \/ WriteCmpLow(c)
      PROVE  ReadInv'
  <2>1. mtime' \in Nat /\ mtime <= mtime' BY <1>0, <1>7, MaskEdge, HighEdge, LowEdge
  <2>2. ASSUME NEW d \in Contexts PROVE Same(d)
    BY <1>0, <1>7 DEF WriteCmpMask, WriteCmpHigh, WriteCmpLow, At, Goto
  <2> QED BY <1>1, <2>1, <2>2 DEF ReadInv
<1>8. CASE UNCHANGED vars BY <1>8 DEF ReadInv, vars, swVars, timerVars, High
<1> QED BY <1>2, <1>3, <1>4, <1>5, <1>6, <1>7, <1>8, NextCases

(* The compare register is never below the value it stands for.             *)
LEMMA CmpNotEarly ==
  ASSUME TypeOK, ControlInv, CmpInv
  PROVE  /\ (\A c \in Contexts : pc[c] # "cmp_l") => deadline <= mtimecmp
         /\ \A c \in Contexts : pc[c] = "cmp_l" => new_time[c] <= mtimecmp
<1>1. deadline \in Nat /\ \A c \in Contexts : new_time[c] \in Nat
  BY BaseType DEF TypeOK, Times
<1>2. CASE \E c \in Contexts : pc[c] = "cmp_h"
  <2>1. mtimecmp = Join(High(deadline), Base - 1) BY <1>2 DEF CmpInv
  <2>2. \A c \in Contexts : pc[c] # "cmp_l"
    BY <1>2, OneUpdates DEF CmpPC
  <2> QED BY <1>1, <2>1, <2>2, MaskedNotSmaller
<1>3. CASE \E c \in Contexts : pc[c] = "cmp_l"
  <2>1. \A c \in Contexts : pc[c] = "cmp_l" => mtimecmp = Join(High(new_time[c]), Base - 1)
    BY DEF CmpInv
  <2> QED BY <1>1, <1>3, <2>1, MaskedNotSmaller
<1>4. CASE \A c \in Contexts : pc[c] \notin {"cmp_h", "cmp_l"}
  BY <1>1, <1>4 DEF CmpInv
<1> QED BY <1>2, <1>3, <1>4

LEMMA EarlyNext ==
  ASSUME TypeOK, ControlInv, CmpInv, NeverEarly, [Next]_vars
  PROVE  NeverEarly'
<1>0. /\ pc = [c \in Contexts |-> pc[c]]
      /\ mtime \in Nat /\ mtimecmp \in Nat /\ deadline \in Nat
      /\ \A c \in Contexts : new_time[c] \in Nat
  BY BaseType DEF TypeOK, TimerTypeOK, Times
(* Steps outside of the three writes: the compare value of a context that   *)
(* is in front of its last write stays, and the time goes on.               *)
<1>1. ASSUME deadline' = deadline,
             \A c \in Contexts :
               /\ pc'[c] = "cmp_l" <=> pc[c] = "cmp_l"
               /\ pc[c] = "cmp_l" => new_time'[c] = new_time[c],
             \/ mtime' = mtime /\ (interrupt' => interrupt)
             \/ mtime' = mtime + 1 /\ (interrupt' => (mtime >= mtimecmp \/ interrupt))
      PROVE  NeverEarly'
  <2>1. CASE ~interrupt' BY <2>1 DEF NeverEarly
  <2>2. CASE interrupt /\ (mtime' = mtime \/ mtime' = mtime + 1)
    BY <1>0, <1>1, <2>2 DEF NeverEarly
  <2>3. CASE mtime' = mtime + 1 /\ mtime >= mtimecmp
    <3>1. /\ (\A c \in Contexts : pc[c] # "cmp_l") => deadline <= mtimecmp
          /\ \A c \in Contexts : pc[c] = "cmp_l" => new_time[c] <= mtimecmp
      BY CmpNotEarly
    <3> QED BY <1>0, <1>1, <2>3, <3>1 DEF NeverEarly
  <2> QED BY <1>1, <2>1, <2>2, <2>3
<1>2. CASE Tick
  <2>1. UNCHANGED <<pc, new_time, deadline>> BY <1>2 DEF Tick, swVars
  <2> QED BY <1>1, <1>2, <2>1, TickEdge
<1>3. CASE Calls
  <2>1. mtime' = mtime /\ interrupt' = interrupt /\ deadline' = deadline
    BY <1>3, CallEdge
    DEF timerVars, Calls, TimerRead, TimerDisable, SetEnabled, Interrupt, TimerEnable,
        TimecmpUpdate
  <2>2. new_time = [c \in Contexts |-> new_time[c]] BY DEF TypeOK
  <2>3. \A c \in Contexts :
          /\ pc'[c] = "cmp_l" <=> pc[c] = "cmp_l"
          /\ pc[c] = "cmp_l" => new_time'[c] = new_time[c]
    BY <1>0, <1>3, <2>2
    DEF Calls, TimerRead, TimerDisable, SetEnabled, Interrupt, TimerEnable,
        TimecmpUpdate, At, Goto, InHandler, Contexts
  <2> QED BY <1>1, <2>1, <2>3
<1>4. ASSUME NEW c \in Contexts, Reads(c) PROVE NeverEarly'
  <2>1. /\ mtime' = mtime + 1 /\ (interrupt' => (mtime >= mtimecmp \/ interrupt))
        /\ deadline' = deadline
    BY <1>4, TickEdge DEF Reads, ReadHigh, ReadLow, ReadHighAgain
  <2>2. new_time = [d \in Contexts |-> new_time[d]] BY DEF TypeOK
  <2>3. \A d \in Contexts :
          /\ pc'[d] = "cmp_l" <=> pc[d] = "cmp_l"
          /\ pc[d] = "cmp_l" => new_time'[d] = new_time[d]
    BY <1>0, <1>4, <2>2 DEF Reads, ReadHigh, ReadLow, ReadHighAgain, At, Goto
  <2> QED BY <1>1, <2>1, <2>3
<1>5. ASSUME NEW c \in Contexts, WriteCmpMask(c) \/ WriteCmpHigh(c) \/ WriteCmpLow(c)
      PROVE  NeverEarly'
  <2>1. ~interrupt' BY <1>5, MaskEdge, HighEdge, LowEdge
  <2> QED BY <2>1 DEF NeverEarly
<1>6. CASE UNCHANGED vars BY <1>6 DEF NeverEarly, vars, swVars, timerVars
<1> QED BY <1>2, <1>3, <1>4, <1>5, <1>6, NextCases DEF Reads

LEMMA LostNext ==
  ASSUME TypeOK, CmpInv, NeverLost, [Next]_vars
  PROVE  NeverLost'
<1>0. /\ pc = [c \in Contexts |-> pc[c]]
      /\ mtime \in Nat /\ mtimecmp \in Nat /\ deadline \in Nat /\ completed \in Nat
  BY BaseType DEF TypeOK, TimerTypeOK, Times
<1>1. CASE Tick \/ \E c \in Contexts : Reads(c)
  <2>1. mtime' = mtime + 1 /\ (interrupt' <=> (mtime >= mtimecmp \/ interrupt))
    BY <1>1, TickEdge
  <2>2. deadline' = deadline /\ completed' = completed
    BY <1>1 DEF Tick, swVars, Reads, ReadHigh, ReadLow, ReadHighAgain
  <2>3. \A c \in Contexts : pc[c] \in {"cmp_h", "cmp_l"} => pc'[c] \in {"cmp_h", "cmp_l"}
    BY <1>0, <1>1
    DEF Tick, swVars, Reads, ReadHigh, ReadLow, ReadHighAgain, At, Goto
  <2>4. (\A c \in Contexts : pc[c] \notin {"cmp_h", "cmp_l"}) => mtimecmp = deadline
    BY DEF CmpInv
  <2>5. ASSUME \A c \in Contexts : pc'[c] \notin {"cmp_h", "cmp_l"},
               mtime' > deadline'
        PROVE  interrupt'
    <3>1. mtimecmp = deadline BY <2>3, <2>4, <2>5
    <3> QED BY <1>0, <2>1, <2>2, <2>5, <3>1
  <2> QED BY <2>5 DEF NeverLost
<1>2. CASE Calls
  <2>1. UNCHANGED <<mtime, interrupt, deadline, completed>>
    BY <1>2, CallEdge
    DEF timerVars, Calls, TimerRead, TimerDisable, SetEnabled, Interrupt, TimerEnable,
        TimecmpUpdate
  <2>2. \A c \in Contexts : pc[c] \in {"cmp_h", "cmp_l"} => pc'[c] \in {"cmp_h", "cmp_l"}
    BY <1>0, <1>2
    DEF Calls, TimerRead, TimerDisable, SetEnabled, Interrupt, TimerEnable,
        TimecmpUpdate, At, Goto, InHandler, Contexts
  <2> QED BY <2>1, <2>2 DEF NeverLost
<1>3. ASSUME NEW c \in Contexts, WriteCmpMask(c) \/ WriteCmpHigh(c) PROVE NeverLost'
  <2>1. pc'[c] \in {"cmp_h", "cmp_l"}
    BY <1>0, <1>3 DEF WriteCmpMask, WriteCmpHigh, Goto
  <2> QED BY <2>1 DEF NeverLost
<1>4. ASSUME NEW c \in Contexts, WriteCmpLow(c) PROVE NeverLost'
  <2>1. completed' = mtime /\ mtime' = mtime + 1 BY <1>4, LowEdge DEF WriteCmpLow
  <2> QED BY <1>0, <2>1 DEF NeverLost
<1>5. CASE UNCHANGED vars BY <1>5 DEF NeverLost, vars, swVars, timerVars
<1> QED BY <1>1, <1>2, <1>3, <1>4, <1>5, NextCases DEF Reads

(* Periods follow each other.                                               *)
LEMMA Periods ==
  ASSUME start \in Nat, time_increment \in Nat, NEW n \in Nat
  PROVE  /\ Period(n) \in Nat
         /\ Period(n + 1) = Period(n) + time_increment
         /\ Period(0) = start
BY DEF Period

LEMMA ElapsedNext ==
  ASSUME TypeOK, ControlInv, TimeInv, ReadInv, NeverEarly, ElapsedInv, [Next]_vars
  PROVE  ElapsedInv'
<1>0. /\ pc = [c \in Contexts |-> pc[c]] /\ new_time = [c \in Contexts |-> new_time[c]]
      /\ called = [c \in Contexts |-> called[c]]
      /\ mtime \in Nat /\ deadline \in Nat /\ time_elapsed \in Nat
      /\ start \in Nat /\ time_increment \in Nat /\ enabled \in BOOLEAN
      /\ \A c \in Contexts : new_time[c] \in Nat /\ called[c] \in Nat
  BY BaseType, SoftwareAssumption DEF TypeOK, TimerTypeOK, Times
<1> DEFINE P1 == Period(time_elapsed + 1)
           P2 == Period(time_elapsed + 2)
<1>p. /\ P1 \in Nat /\ P2 = P1 + time_increment
      /\ Period(0) = start /\ Period(1) = start + time_increment
  <2>1. time_elapsed + 1 \in Nat /\ (time_elapsed + 1) + 1 = time_elapsed + 2
        /\ 0 \in Nat /\ 0 + 1 = 1
    BY <1>0
  <2> QED BY <1>0, <2>1, Periods
<1> USE DEF Contexts, CmpPC, ReadPC
(* Steps that do not count, do not set the compare value, and leave the     *)
(* contexts where they are, or move them on inside of timer_read() and      *)
(* inside of timecmp_update().                                              *)
<1>1. ASSUME UNCHANGED <<op, enabled, start, time_elapsed, time_increment, deadline,
                         new_time, called>>,
             mtime' \in Nat, mtime <= mtime',
             \A c \in Contexts : \/ pc'[c] = pc[c]
                                 \/ pc[c] \in ReadPC /\ pc'[c] \in ReadPC
                                 \/ pc[c] \in CmpPC /\ pc'[c] \in CmpPC
      PROVE  ElapsedInv'
  <2>1. \A n \in Nat : Period(n)' = Period(n) BY <1>1 DEF Period
  <2>2. Period(time_elapsed) \in Nat BY <1>0, Periods
  <2>3. /\ Period(time_elapsed)' = Period(time_elapsed)
        /\ Period(time_elapsed + 1)' = P1 /\ Period(time_elapsed + 2)' = P2
    BY <1>1 DEF Period
  <2>4. /\ InHandler' => InHandler
        /\ pc'["irq"] \in ReadPC => pc["irq"] \in ReadPC
        /\ pc'["irq"] \in CmpPC => pc["irq"] \in CmpPC
        /\ pc'["main"] \in CmpPC => pc["main"] \in CmpPC
        /\ pc'["main"] = "enable" => pc["main"] = "enable"
    BY <1>1 DEF InHandler
  <2> HIDE DEF P1, P2
  <2> QED BY <1>0, <1>p, <1>1, <2>2, <2>3, <2>4 DEF ElapsedInv, P1, P2
<1>2. CASE Tick
  <2>1. mtime' = mtime + 1 /\ UNCHANGED swVars BY <1>2, TickEdge DEF Tick
  <2> QED BY <1>0, <1>1, <2>1 DEF swVars
<1>3. ASSUME NEW c \in Contexts,
             \/ ReadHigh(c) \/ ReadLow(c) \/ (ReadHighAgain(c) /\ Overflowed(c))
             \/ WriteCmpMask(c) \/ WriteCmpHigh(c)
      PROVE  ElapsedInv'
  <2>1. mtime' = mtime + 1 BY <1>3, TickEdge, MaskEdge, HighEdge DEF Reads
  <2>2. UNCHANGED <<op, enabled, start, time_elapsed, time_increment, deadline,
                    new_time, called>>
    BY <1>3 DEF ReadHigh, ReadLow, ReadHighAgain, WriteCmpMask, WriteCmpHigh
  <2>3. \A d \in Contexts : \/ pc'[d] = pc[d]
                            \/ pc[d] \in ReadPC /\ pc'[d] \in ReadPC
                            \/ pc[d] \in CmpPC /\ pc'[d] \in CmpPC
    BY <1>0, <1>3
    DEF ReadHigh, ReadLow, ReadHighAgain, WriteCmpMask, WriteCmpHigh, At, Goto
  <2> QED BY <1>0, <1>1, <2>1, <2>2, <2>3
<1>4. CASE ReadHighAgain("main") /\ ~Overflowed("main")
  <2> DEFINE t == Join(timeh["main"], timel["main"])
  <2>1. t \in called["main"]..mtime BY <1>4, ReadReturns
  <2>2. t \in Nat /\ t <= mtime BY <1>0, <2>1
  <2>3. mtime' = mtime + 1 BY <1>4, TickEdge DEF Reads
  <2>4. /\ UNCHANGED <<enabled, time_elapsed, time_increment, deadline, called>>
        /\ pc["irq"] = "idle" /\ pc["main"] = "reread_h"
    BY <1>4 DEF ReadHighAgain, At, Runs, InHandler
  <2>5. CASE op = "timer_read"
    <3>1. /\ pc' = [pc EXCEPT !["main"] = "idle"] /\ op' = "none"
          /\ UNCHANGED <<start, new_time>>
      BY <1>4, <2>5 DEF ReadHighAgain, Goto
    <3>2. /\ Period(time_elapsed)' = Period(time_elapsed)
          /\ Period(time_elapsed + 1)' = P1
      BY <2>4, <3>1 DEF Period
    <3>3. Period(time_elapsed) \in Nat BY <1>0, Periods
    <3> HIDE DEF P1, P2
    <3> QED BY <1>0, <1>p, <2>3, <2>4, <3>1, <3>2, <3>3 DEF ElapsedInv, InHandler, P1
  <2>6. CASE op # "timer_read"
    <3>1. op = "timer_enable" /\ ~enabled BY <2>4, <2>6 DEF ControlInv
    <3>2. /\ pc' = [pc EXCEPT !["main"] = "mask"] /\ op' = op
          /\ start' = t /\ new_time' = [new_time EXCEPT !["main"] = t + time_increment]
      BY <1>4, <2>6 DEF ReadHighAgain, Goto
    <3>3. time_elapsed = 0 BY <3>1 DEF ElapsedInv
    <3> HIDE DEF t, P1, P2
    <3> QED BY <1>0, <2>2, <2>3, <2>4, <3>1, <3>2, <3>3 DEF ElapsedInv, InHandler
  <2> QED BY <2>5, <2>6
<1>5. CASE ReadHighAgain("irq") /\ ~Overflowed("irq")
  <2> DEFINE t == Join(timeh["irq"], timel["irq"])
  <2>1. t \in called["irq"]..mtime BY <1>5, ReadReturns
  <2>2. t \in Nat /\ called["irq"] <= t BY <1>0, <2>1
  <2>3. mtime' = mtime + 1 BY <1>5, TickEdge DEF Reads
  <2>4. /\ UNCHANGED <<op, enabled, start, time_elapsed, time_increment, deadline, called>>
        /\ pc["irq"] = "reread_h" /\ pc' = [pc EXCEPT !["irq"] = "mask"]
        /\ new_time' = [new_time EXCEPT !["irq"] = t + time_increment]
    BY <1>5 DEF ReadHighAgain, At, Goto
  <2>5. P1 <= called["irq"] BY <2>4 DEF ElapsedInv
  <2>6. /\ Period(time_elapsed)' = Period(time_elapsed)
        /\ Period(time_elapsed + 1)' = P1 /\ Period(time_elapsed + 2)' = P2
    BY <2>4 DEF Period
  <2>7. Period(time_elapsed) \in Nat BY <1>0, Periods
  <2>8. InHandler BY <2>4 DEF InHandler
  <2> HIDE DEF t, P1, P2
  <2>9. P2 <= t + time_increment BY <1>0, <1>p, <2>2, <2>5
  <2> QED BY <1>0, <1>p, <2>2, <2>3, <2>4, <2>6, <2>7, <2>8, <2>9 DEF ElapsedInv, P1
<1>6. CASE WriteCmpLow("main")
  <2>1. mtime' = mtime + 1 BY <1>6, LowEdge
  <2>2. /\ UNCHANGED <<enabled, start, time_elapsed, time_increment, new_time, called>>
        /\ deadline' = new_time["main"]
        /\ pc["irq"] = "idle" /\ pc["main"] = "cmp_l"
        /\ \/ op = "timer_enable" /\ op' = op /\ pc' = [pc EXCEPT !["main"] = "enable"]
           \/ op # "timer_enable" /\ op' = "none" /\ pc' = [pc EXCEPT !["main"] = "idle"]
    BY <1>6 DEF WriteCmpLow, At, Runs, InHandler, Goto
  <2>3. ~enabled BY <2>2 DEF ControlInv
  <2> QED BY <1>0, <2>1, <2>2, <2>3 DEF ElapsedInv, InHandler
<1>7. CASE WriteCmpLow("irq")
  <2>1. mtime' = mtime + 1 BY <1>7, LowEdge
  <2>2. /\ UNCHANGED <<op, enabled, start, time_increment, new_time, called>>
        /\ deadline' = new_time["irq"] /\ time_elapsed' = time_elapsed + 1
        /\ pc["irq"] = "cmp_l" /\ pc' = [pc EXCEPT !["irq"] = "idle"]
    BY <1>7 DEF WriteCmpLow, At, Goto
  <2>3. enabled /\ op \notin {"timer_enable", "timecmp_update"}
        /\ pc["main"] \notin CmpPC \cup {"enable"}
    BY <2>2 DEF ControlInv
  <2>4. P1 <= mtime /\ P2 <= new_time["irq"] BY <2>2 DEF ElapsedInv, InHandler
  <2>5. Period(time_elapsed)' = P1 /\ Period(time_elapsed + 1)' = P2
    BY <1>0, <2>2 DEF Period
  <2> HIDE DEF P1, P2
  <2> QED BY <1>0, <1>p, <2>1, <2>2, <2>3, <2>4, <2>5 DEF ElapsedInv, InHandler
<1>8. CASE TimerRead \/ TimerDisable \/ \E t \in NewTimes : TimecmpUpdate(t)
  <2>1. UNCHANGED <<mtime, start, time_elapsed, time_increment, deadline>>
    BY <1>8 DEF TimerRead, TimerDisable, TimecmpUpdate, timerVars
  <2>2. /\ pc["irq"] = "idle" /\ pc'["irq"] = "idle" /\ pc["main"] = "idle"
        /\ pc'["main"] # "enable"
        /\ enabled' => enabled
        /\ op' # "timer_enable" \/ (op' = op /\ pc'["main"] = "idle")
    BY <1>0, <1>8 DEF TimerRead, TimerDisable, TimecmpUpdate, At, Runs, InHandler, Goto
  <2>3. /\ Period(time_elapsed)' = Period(time_elapsed)
        /\ Period(time_elapsed + 1)' = P1
    BY <2>1 DEF Period
  <2> QED BY <1>0, <2>1, <2>2, <2>3 DEF ElapsedInv, InHandler
<1>9. ASSUME NEW b \in TimeBases, TimerEnable(b) PROVE ElapsedInv'
  <2>1. /\ ~enabled /\ enabled' = enabled /\ time_elapsed' = 0
        /\ pc["irq"] = "idle" /\ pc' = [pc EXCEPT !["main"] = "read_h"]
    BY <1>9 DEF TimerEnable, At, Runs, InHandler, Goto
  <2> QED BY <1>0, <2>1 DEF ElapsedInv, InHandler
<1>10. CASE SetEnabled
  <2>1. /\ UNCHANGED <<mtime, start, time_elapsed, time_increment, deadline>>
        /\ pc["irq"] = "idle" /\ pc["main"] = "enable"
        /\ pc' = [pc EXCEPT !["main"] = "idle"] /\ op' = "none"
    BY <1>10 DEF SetEnabled, timerVars, At, Runs, InHandler, Goto
  <2>2. op = "timer_enable" BY <2>1 DEF ControlInv
  <2>3. time_elapsed = 0 /\ start <= mtime /\ deadline = start + time_increment
    BY <2>1, <2>2 DEF ElapsedInv
  <2>4. Period(time_elapsed)' = start /\ Period(time_elapsed + 1)' = start + time_increment
    BY <1>0, <2>1, <2>3 DEF Period
  <2> QED BY <1>0, <2>1, <2>3, <2>4 DEF ElapsedInv, InHandler
<1>11. CASE Interrupt
  <2>1. /\ UNCHANGED <<mtime, op, enabled, start, time_elapsed, time_increment, deadline,
                       new_time>>
        /\ enabled /\ interrupt /\ pc["irq"] = "idle"
        /\ pc' = [pc EXCEPT !["irq"] = "read_h"] /\ called' = [called EXCEPT !["irq"] = mtime]
    BY <1>11 DEF Interrupt, timerVars, InHandler, Goto, Called
  <2>2. op \notin {"timer_enable", "timecmp_update"} /\ pc["main"] \notin CmpPC \cup {"enable"}
    BY <2>1 DEF ControlInv
  <2>3. mtime > deadline BY <2>1, <2>2 DEF NeverEarly
  <2>4. P1 <= deadline /\ Period(time_elapsed) <= mtime BY <2>1 DEF ElapsedInv
  <2>5. /\ Period(time_elapsed)' = Period(time_elapsed)
        /\ Period(time_elapsed + 1)' = P1
    BY <2>1 DEF Period
  <2> HIDE DEF P1, P2
  <2> QED BY <1>0, <1>p, <2>1, <2>2, <2>3, <2>4, <2>5 DEF ElapsedInv, InHandler
<1>12. CASE UNCHANGED vars
  <2>1. UNCHANGED <<mtime, swVars>> BY <1>12 DEF vars, timerVars
  <2> QED BY <1>0, <1>1, <2>1 DEF swVars
<1>13. ASSUME NEW c \in Contexts, ReadHighAgain(c) \/ WriteCmpLow(c) PROVE ElapsedInv'
  <2>1. CASE ReadHighAgain(c) /\ Overflowed(c) BY <1>3, <2>1
  <2>2. CASE c = "main" /\ ~(ReadHighAgain(c) /\ Overflowed(c)) BY <1>4, <1>6, <1>13, <2>2
  <2>3. CASE c = "irq" /\ ~(ReadHighAgain(c) /\ Overflowed(c)) BY <1>5, <1>7, <1>13, <2>3
  <2> QED BY <2>1, <2>2, <2>3
<1>14. CASE Calls BY <1>8, <1>9, <1>10, <1>11, <1>14 DEF Calls
<1>15. ASSUME NEW c \in Contexts,
              \/ ReadHigh(c) \/ ReadLow(c) \/ ReadHighAgain(c)
              \/ WriteCmpMask(c) \/ WriteCmpHigh(c) \/ WriteCmpLow(c)
       PROVE  ElapsedInv'
  BY <1>3, <1>13, <1>15
<1> QED BY <1>2, <1>12, <1>14, <1>15, NextCases

-----------------------------------------------------------------------------
(***************************************************************************)
(* The theorems.                                                           *)
(***************************************************************************)
LEMMA InitInv == Init => IInv
<1> SUFFICES ASSUME Init PROVE IInv OBVIOUS
<1>1. /\ mtime = 0 /\ mtimecmp = 0 /\ interrupt = FALSE
      /\ pc = [c \in Contexts |-> "idle"] /\ op = "none" /\ enabled = FALSE
      /\ timeh = [c \in Contexts |-> 0] /\ timel = [c \in Contexts |-> 0]
      /\ new_time = [c \in Contexts |-> 0] /\ called = [c \in Contexts |-> 0]
      /\ time_elapsed = 0 /\ time_increment = 0
      /\ deadline = 0 /\ completed = 0 /\ start = 0
  BY DEF Init, Reset
<1>2. 0 \in 0..(Base - 1) BY BaseType
<1>3. 0 \in 0..(Base * Base - 1) BY BaseType
<1>4. MaxTime >= 0 BY BaseType, SoftwareAssumption
<1>5. TypeOK BY <1>1, <1>2, <1>3 DEF TypeOK, TimerTypeOK, Times
<1>6. ControlInv BY <1>1 DEF ControlInv, Contexts, CmpPC, ReadPC
<1>7. TimeInv BY <1>1, <1>4 DEF TimeInv, Contexts, ReadPC
<1>8. CmpInv BY <1>1 DEF CmpInv, Contexts
<1>9. ReadInv BY <1>1 DEF ReadInv, Contexts
<1>10. NeverEarly /\ NeverLost BY <1>1 DEF NeverEarly, NeverLost
<1>11. ElapsedInv BY <1>1 DEF ElapsedInv, InHandler, Contexts, CmpPC, ReadPC
<1> QED BY <1>5, <1>6, <1>7, <1>8, <1>9, <1>10, <1>11 DEF IInv

(* The parts are inductive together: of these, which time the interrupt     *)
(* comes needs the compare register at every point of the three writes, and *)
(* the count of periods needs that the interrupt is not early.              *)
THEOREM Inductive == Spec => []IInv
<1>1. Init => IInv BY InitInv
<1>2. IInv /\ [Next]_vars => IInv'
  BY TypeNext, ControlNext, TimeNext, CmpNext, ReadNext, EarlyNext, LostNext, ElapsedNext
  DEF IInv
<1> QED BY <1>1, <1>2, PTL DEF Spec

(* The registers and variables of timer.sv and simple_system_common.c stay  *)
(* within their widths.                                                     *)
THEOREM TypeCorrect == Spec => []TypeOK
<1>1. IInv => TypeOK BY DEF IInv
<1> QED BY <1>1, Inductive, PTL

(* timecmp_update() causes no interrupt before the new compare value, nor   *)
(* before the old one while that counts, at no point of its three writes.   *)
THEOREM InterruptNotEarly == Spec => []NeverEarly
<1>1. IInv => NeverEarly BY DEF IInv
<1> QED BY <1>1, Inductive, PTL

(* timecmp_update() loses no interrupt: in the cycle after the compare      *)
(* value, and two cycles after its last write, the interrupt is pending.    *)
THEOREM InterruptNotLost == Spec => []NeverLost
<1>1. IInv => NeverLost BY DEF IInv
<1> QED BY <1>1, Inductive, PTL

(* simple_timer_handler() never counts a period that has not passed.        *)
THEOREM ElapsedIsHonest == Spec => []ElapsedHonest
<1>1. IInv => ElapsedHonest BY DEF IInv, ElapsedInv, Period, ElapsedHonest
<1> QED BY <1>1, Inductive, PTL

(* timer_read() returns a time at which it was running.                     *)
THEOREM ReadIsExact == Spec => ReadExact
<1> DEFINE Exact == \A c \in Contexts :
                      pc[c] = "reread_h" /\ pc'[c] \notin {"reread_h", "read_h"} =>
                        Join(timeh[c], timel[c]) \in called[c]..mtime
<1>1. IInv /\ [Next]_vars => [Exact]_vars
  <2> SUFFICES ASSUME IInv, Next, NEW c \in Contexts,
                      pc[c] = "reread_h", pc'[c] \notin {"reread_h", "read_h"}
               PROVE  Join(timeh[c], timel[c]) \in called[c]..mtime
    OBVIOUS
  <2>0. pc = [d \in Contexts |-> pc[d]] BY DEF IInv, TypeOK
  <2>1. ~Tick BY DEF Tick, swVars
  <2>2. ~Calls
    BY <2>0
    DEF Calls, TimerRead, TimerDisable, SetEnabled, Interrupt, TimerEnable,
        TimecmpUpdate, At, Goto, InHandler, Contexts
  <2>3. ASSUME NEW d \in Contexts,
               \/ ReadHigh(d) \/ ReadLow(d)
               \/ WriteCmpMask(d) \/ WriteCmpHigh(d) \/ WriteCmpLow(d)
        PROVE  FALSE
    BY <2>0, <2>3
    DEF ReadHigh, ReadLow, WriteCmpMask, WriteCmpHigh, WriteCmpLow, At, Goto
  <2>4. PICK d \in Contexts : ReadHighAgain(d) BY <2>1, <2>2, <2>3, NextCases
  <2>5. d = c /\ ~Overflowed(c) BY <2>0, <2>4 DEF ReadHighAgain, Goto
  <2> QED BY <2>4, <2>5, ReadReturns DEF IInv
<1>2. IInv /\ [Next]_vars => [Exact]_vars BY <1>1
<1> QED BY <1>2, Inductive, PTL DEF Spec, ReadExact

=============================================================================
