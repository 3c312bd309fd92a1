------------------------------- MODULE Timer -------------------------------
(***************************************************************************)
(* The memory-mapped timer of the simple system (example/timer.sv).  One   *)
(* step is one rising clock edge, with at most one access on the bus.  A   *)
(* register is two bus words; only whole words are accessed, as the        *)
(* software's DEV_READ and DEV_WRITE do, so the byte strobes are all set.  *)
(***************************************************************************)
EXTENDS Naturals

CONSTANT WordBits     \* DataWidth: the width of a bus word, 32 in the code

(* The second fact follows from the first; the provers do not know "^".     *)
ASSUME WordAssumption == WordBits \in Nat \ {0} /\ 2 ^ WordBits \in Nat \ {0}

VARIABLES mtime, mtimecmp, interrupt    \* mtime_q, mtimecmp_q, interrupt_q

timerVars == <<mtime, mtimecmp, interrupt>>

Base == 2 ^ WordBits

(* Mutant of High: no shift.                                                *)
High_NoShift(x) == x

(* The words of a register.                                                 *)
High(x) == x \div Base
Low(x)  == x % Base
Join(hi, lo) == hi * Base + lo

TimerTypeOK ==
  /\ mtime \in 0..(Base * Base - 1)
  /\ mtimecmp \in 0..(Base * Base - 1)
  /\ interrupt \in BOOLEAN

Reset ==
  /\ mtime = 0 /\ mtimecmp = 0
  /\ interrupt = FALSE

(* What a cycle may have on the bus.                                        *)
NoAccess == [we |-> FALSE, addr |-> "none", wdata |-> 0]
Read(addr) == [we |-> FALSE, addr |-> addr, wdata |-> 0]
Write(addr, data) == [we |-> TRUE, addr |-> addr, wdata |-> data]

Writes(acc, addr) == acc.we /\ acc.addr = addr

(* rdata_d: the answer to a read in this cycle, of the registers before the *)
(* edge; anything else reads as 0, with an error.                           *)
ReadData(addr) ==
  CASE addr = "MTIME_LOW"     -> Low(mtime)
    [] addr = "MTIME_HIGH"    -> High(mtime)
    [] addr = "MTIMECMP_LOW"  -> Low(mtimecmp)
    [] addr = "MTIMECMP_HIGH" -> High(mtimecmp)
    [] OTHER                  -> 0

(* A register at addrH, addrL that would become d.                          *)
Updated(acc, addrH, addrL, d) ==
  Join(IF Writes(acc, addrH) THEN acc.wdata ELSE High(d),
       IF Writes(acc, addrL) THEN acc.wdata ELSE Low(d))

(* Mutant: the comparator hits a cycle late.                                *)
Expired_After == mtime > mtimecmp

Expired == mtime >= mtimecmp

(* Mutant: the interrupt stays once it is set.                              *)
Acknowledged_Never(acc) == FALSE

Acknowledged(acc) ==
  Writes(acc, "MTIMECMP_LOW") \/ Writes(acc, "MTIMECMP_HIGH")

ClockEdge(acc) ==
  /\ mtime' = Updated(acc, "MTIME_HIGH", "MTIME_LOW", (mtime + 1) % (Base * Base))
  /\ mtimecmp' = Updated(acc, "MTIMECMP_HIGH", "MTIMECMP_LOW", mtimecmp)
  /\ interrupt' = ((Expired \/ interrupt) /\ ~Acknowledged(acc))
=============================================================================
