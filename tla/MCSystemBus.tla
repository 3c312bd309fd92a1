---------------------------- MODULE MCSystemBus ----------------------------
(* A RAM of two words at 8, the simulator control at 4 and the timer at 16, *)
(* with words of one byte of one bit.                                       *)
EXTENDS SystemBus, TLC

MCRegions == <<[base |-> 8, size |-> 2], [base |-> 4, size |-> 4], [base |-> 16, size |-> 8]>>

Get(a) == [addr |-> a, we |-> FALSE, be |-> {0}, wdata |-> 0]
Put(a, be, w) == [addr |-> a, we |-> TRUE, be |-> be, wdata |-> w]

(* One host writes the RAM, ends the simulation, and asks for an address    *)
(* without a device; the other reads the RAM, writes it without a strobe,   *)
(* prints, reads the time, and a word of the timer without a register.      *)
MCRequests ==
    (0 :> {Put(9, {0}, 1), Put(6, {0}, 1), Get(0)})
    @@ (1 :> {Get(9), Put(9, {}, 1), Put(4, {0}, 1), Get(16), Get(20)})

MCFetches == {9}
=============================================================================
