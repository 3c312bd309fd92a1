----------------------------- MODULE ByteImage -----------------------------
(***************************************************************************)
(* What staging an ELF file promises: a partial map from byte offsets to   *)
(* bytes, in which the segment that is written last wins, and the bounds   *)
(* of what was written.                                                    *)
(***************************************************************************)
EXTENDS Integers, Sequences

CONSTANTS
  AddrSpace,  \* offsets are 0..AddrSpace-1
  Segments    \* the non-empty sequences of bytes that may be written

VARIABLES image, bounds

vars == <<image, bounds>>

Init == image = <<>> /\ bounds = <<>>

Written(offset, seg) == offset..(offset + Len(seg) - 1)

Write(offset, seg) ==
  /\ offset + Len(seg) <= AddrSpace
  /\ image' = [a \in DOMAIN image \cup Written(offset, seg) |->
                 IF a \in Written(offset, seg) THEN seg[a - offset + 1]
                                               ELSE image[a]]
  /\ \E lo, hi \in DOMAIN image' :
       /\ \A a \in DOMAIN image' : lo <= a /\ a <= hi
       /\ bounds' = <<lo, hi>>

Next == \E offset \in 0..(AddrSpace - 1), seg \in Segments : Write(offset, seg)

Spec == Init /\ [][Next]_vars
=============================================================================
