----------------------------- MODULE Addresses -----------------------------
(* Byte addresses: uint32_t in the code.                                    *)
EXTENDS Integers

CONSTANT AddrSpace    \* how many there are, 2^32 in the code

ASSUME AddrSpaceAssumption == AddrSpace \in Nat \ {0}

(* Arithmetic on them.                                                      *)
Wrap(a) == a % AddrSpace
=============================================================================
