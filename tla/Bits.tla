------------------------------- MODULE Bits -------------------------------
(***************************************************************************)
(* Words of any width as sets of the positions of their one-bits, position *)
(* 0 being the least significant.  TLC's own integers have 32 bits; the    *)
(* memories' words, their keystreams and their keys have up to 128.        *)
(***************************************************************************)
EXTENDS Integers, FiniteSets, FiniteSetsExt, Sequences, SequencesExt

Ones(width) == 0 .. (width - 1)

(* SymDiff of FiniteSetsExt, in a form that TLC enumerates at once; nested  *)
(* unions and differences would be tested member by member, over and over. *)
Xor(a, b) == {p \in a \cup b : (p \in a) # (p \in b)}

(* v << n, on a word that does not end. *)
Shl(v, n) == {p + n : p \in v}

(* The width bits of v from lo upwards: (v >> lo) & ((1 << width) - 1). *)
Field(v, lo, width) == {p - lo : p \in v \cap (lo .. lo + width - 1)}

(* Two to the power of p is Power[p + 1]. *)
Power == <<1, 2, 4, 8, 16, 32, 64, 128, 256, 512, 1024, 2048, 4096, 8192, 16384, 32768, 65536>>

(* The bits of a number below 2^16. *)
Number(n) == {p \in 0 .. 15 : (n \div Power[p + 1]) % 2 = 1}

(* The number that the n highest of the 16 bits of a word make.            *)
Digits(v) ==
    LET high[n \in 0 .. 16] ==
            IF n = 0 THEN 0 ELSE 2 * high[n - 1] + (IF 16 - n \in v THEN 1 ELSE 0)
    IN  high

Value(v) == Digits(v)[16]

(* A number of 16-bit digits, most significant digit first, as the source  *)
(* writes its hexadecimal constants.                                       *)
Hex(digits) ==
    UNION {Shl(Number(digits[i]), 16 * (Len(digits) - i)) : i \in DOMAIN digits}

(* The bytes of a vector in opposite order. *)
byte_reverse_vector(v, bytes) == {8 * (bytes - 1 - (p \div 8)) + (p % 8) : p \in v}
===========================================================================
