------------------------------ MODULE Secded ------------------------------
(***************************************************************************)
(* The encoders of secded_enc.c: seven or so parities of a data word, each *)
(* over the bits of a mask, that let a reader detect up to three wrong     *)
(* bits of a code word.  A code is its number of data bits and its masks;  *)
(* mask k gives check bit k - 1.                                           *)
(***************************************************************************)
EXTENDS Bits

(* Even parity of a word; the inverted encoders flip some of the bits. *)
calc_parity(word, invert) == (Cardinality(word) % 2 = 1) # invert

secded_22_16 == [data |-> 16, masks |->
    <<Hex(<<\h496e>>), Hex(<<\hf20b>>), Hex(<<\h8ed8>>), Hex(<<\h7714>>),
      Hex(<<\haca5>>), Hex(<<\h11f3>>)>>]

secded_28_22_Typo == [data |-> 22, masks |->
    <<Hex(<<\h30, \h03ff>>), Hex(<<\h10, \hfc0f>>), Hex(<<\h27, \h1c71>>),
      Hex(<<\h3b, \h6592>>), Hex(<<\h3d, \haaa4>>), Hex(<<\h3e, \hd34c>>)>>]

secded_28_22 == [data |-> 22, masks |->
    <<Hex(<<\h30, \h03ff>>), Hex(<<\h10, \hfc0f>>), Hex(<<\h27, \h1c71>>),
      Hex(<<\h3b, \h6592>>), Hex(<<\h3d, \haaa4>>), Hex(<<\h3e, \hd348>>)>>]

secded_39_32 == [data |-> 32, masks |->
    <<Hex(<<\h2606, \hbd25>>), Hex(<<\hdeba, \h8050>>), Hex(<<\h413d, \h89aa>>),
      Hex(<<\h3123, \h4ed1>>), Hex(<<\hc2c1, \h323b>>), Hex(<<\h2dcc, \h624c>>),
      Hex(<<\h9850, \h5586>>)>>]

secded_64_57 == [data |-> 57, masks |->
    <<Hex(<<\h103, \hfff8, \h0000, \h7fff>>), Hex(<<\h17c, \h1ff8, \h01ff, \h801f>>),
      Hex(<<\h1bd, \he1f8, \h7e07, \h81e1>>), Hex(<<\h1de, \hee3b, \h8e38, \h8e22>>),
      Hex(<<\h1ef, \h76cd, \hb2c9, \h3244>>), Hex(<<\h1f7, \hbb56, \hd552, \h5488>>),
      Hex(<<\h1fb, \hdda7, \h69a4, \h6910>>)>>]

secded_72_64 == [data |-> 64, masks |->
    <<Hex(<<\hb900, \h0000, \h001f, \hffff>>), Hex(<<\h5e00, \h000f, \hffe0, \h003f>>),
      Hex(<<\h6700, \h3ff0, \h03e0, \h07c1>>), Hex(<<\hcd0f, \hc0f0, \h3c20, \h7842>>),
      Hex(<<\hb671, \hc711, \hc443, \h8884>>), Hex(<<\hb5b6, \h5926, \h488c, \h9108>>),
      Hex(<<\hcbda, \haa4a, \h9115, \h2210>>), Hex(<<\h7aed, \h348d, \h221a, \h4420>>)>>]

(* enc_secded_22_16() to enc_secded_72_64(): the check bits of word. *)
enc_secded(code, word) ==
    {k - 1 : k \in {j \in DOMAIN code.masks : calc_parity(word \cap code.masks[j], FALSE)}}

(* enc_secded_inv_22_16() to enc_secded_inv_72_64(): every second check    *)
(* bit is inverted, so that neither an all-zero nor an all-one memory word *)
(* is a code word.                                                         *)
enc_secded_inv(code, word) ==
    {k - 1 : k \in {j \in DOMAIN code.masks :
                      calc_parity(word \cap code.masks[j], j % 2 = 0)}}
---------------------------------------------------------------------------
(* A code word: the data with the check bits above it. *)
CodeWord(code, word, check) == word \cup Shl(check, code.data)

AcceptsPlain(code, phys) ==
    Field(phys, code.data, Len(code.masks)) = enc_secded(code, Field(phys, 0, code.data))

Accepts(code, phys) ==
    Field(phys, code.data, Len(code.masks)) = enc_secded_inv(code, Field(phys, 0, code.data))

(* Up to three flips of a good code word are always seen, with either of   *)
(* the encoders; and a memory of zeros or of ones is not a code word of    *)
(* the inverted one.                                                       *)
Detects(code, word) ==
    LET top    == code.data + Len(code.masks) - 1
        plain  == CodeWord(code, word, enc_secded(code, word))
        inv    == CodeWord(code, word, enc_secded_inv(code, word))
    IN  /\ AcceptsPlain(code, plain) /\ Accepts(code, inv)
        /\ ~Accepts(code, {}) /\ ~Accepts(code, 0 .. top)
        /\ \A a \in 0 .. top : \A b \in a .. top : \A c \in b .. top :
              /\ ~AcceptsPlain(code, Xor(plain, {a, b, c}))
              /\ ~Accepts(code, Xor(inv, {a, b, c}))
===========================================================================
