------------------------------ MODULE Prince ------------------------------
(***************************************************************************)
(* The PRINCE block cipher of prince_ref.h, on 64-bit words as sets of     *)
(* bits.  The scrambled memories use it with three half rounds and the new *)
(* key schedule.                                                           *)
(***************************************************************************)
EXTENDS Bits

(* byte 0 of the array is the most significant byte of the integer *)
bytes_to_uint64(bytes) == byte_reverse_vector(bytes, 8)

uint64_to_bytes(word) == byte_reverse_vector(word, 8)

prince_k0_to_k0_prime_RotateOnly(k0) == {(p + 63) % 64 : p \in k0}

(* k0 rotated right by one, exclusive or k0 >> 63 *)
prince_k0_to_k0_prime(k0) ==
    LET ror1 == {(p + 63) % 64 : p \in k0}
    IN  Xor(ror1, Field(k0, 63, 1))

RoundConstants ==
    <<{},                                 Hex(<<\h1319, \h8a2e, \h0370, \h7344>>),
      Hex(<<\ha409, \h3822, \h299f, \h31d0>>), Hex(<<\h082e, \hfa98, \hec4e, \h6c89>>),
      Hex(<<\h4528, \h21e6, \h38d0, \h1377>>), Hex(<<\hbe54, \h66cf, \h34e9, \h0c6c>>),
      Hex(<<\h7ef8, \h4f78, \hfd95, \h5cb1>>), Hex(<<\h8584, \h0851, \hf1ac, \h43aa>>),
      Hex(<<\hc882, \hd32f, \h2532, \h3c54>>), Hex(<<\h64a5, \h1195, \he0e3, \h610d>>),
      Hex(<<\hd3b5, \ha399, \hca0c, \h2399>>), Hex(<<\hc0ac, \h29b7, \hc97c, \h50dd>>)>>

prince_round_constant(round) == RoundConstants[round + 1]

prince_sbox == <<\hb, \hf, \h3, \h2, \ha, \hc, \h9, \h1, \h6, \h7, \h8, \h0, \he, \h5, \hd, \h4>>

prince_sbox_inv == <<\hb, \h7, \h3, \h2, \hf, \hd, \h8, \h9, \ha, \h6, \h4, \h0, \h5, \he, \hc, \h1>>

(* Each of the nibbles of a word through a substitution box.               *)
Substitute(word, box, nibbles) ==
    UNION {Shl(Number(box[Value(Field(word, 4 * i, 4)) + 1]), 4 * i) : i \in 0 .. nibbles - 1}

prince_s_layer(word) == Substitute(word, prince_sbox, 16)

prince_s_inv_layer(word) == Substitute(word, prince_sbox_inv, 16)

(* The exclusive or of the rows of the matrix that the low 16 bits select: *)
(* a bit is set if an odd number of them have it.                          *)
gf2_mat_mult16_1(word, mat) ==
    LET rows == Field(word, 0, 16)
    IN  {b \in 0 .. 15 : Cardinality({i \in rows : b \in mat[i + 1]}) % 2 = 1}

(* The generator of the two matrices: 4-bit identities with one bit        *)
(* missing, rotated from row to row; the second matrix is the first one    *)
(* rotated by a nibble.                                                    *)
prince_m16_matrices ==
    LET m4(j, c)  == Number(2^c) \ (IF j = c THEN {c} ELSE {})
        row(i)    == LET base == i \div 4
                         c    == i % 4
                     IN  Shl(m4((base + 3) % 4, c), 8) \cup Shl(m4((base + 2) % 4, c), 4)
                           \cup m4((base + 1) % 4, c) \cup Shl(m4(base, c), 12)
        rot(word) == Field(word, 12, 4) \cup Shl(Field(word, 0, 12), 4)
    IN  << [i \in 1 .. 16 |-> row(i - 1)], [i \in 1 .. 16 |-> rot(row(i - 1))] >>

(* The table that prince_m_prime_layer() uses in place of the generator. *)
M16 ==
    LET rows(r) == [i \in 1 .. 16 |-> Number(r[i])]
    IN  << rows(<<\h0111, \h2220, \h4404, \h8088, \h1011, \h0222, \h4440, \h8808,
                  \h1101, \h2022, \h0444, \h8880, \h1110, \h2202, \h4044, \h0888>>),
           rows(<<\h1110, \h2202, \h4044, \h0888, \h0111, \h2220, \h4404, \h8088,
                  \h1011, \h0222, \h4440, \h8808, \h1101, \h2022, \h0444, \h8880>>) >>

prince_m_prime_layer(word) ==
    LET chunk(i, m) == Shl(gf2_mat_mult16_1(Field(word, 16 * i, 16), M16[m]), 16 * i)
    IN  chunk(3, 1) \cup chunk(2, 2) \cup chunk(1, 2) \cup chunk(0, 1)

(* Row i, the i-th nibble from the top of each chunk, rotated right by     *)
(* shift.  In row 0 one of the two shifts is by 64, which C leaves         *)
(* undefined; 0 and the unshifted row are both absorbed by the other part. *)
prince_shift_rows(word, inverse) ==
    LET row(i)   == {p \in word : (p % 16) \div 4 = 3 - i}
        shift(i) == IF inverse THEN 16 * i ELSE 64 - 16 * i
    IN  UNION {{(p + 64 - shift(i)) % 64 : p \in row(i)} : i \in 0 .. 3}

prince_m_layer(word) == prince_shift_rows(prince_m_prime_layer(word), FALSE)

prince_m_inv_layer(word) == prince_m_prime_layer(prince_shift_rows(word, TRUE))

Xor3(a, b, c) == Xor(Xor(a, b), c)

(* A round is written as the one member of {Round(v) : v \in {w}}, so that *)
(* TLC computes w before it starts on the round.                           *)
prince_core(core_input, k0_new, k1, num_half_rounds) ==
    LET key(n)          == IF n % 2 = 1 THEN k0_new ELSE k1
        Forward(w, n)   ==
            UNION {Xor3(prince_m_layer(prince_s_layer(v)), key(n), prince_round_constant(n)) :
                       v \in {w}}
        Backward(w, n)  ==
            UNION {prince_s_inv_layer(prince_m_inv_layer(
                       Xor3(v, key(num_half_rounds + n + 1),
                            prince_round_constant(10 - num_half_rounds + n)))) : v \in {w}}
        rounds == [n \in 1 .. num_half_rounds |-> n]
        first  == FoldLeft(Forward, Xor3(core_input, k1, prince_round_constant(0)), rounds)
        middle == UNION {prince_s_inv_layer(prince_m_prime_layer(prince_s_layer(v))) :
                             v \in {first}}
        last   == FoldLeft(Backward, middle, rounds)
    IN  Xor3(last, k1, prince_round_constant(11))

prince_alpha == Hex(<<\hc0ac, \h29b7, \hc97c, \h50dd>>)

prince_enc_dec_uint64(input, enc_k0, enc_k1, decrypt, num_half_rounds, old_key_schedule) ==
    LET alpha        == IF decrypt THEN prince_alpha ELSE {}
        k1           == Xor(enc_k1, alpha)
        k0_new       == IF old_key_schedule THEN k1 ELSE Xor(enc_k0, alpha)
        enc_k0_prime == prince_k0_to_k0_prime(enc_k0)
        k0           == IF decrypt THEN enc_k0_prime ELSE enc_k0
        k0_prime     == IF decrypt THEN enc_k0 ELSE enc_k0_prime
    IN  Xor(prince_core(Xor(input, k0), k0_new, k1, num_half_rounds), k0_prime)

(* The key is K0 in bytes 0 to 7 and K1 in bytes 8 to 15. *)
prince_enc_dec(in_bytes, key_bytes, decrypt, num_half_rounds, old_key_schedule) ==
    uint64_to_bytes(
        prince_enc_dec_uint64(bytes_to_uint64(in_bytes),
                              bytes_to_uint64(Field(key_bytes, 0, 64)),
                              bytes_to_uint64(Field(key_bytes, 64, 64)),
                              decrypt, num_half_rounds, old_key_schedule))

prince_encrypt(in_bytes, key_bytes, num_half_rounds, old_key_schedule) ==
    prince_enc_dec(in_bytes, key_bytes, FALSE, num_half_rounds, old_key_schedule)

prince_decrypt(in_bytes, key_bytes, num_half_rounds, old_key_schedule) ==
    prince_enc_dec(in_bytes, key_bytes, TRUE, num_half_rounds, old_key_schedule)
===========================================================================
