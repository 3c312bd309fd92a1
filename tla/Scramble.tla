----------------------------- MODULE Scramble -----------------------------
(***************************************************************************)
(* scramble_model.cc: the address permutation and the data cipher of a     *)
(* scrambled memory.  A byte vector with its width is a set of bits below  *)
(* the width; reading and setting a bit of a vector is membership.         *)
(***************************************************************************)
EXTENDS Prince

PRESENT_SBOX4 ==
    <<\hc, \h5, \h6, \hb, \h9, \h0, \ha, \hd, \h3, \he, \hf, \h8, \h4, \h7, \h1, \h2>>

PRESENT_SBOX4_INV ==
    <<\h5, \he, \hf, \h8, \hc, \h1, \h2, \hd, \hb, \h4, \h6, \h3, \h0, \h7, \h9, \ha>>

kNumAddrSubstPermRounds == 2

kNumDataSubstPermRounds == 2

kNumPrinceHalfRounds == 3

(* Whole nibbles are substituted; the bits above the last one are copied.  *)
scramble_sbox_layer(v, width, sbox) ==
    LET whole == width \div 4
    IN  Substitute(v, sbox, whole)
          \cup (IF width % 4 = 0 THEN {} ELSE Shl(Field(v, 4 * whole, 4), 4 * whole))

scramble_flip_layer(v, width) == {width - 1 - p : p \in v \cap Ones(width)}

scramble_perm_layer_LastBitLost(v, width, invert) ==
    LET half == width \div 2
    IN  {IF invert THEN (IF p < half THEN 2 * p ELSE 2 * (p - half) + 1)
                   ELSE (p \div 2) + half * (p % 2) : p \in v \cap Ones(2 * half)}

(* Even bits to the lower half and odd bits to the upper one, or back; the *)
(* last bit of an odd width stays where it is.                             *)
scramble_perm_layer(v, width, invert) ==
    LET half    == width \div 2
        Spread(p) == IF p < half THEN 2 * p ELSE 2 * (p - half) + 1
        Gather(p) == (p \div 2) + half * (p % 2)
    IN  {IF invert THEN Spread(p) ELSE Gather(p) : p \in v \cap Ones(2 * half)}
          \cup (IF width % 2 = 0 THEN {} ELSE v \cap {width - 1})

(* A round of the network, and the rounds one after the other. *)
EncRound(state, key, width) ==
    scramble_perm_layer(
        scramble_flip_layer(
            scramble_sbox_layer(Xor(state, key), width, PRESENT_SBOX4), width),
        width, FALSE)

DecRound(state, key, width) ==
    scramble_sbox_layer(
        scramble_flip_layer(
            scramble_perm_layer(Xor(state, key), width, TRUE), width),
        width, PRESENT_SBOX4_INV)

EncRounds(v, key, width, num_rounds) ==
    LET loop[i \in 0 .. num_rounds] ==
            IF i = 0 THEN v ELSE EncRound(loop[i - 1], key, width)
    IN  loop

DecRounds(v, key, width, num_rounds) ==
    LET loop[i \in 0 .. num_rounds] ==
            IF i = 0 THEN v ELSE DecRound(loop[i - 1], key, width)
    IN  loop

scramble_subst_perm_enc(v, key, width, num_rounds) ==
    Xor(EncRounds(v, key, width, num_rounds)[num_rounds], key)

scramble_subst_perm_dec(v, key, width, num_rounds) ==
    Xor(DecRounds(v, key, width, num_rounds)[num_rounds], key)

kPrinceWidth == 64

(* One PRINCE block for every 64 bits, or one block repeated.  A block     *)
(* encrypts the address with bits of the nonce above it, other bits for    *)
(* each block; PRINCE itself has the opposite byte order.                  *)
scramble_gen_keystream(addr, addr_width, nonce, key, keystream_width, num_half_rounds, repeat_keystream) ==
    LET blocks   == (keystream_width + kPrinceWidth - 1) \div kPrinceWidth
        part     == kPrinceWidth - addr_width
        iv(i)    == Field(addr, 0, addr_width) \cup Shl(Field(nonce, i * part, part), addr_width)
        block(i) == byte_reverse_vector(
                        prince_enc_dec(byte_reverse_vector(iv(i), 8), byte_reverse_vector(key, 16),
                                       FALSE, num_half_rounds, FALSE), 8)
        stream   == UNION {Shl(block(IF repeat_keystream THEN 0 ELSE i), kPrinceWidth * i) :
                              i \in 0 .. blocks - 1}
    IN  Field(stream, 0, keystream_width)

(* What scramble_subst_perm_enc() and scramble_subst_perm_dec() assert of   *)
(* each chunk of a word: it comes in a vector of as many bytes as a full    *)
(* chunk has, and that must be as many as its own width takes.              *)
ChunksFit(width, subst_perm_width) ==
    LET blocks   == (width + subst_perm_width - 1) \div subst_perm_width
        bytes(w) == (w + 7) \div 8
    IN  \A i \in 0 .. blocks - 1 :
            bytes(Min({subst_perm_width, width - subst_perm_width * i})) = bytes(subst_perm_width)

(* Chunks of subst_perm_width bits one by one; the last may be smaller.     *)
(* What is returned if the assertions on the chunks hold; else it aborts.   *)
scramble_subst_perm_full_width(v, width, subst_perm_width, enc) ==
    LET blocks   == (width + subst_perm_width - 1) \div subst_perm_width
        block(i) ==
            LET w    == Min({subst_perm_width, width - subst_perm_width * i})
                data == Field(v, i * subst_perm_width, w)
                out  == IF enc THEN scramble_subst_perm_enc(data, {}, w, kNumDataSubstPermRounds)
                               ELSE scramble_subst_perm_dec(data, {}, w, kNumDataSubstPermRounds)
            IN  Shl(out, i * subst_perm_width)
    IN  UNION {block(i) : i \in 0 .. blocks - 1}

(* The key of the address permutation is the top of the nonce. *)
scramble_addr(addr, addr_width, nonce, nonce_width) ==
    scramble_subst_perm_enc(addr, Field(nonce, nonce_width - addr_width, addr_width),
                            addr_width, kNumAddrSubstPermRounds)

(* Whether scramble_encrypt_data() and scramble_decrypt_data() return.      *)
Returns(data_width, subst_perm_width, use_sp_layer) ==
    use_sp_layer => ChunksFit(data_width, subst_perm_width)

(* Exclusive or with the keystream, then the layer; and back. *)
EncryptWith(keystream, data, data_width, subst_perm_width, use_sp_layer) ==
    LET enc == Xor(data, keystream)
    IN  IF use_sp_layer
        THEN scramble_subst_perm_full_width(enc, data_width, subst_perm_width, TRUE)
        ELSE enc

DecryptWith(keystream, data, data_width, subst_perm_width, use_sp_layer) ==
    Xor(IF use_sp_layer
        THEN scramble_subst_perm_full_width(data, data_width, subst_perm_width, FALSE)
        ELSE data, keystream)

scramble_encrypt_data(data, data_width, subst_perm_width, addr, addr_width, nonce, key, repeat_keystream, use_sp_layer) ==
    EncryptWith(scramble_gen_keystream(addr, addr_width, nonce, key, data_width,
                                       kNumPrinceHalfRounds, repeat_keystream),
                data, data_width, subst_perm_width, use_sp_layer)

scramble_decrypt_data(data, data_width, subst_perm_width, addr, addr_width, nonce, key, repeat_keystream, use_sp_layer) ==
    DecryptWith(scramble_gen_keystream(addr, addr_width, nonce, key, data_width,
                                       kNumPrinceHalfRounds, repeat_keystream),
                data, data_width, subst_perm_width, use_sp_layer)
===========================================================================
