----------------------------- MODULE MemAreas -----------------------------
(***************************************************************************)
(* The memories of the harness behind one interface: MemArea (words as     *)
(* they are), Ecc32MemArea (7 check bits for every 32 bits) and            *)
(* ScrambledEcc32MemArea (the same, encrypted, at a permuted address).     *)
(* A call goes word by word through a buffer that it reuses; each word may *)
(* fail, so a step is one turn of the loop.  Between calls bits of the     *)
(* design's memory may flip.                                               *)
(*                                                                         *)
(* The scrambling key and nonce are read from arrays that nothing fills:   *)
(* each call of GetScrambleKey() and GetScrambleNonce() may see another    *)
(* value.  "settled" records that all of them saw the same.                *)
(***************************************************************************)
EXTENDS Scramble, Secded

CONSTANTS
    Kinds,       \* the classes of areas: "plain", "ecc", "scrambled"
    NumWords,    \* words of the area, and of the memory in the design
    Width32,     \* 32-bit words in a word of the area
    Data,        \* what may be written: [bits, bytes]
    EccData,     \* the same with validity bits: sequences of [good, word]
    Strays,      \* what may lie behind the end of a vector
    Keys, Nonces,\* what the unfilled arrays may hold
    Flips,       \* sets of bits of a memory word that may flip together
    MaxCalls     \* bound on the number of calls and faults

(* The asserted limit of a word is 312 bits.  Numbers become bits only for  *)
(* the addresses of a scrambled area, of up to 16 bits here (a bound).      *)
ASSUME MemAreasAssumption ==
    /\ Kinds \subseteq {"plain", "ecc", "scrambled"}
    /\ NumWords \in Nat \ {0} /\ ("scrambled" \in Kinds => NumWords <= 65536)
    /\ Width32 \in Nat \ {0} /\ 39 * Width32 <= 312
    /\ MaxCalls \in Nat

(* Vectors of bytes, and of 32-bit words with a flag.                      *)
ASSUME DataAssumption ==
    /\ \A d \in Data : d.bytes \in Nat /\ d.bits \subseteq Ones(8 * d.bytes)
    /\ \A d \in EccData : d \in Seq([good : BOOLEAN, word : SUBSET Ones(32)])
    /\ \A s \in Strays \cup Flips : s \subseteq Nat

VARIABLES
    kind,        \* the class of the area
    repeat_keystream_,
    found,       \* the scopes that exist in the design
    mem,         \* the array in the design
    call,        \* the call being made: [op, off, num, data]
    nth,           \* its loop counter
    minibuf,
    ret,         \* what it returns
    outcome,     \* how far it has come
    stack,       \* the key and the nonce, if they are always the same
    settled,
    calls,
    written,     \* history: what was last written to a word
    flipped      \* history: bits of a word in the design flipped since then

config == <<kind, repeat_keystream_, found>>
vars == <<config, mem, call, nth, minibuf, ret, outcome, stack, settled, calls, written, flipped>>

width_byte_ == 4 * Width32
MemWords == 0 .. NumWords - 1
None == [op |-> "none"]
---------------------------------------------------------------------------
(* Addresses and parameters of a scrambled area.                           *)

(* The number of bits to address size items. *)
vbits(size) ==
    IF size = 1 THEN 1
    ELSE CHOOSE w \in 1 .. 16 : Power[w] <= size - 1 /\ size - 1 < Power[w + 1]

addr_width_ == vbits(NumWords)

AddrIntToBytes(addr, addr_width) == Field(Number(addr), 0, 8 * ((addr_width + 7) \div 8))

AddrBytesToInt(addr) == Value(addr)

GetPhysWidth == (width_byte_ \div 4) * 39
GetPhysWidthByte == (GetPhysWidth + 7) \div 8
GetPrinceReplications == IF repeat_keystream_ THEN 1 ELSE (GetPhysWidthByte + 7) \div 8
GetNonceWidth == GetPrinceReplications * 64

(* The outcomes of reading the unfilled arrays. ByteVecFromSV() turns      *)
(* little-endian words into little-endian bytes, the same bits; a nonce    *)
(* has GetNonceWidth bits or more, of which only those are ever used.      *)
GetScrambleKey == Keys
GetScrambleNonce == Nonces

ToPhysAddr(logical_addr, nonce) ==
    IF kind # "scrambled" THEN logical_addr
    ELSE AddrBytesToInt(scramble_addr(AddrIntToBytes(logical_addr, addr_width_), addr_width_,
                                      nonce, GetNonceWidth))
---------------------------------------------------------------------------
(* Words with check bits, packed without gaps into a buffer of bytes.      *)

zero_buffer(buf) == buf \ Ones(8 * ((39 * (width_byte_ \div 4) + 7) \div 8))

(* The lowest count <= 8 bits of new_bits: first what the byte at bit_idx  *)
(* has room for, the rest at the bottom of the next byte.                  *)
insert_bits(buf, bit_idx, new_bits, count) ==
    LET take == Min({8 - (bit_idx % 8), count})
    IN  buf \cup Shl(Field(new_bits, 0, take), bit_idx)
            \cup Shl(Field(new_bits, take, count - take), 8 * (bit_idx \div 8 + 1))

extract_bits(buf, bit_idx, count) ==
    LET take == Min({8 - (bit_idx % 8), count})
    IN  Field(buf, bit_idx, take)
            \cup Shl(Field(buf, 8 * (bit_idx \div 8 + 1), count - take), take)

(* The loop over the bytes of a word, after j of them. *)
ByteLoop(buf, bit_idx, word) ==
    LET loop[j \in 0 .. 4] ==
            IF j = 0 THEN buf
            ELSE insert_bits(loop[j - 1], bit_idx + 8 * (j - 1), Field(word, 8 * (j - 1), 8), 8)
    IN  loop

insert_word(buf, bit_idx, word, check_bits) ==
    insert_bits(ByteLoop(buf, bit_idx, word)[4], bit_idx + 32, check_bits, 7)

extract_word(buf, bit_idx) ==
    UNION {Shl(extract_bits(buf, bit_idx + 8 * j, 8), 8 * j) : j \in 0 .. 3}

(* The check bits of a word that is not good are inverted.                 *)
CheckBits(lane) ==
    LET check == enc_secded_inv(secded_39_32, lane.word)
    IN  IF lane.good THEN check ELSE Xor(check, Ones(7))

(* The loop over the lanes of a word, [good, word] each, after k of them.  *)
LaneLoop(buf, lanes) ==
    LET loop[k \in 0 .. Width32] ==
            IF k = 0 THEN zero_buffer(buf)
            ELSE insert_word(loop[k - 1], 39 * (k - 1), lanes[k].word, CheckBits(lanes[k]))
    IN  loop

EccWriteBuffer_AllGood(buf, lanes) ==
    LaneLoop(buf, [k \in 1 .. Width32 |-> [lanes[k] EXCEPT !.good = TRUE]])[Width32]

(* Ecc32MemArea::WriteBuffer() and WriteBufferWithIntegrity(). *)
EccWriteBuffer(buf, lanes) == LaneLoop(buf, lanes)[Width32]

(* The lanes of one word out of a vector of bytes.  Bytes behind the end   *)
(* of the vector are taken too, whatever they are.                         *)
Lanes(data, start_idx, stray) ==
    LET source == data.bits \cup Shl(stray, 8 * data.bytes)
    IN  [k \in 1 .. Width32 |->
            [good |-> TRUE, word |-> Field(source, 8 * (start_idx + 4 * (k - 1)), 32)]]

ReadBufferWithIntegrity(buf) ==
    [k \in 1 .. Width32 |->
        LET w32 == extract_word(buf, 39 * (k - 1))
        IN  [good |-> extract_bits(buf, 39 * (k - 1) + 32, 7)
                        = enc_secded_inv(secded_39_32, w32),
             word |-> w32]]

EccReadBuffer(buf) ==
    UNION {Shl(extract_word(buf, 39 * (k - 1)), 32 * (k - 1)) : k \in 1 .. Width32}

PlainWriteBuffer_NotCleared(buf, data, start_idx) ==
    LET to_copy == Min({data.bytes - start_idx, width_byte_})
    IN  (buf \ Ones(8 * to_copy)) \cup Field(data.bits, 8 * start_idx, 8 * to_copy)

(* MemArea::WriteBuffer(): the rest of a word that the data does not fill  *)
(* is zero.                                                                *)
PlainWriteBuffer(buf, data, start_idx) ==
    LET to_copy == Min({data.bytes - start_idx, width_byte_})
        rest    == IF to_copy < width_byte_ THEN {} ELSE buf \ Ones(8 * to_copy)
    IN  rest \cup Field(data.bits, 8 * start_idx, 8 * to_copy)

(* The keystreams of the words, computed once for each outcome of reading  *)
(* the key and the nonce: the first step of scramble_encrypt_data() and    *)
(* scramble_decrypt_data(), which the two operators below then finish.     *)
Keystreams ==
    {[key |-> k, nonce |-> n, word |-> w, repeat |-> r,
      stream |-> scramble_gen_keystream(AddrIntToBytes(w, addr_width_), addr_width_, n, k,
                                        GetPhysWidth, kNumPrinceHalfRounds, r)] :
        k \in Keys, n \in Nonces, w \in MemWords, r \in BOOLEAN}

KeystreamFor(word, nonce, key) ==
    (CHOOSE s \in Keystreams : /\ s.key = key /\ s.nonce = nonce
                               /\ s.word = word /\ s.repeat = repeat_keystream_).stream

ScrambleBuffer(buf, dst_word, nonce, key) ==
    LET bytes == Ones(8 * GetPhysWidthByte)
    IN  (buf \ bytes) \cup
            EncryptWith(KeystreamFor(dst_word, nonce, key),
                        buf \cap bytes, GetPhysWidth, 39, FALSE)

ReadUnscrambled(buf, src_word, nonce, key) ==
    DecryptWith(KeystreamFor(src_word, nonce, key),
                buf \cap Ones(8 * GetPhysWidthByte), GetPhysWidth, 39, FALSE)
---------------------------------------------------------------------------
(* The DPI functions of the design's memory.                               *)
MemWidth == IF kind = "plain" THEN 32 * Width32 ELSE 39 * Width32

simutil_set_mem(index, val) ==
    mem' = [mem EXCEPT ![index] = Field(val, 0, MemWidth)]

(* Nothing can be promised once the key or the nonce changed: behaviours   *)
(* are cut off after the first word that this happened to (a bound).       *)
Idle == outcome \in {"returned", "threw"} /\ settled

Looping == outcome = "running" /\ settled

(* The common start of a call: its assertion on the range of words, then   *)
(* an empty buffer and the first turn of the loop.                         *)
Begin(op, off, num, data, asserted) ==
    /\ Idle /\ calls < MaxCalls
    /\ calls' = calls + 1
    /\ call' = [op |-> op, off |-> off, num |-> num, data |-> data]
    /\ nth' = 0 /\ minibuf' = {} /\ ret' = <<>>
    /\ outcome' = IF ~(asserted /\ off + num <= NumWords) THEN "aborted"
                  ELSE IF num = 0 THEN "returned" ELSE "running"
    /\ UNCHANGED <<config, mem, stack, settled, written, flipped>>

Write(off, data) ==
    Begin("Write", off, (data.bytes + width_byte_ - 1) \div width_byte_, data, TRUE)

WriteWithIntegrity(off, data) ==
    /\ kind # "plain"
    /\ Begin("WriteWithIntegrity", off, Len(data) \div Width32, data, Len(data) % Width32 = 0)

Read(off, num) == Begin("Read", off, num, <<>>, TRUE)

ReadWithIntegrity(off, num) ==
    /\ kind # "plain"
    /\ Begin("ReadWithIntegrity", off, num, <<>>, TRUE)

(* A turn of the loop gets the nonce for the address, and the nonce and    *)
(* the key for the data.                                                   *)
Picks ==
    IF kind # "scrambled" THEN {[at |-> stack.nonce, nonce |-> stack.nonce, key |-> stack.key]}
    ELSE [at : GetScrambleNonce, nonce : GetScrambleNonce, key : GetScrambleKey]

Word == call.off + nth

Settle(p) ==
    settled' = (settled /\ p = [at |-> stack.nonce, nonce |-> stack.nonce, key |-> stack.key])

Throws(phys) ==
    \/ kind = "scrambled" /\ "scr_scope_" \notin found
    \/ "scope_" \notin found
    \/ phys >= NumWords

Throw ==
    /\ outcome' = "threw"
    /\ UNCHANGED <<mem, nth, minibuf, ret, written, flipped>>

Advance ==
    /\ nth' = nth + 1
    /\ outcome' = IF nth + 1 = call.num THEN "returned" ELSE "running"

(* Whether a write takes bytes from behind its vector. *)
Behind ==
    IF kind # "plain" /\ call.op = "Write" /\ call.data.bytes < (nth + 1) * width_byte_
    THEN Strays ELSE {{}}

(* The buffer for word Word of a write, by the kind of area and of call.   *)
Filled(p, stray) ==
    LET lanes == IF call.op = "WriteWithIntegrity"
                 THEN SubSeq(call.data, nth * Width32 + 1, (nth + 1) * Width32)
                 ELSE Lanes(call.data, nth * width_byte_, stray)
        coded == EccWriteBuffer(minibuf, lanes)
    IN  CASE kind = "plain"     -> PlainWriteBuffer(minibuf, call.data, nth * width_byte_)
          [] kind = "ecc"       -> coded
          [] kind = "scrambled" -> ScrambleBuffer(coded, Word, p.nonce, p.key)

(* What word Word of a write is to hold: the next bits of what the caller  *)
(* gave and, where that ends, of whatever lies behind its vector; how many *)
(* of the bytes are the caller's, and which lanes are to be good.          *)
Asked(stray) ==
    IF call.op = "WriteWithIntegrity"
    THEN LET lane(k) == call.data[nth * Width32 + k]
         IN  [bits  |-> UNION {Shl(lane(k).word, 32 * (k - 1)) : k \in 1 .. Width32},
              bytes |-> width_byte_, good |-> [k \in 1 .. Width32 |-> lane(k).good]]
    ELSE LET source == call.data.bits \cup Shl(stray, 8 * call.data.bytes)
         IN  [bits  |-> Field(source, 8 * (nth * width_byte_), 8 * width_byte_),
              bytes |-> Min({call.data.bytes - nth * width_byte_, width_byte_}),
              good  |-> [k \in 1 .. Width32 |-> TRUE]]

WriteWord ==
    /\ Looping /\ call.op \in {"Write", "WriteWithIntegrity"}
    /\ \E p \in Picks, stray \in Behind :
         LET phys == ToPhysAddr(Word, p.at)
         IN  /\ Settle(p)
             /\ IF Throws(phys) THEN Throw
                ELSE /\ minibuf' = Filled(p, stray)
                     /\ simutil_set_mem(phys, minibuf')
                     /\ written' = [written EXCEPT ![Word] = Asked(stray)]
                     /\ flipped' = [flipped EXCEPT ![phys] = {}]
                     /\ Advance /\ UNCHANGED ret
    /\ UNCHANGED <<config, call, stack, calls>>

(* What a read makes of the buffer. *)
Taken(buf, p) ==
    LET clear == IF kind = "scrambled" THEN ReadUnscrambled(buf, Word, p.nonce, p.key) ELSE buf
    IN  CASE call.op = "ReadWithIntegrity" -> ReadBufferWithIntegrity(clear)
          [] call.op = "Read" /\ kind = "plain" -> Field(buf, 0, 8 * width_byte_)
          [] OTHER -> EccReadBuffer(clear)

ReadWord ==
    /\ Looping /\ call.op \in {"Read", "ReadWithIntegrity"}
    /\ \E p \in Picks :
         LET phys == ToPhysAddr(Word, p.at)
         IN  /\ Settle(p)
             /\ IF Throws(phys) THEN Throw
                ELSE /\ minibuf' = mem[phys]
                     /\ ret' = Append(ret, Taken(minibuf', p))
                     /\ Advance /\ UNCHANGED <<mem, written, flipped>>
    /\ UNCHANGED <<config, call, stack, calls>>

(* A file for the design's $readmemh(), which gives a value for the words  *)
(* "loaded"; refused with ECC.                                             *)
LoadVmem(image, loaded) ==
    /\ Idle /\ calls < MaxCalls
    /\ calls' = calls + 1
    /\ call' = [None EXCEPT !.op = "LoadVmem"]
    /\ nth' = 0 /\ minibuf' = {} /\ ret' = <<>>
    /\ IF kind = "plain" /\ "scope_" \in found
       THEN /\ outcome' = "returned"
            /\ mem' = [w \in MemWords |-> IF w \in loaded THEN image ELSE mem[w]]
            /\ written' = [w \in MemWords |->
                              IF w \in loaded
                              THEN [bits |-> image, bytes |-> width_byte_,
                                    good |-> [k \in 1 .. Width32 |-> TRUE]]
                              ELSE written[w]]
            /\ flipped' = [w \in MemWords |-> IF w \in loaded THEN {} ELSE flipped[w]]
       ELSE /\ outcome' = "threw"
            /\ UNCHANGED <<mem, written, flipped>>
    /\ UNCHANGED <<config, stack, settled>>

(* External: bits of a word of the design's memory change. What the last   *)
(* call returned is forgotten.                                             *)
Fault(w, flips) ==
    /\ Idle /\ calls < MaxCalls /\ flips \subseteq Ones(MemWidth)
    /\ written # [v \in MemWords |-> None] /\ flipped = [v \in MemWords |-> {}]
    /\ calls' = calls + 1
    /\ mem' = [mem EXCEPT ![w] = Xor(@, flips)]
    /\ flipped' = [flipped EXCEPT ![w] = flips]
    /\ call' = None /\ nth' = 0 /\ minibuf' = {} /\ ret' = <<>>
    /\ UNCHANGED <<config, outcome, stack, settled, written>>

Init ==
    /\ kind \in Kinds
    /\ repeat_keystream_ \in (IF kind = "scrambled" THEN BOOLEAN ELSE {TRUE})
    /\ found \in {{"scope_", "scr_scope_"}, {"scr_scope_"}, {}}
    /\ mem = [w \in MemWords |-> {}]
    /\ call = None /\ nth = 0 /\ minibuf = {} /\ ret = <<>> /\ outcome = "returned"
    /\ stack \in (IF kind = "scrambled" THEN [key : Keys, nonce : Nonces]
                  ELSE [key : {{}}, nonce : {{}}])
    /\ settled = TRUE /\ calls = 0
    /\ written = [w \in MemWords |-> None]
    /\ flipped = [w \in MemWords |-> {}]

Next ==
    \/ \E off \in 0 .. NumWords : \E d \in Data : Write(off, d)
    \/ \E off \in 0 .. NumWords : \E d \in EccData : WriteWithIntegrity(off, d)
    \/ \E off \in 0 .. NumWords : \E n \in 0 .. NumWords : Read(off, n)
    \/ \E off \in 0 .. NumWords : \E n \in 0 .. NumWords : ReadWithIntegrity(off, n)
    \/ \E d \in Data : \E loaded \in SUBSET MemWords :
           LoadVmem(Field(d.bits, 0, 32 * Width32), loaded)
    \/ WriteWord
    \/ ReadWord
    \/ \E w \in MemWords : \E flips \in Flips : Fault(w, flips)

Spec == Init /\ [][Next]_vars
---------------------------------------------------------------------------
(* The bits of word w that flipped since it was written, if all reads of   *)
(* the key and the nonce saw the same.                                     *)
Damage(w) ==
    LET phys == ToPhysAddr(w, stack.nonce)
    IN  IF phys < NumWords THEN flipped[phys] ELSE {}

(* What Read() returns is what Write(), WriteWithIntegrity() or LoadVmem() *)
(* last put there, byte for byte, whatever was written around it in other  *)
(* calls, whatever calls failed, and wherever the address permutation puts *)
(* it.  Where the data of Write() ended inside the word, the rest of it is *)
(* zero in a plain area; in one with ECC, scrambled or not, it is whatever *)
(* lay behind the vector, which Ecc32MemArea::WriteBuffer() reads, where   *)
(* mem_area.h:51-53 promises zeros for every area.  All of this as long as *)
(* the key and the nonce of a scrambled area are read as the same values.  *)
ReadBack ==
    (call.op = "Read" /\ settled) =>
        \A k \in DOMAIN ret :
            LET w == call.off + k - 1
            IN  (written[w] # None /\ Damage(w) = {}) =>
                    /\ ret[k] = written[w].bits
                    /\ kind = "plain" => ret[k] \subseteq Ones(8 * written[w].bytes)

(* ReadWithIntegrity() calls a lane good exactly if it was written as good *)
(* and nothing happened to it; up to three flipped bits in a lane, data or *)
(* check bits, never go unnoticed, and those of a neighbour do no harm.    *)
IntegrityHonest ==
    (call.op = "ReadWithIntegrity" /\ settled) =>
        \A k \in DOMAIN ret : \A lane \in 1 .. Width32 :
            LET w     == call.off + k - 1
                wrong == Field(Damage(w), 39 * (lane - 1), 39)
            IN  written[w] # None =>
                    /\ wrong = {} =>
                        /\ ret[k][lane].good = written[w].good[lane]
                        /\ ret[k][lane].word = Field(written[w].bits, 32 * (lane - 1), 32)
                    /\ (wrong # {} /\ Cardinality(wrong) <= 3 /\ written[w].good[lane])
                          => ~ret[k][lane].good
---------------------------------------------------------------------------
(* The codes and ciphers by themselves, beyond the widths and parameters   *)
(* that the memory above uses.                                             *)
Codes == <<secded_22_16, secded_28_22, secded_39_32, secded_64_57, secded_72_64>>

DetectedBy ==
    {<<c, d, Detects(Codes[c], Field(d.bits, 0, Codes[c].data))>> : c \in DOMAIN Codes, d \in Data}

(* Whatever is written, up to three flipped bits of its code word would be *)
(* detected with every code and both encoders of secded_enc.c.             *)
CodesDetect ==
    call.op = "Write" => \A c \in DOMAIN Codes : <<c, call.data, TRUE>> \in DetectedBy

(* The test vectors that were published with PRINCE: plaintext, k0, k1 and *)
(* ciphertext, with five half rounds and the old key schedule.             *)
Vectors ==
    {<<{}, {}, {}, Hex(<<\h8186, \h65aa, \h0d02, \hdfda>>)>>,
     <<Ones(64), {}, {}, Hex(<<\h604a, \he6ca, \h03c2, \h0ada>>)>>,
     <<{}, Ones(64), {}, Hex(<<\h9fb5, \h1935, \hfc3d, \hf524>>)>>,
     <<{}, {}, Ones(64), Hex(<<\h78a5, \h4cbe, \h737b, \hb7ef>>)>>,
     <<Hex(<<\h0123, \h4567, \h89ab, \hcdef>>), {}, Hex(<<\hfedc, \hba98, \h7654, \h3210>>),
       Hex(<<\hae25, \had3c, \ha8fa, \h9ccf>>)>>}

VectorsMet ==
    {prince_enc_dec_uint64(v[1], v[2], v[3], FALSE, 5, TRUE) = v[4] : v \in Vectors}

Inverts(k, block) ==
    \A rounds \in 0 .. 5 : \A old \in BOOLEAN :
        prince_decrypt(prince_encrypt(block, k, rounds, old), k, rounds, old) = block

InvertedBy == {<<k, n, Inverts(k, Field(n, 0, 64))>> : k \in Keys, n \in Nonces}

(* PRINCE: decryption undoes encryption for every number of half rounds    *)
(* and both key schedules, the published vectors are met, and the table of *)
(* prince_m_prime_layer() is the one its generator computes.               *)
PrinceCorrect ==
    kind = "scrambled" =>
        /\ <<stack.key, stack.nonce, TRUE>> \in InvertedBy
        /\ VectorsMet = {TRUE}
        /\ M16 = prince_m16_matrices

Permuted ==
    {{scramble_addr(a, w, Shl(n, 64 - w), 64) : a \in SUBSET Ones(w)} = SUBSET Ones(w) :
        w \in 1 .. 5, n \in SUBSET Ones(5)}

Recovers(k, n) ==
    \A width \in {33, 39, 78} : \A chunk \in {39, 12, 10} :
    \A repeat \in BOOLEAN : \A use_sp_layer \in BOOLEAN : \A data \in {Ones(width), {0}} :
        LET enc == scramble_encrypt_data(data, width, chunk, {0, 2}, 3, n, k,
                                         repeat, use_sp_layer)
        IN  Returns(width, chunk, use_sp_layer) =>
            /\ enc \subseteq Ones(width)
            /\ scramble_decrypt_data(enc, width, chunk, {0, 2}, 3, n, k,
                                     repeat, use_sp_layer) = data

RecoveredBy == {<<k, n, Recovers(k, n)>> : k \in Keys, n \in Nonces}

(* Scrambling loses nothing.  For every nonce no two words of a memory of  *)
(* up to 32 words share a place, whether or not the width of the address   *)
(* is a multiple of the substitution box or even.  Decryption of data      *)
(* undoes its encryption with and without the layer of substitutions and   *)
(* permutations, also where neither the width nor the last chunk is a      *)
(* multiple of four, and no bit leaves the width - wherever the two        *)
(* return.  With the layer they abort if the last chunk takes fewer bytes  *)
(* than the others, although a comment (scramble_model.cc:273-274) has     *)
(* "the final block is smaller"; the chunks of a memory area never do.     *)
ScramblingInvertible ==
    kind = "scrambled" =>
        /\ Permuted = {TRUE}
        /\ ChunksFit(GetPhysWidth, 39)
        /\ {x \in {33, 39, 78} \X {39, 12, 10} : ~ChunksFit(x[1], x[2])}
              = {<<33, 10>>, <<78, 10>>, <<39, 12>>, <<78, 12>>}
        /\ <<stack.key, stack.nonce, TRUE>> \in RecoveredBy
===========================================================================
