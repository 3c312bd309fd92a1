-------------------------- MODULE MemAreasProofs --------------------------
(***************************************************************************)
(* What was written to a memory area can be read back, for every number of *)
(* words, every width and every data, key and nonce, while these two stay  *)
(* the same: through the bytes of a word, the code words of its lanes, the *)
(* keystream and the places that the scrambled addresses lead to.  Damage  *)
(* is seen, the codes detect up to three wrong bits, and the scrambling    *)
(* can be undone.                                                          *)
(***************************************************************************)
EXTENDS MemAreas, FiniteSetTheorems, NaturalsInduction, WellFoundedInduction, TLAPS

(* What most proofs need to know of the sizes: they are positive, and the   *)
(* widest word has 312 bits.  AddrWidth needs the bound of NumWords, too.   *)
LEMMA Sizes ==
  /\ NumWords \in Nat \ {0} /\ Width32 \in Nat \ {0} /\ 39 * Width32 <= 312
  /\ MaxCalls \in Nat
BY MemAreasAssumption

(* A nonempty set of natural numbers has a least element.                   *)
LEMMA LeastElement ==
  ASSUME NEW S \in SUBSET Nat, S # {}
  PROVE  \E n \in S : \A m \in S : n <= m
<1> DEFINE R == OpToRel(<, Nat)
<1>1. PICK n \in S : \A m \in S : <<m, n>> \notin R
  BY NatLessThanWellFounded, WFMin
<1>2. \A m \in S : m < n => <<m, n>> \in R
  BY DEF OpToRel
<1> HIDE DEF R
<1>3. \A m \in S : ~(m < n)
  BY <1>1, <1>2
<1> QED
  BY <1>3

(* Induction, for a set of natural numbers.                                 *)
LEMMA SetInduction ==
  ASSUME NEW S \in SUBSET Nat, 0 \in S, \A n \in S : n + 1 \in S
  PROVE  \A n \in Nat : n \in S
<1> SUFFICES ASSUME Nat \ S # {} PROVE FALSE
  OBVIOUS
<1>1. PICK n \in Nat \ S : \A m \in Nat \ S : n <= m
  BY LeastElement
<1>2. n - 1 \in Nat /\ n - 1 \notin Nat \ S
  BY <1>1
<1>3. n - 1 + 1 = n
  BY <1>1
<1> QED
  BY <1>1, <1>2, <1>3

-----------------------------------------------------------------------------
(* Words as sets of bits: what is in a field, a shifted word, a difference. *)
LEMMA InField ==
  ASSUME NEW v, NEW lo \in Int, NEW width \in Int, NEW p
  PROVE  p \in Field(v, lo, width) <=> p \in 0..(width - 1) /\ p + lo \in v
<1>1. p \in Field(v, lo, width) <=> \E q \in v \cap (lo .. lo + width - 1) : p = q - lo
  BY DEF Field
<1>2. ASSUME NEW q \in v \cap (lo .. lo + width - 1), p = q - lo
      PROVE  p \in 0..(width - 1) /\ p + lo \in v
  <2>1. p + lo = q /\ p \in 0..(width - 1)
    BY <1>2
  <2> QED
    BY <2>1
<1>3. ASSUME p \in 0..(width - 1), p + lo \in v
      PROVE  \E q \in v \cap (lo .. lo + width - 1) : p = q - lo
  <2>1. p + lo \in lo .. lo + width - 1 /\ p = (p + lo) - lo
    BY <1>3
  <2> QED
    BY <1>3, <2>1
<1> QED
  BY <1>1, <1>2, <1>3

(* The bits of a shifted vector.                                            *)
LEMMA InShl ==
  ASSUME NEW v \in SUBSET Int, NEW n \in Int, NEW p
  PROVE  p \in Shl(v, n) <=> p \in Int /\ p - n \in v
<1>1. p \in Shl(v, n) <=> \E q \in v : p = q + n
  BY DEF Shl
<1>2. ASSUME NEW q \in v, p = q + n
      PROVE  p \in Int /\ p - n \in v
  <2>1. p \in Int /\ p - n = q
    BY <1>2
  <2> QED
    BY <2>1
<1>3. ASSUME p \in Int, p - n \in v
      PROVE  \E q \in v : p = q + n
  <2>1. p = (p - n) + n
    BY <1>3
  <2> QED
    BY <1>3, <2>1
<1> QED
  BY <1>1, <1>2, <1>3

(* A bit of an exclusive or.                                                *)
LEMMA InXor ==
  ASSUME NEW a, NEW b, NEW p
  PROVE  p \in Xor(a, b) <=> ((p \in a) # (p \in b))
BY DEF Xor

(* The same vector, exclusively or-ed twice, is gone.                       *)
LEMMA XorTwice ==
  ASSUME NEW a, NEW b
  PROVE  Xor(Xor(a, b), b) = a
BY DEF Xor

(* No bits change nothing.                                                  *)
LEMMA XorEmpty ==
  ASSUME NEW a
  PROVE  Xor(a, {}) = a
BY DEF Xor

(* A field of an exclusive or.                                              *)
LEMMA FieldOfXor ==
  ASSUME NEW a, NEW b, NEW lo \in Int, NEW width \in Int
  PROVE  Field(Xor(a, b), lo, width) = Xor(Field(a, lo, width), Field(b, lo, width))
<1>1. \A p : p \in Field(Xor(a, b), lo, width) <=> p \in Xor(Field(a, lo, width), Field(b, lo, width))
  <2> TAKE p
  <2>1. p \in Field(Xor(a, b), lo, width) <=> p \in 0..(width - 1) /\ p + lo \in Xor(a, b)
    BY InField
  <2>2. p \in Field(a, lo, width) <=> p \in 0..(width - 1) /\ p + lo \in a
    BY InField
  <2>3. p \in Field(b, lo, width) <=> p \in 0..(width - 1) /\ p + lo \in b
    BY InField
  <2> QED
    BY <2>1, <2>2, <2>3, InXor
<1> QED
  BY <1>1

(* A field of a field. *)
LEMMA FieldOfField ==
  ASSUME NEW v, NEW lo \in Int, NEW width \in Int, NEW at \in Nat, NEW len \in Int,
         at + len <= width
  PROVE  Field(Field(v, lo, width), at, len) = Field(v, lo + at, len)
<1>1. \A p : p \in Field(Field(v, lo, width), at, len) <=> p \in Field(v, lo + at, len)
  <2> TAKE p
  <2>1. p \in Field(Field(v, lo, width), at, len) <=> p \in 0..(len - 1) /\ p + at \in Field(v, lo, width)
    BY InField
  <2>2. p + at \in Field(v, lo, width) <=> p + at \in 0..(width - 1) /\ (p + at) + lo \in v
    BY InField
  <2>3. p \in Field(v, lo + at, len) <=> p \in 0..(len - 1) /\ p + (lo + at) \in v
    BY InField
  <2>4. p \in 0..(len - 1) => p + at \in 0..(width - 1) /\ (p + at) + lo = p + (lo + at)
    OBVIOUS
  <2> QED
    BY <2>1, <2>2, <2>3, <2>4
<1> QED
  BY <1>1

(* A word that has no bits above its width. *)
LEMMA WholeField ==
  ASSUME NEW width \in Int, NEW v \in SUBSET Ones(width)
  PROVE  Field(v, 0, width) = v
<1>1. \A p : p \in Field(v, 0, width) <=> p \in v
  <2> TAKE p
  <2>1. p \in Field(v, 0, width) <=> p \in 0..(width - 1) /\ p + 0 \in v
    BY InField
  <2>2. p \in v => p \in 0..(width - 1)
    BY DEF Ones
  <2> QED
    BY <2>1, <2>2
<1> QED
  BY <1>1

(* A field has no bits above its width.                                     *)
LEMMA FieldIsOnes ==
  ASSUME NEW v, NEW lo \in Int, NEW width \in Int
  PROVE  Field(v, lo, width) \subseteq Ones(width)
BY InField DEF Ones

-----------------------------------------------------------------------------
(* Packing: the loops of Ecc32MemArea as the recursions that they are.      *)
LEMMA MinOfTwo ==
  ASSUME NEW a \in Int, NEW b \in Int
  PROVE  Min({a, b}) = IF a <= b THEN a ELSE b
<1> DEFINE m == IF a <= b THEN a ELSE b
<1>1. m \in {a, b} /\ \A y \in {a, b} : m <= y
  OBVIOUS
<1>2. Min({a, b}) \in {a, b} /\ \A y \in {a, b} : Min({a, b}) <= y
  BY <1>1 DEF Min
<1> QED
  BY <1>1, <1>2

(* The part of at most eight bits that fits into the byte at idx, and the   *)
(* rest at the start of the next byte: together they are not torn apart.    *)
LEMMA Split ==
  ASSUME NEW idx \in Nat, NEW count \in 0..8
  PROVE  LET take == Min({8 - (idx % 8), count})
         IN  /\ take \in 0..count
             /\ take < count => 8 * (idx \div 8 + 1) = idx + take
<1> DEFINE r == idx % 8
           d == idx \div 8
           take == Min({8 - (idx % 8), count})
<1>1. r \in 0..7 /\ d \in Nat /\ idx = 8 * d + r
  OBVIOUS
<1>2. take = IF 8 - r <= count THEN 8 - r ELSE count
  <2>1. 8 - r \in Int
    BY <1>1
  <2> HIDE DEF r
  <2>2. Min({8 - r, count}) = IF 8 - r <= count THEN 8 - r ELSE count
    BY <2>1, MinOfTwo
  <2> QED
    BY <2>2 DEF r
<1> HIDE DEF r, d, take
<1>3. take \in 0..count /\ (take < count => 8 * (d + 1) = idx + take)
  BY <1>1, <1>2
<1> QED
  BY <1>3 DEF d, take

(* insert_bits() ors the bits in at their place, over two bytes if need be. *)
LEMMA InsertBits ==
  ASSUME NEW buf, NEW idx \in Nat, NEW count \in 0..8, NEW bits \in SUBSET Ones(count)
  PROVE  insert_bits(buf, idx, bits, count) = buf \cup Shl(bits, idx)
<1> DEFINE take == Min({8 - (idx % 8), count})
           next == 8 * (idx \div 8 + 1)
           low  == Field(bits, 0, take)
           high == Field(bits, take, count - take)
<1>1. take \in 0..count /\ (take < count => next = idx + take)
  BY Split
<1>2. next \in Int
  OBVIOUS
<1>3. insert_bits(buf, idx, bits, count) = buf \cup Shl(low, idx) \cup Shl(high, next)
  BY DEF insert_bits
<1>4. bits \in SUBSET Int /\ \A q \in bits : q \in 0..(count - 1)
  BY DEF Ones
<1> HIDE DEF take, next
<1>5. low \in SUBSET Int /\ high \in SUBSET Int
  <2>1. low \subseteq Ones(take) /\ high \subseteq Ones(count - take)
    BY <1>1, FieldIsOnes
  <2> QED
    BY <2>1, <1>1 DEF Ones
<1>6. \A p : p \in Shl(low, idx) \cup Shl(high, next) <=> p \in Shl(bits, idx)
  <2> TAKE p
  <2>1. p \in Shl(low, idx) <=> p \in Int /\ p - idx \in 0..(take - 1) /\ (p - idx) + 0 \in bits
    <3>1. p \in Shl(low, idx) <=> p \in Int /\ p - idx \in low
      <4> HIDE DEF low
      <4> QED
        BY <1>5, InShl
    <3>2. p - idx \in low <=> p - idx \in 0..(take - 1) /\ (p - idx) + 0 \in bits
      BY <1>1, InField
    <3> QED
      BY <3>1, <3>2
  <2>2. p \in Shl(high, next) <=>
          p \in Int /\ p - next \in 0..(count - take - 1) /\ (p - next) + take \in bits
    <3>1. p \in Shl(high, next) <=> p \in Int /\ p - next \in high
      <4> HIDE DEF high
      <4> QED
        BY <1>2, <1>5, InShl
    <3>2. p - next \in high <=> p - next \in 0..((count - take) - 1) /\ (p - next) + take \in bits
      BY <1>1, InField
    <3>3. (count - take) - 1 = count - take - 1
      BY <1>1
    <3> QED
      BY <3>1, <3>2, <3>3
  <2>3. p \in Shl(bits, idx) <=> p \in Int /\ p - idx \in bits
    BY <1>4, InShl
  <2> HIDE DEF low, high
  <2>4. CASE p \notin Int
    BY <2>1, <2>2, <2>3, <2>4
  <2>5. CASE p \in Int
    <3>1. (p - idx) + 0 = p - idx
      BY <2>5
    <3>2. CASE take < count
      <4>1. (p - next) + take = p - idx
        BY <1>1, <2>5, <3>2
      <4>2. p - next \in 0..(count - take - 1) <=> p - idx \in take..(count - 1)
        BY <1>1, <2>5, <3>2
      <4>3. p - idx \in bits => p - idx \in 0..(take - 1) \/ p - idx \in take..(count - 1)
        BY <1>1, <1>4, <2>5
      <4> QED
        BY <2>1, <2>2, <2>3, <2>5, <3>1, <4>1, <4>2, <4>3
    <3>3. CASE take = count
      <4>1. p - next \notin 0..(count - take - 1)
        BY <1>1, <1>2, <2>5, <3>3
      <4>2. p - idx \in bits => p - idx \in 0..(take - 1)
        BY <1>4, <3>3
      <4> QED
        BY <2>1, <2>2, <2>3, <2>5, <3>1, <4>1, <4>2
    <3> QED
      BY <1>1, <3>2, <3>3
  <2> QED
    BY <2>4, <2>5
<1> HIDE DEF low, high
<1> QED
  BY <1>3, <1>6

(* extract_bits() reads them from there.                                    *)
LEMMA ExtractBits ==
  ASSUME NEW buf, NEW idx \in Nat, NEW count \in 0..8
  PROVE  extract_bits(buf, idx, count) = Field(buf, idx, count)
<1> DEFINE take == Min({8 - (idx % 8), count})
           next == 8 * (idx \div 8 + 1)
           low  == Field(buf, idx, take)
           high == Field(buf, next, count - take)
<1>1. take \in 0..count /\ (take < count => next = idx + take)
  BY Split
<1>2. next \in Int
  OBVIOUS
<1>3. extract_bits(buf, idx, count) = low \cup Shl(high, take)
  BY DEF extract_bits
<1> HIDE DEF take, next
<1>4. high \in SUBSET Int
  <2>1. high \subseteq Ones(count - take)
    BY <1>1, <1>2, FieldIsOnes
  <2> QED
    BY <2>1, <1>1 DEF Ones
<1>5. \A p : p \in low \cup Shl(high, take) <=> p \in Field(buf, idx, count)
  <2> TAKE p
  <2>1. p \in low <=> p \in 0..(take - 1) /\ p + idx \in buf
    BY <1>1, InField
  <2>2. p \in Shl(high, take) <=>
          p \in Int /\ p - take \in 0..((count - take) - 1) /\ (p - take) + next \in buf
    <3>1. p \in Shl(high, take) <=> p \in Int /\ p - take \in high
      <4> HIDE DEF high
      <4> QED
        BY <1>1, <1>4, InShl
    <3>2. p - take \in high <=> p - take \in 0..((count - take) - 1) /\ (p - take) + next \in buf
      BY <1>1, <1>2, InField
    <3> QED
      BY <3>1, <3>2
  <2>3. p \in Field(buf, idx, count) <=> p \in 0..(count - 1) /\ p + idx \in buf
    BY InField
  <2> HIDE DEF low, high
  <2>4. CASE p \notin Int
    BY <2>1, <2>2, <2>3, <2>4
  <2>5. CASE p \in Int
    <3>1. p \in 0..(count - 1) <=> p \in 0..(take - 1) \/ p - take \in 0..((count - take) - 1)
      BY <1>1, <2>5
    <3>2. p - take \in 0..((count - take) - 1) => (p - take) + next = p + idx
      BY <1>1, <1>2, <2>5
    <3> QED
      BY <2>1, <2>2, <2>3, <2>5, <3>1, <3>2
  <2> QED
    BY <2>4, <2>5
<1> HIDE DEF low, high
<1> QED
  BY <1>3, <1>5

(* extract_word() puts four such bytes together.                            *)
LEMMA ExtractWord ==
  ASSUME NEW buf, NEW idx \in Nat
  PROVE  extract_word(buf, idx) = Field(buf, idx, 32)
<1> DEFINE part(j) == Field(buf, idx + 8 * j, 8)
<1>1. \A j \in 0..3 : extract_bits(buf, idx + 8 * j, 8) = part(j)
  BY ExtractBits
<1>2. extract_word(buf, idx) = UNION {Shl(part(j), 8 * j) : j \in 0 .. 3}
  BY <1>1 DEF extract_word
<1>3. \A p : (\E j \in 0..3 : p \in Shl(part(j), 8 * j)) <=> p \in Field(buf, idx, 32)
  <2> TAKE p
  <2>1. \A j \in 0..3 : p \in Shl(part(j), 8 * j) <=>
                          p \in Int /\ p - 8 * j \in 0..7 /\ (p - 8 * j) + (idx + 8 * j) \in buf
    <3> TAKE j \in 0..3
    <3>1. part(j) \in SUBSET Int
      <4>1. part(j) \subseteq Ones(8)
        BY FieldIsOnes
      <4> QED
        BY <4>1 DEF Ones
    <3>2. p - 8 * j \in part(j) <=> p - 8 * j \in 0..(8 - 1) /\ (p - 8 * j) + (idx + 8 * j) \in buf
      BY InField
    <3> HIDE DEF part
    <3>3. p \in Shl(part(j), 8 * j) <=> p \in Int /\ p - 8 * j \in part(j)
      BY <3>1, InShl
    <3> QED
      BY <3>2, <3>3
  <2>2. p \in Field(buf, idx, 32) <=> p \in 0..(32 - 1) /\ p + idx \in buf
    BY InField
  <2> HIDE DEF part
  <2>3. CASE p \notin Int
    BY <2>1, <2>2, <2>3
  <2>4. CASE p \in Int
    <3>1. \A j \in 0..3 : (p - 8 * j) + (idx + 8 * j) = p + idx
      BY <2>4
    <3>2. p \in 0..31 <=> \E j \in 0..3 : p - 8 * j \in 0..7
      BY <2>4
    <3> QED
      BY <2>1, <2>2, <2>4, <3>1, <3>2
  <2> QED
    BY <2>3, <2>4
<1> HIDE DEF part
<1> QED
  BY <1>2, <1>3

(* One round of insert_word()'s loop inserts one byte.                      *)
LEMMA ByteLoopRounds ==
  ASSUME NEW buf, NEW bit_idx, NEW word
  PROVE  LET loop == ByteLoop(buf, bit_idx, word) IN
         /\ loop[0] = buf
         /\ \A n \in 1..4 : loop[n] = insert_bits(loop[n - 1], bit_idx + 8 * (n - 1), Field(word, 8 * (n - 1), 8), 8)
<1> DEFINE first == buf
           Is(g, k) == g = [n \in 0..k |-> IF n = 0 THEN first ELSE insert_bits(g[n - 1], bit_idx + 8 * (n - 1), Field(word, 8 * (n - 1), 8), 8)]
           S == {k \in Nat : \E g : Is(g, k)}
<1>1. 0 \in S
  <2> DEFINE g == [n \in 0..0 |-> first]
  <2>1. Is(g, 0)
    OBVIOUS
  <2> QED
    BY <2>1
<1>2. ASSUME NEW k \in S
      PROVE  k + 1 \in S
  <2>1. PICK g : Is(g, k)
    OBVIOUS
  <2> DEFINE h == [n \in 0..(k + 1) |-> IF n = k + 1 THEN insert_bits(g[k], bit_idx + 8 * (k + 1 - 1), Field(word, 8 * (k + 1 - 1), 8), 8) ELSE g[n]]
  <2>2. \A n \in 0..k : h[n] = g[n]
    OBVIOUS
  <2>3. \A n \in 0..(k + 1) : h[n] = IF n = 0 THEN first ELSE insert_bits(h[n - 1], bit_idx + 8 * (n - 1), Field(word, 8 * (n - 1), 8), 8)
    <3> TAKE n \in 0..(k + 1)
    <3>1. CASE n = k + 1
      BY <2>2, <3>1
    <3>2. CASE n # k + 1 /\ n # 0
      <4>1. n \in 0..k /\ n - 1 \in 0..k
        BY <3>2
      <4> QED
        BY <2>1, <2>2, <3>2, <4>1
    <3>3. CASE n = 0
      BY <2>1, <2>2, <3>3
    <3> QED
      BY <3>1, <3>2, <3>3
  <2>4. Is(h, k + 1)
    BY <2>3
  <2> HIDE DEF h
  <2> QED
    BY <2>4
<1>3. \A k \in Nat : \E g : Is(g, k)
  <2> HIDE DEF Is
  <2>1. \A k \in Nat : k \in S
    BY <1>1, <1>2, SetInduction
  <2> QED
    BY <2>1
<1> DEFINE N == 4
<1>4. N \in Nat
  OBVIOUS
<1>5. ByteLoop(buf, bit_idx, word) = CHOOSE g : Is(g, N)
  BY Zenon DEF ByteLoop
<1>6. Is(ByteLoop(buf, bit_idx, word), N)
  <2> HIDE DEF Is, N
  <2> QED
    BY <1>3, <1>4, <1>5
<1> DEFINE loop == ByteLoop(buf, bit_idx, word)
<1> HIDE DEF N, first, loop
<1>7. \A n \in 0..N : loop[n] = IF n = 0 THEN first ELSE insert_bits(loop[n - 1], bit_idx + 8 * (n - 1), Field(word, 8 * (n - 1), 8), 8)
  BY <1>4, <1>6 DEF loop
<1>8. loop[0] = first /\ \A n \in 1..N : loop[n] = insert_bits(loop[n - 1], bit_idx + 8 * (n - 1), Field(word, 8 * (n - 1), 8), 8)
  BY <1>4, <1>7
<1> QED
  BY <1>8 DEF N, loop, first

(* One round of WriteBuffer()'s loop inserts one lane.                      *)
LEMMA LaneLoopRounds ==
  ASSUME NEW buf, NEW lanes
  PROVE  LET loop == LaneLoop(buf, lanes) IN
         /\ loop[0] = zero_buffer(buf)
         /\ \A n \in 1..Width32 : loop[n] = insert_word(loop[n - 1], 39 * (n - 1), lanes[n].word, CheckBits(lanes[n]))
<1> DEFINE first == zero_buffer(buf)
           Is(g, k) == g = [n \in 0..k |-> IF n = 0 THEN first ELSE insert_word(g[n - 1], 39 * (n - 1), lanes[n].word, CheckBits(lanes[n]))]
           S == {k \in Nat : \E g : Is(g, k)}
<1>1. 0 \in S
  <2> DEFINE g == [n \in 0..0 |-> first]
  <2>1. Is(g, 0)
    OBVIOUS
  <2> QED
    BY <2>1
<1>2. ASSUME NEW k \in S
      PROVE  k + 1 \in S
  <2>1. PICK g : Is(g, k)
    OBVIOUS
  <2> DEFINE h == [n \in 0..(k + 1) |-> IF n = k + 1 THEN insert_word(g[k], 39 * (k + 1 - 1), lanes[k + 1].word, CheckBits(lanes[k + 1])) ELSE g[n]]
  <2>2. \A n \in 0..k : h[n] = g[n]
    OBVIOUS
  <2>3. \A n \in 0..(k + 1) : h[n] = IF n = 0 THEN first ELSE insert_word(h[n - 1], 39 * (n - 1), lanes[n].word, CheckBits(lanes[n]))
    <3> TAKE n \in 0..(k + 1)
    <3>1. CASE n = k + 1
      BY <2>2, <3>1
    <3>2. CASE n # k + 1 /\ n # 0
      <4>1. n \in 0..k /\ n - 1 \in 0..k
        BY <3>2
      <4> QED
        BY <2>1, <2>2, <3>2, <4>1
    <3>3. CASE n = 0
      BY <2>1, <2>2, <3>3
    <3> QED
      BY <3>1, <3>2, <3>3
  <2>4. Is(h, k + 1)
    BY <2>3
  <2> HIDE DEF h
  <2> QED
    BY <2>4
<1>3. \A k \in Nat : \E g : Is(g, k)
  <2> HIDE DEF Is
  <2>1. \A k \in Nat : k \in S
    BY <1>1, <1>2, SetInduction
  <2> QED
    BY <2>1
<1> DEFINE N == Width32
<1>4. N \in Nat
  BY Sizes
<1>5. LaneLoop(buf, lanes) = CHOOSE g : Is(g, N)
  BY Zenon DEF LaneLoop
<1>6. Is(LaneLoop(buf, lanes), N)
  <2> HIDE DEF Is, N
  <2> QED
    BY <1>3, <1>4, <1>5
<1> DEFINE loop == LaneLoop(buf, lanes)
<1> HIDE DEF N, first, loop
<1>7. \A n \in 0..N : loop[n] = IF n = 0 THEN first ELSE insert_word(loop[n - 1], 39 * (n - 1), lanes[n].word, CheckBits(lanes[n]))
  BY <1>4, <1>6 DEF loop
<1>8. loop[0] = first /\ \A n \in 1..N : loop[n] = insert_word(loop[n - 1], 39 * (n - 1), lanes[n].word, CheckBits(lanes[n]))
  BY <1>4, <1>7
<1> QED
  BY <1>8 DEF N, loop, first

(* A byte after the other, then the check bits: the word with its check     *)
(* bits above it.                                                           *)
LEMMA InsertWord ==
  ASSUME NEW buf, NEW idx \in Nat, NEW word \in SUBSET Ones(32), NEW check \in SUBSET Ones(7)
  PROVE  insert_word(buf, idx, word, check)
           = buf \cup Shl(word, idx) \cup Shl(check, idx + 32)
<1> DEFINE loop == ByteLoop(buf, idx, word)
           part(j) == Field(word, 8 * j, 8)
<1>1. loop[0] = buf /\ \A n \in 1..4 : loop[n] = insert_bits(loop[n - 1], idx + 8 * (n - 1), part(n - 1), 8)
  BY ByteLoopRounds
<1>2. \A n \in 1..4 : part(n - 1) \in SUBSET Ones(8)
  BY FieldIsOnes
<1>3. insert_word(buf, idx, word, check) = insert_bits(loop[4], idx + 32, check, 7)
  BY DEF insert_word
<1> HIDE DEF loop, part
<1>4. \A n \in 1..4 : loop[n] = loop[n - 1] \cup Shl(part(n - 1), idx + 8 * (n - 1))
  <2> TAKE n \in 1..4
  <2> DEFINE at == idx + 8 * (n - 1)
             bits == part(n - 1)
             old == loop[n - 1]
  <2>1. at \in Nat /\ bits \in SUBSET Ones(8) /\ loop[n] = insert_bits(old, at, bits, 8)
    BY <1>1, <1>2
  <2> HIDE DEF at, bits, old
  <2>2. 8 \in 0..8
    OBVIOUS
  <2>3. insert_bits(old, at, bits, 8) = old \cup Shl(bits, at)
    BY <2>1, <2>2, InsertBits, ZenonT(30)
  <2> QED
    BY <2>1, <2>3 DEF at, bits, old
<1>5. insert_bits(loop[4], idx + 32, check, 7) = loop[4] \cup Shl(check, idx + 32)
  <2>1. 7 \in 0..8 /\ idx + 32 \in Nat
    OBVIOUS
  <2> QED
    BY <2>1, InsertBits
<1>6. loop[4] = buf \cup Shl(part(0), idx) \cup Shl(part(1), idx + 8) \cup Shl(part(2), idx + 16) \cup Shl(part(3), idx + 24)
  <2>1. loop[1] = loop[0] \cup Shl(part(0), idx)
    <3>1. loop[1] = loop[1 - 1] \cup Shl(part(1 - 1), idx + 8 * (1 - 1))
      BY <1>4
    <3>2. idx + 8 * (1 - 1) = idx
      OBVIOUS
    <3> QED
      BY <3>1, <3>2
  <2>2. loop[2] = loop[1] \cup Shl(part(1), idx + 8)
    <3>1. loop[2] = loop[2 - 1] \cup Shl(part(2 - 1), idx + 8 * (2 - 1))
      BY <1>4
    <3> QED
      BY <3>1
  <2>3. loop[3] = loop[2] \cup Shl(part(2), idx + 16)
    <3>1. loop[3] = loop[3 - 1] \cup Shl(part(3 - 1), idx + 8 * (3 - 1))
      BY <1>4
    <3> QED
      BY <3>1
  <2>4. loop[4] = loop[3] \cup Shl(part(3), idx + 24)
    <3>1. loop[4] = loop[4 - 1] \cup Shl(part(4 - 1), idx + 8 * (4 - 1))
      BY <1>4
    <3> QED
      BY <3>1
  <2> QED
    BY <1>1, <2>1, <2>2, <2>3, <2>4
<1>7. \A p : \/ p \in Shl(part(0), idx)
             \/ p \in Shl(part(1), idx + 8)
             \/ p \in Shl(part(2), idx + 16)
             \/ p \in Shl(part(3), idx + 24)
             <=> p \in Shl(word, idx)
  <2> TAKE p
  <2>1. word \in SUBSET Int /\ \A q \in word : q \in 0..31
    BY DEF Ones
  <2>2. p \in Shl(word, idx) <=> p \in Int /\ p - idx \in word
    BY <2>1, InShl
  <2>3. ASSUME NEW j \in 0..3
        PROVE  p \in Shl(part(j), idx + 8 * j) <=>
                 p \in Int /\ p - idx - 8 * j \in 0..7 /\ p - idx \in word
    <3> DEFINE q == p - (idx + 8 * j)
    <3>1. part(j) \in SUBSET Int
      <4>1. part(j) \in SUBSET Ones(8)
        BY FieldIsOnes DEF part
      <4> QED
        BY <4>1 DEF Ones
    <3>2. p \in Shl(part(j), idx + 8 * j) <=> p \in Int /\ q \in part(j)
      BY <3>1, InShl
    <3>3. q \in part(j) <=> q \in 0..(8 - 1) /\ q + 8 * j \in word
      BY InField DEF part
    <3> HIDE DEF q
    <3>4. p \in Int => q + 8 * j = p - idx /\ q = p - idx - 8 * j
      BY DEF q
    <3> QED
      BY <3>2, <3>3, <3>4
  <2>4. p \in Shl(part(0), idx) <=> p \in Int /\ p - idx \in 0..7 /\ p - idx \in word
    <3>1. p \in Shl(part(0), idx + 8 * 0) <=> p \in Int /\ p - idx - 8 * 0 \in 0..7 /\ p - idx \in word
      BY <2>3
    <3> QED
      BY <3>1
  <2>5. p \in Shl(part(1), idx + 8) <=> p \in Int /\ p - idx - 8 \in 0..7 /\ p - idx \in word
    <3>1. p \in Shl(part(1), idx + 8 * 1) <=> p \in Int /\ p - idx - 8 * 1 \in 0..7 /\ p - idx \in word
      BY <2>3
    <3> QED
      BY <3>1
  <2>6. p \in Shl(part(2), idx + 16) <=> p \in Int /\ p - idx - 16 \in 0..7 /\ p - idx \in word
    <3>1. p \in Shl(part(2), idx + 8 * 2) <=> p \in Int /\ p - idx - 8 * 2 \in 0..7 /\ p - idx \in word
      BY <2>3
    <3> QED
      BY <3>1
  <2>7. p \in Shl(part(3), idx + 24) <=> p \in Int /\ p - idx - 24 \in 0..7 /\ p - idx \in word
    <3>1. p \in Shl(part(3), idx + 8 * 3) <=> p \in Int /\ p - idx - 8 * 3 \in 0..7 /\ p - idx \in word
      BY <2>3
    <3> QED
      BY <3>1
  <2>8. CASE p \notin Int
    BY <2>2, <2>4, <2>5, <2>6, <2>7, <2>8
  <2>9. CASE p \in Int
    <3> DEFINE q == p - idx
    <3>1. q \in word => \/ q \in 0..7 \/ q - 8 \in 0..7 \/ q - 16 \in 0..7 \/ q - 24 \in 0..7
      BY <2>1, <2>9
    <3> QED
      BY <2>2, <2>4, <2>5, <2>6, <2>7, <2>9, <3>1
  <2> QED
    BY <2>8, <2>9
<1> QED
  BY <1>3, <1>5, <1>6, <1>7

-----------------------------------------------------------------------------
(* The 39 bits that a lane becomes: its word, and the check bits above it.  *)
Coded(lane) == lane.word \cup Shl(CheckBits(lane), 32)

(* The code of the lanes has 32 data bits and seven check bits.             *)
LEMMA Secded39 ==
  /\ secded_39_32.data = 32 /\ DOMAIN secded_39_32.masks = 1..7 /\ Len(secded_39_32.masks) = 7
BY DEF secded_39_32

(* enc_secded_inv_39_32() returns seven bits.                               *)
LEMMA CheckOfSeven ==
  ASSUME NEW word
  PROVE  enc_secded_inv(secded_39_32, word) \in SUBSET Ones(7)
<1>1. \A k \in DOMAIN secded_39_32.masks : k - 1 \in 0..(7 - 1)
  BY Secded39
<1> QED
  BY <1>1 DEF enc_secded_inv, Ones

(* So does the choice between them and their complement.                    *)
LEMMA CheckBitsOfSeven ==
  ASSUME NEW lane
  PROVE  CheckBits(lane) \in SUBSET Ones(7)
<1>1. enc_secded_inv(secded_39_32, lane.word) \in SUBSET Ones(7)
  BY CheckOfSeven
<1> QED
  BY <1>1 DEF CheckBits, Xor

(* The low 32 bits of a code word are the data.                             *)
LEMMA InCoded ==
  ASSUME NEW lane, lane.word \in SUBSET Ones(32), NEW p
  PROVE  /\ p \in Coded(lane) <=> p \in Int /\ (p \in lane.word \/ p - 32 \in CheckBits(lane))
         /\ p \in Coded(lane) => p \in 0..38
         /\ p \in 0..31 => (p \in Coded(lane) <=> p \in lane.word)
<1>1. CheckBits(lane) \in SUBSET Ones(7)
  BY CheckBitsOfSeven
<1>2. /\ CheckBits(lane) \in SUBSET Int
      /\ \A q \in CheckBits(lane) : q \in 0..6
      /\ \A q \in lane.word : q \in 0..31
  BY <1>1 DEF Ones
<1>3. p \in Shl(CheckBits(lane), 32) <=> p \in Int /\ p - 32 \in CheckBits(lane)
  BY <1>2, InShl
<1>4. p \in Coded(lane) <=> p \in Int /\ (p \in lane.word \/ p - 32 \in CheckBits(lane))
  BY <1>2, <1>3 DEF Coded
<1>5. p \in Int /\ p - 32 \in CheckBits(lane) => p \in 32..38
  BY <1>2
<1> QED
  BY <1>2, <1>4, <1>5

(* The logical and the physical width of a word, in bits and in bytes.      *)
LEMMA Widths ==
  /\ width_byte_ \div 4 = Width32 /\ GetPhysWidth = 39 * Width32
  /\ 8 * width_byte_ = 32 * Width32
  /\ GetPhysWidthByte \in Nat /\ GetPhysWidth <= 8 * GetPhysWidthByte
  /\ 39 * Width32 <= 8 * ((39 * (width_byte_ \div 4) + 7) \div 8)
<1>1. Width32 \in Nat \ {0}
  BY Sizes
<1>2. width_byte_ \div 4 = Width32 /\ 8 * width_byte_ = 32 * Width32
  BY <1>1 DEF width_byte_
<1>3. GetPhysWidth = 39 * Width32
  BY <1>1, <1>2 DEF GetPhysWidth
<1>4. (39 * Width32 + 7) \div 8 \in Nat /\ 39 * Width32 <= 8 * ((39 * Width32 + 7) \div 8)
  BY <1>1
<1> QED
  BY <1>2, <1>3, <1>4 DEF GetPhysWidthByte

(* The loop over the lanes packs them without gaps, whatever was in the     *)
(* buffer.                                                                  *)
LEMMA LanesPacked ==
  ASSUME NEW buf, NEW lanes, \A k \in 1..Width32 : lanes[k].word \in SUBSET Ones(32),
         NEW n \in 0..Width32, NEW p \in 0..(39 * Width32 - 1)
  PROVE  p \in LaneLoop(buf, lanes)[n] <=> \E k \in 1..n : p - 39 * (k - 1) \in Coded(lanes[k])
<1> DEFINE loop == LaneLoop(buf, lanes)
           P(i) == p \in loop[i] <=> \E k \in 1..i : p - 39 * (k - 1) \in Coded(lanes[k])
           S == {i \in Nat : i <= Width32 => P(i)}
<1>0. Width32 \in Nat
  BY Sizes
<1>1. /\ loop[0] = zero_buffer(buf)
      /\ \A i \in 1..Width32 :
           loop[i] = insert_word(loop[i - 1], 39 * (i - 1), lanes[i].word, CheckBits(lanes[i]))
  BY LaneLoopRounds
<1> HIDE DEF loop
<1>2. 0 \in S
  <2>1. p \notin zero_buffer(buf)
    <3> DEFINE top == 8 * ((39 * (width_byte_ \div 4) + 7) \div 8)
    <3>1. 39 * Width32 <= top /\ top \in Int
      <4>1. Width32 = width_byte_ \div 4
        BY Widths
      <4>2. top \in Int
        BY <1>0, <4>1
      <4> QED
        BY <4>2, Widths
    <3> HIDE DEF top
    <3>2. p \in Ones(top)
      BY <1>0, <3>1 DEF Ones
    <3> QED
      BY <3>2 DEF zero_buffer, top
  <2> QED
    BY <1>1, <2>1
<1>3. ASSUME NEW i \in S PROVE i + 1 \in S
  <2> SUFFICES ASSUME i + 1 <= Width32 PROVE P(i + 1)
    OBVIOUS
  <2> DEFINE j == i + 1
             at == 39 * i
             word == lanes[j].word
             check == CheckBits(lanes[j])
  <2>1. j \in 1..Width32 /\ j - 1 = i /\ at \in Nat /\ i \in Nat
    BY <1>0
  <2>2. P(i)
    BY <1>0, <2>1
  <2>3. word \in SUBSET Ones(32) /\ check \in SUBSET Ones(7)
    BY <2>1, CheckBitsOfSeven
  <2>4. loop[j] = insert_word(loop[i], at, word, check)
    BY <1>1, <2>1
  <2> HIDE DEF j, at
  <2>6. loop[j] = loop[i] \cup Shl(word, at) \cup Shl(check, at + 32)
    <3> HIDE DEF word, check
    <3> QED
      BY <2>1, <2>3, <2>4, InsertWord
  <2>7. p \in Shl(word, at) <=> p - at \in word
    <3>1. word \in SUBSET Int
      BY <2>3 DEF Ones
    <3> HIDE DEF word
    <3> QED
      BY <2>1, <3>1, InShl
  <2>8. p \in Shl(check, at + 32) <=> p - (at + 32) \in check
    <3>1. check \in SUBSET Int
      BY <2>3 DEF Ones
    <3> HIDE DEF check
    <3> QED
      BY <2>1, <3>1, InShl
  <2>9. p - (at + 32) = (p - at) - 32 /\ p - at \in Int
    BY <2>1
  <2>10. p - at \in Coded(lanes[j]) <=> p - at \in word \/ (p - at) - 32 \in check
    BY <2>3, <2>9, InCoded
  <2>11. at = 39 * (j - 1)
    BY <2>1 DEF at
  <2>12. p \in loop[j] <=> p \in loop[i] \/ p - 39 * (j - 1) \in Coded(lanes[j])
    <3> HIDE DEF word, check
    <3> QED
      BY <2>6, <2>7, <2>8, <2>9, <2>10, <2>11
  <2>13. \A k : k \in 1..j <=> k \in 1..i \/ k = j
    BY <2>1 DEF j
  <2>14. p \in loop[j] <=> \E k \in 1..j : p - 39 * (k - 1) \in Coded(lanes[k])
    BY <2>2, <2>12, <2>13
  <2> QED
    BY <2>14 DEF j
<1>4. n \in S
  <2>1. \A i \in Nat : i \in S
    <3> HIDE DEF P
    <3>1. S \in SUBSET Nat
      OBVIOUS
    <3> HIDE DEF S
    <3> QED
      BY <1>2, <1>3, <3>1, SetInduction
  <2> QED
    BY <1>0, <2>1
<1> QED
  BY <1>0, <1>4 DEF loop

(* WriteBuffer() leaves every lane's code word in its 39 bits.              *)
LEMMA LaneOf ==
  ASSUME NEW buf, NEW lanes, \A k \in 1..Width32 : lanes[k].word \in SUBSET Ones(32),
         NEW k \in 1..Width32
  PROVE  Field(EccWriteBuffer(buf, lanes), 39 * (k - 1), 39) = Coded(lanes[k])
<1> DEFINE at == 39 * (k - 1)
           out == EccWriteBuffer(buf, lanes)
<1>0. Width32 \in Nat /\ at \in Nat /\ at + 39 <= 39 * Width32
  BY Sizes
<1>1. \A q : q \in Field(out, at, 39) <=> q \in Coded(lanes[k])
  <2> TAKE q
  <2>1. q \in Field(out, at, 39) <=> q \in 0..(39 - 1) /\ q + at \in out
    <3> HIDE DEF at, out
    <3> QED
      BY <1>0, InField
  <2>2. q \in Coded(lanes[k]) => q \in 0..38
    BY InCoded
  <2>3. ASSUME q \in 0..38
        PROVE  q + at \in out <=> q \in Coded(lanes[k])
    <3> DEFINE p == q + at
    <3>1. p \in 0..(39 * Width32 - 1)
      BY <1>0, <2>3
    <3>2. p - at = q
      BY <1>0, <2>3
    <3>3. Width32 \in 0..Width32
      BY <1>0
    <3> HIDE DEF p
    <3>4. p \in out <=> \E i \in 1..Width32 : p - 39 * (i - 1) \in Coded(lanes[i])
      BY <3>1, <3>3, LanesPacked DEF EccWriteBuffer
    <3>5. ASSUME NEW i \in 1..Width32, p - 39 * (i - 1) \in Coded(lanes[i])
          PROVE  i = k
      <4>1. p - 39 * (i - 1) \in 0..38
        BY <3>5, InCoded
      <4>2. p = q + 39 * (k - 1)
        BY DEF p
      <4> QED
        BY <1>0, <2>3, <4>1, <4>2
    <3>6. p \in out <=> p - 39 * (k - 1) \in Coded(lanes[k])
      BY <3>4, <3>5
    <3> QED
      BY <3>2, <3>6 DEF p
  <2> HIDE DEF out, at
  <2> QED
    BY <2>1, <2>2, <2>3
<1> HIDE DEF out, at
<1>2. Field(out, at, 39) = Coded(lanes[k])
  BY <1>1
<1> QED
  BY <1>2 DEF out, at

-----------------------------------------------------------------------------
(* The keystream of a word has no bits above the width of a memory word, so *)
(* that what ScrambleBuffer() adds is what ReadUnscrambled() takes away.    *)
LEMMA KeystreamFits ==
  ASSUME NEW key \in Keys, NEW nonce \in Nonces, NEW word \in MemWords,
         repeat_keystream_ \in BOOLEAN
  PROVE  KeystreamFor(word, nonce, key) \in SUBSET Ones(39 * Width32)
<1> DEFINE gen(k, n, w, r) == scramble_gen_keystream(AddrIntToBytes(w, addr_width_), addr_width_, n, k,
                                                     GetPhysWidth, kNumPrinceHalfRounds, r)
           entry(k, n, w, r) == [key |-> k, nonce |-> n, word |-> w, repeat |-> r, stream |-> gen(k, n, w, r)]
           Is(s) == s.key = key /\ s.nonce = nonce /\ s.word = word /\ s.repeat = repeat_keystream_
<1>1. \A k, n, w, r : gen(k, n, w, r) \in SUBSET Ones(GetPhysWidth)
  <2> TAKE k, n, w, r
  <2>1. \E v : gen(k, n, w, r) = Field(v, 0, GetPhysWidth)
    BY Zenon DEF scramble_gen_keystream
  <2>2. 0 \in Int /\ GetPhysWidth \in Int
    BY Sizes, Widths
  <2> HIDE DEF gen
  <2> QED
    BY <2>1, <2>2, FieldIsOnes
<1> HIDE DEF gen
<1>2. Keystreams = {entry(k, n, w, r) : k \in Keys, n \in Nonces, w \in MemWords, r \in BOOLEAN}
  BY DEF Keystreams, gen
<1>3. \A s \in Keystreams : s.stream \in SUBSET Ones(GetPhysWidth)
  BY <1>1, <1>2
<1>4. \E s \in Keystreams : Is(s)
  <2>1. entry(key, nonce, word, repeat_keystream_) \in Keystreams
    BY <1>2
  <2>2. Is(entry(key, nonce, word, repeat_keystream_))
    OBVIOUS
  <2> QED
    BY <2>1, <2>2
<1>5. KeystreamFor(word, nonce, key) = (CHOOSE s \in Keystreams : Is(s)).stream
  BY Zenon DEF KeystreamFor
<1> HIDE DEF Is
<1>6. (CHOOSE s \in Keystreams : Is(s)) \in Keystreams
  BY <1>4
<1> QED
  BY <1>3, <1>5, <1>6, Widths

(* Scrambling a buffer changes it by the keystream of its word.             *)
LEMMA ScrambledWrite ==
  ASSUME NEW key, NEW nonce, NEW word, NEW buf,
         KeystreamFor(word, nonce, key) \in SUBSET Ones(39 * Width32)
  PROVE  Field(ScrambleBuffer(buf, word, nonce, key), 0, 39 * Width32)
           = Xor(Field(buf, 0, 39 * Width32), KeystreamFor(word, nonce, key))
<1> DEFINE ks == KeystreamFor(word, nonce, key)
           bytes == Ones(8 * GetPhysWidthByte)
           out == ScrambleBuffer(buf, word, nonce, key)
           W == 39 * Width32
<1>1. out = (buf \ bytes) \cup Xor(buf \cap bytes, ks)
  BY DEF ScrambleBuffer, EncryptWith
<1>2. W \in Int /\ Ones(W) \subseteq bytes
  BY Widths, Sizes DEF Ones
<1> HIDE DEF ks, bytes, out, W
<1>3. \A p : p \in Field(out, 0, W) <=> p \in Xor(Field(buf, 0, W), ks)
  <2> TAKE p
  <2>1. p \in Field(out, 0, W) <=> p \in 0..(W - 1) /\ p + 0 \in out
    BY <1>2, InField
  <2>2. p \in Field(buf, 0, W) <=> p \in 0..(W - 1) /\ p + 0 \in buf
    BY <1>2, InField
  <2>3. p \in ks => p \in 0..(W - 1)
    BY DEF ks, W, Ones
  <2>4. p \in 0..(W - 1) => p + 0 = p /\ p \in bytes
    BY <1>2 DEF Ones
  <2>5. p \in 0..(W - 1) => (p \in out <=> p \in Xor(buf \cap bytes, ks))
    BY <1>1, <2>4
  <2>6. p \in Xor(buf \cap bytes, ks) <=> ((p \in buf \cap bytes) # (p \in ks))
    BY InXor
  <2>7. p \in Xor(Field(buf, 0, W), ks) <=> ((p \in Field(buf, 0, W)) # (p \in ks))
    BY InXor
  <2> QED
    BY <2>1, <2>2, <2>3, <2>4, <2>5, <2>6, <2>7
<1> QED
  BY <1>3 DEF ks, out, W

(* Unscrambling changes it by the same keystream.                           *)
LEMMA ScrambledRead ==
  ASSUME NEW key, NEW nonce, NEW word, NEW buf \in SUBSET Ones(39 * Width32)
  PROVE  ReadUnscrambled(buf, word, nonce, key) = Xor(buf, KeystreamFor(word, nonce, key))
<1> DEFINE bytes == Ones(8 * GetPhysWidthByte)
<1>1. ReadUnscrambled(buf, word, nonce, key) = Xor(buf \cap bytes, KeystreamFor(word, nonce, key))
  BY DEF ReadUnscrambled, DecryptWith
<1>2. Ones(39 * Width32) \subseteq bytes
  BY Widths, Sizes DEF Ones
<1>3. buf \cap bytes = buf
  BY <1>2
<1> QED
  BY <1>1, <1>3

(* Reading lane by lane what is packed without gaps. *)
LEMMA LaneRead ==
  ASSUME NEW buf, NEW k \in 1..Width32
  PROVE  LET lane == Field(buf, 39 * (k - 1), 39)
         IN  ReadBufferWithIntegrity(buf)[k]
               = [good |-> Field(lane, 32, 7) = enc_secded_inv(secded_39_32, Field(lane, 0, 32)),
                  word |-> Field(lane, 0, 32)]
<1> DEFINE at == 39 * (k - 1)
<1>1. at \in Nat
  OBVIOUS
<1>2. ReadBufferWithIntegrity(buf)[k]
        = [good |-> extract_bits(buf, at + 32, 7) = enc_secded_inv(secded_39_32, extract_word(buf, at)),
           word |-> extract_word(buf, at)]
  BY DEF ReadBufferWithIntegrity
<1> HIDE DEF at
<1>3. extract_word(buf, at) = Field(buf, at, 32)
  BY <1>1, ExtractWord
<1>4. extract_bits(buf, at + 32, 7) = Field(buf, at + 32, 7)
  <2>1. at + 32 \in Nat /\ 7 \in 0..8
    BY <1>1
  <2> QED
    BY <2>1, ExtractBits
<1>5. Field(Field(buf, at, 39), 0, 32) = Field(buf, at, 32)
  <2>1. 0 + 32 <= 39 /\ at + 0 = at
    BY <1>1
  <2>2. Field(Field(buf, at, 39), 0, 32) = Field(buf, at + 0, 32)
    BY <1>1, <2>1, FieldOfField
  <2> QED
    BY <2>1, <2>2
<1>6. Field(Field(buf, at, 39), 32, 7) = Field(buf, at + 32, 7)
  <2>1. 32 + 7 <= 39
    OBVIOUS
  <2> QED
    BY <1>1, <2>1, FieldOfField
<1> QED
  BY <1>2, <1>3, <1>4, <1>5, <1>6 DEF at

(* ReadBuffer() takes the low 32 bits of every lane.                        *)
LEMMA WordRead ==
  ASSUME NEW buf, NEW k \in 1..Width32, NEW q \in 0..31
  PROVE  q + 32 * (k - 1) \in EccReadBuffer(buf) <=> q \in Field(buf, 39 * (k - 1), 39)
<1> DEFINE p == q + 32 * (k - 1)
           part(i) == Field(buf, 39 * (i - 1), 32)
<1>1. EccReadBuffer(buf) = UNION {Shl(part(i), 32 * (i - 1)) : i \in 1..Width32}
  <2>1. \A i \in 1..Width32 : extract_word(buf, 39 * (i - 1)) = part(i)
    <3> TAKE i \in 1..Width32
    <3> DEFINE at == 39 * (i - 1)
    <3>1. at \in Nat
      OBVIOUS
    <3> HIDE DEF at
    <3>2. extract_word(buf, at) = Field(buf, at, 32)
      BY <3>1, ExtractWord
    <3> QED
      BY <3>2 DEF at
  <2> HIDE DEF part
  <2> QED
    BY <2>1 DEF EccReadBuffer
<1>2. \A i \in 1..Width32 : part(i) \in SUBSET Int /\ \A r \in part(i) : r \in 0..31
  <2> TAKE i \in 1..Width32
  <2>1. part(i) \subseteq Ones(32)
    BY FieldIsOnes
  <2> QED
    BY <2>1 DEF Ones
<1>3. q \in Field(buf, 39 * (k - 1), 39) <=> q \in part(k)
  <2> DEFINE at == 39 * (k - 1)
  <2>1. at \in Int
    OBVIOUS
  <2> HIDE DEF at
  <2>2. q \in Field(buf, at, 39) <=> q \in 0..(39 - 1) /\ q + at \in buf
    BY <2>1, InField
  <2>3. q \in Field(buf, at, 32) <=> q \in 0..(32 - 1) /\ q + at \in buf
    BY <2>1, InField
  <2> QED
    BY <2>2, <2>3 DEF at
<1> HIDE DEF part
<1>4. p \in Int /\ p - 32 * (k - 1) = q
  OBVIOUS
<1> HIDE DEF p
<1>5. \A i \in 1..Width32 : p \in Shl(part(i), 32 * (i - 1)) <=> p - 32 * (i - 1) \in part(i)
  <2> TAKE i \in 1..Width32
  <2>1. 32 * (i - 1) \in Int /\ part(i) \in SUBSET Int
    BY <1>2
  <2> QED
    BY <1>4, <2>1, InShl
<1>6. ASSUME NEW i \in 1..Width32, p - 32 * (i - 1) \in part(i)
      PROVE  i = k
  <2>1. p - 32 * (i - 1) \in 0..31
    BY <1>2, <1>6
  <2> QED
    BY <1>4, <2>1
<1> QED
  BY <1>1, <1>3, <1>4, <1>5, <1>6 DEF p

-----------------------------------------------------------------------------
(* Numbers and their bits.                                                  *)
LEMMA Powers ==
  /\ Power[1] = 1 /\ Power[2] = 2 /\ Power[3] = 4 /\ Power[4] = 8
  /\ Power[5] = 16 /\ Power[6] = 32 /\ Power[7] = 64 /\ Power[8] = 128
  /\ Power[9] = 256 /\ Power[10] = 512 /\ Power[11] = 1024 /\ Power[12] = 2048
  /\ Power[13] = 4096 /\ Power[14] = 8192 /\ Power[15] = 16384 /\ Power[16] = 32768
  /\ Power[17] = 65536
BY DEF Power

(* The powers of two rise.                                                  *)
LEMMA PowersRise ==
  ASSUME NEW i \in 1..17, NEW j \in 1..17, i <= j
  PROVE  Power[i] \in Nat \ {0} /\ Power[j] \in Nat \ {0} /\ Power[i] <= Power[j]
BY Powers

(* A number without bits from w upwards is one below two to the power of w. *)
LEMMA NumberBelow ==
  ASSUME NEW w \in 0..16, NEW n \in Nat, n < Power[w + 1]
  PROVE  Number(n) \in SUBSET (0..(w - 1))
<1> SUFFICES ASSUME NEW p \in 0..15, p >= w
             PROVE  (n \div Power[p + 1]) % 2 # 1
  BY DEF Number
<1>1. Power[w + 1] <= Power[p + 1] /\ Power[p + 1] \in Nat \ {0} /\ Power[w + 1] \in Nat
  BY PowersRise
<1> DEFINE top == Power[p + 1]
<1> HIDE DEF top
<1>2. n < top /\ top \in Nat \ {0}
  BY <1>1 DEF top
<1>3. n \div top = 0
  BY <1>2
<1> QED
  BY <1>3 DEF top

(* The quotient is known from one division with remainder.                  *)
LEMMA DivIs ==
  ASSUME NEW n \in Nat, NEW d \in Nat \ {0}, NEW m \in Nat, NEW s \in 0..(d - 1), n = d * m + s
  PROVE  n \div d = m
<1> DEFINE q == n \div d
           r == n % d
<1>1. q \in Nat /\ r \in 0..(d - 1) /\ n = d * q + r
  OBVIOUS
<1> HIDE DEF q, r
<1>2. d * q + r = d * m + s
  BY <1>1
<1>3. ASSUME q > m PROVE FALSE
  <2>1. PICK t \in Nat : q = m + 1 + t
    <3>1. q - m - 1 \in Nat /\ q = m + 1 + (q - m - 1)
      BY <1>1, <1>3
    <3> QED
      BY <3>1
  <2>2. d * q = d * m + d + d * t
    BY <2>1
  <2>3. d * t >= 0 /\ d * t \in Nat /\ d * m \in Nat /\ d * q \in Nat
    BY <1>1, <2>1
  <2> QED
    BY <1>1, <1>2, <2>2, <2>3
<1>4. ASSUME q < m PROVE FALSE
  <2>1. PICK t \in Nat : m = q + 1 + t
    <3>1. m - q - 1 \in Nat /\ m = q + 1 + (m - q - 1)
      BY <1>1, <1>4
    <3> QED
      BY <3>1
  <2>2. d * m = d * q + d + d * t
    BY <1>1, <2>1
  <2>3. d * t >= 0 /\ d * t \in Nat /\ d * m \in Nat /\ d * q \in Nat
    BY <1>1, <2>1
  <2> QED
    BY <1>1, <1>2, <2>2, <2>3
<1> QED
  BY <1>1, <1>3, <1>4 DEF q

(* A quotient is twice the next one, and its last binary digit.             *)
LEMMA DivHalf ==
  ASSUME NEW n \in Nat, NEW d \in Nat \ {0}
  PROVE  n \div d \in Nat /\ n \div d = 2 * (n \div (2 * d)) + ((n \div d) % 2)
<1> DEFINE e == 2 * d
           q == n \div e
           r == n % e
           b == IF r >= d THEN 1 ELSE 0
           h == n \div d
<1>1. e \in Nat \ {0} /\ e = d + d
  OBVIOUS
<1> HIDE DEF e
<1>2. q \in Nat /\ r \in 0..(e - 1) /\ n = e * q + r
  BY <1>1
<1> HIDE DEF q, r
<1>3. n = d * (2 * q + b) + (IF r >= d THEN r - d ELSE r)
  <2>1. e * q = d * (2 * q)
    BY <1>2 DEF e
  <2>2. CASE r >= d
    <3>1. d * (2 * q + 1) = d * (2 * q) + d
      BY <1>2
    <3>2. d * (2 * q) \in Nat
      BY <1>2
    <3> QED
      BY <1>1, <1>2, <2>1, <2>2, <3>1, <3>2
  <2>3. CASE ~(r >= d)
    BY <1>1, <1>2, <2>1, <2>3
  <2> QED
    BY <2>2, <2>3
<1>4. h = 2 * q + b
  <2> DEFINE m == 2 * q + b
             s == IF r >= d THEN r - d ELSE r
  <2>1. m \in Nat /\ s \in 0..(d - 1) /\ n = d * m + s
    BY <1>1, <1>2, <1>3
  <2> HIDE DEF m, s
  <2>2. n \div d = m
    BY <2>1, DivIs
  <2> QED
    BY <2>2 DEF m
<1>5. b \in 0..1
  OBVIOUS
<1> HIDE DEF h, b
<1>6. h \in Nat
  BY <1>2, <1>4, <1>5
<1>7. h % 2 = b
  BY <1>2, <1>4, <1>5
<1>8. h = 2 * q + (h % 2)
  BY <1>4, <1>7
<1> QED
  BY <1>6, <1>8 DEF h, q, e

(* Different numbers of up to 16 bits are different vectors.                *)
LEMMA NumberOneToOne ==
  ASSUME NEW a \in Nat, NEW b \in Nat, a < Power[17], b < Power[17], Number(a) = Number(b)
  PROVE  a = b
<1> DEFINE T == {m \in Nat : m <= 16 => a \div Power[17 - m] = b \div Power[17 - m]}
<1>1. \A p \in 0..15 : (a \div Power[p + 1]) % 2 = 1 <=> (b \div Power[p + 1]) % 2 = 1
  BY DEF Number
<1>2. \A i \in 1..16 : Power[i] \in Nat \ {0} /\ Power[i + 1] = 2 * Power[i]
  BY Powers
<1>3. 0 \in T
  <2> DEFINE top == Power[17]
  <2>1. top \in Nat \ {0} /\ a < top /\ b < top
    BY Powers
  <2> HIDE DEF top
  <2>2. a \div top = 0 /\ b \div top = 0
    BY <2>1
  <2> QED
    BY <2>2 DEF top
<1>4. ASSUME NEW m \in T PROVE m + 1 \in T
  <2> SUFFICES ASSUME m + 1 <= 16 PROVE a \div Power[17 - (m + 1)] = b \div Power[17 - (m + 1)]
    OBVIOUS
  <2> DEFINE i == 17 - (m + 1)
             d == Power[i]
             x == a \div d
             y == b \div d
  <2>1. i \in 1..16 /\ i + 1 = 17 - m /\ i - 1 \in 0..15 /\ (i - 1) + 1 = i
    OBVIOUS
  <2>2. a \div Power[i + 1] = b \div Power[i + 1]
    BY <2>1
  <2> HIDE DEF i
  <2>3. d \in Nat \ {0} /\ Power[i + 1] = 2 * d
    BY <1>2, <2>1
  <2>4. (a \div d) % 2 = 1 <=> (b \div d) % 2 = 1
    BY <1>1, <2>1
  <2> HIDE DEF d
  <2>5. x \in Nat /\ y \in Nat /\ x = 2 * (a \div (2 * d)) + (x % 2) /\ y = 2 * (b \div (2 * d)) + (y % 2)
    BY <2>3, DivHalf
  <2>6. x % 2 = 1 <=> y % 2 = 1
    BY <2>4
  <2>7. a \div (2 * d) = b \div (2 * d)
    BY <2>2, <2>3
  <2> HIDE DEF x, y
  <2>8. x % 2 = y % 2
    BY <2>5, <2>6
  <2>9. x = y
    BY <2>5, <2>7, <2>8
  <2> QED
    BY <2>9 DEF x, y, d, i
<1>5. 16 \in T
  <2>1. T \in SUBSET Nat
    OBVIOUS
  <2> HIDE DEF T
  <2> QED
    BY <1>3, <1>4, <2>1, SetInduction
<1>6. a \div Power[1] = b \div Power[1]
  <2>1. 17 - 16 = 1
    OBVIOUS
  <2> QED
    BY <1>5, <2>1
<1> QED
  BY <1>6, Powers

(* One round of Value() takes in one digit.                                 *)
LEMMA DigitsRounds ==
  ASSUME NEW v
  PROVE  LET loop == Digits(v) IN
         /\ loop[0] = 0
         /\ \A n \in 1..16 : loop[n] = 2 * loop[n - 1] + (IF 16 - (n) \in v THEN 1 ELSE 0)
<1> DEFINE first == 0
           Is(g, k) == g = [n \in 0..k |-> IF n = 0 THEN first ELSE 2 * g[n - 1] + (IF 16 - (n) \in v THEN 1 ELSE 0)]
           S == {k \in Nat : \E g : Is(g, k)}
<1>1. 0 \in S
  <2> DEFINE g == [n \in 0..0 |-> first]
  <2>1. Is(g, 0)
    OBVIOUS
  <2> QED
    BY <2>1
<1>2. ASSUME NEW k \in S
      PROVE  k + 1 \in S
  <2>1. PICK g : Is(g, k)
    OBVIOUS
  <2> DEFINE h == [n \in 0..(k + 1) |-> IF n = k + 1 THEN 2 * g[k] + (IF 16 - (k + 1) \in v THEN 1 ELSE 0) ELSE g[n]]
  <2>2. \A n \in 0..k : h[n] = g[n]
    OBVIOUS
  <2>3. \A n \in 0..(k + 1) : h[n] = IF n = 0 THEN first ELSE 2 * h[n - 1] + (IF 16 - (n) \in v THEN 1 ELSE 0)
    <3> TAKE n \in 0..(k + 1)
    <3>1. CASE n = k + 1
      BY <2>2, <3>1
    <3>2. CASE n # k + 1 /\ n # 0
      <4>1. n \in 0..k /\ n - 1 \in 0..k
        BY <3>2
      <4> QED
        BY <2>1, <2>2, <3>2, <4>1
    <3>3. CASE n = 0
      BY <2>1, <2>2, <3>3
    <3> QED
      BY <3>1, <3>2, <3>3
  <2>4. Is(h, k + 1)
    BY <2>3
  <2> HIDE DEF h
  <2> QED
    BY <2>4
<1>3. \A k \in Nat : \E g : Is(g, k)
  <2> HIDE DEF Is
  <2>1. \A k \in Nat : k \in S
    BY <1>1, <1>2, SetInduction
  <2> QED
    BY <2>1
<1> DEFINE N == 16
<1>4. N \in Nat
  OBVIOUS
<1>5. Digits(v) = CHOOSE g : Is(g, N)
  BY Zenon DEF Digits
<1>6. Is(Digits(v), N)
  <2> HIDE DEF Is, N
  <2> QED
    BY <1>3, <1>4, <1>5
<1> DEFINE loop == Digits(v)
<1> HIDE DEF N, first, loop
<1>7. \A n \in 0..N : loop[n] = IF n = 0 THEN first ELSE 2 * loop[n - 1] + (IF 16 - (n) \in v THEN 1 ELSE 0)
  BY <1>4, <1>6 DEF loop
<1>8. loop[0] = first /\ \A n \in 1..N : loop[n] = 2 * loop[n - 1] + (IF 16 - (n) \in v THEN 1 ELSE 0)
  BY <1>4, <1>7
<1> QED
  BY <1>8 DEF N, loop, first

(* The digits so far are a natural number.                                  *)
LEMMA DigitsAreNumbers ==
  ASSUME NEW v, NEW n \in 0..16
  PROVE  Digits(v)[n] \in Nat
<1> DEFINE d == Digits(v)
           S == {k \in Nat : k <= 16 => d[k] \in Nat}
<1>1. d[0] = 0 /\ \A k \in 1..16 : d[k] = 2 * d[k - 1] + (IF 16 - k \in v THEN 1 ELSE 0)
  BY DigitsRounds
<1> HIDE DEF d
<1>2. 0 \in S
  BY <1>1
<1>3. ASSUME NEW k \in S PROVE k + 1 \in S
  <2> SUFFICES ASSUME k + 1 <= 16 PROVE d[k + 1] \in Nat
    OBVIOUS
  <2>1. k + 1 \in 1..16 /\ (k + 1) - 1 = k /\ d[k] \in Nat
    OBVIOUS
  <2>2. d[k + 1] = 2 * d[k] + (IF 16 - (k + 1) \in v THEN 1 ELSE 0)
    BY <1>1, <2>1
  <2> QED
    BY <2>1, <2>2
<1>4. S \in SUBSET Nat
  OBVIOUS
<1>5. n \in S
  <2> HIDE DEF S
  <2> QED
    BY <1>2, <1>3, <1>4, SetInduction
<1> QED
  BY <1>5 DEF d

(* Different vectors of 16 bits are different numbers.                      *)
LEMMA ValueOneToOne ==
  ASSUME NEW v \in SUBSET (0..15), NEW w \in SUBSET (0..15), Value(v) = Value(w)
  PROVE  v = w
<1> DEFINE d == Digits(v)
           e == Digits(w)
           T == {m \in Nat : m <= 16 => d[16 - m] = e[16 - m]}
<1>1. \A n \in 1..16 : d[n] = 2 * d[n - 1] + (IF 16 - n \in v THEN 1 ELSE 0)
  BY DigitsRounds
<1>2. \A n \in 1..16 : e[n] = 2 * e[n - 1] + (IF 16 - n \in w THEN 1 ELSE 0)
  BY DigitsRounds
<1>3. \A n \in 0..16 : d[n] \in Nat /\ e[n] \in Nat
  BY DigitsAreNumbers
<1>4. d[16] = e[16]
  BY DEF Value
<1> HIDE DEF d, e
<1>5. ASSUME NEW n \in 1..16, d[n] = e[n]
      PROVE  d[n - 1] = e[n - 1] /\ (16 - n \in v <=> 16 - n \in w)
  <2>1. d[n - 1] \in Nat /\ e[n - 1] \in Nat
    BY <1>3
  <2>2. /\ d[n] = 2 * d[n - 1] + (IF 16 - n \in v THEN 1 ELSE 0)
        /\ e[n] = 2 * e[n - 1] + (IF 16 - n \in w THEN 1 ELSE 0)
    BY <1>1, <1>2
  <2> DEFINE c == IF 16 - n \in v THEN 1 ELSE 0
             f == IF 16 - n \in w THEN 1 ELSE 0
             x == d[n - 1]
             y == e[n - 1]
  <2>3. c \in 0..1 /\ f \in 0..1
    OBVIOUS
  <2>4. d[n] = 2 * x + c /\ e[n] = 2 * y + f /\ x \in Nat /\ y \in Nat
    BY <2>1, <2>2
  <2> HIDE DEF c, f, x, y
  <2>5. 2 * x + c = 2 * y + f
    BY <1>5, <2>4
  <2>6. x = y /\ c = f
    BY <2>3, <2>4, <2>5
  <2>7. c = 1 <=> 16 - n \in v
    BY DEF c
  <2>8. f = 1 <=> 16 - n \in w
    BY DEF f
  <2> QED
    BY <2>6, <2>7, <2>8 DEF x, y
<1>6. 0 \in T
  BY <1>4
<1>7. ASSUME NEW m \in T PROVE m + 1 \in T
  <2> SUFFICES ASSUME m + 1 <= 16 PROVE d[16 - (m + 1)] = e[16 - (m + 1)]
    OBVIOUS
  <2> DEFINE n == 16 - m
  <2>1. n \in 1..16 /\ d[n] = e[n] /\ n - 1 = 16 - (m + 1)
    OBVIOUS
  <2> HIDE DEF n
  <2>2. d[n - 1] = e[n - 1]
    BY <1>5, <2>1
  <2> QED
    BY <2>1, <2>2
<1>8. \A m \in Nat : m \in T
  <2>1. T \in SUBSET Nat
    OBVIOUS
  <2> HIDE DEF T
  <2> QED
    BY <1>6, <1>7, <2>1, SetInduction
<1>9. ASSUME NEW p \in 0..15 PROVE p \in v <=> p \in w
  <2>1. p \in T /\ 16 - p \in 1..16 /\ 16 - (16 - p) = p
    BY <1>8
  <2>2. d[16 - p] = e[16 - p]
    BY <2>1
  <2>3. 16 - (16 - p) \in v <=> 16 - (16 - p) \in w
    BY <1>5, <2>1, <2>2
  <2> QED
    BY <2>1, <2>3
<1> QED
  BY <1>9

(* Four bits are a number below 16.                                         *)
LEMMA NibbleValue ==
  ASSUME NEW x \in SUBSET (0..3)
  PROVE  LET b(p) == IF p \in x THEN 1 ELSE 0
         IN  /\ Value(x) \in 0..15
             /\ Value(x) = 2 * (2 * (2 * b(3) + b(2)) + b(1)) + b(0)
<1> DEFINE d == Digits(x)
           S == {k \in Nat : k <= 12 => d[k] = 0}
<1>1. d[0] = 0 /\ \A k \in 1..16 : d[k] = 2 * d[k - 1] + (IF 16 - k \in x THEN 1 ELSE 0)
  BY DigitsRounds
<1>2. Value(x) = d[16]
  BY DEF Value
<1> HIDE DEF d
<1>3. 0 \in S
  BY <1>1
<1>4. ASSUME NEW k \in S PROVE k + 1 \in S
  <2> SUFFICES ASSUME k + 1 <= 12 PROVE d[k + 1] = 0
    OBVIOUS
  <2>1. k + 1 \in 1..16 /\ (k + 1) - 1 = k /\ d[k] = 0 /\ 16 - (k + 1) \notin 0..3
    OBVIOUS
  <2>2. d[k + 1] = 2 * d[k] + (IF 16 - (k + 1) \in x THEN 1 ELSE 0)
    BY <1>1, <2>1
  <2> QED
    BY <2>1, <2>2
<1>5. d[12] = 0
  <2>1. S \in SUBSET Nat
    OBVIOUS
  <2>2. 12 \in S
    <3> HIDE DEF S
    <3> QED
      BY <1>3, <1>4, <2>1, SetInduction
  <2> QED
    BY <2>2
<1>6. \A k \in 1..16 : d[k - 1] \in Nat => d[k] \in 2 * d[k - 1]..2 * d[k - 1] + 1
  BY <1>1
<1>7. d[13] \in 0..1
  BY <1>5, <1>6
<1>8. d[14] \in 0..3
  BY <1>6, <1>7
<1>9. d[15] \in 0..7
  BY <1>6, <1>8
<1>10. d[16] \in 0..15
  BY <1>6, <1>9
<1> DEFINE b(p) == IF p \in x THEN 1 ELSE 0
<1>11. \A k \in 1..16 : d[k] = 2 * d[k - 1] + b(16 - k)
  BY <1>1
<1>12. \A p : b(p) \in 0..1
  OBVIOUS
<1> HIDE DEF b
<1>13. d[13] = b(3)
  <2>1. d[13] = 2 * d[13 - 1] + b(16 - 13)
    BY <1>11
  <2> QED
    BY <1>5, <1>12, <2>1
<1>14. d[14] = 2 * b(3) + b(2)
  <2>1. d[14] = 2 * d[14 - 1] + b(16 - 14)
    BY <1>11
  <2> QED
    BY <1>13, <2>1
<1>15. d[15] = 2 * (2 * b(3) + b(2)) + b(1)
  <2>1. d[15] = 2 * d[15 - 1] + b(16 - 15)
    BY <1>11
  <2> QED
    BY <1>14, <2>1
<1>16. d[16] = 2 * (2 * (2 * b(3) + b(2)) + b(1)) + b(0)
  <2>1. d[16] = 2 * d[16 - 1] + b(16 - 16)
    BY <1>11
  <2> QED
    BY <1>15, <2>1
<1> QED
  BY <1>2, <1>10, <1>16 DEF b

-----------------------------------------------------------------------------
(* The layers of the address permutation lose nothing.                      *)

(* A substitution box, and what it does to the bits of a nibble.            *)
IsBox(box) == \A i \in 1..16 : box[i] \in 0..15

BoxBits(box, x) == Number(box[Value(x) + 1])

(* A box makes a nibble of a nibble.                                        *)
LEMMA BoxFits ==
  ASSUME NEW box, IsBox(box), NEW x \in SUBSET (0..3)
  PROVE  BoxBits(box, x) \in SUBSET (0..3)
<1> DEFINE n == box[Value(x) + 1]
<1>1. Value(x) \in 0..15
  BY NibbleValue
<1>2. Value(x) + 1 \in 1..16
  BY <1>1
<1>3. n \in 0..15
  BY <1>2 DEF IsBox
<1> HIDE DEF n
<1>4. n \in Nat /\ n < Power[4 + 1] /\ 4 \in 0..16
  BY <1>3, Powers
<1>5. Number(n) \in SUBSET (0..(4 - 1))
  BY <1>4, NumberBelow
<1> QED
  BY <1>5 DEF BoxBits, n

(* The two boxes of scramble_model.cc are boxes.                            *)
LEMMA PresentBoxes == IsBox(PRESENT_SBOX4) /\ IsBox(PRESENT_SBOX4_INV)
BY DEF IsBox, PRESENT_SBOX4, PRESENT_SBOX4_INV

(* PRESENT_SBOX4 maps four bits to four bits, one to one.                   *)
LEMMA BoxOneToOne ==
  ASSUME NEW x \in SUBSET (0..3), NEW y \in SUBSET (0..3)
  PROVE  /\ BoxBits(PRESENT_SBOX4, x) \in SUBSET (0..3)
         /\ BoxBits(PRESENT_SBOX4, x) = BoxBits(PRESENT_SBOX4, y) => x = y
<1> DEFINE s == PRESENT_SBOX4
           m == Value(x)
           n == Value(y)
<1>1. m \in 0..15 /\ n \in 0..15
  BY NibbleValue
<1>2. \A i \in 1..16 : s[i] \in 0..15
  BY DEF PRESENT_SBOX4
<1>3. \A i, j \in 1..16 : s[i] = s[j] => i = j
  BY DEF PRESENT_SBOX4
<1>4. m = n => x = y
  BY ValueOneToOne
<1> HIDE DEF s, m, n
<1>5. s[m + 1] \in 0..15 /\ s[n + 1] \in 0..15
  BY <1>1, <1>2
<1>6. s[m + 1] \in Nat /\ s[m + 1] < Power[4 + 1] /\ 4 \in 0..16
  BY <1>5, Powers
<1>7. Number(s[m + 1]) \in SUBSET (0..(4 - 1))
  BY <1>6, NumberBelow
<1>8. s[m + 1] < Power[17] /\ s[n + 1] < Power[17] /\ s[m + 1] \in Nat /\ s[n + 1] \in Nat
  BY <1>5, Powers
<1>9. Number(s[m + 1]) = Number(s[n + 1]) => s[m + 1] = s[n + 1]
  BY <1>8, NumberOneToOne
<1>10. s[m + 1] = s[n + 1] => m = n
  BY <1>1, <1>3
<1> QED
  BY <1>4, <1>7, <1>9, <1>10 DEF BoxBits, s, m, n

(* Which bits are in a word after the layer of boxes.                       *)
LEMMA InBoxes ==
  ASSUME NEW width \in Nat, NEW v \in SUBSET Ones(width),
         NEW q \in 0..3, NEW i \in Nat,
         NEW sbox, IsBox(sbox)
  PROVE  LET out == scramble_sbox_layer(v, width, sbox) IN
         /\ i < width \div 4 => (q + 4 * i \in out <=> q \in BoxBits(sbox, Field(v, 4 * i, 4)))
         /\ i >= width \div 4 => (q + 4 * i \in out <=> q + 4 * i \in v)
<1> DEFINE whole == width \div 4
           p == q + 4 * i
           nib(j) == Field(v, 4 * j, 4)
           box(j) == BoxBits(sbox, nib(j))
           sub == UNION {Shl(box(j), 4 * j) : j \in 0 .. whole - 1}
           rest == IF width % 4 = 0 THEN {} ELSE Shl(nib(whole), 4 * whole)
           out == scramble_sbox_layer(v, width, sbox)
<1>1. out = sub \cup rest
  BY DEF scramble_sbox_layer, Substitute, BoxBits
<1>2. whole \in Nat /\ 4 * whole <= width /\ width < 4 * whole + 4 /\ (width % 4 = 0 <=> width = 4 * whole)
  OBVIOUS
<1>3. \A j \in Nat : nib(j) \in SUBSET (0..3) /\ nib(j) \in SUBSET Int
  <2> TAKE j \in Nat
  <2>1. nib(j) \subseteq Ones(4)
    BY FieldIsOnes
  <2> QED
    BY <2>1 DEF Ones
<1>4. \A j \in Nat : box(j) \in SUBSET (0..3) /\ box(j) \in SUBSET Int
  <2> TAKE j \in Nat
  <2> HIDE DEF nib
  <2>1. box(j) \in SUBSET (0..3)
    BY <1>3, BoxFits
  <2> QED
    BY <2>1
<1> HIDE DEF whole
<1>5. p \in Int /\ p - 4 * i = q
  OBVIOUS
<1>6. p \in rest <=> i = whole /\ width # 4 * whole /\ p \in v
  <2>1. p \in Shl(nib(whole), 4 * whole) <=> p - 4 * whole \in nib(whole)
    <3>1. 4 * whole \in Int /\ nib(whole) \in SUBSET Int
      BY <1>2, <1>3
    <3> HIDE DEF nib, p
    <3> QED
      BY <1>5, <3>1, InShl
  <2>2. p - 4 * whole \in nib(whole) <=> p - 4 * whole \in 0..(4 - 1) /\ (p - 4 * whole) + 4 * whole \in v
    <3>1. 4 * whole \in Int /\ 4 \in Int
      BY <1>2
    <3> HIDE DEF p
    <3> QED
      BY <3>1, InField, Zenon
  <2>3. (p - 4 * whole) + 4 * whole = p
    BY <1>2, <1>5
  <2>4. p - 4 * whole \in 0..3 <=> i = whole
    BY <1>2
  <2> HIDE DEF p, nib
  <2> QED
    BY <1>2, <2>1, <2>2, <2>3, <2>4
<1>7. p \in sub <=> i < whole /\ q \in box(i)
  <2> HIDE DEF box
  <2>1. \A j \in 0..(whole - 1) : p \in Shl(box(j), 4 * j) <=> p - 4 * j \in box(j)
    <3> TAKE j \in 0..(whole - 1)
    <3>1. 4 * j \in Int /\ box(j) \in SUBSET Int
      BY <1>2, <1>4
    <3> HIDE DEF p
    <3> QED
      BY <1>5, <3>1, InShl
  <2>2. \A j \in 0..(whole - 1) : p - 4 * j \in box(j) => j = i
    <3> TAKE j \in 0..(whole - 1)
    <3> HAVE p - 4 * j \in box(j)
    <3>1. p - 4 * j \in 0..3
      BY <1>2, <1>4
    <3> QED
      BY <1>2, <3>1
  <2>3. i < whole <=> i \in 0..(whole - 1)
    BY <1>2
  <2>4. p \in sub <=> \E j \in 0..(whole - 1) : p \in Shl(box(j), 4 * j)
    OBVIOUS
  <2> HIDE DEF p, sub
  <2> QED
    BY <1>5, <2>1, <2>2, <2>3, <2>4
<1>8. i > whole => p \notin v
  <2>1. \A r \in v : r < width
    BY DEF Ones
  <2> QED
    BY <1>2, <2>1
<1>9. width = 4 * whole /\ i = whole => p \notin v
  <2>1. \A r \in v : r < width
    BY DEF Ones
  <2> QED
    BY <1>2, <2>1
<1> HIDE DEF p, sub, rest, box, out
<1>10. /\ i < whole => (p \in out <=> q \in box(i))
       /\ i >= whole => (p \in out <=> p \in v)
  BY <1>1, <1>2, <1>6, <1>7, <1>8, <1>9
<1> QED
  BY <1>10 DEF whole, p, box, out

(* The substitution layer is one to one, the bits behind the last whole     *)
(* nibble included.                                                         *)
LEMMA BoxesOneToOne ==
  ASSUME NEW width \in Nat, NEW a \in SUBSET Ones(width), NEW b \in SUBSET Ones(width)
  PROVE  LET out(v) == scramble_sbox_layer(v, width, PRESENT_SBOX4)
         IN  out(a) = out(b) => a = b
<1> DEFINE out(v) == scramble_sbox_layer(v, width, PRESENT_SBOX4)
<1>0. a \in SUBSET Nat /\ b \in SUBSET Nat
  BY DEF Ones
<1> SUFFICES ASSUME out(a) = out(b), NEW p \in Nat PROVE p \in a <=> p \in b
  <2> HIDE DEF out
  <2> QED
    BY <1>0 DEF out
<1> DEFINE i == p \div 4
           q == p % 4
           whole == width \div 4
<1>1. i \in Nat /\ q \in 0..3 /\ p = q + 4 * i
  OBVIOUS
<1> HIDE DEF i, q
<1>2. /\ i < whole => (q + 4 * i \in out(a) <=> q \in BoxBits(PRESENT_SBOX4, Field(a, 4 * i, 4)))
      /\ i >= whole => (q + 4 * i \in out(a) <=> q + 4 * i \in a)
  BY <1>1, InBoxes, PresentBoxes
<1>3. /\ i >= whole => (q + 4 * i \in out(b) <=> q + 4 * i \in b)
  BY <1>1, InBoxes, PresentBoxes
<1>4. whole \in Int
  OBVIOUS
<1>5. CASE i < whole
  <2> DEFINE x == Field(a, 4 * i, 4)
             y == Field(b, 4 * i, 4)
  <2>1. 4 * i \in Int /\ Ones(4) = 0..3
    BY <1>1 DEF Ones
  <2>2. x \in SUBSET (0..3) /\ y \in SUBSET (0..3)
    BY <2>1, FieldIsOnes
  <2>3. BoxBits(PRESENT_SBOX4, x) \in SUBSET (0..3) /\ BoxBits(PRESENT_SBOX4, y) \in SUBSET (0..3) /\ (BoxBits(PRESENT_SBOX4, x) = BoxBits(PRESENT_SBOX4, y) => x = y)
    <3> HIDE DEF x, y
    <3> QED
      BY <2>2, BoxOneToOne
  <2>4. \A r \in 0..3 : r \in BoxBits(PRESENT_SBOX4, x) <=> r \in BoxBits(PRESENT_SBOX4, y)
    <3> TAKE r \in 0..3
    <3>1. r + 4 * i \in out(a) <=> r \in BoxBits(PRESENT_SBOX4, x)
      BY <1>1, <1>5, InBoxes, PresentBoxes
    <3>2. r + 4 * i \in out(b) <=> r \in BoxBits(PRESENT_SBOX4, y)
      BY <1>1, <1>5, InBoxes, PresentBoxes
    <3> HIDE DEF out, x, y
    <3> QED
      BY <3>1, <3>2
  <2>5. x = y
    BY <2>3, <2>4
  <2>6. q \in x <=> q \in 0..(4 - 1) /\ q + 4 * i \in a
    BY <2>1, InField
  <2>7. q \in y <=> q \in 0..(4 - 1) /\ q + 4 * i \in b
    BY <2>1, InField
  <2> HIDE DEF x, y
  <2> QED
    BY <1>1, <2>5, <2>6, <2>7
<1>6. CASE i >= whole
  <2> HIDE DEF out
  <2> QED
    BY <1>1, <1>2, <1>3, <1>6
<1> QED
  BY <1>1, <1>4, <1>5, <1>6

(* It stays within the width.                                               *)
LEMMA BoxesFit ==
  ASSUME NEW width \in Nat, NEW v \in SUBSET Ones(width),
         NEW sbox, IsBox(sbox)
  PROVE  scramble_sbox_layer(v, width, sbox) \in SUBSET Ones(width)
<1> DEFINE out == scramble_sbox_layer(v, width, sbox)
           whole == width \div 4
<1>0. whole \in Nat /\ 4 * whole <= width
  OBVIOUS
<1>1. out \in SUBSET Nat
  <2> DEFINE box(j) == Number(sbox[Value(Field(v, 4 * j, 4)) + 1])
             sub == UNION {Shl(box(j), 4 * j) : j \in 0 .. whole - 1}
             rest == IF width % 4 = 0 THEN {} ELSE Shl(Field(v, 4 * whole, 4), 4 * whole)
  <2>1. out = sub \cup rest
    BY DEF scramble_sbox_layer, Substitute
  <2>2. \A x, n : x \in SUBSET Nat /\ n \in Nat => Shl(x, n) \in SUBSET Nat
    BY DEF Shl
  <2>3. \A j \in Nat : box(j) \in SUBSET Nat
    BY DEF Number
  <2>4. Field(v, 4 * whole, 4) \in SUBSET Nat
    <3>1. Field(v, 4 * whole, 4) \subseteq Ones(4)
      BY <1>0, FieldIsOnes
    <3> QED
      BY <3>1 DEF Ones
  <2>5. 4 * whole \in Nat
    BY <1>0
  <2>6. rest \in SUBSET Nat
    BY <2>2, <2>4, <2>5
  <2>7. \A j \in 0..(whole - 1) : Shl(box(j), 4 * j) \in SUBSET Nat
    <3> TAKE j \in 0..(whole - 1)
    <3>1. j \in Nat /\ 4 * j \in Nat
      BY <1>0
    <3> HIDE DEF box
    <3> QED
      BY <2>2, <2>3, <3>1
  <2>8. sub \in SUBSET Nat
    <3> HIDE DEF box
    <3> QED
      BY <2>7
  <2> QED
    BY <2>1, <2>6, <2>8
<1>2. ASSUME NEW p \in Nat, p \in out PROVE p < width
  <2> DEFINE i == p \div 4
             q == p % 4
  <2>1. i \in Nat /\ q \in 0..3 /\ p = q + 4 * i
    OBVIOUS
  <2> HIDE DEF i, q
  <2>2. i >= whole => (q + 4 * i \in out <=> q + 4 * i \in v)
    BY <2>1, InBoxes
  <2>3. \A r \in v : r < width
    BY DEF Ones
  <2> HIDE DEF out, whole
  <2>4. CASE i < whole
    BY <1>0, <2>1, <2>4
  <2>5. CASE i >= whole
    BY <1>2, <2>1, <2>2, <2>3, <2>5
  <2> QED
    BY <1>0, <2>1, <2>4, <2>5
<1> QED
  BY <1>1, <1>2 DEF Ones

(* The reversal of the bits is one to one.                                  *)
LEMMA FlipOneToOne ==
  ASSUME NEW width \in Nat, NEW a \in SUBSET Ones(width), NEW b \in SUBSET Ones(width)
  PROVE  /\ scramble_flip_layer(a, width) \in SUBSET Ones(width)
         /\ scramble_flip_layer(a, width) = scramble_flip_layer(b, width) => a = b
<1>1. \A v \in SUBSET Ones(width) : \A p \in 0..(width - 1) :
        p \in v <=> width - 1 - p \in scramble_flip_layer(v, width)
  <2> TAKE v \in SUBSET Ones(width)
  <2> TAKE p \in 0..(width - 1)
  <2>1. width - 1 - p \in scramble_flip_layer(v, width)
          <=> \E r \in v \cap Ones(width) : width - 1 - p = width - 1 - r
    BY DEF scramble_flip_layer
  <2>2. \A r \in v : r \in 0..(width - 1) /\ (width - 1 - p = width - 1 - r => p = r)
    BY DEF Ones
  <2> QED
    BY <2>1, <2>2
<1>2. scramble_flip_layer(a, width) \in SUBSET Ones(width)
  <2>1. \A p \in 0..(width - 1) : width - 1 - p \in 0..(width - 1)
    OBVIOUS
  <2> QED
    BY <2>1 DEF scramble_flip_layer, Ones
<1> QED
  BY <1>1, <1>2 DEF Ones

(* Where a bit of the even part of the width goes.                          *)
Gathered(p, half) == (p \div 2) + half * (p % 2)

(* Gathering the even bits below the odd ones moves no two to the same      *)
(* place.                                                                   *)
LEMMA GatherOneToOne ==
  ASSUME NEW half \in Nat, NEW p \in 0..(2 * half - 1), NEW r \in 0..(2 * half - 1)
  PROVE  /\ Gathered(p, half) \in 0..(2 * half - 1)
         /\ Gathered(p, half) = Gathered(r, half) => p = r
<1> DEFINE d == p \div 2
           m == p % 2
           e == r \div 2
           n == r % 2
<1>1. d \in 0..(half - 1) /\ m \in 0..1 /\ p = 2 * d + m
  OBVIOUS
<1>2. e \in 0..(half - 1) /\ n \in 0..1 /\ r = 2 * e + n
  OBVIOUS
<1>3. Gathered(p, half) = d + half * m /\ Gathered(r, half) = e + half * n
  BY DEF Gathered
<1> HIDE DEF d, m, e, n
<1>4. half * m = (IF m = 1 THEN half ELSE 0) /\ half * n = (IF n = 1 THEN half ELSE 0)
  BY <1>1, <1>2
<1>5. d + half * m \in 0..(2 * half - 1)
  BY <1>1, <1>4
<1>6. d + half * m = e + half * n => d = e /\ m = n
  <2>1. CASE m = 1 /\ n = 1
    BY <1>1, <1>2, <1>4, <2>1
  <2>2. CASE m = 0 /\ n = 0
    BY <1>1, <1>2, <1>4, <2>2
  <2>3. CASE m = 1 /\ n = 0
    BY <1>1, <1>2, <1>4, <2>3
  <2>4. CASE m = 0 /\ n = 1
    BY <1>1, <1>2, <1>4, <2>4
  <2> QED
    BY <1>1, <1>2, <2>1, <2>2, <2>3, <2>4
<1> QED
  BY <1>1, <1>2, <1>3, <1>5, <1>6

(* The permutation layer is one to one.                                     *)
LEMMA PermOneToOne ==
  ASSUME NEW width \in Nat, NEW a \in SUBSET Ones(width), NEW b \in SUBSET Ones(width)
  PROVE  /\ scramble_perm_layer(a, width, FALSE) \in SUBSET Ones(width)
         /\ scramble_perm_layer(a, width, FALSE) = scramble_perm_layer(b, width, FALSE) => a = b
<1> DEFINE half == width \div 2
           even == 2 * half
           last(v) == IF width % 2 = 0 THEN {} ELSE v \cap {width - 1}
           perm(v) == scramble_perm_layer(v, width, FALSE)
<1>1. half \in Nat /\ even <= width /\ width <= even + 1 /\ (width % 2 = 0 <=> width = even)
  OBVIOUS
<1>2. \A v : perm(v) = {Gathered(p, half) : p \in v \cap Ones(even)} \cup last(v)
  BY DEF scramble_perm_layer, Gathered
<1> HIDE DEF half, perm
<1>3. \A p, r \in 0..(even - 1) : Gathered(p, half) \in 0..(even - 1) /\ (Gathered(p, half) = Gathered(r, half) => p = r)
  BY <1>1, GatherOneToOne
<1>4. Ones(even) = 0..(even - 1) /\ Ones(width) = 0..(width - 1) /\ 0..(even - 1) \subseteq 0..(width - 1)
  BY <1>1 DEF Ones
<1>5. \A v : \A p \in 0..(even - 1) : Gathered(p, half) \in perm(v) <=> p \in v
  <2> TAKE v
  <2> TAKE p \in 0..(even - 1)
  <2>1. Gathered(p, half) \notin last(v)
    BY <1>1, <1>3
  <2>2. Gathered(p, half) \in perm(v) <=> \E r \in v \cap Ones(even) : Gathered(p, half) = Gathered(r, half)
    <3> HIDE DEF last
    <3> QED
      BY <1>2, <2>1
  <2> QED
    BY <1>3, <1>4, <2>2
<1>6. \A v : width # even => (width - 1 \in perm(v) <=> width - 1 \in v)
  <2> TAKE v
  <2> HAVE width # even
  <2>1. last(v) = v \cap {width - 1} /\ width - 1 = even
    BY <1>1
  <2>2. \A p \in 0..(even - 1) : Gathered(p, half) # even
    BY <1>1, <1>3
  <2> QED
    BY <1>2, <1>4, <2>1, <2>2
<1>7. perm(a) \in SUBSET Ones(width)
  <2>1. last(a) \in SUBSET Ones(width)
    OBVIOUS
  <2>2. \A p \in a \cap Ones(even) : Gathered(p, half) \in Ones(width)
    BY <1>3, <1>4
  <2> HIDE DEF last
  <2> QED
    BY <1>2, <2>1, <2>2
<1>8. \A p \in 0..(width - 1) : p \in 0..(even - 1) \/ (p = width - 1 /\ width # even)
  BY <1>1
<1>9. perm(a) = perm(b) => a = b
  BY <1>4, <1>5, <1>6, <1>8
<1> QED
  BY <1>7, <1>9 DEF perm

(* A round of the network is one to one.                                    *)
LEMMA RoundOneToOne ==
  ASSUME NEW width \in Nat, NEW key \in SUBSET Ones(width),
         NEW a \in SUBSET Ones(width), NEW b \in SUBSET Ones(width)
  PROVE  /\ EncRound(a, key, width) \in SUBSET Ones(width)
         /\ EncRound(a, key, width) = EncRound(b, key, width) => a = b
<1> DEFINE x(v) == Xor(v, key)
           s(v) == scramble_sbox_layer(x(v), width, PRESENT_SBOX4)
           f(v) == scramble_flip_layer(s(v), width)
           o(v) == scramble_perm_layer(f(v), width, FALSE)
<1>1. x(a) \in SUBSET Ones(width) /\ x(b) \in SUBSET Ones(width) /\ (x(a) = x(b) => a = b)
  <2>1. Xor(x(a), key) = a /\ Xor(x(b), key) = b
    BY XorTwice
  <2>2. x(a) \in SUBSET Ones(width) /\ x(b) \in SUBSET Ones(width)
    BY DEF Xor
  <2> QED
    BY <2>1, <2>2
<1> HIDE DEF x
<1>2. s(a) \in SUBSET Ones(width) /\ s(b) \in SUBSET Ones(width) /\ (s(a) = s(b) => x(a) = x(b))
  BY <1>1, BoxesFit, BoxesOneToOne, PresentBoxes
<1> HIDE DEF s
<1>3. f(a) \in SUBSET Ones(width) /\ f(b) \in SUBSET Ones(width) /\ (f(a) = f(b) => s(a) = s(b))
  BY <1>2, FlipOneToOne
<1> HIDE DEF f
<1>4. o(a) \in SUBSET Ones(width) /\ (o(a) = o(b) => f(a) = f(b))
  BY <1>3, PermOneToOne
<1>5. EncRound(a, key, width) = o(a) /\ EncRound(b, key, width) = o(b)
  BY DEF EncRound, o, f, s, x
<1> QED
  BY <1>1, <1>2, <1>3, <1>4, <1>5

(* The network is its rounds, one after the other.                          *)
LEMMA EncRoundsRounds ==
  ASSUME NEW v, NEW key, NEW width, NEW num_rounds \in Nat
  PROVE  LET loop == EncRounds(v, key, width, num_rounds) IN
         /\ loop[0] = v
         /\ \A n \in 1..num_rounds : loop[n] = EncRound(loop[n - 1], key, width)
<1> DEFINE first == v
           Is(g, k) == g = [n \in 0..k |-> IF n = 0 THEN first ELSE EncRound(g[n - 1], key, width)]
           S == {k \in Nat : \E g : Is(g, k)}
<1>1. 0 \in S
  <2> DEFINE g == [n \in 0..0 |-> first]
  <2>1. Is(g, 0)
    OBVIOUS
  <2> QED
    BY <2>1
<1>2. ASSUME NEW k \in S
      PROVE  k + 1 \in S
  <2>1. PICK g : Is(g, k)
    OBVIOUS
  <2> DEFINE h == [n \in 0..(k + 1) |-> IF n = k + 1 THEN EncRound(g[k], key, width) ELSE g[n]]
  <2>2. \A n \in 0..k : h[n] = g[n]
    OBVIOUS
  <2>3. \A n \in 0..(k + 1) : h[n] = IF n = 0 THEN first ELSE EncRound(h[n - 1], key, width)
    <3> TAKE n \in 0..(k + 1)
    <3>1. CASE n = k + 1
      BY <2>2, <3>1
    <3>2. CASE n # k + 1 /\ n # 0
      <4>1. n \in 0..k /\ n - 1 \in 0..k
        BY <3>2
      <4> QED
        BY <2>1, <2>2, <3>2, <4>1
    <3>3. CASE n = 0
      BY <2>1, <2>2, <3>3
    <3> QED
      BY <3>1, <3>2, <3>3
  <2>4. Is(h, k + 1)
    BY <2>3
  <2> HIDE DEF h
  <2> QED
    BY <2>4
<1>3. \A k \in Nat : \E g : Is(g, k)
  <2> HIDE DEF Is
  <2>1. \A k \in Nat : k \in S
    BY <1>1, <1>2, SetInduction
  <2> QED
    BY <2>1
<1> DEFINE N == num_rounds
<1>4. N \in Nat
  OBVIOUS
<1>5. EncRounds(v, key, width, num_rounds) = CHOOSE g : Is(g, N)
  BY Zenon DEF EncRounds
<1>6. Is(EncRounds(v, key, width, num_rounds), N)
  <2> HIDE DEF Is, N
  <2> QED
    BY <1>3, <1>4, <1>5
<1> DEFINE loop == EncRounds(v, key, width, num_rounds)
<1> HIDE DEF N, first, loop
<1>7. \A n \in 0..N : loop[n] = IF n = 0 THEN first ELSE EncRound(loop[n - 1], key, width)
  BY <1>4, <1>6 DEF loop
<1>8. loop[0] = first /\ \A n \in 1..N : loop[n] = EncRound(loop[n - 1], key, width)
  BY <1>4, <1>7
<1> QED
  BY <1>8 DEF N, loop, first

(* Different addresses stay different, for every nonce.                     *)
LEMMA AddrOneToOne ==
  ASSUME NEW width \in Nat, NEW nonce, NEW nonce_width \in Int,
         NEW a \in SUBSET Ones(width), NEW b \in SUBSET Ones(width)
  PROVE  /\ scramble_addr(a, width, nonce, nonce_width) \in SUBSET Ones(width)
         /\ scramble_addr(a, width, nonce, nonce_width) = scramble_addr(b, width, nonce, nonce_width)
              => a = b
<1> DEFINE key == Field(nonce, nonce_width - width, width)
           r(v) == EncRounds(v, key, width, 2)
<1>1. key \in SUBSET Ones(width)
  BY FieldIsOnes
<1>2. \A v : scramble_addr(v, width, nonce, nonce_width) = Xor(r(v)[2], key)
  BY DEF scramble_addr, scramble_subst_perm_enc, kNumAddrSubstPermRounds
<1> HIDE DEF key
<1>3. \A v : r(v)[0] = v /\ \A n \in 1..2 : r(v)[n] = EncRound(r(v)[n - 1], key, width)
  BY EncRoundsRounds
<1> HIDE DEF r
<1>4. \A v : r(v)[1] = EncRound(v, key, width) /\ r(v)[2] = EncRound(r(v)[1], key, width)
  <2> TAKE v
  <2>1. r(v)[1] = EncRound(r(v)[1 - 1], key, width) /\ r(v)[2] = EncRound(r(v)[2 - 1], key, width)
    BY <1>3
  <2> QED
    BY <1>3, <2>1
<1>5. r(a)[1] \in SUBSET Ones(width) /\ r(b)[1] \in SUBSET Ones(width) /\ (r(a)[1] = r(b)[1] => a = b)
  BY <1>1, <1>4, RoundOneToOne
<1>6. r(a)[2] \in SUBSET Ones(width) /\ (r(a)[2] = r(b)[2] => r(a)[1] = r(b)[1])
  BY <1>1, <1>4, <1>5, RoundOneToOne
<1>7. Xor(r(a)[2], key) \in SUBSET Ones(width)
  BY <1>1, <1>6 DEF Xor
<1>8. Xor(r(a)[2], key) = Xor(r(b)[2], key) => r(a)[2] = r(b)[2]
  <2>1. Xor(Xor(r(a)[2], key), key) = r(a)[2] /\ Xor(Xor(r(b)[2], key), key) = r(b)[2]
    BY XorTwice
  <2> QED
    BY <2>1
<1> QED
  BY <1>2, <1>5, <1>6, <1>7, <1>8

(* addr_width_ is wide enough for every word of the area.                   *)
LEMMA AddrWidth ==
  ASSUME "scrambled" \in Kinds
  PROVE  addr_width_ \in 1..16 /\ \A w \in MemWords : w \in Nat /\ w < Power[addr_width_ + 1]
<1> DEFINE top == NumWords - 1
           Fits(w) == Power[w] <= top /\ top < Power[w + 1]
<1>1. NumWords \in Nat /\ NumWords >= 1 /\ NumWords <= 65536
  BY MemAreasAssumption
<1>2. CASE NumWords = 1
  <2>1. addr_width_ = 1
    BY <1>2 DEF addr_width_, vbits
  <2> QED
    BY <1>2, <2>1, Powers DEF MemWords
<1>3. CASE NumWords # 1
  <2>1. \E w \in 1..16 : Fits(w)
    <3>1. top \in Nat /\ top >= 1 /\ top < 65536
      BY <1>1, <1>3
    <3> HIDE DEF top
    <3> QED
      BY <3>1, Powers
  <2>2. addr_width_ = CHOOSE w \in 1..16 : Fits(w)
    BY <1>3 DEF addr_width_, vbits
  <2> HIDE DEF Fits
  <2>3. addr_width_ \in 1..16 /\ Fits(addr_width_)
    BY <2>1, <2>2
  <2>4. addr_width_ + 1 \in 1..17
    BY <2>3
  <2>5. Power[addr_width_ + 1] \in Nat
    BY <2>4, PowersRise
  <2> QED
    BY <1>1, <2>3, <2>5 DEF MemWords, Fits
<1> QED
  BY <1>2, <1>3

(* ToPhysAddr() never puts two words in the same place.                     *)
LEMMA PlacesDiffer ==
  ASSUME NEW nonce, NEW v \in MemWords, NEW w \in MemWords,
         repeat_keystream_ \in BOOLEAN, kind \in Kinds
  PROVE  /\ ToPhysAddr(v, nonce) \in Nat
         /\ ToPhysAddr(v, nonce) = ToPhysAddr(w, nonce) => v = w
<1> DEFINE W == addr_width_
           bytes(u) == AddrIntToBytes(u, W)
           out(u) == scramble_addr(bytes(u), W, nonce, GetNonceWidth)
<1>1. v \in Nat /\ w \in Nat
  BY Sizes DEF MemWords
<1>2. CASE kind # "scrambled"
  BY <1>1, <1>2 DEF ToPhysAddr
<1>3. CASE kind = "scrambled"
  <2>1. W \in 1..16 /\ v < Power[W + 1] /\ w < Power[W + 1]
    BY <1>3, AddrWidth
  <2> HIDE DEF W
  <2>2. ASSUME NEW u \in Nat, u < Power[W + 1]
        PROVE  bytes(u) = Number(u) /\ bytes(u) \in SUBSET Ones(W)
    <3> DEFINE full == 8 * ((W + 7) \div 8)
    <3>1. full \in Nat /\ W <= full
      BY <2>1
    <3>2. bytes(u) = Field(Number(u), 0, full)
      BY DEF AddrIntToBytes
    <3> HIDE DEF full
    <3>3. Number(u) \in SUBSET (0..(W - 1))
      BY <2>1, <2>2, NumberBelow
    <3>4. Number(u) \in SUBSET Ones(full)
      BY <2>1, <3>1, <3>3 DEF Ones
    <3>5. Field(Number(u), 0, full) = Number(u)
      BY <3>1, <3>4, WholeField
    <3> QED
      BY <3>2, <3>3, <3>5 DEF Ones
  <2>3. GetNonceWidth \in Int
    BY Widths DEF GetNonceWidth, GetPrinceReplications
  <2>4. \A u : ToPhysAddr(u, nonce) = Value(out(u))
    BY <1>3 DEF ToPhysAddr, AddrBytesToInt, W
  <2>5. bytes(v) \in SUBSET Ones(W) /\ bytes(w) \in SUBSET Ones(W) /\ (bytes(v) = bytes(w) => v = w)
    <3>1. bytes(v) = Number(v) /\ bytes(w) = Number(w) /\ bytes(v) \in SUBSET Ones(W) /\ bytes(w) \in SUBSET Ones(W)
      <4> HIDE DEF bytes
      <4> QED
        BY <1>1, <2>1, <2>2
    <3>2. v < Power[17] /\ w < Power[17]
      <4>1. W + 1 \in 1..17 /\ 17 \in 1..17 /\ W + 1 <= 17
        BY <2>1
      <4>2. Power[W + 1] \in Nat /\ Power[17] \in Nat /\ Power[W + 1] <= Power[17]
        BY <4>1, PowersRise
      <4> QED
        BY <1>1, <2>1, <4>2
    <3>3. Number(v) = Number(w) => v = w
      BY <1>1, <3>2, NumberOneToOne
    <3> QED
      BY <3>1, <3>3
  <2> HIDE DEF bytes
  <2>6. out(v) \in SUBSET Ones(W) /\ out(w) \in SUBSET Ones(W) /\ (out(v) = out(w) => bytes(v) = bytes(w))
    BY <2>1, <2>3, <2>5, AddrOneToOne
  <2> HIDE DEF out
  <2>7. out(v) \in SUBSET (0..15) /\ out(w) \in SUBSET (0..15)
    BY <2>1, <2>6 DEF Ones
  <2>8. Value(out(v)) = Value(out(w)) => out(v) = out(w)
    BY <2>7, ValueOneToOne
  <2>9. Value(out(v)) \in Nat
    BY DigitsAreNumbers DEF Value
  <2> QED
    BY <2>4, <2>5, <2>6, <2>8, <2>9
<1> QED
  BY <1>2, <1>3

-----------------------------------------------------------------------------
(* The inductive invariant.                                                 *)

(* A word of the design's memory as it was before it was scrambled, and     *)
(* where word w of the area is.                                             *)
Clear(w, v) == IF kind = "scrambled" THEN Xor(v, KeystreamFor(w, stack.nonce, stack.key)) ELSE v

Place(w) == ToPhysAddr(w, stack.nonce)

TypeInv ==
  /\ kind \in {"plain", "ecc", "scrambled"} /\ kind \in Kinds
  /\ repeat_keystream_ \in BOOLEAN
  /\ kind = "scrambled" => stack.key \in Keys /\ stack.nonce \in Nonces
  /\ settled \in BOOLEAN
  /\ mem \in [MemWords -> SUBSET Ones(MemWidth)]
  /\ flipped \in [MemWords -> SUBSET Ones(MemWidth)]
  /\ DOMAIN written = MemWords

(* What a word was last asked to hold.                                      *)
IsAsked(asked) ==
  /\ asked.bytes \in 0..width_byte_
  /\ asked.bits \in SUBSET Ones(8 * width_byte_)
  /\ kind = "plain" => asked.bits \in SUBSET Ones(8 * asked.bytes)
  /\ asked.good \in [1..Width32 -> BOOLEAN]

(* 39 bits are lane k of what was asked for.                                *)
LaneHolds(bits, asked, k) ==
  \E word \in SUBSET Ones(32) :
    /\ bits = Coded([good |-> asked.good[k], word |-> word])
    /\ \A q \in 0..31 : q \in word <=> q + 32 * (k - 1) \in asked.bits

(* A word of the memory, in clear, is what was asked for.                   *)
Holds(clear, asked) ==
  IF kind = "plain" THEN clear = asked.bits
  ELSE \A k \in 1..Width32 : LaneHolds(Field(clear, 39 * (k - 1), 39), asked, k)

(* But for the flipped bits, every word that was written is in its place.   *)
Kept(w) ==
  /\ Place(w) \in MemWords
  /\ IsAsked(written[w])
  /\ Holds(Clear(w, Xor(mem[Place(w)], flipped[Place(w)])), written[w])

WrittenInv == \A w \in MemWords : written[w] # None => Kept(w)

CallInv ==
  /\ call.op = "Write" => call.data \in Data
  /\ call.op \in {"WriteWithIntegrity", "ReadWithIntegrity"} => kind # "plain"
  /\ outcome = "running" =>
       /\ call.op \in {"Write", "WriteWithIntegrity", "Read", "ReadWithIntegrity"}
       /\ call.off \in Nat /\ call.num \in Nat /\ call.off + call.num <= NumWords
       /\ nth \in 0..(call.num - 1)
       /\ call.op = "Write" => call.num = (call.data.bytes + width_byte_ - 1) \div width_byte_
       /\ call.op = "WriteWithIntegrity" =>
            call.data \in EccData /\ call.num = Len(call.data) \div Width32

(* What a read makes of word w as it is.                                    *)
Got(op, w) ==
  LET clear == Clear(w, mem[Place(w)])
  IN  IF op = "ReadWithIntegrity" THEN ReadBufferWithIntegrity(clear)
      ELSE IF kind = "plain" THEN clear ELSE EccReadBuffer(clear)

RetInv ==
  call.op \in {"Read", "ReadWithIntegrity"} =>
    /\ ret \in Seq({Got(call.op, w) : w \in MemWords})
    /\ outcome = "running" => Len(ret) = nth
    /\ \A k \in 1..Len(ret) :
         LET w == call.off + k - 1
         IN  w \in MemWords /\ Place(w) \in MemWords /\ ret[k] = Got(call.op, w)

IInv == TypeInv /\ (settled => WrittenInv /\ CallInv /\ RetInv)

-----------------------------------------------------------------------------
(* What a write puts into a word is what it was asked to put there.         *)
LEMMA FullWords ==
  ASSUME NEW len \in Nat, NEW n \in Nat, NEW w \in Nat \ {0}, n < len \div w
  PROVE  n * w + w <= len /\ n * w \in Nat /\ (n + 1) * w = n * w + w
<1> DEFINE q == len \div w
           r == len % w
<1>1. q \in Nat /\ r \in 0..(w - 1) /\ len = w * q + r
  OBVIOUS
<1>2. n < q
  OBVIOUS
<1> HIDE DEF q, r
<1>3. PICK t \in Nat : q = n + 1 + t
  <2>1. q - n - 1 \in Nat /\ q = n + 1 + (q - n - 1)
    BY <1>1, <1>2
  <2> QED
    BY <2>1
<1>4. w * q = n * w + w + w * t
  BY <1>3
<1>5. w * t \in Nat /\ n * w \in Nat
  BY <1>3
<1>6. (n + 1) * w = n * w + w
  OBVIOUS
<1> QED
  BY <1>1, <1>4, <1>5, <1>6

(* Every word that Write() goes through starts within the data.             *)
LEMMA SomeBytes ==
  ASSUME NEW len \in Nat, NEW n \in Nat, NEW w \in Nat \ {0}, n < (len + w - 1) \div w
  PROVE  n * w < len /\ n * w \in Nat
<1> DEFINE up == len + w - 1
<1>1. up \in Nat /\ up - w = len - 1
  OBVIOUS
<1>2. n < up \div w
  OBVIOUS
<1> HIDE DEF up
<1>3. n * w + w <= up /\ n * w \in Nat
  BY <1>1, <1>2, FullWords
<1> QED
  BY <1>1, <1>3 DEF up

(* The lanes of the word being written.                                     *)
WordLanes(stray) ==
  IF call.op = "WriteWithIntegrity"
  THEN SubSeq(call.data, nth * Width32 + 1, (nth + 1) * Width32)
  ELSE Lanes(call.data, nth * width_byte_, stray)

Writing ==
  /\ TypeInv /\ CallInv
  /\ outcome = "running" /\ call.op \in {"Write", "WriteWithIntegrity"}

(* Where the vector given to Write() has bits for the word, and how many.   *)
LEMMA GivenToWrite ==
  ASSUME Writing, call.op = "Write", NEW stray
  PROVE  LET start  == nth * width_byte_
             given  == Min({call.data.bytes - start, width_byte_})
             source == call.data.bits \cup Shl(stray, 8 * call.data.bytes)
         IN  /\ start \in Nat /\ given \in 0..width_byte_
             /\ start + given <= call.data.bytes
             /\ given = width_byte_ \/ start + given = call.data.bytes
             /\ call.data.bytes \in Nat
             /\ call.data.bits \in SUBSET Ones(8 * call.data.bytes)
             /\ Asked(stray) = [bits  |-> Field(source, 8 * start, 8 * width_byte_),
                                bytes |-> given, good |-> [k \in 1 .. Width32 |-> TRUE]]
<1> DEFINE start == nth * width_byte_
           bytes == call.data.bytes
           given == Min({bytes - start, width_byte_})
           source == call.data.bits \cup Shl(stray, 8 * bytes)
<1>1. call.data \in Data /\ nth \in Nat /\ nth < (bytes + width_byte_ - 1) \div width_byte_
  BY DEF Writing, CallInv
<1>2. bytes \in Nat /\ call.data.bits \in SUBSET Ones(8 * bytes)
  BY <1>1, DataAssumption
<1>3. width_byte_ \in Nat \ {0}
  BY Sizes DEF width_byte_
<1>4. start < bytes /\ start \in Nat
  BY <1>1, <1>2, <1>3, SomeBytes
<1>5. Asked(stray) = [bits  |-> Field(source, 8 * start, 8 * width_byte_),
                     bytes |-> given, good |-> [k \in 1 .. Width32 |-> TRUE]]
  BY DEF Asked
<1> HIDE DEF start, bytes, source
<1>6. given = IF bytes - start <= width_byte_ THEN bytes - start ELSE width_byte_
  <2>1. bytes - start \in Int /\ width_byte_ \in Int
    BY <1>2, <1>3, <1>4
  <2> QED
    BY <2>1, MinOfTwo
<1> HIDE DEF given
<1>7. /\ given \in 0..width_byte_ /\ start + given <= bytes
      /\ given = width_byte_ \/ start + given = bytes
  BY <1>2, <1>3, <1>4, <1>6
<1> QED
  BY <1>2, <1>4, <1>5, <1>7 DEF start, bytes, given, source

(* MemArea::WriteBuffer() fills a word with the data's next bytes, and with *)
(* zeros behind them.                                                       *)
LEMMA PlainWord ==
  ASSUME Writing, call.op = "Write"
  PROVE  /\ Field(PlainWriteBuffer(minibuf, call.data, nth * width_byte_), 0, 32 * Width32)
              = Asked({}).bits
         /\ Asked({}).bits \in SUBSET Ones(8 * Asked({}).bytes)
<1> DEFINE start == nth * width_byte_
           bytes == call.data.bytes
           bits  == call.data.bits
           given == Min({bytes - start, width_byte_})
           source == bits \cup Shl({}, 8 * bytes)
           all   == Field(source, 8 * start, 8 * width_byte_)
           f     == Field(bits, 8 * start, 8 * given)
           rest  == IF given < width_byte_ THEN {} ELSE minibuf \ Ones(8 * given)
           W     == 32 * Width32
<1>1. /\ start \in Nat /\ given \in 0..width_byte_ /\ bytes \in Nat
      /\ given = width_byte_ \/ start + given = bytes
      /\ bits \in SUBSET Ones(8 * bytes)
      /\ Asked({}).bits = all /\ Asked({}).bytes = given
  <2> DEFINE x == {}
             want == [bits |-> Field(bits \cup Shl(x, 8 * bytes), 8 * start, 8 * width_byte_),
                      bytes |-> given, good |-> [k \in 1 .. Width32 |-> TRUE]]
  <2>1. /\ start \in Nat /\ given \in 0..width_byte_ /\ bytes \in Nat
        /\ given = width_byte_ \/ start + given = bytes
        /\ bits \in SUBSET Ones(8 * bytes)
        /\ Asked(x) = want
    <3> HIDE DEF x
    <3> QED
      BY GivenToWrite
  <2>2. want.bits = all /\ want.bytes = given
    BY Zenon
  <2> HIDE DEF want, all, given, start, bytes, bits
  <2>3. Asked({}) = want
    BY <2>1
  <2> QED
    BY <2>1, <2>2, <2>3
<1>2. PlainWriteBuffer(minibuf, call.data, start) = rest \cup f
  BY DEF PlainWriteBuffer
<1>3. width_byte_ \in Nat /\ W = 8 * width_byte_ /\ W \in Int
  BY Widths, Sizes DEF width_byte_
<1>4. source = bits
  BY DEF Shl
<1> HIDE DEF start, given, bytes, bits, source
<1>5. f \subseteq Ones(8 * given)
  BY <1>1, <1>3, FieldIsOnes
<1>6. all = f
  <2> DEFINE lo == 8 * start
             n == 8 * given
             m == 8 * width_byte_
  <2>1. lo \in Int /\ n \in Int /\ m \in Int /\ n <= m
    BY <1>1, <1>3
  <2>2. \A p \in n..(m - 1) : p + lo \notin bits
    BY <1>1, <1>3 DEF Ones
  <2>3. \A p : p \in Field(bits, lo, m) <=> p \in 0..(m - 1) /\ p + lo \in bits
    <3> HIDE DEF lo, m
    <3> QED
      BY <2>1, InField
  <2>4. \A p : p \in Field(bits, lo, n) <=> p \in 0..(n - 1) /\ p + lo \in bits
    <3> HIDE DEF lo, n
    <3> QED
      BY <2>1, InField
  <2> HIDE DEF lo, n, m
  <2>5. \A p : p \in 0..(m - 1) <=> p \in 0..(n - 1) \/ (p \in 0..(m - 1) /\ p \in n..(m - 1))
    BY <2>1
  <2>6. \A p : p \in Field(bits, lo, m) <=> p \in Field(bits, lo, n)
    BY <2>2, <2>3, <2>4, <2>5, Zenon
  <2>7. Field(bits, lo, m) = Field(bits, lo, n)
    BY <2>6
  <2> QED
    BY <1>4, <2>7 DEF lo, n, m
<1>7. f \in SUBSET (0..(W - 1))
  <2>1. \A p \in 0..((8 * given) - 1) : p \in 0..(W - 1)
    BY <1>1, <1>3
  <2> HIDE DEF f
  <2> QED
    BY <1>5, <2>1 DEF Ones
<1>8. \A p \in 0..(W - 1) : p \notin rest
  BY <1>1, <1>3 DEF Ones
<1> HIDE DEF f, rest, W, all
<1>9. \A p : p \in Field(rest \cup f, 0, W) <=> p \in f
  <2> TAKE p
  <2>1. p \in Field(rest \cup f, 0, W) <=> p \in 0..(W - 1) /\ p + 0 \in rest \cup f
    BY <1>3, InField
  <2>2. p \in 0..(W - 1) => p + 0 = p
    BY <1>3
  <2> QED
    BY <1>7, <1>8, <2>1, <2>2
<1>10. Field(rest \cup f, 0, W) = f
  BY <1>9
<1> QED
  BY <1>1, <1>2, <1>5, <1>6, <1>10 DEF start, W

(* Every lane of the word has 32 bits, the flag that was asked for, and the *)
(* bits that were.                                                          *)
LaneAsked(lane, asked, k) ==
  /\ lane.word \in SUBSET Ones(32)
  /\ lane.good = asked.good[k]
  /\ \A q \in 0..31 : q \in lane.word <=> q + 32 * (k - 1) \in asked.bits

(* Ecc32MemArea::WriteBuffer() fills the lanes with them, reading on behind *)
(* the data where it ends.                                                  *)
LEMMA LanesOfVector ==
  ASSUME Writing, call.op = "Write", NEW stray, NEW k \in 1..Width32
  PROVE  LaneAsked(WordLanes(stray)[k], Asked(stray), k)
<1> DEFINE start == nth * width_byte_
           source == call.data.bits \cup Shl(stray, 8 * call.data.bytes)
           at    == 8 * (start + 4 * (k - 1))
           word  == Field(source, at, 32)
           all   == Field(source, 8 * start, 8 * width_byte_)
<1>1. /\ start \in Nat /\ Asked(stray).bits = all
      /\ Asked(stray).good = [i \in 1 .. Width32 |-> TRUE]
  <2> DEFINE want == [bits |-> all, bytes |-> Min({call.data.bytes - start, width_byte_}),
                      good |-> [i \in 1 .. Width32 |-> TRUE]]
  <2>1. start \in Nat /\ Asked(stray) = want
    BY GivenToWrite
  <2>2. want.bits = all /\ want.good = [i \in 1 .. Width32 |-> TRUE]
    BY Zenon
  <2> HIDE DEF want, all, start
  <2> QED
    BY <2>1, <2>2
<1>2. WordLanes(stray)[k] = [good |-> TRUE, word |-> word]
  BY DEF WordLanes, Lanes
<1>3. Width32 \in Nat /\ width_byte_ \in Nat /\ 8 * width_byte_ = 32 * Width32
  BY Widths, Sizes DEF width_byte_
<1> HIDE DEF start, source
<1>4. word \in SUBSET Ones(32)
  <2>1. at \in Int
    BY <1>1
  <2> QED
    BY <2>1, FieldIsOnes
<1>5. ASSUME NEW q \in 0..31
      PROVE  q \in word <=> q + 32 * (k - 1) \in all
  <2> DEFINE x == q + 32 * (k - 1)
             lo == 8 * start
             m == 8 * width_byte_
  <2>1. at \in Int /\ q + at = x + lo /\ x \in 0..(m - 1) /\ lo \in Int /\ m \in Int
    BY <1>1, <1>3
  <2>2. q \in word <=> q \in 0..(32 - 1) /\ q + at \in source
    BY <2>1, InField
  <2> HIDE DEF x, lo, m
  <2>3. x \in Field(source, lo, m) <=> x \in 0..(m - 1) /\ x + lo \in source
    BY <2>1, InField
  <2> HIDE DEF at, word
  <2>4. q \in word <=> x \in Field(source, lo, m)
    BY <2>1, <2>2, <2>3
  <2> QED
    BY <2>4 DEF x, lo, m
<1> HIDE DEF word, all
<1> QED
  BY <1>1, <1>2, <1>4, <1>5 DEF LaneAsked

(* The lanes that WriteWithIntegrity() is given.                            *)
LEMMA GivenLanes ==
  ASSUME Writing, call.op = "WriteWithIntegrity"
  PROVE  LET lane(k) == call.data[nth * Width32 + k] IN
         /\ \A k \in 1..Width32 : lane(k) \in [good : BOOLEAN, word : SUBSET Ones(32)]
         /\ \A stray : \A k \in 1..Width32 : WordLanes(stray)[k] = lane(k)
         /\ \A stray :
              Asked(stray) = [bits  |-> UNION {Shl(lane(k).word, 32 * (k - 1)) : k \in 1 .. Width32},
                              bytes |-> width_byte_, good |-> [k \in 1 .. Width32 |-> lane(k).good]]
<1> DEFINE lane(k) == call.data[nth * Width32 + k]
           d == call.data
           L == [good : BOOLEAN, word : SUBSET Ones(32)]
           base == nth * Width32
<1>1. d \in EccData /\ nth \in Nat /\ nth < Len(d) \div Width32
  BY DEF Writing, CallInv
<1>2. d \in Seq(L)
  BY <1>1, DataAssumption
<1>3. Width32 \in Nat \ {0}
  BY Sizes
<1> HIDE DEF d, L
<1>4. Len(d) \in Nat
  BY <1>2
<1>5. base + Width32 <= Len(d) /\ base \in Nat /\ (nth + 1) * Width32 = base + Width32
  BY <1>1, <1>3, <1>4, FullWords
<1>6. \A k \in 1..Width32 : d[base + k] \in L
  <2> HIDE DEF base
  <2> QED
    BY <1>2, <1>3, <1>4, <1>5
<1>7. \A k \in 1..Width32 : SubSeq(d, base + 1, base + Width32)[k] = d[base + k]
  <2> HIDE DEF base
  <2> TAKE k \in 1..Width32
  <2>1. (base + 1) + k - 1 = base + k /\ k \in 1..((base + Width32) - (base + 1) + 1)
    BY <1>3, <1>5
  <2> QED
    BY <1>2, <1>3, <1>5, <2>1
<1>8. \A stray : WordLanes(stray) = SubSeq(d, base + 1, (nth + 1) * Width32)
  BY DEF WordLanes, d
<1>9. \A stray : \A k \in 1..Width32 : WordLanes(stray)[k] = d[base + k]
  <2> HIDE DEF base
  <2> QED
    BY <1>5, <1>7, <1>8
<1>10. \A stray :
         Asked(stray) = [bits  |-> UNION {Shl(lane(k).word, 32 * (k - 1)) : k \in 1 .. Width32},
                         bytes |-> width_byte_, good |-> [k \in 1 .. Width32 |-> lane(k).good]]
  BY DEF Asked
<1> QED
  BY <1>6, <1>9, <1>10 DEF d, L

(* The lanes of a word next to each other.                                  *)
LEMMA InUnion ==
  ASSUME NEW word, \A k \in 1..Width32 : word[k] \in SUBSET Ones(32)
  PROVE  LET all == UNION {Shl(word[k], 32 * (k - 1)) : k \in 1 .. Width32}
         IN  /\ all \in SUBSET Ones(32 * Width32)
             /\ \A k \in 1..Width32 : \A q \in 0..31 : q + 32 * (k - 1) \in all <=> q \in word[k]
<1> DEFINE all == UNION {Shl(word[k], 32 * (k - 1)) : k \in 1 .. Width32}
<1>0. Width32 \in Nat
  BY Sizes
<1>1. \A k \in 1..Width32 : word[k] \in SUBSET Int /\ \A r \in word[k] : r \in 0..31
  BY DEF Ones
<1>2. \A k \in 1..Width32 : \A p : p \in Shl(word[k], 32 * (k - 1)) <=> p \in Int /\ p - 32 * (k - 1) \in word[k]
  <2> TAKE k \in 1..Width32
  <2> TAKE p
  <2>1. 32 * (k - 1) \in Int /\ word[k] \in SUBSET Int
    BY <1>1
  <2> QED
    BY <2>1, InShl
<1>3. \A p : p \in all <=> p \in Int /\ \E k \in 1..Width32 : p - 32 * (k - 1) \in word[k]
  BY <1>2
<1> HIDE DEF all
<1>4. ASSUME NEW p \in all PROVE p \in Ones(32 * Width32)
  <2>1. PICK k \in 1..Width32 : p \in Int /\ p - 32 * (k - 1) \in word[k]
    BY <1>3
  <2>2. p - 32 * (k - 1) \in 0..31
    BY <1>1, <2>1
  <2> QED
    BY <1>0, <2>1, <2>2 DEF Ones
<1>5. ASSUME NEW k \in 1..Width32, NEW q \in 0..31
      PROVE  q + 32 * (k - 1) \in all <=> q \in word[k]
  <2> DEFINE p == q + 32 * (k - 1)
  <2>1. p \in Int /\ p - 32 * (k - 1) = q
    OBVIOUS
  <2>2. ASSUME NEW i \in 1..Width32, p - 32 * (i - 1) \in word[i]
        PROVE  i = k
    <3>1. p - 32 * (i - 1) \in 0..31
      BY <1>1, <2>2
    <3> QED
      BY <3>1
  <2> HIDE DEF p
  <2>3. p \in all <=> q \in word[k]
    BY <1>3, <2>1, <2>2
  <2> QED
    BY <2>3 DEF p
<1> QED
  BY <1>4, <1>5 DEF all

(* Ecc32MemArea::WriteBufferWithIntegrity() fills the lanes with those.     *)
LEMMA LanesOfLanes ==
  ASSUME Writing, call.op = "WriteWithIntegrity", NEW stray, NEW k \in 1..Width32
  PROVE  LaneAsked(WordLanes(stray)[k], Asked(stray), k)
<1> DEFINE lane(i) == call.data[nth * Width32 + i]
           word == [i \in 1..Width32 |-> lane(i).word]
           all  == UNION {Shl(lane(i).word, 32 * (i - 1)) : i \in 1 .. Width32}
           every == UNION {Shl(word[i], 32 * (i - 1)) : i \in 1 .. Width32}
<1>1. \A i \in 1..Width32 : lane(i) \in [good : BOOLEAN, word : SUBSET Ones(32)]
  BY GivenLanes
<1>2. WordLanes(stray)[k] = lane(k)
  BY GivenLanes
<1>3. Asked(stray) = [bits |-> all, bytes |-> width_byte_, good |-> [i \in 1 .. Width32 |-> lane(i).good]]
  BY GivenLanes
<1> HIDE DEF lane
<1>4. \A i \in 1..Width32 : word[i] \in SUBSET Ones(32) /\ word[i] = lane(i).word
  BY <1>1
<1> HIDE DEF word
<1>5. all = every
  BY <1>4
<1>6. \A i \in 1..Width32 : \A q \in 0..31 : q + 32 * (i - 1) \in every <=> q \in word[i]
  BY <1>4, InUnion
<1> HIDE DEF all, every
<1>7. lane(k).word \in SUBSET Ones(32) /\ Asked(stray).good[k] = lane(k).good
  BY <1>1, <1>3
<1>8. \A q \in 0..31 : q \in lane(k).word <=> q + 32 * (k - 1) \in Asked(stray).bits
  <2>1. Asked(stray).bits = every
    BY <1>3, <1>5
  <2>2. word[k] = lane(k).word
    BY <1>4
  <2>3. \A q \in 0..31 : q + 32 * (k - 1) \in every <=> q \in word[k]
    BY <1>6
  <2> QED
    BY <2>1, <2>2, <2>3, Zenon
<1> QED
  BY <1>2, <1>7, <1>8 DEF LaneAsked

(* In both calls, the lanes are what was asked for.                         *)
LEMMA WordLanesAsked ==
  ASSUME Writing, NEW stray \in Behind, NEW k \in 1..Width32
  PROVE  LaneAsked(WordLanes(stray)[k], Asked(stray), k)
BY LanesOfVector, LanesOfLanes DEF Writing

(* What was asked for is as wide as the word.                               *)
LEMMA AskedIsAsked ==
  ASSUME Writing, NEW stray \in Behind
  PROVE  IsAsked(Asked(stray))
<1>0. Width32 \in Nat /\ width_byte_ \in Nat /\ 8 * width_byte_ = 32 * Width32
  BY Widths, Sizes DEF width_byte_
<1>1. CASE call.op = "Write"
  <2> DEFINE start == nth * width_byte_
             given == Min({call.data.bytes - start, width_byte_})
             source == call.data.bits \cup Shl(stray, 8 * call.data.bytes)
             bits == Field(source, 8 * start, 8 * width_byte_)
  <2>1. /\ start \in Nat /\ given \in 0..width_byte_
        /\ Asked(stray) = [bits |-> bits, bytes |-> given, good |-> [k \in 1 .. Width32 |-> TRUE]]
    BY <1>1, GivenToWrite
  <2> HIDE DEF start, given, source
  <2>2. bits \in SUBSET Ones(8 * width_byte_)
    BY <1>0, <2>1, FieldIsOnes
  <2> HIDE DEF bits
  <2>3. ASSUME kind = "plain"
        PROVE  Asked(stray).bits \in SUBSET Ones(8 * Asked(stray).bytes)
    <3>1. stray = {}
      BY <2>3 DEF Behind
    <3> QED
      BY <1>1, <3>1, PlainWord
  <2> QED
    BY <2>1, <2>2, <2>3 DEF IsAsked
<1>2. CASE call.op = "WriteWithIntegrity"
  <2> DEFINE lane(i) == call.data[nth * Width32 + i]
             word == [i \in 1..Width32 |-> lane(i).word]
             all  == UNION {Shl(lane(i).word, 32 * (i - 1)) : i \in 1 .. Width32}
             every == UNION {Shl(word[i], 32 * (i - 1)) : i \in 1 .. Width32}
  <2>1. \A i \in 1..Width32 : lane(i) \in [good : BOOLEAN, word : SUBSET Ones(32)]
    BY <1>2, GivenLanes
  <2>2. Asked(stray) = [bits |-> all, bytes |-> width_byte_, good |-> [i \in 1 .. Width32 |-> lane(i).good]]
    BY <1>2, GivenLanes
  <2> HIDE DEF lane
  <2>3. \A i \in 1..Width32 : word[i] \in SUBSET Ones(32) /\ word[i] = lane(i).word
    BY <2>1
  <2> HIDE DEF word
  <2>4. all = every
    BY <2>3
  <2>5. every \in SUBSET Ones(32 * Width32)
    BY <2>3, InUnion
  <2> HIDE DEF all, every
  <2>6. [i \in 1 .. Width32 |-> lane(i).good] \in [1..Width32 -> BOOLEAN]
    BY <2>1
  <2>7. kind # "plain"
    BY <1>2 DEF Writing, CallInv
  <2> QED
    BY <1>0, <2>2, <2>4, <2>5, <2>6, <2>7 DEF IsAsked
<1> QED
  BY <1>1, <1>2 DEF Writing

(* An asked lane, once coded, holds what was asked for.                     *)
LEMMA CodedHolds ==
  ASSUME NEW lane, NEW asked, NEW k, LaneAsked(lane, asked, k)
  PROVE  LaneHolds(Coded(lane), asked, k)
<1> DEFINE same == [good |-> asked.good[k], word |-> lane.word]
<1>1. same.good = lane.good /\ same.word = lane.word
  BY DEF LaneAsked
<1> HIDE DEF same
<1>2. Coded(same) = Coded(lane)
  BY <1>1 DEF Coded, CheckBits
<1> QED
  BY <1>2 DEF LaneAsked, LaneHolds, same

(* In clear, the word in the design's memory is the lanes next to each      *)
(* other, also where the buffer has been scrambled.                         *)
LEMMA FilledClear ==
  ASSUME Writing, kind # "plain", NEW p, NEW stray \in Behind,
         p.nonce = stack.nonce, p.key = stack.key, Word \in MemWords
  PROVE  Clear(Word, Field(Filled(p, stray), 0, MemWidth))
           = Field(EccWriteBuffer(minibuf, WordLanes(stray)), 0, 39 * Width32)
<1> DEFINE coded == EccWriteBuffer(minibuf, WordLanes(stray))
           ks == KeystreamFor(Word, stack.nonce, stack.key)
           W == 39 * Width32
<1>1. MemWidth = W
  BY DEF MemWidth
<1>2. CASE kind = "ecc"
  <2>1. Filled(p, stray) = coded
    BY <1>2 DEF Filled, WordLanes
  <2> QED
    BY <1>1, <1>2, <2>1 DEF Clear
<1>3. CASE kind = "scrambled"
  <2>1. Filled(p, stray) = ScrambleBuffer(coded, Word, p.nonce, p.key)
    BY <1>3 DEF Filled, WordLanes
  <2>2. ks \in SUBSET Ones(W)
    BY <1>3, KeystreamFits DEF Writing, TypeInv
  <2>3. Field(ScrambleBuffer(coded, Word, p.nonce, p.key), 0, W) = Xor(Field(coded, 0, W), ks)
    <3> HIDE DEF coded
    <3> QED
      BY <2>2, ScrambledWrite
  <2>4. Clear(Word, Field(Filled(p, stray), 0, MemWidth)) = Xor(Xor(Field(coded, 0, W), ks), ks)
    <3> HIDE DEF coded, ks
    <3> QED
      BY <1>1, <1>3, <2>1, <2>3 DEF Clear, ks
  <2> QED
    BY <2>4, XorTwice
<1> QED
  BY <1>2, <1>3 DEF Writing, TypeInv

(* The buffer that goes to the design holds it, in all three kinds of area. *)
LEMMA FilledHolds ==
  ASSUME Writing, NEW p, NEW stray \in Behind,
         p.nonce = stack.nonce, p.key = stack.key, Word \in MemWords
  PROVE  Holds(Clear(Word, Field(Filled(p, stray), 0, MemWidth)), Asked(stray))
<1>1. CASE kind = "plain"
  <2>1. call.op = "Write"
    BY <1>1 DEF Writing, CallInv
  <2>2. Filled(p, stray) = PlainWriteBuffer(minibuf, call.data, nth * width_byte_)
    BY <1>1 DEF Filled
  <2>3. MemWidth = 32 * Width32
    BY <1>1 DEF MemWidth
  <2>4. stray = {}
    BY <1>1 DEF Behind
  <2>5. Field(Filled(p, stray), 0, MemWidth) = Asked(stray).bits
    BY <2>1, <2>2, <2>3, <2>4, PlainWord
  <2> QED
    BY <1>1, <2>5 DEF Holds, Clear
<1>2. CASE kind # "plain"
  <2> DEFINE coded == EccWriteBuffer(minibuf, WordLanes(stray))
             clear == Clear(Word, Field(Filled(p, stray), 0, MemWidth))
             lanes == WordLanes(stray)
  <2>1. clear = Field(coded, 0, 39 * Width32)
    BY <1>2, FilledClear
  <2>2. \A k \in 1..Width32 : LaneAsked(lanes[k], Asked(stray), k)
    BY WordLanesAsked
  <2> HIDE DEF clear, lanes
  <2>3. ASSUME NEW k \in 1..Width32
        PROVE  LaneHolds(Field(clear, 39 * (k - 1), 39), Asked(stray), k)
    <3> DEFINE at == 39 * (k - 1)
    <3>1. Field(coded, at, 39) = Coded(lanes[k])
      <4>1. \A i \in 1..Width32 : lanes[i].word \in SUBSET Ones(32)
        BY <2>2 DEF LaneAsked
      <4> QED
        BY <4>1, LaneOf DEF lanes
    <3>2. at \in Nat /\ at + 39 <= 39 * Width32 /\ 0 + at = at /\ 39 * Width32 \in Int
      BY Sizes
    <3> HIDE DEF at, coded
    <3>3. Field(Field(coded, 0, 39 * Width32), at, 39) = Field(coded, 0 + at, 39)
      BY <3>2, FieldOfField
    <3>4. Field(clear, at, 39) = Coded(lanes[k])
      BY <2>1, <3>1, <3>2, <3>3
    <3>5. LaneHolds(Coded(lanes[k]), Asked(stray), k)
      BY <2>2, CodedHolds
    <3> QED
      BY <3>4, <3>5 DEF at
  <2> QED
    BY <1>2, <2>3 DEF Holds, clear
<1> QED
  BY <1>1, <1>2

-----------------------------------------------------------------------------
(* Nothing moves while the area and what it finds on the stack are the same.*)
LEMMA Fixed ==
  ASSUME UNCHANGED <<config, stack>>
  PROVE  /\ kind' = kind /\ repeat_keystream_' = repeat_keystream_ /\ stack' = stack
         /\ MemWidth' = MemWidth
         /\ \A w : Place(w)' = Place(w)
         /\ \A w, v : Clear(w, v)' = Clear(w, v)
         /\ \A v, asked : Holds(v, asked)' <=> Holds(v, asked)
<1>1. kind' = kind /\ repeat_keystream_' = repeat_keystream_ /\ stack' = stack
  BY DEF config
<1>2. MemWidth' = MemWidth
  BY <1>1 DEF MemWidth
<1>3. GetNonceWidth' = GetNonceWidth
  BY <1>1 DEF GetNonceWidth, GetPrinceReplications
<1>4. \A w : Place(w)' = Place(w)
  BY <1>1, <1>3 DEF Place, ToPhysAddr
<1>5. \A w, v : Clear(w, v)' = Clear(w, v)
  BY <1>1 DEF Clear, KeystreamFor
<1>6. \A v, asked : Holds(v, asked)' <=> Holds(v, asked)
  BY <1>1 DEF Holds
<1> QED
  BY <1>1, <1>2, <1>4, <1>5, <1>6

(* A step that touches neither the memory nor its history.                  *)
LEMMA MemoryAlone ==
  ASSUME TypeInv, WrittenInv, UNCHANGED <<config, stack, mem, written, flipped>>, settled' \in BOOLEAN
  PROVE  TypeInv' /\ WrittenInv'
<1>1. UNCHANGED <<config, stack>>
  OBVIOUS
<1>2. TypeInv'
  BY <1>1, Fixed DEF TypeInv
<1>3. \A w : Kept(w)' <=> Kept(w)
  <2> TAKE w
  <2>1. Place(w)' = Place(w)
    BY <1>1, Fixed
  <2> DEFINE v == Xor(mem[Place(w)], flipped[Place(w)])
  <2>2. v' = v
    BY <2>1
  <2>3. Clear(w, v)' = Clear(w, v)
    <3>1. \A u : Clear(w, u)' = Clear(w, u)
      BY <1>1, Fixed
    <3> QED
      BY <1>1, <2>2 DEF Clear, KeystreamFor, config
  <2>4. Holds(Clear(w, v), written[w])' <=> Holds(Clear(w, v), written[w])
    BY <1>1, <2>3 DEF Holds, config
  <2>5. IsAsked(written[w])' <=> IsAsked(written[w])
    BY <1>1 DEF IsAsked, config
  <2> QED
    BY <2>1, <2>4, <2>5 DEF Kept
<1>4. WrittenInv'
  BY <1>3 DEF WrittenInv
<1> QED
  BY <1>2, <1>4

(* A call that begins keeps the invariant.                                  *)
LEMMA BeginInv ==
  ASSUME IInv, NEW op \in {"Write", "WriteWithIntegrity", "Read", "ReadWithIntegrity"},
         NEW off \in 0..NumWords, NEW num \in Nat, NEW data, NEW asserted \in BOOLEAN,
         Begin(op, off, num, data, asserted),
         op = "Write" => data \in Data /\ num = (data.bytes + width_byte_ - 1) \div width_byte_,
         op \in {"WriteWithIntegrity", "ReadWithIntegrity"} => kind # "plain",
         op = "WriteWithIntegrity" => data \in EccData /\ num = Len(data) \div Width32
  PROVE  IInv'
<1>1. settled /\ UNCHANGED <<config, mem, stack, settled, written, flipped>>
  BY DEF Begin, Idle
<1>2. TypeInv /\ WrittenInv
  BY <1>1 DEF IInv
<1>3. TypeInv' /\ WrittenInv'
  BY <1>1, <1>2, MemoryAlone DEF TypeInv
<1>4. /\ call'.op = op /\ call'.off = off /\ call'.num = num /\ call'.data = data
      /\ nth' = 0 /\ ret' = <<>>
      /\ outcome' = "running" => off + num <= NumWords /\ num # 0
  BY DEF Begin
<1>5. NumWords \in Nat /\ off \in Nat /\ kind' = kind
  BY <1>1, Sizes DEF config
<1>6. CallInv'
  BY <1>4, <1>5 DEF CallInv
<1>7. RetInv'
  <2>1. <<>> \in Seq({Got(call.op, w) : w \in MemWords})' /\ Len(<<>>) = 0
    OBVIOUS
  <2> QED
    BY <1>4, <2>1 DEF RetInv
<1> QED
  BY <1>3, <1>6, <1>7 DEF IInv

(* So do the four calls.                                                    *)
LEMMA CallsInv ==
  ASSUME IInv, NEW off \in 0..NumWords
  PROVE  /\ \A d \in Data : Write(off, d) => IInv'
         /\ \A d \in EccData : WriteWithIntegrity(off, d) => IInv'
         /\ \A n \in 0..NumWords : Read(off, n) => IInv'
         /\ \A n \in 0..NumWords : ReadWithIntegrity(off, n) => IInv'
<1>0. width_byte_ \in Nat \ {0} /\ Width32 \in Nat \ {0} /\ NumWords \in Nat
  BY Sizes DEF width_byte_
<1>1. ASSUME NEW d \in Data, Write(off, d) PROVE IInv'
  <2> DEFINE num == (d.bytes + width_byte_ - 1) \div width_byte_
  <2>1. num \in Nat
    <3>1. d.bytes \in Nat
      BY DataAssumption
    <3> DEFINE up == d.bytes + width_byte_ - 1
    <3>2. up \in Nat
      BY <1>0, <3>1
    <3> HIDE DEF up
    <3>3. up \div width_byte_ \in Nat
      BY <1>0, <3>2
    <3> QED
      BY <3>3 DEF up
  <2>2. Begin("Write", off, num, d, TRUE)
    BY <1>1 DEF Write
  <2>3. num = (d.bytes + width_byte_ - 1) \div width_byte_
    OBVIOUS
  <2> HIDE DEF num
  <2> QED
    BY <2>1, <2>2, <2>3, BeginInv
<1>2. ASSUME NEW d \in EccData, WriteWithIntegrity(off, d) PROVE IInv'
  <2> DEFINE num == Len(d) \div Width32
             ok == Len(d) % Width32 = 0
  <2>1. num \in Nat
    <3>1. Len(d) \in Nat
      BY DataAssumption
    <3> QED
      BY <1>0, <3>1
  <2>2. Begin("WriteWithIntegrity", off, num, d, ok) /\ kind # "plain" /\ ok \in BOOLEAN
    BY <1>2 DEF WriteWithIntegrity
  <2> HIDE DEF ok
  <2> QED
    BY <2>1, <2>2, BeginInv
<1>3. ASSUME NEW n \in 0..NumWords, Read(off, n) PROVE IInv'
  <2>1. n \in Nat
    BY <1>0, <1>3
  <2>2. Begin("Read", off, n, <<>>, TRUE)
    BY <1>3, Zenon DEF Read
  <2> QED
    BY <2>1, <2>2, BeginInv
<1>4. ASSUME NEW n \in 0..NumWords, ReadWithIntegrity(off, n) PROVE IInv'
  <2>1. n \in Nat
    BY <1>0, <1>4
  <2>2. Begin("ReadWithIntegrity", off, n, <<>>, TRUE) /\ kind # "plain"
    BY <1>4, Zenon DEF ReadWithIntegrity
  <2> QED
    BY <2>1, <2>2, BeginInv
<1> QED
  BY <1>1, <1>2, <1>3, <1>4

(* The word in hand is one of the area.                                     *)
LEMMA WordInRange ==
  ASSUME CallInv, outcome = "running"
  PROVE  Word \in MemWords
BY Sizes DEF CallInv, Word, MemWords

(* A place that the design has not refused is one of its words.             *)
LEMMA PlaceInRange ==
  ASSUME TypeInv, NEW w \in MemWords, ~Throws(Place(w))
  PROVE  Place(w) \in MemWords
<1>1. Place(w) \in Nat
  BY PlacesDiffer DEF Place, TypeInv
<1>2. ~(Place(w) >= NumWords)
  BY DEF Throws
<1> QED
  BY <1>1, <1>2, Sizes DEF MemWords

(* While all reads of the key and the nonce saw the same value, a word is   *)
(* scrambled with it.                                                       *)
LEMMA SettledPick ==
  ASSUME NEW p, Settle(p), settled'
  PROVE  p.at = stack.nonce /\ p.nonce = stack.nonce /\ p.key = stack.key
<1>1. p = [at |-> stack.nonce, nonce |-> stack.nonce, key |-> stack.key]
  BY Zenon DEF Settle
<1> QED
  BY <1>1

(* The next round of the loop is within the call.                           *)
LEMMA AdvanceCall ==
  ASSUME CallInv, outcome = "running", Advance, call' = call, kind' = kind
  PROVE  CallInv'
<1>1. nth' = nth + 1 /\ (outcome' = "running" => nth + 1 # call.num)
  BY DEF Advance
<1>2. nth \in 0..(call.num - 1) /\ call.num \in Nat
  BY DEF CallInv
<1>3. outcome' = "running" => nth' \in 0..(call.num - 1)
  BY <1>1, <1>2
<1> QED
  BY <1>3 DEF CallInv

(* Writing a word keeps the invariant: no other word has the same place.    *)
LEMMA WriteWordInv ==
  ASSUME IInv, WriteWord
  PROVE  IInv'
<1>1. settled /\ outcome = "running" /\ call.op \in {"Write", "WriteWithIntegrity"}
  BY DEF WriteWord, Looping
<1>2. TypeInv /\ WrittenInv /\ CallInv /\ RetInv /\ Writing
  BY <1>1 DEF IInv, Writing
<1>3. UNCHANGED <<config, stack>> /\ call' = call
  BY DEF WriteWord
<1>4. Word \in MemWords
  BY <1>1, <1>2, WordInRange
<1>5. PICK p \in Picks, stray \in Behind :
        LET phys == ToPhysAddr(Word, p.at)
        IN  /\ Settle(p)
            /\ IF Throws(phys) THEN Throw
               ELSE /\ minibuf' = Filled(p, stray)
                    /\ simutil_set_mem(phys, minibuf')
                    /\ written' = [written EXCEPT ![Word] = Asked(stray)]
                    /\ flipped' = [flipped EXCEPT ![phys] = {}]
                    /\ Advance /\ UNCHANGED ret
  BY DEF WriteWord
<1> DEFINE phys == ToPhysAddr(Word, p.at)
<1>6. settled' \in BOOLEAN
  BY <1>5 DEF Settle
<1>7. RetInv'
  BY <1>1, <1>3 DEF RetInv
<1>8. CASE Throws(phys)
  <2>1. UNCHANGED <<mem, written, flipped, nth>> /\ outcome' = "threw"
    BY <1>5, <1>8 DEF Throw
  <2>2. TypeInv' /\ WrittenInv'
    BY <1>2, <1>3, <1>6, <2>1, MemoryAlone
  <2>3. CallInv'
    BY <1>2, <1>3, <2>1 DEF CallInv, config
  <2> QED
    BY <1>7, <2>2, <2>3 DEF IInv
<1>9. CASE ~Throws(phys)
  <2> DEFINE word == Field(Filled(p, stray), 0, MemWidth)
  <2>1. /\ mem' = [mem EXCEPT ![phys] = word]
        /\ written' = [written EXCEPT ![Word] = Asked(stray)]
        /\ flipped' = [flipped EXCEPT ![phys] = {}]
        /\ Advance
    BY <1>5, <1>9 DEF simutil_set_mem
  <2>2. word \in SUBSET Ones(MemWidth)
    <3>1. MemWidth \in Int
      BY Sizes DEF MemWidth
    <3> QED
      BY <3>1, FieldIsOnes
  <2>3. TypeInv'
    <3>1. MemWidth' = MemWidth /\ kind' = kind /\ repeat_keystream_' = repeat_keystream_ /\ stack' = stack
      BY <1>3, Fixed
    <3> HIDE DEF word, phys
    <3> QED
      BY <1>2, <1>6, <2>1, <2>2, <3>1 DEF TypeInv
  <2>4. CallInv'
    BY <1>1, <1>2, <1>3, <2>1, AdvanceCall DEF config
  <2>5. ASSUME settled' PROVE WrittenInv'
    <3>1. p.at = stack.nonce /\ p.nonce = stack.nonce /\ p.key = stack.key
      BY <1>5, <2>5, SettledPick
    <3>2. phys = Place(Word)
      BY <3>1 DEF Place
    <3>3. phys \in MemWords
      BY <1>2, <1>4, <1>9, <3>2, PlaceInRange
    <3>4. Holds(Clear(Word, word), Asked(stray))
      BY <1>2, <1>4, <3>1, FilledHolds
    <3>5. IsAsked(Asked(stray))
      BY <1>2, AskedIsAsked
    <3> HIDE DEF word, phys
    <3>6. \A w : Place(w)' = Place(w)
      BY <1>3, Fixed
    <3>7. \A w \in MemWords : w # Word => Place(w) # phys
      BY <1>2, <1>4, <3>2, PlacesDiffer DEF Place, TypeInv
    <3>8. DOMAIN mem = MemWords /\ DOMAIN flipped = MemWords /\ DOMAIN written = MemWords
      BY <1>2 DEF TypeInv
    <3>9. ASSUME NEW w \in MemWords, written'[w] # None PROVE Kept(w)'
      <4> DEFINE v == Xor(mem[Place(w)], flipped[Place(w)])
      <4>1. CASE w = Word
        <5>1. written'[w] = Asked(stray) /\ mem'[phys] = word /\ flipped'[phys] = {}
          BY <2>1, <3>3, <3>8, <4>1
        <5>2. Place(w)' = phys
          BY <3>2, <3>6, <4>1
        <5>3. v' = word
          BY <5>1, <5>2, XorEmpty
        <5>4. Clear(w, v)' = Clear(Word, word)
          BY <1>3, <4>1, <5>3 DEF Clear, KeystreamFor, config
        <5> HIDE DEF v
        <5>5. Holds(Clear(w, v), written[w])'
          BY <1>3, <3>4, <5>1, <5>4 DEF Holds, config
        <5>6. IsAsked(written[w])'
          BY <1>3, <3>5, <5>1 DEF IsAsked, config
        <5> QED
          BY <3>3, <5>2, <5>5, <5>6 DEF Kept, v
      <4>2. CASE w # Word
        <5>1. written'[w] = written[w]
          BY <2>1, <3>8, <4>2
        <5>2. Kept(w)
          BY <1>2, <3>9, <5>1 DEF WrittenInv
        <5>3. Place(w) # phys /\ Place(w)' = Place(w) /\ Place(w) \in MemWords
          BY <3>6, <3>7, <4>2, <5>2 DEF Kept
        <5>4. mem'[Place(w)] = mem[Place(w)] /\ flipped'[Place(w)] = flipped[Place(w)]
          BY <2>1, <3>8, <5>3
        <5>5. v' = v
          BY <5>3, <5>4
        <5>6. Clear(w, v)' = Clear(w, v)
          BY <1>3, <5>5 DEF Clear, KeystreamFor, config
        <5> HIDE DEF v
        <5>7. Holds(Clear(w, v), written[w])'
          BY <1>3, <5>1, <5>2, <5>6 DEF Holds, config, Kept, v
        <5>8. IsAsked(written[w])'
          BY <1>3, <5>1, <5>2 DEF IsAsked, Kept, config
        <5> QED
          BY <5>3, <5>7, <5>8 DEF Kept, v
      <4> QED
        BY <4>1, <4>2
    <3> QED
      BY <3>9 DEF WrittenInv
  <2> QED
    BY <1>7, <2>3, <2>4, <2>5 DEF IInv
<1> QED
  BY <1>8, <1>9

(* A read makes of the buffer what is there in clear.                       *)
LEMMA TakenIsGot ==
  ASSUME TypeInv, CallInv, call.op \in {"Read", "ReadWithIntegrity"},
         Word \in MemWords, Place(Word) \in MemWords,
         NEW p, p.nonce = stack.nonce, p.key = stack.key
  PROVE  Taken(mem[Place(Word)], p) = Got(call.op, Word)
<1> DEFINE buf == mem[Place(Word)]
<1>1. buf \in SUBSET Ones(MemWidth)
  BY DEF TypeInv
<1> HIDE DEF buf
<1>2. CASE kind = "scrambled"
  <2>1. MemWidth = 39 * Width32
    BY <1>2 DEF MemWidth
  <2>2. ReadUnscrambled(buf, Word, p.nonce, p.key) = Clear(Word, buf)
    BY <1>1, <1>2, <2>1, ScrambledRead DEF Clear
  <2> QED
    BY <1>2, <2>2 DEF Taken, Got, buf
<1>3. CASE kind = "ecc"
  BY <1>3 DEF Taken, Got, Clear
<1>4. CASE kind = "plain"
  <2>1. call.op = "Read"
    BY <1>4 DEF CallInv
  <2>2. MemWidth = 8 * width_byte_ /\ MemWidth \in Int
    BY <1>4, Widths, Sizes DEF MemWidth
  <2>3. Field(buf, 0, MemWidth) = buf
    BY <1>1, <2>2, WholeField
  <2> QED
    BY <1>4, <2>1, <2>2, <2>3 DEF Taken, Got, Clear, buf
<1> QED
  BY <1>2, <1>3, <1>4 DEF TypeInv

(* Reading a word keeps it.                                                 *)
LEMMA ReadWordInv ==
  ASSUME IInv, ReadWord
  PROVE  IInv'
<1>1. settled /\ outcome = "running" /\ call.op \in {"Read", "ReadWithIntegrity"}
  BY DEF ReadWord, Looping
<1>2. TypeInv /\ WrittenInv /\ CallInv /\ RetInv
  BY <1>1 DEF IInv
<1>3. UNCHANGED <<config, stack>> /\ call' = call
  BY DEF ReadWord
<1>4. Word \in MemWords
  BY <1>1, <1>2, WordInRange
<1>5. PICK p \in Picks :
        LET phys == ToPhysAddr(Word, p.at)
        IN  /\ Settle(p)
            /\ IF Throws(phys) THEN Throw
               ELSE /\ minibuf' = mem[phys]
                    /\ ret' = Append(ret, Taken(minibuf', p))
                    /\ Advance /\ UNCHANGED <<mem, written, flipped>>
  BY DEF ReadWord
<1> DEFINE phys == ToPhysAddr(Word, p.at)
<1>6. settled' \in BOOLEAN
  BY <1>5 DEF Settle
<1>7. UNCHANGED <<mem, written, flipped>>
  BY <1>5 DEF Throw
<1>8. TypeInv' /\ WrittenInv'
  BY <1>2, <1>3, <1>6, <1>7, MemoryAlone
<1>9. \A w : Place(w)' = Place(w) /\ Got(call.op, w)' = Got(call.op, w)
  <2> TAKE w
  <2>1. Place(w)' = Place(w)
    BY <1>3, Fixed
  <2> DEFINE v == mem[Place(w)]
  <2>2. v' = v
    BY <1>7, <2>1
  <2>3. Clear(w, v)' = Clear(w, v)
    BY <1>3, <2>2 DEF Clear, KeystreamFor, config
  <2> QED
    BY <1>3, <2>1, <2>3 DEF Got, config
<1> DEFINE all == {Got(call.op, w) : w \in MemWords}
<1>10. all' = all
  BY <1>9
<1>11. ret \in Seq(all) /\ Len(ret) = nth
  BY <1>1, <1>2 DEF RetInv
<1>12. \A k \in 1..Len(ret) :
         LET w == call.off + k - 1
         IN  w \in MemWords /\ Place(w) \in MemWords /\ ret[k] = Got(call.op, w)
  BY <1>1, <1>2 DEF RetInv
<1>13. CASE Throws(phys)
  <2>1. UNCHANGED <<nth, ret>> /\ outcome' = "threw"
    BY <1>5, <1>13 DEF Throw
  <2>2. CallInv'
    BY <1>2, <1>3, <2>1 DEF CallInv, config
  <2>3. RetInv'
    <3> HIDE DEF all
    <3> QED
      BY <1>3, <1>9, <1>10, <1>11, <1>12, <2>1 DEF RetInv, all
  <2> QED
    BY <1>8, <2>2, <2>3 DEF IInv
<1>14. CASE ~Throws(phys)
  <2>1. ret' = Append(ret, Taken(mem[phys], p)) /\ Advance
    BY <1>5, <1>14
  <2>2. CallInv'
    BY <1>1, <1>2, <1>3, <2>1, AdvanceCall DEF config
  <2>3. ASSUME settled' PROVE RetInv'
    <3>1. p.at = stack.nonce /\ p.nonce = stack.nonce /\ p.key = stack.key
      BY <1>5, <2>3, SettledPick
    <3>2. phys = Place(Word)
      BY <3>1 DEF Place
    <3>3. Place(Word) \in MemWords
      BY <1>2, <1>4, <1>14, <3>2, PlaceInRange
    <3> DEFINE new == Got(call.op, Word)
    <3>4. Taken(mem[phys], p) = new
      BY <1>1, <1>2, <1>4, <3>1, <3>2, <3>3, TakenIsGot
    <3>5. new \in all
      BY <1>4
    <3> HIDE DEF new, all
    <3>6. ret' = Append(ret, new)
      BY <2>1, <3>4
    <3>7. /\ ret' \in Seq(all) /\ Len(ret') = nth + 1
          /\ \A k \in 1..nth : ret'[k] = ret[k]
          /\ ret'[nth + 1] = new
      BY <1>11, <3>5, <3>6
    <3>8. nth' = nth + 1 /\ nth \in Nat /\ call.off \in Nat
      BY <1>1, <1>2, <2>1 DEF Advance, CallInv
    <3>9. ASSUME NEW k \in 1..(nth + 1)
          PROVE  LET w == call.off + k - 1
                 IN  w \in MemWords /\ Place(w) \in MemWords /\ ret'[k] = Got(call.op, w)
      <4>1. CASE k \in 1..nth
        BY <1>11, <1>12, <3>7, <4>1
      <4>2. CASE k = nth + 1
        <5>1. call.off + k - 1 = Word
          BY <3>8, <4>2 DEF Word
        <5> QED
          BY <1>4, <3>3, <3>7, <4>2, <5>1 DEF new
      <4> QED
        BY <3>8, <4>1, <4>2
    <3> QED
      BY <1>3, <1>9, <1>10, <3>7, <3>8, <3>9 DEF RetInv, all
  <2> QED
    BY <1>8, <2>2, <2>3 DEF IInv
<1> QED
  BY <1>13, <1>14

(* A file that is loaded replaces the words it gives, and no others.        *)
LEMMA LoadVmemInv ==
  ASSUME IInv, NEW image \in SUBSET Ones(32 * Width32), NEW loaded, LoadVmem(image, loaded)
  PROVE  IInv'
<1>1. settled /\ settled' = settled /\ UNCHANGED <<config, stack>>
  BY DEF LoadVmem, Idle
<1>2. TypeInv /\ WrittenInv
  BY <1>1 DEF IInv
<1>3. call'.op = "LoadVmem" /\ outcome' \in {"returned", "threw"}
  BY DEF LoadVmem, None
<1>4. CallInv' /\ RetInv'
  BY <1>3 DEF CallInv, RetInv
<1>5. CASE ~(kind = "plain" /\ "scope_" \in found)
  <2>1. UNCHANGED <<mem, written, flipped>>
    BY <1>5 DEF LoadVmem
  <2> QED
    BY <1>1, <1>2, <1>4, <2>1, MemoryAlone DEF IInv, TypeInv
<1>6. CASE kind = "plain" /\ "scope_" \in found
  <2> DEFINE asked == [bits |-> image, bytes |-> width_byte_, good |-> [k \in 1 .. Width32 |-> TRUE]]
  <2>1. /\ mem' = [w \in MemWords |-> IF w \in loaded THEN image ELSE mem[w]]
        /\ written' = [w \in MemWords |-> IF w \in loaded THEN asked ELSE written[w]]
        /\ flipped' = [w \in MemWords |-> IF w \in loaded THEN {} ELSE flipped[w]]
    BY <1>6 DEF LoadVmem
  <2>2. MemWidth = 32 * Width32 /\ 8 * width_byte_ = 32 * Width32 /\ width_byte_ \in Nat
    BY <1>6, Widths, Sizes DEF MemWidth, width_byte_
  <2>3. IsAsked(asked)
    BY <2>2 DEF IsAsked
  <2>4. TypeInv'
    <3>1. MemWidth' = MemWidth /\ kind' = kind /\ repeat_keystream_' = repeat_keystream_ /\ stack' = stack
      BY <1>1, Fixed
    <3>2. mem' \in [MemWords -> SUBSET Ones(MemWidth)] /\ flipped' \in [MemWords -> SUBSET Ones(MemWidth)]
      BY <1>2, <2>1, <2>2 DEF TypeInv
    <3> HIDE DEF asked
    <3> QED
      BY <1>1, <1>2, <2>1, <3>1, <3>2 DEF TypeInv
  <2>5. kind' = "plain" /\ kind' = kind
    BY <1>1, <1>6 DEF config
  <2>6. \A w : Place(w) = w /\ Place(w)' = w
    BY <1>6, <2>5 DEF Place, ToPhysAddr
  <2>7. \A w, v : Clear(w, v) = v /\ Clear(w, v)' = v
    BY <1>6, <2>5 DEF Clear
  <2>8. ASSUME NEW w \in MemWords, written'[w] # None
        PROVE  Kept(w)'
    <3> DEFINE v == Xor(mem[w], flipped[w])
    <3>1. v' = written'[w].bits /\ IsAsked(written'[w])
      <4>1. CASE w \in loaded
        <5>1. mem'[w] = image /\ flipped'[w] = {} /\ written'[w] = asked /\ asked.bits = image
          BY <2>1, <4>1
        <5> HIDE DEF asked
        <5> QED
          BY <2>3, <5>1, XorEmpty
      <4>2. CASE w \notin loaded
        <5>1. mem'[w] = mem[w] /\ flipped'[w] = flipped[w] /\ written'[w] = written[w]
          BY <2>1, <4>2
        <5>2. Kept(w)
          BY <1>2, <2>8, <5>1 DEF WrittenInv
        <5>3. Holds(Xor(mem[w], flipped[w]), written[w]) /\ IsAsked(written[w])
          <6>1. Clear(w, Xor(mem[Place(w)], flipped[Place(w)])) = Xor(mem[w], flipped[w])
            BY <2>6, <2>7
          <6> QED
            BY <5>2, <6>1 DEF Kept
        <5> QED
          BY <1>6, <5>1, <5>3 DEF Holds
      <4> QED
        BY <4>1, <4>2
    <3>2. Clear(w, Xor(mem[Place(w)], flipped[Place(w)]))' = v'
      BY <2>5, <2>6 DEF Clear
    <3> HIDE DEF v
    <3>3. Holds(Clear(w, Xor(mem[Place(w)], flipped[Place(w)])), written[w])'
      BY <2>5, <3>1, <3>2 DEF Holds
    <3>4. IsAsked(written[w])'
      BY <2>5, <3>1 DEF IsAsked
    <3> QED
      BY <2>6, <3>3, <3>4 DEF Kept
  <2> QED
    BY <1>4, <2>4, <2>8 DEF IInv, WrittenInv
<1> QED
  BY <1>5, <1>6

(* A flipped bit is accounted for.                                          *)
LEMMA FaultInv ==
  ASSUME IInv, NEW at \in MemWords, NEW flips, Fault(at, flips)
  PROVE  IInv'
<1>1. settled /\ settled' = settled /\ UNCHANGED <<config, stack, written>>
  BY DEF Fault, Idle
<1>2. TypeInv /\ WrittenInv
  BY <1>1 DEF IInv
<1>3. /\ flips \in SUBSET Ones(MemWidth)
      /\ flipped = [v \in MemWords |-> {}]
      /\ mem' = [mem EXCEPT ![at] = Xor(mem[at], flips)]
      /\ flipped' = [flipped EXCEPT ![at] = flips]
      /\ call'.op = "none" /\ outcome' \in {"returned", "threw"}
  BY DEF Fault, Idle, None
<1>4. CallInv' /\ RetInv'
  BY <1>3 DEF CallInv, RetInv
<1>5. UNCHANGED <<config, stack>>
  BY <1>1
<1>6. TypeInv'
  <2>1. MemWidth' = MemWidth /\ kind' = kind /\ repeat_keystream_' = repeat_keystream_ /\ stack' = stack
    BY <1>5, Fixed
  <2>2. Xor(mem[at], flips) \in SUBSET Ones(MemWidth)
    BY <1>2, <1>3 DEF TypeInv, Xor
  <2> QED
    BY <1>1, <1>2, <1>3, <2>1, <2>2 DEF TypeInv
<1>7. \A w \in MemWords : Xor(mem'[w], flipped'[w]) = Xor(mem[w], flipped[w])
  <2> TAKE w \in MemWords
  <2>1. flipped[w] = {} /\ DOMAIN mem = MemWords
    BY <1>2, <1>3 DEF TypeInv
  <2>2. CASE w = at
    <3>1. mem'[w] = Xor(mem[w], flips) /\ flipped'[w] = flips
      BY <1>3, <2>1, <2>2
    <3>2. Xor(Xor(mem[w], flips), flips) = mem[w] /\ Xor(mem[w], {}) = mem[w]
      BY XorTwice, XorEmpty
    <3> QED
      BY <2>1, <3>1, <3>2
  <2>3. CASE w # at
    BY <1>3, <2>1, <2>3
  <2> QED
    BY <2>2, <2>3
<1>8. ASSUME NEW w \in MemWords, written'[w] # None PROVE Kept(w)'
  <2> DEFINE v == Xor(mem[Place(w)], flipped[Place(w)])
  <2>1. Kept(w)
    BY <1>1, <1>2, <1>8 DEF WrittenInv
  <2>2. Place(w)' = Place(w)
    BY <1>5, Fixed
  <2>3. v' = v
    BY <1>7, <2>1, <2>2 DEF Kept
  <2>4. Clear(w, v)' = Clear(w, v)
    BY <1>5, <2>3 DEF Clear, KeystreamFor, config
  <2> HIDE DEF v
  <2>5. Holds(Clear(w, v), written[w])'
    BY <1>1, <2>1, <2>4 DEF Holds, config, Kept, v
  <2>6. IsAsked(written[w])'
    BY <1>1, <2>1 DEF IsAsked, Kept, config
  <2> QED
    BY <2>1, <2>2, <2>5, <2>6 DEF Kept, v
<1> QED
  BY <1>4, <1>6, <1>8 DEF IInv, WrittenInv

(* The invariant holds at first.                                            *)
LEMMA InitInv ==
  ASSUME Init
  PROVE  IInv
<1>1. TypeInv
  <2>1. kind \in {"plain", "ecc", "scrambled"} /\ kind \in Kinds
    BY MemAreasAssumption DEF Init
  <2>2. repeat_keystream_ \in BOOLEAN
    BY Zenon DEF Init
  <2>3. kind = "scrambled" => stack.key \in Keys /\ stack.nonce \in Nonces
    BY DEF Init
  <2>4. /\ mem \in [MemWords -> SUBSET Ones(MemWidth)]
        /\ flipped \in [MemWords -> SUBSET Ones(MemWidth)]
        /\ DOMAIN written = MemWords
    BY Zenon DEF Init
  <2>5. settled \in BOOLEAN
    BY Zenon DEF Init
  <2> QED
    BY <2>1, <2>2, <2>3, <2>4, <2>5 DEF TypeInv
<1>2. \A w \in MemWords : written[w] = None
  BY DEF Init
<1>3. call.op = "none" /\ outcome = "returned"
  BY DEF Init, None
<1> QED
  BY <1>1, <1>2, <1>3 DEF IInv, WrittenInv, CallInv, RetInv

(* Every step keeps the invariant.                                          *)
LEMMA NextInv ==
  ASSUME IInv, [Next]_vars
  PROVE  IInv'
<1>1. CASE \E off \in 0 .. NumWords : \E d \in Data : Write(off, d)
  BY <1>1, CallsInv
<1>2. CASE \E off \in 0 .. NumWords : \E d \in EccData : WriteWithIntegrity(off, d)
  BY <1>2, CallsInv
<1>3. CASE \E off \in 0 .. NumWords : \E n \in 0 .. NumWords : Read(off, n)
  BY <1>3, CallsInv
<1>4. CASE \E off \in 0 .. NumWords : \E n \in 0 .. NumWords : ReadWithIntegrity(off, n)
  BY <1>4, CallsInv
<1>5. CASE \E d \in Data : \E loaded \in SUBSET MemWords :
             LoadVmem(Field(d.bits, 0, 32 * Width32), loaded)
  <2>1. PICK d \in Data, loaded \in SUBSET MemWords : LoadVmem(Field(d.bits, 0, 32 * Width32), loaded)
    BY <1>5
  <2>2. Field(d.bits, 0, 32 * Width32) \in SUBSET Ones(32 * Width32)
    BY Sizes, FieldIsOnes
  <2> QED
    BY <2>1, <2>2, LoadVmemInv
<1>6. CASE WriteWord
  BY <1>6, WriteWordInv
<1>7. CASE ReadWord
  BY <1>7, ReadWordInv
<1>8. CASE \E w \in MemWords : \E flips \in Flips : Fault(w, flips)
  BY <1>8, FaultInv
<1>9. CASE UNCHANGED vars
  <2>1. UNCHANGED <<config, mem, call, nth, ret, outcome, stack, settled, written, flipped>>
    BY <1>9 DEF vars
  <2>2. UNCHANGED <<config, stack>>
    BY <2>1
  <2>3. ASSUME settled PROVE WrittenInv /\ CallInv /\ RetInv /\ TypeInv
    BY <2>3 DEF IInv
  <2>4. TypeInv'
    BY <2>1, <2>2, Fixed DEF IInv, TypeInv
  <2>5. ASSUME settled PROVE WrittenInv'
    BY <2>1, <2>3, <2>5, MemoryAlone DEF TypeInv
  <2>6. ASSUME settled PROVE CallInv'
    BY <2>1, <2>3, <2>6 DEF CallInv, config
  <2>7. ASSUME settled PROVE RetInv'
    <3>1. \A w : Place(w)' = Place(w) /\ Got(call.op, w)' = Got(call.op, w)
      <4> TAKE w
      <4>1. Place(w)' = Place(w)
        BY <2>2, Fixed
      <4> DEFINE v == mem[Place(w)]
      <4>2. v' = v
        BY <2>1, <4>1
      <4>3. Clear(w, v)' = Clear(w, v)
        BY <2>1, <4>2 DEF Clear, KeystreamFor, config
      <4> QED
        BY <2>1, <4>1, <4>3 DEF Got, config
    <3>2. RetInv
      BY <2>3, <2>7
    <3> DEFINE all == {Got(call.op, w) : w \in MemWords}
    <3>3. all' = all
      BY <3>1
    <3> HIDE DEF all
    <3> QED
      BY <2>1, <3>1, <3>2, <3>3 DEF RetInv, all
  <2> QED
    BY <2>1, <2>4, <2>5, <2>6, <2>7 DEF IInv
<1> QED
  BY <1>1, <1>2, <1>3, <1>4, <1>5, <1>6, <1>7, <1>8, <1>9 DEF Next

-----------------------------------------------------------------------------
(* A lane that holds what was asked for, bit by bit.                        *)
LEMMA HeldBits ==
  ASSUME NEW bits, NEW asked, NEW k \in 1..Width32, LaneHolds(bits, asked, k),
         NEW q \in 0..31
  PROVE  q \in bits <=> q + 32 * (k - 1) \in asked.bits
<1>1. PICK word \in SUBSET Ones(32) :
        /\ bits = Coded([good |-> asked.good[k], word |-> word])
        /\ q \in word <=> q + 32 * (k - 1) \in asked.bits
  BY DEF LaneHolds
<1> DEFINE lane == [good |-> asked.good[k], word |-> word]
<1>2. lane.word = word
  OBVIOUS
<1> HIDE DEF lane
<1>3. q \in Coded(lane) <=> q \in lane.word
  BY <1>2, InCoded
<1> QED
  BY <1>1, <1>2, <1>3 DEF lane

(* Reading an undamaged word gives the bytes that were asked for.           *)
LEMMA HeldWord ==
  ASSUME kind # "plain", NEW clear, NEW asked, IsAsked(asked), Holds(clear, asked)
  PROVE  EccReadBuffer(clear) = asked.bits
<1> DEFINE out == EccReadBuffer(clear)
           n == 32 * Width32
<1>1. n \in Nat /\ Width32 \in Nat /\ asked.bits \in SUBSET (0..(n - 1))
  BY Widths, Sizes DEF IsAsked, Ones
<1>2. ASSUME NEW p \in 0..(n - 1)
      PROVE  p \in out <=> p \in asked.bits
  <2> DEFINE k == 1 + (p \div 32)
             q == p % 32
  <2>1. k \in 1..Width32 /\ q \in 0..31 /\ p = q + 32 * (k - 1)
    BY <1>1
  <2> HIDE DEF k, q
  <2>2. q + 32 * (k - 1) \in out <=> q \in Field(clear, 39 * (k - 1), 39)
    BY <2>1, WordRead
  <2>3. LaneHolds(Field(clear, 39 * (k - 1), 39), asked, k)
    BY <2>1 DEF Holds
  <2>4. q \in Field(clear, 39 * (k - 1), 39) <=> q + 32 * (k - 1) \in asked.bits
    BY <2>1, <2>3, HeldBits
  <2> QED
    BY <2>1, <2>2, <2>4
<1>3. out \in SUBSET (0..(n - 1))
  <2> DEFINE word == [k \in 1..Width32 |-> extract_word(clear, 39 * (k - 1))]
             every == UNION {Shl(word[k], 32 * (k - 1)) : k \in 1 .. Width32}
  <2>1. ASSUME NEW k \in 1..Width32 PROVE word[k] \in SUBSET Ones(32)
    <3> DEFINE at == 39 * (k - 1)
    <3>1. at \in Nat
      OBVIOUS
    <3> HIDE DEF at
    <3>2. extract_word(clear, at) = Field(clear, at, 32)
      BY <3>1, ExtractWord
    <3>3. extract_word(clear, at) \in SUBSET Ones(32)
      BY <3>1, <3>2, FieldIsOnes
    <3> QED
      BY <3>3 DEF at
  <2>2. out = every
    BY DEF EccReadBuffer
  <2> HIDE DEF word, out
  <2>3. every \in SUBSET Ones(n)
    BY <2>1, InUnion
  <2> QED
    BY <2>2, <2>3 DEF Ones
<1> HIDE DEF out, n
<1>4. out = asked.bits
  BY <1>1, <1>2, <1>3
<1> QED
  BY <1>4 DEF out

(* The invariant says what a read returns.                                  *)
LEMMA ReadsWhatWasWritten ==
  ASSUME IInv
  PROVE  ReadBack
<1> SUFFICES ASSUME call.op = "Read", settled, NEW k \in DOMAIN ret,
                    written[call.off + k - 1] # None, Damage(call.off + k - 1) = {}
             PROVE  LET w == call.off + k - 1
                    IN  /\ ret[k] = written[w].bits
                        /\ kind = "plain" => ret[k] \subseteq Ones(8 * written[w].bytes)
  BY DEF ReadBack
<1> DEFINE w == call.off + k - 1
           asked == written[w]
           clear == Clear(w, mem[Place(w)])
<1>1. TypeInv /\ WrittenInv /\ RetInv
  BY DEF IInv
<1>2. k \in 1..Len(ret)
  BY <1>1 DEF RetInv
<1>3. w \in MemWords /\ Place(w) \in MemWords /\ ret[k] = Got("Read", w)
  BY <1>1, <1>2 DEF RetInv
<1> HIDE DEF w
<1>4. Kept(w)
  BY <1>1, <1>3 DEF WrittenInv, w
<1>5. flipped[Place(w)] = {}
  <2>1. Damage(w) = {} /\ Place(w) < NumWords
    BY <1>3, Sizes DEF w, MemWords
  <2> QED
    BY <2>1 DEF Damage, Place
<1>6. IsAsked(asked) /\ Holds(clear, asked)
  BY <1>4, <1>5, XorEmpty DEF Kept
<1> HIDE DEF asked, clear
<1>7. CASE kind = "plain"
  <2>1. ret[k] = clear /\ clear = asked.bits
    BY <1>3, <1>6, <1>7 DEF Got, Holds, clear
  <2>2. asked.bits \in SUBSET Ones(8 * asked.bytes)
    BY <1>6, <1>7 DEF IsAsked
  <2> QED
    BY <2>1, <2>2 DEF asked, w
<1>8. CASE kind # "plain"
  <2>1. ret[k] = EccReadBuffer(clear)
    BY <1>3, <1>8 DEF Got, clear
  <2>2. ret[k] = asked.bits
    BY <1>6, <1>8, <2>1, HeldWord
  <2> QED
    BY <1>8, <2>2 DEF asked, w
<1> QED
  BY <1>7, <1>8

(* The invariant holds in every state.                                      *)
THEOREM MemAreasInductive == Spec => []IInv
<1>1. Init => IInv
  BY InitInv
<1>2. IInv /\ [Next]_vars => IInv'
  BY NextInv
<1> QED
  BY <1>1, <1>2, PTL DEF Spec

(* ReadBack: Read() returns what was last written to each word, through     *)
(* MemArea, Ecc32MemArea and ScrambledEcc32MemArea alike, unless bits of    *)
(* the word were flipped.                                                   *)
THEOREM ReadsBack == Spec => []ReadBack
<1>1. IInv => ReadBack
  BY ReadsWhatWasWritten
<1> QED
  BY <1>1, MemAreasInductive, PTL

-----------------------------------------------------------------------------
(* The codes of secded_enc.c.  Row j of a code are the bits of a code word  *)
(* that check bit j is the parity of, itself included.                      *)
Odd(S) == Cardinality(S) % 2 = 1

Row(code, j) == code.masks[j] \cup {code.data + (j - 1)}

Top(code) == code.data + (Len(code.masks) - 1)

IsCode(code) ==
  /\ code.data \in Nat /\ Len(code.masks) \in 2..8
  /\ DOMAIN code.masks = 1..Len(code.masks)
  /\ \A j \in 1..Len(code.masks) : code.masks[j] \in SUBSET Ones(code.data)

(* Every bit is in an odd number of rows, and no two bits in the same rows. *)
InRow(code, p, j) == j <= Len(code.masks) /\ p \in Row(code, j)

OddOf(r1, r2, r3, r4, r5, r6, r7, r8) ==
  (((((((r1 <=> r2) <=> r3) <=> r4) <=> r5) <=> r6) <=> r7) <=> r8) <=> FALSE

OddColumn(code, p) ==
  OddOf(InRow(code, p, 1), InRow(code, p, 2), InRow(code, p, 3), InRow(code, p, 4),
        InRow(code, p, 5), InRow(code, p, 6), InRow(code, p, 7), InRow(code, p, 8))

GoodColumns(code) ==
  /\ \A p \in 0..Top(code) : OddColumn(code, p)
  /\ \A p, q \in 0..Top(code) : p # q => \E j \in 1..8 : ~(InRow(code, p, j) <=> InRow(code, q, j))

(* The parity of an exclusive or.                                           *)
LEMMA OddXor ==
  ASSUME NEW a, NEW b, IsFiniteSet(a), IsFiniteSet(b)
  PROVE  IsFiniteSet(Xor(a, b)) /\ (Odd(Xor(a, b)) <=> ~(Odd(a) <=> Odd(b)))
<1> DEFINE x == Xor(a, b)
           u == a \cup b
           i == a \cap b
<1>1. u = x \cup i /\ x \cap i = {} /\ x \in SUBSET u /\ i \in SUBSET u
  BY DEF Xor
<1>2. IsFiniteSet(u) /\ Cardinality(u) = Cardinality(a) + Cardinality(b) - Cardinality(i)
  BY FS_Union
<1>3. IsFiniteSet(x) /\ IsFiniteSet(i)
  BY <1>1, <1>2, FS_Subset
<1>4. Cardinality(x \cup i) = Cardinality(x) + Cardinality(i) - Cardinality(x \cap i)
  BY <1>3, FS_Union
<1>5. Cardinality(x \cap i) = 0
  BY <1>1, FS_EmptySet
<1> DEFINE ca == Cardinality(a)
           cb == Cardinality(b)
           cx == Cardinality(x)
           ci == Cardinality(i)
<1>6. ca \in Nat /\ cb \in Nat /\ cx \in Nat /\ ci \in Nat
  BY <1>3, FS_CardinalityType
<1>7. cx + ci = ca + cb - ci
  <2> DEFINE cu == Cardinality(u)
             e  == Cardinality(x \cap i)
  <2>1. cu = ca + cb - ci
    BY <1>2
  <2>2. cu = cx + ci - e
    BY <1>1, <1>4
  <2> HIDE DEF ca, cb, cx, ci, cu
  <2> QED
    BY <1>5, <1>6, <2>1, <2>2
<1> HIDE DEF ca, cb, cx, ci
<1>8. cx = ca + cb - 2 * ci
  BY <1>6, <1>7
<1>9. (cx % 2 = 1) <=> ~((ca % 2 = 1) <=> (cb % 2 = 1))
  BY <1>6, <1>8
<1>10. Odd(x) <=> ~(Odd(a) <=> Odd(b))
  BY <1>9 DEF Odd, ca, cb, cx
<1> QED
  BY <1>3, <1>10

(* The parity of one, two or three bits in a row.                           *)
LEMMA OddSingle ==
  ASSUME NEW p, NEW R
  PROVE  IsFiniteSet({p} \cap R) /\ (Odd({p} \cap R) <=> p \in R)
<1>1. CASE p \in R
  <2>1. {p} \cap R = {p}
    BY <1>1
  <2>2. Cardinality({p}) = 1 /\ IsFiniteSet({p})
    BY FS_Singleton
  <2> QED
    BY <1>1, <2>1, <2>2 DEF Odd
<1>2. CASE p \notin R
  <2>1. {p} \cap R = {}
    BY <1>2
  <2>2. Cardinality({}) = 0 /\ IsFiniteSet({})
    BY FS_EmptySet
  <2> QED
    BY <1>2, <2>1, <2>2 DEF Odd
<1> QED
  BY <1>1, <1>2

(* The parity of two bits in a row.                                         *)
LEMMA OddPair ==
  ASSUME NEW p, NEW q, p # q, NEW R
  PROVE  IsFiniteSet({p, q} \cap R) /\ (Odd({p, q} \cap R) <=> ~(p \in R <=> q \in R))
<1> DEFINE a == {p} \cap R
           b == {q} \cap R
           c == {p, q} \cap R
<1>1. c = Xor(a, b)
  BY DEF Xor
<1>2. IsFiniteSet(a) /\ (Odd(a) <=> p \in R)
  BY OddSingle
<1>3. IsFiniteSet(b) /\ (Odd(b) <=> q \in R)
  BY OddSingle
<1> HIDE DEF a, b, c
<1>4. IsFiniteSet(c) /\ (Odd(c) <=> ~(Odd(a) <=> Odd(b)))
  BY <1>1, <1>2, <1>3, OddXor
<1>5. Odd(c) <=> ~(p \in R <=> q \in R)
  BY <1>2, <1>3, <1>4
<1> QED
  BY <1>4, <1>5 DEF c

(* The parity of three bits in a row.                                       *)
LEMMA OddTriple ==
  ASSUME NEW p, NEW q, NEW r, p # q, p # r, q # r, NEW R
  PROVE  Odd({p, q, r} \cap R) <=> ~(~(p \in R <=> q \in R) <=> r \in R)
<1> DEFINE a == {p, q} \cap R
           b == {r} \cap R
           c == {p, q, r} \cap R
<1>1. c = Xor(a, b)
  BY DEF Xor
<1>2. IsFiniteSet(a) /\ (Odd(a) <=> ~(p \in R <=> q \in R))
  BY OddPair
<1>3. IsFiniteSet(b) /\ (Odd(b) <=> r \in R)
  BY OddSingle
<1> HIDE DEF a, b, c
<1>4. Odd(c) <=> ~(Odd(a) <=> Odd(b))
  BY <1>1, <1>2, <1>3, OddXor
<1>5. Odd(c) <=> ~(~(p \in R <=> q \in R) <=> r \in R)
  BY <1>2, <1>3, <1>4
<1> QED
  BY <1>5 DEF c

(* The sum of three odd columns is not zero.                                *)
LEMMA ThreeOdd ==
  ASSUME NEW a1, NEW a2, NEW a3, NEW a4, NEW a5, NEW a6, NEW a7, NEW a8,
         NEW b1, NEW b2, NEW b3, NEW b4, NEW b5, NEW b6, NEW b7, NEW b8,
         NEW c1, NEW c2, NEW c3, NEW c4, NEW c5, NEW c6, NEW c7, NEW c8,
         OddOf(a1, a2, a3, a4, a5, a6, a7, a8), OddOf(b1, b2, b3, b4, b5, b6, b7, b8),
         OddOf(c1, c2, c3, c4, c5, c6, c7, c8),
         ~(a1 <=> b1) <=> c1, ~(a2 <=> b2) <=> c2, ~(a3 <=> b3) <=> c3, ~(a4 <=> b4) <=> c4,
         ~(a5 <=> b5) <=> c5, ~(a6 <=> b6) <=> c6, ~(a7 <=> b7) <=> c7, ~(a8 <=> b8) <=> c8
  PROVE  FALSE
BY SMT DEF OddOf

(* Up to three flipped bits change the parity of some row.                  *)
LEMMA RowSeesThree ==
  ASSUME NEW code, IsCode(code), GoodColumns(code),
         NEW a \in 0..Top(code), NEW b \in 0..Top(code), NEW c \in 0..Top(code)
  PROVE  \E j \in 1..Len(code.masks) : Odd({a, b, c} \cap Row(code, j))
<1> DEFINE n == Len(code.masks)
           r(p, j) == InRow(code, p, j)
<1>0. n \in 2..8
  BY DEF IsCode
<1> SUFFICES ASSUME \A j \in 1..n : ~Odd({a, b, c} \cap Row(code, j)) PROVE FALSE
  OBVIOUS
<1> HIDE DEF n
<1>1. ASSUME NEW p, NEW j \in 1..8, r(p, j)
      PROVE  j \in 1..n /\ p \in Row(code, j)
  BY <1>0, <1>1 DEF InRow, n
<1>2. ASSUME NEW p, NEW j \in 1..n
      PROVE  j \in 1..8 /\ (r(p, j) <=> p \in Row(code, j))
  <2>1. j \in 1..8 /\ j <= n
    BY <1>0
  <2>2. r(p, j) <=> p \in Row(code, j)
    BY <2>1 DEF InRow, n
  <2> QED
    BY <2>1, <2>2
<1>3. ASSUME NEW p \in 0..Top(code), {a, b, c} = {p}
      PROVE  FALSE
  <2>1. OddColumn(code, p)
    BY DEF GoodColumns
  <2>2. \/ r(p, 1) \/ r(p, 2) \/ r(p, 3) \/ r(p, 4) \/ r(p, 5) \/ r(p, 6) \/ r(p, 7) \/ r(p, 8)
    BY <2>1 DEF OddColumn, OddOf
  <2>3. 1 \in 1..8 /\ 2 \in 1..8 /\ 3 \in 1..8 /\ 4 \in 1..8 /\ 5 \in 1..8 /\ 6 \in 1..8 /\ 7 \in 1..8 /\ 8 \in 1..8
    OBVIOUS
  <2>4. PICK j \in 1..8 : r(p, j)
    BY <2>2, <2>3, Zenon
  <2>5. j \in 1..n /\ p \in Row(code, j)
    BY <1>1, <2>4
  <2>6. Odd({p} \cap Row(code, j))
    BY <2>5, OddSingle
  <2> QED
    BY <1>3, <2>5, <2>6
<1>4. ASSUME NEW p \in 0..Top(code), NEW q \in 0..Top(code), p # q, {a, b, c} = {p, q}
      PROVE  FALSE
  <2>1. PICK j \in 1..8 : ~(r(p, j) <=> r(q, j))
    BY <1>4 DEF GoodColumns
  <2>2. j \in 1..n
    BY <1>1, <2>1
  <2>3. ~(p \in Row(code, j) <=> q \in Row(code, j))
    BY <1>2, <2>1, <2>2
  <2>4. Odd({p, q} \cap Row(code, j))
    BY <1>4, <2>3, OddPair
  <2> QED
    BY <1>4, <2>2, <2>4
<1>5. ASSUME a # b, a # c, b # c
      PROVE  FALSE
  <2>1. ASSUME NEW j \in 1..8
        PROVE  ~(r(a, j) <=> r(b, j)) <=> r(c, j)
    <3>1. CASE j \in 1..n
      <4>1. ~Odd({a, b, c} \cap Row(code, j))
        BY <3>1
      <4>2. ~(a \in Row(code, j) <=> b \in Row(code, j)) <=> c \in Row(code, j)
        BY <1>5, <4>1, OddTriple
      <4>3. (r(a, j) <=> a \in Row(code, j)) /\ (r(b, j) <=> b \in Row(code, j)) /\ (r(c, j) <=> c \in Row(code, j))
        BY <1>2, <3>1
      <4> QED
        BY <4>2, <4>3
    <3>2. CASE j \notin 1..n
      <4>1. ~r(a, j) /\ ~r(b, j) /\ ~r(c, j)
        BY <1>1, <3>2
      <4> QED
        BY <4>1
    <3> QED
      BY <3>1, <3>2
  <2>2. OddColumn(code, a) /\ OddColumn(code, b) /\ OddColumn(code, c)
    BY DEF GoodColumns
  <2>3. 1 \in 1..8 /\ 2 \in 1..8 /\ 3 \in 1..8 /\ 4 \in 1..8 /\ 5 \in 1..8 /\ 6 \in 1..8 /\ 7 \in 1..8 /\ 8 \in 1..8
    OBVIOUS
  <2> HIDE DEF r
  <2>4. /\ ~(r(a, 1) <=> r(b, 1)) <=> r(c, 1)
        /\ ~(r(a, 2) <=> r(b, 2)) <=> r(c, 2)
        /\ ~(r(a, 3) <=> r(b, 3)) <=> r(c, 3)
        /\ ~(r(a, 4) <=> r(b, 4)) <=> r(c, 4)
        /\ ~(r(a, 5) <=> r(b, 5)) <=> r(c, 5)
        /\ ~(r(a, 6) <=> r(b, 6)) <=> r(c, 6)
        /\ ~(r(a, 7) <=> r(b, 7)) <=> r(c, 7)
        /\ ~(r(a, 8) <=> r(b, 8)) <=> r(c, 8)
    BY <2>1, <2>3
  <2>5. /\ OddOf(r(a, 1), r(a, 2), r(a, 3), r(a, 4), r(a, 5), r(a, 6), r(a, 7), r(a, 8))
        /\ OddOf(r(b, 1), r(b, 2), r(b, 3), r(b, 4), r(b, 5), r(b, 6), r(b, 7), r(b, 8))
        /\ OddOf(r(c, 1), r(c, 2), r(c, 3), r(c, 4), r(c, 5), r(c, 6), r(c, 7), r(c, 8))
    BY <2>2 DEF OddColumn, r
  <2> QED
    BY <2>4, <2>5, ThreeOdd
<1>6. CASE a = b /\ b = c
  <2>1. {a, b, c} = {a}
    BY <1>6
  <2> QED
    BY <1>3, <2>1
<1>7. CASE a = b /\ b # c
  <2>1. {a, b, c} = {a, c} /\ a # c
    BY <1>7
  <2> QED
    BY <1>4, <2>1
<1>8. CASE a = c /\ b # c
  <2>1. {a, b, c} = {a, b} /\ a # b
    BY <1>8
  <2> QED
    BY <1>4, <2>1
<1>9. CASE b = c /\ a # b
  <2>1. {a, b, c} = {a, b}
    BY <1>9
  <2> QED
    BY <1>4, <1>9, <2>1
<1> QED
  BY <1>5, <1>6, <1>7, <1>8, <1>9

-----------------------------------------------------------------------------
(* Both encoders: check bit j is the parity under mask j, and the inverted  *)
(* one flips every second of them.                                          *)
Flipped(inv, j) == inv /\ j % 2 = 0

Parities(code, word, inv) ==
  {k - 1 : k \in {j \in DOMAIN code.masks : ~(Odd(word \cap code.masks[j]) <=> Flipped(inv, j))}}

(* The encoders of secded_enc.c are these two.                              *)
LEMMA BothEncoders ==
  ASSUME NEW code, IsCode(code), NEW word
  PROVE  /\ enc_secded(code, word) = Parities(code, word, FALSE)
         /\ enc_secded_inv(code, word) = Parities(code, word, TRUE)
<1>1. \A j : calc_parity(word \cap code.masks[j], FALSE) <=> ~(Odd(word \cap code.masks[j]) <=> Flipped(FALSE, j))
  BY DEF calc_parity, Odd, Flipped
<1>2. \A j : calc_parity(word \cap code.masks[j], j % 2 = 0) <=> ~(Odd(word \cap code.masks[j]) <=> Flipped(TRUE, j))
  BY DEF calc_parity, Odd, Flipped
<1>3. enc_secded(code, word) = Parities(code, word, FALSE)
  BY <1>1, Zenon DEF enc_secded, Parities
<1>4. enc_secded_inv(code, word) = Parities(code, word, TRUE)
  BY <1>2, Zenon DEF enc_secded_inv, Parities
<1> QED
  BY <1>3, <1>4

(* A vector whose check bits fit its data.                                  *)
Fits(code, phys, inv) ==
  Field(phys, code.data, Len(code.masks)) = Parities(code, Field(phys, 0, code.data), inv)

(* What Secded calls accepted is what fits.                                 *)
LEMMA FitIsAccepted ==
  ASSUME NEW code, IsCode(code), NEW phys
  PROVE  /\ AcceptsPlain(code, phys) <=> Fits(code, phys, FALSE)
         /\ Accepts(code, phys) <=> Fits(code, phys, TRUE)
BY BothEncoders DEF AcceptsPlain, Accepts, Fits

(* It does if and only if every row has the parity that its check bit has   *)
(* when all other bits are zero.                                            *)
RowFits(code, phys, inv, j) == Odd(phys \cap Row(code, j)) <=> Flipped(inv, j)

(* A code word has finitely many bits.                                      *)
LEMMA BitsFinite ==
  ASSUME NEW code, IsCode(code), NEW phys \in SUBSET (0..Top(code)), NEW R
  PROVE  IsFiniteSet(phys \cap R)
<1>1. Top(code) \in Int
  BY DEF IsCode, Top
<1>2. IsFiniteSet(0..Top(code))
  BY <1>1, FS_Interval
<1>3. phys \cap R \in SUBSET (0..Top(code))
  OBVIOUS
<1> QED
  BY <1>2, <1>3, FS_Subset

(* The parity of a row, from its data bits and its check bit.               *)
LEMMA RowParity ==
  ASSUME NEW code, IsCode(code), NEW phys \in SUBSET (0..Top(code)), NEW j \in 1..Len(code.masks)
  PROVE  Odd(phys \cap Row(code, j))
           <=> ~(Odd(Field(phys, 0, code.data) \cap code.masks[j]) <=> code.data + (j - 1) \in phys)
<1> DEFINE d == code.data
           m == code.masks[j]
           p == d + (j - 1)
           a == phys \cap m
           b == {p} \cap phys
<1>1. d \in Nat /\ m \in SUBSET Ones(d) /\ j \in Nat /\ j >= 1
  BY DEF IsCode
<1>2. p \notin m
  BY <1>1 DEF Ones
<1>3. phys \cap Row(code, j) = Xor(a, b)
  BY <1>2 DEF Row, Xor
<1>4. Field(phys, 0, d) \cap m = a
  <2>1. \A q \in m : q \in Int /\ q \in 0..(d - 1)
    BY <1>1 DEF Ones
  <2>2. phys \in SUBSET Int
    OBVIOUS
  <2>3. ASSUME NEW q \in m
        PROVE  q \in Field(phys, 0, d) <=> q \in phys
    <3>1. q \in Field(phys, 0, d) <=> q \in 0..(d - 1) /\ q + 0 \in phys
      BY <1>1, <2>1, <2>2, InField DEF Ones
    <3>2. q + 0 = q
      BY <2>1
    <3> QED
      BY <2>1, <3>1, <3>2
  <2> QED
    BY <2>3
<1>5. IsFiniteSet(a)
  BY BitsFinite
<1>6. IsFiniteSet(b) /\ (Odd(b) <=> p \in phys)
  BY OddSingle
<1> HIDE DEF a, b, p, d, m
<1>7. Odd(Xor(a, b)) <=> ~(Odd(a) <=> Odd(b))
  BY <1>5, <1>6, OddXor
<1>8. Odd(phys \cap Row(code, j)) <=> ~(Odd(Field(phys, 0, d) \cap m) <=> p \in phys)
  BY <1>3, <1>4, <1>6, <1>7
<1> QED
  BY <1>8 DEF d, m, p

(* A vector fits if all its rows do.                                        *)
LEMMA FitIsRows ==
  ASSUME NEW code, IsCode(code), NEW phys \in SUBSET (0..Top(code)), NEW inv \in BOOLEAN
  PROVE  Fits(code, phys, inv) <=> \A j \in 1..Len(code.masks) : RowFits(code, phys, inv, j)
<1> DEFINE n == Len(code.masks)
           d == code.data
           F == Field(phys, d, n)
           P == Parities(code, Field(phys, 0, d), inv)
<1>1. d \in Nat /\ n \in Nat /\ DOMAIN code.masks = 1..n
  BY DEF IsCode
<1>2. F \in SUBSET Ones(n)
  BY <1>1, FieldIsOnes
<1>3. P \in SUBSET Ones(n)
  <2>1. \A k \in 1..n : k - 1 \in Ones(n)
    BY <1>1 DEF Ones
  <2>2. \A q \in P : \E k \in 1..n : q = k - 1
    BY <1>1 DEF Parities
  <2> QED
    BY <2>1, <2>2
<1>4. ASSUME NEW j \in 1..n
      PROVE  (j - 1 \in F <=> j - 1 \in P) <=> RowFits(code, phys, inv, j)
  <2>1. j - 1 \in F <=> d + (j - 1) \in phys
    <3>1. j - 1 \in 0..(n - 1)
      BY <1>1
    <3>2. j - 1 \in F <=> j - 1 \in 0..(n - 1) /\ (j - 1) + d \in phys
      BY <1>1, InField
    <3>3. (j - 1) + d = d + (j - 1)
      BY <1>1
    <3> QED
      BY <3>1, <3>2, <3>3
  <2>2. j - 1 \in P <=> ~(Odd(Field(phys, 0, d) \cap code.masks[j]) <=> Flipped(inv, j))
    <3>1. \A k \in 1..n : k - 1 = j - 1 => k = j
      BY <1>1
    <3> QED
      BY <1>1, <3>1 DEF Parities
  <2>3. Odd(phys \cap Row(code, j)) <=> ~(Odd(Field(phys, 0, d) \cap code.masks[j]) <=> d + (j - 1) \in phys)
    BY RowParity
  <2> HIDE DEF F, P, d
  <2> QED
    BY <2>1, <2>2, <2>3 DEF RowFits
<1> HIDE DEF F, P
<1>5. F = P <=> \A j \in 1..n : (j - 1 \in F <=> j - 1 \in P)
  <2>1. ASSUME \A j \in 1..n : (j - 1 \in F <=> j - 1 \in P), NEW q
        PROVE  q \in F <=> q \in P
    <3>1. CASE q \in Ones(n)
      <4>1. q + 1 \in 1..n /\ (q + 1) - 1 = q
        BY <1>1, <3>1 DEF Ones
      <4> QED
        BY <2>1, <4>1
    <3>2. CASE q \notin Ones(n)
      BY <1>2, <1>3, <3>2
    <3> QED
      BY <3>1, <3>2
  <2> QED
    BY <2>1
<1>6. Fits(code, phys, inv) <=> F = P
  BY DEF Fits, F, P
<1> QED
  BY <1>4, <1>5, <1>6

(* Up to three flipped bits of a code word do not make another one.         *)
LEMMA FlipsSeen ==
  ASSUME NEW code, IsCode(code), GoodColumns(code), NEW phys \in SUBSET (0..Top(code)),
         NEW inv \in BOOLEAN, Fits(code, phys, inv),
         NEW a \in 0..Top(code), NEW b \in 0..Top(code), NEW c \in 0..Top(code)
  PROVE  ~Fits(code, Xor(phys, {a, b, c}), inv)
<1> DEFINE x == Xor(phys, {a, b, c})
<1> SUFFICES ASSUME Fits(code, x, inv) PROVE FALSE
  OBVIOUS
<1>1. x \in SUBSET (0..Top(code)) /\ {a, b, c} \in SUBSET (0..Top(code))
  BY DEF Xor
<1>2. PICK j \in 1..Len(code.masks) : Odd({a, b, c} \cap Row(code, j))
  BY RowSeesThree
<1>3. RowFits(code, phys, inv, j) /\ RowFits(code, x, inv, j)
  BY <1>1, FitIsRows
<1>4. x \cap Row(code, j) = Xor(phys \cap Row(code, j), {a, b, c} \cap Row(code, j))
  BY DEF Xor
<1> DEFINE u == phys \cap Row(code, j)
           v == {a, b, c} \cap Row(code, j)
<1>5. IsFiniteSet(u) /\ IsFiniteSet(v)
  BY <1>1, BitsFinite
<1>6. (Odd(u) <=> Flipped(inv, j)) /\ (Odd(Xor(u, v)) <=> Flipped(inv, j)) /\ Odd(v)
  BY <1>2, <1>3, <1>4 DEF RowFits
<1> HIDE DEF u, v
<1>7. Odd(Xor(u, v)) <=> ~(Odd(u) <=> Odd(v))
  BY <1>5, OddXor
<1> QED
  BY <1>6, <1>7

(* The masks, written as hexadecimal numbers, digit by digit.               *)
LEMMA HexOfOne ==
  ASSUME NEW a
  PROVE  Hex(<<a>>) = Shl(Number(a), 0)
BY DEF Hex

(* Two digits.                                                              *)
LEMMA HexOfTwo ==
  ASSUME NEW a, NEW b
  PROVE  Hex(<<a, b>>) = Shl(Number(a), 16) \cup Shl(Number(b), 0)
BY DEF Hex

(* Four digits.                                                             *)
LEMMA HexOfFour ==
  ASSUME NEW a, NEW b, NEW c, NEW d
  PROVE  Hex(<<a, b, c, d>>) = Shl(Number(a), 48) \cup Shl(Number(b), 32) \cup Shl(Number(c), 16) \cup Shl(Number(d), 0)
<1> DEFINE t == <<a, b, c, d>>
<1>1. DOMAIN t = {1, 2, 3, 4} /\ Len(t) = 4 /\ t[1] = a /\ t[2] = b /\ t[3] = c /\ t[4] = d
  OBVIOUS
<1>2. 16 * (4 - 1) = 48 /\ 16 * (4 - 2) = 32 /\ 16 * (4 - 3) = 16 /\ 16 * (4 - 4) = 0
  OBVIOUS
<1> HIDE DEF t
<1>3. Hex(t) = UNION {Shl(Number(t[i]), 16 * (4 - i)) : i \in {1, 2, 3, 4}}
  BY <1>1, Zenon DEF Hex
<1>4. Hex(t) = Shl(Number(t[1]), 48) \cup Shl(Number(t[2]), 32) \cup Shl(Number(t[3]), 16) \cup Shl(Number(t[4]), 0)
  BY <1>2, <1>3
<1> QED
  BY <1>1, <1>4 DEF t

(* The rows of secded_22_16.                                                *)
LEMMA Row_22_16_1 ==
  /\ secded_22_16.masks[1] \in SUBSET Ones(16)
  /\ \A p : InRow(secded_22_16, p, 1) <=>
           p \in {1, 2, 3, 5, 6, 8, 11, 14, 16}
<1>1. secded_22_16.data = 16 /\ Len(secded_22_16.masks) = 6 /\ secded_22_16.masks[1] = Hex(<<\h496e>>)
  BY DEF secded_22_16
<1>2. Shl(Number(\h496e), 0) = {1, 2, 3, 5, 6, 8, 11, 14}
  <2>1. Number(\h496e) = {1, 2, 3, 5, 6, 8, 11, 14}
    BY DEF Number, Power
  <2> QED
    BY <2>1 DEF Shl
<1>3. secded_22_16.masks[1] = {1, 2, 3, 5, 6, 8, 11, 14}
  BY <1>1, <1>2, HexOfOne
<1>4. \A p : InRow(secded_22_16, p, 1) <=> p \in secded_22_16.masks[1] \/ p = 16
  BY <1>1 DEF InRow, Row
<1> QED
  BY <1>3, <1>4 DEF Ones

LEMMA Row_22_16_2 ==
  /\ secded_22_16.masks[2] \in SUBSET Ones(16)
  /\ \A p : InRow(secded_22_16, p, 2) <=>
           p \in {0, 1, 3, 9, 12, 13, 14, 15, 17}
<1>1. secded_22_16.data = 16 /\ Len(secded_22_16.masks) = 6 /\ secded_22_16.masks[2] = Hex(<<\hf20b>>)
  BY DEF secded_22_16
<1>2. Shl(Number(\hf20b), 0) = {0, 1, 3, 9, 12, 13, 14, 15}
  <2>1. Number(\hf20b) = {0, 1, 3, 9, 12, 13, 14, 15}
    BY DEF Number, Power
  <2> QED
    BY <2>1 DEF Shl
<1>3. secded_22_16.masks[2] = {0, 1, 3, 9, 12, 13, 14, 15}
  BY <1>1, <1>2, HexOfOne
<1>4. \A p : InRow(secded_22_16, p, 2) <=> p \in secded_22_16.masks[2] \/ p = 17
  BY <1>1 DEF InRow, Row
<1> QED
  BY <1>3, <1>4 DEF Ones

LEMMA Row_22_16_3 ==
  /\ secded_22_16.masks[3] \in SUBSET Ones(16)
  /\ \A p : InRow(secded_22_16, p, 3) <=>
           p \in {3, 4, 6, 7, 9, 10, 11, 15, 18}
<1>1. secded_22_16.data = 16 /\ Len(secded_22_16.masks) = 6 /\ secded_22_16.masks[3] = Hex(<<\h8ed8>>)
  BY DEF secded_22_16
<1>2. Shl(Number(\h8ed8), 0) = {3, 4, 6, 7, 9, 10, 11, 15}
  <2>1. Number(\h8ed8) = {3, 4, 6, 7, 9, 10, 11, 15}
    BY DEF Number, Power
  <2> QED
    BY <2>1 DEF Shl
<1>3. secded_22_16.masks[3] = {3, 4, 6, 7, 9, 10, 11, 15}
  BY <1>1, <1>2, HexOfOne
<1>4. \A p : InRow(secded_22_16, p, 3) <=> p \in secded_22_16.masks[3] \/ p = 18
  BY <1>1 DEF InRow, Row
<1> QED
  BY <1>3, <1>4 DEF Ones

LEMMA Row_22_16_4 ==
  /\ secded_22_16.masks[4] \in SUBSET Ones(16)
  /\ \A p : InRow(secded_22_16, p, 4) <=>
           p \in {2, 4, 8, 9, 10, 12, 13, 14, 19}
<1>1. secded_22_16.data = 16 /\ Len(secded_22_16.masks) = 6 /\ secded_22_16.masks[4] = Hex(<<\h7714>>)
  BY DEF secded_22_16
<1>2. Shl(Number(\h7714), 0) = {2, 4, 8, 9, 10, 12, 13, 14}
  <2>1. Number(\h7714) = {2, 4, 8, 9, 10, 12, 13, 14}
    BY DEF Number, Power
  <2> QED
    BY <2>1 DEF Shl
<1>3. secded_22_16.masks[4] = {2, 4, 8, 9, 10, 12, 13, 14}
  BY <1>1, <1>2, HexOfOne
<1>4. \A p : InRow(secded_22_16, p, 4) <=> p \in secded_22_16.masks[4] \/ p = 19
  BY <1>1 DEF InRow, Row
<1> QED
  BY <1>3, <1>4 DEF Ones

LEMMA Row_22_16_5 ==
  /\ secded_22_16.masks[5] \in SUBSET Ones(16)
  /\ \A p : InRow(secded_22_16, p, 5) <=>
           p \in {0, 2, 5, 7, 10, 11, 13, 15, 20}
<1>1. secded_22_16.data = 16 /\ Len(secded_22_16.masks) = 6 /\ secded_22_16.masks[5] = Hex(<<\haca5>>)
  BY DEF secded_22_16
<1>2. Shl(Number(\haca5), 0) = {0, 2, 5, 7, 10, 11, 13, 15}
  <2>1. Number(\haca5) = {0, 2, 5, 7, 10, 11, 13, 15}
    BY DEF Number, Power
  <2> QED
    BY <2>1 DEF Shl
<1>3. secded_22_16.masks[5] = {0, 2, 5, 7, 10, 11, 13, 15}
  BY <1>1, <1>2, HexOfOne
<1>4. \A p : InRow(secded_22_16, p, 5) <=> p \in secded_22_16.masks[5] \/ p = 20
  BY <1>1 DEF InRow, Row
<1> QED
  BY <1>3, <1>4 DEF Ones

LEMMA Row_22_16_6 ==
  /\ secded_22_16.masks[6] \in SUBSET Ones(16)
  /\ \A p : InRow(secded_22_16, p, 6) <=>
           p \in {0, 1, 4, 5, 6, 7, 8, 12, 21}
<1>1. secded_22_16.data = 16 /\ Len(secded_22_16.masks) = 6 /\ secded_22_16.masks[6] = Hex(<<\h11f3>>)
  BY DEF secded_22_16
<1>2. Shl(Number(\h11f3), 0) = {0, 1, 4, 5, 6, 7, 8, 12}
  <2>1. Number(\h11f3) = {0, 1, 4, 5, 6, 7, 8, 12}
    BY DEF Number, Power
  <2> QED
    BY <2>1 DEF Shl
<1>3. secded_22_16.masks[6] = {0, 1, 4, 5, 6, 7, 8, 12}
  BY <1>1, <1>2, HexOfOne
<1>4. \A p : InRow(secded_22_16, p, 6) <=> p \in secded_22_16.masks[6] \/ p = 21
  BY <1>1 DEF InRow, Row
<1> QED
  BY <1>3, <1>4 DEF Ones

(* The rows of secded_28_22.                                                *)
LEMMA Row_28_22_1 ==
  /\ secded_28_22.masks[1] \in SUBSET Ones(22)
  /\ \A p : InRow(secded_28_22, p, 1) <=>
           p \in {0, 1, 2, 3, 4, 5, 6, 7, 8, 9, 20, 21, 22}
<1>1. secded_28_22.data = 22 /\ Len(secded_28_22.masks) = 6 /\ secded_28_22.masks[1] = Hex(<<\h30, \h03ff>>)
  BY DEF secded_28_22
<1>2. Shl(Number(\h30), 16) = {20, 21}
  <2>1. Number(\h30) = {4, 5}
    BY DEF Number, Power
  <2> QED
    BY <2>1 DEF Shl
<1>3. Shl(Number(\h03ff), 0) = {0, 1, 2, 3, 4, 5, 6, 7, 8, 9}
  <2>1. Number(\h03ff) = {0, 1, 2, 3, 4, 5, 6, 7, 8, 9}
    BY DEF Number, Power
  <2> QED
    BY <2>1 DEF Shl
<1>4. secded_28_22.masks[1] = {0, 1, 2, 3, 4, 5, 6, 7, 8, 9, 20, 21}
  BY <1>1, <1>2, <1>3, HexOfTwo
<1>5. \A p : InRow(secded_28_22, p, 1) <=> p \in secded_28_22.masks[1] \/ p = 22
  BY <1>1 DEF InRow, Row
<1> QED
  BY <1>4, <1>5 DEF Ones

LEMMA Row_28_22_2 ==
  /\ secded_28_22.masks[2] \in SUBSET Ones(22)
  /\ \A p : InRow(secded_28_22, p, 2) <=>
           p \in {0, 1, 2, 3, 10, 11, 12, 13, 14, 15, 20, 23}
<1>1. secded_28_22.data = 22 /\ Len(secded_28_22.masks) = 6 /\ secded_28_22.masks[2] = Hex(<<\h10, \hfc0f>>)
  BY DEF secded_28_22
<1>2. Shl(Number(\h10), 16) = {20}
  <2>1. Number(\h10) = {4}
    BY DEF Number, Power
  <2> QED
    BY <2>1 DEF Shl
<1>3. Shl(Number(\hfc0f), 0) = {0, 1, 2, 3, 10, 11, 12, 13, 14, 15}
  <2>1. Number(\hfc0f) = {0, 1, 2, 3, 10, 11, 12, 13, 14, 15}
    BY DEF Number, Power
  <2> QED
    BY <2>1 DEF Shl
<1>4. secded_28_22.masks[2] = {0, 1, 2, 3, 10, 11, 12, 13, 14, 15, 20}
  BY <1>1, <1>2, <1>3, HexOfTwo
<1>5. \A p : InRow(secded_28_22, p, 2) <=> p \in secded_28_22.masks[2] \/ p = 23
  BY <1>1 DEF InRow, Row
<1> QED
  BY <1>4, <1>5 DEF Ones

LEMMA Row_28_22_3 ==
  /\ secded_28_22.masks[3] \in SUBSET Ones(22)
  /\ \A p : InRow(secded_28_22, p, 3) <=>
           p \in {0, 4, 5, 6, 10, 11, 12, 16, 17, 18, 21, 24}
<1>1. secded_28_22.data = 22 /\ Len(secded_28_22.masks) = 6 /\ secded_28_22.masks[3] = Hex(<<\h27, \h1c71>>)
  BY DEF secded_28_22
<1>2. Shl(Number(\h27), 16) = {16, 17, 18, 21}
  <2>1. Number(\h27) = {0, 1, 2, 5}
    BY DEF Number, Power
  <2> QED
    BY <2>1 DEF Shl
<1>3. Shl(Number(\h1c71), 0) = {0, 4, 5, 6, 10, 11, 12}
  <2>1. Number(\h1c71) = {0, 4, 5, 6, 10, 11, 12}
    BY DEF Number, Power
  <2> QED
    BY <2>1 DEF Shl
<1>4. secded_28_22.masks[3] = {0, 4, 5, 6, 10, 11, 12, 16, 17, 18, 21}
  BY <1>1, <1>2, <1>3, HexOfTwo
<1>5. \A p : InRow(secded_28_22, p, 3) <=> p \in secded_28_22.masks[3] \/ p = 24
  BY <1>1 DEF InRow, Row
<1> QED
  BY <1>4, <1>5 DEF Ones

LEMMA Row_28_22_4 ==
  /\ secded_28_22.masks[4] \in SUBSET Ones(22)
  /\ \A p : InRow(secded_28_22, p, 4) <=>
           p \in {1, 4, 7, 8, 10, 13, 14, 16, 17, 19, 20, 21, 25}
<1>1. secded_28_22.data = 22 /\ Len(secded_28_22.masks) = 6 /\ secded_28_22.masks[4] = Hex(<<\h3b, \h6592>>)
  BY DEF secded_28_22
<1>2. Shl(Number(\h3b), 16) = {16, 17, 19, 20, 21}
  <2>1. Number(\h3b) = {0, 1, 3, 4, 5}
    BY DEF Number, Power
  <2> QED
    BY <2>1 DEF Shl
<1>3. Shl(Number(\h6592), 0) = {1, 4, 7, 8, 10, 13, 14}
  <2>1. Number(\h6592) = {1, 4, 7, 8, 10, 13, 14}
    BY DEF Number, Power
  <2> QED
    BY <2>1 DEF Shl
<1>4. secded_28_22.masks[4] = {1, 4, 7, 8, 10, 13, 14, 16, 17, 19, 20, 21}
  BY <1>1, <1>2, <1>3, HexOfTwo
<1>5. \A p : InRow(secded_28_22, p, 4) <=> p \in secded_28_22.masks[4] \/ p = 25
  BY <1>1 DEF InRow, Row
<1> QED
  BY <1>4, <1>5 DEF Ones

LEMMA Row_28_22_5 ==
  /\ secded_28_22.masks[5] \in SUBSET Ones(22)
  /\ \A p : InRow(secded_28_22, p, 5) <=>
           p \in {2, 5, 7, 9, 11, 13, 15, 16, 18, 19, 20, 21, 26}
<1>1. secded_28_22.data = 22 /\ Len(secded_28_22.masks) = 6 /\ secded_28_22.masks[5] = Hex(<<\h3d, \haaa4>>)
  BY DEF secded_28_22
<1>2. Shl(Number(\h3d), 16) = {16, 18, 19, 20, 21}
  <2>1. Number(\h3d) = {0, 2, 3, 4, 5}
    BY DEF Number, Power
  <2> QED
    BY <2>1 DEF Shl
<1>3. Shl(Number(\haaa4), 0) = {2, 5, 7, 9, 11, 13, 15}
  <2>1. Number(\haaa4) = {2, 5, 7, 9, 11, 13, 15}
    BY DEF Number, Power
  <2> QED
    BY <2>1 DEF Shl
<1>4. secded_28_22.masks[5] = {2, 5, 7, 9, 11, 13, 15, 16, 18, 19, 20, 21}
  BY <1>1, <1>2, <1>3, HexOfTwo
<1>5. \A p : InRow(secded_28_22, p, 5) <=> p \in secded_28_22.masks[5] \/ p = 26
  BY <1>1 DEF InRow, Row
<1> QED
  BY <1>4, <1>5 DEF Ones

LEMMA Row_28_22_6 ==
  /\ secded_28_22.masks[6] \in SUBSET Ones(22)
  /\ \A p : InRow(secded_28_22, p, 6) <=>
           p \in {3, 6, 8, 9, 12, 14, 15, 17, 18, 19, 20, 21, 27}
<1>1. secded_28_22.data = 22 /\ Len(secded_28_22.masks) = 6 /\ secded_28_22.masks[6] = Hex(<<\h3e, \hd348>>)
  BY DEF secded_28_22
<1>2. Shl(Number(\h3e), 16) = {17, 18, 19, 20, 21}
  <2>1. Number(\h3e) = {1, 2, 3, 4, 5}
    BY DEF Number, Power
  <2> QED
    BY <2>1 DEF Shl
<1>3. Shl(Number(\hd348), 0) = {3, 6, 8, 9, 12, 14, 15}
  <2>1. Number(\hd348) = {3, 6, 8, 9, 12, 14, 15}
    BY DEF Number, Power
  <2> QED
    BY <2>1 DEF Shl
<1>4. secded_28_22.masks[6] = {3, 6, 8, 9, 12, 14, 15, 17, 18, 19, 20, 21}
  BY <1>1, <1>2, <1>3, HexOfTwo
<1>5. \A p : InRow(secded_28_22, p, 6) <=> p \in secded_28_22.masks[6] \/ p = 27
  BY <1>1 DEF InRow, Row
<1> QED
  BY <1>4, <1>5 DEF Ones

(* The rows of secded_39_32.                                                *)
LEMMA Row_39_32_1 ==
  /\ secded_39_32.masks[1] \in SUBSET Ones(32)
  /\ \A p : InRow(secded_39_32, p, 1) <=>
           p \in {0, 2, 5, 8, 10, 11, 12, 13, 15, 17, 18, 25, 26, 29, 32}
<1>1. secded_39_32.data = 32 /\ Len(secded_39_32.masks) = 7 /\ secded_39_32.masks[1] = Hex(<<\h2606, \hbd25>>)
  BY DEF secded_39_32
<1>2. Shl(Number(\h2606), 16) = {17, 18, 25, 26, 29}
  <2>1. Number(\h2606) = {1, 2, 9, 10, 13}
    BY DEF Number, Power
  <2> QED
    BY <2>1 DEF Shl
<1>3. Shl(Number(\hbd25), 0) = {0, 2, 5, 8, 10, 11, 12, 13, 15}
  <2>1. Number(\hbd25) = {0, 2, 5, 8, 10, 11, 12, 13, 15}
    BY DEF Number, Power
  <2> QED
    BY <2>1 DEF Shl
<1>4. secded_39_32.masks[1] = {0, 2, 5, 8, 10, 11, 12, 13, 15, 17, 18, 25, 26, 29}
  BY <1>1, <1>2, <1>3, HexOfTwo
<1>5. \A p : InRow(secded_39_32, p, 1) <=> p \in secded_39_32.masks[1] \/ p = 32
  BY <1>1 DEF InRow, Row
<1> QED
  BY <1>4, <1>5 DEF Ones

LEMMA Row_39_32_2 ==
  /\ secded_39_32.masks[2] \in SUBSET Ones(32)
  /\ \A p : InRow(secded_39_32, p, 2) <=>
           p \in {4, 6, 15, 17, 19, 20, 21, 23, 25, 26, 27, 28, 30, 31, 33}
<1>1. secded_39_32.data = 32 /\ Len(secded_39_32.masks) = 7 /\ secded_39_32.masks[2] = Hex(<<\hdeba, \h8050>>)
  BY DEF secded_39_32
<1>2. Shl(Number(\hdeba), 16) = {17, 19, 20, 21, 23, 25, 26, 27, 28, 30, 31}
  <2>1. Number(\hdeba) = {1, 3, 4, 5, 7, 9, 10, 11, 12, 14, 15}
    BY DEF Number, Power
  <2> QED
    BY <2>1 DEF Shl
<1>3. Shl(Number(\h8050), 0) = {4, 6, 15}
  <2>1. Number(\h8050) = {4, 6, 15}
    BY DEF Number, Power
  <2> QED
    BY <2>1 DEF Shl
<1>4. secded_39_32.masks[2] = {4, 6, 15, 17, 19, 20, 21, 23, 25, 26, 27, 28, 30, 31}
  BY <1>1, <1>2, <1>3, HexOfTwo
<1>5. \A p : InRow(secded_39_32, p, 2) <=> p \in secded_39_32.masks[2] \/ p = 33
  BY <1>1 DEF InRow, Row
<1> QED
  BY <1>4, <1>5 DEF Ones

LEMMA Row_39_32_3 ==
  /\ secded_39_32.masks[3] \in SUBSET Ones(32)
  /\ \A p : InRow(secded_39_32, p, 3) <=>
           p \in {1, 3, 5, 7, 8, 11, 15, 16, 18, 19, 20, 21, 24, 30, 34}
<1>1. secded_39_32.data = 32 /\ Len(secded_39_32.masks) = 7 /\ secded_39_32.masks[3] = Hex(<<\h413d, \h89aa>>)
  BY DEF secded_39_32
<1>2. Shl(Number(\h413d), 16) = {16, 18, 19, 20, 21, 24, 30}
  <2>1. Number(\h413d) = {0, 2, 3, 4, 5, 8, 14}
    BY DEF Number, Power
  <2> QED
    BY <2>1 DEF Shl
<1>3. Shl(Number(\h89aa), 0) = {1, 3, 5, 7, 8, 11, 15}
  <2>1. Number(\h89aa) = {1, 3, 5, 7, 8, 11, 15}
    BY DEF Number, Power
  <2> QED
    BY <2>1 DEF Shl
<1>4. secded_39_32.masks[3] = {1, 3, 5, 7, 8, 11, 15, 16, 18, 19, 20, 21, 24, 30}
  BY <1>1, <1>2, <1>3, HexOfTwo
<1>5. \A p : InRow(secded_39_32, p, 3) <=> p \in secded_39_32.masks[3] \/ p = 34
  BY <1>1 DEF InRow, Row
<1> QED
  BY <1>4, <1>5 DEF Ones

LEMMA Row_39_32_4 ==
  /\ secded_39_32.masks[4] \in SUBSET Ones(32)
  /\ \A p : InRow(secded_39_32, p, 4) <=>
           p \in {0, 4, 6, 7, 9, 10, 11, 14, 16, 17, 21, 24, 28, 29, 35}
<1>1. secded_39_32.data = 32 /\ Len(secded_39_32.masks) = 7 /\ secded_39_32.masks[4] = Hex(<<\h3123, \h4ed1>>)
  BY DEF secded_39_32
<1>2. Shl(Number(\h3123), 16) = {16, 17, 21, 24, 28, 29}
  <2>1. Number(\h3123) = {0, 1, 5, 8, 12, 13}
    BY DEF Number, Power
  <2> QED
    BY <2>1 DEF Shl
<1>3. Shl(Number(\h4ed1), 0) = {0, 4, 6, 7, 9, 10, 11, 14}
  <2>1. Number(\h4ed1) = {0, 4, 6, 7, 9, 10, 11, 14}
    BY DEF Number, Power
  <2> QED
    BY <2>1 DEF Shl
<1>4. secded_39_32.masks[4] = {0, 4, 6, 7, 9, 10, 11, 14, 16, 17, 21, 24, 28, 29}
  BY <1>1, <1>2, <1>3, HexOfTwo
<1>5. \A p : InRow(secded_39_32, p, 4) <=> p \in secded_39_32.masks[4] \/ p = 35
  BY <1>1 DEF InRow, Row
<1> QED
  BY <1>4, <1>5 DEF Ones

LEMMA Row_39_32_5 ==
  /\ secded_39_32.masks[5] \in SUBSET Ones(32)
  /\ \A p : InRow(secded_39_32, p, 5) <=>
           p \in {0, 1, 3, 4, 5, 9, 12, 13, 16, 22, 23, 25, 30, 31, 36}
<1>1. secded_39_32.data = 32 /\ Len(secded_39_32.masks) = 7 /\ secded_39_32.masks[5] = Hex(<<\hc2c1, \h323b>>)
  BY DEF secded_39_32
<1>2. Shl(Number(\hc2c1), 16) = {16, 22, 23, 25, 30, 31}
  <2>1. Number(\hc2c1) = {0, 6, 7, 9, 14, 15}
    BY DEF Number, Power
  <2> QED
    BY <2>1 DEF Shl
<1>3. Shl(Number(\h323b), 0) = {0, 1, 3, 4, 5, 9, 12, 13}
  <2>1. Number(\h323b) = {0, 1, 3, 4, 5, 9, 12, 13}
    BY DEF Number, Power
  <2> QED
    BY <2>1 DEF Shl
<1>4. secded_39_32.masks[5] = {0, 1, 3, 4, 5, 9, 12, 13, 16, 22, 23, 25, 30, 31}
  BY <1>1, <1>2, <1>3, HexOfTwo
<1>5. \A p : InRow(secded_39_32, p, 5) <=> p \in secded_39_32.masks[5] \/ p = 36
  BY <1>1 DEF InRow, Row
<1> QED
  BY <1>4, <1>5 DEF Ones

LEMMA Row_39_32_6 ==
  /\ secded_39_32.masks[6] \in SUBSET Ones(32)
  /\ \A p : InRow(secded_39_32, p, 6) <=>
           p \in {2, 3, 6, 9, 13, 14, 18, 19, 22, 23, 24, 26, 27, 29, 37}
<1>1. secded_39_32.data = 32 /\ Len(secded_39_32.masks) = 7 /\ secded_39_32.masks[6] = Hex(<<\h2dcc, \h624c>>)
  BY DEF secded_39_32
<1>2. Shl(Number(\h2dcc), 16) = {18, 19, 22, 23, 24, 26, 27, 29}
  <2>1. Number(\h2dcc) = {2, 3, 6, 7, 8, 10, 11, 13}
    BY DEF Number, Power
  <2> QED
    BY <2>1 DEF Shl
<1>3. Shl(Number(\h624c), 0) = {2, 3, 6, 9, 13, 14}
  <2>1. Number(\h624c) = {2, 3, 6, 9, 13, 14}
    BY DEF Number, Power
  <2> QED
    BY <2>1 DEF Shl
<1>4. secded_39_32.masks[6] = {2, 3, 6, 9, 13, 14, 18, 19, 22, 23, 24, 26, 27, 29}
  BY <1>1, <1>2, <1>3, HexOfTwo
<1>5. \A p : InRow(secded_39_32, p, 6) <=> p \in secded_39_32.masks[6] \/ p = 37
  BY <1>1 DEF InRow, Row
<1> QED
  BY <1>4, <1>5 DEF Ones

LEMMA Row_39_32_7 ==
  /\ secded_39_32.masks[7] \in SUBSET Ones(32)
  /\ \A p : InRow(secded_39_32, p, 7) <=>
           p \in {1, 2, 7, 8, 10, 12, 14, 20, 22, 27, 28, 31, 38}
<1>1. secded_39_32.data = 32 /\ Len(secded_39_32.masks) = 7 /\ secded_39_32.masks[7] = Hex(<<\h9850, \h5586>>)
  BY DEF secded_39_32
<1>2. Shl(Number(\h9850), 16) = {20, 22, 27, 28, 31}
  <2>1. Number(\h9850) = {4, 6, 11, 12, 15}
    BY DEF Number, Power
  <2> QED
    BY <2>1 DEF Shl
<1>3. Shl(Number(\h5586), 0) = {1, 2, 7, 8, 10, 12, 14}
  <2>1. Number(\h5586) = {1, 2, 7, 8, 10, 12, 14}
    BY DEF Number, Power
  <2> QED
    BY <2>1 DEF Shl
<1>4. secded_39_32.masks[7] = {1, 2, 7, 8, 10, 12, 14, 20, 22, 27, 28, 31}
  BY <1>1, <1>2, <1>3, HexOfTwo
<1>5. \A p : InRow(secded_39_32, p, 7) <=> p \in secded_39_32.masks[7] \/ p = 38
  BY <1>1 DEF InRow, Row
<1> QED
  BY <1>4, <1>5 DEF Ones

(* The rows of secded_64_57.                                                *)
LEMMA Row_64_57_1 ==
  /\ secded_64_57.masks[1] \in SUBSET Ones(57)
  /\ \A p : InRow(secded_64_57, p, 1) <=>
           p \in {0, 1, 2, 3, 4, 5, 6, 7, 8, 9, 10, 11, 12, 13, 14, 35, 36, 37, 38,
                 39, 40, 41, 42, 43, 44, 45, 46, 47, 48, 49, 56, 57}
<1>1. secded_64_57.data = 57 /\ Len(secded_64_57.masks) = 7 /\ secded_64_57.masks[1] = Hex(<<\h103, \hfff8, \h0000, \h7fff>>)
  BY DEF secded_64_57
<1>2. Shl(Number(\h103), 48) = {48, 49, 56}
  <2>1. Number(\h103) = {0, 1, 8}
    BY DEF Number, Power
  <2> QED
    BY <2>1 DEF Shl
<1>3. Shl(Number(\hfff8), 32) = {35, 36, 37, 38, 39, 40, 41, 42, 43, 44, 45, 46, 47}
  <2>1. Number(\hfff8) = {3, 4, 5, 6, 7, 8, 9, 10, 11, 12, 13, 14, 15}
    BY DEF Number, Power
  <2> QED
    BY <2>1 DEF Shl
<1>4. Shl(Number(\h0000), 16) = {}
  <2>1. Number(\h0000) = {}
    BY DEF Number, Power
  <2> QED
    BY <2>1 DEF Shl
<1>5. Shl(Number(\h7fff), 0) = {0, 1, 2, 3, 4, 5, 6, 7, 8, 9, 10, 11, 12, 13, 14}
  <2>1. Number(\h7fff) = {0, 1, 2, 3, 4, 5, 6, 7, 8, 9, 10, 11, 12, 13, 14}
    BY DEF Number, Power
  <2> QED
    BY <2>1 DEF Shl
<1>6. secded_64_57.masks[1] = {0, 1, 2, 3, 4, 5, 6, 7, 8, 9, 10, 11, 12, 13, 14, 35, 36, 37, 38, 39, 40,
         41, 42, 43, 44, 45, 46, 47, 48, 49, 56}
  BY <1>1, <1>2, <1>3, <1>4, <1>5, HexOfFour
<1>7. \A p : InRow(secded_64_57, p, 1) <=> p \in secded_64_57.masks[1] \/ p = 57
  BY <1>1 DEF InRow, Row
<1> QED
  BY <1>6, <1>7 DEF Ones

LEMMA Row_64_57_2 ==
  /\ secded_64_57.masks[2] \in SUBSET Ones(57)
  /\ \A p : InRow(secded_64_57, p, 2) <=>
           p \in {0, 1, 2, 3, 4, 15, 16, 17, 18, 19, 20, 21, 22, 23, 24, 35, 36, 37,
                 38, 39, 40, 41, 42, 43, 44, 50, 51, 52, 53, 54, 56, 58}
<1>1. secded_64_57.data = 57 /\ Len(secded_64_57.masks) = 7 /\ secded_64_57.masks[2] = Hex(<<\h17c, \h1ff8, \h01ff, \h801f>>)
  BY DEF secded_64_57
<1>2. Shl(Number(\h17c), 48) = {50, 51, 52, 53, 54, 56}
  <2>1. Number(\h17c) = {2, 3, 4, 5, 6, 8}
    BY DEF Number, Power
  <2> QED
    BY <2>1 DEF Shl
<1>3. Shl(Number(\h1ff8), 32) = {35, 36, 37, 38, 39, 40, 41, 42, 43, 44}
  <2>1. Number(\h1ff8) = {3, 4, 5, 6, 7, 8, 9, 10, 11, 12}
    BY DEF Number, Power
  <2> QED
    BY <2>1 DEF Shl
<1>4. Shl(Number(\h01ff), 16) = {16, 17, 18, 19, 20, 21, 22, 23, 24}
  <2>1. Number(\h01ff) = {0, 1, 2, 3, 4, 5, 6, 7, 8}
    BY DEF Number, Power
  <2> QED
    BY <2>1 DEF Shl
<1>5. Shl(Number(\h801f), 0) = {0, 1, 2, 3, 4, 15}
  <2>1. Number(\h801f) = {0, 1, 2, 3, 4, 15}
    BY DEF Number, Power
  <2> QED
    BY <2>1 DEF Shl
<1>6. secded_64_57.masks[2] = {0, 1, 2, 3, 4, 15, 16, 17, 18, 19, 20, 21, 22, 23, 24, 35, 36, 37, 38, 39,
         40, 41, 42, 43, 44, 50, 51, 52, 53, 54, 56}
  BY <1>1, <1>2, <1>3, <1>4, <1>5, HexOfFour
<1>7. \A p : InRow(secded_64_57, p, 2) <=> p \in secded_64_57.masks[2] \/ p = 58
  BY <1>1 DEF InRow, Row
<1> QED
  BY <1>6, <1>7 DEF Ones

LEMMA Row_64_57_3 ==
  /\ secded_64_57.masks[3] \in SUBSET Ones(57)
  /\ \A p : InRow(secded_64_57, p, 3) <=>
           p \in {0, 5, 6, 7, 8, 15, 16, 17, 18, 25, 26, 27, 28, 29, 30, 35, 36, 37,
                 38, 39, 40, 45, 46, 47, 48, 50, 51, 52, 53, 55, 56, 59}
<1>1. secded_64_57.data = 57 /\ Len(secded_64_57.masks) = 7 /\ secded_64_57.masks[3] = Hex(<<\h1bd, \he1f8, \h7e07, \h81e1>>)
  BY DEF secded_64_57
<1>2. Shl(Number(\h1bd), 48) = {48, 50, 51, 52, 53, 55, 56}
  <2>1. Number(\h1bd) = {0, 2, 3, 4, 5, 7, 8}
    BY DEF Number, Power
  <2> QED
    BY <2>1 DEF Shl
<1>3. Shl(Number(\he1f8), 32) = {35, 36, 37, 38, 39, 40, 45, 46, 47}
  <2>1. Number(\he1f8) = {3, 4, 5, 6, 7, 8, 13, 14, 15}
    BY DEF Number, Power
  <2> QED
    BY <2>1 DEF Shl
<1>4. Shl(Number(\h7e07), 16) = {16, 17, 18, 25, 26, 27, 28, 29, 30}
  <2>1. Number(\h7e07) = {0, 1, 2, 9, 10, 11, 12, 13, 14}
    BY DEF Number, Power
  <2> QED
    BY <2>1 DEF Shl
<1>5. Shl(Number(\h81e1), 0) = {0, 5, 6, 7, 8, 15}
  <2>1. Number(\h81e1) = {0, 5, 6, 7, 8, 15}
    BY DEF Number, Power
  <2> QED
    BY <2>1 DEF Shl
<1>6. secded_64_57.masks[3] = {0, 5, 6, 7, 8, 15, 16, 17, 18, 25, 26, 27, 28, 29, 30, 35, 36, 37, 38, 39,
         40, 45, 46, 47, 48, 50, 51, 52, 53, 55, 56}
  BY <1>1, <1>2, <1>3, <1>4, <1>5, HexOfFour
<1>7. \A p : InRow(secded_64_57, p, 3) <=> p \in secded_64_57.masks[3] \/ p = 59
  BY <1>1 DEF InRow, Row
<1> QED
  BY <1>6, <1>7 DEF Ones

LEMMA Row_64_57_4 ==
  /\ secded_64_57.masks[4] \in SUBSET Ones(57)
  /\ \A p : InRow(secded_64_57, p, 4) <=>
           p \in {1, 5, 9, 10, 11, 15, 19, 20, 21, 25, 26, 27, 31, 32, 33, 35, 36,
                 37, 41, 42, 43, 45, 46, 47, 49, 50, 51, 52, 54, 55, 56, 60}
<1>1. secded_64_57.data = 57 /\ Len(secded_64_57.masks) = 7 /\ secded_64_57.masks[4] = Hex(<<\h1de, \hee3b, \h8e38, \h8e22>>)
  BY DEF secded_64_57
<1>2. Shl(Number(\h1de), 48) = {49, 50, 51, 52, 54, 55, 56}
  <2>1. Number(\h1de) = {1, 2, 3, 4, 6, 7, 8}
    BY DEF Number, Power
  <2> QED
    BY <2>1 DEF Shl
<1>3. Shl(Number(\hee3b), 32) = {32, 33, 35, 36, 37, 41, 42, 43, 45, 46, 47}
  <2>1. Number(\hee3b) = {0, 1, 3, 4, 5, 9, 10, 11, 13, 14, 15}
    BY DEF Number, Power
  <2> QED
    BY <2>1 DEF Shl
<1>4. Shl(Number(\h8e38), 16) = {19, 20, 21, 25, 26, 27, 31}
  <2>1. Number(\h8e38) = {3, 4, 5, 9, 10, 11, 15}
    BY DEF Number, Power
  <2> QED
    BY <2>1 DEF Shl
<1>5. Shl(Number(\h8e22), 0) = {1, 5, 9, 10, 11, 15}
  <2>1. Number(\h8e22) = {1, 5, 9, 10, 11, 15}
    BY DEF Number, Power
  <2> QED
    BY <2>1 DEF Shl
<1>6. secded_64_57.masks[4] = {1, 5, 9, 10, 11, 15, 19, 20, 21, 25, 26, 27, 31, 32, 33, 35, 36, 37, 41,
         42, 43, 45, 46, 47, 49, 50, 51, 52, 54, 55, 56}
  BY <1>1, <1>2, <1>3, <1>4, <1>5, HexOfFour
<1>7. \A p : InRow(secded_64_57, p, 4) <=> p \in secded_64_57.masks[4] \/ p = 60
  BY <1>1 DEF InRow, Row
<1> QED
  BY <1>6, <1>7 DEF Ones

LEMMA Row_64_57_5 ==
  /\ secded_64_57.masks[5] \in SUBSET Ones(57)
  /\ \A p : InRow(secded_64_57, p, 5) <=>
           p \in {2, 6, 9, 12, 13, 16, 19, 22, 23, 25, 28, 29, 31, 32, 34, 35, 38,
                 39, 41, 42, 44, 45, 46, 48, 49, 50, 51, 53, 54, 55, 56, 61}
<1>1. secded_64_57.data = 57 /\ Len(secded_64_57.masks) = 7 /\ secded_64_57.masks[5] = Hex(<<\h1ef, \h76cd, \hb2c9, \h3244>>)
  BY DEF secded_64_57
<1>2. Shl(Number(\h1ef), 48) = {48, 49, 50, 51, 53, 54, 55, 56}
  <2>1. Number(\h1ef) = {0, 1, 2, 3, 5, 6, 7, 8}
    BY DEF Number, Power
  <2> QED
    BY <2>1 DEF Shl
<1>3. Shl(Number(\h76cd), 32) = {32, 34, 35, 38, 39, 41, 42, 44, 45, 46}
  <2>1. Number(\h76cd) = {0, 2, 3, 6, 7, 9, 10, 12, 13, 14}
    BY DEF Number, Power
  <2> QED
    BY <2>1 DEF Shl
<1>4. Shl(Number(\hb2c9), 16) = {16, 19, 22, 23, 25, 28, 29, 31}
  <2>1. Number(\hb2c9) = {0, 3, 6, 7, 9, 12, 13, 15}
    BY DEF Number, Power
  <2> QED
    BY <2>1 DEF Shl
<1>5. Shl(Number(\h3244), 0) = {2, 6, 9, 12, 13}
  <2>1. Number(\h3244) = {2, 6, 9, 12, 13}
    BY DEF Number, Power
  <2> QED
    BY <2>1 DEF Shl
<1>6. secded_64_57.masks[5] = {2, 6, 9, 12, 13, 16, 19, 22, 23, 25, 28, 29, 31, 32, 34, 35, 38, 39, 41,
         42, 44, 45, 46, 48, 49, 50, 51, 53, 54, 55, 56}
  BY <1>1, <1>2, <1>3, <1>4, <1>5, HexOfFour
<1>7. \A p : InRow(secded_64_57, p, 5) <=> p \in secded_64_57.masks[5] \/ p = 61
  BY <1>1 DEF InRow, Row
<1> QED
  BY <1>6, <1>7 DEF Ones

LEMMA Row_64_57_6 ==
  /\ secded_64_57.masks[6] \in SUBSET Ones(57)
  /\ \A p : InRow(secded_64_57, p, 6) <=>
           p \in {3, 7, 10, 12, 14, 17, 20, 22, 24, 26, 28, 30, 31, 33, 34, 36, 38,
                 40, 41, 43, 44, 45, 47, 48, 49, 50, 52, 53, 54, 55, 56, 62}
<1>1. secded_64_57.data = 57 /\ Len(secded_64_57.masks) = 7 /\ secded_64_57.masks[6] = Hex(<<\h1f7, \hbb56, \hd552, \h5488>>)
  BY DEF secded_64_57
<1>2. Shl(Number(\h1f7), 48) = {48, 49, 50, 52, 53, 54, 55, 56}
  <2>1. Number(\h1f7) = {0, 1, 2, 4, 5, 6, 7, 8}
    BY DEF Number, Power
  <2> QED
    BY <2>1 DEF Shl
<1>3. Shl(Number(\hbb56), 32) = {33, 34, 36, 38, 40, 41, 43, 44, 45, 47}
  <2>1. Number(\hbb56) = {1, 2, 4, 6, 8, 9, 11, 12, 13, 15}
    BY DEF Number, Power
  <2> QED
    BY <2>1 DEF Shl
<1>4. Shl(Number(\hd552), 16) = {17, 20, 22, 24, 26, 28, 30, 31}
  <2>1. Number(\hd552) = {1, 4, 6, 8, 10, 12, 14, 15}
    BY DEF Number, Power
  <2> QED
    BY <2>1 DEF Shl
<1>5. Shl(Number(\h5488), 0) = {3, 7, 10, 12, 14}
  <2>1. Number(\h5488) = {3, 7, 10, 12, 14}
    BY DEF Number, Power
  <2> QED
    BY <2>1 DEF Shl
<1>6. secded_64_57.masks[6] = {3, 7, 10, 12, 14, 17, 20, 22, 24, 26, 28, 30, 31, 33, 34, 36, 38, 40, 41,
         43, 44, 45, 47, 48, 49, 50, 52, 53, 54, 55, 56}
  BY <1>1, <1>2, <1>3, <1>4, <1>5, HexOfFour
<1>7. \A p : InRow(secded_64_57, p, 6) <=> p \in secded_64_57.masks[6] \/ p = 62
  BY <1>1 DEF InRow, Row
<1> QED
  BY <1>6, <1>7 DEF Ones

LEMMA Row_64_57_7 ==
  /\ secded_64_57.masks[7] \in SUBSET Ones(57)
  /\ \A p : InRow(secded_64_57, p, 7) <=>
           p \in {4, 8, 11, 13, 14, 18, 21, 23, 24, 27, 29, 30, 32, 33, 34, 37, 39,
                 40, 42, 43, 44, 46, 47, 48, 49, 51, 52, 53, 54, 55, 56, 63}
<1>1. secded_64_57.data = 57 /\ Len(secded_64_57.masks) = 7 /\ secded_64_57.masks[7] = Hex(<<\h1fb, \hdda7, \h69a4, \h6910>>)
  BY DEF secded_64_57
<1>2. Shl(Number(\h1fb), 48) = {48, 49, 51, 52, 53, 54, 55, 56}
  <2>1. Number(\h1fb) = {0, 1, 3, 4, 5, 6, 7, 8}
    BY DEF Number, Power
  <2> QED
    BY <2>1 DEF Shl
<1>3. Shl(Number(\hdda7), 32) = {32, 33, 34, 37, 39, 40, 42, 43, 44, 46, 47}
  <2>1. Number(\hdda7) = {0, 1, 2, 5, 7, 8, 10, 11, 12, 14, 15}
    BY DEF Number, Power
  <2> QED
    BY <2>1 DEF Shl
<1>4. Shl(Number(\h69a4), 16) = {18, 21, 23, 24, 27, 29, 30}
  <2>1. Number(\h69a4) = {2, 5, 7, 8, 11, 13, 14}
    BY DEF Number, Power
  <2> QED
    BY <2>1 DEF Shl
<1>5. Shl(Number(\h6910), 0) = {4, 8, 11, 13, 14}
  <2>1. Number(\h6910) = {4, 8, 11, 13, 14}
    BY DEF Number, Power
  <2> QED
    BY <2>1 DEF Shl
<1>6. secded_64_57.masks[7] = {4, 8, 11, 13, 14, 18, 21, 23, 24, 27, 29, 30, 32, 33, 34, 37, 39, 40, 42,
         43, 44, 46, 47, 48, 49, 51, 52, 53, 54, 55, 56}
  BY <1>1, <1>2, <1>3, <1>4, <1>5, HexOfFour
<1>7. \A p : InRow(secded_64_57, p, 7) <=> p \in secded_64_57.masks[7] \/ p = 63
  BY <1>1 DEF InRow, Row
<1> QED
  BY <1>6, <1>7 DEF Ones

(* The rows of secded_72_64.                                                *)
LEMMA Row_72_64_1 ==
  /\ secded_72_64.masks[1] \in SUBSET Ones(64)
  /\ \A p : InRow(secded_72_64, p, 1) <=>
           p \in {0, 1, 2, 3, 4, 5, 6, 7, 8, 9, 10, 11, 12, 13, 14, 15, 16, 17, 18,
                 19, 20, 56, 59, 60, 61, 63, 64}
<1>1. secded_72_64.data = 64 /\ Len(secded_72_64.masks) = 8 /\ secded_72_64.masks[1] = Hex(<<\hb900, \h0000, \h001f, \hffff>>)
  BY DEF secded_72_64
<1>2. Shl(Number(\hb900), 48) = {56, 59, 60, 61, 63}
  <2>1. Number(\hb900) = {8, 11, 12, 13, 15}
    BY DEF Number, Power
  <2> QED
    BY <2>1 DEF Shl
<1>3. Shl(Number(\h0000), 32) = {}
  <2>1. Number(\h0000) = {}
    BY DEF Number, Power
  <2> QED
    BY <2>1 DEF Shl
<1>4. Shl(Number(\h001f), 16) = {16, 17, 18, 19, 20}
  <2>1. Number(\h001f) = {0, 1, 2, 3, 4}
    BY DEF Number, Power
  <2> QED
    BY <2>1 DEF Shl
<1>5. Shl(Number(\hffff), 0) = {0, 1, 2, 3, 4, 5, 6, 7, 8, 9, 10, 11, 12, 13, 14, 15}
  <2>1. Number(\hffff) = {0, 1, 2, 3, 4, 5, 6, 7, 8, 9, 10, 11, 12, 13, 14, 15}
    BY DEF Number, Power
  <2> QED
    BY <2>1 DEF Shl
<1>6. secded_72_64.masks[1] = {0, 1, 2, 3, 4, 5, 6, 7, 8, 9, 10, 11, 12, 13, 14, 15, 16, 17, 18, 19, 20,
         56, 59, 60, 61, 63}
  BY <1>1, <1>2, <1>3, <1>4, <1>5, HexOfFour
<1>7. \A p : InRow(secded_72_64, p, 1) <=> p \in secded_72_64.masks[1] \/ p = 64
  BY <1>1 DEF InRow, Row
<1> QED
  BY <1>6, <1>7 DEF Ones

LEMMA Row_72_64_2 ==
  /\ secded_72_64.masks[2] \in SUBSET Ones(64)
  /\ \A p : InRow(secded_72_64, p, 2) <=>
           p \in {0, 1, 2, 3, 4, 5, 21, 22, 23, 24, 25, 26, 27, 28, 29, 30, 31, 32,
                 33, 34, 35, 57, 58, 59, 60, 62, 65}
<1>1. secded_72_64.data = 64 /\ Len(secded_72_64.masks) = 8 /\ secded_72_64.masks[2] = Hex(<<\h5e00, \h000f, \hffe0, \h003f>>)
  BY DEF secded_72_64
<1>2. Shl(Number(\h5e00), 48) = {57, 58, 59, 60, 62}
  <2>1. Number(\h5e00) = {9, 10, 11, 12, 14}
    BY DEF Number, Power
  <2> QED
    BY <2>1 DEF Shl
<1>3. Shl(Number(\h000f), 32) = {32, 33, 34, 35}
  <2>1. Number(\h000f) = {0, 1, 2, 3}
    BY DEF Number, Power
  <2> QED
    BY <2>1 DEF Shl
<1>4. Shl(Number(\hffe0), 16) = {21, 22, 23, 24, 25, 26, 27, 28, 29, 30, 31}
  <2>1. Number(\hffe0) = {5, 6, 7, 8, 9, 10, 11, 12, 13, 14, 15}
    BY DEF Number, Power
  <2> QED
    BY <2>1 DEF Shl
<1>5. Shl(Number(\h003f), 0) = {0, 1, 2, 3, 4, 5}
  <2>1. Number(\h003f) = {0, 1, 2, 3, 4, 5}
    BY DEF Number, Power
  <2> QED
    BY <2>1 DEF Shl
<1>6. secded_72_64.masks[2] = {0, 1, 2, 3, 4, 5, 21, 22, 23, 24, 25, 26, 27, 28, 29, 30, 31, 32, 33, 34,
         35, 57, 58, 59, 60, 62}
  BY <1>1, <1>2, <1>3, <1>4, <1>5, HexOfFour
<1>7. \A p : InRow(secded_72_64, p, 2) <=> p \in secded_72_64.masks[2] \/ p = 65
  BY <1>1 DEF InRow, Row
<1> QED
  BY <1>6, <1>7 DEF Ones

LEMMA Row_72_64_3 ==
  /\ secded_72_64.masks[3] \in SUBSET Ones(64)
  /\ \A p : InRow(secded_72_64, p, 3) <=>
           p \in {0, 6, 7, 8, 9, 10, 21, 22, 23, 24, 25, 36, 37, 38, 39, 40, 41, 42,
                 43, 44, 45, 56, 57, 58, 61, 62, 66}
<1>1. secded_72_64.data = 64 /\ Len(secded_72_64.masks) = 8 /\ secded_72_64.masks[3] = Hex(<<\h6700, \h3ff0, \h03e0, \h07c1>>)
  BY DEF secded_72_64
<1>2. Shl(Number(\h6700), 48) = {56, 57, 58, 61, 62}
  <2>1. Number(\h6700) = {8, 9, 10, 13, 14}
    BY DEF Number, Power
  <2> QED
    BY <2>1 DEF Shl
<1>3. Shl(Number(\h3ff0), 32) = {36, 37, 38, 39, 40, 41, 42, 43, 44, 45}
  <2>1. Number(\h3ff0) = {4, 5, 6, 7, 8, 9, 10, 11, 12, 13}
    BY DEF Number, Power
  <2> QED
    BY <2>1 DEF Shl
<1>4. Shl(Number(\h03e0), 16) = {21, 22, 23, 24, 25}
  <2>1. Number(\h03e0) = {5, 6, 7, 8, 9}
    BY DEF Number, Power
  <2> QED
    BY <2>1 DEF Shl
<1>5. Shl(Number(\h07c1), 0) = {0, 6, 7, 8, 9, 10}
  <2>1. Number(\h07c1) = {0, 6, 7, 8, 9, 10}
    BY DEF Number, Power
  <2> QED
    BY <2>1 DEF Shl
<1>6. secded_72_64.masks[3] = {0, 6, 7, 8, 9, 10, 21, 22, 23, 24, 25, 36, 37, 38, 39, 40, 41, 42, 43, 44,
         45, 56, 57, 58, 61, 62}
  BY <1>1, <1>2, <1>3, <1>4, <1>5, HexOfFour
<1>7. \A p : InRow(secded_72_64, p, 3) <=> p \in secded_72_64.masks[3] \/ p = 66
  BY <1>1 DEF InRow, Row
<1> QED
  BY <1>6, <1>7 DEF Ones

LEMMA Row_72_64_4 ==
  /\ secded_72_64.masks[4] \in SUBSET Ones(64)
  /\ \A p : InRow(secded_72_64, p, 4) <=>
           p \in {1, 6, 11, 12, 13, 14, 21, 26, 27, 28, 29, 36, 37, 38, 39, 46, 47,
                 48, 49, 50, 51, 56, 58, 59, 62, 63, 67}
<1>1. secded_72_64.data = 64 /\ Len(secded_72_64.masks) = 8 /\ secded_72_64.masks[4] = Hex(<<\hcd0f, \hc0f0, \h3c20, \h7842>>)
  BY DEF secded_72_64
<1>2. Shl(Number(\hcd0f), 48) = {48, 49, 50, 51, 56, 58, 59, 62, 63}
  <2>1. Number(\hcd0f) = {0, 1, 2, 3, 8, 10, 11, 14, 15}
    BY DEF Number, Power
  <2> QED
    BY <2>1 DEF Shl
<1>3. Shl(Number(\hc0f0), 32) = {36, 37, 38, 39, 46, 47}
  <2>1. Number(\hc0f0) = {4, 5, 6, 7, 14, 15}
    BY DEF Number, Power
  <2> QED
    BY <2>1 DEF Shl
<1>4. Shl(Number(\h3c20), 16) = {21, 26, 27, 28, 29}
  <2>1. Number(\h3c20) = {5, 10, 11, 12, 13}
    BY DEF Number, Power
  <2> QED
    BY <2>1 DEF Shl
<1>5. Shl(Number(\h7842), 0) = {1, 6, 11, 12, 13, 14}
  <2>1. Number(\h7842) = {1, 6, 11, 12, 13, 14}
    BY DEF Number, Power
  <2> QED
    BY <2>1 DEF Shl
<1>6. secded_72_64.masks[4] = {1, 6, 11, 12, 13, 14, 21, 26, 27, 28, 29, 36, 37, 38, 39, 46, 47, 48, 49,
         50, 51, 56, 58, 59, 62, 63}
  BY <1>1, <1>2, <1>3, <1>4, <1>5, HexOfFour
<1>7. \A p : InRow(secded_72_64, p, 4) <=> p \in secded_72_64.masks[4] \/ p = 67
  BY <1>1 DEF InRow, Row
<1> QED
  BY <1>6, <1>7 DEF Ones

LEMMA Row_72_64_5 ==
  /\ secded_72_64.masks[5] \in SUBSET Ones(64)
  /\ \A p : InRow(secded_72_64, p, 5) <=>
           p \in {2, 7, 11, 15, 16, 17, 22, 26, 30, 31, 32, 36, 40, 41, 42, 46, 47,
                 48, 52, 53, 54, 57, 58, 60, 61, 63, 68}
<1>1. secded_72_64.data = 64 /\ Len(secded_72_64.masks) = 8 /\ secded_72_64.masks[5] = Hex(<<\hb671, \hc711, \hc443, \h8884>>)
  BY DEF secded_72_64
<1>2. Shl(Number(\hb671), 48) = {48, 52, 53, 54, 57, 58, 60, 61, 63}
  <2>1. Number(\hb671) = {0, 4, 5, 6, 9, 10, 12, 13, 15}
    BY DEF Number, Power
  <2> QED
    BY <2>1 DEF Shl
<1>3. Shl(Number(\hc711), 32) = {32, 36, 40, 41, 42, 46, 47}
  <2>1. Number(\hc711) = {0, 4, 8, 9, 10, 14, 15}
    BY DEF Number, Power
  <2> QED
    BY <2>1 DEF Shl
<1>4. Shl(Number(\hc443), 16) = {16, 17, 22, 26, 30, 31}
  <2>1. Number(\hc443) = {0, 1, 6, 10, 14, 15}
    BY DEF Number, Power
  <2> QED
    BY <2>1 DEF Shl
<1>5. Shl(Number(\h8884), 0) = {2, 7, 11, 15}
  <2>1. Number(\h8884) = {2, 7, 11, 15}
    BY DEF Number, Power
  <2> QED
    BY <2>1 DEF Shl
<1>6. secded_72_64.masks[5] = {2, 7, 11, 15, 16, 17, 22, 26, 30, 31, 32, 36, 40, 41, 42, 46, 47, 48, 52,
         53, 54, 57, 58, 60, 61, 63}
  BY <1>1, <1>2, <1>3, <1>4, <1>5, HexOfFour
<1>7. \A p : InRow(secded_72_64, p, 5) <=> p \in secded_72_64.masks[5] \/ p = 68
  BY <1>1 DEF InRow, Row
<1> QED
  BY <1>6, <1>7 DEF Ones

LEMMA Row_72_64_6 ==
  /\ secded_72_64.masks[6] \in SUBSET Ones(64)
  /\ \A p : InRow(secded_72_64, p, 6) <=>
           p \in {3, 8, 12, 15, 18, 19, 23, 27, 30, 33, 34, 37, 40, 43, 44, 46, 49,
                 50, 52, 53, 55, 56, 58, 60, 61, 63, 69}
<1>1. secded_72_64.data = 64 /\ Len(secded_72_64.masks) = 8 /\ secded_72_64.masks[6] = Hex(<<\hb5b6, \h5926, \h488c, \h9108>>)
  BY DEF secded_72_64
<1>2. Shl(Number(\hb5b6), 48) = {49, 50, 52, 53, 55, 56, 58, 60, 61, 63}
  <2>1. Number(\hb5b6) = {1, 2, 4, 5, 7, 8, 10, 12, 13, 15}
    BY DEF Number, Power
  <2> QED
    BY <2>1 DEF Shl
<1>3. Shl(Number(\h5926), 32) = {33, 34, 37, 40, 43, 44, 46}
  <2>1. Number(\h5926) = {1, 2, 5, 8, 11, 12, 14}
    BY DEF Number, Power
  <2> QED
    BY <2>1 DEF Shl
<1>4. Shl(Number(\h488c), 16) = {18, 19, 23, 27, 30}
  <2>1. Number(\h488c) = {2, 3, 7, 11, 14}
    BY DEF Number, Power
  <2> QED
    BY <2>1 DEF Shl
<1>5. Shl(Number(\h9108), 0) = {3, 8, 12, 15}
  <2>1. Number(\h9108) = {3, 8, 12, 15}
    BY DEF Number, Power
  <2> QED
    BY <2>1 DEF Shl
<1>6. secded_72_64.masks[6] = {3, 8, 12, 15, 18, 19, 23, 27, 30, 33, 34, 37, 40, 43, 44, 46, 49, 50, 52,
         53, 55, 56, 58, 60, 61, 63}
  BY <1>1, <1>2, <1>3, <1>4, <1>5, HexOfFour
<1>7. \A p : InRow(secded_72_64, p, 6) <=> p \in secded_72_64.masks[6] \/ p = 69
  BY <1>1 DEF InRow, Row
<1> QED
  BY <1>6, <1>7 DEF Ones

LEMMA Row_72_64_7 ==
  /\ secded_72_64.masks[7] \in SUBSET Ones(64)
  /\ \A p : InRow(secded_72_64, p, 7) <=>
           p \in {4, 9, 13, 16, 18, 20, 24, 28, 31, 33, 35, 38, 41, 43, 45, 47, 49,
                 51, 52, 54, 55, 56, 57, 59, 62, 63, 70}
<1>1. secded_72_64.data = 64 /\ Len(secded_72_64.masks) = 8 /\ secded_72_64.masks[7] = Hex(<<\hcbda, \haa4a, \h9115, \h2210>>)
  BY DEF secded_72_64
<1>2. Shl(Number(\hcbda), 48) = {49, 51, 52, 54, 55, 56, 57, 59, 62, 63}
  <2>1. Number(\hcbda) = {1, 3, 4, 6, 7, 8, 9, 11, 14, 15}
    BY DEF Number, Power
  <2> QED
    BY <2>1 DEF Shl
<1>3. Shl(Number(\haa4a), 32) = {33, 35, 38, 41, 43, 45, 47}
  <2>1. Number(\haa4a) = {1, 3, 6, 9, 11, 13, 15}
    BY DEF Number, Power
  <2> QED
    BY <2>1 DEF Shl
<1>4. Shl(Number(\h9115), 16) = {16, 18, 20, 24, 28, 31}
  <2>1. Number(\h9115) = {0, 2, 4, 8, 12, 15}
    BY DEF Number, Power
  <2> QED
    BY <2>1 DEF Shl
<1>5. Shl(Number(\h2210), 0) = {4, 9, 13}
  <2>1. Number(\h2210) = {4, 9, 13}
    BY DEF Number, Power
  <2> QED
    BY <2>1 DEF Shl
<1>6. secded_72_64.masks[7] = {4, 9, 13, 16, 18, 20, 24, 28, 31, 33, 35, 38, 41, 43, 45, 47, 49, 51, 52,
         54, 55, 56, 57, 59, 62, 63}
  BY <1>1, <1>2, <1>3, <1>4, <1>5, HexOfFour
<1>7. \A p : InRow(secded_72_64, p, 7) <=> p \in secded_72_64.masks[7] \/ p = 70
  BY <1>1 DEF InRow, Row
<1> QED
  BY <1>6, <1>7 DEF Ones

LEMMA Row_72_64_8 ==
  /\ secded_72_64.masks[8] \in SUBSET Ones(64)
  /\ \A p : InRow(secded_72_64, p, 8) <=>
           p \in {5, 10, 14, 17, 19, 20, 25, 29, 32, 34, 35, 39, 42, 44, 45, 48, 50,
                 51, 53, 54, 55, 57, 59, 60, 61, 62, 71}
<1>1. secded_72_64.data = 64 /\ Len(secded_72_64.masks) = 8 /\ secded_72_64.masks[8] = Hex(<<\h7aed, \h348d, \h221a, \h4420>>)
  BY DEF secded_72_64
<1>2. Shl(Number(\h7aed), 48) = {48, 50, 51, 53, 54, 55, 57, 59, 60, 61, 62}
  <2>1. Number(\h7aed) = {0, 2, 3, 5, 6, 7, 9, 11, 12, 13, 14}
    BY DEF Number, Power
  <2> QED
    BY <2>1 DEF Shl
<1>3. Shl(Number(\h348d), 32) = {32, 34, 35, 39, 42, 44, 45}
  <2>1. Number(\h348d) = {0, 2, 3, 7, 10, 12, 13}
    BY DEF Number, Power
  <2> QED
    BY <2>1 DEF Shl
<1>4. Shl(Number(\h221a), 16) = {17, 19, 20, 25, 29}
  <2>1. Number(\h221a) = {1, 3, 4, 9, 13}
    BY DEF Number, Power
  <2> QED
    BY <2>1 DEF Shl
<1>5. Shl(Number(\h4420), 0) = {5, 10, 14}
  <2>1. Number(\h4420) = {5, 10, 14}
    BY DEF Number, Power
  <2> QED
    BY <2>1 DEF Shl
<1>6. secded_72_64.masks[8] = {5, 10, 14, 17, 19, 20, 25, 29, 32, 34, 35, 39, 42, 44, 45, 48, 50, 51, 53,
         54, 55, 57, 59, 60, 61, 62}
  BY <1>1, <1>2, <1>3, <1>4, <1>5, HexOfFour
<1>7. \A p : InRow(secded_72_64, p, 8) <=> p \in secded_72_64.masks[8] \/ p = 71
  BY <1>1 DEF InRow, Row
<1> QED
  BY <1>6, <1>7 DEF Ones

(* What makes secded_22_16 a code that detects three wrong bits.            *)
LEMMA Code_22_16 ==
  IsCode(secded_22_16) /\ Top(secded_22_16) = 21 /\ Len(secded_22_16.masks) = 6
<1>1. secded_22_16.data = 16 /\ DOMAIN secded_22_16.masks = 1..6 /\ Len(secded_22_16.masks) = 6
  BY DEF secded_22_16
<1>2. ASSUME NEW j \in 1..6
      PROVE  secded_22_16.masks[j] \in SUBSET Ones(16)
  <2>1. j = 1 \/ j = 2 \/ j = 3 \/ j = 4 \/ j = 5 \/ j = 6
    OBVIOUS
  <2> QED
    BY <2>1, Row_22_16_1, Row_22_16_2, Row_22_16_3, Row_22_16_4, Row_22_16_5, Row_22_16_6, ZenonT(60)
<1> QED
  BY <1>1, <1>2 DEF IsCode, Top

(* Its columns are odd and differ.                                          *)
LEMMA Columns_22_16 == GoodColumns(secded_22_16)
<1> DEFINE r(p, j) == InRow(secded_22_16, p, j)
<1>1. ASSUME NEW p \in 0..21
      PROVE  OddColumn(secded_22_16, p)
  <2>1. r(p, 1) <=> p \in {1, 2, 3, 5, 6, 8, 11, 14, 16}
    BY Row_22_16_1, ZenonT(60)
  <2>2. r(p, 2) <=> p \in {0, 1, 3, 9, 12, 13, 14, 15, 17}
    BY Row_22_16_2, ZenonT(60)
  <2>3. r(p, 3) <=> p \in {3, 4, 6, 7, 9, 10, 11, 15, 18}
    BY Row_22_16_3, ZenonT(60)
  <2>4. r(p, 4) <=> p \in {2, 4, 8, 9, 10, 12, 13, 14, 19}
    BY Row_22_16_4, ZenonT(60)
  <2>5. r(p, 5) <=> p \in {0, 2, 5, 7, 10, 11, 13, 15, 20}
    BY Row_22_16_5, ZenonT(60)
  <2>6. r(p, 6) <=> p \in {0, 1, 4, 5, 6, 7, 8, 12, 21}
    BY Row_22_16_6, ZenonT(60)
  <2>7. r(p, 7) <=> FALSE
    BY Code_22_16 DEF InRow
  <2>8. r(p, 8) <=> FALSE
    BY Code_22_16 DEF InRow
  <2> HIDE DEF r
  <2>9. OddOf(r(p, 1), r(p, 2), r(p, 3), r(p, 4), r(p, 5), r(p, 6), r(p, 7), r(p, 8))
    BY <2>1, <2>2, <2>3, <2>4, <2>5, <2>6, <2>7, <2>8 DEF OddOf
  <2> QED
    BY <2>9 DEF OddColumn, r
<1>2. ASSUME NEW p \in 0..21, NEW q \in 0..21, \A j \in 1..8 : r(p, j) <=> r(q, j)
      PROVE  p = q
  <2>1. 1 \in 1..8 /\ 2 \in 1..8 /\ 3 \in 1..8 /\ 4 \in 1..8 /\ 5 \in 1..8 /\ 6 \in 1..8 /\ 7 \in 1..8 /\ 8 \in 1..8
    OBVIOUS
  <2>2. p \in {1, 2, 3, 5, 6, 8, 11, 14, 16}
          <=> q \in {1, 2, 3, 5, 6, 8, 11, 14, 16}
    <3>1. r(p, 1) <=> r(q, 1)
      BY <1>2, <2>1, Zenon
    <3> QED
      BY <3>1, Row_22_16_1, ZenonT(60)
  <2>3. p \in {0, 1, 3, 9, 12, 13, 14, 15, 17}
          <=> q \in {0, 1, 3, 9, 12, 13, 14, 15, 17}
    <3>1. r(p, 2) <=> r(q, 2)
      BY <1>2, <2>1, Zenon
    <3> QED
      BY <3>1, Row_22_16_2, ZenonT(60)
  <2>4. p \in {3, 4, 6, 7, 9, 10, 11, 15, 18}
          <=> q \in {3, 4, 6, 7, 9, 10, 11, 15, 18}
    <3>1. r(p, 3) <=> r(q, 3)
      BY <1>2, <2>1, Zenon
    <3> QED
      BY <3>1, Row_22_16_3, ZenonT(60)
  <2>5. p \in {2, 4, 8, 9, 10, 12, 13, 14, 19}
          <=> q \in {2, 4, 8, 9, 10, 12, 13, 14, 19}
    <3>1. r(p, 4) <=> r(q, 4)
      BY <1>2, <2>1, Zenon
    <3> QED
      BY <3>1, Row_22_16_4, ZenonT(60)
  <2>6. p \in {0, 2, 5, 7, 10, 11, 13, 15, 20}
          <=> q \in {0, 2, 5, 7, 10, 11, 13, 15, 20}
    <3>1. r(p, 5) <=> r(q, 5)
      BY <1>2, <2>1, Zenon
    <3> QED
      BY <3>1, Row_22_16_5, ZenonT(60)
  <2>7. p \in {0, 1, 4, 5, 6, 7, 8, 12, 21}
          <=> q \in {0, 1, 4, 5, 6, 7, 8, 12, 21}
    <3>1. r(p, 6) <=> r(q, 6)
      BY <1>2, <2>1, Zenon
    <3> QED
      BY <3>1, Row_22_16_6, ZenonT(60)
  <2> QED
    BY <2>2, <2>3, <2>4, <2>5, <2>6, <2>7
<1> QED
  BY <1>1, <1>2, Code_22_16 DEF GoodColumns

(* What makes secded_28_22 a code that detects three wrong bits.            *)
LEMMA Code_28_22 ==
  IsCode(secded_28_22) /\ Top(secded_28_22) = 27 /\ Len(secded_28_22.masks) = 6
<1>1. secded_28_22.data = 22 /\ DOMAIN secded_28_22.masks = 1..6 /\ Len(secded_28_22.masks) = 6
  BY DEF secded_28_22
<1>2. ASSUME NEW j \in 1..6
      PROVE  secded_28_22.masks[j] \in SUBSET Ones(22)
  <2>1. j = 1 \/ j = 2 \/ j = 3 \/ j = 4 \/ j = 5 \/ j = 6
    OBVIOUS
  <2> QED
    BY <2>1, Row_28_22_1, Row_28_22_2, Row_28_22_3, Row_28_22_4, Row_28_22_5, Row_28_22_6, ZenonT(60)
<1> QED
  BY <1>1, <1>2 DEF IsCode, Top

(* Its columns are odd and differ.                                          *)
LEMMA Columns_28_22 == GoodColumns(secded_28_22)
<1> DEFINE r(p, j) == InRow(secded_28_22, p, j)
<1>1. ASSUME NEW p \in 0..27
      PROVE  OddColumn(secded_28_22, p)
  <2>1. r(p, 1) <=> p \in {0, 1, 2, 3, 4, 5, 6, 7, 8, 9, 20, 21, 22}
    BY Row_28_22_1, ZenonT(60)
  <2>2. r(p, 2) <=> p \in {0, 1, 2, 3, 10, 11, 12, 13, 14, 15, 20, 23}
    BY Row_28_22_2, ZenonT(60)
  <2>3. r(p, 3) <=> p \in {0, 4, 5, 6, 10, 11, 12, 16, 17, 18, 21, 24}
    BY Row_28_22_3, ZenonT(60)
  <2>4. r(p, 4) <=> p \in {1, 4, 7, 8, 10, 13, 14, 16, 17, 19, 20, 21, 25}
    BY Row_28_22_4, ZenonT(60)
  <2>5. r(p, 5) <=> p \in {2, 5, 7, 9, 11, 13, 15, 16, 18, 19, 20, 21, 26}
    BY Row_28_22_5, ZenonT(60)
  <2>6. r(p, 6) <=> p \in {3, 6, 8, 9, 12, 14, 15, 17, 18, 19, 20, 21, 27}
    BY Row_28_22_6, ZenonT(60)
  <2>7. r(p, 7) <=> FALSE
    BY Code_28_22 DEF InRow
  <2>8. r(p, 8) <=> FALSE
    BY Code_28_22 DEF InRow
  <2> HIDE DEF r
  <2>9. OddOf(r(p, 1), r(p, 2), r(p, 3), r(p, 4), r(p, 5), r(p, 6), r(p, 7), r(p, 8))
    BY <2>1, <2>2, <2>3, <2>4, <2>5, <2>6, <2>7, <2>8 DEF OddOf
  <2> QED
    BY <2>9 DEF OddColumn, r
<1>2. ASSUME NEW p \in 0..27, NEW q \in 0..27, \A j \in 1..8 : r(p, j) <=> r(q, j)
      PROVE  p = q
  <2>1. 1 \in 1..8 /\ 2 \in 1..8 /\ 3 \in 1..8 /\ 4 \in 1..8 /\ 5 \in 1..8 /\ 6 \in 1..8 /\ 7 \in 1..8 /\ 8 \in 1..8
    OBVIOUS
  <2>2. p \in {0, 1, 2, 3, 4, 5, 6, 7, 8, 9, 20, 21, 22}
          <=> q \in {0, 1, 2, 3, 4, 5, 6, 7, 8, 9, 20, 21, 22}
    <3>1. r(p, 1) <=> r(q, 1)
      BY <1>2, <2>1, Zenon
    <3> QED
      BY <3>1, Row_28_22_1, ZenonT(60)
  <2>3. p \in {0, 1, 2, 3, 10, 11, 12, 13, 14, 15, 20, 23}
          <=> q \in {0, 1, 2, 3, 10, 11, 12, 13, 14, 15, 20, 23}
    <3>1. r(p, 2) <=> r(q, 2)
      BY <1>2, <2>1, Zenon
    <3> QED
      BY <3>1, Row_28_22_2, ZenonT(60)
  <2>4. p \in {0, 4, 5, 6, 10, 11, 12, 16, 17, 18, 21, 24}
          <=> q \in {0, 4, 5, 6, 10, 11, 12, 16, 17, 18, 21, 24}
    <3>1. r(p, 3) <=> r(q, 3)
      BY <1>2, <2>1, Zenon
    <3> QED
      BY <3>1, Row_28_22_3, ZenonT(60)
  <2>5. p \in {1, 4, 7, 8, 10, 13, 14, 16, 17, 19, 20, 21, 25}
          <=> q \in {1, 4, 7, 8, 10, 13, 14, 16, 17, 19, 20, 21, 25}
    <3>1. r(p, 4) <=> r(q, 4)
      BY <1>2, <2>1, Zenon
    <3> QED
      BY <3>1, Row_28_22_4, ZenonT(60)
  <2>6. p \in {2, 5, 7, 9, 11, 13, 15, 16, 18, 19, 20, 21, 26}
          <=> q \in {2, 5, 7, 9, 11, 13, 15, 16, 18, 19, 20, 21, 26}
    <3>1. r(p, 5) <=> r(q, 5)
      BY <1>2, <2>1, Zenon
    <3> QED
      BY <3>1, Row_28_22_5, ZenonT(60)
  <2>7. p \in {3, 6, 8, 9, 12, 14, 15, 17, 18, 19, 20, 21, 27}
          <=> q \in {3, 6, 8, 9, 12, 14, 15, 17, 18, 19, 20, 21, 27}
    <3>1. r(p, 6) <=> r(q, 6)
      BY <1>2, <2>1, Zenon
    <3> QED
      BY <3>1, Row_28_22_6, ZenonT(60)
  <2> QED
    BY <2>2, <2>3, <2>4, <2>5, <2>6, <2>7
<1> QED
  BY <1>1, <1>2, Code_28_22 DEF GoodColumns

(* What makes secded_39_32 a code that detects three wrong bits.            *)
LEMMA Code_39_32 ==
  IsCode(secded_39_32) /\ Top(secded_39_32) = 38 /\ Len(secded_39_32.masks) = 7
<1>1. secded_39_32.data = 32 /\ DOMAIN secded_39_32.masks = 1..7 /\ Len(secded_39_32.masks) = 7
  BY DEF secded_39_32
<1>2. ASSUME NEW j \in 1..7
      PROVE  secded_39_32.masks[j] \in SUBSET Ones(32)
  <2>1. j = 1 \/ j = 2 \/ j = 3 \/ j = 4 \/ j = 5 \/ j = 6 \/ j = 7
    OBVIOUS
  <2> QED
    BY <2>1, Row_39_32_1, Row_39_32_2, Row_39_32_3, Row_39_32_4, Row_39_32_5, Row_39_32_6, Row_39_32_7, ZenonT(60)
<1> QED
  BY <1>1, <1>2 DEF IsCode, Top

(* Its columns are odd and differ.                                          *)
LEMMA Columns_39_32 == GoodColumns(secded_39_32)
<1> DEFINE r(p, j) == InRow(secded_39_32, p, j)
<1>1. ASSUME NEW p \in 0..38
      PROVE  OddColumn(secded_39_32, p)
  <2>1. r(p, 1) <=> p \in {0, 2, 5, 8, 10, 11, 12, 13, 15, 17, 18, 25, 26, 29, 32}
    BY Row_39_32_1, ZenonT(60)
  <2>2. r(p, 2) <=> p \in {4, 6, 15, 17, 19, 20, 21, 23, 25, 26, 27, 28, 30, 31, 33}
    BY Row_39_32_2, ZenonT(60)
  <2>3. r(p, 3) <=> p \in {1, 3, 5, 7, 8, 11, 15, 16, 18, 19, 20, 21, 24, 30, 34}
    BY Row_39_32_3, ZenonT(60)
  <2>4. r(p, 4) <=> p \in {0, 4, 6, 7, 9, 10, 11, 14, 16, 17, 21, 24, 28, 29, 35}
    BY Row_39_32_4, ZenonT(60)
  <2>5. r(p, 5) <=> p \in {0, 1, 3, 4, 5, 9, 12, 13, 16, 22, 23, 25, 30, 31, 36}
    BY Row_39_32_5, ZenonT(60)
  <2>6. r(p, 6) <=> p \in {2, 3, 6, 9, 13, 14, 18, 19, 22, 23, 24, 26, 27, 29, 37}
    BY Row_39_32_6, ZenonT(60)
  <2>7. r(p, 7) <=> p \in {1, 2, 7, 8, 10, 12, 14, 20, 22, 27, 28, 31, 38}
    BY Row_39_32_7, ZenonT(60)
  <2>8. r(p, 8) <=> FALSE
    BY Code_39_32 DEF InRow
  <2> HIDE DEF r
  <2>9. OddOf(r(p, 1), r(p, 2), r(p, 3), r(p, 4), r(p, 5), r(p, 6), r(p, 7), r(p, 8))
    BY <2>1, <2>2, <2>3, <2>4, <2>5, <2>6, <2>7, <2>8 DEF OddOf
  <2> QED
    BY <2>9 DEF OddColumn, r
<1>2. ASSUME NEW p \in 0..38, NEW q \in 0..38, \A j \in 1..8 : r(p, j) <=> r(q, j)
      PROVE  p = q
  <2>1. 1 \in 1..8 /\ 2 \in 1..8 /\ 3 \in 1..8 /\ 4 \in 1..8 /\ 5 \in 1..8 /\ 6 \in 1..8 /\ 7 \in 1..8 /\ 8 \in 1..8
    OBVIOUS
  <2>2. p \in {0, 2, 5, 8, 10, 11, 12, 13, 15, 17, 18, 25, 26, 29, 32}
          <=> q \in {0, 2, 5, 8, 10, 11, 12, 13, 15, 17, 18, 25, 26, 29, 32}
    <3>1. r(p, 1) <=> r(q, 1)
      BY <1>2, <2>1, Zenon
    <3> QED
      BY <3>1, Row_39_32_1, ZenonT(60)
  <2>3. p \in {4, 6, 15, 17, 19, 20, 21, 23, 25, 26, 27, 28, 30, 31, 33}
          <=> q \in {4, 6, 15, 17, 19, 20, 21, 23, 25, 26, 27, 28, 30, 31, 33}
    <3>1. r(p, 2) <=> r(q, 2)
      BY <1>2, <2>1, Zenon
    <3> QED
      BY <3>1, Row_39_32_2, ZenonT(60)
  <2>4. p \in {1, 3, 5, 7, 8, 11, 15, 16, 18, 19, 20, 21, 24, 30, 34}
          <=> q \in {1, 3, 5, 7, 8, 11, 15, 16, 18, 19, 20, 21, 24, 30, 34}
    <3>1. r(p, 3) <=> r(q, 3)
      BY <1>2, <2>1, Zenon
    <3> QED
      BY <3>1, Row_39_32_3, ZenonT(60)
  <2>5. p \in {0, 4, 6, 7, 9, 10, 11, 14, 16, 17, 21, 24, 28, 29, 35}
          <=> q \in {0, 4, 6, 7, 9, 10, 11, 14, 16, 17, 21, 24, 28, 29, 35}
    <3>1. r(p, 4) <=> r(q, 4)
      BY <1>2, <2>1, Zenon
    <3> QED
      BY <3>1, Row_39_32_4, ZenonT(60)
  <2>6. p \in {0, 1, 3, 4, 5, 9, 12, 13, 16, 22, 23, 25, 30, 31, 36}
          <=> q \in {0, 1, 3, 4, 5, 9, 12, 13, 16, 22, 23, 25, 30, 31, 36}
    <3>1. r(p, 5) <=> r(q, 5)
      BY <1>2, <2>1, Zenon
    <3> QED
      BY <3>1, Row_39_32_5, ZenonT(60)
  <2>7. p \in {2, 3, 6, 9, 13, 14, 18, 19, 22, 23, 24, 26, 27, 29, 37}
          <=> q \in {2, 3, 6, 9, 13, 14, 18, 19, 22, 23, 24, 26, 27, 29, 37}
    <3>1. r(p, 6) <=> r(q, 6)
      BY <1>2, <2>1, Zenon
    <3> QED
      BY <3>1, Row_39_32_6, ZenonT(60)
  <2>8. p \in {1, 2, 7, 8, 10, 12, 14, 20, 22, 27, 28, 31, 38}
          <=> q \in {1, 2, 7, 8, 10, 12, 14, 20, 22, 27, 28, 31, 38}
    <3>1. r(p, 7) <=> r(q, 7)
      BY <1>2, <2>1, Zenon
    <3> QED
      BY <3>1, Row_39_32_7, ZenonT(60)
  <2> QED
    BY <2>2, <2>3, <2>4, <2>5, <2>6, <2>7, <2>8
<1> QED
  BY <1>1, <1>2, Code_39_32, ZenonT(60) DEF GoodColumns

(* What makes secded_64_57 a code that detects three wrong bits.            *)
LEMMA Code_64_57 ==
  IsCode(secded_64_57) /\ Top(secded_64_57) = 63 /\ Len(secded_64_57.masks) = 7
<1>1. secded_64_57.data = 57 /\ DOMAIN secded_64_57.masks = 1..7 /\ Len(secded_64_57.masks) = 7
  BY DEF secded_64_57
<1>2. ASSUME NEW j \in 1..7
      PROVE  secded_64_57.masks[j] \in SUBSET Ones(57)
  <2>1. j = 1 \/ j = 2 \/ j = 3 \/ j = 4 \/ j = 5 \/ j = 6 \/ j = 7
    OBVIOUS
  <2> QED
    BY <2>1, Row_64_57_1, Row_64_57_2, Row_64_57_3, Row_64_57_4, Row_64_57_5, Row_64_57_6, Row_64_57_7, ZenonT(60)
<1> QED
  BY <1>1, <1>2 DEF IsCode, Top

(* Its columns are odd and differ.                                          *)
LEMMA Columns_64_57 == GoodColumns(secded_64_57)
<1> DEFINE r(p, j) == InRow(secded_64_57, p, j)
<1>1. ASSUME NEW p \in 0..63
      PROVE  OddColumn(secded_64_57, p)
  <2>1. r(p, 1) <=> p \in {0, 1, 2, 3, 4, 5, 6, 7, 8, 9, 10, 11, 12, 13, 14, 35, 36, 37, 38,
                  39, 40, 41, 42, 43, 44, 45, 46, 47, 48, 49, 56, 57}
    BY Row_64_57_1, ZenonT(60)
  <2>2. r(p, 2) <=> p \in {0, 1, 2, 3, 4, 15, 16, 17, 18, 19, 20, 21, 22, 23, 24, 35, 36,
                  37, 38, 39, 40, 41, 42, 43, 44, 50, 51, 52, 53, 54, 56, 58}
    BY Row_64_57_2, ZenonT(60)
  <2>3. r(p, 3) <=> p \in {0, 5, 6, 7, 8, 15, 16, 17, 18, 25, 26, 27, 28, 29, 30, 35, 36,
                  37, 38, 39, 40, 45, 46, 47, 48, 50, 51, 52, 53, 55, 56, 59}
    BY Row_64_57_3, ZenonT(60)
  <2>4. r(p, 4) <=> p \in {1, 5, 9, 10, 11, 15, 19, 20, 21, 25, 26, 27, 31, 32, 33, 35, 36,
                  37, 41, 42, 43, 45, 46, 47, 49, 50, 51, 52, 54, 55, 56, 60}
    BY Row_64_57_4, ZenonT(60)
  <2>5. r(p, 5) <=> p \in {2, 6, 9, 12, 13, 16, 19, 22, 23, 25, 28, 29, 31, 32, 34, 35, 38,
                  39, 41, 42, 44, 45, 46, 48, 49, 50, 51, 53, 54, 55, 56, 61}
    BY Row_64_57_5, ZenonT(60)
  <2>6. r(p, 6) <=> p \in {3, 7, 10, 12, 14, 17, 20, 22, 24, 26, 28, 30, 31, 33, 34, 36, 38,
                  40, 41, 43, 44, 45, 47, 48, 49, 50, 52, 53, 54, 55, 56, 62}
    BY Row_64_57_6, ZenonT(60)
  <2>7. r(p, 7) <=> p \in {4, 8, 11, 13, 14, 18, 21, 23, 24, 27, 29, 30, 32, 33, 34, 37, 39,
                  40, 42, 43, 44, 46, 47, 48, 49, 51, 52, 53, 54, 55, 56, 63}
    BY Row_64_57_7, ZenonT(60)
  <2>8. r(p, 8) <=> FALSE
    BY Code_64_57 DEF InRow
  <2> HIDE DEF r
  <2>9. OddOf(r(p, 1), r(p, 2), r(p, 3), r(p, 4), r(p, 5), r(p, 6), r(p, 7), r(p, 8))
    BY <2>1, <2>2, <2>3, <2>4, <2>5, <2>6, <2>7, <2>8 DEF OddOf
  <2> QED
    BY <2>9 DEF OddColumn, r
<1>2. ASSUME NEW p \in 0..63, NEW q \in 0..63, \A j \in 1..8 : r(p, j) <=> r(q, j)
      PROVE  p = q
  <2>1. 1 \in 1..8 /\ 2 \in 1..8 /\ 3 \in 1..8 /\ 4 \in 1..8 /\ 5 \in 1..8 /\ 6 \in 1..8 /\ 7 \in 1..8 /\ 8 \in 1..8
    OBVIOUS
  <2>2. p \in {0, 1, 2, 3, 4, 5, 6, 7, 8, 9, 10, 11, 12, 13, 14, 35, 36, 37, 38, 39,
              40, 41, 42, 43, 44, 45, 46, 47, 48, 49, 56, 57}
          <=> q \in {0, 1, 2, 3, 4, 5, 6, 7, 8, 9, 10, 11, 12, 13, 14, 35, 36, 37,
                    38, 39, 40, 41, 42, 43, 44, 45, 46, 47, 48, 49, 56, 57}
    <3>1. r(p, 1) <=> r(q, 1)
      BY <1>2, <2>1, Zenon
    <3> QED
      BY <3>1, Row_64_57_1, ZenonT(60)
  <2>3. p \in {0, 1, 2, 3, 4, 15, 16, 17, 18, 19, 20, 21, 22, 23, 24, 35, 36, 37,
              38, 39, 40, 41, 42, 43, 44, 50, 51, 52, 53, 54, 56, 58}
          <=> q \in {0, 1, 2, 3, 4, 15, 16, 17, 18, 19, 20, 21, 22, 23, 24, 35, 36,
                    37, 38, 39, 40, 41, 42, 43, 44, 50, 51, 52, 53, 54, 56, 58}
    <3>1. r(p, 2) <=> r(q, 2)
      BY <1>2, <2>1, Zenon
    <3> QED
      BY <3>1, Row_64_57_2, ZenonT(60)
  <2>4. p \in {0, 5, 6, 7, 8, 15, 16, 17, 18, 25, 26, 27, 28, 29, 30, 35, 36, 37,
              38, 39, 40, 45, 46, 47, 48, 50, 51, 52, 53, 55, 56, 59}
          <=> q \in {0, 5, 6, 7, 8, 15, 16, 17, 18, 25, 26, 27, 28, 29, 30, 35, 36,
                    37, 38, 39, 40, 45, 46, 47, 48, 50, 51, 52, 53, 55, 56, 59}
    <3>1. r(p, 3) <=> r(q, 3)
      BY <1>2, <2>1, Zenon
    <3> QED
      BY <3>1, Row_64_57_3, ZenonT(60)
  <2>5. p \in {1, 5, 9, 10, 11, 15, 19, 20, 21, 25, 26, 27, 31, 32, 33, 35, 36, 37,
              41, 42, 43, 45, 46, 47, 49, 50, 51, 52, 54, 55, 56, 60}
          <=> q \in {1, 5, 9, 10, 11, 15, 19, 20, 21, 25, 26, 27, 31, 32, 33, 35,
                    36, 37, 41, 42, 43, 45, 46, 47, 49, 50, 51, 52, 54, 55, 56, 60}
    <3>1. r(p, 4) <=> r(q, 4)
      BY <1>2, <2>1, Zenon
    <3> QED
      BY <3>1, Row_64_57_4, ZenonT(60)
  <2>6. p \in {2, 6, 9, 12, 13, 16, 19, 22, 23, 25, 28, 29, 31, 32, 34, 35, 38, 39,
              41, 42, 44, 45, 46, 48, 49, 50, 51, 53, 54, 55, 56, 61}
          <=> q \in {2, 6, 9, 12, 13, 16, 19, 22, 23, 25, 28, 29, 31, 32, 34, 35,
                    38, 39, 41, 42, 44, 45, 46, 48, 49, 50, 51, 53, 54, 55, 56, 61}
    <3>1. r(p, 5) <=> r(q, 5)
      BY <1>2, <2>1, Zenon
    <3> QED
      BY <3>1, Row_64_57_5, ZenonT(60)
  <2>7. p \in {3, 7, 10, 12, 14, 17, 20, 22, 24, 26, 28, 30, 31, 33, 34, 36, 38, 40,
              41, 43, 44, 45, 47, 48, 49, 50, 52, 53, 54, 55, 56, 62}
          <=> q \in {3, 7, 10, 12, 14, 17, 20, 22, 24, 26, 28, 30, 31, 33, 34, 36,
                    38, 40, 41, 43, 44, 45, 47, 48, 49, 50, 52, 53, 54, 55, 56, 62}
    <3>1. r(p, 6) <=> r(q, 6)
      BY <1>2, <2>1, Zenon
    <3> QED
      BY <3>1, Row_64_57_6, ZenonT(60)
  <2>8. p \in {4, 8, 11, 13, 14, 18, 21, 23, 24, 27, 29, 30, 32, 33, 34, 37, 39, 40,
              42, 43, 44, 46, 47, 48, 49, 51, 52, 53, 54, 55, 56, 63}
          <=> q \in {4, 8, 11, 13, 14, 18, 21, 23, 24, 27, 29, 30, 32, 33, 34, 37,
                    39, 40, 42, 43, 44, 46, 47, 48, 49, 51, 52, 53, 54, 55, 56, 63}
    <3>1. r(p, 7) <=> r(q, 7)
      BY <1>2, <2>1, Zenon
    <3> QED
      BY <3>1, Row_64_57_7, ZenonT(60)
  <2> QED
    BY <2>2, <2>3, <2>4, <2>5, <2>6, <2>7, <2>8
<1> QED
  BY <1>1, <1>2, Code_64_57, ZenonT(60) DEF GoodColumns

(* What makes secded_72_64 a code that detects three wrong bits.            *)
LEMMA Code_72_64 ==
  IsCode(secded_72_64) /\ Top(secded_72_64) = 71 /\ Len(secded_72_64.masks) = 8
<1>1. secded_72_64.data = 64 /\ DOMAIN secded_72_64.masks = 1..8 /\ Len(secded_72_64.masks) = 8
  BY DEF secded_72_64
<1>2. ASSUME NEW j \in 1..8
      PROVE  secded_72_64.masks[j] \in SUBSET Ones(64)
  <2>1. j = 1 \/ j = 2 \/ j = 3 \/ j = 4 \/ j = 5 \/ j = 6 \/ j = 7 \/ j = 8
    OBVIOUS
  <2> QED
    BY <2>1, Row_72_64_1, Row_72_64_2, Row_72_64_3, Row_72_64_4, Row_72_64_5, Row_72_64_6, Row_72_64_7, Row_72_64_8, ZenonT(60)
<1> QED
  BY <1>1, <1>2 DEF IsCode, Top

(* Its columns are odd and differ.                                          *)
LEMMA Columns_72_64 == GoodColumns(secded_72_64)
<1> DEFINE r(p, j) == InRow(secded_72_64, p, j)
<1>1. ASSUME NEW p \in 0..71
      PROVE  OddColumn(secded_72_64, p)
  <2>1. r(p, 1) <=> p \in {0, 1, 2, 3, 4, 5, 6, 7, 8, 9, 10, 11, 12, 13, 14, 15, 16, 17, 18,
                  19, 20, 56, 59, 60, 61, 63, 64}
    BY Row_72_64_1, ZenonT(60)
  <2>2. r(p, 2) <=> p \in {0, 1, 2, 3, 4, 5, 21, 22, 23, 24, 25, 26, 27, 28, 29, 30, 31, 32,
                  33, 34, 35, 57, 58, 59, 60, 62, 65}
    BY Row_72_64_2, ZenonT(60)
  <2>3. r(p, 3) <=> p \in {0, 6, 7, 8, 9, 10, 21, 22, 23, 24, 25, 36, 37, 38, 39, 40, 41,
                  42, 43, 44, 45, 56, 57, 58, 61, 62, 66}
    BY Row_72_64_3, ZenonT(60)
  <2>4. r(p, 4) <=> p \in {1, 6, 11, 12, 13, 14, 21, 26, 27, 28, 29, 36, 37, 38, 39, 46, 47,
                  48, 49, 50, 51, 56, 58, 59, 62, 63, 67}
    BY Row_72_64_4, ZenonT(60)
  <2>5. r(p, 5) <=> p \in {2, 7, 11, 15, 16, 17, 22, 26, 30, 31, 32, 36, 40, 41, 42, 46, 47,
                  48, 52, 53, 54, 57, 58, 60, 61, 63, 68}
    BY Row_72_64_5, ZenonT(60)
  <2>6. r(p, 6) <=> p \in {3, 8, 12, 15, 18, 19, 23, 27, 30, 33, 34, 37, 40, 43, 44, 46, 49,
                  50, 52, 53, 55, 56, 58, 60, 61, 63, 69}
    BY Row_72_64_6, ZenonT(60)
  <2>7. r(p, 7) <=> p \in {4, 9, 13, 16, 18, 20, 24, 28, 31, 33, 35, 38, 41, 43, 45, 47, 49,
                  51, 52, 54, 55, 56, 57, 59, 62, 63, 70}
    BY Row_72_64_7, ZenonT(60)
  <2>8. r(p, 8) <=> p \in {5, 10, 14, 17, 19, 20, 25, 29, 32, 34, 35, 39, 42, 44, 45, 48,
                  50, 51, 53, 54, 55, 57, 59, 60, 61, 62, 71}
    BY Row_72_64_8, ZenonT(60)
  <2> HIDE DEF r
  <2>9. OddOf(r(p, 1), r(p, 2), r(p, 3), r(p, 4), r(p, 5), r(p, 6), r(p, 7), r(p, 8))
    BY <2>1, <2>2, <2>3, <2>4, <2>5, <2>6, <2>7, <2>8 DEF OddOf
  <2> QED
    BY <2>9 DEF OddColumn, r
<1>2. ASSUME NEW p \in 0..71, NEW q \in 0..71, \A j \in 1..8 : r(p, j) <=> r(q, j)
      PROVE  p = q
  <2>1. 1 \in 1..8 /\ 2 \in 1..8 /\ 3 \in 1..8 /\ 4 \in 1..8 /\ 5 \in 1..8 /\ 6 \in 1..8 /\ 7 \in 1..8 /\ 8 \in 1..8
    OBVIOUS
  <2>2. p \in {0, 1, 2, 3, 4, 5, 6, 7, 8, 9, 10, 11, 12, 13, 14, 15, 16, 17, 18, 19,
              20, 56, 59, 60, 61, 63, 64}
          <=> q \in {0, 1, 2, 3, 4, 5, 6, 7, 8, 9, 10, 11, 12, 13, 14, 15, 16, 17,
                    18, 19, 20, 56, 59, 60, 61, 63, 64}
    <3>1. r(p, 1) <=> r(q, 1)
      BY <1>2, <2>1, Zenon
    <3> QED
      BY <3>1, Row_72_64_1, ZenonT(60)
  <2>3. p \in {0, 1, 2, 3, 4, 5, 21, 22, 23, 24, 25, 26, 27, 28, 29, 30, 31, 32, 33,
              34, 35, 57, 58, 59, 60, 62, 65}
          <=> q \in {0, 1, 2, 3, 4, 5, 21, 22, 23, 24, 25, 26, 27, 28, 29, 30, 31,
                    32, 33, 34, 35, 57, 58, 59, 60, 62, 65}
    <3>1. r(p, 2) <=> r(q, 2)
      BY <1>2, <2>1, Zenon
    <3> QED
      BY <3>1, Row_72_64_2, ZenonT(60)
  <2>4. p \in {0, 6, 7, 8, 9, 10, 21, 22, 23, 24, 25, 36, 37, 38, 39, 40, 41, 42,
              43, 44, 45, 56, 57, 58, 61, 62, 66}
          <=> q \in {0, 6, 7, 8, 9, 10, 21, 22, 23, 24, 25, 36, 37, 38, 39, 40, 41,
                    42, 43, 44, 45, 56, 57, 58, 61, 62, 66}
    <3>1. r(p, 3) <=> r(q, 3)
      BY <1>2, <2>1, Zenon
    <3> QED
      BY <3>1, Row_72_64_3, ZenonT(60)
  <2>5. p \in {1, 6, 11, 12, 13, 14, 21, 26, 27, 28, 29, 36, 37, 38, 39, 46, 47, 48,
              49, 50, 51, 56, 58, 59, 62, 63, 67}
          <=> q \in {1, 6, 11, 12, 13, 14, 21, 26, 27, 28, 29, 36, 37, 38, 39, 46,
                    47, 48, 49, 50, 51, 56, 58, 59, 62, 63, 67}
    <3>1. r(p, 4) <=> r(q, 4)
      BY <1>2, <2>1, Zenon
    <3> QED
      BY <3>1, Row_72_64_4, ZenonT(60)
  <2>6. p \in {2, 7, 11, 15, 16, 17, 22, 26, 30, 31, 32, 36, 40, 41, 42, 46, 47, 48,
              52, 53, 54, 57, 58, 60, 61, 63, 68}
          <=> q \in {2, 7, 11, 15, 16, 17, 22, 26, 30, 31, 32, 36, 40, 41, 42, 46,
                    47, 48, 52, 53, 54, 57, 58, 60, 61, 63, 68}
    <3>1. r(p, 5) <=> r(q, 5)
      BY <1>2, <2>1, Zenon
    <3> QED
      BY <3>1, Row_72_64_5, ZenonT(60)
  <2>7. p \in {3, 8, 12, 15, 18, 19, 23, 27, 30, 33, 34, 37, 40, 43, 44, 46, 49, 50,
              52, 53, 55, 56, 58, 60, 61, 63, 69}
          <=> q \in {3, 8, 12, 15, 18, 19, 23, 27, 30, 33, 34, 37, 40, 43, 44, 46,
                    49, 50, 52, 53, 55, 56, 58, 60, 61, 63, 69}
    <3>1. r(p, 6) <=> r(q, 6)
      BY <1>2, <2>1, Zenon
    <3> QED
      BY <3>1, Row_72_64_6, ZenonT(60)
  <2>8. p \in {4, 9, 13, 16, 18, 20, 24, 28, 31, 33, 35, 38, 41, 43, 45, 47, 49, 51,
              52, 54, 55, 56, 57, 59, 62, 63, 70}
          <=> q \in {4, 9, 13, 16, 18, 20, 24, 28, 31, 33, 35, 38, 41, 43, 45, 47,
                    49, 51, 52, 54, 55, 56, 57, 59, 62, 63, 70}
    <3>1. r(p, 7) <=> r(q, 7)
      BY <1>2, <2>1, Zenon
    <3> QED
      BY <3>1, Row_72_64_7, ZenonT(60)
  <2>9. p \in {5, 10, 14, 17, 19, 20, 25, 29, 32, 34, 35, 39, 42, 44, 45, 48, 50,
              51, 53, 54, 55, 57, 59, 60, 61, 62, 71}
          <=> q \in {5, 10, 14, 17, 19, 20, 25, 29, 32, 34, 35, 39, 42, 44, 45, 48,
                    50, 51, 53, 54, 55, 57, 59, 60, 61, 62, 71}
    <3>1. r(p, 8) <=> r(q, 8)
      BY <1>2, <2>1, Zenon
    <3> QED
      BY <3>1, Row_72_64_8, ZenonT(60)
  <2> QED
    BY <2>2, <2>3, <2>4, <2>5, <2>6, <2>7, <2>8, <2>9
<1> QED
  BY <1>1, <1>2, Code_72_64, ZenonT(60) DEF GoodColumns

-----------------------------------------------------------------------------
(* One to three elements, named.                                            *)
LEMMA UpToThree ==
  ASSUME NEW S, IsFiniteSet(S), S # {}, Cardinality(S) <= 3
  PROVE  \E a, b, c \in S : S = {a, b, c}
<1>1. PICK a \in S : TRUE
  OBVIOUS
<1> DEFINE T == S \ {a}
<1>2. IsFiniteSet(T) /\ Cardinality(T) = Cardinality(S) - 1 /\ Cardinality(S) \in Nat
  BY FS_RemoveElement, FS_CardinalityType
<1>3. CASE T = {}
  BY <1>3
<1>4. CASE T # {}
  <2>1. PICK b \in T : TRUE
    BY <1>4
  <2> DEFINE U == T \ {b}
  <2> HIDE DEF T
  <2>2. IsFiniteSet(U) /\ Cardinality(U) = Cardinality(T) - 1
    BY <1>2, FS_RemoveElement
  <2>3. CASE U = {}
    BY <2>3 DEF T
  <2>4. CASE U # {}
    <3>1. PICK c \in U : TRUE
      BY <2>4
    <3> DEFINE V == U \ {c}
    <3> HIDE DEF U
    <3>2. IsFiniteSet(V) /\ Cardinality(V) = Cardinality(U) - 1
      BY <2>2, FS_RemoveElement
    <3>3. Cardinality(V) \in Nat /\ Cardinality(U) \in Nat /\ Cardinality(T) \in Nat
      BY <1>2, <2>2, <3>2, FS_CardinalityType
    <3>4. Cardinality(V) = 0
      <4> DEFINE cv == Cardinality(V)
                 cu == Cardinality(U)
                 ct == Cardinality(T)
                 cs == Cardinality(S)
      <4>1. cv \in Nat /\ cu \in Nat /\ ct \in Nat /\ cs \in Nat /\ cv = cu - 1 /\ cu = ct - 1 /\ ct = cs - 1 /\ cs <= 3
        BY <1>2, <2>2, <3>2, <3>3 DEF T
      <4> HIDE DEF cv, cu, ct, cs
      <4>2. cv = 0
        BY <4>1
      <4> QED
        BY <4>2 DEF cv
    <3>5. V = {}
      BY <3>2, <3>4, FS_EmptySet
    <3> QED
      BY <2>1, <3>1, <3>5 DEF T, U
  <2> QED
    BY <2>3, <2>4
<1> QED
  BY <1>3, <1>4

(* The two parts of a lane's code word.                                     *)
LEMMA CodedParts ==
  ASSUME NEW lane, lane.word \in SUBSET Ones(32)
  PROVE  /\ Coded(lane) \in SUBSET (0..38)
         /\ Field(Coded(lane), 0, 32) = lane.word
         /\ Field(Coded(lane), 32, 7) = CheckBits(lane)
<1>1. \A p : /\ p \in Coded(lane) <=> p \in Int /\ (p \in lane.word \/ p - 32 \in CheckBits(lane))
             /\ p \in Coded(lane) => p \in 0..38
             /\ p \in 0..31 => (p \in Coded(lane) <=> p \in lane.word)
  BY InCoded
<1>2. CheckBits(lane) \in SUBSET Ones(7)
  BY CheckBitsOfSeven
<1>3. ASSUME NEW q
      PROVE  q \in Field(Coded(lane), 0, 32) <=> q \in lane.word
  <2>1. q \in Field(Coded(lane), 0, 32) <=> q \in 0..(32 - 1) /\ q + 0 \in Coded(lane)
    BY InField
  <2>2. CASE q \in 0..31
    <3>1. q + 0 = q
      BY <2>2
    <3> QED
      BY <1>1, <2>1, <2>2, <3>1
  <2>3. CASE q \notin 0..31
    <3>1. 32 - 1 = 31
      OBVIOUS
    <3> QED
      BY <2>1, <2>3, <3>1 DEF Ones
  <2> QED
    BY <2>2, <2>3
<1>4. ASSUME NEW q
      PROVE  q \in Field(Coded(lane), 32, 7) <=> q \in CheckBits(lane)
  <2>1. q \in Field(Coded(lane), 32, 7) <=> q \in 0..(7 - 1) /\ q + 32 \in Coded(lane)
    BY InField
  <2>2. CASE q \in 0..6
    <3>1. q + 32 \in Int /\ (q + 32) - 32 = q /\ q + 32 \notin 0..31
      BY <2>2
    <3>2. q + 32 \notin lane.word
      BY <3>1 DEF Ones
    <3>3. q + 32 \in Coded(lane) <=> q \in CheckBits(lane)
      BY <1>1, <3>1, <3>2
    <3> QED
      BY <2>1, <2>2, <3>3
  <2>3. CASE q \notin 0..6
    <3>1. 7 - 1 = 6
      OBVIOUS
    <3> QED
      BY <1>2, <2>1, <2>3, <3>1 DEF Ones
  <2> QED
    BY <2>2, <2>3
<1> QED
  BY <1>1, <1>3, <1>4

(* The check bits of a lane fit its word if and only if it is called good.  *)
LEMMA GoodFits ==
  ASSUME NEW lane, lane.word \in SUBSET Ones(32), lane.good \in BOOLEAN
  PROVE  CheckBits(lane) = enc_secded_inv(secded_39_32, lane.word) <=> lane.good
<1> DEFINE check == enc_secded_inv(secded_39_32, lane.word)
<1>1. 0 \in Ones(7)
  BY DEF Ones
<1>2. Xor(check, Ones(7)) # check
  BY <1>1 DEF Xor
<1> HIDE DEF check
<1>3. CheckBits(lane) = IF lane.good THEN check ELSE Xor(check, Ones(7))
  BY DEF CheckBits, check
<1>4. CheckBits(lane) = check <=> lane.good
  BY <1>2, <1>3
<1> QED
  BY <1>4 DEF check

(* What ReadWithIntegrity() makes of a lane that was written and then       *)
(* damaged.                                                                 *)
LEMMA DamagedLane ==
  ASSUME NEW lane, lane.word \in SUBSET Ones(32), lane.good \in BOOLEAN,
         NEW wrong \in SUBSET Ones(39), NEW bits, bits = Xor(Coded(lane), wrong)
  PROVE  LET good == Field(bits, 32, 7) = enc_secded_inv(secded_39_32, Field(bits, 0, 32))
         IN  /\ wrong = {} => Field(bits, 0, 32) = lane.word /\ (good <=> lane.good)
             /\ wrong # {} /\ Cardinality(wrong) <= 3 /\ lane.good => ~good
<1> DEFINE good == Field(bits, 32, 7) = enc_secded_inv(secded_39_32, Field(bits, 0, 32))
           cw == Coded(lane)
<1>1. cw \in SUBSET (0..38) /\ Field(cw, 0, 32) = lane.word /\ Field(cw, 32, 7) = CheckBits(lane)
  BY CodedParts
<1>2. ASSUME wrong = {}
      PROVE  Field(bits, 0, 32) = lane.word /\ (good <=> lane.good)
  <2>1. bits = cw
    BY <1>2, XorEmpty
  <2>2. CheckBits(lane) = enc_secded_inv(secded_39_32, lane.word) <=> lane.good
    BY GoodFits
  <2> QED
    BY <1>1, <2>1, <2>2
<1>3. ASSUME wrong # {}, Cardinality(wrong) <= 3, lane.good
      PROVE  ~good
  <2>1. IsCode(secded_39_32) /\ Top(secded_39_32) = 38 /\ GoodColumns(secded_39_32)
    BY Code_39_32, Columns_39_32
  <2>2. \A phys : Fits(secded_39_32, phys, TRUE)
                    <=> Field(phys, 32, 7) = enc_secded_inv(secded_39_32, Field(phys, 0, 32))
    BY <2>1, BothEncoders, Secded39 DEF Fits
  <2>3. Fits(secded_39_32, cw, TRUE)
    BY <1>1, <1>3, <2>2, GoodFits
  <2>4. wrong \in SUBSET (0..38)
    BY DEF Ones
  <2>5. IsFiniteSet(wrong)
    <3>1. wrong \in SUBSET (0..Top(secded_39_32)) /\ wrong = wrong \cap wrong
      BY <2>1, <2>4
    <3> QED
      BY <2>1, <3>1, BitsFinite
  <2>6. PICK a \in wrong, b \in wrong, c \in wrong : wrong = {a, b, c}
    BY <1>3, <2>5, UpToThree
  <2>7. a \in 0..Top(secded_39_32) /\ b \in 0..Top(secded_39_32) /\ c \in 0..Top(secded_39_32)
    BY <2>1, <2>4
  <2>8. ~Fits(secded_39_32, Xor(cw, {a, b, c}), TRUE)
    BY <1>1, <2>1, <2>3, <2>7, FlipsSeen
  <2> QED
    BY <2>2, <2>6, <2>8
<1> QED
  BY <1>2, <1>3

(* Flips of the design's bits are flips in clear.                           *)
LEMMA ClearFlips ==
  ASSUME NEW w, NEW v, NEW flips
  PROVE  Clear(w, v) = Xor(Clear(w, Xor(v, flips)), flips)
<1>1. Xor(Xor(v, flips), flips) = v
  BY XorTwice
<1>2. ASSUME NEW ks
      PROVE  Xor(v, ks) = Xor(Xor(Xor(v, flips), ks), flips)
  BY DEF Xor
<1> QED
  BY <1>1, <1>2 DEF Clear

(* The invariant says what ReadWithIntegrity() returns.                     *)
LEMMA ReadsWithIntegrity ==
  ASSUME IInv
  PROVE  IntegrityHonest
<1> SUFFICES ASSUME call.op = "ReadWithIntegrity", settled, NEW k \in DOMAIN ret,
                    NEW lane \in 1..Width32, written[call.off + k - 1] # None
             PROVE  LET w     == call.off + k - 1
                        wrong == Field(Damage(w), 39 * (lane - 1), 39)
                    IN  /\ wrong = {} =>
                            /\ ret[k][lane].good = written[w].good[lane]
                            /\ ret[k][lane].word = Field(written[w].bits, 32 * (lane - 1), 32)
                        /\ (wrong # {} /\ Cardinality(wrong) <= 3 /\ written[w].good[lane])
                              => ~ret[k][lane].good
  BY DEF IntegrityHonest
<1> DEFINE w == call.off + k - 1
           asked == written[w]
           flips == flipped[Place(w)]
           clear == Clear(w, mem[Place(w)])
           kept  == Clear(w, Xor(mem[Place(w)], flips))
           at    == 39 * (lane - 1)
           wrong == Field(Damage(w), at, 39)
           bits  == Field(clear, at, 39)
<1>1. TypeInv /\ WrittenInv /\ CallInv /\ RetInv
  BY DEF IInv
<1>2. k \in 1..Len(ret)
  BY <1>1 DEF RetInv
<1>3. w \in MemWords /\ Place(w) \in MemWords /\ ret[k] = Got("ReadWithIntegrity", w)
  BY <1>1, <1>2 DEF RetInv
<1>4. kind # "plain"
  BY <1>1 DEF CallInv
<1> HIDE DEF w
<1>5. Kept(w)
  BY <1>1, <1>3 DEF WrittenInv, w
<1>6. Damage(w) = flips
  <2>1. Place(w) < NumWords
    BY <1>3, Sizes DEF MemWords
  <2> QED
    BY <2>1 DEF Damage, Place
<1>7. IsAsked(asked) /\ Holds(kept, asked)
  BY <1>5 DEF Kept
<1>8. clear = Xor(kept, flips)
  BY ClearFlips
<1>9. ret[k] = ReadBufferWithIntegrity(clear)
  BY <1>3 DEF Got
<1>10. at \in Int /\ lane \in Nat /\ Width32 \in Nat
  BY Sizes
<1> HIDE DEF asked, flips, clear, kept, at
<1>11. wrong = Field(flips, at, 39) /\ wrong \in SUBSET Ones(39)
  BY <1>6, <1>10, FieldIsOnes
<1>12. PICK word \in SUBSET Ones(32) :
         /\ Field(kept, at, 39) = Coded([good |-> asked.good[lane], word |-> word])
         /\ \A q \in 0..31 : q \in word <=> q + 32 * (lane - 1) \in asked.bits
  BY <1>4, <1>7 DEF Holds, LaneHolds, at
<1> DEFINE x == [good |-> asked.good[lane], word |-> word]
<1>13. x.word = word /\ x.word \in SUBSET Ones(32) /\ x.good = asked.good[lane] /\ x.good \in BOOLEAN
  BY <1>7, <1>12 DEF IsAsked
<1>14. bits = Xor(Coded(x), wrong)
  <2>1. Field(Xor(kept, flips), at, 39) = Xor(Field(kept, at, 39), Field(flips, at, 39))
    BY <1>10, FieldOfXor
  <2> QED
    BY <1>8, <1>11, <1>12, <2>1
<1> DEFINE good == Field(bits, 32, 7) = enc_secded_inv(secded_39_32, Field(bits, 0, 32))
<1>15. ret[k][lane] = [good |-> good, word |-> Field(bits, 0, 32)]
  BY <1>9, LaneRead DEF at
<1> HIDE DEF x, bits, wrong
<1>16. /\ wrong = {} => Field(bits, 0, 32) = x.word /\ (good <=> x.good)
       /\ wrong # {} /\ Cardinality(wrong) <= 3 /\ x.good => ~good
  BY <1>11, <1>13, <1>14, DamagedLane
<1>17. word = Field(asked.bits, 32 * (lane - 1), 32)
  <2> DEFINE lo == 32 * (lane - 1)
  <2>1. lo \in Int
    BY <1>10
  <2>2. \A q \in 0..31 : q \in word <=> q + lo \in asked.bits
    BY <1>12
  <2> HIDE DEF lo
  <2>3. ASSUME NEW q
        PROVE  q \in word <=> q \in Field(asked.bits, lo, 32)
    <3>1. q \in Field(asked.bits, lo, 32) <=> q \in 0..(32 - 1) /\ q + lo \in asked.bits
      BY <2>1, InField
    <3>2. word \in SUBSET (0..31) /\ 32 - 1 = 31
      BY <1>12 DEF Ones
    <3> QED
      BY <2>2, <3>1, <3>2
  <2>4. word = Field(asked.bits, lo, 32)
    BY <1>12, <2>3
  <2> QED
    BY <2>4 DEF lo
<1> HIDE DEF good
<1>18. wrong = {} => ret[k][lane].good = asked.good[lane]
  <2>1. good \in BOOLEAN
    BY DEF good
  <2> QED
    BY <1>13, <1>15, <1>16, <2>1
<1>19. wrong = {} => ret[k][lane].word = Field(asked.bits, 32 * (lane - 1), 32)
  BY <1>13, <1>15, <1>16, <1>17
<1>20. wrong # {} /\ Cardinality(wrong) <= 3 /\ asked.good[lane] => ~ret[k][lane].good
  BY <1>13, <1>15, <1>16
<1> QED
  BY <1>18, <1>19, <1>20 DEF asked, w, wrong, at

(* IntegrityHonest: a lane that was written as good and not touched since   *)
(* is good and reads back, one that was written as bad is bad, and up to    *)
(* three flipped bits of its 39 are always noticed.                         *)
THEOREM IntegrityIsHonest == Spec => []IntegrityHonest
<1>1. IInv => IntegrityHonest
  BY ReadsWithIntegrity
<1> QED
  BY <1>1, MemAreasInductive, PTL

-----------------------------------------------------------------------------
(* A word with its check bits fits, with either encoder.                    *)
LEMMA CodeWordFits ==
  ASSUME NEW code, IsCode(code), NEW word \in SUBSET Ones(code.data), NEW inv \in BOOLEAN
  PROVE  LET cw == CodeWord(code, word, Parities(code, word, inv))
         IN  cw \in SUBSET (0..Top(code)) /\ Fits(code, cw, inv)
<1> DEFINE d == code.data
           n == Len(code.masks)
           P == Parities(code, word, inv)
           cw == CodeWord(code, word, P)
<1>1. d \in Nat /\ n \in Nat /\ n >= 2 /\ DOMAIN code.masks = 1..n /\ Top(code) = d + (n - 1)
  <2>1. n \in 2..8 /\ d \in Nat /\ DOMAIN code.masks = 1..n
    BY DEF IsCode
  <2>2. Top(code) = d + (n - 1)
    BY DEF Top
  <2> HIDE DEF n, d
  <2> QED
    BY <2>1, <2>2
<1>2. P \in SUBSET Ones(n) /\ P \in SUBSET Int
  <2>1. \A k \in 1..n : k - 1 \in Ones(n) /\ k - 1 \in Int
    BY <1>1 DEF Ones
  <2>2. \A q \in P : \E k \in 1..n : q = k - 1
    BY <1>1 DEF Parities
  <2> QED
    BY <2>1, <2>2
<1>3. \A p : p \in Shl(P, d) <=> p \in Int /\ p - d \in P
  BY <1>1, <1>2, InShl
<1> HIDE DEF P
<1>4. \A p : p \in cw <=> p \in word \/ (p \in Int /\ p - d \in P)
  BY <1>3 DEF CodeWord
<1> HIDE DEF cw
<1>5. \A p \in word : p \in Int /\ 0 <= p /\ p < d
  BY <1>1 DEF Ones
<1>6. \A p \in Int : p - d \in P => d <= p /\ p < d + n
  BY <1>1, <1>2 DEF Ones
<1>7. cw \in SUBSET (0..Top(code))
  BY <1>1, <1>4, <1>5, <1>6
<1>8. Field(cw, 0, d) = word
  <2>1. ASSUME NEW q
        PROVE  q \in Field(cw, 0, d) <=> q \in word
    <3>1. q \in Field(cw, 0, d) <=> q \in 0..(d - 1) /\ q + 0 \in cw
      BY <1>1, InField
    <3>2. CASE q \in 0..(d - 1)
      <4>1. q + 0 = q /\ q \in Int /\ ~(d <= q)
        BY <1>1, <3>2
      <4> QED
        BY <1>4, <1>6, <3>1, <3>2, <4>1
    <3>3. CASE q \notin 0..(d - 1)
      BY <3>1, <3>3 DEF Ones
    <3> QED
      BY <3>2, <3>3
  <2> QED
    BY <2>1
<1>9. Field(cw, d, n) = P
  <2>1. ASSUME NEW q
        PROVE  q \in Field(cw, d, n) <=> q \in P
    <3>1. q \in Field(cw, d, n) <=> q \in 0..(n - 1) /\ q + d \in cw
      BY <1>1, InField
    <3>2. CASE q \in 0..(n - 1)
      <4>1. q + d \in Int /\ (q + d) - d = q /\ ~(q + d < d)
        BY <1>1, <3>2
      <4> QED
        BY <1>4, <1>5, <3>1, <3>2, <4>1
    <3>3. CASE q \notin 0..(n - 1)
      BY <1>2, <3>1, <3>3 DEF Ones
    <3> QED
      BY <3>2, <3>3
  <2> QED
    BY <2>1
<1>10. Fits(code, cw, inv)
  BY <1>8, <1>9 DEF Fits, P
<1> QED
  BY <1>7, <1>10 DEF cw, P

(* The inverted encoder has no code word of zeros: its check bit 1 would be *)
(* one.                                                                     *)
LEMMA ZerosSeen ==
  ASSUME NEW code, IsCode(code)
  PROVE  ~Fits(code, {}, TRUE)
<1>1. 2 \in 1..Len(code.masks)
  <2> DEFINE n == Len(code.masks)
  <2>1. n \in 2..8
    BY DEF IsCode
  <2> HIDE DEF n
  <2>2. 2 \in 1..n
    BY <2>1
  <2> QED
    BY <2>2 DEF n
<1>2. {} \cap Row(code, 2) = {}
  OBVIOUS
<1>3. ~Odd({})
  BY FS_EmptySet DEF Odd
<1>4. ~RowFits(code, {}, TRUE, 2)
  BY <1>2, <1>3 DEF RowFits, Flipped
<1> QED
  BY <1>1, <1>4, FitIsRows

(* Nor has it one of ones, if some row of ones does not fit.                *)
LEMMA OnesSeen ==
  ASSUME NEW code, IsCode(code), NEW j \in 1..Len(code.masks), ~RowFits(code, 0..Top(code), TRUE, j)
  PROVE  ~Fits(code, 0..Top(code), TRUE)
BY FitIsRows

(* All that Detects() asks of a code.                                       *)
LEMMA CodeDetects ==
  ASSUME NEW code, IsCode(code), GoodColumns(code), NEW word \in SUBSET Ones(code.data),
         ~Fits(code, 0..Top(code), TRUE)
  PROVE  Detects(code, word)
<1> DEFINE top   == code.data + Len(code.masks) - 1
           plain == CodeWord(code, word, enc_secded(code, word))
           inv   == CodeWord(code, word, enc_secded_inv(code, word))
<1>1. top = Top(code) /\ top \in Int
  BY DEF IsCode, Top
<1>2. \A phys : /\ AcceptsPlain(code, phys) <=> Fits(code, phys, FALSE)
                /\ Accepts(code, phys) <=> Fits(code, phys, TRUE)
  BY FitIsAccepted
<1>3. plain \in SUBSET (0..Top(code)) /\ Fits(code, plain, FALSE)
  BY BothEncoders, CodeWordFits
<1>4. inv \in SUBSET (0..Top(code)) /\ Fits(code, inv, TRUE)
  BY BothEncoders, CodeWordFits
<1> HIDE DEF top, plain, inv
<1>5. ~Accepts(code, {}) /\ ~Accepts(code, 0..top)
  BY <1>1, <1>2, ZerosSeen
<1>6. ASSUME NEW a \in 0..top, NEW b \in a..top, NEW c \in b..top
      PROVE  ~AcceptsPlain(code, Xor(plain, {a, b, c})) /\ ~Accepts(code, Xor(inv, {a, b, c}))
  <2>1. a \in 0..Top(code) /\ b \in 0..Top(code) /\ c \in 0..Top(code)
    BY <1>1
  <2>2. ~Fits(code, Xor(plain, {a, b, c}), FALSE)
    BY <1>3, <2>1, FlipsSeen
  <2>3. ~Fits(code, Xor(inv, {a, b, c}), TRUE)
    BY <1>4, <2>1, FlipsSeen
  <2> QED
    BY <1>2, <2>2, <2>3
<1>7. /\ AcceptsPlain(code, plain) /\ Accepts(code, inv)
      /\ ~Accepts(code, {}) /\ ~Accepts(code, 0 .. top)
      /\ \A a \in 0 .. top : \A b \in a .. top : \A c \in b .. top :
            /\ ~AcceptsPlain(code, Xor(plain, {a, b, c}))
            /\ ~Accepts(code, Xor(inv, {a, b, c}))
  BY <1>2, <1>3, <1>4, <1>5, <1>6
<1> QED
  BY <1>7 DEF Detects, top, plain, inv
(* A set that a list goes through once.                                     *)
LEMMA Listed ==
  ASSUME NEW S, NEW n \in Nat, NEW t \in [1..n -> S],
         \A x \in S : \E i \in 1..n : t[i] = x,
         \A i, j \in 1..n : t[i] = t[j] => i = j
  PROVE  Cardinality(S) = n
<1>1. t \in Bijection(1..n, S)
  BY DEF Bijection, Injection, Surjection, IsInjective
<1> QED
  BY <1>1, FS_CountingElements DEF ExistsBijection

(* A row of secded_22_16 that a word of ones does not fit.                  *)
LEMMA Ones_22_16 == ~Fits(secded_22_16, 0..Top(secded_22_16), TRUE)
<1> DEFINE R == Row(secded_22_16, 1)
<1>1. IsCode(secded_22_16) /\ Top(secded_22_16) = 21 /\ 1 \in 1..Len(secded_22_16.masks)
  BY Code_22_16
<1>2. R = {1, 2, 3, 5, 6, 8, 11, 14, 16}
  BY <1>1, Row_22_16_1, Code_22_16 DEF InRow
<1>3. (0..21) \cap R = R
  BY <1>2
<1>4. Cardinality(R) = 9
  <2> DEFINE n == 9
             t == <<1, 2, 3, 5, 6, 8, 11, 14, 16>>
  <2>1. t \in [1..n -> R]
    BY <1>2
  <2>2. \A x \in R : \E i \in 1..n : t[i] = x
    BY <1>2
  <2>3. \A i, j \in 1..n : t[i] = t[j] => i = j
    OBVIOUS
  <2>4. n \in Nat
    OBVIOUS
  <2> HIDE DEF R, t, n
  <2>5. Cardinality(R) = n
    BY <2>1, <2>2, <2>3, <2>4, Listed
  <2> QED
    BY <2>5 DEF n
<1> HIDE DEF R
<1>5. Odd(R)
  BY <1>4 DEF Odd
<1>6. (0..Top(secded_22_16)) \cap Row(secded_22_16, 1) = R
  BY <1>1, <1>3 DEF R
<1>7. ~Flipped(TRUE, 1)
  BY DEF Flipped
<1>8. ~RowFits(secded_22_16, 0..Top(secded_22_16), TRUE, 1)
  BY <1>5, <1>6, <1>7 DEF RowFits
<1> QED
  BY <1>1, <1>8, OnesSeen

(* A row of secded_28_22 that a word of ones does not fit.                  *)
LEMMA Ones_28_22 == ~Fits(secded_28_22, 0..Top(secded_28_22), TRUE)
<1> DEFINE R == Row(secded_28_22, 1)
<1>1. IsCode(secded_28_22) /\ Top(secded_28_22) = 27 /\ 1 \in 1..Len(secded_28_22.masks)
  BY Code_28_22
<1>2. R = {0, 1, 2, 3, 4, 5, 6, 7, 8, 9, 20, 21, 22}
  BY <1>1, Row_28_22_1, Code_28_22 DEF InRow
<1>3. (0..27) \cap R = R
  BY <1>2
<1>4. Cardinality(R) = 13
  <2> DEFINE n == 13
             t == <<0, 1, 2, 3, 4, 5, 6, 7, 8, 9, 20, 21, 22>>
  <2>1. t \in [1..n -> R]
    BY <1>2
  <2>2. \A x \in R : \E i \in 1..n : t[i] = x
    BY <1>2
  <2>3. \A i, j \in 1..n : t[i] = t[j] => i = j
    OBVIOUS
  <2>4. n \in Nat
    OBVIOUS
  <2> HIDE DEF R, t, n
  <2>5. Cardinality(R) = n
    BY <2>1, <2>2, <2>3, <2>4, Listed
  <2> QED
    BY <2>5 DEF n
<1> HIDE DEF R
<1>5. Odd(R)
  BY <1>4 DEF Odd
<1>6. (0..Top(secded_28_22)) \cap Row(secded_28_22, 1) = R
  BY <1>1, <1>3 DEF R
<1>7. ~Flipped(TRUE, 1)
  BY DEF Flipped
<1>8. ~RowFits(secded_28_22, 0..Top(secded_28_22), TRUE, 1)
  BY <1>5, <1>6, <1>7 DEF RowFits
<1> QED
  BY <1>1, <1>8, OnesSeen

(* A row of secded_39_32 that a word of ones does not fit.                  *)
LEMMA Ones_39_32 == ~Fits(secded_39_32, 0..Top(secded_39_32), TRUE)
<1> DEFINE R == Row(secded_39_32, 1)
<1>1. IsCode(secded_39_32) /\ Top(secded_39_32) = 38 /\ 1 \in 1..Len(secded_39_32.masks)
  BY Code_39_32
<1>2. R = {0, 2, 5, 8, 10, 11, 12, 13, 15, 17, 18, 25, 26, 29, 32}
  BY <1>1, Row_39_32_1, Code_39_32 DEF InRow
<1>3. (0..38) \cap R = R
  BY <1>2
<1>4. Cardinality(R) = 15
  <2> DEFINE n == 15
             t == <<0, 2, 5, 8, 10, 11, 12, 13, 15, 17, 18, 25, 26, 29, 32>>
  <2>1. t \in [1..n -> R]
    BY <1>2
  <2>2. \A x \in R : \E i \in 1..n : t[i] = x
    BY <1>2
  <2>3. \A i, j \in 1..n : t[i] = t[j] => i = j
    OBVIOUS
  <2>4. n \in Nat
    OBVIOUS
  <2> HIDE DEF R, t, n
  <2>5. Cardinality(R) = n
    BY <2>1, <2>2, <2>3, <2>4, Listed
  <2> QED
    BY <2>5 DEF n
<1> HIDE DEF R
<1>5. Odd(R)
  BY <1>4 DEF Odd
<1>6. (0..Top(secded_39_32)) \cap Row(secded_39_32, 1) = R
  BY <1>1, <1>3 DEF R
<1>7. ~Flipped(TRUE, 1)
  BY DEF Flipped
<1>8. ~RowFits(secded_39_32, 0..Top(secded_39_32), TRUE, 1)
  BY <1>5, <1>6, <1>7 DEF RowFits
<1> QED
  BY <1>1, <1>8, OnesSeen

(* A row of secded_64_57 that a word of ones does not fit.                  *)
LEMMA Ones_64_57 == ~Fits(secded_64_57, 0..Top(secded_64_57), TRUE)
<1> DEFINE R == Row(secded_64_57, 2)
<1>1. IsCode(secded_64_57) /\ Top(secded_64_57) = 63 /\ 2 \in 1..Len(secded_64_57.masks)
  BY Code_64_57
<1>2. R = {0, 1, 2, 3, 4, 15, 16, 17, 18, 19, 20, 21, 22, 23, 24, 35, 36, 37, 38,
          39, 40, 41, 42, 43, 44, 50, 51, 52, 53, 54, 56, 58}
  BY <1>1, Row_64_57_2, Code_64_57 DEF InRow
<1>3. (0..63) \cap R = R
  BY <1>2
<1>4. Cardinality(R) = 32
  <2> DEFINE n == 32
             t == <<0, 1, 2, 3, 4, 15, 16, 17, 18, 19, 20, 21, 22, 23, 24, 35, 36,
                  37, 38, 39, 40, 41, 42, 43, 44, 50, 51, 52, 53, 54, 56, 58>>
  <2>1. t \in [1..n -> R]
    BY <1>2
  <2>2. \A x \in R : \E i \in 1..n : t[i] = x
    BY <1>2
  <2>3. \A i, j \in 1..n : t[i] = t[j] => i = j
    OBVIOUS
  <2>4. n \in Nat
    OBVIOUS
  <2> HIDE DEF R, t, n
  <2>5. Cardinality(R) = n
    BY <2>1, <2>2, <2>3, <2>4, Listed
  <2> QED
    BY <2>5 DEF n
<1> HIDE DEF R
<1>5. ~Odd(R)
  BY <1>4 DEF Odd
<1>6. (0..Top(secded_64_57)) \cap Row(secded_64_57, 2) = R
  BY <1>1, <1>3 DEF R
<1>7. Flipped(TRUE, 2)
  BY DEF Flipped
<1>8. ~RowFits(secded_64_57, 0..Top(secded_64_57), TRUE, 2)
  BY <1>5, <1>6, <1>7 DEF RowFits
<1> QED
  BY <1>1, <1>8, OnesSeen

(* A row of secded_72_64 that a word of ones does not fit.                  *)
LEMMA Ones_72_64 == ~Fits(secded_72_64, 0..Top(secded_72_64), TRUE)
<1> DEFINE R == Row(secded_72_64, 1)
<1>1. IsCode(secded_72_64) /\ Top(secded_72_64) = 71 /\ 1 \in 1..Len(secded_72_64.masks)
  BY Code_72_64
<1>2. R = {0, 1, 2, 3, 4, 5, 6, 7, 8, 9, 10, 11, 12, 13, 14, 15, 16, 17, 18, 19, 20,
          56, 59, 60, 61, 63, 64}
  BY <1>1, Row_72_64_1, Code_72_64 DEF InRow
<1>3. (0..71) \cap R = R
  BY <1>2
<1>4. Cardinality(R) = 27
  <2> DEFINE n == 27
             t == <<0, 1, 2, 3, 4, 5, 6, 7, 8, 9, 10, 11, 12, 13, 14, 15, 16, 17, 18,
                  19, 20, 56, 59, 60, 61, 63, 64>>
  <2>1. t \in [1..n -> R]
    BY <1>2
  <2>2. \A x \in R : \E i \in 1..n : t[i] = x
    BY <1>2
  <2>3. \A i, j \in 1..n : t[i] = t[j] => i = j
    OBVIOUS
  <2>4. n \in Nat
    OBVIOUS
  <2> HIDE DEF R, t, n
  <2>5. Cardinality(R) = n
    BY <2>1, <2>2, <2>3, <2>4, Listed
  <2> QED
    BY <2>5 DEF n
<1> HIDE DEF R
<1>5. Odd(R)
  BY <1>4 DEF Odd
<1>6. (0..Top(secded_72_64)) \cap Row(secded_72_64, 1) = R
  BY <1>1, <1>3 DEF R
<1>7. ~Flipped(TRUE, 1)
  BY DEF Flipped
<1>8. ~RowFits(secded_72_64, 0..Top(secded_72_64), TRUE, 1)
  BY <1>5, <1>6, <1>7 DEF RowFits
<1> QED
  BY <1>1, <1>8, OnesSeen

(* Whatever is written, every code would detect up to three wrong bits.     *)
LEMMA AllDetect ==
  ASSUME NEW c \in DOMAIN Codes, NEW word
  PROVE  Detects(Codes[c], Field(word, 0, Codes[c].data))
<1>1. DOMAIN Codes = {1, 2, 3, 4, 5}
  BY DEF Codes
<1>2. /\ Codes[1] = secded_22_16 /\ Codes[2] = secded_28_22 /\ Codes[3] = secded_39_32
      /\ Codes[4] = secded_64_57 /\ Codes[5] = secded_72_64
  BY DEF Codes
<1>3. ASSUME NEW code, IsCode(code), GoodColumns(code), ~Fits(code, 0..Top(code), TRUE)
      PROVE  Detects(code, Field(word, 0, code.data))
  <2>1. code.data \in Int
    BY <1>3 DEF IsCode
  <2>2. Field(word, 0, code.data) \in SUBSET Ones(code.data)
    BY <2>1, FieldIsOnes
  <2> QED
    BY <1>3, <2>2, CodeDetects
<1>4. CASE c = 1
  <2>1. Detects(secded_22_16, Field(word, 0, secded_22_16.data))
    BY <1>3, Code_22_16, Columns_22_16, Ones_22_16
  <2> QED
    BY <1>2, <1>4, <2>1
<1>5. CASE c = 2
  <2>1. Detects(secded_28_22, Field(word, 0, secded_28_22.data))
    BY <1>3, Code_28_22, Columns_28_22, Ones_28_22
  <2> QED
    BY <1>2, <1>5, <2>1
<1>6. CASE c = 3
  <2>1. Detects(secded_39_32, Field(word, 0, secded_39_32.data))
    BY <1>3, Code_39_32, Columns_39_32, Ones_39_32
  <2> QED
    BY <1>2, <1>6, <2>1
<1>7. CASE c = 4
  <2>1. Detects(secded_64_57, Field(word, 0, secded_64_57.data))
    BY <1>3, Code_64_57, Columns_64_57, Ones_64_57
  <2> QED
    BY <1>2, <1>7, <2>1
<1>8. CASE c = 5
  <2>1. Detects(secded_72_64, Field(word, 0, secded_72_64.data))
    BY <1>3, Code_72_64, Columns_72_64, Ones_72_64
  <2> QED
    BY <1>2, <1>8, <2>1
<1> QED
  BY <1>1, <1>4, <1>5, <1>6, <1>7, <1>8

(* A call of Write() was given some of the data.                            *)
WriteInv == call.op = "Write" => call.data \in Data

(* Every step keeps it so.                                                  *)
LEMMA WriteInvKept == WriteInv /\ [Next]_vars => WriteInv'
<1> SUFFICES ASSUME WriteInv, [Next]_vars PROVE WriteInv'
  OBVIOUS
<1>1. ASSUME NEW op, NEW off, NEW num, NEW data, NEW asserted, Begin(op, off, num, data, asserted),
             op = "Write" => data \in Data
      PROVE  WriteInv'
  BY <1>1 DEF Begin, WriteInv
<1>2. ASSUME NEW off \in 0..NumWords, NEW d \in Data, Write(off, d)
      PROVE  WriteInv'
  BY <1>1, <1>2 DEF Write
<1>3. ASSUME NEW off \in 0..NumWords, NEW d \in EccData, WriteWithIntegrity(off, d)
      PROVE  WriteInv'
  BY <1>1, <1>3 DEF WriteWithIntegrity
<1>4. ASSUME NEW off \in 0..NumWords, NEW n \in 0..NumWords, Read(off, n)
      PROVE  WriteInv'
  BY <1>1, <1>4 DEF Read
<1>5. ASSUME NEW off \in 0..NumWords, NEW n \in 0..NumWords, ReadWithIntegrity(off, n)
      PROVE  WriteInv'
  BY <1>1, <1>5 DEF ReadWithIntegrity
<1>6. ASSUME NEW image, NEW loaded, LoadVmem(image, loaded)
      PROVE  WriteInv'
  BY <1>6 DEF LoadVmem, WriteInv
<1>7. CASE WriteWord
  BY <1>7 DEF WriteWord, WriteInv
<1>8. CASE ReadWord
  BY <1>8 DEF ReadWord, WriteInv
<1>9. ASSUME NEW w \in MemWords, NEW flips \in Flips, Fault(w, flips)
      PROVE  WriteInv'
  BY <1>9 DEF Fault, WriteInv, None
<1>10. CASE UNCHANGED vars
  BY <1>10 DEF vars, WriteInv
<1> QED
  BY <1>2, <1>3, <1>4, <1>5, <1>6, <1>7, <1>8, <1>9, <1>10 DEF Next

(* CodesDetect: with the masks of all five encoders, in both forms, no one, *)
(* two or three wrong bits turn a code word into another.                   *)
THEOREM AllCodesDetect == Spec => []CodesDetect
<1>1. Init => WriteInv
  BY DEF Init, WriteInv, None
<1>2. WriteInv => CodesDetect
  <2> SUFFICES ASSUME WriteInv, call.op = "Write", NEW c \in DOMAIN Codes
               PROVE  <<c, call.data, TRUE>> \in DetectedBy
    BY DEF CodesDetect
  <2> DEFINE D == Detects(Codes[c], Field(call.data.bits, 0, Codes[c].data))
  <2>1. call.data \in Data
    BY DEF WriteInv
  <2>2. D
    BY AllDetect
  <2>3. D = TRUE
    BY <2>2 DEF Detects
  <2>4. <<c, call.data, D>> \in DetectedBy
    <3> DEFINE f(i, d) == <<i, d, Detects(Codes[i], Field(d.bits, 0, Codes[i].data))>>
    <3>1. DetectedBy = {f(i, d) : i \in DOMAIN Codes, d \in Data}
      BY DEF DetectedBy
    <3> HIDE DEF f
    <3>2. f(c, call.data) \in DetectedBy
      BY <2>1, <3>1
    <3> QED
      BY <3>2 DEF f
  <2> HIDE DEF D
  <2> QED
    BY <2>3, <2>4
<1> QED
  BY <1>1, <1>2, WriteInvKept, PTL DEF Spec

-----------------------------------------------------------------------------
(* The layers of the data cipher, and the layers that undo them.            *)

(* A nibble is the number that its bits make.                               *)
LEMMA ValueOfNumber ==
  ASSUME NEW n \in 0..15
  PROVE  Number(n) \in SUBSET (0..3) /\ Value(Number(n)) = n
<1> DEFINE x == Number(n)
           b(p) == IF p \in x THEN 1 ELSE 0
<1>1. x \in SUBSET (0..(4 - 1))
  <2>1. n \in Nat /\ n < Power[4 + 1] /\ 4 \in 0..16
    BY Powers
  <2> QED
    BY <2>1, NumberBelow
<1>2. /\ 0 \in x <=> (n \div 1) % 2 = 1
      /\ 1 \in x <=> (n \div 2) % 2 = 1
      /\ 2 \in x <=> (n \div 4) % 2 = 1
      /\ 3 \in x <=> (n \div 8) % 2 = 1
  <2>1. \A p \in 0..15 : p \in x <=> (n \div Power[p + 1]) % 2 = 1
    BY DEF Number
  <2>2. Power[0 + 1] = 1 /\ Power[1 + 1] = 2 /\ Power[2 + 1] = 4 /\ Power[3 + 1] = 8
    BY Powers
  <2> HIDE DEF x
  <2> QED
    BY <2>1, <2>2
<1>3. x \in SUBSET (0..3)
  BY <1>1
<1> HIDE DEF x
<1>4. Value(x) = 2 * (2 * (2 * b(3) + b(2)) + b(1)) + b(0)
  BY <1>3, NibbleValue
<1>5. 2 * (2 * (2 * b(3) + b(2)) + b(1)) + b(0) = n
  BY <1>2
<1> QED
  BY <1>3, <1>4, <1>5 DEF x

(* PRESENT_SBOX4_INV is the inverse of PRESENT_SBOX4.                       *)
LEMMA BoxUndone ==
  ASSUME NEW x \in SUBSET (0..3)
  PROVE  BoxBits(PRESENT_SBOX4_INV, BoxBits(PRESENT_SBOX4, x)) = x
<1> DEFINE m == Value(x)
           n == PRESENT_SBOX4[m + 1]
<1>1. m \in 0..15
  BY NibbleValue
<1>2. \A i \in 0..15 : PRESENT_SBOX4[i + 1] \in 0..15 /\ PRESENT_SBOX4_INV[PRESENT_SBOX4[i + 1] + 1] = i
  BY DEF PRESENT_SBOX4, PRESENT_SBOX4_INV
<1>3. n \in 0..15 /\ PRESENT_SBOX4_INV[n + 1] = m
  <2> HIDE DEF m
  <2> QED
    BY <1>1, <1>2
<1>4. BoxBits(PRESENT_SBOX4, x) = Number(n)
  BY DEF BoxBits
<1> HIDE DEF n
<1>5. Value(Number(n)) = n
  BY <1>3, ValueOfNumber
<1>6. BoxBits(PRESENT_SBOX4_INV, Number(n)) = Number(m)
  BY <1>3, <1>5 DEF BoxBits
<1>7. Number(m) \in SUBSET (0..3) /\ Value(Number(m)) = m
  <2> HIDE DEF m
  <2> QED
    BY <1>1, ValueOfNumber
<1>8. Number(m) \in SUBSET (0..15) /\ x \in SUBSET (0..15) /\ Value(Number(m)) = Value(x)
  BY <1>7
<1>9. Number(m) = x
  <2> HIDE DEF m
  <2> QED
    BY <1>8, ValueOneToOne
<1> QED
  BY <1>4, <1>6, <1>9

(* So is the layer of boxes, also where it leaves bits over.                *)
LEMMA BoxesUndone ==
  ASSUME NEW width \in Nat, NEW v \in SUBSET Ones(width)
  PROVE  scramble_sbox_layer(scramble_sbox_layer(v, width, PRESENT_SBOX4), width, PRESENT_SBOX4_INV) = v
<1> DEFINE mid == scramble_sbox_layer(v, width, PRESENT_SBOX4)
           out == scramble_sbox_layer(mid, width, PRESENT_SBOX4_INV)
           whole == width \div 4
<1>1. mid \in SUBSET Ones(width)
  BY BoxesFit, PresentBoxes
<1>2. \A q \in 0..3, i \in Nat :
        /\ i < whole => (q + 4 * i \in mid <=> q \in BoxBits(PRESENT_SBOX4, Field(v, 4 * i, 4)))
        /\ i >= whole => (q + 4 * i \in mid <=> q + 4 * i \in v)
  BY InBoxes, PresentBoxes
<1> HIDE DEF mid
<1>3. out \in SUBSET Ones(width)
  BY <1>1, BoxesFit, PresentBoxes
<1>4. \A q \in 0..3, i \in Nat :
        /\ i < whole => (q + 4 * i \in out <=> q \in BoxBits(PRESENT_SBOX4_INV, Field(mid, 4 * i, 4)))
        /\ i >= whole => (q + 4 * i \in out <=> q + 4 * i \in mid)
  BY <1>1, InBoxes, PresentBoxes
<1>5. whole \in Int
  OBVIOUS
<1> HIDE DEF out, whole
<1>6. v \in SUBSET Nat /\ out \in SUBSET Nat
  BY <1>3 DEF Ones
<1> SUFFICES ASSUME NEW p \in Nat PROVE p \in out <=> p \in v
  BY <1>6 DEF out, mid
<1> DEFINE i == p \div 4
           q == p % 4
<1>7. i \in Nat /\ q \in 0..3 /\ p = q + 4 * i
  OBVIOUS
<1> HIDE DEF i, q
<1>8. CASE i < whole
  <2> DEFINE x == Field(v, 4 * i, 4)
             y == Field(mid, 4 * i, 4)
  <2>1. 4 * i \in Int /\ Ones(4) = 0..3
    BY <1>7 DEF Ones
  <2>2. x \in SUBSET (0..3) /\ y \in SUBSET (0..3)
    BY <2>1, FieldIsOnes
  <2>3. \A r : r \in y <=> r \in 0..(4 - 1) /\ r + 4 * i \in mid
    BY <2>1, InField
  <2>4. q \in x <=> q \in 0..(4 - 1) /\ q + 4 * i \in v
    BY <2>1, InField
  <2>5. \A r \in 0..3 : r + 4 * i \in mid <=> r \in BoxBits(PRESENT_SBOX4, x)
    BY <1>2, <1>7, <1>8
  <2>6. q + 4 * i \in out <=> q \in BoxBits(PRESENT_SBOX4_INV, y)
    BY <1>4, <1>7, <1>8
  <2> HIDE DEF x, y
  <2>7. BoxBits(PRESENT_SBOX4, x) \in SUBSET (0..3)
    BY <2>2, BoxFits, PresentBoxes
  <2>8. y = BoxBits(PRESENT_SBOX4, x)
    BY <2>2, <2>3, <2>5, <2>7
  <2>9. BoxBits(PRESENT_SBOX4_INV, y) = x
    BY <2>2, <2>8, BoxUndone
  <2> QED
    BY <1>7, <2>4, <2>6, <2>9
<1>9. CASE i >= whole
  BY <1>2, <1>4, <1>7, <1>9
<1> QED
  BY <1>5, <1>7, <1>8, <1>9

(* Reversing the bits twice.                                                *)
LEMMA FlipUndone ==
  ASSUME NEW width \in Nat, NEW a \in SUBSET Ones(width)
  PROVE  scramble_flip_layer(scramble_flip_layer(a, width), width) = a
<1>1. \A v \in SUBSET Ones(width) : \A p \in 0..(width - 1) :
        p \in scramble_flip_layer(v, width) <=> width - 1 - p \in v
  <2> TAKE v \in SUBSET Ones(width)
  <2> TAKE p \in 0..(width - 1)
  <2>1. p \in scramble_flip_layer(v, width) <=> \E r \in v \cap Ones(width) : p = width - 1 - r
    BY DEF scramble_flip_layer
  <2>2. \A r \in v : r \in 0..(width - 1) /\ (p = width - 1 - r <=> r = width - 1 - p)
    BY DEF Ones
  <2>3. width - 1 - p \in Ones(width)
    BY DEF Ones
  <2> QED
    BY <2>1, <2>2, <2>3
<1> DEFINE f == scramble_flip_layer(a, width)
           g == scramble_flip_layer(f, width)
<1>2. f \in SUBSET Ones(width)
  BY FlipOneToOne
<1>3. \A p \in 0..(width - 1) : p \in f <=> width - 1 - p \in a
  BY <1>1
<1> HIDE DEF f
<1>4. g \in SUBSET Ones(width)
  BY <1>2, FlipOneToOne
<1>5. \A p \in 0..(width - 1) : p \in g <=> width - 1 - p \in f
  BY <1>1, <1>2
<1> HIDE DEF g
<1>6. \A p \in 0..(width - 1) : width - 1 - p \in 0..(width - 1) /\ width - 1 - (width - 1 - p) = p
  OBVIOUS
<1>7. \A p \in 0..(width - 1) : p \in g <=> p \in a
  BY <1>3, <1>5, <1>6
<1> QED
  BY <1>4, <1>7 DEF Ones, f, g

(* Where the inverse puts a bit back.                                       *)
SpreadOut(p, half) == IF p < half THEN 2 * p ELSE 2 * (p - half) + 1

(* A bit comes back to where it was.                                        *)
LEMMA GatherUndone ==
  ASSUME NEW half \in Nat, NEW p \in 0..(2 * half - 1)
  PROVE  SpreadOut(Gathered(p, half), half) = p
<1> DEFINE d == p \div 2
           m == p % 2
<1>1. d \in 0..(half - 1) /\ m \in 0..1 /\ p = 2 * d + m
  OBVIOUS
<1>2. Gathered(p, half) = d + half * m
  BY DEF Gathered
<1> HIDE DEF d, m
<1>3. CASE m = 0
  <2>1. Gathered(p, half) = d
    BY <1>1, <1>2, <1>3
  <2> QED
    BY <1>1, <1>3, <2>1 DEF SpreadOut
<1>4. CASE m = 1
  <2>1. Gathered(p, half) = d + half
    BY <1>1, <1>2, <1>4
  <2> QED
    BY <1>1, <1>4, <2>1 DEF SpreadOut
<1> QED
  BY <1>1, <1>3, <1>4

(* scramble_perm_layer() and its inverse, for even and odd widths.          *)
LEMMA PermUndone ==
  ASSUME NEW width \in Nat, NEW a \in SUBSET Ones(width)
  PROVE  scramble_perm_layer(scramble_perm_layer(a, width, FALSE), width, TRUE) = a
<1> DEFINE half == width \div 2
           even == 2 * half
           last(v) == IF width % 2 = 0 THEN {} ELSE v \cap {width - 1}
           perm == scramble_perm_layer(a, width, FALSE)
           back == scramble_perm_layer(perm, width, TRUE)
<1>1. half \in Nat /\ even <= width /\ width <= even + 1 /\ (width % 2 = 0 <=> width = even)
  OBVIOUS
<1>2. perm = {Gathered(p, half) : p \in a \cap Ones(even)} \cup last(a)
  BY DEF scramble_perm_layer, Gathered
<1> HIDE DEF perm
<1>3. back = {SpreadOut(p, half) : p \in perm \cap Ones(even)} \cup last(perm)
  BY DEF scramble_perm_layer, SpreadOut
<1> HIDE DEF half, back
<1>4. \A p \in 0..(even - 1) : Gathered(p, half) \in 0..(even - 1) /\ SpreadOut(Gathered(p, half), half) = p
  BY <1>1, GatherOneToOne, GatherUndone
<1>5. Ones(even) = 0..(even - 1) /\ Ones(width) = 0..(width - 1) /\ 0..(even - 1) \subseteq 0..(width - 1)
  BY <1>1 DEF Ones
<1>6. \A r : r \in last(a) => r \notin Ones(even)
  BY <1>1, <1>5
<1>7. perm \cap Ones(even) = {Gathered(p, half) : p \in a \cap Ones(even)}
  <2> HIDE DEF last, even
  <2> QED
    BY <1>2, <1>4, <1>5, <1>6
<1>8. {SpreadOut(r, half) : r \in perm \cap Ones(even)} = a \cap Ones(even)
  <2> HIDE DEF even
  <2>1. \A p \in a \cap Ones(even) : SpreadOut(Gathered(p, half), half) = p
    BY <1>4, <1>5
  <2> DEFINE e == a \cap Ones(even)
             S == perm \cap Ones(even)
  <2>2. S = {Gathered(p, half) : p \in e}
    BY <1>7
  <2> HIDE DEF e, S
  <2>3. ASSUME NEW r \in S PROVE SpreadOut(r, half) \in e
    BY <2>1, <2>2, <2>3 DEF e
  <2>4. ASSUME NEW p \in e PROVE \E r \in S : p = SpreadOut(r, half)
    BY <2>1, <2>2, <2>4 DEF e
  <2>5. {SpreadOut(r, half) : r \in S} = e
    BY <2>3, <2>4
  <2> QED
    BY <2>5 DEF e, S
<1>9. last(perm) = last(a)
  <2>1. CASE width = even
    BY <1>1, <2>1
  <2>2. CASE width # even
    <3>1. last(a) = a \cap {width - 1} /\ last(perm) = perm \cap {width - 1} /\ width - 1 = even
      BY <1>1, <2>2
    <3>2. \A p \in 0..(even - 1) : Gathered(p, half) # even
      BY <1>1, <1>4
    <3>3. even \in perm <=> even \in last(a)
      <4> HIDE DEF last
      <4> QED
        BY <1>2, <1>5, <3>2
    <3> QED
      BY <3>1, <3>3
  <2> QED
    BY <2>1, <2>2
<1>10. (a \cap Ones(even)) \cup last(a) = a
  <2>1. \A p \in 0..(width - 1) : p \in 0..(even - 1) \/ (p = width - 1 /\ width # even)
    BY <1>1
  <2> QED
    BY <1>1, <1>5, <2>1
<1> QED
  BY <1>3, <1>8, <1>9, <1>10 DEF perm, back

(* A round of decryption undoes a round of encryption, up to the key that   *)
(* both start with.                                                         *)
LEMMA RoundUndone ==
  ASSUME NEW width \in Nat, NEW key \in SUBSET Ones(width), NEW v \in SUBSET Ones(width)
  PROVE  DecRound(Xor(EncRound(v, key, width), key), key, width) = Xor(v, key)
<1> DEFINE x == Xor(v, key)
           s == scramble_sbox_layer(x, width, PRESENT_SBOX4)
           f == scramble_flip_layer(s, width)
           o == scramble_perm_layer(f, width, FALSE)
<1>1. x \in SUBSET Ones(width)
  BY DEF Xor
<1> HIDE DEF x
<1>2. s \in SUBSET Ones(width) /\ scramble_sbox_layer(s, width, PRESENT_SBOX4_INV) = x
  BY <1>1, BoxesFit, BoxesUndone, PresentBoxes
<1> HIDE DEF s
<1>3. f \in SUBSET Ones(width) /\ scramble_flip_layer(f, width) = s
  BY <1>2, FlipOneToOne, FlipUndone
<1> HIDE DEF f
<1>4. scramble_perm_layer(o, width, TRUE) = f
  BY <1>3, PermUndone
<1>5. EncRound(v, key, width) = o
  BY DEF EncRound, o, f, s, x
<1> HIDE DEF o
<1>6. Xor(Xor(o, key), key) = o
  BY XorTwice
<1> QED
  BY <1>2, <1>3, <1>4, <1>5, <1>6 DEF DecRound, x

(* The loop of scramble_subst_perm_dec() as the recursion that it is.       *)
LEMMA DecRoundsRounds ==
  ASSUME NEW v, NEW key, NEW width, NEW num_rounds \in Nat
  PROVE  LET loop == DecRounds(v, key, width, num_rounds) IN
         /\ loop[0] = v
         /\ \A n \in 1..num_rounds : loop[n] = DecRound(loop[n - 1], key, width)
<1> DEFINE first == v
           Is(g, k) == g = [n \in 0..k |-> IF n = 0 THEN first ELSE DecRound(g[n - 1], key, width)]
           S == {k \in Nat : \E g : Is(g, k)}
<1>1. 0 \in S
  <2> DEFINE g == [n \in 0..0 |-> first]
  <2>1. Is(g, 0)
    OBVIOUS
  <2> QED
    BY <2>1
<1>2. ASSUME NEW k \in S
      PROVE  k + 1 \in S
  <2>1. PICK g : Is(g, k)
    OBVIOUS
  <2> DEFINE h == [n \in 0..(k + 1) |-> IF n = k + 1 THEN DecRound(g[k], key, width) ELSE g[n]]
  <2>2. \A n \in 0..k : h[n] = g[n]
    OBVIOUS
  <2>3. \A n \in 0..(k + 1) : h[n] = IF n = 0 THEN first ELSE DecRound(h[n - 1], key, width)
    <3> TAKE n \in 0..(k + 1)
    <3>1. CASE n = k + 1
      BY <2>2, <3>1
    <3>2. CASE n # k + 1 /\ n # 0
      <4>1. n \in 0..k /\ n - 1 \in 0..k
        BY <3>2
      <4> QED
        BY <2>1, <2>2, <3>2, <4>1
    <3>3. CASE n = 0
      BY <2>1, <2>2, <3>3
    <3> QED
      BY <3>1, <3>2, <3>3
  <2>4. Is(h, k + 1)
    BY <2>3
  <2> HIDE DEF h
  <2> QED
    BY <2>4
<1>3. \A k \in Nat : \E g : Is(g, k)
  <2> HIDE DEF Is
  <2>1. \A k \in Nat : k \in S
    BY <1>1, <1>2, SetInduction
  <2> QED
    BY <2>1
<1> DEFINE N == num_rounds
<1>4. N \in Nat
  OBVIOUS
<1>5. DecRounds(v, key, width, num_rounds) = CHOOSE g : Is(g, N)
  BY Zenon DEF DecRounds
<1>6. Is(DecRounds(v, key, width, num_rounds), N)
  <2> HIDE DEF Is, N
  <2> QED
    BY <1>3, <1>4, <1>5
<1> DEFINE loop == DecRounds(v, key, width, num_rounds)
<1> HIDE DEF N, first, loop
<1>7. \A n \in 0..N : loop[n] = IF n = 0 THEN first ELSE DecRound(loop[n - 1], key, width)
  BY <1>4, <1>6 DEF loop
<1>8. loop[0] = first /\ \A n \in 1..N : loop[n] = DecRound(loop[n - 1], key, width)
  BY <1>4, <1>7
<1> QED
  BY <1>8 DEF N, loop, first

(* scramble_subst_perm_dec() undoes scramble_subst_perm_enc(), whatever the *)
(* width and the key.                                                       *)
LEMMA SubstPermUndone ==
  ASSUME NEW width \in Nat, NEW key \in SUBSET Ones(width), NEW v \in SUBSET Ones(width)
  PROVE  /\ scramble_subst_perm_enc(v, key, width, 2) \in SUBSET Ones(width)
         /\ scramble_subst_perm_dec(scramble_subst_perm_enc(v, key, width, 2), key, width, 2) = v
<1> DEFINE e == EncRounds(v, key, width, 2)
           c == scramble_subst_perm_enc(v, key, width, 2)
           d == DecRounds(c, key, width, 2)
<1>1. e[0] = v /\ \A n \in 1..2 : e[n] = EncRound(e[n - 1], key, width)
  BY EncRoundsRounds
<1>2. c = Xor(e[2], key)
  BY DEF scramble_subst_perm_enc
<1> HIDE DEF e, c
<1>3. d[0] = c /\ \A n \in 1..2 : d[n] = DecRound(d[n - 1], key, width)
  BY DecRoundsRounds
<1>4. scramble_subst_perm_dec(c, key, width, 2) = Xor(d[2], key)
  BY DEF scramble_subst_perm_dec
<1> HIDE DEF d
<1>5. e[1] = EncRound(v, key, width) /\ e[2] = EncRound(e[1], key, width)
  <2>1. e[1] = EncRound(e[1 - 1], key, width) /\ e[2] = EncRound(e[2 - 1], key, width)
    BY <1>1
  <2> QED
    BY <1>1, <2>1
<1>6. d[1] = DecRound(c, key, width) /\ d[2] = DecRound(d[1], key, width)
  <2>1. d[1] = DecRound(d[1 - 1], key, width) /\ d[2] = DecRound(d[2 - 1], key, width)
    BY <1>3
  <2> QED
    BY <1>3, <2>1
<1>7. e[1] \in SUBSET Ones(width)
  BY <1>5, RoundOneToOne
<1>8. e[2] \in SUBSET Ones(width)
  BY <1>5, <1>7, RoundOneToOne
<1>9. c \in SUBSET Ones(width)
  BY <1>2, <1>8 DEF Xor
<1>10. d[1] = Xor(e[1], key)
  BY <1>2, <1>5, <1>6, <1>7, RoundUndone
<1>11. d[2] = Xor(v, key)
  BY <1>5, <1>6, <1>10, RoundUndone
<1>12. Xor(d[2], key) = v
  BY <1>11, XorTwice
<1> QED
  BY <1>4, <1>9, <1>12 DEF c

-----------------------------------------------------------------------------
(* Chunks: the blocks of c bits that a word of W bits is cut into.          *)
LEMMA TimesRises ==
  ASSUME NEW c \in Nat, NEW i \in Nat, NEW j \in Nat, i <= j
  PROVE  i * c \in Nat /\ j * c \in Nat /\ i * c <= j * c
<1> DEFINE k == j - i
<1>1. k \in Nat /\ j = i + k
  OBVIOUS
<1> HIDE DEF k
<1>2. k * c \in Nat /\ i * c \in Nat
  BY <1>1, SMTT(30)
<1>3. (i + k) * c = i * c + k * c
  BY <1>1, SMTT(30)
<1> QED
  BY <1>1, <1>2, <1>3

(* A number is its quotient and its rest.                                   *)
LEMMA DivAndRest ==
  ASSUME NEW c \in Nat \ {0}, NEW p \in Nat
  PROVE  p \div c \in Nat /\ p % c \in 0..(c - 1) /\ p = (p % c) + (p \div c) * c
<1>1. p % c \in 0..(c - 1)
  BY SMTT(30)
<1>2. p \div c \in Nat
  BY SMTT(30)
<1>3. p = c * (p \div c) + (p % c)
  BY SMTT(30)
<1>4. c * (p \div c) = (p \div c) * c
  BY <1>2, SMTT(30)
<1> QED
  BY <1>1, <1>2, <1>3, <1>4, SMTT(30)

(* A bit is in one chunk only.                                              *)
LEMMA OneChunk ==
  ASSUME NEW c \in Nat \ {0}, NEW q \in 0..(c - 1), NEW r \in 0..(c - 1),
         NEW i \in Nat, NEW j \in Nat, q + i * c = r + j * c
  PROVE  i = j
<1>1. ASSUME NEW a \in Nat, NEW b \in Nat, a < b
      PROVE  a * c \in Nat /\ b * c \in Nat /\ a * c + c <= b * c
  <2>1. (a + 1) * c <= b * c /\ b * c \in Nat /\ a * c \in Nat
    BY <1>1, TimesRises
  <2>2. (a + 1) * c = a * c + c
    BY SMTT(30)
  <2> QED
    BY <2>1, <2>2
<1> DEFINE x == i * c
           y == j * c
<1>2. i < j => x \in Nat /\ y \in Nat /\ x + c <= y
  BY <1>1
<1>3. j < i => x \in Nat /\ y \in Nat /\ y + c <= x
  BY <1>1
<1>4. q + x = r + y
  OBVIOUS
<1> HIDE DEF x, y
<1> QED
  BY <1>2, <1>3, <1>4

(* Which bits are in a word that is put together from chunks.               *)
LEMMA InChunks ==
  ASSUME NEW c \in Nat \ {0}, NEW n \in Nat, NEW f, \A j \in 0..(n - 1) : f[j] \in SUBSET (0..(c - 1)),
         NEW q \in 0..(c - 1), NEW i \in Nat
  PROVE  q + i * c \in UNION {Shl(f[j], j * c) : j \in 0..(n - 1)} <=> i < n /\ q \in f[i]
<1> DEFINE p == q + i * c
           all == UNION {Shl(f[j], j * c) : j \in 0..(n - 1)}
<1>1. \A j \in Nat : j * c \in Nat
  BY TimesRises
<1>2. p \in Int /\ p - i * c = q
  BY <1>1
<1>3. \A j \in 0..(n - 1) : p \in Shl(f[j], j * c) <=> p - j * c \in f[j]
  <2> TAKE j \in 0..(n - 1)
  <2>1. j * c \in Int /\ f[j] \in SUBSET Int
    BY <1>1
  <2> HIDE DEF p
  <2> QED
    BY <1>2, <2>1, InShl
<1>4. \A j \in 0..(n - 1) : p - j * c \in f[j] => j = i
  <2> TAKE j \in 0..(n - 1)
  <2> HAVE p - j * c \in f[j]
  <2> DEFINE r == p - j * c
  <2>1. r \in 0..(c - 1) /\ j \in Nat
    OBVIOUS
  <2>2. p = r + j * c
    BY <1>1, <1>2, <2>1
  <2> HIDE DEF r
  <2>3. q + i * c = r + j * c
    BY <2>2
  <2> QED
    BY <2>1, <2>3, OneChunk
<1>5. i < n <=> i \in 0..(n - 1)
  OBVIOUS
<1>6. p \in all <=> \E j \in 0..(n - 1) : p \in Shl(f[j], j * c)
  OBVIOUS
<1> HIDE DEF p, all
<1>7. p \in all <=> i < n /\ q \in f[i]
  BY <1>2, <1>3, <1>4, <1>5, <1>6
<1> QED
  BY <1>7 DEF p, all

(* The chunks cover the word, the last one with what is left of it.         *)
LEMMA Chunks ==
  ASSUME NEW W \in Nat, NEW c \in Nat \ {0}
  PROVE  LET n == (W + c - 1) \div c
             w(i) == Min({c, W - c * i})
         IN  /\ n \in Nat
             /\ \A i \in 0..(n - 1) : w(i) \in 1..c /\ i * c \in Nat
             /\ \A i \in Nat, q \in 0..(c - 1) :
                  q + i * c < W <=> i < n /\ q < w(i)
<1> DEFINE n == (W + c - 1) \div c
           w(i) == Min({c, W - c * i})
<1>1. W + c - 1 \in Nat
  OBVIOUS
<1>2. /\ n \in Nat
      /\ (W + c - 1) % c \in 0..(c - 1)
      /\ W + c - 1 = ((W + c - 1) % c) + n * c
  BY <1>1, DivAndRest
<1> DEFINE r == (W + c - 1) % c
<1> HIDE DEF n, r
<1>3. \A i \in Nat : i * c \in Nat /\ c * i = i * c
  <2> TAKE i \in Nat
  <2>1. i * c \in Nat
    BY TimesRises
  <2>2. c * i = i * c
    BY SMTT(30)
  <2> QED
    BY <2>1, <2>2
<1>4. n * c <= W + c - 1 /\ W <= n * c
  <2> DEFINE x == n * c
  <2>1. x \in Nat /\ W + c - 1 = r + x /\ r \in 0..(c - 1)
    BY <1>2, <1>3 DEF r
  <2> HIDE DEF x
  <2>2. x <= W + c - 1 /\ W <= x
    BY <2>1
  <2> QED
    BY <2>2 DEF x
<1>5. \A i \in Nat : i < n => i * c < W
  <2> TAKE i \in Nat
  <2> HAVE i < n
  <2>1. (i + 1) * c <= n * c /\ n * c \in Nat
    BY <1>2, TimesRises
  <2>2. (i + 1) * c = i * c + c
    BY SMTT(30)
  <2> DEFINE x == i * c
             y == n * c
  <2>3. x \in Nat /\ y \in Nat /\ x + c <= y /\ y <= W + c - 1
    BY <1>3, <1>4, <2>1, <2>2
  <2> HIDE DEF x, y
  <2>4. x < W
    BY <2>3
  <2> QED
    BY <2>4 DEF x
<1>6. \A i \in Nat : i >= n => i * c >= W
  <2> TAKE i \in Nat
  <2> HAVE i >= n
  <2>1. n * c <= i * c /\ n * c \in Nat /\ i * c \in Nat
    BY <1>2, TimesRises
  <2> DEFINE x == i * c
             y == n * c
  <2>2. x \in Nat /\ y \in Nat /\ y <= x /\ W <= y
    BY <1>4, <2>1
  <2> HIDE DEF x, y
  <2>3. x >= W
    BY <2>2
  <2> QED
    BY <2>3 DEF x
<1>7. \A i \in Nat : w(i) = IF c <= W - i * c THEN c ELSE W - i * c
  <2> TAKE i \in Nat
  <2>1. c \in Int /\ W - c * i \in Int /\ c * i = i * c
    BY <1>3
  <2> DEFINE x == W - c * i
  <2>2. x = W - i * c
    BY <2>1
  <2>3. x \in Int
    BY <2>1
  <2> HIDE DEF x
  <2>4. Min({c, x}) = IF c <= x THEN c ELSE x
    BY <2>3, MinOfTwo
  <2> QED
    BY <2>2, <2>4 DEF x
<1> HIDE DEF w
<1>8. ASSUME NEW i \in 0..(n - 1) PROVE w(i) \in 1..c /\ i * c \in Nat
  <2>1. i \in Nat /\ i < n
    BY <1>2
  <2> DEFINE x == i * c
  <2>2. x \in Nat /\ x < W /\ w(i) = IF c <= W - x THEN c ELSE W - x
    BY <1>3, <1>5, <1>7, <2>1
  <2> HIDE DEF x
  <2>3. w(i) \in 1..c
    BY <2>2
  <2> QED
    BY <2>2, <2>3 DEF x
<1>9. ASSUME NEW i \in Nat, NEW q \in 0..(c - 1)
      PROVE  q + i * c < W <=> i < n /\ q < w(i)
  <2> DEFINE x == i * c
  <2>1. x \in Nat /\ w(i) = IF c <= W - x THEN c ELSE W - x
    BY <1>3, <1>7
  <2>2. (i < n => x < W) /\ (i >= n => x >= W)
    BY <1>5, <1>6
  <2> HIDE DEF x
  <2>3. q + x < W <=> i < n /\ q < w(i)
    BY <1>2, <2>1, <2>2
  <2> QED
    BY <2>3 DEF x
<1> QED
  BY <1>2, <1>8, <1>9 DEF n, w

(* Chunk by chunk, the network is undone, whatever the widths of the word   *)
(* and of the chunks.                                                       *)
LEMMA ChunksUndone ==
  ASSUME NEW W \in Nat, NEW c \in Nat \ {0}, NEW v \in SUBSET Ones(W)
  PROVE  LET enc == scramble_subst_perm_full_width(v, W, c, TRUE)
         IN  /\ enc \in SUBSET Ones(W)
             /\ scramble_subst_perm_full_width(enc, W, c, FALSE) = v
<1> DEFINE n == (W + c - 1) \div c
           w(i) == Min({c, W - c * i})
           Enc(x, k) == scramble_subst_perm_enc(x, {}, k, 2)
           Dec(x, k) == scramble_subst_perm_dec(x, {}, k, 2)
           there == [i \in 0..(n - 1) |-> Enc(Field(v, i * c, w(i)), w(i))]
           mid == scramble_subst_perm_full_width(v, W, c, TRUE)
           back == [i \in 0..(n - 1) |-> Dec(Field(mid, i * c, w(i)), w(i))]
           out == scramble_subst_perm_full_width(mid, W, c, FALSE)
<1>1. /\ n \in Nat
      /\ \A i \in 0..(n - 1) : w(i) \in 1..c /\ i * c \in Nat
      /\ \A i \in Nat, q \in 0..(c - 1) : q + i * c < W <=> i < n /\ q < w(i)
  BY Chunks
<1>2. mid = UNION {Shl(there[i], i * c) : i \in 0..(n - 1)}
  BY DEF scramble_subst_perm_full_width, kNumDataSubstPermRounds
<1> HIDE DEF mid
<1>3. out = UNION {Shl(back[i], i * c) : i \in 0..(n - 1)}
  BY DEF scramble_subst_perm_full_width, kNumDataSubstPermRounds
<1> HIDE DEF out, n, w
<1>4. ASSUME NEW x, NEW i \in 0..(n - 1)
      PROVE  /\ Field(x, i * c, w(i)) \in SUBSET Ones(w(i))
             /\ \A q : q \in Field(x, i * c, w(i)) <=> q \in 0..(w(i) - 1) /\ q + i * c \in x
  <2> DEFINE lo == i * c
             k == w(i)
  <2>1. lo \in Int /\ k \in Int
    BY <1>1
  <2> HIDE DEF lo, k
  <2>2. Field(x, lo, k) \in SUBSET Ones(k)
    BY <2>1, FieldIsOnes
  <2>3. \A q : q \in Field(x, lo, k) <=> q \in 0..(k - 1) /\ q + lo \in x
    BY <2>1, InField
  <2> QED
    BY <2>2, <2>3 DEF lo, k
<1>5. ASSUME NEW i \in 0..(n - 1)
      PROVE  /\ there[i] \in SUBSET Ones(w(i))
             /\ Dec(there[i], w(i)) = Field(v, i * c, w(i))
  <2> DEFINE x == Field(v, i * c, w(i))
             k == w(i)
  <2>1. k \in Nat /\ x \in SUBSET Ones(k) /\ {} \in SUBSET Ones(k)
    BY <1>1, <1>4
  <2>2. there[i] = Enc(x, k)
    OBVIOUS
  <2> HIDE DEF x, k
  <2>3. Enc(x, k) \in SUBSET Ones(k) /\ Dec(Enc(x, k), k) = x
    BY <2>1, SubstPermUndone
  <2> HIDE DEF Enc, Dec, there
  <2>4. there[i] \in SUBSET Ones(k) /\ Dec(there[i], k) = x
    BY <2>2, <2>3
  <2> QED
    BY <2>4 DEF k, x
<1> HIDE DEF there, Enc
<1>6. \A i \in 0..(n - 1) : Ones(w(i)) \subseteq 0..(c - 1) /\ Ones(w(i)) = 0..(w(i) - 1)
  BY <1>1 DEF Ones
<1>7. \A i \in 0..(n - 1) : there[i] \in SUBSET (0..(c - 1))
  BY <1>5, <1>6
<1>8. \A i \in Nat, q \in 0..(c - 1) : q + i * c \in mid <=> i < n /\ q \in there[i]
  <2> TAKE i \in Nat, q \in 0..(c - 1)
  <2> QED
    BY <1>1, <1>2, <1>7, InChunks
<1>9. \A i \in 0..(n - 1) : Field(mid, i * c, w(i)) = there[i]
  <2> TAKE i \in 0..(n - 1)
  <2>1. i \in Nat /\ i < n
    BY <1>1
  <2>2. there[i] \in SUBSET (0..(w(i) - 1)) /\ 0..(w(i) - 1) \subseteq 0..(c - 1)
    BY <1>5, <1>6
  <2>3. \A q : q \in Field(mid, i * c, w(i)) <=> q \in 0..(w(i) - 1) /\ q + i * c \in mid
    BY <1>4
  <2>4. \A q \in 0..(w(i) - 1) : q + i * c \in mid <=> q \in there[i]
    BY <1>8, <2>1, <2>2
  <2> DEFINE F == Field(mid, i * c, w(i))
             G == there[i]
             D == 0..(w(i) - 1)
             H(q) == q + i * c \in mid
  <2> HIDE DEF F, G, D, H
  <2>5. F = G
    BY <2>2, <2>3, <2>4 DEF F, G, D, H
  <2> QED
    BY <2>5 DEF F, G
<1>10. \A i \in 0..(n - 1) : back[i] = Field(v, i * c, w(i))
  BY <1>5, <1>9
<1> HIDE DEF back, Dec
<1>11. \A i \in 0..(n - 1) : back[i] \in SUBSET (0..(c - 1))
  BY <1>4, <1>6, <1>10
<1>12. \A i \in Nat, q \in 0..(c - 1) : q + i * c \in out <=> i < n /\ q \in back[i]
  <2> TAKE i \in Nat, q \in 0..(c - 1)
  <2> QED
    BY <1>1, <1>3, <1>11, InChunks
<1>13. ASSUME NEW f, \A i \in 0..(n - 1) : f[i] \in SUBSET (0..(c - 1))
       PROVE  UNION {Shl(f[i], i * c) : i \in 0..(n - 1)} \in SUBSET Nat
  <2>1. ASSUME NEW i \in 0..(n - 1) PROVE Shl(f[i], i * c) \in SUBSET Nat
    <3> DEFINE lo == i * c
    <3>1. lo \in Nat /\ f[i] \in SUBSET Nat
      BY <1>1, <1>13
    <3> HIDE DEF lo
    <3>2. Shl(f[i], lo) \in SUBSET Nat
      BY <3>1 DEF Shl
    <3> QED
      BY <3>2 DEF lo
  <2> QED
    BY <2>1
<1>14. mid \in SUBSET Nat /\ out \in SUBSET Nat /\ v \in SUBSET Nat
  <2>1. mid \in SUBSET Nat
    BY <1>2, <1>7, <1>13
  <2>2. out \in SUBSET Nat
    BY <1>3, <1>11, <1>13
  <2> QED
    BY <2>1, <2>2 DEF Ones
<1>15. ASSUME NEW p \in Nat PROVE (p \in mid => p < W) /\ (p \in out <=> p \in v)
  <2> DEFINE i == p \div c
             q == p % c
  <2>1. i \in Nat /\ q \in 0..(c - 1) /\ p = q + i * c
    BY DivAndRest
  <2> HIDE DEF i, q
  <2>2. p < W <=> i < n /\ q < w(i)
    BY <1>1, <2>1
  <2>3. p \in v => p < W
    BY DEF Ones
  <2>4. p \in mid <=> i < n /\ q \in there[i]
    BY <1>8, <2>1
  <2>5. p \in out <=> i < n /\ q \in back[i]
    BY <1>12, <2>1
  <2>6. CASE i < n
    <3>1. i \in 0..(n - 1)
      BY <1>1, <2>1, <2>6
    <3>2. w(i) \in Nat
      BY <1>1, <3>1
    <3>3. q \in there[i] => q < w(i)
      BY <1>5, <1>6, <2>1, <3>1, <3>2
    <3>4. q \in back[i] <=> q \in 0..(w(i) - 1) /\ p \in v
      BY <1>4, <1>10, <2>1, <3>1
    <3>5. q < w(i) <=> q \in 0..(w(i) - 1)
      BY <2>1, <3>2
    <3> QED
      BY <2>2, <2>3, <2>4, <2>5, <2>6, <3>3, <3>4, <3>5
  <2>7. CASE ~(i < n)
    BY <2>2, <2>3, <2>4, <2>5, <2>7
  <2> QED
    BY <2>6, <2>7
<1>16. mid \in SUBSET Ones(W) /\ out = v
  BY <1>14, <1>15 DEF Ones
<1> QED
  BY <1>16 DEF mid, out

(* scramble_decrypt_data() undoes scramble_encrypt_data() for every width   *)
(* and every width of the chunks with which they return (the assertions in  *)
(* scramble_subst_perm_enc() and _dec() let a last chunk of fewer bytes     *)
(* abort), every address, nonce and key, with and without the layer, and    *)
(* no bit leaves the width.                                                 *)
THEOREM DataRecovered ==
  ASSUME NEW W \in Nat, NEW c \in Nat \ {0}, NEW data \in SUBSET Ones(W),
         NEW addr, NEW addr_width, NEW nonce, NEW key, NEW repeat, NEW use_sp_layer \in BOOLEAN,
         Returns(W, c, use_sp_layer)
  PROVE  LET enc == scramble_encrypt_data(data, W, c, addr, addr_width, nonce, key, repeat, use_sp_layer)
         IN  /\ enc \in SUBSET Ones(W)
             /\ scramble_decrypt_data(enc, W, c, addr, addr_width, nonce, key, repeat, use_sp_layer) = data
<1> DEFINE ks == scramble_gen_keystream(addr, addr_width, nonce, key, W, kNumPrinceHalfRounds, repeat)
           x == Xor(data, ks)
           full(v, way) == scramble_subst_perm_full_width(v, W, c, way)
           enc == scramble_encrypt_data(data, W, c, addr, addr_width, nonce, key, repeat, use_sp_layer)
           dec == scramble_decrypt_data(enc, W, c, addr, addr_width, nonce, key, repeat, use_sp_layer)
<1>1. ks \in SUBSET Ones(W)
  <2>1. \E v : ks = Field(v, 0, W)
    BY Zenon DEF scramble_gen_keystream
  <2> HIDE DEF ks
  <2> QED
    BY <2>1, FieldIsOnes
<1>2. enc = IF use_sp_layer THEN full(x, TRUE) ELSE x
  BY DEF scramble_encrypt_data, EncryptWith
<1> HIDE DEF enc
<1>3. dec = Xor(IF use_sp_layer THEN full(enc, FALSE) ELSE enc, ks)
  BY DEF scramble_decrypt_data, DecryptWith
<1> HIDE DEF dec, ks
<1>4. x \in SUBSET Ones(W) /\ Xor(x, ks) = data
  <2>1. Xor(x, ks) = data
    BY XorTwice
  <2> QED
    BY <1>1, <2>1 DEF Xor
<1> HIDE DEF x
<1>5. full(x, TRUE) \in SUBSET Ones(W) /\ full(full(x, TRUE), FALSE) = x
  BY <1>4, ChunksUndone
<1> HIDE DEF full
<1>6. enc \in SUBSET Ones(W) /\ dec = data
  BY <1>2, <1>3, <1>4, <1>5
<1> QED
  BY <1>6 DEF enc, dec

(* Both return, with the layer too, for every word of a memory area, which  *)
(* is a whole number of chunks.                                             *)
THEOREM AreaChunksFit == ChunksFit(GetPhysWidth, 39)
<1> DEFINE W == GetPhysWidth
           n == (W + 39 - 1) \div 39
<1>1. Width32 \in Nat \ {0} /\ W = 39 * Width32
  BY Widths, Sizes
<1>2. n = Width32
  BY <1>1
<1> HIDE DEF W, n
<1>3. ASSUME NEW i \in 0..(n - 1)
      PROVE  Min({39, W - 39 * i}) = 39
  <2> DEFINE rest == W - 39 * i
  <2>1. rest \in Int /\ 39 \in Int /\ 39 <= rest
    BY <1>1, <1>2
  <2> HIDE DEF rest
  <2>2. Min({39, rest}) = 39
    BY <2>1, MinOfTwo
  <2> QED
    BY <2>2 DEF rest
<1> QED
  BY <1>3 DEF ChunksFit, W, n

(* Which of the widths that RecoveredBy looks at have such a last chunk.    *)
LEMMA ChunksThatFit ==
  {x \in {33, 39, 78} \X {39, 12, 10} : ~ChunksFit(x[1], x[2])}
    = {<<33, 10>>, <<78, 10>>, <<39, 12>>, <<78, 12>>}
<1> DEFINE bytes(w) == (w + 7) \div 8
           blocks(W, c) == (W + c - 1) \div c
           width(W, c, i) == IF c <= W - c * i THEN c ELSE W - c * i
<1>1. ASSUME NEW W \in {33, 39, 78}, NEW c \in {39, 12, 10}
      PROVE  ChunksFit(W, c) <=> \A i \in 0..(blocks(W, c) - 1) : bytes(width(W, c, i)) = bytes(c)
  <2>1. \A i \in Int : Min({c, W - c * i}) = width(W, c, i)
    <3> TAKE i \in Int
    <3> DEFINE rest == W - c * i
    <3>1. c \in Int /\ rest \in Int
      OBVIOUS
    <3> HIDE DEF rest
    <3>2. Min({c, rest}) = IF c <= rest THEN c ELSE rest
      BY <3>1, MinOfTwo
    <3> QED
      BY <3>2 DEF rest
  <2>2. ChunksFit(W, c) <=> \A i \in 0..(blocks(W, c) - 1) : bytes(Min({c, W - c * i})) = bytes(c)
    BY DEF ChunksFit
  <2>3. \A i \in 0..(blocks(W, c) - 1) : i \in Int
    OBVIOUS
  <2>4. \A i \in 0..(blocks(W, c) - 1) : Min({c, W - c * i}) = width(W, c, i)
    BY <2>1, <2>3, Zenon
  <2> DEFINE I == 0..(blocks(W, c) - 1)
             m(i) == Min({c, W - c * i})
             wd(i) == width(W, c, i)
             by(i) == bytes(i)
  <2>5. ChunksFit(W, c) <=> \A i \in I : by(m(i)) = by(c)
    BY <2>2
  <2>6. \A i \in I : m(i) = wd(i)
    BY <2>4
  <2> HIDE DEF I, m, wd, by
  <2>7. ChunksFit(W, c) <=> \A i \in I : by(wd(i)) = by(c)
    BY <2>5, <2>6
  <2> QED
    BY <2>7 DEF I, wd, by
<1>2. ChunksFit(33, 39) /\ ChunksFit(33, 12) /\ ~ChunksFit(33, 10)
  <2>1. \A i \in 0..(blocks(33, 39) - 1) : bytes(width(33, 39, i)) = bytes(39)
    OBVIOUS
  <2>2. \A i \in 0..(blocks(33, 12) - 1) : bytes(width(33, 12, i)) = bytes(12)
    OBVIOUS
  <2>3. 3 \in 0..(blocks(33, 10) - 1) /\ bytes(width(33, 10, 3)) # bytes(10)
    OBVIOUS
  <2> HIDE DEF bytes, blocks, width
  <2> QED
    BY <1>1, <2>1, <2>2, <2>3
<1>3. ChunksFit(39, 39) /\ ~ChunksFit(39, 12) /\ ChunksFit(39, 10)
  <2>1. \A i \in 0..(blocks(39, 39) - 1) : bytes(width(39, 39, i)) = bytes(39)
    OBVIOUS
  <2>2. \A i \in 0..(blocks(39, 10) - 1) : bytes(width(39, 10, i)) = bytes(10)
    OBVIOUS
  <2>3. 3 \in 0..(blocks(39, 12) - 1) /\ bytes(width(39, 12, 3)) # bytes(12)
    OBVIOUS
  <2> HIDE DEF bytes, blocks, width
  <2> QED
    BY <1>1, <2>1, <2>2, <2>3
<1>4. ChunksFit(78, 39) /\ ~ChunksFit(78, 12) /\ ~ChunksFit(78, 10)
  <2>1. \A i \in 0..(blocks(78, 39) - 1) : bytes(width(78, 39, i)) = bytes(39)
    OBVIOUS
  <2>2. 7 \in 0..(blocks(78, 10) - 1) /\ bytes(width(78, 10, 7)) # bytes(10)
    OBVIOUS
  <2>3. 6 \in 0..(blocks(78, 12) - 1) /\ bytes(width(78, 12, 6)) # bytes(12)
    OBVIOUS
  <2> HIDE DEF bytes, blocks, width
  <2> QED
    BY <1>1, <2>1, <2>2, <2>3
<1> HIDE DEF bytes, blocks, width
<1> DEFINE bad == {<<33, 10>>, <<78, 10>>, <<39, 12>>, <<78, 12>>}
<1>5. ASSUME NEW W \in {33, 39, 78}, NEW c \in {39, 12, 10}
      PROVE  ~ChunksFit(W, c) <=> <<W, c>> \in bad
  BY <1>2, <1>3, <1>4
<1>6. \A x \in {33, 39, 78} \X {39, 12, 10} : ~ChunksFit(x[1], x[2]) <=> x \in bad
  <2> HIDE DEF bad
  <2> QED
    BY <1>5
<1>7. bad \subseteq {33, 39, 78} \X {39, 12, 10}
  OBVIOUS
<1> HIDE DEF bad
<1>8. {x \in {33, 39, 78} \X {39, 12, 10} : ~ChunksFit(x[1], x[2])} = bad
  BY <1>6, <1>7, Zenon
<1> QED
  BY <1>8 DEF bad

(* The address permutation leaves no place of the memory out.               *)
THEOREM AddrOnto ==
  ASSUME NEW width \in Nat, NEW nonce, NEW nonce_width \in Int
  PROVE  {scramble_addr(a, width, nonce, nonce_width) : a \in SUBSET Ones(width)} = SUBSET Ones(width)
<1> DEFINE S == SUBSET Ones(width)
           f == [a \in S |-> scramble_addr(a, width, nonce, nonce_width)]
<1>1. IsFiniteSet(S)
  <2>1. IsFiniteSet(Ones(width))
    BY FS_Interval DEF Ones
  <2> QED
    BY <2>1, FS_SUBSET
<1>2. \A a, b \in S : f[a] \in S /\ (f[a] = f[b] => a = b)
  BY AddrOneToOne
<1>3. f \in [S -> S]
  <2> HIDE DEF S
  <2>1. \A a \in S : scramble_addr(a, width, nonce, nonce_width) \in S
    BY <1>2
  <2> QED
    BY <2>1
<1>4. {scramble_addr(a, width, nonce, nonce_width) : a \in S} = {f[a] : a \in S}
  <2> HIDE DEF S
  <2> QED
    OBVIOUS
<1> HIDE DEF f, S
<1>5. f \in Injection(S, S)
  BY <1>2, <1>3 DEF Injection, IsInjective
<1>6. f \in Surjection(S, S)
  BY <1>1, <1>5, FS_Injection
<1>7. {f[a] : a \in S} = S
  BY <1>3, <1>6 DEF Surjection
<1> QED
  BY <1>4, <1>7 DEF S

(* That is what Permuted asks.                                              *)
LEMMA AllPermuted == Permuted = {TRUE}
<1> DEFINE f(w, n) == {scramble_addr(a, w, Shl(n, 64 - w), 64) : a \in SUBSET Ones(w)} = SUBSET Ones(w)
<1>1. Permuted = {f(w, n) : w \in 1..5, n \in SUBSET Ones(5)}
  BY DEF Permuted
<1>2. ASSUME NEW w \in 1..5, NEW n \in SUBSET Ones(5) PROVE f(w, n) = TRUE
  <2> DEFINE nonce == Shl(n, 64 - w)
             top == 64
             image(x, m, k) == {scramble_addr(a, x, m, k) : a \in SUBSET Ones(x)}
  <2>1. w \in Nat /\ top \in Int
    OBVIOUS
  <2>2. \A x \in Nat : \A m : \A k \in Int : image(x, m, k) = SUBSET Ones(x)
    BY AddrOnto
  <2> HIDE DEF nonce, top, image
  <2>3. image(w, nonce, top) = SUBSET Ones(w)
    BY <2>1, <2>2
  <2> QED
    BY <2>3 DEF nonce, top, image
<1>3. 1 \in 1..5 /\ {} \in SUBSET Ones(5)
  OBVIOUS
<1> HIDE DEF f
<1>4. TRUE \in Permuted
  <2>1. f(1, {}) \in Permuted
    BY <1>1, <1>3
  <2> QED
    BY <1>2, <1>3, <2>1
<1>5. ASSUME NEW x \in Permuted PROVE x = TRUE
  <2>1. PICK w \in 1..5, n \in SUBSET Ones(5) : x = f(w, n)
    BY <1>1
  <2> QED
    BY <1>2, <2>1, Zenon
<1> QED
  BY <1>4, <1>5, Zenon

(* And that is what RecoveredBy asks, for every key and nonce.              *)
LEMMA AllRecovered ==
  ASSUME NEW k \in Keys, NEW n \in Nonces
  PROVE  <<k, n, TRUE>> \in RecoveredBy
<1> DEFINE addr == {0, 2}
           addr_width == 3
           enc(W, c, d, r, u) == scramble_encrypt_data(d, W, c, addr, addr_width, n, k, r, u)
           dec(v, W, c, r, u) == scramble_decrypt_data(v, W, c, addr, addr_width, n, k, r, u)
           Good(W, c, d, r, u) == /\ enc(W, c, d, r, u) \in SUBSET Ones(W)
                                  /\ dec(enc(W, c, d, r, u), W, c, r, u) = d
<1>0. ASSUME NEW r \in BOOLEAN, NEW u \in BOOLEAN, NEW W \in Nat, NEW c \in Nat \ {0}, NEW d \in SUBSET Ones(W),
             Returns(W, c, u)
      PROVE  Good(W, c, d, r, u)
  <2> HIDE DEF addr, addr_width
  <2>1. /\ enc(W, c, d, r, u) \in SUBSET Ones(W)
        /\ scramble_decrypt_data(enc(W, c, d, r, u), W, c, addr, addr_width, n, k, r, u) = d
    BY <1>0, DataRecovered
  <2> QED
    BY <2>1, Zenon
<1>1. Recovers(k, n)
  <2> SUFFICES ASSUME NEW width \in {33, 39, 78}, NEW chunk \in {39, 12, 10}, NEW repeat \in BOOLEAN,
                      NEW use_sp_layer \in BOOLEAN, NEW data \in {Ones(width), {0}},
                      Returns(width, chunk, use_sp_layer)
               PROVE  LET code == scramble_encrypt_data(data, width, chunk, {0, 2}, 3, n, k, repeat, use_sp_layer)
                      IN  /\ code \subseteq Ones(width)
                          /\ scramble_decrypt_data(code, width, chunk, {0, 2}, 3, n, k, repeat, use_sp_layer) = data
    BY Zenon DEF Recovers
  <2>1. width \in Nat /\ chunk \in Nat \ {0} /\ data \in SUBSET Ones(width)
    BY DEF Ones
  <2>2. Good(width, chunk, data, repeat, use_sp_layer)
    <3> HIDE DEF Good
    <3> QED
      BY <1>0, <2>1
  <2> QED
    BY <2>2
<1>2. Recovers(k, n) = TRUE
  BY <1>1 DEF Recovers
<1> DEFINE f(i, j) == <<i, j, Recovers(i, j)>>
<1>3. RecoveredBy = {f(i, j) : i \in Keys, j \in Nonces}
  BY DEF RecoveredBy
<1>4. f(k, n) = <<k, n, TRUE>>
  BY <1>2
<1> HIDE DEF f
<1>5. f(k, n) \in RecoveredBy
  BY <1>3
<1> QED
  BY <1>4, <1>5

(* ScramblingInvertible: whatever the unfilled arrays hold as key and nonce *)
(* of a scrambled area, scramble_addr() permutes the addresses, and         *)
(* scramble_decrypt_data() undoes scramble_encrypt_data().                  *)
THEOREM ScramblingLosesNothing == Spec => []ScramblingInvertible
<1>1. IInv => ScramblingInvertible
  <2> SUFFICES ASSUME TypeInv, kind = "scrambled"
               PROVE  Permuted = {TRUE} /\ <<stack.key, stack.nonce, TRUE>> \in RecoveredBy
    BY AreaChunksFit, ChunksThatFit DEF IInv, ScramblingInvertible
  <2>1. stack.key \in Keys /\ stack.nonce \in Nonces
    BY DEF TypeInv
  <2> QED
    BY <2>1, AllPermuted, AllRecovered
<1> QED
  BY <1>1, MemAreasInductive, PTL

=============================================================================
