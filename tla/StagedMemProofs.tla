-------------------------- MODULE StagedMemProofs --------------------------
(***************************************************************************)
(* What the operations of RangedMap and StagedMem return, for every map,   *)
(* range and segment: the facts that the proofs of the components rest on. *)
(* With them, that Staging implements writing bytes over bytes.            *)
(***************************************************************************)
EXTENDS Staging, FiniteSetTheorems, SequenceTheorems, WellFoundedInduction, TLAPS

-----------------------------------------------------------------------------
(* Arithmetic modulo the size of the address space.                         *)
LEMMA WrapSmall ==
  ASSUME NEW a \in 0..(AddrSpace - 1)
  PROVE  Wrap(a) = a
BY AddrSpaceAssumption, SMTT(30) DEF Wrap

LEMMA WrapOnce ==
  ASSUME NEW a \in AddrSpace..(2 * AddrSpace - 1)
  PROVE  Wrap(a) = a - AddrSpace
BY AddrSpaceAssumption, SMTT(30) DEF Wrap

(* A nonempty set of natural numbers has a least element.                   *)
LEMMA LeastElement ==
  ASSUME NEW S \in SUBSET Nat, S # {}
  PROVE  \E n \in S : \A m \in S : n <= m
<1> DEFINE R == OpToRel(<, Nat)
<1>1. PICK n \in S : \A m \in S : <<m, n>> \notin R
  BY NatLessThanWellFounded, WFMin
<1>2. \A m \in S : m < n => <<m, n>> \in R
  BY DEF OpToRel
<1> HIDE DEF R
<1>3. \A m \in S : ~(m < n)
  BY <1>1, <1>2
<1> QED
  BY <1>3

(* Induction, for a set of natural numbers.                                 *)
LEMMA SetInduction ==
  ASSUME NEW S \in SUBSET Nat, 0 \in S, \A n \in S : n + 1 \in S
  PROVE  \A n \in Nat : n \in S
<1> SUFFICES ASSUME Nat \ S # {} PROVE FALSE
  OBVIOUS
<1>1. PICK n \in Nat \ S : \A m \in Nat \ S : n <= m
  BY LeastElement
<1>2. n - 1 \in Nat /\ n - 1 \notin Nat \ S
  BY <1>1
<1>3. n - 1 + 1 = n
  BY <1>1
<1> QED
  BY <1>1, <1>2, <1>3

-----------------------------------------------------------------------------
(* The ranged map as the registry keeps it: no two ranges share an address. *)
DisjointRanges(map) ==
  /\ \A e \in map : e.lo \in Nat /\ e.hi \in Nat /\ e.lo <= e.hi
  /\ \A e, f \in map : e = f \/ e.hi < f.lo \/ f.hi < e.lo

(* The entry that upper_bound() points to has the lowest start.             *)
LEMMA LowestIsLowest ==
  ASSUME NEW es, es # {}, \A e \in es : e.lo \in Nat
  PROVE  /\ Lowest(es) \in es
         /\ \A f \in es : Lowest(es).lo <= f.lo
<1> DEFINE S == {e.lo : e \in es}
<1>1. S \in SUBSET Nat /\ S # {}
  OBVIOUS
<1>2. PICK n \in S : \A m \in S : n <= m
  BY <1>1, LeastElement
<1>3. \E e \in es : \A f \in es : e.lo <= f.lo
  BY <1>2
<1> QED
  BY <1>3 DEF Lowest

(* The entry before it has the highest start, of those at or below bound.   *)
LEMMA HighestIsHighest ==
  ASSUME NEW es, es # {}, NEW bound \in Nat,
         \A e \in es : e.lo \in Nat /\ e.lo <= bound
  PROVE  /\ Highest(es) \in es
         /\ \A f \in es : f.lo <= Highest(es).lo
<1> DEFINE S == {bound - e.lo : e \in es}
<1>1. S \in SUBSET Nat /\ S # {}
  OBVIOUS
<1>2. PICK n \in S : \A m \in S : n <= m
  BY <1>1, LeastElement
<1>3. PICK e \in es : n = bound - e.lo
  BY <1>2
<1>4. \A f \in es : f.lo <= e.lo
  <2> TAKE f \in es
  <2>1. bound - e.lo <= bound - f.lo
    BY <1>2, <1>3
  <2> QED
    BY <2>1
<1>5. \E g \in es : \A f \in es : f.lo <= g.lo
  BY <1>4
<1> QED
  BY <1>5 DEF Highest

(* EmplaceDisjoint() looks at two neighbours, and finds a range in its way  *)
(* exactly when there is one anywhere in the map.                           *)
THEOREM ClashExact ==
  ASSUME NEW map, DisjointRanges(map),
         NEW lo \in Nat, NEW hi \in Nat, lo <= hi
  PROVE  Clash(map, lo, hi) = {} <=> \A e \in map : e.hi < lo \/ hi < e.lo
<1> DEFINE right == UpperBound(map, lo)
           left  == map \ right
<1>1. \A e \in right : e \in map /\ e.lo > lo
  BY DEF UpperBound
<1>2. \A e \in left : e \in map /\ e.lo <= lo
  BY DEF UpperBound, DisjointRanges
<1>3. right # {} => /\ Lowest(right) \in right
                    /\ \A f \in right : Lowest(right).lo <= f.lo
  BY <1>1, LowestIsLowest DEF DisjointRanges
<1>4. left # {} => /\ Highest(left) \in left
                   /\ \A f \in left : f.lo <= Highest(left).lo
  BY <1>2, HighestIsHighest DEF DisjointRanges
<1>5. Clash(map, lo, hi) = {} <=> /\ right # {} => ~(Lowest(right).lo <= hi)
                                  /\ left # {} => ~(lo <= Highest(left).hi)
  BY DEF Clash
<1> HIDE DEF right, left
<1>6. (\A e \in right : hi < e.lo) <=> (right # {} => ~(Lowest(right).lo <= hi))
  BY <1>1, <1>3 DEF DisjointRanges
<1>7. (\A e \in left : e.hi < lo) <=> (left # {} => ~(lo <= Highest(left).hi))
  BY <1>2, <1>4 DEF DisjointRanges
<1>8. map = left \cup right
  BY <1>1 DEF left
<1>9. (\A e \in map : e.hi < lo \/ hi < e.lo)
        <=> (\A e \in right : hi < e.lo) /\ (\A e \in left : e.hi < lo)
  BY <1>1, <1>2, <1>8 DEF DisjointRanges
<1> QED
  BY <1>5, <1>6, <1>7, <1>9

(* find() returns the range that contains the address, if there is one.     *)
LEMMA FindIsContaining ==
  ASSUME NEW map, DisjointRanges(map), NEW addr \in Nat
  PROVE  Find(map, addr) = {e \in map : e.lo <= addr /\ addr <= e.hi}
<1> DEFINE left == map \ UpperBound(map, addr)
<1>1. \A e \in map : e \in left <=> e.lo <= addr
  BY DEF UpperBound, DisjointRanges
<1>2. left \subseteq map
  OBVIOUS
<1>3. left # {} => /\ Highest(left) \in left
                   /\ \A f \in left : f.lo <= Highest(left).lo
  BY <1>1, <1>2, HighestIsHighest DEF DisjointRanges
<1>4. Find(map, addr) = IF left # {} /\ addr <= Highest(left).hi
                        THEN {Highest(left)} ELSE {}
  BY DEF Find
<1> HIDE DEF left
<1>5. \A e \in left : addr <= e.hi => e = Highest(left)
  BY <1>1, <1>2, <1>3 DEF DisjointRanges
<1> QED
  BY <1>1, <1>2, <1>3, <1>4, <1>5

-----------------------------------------------------------------------------
(* A range with as many bytes as it has addresses, and its byte at a.       *)
IsSeg(e, V) ==
  /\ e.lo \in Nat /\ e.hi \in Nat /\ e.lo <= e.hi
  /\ e.val \in [1..(1 + (e.hi - e.lo)) -> V]

At(e, a) == e.val[a - e.lo + 1]

Overlap(e, f) == e.lo <= f.hi /\ f.lo <= e.hi

LEMMA SegLen ==
  ASSUME NEW V, NEW e, IsSeg(e, V)
  PROVE  /\ e.val \in Seq(V)
         /\ Len(e.val) = 1 + (e.hi - e.lo)
         /\ DOMAIN e.val = 1..(1 + (e.hi - e.lo))
<1>1. 1 + (e.hi - e.lo) \in Nat
  BY DEF IsSeg
<1> QED
  BY <1>1 DEF IsSeg

(* The last n bytes of a sequence.                                          *)
LEMMA SuffixOf ==
  ASSUME NEW V, NEW s \in Seq(V), NEW off \in Nat, NEW n \in Nat, off + n = Len(s)
  PROVE  /\ SubSeq(s, off + 1, off + n) \in Seq(V)
         /\ Len(SubSeq(s, off + 1, off + n)) = n
         /\ \A i \in 1..n : SubSeq(s, off + 1, off + n)[i] = s[off + i]
<1> DEFINE p == off + 1
           q == off + n
           t == SubSeq(s, p, q)
<1>1. /\ p \in Int /\ q \in Int /\ q - p + 1 = n /\ (p <= q <=> n # 0)
      /\ \A i \in 1..n : p + i - 1 = off + i
  OBVIOUS
<1>2. \A i \in p..q : s[i] \in V
  OBVIOUS
<1> HIDE DEF p, q
<1>3. /\ t \in Seq(V) /\ Len(t) = IF p <= q THEN q - p + 1 ELSE 0
      /\ \A i \in 1..(q - p + 1) : t[i] = s[p + i - 1]
  BY <1>1, <1>2, SubSeqProperties
<1> HIDE DEF t
<1>4. t \in Seq(V) /\ Len(t) = n /\ \A i \in 1..n : t[i] = s[off + i]
  BY <1>1, <1>3
<1> QED
  BY <1>4 DEF t, p, q

(* m has the bytes of the newer acc where it has any, and those of the      *)
(* older e elsewhere.                                                       *)
IsMerge(m, acc, e, V) ==
  /\ IsSeg(m, V)
  /\ m.lo = IF e.lo < acc.lo THEN e.lo ELSE acc.lo
  /\ m.hi = IF e.hi > acc.hi THEN e.hi ELSE acc.hi
  /\ \A a \in m.lo..m.hi :
       At(m, a) = IF a \in acc.lo..acc.hi THEN At(acc, a) ELSE At(e, a)

(* That is what all three cases of MergeSegments() return.                  *)
LEMMA MergeExact ==
  ASSUME NEW V, NEW acc, NEW e, IsSeg(acc, V), IsSeg(e, V), Overlap(acc, e)
  PROVE  IsMerge(Merge(acc, e), acc, e, V)
<1> DEFINE m   == Merge(acc, e)
           lo  == IF e.lo < acc.lo THEN e.lo ELSE acc.lo
           hi  == IF e.hi > acc.hi THEN e.hi ELSE acc.hi
           len == 1 + (hi - lo)
           bytes == [i \in 1..len |-> IF lo + i - 1 \in acc.lo..acc.hi
                                      THEN acc.val[lo + i - acc.lo] ELSE e.val[lo + i - e.lo]]
<1>1. m.lo = lo /\ m.hi = hi /\ m.val = MergeSegments(e, acc)
  BY DEF Merge, Entry
<1>2. /\ acc.lo \in Nat /\ acc.hi \in Nat /\ acc.lo <= acc.hi
      /\ e.lo \in Nat /\ e.hi \in Nat /\ e.lo <= e.hi
      /\ acc.lo <= e.hi /\ e.lo <= acc.hi
  BY DEF IsSeg, Overlap
<1>3. /\ acc.val \in Seq(V) /\ Len(acc.val) = 1 + (acc.hi - acc.lo)
      /\ DOMAIN acc.val = 1..(1 + (acc.hi - acc.lo))
      /\ e.val \in Seq(V) /\ Len(e.val) = 1 + (e.hi - e.lo)
  BY SegLen
<1>4. /\ lo \in Nat /\ hi \in Nat /\ lo <= hi /\ len \in Nat
      /\ acc.lo <= e.lo => lo = acc.lo
      /\ ~(acc.lo <= e.lo) => lo = e.lo
      /\ e.hi <= acc.hi => hi = acc.hi
      /\ ~(e.hi <= acc.hi) => hi = e.hi
      /\ lo <= acc.lo /\ lo <= e.lo /\ acc.hi <= hi /\ e.hi <= hi
  BY <1>2
<1> HIDE DEF lo, hi
<1>5. bytes \in [1..len -> V]
  <2> SUFFICES ASSUME NEW i \in 1..len
               PROVE  (IF lo + i - 1 \in acc.lo..acc.hi
                       THEN acc.val[lo + i - acc.lo] ELSE e.val[lo + i - e.lo]) \in V
    OBVIOUS
  <2>1. CASE lo + i - 1 \in acc.lo..acc.hi
    <3>1. lo + i - acc.lo \in 1..(1 + (acc.hi - acc.lo))
      BY <1>2, <1>4, <2>1
    <3> QED
      BY <2>1, <3>1 DEF IsSeg
  <2>2. CASE lo + i - 1 \notin acc.lo..acc.hi
    <3>1. lo + i - e.lo \in 1..(1 + (e.hi - e.lo))
      BY <1>2, <1>4, <2>2
    <3> QED
      BY <2>2, <3>1 DEF IsSeg
  <2> QED
    BY <2>1, <2>2
<1>6. MergeSegments(e, acc) = bytes
  <2>1. CASE acc.lo <= e.lo /\ e.hi <= acc.hi
    <3>1. MergeSegments(e, acc) = acc.val
      BY <2>1 DEF MergeSegments
    <3>2. lo = acc.lo /\ hi = acc.hi
      BY <1>4, <2>1
    <3>3. \A i \in 1..len : lo + i - 1 \in acc.lo..acc.hi /\ lo + i - acc.lo = i
      BY <1>2, <3>2
    <3> QED
      BY <3>1, <3>2, <3>3 DEF IsSeg
  <2>2. CASE acc.lo <= e.lo /\ ~(e.hi <= acc.hi)
    <3> DEFINE off == 1 + (acc.hi - e.lo)
               tail == SubSeq(e.val, off + 1, off + (e.hi - acc.hi))
    <3>1. MergeSegments(e, acc) = acc.val \o tail
      BY <2>2 DEF MergeSegments
    <3>2. lo = acc.lo /\ hi = e.hi
      BY <1>4, <2>2
    <3>3. off \in Nat /\ off + (e.hi - acc.hi) = Len(e.val) /\ e.hi - acc.hi \in Nat
      BY <1>2, <1>3, <2>2
    <3>4. /\ tail \in Seq(V) /\ Len(tail) = e.hi - acc.hi
          /\ \A i \in 1..(e.hi - acc.hi) : tail[i] = e.val[off + i]
      <4> HIDE DEF off
      <4> QED
        BY <1>3, <3>3, SuffixOf
    <3> HIDE DEF tail
    <3>5. /\ acc.val \o tail \in Seq(V)
          /\ Len(acc.val \o tail) = len
          /\ \A i \in 1..len : (acc.val \o tail)[i] =
               IF i <= Len(acc.val) THEN acc.val[i] ELSE tail[i - Len(acc.val)]
      <4>1. /\ acc.val \o tail \in Seq(V)
            /\ Len(acc.val \o tail) = Len(acc.val) + Len(tail)
            /\ \A i \in 1..(Len(acc.val) + Len(tail)) : (acc.val \o tail)[i] =
                 IF i <= Len(acc.val) THEN acc.val[i] ELSE tail[i - Len(acc.val)]
        BY <1>3, <3>4, ConcatProperties
      <4>2. Len(acc.val) + Len(tail) = len
        <5>1. 1 + (acc.hi - acc.lo) + (e.hi - acc.hi) = 1 + (hi - lo)
          BY <1>2, <3>2
        <5> QED
          BY <1>3, <3>4, <5>1
      <4> HIDE DEF len
      <4> QED
        BY <4>1, <4>2
    <3>6. ASSUME NEW i \in 1..len
          PROVE  (acc.val \o tail)[i] = bytes[i]
      <4>1. CASE i <= Len(acc.val)
        <5>1. (acc.val \o tail)[i] = acc.val[i]
          BY <3>5, <4>1
        <5>2. lo + i - 1 \in acc.lo..acc.hi /\ lo + i - acc.lo = i
          <6>1. i \in Nat /\ i >= 1 /\ i <= 1 + (acc.hi - acc.lo) /\ lo = acc.lo
            BY <1>3, <1>4, <3>2, <4>1
          <6> QED
            BY <1>2, <6>1
        <5> QED
          BY <5>1, <5>2
      <4>2. CASE ~(i <= Len(acc.val))
        <5>1. (acc.val \o tail)[i] = tail[i - Len(acc.val)]
          BY <3>5, <4>2
        <5>2. lo + i - 1 \notin acc.lo..acc.hi /\ i - Len(acc.val) \in 1..(e.hi - acc.hi)
          <6>1. i \in Nat /\ i <= 1 + (e.hi - lo) /\ ~(i <= 1 + (acc.hi - acc.lo))
            BY <1>3, <1>4, <3>2, <4>2
          <6>2. lo + i - 1 \notin acc.lo..acc.hi /\ i - (1 + (acc.hi - acc.lo)) \in 1..(e.hi - acc.hi)
            BY <1>2, <3>2, <6>1
          <6> QED
            BY <1>3, <6>2
        <5>3. off + (i - Len(acc.val)) = lo + i - e.lo
          <6>1. i \in Nat /\ Len(acc.val) = 1 + (acc.hi - acc.lo) /\ lo = acc.lo
            BY <1>3, <1>4, <3>2
          <6> QED
            BY <1>2, <6>1
        <5> QED
          BY <3>4, <5>1, <5>2, <5>3
      <4> QED
        BY <4>1, <4>2
    <3> HIDE DEF bytes, len
    <3> DEFINE cat == acc.val \o tail
    <3>7. cat \in Seq(V) /\ Len(cat) = len /\ (\A i \in 1..len : cat[i] = bytes[i])
      BY <3>5, <3>6
    <3>8. MergeSegments(e, acc) = cat
      BY <3>1
    <3> HIDE DEF cat
    <3>9. cat \in [1..len -> V]
      BY <1>4, <3>7
    <3> QED
      BY <1>5, <3>7, <3>8, <3>9
  <2>3. CASE ~(acc.lo <= e.lo)
    <3>1. MergeSegments(e, acc) = CopyTo(Resize(e.val, 1 + (hi - e.lo)), acc.lo - e.lo, acc.val)
      <4>1. (IF acc.hi > e.hi THEN acc.hi ELSE e.hi) = hi
        BY <1>2, <1>4
      <4> QED
        BY <2>3, <4>1 DEF MergeSegments
    <3>2. lo = e.lo
      BY <1>4, <2>3
    <3>3. MergeSegments(e, acc) =
            [i \in 1..len |-> IF i - (acc.lo - e.lo) \in DOMAIN acc.val
                              THEN acc.val[i - (acc.lo - e.lo)]
                              ELSE IF i <= Len(e.val) THEN e.val[i] ELSE Zero]
      BY <3>1, <3>2 DEF CopyTo, Resize
    <3>4. ASSUME NEW i \in 1..len
          PROVE  /\ i - (acc.lo - e.lo) \in DOMAIN acc.val <=> lo + i - 1 \in acc.lo..acc.hi
                 /\ i - (acc.lo - e.lo) = lo + i - acc.lo
                 /\ lo + i - 1 \notin acc.lo..acc.hi => i <= Len(e.val)
                 /\ i = lo + i - e.lo
      <4>1. i \in Nat /\ lo + i - 1 \in lo..hi
        BY <1>4
      <4>2. /\ i - (acc.lo - e.lo) = lo + i - acc.lo
            /\ i = lo + i - e.lo
        BY <1>2, <3>2, <4>1
      <4>3. lo + i - acc.lo \in 1..(1 + (acc.hi - acc.lo)) <=> lo + i - 1 \in acc.lo..acc.hi
        BY <1>2, <1>4, <4>1
      <4>4. lo + i - 1 \notin acc.lo..acc.hi => i <= 1 + (e.hi - e.lo)
        BY <1>2, <1>4, <3>2, <4>1
      <4> QED
        BY <1>3, <4>2, <4>3, <4>4
    <3> QED
      BY <3>3, <3>4
  <2> QED
    BY <2>1, <2>2, <2>3
<1>7. \A a \in lo..hi : bytes[a - lo + 1] = IF a \in acc.lo..acc.hi THEN At(acc, a) ELSE At(e, a)
  <2> TAKE a \in lo..hi
  <2>1. a - lo + 1 \in 1..len
    BY <1>4
  <2>2. lo + (a - lo + 1) - 1 = a /\ lo + (a - lo + 1) - acc.lo = a - acc.lo + 1
        /\ lo + (a - lo + 1) - e.lo = a - e.lo + 1
    BY <1>2, <1>4
  <2> QED
    BY <2>1, <2>2 DEF At
<1> HIDE DEF m, bytes
<1>8. IsSeg(m, V)
  BY <1>1, <1>4, <1>5, <1>6 DEF IsSeg
<1>9. \A a \in m.lo..m.hi :
         At(m, a) = IF a \in acc.lo..acc.hi THEN At(acc, a) ELSE At(e, a)
  BY <1>1, <1>6, <1>7 DEF At
<1> QED
  BY <1>1, <1>8, <1>9 DEF IsMerge, m, lo, hi
-----------------------------------------------------------------------------
(* Emplace() walks both ways from upper_bound() and stops at the first      *)
(* range that it does not touch: it has found all that overlap.             *)
LEMMA HitsExact ==
  ASSUME NEW map, DisjointRanges(map),
         NEW lo \in Nat, NEW hi \in Nat, lo <= hi
  PROVE  Hits(map, lo, hi) = {e \in map : e.lo <= hi /\ lo <= e.hi}
<1> DEFINE right == UpperBound(map, lo)
           left  == map \ right
<1>1. \A e \in map : (e \in right <=> e.lo > lo) /\ (e \in left <=> e.lo <= lo)
  BY DEF UpperBound, DisjointRanges
<1>2. right \subseteq map /\ left \subseteq map
  BY DEF UpperBound
<1>3. Hits(map, lo, hi) = {e \in right : e.lo <= hi}
        \cup {e \in left : \A f \in left : e.lo <= f.lo => lo <= f.hi}
  BY DEF Hits
<1> HIDE DEF right, left
<1>4. \A e \in right : e.lo <= hi => lo <= e.hi
  BY <1>1, <1>2 DEF DisjointRanges
<1>5. \A e \in left : (\A f \in left : e.lo <= f.lo => lo <= f.hi) <=> lo <= e.hi
  BY <1>1, <1>2 DEF DisjointRanges
<1>6. \A e \in left : e.lo <= hi
  BY <1>1, <1>2 DEF DisjointRanges
<1> QED
  BY <1>1, <1>2, <1>3, <1>4, <1>5, <1>6 DEF DisjointRanges

(* One round of the loop, and the loop as the recursion that it is.         *)
MergeRound(m) ==
  LET e == Lowest(m.rest) IN [acc |-> Merge(m.acc, e), rest |-> m.rest \ {e}]

LEMMA MergeLoopRounds ==
  ASSUME NEW hits, IsFiniteSet(hits), NEW new
  PROVE  LET loop == MergeLoop(hits, new) IN
         /\ loop[0] = [acc |-> new, rest |-> hits]
         /\ \A n \in 1..Cardinality(hits) : loop[n] = MergeRound(loop[n - 1])
<1> DEFINE first == [acc |-> new, rest |-> hits]
           Is(g, k) == g = [n \in 0..k |-> IF n = 0 THEN first ELSE MergeRound(g[n - 1])]
           S == {k \in Nat : \E g : Is(g, k)}
<1>1. 0 \in S
  <2> DEFINE g == [n \in 0..0 |-> first]
  <2>1. Is(g, 0)
    OBVIOUS
  <2> QED
    BY <2>1
<1>2. ASSUME NEW k \in S
      PROVE  k + 1 \in S
  <2>1. PICK g : Is(g, k)
    OBVIOUS
  <2> DEFINE h == [n \in 0..(k + 1) |-> IF n = k + 1 THEN MergeRound(g[k]) ELSE g[n]]
  <2>2. \A n \in 0..k : h[n] = g[n]
    OBVIOUS
  <2>3. \A n \in 0..(k + 1) : h[n] = IF n = 0 THEN first ELSE MergeRound(h[n - 1])
    <3> TAKE n \in 0..(k + 1)
    <3>1. CASE n = k + 1
      BY <2>2, <3>1
    <3>2. CASE n # k + 1 /\ n # 0
      <4>1. n \in 0..k /\ n - 1 \in 0..k
        BY <3>2
      <4> QED
        BY <2>1, <2>2, <3>2, <4>1
    <3>3. CASE n = 0
      BY <2>1, <2>2, <3>3
    <3> QED
      BY <3>1, <3>2, <3>3
  <2>4. Is(h, k + 1)
    BY <2>3
  <2> HIDE DEF h
  <2> QED
    BY <2>4
<1>3. \A k \in Nat : \E g : Is(g, k)
  <2> HIDE DEF Is
  <2>1. \A k \in Nat : k \in S
    BY <1>1, <1>2, SetInduction
  <2> QED
    BY <2>1
<1> DEFINE N == Cardinality(hits)
<1>4. N \in Nat
  BY FS_CardinalityType
<1>5. MergeLoop(hits, new) = CHOOSE g : Is(g, N)
  BY Zenon DEF MergeLoop, MergeRound
<1>6. Is(MergeLoop(hits, new), N)
  <2> HIDE DEF Is, N
  <2> QED
    BY <1>3, <1>4, <1>5
<1> HIDE DEF N
<1> QED
  BY <1>4, <1>6 DEF N

(* What is accumulated when the ranges in done have been merged into new:   *)
(* all of their addresses and no others, with the bytes of new where it has *)
(* any, starting where one of them starts.                                  *)
Accumulated(acc, new, done, V) ==
  /\ IsSeg(acc, V)
  /\ acc.lo = new.lo \/ \E e \in done : acc.lo = e.lo
  /\ acc.lo <= new.lo /\ new.hi <= acc.hi
  /\ \A e \in done : acc.lo <= e.lo /\ e.hi <= acc.hi
  /\ \A a \in new.lo..new.hi : At(acc, a) = At(new, a)
  /\ \A a \in acc.lo..acc.hi : a \notin new.lo..new.hi =>
       \E e \in done : a \in e.lo..e.hi /\ At(acc, a) = At(e, a)

LEMMA MergeOneMore ==
  ASSUME NEW V, NEW acc, NEW new, IsSeg(new, V), NEW done, NEW e,
         Accumulated(acc, new, done, V),
         IsSeg(e, V), Overlap(new, e),
         \A f \in done : IsSeg(f, V) /\ (f.hi < e.lo \/ e.hi < f.lo)
  PROVE  Accumulated(Merge(acc, e), new, done \cup {e}, V)
<1> DEFINE m == Merge(acc, e)
<1>1. /\ acc.lo \in Nat /\ acc.hi \in Nat /\ e.lo \in Nat /\ e.hi \in Nat
      /\ new.lo \in Nat /\ new.hi \in Nat /\ new.lo <= new.hi /\ e.lo <= e.hi
      /\ acc.lo <= new.lo /\ new.hi <= acc.hi
  BY DEF Accumulated, IsSeg
<1>2. IsSeg(acc, V) /\ Overlap(acc, e)
  BY <1>1 DEF Accumulated, Overlap
<1>3. /\ IsSeg(m, V)
      /\ m.lo = IF e.lo < acc.lo THEN e.lo ELSE acc.lo
      /\ m.hi = IF e.hi > acc.hi THEN e.hi ELSE acc.hi
      /\ \A a \in m.lo..m.hi :
           At(m, a) = IF a \in acc.lo..acc.hi THEN At(acc, a) ELSE At(e, a)
  <2>1. IsMerge(m, acc, e, V)
    BY <1>2, MergeExact
  <2> HIDE DEF m
  <2> QED
    BY <2>1 DEF IsMerge
<1> HIDE DEF m
<1>4. m.lo \in Nat /\ m.hi \in Nat /\ m.lo <= acc.lo /\ acc.hi <= m.hi /\ m.lo <= e.lo /\ e.hi <= m.hi
  BY <1>1, <1>3
<1>5. m.lo <= new.lo /\ new.hi <= m.hi
  BY <1>1, <1>4
<1>6. \A f \in done \cup {e} : m.lo <= f.lo /\ f.hi <= m.hi
  <2>1. ASSUME NEW f \in done PROVE m.lo <= f.lo /\ f.hi <= m.hi
    <3>1. acc.lo <= f.lo /\ f.hi <= acc.hi
      BY DEF Accumulated
    <3>2. f.lo \in Nat /\ f.hi \in Nat
      BY DEF IsSeg
    <3> QED
      BY <1>1, <1>4, <3>1, <3>2
  <2> QED
    BY <1>4, <2>1
<1>7. \A a \in new.lo..new.hi : At(m, a) = At(new, a)
  <2> TAKE a \in new.lo..new.hi
  <2>1. a \in m.lo..m.hi /\ a \in acc.lo..acc.hi
    BY <1>1, <1>4
  <2> QED
    BY <1>3, <2>1 DEF Accumulated
<1>8. ASSUME NEW a \in m.lo..m.hi, a \notin new.lo..new.hi
      PROVE  \E f \in done \cup {e} : a \in f.lo..f.hi /\ At(m, a) = At(f, a)
  <2>1. CASE a \in acc.lo..acc.hi
    <3>1. PICK f \in done : a \in f.lo..f.hi /\ At(acc, a) = At(f, a)
      BY <1>8, <2>1 DEF Accumulated
    <3> QED
      BY <1>3, <2>1, <3>1
  <2>2. CASE a \notin acc.lo..acc.hi
    <3>1. a \in e.lo..e.hi
      BY <1>1, <1>2, <1>3, <2>2 DEF Overlap
    <3> QED
      BY <1>3, <2>2, <3>1
  <2> QED
    BY <2>1, <2>2
<1>9. m.lo = new.lo \/ \E f \in done \cup {e} : m.lo = f.lo
  BY <1>3 DEF Accumulated
<1> QED
  BY <1>3, <1>5, <1>6, <1>7, <1>8, <1>9 DEF Accumulated, m

(* The map of a StagedMem.                                                  *)
IsSegs(map, V) ==
  /\ IsFiniteSet(map)
  /\ \A e \in map : IsSeg(e, V)
  /\ \A e, f \in map : e = f \/ e.hi < f.lo \/ f.hi < e.lo

LEMMA SegsDisjoint ==
  ASSUME NEW V, NEW map, IsSegs(map, V)
  PROVE  DisjointRanges(map)
BY DEF IsSegs, IsSeg, DisjointRanges

(* The loop ends with everything merged, in whatever order.                 *)
LEMMA MergeLoopExact ==
  ASSUME NEW V, NEW hits, IsSegs(hits, V), NEW new, IsSeg(new, V),
         \A e \in hits : Overlap(new, e)
  PROVE  Accumulated(MergeLoop(hits, new)[Cardinality(hits)].acc, new, hits, V)
<1> DEFINE loop == MergeLoop(hits, new)
           N == Cardinality(hits)
           P(n) == /\ loop[n].rest \subseteq hits
                   /\ Cardinality(loop[n].rest) = N - n
                   /\ Accumulated(loop[n].acc, new, hits \ loop[n].rest, V)
           S == {n \in Nat : n <= N => P(n)}
<1>1. N \in Nat /\ IsFiniteSet(hits)
  BY FS_CardinalityType DEF IsSegs
<1>2. /\ loop[0] = [acc |-> new, rest |-> hits]
      /\ \A n \in 1..N : loop[n] = MergeRound(loop[n - 1])
  BY <1>1, MergeLoopRounds
<1> HIDE DEF loop, N
<1>3. P(0)
  <2>1. Accumulated(new, new, {}, V)
    BY DEF Accumulated, IsSeg
  <2>2. hits \ hits = {}
    OBVIOUS
  <2> QED
    BY <1>1, <1>2, <2>1, <2>2 DEF N
<1>4. ASSUME NEW n \in Nat, n + 1 <= N, P(n)
      PROVE  P(n + 1)
  <2> DEFINE rest == loop[n].rest
             acc == loop[n].acc
             e == Lowest(rest)
  <2>1. rest \subseteq hits /\ Cardinality(rest) = N - n /\ IsFiniteSet(rest)
    BY <1>1, <1>4, FS_Subset
  <2>2. rest # {}
    BY <1>1, <1>4, <2>1, FS_EmptySet
  <2>3. e \in rest
    BY <2>1, <2>2, LowestIsLowest DEF IsSegs, IsSeg
  <2>4. loop[n + 1] = [acc |-> Merge(acc, e), rest |-> rest \ {e}]
    <3>1. n + 1 \in 1..N /\ n + 1 - 1 = n
      BY <1>1, <1>4
    <3>2. loop[n + 1] = MergeRound(loop[n])
      BY <1>2, <3>1
    <3> QED
      BY <3>2 DEF MergeRound
  <2> HIDE DEF rest, acc, e
  <2>5. Cardinality(rest \ {e}) = N - (n + 1)
    BY <1>1, <2>1, <2>3, FS_RemoveElement
  <2>6. Accumulated(Merge(acc, e), new, (hits \ rest) \cup {e}, V)
    <3>1. Accumulated(acc, new, hits \ rest, V)
      BY <1>4 DEF acc, rest
    <3>2. \A f \in hits \ rest : IsSeg(f, V) /\ (f.hi < e.lo \/ e.hi < f.lo)
      BY <2>1, <2>3 DEF IsSegs
    <3>3. IsSeg(e, V) /\ Overlap(new, e)
      BY <2>1, <2>3 DEF IsSegs
    <3> QED
      BY <3>1, <3>2, <3>3, MergeOneMore
  <2>7. hits \ (rest \ {e}) = (hits \ rest) \cup {e}
    BY <2>1, <2>3
  <2>8. loop[n + 1].acc = Merge(acc, e) /\ loop[n + 1].rest = rest \ {e}
    BY <2>4
  <2>9. rest \ {e} \subseteq hits
    BY <2>1
  <2> QED
    BY <2>5, <2>6, <2>7, <2>8, <2>9, Zenon
<1>5. \A n \in Nat : n \in S
  <2> HIDE DEF P
  <2>1. 0 \in S
    BY <1>3
  <2>2. \A n \in S : n + 1 \in S
    BY <1>1, <1>4
  <2> QED
    BY <2>1, <2>2, SetInduction
<1>6. P(N)
  <2> HIDE DEF P
  <2>1. N \in S /\ N <= N
    BY <1>1, <1>5
  <2> QED
    BY <2>1
<1>7. loop[N].rest = {}
  <2>1. IsFiniteSet(loop[N].rest)
    BY <1>1, <1>6, FS_Subset
  <2> QED
    BY <1>1, <1>6, <2>1, FS_EmptySet
<1>8. hits \ {} = hits
  OBVIOUS
<1> QED
  BY <1>6, <1>7, <1>8 DEF loop, N

(* res is map with the bytes of new written over it.                        *)
IsWrite(res, map, new, V) ==
  /\ IsSegs(res, V)
  /\ \A e \in map : \A a \in e.lo..e.hi : \E f \in res : a \in f.lo..f.hi
  /\ \E f \in res : f.lo <= new.lo /\ new.hi <= f.hi
  /\ \A f \in res : f.lo = new.lo \/ \E e \in map : f.lo = e.lo
  /\ \A f \in res : \A a \in f.lo..f.hi :
       IF a \in new.lo..new.hi THEN At(f, a) = At(new, a)
       ELSE \E e \in map : a \in e.lo..e.hi /\ At(f, a) = At(e, a)

(* Emplace() writes the new bytes over the old ones: the ranges stay        *)
(* disjoint, no byte is lost and none is moved.                             *)
LEMMA EmplaceExact ==
  ASSUME NEW V, NEW map, IsSegs(map, V), NEW lo, NEW hi, NEW val,
         IsSeg(Entry(lo, hi, val), V)
  PROVE  IsWrite(Emplace(map, lo, hi, val), map, Entry(lo, hi, val), V)
<1> DEFINE new  == Entry(lo, hi, val)
           hits == Hits(map, lo, hi)
           acc  == MergeLoop(hits, new)[Cardinality(hits)].acc
           res  == (map \ hits) \cup {acc}
<1>1. /\ new.lo = lo /\ new.hi = hi
      /\ lo \in Nat /\ hi \in Nat /\ lo <= hi
  BY DEF IsSeg, Entry
<1>2. hits = {e \in map : e.lo <= hi /\ lo <= e.hi}
  BY <1>1, SegsDisjoint, HitsExact
<1>3. IsSegs(hits, V)
  BY <1>2, FS_Subset DEF IsSegs
<1>4. \A e \in hits : Overlap(new, e)
  BY <1>1, <1>2 DEF Overlap
<1>5. Accumulated(acc, new, hits, V)
  BY <1>3, <1>4, MergeLoopExact
<1>6. Emplace(map, lo, hi, val) = Insert(map \ hits, acc)
  BY Zenon DEF Emplace
<1> HIDE DEF new, hits, acc
<1>7. \A f \in map \ hits : f.hi < lo \/ hi < f.lo
  BY <1>1, <1>2 DEF IsSegs, IsSeg
<1>8. IsSeg(acc, V) /\ acc.lo \in Nat /\ acc.hi \in Nat /\ acc.lo <= lo /\ hi <= acc.hi
  BY <1>1, <1>5 DEF Accumulated, IsSeg
<1>9. ASSUME NEW f \in map \ hits
      PROVE  f.hi < acc.lo \/ acc.hi < f.lo
  <2>1. f.lo \in Nat /\ f.hi \in Nat /\ f.lo <= f.hi
    BY DEF IsSegs, IsSeg
  <2>2. SUFFICES ASSUME acc.lo <= f.hi, f.lo <= acc.hi
                 PROVE  FALSE
    BY <1>8, <2>1
  <2>3. PICK a \in f.lo..f.hi : a \in acc.lo..acc.hi
    <3>1. CASE acc.lo <= f.lo
      BY <1>8, <2>1, <2>2, <3>1
    <3>2. CASE f.lo < acc.lo
      BY <1>1, <1>8, <2>1, <2>2, <3>2
    <3> QED
      BY <1>8, <2>1, <3>1, <3>2
  <2>4. a \notin new.lo..new.hi
    BY <1>1, <1>7, <2>1, <2>3
  <2>5. PICK e \in hits : a \in e.lo..e.hi
    BY <1>5, <2>3, <2>4 DEF Accumulated
  <2>6. e = f \/ e.hi < f.lo \/ f.hi < e.lo
    BY <1>2 DEF IsSegs
  <2>7. e.lo \in Nat /\ e.hi \in Nat /\ e # f
    BY <1>3 DEF IsSegs, IsSeg
  <2> QED
    BY <2>1, <2>3, <2>5, <2>6, <2>7
<1>10. Insert(map \ hits, acc) = res
  <2>1. \A f \in map \ hits : f.lo # acc.lo
    BY <1>1, <1>8, <1>9 DEF IsSegs, IsSeg
  <2> QED
    BY <2>1 DEF Insert
<1>11. IsSegs(res, V)
  <2>1. IsFiniteSet(res)
    <3>1. IsFiniteSet(map \ hits)
      BY FS_Subset DEF IsSegs
    <3> QED
      BY <3>1, FS_AddElement
  <2>2. \A e \in res : IsSeg(e, V)
    BY <1>8 DEF IsSegs
  <2>3. \A e, f \in res : e = f \/ e.hi < f.lo \/ f.hi < e.lo
    BY <1>9 DEF IsSegs
  <2> QED
    BY <2>1, <2>2, <2>3 DEF IsSegs
<1>12. ASSUME NEW e \in map, NEW a \in e.lo..e.hi
       PROVE  \E f \in res : a \in f.lo..f.hi
  <2>1. CASE e \in hits
    <3>1. e.lo \in Nat /\ e.hi \in Nat /\ acc.lo <= e.lo /\ e.hi <= acc.hi
      BY <1>5, <2>1 DEF Accumulated, IsSegs, IsSeg
    <3>2. a \in acc.lo..acc.hi
      BY <1>8, <3>1
    <3> QED
      BY <3>2
  <2>2. CASE e \notin hits
    BY <2>2
  <2> QED
    BY <2>1, <2>2
<1>13. ASSUME NEW f \in res, NEW a \in f.lo..f.hi
       PROVE  IF a \in new.lo..new.hi THEN At(f, a) = At(new, a)
              ELSE \E e \in map : a \in e.lo..e.hi /\ At(f, a) = At(e, a)
  <2>1. CASE f = acc
    BY <1>2, <1>5, <2>1 DEF Accumulated
  <2>2. CASE f \in map \ hits
    <3>1. f.lo \in Nat /\ f.hi \in Nat
      BY <2>2 DEF IsSegs, IsSeg
    <3>2. a \notin new.lo..new.hi
      BY <1>1, <1>7, <2>2, <3>1
    <3> QED
      BY <2>2, <3>2
  <2> QED
    BY <2>1, <2>2
<1>15. \A f \in res : f.lo = new.lo \/ \E e \in map : f.lo = e.lo
  BY <1>2, <1>5 DEF Accumulated
<1> HIDE DEF res
<1>14. \E f \in res : f.lo <= new.lo /\ new.hi <= f.hi
  BY <1>1, <1>8 DEF res
<1> QED
  BY <1>6, <1>10, <1>11, <1>12, <1>13, <1>14, <1>15 DEF IsWrite, new

(* AddSegment() of a segment that ends inside the address space writes its  *)
(* bytes and takes it into the bounds.                                      *)
IsAdded(res, sm, new, V) ==
  /\ IsWrite(res.segs, sm.segs, new, V)
  /\ res.min_addr = IF new.lo < sm.min_addr THEN new.lo ELSE sm.min_addr
  /\ res.max_addr = IF new.hi > sm.max_addr THEN new.hi ELSE sm.max_addr

LEMMA AddSegmentExact ==
  ASSUME NEW V, NEW sm, IsSegs(sm.segs, V), NEW offset, NEW top, NEW seg,
         IsSeg(Entry(offset, top, seg), V), top < AddrSpace
  PROVE  IsAdded(AddSegment(sm, offset, seg), sm, Entry(offset, top, seg), V)
<1> DEFINE new == Entry(offset, top, seg)
           res == AddSegment(sm, offset, seg)
<1>1. new.lo = offset /\ new.hi = top /\ new.val = seg
  BY DEF Entry
<1>2. offset \in Nat /\ top \in Nat /\ offset <= top /\ Len(seg) = 1 + (top - offset) /\ seg # <<>>
  <2>1. offset \in Nat /\ top \in Nat /\ offset <= top
    BY <1>1 DEF IsSeg
  <2>2. seg \in Seq(V) /\ Len(seg) = 1 + (top - offset)
    BY <1>1, SegLen
  <2> QED
    BY <2>1, <2>2
<1>3. Wrap(offset + Len(seg) - 1) = top
  <2>1. offset + Len(seg) - 1 = top /\ top \in 0..(AddrSpace - 1)
    BY <1>2, AddrSpaceAssumption
  <2> QED
    BY <2>1, WrapSmall
<1>4. res = [min_addr |-> IF offset < sm.min_addr THEN offset ELSE sm.min_addr,
             max_addr |-> IF top > sm.max_addr THEN top ELSE sm.max_addr,
             segs     |-> Emplace(sm.segs, offset, top, seg)]
  BY <1>2, <1>3, Zenon DEF AddSegment
<1>5. IsWrite(Emplace(sm.segs, offset, top, seg), sm.segs, new, V)
  BY EmplaceExact
<1> HIDE DEF res, new
<1>6. IsAdded(res, sm, new, V)
  BY <1>1, <1>4, <1>5 DEF IsAdded
<1> QED
  BY <1>6 DEF res, new
-----------------------------------------------------------------------------
(* One round of the loop of GetFlat(), and the loop as the recursion that   *)
(* it is.                                                                   *)
FlatRound(sm, m) ==
  LET e == Lowest(m.rest)
  IN  [ret |-> CopyTo(m.ret, e.lo - sm.min_addr, e.val), rest |-> m.rest \ {e}]

FlatStart(sm) ==
  [ret |-> Resize(<<>>, 1 + Wrap(sm.max_addr - sm.min_addr)), rest |-> sm.segs]

LEMMA FlatLoopRounds ==
  ASSUME NEW sm, IsFiniteSet(sm.segs)
  PROVE  LET loop == FlatLoop(sm) IN
         /\ loop[0] = FlatStart(sm)
         /\ \A n \in 1..Cardinality(sm.segs) : loop[n] = FlatRound(sm, loop[n - 1])
<1> DEFINE first == FlatStart(sm)
           Is(g, k) == g = [n \in 0..k |-> IF n = 0 THEN first ELSE FlatRound(sm, g[n - 1])]
           S == {k \in Nat : \E g : Is(g, k)}
<1>1. 0 \in S
  <2> DEFINE g == [n \in 0..0 |-> first]
  <2>1. Is(g, 0)
    OBVIOUS
  <2> QED
    BY <2>1
<1>2. ASSUME NEW k \in S
      PROVE  k + 1 \in S
  <2>1. PICK g : Is(g, k)
    OBVIOUS
  <2> DEFINE h == [n \in 0..(k + 1) |-> IF n = k + 1 THEN FlatRound(sm, g[k]) ELSE g[n]]
  <2>2. \A n \in 0..k : h[n] = g[n]
    OBVIOUS
  <2>3. \A n \in 0..(k + 1) : h[n] = IF n = 0 THEN first ELSE FlatRound(sm, h[n - 1])
    <3> TAKE n \in 0..(k + 1)
    <3>1. CASE n = k + 1
      BY <2>2, <3>1
    <3>2. CASE n # k + 1 /\ n # 0
      <4>1. n \in 0..k /\ n - 1 \in 0..k
        BY <3>2
      <4> QED
        BY <2>1, <2>2, <3>2, <4>1
    <3>3. CASE n = 0
      BY <2>1, <2>2, <3>3
    <3> QED
      BY <3>1, <3>2, <3>3
  <2>4. Is(h, k + 1)
    BY <2>3
  <2> HIDE DEF h
  <2> QED
    BY <2>4
<1>3. \A k \in Nat : \E g : Is(g, k)
  <2> HIDE DEF Is
  <2>1. \A k \in Nat : k \in S
    BY <1>1, <1>2, SetInduction
  <2> QED
    BY <2>1
<1> DEFINE N == Cardinality(sm.segs)
<1>4. N \in Nat
  BY FS_CardinalityType
<1>5. FlatLoop(sm) = CHOOSE g : Is(g, N)
  BY Zenon DEF FlatLoop, FlatRound, FlatStart
<1>6. Is(FlatLoop(sm), N)
  <2> HIDE DEF Is, N
  <2> QED
    BY <1>3, <1>4, <1>5
<1> HIDE DEF N
<1> QED
  BY <1>4, <1>6 DEF N

(* The bytes of the ranges es from address low on, with zeros in between.   *)
IsFlat(ret, es, low, len) ==
  /\ ret = [i \in 1..len |-> ret[i]]
  /\ \A e \in es : \A a \in e.lo..e.hi : ret[a - low + 1] = At(e, a)
  /\ \A i \in 1..len : (\A e \in es : low + i - 1 \notin e.lo..e.hi) => ret[i] = Zero

(* GetFlat() puts every byte at its distance from the lowest address: no    *)
(* copy disturbs another, since the ranges are disjoint and inside.         *)
LEMMA FlatLoopExact ==
  ASSUME NEW V, NEW sm, IsSegs(sm.segs, V), sm.min_addr \in Nat, sm.max_addr \in Nat,
         sm.min_addr <= sm.max_addr, sm.max_addr < AddrSpace,
         \A e \in sm.segs : sm.min_addr <= e.lo /\ e.hi <= sm.max_addr
  PROVE  IsFlat(GetFlat(sm), sm.segs, sm.min_addr, 1 + (sm.max_addr - sm.min_addr))
<1> DEFINE loop == FlatLoop(sm)
           segs == sm.segs
           low  == sm.min_addr
           len  == 1 + (sm.max_addr - sm.min_addr)
           N    == Cardinality(segs)
           P(n) == /\ loop[n].rest \subseteq segs
                   /\ Cardinality(loop[n].rest) = N - n
                   /\ IsFlat(loop[n].ret, segs \ loop[n].rest, low, len)
           S == {n \in Nat : n <= N => P(n)}
<1>1. N \in Nat /\ IsFiniteSet(segs)
  BY FS_CardinalityType DEF IsSegs
<1>2. /\ loop[0] = FlatStart(sm)
      /\ \A n \in 1..N : loop[n] = FlatRound(sm, loop[n - 1])
  BY <1>1, FlatLoopRounds
<1> HIDE DEF loop, N, segs
<1>3. P(0)
  <2>0. Wrap(sm.max_addr - sm.min_addr) = sm.max_addr - sm.min_addr
    <3>1. sm.max_addr - sm.min_addr \in 0..(AddrSpace - 1)
      BY AddrSpaceAssumption
    <3> QED
      BY <3>1, WrapSmall
  <2>1. loop[0].ret = [i \in 1..len |-> Zero] /\ loop[0].rest = segs
    BY <1>2, <2>0 DEF FlatStart, Resize, segs
  <2>2. segs \ segs = {}
    OBVIOUS
  <2>3. IsFlat([i \in 1..len |-> Zero], {}, low, len)
    BY DEF IsFlat
  <2> QED
    <3>1. Cardinality(segs) = N - 0
      BY <1>1 DEF N
    <3> QED
      BY <2>1, <2>2, <2>3, <3>1
<1>4. ASSUME NEW n \in Nat, n + 1 <= N, P(n)
      PROVE  P(n + 1)
  <2> DEFINE rest == loop[n].rest
             ret == loop[n].ret
             e == Lowest(rest)
             done == segs \ rest
             new == CopyTo(ret, e.lo - low, e.val)
  <2>1. rest \subseteq segs /\ Cardinality(rest) = N - n /\ IsFiniteSet(rest)
    BY <1>1, <1>4, FS_Subset
  <2>2. rest # {}
    BY <1>1, <1>4, <2>1, FS_EmptySet
  <2>3. e \in rest
    BY <2>1, <2>2, LowestIsLowest DEF IsSegs, IsSeg, segs
  <2>4. loop[n + 1].ret = new /\ loop[n + 1].rest = rest \ {e}
    <3>1. n + 1 \in 1..N /\ n + 1 - 1 = n
      BY <1>1, <1>4
    <3>2. loop[n + 1] = FlatRound(sm, loop[n])
      BY <1>2, <3>1
    <3> QED
      BY <3>2 DEF FlatRound
  <2>5. IsFlat(ret, done, low, len)
    BY <1>4
  <2> HIDE DEF rest, ret, e
  <2>6. Cardinality(rest \ {e}) = N - (n + 1)
    <3>1. Cardinality(rest \ {e}) = Cardinality(rest) - 1
      BY <2>1, <2>3, FS_RemoveElement
    <3> QED
      BY <1>1, <2>1, <3>1
  <2>7. segs \ (rest \ {e}) = done \cup {e}
    BY <2>1, <2>3
  <2>8. /\ e \in segs /\ IsSeg(e, V)
        /\ e.lo \in Nat /\ e.hi \in Nat /\ e.lo <= e.hi /\ low <= e.lo /\ e.hi <= sm.max_addr
        /\ DOMAIN e.val = 1..(1 + (e.hi - e.lo))
    BY <2>1, <2>3, SegLen DEF IsSegs, IsSeg, segs
  <2>9. \A f \in done : /\ f.lo \in Nat /\ f.hi \in Nat /\ f.lo <= f.hi
                        /\ low <= f.lo /\ f.hi <= sm.max_addr
                        /\ f.hi < e.lo \/ e.hi < f.lo
    BY <2>1, <2>3 DEF IsSegs, IsSeg, segs
  <2>10. new = [i \in 1..len |-> IF i - (e.lo - low) \in 1..(1 + (e.hi - e.lo))
                                 THEN e.val[i - (e.lo - low)] ELSE ret[i]]
    <3>1. DOMAIN ret = 1..len
      BY <2>5 DEF IsFlat
    <3> QED
      BY <2>8, <3>1 DEF CopyTo
  <2> HIDE DEF new, done
  <2>11. ASSUME NEW a \in e.lo..e.hi
         PROVE  new[a - low + 1] = At(e, a)
    <3> DEFINE i == a - low + 1
    <3>1. i \in 1..len
      BY <2>8
    <3>2. i - (e.lo - low) = a - e.lo + 1
      BY <2>8
    <3>3. a - e.lo + 1 \in 1..(1 + (e.hi - e.lo))
      BY <2>8
    <3> HIDE DEF i, len, low
    <3>4. new[i] = At(e, a)
      BY <2>10, <3>1, <3>2, <3>3 DEF At
    <3> QED
      BY <3>4 DEF i
  <2>12. ASSUME NEW f \in done, NEW a \in f.lo..f.hi
         PROVE  new[a - low + 1] = At(f, a)
    <3> DEFINE i == a - low + 1
    <3>1. i \in 1..len
      BY <2>9
    <3>2. i - (e.lo - low) = a - e.lo + 1
      BY <2>8, <2>9
    <3>3. a - e.lo + 1 \notin 1..(1 + (e.hi - e.lo))
      BY <2>8, <2>9
    <3>4. ret[i] = At(f, a)
      BY <2>5 DEF IsFlat
    <3> HIDE DEF i, len, low
    <3>5. new[i] = At(f, a)
      BY <2>10, <3>1, <3>2, <3>3, <3>4
    <3> QED
      BY <3>5 DEF i
  <2>13. ASSUME NEW i \in 1..len, \A f \in done \cup {e} : low + i - 1 \notin f.lo..f.hi
         PROVE  new[i] = Zero
    <3>1. ret[i] = Zero
      BY <2>5, <2>13 DEF IsFlat
    <3>2. low + i - 1 \notin e.lo..e.hi
      BY <2>13
    <3>3. i - (e.lo - low) \notin 1..(1 + (e.hi - e.lo))
      BY <2>8, <3>2
    <3> QED
      BY <2>10, <3>1, <3>3
  <2>14. new = [i \in 1..len |-> new[i]]
    BY <2>10
  <2>15. IsFlat(new, done \cup {e}, low, len)
    BY <2>11, <2>12, <2>13, <2>14 DEF IsFlat
  <2>16. rest \ {e} \subseteq segs
    BY <2>1
  <2> QED
    BY <2>4, <2>6, <2>7, <2>15, <2>16, Zenon
<1>5. \A n \in Nat : n \in S
  <2> HIDE DEF P
  <2>1. 0 \in S
    BY <1>3
  <2>2. \A n \in S : n + 1 \in S
    BY <1>1, <1>4
  <2> QED
    BY <2>1, <2>2, SetInduction
<1>6. P(N)
  <2> HIDE DEF P
  <2>1. N \in S /\ N <= N
    BY <1>1, <1>5
  <2> QED
    BY <2>1
<1>7. loop[N].rest = {}
  <2>1. IsFiniteSet(loop[N].rest)
    BY <1>1, <1>6, FS_Subset
  <2> QED
    BY <1>1, <1>6, <2>1, FS_EmptySet
<1>8. segs \ {} = segs
  OBVIOUS
<1> QED
  BY <1>6, <1>7, <1>8 DEF loop, N, segs, GetFlat

-----------------------------------------------------------------------------
(* Segments added one after the other: Staging refines ByteImage, for every *)
(* address space, any number of segments and any lengths.                   *)

Bytes == Nat \X Nat

(* The segments are disjoint ranges inside the address space, and the       *)
(* bounds are the lowest and the highest offset that they reach.            *)
SegsInv ==
  /\ IsSegs(staged_mem.segs, Bytes)
  /\ \A e \in staged_mem.segs : e.hi < AddrSpace

IsBounds(segs, min, max) ==
  /\ min \in Nat /\ max \in Nat
  /\ \A e \in segs : min <= e.lo /\ e.hi <= max
  /\ \E e \in segs : e.lo = min
  /\ \E e \in segs : e.hi = max

BoundsInv ==
  IF staged_mem.segs = {} THEN staged_mem.min_addr = AddrSpace - 1 /\ staged_mem.max_addr = 0
  ELSE IsBounds(staged_mem.segs, staged_mem.min_addr, staged_mem.max_addr)

StagingInv == adds \in 0..MaxAdds /\ SegsInv /\ BoundsInv

-----------------------------------------------------------------------------
(* A segment that passes the assertion does not wrap around.                *)
LEMMA SegmentFits ==
  ASSUME NEW offset \in 0..(AddrSpace - 1), NEW len \in Lens, NEW n \in Nat,
         AddSegmentAsserts(offset, Segment(n, len))
  PROVE  /\ len \in Nat \ {0} /\ Len(Segment(n, len)) = len /\ Segment(n, len) # <<>>
         /\ offset + len - 1 < AddrSpace
         /\ Wrap(offset + Len(Segment(n, len)) - 1) = offset + len - 1
         /\ IsSeg(Entry(offset, offset + len - 1, Segment(n, len)), Bytes)
<1>1. len \in 1..(AddrSpace - 1) /\ AddrSpace \in Nat \ {0}
  BY StagingAssumption, AddrSpaceAssumption
<1>2. Segment(n, len) \in [1..len -> Bytes]
  BY <1>1 DEF Segment, Bytes
<1>3. Segment(n, len) \in Seq(Bytes) /\ Len(Segment(n, len)) = len
  BY <1>1, <1>2
<1>4. Segment(n, len) # <<>>
  BY <1>1, <1>3
<1>5. Wrap(offset + len - 1) >= offset
  BY <1>3, <1>4 DEF AddSegmentAsserts
<1>6. offset + len - 1 < AddrSpace
  <2> SUFFICES ASSUME ~(offset + len - 1 < AddrSpace) PROVE FALSE
    OBVIOUS
  <2>1. offset + len - 1 \in AddrSpace..(2 * AddrSpace - 1)
    BY <1>1
  <2> DEFINE t == offset + len - 1
  <2> HIDE DEF t
  <2>2. Wrap(t) = t - AddrSpace
    BY <2>1, WrapOnce DEF t
  <2>3. Wrap(t) >= offset
    BY <1>5 DEF t
  <2> QED
    BY <1>1, <2>2, <2>3 DEF t
<1>7. Wrap(offset + len - 1) = offset + len - 1
  <2>1. offset + len - 1 \in 0..(AddrSpace - 1)
    BY <1>1, <1>6
  <2> QED
    BY <2>1, WrapSmall
<1>8. IsSeg(Entry(offset, offset + len - 1, Segment(n, len)), Bytes)
  <2>1. 1 + (offset + len - 1 - offset) = len
    BY <1>1
  <2> QED
    BY <1>1, <1>2, <2>1 DEF IsSeg, Entry
<1> QED
  BY <1>1, <1>3, <1>4, <1>6, <1>7, <1>8

(* Bounds that take in what is written are the bounds of the result.        *)
LEMMA BoundsOfWrite ==
  ASSUME NEW segs, NEW res, NEW new, IsSegs(segs, Bytes), IsSeg(new, Bytes),
         IsWrite(res, segs, new, Bytes),
         NEW min \in Nat, NEW max \in Nat, segs # {} => IsBounds(segs, min, max),
         NEW min2, min2 = IF segs = {} \/ new.lo < min THEN new.lo ELSE min,
         NEW max2, max2 = IF segs = {} \/ new.hi > max THEN new.hi ELSE max
  PROVE  res # {} /\ IsBounds(res, min2, max2)
<1>1. new.lo \in Nat /\ new.hi \in Nat /\ new.lo <= new.hi
  BY DEF IsSeg
<1>2. min2 \in Nat /\ max2 \in Nat /\ min2 <= new.lo /\ new.hi <= max2
  BY <1>1
<1>3. \A e \in segs : e.lo \in Nat /\ e.hi \in Nat /\ e.lo <= e.hi /\ min2 <= e.lo /\ e.hi <= max2
  BY <1>1 DEF IsSegs, IsSeg, IsBounds
<1>4. \A f \in res : f.lo \in Nat /\ f.hi \in Nat /\ f.lo <= f.hi
  BY DEF IsWrite, IsSegs, IsSeg
<1>5. ASSUME NEW f \in res, NEW a \in f.lo..f.hi
      PROVE  min2 <= a /\ a <= max2
  <2>1. CASE a \in new.lo..new.hi
    BY <1>1, <1>2, <2>1
  <2>2. CASE a \notin new.lo..new.hi
    <3>1. PICK e \in segs : a \in e.lo..e.hi
      BY <2>2 DEF IsWrite
    <3> QED
      BY <1>2, <1>3, <3>1
  <2> QED
    BY <2>1, <2>2
<1>6. \A f \in res : min2 <= f.lo /\ f.hi <= max2
  BY <1>4, <1>5
<1>7. PICK g \in res : g.lo <= new.lo /\ new.hi <= g.hi
  BY DEF IsWrite
<1>8. \E f \in res : f.lo = min2
  <2>1. CASE min2 = new.lo
    BY <1>1, <1>4, <1>6, <1>7, <2>1
  <2>2. CASE min2 # new.lo
    <3>1. PICK e \in segs : e.lo = min2
      BY <2>2 DEF IsBounds
    <3>2. min2 \in e.lo..e.hi
      BY <1>2, <1>3, <3>1
    <3>3. PICK f \in res : min2 \in f.lo..f.hi
      BY <3>2 DEF IsWrite
    <3> QED
      BY <1>2, <1>4, <1>6, <3>3
  <2> QED
    BY <2>1, <2>2
<1>9. \E f \in res : f.hi = max2
  <2>1. CASE max2 = new.hi
    BY <1>1, <1>4, <1>6, <1>7, <2>1
  <2>2. CASE max2 # new.hi
    <3>1. PICK e \in segs : e.hi = max2
      BY <2>2 DEF IsBounds
    <3>2. max2 \in e.lo..e.hi
      BY <1>2, <1>3, <3>1
    <3>3. PICK f \in res : max2 \in f.lo..f.hi
      BY <3>2 DEF IsWrite
    <3> QED
      BY <1>2, <1>4, <1>6, <3>3
  <2> QED
    BY <2>1, <2>2
<1> QED
  BY <1>2, <1>6, <1>7, <1>8, <1>9 DEF IsBounds

(* AddSegment() is one write.                                               *)
LEMMA AddIsWrite ==
  ASSUME StagingInv, NEW offset \in 0..(AddrSpace - 1), NEW len \in Lens, Add(offset, len)
  PROVE  LET new == Entry(offset, offset + len - 1, Segment(adds + 1, len)) IN
         /\ new.lo = offset /\ new.hi = offset + len - 1 /\ new.val = Segment(adds + 1, len)
         /\ IsSeg(new, Bytes) /\ new.hi < AddrSpace
         /\ IsWrite(staged_mem'.segs, staged_mem.segs, new, Bytes)
         /\ staged_mem'.segs # {}
         /\ IsBounds(staged_mem'.segs, staged_mem'.min_addr, staged_mem'.max_addr)
<1> DEFINE seg == Segment(adds + 1, len)
           top == offset + len - 1
           new == Entry(offset, top, seg)
<1>1. adds + 1 \in Nat /\ AddSegmentAsserts(offset, seg)
  BY StagingAssumption DEF StagingInv, Add
<1>2. /\ len \in Nat \ {0} /\ seg # <<>> /\ top < AddrSpace
      /\ Wrap(offset + Len(seg) - 1) = top
      /\ IsSeg(new, Bytes)
  BY <1>1, SegmentFits
<1>3. /\ staged_mem'.segs = Emplace(staged_mem.segs, offset, top, seg)
      /\ staged_mem'.min_addr = IF offset < staged_mem.min_addr THEN offset ELSE staged_mem.min_addr
      /\ staged_mem'.max_addr = IF top > staged_mem.max_addr THEN top ELSE staged_mem.max_addr
  <2>1. staged_mem' = AddSegment(staged_mem, offset, seg)
    BY DEF Add
  <2> HIDE DEF seg, top
  <2>2. AddSegment(staged_mem, offset, seg) =
           [min_addr |-> IF offset < staged_mem.min_addr THEN offset ELSE staged_mem.min_addr,
            max_addr |-> IF top > staged_mem.max_addr THEN top ELSE staged_mem.max_addr,
            segs     |-> Emplace(staged_mem.segs, offset, top, seg)]
    BY <1>2, Zenon DEF AddSegment
  <2> QED
    BY <2>1, <2>2
<1>4. new.lo = offset /\ new.hi = top /\ new.val = seg
  BY DEF Entry
<1>5. offset \in Nat /\ top \in Nat /\ AddrSpace \in Nat \ {0}
  BY <1>2, AddrSpaceAssumption
<1>6. IsWrite(staged_mem'.segs, staged_mem.segs, new, Bytes)
  <2> HIDE DEF seg, top
  <2> QED
    BY <1>2, <1>3, EmplaceExact DEF StagingInv, SegsInv
<1> HIDE DEF seg, top, new
<1>7. staged_mem'.segs # {} /\ IsBounds(staged_mem'.segs, staged_mem'.min_addr, staged_mem'.max_addr)
  <2> DEFINE min == staged_mem.min_addr
             max == staged_mem.max_addr
  <2>1. min \in Nat /\ max \in Nat /\ (staged_mem.segs # {} => IsBounds(staged_mem.segs, min, max))
    BY <1>5 DEF StagingInv, BoundsInv, IsBounds
  <2>2. staged_mem'.min_addr = IF staged_mem.segs = {} \/ new.lo < min THEN new.lo ELSE min
    BY <1>2, <1>3, <1>4, <1>5 DEF StagingInv, BoundsInv
  <2>3. staged_mem'.max_addr = IF staged_mem.segs = {} \/ new.hi > max THEN new.hi ELSE max
    BY <1>2, <1>3, <1>4, <1>5 DEF StagingInv, BoundsInv
  <2> HIDE DEF min, max
  <2> QED
    BY <1>2, <1>6, <2>1, <2>2, <2>3, BoundsOfWrite DEF StagingInv, SegsInv
<1> QED
  BY <1>2, <1>4, <1>6, <1>7 DEF seg, top, new

LEMMA StagingInitInv == StagingInit => StagingInv
  BY StagingAssumption, FS_EmptySet
     DEF StagingInit, StagingInv, SegsInv, BoundsInv, IsSegs, EmptyStagedMem

LEMMA StagingNextInv == StagingInv /\ [StagingNext]_staging_vars => StagingInv'
<1> SUFFICES ASSUME StagingInv, [StagingNext]_staging_vars PROVE StagingInv'
  OBVIOUS
<1>1. ASSUME NEW offset \in 0..(AddrSpace - 1), NEW len \in Lens, Add(offset, len)
      PROVE  StagingInv'
  <2>1. PICK new : /\ IsSeg(new, Bytes) /\ new.hi < AddrSpace
                   /\ IsWrite(staged_mem'.segs, staged_mem.segs, new, Bytes)
                   /\ staged_mem'.segs # {}
                   /\ IsBounds(staged_mem'.segs, staged_mem'.min_addr, staged_mem'.max_addr)
    BY <1>1, AddIsWrite
  <2>2. adds' \in 0..MaxAdds
    BY <1>1, StagingAssumption DEF Add, StagingInv
  <2>3. IsSegs(staged_mem'.segs, Bytes)
    BY <2>1 DEF IsWrite
  <2>4. ASSUME NEW f \in staged_mem'.segs
        PROVE  f.hi < AddrSpace
    <3>1. f.lo \in Nat /\ f.hi \in Nat /\ f.hi \in f.lo..f.hi
      BY <2>3 DEF IsSegs, IsSeg
    <3>2. CASE f.hi \in new.lo..new.hi
      BY <2>1, <3>1, <3>2, AddrSpaceAssumption DEF IsSeg
    <3>3. CASE f.hi \notin new.lo..new.hi
      <4>1. PICK e \in staged_mem.segs : f.hi \in e.lo..e.hi
        BY <2>1, <3>1, <3>3 DEF IsWrite
      <4> QED
        BY <3>1, <4>1, AddrSpaceAssumption DEF StagingInv, SegsInv, IsSegs, IsSeg
    <3> QED
      BY <3>2, <3>3
  <2> QED
    BY <2>1, <2>2, <2>3, <2>4 DEF StagingInv, SegsInv, BoundsInv
<1>2. CASE UNCHANGED staging_vars
  BY <1>2 DEF staging_vars, StagingInv, SegsInv, BoundsInv
<1> QED
  BY <1>1, <1>2 DEF StagingNext

(* The inductive invariant holds.                                           *)
THEOREM StagingInductive == StagingSpec => []StagingInv
  BY StagingInitInv, StagingNextInv, PTL DEF StagingSpec

(* RangedMap keeps the staged segments disjoint and as long as their        *)
(* ranges, whatever was added: Emplace() and MergeSegments().               *)
THEOREM DisjointSegments == StagingSpec => []SegmentsDisjoint
<1>1. StagingInv => SegmentsDisjoint
  <2> SUFFICES ASSUME StagingInv PROVE SegmentsDisjoint
    OBVIOUS
  <2>1. \A e \in staged_mem.segs : e.lo <= e.hi /\ Len(e.val) = 1 + (e.hi - e.lo)
    BY SegLen DEF StagingInv, SegsInv, IsSegs, IsSeg
  <2> QED
    BY <2>1 DEF SegmentsDisjoint, StagingInv, SegsInv, IsSegs
<1> QED
  BY StagingInductive, <1>1, PTL
-----------------------------------------------------------------------------
(* The image of disjoint segments has the bytes of each of them.            *)
LEMMA ImageAt ==
  ASSUME NEW segs, IsSegs(segs, Bytes), \A e \in segs : e.hi < AddrSpace
  PROVE  /\ \A a : a \in DOMAIN Image(segs) <=> \E e \in segs : a \in e.lo..e.hi
         /\ \A e \in segs : \A a \in e.lo..e.hi : Image(segs)[a] = At(e, a)
<1>1. \A e \in segs : e.lo \in Nat /\ e.hi \in Nat /\ e.lo <= e.hi /\ e.hi < AddrSpace
  BY DEF IsSegs, IsSeg
<1>2. \A e \in segs : \A a \in 0..(AddrSpace - 1) : Covers(e, a) <=> a \in e.lo..e.hi
  BY <1>1, AddrSpaceAssumption DEF Covers
<1> DEFINE D == {b \in 0..(AddrSpace - 1) : \E e \in segs : Covers(e, b)}
<1>3. DOMAIN Image(segs) = D
  BY DEF Image
<1>4. \A a : a \in D <=> \E e \in segs : a \in e.lo..e.hi
  BY <1>1, <1>2, AddrSpaceAssumption
<1>5. ASSUME NEW e \in segs, NEW a \in e.lo..e.hi
      PROVE  Image(segs)[a] = At(e, a)
  <2>1. a \in D /\ a \in 0..(AddrSpace - 1) /\ Covers(e, a)
    BY <1>1, <1>2, <1>4, AddrSpaceAssumption
  <2>2. \A f \in segs : Covers(f, a) => f = e
    BY <1>1, <1>2, <2>1 DEF IsSegs
  <2>3. (CHOOSE f \in segs : Covers(f, a)) = e
    BY <2>1, <2>2
  <2>4. Image(segs)[a] = (CHOOSE f \in segs : Covers(f, a)).val[a - (CHOOSE f \in segs : Covers(f, a)).lo + 1]
    BY <2>1, Zenon DEF Image
  <2> QED
    BY <2>3, <2>4 DEF At
<1> QED
  BY <1>3, <1>4, <1>5

(* GetFlat() returns the staged bytes at their distance from the lowest     *)
(* one, with zeros in the gaps.                                             *)
THEOREM FlatIsExact == StagingSpec => []FlatExact
<1>1. StagingInv => FlatExact
  <2> SUFFICES ASSUME StagingInv, staged_mem.segs # {}
               PROVE  LET low  == Min(DOMAIN Contents)
                          high == Max(DOMAIN Contents)
                      IN  GetFlat(staged_mem) =
                            [i \in 1..(1 + high - low) |->
                               IF low + i - 1 \in DOMAIN Contents THEN Contents[low + i - 1]
                                                                  ELSE Zero]
    BY Zenon DEF FlatExact
  <2> DEFINE segs == staged_mem.segs
             min  == staged_mem.min_addr
             max  == staged_mem.max_addr
             D    == DOMAIN Contents
  <2>1. IsSegs(segs, Bytes) /\ (\A e \in segs : e.hi < AddrSpace) /\ IsBounds(segs, min, max)
    BY DEF StagingInv, SegsInv, BoundsInv
  <2>2. /\ \A a : a \in D <=> \E e \in segs : a \in e.lo..e.hi
        /\ \A e \in segs : \A a \in e.lo..e.hi : Contents[a] = At(e, a)
    BY <2>1, ImageAt DEF Contents
  <2>3. IsFlat(GetFlat(staged_mem), segs, min, 1 + (max - min))
    <3>1. min \in Nat /\ max \in Nat /\ min <= max /\ max < AddrSpace
          /\ \A e \in segs : min <= e.lo /\ e.hi <= max
      BY <2>1 DEF IsBounds, IsSegs, IsSeg
    <3> QED
      BY <2>1, <3>1, FlatLoopExact
  <2> HIDE DEF segs, min, max, D
  <2>4. \A e \in segs : e.lo \in Nat /\ e.hi \in Nat /\ e.lo <= e.hi /\ min <= e.lo /\ e.hi <= max
    BY <2>1 DEF IsSegs, IsSeg, IsBounds
  <2>5. min \in Nat /\ max \in Nat /\ min \in D /\ max \in D
    BY <2>1, <2>2, <2>4 DEF IsBounds
  <2>6. \A a \in D : a \in Nat /\ min <= a /\ a <= max
    BY <2>2, <2>4, <2>5
  <2>7. Min(D) = min
    <3>1. \A x \in D : (\A y \in D : x =< y) <=> x = min
      BY <2>5, <2>6
    <3> QED
      BY <2>5, <3>1, Zenon DEF Min
  <2>8. Max(D) = max
    <3>1. \A x \in D : (\A y \in D : x >= y) <=> x = max
      BY <2>5, <2>6
    <3> QED
      BY <2>5, <3>1, Zenon DEF Max
  <2> DEFINE flat == GetFlat(staged_mem)
             len  == 1 + max - min
  <2>9. 1 + (max - min) = len /\ flat = [i \in 1..len |-> flat[i]]
    BY <2>3, <2>5 DEF IsFlat
  <2>10. ASSUME NEW i \in 1..len
         PROVE  flat[i] = IF min + i - 1 \in D THEN Contents[min + i - 1] ELSE Zero
    <3>1. CASE min + i - 1 \in D
      <4> DEFINE a == min + i - 1
      <4>1. PICK e \in segs : a \in e.lo..e.hi
        BY <2>2, <3>1
      <4>2. a - min + 1 = i
        BY <2>5
      <4> HIDE DEF a
      <4>3. flat[a - min + 1] = At(e, a)
        BY <2>3, <4>1 DEF IsFlat
      <4>4. flat[i] = Contents[a]
        BY <2>2, <4>1, <4>2, <4>3
      <4> QED
        BY <3>1, <4>4 DEF a
    <3>2. CASE min + i - 1 \notin D
      <4>1. \A e \in segs : min + i - 1 \notin e.lo..e.hi
        BY <2>2, <3>2
      <4>2. i \in 1..(1 + (max - min))
        BY <2>9
      <4> QED
        BY <2>3, <3>2, <4>1, <4>2 DEF IsFlat
    <3> QED
      BY <3>1, <3>2
  <2> HIDE DEF flat, len
  <2>11. flat = [i \in 1..len |-> IF min + i - 1 \in D THEN Contents[min + i - 1] ELSE Zero]
    BY <2>9, <2>10
  <2> QED
    BY <2>7, <2>8, <2>11, Zenon DEF flat, len, D
<1> QED
  BY StagingInductive, <1>1, PTL

(* A StagedMem implements the abstract image: the segment that was added    *)
(* last wins, no other byte changes, and the bounds are exact.              *)
THEOREM LastWins == StagingSpec => LastWriterWins
<1>1. StagingInit => Abstract!Init
  <2> SUFFICES ASSUME StagingInit PROVE Abstract!Init
    OBVIOUS
  <2>1. staged_mem.segs = {}
    BY DEF StagingInit, EmptyStagedMem
  <2>2. {b \in 0..(AddrSpace - 1) : \E e \in {} : Covers(e, b)} = {}
    OBVIOUS
  <2>3. Contents = <<>>
    BY <2>1, <2>2 DEF Contents, Image
  <2>4. Bounds = <<>>
    BY <2>1 DEF Bounds
  <2> QED
    BY <2>3, <2>4 DEF Abstract!Init
<1>2. StagingInv /\ StagingInv' /\ [StagingNext]_staging_vars => [Abstract!Next]_(Abstract!vars)
  <2> SUFFICES ASSUME StagingInv, StagingInv', [StagingNext]_staging_vars PROVE [Abstract!Next]_(Abstract!vars)
    OBVIOUS
  <2>1. ASSUME NEW offset \in 0..(AddrSpace - 1), NEW len \in Lens, Add(offset, len)
        PROVE  Abstract!Next
    <3> DEFINE seg == Segment(adds + 1, len)
               segs == staged_mem.segs
               res == staged_mem'.segs
    <3>1. adds + 1 \in 1..MaxAdds
      BY <2>1, StagingAssumption DEF Add, StagingInv
    <3>2. PICK new : /\ new.lo = offset /\ new.hi = offset + len - 1 /\ new.val = seg
                     /\ IsSeg(new, Bytes) /\ new.hi < AddrSpace
                     /\ IsWrite(res, segs, new, Bytes)
                     /\ res # {}
                     /\ IsBounds(res, staged_mem'.min_addr, staged_mem'.max_addr)
      BY <2>1, AddIsWrite
    <3>3. len \in Nat \ {0} /\ AddrSpace \in Nat \ {0} /\ Len(seg) = len
      <4>1. seg \in Seq(Bytes) /\ Len(seg) = 1 + (new.hi - new.lo)
        BY <3>2, SegLen
      <4>2. len \in Nat \ {0} /\ AddrSpace \in Nat \ {0}
        BY StagingAssumption, AddrSpaceAssumption
      <4> HIDE DEF seg
      <4> QED
        BY <3>2, <4>1, <4>2
    <3> DEFINE W == offset..(offset + Len(seg) - 1)
    <3>4. W = new.lo..new.hi
      BY <3>2, <3>3
    <3>5. /\ \A a : a \in DOMAIN Contents <=> \E e \in segs : a \in e.lo..e.hi
          /\ \A e \in segs : \A a \in e.lo..e.hi : Contents[a] = At(e, a)
      BY ImageAt DEF Contents, StagingInv, SegsInv
    <3>6. /\ \A a : a \in DOMAIN Contents' <=> \E e \in res : a \in e.lo..e.hi
          /\ \A e \in res : \A a \in e.lo..e.hi : Contents'[a] = At(e, a)
      BY ImageAt DEF Contents, StagingInv, SegsInv
    <3>7. Contents' = [a \in DOMAIN Contents' |-> Contents'[a]]
      BY DEF Contents, Image
    <3> HIDE DEF seg, segs, res, W
    <3>8. DOMAIN Contents' = DOMAIN Contents \cup W
      <4>1. \A a \in W : \E f \in res : a \in f.lo..f.hi
        <5>1. PICK f \in res : f.lo <= new.lo /\ new.hi <= f.hi
          BY <3>2 DEF IsWrite
        <5>2. f.lo \in Nat /\ f.hi \in Nat /\ new.lo \in Nat /\ new.hi \in Nat
          BY <3>2 DEF IsWrite, IsSegs, IsSeg
        <5> QED
          BY <3>4, <5>1, <5>2
      <4>2. \A a \in DOMAIN Contents : a \in DOMAIN Contents'
        BY <3>2, <3>5, <3>6 DEF IsWrite
      <4>3. \A a \in DOMAIN Contents' : a \in DOMAIN Contents \cup W
        BY <3>2, <3>4, <3>5, <3>6 DEF IsWrite
      <4> QED
        BY <3>6, <4>1, <4>2, <4>3
    <3>9. ASSUME NEW a \in DOMAIN Contents'
          PROVE  Contents'[a] = IF a \in W THEN seg[a - offset + 1] ELSE Contents[a]
      <4>1. PICK f \in res : a \in f.lo..f.hi
        BY <3>6
      <4>2. Contents'[a] = At(f, a)
        BY <3>6, <4>1
      <4>3. CASE a \in W
        <5>1. At(f, a) = At(new, a)
          BY <3>2, <3>4, <4>1, <4>3 DEF IsWrite
        <5> QED
          BY <3>2, <4>2, <4>3, <5>1 DEF At
      <4>4. CASE a \notin W
        <5>1. PICK e \in segs : a \in e.lo..e.hi /\ At(f, a) = At(e, a)
          BY <3>2, <3>4, <4>1, <4>4 DEF IsWrite
        <5> QED
          BY <3>5, <4>2, <4>4, <5>1
      <4> QED
        BY <4>3, <4>4
    <3>10. Contents' = [a \in DOMAIN Contents \cup W |->
                          IF a \in W THEN seg[a - offset + 1] ELSE Contents[a]]
      BY <3>7, <3>8, <3>9
    <3> DEFINE lo == staged_mem'.min_addr
               hi == staged_mem'.max_addr
    <3>11. Bounds' = <<lo, hi>>
      BY <3>2 DEF Bounds, res
    <3>12. /\ lo \in DOMAIN Contents' /\ hi \in DOMAIN Contents'
           /\ \A a \in DOMAIN Contents' : lo <= a /\ a <= hi
      <4>1. \A f \in res : f.lo \in Nat /\ f.hi \in Nat /\ f.lo <= f.hi /\ lo <= f.lo /\ f.hi <= hi
        BY <3>2 DEF IsWrite, IsSegs, IsSeg, IsBounds
      <4>2. lo \in Nat /\ hi \in Nat /\ (\E f \in res : f.lo = lo) /\ (\E f \in res : f.hi = hi)
        BY <3>2 DEF IsBounds
      <4> HIDE DEF lo, hi
      <4>3. lo \in DOMAIN Contents' /\ hi \in DOMAIN Contents'
        BY <3>6, <4>1, <4>2
      <4> QED
        BY <3>6, <4>1, <4>2, <4>3
    <3>13. Abstract!Write(offset, seg)
      <4> HIDE DEF lo, hi
      <4>1. offset + Len(seg) <= AddrSpace
        BY <3>2, <3>3
      <4> QED
        BY <3>10, <3>11, <3>12, <4>1, Zenon DEF Abstract!Write, Abstract!Written, W
    <3>14. seg \in {Segment(n, l) : n \in 1..MaxAdds, l \in Lens}
      BY <3>1 DEF seg
    <3> QED
      BY <3>13, <3>14 DEF Abstract!Next
  <2>2. CASE UNCHANGED staging_vars
    BY <2>2 DEF staging_vars, Abstract!vars, Contents, Bounds
  <2> QED
    BY <2>1, <2>2 DEF StagingNext
<1> QED
  BY StagingInductive, <1>1, <1>2, PTL DEF StagingSpec, LastWriterWins, Abstract!Spec
=============================================================================
