----------------------------- MODULE StagedMem -----------------------------
(***************************************************************************)
(* The class StagedMem and the function MergeSegments()                    *)
(* (example/dpi_memutil.cc): the data that an ELF file puts into one       *)
(* memory.  A byte is a value; Zero is the byte that resizing a vector     *)
(* fills in.                                                               *)
(***************************************************************************)
EXTENDS RangedMap, Addresses

CONSTANT Zero   \* the byte 0

(* Vector v resized to len.                                                 *)
Resize(v, len) == [i \in 1..len |-> IF i <= Len(v) THEN v[i] ELSE Zero]

(* memcpy() of all of src to dst[off].                                      *)
CopyTo(dst, off, src) ==
  [i \in DOMAIN dst |-> IF i - off \in DOMAIN src THEN src[i - off] ELSE dst[i]]

(* Mutant: the bytes taken from seg0 start one too early.                   *)
MergeSegments_OffByOne(seg0, seg1) ==
  IF seg1.lo <= seg0.lo /\ seg0.hi <= seg1.hi THEN seg1.val
  ELSE IF seg1.lo <= seg0.lo
  THEN LET src_off == seg1.hi - seg0.lo
       IN  seg1.val \o SubSeq(seg0.val, src_off + 1, src_off + (seg0.hi - seg1.hi))
  ELSE LET top == IF seg1.hi > seg0.hi THEN seg1.hi ELSE seg0.hi
       IN  CopyTo(Resize(seg0.val, 1 + (top - seg0.lo)), seg1.lo - seg0.lo, seg1.val)

(* seg1, the newer, over seg0: seg1 contains seg0; seg0 sticks out on the   *)
(* right only; seg0 sticks out on the left.                                 *)
MergeSegments(seg0, seg1) ==
  IF seg1.lo <= seg0.lo /\ seg0.hi <= seg1.hi THEN seg1.val
  ELSE IF seg1.lo <= seg0.lo
  THEN LET src_off == 1 + (seg1.hi - seg0.lo)
       IN  seg1.val \o SubSeq(seg0.val, src_off + 1, src_off + (seg0.hi - seg1.hi))
  ELSE LET top == IF seg1.hi > seg0.hi THEN seg1.hi ELSE seg0.hi
       IN  CopyTo(Resize(seg0.val, 1 + (top - seg0.lo)), seg1.lo - seg0.lo, seg1.val)

(* The range and the value that the newer acc and the older e make.         *)
Merge(acc, e) == Entry(IF e.lo < acc.lo THEN e.lo ELSE acc.lo,
                       IF e.hi > acc.hi THEN e.hi ELSE acc.hi,
                       MergeSegments(e, acc))

(* The loop over the ranges that are hit, from the lowest up: what is       *)
(* accumulated and what is still to come, after n of them.                  *)
MergeLoop(hits, new) ==
  LET loop[n \in 0..Cardinality(hits)] ==
        IF n = 0 THEN [acc |-> new, rest |-> hits]
        ELSE LET m == loop[n - 1]
                 e == Lowest(m.rest)
             IN  [acc |-> Merge(m.acc, e), rest |-> m.rest \ {e}]
  IN  loop

(* RangedMap::Emplace() with its merge function: insert a disjoint range,   *)
(* or merge all that it hits into one entry.                                *)
Emplace(map, lo, hi, new_val) ==
  LET hits == Hits(map, lo, hi)
  IN  Insert(map \ hits,
             MergeLoop(hits, Entry(lo, hi, new_val))[Cardinality(hits)].acc)

EmptyStagedMem == [min_addr |-> AddrSpace - 1, max_addr |-> 0, segs |-> {}]

(* Mutant: the bounds follow the latest segment only.                       *)
AddSegment_LastBounds(sm, offset, seg) ==
  IF seg = <<>> THEN sm
  ELSE LET seg_top == Wrap(offset + Len(seg) - 1)
       IN  [min_addr |-> offset,
            max_addr |-> seg_top,
            segs     |-> Emplace(sm.segs, offset, seg_top, seg)]

AddSegment(sm, offset, seg) ==
  IF seg = <<>> THEN sm
  ELSE LET seg_top == Wrap(offset + Len(seg) - 1)
       IN  [min_addr |-> IF offset < sm.min_addr THEN offset ELSE sm.min_addr,
            max_addr |-> IF seg_top > sm.max_addr THEN seg_top ELSE sm.max_addr,
            segs     |-> Emplace(sm.segs, offset, seg_top, seg)]

(* The assertion in AddSegment(): the segment does not wrap around.         *)
AddSegmentAsserts(offset, seg) ==
  seg = <<>> \/ Wrap(offset + Len(seg) - 1) >= offset

(* The loop over all segments, from the lowest up, that copies them.  (The  *)
(* difference is a 32-bit number: an empty StagedMem gives two zeros.)      *)
FlatLoop(sm) ==
  LET loop[n \in 0..Cardinality(sm.segs)] ==
        IF n = 0 THEN [ret |-> Resize(<<>>, 1 + Wrap(sm.max_addr - sm.min_addr)),
                       rest |-> sm.segs]
        ELSE LET m == loop[n - 1]
                 e == Lowest(m.rest)
             IN  [ret |-> CopyTo(m.ret, e.lo - sm.min_addr, e.val), rest |-> m.rest \ {e}]
  IN  loop

(* All segments in one array, zeros in the gaps.                            *)
GetFlat(sm) == FlatLoop(sm)[Cardinality(sm.segs)].ret
=============================================================================
