------------------------------ MODULE Staging ------------------------------
(***************************************************************************)
(* A StagedMem to which segments are added one after the other, as         *)
(* StageElf() and FlattenElfFile() do for the program headers of an ELF    *)
(* file, and the abstract image it implements.                             *)
(***************************************************************************)
EXTENDS StagedMem

CONSTANTS
  Lens,       \* lengths of the segments
  MaxAdds     \* bound on the number of segments

(* The length of a segment is p_filesz, which has 32 bits.                  *)
ASSUME StagingAssumption == Lens \subseteq 1..(AddrSpace - 1) /\ MaxAdds \in Nat

VARIABLES
  staged_mem, \* the StagedMem object
  adds        \* how many segments were added

staging_vars == <<staged_mem, adds>>

(* The n-th segment's bytes differ from each other and from all others.     *)
Segment(n, len) == [k \in 1..len |-> <<n, k>>]

StagingInit ==
  /\ staged_mem = EmptyStagedMem
  /\ adds = 0

Add(offset, len) ==
  /\ adds < MaxAdds
  /\ AddSegmentAsserts(offset, Segment(adds + 1, len))
  /\ staged_mem' = AddSegment(staged_mem, offset, Segment(adds + 1, len))
  /\ adds' = adds + 1

StagingNext == \E offset \in 0..(AddrSpace - 1), len \in Lens : Add(offset, len)

StagingSpec == StagingInit /\ [][StagingNext]_staging_vars

-----------------------------------------------------------------------------
Covers(e, a) == e.lo <= a /\ a <= e.hi

(* The byte at each offset that some segment covers.                        *)
Image(segs) ==
  [a \in {b \in 0..(AddrSpace - 1) : \E e \in segs : Covers(e, b)} |->
     LET e == CHOOSE e \in segs : Covers(e, a) IN e.val[a - e.lo + 1]]

Contents == Image(staged_mem.segs)

Bounds == IF staged_mem.segs = {} THEN <<>> ELSE <<staged_mem.min_addr, staged_mem.max_addr>>

Abstract == INSTANCE ByteImage WITH
  image <- Contents, bounds <- Bounds, AddrSpace <- AddrSpace,
  Segments <- {Segment(n, len) : n \in 1..MaxAdds, len \in Lens}

(* Adding segments to a StagedMem, with its search for the ranges that are  *)
(* hit and its three ways of merging, implements writing bytes over bytes:  *)
(* the latest segment wins everywhere, nothing else is lost, and            *)
(* GetBounds() are the lowest and highest valid offset.                     *)
LastWriterWins == Abstract!Spec

(* The segments are an ordered list of disjoint ranges, each with as many   *)
(* bytes as its range has, and no two of them could be told from one by     *)
(* upper_bound(): what every later Emplace() and find() relies on.          *)
SegmentsDisjoint ==
  /\ \A e \in staged_mem.segs : e.lo <= e.hi /\ Len(e.val) = 1 + (e.hi - e.lo)
  /\ \A e, f \in staged_mem.segs : e # f => e.hi < f.lo \/ f.hi < e.lo

(* GetFlat() returns the staged bytes at their distance from the lowest     *)
(* one, and zeros in the gaps, whatever the order the segments came in.     *)
FlatExact ==
  staged_mem.segs # {} =>
    LET low  == Min(DOMAIN Contents)
        high == Max(DOMAIN Contents)
    IN  GetFlat(staged_mem) =
          [i \in 1..(1 + high - low) |->
             IF low + i - 1 \in DOMAIN Contents THEN Contents[low + i - 1]
                                                ELSE Zero]
=============================================================================
