----------------------------- MODULE RangedMap -----------------------------
(***************************************************************************)
(* The class RangedMap (example/ranged_map.h): a std::map from address     *)
(* ranges to values.  Ranges are ordered by their low end only, so the map *)
(* is a set of entries [lo, hi, val] with distinct lo, and the iterator    *)
(* that upper_bound() returns is the set of entries from there on.         *)
(***************************************************************************)
EXTENDS Integers, SequencesExt

Entry(lo, hi, val) == [lo |-> lo, hi |-> hi, val |-> val]

(* The entries that start strictly above addr.                              *)
UpperBound(map, addr) == {e \in map : e.lo > addr}

Lowest(es)  == CHOOSE e \in es : \A f \in es : e.lo <= f.lo
Highest(es) == CHOOSE e \in es : \A f \in es : f.lo <= e.lo

(* std::map::insert() does nothing if the key is there.                     *)
Insert(map, e) == IF \E f \in map : f.lo = e.lo THEN map ELSE map \cup {e}

(* The entries between hit_lo and hit_hi: upwards from upper_bound() while  *)
(* they start at or below hi, downwards while they end at or above lo.      *)
(* Mutant: the upward walk stops short of a range that starts at hi.        *)
Hits_Strict(map, lo, hi) ==
  LET right == UpperBound(map, lo)
      left  == map \ right
  IN  {e \in right : e.lo < hi}
        \cup {e \in left : \A f \in left : e.lo <= f.lo => lo <= f.hi}

Hits(map, lo, hi) ==
  LET right == UpperBound(map, lo)
      left  == map \ right
  IN  {e \in right : e.lo <= hi}
        \cup {e \in left : \A f \in left : e.lo <= f.lo => lo <= f.hi}

(* The entry that EmplaceDisjoint() finds in its way, as a set of at most   *)
(* one: the first to the right, or else the last to the left.               *)
(* Mutant: the neighbour on the left is not looked at.                      *)
Clash_RightOnly(map, lo, hi) ==
  LET right == UpperBound(map, lo)
  IN  IF right # {} /\ Lowest(right).lo <= hi THEN {Lowest(right)} ELSE {}

Clash(map, lo, hi) ==
  LET right == UpperBound(map, lo)
      left  == map \ right
  IN  IF right # {} /\ Lowest(right).lo <= hi THEN {Lowest(right)}
      ELSE IF left # {} /\ lo <= Highest(left).hi THEN {Highest(left)}
      ELSE {}

(* find(): the entry that contains addr, as a set of at most one.           *)
Find(map, addr) ==
  LET left == map \ UpperBound(map, addr)
  IN  IF left # {} /\ addr <= Highest(left).hi THEN {Highest(left)} ELSE {}
=============================================================================
