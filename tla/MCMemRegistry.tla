--------------------------- MODULE MCMemRegistry ---------------------------
(* Two memories of 4 and 3 bytes, three names, every base address.          *)
EXTENDS MemRegistry

MCAreas == [m \in {"ram", "rom"} |->
              IF m = "ram" THEN [width |-> 2, words |-> 2, depth |-> 2, found |-> TRUE]
                           ELSE [width |-> 1, words |-> 3, depth |-> 3, found |-> TRUE]]

MCCandidates == [name : {"a", "b", "c"}, base : 0..(AddrSpace - 1), area : {"ram", "rom"}]
=============================================================================
