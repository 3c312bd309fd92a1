---------------------------- MODULE MCDpiMemUtil ----------------------------
(***************************************************************************)
(* A RAM of three 2-byte words at 2..7 and next to it a ROM of three bytes *)
(* at 8..10, of which the design has RomDepth, in an address space of 16;  *)
(* a third area of two bytes that is to be registered across the border of *)
(* the two, or past the end of the address space, and that the design does *)
(* not have.  Files of at most MaxPhdrs program headers, 8 bytes long.     *)
(***************************************************************************)
EXTENDS DpiMemUtil

CONSTANTS MaxPhdrs, Paddrs, Sizes, Offsets, RamWords, RomDepth

MCAreas ==
  [ram  |-> [width |-> 2, words |-> RamWords, depth |-> 3, found |-> TRUE],
   rom  |-> [width |-> 1, words |-> 3, depth |-> RomDepth, found |-> TRUE],
   nvm  |-> [width |-> 1, words |-> 2, depth |-> 2, found |-> FALSE]]

MCCandidates == { [name |-> "ram", base |-> 2, area |-> "ram"],
                  [name |-> "rom", base |-> 8, area |-> "rom"] }
                  \cup [name : {"nvm"}, base : {7, 15}, area : {"nvm"}]

Phdr(load, paddr, filesz, offset) ==
  [load |-> load, paddr |-> paddr, filesz |-> filesz, offset |-> offset]

(* Segments with data (at 3, misaligned, and inside the ROM a short one; at *)
(* the last address one that wraps around), one that is not loaded, an empty    *)
(* one, and one that ends past the end of the file.                         *)
Spans == {s \in Paddrs \X Sizes : (s[1] \in {3, 9} => s[2] = 1) /\ (s[1] = 15 => s[2] > 1)}

Phdrs ==
  { Phdr(TRUE, s[1], s[2], o) : s \in Spans, o \in Offsets }
    \cup { Phdr(FALSE, 2, 2, 0), Phdr(TRUE, 4, 0, 0), Phdr(TRUE, 2, 4, 5) }

File(phdrs) == [valid |-> TRUE, size |-> 8, phdrs |-> phdrs]

MCFiles ==
  { File(phdrs) : phdrs \in UNION {[1..n -> Phdrs] : n \in 0..MaxPhdrs} }
    \cup { [valid |-> FALSE, size |-> 8, phdrs |-> <<>>] }
=============================================================================
