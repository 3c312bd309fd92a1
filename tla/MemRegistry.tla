---------------------------- MODULE MemRegistry ----------------------------
(***************************************************************************)
(* The registry of memory areas of DpiMemUtil (example/dpi_memutil.cc):    *)
(* three vectors with one element per area, and two maps, by name and by   *)
(* address, with indices into them.  Indices count from 0 as in the code;  *)
(* index i is element i + 1 of a sequence.                                 *)
(*                                                                         *)
(* An exception leaves the process running with what has been done so far, *)
(* a failed assertion ends it.                                             *)
(***************************************************************************)
EXTENDS Addresses, RangedMap

CONSTANTS
  Areas,       \* [area -> [width, words, depth, found]]: bytes per word and
               \* words of a MemArea; depth of the memory in the design, if
               \* its scope is found at all
  Candidates   \* the [name, base, area] that may be registered

(* MemArea::MemArea() asserts that there are words; GetSizeBytes() is right *)
(* only for a size that a uint32_t can hold.                                *)
ASSUME RegistryAssumption ==
  /\ \A a \in DOMAIN Areas :
       /\ Areas[a].width \in Nat \ {0}
       /\ Areas[a].words \in Nat \ {0}
       /\ Areas[a].words * Areas[a].width < AddrSpace
  /\ \A c \in Candidates :
       /\ c.base \in 0..(AddrSpace - 1)
       /\ c.area \in DOMAIN Areas

VARIABLES
  mem_areas, base_addrs, names,  \* the vectors
  name_to_mem,                   \* name -> index
  addr_to_mem,                   \* RangedMap of indices
  outcome                        \* of the last call: "none", "ok", "throw", ...

registry == <<mem_areas, base_addrs, names, name_to_mem, addr_to_mem>>

GetSizeBytes(area) == Wrap(Areas[area].words * Areas[area].width)

Alive == outcome # "abort"

RegistryInit ==
  /\ mem_areas = <<>> /\ base_addrs = <<>> /\ names = <<>>
  /\ name_to_mem = <<>>
  /\ addr_to_mem = {}
  /\ outcome = "none"

(* name_to_mem_.emplace(), which keeps an entry that is there, and erase(). *)
AddName(f, name, idx) ==
  [n \in DOMAIN f \cup {name} |-> IF n \in DOMAIN f THEN f[n] ELSE idx]

(* Mutant: the entry stays.                                                 *)
Erase_Nothing(f, name) == f

Erase(f, name) == [n \in DOMAIN f \ {name} |-> f[n]]

(* The top address of the area, and whether it lies beyond the last one.    *)
AddrTop(base, area) == Wrap(base + Wrap(GetSizeBytes(area) - 1))

(* Mutant: areas that wrap around are not rejected.                         *)
Overflows_Never(base, area) == FALSE

Overflows(base, area) == AddrTop(base, area) < base

(* RegisterMemoryArea().  When the range clashes with a registered area, a  *)
(* debugging assertion first tests that area's index, which 0 fails.        *)
RegisterMemoryArea(name, base, area) ==
  LET new_idx == Len(mem_areas)
      top     == AddrTop(base, area)
      clash   == Clash(addr_to_mem, base, top)
      added   == AddName(name_to_mem, name, new_idx)
  IN
  /\ Alive
  /\ \/ /\ Overflows(base, area)
        /\ outcome' = "throw"
        /\ UNCHANGED registry
     \/ /\ ~Overflows(base, area)
        /\ name \in DOMAIN name_to_mem
        /\ outcome' = "throw"
        /\ UNCHANGED registry
     \/ /\ ~Overflows(base, area)
        /\ name \notin DOMAIN name_to_mem
        /\ clash # {}
        /\ name_to_mem' = Erase(added, name)
        /\ outcome' = IF \E e \in clash : e.val = 0 THEN "abort" ELSE "throw"
        /\ UNCHANGED <<mem_areas, base_addrs, names, addr_to_mem>>
     \/ /\ ~Overflows(base, area)
        /\ name \notin DOMAIN name_to_mem
        /\ clash = {}
        /\ name_to_mem' = added
        /\ addr_to_mem' = Insert(addr_to_mem, Entry(base, top, new_idx))
        /\ mem_areas' = Append(mem_areas, area)
        /\ base_addrs' = Append(base_addrs, base)
        /\ names' = Append(names, name)
        /\ outcome' = "ok"

RegistryNext ==
  \E c \in Candidates : RegisterMemoryArea(c.name, c.base, c.area)

RegistrySpec == RegistryInit /\ [][RegistryNext]_<<registry, outcome>>

-----------------------------------------------------------------------------
Registered == 1..Len(names)
AreaBytes(i) == base_addrs[i]..(base_addrs[i] + GetSizeBytes(mem_areas[i]) - 1)

(* The vectors and the two maps describe the same areas after every call,   *)
(* so a registration that is refused, at whichever test, leaves no trace.   *)
RegistryAgrees ==
  /\ Len(mem_areas) = Len(names) /\ Len(base_addrs) = Len(names)
  /\ DOMAIN name_to_mem = {names[i] : i \in Registered}
  /\ \A i \in Registered : name_to_mem[names[i]] = i - 1
  /\ addr_to_mem = { Entry(base_addrs[i], AddrTop(base_addrs[i], mem_areas[i]), i - 1)
                     : i \in Registered }

(* No two areas share an address and none reaches past the address space,   *)
(* although EmplaceDisjoint() looks at two neighbours only.                 *)
AreasDisjoint ==
  /\ \A i \in Registered : AreaBytes(i) \subseteq 0..(AddrSpace - 1)
  /\ \A i, j \in Registered : i # j => AreaBytes(i) \cap AreaBytes(j) = {}

(* find() returns the area that contains an address, for every address.     *)
FindExact ==
  \A a \in 0..(AddrSpace - 1) :
    {e.val + 1 : e \in Find(addr_to_mem, a)} = {i \in Registered : a \in AreaBytes(i)}

(* What the documentation of RegisterMemoryArea() says of an overlap: it is *)
(* an exception the caller can handle.                                      *)
ClashThrows == outcome # "abort"
=============================================================================
