------------------------- MODULE DpiMemUtilProofs -------------------------
(***************************************************************************)
(* The registry of memory areas and the loading of files into them, for    *)
(* every address space, set of areas, sequence of registrations and file.  *)
(***************************************************************************)
EXTENDS DpiMemUtil, StagedMemProofs

-----------------------------------------------------------------------------
(* Division by the width of a word.                                         *)
LEMMA DivMod ==
  ASSUME NEW w \in Nat \ {0}, NEW x \in Nat
  PROVE  /\ x \div w \in Nat /\ x % w \in 0..(w - 1)
         /\ x = (x \div w) * w + (x % w)
BY SMTT(30)

LEMMA TimesWidth ==
  ASSUME NEW w \in Nat \ {0}, NEW a \in Int, NEW b \in Int
  PROVE  /\ a * w \in Int
         /\ a <= b <=> a * w <= b * w
         /\ a < b <=> a * w + w <= b * w
BY SMTT(30)

LEMMA DivBelow ==
  ASSUME NEW w \in Nat \ {0}, NEW x \in Nat, NEW p \in Int
  PROVE  /\ p * w \in Int
         /\ p * w <= x <=> p <= x \div w
         /\ x < p * w <=> x \div w < p
<1> DEFINE q  == x \div w
           r  == x % w
           pw == p * w
           qw == q * w
<1>1. q \in Nat /\ r \in 0..(w - 1) /\ x = qw + r
  BY DivMod
<1> HIDE DEF q, r
<1>2. /\ pw \in Int /\ qw \in Int
      /\ p <= q <=> pw <= qw
      /\ q < p <=> qw + w <= pw
  BY <1>1, TimesWidth
<1> HIDE DEF pw, qw
<1>3. (pw <= x <=> p <= q) /\ (x < pw <=> q < p)
  BY <1>1, <1>2
<1> QED
  BY <1>2, <1>3 DEF pw, q

(* The words that the bytes lo..hi fill, when lo starts word p: there are n *)
(* of them, and x is in one when its word starts in lo..hi.                 *)
AreWords(w, lo, hi, p, n) ==
  /\ n \in Nat \ {0}
  /\ \A s \in Nat : hi < s * w <=> p + n <= s
  /\ \A x \in Nat : /\ x \div w - p \in 0..(n - 1) <=> (x \div w) * w \in lo..hi
                    /\ (x \div w - p) * w + (1 + (x % w)) = x + 1 - lo

LEMMA SegmentWords ==
  ASSUME NEW w \in Nat \ {0}, NEW lo \in Nat, NEW hi \in Nat, lo <= hi,
         NEW p \in Nat, lo = p * w, NEW n, n = (1 + (hi - lo) + w - 1) \div w
  PROVE  AreWords(w, lo, hi, p, n)
<1> DEFINE h == hi \div w
           y == hi - lo + w
<1>1. y \in Nat /\ 1 + (hi - lo) + w - 1 = y
  OBVIOUS
<1>2. n = y \div w
  BY <1>1
<1>3. h \in Nat /\ \A c \in Int : c * w \in Int /\ (c * w <= hi <=> c <= h) /\ (hi < c * w <=> h < c)
  BY DivMod, DivBelow
<1>4. n \in Nat /\ \A c \in Int : c * w \in Int /\ (c * w <= y <=> c <= n)
  <2> HIDE DEF y
  <2> QED
    BY <1>1, <1>2, DivMod, DivBelow
<1> HIDE DEF h
<1>5. \A c \in Int : c * w <= y <=> (c + p - 1) * w <= hi
  <2> TAKE c \in Int
  <2> DEFINE cw == c * w
             dw == (c + p - 1) * w
  <2>1. cw \in Int /\ dw \in Int /\ dw = cw + lo - w
    BY <1>3, SMTT(30)
  <2> HIDE DEF cw, dw
  <2>2. cw <= y <=> dw <= hi
    BY <2>1
  <2> QED
    BY <2>2 DEF cw, dw
<1> HIDE DEF y
<1>6. \A c \in Int : c <= n <=> c + p - 1 <= h
  <2> TAKE c \in Int
  <2>1. c + p - 1 \in Int
    OBVIOUS
  <2>2. ((c + p - 1) * w <= hi <=> c + p - 1 <= h) /\ (c * w <= y <=> c <= n)
    BY <1>3, <1>4, <2>1
  <2> QED
    BY <1>5, <2>2
<1>7. n = h - p + 1
  <2>1. n \in Int /\ n <= n
    BY <1>4
  <2>2. n + p - 1 <= h
    BY <1>6, <2>1
  <2>3. h - p + 1 <= n <=> h - p + 1 + p - 1 <= h
    BY <1>3, <1>6
  <2> QED
    BY <1>3, <1>4, <2>2, <2>3
<1>8. p <= h
  BY <1>3
<1>9. \A s \in Nat : hi < s * w <=> p + n <= s
  BY <1>3, <1>7
<1>10. ASSUME NEW x \in Nat
       PROVE  /\ x \div w - p \in 0..(n - 1) <=> (x \div w) * w \in lo..hi
              /\ (x \div w - p) * w + (1 + (x % w)) = x + 1 - lo
  <2> DEFINE q  == x \div w
             r  == x % w
             qw == q * w
             dw == (q - p) * w
  <2>1. q \in Nat /\ r \in 0..(w - 1) /\ x = qw + r
    BY DivMod
  <2> HIDE DEF q, r
  <2>2. qw \in Int /\ dw \in Int /\ dw = qw - lo
    BY <2>1, SMTT(30)
  <2>3. (p <= q <=> lo <= qw) /\ (qw <= hi <=> q <= h)
    BY <1>3, <2>1, TimesWidth
  <2> HIDE DEF qw, dw
  <2>4. q - p \in 0..(n - 1) <=> qw \in lo..hi
    BY <1>3, <1>7, <2>1, <2>2, <2>3
  <2>5. dw + (1 + r) = x + 1 - lo
    BY <2>1, <2>2
  <2> QED
    BY <2>4, <2>5 DEF q, r, qw, dw
<1> QED
  BY <1>3, <1>4, <1>7, <1>8, <1>9, <1>10 DEF AreWords

-----------------------------------------------------------------------------
(* An area is as long as its words, and one that does not overflow ends     *)
(* where plain arithmetic puts its end, inside the address space.           *)
LEMMA SizeIsWords ==
  ASSUME NEW area \in DOMAIN Areas
  PROVE  GetSizeBytes(area) \in 1..(AddrSpace - 1)
<1>1. Areas[area].words \in Nat \ {0} /\ Areas[area].width \in Nat \ {0}
  BY RegistryAssumption
<1>2. Areas[area].words * Areas[area].width \in Nat \ {0}
  BY <1>1, SMTT(30)
<1>3. Areas[area].words * Areas[area].width \in 1..(AddrSpace - 1)
  BY <1>2, RegistryAssumption, AddrSpaceAssumption
<1> QED
  BY <1>3, WrapSmall, AddrSpaceAssumption DEF GetSizeBytes

LEMMA TopIsEnd ==
  ASSUME NEW base \in 0..(AddrSpace - 1), NEW area \in DOMAIN Areas,
         ~Overflows(base, area)
  PROVE  /\ AddrTop(base, area) = base + GetSizeBytes(area) - 1
         /\ AddrTop(base, area) \in base..(AddrSpace - 1)
<1> DEFINE size == GetSizeBytes(area)
<1>1. size \in 1..(AddrSpace - 1)
  BY SizeIsWords
<1> HIDE DEF size
<1>2. Wrap(size - 1) = size - 1
  BY <1>1, WrapSmall, AddrSpaceAssumption
<1>3. AddrTop(base, area) = Wrap(base + size - 1)
  BY <1>1, <1>2, AddrSpaceAssumption DEF AddrTop, size
<1>4. CASE base + size - 1 < AddrSpace
  <2>1. Wrap(base + size - 1) = base + size - 1
    BY <1>1, <1>4, WrapSmall, AddrSpaceAssumption
  <2> QED
    BY <1>1, <1>3, <1>4, <2>1, AddrSpaceAssumption DEF size
<1>5. CASE ~(base + size - 1 < AddrSpace)
  <2>1. Wrap(base + size - 1) = base + size - 1 - AddrSpace
    BY <1>1, <1>5, WrapOnce, AddrSpaceAssumption
  <2>2. AddrTop(base, area) < base
    BY <1>1, <1>3, <2>1, AddrSpaceAssumption
  <2> QED
    BY <2>2 DEF Overflows
<1> QED
  BY <1>4, <1>5

-----------------------------------------------------------------------------
(* The inductive invariant.  RegistryAgrees alone does not say that the     *)
(* ranges in the map are disjoint, which is what makes the two-neighbour    *)
(* test of EmplaceDisjoint() sufficient for the next registration.          *)
VectorsOK ==
  /\ mem_areas \in Seq(DOMAIN Areas)
  /\ base_addrs \in Seq(0..(AddrSpace - 1))
  /\ names \in Seq({c.name : c \in Candidates})
  /\ name_to_mem = [n \in DOMAIN name_to_mem |-> name_to_mem[n]]

NoneOverflows == \A i \in Registered : ~Overflows(base_addrs[i], mem_areas[i])

FromCandidates ==
  \A i \in Registered : \E c \in Candidates : names[i] = c.name /\ mem_areas[i] = c.area

RegistryInv ==
  /\ VectorsOK
  /\ RegistryAgrees
  /\ NoneOverflows
  /\ FromCandidates
  /\ DisjointRanges(addr_to_mem)

LEMMA InitInv == RegistryInit => RegistryInv
BY DEF RegistryInit, RegistryInv, VectorsOK, RegistryAgrees, NoneOverflows, FromCandidates,
       DisjointRanges, Registered

(* A refused registration that got as far as the map of names is undone.    *)
LEMMA EraseUndoes ==
  ASSUME NEW f, f = [n \in DOMAIN f |-> f[n]], NEW name, name \notin DOMAIN f,
         NEW val
  PROVE  Erase(AddName(f, name, val), name) = f
BY DEF Erase, AddName

(* Any registration, accepted or refused, keeps the invariant.              *)
LEMMA RegisterKeepsInv ==
  ASSUME RegistryInv, NEW c \in Candidates,
         RegisterMemoryArea(c.name, c.base, c.area)
  PROVE  RegistryInv'
<1> DEFINE name  == c.name
           base  == c.base
           area  == c.area
           top   == AddrTop(base, area)
           clash == Clash(addr_to_mem, base, top)
           n     == Len(names)
           new   == Entry(base, top, n)
<1>1. base \in 0..(AddrSpace - 1) /\ area \in DOMAIN Areas
  BY RegistryAssumption
<1>2. CASE UNCHANGED registry
  BY <1>2 DEF registry, RegistryInv, VectorsOK, RegistryAgrees, NoneOverflows,
              FromCandidates, DisjointRanges, Registered
<1>3. CASE /\ name \notin DOMAIN name_to_mem
           /\ name_to_mem' = Erase(AddName(name_to_mem, name, Len(mem_areas)), name)
           /\ UNCHANGED <<mem_areas, base_addrs, names, addr_to_mem>>
  <2>1. name_to_mem' = name_to_mem
    BY <1>3, EraseUndoes DEF RegistryInv, VectorsOK
  <2> QED
    BY <1>2, <1>3, <2>1 DEF registry
<1>4. CASE /\ ~Overflows(base, area)
           /\ name \notin DOMAIN name_to_mem
           /\ clash = {}
           /\ name_to_mem' = AddName(name_to_mem, name, Len(mem_areas))
           /\ addr_to_mem' = Insert(addr_to_mem, Entry(base, top, Len(mem_areas)))
           /\ mem_areas' = Append(mem_areas, area)
           /\ base_addrs' = Append(base_addrs, base)
           /\ names' = Append(names, name)
  <2>1. top \in base..(AddrSpace - 1)
    BY <1>1, <1>4, TopIsEnd
  <2>2. /\ mem_areas \in Seq(DOMAIN Areas)
        /\ base_addrs \in Seq(0..(AddrSpace - 1))
        /\ names \in Seq({d.name : d \in Candidates})
        /\ n \in Nat /\ Len(mem_areas) = n /\ Len(base_addrs) = n
    BY DEF RegistryInv, VectorsOK, RegistryAgrees
  <2>3. \A e \in addr_to_mem : e.hi < base \/ top < e.lo
    <3>1. base \in Nat /\ top \in Nat /\ base <= top
      BY <1>1, <2>1, AddrSpaceAssumption
    <3>2. DisjointRanges(addr_to_mem) /\ Clash(addr_to_mem, base, top) = {}
      BY <1>4 DEF RegistryInv
    <3> HIDE DEF base, top
    <3> QED
      BY <3>1, <3>2, ClashExact
  <2>4. addr_to_mem' = addr_to_mem \cup {new}
    <3>1. ~\E f \in addr_to_mem : f.lo = new.lo
      BY <1>1, <2>1, <2>3, AddrSpaceAssumption DEF RegistryInv, DisjointRanges, Entry
    <3> QED
      BY <1>4, <2>2, <3>1 DEF Insert
  <2>5. DisjointRanges(addr_to_mem)'
    <3>1. new.lo \in Nat /\ new.hi \in Nat /\ new.lo <= new.hi
      BY <1>1, <2>1, AddrSpaceAssumption DEF Entry
    <3>2. \A e \in addr_to_mem : e.hi < new.lo \/ new.hi < e.lo
      BY <2>3 DEF Entry
    <3> HIDE DEF new
    <3> QED
      BY <2>4, <3>1, <3>2 DEF RegistryInv, DisjointRanges
  <2>6. /\ Registered' = Registered \cup {n + 1}
        /\ mem_areas'[n + 1] = area /\ base_addrs'[n + 1] = base /\ names'[n + 1] = name
        /\ \A i \in Registered : /\ mem_areas'[i] = mem_areas[i]
                                  /\ base_addrs'[i] = base_addrs[i]
                                  /\ names'[i] = names[i]
                                  /\ i \in 1..n
    BY <1>1, <1>4, <2>2 DEF Registered
  <2>7. NoneOverflows'
    BY <1>4, <2>6 DEF RegistryInv, NoneOverflows, Overflows
  <2>8. VectorsOK'
    BY <1>1, <1>4, <2>2 DEF VectorsOK, AddName
  <2>9. RegistryAgrees'
    <3>1. /\ Len(mem_areas') = Len(names') /\ Len(base_addrs') = Len(names')
      BY <1>4, <2>2
    <3>2. DOMAIN name_to_mem' = {names'[i] : i \in Registered'}
      BY <1>4, <2>6 DEF RegistryInv, RegistryAgrees, AddName
    <3>3. \A i \in Registered' : name_to_mem'[names'[i]] = i - 1
      BY <1>4, <2>2, <2>6 DEF RegistryInv, RegistryAgrees, AddName
    <3>4. addr_to_mem' = { Entry(base_addrs'[i], AddrTop(base_addrs'[i], mem_areas'[i]), i - 1)
                           : i \in Registered' }
      BY <2>2, <2>4, <2>6 DEF RegistryInv, RegistryAgrees
    <3> QED
      BY <3>1, <3>2, <3>3, <3>4 DEF RegistryAgrees, AddrTop
  <2>10. FromCandidates'
    BY <2>6 DEF RegistryInv, FromCandidates
  <2> QED
    BY <2>5, <2>7, <2>8, <2>9, <2>10 DEF RegistryInv
<1> QED
  BY <1>2, <1>3, <1>4 DEF RegisterMemoryArea

-----------------------------------------------------------------------------
(* The base address and the size of the i-th area.                          *)
LEMMA AreaOfIndex ==
  ASSUME RegistryInv, NEW i \in Registered
  PROVE  /\ mem_areas[i] \in DOMAIN Areas
         /\ base_addrs[i] \in 0..(AddrSpace - 1)
         /\ GetSizeBytes(mem_areas[i]) \in 1..(AddrSpace - 1)
         /\ AddrTop(base_addrs[i], mem_areas[i])
              = base_addrs[i] + GetSizeBytes(mem_areas[i]) - 1
         /\ base_addrs[i] + GetSizeBytes(mem_areas[i]) - 1 < AddrSpace
<1>1. base_addrs[i] \in 0..(AddrSpace - 1) /\ mem_areas[i] \in DOMAIN Areas
  <2> DEFINE Addr == 0..(AddrSpace - 1)
  <2>1. i \in 1..Len(base_addrs) /\ i \in 1..Len(mem_areas)
    BY DEF RegistryInv, RegistryAgrees, Registered
  <2>2. /\ base_addrs \in Seq(Addr)
        /\ mem_areas \in Seq(DOMAIN Areas)
    BY DEF RegistryInv, VectorsOK
  <2>3. base_addrs[i] \in Addr /\ mem_areas[i] \in DOMAIN Areas
    <3> HIDE DEF Addr
    <3> QED
      BY <2>1, <2>2
  <2> QED
    BY <2>3
<1>2. ~Overflows(base_addrs[i], mem_areas[i])
  BY DEF RegistryInv, NoneOverflows
<1>3. /\ AddrTop(base_addrs[i], mem_areas[i])
           = base_addrs[i] + GetSizeBytes(mem_areas[i]) - 1
      /\ AddrTop(base_addrs[i], mem_areas[i]) \in base_addrs[i]..(AddrSpace - 1)
  BY <1>1, <1>2, TopIsEnd
<1>4. GetSizeBytes(mem_areas[i]) \in 1..(AddrSpace - 1)
  BY <1>1, SizeIsWords
<1> QED
  BY <1>1, <1>3, <1>4, AddrSpaceAssumption

(* The entry of the i-th area spans its bytes.                              *)
LEMMA EntryOfArea ==
  ASSUME RegistryInv, NEW i \in Registered
  PROVE  LET e == Entry(base_addrs[i], AddrTop(base_addrs[i], mem_areas[i]), i - 1)
         IN  /\ e \in addr_to_mem
             /\ e.lo \in 0..(AddrSpace - 1) /\ e.hi \in 0..(AddrSpace - 1)
             /\ AreaBytes(i) = e.lo..e.hi
BY AreaOfIndex, AddrSpaceAssumption DEF RegistryInv, RegistryAgrees, Entry, AreaBytes

(* Disjoint entries are disjoint areas.                                     *)
LEMMA AreasAreDisjoint == RegistryInv => AreasDisjoint
<1> SUFFICES ASSUME RegistryInv PROVE AreasDisjoint
  OBVIOUS
<1>1. ASSUME NEW i \in Registered PROVE AreaBytes(i) \subseteq 0..(AddrSpace - 1)
  BY EntryOfArea, AddrSpaceAssumption
<1>2. ASSUME NEW i \in Registered, NEW j \in Registered, i # j
      PROVE  AreaBytes(i) \cap AreaBytes(j) = {}
  <2> DEFINE E(k) == Entry(base_addrs[k], AddrTop(base_addrs[k], mem_areas[k]), k - 1)
  <2>1. E(i) # E(j)
    BY <1>2 DEF Entry, Registered
  <2>2. /\ E(i) \in addr_to_mem /\ E(j) \in addr_to_mem
        /\ AreaBytes(i) = E(i).lo..E(i).hi /\ AreaBytes(j) = E(j).lo..E(j).hi
    BY EntryOfArea
  <2> HIDE DEF E
  <2> QED
    BY <2>1, <2>2 DEF RegistryInv, DisjointRanges
<1> QED
  BY <1>1, <1>2 DEF AreasDisjoint

(* The range that find() returns is the area that contains the address.     *)
LEMMA FindFindsAreas == RegistryInv => FindExact
<1> SUFFICES ASSUME RegistryInv PROVE FindExact
  OBVIOUS
<1>1. SUFFICES ASSUME NEW a \in 0..(AddrSpace - 1)
               PROVE  {e.val + 1 : e \in Find(addr_to_mem, a)}
                        = {i \in Registered : a \in AreaBytes(i)}
  BY DEF FindExact
<1> DEFINE E(k) == Entry(base_addrs[k], AddrTop(base_addrs[k], mem_areas[k]), k - 1)
<1>2. Find(addr_to_mem, a) = {e \in addr_to_mem : e.lo <= a /\ a <= e.hi}
  BY FindIsContaining, AddrSpaceAssumption DEF RegistryInv
<1>3. addr_to_mem = {E(i) : i \in Registered}
  BY DEF RegistryInv, RegistryAgrees
<1>4. \A i \in Registered : /\ E(i).val + 1 = i
                            /\ a \in AreaBytes(i) <=> E(i).lo <= a /\ a <= E(i).hi
  <2> TAKE i \in Registered
  <2>1. E(i).val + 1 = i
    BY DEF Entry, Registered
  <2>2. AreaBytes(i) = E(i).lo..E(i).hi
        /\ E(i).lo \in 0..(AddrSpace - 1) /\ E(i).hi \in 0..(AddrSpace - 1)
    BY EntryOfArea
  <2> HIDE DEF E
  <2> QED
    BY <2>1, <2>2, AddrSpaceAssumption
<1> HIDE DEF E
<1> QED
  BY <1>2, <1>3, <1>4


(* Two indices never have the same name or the same memory.                 *)
LEMMA IndicesDiffer ==
  ASSUME RegistryInv, NEW i \in Registered, NEW j \in Registered, i # j
  PROVE  names[i] # names[j] /\ mem_areas[i] # mem_areas[j]
<1>1. names[i] # names[j]
  <2>1. name_to_mem[names[i]] = i - 1 /\ name_to_mem[names[j]] = j - 1
    BY DEF RegistryInv, RegistryAgrees
  <2>2. i \in Int /\ j \in Int
    BY DEF Registered
  <2> QED
    BY <2>1, <2>2
<1>2. PICK c \in Candidates : names[i] = c.name /\ mem_areas[i] = c.area
  BY DEF RegistryInv, FromCandidates
<1>3. PICK d \in Candidates : names[j] = d.name /\ mem_areas[j] = d.area
  BY DEF RegistryInv, FromCandidates
<1> QED
  BY <1>1, <1>2, <1>3, MemoriesAssumption

(* A name of the map is that of the area that it leads to.                  *)
LEMMA NameLeadsBack ==
  ASSUME RegistryInv, NEW name \in DOMAIN name_to_mem
  PROVE  name_to_mem[name] + 1 \in Registered /\ names[name_to_mem[name] + 1] = name
<1>1. PICK i \in Registered : name = names[i]
  BY DEF RegistryInv, RegistryAgrees
<1>2. name_to_mem[name] = i - 1 /\ i \in Int
  BY <1>1 DEF RegistryInv, RegistryAgrees, Registered
<1>3. name_to_mem[name] + 1 = i
  BY <1>2
<1> QED
  BY <1>1, <1>3

(* GetRegionForSegment() lets a segment through only if all of it is inside *)
(* one area: neither of the sums it computes has wrapped around.            *)
LEMMA RegionHoldsSegment ==
  ASSUME RegistryInv, NEW ph \in PhdrType, ph.filesz # 0,
         NEW idx \in GetRegionForSegment(ph.paddr, ph.filesz), NEW i, i = idx + 1
  PROVE  /\ i \in Registered
         /\ base_addrs[i] <= ph.paddr
         /\ ph.paddr + ph.filesz <= base_addrs[i] + GetSizeBytes(mem_areas[i])
         /\ Wrap(ph.paddr - base_addrs[i]) = ph.paddr - base_addrs[i]
<1> DEFINE lma == ph.paddr
           sz  == ph.filesz
           sum == lma + (sz - 1)
           top == Wrap(sum)
<1>1. lma \in 0..(AddrSpace - 1) /\ sz \in 1..(AddrSpace - 1)
  BY DEF PhdrType
<1>2. PICK f \in Find(addr_to_mem, lma) :
        /\ idx = f.val /\ top >= lma
        /\ GetSizeBytes(mem_areas[f.val + 1]) > Wrap(top - base_addrs[f.val + 1])
  BY DEF GetRegionForSegment
<1>3. i \in Registered /\ lma \in AreaBytes(i)
  <2>1. f.val + 1 \in {j \in Registered : lma \in AreaBytes(j)}
    BY <1>1, FindFindsAreas DEF FindExact
  <2> QED
    BY <1>2, <2>1
<1> DEFINE base == base_addrs[i]
           size == GetSizeBytes(mem_areas[i])
<1>4. /\ base \in 0..(AddrSpace - 1) /\ size \in 1..(AddrSpace - 1)
      /\ lma \in base..(base + size - 1)
  BY <1>3, AreaOfIndex DEF AreaBytes
<1>5. size > Wrap(top - base) /\ top >= lma
  BY <1>2
<1> HIDE DEF lma, sz, top, base, size
<1>6. CASE sum < AddrSpace
  <2>1. top = sum
    BY <1>1, <1>6, WrapSmall, AddrSpaceAssumption DEF top
  <2>2. Wrap(top - base) = top - base
    BY <1>1, <1>4, <1>6, <2>1, WrapSmall, AddrSpaceAssumption
  <2>3. Wrap(lma - base) = lma - base
    BY <1>1, <1>4, WrapSmall, AddrSpaceAssumption
  <2>4. base <= lma /\ lma + sz <= base + size
    BY <1>1, <1>4, <1>5, <2>1, <2>2
  <2> QED
    BY <1>3, <2>3, <2>4 DEF lma, sz, base, size
<1>7. CASE ~(sum < AddrSpace)
  <2>1. top = sum - AddrSpace
    BY <1>1, <1>7, WrapOnce, AddrSpaceAssumption DEF top
  <2> QED
    BY <1>1, <1>5, <2>1, AddrSpaceAssumption
<1> QED
  BY <1>6, <1>7

-----------------------------------------------------------------------------
(* A program header of a file.                                              *)
LEMMA PhdrOfFile ==
  ASSUME NEW file \in Files, NEW i \in DOMAIN file.phdrs
  PROVE  /\ i \in Nat \ {0} /\ i <= Len(file.phdrs)
         /\ file.phdrs[i] \in PhdrType
         /\ file.phdrs[i].paddr \in Nat /\ file.phdrs[i].paddr < AddrSpace
         /\ file.phdrs[i].filesz \in Nat /\ file.phdrs[i].filesz < AddrSpace
         /\ file.phdrs[i].offset \in Nat
<1>1. file.phdrs \in Seq(PhdrType)
  BY FilesAssumption
<1>2. i \in 1..Len(file.phdrs) /\ Len(file.phdrs) \in Nat
  BY <1>1
<1>3. file.phdrs[i] \in PhdrType
  <2> HIDE DEF PhdrType
  <2> QED
    BY <1>1, <1>2
<1> QED
  BY <1>2, <1>3, AddrSpaceAssumption DEF PhdrType

(* The byte that the first n program headers put at address a: that of the  *)
(* last of them that covers it.                                             *)
LastByte(file, n, a, v) ==
  \E i \in Covering(file, a) :
    /\ i <= n
    /\ \A j \in Covering(file, a) : j <= n => j <= i
    /\ v = file.phdrs[i].offset + 1 + (a - file.phdrs[i].paddr)

(* segs holds exactly what the first n program headers put into the bytes   *)
(* base..base+size-1.                                                       *)
IsImage(segs, file, n, base, size) ==
  /\ IsSegs(segs, Nat)
  /\ \A e \in segs : e.hi < size
  /\ \A e \in segs : \A o \in e.lo..e.hi : LastByte(file, n, base + o, At(e, o))
  /\ \A o \in 0..(size - 1) :
       (\E j \in Covering(file, base + o) : j <= n) => \E e \in segs : o \in e.lo..e.hi

LEMMA ImageSkip ==
  ASSUME NEW file \in Files, NEW n \in Nat, NEW base \in Nat, NEW size \in Nat, NEW segs,
         IsImage(segs, file, n, base, size),
         \A o \in 0..(size - 1) : n + 1 \notin Covering(file, base + o)
  PROVE  IsImage(segs, file, n + 1, base, size)
<1>1. \A o \in 0..(size - 1) : \A j \in Covering(file, base + o) : j \in Nat /\ (j <= n + 1 <=> j <= n)
  <2> TAKE o \in 0..(size - 1)
  <2> TAKE j \in Covering(file, base + o)
  <2>1. j \in Nat
    BY PhdrOfFile DEF Covering, Used
  <2> QED
    BY <2>1
<1>2. ASSUME NEW e \in segs, NEW o \in e.lo..e.hi
      PROVE  LastByte(file, n + 1, base + o, At(e, o))
  <2>1. o \in 0..(size - 1)
    BY DEF IsImage, IsSegs, IsSeg
  <2>2. LastByte(file, n, base + o, At(e, o))
    BY DEF IsImage
  <2> QED
    BY <1>1, <2>1, <2>2 DEF LastByte
<1>3. \A o \in 0..(size - 1) :
         (\E j \in Covering(file, base + o) : j <= n + 1) => \E e \in segs : o \in e.lo..e.hi
  BY <1>1 DEF IsImage
<1> QED
  BY <1>2, <1>3 DEF IsImage

LEMMA ImageWrite ==
  ASSUME NEW file \in Files, NEW n \in Nat, NEW base \in Nat, NEW size \in Nat, NEW segs,
         IsImage(segs, file, n, base, size),
         n + 1 \in Used(file), NEW ph, ph = file.phdrs[n + 1],
         NEW lo \in Nat, ph.paddr = base + lo,
         NEW hi, hi = lo + ph.filesz - 1, hi < size,
         NEW bytes, bytes = [k \in 1..ph.filesz |-> ph.offset + k],
         NEW res, IsWrite(res, segs, Entry(lo, hi, bytes), Nat)
  PROVE  IsImage(res, file, n + 1, base, size)
<1> DEFINE new == Entry(lo, hi, bytes)
           off == ph.offset
           sz  == ph.filesz
           pa  == ph.paddr
<1>0. sz \in Nat \ {0} /\ off \in Nat
  BY PhdrOfFile DEF Used
<1>1. /\ pa = base + lo /\ sz \in Nat \ {0} /\ off \in Nat
      /\ hi \in Nat /\ lo <= hi /\ hi = lo + sz - 1
  <2>1. pa = base + lo /\ hi = lo + sz - 1
    OBVIOUS
  <2> HIDE DEF off, sz, pa
  <2>2. hi \in Nat /\ lo <= hi
    BY <1>0, <2>1
  <2> QED
    BY <1>0, <2>1, <2>2
<1> HIDE DEF off, sz, pa
<1>2. new.lo = lo /\ new.hi = hi /\ \A o \in lo..hi : At(new, o) = off + 1 + (o - lo)
  <2>1. new.lo = lo /\ new.hi = hi /\ new.val = bytes
    BY DEF Entry
  <2>2. ASSUME NEW o \in lo..hi
        PROVE  At(new, o) = off + 1 + (o - lo)
    <3>1. o - lo + 1 \in 1..sz /\ off + (o - lo + 1) = off + 1 + (o - lo)
      BY <1>1
    <3>2. At(new, o) = bytes[o - lo + 1]
      BY <2>1 DEF At
    <3>3. \A k \in 1..sz : bytes[k] = off + k
      BY DEF sz, off
    <3>4. bytes[o - lo + 1] = off + (o - lo + 1)
      BY <3>1, <3>3
    <3> HIDE DEF new
    <3> QED
      BY <3>1, <3>2, <3>4
  <2> QED
    BY <2>1, <2>2
<1>3. /\ IsSegs(res, Nat)
      /\ \A e \in segs : \A o \in e.lo..e.hi : \E f \in res : o \in f.lo..f.hi
      /\ \E f \in res : f.lo <= lo /\ hi <= f.hi
      /\ \A f \in res : \A o \in f.lo..f.hi :
           IF o \in lo..hi THEN At(f, o) = At(new, o)
           ELSE \E e \in segs : o \in e.lo..e.hi /\ At(f, o) = At(e, o)
  <2>1. IsWrite(res, segs, new, Nat)
    OBVIOUS
  <2>2. new.lo = lo /\ new.hi = hi
    BY <1>2
  <2> HIDE DEF new
  <2>3. IsSegs(res, Nat) /\ \A e \in segs : \A o \in e.lo..e.hi : \E f \in res : o \in f.lo..f.hi
    BY <2>1, Zenon DEF IsWrite
  <2>4. \E f \in res : f.lo <= lo /\ hi <= f.hi
    BY <2>1, <2>2, Zenon DEF IsWrite
  <2> DEFINE span == new.lo..new.hi
  <2>5. \A f \in res : \A o \in f.lo..f.hi :
          IF o \in span THEN At(f, o) = At(new, o)
          ELSE \E e \in segs : o \in e.lo..e.hi /\ At(f, o) = At(e, o)
    BY <2>1, Zenon DEF IsWrite
  <2>6. span = lo..hi
    BY <2>2
  <2> HIDE DEF span
  <2> QED
    BY <2>3, <2>4, <2>5, <2>6
<1> HIDE DEF new
<1>4. \A o \in 0..(size - 1) : \A j \in Covering(file, base + o) : j \in Nat
  BY PhdrOfFile DEF Covering, Used
<1>5. \A o \in Nat : n + 1 \in Covering(file, base + o) <=> o \in lo..hi
  <2> TAKE o \in Nat
  <2>1. base + o - pa = o - lo
    BY <1>1
  <2>2. o - lo \in 0..(sz - 1) <=> o \in lo..hi
    BY <1>1
  <2>3. n + 1 \in Covering(file, base + o) <=> base + o - pa \in 0..(sz - 1)
    BY DEF Covering, pa, sz
  <2> QED
    BY <2>1, <2>2, <2>3
<1>6. \A f \in res : f.lo \in Nat /\ f.hi \in Nat /\ f.lo <= f.hi
  BY <1>3 DEF IsSegs, IsSeg
<1>7. \A e \in segs : e.lo \in Nat /\ e.hi \in Nat /\ e.hi < size
  BY DEF IsImage, IsSegs, IsSeg
<1>8. ASSUME NEW f \in res
      PROVE  f.hi < size
  <2>1. f.hi \in f.lo..f.hi
    BY <1>6
  <2>2. CASE f.hi \in lo..hi
    BY <1>1, <1>6, <2>2
  <2>3. CASE f.hi \notin lo..hi
    <3>1. PICK e \in segs : f.hi \in e.lo..e.hi
      BY <1>3, <2>1, <2>3
    <3> QED
      BY <1>6, <1>7, <3>1
  <2> QED
    BY <2>2, <2>3
<1>9. ASSUME NEW f \in res, NEW o \in f.lo..f.hi
      PROVE  LastByte(file, n + 1, base + o, At(f, o))
  <2>1. o \in 0..(size - 1)
    BY <1>6, <1>8
  <2>2. CASE o \in lo..hi
    <3>1. At(f, o) = off + 1 + (base + o - pa)
      <4>1. At(f, o) = off + 1 + (o - lo)
        BY <1>2, <1>3, <2>2
      <4>2. base + o - pa = o - lo
        BY <1>1, <2>1
      <4> QED
        BY <4>1, <4>2
    <3>2. n + 1 \in Covering(file, base + o) /\ n + 1 <= n + 1
      <4>1. o \in Nat
        BY <2>1
      <4>2. n + 1 \in Covering(file, base + o)
        BY <1>5, <2>2, <4>1
      <4>3. n + 1 <= n + 1
        OBVIOUS
      <4> QED
        BY <4>2, <4>3
    <3> QED
      BY <3>1, <3>2 DEF LastByte, off, pa
  <2>3. CASE o \notin lo..hi
    <3>1. PICK e \in segs : o \in e.lo..e.hi /\ At(f, o) = At(e, o)
      BY <1>3, <2>3
    <3>2. LastByte(file, n, base + o, At(f, o))
      BY <3>1 DEF IsImage
    <3>3. \A j \in Covering(file, base + o) : j <= n + 1 <=> j <= n
      <4>1. o \in Nat
        BY <2>1
      <4>2. n + 1 \notin Covering(file, base + o)
        BY <1>5, <2>3, <4>1
      <4>3. \A j \in Covering(file, base + o) : j \in Nat /\ j # n + 1
        BY <1>4, <2>1, <4>2
      <4> QED
        BY <4>3
    <3> QED
      BY <3>2, <3>3 DEF LastByte
  <2> QED
    BY <2>2, <2>3
<1>10. ASSUME NEW o \in 0..(size - 1), NEW j \in Covering(file, base + o), j <= n + 1
       PROVE  \E f \in res : o \in f.lo..f.hi
  <2>1. CASE j <= n
    <3>1. PICK e \in segs : o \in e.lo..e.hi
      BY <2>1 DEF IsImage
    <3> QED
      BY <1>3, <3>1
  <2>2. CASE j = n + 1
    <3>1. o \in lo..hi
      <4>1. o \in Nat
        OBVIOUS
      <4> QED
        BY <1>5, <2>2, <4>1
    <3>2. PICK f \in res : f.lo <= lo /\ hi <= f.hi
      BY <1>3
    <3>3. f.lo \in Nat /\ f.hi \in Nat
      BY <1>6
    <3>4. o \in Int /\ lo <= o /\ o <= hi /\ lo \in Int /\ hi \in Int
      BY <1>1, <3>1
    <3>5. o \in f.lo..f.hi
      BY <3>2, <3>3, <3>4
    <3> QED
      BY <3>5
  <2>3. j <= n \/ j = n + 1
    <3>1. j \in Nat
      BY <1>4
    <3> QED
      BY <1>10, <3>1
  <2> QED
    BY <2>1, <2>2, <2>3
<1> QED
  BY <1>3, <1>8, <1>9, <1>10 DEF IsImage

-----------------------------------------------------------------------------
(* The loop over the program headers, as the recursion that it is.          *)
LEMMA StageLoopRounds ==
  ASSUME NEW file \in Files
  PROVE  LET loop == StageLoop(file) IN
         /\ loop[0] = [staged |-> Cleared, ok |-> file.valid]
         /\ \A n \in 1..Len(file.phdrs) : loop[n] = StageSegment(file, loop[n - 1], file.phdrs[n])
<1> DEFINE first == [staged |-> Cleared, ok |-> file.valid]
           Is(g, k) == g = [n \in 0..k |-> IF n = 0 THEN first ELSE StageSegment(file, g[n - 1], file.phdrs[n])]
           S == {k \in Nat : \E g : Is(g, k)}
<1>1. 0 \in S
  <2> DEFINE g == [n \in 0..0 |-> first]
  <2>1. Is(g, 0)
    OBVIOUS
  <2> QED
    BY <2>1
<1>2. ASSUME NEW k \in S
      PROVE  k + 1 \in S
  <2>1. PICK g : Is(g, k)
    OBVIOUS
  <2> DEFINE h == [n \in 0..(k + 1) |-> IF n = k + 1 THEN StageSegment(file, g[k], file.phdrs[k + 1]) ELSE g[n]]
  <2>2. \A n \in 0..k : h[n] = g[n]
    OBVIOUS
  <2>3. \A n \in 0..(k + 1) : h[n] = IF n = 0 THEN first ELSE StageSegment(file, h[n - 1], file.phdrs[n])
    <3> TAKE n \in 0..(k + 1)
    <3>1. CASE n = k + 1
      BY <2>2, <3>1
    <3>2. CASE n # k + 1 /\ n # 0
      <4>1. n \in 0..k /\ n - 1 \in 0..k
        BY <3>2
      <4> QED
        BY <2>1, <2>2, <3>2, <4>1
    <3>3. CASE n = 0
      BY <2>1, <2>2, <3>3
    <3> QED
      BY <3>1, <3>2, <3>3
  <2>4. Is(h, k + 1)
    BY <2>3
  <2> HIDE DEF h
  <2> QED
    BY <2>4
<1>3. \A k \in Nat : \E g : Is(g, k)
  <2> HIDE DEF Is
  <2>1. \A k \in Nat : k \in S
    BY <1>1, <1>2, SetInduction
  <2> QED
    BY <2>1
<1> DEFINE N == Len(file.phdrs)
<1>4. N \in Nat
  BY FilesAssumption
<1>5. StageLoop(file) = CHOOSE g : Is(g, N)
  BY Zenon DEF StageLoop
<1>6. Is(StageLoop(file), N)
  <2> HIDE DEF Is, N
  <2> QED
    BY <1>3, <1>4, <1>5
<1> DEFINE loop == StageLoop(file)
<1> HIDE DEF N, first, loop
<1>7. \A n \in 0..N : loop[n] = IF n = 0 THEN first ELSE StageSegment(file, loop[n - 1], file.phdrs[n])
  BY <1>4, <1>6 DEF loop
<1>8. loop[0] = first /\ \A n \in 1..N : loop[n] = StageSegment(file, loop[n - 1], file.phdrs[n])
  BY <1>4, <1>7
<1> QED
  BY <1>8 DEF N, loop, first

(* The segments staged for a memory.                                        *)
SegsOf(staged, name) == IF name \in DOMAIN staged THEN staged[name].segs ELSE {}

(* What is staged is, for every area, what the first n program headers put  *)
(* into it, in ranges that start at a word.                                 *)
StagedOK(file, n, staged) ==
  /\ DOMAIN staged \subseteq DOMAIN name_to_mem
  /\ IsFiniteSet(DOMAIN staged)
  /\ \A i \in Registered :
       /\ IsImage(SegsOf(staged, names[i]), file, n, base_addrs[i], GetSizeBytes(mem_areas[i]))
       /\ \A e \in SegsOf(staged, names[i]) : e.lo % Areas[mem_areas[i]].width = 0

LEMMA NothingStaged ==
  ASSUME RegistryInv, NEW file \in Files
  PROVE  StagedOK(file, 0, <<>>)
<1>1. DOMAIN <<>> = {}
  OBVIOUS
<1>2. \A name : SegsOf(<<>>, name) = {}
  BY <1>1 DEF SegsOf
<1>3. ASSUME NEW i \in Registered
      PROVE  IsImage({}, file, 0, base_addrs[i], GetSizeBytes(mem_areas[i]))
  <2>1. IsSegs({}, Nat)
    BY FS_EmptySet DEF IsSegs
  <2>2. \A a : \A j \in Covering(file, a) : ~(j <= 0)
    BY PhdrOfFile DEF Covering, Used
  <2> QED
    BY <2>1, <2>2 DEF IsImage
<1> QED
  BY <1>1, <1>2, <1>3, FS_EmptySet DEF StagedOK

(* The segment that an iteration of StageElf() adds when it does not throw. *)
Adds(file, S, ph, idx, staged) ==
  LET name == names[idx + 1]
      lo   == Wrap(ph.paddr - base_addrs[idx + 1])
      old  == IF name \in DOMAIN S THEN S[name] ELSE EmptyStagedMem
  IN  /\ Aligned(mem_areas[idx + 1], lo)
      /\ ~(file.size < ph.offset + ph.filesz)
      /\ staged = [m \in DOMAIN S \cup {name} |->
                     IF m = name THEN AddSegment(old, lo, FileBytes(file, ph)) ELSE S[m]]

LEMMA StageSegmentAdds ==
  ASSUME NEW file, NEW st, NEW S, st = [staged |-> S, ok |-> TRUE],
         NEW ph, ph.load, ph.filesz # 0,
         NEW new, new = StageSegment(file, st, ph), new.ok
  PROVE  \E idx \in GetRegionForSegment(ph.paddr, ph.filesz) :
           Adds(file, S, ph, idx, new.staged)
<1> DEFINE idxs == GetRegionForSegment(ph.paddr, ph.filesz)
           idx  == CHOOSE i \in idxs : TRUE
           name == names[idx + 1]
           lo   == Wrap(ph.paddr - base_addrs[idx + 1])
           old  == IF name \in DOMAIN S THEN S[name] ELSE EmptyStagedMem
           add  == AddSegment(old, lo, FileBytes(file, ph))
           res  == [m \in DOMAIN S \cup {name} |-> IF m = name THEN add ELSE S[m]]
           bad  == \/ idxs = {} \/ ~Aligned(mem_areas[idx + 1], lo)
                   \/ file.size < ph.offset + ph.filesz
<1>1. st.ok /\ st.staged = S
  OBVIOUS
<1>2. new = IF bad THEN [st EXCEPT !.ok = FALSE] ELSE [st EXCEPT !.staged = res]
  BY <1>1, Zenon DEF StageSegment
<1> HIDE DEF bad, res
<1>3. ~bad /\ new.staged = res
  BY <1>2
<1>4. idxs # {} /\ Aligned(mem_areas[idx + 1], lo) /\ ~(file.size < ph.offset + ph.filesz)
  BY <1>3 DEF bad
<1>5. idx \in idxs
  BY <1>4
<1>6. new.staged = [m \in DOMAIN S \cup {name} |-> IF m = name THEN add ELSE S[m]]
  BY <1>3 DEF res
<1> HIDE DEF idx, idxs
<1> QED
  BY <1>4, <1>5, <1>6, Zenon DEF idxs, Adds

(* A segment that is added to the area that holds it.                       *)
LEMMA ImageAdd ==
  ASSUME NEW file \in Files, NEW n \in Nat, n + 1 \in Used(file),
         NEW ph, ph = file.phdrs[n + 1], ph.offset + ph.filesz <= file.size,
         NEW base \in Nat, NEW size \in Nat, NEW sm, IsImage(sm.segs, file, n, base, size),
         NEW lo \in Nat, ph.paddr = base + lo,
         NEW top, top = lo + ph.filesz - 1, top < size, size <= AddrSpace,
         NEW res, res = AddSegment(sm, lo, FileBytes(file, ph))
  PROVE  /\ IsImage(res.segs, file, n + 1, base, size)
         /\ \A f \in res.segs : f.lo = lo \/ \E e \in sm.segs : f.lo = e.lo
         /\ res.min_addr = IF lo < sm.min_addr THEN lo ELSE sm.min_addr
         /\ res.max_addr = IF top > sm.max_addr THEN top ELSE sm.max_addr
<1> DEFINE bytes == FileBytes(file, ph)
           sz  == ph.filesz
           off == ph.offset
           new == Entry(lo, top, bytes)
<1>1. /\ sz \in Nat \ {0} /\ off \in Nat /\ file.size \in Nat
      /\ off + sz <= file.size /\ top = lo + sz - 1
  BY PhdrOfFile, FilesAssumption DEF Used
<1>2. bytes = [k \in 1..sz |-> off + k]
  <2> DEFINE last == file.size
  <2>1. bytes = [k \in 1..sz |-> IF off + k <= last THEN off + k ELSE Stray]
    BY DEF FileBytes
  <2> HIDE DEF sz, off, bytes, last
  <2>2. \A k \in 1..sz : off + k <= last
    BY <1>1 DEF last
  <2> QED
    BY <2>1, <2>2
<1>3. res = AddSegment(sm, lo, bytes)
  OBVIOUS
<1> HIDE DEF bytes, sz, off
<1>4. new.lo = lo /\ new.hi = top /\ new.val = bytes
  BY DEF Entry
<1>5. IsSeg(new, Nat)
  <2>1. lo \in Nat /\ top \in Nat /\ lo <= top /\ 1 + (top - lo) = sz
    BY <1>1
  <2>2. bytes \in [1..sz -> Nat]
    <3>1. \A k \in 1..sz : off + k \in Nat
      BY <1>1
    <3> QED
      BY <1>2, <3>1
  <2> HIDE DEF new
  <2> QED
    BY <1>4, <2>1, <2>2 DEF IsSeg
<1>6. IsSegs(sm.segs, Nat) /\ top < AddrSpace
  BY <1>1, AddrSpaceAssumption DEF IsImage
<1>7. IsAdded(res, sm, new, Nat)
  BY <1>3, <1>5, <1>6, AddSegmentExact
<1>8. IsImage(res.segs, file, n + 1, base, size)
  <2>1. IsWrite(res.segs, sm.segs, Entry(lo, top, bytes), Nat)
    BY <1>7 DEF IsAdded
  <2>2. bytes = [k \in 1..ph.filesz |-> ph.offset + k]
    BY <1>2 DEF sz, off
  <2> QED
    BY <2>1, <2>2, ImageWrite
<1> HIDE DEF new
<1>9. \A f \in res.segs : f.lo = lo \/ \E e \in sm.segs : f.lo = e.lo
  BY <1>4, <1>7 DEF IsAdded, IsWrite
<1>10. /\ res.min_addr = IF lo < sm.min_addr THEN lo ELSE sm.min_addr
       /\ res.max_addr = IF top > sm.max_addr THEN top ELSE sm.max_addr
  BY <1>4, <1>7 DEF IsAdded
<1> QED
  BY <1>8, <1>9, <1>10

(* An iteration that does not throw: the segment lies in one area, which    *)
(* gets its bytes, and in no other.                                         *)
LEMMA StageOne ==
  ASSUME RegistryInv, NEW file \in Files, NEW n \in Nat, n + 1 \in DOMAIN file.phdrs,
         NEW S, StagedOK(file, n, S), NEW st, st = [staged |-> S, ok |-> TRUE],
         NEW new, new = StageSegment(file, st, file.phdrs[n + 1]), new.ok
  PROVE  StagedOK(file, n + 1, new.staged)
<1> DEFINE ph == file.phdrs[n + 1]
           B(i) == base_addrs[i]
           Z(i) == GetSizeBytes(mem_areas[i])
<1>0. \A i \in Registered : B(i) \in Nat /\ Z(i) \in Nat /\ B(i) + Z(i) <= AddrSpace
  BY AreaOfIndex, AddrSpaceAssumption
<1>1. CASE n + 1 \notin Used(file)
  <2>1. new = st
    BY <1>1, Zenon DEF Used, StageSegment
  <2>2. \A a : n + 1 \notin Covering(file, a)
    BY <1>1 DEF Covering
  <2>3. new.staged = S
    BY <2>1
  <2>4. \A i \in Registered : IsImage(SegsOf(S, names[i]), file, n + 1, B(i), Z(i))
    <3> TAKE i \in Registered
    <3>1. IsImage(SegsOf(S, names[i]), file, n, B(i), Z(i))
      BY DEF StagedOK
    <3> HIDE DEF B, Z
    <3> QED
      BY <1>0, <2>2, <3>1, ImageSkip
  <2> QED
    BY <2>3, <2>4 DEF StagedOK
<1>2. CASE n + 1 \in Used(file)
  <2>1. /\ ph \in PhdrType /\ ph.load /\ ph.filesz # 0 /\ ph.filesz \in Nat /\ ph.paddr \in Nat
        /\ ph.offset \in Nat /\ file.size \in Nat
    BY <1>2, PhdrOfFile, FilesAssumption DEF Used
  <2>2. PICK idx \in GetRegionForSegment(ph.paddr, ph.filesz) :
          Adds(file, S, ph, idx, new.staged)
    BY <2>1, StageSegmentAdds
  <2> DEFINE r    == idx + 1
             name == names[r]
             lo   == ph.paddr - B(r)
             top  == lo + ph.filesz - 1
             old  == IF name \in DOMAIN S THEN S[name] ELSE EmptyStagedMem
             add  == AddSegment(old, lo, FileBytes(file, ph))
  <2>3. /\ r \in Registered /\ B(r) <= ph.paddr
        /\ ph.paddr + ph.filesz <= B(r) + Z(r)
        /\ Wrap(ph.paddr - base_addrs[r]) = lo
    BY <2>1, RegionHoldsSegment
  <2>4. /\ lo % Areas[mem_areas[r]].width = 0
        /\ ph.offset + ph.filesz <= file.size
        /\ new.staged = [m \in DOMAIN S \cup {name} |-> IF m = name THEN add ELSE S[m]]
    BY <2>1, <2>2, <2>3 DEF Aligned, Adds
  <2>5. old.segs = SegsOf(S, name)
    BY DEF SegsOf, EmptyStagedMem
  <2>6. /\ name \in DOMAIN name_to_mem
        /\ \A i \in Registered : i # r => names[i] # name
    BY <2>3, IndicesDiffer DEF RegistryInv, RegistryAgrees
  <2>7. /\ SegsOf(new.staged, name) = add.segs
        /\ \A m : m # name => SegsOf(new.staged, m) = SegsOf(S, m)
    BY <2>4 DEF SegsOf
  <2> HIDE DEF old, add, name
  <2>8. /\ lo \in Nat /\ ph.paddr = B(r) + lo
        /\ top < Z(r) /\ Z(r) <= AddrSpace /\ B(r) \in Nat /\ Z(r) \in Nat
    <3>1. B(r) \in Nat /\ Z(r) \in Nat /\ B(r) + Z(r) <= AddrSpace
      BY <1>0, <2>3
    <3> HIDE DEF B, Z, ph, r
    <3> QED
      BY <2>1, <2>3, <3>1, AddrSpaceAssumption
  <2>9. IsImage(old.segs, file, n, B(r), Z(r))
    BY <2>3, <2>5 DEF StagedOK, name
  <2>10. /\ IsImage(add.segs, file, n + 1, B(r), Z(r))
         /\ \A f \in add.segs : f.lo = lo \/ \E e \in old.segs : f.lo = e.lo
    <3> DEFINE b == B(r)
               z == Z(r)
    <3>1. add = AddSegment(old, lo, FileBytes(file, ph))
      BY DEF add
    <3> HIDE DEF b, z, lo, top
    <3>2. /\ lo \in Nat /\ ph.paddr = b + lo /\ top < z /\ z <= AddrSpace /\ b \in Nat /\ z \in Nat
          /\ IsImage(old.segs, file, n, b, z)
      BY <2>8, <2>9 DEF b, z
    <3>3. top = lo + ph.filesz - 1
      BY DEF top
    <3>4. /\ IsImage(add.segs, file, n + 1, b, z)
          /\ \A f \in add.segs : f.lo = lo \/ \E e \in old.segs : f.lo = e.lo
      <4> HIDE DEF ph
      <4> QED
        BY <1>2, <2>4, <3>1, <3>2, <3>3, ImageAdd DEF ph
    <3> QED
      BY <3>4 DEF b, z
  <2>11. ASSUME NEW i \in Registered
         PROVE  /\ IsImage(SegsOf(new.staged, names[i]), file, n + 1, B(i), Z(i))
                /\ \A e \in SegsOf(new.staged, names[i]) : e.lo % Areas[mem_areas[i]].width = 0
    <3>1. CASE i = r
      <4>1. SegsOf(new.staged, names[i]) = add.segs
        BY <2>7, <3>1 DEF name
      <4>2. \A e \in old.segs : e.lo % Areas[mem_areas[r]].width = 0
        BY <2>3, <2>5 DEF StagedOK, name
      <4> HIDE DEF B, Z, r, lo
      <4>3. \A e \in add.segs : e.lo % Areas[mem_areas[r]].width = 0
        BY <2>4, <2>10, <4>2
      <4> QED
        BY <2>10, <3>1, <4>1, <4>3
    <3>2. CASE i # r
      <4>1. SegsOf(new.staged, names[i]) = SegsOf(S, names[i])
        BY <2>6, <2>7, <3>2
      <4>2. /\ IsImage(SegsOf(S, names[i]), file, n, B(i), Z(i))
            /\ \A e \in SegsOf(S, names[i]) : e.lo % Areas[mem_areas[i]].width = 0
        BY DEF StagedOK
      <4>3. \A o \in 0..(Z(i) - 1) : n + 1 \notin Covering(file, B(i) + o)
        <5> SUFFICES ASSUME NEW o \in 0..(Z(i) - 1), n + 1 \in Covering(file, B(i) + o)
                     PROVE  FALSE
          OBVIOUS
        <5>1. (B(i) + o) - ph.paddr \in 0..(ph.filesz - 1)
          BY Zenon DEF Covering
        <5>2. AreaBytes(i) = B(i)..(B(i) + Z(i) - 1) /\ AreaBytes(r) = B(r)..(B(r) + Z(r) - 1)
          BY DEF AreaBytes
        <5>3. AreaBytes(i) \cap AreaBytes(r) = {}
          BY <2>3, <3>2, AreasAreDisjoint DEF AreasDisjoint
        <5> DEFINE x  == B(i) + o
                   b  == B(r)
                   z  == Z(r)
                   pa == ph.paddr
                   sz == ph.filesz
        <5>4. /\ B(i) \in Nat /\ Z(i) \in Nat /\ b \in Nat /\ z \in Nat
              /\ pa \in Nat /\ sz \in Nat /\ b <= pa /\ pa + sz <= b + z
              /\ x - pa \in 0..(sz - 1)
          BY <1>0, <2>1, <2>3, <5>1
        <5> HIDE DEF b, z, pa, sz, B, Z
        <5>5. x \in B(i)..(B(i) + Z(i) - 1) /\ x \in b..(b + z - 1)
          BY <5>4
        <5>6. x \in AreaBytes(i) /\ x \in AreaBytes(r)
          BY <5>2, <5>5 DEF b, z
        <5> QED
          BY <5>3, <5>6
      <4> HIDE DEF B, Z
      <4>4. IsImage(SegsOf(S, names[i]), file, n + 1, B(i), Z(i))
        BY <1>0, <4>2, <4>3, ImageSkip
      <4> QED
        BY <4>1, <4>2, <4>4
    <3> QED
      BY <3>1, <3>2
  <2>12. DOMAIN new.staged \subseteq DOMAIN name_to_mem /\ IsFiniteSet(DOMAIN new.staged)
    <3>1. DOMAIN new.staged = DOMAIN S \cup {name}
      BY <2>4
    <3>2. IsFiniteSet(DOMAIN S) /\ DOMAIN S \subseteq DOMAIN name_to_mem
      BY DEF StagedOK
    <3>3. IsFiniteSet(DOMAIN S \cup {name})
      BY <3>2, FS_AddElement
    <3> QED
      BY <2>6, <3>1, <3>2, <3>3
  <2> QED
    BY <2>11, <2>12 DEF StagedOK
<1> QED
  BY <1>1, <1>2

IsStaging(st) == st.ok \in BOOLEAN /\ st = [staged |-> st.staged, ok |-> st.ok]

LEMMA StageSegmentShape ==
  ASSUME NEW file, NEW st, IsStaging(st), NEW ph
  PROVE  /\ IsStaging(StageSegment(file, st, ph))
         /\ ~st.ok => StageSegment(file, st, ph) = st
<1> DEFINE new == StageSegment(file, st, ph)
<1>1. /\ ~st.ok => new = st
      /\ \/ new = st
         \/ new = [st EXCEPT !.ok = FALSE]
         \/ \E x : new = [st EXCEPT !.staged = x]
  BY Zenon DEF StageSegment
<1> HIDE DEF new
<1>2. IsStaging([st EXCEPT !.ok = FALSE]) /\ \A x : IsStaging([st EXCEPT !.staged = x])
  <2> DEFINE T == st.staged
             b == st.ok
  <2>1. st = [staged |-> T, ok |-> b] /\ b \in BOOLEAN
    BY DEF IsStaging
  <2> HIDE DEF T, b
  <2>2. /\ \A x : [st EXCEPT !.ok = x] = [staged |-> T, ok |-> x]
        /\ \A x : [st EXCEPT !.staged = x] = [staged |-> x, ok |-> b]
    BY <2>1
  <2>3. \A x : \A c \in BOOLEAN : IsStaging([staged |-> x, ok |-> c])
    BY DEF IsStaging
  <2>4. ASSUME NEW c \in BOOLEAN
        PROVE  IsStaging([st EXCEPT !.ok = c])
    <3>1. [st EXCEPT !.ok = c] = [staged |-> T, ok |-> c]
      BY <2>2, Zenon
    <3>2. IsStaging([staged |-> T, ok |-> c])
      BY <2>3, Zenon
    <3> QED
      BY <3>1, <3>2, Zenon
  <2>5. IsStaging([st EXCEPT !.ok = FALSE])
    <3>1. FALSE \in BOOLEAN
      OBVIOUS
    <3> QED
      BY <2>4, <3>1, Zenon
  <2>6. \A x : IsStaging([st EXCEPT !.staged = x])
    BY <2>1, <2>2, <2>3
  <2> QED
    BY <2>5, <2>6
<1>3. IsStaging(new)
  BY <1>1, <1>2
<1> QED
  BY <1>1, <1>3 DEF new

(* When StageElf() does not throw, it has staged the file, all of it and    *)
(* nothing else.                                                            *)
LEMMA StageElfExact ==
  ASSUME RegistryInv, NEW file \in Files, StageElf(file).ok
  PROVE  StagedOK(file, Len(file.phdrs), StageElf(file).staged)
<1> DEFINE loop == StageLoop(file)
           N == Len(file.phdrs)
           P(n) == IsStaging(loop[n]) /\ (loop[n].ok => StagedOK(file, n, loop[n].staged))
           S == {n \in Nat : n <= N => P(n)}
<1>1. /\ loop[0] = [staged |-> Cleared, ok |-> file.valid]
      /\ \A n \in 1..N : loop[n] = StageSegment(file, loop[n - 1], file.phdrs[n])
  BY StageLoopRounds
<1>2. N \in Nat /\ DOMAIN file.phdrs = 1..N /\ file.valid \in BOOLEAN
  BY FilesAssumption
<1> HIDE DEF loop, N
<1>3. P(0)
  <2>1. loop[0].staged = <<>> /\ loop[0].ok = file.valid
    BY <1>1 DEF Cleared
  <2>2. IsStaging(loop[0])
    BY <1>1, <1>2 DEF IsStaging
  <2> QED
    BY <2>1, <2>2, NothingStaged
<1>4. ASSUME NEW n \in Nat, n + 1 <= N, P(n)
      PROVE  P(n + 1)
  <2> DEFINE st == loop[n]
             new == loop[n + 1]
  <2>1. n + 1 \in 1..N /\ (n + 1) - 1 = n
    BY <1>2, <1>4
  <2>2. new = StageSegment(file, st, file.phdrs[n + 1]) /\ n + 1 \in DOMAIN file.phdrs
    BY <1>1, <1>2, <2>1
  <2>3. IsStaging(st) /\ (st.ok => StagedOK(file, n, st.staged))
    BY <1>4
  <2> HIDE DEF st, new
  <2>4. IsStaging(new) /\ (~st.ok => new = st)
    BY <2>2, <2>3, StageSegmentShape
  <2>5. ASSUME new.ok
        PROVE  StagedOK(file, n + 1, new.staged)
    <3>1. st.ok
      BY <2>4, <2>5
    <3> DEFINE T == st.staged
    <3>2. st = [staged |-> T, ok |-> TRUE]
      BY <2>3, <3>1 DEF IsStaging
    <3>3. StagedOK(file, n, T)
      BY <2>3, <3>1
    <3> HIDE DEF T
    <3> QED
      BY <2>2, <2>5, <3>2, <3>3, StageOne
  <2> QED
    BY <2>4, <2>5 DEF new
<1>5. \A n \in Nat : n \in S
  <2> HIDE DEF P
  <2>1. 0 \in S
    BY <1>3
  <2>2. \A n \in S : n + 1 \in S
    BY <1>2, <1>4
  <2> QED
    BY <2>1, <2>2, SetInduction
<1>6. P(N)
  <2> HIDE DEF P
  <2>1. N \in S /\ N <= N
    BY <1>2, <1>5
  <2> QED
    BY <2>1
<1>7. StageElf(file) = loop[N]
  BY DEF StageElf, loop, N
<1> QED
  BY <1>6, <1>7 DEF N

-----------------------------------------------------------------------------
(* The memories as the design has them.                                     *)
MemShape(m) ==
  m = [a \in DOMAIN Areas |-> [k \in 1..(Areas[a].depth * Areas[a].width) |-> m[a][k]]]

(* The offset of the first byte of the word that byte k of a memory is in.  *)
WordStart(k, w) == ((k - 1) \div w) * w

(* new is old with the ranges segs written over it: a word that starts in a *)
(* range has its bytes, and zeros behind its end.                           *)
IsWritten(new, old, segs, w) ==
  \A k \in DOMAIN old :
    /\ \A e \in segs : WordStart(k, w) \in e.lo..e.hi =>
         new[k] = IF k - 1 <= e.hi THEN At(e, k - 1) ELSE Zero
    /\ (\A e \in segs : WordStart(k, w) \notin e.lo..e.hi) => new[k] = old[k]

(* What a call of Write() for range e makes of w.                           *)
IsMemWrite(res, w, area, e) ==
  /\ res = [mem |-> res.mem, result |-> res.result]
  /\ MemShape(res.mem)
  /\ res.result \in {"ok", "throw", "refused", "abort"}
  /\ res.result = "abort" => ~(e.hi < Areas[area].words * Areas[area].width)
  /\ res.result \in {"throw", "refused"} => ~AsDesigned(area)
  /\ res.result = "ok" =>
       /\ \A b \in DOMAIN Areas : b # area => res.mem[b] = w.mem[b]
       /\ IsWritten(res.mem[area], w.mem[area], {e}, Areas[area].width)

LEMMA AreaOfDesign ==
  ASSUME NEW area \in DOMAIN Areas
  PROVE  /\ Areas[area].width \in Nat \ {0} /\ Areas[area].words \in Nat \ {0}
         /\ Areas[area].depth \in Nat
         /\ Areas[area].words * Areas[area].width \in Nat
         /\ GetSizeBytes(area) = Areas[area].words * Areas[area].width
<1> DEFINE size == Areas[area].words * Areas[area].width
<1>1. /\ Areas[area].width \in Nat \ {0} /\ Areas[area].words \in Nat \ {0} /\ size < AddrSpace
      /\ Areas[area].depth \in Nat
  BY RegistryAssumption, MemoriesAssumption
<1>2. size \in Nat
  BY <1>1, SMTT(30)
<1>3. GetSizeBytes(area) = Wrap(size)
  BY DEF GetSizeBytes
<1> HIDE DEF size
<1>4. size \in 0..(AddrSpace - 1)
  BY <1>1, <1>2, AddrSpaceAssumption
<1>5. Wrap(size) = size
  BY <1>4, WrapSmall
<1> QED
  BY <1>1, <1>2, <1>3, <1>5 DEF size

LEMMA ShapeOfMem ==
  ASSUME NEW m, MemShape(m), NEW area \in DOMAIN Areas
  PROVE  /\ DOMAIN m = DOMAIN Areas
         /\ DOMAIN m[area] \subseteq Nat \ {0}
<1>1. DOMAIN m = DOMAIN Areas
  BY DEF MemShape
<1>2. DOMAIN m[area] = 1..(Areas[area].depth * Areas[area].width)
  BY DEF MemShape
<1> QED
  BY <1>1, <1>2

(* Replacing the contents of a memory by as many bytes.                     *)
LEMMA ShapeKept ==
  ASSUME NEW m, MemShape(m), NEW area \in DOMAIN Areas, NEW bytes,
         DOMAIN bytes = DOMAIN m[area], bytes = [k \in DOMAIN bytes |-> bytes[k]]
  PROVE  /\ MemShape([m EXCEPT ![area] = bytes])
         /\ [m EXCEPT ![area] = bytes][area] = bytes
         /\ \A b \in DOMAIN Areas : b # area => [m EXCEPT ![area] = bytes][b] = m[b]
<1> DEFINE new == [m EXCEPT ![area] = bytes]
           Cells(a) == 1..(Areas[a].depth * Areas[a].width)
<1>1. /\ DOMAIN m = DOMAIN Areas
      /\ \A a \in DOMAIN Areas : m[a] = [k \in Cells(a) |-> m[a][k]]
  BY DEF MemShape
<1> HIDE DEF Cells
<1>2. new[area] = bytes /\ \A b \in DOMAIN Areas : b # area => new[b] = m[b]
  BY <1>1
<1>3. DOMAIN new = DOMAIN Areas /\ new = [a \in DOMAIN new |-> new[a]]
  BY <1>1
<1> HIDE DEF new
<1>4. DOMAIN bytes = Cells(area)
  BY <1>1
<1>5. \A a \in DOMAIN Areas : new[a] = [k \in Cells(a) |-> new[a][k]]
  BY <1>1, <1>2, <1>4
<1>6. new = [a \in DOMAIN Areas |-> [k \in Cells(a) |-> new[a][k]]]
  BY <1>3, <1>5
<1> QED
  BY <1>2, <1>6 DEF MemShape, Cells, new

(* Write() of a range that starts at a word: the words that it fills are    *)
(* those that start in it, and word i of its data goes to word i of them.   *)
LEMMA MemWriteExact ==
  ASSUME NEW area \in DOMAIN Areas, NEW w, MemShape(w.mem),
         w = [mem |-> w.mem, result |-> "ok"],
         NEW V, NEW e, IsSeg(e, V), NEW p \in Nat, e.lo = p * Areas[area].width
  PROVE  IsMemWrite(MemWrite(w, area, p, e.val), w, area, e)
<1> DEFINE width == Areas[area].width
           data  == e.val
           n     == DataWords(width, data)
           old   == w.mem[area]
           fit   == {i \in 0..(n - 1) : p + i < Areas[area].depth}
           words == [k \in DOMAIN old |->
                       LET i == (k - 1) \div width - p
                       IN  IF i \in fit
                           THEN WriteBuffer(width, data, i)[1 + ((k - 1) % width)]
                           ELSE old[k]]
           res   == MemWrite(w, area, p, data)
           done  == [mem    |-> [w.mem EXCEPT ![area] = words],
                     result |-> IF fit = 0..(n - 1) THEN "ok" ELSE "refused"]
<1>1. /\ width \in Nat \ {0} /\ Areas[area].words \in Nat /\ Areas[area].depth \in Nat
      /\ DOMAIN old \subseteq Nat \ {0}
  BY AreaOfDesign, ShapeOfMem
<1>2. e.lo \in Nat /\ e.hi \in Nat /\ e.lo <= e.hi /\ Len(data) = 1 + (e.hi - e.lo)
  BY SegLen DEF IsSeg
<1>3. /\ n \in Nat \ {0}
      /\ \A s \in Nat : e.hi < s * width <=> p + n <= s
      /\ \A x \in Nat : /\ x \div width - p \in 0..(n - 1) <=> (x \div width) * width \in e.lo..e.hi
                        /\ (x \div width - p) * width + (1 + (x % width)) = x + 1 - e.lo
  <2>1. n = (1 + (e.hi - e.lo) + width - 1) \div width
    BY <1>2 DEF DataWords
  <2> HIDE DEF n, width
  <2> DEFINE lo == e.lo
             hi == e.hi
  <2>2. lo = p * width /\ lo \in Nat /\ hi \in Nat /\ lo <= hi
        /\ n = (1 + (hi - lo) + width - 1) \div width
    BY <1>2, <2>1 DEF width
  <2> HIDE DEF lo, hi
  <2>3. AreWords(width, lo, hi, p, n)
    BY <1>1, <2>2, SegmentWords
  <2> QED
    BY <2>3 DEF AreWords, lo, hi
<1>4. res = IF p + n > Areas[area].words THEN [w EXCEPT !.result = "abort"]
            ELSE IF n > 0 /\ ~Areas[area].found THEN [w EXCEPT !.result = "throw"]
            ELSE done
  <2>1. w.result = "ok"
    OBVIOUS
  <2> QED
    BY <2>1, Zenon DEF MemWrite
<1> HIDE DEF n, fit, words, done, res, width, data, old
<1>5. CASE p + n > Areas[area].words
  <2>1. res = [mem |-> w.mem, result |-> "abort"]
    BY <1>4, <1>5
  <2>2. ~(e.hi < Areas[area].words * Areas[area].width)
    BY <1>1, <1>3, <1>5 DEF width
  <2> QED
    BY <2>1, <2>2 DEF IsMemWrite, res, data
<1>6. CASE ~(p + n > Areas[area].words) /\ n > 0 /\ ~Areas[area].found
  <2>1. res = [mem |-> w.mem, result |-> "throw"]
    BY <1>4, <1>6
  <2> QED
    BY <1>6, <2>1 DEF IsMemWrite, AsDesigned, res, data
<1>7. CASE ~(p + n > Areas[area].words) /\ ~(n > 0 /\ ~Areas[area].found)
  <2>1. res = done
    BY <1>4, <1>7
  <2>2. DOMAIN words = DOMAIN old /\ words = [k \in DOMAIN words |-> words[k]]
    BY DEF words
  <2>3. /\ MemShape([w.mem EXCEPT ![area] = words])
        /\ [w.mem EXCEPT ![area] = words][area] = words
        /\ \A b \in DOMAIN Areas : b # area => [w.mem EXCEPT ![area] = words][b] = w.mem[b]
    BY <2>2, ShapeKept DEF old
  <2>4. ASSUME fit = 0..(n - 1)
        PROVE  IsWritten(words, old, {e}, width)
    <3> SUFFICES ASSUME NEW k \in DOMAIN old
                 PROVE  words[k] = IF WordStart(k, width) \in e.lo..e.hi
                                   THEN IF k - 1 <= e.hi THEN At(e, k - 1) ELSE Zero
                                   ELSE old[k]
      BY DEF IsWritten
    <3> DEFINE x == k - 1
               i == x \div width - p
               c == 1 + (x % width)
               j == i * width + c
    <3>1. x \in Nat /\ k \in Nat
      BY <1>1
    <3>2. /\ i \in 0..(n - 1) <=> WordStart(k, width) \in e.lo..e.hi
          /\ j = x + 1 - e.lo
      BY <1>3, <3>1 DEF WordStart
    <3>3. words[k] = IF i \in 0..(n - 1) THEN WriteBuffer(width, data, i)[c] ELSE old[k]
      BY <2>4 DEF words
    <3>4. c \in 1..width
      BY <1>1, <3>1, DivMod
    <3>5. WriteBuffer(width, data, i)[c] = IF j <= Len(data) THEN data[j] ELSE Zero
      <4> HIDE DEF c, i
      <4> QED
        BY <3>4 DEF WriteBuffer
    <3> HIDE DEF i, c, j
    <3>6. (j <= Len(data) <=> k - 1 <= e.hi) /\ j = k - 1 - e.lo + 1
      <4>1. j = k - e.lo
        BY <1>2, <3>1, <3>2
      <4> QED
        BY <1>2, <3>1, <4>1
    <3>7. data[j] = At(e, k - 1)
      BY <3>6 DEF At, data
    <3> QED
      BY <3>2, <3>3, <3>5, <3>6, <3>7
  <2>5. done.mem = [w.mem EXCEPT ![area] = words]
        /\ done.result = (IF fit = 0..(n - 1) THEN "ok" ELSE "refused")
        /\ done = [mem |-> done.mem, result |-> done.result]
    BY DEF done
  <2>7. ASSUME fit # 0..(n - 1) PROVE ~AsDesigned(area)
    <3>1. PICK i \in 0..(n - 1) : ~(p + i < Areas[area].depth)
      BY <2>7 DEF fit
    <3> QED
      BY <1>1, <1>3, <1>7, <3>1 DEF AsDesigned
  <2>6. IsMemWrite(done, w, area, e)
    BY <2>3, <2>4, <2>5, <2>7 DEF IsMemWrite, old, width
  <2> QED
    BY <2>1, <2>6 DEF res, data
<1> QED
  BY <1>5, <1>6, <1>7

(* One round of the loop over the segments, and the loop as the recursion   *)
(* that it is.                                                              *)
WriteRound(area, m) ==
  LET e == Lowest(m.rest) IN [w |-> WriteSegment(m.w, area, e), rest |-> m.rest \ {e}]

LEMMA WriteLoopRounds ==
  ASSUME NEW w, NEW area, NEW segs, IsFiniteSet(segs)
  PROVE  LET loop == WriteLoop(w, area, segs) IN
         /\ loop[0] = [w |-> w, rest |-> segs]
         /\ \A n \in 1..Cardinality(segs) : loop[n] = WriteRound(area, loop[n - 1])
<1> DEFINE first == [w |-> w, rest |-> segs]
           Is(g, k) == g = [n \in 0..k |-> IF n = 0 THEN first ELSE WriteRound(area, g[n - 1])]
           S == {k \in Nat : \E g : Is(g, k)}
<1>1. 0 \in S
  <2> DEFINE g == [n \in 0..0 |-> first]
  <2>1. Is(g, 0)
    OBVIOUS
  <2> QED
    BY <2>1
<1>2. ASSUME NEW k \in S
      PROVE  k + 1 \in S
  <2>1. PICK g : Is(g, k)
    OBVIOUS
  <2> DEFINE h == [n \in 0..(k + 1) |-> IF n = k + 1 THEN WriteRound(area, g[k]) ELSE g[n]]
  <2>2. \A n \in 0..k : h[n] = g[n]
    OBVIOUS
  <2>3. \A n \in 0..(k + 1) : h[n] = IF n = 0 THEN first ELSE WriteRound(area, h[n - 1])
    <3> TAKE n \in 0..(k + 1)
    <3>1. CASE n = k + 1
      BY <2>2, <3>1
    <3>2. CASE n # k + 1 /\ n # 0
      <4>1. n \in 0..k /\ n - 1 \in 0..k
        BY <3>2
      <4> QED
        BY <2>1, <2>2, <3>2, <4>1
    <3>3. CASE n = 0
      BY <2>1, <2>2, <3>3
    <3> QED
      BY <3>1, <3>2, <3>3
  <2>4. Is(h, k + 1)
    BY <2>3
  <2> HIDE DEF h
  <2> QED
    BY <2>4
<1>3. \A k \in Nat : \E g : Is(g, k)
  <2> HIDE DEF Is
  <2>1. \A k \in Nat : k \in S
    BY <1>1, <1>2, SetInduction
  <2> QED
    BY <2>1
<1> DEFINE N == Cardinality(segs)
<1>4. N \in Nat
  BY FS_CardinalityType
<1>5. WriteLoop(w, area, segs) = CHOOSE g : Is(g, N)
  BY Zenon DEF WriteLoop, WriteRound
<1>6. Is(WriteLoop(w, area, segs), N)
  <2> HIDE DEF Is, N
  <2> QED
    BY <1>3, <1>4, <1>5
<1> DEFINE loop == WriteLoop(w, area, segs)
<1> HIDE DEF N, first, loop
<1>7. \A n \in 0..N : loop[n] = IF n = 0 THEN first ELSE WriteRound(area, loop[n - 1])
  BY <1>4, <1>6 DEF loop
<1>8. loop[0] = first /\ \A n \in 1..N : loop[n] = WriteRound(area, loop[n - 1])
  BY <1>4, <1>7
<1> QED
  BY <1>8 DEF N, loop, first

(* Where the loop over the segments of one StagedMem stands when those in   *)
(* done are written: no assertion has failed.                               *)
IsLoading(w, start, area, done) ==
  /\ w = [mem |-> w.mem, result |-> w.result]
  /\ MemShape(w.mem)
  /\ w.result \in {"ok", "throw", "refused"}
  /\ w.result \in {"throw", "refused"} => ~AsDesigned(area)
  /\ w.result = "ok" =>
       /\ \A b \in DOMAIN Areas : b # area => w.mem[b] = start[b]
       /\ IsWritten(w.mem[area], start[area], done, Areas[area].width)

LEMMA WriteOneMore ==
  ASSUME NEW area \in DOMAIN Areas, NEW start, MemShape(start),
         NEW w, NEW done, IsLoading(w, start, area, done),
         NEW e, IsSeg(e, Nat), e.lo % Areas[area].width = 0,
         e.hi < Areas[area].words * Areas[area].width,
         \A f \in done : IsSeg(f, Nat) /\ (f.hi < e.lo \/ e.hi < f.lo)
  PROVE  IsLoading(WriteSegment(w, area, e), start, area, done \cup {e})
<1> DEFINE width == Areas[area].width
           res   == WriteSegment(w, area, e)
           p     == e.lo \div width
<1>1. CASE w.result # "ok"
  <2>1. res = w
    BY <1>1, Zenon DEF WriteSegment, MemWrite
  <2> HIDE DEF res
  <2>2. IsLoading(res, start, area, done \cup {e})
    BY <1>1, <2>1 DEF IsLoading
  <2> QED
    BY <2>2 DEF res
<1>2. CASE w.result = "ok"
  <2>1. e.lo \in Nat /\ e.hi \in Nat /\ e.lo <= e.hi /\ width \in Nat \ {0}
    BY AreaOfDesign DEF IsSeg
  <2>2. p \in Nat /\ e.lo = p * width
    <3> DEFINE lo == e.lo
    <3> HIDE DEF lo, width
    <3>1. lo \in Nat /\ lo % width = 0 /\ width \in Nat \ {0}
      BY <2>1 DEF lo, width
    <3>2. lo \div width \in Nat /\ lo = (lo \div width) * width + (lo % width)
      BY <3>1, DivMod
    <3>3. (lo \div width) * width \in Int
      BY <3>1, <3>2, TimesWidth
    <3> QED
      BY <3>1, <3>2, <3>3 DEF lo
  <2>3. res = MemWrite(w, area, p, e.val)
    BY Zenon DEF WriteSegment
  <2> HIDE DEF p
  <2>4. w = [mem |-> w.mem, result |-> "ok"] /\ MemShape(w.mem)
    BY <1>2 DEF IsLoading
  <2>5. IsMemWrite(res, w, area, e)
    BY <2>2, <2>3, <2>4, MemWriteExact
  <2> HIDE DEF res
  <2>6. ASSUME res.result = "ok"
        PROVE  IsWritten(res.mem[area], start[area], done \cup {e}, width)
    <3> DEFINE new == res.mem[area]
               mid == w.mem[area]
               old == start[area]
    <3>1. DOMAIN mid = DOMAIN old
      BY <2>4 DEF MemShape
    <3>2. IsWritten(new, mid, {e}, width) /\ IsWritten(mid, old, done, width)
      BY <1>2, <2>5, <2>6 DEF IsMemWrite, IsLoading
    <3> HIDE DEF new, mid, old
    <3>3. ASSUME NEW k \in DOMAIN old
          PROVE  /\ \A f \in done \cup {e} : WordStart(k, width) \in f.lo..f.hi =>
                      new[k] = IF k - 1 <= f.hi THEN At(f, k - 1) ELSE Zero
                 /\ (\A f \in done \cup {e} : WordStart(k, width) \notin f.lo..f.hi)
                      => new[k] = old[k]
      <4> DEFINE s == WordStart(k, width)
      <4>1. \A f \in done : ~(s \in f.lo..f.hi /\ s \in e.lo..e.hi)
        <5> SUFFICES ASSUME NEW f \in done, s \in f.lo..f.hi, s \in e.lo..e.hi
                     PROVE  FALSE
          OBVIOUS
        <5>1. f.lo \in Nat /\ f.hi \in Nat /\ (f.hi < e.lo \/ e.hi < f.lo)
          BY DEF IsSeg
        <5> HIDE DEF s
        <5> QED
          BY <2>1, <5>1
      <4>2. /\ s \in e.lo..e.hi => new[k] = IF k - 1 <= e.hi THEN At(e, k - 1) ELSE Zero
            /\ s \notin e.lo..e.hi => new[k] = mid[k]
        BY <3>1, <3>2 DEF IsWritten
      <4>3. /\ \A f \in done : s \in f.lo..f.hi =>
                  mid[k] = IF k - 1 <= f.hi THEN At(f, k - 1) ELSE Zero
            /\ (\A f \in done : s \notin f.lo..f.hi) => mid[k] = old[k]
        BY <3>2 DEF IsWritten
      <4> HIDE DEF s
      <4>4. /\ \A f \in done \cup {e} : s \in f.lo..f.hi =>
                 new[k] = IF k - 1 <= f.hi THEN At(f, k - 1) ELSE Zero
            /\ (\A f \in done \cup {e} : s \notin f.lo..f.hi) => new[k] = old[k]
        BY <4>1, <4>2, <4>3
      <4> QED
        BY <4>4 DEF s
    <3>4. IsWritten(new, old, done \cup {e}, width)
      BY <3>3 DEF IsWritten
    <3> QED
      BY <3>4 DEF new, old
  <2>7. IsLoading(res, start, area, done \cup {e})
    BY <1>2, <2>5, <2>6 DEF IsMemWrite, IsLoading
  <2> QED
    BY <2>7 DEF res
<1> QED
  BY <1>1, <1>2

(* The segments of one StagedMem, all of them.                              *)
LEMMA WriteLoopExact ==
  ASSUME NEW area \in DOMAIN Areas, NEW w, MemShape(w.mem),
         w = [mem |-> w.mem, result |-> "ok"],
         NEW segs, IsSegs(segs, Nat),
         \A e \in segs : /\ e.lo % Areas[area].width = 0
                         /\ e.hi < Areas[area].words * Areas[area].width
  PROVE  IsLoading(WriteLoop(w, area, segs)[Cardinality(segs)].w, w.mem, area, segs)
<1> DEFINE loop == WriteLoop(w, area, segs)
           start == w.mem
           N == Cardinality(segs)
           P(n) == /\ loop[n].rest \subseteq segs
                   /\ Cardinality(loop[n].rest) = N - n
                   /\ IsLoading(loop[n].w, start, area, segs \ loop[n].rest)
           S == {n \in Nat : n <= N => P(n)}
<1>1. N \in Nat /\ IsFiniteSet(segs)
  BY FS_CardinalityType DEF IsSegs
<1>2. /\ loop[0] = [w |-> w, rest |-> segs]
      /\ \A n \in 1..N : loop[n] = WriteRound(area, loop[n - 1])
  BY <1>1, WriteLoopRounds
<1> HIDE DEF loop, N
<1>3. P(0)
  <2>1. loop[0].w = w /\ loop[0].rest = segs
    BY <1>2
  <2>2. IsLoading(w, start, area, {})
    BY DEF IsLoading, IsWritten
  <2>3. segs \ segs = {} /\ Cardinality(segs) = N - 0
    BY <1>1 DEF N
  <2> QED
    BY <2>1, <2>2, <2>3, Zenon
<1>4. ASSUME NEW n \in Nat, n + 1 <= N, P(n)
      PROVE  P(n + 1)
  <2> DEFINE rest == loop[n].rest
             v == loop[n].w
             e == Lowest(rest)
  <2>1. rest \subseteq segs /\ Cardinality(rest) = N - n /\ IsFiniteSet(rest)
    BY <1>1, <1>4, FS_Subset
  <2>2. rest # {}
    BY <1>1, <1>4, <2>1, FS_EmptySet
  <2>3. e \in rest
    BY <2>1, <2>2, LowestIsLowest DEF IsSegs, IsSeg
  <2>4. loop[n + 1].w = WriteSegment(v, area, e) /\ loop[n + 1].rest = rest \ {e}
    <3>1. n + 1 \in 1..N /\ n + 1 - 1 = n
      BY <1>1, <1>4
    <3>2. loop[n + 1] = WriteRound(area, loop[n])
      BY <1>2, <3>1
    <3> QED
      BY <3>2 DEF WriteRound
  <2>5. IsLoading(v, start, area, segs \ rest)
    BY <1>4
  <2> HIDE DEF rest, v, e
  <2>6. Cardinality(rest \ {e}) = N - (n + 1)
    <3>1. Cardinality(rest \ {e}) = Cardinality(rest) - 1
      BY <2>1, <2>3, FS_RemoveElement
    <3> QED
      BY <1>1, <2>1, <3>1
  <2>7. segs \ (rest \ {e}) = (segs \ rest) \cup {e}
    BY <2>1, <2>3
  <2>8. IsLoading(WriteSegment(v, area, e), start, area, (segs \ rest) \cup {e})
    <3>1. \A f \in segs \ rest : IsSeg(f, Nat) /\ (f.hi < e.lo \/ e.hi < f.lo)
      BY <2>1, <2>3 DEF IsSegs
    <3>2. /\ IsSeg(e, Nat) /\ e.lo % Areas[area].width = 0
          /\ e.hi < Areas[area].words * Areas[area].width
      BY <2>1, <2>3 DEF IsSegs
    <3> QED
      BY <2>5, <3>1, <3>2, WriteOneMore
  <2>9. rest \ {e} \subseteq segs
    BY <2>1
  <2> QED
    BY <2>4, <2>6, <2>7, <2>8, <2>9, Zenon
<1>5. \A n \in Nat : n \in S
  <2> HIDE DEF P
  <2>1. 0 \in S
    BY <1>3
  <2>2. \A n \in S : n + 1 \in S
    BY <1>1, <1>4
  <2> QED
    BY <2>1, <2>2, SetInduction
<1>6. P(N)
  <2> HIDE DEF P
  <2>1. N \in S /\ N <= N
    BY <1>1, <1>5
  <2> QED
    BY <2>1
<1>7. loop[N].rest = {}
  <2>1. IsFiniteSet(loop[N].rest)
    BY <1>1, <1>6, FS_Subset
  <2> QED
    BY <1>1, <1>6, <2>1, FS_EmptySet
<1>8. segs \ {} = segs
  OBVIOUS
<1> QED
  BY <1>6, <1>7, <1>8 DEF loop, N

(* After an error nothing more is written.                                  *)
LEMMA WriteLoopStops ==
  ASSUME NEW w, w.result # "ok", NEW area, NEW segs, IsFiniteSet(segs)
  PROVE  WriteLoop(w, area, segs)[Cardinality(segs)].w = w
<1> DEFINE loop == WriteLoop(w, area, segs)
           N == Cardinality(segs)
           S == {n \in Nat : n <= N => loop[n].w = w}
<1>1. N \in Nat
  BY FS_CardinalityType
<1>2. /\ loop[0] = [w |-> w, rest |-> segs]
      /\ \A n \in 1..N : loop[n] = WriteRound(area, loop[n - 1])
  BY WriteLoopRounds
<1> HIDE DEF loop, N
<1>3. 0 \in S
  BY <1>2
<1>4. ASSUME NEW n \in S
      PROVE  n + 1 \in S
  <2> SUFFICES ASSUME n + 1 <= N
               PROVE  loop[n + 1].w = w
    OBVIOUS
  <2>1. n + 1 \in 1..N /\ n + 1 - 1 = n /\ n <= N
    BY <1>1
  <2>2. loop[n + 1] = WriteRound(area, loop[n]) /\ loop[n].w = w
    BY <1>2, <2>1
  <2>3. loop[n + 1].w = WriteSegment(w, area, Lowest(loop[n].rest))
    BY <2>2 DEF WriteRound
  <2>4. \A e : WriteSegment(w, area, e) = w
    BY Zenon DEF WriteSegment, MemWrite
  <2> QED
    BY <2>3, <2>4
<1>5. \A n \in Nat : n \in S
  BY <1>3, <1>4, SetInduction
<1>6. N \in S /\ N <= N
  BY <1>1, <1>5
<1> QED
  BY <1>6 DEF loop, N

-----------------------------------------------------------------------------
(* One round of the loop over the staging area, and the loop as the         *)
(* recursion that it is.                                                    *)
WriteAllRound(staged, m) ==
  LET name == CHOOSE x \in m.rest : TRUE
  IN  [w |-> WriteStaged(m.w, staged, name), rest |-> m.rest \ {name}]

LEMMA WriteAllLoopRounds ==
  ASSUME NEW staged, IsFiniteSet(DOMAIN staged)
  PROVE  LET loop == WriteAllLoop(staged) IN
         /\ loop[0] = [w |-> [mem |-> mem, result |-> "ok"], rest |-> DOMAIN staged]
         /\ \A n \in 1..Cardinality(DOMAIN staged) : loop[n] = WriteAllRound(staged, loop[n - 1])
<1> DEFINE first == [w |-> [mem |-> mem, result |-> "ok"], rest |-> DOMAIN staged]
           Is(g, k) == g = [n \in 0..k |-> IF n = 0 THEN first ELSE WriteAllRound(staged, g[n - 1])]
           S == {k \in Nat : \E g : Is(g, k)}
<1>1. 0 \in S
  <2> DEFINE g == [n \in 0..0 |-> first]
  <2>1. Is(g, 0)
    OBVIOUS
  <2> QED
    BY <2>1
<1>2. ASSUME NEW k \in S
      PROVE  k + 1 \in S
  <2>1. PICK g : Is(g, k)
    OBVIOUS
  <2> DEFINE h == [n \in 0..(k + 1) |-> IF n = k + 1 THEN WriteAllRound(staged, g[k]) ELSE g[n]]
  <2>2. \A n \in 0..k : h[n] = g[n]
    OBVIOUS
  <2>3. \A n \in 0..(k + 1) : h[n] = IF n = 0 THEN first ELSE WriteAllRound(staged, h[n - 1])
    <3> TAKE n \in 0..(k + 1)
    <3>1. CASE n = k + 1
      BY <2>2, <3>1
    <3>2. CASE n # k + 1 /\ n # 0
      <4>1. n \in 0..k /\ n - 1 \in 0..k
        BY <3>2
      <4> QED
        BY <2>1, <2>2, <3>2, <4>1
    <3>3. CASE n = 0
      BY <2>1, <2>2, <3>3
    <3> QED
      BY <3>1, <3>2, <3>3
  <2>4. Is(h, k + 1)
    BY <2>3
  <2> HIDE DEF h
  <2> QED
    BY <2>4
<1>3. \A k \in Nat : \E g : Is(g, k)
  <2> HIDE DEF Is
  <2>1. \A k \in Nat : k \in S
    BY <1>1, <1>2, SetInduction
  <2> QED
    BY <2>1
<1> DEFINE N == Cardinality(DOMAIN staged)
<1>4. N \in Nat
  BY FS_CardinalityType
<1>5. WriteAllLoop(staged) = CHOOSE g : Is(g, N)
  BY Zenon DEF WriteAllLoop, WriteAllRound
<1>6. Is(WriteAllLoop(staged), N)
  <2> HIDE DEF Is, N
  <2> QED
    BY <1>3, <1>4, <1>5
<1> DEFINE loop == WriteAllLoop(staged)
<1> HIDE DEF N, first, loop
<1>7. \A n \in 0..N : loop[n] = IF n = 0 THEN first ELSE WriteAllRound(staged, loop[n - 1])
  BY <1>4, <1>6 DEF loop
<1>8. loop[0] = first /\ \A n \in 1..N : loop[n] = WriteAllRound(staged, loop[n - 1])
  BY <1>4, <1>7
<1> QED
  BY <1>8 DEF N, loop, first

(* Where the loop over the staging area stands when the memories named in   *)
(* done are written.                                                        *)
IsLoadingAll(w, staged, done) ==
  /\ w = [mem |-> w.mem, result |-> w.result]
  /\ MemShape(w.mem)
  /\ w.result \in {"ok", "throw", "refused"}
  /\ w.result \in {"throw", "refused"} => \E i \in Registered : ~AsDesigned(mem_areas[i])
  /\ w.result = "ok" =>
       /\ \A i \in Registered :
            IsWritten(w.mem[mem_areas[i]], mem[mem_areas[i]],
                      IF names[i] \in done THEN staged[names[i]].segs ELSE {},
                      Areas[mem_areas[i]].width)
       /\ \A a \in DOMAIN Areas :
            (\A i \in Registered : mem_areas[i] # a) => w.mem[a] = mem[a]

(* A staged memory is written where it is registered, and no other memory   *)
(* is touched.                                                              *)
LEMMA WriteStagedExact ==
  ASSUME RegistryInv, MemShape(mem), NEW file \in Files, NEW n, NEW staged,
         StagedOK(file, n, staged), NEW name \in DOMAIN staged,
         NEW w, NEW done, name \notin done, IsLoadingAll(w, staged, done)
  PROVE  IsLoadingAll(WriteStaged(w, staged, name), staged, done \cup {name})
<1> DEFINE r    == name_to_mem[name] + 1
           area == mem_areas[r]
           segs == staged[name].segs
           res  == WriteStaged(w, staged, name)
<1>1. r \in Registered /\ names[r] = name /\ area \in DOMAIN Areas
  <2>1. name \in DOMAIN name_to_mem
    BY DEF StagedOK
  <2>2. r \in Registered /\ names[r] = name
    BY <2>1, NameLeadsBack
  <2> QED
    BY <2>2, AreaOfIndex
<1>2. res = WriteLoop(w, area, segs)[Cardinality(segs)].w
  BY Zenon DEF WriteStaged
<1>3. /\ IsSegs(segs, Nat)
      /\ \A e \in segs : /\ e.lo % Areas[area].width = 0
                         /\ e.hi < Areas[area].words * Areas[area].width
  <2>1. SegsOf(staged, names[r]) = segs
    BY <1>1 DEF SegsOf
  <2>2. /\ IsImage(segs, file, n, base_addrs[r], GetSizeBytes(area))
        /\ \A e \in segs : e.lo % Areas[area].width = 0
    BY <1>1, <2>1 DEF StagedOK
  <2>3. GetSizeBytes(area) = Areas[area].words * Areas[area].width
    BY <1>1, AreaOfDesign
  <2> HIDE DEF segs, area
  <2> QED
    BY <2>2, <2>3 DEF IsImage
<1>4. IsFiniteSet(segs)
  BY <1>3 DEF IsSegs
<1> HIDE DEF segs, res
<1>5. CASE w.result # "ok"
  <2>1. res = w
    BY <1>2, <1>4, <1>5, WriteLoopStops
  <2>2. IsLoadingAll(res, staged, done \cup {name})
    BY <1>5, <2>1 DEF IsLoadingAll
  <2> QED
    BY <2>2 DEF res
<1>6. CASE w.result = "ok"
  <2>1. w = [mem |-> w.mem, result |-> "ok"] /\ MemShape(w.mem)
    BY <1>6 DEF IsLoadingAll
  <2>2. IsLoading(res, w.mem, area, segs)
    BY <1>1, <1>2, <1>3, <2>1, WriteLoopExact
  <2>3. ASSUME res.result = "ok", NEW i \in Registered
        PROVE  IsWritten(res.mem[mem_areas[i]], mem[mem_areas[i]],
                         IF names[i] \in done \cup {name} THEN staged[names[i]].segs ELSE {},
                         Areas[mem_areas[i]].width)
    <3>1. CASE i = r
      <4> DEFINE new == res.mem[area]
                 mid == w.mem[area]
                 old == mem[area]
                 width == Areas[area].width
      <4>1. IsWritten(new, mid, segs, width)
        BY <2>2, <2>3 DEF IsLoading
      <4>2. IsWritten(mid, old, {}, width)
        BY <1>1, <1>6 DEF IsLoadingAll
      <4>3. DOMAIN mid = DOMAIN old
        BY <1>1, <2>1 DEF MemShape
      <4> HIDE DEF new, mid, old, width
      <4>4. \A k \in DOMAIN old : mid[k] = old[k]
        BY <4>2 DEF IsWritten
      <4>5. IsWritten(new, old, segs, width)
        BY <4>1, <4>3, <4>4 DEF IsWritten
      <4>6. names[i] \in done \cup {name} /\ staged[names[i]].segs = segs
        BY <1>1, <3>1 DEF segs
      <4> QED
        BY <3>1, <4>5, <4>6 DEF new, old, width
    <3>2. CASE i # r
      <4>1. names[i] # name /\ mem_areas[i] # area /\ mem_areas[i] \in DOMAIN Areas
        BY <1>1, <3>2, IndicesDiffer, AreaOfIndex
      <4>2. res.mem[mem_areas[i]] = w.mem[mem_areas[i]]
        BY <2>2, <2>3, <4>1 DEF IsLoading
      <4>3. IsWritten(w.mem[mem_areas[i]], mem[mem_areas[i]],
                      IF names[i] \in done THEN staged[names[i]].segs ELSE {},
                      Areas[mem_areas[i]].width)
        BY <1>6 DEF IsLoadingAll
      <4>4. names[i] \in done \cup {name} <=> names[i] \in done
        BY <4>1
      <4> QED
        BY <4>2, <4>3, <4>4
    <3> QED
      BY <3>1, <3>2
  <2>4. ASSUME res.result = "ok", NEW a \in DOMAIN Areas, \A i \in Registered : mem_areas[i] # a
        PROVE  res.mem[a] = mem[a]
    <3>1. a # area
      BY <1>1, <2>4
    <3> QED
      BY <1>6, <2>2, <2>4, <3>1 DEF IsLoading, IsLoadingAll
  <2>5. res.result \in {"throw", "refused"} => \E i \in Registered : ~AsDesigned(mem_areas[i])
    BY <1>1, <2>2 DEF IsLoading
  <2>6. /\ res = [mem |-> res.mem, result |-> res.result] /\ MemShape(res.mem)
        /\ res.result \in {"ok", "throw", "refused"}
    BY <2>2 DEF IsLoading
  <2>7. IsLoadingAll(res, staged, done \cup {name})
    BY <2>3, <2>4, <2>5, <2>6 DEF IsLoadingAll
  <2> QED
    BY <2>7 DEF res
<1> QED
  BY <1>5, <1>6

(* The staging area, all of it.                                             *)
LEMMA WriteAllExact ==
  ASSUME RegistryInv, MemShape(mem), NEW file \in Files, NEW n, NEW staged,
         StagedOK(file, n, staged)
  PROVE  IsLoadingAll(WriteAll(staged), staged, DOMAIN staged)
<1> DEFINE loop == WriteAllLoop(staged)
           all == DOMAIN staged
           N == Cardinality(all)
           P(m) == /\ loop[m].rest \subseteq all
                   /\ Cardinality(loop[m].rest) = N - m
                   /\ IsLoadingAll(loop[m].w, staged, all \ loop[m].rest)
           S == {m \in Nat : m <= N => P(m)}
<1>1. N \in Nat /\ IsFiniteSet(all)
  BY FS_CardinalityType DEF StagedOK
<1>2. /\ loop[0] = [w |-> [mem |-> mem, result |-> "ok"], rest |-> all]
      /\ \A m \in 1..N : loop[m] = WriteAllRound(staged, loop[m - 1])
  BY <1>1, WriteAllLoopRounds
<1> HIDE DEF loop, N
<1>3. P(0)
  <2> DEFINE w == [mem |-> mem, result |-> "ok"]
  <2>1. loop[0].w = w /\ loop[0].rest = all
    BY <1>2
  <2>2. w = [mem |-> w.mem, result |-> w.result] /\ w.mem = mem /\ w.result = "ok"
    OBVIOUS
  <2> HIDE DEF w
  <2>3. IsLoadingAll(w, staged, {})
    BY <2>2 DEF IsLoadingAll, IsWritten
  <2>4. all \ all = {} /\ Cardinality(all) = N - 0
    BY <1>1 DEF N
  <2> QED
    BY <2>1, <2>3, <2>4, Zenon
<1>4. ASSUME NEW m \in Nat, m + 1 <= N, P(m)
      PROVE  P(m + 1)
  <2> DEFINE rest == loop[m].rest
             v == loop[m].w
             name == CHOOSE x \in rest : TRUE
  <2>1. rest \subseteq all /\ Cardinality(rest) = N - m /\ IsFiniteSet(rest)
    BY <1>1, <1>4, FS_Subset
  <2>2. rest # {}
    BY <1>1, <1>4, <2>1, FS_EmptySet
  <2>3. name \in rest
    BY <2>2
  <2>4. loop[m + 1].w = WriteStaged(v, staged, name) /\ loop[m + 1].rest = rest \ {name}
    <3>1. m + 1 \in 1..N /\ m + 1 - 1 = m
      BY <1>1, <1>4
    <3>2. loop[m + 1] = WriteAllRound(staged, loop[m])
      BY <1>2, <3>1
    <3> QED
      BY <3>2 DEF WriteAllRound
  <2>5. IsLoadingAll(v, staged, all \ rest)
    BY <1>4
  <2> HIDE DEF rest, v, name
  <2>6. Cardinality(rest \ {name}) = N - (m + 1)
    <3>1. Cardinality(rest \ {name}) = Cardinality(rest) - 1
      BY <2>1, <2>3, FS_RemoveElement
    <3> QED
      BY <1>1, <2>1, <3>1
  <2>7. all \ (rest \ {name}) = (all \ rest) \cup {name}
    BY <2>1, <2>3
  <2>8. IsLoadingAll(WriteStaged(v, staged, name), staged, (all \ rest) \cup {name})
    <3>1. name \in all /\ name \notin all \ rest
      BY <2>1, <2>3
    <3> QED
      BY <2>5, <3>1, WriteStagedExact
  <2>9. rest \ {name} \subseteq all
    BY <2>1
  <2> QED
    BY <2>4, <2>6, <2>7, <2>8, <2>9, Zenon
<1>5. \A m \in Nat : m \in S
  <2> HIDE DEF P
  <2>1. 0 \in S
    BY <1>3
  <2>2. \A m \in S : m + 1 \in S
    BY <1>1, <1>4
  <2> QED
    BY <2>1, <2>2, SetInduction
<1>6. P(N)
  <2> HIDE DEF P
  <2>1. N \in S /\ N <= N
    BY <1>1, <1>5
  <2> QED
    BY <2>1
<1>7. loop[N].rest = {}
  <2>1. IsFiniteSet(loop[N].rest)
    BY <1>1, <1>6, FS_Subset
  <2> QED
    BY <1>1, <1>6, <2>1, FS_EmptySet
<1>8. all \ {} = all
  OBVIOUS
<1>9. WriteAll(staged) = loop[N].w
  BY DEF WriteAll, loop, N
<1> QED
  BY <1>6, <1>7, <1>8, <1>9

-----------------------------------------------------------------------------
(* The byte that the properties expect is that of the last covering header. *)
LEMMA LastByteIsByteAt ==
  ASSUME NEW file \in Files, NEW a, NEW v, LastByte(file, Len(file.phdrs), a, v)
  PROVE  Covering(file, a) # {} /\ v = ByteAt(file, a)
<1> DEFINE S == Covering(file, a)
<1>1. \A j \in S : j \in Nat /\ j <= Len(file.phdrs)
  BY PhdrOfFile DEF Covering, Used
<1>2. PICK i \in S : /\ \A j \in S : j <= Len(file.phdrs) => j <= i
                     /\ v = file.phdrs[i].offset + 1 + (a - file.phdrs[i].paddr)
  BY DEF LastByte
<1> HIDE DEF S
<1>3. \A y \in S : i >= y
  BY <1>1, <1>2
<1>4. Max(S) = i
  <2>1. /\ Max(S) \in S /\ \A y \in S : Max(S) >= y
    BY <1>3 DEF Max
  <2> QED
    BY <1>1, <1>3, <2>1
<1>5. ByteAt(file, a) = file.phdrs[i].offset + 1 + (a - file.phdrs[i].paddr)
  BY <1>4, Zenon DEF ByteAt, S
<1> QED
  BY <1>2, <1>5 DEF S

(* A range that starts at a word and has a byte of a word has its first.    *)
LEMMA RangeHasWordStart ==
  ASSUME NEW w \in Nat \ {0}, NEW q \in Nat, NEW lo \in Nat, lo % w = 0, NEW hi \in Nat,
         NEW b \in 0..(w - 1), q * w + b \in lo..hi
  PROVE  q * w \in lo..hi
<1> DEFINE p  == lo \div w
           s  == q * w
           pw == p * w
           t  == (q + 1) * w
<1>1. p \in Nat /\ lo = pw + (lo % w) /\ s \in Int /\ pw \in Int
  BY DivMod, TimesWidth
<1>2. t = s + w /\ t \in Int
  BY SMTT(30)
<1>3. /\ p <= q <=> pw <= s
      /\ q + 1 <= p <=> t <= pw
  BY <1>1, TimesWidth
<1> HIDE DEF p, s, pw, t
<1>4. s + b \in lo..hi
  BY DEF s
<1>5. s \in lo..hi
  BY <1>1, <1>2, <1>3, <1>4
<1> QED
  BY <1>5 DEF s

IsExpected(new, old, file, base, w, size) ==
  \A k \in DOMAIN old :
    new[k] = IF base + (k - 1) \in base..(base + size - 1)
             THEN Expected(file, base, w, k, old[k]) ELSE old[k]

(* Writing the image of a file, range by range, makes what is expected: the *)
(* zeros behind a range never fall on a byte of another, since that one     *)
(* would start at a word too.                                               *)
LEMMA WrittenIsExpected ==
  ASSUME NEW file \in Files, NEW base \in Nat, NEW w \in Nat \ {0}, NEW words \in Nat,
         NEW size \in Nat, size = words * w,
         NEW segs, IsImage(segs, file, Len(file.phdrs), base, size),
         \A e \in segs : e.lo % w = 0,
         NEW old, DOMAIN old \subseteq Nat \ {0}, NEW new, IsWritten(new, old, segs, w)
  PROVE  IsExpected(new, old, file, base, w, size)
<1> SUFFICES ASSUME NEW k \in DOMAIN old
             PROVE  new[k] = IF base + (k - 1) \in base..(base + size - 1)
                             THEN Expected(file, base, w, k, old[k]) ELSE old[k]
  BY DEF IsExpected
<1> DEFINE x == k - 1
           q == x \div w
           r == x % w
           s == q * w
           N == Len(file.phdrs)
           Has(o) == Covering(file, base + o) # {}
<1>1. x \in Nat /\ q \in Nat /\ r \in 0..(w - 1) /\ x = s + r
  <2>1. x \in Nat
    OBVIOUS
  <2> HIDE DEF x
  <2> QED
    BY <2>1, DivMod
<1>2. \A e \in segs : e.lo \in Nat /\ e.hi \in Nat /\ e.hi < size /\ e.lo % w = 0
  BY DEF IsImage, IsSegs, IsSeg
<1>3. s \in Nat /\ s <= x
  <2> HIDE DEF r, q, x
  <2>1. s \in Int
    BY <1>1, TimesWidth
  <2>2. 0 <= q <=> 0 * w <= s
    BY <1>1, TimesWidth
  <2> HIDE DEF s
  <2> QED
    BY <1>1, <2>1, <2>2
<1>4. \A e \in segs : \A b \in 0..(w - 1) : s + b \in e.lo..e.hi => s \in e.lo..e.hi
  <2> HIDE DEF q
  <2> QED
    BY <1>1, <1>2, RangeHasWordStart
<1>5. (x < size <=> q < words) /\ (q < words => s + w <= size) /\ (size <= x => size <= s)
  <2>1. (size <= x <=> words <= q) /\ (x < size <=> q < words)
    <3> HIDE DEF x
    <3> HIDE DEF q
    <3>1. \A c \in Int : (c * w <= x <=> c <= q) /\ (x < c * w <=> q < c)
      BY <1>1, DivBelow DEF q
    <3>2. words \in Int
      OBVIOUS
    <3> QED
      BY <3>1, <3>2
  <2> HIDE DEF q
  <2>2. (q < words => s + w <= size) /\ (words <= q => size <= s)
    BY <1>1, TimesWidth
  <2> QED
    BY <2>1, <2>2
<1>6. /\ \A e \in segs : s \in e.lo..e.hi => new[k] = IF x <= e.hi THEN At(e, x) ELSE Zero
      /\ (\A e \in segs : s \notin e.lo..e.hi) => new[k] = old[k]
  BY DEF IsWritten, WordStart
<1>7. ASSUME NEW e \in segs, NEW o \in e.lo..e.hi
      PROVE  Has(o) /\ At(e, o) = ByteAt(file, base + o)
  <2>1. LastByte(file, N, base + o, At(e, o))
    BY DEF IsImage
  <2> QED
    BY <2>1, LastByteIsByteAt
<1>8. ASSUME NEW o \in 0..(size - 1), Has(o)
      PROVE  \E e \in segs : o \in e.lo..e.hi
  <2>1. PICK j \in Covering(file, base + o) : TRUE
    BY <1>8
  <2>2. j <= N
    BY PhdrOfFile DEF Covering, Used
  <2> QED
    BY <2>2 DEF IsImage
<1>9. Expected(file, base, w, k, old[k]) =
        IF Has(x) THEN ByteAt(file, base + x)
        ELSE IF \E b \in 0..(w - 1) : Has(s + b) THEN Zero ELSE old[k]
  <2>1. \A b \in 0..(w - 1) : (base + s) + b = base + (s + b)
    <3> HIDE DEF s
    <3> QED
      BY <1>3
  <2>2. Expected(file, base, w, k, old[k]) =
          IF Covering(file, base + x) # {} THEN ByteAt(file, base + x)
          ELSE IF \E b \in 0..(w - 1) : Covering(file, (base + s) + b) # {}
          THEN Zero ELSE old[k]
    BY Zenon DEF Expected
  <2> HIDE DEF s, x
  <2> QED
    BY <2>1, <2>2
<1> HIDE DEF x, q, r, s, Has
<1>10. base + x \in base..(base + size - 1) <=> x < size
  BY <1>1
<1>11. CASE ~(x < size)
  <2>1. \A e \in segs : s \notin e.lo..e.hi
    BY <1>1, <1>2, <1>3, <1>5, <1>11
  <2> QED
    BY <1>6, <1>10, <1>11, <2>1 DEF x
<1>12. CASE x < size /\ Has(x)
  <2>1. PICK e \in segs : x \in e.lo..e.hi
    BY <1>1, <1>8, <1>12
  <2>2. s \in e.lo..e.hi
    BY <1>1, <1>4, <2>1
  <2>3. x <= e.hi
    BY <1>1, <1>2, <2>1
  <2>4. new[k] = At(e, x) /\ At(e, x) = ByteAt(file, base + x)
    BY <1>6, <1>7, <2>1, <2>2, <2>3
  <2> QED
    BY <1>9, <1>10, <1>12, <2>4 DEF x
<1>13. CASE x < size /\ ~Has(x) /\ \E b \in 0..(w - 1) : Has(s + b)
  <2>1. PICK b \in 0..(w - 1) : Has(s + b)
    BY <1>13
  <2>2. s + b \in 0..(size - 1)
    BY <1>1, <1>3, <1>5, <1>13
  <2>3. PICK e \in segs : s + b \in e.lo..e.hi
    BY <1>8, <2>1, <2>2
  <2>4. s \in e.lo..e.hi
    BY <1>4, <2>3
  <2>5. ~(x <= e.hi)
    <3> SUFFICES ASSUME x <= e.hi PROVE FALSE
      OBVIOUS
    <3>1. x \in e.lo..e.hi
      BY <1>1, <1>2, <1>3, <2>4
    <3> QED
      BY <1>7, <1>13, <3>1
  <2> QED
    BY <1>6, <1>9, <1>10, <1>13, <2>4, <2>5 DEF x
<1>14. CASE x < size /\ ~Has(x) /\ ~(\E b \in 0..(w - 1) : Has(s + b))
  <2>1. \A e \in segs : s \notin e.lo..e.hi
    <3> SUFFICES ASSUME NEW e \in segs, s \in e.lo..e.hi PROVE FALSE
      OBVIOUS
    <3>1. Has(s)
      BY <1>7
    <3>2. 0 \in 0..(w - 1) /\ s + 0 = s
      BY <1>3
    <3> QED
      BY <1>14, <3>1, <3>2
  <2> QED
    BY <1>6, <1>9, <1>10, <1>14, <2>1 DEF x
<1> QED
  BY <1>11, <1>12, <1>13, <1>14

-----------------------------------------------------------------------------
(* A write of anything, to any word: the memories keep their shape, and     *)
(* what fails has changed nothing, unless it is a word of the area that the *)
(* design does not have.                                                    *)
LEMMA MemWriteSafe ==
  ASSUME NEW area \in DOMAIN Areas, NEW w, MemShape(w.mem),
         w = [mem |-> w.mem, result |-> "ok"], NEW p, NEW data
  PROVE  /\ MemShape(MemWrite(w, area, p, data).mem)
         /\ /\ MemWrite(w, area, p, data).result # "ok"
            /\ MemWrite(w, area, p, data).mem # w.mem
            /\ p \in Nat /\ Len(data) \in Nat
            => ~AsDesigned(area)
<1> DEFINE width == Areas[area].width
           n     == DataWords(width, data)
           fit   == {i \in 0..(n - 1) : p + i < Areas[area].depth}
           words == [k \in DOMAIN w.mem[area] |->
                       LET i == (k - 1) \div width - p
                       IN  IF i \in fit
                           THEN WriteBuffer(width, data, i)[1 + ((k - 1) % width)]
                           ELSE w.mem[area][k]]
           res   == MemWrite(w, area, p, data)
           done  == [mem    |-> [w.mem EXCEPT ![area] = words],
                     result |-> IF fit = 0..(n - 1) THEN "ok" ELSE "refused"]
<1>1. res = IF p + n > Areas[area].words THEN [w EXCEPT !.result = "abort"]
            ELSE IF n > 0 /\ ~Areas[area].found THEN [w EXCEPT !.result = "throw"]
            ELSE done
  <2>1. w.result = "ok"
    OBVIOUS
  <2> QED
    BY <2>1, Zenon DEF MemWrite
<1>2. DOMAIN words = DOMAIN w.mem[area] /\ words = [k \in DOMAIN words |-> words[k]]
  OBVIOUS
<1> HIDE DEF n, fit, words, res
<1>3. MemShape([w.mem EXCEPT ![area] = words])
  BY <1>2, ShapeKept
<1>4. MemShape(done.mem) /\ (done.result # "ok" => fit # 0..(n - 1))
  BY <1>3
<1> HIDE DEF done
<1>5. res = [mem |-> w.mem, result |-> "abort"] \/ res = [mem |-> w.mem, result |-> "throw"]
        \/ (res = done /\ ~(p + n > Areas[area].words))
  <2> DEFINE abort == [w EXCEPT !.result = "abort"]
             throw == [w EXCEPT !.result = "throw"]
             over  == p + n > Areas[area].words
             lost  == n > 0 /\ ~Areas[area].found
  <2>1. abort = [mem |-> w.mem, result |-> "abort"] /\ throw = [mem |-> w.mem, result |-> "throw"]
    OBVIOUS
  <2>2. res = IF over THEN abort ELSE IF lost THEN throw ELSE done
    BY <1>1, Zenon
  <2> HIDE DEF abort, throw, over, lost
  <2>3. res = abort \/ res = throw \/ (res = done /\ ~over)
    BY <2>2, Zenon
  <2> QED
    BY <2>1, <2>3 DEF over
<1>6. MemShape(res.mem)
  BY <1>4, <1>5
<1>7. ASSUME res.result # "ok", res.mem # w.mem, p \in Nat, Len(data) \in Nat
      PROVE  ~AsDesigned(area)
  <2>1. fit # 0..(n - 1) /\ ~(p + n > Areas[area].words)
    BY <1>4, <1>5, <1>7
  <2>2. n \in Int
    <3>1. width \in Nat \ {0}
      BY AreaOfDesign
    <3> HIDE DEF width
    <3> QED
      BY <1>7, <3>1 DEF n, DataWords
  <2>3. PICK i \in 0..(n - 1) : ~(p + i < Areas[area].depth)
    BY <2>1 DEF fit
  <2>4. Areas[area].words \in Nat /\ Areas[area].depth \in Nat
    BY AreaOfDesign
  <2> QED
    BY <1>7, <2>1, <2>2, <2>3, <2>4 DEF AsDesigned
<1> QED
  BY <1>6, <1>7 DEF res

(* The inductive invariant of the component.                                *)
IInv == RegistryInv /\ MemShape(mem)

LEMMA RegistryUnchanged ==
  ASSUME RegistryInv, UNCHANGED registry
  PROVE  RegistryInv'
BY DEF registry, RegistryInv, VectorsOK, RegistryAgrees, NoneOverflows, FromCandidates,
       DisjointRanges, Registered

(* What a load by name starts from.                                         *)
LEMMA NamedArea ==
  ASSUME RegistryInv, NEW name \in DOMAIN name_to_mem
  PROVE  mem_areas[name_to_mem[name] + 1] \in DOMAIN Areas
<1> DEFINE r == name_to_mem[name] + 1
<1>1. r \in Registered
  BY NameLeadsBack
<1> HIDE DEF r
<1>2. mem_areas[r] \in DOMAIN Areas
  BY <1>1, AreaOfIndex
<1> QED
  BY <1>2 DEF r

LEMMA InitIInv == Init => IInv
<1> SUFFICES ASSUME Init PROVE IInv
  OBVIOUS
<1>1. RegistryInv
  BY InitInv DEF Init
<1>2. MemShape(mem)
  BY DEF Init, MemShape
<1> QED
  BY <1>1, <1>2 DEF IInv

LEMMA NextIInv == IInv /\ [Next]_vars => IInv'
<1> SUFFICES ASSUME IInv, [Next]_vars PROVE IInv'
  OBVIOUS
<1>0. RegistryInv /\ MemShape(mem)
  BY DEF IInv
<1>1. ASSUME NEW c \in Candidates, Register(c)
      PROVE  IInv'
  <2>1. RegistryInv' /\ mem' = mem
    BY <1>0, <1>1, RegisterKeepsInv DEF Register
  <2> QED
    BY <1>0, <2>1 DEF IInv, MemShape
<1>2. ASSUME NEW file \in Files, LoadElfToMemories(file)
      PROVE  IInv'
  <2> DEFINE st == StageElf(file)
  <2>1. RegistryInv'
    BY <1>0, <1>2, RegistryUnchanged DEF LoadElfToMemories, Load
  <2>2. mem' = mem \/ (st.ok /\ mem' = WriteAll(st.staged).mem)
    BY <1>2 DEF LoadElfToMemories
  <2>3. ASSUME st.ok PROVE MemShape(WriteAll(st.staged).mem)
    <3>1. StagedOK(file, Len(file.phdrs), st.staged)
      BY <1>0, <2>3, StageElfExact
    <3>2. IsLoadingAll(WriteAll(st.staged), st.staged, DOMAIN st.staged)
      BY <1>0, <3>1, WriteAllExact
    <3> QED
      BY <3>2 DEF IsLoadingAll
  <2>4. MemShape(mem')
    BY <1>0, <2>2, <2>3
  <2> QED
    BY <2>1, <2>4 DEF IInv, MemShape
<1>3. ASSUME NEW file \in Files, NEW name, LoadElfToNamedMem(file, name)
      PROVE  IInv'
  <2>1. RegistryInv'
    BY <1>0, <1>3, RegistryUnchanged DEF LoadElfToNamedMem, Load
  <2>2. MemShape(mem')
    <3>1. CASE mem' = mem
      BY <1>0, <3>1
    <3>2. CASE /\ name \in DOMAIN name_to_mem
               /\ \E data : mem' = MemWrite([mem |-> mem, result |-> "ok"],
                                            mem_areas[name_to_mem[name] + 1], 0, data).mem
      <4> DEFINE area == mem_areas[name_to_mem[name] + 1]
                 w == [mem |-> mem, result |-> "ok"]
      <4>1. area \in DOMAIN Areas
        BY <1>0, <3>2, NamedArea
      <4>2. PICK data : mem' = MemWrite(w, area, 0, data).mem
        BY <3>2
      <4>3. w = [mem |-> w.mem, result |-> "ok"] /\ MemShape(w.mem)
        BY <1>0
      <4> HIDE DEF area, w
      <4> QED
        BY <4>1, <4>2, <4>3, MemWriteSafe
    <3> QED
      BY <1>3, <3>1, <3>2, Zenon DEF LoadElfToNamedMem
  <2> QED
    BY <2>1, <2>2 DEF IInv, MemShape
<1>4. ASSUME NEW file \in Files, NEW name, LoadVmemToNamedMem(file, name)
      PROVE  IInv'
  <2> DEFINE area == mem_areas[name_to_mem[name] + 1]
             fill == [i \in DOMAIN mem[area] |-> VmemByte]
  <2>1. RegistryInv'
    BY <1>0, <1>4, RegistryUnchanged DEF LoadVmemToNamedMem, Load
  <2>2. CASE mem' = mem
    BY <1>0, <2>1, <2>2 DEF IInv, MemShape
  <2>3. CASE name \in DOMAIN name_to_mem /\ mem' = [mem EXCEPT ![area] = fill]
    <3>1. area \in DOMAIN Areas
      BY <1>0, <2>3, NamedArea
    <3>2. DOMAIN fill = DOMAIN mem[area] /\ fill = [k \in DOMAIN fill |-> fill[k]]
      OBVIOUS
    <3> HIDE DEF area, fill
    <3>3. MemShape(mem')
      BY <1>0, <2>3, <3>1, <3>2, ShapeKept
    <3> QED
      BY <2>1, <3>3 DEF IInv, MemShape
  <2>4. mem' = mem \/ (name \in DOMAIN name_to_mem /\ mem' = [mem EXCEPT ![area] = fill])
    BY <1>4 DEF LoadVmemToNamedMem
  <2> QED
    BY <2>2, <2>3, <2>4
<1>5. CASE UNCHANGED vars
  <2>1. RegistryInv' /\ mem' = mem
    BY <1>0, <1>5, RegistryUnchanged DEF vars
  <2> QED
    BY <1>0, <2>1 DEF IInv, MemShape
<1> QED
  BY <1>1, <1>2, <1>3, <1>4, <1>5 DEF Next, LoadFileToNamedMem

(* The registry and the memories keep their shape, whatever is registered   *)
(* and loaded.                                                              *)
THEOREM Inductive == Spec => []IInv
BY InitIInv, NextIInv, PTL DEF Spec

(* The registry on its own, without the loads.                              *)
LEMMA RegistryInductive == RegistrySpec => []RegistryInv
<1>1. RegistryInv /\ [RegistryNext]_<<registry, outcome>> => RegistryInv'
  <2> SUFFICES ASSUME RegistryInv, [RegistryNext]_<<registry, outcome>>
               PROVE  RegistryInv'
    OBVIOUS
  <2>1. CASE RegistryNext
    BY <2>1, RegisterKeepsInv DEF RegistryNext
  <2>2. CASE UNCHANGED <<registry, outcome>>
    BY <2>2, RegistryUnchanged
  <2> QED
    BY <2>1, <2>2
<1> QED
  BY InitInv, <1>1, PTL DEF RegistrySpec

(* After every call, the vectors and the maps that RegisterMemoryArea()     *)
(* fills describe the same areas: a refused call leaves no trace.           *)
THEOREM RegistryCorrect ==
  (Spec => []RegistryAgrees) /\ (RegistrySpec => []RegistryAgrees)
<1>1. RegistryInv => RegistryAgrees
  BY DEF RegistryInv
<1>2. IInv => RegistryAgrees
  BY <1>1 DEF IInv
<1> QED
  BY Inductive, RegistryInductive, <1>1, <1>2, PTL

(* Areas never share an address, although EmplaceDisjoint() looks at two    *)
(* neighbours only and the end of an area is computed modulo 2^32.          *)
THEOREM DisjointCorrect ==
  (Spec => []AreasDisjoint) /\ (RegistrySpec => []AreasDisjoint)
<1>1. IInv => AreasDisjoint
  BY AreasAreDisjoint DEF IInv
<1> QED
  BY Inductive, RegistryInductive, AreasAreDisjoint, <1>1, PTL

(* The lookup by address that StageElf() does finds the area that contains  *)
(* the address, and nothing for an address outside every area.              *)
THEOREM FindCorrect ==
  (Spec => []FindExact) /\ (RegistrySpec => []FindExact)
<1>1. IInv => FindExact
  BY FindFindsAreas DEF IInv
<1> QED
  BY Inductive, RegistryInductive, FindFindsAreas, <1>1, PTL

-----------------------------------------------------------------------------
(* LoadElfToMemories() when StageElf() has not thrown.                      *)
LEMMA LoadElfWrites ==
  ASSUME IInv, NEW file \in Files, StageElf(file).ok
  PROVE  LET staged == StageElf(file).staged IN
         /\ StagedOK(file, Len(file.phdrs), staged)
         /\ IsLoadingAll(WriteAll(staged), staged, DOMAIN staged)
<1> DEFINE staged == StageElf(file).staged
<1>1. StagedOK(file, Len(file.phdrs), staged)
  BY StageElfExact DEF IInv
<1>2. IsLoadingAll(WriteAll(staged), staged, DOMAIN staged)
  BY <1>1, WriteAllExact DEF IInv
<1> QED
  BY <1>1, <1>2

LEMMA LoadElfSteps ==
  ASSUME IInv, NEW file \in Files, LoadElfToMemories(file)
  PROVE  /\ outcome' # "abort"
         /\ outcome' # "ok" /\ mem' # mem => \E i \in Registered : ~AsDesigned(mem_areas[i])
<1> DEFINE st == StageElf(file)
           w  == WriteAll(st.staged)
<1>1. \/ ~st.ok /\ outcome' = "throw" /\ mem' = mem
      \/ st.ok /\ outcome' = w.result /\ mem' = w.mem
  BY DEF LoadElfToMemories
<1>2. CASE ~st.ok /\ outcome' = "throw" /\ mem' = mem
  BY <1>2
<1>3. CASE st.ok /\ outcome' = w.result /\ mem' = w.mem
  <2>1. IsLoadingAll(w, st.staged, DOMAIN st.staged)
    BY <1>3, LoadElfWrites
  <2> HIDE DEF w, st
  <2> QED
    BY <1>3, <2>1 DEF IsLoadingAll
<1> QED
  BY <1>1, <1>2, <1>3

(* Which call a step is.                                                    *)
LEMMA StepIsCall ==
  ASSUME Next
  PROVE  \/ loads' = loads
         \/ \E file \in Files : /\ LoadElfToMemories(file)
                                /\ call'.file = file /\ call'.op = "elf_to_memories"
         \/ \E file \in Files : \E name : /\ LoadElfToNamedMem(file, name)
                                      /\ call'.file = file /\ call'.name = name
                                      /\ call'.op = "elf_to_name"
         \/ \E file \in Files : \E name : /\ LoadVmemToNamedMem(file, name)
                                      /\ call'.op = "vmem_to_name"
<1>1. ASSUME NEW c \in Candidates, Register(c) PROVE loads' = loads
  BY <1>1 DEF Register
<1>2. ASSUME NEW file \in Files, LoadElfToMemories(file)
      PROVE  call'.file = file /\ call'.op = "elf_to_memories"
  BY <1>2 DEF LoadElfToMemories, Load
<1>3. ASSUME NEW file \in Files, NEW name, LoadElfToNamedMem(file, name)
      PROVE  call'.file = file /\ call'.name = name /\ call'.op = "elf_to_name"
  BY <1>3 DEF LoadElfToNamedMem, Load
<1>4. ASSUME NEW file \in Files, NEW name, LoadVmemToNamedMem(file, name)
      PROVE  call'.op = "vmem_to_name"
  BY <1>4 DEF LoadVmemToNamedMem, Load
<1> QED
  BY <1>1, <1>2, <1>3, <1>4 DEF Next, LoadFileToNamedMem

(* No assertion fails on the way from the staging area to the memories:     *)
(* what StageElf() lets through starts at a word and ends inside its area.  *)
THEOREM NothingAborts == Spec => StagedFits
<1>1. IInv /\ [Next]_vars => [Loads("elf_to_memories") => outcome' # "abort"]_vars
  <2> SUFFICES ASSUME IInv, Next, Loads("elf_to_memories")
               PROVE  outcome' # "abort"
    OBVIOUS
  <2>1. PICK file \in Files : LoadElfToMemories(file)
    BY StepIsCall DEF Loads
  <2> QED
    BY <2>1, LoadElfSteps
<1> QED
  BY Inductive, <1>1, PTL DEF Spec, StagedFits

(* What a load by address that succeeds makes of the memories.              *)
LEMMA LoadElfMakesExpected ==
  ASSUME IInv, NEW file \in Files, LoadElfToMemories(file), outcome' = "ok"
  PROVE  /\ \A i \in Registered : \A k \in DOMAIN mem[mem_areas[i]] :
              mem'[mem_areas[i]][k] =
                IF base_addrs[i] + k - 1 \in AreaBytes(i)
                THEN Expected(file, base_addrs[i], Areas[mem_areas[i]].width, k,
                              mem[mem_areas[i]][k])
                ELSE mem[mem_areas[i]][k]
         /\ \A a \in DOMAIN Areas :
              (\A i \in Registered : mem_areas[i] # a) => mem'[a] = mem[a]
<1> DEFINE st == StageElf(file)
           w  == WriteAll(st.staged)
           T  == st.staged
<1>0. RegistryInv /\ MemShape(mem)
  BY DEF IInv
<1>1. st.ok /\ w.result = "ok" /\ mem' = w.mem
  BY DEF LoadElfToMemories
<1>2. StagedOK(file, Len(file.phdrs), T) /\ IsLoadingAll(w, T, DOMAIN T)
  BY <1>1, LoadElfWrites
<1> HIDE DEF st, w, T
<1>3. ASSUME NEW i \in Registered, NEW k \in DOMAIN mem[mem_areas[i]]
      PROVE  mem'[mem_areas[i]][k] =
                IF base_addrs[i] + k - 1 \in AreaBytes(i)
                THEN Expected(file, base_addrs[i], Areas[mem_areas[i]].width, k,
                              mem[mem_areas[i]][k])
                ELSE mem[mem_areas[i]][k]
  <2> DEFINE area  == mem_areas[i]
             base  == base_addrs[i]
             width == Areas[area].width
             words == Areas[area].words
             size  == GetSizeBytes(area)
             segs  == SegsOf(T, names[i])
             old   == mem[area]
             new   == mem'[area]
  <2>1. area \in DOMAIN Areas /\ base \in Nat
    BY <1>0, AreaOfIndex, AddrSpaceAssumption
  <2>2. /\ width \in Nat \ {0} /\ words \in Nat /\ size = words * width /\ size \in Nat
        /\ DOMAIN old \subseteq Nat \ {0}
    BY <1>0, <2>1, AreaOfDesign, ShapeOfMem
  <2>3. /\ IsImage(segs, file, Len(file.phdrs), base, size)
        /\ \A e \in segs : e.lo % width = 0
    BY <1>2 DEF StagedOK
  <2>4. IsWritten(new, old, segs, width)
    BY <1>1, <1>2 DEF IsLoadingAll, SegsOf
  <2>5. AreaBytes(i) = base..(base + size - 1) /\ k \in DOMAIN old
    BY DEF AreaBytes
  <2> HIDE DEF area, base, width, words, size, segs, old, new
  <2>6. IsExpected(new, old, file, base, width, size)
    BY <2>1, <2>2, <2>3, <2>4, WrittenIsExpected
  <2> QED
    BY <2>5, <2>6 DEF IsExpected, area, base, width, old, new
<1>4. ASSUME NEW a \in DOMAIN Areas, \A i \in Registered : mem_areas[i] # a
      PROVE  mem'[a] = mem[a]
  BY <1>1, <1>2, <1>4 DEF IsLoadingAll
<1> QED
  BY <1>3, <1>4

(* A load by address that succeeds has put every byte of the file at its    *)
(* address, the last segment winning, has cleared the rest of the words     *)
(* that the file begins to fill, and has changed nothing else: no segment   *)
(* is damaged by the zeros behind another, and no area is written past its  *)
(* end.  LoadElfToMemories(), StageElf(), Write().                          *)
THEOREM LoadIsExact == Spec => ElfLoadExact
<1> DEFINE Exact ==
      /\ \A i \in Registered : LET a == mem_areas[i] IN
           \A k \in DOMAIN mem[a] :
             mem'[a][k] =
               IF base_addrs[i] + k - 1 \in AreaBytes(i)
               THEN Expected(call'.file, base_addrs[i], Areas[a].width, k, mem[a][k])
               ELSE mem[a][k]
      /\ \A a \in DOMAIN Areas :
           (\A i \in Registered : mem_areas[i] # a) => mem'[a] = mem[a]
<1>1. ASSUME IInv, Next, Loads("elf_to_memories"), outcome' = "ok"
      PROVE  Exact
  <2>1. PICK file \in Files : LoadElfToMemories(file) /\ call'.file = file
    BY <1>1, StepIsCall DEF Loads
  <2> QED
    BY <1>1, <2>1, LoadElfMakesExpected, Zenon
<1>2. IInv /\ [Next]_vars => [Loads("elf_to_memories") /\ outcome' = "ok" => Exact]_vars
  <2> HIDE DEF Exact
  <2> QED
    BY <1>1
<1> QED
  BY Inductive, <1>2, PTL DEF Spec, ElfLoadExact

-----------------------------------------------------------------------------
(* One round of the second loop of FlattenElfFile(), and the loop as the    *)
(* recursion that it is.                                                    *)
FlattenRound(file, low, sm, n) ==
  IF n \notin Used(file) THEN sm
  ELSE AddSegment(sm, file.phdrs[n].paddr - low, FileBytes(file, file.phdrs[n]))

LEMMA FlattenLoopRounds ==
  ASSUME NEW file \in Files, NEW low
  PROVE  LET loop == FlattenLoop(file, low) IN
         /\ loop[0] = EmptyStagedMem
         /\ \A n \in 1..Len(file.phdrs) : loop[n] = FlattenRound(file, low, loop[n - 1], n)
<1> DEFINE first == EmptyStagedMem
           Is(g, k) == g = [n \in 0..k |-> IF n = 0 THEN first ELSE FlattenRound(file, low, g[n - 1], n)]
           S == {k \in Nat : \E g : Is(g, k)}
<1>1. 0 \in S
  <2> DEFINE g == [n \in 0..0 |-> first]
  <2>1. Is(g, 0)
    OBVIOUS
  <2> QED
    BY <2>1
<1>2. ASSUME NEW k \in S
      PROVE  k + 1 \in S
  <2>1. PICK g : Is(g, k)
    OBVIOUS
  <2> DEFINE h == [n \in 0..(k + 1) |-> IF n = k + 1 THEN FlattenRound(file, low, g[k], k + 1) ELSE g[n]]
  <2>2. \A n \in 0..k : h[n] = g[n]
    OBVIOUS
  <2>3. \A n \in 0..(k + 1) : h[n] = IF n = 0 THEN first ELSE FlattenRound(file, low, h[n - 1], n)
    <3> TAKE n \in 0..(k + 1)
    <3>1. CASE n = k + 1
      BY <2>2, <3>1
    <3>2. CASE n # k + 1 /\ n # 0
      <4>1. n \in 0..k /\ n - 1 \in 0..k
        BY <3>2
      <4> QED
        BY <2>1, <2>2, <3>2, <4>1
    <3>3. CASE n = 0
      BY <2>1, <2>2, <3>3
    <3> QED
      BY <3>1, <3>2, <3>3
  <2>4. Is(h, k + 1)
    BY <2>3
  <2> HIDE DEF h
  <2> QED
    BY <2>4
<1>3. \A k \in Nat : \E g : Is(g, k)
  <2> HIDE DEF Is
  <2>1. \A k \in Nat : k \in S
    BY <1>1, <1>2, SetInduction
  <2> QED
    BY <2>1
<1> DEFINE N == Len(file.phdrs)
<1>4. N \in Nat
  BY FilesAssumption
<1>5. FlattenLoop(file, low) = CHOOSE g : Is(g, N)
  BY Zenon DEF FlattenLoop, FlattenRound
<1>6. Is(FlattenLoop(file, low), N)
  <2> HIDE DEF Is, N
  <2> QED
    BY <1>3, <1>4, <1>5
<1> DEFINE loop == FlattenLoop(file, low)
<1> HIDE DEF N, first, loop
<1>7. \A n \in 0..N : loop[n] = IF n = 0 THEN first ELSE FlattenRound(file, low, loop[n - 1], n)
  BY <1>4, <1>6 DEF loop
<1>8. loop[0] = first /\ \A n \in 1..N : loop[n] = FlattenRound(file, low, loop[n - 1], n)
  BY <1>4, <1>7
<1> QED
  BY <1>8 DEF N, loop, first

(* The lowest and the highest address of a file that FlattenElfFile() lets  *)
(* through, all of whose segments are in the file.                          *)
IsExtent(file, low, high) ==
  /\ low \in Nat /\ high \in Nat /\ low <= high /\ high < AddrSpace
  /\ \E i \in Used(file) : file.phdrs[i].paddr = low
  /\ \E i \in Used(file) : file.phdrs[i].paddr + (file.phdrs[i].filesz - 1) = high
  /\ \A i \in Used(file) : /\ low <= file.phdrs[i].paddr
                           /\ file.phdrs[i].paddr + (file.phdrs[i].filesz - 1) <= high
                           /\ file.phdrs[i].offset + file.phdrs[i].filesz <= file.size

(* What the loop has made of the first n program headers.                   *)
IsFlattening(file, n, low, high, sm) ==
  /\ IsImage(sm.segs, file, n, low, AddrSpace - low)
  /\ sm.min_addr \in Nat /\ sm.max_addr \in Nat /\ sm.max_addr <= high - low
  /\ \A i \in Used(file) : i <= n =>
       /\ sm.min_addr <= file.phdrs[i].paddr - low
       /\ file.phdrs[i].paddr + (file.phdrs[i].filesz - 1) - low <= sm.max_addr

LEMMA FlattenOne ==
  ASSUME NEW file \in Files, NEW low, NEW high, IsExtent(file, low, high),
         NEW n \in Nat, NEW sm, IsFlattening(file, n, low, high, sm)
  PROVE  IsFlattening(file, n + 1, low, high, FlattenRound(file, low, sm, n + 1))
<1> DEFINE res  == FlattenRound(file, low, sm, n + 1)
           size == AddrSpace - low
<1>1. /\ low \in Nat /\ high \in Nat /\ low <= high /\ high < AddrSpace
      /\ size \in Nat /\ size <= AddrSpace
  BY AddrSpaceAssumption DEF IsExtent
<1>2. \A i \in Used(file) : i \in Nat
  BY PhdrOfFile DEF Used
<1>3. CASE n + 1 \notin Used(file)
  <2>1. res = sm
    BY <1>3 DEF FlattenRound
  <2>2. \A o \in 0..(size - 1) : n + 1 \notin Covering(file, low + o)
    BY <1>3 DEF Covering
  <2>3. \A i \in Used(file) : i <= n + 1 => i <= n
    BY <1>2, <1>3
  <2>4. IsImage(sm.segs, file, n + 1, low, size)
    <3>1. IsImage(sm.segs, file, n, low, size)
      BY DEF IsFlattening
    <3> HIDE DEF size
    <3> QED
      BY <1>1, <2>2, <3>1, ImageSkip
  <2> HIDE DEF res
  <2>5. IsFlattening(file, n + 1, low, high, res)
    BY <2>1, <2>3, <2>4 DEF IsFlattening
  <2> QED
    BY <2>5 DEF res
<1>4. CASE n + 1 \in Used(file)
  <2> DEFINE ph  == file.phdrs[n + 1]
             lo  == ph.paddr - low
             top == lo + ph.filesz - 1
             pa  == ph.paddr
             sz  == ph.filesz
  <2>1. /\ pa \in Nat /\ sz \in Nat \ {0} /\ low <= pa /\ pa + (sz - 1) <= high
        /\ ph.offset + ph.filesz <= file.size
    BY <1>4, PhdrOfFile DEF IsExtent, Used
  <2>2. /\ lo \in Nat /\ ph.paddr = low + lo /\ top < size /\ top \in Nat
        /\ top <= high - low /\ top = pa + (sz - 1) - low
    <3>1. lo = pa - low /\ top = lo + sz - 1
      OBVIOUS
    <3> HIDE DEF pa, sz, lo, top
    <3>2. pa - low \in Nat /\ pa = low + (pa - low)
      BY <1>1, <2>1
    <3>3. size = AddrSpace - low /\ AddrSpace \in Nat
      BY AddrSpaceAssumption
    <3> HIDE DEF size
    <3>4. top = pa + (sz - 1) - low
      BY <1>1, <2>1, <3>1
    <3>5. top \in Nat
      BY <1>1, <2>1, <3>1, <3>2
    <3>6. top <= high - low
      BY <1>1, <2>1, <3>4
    <3>7. top < size
      BY <1>1, <3>3, <3>5, <3>6
    <3> QED
      BY <3>1, <3>2, <3>4, <3>5, <3>6, <3>7 DEF pa
  <2>3. res = AddSegment(sm, lo, FileBytes(file, ph))
    BY <1>4 DEF FlattenRound
  <2> HIDE DEF ph, lo, top, pa, sz, res
  <2>4. IsImage(sm.segs, file, n, low, size)
    BY DEF IsFlattening
  <2>5. /\ IsImage(res.segs, file, n + 1, low, size)
        /\ res.min_addr = IF lo < sm.min_addr THEN lo ELSE sm.min_addr
        /\ res.max_addr = IF top > sm.max_addr THEN top ELSE sm.max_addr
    <3>1. top = lo + ph.filesz - 1 /\ ph = file.phdrs[n + 1]
      BY DEF top, ph
    <3> HIDE DEF size
    <3>2. /\ low \in Nat /\ size \in Nat /\ size <= AddrSpace /\ lo \in Nat
          /\ ph.paddr = low + lo /\ top < size /\ ph.offset + ph.filesz <= file.size
      BY <1>1, <2>1, <2>2
    <3>3. IsImage(res.segs, file, n + 1, low, size)
      BY <1>4, <2>3, <2>4, <3>1, <3>2, ImageAdd
    <3>4. res.min_addr = IF lo < sm.min_addr THEN lo ELSE sm.min_addr
      BY <1>4, <2>3, <2>4, <3>1, <3>2, ImageAdd
    <3>5. res.max_addr = IF top > sm.max_addr THEN top ELSE sm.max_addr
      BY <1>4, <2>3, <2>4, <3>1, <3>2, ImageAdd
    <3> QED
      BY <3>3, <3>4, <3>5
  <2>6. /\ sm.min_addr \in Nat /\ sm.max_addr \in Nat /\ sm.max_addr <= high - low
        /\ \A i \in Used(file) : i <= n =>
             /\ sm.min_addr <= file.phdrs[i].paddr - low
             /\ file.phdrs[i].paddr + (file.phdrs[i].filesz - 1) - low <= sm.max_addr
    BY DEF IsFlattening
  <2>7. /\ res.min_addr \in Nat /\ res.max_addr \in Nat /\ res.max_addr <= high - low
        /\ res.min_addr <= sm.min_addr /\ res.min_addr <= lo
        /\ sm.max_addr <= res.max_addr /\ top <= res.max_addr
    BY <1>1, <2>2, <2>5, <2>6
  <2>8. ASSUME NEW i \in Used(file), i <= n + 1
        PROVE  /\ res.min_addr <= file.phdrs[i].paddr - low
               /\ file.phdrs[i].paddr + (file.phdrs[i].filesz - 1) - low <= res.max_addr
    <3>1. CASE i = n + 1
      BY <2>2, <2>7, <3>1 DEF ph, lo, pa, sz
    <3>2. CASE i # n + 1
      <4> DEFINE a == file.phdrs[i].paddr - low
                 t == file.phdrs[i].paddr + (file.phdrs[i].filesz - 1) - low
      <4>1. i <= n
        BY <1>2, <2>8, <3>2
      <4>2. sm.min_addr <= a /\ t <= sm.max_addr
        BY <2>6, <4>1
      <4>3. a \in Int /\ t \in Int
        BY <1>1, PhdrOfFile DEF Used
      <4> HIDE DEF a, t
      <4>4. res.min_addr <= a /\ t <= res.max_addr
        BY <2>6, <2>7, <4>2, <4>3
      <4> QED
        BY <4>4 DEF a, t
    <3> QED
      BY <3>1, <3>2
  <2>9. IsFlattening(file, n + 1, low, high, res)
    BY <2>5, <2>7, <2>8 DEF IsFlattening
  <2> QED
    BY <2>9 DEF res
<1> QED
  BY <1>3, <1>4

LEMMA FlattenLoopExact ==
  ASSUME NEW file \in Files, NEW low, NEW high, IsExtent(file, low, high)
  PROVE  IsFlattening(file, Len(file.phdrs), low, high, FlattenLoop(file, low)[Len(file.phdrs)])
<1> DEFINE N == Len(file.phdrs)
           loop == FlattenLoop(file, low)
           S == {n \in Nat : n <= N => IsFlattening(file, n, low, high, loop[n])}
<1>1. N \in Nat
  BY FilesAssumption
<1>2. /\ loop[0] = EmptyStagedMem
      /\ \A n \in 1..N : loop[n] = FlattenRound(file, low, loop[n - 1], n)
  BY FlattenLoopRounds, Zenon
<1> HIDE DEF N, loop
<1>3. 0 \in S
  <2> DEFINE sm == EmptyStagedMem
  <2>1. sm.segs = {} /\ sm.min_addr = AddrSpace - 1 /\ sm.max_addr = 0
    BY DEF EmptyStagedMem
  <2> HIDE DEF sm
  <2>2. \A i \in Used(file) : ~(i <= 0)
    BY PhdrOfFile DEF Used
  <2>3. IsImage({}, file, 0, low, AddrSpace - low)
    <3>1. IsSegs({}, Nat)
      BY FS_EmptySet DEF IsSegs
    <3>2. \A a : \A j \in Covering(file, a) : ~(j <= 0)
      BY <2>2 DEF Covering
    <3> QED
      BY <3>1, <3>2 DEF IsImage
  <2>4. sm.min_addr \in Nat /\ sm.max_addr \in Nat /\ sm.max_addr <= high - low
    BY <2>1, AddrSpaceAssumption DEF IsExtent
  <2>5. IsFlattening(file, 0, low, high, sm)
    BY <2>1, <2>2, <2>3, <2>4 DEF IsFlattening
  <2> QED
    BY <1>2, <2>5 DEF sm
<1>4. ASSUME NEW n \in S
      PROVE  n + 1 \in S
  <2> SUFFICES ASSUME n + 1 <= N
               PROVE  IsFlattening(file, n + 1, low, high, loop[n + 1])
    OBVIOUS
  <2>1. n \in Nat /\ IsFlattening(file, n, low, high, loop[n])
    BY <1>1
  <2>2. n + 1 \in 1..N /\ (n + 1) - 1 = n
    BY <1>1, <2>1
  <2>3. loop[n + 1] = FlattenRound(file, low, loop[n], n + 1)
    BY <1>2, <2>2
  <2> QED
    BY <2>1, <2>3, FlattenOne
<1>5. N \in S
  <2> HIDE DEF S
  <2> QED
    BY <1>1, <1>3, <1>4, SetInduction DEF S
<1> QED
  BY <1>1, <1>5 DEF N, loop

(* The image of a file, from its lowest address to its highest.             *)
IsFlatFile(data, file, low, high) ==
  /\ data \in [1..(1 + (high - low)) -> Nat \cup {Zero}]
  /\ \A o \in 0..(high - low) :
       data[o + 1] = IF Covering(file, low + o) = {} THEN Zero ELSE ByteAt(file, low + o)

LEMMA FlatIsImage ==
  ASSUME NEW file \in Files, NEW low, NEW high, IsExtent(file, low, high)
  PROVE  IsFlatFile(GetFlat(FlattenLoop(file, low)[Len(file.phdrs)]), file, low, high)
<1> DEFINE N    == Len(file.phdrs)
           sm   == FlattenLoop(file, low)[N]
           data == GetFlat(sm)
           segs == sm.segs
           size == AddrSpace - low
           len  == high - low
<1>1. IsFlattening(file, N, low, high, sm)
  BY FlattenLoopExact
<1>2. /\ low \in Nat /\ high \in Nat /\ low <= high /\ high < AddrSpace /\ AddrSpace \in Nat
      /\ len \in Nat /\ size \in Nat /\ len < size
  BY AddrSpaceAssumption DEF IsExtent
<1>3. \A i \in Used(file) : /\ i \in Nat /\ i <= N
                            /\ file.phdrs[i].paddr \in Nat /\ file.phdrs[i].filesz \in Nat
  BY PhdrOfFile DEF Used
<1> HIDE DEF sm, N, data
<1>4. sm.min_addr = 0 /\ sm.max_addr = len
  <2>1. /\ sm.min_addr \in Nat /\ sm.max_addr \in Nat /\ sm.max_addr <= high - low
        /\ \A i \in Used(file) :
             /\ sm.min_addr <= file.phdrs[i].paddr - low
             /\ file.phdrs[i].paddr + (file.phdrs[i].filesz - 1) - low <= sm.max_addr
    BY <1>1, <1>3 DEF IsFlattening
  <2>2. PICK i \in Used(file) : file.phdrs[i].paddr = low
    BY DEF IsExtent
  <2>3. PICK j \in Used(file) : file.phdrs[j].paddr + (file.phdrs[j].filesz - 1) = high
    BY DEF IsExtent
  <2>4. sm.min_addr <= low - low
    BY <2>1, <2>2
  <2>5. high - low <= sm.max_addr
    <3> DEFINE p == file.phdrs[j].paddr
               z == file.phdrs[j].filesz
    <3>1. p \in Nat /\ z \in Nat /\ p + (z - 1) = high /\ p + (z - 1) - low <= sm.max_addr
      BY <1>3, <2>1, <2>3
    <3> HIDE DEF p, z
    <3> QED
      BY <1>2, <2>1, <3>1
  <2> QED
    BY <1>2, <2>1, <2>4, <2>5
<1>5. IsImage(segs, file, N, low, size)
  BY <1>1 DEF IsFlattening
<1> HIDE DEF segs, size
<1>6. IsSegs(segs, Nat) /\ \A e \in segs : e.lo \in Nat /\ e.hi \in Nat /\ e.lo <= e.hi
  BY <1>5 DEF IsImage, IsSegs, IsSeg
<1>7. ASSUME NEW e \in segs, NEW o \in e.lo..e.hi
      PROVE  Covering(file, low + o) # {} /\ At(e, o) = ByteAt(file, low + o)
  <2>1. LastByte(file, N, low + o, At(e, o))
    BY <1>5 DEF IsImage
  <2> QED
    BY <2>1, LastByteIsByteAt DEF N
<1>8. ASSUME NEW e \in segs
      PROVE  e.hi <= len
  <2>1. e.hi \in e.lo..e.hi
    BY <1>6
  <2>2. PICK i \in Covering(file, low + e.hi) : TRUE
    BY <1>7, <2>1
  <2>3. i \in Used(file) /\ (low + e.hi) - file.phdrs[i].paddr \in 0..(file.phdrs[i].filesz - 1)
    BY DEF Covering
  <2>4. file.phdrs[i].paddr + (file.phdrs[i].filesz - 1) <= high
    BY <2>3 DEF IsExtent
  <2> DEFINE p == file.phdrs[i].paddr
             z == file.phdrs[i].filesz
  <2>5. p \in Nat /\ z \in Nat /\ (low + e.hi) - p \in 0..(z - 1) /\ p + (z - 1) <= high
    BY <1>3, <2>3, <2>4
  <2> HIDE DEF p, z
  <2> QED
    BY <1>2, <1>6, <2>5
<1>9. IsFlat(data, segs, 0, 1 + len)
  <2>1. IsFlat(data, sm.segs, sm.min_addr, 1 + (sm.max_addr - sm.min_addr))
    <3>1. /\ IsSegs(sm.segs, Nat) /\ sm.min_addr \in Nat /\ sm.max_addr \in Nat
          /\ \A e \in sm.segs : sm.min_addr <= e.lo /\ e.hi <= sm.max_addr
      <4> HIDE DEF len
      <4> QED
        BY <1>2, <1>4, <1>6, <1>8 DEF segs
    <3>2. sm.min_addr <= sm.max_addr /\ sm.max_addr < AddrSpace
      <4>1. len < AddrSpace
        BY <1>2 DEF size
      <4> HIDE DEF len
      <4> QED
        BY <1>2, <1>4, <4>1
    <3> QED
      BY <3>1, <3>2, FlatLoopExact DEF data
  <2>2. 1 + (len - 0) = 1 + len
    BY <1>2
  <2> HIDE DEF len
  <2> QED
    BY <1>4, <2>1, <2>2 DEF segs
<1> HIDE DEF len
<1>10. ASSUME NEW o \in 0..len
       PROVE  data[o + 1] = IF Covering(file, low + o) = {} THEN Zero ELSE ByteAt(file, low + o)
  <2>1. CASE \E e \in segs : o \in e.lo..e.hi
    <3>1. PICK e \in segs : o \in e.lo..e.hi
      BY <2>1
    <3>2. data[o - 0 + 1] = At(e, o)
      BY <1>9, <3>1 DEF IsFlat
    <3>3. o - 0 + 1 = o + 1
      BY <1>2
    <3> QED
      BY <1>7, <3>1, <3>2, <3>3
  <2>2. CASE ~(\E e \in segs : o \in e.lo..e.hi)
    <3>1. o \in 0..(size - 1) /\ o + 1 \in 1..(1 + len) /\ 0 + (o + 1) - 1 = o
      BY <1>2
    <3>2. data[o + 1] = Zero
      BY <1>9, <2>2, <3>1 DEF IsFlat
    <3>3. \A j \in Covering(file, low + o) : j <= N
      BY <1>3 DEF Covering
    <3>4. Covering(file, low + o) = {}
      BY <1>5, <2>2, <3>1, <3>3 DEF IsImage
    <3> QED
      BY <3>2, <3>4
  <2> QED
    BY <2>1, <2>2
<1>11. data \in [1..(1 + len) -> Nat \cup {Zero}]
  <2>1. data = [i \in 1..(1 + len) |-> data[i]]
    BY <1>9 DEF IsFlat
  <2>2. ASSUME NEW i \in 1..(1 + len)
        PROVE  data[i] \in Nat \cup {Zero}
    <3>1. CASE \E e \in segs : i - 1 \in e.lo..e.hi
      <4>1. PICK e \in segs : i - 1 \in e.lo..e.hi
        BY <3>1
      <4>2. data[(i - 1) - 0 + 1] = At(e, i - 1)
        BY <1>9, <4>1 DEF IsFlat
      <4>3. (i - 1) - 0 + 1 = i
        BY <1>2
      <4>4. IsSeg(e, Nat) /\ (i - 1) - e.lo + 1 \in 1..(1 + (e.hi - e.lo))
        BY <1>6, <4>1 DEF IsSegs
      <4>5. At(e, i - 1) \in Nat
        BY <4>4 DEF At, IsSeg
      <4> QED
        BY <4>2, <4>3, <4>5
    <3>2. CASE ~(\E e \in segs : i - 1 \in e.lo..e.hi)
      <4>1. 0 + i - 1 = i - 1
        BY <1>2
      <4>2. data[i] = Zero
        BY <1>9, <3>2, <4>1 DEF IsFlat
      <4> QED
        BY <4>2
    <3> QED
      BY <3>1, <3>2
  <2> QED
    BY <2>1, <2>2
<1>12. IsFlatFile(data, file, low, high)
  BY <1>10, <1>11 DEF IsFlatFile, len
<1> QED
  BY <1>12 DEF data, sm, N

(* A bounded set of natural numbers has a greatest element.                 *)
LEMMA GreatestElement ==
  ASSUME NEW S \in SUBSET Nat, S # {}, NEW bound \in Nat, \A n \in S : n <= bound
  PROVE  \E n \in S : \A m \in S : m <= n
<1> DEFINE T == {bound - n : n \in S}
<1>1. T \in SUBSET Nat /\ T # {}
  <2>1. \A n \in S : bound - n \in Nat
    OBVIOUS
  <2> QED
    BY <2>1
<1>2. PICK t \in T : \A u \in T : t <= u
  BY <1>1, LeastElement
<1>3. PICK n \in S : t = bound - n
  BY <1>2
<1>4. ASSUME NEW m \in S
      PROVE  m <= n
  <2>1. t <= bound - m
    BY <1>2
  <2> QED
    BY <1>3, <2>1
<1> QED
  BY <1>4

(* What FlattenElfFile() has tested of a file that it lets through.         *)
LEMMA ExtentOfFile ==
  ASSUME NEW file \in Files, FlattenElfFile(file) # {}, Used(file) # {}, EndsInFile(file)
  PROVE  IsExtent(file, Min({file.phdrs[i].paddr : i \in Used(file)}),
                  Max({file.phdrs[i].paddr + file.phdrs[i].filesz - 1 : i \in Used(file)}))
<1> DEFINE P(i) == file.phdrs[i].paddr
           Z(i) == file.phdrs[i].filesz
           O(i) == file.phdrs[i].offset
           T(i) == P(i) + (Z(i) - 1)
           U    == Used(file)
           lows == {P(i) : i \in U}
           tops == {T(i) : i \in U}
           low  == Min(lows)
           high == Max(tops)
           last == file.size
<1>1. /\ \A i \in U : ~(Wrap(T(i)) < P(i))
      /\ \A i \in U : ~(last < Wrap(O(i) + Z(i)))
  <2>1. ~(\E i \in U : Wrap(T(i)) < P(i))
    BY Zenon DEF FlattenElfFile
  <2>2. ~(\E i \in DOMAIN file.phdrs : file.phdrs[i].load /\ last < Wrap(O(i) + Z(i)))
    BY Zenon DEF FlattenElfFile
  <2>3. \A i \in U : i \in DOMAIN file.phdrs /\ file.phdrs[i].load
    BY DEF Used
  <2> QED
    BY <2>1, <2>2, <2>3
<1>2. \A i \in U : /\ P(i) \in Nat /\ P(i) < AddrSpace /\ Z(i) \in Nat \ {0} /\ Z(i) < AddrSpace
                   /\ O(i) \in Nat /\ O(i) + Z(i) < AddrSpace
  BY PhdrOfFile DEF Used, EndsInFile
<1>3. AddrSpace \in Nat /\ AddrSpace - 1 \in Nat /\ last \in Nat
  BY AddrSpaceAssumption, FilesAssumption
<1> HIDE DEF P, Z, O, U, last
<1>4. ASSUME NEW i \in U
      PROVE  T(i) \in Nat /\ T(i) < AddrSpace /\ P(i) <= T(i)
  <2>1. T(i) \in Nat /\ T(i) < 2 * AddrSpace /\ P(i) <= T(i)
    BY <1>2, <1>3
  <2>2. T(i) >= AddrSpace => Wrap(T(i)) = T(i) - AddrSpace
    <3>1. T(i) >= AddrSpace => T(i) \in AddrSpace..(2 * AddrSpace - 1)
      BY <1>3, <2>1
    <3> HIDE DEF T
    <3> QED
      BY <3>1, WrapOnce
  <2>3. T(i) - AddrSpace < P(i)
    BY <1>2, <1>3
  <2>4. ~(Wrap(T(i)) < P(i))
    BY <1>1
  <2> QED
    BY <1>3, <2>1, <2>2, <2>3, <2>4
<1>5. ASSUME NEW i \in U
      PROVE  O(i) + Z(i) <= last
  <2>1. O(i) + Z(i) \in 0..(AddrSpace - 1)
    BY <1>2, <1>3
  <2>2. Wrap(O(i) + Z(i)) = O(i) + Z(i)
    BY <2>1, WrapSmall
  <2>3. ~(last < O(i) + Z(i))
    BY <1>1, <2>2
  <2> QED
    BY <1>3, <2>1, <2>3
<1>6. low \in lows /\ \A m \in lows : low <= m
  <2>1. lows \in SUBSET Nat /\ lows # {}
    BY <1>2 DEF U
  <2>2. \E n \in lows : \A m \in lows : n <= m
    BY <2>1, LeastElement
  <2> HIDE DEF lows
  <2> QED
    BY <2>2 DEF Min
<1>7. high \in tops /\ \A m \in tops : high >= m
  <2>1. tops \in SUBSET Nat /\ tops # {} /\ \A n \in tops : n <= AddrSpace - 1
    <3> HIDE DEF T
    <3> QED
      BY <1>3, <1>4 DEF U
  <2> HIDE DEF tops
  <2>2. \E n \in tops : \A m \in tops : m <= n
    BY <1>3, <2>1, GreatestElement
  <2>3. \E n \in tops : \A m \in tops : n >= m
    BY <2>1, <2>2
  <2> QED
    BY <2>3 DEF Max
<1> HIDE DEF low, high
<1>8. PICK i \in U : low = P(i)
  BY <1>6
<1>9. PICK j \in U : high = T(j)
  BY <1>7
<1>10. /\ low \in Nat /\ high \in Nat /\ high < AddrSpace
       /\ \A h \in U : low <= P(h) /\ T(h) <= high
  <2>1. \A h \in U : low <= P(h) /\ high >= T(h)
    BY <1>6, <1>7
  <2> HIDE DEF T
  <2> QED
    BY <1>2, <1>4, <1>8, <1>9, <2>1
<1>11. low <= high
  <2>1. low <= P(j) /\ P(j) <= T(j) /\ P(j) \in Nat
    BY <1>2, <1>4, <1>10
  <2> HIDE DEF T
  <2> QED
    BY <1>9, <1>10, <2>1
<1>12. IsExtent(file, low, high)
  BY <1>5, <1>8, <1>9, <1>10, <1>11 DEF IsExtent, P, Z, O, U, last
<1> QED
  BY <1>12 DEF low, high, P, Z, U

(* Writing the flat image to the first words of a memory.                   *)
LEMMA WriteFlat ==
  ASSUME NEW file \in Files, NEW low, NEW high, IsExtent(file, low, high),
         NEW data, IsFlatFile(data, file, low, high),
         NEW area \in DOMAIN Areas, NEW w, MemShape(w.mem),
         w = [mem |-> w.mem, result |-> "ok"],
         MemWrite(w, area, 0, data).result = "ok"
  PROVE  LET new == MemWrite(w, area, 0, data).mem
             end == ((high - low) \div Areas[area].width + 1) * Areas[area].width
         IN  /\ \A b \in DOMAIN Areas : b # area => new[b] = w.mem[b]
             /\ \A k \in DOMAIN w.mem[area] :
                  new[area][k] = IF k > end THEN w.mem[area][k]
                                 ELSE IF Covering(file, low + (k - 1)) = {} THEN Zero
                                 ELSE ByteAt(file, low + (k - 1))
<1> DEFINE res   == MemWrite(w, area, 0, data)
           width == Areas[area].width
           len   == high - low
           e     == Entry(0, len, data)
           c     == len \div width
           end   == (c + 1) * width
<1>1. /\ low \in Nat /\ high \in Nat /\ low <= high /\ len \in Nat
  BY DEF IsExtent
<1>2. /\ width \in Nat \ {0} /\ DOMAIN w.mem[area] \subseteq Nat \ {0}
  BY AreaOfDesign, ShapeOfMem
<1>3. e.lo = 0 /\ e.hi = len /\ e.val = data
  BY DEF Entry
<1>4. data \in [1..(1 + len) -> Nat \cup {Zero}]
  BY DEF IsFlatFile
<1> HIDE DEF e, len, width
<1>5. IsSeg(e, Nat \cup {Zero})
  <2>1. 1 + (len - 0) = 1 + len
    BY <1>1
  <2> QED
    BY <1>1, <1>3, <1>4, <2>1 DEF IsSeg
<1>6. IsMemWrite(res, w, area, e)
  <2>1. 0 \in Nat /\ e.lo = 0 * width
    BY <1>2, <1>3
  <2> HIDE DEF res
  <2>2. IsMemWrite(MemWrite(w, area, 0, e.val), w, area, e)
    BY <1>5, <2>1, MemWriteExact DEF width
  <2> QED
    BY <1>3, <2>2 DEF res
<1> HIDE DEF res
<1>7. /\ \A b \in DOMAIN Areas : b # area => res.mem[b] = w.mem[b]
      /\ IsWritten(res.mem[area], w.mem[area], {e}, width)
  BY <1>6 DEF IsMemWrite, res, width
<1>8. c \in Nat /\ \A d \in Int : (d * width <= len <=> d <= c) /\ (len < d * width <=> c < d)
  BY <1>1, <1>2, DivBelow, DivMod
<1>9. end \in Int
  <2> HIDE DEF c
  <2> QED
    BY <1>2, <1>8, TimesWidth
<1>10. ASSUME NEW k \in DOMAIN w.mem[area]
       PROVE  res.mem[area][k] =
                IF k > end THEN w.mem[area][k]
                ELSE IF Covering(file, low + (k - 1)) = {} THEN Zero
                ELSE ByteAt(file, low + (k - 1))
  <2> DEFINE x == k - 1
             q == x \div width
             s == q * width
  <2>1. x \in Nat /\ k = x + 1
    BY <1>2
  <2>2. /\ s \in e.lo..e.hi => res.mem[area][k] = IF x <= e.hi THEN At(e, x) ELSE Zero
        /\ s \notin e.lo..e.hi => res.mem[area][k] = w.mem[area][k]
    BY <1>7 DEF IsWritten, WordStart
  <2> HIDE DEF x
  <2>3. q \in Nat /\ \A d \in Int : (d * width <= x <=> d <= q) /\ (x < d * width <=> q < d)
    BY <1>2, <2>1, DivBelow, DivMod
  <2> HIDE DEF q, c
  <2>4. s \in Int /\ (0 <= q <=> 0 * width <= s)
    BY <1>2, <2>3, TimesWidth
  <2>5. s \in e.lo..e.hi <=> q <= c
    <3>1. 0 <= s
      BY <1>2, <2>3, <2>4
    <3>2. s <= len <=> q <= c
      BY <1>8, <2>3
    <3> HIDE DEF s
    <3> QED
      BY <1>1, <1>3, <2>4, <3>1, <3>2
  <2>6. k > end <=> ~(q <= c)
    <3>1. c + 1 \in Int /\ (end <= x <=> c + 1 <= q)
      BY <1>8, <2>3
    <3> HIDE DEF end
    <3> QED
      BY <1>8, <1>9, <2>1, <2>3, <3>1
  <2>7. x <= len => At(e, x) = IF Covering(file, low + x) = {} THEN Zero ELSE ByteAt(file, low + x)
    <3>1. x <= len => x \in 0..len
      BY <1>1, <2>1
    <3>2. x <= len => data[x + 1] = IF Covering(file, low + x) = {} THEN Zero ELSE ByteAt(file, low + x)
      BY <3>1 DEF IsFlatFile, len
    <3>3. x - 0 + 1 = x + 1
      BY <2>1
    <3> QED
      BY <1>3, <3>2, <3>3 DEF At
  <2>8. ~(x <= len) => Covering(file, low + x) = {}
    <3> SUFFICES ASSUME ~(x <= len), NEW i \in Covering(file, low + x)
                 PROVE  FALSE
      OBVIOUS
    <3> DEFINE p == file.phdrs[i].paddr
               z == file.phdrs[i].filesz
    <3>1. i \in Used(file) /\ (low + x) - p \in 0..(z - 1)
      BY DEF Covering
    <3>2. p \in Nat /\ z \in Nat /\ p + (z - 1) <= high
      BY <3>1, PhdrOfFile DEF IsExtent, Used
    <3> HIDE DEF p, z
    <3> QED
      BY <1>1, <2>1, <3>1, <3>2 DEF len
  <2> HIDE DEF s, end
  <2>9. res.mem[area][k] =
          IF k > end THEN w.mem[area][k]
          ELSE IF Covering(file, low + x) = {} THEN Zero
          ELSE ByteAt(file, low + x)
    <3>1. CASE k > end
      BY <2>2, <2>5, <2>6, <3>1
    <3>2. CASE ~(k > end) /\ x <= len
      BY <1>3, <2>2, <2>5, <2>6, <2>7, <3>2
    <3>3. CASE ~(k > end) /\ ~(x <= len)
      BY <1>3, <2>2, <2>5, <2>6, <2>8, <3>3
    <3> QED
      BY <3>1, <3>2, <3>3
  <2> QED
    BY <2>9 DEF x
<1> QED
  BY <1>7, <1>10 DEF res, len, width

(* A file without segments has no data, and no word is written.             *)
LEMMA WriteNothing ==
  ASSUME NEW area \in DOMAIN Areas, NEW w, MemShape(w.mem),
         w = [mem |-> w.mem, result |-> "ok"]
  PROVE  MemWrite(w, area, 0, <<>>).mem = w.mem
<1> DEFINE width == Areas[area].width
           n     == DataWords(width, <<>>)
           old   == w.mem[area]
           fit   == {i \in 0..(n - 1) : 0 + i < Areas[area].depth}
           words == [k \in DOMAIN old |->
                       LET i == (k - 1) \div width - 0
                       IN  IF i \in fit
                           THEN WriteBuffer(width, <<>>, i)[1 + ((k - 1) % width)]
                           ELSE old[k]]
           res   == MemWrite(w, area, 0, <<>>)
           done  == [mem    |-> [w.mem EXCEPT ![area] = words],
                     result |-> IF fit = 0..(n - 1) THEN "ok" ELSE "refused"]
<1>1. width \in Nat \ {0} /\ DOMAIN w.mem = DOMAIN Areas
  BY AreaOfDesign, ShapeOfMem
<1>2. n = 0
  <2>1. n = (0 + width - 1) \div width
    BY DEF DataWords
  <2> HIDE DEF width, n
  <2>2. 0 + width - 1 = width - 1
    BY <1>1
  <2>3. (width - 1) \div width = 0
    BY <1>1, SMTT(30)
  <2> QED
    BY <2>1, <2>2, <2>3
<1>3. fit = {}
  <2> HIDE DEF n
  <2> QED
    BY <1>2
<1> HIDE DEF fit, n
<1>4. words = [k \in DOMAIN old |-> old[k]]
  BY <1>3
<1>5. old = [k \in DOMAIN old |-> old[k]]
  BY DEF MemShape
<1>6. w.mem = [a \in DOMAIN w.mem |-> w.mem[a]]
  BY DEF MemShape
<1> HIDE DEF words
<1>7. done.mem = w.mem
  BY <1>1, <1>4, <1>5, <1>6
<1> HIDE DEF done
<1>8. res = w \/ res = [w EXCEPT !.result = "abort"] \/ res = [w EXCEPT !.result = "throw"] \/ res = done
  BY Zenon DEF MemWrite, done, words, fit, n
<1> HIDE DEF res
<1>9. [w EXCEPT !.result = "abort"].mem = w.mem /\ [w EXCEPT !.result = "throw"].mem = w.mem
  OBVIOUS
<1> QED
  BY <1>7, <1>8, <1>9 DEF res

-----------------------------------------------------------------------------
(* What a load by name that succeeds makes of the memories.                 *)
LEMMA LoadNamedMakesImage ==
  ASSUME IInv, NEW file \in Files, NEW name, LoadElfToNamedMem(file, name),
         outcome' = "ok", EndsInFile(file)
  PROVE  LET a    == mem_areas[name_to_mem[name] + 1]
             low  == Min({file.phdrs[i].paddr : i \in Used(file)})
             high == Max({file.phdrs[i].paddr + file.phdrs[i].filesz - 1 : i \in Used(file)})
             words == IF Used(file) = {} THEN 0
                      ELSE (high - low) \div Areas[a].width + 1
         IN  /\ \A k \in DOMAIN mem[a] :
                  mem'[a][k] =
                    IF k > words * Areas[a].width THEN mem[a][k]
                    ELSE IF Covering(file, low + k - 1) = {} THEN Zero
                    ELSE ByteAt(file, low + k - 1)
             /\ \A b \in DOMAIN Areas : b # a => mem'[b] = mem[b]
<1> DEFINE a    == mem_areas[name_to_mem[name] + 1]
           low  == Min({file.phdrs[i].paddr : i \in Used(file)})
           high == Max({file.phdrs[i].paddr + file.phdrs[i].filesz - 1 : i \in Used(file)})
           words == IF Used(file) = {} THEN 0
                    ELSE (high - low) \div Areas[a].width + 1
           w    == [mem |-> mem, result |-> "ok"]
           Imaged == /\ \A k \in DOMAIN mem[a] :
                         mem'[a][k] =
                           IF k > words * Areas[a].width THEN mem[a][k]
                           ELSE IF Covering(file, low + (k - 1)) = {} THEN Zero
                           ELSE ByteAt(file, low + (k - 1))
                    /\ \A b \in DOMAIN Areas : b # a => mem'[b] = mem[b]
<1>1. /\ name \in DOMAIN name_to_mem
      /\ \E data \in FlattenElfFile(file) : /\ outcome' = MemWrite(w, a, 0, data).result
                                            /\ mem' = MemWrite(w, a, 0, data).mem
  BY Zenon DEF LoadElfToNamedMem
<1>2. PICK data \in FlattenElfFile(file) : /\ MemWrite(w, a, 0, data).result = "ok"
                                           /\ mem' = MemWrite(w, a, 0, data).mem
  BY <1>1
<1>3. a \in DOMAIN Areas
  BY <1>1, NamedArea DEF IInv
<1>4. w = [mem |-> w.mem, result |-> "ok"] /\ MemShape(w.mem) /\ w.mem = mem
  BY DEF IInv
<1>5. Areas[a].width \in Nat \ {0} /\ DOMAIN mem[a] \subseteq Nat \ {0}
  BY <1>3, <1>4, AreaOfDesign, ShapeOfMem
<1> HIDE DEF w, a
<1>6. ASSUME Used(file) = {} PROVE Imaged
  <2>1. data = <<>>
    BY <1>6, Zenon DEF FlattenElfFile
  <2>2. mem' = mem
    BY <1>2, <1>3, <1>4, <2>1, WriteNothing
  <2>3. words * Areas[a].width = 0
    <3>1. words = 0
      BY <1>6
    <3> HIDE DEF words
    <3> QED
      BY <1>5, <3>1
  <2> HIDE DEF words, low
  <2>4. \A k \in DOMAIN mem[a] : k > 0
    BY <1>5
  <2> QED
    BY <2>2, <2>3, <2>4
<1>7. ASSUME Used(file) # {} PROVE Imaged
  <2>1. IsExtent(file, low, high)
    BY <1>2, <1>7, ExtentOfFile
  <2>2. data = GetFlat(FlattenLoop(file, low)[Len(file.phdrs)])
    BY <1>7, Zenon DEF FlattenElfFile
  <2>3. words = (high - low) \div Areas[a].width + 1
    BY <1>7
  <2> HIDE DEF words, low, high
  <2>4. IsFlatFile(data, file, low, high)
    BY <2>1, <2>2, FlatIsImage
  <2> DEFINE new == MemWrite(w, a, 0, data).mem
             end == ((high - low) \div Areas[a].width + 1) * Areas[a].width
  <2>5. /\ \A b \in DOMAIN Areas : b # a => new[b] = w.mem[b]
        /\ \A k \in DOMAIN w.mem[a] :
             new[a][k] = IF k > end THEN w.mem[a][k]
                         ELSE IF Covering(file, low + (k - 1)) = {} THEN Zero
                         ELSE ByteAt(file, low + (k - 1))
    BY <1>2, <1>3, <1>4, <2>1, <2>4, WriteFlat
  <2>6. new = mem' /\ end = words * Areas[a].width
    BY <1>2, <2>3
  <2> HIDE DEF new, end
  <2> QED
    BY <1>4, <2>5, <2>6
<1>8. Imaged
  <2> HIDE DEF Imaged
  <2> QED
    BY <1>6, <1>7
<1> QED
  BY <1>8, Zenon DEF a

(* A load by name that succeeds has put every byte of the file at its       *)
(* distance from the lowest address, the last segment winning, with zeros   *)
(* in between and up to the end of the last word, and has changed nothing   *)
(* else.  FlattenElfFile(), GetFlat(), Write().                             *)
THEOREM NamedLoadIsExact == Spec => NamedLoadExact
<1> DEFINE Exact ==
      LET file == call'.file
          a    == mem_areas[name_to_mem[call'.name] + 1]
          low  == Min({file.phdrs[i].paddr : i \in Used(file)})
          high == Max({file.phdrs[i].paddr + file.phdrs[i].filesz - 1 : i \in Used(file)})
          words == IF Used(file) = {} THEN 0
                   ELSE (high - low) \div Areas[a].width + 1
      IN  /\ \A k \in DOMAIN mem[a] :
               mem'[a][k] =
                 IF k > words * Areas[a].width THEN mem[a][k]
                 ELSE IF Covering(file, low + k - 1) = {} THEN Zero
                 ELSE ByteAt(file, low + k - 1)
          /\ \A b \in DOMAIN Areas : b # a => mem'[b] = mem[b]
<1>1. ASSUME IInv, Next, Loads("elf_to_name"), outcome' = "ok", EndsInFile(call'.file)
      PROVE  Exact
  <2>1. PICK file \in Files : \E name : /\ LoadElfToNamedMem(file, name)
                                        /\ call'.file = file /\ call'.name = name
    BY <1>1, StepIsCall DEF Loads
  <2>2. PICK name : /\ LoadElfToNamedMem(file, name)
                    /\ call'.file = file /\ call'.name = name
    BY <2>1
  <2> QED
    BY <1>1, <2>2, LoadNamedMakesImage, Zenon
<1>2. IInv /\ [Next]_vars =>
        [Loads("elf_to_name") /\ outcome' = "ok" /\ EndsInFile(call'.file) => Exact]_vars
  <2> HIDE DEF Exact
  <2> QED
    BY <1>1
<1> QED
  BY Inductive, <1>2, PTL DEF Spec, NamedLoadExact

-----------------------------------------------------------------------------
(* The image of any file, also of one whose segments end where they cannot, *)
(* is a sequence of some length.                                            *)
LEMMA FlatLength ==
  ASSUME NEW sm, IsFiniteSet(sm.segs), sm.min_addr \in Int, sm.max_addr \in Int
  PROVE  Len(GetFlat(sm)) \in Nat
<1> DEFINE loop == FlatLoop(sm)
           N    == Cardinality(sm.segs)
           len  == 1 + Wrap(sm.max_addr - sm.min_addr)
           S    == {n \in Nat : n <= N => DOMAIN loop[n].ret = 1..len}
<1>1. N \in Nat /\ len \in Nat
  BY FS_CardinalityType, AddrSpaceAssumption DEF Wrap
<1>2. /\ loop[0] = FlatStart(sm)
      /\ \A n \in 1..N : loop[n] = FlatRound(sm, loop[n - 1])
  BY FlatLoopRounds, Zenon
<1> HIDE DEF loop, N, len
<1>3. 0 \in S
  BY <1>2 DEF FlatStart, Resize, len
<1>4. ASSUME NEW n \in S
      PROVE  n + 1 \in S
  <2> SUFFICES ASSUME n + 1 <= N
               PROVE  DOMAIN loop[n + 1].ret = 1..len
    OBVIOUS
  <2>1. DOMAIN loop[n].ret = 1..len
    BY <1>1
  <2>2. n + 1 \in 1..N /\ (n + 1) - 1 = n
    BY <1>1
  <2>3. loop[n + 1] = FlatRound(sm, loop[n])
    BY <1>2, <2>2
  <2> QED
    BY <2>1, <2>3 DEF FlatRound, CopyTo
<1>5. N \in S
  <2> HIDE DEF S
  <2> QED
    BY <1>1, <1>3, <1>4, SetInduction DEF S
<1>6. DOMAIN GetFlat(sm) = 1..len
  BY <1>1, <1>5 DEF GetFlat, loop, N
<1> QED
  BY <1>1, <1>6

LEMMA FlattenLoopShape ==
  ASSUME NEW file \in Files, NEW low \in Int, NEW n \in 0..Len(file.phdrs)
  PROVE  LET sm == FlattenLoop(file, low)[n] IN
         IsFiniteSet(sm.segs) /\ sm.min_addr \in Int /\ sm.max_addr \in Int
<1> DEFINE N == Len(file.phdrs)
           loop == FlattenLoop(file, low)
           Shape(sm) == IsFiniteSet(sm.segs) /\ sm.min_addr \in Int /\ sm.max_addr \in Int
           S == {k \in Nat : k <= N => Shape(loop[k])}
<1>1. N \in Nat
  BY FilesAssumption
<1>2. /\ loop[0] = EmptyStagedMem
      /\ \A k \in 1..N : loop[k] = FlattenRound(file, low, loop[k - 1], k)
  BY FlattenLoopRounds, Zenon
<1> HIDE DEF N, loop
<1>3. 0 \in S
  <2> DEFINE sm == EmptyStagedMem
  <2>1. sm.segs = {} /\ sm.min_addr = AddrSpace - 1 /\ sm.max_addr = 0
    BY DEF EmptyStagedMem
  <2> HIDE DEF sm
  <2>2. Shape(sm)
    BY <2>1, FS_EmptySet, AddrSpaceAssumption
  <2> QED
    BY <1>2, <2>2 DEF sm
<1>4. ASSUME NEW k \in S
      PROVE  k + 1 \in S
  <2> SUFFICES ASSUME k + 1 <= N
               PROVE  Shape(loop[k + 1])
    OBVIOUS
  <2> DEFINE sm  == loop[k]
             ph  == file.phdrs[k + 1]
             off == ph.paddr - low
             seg == FileBytes(file, ph)
             top == Wrap(off + Len(seg) - 1)
  <2>1. Shape(sm)
    BY <1>1
  <2>2. k + 1 \in 1..N /\ (k + 1) - 1 = k
    BY <1>1
  <2>3. loop[k + 1] = FlattenRound(file, low, sm, k + 1)
    BY <1>2, <2>2
  <2>4. ph.paddr \in Nat /\ ph.filesz \in Nat
    BY <2>2, PhdrOfFile DEF N
  <2>5. Len(seg) \in Nat
    <3>1. DOMAIN seg = 1..ph.filesz
      BY DEF FileBytes
    <3> HIDE DEF seg
    <3> QED
      BY <2>4, <3>1
  <2>6. off \in Int /\ top \in Int
    <3>1. off \in Int
      BY <2>4
    <3> HIDE DEF seg, off
    <3>2. off + Len(seg) - 1 \in Int
      BY <2>5, <3>1
    <3> QED
      BY <3>1, <3>2, AddrSpaceAssumption DEF Wrap
  <2>7. IsFiniteSet(Emplace(sm.segs, off, top, seg))
    <3> DEFINE hits == Hits(sm.segs, off, top)
               acc  == MergeLoop(hits, Entry(off, top, seg))[Cardinality(hits)].acc
    <3> HIDE DEF seg, top, off
    <3>1. Emplace(sm.segs, off, top, seg) = Insert(sm.segs \ hits, acc)
      BY Zenon DEF Emplace
    <3> HIDE DEF acc, hits
    <3>2. IsFiniteSet(sm.segs \ hits)
      BY <2>1, FS_Subset
    <3>3. IsFiniteSet((sm.segs \ hits) \cup {acc})
      BY <3>2, FS_AddElement
    <3> QED
      BY <3>1, <3>2, <3>3 DEF Insert
  <2>8. Shape(AddSegment(sm, off, seg))
    <3> DEFINE segs == Emplace(sm.segs, off, top, seg)
               new == [min_addr |-> IF off < sm.min_addr THEN off ELSE sm.min_addr,
                       max_addr |-> IF top > sm.max_addr THEN top ELSE sm.max_addr,
                       segs     |-> segs]
    <3>1. AddSegment(sm, off, seg) = IF seg = <<>> THEN sm ELSE new
      BY Zenon DEF AddSegment
    <3> HIDE DEF segs, seg, top, off, sm
    <3>2. Shape(new)
      BY <2>1, <2>6, <2>7 DEF segs
    <3> QED
      BY <2>1, <3>1, <3>2
  <2> HIDE DEF sm, seg, top
  <2>9. FlattenRound(file, low, sm, k + 1) = IF k + 1 \notin Used(file) THEN sm
                                             ELSE AddSegment(sm, off, seg)
    BY Zenon DEF FlattenRound, seg
  <2> HIDE DEF Shape
  <2> QED
    BY <2>1, <2>3, <2>8, <2>9
<1>5. n \in S
  <2>1. n \in Nat /\ S \in SUBSET Nat
    BY <1>1 DEF N
  <2> HIDE DEF S
  <2>2. \A k \in S : k + 1 \in S
    BY <1>4
  <2>3. \A k \in Nat : k \in S
    BY <1>3, <2>1, <2>2, SetInduction
  <2> QED
    BY <2>1, <2>3
<1>6. n <= N
  BY <1>1 DEF N
<1> QED
  BY <1>5, <1>6 DEF loop

LEMMA FlatFileLength ==
  ASSUME NEW file \in Files, NEW data \in FlattenElfFile(file)
  PROVE  Len(data) \in Nat
<1> DEFINE lows == {file.phdrs[i].paddr : i \in Used(file)}
           low  == Min(lows)
           sm   == FlattenLoop(file, low)[Len(file.phdrs)]
<1>1. CASE Used(file) = {}
  <2>1. data = <<>>
    BY <1>1, Zenon DEF FlattenElfFile
  <2> QED
    BY <2>1
<1>2. CASE Used(file) # {}
  <2>1. data = GetFlat(sm)
    BY <1>2, Zenon DEF FlattenElfFile
  <2>2. lows \in SUBSET Nat /\ lows # {}
    BY <1>2, PhdrOfFile DEF Used
  <2> HIDE DEF lows
  <2>3. \E n \in lows : \A m \in lows : n <= m
    BY <2>2, LeastElement
  <2>4. low \in lows
    BY <2>3 DEF Min
  <2>5. low \in Int /\ Len(file.phdrs) \in 0..Len(file.phdrs)
    <3>1. Len(file.phdrs) \in Nat
      BY FilesAssumption
    <3> HIDE DEF low
    <3> QED
      BY <2>2, <2>4, <3>1
  <2> HIDE DEF low
  <2>6. IsFiniteSet(sm.segs) /\ sm.min_addr \in Int /\ sm.max_addr \in Int
    BY <2>5, FlattenLoopShape
  <2> HIDE DEF sm
  <2> QED
    BY <2>1, <2>6, FlatLength
<1> QED
  BY <1>1, <1>2

(* A load that fails, with whatever exception, has changed no memory,       *)
(* unless a registered area is missing in the design or has fewer words     *)
(* there: every test of the file comes before the first write.              *)
THEOREM AllOrNothing == Spec => LoadAllOrNothing
<1>1. ASSUME IInv, Next, loads' # loads, outcome' # "ok", mem' # mem
      PROVE  \E i \in Registered : ~AsDesigned(mem_areas[i])
  <2>1. CASE \E file \in Files : LoadElfToMemories(file)
    BY <1>1, <2>1, LoadElfSteps
  <2>2. ASSUME NEW file \in Files, NEW name, LoadElfToNamedMem(file, name)
        PROVE  \E i \in Registered : ~AsDesigned(mem_areas[i])
    <3> DEFINE r == name_to_mem[name] + 1
               area == mem_areas[r]
               w == [mem |-> mem, result |-> "ok"]
    <3>1. /\ name \in DOMAIN name_to_mem
          /\ \E data \in FlattenElfFile(file) :
               /\ outcome' = MemWrite(w, area, 0, data).result
               /\ mem' = MemWrite(w, area, 0, data).mem
      BY <1>1, <2>2, Zenon DEF LoadElfToNamedMem
    <3>2. area \in DOMAIN Areas /\ r \in Registered
      BY <1>1, <3>1, NamedArea, NameLeadsBack DEF IInv
    <3>3. w = [mem |-> w.mem, result |-> "ok"] /\ MemShape(w.mem) /\ w.mem = mem
      BY <1>1 DEF IInv
    <3>4. PICK data \in FlattenElfFile(file) :
            /\ outcome' = MemWrite(w, area, 0, data).result
            /\ mem' = MemWrite(w, area, 0, data).mem
      BY <3>1
    <3>5. Len(data) \in Nat /\ 0 \in Nat
      BY FlatFileLength
    <3> HIDE DEF area, w, r
    <3>6. ~AsDesigned(area)
      BY <1>1, <3>2, <3>3, <3>4, <3>5, MemWriteSafe
    <3> QED
      BY <3>2, <3>6 DEF area
  <2>3. ASSUME NEW file \in Files, NEW name, LoadVmemToNamedMem(file, name)
        PROVE  FALSE
    BY <1>1, <2>3 DEF LoadVmemToNamedMem
  <2> QED
    BY <1>1, <2>1, <2>2, <2>3, StepIsCall
<1>2. IInv /\ [Next]_vars =>
        [/\ loads' # loads /\ outcome' # "ok"
         /\ mem' # mem
         => \E i \in Registered : ~AsDesigned(mem_areas[i])]_vars
  BY <1>1
<1> QED
  BY Inductive, <1>2, PTL DEF Spec, LoadAllOrNothing
=============================================================================
