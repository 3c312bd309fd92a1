----------------------------- MODULE DpiMemUtil -----------------------------
(***************************************************************************)
(* Loading memory images (example/dpi_memutil.cc, example/mem_area.cc):    *)
(* an ELF file is staged, segment by segment, per registered memory, and   *)
(* then written word by word through DPI; or it is flattened and written   *)
(* to one named memory.                                                    *)
(*                                                                         *)
(* An ELF file is the sequence of its program headers and the size of the  *)
(* file; the byte at offset o of a file is o + 1, so that every byte of a  *)
(* file can be told from the others and from Zero.                         *)
(***************************************************************************)
EXTENDS MemRegistry, StagedMem

CONSTANTS
  Files,      \* [valid, size, phdrs]: is it an ELF file, its size, and the
              \* sequence of its [load, paddr, filesz, offset]
  Blank,      \* a byte of a memory nothing was loaded into
  VmemByte,   \* a byte that $readmemh put there
  Stray,      \* a byte read past the end of a file image
  MaxLoads    \* bound on the number of files loaded

(* A program header as libelf gives it: 32-bit numbers.                     *)
PhdrType == [load : BOOLEAN, paddr : 0..(AddrSpace - 1),
             filesz : 0..(AddrSpace - 1), offset : 0..(AddrSpace - 1)]

ASSUME FilesAssumption ==
  \A file \in Files :
    file.valid \in BOOLEAN /\ file.size \in Nat /\ file.phdrs \in Seq(PhdrType)

(* The depth of a memory in the design; a program registers a memory under  *)
(* one name.                                                                *)
ASSUME MemoriesAssumption ==
  /\ \A a \in DOMAIN Areas : Areas[a].depth \in Nat
  /\ \A c, d \in Candidates : c.area = d.area => c.name = d.name

VARIABLES
  staging_area,   \* name -> StagedMem
  mem,            \* area -> sequence of its bytes in the design
  \* History, read by no action:
  call,           \* the last load: [op, file, name]
  loads           \* how many there were

vars == <<registry, outcome, staging_area, mem, call, loads>>

None == [op |-> "none"]

Init ==
  /\ RegistryInit
  /\ staging_area = <<>>
  /\ mem = [a \in DOMAIN Areas |->
              [i \in 1..(Areas[a].depth * Areas[a].width) |-> Blank]]
  /\ call = None /\ loads = 0

-----------------------------------------------------------------------------
(* The bytes that memcpy() takes from the file image; past its end there is *)
(* something that is not of the file.                                       *)
FileBytes(file, ph) ==
  [k \in 1..ph.filesz |-> IF ph.offset + k <= file.size THEN ph.offset + k
                                                        ELSE Stray]

(* GetRegionForSegment(): the index of the area that holds all of the       *)
(* segment, as a set; empty if it throws.                                   *)
(* Mutant: only the first byte has to be in the area.                       *)
GetRegionForSegment_Start(lma, mem_sz) ==
  {e.val : e \in Find(addr_to_mem, lma)}

GetRegionForSegment(lma, mem_sz) ==
  LET lma_top == Wrap(lma + (mem_sz - 1))
  IN  {e.val : e \in {f \in Find(addr_to_mem, lma) :
         /\ lma_top >= lma
         /\ GetSizeBytes(mem_areas[f.val + 1]) >
              Wrap(lma_top - base_addrs[f.val + 1])}}

(* Mutant: no test.                                                         *)
Aligned_Any(area, local_base) == TRUE

Aligned(area, local_base) == local_base % Areas[area].width = 0

(* One iteration of StageElf(): st is [staged, ok].                         *)
StageSegment(file, st, ph) ==
  IF ~st.ok \/ ~ph.load \/ ph.filesz = 0 THEN st
  ELSE LET idxs == GetRegionForSegment(ph.paddr, ph.filesz)
           idx  == CHOOSE i \in idxs : TRUE
           name == names[idx + 1]
           local_base == Wrap(ph.paddr - base_addrs[idx + 1])
           old  == IF name \in DOMAIN st.staged THEN st.staged[name]
                                                ELSE EmptyStagedMem
           new  == AddSegment(old, local_base, FileBytes(file, ph))
       IN  IF \/ idxs = {}
              \/ ~Aligned(mem_areas[idx + 1], local_base)
              \/ file.size < ph.offset + ph.filesz
           THEN [st EXCEPT !.ok = FALSE]
           ELSE [st EXCEPT !.staged =
                   [m \in DOMAIN st.staged \cup {name} |->
                      IF m = name THEN new ELSE st.staged[m]]]

(* What StageElf() starts from.  Mutant: the old contents stay.             *)
Cleared_Not == staging_area

Cleared == <<>>

(* The loop over the program headers.                                       *)
StageLoop(file) ==
  LET loop[n \in 0..Len(file.phdrs)] ==
        IF n = 0 THEN [staged |-> Cleared, ok |-> file.valid]
        ELSE StageSegment(file, loop[n - 1], file.phdrs[n])
  IN  loop

StageElf(file) == StageLoop(file)[Len(file.phdrs)]

-----------------------------------------------------------------------------
(* Mutant: no zero-extension; the rest of the word is what is there.        *)
WriteBuffer_Short(width, data, i) ==
  [b \in 1..width |-> IF i * width + b <= Len(data) THEN data[i * width + b]
                                                    ELSE Blank]

(* WriteBuffer(): word i of data, zero-extended to the width of a word.     *)
WriteBuffer(width, data, i) ==
  [b \in 1..width |-> IF i * width + b <= Len(data) THEN data[i * width + b]
                                                    ELSE Zero]

DataWords(width, data) == (Len(data) + width - 1) \div width

(* MemArea::Write(): w is [mem, result].  The assertion on the size, then   *)
(* the words up to the first one that cannot be written.  That throws: the  *)
(* scope does not exist ("throw"), or simutil_set_mem() refuses the word    *)
(* ("refused", told apart from all other exceptions).                       *)
MemWrite(w, area, word_offset, data) ==
  LET width == Areas[area].width
      n     == DataWords(width, data)
      fit   == {i \in 0..(n - 1) : word_offset + i < Areas[area].depth}
      words == [k \in DOMAIN w.mem[area] |->
                  LET i == (k - 1) \div width - word_offset
                  IN  IF i \in fit
                      THEN WriteBuffer(width, data, i)[1 + ((k - 1) % width)]
                      ELSE w.mem[area][k]]
  IN  IF w.result # "ok" THEN w
      ELSE IF word_offset + n > Areas[area].words
      THEN [w EXCEPT !.result = "abort"]
      ELSE IF n > 0 /\ ~Areas[area].found
      THEN [w EXCEPT !.result = "throw"]
      ELSE [mem    |-> [w.mem EXCEPT ![area] = words],
            result |-> IF fit = 0..(n - 1) THEN "ok" ELSE "refused"]

(* One segment of a StagedMem; it has to start at a word, which is asserted. *)
WriteSegment(w, area, e) ==
  IF w.result = "ok" /\ e.lo % Areas[area].width # 0
  THEN [w EXCEPT !.result = "abort"]
  ELSE MemWrite(w, area, e.lo \div Areas[area].width, e.val)

(* The loop over the segments of one StagedMem, from the lowest up: what is *)
(* written and what is still to come, after n of them.                      *)
WriteLoop(w, area, segs) ==
  LET loop[n \in 0..Cardinality(segs)] ==
        IF n = 0 THEN [w |-> w, rest |-> segs]
        ELSE LET m == loop[n - 1]
                 e == Lowest(m.rest)
             IN  [w |-> WriteSegment(m.w, area, e), rest |-> m.rest \ {e}]
  IN  loop

WriteStaged(w, staged, name) ==
  LET segs == staged[name].segs
  IN  WriteLoop(w, mem_areas[name_to_mem[name] + 1], segs)[Cardinality(segs)].w

(* The loop over the staging area.  (The names come in no particular order  *)
(* here: it matters only to what a failing DPI call leaves behind.)         *)
WriteAllLoop(staged) ==
  LET loop[n \in 0..Cardinality(DOMAIN staged)] ==
        IF n = 0 THEN [w |-> [mem |-> mem, result |-> "ok"], rest |-> DOMAIN staged]
        ELSE LET m    == loop[n - 1]
                 name == CHOOSE x \in m.rest : TRUE
             IN  [w |-> WriteStaged(m.w, staged, name), rest |-> m.rest \ {name}]
  IN  loop

WriteAll(staged) == WriteAllLoop(staged)[Cardinality(DOMAIN staged)].w

-----------------------------------------------------------------------------
(* The segments of a file that have data.                                   *)
Used(file) == {i \in DOMAIN file.phdrs :
                 file.phdrs[i].load /\ file.phdrs[i].filesz # 0}

(* The second loop of FlattenElfFile(), over the program headers.           *)
FlattenLoop(file, low) ==
  LET loop[n \in 0..Len(file.phdrs)] ==
        IF n = 0 THEN EmptyStagedMem
        ELSE IF n \notin Used(file) THEN loop[n - 1]
        ELSE AddSegment(loop[n - 1], file.phdrs[n].paddr - low, FileBytes(file, file.phdrs[n]))
  IN  loop

(* FlattenElfFile(): the flat image, or {} if it throws, as a set.  The     *)
(* test of the end of a segment in the file is in 32 bits.                  *)
FlattenElfFile(file) ==
  LET phs == file.phdrs
      low == Min({phs[i].paddr : i \in Used(file)})
  IN  IF \/ ~file.valid
         \/ \E i \in Used(file) : Wrap(phs[i].paddr + (phs[i].filesz - 1)) < phs[i].paddr
      THEN {}
      ELSE IF Used(file) = {} THEN {<<>>}
      ELSE IF \E i \in DOMAIN phs :
                phs[i].load /\ file.size < Wrap(phs[i].offset + phs[i].filesz)
      THEN {}
      ELSE {GetFlat(FlattenLoop(file, low)[Len(phs)])}

-----------------------------------------------------------------------------
Load(op, file, name) ==
  /\ Alive
  /\ loads < MaxLoads
  /\ call' = [op |-> op, file |-> file, name |-> name]
  /\ loads' = loads + 1
  /\ UNCHANGED registry

(* StageElf() and then, unless it throws, all of the staging area.          *)
(* Mutant: what was staged before an error is written all the same.         *)
LoadElfToMemories_Eager(file) ==
  LET st == StageElf(file)
      w  == WriteAll(st.staged)
  IN
  /\ Load("elf_to_memories", file, "")
  /\ staging_area' = st.staged
  /\ outcome' = IF st.ok THEN w.result ELSE "throw"
  /\ mem' = w.mem

LoadElfToMemories(file) ==
  LET st == StageElf(file)
      w  == WriteAll(st.staged)
  IN
  /\ Load("elf_to_memories", file, "")
  /\ staging_area' = st.staged
  /\ \/ ~st.ok /\ outcome' = "throw" /\ UNCHANGED mem
     \/ st.ok /\ outcome' = w.result /\ mem' = w.mem

LoadElfToNamedMem(file, name) ==
  /\ Load("elf_to_name", file, name)
  /\ UNCHANGED staging_area
  /\ \/ /\ name \notin DOMAIN name_to_mem \/ FlattenElfFile(file) = {}
        /\ outcome' = "throw" /\ UNCHANGED mem
     \/ /\ name \in DOMAIN name_to_mem
        /\ \E data \in FlattenElfFile(file) :
             LET w == MemWrite([mem |-> mem, result |-> "ok"],
                               mem_areas[name_to_mem[name] + 1], 0, data)
             IN  outcome' = w.result /\ mem' = w.mem

(* LoadVmem(): $readmemh fills the memory; its errors are not seen.         *)
LoadVmemToNamedMem(file, name) ==
  /\ Load("vmem_to_name", file, name)
  /\ UNCHANGED staging_area
  /\ \/ /\ name \notin DOMAIN name_to_mem
        /\ outcome' = "throw" /\ UNCHANGED mem
     \/ /\ name \in DOMAIN name_to_mem
        /\ LET area == mem_areas[name_to_mem[name] + 1]
           IN  IF Areas[area].found
               THEN /\ mem' = [mem EXCEPT ![area] = [i \in DOMAIN @ |-> VmemByte]]
                    /\ outcome' = "ok"
               ELSE outcome' = "throw" /\ UNCHANGED mem

LoadFileToNamedMem(file, name) ==
  LoadElfToNamedMem(file, name) \/ LoadVmemToNamedMem(file, name)

(* Memories are registered before the command line is looked at.            *)
Register(c) ==
  /\ loads = 0
  /\ RegisterMemoryArea(c.name, c.base, c.area)
  /\ UNCHANGED <<staging_area, mem, call, loads>>

Next ==
  \/ \E c \in Candidates : Register(c)
  \/ \E file \in Files : LoadElfToMemories(file)
  \/ \E file \in Files, name \in {c.name : c \in Candidates} : LoadFileToNamedMem(file, name)

Spec == Init /\ [][Next]_vars

-----------------------------------------------------------------------------
Loads(op) == loads' # loads /\ call'.op = op

(* The segments of a file that cover address a; its byte is that of the     *)
(* last one, in the order of the program headers.                           *)
Covering(file, a) == {i \in Used(file) :
  a - file.phdrs[i].paddr \in 0..(file.phdrs[i].filesz - 1)}
ByteAt(file, a) ==
  LET ph == file.phdrs[Max(Covering(file, a))]
  IN  ph.offset + 1 + (a - ph.paddr)

(* Byte k of a memory at base that held old: the file's if it has one, zero *)
(* if the file has another byte of the same word.                           *)
Expected(file, base, width, k, old) ==
  LET word == (k - 1) \div width
  IN  IF Covering(file, base + k - 1) # {} THEN ByteAt(file, base + k - 1)
      ELSE IF \E b \in 0..(width - 1) : Covering(file, base + word * width + b) # {}
      THEN Zero ELSE old

(* A load by address that succeeds puts every byte of the file at its       *)
(* address, the last segment winning, clears the rest of a word it begins   *)
(* to fill, and touches nothing else: in particular no segment is damaged   *)
(* by the zero-extension of another, nothing of an earlier file is written  *)
(* again, nothing behind an area and no area that is not registered.        *)
(* LoadElfToMemories().                                                     *)
ElfLoadExact ==
  [][Loads("elf_to_memories") /\ outcome' = "ok" =>
       /\ \A i \in Registered : LET a == mem_areas[i] IN
            \A k \in DOMAIN mem[a] :
              mem'[a][k] =
                IF base_addrs[i] + k - 1 \in AreaBytes(i)
                THEN Expected(call'.file, base_addrs[i], Areas[a].width, k, mem[a][k])
                ELSE mem[a][k]
       /\ \A a \in DOMAIN Areas :
            (\A i \in Registered : mem_areas[i] # a) => mem'[a] = mem[a]]_vars

(* The ends of the segments in the file are 32-bit numbers.                 *)
EndsInFile(file) ==
  \A i \in Used(file) : file.phdrs[i].offset + file.phdrs[i].filesz < AddrSpace

(* A load by name that succeeds puts the bytes of the file at their         *)
(* distance from its lowest address, with zeros in between, and leaves the  *)
(* memory behind the last word, and all others, as they were.  (A segment   *)
(* whose end in the file needs more than 32 bits is not noticed.)           *)
(* FlattenElfFile(), Write().                                               *)
NamedLoadExact ==
  [][Loads("elf_to_name") /\ outcome' = "ok" /\ EndsInFile(call'.file) =>
       LET file == call'.file
           a    == mem_areas[name_to_mem[call'.name] + 1]
           low  == Min({file.phdrs[i].paddr : i \in Used(file)})
           high == Max({file.phdrs[i].paddr + file.phdrs[i].filesz - 1 : i \in Used(file)})
           words == IF Used(file) = {} THEN 0
                    ELSE (high - low) \div Areas[a].width + 1
       IN  /\ \A k \in DOMAIN mem[a] :
                mem'[a][k] =
                  IF k > words * Areas[a].width THEN mem[a][k]
                  ELSE IF Covering(file, low + k - 1) = {} THEN Zero
                  ELSE ByteAt(file, low + k - 1)
           /\ \A b \in DOMAIN Areas : b # a => mem'[b] = mem[b]]_vars

(* The design has the area, and as many words of it as it was registered    *)
(* with.                                                                    *)
AsDesigned(area) == Areas[area].found /\ Areas[area].words <= Areas[area].depth

(* A load that fails, with whatever exception, has changed no memory, even  *)
(* if the fault is in the last segment of the file: staging, and with it    *)
(* every test of the file, comes first.  The one exception is a registered  *)
(* area that the design does not have or has with fewer words: that is      *)
(* noticed only while the memories are written.                             *)
LoadAllOrNothing ==
  [][/\ loads' # loads /\ outcome' # "ok"
     /\ mem' # mem
     => \E i \in Registered : ~AsDesigned(mem_areas[i])]_vars

(* What StageElf() has let through trips no assertion on the way to the     *)
(* memories: every staged segment starts at a word and ends inside.         *)
StagedFits == [][Loads("elf_to_memories") => outcome' # "abort"]_vars

(* The size given to a MemArea is the size of the memory in the design, so  *)
(* what passes the loader's own tests is not refused there.                 *)
DesignAccepts == outcome # "refused"
=============================================================================
