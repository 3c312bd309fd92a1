# Verification of the Ibex simple-system simulation harness

The repository is a power-analysis workflow: the Ibex *simple system* (a RISC-V
core, a bus, a RAM, a timer) is compiled with Verilator into a C++ program; the
program loads a firmware image, runs the design and writes a trace of its
signals; `trace2power` and OpenROAD turn traces into power reports;
`peak_power_example/peak_power.py` searches them. This directory models the
program's own logic, which is in `example/*.cc`, `*.h`, `*.c` and the small
peripherals in `example/*.sv`. Paths below are relative to the repository.

## 1. Inventory

| component | source | state | operations | what makes it correct |
|---|---|---|---|---|
| simulation controller `VerilatorSimCtrl` | `example/verilator_sim_ctrl.cc` | `time_`, clock and reset, three tracing flags, `request_stop_`, `simulation_success_`, `term_after_cycles_` | `Run`, `Trace`, `SignalHandler`, `RequestStop`, `RunSimulation`, `ParseCommandArgs` | reset in the requested cycles only; a trace without gaps or stray samples; the loop ends when asked, on time, with an honest exit code |
| `SimpleSystem` | `example/ibex_simple_system.cc` | the RAM's `MemArea` | `Main`, `Setup`, `Run`, `Finish` | starts the simulation only on a good command line; exit code |
| `VerilatorMemUtil` | `example/verilator_memutil.cc` | the load arguments | `ParseCLIArguments` | every image loaded, in order, or no simulation |
| `RangedMap` | `example/ranged_map.h` | a `std::map` of address ranges | `Emplace`, `EmplaceDisjoint`, `find` | ranges stay disjoint; clash and lookup tests exact |
| `StagedMem` | `example/dpi_memutil.cc` | segments, minimum and maximum address | `AddSegment`, `GetFlat` | the last writer of a byte wins |
| `DpiMemUtil` | `example/dpi_memutil.cc` | three vectors, two maps, the staging area | `RegisterMemoryArea`, `StageElf`, `LoadElfToMemories`, `LoadFileToNamedMem` | vectors and maps agree; areas disjoint; a load writes exactly the file's bytes or nothing |
| `MemArea` | `example/mem_area.cc` | words in the design | `Write`, `Read`, `LoadVmem` | what is written is read back; words in range, the tail of the last word zero (of a memory with ECC it is not, finding 5) |
| timer and its driver | `example/timer.sv`, `example/common/simple_system_common.c` | `mtime`, `mtimecmp`, the interrupt; `time_elapsed`, `time_increment` | `timer_read`, `timecmp_update`, `timer_enable`, `timer_disable`, the interrupt handler | no torn read, no early and no lost interrupt |
| bus, RAM, simulation control | `example/bus.sv`, `ram_2p.sv`, `prim_generic_ram_2p.sv`, `simulator_ctrl.sv`, `ibex_simple_system.sv` | response registers, the memory, finish counter | grant, decode, respond; print; finish; reset | every granted request is answered once, to its host, as if it were alone; a halt request ends the simulation |
| ECC and scrambled memories | `example/ecc32_mem_area.cc`, `secded_enc.c`, `scrambled_ecc32_mem_area.cc`, `scramble_model.cc`, `prince_ref.h` | words of 39 bits per 32, permuted and encrypted | `Write`, `WriteWithIntegrity`, `Read`, `ReadWithIntegrity`, `LoadVmem` | what is written is read back; damage is reported; addresses are permuted, decryption undoes encryption |
| `SVScoped` | `example/sv_scoped.cc` | the DPI scope, the scope to go back to | construction, destruction, `join_sv_scopes` | scopes nest, also when exceptions pass; names lead where the documentation says |
| peak power search | `peak_power_example/peak_power.py` | result files | run, read back, maximum | the peak is that of this run |

`PROJECT.json` lists all components, those that are not modelled with the
reason.

**How they interact.** `main()` calls `SimpleSystem::Main`, which calls `Setup`:
this registers the RAM with `DpiMemUtil`, and hands the command line to
`VerilatorSimCtrl::ParseCommandArgs`, which parses it once with `getopt_long` and
lets every extension parse it again; `VerilatorMemUtil` is the one extension and
loads images through `DpiMemUtil` and `MemArea`, whose writes cross into the
design through DPI calls in an `SVScoped` scope. `RunSimulation` then installs
one handler for SIGINT and SIGUSR1 and drives the design tick by tick. The
design calls back: `$finish` sets Verilator's flag, `$stop` ends in `vl_stop()`,
which requests a stop. The handler shares the tracing flags, `request_stop_` and
`simulation_success_` with the interrupted loop, without synchronisation.
Firmware and timer meet over a bus of 32-bit words, so that a 64-bit value takes
two accesses and the time goes on in between.

**What is hard.** The signal handler between any two statements of the loop and
of `Trace()`; a stop request from two sources; boundary cycles of reset and
timeout; a process ended by a signal nobody handles; merging of overlapping
segments, addresses at the end of the 32-bit space, a registration that fails
half way, a load that fails half way; two parsers over one command line, with
`getopt`'s global state; 64-bit values in two words, with an interrupt handler
that does the same accesses; fields of 39 bits across byte boundaries, buffers
reused from word to word, odd widths in the scrambling network; exceptions
passing scope guards; answers on the bus that overlap with the next requests. The
list with lines is in `PROJECT.json`
("hazards").

## 2. Modules

| module | models | state and actions |
|---|---|---|
| `SimCtrl` | `verilator_sim_ctrl.cc`: `RunSimulation`, `Run`, `Trace`, `SignalHandler` | `pc` is the place of the main thread, other variables are the fields of the class. Statements that touch nothing the handler touches are one step; a place is a point where the handler's effect can differ. The initial `eval()` of the design is part of `StartRun`, and like every later one it may call `$finish` or `$stop`; so may the `final` blocks (`Final`). `SigInt`, `SigUsr1` are the handler, `Kill` a signal without one, `StopAborts` a `$stop` in a build without its own `vl_stop()` |
| `CommandLine` | `ParseCommandArgs`, `VerilatorMemUtil::ParseCLIArguments`, `Setup`, `Main` | one action per option for either parser, `i` is `optind`; loads may fail |
| `Addresses`, `RangedMap` | 32-bit arithmetic; `ranged_map.h` | operators on sets of `[lo, hi, val]` |
| `StagedMem` | `Emplace`, `MergeSegments`, `StagedMem` | operators on a record of bounds and segments; the loops of `Emplace` and `GetFlat` are recursive functions of the round |
| `ByteImage` | (abstract specification) | an address-to-byte function; a write replaces bytes |
| `Staging` | a sequence of `AddSegment` calls | implements `ByteImage` by the mapping `Contents`, `Bounds` |
| `MemRegistry` | `RegisterMemoryArea` | the vectors, both maps, the outcome of a call |
| `DpiMemUtil` | the loads, by address and by name, ELF and VMEM; `MemArea::Write` | the registry, the staging area, the words of the memories; the loops over program headers, segments and memories are recursive functions of the round |
| `Bits` | vectors of bits in `scramble_model.cc` | a vector is the set of the positions of its ones |
| `Secded` | `secded_enc.c` | the five codes as masks, both encoders, and what it means to detect errors |
| `Prince` | `prince_ref.h` | the cipher with its layers, key schedules and number of half rounds |
| `Scramble` | `scramble_model.cc` | address permutation, keystream, encryption of data |
| `MemAreas` | `mem_area.cc`, `ecc32_mem_area.cc`, `scrambled_ecc32_mem_area.cc` | one memory, plain, with ECC or scrambled; a call is begun, goes on word by word and returns or throws; a VMEM file loads any of the words; `Fault` flips bits in between calls |
| `SVScoped` | `sv_scoped.cc` | the current scope and the stack of live guards; an exception unwinds them |
| `ScopeStack` | (abstract specification) | a stack of scopes |
| `SystemBus` | `bus.sv`, `ram_2p.sv`, `simulator_ctrl.sv`, composed with `Timer` | the registers of the bus and its devices, a word of the RAM being the bytes of its lanes; a step is a clock edge or an edge of the reset |
| `AtomicBus` | (abstract specification) | at most one request is taken per cycle, has its whole effect at once and is answered in the next |
| `Timer` | `timer.sv` | registers and one `ClockEdge(access)` |
| `TimerSoftware` | `simple_system_common.c` over the timer | two contexts, program and handler; each bus access is a clock edge, `Tick` is any cycle in between |
| `SimCtrlProofs`, `StagedMemProofs`, `DpiMemUtilProofs`, `CommandLineProofs`, `TimerSoftwareProofs`, `SVScopedProofs`, `SystemBusProofs`, `MemAreasProofs` | proofs | section 5 |
| `MCMemRegistry`, `MCDpiMemUtil`, `MCMemAreas`, `MCSVScoped`, `MCSystemBus` | instances for TLC | memories, candidate areas, files; data, keys and faults; scopes and names; requests |

Data is abstracted: a byte of a segment is a tag that says where it came from, a
file is a sequence of program headers with small addresses and sizes, an option
is what it means to either parser. Conversions that matter are kept: addresses wrap, `.bss` bytes are
zero, the last word of a segment is padded with zeros, a cycle count that is no
number is an error, the exit code is converted from `bool`. The codes and ciphers
are not abstracted at all: `Secded`, `Prince` and `Scramble` compute the same bits
as the code, on sets of bit positions.

Each definition's lines are in `PROJECT.json` ("map"). Definitions named
`X_Something` next to a definition `X` are faulty variants of it, with which each
property is shown to be able to fail.

## 3. Runs

| run | question | properties | bounds, and why they are enough |
|---|---|---|---|
| `simctrl_safety` | may signals at any point spoil reset, trace, timeout, stop or exit code? | `ResetWaveform`, `TraceExact`, `TraceClosed`, `StopPrompt`, `TimeoutExact`, `ExitCodeHonest`, `TogglesAnnounced`, `TypeOK`; does the process end: `TimeoutEnds`, `StopEnds` | `MaxTime` 7 (over three cycles): before, in and after reset, and beyond the timeout of 3; also no timeout. Any number of signals; `$stop` with either `vl_stop()` |
| `staging` | does merging lose or reorder bytes? | `LastWriterWins` (refinement of `ByteImage`), `SegmentsDisjoint`, `FlatExact` | 8 addresses, 4 segments of 1, 2 or 5 bytes at every offset: inside, around, adjacent to, and across several others |
| `memutil_load` | do refused registrations leave traces, do areas overlap; does each byte of a file arrive, or none? | `RegistryAgrees`, `AreasDisjoint`, `FindExact`, `ElfLoadExact`, `NamedLoadExact`, `LoadAllOrNothing`, `StagedFits` | registrations in any order, with a name that is taken, an overlap on either side, a wrap-around, an area the design does not have and one of which it has fewer words; then two loads in a row, files of up to two segments, adjacent memories of different word width; misaligned, straddling, outside, at the last address |
| `commandline` | can a simulation start that was not asked for, or without its images? | `RunsAsAsked`, `NoLoadWhenExiting`, `EarlyExitAsked`, `TypeOK` | all command lines of up to three options of 17 kinds: each pair of options in both orders, with a third before, between or after |
| `timer_software` | torn reads, early or lost interrupts? | `ReadExact`, `NeverEarly`, `NeverLost`, `ElapsedHonest`, `TypeOK` | words of 3 bits, 22 cycles: the low word overflows twice; time bases 0 (handler re-entered at once), 2 (shorter than the handler) and 13 |
| `memareas` | is what was written read back, is damage seen; are the codes and ciphers what they have to be? | `ReadBack`, `IntegrityHonest`, `CodesDetect`, `PrinceCorrect`, `ScramblingInvertible` | three calls on a memory of three words of two lanes: the second lane begins inside a byte, the data ends inside a word, one of four permuted addresses is outside; up to three flips in a lane, in two lanes, around their border. All five codes, five published vectors and all numbers of half rounds of PRINCE, all addresses of up to 5 bits with 32 nonces, data of 33, 39 and 78 bits in chunks of 39, 12 and 10, of which four pairs abort |
| `scoped` | do guards restore the scope, do names lead where they should? | `Nested` (refinement of `ScopeStack`), `FollowsNames`, `JoinResolves` | three nested guards, four scopes of up to three components, names of up to four dots (one more than there are levels) and two components, existing or not |
| `bus` | does every request get its own answer; does the simulation end when asked to? | `Atomic` (refinement of `AtomicBus`), `HaltEnds`, `WaitersServed` | two hosts (the system has one; the bus is written for any number), eight kinds of requests to all three devices and to none, fetches, a reset at any time. Words of one bit: enough to tell old data from new and a write with its strobe from one without |
| `simctrl_timeout_kill` | *violated*: is the trace complete when `timeout` ends the run? | `FileFinishedAtExit` | finding 1 |
| `registry_clash` | *violated*: is an overlap an exception? | `ClashThrows` | finding 2 |
| `memutil_size` | *violated*: does the design accept what the loader accepts? | `DesignAccepts` | finding 3 |
| `commandline_exit` | *violated*: is the exit code of `Setup` as documented? | `ExitCodeOfSetup` | finding 4 |

All passing runs explore their complete state space. Deadlock is not checked
where the system may stop (a process that has ended, a bound that is reached); in
`commandline` it is.

**Fairness.** `simctrl_safety` has `WF_vars(Main)`: the operating system keeps
scheduling the process. No signal is required to arrive, and SIGUSR1 may arrive
for ever: the handler moves no program counter, so it cannot hold up the loop.
`StopEnds` also holds without a timeout. Without a timeout and without a stop the
simulation may run for ever, which the code intends. `bus` has `Clocked`: the main
loop toggles the clock until the simulation is finished, which is weak fairness of
`Next`, written out. Nothing is assumed of the hosts; that those with priority
pause is a premise of `WaitersServed`.

## 4. Findings

1. `timeout 5 ...` in `README.md:93` sends SIGTERM, which has no handler: the
   trace file is not closed.
2. `dpi_memutil.cc:341`: `assert(*clash)` tests the index of the clashing area, so
   an overlap with area 0 aborts where the documentation promises an exception.
3. `ibex_simple_system_main.cc:10` passes the RAM's size in bytes where a number
   of words is expected: the registered area is four times the RAM.
4. `ibex_simple_system.cc:78` returns a success flag as an exit code: `--help`
   gives 1, an error gives 0.

These are counterexamples of the four violated runs. Three more are disagreements of
which a property of a passing run states exactly what the code does instead, in
conjuncts of their own, so that the run and the theorem cover them:

5. `Ecc32MemArea::WriteBuffer` reads behind the end of data that ends inside a word
   (`ecc32_mem_area.cc:162`), so the rest of the word becomes what lies there;
   `mem_area.h:51-53` promises zeros, which only plain areas write. `ReadBack` has the
   zeros for plain areas and the stray bytes for the others; they stay in that word.
6. `scramble_subst_perm_full_width()` passes a smaller last chunk in a vector of the
   size of a full one, on which the assertions of `scramble_model.cc:139-140` and
   `162-163` abort if it takes fewer bytes, although the comment at lines 273-274 provides
   for it. `ChunksFit` is the assertions, and `ScramblingInvertible` lists the pairs of
   widths of the run that abort: 33 and 78 bits in chunks of 10, 39 and 78 in chunks
   of 12. The areas use chunks of 39 in words of a multiple of 39, which return
   (`AreaChunksFit`).
7. `join_sv_scopes(a, b)` of a relative `b` (`sv_scoped.cc:103`): after a name that is
   only dots the result is a level too high (`..` and `.b` give `...b`), and after any
   other it has an empty component (`foo..bar`) and is no scope, although
   `sv_scoped.h:48` says that both may be relative. `JoinResolves` has the three cases.
   The one caller passes a `b` without dots.

Observed while modelling, with no run of its own:

- a SIGUSR1 between the printing of the message about tracing and
  `tracing_enabled_changed_ = false` (`verilator_sim_ctrl.cc:456`) is never
  announced, although the comment at line 447 says that the main loop prints what
  the handler cannot. No sample is lost (`TraceExact`);
- a registered area whose scope the design does not have, or of which it has fewer
  words, is noticed only when it is written: what was written before the missing
  area or the refused word stays written. `LoadAllOrNothing` covers every exception
  and names this as the one exemption (`AsDesigned`);
- `SIGINT` between the installation of the handler and the initial `eval()`
  (`verilator_sim_ctrl.cc:345`) is noticed after the first tick: two `eval()`s begin,
  where one does at any other time. `StopPrompt` states both;
- the key and the nonce of a scrambled memory are read from arrays that nothing
  fills (`scrambled_ecc32_mem_area.cc:89`, `:96`): `simutil_get_scramble_key()` and
  `simutil_get_scramble_nonce()` are declared and never called. `MemAreas` chooses
  any value at every use, and `ReadBack` and `IntegrityHonest` speak of calls that
  saw the same (`settled`);
- words of a scrambled memory whose number of words is no power of two may be
  permuted to an address that does not exist, and then throw;
- a relative name while no scope is set asks for the name of a null scope
  (`sv_scoped.cc:46`);
- a reset does not cancel a halt request (`simulator_ctrl.sv:89` comes after the
  reset branch and wins). The controller asserts reset once, after `InitialResetDelay`
  cycles in which the design already runs; `SystemBus` allows it at any time;
- a reset duration of 0 never releases reset (`verilator_sim_ctrl.cc:360`: the
  release is the `else` of the assertion, in the same cycle). `ResetCorrect` is
  proved for other durations; the default is 2;
- a SIGUSR1 after the last `Trace()` makes `RunSimulation` announce a trace file
  that does not exist (`verilator_sim_ctrl.cc:201`);
- a file name attached to its option (`-mFILE`) is read as a string of option
  letters by the controller's own `getopt_long`, which does not know `-m`: a `t` in
  it turns tracing on, an `h` asks for help, and a `c` takes the rest as the timeout,
  which is an error unless that is a number. `CommandLine` has these as the kinds
  "attached", "attached_t", "attached_h", "attached_c" and "attached_c2", and
  `RunsAsAsked` and `NoLoadWhenExiting` say what they do;
- `FlattenElfFile` adds a segment's offset and size in 32 bits
  (`dpi_memutil.cc:198`): a segment whose end needs more than 32 bits is not
  noticed, and bytes from behind the file are loaded (`NamedLoadExact` excludes it);
- `timecmp_update()` is not safe against the handler if it is called while the
  interrupt is enabled, and `get_elapsed_time()` reads a 64-bit counter in two
  loads; the model calls the former as the repository's code does, while the
  interrupt is disabled;
- the RAM is registered at address 0, while it is at `0x100000` in the design.

## 5. Proofs

TLAPS proves, for all values of the constants:

**`SimCtrlProofs`** from `ConstantsAssumption` (delays and timeouts are naturals).
`TypeCorrect`, `ResetCorrect`, `TraceIsExact`, `TogglesAreAnnounced`, `TraceIsClosed`,
`StopIsPrompt`, `TimeoutIsExact`, `ExitCodeIsHonest`. None of the invariants is
inductive by itself. `IInv` is a conjunction of six parts, each inductive
together with the types, plus `ResetInv`:

- `TraceInv`: inside `Trace()` the tick has not been dumped yet, and at the place
  of `open()` and `dump()` tracing is on unless a signal arrived in this tick. This
  is what carries `TraceExact` across a handler at any place;
- `MessageInv`: until `tracing_enabled_changed_` is set again, the state last announced
  is the state of tracing, or a message was lost in the way the property allows;
- `FileInv`: an open file implies `tracing_ever_enabled_`, which is never cleared,
  so `close()` and the closing message cannot miss it;
- `StopInv`: once the loop runs, no late `eval()` has begun at any place from which
  its head can be reached without passing the stop test; before, the initial one at
  most;
- `TimeoutInv`: at the loop head the time is below the timeout, so a tick
  reaches it at most;
- `ExitInv`: `simulation_success_` is false exactly if a failing stop was asked
  for; `RequestStop` only ever clears it;
- `ResetInv`: reset is inactive before the first tick. The waveform is then kept
  tick by tick, because both edges are taken on whole cycles. It needs
  `ResetDuration # 0`, see above.

`MaxTime`, the bound of the runs, is an arbitrary natural number in the proofs,
so the theorems speak of runs of every length.

**`StagedMemProofs`** has the facts about ranged maps that other proofs share, from
`AddrSpaceAssumption`. `ClashExact`: in a map of disjoint ranges the test of the two
neighbours in `EmplaceDisjoint` finds an overlap exactly when there is one. The
neighbours exist because a set of naturals has a least element (`LeastElement`, from
well-foundedness of `<`). `EmplaceExact`: after `Emplace` the ranges are disjoint
and every address has the byte of the new segment, or the one it had. Behind it are
`MergeExact`, the three cases of `MergeSegments` with their index arithmetic, and an
invariant of the merge loop, proved by induction over its rounds: what is
accumulated so far spans the new segment and the ranges that were merged, and has at
every address the newest byte. `FlatLoopExact` is the same for the loop of `GetFlat`.

In the same module, from `StagingAssumption` (a segment is shorter than the address
space: its size is a 32-bit number): `DisjointSegments`, `FlatIsExact` and `LastWins`,
the refinement of `ByteImage`. The inductive invariant says that segments are
disjoint, inside the address space, as long as their ranges, and that the bounds are
attained by some segment: a bound that is only a bound would leave `GetFlat` with
zeros in front.

**`DpiMemUtilProofs`** from `AddrSpaceAssumption`, `RegistryAssumption` (sizes
are positive and fit the address space, bases are addresses), `FilesAssumption` (the
fields of a program header are 32-bit numbers) and `MemoriesAssumption` (a memory has
a depth; no memory of the design is registered under two names, since two areas over
the same words would overwrite each other). The theorems are about files of any
number of segments and any number of areas, of any width and size. `Inductive` is the
inductive invariant `IInv`; there are two groups of results on top of it.

*The registry.* `RegistryCorrect`, `DisjointCorrect` and `FindCorrect` say that
`RegistryAgrees`, `AreasDisjoint` and `FindExact` always hold, for any number of
registrations, with and without loads. The inductive part `RegistryInv` adds to
`RegistryAgrees` that no registered area overflows and that the ranges in the map are
disjoint, which `ClashExact` needs. `TopIsEnd` is the arithmetic modulo the address
space: an end that wraps is smaller than its start, so it is refused.

*The loads.* `NothingAborts`, `AllOrNothing`, `LoadIsExact` and `NamedLoadIsExact` are
the action properties `StagedFits`, `LoadAllOrNothing`, `ElfLoadExact` and
`NamedLoadExact`. A load by address is three nested loops, each with its invariant:

- `StagedOK`, over the program headers: what is staged for an area is, byte by byte,
  what the headers so far put into it (`IsImage`: the last header that covers an
  address gives its byte), in ranges that start at a word and end inside.
  `RegionHoldsSegment` shows that a segment which passes the tests of
  `GetRegionForSegment`, computed modulo the address space, really lies in one area;
- `IsLoading`, over the segments of one memory: the words that start in a segment
  written so far have its bytes and zeros behind its end, the other words are old;
- `IsLoadingAll`, over the staged memories: those done are written, no other memory is
  touched, and an area that the design lacks or has with fewer words is the only
  reason to stop half-way.

`MemWriteExact` is `MemArea::Write()`: word `i` of the data goes to word `i` of the
range, and the words touched are those whose first byte is in the range
(`SegmentWords`). Two disjoint ranges that both start at a word never share one
(`RangeHasWordStart`), so that the zeros behind one segment cannot fall on another.
For the load by name, `IsFlattening` is the invariant of the loop of
`FlattenElfFile`; the bounds of the `StagedMem` turn out to be attained, so
`FlatLoopExact` makes its flat image start at the lowest address (`FlatIsImage`).
`EndsInFile` is needed there, see the observation on `dpi_memutil.cc:198`.

**`CommandLineProofs`** for command lines of every length. `TypeCorrect`,
`RunAsAsked`, `NothingLoaded`, `ExitIsAsked`. The inductive invariant says what each
parser knows of the options before `i`, those in attached file names included: the controller in the first pass (`CtrlSaw`),
the extension in the second (`ExtSaw`), the loader over the images (`LoadedUpTo`).
`ReturnInv` carries it over the return of `ParseCommandArgs`, where the three meet.

**`TimerSoftwareProofs`** from `WordAssumption` and `SoftwareAssumption` (the time
does not overflow its two words within a run: that takes 2^64 cycles). `TypeCorrect`,
`InterruptNotEarly`, `InterruptNotLost`, `ElapsedIsHonest`, `ReadIsExact`, for every
width of a word. `WordAssumption` also says that `2 ^ WordBits` is a positive natural
number, which the provers cannot compute for a symbolic exponent. The parts of the
invariant: `CmpInv`, the compare register at each point of the three writes,
with its low word all ones from the first to the last;
`ControlInv`, at most one context is in `timecmp_update()`; `ReadInv`, the words that
`timer_read()` has are words of times in its call; `ElapsedInv`, the compare value is
at or behind the end of the period that is being counted, at each point of the
handler. `NeverEarly` is needed for `ElapsedHonest`, so they are proved together.

**`SVScopedProofs`** from `ScopesAssumption` and `TreeAssumption` (the scope around
a scope is a scope). `ScopesCorrect`; `NamesFollowed` and `JoinIsRight`, that
`FollowsNames` and `JoinResolves` hold for any number of dots: `WalkIsTree` shows by
induction that dropping components from the right is walking up the tree, stopping
at its top; `AncestorAdds`, that going up twice is going up by the sum; `EmptyStays`,
that a name with an empty component is no scope, whatever is put around it; `GuardsNest`, the refinement of `ScopeStack`: the scopes that the guards
keep, with the current one on top, are the stack.

**`SystemBusProofs`** from `WordAssumption` and `BusAssumption` (regions are aligned
to their sizes and do not overlap, as the masks in `ibex_simple_system.sv:101` are).
`AtomicAccesses` is the safety part of the interconnect: `SystemBus` implements
`AtomicBus`, for any number of hosts, any memory map, any width and any requests. The
argument follows one request through an edge: `Arbitrated`, one host is granted;
`Decoded`, comparing under the mask finds the region that has the address; `Selected`
and `NotSelected`, what the devices see; `EdgeTakes` and `EdgeTakesNone`, that the
response registers select this host and device in the next cycle, and no other;
`WriteExact`, that the write of masked bytes at a wrapped index is a write of those
bytes at that address. The invariant `IInv` is about what the lines carry and the
shape of the RAM; the pipeline needs no more, since responses depend on the edge
before only.

**`MemAreasProofs`** from `MemAreasAssumption` (any number of words, but up to 2^16 if
`Kinds` has scrambled areas, of whose addresses the model has 16 bits; the width within
the asserted 312 bits) and `DataAssumption` (data are vectors of bytes, or of 32-bit
words with a flag). `MemAreasInductive` is the inductive invariant `IInv`,
`ReadsBack`, `IntegrityIsHonest`, `AllCodesDetect` and `ScramblingLosesNothing` say that
`ReadBack`, `IntegrityHonest`, `CodesDetect` and `ScramblingInvertible` always hold, for
any data, keys and nonces, any faults and any set `Kinds` of the three kinds of area (with
the plain kind alone, the program's own RAM of 262144 words is an instance). The
invariant relates three pieces of state, the design's memory, the history of what was
written and the history of what flipped:

- `WrittenInv`: take a word of the memory at the place of word `w`, undo the flips and
  the keystream, and every lane is the code word of what was last asked for, stray
  bytes included (`Holds`);
- `CallInv` and `RetInv`: a call in progress is inside the area, and what it has
  returned so far is what the memory holds;
- all of it as long as every read of the key and the nonce saw the same (`settled`).

A write keeps `WrittenInv` for the other words because `PlacesDiffer`: the address
permutation gives no two words the same place. It is shown layer by layer, the
substitution boxes, the reversal and the gathering of even and odd bits being one to
one for every width (`RoundOneToOne`), then for any number of rounds and through the
conversion of numbers to bits and back (`NumberOneToOne`, `ValueOneToOne`). It keeps it
for the word itself because inserting and extracting bytes across byte boundaries are
inverses (`InsertBits`, `ExtractBits`, `LanesPacked`), whatever lies behind the end of
the vector (`LanesOfVector`).

For the codes, a code word fits if and only if each of its rows, the bits that one
check bit sums up, has the right parity (`FitIsRows`). Up to three flips change the
parity of some row if every bit is in an odd number of rows and no two bits are in the
same rows (`RowSeesThree`). That this is so is computed from the masks by the prover,
for each of the five codes (`Columns_22_16` to `Columns_72_64`).

The run tries `ScramblingInvertible` on addresses of up to 5 bits and on data of three
widths. It follows from two theorems without these bounds. `AddrOnto`: for every width
and nonce `scramble_addr()` is onto, since it is one to one and there are finitely many
addresses. `DataRecovered`: `scramble_decrypt_data()` undoes `scramble_encrypt_data()`,
whatever the widths of the data and of the chunks, if the assertions on the chunks
hold (`Returns`), which `AreaChunksFit` shows for the widths of the areas. The inverse of each layer is shown to
be one, also where the width leaves an odd bit or less than a nibble over
(`BoxesUndone`, `FlipUndone`, `PermUndone`), then that of a round up to the key
(`RoundUndone`) and of the network (`SubstPermUndone`), and last that of the chunks,
which do not overlap and cover the word (`Chunks`, `InChunks`, `ChunksUndone`).

**Induction.** What loops compute is proved by induction over the number of rounds.
`SetInduction` (a set of naturals that has 0 and successors has all) is derived from
the existence of a minimal counterexample. Every recursive function is first shown
to exist, and so to satisfy its equation (`MergeLoopRounds`, `FlatLoopRounds`,
`StageLoopRounds`, `WriteLoopRounds`, `WriteAllLoopRounds`, `FlattenLoopRounds`,
`StrippedSteps`, `AncestorSteps`, `ByteLoopRounds`, `LaneLoopRounds`, `EncRoundsRounds`,
`DecRoundsRounds`, `DigitsRounds`).

**Bounds.** The bounds of the runs (`MaxTime`, `MaxAdds`, `MaxLoads`, `MaxOptions`, `MaxDepth`,
`MaxCalls`) are arbitrary numbers in the proofs, so that the theorems speak of behaviours of
every length. `MaxTime` of the timer is below the overflow of the time.

Only model-checked:

- liveness (`TimeoutEnds`, `StopEnds`, `HaltEnds`, `WaitersServed`), since fairness
  and `ENABLED` are beyond the prover;
- `PrinceCorrect`: the published vectors are met by evaluation, which is what TLC does
  and a prover cannot. No theorem depends on it: the areas and the data cipher use the
  same keystream in both directions, whatever it is.

## 6. Not modelled

- The Ibex core, its tracer and the lowRISC primitives: third-party RTL, the
  workload of the analysis. `TimerSoftware` uses only that an enabled pending
  interrupt is taken between two instructions.
- libelf, the file system and Verilator's generated code: represented by what the
  harness sees of them (a set of files; `open`, `dump`, `close`; `$finish`, `$stop`).
- Performance counters, `parse_report_power_instances.py`: output only.
- Makefiles and CI: invocations of external tools.
- Log messages, except the two that state facts about the trace.
- Writes of single bytes of the timer's registers: the driver makes word accesses
  only. Its bus errors are in `SystemBus`.
- `peak_power.py`: a sequential script around OpenROAD. Its one hazard, results of
  an earlier run that are counted again, is listed without a property.
- The carry of `time_elapsed` between the two loads of `get_elapsed_time()`, which
  takes 2^32 interrupts, and `timecmp_update()` with interrupts enabled, which no
  code of the repository does.

## 7. Plan

Done: the controller with its proofs, the memory loading from the ranged map to
whole files with the proofs of the registry and of the loads, the command line, the timer with its
driver, the memory areas with their codes and ciphers, the scope guards, the
interconnect. Left: `PeakPower`, the results that are read back from files and the
glitch search.

Every safety invariant and action property of a passing run is a theorem, except
`PrinceCorrect`. A theorem still worth having is that PRINCE's decryption undoes its
encryption, which rests on the matrices of `prince_m_prime_layer()` being their own
inverses.
