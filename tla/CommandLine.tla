---------------------------- MODULE CommandLine ----------------------------
(***************************************************************************)
(* From the command line to the simulation: SimpleSystem::Main(), which    *)
(* calls ParseCommandArgs() of the simulation controller, which calls      *)
(* ParseCLIArguments() of the memory loader, its one extension.  The same  *)
(* options are looked at twice, by two parsers that each know a part of    *)
(* them and skip the rest, and only then the images are loaded.            *)
(*                                                                         *)
(* An option is what it means to the parsers:                              *)
(*   trace, help, verbose, other     no argument, or unknown to both       *)
(*   term1, term2, term_bad          --term-after-cycles=1, 2, rubbish     *)
(*   load, meminit_bad, list         an image to load; a malformed         *)
(*                                   --meminit; --meminit=list             *)
(*   missing_c, missing_m            -c, -m as the last word               *)
(*   attached                        -mFILE in one word                    *)
(*   attached_t, attached_h          the same, FILE with a t, with an h    *)
(*   attached_c, attached_c2         the same, FILE with a c and no number *)
(*                                   after it, with the number 2 after it  *)
(*                                                                         *)
(* The first parser does not know -m, and so goes on with the letters of   *)
(* an attached file name as if they were options: it finds its own t, h    *)
(* and c there.  -mtest.elf traces, and -mrv32c2 ends after two cycles.    *)
(***************************************************************************)
EXTENDS Naturals, Sequences, SequencesExt

CONSTANTS
  Options,           \* the options that occur
  MaxOptions         \* bound on the length of the command line

ASSUME CommandLineAssumption == MaxOptions \in Nat

VARIABLES
  opts,        \* the command line
  tracing_possible,        \* tracing_possible_: VM_TRACE of the build
  pc, i,       \* where we are, and the option or image that is next
  exit_app, good,          \* result of ParseCommandArgs()
  tracing, term,           \* tracing_enabled_, term_after_cycles_
  load_args,               \* indices into opts of the images to load
  loaded,                  \* those that were loaded
  retcode                  \* what main() returns; -1 while it runs

vars == <<opts, tracing_possible, pc, i, exit_app, good, tracing, term,
          load_args, loaded, retcode>>

TypeOK ==
  /\ opts \in BoundedSeq(Options, MaxOptions)
  /\ tracing_possible \in BOOLEAN
  /\ pc \in {"ctrl", "ext", "load", "setup_done", "run", "done"}
  /\ i \in 1..(MaxOptions + 1)
  /\ exit_app \in BOOLEAN /\ good \in BOOLEAN /\ tracing \in BOOLEAN
  /\ term \in 0..2
  /\ load_args \in BoundedSeq(1..MaxOptions, MaxOptions)
  /\ loaded \in BoundedSeq(1..MaxOptions, MaxOptions)
  /\ retcode \in {-1, 0, 1}

(* An option without its argument can only be the last word.                *)
Init ==
  /\ opts \in BoundedSeq(Options, MaxOptions)
  /\ \A k \in 1..Len(opts) :
       opts[k] \in {"missing_c", "missing_m"} => k = Len(opts)
  /\ tracing_possible \in BOOLEAN
  /\ pc = "ctrl" /\ i = 1
  /\ exit_app = FALSE /\ good = TRUE
  /\ tracing = FALSE /\ term = 0
  /\ load_args = <<>> /\ loaded = <<>>
  /\ retcode = -1

(* Return from ParseCommandArgs().                                          *)
Return(exit, success) ==
  /\ exit_app' = exit
  /\ good' = success
  /\ pc' = "setup_done"

(* What the options mean to the first parser, with those it finds in a file *)
(* name, and the images that the second one loads.                          *)
Traces == {"trace", "attached_t"}
Helps == {"help", "attached_h"}
Timeouts == {"term1", "term2", "attached_c2"}
TimeoutOf(o) == IF o = "term1" THEN 1 ELSE 2
BadTimeouts == {"term_bad", "missing_c", "attached_c"}
Images == {"load", "attached", "attached_t", "attached_h", "attached_c", "attached_c2"}

-----------------------------------------------------------------------------
(* Mutant: an option the parser does not know ends the program.             *)
Unrecognized_Exits ==
  /\ exit_app' = TRUE
  /\ UNCHANGED <<pc, good, tracing, term>>

(* An option for another parser is skipped.                                 *)
Unrecognized == UNCHANGED <<pc, exit_app, good, tracing, term>>

(* ParseCommandArgs(), one option.                                          *)
CtrlOption ==
  /\ pc = "ctrl" /\ i <= Len(opts)
  /\ i' = i + 1
  /\ LET o == opts[i] IN
     \/ /\ o \in Traces /\ tracing_possible
        /\ tracing' = TRUE
        /\ UNCHANGED <<pc, exit_app, good, term>>
     \/ /\ o \in Traces /\ ~tracing_possible
        /\ Return(TRUE, FALSE)
        /\ UNCHANGED <<tracing, term>>
     \/ /\ o \in Timeouts
        /\ term' = TimeoutOf(o)
        /\ UNCHANGED <<pc, exit_app, good, tracing>>
     \/ /\ o \in BadTimeouts
        /\ Return(TRUE, FALSE)
        /\ UNCHANGED <<tracing, term>>
     \/ /\ o \in Helps
        /\ exit_app' = TRUE
        /\ UNCHANGED <<pc, good, tracing, term>>
     \/ /\ o \notin Traces \cup Timeouts \cup BadTimeouts \cup Helps
        /\ Unrecognized
  /\ UNCHANGED <<opts, tracing_possible, load_args, loaded, retcode>>

(* Mutant: optind is not set back.                                          *)
ResetOptind_Not == i' = i

(* The extension starts again from the first option.                        *)
ResetOptind == i' = 1

CtrlEnd ==
  /\ pc = "ctrl" /\ i > Len(opts)
  /\ pc' = "ext" /\ ResetOptind
  /\ UNCHANGED <<opts, tracing_possible, exit_app, good, tracing, term, load_args, loaded, retcode>>

(* Mutant: the extension leaves --help to the controller.                   *)
ExtHelp_Ignored == FALSE

ExtHelp == opts[i] = "help"

(* Mutant: a missing break, so that the next case adds the file once more.  *)
AddLoadArg_FallThrough == load_args' = load_args \o <<i, i>>

AddLoadArg == load_args' = Append(load_args, i)

(* ParseCLIArguments(), one option.                                         *)

ExtOption ==
  /\ pc = "ext" /\ i <= Len(opts)
  /\ i' = i + 1
  /\ LET o == opts[i] IN
     \/ /\ o \in Images
        /\ AddLoadArg
        /\ UNCHANGED <<pc, exit_app, good>>
     \/ /\ o = "list"
        /\ Return(TRUE, TRUE)
        /\ UNCHANGED load_args
     \/ /\ o \in {"meminit_bad", "missing_m"}
        /\ Return(TRUE, FALSE)
        /\ UNCHANGED load_args
     \/ /\ ExtHelp
        /\ Return(exit_app, TRUE)
        /\ UNCHANGED load_args
     \/ /\ ~ExtHelp
        /\ o \notin Images \cup {"list", "meminit_bad", "missing_m"}
        /\ UNCHANGED <<pc, exit_app, good, load_args>>
  /\ UNCHANGED <<opts, tracing_possible, tracing, term, loaded, retcode>>

ExtEnd ==
  /\ pc = "ext" /\ i > Len(opts)
  /\ pc' = "load" /\ i' = 1
  /\ UNCHANGED <<opts, tracing_possible, exit_app, good, tracing, term, load_args, loaded, retcode>>

(* Mutant: an image that cannot be loaded is skipped.                       *)
LoadFails_Skipped ==
  /\ UNCHANGED <<pc, exit_app, good>>

LoadFails == Return(TRUE, FALSE)

(* The images, in the order of the command line, up to the first failure.   *)
LoadImage ==
  /\ pc = "load" /\ i <= Len(load_args)
  /\ i' = i + 1
  /\ \/ /\ loaded' = Append(loaded, load_args[i])
        /\ UNCHANGED <<pc, exit_app, good>>
     \/ /\ LoadFails
        /\ UNCHANGED loaded
  /\ UNCHANGED <<opts, tracing_possible, tracing, term, load_args, retcode>>

LoadEnd ==
  /\ pc = "load" /\ i > Len(load_args)
  /\ Return(exit_app, TRUE)
  /\ UNCHANGED <<opts, tracing_possible, i, tracing, term, load_args, loaded, retcode>>

-----------------------------------------------------------------------------
(* Main(): Setup() has turned the success flag into an int.                 *)
MainExits ==
  /\ pc = "setup_done" /\ exit_app
  /\ retcode' = IF good THEN 1 ELSE 0
  /\ pc' = "done"
  /\ UNCHANGED <<opts, tracing_possible, i, exit_app, good, tracing, term, load_args, loaded>>

MainRuns ==
  /\ pc = "setup_done" /\ ~exit_app
  /\ pc' = "run"
  /\ UNCHANGED <<opts, tracing_possible, i, exit_app, good, tracing, term, load_args, loaded, retcode>>

(* The simulation, to its end; Finish() is false if it was not successful.  *)
RunEnds ==
  /\ pc = "run"
  /\ retcode' \in {0, 1}
  /\ pc' = "done"
  /\ UNCHANGED <<opts, tracing_possible, i, exit_app, good, tracing, term, load_args, loaded>>

Done == pc = "done" /\ UNCHANGED vars

Next == \/ CtrlOption \/ CtrlEnd \/ ExtOption \/ ExtEnd
        \/ LoadImage \/ LoadEnd \/ MainExits \/ MainRuns \/ RunEnds
        \/ Done

Spec == Init /\ [][Next]_vars

-----------------------------------------------------------------------------
Given(o) == \E k \in 1..Len(opts) : opts[k] = o

(* seq lists the numbers in set upwards.                                    *)
Lists(seq, set) ==
  /\ {seq[j] : j \in 1..Len(seq)} = set
  /\ \A j, k \in 1..Len(seq) : j < k => seq[j] < seq[k]

(* term_after_cycles_ if the last timeout among the first n options counts. *)
TermOf(n) ==
  \/ /\ \A k \in 1..n : opts[k] \notin Timeouts
     /\ term = 0
  \/ \E k \in 1..n :
       /\ opts[k] \in Timeouts
       /\ \A j \in (k + 1)..n : opts[j] \notin Timeouts
       /\ term = TimeoutOf(opts[k])

(* A simulation runs only after both parsers have understood all options:   *)
(* every image was loaded, in order; tracing is on exactly if there is a    *)
(* --trace or an attached -mFILE with a t; and the last timeout counts, be  *)
(* it --term-after-cycles or the number after a c in an attached -mFILE.    *)
(* (That file names switch on tracing and set timeouts is what the code     *)
(* does, not what its help text promises.)  No other option of one parser   *)
(* gets in the way of the other.                                            *)
RunsAsAsked ==
  pc = "run" =>
    /\ \A o \in BadTimeouts \cup Helps \cup {"meminit_bad", "missing_m", "list"} : ~Given(o)
    /\ Lists(loaded, {k \in 1..Len(opts) : opts[k] \in Images})
    /\ tracing <=> \E o \in Traces : Given(o)
    /\ TermOf(Len(opts))

(* The two parsers agree on what ends the program early: if it ends without *)
(* an error, before a simulation, then no memory was touched.  They do not  *)
(* agree on an attached -mFILE with an h, which the second one loads.       *)
NoLoadWhenExiting ==
  pc = "setup_done" /\ exit_app /\ good /\ ~Given("attached_h") => loaded = <<>>

(* Only --help, an h that the first parser finds in an attached -mFILE, and *)
(* --meminit=list end the program without a simulation and without an       *)
(* error; in particular no option that is unknown to one parser does.       *)
EarlyExitAsked ==
  pc = "setup_done" /\ exit_app /\ good =>
    \E o \in Helps \cup {"list"} : Given(o)

(* What the documentation of the exit code says: 0 for success, 1 in case   *)
(* of an error in the command line.                                         *)
ExitCodeOfSetup ==
  pc = "done" /\ exit_app => retcode = IF good THEN 0 ELSE 1
=============================================================================
