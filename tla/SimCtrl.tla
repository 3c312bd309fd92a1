------------------------------ MODULE SimCtrl ------------------------------
(***************************************************************************)
(* The simulation controller of the Verilator harness                      *)
(* (example/verilator_sim_ctrl.cc): RunSimulation(), the main loop Run(),  *)
(* the tracing step Trace(), and the signal handler, which may run between *)
(* any two statements of the main thread.                                  *)
(*                                                                         *)
(* The main thread is a control state pc and one action per program        *)
(* location.  A location is a point at which the interrupted code and the  *)
(* handler touch the same data (the tracing flags, request_stop_); the     *)
(* statements in between commute with the handler and are one step.        *)
(***************************************************************************)
EXTENDS Integers

CONSTANTS
  InitialResetDelay,      \* initial_reset_delay_cycles_
  ResetDuration,          \* reset_duration_cycles_
  Timeouts,               \* the values of term_after_cycles_ looked at
  TracingPossible,        \* tracing_possible_, i.e. VM_TRACE of the build
  ResetPolarityNegative,  \* the flag given to SetTop()
  UserStop,               \* the vl_stop() looked at: "ours" asks for a stop
                          \* (VL_USER_STOP of the build), "default" aborts; a
                          \* build has one, both together cover either
  MaxTime                 \* bound on time_: the longest run looked at, except
                          \* that a requested stop is still followed to its end

ASSUME ConstantsAssumption ==
  /\ InitialResetDelay \in Nat
  /\ ResetDuration \in Nat
  /\ Timeouts \subseteq Nat
  /\ MaxTime \in Nat
  /\ TracingPossible \in BOOLEAN
  /\ ResetPolarityNegative \in BOOLEAN
  /\ UserStop \subseteq {"ours", "default"}

VARIABLES
  pc,                       \* where the main thread is
  term_after_cycles,        \* term_after_cycles_; 0 means no timeout
  time,                     \* time_, in half clock periods
  sig_clk, sig_rst,         \* the two inputs the controller drives
  tracing_enabled, tracing_enabled_changed, tracing_ever_enabled,
  tracer,                   \* the trace file: "never" opened, "open", "closed"
  lastDump,                 \* time of the last dump() into it, -1 for none
  hint,                     \* "You can view the simulation traces" printed?
  request_stop, simulation_success,
  announced,                \* the last "Tracing enabled." (TRUE) or
                            \* "Tracing disabled." printed; FALSE before any
  gotFinish,                \* Verilated::gotFinish()
  reason,                   \* why the loop was left
  exitCode,                 \* what main() returns
  \* History, read by no action:
  failAsked,                \* has a failing stop been requested?
  lastToggle,               \* time of the last SIGUSR1, -1 for none
  lostMessage,              \* did SIGUSR1 arrive between the read of the state
                            \* for the last message and the clear of the flag?
  lateEvals                 \* eval()s begun when a stop was already requested

flags    == <<tracing_enabled, tracing_enabled_changed, tracing_ever_enabled>>
stopVars == <<request_stop, simulation_success, failAsked>>
design   == <<term_after_cycles, time, sig_clk, sig_rst, gotFinish, lateEvals>>
output   == <<tracer, lastDump, hint, announced>>
result   == <<reason, exitCode>>
toggles  == <<lastToggle, lostMessage>>
vars     == <<pc, design, flags, output, stopVars, result, toggles>>

TracePC  == {"t_changed", "t_print", "t_clear", "t_enabled", "t_open", "t_dump"}
CheckPC  == {"check_stop", "check_finish", "check_timeout"}
EndPC    == {"final", "close", "post", "view", "finish"}
Ended    == pc \in {"done", "killed"}

TypeOK ==
  /\ pc \in {"setup", "start", "loop", "done", "killed"}
              \cup TracePC \cup CheckPC \cup EndPC
  /\ term_after_cycles \in Timeouts
  /\ time \in 0..MaxTime + 1
  /\ sig_clk \in {0, 1} /\ sig_rst \in {0, 1}
  /\ tracing_enabled \in BOOLEAN
  /\ tracing_enabled_changed \in BOOLEAN
  /\ tracing_ever_enabled \in BOOLEAN
  /\ tracer \in {"never", "open", "closed"}
  /\ lastDump \in -1..MaxTime + 1
  /\ hint \in BOOLEAN
  /\ request_stop \in BOOLEAN /\ simulation_success \in BOOLEAN
  /\ gotFinish \in BOOLEAN
  /\ reason \in {"none", "stop", "finish", "timeout"}
  /\ exitCode \in {0, 1} /\ failAsked \in BOOLEAN
  /\ lastToggle \in -1..MaxTime + 1
  /\ announced \in BOOLEAN /\ lostMessage \in BOOLEAN
  /\ lateEvals \in 0..MaxTime + 2

-----------------------------------------------------------------------------
(* The constructor, and what ParseCommandArgs() left behind: with -t it has *)
(* called TraceOn(), otherwise the flags are as constructed; with -c it has *)
(* set the timeout.                                                         *)
Init ==
  /\ pc = "setup"
  /\ term_after_cycles \in Timeouts
  /\ time = 0
  /\ sig_clk = 0 /\ sig_rst = 0
  /\ tracing_enabled \in BOOLEAN
  /\ tracing_enabled => TracingPossible
  /\ tracing_enabled_changed = tracing_enabled
  /\ tracing_ever_enabled = tracing_enabled
  /\ tracer = "never" /\ lastDump = -1
  /\ hint = FALSE
  /\ request_stop = FALSE /\ simulation_success = TRUE
  /\ gotFinish = FALSE
  /\ reason = "none" /\ exitCode = 0 /\ failAsked = FALSE
  /\ announced = FALSE
  /\ lastToggle = -1 /\ lostMessage = FALSE /\ lateEvals = 0

SetReset   == IF ResetPolarityNegative THEN 0 ELSE 1
UnsetReset == IF ResetPolarityNegative THEN 1 ELSE 0

(* Mutant: forgets a failure when a later stop request is a clean one.      *)
RequestStop_Overwrite(success) ==
  /\ request_stop' = TRUE
  /\ simulation_success' = success
  /\ failAsked' = (failAsked \/ ~success)

RequestStop(success) ==
  /\ request_stop' = TRUE
  /\ simulation_success' = (simulation_success /\ success)
  /\ failAsked' = (failAsked \/ ~success)

TraceOn ==
  /\ tracing_enabled' = TracingPossible
  /\ tracing_ever_enabled' = TracingPossible
  /\ tracing_enabled_changed' =
       (tracing_enabled_changed \/ tracing_enabled # TracingPossible)

(* Mutant: switches tracing off without a note for the next Trace().        *)
TraceOff_Silent ==
  /\ tracing_enabled' = FALSE
  /\ UNCHANGED <<tracing_enabled_changed, tracing_ever_enabled>>

TraceOff ==
  /\ tracing_enabled_changed' = (tracing_enabled_changed \/ tracing_enabled)
  /\ tracing_enabled' = FALSE
  /\ UNCHANGED tracing_ever_enabled

-----------------------------------------------------------------------------
(* RunSimulation(): install the handler, call the extensions' PreExec().    *)
RegisterSignalHandler ==
  /\ pc = "setup"
  /\ pc' = "start"
  /\ UNCHANGED <<design, flags, output, stopVars, result, toggles>>

(* What the design may do in an eval() or final(): call $finish, or $stop,   *)
(* which with VL_USER_STOP is a failing stop request.                       *)
DesignCalls ==
  /\ gotFinish' \in {gotFinish, TRUE}
  /\ \/ UNCHANGED stopVars
     \/ "ours" \in UserStop /\ RequestStop(FALSE)

(* An eval() that begins when a stop was already requested is a late one.   *)
Eval ==
  /\ DesignCalls
  /\ lateEvals' = IF request_stop THEN lateEvals + 1 ELSE lateEvals

(* Run() up to the first Trace(): initial eval(), reset released.           *)
StartRun ==
  /\ pc = "start"
  /\ Eval
  /\ sig_rst' = UnsetReset
  /\ pc' = "t_changed"
  /\ UNCHANGED <<term_after_cycles, time, sig_clk>>
  /\ UNCHANGED <<flags, output, result, toggles>>

(* The reset input for the iteration that begins in clock cycle c.          *)
(* Mutant: the end of reset is tested with the last reset cycle.            *)
NextReset_EndsEarly(c) ==
  IF c = InitialResetDelay THEN SetReset
  ELSE IF c = InitialResetDelay + ResetDuration - 1 THEN UnsetReset
  ELSE sig_rst

NextReset(c) ==
  IF c = InitialResetDelay THEN SetReset
  ELSE IF c = InitialResetDelay + ResetDuration THEN UnsetReset
  ELSE sig_rst

(* Mutant: bitwise instead of logical negation of the 8-bit signal.         *)
ToggleClock_Bitwise == 255 - sig_clk

ToggleClock == 1 - sig_clk

(* One iteration of the loop up to Trace(): reset, clock edge, the          *)
(* extensions' OnClock(), eval(), time_++.                                  *)
Tick ==
  /\ pc = "loop"
  /\ time < MaxTime \/ (request_stop /\ time = MaxTime)
  /\ sig_rst' = NextReset(time \div 2)
  /\ sig_clk' = ToggleClock
  /\ Eval
  /\ time' = time + 1
  /\ pc' = "t_changed"
  /\ UNCHANGED <<term_after_cycles, flags, output, result, toggles>>

(* Without VL_USER_STOP the default vl_stop() ends the process, in the      *)
(* initial eval(), in one of the loop or in final().                        *)
StopAborts ==
  /\ pc \in {"start", "loop", "final"}
  /\ "default" \in UserStop
  /\ pc' = "killed"
  /\ UNCHANGED <<design, flags, output, stopVars, result, toggles>>

-----------------------------------------------------------------------------
(* Trace(), called once before the loop and once in every iteration.        *)
AfterTrace == IF time = 0 THEN "loop" ELSE "check_stop"

TraceChanged ==
  /\ pc = "t_changed"
  /\ pc' = IF tracing_enabled_changed THEN "t_print" ELSE "t_enabled"
  /\ UNCHANGED <<design, flags, output, stopVars, result, toggles>>

(* The message tells the state at this moment; from here to the clear of    *)
(* the flag a toggle goes unnoticed.                                        *)
TracePrint ==
  /\ pc = "t_print"
  /\ announced' = tracing_enabled
  /\ lostMessage' = FALSE
  /\ pc' = "t_clear"
  /\ UNCHANGED <<tracer, lastDump, hint, lastToggle>>
  /\ UNCHANGED <<design, flags, stopVars, result>>

TraceClear ==
  /\ pc = "t_clear"
  /\ tracing_enabled_changed' = FALSE
  /\ pc' = "t_enabled"
  /\ UNCHANGED <<tracing_enabled, tracing_ever_enabled>>
  /\ UNCHANGED <<design, output, stopVars, result, toggles>>

(* Mutant: tests the change flag instead of the state.                      *)
TraceEnabled_OnChange ==
  /\ pc = "t_enabled"
  /\ pc' = IF tracing_enabled_changed THEN "t_open" ELSE AfterTrace
  /\ UNCHANGED <<design, flags, output, stopVars, result, toggles>>

TraceEnabled ==
  /\ pc = "t_enabled"
  /\ pc' = IF tracing_enabled THEN "t_open" ELSE AfterTrace
  /\ UNCHANGED <<design, flags, output, stopVars, result, toggles>>

TraceOpen ==
  /\ pc = "t_open"
  /\ tracer' = "open"
  /\ pc' = "t_dump"
  /\ UNCHANGED <<lastDump, hint, announced>>
  /\ UNCHANGED <<design, flags, stopVars, result, toggles>>

TraceDump ==
  /\ pc = "t_dump"
  /\ lastDump' = time
  /\ pc' = AfterTrace
  /\ UNCHANGED <<tracer, hint, announced>>
  /\ UNCHANGED <<design, flags, stopVars, result, toggles>>

-----------------------------------------------------------------------------
(* The three tests at the end of an iteration, in the code's order.         *)
Leave(why) ==
  /\ reason' = why
  /\ pc' = "final"
  /\ UNCHANGED exitCode

(* Mutant: the request is not looked at.                                    *)
CheckStop_Ignored ==
  /\ pc = "check_stop"
  /\ pc' = "check_finish"
  /\ UNCHANGED result
  /\ UNCHANGED <<design, flags, output, stopVars, toggles>>

(* Mutant: the loop is continued instead of left.                           *)
CheckStop_Continue ==
  /\ pc = "check_stop"
  /\ pc' = IF request_stop THEN "loop" ELSE "check_finish"
  /\ UNCHANGED result
  /\ UNCHANGED <<design, flags, output, stopVars, toggles>>

CheckStop ==
  /\ pc = "check_stop"
  /\ IF request_stop THEN Leave("stop")
                     ELSE pc' = "check_finish" /\ UNCHANGED result
  /\ UNCHANGED <<design, flags, output, stopVars, toggles>>

CheckFinish ==
  /\ pc = "check_finish"
  /\ IF gotFinish THEN Leave("finish")
                  ELSE pc' = "check_timeout" /\ UNCHANGED result
  /\ UNCHANGED <<design, flags, output, stopVars, toggles>>

(* Mutants: one cycle too many; a cycle count of 0 mistaken for a timeout.  *)
TimedOut_Strict == term_after_cycles # 0 /\ time \div 2 > term_after_cycles
TimedOut_IfZero == term_after_cycles = 0 /\ time \div 2 >= term_after_cycles

TimedOut == term_after_cycles # 0 /\ time \div 2 >= term_after_cycles

CheckTimeout ==
  /\ pc = "check_timeout"
  /\ IF TimedOut THEN Leave("timeout")
                 ELSE pc' = "loop" /\ UNCHANGED result
  /\ UNCHANGED <<design, flags, output, stopVars, toggles>>

(* top_->final(), after the loop: the design's final blocks.                *)
Final ==
  /\ pc = "final"
  /\ DesignCalls
  /\ pc' = "close"
  /\ UNCHANGED <<term_after_cycles, time, sig_clk, sig_rst, lateEvals>>
  /\ UNCHANGED <<flags, output, result, toggles>>

(* Mutant: the file is closed only if tracing is on at the end.             *)
Close_IfEnabled ==
  /\ pc = "close"
  /\ tracer' = IF tracing_enabled THEN "closed" ELSE tracer
  /\ pc' = "post"
  /\ UNCHANGED <<lastDump, hint, announced>>
  /\ UNCHANGED <<design, flags, stopVars, result, toggles>>

(* close() on a tracer that was never opened does nothing.                  *)
Close ==
  /\ pc = "close"
  /\ tracer' = IF tracing_ever_enabled /\ tracer = "open" THEN "closed"
                                                          ELSE tracer
  /\ pc' = "post"
  /\ UNCHANGED <<lastDump, hint, announced>>
  /\ UNCHANGED <<design, flags, stopVars, result, toggles>>

(* The extensions' PostExec() and PrintStatistics().                        *)
PostExec ==
  /\ pc = "post"
  /\ pc' = "view"
  /\ UNCHANGED <<design, flags, output, stopVars, result, toggles>>

(* The closing message of RunSimulation().                                  *)
PrintView ==
  /\ pc = "view"
  /\ hint' = tracing_ever_enabled
  /\ pc' = "finish"
  /\ UNCHANGED <<tracer, lastDump, announced>>
  /\ UNCHANGED <<design, flags, stopVars, result, toggles>>

(* SimpleSystem::Finish() and the return from Main().                       *)
Finish ==
  /\ pc = "finish"
  /\ exitCode' = IF simulation_success THEN 0 ELSE 1
  /\ pc' = "done"
  /\ UNCHANGED reason
  /\ UNCHANGED <<design, flags, output, stopVars, toggles>>

-----------------------------------------------------------------------------
(* SignalHandler(), on the main thread between two of its statements.       *)
HandlerInstalled == pc # "setup" /\ ~Ended

SigInt ==
  /\ HandlerInstalled
  /\ RequestStop(TRUE)
  /\ UNCHANGED <<pc, design, flags, output, result, toggles>>

SigUsr1 ==
  /\ HandlerInstalled
  /\ IF tracing_enabled THEN TraceOff ELSE TraceOn
  /\ lastToggle' = time
  /\ lostMessage' = (lostMessage \/ pc = "t_clear")
  /\ UNCHANGED <<pc, design, output, stopVars, result>>

(* A signal without a handler ends the process where it is: SIGTERM at any  *)
(* time, SIGINT and SIGUSR1 before RegisterSignalHandler().                 *)
Kill ==
  /\ ~Ended
  /\ pc' = "killed"
  /\ UNCHANGED <<design, flags, output, stopVars, result, toggles>>

-----------------------------------------------------------------------------
Trace == \/ TraceChanged \/ TracePrint \/ TraceClear
         \/ TraceEnabled \/ TraceOpen \/ TraceDump

Run == \/ StartRun \/ Tick \/ Trace
       \/ CheckStop \/ CheckFinish \/ CheckTimeout
       \/ Final \/ Close

RunSimulation == RegisterSignalHandler \/ Run \/ PostExec \/ PrintView

Main == RunSimulation \/ Finish

Environment == SigInt \/ SigUsr1 \/ Kill \/ StopAborts

Next == Main \/ Environment

Spec == Init /\ [][Next]_vars

(* The operating system keeps running the process; nobody has to signal it. *)
FairSpec == Spec /\ WF_vars(Main)

-----------------------------------------------------------------------------
ResetActive == sig_rst = SetReset

(* The design sees reset asserted in clock cycles                           *)
(* [InitialResetDelay, InitialResetDelay + ResetDuration) and in no other:  *)
(* the eval() of the iteration that began at time - 1 ran in cycle          *)
(* (time - 1) \div 2.  SetInitialResetDelay(), SetResetDuration().          *)
ResetWaveform ==
  time > 0 =>
    ( ResetActive <=>
        /\ (time - 1) \div 2 >= InitialResetDelay
        /\ (time - 1) \div 2 < InitialResetDelay + ResetDuration )

(* At every tick during which SIGUSR1 did not arrive, the trace file has a  *)
(* sample of this tick exactly if tracing is on, wherever in earlier ticks  *)
(* the handler ran; and every sample went into an open file.  (In the tick  *)
(* in which SIGUSR1 arrives the sample depends on where it arrives: the     *)
(* code may still write one after tracing was switched off.)                *)
TraceExact ==
  pc = "check_stop" =>
    /\ lastToggle < time => (tracing_enabled <=> lastDump = time)
    /\ lastDump = time => tracer = "open"

(* The user knows whether tracing is on: at the end of every tick during    *)
(* which SIGUSR1 did not arrive the last message printed by Trace() tells   *)
(* the state, however often the handler ran since.  The one exception is    *)
(* the code's: a toggle between the read of the state for the message and   *)
(* the clear of tracing_enabled_changed_ is not announced.                  *)
TogglesAnnounced ==
  pc \in CheckPC /\ lastToggle < time /\ ~lostMessage =>
    announced = tracing_enabled

(* A run that is left in an orderly way leaves no trace file open, and the  *)
(* user is told of the file if there is one, whatever SIGUSR1 did in the    *)
(* meantime: close() and the message depend on tracing_ever_enabled_ only.  *)
TraceClosed == pc = "done" => tracer = "never" \/ (tracer = "closed" /\ hint)

(* A stop request is obeyed at the next test, which comes after an eval()   *)
(* of the loop: at most one more is begun after SIGINT or $stop set         *)
(* request_stop_, or two if SIGINT came before the initial eval(), after    *)
(* which the code does not test.                                            *)
StopPrompt == lateEvals <= 1 \/ (lateEvals = 2 /\ time = 1)

(* The loop is left for the reason that is printed: on a timeout exactly    *)
(* term_after_cycles full clock cycles were run, and the timeout is never     *)
(* overrun.                                                                 *)
TimeoutExact ==
  /\ reason = "timeout" => time = 2 * term_after_cycles
  /\ term_after_cycles # 0 => time <= 2 * term_after_cycles

(* The exit code tells of a failing stop request ($stop in the design) and  *)
(* of nothing else: SIGINT, which requests a clean stop before or after it, *)
(* neither hides a failure nor makes one.                                   *)
ExitCodeHonest == pc = "done" => (exitCode = 1 <=> failAsked)

(* Once SIGINT or $stop has requested a stop the process ends.              *)
StopEnds == request_stop ~> Ended

(* With a timeout every run ends.                                           *)
TimeoutEnds == term_after_cycles # 0 => <>Ended

(* What the workflow's instructions rely on: a simulation that is stopped   *)
(* by timeout(1) leaves a finished trace file behind.                       *)
FileFinishedAtExit == Ended => tracer # "open"
=============================================================================
