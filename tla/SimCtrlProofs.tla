--------------------------- MODULE SimCtrlProofs ---------------------------
(***************************************************************************)
(* The safety properties of SimCtrl, for every reset delay, reset duration *)
(* and timeout.                                                            *)
(***************************************************************************)
EXTENDS SimCtrl, TLAPS

(* Every action, for the proofs that treat them all alike.                  *)
LEMMA NextCases ==
  ASSUME Next
  PROVE  \/ RegisterSignalHandler \/ StartRun \/ Tick \/ StopAborts
         \/ TraceChanged \/ TracePrint \/ TraceClear
         \/ TraceEnabled \/ TraceOpen \/ TraceDump
         \/ CheckStop \/ CheckFinish \/ CheckTimeout
         \/ Final \/ Close \/ PostExec \/ PrintView \/ Finish
         \/ SigInt \/ SigUsr1 \/ Kill
  BY DEF Next, Main, RunSimulation, Run, Trace, Environment

(* Every variable keeps its type: the times stay within the bound, because  *)
(* the eval()s begun after a stop request are eval()s of the run, one per   *)
(* tick and the initial one.                                                *)
TimesOK ==
  /\ lateEvals <= time + 1
  /\ pc \in {"setup", "start"} => lateEvals = 0
  /\ lastDump <= time
  /\ lastToggle <= time

LEMMA TypeInit ==
  ASSUME Init
  PROVE  TypeOK /\ TimesOK
<1>1. /\ tracing_enabled \in BOOLEAN /\ tracing_enabled_changed \in BOOLEAN
      /\ tracing_ever_enabled \in BOOLEAN
      /\ hint \in BOOLEAN
      /\ request_stop \in BOOLEAN /\ simulation_success \in BOOLEAN
      /\ gotFinish \in BOOLEAN /\ failAsked \in BOOLEAN
      /\ announced \in BOOLEAN /\ lostMessage \in BOOLEAN
  BY Zenon DEF Init
<1>2. /\ pc = "setup" /\ term_after_cycles \in Timeouts /\ time = 0 /\ sig_clk = 0 /\ sig_rst = 0
      /\ tracer = "never" /\ lastDump = -1 /\ reason = "none"
      /\ exitCode = 0 /\ lastToggle = -1 /\ lateEvals = 0
  BY Zenon DEF Init
<1> QED
  BY <1>1, <1>2, ConstantsAssumption
  DEF TypeOK, TimesOK, TracePC, CheckPC, EndPC

LEMMA TypeNext ==
  ASSUME TypeOK, TimesOK, [Next]_vars
  PROVE  TypeOK' /\ TimesOK'
<1> USE ConstantsAssumption DEF TypeOK, TimesOK, TracePC, CheckPC, EndPC,
        design, flags, output, stopVars, result, toggles
<1>1. CASE RegisterSignalHandler BY <1>1 DEF RegisterSignalHandler
<1>0. ASSUME DesignCalls
      PROVE  /\ request_stop' \in BOOLEAN /\ simulation_success' \in BOOLEAN
             /\ failAsked' \in BOOLEAN /\ gotFinish' \in BOOLEAN
  BY <1>0 DEF DesignCalls, RequestStop
<1>2. CASE StartRun
  <2>1. sig_rst' \in {0, 1} BY <1>2 DEF StartRun, UnsetReset
  <2>2. lateEvals' \in 0..MaxTime + 2 /\ lateEvals' <= time' + 1
    BY <1>2 DEF StartRun, Eval
  <2> QED BY <1>0, <1>2, <2>1, <2>2 DEF StartRun, Eval
<1>3. CASE Tick
  <2>1. sig_rst' \in {0, 1} BY <1>3 DEF Tick, NextReset, SetReset, UnsetReset
  <2>2. time' \in 0..MaxTime + 1 /\ lateEvals' \in 0..MaxTime + 2
        /\ lateEvals' <= time' + 1
    BY <1>3 DEF Tick, Eval, ToggleClock
  <2> QED BY <1>0, <1>3, <2>1, <2>2 DEF Tick, Eval, ToggleClock
<1>4. CASE StopAborts BY <1>4 DEF StopAborts
<1>5. CASE TraceChanged BY <1>5 DEF TraceChanged
<1>6. CASE TracePrint
  <2>1. announced' \in BOOLEAN /\ lostMessage' \in BOOLEAN
    BY <1>6, Zenon DEF TracePrint
  <2>2. /\ pc' = "t_clear"
        /\ UNCHANGED <<tracer, lastDump, hint, lastToggle>>
        /\ UNCHANGED <<design, flags, stopVars, result>>
    BY <1>6, Zenon DEF TracePrint
  <2> QED BY <2>1, <2>2
<1>7. CASE TraceClear
  <2>1. tracing_enabled_changed' \in BOOLEAN BY <1>7, Zenon DEF TraceClear
  <2>2. /\ pc' = "t_enabled"
        /\ UNCHANGED <<tracing_enabled, tracing_ever_enabled>>
        /\ UNCHANGED <<design, output, stopVars, result, toggles>>
    BY <1>7, Zenon DEF TraceClear
  <2> QED BY <2>1, <2>2
<1>8. CASE TraceEnabled BY <1>8 DEF TraceEnabled, AfterTrace
<1>9. CASE TraceOpen BY <1>9 DEF TraceOpen
<1>10. CASE TraceDump BY <1>10 DEF TraceDump, AfterTrace
<1>11. CASE CheckStop BY <1>11 DEF CheckStop, Leave
<1>12. CASE CheckFinish BY <1>12 DEF CheckFinish, Leave
<1>13. CASE CheckTimeout BY <1>13 DEF CheckTimeout, Leave
<1>14. CASE Final BY <1>0, <1>14 DEF Final
<1>15. CASE Close BY <1>15 DEF Close
<1>16. CASE PostExec BY <1>16 DEF PostExec
<1>17. CASE PrintView BY <1>17 DEF PrintView
<1>18. CASE Finish BY <1>18 DEF Finish
<1>19. CASE SigInt BY <1>19 DEF SigInt, RequestStop
<1>20. CASE SigUsr1
  <2>1. /\ tracing_enabled' \in BOOLEAN
        /\ tracing_enabled_changed' \in BOOLEAN
        /\ tracing_ever_enabled' \in BOOLEAN
    BY <1>20 DEF SigUsr1, TraceOn, TraceOff
  <2> QED BY <1>20, <2>1 DEF SigUsr1
<1>21. CASE Kill BY <1>21 DEF Kill
<1>22. CASE UNCHANGED vars BY <1>22 DEF vars
<1> QED
  BY <1>1, <1>2, <1>3, <1>4, <1>5, <1>6, <1>7, <1>8, <1>9, <1>10, <1>11,
     <1>12, <1>13, <1>14, <1>15, <1>16, <1>17, <1>18, <1>19, <1>20, <1>21,
     <1>22, NextCases

(* The type invariant of SimCtrl holds in every reachable state.            *)
THEOREM TypeCorrect == Spec => [](TypeOK /\ TimesOK)
<1>1. Init => TypeOK /\ TimesOK BY TypeInit
<1>2. TypeOK /\ TimesOK /\ [Next]_vars => TypeOK' /\ TimesOK' BY TypeNext
<1> QED BY <1>1, <1>2, PTL DEF Spec

-----------------------------------------------------------------------------
(***************************************************************************)
(* The inductive invariant, in parts that are inductive together with the  *)
(* type invariant only.                                                    *)
(***************************************************************************)

(* The reset input before the first and after every iteration of the loop.  *)
ResetInv ==
  /\ ResetWaveform
  /\ pc \notin {"setup", "start", "killed"} /\ time = 0 => ~ResetActive
  /\ pc \in {"setup", "start"} => time = 0

(* What holds inside Trace() whether or not SIGUSR1 interrupts it.          *)
TraceInv ==
  /\ TraceExact
  /\ pc \in TracePC => lastDump < time
  /\ pc \in {"setup", "start"} => lastDump < time
  /\ pc \in {"t_open", "t_dump"} /\ lastToggle < time => tracing_enabled
  /\ pc = "t_dump" => tracer = "open"

(* A change that Trace() has yet to announce is flagged, unless the toggle  *)
(* came just before the clear of the flag; without a toggle since, nothing  *)
(* is left to announce once the test of the flag is past.                   *)
MessageInv ==
  /\ TogglesAnnounced
  /\ ~lostMessage /\ (pc = "t_clear" \/ ~tracing_enabled_changed) =>
       announced = tracing_enabled
  /\ pc \in {"t_enabled", "t_open", "t_dump"} \cup CheckPC /\ lastToggle < time =>
       ~tracing_enabled_changed

(* There is a file only if tracing_ever_enabled_ says so.                   *)
FileInv ==
  /\ tracing_enabled => tracing_ever_enabled
  /\ tracing_ever_enabled => TracingPossible
  /\ pc \in {"t_open", "t_dump"} => tracing_ever_enabled
  /\ tracer # "never" => tracing_ever_enabled
  /\ pc \in {"post", "view", "finish", "done"} => tracer # "open"
  /\ pc \in {"finish", "done"} /\ tracer # "never" => hint

(* Past the test of request_stop_ a request is one that came in since.      *)
StopInv ==
  /\ StopPrompt
  /\ ~request_stop => lateEvals = 0
  /\ pc \in {"setup", "start", "check_finish", "check_timeout"} =>
       lateEvals = 0
  /\ pc = "loop" => lateEvals = 0 \/ time = 0
  /\ time = 0 => lateEvals <= 1

(* In the loop the timeout lies ahead; it is hit exactly.                   *)
TimeoutInv ==
  /\ TimeoutExact
  /\ term_after_cycles # 0 /\ pc = "loop" => time < 2 * term_after_cycles
  /\ term_after_cycles # 0 /\ time = 0 => time < 2 * term_after_cycles
  /\ reason # "none" => pc \in EndPC \cup {"done", "killed"}
  /\ pc \in {"setup", "start"} => time = 0

(* The success flag and the history of requests agree.                      *)
ExitInv ==
  /\ failAsked <=> ~simulation_success
  /\ pc = "done" => (exitCode = 1 <=> failAsked)

IInv == TraceInv /\ MessageInv /\ FileInv /\ StopInv /\ TimeoutInv /\ ExitInv

LEMMA ResetNext ==
  ASSUME TypeOK, ResetInv, [Next]_vars, ResetDuration # 0
  PROVE  ResetInv'
<1> USE ConstantsAssumption DEF TypeOK, ResetInv, ResetWaveform, ResetActive,
        SetReset, UnsetReset, design
<1>1. CASE RegisterSignalHandler BY <1>1 DEF RegisterSignalHandler
<1>2. CASE StartRun BY <1>2 DEF StartRun
<1>3. CASE Tick
  <2> DEFINE c == time \div 2
             p == (time - 1) \div 2
  <2>1. c \in Nat /\ time' = time + 1 /\ (time' - 1) \div 2 = c
    BY <1>3 DEF Tick, ToggleClock
  <2>2. sig_rst' = NextReset(c) /\ pc' = "t_changed"
    BY <1>3 DEF Tick, ToggleClock
  <2>3. CASE time = 0
    <3>1. c = 0 BY <2>3
    <3>2. ~ResetActive BY <1>3, <2>3 DEF Tick, ToggleClock
    <3> HIDE DEF c
    <3> QED BY <2>1, <2>2, <2>3, <3>1, <3>2 DEF NextReset
  <2>4. CASE time > 0
    <3>1. p \in Nat /\ (p = c \/ p + 1 = c) BY <2>4
    <3>2. ResetActive <=> p >= InitialResetDelay
                          /\ p < InitialResetDelay + ResetDuration
      BY <2>4
    <3> HIDE DEF c, p
    <3>3. ResetActive' <=> c >= InitialResetDelay
                           /\ c < InitialResetDelay + ResetDuration
      BY <2>1, <2>2, <3>1, <3>2 DEF NextReset
    <3> QED BY <2>1, <2>2, <2>4, <3>3
  <2> QED BY <2>3, <2>4
<1>4. CASE StopAborts BY <1>4 DEF StopAborts
<1>5. CASE TraceChanged BY <1>5 DEF TraceChanged
<1>6. CASE TracePrint BY <1>6 DEF TracePrint
<1>7. CASE TraceClear BY <1>7 DEF TraceClear
<1>8. CASE TraceEnabled BY <1>8 DEF TraceEnabled, AfterTrace
<1>9. CASE TraceOpen BY <1>9 DEF TraceOpen
<1>10. CASE TraceDump BY <1>10 DEF TraceDump, AfterTrace
<1>11. CASE CheckStop BY <1>11 DEF CheckStop, Leave
<1>12. CASE CheckFinish BY <1>12 DEF CheckFinish, Leave
<1>13. CASE CheckTimeout BY <1>13 DEF CheckTimeout, Leave
<1>14. CASE Final BY <1>14 DEF Final
<1>15. CASE Close BY <1>15 DEF Close
<1>16. CASE PostExec BY <1>16 DEF PostExec
<1>17. CASE PrintView BY <1>17 DEF PrintView
<1>18. CASE Finish BY <1>18 DEF Finish
<1>19. CASE SigInt BY <1>19 DEF SigInt
<1>20. CASE SigUsr1 BY <1>20 DEF SigUsr1
<1>21. CASE Kill BY <1>21 DEF Kill
<1>22. CASE UNCHANGED vars BY <1>22 DEF vars
<1> QED
  BY <1>1, <1>2, <1>3, <1>4, <1>5, <1>6, <1>7, <1>8, <1>9, <1>10, <1>11,
     <1>12, <1>13, <1>14, <1>15, <1>16, <1>17, <1>18, <1>19, <1>20, <1>21,
     <1>22, NextCases

LEMMA TraceNext ==
  ASSUME TypeOK, TimesOK, TraceInv, [Next]_vars
  PROVE  TraceInv'
<1> USE DEF TypeOK, TimesOK, TraceInv, TraceExact, TracePC, CheckPC, design, flags,
        output, toggles
<1>1. CASE RegisterSignalHandler BY <1>1 DEF RegisterSignalHandler
<1>2. CASE StartRun BY <1>2 DEF StartRun
<1>3. CASE Tick BY <1>3 DEF Tick, ToggleClock
<1>4. CASE StopAborts BY <1>4 DEF StopAborts
<1>5. CASE TraceChanged BY <1>5 DEF TraceChanged
<1>6. CASE TracePrint BY <1>6 DEF TracePrint
<1>7. CASE TraceClear BY <1>7 DEF TraceClear
<1>8. CASE TraceEnabled BY <1>8 DEF TraceEnabled, AfterTrace
<1>9. CASE TraceOpen BY <1>9 DEF TraceOpen
<1>10. CASE TraceDump BY <1>10 DEF TraceDump, AfterTrace
<1>11. CASE CheckStop BY <1>11 DEF CheckStop, Leave
<1>12. CASE CheckFinish BY <1>12 DEF CheckFinish, Leave
<1>13. CASE CheckTimeout BY <1>13 DEF CheckTimeout, Leave
<1>14. CASE Final BY <1>14 DEF Final
<1>15. CASE Close BY <1>15 DEF Close
<1>16. CASE PostExec BY <1>16 DEF PostExec
<1>17. CASE PrintView BY <1>17 DEF PrintView
<1>18. CASE Finish BY <1>18 DEF Finish
<1>19. CASE SigInt BY <1>19 DEF SigInt
<1>20. CASE SigUsr1 BY <1>20 DEF SigUsr1, TraceOn, TraceOff
<1>21. CASE Kill BY <1>21 DEF Kill
<1>22. CASE UNCHANGED vars BY <1>22 DEF vars
<1> QED
  BY <1>1, <1>2, <1>3, <1>4, <1>5, <1>6, <1>7, <1>8, <1>9, <1>10, <1>11,
     <1>12, <1>13, <1>14, <1>15, <1>16, <1>17, <1>18, <1>19, <1>20, <1>21,
     <1>22, NextCases

LEMMA MessageNext ==
  ASSUME TypeOK, TimesOK, MessageInv, [Next]_vars
  PROVE  MessageInv'
<1> USE DEF TypeOK, TimesOK, MessageInv, TogglesAnnounced, TracePC, CheckPC, design, flags,
        output, toggles
<1>1. CASE RegisterSignalHandler BY <1>1 DEF RegisterSignalHandler
<1>2. CASE StartRun BY <1>2 DEF StartRun
<1>3. CASE Tick BY <1>3 DEF Tick, ToggleClock
<1>4. CASE StopAborts BY <1>4 DEF StopAborts
<1>5. CASE TraceChanged BY <1>5 DEF TraceChanged
<1>6. CASE TracePrint
  <2>1. announced' = tracing_enabled' BY <1>6, Zenon DEF TracePrint, flags
  <2>2. pc' = "t_clear" BY <1>6, Zenon DEF TracePrint
  <2> QED BY <2>1, <2>2
<1>7. CASE TraceClear BY <1>7 DEF TraceClear
<1>8. CASE TraceEnabled BY <1>8 DEF TraceEnabled, AfterTrace
<1>9. CASE TraceOpen BY <1>9 DEF TraceOpen
<1>10. CASE TraceDump BY <1>10 DEF TraceDump, AfterTrace
<1>11. CASE CheckStop BY <1>11 DEF CheckStop, Leave
<1>12. CASE CheckFinish BY <1>12 DEF CheckFinish, Leave
<1>13. CASE CheckTimeout BY <1>13 DEF CheckTimeout, Leave
<1>14. CASE Final BY <1>14 DEF Final
<1>15. CASE Close BY <1>15 DEF Close
<1>16. CASE PostExec BY <1>16 DEF PostExec
<1>17. CASE PrintView BY <1>17 DEF PrintView
<1>18. CASE Finish BY <1>18 DEF Finish
<1>19. CASE SigInt BY <1>19 DEF SigInt
<1>20. CASE SigUsr1
  <2>1. pc' = pc /\ time' = time /\ lastToggle' = time /\ announced' = announced
    BY <1>20, Zenon DEF SigUsr1, design, output
  <2>2. lostMessage' = (lostMessage \/ pc = "t_clear") BY <1>20, Zenon DEF SigUsr1
  <2>3. tracing_enabled_changed' \/ (tracing_enabled' = tracing_enabled
                                     /\ tracing_enabled_changed' = tracing_enabled_changed)
    BY <1>20, Zenon DEF SigUsr1, TraceOn, TraceOff, TypeOK
  <2>4. ~(lastToggle' < time') BY <2>1
  <2>5. ~lostMessage' => pc # "t_clear" /\ ~lostMessage BY <2>2, Zenon
  <2> QED BY <2>1, <2>3, <2>4, <2>5, Zenon
<1>21. CASE Kill BY <1>21 DEF Kill
<1>22. CASE UNCHANGED vars BY <1>22 DEF vars
<1> QED
  BY <1>1, <1>2, <1>3, <1>4, <1>5, <1>6, <1>7, <1>8, <1>9, <1>10, <1>11,
     <1>12, <1>13, <1>14, <1>15, <1>16, <1>17, <1>18, <1>19, <1>20, <1>21,
     <1>22, NextCases

LEMMA FileNext ==
  ASSUME TypeOK, FileInv, [Next]_vars
  PROVE  FileInv'
<1> USE DEF TypeOK, FileInv, flags, output, toggles
<1>1. CASE RegisterSignalHandler BY <1>1 DEF RegisterSignalHandler
<1>2. CASE StartRun BY <1>2 DEF StartRun
<1>3. CASE Tick BY <1>3 DEF Tick, ToggleClock
<1>4. CASE StopAborts BY <1>4 DEF StopAborts
<1>5. CASE TraceChanged BY <1>5 DEF TraceChanged
<1>6. CASE TracePrint BY <1>6 DEF TracePrint
<1>7. CASE TraceClear BY <1>7 DEF TraceClear
<1>8. CASE TraceEnabled BY <1>8 DEF TraceEnabled, AfterTrace
<1>9. CASE TraceOpen BY <1>9 DEF TraceOpen
<1>10. CASE TraceDump BY <1>10 DEF TraceDump, AfterTrace
<1>11. CASE CheckStop BY <1>11 DEF CheckStop, Leave
<1>12. CASE CheckFinish BY <1>12 DEF CheckFinish, Leave
<1>13. CASE CheckTimeout BY <1>13 DEF CheckTimeout, Leave
<1>14. CASE Final BY <1>14 DEF Final
<1>15. CASE Close BY <1>15 DEF Close
<1>16. CASE PostExec BY <1>16 DEF PostExec
<1>17. CASE PrintView BY <1>17 DEF PrintView
<1>18. CASE Finish BY <1>18 DEF Finish
<1>19. CASE SigInt BY <1>19 DEF SigInt
<1>20. CASE SigUsr1 BY <1>20 DEF SigUsr1, TraceOn, TraceOff
<1>21. CASE Kill BY <1>21 DEF Kill
<1>22. CASE UNCHANGED vars BY <1>22 DEF vars
<1> QED
  BY <1>1, <1>2, <1>3, <1>4, <1>5, <1>6, <1>7, <1>8, <1>9, <1>10, <1>11,
     <1>12, <1>13, <1>14, <1>15, <1>16, <1>17, <1>18, <1>19, <1>20, <1>21,
     <1>22, NextCases

LEMMA StopNext ==
  ASSUME TypeOK, StopInv, [Next]_vars
  PROVE  StopInv'
<1> USE DEF TypeOK, StopInv, StopPrompt, TracePC, design, stopVars
<1>1. CASE RegisterSignalHandler BY <1>1 DEF RegisterSignalHandler
<1>2. CASE StartRun BY <1>2 DEF StartRun, Eval, DesignCalls, RequestStop
<1>3. CASE Tick BY <1>3 DEF Tick, Eval, DesignCalls, RequestStop
<1>4. CASE StopAborts BY <1>4 DEF StopAborts
<1>5. CASE TraceChanged BY <1>5 DEF TraceChanged
<1>6. CASE TracePrint BY <1>6 DEF TracePrint
<1>7. CASE TraceClear BY <1>7 DEF TraceClear
<1>8. CASE TraceEnabled BY <1>8 DEF TraceEnabled, AfterTrace
<1>9. CASE TraceOpen BY <1>9 DEF TraceOpen
<1>10. CASE TraceDump BY <1>10 DEF TraceDump, AfterTrace
<1>11. CASE CheckStop BY <1>11 DEF CheckStop, Leave
<1>12. CASE CheckFinish BY <1>12 DEF CheckFinish, Leave
<1>13. CASE CheckTimeout BY <1>13 DEF CheckTimeout, Leave
<1>14. CASE Final BY <1>14 DEF Final, DesignCalls, RequestStop
<1>15. CASE Close BY <1>15 DEF Close
<1>16. CASE PostExec BY <1>16 DEF PostExec
<1>17. CASE PrintView BY <1>17 DEF PrintView
<1>18. CASE Finish BY <1>18 DEF Finish
<1>19. CASE SigInt BY <1>19 DEF SigInt, RequestStop
<1>20. CASE SigUsr1 BY <1>20 DEF SigUsr1
<1>21. CASE Kill BY <1>21 DEF Kill
<1>22. CASE UNCHANGED vars BY <1>22 DEF vars
<1> QED
  BY <1>1, <1>2, <1>3, <1>4, <1>5, <1>6, <1>7, <1>8, <1>9, <1>10, <1>11,
     <1>12, <1>13, <1>14, <1>15, <1>16, <1>17, <1>18, <1>19, <1>20, <1>21,
     <1>22, NextCases

LEMMA TimeoutNext ==
  ASSUME TypeOK, TimeoutInv, [Next]_vars
  PROVE  TimeoutInv'
<1> USE ConstantsAssumption DEF TypeOK, TimeoutInv, TimeoutExact, TracePC, CheckPC,
        EndPC, design, result
<1>1. CASE RegisterSignalHandler BY <1>1 DEF RegisterSignalHandler
<1>2. CASE StartRun BY <1>2 DEF StartRun
<1>3. CASE Tick BY <1>3 DEF Tick, ToggleClock
<1>4. CASE StopAborts BY <1>4 DEF StopAborts
<1>5. CASE TraceChanged BY <1>5 DEF TraceChanged
<1>6. CASE TracePrint BY <1>6 DEF TracePrint
<1>7. CASE TraceClear BY <1>7 DEF TraceClear
<1>8. CASE TraceEnabled BY <1>8 DEF TraceEnabled, AfterTrace
<1>9. CASE TraceOpen BY <1>9 DEF TraceOpen
<1>10. CASE TraceDump BY <1>10 DEF TraceDump, AfterTrace
<1>11. CASE CheckStop BY <1>11 DEF CheckStop, Leave
<1>12. CASE CheckFinish BY <1>12 DEF CheckFinish, Leave
<1>13. CASE CheckTimeout BY <1>13 DEF CheckTimeout, TimedOut, Leave
<1>14. CASE Final BY <1>14 DEF Final
<1>15. CASE Close BY <1>15 DEF Close
<1>16. CASE PostExec BY <1>16 DEF PostExec
<1>17. CASE PrintView BY <1>17 DEF PrintView
<1>18. CASE Finish BY <1>18 DEF Finish
<1>19. CASE SigInt BY <1>19 DEF SigInt
<1>20. CASE SigUsr1 BY <1>20 DEF SigUsr1
<1>21. CASE Kill BY <1>21 DEF Kill
<1>22. CASE UNCHANGED vars BY <1>22 DEF vars
<1> QED
  BY <1>1, <1>2, <1>3, <1>4, <1>5, <1>6, <1>7, <1>8, <1>9, <1>10, <1>11,
     <1>12, <1>13, <1>14, <1>15, <1>16, <1>17, <1>18, <1>19, <1>20, <1>21,
     <1>22, NextCases

LEMMA ExitNext ==
  ASSUME TypeOK, ExitInv, [Next]_vars
  PROVE  ExitInv'
<1> USE DEF TypeOK, ExitInv, stopVars, result
<1>1. CASE RegisterSignalHandler BY <1>1 DEF RegisterSignalHandler
<1>2. CASE StartRun BY <1>2 DEF StartRun, Eval, DesignCalls, RequestStop
<1>3. CASE Tick BY <1>3 DEF Tick, Eval, DesignCalls, RequestStop
<1>4. CASE StopAborts BY <1>4 DEF StopAborts
<1>5. CASE TraceChanged BY <1>5 DEF TraceChanged
<1>6. CASE TracePrint BY <1>6 DEF TracePrint
<1>7. CASE TraceClear BY <1>7 DEF TraceClear
<1>8. CASE TraceEnabled BY <1>8 DEF TraceEnabled, AfterTrace
<1>9. CASE TraceOpen BY <1>9 DEF TraceOpen
<1>10. CASE TraceDump BY <1>10 DEF TraceDump, AfterTrace
<1>11. CASE CheckStop BY <1>11 DEF CheckStop, Leave
<1>12. CASE CheckFinish BY <1>12 DEF CheckFinish, Leave
<1>13. CASE CheckTimeout BY <1>13 DEF CheckTimeout, Leave
<1>14. CASE Final BY <1>14 DEF Final, DesignCalls, RequestStop
<1>15. CASE Close BY <1>15 DEF Close
<1>16. CASE PostExec BY <1>16 DEF PostExec
<1>17. CASE PrintView BY <1>17 DEF PrintView
<1>18. CASE Finish BY <1>18 DEF Finish
<1>19. CASE SigInt BY <1>19 DEF SigInt, RequestStop, HandlerInstalled, Ended
<1>20. CASE SigUsr1 BY <1>20 DEF SigUsr1, HandlerInstalled, Ended
<1>21. CASE Kill BY <1>21 DEF Kill
<1>22. CASE UNCHANGED vars BY <1>22 DEF vars
<1> QED
  BY <1>1, <1>2, <1>3, <1>4, <1>5, <1>6, <1>7, <1>8, <1>9, <1>10, <1>11,
     <1>12, <1>13, <1>14, <1>15, <1>16, <1>17, <1>18, <1>19, <1>20, <1>21,
     <1>22, NextCases

-----------------------------------------------------------------------------
LEMMA IInvInit ==
  ASSUME Init
  PROVE  IInv /\ ResetInv
<1> USE ConstantsAssumption DEF Init
<1>1. TraceInv BY DEF TraceInv, TraceExact, TracePC
<1>7. MessageInv BY DEF MessageInv, TogglesAnnounced, CheckPC
<1>2. FileInv BY DEF FileInv
<1>3. StopInv BY DEF StopInv, StopPrompt, TracePC
<1>4. TimeoutInv BY DEF TimeoutInv, TimeoutExact
<1>5. ExitInv BY DEF ExitInv
<1>6. ResetInv BY DEF ResetInv, ResetWaveform
<1> QED BY <1>1, <1>2, <1>3, <1>4, <1>5, <1>6, <1>7 DEF IInv

(* IInv holds in every reachable state.                                     *)
THEOREM Invariance == Spec => []IInv
<1>1. Init => IInv BY IInvInit
<1>2. TypeOK /\ TimesOK /\ IInv /\ [Next]_vars => IInv'
  BY TraceNext, MessageNext, FileNext, StopNext, TimeoutNext, ExitNext DEF IInv
<1> QED BY <1>1, <1>2, TypeCorrect, PTL DEF Spec

(* For every delay, every duration of at least one cycle and both           *)
(* polarities, the main loop asserts reset in exactly the clock cycles that *)
(* SetInitialResetDelay() and SetResetDuration() ask for.                   *)
THEOREM ResetCorrect ==
  ASSUME ResetDuration # 0
  PROVE  Spec => []ResetWaveform
<1>1. Init => ResetInv BY IInvInit
<1>2. TypeOK /\ ResetInv /\ [Next]_vars => ResetInv' BY ResetNext
<1>3. ResetInv => ResetWaveform BY DEF ResetInv
<1> QED BY <1>1, <1>2, <1>3, TypeCorrect, PTL DEF Spec

(* At every tick in which SIGUSR1 does not arrive, the trace file gets a    *)
(* sample exactly if tracing is on, wherever it arrived before.             *)
THEOREM TraceIsExact == Spec => []TraceExact
<1>1. IInv => TraceExact BY DEF IInv, TraceInv
<1> QED BY <1>1, Invariance, PTL

(* The messages about tracing tell its state, unless SIGUSR1 arrives        *)
(* between the read of the state and the clear of the flag in Trace().      *)
THEOREM TogglesAreAnnounced == Spec => []TogglesAnnounced
<1>1. IInv => TogglesAnnounced BY DEF IInv, MessageInv
<1> QED BY <1>1, Invariance, PTL

(* A run that ends in an orderly way leaves no trace file open, and tells   *)
(* the user of the file it wrote.                                           *)
THEOREM TraceIsClosed == Spec => []TraceClosed
<1>1. TypeOK /\ IInv => TraceClosed BY DEF TypeOK, IInv, FileInv, TraceClosed
<1> QED BY <1>1, TypeCorrect, Invariance, PTL

(* At most one eval() is begun after a stop was requested, or two if the    *)
(* request came before the initial one.                                     *)
THEOREM StopIsPrompt == Spec => []StopPrompt
<1>1. IInv => StopPrompt BY DEF IInv, StopInv
<1> QED BY <1>1, Invariance, PTL

(* For every timeout: it is never overrun, and hit after exactly that many  *)
(* clock cycles.                                                            *)
THEOREM TimeoutIsExact == Spec => []TimeoutExact
<1>1. IInv => TimeoutExact BY DEF IInv, TimeoutInv
<1> QED BY <1>1, Invariance, PTL

(* main() returns 1 exactly if a failing stop was requested.                *)
THEOREM ExitCodeIsHonest == Spec => []ExitCodeHonest
<1>1. IInv => ExitCodeHonest BY DEF IInv, ExitInv, ExitCodeHonest
<1> QED BY <1>1, Invariance, PTL
=============================================================================
