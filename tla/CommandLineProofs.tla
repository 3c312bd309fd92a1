------------------------- MODULE CommandLineProofs -------------------------
(***************************************************************************)
(* What the two parsers of the command line make of it, for every command  *)
(* line of every length.                                                   *)
(***************************************************************************)
EXTENDS CommandLine, SequenceTheorems, TLAPS

(***************************************************************************)
(* The inductive invariant: what is known of the first n options after the *)
(* controller, and after the extension, has looked at them.                *)
(***************************************************************************)
Among(n, os) == \E k \in 1..n : opts[k] \in os

(* The controller has met nothing wrong, and remembers what it is for.      *)
CtrlSaw(n) ==
  /\ good
  /\ ~Among(n, BadTimeouts)
  /\ exit_app <=> Among(n, Helps)
  /\ tracing <=> Among(n, Traces)
  /\ TermOf(n)

(* The extension has met nothing that ends it.                              *)
ExtSaw(n) ==
  /\ ~Among(n, {"list", "meminit_bad", "missing_m", "help"})
  /\ Lists(load_args, {k \in 1..n : opts[k] \in Images})

(* The images up to the next one have been loaded.                          *)
LoadedUpTo(n) ==
  /\ Len(loaded) = n
  /\ \A j \in 1..n : loaded[j] = load_args[j]

ParseInv ==
  /\ pc = "ctrl" => /\ i \in 1..(Len(opts) + 1)
                    /\ CtrlSaw(i - 1)
                    /\ load_args = <<>> /\ loaded = <<>>
  /\ pc = "ext" =>  /\ i \in 1..(Len(opts) + 1)
                    /\ CtrlSaw(Len(opts)) /\ ExtSaw(i - 1)
                    /\ Len(load_args) < i
                    /\ loaded = <<>>
  /\ pc = "load" => /\ i \in 1..(Len(load_args) + 1)
                    /\ Len(load_args) <= Len(opts)
                    /\ CtrlSaw(Len(opts)) /\ ExtSaw(Len(opts))
                    /\ LoadedUpTo(i - 1)

(* ParseCommandArgs() has returned.                                         *)
ReturnInv ==
  /\ pc \in {"setup_done", "run"} /\ ~exit_app =>
       /\ CtrlSaw(Len(opts)) /\ ExtSaw(Len(opts))
       /\ loaded = load_args
  /\ pc = "setup_done" /\ exit_app /\ good =>
       /\ Among(Len(opts), Helps) \/ Among(Len(opts), {"list"})
       /\ loaded = <<>> \/ Given("attached_h")
  /\ pc = "run" => ~exit_app

IInv == TypeOK /\ ParseInv /\ ReturnInv

-----------------------------------------------------------------------------
(***************************************************************************)
(* Bounded sequences, and lists that grow.                                 *)
(***************************************************************************)
LEMMA BoundedSeqs ==
  ASSUME NEW S, NEW n \in Nat
  PROVE  \A s : s \in BoundedSeq(S, n) <=> s \in Seq(S) /\ Len(s) <= n
<1>1. ASSUME NEW s, s \in BoundedSeq(S, n) PROVE s \in Seq(S) /\ Len(s) <= n
  <2>1. PICK m \in 0..n : s \in [1..m -> S] BY <1>1, Zenon DEF BoundedSeq, SeqOf
  <2>2. m \in Nat /\ m <= n OBVIOUS
  <2>3. s \in Seq(S) BY <2>1, <2>2, SeqDef
  <2>4. Len(s) = m BY <2>1, <2>2, <2>3, LenProperties
  <2> QED BY <2>2, <2>3, <2>4
<1>2. ASSUME NEW s, s \in Seq(S), Len(s) <= n PROVE s \in BoundedSeq(S, n)
  <2>1. Len(s) \in 0..n /\ s \in [1..Len(s) -> S] BY <1>2, LenProperties
  <2> QED BY <2>1, Zenon DEF BoundedSeq, SeqOf
<1> QED BY <1>1, <1>2

(* The types, in a form that is easier to use.                              *)
LEMMA Types ==
  ASSUME TypeOK
  PROVE  /\ opts \in Seq(Options) /\ Len(opts) \in 0..MaxOptions
         /\ load_args \in Seq(1..MaxOptions) /\ Len(load_args) \in 0..MaxOptions
         /\ loaded \in Seq(1..MaxOptions) /\ Len(loaded) \in 0..MaxOptions
         /\ MaxOptions \in Nat /\ i \in Nat
<1>1. MaxOptions \in Nat BY CommandLineAssumption
<1>2. opts \in Seq(Options) /\ Len(opts) <= MaxOptions
  BY <1>1, BoundedSeqs DEF TypeOK
<1>3. load_args \in Seq(1..MaxOptions) /\ Len(load_args) <= MaxOptions
  BY <1>1, BoundedSeqs DEF TypeOK
<1>4. loaded \in Seq(1..MaxOptions) /\ Len(loaded) <= MaxOptions
  BY <1>1, BoundedSeqs DEF TypeOK
<1>5. Len(opts) \in Nat /\ Len(load_args) \in Nat /\ Len(loaded) \in Nat
  BY <1>2, <1>3, <1>4, LenProperties
<1> QED BY <1>1, <1>2, <1>3, <1>4, <1>5 DEF TypeOK

(* A number above all others is put at the end of the list.                 *)
LEMMA ListsAppend ==
  ASSUME NEW n \in Nat, NEW s \in Seq(Nat), NEW set \in SUBSET (1..(n - 1)), Lists(s, set)
  PROVE  Lists(Append(s, n), set \cup {n})
<1> DEFINE t == Append(s, n)
<1>1. /\ Len(s) \in Nat /\ Len(t) = Len(s) + 1
      /\ \A j \in 1..Len(s) : t[j] = s[j] /\ s[j] \in Nat
      /\ t[Len(s) + 1] = n
  BY AppendProperties, LenProperties, ElementOfSeq
<1> HIDE DEF t
<1>2. \A j \in 1..Len(s) : s[j] < n BY <1>1 DEF Lists
<1>3. {t[j] : j \in 1..Len(t)} = set \cup {n}
  <2>1. {s[j] : j \in 1..Len(s)} = set BY DEF Lists
  <2>2. ASSUME NEW j \in 1..Len(t) PROVE t[j] \in set \cup {n} BY <1>1, <2>1
  <2>3. ASSUME NEW k \in set \cup {n} PROVE \E j \in 1..Len(t) : t[j] = k
    <3>1. CASE k \in set
      <4>1. PICK j \in 1..Len(s) : s[j] = k BY <2>1, <3>1
      <4> QED BY <1>1, <4>1
    <3>2. CASE k = n BY <1>1, <3>2
    <3> QED BY <3>1, <3>2
  <2> QED BY <2>2, <2>3
<1>4. ASSUME NEW j \in 1..Len(t), NEW k \in 1..Len(t), j < k
      PROVE  t[j] < t[k]
  <2>1. j \in 1..Len(s) BY <1>1, <1>4
  <2>2. CASE k \in 1..Len(s)
    <3>1. s[j] < s[k] BY <1>4, <2>1, <2>2 DEF Lists
    <3> QED BY <1>1, <2>1, <2>2, <3>1
  <2>3. CASE k = Len(s) + 1 BY <1>1, <1>2, <2>1, <2>3
  <2> QED BY <1>1, <2>2, <2>3
<1>5. Lists(t, set \cup {n}) BY <1>3, <1>4 DEF Lists
<1> QED BY <1>5 DEF t

(* The empty list.                                                          *)
LEMMA ListsEmpty == Lists(<<>>, {})
BY EmptySeq DEF Lists

(* One more option.                                                         *)
LEMMA AmongNext ==
  ASSUME NEW n \in Nat \ {0}, NEW os
  PROVE  Among(n, os) <=> Among(n - 1, os) \/ opts[n] \in os
BY DEF Among

-----------------------------------------------------------------------------
(***************************************************************************)
(* The steps.                                                              *)
(***************************************************************************)
LEMMA InitInv == Init => IInv
<1> SUFFICES ASSUME Init PROVE IInv OBVIOUS
<1>1. MaxOptions \in Nat BY CommandLineAssumption
<1>2. /\ opts \in BoundedSeq(Options, MaxOptions)
      /\ tracing_possible \in BOOLEAN
      /\ exit_app = FALSE /\ good = TRUE /\ tracing = FALSE
  BY Zenon DEF Init
<1>3. /\ pc = "ctrl" /\ i = 1 /\ term = 0 /\ retcode = -1
      /\ load_args = <<>> /\ loaded = <<>>
  BY DEF Init
<1>4. <<>> \in BoundedSeq(1..MaxOptions, MaxOptions)
  <2>1. <<>> \in Seq(1..MaxOptions) /\ Len(<<>>) <= MaxOptions BY <1>1, EmptySeq
  <2> QED BY <1>1, <2>1, BoundedSeqs
<1>5. TypeOK
  <2>1. exit_app \in BOOLEAN /\ good \in BOOLEAN /\ tracing \in BOOLEAN BY <1>2, Zenon
  <2> QED BY <1>1, <1>2, <1>3, <1>4, <2>1 DEF TypeOK
<1>6. Len(opts) \in Nat BY <1>5, Types
<1>7. CtrlSaw(0) BY <1>2, <1>3 DEF CtrlSaw, Among, TermOf
<1>8. ParseInv BY <1>3, <1>6, <1>7 DEF ParseInv
<1>9. ReturnInv BY <1>3 DEF ReturnInv
<1> QED BY <1>5, <1>8, <1>9 DEF IInv

(* The controller looks at an option.                                       *)
LEMMA CtrlStep == ASSUME IInv, CtrlOption PROVE IInv'
<1> USE DEF IInv
<1>1. /\ pc = "ctrl" /\ i \in 1..Len(opts) /\ i' = i + 1
      /\ UNCHANGED <<opts, tracing_possible, load_args, loaded, retcode>>
  <2>1. /\ pc = "ctrl" /\ i <= Len(opts) /\ i' = i + 1
        /\ UNCHANGED <<opts, tracing_possible, load_args, loaded, retcode>>
    BY DEF CtrlOption
  <2> QED BY <2>1, Types DEF ParseInv
<1>2. Len(opts) \in 0..MaxOptions /\ MaxOptions \in Nat BY Types
<1>3. CtrlSaw(i - 1) /\ load_args = <<>> /\ loaded = <<>> BY <1>1 DEF ParseInv
<1>4. exit_app \in BOOLEAN /\ good \in BOOLEAN /\ tracing \in BOOLEAN /\ term \in 0..2
  BY DEF TypeOK
<1>5. CASE Return(TRUE, FALSE) /\ UNCHANGED <<tracing, term>>
  <2>1. exit_app' = TRUE /\ good' = FALSE /\ pc' = "setup_done"
    BY <1>5 DEF Return
  <2>2. exit_app' \in BOOLEAN /\ good' \in BOOLEAN BY <2>1, Zenon
  <2>3. TypeOK' BY <1>1, <1>2, <1>5, <2>1, <2>2 DEF TypeOK
  <2> QED BY <2>1, <2>3 DEF ParseInv, ReturnInv
<1>6. ASSUME pc' = pc, good' = good,
             exit_app' \in BOOLEAN, tracing' \in BOOLEAN, term' \in 0..2,
             opts[i] \notin BadTimeouts,
             exit_app' <=> exit_app \/ opts[i] \in Helps,
             tracing' <=> tracing \/ opts[i] \in Traces,
             IF opts[i] \in Timeouts
             THEN term' = TimeoutOf(opts[i])
             ELSE term' = term
      PROVE  IInv'
  <2>1. TypeOK' BY <1>1, <1>2, <1>6 DEF TypeOK
  <2>2. \A os : Among(i, os) <=> Among(i - 1, os) \/ opts[i] \in os
    BY <1>1, <1>2, AmongNext
  <2>3. \A os : Among(i - 1, os)' <=> Among(i, os) BY <1>1, <1>2 DEF Among
  <2>4. /\ good' /\ ~Among(i, BadTimeouts)
        /\ exit_app' <=> Among(i, Helps)
        /\ tracing' <=> Among(i, Traces)
    BY <1>3, <1>6, <2>2 DEF CtrlSaw
  <2>5. TermOf(i - 1)'
    <3>1. TermOf(i - 1) /\ i' - 1 = i /\ i \in Nat /\ opts' = opts
      BY <1>1, <1>2, <1>3 DEF CtrlSaw
    <3>2. CASE opts[i] \in Timeouts BY <1>1, <1>6, <3>1, <3>2 DEF TermOf
    <3>3. CASE opts[i] \notin Timeouts /\ \A k \in 1..(i - 1) : opts[k] \notin Timeouts
      BY <1>1, <1>6, <3>1, <3>3 DEF TermOf
    <3>4. ASSUME opts[i] \notin Timeouts,
                 NEW k \in 1..(i - 1), opts[k] \in Timeouts,
                 \A j \in (k + 1)..(i - 1) : opts[j] \notin Timeouts,
                 term = TimeoutOf(opts[k])
          PROVE  TermOf(i - 1)'
      <4>1. k \in 1..i /\ \A j \in (k + 1)..i : opts[j] \notin Timeouts
        BY <3>1, <3>4
      <4>2. term' = term BY <1>6, <3>4
      <4> QED BY <3>1, <3>4, <4>1, <4>2 DEF TermOf
    <3> QED BY <3>1, <3>2, <3>3, <3>4 DEF TermOf
  <2>6. CtrlSaw(i - 1)' BY <2>3, <2>4, <2>5 DEF CtrlSaw
  <2>7. ParseInv' BY <1>1, <1>2, <1>3, <1>6, <2>6 DEF ParseInv
  <2>8. ReturnInv' BY <1>1, <1>6 DEF ReturnInv
  <2> QED BY <2>1, <2>7, <2>8
<1>7. Traces \cap (Helps \cup Timeouts \cup BadTimeouts) = {}
      /\ Helps \cap (Timeouts \cup BadTimeouts) = {} /\ Timeouts \cap BadTimeouts = {}
  BY DEF Traces, Helps, Timeouts, BadTimeouts
<1>8. TimeoutOf(opts[i]) \in 0..2 BY DEF TimeoutOf
<1>9. CASE opts[i] \in Traces /\ tracing' = TRUE /\ UNCHANGED <<pc, exit_app, good, term>>
  BY <1>4, <1>6, <1>7, <1>9
<1>10. CASE /\ opts[i] \in Timeouts /\ term' = TimeoutOf(opts[i])
            /\ UNCHANGED <<pc, exit_app, good, tracing>>
  BY <1>4, <1>6, <1>7, <1>8, <1>10
<1>11. CASE opts[i] \in Helps /\ exit_app' = TRUE /\ UNCHANGED <<pc, good, tracing, term>>
  BY <1>4, <1>6, <1>7, <1>11
<1>12. CASE /\ opts[i] \notin Traces \cup Timeouts \cup BadTimeouts \cup Helps
            /\ Unrecognized
  BY <1>4, <1>6, <1>12 DEF Unrecognized
<1> QED BY <1>5, <1>9, <1>10, <1>11, <1>12 DEF CtrlOption

(* optind is set back, and the extension begins.                            *)
LEMMA CtrlEndStep == ASSUME IInv, CtrlEnd PROVE IInv'
<1> USE DEF IInv
<1>1. /\ pc = "ctrl" /\ i = Len(opts) + 1 /\ pc' = "ext" /\ i' = 1
      /\ UNCHANGED <<opts, tracing_possible, exit_app, good, tracing, term, load_args, loaded, retcode>>
  BY Types DEF CtrlEnd, ResetOptind, ParseInv
<1>2. Len(opts) \in 0..MaxOptions /\ MaxOptions \in Nat BY Types
<1>3. CtrlSaw(Len(opts)) /\ load_args = <<>> /\ loaded = <<>>
  BY <1>1, <1>2 DEF ParseInv
<1>4. TypeOK' BY <1>1, <1>2 DEF TypeOK
<1>5. CtrlSaw(Len(opts))' BY <1>1, <1>3 DEF CtrlSaw, Among, TermOf
<1>6. ExtSaw(i - 1)'
  <2>1. {k \in 1..(i' - 1) : opts'[k] \in Images} = {} BY <1>1
  <2> QED BY <1>1, <1>3, <2>1, ListsEmpty DEF ExtSaw, Among, Lists
<1>7. ParseInv' BY <1>1, <1>2, <1>3, <1>5, <1>6 DEF ParseInv
<1>8. ReturnInv' BY <1>1 DEF ReturnInv
<1> QED BY <1>4, <1>7, <1>8

(* What the controller saw does not change afterwards.                      *)
LEMMA CtrlSawKept ==
  ASSUME CtrlSaw(Len(opts)), UNCHANGED <<opts, exit_app, good, tracing, term>>
  PROVE  CtrlSaw(Len(opts))'
BY DEF CtrlSaw, Among, TermOf

(* The extension looks at an option.                                        *)
LEMMA ExtStep == ASSUME IInv, ExtOption PROVE IInv'
<1> USE DEF IInv
<1>1. /\ pc = "ext" /\ i \in 1..Len(opts) /\ i' = i + 1
      /\ UNCHANGED <<opts, tracing_possible, tracing, term, loaded, retcode>>
  <2>1. /\ pc = "ext" /\ i <= Len(opts) /\ i' = i + 1
        /\ UNCHANGED <<opts, tracing_possible, tracing, term, loaded, retcode>>
    BY DEF ExtOption
  <2> QED BY <2>1, Types DEF ParseInv
<1>2. /\ Len(opts) \in 0..MaxOptions /\ MaxOptions \in Nat
      /\ load_args \in Seq(1..MaxOptions) /\ Len(load_args) \in Nat
  BY Types
<1>3. CtrlSaw(Len(opts)) /\ ExtSaw(i - 1) /\ Len(load_args) < i /\ loaded = <<>>
  BY <1>1 DEF ParseInv
<1>4. exit_app \in BOOLEAN /\ good \in BOOLEAN BY DEF TypeOK
<1>5. \A os : Among(i, os) <=> Among(i - 1, os) \/ opts[i] \in os
  BY <1>1, <1>2, AmongNext
<1>6. \A os : Among(i - 1, os)' <=> Among(i, os) BY <1>1, <1>2 DEF Among
<1>7. CASE AddLoadArg /\ opts[i] \in Images /\ UNCHANGED <<pc, exit_app, good>>
  <2>1. load_args' = Append(load_args, i) BY <1>7 DEF AddLoadArg
  <2>2. i \in 1..MaxOptions BY <1>1, <1>2
  <2>3. load_args' \in Seq(1..MaxOptions) /\ Len(load_args') = Len(load_args) + 1
    BY <1>2, <2>1, <2>2, AppendProperties
  <2>4. load_args' \in BoundedSeq(1..MaxOptions, MaxOptions)
    <3>1. Len(load_args') <= MaxOptions BY <1>1, <1>2, <1>3, <2>3
    <3> QED BY <1>2, <2>3, <3>1, BoundedSeqs
  <2>5. TypeOK' BY <1>1, <1>2, <1>7, <2>4 DEF TypeOK
  <2>6. ExtSaw(i - 1)'
    <3> DEFINE Set(n) == {k \in 1..n : opts[k] \in Images}
    <3>1. Lists(load_args, Set(i - 1)) BY <1>3 DEF ExtSaw
    <3>2. Set(i - 1) \in SUBSET (1..(i - 1)) /\ i \in Nat BY <1>1, <1>2
    <3>3. load_args \in Seq(Nat) BY <1>2, SeqMonotonic
    <3>4. Lists(Append(load_args, i), Set(i - 1) \cup {i})
      BY <3>1, <3>2, <3>3, ListsAppend
    <3>5. Set(i - 1) \cup {i} = {k \in 1..(i' - 1) : opts'[k] \in Images}
      BY <1>1, <1>2, <1>7
    <3>6. ~Among(i - 1, {"list", "meminit_bad", "missing_m", "help"})'
      BY <1>3, <1>5, <1>6, <1>7 DEF ExtSaw, Images
    <3> HIDE DEF Set
    <3> QED BY <2>1, <3>4, <3>5, <3>6 DEF ExtSaw, Lists
  <2>7. CtrlSaw(Len(opts))' BY <1>1, <1>3, <1>7, CtrlSawKept
  <2>8. ParseInv' BY <1>1, <1>2, <1>3, <1>7, <2>3, <2>6, <2>7 DEF ParseInv
  <2> QED BY <1>1, <1>7, <2>5, <2>8 DEF ReturnInv
<1>8. CASE /\ opts[i] \notin Images \cup {"list", "meminit_bad", "missing_m", "help"}
           /\ UNCHANGED <<pc, exit_app, good, load_args>>
  <2>1. TypeOK' BY <1>1, <1>2, <1>8 DEF TypeOK
  <2>2. ExtSaw(i - 1)'
    <3>1. {k \in 1..(i - 1) : opts[k] \in Images} =
            {k \in 1..(i' - 1) : opts'[k] \in Images}
      BY <1>1, <1>2, <1>8
    <3>2. ~Among(i - 1, {"list", "meminit_bad", "missing_m", "help"})' BY <1>3, <1>5, <1>6, <1>8 DEF ExtSaw
    <3> QED BY <1>3, <1>8, <3>1, <3>2 DEF ExtSaw, Lists
  <2>3. CtrlSaw(Len(opts))' BY <1>1, <1>3, <1>8, CtrlSawKept
  <2>4. ParseInv' BY <1>1, <1>2, <1>3, <1>8, <2>2, <2>3 DEF ParseInv
  <2> QED BY <1>1, <1>8, <2>1, <2>4 DEF ReturnInv
<1>9. CASE /\ opts[i] \in {"meminit_bad", "missing_m"}
           /\ Return(TRUE, FALSE) /\ UNCHANGED load_args
  <2>1. exit_app' = TRUE /\ good' = FALSE /\ pc' = "setup_done" BY <1>9 DEF Return
  <2>2. exit_app' \in BOOLEAN /\ good' \in BOOLEAN BY <2>1, Zenon
  <2>3. TypeOK' BY <1>1, <1>2, <1>9, <2>1, <2>2 DEF TypeOK
  <2> QED BY <2>1, <2>3 DEF ParseInv, ReturnInv
<1>10. CASE /\ opts[i] \in {"list", "help"}
            /\ Return(opts[i] = "list" \/ exit_app, TRUE) /\ UNCHANGED load_args
  <2>1. good' = TRUE /\ pc' = "setup_done" /\ (exit_app' <=> (opts[i] = "list" \/ exit_app))
        /\ exit_app' \in BOOLEAN
    BY <1>10 DEF Return
  <2>2. good' \in BOOLEAN BY <2>1, Zenon
  <2>3. TypeOK' BY <1>1, <1>2, <1>10, <2>1, <2>2 DEF TypeOK
  <2>4. Among(Len(opts), {opts[i]}) BY <1>1 DEF Among
  <2>5. exit_app'
    <3>1. CASE opts[i] = "list" BY <2>1, <3>1
    <3>2. CASE opts[i] = "help"
      <4>1. Among(Len(opts), Helps) BY <1>1, <3>2 DEF Among, Helps
      <4> QED BY <1>3, <2>1, <4>1 DEF CtrlSaw
    <3> QED BY <1>10, <3>1, <3>2
  <2>6. (Among(Len(opts), Helps) \/ Among(Len(opts), {"list"}))'
    BY <1>1, <1>10, <2>4 DEF Among, Helps
  <2>7. ReturnInv' BY <1>1, <1>3, <2>1, <2>5, <2>6 DEF ReturnInv
  <2> QED BY <2>1, <2>3, <2>7 DEF ParseInv
<1>11. CASE opts[i] = "list" /\ Return(TRUE, TRUE) /\ UNCHANGED load_args
  <2>1. exit_app' = (opts[i] = "list" \/ exit_app) BY <1>11, Zenon DEF Return
  <2> QED BY <1>10, <1>11, <2>1 DEF Return
<1>12. CASE opts[i] = "help" /\ Return(exit_app, TRUE) /\ UNCHANGED load_args
  <2>1. exit_app' = (opts[i] = "list" \/ exit_app) BY <1>4, <1>12 DEF Return
  <2> QED BY <1>10, <1>12, <2>1 DEF Return
<1> QED BY <1>7, <1>8, <1>9, <1>11, <1>12 DEF ExtOption, ExtHelp

(* All options have been looked at twice; the images are next.              *)
LEMMA ExtEndStep == ASSUME IInv, ExtEnd PROVE IInv'
<1> USE DEF IInv
<1>1. /\ pc = "ext" /\ i = Len(opts) + 1 /\ pc' = "load" /\ i' = 1
      /\ UNCHANGED <<opts, tracing_possible, exit_app, good, tracing, term, load_args, loaded, retcode>>
  BY Types DEF ExtEnd, ParseInv
<1>2. /\ Len(opts) \in 0..MaxOptions /\ MaxOptions \in Nat /\ Len(load_args) \in Nat
  BY Types
<1>3. CtrlSaw(Len(opts)) /\ ExtSaw(Len(opts)) /\ Len(load_args) <= Len(opts) /\ loaded = <<>>
  BY <1>1, <1>2 DEF ParseInv
<1>4. TypeOK' BY <1>1, <1>2 DEF TypeOK
<1>5. CtrlSaw(Len(opts))' BY <1>1, <1>3, CtrlSawKept
<1>6. ExtSaw(Len(opts))' BY <1>1, <1>3 DEF ExtSaw, Among, Lists
<1>7. LoadedUpTo(i - 1)' BY <1>1, <1>3, EmptySeq DEF LoadedUpTo
<1>8. ParseInv' BY <1>1, <1>2, <1>3, <1>5, <1>6, <1>7 DEF ParseInv
<1> QED BY <1>1, <1>4, <1>8 DEF ReturnInv

(* An image is loaded, or fails.                                            *)
LEMMA LoadStep == ASSUME IInv, LoadImage PROVE IInv'
<1> USE DEF IInv
<1>1. /\ pc = "load" /\ i \in 1..Len(load_args) /\ i' = i + 1
      /\ UNCHANGED <<opts, tracing_possible, tracing, term, load_args, retcode>>
  <2>1. /\ pc = "load" /\ i <= Len(load_args) /\ i' = i + 1
        /\ UNCHANGED <<opts, tracing_possible, tracing, term, load_args, retcode>>
    BY DEF LoadImage
  <2> QED BY <2>1, Types DEF ParseInv
<1>2. /\ Len(opts) \in 0..MaxOptions /\ MaxOptions \in Nat
      /\ load_args \in Seq(1..MaxOptions) /\ Len(load_args) \in Nat
      /\ loaded \in Seq(1..MaxOptions) /\ Len(loaded) \in Nat
  BY Types
<1>3. /\ CtrlSaw(Len(opts)) /\ ExtSaw(Len(opts)) /\ Len(load_args) <= Len(opts)
      /\ LoadedUpTo(i - 1)
  BY <1>1 DEF ParseInv
<1>4. CASE loaded' = Append(loaded, load_args[i]) /\ UNCHANGED <<pc, exit_app, good>>
  <2>1. load_args[i] \in 1..MaxOptions BY <1>1, <1>2, ElementOfSeq
  <2>2. /\ loaded' \in Seq(1..MaxOptions) /\ Len(loaded') = Len(loaded) + 1
        /\ \A j \in 1..Len(loaded) : loaded'[j] = loaded[j]
        /\ loaded'[Len(loaded) + 1] = load_args[i]
    BY <1>2, <1>4, <2>1, AppendProperties
  <2>3. LoadedUpTo(i - 1)' BY <1>1, <1>2, <1>3, <2>2 DEF LoadedUpTo
  <2>4. loaded' \in BoundedSeq(1..MaxOptions, MaxOptions)
    <3>1. Len(loaded') <= MaxOptions BY <1>1, <1>2, <1>3, <2>2 DEF LoadedUpTo
    <3> QED BY <1>2, <2>2, <3>1, BoundedSeqs
  <2>5. TypeOK' BY <1>1, <1>2, <1>3, <1>4, <2>4 DEF TypeOK
  <2>6. CtrlSaw(Len(opts))' BY <1>1, <1>3, <1>4, CtrlSawKept
  <2>7. ExtSaw(Len(opts))' BY <1>1, <1>3 DEF ExtSaw, Among, Lists
  <2>8. ParseInv' BY <1>1, <1>2, <1>3, <1>4, <2>3, <2>6, <2>7 DEF ParseInv
  <2> QED BY <1>1, <1>4, <2>5, <2>8 DEF ReturnInv
<1>5. CASE LoadFails /\ UNCHANGED loaded
  <2>1. exit_app' = TRUE /\ good' = FALSE /\ pc' = "setup_done"
    BY <1>5 DEF LoadFails, Return
  <2>2. exit_app' \in BOOLEAN /\ good' \in BOOLEAN BY <2>1, Zenon
  <2>3. TypeOK' BY <1>1, <1>2, <1>3, <1>5, <2>1, <2>2 DEF TypeOK
  <2> QED BY <2>1, <2>3 DEF ParseInv, ReturnInv
<1> QED BY <1>4, <1>5 DEF LoadImage

(* All images are loaded: those that the command line asks for.             *)
LEMMA LoadEndStep == ASSUME IInv, LoadEnd PROVE IInv'
<1> USE DEF IInv
<1>1. /\ pc = "load" /\ i = Len(load_args) + 1 /\ pc' = "setup_done"
      /\ good' = TRUE /\ exit_app' = exit_app
      /\ UNCHANGED <<opts, tracing_possible, i, tracing, term, load_args, loaded, retcode>>
  BY Types DEF LoadEnd, Return, ParseInv
<1>2. /\ Len(opts) \in Nat /\ Len(load_args) \in Nat
      /\ load_args \in Seq(1..MaxOptions) /\ loaded \in Seq(1..MaxOptions)
  BY Types
<1>3. CtrlSaw(Len(opts)) /\ ExtSaw(Len(opts)) /\ LoadedUpTo(i - 1)
  BY <1>1 DEF ParseInv
<1>4. loaded = load_args
  <2>1. Len(loaded) = Len(load_args) /\ \A j \in 1..Len(loaded) : loaded[j] = load_args[j]
    BY <1>1, <1>2, <1>3 DEF LoadedUpTo
  <2> QED BY <1>2, <2>1, SeqEqual
<1>5. good' \in BOOLEAN BY <1>1, Zenon
<1>6. TypeOK' BY <1>1, <1>5 DEF TypeOK
<1>7. good' = good
  <2>1. good /\ good \in BOOLEAN BY <1>3 DEF CtrlSaw, TypeOK
  <2> QED BY <1>1, <2>1
<1>8. CtrlSaw(Len(opts))' BY <1>1, <1>3, <1>7, CtrlSawKept
<1>9. ExtSaw(Len(opts))' BY <1>1, <1>3 DEF ExtSaw, Among, Lists
<1>10. ASSUME exit_app' PROVE Given("attached_h") /\ Among(Len(opts), Helps)
  <2>1. Among(Len(opts), Helps) BY <1>1, <1>3, <1>10 DEF CtrlSaw
  <2>2. ~Among(Len(opts), {"list", "meminit_bad", "missing_m", "help"})
    BY <1>3 DEF ExtSaw
  <2> QED BY <2>1, <2>2 DEF Among, Given, Helps
<1>11. ReturnInv' BY <1>1, <1>4, <1>8, <1>9, <1>10 DEF ReturnInv, Among, Given
<1> QED BY <1>1, <1>6, <1>11 DEF ParseInv

(* Main() exits, or runs the simulation to its end.                         *)
LEMMA MainStep == ASSUME IInv, MainExits \/ MainRuns \/ RunEnds PROVE IInv'
<1> USE DEF IInv
<1>1. UNCHANGED <<opts, tracing_possible, i, exit_app, good, tracing, term, load_args, loaded>>
  BY DEF MainExits, MainRuns, RunEnds
<1>2. retcode' \in {-1, 0, 1} BY DEF TypeOK, MainExits, MainRuns, RunEnds
<1>3. pc' \in {"run", "done"} /\ (pc' = "run" => pc = "setup_done" /\ ~exit_app)
  BY DEF MainExits, MainRuns, RunEnds
<1>4. TypeOK' BY <1>1, <1>2, <1>3 DEF TypeOK
<1>5. ParseInv' BY <1>3 DEF ParseInv
<1>6. ReturnInv'
  <2>1. CASE pc' = "done" BY <2>1 DEF ReturnInv
  <2>2. CASE pc' = "run"
    <3>1. CtrlSaw(Len(opts)) /\ ExtSaw(Len(opts)) /\ loaded = load_args /\ ~exit_app
      BY <1>3, <2>2 DEF ReturnInv
    <3>2. CtrlSaw(Len(opts))' BY <1>1, <3>1, CtrlSawKept
    <3>3. ExtSaw(Len(opts))' BY <1>1, <3>1 DEF ExtSaw, Among, Lists
    <3> QED BY <1>1, <2>2, <3>1, <3>2, <3>3 DEF ReturnInv
  <2> QED BY <1>3, <2>1, <2>2
<1> QED BY <1>4, <1>5, <1>6

-----------------------------------------------------------------------------
(* What the two parsers know is inductive.                                  *)
THEOREM Inductive == Spec => []IInv
<1>1. Init => IInv BY InitInv
<1>2. IInv /\ [Next]_vars => IInv'
  <2> SUFFICES ASSUME IInv, [Next]_vars PROVE IInv' OBVIOUS
  <2>1. CASE UNCHANGED vars
    BY <2>1
    DEF IInv, TypeOK, ParseInv, ReturnInv, CtrlSaw, ExtSaw, LoadedUpTo, Among, TermOf,
        Lists, Given, vars
  <2>2. CASE Next
    BY <2>1, <2>2, CtrlStep, CtrlEndStep, ExtStep, ExtEndStep, LoadStep, LoadEndStep,
       MainStep DEF Next, Done
  <2> QED BY <2>1, <2>2
<1> QED BY <1>1, <1>2, PTL DEF Spec

(* Every variable keeps its type; the lists of images are not longer than   *)
(* the command line.                                                        *)
THEOREM TypeCorrect == Spec => []TypeOK
<1>1. IInv => TypeOK BY DEF IInv
<1> QED BY <1>1, Inductive, PTL

(* SimpleSystem::Main() runs a simulation only as the command line asks.    *)
THEOREM RunAsAsked == Spec => []RunsAsAsked
<1>1. IInv => RunsAsAsked
  <2> SUFFICES ASSUME IInv, pc = "run" PROVE RunsAsAsked BY DEF RunsAsAsked
  <2>1. /\ CtrlSaw(Len(opts)) /\ ExtSaw(Len(opts))
        /\ loaded = load_args /\ ~exit_app
    BY DEF IInv, ReturnInv
  <2>2. \A o \in BadTimeouts \cup Helps \cup {"meminit_bad", "missing_m", "list"} : ~Given(o)
    BY <2>1 DEF CtrlSaw, ExtSaw, Among, Given
  <2>3. Lists(loaded, {k \in 1..Len(opts) : opts[k] \in Images}) BY <2>1 DEF ExtSaw
  <2>4. (tracing <=> \E o \in Traces : Given(o)) /\ TermOf(Len(opts))
    BY <2>1 DEF CtrlSaw, Among, Given
  <2> QED BY <2>2, <2>3, <2>4 DEF RunsAsAsked
<1> QED BY <1>1, Inductive, PTL

(* A program that ends early and without an error has loaded nothing.       *)
THEOREM NothingLoaded == Spec => []NoLoadWhenExiting
<1>1. IInv => NoLoadWhenExiting BY DEF IInv, ReturnInv, NoLoadWhenExiting
<1> QED BY <1>1, Inductive, PTL

(* No option ends the program early, without an error, unasked.             *)
THEOREM ExitIsAsked == Spec => []EarlyExitAsked
<1>1. IInv => EarlyExitAsked BY DEF IInv, ReturnInv, EarlyExitAsked, Among, Given
<1> QED BY <1>1, Inductive, PTL

=============================================================================
