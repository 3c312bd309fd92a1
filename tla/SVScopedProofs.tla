--------------------------- MODULE SVScopedProofs ---------------------------
(***************************************************************************)
(* Scope guards nest, in every design, for all names and at every depth:   *)
(* SVScoped implements ScopeStack.                                         *)
(***************************************************************************)
EXTENDS SVScoped, SequenceTheorems, WellFoundedInduction, TLAPS

(* Scopes that exist, or none.                                              *)
Places == Scopes \cup {NULL}
Guards == [prev_scope_ : Places, name : Names]

(* The current scope, and those that guards will restore, exist.            *)
ScopesExist ==
    /\ scope \in Places
    /\ guards \in Seq(Guards)

---------------------------------------------------------------------------
(* The sequence of the kept scopes follows the sequence of the guards. *)
Kept(gs) == [k \in DOMAIN gs |-> gs[k].prev_scope_]

LEMMA KeptType ==
  ASSUME NEW gs \in Seq(Guards)
  PROVE  /\ Kept(gs) \in Seq(Places) /\ Len(Kept(gs)) = Len(gs)
         /\ \A k \in 1..Len(gs) : Kept(gs)[k] = gs[k].prev_scope_
<1>1. Len(gs) \in Nat /\ DOMAIN gs = 1..Len(gs) /\ gs \in [1..Len(gs) -> Guards]
  BY LenProperties
<1>2. Kept(gs) \in [1..Len(gs) -> Places] BY <1>1 DEF Kept, Guards
<1>3. Kept(gs) \in Seq(Places) BY <1>1, <1>2, SeqDef
<1>4. Len(Kept(gs)) = Len(gs) BY <1>1, <1>2, <1>3, LenProperties
<1> QED BY <1>1, <1>3, <1>4 DEF Kept

(* A new guard keeps one more. *)
LEMMA KeptAppend ==
  ASSUME NEW gs \in Seq(Guards), NEW g \in Guards
  PROVE  Kept(Append(gs, g)) = Append(Kept(gs), g.prev_scope_)
<1> DEFINE hs == Append(gs, g)
           ks == Append(Kept(gs), g.prev_scope_)
<1>0. g.prev_scope_ \in Places BY DEF Guards
<1>1. /\ hs \in Seq(Guards) /\ Len(hs) = Len(gs) + 1 /\ hs[Len(gs) + 1] = g
      /\ \A k \in 1..Len(gs) : hs[k] = gs[k]
  BY AppendProperties
<1>2. /\ Kept(gs) \in Seq(Places) /\ Len(Kept(gs)) = Len(gs)
      /\ \A k \in 1..Len(gs) : Kept(gs)[k] = gs[k].prev_scope_
  BY KeptType
<1>3. /\ ks \in Seq(Places) /\ Len(ks) = Len(gs) + 1 /\ ks[Len(gs) + 1] = g.prev_scope_
      /\ \A k \in 1..Len(gs) : ks[k] = gs[k].prev_scope_
  BY <1>0, <1>2, AppendProperties
<1>4. /\ Kept(hs) \in Seq(Places) /\ Len(Kept(hs)) = Len(hs)
      /\ \A k \in 1..Len(hs) : Kept(hs)[k] = hs[k].prev_scope_
  BY <1>1, KeptType
<1>5. Len(gs) \in Nat BY LenProperties
<1> HIDE DEF hs, ks
<1>6. \A k \in 1..Len(ks) : Kept(hs)[k] = ks[k] BY <1>1, <1>3, <1>4, <1>5
<1>7. Kept(hs) = ks BY <1>1, <1>3, <1>4, <1>6, SeqEqual
<1> QED BY <1>7 DEF hs, ks

(* The front of a sequence, and the sequence put together again. *)
LEMMA FrontLast ==
  ASSUME NEW S, NEW s \in Seq(S), s # <<>>
  PROVE  /\ Front(s) \in Seq(S) /\ Last(s) \in S
         /\ Len(Front(s)) = Len(s) - 1 /\ Len(s) \in Nat \ {0}
         /\ \A k \in 1..(Len(s) - 1) : Front(s)[k] = s[k]
         /\ Append(Front(s), Last(s)) = s
<1>1. Len(s) \in Nat \ {0} BY EmptySeq
<1>2. \A k \in 1..(Len(s) - 1) : s[k] \in S BY <1>1, ElementOfSeq
<1>3. /\ Front(s) \in Seq(S) /\ Len(Front(s)) = Len(s) - 1
      /\ \A k \in 1..(Len(s) - 1) : Front(s)[k] = s[k]
  <2> DEFINE n == Len(s) - 1
             f == SubSeq(s, 1, n)
  <2>1. n \in Nat BY <1>1
  <2>2. /\ f \in Seq(S) /\ Len(f) = IF 1 <= n THEN n - 1 + 1 ELSE 0
        /\ \A k \in 1..(n - 1 + 1) : f[k] = s[1 + k - 1]
    BY <1>2, <2>1, SubSeqProperties
  <2>3. f = Front(s) BY DEF Front
  <2> HIDE DEF f, n
  <2>4. Len(f) = n BY <2>1, <2>2
  <2>5. ASSUME NEW k \in 1..n PROVE f[k] = s[k]
    <3>1. k \in 1..(n - 1 + 1) /\ 1 + k - 1 = k BY <2>1
    <3> QED BY <2>2, <3>1
  <2> QED BY <2>2, <2>3, <2>4, <2>5 DEF n
<1>4. Last(s) \in S BY <1>1, ElementOfSeq DEF Last
<1>5. Append(Front(s), Last(s)) = s
  <2> DEFINE t == Append(Front(s), Last(s))
  <2>1. /\ t \in Seq(S) /\ Len(t) = Len(Front(s)) + 1
        /\ \A k \in 1..Len(Front(s)) : t[k] = Front(s)[k]
        /\ t[Len(Front(s)) + 1] = s[Len(s)]
    BY <1>3, <1>4, AppendProperties DEF Last
  <2> HIDE DEF t
  <2>2. Len(t) = Len(s) /\ \A k \in 1..Len(t) : t[k] = s[k] BY <1>1, <1>3, <2>1
  <2>3. t = s BY <2>1, <2>2, SeqEqual
  <2> QED BY <2>3 DEF t
<1> QED BY <1>1, <1>3, <1>4, <1>5

(* What is appended is the last element, and the rest the front. *)
LEMMA FrontOfAppend ==
  ASSUME NEW S, NEW s \in Seq(S), NEW e \in S
  PROVE  Front(Append(s, e)) = s /\ Last(Append(s, e)) = e
<1> DEFINE t == Append(s, e)
<1>1. /\ t \in Seq(S) /\ t # <<>> /\ Len(t) = Len(s) + 1
      /\ \A k \in 1..Len(s) : t[k] = s[k]
      /\ t[Len(s) + 1] = e
  BY AppendProperties
<1>2. Len(s) \in Nat BY LenProperties
<1> HIDE DEF t
<1>3. /\ Front(t) \in Seq(S) /\ Len(Front(t)) = Len(s)
      /\ \A k \in 1..Len(s) : Front(t)[k] = s[k]
  BY <1>1, <1>2, FrontLast
<1>4. Front(t) = s BY <1>3, SeqEqual
<1>5. Last(t) = e BY <1>1 DEF Last
<1> QED BY <1>4, <1>5 DEF t

---------------------------------------------------------------------------
(* Induction, for a set of natural numbers. *)
LEMMA SetInduction ==
  ASSUME NEW S \in SUBSET Nat, 0 \in S, \A n \in S : n + 1 \in S
  PROVE  \A n \in Nat : n \in S
<1> SUFFICES ASSUME Nat \ S # {} PROVE FALSE OBVIOUS
<1>1. PICK n \in Nat \ S : \A m \in Nat \ S : <<m, n>> \notin OpToRel(<, Nat)
  BY NatLessThanWellFounded, WFMin
<1>2. \A m \in Nat \ S : ~(m < n) BY <1>1, Zenon DEF OpToRel
<1>0. n # 0 BY <1>1
<1>3. n - 1 \in Nat /\ n - 1 + 1 = n /\ n - 1 < n BY <1>0
<1>4. n - 1 \in S BY <1>2, <1>3
<1> QED BY <1>1, <1>3, <1>4

(* The walk over the dots, and the way up the tree, step by step. *)
LEMMA StrippedSteps ==
  ASSUME NEW name
  PROVE  /\ Stripped(name, 0) = name
         /\ \A n \in Nat : Stripped(name, n + 1) = StripOne(Stripped(name, n))
<1> DEFINE Is(g, k) == g = [i \in 0 .. k |-> IF i = 0 THEN name ELSE StripOne(g[i - 1])]
           Walk(k) == CHOOSE g : Is(g, k)
           S == {k \in Nat : \E g : Is(g, k)}
<1>1. 0 \in S
  <2> DEFINE g == [i \in 0 .. 0 |-> name]
  <2>1. Is(g, 0) OBVIOUS
  <2> QED BY <2>1
<1>2. ASSUME NEW k \in S PROVE k + 1 \in S
  <2>1. PICK g : Is(g, k) OBVIOUS
  <2> DEFINE h == [i \in 0 .. (k + 1) |-> IF i = k + 1 THEN StripOne(g[k]) ELSE g[i]]
  <2>2. \A i \in 0 .. k : h[i] = g[i] OBVIOUS
  <2>3. \A i \in 0 .. (k + 1) : h[i] = IF i = 0 THEN name ELSE StripOne(h[i - 1])
    <3> TAKE i \in 0 .. (k + 1)
    <3>1. CASE i = k + 1 BY <2>2, <3>1
    <3>2. CASE i # k + 1 /\ i # 0
      <4>1. i \in 0 .. k /\ i - 1 \in 0 .. k BY <3>2
      <4> QED BY <2>1, <2>2, <3>2, <4>1
    <3>3. CASE i = 0 BY <2>1, <2>2, <3>3
    <3> QED BY <3>1, <3>2, <3>3
  <2>4. Is(h, k + 1) BY <2>3
  <2> HIDE DEF h
  <2> QED BY <2>4
<1>3. \A k \in Nat : Is(Walk(k), k)
  <2> HIDE DEF Is
  <2>1. \A k \in Nat : k \in S BY <1>1, <1>2, SetInduction
  <2> QED BY <2>1
<1>4. \A k \in Nat : Stripped(name, k) = Walk(k)[k] BY Zenon DEF Stripped
<1>5. \A k \in Nat : \A i \in 0 .. k : Walk(k)[i] = IF i = 0 THEN name ELSE StripOne(Walk(k)[i - 1])
  <2> HIDE DEF Walk
  <2> QED BY <1>3
<1> HIDE DEF Walk
(* A longer walk begins like a shorter one. *)
<1>6. ASSUME NEW n \in Nat
      PROVE  \A i \in 0 .. n : Walk(n + 1)[i] = Walk(n)[i]
  <2> DEFINE T == {i \in Nat : i <= n => Walk(n + 1)[i] = Walk(n)[i]}
  <2>1. 0 \in T BY <1>5
  <2>2. ASSUME NEW i \in T PROVE i + 1 \in T
    <3> SUFFICES ASSUME i + 1 <= n PROVE Walk(n + 1)[i + 1] = Walk(n)[i + 1] OBVIOUS
    <3>1. i + 1 \in 0 .. n /\ i + 1 \in 0 .. (n + 1) /\ i + 1 # 0 /\ i + 1 - 1 = i OBVIOUS
    <3>2. Walk(n + 1)[i + 1] = StripOne(Walk(n + 1)[i]) BY <1>5, <3>1
    <3>3. Walk(n)[i + 1] = StripOne(Walk(n)[i]) BY <1>5, <3>1
    <3> QED BY <3>2, <3>3
  <2>3. \A i \in Nat : i \in T BY <2>1, <2>2, SetInduction
  <2> QED BY <2>3
<1>7. ASSUME NEW n \in Nat PROVE Stripped(name, n + 1) = StripOne(Stripped(name, n))
  <2>1. n + 1 \in 0 .. (n + 1) /\ n + 1 # 0 /\ n + 1 - 1 = n /\ n \in 0 .. n OBVIOUS
  <2>2. Walk(n + 1)[n + 1] = StripOne(Walk(n + 1)[n]) BY <1>5, <2>1
  <2> QED BY <1>4, <1>6, <2>1, <2>2
<1>8. Stripped(name, 0) = name BY <1>4, <1>5
<1> QED BY <1>7, <1>8

LEMMA AncestorSteps ==
  ASSUME NEW s
  PROVE  /\ Ancestor(s, 0) = s
         /\ \A n \in Nat : Ancestor(s, n + 1) = Parent(Ancestor(s, n))
<1> DEFINE Is(g, k) == g = [i \in 0 .. k |-> IF i = 0 THEN s ELSE Parent(g[i - 1])]
           Walk(k) == CHOOSE g : Is(g, k)
           S == {k \in Nat : \E g : Is(g, k)}
<1>1. 0 \in S
  <2> DEFINE g == [i \in 0 .. 0 |-> s]
  <2>1. Is(g, 0) OBVIOUS
  <2> QED BY <2>1
<1>2. ASSUME NEW k \in S PROVE k + 1 \in S
  <2>1. PICK g : Is(g, k) OBVIOUS
  <2> DEFINE h == [i \in 0 .. (k + 1) |-> IF i = k + 1 THEN Parent(g[k]) ELSE g[i]]
  <2>2. \A i \in 0 .. k : h[i] = g[i] OBVIOUS
  <2>3. \A i \in 0 .. (k + 1) : h[i] = IF i = 0 THEN s ELSE Parent(h[i - 1])
    <3> TAKE i \in 0 .. (k + 1)
    <3>1. CASE i = k + 1 BY <2>2, <3>1
    <3>2. CASE i # k + 1 /\ i # 0
      <4>1. i \in 0 .. k /\ i - 1 \in 0 .. k BY <3>2
      <4> QED BY <2>1, <2>2, <3>2, <4>1
    <3>3. CASE i = 0 BY <2>1, <2>2, <3>3
    <3> QED BY <3>1, <3>2, <3>3
  <2>4. Is(h, k + 1) BY <2>3
  <2> HIDE DEF h
  <2> QED BY <2>4
<1>3. \A k \in Nat : Is(Walk(k), k)
  <2> HIDE DEF Is
  <2>1. \A k \in Nat : k \in S BY <1>1, <1>2, SetInduction
  <2> QED BY <2>1
<1>4. \A k \in Nat : Ancestor(s, k) = Walk(k)[k] BY Zenon DEF Ancestor
<1>5. \A k \in Nat : \A i \in 0 .. k : Walk(k)[i] = IF i = 0 THEN s ELSE Parent(Walk(k)[i - 1])
  <2> HIDE DEF Walk
  <2> QED BY <1>3
<1> HIDE DEF Walk
(* A longer walk begins like a shorter one. *)
<1>6. ASSUME NEW n \in Nat
      PROVE  \A i \in 0 .. n : Walk(n + 1)[i] = Walk(n)[i]
  <2> DEFINE T == {i \in Nat : i <= n => Walk(n + 1)[i] = Walk(n)[i]}
  <2>1. 0 \in T BY <1>5
  <2>2. ASSUME NEW i \in T PROVE i + 1 \in T
    <3> SUFFICES ASSUME i + 1 <= n PROVE Walk(n + 1)[i + 1] = Walk(n)[i + 1] OBVIOUS
    <3>1. i + 1 \in 0 .. n /\ i + 1 \in 0 .. (n + 1) /\ i + 1 # 0 /\ i + 1 - 1 = i OBVIOUS
    <3>2. Walk(n + 1)[i + 1] = Parent(Walk(n + 1)[i]) BY <1>5, <3>1
    <3>3. Walk(n)[i + 1] = Parent(Walk(n)[i]) BY <1>5, <3>1
    <3> QED BY <3>2, <3>3
  <2>3. \A i \in Nat : i \in T BY <2>1, <2>2, SetInduction
  <2> QED BY <2>3
<1>7. ASSUME NEW n \in Nat PROVE Ancestor(s, n + 1) = Parent(Ancestor(s, n))
  <2>1. n + 1 \in 0 .. (n + 1) /\ n + 1 # 0 /\ n + 1 - 1 = n /\ n \in 0 .. n OBVIOUS
  <2>2. Walk(n + 1)[n + 1] = Parent(Walk(n + 1)[n]) BY <1>5, <2>1
  <2> QED BY <1>4, <1>6, <2>1, <2>2
<1>8. Ancestor(s, 0) = s BY <1>4, <1>5
<1> QED BY <1>7, <1>8

(* On a scope of the design, the walk over the dots is the way up the tree. *)
LEMMA WalkIsTree ==
  ASSUME NEW s \in Scopes, NEW n \in Nat
  PROVE  Stripped(s, n) = Ancestor(s, n) /\ Ancestor(s, n) \in Scopes
<1> DEFINE S == {k \in Nat : Stripped(s, k) = Ancestor(s, k) /\ Ancestor(s, k) \in Scopes}
<1>1. 0 \in S BY StrippedSteps, AncestorSteps
<1>2. ASSUME NEW x \in Scopes PROVE StripOne(x) = Parent(x) /\ Parent(x) \in Scopes
  <2>1. x \in Seq(STRING) /\ x # <<>> BY ScopesAssumption DEF NULL
  <2>2. Len(x) \in Nat \ {0} /\ Front(x) \in Seq(STRING) /\ Len(Front(x)) = Len(x) - 1
    BY <2>1, FrontLast
  <2>3. CASE Len(x) > 1
    <3>1. Front(x) \in Scopes BY <2>3, TreeAssumption
    <3> QED BY <2>2, <2>3, <3>1 DEF StripOne, Parent
  <2>4. CASE Len(x) = 1
    <3>1. Front(x) = <<>> BY <2>2, <2>4, EmptySeq
    <3>2. Front(x) \notin Scopes BY <3>1, ScopesAssumption DEF NULL
    <3> QED BY <2>4, <3>2 DEF StripOne, Parent
  <2> QED BY <2>2, <2>3, <2>4
<1>3. ASSUME NEW k \in S PROVE k + 1 \in S
  <2>1. Stripped(s, k + 1) = StripOne(Stripped(s, k)) BY StrippedSteps
  <2>2. Ancestor(s, k + 1) = Parent(Ancestor(s, k)) BY AncestorSteps
  <2>3. k \in Nat /\ Stripped(s, k) = Ancestor(s, k) /\ Ancestor(s, k) \in Scopes OBVIOUS
  <2>4. StripOne(Ancestor(s, k)) = Parent(Ancestor(s, k)) /\ Parent(Ancestor(s, k)) \in Scopes
    BY <1>2, <2>3
  <2> QED BY <2>1, <2>2, <2>3, <2>4
<1>4. n \in S
  <2> HIDE DEF S
  <2>1. S \in SUBSET Nat BY DEF S
  <2> QED BY <1>1, <1>3, <2>1, SetInduction
<1> QED BY <1>4

---------------------------------------------------------------------------
LEMMA InitExist == Init => ScopesExist
BY EmptySeq DEF Init, ScopesExist, Places

(* A guard is made, with the scope that was current; the new one exists or  *)
(* is the same, and is where the name leads.                                *)
Entered(name) ==
    /\ scope' \in Scopes \/ scope' = scope
    /\ scope' = Goto(scope, name)
    /\ guards' = Append(guards, [prev_scope_ |-> scope, name |-> name])

LEMMA Steps ==
  ASSUME ScopesExist, Next
  PROVE  \/ \E name \in Names : Entered(name)
         \/ Destroy
         \/ UNCHANGED <<scope, guards>>
<1>1. ASSUME NEW name \in Names, SVScoped(name)
      PROVE  Entered(name) \/ UNCHANGED <<scope, guards>>
  <2>0. name.dots \in Nat /\ name.path \in Seq(STRING) BY ScopesAssumption
  <2>1. ASSUME NEW target, target = Goto(scope, name), SetAbsScope(target, name)
        PROVE  Entered(name) \/ UNCHANGED <<scope, guards>>
    BY <2>1 DEF SetAbsScope, svGetScopeFromName, Entered
  <2>2. CASE name.dots = 0 /\ SetAbsScope(name.path, name)
    <3>1. name.path = Goto(scope, name) BY <2>2 DEF Goto
    <3> QED BY <2>1, <2>2, <3>1
  <2>3. CASE name = [dots |-> 1, path |-> <<>>] /\ StayInScope(name)
    <3>1. scope \in Seq(STRING) BY ScopesAssumption, EmptySeq DEF ScopesExist, Places, NULL
    <3>2. name.dots = 1 /\ name.path = <<>> BY <2>3
    <3>3. Goto(scope, name) = Ancestor(scope, 0) \o <<>> BY <3>2 DEF Goto
    <3>4. Goto(scope, name) = scope BY <3>1, <3>3, AncestorSteps, ConcatEmptySeq
    <3> QED BY <2>3, <3>4 DEF StayInScope, Entered
  <2>4. CASE name.dots # 0 /\ scope # NULL /\ SetAbsScope(Resolved(scope, name), name)
    <3>1. scope \in Scopes BY <2>4 DEF ScopesExist, Places
    <3>2. name.dots - 1 \in Nat BY <2>0, <2>4
    <3>3. Resolved(scope, name) = Goto(scope, name)
      BY <2>4, <3>1, <3>2, WalkIsTree DEF Resolved, Goto
    <3> QED BY <2>1, <2>4, <3>3
  <2>5. \/ name.dots = 0 /\ SetAbsScope(name.path, name)
        \/ name = [dots |-> 1, path |-> <<>>] /\ StayInScope(name)
        \/ name.dots # 0 /\ scope # NULL /\ SetAbsScope(Resolved(scope, name), name)
        \/ UNCHANGED <<scope, guards>>
    BY <1>1 DEF SVScoped
  <2> QED BY <2>2, <2>3, <2>4, <2>5
<1>2. ASSUME Catch PROVE UNCHANGED <<scope, guards>> BY <1>2 DEF Catch
<1> QED BY <1>1, <1>2 DEF Next

LEMMA NextExist == ScopesExist /\ [Next]_vars => ScopesExist'
<1> SUFFICES ASSUME ScopesExist, [Next]_vars PROVE ScopesExist' OBVIOUS
<1>1. ASSUME NEW name \in Names, Entered(name) PROVE ScopesExist'
  <2>1. [prev_scope_ |-> scope, name |-> name] \in Guards BY DEF ScopesExist, Guards
  <2> QED BY <1>1, <2>1, AppendProperties DEF ScopesExist, Entered, Places
<1>2. CASE Destroy
  <2>1. /\ guards \in Seq(Guards) /\ guards # <<>>
        /\ scope' = Last(guards).prev_scope_ /\ guards' = Front(guards)
    BY <1>2 DEF Destroy, ScopesExist
  <2>2. Last(guards) \in Guards /\ guards' \in Seq(Guards) BY <2>1, FrontLast
  <2> QED BY <2>1, <2>2 DEF ScopesExist, Guards
<1>3. CASE UNCHANGED <<scope, guards>> BY <1>3 DEF ScopesExist
<1> QED BY <1>1, <1>2, <1>3, Steps DEF vars

(* The scope that is current, and every scope that a guard will restore,    *)
(* exists in the design, unless none was set: SetAbsScope() never makes an  *)
(* unknown name the current scope.                                          *)
THEOREM ScopesCorrect == Spec => []ScopesExist
BY InitExist, NextExist, PTL DEF Spec

---------------------------------------------------------------------------
LEMMA InitFollows == Init => FollowsNames
<1> SUFFICES ASSUME Init PROVE FollowsNames OBVIOUS
<1>1. DOMAIN guards = {} BY DEF Init
<1> QED BY <1>1 DEF FollowsNames

(* What a guard leads to is not touched while it lives: a new guard keeps   *)
(* it, and the end of the guard above gives it back.                        *)
LEMMA NextFollows ==
  ASSUME ScopesExist, ScopesExist', FollowsNames, [Next]_vars
  PROVE  FollowsNames'
<1>0. /\ guards \in Seq(Guards) /\ Len(guards) \in Nat /\ DOMAIN guards = 1..Len(guards)
      /\ guards' \in Seq(Guards) /\ DOMAIN guards' = 1..Len(guards')
  BY LenProperties DEF ScopesExist
<1>1. \A k \in 1..Len(guards) :
        (IF k = Len(guards) THEN scope ELSE guards[k + 1].prev_scope_)
          = Goto(guards[k].prev_scope_, guards[k].name)
  BY <1>0 DEF FollowsNames, After
<1> SUFFICES ASSUME NEW k \in 1..Len(guards')
             PROVE  (IF k = Len(guards') THEN scope' ELSE guards'[k + 1].prev_scope_)
                      = Goto(guards'[k].prev_scope_, guards'[k].name)
  BY <1>0 DEF FollowsNames, After
<1>2. ASSUME NEW name \in Names, Entered(name)
      PROVE  (IF k = Len(guards') THEN scope' ELSE guards'[k + 1].prev_scope_)
               = Goto(guards'[k].prev_scope_, guards'[k].name)
  <2> DEFINE g == [prev_scope_ |-> scope, name |-> name]
             n == Len(guards)
  <2>1. g \in Guards /\ g.prev_scope_ = scope /\ g.name = name BY DEF Guards, ScopesExist
  <2>2. guards' = Append(guards, g) /\ scope' = Goto(scope, name) BY <1>2 DEF Entered
  <2> HIDE DEF g
  <2>3. /\ Len(guards') = n + 1 /\ guards'[n + 1] = g
        /\ \A j \in 1..n : guards'[j] = guards[j]
    BY <1>0, <2>1, <2>2, AppendProperties
  <2>4. n \in Nat BY <1>0
  <2>5. \A j \in 1..n : (IF j = n THEN scope ELSE guards[j + 1].prev_scope_)
                           = Goto(guards[j].prev_scope_, guards[j].name)
    BY <1>1
  <2> HIDE DEF n
  <2>6. CASE k = n + 1
    <3>1. guards'[k] = g /\ k = Len(guards') BY <2>3, <2>6
    <3> QED BY <2>1, <2>2, <3>1
  <2>7. CASE k = n /\ k # 0
    <3>1. k \in 1..n /\ k # Len(guards') /\ guards'[k + 1] = g /\ guards'[k] = guards[k]
      BY <2>3, <2>4, <2>7
    <3>2. scope = Goto(guards[k].prev_scope_, guards[k].name) BY <2>5, <2>7, <3>1
    <3> QED BY <2>1, <3>1, <3>2
  <2>8. CASE k \in 1..(n - 1)
    <3>1. /\ k \in 1..n /\ k + 1 \in 1..n /\ k # n /\ k # Len(guards')
          /\ guards'[k + 1] = guards[k + 1] /\ guards'[k] = guards[k]
      BY <2>3, <2>4, <2>8
    <3>2. guards[k + 1].prev_scope_ = Goto(guards[k].prev_scope_, guards[k].name) BY <2>5, <3>1
    <3> QED BY <3>1, <3>2
  <2>9. k = n + 1 \/ (k = n /\ k # 0) \/ k \in 1..(n - 1) BY <2>3, <2>4
  <2> QED BY <2>6, <2>7, <2>8, <2>9
<1>3. CASE Destroy
  <2> DEFINE n == Len(guards)
  <2>1. /\ guards # <<>> /\ scope' = Last(guards).prev_scope_ /\ guards' = Front(guards)
    BY <1>3 DEF Destroy
  <2>2. /\ Len(guards') = n - 1 /\ n \in Nat \ {0}
        /\ \A j \in 1..(n - 1) : guards'[j] = guards[j]
    BY <1>0, <2>1, FrontLast
  <2>3. Last(guards) = guards[n] BY DEF Last
  <2>4. \A j \in 1..n : (IF j = n THEN scope ELSE guards[j + 1].prev_scope_)
                           = Goto(guards[j].prev_scope_, guards[j].name)
    BY <1>1
  <2> HIDE DEF n
  <2>5. k \in 1..(n - 1) /\ k \in 1..n /\ k # n /\ guards'[k] = guards[k] BY <2>2
  <2>6. guards[k + 1].prev_scope_ = Goto(guards[k].prev_scope_, guards[k].name) BY <2>4, <2>5
  <2>7. CASE k = n - 1
    <3>1. k = Len(guards') /\ k + 1 = n BY <2>2, <2>7
    <3> QED BY <2>1, <2>3, <2>5, <2>6, <3>1
  <2>8. CASE k # n - 1
    <3>1. k + 1 \in 1..(n - 1) /\ k # Len(guards') BY <2>2, <2>5, <2>8
    <3>2. guards'[k + 1] = guards[k + 1] BY <2>2, <3>1
    <3> QED BY <2>5, <2>6, <3>1, <3>2
  <2> QED BY <2>7, <2>8
<1>4. CASE UNCHANGED <<scope, guards>> BY <1>1, <1>4
<1> QED BY <1>2, <1>3, <1>4, Steps DEF vars

(* Every live guard leads where its name leads from the scope before it, in *)
(* every tree of scopes, whatever guards were made, failed or destroyed     *)
(* above it.                                                                *)
THEOREM NamesFollowed == Spec => []FollowsNames
<1>1. ScopesExist /\ ScopesExist' /\ FollowsNames /\ [Next]_vars => FollowsNames'
  BY NextFollows
<1> QED BY <1>1, InitFollows, ScopesCorrect, PTL DEF Spec

(* Going up m levels and then n is going up m + n.                          *)
LEMMA AncestorAdds ==
  ASSUME NEW s, NEW m \in Nat, NEW n \in Nat
  PROVE  Ancestor(Ancestor(s, m), n) = Ancestor(s, m + n)
<1> DEFINE S == {k \in Nat : Ancestor(Ancestor(s, m), k) = Ancestor(s, m + k)}
<1>1. 0 \in S
  <2>1. m + 0 = m OBVIOUS
  <2> QED BY <2>1, AncestorSteps
<1>2. ASSUME NEW k \in S PROVE k + 1 \in S
  <2>1. k \in Nat /\ m + k \in Nat /\ m + (k + 1) = (m + k) + 1 OBVIOUS
  <2>2. Ancestor(Ancestor(s, m), k + 1) = Parent(Ancestor(Ancestor(s, m), k))
    BY <2>1, AncestorSteps
  <2>3. Ancestor(s, (m + k) + 1) = Parent(Ancestor(s, m + k)) BY <2>1, AncestorSteps
  <2>4. Ancestor(Ancestor(s, m), k) = Ancestor(s, m + k) OBVIOUS
  <2> QED BY <2>1, <2>2, <2>3, <2>4
<1>3. n \in S
  <2> HIDE DEF S
  <2>1. S \in SUBSET Nat BY DEF S
  <2> QED BY <1>1, <1>2, <2>1, SetInduction
<1> QED BY <1>3

(* A name with an empty component, whatever is put before or behind it, is  *)
(* not that of a scope.                                                     *)
Texts == STRING \cup {""}
HasEmpty(x) == x \in Seq(Texts) /\ \E k \in 1..Len(x) : x[k] = ""

LEMMA EmptyStays ==
  ASSUME NEW x, HasEmpty(x), NEW y \in Seq(STRING)
  PROVE  HasEmpty(x \o y) /\ HasEmpty(y \o x) /\ x \notin Scopes
<1>0. y \in Seq(Texts)
  <2>1. ASSUME NEW S, NEW T, S \subseteq T, NEW z \in Seq(S) PROVE z \in Seq(T)
    BY <2>1, LenProperties, SeqDef
  <2>2. STRING \subseteq Texts BY Zenon DEF Texts
  <2> QED BY <2>1, <2>2, Zenon
<1>1. x \in Seq(Texts) /\ y \in Seq(Texts) /\ Len(x) \in Nat /\ Len(y) \in Nat
  BY <1>0, LenProperties, Zenon DEF HasEmpty
<1>2. PICK k \in 1..Len(x) : x[k] = "" BY Zenon DEF HasEmpty
<1>3. /\ x \o y \in Seq(Texts) /\ Len(x \o y) = Len(x) + Len(y)
      /\ \A i \in 1..Len(x) : (x \o y)[i] = x[i]
  BY <1>1, ConcatProperties
<1>4. /\ y \o x \in Seq(Texts) /\ Len(y \o x) = Len(y) + Len(x)
      /\ \A i \in 1..Len(y) + Len(x) :
           (y \o x)[i] = IF i <= Len(y) THEN y[i] ELSE x[i - Len(y)]
  BY <1>1, ConcatProperties
<1> DEFINE lx == Len(x)
           ly == Len(y)
<1>k. /\ k \in 1..lx /\ k \in 1..(lx + ly) /\ ly + k \in 1..(ly + lx)
      /\ ~(ly + k <= ly) /\ (ly + k) - ly = k
  <2>1. lx \in Nat /\ ly \in Nat /\ k \in 1..lx BY <1>1, <1>2
  <2> HIDE DEF lx, ly
  <2> QED BY <2>1
<1>5. k \in 1..Len(x \o y) /\ (x \o y)[k] = "" BY <1>2, <1>3, <1>k, Zenon
<1>6. Len(y) + k \in 1..Len(y \o x) /\ (y \o x)[Len(y) + k] = ""
  <2>1. (y \o x)[ly + k] = IF ly + k <= ly THEN y[ly + k] ELSE x[(ly + k) - ly]
    BY <1>4, <1>k, Zenon
  <2>2. (y \o x)[ly + k] = x[k] BY <1>k, <2>1, Zenon
  <2> QED BY <1>2, <1>4, <1>k, <2>2, Zenon
<1>7. x \notin Scopes
  <2>1. DOMAIN x = 1..Len(x) BY <1>1, LenProperties
  <2> QED BY <1>2, <2>1, ScopesAssumption
<1> QED BY <1>3, <1>4, <1>5, <1>6, <1>7 DEF HasEmpty

LEMMA NamesAssociate ==
  ASSUME NEW x \in Seq(STRING), NEW y \in Seq(STRING), NEW z \in Seq(STRING)
  PROVE  x \o (y \o z) = (x \o y) \o z
BY ConcatAssociative

(* From every scope, the name that join_sv_scopes() makes leads where the   *)
(* two names lead one after the other, if the second has no dots; else a    *)
(* level too far up or nowhere.                                             *)
LEMMA JoinIsBoth ==
  ASSUME ScopesExist
  PROVE  JoinResolves
<1> SUFFICES ASSUME scope # NULL, NEW a \in Names, NEW b \in Names, IsName(a), IsName(b)
             PROVE  LET first  == Goto(scope, a)
                        joined == Goto(scope, join_sv_scopes(a, b))
                    IN  /\ b.dots = 0 => joined = Goto(first, [dots |-> 1, path |-> b.path])
                        /\ b.dots > 0 /\ a.path = <<>> =>
                               joined = Goto(first, [dots |-> b.dots + 1, path |-> b.path])
                        /\ b.dots > 0 /\ a.path # <<>> => joined \notin Scopes
  BY DEF JoinResolves
<1> DEFINE ab == join_sv_scopes(a, b)
           joined == Goto(scope, ab)
           first == Goto(scope, a)
           up == Ancestor(scope, a.dots - 1)
<1>1. /\ a.dots \in Nat /\ a.path \in Seq(STRING) /\ scope \in Scopes
      /\ b.dots \in Nat /\ b.path \in Seq(STRING)
  BY ScopesAssumption DEF ScopesExist, Places
<1>2. a.dots > 0 => up \in Seq(STRING)
  <2> SUFFICES ASSUME a.dots > 0 PROVE up \in Seq(STRING) OBVIOUS
  <2>1. a.dots - 1 \in Nat BY <1>1
  <2>2. up \in Scopes BY <1>1, <2>1, WalkIsTree
  <2> QED BY <2>2, ScopesAssumption
(* A relative name from where the first one leads. *)
<1>3. ASSUME NEW x, NEW n \in Nat
      PROVE  Goto(x, [dots |-> n + 1, path |-> b.path]) = Ancestor(x, n) \o b.path
  <2> DEFINE name == [dots |-> n + 1, path |-> b.path]
  <2>1. name.dots # 0 /\ name.dots - 1 = n /\ name.path = b.path OBVIOUS
  <2> HIDE DEF name
  <2>2. Goto(x, name) = Ancestor(x, name.dots - 1) \o name.path BY <2>1, Zenon DEF Goto
  <2>3. Goto(x, name) = Ancestor(x, n) \o b.path BY <2>1, <2>2
  <2> QED BY <2>3 DEF name
<1>4. CASE a.path = <<>>
  <2>1. ab.dots = a.dots + b.dots /\ ab.path = b.path BY <1>4 DEF join_sv_scopes
  <2>2. a.dots > 0 /\ a.dots # 0 BY <1>1, <1>4 DEF IsName
  <2> HIDE DEF ab
  <2>3. ab.dots # 0 /\ ab.dots - 1 = (a.dots - 1) + b.dots /\ a.dots - 1 \in Nat
    BY <1>1, <2>1, <2>2
  <2>4. joined = Ancestor(scope, ab.dots - 1) \o b.path BY <2>1, <2>3, Zenon DEF Goto
  <2>5. first = up \o <<>> BY <1>4, <2>2, Zenon DEF Goto
  <2>6. Ancestor(scope, (a.dots - 1) + b.dots) = Ancestor(up, b.dots)
    BY <1>1, <2>3, AncestorAdds
  <2> HIDE DEF up, first, joined
  <2>7. first = up BY <1>2, <2>2, <2>5, ConcatEmptySeq
  <2>8. joined = Ancestor(first, b.dots) \o b.path BY <2>3, <2>4, <2>6, <2>7
  <2>9. joined = Goto(first, [dots |-> b.dots + 1, path |-> b.path]) BY <1>1, <1>3, <2>8
  <2>10. b.dots = 0 => joined = Goto(first, [dots |-> 1, path |-> b.path])
    <3> SUFFICES ASSUME b.dots = 0 PROVE joined = Goto(first, [dots |-> 1, path |-> b.path])
      OBVIOUS
    <3>1. 0 \in Nat /\ 0 + 1 = 1 OBVIOUS
    <3>2. Goto(first, [dots |-> 0 + 1, path |-> b.path]) = Ancestor(first, 0) \o b.path
      BY <1>3, <3>1
    <3> QED BY <2>8, <3>1, <3>2
  <2> QED BY <1>4, <2>9, <2>10 DEF joined, first, ab
<1>5. CASE a.path # <<>>
  <2>1. ab.dots = a.dots /\ ab.path = a.path \o EmptyComponents(b) \o b.path
    BY <1>5 DEF join_sv_scopes
  <2> HIDE DEF ab
  <2>2. ASSUME b.dots = 0
        PROVE  joined = Goto(first, [dots |-> 1, path |-> b.path])
    <3>1. EmptyComponents(b) = <<>>
      <4>1. b.path # <<>> BY <2>2 DEF IsName
      <4> QED BY <2>2, <4>1 DEF EmptyComponents
    <3>2. ab.path = a.path \o b.path BY <1>1, <2>1, <3>1, ConcatEmptySeq
    <3>3. \A x : Goto(x, [dots |-> 1, path |-> b.path]) = x \o b.path
      <4> TAKE x
      <4>1. Goto(x, [dots |-> 1, path |-> b.path]) = Ancestor(x, 0) \o b.path BY DEF Goto
      <4> QED BY <4>1, AncestorSteps
    <3>4. CASE a.dots = 0
      <4>1. joined = a.path \o b.path /\ first = a.path BY <2>1, <3>2, <3>4 DEF Goto
      <4> QED BY <3>3, <4>1
    <3>5. CASE a.dots > 0
      <4>0. a.dots # 0 BY <1>1, <3>5
      <4>1. joined = up \o (a.path \o b.path) BY <2>1, <3>2, <4>0, Zenon DEF Goto
      <4>2. first = up \o a.path BY <4>0, Zenon DEF Goto
      <4> HIDE DEF up, joined, first
      <4>3. up \o (a.path \o b.path) = (up \o a.path) \o b.path
        <5>1. up \in Seq(STRING) BY <1>2, <3>5
        <5> QED BY <1>1, <5>1, NamesAssociate, Zenon
      <4> QED BY <3>3, <4>1, <4>2, <4>3
    <3> QED BY <1>1, <3>4, <3>5
  <2>3. ASSUME b.dots > 0
        PROVE  joined \notin Scopes
    <3> DEFINE E == EmptyComponents(b)
               n == IF b.path = <<>> THEN b.dots + 1 ELSE b.dots
    <3>1. n \in Nat /\ n >= 1 /\ E = [j \in 1..n |-> ""]
      <4>1. n \in Nat /\ n >= 1 BY <1>1, <2>3
      <4>2. b.dots # 0 BY <1>1, <2>3
      <4>3. E = [j \in 1..n |-> ""] BY <4>2, Zenon DEF EmptyComponents
      <4> QED BY <4>1, <4>3
    <3> HIDE DEF E, n
    <3>2. HasEmpty(E)
      <4>0. n \in Nat /\ n >= 1 BY <3>1, Zenon
      <4>1. E \in [1..n -> Texts] BY <3>1, Zenon DEF Texts
      <4>2. E \in Seq(Texts) BY <4>0, <4>1, SeqDef
      <4>3. 1..Len(E) = DOMAIN E BY <4>2, LenProperties, Zenon
      <4>4. DOMAIN E = 1..n BY <3>1, Zenon
      <4>5. 1 \in 1..n BY <4>0
      <4>6. 1 \in 1..Len(E) /\ E[1] = "" BY <3>1, <4>3, <4>4, <4>5, Zenon
      <4> QED BY <4>2, <4>6 DEF HasEmpty
    <3>3. HasEmpty((a.path \o E) \o b.path) BY <1>1, <3>2, EmptyStays
    <3>4. HasEmpty(ab.path) BY <2>1, <3>3 DEF E
    <3>5. CASE a.dots = 0
      <4>1. joined = ab.path BY <2>1, <3>5 DEF Goto
      <4> QED BY <1>1, <3>4, <4>1, EmptyStays
    <3>6. CASE a.dots > 0
      <4>0. ab.dots # 0 BY <1>1, <2>1, <3>6
      <4>1. joined = up \o ab.path BY <2>1, <4>0, Zenon DEF Goto
      <4> HIDE DEF up, joined
      <4>2. HasEmpty(joined) BY <1>2, <3>4, <3>6, <4>1, EmptyStays
      <4> QED BY <1>1, <4>2, EmptyStays
    <3> QED BY <1>1, <3>5, <3>6
  <2> HIDE DEF joined, first
  <2>4. b.dots = 0 \/ b.dots > 0 BY <1>1
  <2> QED BY <1>5, <2>2, <2>3 DEF joined, first, ab
<1> QED BY <1>4, <1>5

(* JoinResolves: from every scope the guards can reach, join_sv_scopes() is *)
(* right for a second name without dots, and wrong as stated for others.    *)
THEOREM JoinIsRight == Spec => []JoinResolves
BY JoinIsBoth, ScopesCorrect, PTL

---------------------------------------------------------------------------
(* The stack of scopes that the guards and the current scope amount to.     *)
Stack == Append(Previous, scope)

LEMMA StackKept == ASSUME ScopesExist PROVE /\ Previous = Kept(guards)
                                            /\ Previous \in Seq(Places)
                                            /\ Stack \in Seq(Places)
                                            /\ Last(Stack) = scope
                                            /\ Front(Stack) = Previous
<1>1. Previous = Kept(guards) BY DEF Previous, Kept
<1>2. Previous \in Seq(Places) /\ scope \in Places BY <1>1, KeptType DEF ScopesExist
<1> QED BY <1>1, <1>2, AppendProperties, FrontOfAppend DEF Stack

(* The initial states are those of a stack of one scope.                    *)
LEMMA InitStack == Init => Abstract!Init
<1> SUFFICES ASSUME Init PROVE Abstract!Init OBVIOUS
<1>1. guards = <<>> /\ scope \in Places BY DEF Init, Places
<1>2. Previous = <<>> BY <1>1 DEF Previous
<1>3. Append(Previous, scope) = <<scope>> BY <1>2
<1> QED BY <1>1, <1>3 DEF Abstract!Init, Places

(* Every step enters a scope, leaves one, or is none of the stack's.        *)
LEMMA NextStack ==
  ASSUME ScopesExist, ScopesExist', [Next]_vars
  PROVE  [Abstract!Enter \/ Abstract!Leave]_Stack
<1>0. /\ Previous = Kept(guards) /\ Previous \in Seq(Places)
      /\ Stack \in Seq(Places) /\ Last(Stack) = scope /\ Front(Stack) = Previous
  BY StackKept
<1>1. /\ guards \in Seq(Guards) /\ scope \in Places
      /\ guards' \in Seq(Guards) /\ scope' \in Places
  BY DEF ScopesExist
<1>2. Previous' = Kept(guards') BY DEF Previous, Kept
<1>3. ASSUME NEW name \in Names, Entered(name) PROVE Abstract!Enter
  <2> DEFINE g == [prev_scope_ |-> scope, name |-> name]
  <2>1. g \in Guards /\ g.prev_scope_ = scope BY <1>1 DEF Guards
  <2>2. guards' = Append(guards, g) BY <1>3 DEF Entered
  <2> HIDE DEF g
  <2>3. Previous' = Stack BY <1>0, <1>1, <1>2, <2>1, <2>2, KeptAppend DEF Stack
  <2>4. Stack' = Append(Stack, scope') BY <2>3 DEF Stack
  <2>5. scope' \in Scopes \cup {NULL} /\ (scope' \in Scopes \/ scope' = Last(Stack))
    BY <1>0, <1>1, <1>3 DEF Entered, Places
  <2> QED BY <2>4, <2>5 DEF Abstract!Enter, Abstract!Last, Last, Stack
<1>4. CASE Destroy
  <2>1. /\ guards # <<>> /\ scope' = Last(guards).prev_scope_ /\ guards' = Front(guards)
    BY <1>4 DEF Destroy
  <2>2. /\ Front(guards) \in Seq(Guards) /\ Last(guards) \in Guards
        /\ Append(Front(guards), Last(guards)) = guards /\ Len(guards) \in Nat \ {0}
    BY <1>1, <2>1, FrontLast
  <2>3. Previous = Append(Kept(guards'), scope') BY <1>0, <2>1, <2>2, KeptAppend
  <2>4. Stack' = Previous BY <1>2, <2>3 DEF Stack
  <2>5. Stack' = Front(Stack) BY <1>0, <2>4
  <2>6. Len(Previous) = Len(guards) BY <1>0, <1>1, KeptType
  <2>7. Len(Stack) = Len(Previous) + 1 BY <1>0, <1>1, AppendProperties DEF Stack
  <2>8. Len(Stack) > 1 BY <2>2, <2>6, <2>7
  <2> QED BY <2>5, <2>8 DEF Abstract!Leave, Abstract!Front, Front, Stack
<1>5. CASE UNCHANGED <<scope, guards>>
  BY <1>5 DEF Stack, Previous
<1> QED BY <1>3, <1>4, <1>5, Steps DEF vars

(* SVScoped implements ScopeStack: every scope that a guard enters is left  *)
(* for the one that was current before, also while exceptions pass, and a   *)
(* guard that cannot be made changes nothing.                               *)
THEOREM GuardsNest == Spec => Nested
<1>1. Init => Abstract!Init BY InitStack
<1>2. ScopesExist /\ ScopesExist' /\ [Next]_vars => [Abstract!Enter \/ Abstract!Leave]_Stack
  BY NextStack
<1> QED BY <1>1, <1>2, ScopesCorrect, PTL DEF Spec, Nested, Abstract!Spec, Stack

=============================================================================
