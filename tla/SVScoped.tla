----------------------------- MODULE SVScoped -----------------------------
(***************************************************************************)
(* sv_scoped.cc: guards that set the DPI scope and restore it.  A scope is *)
(* the sequence of the components of its name; a name given to a guard is  *)
(* a number of leading dots and the components behind them.  ".a" has one  *)
(* dot, ".." two and no component, "TOP.a" none.                           *)
(*                                                                         *)
(* Guards live in nested C++ scopes.  An exception leaves them one by one, *)
(* until some caller catches it.                                           *)
(***************************************************************************)
EXTENDS Integers, FiniteSets, Sequences, SequencesExt

CONSTANTS
    Scopes,      \* the scopes of the design
    Names,       \* names that guards are given: [dots, path]
    MaxDepth     \* bound on the number of nested guards

NULL == <<>>     \* no scope is set

(* No component of a scope's name is empty. *)
ASSUME ScopesAssumption ==
    /\ Scopes \subseteq Seq(STRING) \ {NULL}
    /\ \A s \in Scopes : \A k \in DOMAIN s : s[k] # ""
    /\ \A n \in Names : n.dots \in Nat /\ n.path \in Seq(STRING)
    /\ MaxDepth \in Nat

(* They are a tree: the scope around a scope is one too. *)
ASSUME TreeAssumption == \A s \in Scopes : Len(s) > 1 => Front(s) \in Scopes

VARIABLES
    scope,       \* the simulator's current scope
    guards,      \* the live SVScoped objects: [prev_scope_, name]
    state        \* "running", "throwing" or "crashed"

vars == <<scope, guards, state>>

Init ==
    /\ scope \in Scopes \cup {NULL}
    /\ guards = <<>>
    /\ state = "running"
---------------------------------------------------------------------------
(* External: the simulator's table of scopes. *)
svGetScopeFromName(name) == IF name \in Scopes THEN name ELSE NULL

(* The loop over the dots of the current scope's name, from the end: each  *)
(* step drops the last component, and the walk stops at the left-most one. *)
StripOne(name) == IF Len(name) <= 1 THEN name ELSE Front(name)

Stripped(name, up_count) ==
    LET walk[i \in 0 .. up_count] == IF i = 0 THEN name ELSE StripOne(walk[i - 1])
    IN  walk[up_count]

(* The absolute name that SetRelScope() makes of a relative one. *)
Resolved_UpByDots(current, name) == Stripped(current, name.dots) \o name.path

Resolved(current, name) == Stripped(current, name.dots - 1) \o name.path

(* join_sv_scopes(): a separating dot unless a ends in one.  The dots of a *)
(* relative b end up in the middle, as empty components.  Both names are   *)
(* non-empty (the assertion).                                              *)
EmptyComponents(b) ==
    [j \in 1 .. (IF b.path = <<>> THEN b.dots + 1 ELSE b.dots) |-> ""]

join_sv_scopes_AlwaysDot(a, b) ==
    IF a.path = <<>> THEN [dots |-> a.dots + b.dots + 1, path |-> b.path]
    ELSE [dots |-> a.dots, path |-> a.path \o EmptyComponents(b) \o b.path]

join_sv_scopes(a, b) ==
    IF a.path = <<>> THEN [dots |-> a.dots + b.dots, path |-> b.path]
    ELSE [dots |-> a.dots, path |-> a.path \o EmptyComponents(b) \o b.path]
---------------------------------------------------------------------------
(* SetAbsScope() on the way into a guard: the new scope is set and the old *)
(* one kept in the guard, or nothing changes and an exception is thrown.   *)
SetAbsScope_SetFirst(target, name) ==
    LET new_scope == svGetScopeFromName(target)
    IN  /\ scope' = new_scope
        /\ IF new_scope # NULL
           THEN guards' = Append(guards, [prev_scope_ |-> scope, name |-> name]) /\ UNCHANGED state
           ELSE state' = "throwing" /\ UNCHANGED guards

SetAbsScope(target, name) ==
    LET new_scope == svGetScopeFromName(target)
    IN  IF new_scope # NULL
        THEN /\ scope' = new_scope
             /\ guards' = Append(guards, [prev_scope_ |-> scope, name |-> name])
             /\ UNCHANGED state
        ELSE /\ state' = "throwing"
             /\ UNCHANGED <<scope, guards>>

(* The name ".": no change, and the guard keeps the current scope. *)
StayInScope(name) ==
    /\ guards' = Append(guards, [prev_scope_ |-> scope, name |-> name])
    /\ UNCHANGED <<scope, state>>

(* SetRelScope(): the name "." stays where it is; another relative name    *)
(* needs the name of the current scope, which without one is undefined.    *)
SVScoped(name) ==
    /\ state = "running" /\ Len(guards) < MaxDepth
    /\ CASE name.dots = 0 -> SetAbsScope(name.path, name)
         [] name = [dots |-> 1, path |-> <<>>] -> StayInScope(name)
         [] OTHER ->
               IF scope = NULL THEN state' = "crashed" /\ UNCHANGED <<scope, guards>>
               ELSE SetAbsScope(Resolved(scope, name), name)

(* ~SVScoped(), at the end of the C++ scope or while an exception passes. *)
Destroy ==
    /\ state # "crashed" /\ guards # <<>>
    /\ scope' = Last(guards).prev_scope_
    /\ guards' = Front(guards)
    /\ UNCHANGED state

(* The exception reaches a caller that handles it. *)
Catch ==
    /\ state = "throwing"
    /\ state' = "running"
    /\ UNCHANGED <<scope, guards>>

Next == (\E name \in Names : SVScoped(name)) \/ Destroy \/ Catch

Spec == Init /\ [][Next]_vars
---------------------------------------------------------------------------
(* The scopes that were current when the live guards were made. *)
Previous == [k \in DOMAIN guards |-> guards[k].prev_scope_]

Abstract == INSTANCE ScopeStack WITH stack <- Append(Previous, scope)

(* Guards nest: every scope that is entered is left for the one before it, *)
(* on the normal path and when exceptions pass any number of guards; one   *)
(* that cannot be made changes nothing.                                    *)
Nested == Abstract!Spec

(* The rule of the comment in sv_scoped.h, as moves in the tree of scopes: *)
(* each dot but the first goes to the parent, where there is one.          *)
Parent(s) == IF Front(s) \in Scopes THEN Front(s) ELSE s

Ancestor(s, n) ==
    LET up[k \in 0 .. n] == IF k = 0 THEN s ELSE Parent(up[k - 1])
    IN  up[n]

Goto(s, name) == IF name.dots = 0 THEN name.path ELSE Ancestor(s, name.dots - 1) \o name.path

(* Neither of the strings given to join_sv_scopes() is empty. *)
IsName(name) == name.dots > 0 \/ name.path # <<>>

(* The scope that was current after guard k was made. *)
After(k) == IF k = Len(guards) THEN scope ELSE guards[k + 1].prev_scope_

(* Every live guard led where its name leads from the scope before it, and *)
(* so does the current scope, whatever guards were made, failed or         *)
(* destroyed in between.                                                   *)
FollowsNames ==
    \A k \in DOMAIN guards : After(k) = Goto(guards[k].prev_scope_, guards[k].name)

(* Where the joined name leads, from every scope, also above the top.  If  *)
(* the second name has no dots: where the first leads and then the second, *)
(* taken relative to it.  If it has, "join two, possibly relative, scopes  *)
(* correctly" (sv_scoped.h:48) would have it lead to Goto(first, b).  What *)
(* the code gives instead is one level too far up, if the first name is    *)
(* only dots, and else no scope at all: "TOP.a" and ".b" give "TOP.a..b".  *)
JoinResolves ==
    scope # NULL =>
        \A a \in Names, b \in Names :
            LET first  == Goto(scope, a)
                joined == Goto(scope, join_sv_scopes(a, b))
            IN  (IsName(a) /\ IsName(b)) =>
                    /\ b.dots = 0 => joined = Goto(first, [dots |-> 1, path |-> b.path])
                    /\ b.dots > 0 /\ a.path = <<>> =>
                           joined = Goto(first, [dots |-> b.dots + 1, path |-> b.path])
                    /\ b.dots > 0 /\ a.path # <<>> => joined \notin Scopes
===========================================================================
