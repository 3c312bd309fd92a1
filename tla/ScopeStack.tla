---------------------------- MODULE ScopeStack ----------------------------
(***************************************************************************)
(* What scope guards promise: the scopes that were current form a stack of *)
(* existing scopes.  Entering a scope pushes it; leaving one makes exactly *)
(* the scope current again that was current before.                        *)
(***************************************************************************)
EXTENDS Sequences, SequencesExt

CONSTANTS Scopes, NULL

VARIABLE stack       \* the last element is the current scope

Init == stack \in {<<s>> : s \in Scopes \cup {NULL}}

Enter == \E s \in Scopes \cup {NULL} :
            /\ s \in Scopes \/ s = Last(stack)
            /\ stack' = Append(stack, s)

Leave == Len(stack) > 1 /\ stack' = Front(stack)

Spec == Init /\ [][Enter \/ Leave]_stack
===========================================================================
