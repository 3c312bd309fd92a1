---------------------------- MODULE AtomicBus ----------------------------
(***************************************************************************)
(* What the interconnect of the simple system promises its hosts: in every *)
(* clock cycle it takes at most one of the waiting requests, has its whole *)
(* effect on the memory and the output at once, and gives the host that    *)
(* made it, and only that one, an answer in the next cycle.  A request     *)
(* that is not taken goes on waiting.  Instructions are fetched at the     *)
(* same time and see the memory before the request that is taken.          *)
(***************************************************************************)
EXTENDS Naturals, Sequences

CONSTANTS
    Hosts, NoRequest,
    Fails(_),              \* does the request end in an error?
    ReadsMemory(_),        \* is it a read of the memory, with an answer that
    Contents(_, _),        \* is the word it asks for, given the memory?
    Effect(_, _),          \* the memory after it
    Output(_)              \* the set of characters it prints

VARIABLES
    waiting,     \* host -> the request it makes, or NoRequest
    answer,      \* host -> the set of answers of this cycle: [err, data]
    fetch,       \* the set of words that are fetched: requests
    fetched,     \* the set of words that arrive from the fetch before
    memory,
    printed      \* the set of characters printed by the cycle before

Silent == [h \in Hosts |-> {}]

(* The cycle in which the request of host h is taken. *)
Take(h) ==
    LET r == waiting[h] IN
    /\ r # NoRequest
    /\ \A g \in Hosts :
          IF g # h THEN answer'[g] = {}
          ELSE \E a \in answer'[g] :
                  /\ answer'[g] = {a}
                  /\ a.err = Fails(r)
                  /\ ReadsMemory(r) => a.data = Contents(memory, r)
    /\ memory' = Effect(memory, r)
    /\ printed' = Output(r)

TakeNone ==
    /\ answer' = Silent /\ printed' = {}
    /\ UNCHANGED memory

Cycle ==
    /\ fetched' = {Contents(memory, f) : f \in fetch}
    /\ \/ TakeNone /\ \A g \in Hosts : waiting[g] = NoRequest
       \/ \E h \in Hosts :
             /\ Take(h)
             /\ \A g \in Hosts \ {h} : waiting[g] # NoRequest => waiting'[g] = waiting[g]

(* Reset drops the requests and the answers and leaves the memory. *)
Reset ==
    /\ TakeNone
    /\ fetched' = {}
    /\ waiting' = [h \in Hosts |-> NoRequest]

vars == <<waiting, answer, fetch, fetched, memory, printed>>

Init == answer = Silent /\ fetched = {} /\ printed = {}

Spec == Init /\ [][Cycle \/ Reset]_vars
===========================================================================
