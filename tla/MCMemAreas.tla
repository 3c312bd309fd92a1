---------------------------- MODULE MCMemAreas ----------------------------
(* Three words of two lanes: the second lane is not aligned to bytes, and  *)
(* a permuted address may be 3, which the memory does not have.            *)
EXTENDS MemAreas

A == Hex(<<\hdead, \hbeef>>)
B == Hex(<<\h0000, \h00ff>>)
Ws(s) == UNION {Shl(s[j], 32 * (j - 1)) : j \in DOMAIN s}

MCData == {[bits |-> Ws(<<A, B>>), bytes |-> 8],
           [bits |-> Ws(<<Ones(32), A, Ones(32), B>>), bytes |-> 13]}

G(w) == [good |-> TRUE, word |-> w]
X(w) == [good |-> FALSE, word |-> w]
MCEccData == {<<G(A), X(B)>>, <<X(A), G(B), G(Ones(32)), G({})>>, <<G(A)>>}

MCStrays == {{}, Ones(64)}
MCKeys == {Hex(<<\h1111, \h2222, \h3333, \h4444, \h5555, \h6666, \h7777, \h8888>>), {}}
MCNonces == {Hex(<<\h9abc, \hdef0, \h1234, \h5678, \h8abc, \hdef0, \h1234, \h5678>>),
             Hex(<<\h0000, \h0000, \h0000, \h0001, \h0000, \h0000, \h0000, \h0001>>)}
MCFlips == {{38}, {39}, {7, 31}, {31, 32}, {38, 39}, {8, 32, 38}, {40, 41, 77}}
===========================================================================
