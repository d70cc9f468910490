------------------------------ MODULE MCGossip ------------------------------
(* TLC instance of Gossip: three situations, each with its own bounds. *)
EXTENDS Gossip

CONSTANTS n1, n2, n3

Nodes == {n1, n2, n3}

\* n2 may have more peers than it forwards to.
Counts == [i \in Nodes |-> IF i = n2 THEN 1 ELSE 2]

\* The calls cs have been made, long ago.
Made(cs) ==
    call = [c \in Calls |-> [NoCall EXCEPT !.pc = IF c \in cs THEN "ended" ELSE "free"]]

Known(i) == DOMAIN peers[i]

\* Two broadcasts, before the first tick, among peers that form a chain, a star,
\* a cycle of two or of three.
Broadcasting ==
    /\ looping = {} /\ Made({})
    /\ <<Known(n1), Known(n2), Known(n3)>> \in
         {<<{n2}, {n3}, {}>>, <<{}, {n1, n3}, {}>>, <<{n2, n3}, {}, {}>>,
          <<{n2}, {n1}, {}>>, <<{n2}, {n3}, {n1}>>}

\* The loop of n1, and nothing is broadcast any more.
Idle ==
    /\ looping = {n1} /\ Made(Calls)
    /\ Known(n1) = {n2, n3} /\ Known(n2) \subseteq {n3} /\ Known(n3) = {}

\* The loop of n1 and a broadcast; n1 has one peer, which has none.
Both ==
    /\ looping = {n1} /\ Made({2, 5})
    /\ Known(n1) = {n2} /\ Known(n2) = {} /\ Known(n3) = {}

MCInit == Quiet /\ (Broadcasting \/ Idle \/ Both)
MCSpec == MCInit /\ [][Next]_vars /\ Fairness
=============================================================================
