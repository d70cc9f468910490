------------------------------ MODULE MCHRaftd ------------------------------
(* TLC instance of HRaftd. *)
EXTENDS HRaftd, TLC

CONSTANTS n1, n2, n3, a, b, d, k1, k2, p1, p2, p3

Nodes == {n1, n2, n3}
Founding == n1 :> p1 @@ n2 :> p2

\* One client sets two keys, one deletes a key, and a node joins: a new one,
\* perhaps twice, one that is a member, or one with another's address or ID.
Requests ==
    a :> {Post(k1 :> "x" @@ k2 :> "x")} @@ b :> {Delete(k1), JoinOf(n3, p3)}
      @@ d :> {JoinOf(n3, p3), JoinOf(n2, p2), JoinOf(n3, p2), JoinOf(n2, p3)}

\* Some of the clients have nothing to ask.
Silent(cs) ==
    req = [c \in Caller |->
             [NoRequest EXCEPT !.status = IF c \in cs THEN "500" ELSE "none"]]

Bounds(e, s, r) == elects = e /\ budget = [snapshots |-> s, restarts |-> r]

\* Both clients write, to nodes that take a snapshot and restart.
Writing == Silent({d}) /\ Bounds(0, 1, 1)

\* They write while the leadership moves, twice.
Electing == Silent({d}) /\ Bounds(2, 0, 0)

\* A node joins while another request is made and the leadership moves.
JoiningNode == Silent({a}) /\ Bounds(1, 1, 0)

MCInit == Quiet /\ (Writing \/ Electing \/ JoiningNode)
MCSpec == MCInit /\ [][Next]_vars
=============================================================================
