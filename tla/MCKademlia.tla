----------------------------- MODULE MCKademlia -----------------------------
(* TLC instances of Kademlia: two situations, each with its own bounds. *)
EXTENDS Kademlia

SelfKey == <<0, 0, 0>>
Close == <<0, 0, 1>>
FarKeys == <<<<1, 0, 0>>, <<1, 0, 1>>, <<1, 1, 0>>, <<1, 1, 1>>>>
Far == {FarKeys[i] : i \in 1..4}
All == Far \cup {SelfKey, Close}
TargetKey == <<1, 1, 1>>

\* Nodes join until a bucket is full and more; one ping goes on.
Joining ==
    /\ buckets = [i \in Bucket |-> <<>>]
    /\ budget = [joins |-> MaxJoins, pings |-> MaxPings, lookups |-> 0,
                 deeper |-> 0]

\* Some nodes have joined and one lookup runs while another joins or one is
\* pinged.  (Nodes of one bucket differ in their keys only, so which of them
\* joined does not matter.)
LookingUp ==
    \E n \in 0..K, m \in 0..1, joins \in 0..1, pings \in 0..1, deeper \in 1..2 :
        /\ n + m + joins + pings + deeper <= 4
        /\ buckets = [i \in Bucket |->
            CASE i = 0 -> [j \in 1..n |-> [key |-> FarKeys[j], rtt |-> 0]]
              [] i = 1 -> <<>>
              [] i = 2 -> [j \in 1..m |-> [key |-> Close, rtt |-> 0]]]
        /\ budget = [joins |-> joins, pings |-> pings, lookups |-> 1,
                     deeper |-> deeper]

MCInit == Quiet /\ (Joining \/ LookingUp)
MCSpec == MCInit /\ [][Next]_vars /\ Fairness
=============================================================================
