------------------------------- MODULE MCCraft -------------------------------
(* TLC instances of Craft: six situations, each with its own bounds. *)
EXTENDS Craft

Bounds(elections, term, len, requests, stops, restarts) ==
    [elections |-> elections, term |-> term, log |-> len,
     requests |-> requests, stops |-> stops, restarts |-> restarts]

Situations ==
    {Bounds(0, 1, 3, 3, 1, 0),   \* a follower that commits faster than its client reads
     Bounds(1, 1, 2, 0, 0, 0),   \* a leader of one term
     Bounds(1, 1, 1, 0, 1, 0),   \* a leader that is shut down
     Bounds(1, 2, 1, 1, 0, 0),   \* the lead changes
     Bounds(1, 2, 1, 0, 1, 0),   \* a CM that is shut down is revived by a reply
     Bounds(1, 1, 1, 2, 1, 1)}   \* a restart

MCInit == Started /\ budget \in Situations
MCSpec == MCInit /\ [][Next]_vars /\ Fairness
=============================================================================
