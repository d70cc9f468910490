---------------------------- MODULE MCKVService ----------------------------
(* TLC instance of KVService: two situations, each with its bounds. *)
EXTENDS KVService, TLC

CONSTANTS a, b, x, y

Two == 0..1

\* Each caller has a client of its own.
OwnClient == a :> 1 @@ b :> 2

\* Appending is what executing twice would show; CAS sees the result.
AppendOp == [kind |-> "append", value |-> <<x>>, compare |-> <<>>]
CASOp == [kind |-> "cas", value |-> <<y>>, compare |-> <<x>>]
OneEach == a :> {AppendOp} @@ b :> {CASOp}

Attempts == a :> 3 @@ b :> 1

\* The leadership moves and comes back, or moves once and a service restarts.
MCInit ==
    /\ Quiet
    /\ \/ elects = MaxElects /\ restarts = 0
       \/ elects = MaxElects - 1 /\ restarts = MaxRestarts
MCSpec == MCInit /\ [][Next]_vars
=============================================================================
