----------------------------- MODULE MCKVPlain -----------------------------
(* TLC instance of KVServicePlain: five situations, each with its bounds. *)
EXTENDS KVServicePlain, TLC

CONSTANTS a, b, d

Two == 0..1

\* One caller writes, one swaps and one reads.
Ops == a :> {Put("x")} @@ b :> {CAS("x", "y")} @@ d :> {Get}

Attempts == a :> 3 @@ b :> 1 @@ d :> 1

\* The attempts each caller has left.
Left(left) ==
    call = [c \in Caller |-> [NoCall EXCEPT !.attempt = Attempts[c] - left[c]]]

\* A service stops and starts again, while a request is sent again, or one
\* writes and one reads.
Crashing ==
    /\ current = 0 /\ elects = 1
    /\ Left(a :> 2 @@ b :> 0 @@ d :> 0) \/ Left(a :> 1 @@ b :> 0 @@ d :> 1)
    /\ budget = [crashes |-> 1, mutes |-> 0]

\* A service is told not to answer.
Mute ==
    /\ elects = 1 /\ Left(a :> 1 @@ b :> 0 @@ d :> 1)
    /\ budget = [crashes |-> 0, mutes |-> 1]

\* The leadership moves and comes back: for a request that goes from service to
\* service and back, or for two, of which one is sent again.
Electing ==
    /\ current = 0 /\ elects = MaxElects
    /\ Left(a :> 3 @@ b :> 0 @@ d :> 0) \/ Left(a :> 2 @@ b :> 1 @@ d :> 0)
    /\ budget = [crashes |-> 0, mutes |-> 0]

\* Service 0 has taken the first attempts of a and b, whose callers hung up, has
\* lost the lead and both entries to service 1, which has a's second attempt;
\* its subscriptions for them are left.
LeftBehind ==
    LET put == [NoHandler EXCEPT !.request = 1, !.op = Put("x"), !.attempt = 2]
        sub(c, n) == [caller |-> c, attempt |-> n]
    IN  /\ log = [s \in Service |-> <<[id |-> 1, op |-> put.op, from |-> <<a, 1, 2>>]>>]
        /\ committed = <<>> /\ current = 1 /\ leaders = {1} /\ elects = 1
        /\ call = a :> [pc |-> "waiting", request |-> 1, attempt |-> 2, target |-> 1,
                        op |-> put.op, since |-> 0]
                   @@ b :> [NoCall EXCEPT !.request = 1, !.attempt = 1,
                                          !.op = CAS("x", "y")]
                   @@ d :> [NoCall EXCEPT !.attempt = 1]
        /\ assumedLeader = [c \in Caller |-> IF c = a THEN 1 ELSE 0]
        /\ outcome = [c \in Caller |-> IF c # b THEN NoOutcome ELSE
                [NoOutcome EXCEPT !.status = "Error", !.request = 1, !.attempt = 1,
                                  !.alone = TRUE]]
        /\ handler = [s \in Service |-> [c \in Caller |->
                IF s = 1 /\ c = a
                THEN [put EXCEPT !.pc = "waiting", !.index = 1, !.alone = TRUE]
                ELSE NoHandler]]
        /\ commitSubs = 0 :> <<sub(a, 1), sub(b, 1)>> @@ 1 :> <<sub(a, 2), NoSub>>
        /\ data = [s \in Service |-> Absent] /\ applied = [s \in Service |-> 0]
        /\ alive = Service /\ answering = Service
        /\ budget = [crashes |-> 0, mutes |-> 0]

MCInit == (Quiet /\ (Crashing \/ Mute \/ Electing)) \/ LeftBehind
MCSpec == MCInit /\ [][Next]_vars
=============================================================================
