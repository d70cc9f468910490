----------------------------- MODULE MCGoRaft ------------------------------
(* TLC instances of GoRaft. *)
EXTENDS GoRaft, TLC

\* Servers and commands are never ordered.
Symmetry == Permutations(Server) \cup Permutations(Command)

\* A client asks for a command, for none, or for two.
Batches == UNION {[1..n -> Command] : n \in 0..2}

\* After the first election: server l leads term 1 with the votes of all and has
\* its blank entry, which has been accepted by the servers in S.
LedInit ==
    \E l \in Server : \E S \in SUBSET Peers(l) :
        LET each(x, y) == [s \in Server |-> IF s \in S \cup {l} THEN x ELSE y]
            page == [NoFile EXCEPT !.page = TRUE, !.term = 1, !.votedFor = l]
            first == <<Entry(1, Blank)>>
        IN  /\ state = [s \in Server |-> IF s = l THEN "leader" ELSE "follower"]
            /\ currentTerm = [s \in Server |-> 1]
            /\ log = each(first, <<>>)
            /\ commitIndex = [s \in Server |-> 0]
            /\ lastApplied = [s \in Server |-> 1]
            /\ votedFor = [s \in Server |-> [j \in Server |->
                                IF s = l \/ s = j THEN l ELSE Nil]]
            /\ nextIndex = [s \in Server |-> [j \in Server |->
                    IF s # l THEN 0 ELSE IF j \in S \cup {l} THEN 2 ELSE 1]]
            /\ matchIndex = [s \in Server |-> [j \in Server |->
                    IF s = l /\ j \in S THEN 1 ELSE 0]]
            /\ sawCandidate = [s \in Server |-> FALSE]
            /\ disk = each([page EXCEPT !.len = 1, !.entries = first], page)
            /\ rv = [i \in Server |-> [j \in Server |-> [k \in Lane |-> NoRV]]]
            /\ ae = [i \in Server |-> [j \in Server |-> [k \in Lane |-> NoAE]]]
            /\ granted = {<<s, l, 1>> : s \in Server}
            /\ budget = [starts |-> MaxStarts, crashes |-> MaxCrashes]

LedSpec == LedInit /\ [][Next]_vars
=============================================================================
