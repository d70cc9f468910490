------------------------- MODULE MCConsensusModule -------------------------
(* TLC instances of ConsensusModule. *)
EXTENDS ConsensusModule, TLC

\* CMs and commands are never ordered, so permuting them changes nothing.
Symmetry == Permutations(Server) \cup Permutations(Command)

\* For MaxRounds.
Unbounded == -1

\* The bounds of a run that explores one situation.
FullBudget ==
    [elections |-> MaxElections, rounds |-> MaxRounds, fails |-> MaxFails,
     stops |-> MaxStops, restarts |-> MaxRestarts, log |-> MaxLog,
     lanes |-> Lane]

\* A state in which no call is outstanding and nothing has been committed.
Quiet(bounds) ==
    /\ matchIndex = [i \in Server |-> [j \in Server |-> 0]]
    /\ commitIndex = [i \in Server |-> 0]
    /\ applied = [i \in Server |-> <<>>]
    /\ rv = [i \in Server |-> [j \in Server |-> [k \in Lane |-> NoRV]]]
    /\ ae = [i \in Server |-> [j \in Server |-> [k \in Lane |-> NoAE]]]
    /\ chosen = <<>>
    /\ forgotten = {}
    /\ misdated = {}
    /\ budget = bounds

\* Nothing has happened yet: Init with these bounds.
Fresh(bounds) ==
    /\ Quiet(bounds)
    /\ state = [i \in Server |-> "Follower"]
    /\ currentTerm = [i \in Server |-> 0]
    /\ votedFor = [i \in Server |-> Nil]
    /\ log = [i \in Server |-> <<>>]
    /\ nextIndex = [i \in Server |-> [j \in Server |-> 1]]
    /\ votesReceived = [i \in Server |-> [k \in Lane |-> {}]]
    /\ storage = [i \in Server |->
                    [currentTerm |-> 0, votedFor |-> Nil, log |-> <<>>]]
    /\ elected = {}
    /\ granted = {}

\* After the first election: CM l leads term 1 with the votes of everybody,
\* v's being the one that arrived first.
LedInit(bounds) ==
    /\ Quiet(bounds)
    /\ \E l \in Server : \E v \in Peers(l), k \in bounds.lanes :
        /\ state = [i \in Server |-> IF i = l THEN "Leader" ELSE "Follower"]
        /\ currentTerm = [i \in Server |-> 1]
        /\ votedFor = [i \in Server |-> l]
        /\ log = [i \in Server |-> <<>>]
        /\ nextIndex = [i \in Server |-> [j \in Server |-> 1]]
        /\ votesReceived = [i \in Server |-> [m \in Lane |->
                                IF i = l /\ m = k THEN {l, v} ELSE {}]]
        /\ storage = [i \in Server |->
                        IF i = l
                        THEN [currentTerm |-> 0, votedFor |-> Nil, log |-> <<>>]
                        ELSE [currentTerm |-> 1, votedFor |-> l, log |-> <<>>]]
        /\ elected = {<<l, 1>>}
        /\ granted = {<<i, l, 1>> : i \in Peers(l)}

\* After four elections among three CMs, the situation of Figure 8 of the Raft
\* paper: CM old led term 1 and took two commands that reached nobody; CM new
\* led term 3 and took one; old now leads term 4, new has heard of it from an
\* AppendEntries whose reply was lost, and old has learnt that the third CM's
\* log is empty.  The third CM voted for each of them; every other call failed.
\* (Term 2 was led by old, too.)  oldTerms are the terms of the entries in
\* old's log.
Diverged(oldTerms, bounds) ==
    /\ Quiet(bounds)
    /\ \E old, new, third \in Server, v \in Command, k \in bounds.lanes :
        LET entries(ts) == [n \in 1..Len(ts) |-> [term |-> ts[n], command |-> v]]
            each(x, y, z) == [i \in Server |->
                CASE i = old -> x [] i = new -> y [] i = third -> z]
        IN  /\ Server = {old, new, third}
            /\ Cardinality(Server) = 3
            /\ state = each("Leader", "Follower", "Follower")
            /\ currentTerm = [i \in Server |-> 4]
            /\ votedFor = each(old, Nil, old)
            /\ log = each(entries(oldTerms), entries(<<3>>), <<>>)
            /\ nextIndex = [i \in Server |-> [j \in Server |->
                                IF i = old /\ j # third THEN 3 ELSE 1]]
            /\ votesReceived = [i \in Server |-> [m \in Lane |->
                    IF i # third /\ m = k THEN {i, third} ELSE {}]]
            /\ storage = each(
                 [currentTerm |-> oldTerms[Len(oldTerms)], votedFor |-> old,
                  log |-> log[old]],
                 [currentTerm |-> 4, votedFor |-> Nil, log |-> log[new]],
                 [currentTerm |-> 4, votedFor |-> old, log |-> <<>>])
            /\ elected = {<<old, 1>>, <<old, 2>>, <<new, 3>>, <<old, 4>>}
            /\ granted = {<<third, e[1], e[2]>> : e \in elected}

\* After old has taken a command in term 4, with fair scheduling.
FairDivergedSpec ==
    Diverged(<<1, 1, 4>>, FullBudget) /\ [][Next]_vars /\ Fairness
=============================================================================
