-------------------------- MODULE ConsensusModule --------------------------
(***************************************************************************)
(* The Raft consensus module of raft/part3 (raft.go, server.go,            *)
(* storage.go): elections, log replication and persistence of a cluster of *)
(* CMs that call each other's RequestVote and AppendEntries.               *)
(*                                                                         *)
(* Atomicity.  An action is what one goroutine does between taking cm.mu   *)
(* and releasing it.  A remote call is therefore four steps of two         *)
(* goroutines: it is spawned, its arguments are built and sent, the peer's *)
(* handler runs, the reply is handled; anything may happen between them.   *)
(*                                                                         *)
(* Indices.  Index n of the Go code is n + 1 here, so the log is an        *)
(* ordinary sequence, the Go value -1 ("no entry") is 0, and commitIndex   *)
(* is the number of committed entries.  Terms are unchanged: -1 is the     *)
(* term of an entry that does not exist.                                   *)
(***************************************************************************)
EXTENDS Integers, Sequences, FiniteSets

CONSTANTS
    Server,       \* the CMs of the cluster
    Command,      \* the commands clients submit
    Lane,         \* rounds of calls a CM can have outstanding at once
    Nil,          \* votedFor = -1
    MaxElections, \* bound on the number of elections started
    MaxLog,       \* no command is submitted to a log of this length
    MaxRounds,    \* bound on the leaderSendAEs rounds; none if negative
    MaxFails,     \* bound on the number of calls that fail
    MaxStops,     \* bound on the number of Stop calls
    MaxRestarts,  \* bound on the number of restarts from storage
    Timely        \* TRUE: a CM's calls end before its election timer fires

ASSUME ServerAssumption == IsFiniteSet(Server) /\ Server # {}
ASSUME NilAssumption == Nil \notin Server
ASSUME TimelyAssumption == Timely \in BOOLEAN
ASSUME BoundAssumption ==
    /\ MaxElections \in Nat /\ MaxLog \in Nat /\ MaxRounds \in Int
    /\ MaxFails \in Nat /\ MaxStops \in Nat /\ MaxRestarts \in Nat

VARIABLES
    \* the fields of each CM
    state, currentTerm, votedFor, log, commitIndex, nextIndex, matchIndex,
    applied,        \* what was sent on commitChan; lastApplied is its length
    votesReceived,  \* votesReceived[i][k]: voters counted by the election of
                    \* CM i whose calls run in lane k
    storage,        \* what persistToStorage last wrote
    rv, ae,         \* rv[i][j][k], ae[i][j][k]: the RequestVote and
                    \* AppendEntries call from i to j in lane k
    elected,        \* history: <<i, t>> when CM i has become leader of term t
    granted,        \* history: <<j, i, t>> when CM j has voted for i in term t
    chosen,         \* history: the longest prefix a leader has committed, which
                    \* outlives the restarts that reset commitIndex
    forgotten,      \* history: <<i, t>> when CM i led term t and was restarted
                    \* from a storage that had not heard of term t
    misdated,       \* history: <<i, t>> when CM i has sent an AppendEntries of
                    \* term t from a log with newer entries than that
    budget          \* what is left of the bounds; log and lanes stay as they
                    \* are: the longest log and the lanes in use

cmVars == <<state, currentTerm, votedFor, log, commitIndex>>
leaderVars == <<nextIndex, matchIndex>>
history == <<elected, granted, chosen, forgotten, misdated>>
vars == <<cmVars, leaderVars, applied, votesReceived, storage, rv, ae,
          history, budget>>

-----------------------------------------------------------------------------
(* Data *)

CMState == {"Follower", "Candidate", "Leader", "Dead"}

LogEntry == [term : Nat, command : Command]

Peers(i) == Server \ {i}

IsQuorum(S) == Cardinality(S) * 2 > Cardinality(Server)

\* The life of a call: "spawned" is the goroutine before it builds its
\* arguments; "orphan" is a call whose caller has given up (its connection was
\* closed, or it was restarted) while the request can still reach the peer.
CallPC == {"idle", "spawned", "sent", "replied", "orphan"}

RVCall == [pc : CallPC, term : Nat, lastLogIndex : Nat, lastLogTerm : Int,
           rterm : Nat, voteGranted : BOOLEAN]

AECall == [pc : CallPC, term : Nat, prevLogIndex : Nat, prevLogTerm : Int,
           entries : Seq(LogEntry), leaderCommit : Nat,
           rterm : Nat, success : BOOLEAN,
           conflictIndex : Nat \ {0}, conflictTerm : Int]

\* A call that does not exist; spawning one sets pc and term.
NoRV == [pc |-> "idle", term |-> 0, lastLogIndex |-> 0, lastLogTerm |-> -1,
         rterm |-> 0, voteGranted |-> FALSE]

NoAE == [pc |-> "idle", term |-> 0, prevLogIndex |-> 0, prevLogTerm |-> -1,
         entries |-> <<>>, leaderCommit |-> 0,
         rterm |-> 0, success |-> FALSE,
         conflictIndex |-> 1, conflictTerm |-> 0]

Pending(c) == c.pc \in {"spawned", "sent", "replied"}

\* lastLogIndexAndTerm; TermAt is also cm.log[n].Term, guarded.
TermAt(l, n) == IF n \in 1..Len(l) THEN l[n].term ELSE -1
LastTerm(l) == TermAt(l, Len(l))

Least(S) == CHOOSE n \in S : \A m \in S : n <= m
Greatest(S) == CHOOSE n \in S : \A m \in S : n >= m

PersistedWithoutVote(term, vote, l) ==
    [currentTerm |-> term, votedFor |-> Nil, log |-> l]

PersistedWithoutLog(term, vote, l) ==
    [currentTerm |-> term, votedFor |-> vote, log |-> <<>>]

\* What persistToStorage writes.
Persisted(term, vote, l) ==
    [currentTerm |-> term, votedFor |-> vote, log |-> l]

Init ==
    /\ state = [i \in Server |-> "Follower"]
    /\ currentTerm = [i \in Server |-> 0]
    /\ votedFor = [i \in Server |-> Nil]
    /\ log = [i \in Server |-> <<>>]
    /\ matchIndex = [i \in Server |-> [j \in Server |-> 0]]
    /\ commitIndex = [i \in Server |-> 0]
    /\ applied = [i \in Server |-> <<>>]
    /\ nextIndex = [i \in Server |-> [j \in Server |-> 1]]
    /\ votesReceived = [i \in Server |-> [k \in Lane |-> {}]]
    /\ storage = [i \in Server |-> Persisted(0, Nil, <<>>)]
    /\ rv = [i \in Server |-> [j \in Server |-> [k \in Lane |-> NoRV]]]
    /\ ae = [i \in Server |-> [j \in Server |-> [k \in Lane |-> NoAE]]]
    /\ elected = {}
    /\ granted = {}
    /\ chosen = <<>>
    /\ forgotten = {}
    /\ misdated = {}
    /\ budget = [elections |-> MaxElections, rounds |-> MaxRounds,
                 fails |-> MaxFails, stops |-> MaxStops,
                 restarts |-> MaxRestarts, log |-> MaxLog, lanes |-> Lane]

-----------------------------------------------------------------------------
(* Elections *)

NewTermAlways(argTerm, ownTerm) == argTerm

\* A message that carries a newer term than the CM's own is adopted.
NewTerm(argTerm, ownTerm) == IF argTerm > ownTerm THEN argTerm ELSE ownTerm

\* becomeFollower(term), as the new values of state, currentTerm and votedFor.
BecomeFollower(i, term) ==
    /\ state' = [state EXCEPT ![i] = "Follower"]
    /\ currentTerm' = [currentTerm EXCEPT ![i] = term]
    /\ votedFor' = [votedFor EXCEPT ![i] = Nil]

\* The election timer of CM i fires: runElectionTimer calls startElection.
\* Neither persists the new term or the CM's vote for itself.
StartElection(i, k) ==
    /\ state[i] \in {"Follower", "Candidate"}
    /\ budget.elections > 0 /\ k \in budget.lanes
    /\ \A j \in Server : rv[i][j][k].pc = "idle"
    /\ Timely => \A j \in Server, l \in Lane :
                    ~Pending(rv[i][j][l]) /\ ~Pending(ae[i][j][l])
    /\ state' = [state EXCEPT ![i] = "Candidate"]
    /\ currentTerm' = [currentTerm EXCEPT ![i] = @ + 1]
    /\ votedFor' = [votedFor EXCEPT ![i] = i]
    /\ votesReceived' = [votesReceived EXCEPT ![i][k] = {i}]
    /\ rv' = [rv EXCEPT ![i] = [j \in Server |->
                [@[j] EXCEPT ![k] =
                    IF j = i THEN NoRV
                    ELSE [NoRV EXCEPT !.pc = "spawned",
                                      !.term = currentTerm[i] + 1]]]]
    /\ budget' = [budget EXCEPT !.elections = @ - 1]
    /\ UNCHANGED <<log, commitIndex, leaderVars, applied, storage, ae,
                   history>>

\* The goroutine of one peer reads the log and sends its request.
SendRequestVote(i, j, k) ==
    /\ rv[i][j][k].pc = "spawned"
    /\ rv' = [rv EXCEPT ![i][j][k] =
                [@ EXCEPT !.pc = "sent",
                          !.lastLogIndex = Len(log[i]),
                          !.lastLogTerm = LastTerm(log[i])]]
    /\ UNCHANGED <<cmVars, leaderVars, applied, votesReceived, storage, ae,
                   history, budget>>

\* The request is at the peer, whether or not its caller still waits.
Arrived(c) == c.pc \in {"sent", "orphan"}

\* args.LastLogTerm/LastLogIndex are at least as up to date as log l.
UpToDate(c, l) ==
    \/ c.lastLogTerm > LastTerm(l)
    \/ c.lastLogTerm = LastTerm(l) /\ c.lastLogIndex >= Len(l)

GrantsVote(c, i, term, vote, l) ==
    c.term = term /\ vote \in {Nil, i} /\ UpToDate(c, l)

\* CM j handles a RequestVote of CM i.
RequestVote(i, j, k) ==
    LET c == rv[i][j][k]
        newer == c.term > currentTerm[j]
        term == NewTerm(c.term, currentTerm[j])
        vote == IF newer THEN Nil ELSE votedFor[j]
        grants == GrantsVote(c, i, term, vote, log[j])
        newVote == IF grants THEN i ELSE vote
    IN  /\ Arrived(c)
        /\ state[j] # "Dead"
        /\ state' = [state EXCEPT ![j] = IF newer THEN "Follower" ELSE @]
        /\ currentTerm' = [currentTerm EXCEPT ![j] = term]
        /\ votedFor' = [votedFor EXCEPT ![j] = newVote]
        /\ storage' = [storage EXCEPT ![j] = Persisted(term, newVote, log[j])]
        /\ rv' = [rv EXCEPT ![i][j][k] = IF c.pc = "orphan" THEN NoRV ELSE
                [c EXCEPT !.pc = "replied", !.rterm = term,
                          !.voteGranted = grants]]
        /\ granted' = IF grants THEN granted \cup {<<j, i, term>>} ELSE granted
        /\ UNCHANGED <<log, commitIndex, leaderVars, applied, votesReceived,
                       ae, elected, chosen, forgotten, misdated, budget>>

\* A dead CM returns at once and leaves the reply as it was: all zero.
DeadRequestVote(i, j, k) ==
    /\ Arrived(rv[i][j][k])
    /\ state[j] = "Dead"
    /\ rv' = [rv EXCEPT ![i][j][k] =
                IF @.pc = "orphan" THEN NoRV ELSE [@ EXCEPT !.pc = "replied"]]
    /\ UNCHANGED <<cmVars, leaderVars, applied, votesReceived, storage, ae,
                   history, budget>>

StartLeaderBeyond(i) ==
    /\ matchIndex' = [matchIndex EXCEPT ![i] = [j \in Server |-> 0]]
    /\ elected' = elected \cup {<<i, currentTerm[i]>>}
    /\ nextIndex' = [nextIndex EXCEPT ![i] =
                        [j \in Server |-> Len(log[i]) + 2]]
    /\ state' = [state EXCEPT ![i] = "Leader"]

\* startLeader: nextIndex is the length of the log, matchIndex is -1.
StartLeader(i) ==
    /\ matchIndex' = [matchIndex EXCEPT ![i] = [j \in Server |-> 0]]
    /\ elected' = elected \cup {<<i, currentTerm[i]>>}
    /\ nextIndex' = [nextIndex EXCEPT ![i] =
                        [j \in Server |-> Len(log[i]) + 1]]
    /\ state' = [state EXCEPT ![i] = "Leader"]

CountsRefusal(i, c) == state[i] = "Candidate" /\ c.rterm = c.term

\* A vote counts towards the election it was asked for when the CM is a
\* candidate: in whichever term that is.
CountsVote(i, c) ==
    state[i] = "Candidate" /\ c.rterm = c.term /\ c.voteGranted

\* CM i handles the reply of CM j to its RequestVote.
RequestVoteReply(i, j, k) ==
    LET c == rv[i][j][k]
        votes == votesReceived[i][k] \cup {j}
    IN  /\ c.pc = "replied"
        /\ rv' = [rv EXCEPT ![i][j][k] = NoRV]
        /\ \/ /\ state[i] = "Candidate" /\ c.rterm > c.term
              /\ BecomeFollower(i, c.rterm)
              /\ UNCHANGED <<leaderVars, votesReceived, elected>>
           \/ /\ CountsVote(i, c)
              /\ votesReceived' = [votesReceived EXCEPT ![i][k] = votes]
              /\ IF IsQuorum(votes)
                   THEN StartLeader(i)
                   ELSE UNCHANGED <<state, leaderVars, elected>>
              /\ UNCHANGED <<currentTerm, votedFor>>
           \/ /\ ~(state[i] = "Candidate" /\ c.rterm > c.term)
              /\ ~CountsVote(i, c)
              /\ UNCHANGED <<state, currentTerm, votedFor, leaderVars,
                             votesReceived, elected>>
        /\ UNCHANGED <<log, commitIndex, applied, storage, ae, granted,
                       chosen, forgotten, misdated, budget>>

-----------------------------------------------------------------------------
(* Log replication *)

\* A client submits a command to CM i, which only a leader accepts.
Submit(i, v) ==
    LET newLog == Append(log[i], [term |-> currentTerm[i], command |-> v])
    IN  /\ state[i] = "Leader"
        /\ Len(log[i]) < budget.log
        /\ log' = [log EXCEPT ![i] = newLog]
        /\ storage' = [storage EXCEPT ![i] =
                        Persisted(currentTerm[i], votedFor[i], newLog)]
        /\ UNCHANGED <<state, currentTerm, votedFor, commitIndex, leaderVars,
                       applied, votesReceived, rv, ae, history, budget>>

\* leaderSendAEs, on a heartbeat or a trigger: save the term, spawn one
\* goroutine per peer, release the lock.
LeaderSendAEs(i, k) ==
    /\ state[i] = "Leader"
    /\ budget.rounds # 0 /\ k \in budget.lanes
    /\ \A j \in Server : ae[i][j][k].pc = "idle"
    /\ budget' = [budget EXCEPT !.rounds = IF @ > 0 THEN @ - 1 ELSE @]
    /\ ae' = [ae EXCEPT ![i] = [j \in Server |->
                [@[j] EXCEPT ![k] =
                    IF j = i THEN NoAE
                    ELSE [NoAE EXCEPT !.pc = "spawned",
                                      !.term = currentTerm[i]]]]]
    /\ UNCHANGED <<cmVars, leaderVars, applied, votesReceived, storage, rv,
                   history>>

\* The goroutine of one peer builds its arguments from what the CM holds by
\* then: it does not look again whether the CM still leads.  (Its entries share
\* the array of the log and are encoded after the unlock; here they are what
\* the goroutine saw under the lock.)
SendAppendEntries(i, j, k) ==
    LET prev == nextIndex[i][j] - 1
    IN  /\ ae[i][j][k].pc = "spawned"
        /\ prev <= Len(log[i])
        /\ ae' = [ae EXCEPT ![i][j][k] =
                    [@ EXCEPT !.pc = "sent",
                              !.prevLogIndex = prev,
                              !.prevLogTerm = TermAt(log[i], prev),
                              !.entries = SubSeq(log[i], prev + 1, Len(log[i])),
                              !.leaderCommit = commitIndex[i]]]
        /\ misdated' = IF LastTerm(log[i]) > ae[i][j][k].term
                       THEN misdated \cup {<<i, ae[i][j][k].term>>}
                       ELSE misdated
        /\ UNCHANGED <<cmVars, leaderVars, applied, votesReceived, storage, rv,
                       elected, granted, chosen, forgotten, budget>>

\* The calls that remain once the process of CM i is gone: its own end without
\* a reply, though a request already sent can still reach its peer; requests
\* that were on their way to it fail.
Disconnected(calls, i, none) ==
    [a \in Server |-> [b \in Server |-> [k \in Lane |->
        LET c == calls[a][b][k]
        IN  IF a = i
            THEN IF Arrived(c) THEN [c EXCEPT !.pc = "orphan"] ELSE none
            ELSE IF b = i /\ Arrived(c) THEN none ELSE c]]]

\* The same goroutine when the log has been cut below nextIndex since: the
\* slice expression is out of range and the process of CM i dies.
SendAppendEntriesPanics(i, j, k) ==
    /\ ae[i][j][k].pc = "spawned"
    /\ nextIndex[i][j] - 1 > Len(log[i])
    /\ state' = [state EXCEPT ![i] = "Dead"]
    /\ rv' = Disconnected(rv, i, NoRV)
    /\ ae' = Disconnected(ae, i, NoAE)
    /\ UNCHANGED <<currentTerm, votedFor, log, commitIndex, leaderVars,
                   applied, votesReceived, storage, history, budget>>

MergeOverwriting(l, prev, entries) == SubSeq(l, 1, prev) \o entries

\* The follower's log after a matching AppendEntries: entries are compared
\* with the log from prev on; nothing changes unless one is new or its term
\* mismatches, and then everything from there on is replaced.
Merge(l, prev, entries) ==
    LET new == {n \in 1..Len(entries) : TermAt(l, prev + n) # entries[n].term}
    IN  IF new = {} THEN l
        ELSE LET n == Least(new)
             IN  SubSeq(l, 1, prev + n - 1) \o SubSeq(entries, n, Len(entries))

\* The first index of the run of entries of one term that ends at prev.
ConflictIndex(l, prev) ==
    Least({n \in 1..prev : \A m \in n..prev : l[m].term = l[prev].term})

PrevPresent(c, l) == c.prevLogIndex <= Len(l)

PrevMatches(c, l) ==
    c.prevLogIndex = 0 \/ ( /\ c.prevLogIndex <= Len(l)
                            /\ c.prevLogTerm = l[c.prevLogIndex].term )

\* CM j handles an AppendEntries of CM i.
AppendEntries(i, j, k) ==
    LET c == ae[i][j][k]
        term == NewTerm(c.term, currentTerm[j])
        current == c.term = term
        stepsDown == \/ c.term > currentTerm[j]
                     \/ current /\ state[j] # "Follower"
        vote == IF stepsDown THEN Nil ELSE votedFor[j]
        success == current /\ PrevMatches(c, log[j])
        newLog == IF success THEN Merge(log[j], c.prevLogIndex, c.entries)
                  ELSE log[j]
        short == c.prevLogIndex > Len(log[j])
    IN  /\ Arrived(c)
        /\ state[j] # "Dead"
        /\ state' = [state EXCEPT ![j] = IF stepsDown THEN "Follower" ELSE @]
        /\ currentTerm' = [currentTerm EXCEPT ![j] = term]
        /\ votedFor' = [votedFor EXCEPT ![j] = vote]
        /\ log' = [log EXCEPT ![j] = newLog]
        /\ commitIndex' = [commitIndex EXCEPT ![j] =
                IF success /\ c.leaderCommit > @
                THEN Least({c.leaderCommit, Len(newLog)}) ELSE @]
        /\ storage' = [storage EXCEPT ![j] = Persisted(term, vote, newLog)]
        /\ ae' = [ae EXCEPT ![i][j][k] = IF c.pc = "orphan" THEN NoAE ELSE
                [c EXCEPT !.pc = "replied", !.rterm = term,
                          !.success = success,
                          !.conflictIndex =
                             CASE ~current \/ success -> @
                               [] current /\ ~success /\ short -> Len(log[j]) + 1
                               [] OTHER -> ConflictIndex(log[j], c.prevLogIndex),
                          !.conflictTerm =
                             CASE ~current \/ success -> @
                               [] current /\ ~success /\ short -> -1
                               [] OTHER -> TermAt(log[j], c.prevLogIndex)]]
        /\ UNCHANGED <<leaderVars, applied, votesReceived, rv, history, budget>>

DeadAppendEntries(i, j, k) ==
    /\ Arrived(ae[i][j][k])
    /\ state[j] = "Dead"
    /\ ae' = [ae EXCEPT ![i][j][k] =
                IF @.pc = "orphan" THEN NoAE ELSE [@ EXCEPT !.pc = "replied"]]
    /\ UNCHANGED <<cmVars, leaderVars, applied, votesReceived, storage, rv,
                   history, budget>>

CommittedAnyTerm(i, match) ==
    LET held == {n \in (commitIndex[i] + 1)..Len(log[i]) :
                    IsQuorum({i} \cup {p \in Peers(i) : match[p] >= n})}
    IN  IF held = {} THEN commitIndex[i] ELSE Greatest(held)

\* The leader's new commitIndex: the last entry of its own term that a
\* majority holds, counting itself and the peers whose matchIndex reaches it.
Committed(i, match) ==
    LET held == {n \in (commitIndex[i] + 1)..Len(log[i]) :
                    /\ log[i][n].term = currentTerm[i]
                    /\ IsQuorum({i} \cup {p \in Peers(i) : match[p] >= n})}
    IN  IF held = {} THEN commitIndex[i] ELSE Greatest(held)

ResumeBeyond(i, c) == c.conflictIndex + 1

ResumeBefore(i, c) == c.conflictIndex - 1

\* Where the leader resumes after a failed consistency check: behind its last
\* entry of the conflicting term, or at the follower's conflictIndex.
Resume(i, c) ==
    LET same == {n \in 1..Len(log[i]) : log[i][n].term = c.conflictTerm}
    IN  IF c.conflictTerm >= 0 /\ same # {} THEN Greatest(same) + 1
        ELSE c.conflictIndex

\* What has been chosen once a leader with log l has committed its first n
\* entries.
ChosenAfter(l, n) ==
    IF n \in (Len(chosen) + 1)..Len(l) THEN SubSeq(l, 1, n) ELSE chosen

\* The reply concerns the leadership it was sent in: savedCurrentTerm is
\* compared with the reply only.
Relevant(i, c) == state[i] = "Leader" /\ c.rterm = c.term

\* CM i handles the reply of CM j to its AppendEntries.  The test for a newer
\* term comes before any test of the state.
AppendEntriesReply(i, j, k) ==
    LET c == ae[i][j][k]
        next == c.prevLogIndex + 1 + Len(c.entries)
        match == [matchIndex[i] EXCEPT ![j] = next - 1]
        newer == c.rterm > currentTerm[i]
    IN  /\ c.pc = "replied"
        /\ ae' = [ae EXCEPT ![i][j][k] = NoAE]
        /\ \/ /\ newer
              /\ BecomeFollower(i, c.rterm)
              /\ UNCHANGED <<leaderVars, commitIndex, chosen>>
           \/ /\ ~newer /\ Relevant(i, c) /\ c.success
              /\ nextIndex' = [nextIndex EXCEPT ![i][j] = next]
              /\ matchIndex' = [matchIndex EXCEPT ![i] = match]
              /\ commitIndex' = [commitIndex EXCEPT ![i] = Committed(i, match)]
              /\ chosen' = ChosenAfter(log[i], Committed(i, match))
              /\ UNCHANGED <<state, currentTerm, votedFor>>
           \/ /\ ~newer /\ Relevant(i, c) /\ ~c.success
              /\ nextIndex' = [nextIndex EXCEPT ![i][j] = Resume(i, c)]
              /\ UNCHANGED <<state, currentTerm, votedFor, matchIndex,
                             commitIndex, chosen>>
           \/ /\ ~newer /\ ~Relevant(i, c)
              /\ UNCHANGED <<state, currentTerm, votedFor, leaderVars,
                             commitIndex, chosen>>
        /\ UNCHANGED <<log, applied, votesReceived, storage, rv, elected,
                       granted, forgotten, misdated, budget>>

ApplyWholeLog(i) ==
    /\ commitIndex[i] \in (Len(applied[i]) + 1)..Len(log[i])
    /\ applied' = [applied EXCEPT ![i] = log[i]]
    /\ UNCHANGED <<cmVars, leaderVars, votesReceived, storage, rv, ae,
                   history, budget>>

\* commitChanSender delivers what has been committed since it last did.
ApplyCommitted(i) ==
    /\ commitIndex[i] \in (Len(applied[i]) + 1)..Len(log[i])
    /\ applied' = [applied EXCEPT ![i] =
            @ \o SubSeq(log[i], Len(@) + 1, commitIndex[i])]
    /\ UNCHANGED <<cmVars, leaderVars, votesReceived, storage, rv, ae,
                   history, budget>>

-----------------------------------------------------------------------------
(* Failures *)

\* Server.Call returns an error: the proxy dropped the call, or the peer's
\* connection is closed.  A request that was sent may or may not be handled.
CallFails(c, c2, none) ==
    \/ c.pc \in {"spawned", "sent", "replied", "orphan"} /\ c2 = none
    \/ c.pc = "sent" /\ c2 = [c EXCEPT !.pc = "orphan"]

RequestVoteFails(i, j, k) ==
    /\ budget.fails > 0
    /\ budget' = [budget EXCEPT !.fails = @ - 1]
    /\ \E c2 \in {NoRV, [rv[i][j][k] EXCEPT !.pc = "orphan"]} :
          /\ CallFails(rv[i][j][k], c2, NoRV)
          /\ rv' = [rv EXCEPT ![i][j][k] = c2]
    /\ UNCHANGED <<cmVars, leaderVars, applied, votesReceived, storage, ae,
                   history>>

AppendEntriesFails(i, j, k) ==
    /\ budget.fails > 0
    /\ budget' = [budget EXCEPT !.fails = @ - 1]
    /\ \E c2 \in {NoAE, [ae[i][j][k] EXCEPT !.pc = "orphan"]} :
          /\ CallFails(ae[i][j][k], c2, NoAE)
          /\ ae' = [ae EXCEPT ![i][j][k] = c2]
    /\ UNCHANGED <<cmVars, leaderVars, applied, votesReceived, storage, rv,
                   history>>

\* Stop: the CM is dead; its goroutines still run until they notice.
Stop(i) ==
    /\ budget.stops > 0
    /\ state[i] # "Dead"
    /\ budget' = [budget EXCEPT !.stops = @ - 1]
    /\ state' = [state EXCEPT ![i] = "Dead"]
    /\ UNCHANGED <<currentTerm, votedFor, log, commitIndex, leaderVars,
                   applied, votesReceived, storage, rv, ae, history>>

\* restoreFromStorage; a CM whose storage has no data keeps the initial values,
\* which is what storage holds then.
RestoreFromStorage(i) ==
    /\ currentTerm' = [currentTerm EXCEPT ![i] = storage[i].currentTerm]
    /\ votedFor' = [votedFor EXCEPT ![i] = storage[i].votedFor]
    /\ log' = [log EXCEPT ![i] = storage[i].log]

\* A new Server and CM over the storage of a stopped one: the persistent
\* fields are restored, the others start afresh, and the connections of the
\* old server are gone.
Restart(i) ==
    /\ budget.restarts > 0
    /\ state[i] = "Dead"
    /\ budget' = [budget EXCEPT !.restarts = @ - 1]
    /\ state' = [state EXCEPT ![i] = "Follower"]
    /\ RestoreFromStorage(i)
    /\ commitIndex' = [commitIndex EXCEPT ![i] = 0]
    /\ matchIndex' = [matchIndex EXCEPT ![i] = [j \in Server |-> 0]]
    /\ applied' = [applied EXCEPT ![i] = <<>>]
    /\ nextIndex' = [nextIndex EXCEPT ![i] = [j \in Server |-> 1]]
    /\ votesReceived' = [votesReceived EXCEPT ![i] = [k \in Lane |-> {}]]
    /\ rv' = Disconnected(rv, i, NoRV)
    /\ ae' = Disconnected(ae, i, NoAE)
    /\ forgotten' = forgotten \cup
            {e \in elected : e[1] = i /\ e[2] > storage[i].currentTerm}
    /\ UNCHANGED <<storage, elected, granted, chosen, misdated>>

-----------------------------------------------------------------------------
(* Specification *)

CallStep(i, j, k) ==
    \/ SendRequestVote(i, j, k)
    \/ RequestVote(i, j, k)
    \/ DeadRequestVote(i, j, k)
    \/ RequestVoteReply(i, j, k)
    \/ SendAppendEntries(i, j, k)
    \/ SendAppendEntriesPanics(i, j, k)
    \/ AppendEntries(i, j, k)
    \/ DeadAppendEntries(i, j, k)
    \/ AppendEntriesReply(i, j, k)

CallFailure(i, j, k) ==
    \/ RequestVoteFails(i, j, k)
    \/ AppendEntriesFails(i, j, k)

Next ==
    \/ \E i \in Server, k \in Lane : StartElection(i, k) \/ LeaderSendAEs(i, k)
    \/ \E i, j \in Server, k \in Lane : CallStep(i, j, k) \/ CallFailure(i, j, k)
    \/ \E i \in Server, v \in Command : Submit(i, v)
    \/ \E i \in Server : ApplyCommitted(i) \/ Stop(i) \/ Restart(i)

Spec == Init /\ [][Next]_vars

\* Goroutines are scheduled, calls come to an end, a leader's heartbeat ticks.
\* Nothing is assumed of clients, of timers or of failures.
Fairness ==
    /\ \A i, j \in Server, k \in Lane : WF_vars(CallStep(i, j, k))
    /\ \A i \in Server, k \in Lane : WF_vars(LeaderSendAEs(i, k))
    /\ \A i \in Server : WF_vars(ApplyCommitted(i))

-----------------------------------------------------------------------------
(* Properties *)

\* The variables have the types of the fields and calls they model.
TypeOK ==
    /\ state \in [Server -> CMState]
    /\ currentTerm \in [Server -> Nat]
    /\ votedFor \in [Server -> Server \cup {Nil}]
    /\ log \in [Server -> Seq(LogEntry)]
    /\ commitIndex \in [Server -> Nat]
    /\ nextIndex \in [Server -> [Server -> Nat \ {0}]]
    /\ matchIndex \in [Server -> [Server -> Nat]]
    /\ applied \in [Server -> Seq(LogEntry)]
    /\ votesReceived \in [Server -> [Lane -> SUBSET Server]]
    /\ storage \in [Server -> [currentTerm : Nat, votedFor : Server \cup {Nil},
                               log : Seq(LogEntry)]]
    /\ rv \in [Server -> [Server -> [Lane -> RVCall]]]
    /\ ae \in [Server -> [Server -> [Lane -> AECall]]]
    /\ elected \in SUBSET (Server \X Nat)
    /\ granted \in SUBSET (Server \X Server \X Nat)
    /\ chosen \in Seq(LogEntry)
    /\ forgotten \in SUBSET (Server \X Nat)
    /\ misdated \in SUBSET (Server \X Nat)
    /\ budget \in [elections : Nat, rounds : Int, fails : Nat,
                   stops : Nat, restarts : Nat, log : Nat,
                   lanes : SUBSET Lane]

\* No two CMs believe at the same time that they lead the same term.
ElectionSafety ==
    \A i, j \in Server :
        /\ state[i] = "Leader" /\ state[j] = "Leader"
        /\ currentTerm[i] = currentTerm[j]
        => i = j

\* A term has one leader for all time, not only at any one time.
OneLeaderPerTerm ==
    \A e, f \in elected : e[2] = f[2] => e = f

\* The same as long as no leadership was forgotten.  startElection persists
\* neither the new term nor the CM's vote for itself: a CM that leads a term,
\* submits nothing and is restarted can vote for another in that term.
OneLeaderUnlessForgotten == forgotten = {} => OneLeaderPerTerm

\* Logs that agree on the term of an entry agree on everything up to it.
LogMatching ==
    \A i, j \in Server : \A n \in 1..Len(log[i]) :
        n <= Len(log[j]) /\ log[i][n].term = log[j][n].term
            => SubSeq(log[i], 1, n) = SubSeq(log[j], 1, n)

\* l starts with p.
Holds(l, p) == Len(p) <= Len(l) /\ SubSeq(l, 1, Len(p)) = p

\* A leader holds everything that has been chosen, unless its term is older
\* than the last chosen entry; and what any CM regards as committed was chosen.
\* The first holds as long as no leadership was forgotten: a request of the
\* forgotten leader that is still on its way is of the term of the one who
\* leads it now, and can cut off what that one has committed.  The second also
\* needs that no request is misdated: a CM that accepts newer entries than its
\* own term also accepts older requests that replace them.
LeaderCompleteness ==
    forgotten = {} =>
        /\ \A i \in Server :
              state[i] = "Leader" /\ LastTerm(chosen) <= currentTerm[i]
                  => Holds(log[i], chosen)
        /\ misdated = {} => \A j \in Server :
              /\ commitIndex[j] <= Len(chosen)
              /\ Holds(log[j], SubSeq(chosen, 1, commitIndex[j]))

\* What a leader believes a peer of its own term holds, it does hold, as long
\* as no leadership was forgotten.
MatchIndexSound ==
    forgotten = {} => \A i, j \in Server :
        /\ state[i] = "Leader" /\ j # i
        /\ currentTerm[j] = currentTerm[i]
        => /\ matchIndex[i][j] <= Len(log[j])
           /\ SubSeq(log[i], 1, matchIndex[i][j])
                = SubSeq(log[j], 1, matchIndex[i][j])

\* A leader's nextIndex and matchIndex stay inside its log, so that the slices
\* leaderSendAEs takes exist.  (nextIndex need not stay above matchIndex: the
\* reply to an older call that failed may be handled after one that succeeded.)
NextIndexInRange ==
    \A i \in Server, j \in Server :
        state[i] = "Leader" /\ j # i
            => /\ nextIndex[i][j] <= Len(log[i]) + 1
               /\ matchIndex[i][j] <= Len(log[i])

\* A CM's term only grows, except when it is restarted.
TermGrows ==
    [][\A i \in Server : currentTerm'[i] >= currentTerm[i]
                            \/ budget'.restarts < budget.restarts]_vars

\* A leader whose last entry is of its own term either loses its leadership or
\* gets its log delivered by every live CM: however far the logs had diverged, the
\* conflict index and term bring nextIndex to the point where they agree.
Replicates ==
    \A i \in Server :
        (state[i] = "Leader" /\ LastTerm(log[i]) = currentTerm[i])
            ~> \/ state[i] # "Leader"
               \/ \A j \in Server : state[j] = "Dead" \/ applied[j] = log[i]

-----------------------------------------------------------------------------
(* Why ElectionSafety holds: an inductive invariant *)

\* CM j, which has voted for i in term t, cannot vote for another in term t:
\* as it is now, and as it would be after a restart.
BoundInMemory(j, i, t) ==
    \/ currentTerm[j] > t
    \/ /\ currentTerm[j] = t /\ votedFor[j] = i
       /\ state[j] \in {"Follower", "Dead"}

BoundInStorage(j, i, t) ==
    \/ storage[j].currentTerm > t
    \/ storage[j].currentTerm = t /\ storage[j].votedFor = i

\* A vote binds its voter, and is given to one candidate of a term only.
VotesBind ==
    \A i, j \in Server, t \in {g[3] : g \in granted} :
        <<j, i, t>> \in granted =>
            /\ BoundInMemory(j, i, t) /\ BoundInStorage(j, i, t)
            /\ \A h \in Server : <<j, h, t>> \in granted => h = i

\* A CM calls only others; a reply says it was granted a vote only if it was.
RepliesHonest ==
    \A i, j \in Server, k \in Lane :
        LET c == rv[i][j][k]
        IN  /\ i = j => c.pc = "idle"
            /\ c.voteGranted => c.pc = "replied" /\ <<j, i, c.term>> \in granted

\* A candidate's calls are of its present term: what Timely is for.
CallsCurrent ==
    \A i, j \in Server, k \in Lane :
        state[i] = "Candidate" /\ Pending(rv[i][j][k])
            => rv[i][j][k].term = currentTerm[i]

\* A candidate or leader has voted for itself.
VotesForItself ==
    \A i \in Server : state[i] \in {"Candidate", "Leader"} => votedFor[i] = i

\* The voters an election has counted did vote for it.
CountHonest ==
    \A i, j \in Server, k \in Lane :
        state[i] = "Candidate" /\ Pending(rv[i][j][k])
            => \A v \in votesReceived[i][k] \ {i} :
                    <<v, i, currentTerm[i]>> \in granted

\* A leader has a majority behind it.
LeaderElected ==
    \A i \in Server : state[i] = "Leader" =>
        \E Q \in SUBSET Server :
            /\ IsQuorum(Q)
            /\ \A v \in Q \ {i} : <<v, i, currentTerm[i]>> \in granted

ElectionInv ==
    /\ VotesBind /\ RepliesHonest /\ CallsCurrent
    /\ VotesForItself /\ CountHonest /\ LeaderElected
=============================================================================
