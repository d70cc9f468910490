------------------------------ MODULE GoRaft -------------------------------
(***************************************************************************)
(* The Raft server of goraft (raft.go): its main loop, its RPC handlers    *)
(* and the goroutines of its calls, and the metadata file it persists to.  *)
(*                                                                         *)
(* Atomicity.  An action is what runs under one hold of s.mu.  The main    *)
(* loop reads s.state under the lock, releases it, and then calls the      *)
(* functions of that state, which take the lock again.  What it has read   *)
(* matters for becomeLeader alone, and is sawCandidate: timeout does the   *)
(* same for a follower and a candidate, advanceCommitIndex looks again,    *)
(* and heartbeat only starts goroutines, which take the lock later still.  *)
(*                                                                         *)
(* rpcCall has no timeout: a call ends when it is answered or when one of  *)
(* the two processes ends.  One that is lost is one whose next step never  *)
(* happens.                                                                *)
(*                                                                         *)
(* Indices are those of the code.  s.log[0], the entry that is always      *)
(* there, has term 0 and is left out of the sequence.                      *)
(***************************************************************************)
EXTENDS Integers, Sequences, FiniteSets

CONSTANTS
    Server,        \* the members of the cluster
    Command,       \* what clients want applied
    Batch,         \* the lists of commands they call Apply with
    Blank,         \* the command of the entry a new leader appends
    Nil,           \* votedFor = 0
    MaxEntries,    \* MAX_APPEND_ENTRIES_BATCH
    Lane,          \* rounds of calls a server can have outstanding at once
    MaxStarts,     \* bound on the rounds of requestVote and appendEntries
    MaxLog,        \* no command makes a log longer than this
    MaxCrashes     \* bound on the number of crashes

ASSUME NilAssumption == Nil \notin Server
ASSUME BlankAssumption == Blank \notin Command
ASSUME BatchAssumption == \A vs \in Batch : vs \in Seq(Command)
ASSUME MaxEntriesAssumption == MaxEntries \in Nat \ {0}

VARIABLES
    state, currentTerm, log, commitIndex,
    lastApplied,            \* the next entry to apply
    votedFor,               \* votedFor[s][j]: s.cluster[j].votedFor
    nextIndex, matchIndex,  \* of s.cluster[j]
    sawCandidate,           \* the main loop has read that s is a candidate
    disk,                   \* the metadata file
    rv, ae,                 \* the calls from i to j in lane k
    granted,                \* history: <<voter, candidate, term>>
    budget                  \* what is left of the bounds

memberVars == <<nextIndex, matchIndex>>
vars == <<state, currentTerm, log, commitIndex, lastApplied, votedFor,
          memberVars, sawCandidate, disk, rv, ae, granted, budget>>

Peers(s) == Server \ {s}
Quorum == Cardinality(Server) \div 2 + 1
TermAt(l, n) == IF n \in 1..Len(l) THEN l[n].term ELSE 0
LastTerm(l) == TermAt(l, Len(l))
Entry(t, c) == [term |-> t, command |-> c]
Least(S) == CHOOSE n \in S : \A m \in S : n <= m
Greatest(S) == CHOOSE n \in S : \A m \in S : n >= m

NoRV == [pc |-> "idle", term |-> 0, lastLogIndex |-> 0, lastLogTerm |-> 0,
         rterm |-> 0, voteGranted |-> FALSE]
NoAE == [pc |-> "idle", term |-> 0, prevLogIndex |-> 0, prevLogTerm |-> 0,
         entries |-> <<>>, leaderCommit |-> 0, rterm |-> 0, success |-> FALSE]

Up(s) == state[s] # "down"

-----------------------------------------------------------------------------
(* The metadata file: a page with term, vote and length, then the entries *)

NoFile == [page |-> FALSE, term |-> 0, votedFor |-> Nil, len |-> 0,
           entries |-> <<>>]

PageWithoutVote(d, term, vote, l) ==
    [d EXCEPT !.page = TRUE, !.term = term, !.len = Len(l)]

\* persist(false, 0): the page alone.
Page(d, term, vote, l) ==
    [d EXCEPT !.page = TRUE, !.term = term, !.votedFor = vote, !.len = Len(l)]

WrittenOneShort(old, l, n) ==
    SubSeq(old, 1, Len(l) - n) \o SubSeq(l, Len(l) - n + 1, Len(l) - 1)
        \o SubSeq(old, Len(l), Len(old))

\* The entries in the file when the last n of log l have been written.  What
\* the file held beyond them stays.
Written(old, l, n) ==
    SubSeq(old, 1, Len(l) - n) \o SubSeq(l, Len(l) - n + 1, Len(l))
        \o SubSeq(old, Len(l) + 1, Len(old))

\* persist(true, n)
PersistLog(d, term, vote, l, n) ==
    [Page(d, term, vote, l) EXCEPT !.entries = Written(@, l, n)]

\* restore reads as many entries as the page says, s.log[0] among them: the
\* file must hold them.
Restorable(d) == d.page => d.entries # <<>> /\ d.len <= Len(d.entries)

RestoredLog(d) == SubSeq(d.entries, 1, d.len)

-----------------------------------------------------------------------------

Init ==
    /\ state = [s \in Server |-> "follower"]
    /\ currentTerm = [s \in Server |-> 0]
    /\ log = [s \in Server |-> <<>>]
    /\ commitIndex = [s \in Server |-> 0]
    /\ lastApplied = [s \in Server |-> 0]
    /\ votedFor = [s \in Server |-> [j \in Server |-> Nil]]
    /\ nextIndex = [s \in Server |-> [j \in Server |-> 0]]
    /\ matchIndex = [s \in Server |-> [j \in Server |-> 0]]
    /\ sawCandidate = [s \in Server |-> FALSE]
    /\ disk = [s \in Server |-> NoFile]
    /\ rv = [i \in Server |-> [j \in Server |-> [k \in Lane |-> NoRV]]]
    /\ ae = [i \in Server |-> [j \in Server |-> [k \in Lane |-> NoAE]]]
    /\ granted = {}
    /\ budget = [starts |-> MaxStarts, crashes |-> MaxCrashes]

\* requestVote and appendEntries start a goroutine per peer.
Spawn(calls, s, k, none) ==
    [calls EXCEPT ![s] = [j \in Server |->
        IF j = s THEN @[j] ELSE [@[j] EXCEPT ![k] = [none EXCEPT !.pc = "spawned"]]]]

LaneFree(calls, s, k) == \A j \in Server : calls[s][j][k].pc = "idle"

UpdatesToAny(s, term) == term # currentTerm[s]

\* updateTerm takes place.
UpdatesTerm(s, term) == term > currentTerm[s]

\* The reply handlers return when it does.
StepsDown(s, term) ==
    /\ UpdatesTerm(s, term)
    /\ currentTerm' = [currentTerm EXCEPT ![s] = term]
    /\ state' = [state EXCEPT ![s] = "follower"]
    /\ votedFor' = [votedFor EXCEPT ![s][s] = Nil]
    /\ disk' = [disk EXCEPT ![s] = Page(@, term, Nil, log[s])]

Arrived(c) == c.pc \in {"sent", "orphan"}

\* The calls that remain when the process of s is gone.
Disconnected(calls, s, none) ==
    [a \in Server |-> [b \in Server |-> [k \in Lane |->
        LET c == calls[a][b][k]
        IN  IF a = s THEN IF Arrived(c) THEN [c EXCEPT !.pc = "orphan"] ELSE none
            ELSE IF b = s /\ Arrived(c) THEN none ELSE c]]]

\* A panic outside a handler ends the process.
Dies(s) ==
    /\ state' = [state EXCEPT ![s] = "down"]
    /\ rv' = Disconnected(rv, s, NoRV)
    /\ ae' = Disconnected(ae, s, NoAE)

-----------------------------------------------------------------------------
(* The main loop *)

\* The loop reads that the server is a candidate.
LoopReads(s) ==
    /\ ~sawCandidate[s]
    /\ state[s] = "candidate"
    /\ sawCandidate' = [sawCandidate EXCEPT ![s] = TRUE]
    /\ UNCHANGED <<state, currentTerm, log, commitIndex, lastApplied, votedFor,
                   memberVars, disk, rv, ae, granted, budget>>

\* timeout: the election timer has run out.
Timeout(s, k) ==
    /\ state[s] \in {"follower", "candidate"}
    /\ budget.starts > 0
    /\ LaneFree(rv, s, k)
    /\ budget' = [budget EXCEPT !.starts = @ - 1]
    /\ state' = [state EXCEPT ![s] = "candidate"]
    /\ currentTerm' = [currentTerm EXCEPT ![s] = @ + 1]
    /\ votedFor' = [votedFor EXCEPT ![s] =
                        [j \in Server |-> IF j = s THEN s ELSE Nil]]
    /\ disk' = [disk EXCEPT ![s] = Page(@, currentTerm[s] + 1, s, log[s])]
    /\ rv' = Spawn(rv, s, k, NoRV)
    /\ granted' = granted \cup {<<s, s, currentTerm[s] + 1>>}
    /\ UNCHANGED <<log, commitIndex, lastApplied, memberVars, sawCandidate,
                   ae>>

\* becomeLeader, called by a loop that has seen a candidate: it counts the
\* votes in s.cluster and does not look at the state again.
BecomeLeader(s) ==
    LET newLog == Append(log[s], Entry(currentTerm[s], Blank))
        wins == Cardinality({j \in Server : votedFor[s][j] = s}) >= Quorum
    IN  /\ sawCandidate[s] /\ Up(s)
        /\ sawCandidate' = [sawCandidate EXCEPT ![s] = FALSE]
        /\ IF wins
             THEN /\ state' = [state EXCEPT ![s] = "leader"]
                  /\ nextIndex' = [nextIndex EXCEPT ![s] =
                                      [j \in Server |-> Len(log[s]) + 2]]
                  /\ matchIndex' = [matchIndex EXCEPT ![s] =
                                      [j \in Server |-> 0]]
                  /\ log' = [log EXCEPT ![s] = newLog]
                  /\ disk' = [disk EXCEPT ![s] =
                        PersistLog(@, currentTerm[s], votedFor[s][s], newLog, 1)]
             ELSE UNCHANGED <<state, memberVars, log, disk>>
        /\ UNCHANGED <<currentTerm, commitIndex, lastApplied, votedFor, rv, ae,
                       granted, budget>>

\* heartbeat, called by a loop that has seen a leader: when it is time,
\* appendEntries starts its goroutines.  (They read the server's state when
\* they run, so that it may have changed since the loop read it is in them.)
Heartbeat(s, k) ==
    /\ state[s] = "leader"
    /\ budget.starts > 0
    /\ LaneFree(ae, s, k)
    /\ budget' = [budget EXCEPT !.starts = @ - 1]
    /\ ae' = Spawn(ae, s, k, NoAE)
    /\ UNCHANGED <<state, currentTerm, log, commitIndex, lastApplied, votedFor,
                   memberVars, sawCandidate, disk, rv, granted>>

\* The last entry that a quorum holds: of whatever term.
QuorumIndex(s) ==
    LET held == {n \in (commitIndex[s] + 1)..Len(log[s]) :
                    Cardinality({s} \cup {j \in Peers(s) : matchIndex[s][j] >= n})
                        >= Quorum}
    IN  IF held = {} THEN commitIndex[s] ELSE Greatest(held)

\* advanceCommitIndex: a leader commits, and one entry is applied, s.log[0]
\* the first.  It may run on a candidate, which the timeout before it in the
\* same turn of the loop has made of a follower.  To apply an entry that has
\* been cut off is an index out of range.
AdvanceCommitIndex(s) ==
    LET commit == IF state[s] = "leader" THEN QuorumIndex(s) ELSE commitIndex[s]
        applies == lastApplied[s] <= commit
    IN  /\ Up(s)
        /\ applies \/ commit # commitIndex[s]
        /\ commitIndex' = [commitIndex EXCEPT ![s] = commit]
        /\ lastApplied' = [lastApplied EXCEPT ![s] = IF applies THEN @ + 1 ELSE @]
        /\ IF applies /\ lastApplied[s] > Len(log[s])
             THEN Dies(s)
             ELSE UNCHANGED <<state, rv, ae>>
        /\ UNCHANGED <<currentTerm, log, votedFor, memberVars, sawCandidate,
                       disk, granted, budget>>

\* Apply: a client's commands enter the leader's log; appendEntries follows.
\* When there are none, persist(true, 0) writes the whole log.
Apply(s, vs, k) ==
    LET newLog == log[s] \o [n \in 1..Len(vs) |-> Entry(currentTerm[s], vs[n])]
        new == IF vs = <<>> THEN Len(newLog) ELSE Len(vs)
    IN  /\ state[s] = "leader"
        /\ Len(newLog) <= MaxLog
        /\ budget.starts > 0
        /\ LaneFree(ae, s, k)
        /\ budget' = [budget EXCEPT !.starts = @ - 1]
        /\ log' = [log EXCEPT ![s] = newLog]
        /\ disk' = [disk EXCEPT ![s] =
                PersistLog(@, currentTerm[s], votedFor[s][s], newLog, new)]
        /\ ae' = Spawn(ae, s, k, NoAE)
        /\ UNCHANGED <<state, currentTerm, commitIndex, lastApplied, votedFor,
                       memberVars, sawCandidate, rv, granted>>

-----------------------------------------------------------------------------
(* RequestVote *)

\* The goroutine builds the request from what the server is by then.
SendRequestVote(i, j, k) ==
    /\ rv[i][j][k].pc = "spawned"
    /\ rv' = [rv EXCEPT ![i][j][k] =
            [@ EXCEPT !.pc = "sent", !.term = currentTerm[i],
                      !.lastLogIndex = Len(log[i]),
                      !.lastLogTerm = LastTerm(log[i])]]
    /\ UNCHANGED <<state, currentTerm, log, commitIndex, lastApplied, votedFor,
                   memberVars, sawCandidate, disk, ae, granted, budget>>

LogOk(c, l) ==
    \/ c.lastLogTerm > LastTerm(l)
    \/ c.lastLogTerm = LastTerm(l) /\ c.lastLogIndex >= Len(l)

HandleRequestVoteRequest(i, j, k) ==
    LET c == rv[i][j][k]
        newer == UpdatesTerm(j, c.term)
        term == IF newer THEN c.term ELSE currentTerm[j]
        vote == IF newer THEN Nil ELSE votedFor[j][j]
        grant == c.term = term /\ LogOk(c, log[j]) /\ vote \in {Nil, i}
        newVote == IF grant THEN i ELSE vote
    IN  /\ Arrived(c) /\ Up(j)
        /\ currentTerm' = [currentTerm EXCEPT ![j] = term]
        /\ state' = [state EXCEPT ![j] = IF newer THEN "follower" ELSE @]
        /\ votedFor' = [votedFor EXCEPT ![j][j] = newVote]
        /\ disk' = [disk EXCEPT ![j] =
                IF newer \/ grant THEN Page(@, term, newVote, log[j]) ELSE @]
        /\ granted' = IF grant THEN granted \cup {<<j, i, term>>} ELSE granted
        /\ rv' = [rv EXCEPT ![i][j][k] =
                IF c.pc = "orphan" THEN NoRV
                ELSE [c EXCEPT !.pc = "replied", !.rterm = term,
                               !.voteGranted = grant]]
        /\ UNCHANGED <<log, commitIndex, lastApplied, memberVars, sawCandidate,
                       ae, budget>>

\* The response: a vote of the request's own term is noted in s.cluster.
RequestVoteResponse(i, j, k) ==
    LET c == rv[i][j][k]
    IN  /\ c.pc = "replied"
        /\ rv' = [rv EXCEPT ![i][j][k] = NoRV]
        /\ \/ StepsDown(i, c.rterm)
           \/ /\ ~UpdatesTerm(i, c.rterm)
              /\ votedFor' = [votedFor EXCEPT ![i][j] =
                                IF c.rterm = c.term /\ c.voteGranted THEN i ELSE @]
              /\ UNCHANGED <<currentTerm, state, disk>>
        /\ UNCHANGED <<log, commitIndex, lastApplied, memberVars, sawCandidate,
                       ae, granted, budget>>

-----------------------------------------------------------------------------
(* AppendEntries *)

\* The goroutine builds the request from what the server is by then, leader or
\* not, with a batch of entries at most.  When the log has been cut below
\* nextIndex, the index is out of range and the process dies.  (entries shares
\* the array of s.log and is encoded after the lock has been released; the
\* entries here are those the goroutine saw under the lock.)
SendAppendEntries(i, j, k) ==
    LET prev == nextIndex[i][j] - 1
        last == Least({Len(log[i]), prev + MaxEntries})
    IN  /\ ae[i][j][k].pc = "spawned"
        /\ IF prev <= Len(log[i])
             THEN /\ ae' = [ae EXCEPT ![i][j][k] =
                        [@ EXCEPT !.pc = "sent", !.term = currentTerm[i],
                                  !.prevLogIndex = prev,
                                  !.prevLogTerm = TermAt(log[i], prev),
                                  !.entries = SubSeq(log[i], prev + 1, last),
                                  !.leaderCommit = commitIndex[i]]]
                  /\ UNCHANGED <<state, rv>>
             ELSE Dies(i)
        /\ UNCHANGED <<currentTerm, log, commitIndex, lastApplied, votedFor,
                       memberVars, sawCandidate, disk, granted, budget>>

\* How many of the entries are not in log l yet, up to the first that is or
\* that conflicts: from there on the log is replaced.
NumNew(l, prev, entries) ==
    LET new == {n \in 1..Len(entries) : prev + n > Len(l)
                                          \/ l[prev + n].term # entries[n].term}
    IN  IF new = {} THEN 0 ELSE Len(entries) - Least(new) + 1

HandleAppendEntriesRequest(i, j, k) ==
    LET c == ae[i][j][k]
        newer == UpdatesTerm(j, c.term)
        term == IF newer THEN c.term ELSE currentTerm[j]
        vote == IF newer THEN Nil ELSE votedFor[j][j]
        newState == IF newer \/ (c.term = term /\ state[j] = "candidate")
                    THEN "follower" ELSE state[j]
        success == /\ newState = "follower" /\ c.term = term
                   /\ \/ c.prevLogIndex = 0
                      \/ /\ c.prevLogIndex <= Len(log[j])
                         /\ log[j][c.prevLogIndex].term = c.prevLogTerm
        n == IF success THEN NumNew(log[j], c.prevLogIndex, c.entries) ELSE 0
        kept == Len(c.entries) - n
        newLog == IF n = 0 THEN log[j]
                  ELSE SubSeq(log[j], 1, c.prevLogIndex + kept)
                         \o SubSeq(c.entries, kept + 1, Len(c.entries))
    IN  /\ Arrived(c) /\ Up(j)
        /\ currentTerm' = [currentTerm EXCEPT ![j] = term]
        /\ state' = [state EXCEPT ![j] = newState]
        /\ votedFor' = [votedFor EXCEPT ![j][j] = vote]
        /\ log' = [log EXCEPT ![j] = newLog]
        /\ commitIndex' = [commitIndex EXCEPT ![j] =
                IF success /\ c.leaderCommit > @
                THEN Least({c.leaderCommit, Len(newLog)}) ELSE @]
        /\ disk' = [disk EXCEPT ![j] =
                CASE n > 0              -> PersistLog(@, term, vote, newLog, n)
                  [] n = 0 /\ (newer \/ success) -> Page(@, term, vote, newLog)
                  [] OTHER              -> @]
        /\ ae' = [ae EXCEPT ![i][j][k] =
                IF c.pc = "orphan" THEN NoAE
                ELSE [c EXCEPT !.pc = "replied", !.rterm = term,
                               !.success = success]]
        /\ UNCHANGED <<lastApplied, memberVars, sawCandidate, rv, granted,
                       budget>>

\* The response.  One of another term is dropped only by a leader.
AppendEntriesResponse(i, j, k) ==
    LET c == ae[i][j][k]
        next == IF c.success THEN c.prevLogIndex + Len(c.entries) + 1
                ELSE Greatest({nextIndex[i][j] - 1, 1})
        drops == c.rterm # c.term /\ state[i] = "leader"
    IN  /\ c.pc = "replied"
        /\ ae' = [ae EXCEPT ![i][j][k] = NoAE]
        /\ \/ StepsDown(i, c.rterm) /\ UNCHANGED memberVars
           \/ /\ ~UpdatesTerm(i, c.rterm)
              /\ IF drops THEN UNCHANGED memberVars
                 ELSE /\ nextIndex' = [nextIndex EXCEPT ![i][j] = next]
                      /\ matchIndex' = [matchIndex EXCEPT ![i][j] =
                                          IF c.success THEN next - 1 ELSE @]
              /\ UNCHANGED <<currentTerm, state, votedFor, disk>>
        /\ UNCHANGED <<log, commitIndex, lastApplied, sawCandidate, rv,
                       granted, budget>>

-----------------------------------------------------------------------------
(* Failures *)

\* restore reads term, vote and log back, or panics.
Restore(s) ==
    /\ currentTerm' = [currentTerm EXCEPT ![s] = disk[s].term]
    /\ votedFor' = [votedFor EXCEPT ![s] =
            [j \in Server |-> IF j = s THEN disk[s].votedFor ELSE Nil]]
    /\ log' = [log EXCEPT ![s] =
                    IF Restorable(disk[s]) THEN RestoredLog(disk[s]) ELSE <<>>]

\* The process of s ends, and another one makes a NewServer and calls Start.
Crash(s) ==
    /\ budget.crashes > 0
    /\ Up(s)
    /\ budget' = [budget EXCEPT !.crashes = @ - 1]
    /\ Restore(s)
    /\ state' = [state EXCEPT ![s] =
                    IF Restorable(disk[s]) THEN "follower" ELSE "down"]
    /\ commitIndex' = [commitIndex EXCEPT ![s] = 0]
    /\ lastApplied' = [lastApplied EXCEPT ![s] = 0]
    /\ nextIndex' = [nextIndex EXCEPT ![s] = [j \in Server |-> 0]]
    /\ matchIndex' = [matchIndex EXCEPT ![s] = [j \in Server |-> 0]]
    /\ sawCandidate' = [sawCandidate EXCEPT ![s] = FALSE]
    /\ rv' = Disconnected(rv, s, NoRV)
    /\ ae' = Disconnected(ae, s, NoAE)
    /\ UNCHANGED <<disk, granted>>

-----------------------------------------------------------------------------

Next ==
    \/ \E s \in Server : \/ LoopReads(s) \/ BecomeLeader(s)
                         \/ AdvanceCommitIndex(s) \/ Crash(s)
    \/ \E s \in Server, k \in Lane :
          Timeout(s, k) \/ Heartbeat(s, k) \/ \E vs \in Batch : Apply(s, vs, k)
    \/ \E i, j \in Server, k \in Lane :
          \/ SendRequestVote(i, j, k) \/ HandleRequestVoteRequest(i, j, k)
          \/ RequestVoteResponse(i, j, k) \/ SendAppendEntries(i, j, k)
          \/ HandleAppendEntriesRequest(i, j, k)
          \/ AppendEntriesResponse(i, j, k)

Spec == Init /\ [][Next]_vars

-----------------------------------------------------------------------------
(* Properties *)

\* Between any two handlers, what restore would read is what the server knows:
\* although each persist writes the page and, of the log, only the entries the
\* handler counted as new, over whatever the file held there before.  A file
\* without entries is excepted: restore reads s.log[0] as well, which is not in
\* the file before an entry has been written after it, and panics.
Durable ==
    \A s \in Server : Up(s) =>
        /\ disk[s].term = currentTerm[s]
        /\ disk[s].votedFor = votedFor[s][s]
        /\ disk[s].len = Len(log[s])
        /\ disk[s].len > 0 => /\ Restorable(disk[s])
                              /\ RestoredLog(disk[s]) = log[s]

\* A server votes for one candidate of a term, itself included, even when its
\* process ends in between.
VotesOnce ==
    \A g, h \in granted : g[1] = h[1] /\ g[3] = h[3] => g = h

\* A server's term never goes back, not even when its process ends.
TermGrows == [][\A s \in Server : currentTerm'[s] >= currentTerm[s]]_vars
=============================================================================
