--------------------------- MODULE ReplicatedLog ---------------------------
(***************************************************************************)
(* What a cluster of CMs promises the service built on it, as the KV       *)
(* service of raft/part5kv uses it: rs.Submit appends a command to the log *)
(* of a service that believes it leads and returns its index; committed    *)
(* entries are delivered, in order, on every service's commitChan; and     *)
(* leadership moves, so that what was submitted may be lost or replaced    *)
(* until it is committed.  ConsensusModule is the detailed specification.  *)
(***************************************************************************)
EXTENDS Integers, Sequences, FiniteSets

CONSTANTS
    Service,   \* the services, each with its CM
    MaxLog,    \* bound on the length of a log
    MaxElects  \* bound on the number of elections

ASSUME LogBoundAssumption == MaxLog \in Nat

VARIABLES
    log,        \* log[s]: what service s's CM holds
    committed,  \* the entries committed so far
    leaders,    \* the services that believe they lead
    current,    \* the one elected last: only it commits
    elects      \* elections left

logVars == <<log, committed, leaders, current, elects>>

\* What service s's log agrees on with the committed entries.
Agrees(s, n) ==
    /\ n <= Len(log[s]) /\ n <= Len(committed)
    /\ SubSeq(log[s], 1, n) = SubSeq(committed, 1, n)

LogQuiet ==
    /\ log = [s \in Service |-> <<>>]
    /\ committed = <<>>
    /\ \E s \in Service : current = s /\ leaders = {s}

\* Server.Submit on a service that leads; the entry's index is Len(log'[s]).
Appends(s, cmd) ==
    /\ s \in leaders
    /\ Len(log[s]) < MaxLog
    /\ log' = [log EXCEPT ![s] = Append(@, cmd)]
    /\ UNCHANGED <<committed, leaders, current, elects>>

\* A follower that holds everything committed is elected; the leader before it
\* may not know yet.
Elect(s) ==
    /\ elects > 0
    /\ elects' = elects - 1
    /\ s \notin leaders
    /\ Agrees(s, Len(committed))
    /\ current' = s
    /\ leaders' = leaders \cup {s}
    /\ UNCHANGED <<log, committed>>

\* A service learns of a later term, and no longer leads.
StepDown(s) ==
    /\ s \in leaders
    /\ leaders' = leaders \ {s}
    /\ UNCHANGED <<log, committed, current, elects>>

\* What a follower's log becomes when it is sent `entries` from the start: an
\* entry that differs goes, with all that follow it.
Merged(old, entries) ==
    IF Len(entries) <= Len(old) /\ SubSeq(old, 1, Len(entries)) = entries
    THEN old ELSE entries

\* The first n entries of l, which leads or still believes that it does, reach
\* a follower that has not heard of a later term: one that takes nothing away
\* of what the follower has and is committed (ConsensusModule!LogMatching and
\* LeaderCompleteness).
Replicate(l, s, n) ==
    /\ l \in leaders
    /\ s \notin leaders /\ s # current
    /\ n <= Len(log[l])
    /\ \A k \in 1..n : Agrees(s, k) => log[l][k] = committed[k]
    /\ log' = [log EXCEPT ![s] = Merged(@, SubSeq(log[l], 1, n))]
    /\ log'[s] # log[s]
    /\ UNCHANGED <<committed, leaders, current, elects>>

\* The leader commits its next entry.
Commit ==
    /\ current \in leaders
    /\ Len(committed) < Len(log[current])
    /\ committed' = Append(committed, log[current][Len(committed) + 1])
    /\ UNCHANGED <<log, leaders, current, elects>>

LogNext ==
    \/ Commit
    \/ \E s \in Service : Elect(s) \/ StepDown(s)
    \/ \E l, s \in Service, n \in 1..MaxLog : Replicate(l, s, n)
=============================================================================
