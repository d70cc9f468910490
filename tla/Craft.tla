------------------------------- MODULE Craft -------------------------------
(***************************************************************************)
(* One consensus module of craft (craft.go, server.go, storage.go) and the *)
(* test harness that runs it, at the level of its goroutines: the election *)
(* timers, the calls to peers, the heartbeat loops, commitChanSender, the  *)
(* callers of Submit and Stop, and the channels between them.              *)
(*                                                                         *)
(* The rules of the protocol are those of ConsensusModule; the peers are   *)
(* the environment here.  They may send and answer whatever peers that     *)
(* obey those rules may: PeerLeads says what that rules out.               *)
(*                                                                         *)
(* Atomicity.  A step is what a goroutine does while it holds cm.mu, or    *)
(* one operation on a channel.  Only AppendEntries waits for a channel     *)
(* while it holds cm.mu; held says that it does.                           *)
(*                                                                         *)
(* Indices are those of ConsensusModule: the log is a sequence, and the Go *)
(* value -1 is 0.  An entry is represented by its term.                    *)
(***************************************************************************)
EXTENDS Integers, Sequences, FiniteSets

CONSTANTS
    Peer,        \* the other CMs
    Slot,        \* goroutines that replicate to a peer, at most at once
    Caller,      \* clients that call Submit
    Nobody,      \* votedFor = -1
    Self,        \* the CM's own id
    ReadyCap,    \* capacity of newCommitReadyChan (16 in the code)
    TriggerCap,  \* capacity of triggerAEChan (1 in the code)
    MaxTerm,     \* bound on the terms
    MaxElections, \* bound on the elections the CM starts
    MaxLog,      \* bound on the length of a log
    MaxRequests, \* bound on the requests of peers
    MaxBatch,    \* bound on the entries of a request
    MaxStops,    \* bound on the calls of Shutdown
    MaxRestarts  \* bound on the calls of RestartPeer

ASSUME PeerAssumption == IsFiniteSet(Peer)
ASSUME CapAssumption == ReadyCap \in Nat \ {0} /\ TriggerCap \in Nat \ {0}
ASSUME BoundsAssumption == MaxTerm \in Nat /\ MaxElections \in Nat /\ MaxLog \in Nat
                           /\ MaxRequests \in Nat /\ MaxBatch \in Nat
                           /\ MaxStops \in Nat /\ MaxRestarts \in Nat

VARIABLES
    \* the fields of the CM
    state, currentTerm, votedFor, log, commitIndex, lastApplied,
    nextIndex, matchIndex,
    stored,     \* what persistToStorage last wrote
    \* the channels
    readyChan,  \* notifications in newCommitReadyChan
    closed,     \* newCommitReadyChan has been closed
    trigger,    \* notifications in triggerAEChan
    \* the goroutines
    held,       \* AppendEntries holds cm.mu and waits for newCommitReadyChan
    starting,   \* election timers that have not read the term yet
    ticking,    \* ticking[t]: election timers that were started in term t
    rv,         \* rv[t][p]: the call for p's vote in the election of term t
    votes,      \* votes[t]: votesReceived of the election of term t
    loop,       \* loop[t]: the heartbeat loop of the leader of term t
    call,       \* call[k]: an AppendEntries call to a peer
    notifying,  \* goroutines that go on to send on newCommitReadyChan, ...
    triggering, \* ... and then on triggerAEChan
    caller,     \* caller[c]: a client in Submit
    sender,     \* commitChanSender
    batch,      \* the entries commitChanSender has still to send
    stop,       \* the goroutine in Shutdown, which calls Stop
    panicked,   \* why the process has panicked, if it has
    \* the other side
    delivered,  \* what the client has received from commitChan
    peerTerms,  \* terms in which a peer leads
    budget      \* what is left of the bounds; term and log stay as they are

cmVars == <<state, currentTerm, votedFor, log, commitIndex, lastApplied,
            nextIndex, matchIndex, stored>>
chanVars == <<readyChan, closed, trigger>>
electionVars == <<starting, ticking, rv, votes>>
leaderVars == <<loop, call, notifying, triggering>>
clientVars == <<caller, delivered>>
stopVars == <<sender, batch, stop, panicked>>
envVars == <<peerTerms, budget>>
vars == <<cmVars, chanVars, held, electionVars, leaderVars, clientVars,
          stopVars, envVars>>

Term == 0..MaxTerm

CMState == {"Follower", "Candidate", "Leader", "Dead"}

Quorum(n) == n * 2 > Cardinality(Peer) + 1

Persisted == [term |-> currentTerm, vote |-> votedFor, log |-> log]

NoCall == [pc |-> "free", term |-> 0, peer |-> Nobody, ni |-> 1, n |-> 0]

\* What restoreFromStorage reads back of what is stored.
Restored(s) ==
    /\ currentTerm' = s.term
    /\ votedFor' = s.vote
    /\ log' = s.log

\* A CM before it runs, over what is stored: NewConsensusModule has spawned
\* the goroutine that waits for ready, and commitChanSender.
Booted(s) ==
    /\ state' = "Follower"
    /\ Restored(s)
    /\ commitIndex' = 0 /\ lastApplied' = 0
    /\ matchIndex' = [p \in Peer |-> 0]
    /\ readyChan' = 0 /\ closed' = FALSE /\ trigger' = 0
    /\ nextIndex' = [p \in Peer |-> 1]
    /\ held' = FALSE
    /\ starting' = 1 /\ ticking' = [t \in Term |-> 0]
    /\ rv' = [t \in Term |-> [p \in Peer |-> "none"]]
    /\ votes' = [t \in Term |-> 0]
    /\ loop' = [t \in Term |-> "none"]
    /\ call' = [k \in Slot |-> NoCall] /\ notifying' = 0 /\ triggering' = 0
    /\ caller' = [c \in Caller |-> "idle"]
    /\ sender' = "receive" /\ batch' = <<>> /\ delivered' = <<>>
    /\ stop' = "none" /\ panicked' = "no"

NothingStored == [term |-> 0, vote |-> Nobody, log |-> <<>>]

\* The same as a state: NewHarness has started a CM with an empty storage.
Started ==
    /\ state = "Follower"
    /\ currentTerm = 0 /\ votedFor = Nobody /\ log = <<>>
    /\ commitIndex = 0 /\ lastApplied = 0
    /\ matchIndex = [p \in Peer |-> 0]
    /\ stored = NothingStored
    /\ readyChan = 0 /\ closed = FALSE /\ trigger = 0
    /\ nextIndex = [p \in Peer |-> 1]
    /\ held = FALSE
    /\ starting = 1 /\ ticking = [t \in Term |-> 0]
    /\ rv = [t \in Term |-> [p \in Peer |-> "none"]]
    /\ votes = [t \in Term |-> 0]
    /\ loop = [t \in Term |-> "none"]
    /\ call = [k \in Slot |-> NoCall] /\ notifying = 0 /\ triggering = 0
    /\ caller = [c \in Caller |-> "idle"]
    /\ sender = "receive" /\ batch = <<>> /\ delivered = <<>>
    /\ stop = "none" /\ panicked = "no"
    /\ peerTerms = {}

Init ==
    /\ Started
    /\ budget = [stops |-> MaxStops, restarts |-> MaxRestarts,
                 requests |-> MaxRequests, elections |-> MaxElections,
                 term |-> MaxTerm, log |-> MaxLog]

\* cm.mu can be taken, and the process runs.
Running == panicked = "no"
Unlocked == ~held /\ Running

-----------------------------------------------------------------------------
(* Election timers *)

\* runElectionTimer reads the term it is for.
TimerStarts ==
    /\ Unlocked /\ starting > 0
    /\ starting' = starting - 1
    /\ ticking' = [ticking EXCEPT ![currentTerm] = @ + 1]
    /\ UNCHANGED <<cmVars, chanVars, held, rv, votes, leaderVars, clientVars,
                   stopVars, envVars>>

TimerExpires == state \in {"Follower", "Candidate"}

\* A tick finds that the timer is not needed any more.
TimerEnds(t) ==
    /\ Unlocked /\ ticking[t] > 0
    /\ ~TimerExpires \/ t # currentTerm
    /\ ticking' = [ticking EXCEPT ![t] = @ - 1]
    /\ UNCHANGED <<cmVars, chanVars, held, starting, rv, votes, leaderVars,
                   clientVars, stopVars, envVars>>

\* A tick finds that the timeout is over: startElection, which persists
\* nothing, spawns the calls and another timer, and ends this timer.
StartElection(t) ==
    /\ Unlocked /\ ticking[t] > 0
    /\ TimerExpires /\ t = currentTerm
    /\ currentTerm < budget.term /\ budget.elections > 0
    /\ budget' = [budget EXCEPT !.elections = @ - 1]
    /\ state' = "Candidate"
    /\ currentTerm' = currentTerm + 1
    /\ votedFor' = Self
    /\ votes' = [votes EXCEPT ![t + 1] = 1]
    /\ rv' = [rv EXCEPT ![t + 1] = [p \in Peer |-> "sent"]]
    /\ ticking' = [ticking EXCEPT ![t] = @ - 1]
    /\ starting' = starting + 1
    /\ UNCHANGED <<log, commitIndex, lastApplied, nextIndex, matchIndex,
                   stored, chanVars, held, leaderVars, clientVars, stopVars,
                   peerTerms>>

BecomeFollowerQuietly(term) ==
    /\ state' = "Follower"
    /\ currentTerm' = term
    /\ votedFor' = Nobody
    /\ starting' = starting

\* becomeFollower, which starts another election timer whatever the CM was.
BecomeFollower(term) ==
    /\ state' = "Follower"
    /\ currentTerm' = term
    /\ votedFor' = Nobody
    /\ starting' = starting + 1

\* startLeader, which spawns the heartbeat loop of the term.
StartLeader ==
    /\ state' = "Leader"
    /\ matchIndex' = [q \in Peer |-> 0]
    /\ loop' = [loop EXCEPT ![currentTerm] = "first"]
    /\ nextIndex' = [q \in Peer |-> Len(log) + 1]

\* A reply to a call for a vote: the term and the vote of a peer, which adopts
\* the term of the call.  In a term that a peer leads, the votes for this CM
\* never make a majority.
RequestVoteReply(t, p, rterm, granted) ==
    /\ Unlocked /\ rv[t][p] = "sent"
    /\ rterm \in t..budget.term
    /\ granted => rterm = t /\ (t \in peerTerms => ~Quorum(votes[t] + 1))
    /\ rv' = [rv EXCEPT ![t][p] = "none"]
    /\ \/ /\ state = "Candidate" /\ rterm > t
          /\ BecomeFollower(rterm)
          /\ UNCHANGED <<votes, nextIndex, matchIndex, loop>>
       \/ /\ state = "Candidate" /\ rterm = t /\ granted
          /\ votes' = [votes EXCEPT ![t] = @ + 1]
          /\ IF Quorum(votes[t] + 1)
             THEN StartLeader
             ELSE UNCHANGED <<state, nextIndex, matchIndex, loop>>
          /\ UNCHANGED <<currentTerm, votedFor, starting>>
       \/ /\ state # "Candidate" \/ (rterm = t /\ ~granted)
          /\ UNCHANGED <<state, currentTerm, votedFor, votes, nextIndex,
                         matchIndex, loop, starting>>
    /\ UNCHANGED <<notifying, triggering, log, commitIndex, lastApplied,
                   stored, chanVars, held, ticking, call, clientVars, stopVars,
                   envVars>>

\* There is no connection to the peer, or the call fails, or the peer is dead.
RequestVoteFails(t, p) ==
    /\ Running /\ rv[t][p] = "sent"
    /\ rv' = [rv EXCEPT ![t][p] = "none"]
    /\ UNCHANGED <<cmVars, chanVars, held, starting, ticking, votes,
                   leaderVars, clientVars, stopVars, envVars>>

-----------------------------------------------------------------------------
(* Leading *)

\* The heartbeat loop wakes: its timer has fired.
LoopTimer(t) ==
    /\ Running /\ loop[t] = "select"
    /\ loop' = [loop EXCEPT ![t] = "check"]
    /\ UNCHANGED <<notifying, triggering, cmVars, chanVars, held, electionVars,
                   call, clientVars, stopVars, envVars>>

\* Or somebody has sent on triggerAEChan.  A loop of an earlier leadership
\* that has not noticed may take the notification meant for a later one.
LoopTriggered(t) ==
    /\ Running /\ loop[t] = "select" /\ trigger > 0
    /\ trigger' = trigger - 1
    /\ loop' = [loop EXCEPT ![t] = "check"]
    /\ UNCHANGED <<notifying, triggering, cmVars, readyChan, closed, held,
                   electionVars, call, clientVars, stopVars, envVars>>

LoopChecksOnce(t) ==
    /\ Unlocked /\ loop[t] = "check"
    /\ loop' = [loop EXCEPT ![t] = "ended"]
    /\ UNCHANGED <<cmVars, chanVars, held, electionVars, call, notifying,
                   triggering, clientVars, stopVars, envVars>>

\* The loop looks whether the CM still leads, in whichever term.
LoopChecks(t) ==
    /\ Unlocked /\ loop[t] = "check"
    /\ loop' = [loop EXCEPT ![t] = IF state = "Leader" THEN "first" ELSE "ended"]
    /\ UNCHANGED <<notifying, triggering, cmVars, chanVars, held, electionVars,
                   call, clientVars, stopVars, envVars>>

\* leaderSendAEs looks again, saves the term and spawns a goroutine per peer.
\* It waits for free slots, which bound the calls under way; the code spawns
\* without limit.
LeaderSendAEs(t) ==
    /\ Unlocked /\ loop[t] = "first"
    /\ loop' = [loop EXCEPT ![t] = "select"]
    /\ IF state = "Leader"
       THEN \E slot \in [Peer -> Slot] :
              /\ \A p, q \in Peer : slot[p] = slot[q] => p = q
              /\ \A p \in Peer : call[slot[p]].pc = "free"
              /\ call' = [k \in Slot |->
                    IF \E p \in Peer : slot[p] = k
                    THEN [NoCall EXCEPT !.pc = "spawned", !.term = currentTerm,
                                        !.peer = CHOOSE p \in Peer : slot[p] = k]
                    ELSE call[k]]
       ELSE UNCHANGED call
    /\ UNCHANGED <<notifying, triggering, cmVars, chanVars, held, electionVars,
                   clientVars, stopVars, envVars>>

\* The goroutine reads nextIndex and the log, whether or not the CM leads.
SendAppendEntries(k) ==
    /\ Unlocked /\ call[k].pc = "spawned"
    /\ LET ni == nextIndex[call[k].peer]
       IN  IF ni > Len(log) + 1
           THEN panicked' = "index" /\ UNCHANGED call
           ELSE /\ call' = [call EXCEPT ![k] = [@ EXCEPT
                        !.pc = "sent", !.ni = ni, !.n = Len(log) + 1 - ni]]
                /\ UNCHANGED panicked
    /\ UNCHANGED <<notifying, triggering, cmVars, chanVars, held, electionVars,
                   loop, clientVars, sender, batch, stop, envVars>>

AppendEntriesFails(k) ==
    /\ Running /\ call[k].pc = "sent"
    /\ call' = [call EXCEPT ![k] = NoCall]
    /\ UNCHANGED <<notifying, triggering, cmVars, chanVars, held, electionVars,
                   loop, clientVars, stopVars, envVars>>

AdvancedNext(match) ==
    IF \E i \in (commitIndex + 1)..Len(log) :
        Quorum(1 + Cardinality({p \in Peer : match[p] >= i}))
    THEN Len(log) + 1 ELSE commitIndex

\* The commit index after a successful reply: the last entry of the present
\* term that a majority holds.
Advanced(match) ==
    LET majority == {i \in (commitIndex + 1)..Len(log) :
                    /\ log[i] = currentTerm
                    /\ Quorum(1 + Cardinality({p \in Peer : match[p] >= i}))}
    IN  IF majority = {} THEN commitIndex
        ELSE CHOOSE i \in majority : \A j \in majority : j <= i

\* A reply that says the CM's term is old, in whatever state the CM is by now.
NewerTermReply(k, rterm) ==
    /\ Unlocked /\ call[k].pc = "sent"
    /\ rterm \in (currentTerm + 1)..budget.term
    /\ BecomeFollower(rterm)
    /\ call' = [call EXCEPT ![k] = NoCall]
    /\ UNCHANGED <<notifying, triggering, log, commitIndex, lastApplied,
                   nextIndex, matchIndex, stored, chanVars, held, ticking, rv,
                   votes, loop, clientVars, stopVars, envVars>>

\* A successful reply.  When it commits entries the goroutine goes on, without
\* the lock, to notify commitChanSender and the heartbeat loop.
SuccessReply(k) ==
    LET c == call[k]
        match == [matchIndex EXCEPT ![c.peer] = c.ni + c.n - 1]
    IN  /\ Unlocked /\ c.pc = "sent" /\ c.term <= currentTerm
        /\ IF state = "Leader"
           THEN /\ nextIndex' = [nextIndex EXCEPT ![c.peer] = c.ni + c.n]
                /\ matchIndex' = match
                /\ commitIndex' = Advanced(match)
                /\ notifying' = IF Advanced(match) # commitIndex
                                THEN notifying + 1 ELSE notifying
           ELSE UNCHANGED <<nextIndex, matchIndex, commitIndex, notifying>>
        /\ call' = [call EXCEPT ![k] = NoCall]
        /\ UNCHANGED <<state, currentTerm, votedFor, log, lastApplied, stored,
                       chanVars, held, electionVars, loop, triggering,
                       clientVars, stopVars, envVars>>

\* A reply that says the peer's log does not match.
ConflictReply(k, conflictIndex, conflictTerm) ==
    LET c == call[k]
        same == {i \in 1..Len(log) : log[i] = conflictTerm}
    IN  /\ Unlocked /\ c.pc = "sent" /\ c.term <= currentTerm /\ c.ni > 1
        /\ conflictIndex \in 1..(c.ni - 1)
        /\ call' = [call EXCEPT ![k] = NoCall]
        /\ nextIndex' = [nextIndex EXCEPT ![c.peer] =
                CASE state # "Leader" -> @
                  [] state = "Leader" /\ same # {} ->
                        1 + CHOOSE i \in same : \A j \in same : j <= i
                  [] OTHER -> conflictIndex]
        /\ UNCHANGED <<notifying, triggering, state, currentTerm, votedFor,
                       log, commitIndex, lastApplied, matchIndex, stored,
                       chanVars, held, electionVars, loop, clientVars,
                       stopVars, envVars>>

\* The goroutine sends on newCommitReadyChan: it waits while the channel is
\* full and panics when it has been closed.
NotifySender ==
    /\ Running /\ notifying > 0
    /\ \/ closed /\ panicked' = "closed" /\ UNCHANGED <<readyChan, notifying, triggering>>
       \/ /\ ~closed /\ readyChan < ReadyCap
          /\ readyChan' = readyChan + 1
          /\ notifying' = notifying - 1 /\ triggering' = triggering + 1
          /\ UNCHANGED panicked
    /\ UNCHANGED <<cmVars, closed, trigger, held, electionVars, loop, call,
                   clientVars, sender, batch, stop, envVars>>

\* And then on triggerAEChan.
NotifyLoop ==
    /\ Running /\ triggering > 0 /\ trigger < TriggerCap
    /\ trigger' = trigger + 1
    /\ triggering' = triggering - 1
    /\ UNCHANGED <<cmVars, readyChan, closed, held, electionVars, loop, call,
                   notifying, clientVars, stopVars, envVars>>

\* Submit under the lock (a CM that does not lead refuses and changes nothing)
\* ...
Submit(c) ==
    /\ Unlocked /\ caller[c] = "idle"
    /\ state = "Leader" /\ Len(log) < budget.log
    /\ log' = Append(log, currentTerm)
    /\ stored' = [Persisted EXCEPT !.log = log']
    /\ caller' = [caller EXCEPT ![c] = "trigger"]
    /\ UNCHANGED <<state, currentTerm, votedFor, commitIndex, lastApplied,
                   nextIndex, matchIndex, chanVars, held, electionVars,
                   leaderVars, delivered, stopVars, envVars>>

\* ... and after it: the notification of the heartbeat loop.
SubmitTriggers(c) ==
    /\ Running /\ caller[c] = "trigger" /\ trigger < TriggerCap
    /\ trigger' = trigger + 1
    /\ caller' = [caller EXCEPT ![c] = "idle"]
    /\ UNCHANGED <<cmVars, readyChan, closed, held, electionVars, leaderVars,
                   delivered, stopVars, envVars>>

-----------------------------------------------------------------------------
(* Requests of the peers *)

\* The server is up until Shutdown has returned, and the CM is not dead.
Serving ==
    /\ Unlocked /\ state # "Dead" /\ stop # "done"
    /\ budget.requests > 0
    /\ budget' = [budget EXCEPT !.requests = @ - 1]

\* A request for a vote, from a candidate whose log is or is not up to date.
RequestVote(p, term, upToDate) ==
    LET newer == term > currentTerm
        grants == /\ term >= currentTerm /\ upToDate
                  /\ newer \/ votedFor \in {Nobody, p}
        vote == IF grants THEN p ELSE IF newer THEN Nobody ELSE votedFor
    IN  /\ Serving
        /\ state' = IF newer THEN "Follower" ELSE state
        /\ currentTerm' = IF newer THEN term ELSE currentTerm
        /\ votedFor' = vote
        /\ starting' = IF newer THEN starting + 1 ELSE starting
        /\ stored' = [term |-> currentTerm', vote |-> vote, log |-> log]
        /\ UNCHANGED <<log, commitIndex, lastApplied, nextIndex, matchIndex,
                       chanVars, held, ticking, rv, votes, leaderVars,
                       clientVars, stopVars, peerTerms>>

\* The log after entries that follow prev: the first mismatch and everything
\* behind it is replaced, a log that has them all is left alone.
Merged(prev, entries) ==
    LET known == \A i \in 1..Len(entries) :
                    prev + i <= Len(log) /\ log[prev + i] = entries[i]
    IN  IF known THEN log ELSE SubSeq(log, 1, prev) \o entries

\* A peer may lead the term and send these entries: this CM has not won the
\* term, and the entries keep what this CM has committed, whose terms never
\* go back (ElectionSafety and LeaderCompleteness of ConsensusModule).
PeerLeads(term, prev, entries, commit) ==
    /\ loop[term] = "none" /\ ~Quorum(votes[term])
    /\ prev + Len(entries) <= budget.log /\ commit <= prev + Len(entries)
    /\ \A i \in 1..Len(entries) : entries[i] <= term
    /\ \A i \in 1..(Len(entries) - 1) : entries[i] <= entries[i + 1]
    /\ prev > 0 /\ prev <= Len(log) /\ Len(entries) > 0
         => log[prev] <= entries[1]
    /\ prev <= Len(log)
         => /\ Len(Merged(prev, entries)) >= commitIndex
            /\ SubSeq(Merged(prev, entries), 1, commitIndex)
                 = SubSeq(log, 1, commitIndex)

AdvancesTo(commit, newLog) == IF commit < Len(newLog) THEN commit ELSE Len(newLog)

NotifiesAlways(success, commit) == success

\* Whether a request moves the commit index.
Notifies(success, commit) == success /\ commit > commitIndex

\* AppendEntries of a peer that leads; matches is the test of PrevLogTerm.
\* When the commit index advances it sends on newCommitReadyChan and only
\* then persists and releases the lock.  On a closed channel it dies half way:
\* net/http recovers the panic of a handler and defer releases the lock.
AppendEntries(term, prev, entries, commit, matches) ==
    LET current == term >= currentTerm
        follows == term > currentTerm \/ (current /\ state # "Follower")
        success == current /\ matches
        newLog == IF success THEN Merged(prev, entries) ELSE log
        notifies == Notifies(success, commit)
    IN  /\ Serving
        /\ PeerLeads(term, prev, entries, commit)
        /\ matches => prev <= Len(log)
        /\ prev = 0 => matches
        /\ peerTerms' = peerTerms \cup {term}
        /\ IF follows THEN BecomeFollower(term)
           ELSE UNCHANGED <<state, currentTerm, votedFor, starting>>
        /\ log' = newLog
        /\ commitIndex' = IF notifies THEN AdvancesTo(commit, newLog)
                          ELSE commitIndex
        /\ \/ /\ ~notifies
              /\ stored' = Persisted'
              /\ UNCHANGED <<readyChan, held>>
           \/ /\ notifies /\ closed
              /\ UNCHANGED <<readyChan, held, stored>>
           \/ /\ notifies /\ ~closed /\ readyChan < ReadyCap
              /\ readyChan' = readyChan + 1
              /\ stored' = Persisted'
              /\ UNCHANGED held
           \/ /\ notifies /\ ~closed /\ readyChan = ReadyCap
              /\ held' = TRUE
              /\ UNCHANGED <<readyChan, stored>>
        /\ UNCHANGED <<lastApplied, nextIndex, matchIndex, closed, trigger,
                       ticking, rv, votes, leaderVars, clientVars, stopVars>>

\* The handler that waits with the lock held gets its notification through, or
\* dies when the channel is closed.
AppendEntriesResumes ==
    /\ held /\ Running
    /\ held' = FALSE
    /\ \/ /\ ~closed /\ readyChan < ReadyCap
          /\ readyChan' = readyChan + 1
          /\ stored' = Persisted
       \/ closed /\ UNCHANGED <<readyChan, stored>>
    /\ UNCHANGED <<state, currentTerm, votedFor, log, commitIndex, lastApplied,
                   nextIndex, matchIndex, closed, trigger, electionVars,
                   leaderVars, clientVars, stopVars, envVars>>

-----------------------------------------------------------------------------
(* Delivery *)

SenderReceivesForever ==
    /\ Running /\ sender = "receive" /\ readyChan > 0
    /\ readyChan' = readyChan - 1
    /\ sender' = "lock"
    /\ UNCHANGED <<cmVars, closed, trigger, held, electionVars, leaderVars,
                   clientVars, batch, stop, panicked, envVars>>

\* commitChanSender receives a notification, or finds the channel closed.
SenderReceives ==
    /\ Running /\ sender = "receive"
    /\ \/ /\ readyChan > 0
          /\ readyChan' = readyChan - 1
          /\ sender' = "lock"
       \/ /\ readyChan = 0 /\ closed
          /\ sender' = "done"
          /\ UNCHANGED readyChan
    /\ UNCHANGED <<cmVars, closed, trigger, held, electionVars, leaderVars,
                   clientVars, batch, stop, panicked, envVars>>

SenderTakesUnlocked ==
    /\ Running /\ sender = "lock"
    /\ batch' = SubSeq(log, lastApplied + 1, commitIndex)
    /\ lastApplied' = commitIndex
    /\ sender' = IF batch' = <<>> THEN "receive" ELSE "send"
    /\ UNCHANGED <<state, currentTerm, votedFor, log, commitIndex, nextIndex,
                   matchIndex, stored, chanVars, held, electionVars,
                   leaderVars, clientVars, stop, panicked, envVars>>

SenderTakesOne ==
    /\ Unlocked /\ sender = "lock"
    /\ batch' = SubSeq(log, lastApplied + 1,
                       IF lastApplied < commitIndex THEN lastApplied + 1
                                                    ELSE lastApplied)
    /\ lastApplied' = lastApplied + Len(batch')
    /\ sender' = IF batch' = <<>> THEN "receive" ELSE "send"
    /\ UNCHANGED <<state, currentTerm, votedFor, log, commitIndex, nextIndex,
                   matchIndex, stored, chanVars, held, electionVars,
                   leaderVars, clientVars, stop, panicked, envVars>>

\* It takes the lock and what has been committed since the last time.
SenderTakes ==
    /\ Unlocked /\ sender = "lock"
    /\ batch' = SubSeq(log, lastApplied + 1, commitIndex)
    /\ lastApplied' = commitIndex
    /\ sender' = IF batch' = <<>> THEN "receive" ELSE "send"
    /\ UNCHANGED <<state, currentTerm, votedFor, log, commitIndex, nextIndex,
                   matchIndex, stored, chanVars, held, electionVars,
                   leaderVars, clientVars, stop, panicked, envVars>>

\* The client (collectCommits) receives an entry from commitChan, which has no
\* buffer.
CollectCommits ==
    /\ Running /\ sender = "send"
    /\ delivered' = Append(delivered, Head(batch))
    /\ batch' = Tail(batch)
    /\ sender' = IF Len(batch) = 1 THEN "receive" ELSE "send"
    /\ UNCHANGED <<cmVars, chanVars, held, electionVars, leaderVars, caller,
                   stop, panicked, envVars>>

-----------------------------------------------------------------------------
(* Shutdown and restart *)

\* Shutdown, once per server: Stop marks the CM as dead under the lock, ...
StopMarks ==
    /\ Unlocked /\ stop = "none" /\ budget.stops > 0
    /\ budget' = [budget EXCEPT !.stops = @ - 1]
    /\ state' = "Dead"
    /\ stop' = "close"
    /\ UNCHANGED <<currentTerm, votedFor, log, commitIndex, lastApplied,
                   nextIndex, matchIndex, stored, chanVars, held, electionVars,
                   leaderVars, clientVars, sender, batch, panicked, peerTerms>>

\* ... closes newCommitReadyChan without it, ...
StopCloses ==
    /\ Running /\ stop = "close"
    /\ closed' = TRUE
    /\ stop' = "wait"
    /\ UNCHANGED <<cmVars, readyChan, trigger, held, electionVars, leaderVars,
                   clientVars, sender, batch, panicked, envVars>>

\* ... and waits for commitChanSender.
StopWaits ==
    /\ Running /\ stop = "wait" /\ sender = "done"
    /\ stop' = "done"
    /\ UNCHANGED <<cmVars, chanVars, held, electionVars, leaderVars,
                   clientVars, sender, batch, panicked, envVars>>

\* RestartPeer: a new server over the storage of the one that was shut down.
\* What is left of the old one's goroutines has no effect on the new one.
RestartPeer ==
    /\ Running /\ stop = "done" /\ budget.restarts > 0
    /\ budget' = [budget EXCEPT !.restarts = @ - 1]
    /\ Booted(stored)
    /\ UNCHANGED <<stored, peerTerms>>

-----------------------------------------------------------------------------
(* Specification *)

Entries == UNION {[1..n -> 1..MaxTerm] : n \in 0..MaxBatch}

PeerRequests ==
    \/ \E p \in Peer, t \in 1..budget.term, u \in BOOLEAN : RequestVote(p, t, u)
    \/ \E t \in 1..budget.term, prev \in 0..budget.log, es \in Entries,
          commit \in 0..budget.log, m \in BOOLEAN :
            AppendEntries(t, prev, es, commit, m)

\* What a call of this CM is answered, or that it is not.
CallEnds(k) ==
    \/ AppendEntriesFails(k)
    \/ SuccessReply(k)
    \/ \E t \in 1..MaxTerm : NewerTermReply(k, t)
    \/ \E i \in 1..MaxLog, t \in -1..MaxTerm : ConflictReply(k, i, t)

\* The steps of the CM's own goroutines that nothing but the CM holds up.
LoopStep(t) == LoopTimer(t) \/ LoopChecks(t) \/ LeaderSendAEs(t)
CallStep(k) == SendAppendEntries(k) \/ CallEnds(k)
SenderStep == SenderReceives \/ SenderTakes \/ CollectCommits
StopStep == StopCloses \/ StopWaits

Next ==
    \/ TimerStarts
    \/ \E t \in Term : TimerEnds(t) \/ StartElection(t)
    \/ \E t \in Term, p \in Peer : RequestVoteFails(t, p)
    \/ \E t \in Term, p \in Peer, r \in Term, g \in BOOLEAN :
            RequestVoteReply(t, p, r, g)
    \/ \E t \in Term : LoopStep(t) \/ LoopTriggered(t)
    \/ \E k \in Slot : CallStep(k)
    \/ NotifySender \/ NotifyLoop
    \/ \E c \in Caller : Submit(c) \/ SubmitTriggers(c)
    \/ PeerRequests
    \/ AppendEntriesResumes
    \/ SenderStep
    \/ StopMarks \/ StopStep
    \/ RestartPeer

Spec == Init /\ [][Next]_vars

\* Goroutines run, timers tick, calls end one way or another (without which a
\* loop would wait for a slot for good) and the client reads commitChan.  A heartbeat loop that finds both its timer and
\* triggerAEChan ready again and again takes the latter at some time: select
\* chooses at random.  Nothing is assumed of elections, clients or peers.
Fairness ==
    /\ WF_vars(TimerStarts)
    /\ \A t \in Term : WF_vars(LoopStep(t)) /\ SF_vars(LoopTriggered(t))
    /\ \A k \in Slot : WF_vars(CallStep(k))
    /\ WF_vars(NotifySender) /\ WF_vars(NotifyLoop)
    /\ \A c \in Caller : WF_vars(SubmitTriggers(c))
    /\ WF_vars(AppendEntriesResumes)
    /\ WF_vars(SenderStep)
    /\ WF_vars(StopStep)

FairSpec == Spec /\ Fairness

-----------------------------------------------------------------------------
(* Properties *)

\* The variables have the types of what they model.
TypeOK ==
    /\ state \in CMState /\ currentTerm \in Term
    /\ votedFor \in Peer \cup {Self, Nobody}
    /\ log \in Seq(Term) /\ Len(log) <= MaxLog
    /\ commitIndex \in 0..Len(log) /\ lastApplied \in 0..commitIndex
    /\ nextIndex \in [Peer -> 1..(MaxLog + 1)]
    /\ matchIndex \in [Peer -> 0..MaxLog]
    /\ readyChan \in 0..ReadyCap /\ trigger \in 0..TriggerCap
    /\ closed \in BOOLEAN /\ held \in BOOLEAN
    /\ panicked \in {"no", "closed", "index"}
    /\ starting \in Nat /\ ticking \in [Term -> Nat]
    /\ rv \in [Term -> [Peer -> {"none", "sent"}]]
    /\ votes \in [Term -> 0..(Cardinality(Peer) + 1)]
    /\ loop \in [Term -> {"none", "first", "select", "check", "ended"}]
    /\ \A k \in Slot :
         call[k].pc \in {"free", "spawned", "sent"}
    /\ notifying \in Nat /\ triggering \in Nat
    /\ caller \in [Caller -> {"idle", "trigger"}]
    /\ sender \in {"receive", "lock", "send", "done"}
    /\ stop \in {"none", "close", "wait", "done"}
    /\ peerTerms \in SUBSET Term

\* A CM that is not dead and does not lead has an election timer for its
\* present term, or one that is about to be: however its terms and states
\* change, it can always call for an election.
TimerRuns ==
    state \in {"Follower", "Candidate"}
        => starting > 0 \/ ticking[currentTerm] > 0

\* What the client has received is what is committed, in order and once, and
\* it is in the storage: AppendEntries notifies before it persists, but
\* commitChanSender cannot have the lock before.  (Once the channel is closed
\* this is no longer so: a CM that a late reply has revived takes entries, dies
\* at the notification before it persists, and commitChanSender, on its last
\* round, delivers them.)
DeliveredDurable ==
    /\ ~closed => /\ Len(delivered) <= Len(stored.log)
                  /\ delivered = SubSeq(stored.log, 1, Len(delivered))
    /\ Len(delivered) + Len(batch) = lastApplied

\* AppendEntries waits for room in newCommitReadyChan with the lock held, and
\* commitChanSender, which would make room, waits for the lock.
Wedged == held /\ sender = "lock" /\ readyChan = ReadyCap

\* That takes more commits than the channel has room for.
WedgeNeedsBacklog == Wedged => commitIndex >= ReadyCap + 2

\* The CM is at work: neither shut down nor wedged nor gone.
Gone == stop # "none" \/ Wedged \/ ~Running

\* The client catches up with what has been committed, as long as the CM is at
\* work: no notification of commitChanSender is lost.
Delivers == commitIndex > Len(delivered) ~> commitIndex = Len(delivered) \/ Gone

\* Clients whose commands a leader has taken get out of Submit, as long as the
\* CM leads.  Once it has lost the lead, the loop that reads triggerAEChan has
\* ended and a client may be stuck in Submit for good, although Submit is said
\* not to block.
SubmitReturns ==
    (\E c \in Caller : caller[c] = "trigger")
        ~> (\A c \in Caller : caller[c] # "trigger") \/ state # "Leader" \/ Gone

\* Stop returns: commitChanSender notices that the channel is closed.  Its call
\* counts from where Stop has the lock and has marked the CM dead; on a wedged
\* CM it never gets that far.
StopReturns == stop # "none" ~> stop \in {"none", "done"} \/ ~Running

\* A CM that is shut down is shut down cleanly: none of its goroutines sends
\* on a closed channel.
CleanShutdown == panicked # "closed"
=============================================================================
