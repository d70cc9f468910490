---------------------------- MODULE CraftProofs ----------------------------
(***************************************************************************)
(* Proofs about Craft: for every number of peers, every capacity of the    *)
(* channels and every bound, an election timer runs whenever one is needed,*)
(* what the client has received is in the storage, and AppendEntries and   *)
(* commitChanSender wait for each other only behind a backlog of commits.  *)
(*                                                                         *)
(* The inductive invariant IInv has one part per group of variables, and a *)
(* step is shown to keep each part that it can disturb.  The parts beyond  *)
(* the properties themselves are:                                          *)
(*   Counted   a vote that is counted was asked for once, so a candidate   *)
(*             never counts more votes than there are servers;             *)
(*   Kept      what has been taken for the client is the beginning of the  *)
(*             log, and of the storage until the channel is closed; while  *)
(*             nobody holds the lock the storage has the whole log;        *)
(*   Backlog   every notification on its way, in the channel or being      *)
(*             served belongs to a commit of its own.                      *)
(***************************************************************************)
EXTENDS Craft, TLAPS, FiniteSetTheorems, SequenceTheorems, WellFoundedInduction

Voter == Peer \cup {Self, Nobody}

\* A record of call[k]: what was read of nextIndex and of the log.
Goroutine ==
    {c \in [pc : {"free", "spawned", "sent"}, term : Term,
            peer : Peer \cup {Nobody}, ni : Nat, n : Nat] :
        /\ c.ni >= 1 /\ c.ni + c.n <= MaxLog + 1
        /\ c.pc # "free" => c.peer \in Peer}

LogType == {l \in Seq(Term) : Len(l) <= MaxLog}

\* The bounds that the steps consult.
Budget ==
    {b \in [stops : Nat, restarts : Nat, requests : Nat, elections : Nat,
            term : Nat, log : Nat] : b.term <= MaxTerm /\ b.log <= MaxLog}

CMType ==
    /\ state \in CMState /\ currentTerm \in Term
    /\ votedFor \in Voter
    /\ log \in LogType
    /\ commitIndex \in 0..Len(log) /\ lastApplied \in 0..commitIndex
    /\ stored \in [term : Term, vote : Voter, log : LogType]

LeaderType ==
    /\ nextIndex \in [Peer -> 1..(MaxLog + 1)]
    /\ matchIndex \in [Peer -> 0..MaxLog]
    /\ call \in [Slot -> Goroutine]
    /\ loop \in [Term -> {"none", "first", "select", "check", "ended"}]

ChanType ==
    /\ readyChan \in 0..ReadyCap /\ trigger \in 0..TriggerCap
    /\ notifying \in Nat /\ triggering \in Nat
    /\ caller \in [Caller -> {"idle", "trigger"}]

FlagType == closed \in BOOLEAN /\ held \in BOOLEAN

ServerType ==
    /\ panicked \in {"no", "closed", "index"}
    /\ sender \in {"receive", "lock", "send", "done"}
    /\ stop \in {"none", "close", "wait", "done"}
    /\ peerTerms \in SUBSET Term
    /\ budget \in Budget

TimerType == starting \in Nat /\ ticking \in [Term -> Nat]

\* The peers whose answer a candidate of term t has not got yet.
Asked(f) == {p \in Peer : f[p] = "sent"}

CountedOf(calls, received) ==
    /\ calls \in [Term -> [Peer -> {"none", "sent"}]]
    /\ received \in [Term -> Nat]
    /\ \A t \in Term :
         received[t] + Cardinality(Asked(calls[t])) <= Cardinality(Peer) + 1

Counted == CountedOf(rv, votes)

\* l begins with the first n entries of m.
Begins(l, m, n) ==
    /\ n <= Len(l) /\ n <= Len(m)
    /\ \A i \in 1..n : l[i] = m[i]

Taken ==
    /\ delivered \in Seq(Term) /\ batch \in Seq(Term)
    /\ Len(delivered) + Len(batch) = lastApplied
    /\ \A i \in 1..Len(delivered) : delivered[i] = log[i]
    /\ \A i \in 1..Len(batch) : batch[i] = log[Len(delivered) + i]
    /\ sender = "send" <=> batch # <<>>

Saved ==
    ~closed => /\ Begins(stored.log, log, lastApplied)
               /\ ~held => stored.log = log

\* The notification that AppendEntries holds, and the one being served.
InHandler == IF held THEN 1 ELSE 0
InSender == IF sender = "lock" THEN 1 ELSE 0

Backlog == readyChan + notifying + InHandler + InSender <= commitIndex

IInv ==
    /\ CMType /\ LeaderType /\ ChanType /\ FlagType /\ ServerType
    /\ TimerType /\ Counted
    /\ TimerRuns
    /\ Taken /\ Saved
    /\ Backlog
-----------------------------------------------------------------------------
(* What the invariant says of the state before a step *)

LEMMA Bounds ==
    /\ MaxTerm \in Nat /\ MaxLog \in Nat /\ ReadyCap \in Nat \ {0} /\ TriggerCap \in Nat \ {0}
    /\ 0 \in Term /\ IsFiniteSet(Peer) /\ Cardinality(Peer) \in Nat
BY BoundsAssumption, CapAssumption, PeerAssumption, FS_CardinalityType DEF Term

LEMMA NoCallType == NoCall \in Goroutine
BY Bounds DEF NoCall, Goroutine

\* Each part of the invariant stays as long as its variables do.
LEMMA CMTypeStays ==
    CMType /\ UNCHANGED <<state, currentTerm, votedFor, log, commitIndex, lastApplied, stored>>
    => CMType'
BY DEF CMType

LEMMA LeaderTypeStays ==
    LeaderType /\ UNCHANGED <<nextIndex, matchIndex, call, loop>> => LeaderType'
BY DEF LeaderType

LEMMA ChanTypeStays ==
    ChanType /\ UNCHANGED <<readyChan, trigger, notifying, triggering, caller>> => ChanType'
BY DEF ChanType

LEMMA FlagTypeStays == FlagType /\ UNCHANGED <<closed, held>> => FlagType'
BY Zenon DEF FlagType

LEMMA ServerTypeStays ==
    ServerType /\ UNCHANGED <<panicked, sender, stop, peerTerms, budget>> => ServerType'
BY DEF ServerType

LEMMA TimerTypeStays == TimerType /\ UNCHANGED <<starting, ticking>> => TimerType'
BY DEF TimerType

LEMMA CountedStays == Counted /\ UNCHANGED <<rv, votes>> => Counted'
BY DEF Counted, CountedOf

LEMMA TimerRunsStays ==
    TimerRuns /\ UNCHANGED <<state, currentTerm, starting, ticking>> => TimerRuns'
BY Zenon DEF TimerRuns

LEMMA TakenStays ==
    Taken /\ UNCHANGED <<log, lastApplied, delivered, batch, sender>> => Taken'
BY DEF Taken

LEMMA SavedStays ==
    Saved /\ UNCHANGED <<log, lastApplied, stored, closed, held>> => Saved'
BY DEF Saved, Begins

LEMMA BacklogStays ==
    Backlog /\ UNCHANGED <<readyChan, notifying, held, sender, commitIndex>> => Backlog'
BY DEF Backlog, InHandler, InSender

LEMMA StutterKeeps == IInv /\ UNCHANGED vars => IInv'
BY CMTypeStays, LeaderTypeStays, ChanTypeStays, FlagTypeStays, ServerTypeStays,
   TimerTypeStays, CountedStays, TimerRunsStays, TakenStays, SavedStays, BacklogStays
   DEF IInv, vars, cmVars, chanVars, electionVars, leaderVars, clientVars, stopVars, envVars

\* A CM that has just started asks for no vote and has none.
LEMMA NothingAsked ==
    CountedOf([t \in Term |-> [p \in Peer |-> "none"]], [t \in Term |-> 0])
<1> DEFINE f == [t \in Term |-> [p \in Peer |-> "none"]]
           g == [t \in Term |-> 0]
<1>1. f \in [Term -> [Peer -> {"none", "sent"}]] /\ g \in [Term -> Nat]
  OBVIOUS
<1>2. ASSUME NEW t \in Term PROVE Asked(f[t]) = {} /\ g[t] = 0
  BY DEF Asked
<1> HIDE DEF f, g
<1>3. ASSUME NEW t \in Term PROVE g[t] + Cardinality(Asked(f[t])) <= Cardinality(Peer) + 1
  <2>1. Cardinality(Asked(f[t])) = 0
    BY <1>2, FS_EmptySet, Zenon
  <2>2. Cardinality(Peer) \in Nat
    BY Bounds
  <2> QED
    BY <2>1, <2>2, <1>2
<1> QED
  BY <1>1, <1>3 DEF CountedOf, f, g

LEMMA IInvInit == Init => IInv
<1> SUFFICES ASSUME Init PROVE IInv
  OBVIOUS
<1> USE DEF Init, Started
<1>1. CMType
  BY Bounds DEF CMType, CMState, Voter, LogType, NothingStored
<1>2. LeaderType
  BY Bounds, NoCallType DEF LeaderType
<1>3. ChanType /\ FlagType
  <2>1. ChanType
    BY Bounds DEF ChanType
  <2>2. FlagType
    BY DEF FlagType
  <2> QED
    BY <2>1, <2>2
<1>4. ServerType
  BY BoundsAssumption DEF ServerType, Budget
<1>5. TimerType
  BY DEF TimerType
<1>6. Counted
  BY NothingAsked DEF Counted
<1>7. TimerRuns
  BY DEF TimerRuns
<1>8. Taken
  BY DEF Taken
<1>9. Saved
  BY DEF Saved, Begins, NothingStored
<1>10. Backlog
  BY DEF Backlog, InHandler, InSender
<1> QED
  BY <1>1, <1>2, <1>3, <1>4, <1>5, <1>6, <1>7, <1>8, <1>9, <1>10 DEF IInv

-----------------------------------------------------------------------------
(* Election timers *)

LEMMA TimerStartsKeeps ==
    ASSUME IInv, TimerStarts
    PROVE  IInv'
<1> USE DEF IInv, TimerStarts
<1>1. TimerType'
  BY DEF TimerType, CMType
<1>2. TimerRuns'
  BY DEF TimerRuns, TimerType, CMType, cmVars
<1> QED
  BY <1>1, <1>2, CMTypeStays, LeaderTypeStays, ChanTypeStays, FlagTypeStays,
     ServerTypeStays, CountedStays, TakenStays, SavedStays, BacklogStays
     DEF cmVars, chanVars, leaderVars, clientVars, stopVars, envVars

LEMMA TimerEndsKeeps ==
    ASSUME IInv, NEW t \in Term, TimerEnds(t)
    PROVE  IInv'
<1> USE DEF IInv, TimerEnds
<1>1. TimerType'
  BY DEF TimerType
<1>2. TimerRuns'
  BY DEF TimerRuns, TimerExpires, TimerType, CMType, cmVars
<1> QED
  BY <1>1, <1>2, CMTypeStays, LeaderTypeStays, ChanTypeStays, FlagTypeStays,
     ServerTypeStays, CountedStays, TakenStays, SavedStays, BacklogStays
     DEF cmVars, chanVars, leaderVars, clientVars, stopVars, envVars

\* An election asks every peer for one vote, and counts the CM's own.
LEMMA AskedAll ==
    ASSUME NEW f, f = [p \in Peer |-> "sent"]
    PROVE  Asked(f) = Peer
BY DEF Asked

LEMMA StartElectionKeeps ==
    ASSUME IInv, NEW t \in Term, StartElection(t)
    PROVE  IInv'
<1> USE DEF IInv, StartElection
<1>1. currentTerm + 1 \in Term /\ t + 1 \in Term /\ t + 1 = currentTerm + 1
  <2>1. budget.term \in Nat /\ budget.term <= MaxTerm
    BY DEF ServerType, Budget
  <2>2. currentTerm \in Nat /\ t = currentTerm /\ currentTerm < budget.term
    BY DEF CMType, Term
  <2> QED
    BY <2>1, <2>2, Bounds DEF Term
<1>2. CMType'
  BY <1>1 DEF CMType, CMState, Voter
<1>3. TimerType'
  BY DEF TimerType
<1>4. ServerType'
  <2>1. budget' \in Budget
    BY DEF ServerType, Budget
  <2> QED
    BY <2>1 DEF ServerType, stopVars
<1>5. Counted'
  <2>1. rv' \in [Term -> [Peer -> {"none", "sent"}]] /\ votes' \in [Term -> Nat]
    BY DEF Counted, CountedOf
  <2>2. Cardinality(Peer) \in Nat
    BY Bounds
  <2>3. ASSUME NEW u \in Term, u = t + 1
        PROVE  votes'[u] + Cardinality(Asked(rv'[u])) <= Cardinality(Peer) + 1
    <3>1. rv'[u] = [p \in Peer |-> "sent"] /\ votes'[u] = 1
      BY <2>3, <1>1 DEF Counted, CountedOf
    <3>2. Asked(rv'[u]) = Peer
      BY <3>1, AskedAll
    <3> QED
      BY <3>1, <3>2, <2>2
  <2>4. ASSUME NEW u \in Term, u # t + 1
        PROVE  votes'[u] + Cardinality(Asked(rv'[u])) <= Cardinality(Peer) + 1
    <3>1. rv'[u] = rv[u] /\ votes'[u] = votes[u]
      BY <2>4 DEF Counted, CountedOf
    <3> QED
      BY <3>1 DEF Counted, CountedOf
  <2>5. \A u \in Term : votes'[u] + Cardinality(Asked(rv'[u])) <= Cardinality(Peer) + 1
    BY <2>3, <2>4
  <2> QED
    BY <2>1, <2>5 DEF Counted, CountedOf, Asked
<1>6. TimerRuns'
  BY DEF TimerRuns, TimerType
<1> QED
  BY <1>2, <1>3, <1>4, <1>5, <1>6, LeaderTypeStays, ChanTypeStays, FlagTypeStays,
     TakenStays, SavedStays, BacklogStays
     DEF cmVars, chanVars, leaderVars, clientVars, stopVars, envVars

\* A call that ends, and a vote that is counted for it or not.
LEMMA CallAnswered ==
    ASSUME NEW f, NEW g, CountedOf(f, g), NEW t \in Term, NEW p \in Peer, f[t][p] = "sent",
           NEW h, h \in {g, [g EXCEPT ![t] = @ + 1]}
    PROVE  CountedOf([f EXCEPT ![t][p] = "none"], h)
<1> DEFINE e == [f EXCEPT ![t][p] = "none"]
<1>1. /\ f \in [Term -> [Peer -> {"none", "sent"}]] /\ g \in [Term -> Nat]
      /\ \A u \in Term : g[u] + Cardinality(Asked(f[u])) <= Cardinality(Peer) + 1
  BY DEF CountedOf
<1>2. e \in [Term -> [Peer -> {"none", "sent"}]] /\ h \in [Term -> Nat]
  BY <1>1
<1>3. /\ e[t] = [f[t] EXCEPT ![p] = "none"] /\ \A u \in Term \ {t} : e[u] = f[u]
      /\ h[t] \in {g[t], g[t] + 1} /\ \A u \in Term \ {t} : h[u] = g[u]
  BY <1>1
<1> HIDE DEF e
<1>4. /\ Asked(e[t]) = Asked(f[t]) \ {p} /\ p \in Asked(f[t])
      /\ Asked(f[t]) \subseteq Peer
  BY <1>1, <1>3 DEF Asked
<1>5. IsFiniteSet(Asked(f[t])) /\ Cardinality(Asked(f[t])) \in Nat
  BY <1>4, Bounds, FS_Subset, FS_CardinalityType
<1>6. Cardinality(Asked(f[t]) \ {p}) = Cardinality(Asked(f[t])) - 1
  BY <1>4, <1>5, FS_RemoveElement
<1>7. Cardinality(Asked(e[t])) = Cardinality(Asked(f[t])) - 1
  BY <1>4, <1>6, Zenon
<1>8. h[t] + Cardinality(Asked(e[t])) <= Cardinality(Peer) + 1
  <2>1. Cardinality(Peer) \in Nat /\ g[t] \in Nat
    BY <1>1, Bounds
  <2>2. g[t] + Cardinality(Asked(f[t])) <= Cardinality(Peer) + 1
    BY <1>1
  <2> QED
    BY <2>1, <2>2, <1>3, <1>5, <1>7
<1>9. ASSUME NEW u \in Term \ {t}
      PROVE  h[u] + Cardinality(Asked(e[u])) <= Cardinality(Peer) + 1
  <2>1. g[u] + Cardinality(Asked(f[u])) <= Cardinality(Peer) + 1
    BY <1>1
  <2> QED
    BY <2>1, <1>3
<1>10. \A u \in Term : h[u] + Cardinality(Asked(e[u])) <= Cardinality(Peer) + 1
  BY <1>8, <1>9
<1> QED
  BY <1>2, <1>10 DEF CountedOf, e

LEMMA RequestVoteFailsKeeps ==
    ASSUME IInv, NEW t \in Term, NEW p \in Peer, RequestVoteFails(t, p)
    PROVE  IInv'
<1> USE DEF IInv, RequestVoteFails
<1>1. Counted'
  <2>1. CountedOf([rv EXCEPT ![t][p] = "none"], votes)
    BY CallAnswered DEF Counted
  <2> QED
    BY <2>1 DEF Counted
<1> QED
  BY <1>1, CMTypeStays, LeaderTypeStays, ChanTypeStays, FlagTypeStays, ServerTypeStays,
     TimerTypeStays, TimerRunsStays, TakenStays, SavedStays, BacklogStays
     DEF cmVars, chanVars, leaderVars, clientVars, stopVars, envVars

LEMMA RequestVoteReplyKeeps ==
    ASSUME IInv, NEW t \in Term, NEW p \in Peer, NEW r \in Term, NEW g \in BOOLEAN,
           RequestVoteReply(t, p, r, g)
    PROVE  IInv'
<1> USE DEF IInv
<1> DEFINE v == [votes EXCEPT ![t] = @ + 1]
<1>1. /\ rv[t][p] = "sent" /\ rv' = [rv EXCEPT ![t][p] = "none"]
      /\ votes' \in {votes, v}
      /\ starting' \in {starting, starting + 1}
      /\ state' \in CMState /\ currentTerm' \in Term /\ votedFor' \in Voter
      /\ \/ UNCHANGED <<nextIndex, matchIndex, loop>>
         \/ StartLeader
      /\ \/ starting' = starting + 1
         \/ state' = "Leader"
         \/ UNCHANGED <<state, currentTerm, starting>>
      /\ UNCHANGED <<notifying, triggering, log, commitIndex, lastApplied, stored, chanVars,
                     held, ticking, call, clientVars, stopVars, envVars>>
  BY DEF RequestVoteReply, BecomeFollower, StartLeader, CMType, CMState, Voter
<1>2. Counted'
  <2>1. CountedOf([rv EXCEPT ![t][p] = "none"], votes)
    BY <1>1, CallAnswered DEF Counted
  <2>2. CountedOf([rv EXCEPT ![t][p] = "none"], v)
    BY <1>1, CallAnswered DEF Counted
  <2> HIDE DEF v
  <2> QED
    BY <2>1, <2>2, <1>1 DEF Counted
<1> HIDE DEF v
<1>3. CMType'
  BY <1>1 DEF CMType
<1>4. LeaderType'
  <2>1. CASE UNCHANGED <<nextIndex, matchIndex, loop>>
    BY <2>1, <1>1, LeaderTypeStays
  <2>2. CASE StartLeader
    <3>1. nextIndex' \in [Peer -> 1..(MaxLog + 1)] /\ matchIndex' \in [Peer -> 0..MaxLog]
      BY <2>2, Bounds DEF StartLeader, CMType, LogType
    <3>2. loop' \in [Term -> {"none", "first", "select", "check", "ended"}]
      BY <2>2 DEF StartLeader, LeaderType
    <3> QED
      BY <3>1, <3>2, <1>1 DEF LeaderType
  <2> QED
    BY <1>1, <2>1, <2>2
<1>5. TimerType' /\ TimerRuns'
  BY <1>1 DEF TimerType, TimerRuns, TimerExpires
<1> QED
  BY <1>1, <1>2, <1>3, <1>4, <1>5, ChanTypeStays, FlagTypeStays, ServerTypeStays,
     TakenStays, SavedStays, BacklogStays
     DEF cmVars, chanVars, leaderVars, clientVars, stopVars, envVars

-----------------------------------------------------------------------------
(* Leading *)

\* A step that moves nothing but a heartbeat loop, and takes a trigger or not.
LEMMA LoopKeeps ==
    ASSUME IInv, NEW t \in Term, LoopTimer(t) \/ LoopChecks(t) \/ LoopTriggered(t)
    PROVE  IInv'
<1> USE DEF IInv, LoopTimer, LoopChecks, LoopTriggered
<1>1. LeaderType'
  BY DEF LeaderType, cmVars
<1>2. ChanType'
  BY Bounds DEF ChanType, chanVars, clientVars
<1> QED
  BY <1>1, <1>2, CMTypeStays, FlagTypeStays, ServerTypeStays, TimerTypeStays, CountedStays,
     TimerRunsStays, TakenStays, SavedStays, BacklogStays
     DEF cmVars, chanVars, electionVars, leaderVars, clientVars, stopVars, envVars

\* leaderSendAEs spawns a goroutine per peer, in slots that are free.
LEMMA SpawnedType ==
    ASSUME NEW t \in Term, NEW p \in Peer
    PROVE  [NoCall EXCEPT !.pc = "spawned", !.term = t, !.peer = p] \in Goroutine
<1> DEFINE c == [NoCall EXCEPT !.pc = "spawned", !.term = t, !.peer = p]
           Call == [pc : {"free", "spawned", "sent"}, term : Term,
                    peer : Peer \cup {Nobody}, ni : Nat, n : Nat]
<1>1. NoCall \in Call /\ NoCall.ni = 1 /\ NoCall.n = 0
  BY Bounds DEF NoCall
<1>2. c \in Call /\ c.pc = "spawned" /\ c.peer = p /\ c.ni = 1 /\ c.n = 0
  BY <1>1
<1> HIDE DEF c
<1>3. c \in Goroutine
  BY <1>2, Bounds DEF Goroutine
<1> QED
  BY <1>3 DEF c

LEMMA LeaderSendAEsKeeps ==
    ASSUME IInv, NEW t \in Term, LeaderSendAEs(t)
    PROVE  IInv'
<1> USE DEF IInv
<1>1. /\ UNCHANGED <<notifying, triggering, cmVars, chanVars, held, electionVars, clientVars,
                     stopVars, envVars>>
      /\ loop' = [loop EXCEPT ![t] = "select"]
  BY DEF LeaderSendAEs
<1>2. loop' \in [Term -> {"none", "first", "select", "check", "ended"}]
  BY <1>1 DEF LeaderType
<1>3. call' \in [Slot -> Goroutine]
  <2>1. CASE state = "Leader"
    <3>1. PICK slot \in [Peer -> Slot] :
            call' = [k \in Slot |->
                IF \E p \in Peer : slot[p] = k
                THEN [NoCall EXCEPT !.pc = "spawned", !.term = currentTerm,
                                    !.peer = CHOOSE p \in Peer : slot[p] = k]
                ELSE call[k]]
      BY <2>1 DEF LeaderSendAEs
    <3>2. currentTerm \in Term /\ call \in [Slot -> Goroutine]
      BY DEF CMType, LeaderType
    <3>3. ASSUME NEW k \in Slot, \E p \in Peer : slot[p] = k PROVE call'[k] \in Goroutine
      <4> DEFINE q == CHOOSE p \in Peer : slot[p] = k
      <4>1. q \in Peer
        BY <3>3
      <4>2. call'[k] = [NoCall EXCEPT !.pc = "spawned", !.term = currentTerm, !.peer = q]
        BY <3>1, <3>3
      <4> HIDE DEF q
      <4>3. [NoCall EXCEPT !.pc = "spawned", !.term = currentTerm, !.peer = q] \in Goroutine
        BY <4>1, <3>2, SpawnedType
      <4> QED
        BY <4>2, <4>3, Zenon
    <3>4. ASSUME NEW k \in Slot, ~(\E p \in Peer : slot[p] = k) PROVE call'[k] \in Goroutine
      BY <3>1, <3>2, <3>4
    <3>5. \A k \in Slot : call'[k] \in Goroutine
      BY <3>3, <3>4
    <3>6. call' = [k \in Slot |-> call'[k]]
      BY <3>1
    <3> QED
      BY <3>5, <3>6
  <2>2. CASE state # "Leader"
    BY <2>2 DEF LeaderSendAEs, LeaderType
  <2> QED
    BY <2>1, <2>2
<1>4. LeaderType'
  BY <1>1, <1>2, <1>3 DEF LeaderType, cmVars
<1> QED
  BY <1>1, <1>4, CMTypeStays, ChanTypeStays, FlagTypeStays, ServerTypeStays, TimerTypeStays,
     CountedStays, TimerRunsStays, TakenStays, SavedStays, BacklogStays
     DEF cmVars, chanVars, electionVars, clientVars, stopVars, envVars

\* What the goroutine reads, and that what it sends ends where the log does.
LEMMA SentType ==
    ASSUME NEW c \in Goroutine, c.pc = "spawned", NEW ni \in 1..(MaxLog + 1),
           NEW len \in 0..MaxLog, ni <= len + 1
    PROVE  [c EXCEPT !.pc = "sent", !.ni = ni, !.n = len + 1 - ni] \in Goroutine
<1> DEFINE n == len + 1 - ni
<1>1. n \in Nat /\ ni \in Nat /\ ni >= 1 /\ ni + n <= MaxLog + 1
  BY Bounds
<1> HIDE DEF n
<1>2. c \in [pc : {"free", "spawned", "sent"}, term : Term,
             peer : Peer \cup {Nobody}, ni : Nat, n : Nat] /\ c.peer \in Peer
  BY DEF Goroutine
<1>3. [c EXCEPT !.pc = "sent", !.ni = ni, !.n = n] \in Goroutine
  BY <1>1, <1>2 DEF Goroutine
<1> QED
  BY <1>3 DEF n

LEMMA SendAppendEntriesKeeps ==
    ASSUME IInv, NEW k \in Slot, SendAppendEntries(k)
    PROVE  IInv'
<1> USE DEF IInv
<1> DEFINE ni == nextIndex[call[k].peer]
           c == [call[k] EXCEPT !.pc = "sent", !.ni = ni, !.n = Len(log) + 1 - ni]
<1>1. /\ call[k].pc = "spawned"
      /\ \/ panicked' = "index" /\ UNCHANGED call
         \/ ni <= Len(log) + 1 /\ call' = [call EXCEPT ![k] = c] /\ UNCHANGED panicked
      /\ UNCHANGED <<notifying, triggering, cmVars, chanVars, held, electionVars,
                     loop, clientVars, sender, batch, stop, envVars>>
  <2>1. call[k] \in Goroutine /\ log \in Seq(Term)
    BY DEF LeaderType, CMType, LogType
  <2>2. ni \in Nat /\ Len(log) \in Nat
    BY <2>1 DEF SendAppendEntries, Goroutine, LeaderType
  <2> QED
    BY <2>2 DEF SendAppendEntries
<1>2. LeaderType'
  <2>1. CASE UNCHANGED call
    BY <2>1, <1>1, LeaderTypeStays DEF cmVars
  <2>2. CASE ni <= Len(log) + 1 /\ call' = [call EXCEPT ![k] = c]
    <3>1. call[k] \in Goroutine /\ Len(log) \in 0..MaxLog
      BY DEF LeaderType, CMType, LogType
    <3>2. ni \in 1..(MaxLog + 1)
      BY <1>1, <3>1 DEF LeaderType, Goroutine
    <3> HIDE DEF ni
    <3>3. c \in Goroutine
      BY <3>1, <3>2, <1>1, <2>2, SentType
    <3> HIDE DEF c
    <3>4. call' \in [Slot -> Goroutine]
      BY <3>3, <2>2 DEF LeaderType
    <3> QED
      BY <3>4, <1>1 DEF LeaderType, cmVars
  <2> HIDE DEF c, ni
  <2> QED
    BY <1>1, <2>1, <2>2
<1>3. ServerType'
  BY <1>1 DEF ServerType, envVars
<1> QED
  BY <1>1, <1>2, <1>3, CMTypeStays, ChanTypeStays, FlagTypeStays, TimerTypeStays,
     CountedStays, TimerRunsStays, TakenStays, SavedStays, BacklogStays
     DEF cmVars, chanVars, electionVars, clientVars, envVars

\* A call that has ended leaves its slot free.
LEMMA EndedType ==
    ASSUME NEW k \in Slot, NEW f \in [Slot -> Goroutine]
    PROVE  [f EXCEPT ![k] = NoCall] \in [Slot -> Goroutine]
BY NoCallType

LEMMA AppendEntriesFailsKeeps ==
    ASSUME IInv, NEW k \in Slot, AppendEntriesFails(k)
    PROVE  IInv'
<1> USE DEF IInv, AppendEntriesFails
<1>1. LeaderType'
  BY EndedType DEF LeaderType, cmVars
<1> QED
  BY <1>1, CMTypeStays, ChanTypeStays, FlagTypeStays, ServerTypeStays, TimerTypeStays,
     CountedStays, TimerRunsStays, TakenStays, SavedStays, BacklogStays
     DEF cmVars, chanVars, electionVars, clientVars, stopVars, envVars

LEMMA NewerTermReplyKeeps ==
    ASSUME IInv, NEW k \in Slot, NEW r \in 1..MaxTerm, NewerTermReply(k, r)
    PROVE  IInv'
<1> USE DEF IInv, NewerTermReply, BecomeFollower
<1>1. LeaderType'
  BY EndedType DEF LeaderType
<1>2. r \in Term
  BY Bounds DEF Term
<1>3. CMType'
  BY <1>2 DEF CMType, CMState, Voter
<1>4. TimerType' /\ TimerRuns'
  BY DEF TimerType, TimerRuns
<1> QED
  BY <1>1, <1>3, <1>4, ChanTypeStays, FlagTypeStays, ServerTypeStays, CountedStays,
     TakenStays, SavedStays, BacklogStays
     DEF cmVars, chanVars, electionVars, clientVars, stopVars, envVars

LEMMA GreatestIn ==
    ASSUME NEW b \in Nat, NEW S \in SUBSET (0..b), S # {}
    PROVE  (CHOOSE i \in S : \A j \in S : j <= i) \in S
<1> DEFINE T == {n \in 0..b : b - n \in S}
<1>1. T \in SUBSET Nat /\ T # {}
  <2>1. PICK x \in S : TRUE
    OBVIOUS
  <2>2. b - x \in T
    OBVIOUS
  <2> QED
    BY <2>2
<1>2. PICK n \in T : \A m \in T : <<m, n>> \notin OpToRel(<, Nat)
  <2> HIDE DEF T
  <2> QED
    BY <1>1, NatLessThanWellFounded, WFMin
<1>3. \A m \in T : ~(m < n)
  BY <1>1, <1>2 DEF OpToRel
<1>4. b - n \in S
  OBVIOUS
<1>5. ASSUME NEW j \in S PROVE j <= b - n
  <2>1. b - j \in T /\ j \in 0..b
    OBVIOUS
  <2>2. ~(b - j < n)
    BY <2>1, <1>3
  <2> QED
    BY <2>1, <2>2
<1> HIDE DEF T
<1> QED
  BY <1>4, <1>5

\* The commit index moves forward, and within the log.
LEMMA AdvancedBounds ==
    ASSUME CMType, NEW match
    PROVE  Advanced(match) \in commitIndex..Len(log)
<1> DEFINE majority == {i \in (commitIndex + 1)..Len(log) :
                    /\ log[i] = currentTerm
                    /\ Quorum(1 + Cardinality({p \in Peer : match[p] >= i}))}
<1>1. Len(log) \in Nat /\ commitIndex \in 0..Len(log)
  BY DEF CMType, LogType
<1>2. Advanced(match) = IF majority = {} THEN commitIndex
                        ELSE CHOOSE i \in majority : \A j \in majority : j <= i
  BY DEF Advanced
<1>3. majority \in SUBSET (0..Len(log)) /\ majority \in SUBSET ((commitIndex + 1)..Len(log))
  BY <1>1
<1> HIDE DEF majority
<1>4. CASE majority = {}
  BY <1>1, <1>2, <1>4
<1>5. CASE majority # {}
  <2>1. Advanced(match) \in majority
    BY <1>1, <1>2, <1>3, <1>5, GreatestIn
  <2>2. Advanced(match) \in (commitIndex + 1)..Len(log)
    BY <2>1, <1>3
  <2> QED
    BY <2>2, <1>1
<1> QED
  BY <1>4, <1>5

LEMMA SumGrows ==
    \A r, n, h, s, c, n2, c2 \in Int :
        r + n + h + s <= c /\ n2 - n <= c2 - c => r + n2 + h + s <= c2
OBVIOUS

LEMMA SuccessReplyKeeps ==
    ASSUME IInv, NEW k \in Slot, SuccessReply(k)
    PROVE  IInv'
<1> USE DEF IInv
<1> DEFINE c == call[k]
           match == [matchIndex EXCEPT ![c.peer] = c.ni + c.n - 1]
           next == [nextIndex EXCEPT ![c.peer] = c.ni + c.n]
           a == Advanced(match)
<1>1. /\ c.pc = "sent"
      /\ \/ /\ nextIndex' = next /\ matchIndex' = match /\ commitIndex' = a
            /\ notifying' = IF a # commitIndex THEN notifying + 1 ELSE notifying
         \/ UNCHANGED <<nextIndex, matchIndex, commitIndex, notifying>>
      /\ call' = [call EXCEPT ![k] = NoCall]
      /\ UNCHANGED <<state, currentTerm, votedFor, log, lastApplied, stored,
                     chanVars, held, electionVars, loop, triggering,
                     clientVars, stopVars, envVars>>
  BY DEF SuccessReply
<1>2. c \in Goroutine
  BY DEF LeaderType
<1>3. match \in [Peer -> 0..MaxLog] /\ next \in [Peer -> 1..(MaxLog + 1)]
  BY <1>1, <1>2, Bounds DEF Goroutine, LeaderType
<1>4. a \in commitIndex..Len(log) /\ commitIndex \in Nat /\ Len(log) \in Nat
  BY AdvancedBounds DEF CMType, LogType
<1> HIDE DEF match, next, a
<1>5. call' \in [Slot -> Goroutine]
  BY <1>1, EndedType DEF LeaderType
<1>6. LeaderType'
  BY <1>1, <1>3, <1>5 DEF LeaderType
<1>7. commitIndex' \in commitIndex..Len(log)
      /\ notifying' \in Nat /\ notifying' - notifying <= commitIndex' - commitIndex
  BY <1>1, <1>4 DEF ChanType
<1>8. CMType'
  BY <1>1, <1>4, <1>7 DEF CMType
<1>9. ChanType'
  BY <1>1, <1>7 DEF ChanType, chanVars, clientVars
<1>10. Backlog'
  <2>1. /\ InHandler \in Nat /\ InSender \in Nat
        /\ InHandler' = InHandler /\ InSender' = InSender
    BY <1>1 DEF InHandler, InSender, stopVars
  <2>2. readyChan \in Nat /\ readyChan' = readyChan /\ notifying \in Nat
    BY <1>1 DEF ChanType, chanVars
  <2>3. readyChan + notifying + InHandler + InSender <= commitIndex
    BY DEF Backlog
  <2>4. /\ commitIndex' \in Int /\ notifying' \in Int
        /\ notifying' - notifying <= commitIndex' - commitIndex
    BY <1>4, <1>7
  <2>5. readyChan + notifying' + InHandler + InSender <= commitIndex'
    <3>1. /\ readyChan \in Int /\ notifying \in Int /\ InHandler \in Int
          /\ InSender \in Int /\ commitIndex \in Int
      BY <2>1, <2>2, <1>4
    <3> QED
      BY <3>1, <2>3, <2>4, SumGrows, Zenon
  <2> QED
    BY <2>1, <2>2, <2>5 DEF Backlog
<1> QED
  BY <1>1, <1>6, <1>8, <1>9, <1>10, FlagTypeStays, ServerTypeStays, TimerTypeStays,
     CountedStays, TimerRunsStays, TakenStays, SavedStays
     DEF chanVars, electionVars, clientVars, stopVars, envVars

LEMMA ConflictReplyKeeps ==
    ASSUME IInv, NEW k \in Slot, NEW i \in 1..MaxLog, NEW t \in -1..MaxTerm,
           ConflictReply(k, i, t)
    PROVE  IInv'
<1> USE DEF IInv
<1> DEFINE same == {j \in 1..Len(log) : log[j] = t}
           last == CHOOSE m \in same : \A j \in same : j <= m
           peer == call[k].peer
<1>1. /\ call[k].pc = "sent"
      /\ call' = [call EXCEPT ![k] = NoCall]
      /\ UNCHANGED <<notifying, triggering, state, currentTerm, votedFor,
                     log, commitIndex, lastApplied, matchIndex, stored,
                     chanVars, held, electionVars, loop, clientVars,
                     stopVars, envVars>>
  BY DEF ConflictReply
<1>2. \/ nextIndex' = [nextIndex EXCEPT ![peer] = nextIndex[peer]]
      \/ same # {} /\ nextIndex' = [nextIndex EXCEPT ![peer] = 1 + last]
      \/ nextIndex' = [nextIndex EXCEPT ![peer] = i]
  BY DEF ConflictReply
<1>3. peer \in Peer /\ nextIndex \in [Peer -> 1..(MaxLog + 1)]
  BY <1>1 DEF LeaderType, Goroutine
<1>4. same # {} => 1 + last \in 1..(MaxLog + 1)
  <2>1. Len(log) \in Nat /\ Len(log) <= MaxLog
    BY DEF CMType, LogType
  <2>2. same \in SUBSET (0..Len(log)) /\ same \in SUBSET (1..Len(log))
    BY <2>1
  <2> HIDE DEF same
  <2>3. same # {} => last \in 1..Len(log)
    BY <2>1, <2>2, GreatestIn
  <2> HIDE DEF last
  <2> QED
    BY <2>1, <2>3, Bounds
<1> HIDE DEF same, last, peer
<1>5. nextIndex' \in [Peer -> 1..(MaxLog + 1)]
  BY <1>2, <1>3, <1>4, Bounds
<1>6. LeaderType'
  BY <1>1, <1>5, EndedType DEF LeaderType
<1> QED
  BY <1>1, <1>6, CMTypeStays, ChanTypeStays, FlagTypeStays, ServerTypeStays, TimerTypeStays,
     CountedStays, TimerRunsStays, TakenStays, SavedStays, BacklogStays
     DEF cmVars, chanVars, electionVars, clientVars, stopVars, envVars

\* The notifications, wherever they are.
LEMMA Places ==
    ASSUME IInv
    PROVE  /\ readyChan \in Int /\ notifying \in Int /\ InHandler \in 0..1
           /\ InSender \in 0..1 /\ commitIndex \in Int /\ InHandler \in Int /\ InSender \in Int
           /\ readyChan + notifying + InHandler + InSender <= commitIndex
<1>1. readyChan \in Int /\ notifying \in Int
  BY DEF IInv, ChanType
<1>2. commitIndex \in Int
  BY DEF IInv, CMType, LogType
<1>3. InHandler \in 0..1 /\ InSender \in 0..1
  BY DEF InHandler, InSender
<1>4. readyChan + notifying + InHandler + InSender <= commitIndex
  BY DEF IInv, Backlog
<1> QED
  BY <1>1, <1>2, <1>3, <1>4

LEMMA NotifySenderKeeps ==
    ASSUME IInv, NotifySender
    PROVE  IInv'
<1> USE DEF IInv
<1>1. /\ notifying > 0
      /\ \/ panicked' = "closed" /\ UNCHANGED <<readyChan, notifying, triggering>>
         \/ /\ readyChan < ReadyCap /\ readyChan' = readyChan + 1
            /\ notifying' = notifying - 1 /\ triggering' = triggering + 1
            /\ UNCHANGED panicked
      /\ UNCHANGED <<cmVars, closed, trigger, held, electionVars, loop, call,
                     clientVars, sender, batch, stop, envVars>>
  BY DEF NotifySender
<1>2. ChanType'
  BY <1>1, Bounds DEF ChanType, clientVars
<1>3. ServerType'
  BY <1>1 DEF ServerType, envVars
<1>4. Backlog'
  <2>1. /\ InHandler' = InHandler /\ InSender' = InSender /\ commitIndex' = commitIndex
    BY <1>1 DEF InHandler, InSender, cmVars
  <2>2. /\ readyChan' \in Int /\ notifying' \in Int
        /\ readyChan' + notifying' = readyChan + notifying
    BY <1>1 DEF ChanType
  <2>3. readyChan' + notifying' + InHandler + InSender
          <= readyChan + notifying + InHandler + InSender
    BY <2>2, Places
  <2>4. readyChan' + notifying' + InHandler + InSender <= commitIndex
    BY <2>2, <2>3, Places
  <2> QED
    BY <2>1, <2>4 DEF Backlog
<1> QED
  BY <1>1, <1>2, <1>3, <1>4, CMTypeStays, LeaderTypeStays, FlagTypeStays, TimerTypeStays,
     CountedStays, TimerRunsStays, TakenStays, SavedStays
     DEF cmVars, electionVars, clientVars, envVars

LEMMA TriggerKeeps ==
    ASSUME IInv, NotifyLoop \/ \E c \in Caller : SubmitTriggers(c)
    PROVE  IInv'
<1> USE DEF IInv, NotifyLoop, SubmitTriggers
<1>1. ChanType'
  BY Bounds DEF ChanType, leaderVars, clientVars
<1> QED
  BY <1>1, CMTypeStays, LeaderTypeStays, FlagTypeStays, ServerTypeStays, TimerTypeStays,
     CountedStays, TimerRunsStays, TakenStays, SavedStays, BacklogStays
     DEF cmVars, electionVars, leaderVars, clientVars, stopVars, envVars

\* While the log keeps its committed entries, so does what was taken of it.
LEMMA TakenOf ==
    ASSUME IInv, Begins(log', log, lastApplied),
           UNCHANGED <<lastApplied, delivered, batch, sender>>
    PROVE  Taken'
<1> USE DEF IInv
<1>1. /\ delivered \in Seq(Term) /\ batch \in Seq(Term)
      /\ Len(delivered) \in Nat /\ Len(batch) \in Nat
      /\ Len(delivered) + Len(batch) = lastApplied
      /\ sender = "send" <=> batch # <<>>
  BY DEF Taken
<1>2. ASSUME NEW i \in 1..Len(delivered) PROVE delivered[i] = log'[i]
  <2>1. i \in 1..lastApplied
    BY <1>1
  <2> QED
    BY <2>1 DEF Begins, Taken
<1>3. ASSUME NEW i \in 1..Len(batch) PROVE batch[i] = log'[Len(delivered) + i]
  <2>1. Len(delivered) + i \in 1..lastApplied
    BY <1>1
  <2> QED
    BY <2>1 DEF Begins, Taken
<1> QED
  BY <1>1, <1>2, <1>3 DEF Taken

\* The whole log is in the storage.
LEMMA SavedOf ==
    ASSUME IInv, log' \in Seq(Term), stored'.log = log', lastApplied' \in 0..Len(log')
    PROVE  Saved'
BY DEF Saved, Begins

LEMMA SubmitKeeps ==
    ASSUME IInv, NEW c \in Caller, Submit(c)
    PROVE  IInv'
<1> USE DEF IInv
<1>1. /\ Len(log) < budget.log /\ log' = Append(log, currentTerm)
      /\ stored' = [term |-> currentTerm, vote |-> votedFor, log |-> log']
      /\ caller' = [caller EXCEPT ![c] = "trigger"]
      /\ UNCHANGED <<state, currentTerm, votedFor, commitIndex, lastApplied,
                     nextIndex, matchIndex, chanVars, held, electionVars,
                     leaderVars, delivered, stopVars, envVars>>
  BY DEF Submit, Persisted
<1>2. /\ log \in Seq(Term) /\ Len(log) \in Nat /\ currentTerm \in Term
      /\ commitIndex \in 0..Len(log) /\ lastApplied \in 0..commitIndex
  BY DEF CMType, LogType
<1>3. /\ log' \in Seq(Term) /\ Len(log') = Len(log) + 1
      /\ \A i \in 1..Len(log) : log'[i] = log[i]
  BY <1>1, <1>2
<1>4. log' \in LogType
  BY <1>1, <1>2, <1>3, Bounds DEF LogType, ServerType, Budget
<1>5. CMType'
  BY <1>1, <1>2, <1>3, <1>4 DEF CMType
<1>6. ChanType'
  BY <1>1 DEF ChanType, chanVars, leaderVars
<1>7. Taken'
  <2>1. Begins(log', log, lastApplied)
    BY <1>2, <1>3 DEF Begins
  <2> QED
    BY <2>1, <1>1, TakenOf DEF stopVars
<1>8. Saved'
  <2>1. stored'.log = log' /\ lastApplied' \in 0..Len(log')
    BY <1>1, <1>2, <1>3
  <2> QED
    BY <2>1, <1>3, SavedOf
<1> QED
  BY <1>1, <1>5, <1>6, <1>7, <1>8, LeaderTypeStays, FlagTypeStays, ServerTypeStays,
     TimerTypeStays, CountedStays, TimerRunsStays, BacklogStays
     DEF chanVars, electionVars, leaderVars, stopVars, envVars

-----------------------------------------------------------------------------
(* Requests of the peers *)

LEMMA ServingBudget == IInv /\ Serving => budget' \in Budget /\ ~held
BY DEF IInv, Serving, Unlocked, ServerType, Budget

LEMMA RequestVoteKeeps ==
    ASSUME IInv, NEW p \in Peer, NEW t \in 1..budget.term, NEW u \in BOOLEAN,
           RequestVote(p, t, u)
    PROVE  IInv'
<1> USE DEF IInv
<1> DEFINE newer == t > currentTerm
<1>1. t \in Term /\ currentTerm \in Nat
  BY Bounds DEF ServerType, Budget, Term, CMType
<1>2. /\ Serving
      /\ IF newer THEN /\ state' = "Follower" /\ currentTerm' = t
                       /\ starting' = starting + 1
         ELSE UNCHANGED <<state, currentTerm, starting>>
      /\ votedFor' \in Voter
      /\ stored' = [term |-> currentTerm', vote |-> votedFor', log |-> log]
      /\ UNCHANGED <<log, commitIndex, lastApplied, nextIndex, matchIndex,
                     chanVars, held, ticking, rv, votes, leaderVars,
                     clientVars, stopVars, peerTerms>>
  BY DEF RequestVote, CMType, Voter
<1>3. CMType'
  BY <1>1, <1>2 DEF CMType, CMState
<1>4. TimerType' /\ TimerRuns'
  BY <1>2 DEF TimerType, TimerRuns
<1>5. ServerType'
  BY <1>2, ServingBudget DEF ServerType, stopVars
<1>6. Saved'
  <2>1. log' \in Seq(Term) /\ stored'.log = log' /\ lastApplied' \in 0..Len(log')
    <3>1. log \in Seq(Term) /\ Len(log) \in Nat /\ lastApplied \in 0..Len(log)
      BY DEF CMType, LogType
    <3> QED
      BY <3>1, <1>2
  <2> QED
    BY <2>1, SavedOf
<1> QED
  BY <1>2, <1>3, <1>4, <1>5, <1>6, LeaderTypeStays, ChanTypeStays, FlagTypeStays,
     CountedStays, TakenStays, BacklogStays
     DEF chanVars, electionVars, leaderVars, clientVars, stopVars

LEMMA FirstEntries ==
    ASSUME NEW l \in Seq(Term), NEW m \in 0..Len(l)
    PROVE  /\ SubSeq(l, 1, m) \in Seq(Term) /\ Len(SubSeq(l, 1, m)) = m
           /\ \A n \in 1..m : SubSeq(l, 1, m)[n] = l[n]
<1>1. m \in Int /\ 1 \in Int /\ \A i \in 1..m : l[i] \in Term
  OBVIOUS
<1>2. /\ SubSeq(l, 1, m) \in Seq(Term)
      /\ Len(SubSeq(l, 1, m)) = IF 1 <= m THEN m - 1 + 1 ELSE 0
      /\ \A i \in 1..(m - 1 + 1) : SubSeq(l, 1, m)[i] = l[1 + i - 1]
  BY <1>1, SubSeqProperties
<1> QED
  BY <1>2

LEMMA EntriesType ==
    ASSUME NEW es \in Entries
    PROVE  es \in Seq(Term) /\ Len(es) \in Nat
<1>1. PICK n \in 0..MaxBatch : es \in [1..n -> 1..MaxTerm]
  BY DEF Entries
<1>2. n \in Nat /\ es \in [1..n -> Term]
  BY <1>1, BoundsAssumption DEF Term
<1>3. es \in Seq(Term)
  BY <1>2
<1> QED
  BY <1>3

\* The log after the entries of a peer that leads: it has the types, keeps what
\* was committed, and reaches as far as the peer says it has committed.
LEMMA MergedKeeps ==
    ASSUME IInv, NEW t, NEW prev \in 0..budget.log, NEW es \in Entries,
           NEW commit \in 0..budget.log, PeerLeads(t, prev, es, commit), prev <= Len(log)
    PROVE  /\ Merged(prev, es) \in LogType
           /\ Begins(Merged(prev, es), log, commitIndex)
           /\ commit <= Len(Merged(prev, es))
<1> USE DEF IInv
<1> DEFINE m == Merged(prev, es)
           known == \A i \in 1..Len(es) : prev + i <= Len(log) /\ log[prev + i] = es[i]
<1>1. /\ es \in Seq(Term) /\ Len(es) \in Nat /\ log \in Seq(Term) /\ Len(log) \in Nat
      /\ Len(log) <= MaxLog /\ prev \in 0..Len(log) /\ commit \in Nat
      /\ commitIndex \in 0..Len(log) /\ budget.log \in Nat /\ budget.log <= MaxLog
  BY EntriesType DEF CMType, LogType, ServerType, Budget
<1>2. /\ prev + Len(es) <= budget.log /\ commit <= prev + Len(es)
      /\ Len(m) >= commitIndex /\ SubSeq(m, 1, commitIndex) = SubSeq(log, 1, commitIndex)
  BY DEF PeerLeads
<1>3. m \in Seq(Term) /\ Len(m) <= MaxLog /\ commit <= Len(m)
  <2>1. CASE known
    <3>1. m = log
      BY <2>1 DEF Merged
    <3>2. prev + Len(es) <= Len(log)
      <4>1. CASE Len(es) = 0
        BY <4>1, <1>1
      <4>2. CASE Len(es) # 0
        <5>1. Len(es) \in 1..Len(es)
          BY <4>2, <1>1
        <5> QED
          BY <5>1, <2>1
      <4> QED
        BY <4>1, <4>2
    <3> QED
      BY <3>1, <3>2, <1>1, <1>2
  <2>2. CASE ~known
    <3> DEFINE front == SubSeq(log, 1, prev)
    <3>1. m = front \o es
      BY <2>2 DEF Merged
    <3>2. front \in Seq(Term) /\ Len(front) = prev
      BY <1>1, FirstEntries
    <3> HIDE DEF front
    <3>3. front \o es \in Seq(Term) /\ Len(front \o es) = prev + Len(es)
      BY <3>2, <1>1, ConcatProperties
    <3> HIDE DEF m, known
    <3> QED
      BY <3>1, <3>3, <1>1, <1>2, Bounds
  <2> QED
    BY <2>1, <2>2
<1> HIDE DEF m, known
<1>4. Begins(m, log, commitIndex)
  <2>1. Len(m) \in Nat /\ commitIndex \in 0..Len(m)
    BY <1>1, <1>2, <1>3
  <2>2. ASSUME NEW i \in 1..commitIndex PROVE m[i] = log[i]
    <3>1. SubSeq(m, 1, commitIndex)[i] = m[i]
      BY <1>3, <2>1, FirstEntries
    <3>2. SubSeq(log, 1, commitIndex)[i] = log[i]
      BY <1>1, FirstEntries
    <3> QED
      BY <3>1, <3>2, <1>2
  <2> QED
    BY <1>1, <2>1, <2>2 DEF Begins
<1> QED
  BY <1>3, <1>4 DEF m, LogType

LEMMA BeginsLess ==
    ASSUME NEW l \in Seq(Term), NEW m \in Seq(Term), NEW n \in Nat, NEW k \in 0..n,
           Begins(l, m, n)
    PROVE  Begins(l, m, k) /\ Begins(m, l, k)
<1>1. n <= Len(l) /\ n <= Len(m) /\ \A i \in 1..n : l[i] = m[i]
  BY DEF Begins
<1>2. Len(l) \in Nat /\ Len(m) \in Nat
  OBVIOUS
<1>3. \A i \in 1..k : i \in 1..n
  OBVIOUS
<1> QED
  BY <1>1, <1>2, <1>3 DEF Begins

\* What AppendEntries does to the log, the storage and the channel.
LEMMA AppendEntriesStep ==
    ASSUME IInv, NEW t \in 1..budget.term, NEW prev \in 0..budget.log, NEW es \in Entries,
           NEW commit \in 0..budget.log, NEW m \in BOOLEAN,
           AppendEntries(t, prev, es, commit, m)
    PROVE  /\ log' \in LogType /\ Begins(log', log, commitIndex)
           /\ \/ /\ UNCHANGED <<commitIndex, readyChan, held>>
                 /\ stored' = Persisted'
              \/ /\ commitIndex' \in (commitIndex + 1)..Len(log')
                 /\ \/ closed /\ UNCHANGED <<readyChan, held, stored>>
                    \/ /\ readyChan < ReadyCap /\ readyChan' = readyChan + 1
                       /\ stored' = Persisted' /\ UNCHANGED held
                    \/ held' = TRUE /\ UNCHANGED <<readyChan, stored>>
<1> USE DEF IInv
<1> DEFINE success == t >= currentTerm /\ m
           newLog == IF success THEN Merged(prev, es) ELSE log
           notifies == Notifies(success, commit)
<1>1. /\ log' = newLog
      /\ commitIndex' = IF notifies THEN AdvancesTo(commit, newLog) ELSE commitIndex
      /\ PeerLeads(t, prev, es, commit)
      /\ m => prev <= Len(log)
      /\ \/ /\ ~notifies
            /\ stored' = Persisted'
            /\ UNCHANGED <<readyChan, held>>
         \/ /\ notifies /\ closed
            /\ UNCHANGED <<readyChan, held, stored>>
         \/ /\ notifies /\ ~closed /\ readyChan < ReadyCap
            /\ readyChan' = readyChan + 1
            /\ stored' = Persisted'
            /\ UNCHANGED held
         \/ /\ notifies /\ ~closed /\ readyChan = ReadyCap
            /\ held' = TRUE
            /\ UNCHANGED <<readyChan, stored>>
  BY DEF AppendEntries
<1>2. /\ log \in Seq(Term) /\ log \in LogType /\ Len(log) \in Nat
      /\ commitIndex \in 0..Len(log) /\ commit \in Nat
  BY DEF CMType, LogType, ServerType, Budget
<1>3. CASE success
  <2>1. /\ Merged(prev, es) \in LogType /\ Begins(Merged(prev, es), log, commitIndex)
        /\ commit <= Len(Merged(prev, es))
    BY <1>1, <1>3, MergedKeeps
  <2>2. log' = Merged(prev, es)
    BY <1>1, <1>3
  <2>3. log' \in LogType /\ Begins(log', log, commitIndex) /\ commit <= Len(log')
    BY <2>1, <2>2, Zenon
  <2>4. notifies => commitIndex' \in (commitIndex + 1)..Len(log')
    <3>1. ASSUME notifies PROVE commitIndex' \in (commitIndex + 1)..Len(log')
      <4>1. commit > commitIndex
        BY <3>1 DEF Notifies
      <4>2. commitIndex' = AdvancesTo(commit, log')
        BY <1>1, <3>1
      <4>3. Len(log') \in Nat
        BY <2>3 DEF LogType
      <4>4. commitIndex' = commit
        BY <4>2, <4>3, <2>3, <1>2 DEF AdvancesTo
      <4> QED
        BY <4>1, <4>3, <4>4, <2>3, <1>2
    <3> QED
      BY <3>1
  <2>5. ~notifies => commitIndex' = commitIndex
    BY <1>1
  <2> HIDE DEF notifies, newLog, success
  <2> QED
    BY <1>1, <2>3, <2>4, <2>5
<1>4. CASE ~success
  <2>1. ~notifies
    BY <1>4 DEF Notifies
  <2>2. log' = log /\ commitIndex' = commitIndex
    BY <1>1, <1>4, <2>1
  <2>3. Begins(log, log, commitIndex)
    BY <1>2 DEF Begins
  <2>4. log' \in LogType /\ Begins(log', log, commitIndex)
    BY <2>2, <2>3, <1>2, Zenon
  <2> HIDE DEF notifies, newLog, success
  <2> QED
    BY <1>1, <2>1, <2>2, <2>4
<1> QED
  BY <1>3, <1>4

LEMMA AppendEntriesKeeps ==
    ASSUME IInv, NEW t \in 1..budget.term, NEW prev \in 0..budget.log, NEW es \in Entries,
           NEW commit \in 0..budget.log, NEW m \in BOOLEAN,
           AppendEntries(t, prev, es, commit, m)
    PROVE  IInv'
<1> USE DEF IInv
<1> DEFINE PersistsOnly == UNCHANGED <<commitIndex, readyChan, held>> /\ stored' = Persisted'
           DiesHalfWay == closed /\ UNCHANGED <<readyChan, held, stored>>
           Sends == /\ readyChan < ReadyCap /\ readyChan' = readyChan + 1
                    /\ stored' = Persisted' /\ UNCHANGED held
           Waits == held' = TRUE /\ UNCHANGED <<readyChan, stored>>
<1>1. /\ log' \in LogType /\ Begins(log', log, commitIndex)
      /\ \/ PersistsOnly
         \/ commitIndex' \in (commitIndex + 1)..Len(log') /\ (DiesHalfWay \/ Sends \/ Waits)
  BY AppendEntriesStep
<1>2. /\ Serving /\ peerTerms' = peerTerms \cup {t}
      /\ \/ state' = "Follower" /\ currentTerm' = t /\ votedFor' = Nobody
            /\ starting' = starting + 1
         \/ UNCHANGED <<state, currentTerm, votedFor, starting>>
      /\ UNCHANGED <<lastApplied, nextIndex, matchIndex, closed, trigger,
                     ticking, rv, votes, leaderVars, clientVars, stopVars>>
  BY DEF AppendEntries, BecomeFollower
<1>3. /\ log \in Seq(Term) /\ log' \in Seq(Term) /\ Len(log) \in Nat /\ Len(log') \in Nat
      /\ commitIndex \in Nat /\ lastApplied \in 0..commitIndex /\ commitIndex <= Len(log')
      /\ t \in Term
  <2>1. log \in Seq(Term) /\ log' \in Seq(Term)
    BY <1>1 DEF CMType, LogType
  <2>2. Len(log) \in Nat /\ Len(log') \in Nat
    BY <2>1
  <2>3. commitIndex \in Nat /\ lastApplied \in 0..commitIndex
    BY <2>2 DEF CMType
  <2>4. commitIndex <= Len(log')
    BY <1>1 DEF Begins
  <2>5. budget.term \in Nat /\ budget.term <= MaxTerm
    BY DEF ServerType, Budget
  <2>6. t \in Term
    BY <2>5, Bounds DEF Term
  <2> QED
    BY <2>1, <2>2, <2>3, <2>4, <2>6
<1>4. commitIndex' \in commitIndex..Len(log') /\ lastApplied' \in 0..commitIndex'
      /\ lastApplied' \in 0..Len(log')
  BY <1>1, <1>2, <1>3
<1>5. currentTerm' \in Term /\ votedFor' \in Voter /\ state' \in CMState
  BY <1>2, <1>3 DEF CMType, CMState, Voter
<1>6. stored' = Persisted' \/ stored' = stored
  BY <1>1
<1>7. CMType'
  <2>1. stored' \in [term : Term, vote : Voter, log : LogType]
    BY <1>1, <1>5, <1>6 DEF CMType, Persisted
  <2>2. commitIndex' \in 0..Len(log')
    BY <1>3, <1>4
  <2> QED
    BY <2>1, <2>2, <1>1, <1>4, <1>5 DEF CMType
<1>8. TimerType' /\ TimerRuns'
  BY <1>2 DEF TimerType, TimerRuns
<1>9. ServerType'
  BY <1>2, <1>3, ServingBudget DEF ServerType, stopVars
<1>10. ChanType' /\ FlagType'
  <2>1. readyChan' \in 0..ReadyCap
    BY <1>1, Bounds DEF ChanType
  <2>2. held' = held \/ held' = TRUE
    BY <1>1
  <2>3. FlagType'
    BY <1>2, <2>2 DEF FlagType
  <2> QED
    BY <2>1, <2>3, <1>2 DEF ChanType, leaderVars, clientVars
<1>11. Taken'
  <2>1. Begins(log', log, lastApplied)
    BY <1>1, <1>3, BeginsLess
  <2> QED
    BY <2>1, <1>2, TakenOf DEF clientVars, stopVars
<1>12. Saved'
  <2>1. CASE stored' = Persisted'
    <3>1. stored'.log = log'
      BY <2>1 DEF Persisted
    <3> QED
      BY <3>1, <1>3, <1>4, SavedOf
  <2>2. CASE DiesHalfWay
    BY <2>2, <1>2 DEF Saved
  <2>3. CASE Waits
    <3>1. Begins(log, log', lastApplied)
      BY <1>1, <1>3, BeginsLess
    <3>2. ~held
      BY <1>2, ServingBudget
    <3>3. ~closed => stored.log = log
      BY <3>2 DEF Saved
    <3>4. ~closed => Begins(stored'.log, log', lastApplied')
      BY <3>1, <3>3, <2>3, <1>2
    <3> QED
      BY <3>4, <2>3, <1>2 DEF Saved
  <2> QED
    BY <1>1, <2>1, <2>2, <2>3
<1>13. Backlog'
  <2>1. ~held /\ InHandler = 0
    BY <1>2, ServingBudget DEF InHandler
  <2>2. InSender' = InSender
    BY <1>2 DEF InSender, stopVars
  <2>3. InHandler' \in 0..1 /\ (InHandler' = 0 <=> ~held')
    BY DEF InHandler
  <2>4. notifying' = notifying /\ commitIndex' \in Int /\ readyChan' \in Int
    BY <1>2, <1>3, <1>4, <1>10 DEF leaderVars, ChanType
  <2>5. /\ readyChan' + InHandler' - readyChan <= commitIndex' - commitIndex
    <3>1. CASE PersistsOnly
      BY <3>1, <2>1, <2>3, Places
    <3>2. CASE commitIndex' \in (commitIndex + 1)..Len(log') /\ DiesHalfWay
      BY <3>2, <2>1, <2>3, <1>3, Places
    <3>3. CASE commitIndex' \in (commitIndex + 1)..Len(log') /\ Sends
      <4>1. commitIndex' >= commitIndex + 1 /\ readyChan' = readyChan + 1
        BY <3>3, <1>3
      <4>2. InHandler' = 0 /\ readyChan \in Int /\ commitIndex \in Int
        BY <3>3, <2>1, <2>3, Places
      <4>3. \A a, b, c, d, h \in Int :
                b >= a + 1 /\ d = c + 1 /\ h = 0 => d + h - c <= b - a
        OBVIOUS
      <4>4. readyChan' \in Int /\ commitIndex' \in Int /\ InHandler' \in Int
        BY <4>2, <2>4
      <4> QED
        BY <4>1, <4>2, <4>3, <4>4
    <3>4. CASE commitIndex' \in (commitIndex + 1)..Len(log') /\ Waits
      BY <3>4, <2>1, <2>3, <1>3, Places
    <3> QED
      BY <1>1, <3>1, <3>2, <3>3, <3>4
  <2>6. readyChan' + notifying + InHandler' + InSender <= commitIndex'
    BY <2>1, <2>3, <2>4, <2>5, Places
  <2> QED
    BY <2>2, <2>4, <2>6 DEF Backlog
<1> QED
  BY <1>2, <1>7, <1>8, <1>9, <1>10, <1>11, <1>12, <1>13, LeaderTypeStays, CountedStays
     DEF leaderVars

LEMMA AppendEntriesResumesKeeps ==
    ASSUME IInv, AppendEntriesResumes
    PROVE  IInv'
<1> USE DEF IInv
<1>1. /\ held /\ held' = FALSE
      /\ \/ /\ readyChan < ReadyCap /\ readyChan' = readyChan + 1
            /\ stored' = [term |-> currentTerm, vote |-> votedFor, log |-> log]
         \/ closed /\ UNCHANGED <<readyChan, stored>>
      /\ UNCHANGED <<state, currentTerm, votedFor, log, commitIndex, lastApplied,
                     nextIndex, matchIndex, closed, trigger, electionVars,
                     leaderVars, clientVars, stopVars, envVars>>
  BY DEF AppendEntriesResumes, Persisted
<1>2. log \in Seq(Term) /\ Len(log) \in Nat /\ lastApplied \in 0..Len(log)
  BY DEF CMType, LogType
<1>3. CMType'
  BY <1>1 DEF CMType
<1>4. ChanType' /\ FlagType'
  <2>1. FlagType'
    BY <1>1 DEF FlagType
  <2> QED
    BY <2>1, <1>1, Bounds DEF ChanType, leaderVars, clientVars
<1>5. Saved'
  <2>1. CASE stored' = [term |-> currentTerm, vote |-> votedFor, log |-> log]
    <3>1. stored'.log = log' /\ log' \in Seq(Term) /\ lastApplied' \in 0..Len(log')
      BY <2>1, <1>1, <1>2
    <3> QED
      BY <3>1, SavedOf
  <2>2. CASE closed
    BY <2>2, <1>1 DEF Saved
  <2> QED
    BY <1>1, <2>1, <2>2
<1>6. Backlog'
  <2>1. InHandler = 1 /\ InHandler' = 0 /\ InSender' = InSender
        /\ notifying' = notifying /\ commitIndex' = commitIndex
    BY <1>1 DEF InHandler, InSender, stopVars, leaderVars
  <2>2. readyChan' \in Int /\ readyChan' <= readyChan + 1
    BY <1>1, Places
  <2>3. readyChan' + notifying + 0 + InSender <= commitIndex
    BY <2>1, <2>2, Places
  <2> QED
    BY <2>1, <2>3 DEF Backlog
<1> QED
  BY <1>1, <1>3, <1>4, <1>5, <1>6, LeaderTypeStays, ServerTypeStays, TimerTypeStays,
     CountedStays, TimerRunsStays, TakenStays
     DEF electionVars, leaderVars, clientVars, stopVars, envVars

-----------------------------------------------------------------------------
(* Delivery *)

LEMMA SenderReceivesKeeps ==
    ASSUME IInv, SenderReceives
    PROVE  IInv'
<1> USE DEF IInv
<1>1. /\ sender = "receive"
      /\ \/ readyChan > 0 /\ readyChan' = readyChan - 1 /\ sender' = "lock"
         \/ sender' = "done" /\ UNCHANGED readyChan
      /\ UNCHANGED <<cmVars, closed, trigger, held, electionVars, leaderVars,
                     clientVars, batch, stop, panicked, envVars>>
  BY DEF SenderReceives
<1>2. ChanType' /\ ServerType'
  BY <1>1, Bounds DEF ChanType, ServerType, leaderVars, clientVars, envVars
<1>3. Taken'
  BY <1>1 DEF Taken, cmVars, clientVars
<1>4. Backlog'
  <2>1. /\ InSender = 0 /\ InSender' \in 0..1 /\ InHandler' = InHandler
        /\ notifying' = notifying /\ commitIndex' = commitIndex
        /\ (InSender' = 0 <=> sender' # "lock")
    BY <1>1 DEF InHandler, InSender, leaderVars, cmVars
  <2>2. readyChan' \in Int /\ readyChan' + InSender' <= readyChan
    BY <1>1, <2>1, Places
  <2>3. readyChan' + notifying + InHandler + InSender' <= commitIndex
    BY <2>1, <2>2, Places
  <2> QED
    BY <2>1, <2>3 DEF Backlog
<1> QED
  BY <1>1, <1>2, <1>3, <1>4, CMTypeStays, LeaderTypeStays, FlagTypeStays, TimerTypeStays,
     CountedStays, TimerRunsStays, SavedStays
     DEF cmVars, electionVars, leaderVars, clientVars, envVars

\* The entries after the first m and up to the n-th.
LEMMA MiddleEntries ==
    ASSUME NEW l \in Seq(Term), NEW n \in 0..Len(l), NEW m \in 0..n
    PROVE  /\ SubSeq(l, m + 1, n) \in Seq(Term) /\ Len(SubSeq(l, m + 1, n)) = n - m
           /\ \A i \in 1..(n - m) : SubSeq(l, m + 1, n)[i] = l[m + i]
<1>1. m + 1 \in Int /\ n \in Int /\ \A i \in (m + 1)..n : l[i] \in Term
  OBVIOUS
<1>2. /\ SubSeq(l, m + 1, n) \in Seq(Term)
      /\ Len(SubSeq(l, m + 1, n)) = IF m + 1 <= n THEN n - (m + 1) + 1 ELSE 0
      /\ \A i \in 1..(n - (m + 1) + 1) : SubSeq(l, m + 1, n)[i] = l[(m + 1) + i - 1]
  BY <1>1, SubSeqProperties
<1> QED
  BY <1>2

LEMMA SenderTakesKeeps ==
    ASSUME IInv, SenderTakes
    PROVE  IInv'
<1> USE DEF IInv
<1> DEFINE b == SubSeq(log, lastApplied + 1, commitIndex)
<1>1. /\ ~held /\ sender = "lock"
      /\ batch' = b /\ lastApplied' = commitIndex
      /\ sender' = IF batch' = <<>> THEN "receive" ELSE "send"
      /\ UNCHANGED <<state, currentTerm, votedFor, log, commitIndex, nextIndex,
                     matchIndex, stored, chanVars, held, electionVars,
                     leaderVars, clientVars, stop, panicked, envVars>>
  BY DEF SenderTakes, Unlocked
<1>2. /\ log \in Seq(Term) /\ Len(log) \in Nat /\ commitIndex \in 0..Len(log)
      /\ lastApplied \in 0..commitIndex
  BY DEF CMType, LogType
<1>3. /\ b \in Seq(Term) /\ Len(b) = commitIndex - lastApplied
      /\ \A i \in 1..(commitIndex - lastApplied) : b[i] = log[lastApplied + i]
  BY <1>2, MiddleEntries
<1> HIDE DEF b
<1>4. CMType'
  BY <1>1, <1>2 DEF CMType
<1>5. ServerType'
  BY <1>1 DEF ServerType, envVars
<1>6. Taken'
  <2>1. batch = <<>> /\ Len(delivered) = lastApplied /\ delivered \in Seq(Term)
        /\ \A i \in 1..Len(delivered) : delivered[i] = log[i]
    BY <1>1 DEF Taken
  <2>2. sender' = "send" <=> batch' # <<>>
    BY <1>1
  <2>3. Len(delivered') + Len(batch') = lastApplied'
    BY <2>1, <1>1, <1>2, <1>3 DEF clientVars
  <2>4. \A i \in 1..Len(batch') : batch'[i] = log'[Len(delivered') + i]
    BY <2>1, <1>1, <1>3 DEF clientVars
  <2> QED
    BY <2>1, <2>2, <2>3, <2>4, <1>1, <1>3 DEF Taken, clientVars
<1>7. Saved'
  <2>1. ASSUME ~closed PROVE stored'.log = log'
    BY <2>1, <1>1 DEF Saved
  <2>2. log' \in Seq(Term) /\ lastApplied' \in 0..Len(log')
    BY <1>1, <1>2
  <2>3. CASE ~closed
    BY <2>1, <2>2, <2>3, SavedOf
  <2>4. CASE closed
    BY <2>4, <1>1 DEF Saved, chanVars
  <2> QED
    BY <2>3, <2>4
<1>8. Backlog'
  <2>1. /\ InSender = 1 /\ InSender' = 0 /\ InHandler' = InHandler
        /\ notifying' = notifying /\ commitIndex' = commitIndex /\ readyChan' = readyChan
    BY <1>1 DEF InHandler, InSender, leaderVars, chanVars
  <2>2. readyChan + notifying + InHandler + 0 <= commitIndex
    BY <2>1, Places
  <2> QED
    BY <2>1, <2>2 DEF Backlog
<1> QED
  BY <1>1, <1>4, <1>5, <1>6, <1>7, <1>8, LeaderTypeStays, ChanTypeStays, FlagTypeStays,
     TimerTypeStays, CountedStays, TimerRunsStays
     DEF chanVars, electionVars, leaderVars, clientVars, envVars

LEMMA CollectCommitsKeeps ==
    ASSUME IInv, CollectCommits
    PROVE  IInv'
<1> USE DEF IInv
<1>1. /\ sender = "send"
      /\ delivered' = Append(delivered, Head(batch)) /\ batch' = Tail(batch)
      /\ sender' = IF Len(batch) = 1 THEN "receive" ELSE "send"
      /\ UNCHANGED <<cmVars, chanVars, held, electionVars, leaderVars, caller,
                     stop, panicked, envVars>>
  BY DEF CollectCommits
<1>2. /\ delivered \in Seq(Term) /\ batch \in Seq(Term) /\ batch # <<>>
      /\ Len(delivered) + Len(batch) = lastApplied
      /\ \A i \in 1..Len(delivered) : delivered[i] = log[i]
      /\ \A i \in 1..Len(batch) : batch[i] = log[Len(delivered) + i]
  BY <1>1 DEF Taken
<1>3. Len(delivered) \in Nat /\ Len(batch) \in Nat /\ Len(batch) >= 1
  BY <1>2
<1>4. Head(batch) = batch[1] /\ batch[1] \in Term /\ batch[1] = log[Len(delivered) + 1]
  BY <1>2, <1>3
<1>5. /\ delivered' \in Seq(Term) /\ Len(delivered') = Len(delivered) + 1
      /\ \A i \in 1..Len(delivered) : delivered'[i] = delivered[i]
      /\ delivered'[Len(delivered) + 1] = batch[1]
  BY <1>1, <1>2, <1>4
<1>6. /\ batch' \in Seq(Term) /\ Len(batch') = Len(batch) - 1
      /\ \A i \in 1..(Len(batch) - 1) : batch'[i] = batch[i + 1]
  BY <1>1, <1>2, <1>3
<1>7. Taken'
  <2>1. Len(delivered') + Len(batch') = lastApplied' /\ log' = log
    BY <1>1, <1>2, <1>3, <1>5, <1>6 DEF cmVars
  <2>2. ASSUME NEW i \in 1..Len(delivered') PROVE delivered'[i] = log[i]
    <3>1. CASE i \in 1..Len(delivered)
      BY <3>1, <1>2, <1>5
    <3>2. CASE i = Len(delivered) + 1
      BY <3>2, <1>4, <1>5
    <3> QED
      BY <3>1, <3>2, <1>3, <1>5
  <2>3. ASSUME NEW i \in 1..Len(batch') PROVE batch'[i] = log[Len(delivered') + i]
    <3>1. i \in 1..(Len(batch) - 1) /\ i + 1 \in 1..Len(batch)
          /\ Len(delivered) + (i + 1) = Len(delivered') + i
      BY <1>3, <1>5, <1>6
    <3> QED
      BY <3>1, <1>2, <1>6
  <2>4. sender' = "send" <=> batch' # <<>>
    <3>1. sender' = "send" <=> Len(batch) # 1
      BY <1>1
    <3>2. batch' # <<>> <=> Len(batch') # 0
      BY <1>6
    <3> QED
      BY <3>1, <3>2, <1>3, <1>6
  <2> QED
    BY <2>1, <2>2, <2>3, <2>4, <1>5, <1>6 DEF Taken
<1>8. ServerType'
  BY <1>1 DEF ServerType, envVars
<1>9. Backlog'
  <2>1. InSender = 0 /\ InSender' = 0
    BY <1>1 DEF InSender
  <2> QED
    BY <2>1, <1>1 DEF Backlog, InHandler, cmVars, chanVars, leaderVars
<1> QED
  BY <1>1, <1>7, <1>8, <1>9, CMTypeStays, LeaderTypeStays, ChanTypeStays, FlagTypeStays,
     TimerTypeStays, CountedStays, TimerRunsStays, SavedStays
     DEF cmVars, chanVars, electionVars, leaderVars, envVars

-----------------------------------------------------------------------------
(* Shutdown and restart *)

LEMMA StopMarksKeeps ==
    ASSUME IInv, StopMarks
    PROVE  IInv'
<1> USE DEF IInv, StopMarks
<1>1. CMType'
  BY DEF CMType, CMState
<1>2. ServerType'
  <2>1. budget' \in Budget
    BY DEF ServerType, Budget
  <2> QED
    BY <2>1 DEF ServerType
<1>3. TimerRuns'
  BY DEF TimerRuns
<1> QED
  BY <1>1, <1>2, <1>3, LeaderTypeStays, ChanTypeStays, FlagTypeStays, TimerTypeStays,
     CountedStays, TakenStays, SavedStays, BacklogStays
     DEF chanVars, electionVars, leaderVars, clientVars

LEMMA StopStepKeeps ==
    ASSUME IInv, StopStep
    PROVE  IInv'
<1> USE DEF IInv, StopStep, StopCloses, StopWaits
<1>1. ServerType'
  BY DEF ServerType, envVars
<1>2. closed' = TRUE \/ UNCHANGED closed
  BY DEF chanVars
<1>3. FlagType'
  BY <1>2 DEF FlagType
<1>4. Saved'
  <2>1. CASE closed' = TRUE
    BY <2>1 DEF Saved
  <2>2. CASE UNCHANGED closed
    BY <2>2, SavedStays DEF cmVars
  <2> QED
    BY <1>2, <2>1, <2>2
<1> QED
  BY <1>1, <1>3, <1>4, CMTypeStays, LeaderTypeStays, ChanTypeStays, TimerTypeStays,
     CountedStays, TimerRunsStays, TakenStays, BacklogStays
     DEF cmVars, chanVars, electionVars, leaderVars, clientVars, envVars

LEMMA RestartPeerKeeps ==
    ASSUME IInv, RestartPeer
    PROVE  IInv'
<1> USE DEF IInv
<1>1. Booted(stored) /\ stored' = stored /\ peerTerms' = peerTerms
      /\ budget' = [budget EXCEPT !.restarts = @ - 1] /\ budget.restarts > 0
  BY DEF RestartPeer
<1>2. stored \in [term : Term, vote : Voter, log : LogType]
  BY DEF CMType
<1>3. /\ stored.term \in Term /\ stored.vote \in Voter /\ stored.log \in LogType
      /\ stored.log \in Seq(Term) /\ Len(stored.log) \in Nat
  BY <1>2 DEF LogType
<1>4. CMType'
  BY <1>1, <1>2, <1>3 DEF CMType, Booted, Restored, CMState
<1>5. LeaderType'
  BY <1>1, Bounds, NoCallType DEF LeaderType, Booted
<1>6. ChanType' /\ FlagType'
  <2>1. ChanType'
    BY <1>1, Bounds DEF ChanType, Booted
  <2>2. FlagType'
    BY <1>1 DEF FlagType, Booted
  <2> QED
    BY <2>1, <2>2
<1>7. ServerType'
  <2>1. budget' \in Budget
    BY <1>1 DEF ServerType, Budget
  <2> QED
    BY <2>1, <1>1 DEF ServerType, Booted
<1>8. TimerType' /\ TimerRuns'
  BY <1>1 DEF TimerType, TimerRuns, Booted
<1>9. Counted'
  <2>1. rv' = [t \in Term |-> [p \in Peer |-> "none"]] /\ votes' = [t \in Term |-> 0]
    BY <1>1 DEF Booted
  <2>2. CountedOf([t \in Term |-> [p \in Peer |-> "none"]], [t \in Term |-> 0])
    BY NothingAsked
  <2> QED
    BY <2>1, <2>2 DEF Counted
<1>10. Taken'
  BY <1>1 DEF Taken, Booted
<1>11. Saved'
  <2>1. log' \in Seq(Term) /\ stored'.log = log' /\ lastApplied' \in 0..Len(log')
    BY <1>1, <1>3 DEF Booted, Restored
  <2> QED
    BY <2>1, SavedOf
<1>12. Backlog'
  BY <1>1 DEF Backlog, InHandler, InSender, Booted
<1> QED
  BY <1>4, <1>5, <1>6, <1>7, <1>8, <1>9, <1>10, <1>11, <1>12

-----------------------------------------------------------------------------
(* The theorems *)

LEMMA IInvNext == IInv /\ [Next]_vars => IInv'
<1> SUFFICES ASSUME IInv, [Next]_vars PROVE IInv'
  OBVIOUS
<1>1. CASE UNCHANGED vars
  BY <1>1, StutterKeeps
<1>2. CASE Next
  <2>1. CASE TimerStarts
    BY <2>1, TimerStartsKeeps
  <2>2. CASE \E t \in Term : TimerEnds(t) \/ StartElection(t)
    BY <2>2, TimerEndsKeeps, StartElectionKeeps
  <2>3. CASE \E t \in Term, p \in Peer : RequestVoteFails(t, p)
    BY <2>3, RequestVoteFailsKeeps
  <2>4. CASE \E t \in Term, p \in Peer, r \in Term, g \in BOOLEAN :
                RequestVoteReply(t, p, r, g)
    BY <2>4, RequestVoteReplyKeeps
  <2>5. CASE \E t \in Term : LoopStep(t) \/ LoopTriggered(t)
    BY <2>5, LoopKeeps, LeaderSendAEsKeeps DEF LoopStep
  <2>6. CASE \E k \in Slot : CallStep(k)
    BY <2>6, SendAppendEntriesKeeps, AppendEntriesFailsKeeps, SuccessReplyKeeps,
       NewerTermReplyKeeps, ConflictReplyKeeps DEF CallStep, CallEnds
  <2>7. CASE NotifySender \/ NotifyLoop
    BY <2>7, NotifySenderKeeps, TriggerKeeps
  <2>8. CASE \E c \in Caller : Submit(c) \/ SubmitTriggers(c)
    BY <2>8, SubmitKeeps, TriggerKeeps
  <2>9. CASE PeerRequests
    BY <2>9, RequestVoteKeeps, AppendEntriesKeeps DEF PeerRequests
  <2>10. CASE AppendEntriesResumes
    BY <2>10, AppendEntriesResumesKeeps
  <2>11. CASE SenderStep
    BY <2>11, SenderReceivesKeeps, SenderTakesKeeps, CollectCommitsKeeps DEF SenderStep
  <2>12. CASE StopMarks \/ StopStep \/ RestartPeer
    BY <2>12, StopMarksKeeps, StopStepKeeps, RestartPeerKeeps
  <2> QED
    BY <1>2, <2>1, <2>2, <2>3, <2>4, <2>5, <2>6, <2>7, <2>8, <2>9, <2>10, <2>11, <2>12
       DEF Next
<1> QED
  BY <1>1, <1>2

LEMMA Inductive == Spec => []IInv
BY IInvInit, IInvNext, PTL DEF Spec

LEMMA IInvTypes == IInv => TypeOK
<1> SUFFICES ASSUME IInv PROVE TypeOK
  OBVIOUS
<1> USE DEF IInv
<1>1. \A t \in Term : votes[t] \in 0..(Cardinality(Peer) + 1)
  <2> TAKE t \in Term
  <2>1. /\ rv[t] \in [Peer -> {"none", "sent"}] /\ votes[t] \in Nat
        /\ votes[t] + Cardinality(Asked(rv[t])) <= Cardinality(Peer) + 1
    BY DEF Counted, CountedOf
  <2>2. Asked(rv[t]) \subseteq Peer
    BY DEF Asked
  <2>3. Cardinality(Asked(rv[t])) \in Nat /\ Cardinality(Peer) \in Nat
    BY <2>2, Bounds, FS_Subset, FS_CardinalityType
  <2> QED
    BY <2>1, <2>3
<1>2. votes \in [Term -> 0..(Cardinality(Peer) + 1)]
      /\ rv \in [Term -> [Peer -> {"none", "sent"}]]
  BY <1>1 DEF Counted, CountedOf
<1>3. closed \in BOOLEAN /\ held \in BOOLEAN
  BY Zenon DEF FlagType
<1>4. \A k \in Slot : call[k].pc \in {"free", "spawned", "sent"}
  BY DEF LeaderType, Goroutine
<1> QED
  BY <1>2, <1>3, <1>4
     DEF TypeOK, CMType, Voter, LogType, LeaderType, ChanType, ServerType, TimerType

\* Every variable has the type of what it models; a candidate never counts more
\* votes than there are servers, and no channel holds more than its capacity.
THEOREM TypeTheorem == Spec => []TypeOK
BY Inductive, IInvTypes, PTL

\* Whoever neither leads nor is dead has an election timer for its term, or one
\* that is about to be: craft.go starts a timer wherever it becomes a follower.
THEOREM TimerRunsTheorem == Spec => []TimerRuns
<1>1. IInv => TimerRuns
  BY DEF IInv
<1> QED
  BY <1>1, Inductive, PTL

\* What the client has received is in order in the storage, although
\* AppendEntries notifies commitChanSender before it persists.
THEOREM DeliveredDurableTheorem == Spec => []DeliveredDurable
<1>1. ASSUME IInv PROVE DeliveredDurable
  <2> USE <1>1 DEF IInv
  <2>1. /\ delivered \in Seq(Term) /\ batch \in Seq(Term)
        /\ Len(delivered) + Len(batch) = lastApplied
        /\ \A i \in 1..Len(delivered) : delivered[i] = log[i]
    BY DEF Taken
  <2>2. Len(delivered) \in Nat /\ Len(batch) \in Nat
    BY <2>1
  <2>3. ASSUME ~closed
        PROVE  /\ Len(delivered) <= Len(stored.log)
               /\ delivered = SubSeq(stored.log, 1, Len(delivered))
    <3> DEFINE s == stored.log
    <3>1. s \in Seq(Term) /\ Len(s) \in Nat
      BY DEF CMType, LogType
    <3>2. lastApplied <= Len(s) /\ \A i \in 1..lastApplied : s[i] = log[i]
      BY <2>3 DEF Saved, Begins
    <3> HIDE DEF s
    <3>3. Len(delivered) \in 0..Len(s)
      BY <2>1, <2>2, <3>1, <3>2
    <3>4. /\ SubSeq(s, 1, Len(delivered)) \in Seq(Term)
          /\ Len(SubSeq(s, 1, Len(delivered))) = Len(delivered)
          /\ \A i \in 1..Len(delivered) : SubSeq(s, 1, Len(delivered))[i] = s[i]
      BY <3>1, <3>3, FirstEntries
    <3>5. \A i \in 1..Len(delivered) : delivered[i] = SubSeq(s, 1, Len(delivered))[i]
      <4> TAKE i \in 1..Len(delivered)
      <4>1. i \in 1..lastApplied
        BY <2>1, <2>2
      <4> QED
        BY <4>1, <2>1, <3>2, <3>4
    <3>6. delivered = SubSeq(s, 1, Len(delivered))
      BY <2>1, <3>4, <3>5, SeqEqual
    <3> QED
      BY <3>3, <3>6 DEF s
  <2> QED
    BY <2>1, <2>3 DEF DeliveredDurable
<1> QED
  BY <1>1, Inductive, PTL

\* AppendEntries and commitChanSender wait for each other only when more has
\* been committed than newCommitReadyChan has room for.
THEOREM WedgeTheorem == Spec => []WedgeNeedsBacklog
<1>1. ASSUME IInv PROVE WedgeNeedsBacklog
  <2>1. ASSUME Wedged PROVE commitIndex >= ReadyCap + 2
    <3>1. InHandler = 1 /\ InSender = 1 /\ readyChan = ReadyCap
      BY <2>1 DEF Wedged, InHandler, InSender
    <3>2. notifying \in Nat
      BY <1>1 DEF IInv, ChanType
    <3> QED
      BY <1>1, <3>1, <3>2, Places
  <2> QED
    BY <2>1 DEF WedgeNeedsBacklog
<1> QED
  BY <1>1, Inductive, PTL
=============================================================================
