----------------------- MODULE ConsensusModuleProofs -----------------------
(***************************************************************************)
(* What ConsensusModule guarantees for every cluster, every number of      *)
(* elections, failures and restarts: type correctness, and, when calls end *)
(* before the election timer of their caller fires, that no two CMs lead   *)
(* the same term, that terms grow, that a leader's indices stay inside its *)
(* log and that logs match; and, on top of these, Raft's argument: what a  *)
(* leader counts is stored, what a majority stores every later leader has, *)
(* what is chosen stays chosen, so that the CMs implement Agreement.       *)
(***************************************************************************)
EXTENDS ConsensusAgreement, TLAPS, FiniteSetTheorems, SequenceTheorems

-----------------------------------------------------------------------------
(* Least and greatest elements *)

\* A nonempty set of naturals has a least element.
LEMMA HasLeast ==
    ASSUME NEW S \in SUBSET Nat, S # {}
    PROVE  \E n \in S : \A m \in S : n <= m
<1>1. PICK n \in S : \A m \in S : <<m, n>> \notin OpToRel(<, Nat)
  BY NatLessThanWellFounded, WFMin
<1>2. \A m \in S : ~(m < n)
  BY <1>1 DEF OpToRel
<1> QED
  BY <1>2

\* So Least, which the log operators search with, finds it.
LEMMA LeastIn ==
    ASSUME NEW S \in SUBSET Nat, S # {}
    PROVE  Least(S) \in S /\ \A m \in S : Least(S) <= m
BY HasLeast DEF Least

\* Greatest finds the greatest element of a bounded nonempty set.
LEMMA GreatestIn ==
    ASSUME NEW b \in Nat, NEW S \in SUBSET (0..b), S # {}
    PROVE  Greatest(S) \in S /\ \A m \in S : Greatest(S) >= m
<1> DEFINE T == {n \in 0..b : b - n \in S}
<1>1. T \in SUBSET Nat /\ T # {}
  <2> PICK x \in S : TRUE
    OBVIOUS
  <2> b - x \in T
    OBVIOUS
  <2> QED
    OBVIOUS
<1>2. PICK n \in T : \A m \in T : n <= m
  BY <1>1, HasLeast
<1>3. \A m \in S : b - n >= m
  <2> TAKE m \in S
  <2> b - m \in T
    OBVIOUS
  <2> QED
    BY <1>2
<1> HIDE DEF T
<1>4. b - n \in S
  BY DEF T
<1> QED
  BY <1>3, <1>4 DEF Greatest

-----------------------------------------------------------------------------
(* Types of the log operators *)

\* TermAt is a term or -1.
LEMMA TermAtType ==
    ASSUME NEW l \in Seq(LogEntry), NEW n \in Nat
    PROVE  TermAt(l, n) \in Int
<1>1. CASE n \in 1..Len(l)
  <2>1. l[n] \in LogEntry
    BY <1>1, ElementOfSeq
  <2> QED
    BY <1>1, <2>1 DEF TermAt, LogEntry
<1> QED
  BY <1>1 DEF TermAt

\* A part of a log is a log.
LEMMA SubLog ==
    ASSUME NEW l \in Seq(LogEntry), NEW m \in Nat, m > 0, NEW n \in Nat,
           n <= Len(l)
    PROVE  SubSeq(l, m, n) \in Seq(LogEntry)
<1>1. \A x \in m..n : l[x] \in LogEntry
  BY ElementOfSeq
<1> QED
  BY <1>1, SubSeqProperties

\* Merge returns a log.
LEMMA MergeType ==
    ASSUME NEW l \in Seq(LogEntry), NEW prev \in Nat, prev <= Len(l),
           NEW entries \in Seq(LogEntry)
    PROVE  Merge(l, prev, entries) \in Seq(LogEntry)
<1> DEFINE new == {n \in 1..Len(entries) :
                    TermAt(l, prev + n) # entries[n].term}
<1>1. CASE new = {}
  BY <1>1 DEF Merge
<1>2. CASE new # {}
  <2> DEFINE n == Least(new)
  <2>0. new \in SUBSET Nat
    OBVIOUS
  <2>1. n \in new /\ \A m \in new : n <= m
    <3> HIDE DEF new
    <3> QED
      BY <1>2, <2>0, LeastIn
  <2>2. n \in 1..Len(entries)
    BY <2>1
  <2> HIDE DEF n
  <2>3. prev + n - 1 <= Len(l)
    <3> SUFFICES ASSUME prev + (n - 1) > Len(l)
                 PROVE  FALSE
      BY <2>2
    <3>1. n - 1 \in 1..Len(entries)
      BY <2>2
    <3>2. TermAt(l, prev + (n - 1)) = -1
      BY <3>1 DEF TermAt
    <3>3. entries[n - 1] \in LogEntry
      BY <3>1, ElementOfSeq
    <3>4. n - 1 \in new
      BY <3>1, <3>2, <3>3 DEF LogEntry
    <3> QED
      BY <3>4, <2>1, <2>2
  <2>4. SubSeq(l, 1, prev + n - 1) \in Seq(LogEntry)
    <3>1. prev + n - 1 \in Nat
      BY <2>2
    <3> QED
      BY <3>1, <2>3, SubLog
  <2>5. SubSeq(entries, n, Len(entries)) \in Seq(LogEntry)
    <3>1. n \in Nat /\ n > 0 /\ Len(entries) \in Nat
      BY <2>2
    <3> QED
      BY <3>1, SubLog
  <2>6. Merge(l, prev, entries)
            = SubSeq(l, 1, prev + n - 1) \o SubSeq(entries, n, Len(entries))
    BY <1>2 DEF Merge, n
  <2> QED
    BY <2>4, <2>5, <2>6, ConcatProperties
<1> QED
  BY <1>1, <1>2

\* ConflictIndex is an index of the log.
LEMMA ConflictIndexType ==
    ASSUME NEW l \in Seq(LogEntry), NEW prev \in Nat, prev > 0
    PROVE  ConflictIndex(l, prev) \in 1..prev
<1> DEFINE S == {n \in 1..prev : \A m \in n..prev : l[m].term = l[prev].term}
<1>1. S \in SUBSET Nat /\ S # {}
  <2>1. prev \in S
    OBVIOUS
  <2>2. S \subseteq Nat
    OBVIOUS
  <2> QED
    BY <2>1, <2>2
<1>2. Least(S) \in S
  <2> HIDE DEF S
  <2> QED
    BY <1>1, LeastIn
<1>3. ConflictIndex(l, prev) = Least(S)
  BY DEF ConflictIndex
<1> QED
  BY <1>2, <1>3

\* A leader's commitIndex never decreases.
LEMMA CommittedType ==
    ASSUME TypeOK, NEW i \in Server, NEW match
    PROVE  /\ Committed(i, match) \in Nat
           /\ Committed(i, match) >= commitIndex[i]
<1> DEFINE held == {n \in (commitIndex[i] + 1)..Len(log[i]) :
                    /\ log[i][n].term = currentTerm[i]
                    /\ IsQuorum({i} \cup {p \in Peers(i) : match[p] >= n})}
<1>0. commitIndex[i] \in Nat /\ Len(log[i]) \in Nat
  BY DEF TypeOK
<1>1. CASE held = {}
  BY <1>0, <1>1 DEF Committed
<1>2. CASE held # {}
  <2>1. held \in SUBSET (0..Len(log[i]))
    BY <1>0
  <2>2. Greatest(held) \in held
    BY <1>0, <1>2, <2>1, GreatestIn
  <2>3. Committed(i, match) = Greatest(held)
    BY <1>2 DEF Committed
  <2> QED
    BY <1>0, <2>2, <2>3
<1> QED
  BY <1>1, <1>2

\* A leader resumes at an index.
LEMMA ResumeType ==
    ASSUME TypeOK, NEW i \in Server, NEW c \in AECall
    PROVE  Resume(i, c) \in Nat \ {0}
<1> DEFINE same == {n \in 1..Len(log[i]) : log[i][n].term = c.conflictTerm}
<1>0. Len(log[i]) \in Nat
  BY DEF TypeOK
<1>1. CASE same = {}
  BY <1>1 DEF Resume, AECall
<1>2. CASE same # {}
  <2>0. same \in SUBSET (0..Len(log[i]))
    BY <1>0
  <2>1. Greatest(same) \in same
    <3> HIDE DEF same
    <3> QED
      BY <1>0, <1>2, <2>0, GreatestIn
  <2>2. Greatest(same) + 1 \in Nat \ {0}
    BY <1>0, <2>1
  <2>3. c.conflictIndex \in Nat \ {0}
    BY DEF AECall
  <2> HIDE DEF same
  <2>4. Resume(i, c) \in {Greatest(same) + 1, c.conflictIndex}
    BY DEF Resume, same
  <2> QED
    BY <2>2, <2>3, <2>4
<1> QED
  BY <1>1, <1>2

-----------------------------------------------------------------------------
(* Type correctness *)

\* A call that does not exist, and one that is spawned, are calls.
LEMMA CallTypes ==
    /\ NoRV \in RVCall /\ NoAE \in AECall
    /\ \A t \in Nat : [NoRV EXCEPT !.pc = "spawned", !.term = t] \in RVCall
    /\ \A t \in Nat : [NoAE EXCEPT !.pc = "spawned", !.term = t] \in AECall
<1>1. NoRV \in RVCall
  BY DEF NoRV, RVCall, CallPC
<1>2. NoAE \in AECall
  BY DEF NoAE, AECall, CallPC
<1>3. \A c \in RVCall, t \in Nat :
        [c EXCEPT !.pc = "spawned", !.term = t] \in RVCall
  BY DEF RVCall, CallPC
<1>4. \A c \in AECall, t \in Nat :
        [c EXCEPT !.pc = "spawned", !.term = t] \in AECall
  BY DEF AECall, CallPC
<1> QED
  BY <1>1, <1>2, <1>3, <1>4

\* The fields of an AppendEntries call that its reply is handled with.
LEMMA AEFields ==
    ASSUME NEW c \in AECall
    PROVE  /\ c.prevLogIndex \in Nat /\ Len(c.entries) \in Nat
           /\ c.rterm \in Nat
BY DEF AECall

\* Updating one call, or one round of calls.
LEMMA PutCall ==
    ASSUME NEW R, NEW calls \in [Server -> [Server -> [Lane -> R]]],
           NEW i \in Server, NEW j \in Server, NEW k \in Lane, NEW c \in R
    PROVE  [calls EXCEPT ![i][j][k] = c] \in [Server -> [Server -> [Lane -> R]]]
OBVIOUS

LEMMA PutRound ==
    ASSUME NEW R, NEW calls \in [Server -> [Server -> [Lane -> R]]],
           NEW i \in Server, NEW k \in Lane, NEW f, \A j \in Server : f[j] \in R
    PROVE  [calls EXCEPT ![i] = [j \in Server |-> [@[j] EXCEPT ![k] = f[j]]]]
                \in [Server -> [Server -> [Lane -> R]]]
OBVIOUS

LEMMA DisconnectedCalls ==
    ASSUME NEW R, NEW none \in R, NEW i,
           NEW calls \in [Server -> [Server -> [Lane -> R]]],
           \A c \in R : [c EXCEPT !.pc = "orphan"] \in R
    PROVE  Disconnected(calls, i, none) \in [Server -> [Server -> [Lane -> R]]]
<1> DEFINE D(a, b, k) ==
      IF a = i
      THEN IF Arrived(calls[a][b][k])
           THEN [calls[a][b][k] EXCEPT !.pc = "orphan"] ELSE none
      ELSE IF b = i /\ Arrived(calls[a][b][k]) THEN none ELSE calls[a][b][k]
<1>1. \A a, b \in Server, k \in Lane : D(a, b, k) \in R
  OBVIOUS
<1>2. Disconnected(calls, i, none)
        = [a \in Server |-> [b \in Server |-> [k \in Lane |-> D(a, b, k)]]]
  BY DEF Disconnected
<1> HIDE DEF D
<1> QED
  BY <1>1, <1>2

\* Disconnecting a CM leaves calls.
LEMMA DisconnectedTypes ==
    ASSUME TypeOK, NEW i \in Server
    PROVE  /\ Disconnected(rv, i, NoRV) \in [Server -> [Server -> [Lane -> RVCall]]]
           /\ Disconnected(ae, i, NoAE) \in [Server -> [Server -> [Lane -> AECall]]]
<1>1. \A c \in RVCall : [c EXCEPT !.pc = "orphan"] \in RVCall
  BY DEF RVCall, CallPC
<1>2. \A c \in AECall : [c EXCEPT !.pc = "orphan"] \in AECall
  BY DEF AECall, CallPC
<1>3. rv \in [Server -> [Server -> [Lane -> RVCall]]]
  BY DEF TypeOK
<1>4. ae \in [Server -> [Server -> [Lane -> AECall]]]
  BY DEF TypeOK
<1>5. Disconnected(rv, i, NoRV) \in [Server -> [Server -> [Lane -> RVCall]]]
  BY <1>1, <1>3, CallTypes, DisconnectedCalls
<1>6. Disconnected(ae, i, NoAE) \in [Server -> [Server -> [Lane -> AECall]]]
  BY <1>2, <1>4, CallTypes, DisconnectedCalls
<1> QED
  BY <1>5, <1>6

LEMMA TypeInit == Init => TypeOK
<1> SUFFICES ASSUME Init
             PROVE  TypeOK
  OBVIOUS
<1>1. /\ state \in [Server -> CMState]
      /\ currentTerm \in [Server -> Nat]
      /\ votedFor \in [Server -> Server \cup {Nil}]
      /\ log \in [Server -> Seq(LogEntry)]
      /\ commitIndex \in [Server -> Nat]
      /\ applied \in [Server -> Seq(LogEntry)]
  BY DEF Init, CMState
<1>2. /\ nextIndex \in [Server -> [Server -> Nat \ {0}]]
      /\ matchIndex \in [Server -> [Server -> Nat]]
      /\ votesReceived \in [Server -> [Lane -> SUBSET Server]]
      /\ elected \in SUBSET (Server \X Nat)
      /\ granted \in SUBSET (Server \X Server \X Nat)
      /\ chosen \in Seq(LogEntry)
      /\ forgotten \in SUBSET (Server \X Nat)
      /\ misdated \in SUBSET (Server \X Nat)
  BY DEF Init
<1>3. storage \in [Server -> [currentTerm : Nat, votedFor : Server \cup {Nil},
                              log : Seq(LogEntry)]]
  BY DEF Init, Persisted
<1>4. /\ rv \in [Server -> [Server -> [Lane -> RVCall]]]
      /\ ae \in [Server -> [Server -> [Lane -> AECall]]]
  BY CallTypes DEF Init
<1>5. budget \in [elections : Nat, rounds : Int, fails : Nat,
                  stops : Nat, restarts : Nat, log : Nat, lanes : SUBSET Lane]
  BY BoundAssumption DEF Init
<1> QED
  BY <1>1, <1>2, <1>3, <1>4, <1>5 DEF TypeOK

\* Every step preserves the types.
LEMMA TypeNext == TypeOK /\ [Next]_vars => TypeOK'
<1> SUFFICES ASSUME TypeOK, [Next]_vars
             PROVE  TypeOK'
  OBVIOUS
<1> USE DEF cmVars, leaderVars, history
<1>t1. /\ state \in [Server -> CMState]
       /\ currentTerm \in [Server -> Nat]
       /\ votedFor \in [Server -> Server \cup {Nil}]
  BY DEF TypeOK
<1>t2. /\ log \in [Server -> Seq(LogEntry)]
       /\ applied \in [Server -> Seq(LogEntry)]
       /\ chosen \in Seq(LogEntry)
  BY DEF TypeOK
<1>t3. /\ commitIndex \in [Server -> Nat]
       /\ nextIndex \in [Server -> [Server -> Nat \ {0}]]
       /\ matchIndex \in [Server -> [Server -> Nat]]
  BY DEF TypeOK
<1>t4. /\ votesReceived \in [Server -> [Lane -> SUBSET Server]]
       /\ elected \in SUBSET (Server \X Nat)
       /\ granted \in SUBSET (Server \X Server \X Nat)
  BY DEF TypeOK
<1>t5. rv \in [Server -> [Server -> [Lane -> RVCall]]]
  BY DEF TypeOK
<1>t6. ae \in [Server -> [Server -> [Lane -> AECall]]]
  BY DEF TypeOK
<1>t7. storage \in [Server -> [currentTerm : Nat, votedFor : Server \cup {Nil},
                               log : Seq(LogEntry)]]
  BY DEF TypeOK
<1>t8. budget \in [elections : Nat, rounds : Int, fails : Nat,
                   stops : Nat, restarts : Nat, log : Nat, lanes : SUBSET Lane]
  BY DEF TypeOK
<1>1. ASSUME NEW i \in Server, NEW k \in Lane, StartElection(i, k)
      PROVE  TypeOK'
  <2>1. rv' \in [Server -> [Server -> [Lane -> RVCall]]]
    <3> DEFINE f == [j \in Server |->
                      IF j = i THEN NoRV
                      ELSE [NoRV EXCEPT !.pc = "spawned",
                                        !.term = currentTerm[i] + 1]]
    <3>0. currentTerm[i] + 1 \in Nat
      BY <1>1, <1>t1
    <3>1. \A j \in Server : f[j] \in RVCall
      BY <3>0, CallTypes
    <3>2. rv' = [rv EXCEPT ![i] = [j \in Server |-> [@[j] EXCEPT ![k] = f[j]]]]
      BY <1>1 DEF StartElection
    <3> HIDE DEF f
    <3> QED
      BY <1>t5, <3>1, <3>2, PutRound
  <2>2. /\ state' \in [Server -> CMState]
        /\ currentTerm' \in [Server -> Nat]
        /\ votedFor' \in [Server -> Server \cup {Nil}]
        /\ votesReceived' \in [Server -> [Lane -> SUBSET Server]]
    BY <1>1, <1>t1, <1>t4 DEF StartElection, CMState
  <2>3. budget' \in [elections : Nat, rounds : Int, fails : Nat,
                     stops : Nat, restarts : Nat, log : Nat, lanes : SUBSET Lane]
    BY <1>1, <1>t8 DEF StartElection
  <2> QED
    BY <1>1, <2>1, <2>2, <2>3 DEF StartElection, TypeOK
<1>2. ASSUME NEW i \in Server, NEW k \in Lane, LeaderSendAEs(i, k)
      PROVE  TypeOK'
  <2>1. ae' \in [Server -> [Server -> [Lane -> AECall]]]
    <3> DEFINE f == [j \in Server |->
                      IF j = i THEN NoAE
                      ELSE [NoAE EXCEPT !.pc = "spawned",
                                        !.term = currentTerm[i]]]
    <3>1. \A j \in Server : f[j] \in AECall
      BY <1>t1, CallTypes
    <3>2. ae' = [ae EXCEPT ![i] = [j \in Server |-> [@[j] EXCEPT ![k] = f[j]]]]
      BY <1>2 DEF LeaderSendAEs
    <3> HIDE DEF f
    <3> QED
      BY <1>t6, <3>1, <3>2, PutRound
  <2>2. budget' \in [elections : Nat, rounds : Int, fails : Nat,
                     stops : Nat, restarts : Nat, log : Nat, lanes : SUBSET Lane]
    BY <1>2, <1>t8 DEF LeaderSendAEs
  <2> QED
    BY <1>2, <2>1, <2>2 DEF LeaderSendAEs, TypeOK
<1>3. ASSUME NEW i \in Server, NEW j \in Server, NEW k \in Lane,
             SendRequestVote(i, j, k)
      PROVE  TypeOK'
  <2>1. LastTerm(log[i]) \in Int /\ Len(log[i]) \in Nat
    BY TermAtType DEF LastTerm, TypeOK
  <2>2. \A c \in RVCall : [c EXCEPT !.pc = "sent",
                                    !.lastLogIndex = Len(log[i]),
                                    !.lastLogTerm = LastTerm(log[i])] \in RVCall
    BY <2>1 DEF RVCall, CallPC
  <2>3. rv' \in [Server -> [Server -> [Lane -> RVCall]]]
    <3> DEFINE c == rv[i][j][k]
               d == [c EXCEPT !.pc = "sent", !.lastLogIndex = Len(log[i]),
                              !.lastLogTerm = LastTerm(log[i])]
    <3>1. c \in RVCall
      BY <1>t5
    <3>2. d \in RVCall
      BY <3>1, <2>2
    <3>3. rv' = [rv EXCEPT ![i][j][k] = d]
      BY <1>3 DEF SendRequestVote
    <3> HIDE DEF d
    <3> QED
      BY <1>t5, <3>2, <3>3, PutCall
  <2> QED
    BY <1>3, <2>3 DEF SendRequestVote, TypeOK
<1>4. ASSUME NEW i \in Server, NEW j \in Server, NEW k \in Lane,
             RequestVote(i, j, k)
      PROVE  TypeOK'
  <2> DEFINE c == rv[i][j][k]
             term == NewTerm(c.term, currentTerm[j])
  <2>1. c \in RVCall /\ term \in Nat
    BY DEF TypeOK, RVCall, NewTerm
  <2>2. \A b \in BOOLEAN : [c EXCEPT !.pc = "replied", !.rterm = term,
                                     !.voteGranted = b] \in RVCall
    BY <2>1 DEF RVCall, CallPC
  <2>3. \A v, l : GrantsVote(c, i, term, v, l) \in BOOLEAN
    BY DEF GrantsVote
  <2> HIDE DEF c, term
  <2>4. rv' \in [Server -> [Server -> [Lane -> RVCall]]]
    <3> DEFINE vote == IF c.term > currentTerm[j] THEN Nil ELSE votedFor[j]
               d == IF c.pc = "orphan" THEN NoRV
                    ELSE [c EXCEPT !.pc = "replied", !.rterm = term,
                            !.voteGranted = GrantsVote(c, i, term, vote, log[j])]
    <3>1. d \in RVCall
      BY <2>2, <2>3, CallTypes
    <3>2. rv' = [rv EXCEPT ![i][j][k] = d]
      BY <1>4 DEF RequestVote, c, term
    <3> HIDE DEF d
    <3> QED
      BY <3>1, <3>2, <1>t5, PutCall
  <2>5. /\ state' \in [Server -> CMState]
        /\ currentTerm' \in [Server -> Nat]
        /\ votedFor' \in [Server -> Server \cup {Nil}]
        /\ storage' \in [Server -> [currentTerm : Nat,
                                    votedFor : Server \cup {Nil},
                                    log : Seq(LogEntry)]]
    BY <1>4, <2>1 DEF RequestVote, TypeOK, CMState, Persisted, c, term
  <2>6. granted' \in SUBSET (Server \X Server \X Nat)
    BY <1>4, <1>t4, <2>1 DEF RequestVote, c, term
  <2> QED
    BY <1>4, <2>4, <2>5, <2>6 DEF RequestVote, TypeOK
<1>5. ASSUME NEW i \in Server, NEW j \in Server, NEW k \in Lane,
             DeadRequestVote(i, j, k)
      PROVE  TypeOK'
  <2>1. \A c \in RVCall : [c EXCEPT !.pc = "replied"] \in RVCall
    BY DEF RVCall, CallPC
  <2>2. rv' \in [Server -> [Server -> [Lane -> RVCall]]]
    <3> DEFINE c == rv[i][j][k]
               d == IF c.pc = "orphan" THEN NoRV
                    ELSE [c EXCEPT !.pc = "replied"]
    <3>1. c \in RVCall
      BY <1>t5
    <3>2. d \in RVCall
      BY <3>1, <2>1, CallTypes
    <3>3. rv' = [rv EXCEPT ![i][j][k] = d]
      BY <1>5 DEF DeadRequestVote
    <3> HIDE DEF d
    <3> QED
      BY <1>t5, <3>2, <3>3, PutCall
  <2> QED
    BY <1>5, <2>2 DEF DeadRequestVote, TypeOK
<1>6. ASSUME NEW i \in Server, NEW j \in Server, NEW k \in Lane,
             RequestVoteReply(i, j, k)
      PROVE  TypeOK'
  <2>1. rv[i][j][k].rterm \in Nat
    BY DEF TypeOK, RVCall
  <2>2. rv' \in [Server -> [Server -> [Lane -> RVCall]]]
    BY <1>6, CallTypes DEF RequestVoteReply, TypeOK
  <2>3. CASE BecomeFollower(i, rv[i][j][k].rterm)
             /\ UNCHANGED <<leaderVars, votesReceived, elected>>
    <3>1. /\ state' \in [Server -> CMState]
          /\ currentTerm' \in [Server -> Nat]
          /\ votedFor' \in [Server -> Server \cup {Nil}]
      BY <2>1, <2>3, <1>t1 DEF BecomeFollower, CMState
    <3> QED
      BY <1>6, <2>2, <2>3, <3>1 DEF RequestVoteReply, TypeOK
  <2>4. ASSUME votesReceived' = [votesReceived EXCEPT ![i][k] =
                                    votesReceived[i][k] \cup {j}],
               UNCHANGED <<currentTerm, votedFor>>,
               StartLeader(i) \/ UNCHANGED <<state, leaderVars, elected>>
        PROVE  TypeOK'
    <3>1. votesReceived' \in [Server -> [Lane -> SUBSET Server]]
      BY <2>4, <1>t4
    <3>2. CASE StartLeader(i)
      <4>1. Len(log[i]) + 1 \in Nat \ {0}
        BY <1>t2
      <4>2. /\ nextIndex' \in [Server -> [Server -> Nat \ {0}]]
            /\ matchIndex' \in [Server -> [Server -> Nat]]
        BY <3>2, <4>1, <1>t3 DEF StartLeader
      <4>3. /\ elected' \in SUBSET (Server \X Nat)
            /\ state' \in [Server -> CMState]
        BY <3>2, <1>t1, <1>t4 DEF StartLeader, CMState
      <4> QED
        BY <1>6, <2>2, <2>4, <3>1, <4>2, <4>3 DEF RequestVoteReply, TypeOK
    <3>3. CASE UNCHANGED <<state, leaderVars, elected>>
      BY <1>6, <2>2, <2>4, <3>1, <3>3 DEF RequestVoteReply, TypeOK
    <3> QED
      BY <2>4, <3>2, <3>3
  <2>5. CASE UNCHANGED <<state, currentTerm, votedFor, leaderVars,
                         votesReceived, elected>>
    BY <1>6, <2>2, <2>5 DEF RequestVoteReply, TypeOK
  <2> QED
    BY <1>6, <2>3, <2>4, <2>5 DEF RequestVoteReply
<1>7. ASSUME NEW i \in Server, NEW j \in Server, NEW k \in Lane,
             SendAppendEntries(i, j, k)
      PROVE  TypeOK'
  <2> DEFINE prev == nextIndex[i][j] - 1
  <2>1. prev \in Nat /\ Len(log[i]) \in Nat /\ commitIndex[i] \in Nat
    BY <1>7, <1>t2, <1>t3
  <2>2. TermAt(log[i], prev) \in Int
    BY <2>1, <1>t2, TermAtType
  <2>3. SubSeq(log[i], prev + 1, Len(log[i])) \in Seq(LogEntry)
    <3>1. prev + 1 \in Nat /\ prev + 1 > 0
      BY <2>1
    <3> QED
      BY <2>1, <3>1, <1>t2, SubLog
  <2>4. \A c \in AECall :
          [c EXCEPT !.pc = "sent", !.prevLogIndex = prev,
                    !.prevLogTerm = TermAt(log[i], prev),
                    !.entries = SubSeq(log[i], prev + 1, Len(log[i])),
                    !.leaderCommit = commitIndex[i]] \in AECall
    BY <2>1, <2>2, <2>3 DEF AECall, CallPC
  <2>5. ae' \in [Server -> [Server -> [Lane -> AECall]]]
    <3> DEFINE c == ae[i][j][k]
               d == [c EXCEPT !.pc = "sent", !.prevLogIndex = prev,
                    !.prevLogTerm = TermAt(log[i], prev),
                    !.entries = SubSeq(log[i], prev + 1, Len(log[i])),
                    !.leaderCommit = commitIndex[i]]
    <3>1. c \in AECall
      BY <1>t6
    <3>2. d \in AECall
      BY <3>1, <2>4
    <3>3. ae' = [ae EXCEPT ![i][j][k] = d]
      BY <1>7 DEF SendAppendEntries
    <3> HIDE DEF d
    <3> QED
      BY <1>t6, <3>2, <3>3, PutCall
  <2>6. misdated' \in SUBSET (Server \X Nat)
    <3>1. ae[i][j][k].term \in Nat
      BY <1>t6 DEF AECall
    <3>2. misdated' \in {misdated, misdated \cup {<<i, ae[i][j][k].term>>}}
      BY <1>7 DEF SendAppendEntries
    <3>3. misdated \in SUBSET (Server \X Nat)
      BY DEF TypeOK
    <3>4. <<i, ae[i][j][k].term>> \in Server \X Nat
      BY <3>1
    <3> QED
      BY <3>2, <3>3, <3>4
  <2>7. UNCHANGED <<cmVars, leaderVars, applied, votesReceived, storage, rv,
                    elected, granted, chosen, forgotten, budget>>
    BY <1>7 DEF SendAppendEntries
  <2> QED
    BY <2>5, <2>6, <2>7 DEF TypeOK
<1>8. ASSUME NEW i \in Server, NEW j \in Server, NEW k \in Lane,
             SendAppendEntriesPanics(i, j, k)
      PROVE  TypeOK'
  BY <1>8, DisconnectedTypes DEF SendAppendEntriesPanics, TypeOK, CMState
<1>9. ASSUME NEW i \in Server, NEW j \in Server, NEW k \in Lane,
             AppendEntries(i, j, k)
      PROVE  TypeOK'
  <2> DEFINE c == ae[i][j][k]
             term == NewTerm(c.term, currentTerm[j])
             current == c.term = term
             success == current /\ PrevMatches(c, log[j])
             newLog == IF success THEN Merge(log[j], c.prevLogIndex, c.entries)
                       ELSE log[j]
             short == c.prevLogIndex > Len(log[j])
             conflictIndex == CASE ~current \/ success -> c.conflictIndex
                [] current /\ ~success /\ short -> Len(log[j]) + 1
                [] OTHER -> ConflictIndex(log[j], c.prevLogIndex)
             conflictTerm == CASE ~current \/ success -> c.conflictTerm
                [] current /\ ~success /\ short -> -1
                [] OTHER -> TermAt(log[j], c.prevLogIndex)
             reply == [c EXCEPT !.pc = "replied", !.rterm = term,
                                !.success = success,
                                !.conflictIndex = conflictIndex,
                                !.conflictTerm = conflictTerm]
  <2>1. /\ c \in AECall /\ c.term \in Nat /\ term \in Nat
        /\ c.prevLogIndex \in Nat
        /\ c.entries \in Seq(LogEntry) /\ c.leaderCommit \in Nat
        /\ c.conflictIndex \in Nat \ {0} /\ c.conflictTerm \in Int
        /\ log[j] \in Seq(LogEntry) /\ Len(log[j]) \in Nat
    <3>1. c \in AECall
      BY <1>t6
    <3>2. c.term \in Nat /\ currentTerm[j] \in Nat
      BY <3>1, <1>t1 DEF AECall
    <3>3. term \in Nat
      BY <3>2 DEF NewTerm
    <3>4. log[j] \in Seq(LogEntry) /\ Len(log[j]) \in Nat
      BY <1>t2
    <3> QED
      BY <3>1, <3>2, <3>3, <3>4 DEF AECall
  <2>2. success \in BOOLEAN /\ current \in BOOLEAN
    BY DEF PrevMatches
  <2>3. newLog \in Seq(LogEntry)
    BY <2>1, MergeType, EmptySeq DEF PrevMatches
  <2>4. conflictIndex \in Nat \ {0}
    <3>1. CASE ~current \/ success \/ short
      BY <3>1, <2>1, <2>2
    <3>2. CASE current /\ ~success /\ ~short
      <4>1. c.prevLogIndex > 0
        BY <3>2, <2>1 DEF PrevMatches
      <4> QED
        BY <3>2, <4>1, <2>1, ConflictIndexType
    <3> QED
      BY <3>1, <3>2, <2>2
  <2>5. conflictTerm \in Int
    <3>1. TermAt(log[j], c.prevLogIndex) \in Int
      BY <2>1, TermAtType
    <3>2. conflictTerm \in {c.conflictTerm, -1, TermAt(log[j], c.prevLogIndex)}
      <4>1. CASE ~current \/ success
        BY <4>1
      <4>2. CASE current /\ ~success /\ short
        BY <4>2
      <4>3. CASE current /\ ~success /\ ~short
        BY <4>3
      <4> QED
        BY <4>1, <4>2, <4>3
    <3> QED
      BY <3>1, <3>2, <2>1
  <2> HIDE DEF success, newLog, conflictIndex, conflictTerm, term
  <2>6. reply \in AECall
    <3>1. [c EXCEPT !.pc = "replied", !.rterm = term, !.success = success] \in AECall
      BY <2>1, <2>2 DEF AECall, CallPC
    <3>2. \A d \in AECall, n \in Nat \ {0}, t \in Int :
            [d EXCEPT !.conflictIndex = n, !.conflictTerm = t] \in AECall
      BY DEF AECall
    <3>3. reply = [[c EXCEPT !.pc = "replied", !.rterm = term,
                             !.success = success]
                    EXCEPT !.conflictIndex = conflictIndex,
                           !.conflictTerm = conflictTerm]
      OBVIOUS
    <3> QED
      BY <2>4, <2>5, <3>1, <3>2, <3>3
  <2>7. ae' = [ae EXCEPT ![i][j][k] = IF c.pc = "orphan" THEN NoAE ELSE reply]
    BY <1>9 DEF AppendEntries, success, conflictIndex, conflictTerm, term
  <2> HIDE DEF reply
  <2>8. ae' \in [Server -> [Server -> [Lane -> AECall]]]
    <3>1. ae \in [Server -> [Server -> [Lane -> AECall]]]
      BY DEF TypeOK
    <3>2. PICK d \in AECall : ae' = [ae EXCEPT ![i][j][k] = d]
      BY <2>6, <2>7, CallTypes
    <3> QED
      BY <3>1, <3>2
  <2>9. log' \in [Server -> Seq(LogEntry)]
    BY <1>9, <2>3 DEF AppendEntries, TypeOK, newLog, success, term
  <2>10. commitIndex' \in [Server -> Nat]
    <3>1. \A n \in Nat : Least({c.leaderCommit, n}) \in Nat
      BY <2>1, LeastIn
    <3>2. Len(newLog) \in Nat
      BY <2>3
    <3> QED
      BY <1>9, <3>1, <3>2 DEF AppendEntries, TypeOK, newLog, success, term
  <2>11. /\ state' \in [Server -> CMState]
         /\ currentTerm' \in [Server -> Nat]
         /\ votedFor' \in [Server -> Server \cup {Nil}]
    BY <1>9, <2>1 DEF AppendEntries, TypeOK, CMState, term
  <2>12. storage' \in [Server -> [currentTerm : Nat,
                                  votedFor : Server \cup {Nil},
                                  log : Seq(LogEntry)]]
    <3>1. PICK v \in Server \cup {Nil} :
            storage' = [storage EXCEPT ![j] = Persisted(term, v, newLog)]
      <4>1. votedFor[j] \in Server \cup {Nil}
        BY <1>9, <1>t1
      <4> QED
        BY <1>9, <4>1 DEF AppendEntries, newLog, success, term
    <3>2. Persisted(term, v, newLog)
            \in [currentTerm : Nat, votedFor : Server \cup {Nil},
                 log : Seq(LogEntry)]
      BY <2>1, <2>3 DEF Persisted
    <3> QED
      BY <1>9, <3>1, <3>2, <1>t7
  <2> QED
    BY <1>9, <2>8, <2>9, <2>10, <2>11, <2>12 DEF AppendEntries, TypeOK
<1>10. ASSUME NEW i \in Server, NEW j \in Server, NEW k \in Lane,
              DeadAppendEntries(i, j, k)
       PROVE  TypeOK'
  <2>1. \A c \in AECall : [c EXCEPT !.pc = "replied"] \in AECall
    BY DEF AECall, CallPC
  <2>2. ae' \in [Server -> [Server -> [Lane -> AECall]]]
    <3> DEFINE c == ae[i][j][k]
               d == IF c.pc = "orphan" THEN NoAE
                    ELSE [c EXCEPT !.pc = "replied"]
    <3>1. c \in AECall
      BY <1>t6
    <3>2. d \in AECall
      BY <3>1, <2>1, CallTypes
    <3>3. ae' = [ae EXCEPT ![i][j][k] = d]
      BY <1>10 DEF DeadAppendEntries
    <3> HIDE DEF d
    <3> QED
      BY <1>t6, <3>2, <3>3, PutCall
  <2> QED
    BY <1>10, <2>2 DEF DeadAppendEntries, TypeOK
<1>11. ASSUME NEW i \in Server, NEW j \in Server, NEW k \in Lane,
              AppendEntriesReply(i, j, k)
       PROVE  TypeOK'
  <2> DEFINE c == ae[i][j][k]
             next == c.prevLogIndex + 1 + Len(c.entries)
             match == [matchIndex[i] EXCEPT ![j] = next - 1]
  <2>1. c \in AECall /\ c.rterm \in Nat /\ next \in Nat \ {0}
    <3>1. c \in AECall
      BY <1>t6
    <3> HIDE DEF c
    <3>2. c.prevLogIndex \in Nat /\ Len(c.entries) \in Nat /\ c.rterm \in Nat
      BY <3>1, AEFields
    <3> QED
      BY <3>1, <3>2
  <2>2. Committed(i, match) \in Nat /\ Resume(i, c) \in Nat \ {0}
    BY <2>1, CommittedType, ResumeType
  <2>3. match \in [Server -> Nat]
    <3> HIDE DEF next
    <3>1. next - 1 \in Nat
      BY <2>1
    <3> QED
      BY <3>1, <1>t3
  <2> HIDE DEF match, next
  <2>4. ae' \in [Server -> [Server -> [Lane -> AECall]]]
    BY <1>11, CallTypes DEF AppendEntriesReply, TypeOK
  <2>5. /\ nextIndex' \in [Server -> [Server -> Nat \ {0}]]
        /\ matchIndex' \in [Server -> [Server -> Nat]]
        /\ commitIndex' \in [Server -> Nat]
    <3>1. \/ UNCHANGED <<leaderVars, commitIndex>>
          \/ /\ nextIndex' = [nextIndex EXCEPT ![i][j] = next]
             /\ matchIndex' = [matchIndex EXCEPT ![i] = match]
             /\ commitIndex' = [commitIndex EXCEPT ![i] = Committed(i, match)]
          \/ /\ nextIndex' = [nextIndex EXCEPT ![i][j] = Resume(i, c)]
             /\ UNCHANGED <<matchIndex, commitIndex>>
      BY <1>11 DEF AppendEntriesReply, match, next
    <3> HIDE DEF c
    <3>2. \A n \in Nat \ {0} : [nextIndex EXCEPT ![i][j] = n]
                                    \in [Server -> [Server -> Nat \ {0}]]
      BY <1>11, <1>t3
    <3>3. [matchIndex EXCEPT ![i] = match] \in [Server -> [Server -> Nat]]
      BY <1>11, <2>3, <1>t3
    <3>4. [commitIndex EXCEPT ![i] = Committed(i, match)] \in [Server -> Nat]
      BY <1>11, <2>2, <1>t3
    <3>5. /\ [nextIndex EXCEPT ![i][j] = next] \in [Server -> [Server -> Nat \ {0}]]
          /\ [nextIndex EXCEPT ![i][j] = Resume(i, c)]
                \in [Server -> [Server -> Nat \ {0}]]
      BY <3>2, <2>1, <2>2
    <3> QED
      BY <3>1, <3>3, <3>4, <3>5, <1>t3
  <2>6. /\ state' \in [Server -> CMState]
        /\ currentTerm' \in [Server -> Nat]
        /\ votedFor' \in [Server -> Server \cup {Nil}]
    BY <1>11, <2>1, <1>t1 DEF AppendEntriesReply, BecomeFollower, CMState
  <2>7. chosen' \in Seq(LogEntry)
    <3>1. chosen' = chosen \/ chosen' = ChosenAfter(log[i], Committed(i, match))
      BY <1>11 DEF AppendEntriesReply, match, next
    <3>2. log[i] \in Seq(LogEntry)
      BY <1>11, <1>t2
    <3>3. \A n \in 1..Len(log[i]) : SubSeq(log[i], 1, n) \in Seq(LogEntry)
      BY <3>2, SubLog
    <3>4. Len(chosen) \in Nat
      BY <1>t2
    <3>5. ChosenAfter(log[i], Committed(i, match)) \in Seq(LogEntry)
      BY <2>2, <3>2, <3>3, <3>4, <1>t2 DEF ChosenAfter
    <3> QED
      BY <3>1, <3>5, <1>t2
  <2> QED
    BY <1>11, <2>4, <2>5, <2>6, <2>7 DEF AppendEntriesReply, TypeOK
<1>12. ASSUME NEW i \in Server, NEW j \in Server, NEW k \in Lane,
              CallFailure(i, j, k)
       PROVE  TypeOK'
  <2>1. \A c \in RVCall : [c EXCEPT !.pc = "orphan"] \in RVCall
    BY DEF RVCall, CallPC
  <2>2. \A c \in AECall : [c EXCEPT !.pc = "orphan"] \in AECall
    BY DEF AECall, CallPC
  <2>3. CASE RequestVoteFails(i, j, k)
    <3>1. rv' \in [Server -> [Server -> [Lane -> RVCall]]]
      <4>1. PICK d \in {NoRV, [rv[i][j][k] EXCEPT !.pc = "orphan"]} :
                rv' = [rv EXCEPT ![i][j][k] = d]
        BY <2>3 DEF RequestVoteFails
      <4>2. d \in RVCall
        <5>1. rv[i][j][k] \in RVCall
          BY <1>t5
        <5> QED
          BY <4>1, <5>1, <2>1, CallTypes
      <4> QED
        BY <4>1, <4>2, <1>t5, PutCall
    <3>2. budget' \in [elections : Nat, rounds : Int, fails : Nat,
                       stops : Nat, restarts : Nat, log : Nat, lanes : SUBSET Lane]
      BY <2>3, <1>t8 DEF RequestVoteFails
    <3> QED
      BY <2>3, <3>1, <3>2 DEF RequestVoteFails, TypeOK
  <2>4. CASE AppendEntriesFails(i, j, k)
    <3>1. ae' \in [Server -> [Server -> [Lane -> AECall]]]
      <4>1. PICK d \in {NoAE, [ae[i][j][k] EXCEPT !.pc = "orphan"]} :
                ae' = [ae EXCEPT ![i][j][k] = d]
        BY <2>4 DEF AppendEntriesFails
      <4>2. d \in AECall
        <5>1. ae[i][j][k] \in AECall
          BY <1>t6
        <5> QED
          BY <4>1, <5>1, <2>2, CallTypes
      <4> QED
        BY <4>1, <4>2, <1>t6, PutCall
    <3>2. budget' \in [elections : Nat, rounds : Int, fails : Nat,
                       stops : Nat, restarts : Nat, log : Nat, lanes : SUBSET Lane]
      BY <2>4, <1>t8 DEF AppendEntriesFails
    <3> QED
      BY <2>4, <3>1, <3>2 DEF AppendEntriesFails, TypeOK
  <2> QED
    BY <1>12, <2>3, <2>4 DEF CallFailure
<1>13. ASSUME NEW i \in Server, NEW v \in Command, Submit(i, v)
       PROVE  TypeOK'
  <2>1. Append(log[i], [term |-> currentTerm[i], command |-> v]) \in Seq(LogEntry)
    <3>1. [term |-> currentTerm[i], command |-> v] \in LogEntry
      BY <1>13, <1>t1 DEF LogEntry
    <3> QED
      BY <3>1, <1>t2
  <2>2. /\ log' \in [Server -> Seq(LogEntry)]
        /\ storage' \in [Server -> [currentTerm : Nat,
                                    votedFor : Server \cup {Nil},
                                    log : Seq(LogEntry)]]
    BY <1>13, <2>1, <1>t1, <1>t2, <1>t7 DEF Submit, Persisted
  <2> QED
    BY <1>13, <2>2 DEF Submit, TypeOK
<1>14. ASSUME NEW i \in Server, ApplyCommitted(i)
       PROVE  TypeOK'
  <2>1. SubSeq(log[i], Len(applied[i]) + 1, commitIndex[i]) \in Seq(LogEntry)
    <3>1. /\ log[i] \in Seq(LogEntry) /\ Len(log[i]) \in Nat
          /\ Len(applied[i]) + 1 \in Nat /\ Len(applied[i]) + 1 > 0
          /\ commitIndex[i] \in Nat
      BY <1>14, <1>t2, <1>t3
    <3>2. commitIndex[i] <= Len(log[i])
      BY <1>14, <3>1 DEF ApplyCommitted
    <3> QED
      BY <3>1, <3>2, SubLog
  <2>2. applied[i] \o SubSeq(log[i], Len(applied[i]) + 1, commitIndex[i])
            \in Seq(LogEntry)
    BY <2>1, ConcatProperties DEF TypeOK
  <2> QED
    BY <1>14, <2>2 DEF ApplyCommitted, TypeOK
<1>15. ASSUME NEW i \in Server, Stop(i)
       PROVE  TypeOK'
  <2>1. state' \in [Server -> CMState]
    BY <1>15, <1>t1 DEF Stop, CMState
  <2>2. budget' \in [elections : Nat, rounds : Int, fails : Nat,
                     stops : Nat, restarts : Nat, log : Nat, lanes : SUBSET Lane]
    BY <1>15, <1>t8 DEF Stop
  <2> QED
    BY <1>15, <2>1, <2>2 DEF Stop, TypeOK
<1>16. ASSUME NEW i \in Server, Restart(i)
       PROVE  TypeOK'
  <2>1. /\ state' \in [Server -> CMState]
        /\ currentTerm' \in [Server -> Nat]
        /\ votedFor' \in [Server -> Server \cup {Nil}]
        /\ log' \in [Server -> Seq(LogEntry)]
    BY <1>16, <1>t1, <1>t2, <1>t7 DEF Restart, RestoreFromStorage, CMState
  <2>2. /\ commitIndex' \in [Server -> Nat]
        /\ nextIndex' \in [Server -> [Server -> Nat \ {0}]]
        /\ matchIndex' \in [Server -> [Server -> Nat]]
        /\ votesReceived' \in [Server -> [Lane -> SUBSET Server]]
    BY <1>16, <1>t3, <1>t4 DEF Restart, RestoreFromStorage
  <2>3. applied' \in [Server -> Seq(LogEntry)]
    BY <1>16, <1>t2 DEF Restart, RestoreFromStorage
  <2>4. budget' \in [elections : Nat, rounds : Int, fails : Nat,
                     stops : Nat, restarts : Nat, log : Nat, lanes : SUBSET Lane]
    <3>1. budget.restarts > 0 /\ budget' = [budget EXCEPT !.restarts = @ - 1]
      BY <1>16 DEF Restart
    <3> QED
      BY <3>1, <1>t8
  <2>5. /\ rv' \in [Server -> [Server -> [Lane -> RVCall]]]
        /\ ae' \in [Server -> [Server -> [Lane -> AECall]]]
    <3>1. rv' = Disconnected(rv, i, NoRV) /\ ae' = Disconnected(ae, i, NoAE)
      BY <1>16 DEF Restart
    <3> QED
      BY <1>16, <3>1, DisconnectedTypes
  <2>6. UNCHANGED <<storage, elected, granted, chosen, misdated>>
    BY <1>16 DEF Restart
  <2>7. forgotten' \in SUBSET (Server \X Nat)
    BY <1>16 DEF Restart, TypeOK
  <2> QED
    BY <2>1, <2>2, <2>3, <2>4, <2>5, <2>6, <2>7 DEF TypeOK
<1>17. CASE UNCHANGED vars
  BY <1>17 DEF vars, TypeOK
<1> QED
  BY <1>1, <1>2, <1>3, <1>4, <1>5, <1>6, <1>7, <1>8, <1>9, <1>10, <1>11, <1>12,
     <1>13, <1>14, <1>15, <1>16, <1>17 DEF Next, CallStep

\* The fields and calls of the CMs keep their types: no handler ever stores a
\* malformed log, an index below the first entry or a reply without a term.
THEOREM TypeCorrect == Spec => []TypeOK
BY TypeInit, TypeNext, PTL DEF Spec

-----------------------------------------------------------------------------
(* Election safety *)

\* What a step may do to the term, vote and storage of one CM: raise the term;
\* or keep a vote given in it; or restore what was stored.  What it stores is
\* what the CM then holds.
Advances(j) ==
    /\ \/ currentTerm'[j] > currentTerm[j]
       \/ /\ currentTerm'[j] = currentTerm[j]
          /\ state[j] \in {"Follower", "Dead"} /\ votedFor[j] # Nil
                => /\ votedFor'[j] = votedFor[j]
                   /\ state'[j] \in {"Follower", "Dead"}
       \/ /\ currentTerm'[j] = storage[j].currentTerm
          /\ votedFor'[j] = storage[j].votedFor
          /\ state'[j] = "Follower"
          /\ storage'[j] = storage[j]
    /\ \/ storage'[j] = storage[j]
       \/ /\ storage'[j].currentTerm = currentTerm'[j]
          /\ storage'[j].votedFor = votedFor'[j]

\* A CM that advances stays bound by the votes it gave.
LEMMA BoundStable ==
    ASSUME TypeOK, TypeOK', NEW i \in Server, NEW j \in Server, NEW t \in Nat,
           BoundInMemory(j, i, t), BoundInStorage(j, i, t), Advances(j)
    PROVE  BoundInMemory(j, i, t)' /\ BoundInStorage(j, i, t)'
<1>1. /\ currentTerm[j] \in Nat /\ currentTerm'[j] \in Nat
      /\ storage[j].currentTerm \in Nat /\ storage'[j].currentTerm \in Nat
  <2>1. currentTerm \in [Server -> Nat] /\ currentTerm' \in [Server -> Nat]
    BY DEF TypeOK
  <2>2. storage[j] \in [currentTerm : Nat, votedFor : Server \cup {Nil},
                        log : Seq(LogEntry)]
    BY DEF TypeOK
  <2>3. storage'[j] \in [currentTerm : Nat, votedFor : Server \cup {Nil},
                         log : Seq(LogEntry)]
    BY DEF TypeOK
  <2> QED
    BY <2>1, <2>2, <2>3
<1>2. i # Nil
  BY NilAssumption
<1>3. BoundInMemory(j, i, t)'
  BY <1>1, <1>2 DEF BoundInMemory, BoundInStorage, Advances
<1>4. BoundInStorage(j, i, t)'
  BY <1>1, <1>2, <1>3 DEF BoundInMemory, BoundInStorage, Advances
<1> QED
  BY <1>3, <1>4

\* VotesBind, with the term ranging over all numbers.
LEMMA VotesBindNat ==
    ASSUME TypeOK
    PROVE  VotesBind <=>
             \A i, j \in Server, t \in Nat :
                <<j, i, t>> \in granted =>
                  /\ BoundInMemory(j, i, t) /\ BoundInStorage(j, i, t)
                  /\ \A h \in Server : <<j, h, t>> \in granted => h = i
<1> DEFINE T == {g[3] : g \in granted}
<1>1. T \subseteq Nat
  <2>1. granted \in SUBSET (Server \X Server \X Nat)
    BY DEF TypeOK
  <2> QED
    BY <2>1
<1>2. \A i, j, t : <<j, i, t>> \in granted => t \in T
  OBVIOUS
<1>3. VotesBind <=>
        \A i, j \in Server, t \in T :
            <<j, i, t>> \in granted =>
              /\ BoundInMemory(j, i, t) /\ BoundInStorage(j, i, t)
              /\ \A h \in Server : <<j, h, t>> \in granted => h = i
  BY DEF VotesBind
<1> HIDE DEF T
<1> QED
  BY <1>1, <1>2, <1>3

\* When every CM advances and no vote is given, VotesBind is preserved.
LEMMA VotesBindStable ==
    ASSUME TypeOK, TypeOK', VotesBind, granted' = granted,
           \A j \in Server : Advances(j)
    PROVE  VotesBind'
<1> SUFFICES ASSUME NEW i \in Server, NEW j \in Server,
                    NEW t \in {g[3] : g \in granted'}, <<j, i, t>> \in granted'
             PROVE  /\ BoundInMemory(j, i, t)' /\ BoundInStorage(j, i, t)'
                    /\ \A h \in Server : <<j, h, t>> \in granted' => h = i
  BY DEF VotesBind
<1>1. t \in Nat
  BY DEF TypeOK
<1>2. /\ BoundInMemory(j, i, t) /\ BoundInStorage(j, i, t)
      /\ \A h \in Server : <<j, h, t>> \in granted => h = i
  BY DEF VotesBind
<1> QED
  BY <1>1, <1>2, BoundStable

\* A CM the step does not touch advances.
LEMMA UntouchedAdvances ==
    ASSUME NEW j, currentTerm'[j] = currentTerm[j], votedFor'[j] = votedFor[j],
           state'[j] = state[j], storage'[j] = storage[j]
    PROVE  Advances(j)
BY DEF Advances

\* Any two majorities have a CM in common.
LEMMA QuorumsMeet ==
    ASSUME NEW Q \in SUBSET Server, NEW R \in SUBSET Server,
           IsQuorum(Q), IsQuorum(R)
    PROVE  Q \cap R # {}
<1>1. /\ Cardinality(Q) \in Nat /\ Cardinality(R) \in Nat
      /\ Cardinality(Server) \in Nat
  BY ServerAssumption, FS_Subset, FS_CardinalityType
<1>2. Cardinality(Q) + Cardinality(R) > Cardinality(Server)
  BY <1>1 DEF IsQuorum
<1> QED
  BY <1>2, ServerAssumption, FS_MajoritiesIntersect

\* The invariant implies ElectionSafety: a CM in both majorities has voted for
\* both leaders, or is one of them and has voted for the other.
LEMMA ElectionInvImplies ==
    ASSUME TypeOK, ElectionInv
    PROVE  ElectionSafety
<1> SUFFICES ASSUME NEW i \in Server, NEW j \in Server,
                    state[i] = "Leader", state[j] = "Leader",
                    currentTerm[i] = currentTerm[j], i # j
             PROVE  FALSE
  BY DEF ElectionSafety
<1> DEFINE t == currentTerm[i]
<1>0. t \in Nat
  BY DEF TypeOK
<1>1. PICK Q \in SUBSET Server :
        IsQuorum(Q) /\ \A v \in Q \ {i} : <<v, i, t>> \in granted
  BY DEF ElectionInv, LeaderElected
<1>2. PICK R \in SUBSET Server :
        IsQuorum(R) /\ \A v \in R \ {j} : <<v, j, t>> \in granted
  BY DEF ElectionInv, LeaderElected
<1>3. PICK v \in Q \cap R : TRUE
  BY <1>1, <1>2, QuorumsMeet
<1>4. \A g, h \in Server :
        <<h, g, t>> \in granted =>
            /\ BoundInMemory(h, g, t)
            /\ \A f \in Server : <<h, f, t>> \in granted => f = g
  BY <1>0, VotesBindNat DEF ElectionInv
<1>5. CASE v = i
  <2>1. BoundInMemory(i, j, t)
    BY <1>2, <1>3, <1>4, <1>5
  <2> QED
    BY <2>1, <1>0 DEF BoundInMemory
<1>6. CASE v = j
  <2>1. BoundInMemory(j, i, t)
    BY <1>1, <1>3, <1>4, <1>6
  <2> QED
    BY <2>1, <1>0 DEF BoundInMemory
<1>7. CASE v # i /\ v # j
  BY <1>1, <1>2, <1>3, <1>4, <1>7
<1> QED
  BY <1>5, <1>6, <1>7

\* No vote has been given, and no CM is a candidate, at first.
LEMMA ElectionInit == Init => ElectionInv
<1> SUFFICES ASSUME Init
             PROVE  ElectionInv
  OBVIOUS
<1>1. VotesBind
  BY DEF Init, VotesBind
<1>2. RepliesHonest
  BY DEF Init, RepliesHonest, NoRV
<1>3. CallsCurrent /\ VotesForItself /\ CountHonest /\ LeaderElected
  BY DEF Init, CallsCurrent, VotesForItself, CountHonest, LeaderElected
<1> QED
  BY <1>1, <1>2, <1>3 DEF ElectionInv

\* A step that does not start an election leaves a pending call its term.
CallContinues(c, d) == Pending(d) => Pending(c) /\ d.term = c.term

\* A step that does not handle a request adds no vote to a call either.
CallFollows(c, d) ==
    /\ d.voteGranted => c.voteGranted /\ d.pc = c.pc /\ d.term = c.term
    /\ c.pc = "idle" => d.pc = "idle"
    /\ CallContinues(c, d)

\* What a step that neither starts nor decides an election may do to a CM: it
\* makes nobody a candidate or leader, and leaves those that remain so their
\* term, vote and count.
Remains(a) ==
    state'[a] \in {"Candidate", "Leader"} =>
        /\ state'[a] = state[a]
        /\ currentTerm'[a] = currentTerm[a]
        /\ votedFor'[a] = votedFor[a]
        /\ votesReceived'[a] = votesReceived[a]

\* Such a step preserves what the invariant says of candidates and leaders.
LEMMA RemainsStable ==
    ASSUME ElectionInv, granted \subseteq granted',
           \A a \in Server : Remains(a),
           \A a, b \in Server, k \in Lane :
                CallContinues(rv[a][b][k], rv'[a][b][k])
    PROVE  CallsCurrent' /\ VotesForItself' /\ CountHonest' /\ LeaderElected'
<1>2. CallsCurrent'
  BY DEF ElectionInv, CallsCurrent, CallContinues, Remains
<1>3. VotesForItself'
  BY DEF ElectionInv, VotesForItself, Remains
<1>4. CountHonest'
  <2> SUFFICES ASSUME NEW i \in Server, NEW j \in Server, NEW k \in Lane,
                      state'[i] = "Candidate", Pending(rv'[i][j][k]),
                      NEW v \in votesReceived'[i][k] \ {i}
               PROVE  <<v, i, currentTerm'[i]>> \in granted'
    BY DEF CountHonest
  <2>1. /\ state[i] = "Candidate" /\ currentTerm'[i] = currentTerm[i]
        /\ votesReceived'[i] = votesReceived[i]
    BY DEF Remains
  <2>2. Pending(rv[i][j][k])
    BY DEF CallContinues
  <2> QED
    BY <2>1, <2>2 DEF ElectionInv, CountHonest
<1>5. LeaderElected'
  <2> SUFFICES ASSUME NEW i \in Server, state'[i] = "Leader"
               PROVE  \E Q \in SUBSET Server :
                        /\ IsQuorum(Q)
                        /\ \A v \in Q \ {i} : <<v, i, currentTerm'[i]>> \in granted'
    BY DEF LeaderElected
  <2>1. state[i] = "Leader" /\ currentTerm'[i] = currentTerm[i]
    BY DEF Remains
  <2> QED
    BY <2>1 DEF ElectionInv, LeaderElected
<1> QED
  BY <1>2, <1>3, <1>4, <1>5

\* A step that adds no vote to a call preserves RepliesHonest.
LEMMA FollowsStable ==
    ASSUME RepliesHonest, granted \subseteq granted',
           \A a, b \in Server, k \in Lane :
                CallFollows(rv[a][b][k], rv'[a][b][k])
    PROVE  RepliesHonest'
<1> SUFFICES ASSUME NEW a \in Server, NEW b \in Server, NEW k \in Lane
             PROVE  LET d == rv'[a][b][k]
                    IN  /\ a = b => d.pc = "idle"
                        /\ d.voteGranted => /\ d.pc = "replied"
                                           /\ <<b, a, d.term>> \in granted'
  BY DEF RepliesHonest
<1> DEFINE c == rv[a][b][k]
           d == rv'[a][b][k]
<1>1. /\ a = b => c.pc = "idle"
      /\ c.voteGranted => c.pc = "replied" /\ <<b, a, c.term>> \in granted
  BY DEF RepliesHonest
<1>2. CallFollows(c, d)
  OBVIOUS
<1> HIDE DEF c, d
<1>3. /\ a = b => d.pc = "idle"
      /\ d.voteGranted => d.pc = "replied" /\ <<b, a, d.term>> \in granted'
  BY <1>1, <1>2 DEF CallFollows
<1> QED
  BY <1>3 DEF d

\* All of it together: a quiet step preserves the invariant.
LEMMA QuietStep ==
    ASSUME TypeOK, TypeOK', ElectionInv, granted' = granted,
           \A a \in Server : Advances(a) /\ Remains(a),
           \A a, b \in Server, k \in Lane :
                CallFollows(rv[a][b][k], rv'[a][b][k])
    PROVE  ElectionInv'
<1>1. VotesBind'
  BY VotesBindStable DEF ElectionInv
<1>2. RepliesHonest'
  BY FollowsStable DEF ElectionInv
<1>3. CallsCurrent' /\ VotesForItself' /\ CountHonest' /\ LeaderElected'
  BY RemainsStable DEF CallFollows
<1> QED
  BY <1>1, <1>2, <1>3 DEF ElectionInv

\* A call that is replaced by none, or does not change, follows.
LEMMA EndedFollows ==
    ASSUME NEW c
    PROVE  CallFollows(c, c) /\ CallFollows(c, NoRV)
BY DEF CallFollows, CallContinues, NoRV, Pending

\* So does one that is orphaned before it is answered.
LEMMA OrphanFollows ==
    ASSUME RepliesHonest, NEW a \in Server, NEW b \in Server, NEW k \in Lane,
           Arrived(rv[a][b][k]), rv[a][b][k] \in RVCall
    PROVE  CallFollows(rv[a][b][k], [rv[a][b][k] EXCEPT !.pc = "orphan"])
<1> DEFINE c == rv[a][b][k]
           d == [c EXCEPT !.pc = "orphan"]
<1>1. ~c.voteGranted
  BY DEF RepliesHonest, Arrived
<1>2. d.pc = "orphan" /\ d.voteGranted = c.voteGranted
  BY DEF RVCall
<1>3. c.pc # "idle"
  BY DEF Arrived
<1> HIDE DEF c, d
<1>4. CallFollows(c, d)
  BY <1>1, <1>2, <1>3 DEF CallFollows, CallContinues, Pending
<1> QED
  BY <1>4 DEF c, d

\* Disconnecting a CM only ends or orphans calls.
LEMMA DisconnectedFollows ==
    ASSUME TypeOK, RepliesHonest, NEW i \in Server,
           rv' = Disconnected(rv, i, NoRV)
    PROVE  \A a, b \in Server, k \in Lane :
                CallFollows(rv[a][b][k], rv'[a][b][k])
<1> SUFFICES ASSUME NEW a \in Server, NEW b \in Server, NEW k \in Lane
             PROVE  CallFollows(rv[a][b][k], rv'[a][b][k])
  OBVIOUS
<1>1. rv[a][b][k] \in RVCall
  BY DEF TypeOK
<1>2. \/ rv'[a][b][k] \in {rv[a][b][k], NoRV}
      \/ /\ Arrived(rv[a][b][k])
         /\ rv'[a][b][k] = [rv[a][b][k] EXCEPT !.pc = "orphan"]
  BY DEF Disconnected
<1> QED
  BY <1>1, <1>2, EndedFollows, OrphanFollows

\* A step that leaves every CM its state, term, vote and storage is quiet when
\* the calls follow.
LEMMA CMsUntouched ==
    ASSUME UNCHANGED <<state, currentTerm, votedFor, storage, votesReceived>>
    PROVE  \A a \in Server : Advances(a) /\ Remains(a)
BY UntouchedAdvances DEF Remains

\* A step that changes one call is quiet when that call follows.
LEMMA OneCallFollows ==
    ASSUME TypeOK, NEW i \in Server, NEW j \in Server, NEW k \in Lane, NEW d,
           rv' = [rv EXCEPT ![i][j][k] = d], CallFollows(rv[i][j][k], d)
    PROVE  \A a, b \in Server, l \in Lane :
                CallFollows(rv[a][b][l], rv'[a][b][l])
<1>1. rv \in [Server -> [Server -> [Lane -> RVCall]]]
  BY DEF TypeOK
<1> SUFFICES ASSUME NEW a \in Server, NEW b \in Server, NEW l \in Lane
             PROVE  CallFollows(rv[a][b][l], rv'[a][b][l])
  OBVIOUS
<1>2. CASE a = i /\ b = j /\ l = k
  <2>1. rv'[a][b][l] = d
    BY <1>1, <1>2
  <2> QED
    BY <1>2, <2>1
<1>3. CASE ~(a = i /\ b = j /\ l = k)
  <2>1. rv'[a][b][l] = rv[a][b][l]
    BY <1>1, <1>3
  <2> QED
    BY <2>1, EndedFollows
<1> QED
  BY <1>2, <1>3

\* The steps of calls that carry no vote, and of their failures.
LEMMA CallStepsQuiet ==
    ASSUME TypeOK, TypeOK', ElectionInv,
           NEW i \in Server, NEW j \in Server, NEW k \in Lane,
           \/ SendRequestVote(i, j, k) \/ DeadRequestVote(i, j, k)
           \/ RequestVoteFails(i, j, k)
    PROVE  ElectionInv'
<1> DEFINE c == rv[i][j][k]
<1>1. c \in RVCall
  BY DEF TypeOK
<1>2. c.voteGranted => c.pc = "replied"
  BY DEF ElectionInv, RepliesHonest
<1>3. UNCHANGED <<state, currentTerm, votedFor, storage, votesReceived, granted>>
  BY DEF SendRequestVote, DeadRequestVote, RequestVoteFails, cmVars, history
<1>4. \A a \in Server : Advances(a) /\ Remains(a)
  BY <1>3, CMsUntouched
<1>5. \E d : rv' = [rv EXCEPT ![i][j][k] = d] /\ CallFollows(c, d)
  <2>1. CASE SendRequestVote(i, j, k)
    <3> DEFINE d == [c EXCEPT !.pc = "sent", !.lastLogIndex = Len(log[i]),
                              !.lastLogTerm = LastTerm(log[i])]
    <3>1. rv' = [rv EXCEPT ![i][j][k] = d] /\ c.pc = "spawned"
      BY <2>1 DEF SendRequestVote
    <3>2. d.pc = "sent" /\ d.term = c.term /\ d.voteGranted = c.voteGranted
      BY <1>1 DEF RVCall
    <3> HIDE DEF c, d
    <3>3. CallFollows(c, d)
      BY <3>1, <3>2, <1>2 DEF CallFollows, CallContinues, Pending
    <3> QED
      BY <3>1, <3>3
  <2>2. CASE DeadRequestVote(i, j, k)
    <3> DEFINE d == [c EXCEPT !.pc = "replied"]
    <3>1. /\ rv' = [rv EXCEPT ![i][j][k] = IF c.pc = "orphan" THEN NoRV ELSE d]
          /\ c.pc \in {"sent", "orphan"}
      BY <2>2 DEF DeadRequestVote, Arrived
    <3>2. d.pc = "replied" /\ d.term = c.term /\ d.voteGranted = c.voteGranted
      BY <1>1 DEF RVCall
    <3>3. CallFollows(c, NoRV)
      BY EndedFollows
    <3> HIDE DEF c, d
    <3>4. c.pc = "sent" => CallFollows(c, d)
      BY <3>1, <3>2, <1>2 DEF CallFollows, CallContinues, Pending
    <3> QED
      BY <3>1, <3>3, <3>4
  <2>3. CASE RequestVoteFails(i, j, k)
    <3>1. PICK d \in {NoRV, [c EXCEPT !.pc = "orphan"]} :
            CallFails(c, d, NoRV) /\ rv' = [rv EXCEPT ![i][j][k] = d]
      BY <2>3 DEF RequestVoteFails
    <3>2. CASE d = NoRV
      BY <3>1, <3>2, EndedFollows
    <3>3. CASE d # NoRV
      <4>1. c.pc = "sent" /\ d = [c EXCEPT !.pc = "orphan"]
        BY <3>1, <3>3 DEF CallFails
      <4> QED
        BY <3>1, <4>1, <1>1, OrphanFollows DEF Arrived, ElectionInv
    <3> QED
      BY <3>2, <3>3
  <2> QED
    BY <2>1, <2>2, <2>3
<1>6. \A a, b \in Server, l \in Lane : CallFollows(rv[a][b][l], rv'[a][b][l])
  BY <1>5, OneCallFollows
<1> QED
  BY <1>3, <1>4, <1>6, QuietStep

\* The steps that concern neither elections nor terms.
LEMMA OtherStepsQuiet ==
    ASSUME TypeOK, TypeOK', ElectionInv,
           UNCHANGED <<state, currentTerm, votedFor, storage, votesReceived,
                       rv, granted>>
    PROVE  ElectionInv'
<1>1. \A a, b \in Server, l \in Lane : CallFollows(rv[a][b][l], rv'[a][b][l])
  BY EndedFollows
<1> QED
  BY <1>1, CMsUntouched, QuietStep

\* A leader that accepts a command persists the term and vote it has.
LEMMA SubmitQuiet ==
    ASSUME TypeOK, TypeOK', ElectionInv,
           NEW i \in Server, NEW v \in Command, Submit(i, v)
    PROVE  ElectionInv'
<1>1. UNCHANGED <<state, currentTerm, votedFor, votesReceived, rv, granted>>
  BY DEF Submit, history
<1>2. \A a, b \in Server, l \in Lane : CallFollows(rv[a][b][l], rv'[a][b][l])
  BY <1>1, EndedFollows
<1>3. ASSUME NEW a \in Server PROVE Advances(a) /\ Remains(a)
  <2>1. Remains(a)
    BY <1>1 DEF Remains
  <2>2. \/ storage'[a] = storage[a]
        \/ /\ storage'[a].currentTerm = currentTerm'[a]
           /\ storage'[a].votedFor = votedFor'[a]
    BY <1>1 DEF Submit, Persisted, TypeOK
  <2>3. Advances(a)
    BY <1>1, <2>2 DEF Advances
  <2> QED
    BY <2>1, <2>3
<1> QED
  BY <1>1, <1>2, <1>3, QuietStep

\* A CM that stops, panics or is restarted.
LEMMA FailuresQuiet ==
    ASSUME TypeOK, TypeOK', ElectionInv, NEW i \in Server,
           \/ Stop(i) \/ Restart(i)
           \/ \E j \in Server, k \in Lane : SendAppendEntriesPanics(i, j, k)
    PROVE  ElectionInv'
<1>t. /\ state \in [Server -> CMState] /\ currentTerm \in [Server -> Nat]
      /\ votedFor \in [Server -> Server \cup {Nil}]
      /\ votesReceived \in [Server -> [Lane -> SUBSET Server]]
  BY DEF TypeOK
<1>1. granted' = granted /\ storage' = storage
  BY DEF Stop, Restart, RestoreFromStorage, SendAppendEntriesPanics, history
<1>2. rv' = rv \/ rv' = Disconnected(rv, i, NoRV)
  BY DEF Stop, Restart, RestoreFromStorage, SendAppendEntriesPanics
<1>3. \A a, b \in Server, l \in Lane : CallFollows(rv[a][b][l], rv'[a][b][l])
  BY <1>2, EndedFollows, DisconnectedFollows DEF ElectionInv
<1>4. ASSUME NEW a \in Server PROVE Advances(a) /\ Remains(a)
  <2>1. CASE Restart(i)
    <3>1. CASE a = i
      <4>1. /\ state'[a] = "Follower"
            /\ currentTerm'[a] = storage[a].currentTerm
            /\ votedFor'[a] = storage[a].votedFor
        BY <2>1, <3>1, <1>t DEF Restart, RestoreFromStorage
      <4> QED
        BY <4>1, <1>1 DEF Advances, Remains
    <3>2. CASE a # i
      <4>1. /\ state'[a] = state[a] /\ currentTerm'[a] = currentTerm[a]
            /\ votedFor'[a] = votedFor[a]
            /\ votesReceived'[a] = votesReceived[a]
        BY <2>1, <3>2, <1>t DEF Restart, RestoreFromStorage
      <4> QED
        BY <4>1, <1>1, UntouchedAdvances DEF Remains
    <3> QED
      BY <3>1, <3>2
  <2>2. CASE ~Restart(i)
    <3>1. /\ UNCHANGED <<currentTerm, votedFor, votesReceived>>
          /\ state' = [state EXCEPT ![i] = "Dead"]
      BY <2>2 DEF Stop, SendAppendEntriesPanics
    <3>2. state'[a] = state[a] \/ state'[a] = "Dead"
      BY <3>1, <1>t
    <3> QED
      BY <3>1, <3>2, <1>1 DEF Advances, Remains
  <2> QED
    BY <2>1, <2>2
<1> QED
  BY <1>1, <1>3, <1>4, QuietStep

\* A CM that handles AppendEntries keeps its vote when it was a follower of the
\* same term; a candidate or leader either steps down or is not affected.
LEMMA AppendEntriesQuiet ==
    ASSUME TypeOK, TypeOK', ElectionInv,
           NEW i \in Server, NEW j \in Server, NEW k \in Lane,
           AppendEntries(i, j, k)
    PROVE  ElectionInv'
<1> DEFINE c == ae[i][j][k]
           stepsDown == \/ c.term > currentTerm[j]
                        \/ /\ c.term = NewTerm(c.term, currentTerm[j])
                           /\ state[j] # "Follower"
<1>t. /\ state \in [Server -> CMState] /\ currentTerm \in [Server -> Nat]
      /\ votedFor \in [Server -> Server \cup {Nil}]
      /\ storage \in [Server -> [currentTerm : Nat,
                                 votedFor : Server \cup {Nil},
                                 log : Seq(LogEntry)]]
  BY DEF TypeOK
<1>n. c.term \in Nat
  <2>1. c \in AECall
    BY DEF TypeOK
  <2> QED
    BY <2>1 DEF AECall
<1>1. UNCHANGED <<votesReceived, rv, granted>>
  BY DEF AppendEntries, history
<1>2. \A a, b \in Server, l \in Lane : CallFollows(rv[a][b][l], rv'[a][b][l])
  BY <1>1, EndedFollows
<1>3. /\ state' = [state EXCEPT ![j] = IF stepsDown THEN "Follower" ELSE @]
      /\ currentTerm' = [currentTerm EXCEPT ![j] =
                            NewTerm(c.term, currentTerm[j])]
      /\ votedFor' = [votedFor EXCEPT ![j] =
                            IF stepsDown THEN Nil ELSE votedFor[j]]
      /\ state[j] # "Dead"
  BY DEF AppendEntries
<1>4. /\ storage'[j].currentTerm = NewTerm(c.term, currentTerm[j])
      /\ storage'[j].votedFor = IF stepsDown THEN Nil ELSE votedFor[j]
      /\ \A a \in Server : a # j => storage'[a] = storage[a]
  BY <1>t DEF AppendEntries, Persisted
<1> HIDE DEF c
<1>5. ASSUME NEW a \in Server PROVE Advances(a) /\ Remains(a)
  <2>1. CASE a # j
    BY <1>t, <1>1, <1>3, <1>4, <2>1 DEF Advances, Remains
  <2>2. CASE a = j
    <3>1. /\ state'[a] = IF stepsDown THEN "Follower" ELSE state[j]
          /\ currentTerm'[a] = NewTerm(c.term, currentTerm[j])
          /\ votedFor'[a] = IF stepsDown THEN Nil ELSE votedFor[j]
      BY <1>t, <1>3, <2>2
    <3>2. currentTerm[j] \in Nat
      BY <1>t
    <3>3. Remains(a)
      BY <1>n, <1>1, <1>3, <2>2, <3>1, <3>2 DEF Remains, NewTerm
    <3>4. Advances(a)
      BY <1>n, <1>3, <1>4, <2>2, <3>1, <3>2 DEF Advances, NewTerm
    <3> QED
      BY <3>3, <3>4
  <2> QED
    BY <2>1, <2>2
<1> QED
  BY <1>1, <1>2, <1>5, QuietStep

\* A CM that adopts a newer term becomes a follower that has not voted.
LEMMA BecomeFollowerQuiet ==
    ASSUME TypeOK, NEW i \in Server, NEW t \in Nat, t > currentTerm[i],
           BecomeFollower(i, t), UNCHANGED <<storage, votesReceived>>
    PROVE  \A a \in Server : Advances(a) /\ Remains(a)
<1>t. /\ state \in [Server -> CMState] /\ currentTerm \in [Server -> Nat]
      /\ votedFor \in [Server -> Server \cup {Nil}]
  BY DEF TypeOK
<1> SUFFICES ASSUME NEW a \in Server
             PROVE  Advances(a) /\ Remains(a)
  OBVIOUS
<1>1. CASE a = i
  <2>1. state'[a] = "Follower" /\ currentTerm'[a] = t
    BY <1>t, <1>1 DEF BecomeFollower
  <2> QED
    BY <2>1, <1>1 DEF Advances, Remains
<1>2. CASE a # i
  <2>1. /\ state'[a] = state[a] /\ currentTerm'[a] = currentTerm[a]
        /\ votedFor'[a] = votedFor[a]
    BY <1>t, <1>2 DEF BecomeFollower
  <2> QED
    BY <2>1, UntouchedAdvances DEF Remains
<1> QED
  BY <1>1, <1>2

LEMMA AppendEntriesReplyQuiet ==
    ASSUME TypeOK, TypeOK', ElectionInv,
           NEW i \in Server, NEW j \in Server, NEW k \in Lane,
           AppendEntriesReply(i, j, k)
    PROVE  ElectionInv'
<1> DEFINE c == ae[i][j][k]
<1>n. c.rterm \in Nat
  <2>1. c \in AECall
    BY DEF TypeOK
  <2> QED
    BY <2>1 DEF AECall
<1>1. UNCHANGED <<votesReceived, rv, granted, storage>>
  BY DEF AppendEntriesReply, history
<1>2. \A a, b \in Server, l \in Lane : CallFollows(rv[a][b][l], rv'[a][b][l])
  BY <1>1, EndedFollows
<1>3. \/ c.rterm > currentTerm[i] /\ BecomeFollower(i, c.rterm)
      \/ UNCHANGED <<state, currentTerm, votedFor>>
  BY DEF AppendEntriesReply
<1>4. \A a \in Server : Advances(a) /\ Remains(a)
  BY <1>n, <1>1, <1>3, BecomeFollowerQuiet, CMsUntouched
<1> QED
  BY <1>1, <1>2, <1>4, QuietStep

\* A vote that is counted: its term is the candidate's, so it is one of the
\* election that is going on.
LEMMA VoteCounted ==
    ASSUME TypeOK, TypeOK', ElectionInv,
           NEW i \in Server, NEW j \in Server, NEW k \in Lane,
           rv[i][j][k].pc = "replied", CountsVote(i, rv[i][j][k]),
           rv' = [rv EXCEPT ![i][j][k] = NoRV],
           votesReceived' = [votesReceived EXCEPT ![i][k] = @ \cup {j}],
           state' = [state EXCEPT ![i] =
                        IF IsQuorum(votesReceived[i][k] \cup {j})
                        THEN "Leader" ELSE @],
           UNCHANGED <<currentTerm, votedFor, storage, granted>>
    PROVE  ElectionInv'
<1> DEFINE c == rv[i][j][k]
           votes == votesReceived[i][k] \cup {j}
<1>t. /\ state \in [Server -> CMState]
      /\ votesReceived \in [Server -> [Lane -> SUBSET Server]]
      /\ rv \in [Server -> [Server -> [Lane -> RVCall]]]
  BY DEF TypeOK
<1>1. \A a, b \in Server, l \in Lane : CallFollows(rv[a][b][l], rv'[a][b][l])
  BY EndedFollows, OneCallFollows
<1>2. state[i] = "Candidate" /\ c.voteGranted
  BY DEF CountsVote
<1>3. Pending(c)
  BY DEF Pending
<1>4. c.term = currentTerm[i]
  BY <1>2, <1>3 DEF ElectionInv, CallsCurrent
<1>5. <<j, i, currentTerm[i]>> \in granted
  BY <1>2, <1>4 DEF ElectionInv, RepliesHonest
<1>6. \A v \in votes \ {i} : <<v, i, currentTerm[i]>> \in granted
  BY <1>2, <1>3, <1>5 DEF ElectionInv, CountHonest
<1>7. \A a \in Server : a # i => /\ state'[a] = state[a]
                                 /\ votesReceived'[a] = votesReceived[a]
  BY <1>t
<1>8. /\ state'[i] \in {"Candidate", "Leader"}
      /\ state'[i] = "Leader" <=> IsQuorum(votes)
  BY <1>t, <1>2
<1>9. ASSUME NEW a \in Server PROVE Advances(a)
  BY <1>2, <1>7 DEF Advances
<1>10. VotesBind'
  BY <1>9, VotesBindStable DEF ElectionInv
<1>11. RepliesHonest'
  BY <1>1, FollowsStable DEF ElectionInv
<1>12. \A a, b \in Server, l \in Lane :
          Pending(rv'[a][b][l]) => /\ Pending(rv[a][b][l])
                                   /\ rv'[a][b][l].term = rv[a][b][l].term
  BY <1>1 DEF CallFollows, CallContinues
<1>13. CallsCurrent'
  BY <1>2, <1>7, <1>8, <1>12 DEF ElectionInv, CallsCurrent
<1>14. VotesForItself'
  BY <1>2, <1>7, <1>8 DEF ElectionInv, VotesForItself
<1>15. CountHonest'
  <2> SUFFICES ASSUME NEW a \in Server, NEW b \in Server, NEW l \in Lane,
                      state'[a] = "Candidate", Pending(rv'[a][b][l]),
                      NEW v \in votesReceived'[a][l] \ {a}
               PROVE  <<v, a, currentTerm[a]>> \in granted
    BY DEF CountHonest
  <2>1. Pending(rv[a][b][l]) /\ state[a] = "Candidate"
    BY <1>2, <1>7, <1>12
  <2>2. CASE a = i /\ l = k
    <3>1. v \in votes \ {i}
      BY <1>t, <2>2
    <3> QED
      BY <1>6, <2>2, <3>1
  <2>3. CASE ~(a = i /\ l = k)
    <3>1. v \in votesReceived[a][l]
      BY <1>t, <2>3
    <3> QED
      BY <2>1, <3>1 DEF ElectionInv, CountHonest
  <2> QED
    BY <2>2, <2>3
<1>16. LeaderElected'
  <2> SUFFICES ASSUME NEW a \in Server, state'[a] = "Leader"
               PROVE  \E Q \in SUBSET Server :
                        /\ IsQuorum(Q)
                        /\ \A v \in Q \ {a} : <<v, a, currentTerm[a]>> \in granted
    BY DEF LeaderElected
  <2>1. CASE a = i
    <3>1. votes \in SUBSET Server /\ IsQuorum(votes)
      BY <1>t, <1>8, <2>1
    <3> QED
      BY <1>6, <2>1, <3>1
  <2>2. CASE a # i
    BY <1>7, <2>2 DEF ElectionInv, LeaderElected
  <2> QED
    BY <2>1, <2>2
<1> QED
  BY <1>10, <1>11, <1>13, <1>14, <1>15, <1>16 DEF ElectionInv

LEMMA RequestVoteReplyKeeps ==
    ASSUME TypeOK, TypeOK', ElectionInv,
           NEW i \in Server, NEW j \in Server, NEW k \in Lane,
           RequestVoteReply(i, j, k)
    PROVE  ElectionInv'
<1> DEFINE c == rv[i][j][k]
<1>t. /\ state \in [Server -> CMState] /\ c.rterm \in Nat
  <2>1. c \in RVCall
    BY DEF TypeOK
  <2>2. state \in [Server -> CMState]
    BY DEF TypeOK
  <2> QED
    BY <2>1, <2>2 DEF RVCall
<1>1. /\ c.pc = "replied" /\ rv' = [rv EXCEPT ![i][j][k] = NoRV]
      /\ UNCHANGED <<storage, granted>>
  BY DEF RequestVoteReply
<1>2. \A a, b \in Server, l \in Lane : CallFollows(rv[a][b][l], rv'[a][b][l])
  BY <1>1, EndedFollows, OneCallFollows
<1>3. CASE /\ state[i] = "Candidate" /\ c.rterm > c.term
           /\ BecomeFollower(i, c.rterm) /\ votesReceived' = votesReceived
  <2>1. c.term = currentTerm[i]
    BY <1>1, <1>3 DEF ElectionInv, CallsCurrent, Pending
  <2>2. \A a \in Server : Advances(a) /\ Remains(a)
    BY <1>t, <1>1, <1>3, <2>1, BecomeFollowerQuiet
  <2> QED
    BY <1>1, <1>2, <2>2, QuietStep
<1>4. CASE UNCHANGED <<state, currentTerm, votedFor, votesReceived>>
  BY <1>1, <1>2, <1>4, CMsUntouched, QuietStep
<1>5. CASE /\ CountsVote(i, c)
           /\ votesReceived' = [votesReceived EXCEPT ![i][k] = @ \cup {j}]
           /\ state' = [state EXCEPT ![i] =
                          IF IsQuorum(votesReceived[i][k] \cup {j})
                          THEN "Leader" ELSE @]
           /\ UNCHANGED <<currentTerm, votedFor>>
  BY <1>1, <1>5, VoteCounted
<1> QED
  BY <1>t, <1>3, <1>4, <1>5 DEF RequestVoteReply, StartLeader

\* An election starts when the calls of the CM's earlier ones have ended.
LEMMA StartElectionKeeps ==
    ASSUME Timely, TypeOK, TypeOK', ElectionInv, NEW i \in Server,
           NEW k \in Lane, StartElection(i, k)
    PROVE  ElectionInv'
<1> DEFINE new(j) == IF j = i THEN NoRV
                     ELSE [NoRV EXCEPT !.pc = "spawned",
                                       !.term = currentTerm[i] + 1]
<1>t. /\ state \in [Server -> CMState] /\ currentTerm \in [Server -> Nat]
      /\ votedFor \in [Server -> Server \cup {Nil}]
      /\ votesReceived \in [Server -> [Lane -> SUBSET Server]]
      /\ rv \in [Server -> [Server -> [Lane -> RVCall]]]
  BY DEF TypeOK
<1>1. UNCHANGED <<storage, granted>>
  BY DEF StartElection, history
<1>2. /\ state'[i] = "Candidate" /\ currentTerm'[i] = currentTerm[i] + 1
      /\ votedFor'[i] = i /\ votesReceived'[i][k] = {i}
  BY <1>t DEF StartElection
<1>3. \A a \in Server : a # i =>
        /\ state'[a] = state[a] /\ currentTerm'[a] = currentTerm[a]
        /\ votedFor'[a] = votedFor[a] /\ votesReceived'[a] = votesReceived[a]
  BY <1>t DEF StartElection
<1>4. \A b \in Server : rv'[i][b][k] = new(b)
  BY <1>t DEF StartElection
<1>5. \A b \in Server, l \in Lane : l # k => rv'[i][b][l] = rv[i][b][l]
  BY <1>t DEF StartElection
<1>6. \A a, b \in Server, l \in Lane : a # i => rv'[a][b][l] = rv[a][b][l]
  BY <1>t DEF StartElection
<1>7. \A b \in Server, l \in Lane : ~Pending(rv[i][b][l])
  BY DEF StartElection
<1>8. \A b \in Server : /\ ~new(b).voteGranted
                        /\ b = i => new(b).pc = "idle"
                        /\ Pending(new(b)) => new(b).term = currentTerm[i] + 1
  BY DEF NoRV, Pending
<1> HIDE DEF new
<1>9. VotesBind'
  <2>1. ASSUME NEW a \in Server PROVE Advances(a)
    <3>1. currentTerm[i] \in Nat
      BY <1>t
    <3> QED
      BY <3>1, <1>1, <1>2, <1>3 DEF Advances
  <2> QED
    BY <1>1, <2>1, VotesBindStable DEF ElectionInv
<1>10. RepliesHonest'
  <2> SUFFICES ASSUME NEW a \in Server, NEW b \in Server, NEW l \in Lane
               PROVE  LET d == rv'[a][b][l]
                      IN  /\ a = b => d.pc = "idle"
                          /\ d.voteGranted => /\ d.pc = "replied"
                                              /\ <<b, a, d.term>> \in granted'
    BY DEF RepliesHonest
  <2>1. CASE a = i /\ l = k
    BY <1>4, <1>8, <2>1
  <2>2. CASE ~(a = i /\ l = k)
    <3>1. rv'[a][b][l] = rv[a][b][l]
      BY <1>5, <1>6, <2>2
    <3> QED
      BY <1>1, <3>1 DEF ElectionInv, RepliesHonest
  <2> QED
    BY <2>1, <2>2
<1>11. \A b \in Server, l \in Lane : Pending(rv'[i][b][l]) => l = k
  BY <1>5, <1>7
<1>12. CallsCurrent'
  BY <1>2, <1>3, <1>4, <1>6, <1>8, <1>11 DEF ElectionInv, CallsCurrent
<1>13. VotesForItself'
  BY <1>2, <1>3 DEF ElectionInv, VotesForItself
<1>14. CountHonest'
  BY <1>1, <1>2, <1>3, <1>6, <1>11 DEF ElectionInv, CountHonest
<1>15. LeaderElected'
  BY <1>1, <1>2, <1>3 DEF ElectionInv, LeaderElected
<1> QED
  BY <1>9, <1>10, <1>12, <1>13, <1>14, <1>15 DEF ElectionInv

\* A CM votes only as a follower that is not bound to another candidate.
LEMMA RequestVoteKeeps ==
    ASSUME TypeOK, TypeOK', ElectionInv,
           NEW i \in Server, NEW j \in Server, NEW k \in Lane,
           RequestVote(i, j, k)
    PROVE  ElectionInv'
<1> DEFINE c == rv[i][j][k]
           newer == c.term > currentTerm[j]
           term == NewTerm(c.term, currentTerm[j])
           vote == IF newer THEN Nil ELSE votedFor[j]
           grants == GrantsVote(c, i, term, vote, log[j])
           newVote == IF grants THEN i ELSE vote
           d == IF c.pc = "orphan" THEN NoRV
                ELSE [c EXCEPT !.pc = "replied", !.rterm = term,
                               !.voteGranted = grants]
<1>t. /\ state \in [Server -> CMState] /\ currentTerm \in [Server -> Nat]
      /\ votedFor \in [Server -> Server \cup {Nil}]
      /\ storage \in [Server -> [currentTerm : Nat,
                                 votedFor : Server \cup {Nil},
                                 log : Seq(LogEntry)]]
      /\ rv \in [Server -> [Server -> [Lane -> RVCall]]]
  BY DEF TypeOK
<1>c. c \in RVCall
  BY <1>t
<1>n. c.term \in Nat /\ currentTerm[j] \in Nat
  BY <1>t, <1>c DEF RVCall
<1>1. Arrived(c) /\ state[j] # "Dead" /\ votesReceived' = votesReceived
  BY DEF RequestVote
<1>2. i # j /\ i # Nil
  BY <1>1, NilAssumption DEF ElectionInv, RepliesHonest, Arrived
<1>3. /\ state'[j] = IF newer THEN "Follower" ELSE state[j]
      /\ currentTerm'[j] = term
      /\ votedFor'[j] = newVote
  BY <1>t DEF RequestVote
<1>4. storage'[j].currentTerm = term /\ storage'[j].votedFor = newVote
  BY <1>t DEF RequestVote, Persisted
<1>5. \A a \in Server : a # j =>
        /\ state'[a] = state[a] /\ currentTerm'[a] = currentTerm[a]
        /\ votedFor'[a] = votedFor[a] /\ storage'[a] = storage[a]
  BY <1>t DEF RequestVote
<1>6. /\ rv'[i][j][k] = d
      /\ \A a, b \in Server, l \in Lane :
            ~(a = i /\ b = j /\ l = k) => rv'[a][b][l] = rv[a][b][l]
  <2>1. rv' = [rv EXCEPT ![i][j][k] = d]
    BY DEF RequestVote
  <2> HIDE DEF d
  <2> QED
    BY <2>1, <1>t
<1>7. granted' = IF grants THEN granted \cup {<<j, i, term>>} ELSE granted
  BY DEF RequestVote
<1>8. /\ d.voteGranted => grants /\ d.pc = "replied" /\ d.term = c.term
      /\ Pending(d) => c.pc # "orphan" /\ d.term = c.term
  BY <1>c DEF RVCall, NoRV, Pending
<1>9. grants => c.term = term /\ vote \in {Nil, i}
  BY DEF GrantsVote
<1>10. term \in Nat /\ term >= currentTerm[j] /\ (~newer => term = currentTerm[j])
  BY <1>n DEF NewTerm
<1>f. newer => term > currentTerm[j]
  BY <1>n DEF NewTerm
<1> HIDE DEF c, d, grants, term
<1>11. grants => newer \/ state[j] = "Follower"
  <2>1. state[j] \in {"Candidate", "Leader"} => votedFor[j] = j
    BY DEF ElectionInv, VotesForItself
  <2>2. state[j] \in {"Follower", "Candidate", "Leader"}
    BY <1>t, <1>1 DEF CMState
  <2>3. j # Nil
    BY NilAssumption
  <2> QED
    BY <1>2, <1>9, <2>1, <2>2, <2>3
<1>12. ASSUME NEW a \in Server PROVE Advances(a)
  <2>1. CASE a = j
    BY <1>n, <1>1, <1>2, <1>3, <1>4, <1>9, <1>10, <1>f, <2>1 DEF Advances
  <2>2. CASE a # j
    BY <1>5, <2>2, UntouchedAdvances
  <2> QED
    BY <2>1, <2>2
<1>13. ASSUME NEW a \in Server PROVE Remains(a)
  <2>1. CASE a = j
    <3>1. ~newer /\ state[j] \in {"Candidate", "Leader"} => ~grants
      BY <1>11
    <3> QED
      BY <1>1, <1>3, <1>10, <2>1, <3>1 DEF Remains
  <2>2. CASE a # j
    BY <1>1, <1>5, <2>2 DEF Remains
  <2> QED
    BY <2>1, <2>2
<1>14. granted \subseteq granted'
  BY <1>7
<1>15. ASSUME NEW a \in Server, NEW b \in Server, NEW l \in Lane
       PROVE  CallContinues(rv[a][b][l], rv'[a][b][l])
  <2>1. CASE a = i /\ b = j /\ l = k
    BY <1>1, <1>6, <1>8, <2>1 DEF CallContinues, Arrived, Pending, c
  <2>2. CASE ~(a = i /\ b = j /\ l = k)
    <3>1. rv'[a][b][l] = rv[a][b][l]
      BY <1>6, <2>2
    <3> QED
      BY <3>1 DEF CallContinues
  <2> QED
    BY <2>1, <2>2
<1>16. CallsCurrent' /\ VotesForItself' /\ CountHonest' /\ LeaderElected'
  BY <1>13, <1>14, <1>15, RemainsStable
<1>17. RepliesHonest'
  <2> SUFFICES ASSUME NEW a \in Server, NEW b \in Server, NEW l \in Lane
               PROVE  LET e == rv'[a][b][l]
                      IN  /\ a = b => e.pc = "idle"
                          /\ e.voteGranted => /\ e.pc = "replied"
                                              /\ <<b, a, e.term>> \in granted'
    BY DEF RepliesHonest
  <2>1. CASE a = i /\ b = j /\ l = k
    BY <1>2, <1>6, <1>7, <1>8, <1>9, <2>1
  <2>2. CASE ~(a = i /\ b = j /\ l = k)
    <3>1. rv'[a][b][l] = rv[a][b][l]
      BY <1>6, <2>2
    <3> QED
      BY <1>14, <3>1 DEF ElectionInv, RepliesHonest
  <2> QED
    BY <2>1, <2>2
<1>18. \A a, b \in Server, t \in Nat :
          <<b, a, t>> \in granted =>
            /\ BoundInMemory(b, a, t) /\ BoundInStorage(b, a, t)
            /\ \A h \in Server : <<b, h, t>> \in granted => h = a
  BY VotesBindNat DEF ElectionInv
<1>19. ASSUME grants, NEW h \in Server, <<j, h, term>> \in granted
       PROVE  h = i
  <2>1. BoundInMemory(j, h, term)
    BY <1>10, <1>18, <1>19
  <2>2. ~newer /\ votedFor[j] = h
    BY <2>1, <1>n, <1>10, <1>f DEF BoundInMemory
  <2>3. h # Nil
    BY NilAssumption
  <2> QED
    BY <1>9, <1>19, <2>2, <2>3
<1>20. PICK t \in Nat : t = term
  BY <1>10
<1>21. ASSUME grants
       PROVE  BoundInMemory(j, i, t)' /\ BoundInStorage(j, i, t)'
  <2>1. currentTerm'[j] = t /\ votedFor'[j] = i /\ state'[j] = "Follower"
    BY <1>3, <1>11, <1>20, <1>21
  <2>2. storage'[j].currentTerm = t /\ storage'[j].votedFor = i
    BY <1>4, <1>20, <1>21
  <2> QED
    BY <2>1, <2>2 DEF BoundInMemory, BoundInStorage
<1>22. ASSUME NEW a \in Server, NEW b \in Server, NEW u \in Nat,
              <<b, a, u>> \in granted'
       PROVE  /\ BoundInMemory(b, a, u)' /\ BoundInStorage(b, a, u)'
              /\ \A h \in Server : <<b, h, u>> \in granted' => h = a
  <2>1. CASE <<b, a, u>> \in granted
    <3>1. BoundInMemory(b, a, u)' /\ BoundInStorage(b, a, u)'
      BY <1>12, <1>18, <2>1, BoundStable
    <3>2. ASSUME NEW h \in Server, <<b, h, u>> \in granted' PROVE h = a
      <4>1. CASE <<b, h, u>> \in granted
        BY <1>18, <2>1, <4>1
      <4>2. CASE <<b, h, u>> \notin granted
        <5>1. grants /\ b = j /\ h = i /\ u = term
          BY <1>7, <3>2, <4>2
        <5> QED
          BY <1>19, <2>1, <5>1
      <4> QED
        BY <4>1, <4>2
    <3> QED
      BY <3>1, <3>2
  <2>2. CASE <<b, a, u>> \notin granted
    <3>1. grants /\ b = j /\ a = i /\ u = t
      BY <1>7, <1>20, <1>22, <2>2
    <3>2. BoundInMemory(b, a, u)' /\ BoundInStorage(b, a, u)'
      BY <1>21, <3>1
    <3>3. ASSUME NEW h \in Server, <<b, h, u>> \in granted' PROVE h = a
      BY <1>7, <1>19, <1>20, <3>1, <3>3
    <3> QED
      BY <3>2, <3>3
  <2> QED
    BY <2>1, <2>2
<1>23. VotesBind'
  <2> SUFFICES ASSUME NEW a \in Server, NEW b \in Server,
                      NEW u \in {g[3] : g \in granted'}, <<b, a, u>> \in granted'
               PROVE  /\ BoundInMemory(b, a, u)' /\ BoundInStorage(b, a, u)'
                      /\ \A h \in Server : <<b, h, u>> \in granted' => h = a
    BY DEF VotesBind
  <2>1. u \in Nat
    BY DEF TypeOK
  <2> QED
    BY <1>22, <2>1
<1> QED
  BY <1>16, <1>17, <1>23 DEF ElectionInv

\* ElectionInv is inductive when calls are timely.
LEMMA ElectionNext ==
    ASSUME Timely, TypeOK, TypeOK', ElectionInv, [Next]_vars
    PROVE  ElectionInv'
<1>1. ASSUME NEW i \in Server, NEW k \in Lane, StartElection(i, k)
      PROVE  ElectionInv'
  BY <1>1, StartElectionKeeps
<1>2. ASSUME NEW i \in Server, NEW k \in Lane, LeaderSendAEs(i, k)
      PROVE  ElectionInv'
  BY <1>2, OtherStepsQuiet DEF LeaderSendAEs, cmVars, history
<1>3. ASSUME NEW i \in Server, NEW j \in Server, NEW k \in Lane,
             CallStep(i, j, k)
      PROVE  ElectionInv'
  <2>1. CASE SendRequestVote(i, j, k) \/ DeadRequestVote(i, j, k)
    BY <2>1, CallStepsQuiet
  <2>2. CASE RequestVote(i, j, k)
    BY <2>2, RequestVoteKeeps
  <2>3. CASE RequestVoteReply(i, j, k)
    BY <2>3, RequestVoteReplyKeeps
  <2>4. CASE SendAppendEntries(i, j, k) \/ DeadAppendEntries(i, j, k)
    BY <2>4, OtherStepsQuiet
       DEF SendAppendEntries, DeadAppendEntries, cmVars, history
  <2>5. CASE SendAppendEntriesPanics(i, j, k)
    BY <2>5, FailuresQuiet
  <2>6. CASE AppendEntries(i, j, k)
    BY <2>6, AppendEntriesQuiet
  <2>7. CASE AppendEntriesReply(i, j, k)
    BY <2>7, AppendEntriesReplyQuiet
  <2> QED
    BY <1>3, <2>1, <2>2, <2>3, <2>4, <2>5, <2>6, <2>7 DEF CallStep
<1>4. ASSUME NEW i \in Server, NEW j \in Server, NEW k \in Lane,
             CallFailure(i, j, k)
      PROVE  ElectionInv'
  <2>1. CASE RequestVoteFails(i, j, k)
    BY <2>1, CallStepsQuiet
  <2>2. CASE AppendEntriesFails(i, j, k)
    BY <2>2, OtherStepsQuiet DEF AppendEntriesFails, cmVars, history
  <2> QED
    BY <1>4, <2>1, <2>2 DEF CallFailure
<1>5. ASSUME NEW i \in Server, NEW v \in Command, Submit(i, v)
      PROVE  ElectionInv'
  BY <1>5, SubmitQuiet
<1>6. ASSUME NEW i \in Server, ApplyCommitted(i)
      PROVE  ElectionInv'
  BY <1>6, OtherStepsQuiet DEF ApplyCommitted, cmVars, history
<1>7. ASSUME NEW i \in Server, Stop(i) \/ Restart(i)
      PROVE  ElectionInv'
  BY <1>7, FailuresQuiet
<1>8. CASE UNCHANGED vars
  BY <1>8, OtherStepsQuiet DEF vars, cmVars, history
<1> QED
  BY <1>1, <1>2, <1>3, <1>4, <1>5, <1>6, <1>7, <1>8 DEF Next

\* Election safety, for any number of CMs, elections, crashes and restarts: as
\* long as a CM's calls end before its election timer fires again, no two CMs
\* lead the same term at the same time, although startElection persists
\* neither the new term nor the vote and AppendEntries clears votedFor.
THEOREM ElectionSafe ==
    ASSUME Timely
    PROVE  Spec => []ElectionSafety
<1>1. Init => TypeOK /\ ElectionInv
  BY TypeInit, ElectionInit
<1>2. TypeOK /\ ElectionInv /\ [Next]_vars => TypeOK' /\ ElectionInv'
  BY TypeNext, ElectionNext
<1>3. TypeOK /\ ElectionInv => ElectionSafety
  BY ElectionInvImplies
<1> QED
  BY <1>1, <1>2, <1>3, PTL DEF Spec

-----------------------------------------------------------------------------
(* Terms *)

\* A term that a step replaces by a newer one, and no other, has grown.
LEMMA TermReplaced ==
    ASSUME TypeOK, NEW i \in Server, NEW t \in Nat, t >= currentTerm[i],
           currentTerm' = [currentTerm EXCEPT ![i] = t]
    PROVE  \A a \in Server : currentTerm'[a] >= currentTerm[a]
<1>1. currentTerm \in [Server -> Nat]
  BY DEF TypeOK
<1> QED
  BY <1>1

\* One step: only a restart makes a term smaller.
LEMMA TermStep ==
    ASSUME TypeOK, ElectionInv, Next
    PROVE  \A a \in Server : \/ currentTerm'[a] >= currentTerm[a]
                             \/ budget'.restarts < budget.restarts
<1>t. currentTerm \in [Server -> Nat]
  BY DEF TypeOK
<1> DEFINE P == \A a \in Server : currentTerm'[a] >= currentTerm[a]
<1>1. currentTerm' = currentTerm => P
  BY <1>t
<1>n. \A t \in Nat, u \in Nat : NewTerm(t, u) \in Nat /\ NewTerm(t, u) >= u
  BY DEF NewTerm
<1>2. ASSUME NEW i \in Server, NEW k \in Lane, StartElection(i, k)
      PROVE  P
  <2>1. currentTerm' = [currentTerm EXCEPT ![i] = currentTerm[i] + 1]
    BY <1>2, <1>t DEF StartElection
  <2>2. currentTerm[i] + 1 \in Nat /\ currentTerm[i] + 1 >= currentTerm[i]
    BY <1>t
  <2> QED
    BY <2>1, <2>2, TermReplaced
<1>3. ASSUME NEW i \in Server, NEW j \in Server, NEW k \in Lane,
             RequestVote(i, j, k)
      PROVE  P
  <2>1. rv[i][j][k] \in RVCall /\ currentTerm[j] \in Nat
    BY DEF TypeOK
  <2>2. rv[i][j][k].term \in Nat
    BY <2>1 DEF RVCall
  <2>3. currentTerm' = [currentTerm EXCEPT ![j] =
                            NewTerm(rv[i][j][k].term, currentTerm[j])]
    BY <1>3 DEF RequestVote
  <2> QED
    BY <1>n, <2>1, <2>2, <2>3, TermReplaced
<1>4. ASSUME NEW i \in Server, NEW j \in Server, NEW k \in Lane,
             AppendEntries(i, j, k)
      PROVE  P
  <2>1. ae[i][j][k] \in AECall /\ currentTerm[j] \in Nat
    BY DEF TypeOK
  <2>2. ae[i][j][k].term \in Nat
    BY <2>1 DEF AECall
  <2>3. currentTerm' = [currentTerm EXCEPT ![j] =
                            NewTerm(ae[i][j][k].term, currentTerm[j])]
    BY <1>4 DEF AppendEntries
  <2> QED
    BY <1>n, <2>1, <2>2, <2>3, TermReplaced
<1>5. ASSUME NEW i \in Server, NEW j \in Server, NEW k \in Lane,
             RequestVoteReply(i, j, k)
      PROVE  P
  <2>1. rv[i][j][k] \in RVCall /\ currentTerm[i] \in Nat
    BY DEF TypeOK
  <2>2. rv[i][j][k].rterm \in Nat
    BY <2>1 DEF RVCall
  <2>3. \/ currentTerm' = currentTerm
        \/ /\ state[i] = "Candidate" /\ rv[i][j][k].pc = "replied"
           /\ rv[i][j][k].rterm > rv[i][j][k].term
           /\ currentTerm' = [currentTerm EXCEPT ![i] = rv[i][j][k].rterm]
    BY <1>5 DEF RequestVoteReply, BecomeFollower
  <2>4. state[i] = "Candidate" /\ rv[i][j][k].pc = "replied"
            => rv[i][j][k].term = currentTerm[i]
    BY DEF ElectionInv, CallsCurrent, Pending
  <2> QED
    BY <1>1, <2>1, <2>2, <2>3, <2>4, TermReplaced
<1>6. ASSUME NEW i \in Server, NEW j \in Server, NEW k \in Lane,
             AppendEntriesReply(i, j, k)
      PROVE  P
  <2>1. ae[i][j][k] \in AECall /\ currentTerm[i] \in Nat
    BY DEF TypeOK
  <2>2. ae[i][j][k].rterm \in Nat
    BY <2>1 DEF AECall
  <2>3. \/ currentTerm' = currentTerm
        \/ /\ ae[i][j][k].rterm > currentTerm[i]
           /\ currentTerm' = [currentTerm EXCEPT ![i] = ae[i][j][k].rterm]
    BY <1>6 DEF AppendEntriesReply, BecomeFollower
  <2> QED
    BY <1>1, <2>1, <2>2, <2>3, TermReplaced
<1>7. ASSUME NEW i \in Server, Restart(i)
      PROVE  budget'.restarts < budget.restarts
  <2>1. budget \in [elections : Nat, rounds : Int, fails : Nat,
                    stops : Nat, restarts : Nat, log : Nat, lanes : SUBSET Lane]
    BY DEF TypeOK
  <2>2. budget' = [budget EXCEPT !.restarts = @ - 1]
    BY <1>7 DEF Restart, RestoreFromStorage
  <2> QED
    BY <2>1, <2>2
<1>8. ASSUME NEW i \in Server, NEW j \in Server, NEW k \in Lane,
             CallStep(i, j, k)
      PROVE  P
  BY <1>1, <1>3, <1>4, <1>5, <1>6, <1>8
     DEF CallStep, SendRequestVote, DeadRequestVote, SendAppendEntries,
         SendAppendEntriesPanics, DeadAppendEntries, cmVars
<1>9. ASSUME NEW i \in Server, NEW j \in Server, NEW k \in Lane,
             CallFailure(i, j, k)
      PROVE  P
  BY <1>1, <1>9
     DEF CallFailure, RequestVoteFails, AppendEntriesFails, cmVars
<1>10. ASSUME NEW i \in Server, NEW v \in Command, Submit(i, v)
       PROVE  P
  BY <1>1, <1>10 DEF Submit
<1>11. ASSUME NEW i \in Server, ApplyCommitted(i) \/ Stop(i)
       PROVE  P
  BY <1>1, <1>11 DEF ApplyCommitted, Stop, cmVars
<1>12. ASSUME NEW i \in Server, NEW k \in Lane, LeaderSendAEs(i, k)
       PROVE  P
  BY <1>1, <1>12 DEF LeaderSendAEs, cmVars
<1> QED
  BY <1>2, <1>7, <1>8, <1>9, <1>10, <1>11, <1>12 DEF Next

\* The term of a CM never decreases, whichever order requests and replies come
\* in, unless the CM is restarted: in particular the becomeFollower(reply.Term)
\* of startElection, which does not look at currentTerm, cannot lower it.
THEOREM TermsGrow ==
    ASSUME Timely
    PROVE  Spec => TermGrows
<1>1. Init => TypeOK /\ ElectionInv
  BY TypeInit, ElectionInit
<1>2. TypeOK /\ ElectionInv /\ [Next]_vars => TypeOK' /\ ElectionInv'
  BY TypeNext, ElectionNext
<1>3. TypeOK /\ ElectionInv /\ [Next]_vars =>
        [\A i \in Server : currentTerm'[i] >= currentTerm[i]
                             \/ budget'.restarts < budget.restarts]_vars
  BY TermStep
<1> QED
  BY <1>1, <1>2, <1>3, PTL DEF Spec, TermGrows

-----------------------------------------------------------------------------
(* The leader's indices *)

\* A call that is neither spawned nor built by the step: it is over, or carries
\* the same message as before; its conflictIndex is as it was or not beyond the
\* entry the message starts from.
AEFollows(c, d) ==
    \/ d = NoAE
    \/ /\ c.pc # "idle" /\ d.pc # "idle" /\ (Pending(d) => Pending(c))
       /\ d.term = c.term /\ d.prevLogIndex = c.prevLogIndex
       /\ d.prevLogTerm = c.prevLogTerm /\ d.entries = c.entries
       /\ d.conflictIndex = c.conflictIndex \/ d.conflictIndex <= c.prevLogIndex
    \/ d = c

AECallsFollow ==
    \A a, b \in Server, k \in Lane : AEFollows(ae[a][b][k], ae'[a][b][k])

\* One call that follows, among others that do not change.
LEMMA OneAEFollows ==
    ASSUME TypeOK, NEW i \in Server, NEW j \in Server, NEW k \in Lane, NEW d,
           ae' = [ae EXCEPT ![i][j][k] = d], AEFollows(ae[i][j][k], d)
    PROVE  AECallsFollow
<1>1. ae \in [Server -> [Server -> [Lane -> AECall]]]
  BY DEF TypeOK
<1> SUFFICES ASSUME NEW a \in Server, NEW b \in Server, NEW l \in Lane
             PROVE  AEFollows(ae[a][b][l], ae'[a][b][l])
  BY DEF AECallsFollow
<1>2. CASE a = i /\ b = j /\ l = k
  <2>1. ae'[a][b][l] = d
    BY <1>1, <1>2
  <2> QED
    BY <1>2, <2>1
<1>3. CASE ~(a = i /\ b = j /\ l = k)
  <2>1. ae'[a][b][l] = ae[a][b][l]
    BY <1>1, <1>3
  <2> QED
    BY <2>1 DEF AEFollows
<1> QED
  BY <1>2, <1>3

\* A call that is orphaned, or answered with an error, follows.
LEMMA OrphanAEFollows ==
    ASSUME NEW c \in AECall, c.pc # "idle"
    PROVE  /\ AEFollows(c, [c EXCEPT !.pc = "orphan"])
           /\ Pending(c) => AEFollows(c, [c EXCEPT !.pc = "replied"])
<1>1. ASSUME NEW p \in {"orphan", "replied"}, p = "replied" => Pending(c)
      PROVE  AEFollows(c, [c EXCEPT !.pc = p])
  <2> DEFINE d == [c EXCEPT !.pc = p]
  <2>1. /\ d.pc = p /\ d.term = c.term /\ d.prevLogIndex = c.prevLogIndex
        /\ d.prevLogTerm = c.prevLogTerm /\ d.entries = c.entries
        /\ d.conflictIndex = c.conflictIndex
    BY DEF AECall
  <2> HIDE DEF d
  <2>2. AEFollows(c, d)
    BY <1>1, <2>1 DEF AEFollows, Pending
  <2> QED
    BY <2>2 DEF d
<1> QED
  BY <1>1

\* Disconnecting a CM only ends or orphans calls.
LEMMA DisconnectedAEFollows ==
    ASSUME TypeOK, NEW i \in Server, ae' = Disconnected(ae, i, NoAE)
    PROVE  AECallsFollow
<1> SUFFICES ASSUME NEW a \in Server, NEW b \in Server, NEW k \in Lane
             PROVE  AEFollows(ae[a][b][k], ae'[a][b][k])
  BY DEF AECallsFollow
<1>1. ae[a][b][k] \in AECall
  BY DEF TypeOK
<1>2. \/ ae'[a][b][k] \in {ae[a][b][k], NoAE}
      \/ /\ ae[a][b][k].pc # "idle"
         /\ ae'[a][b][k] = [ae[a][b][k] EXCEPT !.pc = "orphan"]
  BY DEF Disconnected, Arrived
<1> QED
  BY <1>1, <1>2, OrphanAEFollows DEF AEFollows

\* The answer of a live CM: what it reports as conflictIndex is at most the
\* entry that the message starts from.
LEMMA AnswerFollows ==
    ASSUME TypeOK, NEW i \in Server, NEW j \in Server, NEW k \in Lane,
           AppendEntries(i, j, k)
    PROVE  AECallsFollow
<1> DEFINE c == ae[i][j][k]
           term == NewTerm(c.term, currentTerm[j])
           current == c.term = term
           success == current /\ PrevMatches(c, log[j])
           short == c.prevLogIndex > Len(log[j])
           ci == CASE ~current \/ success -> c.conflictIndex
                   [] current /\ ~success /\ short -> Len(log[j]) + 1
                   [] OTHER -> ConflictIndex(log[j], c.prevLogIndex)
           ct == CASE ~current \/ success -> c.conflictTerm
                   [] current /\ ~success /\ short -> -1
                   [] OTHER -> TermAt(log[j], c.prevLogIndex)
           d == [c EXCEPT !.pc = "replied", !.rterm = term,
                          !.success = success, !.conflictIndex = ci,
                          !.conflictTerm = ct]
<1>1. /\ ae' = [ae EXCEPT ![i][j][k] = IF c.pc = "orphan" THEN NoAE ELSE d]
      /\ Arrived(c)
  BY DEF AppendEntries
<1>2. c \in AECall /\ log[j] \in Seq(LogEntry)
  BY DEF TypeOK
<1>3. c.prevLogIndex \in Nat
  BY <1>2 DEF AECall
<1>4. ci = c.conflictIndex \/ ci <= c.prevLogIndex
  <2>1. CASE ~current \/ success
    BY <2>1
  <2>2. CASE current /\ ~success /\ short
    BY <1>2, <1>3, <2>2
  <2>3. CASE current /\ ~success /\ ~short
    <3>1. c.prevLogIndex > 0
      BY <1>3, <2>3 DEF PrevMatches
    <3>2. ci = ConflictIndex(log[j], c.prevLogIndex)
      BY <2>3
    <3> QED
      BY <1>2, <1>3, <3>1, <3>2, ConflictIndexType
  <2> QED
    BY <2>1, <2>2, <2>3
<1> HIDE DEF ci, ct, term, success
<1>5. /\ d.pc = "replied" /\ d.term = c.term /\ d.prevLogIndex = c.prevLogIndex
      /\ d.prevLogTerm = c.prevLogTerm /\ d.entries = c.entries
      /\ d.conflictIndex = ci
  BY <1>2 DEF AECall
<1>6. c.pc = "orphan" \/ AEFollows(c, d)
  <2>1. c.pc \in {"orphan", "sent"}
    BY <1>1 DEF Arrived
  <2> HIDE DEF c, d
  <2> QED
    BY <1>4, <1>5, <2>1 DEF AEFollows, Pending
<1>7. AEFollows(c, IF c.pc = "orphan" THEN NoAE ELSE d)
  <2> HIDE DEF d
  <2> QED
    BY <1>6 DEF AEFollows
<1> QED
  BY <1>1, <1>7, OneAEFollows

\* In every step but the two that spawn and build messages, the calls follow.
LEMMA CallsFollowNext ==
    ASSUME TypeOK, [Next]_vars
    PROVE  \/ AECallsFollow
           \/ \E i \in Server, k \in Lane : LeaderSendAEs(i, k)
           \/ \E i, j \in Server, k \in Lane : SendAppendEntries(i, j, k)
<1>0. ae' = ae => AECallsFollow
  BY DEF AECallsFollow, AEFollows
<1>1. ASSUME NEW i \in Server, NEW k \in Lane, StartElection(i, k)
      PROVE  AECallsFollow
  BY <1>0, <1>1 DEF StartElection
<1>2. ASSUME NEW i \in Server, NEW j \in Server, NEW k \in Lane,
             CallStep(i, j, k) \/ CallFailure(i, j, k),
             ~SendAppendEntries(i, j, k)
      PROVE  AECallsFollow
  <2> DEFINE c == ae[i][j][k]
  <2>0. c \in AECall
    BY DEF TypeOK
  <2>1. CASE SendRequestVote(i, j, k) \/ RequestVote(i, j, k)
                \/ DeadRequestVote(i, j, k) \/ RequestVoteReply(i, j, k)
                \/ RequestVoteFails(i, j, k)
    BY <1>0, <2>1 DEF SendRequestVote, RequestVote, DeadRequestVote,
                      RequestVoteReply, RequestVoteFails
  <2>2. CASE SendAppendEntriesPanics(i, j, k)
    BY <2>2, DisconnectedAEFollows DEF SendAppendEntriesPanics
  <2>3. CASE AppendEntries(i, j, k)
    BY <2>3, AnswerFollows
  <2>4. CASE DeadAppendEntries(i, j, k)
    <3> DEFINE d == [c EXCEPT !.pc = "replied"]
    <3>1. /\ ae' = [ae EXCEPT ![i][j][k] = IF c.pc = "orphan" THEN NoAE ELSE d]
          /\ c.pc \in {"sent", "orphan"}
      BY <2>4 DEF DeadAppendEntries, Arrived
    <3>2. AEFollows(c, IF c.pc = "orphan" THEN NoAE ELSE d)
      BY <2>0, <3>1, OrphanAEFollows DEF AEFollows, Pending
    <3> QED
      BY <3>1, <3>2, OneAEFollows
  <2>5. CASE AppendEntriesReply(i, j, k)
    <3>1. ae' = [ae EXCEPT ![i][j][k] = NoAE]
      BY <2>5 DEF AppendEntriesReply
    <3> QED
      BY <3>1, OneAEFollows DEF AEFollows
  <2>6. CASE AppendEntriesFails(i, j, k)
    <3>1. PICK d \in {NoAE, [c EXCEPT !.pc = "orphan"]} :
            CallFails(c, d, NoAE) /\ ae' = [ae EXCEPT ![i][j][k] = d]
      BY <2>6 DEF AppendEntriesFails
    <3>2. AEFollows(c, d)
      BY <2>0, <3>1, OrphanAEFollows DEF AEFollows, CallFails
    <3> QED
      BY <3>1, <3>2, OneAEFollows
  <2> QED
    BY <1>2, <2>1, <2>2, <2>3, <2>4, <2>5, <2>6 DEF CallStep, CallFailure
<1>3. ASSUME NEW i \in Server, NEW v \in Command, Submit(i, v)
      PROVE  AECallsFollow
  BY <1>0, <1>3 DEF Submit
<1>4. ASSUME NEW i \in Server, ApplyCommitted(i) \/ Stop(i) \/ Restart(i)
      PROVE  AECallsFollow
  BY <1>0, <1>4, DisconnectedAEFollows DEF ApplyCommitted, Stop, Restart
<1>5. CASE UNCHANGED vars
  BY <1>0, <1>5 DEF vars
<1> QED
  BY <1>1, <1>2, <1>3, <1>4, <1>5 DEF Next

\* A candidate has no AppendEntries of its own on the way: what Timely is for.
CandidateQuiet ==
    \A i, j \in Server, k \in Lane :
        state[i] = "Candidate" => ~Pending(ae[i][j][k])

\* What a leader has sent ends inside its log, and so does what it is told.
CallsInside ==
    \A i, j \in Server, k \in Lane :
        LET c == ae[i][j][k]
        IN  state[i] = "Leader" /\ Pending(c)
                => /\ c.prevLogIndex + Len(c.entries) <= Len(log[i])
                   /\ c.conflictIndex <= Len(log[i]) + 1

NextInv == CandidateQuiet /\ CallsInside /\ NextIndexInRange

\* What a step may do to a CM: make it a follower; or a candidate without
\* calls; or a leader, out of a candidate; or leave it leading a log that does
\* not get shorter.
LeadStep(a) ==
    \/ state'[a] \in {"Follower", "Dead"}
    \/ /\ state'[a] = "Candidate"
       /\ \/ state[a] = "Candidate"
          \/ \A b \in Server, k \in Lane : ~Pending(ae'[a][b][k])
    \/ /\ state'[a] = "Leader" /\ state[a] \in {"Candidate", "Leader"}
       /\ Len(log'[a]) >= Len(log[a])
       /\ \A b \in Server : b # a =>
            /\ nextIndex'[a][b] <= Len(log'[a]) + 1
            /\ matchIndex'[a][b] <= Len(log'[a])

\* A call that follows stays inside the log.
LEMMA InsideFollows ==
    ASSUME NEW c \in AECall, NEW d \in AECall, AEFollows(c, d), Pending(d),
           NEW m \in Nat, NEW n \in Nat, m <= n,
           Pending(c) => /\ c.prevLogIndex + Len(c.entries) <= m
                         /\ c.conflictIndex <= m + 1
    PROVE  /\ Pending(c)
           /\ d.prevLogIndex + Len(d.entries) <= n
           /\ d.conflictIndex <= n + 1
<1>1. d # NoAE
  BY DEF NoAE, Pending
<1>2. Pending(c)
  BY <1>1 DEF AEFollows
<1>3. /\ c.prevLogIndex \in Nat /\ Len(c.entries) \in Nat
      /\ c.conflictIndex \in Nat /\ d.conflictIndex \in Nat
  BY DEF AECall
<1>4. /\ d.prevLogIndex = c.prevLogIndex /\ d.entries = c.entries
      /\ d.conflictIndex = c.conflictIndex \/ d.conflictIndex <= c.prevLogIndex
  BY <1>1 DEF AEFollows
<1> QED
  BY <1>2, <1>3, <1>4

\* Such steps preserve the invariant when the calls follow.
LEMMA LeadStable ==
    ASSUME TypeOK, TypeOK', NextInv, AECallsFollow,
           \A a \in Server : LeadStep(a)
    PROVE  NextInv'
<1>t. \A a, b \in Server, k \in Lane :
        ae[a][b][k] \in AECall /\ ae'[a][b][k] \in AECall
  BY DEF TypeOK
<1>u. \A a \in Server : Len(log[a]) \in Nat /\ Len(log'[a]) \in Nat
  <2>1. \A a \in Server : log[a] \in Seq(LogEntry) /\ log'[a] \in Seq(LogEntry)
    BY DEF TypeOK
  <2> QED
    BY <2>1
<1>1. \A a, b \in Server, k \in Lane :
        Pending(ae'[a][b][k]) => Pending(ae[a][b][k])
  <2>1. ~Pending(NoAE)
    BY DEF NoAE, Pending
  <2> QED
    BY <2>1 DEF AECallsFollow, AEFollows
<1>2. CandidateQuiet'
  BY <1>1 DEF CandidateQuiet, NextInv, LeadStep
<1>3. CallsInside'
  <2> SUFFICES ASSUME NEW i \in Server, NEW j \in Server, NEW k \in Lane,
                      state'[i] = "Leader", Pending(ae'[i][j][k])
               PROVE  /\ ae'[i][j][k].prevLogIndex + Len(ae'[i][j][k].entries)
                            <= Len(log'[i])
                      /\ ae'[i][j][k].conflictIndex <= Len(log'[i]) + 1
    BY DEF CallsInside
  <2>1. Pending(ae[i][j][k])
    BY <1>1
  <2>2. state[i] = "Leader" /\ Len(log[i]) <= Len(log'[i])
    <3>1. LeadStep(i) /\ (state[i] = "Candidate" => ~Pending(ae[i][j][k]))
      BY DEF NextInv, CandidateQuiet
    <3>2. Len(log[i]) \in Nat /\ Len(log'[i]) \in Nat
      BY <1>u
    <3> QED
      BY <2>1, <3>1, <3>2 DEF LeadStep
  <2>3. /\ ae[i][j][k].prevLogIndex + Len(ae[i][j][k].entries) <= Len(log[i])
        /\ ae[i][j][k].conflictIndex <= Len(log[i]) + 1
    BY <2>1, <2>2 DEF NextInv, CallsInside
  <2>4. AEFollows(ae[i][j][k], ae'[i][j][k])
    BY DEF AECallsFollow
  <2>5. ae[i][j][k] \in AECall /\ ae'[i][j][k] \in AECall
    BY <1>t
  <2>6. Len(log[i]) \in Nat /\ Len(log'[i]) \in Nat
    BY <1>u
  <2>7. Pending(ae'[i][j][k])
    OBVIOUS
  <2> DEFINE c == ae[i][j][k]
             d == ae'[i][j][k]
             m == Len(log[i])
             n == Len(log'[i])
  <2>8. /\ c \in AECall /\ d \in AECall /\ AEFollows(c, d) /\ Pending(d)
        /\ m \in Nat /\ n \in Nat /\ m <= n
        /\ c.prevLogIndex + Len(c.entries) <= m /\ c.conflictIndex <= m + 1
    BY <2>2, <2>3, <2>4, <2>5, <2>6, <2>7
  <2> HIDE DEF c, d, m, n
  <2>9. d.prevLogIndex + Len(d.entries) <= n /\ d.conflictIndex <= n + 1
    BY <2>8, InsideFollows
  <2> QED
    BY <2>9 DEF d, n
<1>4. NextIndexInRange'
  BY DEF NextIndexInRange, LeadStep
<1> QED
  BY <1>2, <1>3, <1>4 DEF NextInv

\* A CM that keeps its state, log and indices takes such a step; and so does
\* one that leads on a longer log.
LEMMA UntouchedLeads ==
    ASSUME TypeOK, TypeOK', NextInv, NEW a \in Server, state'[a] = state[a],
           Len(log'[a]) >= Len(log[a]) \/ state[a] # "Leader",
           nextIndex'[a] = nextIndex[a], matchIndex'[a] = matchIndex[a]
    PROVE  LeadStep(a)
<1>0. /\ log[a] \in Seq(LogEntry) /\ log'[a] \in Seq(LogEntry)
      /\ state[a] \in CMState
  BY DEF TypeOK
<1>1. /\ Len(log[a]) \in Nat /\ Len(log'[a]) \in Nat
      /\ \A b \in Server : nextIndex[a][b] \in Nat /\ matchIndex[a][b] \in Nat
  <2>1. /\ nextIndex \in [Server -> [Server -> Nat \ {0}]]
        /\ matchIndex \in [Server -> [Server -> Nat]]
    BY DEF TypeOK
  <2> QED
    BY <1>0, <2>1
<1>2. CASE state[a] = "Leader"
  <2>1. \A b \in Server : b # a => /\ nextIndex[a][b] <= Len(log[a]) + 1
                                   /\ matchIndex[a][b] <= Len(log[a])
    BY <1>2 DEF NextInv, NextIndexInRange
  <2> QED
    BY <1>1, <1>2, <2>1 DEF LeadStep
<1>3. CASE state[a] # "Leader"
  BY <1>0, <1>1, <1>3 DEF LeadStep, CMState
<1> QED
  BY <1>2, <1>3

\* Where the leader resumes is inside its log, or where the follower said.
LEMMA ResumeInside ==
    ASSUME TypeOK, NEW i \in Server, NEW c \in AECall,
           c.conflictIndex <= Len(log[i]) + 1
    PROVE  Resume(i, c) <= Len(log[i]) + 1
<1> DEFINE same == {n \in 1..Len(log[i]) : log[i][n].term = c.conflictTerm}
<1>0. Len(log[i]) \in Nat
  BY DEF TypeOK
<1>1. CASE same = {}
  BY <1>1 DEF Resume
<1>2. CASE same # {}
  <2>0. same \in SUBSET (0..Len(log[i]))
    BY <1>0
  <2>1. Greatest(same) \in same
    <3> HIDE DEF same
    <3> QED
      BY <1>0, <1>2, <2>0, GreatestIn
  <2>2. Greatest(same) + 1 <= Len(log[i]) + 1
    BY <1>0, <2>1
  <2> HIDE DEF same
  <2>3. Resume(i, c) \in {Greatest(same) + 1, c.conflictIndex}
    BY DEF Resume, same
  <2> QED
    BY <2>2, <2>3
<1> QED
  BY <1>1, <1>2

\* A step that changes at most the terms, votes and states, and no state to
\* candidate or leader.
LEMMA IndicesUntouched ==
    ASSUME TypeOK, TypeOK', NextInv, UNCHANGED <<log, nextIndex, matchIndex>>,
           \A a \in Server : state'[a] \in {state[a], "Follower", "Dead"}
    PROVE  \A a \in Server : LeadStep(a)
<1> SUFFICES ASSUME NEW a \in Server
             PROVE  LeadStep(a)
  OBVIOUS
<1>1. CASE state'[a] \in {"Follower", "Dead"}
  BY <1>1 DEF LeadStep
<1>2. CASE state'[a] = state[a]
  <2>1. log[a] \in Seq(LogEntry)
    BY DEF TypeOK
  <2>2. Len(log'[a]) >= Len(log[a])
    BY <2>1
  <2> QED
    BY <1>2, <2>2, UntouchedLeads
<1> QED
  BY <1>1, <1>2

\* One CM changes its state.
LEMMA StateReplaced ==
    ASSUME TypeOK, NEW i \in Server, NEW x, state' = [state EXCEPT ![i] = x]
    PROVE  state'[i] = x /\ \A a \in Server : a # i => state'[a] = state[a]
BY DEF TypeOK

\* A spawned round is the round of a leader.
LEMMA SpawnedCalls ==
    ASSUME TypeOK, NEW i \in Server, NEW k \in Lane, LeaderSendAEs(i, k),
           NEW a \in Server, NEW b \in Server, NEW l \in Lane
    PROVE  \/ ae'[a][b][l] \in {ae[a][b][l], NoAE}
           \/ /\ a = i /\ b # i
              /\ ae'[a][b][l] = [NoAE EXCEPT !.pc = "spawned",
                                             !.term = currentTerm[i]]
<1> DEFINE s == [NoAE EXCEPT !.pc = "spawned", !.term = currentTerm[i]]
<1>1. ae \in [Server -> [Server -> [Lane -> AECall]]]
  BY DEF TypeOK
<1>2. ae' = [ae EXCEPT ![i] = [x \in Server |->
                [ae[i][x] EXCEPT ![k] = IF x = i THEN NoAE ELSE s]]]
  BY <1>1 DEF LeaderSendAEs
<1> HIDE DEF s
<1>3. CASE a = i /\ l = k
  <2>1. ae'[a][b][l] = IF b = i THEN NoAE ELSE s
    BY <1>1, <1>2, <1>3
  <2> QED
    BY <1>3, <2>1 DEF s
<1>4. CASE a = i /\ l # k
  <2>1. ae'[a][b][l] = ae[a][b][l]
    BY <1>1, <1>2, <1>4
  <2> QED
    BY <2>1
<1>5. CASE a # i
  <2>1. ae'[a][b][l] = ae[a][b][l]
    BY <1>1, <1>2, <1>5
  <2> QED
    BY <2>1
<1> QED
  BY <1>3, <1>4, <1>5

\* A leader spawns a round of calls, which have no content yet.
LEMMA SpawnedInside ==
    ASSUME TypeOK, TypeOK', NextInv, NEW i \in Server, NEW k \in Lane,
           LeaderSendAEs(i, k)
    PROVE  NextInv'
<1>1. UNCHANGED <<state, log, nextIndex, matchIndex>> /\ state[i] = "Leader"
  BY DEF LeaderSendAEs, cmVars, leaderVars
<1> DEFINE s == [NoAE EXCEPT !.pc = "spawned", !.term = currentTerm[i]]
<1>2. \A a, b \in Server, l \in Lane :
            \/ ae'[a][b][l] \in {ae[a][b][l], NoAE}
            \/ a = i /\ b # i /\ ae'[a][b][l] = s
  BY SpawnedCalls
<1>3. /\ ~Pending(NoAE)
      /\ s.prevLogIndex = 0 /\ s.entries = <<>> /\ s.conflictIndex = 1
  BY DEF NoAE, Pending
<1> HIDE DEF s
<1>4. CandidateQuiet'
  BY <1>1, <1>2, <1>3 DEF NextInv, CandidateQuiet
<1>5. CallsInside'
  <2> SUFFICES ASSUME NEW a \in Server, NEW b \in Server, NEW l \in Lane,
                      state[a] = "Leader", Pending(ae'[a][b][l])
               PROVE  /\ ae'[a][b][l].prevLogIndex + Len(ae'[a][b][l].entries)
                            <= Len(log[a])
                      /\ ae'[a][b][l].conflictIndex <= Len(log[a]) + 1
    BY <1>1 DEF CallsInside
  <2>1. Len(log[a]) \in Nat
    <3>1. log[a] \in Seq(LogEntry)
      BY DEF TypeOK
    <3> QED
      BY <3>1
  <2>2. CASE ae'[a][b][l] = ae[a][b][l]
    BY <2>2 DEF NextInv, CallsInside
  <2>3. CASE ae'[a][b][l] = s
    BY <1>3, <2>1, <2>3
  <2> QED
    BY <1>2, <1>3, <2>2, <2>3
<1>6. NextIndexInRange'
  BY <1>1 DEF NextInv, NextIndexInRange
<1> QED
  BY <1>4, <1>5, <1>6 DEF NextInv

\* The message that is built is the rest of the log.
LEMMA BuiltMessage ==
    ASSUME TypeOK, NEW i \in Server, NEW j \in Server, NEW k \in Lane,
           SendAppendEntries(i, j, k)
    PROVE  \E d \in AECall :
             /\ ae' = [ae EXCEPT ![i][j][k] = d]
             /\ ae[i][j][k].pc = "spawned" /\ d.pc = "sent"
             /\ d.term = ae[i][j][k].term
             /\ d.prevLogIndex = nextIndex[i][j] - 1
             /\ d.prevLogIndex \in 0..Len(log[i])
             /\ d.prevLogTerm = TermAt(log[i], d.prevLogIndex)
             /\ d.entries = SubSeq(log[i], d.prevLogIndex + 1, Len(log[i]))
             /\ d.conflictIndex = ae[i][j][k].conflictIndex
             /\ d.leaderCommit = commitIndex[i]
             /\ d.success = ae[i][j][k].success
<1> DEFINE c == ae[i][j][k]
           prev == nextIndex[i][j] - 1
           ptm == TermAt(log[i], prev)
           es == SubSeq(log[i], prev + 1, Len(log[i]))
           lc == commitIndex[i]
           d == [c EXCEPT !.pc = "sent", !.prevLogIndex = prev,
                          !.prevLogTerm = ptm, !.entries = es,
                          !.leaderCommit = lc]
<1>1. c \in AECall /\ log[i] \in Seq(LogEntry)
  BY DEF TypeOK
<1>2. nextIndex[i][j] \in Nat \ {0} /\ lc \in Nat
  <2>1. /\ nextIndex \in [Server -> [Server -> Nat \ {0}]]
        /\ commitIndex \in [Server -> Nat]
    BY DEF TypeOK
  <2> QED
    BY <2>1
<1>3. c.pc = "spawned" /\ prev <= Len(log[i])
  BY DEF SendAppendEntries
<1>4. ae' = [ae EXCEPT ![i][j][k] = d]
  BY DEF SendAppendEntries
<1>5. Len(log[i]) \in Nat
  BY <1>1
<1>6. prev \in 0..Len(log[i]) /\ prev \in Nat /\ prev + 1 \in Nat /\ prev + 1 > 0
  BY <1>2, <1>3, <1>5
<1> HIDE DEF c, prev, lc
<1>7. ptm \in Int /\ es \in Seq(LogEntry)
  BY <1>1, <1>5, <1>6, TermAtType, SubLog
<1> HIDE DEF ptm, es
<1>8. d \in AECall
  BY <1>1, <1>2, <1>6, <1>7 DEF AECall, CallPC
<1>9. /\ d.pc = "sent" /\ d.term = c.term /\ d.prevLogIndex = prev
      /\ d.prevLogTerm = ptm /\ d.entries = es
      /\ d.conflictIndex = c.conflictIndex
      /\ d.leaderCommit = lc /\ d.success = c.success
  BY <1>1 DEF AECall
<1> HIDE DEF d
<1>10. /\ ae' = [ae EXCEPT ![i][j][k] = d]
       /\ c.pc = "spawned" /\ d.pc = "sent" /\ d.term = c.term
       /\ d.prevLogIndex = nextIndex[i][j] - 1
       /\ d.prevLogIndex \in 0..Len(log[i])
       /\ d.prevLogTerm = TermAt(log[i], d.prevLogIndex)
       /\ d.entries = SubSeq(log[i], d.prevLogIndex + 1, Len(log[i]))
       /\ d.conflictIndex = c.conflictIndex
       /\ d.leaderCommit = commitIndex[i] /\ d.success = c.success
  BY <1>3, <1>4, <1>6, <1>9 DEF prev, ptm, es, lc
<1> QED
  BY <1>8, <1>10 DEF c

LEMMA BuiltInside ==
    ASSUME TypeOK, TypeOK', NextInv, NEW i \in Server, NEW j \in Server,
           NEW k \in Lane, SendAppendEntries(i, j, k)
    PROVE  NextInv'
<1>1. PICK d \in AECall :
        /\ ae' = [ae EXCEPT ![i][j][k] = d]
        /\ ae[i][j][k].pc = "spawned"
        /\ d.prevLogIndex \in 0..Len(log[i])
        /\ d.entries = SubSeq(log[i], d.prevLogIndex + 1, Len(log[i]))
        /\ d.conflictIndex = ae[i][j][k].conflictIndex
  BY BuiltMessage
<1>2. UNCHANGED <<state, log, nextIndex, matchIndex>>
  BY DEF SendAppendEntries, cmVars, leaderVars
<1>3. log[i] \in Seq(LogEntry) /\ Len(log[i]) \in Nat
  <2>1. log[i] \in Seq(LogEntry)
    BY DEF TypeOK
  <2> QED
    BY <2>1
<1>4. d.prevLogIndex + Len(d.entries) <= Len(log[i])
  <2> DEFINE p == d.prevLogIndex
  <2>1. p + 1 \in Nat /\ p \in 0..Len(log[i])
    BY <1>1, <1>3
  <2> HIDE DEF p
  <2>2. \A x \in (p + 1)..Len(log[i]) : log[i][x] \in LogEntry
    BY <1>3, <2>1, ElementOfSeq
  <2>3. Len(SubSeq(log[i], p + 1, Len(log[i])))
            = IF p + 1 <= Len(log[i]) THEN Len(log[i]) - (p + 1) + 1 ELSE 0
    BY <1>3, <2>1, <2>2, SubSeqProperties
  <2>4. p + Len(SubSeq(log[i], p + 1, Len(log[i]))) <= Len(log[i])
    BY <1>3, <2>1, <2>3
  <2> QED
    BY <1>1, <2>4 DEF p
<1>5. Pending(ae[i][j][k])
  BY <1>1 DEF Pending
<1>6. ASSUME NEW a \in Server, NEW b \in Server, NEW l \in Lane
      PROVE  \/ ae'[a][b][l] = ae[a][b][l]
             \/ a = i /\ b = j /\ l = k /\ ae'[a][b][l] = d
  <2>1. ae \in [Server -> [Server -> [Lane -> AECall]]]
    BY DEF TypeOK
  <2> QED
    BY <1>1, <2>1
<1>7. CandidateQuiet'
  BY <1>2, <1>5, <1>6 DEF NextInv, CandidateQuiet
<1>8. CallsInside'
  <2> SUFFICES ASSUME NEW a \in Server, NEW b \in Server, NEW l \in Lane,
                      state[a] = "Leader", Pending(ae'[a][b][l])
               PROVE  /\ ae'[a][b][l].prevLogIndex + Len(ae'[a][b][l].entries)
                            <= Len(log[a])
                      /\ ae'[a][b][l].conflictIndex <= Len(log[a]) + 1
    BY <1>2 DEF CallsInside
  <2>1. CASE ae'[a][b][l] = ae[a][b][l]
    BY <2>1 DEF NextInv, CallsInside
  <2>2. CASE a = i /\ b = j /\ l = k /\ ae'[a][b][l] = d
    <3>1. ae[i][j][k].conflictIndex <= Len(log[i]) + 1
      BY <1>5, <2>2 DEF NextInv, CallsInside
    <3> QED
      BY <1>1, <1>4, <2>2, <3>1
  <2> QED
    BY <1>6, <2>1, <2>2
<1>9. NextIndexInRange'
  BY <1>2 DEF NextInv, NextIndexInRange
<1> QED
  BY <1>7, <1>8, <1>9 DEF NextInv

\* CM i changes its state as LeadStep says, no other CM is touched.
LEMMA OneLeads ==
    ASSUME TypeOK, TypeOK', NextInv, NEW i \in Server, LeadStep(i),
           \A a \in Server : a # i =>
                /\ state'[a] = state[a] /\ log'[a] = log[a]
                /\ nextIndex'[a] = nextIndex[a] /\ matchIndex'[a] = matchIndex[a]
    PROVE  \A a \in Server : LeadStep(a)
<1> SUFFICES ASSUME NEW a \in Server, a # i
             PROVE  LeadStep(a)
  OBVIOUS
<1>1. log[a] \in Seq(LogEntry)
  BY DEF TypeOK
<1>2. Len(log'[a]) >= Len(log[a])
  BY <1>1
<1> QED
  BY <1>2, UntouchedLeads

\* A candidate that wins starts at the end of its log.
LEMMA ReplyLeads ==
    ASSUME TypeOK, TypeOK', NextInv, NEW i \in Server, NEW j \in Server,
           NEW k \in Lane, RequestVoteReply(i, j, k)
    PROVE  \A a \in Server : LeadStep(a)
<1>1. log' = log
  BY DEF RequestVoteReply
<1>2. CASE UNCHANGED leaderVars /\ state' \in {state, [state EXCEPT ![i] = "Follower"]}
  <2>1. \A a \in Server : state'[a] \in {state[a], "Follower", "Dead"}
    BY <1>2 DEF TypeOK
  <2> QED
    BY <1>1, <1>2, <2>1, IndicesUntouched DEF leaderVars
<1>3. CASE StartLeader(i) /\ state[i] = "Candidate"
  <2>1. /\ state' = [state EXCEPT ![i] = "Leader"]
        /\ nextIndex' = [nextIndex EXCEPT ![i] = [b \in Server |-> Len(log[i]) + 1]]
        /\ matchIndex' = [matchIndex EXCEPT ![i] = [b \in Server |-> 0]]
    BY <1>3 DEF StartLeader
  <2>2. log[i] \in Seq(LogEntry)
    BY DEF TypeOK
  <2>3. Len(log[i]) \in Nat
    BY <2>2
  <2>4. /\ state'[i] = "Leader"
        /\ nextIndex'[i] = [b \in Server |-> Len(log[i]) + 1]
        /\ matchIndex'[i] = [b \in Server |-> 0]
        /\ \A a \in Server : a # i =>
                /\ state'[a] = state[a] /\ log'[a] = log[a]
                /\ nextIndex'[a] = nextIndex[a] /\ matchIndex'[a] = matchIndex[a]
    BY <1>1, <2>1 DEF TypeOK
  <2>5. LeadStep(i)
    BY <1>1, <1>3, <2>3, <2>4 DEF LeadStep
  <2> QED
    BY <2>4, <2>5, OneLeads
<1> QED
  BY <1>2, <1>3 DEF RequestVoteReply, BecomeFollower, CountsVote

\* A leader that handles a reply of its own time stays inside its log.
LEMMA AnswerLeads ==
    ASSUME TypeOK, TypeOK', NextInv, NEW i \in Server, NEW j \in Server,
           NEW k \in Lane, AppendEntriesReply(i, j, k)
    PROVE  \A a \in Server : LeadStep(a)
<1> DEFINE c == ae[i][j][k]
           next == c.prevLogIndex + 1 + Len(c.entries)
           match == [matchIndex[i] EXCEPT ![j] = next - 1]
<1>1. log' = log /\ Pending(c)
  BY DEF AppendEntriesReply, Pending
<1>t. /\ state \in [Server -> CMState]
      /\ nextIndex \in [Server -> [Server -> Nat \ {0}]]
      /\ matchIndex \in [Server -> [Server -> Nat]]
  BY DEF TypeOK
<1>s. log[i] \in Seq(LogEntry) /\ c \in AECall
  <2>1. log \in [Server -> Seq(LogEntry)]
    BY DEF TypeOK
  <2>2. ae \in [Server -> [Server -> [Lane -> AECall]]]
    BY DEF TypeOK
  <2>3. log[i] \in Seq(LogEntry)
    BY <2>1
  <2> QED
    BY <2>2, <2>3
<1>u. Len(log[i]) \in Nat /\ c.prevLogIndex \in Nat /\ Len(c.entries) \in Nat
  BY <1>s, AEFields
<1>2. CASE UNCHANGED leaderVars /\ state' \in {state, [state EXCEPT ![i] = "Follower"]}
  <2>1. \A a \in Server : state'[a] \in {state[a], "Follower", "Dead"}
    BY <1>t, <1>2
  <2> QED
    BY <1>1, <1>2, <2>1, IndicesUntouched DEF leaderVars
<1>3. CASE /\ state[i] = "Leader" /\ state' = state
           /\ \/ /\ nextIndex' = [nextIndex EXCEPT ![i][j] = next]
                 /\ matchIndex' = [matchIndex EXCEPT ![i] = match]
              \/ /\ nextIndex' = [nextIndex EXCEPT ![i][j] = Resume(i, c)]
                 /\ matchIndex' = matchIndex
  <2>1. /\ c.prevLogIndex + Len(c.entries) <= Len(log[i])
        /\ c.conflictIndex <= Len(log[i]) + 1
    BY <1>1, <1>3 DEF NextInv, CallsInside
  <2>2. Resume(i, c) <= Len(log[i]) + 1
    BY <1>s, <2>1, ResumeInside
  <2>3. next <= Len(log[i]) + 1 /\ next - 1 <= Len(log[i])
    <3> DEFINE p == c.prevLogIndex
               e == Len(c.entries)
    <3>1. p \in Nat /\ e \in Nat /\ p + e <= Len(log[i]) /\ next = p + 1 + e
      BY <1>u, <2>1
    <3> HIDE DEF p, e, next
    <3> QED
      BY <1>u, <3>1
  <2> HIDE DEF next
  <2>4. \A b \in Server : b # i => /\ nextIndex[i][b] <= Len(log[i]) + 1
                                   /\ matchIndex[i][b] <= Len(log[i])
    BY <1>3 DEF NextInv, NextIndexInRange
  <2>5. /\ \A b \in Server : nextIndex'[i][b] \in {nextIndex[i][b], next, Resume(i, c)}
        /\ \A b \in Server : matchIndex'[i][b] \in {matchIndex[i][b], next - 1}
        /\ \A a \in Server : a # i =>
                nextIndex'[a] = nextIndex[a] /\ matchIndex'[a] = matchIndex[a]
    <3> HIDE DEF c
    <3> QED
      BY <1>t, <1>3
  <2>6. /\ \A b \in Server : b # i => nextIndex'[i][b] <= Len(log[i]) + 1
        /\ \A b \in Server : b # i => matchIndex'[i][b] <= Len(log[i])
    BY <2>2, <2>3, <2>4, <2>5
  <2>7. LeadStep(i)
    BY <1>1, <1>3, <1>u, <2>6 DEF LeadStep
  <2> QED
    BY <1>1, <1>3, <2>5, <2>7, OneLeads
<1> QED
  BY <1>2, <1>3 DEF AppendEntriesReply, BecomeFollower, Relevant

\* A CM whose log an AppendEntries changes is a follower then.
LEMMA HandlerLeads ==
    ASSUME TypeOK, TypeOK', NextInv, NEW i \in Server, NEW j \in Server,
           NEW k \in Lane, AppendEntries(i, j, k)
    PROVE  \A a \in Server : LeadStep(a)
<1>t. state \in [Server -> CMState] /\ log \in [Server -> Seq(LogEntry)]
  BY DEF TypeOK
<1>1. UNCHANGED <<nextIndex, matchIndex>>
  BY DEF AppendEntries, leaderVars
<1>2. \E x, y : state' = [state EXCEPT ![j] = x] /\ log' = [log EXCEPT ![j] = y]
  BY DEF AppendEntries
<1>3. \A a \in Server : a # j => state'[a] = state[a] /\ log'[a] = log[a]
  BY <1>t, <1>2
<1>4. LeadStep(j)
  <2>1. \/ state'[j] = "Follower"
        \/ state'[j] = state[j] /\ log'[j] = log[j]
    BY <1>t DEF AppendEntries
  <2>2. CASE state'[j] = state[j] /\ log'[j] = log[j]
    <3>1. log[j] \in Seq(LogEntry)
      BY <1>t
    <3>2. Len(log'[j]) >= Len(log[j])
      BY <2>2, <3>1
    <3> QED
      BY <1>1, <2>2, <3>2, UntouchedLeads
  <2> QED
    BY <2>1, <2>2 DEF LeadStep
<1> QED
  BY <1>1, <1>3, <1>4, OneLeads

\* Every step treats every CM as LeadStep says, but for the two that spawn and
\* build messages.
LEMMA LeadStepNext ==
    ASSUME Timely, TypeOK, TypeOK', NextInv, [Next]_vars
    PROVE  \/ \A a \in Server : LeadStep(a)
           \/ \E i \in Server, k \in Lane : LeaderSendAEs(i, k)
           \/ \E i, j \in Server, k \in Lane : SendAppendEntries(i, j, k)
<1> USE DEF cmVars, leaderVars
<1>t. state \in [Server -> CMState] /\ log \in [Server -> Seq(LogEntry)]
  BY DEF TypeOK
<1> DEFINE L == \A a \in Server : LeadStep(a)
<1>0. (UNCHANGED <<log, nextIndex, matchIndex>>
        /\ \A a \in Server : state'[a] \in {state[a], "Follower", "Dead"}) => L
  BY IndicesUntouched
<1>1. ASSUME NEW i \in Server, NEW k \in Lane, StartElection(i, k)
      PROVE  L
  <2>1. state' = [state EXCEPT ![i] = "Candidate"]
        /\ UNCHANGED <<log, nextIndex, matchIndex, ae>>
        /\ \A b \in Server, l \in Lane : ~Pending(ae[i][b][l])
    BY <1>1 DEF StartElection
  <2>2. /\ state'[i] = "Candidate"
        /\ \A a \in Server : a # i => state'[a] = state[a]
    BY <2>1, StateReplaced
  <2>3. LeadStep(i)
    BY <2>1, <2>2 DEF LeadStep
  <2> QED
    BY <2>1, <2>2, <2>3, OneLeads
<1>2. ASSUME NEW i \in Server, NEW j \in Server, NEW k \in Lane,
             CallStep(i, j, k) \/ CallFailure(i, j, k),
             ~SendAppendEntries(i, j, k)
      PROVE  L
  <2>1. CASE SendRequestVote(i, j, k) \/ DeadRequestVote(i, j, k)
                \/ DeadAppendEntries(i, j, k) \/ RequestVoteFails(i, j, k)
                \/ AppendEntriesFails(i, j, k)
    BY <1>0, <2>1 DEF SendRequestVote, DeadRequestVote, DeadAppendEntries,
                      RequestVoteFails, AppendEntriesFails
  <2>2. CASE RequestVote(i, j, k) \/ SendAppendEntriesPanics(i, j, k)
    <3>1. /\ UNCHANGED <<log, nextIndex, matchIndex>>
          /\ \E a \in Server :
                state' \in {[state EXCEPT ![a] = "Follower"], state,
                            [state EXCEPT ![a] = "Dead"]}
      <4>1. CASE RequestVote(i, j, k)
        <5>1. UNCHANGED <<log, nextIndex, matchIndex>>
          BY <4>1 DEF RequestVote
        <5>2. \/ state' = [state EXCEPT ![j] = "Follower"]
              \/ state' = [state EXCEPT ![j] = state[j]]
          BY <4>1 DEF RequestVote
        <5>3. [state EXCEPT ![j] = state[j]] = state
          BY <1>t
        <5> QED
          BY <5>1, <5>2, <5>3
      <4> QED
        BY <2>2, <4>1 DEF SendAppendEntriesPanics
    <3>2. \A a \in Server : state'[a] \in {state[a], "Follower", "Dead"}
      BY <1>t, <3>1
    <3> QED
      BY <1>0, <3>1, <3>2
  <2>3. CASE RequestVoteReply(i, j, k)
    BY <2>3, ReplyLeads
  <2>4. CASE AppendEntries(i, j, k)
    BY <2>4, HandlerLeads
  <2>5. CASE AppendEntriesReply(i, j, k)
    BY <2>5, AnswerLeads
  <2> QED
    BY <1>2, <2>1, <2>2, <2>3, <2>4, <2>5 DEF CallStep, CallFailure
<1>3. ASSUME NEW i \in Server, NEW v \in Command, Submit(i, v)
      PROVE  L
  <2>1. /\ UNCHANGED <<state, nextIndex, matchIndex>>
        /\ log' = [log EXCEPT ![i] =
                Append(log[i], [term |-> currentTerm[i], command |-> v])]
    BY <1>3 DEF Submit
  <2>2. ASSUME NEW a \in Server
        PROVE  Len(log'[a]) >= Len(log[a])
    <3>1. log[a] \in Seq(LogEntry) /\ Len(log[a]) \in Nat
      BY <1>t
    <3> QED
      BY <1>t, <2>1, <3>1
  <2> QED
    BY <2>1, <2>2, UntouchedLeads
<1>4. ASSUME NEW i \in Server, ApplyCommitted(i) \/ Stop(i)
      PROVE  L
  <2>1. /\ UNCHANGED <<log, nextIndex, matchIndex>>
        /\ state' \in {state, [state EXCEPT ![i] = "Dead"]}
    BY <1>4 DEF ApplyCommitted, Stop
  <2>2. \A a \in Server : state'[a] \in {state[a], "Follower", "Dead"}
    BY <1>t, <2>1
  <2> QED
    BY <1>0, <2>1, <2>2
<1>5. ASSUME NEW i \in Server, Restart(i)
      PROVE  L
  <2>1. /\ state' = [state EXCEPT ![i] = "Follower"]
        /\ log' = [log EXCEPT ![i] = storage[i].log]
        /\ matchIndex' = [matchIndex EXCEPT ![i] = [j \in Server |-> 0]]
        /\ nextIndex' = [nextIndex EXCEPT ![i] = [j \in Server |-> 1]]
    BY <1>5 DEF Restart, RestoreFromStorage
  <2>2. /\ state'[i] = "Follower"
        /\ \A a \in Server : a # i =>
                /\ state'[a] = state[a] /\ log'[a] = log[a]
                /\ nextIndex'[a] = nextIndex[a] /\ matchIndex'[a] = matchIndex[a]
    BY <1>t, <2>1 DEF TypeOK
  <2>3. LeadStep(i)
    BY <2>2 DEF LeadStep
  <2> QED
    BY <2>2, <2>3, OneLeads
<1>6. ASSUME UNCHANGED vars
      PROVE  L
  <2>1. UNCHANGED <<state, log, nextIndex, matchIndex>>
    BY <1>6 DEF vars
  <2> QED
    BY <1>0, <2>1
<1> HIDE DEF L
<1>7. \/ L
      \/ \E i \in Server, k \in Lane : LeaderSendAEs(i, k)
      \/ \E i, j \in Server, k \in Lane : SendAppendEntries(i, j, k)
  BY <1>1, <1>2, <1>3, <1>4, <1>5, <1>6 DEF Next
<1> QED
  BY <1>7 DEF L

\* NextInv is inductive when calls are timely.
LEMMA NextInvNext ==
    ASSUME Timely, TypeOK, TypeOK', NextInv, [Next]_vars
    PROVE  NextInv'
BY LeadStepNext, LeadStable, CallsFollowNext, SpawnedInside, BuiltInside

LEMMA NextInvInit == Init => NextInv
<1> SUFFICES ASSUME Init
             PROVE  NextInv
  OBVIOUS
<1>1. \A i \in Server : state[i] = "Follower"
  BY DEF Init
<1> QED
  BY <1>1 DEF NextInv, CandidateQuiet, CallsInside, NextIndexInRange

\* A leader's nextIndex and matchIndex never leave its log, however late and in
\* whatever order its replies are handled: as long as it leads, leaderSendAEs
\* does not slice beyond the end.
THEOREM IndicesInRange ==
    ASSUME Timely
    PROVE  Spec => []NextIndexInRange
<1>1. Init => TypeOK /\ NextInv
  BY TypeInit, NextInvInit
<1>2. TypeOK /\ NextInv /\ [Next]_vars => TypeOK' /\ NextInv'
  BY TypeNext, NextInvNext
<1>3. NextInv => NextIndexInRange
  BY DEF NextInv
<1> QED
  BY <1>1, <1>2, <1>3, PTL DEF Spec

-----------------------------------------------------------------------------
(* One leader per term *)

\* A majority has voted for CM i in term t, not counting i itself.
Backed(i, t) ==
    \E Q \in SUBSET Server :
        IsQuorum(Q) /\ \A v \in Q \ {i} : <<v, i, t>> \in granted

\* Whoever was ever elected had a majority behind it.
ElectedBacked == \A i \in Server, t \in Nat : <<i, t>> \in elected => Backed(i, t)

\* A leader is among those elected, and so is whoever calls AppendEntries,
\* which nobody does to itself.
LeaderKnown ==
    \A i \in Server : state[i] = "Leader" => <<i, currentTerm[i]>> \in elected

CallsElected ==
    \A i, j \in Server, k \in Lane :
        ae[i][j][k].pc # "idle" => i # j /\ <<i, ae[i][j][k].term>> \in elected

\* Storage has an older term, or the present one and then the same vote.
StorageBehind ==
    \A i \in Server :
        /\ storage[i].currentTerm <= currentTerm[i]
        /\ storage[i].currentTerm = currentTerm[i]
                => storage[i].votedFor = votedFor[i]

\* CM i, which was elected in term t, votes for nobody else in it.
HoldsTerm(i, t) ==
    /\ \/ currentTerm[i] > t
       \/ currentTerm[i] = t /\ votedFor[i] = i /\ state[i] # "Candidate"
    /\ storage[i].currentTerm = t => storage[i].votedFor = i
    /\ \A h \in Server : <<i, h, t>> \notin granted

ElectedHold ==
    forgotten = {} =>
        \A i \in Server, t \in Nat : <<i, t>> \in elected => HoldsTerm(i, t)

LeadershipInv ==
    /\ ElectedBacked /\ LeaderKnown /\ CallsElected /\ StorageBehind
    /\ ElectedHold

\* What a step may do to the term, the vote and the storage of one CM.  It
\* stores them:
Stores(a) ==
    /\ storage'[a].currentTerm = currentTerm'[a]
    /\ storage'[a].votedFor = votedFor'[a]

\* It raises the term,
RaisesTerm(a) ==
    /\ currentTerm'[a] > currentTerm[a]
    /\ Stores(a) \/ storage'[a] = storage[a]

\* or keeps term and vote,
KeepsTerm(a) ==
    /\ currentTerm'[a] = currentTerm[a] /\ votedFor'[a] = votedFor[a]
    /\ state'[a] = "Candidate" => state[a] = "Candidate"
    /\ Stores(a) \/ storage'[a] = storage[a]

\* or votes,
TakesVote(a) ==
    /\ currentTerm'[a] = currentTerm[a] /\ votedFor[a] = Nil
    /\ state'[a] = state[a] /\ Stores(a)

\* or drops its vote because another leads the term,
StepsDown(a) ==
    /\ currentTerm'[a] = currentTerm[a]
    /\ state'[a] = "Follower" /\ Stores(a)
    /\ \E h \in Server : h # a /\ <<h, currentTerm[a]>> \in elected

\* or takes both from storage.
Restores(a) ==
    /\ currentTerm'[a] = storage[a].currentTerm
    /\ votedFor'[a] = storage[a].votedFor
    /\ state'[a] = "Follower" /\ storage'[a] = storage[a]
    /\ \A t \in Nat : <<a, t>> \in elected /\ t > storage[a].currentTerm
                        => forgotten' # {}

CMStep(a) ==
    RaisesTerm(a) \/ KeepsTerm(a) \/ TakesVote(a) \/ StepsDown(a) \/ Restores(a)

\* A vote is given in the voter's term, which is new to it or in which it has
\* voted for nobody else.
GrantStep ==
    /\ granted \subseteq granted'
    /\ \A a, h \in Server, t \in Nat :
        <<a, h, t>> \in granted' /\ <<a, h, t>> \notin granted =>
            /\ h # a /\ t = currentTerm'[a]
            /\ \/ currentTerm'[a] > currentTerm[a]
               \/ currentTerm'[a] = currentTerm[a] /\ votedFor[a] \in {Nil, h}

\* A candidate is elected in its term.
ElectStep ==
    /\ elected \subseteq elected'
    /\ \A i \in Server, t \in Nat :
        <<i, t>> \in elected' /\ <<i, t>> \notin elected =>
            /\ t = currentTerm[i] /\ state[i] = "Candidate" /\ state'[i] = "Leader"
            /\ UNCHANGED <<currentTerm, votedFor, storage, granted>>
    /\ \A i \in Server : state'[i] = "Leader" =>
            \/ state[i] = "Leader" /\ currentTerm'[i] = currentTerm[i]
            \/ /\ state[i] = "Candidate" /\ <<i, currentTerm'[i]>> \in elected'
               /\ UNCHANGED <<currentTerm, votedFor, storage, granted>>
    /\ forgotten \subseteq forgotten'

ElectionStep == GrantStep /\ ElectStep /\ \A a \in Server : CMStep(a)

\* Most steps give no vote and elect nobody.
LEMMA NoElectionStep ==
    ASSUME UNCHANGED <<elected, granted, forgotten>>,
           \A a \in Server : CMStep(a),
           \A a \in Server : state'[a] = "Leader" =>
                state[a] = "Leader" /\ currentTerm'[a] = currentTerm[a]
    PROVE  ElectionStep
BY DEF ElectionStep, GrantStep, ElectStep

\* A step that touches no CM's term, vote or storage, and makes no candidate
\* or leader.
LEMMA TermsUntouched ==
    ASSUME UNCHANGED <<currentTerm, votedFor, storage, elected, granted, forgotten>>,
           \A a \in Server : state'[a] \in {state[a], "Follower", "Dead"}
    PROVE  ElectionStep
<1>1. \A a \in Server : CMStep(a)
  BY DEF CMStep, KeepsTerm
<1>2. \A a \in Server : state'[a] = "Leader" =>
                state[a] = "Leader" /\ currentTerm'[a] = currentTerm[a]
  OBVIOUS
<1> QED
  BY <1>1, <1>2, NoElectionStep

\* A step of one CM.
LEMMA OneCMStep ==
    ASSUME NEW i \in Server, CMStep(i),
           \A a \in Server : a # i =>
                /\ state'[a] = state[a] /\ currentTerm'[a] = currentTerm[a]
                /\ votedFor'[a] = votedFor[a] /\ storage'[a] = storage[a]
    PROVE  \A a \in Server : CMStep(a)
BY DEF CMStep, KeepsTerm

\* A CM becomes a follower of a newer term.
LEMMA FollowerStep ==
    ASSUME TypeOK, NEW i \in Server, NEW t \in Nat, t > currentTerm[i],
           BecomeFollower(i, t), UNCHANGED <<storage, elected, granted, forgotten>>
    PROVE  ElectionStep
<1>1. storage' = [storage EXCEPT ![i] = storage[i]]
  BY DEF TypeOK
<1>2. /\ state'[i] = "Follower" /\ currentTerm'[i] = t
      /\ storage'[i] = storage[i]
      /\ \A a \in Server : a # i =>
            /\ state'[a] = state[a] /\ currentTerm'[a] = currentTerm[a]
            /\ votedFor'[a] = votedFor[a] /\ storage'[a] = storage[a]
  <2>1. /\ state' = [state EXCEPT ![i] = "Follower"]
        /\ currentTerm' = [currentTerm EXCEPT ![i] = t]
        /\ votedFor' = [votedFor EXCEPT ![i] = Nil]
    BY DEF BecomeFollower
  <2> QED
    BY <1>1, <2>1 DEF TypeOK
<1>3. CMStep(i)
  BY <1>2 DEF CMStep, RaisesTerm
<1>4. \A a \in Server : CMStep(a)
  BY <1>2, <1>3, OneCMStep
<1>5. \A a \in Server : state'[a] = "Leader" =>
                state[a] = "Leader" /\ currentTerm'[a] = currentTerm[a]
  BY <1>2
<1> QED
  BY <1>4, <1>5, NoElectionStep

\* CM j votes, or does not.
LEMMA VoteStep ==
    ASSUME TypeOK, ElectionInv, NEW i \in Server, NEW j \in Server,
           NEW k \in Lane, RequestVote(i, j, k)
    PROVE  ElectionStep
<1> DEFINE c == rv[i][j][k]
           newer == c.term > currentTerm[j]
           term == NewTerm(c.term, currentTerm[j])
           vote == IF newer THEN Nil ELSE votedFor[j]
           grants == GrantsVote(c, i, term, vote, log[j])
           newVote == IF grants THEN i ELSE vote
<1>1. /\ Arrived(c)
      /\ state' = [state EXCEPT ![j] = IF newer THEN "Follower" ELSE state[j]]
      /\ currentTerm' = [currentTerm EXCEPT ![j] = term]
      /\ votedFor' = [votedFor EXCEPT ![j] = newVote]
      /\ storage' = [storage EXCEPT ![j] = Persisted(term, newVote, log[j])]
      /\ granted' = IF grants THEN granted \cup {<<j, i, term>>} ELSE granted
      /\ UNCHANGED <<elected, forgotten>>
  BY DEF RequestVote
<1>2. c \in RVCall /\ currentTerm[j] \in Nat
  BY DEF TypeOK
<1>3. c.term \in Nat
  BY <1>2 DEF RVCall
<1>4. IF newer THEN term > currentTerm[j] ELSE term = currentTerm[j]
  BY <1>2, <1>3 DEF NewTerm
<1>5. i # j
  BY <1>1 DEF ElectionInv, RepliesHonest, Arrived
<1>6. grants => vote \in {Nil, i}
  BY DEF GrantsVote
<1> HIDE DEF c, newer, term, grants
<1>7. /\ state'[j] = (IF newer THEN "Follower" ELSE state[j])
      /\ currentTerm'[j] = term /\ votedFor'[j] = newVote
      /\ storage'[j].currentTerm = term /\ storage'[j].votedFor = newVote
      /\ \A a \in Server : a # j =>
            /\ state'[a] = state[a] /\ currentTerm'[a] = currentTerm[a]
            /\ votedFor'[a] = votedFor[a] /\ storage'[a] = storage[a]
  <2> HIDE DEF newVote
  <2> QED
    BY <1>1 DEF TypeOK, Persisted
<1>8. Stores(j)
  BY <1>7 DEF Stores
<1>9. CMStep(j)
  <2>1. CASE newer
    BY <1>4, <1>7, <1>8, <2>1 DEF CMStep, RaisesTerm
  <2>2. CASE ~newer /\ grants /\ votedFor[j] = Nil
    BY <1>4, <1>7, <1>8, <2>2 DEF CMStep, TakesVote
  <2>3. CASE ~newer /\ ~(grants /\ votedFor[j] = Nil)
    <3>1. newVote = votedFor[j]
      BY <1>6, <2>3
    <3> QED
      BY <1>4, <1>7, <1>8, <2>3, <3>1 DEF CMStep, KeepsTerm
  <2> QED
    BY <2>1, <2>2, <2>3
<1>10. \A a \in Server : CMStep(a)
  BY <1>7, <1>9, OneCMStep
<1>11. GrantStep
  <2>1. granted \subseteq granted'
    BY <1>1
  <2>2. ASSUME NEW a \in Server, NEW h \in Server, NEW t \in Nat,
               <<a, h, t>> \in granted', <<a, h, t>> \notin granted
        PROVE  /\ h # a /\ t = currentTerm'[a]
               /\ \/ currentTerm'[a] > currentTerm[a]
                  \/ currentTerm'[a] = currentTerm[a] /\ votedFor[a] \in {Nil, h}
    <3>1. grants /\ a = j /\ h = i /\ t = term
      BY <1>1, <2>2
    <3>2. CASE newer
      BY <1>4, <1>5, <1>7, <3>1, <3>2
    <3>3. CASE ~newer
      BY <1>4, <1>5, <1>6, <1>7, <3>1, <3>3
    <3> QED
      BY <3>2, <3>3
  <2> QED
    BY <2>1, <2>2 DEF GrantStep
<1>12. ElectStep
  <2>1. \A a \in Server : state'[a] = "Leader" =>
            state[a] = "Leader" /\ currentTerm'[a] = currentTerm[a]
    BY <1>4, <1>7
  <2> QED
    BY <1>1, <2>1 DEF ElectStep
<1> QED
  BY <1>10, <1>11, <1>12 DEF ElectionStep

\* CM j hears from a leader.
LEMMA AppendStep ==
    ASSUME TypeOK, CallsElected, NEW i \in Server, NEW j \in Server,
           NEW k \in Lane, AppendEntries(i, j, k)
    PROVE  ElectionStep
<1> DEFINE c == ae[i][j][k]
           term == NewTerm(c.term, currentTerm[j])
           current == c.term = term
           stepsDown == \/ c.term > currentTerm[j]
                        \/ current /\ state[j] # "Follower"
           vote == IF stepsDown THEN Nil ELSE votedFor[j]
           l == IF current /\ PrevMatches(c, log[j])
                THEN Merge(log[j], c.prevLogIndex, c.entries) ELSE log[j]
<1>1. /\ Arrived(c)
      /\ state' = [state EXCEPT ![j] = IF stepsDown THEN "Follower" ELSE state[j]]
      /\ currentTerm' = [currentTerm EXCEPT ![j] = term]
      /\ votedFor' = [votedFor EXCEPT ![j] = vote]
      /\ storage' = [storage EXCEPT ![j] = Persisted(term, vote, l)]
      /\ UNCHANGED <<elected, granted, forgotten>>
  BY DEF AppendEntries, history
<1>2. c \in AECall /\ currentTerm[j] \in Nat
  BY DEF TypeOK
<1>3. c.term \in Nat
  BY <1>2 DEF AECall
<1>4. IF c.term > currentTerm[j] THEN term > currentTerm[j]
      ELSE term = currentTerm[j]
  BY <1>2, <1>3 DEF NewTerm
<1>5. i # j /\ <<i, c.term>> \in elected
  BY <1>1 DEF CallsElected, Arrived
<1>6. stepsDown => \/ term > currentTerm[j]
                   \/ term = currentTerm[j] /\ c.term = currentTerm[j]
  BY <1>2, <1>3, <1>4
<1>7. ~stepsDown => term = currentTerm[j]
  BY <1>4
<1> HIDE DEF c, term, stepsDown, l
<1>8. /\ state'[j] = (IF stepsDown THEN "Follower" ELSE state[j])
      /\ currentTerm'[j] = term /\ votedFor'[j] = vote
      /\ storage'[j].currentTerm = term /\ storage'[j].votedFor = vote
      /\ \A a \in Server : a # j =>
            /\ state'[a] = state[a] /\ currentTerm'[a] = currentTerm[a]
            /\ votedFor'[a] = votedFor[a] /\ storage'[a] = storage[a]
  <2> HIDE DEF vote
  <2> QED
    BY <1>1 DEF TypeOK, Persisted
<1>9. Stores(j)
  BY <1>8 DEF Stores
<1>10. CMStep(j)
  <2>1. CASE term > currentTerm[j]
    BY <1>8, <1>9, <2>1 DEF CMStep, RaisesTerm
  <2>2. CASE stepsDown /\ term = currentTerm[j] /\ c.term = currentTerm[j]
    BY <1>5, <1>8, <1>9, <2>2 DEF CMStep, StepsDown
  <2>3. CASE ~stepsDown
    BY <1>7, <1>8, <1>9, <2>3 DEF CMStep, KeepsTerm
  <2> QED
    BY <1>6, <2>1, <2>2, <2>3
<1>11. \A a \in Server : CMStep(a)
  BY <1>8, <1>10, OneCMStep
<1>12. \A a \in Server : state'[a] = "Leader" =>
            state[a] = "Leader" /\ currentTerm'[a] = currentTerm[a]
  BY <1>7, <1>8
<1> QED
  BY <1>1, <1>11, <1>12, NoElectionStep

\* CM i counts a vote, and may win.
LEMMA CountStep ==
    ASSUME TypeOK, ElectionInv, NEW i \in Server, NEW j \in Server,
           NEW k \in Lane, RequestVoteReply(i, j, k)
    PROVE  ElectionStep
<1> DEFINE c == rv[i][j][k]
<1>1. UNCHANGED <<storage, granted, forgotten>> /\ c.pc = "replied"
  BY DEF RequestVoteReply
<1>2. CASE /\ state[i] = "Candidate" /\ c.rterm > c.term
           /\ BecomeFollower(i, c.rterm) /\ UNCHANGED elected
  <2>1. c.term = currentTerm[i]
    BY <1>1, <1>2 DEF ElectionInv, CallsCurrent, Pending
  <2>2. c \in RVCall
    BY DEF TypeOK
  <2>3. c.rterm \in Nat
    BY <2>2 DEF RVCall
  <2> QED
    BY <1>1, <1>2, <2>1, <2>3, FollowerStep
<1>3. CASE UNCHANGED <<state, currentTerm, votedFor, elected>>
  BY <1>1, <1>3, TermsUntouched
<1>4. CASE /\ state[i] = "Candidate" /\ StartLeader(i)
           /\ UNCHANGED <<currentTerm, votedFor>>
  <2>1. /\ state' = [state EXCEPT ![i] = "Leader"]
        /\ elected' = elected \cup {<<i, currentTerm[i]>>}
    BY <1>4 DEF StartLeader
  <2>2. state'[i] = "Leader" /\ \A a \in Server : a # i => state'[a] = state[a]
    BY <2>1, StateReplaced
  <2>3. \A a \in Server : CMStep(a)
    BY <1>1, <1>4, <2>2 DEF CMStep, KeepsTerm
  <2>4. GrantStep
    BY <1>1 DEF GrantStep
  <2>5. ElectStep
    BY <1>1, <1>4, <2>1, <2>2 DEF ElectStep
  <2> QED
    BY <2>3, <2>4, <2>5 DEF ElectionStep
<1> QED
  BY <1>2, <1>3, <1>4 DEF RequestVoteReply, CountsVote

\* Every step is one of these.
LEMMA ElectionStepNext ==
    ASSUME TypeOK, ElectionInv, CallsElected, [Next]_vars
    PROVE  ElectionStep
<1> USE DEF cmVars, history
<1>t. state \in [Server -> CMState]
  BY DEF TypeOK
<1>1. ASSUME NEW i \in Server, NEW k \in Lane, StartElection(i, k)
      PROVE  ElectionStep
  <2>1. /\ state' = [state EXCEPT ![i] = "Candidate"]
        /\ currentTerm' = [currentTerm EXCEPT ![i] = currentTerm[i] + 1]
        /\ votedFor' = [votedFor EXCEPT ![i] = i]
        /\ UNCHANGED <<storage, elected, granted, forgotten>>
    BY <1>1 DEF StartElection, TypeOK
  <2>2. currentTerm[i] + 1 > currentTerm[i]
    BY DEF TypeOK
  <2>3. /\ state'[i] = "Candidate" /\ currentTerm'[i] = currentTerm[i] + 1
        /\ \A a \in Server : a # i =>
            /\ state'[a] = state[a] /\ currentTerm'[a] = currentTerm[a]
            /\ votedFor'[a] = votedFor[a] /\ storage'[a] = storage[a]
    BY <2>1 DEF TypeOK
  <2>4. CMStep(i)
    BY <2>1, <2>2, <2>3 DEF CMStep, RaisesTerm
  <2>5. \A a \in Server : CMStep(a)
    BY <2>3, <2>4, OneCMStep
  <2>6. \A a \in Server : state'[a] = "Leader" =>
                state[a] = "Leader" /\ currentTerm'[a] = currentTerm[a]
    BY <2>3
  <2> QED
    BY <2>1, <2>5, <2>6, NoElectionStep
<1>2. ASSUME NEW i \in Server, NEW k \in Lane, LeaderSendAEs(i, k)
      PROVE  ElectionStep
  BY <1>2, TermsUntouched DEF LeaderSendAEs
<1>3. ASSUME NEW i \in Server, NEW j \in Server, NEW k \in Lane,
             CallStep(i, j, k) \/ CallFailure(i, j, k)
      PROVE  ElectionStep
  <2>1. CASE SendRequestVote(i, j, k) \/ DeadRequestVote(i, j, k)
                \/ SendAppendEntries(i, j, k) \/ DeadAppendEntries(i, j, k)
                \/ RequestVoteFails(i, j, k) \/ AppendEntriesFails(i, j, k)
    BY <2>1, TermsUntouched
       DEF SendRequestVote, DeadRequestVote, SendAppendEntries,
           DeadAppendEntries, RequestVoteFails, AppendEntriesFails
  <2>2. CASE RequestVote(i, j, k)
    BY <2>2, VoteStep
  <2>3. CASE RequestVoteReply(i, j, k)
    BY <2>3, CountStep
  <2>4. CASE SendAppendEntriesPanics(i, j, k)
    <3>1. /\ state' = [state EXCEPT ![i] = "Dead"]
          /\ UNCHANGED <<currentTerm, votedFor, storage, elected, granted, forgotten>>
      BY <2>4 DEF SendAppendEntriesPanics
    <3>2. \A a \in Server : state'[a] \in {state[a], "Follower", "Dead"}
      BY <1>t, <3>1
    <3> QED
      BY <3>1, <3>2, TermsUntouched
  <2>5. CASE AppendEntries(i, j, k)
    BY <2>5, AppendStep
  <2>6. CASE AppendEntriesReply(i, j, k)
    <3>1. UNCHANGED <<storage, elected, granted, forgotten>>
      BY <2>6 DEF AppendEntriesReply
    <3>2. ae[i][j][k] \in AECall
      BY DEF TypeOK
    <3>3. ae[i][j][k].rterm \in Nat
      BY <3>2 DEF AECall
    <3>4. \/ /\ ae[i][j][k].rterm > currentTerm[i]
             /\ BecomeFollower(i, ae[i][j][k].rterm)
          \/ UNCHANGED <<state, currentTerm, votedFor>>
      BY <2>6 DEF AppendEntriesReply
    <3> QED
      BY <3>1, <3>3, <3>4, FollowerStep, TermsUntouched
  <2> QED
    BY <1>3, <2>1, <2>2, <2>3, <2>4, <2>5, <2>6 DEF CallStep, CallFailure
<1>4. ASSUME NEW i \in Server, NEW v \in Command, Submit(i, v)
      PROVE  ElectionStep
  <2>1. UNCHANGED <<state, currentTerm, votedFor, elected, granted, forgotten>>
    BY <1>4 DEF Submit
  <2>2. \A a \in Server : Stores(a) \/ storage'[a] = storage[a]
    BY <1>4, <2>1 DEF Submit, Stores, Persisted, TypeOK
  <2>3. \A a \in Server : CMStep(a)
    BY <2>1, <2>2 DEF CMStep, KeepsTerm
  <2> QED
    BY <2>1, <2>3, NoElectionStep
<1>5. ASSUME NEW i \in Server, ApplyCommitted(i) \/ Stop(i)
      PROVE  ElectionStep
  <2>1. /\ UNCHANGED <<currentTerm, votedFor, storage, elected, granted, forgotten>>
        /\ state' \in {state, [state EXCEPT ![i] = "Dead"]}
    BY <1>5 DEF ApplyCommitted, Stop
  <2>2. \A a \in Server : state'[a] \in {state[a], "Follower", "Dead"}
    BY <1>t, <2>1
  <2> QED
    BY <2>1, <2>2, TermsUntouched
<1>6. ASSUME NEW i \in Server, Restart(i)
      PROVE  ElectionStep
  <2>1. /\ state' = [state EXCEPT ![i] = "Follower"]
        /\ currentTerm' = [currentTerm EXCEPT ![i] = storage[i].currentTerm]
        /\ votedFor' = [votedFor EXCEPT ![i] = storage[i].votedFor]
        /\ UNCHANGED <<storage, elected, granted>>
        /\ forgotten' = forgotten \cup
              {e \in elected : e[1] = i /\ e[2] > storage[i].currentTerm}
    BY <1>6 DEF Restart, RestoreFromStorage
  <2>2. /\ state'[i] = "Follower" /\ currentTerm'[i] = storage[i].currentTerm
        /\ votedFor'[i] = storage[i].votedFor
        /\ \A a \in Server : a # i =>
            /\ state'[a] = state[a] /\ currentTerm'[a] = currentTerm[a]
            /\ votedFor'[a] = votedFor[a] /\ storage'[a] = storage[a]
    BY <2>1 DEF TypeOK
  <2>3. \A t \in Nat : <<i, t>> \in elected /\ t > storage[i].currentTerm
                        => forgotten' # {}
    BY <2>1
  <2>4. CMStep(i)
    BY <2>1, <2>2, <2>3 DEF CMStep, Restores
  <2>5. \A a \in Server : CMStep(a)
    BY <2>2, <2>4, OneCMStep
  <2>6. GrantStep
    BY <2>1 DEF GrantStep
  <2>7. ElectStep
    BY <2>1, <2>2 DEF ElectStep
  <2> QED
    BY <2>5, <2>6, <2>7 DEF ElectionStep
<1>7. CASE UNCHANGED vars
  BY <1>7, TermsUntouched DEF vars
<1> QED
  BY <1>1, <1>2, <1>3, <1>4, <1>5, <1>6, <1>7 DEF Next

\* A majority stays a majority.
LEMMA BackedStays ==
    ASSUME NEW i, NEW t, Backed(i, t), granted \subseteq granted'
    PROVE  Backed(i, t)'
BY DEF Backed

\* Two CMs with a majority in one term, neither of which votes for the other,
\* are one: VotesBind.
LEMMA BackedOnce ==
    ASSUME TypeOK, VotesBind, NEW i \in Server, NEW j \in Server, NEW t \in Nat,
           Backed(i, t), Backed(j, t),
           <<i, j, t>> \notin granted, <<j, i, t>> \notin granted
    PROVE  i = j
<1>1. PICK Q \in SUBSET Server :
        IsQuorum(Q) /\ \A v \in Q \ {i} : <<v, i, t>> \in granted
  BY DEF Backed
<1>2. PICK R \in SUBSET Server :
        IsQuorum(R) /\ \A v \in R \ {j} : <<v, j, t>> \in granted
  BY DEF Backed
<1>3. PICK v \in Q \cap R : TRUE
  BY <1>1, <1>2, QuorumsMeet
<1>4. \A g, h, f \in Server :
        <<h, g, t>> \in granted /\ <<h, f, t>> \in granted => f = g
  BY VotesBindNat
<1> QED
  BY <1>1, <1>2, <1>3, <1>4

\* So nobody shares a term as long as no leadership was forgotten.
LEMMA ElectedOnce ==
    ASSUME TypeOK, VotesBind, LeadershipInv, forgotten = {},
           NEW i \in Server, NEW j \in Server, NEW t \in Nat,
           <<i, t>> \in elected, <<j, t>> \in elected
    PROVE  i = j
BY BackedOnce DEF LeadershipInv, ElectedBacked, ElectedHold, HoldsTerm

\* A candidate or leader has voted for no other in its term.
LEMMA CandidateGrantsNone ==
    ASSUME TypeOK, VotesBind, NEW i \in Server,
           state[i] \in {"Candidate", "Leader"}
    PROVE  \A h \in Server : <<i, h, currentTerm[i]>> \notin granted
<1>1. currentTerm[i] \in Nat
  BY DEF TypeOK
<1> QED
  BY <1>1, VotesBindNat DEF BoundInMemory

\* Storage stays behind memory.
LEMMA StorageStays ==
    ASSUME TypeOK, TypeOK', StorageBehind, \A a \in Server : CMStep(a)
    PROVE  StorageBehind'
<1> SUFFICES ASSUME NEW i \in Server
             PROVE  /\ storage'[i].currentTerm <= currentTerm'[i]
                    /\ storage'[i].currentTerm = currentTerm'[i]
                            => storage'[i].votedFor = votedFor'[i]
  BY DEF StorageBehind
<1>1. /\ storage[i].currentTerm <= currentTerm[i]
      /\ storage[i].currentTerm = currentTerm[i]
            => storage[i].votedFor = votedFor[i]
  BY DEF StorageBehind
<1>2. /\ currentTerm[i] \in Nat /\ currentTerm'[i] \in Nat
  BY DEF TypeOK
<1>3. storage[i].currentTerm \in Nat /\ storage'[i].currentTerm \in Nat
  <2>1. storage[i] \in [currentTerm : Nat, votedFor : Server \cup {Nil},
                        log : Seq(LogEntry)]
    BY DEF TypeOK
  <2>2. storage'[i] \in [currentTerm : Nat, votedFor : Server \cup {Nil},
                         log : Seq(LogEntry)]
    BY DEF TypeOK
  <2> QED
    BY <2>1, <2>2
<1>4. CASE Stores(i)
  BY <1>2, <1>3, <1>4 DEF Stores
<1>5. CASE storage'[i] = storage[i] /\ ~Stores(i)
  <2>1. RaisesTerm(i) \/ KeepsTerm(i) \/ Restores(i)
    BY <1>5 DEF CMStep, TakesVote, StepsDown
  <2>2. CASE RaisesTerm(i)
    BY <1>1, <1>2, <1>3, <1>5, <2>2 DEF RaisesTerm
  <2>3. CASE KeepsTerm(i)
    BY <1>1, <1>2, <1>3, <1>5, <2>3 DEF KeepsTerm
  <2>4. CASE Restores(i)
    BY <1>2, <1>3, <1>5, <2>4 DEF Restores
  <2> QED
    BY <2>1, <2>2, <2>3, <2>4
<1>6. Stores(i) \/ storage'[i] = storage[i]
  BY DEF CMStep, RaisesTerm, KeepsTerm, TakesVote, StepsDown, Restores
<1> QED
  BY <1>4, <1>5, <1>6

\* A CM that holds a term goes on holding it.
LEMMA HoldsStays ==
    ASSUME TypeOK, TypeOK', ElectionInv, LeadershipInv, ElectionStep,
           NEW i \in Server, NEW t \in Nat, <<i, t>> \in elected,
           forgotten = {}, forgotten' = {}
    PROVE  HoldsTerm(i, t)'
<1>1. HoldsTerm(i, t)
  BY DEF LeadershipInv, ElectedHold
<1>2. currentTerm[i] \in Nat /\ currentTerm'[i] \in Nat
  BY DEF TypeOK
<1>3. storage[i].currentTerm \in Nat /\ storage'[i].currentTerm \in Nat
  <2>1. storage[i] \in [currentTerm : Nat, votedFor : Server \cup {Nil},
                        log : Seq(LogEntry)]
    BY DEF TypeOK
  <2>2. storage'[i] \in [currentTerm : Nat, votedFor : Server \cup {Nil},
                         log : Seq(LogEntry)]
    BY DEF TypeOK
  <2> QED
    BY <2>1, <2>2
<1>4. i # Nil
  BY NilAssumption
<1>5. \A h \in Server : <<i, h, t>> \notin granted'
  <2> SUFFICES ASSUME NEW h \in Server, <<i, h, t>> \in granted'
               PROVE  FALSE
    OBVIOUS
  <2>1. <<i, h, t>> \notin granted
    BY <1>1 DEF HoldsTerm
  <2>2. /\ h # i /\ t = currentTerm'[i]
        /\ \/ currentTerm'[i] > currentTerm[i]
           \/ currentTerm'[i] = currentTerm[i] /\ votedFor[i] \in {Nil, h}
    BY <2>1 DEF ElectionStep, GrantStep
  <2> QED
    BY <1>1, <1>2, <1>4, <2>2 DEF HoldsTerm
<1>6. /\ \/ currentTerm'[i] > t
         \/ currentTerm'[i] = t /\ votedFor'[i] = i /\ state'[i] # "Candidate"
      /\ storage'[i].currentTerm = t => storage'[i].votedFor = i
  <2>1. CASE RaisesTerm(i)
    BY <1>1, <1>2, <1>3, <2>1 DEF HoldsTerm, RaisesTerm, Stores
  <2>2. CASE KeepsTerm(i)
    BY <1>1, <1>2, <1>3, <2>2 DEF HoldsTerm, KeepsTerm, Stores
  <2>3. CASE TakesVote(i)
    BY <1>1, <1>2, <1>3, <1>4, <2>3 DEF HoldsTerm, TakesVote, Stores
  <2>4. CASE StepsDown(i)
    <3>1. currentTerm[i] # t
      BY <2>4, ElectedOnce DEF StepsDown, ElectionInv
    <3> QED
      BY <1>1, <1>2, <1>3, <2>4, <3>1 DEF HoldsTerm, StepsDown, Stores
  <2>5. CASE Restores(i)
    <3>1. t <= storage[i].currentTerm
      BY <1>3, <2>5 DEF Restores
    <3> QED
      BY <1>1, <1>2, <1>3, <2>5, <3>1 DEF HoldsTerm, Restores
  <2> QED
    BY <2>1, <2>2, <2>3, <2>4, <2>5 DEF ElectionStep, CMStep
<1> QED
  BY <1>5, <1>6 DEF HoldsTerm

\* Calls are those of the elected.
LEMMA CallsElectedStays ==
    ASSUME TypeOK, CallsElected, LeaderKnown, elected \subseteq elected',
           [Next]_vars
    PROVE  CallsElected'
<1>1. NoAE.pc = "idle"
  BY DEF NoAE
<1>2. CASE AECallsFollow
  <2> SUFFICES ASSUME NEW a \in Server, NEW b \in Server, NEW l \in Lane,
                      ae'[a][b][l].pc # "idle"
               PROVE  a # b /\ <<a, ae'[a][b][l].term>> \in elected'
    BY DEF CallsElected
  <2>1. AEFollows(ae[a][b][l], ae'[a][b][l])
    BY <1>2 DEF AECallsFollow
  <2>2. ae[a][b][l].pc # "idle" /\ ae'[a][b][l].term = ae[a][b][l].term
    BY <1>1, <2>1 DEF AEFollows
  <2> QED
    BY <2>2 DEF CallsElected
<1>3. ASSUME NEW i \in Server, NEW k \in Lane, LeaderSendAEs(i, k)
      PROVE  CallsElected'
  <2> DEFINE s == [NoAE EXCEPT !.pc = "spawned", !.term = currentTerm[i]]
  <2>1. s.term = currentTerm[i]
    BY DEF NoAE
  <2>2. <<i, currentTerm[i]>> \in elected'
    BY <1>3 DEF LeaderSendAEs, LeaderKnown
  <2>3. \A a, b \in Server, l \in Lane :
            \/ ae'[a][b][l] \in {ae[a][b][l], NoAE}
            \/ a = i /\ b # i /\ ae'[a][b][l] = s
    BY <1>3, SpawnedCalls
  <2> HIDE DEF s
  <2> QED
    BY <1>1, <2>1, <2>2, <2>3 DEF CallsElected
<1>4. ASSUME NEW i \in Server, NEW j \in Server, NEW k \in Lane,
             SendAppendEntries(i, j, k)
      PROVE  CallsElected'
  <2>1. PICK d \in AECall :
             /\ ae' = [ae EXCEPT ![i][j][k] = d]
             /\ ae[i][j][k].pc = "spawned" /\ d.term = ae[i][j][k].term
    BY <1>4, BuiltMessage
  <2>2. ASSUME NEW a \in Server, NEW b \in Server, NEW l \in Lane
        PROVE  \/ ae'[a][b][l] = ae[a][b][l]
               \/ a = i /\ b = j /\ l = k /\ ae'[a][b][l] = d
    <3>1. ae \in [Server -> [Server -> [Lane -> AECall]]]
      BY DEF TypeOK
    <3> QED
      BY <2>1, <3>1
  <2> QED
    BY <2>1, <2>2 DEF CallsElected
<1> QED
  BY <1>2, <1>3, <1>4, CallsFollowNext

\* LeadershipInv is inductive, relative to ElectionInv.
LEMMA LeadershipNext ==
    ASSUME TypeOK, TypeOK', ElectionInv, ElectionInv', LeadershipInv, [Next]_vars
    PROVE  LeadershipInv'
<1>1. ElectionStep
  BY ElectionStepNext DEF LeadershipInv
<1>t. \A i \in Server : currentTerm'[i] \in Nat
  BY DEF TypeOK
<1>2. ElectedBacked'
  <2> SUFFICES ASSUME NEW i \in Server, NEW t \in Nat, <<i, t>> \in elected'
               PROVE  Backed(i, t)'
    BY DEF ElectedBacked
  <2>1. CASE <<i, t>> \in elected
    BY <1>1, <2>1, BackedStays
       DEF LeadershipInv, ElectedBacked, ElectionStep, GrantStep
  <2>2. CASE <<i, t>> \notin elected
    <3>1. t = currentTerm'[i] /\ state'[i] = "Leader"
      BY <1>1, <2>2 DEF ElectionStep, ElectStep
    <3>2. \E Q \in SUBSET Server :
            IsQuorum(Q) /\ \A v \in Q \ {i} : <<v, i, currentTerm'[i]>> \in granted'
      BY <3>1 DEF ElectionInv, LeaderElected
    <3> QED
      BY <3>1, <3>2 DEF Backed
  <2> QED
    BY <2>1, <2>2
<1>3. LeaderKnown'
  BY <1>1 DEF LeadershipInv, LeaderKnown, ElectionStep, ElectStep
<1>4. CallsElected'
  BY <1>1, CallsElectedStays DEF LeadershipInv, ElectionStep, ElectStep
<1>5. StorageBehind'
  BY <1>1, StorageStays DEF LeadershipInv, ElectionStep
<1>6. ElectedHold'
  <2> SUFFICES ASSUME forgotten' = {},
                      NEW i \in Server, NEW t \in Nat, <<i, t>> \in elected'
               PROVE  HoldsTerm(i, t)'
    BY DEF ElectedHold
  <2>1. forgotten = {}
    BY <1>1 DEF ElectionStep, ElectStep
  <2>2. CASE <<i, t>> \in elected
    BY <1>1, <2>1, <2>2, HoldsStays
  <2>3. CASE <<i, t>> \notin elected
    <3>1. /\ t = currentTerm'[i] /\ state'[i] = "Leader"
          /\ state[i] = "Candidate" /\ t = currentTerm[i]
          /\ storage' = storage /\ votedFor' = votedFor /\ granted' = granted
      BY <1>1, <2>3 DEF ElectionStep, ElectStep
    <3>2. \A h \in Server : <<i, h, t>> \notin granted
      BY <3>1, CandidateGrantsNone DEF ElectionInv
    <3>3. votedFor[i] = i
      BY <3>1 DEF ElectionInv, VotesForItself
    <3>4. storage[i].currentTerm = t => storage[i].votedFor = i
      BY <3>1, <3>3 DEF LeadershipInv, StorageBehind
    <3> QED
      BY <3>1, <3>2, <3>3, <3>4 DEF HoldsTerm
  <2> QED
    BY <2>2, <2>3
<1> QED
  BY <1>2, <1>3, <1>4, <1>5, <1>6 DEF LeadershipInv

LEMMA LeadershipInit == Init => LeadershipInv
<1> SUFFICES ASSUME Init
             PROVE  LeadershipInv
  OBVIOUS
<1>1. /\ elected = {} /\ \A i \in Server : state[i] = "Follower"
      /\ \A i \in Server : /\ storage[i].currentTerm = currentTerm[i]
                           /\ storage[i].votedFor = votedFor[i]
                           /\ currentTerm[i] = 0
  BY DEF Init, Persisted
<1>2. \A i, j \in Server, k \in Lane : ae[i][j][k].pc = "idle"
  BY DEF Init, NoAE
<1> QED
  BY <1>1, <1>2 DEF LeadershipInv, ElectedBacked, LeaderKnown, CallsElected,
                    StorageBehind, ElectedHold

\* A term never has two leaders, at the same time or one after the other, in
\* any number of elections, failures and restarts, unless a leader was
\* restarted before anything made it persist the term it led.
THEOREM OneLeader ==
    ASSUME Timely
    PROVE  Spec => []OneLeaderUnlessForgotten
<1> DEFINE I == TypeOK /\ ElectionInv /\ LeadershipInv
<1>1. Init => I
  BY TypeInit, ElectionInit, LeadershipInit
<1>2. I /\ [Next]_vars => I'
  BY TypeNext, ElectionNext, LeadershipNext
<1>3. I => OneLeaderUnlessForgotten
  <2> SUFFICES ASSUME I, forgotten = {}, NEW e \in elected, NEW f \in elected,
                      e[2] = f[2]
               PROVE  e = f
    BY DEF OneLeaderUnlessForgotten, OneLeaderPerTerm
  <2>1. e \in Server \X Nat /\ f \in Server \X Nat
    BY DEF TypeOK
  <2>2. PICK i \in Server, t \in Nat : e = <<i, t>>
    BY <2>1
  <2>3. PICK j \in Server : f = <<j, t>>
    BY <2>1, <2>2
  <2> QED
    BY <2>2, <2>3, ElectedOnce DEF ElectionInv
<1> QED
  BY <1>1, <1>2, <1>3, PTL DEF Spec

-----------------------------------------------------------------------------
(* Log matching *)

\* A link is an entry at its place, with the term of the one before it.
LogLinks(l) ==
    {<<n, l[n].term, l[n].command, TermAt(l, n - 1)>> : n \in 1..Len(l)}

\* The links an AppendEntries carries; before index 1 the term is -1.
MessageLinks(c) ==
    {<<c.prevLogIndex + n, c.entries[n].term, c.entries[n].command,
       IF n > 1 THEN c.entries[n - 1].term
       ELSE IF c.prevLogIndex = 0 THEN -1 ELSE c.prevLogTerm>> :
            n \in 1..Len(c.entries)}

\* All links there are, in logs and on the way.
Links ==
    (UNION {LogLinks(log[i]) : i \in Server})
        \cup UNION {MessageLinks(ae[i][j][k]) : i, j \in Server, k \in Lane}

\* A place and a term determine the link.
LinksUnique == \A x, y \in Links : x[1] = y[1] /\ x[2] = y[2] => x = y

\* CM o has written entries in term t, so that no other ever will: it can not
\* stand again in term t, and either it is bound to itself, or another that
\* had been elected in term t before has voted for it since.
Owns(o, t) ==
    /\ storage[o].currentTerm >= t
    /\ currentTerm[o] = t => state[o] # "Candidate"
    /\ Backed(o, t)
    /\ \/ /\ \A h \in Server : <<o, h, t>> \notin granted
          /\ currentTerm[o] = t => votedFor[o] = o
          /\ storage[o].currentTerm = t => storage[o].votedFor = o
       \/ \E j \in Server : j # o /\ Backed(j, t) /\ <<j, o, t>> \in granted

\* Every term with entries has an owner; and when it leads the term, all of
\* them are inside its log.
TermsOwned == \A x \in Links : \E o \in Server : Owns(o, x[2])

LeaderCovers ==
    \A i \in Server : state[i] = "Leader" =>
        \A x \in Links : x[2] = currentTerm[i] => x[1] <= Len(log[i])

\* Whatever is done to a log is stored at once.
LogStored == \A i \in Server : storage[i].log = log[i]

LinkInv == LogStored /\ LinksUnique /\ TermsOwned /\ LeaderCovers

\* A log, element by element, after the part before index a + 1 has been kept
\* and the rest replaced by what entries has from index n on.
LEMMA SpliceEntries ==
    ASSUME NEW l \in Seq(LogEntry), NEW entries \in Seq(LogEntry),
           NEW a \in 0..Len(l), NEW n \in 1..Len(entries)
    PROVE  LET m == SubSeq(l, 1, a) \o SubSeq(entries, n, Len(entries))
           IN  /\ Len(m) = a + (Len(entries) - n + 1)
               /\ \A x \in 1..a : m[x] = l[x]
               /\ \A x \in (a + 1)..Len(m) : m[x] = entries[x - a + n - 1]
<1> DEFINE p == SubSeq(l, 1, a)
           q == SubSeq(entries, n, Len(entries))
           m == p \o q
<1>0. Len(l) \in Nat /\ Len(entries) \in Nat /\ a \in Nat /\ n \in Nat
  OBVIOUS
<1>1. /\ p \in Seq(LogEntry) /\ Len(p) = a
      /\ \A x \in 1..a : p[x] = l[x]
  <2>1. \A x \in 1..a : l[x] \in LogEntry
    BY <1>0, ElementOfSeq
  <2>2. /\ p \in Seq(LogEntry)
        /\ Len(p) = IF 1 <= a THEN a - 1 + 1 ELSE 0
        /\ \A x \in 1..(a - 1 + 1) : p[x] = l[1 + x - 1]
    BY <1>0, <2>1, SubSeqProperties
  <2> QED
    BY <1>0, <2>2
<1>2. /\ q \in Seq(LogEntry) /\ Len(q) = Len(entries) - n + 1
      /\ \A x \in 1..(Len(entries) - n + 1) : q[x] = entries[x + n - 1]
  <2>1. \A x \in n..Len(entries) : entries[x] \in LogEntry
    BY <1>0, ElementOfSeq
  <2>2. /\ q \in Seq(LogEntry)
        /\ Len(q) = IF n <= Len(entries) THEN Len(entries) - n + 1 ELSE 0
        /\ \A x \in 1..(Len(entries) - n + 1) : q[x] = entries[n + x - 1]
    BY <1>0, <2>1, SubSeqProperties
  <2> QED
    BY <1>0, <2>2
<1> HIDE DEF p, q
<1>3. /\ Len(m) = Len(p) + Len(q)
      /\ \A x \in 1..Len(p) : m[x] = p[x]
      /\ \A x \in (Len(p) + 1)..(Len(p) + Len(q)) : m[x] = q[x - Len(p)]
  <2>1. /\ Len(m) = Len(p) + Len(q)
        /\ \A x \in 1..(Len(p) + Len(q)) :
                m[x] = IF x <= Len(p) THEN p[x] ELSE q[x - Len(p)]
    BY <1>1, <1>2, ConcatProperties
  <2>2. Len(p) \in Nat /\ Len(q) \in Nat
    BY <1>0, <1>1, <1>2
  <2> HIDE DEF m
  <2>3. \A x \in 1..Len(p) : m[x] = p[x]
    BY <2>1, <2>2
  <2>4. \A x \in (Len(p) + 1)..(Len(p) + Len(q)) : m[x] = q[x - Len(p)]
    BY <2>1, <2>2
  <2> QED
    BY <2>1, <2>3, <2>4
<1>4. /\ Len(m) = a + (Len(entries) - n + 1)
      /\ \A x \in 1..a : m[x] = l[x]
  BY <1>0, <1>1, <1>2, <1>3
<1>5. ASSUME NEW x \in (a + 1)..Len(m)
      PROVE  m[x] = entries[x - a + n - 1]
  <2>1. x - a \in 1..(Len(entries) - n + 1)
    BY <1>0, <1>4
  <2>2. m[x] = q[x - a]
    BY <1>0, <1>1, <1>2, <1>3, <1>4
  <2> QED
    BY <1>2, <2>1, <2>2
<1> QED
  BY <1>4, <1>5 DEF p, q

\* What Merge does: nothing, or it keeps the part of the log that agrees with
\* the entries so far.
LEMMA MergeShape ==
    ASSUME NEW l \in Seq(LogEntry), NEW prev \in Nat, prev <= Len(l),
           NEW entries \in Seq(LogEntry)
    PROVE  \/ Merge(l, prev, entries) = l
           \/ \E n \in 1..Len(entries) :
                /\ prev + n - 1 \in 0..Len(l)
                /\ n > 1 => TermAt(l, prev + (n - 1)) = entries[n - 1].term
                /\ Merge(l, prev, entries)
                     = SubSeq(l, 1, prev + n - 1)
                         \o SubSeq(entries, n, Len(entries))
<1> DEFINE new == {n \in 1..Len(entries) :
                    TermAt(l, prev + n) # entries[n].term}
<1>1. CASE new = {}
  BY <1>1 DEF Merge
<1>2. CASE new # {}
  <2> DEFINE n == Least(new)
  <2>0. new \in SUBSET Nat
    OBVIOUS
  <2>1. n \in new /\ \A m \in new : n <= m
    <3> HIDE DEF new
    <3> QED
      BY <1>2, <2>0, LeastIn
  <2>2. n \in 1..Len(entries)
    BY <2>1
  <2>3. Merge(l, prev, entries)
            = SubSeq(l, 1, prev + n - 1) \o SubSeq(entries, n, Len(entries))
    BY <1>2 DEF Merge
  <2> HIDE DEF n
  <2>4. n > 1 => /\ n - 1 \in 1..Len(entries) /\ n - 1 \notin new
    BY <2>1, <2>2
  <2>5. n > 1 => TermAt(l, prev + (n - 1)) = entries[n - 1].term
    BY <2>4
  <2>6. prev + n - 1 \in 0..Len(l)
    <3>1. CASE n = 1
      BY <3>1
    <3>2. CASE n > 1
      <4>1. entries[n - 1] \in LogEntry
        BY <2>4, <3>2, ElementOfSeq
      <4>2. entries[n - 1].term \in Nat
        BY <4>1 DEF LogEntry
      <4>3. prev + (n - 1) \in 1..Len(l)
        BY <2>5, <3>2, <4>2 DEF TermAt
      <4> QED
        BY <2>2, <3>2, <4>3
    <3> QED
      BY <2>2, <3>1, <3>2
  <2> QED
    BY <2>2, <2>3, <2>5, <2>6
<1> QED
  BY <1>1, <1>2

\* The links of a log are its entries.
LEMMA LogLinkOf ==
    ASSUME NEW l, NEW x
    PROVE  x \in LogLinks(l) <=>
             \E n \in 1..Len(l) :
                x = <<n, l[n].term, l[n].command, TermAt(l, n - 1)>>
BY DEF LogLinks

\* Links are numbered by indices and bear terms.
LEMMA LinkTypes ==
    ASSUME NEW l \in Seq(LogEntry), NEW c \in AECall, NEW x,
           x \in LogLinks(l) \/ x \in MessageLinks(c)
    PROVE  x[1] \in Nat /\ x[2] \in Nat
<1>1. CASE x \in LogLinks(l)
  <2>1. PICK n \in 1..Len(l) :
            x = <<n, l[n].term, l[n].command, TermAt(l, n - 1)>>
    BY <1>1, LogLinkOf
  <2>2. l[n] \in LogEntry
    BY ElementOfSeq
  <2>3. x[1] = n /\ x[2] = l[n].term
    BY <2>1
  <2> QED
    BY <2>2, <2>3 DEF LogEntry
<1>2. CASE x \in MessageLinks(c)
  <2>0. c.prevLogIndex \in Nat /\ c.entries \in Seq(LogEntry)
    BY DEF AECall
  <2>1. PICK n \in 1..Len(c.entries) :
            x = <<c.prevLogIndex + n, c.entries[n].term, c.entries[n].command,
                  IF n > 1 THEN c.entries[n - 1].term
                  ELSE IF c.prevLogIndex = 0 THEN -1 ELSE c.prevLogTerm>>
    BY <1>2 DEF MessageLinks
  <2>2. c.entries[n] \in LogEntry
    BY <2>0, ElementOfSeq
  <2>3. x[1] = c.prevLogIndex + n /\ x[2] = c.entries[n].term
    BY <2>1
  <2> QED
    BY <2>0, <2>2, <2>3 DEF LogEntry
<1> QED
  BY <1>1, <1>2

\* Appending an entry adds one link.
LEMMA AppendLinks ==
    ASSUME NEW l \in Seq(LogEntry), NEW e \in LogEntry, NEW x,
           x \in LogLinks(Append(l, e))
    PROVE  x \in LogLinks(l) \/ x = <<Len(l) + 1, e.term, e.command, LastTerm(l)>>
<1> DEFINE m == Append(l, e)
<1>1. /\ Len(m) = Len(l) + 1 /\ m[Len(l) + 1] = e
      /\ \A n \in 1..Len(l) : m[n] = l[n]
  BY AppendProperties
<1>2. Len(l) \in Nat
  OBVIOUS
<1>3. PICK n \in 1..Len(m) : x = <<n, m[n].term, m[n].command, TermAt(m, n - 1)>>
  BY LogLinkOf
<1> HIDE DEF m
<1>4. TermAt(m, n - 1) = TermAt(l, n - 1)
  <2>1. CASE n = 1
    BY <1>1, <1>2, <2>1 DEF TermAt
  <2>2. CASE n > 1
    <3>1. n - 1 \in 1..Len(l) /\ n - 1 \in 1..Len(m)
      BY <1>1, <1>2, <2>2
    <3> QED
      BY <1>1, <3>1 DEF TermAt
  <2> QED
    BY <1>1, <1>2, <2>1, <2>2
<1>5. CASE n <= Len(l)
  <2>1. n \in 1..Len(l)
    BY <1>1, <1>2, <1>5
  <2>2. x = <<n, l[n].term, l[n].command, TermAt(l, n - 1)>>
    BY <1>1, <1>3, <1>4, <2>1
  <2> QED
    BY <2>1, <2>2, LogLinkOf
<1>6. CASE n > Len(l)
  <2>1. n = Len(l) + 1 /\ n - 1 = Len(l)
    BY <1>1, <1>2, <1>6
  <2>2. x = <<Len(l) + 1, e.term, e.command, TermAt(l, Len(l))>>
    BY <1>1, <1>3, <1>4, <2>1
  <2> QED
    BY <2>2 DEF LastTerm
<1> QED
  BY <1>1, <1>2, <1>5, <1>6

\* What SubSeq(log, p + 1, Len(log)), the rest of a log, is.
LEMMA RestOf ==
    ASSUME NEW l \in Seq(LogEntry), NEW p \in 0..Len(l), NEW es,
           es = SubSeq(l, p + 1, Len(l))
    PROVE  Len(es) = Len(l) - p /\ \A n \in 1..Len(es) : es[n] = l[p + n]
<1>1. Len(l) \in Nat /\ p \in Nat /\ p + 1 \in Int /\ Len(l) \in Int
  OBVIOUS
<1>2. \A n \in (p + 1)..Len(l) : l[n] \in LogEntry
  BY <1>1, ElementOfSeq
<1>3. /\ Len(es) = IF p + 1 <= Len(l) THEN Len(l) - (p + 1) + 1 ELSE 0
      /\ \A n \in 1..(Len(l) - (p + 1) + 1) : es[n] = l[(p + 1) + n - 1]
  BY <1>1, <1>2, SubSeqProperties
<1>4. Len(es) = Len(l) - p
  BY <1>1, <1>3
<1>5. ASSUME NEW n \in 1..Len(es) PROVE es[n] = l[p + n]
  <2>1. n \in 1..(Len(l) - (p + 1) + 1) /\ (p + 1) + n - 1 = p + n
    BY <1>1, <1>4
  <2> QED
    BY <1>3, <2>1
<1> QED
  BY <1>4, <1>5

\* A message that is the rest of a log has no other links than the log.
LEMMA RestLinks ==
    ASSUME NEW l \in Seq(LogEntry), NEW d \in AECall,
           d.prevLogIndex \in 0..Len(l),
           d.prevLogTerm = TermAt(l, d.prevLogIndex),
           d.entries = SubSeq(l, d.prevLogIndex + 1, Len(l))
    PROVE  MessageLinks(d) \subseteq LogLinks(l)
<1> DEFINE p == d.prevLogIndex
           es == d.entries
<1>0. Len(l) \in Nat /\ p \in Nat /\ p \in 0..Len(l)
  OBVIOUS
<1>1. /\ Len(es) = Len(l) - p
      /\ \A n \in 1..Len(es) : es[n] = l[p + n]
  <2>1. es = SubSeq(l, p + 1, Len(l))
    OBVIOUS
  <2> HIDE DEF p, es
  <2> QED
    BY <1>0, <2>1, RestOf
<1> SUFFICES ASSUME NEW x \in MessageLinks(d)
             PROVE  x \in LogLinks(l)
  OBVIOUS
<1>2. PICK n \in 1..Len(es) :
        x = <<p + n, es[n].term, es[n].command,
              IF n > 1 THEN es[n - 1].term
              ELSE IF p = 0 THEN -1 ELSE d.prevLogTerm>>
  BY DEF MessageLinks
<1>3. d.prevLogTerm = TermAt(l, p)
  OBVIOUS
<1> HIDE DEF p, es
<1>4. PICK y \in 1..Len(l) : y = p + n /\ es[n] = l[y]
  <2>1. p + n \in 1..Len(l) /\ es[n] = l[p + n]
    BY <1>0, <1>1
  <2> QED
    BY <2>1
<1>5. (IF n > 1 THEN es[n - 1].term ELSE IF p = 0 THEN -1 ELSE d.prevLogTerm)
        = TermAt(l, y - 1)
  <2>1. CASE n > 1
    <3>1. n - 1 \in 1..Len(es) /\ y - 1 = p + (n - 1) /\ y - 1 \in 1..Len(l)
      BY <1>0, <1>1, <1>4, <2>1
    <3>2. es[n - 1] = l[y - 1]
      BY <1>1, <3>1
    <3> QED
      BY <2>1, <3>1, <3>2 DEF TermAt
  <2>2. CASE n = 1
    <3>1. y - 1 = p
      BY <1>0, <1>4, <2>2
    <3> QED
      BY <1>0, <1>3, <2>2, <3>1 DEF TermAt
  <2> QED
    BY <1>1, <2>1, <2>2
<1>6. x = <<y, l[y].term, l[y].command, TermAt(l, y - 1)>>
  <2> DEFINE u == IF n > 1 THEN es[n - 1].term
                  ELSE IF p = 0 THEN -1 ELSE d.prevLogTerm
             w == TermAt(l, y - 1)
  <2>1. x = <<p + n, es[n].term, es[n].command, u>> /\ u = w
    BY <1>2, <1>5
  <2> HIDE DEF u, w
  <2>2. x = <<y, l[y].term, l[y].command, w>>
    BY <1>4, <2>1
  <2> QED
    BY <2>2 DEF w
<1> QED
  BY <1>6, LogLinkOf

\* Merging a message whose predecessor matches adds no other links than the
\* message's.
LEMMA MergeLinks ==
    ASSUME NEW l \in Seq(LogEntry), NEW c \in AECall, PrevMatches(c, l), NEW x,
           x \in LogLinks(Merge(l, c.prevLogIndex, c.entries))
    PROVE  x \in LogLinks(l) \/ x \in MessageLinks(c)
<1> DEFINE p == c.prevLogIndex
           es == c.entries
           m == Merge(l, p, es)
<1>0. Len(l) \in Nat /\ p \in Nat /\ es \in Seq(LogEntry) /\ p <= Len(l)
  BY DEF AECall, PrevMatches
<1>p. p > 0 => TermAt(l, p) = c.prevLogTerm
  BY <1>0 DEF PrevMatches, TermAt
<1>m. MessageLinks(c) = {<<p + n, es[n].term, es[n].command,
              IF n > 1 THEN es[n - 1].term
              ELSE IF p = 0 THEN -1 ELSE c.prevLogTerm>> : n \in 1..Len(es)}
  BY DEF MessageLinks
<1>1. CASE m = l
  BY <1>1
<1>x. x \in LogLinks(m)
  OBVIOUS
<1> HIDE DEF p, es
<1>2. ASSUME NEW n \in 1..Len(es),
             p + n - 1 \in 0..Len(l),
             n > 1 => TermAt(l, p + (n - 1)) = es[n - 1].term,
             m = SubSeq(l, 1, p + n - 1) \o SubSeq(es, n, Len(es))
      PROVE  x \in LogLinks(l) \/ x \in MessageLinks(c)
  <2> DEFINE a == p + n - 1
  <2>0. a \in 0..Len(l) /\ Len(es) \in Nat /\ n \in Nat
    BY <1>0, <1>2
  <2> HIDE DEF m
  <2>1. /\ Len(m) = a + (Len(es) - n + 1)
        /\ \A y \in 1..a : m[y] = l[y]
        /\ \A y \in (a + 1)..Len(m) : m[y] = es[y - a + n - 1]
    BY <1>0, <1>2, <2>0, SpliceEntries
  <2>2. PICK y \in 1..Len(m) :
            x = <<y, m[y].term, m[y].command, TermAt(m, y - 1)>>
    BY <1>x, LogLinkOf
  <2>3. CASE y <= a
    <3>1. y \in 1..Len(l) /\ y \in 1..a
      BY <1>0, <2>0, <2>3
    <3>2. TermAt(m, y - 1) = TermAt(l, y - 1)
      <4>1. CASE y = 1
        BY <4>1 DEF TermAt
      <4>2. CASE y > 1
        <5>1. y - 1 \in 1..a /\ y - 1 \in 1..Len(l) /\ y - 1 \in 1..Len(m)
          BY <1>0, <2>0, <2>1, <3>1, <4>2
        <5> QED
          BY <2>1, <5>1 DEF TermAt
      <4> QED
        BY <3>1, <4>1, <4>2
    <3>3. x = <<y, l[y].term, l[y].command, TermAt(l, y - 1)>>
      BY <2>1, <2>2, <3>1, <3>2
    <3> QED
      BY <3>1, <3>3, LogLinkOf
  <2>4. CASE y > a
    <3> DEFINE z == y - p
    <3>1. /\ z \in n..Len(es) /\ z \in 1..Len(es) /\ y = p + z
          /\ y - a + n - 1 = z /\ y \in (a + 1)..Len(m)
      BY <1>0, <2>0, <2>1, <2>4
    <3>2. m[y] = es[z]
      BY <2>1, <3>1
    <3> HIDE DEF z
    <3>3. TermAt(m, y - 1) = IF z > 1 THEN es[z - 1].term
                             ELSE IF p = 0 THEN -1 ELSE c.prevLogTerm
      <4>1. CASE z > n
        <5>1. y - 1 \in (a + 1)..Len(m) /\ (y - 1) - a + n - 1 = z - 1
              /\ y - 1 \in 1..Len(m) /\ z > 1
          BY <1>0, <2>0, <2>1, <3>1, <4>1
        <5> QED
          BY <2>1, <5>1 DEF TermAt
      <4>2. CASE z = n /\ n > 1
        <5>1. y - 1 = p + (n - 1) /\ y - 1 \in 1..a
              /\ y - 1 \in 1..Len(l) /\ y - 1 \in 1..Len(m)
          BY <1>0, <2>0, <2>1, <3>1, <4>2
        <5>2. TermAt(m, y - 1) = TermAt(l, y - 1)
          BY <2>1, <5>1 DEF TermAt
        <5> QED
          BY <1>2, <4>2, <5>1, <5>2
      <4>3. CASE z = n /\ n = 1
        <5>1. y - 1 = p /\ a = p
          BY <1>0, <3>1, <4>3
        <5>2. CASE p = 0
          BY <4>3, <5>1, <5>2 DEF TermAt
        <5>3. CASE p > 0
          <6>1. p \in 1..a /\ p \in 1..Len(l) /\ p \in 1..Len(m)
            BY <1>0, <2>0, <2>1, <5>1, <5>3
          <6>2. TermAt(m, p) = TermAt(l, p)
            BY <2>1, <6>1 DEF TermAt
          <6> QED
            BY <1>p, <4>3, <5>1, <5>3, <6>2
        <5> QED
          BY <1>0, <5>2, <5>3
      <4> QED
        BY <2>0, <3>1, <4>1, <4>2, <4>3
    <3>4. x = <<p + z, es[z].term, es[z].command,
                IF z > 1 THEN es[z - 1].term
                ELSE IF p = 0 THEN -1 ELSE c.prevLogTerm>>
      BY <2>2, <3>1, <3>2, <3>3
    <3> QED
      BY <1>m, <3>1, <3>4
  <2> QED
    BY <2>0, <2>3, <2>4
<1> QED
  BY <1>0, <1>1, <1>2, MergeShape

\* Where links are unique, logs that agree on the term of an entry agree on all
\* entries before it: the greatest index of a difference would have a link
\* after it that both logs share.
LEMMA LinksMatch ==
    ASSUME NEW l \in Seq(LogEntry), NEW m \in Seq(LogEntry),
           \A x \in LogLinks(l), y \in LogLinks(m) :
                x[1] = y[1] /\ x[2] = y[2] => x = y,
           NEW n \in 1..Len(l), n <= Len(m), l[n].term = m[n].term
    PROVE  SubSeq(l, 1, n) = SubSeq(m, 1, n)
<1>0. n \in Nat /\ Len(l) \in Nat /\ Len(m) \in Nat
  OBVIOUS
<1>1. ASSUME NEW k \in 1..n, l[k].term = m[k].term
      PROVE  l[k] = m[k] /\ TermAt(l, k - 1) = TermAt(m, k - 1)
  <2> DEFINE x == <<k, l[k].term, l[k].command, TermAt(l, k - 1)>>
             y == <<k, m[k].term, m[k].command, TermAt(m, k - 1)>>
  <2>1. k \in 1..Len(l) /\ k \in 1..Len(m)
    BY <1>0
  <2>2. x \in LogLinks(l) /\ y \in LogLinks(m)
    BY <2>1, LogLinkOf
  <2>3. x = y
    BY <1>1, <2>2
  <2>4. l[k].command = m[k].command /\ TermAt(l, k - 1) = TermAt(m, k - 1)
    BY <2>3
  <2>5. l[k] \in LogEntry /\ m[k] \in LogEntry
    BY <2>1, ElementOfSeq
  <2> HIDE DEF x, y
  <2>6. \A a, b \in LogEntry : a.term = b.term /\ a.command = b.command => a = b
    BY DEF LogEntry
  <2>7. l[k] = m[k]
    BY <1>1, <2>4, <2>5, <2>6
  <2> QED
    BY <2>4, <2>7
<1> DEFINE D == {k \in 0..n : k > 0 /\ l[k] # m[k]}
<1>2. D = {}
  <2> SUFFICES ASSUME D # {}
               PROVE  FALSE
    OBVIOUS
  <2>1. D \in SUBSET (0..n)
    OBVIOUS
  <2>2. Greatest(D) \in D /\ \A k \in D : Greatest(D) >= k
    <3> HIDE DEF D
    <3> QED
      BY <1>0, <2>1, GreatestIn
  <2>3. PICK g \in D : \A k \in D : g >= k
    BY <2>2
  <2>4. g \in 1..n /\ l[g] # m[g]
    BY <1>0, <2>3
  <2>5. CASE g = n
    BY <1>0, <1>1, <2>4, <2>5
  <2>6. CASE g < n
    <3>1. g + 1 \in 1..n /\ g + 1 \notin D
      BY <1>0, <2>3, <2>4, <2>6
    <3>2. l[g + 1] = m[g + 1]
      BY <1>0, <3>1
    <3>3. TermAt(l, (g + 1) - 1) = TermAt(m, (g + 1) - 1)
      BY <1>1, <3>1, <3>2
    <3>4. (g + 1) - 1 = g /\ g \in 1..Len(l) /\ g \in 1..Len(m)
      BY <1>0, <2>4
    <3>5. l[g].term = m[g].term
      BY <3>3, <3>4 DEF TermAt
    <3> QED
      BY <1>1, <2>4, <3>5
  <2> QED
    BY <1>0, <2>4, <2>5, <2>6
<1>3. \A k \in 1..n : l[k] = m[k]
  BY <1>0, <1>2
<1> HIDE DEF D
<1>4. /\ SubSeq(l, 1, n) = [k \in 1..n |-> l[k]]
      /\ SubSeq(m, 1, n) = [k \in 1..n |-> m[k]]
  BY <1>0
<1> QED
  BY <1>3, <1>4

\* The links of a log or a message are among all.
LEMMA LinksOf ==
    ASSUME NEW x
    PROVE  x \in Links <=>
             \/ \E i \in Server : x \in LogLinks(log[i])
             \/ \E i, j \in Server, k \in Lane : x \in MessageLinks(ae[i][j][k])
BY DEF Links

LEMMA LinkIsTyped ==
    ASSUME TypeOK, NEW x \in Links
    PROVE  x[1] \in Nat /\ x[2] \in Nat
<1>1. \A i \in Server : log[i] \in Seq(LogEntry)
  BY DEF TypeOK
<1>2. \A i, j \in Server, k \in Lane : ae[i][j][k] \in AECall
  BY DEF TypeOK
<1>3. NoAE \in AECall /\ <<>> \in Seq(LogEntry)
  <2>1. NoAE \in AECall
    BY CallTypes
  <2>2. <<>> \in Seq(LogEntry)
    OBVIOUS
  <2> QED
    BY <2>1, <2>2
<1>4. CASE \E i \in Server : x \in LogLinks(log[i])
  BY <1>1, <1>3, <1>4, LinkTypes
<1>5. CASE \E i, j \in Server, k \in Lane : x \in MessageLinks(ae[i][j][k])
  BY <1>2, <1>3, <1>5, LinkTypes
<1> QED
  BY <1>4, <1>5, LinksOf

LEMMA LinkInvImplies ==
    ASSUME TypeOK, LinkInv
    PROVE  LogMatching
<1> SUFFICES ASSUME NEW i \in Server, NEW j \in Server, NEW n \in 1..Len(log[i]),
                    n <= Len(log[j]), log[i][n].term = log[j][n].term
             PROVE  SubSeq(log[i], 1, n) = SubSeq(log[j], 1, n)
  BY DEF LogMatching
<1>1. log[i] \in Seq(LogEntry) /\ log[j] \in Seq(LogEntry)
  BY DEF TypeOK
<1>2. \A x \in LogLinks(log[i]), y \in LogLinks(log[j]) :
            x[1] = y[1] /\ x[2] = y[2] => x = y
  BY LinksOf DEF LinkInv, LinksUnique
<1> QED
  BY <1>1, <1>2, LinksMatch

\* Nobody else leads, or can come to lead, a term that has an owner.
LEMMA OwnerAlone ==
    ASSUME TypeOK, VotesBind, NEW o \in Server, NEW h \in Server,
           state[h] \in {"Candidate", "Leader"},
           Owns(o, currentTerm[h]), Backed(h, currentTerm[h])
    PROVE  h = o
<1> DEFINE t == currentTerm[h]
<1>0. t \in Nat
  BY DEF TypeOK
<1>1. \A x \in Server : <<h, x, t>> \notin granted
  BY CandidateGrantsNone
<1>2. CASE \A x \in Server : <<o, x, t>> \notin granted
  BY <1>0, <1>1, <1>2, BackedOnce DEF Owns
<1>3. ASSUME NEW j \in Server, j # o, Backed(j, t), <<j, o, t>> \in granted, h # o
      PROVE  FALSE
  <2>1. <<j, h, t>> \notin granted
    BY <1>0, <1>3, VotesBindNat
  <2>2. h = j
    BY <1>0, <1>1, <1>3, <2>1, BackedOnce
  <2> QED
    BY <1>1, <1>3, <2>2
<1> QED
  BY <1>2, <1>3 DEF Owns

\* A leader that accepts a command owns its term.
LEMMA SubmitOwns ==
    ASSUME TypeOK, ElectionInv, NEW i \in Server, NEW v \in Command, Submit(i, v),
           NEW t, t = currentTerm[i]
    PROVE  Owns(i, t)'
<1>1. /\ UNCHANGED <<state, currentTerm, votedFor, granted>>
      /\ state[i] = "Leader"
      /\ storage' = [storage EXCEPT ![i] = Persisted(currentTerm[i], votedFor[i],
            Append(log[i], [term |-> currentTerm[i], command |-> v]))]
  BY DEF Submit, history
<1>2. /\ storage'[i].currentTerm = currentTerm[i]
      /\ storage'[i].votedFor = votedFor[i]
  BY <1>1 DEF TypeOK, Persisted
<1>3. votedFor[i] = i
  BY <1>1 DEF ElectionInv, VotesForItself
<1>4. Backed(i, t)'
  BY <1>1 DEF ElectionInv, LeaderElected, Backed
<1>5. \A h \in Server : <<i, h, t>> \notin granted
  BY <1>1, CandidateGrantsNone DEF ElectionInv
<1>6. currentTerm[i] \in Nat
  BY DEF TypeOK
<1> QED
  BY <1>1, <1>2, <1>3, <1>4, <1>5, <1>6 DEF Owns

\* What an owner binds itself with: one of the two alternatives of Owns.
OwnerBound(o, t) ==
    /\ \A h \in Server : <<o, h, t>> \notin granted
    /\ currentTerm[o] = t => votedFor[o] = o
    /\ storage[o].currentTerm = t => storage[o].votedFor = o

OwnerSucceeds(o, t) ==
    \E j \in Server : j # o /\ Backed(j, t) /\ <<j, o, t>> \in granted

LEMMA OwnsParts ==
    ASSUME NEW o, NEW t
    PROVE  Owns(o, t) <=>
             /\ storage[o].currentTerm >= t
             /\ currentTerm[o] = t => state[o] # "Candidate"
             /\ Backed(o, t)
             /\ OwnerBound(o, t) \/ OwnerSucceeds(o, t)
BY DEF Owns, OwnerBound, OwnerSucceeds

\* Every step leaves an owner its term.
LEMMA OwnsStays ==
    ASSUME TypeOK, TypeOK', ElectionInv, LeadershipInv, ElectionStep,
           NEW o \in Server, NEW t \in Nat, Owns(o, t)
    PROVE  Owns(o, t)'
<1>1. /\ storage[o].currentTerm >= t
      /\ currentTerm[o] = t => state[o] # "Candidate"
      /\ Backed(o, t)
      /\ OwnerBound(o, t) \/ OwnerSucceeds(o, t)
  BY OwnsParts
<1>2. currentTerm[o] \in Nat /\ currentTerm'[o] \in Nat
  BY DEF TypeOK
<1>3. storage[o].currentTerm \in Nat /\ storage'[o].currentTerm \in Nat
  <2>1. storage[o] \in [currentTerm : Nat, votedFor : Server \cup {Nil},
                        log : Seq(LogEntry)]
    BY DEF TypeOK
  <2>2. storage'[o] \in [currentTerm : Nat, votedFor : Server \cup {Nil},
                         log : Seq(LogEntry)]
    BY DEF TypeOK
  <2> QED
    BY <2>1, <2>2
<1>4. /\ o # Nil /\ currentTerm[o] >= storage[o].currentTerm
      /\ CMStep(o) /\ granted \subseteq granted'
  BY NilAssumption DEF LeadershipInv, StorageBehind, ElectionStep, GrantStep
<1>5. Backed(o, t)'
  BY <1>1, <1>4, BackedStays
<1>6. /\ storage'[o].currentTerm >= t
      /\ currentTerm'[o] = t => state'[o] # "Candidate"
  <2>1. CASE RaisesTerm(o)
    BY <1>1, <1>2, <1>3, <1>4, <2>1 DEF RaisesTerm, Stores
  <2>2. CASE KeepsTerm(o)
    BY <1>1, <1>2, <1>3, <1>4, <2>2 DEF KeepsTerm, Stores
  <2>3. CASE TakesVote(o)
    BY <1>1, <1>2, <1>3, <1>4, <2>3 DEF TakesVote, Stores
  <2>4. CASE StepsDown(o)
    BY <1>1, <1>2, <1>3, <1>4, <2>4 DEF StepsDown, Stores
  <2>5. CASE Restores(o)
    BY <1>1, <1>2, <1>3, <1>4, <2>5 DEF Restores
  <2> QED
    BY <1>4, <2>1, <2>2, <2>3, <2>4, <2>5 DEF CMStep
<1>7. CASE OwnerSucceeds(o, t)
  <2>1. OwnerSucceeds(o, t)'
    BY <1>4, <1>7, BackedStays DEF OwnerSucceeds
  <2> QED
    BY <1>5, <1>6, <2>1 DEF Owns, OwnerSucceeds
<1>8. CASE OwnerBound(o, t) /\ StepsDown(o) /\ currentTerm[o] = t
  <2>1. PICK h \in Server : h # o /\ <<h, t>> \in elected
    BY <1>8 DEF StepsDown
  <2>2. Backed(h, t)
    BY <2>1 DEF LeadershipInv, ElectedBacked
  <2>3. <<o, h, t>> \notin granted
    BY <1>8 DEF OwnerBound
  <2>4. <<h, o, t>> \in granted
    BY <1>1, <2>1, <2>2, <2>3, BackedOnce DEF ElectionInv
  <2>5. OwnerSucceeds(o, t)'
    BY <1>4, <2>1, <2>2, <2>4, BackedStays DEF OwnerSucceeds
  <2> QED
    BY <1>5, <1>6, <2>5 DEF Owns, OwnerSucceeds
<1>9. CASE OwnerBound(o, t) /\ ~(StepsDown(o) /\ currentTerm[o] = t)
  <2>1. \A h \in Server : <<o, h, t>> \notin granted'
    <3> SUFFICES ASSUME NEW h \in Server, <<o, h, t>> \in granted'
                 PROVE  FALSE
      OBVIOUS
    <3>1. <<o, h, t>> \notin granted
      BY <1>9 DEF OwnerBound
    <3>2. /\ h # o /\ t = currentTerm'[o]
          /\ \/ currentTerm'[o] > currentTerm[o]
             \/ currentTerm'[o] = currentTerm[o] /\ votedFor[o] \in {Nil, h}
      BY <3>1 DEF ElectionStep, GrantStep
    <3> QED
      BY <1>1, <1>2, <1>3, <1>4, <1>9, <3>2 DEF OwnerBound
  <2>2. /\ currentTerm'[o] = t => votedFor'[o] = o
        /\ storage'[o].currentTerm = t => storage'[o].votedFor = o
    <3>0. /\ currentTerm[o] = t => votedFor[o] = o
          /\ storage[o].currentTerm = t => storage[o].votedFor = o
      BY <1>9 DEF OwnerBound
    <3>1. CASE RaisesTerm(o)
      BY <1>1, <1>2, <1>3, <1>4, <3>0, <3>1 DEF RaisesTerm, Stores
    <3>2. CASE KeepsTerm(o)
      BY <1>1, <1>2, <1>3, <1>4, <3>0, <3>2 DEF KeepsTerm, Stores
    <3>3. CASE TakesVote(o)
      BY <1>1, <1>2, <1>3, <1>4, <3>0, <3>3 DEF TakesVote, Stores
    <3>4. CASE StepsDown(o)
      BY <1>1, <1>2, <1>3, <1>4, <1>9, <3>0, <3>4 DEF StepsDown, Stores
    <3>5. CASE Restores(o)
      BY <1>1, <1>2, <1>3, <1>4, <3>0, <3>5 DEF Restores
    <3> QED
      BY <1>4, <3>1, <3>2, <3>3, <3>4, <3>5 DEF CMStep
  <2> QED
    BY <1>5, <1>6, <2>1, <2>2 DEF Owns
<1> QED
  BY <1>1, <1>7, <1>8, <1>9

\* A step that makes no link preserves what the invariant says of them.
LEMMA LinksShrink ==
    ASSUME TypeOK, TypeOK', ElectionInv, ElectionInv', LeadershipInv,
           ElectionStep, LinksUnique, TermsOwned, LeaderCovers,
           Links' \subseteq Links,
           \A i \in Server : state[i] = "Leader" /\ state'[i] = "Leader"
                => Len(log'[i]) >= Len(log[i])
    PROVE  LinksUnique' /\ TermsOwned' /\ LeaderCovers'
<1>1. LinksUnique'
  BY DEF LinksUnique
<1>2. TermsOwned'
  BY OwnsStays, LinkIsTyped DEF TermsOwned
<1>3. LeaderCovers'
  <2> SUFFICES ASSUME NEW i \in Server, state'[i] = "Leader",
                      NEW x \in Links', x[2] = currentTerm'[i]
               PROVE  x[1] <= Len(log'[i])
    BY DEF LeaderCovers
  <2>0. /\ x \in Links /\ x[1] \in Nat
    BY LinkIsTyped
  <2>t. Len(log[i]) \in Nat /\ Len(log'[i]) \in Nat
    <3>1. log[i] \in Seq(LogEntry) /\ log'[i] \in Seq(LogEntry)
      BY DEF TypeOK
    <3> QED
      BY <3>1
  <2>1. CASE state[i] = "Leader" /\ currentTerm'[i] = currentTerm[i]
    <3>1. x[1] <= Len(log[i])
      BY <2>0, <2>1 DEF LeaderCovers
    <3> QED
      BY <2>0, <2>t, <2>1, <3>1
  <2>2. CASE state[i] = "Candidate" /\ UNCHANGED <<currentTerm, granted>>
    <3>1. Backed(i, currentTerm[i])
      <4>1. \E Q \in SUBSET Server :
                /\ IsQuorum(Q)
                /\ \A v \in Q \ {i} : <<v, i, currentTerm'[i]>> \in granted'
        BY DEF ElectionInv, LeaderElected
      <4> QED
        BY <2>2, <4>1 DEF Backed
    <3>2. PICK o \in Server : Owns(o, currentTerm[i])
      BY <2>0, <2>2 DEF TermsOwned
    <3>3. o = i
      BY <2>2, <3>1, <3>2, OwnerAlone DEF ElectionInv
    <3> QED
      BY <2>2, <3>2, <3>3 DEF Owns
  <2> QED
    BY <2>1, <2>2 DEF ElectionStep, ElectStep
<1> QED
  BY <1>1, <1>2, <1>3

\* Whatever is done to a log is stored.
LEMMA LogStoredStays ==
    ASSUME TypeOK, LogStored, [Next]_vars
    PROVE  LogStored'
<1> USE DEF cmVars
<1>t. log \in [Server -> Seq(LogEntry)]
  BY DEF TypeOK
<1>u. storage \in [Server -> [currentTerm : Nat, votedFor : Server \cup {Nil},
                              log : Seq(LogEntry)]]
  BY DEF TypeOK
<1>0. UNCHANGED <<log, storage>> => LogStored'
  BY DEF LogStored
<1>1. ASSUME NEW j \in Server, NEW t, NEW v, NEW l,
             log' = [log EXCEPT ![j] = l],
             storage' = [storage EXCEPT ![j] = Persisted(t, v, l)]
      PROVE  LogStored'
  <2>1. ASSUME NEW a \in Server PROVE storage'[a].log = log'[a]
    <3>1. CASE a = j
      BY <1>t, <1>u, <1>1, <3>1 DEF Persisted
    <3>2. CASE a # j
      BY <1>t, <1>u, <1>1, <3>2 DEF LogStored
    <3> QED
      BY <3>1, <3>2
  <2> QED
    BY <2>1 DEF LogStored
<1>2. ASSUME NEW i \in Server, NEW k \in Lane,
             StartElection(i, k) \/ LeaderSendAEs(i, k)
      PROVE  LogStored'
  BY <1>0, <1>2 DEF StartElection, LeaderSendAEs
<1>3. ASSUME NEW i \in Server, NEW j \in Server, NEW k \in Lane,
             CallStep(i, j, k) \/ CallFailure(i, j, k)
      PROVE  LogStored'
  <2>1. CASE RequestVote(i, j, k)
    <3>1. log' = [log EXCEPT ![j] = log[j]]
      BY <1>t, <2>1 DEF RequestVote
    <3>2. \E t, v : storage' = [storage EXCEPT ![j] = Persisted(t, v, log[j])]
      BY <2>1 DEF RequestVote
    <3> QED
      BY <1>1, <3>1, <3>2
  <2>2. CASE AppendEntries(i, j, k)
    <3>1. \E t, v, l : /\ log' = [log EXCEPT ![j] = l]
                       /\ storage' = [storage EXCEPT ![j] = Persisted(t, v, l)]
      BY <2>2 DEF AppendEntries
    <3> QED
      BY <1>1, <3>1
  <2> QED
    BY <1>0, <1>3, <2>1, <2>2
       DEF CallStep, CallFailure, SendRequestVote, DeadRequestVote,
           RequestVoteReply, SendAppendEntries, SendAppendEntriesPanics,
           DeadAppendEntries, AppendEntriesReply, RequestVoteFails,
           AppendEntriesFails
<1>4. ASSUME NEW i \in Server, NEW v \in Command, Submit(i, v)
      PROVE  LogStored'
  BY <1>1, <1>4 DEF Submit
<1>5. ASSUME NEW i \in Server, ApplyCommitted(i) \/ Stop(i)
      PROVE  LogStored'
  BY <1>0, <1>5 DEF ApplyCommitted, Stop
<1>6. ASSUME NEW i \in Server, Restart(i)
      PROVE  LogStored'
  <2>1. log' = [log EXCEPT ![i] = storage[i].log] /\ storage' = storage
    BY <1>6 DEF Restart, RestoreFromStorage
  <2> QED
    BY <1>t, <2>1 DEF LogStored
<1>7. CASE UNCHANGED vars
  BY <1>0, <1>7 DEF vars
<1> QED
  BY <1>2, <1>3, <1>4, <1>5, <1>6, <1>7 DEF Next

\* Calls that follow carry no new links.
LEMMA FollowsLinks ==
    ASSUME TypeOK, AECallsFollow
    PROVE  \A a, b \in Server, k \in Lane :
                MessageLinks(ae'[a][b][k]) \subseteq MessageLinks(ae[a][b][k])
<1> SUFFICES ASSUME NEW a \in Server, NEW b \in Server, NEW k \in Lane
             PROVE  MessageLinks(ae'[a][b][k]) \subseteq MessageLinks(ae[a][b][k])
  OBVIOUS
<1>1. AEFollows(ae[a][b][k], ae'[a][b][k])
  BY DEF AECallsFollow
<1>2. MessageLinks(NoAE) = {}
  BY DEF MessageLinks, NoAE
<1>3. CASE ae'[a][b][k] = NoAE
  BY <1>2, <1>3
<1>4. CASE ae'[a][b][k] = ae[a][b][k]
  BY <1>4
<1>5. CASE /\ ae'[a][b][k].prevLogIndex = ae[a][b][k].prevLogIndex
           /\ ae'[a][b][k].prevLogTerm = ae[a][b][k].prevLogTerm
           /\ ae'[a][b][k].entries = ae[a][b][k].entries
  BY <1>5 DEF MessageLinks
<1> QED
  BY <1>1, <1>3, <1>4, <1>5 DEF AEFollows

\* A step makes no link if every log has only links there were, and every call.
LEMMA LinksFrom ==
    ASSUME \A a \in Server : \A x \in LogLinks(log'[a]) : x \in Links,
           \A a, b \in Server, k \in Lane :
                \A x \in MessageLinks(ae'[a][b][k]) : x \in Links
    PROVE  Links' \subseteq Links
BY DEF Links

LEMMA OwnLinks ==
    ASSUME TRUE
    PROVE  /\ \A a \in Server : \A x \in LogLinks(log[a]) : x \in Links
           /\ \A a, b \in Server, k \in Lane :
                \A x \in MessageLinks(ae[a][b][k]) : x \in Links
BY LinksOf

\* No step makes a link, except that a leader accepts a command.
LEMMA LinksNext ==
    ASSUME TypeOK, LogStored, [Next]_vars
    PROVE  \/ Links' \subseteq Links
           \/ \E i \in Server, v \in Command : Submit(i, v)
<1> USE DEF cmVars
<1>t. log \in [Server -> Seq(LogEntry)]
  BY DEF TypeOK
<1>u. ae \in [Server -> [Server -> [Lane -> AECall]]]
  BY DEF TypeOK
<1>0. ASSUME log' = log, AECallsFollow
      PROVE  Links' \subseteq Links
  BY <1>0, FollowsLinks, OwnLinks, LinksFrom
<1>1. ASSUME NEW i \in Server, NEW k \in Lane, LeaderSendAEs(i, k)
      PROVE  Links' \subseteq Links
  <2> DEFINE s == [NoAE EXCEPT !.pc = "spawned", !.term = currentTerm[i]]
  <2>1. log' = log
    BY <1>1 DEF LeaderSendAEs
  <2>2. MessageLinks(NoAE) = {} /\ MessageLinks(s) = {}
    BY DEF MessageLinks, NoAE
  <2>3. \A a, b \in Server, l \in Lane :
            \/ ae'[a][b][l] \in {ae[a][b][l], NoAE}
            \/ a = i /\ b # i /\ ae'[a][b][l] = s
    BY <1>1, SpawnedCalls
  <2> HIDE DEF s
  <2>4. \A a, b \in Server, l \in Lane :
            \A x \in MessageLinks(ae'[a][b][l]) : x \in Links
    BY <2>2, <2>3, OwnLinks
  <2> QED
    BY <2>1, <2>4, OwnLinks, LinksFrom
<1>2. ASSUME NEW i \in Server, NEW j \in Server, NEW k \in Lane,
             SendAppendEntries(i, j, k)
      PROVE  Links' \subseteq Links
  <2>1. PICK d \in AECall :
             /\ ae' = [ae EXCEPT ![i][j][k] = d]
             /\ d.prevLogIndex \in 0..Len(log[i])
             /\ d.prevLogTerm = TermAt(log[i], d.prevLogIndex)
             /\ d.entries = SubSeq(log[i], d.prevLogIndex + 1, Len(log[i]))
    BY <1>2, BuiltMessage
  <2>2. log' = log
    BY <1>2 DEF SendAppendEntries
  <2>3. MessageLinks(d) \subseteq LogLinks(log[i])
    BY <1>t, <2>1, RestLinks
  <2>4. ASSUME NEW a \in Server, NEW b \in Server, NEW l \in Lane
        PROVE  ae'[a][b][l] = ae[a][b][l] \/ ae'[a][b][l] = d
    BY <1>u, <2>1
  <2>5. \A a, b \in Server, l \in Lane :
            \A x \in MessageLinks(ae'[a][b][l]) : x \in Links
    BY <2>3, <2>4, OwnLinks
  <2> QED
    BY <2>2, <2>5, OwnLinks, LinksFrom
<1>3. ASSUME NEW i \in Server, NEW j \in Server, NEW k \in Lane,
             AppendEntries(i, j, k)
      PROVE  Links' \subseteq Links
  <2> DEFINE c == ae[i][j][k]
             m == Merge(log[j], c.prevLogIndex, c.entries)
  <2>1. AECallsFollow
    BY <1>3, AnswerFollows
  <2>2. \/ log' = [log EXCEPT ![j] = log[j]]
        \/ PrevMatches(c, log[j]) /\ log' = [log EXCEPT ![j] = m]
    BY <1>3 DEF AppendEntries
  <2>3. CASE log' = [log EXCEPT ![j] = log[j]]
    <3>1. log' = log
      BY <1>t, <2>3
    <3> QED
      BY <1>0, <2>1, <3>1
  <2>4. CASE PrevMatches(c, log[j]) /\ log' = [log EXCEPT ![j] = m]
    <3>0. c \in AECall /\ log[j] \in Seq(LogEntry)
      BY <1>t, <1>u
    <3>1. \A x \in LogLinks(m) : x \in Links
      BY <2>4, <3>0, MergeLinks, LinksOf
    <3> HIDE DEF m
    <3>2. \A a \in Server : log'[a] = log[a] \/ log'[a] = m
      BY <1>t, <2>4
    <3>3. \A a \in Server : \A x \in LogLinks(log'[a]) : x \in Links
      BY <3>1, <3>2, OwnLinks
    <3> QED
      BY <2>1, <3>3, FollowsLinks, OwnLinks, LinksFrom
  <2> QED
    BY <2>2, <2>3, <2>4
<1>4. ASSUME NEW i \in Server, Restart(i)
      PROVE  Links' \subseteq Links
  <2>1. log' = [log EXCEPT ![i] = storage[i].log]
        /\ ae' = Disconnected(ae, i, NoAE)
    BY <1>4 DEF Restart, RestoreFromStorage
  <2>2. log' = log
    BY <1>t, <2>1 DEF LogStored
  <2> QED
    BY <1>0, <2>1, <2>2, DisconnectedAEFollows
<1>5. \/ log' = log
      \/ \E i \in Server, v \in Command : Submit(i, v)
      \/ \E i, j \in Server, k \in Lane : AppendEntries(i, j, k)
      \/ \E i \in Server : Restart(i)
  <2>1. ASSUME NEW i \in Server, NEW k \in Lane,
               StartElection(i, k) \/ LeaderSendAEs(i, k)
        PROVE  log' = log
    BY <2>1 DEF StartElection, LeaderSendAEs
  <2>2. ASSUME NEW i \in Server, NEW j \in Server, NEW k \in Lane,
               CallStep(i, j, k) \/ CallFailure(i, j, k),
               ~AppendEntries(i, j, k)
        PROVE  log' = log
    BY <2>2
       DEF CallStep, CallFailure, SendRequestVote, RequestVote,
           DeadRequestVote, RequestVoteReply, SendAppendEntries,
           SendAppendEntriesPanics, DeadAppendEntries, AppendEntriesReply,
           RequestVoteFails, AppendEntriesFails
  <2>3. ASSUME NEW i \in Server, ApplyCommitted(i) \/ Stop(i)
        PROVE  log' = log
    BY <2>3 DEF ApplyCommitted, Stop
  <2>4. CASE UNCHANGED vars
    BY <2>4 DEF vars
  <2> QED
    BY <2>1, <2>2, <2>3, <2>4 DEF Next
<1> QED
  BY <1>0, <1>1, <1>2, <1>3, <1>4, <1>5, CallsFollowNext

\* Submit makes one link, at the end of the log of the leader of the term.
LEMMA SubmitLinks ==
    ASSUME TypeOK, NEW i \in Server, NEW v \in Command, Submit(i, v)
    PROVE  \A x \in Links' :
              \/ x \in Links
              \/ x = <<Len(log[i]) + 1, currentTerm[i], v, LastTerm(log[i])>>
<1> DEFINE e == [term |-> currentTerm[i], command |-> v]
<1>1. log' = [log EXCEPT ![i] = Append(log[i], e)] /\ ae' = ae
  BY DEF Submit
<1>2. log \in [Server -> Seq(LogEntry)]
  BY DEF TypeOK
<1>3. e \in LogEntry /\ e.term = currentTerm[i] /\ e.command = v
  BY DEF TypeOK, LogEntry
<1> HIDE DEF e
<1>4. ASSUME NEW a \in Server, NEW x \in LogLinks(log'[a])
      PROVE  \/ x \in Links
             \/ x = <<Len(log[i]) + 1, currentTerm[i], v, LastTerm(log[i])>>
  <2>1. CASE a = i
    <3>1. log[i] \in Seq(LogEntry) /\ x \in LogLinks(Append(log[i], e))
      BY <1>1, <1>2, <1>4, <2>1
    <3>2. x \in LogLinks(log[i])
            \/ x = <<Len(log[i]) + 1, e.term, e.command, LastTerm(log[i])>>
      BY <1>3, <3>1, AppendLinks
    <3> QED
      BY <1>3, <3>2, OwnLinks
  <2>2. CASE a # i
    <3>1. log'[a] = log[a]
      BY <1>1, <1>2, <2>2
    <3> QED
      BY <1>4, <3>1, OwnLinks
  <2> QED
    BY <2>1, <2>2
<1> SUFFICES ASSUME NEW x \in Links'
             PROVE  \/ x \in Links
                    \/ x = <<Len(log[i]) + 1, currentTerm[i], v, LastTerm(log[i])>>
  OBVIOUS
<1>5. \/ \E a \in Server : x \in LogLinks(log'[a])
      \/ \E a, b \in Server, k \in Lane : x \in MessageLinks(ae'[a][b][k])
  BY DEF Links
<1> QED
  BY <1>1, <1>4, <1>5, OwnLinks

\* Its place is beyond all the term has, the leader owns the term, and no
\* other leads it.
LEMMA SubmitKeeps ==
    ASSUME TypeOK, TypeOK', ElectionInv, LeadershipInv, ElectionStep, LinkInv,
           NEW i \in Server, NEW v \in Command, Submit(i, v)
    PROVE  LinksUnique' /\ TermsOwned' /\ LeaderCovers'
<1> DEFINE n == Len(log[i]) + 1
           t == currentTerm[i]
           new == <<n, t, v, LastTerm(log[i])>>
<1>1. \A x \in Links' : x \in Links \/ x = new
  BY SubmitLinks
<1>2. state[i] = "Leader" /\ UNCHANGED <<state, currentTerm>>
  BY DEF Submit
<1>3. \A a \in Server : log[a] \in Seq(LogEntry)
  BY DEF TypeOK
<1>4. \A a \in Server : Len(log[a]) \in Nat
  BY <1>3
<1>5. \A x \in Links : x[1] \in Nat /\ x[2] \in Nat
  BY LinkIsTyped
<1>6. \A x \in Links : x[2] = t => x[1] # n
  BY <1>2, <1>4, <1>5 DEF LinkInv, LeaderCovers
<1>7. new[1] = n /\ new[2] = t /\ t \in Nat
  BY DEF TypeOK
<1> HIDE DEF n, t, new
<1>8. LinksUnique'
  BY <1>1, <1>6, <1>7 DEF LinkInv, LinksUnique
<1>9. TermsOwned'
  <2>1. \A s : s = t => Owns(i, s)'
    BY SubmitOwns DEF t
  <2>2. \A x \in Links : \E o \in Server : Owns(o, x[2])'
    BY <1>5, OwnsStays DEF LinkInv, TermsOwned
  <2> SUFFICES ASSUME NEW x \in Links'
               PROVE  \E o \in Server : Owns(o, x[2])'
    BY DEF TermsOwned
  <2>3. CASE x \in Links
    BY <2>2, <2>3
  <2>4. CASE x = new
    <3>1. x[2] = t
      BY <1>7, <2>4
    <3> QED
      BY <2>1, <3>1
  <2> QED
    BY <1>1, <2>3, <2>4
<1>10. LeaderCovers'
  <2> SUFFICES ASSUME NEW a \in Server, state'[a] = "Leader",
                      NEW x \in Links', x[2] = currentTerm'[a]
               PROVE  x[1] <= Len(log'[a])
    BY DEF LeaderCovers
  <2>1. Len(log'[i]) = n /\ \A b \in Server : b # i => log'[b] = log[b]
    <3>1. log' = [log EXCEPT ![i] =
                    Append(log[i], [term |-> currentTerm[i], command |-> v])]
      BY DEF Submit
    <3>2. log \in [Server -> Seq(LogEntry)]
      BY DEF TypeOK
    <3>3. log'[i] = Append(log[i], [term |-> currentTerm[i], command |-> v])
      BY <3>1, <3>2
    <3>4. [term |-> currentTerm[i], command |-> v] \in LogEntry
      BY DEF TypeOK, LogEntry
    <3>5. Len(log'[i]) = n
      BY <1>3, <3>3, <3>4 DEF n
    <3> QED
      BY <3>1, <3>2, <3>5
  <2>2. CASE x \in Links
    <3>1. x[1] <= Len(log[a]) /\ x[1] \in Nat
      BY <1>2, <1>5, <2>2 DEF LinkInv, LeaderCovers
    <3>2. CASE a = i
      BY <1>4, <2>1, <3>1, <3>2 DEF n
    <3> QED
      BY <2>1, <3>1, <3>2
  <2>3. CASE x = new
    <3>1. a = i
      BY <1>2, <1>7, <2>3, ElectionInvImplies DEF ElectionSafety, t
    <3>2. n \in Nat
      BY <1>4 DEF n
    <3> QED
      BY <1>7, <2>1, <2>3, <3>1, <3>2
  <2> QED
    BY <1>1, <2>2, <2>3
<1> QED
  BY <1>8, <1>9, <1>10

LEMMA LinkInvNext ==
    ASSUME Timely, TypeOK, TypeOK', ElectionInv, ElectionInv', LeadershipInv,
           NextInv, LinkInv, [Next]_vars
    PROVE  LinkInv'
<1>1. ElectionStep
  BY ElectionStepNext DEF LeadershipInv
<1>2. LogStored'
  BY LogStoredStays DEF LinkInv
<1>3. CASE \E i \in Server, v \in Command : Submit(i, v)
  BY <1>1, <1>2, <1>3, SubmitKeeps DEF LinkInv
<1>4. CASE Links' \subseteq Links
  <2>t. \A i \in Server : Len(log[i]) \in Nat
    <3>1. \A i \in Server : log[i] \in Seq(LogEntry)
      BY DEF TypeOK
    <3> QED
      BY <3>1
  <2>1. \A i \in Server : state[i] = "Leader" /\ state'[i] = "Leader"
            => Len(log'[i]) >= Len(log[i])
    <3>1. CASE \A a \in Server : LeadStep(a)
      BY <3>1 DEF LeadStep
    <3>2. CASE \E i \in Server, k \in Lane : LeaderSendAEs(i, k)
      <4>1. log' = log
        BY <3>2 DEF LeaderSendAEs, cmVars
      <4> QED
        BY <2>t, <4>1
    <3>3. CASE \E i, j \in Server, k \in Lane : SendAppendEntries(i, j, k)
      <4>1. log' = log
        BY <3>3 DEF SendAppendEntries, cmVars
      <4> QED
        BY <2>t, <4>1
    <3> QED
      BY <3>1, <3>2, <3>3, LeadStepNext
  <2> QED
    BY <1>1, <1>2, <1>4, <2>1, LinksShrink DEF LinkInv
<1> QED
  BY <1>3, <1>4, LinksNext DEF LinkInv

LEMMA LinkInvInit == Init => LinkInv
<1> SUFFICES ASSUME Init
             PROVE  LinkInv
  OBVIOUS
<1>1. \A i \in Server : log[i] = <<>> /\ storage[i].log = <<>>
  BY DEF Init, Persisted
<1>2. \A i, j \in Server, k \in Lane : ae[i][j][k] = NoAE
  BY DEF Init
<1>3. LogLinks(<<>>) = {} /\ MessageLinks(NoAE) = {}
  BY DEF LogLinks, MessageLinks, NoAE
<1>4. Links = {}
  BY <1>1, <1>2, <1>3 DEF Links
<1> QED
  BY <1>1, <1>4 DEF LinkInv, LogStored, LinksUnique, TermsOwned, LeaderCovers

\* LogMatching holds in every reachable state: two logs with an entry of the
\* same term at the same index are equal up to it, whatever AppendEntries is
\* late, lost or retried, and whoever is restarted from a storage that does not
\* know the last term it stood in.
THEOREM LogsMatch ==
    ASSUME Timely
    PROVE  Spec => []LogMatching
<1> DEFINE I == TypeOK /\ ElectionInv /\ LeadershipInv /\ NextInv /\ LinkInv
<1>1. Init => I
  BY TypeInit, ElectionInit, LeadershipInit, NextInvInit, LinkInvInit
<1>2. I /\ [Next]_vars => I'
  BY TypeNext, ElectionNext, LeadershipNext, NextInvNext, LinkInvNext
<1>3. I => LogMatching
  BY LinkInvImplies
<1> QED
  BY <1>1, <1>2, <1>3, PTL DEF Spec

-----------------------------------------------------------------------------
(* What a step does to logs, messages and candidates *)

\* CM j takes over the entries of a message of CM i.
Accepts(i, j, k) ==
    LET c == ae[i][j][k]
    IN  /\ Arrived(c) /\ c.term >= currentTerm[j] /\ PrevMatches(c, log[j])
        /\ log'[j] = Merge(log[j], c.prevLogIndex, c.entries)
        /\ storage'[j].currentTerm = c.term
        /\ currentTerm'[j] = c.term /\ state'[j] = "Follower"

\* CM j, which leads, takes a command.
Takes(j) ==
    /\ state[j] = "Leader" /\ state'[j] = "Leader"
    /\ currentTerm'[j] = currentTerm[j]
    /\ storage'[j].currentTerm = currentTerm[j]
    /\ \E v \in Command :
        log'[j] = Append(log[j], [term |-> currentTerm[j], command |-> v])

KeepsLog(j) ==
    log'[j] = log[j] /\ storage'[j].currentTerm >= storage[j].currentTerm

LogStep(j) ==
    KeepsLog(j) \/ Takes(j) \/ \E i \in Server, k \in Lane : Accepts(i, j, k)

\* Steps that change neither logs nor storage.
LEMMA LogsKept ==
    ASSUME TypeOK, UNCHANGED <<log, storage>>
    PROVE  \A j \in Server : LogStep(j)
<1>1. \A j \in Server : storage[j].currentTerm \in Nat
  BY DEF TypeOK
<1> QED
  BY <1>1 DEF LogStep, KeepsLog

\* Steps that write one storage.
LEMMA OneLogStep ==
    ASSUME TypeOK, NEW j \in Server, NEW s, NEW l, LogStep(j),
           storage' = [storage EXCEPT ![j] = s], log' = [log EXCEPT ![j] = l]
    PROVE  \A a \in Server : LogStep(a)
<1> SUFFICES ASSUME NEW a \in Server, a # j
             PROVE  LogStep(a)
  OBVIOUS
<1>1. storage'[a] = storage[a] /\ log'[a] = log[a]
  <2>1. /\ storage \in [Server -> [currentTerm : Nat, votedFor : Server \cup {Nil},
                                   log : Seq(LogEntry)]]
        /\ log \in [Server -> Seq(LogEntry)]
    BY DEF TypeOK
  <2> QED
    BY <2>1
<1>2. storage[a].currentTerm \in Nat
  BY DEF TypeOK
<1> QED
  BY <1>1, <1>2 DEF LogStep, KeepsLog

\* A request of the CM's own or of a newer term whose previous entry the CM has
\* is accepted: its entries are merged into the log, and the CM follows.
LEMMA AcceptsSuccess ==
    ASSUME TypeOK, NEW i \in Server, NEW j \in Server, NEW k \in Lane,
           AppendEntries(i, j, k),
           ae[i][j][k].term = NewTerm(ae[i][j][k].term, currentTerm[j]),
           PrevMatches(ae[i][j][k], log[j])
    PROVE  /\ Accepts(i, j, k)
           /\ log' = [log EXCEPT ![j] = Merge(log[j], ae[i][j][k].prevLogIndex,
                                              ae[i][j][k].entries)]
<1> DEFINE c == ae[i][j][k]
           term == NewTerm(c.term, currentTerm[j])
           newLog == IF c.term = term /\ PrevMatches(c, log[j])
                     THEN Merge(log[j], c.prevLogIndex, c.entries) ELSE log[j]
           down == \/ c.term > currentTerm[j]
                   \/ c.term = term /\ state[j] # "Follower"
           vote == IF down THEN Nil ELSE votedFor[j]
<1>1. /\ Arrived(c)
      /\ currentTerm' = [currentTerm EXCEPT ![j] = term]
      /\ log' = [log EXCEPT ![j] = newLog]
      /\ storage' = [storage EXCEPT ![j] = Persisted(term, vote, newLog)]
      /\ state' = [state EXCEPT ![j] = IF down THEN "Follower" ELSE @]
  BY DEF AppendEntries
<1>2. c.term \in Nat /\ currentTerm[j] \in Nat
  <2>1. c \in AECall
    BY DEF TypeOK
  <2> QED
    BY <2>1 DEF TypeOK, AECall
<1>3. /\ currentTerm'[j] = term /\ log'[j] = newLog
      /\ storage'[j].currentTerm = term
      /\ state'[j] = IF down THEN "Follower" ELSE state[j]
  <2>1. /\ currentTerm \in [Server -> Nat] /\ log \in [Server -> Seq(LogEntry)]
        /\ state \in [Server -> CMState]
    BY DEF TypeOK
  <2>2. storage \in [Server -> [currentTerm : Nat, votedFor : Server \cup {Nil},
                                   log : Seq(LogEntry)]]
    BY DEF TypeOK
  <2>3. storage'[j] = Persisted(term, vote, newLog)
    BY <1>1, <2>2
  <2>4. storage'[j].currentTerm = term
    BY <2>3 DEF Persisted
  <2> QED
    BY <1>1, <2>1, <2>4
<1>4. term \in Nat /\ term >= c.term /\ term >= currentTerm[j]
  BY <1>2 DEF NewTerm
<1>5. c.term = term /\ PrevMatches(c, log[j])
  OBVIOUS
<1>6. state'[j] = "Follower"
  BY <1>3, <1>5
<1>7. newLog = Merge(log[j], c.prevLogIndex, c.entries)
  BY <1>5
<1> QED
  BY <1>1, <1>3, <1>4, <1>5, <1>6, <1>7 DEF Accepts

LEMMA AppendEntriesLogStep ==
    ASSUME TypeOK, StorageBehind, NEW i \in Server, NEW j \in Server, NEW k \in Lane,
           AppendEntries(i, j, k)
    PROVE  LogStep(j)
<1> DEFINE c == ae[i][j][k]
           term == NewTerm(c.term, currentTerm[j])
           success == c.term = term /\ PrevMatches(c, log[j])
           down == \/ c.term > currentTerm[j]
                   \/ c.term = term /\ state[j] # "Follower"
           vote == IF down THEN Nil ELSE votedFor[j]
<1>1. CASE success
  BY <1>1, AcceptsSuccess DEF LogStep
<1>2. CASE ~success
  <2>1. /\ log' = [log EXCEPT ![j] = log[j]]
        /\ storage' = [storage EXCEPT ![j] = Persisted(term, vote, log[j])]
    BY <1>2 DEF AppendEntries
  <2>2. c.term \in Nat /\ currentTerm[j] \in Nat /\ storage[j].currentTerm \in Nat
    <3>1. c \in AECall
      BY DEF TypeOK
    <3> QED
      BY <3>1 DEF TypeOK, AECall
  <2>3. term \in Nat /\ term >= currentTerm[j]
    BY <2>2 DEF NewTerm
  <2>4. storage'[j].currentTerm = term
    <3>1. storage'[j] = Persisted(term, vote, log[j])
      BY <2>1 DEF TypeOK
    <3> QED
      BY <3>1 DEF Persisted
  <2>5. log'[j] = log[j]
    BY <2>1 DEF TypeOK
  <2>6. storage[j].currentTerm <= currentTerm[j]
    BY DEF StorageBehind
  <2> HIDE DEF term
  <2>7. storage'[j].currentTerm >= storage[j].currentTerm
    BY <2>2, <2>3, <2>4, <2>6
  <2> QED
    BY <2>5, <2>7 DEF LogStep, KeepsLog
<1> QED
  BY <1>1, <1>2

LEMMA LogStepNext ==
    ASSUME TypeOK, StorageBehind, LogStored, [Next]_vars
    PROVE  \A j \in Server : LogStep(j)
<1> USE DEF cmVars
<1>t. log \in [Server -> Seq(LogEntry)]
  BY DEF TypeOK
<1>u. storage \in [Server -> [currentTerm : Nat, votedFor : Server \cup {Nil},
                              log : Seq(LogEntry)]]
  BY DEF TypeOK
<1>v. currentTerm \in [Server -> Nat] /\ state \in [Server -> CMState]
  BY DEF TypeOK
<1>2. ASSUME NEW i \in Server, NEW k \in Lane,
             StartElection(i, k) \/ LeaderSendAEs(i, k)
      PROVE  \A j \in Server : LogStep(j)
  BY <1>2, LogsKept DEF StartElection, LeaderSendAEs
<1>3. ASSUME NEW i \in Server, NEW j \in Server, NEW k \in Lane,
             CallStep(i, j, k) \/ CallFailure(i, j, k)
      PROVE  \A a \in Server : LogStep(a)
  <2>1. CASE RequestVote(i, j, k)
    <3> DEFINE t == NewTerm(rv[i][j][k].term, currentTerm[j])
    <3>0. log' = log
      BY <2>1 DEF RequestVote
    <3>1. log' = [log EXCEPT ![j] = log[j]]
      BY <1>t, <3>0
    <3>2. PICK v : storage' = [storage EXCEPT ![j] = Persisted(t, v, log[j])]
      BY <2>1 DEF RequestVote
    <3>3. storage'[j].currentTerm = t
      <4>1. storage'[j] = Persisted(t, v, log[j])
        BY <1>u, <3>2
      <4> QED
        BY <4>1 DEF Persisted
    <3>4. rv[i][j][k].term \in Nat /\ currentTerm[j] \in Nat
      <4>1. rv[i][j][k] \in RVCall
        BY DEF TypeOK
      <4> QED
        BY <1>v, <4>1 DEF RVCall
    <3>5. t \in Nat /\ t >= currentTerm[j]
      BY <3>4 DEF NewTerm
    <3>6. storage[j].currentTerm <= currentTerm[j] /\ storage[j].currentTerm \in Nat
      BY <1>u DEF StorageBehind
    <3> HIDE DEF t
    <3>7. KeepsLog(j)
      BY <3>0, <3>3, <3>4, <3>5, <3>6 DEF KeepsLog
    <3> QED
      BY <3>1, <3>2, <3>7, OneLogStep DEF LogStep
  <2>2. CASE AppendEntries(i, j, k)
    <3>1. \E s, l : /\ log' = [log EXCEPT ![j] = l]
                    /\ storage' = [storage EXCEPT ![j] = s]
      BY <2>2 DEF AppendEntries
    <3> QED
      BY <2>2, <3>1, AppendEntriesLogStep, OneLogStep
  <2>3. CASE ~RequestVote(i, j, k) /\ ~AppendEntries(i, j, k)
    <3>1. UNCHANGED <<log, storage>>
      BY <1>3, <2>3
       DEF CallStep, CallFailure, SendRequestVote, DeadRequestVote,
           RequestVoteReply, SendAppendEntries, SendAppendEntriesPanics,
           DeadAppendEntries, AppendEntriesReply, RequestVoteFails,
           AppendEntriesFails
    <3> QED
      BY <3>1, LogsKept
  <2> QED
    BY <2>1, <2>2, <2>3
<1>4. ASSUME NEW i \in Server, NEW v \in Command, Submit(i, v)
      PROVE  \A j \in Server : LogStep(j)
  <2> DEFINE l == Append(log[i], [term |-> currentTerm[i], command |-> v])
  <2>1. /\ log' = [log EXCEPT ![i] = l]
        /\ storage' = [storage EXCEPT ![i] = Persisted(currentTerm[i], votedFor[i], l)]
        /\ state[i] = "Leader" /\ state' = state /\ currentTerm' = currentTerm
    BY <1>4 DEF Submit
  <2>2. log'[i] = l
    BY <1>t, <2>1
  <2>3. storage'[i].currentTerm = currentTerm[i]
    <3>1. storage'[i] = Persisted(currentTerm[i], votedFor[i], l)
      BY <1>u, <2>1
    <3> QED
      BY <3>1 DEF Persisted
  <2>4. Takes(i)
    BY <2>1, <2>2, <2>3 DEF Takes
  <2> QED
    BY <2>1, <2>4, OneLogStep DEF LogStep
<1>5. ASSUME NEW i \in Server, ApplyCommitted(i) \/ Stop(i)
      PROVE  \A j \in Server : LogStep(j)
  BY <1>5, LogsKept DEF ApplyCommitted, Stop
<1>6. ASSUME NEW i \in Server, Restart(i)
      PROVE  \A j \in Server : LogStep(j)
  <2>1. log' = [log EXCEPT ![i] = storage[i].log] /\ storage' = storage
    BY <1>6 DEF Restart, RestoreFromStorage
  <2>2. log' = log
    BY <1>t, <2>1 DEF LogStored
  <2> QED
    BY <2>1, <2>2, LogsKept
<1>7. CASE UNCHANGED vars
  BY <1>7, LogsKept DEF vars
<1> QED
  BY <1>2, <1>3, <1>4, <1>5, <1>6, <1>7 DEF Next

\* Two records of one message.
SameMessage(c, d) ==
    /\ d.term = c.term /\ d.prevLogIndex = c.prevLogIndex
    /\ d.prevLogTerm = c.prevLogTerm /\ d.entries = c.entries
    /\ d.leaderCommit = c.leaderCommit

\* A request is orphaned,
Orphaned(c, d) ==
    Arrived(c) /\ d.pc = "orphan" /\ SameMessage(c, d) /\ d.success = c.success

\* or answered, and with success only if it was accepted,
Answers(a, b, k) ==
    LET c == ae[a][b][k]
        d == ae'[a][b][k]
    IN  /\ c.pc = "sent" /\ d.pc = "replied" /\ SameMessage(c, d)
        /\ \/ d.success = c.success
           \/ d.success = FALSE
           \/ Accepts(a, b, k) /\ d.rterm = c.term

\* or a goroutine is spawned for it,
Spawns(a, b, k) ==
    LET d == ae'[a][b][k]
    IN  /\ d.pc = "spawned" /\ d.term = currentTerm[a] /\ d.success = FALSE
        /\ state[a] = "Leader" /\ UNCHANGED <<state, currentTerm>>

\* or its arguments are built.
Builds(a, b, k) ==
    LET c == ae[a][b][k]
        d == ae'[a][b][k]
    IN  /\ c.pc = "spawned" /\ d.pc = "sent" /\ d.term = c.term
        /\ d.prevLogIndex \in 0..Len(log[a])
        /\ d.prevLogTerm = TermAt(log[a], d.prevLogIndex)
        /\ d.entries = SubSeq(log[a], d.prevLogIndex + 1, Len(log[a]))
        /\ d.leaderCommit = commitIndex[a] /\ d.success = c.success
        /\ misdated' = {} => LastTerm(log[a]) <= c.term
        /\ UNCHANGED <<cmVars, storage, elected, granted, chosen, forgotten>>

AEStep(a, b, k) ==
    \/ ae'[a][b][k] \in {ae[a][b][k], NoAE}
    \/ Orphaned(ae[a][b][k], ae'[a][b][k])
    \/ Answers(a, b, k) \/ Spawns(a, b, k) \/ Builds(a, b, k)

\* One call that takes a step, among others that do not change.
LEMMA OneAEStep ==
    ASSUME TypeOK, NEW i \in Server, NEW j \in Server, NEW k \in Lane, NEW d,
           ae' = [ae EXCEPT ![i][j][k] = d], AEStep(i, j, k)
    PROVE  \A a, b \in Server, l \in Lane : AEStep(a, b, l)
<1>1. ae \in [Server -> [Server -> [Lane -> AECall]]]
  BY DEF TypeOK
<1> SUFFICES ASSUME NEW a \in Server, NEW b \in Server, NEW l \in Lane,
                    ~(a = i /\ b = j /\ l = k)
             PROVE  AEStep(a, b, l)
  OBVIOUS
<1>2. ae'[a][b][l] = ae[a][b][l]
  BY <1>1
<1> QED
  BY <1>2 DEF AEStep

LEMMA OrphanIs ==
    ASSUME NEW c \in AECall, Arrived(c)
    PROVE  Orphaned(c, [c EXCEPT !.pc = "orphan"])
<1> DEFINE d == [c EXCEPT !.pc = "orphan"]
<1>1. /\ d.pc = "orphan" /\ d.term = c.term /\ d.prevLogIndex = c.prevLogIndex
      /\ d.prevLogTerm = c.prevLogTerm /\ d.entries = c.entries
      /\ d.leaderCommit = c.leaderCommit /\ d.success = c.success
  BY DEF AECall
<1> HIDE DEF d
<1>2. Orphaned(c, d)
  BY <1>1 DEF Orphaned, SameMessage
<1> QED
  BY <1>2 DEF d

LEMMA DisconnectedAEStep ==
    ASSUME TypeOK, NEW i \in Server, ae' = Disconnected(ae, i, NoAE),
           NEW a \in Server, NEW b \in Server, NEW l \in Lane
    PROVE  AEStep(a, b, l)
<1>1. ae[a][b][l] \in AECall
  BY DEF TypeOK
<1>2. \/ ae'[a][b][l] \in {ae[a][b][l], NoAE}
      \/ /\ Arrived(ae[a][b][l])
         /\ ae'[a][b][l] = [ae[a][b][l] EXCEPT !.pc = "orphan"]
  BY DEF Disconnected
<1> QED
  BY <1>1, <1>2, OrphanIs DEF AEStep

LEMMA AppendEntriesAnswers ==
    ASSUME TypeOK, StorageBehind, NEW i \in Server, NEW j \in Server,
           NEW k \in Lane, AppendEntries(i, j, k)
    PROVE  AEStep(i, j, k)
<1> DEFINE c == ae[i][j][k]
           term == NewTerm(c.term, currentTerm[j])
           current == c.term = term
           success == current /\ PrevMatches(c, log[j])
           short == c.prevLogIndex > Len(log[j])
           ci == CASE ~current \/ success -> c.conflictIndex
                   [] current /\ ~success /\ short -> Len(log[j]) + 1
                   [] OTHER -> ConflictIndex(log[j], c.prevLogIndex)
           ct == CASE ~current \/ success -> c.conflictTerm
                   [] current /\ ~success /\ short -> -1
                   [] OTHER -> TermAt(log[j], c.prevLogIndex)
           d == [c EXCEPT !.pc = "replied", !.rterm = term,
                          !.success = success, !.conflictIndex = ci,
                          !.conflictTerm = ct]
<1>1. /\ ae' = [ae EXCEPT ![i][j][k] = IF c.pc = "orphan" THEN NoAE ELSE d]
      /\ Arrived(c)
  BY DEF AppendEntries
<1>2. c \in AECall /\ ae \in [Server -> [Server -> [Lane -> AECall]]]
  <2>1. ae \in [Server -> [Server -> [Lane -> AECall]]]
    BY DEF TypeOK
  <2> QED
    BY <2>1
<1>3. ae'[i][j][k] = IF c.pc = "orphan" THEN NoAE ELSE d
  <2> HIDE DEF d
  <2> QED
    BY <1>1, <1>2
<1>4. CASE c.pc = "orphan"
  BY <1>3, <1>4 DEF AEStep
<1>5. CASE c.pc # "orphan"
  <2>1. c.pc = "sent" /\ ae'[i][j][k] = d
    BY <1>1, <1>3, <1>5 DEF Arrived
  <2> HIDE DEF ci, ct
  <2>2. /\ d.pc = "replied" /\ d.term = c.term /\ d.prevLogIndex = c.prevLogIndex
        /\ d.prevLogTerm = c.prevLogTerm /\ d.entries = c.entries
        /\ d.leaderCommit = c.leaderCommit /\ d.rterm = term
    BY <1>2 DEF AECall
  <2>3. d.success = success
    BY <1>2 DEF AECall
  <2>4. SameMessage(c, d)
    <3> HIDE DEF d, c
    <3> QED
      BY <2>2 DEF SameMessage
  <2>5. CASE ~success
    <3>1. d.success = FALSE
      <4> HIDE DEF d
      <4> QED
        BY <2>3, <2>5
    <3>2. Answers(i, j, k)
      <4> HIDE DEF d
      <4> QED
        BY <2>1, <2>2, <2>4, <3>1 DEF Answers
    <3> QED
      BY <3>2 DEF AEStep
  <2>6. CASE success
    <3>1. Accepts(i, j, k)
      BY <2>6, AcceptsSuccess
    <3>2. d.rterm = c.term
      BY <2>2, <2>6
    <3>3. Answers(i, j, k)
      <4> HIDE DEF d
      <4> QED
        BY <2>1, <2>2, <2>4, <3>1, <3>2 DEF Answers
    <3> QED
      BY <3>3 DEF AEStep
  <2> QED
    BY <2>5, <2>6
<1> QED
  BY <1>4, <1>5

LEMMA AEStepNext ==
    ASSUME TypeOK, StorageBehind, [Next]_vars
    PROVE  \A a, b \in Server, l \in Lane : AEStep(a, b, l)
<1>0. ae' = ae => \A a, b \in Server, l \in Lane : AEStep(a, b, l)
  BY DEF AEStep
<1>u. ae \in [Server -> [Server -> [Lane -> AECall]]]
  BY DEF TypeOK
<1>1. ASSUME NEW i \in Server, NEW k \in Lane,
             StartElection(i, k) \/ LeaderSendAEs(i, k),
             NEW a \in Server, NEW b \in Server, NEW l \in Lane
      PROVE  AEStep(a, b, l)
  <2>1. CASE StartElection(i, k)
    BY <1>0, <2>1 DEF StartElection
  <2>2. CASE LeaderSendAEs(i, k)
    <3> DEFINE s == [NoAE EXCEPT !.pc = "spawned", !.term = currentTerm[i]]
    <3>0. \A x, y \in Server, m \in Lane :
            \/ ae'[x][y][m] \in {ae[x][y][m], NoAE}
            \/ /\ x = i /\ y # i
               /\ ae'[x][y][m] = [NoAE EXCEPT !.pc = "spawned",
                                              !.term = currentTerm[i]]
      BY <2>2, SpawnedCalls
    <3>1. \/ ae'[a][b][l] \in {ae[a][b][l], NoAE}
          \/ a = i /\ ae'[a][b][l] = s
      BY <3>0
    <3>2. s.pc = "spawned" /\ s.term = currentTerm[i] /\ s.success = FALSE
      BY DEF NoAE
    <3>3. state[i] = "Leader" /\ UNCHANGED <<state, currentTerm>>
      BY <2>2 DEF LeaderSendAEs, cmVars
    <3> HIDE DEF s
    <3>4. ASSUME a = i, ae'[a][b][l] = s PROVE Spawns(a, b, l)
      BY <3>2, <3>3, <3>4 DEF Spawns
    <3>5. CASE ae'[a][b][l] \in {ae[a][b][l], NoAE}
      BY <3>5 DEF AEStep
    <3>6. CASE a = i /\ ae'[a][b][l] = s
      <4>1. Spawns(a, b, l)
        BY <3>4, <3>6
      <4> QED
        BY <4>1 DEF AEStep
    <3> QED
      BY <3>1, <3>5, <3>6
  <2> QED
    BY <1>1, <2>1, <2>2
<1>2. ASSUME NEW i \in Server, NEW j \in Server, NEW k \in Lane,
             CallStep(i, j, k) \/ CallFailure(i, j, k)
      PROVE  \A a, b \in Server, l \in Lane : AEStep(a, b, l)
  <2> DEFINE c == ae[i][j][k]
  <2>0. c \in AECall
    BY <1>u
  <2>1. CASE SendRequestVote(i, j, k) \/ RequestVote(i, j, k)
                \/ DeadRequestVote(i, j, k) \/ RequestVoteReply(i, j, k)
                \/ RequestVoteFails(i, j, k)
    BY <1>0, <2>1 DEF SendRequestVote, RequestVote, DeadRequestVote,
                      RequestVoteReply, RequestVoteFails
  <2>2. CASE SendAppendEntriesPanics(i, j, k)
    BY <2>2, DisconnectedAEStep DEF SendAppendEntriesPanics
  <2>3. CASE AppendEntries(i, j, k)
    <3>1. \E d : ae' = [ae EXCEPT ![i][j][k] = d]
      BY <2>3 DEF AppendEntries
    <3> QED
      BY <2>3, <3>1, AppendEntriesAnswers, OneAEStep
  <2>4. CASE DeadAppendEntries(i, j, k)
    <3> DEFINE d == [c EXCEPT !.pc = "replied"]
    <3>1. /\ ae' = [ae EXCEPT ![i][j][k] = IF c.pc = "orphan" THEN NoAE ELSE d]
          /\ c.pc \in {"sent", "orphan"}
      BY <2>4 DEF DeadAppendEntries, Arrived
    <3>2. /\ d.pc = "replied" /\ d.term = c.term /\ d.prevLogIndex = c.prevLogIndex
          /\ d.prevLogTerm = c.prevLogTerm /\ d.entries = c.entries
          /\ d.leaderCommit = c.leaderCommit /\ d.success = c.success
      BY <2>0 DEF AECall
    <3> HIDE DEF d
    <3>3. ae'[i][j][k] = IF c.pc = "orphan" THEN NoAE ELSE d
      BY <1>u, <3>1
    <3>4. AEStep(i, j, k)
      BY <3>1, <3>2, <3>3 DEF AEStep, Answers, SameMessage
    <3> QED
      BY <3>1, <3>4, OneAEStep
  <2>5. CASE AppendEntriesReply(i, j, k)
    <3>1. ae' = [ae EXCEPT ![i][j][k] = NoAE]
      BY <2>5 DEF AppendEntriesReply
    <3>2. ae'[i][j][k] = NoAE
      BY <1>u, <3>1
    <3>3. AEStep(i, j, k)
      BY <3>2 DEF AEStep
    <3> QED
      BY <3>1, <3>3, OneAEStep
  <2>6. CASE AppendEntriesFails(i, j, k)
    <3>1. PICK d \in {NoAE, [c EXCEPT !.pc = "orphan"]} :
            CallFails(c, d, NoAE) /\ ae' = [ae EXCEPT ![i][j][k] = d]
      BY <2>6 DEF AppendEntriesFails
    <3>2. ae'[i][j][k] = d
      BY <1>u, <3>1
    <3>3. d = NoAE \/ Orphaned(c, d)
      BY <2>0, <3>1, OrphanIs DEF CallFails, Arrived
    <3>4. AEStep(i, j, k)
      BY <3>2, <3>3 DEF AEStep
    <3> QED
      BY <3>1, <3>4, OneAEStep
  <2>7. CASE SendAppendEntries(i, j, k)
    <3>1. PICK d \in AECall :
             /\ ae' = [ae EXCEPT ![i][j][k] = d]
             /\ ae[i][j][k].pc = "spawned" /\ d.pc = "sent"
             /\ d.term = ae[i][j][k].term
             /\ d.prevLogIndex \in 0..Len(log[i])
             /\ d.prevLogTerm = TermAt(log[i], d.prevLogIndex)
             /\ d.entries = SubSeq(log[i], d.prevLogIndex + 1, Len(log[i]))
             /\ d.leaderCommit = commitIndex[i]
             /\ d.success = ae[i][j][k].success
      BY <2>7, BuiltMessage
    <3>2. ae'[i][j][k] = d
      BY <1>u, <3>1
    <3>3. UNCHANGED <<cmVars, storage, elected, granted, chosen, forgotten>>
      BY <2>7 DEF SendAppendEntries
    <3>4. misdated' = {} => LastTerm(log[i]) <= c.term
      <4>1. misdated' = IF LastTerm(log[i]) > c.term
                        THEN misdated \cup {<<i, c.term>>} ELSE misdated
        BY <2>7 DEF SendAppendEntries
      <4>2. c.term \in Int
        BY <2>0 DEF AECall
      <4>3. LastTerm(log[i]) \in Int
        <5>1. log[i] \in Seq(LogEntry)
          BY DEF TypeOK
        <5>2. Len(log[i]) \in Nat
          BY <5>1
        <5> QED
          BY <5>1, <5>2, TermAtType DEF LastTerm
      <4>4. CASE LastTerm(log[i]) > c.term
        BY <4>1, <4>4
      <4>5. CASE ~(LastTerm(log[i]) > c.term)
        <5> DEFINE t == LastTerm(log[i])
        <5> HIDE DEF t, c
        <5>1. t <= c.term
          BY <4>2, <4>3, <4>5 DEF t
        <5> QED
          BY <5>1 DEF t
      <4> QED
        BY <4>4, <4>5
    <3>5. Builds(i, j, k)
      BY <3>1, <3>2, <3>3, <3>4 DEF Builds
    <3> QED
      BY <3>1, <3>5, OneAEStep DEF AEStep
  <2> QED
    BY <1>2, <2>1, <2>2, <2>3, <2>4, <2>5, <2>6, <2>7 DEF CallStep, CallFailure
<1>3. ASSUME NEW i \in Server, NEW v \in Command, Submit(i, v)
      PROVE  \A a, b \in Server, l \in Lane : AEStep(a, b, l)
  BY <1>0, <1>3 DEF Submit
<1>4. ASSUME NEW i \in Server, ApplyCommitted(i) \/ Stop(i) \/ Restart(i)
      PROVE  \A a, b \in Server, l \in Lane : AEStep(a, b, l)
  BY <1>0, <1>4, DisconnectedAEStep DEF ApplyCommitted, Stop, Restart
<1>5. CASE UNCHANGED vars
  BY <1>0, <1>5 DEF vars
<1> QED
  BY <1>1, <1>2, <1>3, <1>4, <1>5 DEF Next

\* The vote of CM v counts, or will, in the election of CM i that runs in
\* lane k.
VoteFrom(i, v, k) ==
    \/ rv[i][v][k].voteGranted
    \/ /\ v \in votesReceived[i][k]
       /\ \E j \in Server : Pending(rv[i][j][k])

\* CM h becomes leader of its term, with the votes of a majority.
Elects(h) ==
    /\ state[h] = "Candidate" /\ state'[h] = "Leader"
    /\ \A v \in Server : matchIndex'[h][v] = 0
    /\ elected' = elected \cup {<<h, currentTerm[h]>>}
    /\ UNCHANGED <<currentTerm, votedFor, log, commitIndex, storage, ae,
                   granted, chosen, forgotten, misdated, applied>>
    /\ \A a \in Server : a # h => state'[a] = state[a]
    /\ \E Q \in SUBSET Server : \E k \in Lane :
            IsQuorum(Q) /\ \A v \in Q \ {h} : VoteFrom(h, v, k)

\* CM h goes on leading; a matchIndex moves to the end of a message that the
\* peer has confirmed.
Leads(h) ==
    /\ state[h] = "Leader" /\ state'[h] = "Leader"
    /\ currentTerm'[h] = currentTerm[h]
    /\ \A v \in Server :
        \/ matchIndex'[h][v] = matchIndex[h][v]
        \/ \E k \in Lane :
            LET c == ae[h][v][k]
            IN  /\ c.pc = "replied" /\ c.success
                /\ matchIndex'[h][v] = c.prevLogIndex + Len(c.entries)

LeaderStep(h) == state'[h] = "Leader" => Elects(h) \/ Leads(h)

\* Steps that make no leader and leave the matchIndex of those there are.
LEMMA NoLeaderStep ==
    ASSUME UNCHANGED <<elected, matchIndex>>,
           \A a \in Server : state'[a] = "Leader" =>
                state[a] = "Leader" /\ currentTerm'[a] = currentTerm[a]
    PROVE  \A h \in Server : LeaderStep(h)
BY DEF LeaderStep, Leads

LEMMA CountLeaderStep ==
    ASSUME TypeOK, NEW i \in Server, NEW j \in Server, NEW k \in Lane,
           RequestVoteReply(i, j, k)
    PROVE  /\ \A h \in Server : LeaderStep(h)
           /\ elected' = elected \/ \E h \in Server : Elects(h)
<1> DEFINE c == rv[i][j][k]
           votes == votesReceived[i][k] \cup {j}
<1>t. state \in [Server -> CMState] /\ currentTerm \in [Server -> Nat]
  BY DEF TypeOK
<1>u. matchIndex \in [Server -> [Server -> Nat]]
  BY DEF TypeOK
<1>1. /\ c.pc = "replied"
      /\ UNCHANGED <<log, commitIndex, applied, storage, ae, granted,
                     chosen, forgotten, misdated>>
  BY DEF RequestVoteReply
<1>2. CASE CountsVote(i, c) /\ IsQuorum(votes) /\ StartLeader(i)
            /\ UNCHANGED <<currentTerm, votedFor>>
  <2>1. /\ matchIndex' = [matchIndex EXCEPT ![i] = [b \in Server |-> 0]]
        /\ elected' = elected \cup {<<i, currentTerm[i]>>}
        /\ state' = [state EXCEPT ![i] = "Leader"]
        /\ UNCHANGED <<currentTerm, votedFor>>
    BY <1>2 DEF StartLeader
  <2>2. state'[i] = "Leader" /\ \A a \in Server : a # i => state'[a] = state[a]
    BY <1>t, <2>1
  <2>3. \A v \in Server : matchIndex'[i][v] = 0
    BY <1>u, <2>1
  <2>4. \A a \in Server : a # i => matchIndex'[a] = matchIndex[a]
    BY <1>u, <2>1
  <2>5. \A v \in votes \ {i} : VoteFrom(i, v, k)
    BY <1>1, <1>2 DEF VoteFrom, CountsVote, Pending
  <2>6. votes \in SUBSET Server
    BY DEF TypeOK
  <2>7. Elects(i)
    <3>1. \E Q \in SUBSET Server : \E l \in Lane :
            IsQuorum(Q) /\ \A v \in Q \ {i} : VoteFrom(i, v, l)
      BY <1>2, <2>5, <2>6
    <3> QED
      BY <1>1, <1>2, <2>1, <2>2, <2>3, <3>1 DEF Elects, CountsVote
  <2>8. ASSUME NEW h \in Server, h # i, state'[h] = "Leader" PROVE Leads(h)
    BY <2>1, <2>2, <2>4, <2>8 DEF Leads
  <2> QED
    BY <2>7, <2>8 DEF LeaderStep
<1>3. CASE ~(CountsVote(i, c) /\ IsQuorum(votes) /\ StartLeader(i)
            /\ UNCHANGED <<currentTerm, votedFor>>)
  <2>1. UNCHANGED <<elected, matchIndex>>
    BY <1>3 DEF RequestVoteReply, leaderVars
  <2>2. \A a \in Server : state'[a] = "Leader" =>
                state[a] = "Leader" /\ currentTerm'[a] = currentTerm[a]
    <3>1. \/ \E t : BecomeFollower(i, t)
          \/ UNCHANGED <<state, currentTerm>>
      BY <1>3 DEF RequestVoteReply
    <3>2. ASSUME NEW t, BecomeFollower(i, t), NEW a \in Server, state'[a] = "Leader"
          PROVE  state[a] = "Leader" /\ currentTerm'[a] = currentTerm[a]
      <4>1. /\ state' = [state EXCEPT ![i] = "Follower"]
            /\ currentTerm' = [currentTerm EXCEPT ![i] = t]
        BY <3>2 DEF BecomeFollower
      <4> QED
        BY <1>t, <3>2, <4>1
    <3> QED
      BY <3>1, <3>2
  <2> QED
    BY <2>1, <2>2, NoLeaderStep
<1> QED
  BY <1>2, <1>3

LEMMA ReplyLeaderStep ==
    ASSUME TypeOK, NEW i \in Server, NEW j \in Server, NEW k \in Lane,
           AppendEntriesReply(i, j, k)
    PROVE  \A h \in Server : LeaderStep(h)
<1> DEFINE c == ae[i][j][k]
           n == (c.prevLogIndex + 1 + Len(c.entries)) - 1
<1>t. state \in [Server -> CMState] /\ currentTerm \in [Server -> Nat]
  BY DEF TypeOK
<1>u. matchIndex \in [Server -> [Server -> Nat]]
  BY DEF TypeOK
<1>v. c.prevLogIndex \in Nat /\ Len(c.entries) \in Nat
  <2>1. c \in AECall
    BY DEF TypeOK
  <2> QED
    BY <2>1, AEFields
<1>1. c.pc = "replied" /\ elected' = elected
  BY DEF AppendEntriesReply
<1>2. CASE /\ c.success
           /\ matchIndex' = [matchIndex EXCEPT ![i] =
                    [matchIndex[i] EXCEPT ![j] = n]]
           /\ UNCHANGED <<state, currentTerm>>
  <2>1. n = c.prevLogIndex + Len(c.entries)
    <3>1. \A p, e \in Nat : (p + 1 + e) - 1 = p + e
      OBVIOUS
    <3> QED
      BY <1>v, <3>1
  <2> HIDE DEF n
  <2>2. ASSUME NEW h \in Server, NEW v \in Server
        PROVE  \/ matchIndex'[h][v] = matchIndex[h][v]
               \/ h = i /\ v = j /\ matchIndex'[h][v] = n
    <3>1. matchIndex' = [matchIndex EXCEPT ![i] = [matchIndex[i] EXCEPT ![j] = n]]
      BY <1>2
    <3>2. matchIndex[i] \in [Server -> Nat]
      BY <1>u
    <3>3. CASE h = i
      <4>1. matchIndex'[h] = [matchIndex[i] EXCEPT ![j] = n]
        BY <1>u, <3>1, <3>3
      <4> QED
        BY <3>2, <3>3, <4>1
    <3>4. CASE h # i
      BY <1>u, <3>1, <3>4
    <3> QED
      BY <3>3, <3>4
  <2>3. ASSUME NEW h \in Server, state'[h] = "Leader" PROVE Leads(h)
    BY <1>1, <1>2, <2>1, <2>2, <2>3 DEF Leads
  <2> QED
    BY <2>3 DEF LeaderStep
<1>3. CASE UNCHANGED <<state, currentTerm, matchIndex>>
  BY <1>1, <1>3, NoLeaderStep
<1>4. CASE BecomeFollower(i, c.rterm) /\ UNCHANGED matchIndex
  <2>1. /\ state' = [state EXCEPT ![i] = "Follower"]
        /\ currentTerm' = [currentTerm EXCEPT ![i] = c.rterm]
    BY <1>4 DEF BecomeFollower
  <2>2. \A a \in Server : state'[a] = "Leader" =>
                state[a] = "Leader" /\ currentTerm'[a] = currentTerm[a]
    BY <1>t, <2>1
  <2> QED
    BY <1>1, <1>4, <2>2, NoLeaderStep
<1>5. \/ BecomeFollower(i, c.rterm) /\ UNCHANGED matchIndex
      \/ UNCHANGED <<state, currentTerm, matchIndex>>
      \/ /\ c.success
         /\ matchIndex' = [matchIndex EXCEPT ![i] =
                    [matchIndex[i] EXCEPT ![j] = n]]
         /\ UNCHANGED <<state, currentTerm>>
  BY DEF AppendEntriesReply, leaderVars
<1> QED
  BY <1>2, <1>3, <1>4, <1>5

\* Whoever leads was elected by the step or goes on leading.
LEMMA LeaderStepNext ==
    ASSUME TypeOK, [Next]_vars
    PROVE  /\ \A h \in Server : LeaderStep(h)
           /\ elected' = elected \/ \E h \in Server : Elects(h)
<1> USE DEF cmVars, leaderVars, history
<1>t. state \in [Server -> CMState] /\ currentTerm \in [Server -> Nat]
  BY DEF TypeOK
<1>u. matchIndex \in [Server -> [Server -> Nat]]
  BY DEF TypeOK
<1>1. ASSUME UNCHANGED <<elected, matchIndex>>, NEW i \in Server, NEW x, x # "Leader",
             NEW t, state' = [state EXCEPT ![i] = x],
             currentTerm' = [currentTerm EXCEPT ![i] = t]
      PROVE  \A h \in Server : LeaderStep(h)
  <2>1. \A a \in Server : state'[a] = "Leader" =>
                state[a] = "Leader" /\ currentTerm'[a] = currentTerm[a]
    BY <1>t, <1>1
  <2> QED
    BY <1>1, <2>1, NoLeaderStep
<1>2. ASSUME NEW i \in Server, NEW k \in Lane, StartElection(i, k)
      PROVE  elected' = elected /\ \A h \in Server : LeaderStep(h)
  <2>1. \E t : currentTerm' = [currentTerm EXCEPT ![i] = t]
    BY <1>2 DEF StartElection
  <2> QED
    BY <1>1, <1>2, <2>1 DEF StartElection
<1>3. ASSUME NEW i \in Server, NEW k \in Lane, LeaderSendAEs(i, k)
      PROVE  elected' = elected /\ \A h \in Server : LeaderStep(h)
  BY <1>3, NoLeaderStep DEF LeaderSendAEs
<1>4. ASSUME NEW i \in Server, NEW j \in Server, NEW k \in Lane,
             CallStep(i, j, k) \/ CallFailure(i, j, k)
      PROVE  /\ \A h \in Server : LeaderStep(h)
             /\ elected' = elected \/ \E h \in Server : Elects(h)
  <2>1. CASE RequestVoteReply(i, j, k)
    BY <2>1, CountLeaderStep
  <2>2. CASE AppendEntriesReply(i, j, k)
    <3>1. elected' = elected
      BY <2>2 DEF AppendEntriesReply
    <3> QED
      BY <2>2, <3>1, ReplyLeaderStep
  <2>3. CASE RequestVote(i, j, k)
    <3> DEFINE c == rv[i][j][k]
               newer == c.term > currentTerm[j]
               t == NewTerm(c.term, currentTerm[j])
    <3>1. /\ state' = [state EXCEPT ![j] = IF newer THEN "Follower" ELSE state[j]]
          /\ currentTerm' = [currentTerm EXCEPT ![j] = t]
          /\ UNCHANGED <<elected, matchIndex>>
      BY <2>3 DEF RequestVote
    <3>2. CASE newer
      BY <1>1, <3>1, <3>2
    <3>3. CASE ~newer
      <4>1. t = currentTerm[j]
        BY <3>3 DEF NewTerm
      <4>2. UNCHANGED <<state, currentTerm>>
        BY <1>t, <3>1, <3>3, <4>1
      <4> QED
        BY <3>1, <4>2, NoLeaderStep
    <3> QED
      BY <3>1, <3>2, <3>3
  <2>4. CASE AppendEntries(i, j, k)
    <3> DEFINE c == ae[i][j][k]
               t == NewTerm(c.term, currentTerm[j])
               down == \/ c.term > currentTerm[j]
                       \/ c.term = t /\ state[j] # "Follower"
    <3>1. /\ state' = [state EXCEPT ![j] = IF down THEN "Follower" ELSE state[j]]
          /\ currentTerm' = [currentTerm EXCEPT ![j] = t]
          /\ UNCHANGED <<elected, matchIndex>>
      BY <2>4 DEF AppendEntries
    <3>2. CASE down
      BY <1>1, <3>1, <3>2
    <3>3. CASE ~down
      <4>1. t = currentTerm[j]
        BY <3>3 DEF NewTerm
      <4>2. UNCHANGED <<state, currentTerm>>
        BY <1>t, <3>1, <3>3, <4>1
      <4> QED
        BY <3>1, <4>2, NoLeaderStep
    <3> QED
      BY <3>1, <3>2, <3>3
  <2>5. CASE SendAppendEntriesPanics(i, j, k)
    <3>1. currentTerm' = [currentTerm EXCEPT ![i] = currentTerm[i]]
      BY <1>t, <2>5 DEF SendAppendEntriesPanics
    <3> QED
      BY <1>1, <2>5, <3>1 DEF SendAppendEntriesPanics
  <2>6. CASE SendRequestVote(i, j, k) \/ DeadRequestVote(i, j, k)
                \/ SendAppendEntries(i, j, k) \/ DeadAppendEntries(i, j, k)
                \/ RequestVoteFails(i, j, k) \/ AppendEntriesFails(i, j, k)
    <3>1. UNCHANGED <<state, currentTerm, elected, matchIndex>>
      BY <2>6 DEF SendRequestVote, DeadRequestVote, SendAppendEntries,
                  DeadAppendEntries, RequestVoteFails, AppendEntriesFails
    <3> QED
      BY <3>1, NoLeaderStep
  <2> QED
    BY <1>4, <2>1, <2>2, <2>3, <2>4, <2>5, <2>6 DEF CallStep, CallFailure
<1>5. ASSUME NEW i \in Server, NEW v \in Command, Submit(i, v)
      PROVE  elected' = elected /\ \A h \in Server : LeaderStep(h)
  BY <1>5, NoLeaderStep DEF Submit
<1>6. ASSUME NEW i \in Server, ApplyCommitted(i)
      PROVE  elected' = elected /\ \A h \in Server : LeaderStep(h)
  BY <1>6, NoLeaderStep DEF ApplyCommitted
<1>7. ASSUME NEW i \in Server, Stop(i)
      PROVE  elected' = elected /\ \A h \in Server : LeaderStep(h)
  <2>1. currentTerm' = [currentTerm EXCEPT ![i] = currentTerm[i]]
    BY <1>t, <1>7 DEF Stop
  <2> QED
    BY <1>1, <1>7, <2>1 DEF Stop
<1>8. ASSUME NEW i \in Server, Restart(i)
      PROVE  elected' = elected /\ \A h \in Server : LeaderStep(h)
  <2>1. /\ state' = [state EXCEPT ![i] = "Follower"]
        /\ currentTerm' = [currentTerm EXCEPT ![i] = storage[i].currentTerm]
        /\ matchIndex' = [matchIndex EXCEPT ![i] = [j \in Server |-> 0]]
        /\ elected' = elected
    BY <1>8 DEF Restart, RestoreFromStorage
  <2>2. ASSUME NEW h \in Server, state'[h] = "Leader" PROVE Leads(h)
    <3>1. h # i /\ state[h] = "Leader" /\ currentTerm'[h] = currentTerm[h]
      BY <1>t, <2>1, <2>2
    <3>2. matchIndex'[h] = matchIndex[h]
      BY <1>u, <2>1, <3>1
    <3> QED
      BY <2>2, <3>1, <3>2 DEF Leads
  <2> QED
    BY <2>1, <2>2 DEF LeaderStep
<1>9. CASE UNCHANGED vars
  BY <1>9, NoLeaderStep DEF vars
<1> QED
  BY <1>2, <1>3, <1>4, <1>5, <1>6, <1>7, <1>8, <1>9 DEF Next

-----------------------------------------------------------------------------
(* What a leader knows of its peers *)

\* What has been proved so far, and a step from such a state to another.
Sound == TypeOK /\ ElectionInv /\ LeadershipInv /\ NextInv /\ LinkInv

SoundStep ==
    /\ Sound /\ Sound' /\ ElectionStep
    /\ \A j \in Server : LogStep(j)
    /\ \A a, b \in Server, k \in Lane : AEStep(a, b, k)
    /\ \A h \in Server : LeaderStep(h)
    /\ elected' = elected \/ \E h \in Server : Elects(h)

LEMMA SoundInit == Init => Sound
BY TypeInit, ElectionInit, LeadershipInit, NextInvInit, LinkInvInit DEF Sound

LEMMA SoundNext ==
    ASSUME Timely, Sound, [Next]_vars
    PROVE  SoundStep
<1>1. TypeOK /\ ElectionInv /\ LeadershipInv /\ NextInv /\ LinkInv
  BY DEF Sound
<1>2. Sound'
  <2>1. TypeOK'
    BY <1>1, TypeNext
  <2>2. ElectionInv'
    BY <1>1, <2>1, ElectionNext
  <2>3. LeadershipInv'
    BY <1>1, <2>1, <2>2, LeadershipNext
  <2>4. NextInv'
    BY <1>1, <2>1, NextInvNext
  <2>5. LinkInv'
    BY <1>1, <2>1, <2>2, LinkInvNext
  <2> QED
    BY <2>1, <2>2, <2>3, <2>4, <2>5 DEF Sound
<1>3. StorageBehind /\ CallsElected /\ LogStored
  BY <1>1 DEF LeadershipInv, LinkInv
<1>4. ElectionStep
  BY <1>1, <1>3, ElectionStepNext
<1>5. \A j \in Server : LogStep(j)
  BY <1>1, <1>3, LogStepNext
<1>6. \A a, b \in Server, k \in Lane : AEStep(a, b, k)
  BY <1>1, <1>3, AEStepNext
<1>7. /\ \A h \in Server : LeaderStep(h)
      /\ elected' = elected \/ \E h \in Server : Elects(h)
  BY <1>1, LeaderStepNext
<1> QED
  BY <1>2, <1>4, <1>5, <1>6, <1>7 DEF SoundStep, Sound

\* c is a part of log l.
SegmentOf(c, l) ==
    /\ c.prevLogIndex + Len(c.entries) <= Len(l)
    /\ c.prevLogTerm = TermAt(l, c.prevLogIndex)
    /\ \A n \in 1..Len(c.entries) : c.entries[n] = l[c.prevLogIndex + n]

\* l and m have the same first n entries.
AgreeUpTo(l, m, n) ==
    n <= Len(l) /\ n <= Len(m) /\ \A q \in 1..n : l[q] = m[q]

\* Only an answer says success, and then it is of the term of the request.
SuccessTerm ==
    \A i, j \in Server, k \in Lane :
        ae[i][j][k].success =>
            ae[i][j][k].pc = "replied" /\ ae[i][j][k].rterm = ae[i][j][k].term

\* The calls a leader waits for are of its term.
CallsOfTerm ==
    \A i, j \in Server, k \in Lane :
        state[i] = "Leader" /\ Pending(ae[i][j][k])
            => ae[i][j][k].term = currentTerm[i]

\* What a leader has sent in its term is a part of its log.
SegmentsTrue ==
    forgotten = {} => \A i, j \in Server, k \in Lane :
        /\ state[i] = "Leader"
        /\ ae[i][j][k].pc \in {"sent", "replied", "orphan"}
        /\ ae[i][j][k].term = currentTerm[i]
        => SegmentOf(ae[i][j][k], log[i])

\* Peer v has confirmed, or is about to, that it holds the first n entries.
Acked(h, v, n) ==
    \/ matchIndex[h][v] >= n
    \/ \E k \in Lane : /\ ae[h][v][k].pc = "replied" /\ ae[h][v][k].success
                       /\ ae[h][v][k].prevLogIndex + Len(ae[h][v][k].entries) >= n

\* And it does hold them, unless it has gone on to a newer term since.
AcksTrue ==
    forgotten = {} => \A h, v \in Server : \A n \in 1..Len(log[h]) :
        state[h] = "Leader" /\ v # h /\ Acked(h, v, n) =>
            /\ storage[v].currentTerm >= currentTerm[h]
            /\ storage[v].currentTerm = currentTerm[h]
                    => AgreeUpTo(log[v], log[h], n)

AckInv == SuccessTerm /\ CallsOfTerm /\ SegmentsTrue /\ AcksTrue

LEMMA AckInvInit == Init => AckInv
<1> SUFFICES ASSUME Init
             PROVE  AckInv
  OBVIOUS
<1>1. \A i, j \in Server, k \in Lane : ~ae[i][j][k].success
  BY DEF Init, NoAE
<1>2. \A i \in Server : state[i] # "Leader"
  BY DEF Init
<1> QED
  BY <1>1, <1>2 DEF AckInv, SuccessTerm, CallsOfTerm, SegmentsTrue, AcksTrue

\* The types the arguments below need.
LEMMA LogTypes ==
    ASSUME TypeOK
    PROVE  /\ \A a \in Server : /\ log[a] \in Seq(LogEntry)
                                /\ Len(log[a]) \in Nat
                                /\ currentTerm[a] \in Nat
                                /\ storage[a].currentTerm \in Nat
           /\ \A a, b \in Server : matchIndex[a][b] \in Nat
           /\ \A a, b \in Server, k \in Lane :
                /\ ae[a][b][k] \in AECall
                /\ ae[a][b][k].term \in Nat /\ ae[a][b][k].prevLogIndex \in Nat
                /\ ae[a][b][k].entries \in Seq(LogEntry)
                /\ Len(ae[a][b][k].entries) \in Nat
                /\ ae[a][b][k].leaderCommit \in Nat
<1>1. log \in [Server -> Seq(LogEntry)] /\ currentTerm \in [Server -> Nat]
  BY DEF TypeOK
<1>2. storage \in [Server -> [currentTerm : Nat, votedFor : Server \cup {Nil},
                               log : Seq(LogEntry)]]
  BY DEF TypeOK
<1>3. matchIndex \in [Server -> [Server -> Nat]]
  BY DEF TypeOK
<1>4. ae \in [Server -> [Server -> [Lane -> AECall]]]
  BY DEF TypeOK
<1>5. ASSUME NEW a \in Server
      PROVE  /\ log[a] \in Seq(LogEntry) /\ Len(log[a]) \in Nat
             /\ currentTerm[a] \in Nat /\ storage[a].currentTerm \in Nat
  <2>1. log[a] \in Seq(LogEntry)
    BY <1>1
  <2> QED
    BY <1>1, <1>2, <2>1
<1>6. ASSUME NEW a \in Server, NEW b \in Server, NEW k \in Lane
      PROVE  /\ ae[a][b][k] \in AECall
             /\ ae[a][b][k].term \in Nat /\ ae[a][b][k].prevLogIndex \in Nat
             /\ ae[a][b][k].entries \in Seq(LogEntry)
             /\ Len(ae[a][b][k].entries) \in Nat
             /\ ae[a][b][k].leaderCommit \in Nat
  <2> DEFINE c == ae[a][b][k]
  <2>1. c \in AECall
    BY <1>4
  <2> HIDE DEF c
  <2>2. /\ c.term \in Nat /\ c.prevLogIndex \in Nat
        /\ c.entries \in Seq(LogEntry) /\ c.leaderCommit \in Nat
    BY <2>1 DEF AECall
  <2>3. Len(c.entries) \in Nat
    BY <2>2
  <2> QED
    BY <2>1, <2>2, <2>3 DEF c
<1> QED
  BY <1>3, <1>5, <1>6

LEMMA SuccessTermNext ==
    ASSUME SoundStep, SuccessTerm
    PROVE  SuccessTerm'
<1> SUFFICES ASSUME NEW a \in Server, NEW b \in Server, NEW k \in Lane,
                    ae'[a][b][k].success
             PROVE  /\ ae'[a][b][k].pc = "replied"
                    /\ ae'[a][b][k].rterm = ae'[a][b][k].term
  BY DEF SuccessTerm
<1> DEFINE c == ae[a][b][k]
           d == ae'[a][b][k]
<1>1. ~NoAE.success
  BY DEF NoAE
<1>2. c.success => c.pc = "replied" /\ c.rterm = c.term
  BY DEF SuccessTerm
<1>3. AEStep(a, b, k)
  BY DEF SoundStep
<1>4. CASE d \in {c, NoAE}
  BY <1>1, <1>2, <1>4
<1>5. ~Orphaned(c, d) /\ ~Spawns(a, b, k) /\ ~Builds(a, b, k)
  BY <1>2 DEF Orphaned, Arrived, Spawns, Builds
<1>6. CASE Answers(a, b, k)
  BY <1>2, <1>6 DEF Answers, SameMessage
<1> QED
  BY <1>3, <1>4, <1>5, <1>6 DEF AEStep

LEMMA CallsOfTermNext ==
    ASSUME SoundStep, CallsOfTerm
    PROVE  CallsOfTerm'
<1> SUFFICES ASSUME NEW a \in Server, NEW b \in Server, NEW k \in Lane,
                    state'[a] = "Leader", Pending(ae'[a][b][k])
             PROVE  ae'[a][b][k].term = currentTerm'[a]
  BY DEF CallsOfTerm
<1>1. CASE Elects(a)
  <2>1. state[a] = "Candidate" /\ ae' = ae
    BY <1>1 DEF Elects
  <2> QED
    BY <2>1 DEF SoundStep, Sound, NextInv, CandidateQuiet
<1>2. CASE Leads(a)
  <2>1. state[a] = "Leader" /\ currentTerm'[a] = currentTerm[a]
    BY <1>2 DEF Leads
  <2>2. AEStep(a, b, k)
    BY DEF SoundStep
  <2>3. ~Pending(NoAE)
    BY DEF Pending, NoAE
  <2>4. Pending(ae[a][b][k]) => ae[a][b][k].term = currentTerm[a]
    BY <2>1 DEF CallsOfTerm
  <2>5. ~Orphaned(ae[a][b][k], ae'[a][b][k])
    BY DEF Orphaned, Pending
  <2>6. CASE Answers(a, b, k)
    BY <2>1, <2>4, <2>6 DEF Answers, SameMessage, Pending
  <2>7. CASE Spawns(a, b, k) \/ Builds(a, b, k)
    BY <2>1, <2>4, <2>7 DEF Spawns, Builds, Pending
  <2> QED
    BY <2>1, <2>2, <2>3, <2>4, <2>5, <2>6, <2>7 DEF AEStep
<1> QED
  BY <1>1, <1>2 DEF SoundStep, LeaderStep

\* The log of a CM that goes on leading only grows.
LEMMA LeaderLog ==
    ASSUME SoundStep, NEW h \in Server, Leads(h)
    PROVE  /\ Len(log'[h]) >= Len(log[h])
           /\ \A n \in 1..Len(log[h]) : log'[h][n] = log[h][n]
           /\ \A n \in 0..Len(log[h]) : TermAt(log'[h], n) = TermAt(log[h], n)
<1>1. state'[h] = "Leader"
  BY DEF Leads
<1>2. log[h] \in Seq(LogEntry) /\ Len(log[h]) \in Nat /\ currentTerm[h] \in Nat
  BY LogTypes DEF SoundStep, Sound
<1>3. LogStep(h)
  BY DEF SoundStep
<1>4. CASE KeepsLog(h)
  BY <1>2, <1>4 DEF KeepsLog
<1>5. CASE Takes(h)
  <2>1. PICK v \in Command :
            log'[h] = Append(log[h], [term |-> currentTerm[h], command |-> v])
    BY <1>5 DEF Takes
  <2> DEFINE e == [term |-> currentTerm[h], command |-> v]
  <2>2. e \in LogEntry
    BY <1>2 DEF LogEntry
  <2> HIDE DEF e
  <2>3. /\ Len(log'[h]) = Len(log[h]) + 1
        /\ \A n \in 1..Len(log[h]) : log'[h][n] = log[h][n]
    BY <1>2, <2>1, <2>2 DEF e
  <2>4. ASSUME NEW n \in 0..Len(log[h]) PROVE TermAt(log'[h], n) = TermAt(log[h], n)
    <3>1. n = 0 \/ n \in 1..Len(log[h])
      BY <1>2
    <3> QED
      BY <2>3, <3>1 DEF TermAt
  <2> QED
    BY <1>2, <2>3, <2>4
<1>6. ~\E i \in Server, k \in Lane : Accepts(i, h, k)
  BY <1>1 DEF Accepts
<1> QED
  BY <1>3, <1>4, <1>5, <1>6 DEF LogStep

\* A part of a log is a part of a longer one.
LEMMA SegmentStays ==
    ASSUME NEW c \in AECall, NEW d, NEW l \in Seq(LogEntry), NEW m \in Seq(LogEntry),
           SameMessage(c, d), SegmentOf(c, l), Len(m) >= Len(l),
           \A n \in 1..Len(l) : m[n] = l[n],
           \A n \in 0..Len(l) : TermAt(m, n) = TermAt(l, n)
    PROVE  SegmentOf(d, m)
<1>1. /\ c.prevLogIndex \in Nat /\ Len(c.entries) \in Nat
      /\ Len(l) \in Nat /\ Len(m) \in Nat
  BY AEFields
<1>2. d.prevLogIndex = c.prevLogIndex /\ d.prevLogTerm = c.prevLogTerm
        /\ d.entries = c.entries
  BY DEF SameMessage
<1>3. c.prevLogIndex + Len(c.entries) <= Len(l) /\ c.prevLogTerm = TermAt(l, c.prevLogIndex)
        /\ \A n \in 1..Len(c.entries) : c.entries[n] = l[c.prevLogIndex + n]
  BY DEF SegmentOf
<1> DEFINE p == c.prevLogIndex
           z == Len(c.entries)
<1>4. p \in Nat /\ z \in Nat /\ p + z <= Len(l)
  BY <1>1, <1>3
<1> HIDE DEF p, z
<1>5. p \in 0..Len(l) /\ p + z <= Len(m) /\ \A n \in 1..z : p + n \in 1..Len(l)
  BY <1>1, <1>4
<1> QED
  BY <1>2, <1>3, <1>5 DEF SegmentOf, p, z

LEMMA SegmentsTrueNext ==
    ASSUME SoundStep, SegmentsTrue
    PROVE  SegmentsTrue'
<1> SUFFICES ASSUME forgotten' = {},
                    NEW a \in Server, NEW b \in Server, NEW k \in Lane,
                    state'[a] = "Leader",
                    ae'[a][b][k].pc \in {"sent", "replied", "orphan"},
                    ae'[a][b][k].term = currentTerm'[a]
             PROVE  SegmentOf(ae'[a][b][k], log'[a])
  BY DEF SegmentsTrue
<1>0. forgotten = {}
  BY DEF SoundStep, ElectionStep, ElectStep
<1> DEFINE c == ae[a][b][k]
           d == ae'[a][b][k]
<1>t. /\ log[a] \in Seq(LogEntry) /\ log'[a] \in Seq(LogEntry) /\ c \in AECall
      /\ Len(log[a]) \in Nat /\ currentTerm[a] \in Nat
  <2>1. log'[a] \in Seq(LogEntry)
    BY LogTypes DEF SoundStep, Sound, TypeOK
  <2> QED
    BY <2>1, LogTypes DEF SoundStep, Sound
<1>1. CASE Elects(a)
  <2>1. state[a] = "Candidate" /\ ae' = ae /\ currentTerm' = currentTerm
    BY <1>1 DEF Elects
  <2>2. <<a, currentTerm[a]>> \in elected
    BY <2>1 DEF SoundStep, Sound, LeadershipInv, CallsElected
  <2>3. HoldsTerm(a, currentTerm[a])
    BY <1>0, <1>t, <2>2 DEF SoundStep, Sound, LeadershipInv, ElectedHold
  <2> QED
    BY <1>t, <2>1, <2>3 DEF HoldsTerm
<1>2. CASE Leads(a)
  <2>1. state[a] = "Leader" /\ currentTerm'[a] = currentTerm[a]
    BY <1>2 DEF Leads
  <2>2. AEStep(a, b, k)
    BY DEF SoundStep
  <2>3. /\ Len(log'[a]) >= Len(log[a])
        /\ \A n \in 1..Len(log[a]) : log'[a][n] = log[a][n]
        /\ \A n \in 0..Len(log[a]) : TermAt(log'[a], n) = TermAt(log[a], n)
    BY <1>2, LeaderLog
  <2>4. ASSUME SameMessage(c, d), c.pc \in {"sent", "replied", "orphan"}
        PROVE  SegmentOf(d, log'[a])
    <3>1. SegmentOf(c, log[a])
      BY <1>0, <2>1, <2>4 DEF SegmentsTrue, SameMessage
    <3> HIDE DEF c, d
    <3> QED
      BY <1>t, <2>3, <2>4, <3>1, SegmentStays
  <2>5. CASE Builds(a, b, k)
    <3>1. /\ d.prevLogIndex \in 0..Len(log[a])
          /\ d.prevLogTerm = TermAt(log[a], d.prevLogIndex)
          /\ d.entries = SubSeq(log[a], d.prevLogIndex + 1, Len(log[a]))
          /\ log' = log
      BY <2>5 DEF Builds, cmVars
    <3> DEFINE p == d.prevLogIndex
    <3> HIDE DEF p, d
    <3>2. /\ Len(d.entries) = Len(log[a]) - p
          /\ \A n \in 1..Len(d.entries) : d.entries[n] = log[a][p + n]
      <4>1. p \in 0..Len(log[a])
        BY <3>1 DEF p
      <4>2. d.entries = SubSeq(log[a], p + 1, Len(log[a]))
        BY <3>1 DEF p
      <4> QED
        BY <1>t, <4>1, <4>2, RestOf
    <3>3. p + Len(d.entries) <= Len(log[a])
      BY <1>t, <3>1, <3>2 DEF p
    <3>4. SegmentOf(d, log[a])
      BY <3>1, <3>2, <3>3 DEF SegmentOf, p
    <3> QED
      BY <3>1, <3>4 DEF d
  <2>6. ~Spawns(a, b, k) /\ d # NoAE
    BY DEF Spawns, NoAE
  <2>7. CASE d = c
    BY <2>4, <2>7 DEF SameMessage
  <2>8. CASE Orphaned(c, d) \/ Answers(a, b, k)
    BY <2>4, <2>8 DEF Orphaned, Answers, Arrived
  <2> QED
    BY <2>2, <2>5, <2>6, <2>7, <2>8 DEF AEStep
<1> QED
  BY <1>1, <1>2 DEF SoundStep, LeaderStep

\* Equal prefixes, entry by entry.
LEMMA AgreeIsPrefix ==
    ASSUME NEW l \in Seq(LogEntry), NEW m \in Seq(LogEntry), NEW n \in Nat,
           n <= Len(l), n <= Len(m)
    PROVE  AgreeUpTo(l, m, n) <=> SubSeq(l, 1, n) = SubSeq(m, 1, n)
<1>1. /\ Len(SubSeq(l, 1, n)) = n /\ \A q \in 1..n : SubSeq(l, 1, n)[q] = l[q]
      /\ Len(SubSeq(m, 1, n)) = n /\ \A q \in 1..n : SubSeq(m, 1, n)[q] = m[q]
  OBVIOUS
<1>2. SubSeq(l, 1, n) \in Seq(LogEntry) /\ SubSeq(m, 1, n) \in Seq(LogEntry)
  BY SubLog
<1>3. ASSUME AgreeUpTo(l, m, n) PROVE SubSeq(l, 1, n) = SubSeq(m, 1, n)
  <2>1. \A q \in 1..n : SubSeq(l, 1, n)[q] = SubSeq(m, 1, n)[q]
    BY <1>1, <1>3 DEF AgreeUpTo
  <2> DEFINE a == SubSeq(l, 1, n)
             b == SubSeq(m, 1, n)
  <2>2. a \in Seq(LogEntry) /\ b \in Seq(LogEntry) /\ Len(a) = n /\ Len(b) = n
          /\ \A q \in 1..n : a[q] = b[q]
    BY <1>1, <1>2, <2>1
  <2> HIDE DEF a, b
  <2>3. a = b
    BY <2>2
  <2> QED
    BY <2>3 DEF a, b
<1>4. ASSUME SubSeq(l, 1, n) = SubSeq(m, 1, n) PROVE AgreeUpTo(l, m, n)
  <2>1. \A q \in 1..n : l[q] = m[q]
    BY <1>1, <1>4
  <2> QED
    BY <2>1 DEF AgreeUpTo
<1> QED
  BY <1>3, <1>4

\* LogMatching, entry by entry.
LEMMA LogsAgree ==
    ASSUME Sound, NEW i \in Server, NEW j \in Server, NEW n \in 1..Len(log[i]),
           n <= Len(log[j]), log[i][n].term = log[j][n].term
    PROVE  AgreeUpTo(log[i], log[j], n)
<1>1. LogMatching
  BY LinkInvImplies DEF Sound
<1>2. log[i] \in Seq(LogEntry) /\ log[j] \in Seq(LogEntry) /\ n \in Nat /\ n <= Len(log[i])
  BY LogTypes DEF Sound
<1>3. SubSeq(log[i], 1, n) = SubSeq(log[j], 1, n)
  BY <1>1 DEF LogMatching
<1> QED
  BY <1>2, <1>3, AgreeIsPrefix

\* The log of a follower that has accepted a part of log m agrees with m up to
\* the end of that part, and as far as it did before.
LEMMA MergeAgrees ==
    ASSUME NEW l \in Seq(LogEntry), NEW m \in Seq(LogEntry), NEW c \in AECall,
           SegmentOf(c, m), PrevMatches(c, l),
           \A n \in 1..Len(l) : n <= Len(m) /\ l[n].term = m[n].term
                                    => AgreeUpTo(l, m, n)
    PROVE  LET r == Merge(l, c.prevLogIndex, c.entries)
           IN  /\ AgreeUpTo(r, m, c.prevLogIndex + Len(c.entries))
               /\ \A n \in Nat : AgreeUpTo(l, m, n) => AgreeUpTo(r, m, n)
<1> DEFINE p == c.prevLogIndex
           es == c.entries
           z == Len(es)
           new == {n \in 1..z : TermAt(l, p + n) # es[n].term}
           r == Merge(l, p, es)
<1>t. /\ p \in Nat /\ z \in Nat /\ Len(l) \in Nat /\ Len(m) \in Nat
      /\ es \in Seq(LogEntry)
  BY DEF AECall
<1>1. /\ p + z <= Len(m)
      /\ \A n \in 1..z : es[n] = m[p + n]
      /\ c.prevLogTerm = TermAt(m, p)
  BY DEF SegmentOf
<1>2. p <= Len(l) /\ (p > 0 => AgreeUpTo(l, m, p))
  <2>1. CASE p = 0
    BY <1>t, <2>1
  <2>2. CASE p # 0
    <3>1. p <= Len(l) /\ c.prevLogTerm = l[p].term
      BY <2>2 DEF PrevMatches
    <3> HIDE DEF p, z
    <3>2. p \in 1..Len(m) /\ p \in 1..Len(l)
      BY <1>t, <1>1, <2>2, <3>1
    <3>3. l[p].term = m[p].term
      BY <1>1, <3>1, <3>2 DEF TermAt
    <3> QED
      BY <1>t, <3>2, <3>3
  <2> QED
    BY <2>1, <2>2
<1>3. ASSUME NEW n \in 1..z, n \notin new
      PROVE  p + n <= Len(l) /\ AgreeUpTo(l, m, p + n)
  <2>1. TermAt(l, p + n) = es[n].term
    BY <1>3
  <2>2. es[n] \in LogEntry
    BY <1>t
  <2>3. es[n].term \in Nat /\ es[n] = m[p + n]
    BY <1>1, <2>2 DEF LogEntry
  <2> HIDE DEF p, z, es
  <2>4. p + n \in 1..Len(l) /\ l[p + n].term = es[n].term
    BY <1>t, <2>1, <2>3 DEF TermAt
  <2>5. p + n <= Len(m)
    BY <1>t, <1>1
  <2> QED
    BY <1>t, <2>3, <2>4, <2>5
<1>4. ASSUME new = {}
      PROVE  AgreeUpTo(r, m, p + z) /\ \A n \in Nat : AgreeUpTo(l, m, n) => AgreeUpTo(r, m, n)
  <2>1. r = l
    BY <1>4 DEF Merge
  <2>2. AgreeUpTo(l, m, p + z)
    <3> HIDE DEF new, p, es
    <3>1. CASE z = 0
      <4>1. p + z = p
        BY <1>t, <3>1
      <4>2. CASE p = 0
        BY <1>t, <4>1, <4>2 DEF AgreeUpTo
      <4>3. CASE p # 0
        BY <1>2, <1>t, <4>1, <4>3
      <4> QED
        BY <4>2, <4>3
    <3>2. CASE z # 0
      <4>1. z \in 1..z
        BY <1>t, <3>2
      <4> QED
        BY <1>3, <1>4, <4>1
    <3> QED
      BY <3>1, <3>2
  <2> QED
    BY <2>1, <2>2
<1>5. ASSUME new # {}
      PROVE  AgreeUpTo(r, m, p + z) /\ \A x \in Nat : AgreeUpTo(l, m, x) => AgreeUpTo(r, m, x)
  <2> DEFINE n == Least(new)
             a == p + n - 1
  <2>1. n \in new /\ \A x \in new : n <= x
    <3>1. new \in SUBSET Nat
      BY <1>t
    <3> HIDE DEF new
    <3> QED
      BY <1>5, <3>1, LeastIn
  <2>2. r = SubSeq(l, 1, a) \o SubSeq(es, n, z)
    BY <1>5 DEF Merge
  <2>3. n \in 1..z /\ TermAt(l, p + n) # es[n].term
    BY <2>1
  <2> HIDE DEF n, new
  <2>4. a \in 0..Len(l) /\ a <= Len(m) /\ \A q \in 1..a : l[q] = m[q]
    <3>1. CASE n = 1
      <4>1. a = p
        BY <1>t, <3>1
      <4> HIDE DEF a
      <4> QED
        BY <1>t, <1>1, <1>2, <4>1 DEF AgreeUpTo
    <3>2. CASE n # 1
      <4>1. n - 1 \in 1..z /\ n - 1 < n
        BY <1>t, <2>3, <3>2
      <4>2. n - 1 \notin new
        <5>1. ASSUME n - 1 \in new PROVE FALSE
          <6>1. n <= n - 1
            BY <2>1, <5>1
          <6> QED
            BY <2>3, <6>1, <1>t
        <5> QED
          BY <5>1
      <4>3. p + (n - 1) <= Len(l) /\ AgreeUpTo(l, m, p + (n - 1))
        BY <1>3, <4>1, <4>2
      <4>4. a = p + (n - 1) /\ a \in Nat
        <5> HIDE DEF p, es
        <5> QED
          BY <1>t, <2>3
      <4> QED
        BY <1>t, <4>3, <4>4 DEF AgreeUpTo
    <3> QED
      BY <3>1, <3>2
  <2>5. /\ Len(r) = a + (z - n + 1)
        /\ \A x \in 1..a : r[x] = l[x]
        /\ \A x \in (a + 1)..Len(r) : r[x] = es[x - a + n - 1]
    <3> HIDE DEF a, r, es
    <3>1. z = Len(es)
      BY DEF es
    <3> HIDE DEF z
    <3> QED
      BY <1>t, <2>2, <2>3, <2>4, <3>1, SpliceEntries
  <2>6. Len(r) = p + z
    <3> HIDE DEF p, r, es
    <3>1. Len(r) = (p + n - 1) + (z - n + 1)
      BY <2>5
    <3> QED
      BY <1>t, <2>3, <3>1
  <2>7. \A x \in (a + 1)..(p + z) : r[x] = m[x]
    <3> SUFFICES ASSUME NEW x \in (a + 1)..(p + z) PROVE r[x] = m[x]
      OBVIOUS
    <3>1. r[x] = es[x - a + n - 1]
      BY <2>5, <2>6
    <3> HIDE DEF p, z, es, r
    <3>2. x \in Nat /\ x >= p + n /\ x <= p + z
      BY <1>t, <2>3
    <3>3. x - a + n - 1 = x - p
      BY <1>t, <2>3, <3>2
    <3>4. x - p \in 1..z /\ p + (x - p) = x
      BY <1>t, <2>3, <3>2
    <3> QED
      BY <1>1, <3>1, <3>3, <3>4
  <2>8. AgreeUpTo(r, m, p + z)
    <3> HIDE DEF r
    <3>1. \A q \in 1..(p + z) : q \in 1..a \/ q \in (a + 1)..(p + z)
      <4> HIDE DEF p, z
      <4> QED
        BY <1>t, <2>3
    <3>2. \A q \in 1..(p + z) : r[q] = m[q]
      BY <2>4, <2>5, <2>7, <3>1
    <3>3. p + z <= Len(r)
      <4> HIDE DEF p, z
      <4> QED
        BY <1>t, <2>6
    <3> QED
      BY <1>1, <3>2, <3>3 DEF AgreeUpTo
  <2>9. ASSUME NEW x \in Nat, AgreeUpTo(l, m, x) PROVE AgreeUpTo(r, m, x)
    <3>1. x <= p + z
      <4>1. ASSUME x > p + z PROVE FALSE
        <5> HIDE DEF p, z, es
        <5>1. p + n \in 1..x
          BY <1>t, <2>3, <4>1
        <5>2. l[p + n] = m[p + n] /\ x <= Len(l)
          BY <2>9, <5>1 DEF AgreeUpTo
        <5>3. p + n \in 1..Len(l)
          BY <1>t, <5>1, <5>2
        <5>4. TermAt(l, p + n) = m[p + n].term
          BY <5>2, <5>3 DEF TermAt
        <5> QED
          BY <1>1, <2>3, <5>4
      <4> HIDE DEF p, z
      <4> QED
        BY <1>t, <4>1
    <3> HIDE DEF p, z, r
    <3> QED
      BY <1>t, <2>8, <3>1 DEF AgreeUpTo
  <2> HIDE DEF r, p, z
  <2> QED
    BY <2>8, <2>9
<1> HIDE DEF r, z
<1>6. AgreeUpTo(r, m, p + z) /\ \A n \in Nat : AgreeUpTo(l, m, n) => AgreeUpTo(r, m, n)
  BY <1>4, <1>5
<1> QED
  BY <1>6 DEF r, z

\* An arrived message of the term of a leader is the leader's own.
LEMMA OnlyItsLeader ==
    ASSUME Sound, forgotten = {}, NEW i \in Server, NEW j \in Server,
           NEW k \in Lane, NEW h \in Server, ae[i][j][k].pc # "idle",
           <<h, ae[i][j][k].term>> \in elected
    PROVE  i = h /\ i # j
<1>1. i # j /\ <<i, ae[i][j][k].term>> \in elected
  BY DEF Sound, LeadershipInv, CallsElected
<1>2. ae[i][j][k].term \in Nat
  BY LogTypes DEF Sound
<1>3. TypeOK /\ VotesBind /\ LeadershipInv
  BY DEF Sound, ElectionInv
<1>4. i = h
  BY <1>1, <1>2, <1>3, ElectedOnce
<1> QED
  BY <1>1, <1>4

\* A follower that accepts a message of leader h of its term agrees with h up
\* to the end of the message, and as far as it did.
LEMMA AcceptsLeader ==
    ASSUME Sound, SegmentsTrue, forgotten = {},
           NEW i \in Server, NEW v \in Server, NEW k \in Lane, Accepts(i, v, k),
           NEW h \in Server, state[h] = "Leader", ae[i][v][k].term = currentTerm[h]
    PROVE  /\ i = h /\ v # h
           /\ AgreeUpTo(log'[v], log[h], ae[i][v][k].prevLogIndex
                                            + Len(ae[i][v][k].entries))
           /\ \A n \in Nat : AgreeUpTo(log[v], log[h], n)
                                => AgreeUpTo(log'[v], log[h], n)
<1> DEFINE c == ae[i][v][k]
<1>1. /\ Arrived(c) /\ PrevMatches(c, log[v])
      /\ log'[v] = Merge(log[v], c.prevLogIndex, c.entries)
  BY DEF Accepts
<1>2. c.pc \in {"sent", "orphan"}
  BY <1>1 DEF Arrived
<1>3. <<h, c.term>> \in elected
  BY DEF Sound, LeadershipInv, LeaderKnown
<1>4. i = h /\ i # v
  BY <1>2, <1>3, OnlyItsLeader
<1>5. SegmentOf(c, log[h])
  BY <1>2, <1>4 DEF SegmentsTrue
<1>6. c \in AECall /\ log[v] \in Seq(LogEntry) /\ log[h] \in Seq(LogEntry)
  BY LogTypes DEF Sound
<1>7. \A n \in 1..Len(log[v]) :
        n <= Len(log[h]) /\ log[v][n].term = log[h][n].term
            => AgreeUpTo(log[v], log[h], n)
  BY LogsAgree
<1> DEFINE l == log[v]
           m == log[h]
<1> HIDE DEF c, l, m
<1>8. LET r == Merge(l, c.prevLogIndex, c.entries)
      IN  /\ AgreeUpTo(r, m, c.prevLogIndex + Len(c.entries))
          /\ \A n \in Nat : AgreeUpTo(l, m, n) => AgreeUpTo(r, m, n)
  BY <1>1, <1>5, <1>6, <1>7, MergeAgrees DEF l, m
<1> QED
  BY <1>1, <1>4, <1>8 DEF l, m, c

\* A new confirmation is an answer that the peer has just given.
LEMMA AckedNext ==
    ASSUME SoundStep, AckInv, NEW h \in Server, NEW v \in Server, NEW n \in Nat,
           Leads(h), Acked(h, v, n)'
    PROVE  \/ Acked(h, v, n)
           \/ \E k \in Lane :
                /\ Accepts(h, v, k) /\ ae[h][v][k].term = currentTerm[h]
                /\ n <= ae[h][v][k].prevLogIndex + Len(ae[h][v][k].entries)
<1>1. CASE matchIndex'[h][v] >= n
  <2>1. CASE matchIndex'[h][v] = matchIndex[h][v]
    BY <1>1, <2>1 DEF Acked
  <2>2. CASE \E k \in Lane :
                LET c == ae[h][v][k]
                IN  /\ c.pc = "replied" /\ c.success
                    /\ matchIndex'[h][v] = c.prevLogIndex + Len(c.entries)
    BY <1>1, <2>2 DEF Acked
  <2> QED
    BY <2>1, <2>2 DEF Leads
<1>2. ASSUME NEW k \in Lane, ae'[h][v][k].pc = "replied", ae'[h][v][k].success,
             ae'[h][v][k].prevLogIndex + Len(ae'[h][v][k].entries) >= n
      PROVE  \/ Acked(h, v, n)
             \/ /\ Accepts(h, v, k) /\ ae[h][v][k].term = currentTerm[h]
                /\ n <= ae[h][v][k].prevLogIndex + Len(ae[h][v][k].entries)
  <2>1. AEStep(h, v, k)
    BY DEF SoundStep
  <2>2. ae'[h][v][k] # NoAE
    BY <1>2 DEF NoAE
  <2>3. CASE ae'[h][v][k] = ae[h][v][k]
    BY <1>2, <2>3 DEF Acked
  <2>4. CASE Answers(h, v, k)
    <3>1. ae[h][v][k].pc = "sent" /\ SameMessage(ae[h][v][k], ae'[h][v][k])
      BY <2>4 DEF Answers
    <3>2. ~ae[h][v][k].success
      BY <3>1 DEF AckInv, SuccessTerm
    <3>3. Accepts(h, v, k)
      BY <1>2, <2>4, <3>2 DEF Answers
    <3>4. ae[h][v][k].term = currentTerm[h]
      BY <3>1 DEF Leads, AckInv, CallsOfTerm, Pending
    <3>5. /\ ae[h][v][k].prevLogIndex \in Nat /\ Len(ae[h][v][k].entries) \in Nat
      BY LogTypes DEF SoundStep, Sound
    <3>6. n <= ae[h][v][k].prevLogIndex + Len(ae[h][v][k].entries)
      BY <1>2, <3>1, <3>5 DEF SameMessage
    <3> QED
      BY <3>3, <3>4, <3>6
  <2>5. ~Orphaned(ae[h][v][k], ae'[h][v][k]) /\ ~Spawns(h, v, k) /\ ~Builds(h, v, k)
    BY <1>2 DEF Orphaned, Spawns, Builds
  <2> QED
    BY <2>1, <2>2, <2>3, <2>4, <2>5 DEF AEStep
<1> QED
  BY <1>1, <1>2 DEF Acked

\* Confirmations are of entries the leader has.
LEMMA AckedInside ==
    ASSUME Sound, NEW h \in Server, NEW v \in Server, NEW n \in Nat, v # h,
           state[h] = "Leader", Acked(h, v, n)
    PROVE  n <= Len(log[h])
<1>1. matchIndex[h][v] \in Nat /\ Len(log[h]) \in Nat
  BY LogTypes DEF Sound
<1>2. matchIndex[h][v] <= Len(log[h])
  BY DEF Sound, NextInv, NextIndexInRange
<1>3. ASSUME NEW k \in Lane, ae[h][v][k].pc = "replied",
             ae[h][v][k].prevLogIndex + Len(ae[h][v][k].entries) >= n
      PROVE  n <= Len(log[h])
  <2>1. ae[h][v][k].prevLogIndex + Len(ae[h][v][k].entries) <= Len(log[h])
    BY <1>3 DEF Sound, NextInv, CallsInside, Pending
  <2>2. ae[h][v][k].prevLogIndex \in Nat /\ Len(ae[h][v][k].entries) \in Nat
    BY LogTypes DEF Sound
  <2> DEFINE x == ae[h][v][k].prevLogIndex + Len(ae[h][v][k].entries)
  <2>3. x \in Nat
    BY <2>2
  <2>4. x <= Len(log[h]) /\ x >= n
    BY <1>3, <2>1, Zenon
  <2> HIDE DEF x
  <2> QED
    BY <1>1, <2>3, <2>4
<1> QED
  BY <1>1, <1>2, <1>3 DEF Acked

\* A newly elected leader has no confirmation.
LEMMA ElectsNoAck ==
    ASSUME SoundStep, NEW h \in Server, NEW v \in Server, NEW n \in Nat, n > 0,
           Elects(h)
    PROVE  ~Acked(h, v, n)'
<1>1. matchIndex'[h][v] = 0 /\ state[h] = "Candidate" /\ ae' = ae
  BY DEF Elects
<1>2. \A k \in Lane : ~Pending(ae[h][v][k])
  BY <1>1 DEF SoundStep, Sound, NextInv, CandidateQuiet
<1> QED
  BY <1>1, <1>2 DEF Acked, Pending

\* Agreement stays when the second log only grows.
LEMMA AgreeGrows ==
    ASSUME NEW l, NEW m \in Seq(LogEntry), NEW r \in Seq(LogEntry), NEW n \in Nat,
           AgreeUpTo(l, m, n), Len(r) >= Len(m), \A q \in 1..Len(m) : r[q] = m[q]
    PROVE  AgreeUpTo(l, r, n)
<1>1. Len(m) \in Nat /\ Len(r) \in Nat
  OBVIOUS
<1> QED
  BY <1>1 DEF AgreeUpTo

LEMMA AcksTrueNext ==
    ASSUME SoundStep, AckInv
    PROVE  AcksTrue'
<1> SUFFICES ASSUME forgotten' = {}, NEW h \in Server, NEW v \in Server,
                    NEW n \in 1..Len(log'[h]),
                    state'[h] = "Leader", v # h, Acked(h, v, n)'
             PROVE  /\ storage'[v].currentTerm >= currentTerm'[h]
                    /\ storage'[v].currentTerm = currentTerm'[h]
                            => AgreeUpTo(log'[v], log'[h], n)
  BY DEF AcksTrue
<1>0. forgotten = {} /\ Sound /\ Sound' /\ TypeOK /\ TypeOK'
  BY DEF SoundStep, ElectionStep, ElectStep, Sound
<1>t. /\ log[v] \in Seq(LogEntry) /\ log[h] \in Seq(LogEntry) /\ log'[h] \in Seq(LogEntry)
      /\ Len(log[h]) \in Nat /\ Len(log'[h]) \in Nat
      /\ currentTerm[h] \in Nat /\ currentTerm[v] \in Nat
      /\ storage[v].currentTerm \in Nat /\ storage'[v].currentTerm \in Nat
  <2>1. log'[h] \in Seq(LogEntry)
    BY <1>0 DEF TypeOK
  <2>2. storage'[v].currentTerm \in Nat
    BY <1>0 DEF TypeOK
  <2> QED
    BY <1>0, <2>1, <2>2, LogTypes
<1>n. n \in Nat /\ n > 0
  BY <1>t
<1>1. ~Elects(h)
  BY <1>n, ElectsNoAck
<1>2. Leads(h)
  BY <1>1 DEF SoundStep, LeaderStep
<1>3. /\ state[h] = "Leader" /\ currentTerm'[h] = currentTerm[h]
      /\ Len(log'[h]) >= Len(log[h])
      /\ \A q \in 1..Len(log[h]) : log'[h][q] = log[h][q]
  BY <1>2, LeaderLog DEF Leads
<1>4. ASSUME AgreeUpTo(log'[v], log[h], n) PROVE AgreeUpTo(log'[v], log'[h], n)
  BY <1>3, <1>4, <1>n, <1>t, AgreeGrows
<1>5. CASE \E k \in Lane :
                /\ Accepts(h, v, k) /\ ae[h][v][k].term = currentTerm[h]
                /\ n <= ae[h][v][k].prevLogIndex + Len(ae[h][v][k].entries)
  <2>1. PICK k \in Lane :
                /\ Accepts(h, v, k) /\ ae[h][v][k].term = currentTerm[h]
                /\ n <= ae[h][v][k].prevLogIndex + Len(ae[h][v][k].entries)
    BY <1>5
  <2> DEFINE x == ae[h][v][k].prevLogIndex + Len(ae[h][v][k].entries)
  <2>2. AgreeUpTo(log'[v], log[h], x)
    BY <1>0, <1>3, <2>1, AcceptsLeader DEF AckInv
  <2>3. x \in Nat /\ n <= x
    <3>1. ae[h][v][k].prevLogIndex \in Nat /\ Len(ae[h][v][k].entries) \in Nat
      BY <1>0, LogTypes
    <3>2. \A p, e \in Nat : p + e \in Nat
      OBVIOUS
    <3>3. x \in Nat
      BY <3>1, <3>2
    <3> QED
      BY <2>1, <3>3
  <2> HIDE DEF x
  <2>4. AgreeUpTo(log'[v], log[h], n)
    <3>1. log'[v] \in Seq(LogEntry)
      BY <1>0 DEF TypeOK
    <3>2. Len(log'[v]) \in Nat
      BY <3>1
    <3> QED
      BY <1>n, <1>t, <2>2, <2>3, <3>2 DEF AgreeUpTo
  <2>5. storage'[v].currentTerm = currentTerm[h]
    BY <2>1 DEF Accepts
  <2> QED
    BY <1>3, <1>4, <1>t, <2>4, <2>5
<1>6. CASE Acked(h, v, n)
  <2>1. n \in 1..Len(log[h])
    BY <1>0, <1>3, <1>6, <1>n, <1>t, AckedInside
  <2>2. /\ storage[v].currentTerm >= currentTerm[h]
        /\ storage[v].currentTerm = currentTerm[h] => AgreeUpTo(log[v], log[h], n)
    BY <1>0, <1>3, <1>6, <2>1 DEF AckInv, AcksTrue
  <2>3. storage[v].currentTerm <= currentTerm[v]
    BY <1>0 DEF Sound, LeadershipInv, StorageBehind
  <2>4. CASE KeepsLog(v)
    <3>1. log'[v] = log[v] /\ storage'[v].currentTerm >= storage[v].currentTerm
      BY <2>4 DEF KeepsLog
    <3>2. storage'[v].currentTerm >= currentTerm[h]
      BY <1>t, <2>2, <3>1
    <3>3. ASSUME storage'[v].currentTerm = currentTerm[h]
          PROVE  AgreeUpTo(log'[v], log[h], n)
      <4>1. storage[v].currentTerm = currentTerm[h]
        BY <1>t, <2>2, <3>1, <3>3
      <4> QED
        BY <2>2, <3>1, <4>1
    <3> QED
      BY <1>3, <1>4, <3>2, <3>3
  <2>5. CASE Takes(v)
    <3>1. state[v] = "Leader" /\ storage'[v].currentTerm = currentTerm[v]
      BY <2>5 DEF Takes
    <3>2. currentTerm[v] # currentTerm[h]
      <4>1. ElectionSafety
        BY <1>0, ElectionInvImplies DEF Sound
      <4> QED
        BY <1>3, <3>1, <4>1 DEF ElectionSafety
    <3> QED
      BY <1>3, <1>t, <2>2, <2>3, <3>1, <3>2
  <2>6. ASSUME NEW i \in Server, NEW k \in Lane, Accepts(i, v, k)
        PROVE  /\ storage'[v].currentTerm >= currentTerm'[h]
               /\ storage'[v].currentTerm = currentTerm'[h]
                       => AgreeUpTo(log'[v], log'[h], n)
    <3>1. storage'[v].currentTerm = ae[i][v][k].term /\ ae[i][v][k].term >= currentTerm[v]
      BY <2>6 DEF Accepts
    <3>2. ae[i][v][k].term \in Nat
      BY <1>0, LogTypes
    <3>3. storage'[v].currentTerm >= currentTerm[h]
      BY <1>t, <2>2, <2>3, <3>1, <3>2
    <3>4. ASSUME storage'[v].currentTerm = currentTerm[h]
          PROVE  AgreeUpTo(log'[v], log[h], n)
      <4>1. storage[v].currentTerm = currentTerm[h] /\ ae[i][v][k].term = currentTerm[h]
        BY <1>t, <2>2, <2>3, <3>1, <3>2, <3>4
      <4>2. AgreeUpTo(log[v], log[h], n)
        BY <2>2, <4>1
      <4> QED
        BY <1>0, <1>3, <1>n, <2>6, <4>1, <4>2, AcceptsLeader DEF AckInv
    <3> QED
      BY <1>3, <1>4, <3>3, <3>4
  <2> QED
    BY <2>4, <2>5, <2>6 DEF SoundStep, LogStep
<1> QED
  BY <1>2, <1>5, <1>6, <1>n, AckedNext

LEMMA AckInvNext ==
    ASSUME SoundStep, AckInv
    PROVE  AckInv'
BY SuccessTermNext, CallsOfTermNext, SegmentsTrueNext, AcksTrueNext DEF AckInv

LEMMA AckInvImplies ==
    ASSUME Sound, AckInv
    PROVE  MatchIndexSound
<1> SUFFICES ASSUME forgotten = {}, NEW i \in Server, NEW j \in Server,
                    state[i] = "Leader", j # i, currentTerm[j] = currentTerm[i]
             PROVE  /\ matchIndex[i][j] <= Len(log[j])
                    /\ SubSeq(log[i], 1, matchIndex[i][j])
                         = SubSeq(log[j], 1, matchIndex[i][j])
  BY DEF MatchIndexSound
<1> DEFINE n == matchIndex[i][j]
<1>1. /\ n \in Nat /\ log[i] \in Seq(LogEntry) /\ log[j] \in Seq(LogEntry)
      /\ Len(log[i]) \in Nat /\ Len(log[j]) \in Nat
      /\ currentTerm[i] \in Nat /\ storage[j].currentTerm \in Nat
  BY LogTypes DEF Sound
<1>2. n <= Len(log[i])
  BY DEF Sound, NextInv, NextIndexInRange
<1>3. AgreeUpTo(log[j], log[i], n)
  <2>1. CASE n = 0
    BY <1>1, <2>1 DEF AgreeUpTo
  <2>2. CASE n # 0
    <3>1. Acked(i, j, n) /\ n \in 1..Len(log[i])
      <4>1. n >= n
        BY <1>1
      <4> QED
        BY <1>1, <1>2, <2>2, <4>1 DEF Acked
    <3>2. storage[j].currentTerm <= currentTerm[i]
      BY DEF Sound, LeadershipInv, StorageBehind
    <3> HIDE DEF n
    <3>3. storage[j].currentTerm >= currentTerm[i]
            /\ (storage[j].currentTerm = currentTerm[i] => AgreeUpTo(log[j], log[i], n))
      BY <3>1 DEF AckInv, AcksTrue
    <3> QED
      BY <1>1, <3>2, <3>3
  <2> QED
    BY <2>1, <2>2
<1> HIDE DEF n
<1>4. n <= Len(log[j])
  BY <1>3 DEF AgreeUpTo
<1>5. SubSeq(log[j], 1, n) = SubSeq(log[i], 1, n)
  BY <1>1, <1>2, <1>3, <1>4, AgreeIsPrefix
<1> QED
  BY <1>4, <1>5 DEF n

\* MatchIndexSound holds in every reachable state: what a leader counts
\* towards a majority is there, whatever AppendEntries and whatever reply is
\* late, lost, repeated or overtaken, as long as no leadership was forgotten.
THEOREM MatchIndexTrue ==
    ASSUME Timely
    PROVE  Spec => []MatchIndexSound
<1>1. Init => Sound /\ AckInv
  BY SoundInit, AckInvInit
<1>2. Sound /\ AckInv /\ [Next]_vars => (Sound /\ AckInv)'
  BY SoundNext, AckInvNext DEF SoundStep
<1>3. Sound /\ AckInv => MatchIndexSound
  BY AckInvImplies
<1> QED
  BY <1>1, <1>2, <1>3, PTL DEF Spec

-----------------------------------------------------------------------------
(* Candidates *)

\* CM v gives its vote to CM i.
VoteGained(i, v, k) ==
    LET c == rv[i][v][k]
    IN  /\ c.pc = "sent" /\ UpToDate(c, log[v])
        /\ c.term >= currentTerm[v] /\ storage'[v].currentTerm = c.term

\* CM i starts an election, with no vote but its own.
Stands(i) ==
    /\ currentTerm'[i] = currentTerm[i] + 1
    /\ UNCHANGED <<log, storage, ae, elected>>
    /\ \A v \in Server, k \in Lane : v # i => ~VoteFrom(i, v, k)'
    /\ \A v \in Server, k \in Lane : rv'[i][v][k].pc # "sent"

\* CM i goes on waiting for votes.
Waits(i) ==
    /\ state[i] = "Candidate" /\ currentTerm'[i] = currentTerm[i]
    /\ log'[i] = log[i]
    /\ \A v \in Server, k \in Lane :
        VoteFrom(i, v, k)' => VoteFrom(i, v, k) \/ VoteGained(i, v, k)
    /\ \A v \in Server, k \in Lane :
        rv'[i][v][k].pc = "sent" =>
            \/ rv'[i][v][k] = rv[i][v][k]
            \/ /\ rv'[i][v][k].lastLogIndex = Len(log[i])
               /\ rv'[i][v][k].lastLogTerm = LastTerm(log[i])

CandidateStep(i) == state'[i] = "Candidate" => Stands(i) \/ Waits(i)

\* A call that is over or goes on as it was, without a new vote.
RVDrops(c, d) ==
    d = c \/ (d.pc # "sent" /\ ~d.voteGranted /\ (Pending(d) => Pending(c)))

LEMMA QuietWaits ==
    ASSUME NEW i \in Server, state[i] = "Candidate",
           currentTerm'[i] = currentTerm[i], log'[i] = log[i],
           votesReceived'[i] = votesReceived[i],
           \A v \in Server, k \in Lane : RVDrops(rv[i][v][k], rv'[i][v][k])
    PROVE  Waits(i)
<1>1. ASSUME NEW v \in Server, NEW k \in Lane, VoteFrom(i, v, k)'
      PROVE  VoteFrom(i, v, k)
  <2>1. rv'[i][v][k].voteGranted => rv[i][v][k].voteGranted
    BY DEF RVDrops
  <2>2. \A j \in Server : Pending(rv'[i][j][k]) => Pending(rv[i][j][k])
    BY DEF RVDrops
  <2> QED
    BY <1>1, <2>1, <2>2 DEF VoteFrom
<1>2. \A v \in Server, k \in Lane :
        rv'[i][v][k].pc = "sent" => rv'[i][v][k] = rv[i][v][k]
  BY DEF RVDrops
<1> QED
  BY <1>1, <1>2 DEF Waits

LEMMA DropsOne ==
    ASSUME TypeOK, NEW i \in Server, NEW j \in Server, NEW k \in Lane, NEW d,
           rv' = [rv EXCEPT ![i][j][k] = d], RVDrops(rv[i][j][k], d)
    PROVE  \A a, b \in Server, l \in Lane : RVDrops(rv[a][b][l], rv'[a][b][l])
<1>1. rv \in [Server -> [Server -> [Lane -> RVCall]]]
  BY DEF TypeOK
<1> SUFFICES ASSUME NEW a \in Server, NEW b \in Server, NEW l \in Lane
             PROVE  RVDrops(rv[a][b][l], rv'[a][b][l])
  OBVIOUS
<1>2. CASE a = i /\ b = j /\ l = k
  <2>1. rv'[a][b][l] = d
    BY <1>1, <1>2
  <2> QED
    BY <1>2, <2>1
<1>3. CASE ~(a = i /\ b = j /\ l = k)
  <2>1. rv'[a][b][l] = rv[a][b][l]
    BY <1>1, <1>3
  <2> QED
    BY <2>1 DEF RVDrops
<1> QED
  BY <1>2, <1>3

LEMMA DropsOrphan ==
    ASSUME TypeOK, RepliesHonest, NEW a \in Server, NEW b \in Server, NEW k \in Lane,
           Arrived(rv[a][b][k])
    PROVE  /\ RVDrops(rv[a][b][k], [rv[a][b][k] EXCEPT !.pc = "orphan"])
           /\ rv[a][b][k].pc = "sent" =>
                RVDrops(rv[a][b][k], [rv[a][b][k] EXCEPT !.pc = "replied"])
<1> DEFINE c == rv[a][b][k]
           d == [c EXCEPT !.pc = "orphan"]
           e == [c EXCEPT !.pc = "replied"]
<1>1. c \in RVCall
  BY DEF TypeOK
<1>2. ~c.voteGranted
  BY DEF RepliesHonest, Arrived
<1>3. /\ d.pc = "orphan" /\ d.voteGranted = c.voteGranted
      /\ e.pc = "replied" /\ e.voteGranted = c.voteGranted
  BY <1>1 DEF RVCall
<1> HIDE DEF c, d, e
<1>4. RVDrops(c, d) /\ (c.pc = "sent" => RVDrops(c, e))
  BY <1>2, <1>3 DEF RVDrops, Pending
<1> QED
  BY <1>4 DEF c, d, e

LEMMA DropsDisconnected ==
    ASSUME TypeOK, RepliesHonest, NEW i \in Server, rv' = Disconnected(rv, i, NoRV)
    PROVE  \A a, b \in Server, l \in Lane : RVDrops(rv[a][b][l], rv'[a][b][l])
<1> SUFFICES ASSUME NEW a \in Server, NEW b \in Server, NEW l \in Lane
             PROVE  RVDrops(rv[a][b][l], rv'[a][b][l])
  OBVIOUS
<1>1. \/ rv'[a][b][l] \in {rv[a][b][l], NoRV}
      \/ /\ Arrived(rv[a][b][l])
         /\ rv'[a][b][l] = [rv[a][b][l] EXCEPT !.pc = "orphan"]
  BY DEF Disconnected
<1>2. \A c : RVDrops(c, c) /\ RVDrops(c, NoRV)
  BY DEF RVDrops, NoRV, Pending
<1>3. CASE Arrived(rv[a][b][l])
  <2>1. RVDrops(rv[a][b][l], [rv[a][b][l] EXCEPT !.pc = "orphan"])
    BY <1>3, DropsOrphan
  <2> QED
    BY <1>1, <1>2, <2>1
<1> QED
  BY <1>1, <1>2, <1>3

\* CM i starts an election in lane k.
LEMMA StartStands ==
    ASSUME Timely, TypeOK, RepliesHonest, NEW i \in Server, NEW k \in Lane,
           StartElection(i, k)
    PROVE  /\ Stands(i)
           /\ \A a \in Server : a # i /\ state'[a] = "Candidate" =>
                /\ state[a] = "Candidate" /\ currentTerm'[a] = currentTerm[a]
                /\ votesReceived'[a] = votesReceived[a] /\ rv'[a] = rv[a]
<1>t. /\ rv \in [Server -> [Server -> [Lane -> RVCall]]]
      /\ votesReceived \in [Server -> [Lane -> SUBSET Server]]
  BY DEF TypeOK
<1>u. state \in [Server -> CMState] /\ currentTerm \in [Server -> Nat]
  BY DEF TypeOK
<1> DEFINE s == [NoRV EXCEPT !.pc = "spawned", !.term = currentTerm[i] + 1]
<1>1. /\ state' = [state EXCEPT ![i] = "Candidate"]
      /\ currentTerm' = [currentTerm EXCEPT ![i] = currentTerm[i] + 1]
      /\ votesReceived' = [votesReceived EXCEPT ![i] = [votesReceived[i] EXCEPT ![k] = {i}]]
      /\ rv' = [rv EXCEPT ![i] = [j \in Server |->
                [rv[i][j] EXCEPT ![k] = IF j = i THEN NoRV ELSE s]]]
      /\ UNCHANGED <<log, storage, ae, elected>>
      /\ \A j \in Server, l \in Lane : ~Pending(rv[i][j][l])
  BY <1>t, <1>u DEF StartElection, history
<1>2. /\ ~s.voteGranted /\ s.pc = "spawned"
      /\ ~NoRV.voteGranted /\ NoRV.pc = "idle"
  BY DEF NoRV
<1> HIDE DEF s
<1>3. ASSUME NEW b \in Server, NEW l \in Lane
      PROVE  /\ rv'[i][b][l].pc # "sent" /\ ~rv'[i][b][l].voteGranted
             /\ l # k => ~Pending(rv'[i][b][l])
  <2>1. CASE l = k
    <3>1. rv'[i][b][l] = IF b = i THEN NoRV ELSE s
      BY <1>1, <1>t, <2>1
    <3> QED
      BY <1>2, <2>1, <3>1
  <2>2. CASE l # k
    <3>1. rv'[i][b][l] = rv[i][b][l]
      BY <1>1, <1>t, <2>2
    <3>2. ~Pending(rv[i][b][l])
      BY <1>1
    <3> QED
      BY <3>1, <3>2 DEF RepliesHonest, Pending
  <2> QED
    BY <2>1, <2>2
<1>4. \A l \in Lane : l = k => votesReceived'[i][l] = {i}
  BY <1>1, <1>t
<1>5. \A v \in Server, l \in Lane : v # i => ~VoteFrom(i, v, l)'
  BY <1>3, <1>4 DEF VoteFrom
<1>6. currentTerm'[i] = currentTerm[i] + 1
  BY <1>1, <1>u
<1>7. Stands(i)
  BY <1>1, <1>3, <1>5, <1>6 DEF Stands
<1>8. ASSUME NEW a \in Server, a # i, state'[a] = "Candidate"
      PROVE  /\ state[a] = "Candidate" /\ currentTerm'[a] = currentTerm[a]
             /\ votesReceived'[a] = votesReceived[a] /\ rv'[a] = rv[a]
  BY <1>1, <1>8, <1>t, <1>u
<1> QED
  BY <1>7, <1>8

\* A CM that a step leaves a candidate.
Remaining(a) ==
    state'[a] = "Candidate" =>
        state[a] = "Candidate" /\ currentTerm'[a] = currentTerm[a]

LEMMA OneRemaining ==
    ASSUME TypeOK, NEW i \in Server, NEW x, NEW t,
           state' = [state EXCEPT ![i] = x], currentTerm' = [currentTerm EXCEPT ![i] = t],
           x # "Candidate" \/ (x = state[i] /\ t = currentTerm[i])
    PROVE  \A a \in Server : Remaining(a)
<1>1. state \in [Server -> CMState] /\ currentTerm \in [Server -> Nat]
  BY DEF TypeOK
<1> QED
  BY <1>1 DEF Remaining

LEMMA SendWaits ==
    ASSUME TypeOK, NEW i \in Server, NEW j \in Server, NEW k \in Lane,
           SendRequestVote(i, j, k), NEW a \in Server, state'[a] = "Candidate"
    PROVE  Waits(a)
<1> DEFINE c == rv[i][j][k]
           d == [c EXCEPT !.pc = "sent", !.lastLogIndex = Len(log[i]),
                          !.lastLogTerm = LastTerm(log[i])]
<1>t. rv \in [Server -> [Server -> [Lane -> RVCall]]]
  BY DEF TypeOK
<1>1. /\ c.pc = "spawned" /\ rv' = [rv EXCEPT ![i][j][k] = d]
      /\ UNCHANGED <<state, currentTerm, log, votesReceived>>
  BY DEF SendRequestVote, cmVars
<1>2. c \in RVCall
  BY <1>t
<1>3. /\ d.pc = "sent" /\ d.voteGranted = c.voteGranted
      /\ d.lastLogIndex = Len(log[i]) /\ d.lastLogTerm = LastTerm(log[i])
  BY <1>2 DEF RVCall
<1> HIDE DEF d
<1>4. ASSUME NEW b \in Server, NEW l \in Lane
      PROVE  \/ rv'[a][b][l] = rv[a][b][l]
             \/ a = i /\ b = j /\ l = k /\ rv'[a][b][l] = d
  BY <1>1, <1>t
<1>5. ASSUME NEW b \in Server, NEW l \in Lane
      PROVE  /\ rv'[a][b][l].voteGranted => rv[a][b][l].voteGranted
             /\ Pending(rv'[a][b][l]) => Pending(rv[a][b][l])
             /\ rv'[a][b][l].pc = "sent" =>
                    \/ rv'[a][b][l] = rv[a][b][l]
                    \/ /\ rv'[a][b][l].lastLogIndex = Len(log[a])
                       /\ rv'[a][b][l].lastLogTerm = LastTerm(log[a])
  <2>1. CASE rv'[a][b][l] = rv[a][b][l]
    BY <2>1
  <2>2. CASE a = i /\ b = j /\ l = k /\ rv'[a][b][l] = d
    BY <1>1, <1>3, <2>2 DEF Pending
  <2> QED
    BY <1>4, <2>1, <2>2
<1>6. \A v \in Server, l \in Lane : VoteFrom(a, v, l)' => VoteFrom(a, v, l)
  BY <1>1, <1>5 DEF VoteFrom
<1> QED
  BY <1>1, <1>5, <1>6 DEF Waits

LEMMA GrantWaits ==
    ASSUME TypeOK, RepliesHonest, NEW i \in Server, NEW j \in Server, NEW k \in Lane,
           RequestVote(i, j, k), NEW a \in Server, state'[a] = "Candidate"
    PROVE  Waits(a)
<1> DEFINE c == rv[i][j][k]
           newer == c.term > currentTerm[j]
           term == NewTerm(c.term, currentTerm[j])
           vote == IF newer THEN Nil ELSE votedFor[j]
           grants == GrantsVote(c, i, term, vote, log[j])
           newVote == IF grants THEN i ELSE vote
           d == [c EXCEPT !.pc = "replied", !.rterm = term, !.voteGranted = grants]
<1>t. rv \in [Server -> [Server -> [Lane -> RVCall]]]
  BY DEF TypeOK
<1>u. storage \in [Server -> [currentTerm : Nat, votedFor : Server \cup {Nil},
                               log : Seq(LogEntry)]]
  BY DEF TypeOK
<1>1. /\ Arrived(c)
      /\ rv' = [rv EXCEPT ![i][j][k] = IF c.pc = "orphan" THEN NoRV ELSE d]
      /\ UNCHANGED <<log, votesReceived>>
      /\ state' = [state EXCEPT ![j] = IF newer THEN "Follower" ELSE state[j]]
      /\ currentTerm' = [currentTerm EXCEPT ![j] = term]
      /\ storage' = [storage EXCEPT ![j] = Persisted(term, newVote, log[j])]
  BY DEF RequestVote
<1>2. c \in RVCall /\ c.term \in Nat /\ currentTerm[j] \in Nat
  <2>1. c \in RVCall
    BY <1>t
  <2>2. currentTerm \in [Server -> Nat]
    BY DEF TypeOK
  <2> QED
    BY <2>1, <2>2 DEF RVCall
<1>3. Remaining(a)
  <2>1. CASE newer
    BY <1>1, <2>1, OneRemaining
  <2>2. CASE ~newer
    <3>1. term = currentTerm[j]
      BY <2>2 DEF NewTerm
    <3>2. state' = [state EXCEPT ![j] = state[j]] /\ currentTerm' = [currentTerm EXCEPT ![j] = currentTerm[j]]
      BY <1>1, <2>2, <3>1
    <3> QED
      BY <3>2, OneRemaining
  <2> QED
    BY <2>1, <2>2
<1>4. storage'[j].currentTerm = term /\ term >= currentTerm[j]
  <2>1. storage'[j] = Persisted(term, newVote, log[j])
    BY <1>1, <1>u
  <2>2. storage'[j].currentTerm = term
    BY <2>1 DEF Persisted
  <2> QED
    BY <1>2, <2>2 DEF NewTerm
<1>5. d.pc = "replied" /\ d.voteGranted = grants
  <2> HIDE DEF grants
  <2> QED
    BY <1>2 DEF RVCall
<1>6. grants => c.term = term /\ UpToDate(c, log[j])
  BY DEF GrantsVote
<1> HIDE DEF d, grants, term, newVote, vote
<1>7. ASSUME NEW b \in Server, NEW l \in Lane
      PROVE  \/ rv'[a][b][l] = rv[a][b][l]
             \/ rv'[a][b][l] = NoRV
             \/ a = i /\ b = j /\ l = k /\ rv'[a][b][l] = d /\ c.pc = "sent"
  BY <1>1, <1>t DEF Arrived
<1>8. ~NoRV.voteGranted /\ ~Pending(NoRV) /\ NoRV.pc = "idle"
  BY DEF NoRV, Pending
<1>9. ASSUME NEW b \in Server, NEW l \in Lane
      PROVE  /\ rv'[a][b][l].voteGranted => rv[a][b][l].voteGranted \/ VoteGained(a, b, l)
             /\ Pending(rv'[a][b][l]) => Pending(rv[a][b][l])
             /\ rv'[a][b][l].pc = "sent" => rv'[a][b][l] = rv[a][b][l]
  <2>1. CASE rv'[a][b][l] = rv[a][b][l]
    BY <2>1
  <2>2. CASE rv'[a][b][l] = NoRV
    BY <1>8, <2>2
  <2>3. CASE a = i /\ b = j /\ l = k /\ rv'[a][b][l] = d /\ c.pc = "sent"
    <3>1. Pending(c) /\ d.pc # "sent"
      BY <1>5, <2>3 DEF Pending
    <3>2. grants => VoteGained(i, j, k)
      BY <1>4, <1>6, <2>3 DEF VoteGained
    <3>3. d.voteGranted => VoteGained(i, j, k)
      BY <1>5, <3>2
    <3> QED
      BY <2>3, <3>1, <3>3
  <2> QED
    BY <1>7, <2>1, <2>2, <2>3
<1>10. \A v \in Server, l \in Lane :
          VoteFrom(a, v, l)' => VoteFrom(a, v, l) \/ VoteGained(a, v, l)
  BY <1>1, <1>9 DEF VoteFrom
<1> QED
  BY <1>1, <1>3, <1>9, <1>10 DEF Waits, Remaining

LEMMA CountWaits ==
    ASSUME TypeOK, NEW i \in Server, NEW j \in Server, NEW k \in Lane,
           RequestVoteReply(i, j, k), NEW a \in Server, state'[a] = "Candidate"
    PROVE  Waits(a)
<1> DEFINE c == rv[i][j][k]
           votes == votesReceived[i][k] \cup {j}
<1>t. rv \in [Server -> [Server -> [Lane -> RVCall]]]
  BY DEF TypeOK
<1>u. votesReceived \in [Server -> [Lane -> SUBSET Server]]
  BY DEF TypeOK
<1>v. state \in [Server -> CMState] /\ currentTerm \in [Server -> Nat]
  BY DEF TypeOK
<1>1. c.pc = "replied" /\ rv' = [rv EXCEPT ![i][j][k] = NoRV] /\ log' = log
  BY DEF RequestVoteReply
<1>2. ASSUME NEW b \in Server, NEW l \in Lane
      PROVE  rv'[a][b][l] = rv[a][b][l] \/ rv'[a][b][l] = NoRV
  BY <1>1, <1>t
<1>3. ~NoRV.voteGranted /\ ~Pending(NoRV) /\ NoRV.pc = "idle"
  BY DEF NoRV, Pending
<1>4. ASSUME NEW b \in Server, NEW l \in Lane
      PROVE  /\ rv'[a][b][l].voteGranted => rv[a][b][l].voteGranted
             /\ Pending(rv'[a][b][l]) => Pending(rv[a][b][l])
             /\ rv'[a][b][l].pc = "sent" => rv'[a][b][l] = rv[a][b][l]
  BY <1>2, <1>3
<1>5. Remaining(a)
  <2>1. \/ \E t : BecomeFollower(i, t)
        \/ /\ currentTerm' = currentTerm
           /\ state' = state \/ StartLeader(i)
    BY DEF RequestVoteReply
  <2>2. CASE \E t : BecomeFollower(i, t)
    BY <2>2, OneRemaining DEF BecomeFollower
  <2>3. CASE state' = state /\ currentTerm' = currentTerm
    BY <2>3 DEF Remaining
  <2>4. CASE StartLeader(i) /\ currentTerm' = currentTerm
    <3>1. state' = [state EXCEPT ![i] = "Leader"]
      BY <2>4 DEF StartLeader
    <3> QED
      BY <1>v, <2>4, <3>1 DEF Remaining
  <2> QED
    BY <2>1, <2>2, <2>3, <2>4
<1>6. ASSUME NEW v \in Server, NEW l \in Lane, v \in votesReceived'[a][l]
      PROVE  v \in votesReceived[a][l] \/ rv[a][v][l].voteGranted
  <2>1. CASE votesReceived' = votesReceived
    BY <1>6, <2>1
  <2>2. CASE CountsVote(i, c) /\ votesReceived' = [votesReceived EXCEPT ![i][k] = votes]
    <3>1. c.voteGranted
      BY <2>2 DEF CountsVote
    <3>2. \/ votesReceived'[a][l] = votesReceived[a][l]
          \/ a = i /\ l = k /\ votesReceived'[a][l] = votes
      <4> HIDE DEF votes
      <4> QED
        BY <1>u, <2>2
    <3> QED
      BY <1>6, <3>1, <3>2
  <2> QED
    BY <2>1, <2>2 DEF RequestVoteReply
<1>7. \A v \in Server, l \in Lane : VoteFrom(a, v, l)' => VoteFrom(a, v, l)
  BY <1>4, <1>6 DEF VoteFrom
<1> QED
  BY <1>1, <1>4, <1>5, <1>7 DEF Waits, Remaining

\* Steps that leave calls for votes and their count alone.
LEMMA OthersWait ==
    ASSUME UNCHANGED <<rv, votesReceived>>, NEW a \in Server, Remaining(a),
           state'[a] = "Candidate", log'[a] = log[a]
    PROVE  Waits(a)
<1>1. \A v \in Server, k \in Lane : RVDrops(rv[a][v][k], rv'[a][v][k])
  BY DEF RVDrops
<1> QED
  BY <1>1, QuietWaits DEF Remaining

LEMMA CandidateStepNext ==
    ASSUME Timely, TypeOK, RepliesHonest, [Next]_vars, NEW a \in Server,
           LogStep(a), state'[a] = "Candidate"
    PROVE  Stands(a) \/ Waits(a)
<1> USE DEF cmVars
<1>t. state \in [Server -> CMState] /\ currentTerm \in [Server -> Nat]
  BY DEF TypeOK
<1>l. log'[a] = log[a]
  BY DEF LogStep, KeepsLog, Takes, Accepts
<1>0. ASSUME UNCHANGED <<state, currentTerm>> PROVE Remaining(a)
  BY <1>0 DEF Remaining
<1>1. ASSUME NEW i \in Server, NEW k \in Lane, StartElection(i, k)
      PROVE  Stands(a) \/ Waits(a)
  <2>1. CASE a = i
    BY <1>1, <2>1, StartStands
  <2>2. CASE a # i
    <3>1. /\ state[a] = "Candidate" /\ currentTerm'[a] = currentTerm[a]
          /\ votesReceived'[a] = votesReceived[a] /\ rv'[a] = rv[a]
      BY <1>1, <2>2, StartStands
    <3>2. \A v \in Server, l \in Lane : RVDrops(rv[a][v][l], rv'[a][v][l])
      BY <3>1 DEF RVDrops
    <3> QED
      BY <1>l, <3>1, <3>2, QuietWaits
  <2> QED
    BY <2>1, <2>2
<1>2. ASSUME NEW i \in Server, NEW k \in Lane, LeaderSendAEs(i, k)
      PROVE  Waits(a)
  BY <1>0, <1>2, <1>l, OthersWait DEF LeaderSendAEs
<1>3. ASSUME NEW i \in Server, NEW j \in Server, NEW k \in Lane,
             CallStep(i, j, k) \/ CallFailure(i, j, k)
      PROVE  Waits(a)
  <2>0. \A c : RVDrops(c, NoRV)
    BY DEF RVDrops, NoRV, Pending
  <2>1. CASE SendRequestVote(i, j, k)
    BY <2>1, SendWaits
  <2>2. CASE RequestVote(i, j, k)
    BY <2>2, GrantWaits
  <2>3. CASE RequestVoteReply(i, j, k)
    BY <2>3, CountWaits
  <2>4. CASE DeadRequestVote(i, j, k)
    <3> DEFINE c == rv[i][j][k]
               d == [c EXCEPT !.pc = "replied"]
    <3>1. /\ rv' = [rv EXCEPT ![i][j][k] = IF c.pc = "orphan" THEN NoRV ELSE d]
          /\ Arrived(c) /\ UNCHANGED <<state, currentTerm, votesReceived>>
      BY <2>4 DEF DeadRequestVote
    <3>2. c.pc = "sent" => RVDrops(c, d)
      BY <3>1, DropsOrphan
    <3> HIDE DEF d
    <3>3. RVDrops(c, IF c.pc = "orphan" THEN NoRV ELSE d)
      BY <2>0, <3>1, <3>2 DEF Arrived
    <3>4. \A x, y \in Server, l \in Lane : RVDrops(rv[x][y][l], rv'[x][y][l])
      BY <3>1, <3>3, DropsOne
    <3> QED
      BY <1>l, <3>1, <3>4, QuietWaits
  <2>5. CASE RequestVoteFails(i, j, k)
    <3> DEFINE c == rv[i][j][k]
               o == [c EXCEPT !.pc = "orphan"]
    <3>1. PICK d \in {NoRV, o} :
            CallFails(c, d, NoRV) /\ rv' = [rv EXCEPT ![i][j][k] = d]
      BY <2>5 DEF RequestVoteFails
    <3>2. UNCHANGED <<state, currentTerm, votesReceived>>
      BY <2>5 DEF RequestVoteFails
    <3>3. Arrived(c) => RVDrops(c, o)
      BY DropsOrphan
    <3>4. RVDrops(c, d)
      BY <2>0, <3>1, <3>3 DEF CallFails, Arrived
    <3>5. \A x, y \in Server, l \in Lane : RVDrops(rv[x][y][l], rv'[x][y][l])
      BY <3>1, <3>4, DropsOne
    <3> QED
      BY <1>l, <3>2, <3>5, QuietWaits
  <2>6. CASE SendAppendEntries(i, j, k) \/ DeadAppendEntries(i, j, k)
                \/ AppendEntriesFails(i, j, k)
    <3>1. UNCHANGED <<state, currentTerm, rv, votesReceived>>
      BY <2>6 DEF SendAppendEntries, DeadAppendEntries, AppendEntriesFails
    <3> QED
      BY <1>0, <1>l, <3>1, OthersWait
  <2>7. CASE AppendEntries(i, j, k)
    <3> DEFINE c == ae[i][j][k]
               t == NewTerm(c.term, currentTerm[j])
               down == \/ c.term > currentTerm[j]
                       \/ c.term = t /\ state[j] # "Follower"
    <3>1. /\ state' = [state EXCEPT ![j] = IF down THEN "Follower" ELSE state[j]]
          /\ currentTerm' = [currentTerm EXCEPT ![j] = t]
          /\ UNCHANGED <<rv, votesReceived>>
      BY <2>7 DEF AppendEntries
    <3>2. Remaining(a)
      <4>1. CASE down
        BY <3>1, <4>1, OneRemaining
      <4>2. CASE ~down
        <5>1. t = currentTerm[j]
          BY <4>2 DEF NewTerm
        <5>2. /\ state' = [state EXCEPT ![j] = state[j]]
              /\ currentTerm' = [currentTerm EXCEPT ![j] = currentTerm[j]]
          BY <3>1, <4>2, <5>1
        <5> QED
          BY <5>2, OneRemaining
      <4> QED
        BY <4>1, <4>2
    <3> QED
      BY <1>l, <3>1, <3>2, OthersWait
  <2>8. CASE AppendEntriesReply(i, j, k)
    <3>1. /\ UNCHANGED <<rv, votesReceived>>
          /\ (\E t : BecomeFollower(i, t)) \/ UNCHANGED <<state, currentTerm>>
      BY <2>8 DEF AppendEntriesReply
    <3>2. Remaining(a)
      BY <1>0, <3>1, OneRemaining DEF BecomeFollower
    <3> QED
      BY <1>l, <3>1, <3>2, OthersWait
  <2>9. CASE SendAppendEntriesPanics(i, j, k)
    <3>1. /\ state' = [state EXCEPT ![i] = "Dead"] /\ UNCHANGED <<currentTerm, votesReceived>>
          /\ rv' = Disconnected(rv, i, NoRV)
      BY <2>9 DEF SendAppendEntriesPanics
    <3>2. Remaining(a)
      BY <1>t, <3>1 DEF Remaining
    <3>3. \A x, y \in Server, l \in Lane : RVDrops(rv[x][y][l], rv'[x][y][l])
      BY <3>1, DropsDisconnected
    <3> QED
      BY <1>l, <3>1, <3>2, <3>3, QuietWaits DEF Remaining
  <2> QED
    BY <1>3, <2>1, <2>2, <2>3, <2>4, <2>5, <2>6, <2>7, <2>8, <2>9
     DEF CallStep, CallFailure
<1>4. ASSUME NEW i \in Server, NEW v \in Command, Submit(i, v)
      PROVE  Waits(a)
  BY <1>0, <1>4, <1>l, OthersWait DEF Submit
<1>5. ASSUME NEW i \in Server, ApplyCommitted(i)
      PROVE  Waits(a)
  BY <1>0, <1>5, <1>l, OthersWait DEF ApplyCommitted
<1>6. ASSUME NEW i \in Server, Stop(i)
      PROVE  Waits(a)
  <2>1. state' = [state EXCEPT ![i] = "Dead"] /\ UNCHANGED <<currentTerm, rv, votesReceived>>
    BY <1>6 DEF Stop
  <2>2. Remaining(a)
    BY <1>t, <2>1 DEF Remaining
  <2> QED
    BY <1>l, <2>1, <2>2, OthersWait
<1>7. ASSUME NEW i \in Server, Restart(i)
      PROVE  Waits(a)
  <2>1. /\ state' = [state EXCEPT ![i] = "Follower"]
        /\ \E t : currentTerm' = [currentTerm EXCEPT ![i] = t]
        /\ rv' = Disconnected(rv, i, NoRV)
        /\ votesReceived' = [votesReceived EXCEPT ![i] = [k \in Lane |-> {}]]
    BY <1>7 DEF Restart, RestoreFromStorage
  <2>2. Remaining(a)
    BY <2>1, OneRemaining
  <2>3. a # i
    BY <1>t, <2>1
  <2>4. votesReceived'[a] = votesReceived[a]
    <3>1. votesReceived \in [Server -> [Lane -> SUBSET Server]]
      BY DEF TypeOK
    <3> QED
      BY <2>1, <2>3, <3>1
  <2>5. \A x, y \in Server, l \in Lane : RVDrops(rv[x][y][l], rv'[x][y][l])
    BY <2>1, DropsDisconnected
  <2> QED
    BY <1>l, <2>2, <2>4, <2>5, QuietWaits DEF Remaining
<1>8. CASE UNCHANGED vars
  BY <1>0, <1>8, <1>l, OthersWait DEF vars
<1> QED
  BY <1>1, <1>2, <1>3, <1>4, <1>5, <1>6, <1>7, <1>8 DEF Next

-----------------------------------------------------------------------------
(* Terms along a log *)

\* Terms do not decrease along a log.
TermsOrdered == \A x \in Links : x[4] <= x[2]

\* No leader has an entry of a newer term than its own,
LeaderNewest ==
    \A i \in Server : state[i] = "Leader" =>
        \A n \in 1..Len(log[i]) : log[i][n].term <= currentTerm[i]

\* because a candidate that has one will not be elected: a majority is beyond
\* its term.
Hopeless(i) ==
    \E Q \in SUBSET Server :
        /\ IsQuorum(Q) /\ i \notin Q
        /\ \A v \in Q : /\ storage[v].currentTerm > currentTerm[i]
                        /\ \A k \in Lane : ~VoteFrom(i, v, k)

CandidateNewest ==
    \A i \in Server :
        /\ state[i] = "Candidate"
        /\ \E n \in 1..Len(log[i]) : log[i][n].term > currentTerm[i]
        => Hopeless(i)

\* A candidate asks for votes with what its log ends with.
VoteCallsTrue ==
    \A i, j \in Server, k \in Lane :
        state[i] = "Candidate" /\ rv[i][j][k].pc = "sent"
            => /\ rv[i][j][k].lastLogIndex = Len(log[i])
               /\ rv[i][j][k].lastLogTerm = LastTerm(log[i])

TermsInv == TermsOrdered /\ LeaderNewest /\ CandidateNewest /\ VoteCallsTrue

LEMMA TermsInvInit == Init => TermsInv
<1> SUFFICES ASSUME Init
             PROVE  TermsInv
  OBVIOUS
<1>1. \A i \in Server : log[i] = <<>> /\ state[i] = "Follower"
  BY DEF Init
<1>2. \A i, j \in Server, k \in Lane : ae[i][j][k] = NoAE
  BY DEF Init
<1>3. LogLinks(<<>>) = {} /\ MessageLinks(NoAE) = {}
  BY DEF LogLinks, MessageLinks, NoAE
<1>4. Links = {}
  BY <1>1, <1>2, <1>3 DEF Links
<1> QED
  BY <1>1, <1>4 DEF TermsInv, TermsOrdered, LeaderNewest, CandidateNewest, VoteCallsTrue

\* The term that is stored never decreases.
LEMMA StorageGrows ==
    ASSUME SoundStep, NEW v \in Server
    PROVE  storage'[v].currentTerm >= storage[v].currentTerm
<1>t. storage[v].currentTerm \in Nat /\ currentTerm[v] \in Nat
        /\ \A i \in Server, k \in Lane : ae[i][v][k].term \in Nat
  BY LogTypes DEF SoundStep, Sound
<1>1. storage[v].currentTerm <= currentTerm[v]
  BY DEF SoundStep, Sound, LeadershipInv, StorageBehind
<1>2. LogStep(v)
  BY DEF SoundStep
<1>3. CASE KeepsLog(v)
  BY <1>3 DEF KeepsLog
<1>4. CASE Takes(v)
  BY <1>1, <1>4 DEF Takes
<1>5. ASSUME NEW i \in Server, NEW k \in Lane, Accepts(i, v, k)
      PROVE  storage'[v].currentTerm >= storage[v].currentTerm
  <2>1. storage'[v].currentTerm = ae[i][v][k].term /\ ae[i][v][k].term >= currentTerm[v]
    BY <1>5 DEF Accepts
  <2> QED
    BY <1>1, <1>t, <2>1
<1> QED
  BY <1>2, <1>3, <1>4, <1>5 DEF LogStep

CandidatesStep == \A a \in Server : CandidateStep(a)

\* A majority has stored the term of every entry there is.
LEMMA TermStored ==
    ASSUME Sound, NEW x \in Links
    PROVE  \E Q \in SUBSET Server :
              IsQuorum(Q) /\ \A v \in Q : storage[v].currentTerm >= x[2]
<1>1. PICK o \in Server : Owns(o, x[2])
  BY DEF Sound, LinkInv, TermsOwned
<1>2. storage[o].currentTerm >= x[2] /\ Backed(o, x[2])
  BY <1>1 DEF Owns
<1>3. PICK Q \in SUBSET Server :
        IsQuorum(Q) /\ \A v \in Q \ {o} : <<v, o, x[2]>> \in granted
  BY <1>2 DEF Backed
<1>4. x[2] \in Nat
  BY LinkIsTyped DEF Sound
<1>5. ASSUME NEW v \in Q, v # o PROVE storage[v].currentTerm >= x[2]
  <2>0. TypeOK /\ VotesBind
    BY DEF Sound, ElectionInv
  <2>1. BoundInStorage(v, o, x[2])
    <3> DEFINE t == x[2]
    <3>1. t \in Nat /\ <<v, o, t>> \in granted /\ v \in Server
      BY <1>3, <1>4, <1>5
    <3> HIDE DEF t
    <3>2. BoundInStorage(v, o, t)
      BY <2>0, <3>1, VotesBindNat
    <3> QED
      BY <3>2 DEF t
  <2>2. storage[v].currentTerm \in Nat
    BY LogTypes DEF Sound
  <2> QED
    BY <1>4, <2>1, <2>2 DEF BoundInStorage
<1> QED
  BY <1>2, <1>3, <1>5

\* The link of an entry of a log.
LEMMA EntryLink ==
    ASSUME NEW i \in Server, NEW n \in 1..Len(log[i])
    PROVE  <<n, log[i][n].term, log[i][n].command, TermAt(log[i], n - 1)>> \in Links
<1> DEFINE x == <<n, log[i][n].term, log[i][n].command, TermAt(log[i], n - 1)>>
<1>1. x \in LogLinks(log[i])
  BY LogLinkOf
<1> HIDE DEF x
<1>2. x \in Links
  BY <1>1, OwnLinks
<1> QED
  BY <1>2 DEF x

LEMMA EntryTerm ==
    ASSUME TypeOK, NEW i \in Server, NEW n \in 1..Len(log[i])
    PROVE  log[i][n] \in LogEntry /\ log[i][n].term \in Nat
<1>1. log[i] \in Seq(LogEntry)
  BY DEF TypeOK
<1>2. log[i][n] \in LogEntry
  BY <1>1
<1> QED
  BY <1>2 DEF LogEntry

LEMMA VoteCallsNext ==
    ASSUME SoundStep, CandidatesStep, VoteCallsTrue
    PROVE  VoteCallsTrue'
<1> SUFFICES ASSUME NEW i \in Server, NEW j \in Server, NEW k \in Lane,
                    state'[i] = "Candidate", rv'[i][j][k].pc = "sent"
             PROVE  /\ rv'[i][j][k].lastLogIndex = Len(log'[i])
                    /\ rv'[i][j][k].lastLogTerm = LastTerm(log'[i])
  BY DEF VoteCallsTrue
<1>1. ~Stands(i)
  BY DEF Stands
<1>2. Waits(i)
  BY <1>1 DEF CandidatesStep, CandidateStep
<1> QED
  BY <1>2 DEF Waits, VoteCallsTrue

LEMMA CandidateNewestNext ==
    ASSUME SoundStep, CandidatesStep, CandidateNewest
    PROVE  CandidateNewest'
<1> SUFFICES ASSUME NEW i \in Server, state'[i] = "Candidate",
                    NEW n \in 1..Len(log'[i]), log'[i][n].term > currentTerm'[i]
             PROVE  Hopeless(i)'
  BY DEF CandidateNewest
<1>0. Sound /\ TypeOK /\ Sound' /\ TypeOK'
  BY DEF SoundStep, Sound
<1>t. /\ currentTerm[i] \in Nat /\ storage[i].currentTerm \in Nat
      /\ storage[i].currentTerm <= currentTerm[i]
      /\ \A v \in Server : storage[v].currentTerm \in Nat
      /\ \A v \in Server : storage'[v].currentTerm \in Nat
  <2>1. \A v \in Server : storage'[v].currentTerm \in Nat
    BY <1>0 DEF TypeOK
  <2> QED
    BY <1>0, <2>1, LogTypes DEF Sound, LeadershipInv, StorageBehind
<1>1. CASE Stands(i)
  <2>1. log'[i] = log[i] /\ storage' = storage /\ currentTerm'[i] = currentTerm[i] + 1
    BY <1>1 DEF Stands
  <2> DEFINE x == <<n, log[i][n].term, log[i][n].command, TermAt(log[i], n - 1)>>
  <2>2. x \in Links /\ x[2] = log[i][n].term /\ log[i][n].term \in Nat
    BY <1>0, <2>1, EntryLink, EntryTerm
  <2> HIDE DEF x
  <2>3. PICK Q \in SUBSET Server :
            IsQuorum(Q) /\ \A v \in Q : storage[v].currentTerm >= x[2]
    BY <1>0, <2>2, TermStored
  <2>4. x[2] > currentTerm[i] + 1
    BY <2>1, <2>2
  <2>5. i \notin Q
    BY <1>t, <2>2, <2>3, <2>4
  <2>6. \A v \in Q : storage'[v].currentTerm > currentTerm'[i]
    BY <1>t, <2>1, <2>2, <2>3, <2>4
  <2>7. \A v \in Q : \A k \in Lane : ~VoteFrom(i, v, k)'
    BY <1>1, <2>5 DEF Stands
  <2> QED
    BY <2>3, <2>5, <2>6, <2>7 DEF Hopeless
<1>2. CASE Waits(i)
  <2>1. state[i] = "Candidate" /\ log'[i] = log[i] /\ currentTerm'[i] = currentTerm[i]
    BY <1>2 DEF Waits
  <2>2. Hopeless(i)
    BY <2>1 DEF CandidateNewest
  <2>3. PICK Q \in SUBSET Server :
            /\ IsQuorum(Q) /\ i \notin Q
            /\ \A v \in Q : /\ storage[v].currentTerm > currentTerm[i]
                            /\ \A k \in Lane : ~VoteFrom(i, v, k)
    BY <2>2 DEF Hopeless
  <2>4. ASSUME NEW v \in Q PROVE storage'[v].currentTerm > currentTerm[i]
    <3>1. storage'[v].currentTerm >= storage[v].currentTerm
      BY StorageGrows
    <3> QED
      BY <1>t, <2>3, <3>1
  <2>5. ASSUME NEW v \in Q, NEW k \in Lane PROVE ~VoteFrom(i, v, k)'
    <3>1. ASSUME VoteGained(i, v, k) PROVE FALSE
      <4>1. rv[i][v][k].pc = "sent" /\ storage'[v].currentTerm = rv[i][v][k].term
        BY <3>1 DEF VoteGained
      <4>2. rv[i][v][k].term = currentTerm[i]
        BY <1>0, <2>1, <4>1 DEF Sound, ElectionInv, CallsCurrent, Pending
      <4> QED
        BY <1>t, <2>4, <4>1, <4>2
    <3> QED
      BY <1>2, <2>3, <3>1 DEF Waits
  <2> QED
    BY <2>1, <2>3, <2>4, <2>5 DEF Hopeless
<1> QED
  BY <1>1, <1>2 DEF CandidatesStep, CandidateStep

LEMMA LeaderNewestNext ==
    ASSUME SoundStep, LeaderNewest, CandidateNewest
    PROVE  LeaderNewest'
<1> SUFFICES ASSUME NEW h \in Server, state'[h] = "Leader", NEW n \in 1..Len(log'[h])
             PROVE  log'[h][n].term <= currentTerm'[h]
  BY DEF LeaderNewest
<1>0. Sound /\ TypeOK /\ TypeOK'
  BY DEF SoundStep, Sound
<1>t. /\ currentTerm[h] \in Nat /\ log[h] \in Seq(LogEntry) /\ Len(log[h]) \in Nat
  BY <1>0, LogTypes
<1>1. CASE Elects(h)
  <2>1. state[h] = "Candidate" /\ log' = log /\ currentTerm' = currentTerm
    BY <1>1 DEF Elects
  <2>2. log[h][n].term \in Nat
    BY <1>0, <2>1, EntryTerm
  <2>3. ASSUME log[h][n].term > currentTerm[h] PROVE FALSE
    <3>1. Hopeless(h)
      BY <2>1, <2>3 DEF CandidateNewest
    <3>2. PICK Q \in SUBSET Server :
            /\ IsQuorum(Q) /\ h \notin Q
            /\ \A v \in Q : \A k \in Lane : ~VoteFrom(h, v, k)
      BY <3>1 DEF Hopeless
    <3>3. PICK W \in SUBSET Server, k \in Lane :
            IsQuorum(W) /\ \A v \in W \ {h} : VoteFrom(h, v, k)
      BY <1>1 DEF Elects
    <3>4. Q \cap W # {}
      BY <3>2, <3>3, QuorumsMeet
    <3> QED
      BY <3>2, <3>3, <3>4
  <2> QED
    BY <1>t, <2>1, <2>2, <2>3
<1>2. CASE Leads(h)
  <2>1. state[h] = "Leader" /\ currentTerm'[h] = currentTerm[h]
    BY <1>2 DEF Leads
  <2>2. \A q \in 1..Len(log[h]) : log[h][q].term <= currentTerm[h]
    BY <2>1 DEF LeaderNewest
  <2>3. CASE KeepsLog(h)
    BY <2>1, <2>2, <2>3 DEF KeepsLog
  <2>4. CASE Takes(h)
    <3>1. PICK v \in Command :
            log'[h] = Append(log[h], [term |-> currentTerm[h], command |-> v])
      BY <2>4 DEF Takes
    <3> DEFINE e == [term |-> currentTerm[h], command |-> v]
    <3>2. e \in LogEntry /\ e.term = currentTerm[h]
      BY <1>t DEF LogEntry
    <3> HIDE DEF e
    <3>3. log'[h][n] = e \/ (n \in 1..Len(log[h]) /\ log'[h][n] = log[h][n])
      BY <1>t, <3>1, <3>2 DEF e
    <3> QED
      BY <1>t, <2>1, <2>2, <3>2, <3>3
  <2>5. ~\E i \in Server, k \in Lane : Accepts(i, h, k)
    BY DEF Accepts
  <2> QED
    BY <2>3, <2>4, <2>5 DEF SoundStep, LogStep
<1> QED
  BY <1>1, <1>2 DEF SoundStep, LeaderStep

LEMMA TermsOrderedNext ==
    ASSUME SoundStep, [Next]_vars, TermsOrdered, LeaderNewest
    PROVE  TermsOrdered'
<1>0. TypeOK /\ LogStored
  BY DEF SoundStep, Sound, LinkInv
<1>1. CASE Links' \subseteq Links
  BY <1>1 DEF TermsOrdered
<1>2. ASSUME NEW i \in Server, NEW v \in Command, Submit(i, v) PROVE TermsOrdered'
  <2> DEFINE y == <<Len(log[i]) + 1, currentTerm[i], v, LastTerm(log[i])>>
  <2>1. \A x \in Links' : x \in Links \/ x = y
    BY <1>0, <1>2, SubmitLinks
  <2>2. LastTerm(log[i]) <= currentTerm[i]
    <3>1. Len(log[i]) \in Nat /\ currentTerm[i] \in Nat
      BY <1>0, LogTypes
    <3>2. state[i] = "Leader"
      BY <1>2 DEF Submit
    <3> QED
      BY <3>1, <3>2 DEF LastTerm, TermAt, LeaderNewest
  <2>3. y[4] <= y[2]
    BY <2>2
  <2> HIDE DEF y
  <2> QED
    BY <2>1, <2>3 DEF TermsOrdered
<1> QED
  BY <1>0, <1>1, <1>2, LinksNext

LEMMA TermsInvNext ==
    ASSUME SoundStep, CandidatesStep, [Next]_vars, TermsInv
    PROVE  TermsInv'
BY TermsOrderedNext, LeaderNewestNext, CandidateNewestNext, VoteCallsNext DEF TermsInv

-----------------------------------------------------------------------------
(* Prefixes that stay *)

\* An entry of term t at index n is not older than the end of p.
Beyond(p, n, t) == t > LastTerm(p) \/ (t = LastTerm(p) /\ n >= Len(p))

HasPrefix(l, p) == AgreeUpTo(l, p, Len(p))

\* Whoever was elected in the term p ends with, or in a newer one, holds p;
FirmElected(p) ==
    /\ \E h \in Server : <<h, LastTerm(p)>> \in elected
    /\ \A i \in Server, t \in Nat :
            <<i, t>> \in elected /\ t >= LastTerm(p) => HasPrefix(log[i], p)

\* the CMs in A hold p and have stored a term that makes them keep it;
FirmHeld(p, A) ==
    \A v \in A : storage[v].currentTerm >= LastTerm(p) /\ HasPrefix(log[v], p)

\* entries that are not older than the end of p come after it;
FirmLinks(p) ==
    \A x \in Links : Beyond(p, x[1], x[2]) =>
        \/ x[1] = Len(p) /\ x[2] = LastTerm(p)
        \/ x[1] > Len(p) /\ Beyond(p, x[1] - 1, x[4])

\* requests that a CM in A may still accept do not contradict p;
FirmCalls(p) ==
    \A i, j \in Server, k \in Lane :
        Arrived(ae[i][j][k]) /\ ae[i][j][k].term >= LastTerm(p) =>
            \A x \in MessageLinks(ae[i][j][k]) :
                x[1] <= Len(p) => x[2] = p[x[1]].term

\* and a candidate of a newer term has the vote of a CM in A only if it holds p.
FirmVotes(p, A) ==
    \A i \in Server, v \in A, k \in Lane :
        /\ state[i] = "Candidate" /\ currentTerm[i] > LastTerm(p)
        /\ v # i /\ VoteFrom(i, v, k)
        => HasPrefix(log[i], p)

Firm(p, A) ==
    /\ FirmElected(p) /\ FirmHeld(p, A) /\ FirmLinks(p) /\ FirmCalls(p)
    /\ FirmVotes(p, A)

\* The last term of a log that is not empty.
LEMMA LastEntry ==
    ASSUME NEW p \in Seq(LogEntry), Len(p) > 0
    PROVE  /\ Len(p) \in Nat /\ Len(p) \in 1..Len(p)
           /\ LastTerm(p) = p[Len(p)].term /\ LastTerm(p) \in Nat
           /\ \A n \in 1..Len(p) : p[n].term \in Nat
<1>1. Len(p) \in Nat /\ Len(p) \in 1..Len(p)
  OBVIOUS
<1>2. \A n \in 1..Len(p) : p[n] \in LogEntry
  OBVIOUS
<1>3. \A n \in 1..Len(p) : p[n].term \in Nat
  BY <1>2 DEF LogEntry
<1> QED
  BY <1>1, <1>3 DEF LastTerm, TermAt

\* Terms do not decrease along a log.
LEMMA TermsAlong ==
    ASSUME Sound, TermsOrdered, NEW i \in Server, NEW a \in 1..Len(log[i]),
           NEW b \in 1..Len(log[i]), a <= b
    PROVE  log[i][a].term <= log[i][b].term
<1> DEFINE l == log[i]
           S == {n \in 1..Len(l) : n >= a /\ l[n].term < l[a].term}
<1>1. Len(l) \in Nat
  BY LogTypes DEF Sound
<1>2. \A n \in 1..Len(l) : l[n].term \in Nat
  BY EntryTerm DEF Sound
<1>3. \A n \in 1..Len(l) : TermAt(l, n - 1) <= l[n].term
  <2> SUFFICES ASSUME NEW n \in 1..Len(l) PROVE TermAt(l, n - 1) <= l[n].term
    OBVIOUS
  <2> DEFINE x == <<n, l[n].term, l[n].command, TermAt(l, n - 1)>>
  <2>1. x \in Links
    BY EntryLink
  <2>2. x[4] = TermAt(l, n - 1) /\ x[2] = l[n].term
    OBVIOUS
  <2> HIDE DEF x
  <2> QED
    BY <2>1, <2>2 DEF TermsOrdered
<1> HIDE DEF l
<1>4. ASSUME S # {} PROVE FALSE
  <2>1. S \in SUBSET Nat
    OBVIOUS
  <2>2. PICK n \in S : \A m \in S : n <= m
    <3> HIDE DEF S
    <3> QED
      BY <1>4, <2>1, HasLeast
  <2>3. n \in 1..Len(l) /\ n >= a /\ l[n].term < l[a].term
    BY <2>2
  <2>4. n # a
    BY <1>2, <2>3
  <2>5. n - 1 \in 1..Len(l) /\ n - 1 >= a
    BY <1>1, <2>3, <2>4
  <2>6. n - 1 \notin S
    <3>1. ASSUME n - 1 \in S PROVE FALSE
      <4>1. n <= n - 1
        BY <2>2, <3>1
      <4> QED
        BY <2>3, <4>1
    <3> QED
      BY <3>1
  <2>7. ~(l[n - 1].term < l[a].term)
    BY <2>5, <2>6
  <2>8. l[n - 1].term <= l[n].term
    BY <1>3, <2>3, <2>5 DEF TermAt
  <2>9. l[n - 1].term \in Nat /\ l[a].term \in Nat /\ l[n].term \in Nat
    BY <1>2, <2>3, <2>5 DEF l
  <2> QED
    BY <2>3, <2>7, <2>8, <2>9
<1>5. ~(l[b].term < l[a].term) /\ l[a].term \in Nat /\ l[b].term \in Nat
  BY <1>2, <1>4 DEF l
<1>6. l[a].term <= l[b].term
  BY <1>5
<1> QED
  BY <1>6 DEF l

\* A log that starts with p ends no earlier than p.
LEMMA PrefixBeyond ==
    ASSUME Sound, TermsOrdered, NEW i \in Server, NEW p \in Seq(LogEntry), Len(p) > 0,
           HasPrefix(log[i], p)
    PROVE  Beyond(p, Len(log[i]), LastTerm(log[i])) /\ Len(log[i]) > 0
<1>1. Len(p) \in Nat /\ Len(p) \in 1..Len(p) /\ LastTerm(p) = p[Len(p)].term
        /\ LastTerm(p) \in Nat
  BY LastEntry
<1>2. Len(log[i]) \in Nat /\ log[i] \in Seq(LogEntry)
  BY LogTypes DEF Sound
<1>3. Len(p) <= Len(log[i]) /\ log[i][Len(p)] = p[Len(p)]
  BY <1>1 DEF HasPrefix, AgreeUpTo
<1>4. Len(p) \in 1..Len(log[i]) /\ Len(log[i]) \in 1..Len(log[i])
  BY <1>1, <1>2, <1>3
<1>5. log[i][Len(p)].term <= log[i][Len(log[i])].term
  BY <1>3, <1>4, TermsAlong
<1>6. LastTerm(log[i]) = log[i][Len(log[i])].term
  BY <1>4 DEF LastTerm, TermAt
<1>7. LastTerm(log[i]) \in Nat
  BY <1>4, <1>6, EntryTerm DEF Sound
<1>8. LastTerm(p) <= LastTerm(log[i])
  BY <1>1, <1>3, <1>5, <1>6
<1> QED
  BY <1>1, <1>2, <1>3, <1>4, <1>7, <1>8 DEF Beyond

\* A log with an entry that is not older than the end of p starts with p.
LEMMA Descent ==
    ASSUME Sound, NEW p \in Seq(LogEntry), Len(p) > 0, FirmElected(p), FirmLinks(p),
           NEW i \in Server, NEW b \in 1..Len(log[i]), Beyond(p, b, log[i][b].term)
    PROVE  HasPrefix(log[i], p)
<1> DEFINE l == log[i]
           S == {n \in 1..Len(l) : Beyond(p, n, l[n].term)}
<1>1. Len(p) \in Nat /\ Len(p) \in 1..Len(p) /\ LastTerm(p) = p[Len(p)].term
        /\ LastTerm(p) \in Nat
  BY LastEntry
<1>2. Len(l) \in Nat
  BY LogTypes DEF Sound
<1>3. S # {} /\ S \in SUBSET Nat
  <2>1. b \in S
    OBVIOUS
  <2>2. S \in SUBSET Nat
    BY <1>2
  <2> QED
    BY <2>1, <2>2
<1>4. PICK n \in S : \A m \in S : n <= m
  <2> HIDE DEF S
  <2> QED
    BY <1>3, HasLeast
<1>5. n \in 1..Len(l) /\ Beyond(p, n, l[n].term)
  BY <1>4
<1>6. \/ n = Len(p) /\ l[n].term = LastTerm(p)
      \/ n > Len(p) /\ Beyond(p, n - 1, TermAt(l, n - 1))
  <2> DEFINE x == <<n, l[n].term, l[n].command, TermAt(l, n - 1)>>
  <2>1. x \in Links
    BY <1>5, EntryLink
  <2>2. x[1] = n /\ x[2] = l[n].term /\ x[4] = TermAt(l, n - 1)
    OBVIOUS
  <2> HIDE DEF x
  <2> QED
    BY <1>5, <2>1, <2>2 DEF FirmLinks
<1>7. ASSUME n > Len(p), Beyond(p, n - 1, TermAt(l, n - 1)) PROVE FALSE
  <2> HIDE DEF l
  <2>1. n - 1 \in 1..Len(l)
    BY <1>1, <1>2, <1>5, <1>7
  <2>2. TermAt(l, n - 1) = l[n - 1].term
    BY <2>1 DEF TermAt
  <2>3. n - 1 \in S
    BY <1>7, <2>1, <2>2
  <2>4. n <= n - 1
    BY <1>4, <2>3
  <2> QED
    BY <1>2, <1>5, <2>4
<1>8. PICK h \in Server : <<h, LastTerm(p)>> \in elected
  BY DEF FirmElected
<1>9. HasPrefix(log[h], p)
  BY <1>1, <1>8 DEF FirmElected
<1>10. n = Len(p) /\ l[n].term = LastTerm(p)
  BY <1>6, <1>7
<1>11. n <= Len(log[h]) /\ log[h][n] = p[n]
  BY <1>1, <1>9, <1>10 DEF HasPrefix, AgreeUpTo
<1>12. AgreeUpTo(log[i], log[h], n)
  BY <1>1, <1>5, <1>10, <1>11, LogsAgree
<1> QED
  BY <1>1, <1>9, <1>10, <1>12 DEF HasPrefix, AgreeUpTo

\* A request that does not contradict p leaves it.
LEMMA MergePrefix ==
    ASSUME NEW l \in Seq(LogEntry), NEW p \in Seq(LogEntry), NEW c \in AECall,
           HasPrefix(l, p), PrevMatches(c, l),
           \A x \in MessageLinks(c) : x[1] <= Len(p) => x[2] = p[x[1]].term
    PROVE  HasPrefix(Merge(l, c.prevLogIndex, c.entries), p)
<1> DEFINE prev == c.prevLogIndex
           es == c.entries
           z == Len(es)
           new == {n \in 1..z : TermAt(l, prev + n) # es[n].term}
           r == Merge(l, prev, es)
<1>t. /\ prev \in Nat /\ z \in Nat /\ Len(l) \in Nat /\ Len(p) \in Nat
      /\ es \in Seq(LogEntry)
  BY DEF AECall
<1>1. Len(p) <= Len(l) /\ \A q \in 1..Len(p) : l[q] = p[q]
  BY DEF HasPrefix, AgreeUpTo
<1>2. prev <= Len(l)
  BY <1>t DEF PrevMatches
<1>3. CASE new = {}
  <2>1. r = l
    BY <1>3 DEF Merge
  <2> QED
    BY <2>1
<1>4. CASE new # {}
  <2> DEFINE n == Least(new)
             a == prev + n - 1
  <2>1. n \in new /\ \A x \in new : n <= x
    <3>1. new \in SUBSET Nat
      BY <1>t
    <3> HIDE DEF new
    <3> QED
      BY <1>4, <3>1, LeastIn
  <2>2. r = SubSeq(l, 1, a) \o SubSeq(es, n, z)
    BY <1>4 DEF Merge
  <2>3. n \in 1..z /\ TermAt(l, prev + n) # es[n].term
    BY <2>1
  <2> HIDE DEF n
  <2>4. prev + n > Len(p)
    <3>1. ASSUME prev + n <= Len(p) PROVE FALSE
      <4> DEFINE x == <<prev + n, es[n].term, es[n].command,
                        IF n > 1 THEN es[n - 1].term
                        ELSE IF prev = 0 THEN -1 ELSE c.prevLogTerm>>
      <4>1. x \in MessageLinks(c)
        BY <2>3 DEF MessageLinks
      <4>2. x[1] = prev + n /\ x[2] = es[n].term
        OBVIOUS
      <4> HIDE DEF x
      <4>3. es[n].term = p[prev + n].term
        BY <3>1, <4>1, <4>2
      <4>4. prev + n \in 1..Len(p) /\ prev + n \in 1..Len(l)
        <5> HIDE DEF prev, z
        <5> QED
          BY <1>t, <1>1, <2>3, <3>1
      <4>5. TermAt(l, prev + n) = p[prev + n].term
        BY <1>1, <4>4 DEF TermAt
      <4> QED
        BY <2>3, <4>3, <4>5
    <3> HIDE DEF prev, z
    <3> QED
      BY <1>t, <2>3, <3>1
  <2>5. a \in 0..Len(l) /\ a >= Len(p)
    <3>1. CASE n = 1
      <4> HIDE DEF prev, z
      <4> QED
        BY <1>t, <1>2, <2>3, <2>4, <3>1
    <3>2. CASE n # 1
      <4>1. n - 1 \in 1..z /\ n - 1 < n
        <5> HIDE DEF z
        <5> QED
          BY <1>t, <2>3, <3>2
      <4>2. n - 1 \notin new
        <5>1. ASSUME n - 1 \in new PROVE FALSE
          <6>1. n <= n - 1
            BY <2>1, <5>1
          <6> QED
            BY <2>3, <6>1, <1>t
        <5> QED
          BY <5>1
      <4>3. TermAt(l, prev + (n - 1)) = es[n - 1].term
        BY <4>1, <4>2
      <4>4. es[n - 1].term \in Nat
        <5>1. es[n - 1] \in LogEntry
          BY <1>t, <4>1
        <5> QED
          BY <5>1 DEF LogEntry
      <4> HIDE DEF prev, z, es
      <4>5. prev + (n - 1) \in 1..Len(l)
        BY <1>t, <4>3, <4>4 DEF TermAt
      <4> QED
        BY <1>t, <2>3, <2>4, <4>5
    <3> QED
      BY <3>1, <3>2
  <2>6. /\ Len(r) = a + (z - n + 1)
        /\ \A x \in 1..a : r[x] = l[x]
    <3> HIDE DEF a, r, es
    <3>1. z = Len(es)
      BY DEF es
    <3> HIDE DEF z
    <3> QED
      BY <1>t, <2>2, <2>3, <2>5, <3>1, SpliceEntries
  <2>7. Len(r) >= Len(p)
    <3> HIDE DEF a, r, z, prev
    <3> QED
      BY <1>t, <2>3, <2>5, <2>6
  <2>8. \A q \in 1..Len(p) : r[q] = p[q]
    <3> HIDE DEF a, r, prev
    <3>1. \A q \in 1..Len(p) : q \in 1..a
      BY <1>t, <2>5
    <3> QED
      BY <1>1, <2>6, <3>1
  <2> HIDE DEF r
  <2>9. HasPrefix(r, p)
    BY <1>t, <2>7, <2>8 DEF HasPrefix, AgreeUpTo
  <2> QED
    BY <2>9 DEF r
<1> QED
  BY <1>3, <1>4

\* A CM whose term is not older than the end of p keeps p.
LEMMA PrefixStep ==
    ASSUME SoundStep, NEW p \in Seq(LogEntry), Len(p) > 0, FirmCalls(p),
           NEW v \in Server, HasPrefix(log[v], p), currentTerm[v] >= LastTerm(p)
    PROVE  HasPrefix(log'[v], p)
<1>0. Sound /\ TypeOK
  BY DEF SoundStep, Sound
<1>1. LogStep(v)
  BY DEF SoundStep
<1>t. /\ log[v] \in Seq(LogEntry) /\ Len(log[v]) \in Nat /\ currentTerm[v] \in Nat
      /\ LastTerm(p) \in Nat /\ Len(p) \in Nat
  BY <1>0, LogTypes, LastEntry
<1>2. CASE KeepsLog(v)
  BY <1>2 DEF KeepsLog
<1>3. CASE Takes(v)
  <2>1. Leads(v) \/ state[v] # "Leader"
    <3>1. state[v] = "Leader" /\ state'[v] = "Leader"
      BY <1>3 DEF Takes
    <3> QED
      BY <3>1 DEF SoundStep, LeaderStep, Elects
  <2>2. Leads(v)
    BY <1>3, <2>1 DEF Takes
  <2>3. Len(log'[v]) >= Len(log[v]) /\ \A n \in 1..Len(log[v]) : log'[v][n] = log[v][n]
    BY <2>2, LeaderLog
  <2>4. Len(log'[v]) \in Nat
    <3>1. log'[v] \in Seq(LogEntry)
      BY DEF SoundStep, Sound, TypeOK
    <3> QED
      BY <3>1
  <2> QED
    BY <1>t, <2>3, <2>4 DEF HasPrefix, AgreeUpTo
<1>4. ASSUME NEW i \in Server, NEW k \in Lane, Accepts(i, v, k)
      PROVE  HasPrefix(log'[v], p)
  <2> DEFINE c == ae[i][v][k]
  <2>1. /\ Arrived(c) /\ c.term >= currentTerm[v] /\ PrevMatches(c, log[v])
        /\ log'[v] = Merge(log[v], c.prevLogIndex, c.entries)
    BY <1>4 DEF Accepts
  <2>2. c \in AECall /\ c.term \in Nat
    BY <1>0, LogTypes
  <2>3. c.term >= LastTerm(p)
    BY <1>t, <2>1, <2>2
  <2>4. \A x \in MessageLinks(c) : x[1] <= Len(p) => x[2] = p[x[1]].term
    BY <2>1, <2>3 DEF FirmCalls
  <2> HIDE DEF c
  <2> QED
    BY <1>t, <2>1, <2>2, <2>4, MergePrefix
<1> QED
  BY <1>1, <1>2, <1>3, <1>4 DEF LogStep

\* CM v may still confirm what a leader of term t sends it.
CanAck(v, t) ==
    /\ storage[v].currentTerm <= t
    /\ \A i \in Server, s \in Nat : <<i, s>> \in elected /\ i = v => s <= t

\* What a vote that counts says of its voter.
LEMMA VoterStored ==
    ASSUME Sound, NEW i \in Server, NEW v \in Server, NEW k \in Lane,
           state[i] = "Candidate", v # i, VoteFrom(i, v, k)
    PROVE  storage[v].currentTerm >= currentTerm[i]
<1>0. TypeOK /\ VotesBind
  BY DEF Sound, ElectionInv
<1>1. <<v, i, currentTerm[i]>> \in granted
  <2>1. CASE rv[i][v][k].voteGranted
    <3>1. rv[i][v][k].pc = "replied" /\ <<v, i, rv[i][v][k].term>> \in granted
      BY <2>1 DEF Sound, ElectionInv, RepliesHonest
    <3>2. rv[i][v][k].term = currentTerm[i]
      BY <3>1 DEF Sound, ElectionInv, CallsCurrent, Pending
    <3> QED
      BY <3>1, <3>2
  <2>2. CASE v \in votesReceived[i][k] /\ \E j \in Server : Pending(rv[i][j][k])
    BY <2>2 DEF Sound, ElectionInv, CountHonest
  <2> QED
    BY <2>1, <2>2 DEF VoteFrom
<1> DEFINE t == currentTerm[i]
<1>2. t \in Nat /\ storage[v].currentTerm \in Nat
  BY <1>0, LogTypes
<1>3. <<v, i, t>> \in granted
  BY <1>1
<1> HIDE DEF t
<1>4. BoundInStorage(v, i, t)
  BY <1>0, <1>2, <1>3, VotesBindNat
<1>5. storage[v].currentTerm >= t
  BY <1>2, <1>4 DEF BoundInStorage
<1> QED
  BY <1>5 DEF t

\* One leader per term, in the form in which it is used after a step.
LEMMA OneElected ==
    Sound => (forgotten = {} => \A a, b \in Server, t \in Nat :
                <<a, t>> \in elected /\ <<b, t>> \in elected => a = b)
<1> SUFFICES ASSUME Sound, forgotten = {}, NEW a \in Server, NEW b \in Server,
                    NEW t \in Nat, <<a, t>> \in elected, <<b, t>> \in elected
             PROVE  a = b
  OBVIOUS
<1>1. TypeOK /\ VotesBind /\ LeadershipInv
  BY DEF Sound, ElectionInv
<1> QED
  BY <1>1, ElectedOnce

\* A step elects nobody who does not hold p, when a majority holds p or can
\* still confirm it.
LEMMA ElectsFirm ==
    ASSUME SoundStep, NEW p \in Seq(LogEntry), Len(p) > 0,
           NEW A \in SUBSET Server, NEW Q \in SUBSET Server, Firm(p, A),
           A \subseteq Q, IsQuorum(Q), \A v \in Q \ A : CanAck(v, LastTerm(p))',
           forgotten' = {}, NEW i \in Server, Elects(i), currentTerm[i] >= LastTerm(p)
    PROVE  HasPrefix(log[i], p)
<1>0. Sound /\ TypeOK /\ forgotten = {} /\ Sound' /\ TypeOK'
  BY DEF SoundStep, Sound, ElectionStep, ElectStep
<1>1. /\ state[i] = "Candidate" /\ currentTerm' = currentTerm /\ log' = log
      /\ storage' = storage /\ elected' = elected \cup {<<i, currentTerm[i]>>}
  BY DEF Elects
<1>2. PICK W \in SUBSET Server, k \in Lane :
        IsQuorum(W) /\ \A v \in W \ {i} : VoteFrom(i, v, k)
  BY DEF Elects
<1>t. /\ LastTerm(p) \in Nat /\ currentTerm[i] \in Nat
      /\ \A v \in Server : storage[v].currentTerm \in Nat
  BY <1>0, LogTypes, LastEntry
<1>3. currentTerm[i] > LastTerm(p)
  <2>1. ASSUME currentTerm[i] = LastTerm(p) PROVE FALSE
    <3>1. PICK h \in Server : <<h, LastTerm(p)>> \in elected
      BY DEF Firm, FirmElected
    <3>2. <<h, LastTerm(p)>> \in elected' /\ <<i, LastTerm(p)>> \in elected'
      BY <1>1, <2>1, <3>1
    <3>3. \A a, b \in Server, t \in Nat :
            <<a, t>> \in elected' /\ <<b, t>> \in elected' => a = b
      <4>1. (Sound => (forgotten = {} => \A a, b \in Server, t \in Nat :
                <<a, t>> \in elected /\ <<b, t>> \in elected => a = b))'
        BY OneElected, PTL
      <4> QED
        BY <1>0, <4>1
    <3>4. h = i
      BY <1>t, <3>2, <3>3
    <3>5. HoldsTerm(i, LastTerm(p))
      BY <1>0, <1>t, <3>1, <3>4 DEF Sound, LeadershipInv, ElectedHold
    <3> QED
      BY <1>1, <1>t, <2>1, <3>5 DEF HoldsTerm
  <2> QED
    BY <1>t, <2>1
<1>4. PICK v \in Q : v \in W
  <2>1. Q \cap W # {}
    BY <1>2, QuorumsMeet
  <2> QED
    BY <2>1
<1>5. CASE v \in A
  <2>1. CASE v = i
    BY <1>5, <2>1 DEF Firm, FirmHeld
  <2>2. CASE v # i
    BY <1>1, <1>2, <1>3, <1>4, <1>5, <2>2 DEF Firm, FirmVotes
  <2> QED
    BY <2>1, <2>2
<1>6. CASE v \notin A
  <2>1. storage[v].currentTerm <= LastTerm(p)
          /\ \A s \in Nat : <<v, s>> \in elected' => s <= LastTerm(p)
    BY <1>1, <1>4, <1>6 DEF CanAck
  <2>2. CASE v = i
    <3>1. <<v, currentTerm[i]>> \in elected'
      BY <1>1, <2>2
    <3> QED
      BY <1>3, <1>t, <2>1, <3>1
  <2>3. CASE v # i
    <3>1. storage[v].currentTerm >= currentTerm[i]
      BY <1>0, <1>1, <1>2, <1>4, <2>3, VoterStored
    <3> QED
      BY <1>3, <1>4, <1>t, <2>1, <3>1
  <2> QED
    BY <2>2, <2>3
<1> QED
  BY <1>5, <1>6

\* A firm prefix stays firm as long as the rest of a majority can do nothing
\* newer.
LEMMA FirmStays ==
    ASSUME SoundStep, CandidatesStep, [Next]_vars, TermsInv,
           NEW p \in Seq(LogEntry), Len(p) > 0,
           NEW A \in SUBSET Server, NEW Q \in SUBSET Server, Firm(p, A),
           A \subseteq Q, IsQuorum(Q), \A v \in Q \ A : CanAck(v, LastTerm(p))',
           forgotten' = {}
    PROVE  Firm(p, A)'
<1>0. Sound /\ TypeOK /\ forgotten = {} /\ LogStored
  BY DEF SoundStep, Sound, ElectionStep, ElectStep, LinkInv
<1>f. FirmElected(p) /\ FirmHeld(p, A) /\ FirmLinks(p) /\ FirmCalls(p) /\ FirmVotes(p, A)
  BY DEF Firm
<1> DEFINE tc == LastTerm(p)
<1>t. /\ tc \in Nat /\ Len(p) \in Nat
      /\ \A v \in Server : /\ currentTerm[v] \in Nat /\ storage[v].currentTerm \in Nat
                           /\ storage'[v].currentTerm \in Nat
  <2>1. \A v \in Server : storage'[v].currentTerm \in Nat
    BY DEF SoundStep, Sound, TypeOK
  <2> QED
    BY <1>0, <2>1, LogTypes, LastEntry
<1>1. FirmHeld(p, A)'
  <2> SUFFICES ASSUME NEW v \in A
               PROVE  storage'[v].currentTerm >= tc /\ HasPrefix(log'[v], p)
    BY DEF FirmHeld
  <2>1. storage[v].currentTerm >= tc /\ HasPrefix(log[v], p)
    BY <1>f DEF FirmHeld
  <2>2. storage'[v].currentTerm >= storage[v].currentTerm
    BY StorageGrows
  <2>3. storage[v].currentTerm <= currentTerm[v]
    BY <1>0 DEF Sound, LeadershipInv, StorageBehind
  <2> HIDE DEF tc
  <2>4. currentTerm[v] >= tc /\ storage'[v].currentTerm >= tc
    BY <1>t, <2>1, <2>2, <2>3
  <2>5. HasPrefix(log'[v], p)
    BY <1>f, <2>1, <2>4, PrefixStep DEF tc
  <2> QED
    BY <2>4, <2>5
<1>2. FirmElected(p)'
  <2>1. elected \subseteq elected'
    BY DEF SoundStep, ElectionStep, ElectStep
  <2>2. ASSUME NEW i \in Server, NEW t \in Nat, <<i, t>> \in elected', t >= tc
        PROVE  HasPrefix(log'[i], p)
    <3>1. CASE <<i, t>> \in elected
      <4>1. HasPrefix(log[i], p)
        BY <1>f, <2>2, <3>1 DEF FirmElected
      <4>2. HoldsTerm(i, t)
        BY <1>0, <3>1 DEF Sound, LeadershipInv, ElectedHold
      <4> HIDE DEF tc
      <4>3. currentTerm[i] >= tc
        BY <1>t, <2>2, <4>2 DEF HoldsTerm
      <4> QED
        BY <1>f, <4>1, <4>3, PrefixStep DEF tc
    <3>2. CASE <<i, t>> \notin elected
      <4>1. PICK h \in Server : Elects(h)
        BY <2>2, <3>2 DEF SoundStep
      <4>2. <<i, t>> = <<h, currentTerm[h]>> /\ log' = log
        BY <2>2, <3>2, <4>1 DEF Elects
      <4>3. i = h /\ t = currentTerm[h]
        BY <4>2
      <4>4. HasPrefix(log[i], p)
        BY <2>2, <4>1, <4>3, ElectsFirm
      <4> QED
        BY <4>2, <4>4
    <3> QED
      BY <3>1, <3>2
  <2> QED
    BY <1>f, <2>1, <2>2 DEF FirmElected
<1>3. FirmLinks(p)'
  <2>1. CASE Links' \subseteq Links
    BY <1>f, <2>1 DEF FirmLinks
  <2>2. ASSUME NEW i \in Server, NEW v \in Command, Submit(i, v) PROVE FirmLinks(p)'
    <3> DEFINE y == <<Len(log[i]) + 1, currentTerm[i], v, LastTerm(log[i])>>
    <3>1. \A x \in Links' : x \in Links \/ x = y
      BY <1>0, <2>2, SubmitLinks
    <3>2. ASSUME Beyond(p, Len(log[i]) + 1, currentTerm[i])
          PROVE  Len(log[i]) + 1 > Len(p) /\ Beyond(p, Len(log[i]), LastTerm(log[i]))
      <4>1. currentTerm[i] >= tc
        <5> HIDE DEF tc
        <5> QED
          BY <1>t, <3>2 DEF Beyond, tc
      <4>2. <<i, currentTerm[i]>> \in elected
        BY <1>0, <2>2 DEF Submit, Sound, LeadershipInv, LeaderKnown
      <4>3. HasPrefix(log[i], p)
        BY <1>f, <1>t, <4>1, <4>2 DEF FirmElected
      <4>4. Beyond(p, Len(log[i]), LastTerm(log[i]))
        BY <1>0, <4>3, PrefixBeyond DEF TermsInv
      <4>5. Len(p) <= Len(log[i]) /\ Len(log[i]) \in Nat
        BY <1>0, <4>3, LogTypes DEF HasPrefix, AgreeUpTo
      <4> QED
        BY <1>t, <4>4, <4>5
    <3>3. y[1] = Len(log[i]) + 1 /\ y[2] = currentTerm[i] /\ y[4] = LastTerm(log[i])
            /\ y[1] - 1 = Len(log[i])
      <4>1. Len(log[i]) \in Nat
        BY <1>0, LogTypes
      <4> QED
        BY <4>1
    <3> HIDE DEF y
    <3>4. Beyond(p, y[1], y[2]) => y[1] > Len(p) /\ Beyond(p, y[1] - 1, y[4])
      BY <3>2, <3>3
    <3> QED
      BY <1>f, <3>1, <3>4 DEF FirmLinks
  <2> QED
    BY <1>0, <2>1, <2>2, LinksNext
<1>4. FirmCalls(p)'
  <2> SUFFICES ASSUME NEW i \in Server, NEW j \in Server, NEW k \in Lane,
                      Arrived(ae'[i][j][k]), ae'[i][j][k].term >= tc,
                      NEW x \in MessageLinks(ae'[i][j][k]), x[1] <= Len(p)
               PROVE  x[2] = p[x[1]].term
    BY DEF FirmCalls
  <2> DEFINE c == ae[i][j][k]
             d == ae'[i][j][k]
  <2>1. AEStep(i, j, k)
    BY DEF SoundStep
  <2>2. d # NoAE /\ ~Answers(i, j, k) /\ ~Spawns(i, j, k)
    BY DEF Arrived, NoAE, Answers, Spawns
  <2>3. CASE d = c
    BY <1>f, <2>3 DEF FirmCalls
  <2>4. CASE Orphaned(c, d)
    <3>1. Arrived(c) /\ d.term = c.term /\ d.prevLogIndex = c.prevLogIndex
            /\ d.prevLogTerm = c.prevLogTerm /\ d.entries = c.entries
      BY <2>4 DEF Orphaned, SameMessage
    <3>2. MessageLinks(d) = MessageLinks(c)
      <4> HIDE DEF c, d
      <4> QED
        BY <3>1 DEF MessageLinks
    <3> QED
      BY <1>f, <3>1, <3>2 DEF FirmCalls
  <2>5. CASE Builds(i, j, k)
    <3>1. /\ c.pc = "spawned" /\ d.term = c.term
          /\ d.prevLogIndex \in 0..Len(log[i])
          /\ d.prevLogTerm = TermAt(log[i], d.prevLogIndex)
          /\ d.entries = SubSeq(log[i], d.prevLogIndex + 1, Len(log[i]))
      BY <2>5 DEF Builds
    <3>2. <<i, c.term>> \in elected /\ c.term \in Nat
      BY <1>0, <3>1, LogTypes DEF Sound, LeadershipInv, CallsElected
    <3>3. HasPrefix(log[i], p)
      BY <1>f, <3>1, <3>2 DEF FirmElected
    <3>4. log[i] \in Seq(LogEntry)
      BY <1>0, LogTypes
    <3>5. d \in AECall
      BY DEF SoundStep, Sound, TypeOK
    <3> HIDE DEF d
    <3>6. MessageLinks(d) \subseteq LogLinks(log[i])
      BY <3>1, <3>4, <3>5, RestLinks
    <3>7. x \in LogLinks(log[i])
      BY <3>6 DEF d
    <3>8. PICK n \in 1..Len(log[i]) :
            x = <<n, log[i][n].term, log[i][n].command, TermAt(log[i], n - 1)>>
      BY <3>7, LogLinkOf
    <3>9. x[1] = n /\ x[2] = log[i][n].term
      BY <3>8
    <3>10. log[i][n] = p[n]
      BY <1>t, <3>3, <3>9 DEF HasPrefix, AgreeUpTo
    <3> QED
      BY <3>9, <3>10
  <2> QED
    BY <2>1, <2>2, <2>3, <2>4, <2>5 DEF AEStep
<1>5. FirmVotes(p, A)'
  <2> SUFFICES ASSUME NEW i \in Server, NEW v \in A, NEW k \in Lane,
                      state'[i] = "Candidate", currentTerm'[i] > tc, v # i,
                      VoteFrom(i, v, k)'
               PROVE  HasPrefix(log'[i], p)
    BY DEF FirmVotes
  <2>1. ~Stands(i)
    BY DEF Stands
  <2>2. Waits(i)
    BY <2>1 DEF CandidatesStep, CandidateStep
  <2>3. state[i] = "Candidate" /\ currentTerm'[i] = currentTerm[i] /\ log'[i] = log[i]
    BY <2>2 DEF Waits
  <2>4. CASE VoteFrom(i, v, k)
    BY <1>f, <2>3, <2>4 DEF FirmVotes
  <2>5. CASE VoteGained(i, v, k)
    <3> DEFINE c == rv[i][v][k]
    <3>1. c.pc = "sent" /\ UpToDate(c, log[v])
      BY <2>5 DEF VoteGained
    <3>2. c.lastLogIndex = Len(log[i]) /\ c.lastLogTerm = LastTerm(log[i])
      BY <2>3, <3>1 DEF TermsInv, VoteCallsTrue
    <3>3. HasPrefix(log[v], p)
      BY <1>f DEF FirmHeld
    <3>4. Beyond(p, Len(log[v]), LastTerm(log[v]))
      BY <1>0, <3>3, PrefixBeyond DEF TermsInv
    <3>5. /\ log[i] \in Seq(LogEntry) /\ Len(log[i]) \in Nat /\ Len(log[v]) \in Nat
          /\ log[v] \in Seq(LogEntry)
      BY <1>0, LogTypes
    <3>6. LastTerm(log[i]) \in Int /\ LastTerm(log[v]) \in Int
      BY <3>5, TermAtType DEF LastTerm
    <3>7. \/ LastTerm(log[i]) > LastTerm(log[v])
          \/ LastTerm(log[i]) = LastTerm(log[v]) /\ Len(log[i]) >= Len(log[v])
      BY <3>1, <3>2 DEF UpToDate
    <3> DEFINE ti == LastTerm(log[i])
               tv == LastTerm(log[v])
               ni == Len(log[i])
               nv == Len(log[v])
    <3>8. Beyond(p, ni, ti) /\ ti >= tc
      <4>a. ti \in Int /\ tv \in Int /\ ni \in Nat /\ nv \in Nat
        BY <3>5, <3>6
      <4>b. ti > tv \/ (ti = tv /\ ni >= nv)
        BY <3>7
      <4>c. Beyond(p, nv, tv)
        BY <3>4
      <4> HIDE DEF ti, tv, ni, nv
      <4>d. tv > tc \/ (tv = tc /\ nv >= Len(p))
        BY <4>c DEF Beyond
      <4>1. /\ ti \in Int /\ tv \in Int /\ ni \in Nat /\ nv \in Nat
            /\ ti > tv \/ (ti = tv /\ ni >= nv)
            /\ tv > tc \/ (tv = tc /\ nv >= Len(p))
        BY <4>a, <4>b, <4>d
      <4> HIDE DEF tc
      <4>2. ti > tc \/ (ti = tc /\ ni >= Len(p))
        BY <1>t, <4>1
      <4> QED
        BY <1>t, <4>1, <4>2 DEF Beyond, tc
    <3>9. Len(log[i]) \in 1..Len(log[i])
      <4>1. ASSUME Len(log[i]) = 0 PROVE FALSE
        <5>1. LastTerm(log[i]) = -1
          BY <4>1 DEF LastTerm, TermAt
        <5> QED
          BY <1>t, <3>8, <5>1
      <4> QED
        BY <3>5, <4>1
    <3>10. LastTerm(log[i]) = log[i][Len(log[i])].term
      BY <3>9 DEF LastTerm, TermAt
    <3>11. HasPrefix(log[i], p)
      BY <1>0, <1>f, <3>8, <3>9, <3>10, Descent
    <3> QED
      BY <2>3, <3>11
  <2> QED
    BY <2>2, <2>4, <2>5 DEF Waits
<1> QED
  BY <1>1, <1>2, <1>3, <1>4, <1>5 DEF Firm

-----------------------------------------------------------------------------
(* What can be chosen stays *)

\* Nobody was elected in a newer term than that of a leader which a majority
\* can still confirm.
LEMMA NoneNewer ==
    ASSUME Sound, forgotten = {}, NEW h \in Server, state[h] = "Leader",
           storage[h].currentTerm = currentTerm[h],
           NEW Q \in SUBSET Server, IsQuorum(Q),
           \A v \in Q \ {h} : CanAck(v, currentTerm[h]),
           NEW i \in Server, NEW t \in Nat, <<i, t>> \in elected
    PROVE  t <= currentTerm[h]
<1>0. TypeOK /\ VotesBind /\ ElectedBacked /\ ElectedHold
  BY DEF Sound, ElectionInv, LeadershipInv
<1> DEFINE T == currentTerm[h]
<1>t. T \in Nat /\ \A v \in Server : storage[v].currentTerm \in Nat
  BY <1>0, LogTypes
<1>1. PICK W \in SUBSET Server : IsQuorum(W) /\ \A v \in W \ {i} : <<v, i, t>> \in granted
  BY <1>0 DEF ElectedBacked, Backed
<1>2. PICK v \in Q : v \in W
  <2>1. Q \cap W # {}
    BY <1>1, QuorumsMeet
  <2> QED
    BY <2>1
<1>3. CASE v = i
  <2>1. CASE v = h
    <3>1. HoldsTerm(h, t)
      BY <1>0, <1>3, <2>1 DEF ElectedHold
    <3> QED
      BY <1>t, <3>1 DEF HoldsTerm
  <2>2. CASE v # h
    BY <1>2, <1>3, <2>2 DEF CanAck
  <2> QED
    BY <2>1, <2>2
<1>4. CASE v # i
  <2>1. <<v, i, t>> \in granted
    BY <1>1, <1>2, <1>4
  <2>2. BoundInStorage(v, i, t)
    BY <1>0, <1>2, <2>1, VotesBindNat
  <2>3. storage[v].currentTerm >= t
    BY <1>t, <1>2, <2>2 DEF BoundInStorage
  <2>4. storage[v].currentTerm <= T
    <3>1. CASE v = h
      BY <1>t, <3>1
    <3>2. CASE v # h
      BY <1>2, <3>2 DEF CanAck
    <3> QED
      BY <3>1, <3>2
  <2> HIDE DEF T
  <2>5. t <= T
    BY <1>t, <1>2, <2>3, <2>4
  <2> QED
    BY <2>5 DEF T
<1> QED
  BY <1>3, <1>4

\* The log of a leader that has just taken a command is firm, if a majority can
\* still confirm it.
FreshIsFirm ==
    \A h \in Server, Q \in SUBSET Server, p \in Seq(LogEntry) :
        /\ state[h] = "Leader" /\ storage[h].currentTerm = currentTerm[h]
        /\ p = log[h] /\ Len(p) > 0 /\ LastTerm(p) = currentTerm[h]
        /\ IsQuorum(Q) /\ \A v \in Q \ {h} : CanAck(v, currentTerm[h])
        => Firm(p, {h})

LEMMA FreshFirm == Sound /\ SegmentsTrue /\ forgotten = {} => FreshIsFirm
<1> SUFFICES ASSUME Sound, SegmentsTrue, forgotten = {}, NEW h \in Server,
                    NEW Q \in SUBSET Server, NEW p \in Seq(LogEntry),
                    state[h] = "Leader", storage[h].currentTerm = currentTerm[h],
                    p = log[h], Len(p) > 0, LastTerm(p) = currentTerm[h],
                    IsQuorum(Q), \A v \in Q \ {h} : CanAck(v, currentTerm[h])
             PROVE  Firm(p, {h})
  BY DEF FreshIsFirm
<1> DEFINE T == currentTerm[h]
<1>0. TypeOK /\ VotesBind /\ ElectedBacked /\ LeaderKnown /\ CallsElected /\ LeaderCovers
  BY DEF Sound, ElectionInv, LeadershipInv, LinkInv
<1>t. /\ T \in Nat /\ \A v \in Server : storage[v].currentTerm \in Nat
      /\ p \in Seq(LogEntry) /\ Len(p) \in Nat /\ LastTerm(p) = T
  BY <1>0, LogTypes
<1>1. HasPrefix(p, p)
  BY <1>t DEF HasPrefix, AgreeUpTo
<1>2. ASSUME NEW i \in Server, NEW t \in Nat, <<i, t>> \in elected
      PROVE  t <= T
  BY <1>2, NoneNewer
<1>3. FirmElected(p)
  <2>1. <<h, T>> \in elected
    BY <1>0 DEF LeaderKnown
  <2>2. ASSUME NEW i \in Server, NEW t \in Nat, <<i, t>> \in elected, t >= T
        PROVE  HasPrefix(log[i], p)
    <3>1. t = T
      BY <1>2, <1>t, <2>2
    <3>2. i = h
      BY <1>t, <2>1, <2>2, <3>1, OneElected
    <3> QED
      BY <1>1, <3>2
  <2> QED
    BY <1>t, <2>1, <2>2 DEF FirmElected
<1>4. FirmHeld(p, {h})
  BY <1>1, <1>t DEF FirmHeld
<1>5. FirmLinks(p)
  <2> SUFFICES ASSUME NEW x \in Links, Beyond(p, x[1], x[2])
               PROVE  x[1] = Len(p) /\ x[2] = T
    BY <1>t DEF FirmLinks
  <2>1. x[1] \in Nat /\ x[2] \in Nat
    BY <1>0, LinkIsTyped
  <2>2. x[2] <= T
    <3>1. PICK W \in SUBSET Server :
            IsQuorum(W) /\ \A v \in W : storage[v].currentTerm >= x[2]
      BY TermStored
    <3>2. PICK v \in Q : v \in W
      <4>1. Q \cap W # {}
        BY <3>1, QuorumsMeet
      <4> QED
        BY <4>1
    <3>3. storage[v].currentTerm >= x[2]
      BY <3>1, <3>2
    <3>4. storage[v].currentTerm <= T
      <4>1. CASE v = h
        BY <1>t, <4>1
      <4>2. CASE v # h
        BY <3>2, <4>2 DEF CanAck
      <4> QED
        BY <4>1, <4>2
    <3> HIDE DEF T
    <3> QED
      BY <1>t, <2>1, <3>2, <3>3, <3>4
  <2>3. x[2] = T /\ x[1] >= Len(p)
    <3> HIDE DEF T
    <3> QED
      BY <1>t, <2>1, <2>2 DEF Beyond
  <2>4. x[1] <= Len(p)
    BY <1>0, <2>3 DEF LeaderCovers
  <2> HIDE DEF T
  <2> QED
    BY <1>t, <2>1, <2>3, <2>4
<1>6. FirmCalls(p)
  <2> SUFFICES ASSUME NEW i \in Server, NEW j \in Server, NEW k \in Lane,
                      Arrived(ae[i][j][k]), ae[i][j][k].term >= T,
                      NEW x \in MessageLinks(ae[i][j][k]), x[1] <= Len(p)
               PROVE  x[2] = p[x[1]].term
    BY <1>t DEF FirmCalls
  <2> DEFINE c == ae[i][j][k]
  <2>1. c.pc # "idle" /\ c.pc \in {"sent", "replied", "orphan"} /\ c.term \in Nat
    BY <1>0, LogTypes DEF Arrived
  <2>2. <<i, c.term>> \in elected
    BY <1>0, <2>1 DEF CallsElected
  <2>3. c.term <= T
    BY <1>2, <2>1, <2>2
  <2>4. c.term = T
    <3>1. c.term >= T
      OBVIOUS
    <3> HIDE DEF c, T
    <3> QED
      BY <1>t, <2>1, <2>3, <3>1
  <2>5. <<h, T>> \in elected
    BY <1>0 DEF LeaderKnown
  <2>6. i = h
    BY <1>t, <2>2, <2>4, <2>5, OneElected
  <2>7. SegmentOf(c, p)
    BY <2>1, <2>4, <2>6 DEF SegmentsTrue
  <2>8. PICK n \in 1..Len(c.entries) :
            x = <<c.prevLogIndex + n, c.entries[n].term, c.entries[n].command,
                  IF n > 1 THEN c.entries[n - 1].term
                  ELSE IF c.prevLogIndex = 0 THEN -1 ELSE c.prevLogTerm>>
    BY DEF MessageLinks
  <2>9. x[1] = c.prevLogIndex + n /\ x[2] = c.entries[n].term
    BY <2>8
  <2> HIDE DEF c
  <2> QED
    BY <2>7, <2>9 DEF SegmentOf
<1>7. FirmVotes(p, {h})
  <2> SUFFICES ASSUME NEW i \in Server, NEW k \in Lane, state[i] = "Candidate",
                      currentTerm[i] > T, h # i, VoteFrom(i, h, k)
               PROVE  FALSE
    BY <1>t DEF FirmVotes
  <2>1. storage[h].currentTerm >= currentTerm[i]
    BY VoterStored
  <2>2. currentTerm[i] \in Nat
    BY <1>0, LogTypes
  <2> QED
    BY <1>t, <2>1, <2>2
<1> QED
  BY <1>3, <1>4, <1>5, <1>6, <1>7 DEF Firm

\* The members of Q that hold the first n entries of leader h, as it knows or
\* is about to.
Confirmers(h, Q, n) == {v \in Q : v = h \/ Acked(h, v, n)}

\* Leader h may commit its first n entries once all of Q have confirmed them.
Choosable(h, Q, n) ==
    /\ state[h] = "Leader" /\ n \in 1..Len(log[h])
    /\ log[h][n].term = currentTerm[h]
    /\ IsQuorum(Q) /\ h \in Q
    /\ \A v \in Q : v = h \/ Acked(h, v, n) \/ CanAck(v, currentTerm[h])

ChoosableInv ==
    forgotten = {} =>
        \A h \in Server, Q \in SUBSET Server, n \in Nat,
           p \in Seq(LogEntry), A \in SUBSET Server :
            /\ Choosable(h, Q, n)
            /\ p = SubSeq(log[h], 1, n) /\ A = Confirmers(h, Q, n)
            => Firm(p, A)

LEMMA ChoosableInit == Init => ChoosableInv
<1> SUFFICES ASSUME Init
             PROVE  ChoosableInv
  OBVIOUS
<1>1. \A h \in Server : state[h] # "Leader"
  BY DEF Init
<1> QED
  BY <1>1 DEF ChoosableInv, Choosable

\* A vote that counts has been stored.
VotesStored ==
    \A i, v \in Server, k \in Lane :
        state[i] = "Candidate" /\ v # i /\ VoteFrom(i, v, k)
            => storage[v].currentTerm >= currentTerm[i]

LEMMA VotersStored == Sound => VotesStored
BY VoterStored DEF VotesStored

\* Where a request ends.
LEMMA EndIndex ==
    ASSUME TypeOK
    PROVE  \A i, j \in Server, k \in Lane :
              ae[i][j][k].prevLogIndex + Len(ae[i][j][k].entries) \in Nat
<1>1. \A x, y \in Nat : x + y \in Nat
  OBVIOUS
<1>2. \A i, j \in Server, k \in Lane :
        ae[i][j][k].prevLogIndex \in Nat /\ Len(ae[i][j][k].entries) \in Nat
  BY LogTypes
<1> QED
  BY <1>1, <1>2

\* Fewer need to hold what is firm.
LEMMA FirmLess ==
    ASSUME NEW p, NEW A, NEW B, B \subseteq A, Firm(p, A)
    PROVE  Firm(p, B)
BY DEF Firm, FirmHeld, FirmVotes

\* The log of a leader up to an entry of its own term.
LEMMA OwnPrefix ==
    ASSUME NEW l \in Seq(LogEntry), NEW n \in 1..Len(l), NEW p, p = SubSeq(l, 1, n)
    PROVE  /\ p \in Seq(LogEntry) /\ Len(p) = n /\ Len(p) > 0 /\ n \in Nat
           /\ \A q \in 1..n : p[q] = l[q]
           /\ LastTerm(p) = l[n].term
           /\ AgreeUpTo(l, p, n)
<1>1. n \in Nat /\ n > 0 /\ n <= Len(l) /\ Len(l) \in Nat
  OBVIOUS
<1>2. p \in Seq(LogEntry)
  BY <1>1, SubLog
<1>3. Len(p) = n /\ \A q \in 1..n : p[q] = l[q]
  BY <1>1
<1>4. LastTerm(p) = l[n].term
  BY <1>1, <1>3 DEF LastTerm, TermAt
<1> QED
  BY <1>1, <1>2, <1>3, <1>4 DEF AgreeUpTo

\* A leader that has an entry of its own term was not elected just now.
LEMMA ElectsNoOwn ==
    ASSUME SoundStep, NEW h \in Server, Elects(h), NEW n \in 1..Len(log[h]),
           log[h][n].term = currentTerm[h]
    PROVE  FALSE
<1>0. Sound /\ TypeOK /\ VotesBind /\ TermsOwned
  BY DEF SoundStep, Sound, ElectionInv, LinkInv
<1>1. /\ state[h] = "Candidate" /\ state'[h] = "Leader" /\ granted' = granted
      /\ currentTerm' = currentTerm
  BY DEF Elects
<1> DEFINE x == <<n, log[h][n].term, log[h][n].command, TermAt(log[h], n - 1)>>
<1>2. x \in Links
  BY EntryLink
<1>3. x[2] = currentTerm[h]
  OBVIOUS
<1> HIDE DEF x
<1>4. PICK o \in Server : Owns(o, x[2])
  BY <1>0, <1>2 DEF TermsOwned
<1>5. Owns(o, currentTerm[h])
  BY <1>3, <1>4
<1>6. Backed(h, currentTerm[h])
  <2>1. LeaderElected'
    BY DEF SoundStep, Sound, ElectionInv
  <2>2. PICK W \in SUBSET Server :
            IsQuorum(W) /\ \A v \in W \ {h} : <<v, h, currentTerm'[h]>> \in granted'
    BY <1>1, <2>1 DEF LeaderElected
  <2> QED
    BY <1>1, <2>2 DEF Backed
<1>7. h = o
  BY <1>0, <1>1, <1>5, <1>6, OwnerAlone
<1> QED
  BY <1>1, <1>5, <1>7 DEF Owns

\* Who accepts a request could have confirmed it before and still can.
LEMMA AcceptsCanAck ==
    ASSUME SoundStep, forgotten' = {}, NEW i \in Server, NEW v \in Server,
           NEW k \in Lane, Accepts(i, v, k), NEW t, t = ae[i][v][k].term
    PROVE  CanAck(v, t) /\ CanAck(v, t)' /\ storage'[v].currentTerm = t
<1>0. Sound /\ TypeOK /\ forgotten = {} /\ ElectedHold /\ StorageBehind
  BY DEF SoundStep, Sound, ElectionStep, ElectStep, LeadershipInv
<1>1. ElectedHold' /\ TypeOK'
  BY DEF SoundStep, Sound, LeadershipInv
<1>2. /\ t >= currentTerm[v] /\ storage'[v].currentTerm = t /\ currentTerm'[v] = t
  BY DEF Accepts
<1>t. t \in Nat /\ currentTerm[v] \in Nat /\ storage[v].currentTerm \in Nat
  BY <1>0, LogTypes
<1>3. CanAck(v, t)
  <2>1. storage[v].currentTerm <= t
    BY <1>0, <1>2, <1>t DEF StorageBehind
  <2>2. ASSUME NEW s \in Nat, <<v, s>> \in elected PROVE s <= t
    <3>1. HoldsTerm(v, s)
      BY <1>0, <2>2 DEF ElectedHold
    <3> QED
      BY <1>2, <1>t, <3>1 DEF HoldsTerm
  <2> QED
    BY <2>1, <2>2 DEF CanAck
<1>4. CanAck(v, t)'
  <2>1. storage'[v].currentTerm <= t
    BY <1>2, <1>t
  <2>2. ASSUME NEW s \in Nat, <<v, s>> \in elected' PROVE s <= t
    <3>1. HoldsTerm(v, s)'
      BY <1>1, <2>2 DEF ElectedHold
    <3> QED
      BY <1>2, <1>t, <3>1 DEF HoldsTerm
  <2> QED
    BY <2>1, <2>2 DEF CanAck
<1> QED
  BY <1>2, <1>3, <1>4

LEMMA CanAckBefore ==
    ASSUME SoundStep, NEW v \in Server, NEW t \in Nat, CanAck(v, t)'
    PROVE  CanAck(v, t)
<1>1. storage[v].currentTerm \in Nat /\ storage'[v].currentTerm \in Nat
  BY DEF SoundStep, Sound, TypeOK
<1>2. storage'[v].currentTerm >= storage[v].currentTerm
  BY StorageGrows
<1>3. elected \subseteq elected'
  BY DEF SoundStep, ElectionStep, ElectStep
<1>4. storage'[v].currentTerm <= t
  BY DEF CanAck
<1>5. \A i \in Server, s \in Nat : <<i, s>> \in elected' /\ i = v => s <= t
  BY DEF CanAck
<1>6. storage[v].currentTerm <= t
  BY <1>1, <1>2, <1>4
<1> QED
  BY <1>3, <1>5, <1>6 DEF CanAck

\* What leader h could commit before the step, and still can.
LEMMA ChoosableStays ==
    ASSUME SoundStep, CandidatesStep, [Next]_vars, TermsInv, AckInv, ChoosableInv,
           forgotten' = {}, NEW h \in Server, NEW Q \in SUBSET Server,
           NEW n \in 1..Len(log[h]), Leads(h), Choosable(h, Q, n)',
           NEW p \in Seq(LogEntry), p = SubSeq(log[h], 1, n),
           log[h][n].term = currentTerm[h],
           NEW B \in SUBSET Server, B = Confirmers(h, Q, n)'
    PROVE  Firm(p, B)'
<1>0. Sound /\ TypeOK /\ forgotten = {} /\ SegmentsTrue /\ Sound'
  BY DEF SoundStep, Sound, ElectionStep, ElectStep, AckInv
<1>1. PICK T \in Nat : T = currentTerm[h]
  BY <1>0, LogTypes
<1>2. PICK A \in SUBSET Server : A = Confirmers(h, Q, n)
  BY DEF Confirmers
<1>3. /\ p \in Seq(LogEntry) /\ Len(p) = n /\ Len(p) > 0 /\ n \in Nat
      /\ LastTerm(p) = T /\ AgreeUpTo(log[h], p, n)
  <2>1. PICK l \in Seq(LogEntry) : l = log[h]
    BY <1>0, LogTypes
  <2>2. n \in 1..Len(l) /\ p = SubSeq(l, 1, n)
    BY <2>1
  <2>3. /\ Len(p) = n /\ Len(p) > 0 /\ n \in Nat
        /\ LastTerm(p) = l[n].term /\ AgreeUpTo(l, p, n)
    BY <2>2, OwnPrefix
  <2> QED
    BY <1>1, <2>1, <2>3
<1>4. /\ state[h] = "Leader" /\ currentTerm'[h] = T
      /\ IsQuorum(Q) /\ h \in Q
      /\ \A v \in Q : v = h \/ Acked(h, v, n)' \/ CanAck(v, T)'
  BY <1>1 DEF Leads, Choosable
<1>5. \A v \in Q : Acked(h, v, n)' => Acked(h, v, n)
            \/ \E k \in Lane :
                /\ Accepts(h, v, k) /\ ae[h][v][k].term = T
                /\ n <= ae[h][v][k].prevLogIndex + Len(ae[h][v][k].entries)
  BY <1>1, <1>3, AckedNext
<1>6. \A v \in Q : Acked(h, v, n)' => Acked(h, v, n) \/ (CanAck(v, T) /\ CanAck(v, T)')
  BY <1>5, AcceptsCanAck
<1>7. Firm(p, A)
  <2>1. \A v \in Q : v = h \/ Acked(h, v, n) \/ CanAck(v, T)
    BY <1>4, <1>6, CanAckBefore
  <2>2. Choosable(h, Q, n)
    BY <1>1, <1>4, <2>1 DEF Choosable
  <2> QED
    BY <1>0, <1>2, <1>3, <2>2 DEF ChoosableInv
<1>8. PICK C \in SUBSET Server : C = A \cap B
  OBVIOUS
<1>9. Firm(p, C)'
  <2>1. Firm(p, C)
    BY <1>7, <1>8, FirmLess
  <2>2. C \subseteq Q
    BY <1>2, <1>8 DEF Confirmers
  <2>3. \A v \in Q \ C : CanAck(v, T)'
    <3> SUFFICES ASSUME NEW v \in Q \ C PROVE CanAck(v, T)'
      OBVIOUS
    <3>1. CASE v \in B
      <4>1. v \notin A
        BY <1>8, <3>1
      <4>2. Acked(h, v, n)'
        BY <1>2, <3>1, <4>1 DEF Confirmers
      <4>3. ~Acked(h, v, n)
        BY <1>2, <4>1 DEF Confirmers
      <4> QED
        BY <1>6, <4>2, <4>3
    <3>2. CASE v \notin B
      <4>1. v # h /\ ~Acked(h, v, n)'
        BY <3>2 DEF Confirmers
      <4> QED
        BY <1>4, <4>1
    <3> QED
      BY <3>1, <3>2
  <2>4. \A v \in Q \ C : CanAck(v, LastTerm(p))'
    BY <1>3, <2>3
  <2> QED
    BY <1>3, <1>4, <2>1, <2>2, <2>4, FirmStays
<1>10. ASSUME NEW v \in B, v \notin C
       PROVE  /\ storage'[v].currentTerm = T
              /\ HasPrefix(log'[v], p)
  <2>1. v \in Q /\ v \notin A
    BY <1>8, <1>10 DEF Confirmers
  <2>2. Acked(h, v, n)' /\ ~Acked(h, v, n)
    BY <1>2, <1>10, <2>1 DEF Confirmers
  <2>3. PICK k \in Lane :
                /\ Accepts(h, v, k) /\ ae[h][v][k].term = T
                /\ n <= ae[h][v][k].prevLogIndex + Len(ae[h][v][k].entries)
    BY <1>5, <2>1, <2>2
  <2> DEFINE e == ae[h][v][k].prevLogIndex + Len(ae[h][v][k].entries)
  <2>4. AgreeUpTo(log'[v], log[h], e)
    BY <1>0, <1>1, <1>4, <2>1, <2>3, AcceptsLeader
  <2>5. e \in Nat /\ n <= e
    BY <1>0, <2>1, <2>3, EndIndex
  <2> HIDE DEF e
  <2>6. AgreeUpTo(log'[v], p, n)
    <3>0. Len(log'[v]) \in Nat
      <4>1. log'[v] \in Seq(LogEntry)
        BY <1>0, <2>1 DEF Sound, TypeOK
      <4> QED
        BY <4>1
    <3>1. n <= Len(log'[v]) /\ \A q \in 1..n : log'[v][q] = log[h][q]
      BY <1>3, <2>4, <2>5, <3>0 DEF AgreeUpTo
    <3> QED
      BY <1>3, <3>1 DEF AgreeUpTo
  <2> QED
    BY <1>3, <2>1, <2>3, <2>6, AcceptsCanAck DEF HasPrefix
<1>11. FirmHeld(p, B)'
  <2>1. \A v \in C : storage'[v].currentTerm >= LastTerm(p) /\ HasPrefix(log'[v], p)
    BY <1>9 DEF Firm, FirmHeld
  <2>2. \A v \in B : v \notin C =>
            storage'[v].currentTerm >= LastTerm(p) /\ HasPrefix(log'[v], p)
    BY <1>3, <1>10
  <2>3. \A v \in B : storage'[v].currentTerm >= LastTerm(p) /\ HasPrefix(log'[v], p)
    BY <2>1, <2>2
  <2> QED
    BY <2>3 DEF FirmHeld
<1>12. FirmVotes(p, B)'
  <2> SUFFICES ASSUME NEW i \in Server, NEW v \in B, NEW k \in Lane,
                      state'[i] = "Candidate", currentTerm'[i] > LastTerm(p), v # i,
                      VoteFrom(i, v, k)'
               PROVE  HasPrefix(log'[i], p)
    BY DEF FirmVotes
  <2>1. CASE v \in C
    BY <1>9, <2>1 DEF Firm, FirmVotes
  <2>2. CASE v \notin C
    <3>1. storage'[v].currentTerm = T
      BY <1>10, <2>2
    <3>2. (Sound => VotesStored)'
      BY VotersStored, PTL
    <3>3. storage'[v].currentTerm >= currentTerm'[i]
      BY <1>0, <3>2 DEF VotesStored
    <3>4. currentTerm'[i] \in Nat
      BY <1>0 DEF Sound, TypeOK
    <3> QED
      BY <1>1, <1>3, <3>1, <3>3, <3>4
  <2> QED
    BY <2>1, <2>2
<1> QED
  BY <1>9, <1>11, <1>12 DEF Firm

\* What leader h can commit because it has taken a command just now.
LEMMA ChoosableFresh ==
    ASSUME SoundStep, AckInv, AckInv',
           forgotten' = {}, NEW h \in Server, NEW Q \in SUBSET Server, NEW n \in Nat,
           n > Len(log[h]), Leads(h), Choosable(h, Q, n)',
           NEW p \in Seq(LogEntry), p = SubSeq(log'[h], 1, n),
           NEW B \in SUBSET Server, B = Confirmers(h, Q, n)'
    PROVE  Firm(p, B)'
<1>0. Sound /\ TypeOK /\ forgotten = {} /\ SegmentsTrue /\ Sound' /\ SegmentsTrue'
  BY DEF SoundStep, Sound, ElectionStep, ElectStep, AckInv
<1>1. /\ state[h] = "Leader" /\ state'[h] = "Leader" /\ currentTerm'[h] = currentTerm[h]
      /\ n \in 1..Len(log'[h]) /\ log'[h][n].term = currentTerm'[h]
      /\ IsQuorum(Q) /\ h \in Q
      /\ \A v \in Q : v = h \/ Acked(h, v, n)' \/ CanAck(v, currentTerm[h])'
  BY DEF Leads, Choosable
<1>t. /\ log[h] \in Seq(LogEntry) /\ Len(log[h]) \in Nat /\ currentTerm[h] \in Nat
      /\ log'[h] \in Seq(LogEntry)
  BY <1>0, LogTypes DEF Sound, TypeOK
<1>2. Takes(h)
  <2>1. ~KeepsLog(h)
    BY <1>1, <1>t DEF KeepsLog
  <2>2. \A i \in Server, k \in Lane : ~Accepts(i, h, k)
    BY <1>1 DEF Accepts
  <2> QED
    BY <2>1, <2>2 DEF SoundStep, LogStep
<1>3. storage'[h].currentTerm = currentTerm'[h] /\ n = Len(log'[h])
  <2>1. PICK w \in Command :
            log'[h] = Append(log[h], [term |-> currentTerm[h], command |-> w])
    BY <1>2 DEF Takes
  <2>2. Len(log'[h]) = Len(log[h]) + 1
    BY <1>t, <2>1
  <2> QED
    BY <1>1, <1>2, <1>t, <2>2 DEF Takes
<1>4. ASSUME NEW v \in Q, v # h PROVE ~Acked(h, v, n)'
  <2> SUFFICES ASSUME Acked(h, v, n)' PROVE FALSE
    OBVIOUS
  <2>1. CASE Acked(h, v, n)
    <3>1. n <= Len(log[h])
      BY <1>0, <1>1, <1>4, <2>1, AckedInside
    <3> QED
      BY <1>t, <3>1
  <2>2. ASSUME NEW k \in Lane, Accepts(h, v, k), ae[h][v][k].term = currentTerm[h],
               n <= ae[h][v][k].prevLogIndex + Len(ae[h][v][k].entries)
        PROVE  FALSE
    <3> DEFINE e == ae[h][v][k].prevLogIndex + Len(ae[h][v][k].entries)
    <3>1. ae[h][v][k].pc \in {"sent", "replied", "orphan"}
      BY <2>2 DEF Accepts, Arrived
    <3>2. SegmentOf(ae[h][v][k], log[h])
      BY <1>0, <1>1, <2>2, <3>1 DEF SegmentsTrue
    <3>3. e <= Len(log[h]) /\ n <= e
      BY <2>2, <3>2 DEF SegmentOf
    <3>4. e \in Nat
      BY <1>0, EndIndex
    <3> HIDE DEF e
    <3> QED
      BY <1>t, <3>3, <3>4
  <2> QED
    BY <2>1, <2>2, AckedNext
<1>5. B = {h}
  BY <1>1, <1>4 DEF Confirmers
<1>6. p = log'[h]
  BY <1>3, <1>t
<1>7. Len(p) > 0 /\ LastTerm(p) = currentTerm'[h]
  BY <1>1, <1>3, <1>6, <1>t DEF LastTerm, TermAt
<1>8. \A v \in Q \ {h} : CanAck(v, currentTerm[h])'
  BY <1>1, <1>4
<1>9. (Sound /\ SegmentsTrue /\ forgotten = {} => FreshIsFirm)'
  BY FreshFirm, PTL
<1>10. Firm(p, {h})'
  BY <1>0, <1>1, <1>3, <1>6, <1>7, <1>8, <1>9 DEF FreshIsFirm
<1> QED
  BY <1>5, <1>10

LEMMA ChoosableNext ==
    ASSUME SoundStep, CandidatesStep, [Next]_vars, TermsInv, AckInv, AckInv',
           ChoosableInv
    PROVE  ChoosableInv'
<1> SUFFICES ASSUME forgotten' = {}, NEW h \in Server, NEW Q \in SUBSET Server,
                    NEW n \in Nat, NEW p \in Seq(LogEntry), NEW B \in SUBSET Server,
                    Choosable(h, Q, n)', p = SubSeq(log'[h], 1, n),
                    B = Confirmers(h, Q, n)'
             PROVE  Firm(p, B)'
  BY DEF ChoosableInv
<1>0. TypeOK /\ TypeOK'
  BY DEF SoundStep, Sound
<1>1. state'[h] = "Leader" /\ n \in 1..Len(log'[h]) /\ log'[h][n].term = currentTerm'[h]
  BY DEF Choosable
<1>t. log[h] \in Seq(LogEntry) /\ Len(log[h]) \in Nat /\ log'[h] \in Seq(LogEntry)
  BY <1>0, LogTypes DEF TypeOK
<1>2. CASE Elects(h)
  <2>1. log' = log /\ currentTerm' = currentTerm
    BY <1>2 DEF Elects
  <2> QED
    BY <1>1, <1>2, <2>1, ElectsNoOwn
<1>3. CASE Leads(h) /\ n <= Len(log[h])
  <2>1. n \in 1..Len(log[h])
    BY <1>1, <1>3, <1>t
  <2>2. Len(log'[h]) >= Len(log[h]) /\ \A q \in 1..Len(log[h]) : log'[h][q] = log[h][q]
    BY <1>3, LeaderLog
  <2>3. SubSeq(log'[h], 1, n) = SubSeq(log[h], 1, n)
    <3>1. AgreeUpTo(log'[h], log[h], n)
      BY <1>1, <1>t, <2>1, <2>2 DEF AgreeUpTo
    <3> QED
      BY <1>1, <1>t, <2>1, <3>1, AgreeIsPrefix
  <2>4. log[h][n].term = currentTerm[h]
    BY <1>1, <1>3, <2>1, <2>2 DEF Leads
  <2> QED
    BY <1>3, <2>1, <2>3, <2>4, ChoosableStays
<1>4. CASE Leads(h) /\ n > Len(log[h])
  BY <1>4, ChoosableFresh
<1>5. Elects(h) \/ Leads(h)
  BY <1>1 DEF SoundStep, LeaderStep
<1> QED
  BY <1>2, <1>3, <1>4, <1>5, <1>t

-----------------------------------------------------------------------------
(* What a step commits, learns and delivers *)

\* Leader h commits its first n entries, which all of Q have confirmed;
Commits(h, n, Q) ==
    /\ state[h] = "Leader" /\ n \in 1..Len(log[h])
    /\ log[h][n].term = currentTerm[h]
    /\ IsQuorum(Q) /\ h \in Q /\ \A v \in Q : v = h \/ Acked(h, v, n)
    /\ commitIndex' = [commitIndex EXCEPT ![h] = n]
    /\ chosen' = ChosenAfter(log[h], n)
    /\ UNCHANGED <<log, applied>>

\* CM j learns from a request how much has been committed;
Learns(i, j, k) ==
    /\ Accepts(i, j, k) /\ ae[i][j][k].leaderCommit > commitIndex[j]
    /\ commitIndex' = [commitIndex EXCEPT
            ![j] = Least({ae[i][j][k].leaderCommit, Len(log'[j])})]
    /\ UNCHANGED <<applied, chosen>>

\* CM i is restarted.
Resets(i) ==
    /\ commitIndex' = [commitIndex EXCEPT ![i] = 0]
    /\ applied' = [applied EXCEPT ![i] = <<>>]
    /\ UNCHANGED chosen

CommitStep ==
    /\ misdated \subseteq misdated'
    /\ \/ UNCHANGED <<commitIndex, chosen, applied>>
       \/ \E h \in Server, n \in Nat, Q \in SUBSET Server : Commits(h, n, Q)
       \/ \E i, j \in Server, k \in Lane : Learns(i, j, k)
       \/ \E i \in Server : Resets(i) \/ ApplyCommitted(i)

\* Nobody regards more as committed than has been chosen.
CommitBound ==
    /\ \A j \in Server : commitIndex[j] <= Len(chosen)
    /\ \A i, j \in Server, k \in Lane :
        Arrived(ae[i][j][k]) => ae[i][j][k].leaderCommit <= Len(chosen)

LEMMA AppendEntriesCommits ==
    ASSUME TypeOK, NEW i \in Server, NEW j \in Server, NEW k \in Lane,
           AppendEntries(i, j, k)
    PROVE  \/ UNCHANGED <<commitIndex, chosen, applied>>
           \/ Learns(i, j, k)
<1> DEFINE c == ae[i][j][k]
           success == c.term = NewTerm(c.term, currentTerm[j]) /\ PrevMatches(c, log[j])
           newLog == IF success THEN Merge(log[j], c.prevLogIndex, c.entries)
                     ELSE log[j]
           n == Least({c.leaderCommit, Len(newLog)})
<1>1. /\ commitIndex' = [commitIndex EXCEPT ![j] =
                IF success /\ c.leaderCommit > commitIndex[j] THEN n ELSE commitIndex[j]]
      /\ UNCHANGED <<applied, chosen>>
  BY DEF AppendEntries, history
<1>2. commitIndex \in [Server -> Nat]
  BY DEF TypeOK
<1>3. CASE success /\ c.leaderCommit > commitIndex[j]
  <2>1. Accepts(i, j, k)
    BY <1>3, AcceptsSuccess
  <2>2. log'[j] = newLog
    BY <1>3, <2>1 DEF Accepts
  <2>3. commitIndex' = [commitIndex EXCEPT ![j] = n]
    BY <1>1, <1>3
  <2> QED
    BY <1>1, <1>3, <2>1, <2>2, <2>3 DEF Learns
<1>4. CASE ~(success /\ c.leaderCommit > commitIndex[j])
  <2>1. commitIndex' = [commitIndex EXCEPT ![j] = commitIndex[j]]
    BY <1>1, <1>4
  <2> QED
    BY <1>1, <1>2, <2>1
<1> QED
  BY <1>3, <1>4

LEMMA ReplyCommits ==
    ASSUME TypeOK, CommitBound, NEW i \in Server, NEW j \in Server, NEW k \in Lane,
           AppendEntriesReply(i, j, k)
    PROVE  \/ UNCHANGED <<commitIndex, chosen, applied>>
           \/ \E n \in Nat, Q \in SUBSET Server : Commits(i, n, Q)
<1> DEFINE c == ae[i][j][k]
           next == c.prevLogIndex + 1 + Len(c.entries)
           match == [matchIndex[i] EXCEPT ![j] = next - 1]
           held == {n \in (commitIndex[i] + 1)..Len(log[i]) :
                    /\ log[i][n].term = currentTerm[i]
                    /\ IsQuorum({i} \cup {p \in Peers(i) : match[p] >= n})}
           new == Committed(i, match)
<1>1. applied' = applied /\ log' = log /\ c.pc = "replied"
  BY DEF AppendEntriesReply
<1>t. /\ commitIndex[i] \in Nat /\ Len(log[i]) \in Nat /\ commitIndex \in [Server -> Nat]
      /\ matchIndex[i] \in [Server -> Nat] /\ Len(chosen) \in Nat
  <2>1. chosen \in Seq(LogEntry) /\ commitIndex \in [Server -> Nat]
    BY DEF TypeOK
  <2>2. matchIndex \in [Server -> [Server -> Nat]]
    BY DEF TypeOK
  <2> QED
    BY <2>1, <2>2, LogTypes
<1>2. CASE UNCHANGED <<commitIndex, chosen>>
  BY <1>1, <1>2
<1>3. CASE /\ state[i] = "Leader" /\ c.success
           /\ commitIndex' = [commitIndex EXCEPT ![i] = new]
           /\ chosen' = ChosenAfter(log[i], new)
  <2>1. CASE held = {}
    <3>1. new = commitIndex[i]
      BY <2>1 DEF Committed
    <3> HIDE DEF new, match, held
    <3>2. commitIndex' = commitIndex
      BY <1>3, <1>t, <3>1
    <3>3. commitIndex[i] <= Len(chosen)
      BY DEF CommitBound
    <3>4. chosen' = chosen
      BY <1>3, <1>t, <3>1, <3>3 DEF ChosenAfter
    <3> QED
      BY <1>1, <3>2, <3>4
  <2>2. CASE held # {}
    <3>1. held \in SUBSET (0..Len(log[i]))
      BY <1>t
    <3>2. new = Greatest(held)
      BY <2>2 DEF Committed
    <3>3. Greatest(held) \in held
      <4> HIDE DEF held
      <4> QED
        BY <1>t, <2>2, <3>1, GreatestIn
    <3>4. new \in held
      BY <3>2, <3>3
    <3> HIDE DEF new
    <3> DEFINE Q == {i} \cup {p \in Peers(i) : match[p] >= new}
    <3>5. /\ new \in (commitIndex[i] + 1)..Len(log[i])
          /\ log[i][new].term = currentTerm[i] /\ IsQuorum(Q)
      BY <3>4
    <3>6. new \in 1..Len(log[i]) /\ new \in Nat
      BY <1>t, <3>5
    <3>7. Q \in SUBSET Server /\ i \in Q
      BY DEF Peers
    <3>8. \A v \in Q : v = i \/ Acked(i, v, new)
      <4> SUFFICES ASSUME NEW v \in Server, v # i, match[v] >= new
                   PROVE  Acked(i, v, new)
        BY DEF Peers
      <4>1. CASE v # j
        <5>1. match[v] = matchIndex[i][v]
          BY <1>t, <4>1
        <5> QED
          BY <5>1 DEF Acked
      <4>2. CASE v = j
        <5>1. match[v] = next - 1
          BY <1>t, <4>2
        <5>2. next - 1 = c.prevLogIndex + Len(c.entries)
          <6>1. \A p, e \in Nat : (p + 1 + e) - 1 = p + e
            OBVIOUS
          <6>2. c.prevLogIndex \in Nat /\ Len(c.entries) \in Nat
            BY LogTypes
          <6> QED
            BY <6>1, <6>2
        <5> HIDE DEF next, match
        <5>3. c.prevLogIndex + Len(c.entries) >= new
          BY <5>1, <5>2
        <5> QED
          BY <1>1, <1>3, <4>2, <5>3 DEF Acked
      <4> QED
        BY <4>1, <4>2
    <3> HIDE DEF Q
    <3>9. Commits(i, new, Q)
      BY <1>1, <1>3, <3>5, <3>6, <3>7, <3>8 DEF Commits
    <3> QED
      BY <3>6, <3>7, <3>9
  <2> QED
    BY <2>1, <2>2
<1>4. \/ UNCHANGED <<commitIndex, chosen>>
      \/ /\ state[i] = "Leader" /\ c.success
         /\ commitIndex' = [commitIndex EXCEPT ![i] = new]
         /\ chosen' = ChosenAfter(log[i], new)
  BY DEF AppendEntriesReply, Relevant
<1> QED
  BY <1>2, <1>3, <1>4

LEMMA CommitStepNext ==
    ASSUME TypeOK, CommitBound, [Next]_vars
    PROVE  CommitStep
<1> USE DEF cmVars, leaderVars, history
<1>0. UNCHANGED <<commitIndex, chosen, applied, misdated>> => CommitStep
  BY DEF CommitStep
<1>1. ASSUME NEW i \in Server, NEW k \in Lane, StartElection(i, k) \/ LeaderSendAEs(i, k)
      PROVE  CommitStep
  BY <1>0, <1>1 DEF StartElection, LeaderSendAEs
<1>2. ASSUME NEW i \in Server, NEW j \in Server, NEW k \in Lane,
             CallStep(i, j, k) \/ CallFailure(i, j, k)
      PROVE  CommitStep
  <2>1. CASE SendRequestVote(i, j, k) \/ RequestVote(i, j, k)
                \/ DeadRequestVote(i, j, k) \/ RequestVoteReply(i, j, k)
                \/ RequestVoteFails(i, j, k)
    BY <1>0, <2>1 DEF SendRequestVote, RequestVote, DeadRequestVote,
                      RequestVoteReply, RequestVoteFails
  <2>2. CASE SendAppendEntriesPanics(i, j, k) \/ DeadAppendEntries(i, j, k)
                \/ AppendEntriesFails(i, j, k)
    BY <1>0, <2>2 DEF SendAppendEntriesPanics, DeadAppendEntries, AppendEntriesFails
  <2>3. CASE AppendEntries(i, j, k)
    <3>1. misdated' = misdated
      BY <2>3 DEF AppendEntries
    <3>2. UNCHANGED <<commitIndex, chosen, applied>> \/ Learns(i, j, k)
      BY <2>3, AppendEntriesCommits
    <3>3. CASE Learns(i, j, k)
      BY <3>1, <3>3 DEF CommitStep
    <3> QED
      BY <1>0, <3>1, <3>2, <3>3
  <2>4. CASE AppendEntriesReply(i, j, k)
    <3>1. misdated' = misdated
      BY <2>4 DEF AppendEntriesReply
    <3>2. CASE \E n \in Nat, Q \in SUBSET Server : Commits(i, n, Q)
      BY <3>1, <3>2 DEF CommitStep
    <3> QED
      BY <1>0, <2>4, <3>1, <3>2, ReplyCommits
  <2>5. CASE SendAppendEntries(i, j, k)
    <3>1. UNCHANGED <<commitIndex, chosen, applied>> /\ misdated \subseteq misdated'
      BY <2>5 DEF SendAppendEntries
    <3> QED
      BY <3>1 DEF CommitStep
  <2> QED
    BY <1>2, <2>1, <2>2, <2>3, <2>4, <2>5 DEF CallStep, CallFailure
<1>3. ASSUME NEW i \in Server, NEW v \in Command, Submit(i, v)
      PROVE  CommitStep
  BY <1>0, <1>3 DEF Submit
<1>4. ASSUME NEW i \in Server, ApplyCommitted(i)
      PROVE  CommitStep
  <2>1. misdated' = misdated
    BY <1>4 DEF ApplyCommitted
  <2> QED
    BY <1>4, <2>1 DEF CommitStep
<1>5. ASSUME NEW i \in Server, Stop(i)
      PROVE  CommitStep
  BY <1>0, <1>5 DEF Stop
<1>6. ASSUME NEW i \in Server, Restart(i)
      PROVE  CommitStep
  <2>1. misdated' = misdated /\ Resets(i)
    BY <1>6 DEF Restart, Resets
  <2> QED
    BY <2>1 DEF CommitStep
<1>7. CASE UNCHANGED vars
  BY <1>0, <1>7 DEF vars
<1> QED
  BY <1>1, <1>2, <1>3, <1>4, <1>5, <1>6, <1>7 DEF Next

LEMMA CommitTypes ==
    ASSUME TypeOK
    PROVE  /\ chosen \in Seq(LogEntry) /\ Len(chosen) \in Nat
           /\ \A j \in Server : commitIndex[j] \in Nat
           /\ commitIndex \in [Server -> Nat]
           /\ \A j \in Server : applied[j] \in Seq(LogEntry)
           /\ applied \in [Server -> Seq(LogEntry)]
<1>1. chosen \in Seq(LogEntry) /\ commitIndex \in [Server -> Nat]
  BY DEF TypeOK
<1>2. applied \in [Server -> Seq(LogEntry)]
  BY DEF TypeOK
<1> QED
  BY <1>1, <1>2

\* What a leader commits.
LEMMA CommitsChoose ==
    ASSUME TypeOK, NEW h \in Server, NEW n \in Nat, NEW Q, Commits(h, n, Q)
    PROVE  /\ n <= Len(chosen) => chosen' = chosen
           /\ n > Len(chosen) => chosen' = SubSeq(log[h], 1, n) /\ Len(chosen') = n
           /\ Len(chosen') >= Len(chosen) /\ n <= Len(chosen') /\ Len(chosen') \in Nat
<1>1. n \in 1..Len(log[h]) /\ chosen' = ChosenAfter(log[h], n)
  BY DEF Commits
<1>2. Len(log[h]) \in Nat /\ Len(chosen) \in Nat /\ log[h] \in Seq(LogEntry)
  BY LogTypes, CommitTypes
<1>3. CASE n <= Len(chosen)
  <2>1. chosen' = chosen
    BY <1>1, <1>2, <1>3 DEF ChosenAfter
  <2> QED
    BY <1>2, <1>3, <2>1
<1>4. CASE n > Len(chosen)
  <2>1. chosen' = SubSeq(log[h], 1, n)
    BY <1>1, <1>2, <1>4 DEF ChosenAfter
  <2>2. Len(chosen') = n
    BY <1>1, <1>2, <2>1, OwnPrefix
  <2> QED
    BY <1>2, <1>4, <2>1, <2>2
<1> QED
  BY <1>2, <1>3, <1>4

\* The number of entries chosen does not decrease.
LEMMA ChosenLonger ==
    ASSUME TypeOK, CommitStep
    PROVE  Len(chosen') >= Len(chosen) /\ Len(chosen') \in Nat
<1>1. Len(chosen) \in Nat
  BY CommitTypes
<1>2. CASE chosen' = chosen
  BY <1>1, <1>2
<1>3. chosen' = chosen \/ \E h \in Server, n \in Nat, Q \in SUBSET Server : Commits(h, n, Q)
  BY DEF CommitStep, Learns, Resets, ApplyCommitted, history
<1> QED
  BY <1>2, <1>3, CommitsChoose

LEMMA LeastOfTwo ==
    ASSUME NEW a \in Nat, NEW b \in Nat
    PROVE  /\ Least({a, b}) \in Nat /\ Least({a, b}) <= a /\ Least({a, b}) <= b
           /\ a <= b => Least({a, b}) = a
<1> DEFINE S == {a, b}
<1>1. S \in SUBSET Nat /\ S # {} /\ a \in S /\ b \in S /\ \A x \in S : x = a \/ x = b
  OBVIOUS
<1> HIDE DEF S
<1>2. Least(S) \in S /\ \A m \in S : Least(S) <= m
  BY <1>1, LeastIn
<1>3. Least(S) \in Nat /\ Least(S) <= a /\ Least(S) <= b /\ (a <= b => Least(S) = a)
  <2>1. PICK x : x = Least(S)
    OBVIOUS
  <2>2. (x = a \/ x = b) /\ x <= a /\ x <= b
    BY <1>1, <1>2, <2>1
  <2>3. x \in Nat /\ x <= a /\ x <= b /\ (a <= b => x = a)
    BY <2>2
  <2> QED
    BY <2>1, <2>3
<1> QED
  BY <1>3 DEF S

LEMMA CommitBoundInit == Init => CommitBound
<1> SUFFICES ASSUME Init PROVE CommitBound
  OBVIOUS
<1>1. Len(chosen) = 0 /\ \A j \in Server : commitIndex[j] = 0
  BY DEF Init
<1>2. \A i, j \in Server, k \in Lane : ae[i][j][k].leaderCommit = 0
  BY DEF Init, NoAE
<1> QED
  BY <1>1, <1>2 DEF CommitBound

LEMMA CommitBoundNext ==
    ASSUME SoundStep, CommitBound, CommitStep
    PROVE  CommitBound'
<1>0. TypeOK /\ TypeOK'
  BY DEF SoundStep, Sound
<1>1. Len(chosen') >= Len(chosen) /\ Len(chosen') \in Nat /\ Len(chosen) \in Nat
  BY <1>0, ChosenLonger, CommitTypes
<1>2. \A j \in Server : commitIndex[j] \in Nat /\ commitIndex[j] <= Len(chosen)
  BY <1>0, CommitTypes DEF CommitBound
<1>3. \A j \in Server : commitIndex[j] <= Len(chosen')
  BY <1>1, <1>2
<1>4. ASSUME NEW j \in Server PROVE commitIndex'[j] <= Len(chosen')
  <2>t. commitIndex \in [Server -> Nat]
    BY <1>0, CommitTypes
  <2>1. CASE commitIndex' = commitIndex
    BY <1>3, <2>1
  <2>2. ASSUME NEW h \in Server, NEW n \in Nat, NEW Q \in SUBSET Server, Commits(h, n, Q)
        PROVE  commitIndex'[j] <= Len(chosen')
    <3>1. commitIndex' = [commitIndex EXCEPT ![h] = n]
      BY <2>2 DEF Commits
    <3>2. n <= Len(chosen')
      BY <1>0, <2>2, CommitsChoose
    <3> QED
      BY <1>3, <2>t, <3>1, <3>2
  <2>3. ASSUME NEW a \in Server, NEW b \in Server, NEW k \in Lane, Learns(a, b, k)
        PROVE  commitIndex'[j] <= Len(chosen')
    <3> DEFINE q == ae[a][b][k].leaderCommit
               m == Len(log'[b])
    <3>1. /\ commitIndex' = [commitIndex EXCEPT ![b] = Least({q, m})]
          /\ Arrived(ae[a][b][k])
      BY <2>3 DEF Learns, Accepts
    <3>2. q \in Nat /\ m \in Nat
      <4>1. log'[b] \in Seq(LogEntry)
        BY <1>0 DEF TypeOK
      <4> QED
        BY <1>0, <4>1, LogTypes
    <3>3. q <= Len(chosen)
      BY <3>1 DEF CommitBound
    <3> HIDE DEF q, m
    <3>4. Least({q, m}) <= q /\ Least({q, m}) \in Nat
      BY <3>2, LeastOfTwo
    <3>5. Least({q, m}) <= Len(chosen')
      BY <1>1, <3>2, <3>3, <3>4
    <3> QED
      BY <1>3, <2>t, <3>1, <3>5
  <2>4. ASSUME NEW i \in Server, Resets(i) PROVE commitIndex'[j] <= Len(chosen')
    <3>1. commitIndex' = [commitIndex EXCEPT ![i] = 0]
      BY <2>4 DEF Resets
    <3> QED
      BY <1>1, <1>3, <2>t, <3>1
  <2>5. ASSUME NEW i \in Server, ApplyCommitted(i) PROVE commitIndex' = commitIndex
    BY <2>5 DEF ApplyCommitted, cmVars
  <2> QED
    BY <2>1, <2>2, <2>3, <2>4, <2>5 DEF CommitStep
<1>5. ASSUME NEW i \in Server, NEW j \in Server, NEW k \in Lane, Arrived(ae'[i][j][k])
      PROVE  ae'[i][j][k].leaderCommit <= Len(chosen')
  <2> DEFINE c == ae[i][j][k]
             d == ae'[i][j][k]
  <2>1. d # NoAE /\ ~Answers(i, j, k) /\ ~Spawns(i, j, k)
    BY <1>5 DEF Arrived, NoAE, Answers, Spawns
  <2>2. d = c \/ Orphaned(c, d) \/ Builds(i, j, k)
    BY <2>1 DEF SoundStep, AEStep
  <2>3. CASE d = c \/ Orphaned(c, d)
    <3>1. Arrived(c) /\ d.leaderCommit = c.leaderCommit
      BY <1>5, <2>3 DEF Orphaned, SameMessage
    <3>2. c.leaderCommit <= Len(chosen)
      BY <3>1 DEF CommitBound
    <3>3. c.leaderCommit \in Nat
      BY <1>0, LogTypes
    <3> HIDE DEF c, d
    <3>4. d.leaderCommit <= Len(chosen')
      BY <1>1, <3>1, <3>2, <3>3
    <3> QED
      BY <3>4 DEF d
  <2>4. CASE Builds(i, j, k)
    <3>1. d.leaderCommit = commitIndex[i]
      BY <2>4 DEF Builds
    <3> QED
      BY <1>3, <3>1
  <2> QED
    BY <2>2, <2>3, <2>4
<1> QED
  BY <1>4, <1>5 DEF CommitBound

-----------------------------------------------------------------------------
(* What has been chosen stays *)

ChosenFirm ==
    forgotten = {} /\ Len(chosen) > 0 =>
        \E Q \in SUBSET Server, p \in Seq(LogEntry) :
            p = chosen /\ IsQuorum(Q) /\ Firm(p, Q)

\* Of two firm prefixes the longer starts with the shorter.
LEMMA FirmsAgree ==
    ASSUME NEW p \in Seq(LogEntry), NEW q \in Seq(LogEntry), Len(p) > 0,
           Len(p) <= Len(q), FirmElected(p), FirmElected(q)
    PROVE  HasPrefix(q, p)
<1>1. /\ LastTerm(p) \in Nat /\ LastTerm(q) \in Nat
      /\ Len(p) \in Nat /\ Len(q) \in Nat /\ Len(q) > 0
  <2>1. Len(p) \in Nat /\ Len(q) \in Nat /\ Len(q) > 0
    OBVIOUS
  <2> QED
    BY <2>1, LastEntry
<1>2. PICK h \in Server : HasPrefix(log[h], p) /\ HasPrefix(log[h], q)
  <2>1. CASE LastTerm(p) <= LastTerm(q)
    <3>1. PICK h \in Server : <<h, LastTerm(q)>> \in elected
      BY DEF FirmElected
    <3> QED
      BY <1>1, <2>1, <3>1 DEF FirmElected
  <2>2. CASE LastTerm(q) <= LastTerm(p)
    <3>1. PICK h \in Server : <<h, LastTerm(p)>> \in elected
      BY DEF FirmElected
    <3> QED
      BY <1>1, <2>2, <3>1 DEF FirmElected
  <2> QED
    BY <1>1, <2>1, <2>2
<1> QED
  BY <1>1, <1>2 DEF HasPrefix, AgreeUpTo

\* What a leader commits is firm.
LEMMA CommitsFirm ==
    ASSUME Sound, ChoosableInv, forgotten = {}, NEW h \in Server, NEW n \in Nat,
           NEW Q \in SUBSET Server, Commits(h, n, Q), NEW p, p = SubSeq(log[h], 1, n)
    PROVE  p \in Seq(LogEntry) /\ Len(p) = n /\ Len(p) > 0 /\ Firm(p, Q)
<1>0. TypeOK
  BY DEF Sound
<1>1. /\ state[h] = "Leader" /\ n \in 1..Len(log[h])
      /\ log[h][n].term = currentTerm[h]
      /\ IsQuorum(Q) /\ h \in Q /\ \A v \in Q : v = h \/ Acked(h, v, n)
  BY DEF Commits
<1>2. p \in Seq(LogEntry) /\ Len(p) = n /\ Len(p) > 0
  <2>1. log[h] \in Seq(LogEntry)
    BY <1>0, LogTypes
  <2> QED
    BY <1>1, <2>1, OwnPrefix
<1>3. Choosable(h, Q, n)
  BY <1>1 DEF Choosable
<1>4. Q = Confirmers(h, Q, n)
  BY <1>1 DEF Confirmers
<1> QED
  BY <1>2, <1>3, <1>4 DEF ChoosableInv

LEMMA ChosenFirmInit == Init => ChosenFirm
<1> SUFFICES ASSUME Init PROVE ChosenFirm
  OBVIOUS
<1>1. Len(chosen) = 0
  BY DEF Init
<1> QED
  BY <1>1 DEF ChosenFirm

LEMMA ChosenFirmNext ==
    ASSUME SoundStep, CandidatesStep, [Next]_vars, TermsInv, ChoosableInv,
           CommitStep, ChosenFirm
    PROVE  /\ ChosenFirm'
           /\ forgotten' = {} => HasPrefix(chosen', chosen)
<1> SUFFICES ASSUME forgotten' = {}
             PROVE  ChosenFirm' /\ HasPrefix(chosen', chosen)
  BY DEF ChosenFirm
<1>0. Sound /\ TypeOK /\ forgotten = {}
  BY DEF SoundStep, Sound, ElectionStep, ElectStep
<1>t. chosen \in Seq(LogEntry) /\ Len(chosen) \in Nat
  BY <1>0, CommitTypes
<1>1. ASSUME NEW p \in Seq(LogEntry), Len(p) > 0, NEW Q \in SUBSET Server,
             IsQuorum(Q), Firm(p, Q)
      PROVE  Firm(p, Q)'
  BY <1>1, FirmStays
<1>2. CASE chosen' = chosen
  <2>1. HasPrefix(chosen', chosen)
    BY <1>2, <1>t DEF HasPrefix, AgreeUpTo
  <2>2. ASSUME Len(chosen) > 0 PROVE ChosenFirm'
    <3>1. PICK Q \in SUBSET Server, p \in Seq(LogEntry) :
            p = chosen /\ IsQuorum(Q) /\ Firm(p, Q)
      BY <1>0, <2>2 DEF ChosenFirm
    <3>2. Firm(p, Q)'
      BY <1>1, <2>2, <3>1
    <3> QED
      BY <1>2, <3>1, <3>2 DEF ChosenFirm
  <2>3. ASSUME ~(Len(chosen) > 0) PROVE ChosenFirm'
    BY <1>2, <2>3 DEF ChosenFirm
  <2> QED
    BY <2>1, <2>2, <2>3
<1>3. ASSUME NEW h \in Server, NEW n \in Nat, NEW Q \in SUBSET Server, Commits(h, n, Q),
             n > Len(chosen)
      PROVE  ChosenFirm' /\ HasPrefix(chosen', chosen)
  <2>1. PICK p : p = SubSeq(log[h], 1, n)
    OBVIOUS
  <2>2. p \in Seq(LogEntry) /\ Len(p) = n /\ Len(p) > 0 /\ Firm(p, Q)
    BY <1>0, <1>3, <2>1, CommitsFirm
  <2>3. chosen' = p
    BY <1>0, <1>3, <2>1, CommitsChoose
  <2>4. IsQuorum(Q)
    BY <1>3 DEF Commits
  <2>5. Firm(p, Q)'
    BY <1>1, <2>2, <2>4
  <2>6. ChosenFirm'
    BY <2>2, <2>3, <2>4, <2>5 DEF ChosenFirm
  <2>7. CASE Len(chosen) > 0
    <3>1. FirmElected(chosen)
      BY <1>0, <2>7 DEF ChosenFirm, Firm
    <3>2. HasPrefix(p, chosen)
      BY <1>3, <1>t, <2>2, <2>7, <3>1, FirmsAgree DEF Firm
    <3> QED
      BY <2>3, <2>6, <3>2
  <2>8. CASE ~(Len(chosen) > 0)
    <3>1. HasPrefix(p, chosen)
      BY <1>t, <2>2, <2>8 DEF HasPrefix, AgreeUpTo
    <3> QED
      BY <2>3, <2>6, <3>1
  <2> QED
    BY <2>7, <2>8
<1>4. chosen' = chosen \/ \E h \in Server, n \in Nat, Q \in SUBSET Server : Commits(h, n, Q)
  BY DEF CommitStep, Learns, Resets, ApplyCommitted, history
<1>5. ASSUME NEW h \in Server, NEW n \in Nat, NEW Q \in SUBSET Server, Commits(h, n, Q),
             ~(n > Len(chosen))
      PROVE  chosen' = chosen
  BY <1>0, <1>5, <1>t, CommitsChoose
<1> QED
  BY <1>2, <1>3, <1>4, <1>5

\* A log that starts with p, as the specification says it.
LEMMA HasPrefixHolds ==
    ASSUME NEW l \in Seq(LogEntry), NEW p \in Seq(LogEntry), HasPrefix(l, p)
    PROVE  Len(p) <= Len(l) /\ SubSeq(l, 1, Len(p)) = p
<1>1. Len(p) \in Nat /\ Len(l) \in Nat
  OBVIOUS
<1>2. Len(p) <= Len(l)
  BY DEF HasPrefix, AgreeUpTo
<1>3. SubSeq(l, 1, Len(p)) = SubSeq(p, 1, Len(p))
  BY <1>1, <1>2, AgreeIsPrefix DEF HasPrefix
<1>4. SubSeq(p, 1, Len(p)) = p
  BY <1>1
<1> QED
  BY <1>2, <1>3, <1>4

LEMMA EmptyPrefix ==
    ASSUME NEW l \in Seq(LogEntry), NEW p \in Seq(LogEntry), Len(p) = 0
    PROVE  HasPrefix(l, p)
BY DEF HasPrefix, AgreeUpTo

\* The whole invariant, as far as leaders and what has been chosen go.
ChoiceInv ==
    Sound /\ AckInv /\ TermsInv /\ ChoosableInv /\ CommitBound /\ ChosenFirm

ChoiceStep == SoundStep /\ CandidatesStep /\ CommitStep

LEMMA ChoiceInit == Init => ChoiceInv
BY SoundInit, AckInvInit, TermsInvInit, ChoosableInit, CommitBoundInit, ChosenFirmInit
   DEF ChoiceInv

LEMMA ChoiceNext ==
    ASSUME Timely, ChoiceInv, [Next]_vars
    PROVE  ChoiceStep /\ ChoiceInv' /\ (forgotten' = {} => HasPrefix(chosen', chosen))
<1>0. /\ Sound /\ AckInv /\ TermsInv /\ ChoosableInv /\ CommitBound /\ ChosenFirm
      /\ TypeOK /\ RepliesHonest
  BY DEF ChoiceInv, Sound, ElectionInv
<1>1. SoundStep
  BY <1>0, SoundNext
<1>2. CandidatesStep
  <2>1. \A a \in Server : LogStep(a)
    BY <1>1 DEF SoundStep
  <2> QED
    BY <1>0, <2>1, CandidateStepNext DEF CandidatesStep, CandidateStep
<1>3. CommitStep
  BY <1>0, CommitStepNext
<1>4. AckInv'
  BY <1>0, <1>1, AckInvNext
<1>5. TermsInv'
  BY <1>0, <1>1, <1>2, TermsInvNext
<1>6. ChoosableInv'
  BY <1>0, <1>1, <1>2, <1>4, ChoosableNext
<1>7. CommitBound'
  BY <1>0, <1>1, <1>3, CommitBoundNext
<1>8. ChosenFirm' /\ (forgotten' = {} => HasPrefix(chosen', chosen))
  BY <1>0, <1>1, <1>2, <1>3, ChosenFirmNext
<1>9. Sound'
  BY <1>1 DEF SoundStep
<1> QED
  BY <1>1, <1>2, <1>3, <1>4, <1>5, <1>6, <1>7, <1>8, <1>9 DEF ChoiceStep, ChoiceInv

-----------------------------------------------------------------------------
(* What the CMs regard as committed was chosen *)

\* No CM has an entry of a newer term than it has stored, and no request has
\* one of a newer term than its own.
Dated ==
    misdated = {} =>
        /\ \A j \in Server : \A x \in LogLinks(log[j]) : x[2] <= storage[j].currentTerm
        /\ \A i, j \in Server, k \in Lane : Arrived(ae[i][j][k]) =>
                \A x \in MessageLinks(ae[i][j][k]) : x[2] <= ae[i][j][k].term

LEMMA DatedInit == Init => Dated
<1> SUFFICES ASSUME Init PROVE Dated
  OBVIOUS
<1>1. \A j \in Server : LogLinks(log[j]) = {}
  BY DEF Init, LogLinks
<1>2. \A i, j \in Server, k \in Lane : ~Arrived(ae[i][j][k])
  BY DEF Init, NoAE, Arrived
<1> QED
  BY <1>1, <1>2 DEF Dated

\* The entries of a log are of no newer term than its last.
LEMMA LastNewest ==
    ASSUME Sound, TermsOrdered, NEW i \in Server, NEW x \in LogLinks(log[i])
    PROVE  x[2] <= LastTerm(log[i]) /\ LastTerm(log[i]) \in Nat /\ x[2] \in Nat
<1>1. Len(log[i]) \in Nat
  BY LogTypes DEF Sound
<1>2. PICK n \in 1..Len(log[i]) :
            x = <<n, log[i][n].term, log[i][n].command, TermAt(log[i], n - 1)>>
  BY LogLinkOf
<1>3. x[2] = log[i][n].term
  BY <1>2
<1>4. Len(log[i]) \in 1..Len(log[i]) /\ n <= Len(log[i])
  BY <1>1, <1>2
<1>5. log[i][n].term <= log[i][Len(log[i])].term
  BY <1>2, <1>4, TermsAlong
<1>6. LastTerm(log[i]) = log[i][Len(log[i])].term
  BY <1>4 DEF LastTerm, TermAt
<1> QED
  BY <1>2, <1>3, <1>4, <1>5, <1>6, EntryTerm DEF Sound

LEMMA DatedNext ==
    ASSUME SoundStep, TermsInv, CommitStep, Dated
    PROVE  Dated'
<1> SUFFICES ASSUME misdated' = {} PROVE Dated'
  BY DEF Dated
<1>0. Sound /\ TypeOK /\ StorageBehind /\ misdated = {} /\ TermsOrdered
  BY DEF SoundStep, Sound, LeadershipInv, CommitStep, TermsInv
<1>1. ASSUME NEW j \in Server, NEW x \in LogLinks(log'[j])
      PROVE  x[2] <= storage'[j].currentTerm
  <2>t. /\ currentTerm[j] \in Nat /\ storage[j].currentTerm \in Nat
        /\ storage'[j].currentTerm \in Nat /\ log[j] \in Seq(LogEntry)
        /\ storage[j].currentTerm <= currentTerm[j]
    <3>1. storage'[j].currentTerm \in Nat
      BY DEF SoundStep, Sound, TypeOK
    <3> QED
      BY <1>0, <3>1, LogTypes DEF StorageBehind
  <2>o. ASSUME x \in LogLinks(log[j])
        PROVE  x[2] <= storage[j].currentTerm /\ x[2] \in Nat
    BY <1>0, <2>o, LastNewest DEF Dated
  <2>1. CASE KeepsLog(j)
    <3>1. x \in LogLinks(log[j]) /\ storage'[j].currentTerm >= storage[j].currentTerm
      BY <1>1, <2>1 DEF KeepsLog
    <3> QED
      BY <2>o, <2>t, <3>1
  <2>2. CASE Takes(j)
    <3>1. storage'[j].currentTerm = currentTerm[j]
      BY <2>2 DEF Takes
    <3>2. PICK v \in Command :
            log'[j] = Append(log[j], [term |-> currentTerm[j], command |-> v])
      BY <2>2 DEF Takes
    <3> DEFINE e == [term |-> currentTerm[j], command |-> v]
               y == <<Len(log[j]) + 1, e.term, e.command, LastTerm(log[j])>>
    <3>a. e \in LogEntry /\ e.term = currentTerm[j]
      BY <2>t DEF LogEntry
    <3>b. log'[j] = Append(log[j], e)
      BY <3>2
    <3> HIDE DEF e
    <3>3. x \in LogLinks(log[j]) \/ x = y
      BY <2>t, <3>a, <3>b, <1>1, AppendLinks
    <3>4. y[2] = currentTerm[j]
      BY <3>a
    <3> HIDE DEF y
    <3> QED
      BY <2>o, <2>t, <3>1, <3>3, <3>4
  <2>3. ASSUME NEW i \in Server, NEW k \in Lane, Accepts(i, j, k)
        PROVE  x[2] <= storage'[j].currentTerm
    <3> DEFINE c == ae[i][j][k]
    <3>1. /\ Arrived(c) /\ c.term >= currentTerm[j] /\ PrevMatches(c, log[j])
          /\ log'[j] = Merge(log[j], c.prevLogIndex, c.entries)
          /\ storage'[j].currentTerm = c.term
      BY <2>3 DEF Accepts
    <3>2. c \in AECall /\ c.term \in Nat
      BY <1>0, LogTypes
    <3>3. x \in LogLinks(log[j]) \/ x \in MessageLinks(c)
      <4> HIDE DEF c
      <4> QED
        BY <1>1, <2>t, <3>1, <3>2, MergeLinks
    <3>4. CASE x \in LogLinks(log[j])
      <4>1. x[2] <= storage[j].currentTerm /\ x[2] \in Nat
        BY <2>o, <3>4
      <4> HIDE DEF c
      <4> QED
        BY <2>t, <3>1, <3>2, <4>1
    <3>5. CASE x \in MessageLinks(c)
      BY <1>0, <3>1, <3>5 DEF Dated
    <3> QED
      BY <3>3, <3>4, <3>5
  <2> QED
    BY <2>1, <2>2, <2>3 DEF SoundStep, LogStep
<1>2. ASSUME NEW i \in Server, NEW j \in Server, NEW k \in Lane, Arrived(ae'[i][j][k]),
             NEW x \in MessageLinks(ae'[i][j][k])
      PROVE  x[2] <= ae'[i][j][k].term
  <2> DEFINE c == ae[i][j][k]
             d == ae'[i][j][k]
  <2>1. d # NoAE /\ ~Answers(i, j, k) /\ ~Spawns(i, j, k)
    BY <1>2 DEF Arrived, NoAE, Answers, Spawns
  <2>2. d = c \/ Orphaned(c, d) \/ Builds(i, j, k)
    BY <2>1 DEF SoundStep, AEStep
  <2>3. CASE d = c
    BY <1>0, <1>2, <2>3 DEF Dated
  <2>4. CASE Orphaned(c, d)
    <3>1. Arrived(c) /\ d.term = c.term /\ d.prevLogIndex = c.prevLogIndex
            /\ d.prevLogTerm = c.prevLogTerm /\ d.entries = c.entries
      BY <2>4 DEF Orphaned, SameMessage
    <3>2. MessageLinks(d) = MessageLinks(c)
      <4> HIDE DEF c, d
      <4> QED
        BY <3>1 DEF MessageLinks
    <3> QED
      BY <1>0, <1>2, <3>1, <3>2 DEF Dated
  <2>5. CASE Builds(i, j, k)
    <3>1. /\ d.term = c.term
          /\ d.prevLogIndex \in 0..Len(log[i])
          /\ d.prevLogTerm = TermAt(log[i], d.prevLogIndex)
          /\ d.entries = SubSeq(log[i], d.prevLogIndex + 1, Len(log[i]))
          /\ LastTerm(log[i]) <= c.term
      BY <2>5 DEF Builds
    <3>2. log[i] \in Seq(LogEntry) /\ c.term \in Nat
      BY <1>0, LogTypes
    <3>3. d \in AECall
      BY DEF SoundStep, Sound, TypeOK
    <3>4. x \in LogLinks(log[i])
      <4> HIDE DEF d, c
      <4>1. MessageLinks(d) \subseteq LogLinks(log[i])
        BY <3>1, <3>2, <3>3, RestLinks
      <4> QED
        BY <1>2, <4>1 DEF d
    <3>5. x[2] <= LastTerm(log[i]) /\ LastTerm(log[i]) \in Nat /\ x[2] \in Nat
      BY <1>0, <3>4, LastNewest
    <3> DEFINE t == LastTerm(log[i])
    <3> HIDE DEF c, d, t
    <3>6. x[2] <= c.term
      BY <3>1, <3>2, <3>5 DEF t
    <3> QED
      BY <3>1, <3>6 DEF d
  <2> QED
    BY <2>2, <2>3, <2>4, <2>5
<1> QED
  BY <1>1, <1>2 DEF Dated

\* The term a request ends with.
EndTerm(c) ==
    IF Len(c.entries) > 0 THEN c.entries[Len(c.entries)].term ELSE c.prevLogTerm

\* A log that has taken over a request has an entry where the request ends.
LEMMA MergeEnd ==
    ASSUME NEW l \in Seq(LogEntry), NEW c \in AECall, PrevMatches(c, l),
           c.prevLogIndex + Len(c.entries) > 0
    PROVE  LET r == Merge(l, c.prevLogIndex, c.entries)
               e == c.prevLogIndex + Len(c.entries)
           IN  e \in 1..Len(r) /\ r[e].term = EndTerm(c)
<1> DEFINE prev == c.prevLogIndex
           es == c.entries
           z == Len(es)
           new == {n \in 1..z : TermAt(l, prev + n) # es[n].term}
           r == Merge(l, prev, es)
<1>t. /\ prev \in Nat /\ z \in Nat /\ Len(l) \in Nat /\ es \in Seq(LogEntry)
      /\ prev + z > 0
  BY DEF AECall
<1>1. prev = 0 \/ (prev <= Len(l) /\ c.prevLogTerm = l[prev].term)
  BY DEF PrevMatches
<1>e. \A n \in 1..z : es[n].term \in Nat
  <2>1. \A n \in 1..z : es[n] \in LogEntry
    BY <1>t
  <2> QED
    BY <2>1 DEF LogEntry
<1>2. CASE new = {}
  <2>1. r = l
    BY <1>2 DEF Merge
  <2>2. CASE z > 0
    <3>1. z \in 1..z
      <4> HIDE DEF z
      <4> QED
        BY <1>t, <2>2
    <3>2. TermAt(l, prev + z) = es[z].term /\ es[z].term \in Nat
      BY <1>2, <1>e, <3>1
    <3>3. EndTerm(c) = es[z].term
      BY <2>2 DEF EndTerm
    <3>4. prev + z \in 1..Len(l) /\ l[prev + z].term = es[z].term
      <4> HIDE DEF z, prev, es
      <4> QED
        BY <3>2 DEF TermAt
    <3> QED
      BY <2>1, <3>3, <3>4
  <2>3. CASE ~(z > 0)
    <3>1. z = 0
      <4> HIDE DEF z
      <4> QED
        BY <1>t, <2>3
    <3>2. EndTerm(c) = c.prevLogTerm
      BY <2>3 DEF EndTerm
    <3>3. prev + z = prev /\ prev \in 1..Len(l)
      <4> HIDE DEF z, prev
      <4> QED
        BY <1>t, <1>1, <3>1
    <3>4. l[prev].term = c.prevLogTerm
      <4>1. prev # 0
        <5> HIDE DEF z, prev
        <5> QED
          BY <3>3, <1>t
      <4> QED
        BY <1>1, <4>1
    <3> QED
      BY <2>1, <3>2, <3>3, <3>4
  <2> QED
    BY <2>2, <2>3
<1>3. CASE new # {}
  <2> DEFINE n == Least(new)
             a == prev + n - 1
  <2>1. n \in new /\ \A x \in new : n <= x
    <3>1. new \in SUBSET Nat
      BY <1>t
    <3> HIDE DEF new
    <3> QED
      BY <1>3, <3>1, LeastIn
  <2>2. r = SubSeq(l, 1, a) \o SubSeq(es, n, z)
    BY <1>3 DEF Merge
  <2>3. n \in 1..z
    BY <2>1
  <2>4. a \in 0..Len(l)
    <3>1. CASE n = 1
      <4> HIDE DEF prev, z, n
      <4> QED
        BY <1>t, <1>1, <2>3, <3>1
    <3>2. CASE n # 1
      <4> HIDE DEF n
      <4>1. n - 1 \in 1..z /\ n - 1 < n
        <5> HIDE DEF z
        <5> QED
          BY <1>t, <2>3, <3>2
      <4>2. n - 1 \notin new
        <5>1. ASSUME n - 1 \in new PROVE FALSE
          <6>1. n <= n - 1
            BY <2>1, <5>1 DEF n
          <6> QED
            BY <2>3, <6>1, <1>t
        <5> QED
          BY <5>1
      <4>3. TermAt(l, prev + (n - 1)) = es[n - 1].term /\ es[n - 1].term \in Nat
        BY <1>e, <4>1, <4>2
      <4> HIDE DEF prev, z, es
      <4>5. prev + (n - 1) \in 1..Len(l)
        BY <1>t, <4>3 DEF TermAt
      <4> QED
        BY <1>t, <2>3, <4>5
    <3> QED
      BY <3>1, <3>2
  <2> HIDE DEF n
  <2>5. /\ Len(r) = a + (z - n + 1)
        /\ \A x \in (a + 1)..Len(r) : r[x] = es[x - a + n - 1]
    <3> HIDE DEF a, r, es
    <3>1. z = Len(es)
      BY DEF es
    <3> HIDE DEF z
    <3> QED
      BY <1>t, <2>2, <2>3, <2>4, <3>1, SpliceEntries
  <2>6. /\ Len(r) = prev + z /\ prev + z \in (a + 1)..Len(r)
        /\ (prev + z) - a + n - 1 = z /\ prev + z \in 1..Len(r)
    <3>1. prev \in Nat /\ z \in Nat /\ n \in 1..z
      BY <1>t, <2>3
    <3>2. Len(r) = (prev + n - 1) + (z - n + 1)
      BY <2>5
    <3> HIDE DEF z, prev, r
    <3>3. (prev + n - 1) + (z - n + 1) = prev + z
      BY <3>1
    <3>4. Len(r) = prev + z
      BY <3>2, <3>3
    <3> QED
      BY <3>1, <3>4
  <2>7. r[prev + z] = es[z]
    BY <2>5, <2>6
  <2>8. EndTerm(c) = es[z].term
    <3>1. z > 0
      <4> HIDE DEF z
      <4> QED
        BY <1>t, <2>3
    <3> QED
      BY <3>1 DEF EndTerm
  <2> QED
    BY <2>6, <2>7, <2>8
<1> QED
  BY <1>2, <1>3

\* The request that a CM builds ends where its log does.
LEMMA BuiltEnd ==
    ASSUME NEW l \in Seq(LogEntry), NEW d \in AECall, d.prevLogIndex \in 0..Len(l),
           d.prevLogTerm = TermAt(l, d.prevLogIndex),
           d.entries = SubSeq(l, d.prevLogIndex + 1, Len(l))
    PROVE  d.prevLogIndex + Len(d.entries) = Len(l) /\ EndTerm(d) = LastTerm(l)
<1> DEFINE prev == d.prevLogIndex
           es == d.entries
<1>1. Len(l) \in Nat /\ prev \in 0..Len(l) /\ es = SubSeq(l, prev + 1, Len(l))
  OBVIOUS
<1> HIDE DEF prev, es
<1>2. Len(es) = Len(l) - prev /\ \A n \in 1..Len(es) : es[n] = l[prev + n]
  BY <1>1, RestOf
<1>3. prev + Len(es) = Len(l)
  BY <1>1, <1>2
<1>4. CASE Len(es) > 0
  <2>1. Len(es) \in 1..Len(es) /\ Len(l) \in 1..Len(l)
    BY <1>1, <1>2, <1>4
  <2>2. es[Len(es)] = l[Len(l)]
    BY <1>2, <1>3, <2>1
  <2>3. EndTerm(d) = es[Len(es)].term
    BY <1>4 DEF EndTerm, es
  <2> QED
    BY <1>3, <2>1, <2>2, <2>3 DEF LastTerm, TermAt, prev, es
<1>5. CASE ~(Len(es) > 0)
  <2>1. prev = Len(l)
    BY <1>1, <1>2, <1>5
  <2>2. EndTerm(d) = d.prevLogTerm
    BY <1>5 DEF EndTerm, es
  <2> QED
    BY <1>3, <2>1, <2>2 DEF LastTerm, prev, es
<1> QED
  BY <1>4, <1>5

\* A majority makes p firm.
Secure(p) == \E Q \in SUBSET Server : IsQuorum(Q) /\ Firm(p, Q)

\* What CM j regards as committed is firm, and it holds it.
Knows(j) ==
    \A p \in Seq(LogEntry) :
        commitIndex[j] > 0 /\ p = SubSeq(chosen, 1, commitIndex[j])
            => Secure(p) /\ HasPrefix(log[j], p)

\* What a request says is committed is firm, and whoever accepts it holds it.
Tells(c) ==
    \A p \in Seq(LogEntry) :
        c.leaderCommit > 0 /\ p = SubSeq(chosen, 1, c.leaderCommit)
            => /\ Secure(p) /\ c.prevLogIndex + Len(c.entries) > 0
               /\ Beyond(p, c.prevLogIndex + Len(c.entries), EndTerm(c))

KnowledgeTrue ==
    forgotten = {} /\ misdated = {} =>
        /\ \A j \in Server : Knows(j) /\ HasPrefix(chosen, applied[j])
        /\ \A i, j \in Server, k \in Lane : Arrived(ae[i][j][k]) => Tells(ae[i][j][k])

\* Descent, in the form in which it is used after a step.
DescentHolds ==
    \A p \in Seq(LogEntry), i \in Server, b \in Nat :
        /\ Len(p) > 0 /\ FirmElected(p) /\ FirmLinks(p)
        /\ b \in 1..Len(log[i]) /\ Beyond(p, b, log[i][b].term)
        => HasPrefix(log[i], p)

LEMMA DescentAll == Sound => DescentHolds
BY Descent DEF DescentHolds

LEMMA SecureStays ==
    ASSUME ChoiceStep, [Next]_vars, TermsInv, forgotten' = {},
           NEW p \in Seq(LogEntry), Len(p) > 0, Secure(p)
    PROVE  Secure(p)'
<1>1. PICK Q \in SUBSET Server : IsQuorum(Q) /\ Firm(p, Q)
  BY DEF Secure
<1>2. Firm(p, Q)'
  BY <1>1, FirmStays DEF ChoiceStep
<1> QED
  BY <1>1, <1>2 DEF Secure

\* A CM that holds a firm prefix keeps it.
LEMMA SecureKept ==
    ASSUME ChoiceStep, Dated, misdated = {}, NEW p \in Seq(LogEntry), Len(p) > 0,
           Secure(p), NEW v \in Server, HasPrefix(log[v], p)
    PROVE  HasPrefix(log'[v], p)
<1>0. SoundStep /\ Sound /\ TypeOK /\ StorageBehind
  BY DEF ChoiceStep, SoundStep, Sound, LeadershipInv
<1>1. /\ LastTerm(p) = p[Len(p)].term /\ LastTerm(p) \in Nat /\ Len(p) \in Nat
      /\ Len(p) \in 1..Len(p)
  BY LastEntry
<1>2. Len(p) <= Len(log[v]) /\ log[v][Len(p)] = p[Len(p)] /\ Len(log[v]) \in Nat
  BY <1>0, <1>1, LogTypes DEF HasPrefix, AgreeUpTo
<1>3. Len(p) \in 1..Len(log[v])
  BY <1>1, <1>2
<1> DEFINE n == Len(p)
           x == <<n, log[v][n].term, log[v][n].command, TermAt(log[v], n - 1)>>
<1>4. x \in LogLinks(log[v])
  BY <1>3, LogLinkOf
<1>5. x[2] = LastTerm(p)
  BY <1>1, <1>2
<1> HIDE DEF x
<1>6. LastTerm(p) <= storage[v].currentTerm
  BY <1>4, <1>5 DEF Dated
<1>7. storage[v].currentTerm <= currentTerm[v] /\ storage[v].currentTerm \in Nat
        /\ currentTerm[v] \in Nat
  BY <1>0, LogTypes DEF StorageBehind
<1>8. currentTerm[v] >= LastTerm(p)
  BY <1>1, <1>6, <1>7
<1>9. FirmCalls(p)
  BY DEF Secure, Firm
<1> QED
  BY <1>0, <1>8, <1>9, PrefixStep

\* What has been chosen, up to index q.
LEMMA ChosenUpTo ==
    ASSUME TypeOK, TypeOK', HasPrefix(chosen', chosen), NEW q \in Nat, q > 0,
           q <= Len(chosen), NEW p, p = SubSeq(chosen', 1, q)
    PROVE  p = SubSeq(chosen, 1, q) /\ p \in Seq(LogEntry) /\ Len(p) = q /\ Len(p) > 0
<1>1. chosen \in Seq(LogEntry) /\ Len(chosen) \in Nat /\ chosen' \in Seq(LogEntry)
        /\ Len(chosen') \in Nat
  <2>1. chosen' \in Seq(LogEntry)
    BY DEF TypeOK
  <2> QED
    BY <2>1, CommitTypes
<1>2. Len(chosen) <= Len(chosen') /\ \A n \in 1..Len(chosen) : chosen'[n] = chosen[n]
  BY DEF HasPrefix, AgreeUpTo
<1>3. AgreeUpTo(chosen', chosen, q)
  BY <1>1, <1>2 DEF AgreeUpTo
<1>4. p = SubSeq(chosen, 1, q)
  BY <1>1, <1>2, <1>3, AgreeIsPrefix
<1>5. q \in 1..Len(chosen)
  BY <1>1
<1> QED
  BY <1>1, <1>4, <1>5, OwnPrefix

\* What a leader commits is what has been chosen up to there.
LEMMA CommitsChosen ==
    ASSUME Sound, ChoosableInv, ChosenFirm, forgotten = {}, NEW h \in Server,
           NEW n \in Nat, NEW Q \in SUBSET Server, Commits(h, n, Q), TypeOK',
           NEW p, p = SubSeq(chosen', 1, n)
    PROVE  /\ p \in Seq(LogEntry) /\ Len(p) > 0 /\ Secure(p) /\ HasPrefix(log[h], p)
<1>0. TypeOK
  BY DEF Sound
<1>1. PICK r : r = SubSeq(log[h], 1, n)
  OBVIOUS
<1>2. r \in Seq(LogEntry) /\ Len(r) = n /\ Len(r) > 0 /\ Firm(r, Q)
  BY <1>1, CommitsFirm
<1>3. n \in 1..Len(log[h]) /\ IsQuorum(Q)
  BY DEF Commits
<1>4. HasPrefix(log[h], r)
  BY <1>0, <1>1, <1>2, <1>3, LogTypes, OwnPrefix DEF HasPrefix
<1>5. Secure(r)
  BY <1>2, <1>3 DEF Secure
<1>t. chosen \in Seq(LogEntry) /\ Len(chosen) \in Nat
  BY <1>0, CommitTypes
<1>6. p = r
  <2>1. CASE n > Len(chosen)
    <3>1. chosen' = r
      BY <1>0, <1>1, <2>1, CommitsChoose
    <3> QED
      BY <1>2, <3>1
  <2>2. CASE n <= Len(chosen)
    <3>1. chosen' = chosen
      BY <1>0, <2>2, CommitsChoose
    <3>2. Len(chosen) > 0
      BY <1>2, <1>t, <2>2
    <3>3. FirmElected(chosen)
      BY <3>2 DEF ChosenFirm, Firm
    <3>4. HasPrefix(chosen, r)
      BY <1>2, <1>t, <2>2, <3>3, FirmsAgree DEF Firm
    <3>5. SubSeq(chosen, 1, n) = r
      BY <1>2, <1>t, <3>4, HasPrefixHolds
    <3> QED
      BY <3>1, <3>5
  <2> QED
    BY <1>t, <2>1, <2>2
<1> QED
  BY <1>2, <1>4, <1>5, <1>6

\* A CM that learns what has been committed holds all of it.
LEMMA LearnsHolds ==
    ASSUME ChoiceStep, [Next]_vars, TermsInv, forgotten' = {},
           NEW i \in Server, NEW j \in Server, NEW k \in Lane, Accepts(i, j, k),
           NEW p \in Seq(LogEntry), Len(p) > 0, Secure(p),
           ae[i][j][k].prevLogIndex + Len(ae[i][j][k].entries) > 0,
           Beyond(p, ae[i][j][k].prevLogIndex + Len(ae[i][j][k].entries),
                  EndTerm(ae[i][j][k]))
    PROVE  HasPrefix(log'[j], p)
<1>0. SoundStep /\ Sound /\ TypeOK /\ Sound' /\ TypeOK'
  BY DEF ChoiceStep, SoundStep, Sound
<1> DEFINE c == ae[i][j][k]
           e == c.prevLogIndex + Len(c.entries)
<1>1. PrevMatches(c, log[j]) /\ log'[j] = Merge(log[j], c.prevLogIndex, c.entries)
  BY DEF Accepts
<1>2. log[j] \in Seq(LogEntry) /\ c \in AECall
  BY <1>0, LogTypes
<1>3. e > 0 /\ e \in Nat
  BY <1>0, EndIndex
<1>4. e \in 1..Len(log'[j]) /\ log'[j][e].term = EndTerm(c)
  <2> HIDE DEF c
  <2> QED
    BY <1>1, <1>2, <1>3, MergeEnd
<1>5. Beyond(p, e, log'[j][e].term)
  BY <1>4
<1>6. FirmElected(p)' /\ FirmLinks(p)'
  <2>1. Secure(p)'
    BY SecureStays
  <2> QED
    BY <2>1 DEF Secure, Firm
<1>7. (Sound => DescentHolds)'
  BY DescentAll, PTL
<1> HIDE DEF e, c
<1> QED
  BY <1>0, <1>3, <1>4, <1>5, <1>6, <1>7 DEF DescentHolds

\* What a CM has delivered once it has delivered its log up to index n.
LEMMA Delivered ==
    ASSUME NEW a \in Seq(LogEntry), NEW l \in Seq(LogEntry), NEW ch \in Seq(LogEntry),
           NEW n \in (Len(a) + 1)..Len(l), HasPrefix(ch, a), AgreeUpTo(l, ch, n),
           NEW r, r = a \o SubSeq(l, Len(a) + 1, n)
    PROVE  r \in Seq(LogEntry) /\ HasPrefix(ch, r) /\ HasPrefix(r, a)
<1>1. Len(a) \in Nat /\ Len(l) \in Nat /\ Len(ch) \in Nat /\ n \in Nat /\ n > Len(a)
  OBVIOUS
<1> DEFINE s == SubSeq(l, Len(a) + 1, n)
<1>2. s \in Seq(LogEntry) /\ Len(s) = n - Len(a)
  <2>1. s \in Seq(LogEntry)
    BY <1>1, SubLog
  <2> QED
    BY <1>1, <2>1
<1>3. \A m \in 1..Len(s) : s[m] = l[Len(a) + m]
  <2> SUFFICES ASSUME NEW m \in 1..Len(s) PROVE s[m] = l[Len(a) + m]
    OBVIOUS
  <2>1. m \in 1..(n - Len(a))
    BY <1>2
  <2>2. s[m] = l[(Len(a) + 1) + m - 1]
    BY <1>1, <2>1
  <2>3. (Len(a) + 1) + m - 1 = Len(a) + m
    BY <1>1, <2>1
  <2> QED
    BY <2>2, <2>3
<1> HIDE DEF s
<1>4. r = a \o s
  BY DEF s
<1>5. r \in Seq(LogEntry) /\ Len(r) = n
  BY <1>1, <1>2, <1>4
<1>6. \A q \in 1..Len(a) : r[q] = a[q]
  BY <1>1, <1>2, <1>4
<1>7. ASSUME NEW q \in (Len(a) + 1)..n PROVE r[q] = l[q]
  <2>1. q - Len(a) \in 1..Len(s) /\ Len(a) + (q - Len(a)) = q
    BY <1>1, <1>2
  <2>2. r[q] = s[q - Len(a)]
    <3>1. q \in 1..(Len(a) + Len(s)) /\ ~(q <= Len(a))
      BY <1>1, <1>2
    <3>2. \A x \in 1..(Len(a) + Len(s)) :
            (a \o s)[x] = IF x <= Len(a) THEN a[x] ELSE s[x - Len(a)]
      BY <1>2, ConcatProperties
    <3> QED
      BY <1>4, <3>1, <3>2
  <2>3. s[q - Len(a)] = l[Len(a) + (q - Len(a))]
    BY <1>3, <2>1
  <2> QED
    BY <2>1, <2>2, <2>3
<1>8. n <= Len(ch) /\ (\A q \in 1..n : l[q] = ch[q]) /\ \A q \in 1..Len(a) : ch[q] = a[q]
  BY DEF AgreeUpTo, HasPrefix
<1>9. \A q \in 1..n : ch[q] = r[q]
  <2> SUFFICES ASSUME NEW q \in 1..n PROVE ch[q] = r[q]
    OBVIOUS
  <2>1. CASE q <= Len(a)
    <3>1. q \in 1..Len(a)
      BY <1>1, <2>1
    <3> QED
      BY <1>6, <1>8, <3>1
  <2>2. CASE q > Len(a)
    <3>1. q \in (Len(a) + 1)..n
      BY <1>1, <2>2
    <3> QED
      BY <1>7, <1>8, <3>1
  <2> QED
    BY <1>1, <2>1, <2>2
<1> QED
  BY <1>1, <1>5, <1>6, <1>8, <1>9 DEF HasPrefix, AgreeUpTo

LEMMA PrefixOfPrefix ==
    ASSUME NEW l \in Seq(LogEntry), NEW m \in Seq(LogEntry), NEW n \in Seq(LogEntry),
           HasPrefix(l, m), HasPrefix(m, n)
    PROVE  HasPrefix(l, n)
<1>1. Len(l) \in Nat /\ Len(m) \in Nat /\ Len(n) \in Nat
  OBVIOUS
<1> QED
  BY <1>1 DEF HasPrefix, AgreeUpTo

LEMMA KnowledgeInit == Init => KnowledgeTrue
<1> SUFFICES ASSUME Init PROVE KnowledgeTrue
  OBVIOUS
<1>1. \A j \in Server : commitIndex[j] = 0 /\ applied[j] = <<>>
  BY DEF Init
<1>2. \A i, j \in Server, k \in Lane : ~Arrived(ae[i][j][k])
  BY DEF Init, NoAE, Arrived
<1>3. \A j \in Server : HasPrefix(chosen, applied[j])
  BY <1>1 DEF HasPrefix, AgreeUpTo, Init
<1> QED
  BY <1>1, <1>2, <1>3 DEF KnowledgeTrue, Knows

\* A CM whose commitIndex the step leaves alone.
LEMMA KnowsStays ==
    ASSUME ChoiceStep, [Next]_vars, TermsInv, CommitBound, Dated, misdated = {},
           forgotten' = {}, HasPrefix(chosen', chosen),
           NEW j \in Server, Knows(j), commitIndex'[j] = commitIndex[j]
    PROVE  Knows(j)'
<1>0. TypeOK /\ TypeOK'
  BY DEF ChoiceStep, SoundStep, Sound
<1> SUFFICES ASSUME NEW p \in Seq(LogEntry), commitIndex'[j] > 0,
                    p = SubSeq(chosen', 1, commitIndex'[j])
             PROVE  Secure(p)' /\ HasPrefix(log'[j], p)
  BY DEF Knows
<1> DEFINE q == commitIndex[j]
<1>1. q \in Nat /\ q > 0 /\ q <= Len(chosen) /\ p = SubSeq(chosen', 1, q)
  BY <1>0, CommitTypes DEF CommitBound
<1>2. p = SubSeq(chosen, 1, q) /\ Len(p) > 0
  <2> HIDE DEF q
  <2> QED
    BY <1>0, <1>1, ChosenUpTo
<1>3. Secure(p) /\ HasPrefix(log[j], p)
  BY <1>1, <1>2 DEF Knows
<1> QED
  BY <1>2, <1>3, SecureStays, SecureKept

LEMMA KnowsNext ==
    ASSUME ChoiceInv, ChoiceStep, [Next]_vars, Dated, KnowledgeTrue,
           forgotten' = {}, misdated' = {}, HasPrefix(chosen', chosen), NEW j \in Server
    PROVE  Knows(j)'
<1>0. /\ Sound /\ TypeOK /\ TypeOK' /\ forgotten = {} /\ misdated = {} /\ TermsInv
      /\ CommitBound /\ ChoosableInv /\ ChosenFirm /\ CommitStep
  BY DEF ChoiceInv, ChoiceStep, SoundStep, Sound, ElectionStep, ElectStep, CommitStep
<1>k. /\ \A i \in Server : Knows(i)
      /\ \A a, b \in Server, k \in Lane : Arrived(ae[a][b][k]) => Tells(ae[a][b][k])
  BY <1>0 DEF KnowledgeTrue
<1>s. commitIndex'[j] = commitIndex[j] => Knows(j)'
  BY <1>0, <1>k, KnowsStays
<1>t. commitIndex \in [Server -> Nat]
  BY <1>0, CommitTypes
<1>1. ASSUME NEW h \in Server, NEW n \in Nat, NEW Q \in SUBSET Server, Commits(h, n, Q)
      PROVE  Knows(j)'
  <2>1. commitIndex' = [commitIndex EXCEPT ![h] = n] /\ log' = log
    BY <1>1 DEF Commits
  <2>2. CASE j # h
    BY <1>s, <1>t, <2>1, <2>2
  <2>3. CASE j = h
    <3> SUFFICES ASSUME NEW p \in Seq(LogEntry), p = SubSeq(chosen', 1, n)
                 PROVE  Secure(p)' /\ HasPrefix(log'[h], p)
      BY <1>t, <2>1, <2>3 DEF Knows
    <3>1. Len(p) > 0 /\ Secure(p) /\ HasPrefix(log[h], p)
      BY <1>0, <1>1, CommitsChosen
    <3> QED
      BY <1>0, <2>1, <3>1, SecureStays
  <2> QED
    BY <2>2, <2>3
<1>2. ASSUME NEW a \in Server, NEW b \in Server, NEW k \in Lane, Learns(a, b, k)
      PROVE  Knows(j)'
  <2> DEFINE c == ae[a][b][k]
             q == c.leaderCommit
  <2>1. /\ Accepts(a, b, k) /\ Arrived(c) /\ q > commitIndex[b] /\ chosen' = chosen
        /\ commitIndex' = [commitIndex EXCEPT ![b] = Least({q, Len(log'[b])})]
    BY <1>2 DEF Learns, Accepts
  <2>2. CASE j # b
    BY <1>s, <1>t, <2>1, <2>2
  <2>3. CASE j = b
    <3>1. q \in Nat /\ q > 0 /\ q <= Len(chosen)
      <4>1. q \in Nat /\ commitIndex[b] \in Nat
        BY <1>0, <1>t, LogTypes
      <4>2. q > commitIndex[b] /\ q <= Len(chosen)
        BY <1>0, <2>1 DEF CommitBound
      <4> HIDE DEF q
      <4> QED
        BY <4>1, <4>2
    <3>2. PICK r : r = SubSeq(chosen', 1, q)
      OBVIOUS
    <3>3. r = SubSeq(chosen, 1, q) /\ r \in Seq(LogEntry) /\ Len(r) = q /\ Len(r) > 0
      <4> HIDE DEF q
      <4> QED
        BY <1>0, <3>1, <3>2, ChosenUpTo
    <3>4. /\ Secure(r) /\ c.prevLogIndex + Len(c.entries) > 0
          /\ Beyond(r, c.prevLogIndex + Len(c.entries), EndTerm(c))
      BY <1>k, <2>1, <3>1, <3>3 DEF Tells
    <3>5. HasPrefix(log'[b], r)
      BY <1>0, <2>1, <3>3, <3>4, LearnsHolds
    <3>6. Len(log'[b]) \in Nat /\ q <= Len(log'[b])
      <4>1. log'[b] \in Seq(LogEntry)
        BY <1>0 DEF TypeOK
      <4>2. Len(r) <= Len(log'[b])
        BY <3>5 DEF HasPrefix, AgreeUpTo
      <4> QED
        BY <3>3, <4>1, <4>2
    <3>7. commitIndex'[b] = q
      <4> HIDE DEF q
      <4>1. Least({q, Len(log'[b])}) = q
        BY <3>1, <3>6, LeastOfTwo
      <4> QED
        BY <1>t, <2>1, <4>1
    <3>8. Secure(r)'
      BY <1>0, <3>3, <3>4, SecureStays
    <3> HIDE DEF q
    <3> QED
      BY <2>3, <3>2, <3>5, <3>7, <3>8 DEF Knows
  <2> QED
    BY <2>2, <2>3
<1>3. ASSUME NEW i \in Server, Resets(i) PROVE Knows(j)'
  <2>1. commitIndex' = [commitIndex EXCEPT ![i] = 0]
    BY <1>3 DEF Resets
  <2>2. CASE j # i
    BY <1>s, <1>t, <2>1, <2>2
  <2>3. CASE j = i
    <3>1. commitIndex'[j] = 0
      BY <1>t, <2>1, <2>3
    <3> QED
      BY <3>1 DEF Knows
  <2> QED
    BY <2>2, <2>3
<1>4. ASSUME NEW i \in Server, ApplyCommitted(i) PROVE commitIndex' = commitIndex
  BY <1>4 DEF ApplyCommitted, cmVars
<1> QED
  BY <1>0, <1>s, <1>1, <1>2, <1>3, <1>4 DEF CommitStep

LEMMA TellsNext ==
    ASSUME ChoiceInv, ChoiceStep, [Next]_vars, KnowledgeTrue, forgotten' = {},
           misdated' = {}, HasPrefix(chosen', chosen),
           NEW i \in Server, NEW j \in Server, NEW k \in Lane, Arrived(ae'[i][j][k])
    PROVE  Tells(ae[i][j][k])'
<1>0. /\ Sound /\ TypeOK /\ TypeOK' /\ forgotten = {} /\ misdated = {} /\ TermsInv
      /\ TermsOrdered /\ CommitBound /\ AEStep(i, j, k)
  BY DEF ChoiceInv, ChoiceStep, SoundStep, Sound, ElectionStep, ElectStep, CommitStep,
         TermsInv
<1> DEFINE c == ae[i][j][k]
           d == ae'[i][j][k]
           q == d.leaderCommit
<1>1. d # NoAE /\ ~Answers(i, j, k) /\ ~Spawns(i, j, k)
  BY DEF Arrived, NoAE, Answers, Spawns
<1>2. d = c \/ Orphaned(c, d) \/ Builds(i, j, k)
  BY <1>0, <1>1 DEF AEStep
<1> SUFFICES ASSUME NEW p \in Seq(LogEntry), q > 0, p = SubSeq(chosen', 1, q)
             PROVE  /\ Secure(p)' /\ d.prevLogIndex + Len(d.entries) > 0
                    /\ Beyond(p, d.prevLogIndex + Len(d.entries), EndTerm(d))
  BY DEF Tells, EndTerm, Beyond, LastTerm, TermAt
<1>3. CASE d = c \/ Orphaned(c, d)
  <2>1. /\ Arrived(c) /\ d.prevLogIndex = c.prevLogIndex
        /\ d.prevLogTerm = c.prevLogTerm /\ d.entries = c.entries
        /\ q = c.leaderCommit
    BY <1>3 DEF Orphaned, SameMessage
  <2>2. q \in Nat /\ q <= Len(chosen)
    BY <1>0, <2>1, LogTypes DEF CommitBound
  <2>3. p = SubSeq(chosen, 1, q) /\ Len(p) > 0
    <3> HIDE DEF q
    <3> QED
      BY <1>0, <2>2, ChosenUpTo
  <2>4. Tells(c)
    BY <1>0, <2>1 DEF KnowledgeTrue
  <2>5. /\ Secure(p) /\ c.prevLogIndex + Len(c.entries) > 0
        /\ Beyond(p, c.prevLogIndex + Len(c.entries), EndTerm(c))
    BY <2>1, <2>3, <2>4 DEF Tells
  <2>6. Secure(p)'
    BY <1>0, <2>3, <2>5, SecureStays
  <2>7. EndTerm(d) = EndTerm(c)
    BY <2>1 DEF EndTerm
  <2> QED
    BY <2>1, <2>5, <2>6, <2>7
<1>4. CASE Builds(i, j, k)
  <2>1. /\ d.prevLogIndex \in 0..Len(log[i])
        /\ d.prevLogTerm = TermAt(log[i], d.prevLogIndex)
        /\ d.entries = SubSeq(log[i], d.prevLogIndex + 1, Len(log[i]))
        /\ q = commitIndex[i] /\ chosen' = chosen
    BY <1>4 DEF Builds
  <2>2. log[i] \in Seq(LogEntry) /\ d \in AECall
    BY <1>0, LogTypes DEF TypeOK
  <2>3. d.prevLogIndex + Len(d.entries) = Len(log[i]) /\ EndTerm(d) = LastTerm(log[i])
    <3> HIDE DEF d
    <3> QED
      BY <2>1, <2>2, BuiltEnd
  <2>4. q \in Nat /\ q <= Len(chosen)
    BY <1>0, <2>1, CommitTypes DEF CommitBound
  <2>5. p = SubSeq(chosen, 1, q) /\ Len(p) > 0
    <3> HIDE DEF q
    <3> QED
      BY <1>0, <2>4, ChosenUpTo
  <2>6. Secure(p) /\ HasPrefix(log[i], p)
    BY <1>0, <2>1, <2>5 DEF KnowledgeTrue, Knows
  <2>7. Beyond(p, Len(log[i]), LastTerm(log[i])) /\ Len(log[i]) > 0
    BY <1>0, <2>5, <2>6, PrefixBeyond
  <2>8. Secure(p)'
    BY <1>0, <2>5, <2>6, SecureStays
  <2> HIDE DEF d
  <2> QED
    BY <2>3, <2>7, <2>8
<1> QED
  BY <1>2, <1>3, <1>4

\* What a CM delivers was chosen.
LEMMA DeliversChosen ==
    ASSUME ChoiceInv, KnowledgeTrue, forgotten = {}, misdated = {},
           NEW i \in Server, ApplyCommitted(i)
    PROVE  /\ chosen' = chosen
           /\ \E r \in Seq(LogEntry) :
                /\ applied' = [applied EXCEPT ![i] = r]
                /\ HasPrefix(chosen, r) /\ HasPrefix(r, applied[i])
<1>0. TypeOK /\ CommitBound /\ Knows(i) /\ HasPrefix(chosen, applied[i])
  BY DEF ChoiceInv, Sound, KnowledgeTrue
<1> DEFINE a == applied[i]
           n == commitIndex[i]
           r == a \o SubSeq(log[i], Len(a) + 1, n)
<1>1. /\ n \in (Len(a) + 1)..Len(log[i]) /\ applied' = [applied EXCEPT ![i] = r]
      /\ chosen' = chosen
  BY DEF ApplyCommitted, history
<1>t. /\ a \in Seq(LogEntry) /\ log[i] \in Seq(LogEntry) /\ chosen \in Seq(LogEntry)
      /\ n \in Nat /\ Len(chosen) \in Nat /\ Len(a) \in Nat
  <2>1. a \in Seq(LogEntry)
    BY <1>0, CommitTypes
  <2> QED
    BY <1>0, <2>1, LogTypes, CommitTypes
<1>2. n > 0 /\ n <= Len(chosen)
  <2>1. n <= Len(chosen)
    BY <1>0 DEF CommitBound
  <2> HIDE DEF a, n
  <2> QED
    BY <1>1, <1>t, <2>1
<1>3. PICK p : p = SubSeq(chosen, 1, n)
  OBVIOUS
<1>4. p \in Seq(LogEntry) /\ Len(p) = n /\ AgreeUpTo(chosen, p, n)
  <2> HIDE DEF n
  <2>1. n \in 1..Len(chosen)
    BY <1>t, <1>2
  <2> QED
    BY <1>t, <1>3, <2>1, OwnPrefix
<1>5. HasPrefix(log[i], p)
  BY <1>0, <1>2, <1>3, <1>4 DEF Knows
<1>6. AgreeUpTo(log[i], chosen, n)
  BY <1>4, <1>5 DEF HasPrefix, AgreeUpTo
<1>7. HasPrefix(chosen, a)
  BY <1>0
<1>8. r \in Seq(LogEntry) /\ HasPrefix(chosen, r) /\ HasPrefix(r, a)
  <2>1. PICK s : s = a \o SubSeq(log[i], Len(a) + 1, n)
    OBVIOUS
  <2> HIDE DEF a, n
  <2>2. s \in Seq(LogEntry) /\ HasPrefix(chosen, s) /\ HasPrefix(s, a)
    BY <1>1, <1>t, <1>6, <1>7, <2>1, Delivered
  <2> QED
    BY <2>1, <2>2
<1> HIDE DEF r
<1> QED
  BY <1>1, <1>8

LEMMA AppliedNext ==
    ASSUME ChoiceInv, ChoiceStep, KnowledgeTrue, forgotten = {}, misdated = {},
           HasPrefix(chosen', chosen), NEW j \in Server
    PROVE  HasPrefix(chosen', applied'[j])
<1>0. TypeOK /\ TypeOK' /\ HasPrefix(chosen, applied[j]) /\ CommitStep
  BY DEF ChoiceInv, ChoiceStep, SoundStep, Sound, KnowledgeTrue
<1>t. /\ chosen \in Seq(LogEntry) /\ applied[j] \in Seq(LogEntry)
      /\ chosen' \in Seq(LogEntry) /\ applied \in [Server -> Seq(LogEntry)]
  BY <1>0, CommitTypes DEF TypeOK
<1>1. ASSUME applied'[j] = applied[j] PROVE HasPrefix(chosen', applied'[j])
  BY <1>0, <1>1, <1>t, PrefixOfPrefix
<1>2. ASSUME NEW i \in Server, Resets(i) PROVE HasPrefix(chosen', applied'[j])
  <2>1. applied' = [applied EXCEPT ![i] = <<>>]
    BY <1>2 DEF Resets
  <2>2. CASE j = i
    <3>1. applied'[j] = <<>>
      BY <1>t, <2>1, <2>2
    <3>2. <<>> \in Seq(LogEntry) /\ Len(<<>>) = 0
      OBVIOUS
    <3> QED
      BY <1>t, <3>1, <3>2, EmptyPrefix
  <2>3. CASE j # i
    BY <1>1, <1>t, <2>1, <2>3
  <2> QED
    BY <2>2, <2>3
<1>3. ASSUME NEW i \in Server, ApplyCommitted(i) PROVE HasPrefix(chosen', applied'[j])
  <2>1. PICK r \in Seq(LogEntry) :
            applied' = [applied EXCEPT ![i] = r] /\ HasPrefix(chosen, r) /\ chosen' = chosen
    BY <1>3, DeliversChosen
  <2>2. CASE j = i
    BY <1>t, <2>1, <2>2
  <2>3. CASE j # i
    BY <1>1, <1>t, <2>1, <2>3
  <2> QED
    BY <2>2, <2>3
<1>4. \/ applied' = applied
      \/ \E i \in Server : Resets(i) \/ ApplyCommitted(i)
  BY <1>0 DEF CommitStep, Commits, Learns
<1> QED
  BY <1>1, <1>2, <1>3, <1>4

LEMMA KnowledgeNext ==
    ASSUME ChoiceInv, ChoiceStep, [Next]_vars, Dated, KnowledgeTrue,
           forgotten' = {} => HasPrefix(chosen', chosen)
    PROVE  KnowledgeTrue'
<1> SUFFICES ASSUME forgotten' = {}, misdated' = {} PROVE KnowledgeTrue'
  BY DEF KnowledgeTrue
<1>0. forgotten = {} /\ misdated = {}
  BY DEF ChoiceStep, SoundStep, ElectionStep, ElectStep, CommitStep
<1>1. \A j \in Server : Knows(j)'
  BY KnowsNext
<1>2. \A j \in Server : HasPrefix(chosen', applied'[j])
  BY <1>0, AppliedNext
<1>3. \A i, j \in Server, k \in Lane : Arrived(ae'[i][j][k]) => Tells(ae[i][j][k])'
  BY TellsNext
<1> QED
  BY <1>1, <1>2, <1>3 DEF KnowledgeTrue, Arrived

-----------------------------------------------------------------------------
(* The theorems *)

AgreementInv == ChoiceInv /\ Dated /\ KnowledgeTrue

LEMMA AgreementInit == Init => AgreementInv
BY ChoiceInit, DatedInit, KnowledgeInit DEF AgreementInv

LEMMA AgreementNext ==
    ASSUME Timely, AgreementInv, [Next]_vars
    PROVE  /\ AgreementInv' /\ ChoiceStep
           /\ forgotten' = {} => HasPrefix(chosen', chosen)
<1>0. ChoiceInv /\ Dated /\ KnowledgeTrue /\ TermsInv
  BY DEF AgreementInv, ChoiceInv
<1>1. ChoiceStep /\ ChoiceInv' /\ (forgotten' = {} => HasPrefix(chosen', chosen))
  BY <1>0, ChoiceNext
<1>2. Dated'
  BY <1>0, <1>1, DatedNext DEF ChoiceStep
<1>3. KnowledgeTrue'
  BY <1>0, <1>1, KnowledgeNext
<1> QED
  BY <1>1, <1>2, <1>3 DEF AgreementInv

LEMMA AgreementComplete ==
    ASSUME AgreementInv
    PROVE  LeaderCompleteness
<1>0. /\ TypeOK /\ LeaderKnown /\ CommitBound /\ ChosenFirm /\ KnowledgeTrue
  BY DEF AgreementInv, ChoiceInv, Sound, LeadershipInv
<1>t. /\ chosen \in Seq(LogEntry) /\ Len(chosen) \in Nat
      /\ \A i \in Server : log[i] \in Seq(LogEntry) /\ currentTerm[i] \in Nat
                            /\ commitIndex[i] \in Nat
  BY <1>0, LogTypes, CommitTypes
<1>1. ASSUME forgotten = {}, NEW i \in Server, state[i] = "Leader",
             LastTerm(chosen) <= currentTerm[i]
      PROVE  Holds(log[i], chosen)
  <2>1. HasPrefix(log[i], chosen)
    <3>1. CASE Len(chosen) > 0
      <4>1. FirmElected(chosen)
        BY <1>0, <1>1, <3>1 DEF ChosenFirm, Firm
      <4>2. <<i, currentTerm[i]>> \in elected
        BY <1>0, <1>1 DEF LeaderKnown
      <4>3. LastTerm(chosen) \in Nat
        BY <1>t, <3>1, LastEntry
      <4>4. currentTerm[i] >= LastTerm(chosen)
        BY <1>1, <1>t, <4>3
      <4> QED
        BY <1>t, <4>1, <4>2, <4>4 DEF FirmElected
    <3>2. CASE ~(Len(chosen) > 0)
      BY <1>t, <3>2, EmptyPrefix
    <3> QED
      BY <3>1, <3>2
  <2> QED
    BY <1>t, <2>1, HasPrefixHolds DEF Holds
<1>2. ASSUME forgotten = {}, misdated = {}, NEW j \in Server
      PROVE  commitIndex[j] <= Len(chosen)
                /\ Holds(log[j], SubSeq(chosen, 1, commitIndex[j]))
  <2> DEFINE n == commitIndex[j]
  <2>1. n <= Len(chosen) /\ n \in Nat
    BY <1>0, <1>t DEF CommitBound
  <2>2. PICK p : p = SubSeq(chosen, 1, n)
    OBVIOUS
  <2>3. p \in Seq(LogEntry) /\ HasPrefix(log[j], p)
    <3>1. CASE n > 0
      <4>1. p \in Seq(LogEntry)
        <5> HIDE DEF n
        <5>1. n \in 1..Len(chosen)
          BY <1>t, <2>1, <3>1
        <5> QED
          BY <1>t, <2>2, <5>1, OwnPrefix
      <4> QED
        BY <1>0, <1>2, <2>2, <3>1, <4>1 DEF KnowledgeTrue, Knows
    <3>2. CASE ~(n > 0)
      <4> HIDE DEF n
      <4>1. n = 0
        BY <2>1, <3>2
      <4>2. p = <<>>
        BY <1>t, <2>2, <4>1
      <4>3. p \in Seq(LogEntry) /\ Len(p) = 0
        BY <4>2
      <4> QED
        BY <1>t, <4>3, EmptyPrefix
    <3> QED
      BY <3>1, <3>2
  <2>4. Holds(log[j], p)
    BY <1>t, <2>3, HasPrefixHolds DEF Holds
  <2> QED
    BY <2>1, <2>2, <2>4
<1> QED
  BY <1>1, <1>2 DEF LeaderCompleteness

LEMMA AllIsQuorum == IsQuorum(Server)
<1>1. Cardinality(Server) \in Nat /\ Cardinality(Server) # 0
  BY ServerAssumption, FS_CardinalityType, FS_EmptySet
<1> QED
  BY <1>1 DEF IsQuorum

LEMMA AgreementDurable ==
    ASSUME AgreementInv
    PROVE  ChosenDurable
<1> SUFFICES ASSUME forgotten = {}
             PROVE  \E Q \in SUBSET Server :
                        /\ IsQuorum(Q)
                        /\ \A i \in Q : Abstract!StartsWith(storage[i].log, chosen)
  BY DEF ChosenDurable
<1>0. TypeOK /\ LogStored /\ ChosenFirm
  BY DEF AgreementInv, ChoiceInv, Sound, LinkInv
<1>t. /\ chosen \in Seq(LogEntry) /\ Len(chosen) \in Nat
      /\ \A i \in Server : log[i] \in Seq(LogEntry) /\ storage[i].log = log[i]
  BY <1>0, LogTypes, CommitTypes DEF LogStored
<1>1. ASSUME NEW i \in Server, HasPrefix(log[i], chosen)
      PROVE  Abstract!StartsWith(storage[i].log, chosen)
  BY <1>1, <1>t, HasPrefixHolds DEF Abstract!StartsWith
<1>2. CASE Len(chosen) > 0
  <2>1. PICK Q \in SUBSET Server : IsQuorum(Q) /\ FirmHeld(chosen, Q)
    BY <1>0, <1>2 DEF ChosenFirm, Firm
  <2> QED
    BY <1>1, <2>1 DEF FirmHeld
<1>3. CASE ~(Len(chosen) > 0)
  <2>1. \A i \in Server : HasPrefix(log[i], chosen)
    BY <1>3, <1>t, EmptyPrefix
  <2> QED
    BY <1>1, <2>1, AllIsQuorum
<1> QED
  BY <1>2, <1>3

LEMMA AgreementStep ==
    ASSUME Timely, AgreementInv, [Next]_vars, forgotten' = {},
           misdated' = {} \/ UNCHANGED applied, ~UNCHANGED <<chosen, applied>>
    PROVE  Abstract!Next
<1>0. /\ ChoiceInv /\ KnowledgeTrue /\ CommitStep /\ forgotten = {} /\ TypeOK /\ TypeOK'
      /\ HasPrefix(chosen', chosen)
  BY AgreementNext DEF AgreementInv, ChoiceInv, ChoiceStep, SoundStep, Sound,
                       ElectionStep, ElectStep
<1>t. /\ chosen \in Seq(LogEntry) /\ chosen' \in Seq(LogEntry)
      /\ applied \in [Server -> Seq(LogEntry)]
      /\ \A i \in Server : applied[i] \in Seq(LogEntry)
  BY <1>0, CommitTypes DEF TypeOK
<1>1. ASSUME NEW h \in Server, NEW n \in Nat, NEW Q \in SUBSET Server, Commits(h, n, Q)
      PROVE  Abstract!Next
  <2>1. UNCHANGED applied
    BY <1>1 DEF Commits
  <2>2. Abstract!StartsWith(chosen', chosen)
    BY <1>0, <1>t, HasPrefixHolds DEF Abstract!StartsWith
  <2>3. Abstract!Choose
    BY <2>1, <2>2 DEF Abstract!Choose
  <2> QED
    BY <2>3 DEF Abstract!Next
<1>2. ASSUME NEW i \in Server, Resets(i) PROVE Abstract!Next
  <2>1. Abstract!Reset(i)
    BY <1>2 DEF Resets, Abstract!Reset
  <2> QED
    BY <2>1 DEF Abstract!Next
<1>3. ASSUME NEW i \in Server, ApplyCommitted(i) PROVE Abstract!Next
  <2>1. chosen' = chosen
    BY <1>3 DEF ApplyCommitted, history
  <2>2. misdated = {}
    BY <1>0, <2>1 DEF CommitStep
  <2>3. PICK r \in Seq(LogEntry) :
            /\ applied' = [applied EXCEPT ![i] = r]
            /\ HasPrefix(chosen, r) /\ HasPrefix(r, applied[i])
    BY <1>0, <1>3, <2>2, DeliversChosen
  <2>4. applied'[i] = r
    BY <1>t, <2>3
  <2>5. Abstract!StartsWith(r, applied[i]) /\ Abstract!StartsWith(chosen, r)
    BY <1>t, <2>3, HasPrefixHolds DEF Abstract!StartsWith
  <2>6. Abstract!Deliver(i)
    BY <2>1, <2>3, <2>4, <2>5 DEF Abstract!Deliver
  <2> QED
    BY <2>6 DEF Abstract!Next
<1>4. ASSUME NEW i \in Server, NEW j \in Server, NEW k \in Lane, Learns(i, j, k)
      PROVE  FALSE
  BY <1>4 DEF Learns
<1> QED
  BY <1>0, <1>1, <1>2, <1>3, <1>4 DEF CommitStep

\* Leader completeness, of raft/part3 for clusters of any size: as long as no
\* restart makes a CM forget that it led, whoever leads a term that is not older
\* than the last chosen entry holds everything that has been chosen; and, as long
\* as no request is misdated, what any CM regards as committed was chosen.
THEOREM LeadersComplete ==
    ASSUME Timely
    PROVE  Spec => []LeaderCompleteness
<1>1. AgreementInv /\ [Next]_vars => AgreementInv'
  BY AgreementNext
<1>2. AgreementInv => LeaderCompleteness
  BY AgreementComplete
<1> QED
  BY <1>1, <1>2, AgreementInit, PTL DEF Spec

\* Durability of the log, of raft/part3 for clusters of any size: whatever a
\* leader has committed is in the storage, not only in the memory, of a majority
\* of the CMs, in every later state and whoever is stopped and restarted, as
\* long as no restart makes a CM forget that it led.
THEOREM ChosenStored ==
    ASSUME Timely
    PROVE  Spec => []ChosenDurable
<1>1. AgreementInv /\ [Next]_vars => AgreementInv'
  BY AgreementNext
<1>2. AgreementInv => ChosenDurable
  BY AgreementDurable
<1> QED
  BY <1>1, <1>2, AgreementInit, PTL DEF Spec

\* ConsensusModule implements Agreement: every step of raft/part3 (an election,
\* an AppendEntries, a late reply, a restart) either leaves what is chosen and
\* what the commit channels have delivered alone, or is a step of the abstract
\* log: a leader appends to what is chosen, a CM delivers the next chosen
\* entries, a restarted CM starts to deliver from the beginning.
THEOREM Refines ==
    ASSUME Timely
    PROVE  Spec => Implements
<1>1. AgreementInv /\ [Next]_vars => AgreementInv'
  BY AgreementNext
<1>2. Init => Abstract!Init
  BY DEF Init, Abstract!Init
<1>3. AgreementInv /\ [Next]_vars
        => [forgotten' = {} /\ (misdated' = {} \/ UNCHANGED applied)
                => Abstract!Next]_(Abstract!agreementVars)
  BY AgreementStep DEF Abstract!agreementVars
<1> QED
  BY <1>1, <1>2, <1>3, AgreementInit, PTL DEF Spec, Implements
=============================================================================
