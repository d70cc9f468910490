------------------------ MODULE ReplicatedLogProofs ------------------------
(***************************************************************************)
(* What every service built on ReplicatedLog may rely on: the service that *)
(* was elected last holds all that is committed, so that a log which has   *)
(* agreed with the committed entries up to some index agrees with them     *)
(* there ever after.                                                       *)
(*                                                                         *)
(* And the induction the services' proofs need: a store is defined by      *)
(* recursion on the number of commands executed.                           *)
(***************************************************************************)
EXTENDS ReplicatedLog, TLAPS, SequenceTheorems, WellFoundedInduction

-----------------------------------------------------------------------------
(* Induction *)

\* A nonempty set of naturals has a least element, all below it being outside.
LEMMA LeastExists ==
    ASSUME NEW S \in SUBSET Nat, S # {}
    PROVE  \E n \in S : \A k \in 0..(n - 1) : k \notin S
<1>1. PICK n \in S : \A k \in S : <<k, n>> \notin OpToRel(<, Nat)
  BY NatLessThanWellFounded, WFMin
<1>2. \A k \in S : ~(k < n)
  BY <1>1 DEF OpToRel
<1>3. \A k \in 0..(n - 1) : k < n
  OBVIOUS
<1> QED
  BY <1>2, <1>3

\* A set that has 0 and, with every number below N, the next one, has all
\* numbers up to N.
LEMMA InductionUpTo ==
    ASSUME NEW N \in Nat, NEW S, 0 \in S,
           \A n \in 1..N : n - 1 \in S => n \in S
    PROVE  \A n \in 0..N : n \in S
<1> DEFINE T == {n \in 0..N : n \notin S}
<1> SUFFICES ASSUME T # {} PROVE FALSE
  OBVIOUS
<1>1. T \in SUBSET Nat
  OBVIOUS
<1>2. PICK n \in T : \A k \in 0..(n - 1) : k \notin T
  BY <1>1, LeastExists
<1>3. n \in 1..N /\ n \notin S
  OBVIOUS
<1>4. n - 1 \in 0..(n - 1) /\ n - 1 \in 0..N
  BY <1>3
<1>5. n - 1 \in S
  BY <1>2, <1>4
<1> QED
  BY <1>3, <1>5

\* What is computed from step to step stays in X.
IsStep(G, X, N) == G \in [X \X (1..N) -> X]

\* f starts with x0 and goes on with G.
IsIterate(f, x0, G, X, N) ==
    /\ f \in [0..N -> X]
    /\ f[0] = x0
    /\ \A n \in 1..N : f[n] = G[<<f[n - 1], n>>]

\* A function can be defined by recursion.
LEMMA RecursionDefines ==
    ASSUME NEW X, NEW x0 \in X, NEW N \in Nat, NEW G, IsStep(G, X, N)
    PROVE  \E f : IsIterate(f, x0, G, X, N)
<1>0. G \in [X \X (1..N) -> X]
  BY DEF IsStep
<1> DEFINE Defined(k, f) == /\ f[0] = x0
                            /\ \A n \in 1..k : f[n] = G[<<f[n - 1], n>>]
           S == {k \in 0..N : \E f \in [0..N -> X] : Defined(k, f)}
<1>1. 0 \in S
  <2> DEFINE f0 == [n \in 0..N |-> x0]
  <2>1. f0 \in [0..N -> X] /\ f0[0] = x0
    OBVIOUS
  <2>2. \A n \in 1..0 : FALSE
    OBVIOUS
  <2>3. Defined(0, f0)
    BY <2>1, <2>2
  <2>4. 0 \in 0..N
    OBVIOUS
  <2> QED
    BY <2>1, <2>3, <2>4
<1>2. ASSUME NEW k \in 1..N, k - 1 \in S PROVE k \in S
  <2>1. PICK f \in [0..N -> X] : Defined(k - 1, f)
    BY <1>2
  <2> DEFINE g == [f EXCEPT ![k] = G[<<f[k - 1], k>>]]
  <2>2. k - 1 \in 0..N /\ k \in 0..N /\ f[k - 1] \in X
    OBVIOUS
  <2>3. g \in [0..N -> X]
    <3>1. <<f[k - 1], k>> \in X \X (1..N)
      BY <2>2
    <3>2. G[<<f[k - 1], k>>] \in X
      BY <3>1, <1>0
    <3> QED
      BY <3>2, <2>2
  <2>4. g[0] = x0
    BY <2>1
  <2>5. ASSUME NEW n \in 1..k PROVE g[n] = G[<<g[n - 1], n>>]
    <3>1. n - 1 \in 0..N /\ n \in 0..N /\ n - 1 # k /\ g[n - 1] = f[n - 1]
      BY <2>5
    <3>2. CASE n = k
      BY <3>1, <3>2, <2>2
    <3>3. CASE n # k
      BY <3>1, <3>3, <2>1
    <3> QED
      BY <3>2, <3>3
  <2>6. Defined(k, g)
    BY <2>4, <2>5
  <2> QED
    BY <2>2, <2>3, <2>6
<1>3. \A k \in 0..N : k \in S
  <2> HIDE DEF S
  <2> QED
    BY <1>1, <1>2, InductionUpTo
<1>4. PICK f \in [0..N -> X] : Defined(N, f)
  BY <1>3
<1> QED
  BY <1>4 DEF IsIterate

-----------------------------------------------------------------------------
(* The replicated log *)

\* The logs hold entries of E; one of the services was elected last.
LogType(E) ==
    /\ log \in [Service -> Seq(E)]
    /\ committed \in Seq(E)
    /\ current \in Service

\* The service elected last holds all that is committed.
CurrentHolds == Agrees(current, Len(committed))

\* A log that agrees with the committed entries does so from then on.
AgreedStays ==
    \A s \in Service, n \in Nat : Agrees(s, n) => Agrees(s, n)'

\* Nothing that is committed changes.
CommittedStays ==
    /\ Len(committed) <= Len(committed')
    /\ \A n \in 1..Len(committed) : committed'[n] = committed[n]

\* A service that leads only adds to its log.
LeadersAppend ==
    \A s \in leaders \cap Service :
        /\ Len(log[s]) <= Len(log'[s])
        /\ \A n \in 1..Len(log[s]) : log'[s][n] = log[s][n]

\* What is in a log was in one, at that index.
NothingNew ==
    \A t \in Service : \A i \in 1..Len(log'[t]) :
        \E u \in Service : i \in 1..Len(log[u]) /\ log[u][i] = log'[t][i]

\* Equality of prefixes, entry by entry.
LEMMA PrefixPointwise ==
    ASSUME NEW E, NEW a \in Seq(E), NEW b \in Seq(E), NEW n \in Nat,
           n <= Len(a), n <= Len(b)
    PROVE  SubSeq(a, 1, n) = SubSeq(b, 1, n) <=> \A i \in 1..n : a[i] = b[i]
<1>2. /\ \A i \in 1..n : a[i] \in E
      /\ \A i \in 1..n : b[i] \in E
  OBVIOUS
<1>3. /\ SubSeq(a, 1, n) \in Seq(E) /\ Len(SubSeq(a, 1, n)) = n
      /\ \A i \in 1..n : SubSeq(a, 1, n)[i] = a[i]
  BY <1>2, SubSeqProperties
<1>4. /\ SubSeq(b, 1, n) \in Seq(E) /\ Len(SubSeq(b, 1, n)) = n
      /\ \A i \in 1..n : SubSeq(b, 1, n)[i] = b[i]
  BY <1>2, SubSeqProperties
<1>5. ASSUME \A i \in 1..n : a[i] = b[i]
      PROVE  SubSeq(a, 1, n) = SubSeq(b, 1, n)
  BY <1>3, <1>4, <1>5, SeqEqual
<1>6. ASSUME SubSeq(a, 1, n) = SubSeq(b, 1, n), NEW i \in 1..n
      PROVE  a[i] = b[i]
  BY <1>3, <1>4, <1>6
<1> QED
  BY <1>5, <1>6

\* Agreement, entry by entry: now and after a step.
LEMMA AgreesPointwise ==
    ASSUME NEW E, LogType(E), NEW s \in Service, NEW n \in Nat
    PROVE  Agrees(s, n) <=> /\ n <= Len(log[s]) /\ n <= Len(committed)
                            /\ \A i \in 1..n : log[s][i] = committed[i]
<1>1. log[s] \in Seq(E) /\ committed \in Seq(E)
  BY DEF LogType
<1> QED
  BY <1>1, PrefixPointwise DEF Agrees

LEMMA AgreesPointwiseNext ==
    ASSUME NEW E, LogType(E)', NEW s \in Service, NEW n \in Nat
    PROVE  Agrees(s, n)' <=> /\ n <= Len(log'[s]) /\ n <= Len(committed')
                             /\ \A i \in 1..n : log'[s][i] = committed'[i]
<1>1. log'[s] \in Seq(E) /\ committed' \in Seq(E)
  BY DEF LogType
<1> QED
  BY <1>1, PrefixPointwise DEF Agrees

\* A follower's log that agrees with c up to n does so when it is sent the
\* start of a log that agrees with c too.
LEMMA MergedAgrees ==
    ASSUME NEW E, NEW old \in Seq(E), NEW entries \in Seq(E), NEW c \in Seq(E),
           NEW n \in Nat, n <= Len(old), n <= Len(c),
           \A i \in 1..n : old[i] = c[i],
           \A i \in 1..n : i <= Len(entries) => entries[i] = c[i]
    PROVE  /\ Merged(old, entries) \in Seq(E)
           /\ n <= Len(Merged(old, entries))
           /\ \A i \in 1..n : Merged(old, entries)[i] = c[i]
<1>1. CASE Merged(old, entries) = old
  BY <1>1
<1>2. CASE Merged(old, entries) # old
  <2>1. Merged(old, entries) = entries
    BY <1>2 DEF Merged
  <2>2. n <= Len(entries)
    <3> SUFFICES ASSUME Len(entries) < n PROVE FALSE
      OBVIOUS
    <3> DEFINE k == Len(entries)
    <3>1. k \in Nat /\ k <= Len(old) /\ \A i \in 1..k : old[i] \in E
      OBVIOUS
    <3>2. /\ SubSeq(old, 1, k) \in Seq(E) /\ Len(SubSeq(old, 1, k)) = k
          /\ \A i \in 1..k : SubSeq(old, 1, k)[i] = old[i]
      BY <3>1, SubSeqProperties
    <3>3. \A i \in 1..k : SubSeq(old, 1, k)[i] = entries[i]
      BY <3>2
    <3>4. SubSeq(old, 1, k) = entries
      BY <3>2, <3>3, SeqEqual
    <3> QED
      BY <3>1, <3>4, <1>2 DEF Merged
  <2> QED
    BY <2>1, <2>2
<1> QED
  BY <1>1, <1>2

\* A step that leaves the logs alone.
LEMMA UnchangedKeeps ==
    ASSUME NEW E, LogType(E), UNCHANGED <<log, committed, current>>
    PROVE  /\ LogType(E)' /\ AgreedStays /\ CommittedStays /\ LeadersAppend
           /\ CurrentHolds => CurrentHolds'
<1>1. /\ LogType(E)' /\ AgreedStays
  BY DEF LogType, AgreedStays, Agrees
<1>2. Len(committed) \in Nat /\ \A s \in Service : Len(log[s]) \in Nat
  BY DEF LogType
<1>3. CommittedStays /\ LeadersAppend
  BY <1>2 DEF CommittedStays, LeadersAppend
<1>4. CurrentHolds => CurrentHolds'
  BY DEF CurrentHolds, Agrees
<1> QED
  BY <1>1, <1>3, <1>4

\* A command is appended to the log of a leader.
LEMMA AppendsKeeps ==
    ASSUME NEW E, LogType(E), NEW s \in Service, NEW cmd \in E, Appends(s, cmd)
    PROVE  /\ LogType(E)' /\ AgreedStays /\ CommittedStays /\ LeadersAppend
           /\ CurrentHolds => CurrentHolds'
           /\ Len(log'[s]) = Len(log[s]) + 1 /\ log'[s][Len(log[s]) + 1] = cmd
           /\ \A i \in 1..Len(log[s]) : log'[s][i] = log[s][i]
           /\ \A t \in Service \ {s} : log'[t] = log[t]
<1>1. log[s] \in Seq(E) /\ committed \in Seq(E)
  BY DEF LogType
<1>2. /\ log' = [log EXCEPT ![s] = Append(log[s], cmd)]
      /\ UNCHANGED <<committed, leaders, current>>
  BY DEF Appends
<1>3. /\ log'[s] = Append(log[s], cmd)
      /\ \A t \in Service \ {s} : log'[t] = log[t]
  BY <1>2 DEF LogType
<1>4. /\ Append(log[s], cmd) \in Seq(E)
      /\ Len(Append(log[s], cmd)) = Len(log[s]) + 1
      /\ \A i \in 1..Len(log[s]) : Append(log[s], cmd)[i] = log[s][i]
      /\ Append(log[s], cmd)[Len(log[s]) + 1] = cmd
  BY <1>1, AppendProperties
<1>5. LogType(E)'
  BY <1>2, <1>4 DEF LogType
<1>6. ASSUME NEW t \in Service
      PROVE  /\ Len(log[t]) <= Len(log'[t])
             /\ \A i \in 1..Len(log[t]) : log'[t][i] = log[t][i]
  <2>1. Len(log[t]) \in Nat
    BY DEF LogType
  <2> QED
    BY <2>1, <1>3, <1>4
<1>7. LeadersAppend
  BY <1>6 DEF LeadersAppend
<1>8. ASSUME NEW t \in Service, NEW n \in Nat, Agrees(t, n)
      PROVE  Agrees(t, n)'
  <2>1. /\ n <= Len(log[t]) /\ n <= Len(committed)
        /\ \A i \in 1..n : log[t][i] = committed[i]
    BY <1>8, AgreesPointwise
  <2>2. Len(log[t]) \in Nat /\ Len(log'[t]) \in Nat
    BY <1>5 DEF LogType
  <2>3. /\ n <= Len(log'[t]) /\ n <= Len(committed')
        /\ \A i \in 1..n : log'[t][i] = committed'[i]
    BY <2>1, <2>2, <1>2, <1>6
  <2> QED
    BY <2>3, <1>5, AgreesPointwiseNext
<1>9. CurrentHolds => CurrentHolds'
  BY <1>1, <1>2, <1>8 DEF CurrentHolds, LogType
<1> QED
  BY <1>1, <1>2, <1>3, <1>4, <1>5, <1>7, <1>8, <1>9 DEF AgreedStays, CommittedStays

\* The start of a log that agrees with the committed entries of a follower
\* reaches it.
LEMMA MergeKeeps ==
    ASSUME NEW E, LogType(E), NEW s \in Service \ leaders, NEW entries \in Seq(E),
           CurrentHolds,
           \A i \in 1..Len(committed) :
              i <= Len(entries) /\ Agrees(s, i) => entries[i] = committed[i],
           log' = [log EXCEPT ![s] = Merged(log[s], entries)],
           UNCHANGED <<committed, leaders, current>>
    PROVE  /\ LogType(E)' /\ AgreedStays /\ CommittedStays /\ LeadersAppend
           /\ CurrentHolds'
<1>1. log[s] \in Seq(E) /\ committed \in Seq(E) /\ Len(committed) \in Nat
  BY DEF LogType
<1>2. log'[s] = Merged(log[s], entries) /\ \A t \in Service \ {s} : log'[t] = log[t]
  BY DEF LogType
<1>3. Merged(log[s], entries) \in Seq(E)
  BY <1>1 DEF Merged
<1>4. LogType(E)'
  BY <1>3 DEF LogType
<1>5. LeadersAppend
  <2> SUFFICES ASSUME NEW t \in leaders \cap Service
               PROVE  /\ Len(log[t]) <= Len(log'[t])
                      /\ \A n \in 1..Len(log[t]) : log'[t][n] = log[t][n]
    BY DEF LeadersAppend
  <2>1. Len(log[t]) \in Nat /\ t # s
    BY DEF LogType
  <2> QED
    BY <2>1, <1>2
<1>6. ASSUME NEW t \in Service, NEW n \in Nat, Agrees(t, n)
      PROVE  Agrees(t, n)'
  <2>1. /\ n <= Len(log[t]) /\ n <= Len(committed)
        /\ \A i \in 1..n : log[t][i] = committed[i]
    BY <1>6, AgreesPointwise
  <2>2. /\ n <= Len(log'[t]) /\ n <= Len(committed')
        /\ \A i \in 1..n : log'[t][i] = committed'[i]
    <3>1. CASE t = s
      <4>1. ASSUME NEW i \in 1..n, i <= Len(entries) PROVE entries[i] = committed[i]
        <5>1. /\ i \in 1..Len(committed) /\ i \in Nat /\ i <= Len(log[s])
              /\ \A j \in 1..i : log[s][j] = committed[j]
          BY <2>1, <1>1, <3>1
        <5>2. Agrees(s, i)
          BY <5>1, AgreesPointwise
        <5> QED
          BY <4>1, <5>1, <5>2
      <4>2. /\ n <= Len(Merged(log[s], entries))
            /\ \A i \in 1..n : Merged(log[s], entries)[i] = committed[i]
        <5> DEFINE old == log[s]
        <5>1. /\ old \in Seq(E) /\ n <= Len(old) /\ n <= Len(committed)
              /\ \A i \in 1..n : old[i] = committed[i]
          BY <3>1, <2>1, <1>1
        <5> HIDE DEF old
        <5>2. /\ n <= Len(Merged(old, entries))
              /\ \A i \in 1..n : Merged(old, entries)[i] = committed[i]
          BY <4>1, <5>1, <1>1, MergedAgrees
        <5> QED
          BY <5>2 DEF old
      <4> QED
        BY <4>2, <3>1, <2>1, <1>2
    <3>2. CASE t # s
      BY <3>2, <2>1, <1>2
    <3> QED
      BY <3>1, <3>2
  <2> QED
    BY <2>2, <1>4, AgreesPointwiseNext
<1>7. CurrentHolds'
  BY <1>1, <1>6 DEF CurrentHolds, LogType
<1> QED
  BY <1>1, <1>4, <1>5, <1>6, <1>7 DEF AgreedStays, CommittedStays

\* The leader commits its next entry.
LEMMA CommitKeeps ==
    ASSUME NEW E, LogType(E), CurrentHolds, Commit
    PROVE  /\ LogType(E)' /\ AgreedStays /\ CommittedStays /\ LeadersAppend
           /\ CurrentHolds'
<1> DEFINE L == Len(committed)
           e == log[current][L + 1]
<1>1. committed \in Seq(E) /\ L \in Nat /\ \A s \in Service : log[s] \in Seq(E)
  BY DEF LogType
<1>2. /\ current \in Service /\ L < Len(log[current]) /\ committed' = Append(committed, e)
      /\ UNCHANGED <<log, leaders, current>>
  BY DEF Commit, LogType
<1>3. e \in E
  <2>1. L + 1 \in 1..Len(log[current])
    BY <1>1, <1>2
  <2> QED
    BY <2>1, <1>1, <1>2
<1>4. /\ committed' \in Seq(E) /\ Len(committed') = L + 1
      /\ \A i \in 1..L : committed'[i] = committed[i]
      /\ committed'[L + 1] = e
  <2> HIDE DEF e
  <2> QED
    BY <1>1, <1>2, <1>3, AppendProperties
<1>5. LogType(E)'
  BY <1>2, <1>4 DEF LogType
<1>6. CommittedStays
  BY <1>1, <1>4 DEF CommittedStays
<1>7. LeadersAppend
  <2>1. \A s \in Service : Len(log[s]) \in Nat
    BY <1>1
  <2> QED
    BY <2>1, <1>2 DEF LeadersAppend
<1>8. AgreedStays
  <2> SUFFICES ASSUME NEW t \in Service, NEW n \in Nat, Agrees(t, n)
               PROVE  Agrees(t, n)'
    BY DEF AgreedStays
  <2>1. /\ n <= Len(log[t]) /\ n <= L
        /\ \A i \in 1..n : log[t][i] = committed[i]
    BY AgreesPointwise
  <2>2. /\ n <= Len(log'[t]) /\ n <= Len(committed')
        /\ \A i \in 1..n : log'[t][i] = committed'[i]
    BY <2>1, <1>1, <1>2, <1>4
  <2> QED
    BY <2>2, <1>5, AgreesPointwiseNext
<1>9. CurrentHolds'
  <2>1. \A i \in 1..L : log[current][i] = committed[i]
    BY <1>1, <1>2, AgreesPointwise DEF CurrentHolds
  <2>2. L + 1 \in Nat /\ L + 1 <= Len(log[current])
    BY <1>1, <1>2
  <2>3. \A i \in 1..(L + 1) : log[current][i] = committed'[i]
    BY <2>1, <1>1, <1>2, <1>4
  <2>4. SubSeq(log[current], 1, L + 1) = SubSeq(committed', 1, L + 1)
    BY <2>2, <2>3, <1>1, <1>2, <1>4, PrefixPointwise
  <2> QED
    BY <2>2, <2>4, <1>2, <1>4 DEF CurrentHolds, Agrees
<1> QED
  BY <1>5, <1>6, <1>7, <1>8, <1>9

\* Every step of the log keeps all of it.
LEMMA LogNextKeeps ==
    ASSUME NEW E, LogType(E), CurrentHolds, LogNext
    PROVE  /\ LogType(E)' /\ AgreedStays /\ CommittedStays /\ LeadersAppend
           /\ CurrentHolds'
<1>1. CASE Commit
  BY <1>1, CommitKeeps
<1>2. ASSUME NEW s \in Service, Elect(s)
      PROVE  /\ LogType(E)' /\ AgreedStays /\ CommittedStays /\ LeadersAppend
             /\ CurrentHolds'
  <2>1. LogType(E)' /\ AgreedStays
    BY <1>2 DEF Elect, LogType, AgreedStays, Agrees
  <2>2. Len(committed) \in Nat /\ \A t \in Service : Len(log[t]) \in Nat
    BY DEF LogType
  <2>3. CommittedStays /\ LeadersAppend
    BY <1>2, <2>2 DEF Elect, CommittedStays, LeadersAppend
  <2>4. CurrentHolds'
    BY <1>2 DEF Elect, CurrentHolds, Agrees
  <2> QED
    BY <2>1, <2>3, <2>4
<1>3. ASSUME NEW s \in Service, StepDown(s)
      PROVE  /\ LogType(E)' /\ AgreedStays /\ CommittedStays /\ LeadersAppend
             /\ CurrentHolds'
  BY <1>3, UnchangedKeeps DEF StepDown
<1>4. ASSUME NEW l \in Service, NEW s \in Service, NEW n \in 1..MaxLog,
             Replicate(l, s, n)
      PROVE  /\ LogType(E)' /\ AgreedStays /\ CommittedStays /\ LeadersAppend
             /\ CurrentHolds'
  <2> DEFINE entries == SubSeq(log[l], 1, n)
  <2>1. log[l] \in Seq(E) /\ Len(committed) \in Nat
    BY DEF LogType
  <2>2. n \in Nat /\ n <= Len(log[l]) /\ \A i \in 1..n : log[l][i] \in E
    BY <1>4, <2>1 DEF Replicate
  <2>3. /\ entries \in Seq(E) /\ Len(entries) = n
        /\ \A i \in 1..n : entries[i] = log[l][i]
    BY <2>2, SubSeqProperties
  <2>4. \A i \in 1..n : Agrees(s, i) => log[l][i] = committed[i]
    BY <1>4 DEF Replicate
  <2>5. /\ s \in Service \ leaders
        /\ log' = [log EXCEPT ![s] = Merged(log[s], entries)]
        /\ UNCHANGED <<committed, leaders, current>>
    BY <1>4 DEF Replicate
  <2> HIDE DEF entries
  <2>6. \A i \in 1..Len(committed) :
           i <= Len(entries) /\ Agrees(s, i) => entries[i] = committed[i]
    BY <2>2, <2>3, <2>4
  <2> QED
    BY <2>3, <2>5, <2>6, MergeKeeps
<1> QED
  BY <1>1, <1>2, <1>3, <1>4 DEF LogNext

\* And it adds nothing to what the logs hold.
LEMMA LogNextNothingNew ==
    ASSUME NEW E, LogType(E), LogNext
    PROVE  NothingNew
<1>1. \A t \in Service : log[t] \in Seq(E) /\ Len(log[t]) \in Nat
  BY DEF LogType
<1>2. CASE log' = log
  BY <1>2 DEF NothingNew
<1>3. ASSUME NEW l \in Service, NEW s \in Service, NEW n \in 1..MaxLog,
             Replicate(l, s, n)
      PROVE  NothingNew
  <2> DEFINE entries == SubSeq(log[l], 1, n)
  <2>1. n \in Nat /\ n <= Len(log[l])
    BY <1>1, <1>3 DEF Replicate, LogType
  <2>2. \A i \in 1..n : log[l][i] \in E
    BY <1>1, <2>1
  <2>3. /\ Len(entries) = n /\ \A i \in 1..n : entries[i] = log[l][i]
    BY <2>1, <2>2, SubSeqProperties
  <2> HIDE DEF entries
  <2>4. /\ log'[s] = log[s] \/ log'[s] = entries
        /\ \A t \in Service \ {s} : log'[t] = log[t]
    BY <1>3 DEF Replicate, Merged, LogType, entries
  <2>5. ASSUME NEW t \in Service, NEW i \in 1..Len(log'[t])
        PROVE  \E u \in Service : i \in 1..Len(log[u]) /\ log[u][i] = log'[t][i]
    <3>1. CASE log'[t] = log[t]
      BY <3>1
    <3>2. CASE log'[t] = entries
      <4>1. i \in 1..n /\ log'[t][i] = log[l][i]
        BY <3>2, <2>3
      <4>2. i \in 1..Len(log[l])
        BY <4>1, <2>1, <1>1
      <4> QED
        BY <4>1, <4>2, <2>1
    <3> QED
      BY <3>1, <3>2, <2>4
  <2> QED
    BY <2>5 DEF NothingNew
<1> QED
  BY <1>2, <1>3 DEF LogNext, Commit, Elect, StepDown

\* What is committed is in the log of the service elected last: now and after
\* a step.
LEMMA CommittedIsHeld ==
    ASSUME NEW E, LogType(E), CurrentHolds
    PROVE  \A i \in 1..Len(committed) :
              \E u \in Service : i \in 1..Len(log[u]) /\ log[u][i] = committed[i]
<1>1. current \in Service /\ Len(committed) \in Nat /\ Len(log[current]) \in Nat
  BY DEF LogType
<1>2. /\ Len(committed) <= Len(log[current])
      /\ \A i \in 1..Len(committed) : log[current][i] = committed[i]
  BY <1>1, AgreesPointwise DEF CurrentHolds
<1> QED
  BY <1>1, <1>2

LEMMA CommittedIsHeldNext ==
    ASSUME NEW E, LogType(E)', CurrentHolds'
    PROVE  \A i \in 1..Len(committed') :
              \E u \in Service : i \in 1..Len(log'[u]) /\ log'[u][i] = committed'[i]
<1>1. /\ current' \in Service /\ Len(committed') \in Nat /\ Len(log'[current']) \in Nat
      /\ log'[current'] \in Seq(E) /\ committed' \in Seq(E)
  BY DEF LogType
<1>2. /\ Len(committed') <= Len(log'[current'])
      /\ SubSeq(log'[current'], 1, Len(committed')) =
            SubSeq(committed', 1, Len(committed'))
  BY DEF CurrentHolds, Agrees
<1>3. \A i \in 1..Len(committed') : log'[current'][i] = committed'[i]
  BY <1>1, <1>2, PrefixPointwise
<1> QED
  BY <1>1, <1>2, <1>3

\* No log is longer than its bound.
LogsBounded == \A t \in Service : Len(log[t]) <= MaxLog

LEMMA BoundStays ==
    ASSUME NEW E, LogType(E), LogType(E)', LogsBounded, NothingNew
    PROVE  LogsBounded'
<1> SUFFICES ASSUME NEW t \in Service PROVE Len(log'[t]) <= MaxLog
  BY DEF LogsBounded
<1>1. Len(log'[t]) \in Nat /\ \A u \in Service : Len(log[u]) \in Nat
  BY DEF LogType
<1>2. ASSUME Len(log'[t]) > 0 PROVE Len(log'[t]) <= MaxLog
  <2>1. Len(log'[t]) \in 1..Len(log'[t])
    BY <1>1, <1>2
  <2>2. PICK u \in Service : Len(log'[t]) \in 1..Len(log[u])
    BY <2>1 DEF NothingNew
  <2> QED
    BY <2>2, <1>1, LogBoundAssumption DEF LogsBounded
<1> QED
  BY <1>1, <1>2, LogBoundAssumption
=============================================================================
