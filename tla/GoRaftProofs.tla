---------------------------- MODULE GoRaftProofs ----------------------------
(***************************************************************************)
(* Proofs about GoRaft, for any number of servers, calls, commands and     *)
(* crashes: the metadata file always holds what its server knows, so that  *)
(* no term goes back and no server votes twice in a term.                  *)
(***************************************************************************)
EXTENDS GoRaft, TLAPS, FiniteSetTheorems, SequenceTheorems

-----------------------------------------------------------------------------
(* Types *)

Members == Server \cup {Nil}
LogEntry == [term : Nat, command : Command \cup {Blank}]
File == [page : BOOLEAN, term : Nat, votedFor : Members, len : Nat,
         entries : Seq(LogEntry)]
CallPC == {"idle", "spawned", "sent", "orphan", "replied"}
RVCall == [pc : CallPC, term : Nat, lastLogIndex : Nat, lastLogTerm : Nat,
           rterm : Nat, voteGranted : BOOLEAN]
AECall == [pc : CallPC, term : Nat, prevLogIndex : Nat, prevLogTerm : Nat,
           entries : Seq(LogEntry), leaderCommit : Nat, rterm : Nat,
           success : BOOLEAN]
Calls(C) == [Server -> [Server -> [Lane -> C]]]

TypeInv ==
    /\ state \in [Server -> {"follower", "candidate", "leader", "down"}]
    /\ currentTerm \in [Server -> Nat]
    /\ log \in [Server -> Seq(LogEntry)]
    /\ commitIndex \in [Server -> Nat]
    /\ votedFor \in [Server -> [Server -> Members]]
    /\ nextIndex \in [Server -> [Server -> Nat]]
    /\ disk \in [Server -> File]
    /\ rv \in Calls(RVCall)
    /\ ae \in Calls(AECall)
    /\ granted \subseteq Server \X Server \X Nat

-----------------------------------------------------------------------------
(* The metadata file *)

\* File d holds a server's term, vote and log.
Holds(d, term, vote, l) ==
    /\ d.term = term /\ d.votedFor = vote /\ d.len = Len(l)
    /\ Len(l) <= Len(d.entries)
    /\ \A n \in 1..Len(l) : d.entries[n] = l[n]

\* The first m entries of a log.
LEMMA FirstEntries ==
    ASSUME NEW l \in Seq(LogEntry), NEW m \in 0..Len(l)
    PROVE  /\ SubSeq(l, 1, m) \in Seq(LogEntry) /\ Len(SubSeq(l, 1, m)) = m
           /\ \A n \in 1..m : SubSeq(l, 1, m)[n] = l[n]
<1>1. m \in Int /\ 1 \in Int /\ \A i \in 1..m : l[i] \in LogEntry
  OBVIOUS
<1>2. /\ SubSeq(l, 1, m) \in Seq(LogEntry)
      /\ Len(SubSeq(l, 1, m)) = IF 1 <= m THEN m - 1 + 1 ELSE 0
      /\ \A i \in 1..(m - 1 + 1) : SubSeq(l, 1, m)[i] = l[1 + i - 1]
  BY <1>1, SubSeqProperties
<1> QED
  BY <1>2

\* The entries after the first m.
LEMMA LastEntries ==
    ASSUME NEW l \in Seq(LogEntry), NEW m \in Nat
    PROVE  /\ SubSeq(l, m + 1, Len(l)) \in Seq(LogEntry)
           /\ Len(SubSeq(l, m + 1, Len(l))) = IF m <= Len(l) THEN Len(l) - m ELSE 0
           /\ \A n \in 1..(Len(l) - m) : SubSeq(l, m + 1, Len(l))[n] = l[m + n]
<1>1. /\ m + 1 \in Int /\ Len(l) \in Int
      /\ \A i \in (m + 1)..Len(l) : l[i] \in LogEntry
  OBVIOUS
<1>2. /\ SubSeq(l, m + 1, Len(l)) \in Seq(LogEntry)
      /\ Len(SubSeq(l, m + 1, Len(l)))
            = IF m + 1 <= Len(l) THEN Len(l) - (m + 1) + 1 ELSE 0
      /\ \A i \in 1..(Len(l) - (m + 1) + 1) :
            SubSeq(l, m + 1, Len(l))[i] = l[(m + 1) + i - 1]
  BY <1>1, SubSeqProperties
<1> QED
  BY <1>2

\* A batch of the entries after the first m.
LEMMA SomeEntries ==
    ASSUME NEW l \in Seq(LogEntry), NEW m \in Nat, NEW n \in Nat, n <= Len(l)
    PROVE  SubSeq(l, m + 1, n) \in Seq(LogEntry)
<1>1. m + 1 \in Int /\ n \in Int /\ \A i \in (m + 1)..n : l[i] \in LogEntry
  OBVIOUS
<1> QED
  BY <1>1, SubSeqProperties

LEMMA ConcatLogs ==
    \A a, b \in Seq(LogEntry) :
        /\ a \o b \in Seq(LogEntry) /\ Len(a \o b) = Len(a) + Len(b)
        /\ \A i \in 1..(Len(a) + Len(b)) :
              (a \o b)[i] = IF i <= Len(a) THEN a[i] ELSE b[i - Len(a)]
BY ConcatProperties

\* Writing the last n entries of log l over a file that has the others.
LEMMA WrittenHolds ==
    ASSUME NEW old \in Seq(LogEntry), NEW l \in Seq(LogEntry), NEW n \in 0..Len(l),
           Len(l) - n <= Len(old), \A i \in 1..(Len(l) - n) : old[i] = l[i]
    PROVE  /\ Written(old, l, n) \in Seq(LogEntry)
           /\ Len(l) <= Len(Written(old, l, n))
           /\ \A i \in 1..Len(l) : Written(old, l, n)[i] = l[i]
<1> DEFINE m == Len(l) - n
           first == SubSeq(old, 1, m)
           new == SubSeq(l, m + 1, Len(l))
           rest == SubSeq(old, Len(l) + 1, Len(old))
<1>1. m \in 0..Len(old) /\ m \in Nat /\ Len(l) \in Nat /\ m <= Len(l)
  OBVIOUS
<1>2. /\ first \in Seq(LogEntry) /\ Len(first) = m
      /\ \A i \in 1..m : first[i] = l[i]
  BY <1>1, FirstEntries
<1>3. /\ new \in Seq(LogEntry) /\ Len(new) = Len(l) - m
      /\ \A i \in 1..(Len(l) - m) : new[i] = l[m + i]
  BY <1>1, LastEntries
<1>4. rest \in Seq(LogEntry)
  BY <1>1, LastEntries
<1> DEFINE both == first \o new
           all == both \o rest
<1>5. Written(old, l, n) = all
  BY <1>1 DEF Written
<1> HIDE DEF first, new, rest, m
<1>6. /\ both \in Seq(LogEntry) /\ Len(both) = Len(l)
      /\ \A i \in 1..Len(l) : both[i] = IF i <= m THEN first[i] ELSE new[i - m]
  BY <1>1, <1>2, <1>3, ConcatProperties
<1> HIDE DEF both
<1>7. ASSUME NEW i \in 1..Len(l) PROVE both[i] = l[i]
  <2>1. CASE i <= m
    <3>1. i \in 1..m
      BY <2>1, <1>1
    <3> QED
      BY <3>1, <2>1, <1>2, <1>6
  <2>2. CASE ~(i <= m)
    <3>1. i - m \in 1..(Len(l) - m) /\ m + (i - m) = i
      BY <2>2, <1>1
    <3> QED
      BY <3>1, <2>2, <1>3, <1>6
  <2> QED
    BY <2>1, <2>2
<1>8. /\ all \in Seq(LogEntry) /\ Len(all) = Len(l) + Len(rest)
      /\ \A i \in 1..(Len(l) + Len(rest)) :
            all[i] = IF i <= Len(l) THEN both[i] ELSE rest[i - Len(l)]
  <2>1. /\ all \in Seq(LogEntry) /\ Len(all) = Len(both) + Len(rest)
        /\ \A i \in 1..(Len(both) + Len(rest)) :
              all[i] = IF i <= Len(both) THEN both[i] ELSE rest[i - Len(both)]
    <3>1. both \in Seq(LogEntry) /\ rest \in Seq(LogEntry)
      BY <1>4, <1>6
    <3> QED
      BY <3>1, ConcatLogs, Zenon
  <2> HIDE DEF all
  <2> QED
    BY <2>1, <1>6
<1>9. Len(rest) \in Nat
  BY <1>4
<1> HIDE DEF all
<1>10. Len(l) <= Len(all)
  BY <1>1, <1>8, <1>9
<1>11. ASSUME NEW i \in 1..Len(l) PROVE all[i] = l[i]
  <2>1. i <= Len(l) /\ i \in 1..(Len(l) + Len(rest))
    BY <1>1, <1>9
  <2>2. all[i] = both[i]
    BY <2>1, <1>8
  <2> QED
    BY <2>2, <1>7
<1> QED
  BY <1>5, <1>8, <1>10, <1>11, Zenon

\* persist(false, 0) of a log that the file has.
LEMMA PageHolds ==
    ASSUME NEW d \in File, NEW l \in Seq(LogEntry), NEW t0, NEW v0, Holds(d, t0, v0, l),
           NEW t \in Nat, NEW v \in Members
    PROVE  Page(d, t, v, l) \in File /\ Holds(Page(d, t, v, l), t, v, l)
<1>1. Len(l) \in Nat
  OBVIOUS
<1>2. /\ Page(d, t, v, l) \in File /\ Page(d, t, v, l).term = t
      /\ Page(d, t, v, l).votedFor = v /\ Page(d, t, v, l).len = Len(l)
      /\ Page(d, t, v, l).entries = d.entries
  BY <1>1 DEF Page, File
<1> HIDE DEF Page
<1> QED
  BY <1>2 DEF Holds

\* persist(true, n), when the file has the log that was extended or replaced.
LEMMA PersistLogHolds ==
    ASSUME NEW d \in File, NEW t0, NEW v0, NEW l0 \in Seq(LogEntry), Holds(d, t0, v0, l0),
           NEW t \in Nat, NEW v \in Members, NEW l \in Seq(LogEntry), NEW n \in 0..Len(l),
           Len(l) - n <= Len(l0), \A i \in 1..(Len(l) - n) : l[i] = l0[i]
    PROVE  PersistLog(d, t, v, l, n) \in File /\ Holds(PersistLog(d, t, v, l, n), t, v, l)
<1> DEFINE p == Page(d, t, v, l)
           w == Written(p.entries, l, n)
           q == PersistLog(d, t, v, l, n)
<1>1. Len(l) \in Nat /\ Len(l0) \in Nat /\ d.entries \in Seq(LogEntry)
      /\ Len(l0) <= Len(d.entries) /\ \A i \in 1..Len(l0) : d.entries[i] = l0[i]
  BY DEF File, Holds
<1>2. /\ p \in File /\ p.term = t /\ p.votedFor = v /\ p.len = Len(l)
      /\ p.entries = d.entries
  BY <1>1 DEF Page, File
<1> HIDE DEF p
<1>3. q = [p EXCEPT !.entries = w]
  BY DEF PersistLog, p
<1>4. /\ w \in Seq(LogEntry) /\ Len(l) <= Len(w) /\ \A i \in 1..Len(l) : w[i] = l[i]
  <2>1. /\ Len(l) - n <= Len(d.entries)
        /\ \A i \in 1..(Len(l) - n) : d.entries[i] = l[i]
    <3>1. Len(l) - n <= Len(d.entries)
      <4>1. Len(d.entries) \in Nat
        BY <1>1
      <4> QED
        BY <4>1, <1>1
    <3>2. ASSUME NEW i \in 1..(Len(l) - n) PROVE d.entries[i] = l[i]
      <4>1. i \in 1..Len(l0)
        BY <1>1
      <4> QED
        BY <4>1, <1>1
    <3> QED
      BY <3>1, <3>2
  <2> DEFINE e == d.entries
  <2>2. /\ e \in Seq(LogEntry) /\ Len(l) - n <= Len(e)
        /\ \A i \in 1..(Len(l) - n) : e[i] = l[i]
    BY <2>1, <1>1
  <2> HIDE DEF e
  <2>3. /\ Written(e, l, n) \in Seq(LogEntry) /\ Len(l) <= Len(Written(e, l, n))
        /\ \A i \in 1..Len(l) : Written(e, l, n)[i] = l[i]
    BY <2>2, WrittenHolds
  <2> QED
    BY <2>3, <1>2 DEF e
<1> HIDE DEF w
<1>5. /\ q \in File /\ q.term = t /\ q.votedFor = v /\ q.len = Len(l) /\ q.entries = w
  BY <1>2, <1>3, <1>4 DEF File
<1> HIDE DEF q
<1>6. Holds(q, t, v, l)
  BY <1>4, <1>5 DEF Holds
<1> QED
  BY <1>5, <1>6 DEF q

\* What restore reads from a file that has the log.
LEMMA RestoreHolds ==
    ASSUME NEW d \in File, NEW t, NEW v, NEW l \in Seq(LogEntry), Holds(d, t, v, l)
    PROVE  RestoredLog(d) = l
<1>1. Len(l) \in Nat /\ d.entries \in Seq(LogEntry) /\ Len(l) <= Len(d.entries)
      /\ d.len = Len(l) /\ \A n \in 1..Len(l) : d.entries[n] = l[n]
  BY DEF File, Holds
<1> DEFINE r == SubSeq(d.entries, 1, Len(l))
<1>2. Len(l) \in 0..Len(d.entries)
  BY <1>1
<1>3. r \in Seq(LogEntry) /\ Len(r) = Len(l) /\ \A n \in 1..Len(l) : r[n] = l[n]
  BY <1>1, <1>2, FirstEntries
<1> HIDE DEF r
<1>4. r = l
  BY <1>1, <1>3, SeqEqual
<1> QED
  BY <1>1, <1>4 DEF RestoredLog, r
-----------------------------------------------------------------------------
(* Operators on logs *)

LEMMA TermAtType ==
    ASSUME NEW l \in Seq(LogEntry), NEW n
    PROVE  TermAt(l, n) \in Nat
<1>1. CASE n \in 1..Len(l)
  <2>1. l[n] \in LogEntry
    BY <1>1
  <2> QED
    BY <1>1, <2>1 DEF TermAt, LogEntry
<1>2. CASE n \notin 1..Len(l)
  BY <1>2 DEF TermAt
<1> QED
  BY <1>1, <1>2

LEMMA LeastIn ==
    ASSUME NEW S \in SUBSET Nat, S # {}
    PROVE  Least(S) \in S /\ \A m \in S : Least(S) <= m
<1>1. PICK n \in S : \A m \in S : <<m, n>> \notin OpToRel(<, Nat)
  BY NatLessThanWellFounded, WFMin
<1>2. \A m \in S : ~(m < n)
  BY <1>1 DEF OpToRel
<1>3. \A m \in S : n <= m
  BY <1>2
<1> QED
  BY <1>3 DEF Least

LEMMA GreatestIn ==
    ASSUME NEW b \in Nat, NEW S \in SUBSET (0..b), S # {}
    PROVE  Greatest(S) \in S
<1> DEFINE T == {n \in 0..b : b - n \in S}
<1>1. T \in SUBSET Nat /\ T # {}
  <2>1. PICK x \in S : TRUE
    OBVIOUS
  <2>2. b - x \in T
    OBVIOUS
  <2> QED
    BY <2>2
<1>2. Least(T) \in T /\ \A m \in T : Least(T) <= m
  <2> HIDE DEF T
  <2> QED
    BY <1>1, LeastIn
<1> DEFINE n == b - Least(T)
<1>3. n \in S /\ \A m \in S : n >= m
  <2>1. Least(T) \in 0..b /\ n \in S
    BY <1>2
  <2>2. \A m \in S : b - m \in T
    OBVIOUS
  <2> HIDE DEF T
  <2> QED
    BY <2>1, <2>2, <1>2
<1> QED
  BY <1>3 DEF Greatest

\* The entries that are counted as new start where log l ends or conflicts.
LEMMA NumNewBound ==
    ASSUME NEW l \in Seq(LogEntry), NEW entries \in Seq(LogEntry), NEW prev \in Nat,
           prev <= Len(l)
    PROVE  /\ NumNew(l, prev, entries) \in 0..Len(entries)
           /\ prev + (Len(entries) - NumNew(l, prev, entries)) <= Len(l)
<1> DEFINE new == {n \in 1..Len(entries) : prev + n > Len(l)
                                             \/ l[prev + n].term # entries[n].term}
           L == Len(entries)
<1>1. L \in Nat /\ Len(l) \in Nat
  OBVIOUS
<1>2. CASE new = {}
  <2>1. NumNew(l, prev, entries) = 0
    BY <1>2 DEF NumNew
  <2>2. L = 0 \/ L \in 1..L
    BY <1>1
  <2>3. L = 0 \/ prev + L <= Len(l)
    BY <2>2, <1>2, <1>1
  <2> HIDE DEF new
  <2> QED
    BY <2>1, <2>3, <1>1
<1>3. CASE new # {}
  <2> DEFINE n == Least(new)
  <2>1. n \in new /\ \A m \in new : n <= m
    <3>1. new \in SUBSET Nat
      OBVIOUS
    <3> HIDE DEF new
    <3> QED
      BY <3>1, <1>3, LeastIn
  <2> HIDE DEF n
  <2>2. n \in 1..L
    BY <2>1
  <2>3. NumNew(l, prev, entries) = L - n + 1
    BY <1>3 DEF NumNew, n
  <2>4. n = 1 \/ n - 1 \in 1..L
    BY <2>2, <1>1
  <2>5. n = 1 \/ prev + (n - 1) <= Len(l)
    <3> SUFFICES ASSUME n - 1 \in 1..L PROVE prev + (n - 1) <= Len(l)
      BY <2>4
    <3>1. n - 1 \notin new
      BY <2>1, <2>2
    <3> QED
      BY <3>1, <1>1
  <2> HIDE DEF new
  <2> QED
    BY <2>2, <2>3, <2>5, <1>1
<1> QED
  BY <1>2, <1>3

\* The log whose entries after the first m are replaced by those of entries
\* after the first p.
Replaced(l, m, entries, p) ==
    SubSeq(l, 1, m) \o SubSeq(entries, p + 1, Len(entries))

LEMMA ReplacedLog ==
    ASSUME NEW l \in Seq(LogEntry), NEW entries \in Seq(LogEntry), NEW m \in 0..Len(l),
           NEW p \in 0..Len(entries)
    PROVE  /\ Replaced(l, m, entries, p) \in Seq(LogEntry)
           /\ Len(Replaced(l, m, entries, p)) = m + (Len(entries) - p)
           /\ \A i \in 1..m : Replaced(l, m, entries, p)[i] = l[i]
<1> DEFINE new == Replaced(l, m, entries, p)
           a == SubSeq(l, 1, m)
           b == SubSeq(entries, p + 1, Len(entries))
<1> HIDE DEF new
<1>1. a \in Seq(LogEntry) /\ Len(a) = m /\ \A i \in 1..m : a[i] = l[i]
  BY FirstEntries
<1>2. b \in Seq(LogEntry) /\ Len(b) = Len(entries) - p
  <2>1. p \in Nat /\ Len(entries) \in Nat /\ p <= Len(entries)
    OBVIOUS
  <2> QED
    BY <2>1, LastEntries
<1> HIDE DEF a, b
<1>3. new = a \o b
  BY DEF new, Replaced, a, b
<1>4. /\ new \in Seq(LogEntry) /\ Len(new) = Len(a) + Len(b)
      /\ \A i \in 1..(Len(a) + Len(b)) :
            new[i] = IF i <= Len(a) THEN a[i] ELSE b[i - Len(a)]
  <2>1. a \in Seq(LogEntry) /\ b \in Seq(LogEntry)
    BY <1>1, <1>2
  <2>2. /\ a \o b \in Seq(LogEntry) /\ Len(a \o b) = Len(a) + Len(b)
        /\ \A i \in 1..(Len(a) + Len(b)) :
              (a \o b)[i] = IF i <= Len(a) THEN a[i] ELSE b[i - Len(a)]
    BY <2>1, ConcatLogs, Zenon
  <2> QED
    BY <2>2, <1>3, Zenon
<1>5. Len(a) \in Nat /\ Len(b) \in Nat /\ m \in Nat
  BY <1>1, <1>2
<1>6. ASSUME NEW i \in 1..m PROVE new[i] = l[i]
  <2>1. i \in 1..(Len(a) + Len(b)) /\ i <= Len(a)
    BY <1>1, <1>5
  <2> QED
    BY <2>1, <1>1, <1>4
<1>7. new \in Seq(LogEntry) /\ Len(new) = m + (Len(entries) - p)
  BY <1>1, <1>2, <1>4
<1> QED
  BY <1>6, <1>7 DEF new

-----------------------------------------------------------------------------
(* The calls *)

\* No server calls itself, and the calls of a process that is gone are those
\* that had already arrived.
Silent(calls, down) ==
    \A i, j \in Server, k \in Lane :
        /\ i = j => calls[i][j][k].pc = "idle"
        /\ i \in down => calls[i][j][k].pc \in {"idle", "orphan"}

\* C is a set of records of calls, none the one that does not exist.
CallSet(C, none) ==
    /\ none \in C /\ none.pc = "idle"
    /\ [none EXCEPT !.pc = "spawned"] \in C
    /\ \A c \in C : /\ [c EXCEPT !.pc = "orphan"] \in C
                    /\ [c EXCEPT !.pc = "orphan"].pc = "orphan"

LEMMA CallSets == CallSet(RVCall, NoRV) /\ CallSet(AECall, NoAE)
<1>1. NoRV \in RVCall /\ NoRV.pc = "idle" /\ NoAE \in AECall /\ NoAE.pc = "idle"
  BY DEF NoRV, NoAE, RVCall, AECall, CallPC
<1>2. \A c \in RVCall : /\ [c EXCEPT !.pc = "orphan"] \in RVCall
                        /\ [c EXCEPT !.pc = "orphan"].pc = "orphan"
                        /\ [c EXCEPT !.pc = "spawned"] \in RVCall
  BY DEF RVCall, CallPC
<1>3. \A c \in AECall : /\ [c EXCEPT !.pc = "orphan"] \in AECall
                        /\ [c EXCEPT !.pc = "orphan"].pc = "orphan"
                        /\ [c EXCEPT !.pc = "spawned"] \in AECall
  BY DEF AECall, CallPC
<1> HIDE DEF NoRV, NoAE
<1> QED
  BY <1>1, <1>2, <1>3 DEF CallSet

\* No call starts.
NoneNew(new, old) ==
    \A i, j \in Server, x \in Lane :
        new[i][j][x].pc = "spawned" => old[i][j][x].pc = "spawned"

\* One call changes.
LEMMA PutCall ==
    ASSUME NEW C, NEW calls \in Calls(C), NEW down, Silent(calls, down),
           NEW i \in Server, NEW j \in Server, NEW k \in Lane, NEW c \in C,
           i = j => c.pc = "idle", i \in down => c.pc \in {"idle", "orphan"}
    PROVE  /\ [calls EXCEPT ![i][j][k] = c] \in Calls(C)
           /\ Silent([calls EXCEPT ![i][j][k] = c], down)
           /\ c.pc # "spawned" => NoneNew([calls EXCEPT ![i][j][k] = c], calls)
<1> DEFINE new == [calls EXCEPT ![i][j][k] = c]
<1>1. /\ new \in Calls(C)
      /\ \A a, b \in Server, x \in Lane :
            new[a][b][x] = IF a = i /\ b = j /\ x = k THEN c ELSE calls[a][b][x]
  BY DEF Calls
<1> HIDE DEF new
<1>2. Silent(new, down)
  BY <1>1 DEF Silent
<1>3. c.pc # "spawned" => NoneNew(new, calls)
  BY <1>1 DEF NoneNew
<1> QED
  BY <1>1, <1>2, <1>3 DEF new

\* A round of calls starts.
LEMMA SpawnCalls ==
    ASSUME NEW C, NEW none, CallSet(C, none), NEW calls \in Calls(C), NEW down,
           Silent(calls, down), NEW s \in Server, s \notin down, NEW k \in Lane
    PROVE  /\ Spawn(calls, s, k, none) \in Calls(C)
           /\ Silent(Spawn(calls, s, k, none), down)
           /\ \A i, j \in Server, x \in Lane :
                 i # s => Spawn(calls, s, k, none)[i][j][x] = calls[i][j][x]
<1> DEFINE new == [none EXCEPT !.pc = "spawned"]
           D(a, b, x) == IF a = s /\ b # s /\ x = k THEN new ELSE calls[a][b][x]
<1>1. new \in C
  BY DEF CallSet
<1> HIDE DEF new
<1>2. /\ Spawn(calls, s, k, none) \in Calls(C)
      /\ \A a, b \in Server, x \in Lane : Spawn(calls, s, k, none)[a][b][x] = D(a, b, x)
  BY <1>1 DEF Spawn, Calls, new
<1>3. \A a, b \in Server, x \in Lane :
         /\ a = b => D(a, b, x) = calls[a][b][x]
         /\ a \in down => D(a, b, x) = calls[a][b][x]
         /\ a # s => D(a, b, x) = calls[a][b][x]
  OBVIOUS
<1> HIDE DEF D
<1> QED
  BY <1>2, <1>3 DEF Silent

\* The calls that have not been sent are those that had not, of other servers.
NoneStarts(new, old, s) ==
    \A i, j \in Server, x \in Lane :
        new[i][j][x].pc = "spawned" => i # s /\ old[i][j][x].pc = "spawned"

\* The process of s ends.
LEMMA DisconnectedCalls ==
    ASSUME NEW C, NEW none, CallSet(C, none), NEW calls \in Calls(C), NEW down,
           Silent(calls, down), NEW s \in Server
    PROVE  /\ Disconnected(calls, s, none) \in Calls(C)
           /\ Silent(Disconnected(calls, s, none), down \cup {s})
           /\ NoneStarts(Disconnected(calls, s, none), calls, s)
<1> DEFINE Orphan(c) == [c EXCEPT !.pc = "orphan"]
           D(a, b, x) ==
             IF a = s THEN IF Arrived(calls[a][b][x]) THEN Orphan(calls[a][b][x]) ELSE none
             ELSE IF b = s /\ Arrived(calls[a][b][x]) THEN none ELSE calls[a][b][x]
           new == Disconnected(calls, s, none)
<1>1. \A c \in C : Orphan(c) \in C /\ Orphan(c).pc = "orphan"
  BY DEF CallSet
<1>2. \A a, b \in Server, x \in Lane : calls[a][b][x] \in C
  BY DEF Calls
<1>3. new = [a \in Server |-> [b \in Server |-> [x \in Lane |-> D(a, b, x)]]]
  BY DEF Disconnected
<1> HIDE DEF Orphan, new
<1>4. \A a, b \in Server, x \in Lane :
         /\ D(a, b, x) \in C
         /\ a = b /\ calls[a][b][x].pc = "idle" => D(a, b, x).pc = "idle"
         /\ a = s => D(a, b, x).pc \in {"idle", "orphan"}
         /\ a # s => D(a, b, x).pc \in {"idle", calls[a][b][x].pc}
  BY <1>1, <1>2 DEF CallSet, Arrived
<1> HIDE DEF D
<1>5. new \in Calls(C) /\ \A a, b \in Server, x \in Lane : new[a][b][x] = D(a, b, x)
  BY <1>3, <1>4 DEF Calls
<1>6. Silent(new, down \cup {s})
  BY <1>4, <1>5 DEF Silent
<1>7. NoneStarts(new, calls, s)
  BY <1>4, <1>5 DEF NoneStarts
<1> QED
  BY <1>5, <1>6, <1>7 DEF new
-----------------------------------------------------------------------------
(* The inductive invariant *)

States == {"follower", "candidate", "leader", "down"}
Down == {s \in Server : state[s] = "down"}

\* The file of a server that runs holds what the server knows.
FileInv ==
    \A s \in Server : Up(s) => Holds(disk[s], currentTerm[s], votedFor[s][s], log[s])

CallInv == Silent(rv, Down) /\ Silent(ae, Down)

\* The index that the goroutines of a round subtract one from is there.
Prepared ==
    \A i, j \in Server :
        state[i] = "leader" \/ (\E k \in Lane : ae[i][j][k].pc = "spawned") =>
            nextIndex[i][j] >= 1

\* A vote is of a past term, or it is the one that the server has.
VotesKept ==
    \A g \in granted :
        /\ g[3] <= currentTerm[g[1]]
        /\ g[3] = currentTerm[g[1]] => votedFor[g[1]][g[1]] = g[2]

IInv ==
    /\ TypeInv
    /\ FileInv
    /\ CallInv
    /\ Prepared
    /\ VotesOnce /\ VotesKept

TermsGrow == \A s \in Server : currentTerm'[s] >= currentTerm[s]

\* Server s gets a new state, term, votes, log and file; the others keep theirs.
Becomes(s, st, t, vs, l, d) ==
    /\ state' = [state EXCEPT ![s] = st]
    /\ currentTerm' = [currentTerm EXCEPT ![s] = t]
    /\ votedFor' = [votedFor EXCEPT ![s] = vs]
    /\ log' = [log EXCEPT ![s] = l]
    /\ disk' = [disk EXCEPT ![s] = d]

\* What is known of the servers afterwards.
ServersKept ==
    /\ state' \in [Server -> States] /\ currentTerm' \in [Server -> Nat]
    /\ log' \in [Server -> Seq(LogEntry)] /\ disk' \in [Server -> File]
    /\ votedFor' \in [Server -> [Server -> Members]]
    /\ FileInv' /\ TermsGrow

LEMMA ServerStep ==
    ASSUME IInv, NEW s \in Server, NEW st \in States, NEW t \in Nat,
           NEW vs \in [Server -> Members], NEW l \in Seq(LogEntry), NEW d \in File,
           Becomes(s, st, t, vs, l, d), st # "down" => Holds(d, t, vs[s], l),
           t >= currentTerm[s]
    PROVE  /\ ServersKept
           /\ Down' = IF st = "down" THEN Down \cup {s} ELSE Down \ {s}
<1>1. /\ state \in [Server -> States] /\ currentTerm \in [Server -> Nat]
      /\ log \in [Server -> Seq(LogEntry)] /\ disk \in [Server -> File]
      /\ votedFor \in [Server -> [Server -> Members]]
  BY DEF IInv, TypeInv, States
<1>2. /\ state' \in [Server -> States] /\ currentTerm' \in [Server -> Nat]
      /\ log' \in [Server -> Seq(LogEntry)] /\ disk' \in [Server -> File]
      /\ votedFor' \in [Server -> [Server -> Members]]
  BY <1>1 DEF Becomes
<1>3. /\ state'[s] = st /\ currentTerm'[s] = t /\ votedFor'[s] = vs /\ log'[s] = l
      /\ disk'[s] = d
      /\ \A u \in Server \ {s} :
            /\ state'[u] = state[u] /\ currentTerm'[u] = currentTerm[u]
            /\ votedFor'[u] = votedFor[u] /\ log'[u] = log[u] /\ disk'[u] = disk[u]
  BY <1>1 DEF Becomes
<1>4. FileInv'
  <2> SUFFICES ASSUME NEW u \in Server, state'[u] # "down"
               PROVE  Holds(disk'[u], currentTerm'[u], votedFor'[u][u], log'[u])
    BY DEF FileInv, Up
  <2>1. CASE u = s
    BY <2>1, <1>3
  <2>2. CASE u # s
    BY <2>2, <1>3 DEF IInv, FileInv, Up
  <2> QED
    BY <2>1, <2>2
<1>5. TermsGrow
  <2>1. \A u \in Server : currentTerm[u] >= currentTerm[u]
    BY <1>1
  <2> QED
    BY <2>1, <1>3 DEF TermsGrow
<1>6. Down' = IF st = "down" THEN Down \cup {s} ELSE Down \ {s}
  BY <1>3 DEF Down
<1> QED
  BY <1>2, <1>4, <1>5, <1>6 DEF ServersKept

\* No vote is given.
LEMMA NoVote ==
    ASSUME IInv, ServersKept, granted' = granted,
           \A u \in Server : currentTerm'[u] = currentTerm[u] =>
              votedFor'[u][u] = votedFor[u][u]
    PROVE  /\ granted' \subseteq Server \X Server \X Nat
           /\ VotesOnce' /\ VotesKept'
<1>1. granted \subseteq Server \X Server \X Nat /\ VotesOnce /\ VotesKept
  BY DEF IInv, TypeInv
<1>2. VotesKept'
  <2> SUFFICES ASSUME NEW g \in granted
               PROVE  /\ g[3] <= currentTerm'[g[1]]
                      /\ g[3] = currentTerm'[g[1]] => votedFor'[g[1]][g[1]] = g[2]
    BY DEF VotesKept
  <2>1. g[1] \in Server /\ g[3] \in Nat
    BY <1>1
  <2>2. currentTerm[g[1]] \in Nat /\ currentTerm'[g[1]] \in Nat
        /\ currentTerm'[g[1]] >= currentTerm[g[1]]
    BY <2>1 DEF IInv, TypeInv, ServersKept, TermsGrow
  <2>3. /\ g[3] <= currentTerm[g[1]]
        /\ g[3] = currentTerm[g[1]] => votedFor[g[1]][g[1]] = g[2]
    BY <1>1 DEF VotesKept
  <2> QED
    BY <2>1, <2>2, <2>3
<1>3. VotesOnce'
  BY <1>1 DEF VotesOnce
<1> QED
  BY <1>1, <1>2, <1>3

\* Server s votes for c in term t.
LEMMA VoteCast ==
    ASSUME IInv, ServersKept, NEW s \in Server, NEW c \in Server, NEW t \in Nat,
           granted' = granted \cup {<<s, c, t>>},
           currentTerm'[s] = t, votedFor'[s][s] = c,
           t = currentTerm[s] => votedFor[s][s] \in {Nil, c},
           \A u \in Server \ {s} : currentTerm'[u] = currentTerm[u]
                                   /\ votedFor'[u][u] = votedFor[u][u]
    PROVE  /\ granted' \subseteq Server \X Server \X Nat
           /\ VotesOnce' /\ VotesKept'
<1>1. granted \subseteq Server \X Server \X Nat /\ VotesOnce /\ VotesKept
  BY DEF IInv, TypeInv
<1>2. \A g \in granted : g \in Server \X Server \X Nat /\ g = <<g[1], g[2], g[3]>>
  BY <1>1
<1> DEFINE v == <<s, c, t>>
<1>3. v[1] = s /\ v[2] = c /\ v[3] = t /\ v \in Server \X Server \X Nat
  OBVIOUS
<1> HIDE DEF v
<1>4. ASSUME NEW g \in granted, g[1] = s PROVE g[3] <= t /\ (g[3] = t => g = v)
  <2>1. g[2] \in Server /\ g[3] \in Nat /\ g[3] <= currentTerm[s]
    BY <1>1, <1>2, <1>4 DEF VotesKept
  <2>2. currentTerm[s] \in Nat /\ t >= currentTerm[s]
    BY DEF IInv, TypeInv, ServersKept, TermsGrow
  <2>3. ASSUME g[3] = t PROVE g[2] = c
    <3>1. t = currentTerm[s]
      BY <2>1, <2>2, <2>3
    <3>2. votedFor[s][s] = g[2]
      BY <3>1, <2>3, <1>1, <1>4 DEF VotesKept
    <3> QED
      BY <3>1, <3>2, <2>1, NilAssumption
  <2> QED
    BY <2>1, <2>2, <2>3, <1>2, <1>4 DEF v
<1>5. ASSUME NEW g \in granted'
      PROVE  /\ g[3] <= currentTerm'[g[1]]
             /\ g[3] = currentTerm'[g[1]] => votedFor'[g[1]][g[1]] = g[2]
  <2>1. CASE g = v
    BY <2>1, <1>3
  <2>2. CASE g \in granted /\ g[1] = s
    BY <2>2, <1>3, <1>4
  <2>3. CASE g \in granted /\ g[1] # s
    BY <2>3, <1>1, <1>2 DEF VotesKept
  <2> QED
    BY <2>1, <2>2, <2>3 DEF v
<1>6. ASSUME NEW g \in granted', NEW h \in granted', g[1] = h[1], g[3] = h[3]
      PROVE  g = h
  <2>1. CASE g = v /\ h = v
    BY <2>1
  <2>2. CASE g \in granted /\ h \in granted
    BY <2>2, <1>1, <1>6 DEF VotesOnce
  <2>3. CASE g \in granted /\ h = v
    BY <2>3, <1>3, <1>4, <1>6
  <2>4. CASE g = v /\ h \in granted
    BY <2>4, <1>3, <1>4, <1>6
  <2> QED
    BY <2>1, <2>2, <2>3, <2>4 DEF v
<1>7. granted' \subseteq Server \X Server \X Nat
  BY <1>1, <1>3 DEF v
<1>8. VotesKept'
  BY <1>5 DEF VotesKept
<1>9. VotesOnce'
  BY <1>6 DEF VotesOnce
<1> QED
  BY <1>7, <1>8, <1>9

\* No server becomes a leader, and only a leader starts a round.
LEMMA PreparedKept ==
    ASSUME IInv, UNCHANGED nextIndex,
           \A i \in Server : state'[i] = "leader" => state[i] = "leader",
           \A i, j \in Server, k \in Lane : ae'[i][j][k].pc = "spawned" =>
              state[i] = "leader" \/ ae[i][j][k].pc = "spawned"
    PROVE  Prepared'
BY DEF IInv, Prepared

\* The parts make the invariant.
LEMMA Assemble ==
    ASSUME ServersKept, granted' \subseteq Server \X Server \X Nat, VotesOnce', VotesKept',
           Prepared', commitIndex' \in [Server -> Nat],
           nextIndex' \in [Server -> [Server -> Nat]],
           rv' \in Calls(RVCall), ae' \in Calls(AECall),
           Silent(rv', Down'), Silent(ae', Down')
    PROVE  IInv' /\ TermsGrow
BY DEF ServersKept, IInv, TypeInv, CallInv, States

\* A step that leaves the servers alone.
LEMMA ServersStay ==
    ASSUME IInv, UNCHANGED <<state, currentTerm, log, votedFor, disk, granted>>
    PROVE  /\ ServersKept /\ Down' = Down /\ VotesOnce' /\ VotesKept'
           /\ granted' \subseteq Server \X Server \X Nat
<1>1. ServersKept
  <2>1. FileInv'
    BY DEF IInv, FileInv, Up
  <2>2. TermsGrow
    BY DEF IInv, TypeInv, TermsGrow
  <2> QED
    BY <2>1, <2>2 DEF IInv, TypeInv, ServersKept, States
<1>2. Down' = Down
  BY DEF Down
<1> QED
  BY <1>1, <1>2, NoVote

\* Fewer servers are down.
LEMMA SilentFewer ==
    ASSUME NEW calls, NEW down, NEW fewer, Silent(calls, down), fewer \subseteq down
    PROVE  Silent(calls, fewer)
BY DEF Silent
-----------------------------------------------------------------------------
(* Every step keeps it: the main loop *)

LEMMA StutterKeeps ==
    ASSUME IInv, UNCHANGED <<state, currentTerm, log, commitIndex, votedFor, nextIndex,
                             disk, rv, ae, granted>>
    PROVE  IInv' /\ TermsGrow
<1>1. /\ ServersKept /\ Down' = Down /\ VotesOnce' /\ VotesKept'
      /\ granted' \subseteq Server \X Server \X Nat
  BY ServersStay
<1>2. Prepared'
  BY PreparedKept
<1> QED
  BY <1>1, <1>2, Assemble DEF IInv, TypeInv, CallInv

LEMMA HeartbeatKeeps ==
    ASSUME IInv, NEW s \in Server, NEW k \in Lane, Heartbeat(s, k)
    PROVE  IInv' /\ TermsGrow
<1>1. /\ state[s] = "leader" /\ ae' = Spawn(ae, s, k, NoAE)
      /\ UNCHANGED <<state, currentTerm, log, commitIndex, votedFor, nextIndex,
                     disk, rv, granted>>
  BY DEF Heartbeat, memberVars
<1>2. /\ ServersKept /\ Down' = Down /\ VotesOnce' /\ VotesKept'
      /\ granted' \subseteq Server \X Server \X Nat
  BY <1>1, ServersStay
<1>3. s \notin Down /\ ae \in Calls(AECall) /\ Silent(ae, Down)
  BY <1>1 DEF Down, IInv, TypeInv, CallInv
<1>4. /\ ae' \in Calls(AECall) /\ Silent(ae', Down)
      /\ \A i, j \in Server, x \in Lane : i # s => ae'[i][j][x] = ae[i][j][x]
  BY <1>1, <1>3, CallSets, SpawnCalls
<1>5. Prepared'
  BY <1>1, <1>4, PreparedKept
<1> QED
  BY <1>1, <1>2, <1>4, <1>5, Assemble DEF IInv, TypeInv, CallInv

\* A panic.
LEMMA DiesKeeps ==
    ASSUME IInv, NEW s \in Server, Dies(s), commitIndex' \in [Server -> Nat],
           UNCHANGED <<currentTerm, log, votedFor, nextIndex, disk, granted>>
    PROVE  IInv' /\ TermsGrow
<1>1. /\ state \in [Server -> States] /\ currentTerm \in [Server -> Nat]
      /\ log \in [Server -> Seq(LogEntry)] /\ disk \in [Server -> File]
      /\ votedFor \in [Server -> [Server -> Members]]
      /\ rv \in Calls(RVCall) /\ ae \in Calls(AECall)
      /\ Silent(rv, Down) /\ Silent(ae, Down)
      /\ nextIndex \in [Server -> [Server -> Nat]]
  BY DEF IInv, TypeInv, States, CallInv
<1>2. Becomes(s, "down", currentTerm[s], votedFor[s], log[s], disk[s])
  BY <1>1 DEF Becomes, Dies
<1>3. "down" \in States /\ currentTerm[s] >= currentTerm[s]
  BY <1>1 DEF States
<1>4. ServersKept /\ Down' = Down \cup {s}
  BY <1>1, <1>2, <1>3, ServerStep
<1>5. /\ granted' \subseteq Server \X Server \X Nat /\ VotesOnce' /\ VotesKept'
  BY <1>4, NoVote
<1>6. /\ rv' \in Calls(RVCall) /\ Silent(rv', Down')
      /\ ae' \in Calls(AECall) /\ Silent(ae', Down')
      /\ \A i, j \in Server, x \in Lane :
            ae'[i][j][x].pc = "spawned" => ae[i][j][x].pc = "spawned"
  <2>1. rv' = Disconnected(rv, s, NoRV) /\ ae' = Disconnected(ae, s, NoAE)
    BY DEF Dies
  <2>2. rv' \in Calls(RVCall) /\ Silent(rv', Down \cup {s})
    BY <2>1, <1>1, CallSets, DisconnectedCalls
  <2>3. /\ ae' \in Calls(AECall) /\ Silent(ae', Down \cup {s})
        /\ \A i, j \in Server, x \in Lane :
              ae'[i][j][x].pc = "spawned" => i # s /\ ae[i][j][x].pc = "spawned"
    <3> DEFINE new == Disconnected(ae, s, NoAE)
    <3>1. /\ new \in Calls(AECall) /\ Silent(new, Down \cup {s})
          /\ \A i, j \in Server, x \in Lane :
                new[i][j][x].pc = "spawned" => i # s /\ ae[i][j][x].pc = "spawned"
      <4>1. /\ new \in Calls(AECall) /\ Silent(new, Down \cup {s})
            /\ NoneStarts(new, ae, s)
        BY <1>1, CallSets, DisconnectedCalls
      <4> HIDE DEF new
      <4> QED
        BY <4>1 DEF NoneStarts
    <3> HIDE DEF new
    <3>2. ae' = new
      BY <2>1 DEF new
    <3> QED
      BY <3>1, <3>2
  <2> QED
    BY <2>2, <2>3, <1>4
<1>7. \A i \in Server : state'[i] = "leader" => state[i] = "leader"
  BY <1>1 DEF Dies
<1>8. Prepared'
  BY <1>6, <1>7, PreparedKept
<1> QED
  BY <1>1, <1>4, <1>5, <1>6, <1>8, Assemble

LEMMA AdvanceCommitIndexKeeps ==
    ASSUME IInv, NEW s \in Server, AdvanceCommitIndex(s)
    PROVE  IInv' /\ TermsGrow
<1> DEFINE commit == IF state[s] = "leader" THEN QuorumIndex(s) ELSE commitIndex[s]
<1>1. /\ commitIndex' = [commitIndex EXCEPT ![s] = commit]
      /\ Dies(s) \/ UNCHANGED <<state, rv, ae>>
      /\ UNCHANGED <<currentTerm, log, votedFor, nextIndex, disk, granted>>
  BY DEF AdvanceCommitIndex, memberVars
<1>2. commitIndex \in [Server -> Nat] /\ Len(log[s]) \in Nat
  BY DEF IInv, TypeInv
<1>3. QuorumIndex(s) \in Nat
  <2> DEFINE held == {n \in (commitIndex[s] + 1)..Len(log[s]) :
                        Cardinality({s} \cup {j \in Peers(s) : matchIndex[s][j] >= n})
                            >= Quorum}
  <2>1. QuorumIndex(s) = IF held = {} THEN commitIndex[s] ELSE Greatest(held)
    BY DEF QuorumIndex
  <2>2. held \in SUBSET (0..Len(log[s]))
    BY <1>2
  <2> HIDE DEF held
  <2>3. held # {} => Greatest(held) \in held
    BY <1>2, <2>2, GreatestIn
  <2>4. \A n \in 0..Len(log[s]) : n \in Nat
    BY <1>2
  <2> QED
    BY <2>1, <2>2, <2>3, <2>4, <1>2
<1>4. commitIndex' \in [Server -> Nat]
  BY <1>1, <1>2, <1>3
<1>5. CASE Dies(s)
  BY <1>1, <1>4, <1>5, DiesKeeps
<1>6. CASE UNCHANGED <<state, rv, ae>>
  <2>1. /\ ServersKept /\ Down' = Down /\ VotesOnce' /\ VotesKept'
        /\ granted' \subseteq Server \X Server \X Nat
    BY <1>1, <1>6, ServersStay
  <2>2. Prepared'
    BY <1>1, <1>6, PreparedKept
  <2> QED
    BY <1>1, <1>4, <1>6, <2>1, <2>2, Assemble DEF IInv, TypeInv, CallInv
<1> QED
  BY <1>1, <1>5, <1>6

LEMMA TimeoutKeeps ==
    ASSUME IInv, NEW s \in Server, NEW k \in Lane, Timeout(s, k)
    PROVE  IInv' /\ TermsGrow
<1> DEFINE t == currentTerm[s] + 1
           vs == [j \in Server |-> IF j = s THEN s ELSE Nil]
           d == Page(disk[s], t, s, log[s])
<1>1. /\ state[s] \in {"follower", "candidate"}
      /\ rv' = Spawn(rv, s, k, NoRV) /\ granted' = granted \cup {<<s, s, t>>}
      /\ UNCHANGED <<log, commitIndex, nextIndex, ae>>
  BY DEF Timeout, memberVars
<1>2. /\ state \in [Server -> States] /\ currentTerm \in [Server -> Nat]
      /\ log \in [Server -> Seq(LogEntry)] /\ disk \in [Server -> File]
      /\ votedFor \in [Server -> [Server -> Members]]
      /\ rv \in Calls(RVCall) /\ ae \in Calls(AECall)
      /\ Silent(rv, Down) /\ Silent(ae, Down)
  BY DEF IInv, TypeInv, States, CallInv
<1>3. /\ Up(s) /\ s \notin Down /\ t \in Nat /\ s \in Members
      /\ vs \in [Server -> Members] /\ vs[s] = s
      /\ Holds(disk[s], currentTerm[s], votedFor[s][s], log[s])
  BY <1>1, <1>2 DEF Up, Down, Members, IInv, FileInv
<1>4. d \in File /\ Holds(d, t, s, log[s])
  BY <1>2, <1>3, PageHolds
<1>5. Becomes(s, "candidate", t, vs, log[s], d)
  BY <1>1, <1>2 DEF Timeout, Becomes
<1> HIDE DEF vs, d
<1>6. ServersKept /\ Down' = Down
  <2>1. "candidate" \in States /\ t >= currentTerm[s] /\ Holds(d, t, vs[s], log[s])
        /\ log[s] \in Seq(LogEntry)
    BY <1>2, <1>3, <1>4 DEF States
  <2>2. /\ ServersKept
        /\ Down' = IF "candidate" = "down" THEN Down \cup {s} ELSE Down \ {s}
    <3> HIDE DEF t
    <3> QED
      BY <2>1, <1>3, <1>4, <1>5, ServerStep
  <2> QED
    BY <2>2, <1>3
<1>7. /\ currentTerm'[s] = t /\ votedFor'[s][s] = s
      /\ \A u \in Server \ {s} : currentTerm'[u] = currentTerm[u]
                                 /\ votedFor'[u][u] = votedFor[u][u]
  BY <1>2, <1>3, <1>5 DEF Becomes
<1>8. /\ granted' \subseteq Server \X Server \X Nat /\ VotesOnce' /\ VotesKept'
  <2>1. t # currentTerm[s]
    BY <1>2
  <2> HIDE DEF t
  <2> QED
    BY <2>1, <1>1, <1>3, <1>6, <1>7, VoteCast
<1>9. rv' \in Calls(RVCall) /\ Silent(rv', Down')
  BY <1>1, <1>2, <1>3, <1>6, CallSets, SpawnCalls
<1>10. Prepared'
  <2>1. \A i \in Server : state'[i] = "leader" => state[i] = "leader"
    BY <1>2, <1>5 DEF Becomes
  <2> QED
    BY <2>1, <1>1, PreparedKept
<1> QED
  BY <1>1, <1>2, <1>6, <1>8, <1>9, <1>10, Assemble DEF IInv, TypeInv

\* One entry is appended and written.
LEMMA AppendedHolds ==
    ASSUME IInv, NEW s \in Server, Up(s), NEW e \in LogEntry
    PROVE  LET new == Append(log[s], e)
               d == PersistLog(disk[s], currentTerm[s], votedFor[s][s], new, 1)
           IN  /\ new \in Seq(LogEntry) /\ d \in File
               /\ Holds(d, currentTerm[s], votedFor[s][s], new)
<1> DEFINE new == Append(log[s], e)
           l == log[s]
           f == disk[s]
           t == currentTerm[s]
           v == votedFor[s][s]
<1>1. l \in Seq(LogEntry) /\ f \in File /\ t \in Nat /\ v \in Members
      /\ Holds(f, t, v, l) /\ Len(l) \in Nat
  BY DEF IInv, TypeInv, FileInv
<1>2. /\ new \in Seq(LogEntry) /\ Len(new) = Len(l) + 1
      /\ \A i \in 1..Len(l) : new[i] = l[i]
  BY <1>1, AppendProperties
<1> HIDE DEF new, l, f, t, v
<1>3. 1 \in 0..Len(new) /\ Len(new) - 1 = Len(l)
  BY <1>1, <1>2
<1>4. Len(new) - 1 <= Len(l) /\ \A i \in 1..(Len(new) - 1) : new[i] = l[i]
  BY <1>1, <1>2, <1>3
<1>5. PersistLog(f, t, v, new, 1) \in File /\ Holds(PersistLog(f, t, v, new, 1), t, v, new)
  BY <1>1, <1>2, <1>3, <1>4, PersistLogHolds
<1> QED
  BY <1>2, <1>5 DEF new, l, f, t, v
LEMMA BecomeLeaderKeeps ==
    ASSUME IInv, NEW s \in Server, BecomeLeader(s)
    PROVE  IInv' /\ TermsGrow
<1> DEFINE e == Entry(currentTerm[s], Blank)
           new == Append(log[s], e)
           d == PersistLog(disk[s], currentTerm[s], votedFor[s][s], new, 1)
<1>1. /\ Up(s) /\ UNCHANGED <<currentTerm, commitIndex, votedFor, rv, ae, granted>>
      /\ \/ /\ state' = [state EXCEPT ![s] = "leader"]
            /\ nextIndex' = [nextIndex EXCEPT ![s] = [j \in Server |-> Len(log[s]) + 2]]
            /\ log' = [log EXCEPT ![s] = new]
            /\ disk' = [disk EXCEPT ![s] = d]
         \/ UNCHANGED <<state, nextIndex, log, disk>>
  BY DEF BecomeLeader, memberVars
<1>2. CASE UNCHANGED <<state, nextIndex, log, disk>>
  BY <1>1, <1>2, StutterKeeps
<1>3. CASE /\ state' = [state EXCEPT ![s] = "leader"]
           /\ nextIndex' = [nextIndex EXCEPT ![s] = [j \in Server |-> Len(log[s]) + 2]]
           /\ log' = [log EXCEPT ![s] = new]
           /\ disk' = [disk EXCEPT ![s] = d]
  <2>1. /\ state \in [Server -> States] /\ currentTerm \in [Server -> Nat]
        /\ votedFor \in [Server -> [Server -> Members]]
        /\ nextIndex \in [Server -> [Server -> Nat]]
        /\ rv \in Calls(RVCall) /\ ae \in Calls(AECall)
        /\ Silent(rv, Down) /\ Silent(ae, Down) /\ Len(log[s]) \in Nat
        /\ commitIndex \in [Server -> Nat]
    BY DEF IInv, TypeInv, States, CallInv
  <2>2. e \in LogEntry
    BY <2>1 DEF Entry, LogEntry
  <2>3. new \in Seq(LogEntry) /\ d \in File /\ Holds(d, currentTerm[s], votedFor[s][s], new)
    BY <1>1, <2>2, AppendedHolds
  <2> HIDE DEF new, d
  <2>4. Becomes(s, "leader", currentTerm[s], votedFor[s], new, d)
    BY <1>1, <1>3, <2>1 DEF Becomes
  <2>5. "leader" \in States /\ currentTerm[s] >= currentTerm[s] /\ s \notin Down
    BY <1>1, <2>1 DEF States, Down, Up
  <2>6. ServersKept /\ Down' = Down
    <3>1. /\ ServersKept
          /\ Down' = IF "leader" = "down" THEN Down \cup {s} ELSE Down \ {s}
      BY <2>1, <2>3, <2>4, <2>5, ServerStep
    <3> QED
      BY <3>1, <2>5
  <2>7. /\ granted' \subseteq Server \X Server \X Nat /\ VotesOnce' /\ VotesKept'
    BY <1>1, <2>6, NoVote
  <2>8. /\ nextIndex' \in [Server -> [Server -> Nat]]
        /\ \A j \in Server : nextIndex'[s][j] >= 1
        /\ \A i \in Server \ {s} : nextIndex'[i] = nextIndex[i] /\ state'[i] = state[i]
    BY <1>3, <2>1
  <2>9. Prepared'
    BY <1>1, <2>8 DEF IInv, Prepared
  <2> QED
    BY <1>1, <2>1, <2>6, <2>7, <2>8, <2>9, Assemble
<1> QED
  BY <1>1, <1>2, <1>3

\* Entries es are appended, and the last n of the log written, those among them.
LEMMA BatchHolds ==
    ASSUME IInv, NEW s \in Server, Up(s), NEW es \in Seq(LogEntry), NEW n \in Nat,
           n = Len(es) \/ n = Len(log[s]) + Len(es)
    PROVE  LET new == log[s] \o es
               d == PersistLog(disk[s], currentTerm[s], votedFor[s][s], new, n)
           IN  /\ new \in Seq(LogEntry) /\ d \in File
               /\ Holds(d, currentTerm[s], votedFor[s][s], new)
<1> DEFINE new == log[s] \o es
           l == log[s]
           f == disk[s]
           t == currentTerm[s]
           v == votedFor[s][s]
<1>1. l \in Seq(LogEntry) /\ f \in File /\ t \in Nat /\ v \in Members
      /\ Holds(f, t, v, l) /\ Len(l) \in Nat /\ Len(es) \in Nat
  BY DEF IInv, TypeInv, FileInv
<1>2. /\ new \in Seq(LogEntry) /\ Len(new) = Len(l) + Len(es)
      /\ \A i \in 1..(Len(l) + Len(es)) :
            new[i] = IF i <= Len(l) THEN l[i] ELSE es[i - Len(l)]
  BY <1>1, ConcatLogs
<1>3. n = Len(es) \/ n = Len(l) + Len(es)
  OBVIOUS
<1> HIDE DEF new, l, f, t, v
<1>4. n \in 0..Len(new) /\ Len(new) - n <= Len(l) /\ Len(new) - n \in Nat
  BY <1>1, <1>2, <1>3
<1>5. \A i \in 1..(Len(new) - n) : new[i] = l[i]
  BY <1>1, <1>2, <1>4
<1>6. PersistLog(f, t, v, new, n) \in File /\ Holds(PersistLog(f, t, v, new, n), t, v, new)
  BY <1>1, <1>2, <1>4, <1>5, PersistLogHolds
<1> QED
  BY <1>2, <1>6 DEF new, l, f, t, v

LEMMA ApplyKeeps ==
    ASSUME IInv, NEW s \in Server, NEW vs \in Batch, NEW k \in Lane, Apply(s, vs, k)
    PROVE  IInv' /\ TermsGrow
<1> DEFINE es == [x \in 1..Len(vs) |-> Entry(currentTerm[s], vs[x])]
           new == log[s] \o es
           n == IF vs = <<>> THEN Len(new) ELSE Len(vs)
           d == PersistLog(disk[s], currentTerm[s], votedFor[s][s], new, n)
<1>1. /\ state[s] = "leader" /\ ae' = Spawn(ae, s, k, NoAE)
      /\ log' = [log EXCEPT ![s] = new] /\ disk' = [disk EXCEPT ![s] = d]
      /\ UNCHANGED <<state, currentTerm, commitIndex, votedFor, nextIndex, rv, granted>>
  BY DEF Apply, memberVars
<1>2. /\ state \in [Server -> States] /\ currentTerm \in [Server -> Nat]
      /\ votedFor \in [Server -> [Server -> Members]]
      /\ nextIndex \in [Server -> [Server -> Nat]]
      /\ rv \in Calls(RVCall) /\ ae \in Calls(AECall)
      /\ Silent(rv, Down) /\ Silent(ae, Down)
      /\ commitIndex \in [Server -> Nat]
  BY DEF IInv, TypeInv, States, CallInv
<1>3. Up(s) /\ s \notin Down
  BY <1>1, <1>2 DEF Up, Down
<1>4. new \in Seq(LogEntry) /\ d \in File /\ Holds(d, currentTerm[s], votedFor[s][s], new)
  <2>1. vs \in Seq(Command) /\ Len(vs) \in Nat /\ log[s] \in Seq(LogEntry)
        /\ Len(log[s]) \in Nat
    BY BatchAssumption DEF IInv, TypeInv
  <2>2. \A x \in 1..Len(vs) : Entry(currentTerm[s], vs[x]) \in LogEntry
    BY <1>2, <2>1 DEF Entry, LogEntry
  <2>3. es \in Seq(LogEntry) /\ Len(es) = Len(vs)
    BY <2>1, <2>2
  <2> HIDE DEF es
  <2>4. Len(new) = Len(log[s]) + Len(es)
    BY <2>1, <2>3, ConcatLogs
  <2> HIDE DEF new
  <2>5. n \in Nat /\ (n = Len(es) \/ n = Len(log[s]) + Len(es))
    BY <2>1, <2>3, <2>4
  <2> HIDE DEF n
  <2> QED
    BY <1>3, <2>3, <2>5, BatchHolds DEF new
<1> HIDE DEF new, d
<1>5. Becomes(s, "leader", currentTerm[s], votedFor[s], new, d)
  BY <1>1, <1>2 DEF Becomes
<1>6. ServersKept /\ Down' = Down
  <2>1. "leader" \in States /\ currentTerm[s] >= currentTerm[s]
    BY <1>2 DEF States
  <2>2. /\ ServersKept
        /\ Down' = IF "leader" = "down" THEN Down \cup {s} ELSE Down \ {s}
    BY <2>1, <1>2, <1>4, <1>5, ServerStep
  <2> QED
    BY <2>2, <1>3
<1>7. /\ granted' \subseteq Server \X Server \X Nat /\ VotesOnce' /\ VotesKept'
  BY <1>1, <1>6, NoVote
<1>8. /\ ae' \in Calls(AECall) /\ Silent(ae', Down)
      /\ \A i, j \in Server, x \in Lane : i # s => ae'[i][j][x] = ae[i][j][x]
  BY <1>1, <1>2, <1>3, CallSets, SpawnCalls
<1>9. Prepared'
  BY <1>1, <1>8, PreparedKept
<1> QED
  BY <1>1, <1>2, <1>6, <1>7, <1>8, <1>9, Assemble

-----------------------------------------------------------------------------
(* The calls *)

LEMMA SendRequestVoteKeeps ==
    ASSUME IInv, NEW i \in Server, NEW j \in Server, NEW k \in Lane,
           SendRequestVote(i, j, k)
    PROVE  IInv' /\ TermsGrow
<1> DEFINE c == rv[i][j][k]
           new == [c EXCEPT !.pc = "sent", !.term = currentTerm[i],
                            !.lastLogIndex = Len(log[i]),
                            !.lastLogTerm = LastTerm(log[i])]
<1>1. /\ c.pc = "spawned" /\ rv' = [rv EXCEPT ![i][j][k] = new]
      /\ UNCHANGED <<state, currentTerm, log, commitIndex, votedFor, nextIndex,
                     disk, ae, granted>>
  BY DEF SendRequestVote, memberVars
<1>2. /\ rv \in Calls(RVCall) /\ Silent(rv, Down) /\ c \in RVCall
      /\ currentTerm[i] \in Nat /\ log[i] \in Seq(LogEntry) /\ Len(log[i]) \in Nat
  BY DEF IInv, TypeInv, CallInv, Calls
<1>3. LastTerm(log[i]) \in Nat
  BY <1>2, TermAtType DEF LastTerm
<1>4. new \in RVCall
  BY <1>2, <1>3 DEF RVCall, CallPC
<1>5. i # j /\ i \notin Down
  BY <1>1, <1>2 DEF Silent
<1> HIDE DEF new
<1>6. rv' \in Calls(RVCall) /\ Silent(rv', Down)
  BY <1>1, <1>2, <1>4, <1>5, PutCall
<1>7. /\ ServersKept /\ Down' = Down /\ VotesOnce' /\ VotesKept'
      /\ granted' \subseteq Server \X Server \X Nat
  BY <1>1, ServersStay
<1>8. Prepared'
  BY <1>1, PreparedKept
<1> QED
  BY <1>1, <1>6, <1>7, <1>8, Assemble DEF IInv, TypeInv, CallInv

LEMMA SendAppendEntriesKeeps ==
    ASSUME IInv, NEW i \in Server, NEW j \in Server, NEW k \in Lane,
           SendAppendEntries(i, j, k)
    PROVE  IInv' /\ TermsGrow
<1> DEFINE c == ae[i][j][k]
           prev == nextIndex[i][j] - 1
           l == log[i]
           last == Least({Len(l), prev + MaxEntries})
           new == [c EXCEPT !.pc = "sent", !.term = currentTerm[i],
                            !.prevLogIndex = prev, !.prevLogTerm = TermAt(l, prev),
                            !.entries = SubSeq(l, prev + 1, last),
                            !.leaderCommit = commitIndex[i]]
<1>1. /\ c.pc = "spawned"
      /\ UNCHANGED <<currentTerm, log, commitIndex, votedFor, nextIndex, disk, granted>>
      /\ \/ ae' = [ae EXCEPT ![i][j][k] = new] /\ UNCHANGED <<state, rv>>
         \/ Dies(i)
  BY DEF SendAppendEntries, memberVars
<1>2. /\ ae \in Calls(AECall) /\ Silent(ae, Down) /\ c \in AECall
      /\ currentTerm[i] \in Nat /\ l \in Seq(LogEntry)
      /\ commitIndex \in [Server -> Nat] /\ nextIndex[i][j] \in Nat
  BY DEF IInv, TypeInv, CallInv, Calls
<1>3. nextIndex[i][j] >= 1
  BY <1>1 DEF IInv, Prepared
<1>4. CASE Dies(i)
  BY <1>1, <1>2, <1>4, DiesKeeps
<1>5. CASE ae' = [ae EXCEPT ![i][j][k] = new] /\ UNCHANGED <<state, rv>>
  <2>1. prev \in Nat /\ commitIndex[i] \in Nat
    BY <1>2, <1>3
  <2>2. TermAt(l, prev) \in Nat
    BY <1>2, TermAtType
  <2> DEFINE es == SubSeq(l, prev + 1, last)
  <2> HIDE DEF prev
  <2>3. es \in Seq(LogEntry)
    <3>1. Len(l) \in Nat /\ prev + MaxEntries \in Nat
      BY <1>2, <2>1, MaxEntriesAssumption
    <3>2. last \in Nat /\ last <= Len(l)
      BY <3>1, LeastIn
    <3> HIDE DEF last
    <3> QED
      BY <1>2, <2>1, <3>2, SomeEntries
  <2> HIDE DEF es
  <2>4. new \in AECall /\ new.pc = "sent"
    <3> DEFINE pt == TermAt(l, prev)
    <3>1. pt \in Nat
      BY <2>2
    <3> HIDE DEF pt
    <3>2. new = [c EXCEPT !.pc = "sent", !.term = currentTerm[i],
                          !.prevLogIndex = prev, !.prevLogTerm = pt,
                          !.entries = es, !.leaderCommit = commitIndex[i]]
      BY DEF es, pt
    <3> HIDE DEF new
    <3> QED
      BY <3>1, <3>2, <1>2, <2>1, <2>3 DEF AECall, CallPC
  <2>5. i # j /\ i \notin Down
    BY <1>1, <1>2 DEF Silent
  <2> HIDE DEF new
  <2>6. ae' \in Calls(AECall) /\ Silent(ae', Down) /\ NoneNew(ae', ae)
    BY <1>2, <1>5, <2>4, <2>5, PutCall
  <2>7. /\ ServersKept /\ Down' = Down /\ VotesOnce' /\ VotesKept'
        /\ granted' \subseteq Server \X Server \X Nat
    BY <1>1, <1>5, ServersStay
  <2>8. \A a, b \in Server, x \in Lane :
           ae'[a][b][x].pc = "spawned" => ae[a][b][x].pc = "spawned"
    BY <2>6 DEF NoneNew
  <2>9. Prepared'
    BY <1>1, <1>5, <2>8, PreparedKept
  <2> QED
    BY <1>1, <1>2, <1>5, <2>6, <2>7, <2>9, Assemble DEF IInv, TypeInv, CallInv
<1> QED
  BY <1>1, <1>4, <1>5
LEMMA HandleRequestVoteRequestKeeps ==
    ASSUME IInv, NEW i \in Server, NEW j \in Server, NEW k \in Lane,
           HandleRequestVoteRequest(i, j, k)
    PROVE  IInv' /\ TermsGrow
<1> DEFINE c == rv[i][j][k]
           newer == UpdatesTerm(j, c.term)
           term == IF newer THEN c.term ELSE currentTerm[j]
           vote == IF newer THEN Nil ELSE votedFor[j][j]
           grant == c.term = term /\ LogOk(c, log[j]) /\ vote \in {Nil, i}
           newVote == IF grant THEN i ELSE vote
           st == IF newer THEN "follower" ELSE state[j]
           vs == [votedFor[j] EXCEPT ![j] = newVote]
           d == IF newer \/ grant THEN Page(disk[j], term, newVote, log[j]) ELSE disk[j]
           reply == [c EXCEPT !.pc = "replied", !.rterm = term, !.voteGranted = grant]
           new == IF c.pc = "orphan" THEN NoRV ELSE reply
<1>1. /\ Arrived(c) /\ Up(j)
      /\ currentTerm' = [currentTerm EXCEPT ![j] = term]
      /\ state' = [state EXCEPT ![j] = st]
      /\ votedFor' = [votedFor EXCEPT ![j][j] = newVote]
      /\ disk' = [disk EXCEPT ![j] = d]
      /\ granted' = IF grant THEN granted \cup {<<j, i, term>>} ELSE granted
      /\ rv' = [rv EXCEPT ![i][j][k] = new]
      /\ UNCHANGED <<log, commitIndex, nextIndex, ae>>
  BY DEF HandleRequestVoteRequest, memberVars
<1>2. /\ state \in [Server -> States] /\ currentTerm \in [Server -> Nat]
      /\ log \in [Server -> Seq(LogEntry)] /\ disk \in [Server -> File]
      /\ votedFor \in [Server -> [Server -> Members]]
      /\ nextIndex \in [Server -> [Server -> Nat]]
      /\ rv \in Calls(RVCall) /\ ae \in Calls(AECall)
      /\ Silent(rv, Down) /\ Silent(ae, Down) /\ commitIndex \in [Server -> Nat]
  BY DEF IInv, TypeInv, States, CallInv
<1>3. /\ c \in RVCall /\ c.term \in Nat /\ currentTerm[j] \in Nat /\ j \notin Down
      /\ votedFor[j][j] \in Members /\ Nil \in Members /\ i \in Members
  <2>1. c \in RVCall
    BY <1>2 DEF Calls
  <2> QED
    BY <2>1, <1>1, <1>2 DEF RVCall, Members, Up, Down
<1>4. /\ newer \in BOOLEAN /\ grant \in BOOLEAN
      /\ newer => term > currentTerm[j] /\ vote = Nil
      /\ ~newer => term = currentTerm[j] /\ vote = votedFor[j][j]
      /\ term \in Nat /\ vote \in Members /\ newVote \in Members
  <2>1. newer \in BOOLEAN /\ grant \in BOOLEAN
    BY DEF UpdatesTerm, LogOk
  <2>2. /\ newer => term > currentTerm[j] /\ vote = Nil
        /\ ~newer => term = currentTerm[j] /\ vote = votedFor[j][j]
    BY DEF UpdatesTerm
  <2>3. term \in Nat /\ vote \in Members
    BY <1>3
  <2> QED
    BY <2>1, <2>2, <2>3, <1>3
<1>5. d \in File /\ Holds(d, term, newVote, log[j])
  <2>1. Holds(disk[j], currentTerm[j], votedFor[j][j], log[j])
    BY <1>1 DEF IInv, FileInv
  <2>2. CASE newer \/ grant
    <3> HIDE DEF newer, grant, term, newVote
    <3>1. d = Page(disk[j], term, newVote, log[j])
      BY <2>2
    <3> QED
      BY <3>1, <2>1, <1>2, <1>4, PageHolds
  <2>3. CASE ~(newer \/ grant)
    <3>1. d = disk[j] /\ term = currentTerm[j] /\ newVote = votedFor[j][j]
      BY <2>3
    <3> HIDE DEF d, term, newVote
    <3> QED
      BY <3>1, <2>1, <1>2
  <2> QED
    BY <2>2, <2>3
<1>6. st \in States /\ st # "down" /\ (st = "leader" => state[j] = "leader")
  BY <1>1, <1>2 DEF States, Up
<1>7. new \in RVCall /\ (i = j => new.pc = "idle")
      /\ (i \in Down => new.pc \in {"idle", "orphan"})
  <2>1. NoRV \in RVCall /\ NoRV.pc = "idle"
    BY CallSets DEF CallSet
  <2>2. reply \in RVCall
    <3> HIDE DEF c, term, grant
    <3> QED
      BY <1>3, <1>4 DEF RVCall, CallPC
  <2>3. i # j /\ (i \in Down => c.pc = "orphan")
    BY <1>1, <1>2 DEF Silent, Arrived
  <2> HIDE DEF reply, NoRV
  <2> QED
    BY <2>1, <2>2, <2>3
<1> HIDE DEF new
<1>8. rv' \in Calls(RVCall) /\ Silent(rv', Down)
  <2> HIDE DEF c
  <2> QED
    BY <1>1, <1>2, <1>7, PutCall
<1>9. /\ vs \in [Server -> Members] /\ vs[j] = newVote
      /\ votedFor' = [votedFor EXCEPT ![j] = vs]
  <2> HIDE DEF newVote
  <2> QED
    BY <1>1, <1>2, <1>4
<1>10. /\ currentTerm'[j] = term /\ votedFor'[j][j] = newVote /\ state'[j] = st
       /\ \A u \in Server \ {j} : /\ currentTerm'[u] = currentTerm[u]
                                  /\ votedFor'[u][u] = votedFor[u][u]
                                  /\ state'[u] = state[u]
  <2> HIDE DEF newVote, term, st
  <2> QED
    BY <1>1, <1>2, <1>9
<1>11. ServersKept /\ Down' = Down
  <2>1. log' = [log EXCEPT ![j] = log[j]] /\ log[j] \in Seq(LogEntry)
    BY <1>1, <1>2
  <2>2. term >= currentTerm[j]
    BY <1>3, <1>4
  <2> HIDE DEF newVote, term, st, vs, d
  <2>3. Becomes(j, st, term, vs, log[j], d)
    BY <1>1, <1>9, <2>1 DEF Becomes
  <2>4. ServersKept /\ Down' = IF st = "down" THEN Down \cup {j} ELSE Down \ {j}
    BY <2>1, <2>2, <2>3, <1>4, <1>5, <1>6, <1>9, ServerStep
  <2> QED
    BY <2>4, <1>3, <1>6
<1>12. /\ granted' \subseteq Server \X Server \X Nat /\ VotesOnce' /\ VotesKept'
  <2>1. CASE grant
    <3>1. newVote = i /\ granted' = granted \cup {<<j, i, term>>}
      BY <2>1, <1>1
    <3>2. term = currentTerm[j] => votedFor[j][j] \in {Nil, i}
      BY <2>1, <1>3, <1>4
    <3> HIDE DEF newVote, term
    <3> QED
      BY <3>1, <3>2, <1>4, <1>10, <1>11, VoteCast
  <2>2. CASE ~grant
    <3>1. granted' = granted /\ newVote = vote
      BY <2>2, <1>1
    <3>2. term = currentTerm[j] => newVote = votedFor[j][j]
      BY <3>1, <1>3, <1>4
    <3> HIDE DEF newVote, term
    <3> QED
      BY <3>1, <3>2, <1>10, <1>11, NoVote
  <2> QED
    BY <2>1, <2>2
<1>13. Prepared'
  <2> HIDE DEF st
  <2> QED
    BY <1>1, <1>6, <1>10, PreparedKept
<1> QED
  BY <1>1, <1>2, <1>8, <1>11, <1>12, <1>13, Assemble

\* A server learns of a newer term.
LEMMA StepsDownKeeps ==
    ASSUME IInv, NEW s \in Server, Up(s), NEW t \in Nat, StepsDown(s, t),
           UNCHANGED <<log, granted>>
    PROVE  /\ ServersKept /\ Down' = Down /\ VotesOnce' /\ VotesKept'
           /\ granted' \subseteq Server \X Server \X Nat
           /\ \A i \in Server : state'[i] = "leader" => state[i] = "leader"
<1> DEFINE vs == [votedFor[s] EXCEPT ![s] = Nil]
           d == Page(disk[s], t, Nil, log[s])
<1>1. /\ state \in [Server -> States] /\ currentTerm \in [Server -> Nat]
      /\ log \in [Server -> Seq(LogEntry)] /\ disk \in [Server -> File]
      /\ votedFor \in [Server -> [Server -> Members]]
      /\ Holds(disk[s], currentTerm[s], votedFor[s][s], log[s]) /\ s \notin Down
  BY DEF IInv, TypeInv, States, FileInv, Down, Up
<1>2. /\ t > currentTerm[s] /\ vs \in [Server -> Members] /\ vs[s] = Nil
      /\ Nil \in Members
  BY <1>1 DEF StepsDown, UpdatesTerm, Members
<1>3. d \in File /\ Holds(d, t, Nil, log[s])
  BY <1>1, <1>2, PageHolds
<1>4. Becomes(s, "follower", t, vs, log[s], d)
  BY <1>1 DEF StepsDown, Becomes
<1> HIDE DEF vs, d
<1>5. ServersKept /\ Down' = Down
  <2>1. "follower" \in States /\ t >= currentTerm[s] /\ log[s] \in Seq(LogEntry)
    BY <1>1, <1>2 DEF States
  <2>2. /\ ServersKept
        /\ Down' = IF "follower" = "down" THEN Down \cup {s} ELSE Down \ {s}
    BY <2>1, <1>2, <1>3, <1>4, ServerStep
  <2> QED
    BY <2>2, <1>1
<1>6. /\ \A u \in Server : currentTerm'[u] = currentTerm[u] =>
            votedFor'[u][u] = votedFor[u][u]
      /\ \A i \in Server : state'[i] = "leader" => state[i] = "leader"
  BY <1>1, <1>2, <1>4 DEF Becomes
<1> QED
  BY <1>5, <1>6, NoVote

LEMMA RequestVoteResponseKeeps ==
    ASSUME IInv, NEW i \in Server, NEW j \in Server, NEW k \in Lane,
           RequestVoteResponse(i, j, k)
    PROVE  IInv' /\ TermsGrow
<1> DEFINE c == rv[i][j][k]
           v == IF c.rterm = c.term /\ c.voteGranted THEN i ELSE votedFor[i][j]
           vs == [votedFor[i] EXCEPT ![j] = v]
<1>1. /\ c.pc = "replied" /\ rv' = [rv EXCEPT ![i][j][k] = NoRV]
      /\ UNCHANGED <<log, commitIndex, nextIndex, ae, granted>>
      /\ \/ StepsDown(i, c.rterm)
         \/ /\ votedFor' = [votedFor EXCEPT ![i][j] = v]
            /\ UNCHANGED <<currentTerm, state, disk>>
  BY DEF RequestVoteResponse, memberVars
<1>2. /\ state \in [Server -> States] /\ currentTerm \in [Server -> Nat]
      /\ log \in [Server -> Seq(LogEntry)] /\ disk \in [Server -> File]
      /\ votedFor \in [Server -> [Server -> Members]]
      /\ nextIndex \in [Server -> [Server -> Nat]]
      /\ rv \in Calls(RVCall) /\ ae \in Calls(AECall)
      /\ Silent(rv, Down) /\ Silent(ae, Down) /\ commitIndex \in [Server -> Nat]
  BY DEF IInv, TypeInv, States, CallInv
<1>3. /\ c \in RVCall /\ c.rterm \in Nat /\ i # j /\ i \notin Down /\ Up(i)
  <2>1. c \in RVCall
    BY <1>2 DEF Calls
  <2>2. i # j /\ i \notin Down
    BY <1>1, <1>2 DEF Silent
  <2> QED
    BY <2>1, <2>2 DEF RVCall, Up, Down
<1>4. rv' \in Calls(RVCall) /\ Silent(rv', Down)
  <2>1. NoRV \in RVCall /\ NoRV.pc = "idle"
    BY CallSets DEF CallSet
  <2> HIDE DEF NoRV
  <2> QED
    BY <2>1, <1>1, <1>2, PutCall
<1>5. /\ ServersKept /\ Down' = Down /\ VotesOnce' /\ VotesKept'
      /\ granted' \subseteq Server \X Server \X Nat
      /\ \A a \in Server : state'[a] = "leader" => state[a] = "leader"
  <2>1. CASE StepsDown(i, c.rterm)
    BY <2>1, <1>1, <1>3, StepsDownKeeps
  <2>2. CASE /\ votedFor' = [votedFor EXCEPT ![i][j] = v]
             /\ UNCHANGED <<currentTerm, state, disk>>
    <3>1. v \in Members
      BY <1>2 DEF Members
    <3> HIDE DEF v
    <3>2. /\ vs \in [Server -> Members] /\ vs[i] = votedFor[i][i]
          /\ votedFor' = [votedFor EXCEPT ![i] = vs]
      BY <3>1, <2>2, <1>2, <1>3
    <3> HIDE DEF vs
    <3>3. Becomes(i, state[i], currentTerm[i], vs, log[i], disk[i])
      BY <3>2, <2>2, <1>1, <1>2 DEF Becomes
    <3>4. /\ Holds(disk[i], currentTerm[i], vs[i], log[i]) /\ state[i] # "down"
          /\ currentTerm[i] >= currentTerm[i]
      BY <3>2, <1>2, <1>3 DEF IInv, FileInv, Up
    <3>5. ServersKept /\ Down' = IF state[i] = "down" THEN Down \cup {i} ELSE Down \ {i}
      BY <3>2, <3>3, <3>4, <1>2, ServerStep
    <3>6. \A u \in Server : votedFor'[u][u] = votedFor[u][u]
      BY <3>2, <1>2
    <3>7. VotesOnce' /\ VotesKept' /\ granted' \subseteq Server \X Server \X Nat
      BY <3>5, <3>6, <1>1, NoVote
    <3> QED
      BY <3>4, <3>5, <3>7, <2>2, <1>3
  <2> QED
    BY <1>1, <2>1, <2>2
<1>6. Prepared'
  BY <1>1, <1>5, PreparedKept
<1> QED
  BY <1>1, <1>2, <1>4, <1>5, <1>6, Assemble
LEMMA HandleAppendEntriesRequestKeeps ==
    ASSUME IInv, NEW i \in Server, NEW j \in Server, NEW k \in Lane,
           HandleAppendEntriesRequest(i, j, k)
    PROVE  IInv' /\ TermsGrow
<1> DEFINE c == ae[i][j][k]
           l == log[j]
           prev == c.prevLogIndex
           es == c.entries
           newer == UpdatesTerm(j, c.term)
           term == IF newer THEN c.term ELSE currentTerm[j]
           vote == IF newer THEN Nil ELSE votedFor[j][j]
           st == IF newer \/ (c.term = term /\ state[j] = "candidate")
                 THEN "follower" ELSE state[j]
           success == /\ st = "follower" /\ c.term = term
                      /\ prev = 0 \/ (prev <= Len(l) /\ l[prev].term = c.prevLogTerm)
           n == IF success THEN NumNew(l, prev, es) ELSE 0
           kept == Len(es) - n
           newLog == IF n = 0 THEN l
                     ELSE SubSeq(l, 1, prev + kept) \o SubSeq(es, kept + 1, Len(es))
           commit == IF success /\ c.leaderCommit > commitIndex[j]
                     THEN Least({c.leaderCommit, Len(newLog)}) ELSE commitIndex[j]
           d == CASE n > 0 -> PersistLog(disk[j], term, vote, newLog, n)
                  [] n = 0 /\ (newer \/ success) -> Page(disk[j], term, vote, newLog)
                  [] OTHER -> disk[j]
           vs == [votedFor[j] EXCEPT ![j] = vote]
           reply == [c EXCEPT !.pc = "replied", !.rterm = term, !.success = success]
           new == IF c.pc = "orphan" THEN NoAE ELSE reply
<1>1. /\ Arrived(c) /\ Up(j)
      /\ currentTerm' = [currentTerm EXCEPT ![j] = term]
      /\ state' = [state EXCEPT ![j] = st]
      /\ votedFor' = [votedFor EXCEPT ![j][j] = vote]
      /\ log' = [log EXCEPT ![j] = newLog]
      /\ commitIndex' = [commitIndex EXCEPT ![j] = commit]
      /\ disk' = [disk EXCEPT ![j] = d]
      /\ ae' = [ae EXCEPT ![i][j][k] = new]
      /\ UNCHANGED <<nextIndex, rv, granted>>
  BY DEF HandleAppendEntriesRequest, memberVars
<1>2. /\ state \in [Server -> States] /\ currentTerm \in [Server -> Nat]
      /\ log \in [Server -> Seq(LogEntry)] /\ disk \in [Server -> File]
      /\ votedFor \in [Server -> [Server -> Members]]
      /\ nextIndex \in [Server -> [Server -> Nat]]
      /\ rv \in Calls(RVCall) /\ ae \in Calls(AECall)
      /\ Silent(rv, Down) /\ Silent(ae, Down) /\ commitIndex \in [Server -> Nat]
  BY DEF IInv, TypeInv, States, CallInv
<1>3. /\ c \in AECall /\ c.term \in Nat /\ prev \in Nat /\ es \in Seq(LogEntry)
      /\ c.leaderCommit \in Nat /\ currentTerm[j] \in Nat /\ j \notin Down
      /\ votedFor[j][j] \in Members /\ Nil \in Members /\ l \in Seq(LogEntry)
      /\ Len(l) \in Nat /\ Len(es) \in Nat
  <2>1. c \in AECall
    BY <1>2 DEF Calls
  <2>2. /\ c.term \in Nat /\ prev \in Nat /\ es \in Seq(LogEntry)
        /\ c.leaderCommit \in Nat
    BY <2>1 DEF AECall
  <2>3. /\ currentTerm[j] \in Nat /\ j \notin Down /\ votedFor[j][j] \in Members
        /\ Nil \in Members /\ l \in Seq(LogEntry)
    <3>1. Nil \in Members
      BY DEF Members
    <3>2. j \notin Down
      BY <1>1 DEF Up, Down
    <3> QED
      BY <3>1, <3>2, <1>2
  <2> HIDE DEF c, prev, es, l
  <2>4. Len(l) \in Nat /\ Len(es) \in Nat
    BY <2>2, <2>3
  <2> QED
    BY <2>1, <2>2, <2>3, <2>4
<1>4. /\ newer \in BOOLEAN /\ success \in BOOLEAN
      /\ newer => term > currentTerm[j]
      /\ ~newer => term = currentTerm[j] /\ vote = votedFor[j][j]
      /\ term \in Nat /\ vote \in Members /\ term >= currentTerm[j]
  BY <1>3 DEF UpdatesTerm
<1>5. st \in States /\ st # "down" /\ (st = "leader" => state[j] = "leader")
  BY <1>1, <1>2 DEF States, Up
<1>6. success => prev <= Len(l)
  BY <1>3
<1> HIDE DEF newer, success, st, term, vote
<1>7. /\ n \in Nat /\ newLog \in Seq(LogEntry) /\ (n = 0 => newLog = l)
      /\ n > 0 => /\ n \in 0..Len(newLog) /\ Len(newLog) - n <= Len(l)
                  /\ \A x \in 1..(Len(newLog) - n) : newLog[x] = l[x]
  <2>1. CASE ~success
    BY <2>1, <1>3
  <2>2. CASE success /\ n = 0
    BY <2>2, <1>3
  <2>3. CASE success /\ n # 0
    <3>1. n = NumNew(l, prev, es)
      BY <2>3
    <3>2. n \in 0..Len(es) /\ prev + (Len(es) - n) <= Len(l)
      BY <3>1, <2>3, <1>3, <1>6, NumNewBound
    <3> HIDE DEF n, l, prev, es, c
    <3> DEFINE m == prev + kept
    <3>3. kept \in 0..Len(es) /\ m \in 0..Len(l) /\ m \in Nat /\ Len(es) - kept = n
      BY <3>2, <1>3
    <3>4. newLog = Replaced(l, m, es, kept)
      BY <2>3 DEF Replaced
    <3> HIDE DEF newLog, kept, m
    <3>5. /\ newLog \in Seq(LogEntry) /\ Len(newLog) = m + (Len(es) - kept)
          /\ \A x \in 1..m : newLog[x] = l[x]
      <4>1. /\ l \in Seq(LogEntry) /\ es \in Seq(LogEntry) /\ m \in 0..Len(l)
            /\ kept \in 0..Len(es)
        BY <3>3, <1>3
      <4> QED
        BY <4>1, <3>4, ReplacedLog
    <3>6. Len(newLog) = m + n /\ n \in Nat /\ n # 0
      BY <3>2, <3>3, <3>5, <2>3
    <3> QED
      BY <3>3, <3>5, <3>6
  <2> QED
    BY <2>1, <2>2, <2>3, <1>4
<1>8. n # 0 => success
  OBVIOUS
<1> HIDE DEF n, newLog
<1>9. d \in File /\ Holds(d, term, vote, newLog)
  <2>1. Holds(disk[j], currentTerm[j], votedFor[j][j], l) /\ disk[j] \in File
    BY <1>1, <1>2 DEF IInv, FileInv
  <2>2. CASE n > 0
    <3>1. d = PersistLog(disk[j], term, vote, newLog, n)
      BY <2>2, <1>7
    <3> HIDE DEF d, l
    <3> QED
      BY <3>1, <2>1, <2>2, <1>3, <1>4, <1>7, PersistLogHolds
  <2>3. CASE n = 0 /\ (newer \/ success)
    <3>1. d = Page(disk[j], term, vote, l) /\ newLog = l
      BY <2>3, <1>7
    <3> HIDE DEF d, l
    <3> QED
      BY <3>1, <2>1, <1>3, <1>4, PageHolds
  <2>4. CASE n = 0 /\ ~(newer \/ success)
    <3>1. d = disk[j] /\ newLog = l /\ term = currentTerm[j] /\ vote = votedFor[j][j]
      BY <2>4, <1>4, <1>7
    <3> HIDE DEF d, l
    <3> QED
      BY <3>1, <2>1
  <2> QED
    BY <2>2, <2>3, <2>4, <1>7
<1> HIDE DEF d
<1>10. commitIndex' \in [Server -> Nat]
  <2>1. Len(newLog) \in Nat
    BY <1>7
  <2>2. Least({c.leaderCommit, Len(newLog)}) \in {c.leaderCommit, Len(newLog)}
    <3>1. {c.leaderCommit, Len(newLog)} \in SUBSET Nat
      BY <2>1, <1>3
    <3> QED
      BY <3>1, LeastIn
  <2>3. commit \in Nat
    BY <2>1, <2>2, <1>2, <1>3
  <2> HIDE DEF commit
  <2> QED
    BY <2>3, <1>1, <1>2
<1>11. new \in AECall /\ (i = j => new.pc = "idle")
       /\ (i \in Down => new.pc \in {"idle", "orphan"})
       /\ new.pc # "spawned"
  <2>1. NoAE \in AECall /\ NoAE.pc = "idle"
    BY CallSets DEF CallSet
  <2>2. reply \in AECall /\ reply.pc = "replied"
    <3> HIDE DEF c
    <3> QED
      BY <1>3, <1>4 DEF AECall, CallPC
  <2>3. i # j /\ (i \in Down => c.pc = "orphan")
    BY <1>1, <1>2 DEF Silent, Arrived
  <2> HIDE DEF reply, NoAE
  <2> QED
    BY <2>1, <2>2, <2>3
<1> HIDE DEF new
<1>12. /\ ae' \in Calls(AECall) /\ Silent(ae', Down)
       /\ \A a, b \in Server, x \in Lane :
             ae'[a][b][x].pc = "spawned" => ae[a][b][x].pc = "spawned"
  <2>1. ae' = [ae EXCEPT ![i][j][k] = new]
    BY <1>1
  <2>2. ae' \in Calls(AECall) /\ Silent(ae', Down) /\ NoneNew(ae', ae)
    BY <2>1, <1>2, <1>11, PutCall
  <2> QED
    BY <2>2 DEF NoneNew
<1>13. /\ vs \in [Server -> Members] /\ vs[j] = vote
       /\ votedFor' = [votedFor EXCEPT ![j] = vs]
  BY <1>1, <1>2, <1>4
<1> HIDE DEF vs
<1>14. ServersKept /\ Down' = Down
  <2>1. Becomes(j, st, term, vs, newLog, d)
    BY <1>1, <1>13 DEF Becomes
  <2>2. ServersKept /\ Down' = IF st = "down" THEN Down \cup {j} ELSE Down \ {j}
    BY <2>1, <1>4, <1>5, <1>7, <1>9, <1>13, ServerStep
  <2> QED
    BY <2>2, <1>3, <1>5
<1>15. /\ granted' \subseteq Server \X Server \X Nat /\ VotesOnce' /\ VotesKept'
  <2>1. \A u \in Server : currentTerm'[u] = currentTerm[u] =>
           votedFor'[u][u] = votedFor[u][u]
    <3>1. /\ currentTerm'[j] = term /\ votedFor'[j][j] = vote
          /\ \A u \in Server \ {j} : votedFor'[u][u] = votedFor[u][u]
      BY <1>1, <1>2, <1>13
    <3>2. term = currentTerm[j] => vote = votedFor[j][j]
      BY <1>3, <1>4
    <3> QED
      BY <3>1, <3>2
  <2> QED
    BY <2>1, <1>1, <1>14, NoVote
<1>16. Prepared'
  <2>1. \A a \in Server : state'[a] = "leader" => state[a] = "leader"
    BY <1>1, <1>2, <1>5
  <2> QED
    BY <2>1, <1>1, <1>12, PreparedKept
<1> QED
  BY <1>1, <1>2, <1>10, <1>12, <1>14, <1>15, <1>16, Assemble

LEMMA AppendEntriesResponseKeeps ==
    ASSUME IInv, NEW i \in Server, NEW j \in Server, NEW k \in Lane,
           AppendEntriesResponse(i, j, k)
    PROVE  IInv' /\ TermsGrow
<1> DEFINE c == ae[i][j][k]
           next == IF c.success THEN c.prevLogIndex + Len(c.entries) + 1
                   ELSE Greatest({nextIndex[i][j] - 1, 1})
<1>1. /\ c.pc = "replied" /\ ae' = [ae EXCEPT ![i][j][k] = NoAE]
      /\ UNCHANGED <<log, commitIndex, rv, granted>>
      /\ \/ StepsDown(i, c.rterm) /\ UNCHANGED nextIndex
         \/ /\ UNCHANGED <<currentTerm, state, votedFor, disk>>
            /\ UNCHANGED nextIndex \/ nextIndex' = [nextIndex EXCEPT ![i][j] = next]
  BY DEF AppendEntriesResponse, memberVars
<1>2. /\ nextIndex \in [Server -> [Server -> Nat]]
      /\ rv \in Calls(RVCall) /\ ae \in Calls(AECall)
      /\ Silent(rv, Down) /\ Silent(ae, Down) /\ commitIndex \in [Server -> Nat]
  BY DEF IInv, TypeInv, CallInv
<1>3. /\ c \in AECall /\ c.rterm \in Nat /\ c.prevLogIndex \in Nat
      /\ c.entries \in Seq(LogEntry) /\ i \notin Down /\ Up(i)
  <2>1. c \in AECall
    BY <1>2 DEF Calls
  <2>2. i \notin Down
    BY <1>1, <1>2 DEF Silent
  <2> QED
    BY <2>1, <2>2 DEF AECall, Up, Down
<1>4. next \in Nat /\ next >= 1
  <2>1. CASE c.success
    <3>1. next = c.prevLogIndex + Len(c.entries) + 1
      BY <2>1
    <3> HIDE DEF c, next
    <3>2. Len(c.entries) \in Nat
      BY <1>3
    <3> QED
      BY <3>1, <3>2, <1>3
  <2>2. CASE ~c.success
    <3> DEFINE p == nextIndex[i][j] - 1
    <3>1. p \in Int
      BY <1>2
    <3> HIDE DEF p
    <3>2. PICK m \in {p, 1} : \A x \in {p, 1} : m >= x
      <4>1. CASE p >= 1
        BY <4>1, <3>1
      <4>2. CASE p < 1
        BY <4>2, <3>1
      <4> QED
        BY <4>1, <4>2, <3>1
    <3>3. Greatest({p, 1}) \in {p, 1} /\ \A x \in {p, 1} : Greatest({p, 1}) >= x
      BY <3>2 DEF Greatest
    <3>4. next = Greatest({p, 1})
      BY <2>2 DEF p
    <3> HIDE DEF next
    <3> QED
      BY <3>1, <3>3, <3>4
  <2> QED
    BY <2>1, <2>2
<1> HIDE DEF next
<1>5. /\ ae' \in Calls(AECall) /\ Silent(ae', Down)
      /\ \A a, b \in Server, x \in Lane :
            ae'[a][b][x].pc = "spawned" => ae[a][b][x].pc = "spawned"
  <2>1. NoAE \in AECall /\ NoAE.pc = "idle" /\ ae' = [ae EXCEPT ![i][j][k] = NoAE]
    BY <1>1, CallSets DEF CallSet
  <2> HIDE DEF NoAE
  <2>2. ae' \in Calls(AECall) /\ Silent(ae', Down) /\ NoneNew(ae', ae)
    BY <2>1, <1>2, PutCall
  <2> QED
    BY <2>2 DEF NoneNew
<1>6. /\ ServersKept /\ Down' = Down /\ VotesOnce' /\ VotesKept'
      /\ granted' \subseteq Server \X Server \X Nat
      /\ \A a \in Server : state'[a] = "leader" => state[a] = "leader"
  <2>1. CASE StepsDown(i, c.rterm)
    BY <2>1, <1>1, <1>3, StepsDownKeeps
  <2>2. CASE UNCHANGED <<currentTerm, state, votedFor, disk>>
    BY <2>2, <1>1, ServersStay
  <2> QED
    BY <1>1, <2>1, <2>2
<1>7. nextIndex' \in [Server -> [Server -> Nat]] /\ Prepared'
  <2>1. CASE UNCHANGED nextIndex
    BY <2>1, <1>2, <1>5, <1>6, PreparedKept
  <2>2. CASE nextIndex' = [nextIndex EXCEPT ![i][j] = next]
    <3>1. /\ nextIndex' \in [Server -> [Server -> Nat]]
          /\ \A a, b \in Server :
                nextIndex'[a][b] = IF a = i /\ b = j THEN next ELSE nextIndex[a][b]
      BY <2>2, <1>2, <1>4
    <3>2. Prepared'
      BY <3>1, <1>4, <1>5, <1>6 DEF IInv, Prepared
    <3> QED
      BY <3>1, <3>2
  <2> QED
    BY <1>1, <2>1, <2>2
<1> QED
  BY <1>1, <1>2, <1>5, <1>6, <1>7, Assemble
-----------------------------------------------------------------------------
(* Crashes *)

LEMMA CrashKeeps ==
    ASSUME IInv, NEW s \in Server, Crash(s)
    PROVE  IInv' /\ TermsGrow
<1> DEFINE f == disk[s]
           st == IF Restorable(f) THEN "follower" ELSE "down"
           vs == [j \in Server |-> IF j = s THEN f.votedFor ELSE Nil]
           l == IF Restorable(f) THEN RestoredLog(f) ELSE <<>>
           next == [j \in Server |-> 0]
<1>1. /\ Up(s)
      /\ currentTerm' = [currentTerm EXCEPT ![s] = f.term]
      /\ votedFor' = [votedFor EXCEPT ![s] = vs]
      /\ log' = [log EXCEPT ![s] = l]
      /\ state' = [state EXCEPT ![s] = st]
      /\ commitIndex' = [commitIndex EXCEPT ![s] = 0]
      /\ nextIndex' = [nextIndex EXCEPT ![s] = next]
      /\ rv' = Disconnected(rv, s, NoRV) /\ ae' = Disconnected(ae, s, NoAE)
      /\ UNCHANGED <<disk, granted>>
  BY DEF Crash, Restore
<1>2. /\ state \in [Server -> States] /\ currentTerm \in [Server -> Nat]
      /\ log \in [Server -> Seq(LogEntry)] /\ disk \in [Server -> File]
      /\ votedFor \in [Server -> [Server -> Members]]
      /\ nextIndex \in [Server -> [Server -> Nat]]
      /\ rv \in Calls(RVCall) /\ ae \in Calls(AECall)
      /\ Silent(rv, Down) /\ Silent(ae, Down) /\ commitIndex \in [Server -> Nat]
      /\ Holds(f, currentTerm[s], votedFor[s][s], log[s])
  BY <1>1 DEF IInv, TypeInv, States, CallInv, FileInv
<1>3. /\ f \in File /\ f.term = currentTerm[s] /\ f.votedFor = votedFor[s][s]
      /\ currentTerm[s] \in Nat /\ votedFor[s][s] \in Members /\ log[s] \in Seq(LogEntry)
  BY <1>2 DEF Holds
<1>4. /\ st \in States /\ st # "leader"
      /\ st # "down" => l = log[s]
      /\ l \in Seq(LogEntry)
  <2>1. RestoredLog(f) = log[s]
    BY <1>2, <1>3, RestoreHolds
  <2>2. <<>> \in Seq(LogEntry)
    OBVIOUS
  <2> QED
    BY <2>1, <2>2, <1>3 DEF States
<1>5. vs \in [Server -> Members] /\ vs[s] = votedFor[s][s]
  <2>1. Nil \in Members
    BY DEF Members
  <2> QED
    BY <2>1, <1>3
<1>6. /\ next \in [Server -> Nat] /\ nextIndex' \in [Server -> [Server -> Nat]]
      /\ commitIndex' \in [Server -> Nat]
      /\ \A i \in Server \ {s} : nextIndex'[i] = nextIndex[i]
  BY <1>1, <1>2
<1> HIDE DEF f, st, vs, l
<1>7. /\ ServersKept
      /\ Down' = IF st = "down" THEN Down \cup {s} ELSE Down \ {s}
  <2>1. Becomes(s, st, currentTerm[s], vs, l, f)
    <3>1. disk' = [disk EXCEPT ![s] = f]
      BY <1>1, <1>2 DEF f
    <3> QED
      BY <3>1, <1>1, <1>3 DEF Becomes
  <2>2. /\ currentTerm[s] >= currentTerm[s]
        /\ st # "down" => Holds(f, currentTerm[s], vs[s], l)
    BY <1>2, <1>3, <1>4, <1>5
  <2> QED
    BY <2>1, <2>2, <1>3, <1>4, <1>5, ServerStep
<1>8. Down' \subseteq Down \cup {s}
  BY <1>7
<1>9. rv' \in Calls(RVCall) /\ Silent(rv', Down')
  <2>1. rv' \in Calls(RVCall) /\ Silent(rv', Down \cup {s})
    BY <1>1, <1>2, CallSets, DisconnectedCalls
  <2> QED
    BY <2>1, <1>8, SilentFewer
<1>10. ae' \in Calls(AECall) /\ Silent(ae', Down') /\ NoneStarts(ae', ae, s)
  <2>1. /\ ae' \in Calls(AECall) /\ Silent(ae', Down \cup {s})
        /\ NoneStarts(ae', ae, s)
    BY <1>1, <1>2, CallSets, DisconnectedCalls
  <2> QED
    BY <2>1, <1>8, SilentFewer
<1>11. /\ granted' \subseteq Server \X Server \X Nat /\ VotesOnce' /\ VotesKept'
  <2>1. \A u \in Server : votedFor'[u][u] = votedFor[u][u]
    BY <1>1, <1>2, <1>5
  <2> QED
    BY <2>1, <1>1, <1>7, NoVote
<1>12. Prepared'
  <2> SUFFICES ASSUME NEW i \in Server, NEW j \in Server,
                      state'[i] = "leader" \/ \E k \in Lane : ae'[i][j][k].pc = "spawned"
               PROVE  nextIndex'[i][j] >= 1
    BY DEF Prepared
  <2>1. i # s
    <3>1. state'[s] = st
      BY <1>1, <1>2
    <3> QED
      BY <3>1, <1>4, <1>10 DEF NoneStarts
  <2>2. state'[i] = state[i] /\ nextIndex'[i] = nextIndex[i]
    BY <2>1, <1>1, <1>2
  <2>3. state[i] = "leader" \/ \E k \in Lane : ae[i][j][k].pc = "spawned"
    BY <2>2, <1>10 DEF NoneStarts
  <2> QED
    BY <2>2, <2>3 DEF IInv, Prepared
<1> QED
  BY <1>6, <1>7, <1>9, <1>10, <1>11, <1>12, Assemble

-----------------------------------------------------------------------------
(* The theorems *)

LEMMA InitHolds == Init => IInv
<1> SUFFICES ASSUME Init PROVE IInv
  OBVIOUS
<1>1. NoFile \in File /\ Holds(NoFile, 0, Nil, <<>>)
  BY DEF NoFile, File, Holds, Members
<1>2. NoRV \in RVCall /\ NoRV.pc = "idle" /\ NoAE \in AECall /\ NoAE.pc = "idle"
  BY CallSets DEF CallSet
<1> HIDE DEF NoFile, NoRV, NoAE
<1>3. /\ rv \in Calls(RVCall) /\ ae \in Calls(AECall)
      /\ \A i, j \in Server, k \in Lane : rv[i][j][k] = NoRV /\ ae[i][j][k] = NoAE
  BY <1>2 DEF Init, Calls
<1>4. TypeInv
  <2>1. Nil \in Members
    BY DEF Members
  <2> QED
    BY <2>1, <1>1, <1>3 DEF Init, TypeInv
<1>5. FileInv
  BY <1>1 DEF Init, FileInv
<1>6. CallInv
  BY <1>2, <1>3 DEF CallInv, Silent
<1>7. Prepared
  BY <1>2, <1>3 DEF Init, Prepared
<1>8. VotesOnce /\ VotesKept
  BY DEF Init, VotesOnce, VotesKept
<1> QED
  BY <1>4, <1>5, <1>6, <1>7, <1>8 DEF IInv

LEMMA NextKeeps == IInv /\ [Next]_vars => IInv' /\ TermsGrow
<1> SUFFICES ASSUME IInv, [Next]_vars PROVE IInv' /\ TermsGrow
  OBVIOUS
<1>1. ASSUME NEW s \in Server,
             LoopReads(s) \/ BecomeLeader(s) \/ AdvanceCommitIndex(s) \/ Crash(s)
      PROVE  IInv' /\ TermsGrow
  <2>1. CASE LoopReads(s)
    BY <2>1, StutterKeeps DEF LoopReads, memberVars
  <2> QED
    BY <1>1, <2>1, BecomeLeaderKeeps, AdvanceCommitIndexKeeps, CrashKeeps
<1>2. ASSUME NEW s \in Server, NEW k \in Lane,
             Timeout(s, k) \/ Heartbeat(s, k) \/ \E vs \in Batch : Apply(s, vs, k)
      PROVE  IInv' /\ TermsGrow
  BY <1>2, TimeoutKeeps, HeartbeatKeeps, ApplyKeeps
<1>3. ASSUME NEW i \in Server, NEW j \in Server, NEW k \in Lane,
             \/ SendRequestVote(i, j, k) \/ HandleRequestVoteRequest(i, j, k)
             \/ RequestVoteResponse(i, j, k) \/ SendAppendEntries(i, j, k)
             \/ HandleAppendEntriesRequest(i, j, k)
             \/ AppendEntriesResponse(i, j, k)
      PROVE  IInv' /\ TermsGrow
  BY <1>3, SendRequestVoteKeeps, HandleRequestVoteRequestKeeps,
     RequestVoteResponseKeeps, SendAppendEntriesKeeps,
     HandleAppendEntriesRequestKeeps, AppendEntriesResponseKeeps
<1>4. CASE UNCHANGED vars
  BY <1>4, StutterKeeps DEF vars, memberVars
<1> QED
  BY <1>1, <1>2, <1>3, <1>4 DEF Next

LEMMA Inductive == Spec => []IInv
BY InitHolds, NextKeeps, PTL DEF Spec

\* What restore would read is what the server knows, between any two handlers,
\* whatever was appended, cut off, overwritten and restored before.
THEOREM DurableTheorem == Spec => []Durable
<1>1. IInv => Durable
  <2> SUFFICES ASSUME IInv, NEW s \in Server, Up(s)
               PROVE  /\ disk[s].term = currentTerm[s]
                      /\ disk[s].votedFor = votedFor[s][s]
                      /\ disk[s].len = Len(log[s])
                      /\ disk[s].len > 0 => /\ Restorable(disk[s])
                                            /\ RestoredLog(disk[s]) = log[s]
    BY DEF Durable
  <2> DEFINE f == disk[s]
             l == log[s]
  <2>1. /\ f \in File /\ l \in Seq(LogEntry)
        /\ Holds(f, currentTerm[s], votedFor[s][s], l)
    BY DEF IInv, TypeInv, FileInv
  <2>2. RestoredLog(f) = l
    BY <2>1, RestoreHolds
  <2>3. f.entries \in Seq(LogEntry) /\ Len(l) \in Nat
    BY <2>1 DEF File
  <2>4. f.len > 0 => Restorable(f)
    <3> HIDE DEF f, l
    <3>1. f.len = Len(l) /\ Len(l) <= Len(f.entries)
      BY <2>1 DEF Holds
    <3>2. f.entries = <<>> => Len(f.entries) = 0
      OBVIOUS
    <3> QED
      BY <3>1, <3>2, <2>3 DEF Restorable
  <2> QED
    BY <2>1, <2>2, <2>4 DEF Holds
<1> QED
  BY <1>1, Inductive, PTL

\* No server gives two votes in a term, although its process may end and restore
\* in between: a vote is in the file before it is given.
THEOREM VotesOnceTheorem == Spec => []VotesOnce
<1>1. IInv => VotesOnce
  BY DEF IInv
<1> QED
  BY <1>1, Inductive, PTL

\* A term never goes back, not even when the process ends.
THEOREM TermGrowsTheorem == Spec => TermGrows
<1>1. IInv /\ [Next]_vars => [\A s \in Server : currentTerm'[s] >= currentTerm[s]]_vars
  BY NextKeeps DEF TermsGrow
<1> QED
  BY <1>1, Inductive, PTL DEF Spec, TermGrows
=============================================================================
