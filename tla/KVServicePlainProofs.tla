------------------------ MODULE KVServicePlainProofs ------------------------
(***************************************************************************)
(* Proofs about KVServicePlain, for any number of services, callers,       *)
(* requests, attempts, elections and crashes: a request that was answered  *)
(* OK took effect when it should, if its command was alone at its index,   *)
(* and one whose commit failed is never executed.                          *)
(***************************************************************************)
EXTENDS KVServicePlain, ReplicatedLogProofs, FiniteSetTheorems

-----------------------------------------------------------------------------
(* The key as a function of the commands *)

AnyOp == {Put(v) : v \in Value} \cup {Get} \cup {CAS(v, w) : v, w \in Value}
Tag == Caller \X Nat \X Nat
Entry == [id : Service, op : AnyOp, from : Tag]
StoreSet == {Absent} \cup {Present(v) : v \in Value}

StoreOf(cmds) ==
    LET f[n \in 0..Len(cmds)] ==
          IF n = 0 THEN Absent ELSE Executed(f[n - 1], cmds[n].op)
    IN  f

LEMMA ExecutedType ==
    ASSUME NEW v \in StoreSet, NEW op \in AnyOp
    PROVE  Executed(v, op) \in StoreSet
<1>1. CASE op = Get
  BY <1>1 DEF Executed, Get
<1>2. ASSUME NEW w \in Value, op = Put(w) PROVE Executed(v, op) \in StoreSet
  <2>1. Executed(v, op) = Present(w)
    BY <1>2 DEF Executed, Put
  <2> QED
    BY <2>1 DEF StoreSet
<1>3. ASSUME NEW u \in Value, NEW w \in Value, op = CAS(u, w)
      PROVE  Executed(v, op) \in StoreSet
  <2>1. Executed(v, op) = v \/ Executed(v, op) = Present(w)
    BY <1>3 DEF Executed, CAS, Swapped
  <2> QED
    BY <2>1 DEF StoreSet
<1> QED
  BY <1>1, <1>2, <1>3 DEF AnyOp

\* The recursion defines the entry for every number of commands.
LEMMA StoreOfDefined ==
    ASSUME NEW cmds \in Seq(Entry)
    PROVE  /\ StoreOf(cmds) \in [0..Len(cmds) -> StoreSet]
           /\ StoreOf(cmds)[0] = Absent
           /\ \A n \in 1..Len(cmds) :
                StoreOf(cmds)[n] = Executed(StoreOf(cmds)[n - 1], cmds[n].op)
<1> DEFINE N == Len(cmds)
           G == [x \in StoreSet \X (1..N) |-> Executed(x[1], cmds[x[2]].op)]
           Step(f) == [n \in 0..N |-> IF n = 0 THEN Absent
                                      ELSE Executed(f[n - 1], cmds[n].op)]
<1>1. N \in Nat /\ \A n \in 1..N : cmds[n].op \in AnyOp
  <2>1. N \in Nat /\ \A n \in 1..N : cmds[n] \in Entry
    OBVIOUS
  <2> QED
    BY <2>1 DEF Entry
<1>2. IsStep(G, StoreSet, N)
  BY <1>1, ExecutedType DEF IsStep
<1>3. Absent \in StoreSet
  BY DEF StoreSet
<1>4. PICK f : IsIterate(f, Absent, G, StoreSet, N)
  <2> HIDE DEF G, N
  <2> QED
    BY <1>1, <1>2, <1>3, RecursionDefines
<1>5. ASSUME NEW n \in 1..N PROVE f[n] = Executed(f[n - 1], cmds[n].op)
  <2>1. n - 1 \in 0..N /\ f[n - 1] \in StoreSet
    BY <1>1, <1>4 DEF IsIterate
  <2>2. <<f[n - 1], n>> \in StoreSet \X (1..N)
    BY <2>1
  <2> QED
    BY <2>2, <1>4 DEF IsIterate
<1>6. f = Step(f)
  <2>1. \A n \in 0..N : n = 0 \/ n \in 1..N
    BY <1>1
  <2> QED
    BY <2>1, <1>4, <1>5 DEF IsIterate
<1>7. StoreOf(cmds) = CHOOSE g : g = Step(g)
  BY DEF StoreOf
<1> DEFINE g == StoreOf(cmds)
           Same == {n \in 0..N : g[n] = f[n]}
<1>8. g = Step(g)
  BY <1>6, <1>7
<1>9. g[0] = Absent /\ \A n \in 1..N : g[n] = Executed(g[n - 1], cmds[n].op)
  <2>1. 0 \in 0..N /\ \A n \in 1..N : n \in 0..N /\ n # 0
    BY <1>1
  <2> QED
    BY <2>1, <1>8
<1>10. \A n \in 0..N : n \in Same
  <2>1. 0 \in Same
    BY <1>1, <1>4, <1>9 DEF IsIterate
  <2>2. \A n \in 1..N : n - 1 \in Same => n \in Same
    BY <1>1, <1>5, <1>9
  <2> HIDE DEF Same
  <2> QED
    BY <2>1, <2>2, <1>1, InductionUpTo
<1>11. g \in [0..N -> StoreSet]
  <2>1. DOMAIN g = 0..N /\ g = [n \in 0..N |-> g[n]]
    BY <1>8
  <2> QED
    BY <2>1, <1>4, <1>10 DEF IsIterate
<1> QED
  BY <1>9, <1>11

\* What is committed later does not change the entries before it.
LEMMA StoreOfPrefix ==
    ASSUME NEW a \in Seq(Entry), NEW b \in Seq(Entry), Len(a) <= Len(b),
           \A n \in 1..Len(a) : b[n] = a[n]
    PROVE  \A n \in 0..Len(a) : StoreOf(b)[n] = StoreOf(a)[n]
<1> DEFINE N == Len(a)
           Same == {n \in 0..N : StoreOf(b)[n] = StoreOf(a)[n]}
<1>1. N \in Nat /\ Len(b) \in Nat
  OBVIOUS
<1>2. 0 \in Same
  BY <1>1, StoreOfDefined
<1>3. ASSUME NEW n \in 1..N, n - 1 \in Same PROVE n \in Same
  <2>1. n \in 0..N /\ n \in 1..Len(b)
    BY <1>1
  <2>2. StoreOf(b)[n] = Executed(StoreOf(b)[n - 1], b[n].op)
    BY <2>1, StoreOfDefined
  <2>3. StoreOf(a)[n] = Executed(StoreOf(a)[n - 1], a[n].op)
    BY StoreOfDefined
  <2> QED
    BY <2>1, <2>2, <2>3, <1>3
<1>4. \A n \in 0..N : n \in Same
  <2> HIDE DEF Same
  <2> QED
    BY <1>1, <1>2, <1>3, InductionUpTo
<1> QED
  BY <1>4

LEMMA StoreStays ==
    ASSUME LogType(Entry), LogType(Entry)', CommittedStays
    PROVE  \A n \in 0..Len(committed) : StoreAfter'[n] = StoreAfter[n]
<1>1. StoreAfter = StoreOf(committed) /\ StoreAfter' = StoreOf(committed')
  BY DEF StoreAfter, StoreOf
<1>2. committed \in Seq(Entry) /\ committed' \in Seq(Entry)
  BY DEF LogType
<1> QED
  BY <1>1, <1>2, StoreOfPrefix DEF CommittedStays

\* The recursion, of the committed commands.
LEMMA StoreAfterStep ==
    ASSUME LogType(Entry)
    PROVE  /\ StoreAfter[0] = Absent
           /\ \A n \in 1..Len(committed) :
                StoreAfter[n] = Executed(StoreAfter[n - 1], committed[n].op)
           /\ \A n \in 0..Len(committed) : StoreAfter[n] \in StoreSet
<1>1. StoreAfter = StoreOf(committed)
  BY DEF StoreAfter, StoreOf
<1>2. committed \in Seq(Entry)
  BY DEF LogType
<1> QED
  BY <1>1, <1>2, StoreOfDefined

-----------------------------------------------------------------------------
(* The inductive invariant *)

CallRecord == [pc : {"idle", "waiting"}, request : Nat, attempt : Nat,
               target : Service, op : AnyOp, since : Nat]
OutcomeRecord == [status : {"none", "OK", "FailedCommit", "Error"}, request : Nat,
                  attempt : Nat, since : Nat, alone : BOOLEAN, result : StoreSet]
HandlerRecord == [pc : {"idle", "received", "submitted", "waiting"}, request : Nat,
                  attempt : Nat, op : AnyOp, cancelled : BOOLEAN, index : Nat,
                  alone : BOOLEAN, chan : {<<>>} \cup (Entry \X StoreSet)]

TypeInv ==
    /\ LogType(Entry) /\ LogsBounded
    /\ data \in [Service -> StoreSet]
    /\ applied \in [Service -> Nat]
    /\ call \in [Caller -> CallRecord]
    /\ assumedLeader \in [Caller -> Service]
    /\ outcome \in [Caller -> OutcomeRecord]
    /\ handler \in [Service -> [Caller -> HandlerRecord]]
    /\ DOMAIN commitSubs = Service
    /\ \A s \in Service : DOMAIN commitSubs[s] = Index
    /\ \A s \in Service, i \in Index : commitSubs[s][i].attempt \in Nat
    /\ alive \subseteq Service

NodeInv(s) == Agrees(s, applied[s]) /\ data[s] = StoreAfter[applied[s]]

\* The handlers of caller c, by service.
Handlers(c) == [s \in Service |-> handler[s][c]]

\* The mark of the command that handler h of caller c submits.
Mark(c, h) == <<c, h.request, h.attempt>>

\* A handler that waits for index n, at service s, has its command there or
\* nowhere (it is committed, or lost).
Located(s, c, h) ==
    /\ h.index \in Index
    /\ s \in leaders => h.index <= Len(log[s])
    /\ \A t \in Service : \A i \in 1..Len(log[t]) :
          log[t][i].from = Mark(c, h) => i = h.index /\ log[t][i].id = s

\* No other command of s is there, if none was when it was submitted; and then
\* what is committed there was not when the request was made.
StaysAlone(s, c, h, k) ==
    h.alone =>
        /\ \A t \in Service :
              h.index <= Len(log[t]) /\ log[t][h.index].id = s =>
                 log[t][h.index].from = Mark(c, h)
        /\ k.attempt = h.attempt /\ h.index <= Len(committed) =>
              committed[h.index].id # s \/ k.since < h.index

\* What is delivered is what is committed at the index, and the key before it.
ChanInv(h) ==
    h.chan # <<>> =>
        /\ h.pc = "waiting" /\ h.index <= Len(committed)
        /\ h.chan = <<committed[h.index], StoreAfter[h.index - 1]>>

\* Handler h of caller c, whose call is k, at service s.
HandlerInv(s, c, h, k) ==
    /\ h.attempt <= k.attempt
    /\ h.pc # "idle" => h.attempt > 0
    /\ h.pc # "idle" /\ h.attempt = k.attempt => h.request = k.request
    \* a command that has not been submitted is nowhere
    /\ h.pc = "received" =>
          \A t \in Service : \A i \in 1..Len(log[t]) : log[t][i].from # Mark(c, h)
    /\ h.pc \in {"submitted", "waiting"} => Located(s, c, h) /\ StaysAlone(s, c, h, k)
    \* a subscription is found under the index of its handler
    /\ h.pc # "idle" =>
          \A i \in Index :
             commitSubs[s][i] = [caller |-> c, attempt |-> h.attempt] =>
                h.pc = "waiting" /\ i = h.index
    /\ ChanInv(h)

\* The attempts of a caller are numbered, and k has the number of the last.
Numbered(c, k) ==
    /\ k.since <= Len(committed)
    /\ \A t \in Service : \A i \in 1..Len(log[t]) :
          log[t][i].from[1] = c => log[t][i].from[3] <= k.attempt
    /\ \A s \in Service, i \in Index :
          commitSubs[s][i].caller = c => commitSubs[s][i].attempt <= k.attempt

DistinctAttempts(hs) ==
    \A s, t \in Service :
        /\ hs[s].pc # "idle" /\ hs[t].pc # "idle"
        /\ hs[s].attempt = hs[t].attempt
        => s = t

OKInv(c, o) ==
    o.status = "OK" /\ o.alone =>
        \E n \in (o.since + 1)..Len(committed) :
            /\ committed[n].from = <<c, o.request, o.attempt>>
            /\ o.result = StoreAfter[n - 1]

\* The attempt that was answered is the last of its request, is at an index
\* that is committed wherever it is, and will not be submitted again.
LastInv(c, hs, o) ==
    o.status = "OK" =>
        /\ \A s \in Service : hs[s].pc # "idle" =>
              /\ hs[s].attempt # o.attempt
              /\ hs[s].request = o.request => hs[s].attempt <= o.attempt
        /\ \A t \in Service : \A i \in 1..Len(log[t]) :
              /\ log[t][i].from[1] = c /\ log[t][i].from[2] = o.request =>
                    log[t][i].from[3] <= o.attempt
              /\ log[t][i].from = <<c, o.request, o.attempt>> => i <= Len(committed)
        /\ \A m, n \in 1..Len(committed) :
              /\ committed[m].from = <<c, o.request, o.attempt>>
              /\ committed[n].from = <<c, o.request, o.attempt>>
              => m = n

\* A call is of a later request than the one that was answered.
OrderInv(k, o) ==
    o.status = "OK" =>
        /\ o.attempt <= k.attempt /\ o.request <= k.request
        /\ k.pc = "waiting" => o.request < k.request

\* A command whose commit has failed is at an index that is taken, and will not
\* be submitted again.
FailedInv(c, k, hs, o) ==
    o.status = "FailedCommit" =>
        /\ o.attempt <= k.attempt
        /\ \A s \in Service : hs[s].pc # "idle" => hs[s].attempt # o.attempt
        /\ \A t \in Service : \A i \in 1..Len(log[t]) :
              log[t][i].from = <<c, o.request, o.attempt>> => i <= Len(committed)
        /\ \A i \in 1..Len(committed) :
              committed[i].from # <<c, o.request, o.attempt>>

CallerInv(c, k, hs, o) ==
    /\ Numbered(c, k)
    /\ DistinctAttempts(hs)
    /\ \A s \in Service : HandlerInv(s, c, hs[s], k)
    /\ OKInv(c, o)
    /\ LastInv(c, hs, o)
    /\ OrderInv(k, o)
    /\ FailedInv(c, k, hs, o)

IInv ==
    /\ TypeInv
    /\ CurrentHolds
    /\ \A s \in Service : NodeInv(s)
    /\ \A c \in Caller : CallerInv(c, call[c], Handlers(c), outcome[c])

-----------------------------------------------------------------------------
(* What a step leaves alone stays true *)

\* Subscriptions end.
SubsEnd ==
    \A s \in Service, i \in Index :
        commitSubs'[s][i] = commitSubs[s][i] \/ commitSubs'[s][i] = NoSub

\* A step of the logs, with what is known of one caller.
LEMMA CallerStays ==
    ASSUME TypeInv, LogType(Entry)', CurrentHolds',
           CommittedStays, LeadersAppend, NothingNew, SubsEnd,
           NEW c \in Caller, NEW k \in CallRecord,
           NEW hs \in [Service -> HandlerRecord], NEW o \in OutcomeRecord,
           CallerInv(c, k, hs, o),
           \A s \in Service : s \in leaders' \ leaders =>
              hs[s].pc \in {"idle", "received"}
    PROVE  CallerInv(c, k, hs, o)'
<1>1. /\ LogType(Entry) /\ Len(committed) \in Nat /\ Len(committed') \in Nat
      /\ \A t \in Service : Len(log[t]) \in Nat /\ Len(log'[t]) \in Nat
      /\ k.since \in Nat /\ k.attempt \in Nat /\ o.since \in Nat /\ o.attempt \in Nat
  <2>1. LogType(Entry) /\ committed \in Seq(Entry) /\ committed' \in Seq(Entry)
    BY DEF TypeInv, LogType
  <2>2. \A t \in Service : Len(log[t]) \in Nat /\ Len(log'[t]) \in Nat
    BY DEF TypeInv, LogType
  <2>3. k.since \in Nat /\ k.attempt \in Nat
    BY DEF CallRecord
  <2>4. o.since \in Nat /\ o.attempt \in Nat
    BY DEF OutcomeRecord
  <2> QED
    BY <2>1, <2>2, <2>3, <2>4
<1>2. Numbered(c, k)'
  <2>1. k.since <= Len(committed')
    BY <1>1 DEF CallerInv, Numbered, CommittedStays
  <2>2. \A t \in Service : \A i \in 1..Len(log'[t]) :
           log'[t][i].from[1] = c => log'[t][i].from[3] <= k.attempt
    <3> SUFFICES ASSUME NEW t \in Service, NEW i \in 1..Len(log'[t])
                 PROVE  log'[t][i].from[1] = c => log'[t][i].from[3] <= k.attempt
      OBVIOUS
    <3>1. PICK u \in Service : i \in 1..Len(log[u]) /\ log[u][i] = log'[t][i]
      BY DEF NothingNew
    <3>2. log[u][i].from[1] = c => log[u][i].from[3] <= k.attempt
      BY <3>1 DEF CallerInv, Numbered
    <3> QED
      BY <3>1, <3>2
  <2>3. \A s \in Service, i \in Index :
           commitSubs'[s][i].caller = c => commitSubs'[s][i].attempt <= k.attempt
    BY <1>1 DEF CallerInv, Numbered, SubsEnd, NoSub
  <2> QED
    BY <2>1, <2>2, <2>3 DEF Numbered
<1>3. DistinctAttempts(hs)'
  BY DEF CallerInv, DistinctAttempts
<1>4. ASSUME NEW s \in Service PROVE HandlerInv(s, c, hs[s], k)'
  <2> DEFINE h == hs[s]
  <2>1. HandlerInv(s, c, h, k) /\ h \in HandlerRecord
    BY DEF CallerInv
  <2>2. /\ h.attempt \in Nat /\ h.index \in Nat
        /\ h.pc \in {"idle", "received", "submitted", "waiting"}
    BY <2>1 DEF HandlerRecord
  <2>3. s \in leaders' \ leaders => h.pc \in {"idle", "received"}
    OBVIOUS
  <2> HIDE DEF h
  <2>4. h.pc = "received" =>
           \A t \in Service : \A i \in 1..Len(log'[t]) : log'[t][i].from # Mark(c, h)
    <3> SUFFICES ASSUME h.pc = "received", NEW t \in Service, NEW i \in 1..Len(log'[t])
                 PROVE  log'[t][i].from # Mark(c, h)
      OBVIOUS
    <3>1. PICK u \in Service : i \in 1..Len(log[u]) /\ log[u][i] = log'[t][i]
      BY DEF NothingNew
    <3>2. log[u][i].from # Mark(c, h)
      BY <2>1, <3>1 DEF HandlerInv
    <3> QED
      BY <3>1, <3>2
  <2>5. ASSUME h.pc \in {"submitted", "waiting"} PROVE Located(s, c, h)'
    <3>1. Located(s, c, h)
      BY <2>1, <2>5 DEF HandlerInv
    <3>2. s \in leaders' => h.index <= Len(log'[s])
      <4> SUFFICES ASSUME s \in leaders' PROVE h.index <= Len(log'[s])
        OBVIOUS
      <4>1. s \in leaders
        BY <2>3, <2>5
      <4> QED
        BY <4>1, <3>1, <2>2, <1>1 DEF Located, LeadersAppend
    <3>3. \A t \in Service : \A i \in 1..Len(log'[t]) :
             log'[t][i].from = Mark(c, h) => i = h.index /\ log'[t][i].id = s
      <4> SUFFICES ASSUME NEW t \in Service, NEW i \in 1..Len(log'[t])
                   PROVE  log'[t][i].from = Mark(c, h) =>
                             i = h.index /\ log'[t][i].id = s
        OBVIOUS
      <4>1. PICK u \in Service : i \in 1..Len(log[u]) /\ log[u][i] = log'[t][i]
        BY DEF NothingNew
      <4>2. log[u][i].from = Mark(c, h) => i = h.index /\ log[u][i].id = s
        BY <4>1, <3>1 DEF Located
      <4> QED
        BY <4>1, <4>2
    <3> QED
      BY <3>1, <3>2, <3>3 DEF Located, Mark
  <2>6. ASSUME h.pc \in {"submitted", "waiting"}, h.alone PROVE StaysAlone(s, c, h, k)'
    <3>1. StaysAlone(s, c, h, k) /\ h.index \in Index
      BY <2>1, <2>5, <2>6 DEF HandlerInv, Located
    <3>2. ASSUME NEW t \in Service, h.index <= Len(log'[t]), log'[t][h.index].id = s
          PROVE  log'[t][h.index].from = Mark(c, h)
      <4>1. h.index \in 1..Len(log'[t])
        BY <3>1, <3>2, <2>2, <1>1 DEF Index
      <4>2. PICK u \in Service :
               h.index \in 1..Len(log[u]) /\ log[u][h.index] = log'[t][h.index]
        BY <4>1 DEF NothingNew
      <4> QED
        BY <4>2, <3>1, <3>2, <2>6, <1>1 DEF StaysAlone
    <3>3. ASSUME k.attempt = h.attempt, h.index <= Len(committed')
          PROVE  committed'[h.index].id # s \/ k.since < h.index
      <4>1. CASE h.index <= Len(committed)
        <5>1. h.index \in 1..Len(committed)
          BY <4>1, <3>1, <2>2, <1>1 DEF Index
        <5>2. committed'[h.index] = committed[h.index]
          BY <5>1 DEF CommittedStays
        <5> QED
          BY <5>2, <4>1, <3>1, <3>3, <2>6 DEF StaysAlone
      <4>2. CASE ~(h.index <= Len(committed))
        <5>1. k.since <= Len(committed)
          BY DEF CallerInv, Numbered
        <5> QED
          BY <5>1, <4>2, <2>2, <1>1
      <4> QED
        BY <4>1, <4>2
    <3> QED
      BY <3>2, <3>3 DEF StaysAlone, Mark
  <2>7. h.pc # "idle" =>
           \A i \in Index :
              commitSubs'[s][i] = [caller |-> c, attempt |-> h.attempt] =>
                 h.pc = "waiting" /\ i = h.index
    <3>1. h.pc # "idle" => NoSub # [caller |-> c, attempt |-> h.attempt]
      BY <2>1, <2>2 DEF HandlerInv, NoSub
    <3> QED
      BY <3>1, <2>1 DEF HandlerInv, SubsEnd
  <2>8. ChanInv(h)'
    <3> SUFFICES ASSUME h.chan # <<>>
                 PROVE  /\ h.pc = "waiting" /\ h.index <= Len(committed')
                        /\ h.chan = <<committed'[h.index], StoreAfter'[h.index - 1]>>
      BY DEF ChanInv
    <3>1. /\ h.pc = "waiting" /\ h.index <= Len(committed)
          /\ h.chan = <<committed[h.index], StoreAfter[h.index - 1]>>
      BY <2>1 DEF HandlerInv, ChanInv
    <3>2. h.index \in Index
      BY <3>1, <2>1 DEF HandlerInv, Located
    <3>3. h.index \in 1..Len(committed) /\ h.index - 1 \in 0..Len(committed)
      BY <3>1, <3>2, <2>2, <1>1 DEF Index
    <3>4. committed'[h.index] = committed[h.index] /\ h.index <= Len(committed')
      BY <3>1, <3>3, <1>1, <2>2 DEF CommittedStays
    <3>5. StoreAfter'[h.index - 1] = StoreAfter[h.index - 1]
      BY <3>3, <1>1, StoreStays
    <3> QED
      BY <3>1, <3>4, <3>5
  <2>9. ~h.alone => StaysAlone(s, c, h, k)'
    BY DEF StaysAlone
  <2>10. HandlerInv(s, c, h, k)'
    BY <2>1, <2>4, <2>5, <2>6, <2>7, <2>8, <2>9 DEF HandlerInv, Mark
  <2> QED
    BY <2>10 DEF h
<1>5. OKInv(c, o)'
  <2> SUFFICES ASSUME o.status = "OK", o.alone
               PROVE  \E n \in (o.since + 1)..Len(committed') :
                         /\ committed'[n].from = <<c, o.request, o.attempt>>
                         /\ o.result = StoreAfter'[n - 1]
    BY DEF OKInv
  <2>1. PICK n \in (o.since + 1)..Len(committed) :
            /\ committed[n].from = <<c, o.request, o.attempt>>
            /\ o.result = StoreAfter[n - 1]
    BY DEF CallerInv, OKInv
  <2>2. n \in 1..Len(committed) /\ n - 1 \in 0..Len(committed)
    BY <1>1
  <2>3. committed'[n] = committed[n] /\ n \in (o.since + 1)..Len(committed')
    BY <2>2, <1>1 DEF CommittedStays
  <2>4. StoreAfter'[n - 1] = StoreAfter[n - 1]
    BY <2>2, <1>1, StoreStays
  <2> QED
    BY <2>1, <2>3, <2>4
<1>6. FailedInv(c, k, hs, o)'
  <2> DEFINE mark == <<c, o.request, o.attempt>>
  <2> SUFFICES ASSUME o.status = "FailedCommit"
               PROVE  /\ \A t \in Service : \A i \in 1..Len(log'[t]) :
                            log'[t][i].from = mark => i <= Len(committed')
                      /\ \A i \in 1..Len(committed') : committed'[i].from # mark
    BY DEF FailedInv, CallerInv
  <2>1. /\ \A t \in Service : \A i \in 1..Len(log[t]) :
              log[t][i].from = mark => i <= Len(committed)
        /\ \A i \in 1..Len(committed) : committed[i].from # mark
    BY DEF FailedInv, CallerInv
  <2> HIDE DEF mark
  <2>2. ASSUME NEW t \in Service, NEW i \in 1..Len(log'[t]), log'[t][i].from = mark
        PROVE  i <= Len(committed)
    BY <2>1, <2>2 DEF NothingNew
  <2>3. ASSUME NEW i \in 1..Len(committed') PROVE committed'[i].from # mark
    <3>1. CASE i <= Len(committed)
      BY <3>1, <2>1, <1>1 DEF CommittedStays
    <3>2. CASE ~(i <= Len(committed))
      <4>1. PICK u \in Service : i \in 1..Len(log'[u]) /\ log'[u][i] = committed'[i]
        <5>1. \A j \in 1..Len(committed') :
                 \E u \in Service : j \in 1..Len(log'[u]) /\ log'[u][j] = committed'[j]
          BY CommittedIsHeldNext
        <5> QED
          BY <5>1
      <4> QED
        BY <4>1, <3>2, <2>2
    <3> QED
      BY <3>1, <3>2
  <2> QED
    BY <2>2, <2>3, <1>1 DEF CommittedStays
<1>7. LastInv(c, hs, o)'
  <2> DEFINE mark == <<c, o.request, o.attempt>>
  <2> SUFFICES ASSUME o.status = "OK"
               PROVE  /\ \A t \in Service : \A i \in 1..Len(log'[t]) :
                            /\ log'[t][i].from[1] = c /\ log'[t][i].from[2] = o.request =>
                                  log'[t][i].from[3] <= o.attempt
                            /\ log'[t][i].from = mark => i <= Len(committed')
                      /\ \A m, n \in 1..Len(committed') :
                            committed'[m].from = mark /\ committed'[n].from = mark
                               => m = n
    BY DEF LastInv, CallerInv
  <2>1. /\ \A t \in Service : \A i \in 1..Len(log[t]) :
              /\ log[t][i].from[1] = c /\ log[t][i].from[2] = o.request =>
                    log[t][i].from[3] <= o.attempt
              /\ log[t][i].from = mark => i <= Len(committed)
        /\ \A m, n \in 1..Len(committed) :
              committed[m].from = mark /\ committed[n].from = mark => m = n
    BY DEF LastInv, CallerInv
  <2> HIDE DEF mark
  <2>2. ASSUME NEW t \in Service, NEW i \in 1..Len(log'[t])
        PROVE  /\ log'[t][i].from[1] = c /\ log'[t][i].from[2] = o.request =>
                     log'[t][i].from[3] <= o.attempt
               /\ log'[t][i].from = mark => i <= Len(committed)
    <3>1. PICK u \in Service : i \in 1..Len(log[u]) /\ log[u][i] = log'[t][i]
      BY DEF NothingNew
    <3>2. /\ log[u][i].from[1] = c /\ log[u][i].from[2] = o.request =>
                log[u][i].from[3] <= o.attempt
          /\ log[u][i].from = mark => i <= Len(committed)
      BY <3>1, <2>1
    <3> QED
      BY <3>1, <3>2
  <2>3. ASSUME NEW i \in 1..Len(committed'), committed'[i].from = mark
        PROVE  i \in 1..Len(committed) /\ committed[i].from = mark
    <3>1. PICK u \in Service : i \in 1..Len(log'[u]) /\ log'[u][i] = committed'[i]
      <4>1. \A j \in 1..Len(committed') :
               \E u \in Service : j \in 1..Len(log'[u]) /\ log'[u][j] = committed'[j]
        BY CommittedIsHeldNext
      <4> QED
        BY <4>1
    <3>2. i <= Len(committed)
      BY <3>1, <2>2, <2>3
    <3>3. i \in 1..Len(committed)
      BY <3>2, <1>1
    <3> QED
      BY <3>3, <2>3 DEF CommittedStays
  <2>4. ASSUME NEW m \in 1..Len(committed'), NEW n \in 1..Len(committed'),
               committed'[m].from = mark, committed'[n].from = mark
        PROVE  m = n
    BY <2>1, <2>3, <2>4
  <2>5. ASSUME NEW t \in Service, NEW i \in 1..Len(log'[t]), log'[t][i].from = mark
        PROVE  i <= Len(committed')
    BY <2>2, <2>5, <1>1 DEF CommittedStays
  <2> QED
    BY <2>2, <2>4, <2>5
<1>8. OrderInv(k, o)'
  BY DEF CallerInv, OrderInv
<1> QED
  BY <1>2, <1>3, <1>4, <1>5, <1>6, <1>7, <1>8 DEF CallerInv

-----------------------------------------------------------------------------
(* A caller and its handlers *)

\* A handler that is gone.
LEMMA NoHandlerInv ==
    ASSUME NEW s, NEW c, NEW k \in CallRecord
    PROVE  NoHandler \in HandlerRecord /\ HandlerInv(s, c, NoHandler, k)
<1>1. /\ NoHandler.pc = "idle" /\ NoHandler.attempt = 0 /\ NoHandler.chan = <<>>
  BY DEF NoHandler
<1>2. k.attempt \in Nat
  BY DEF CallRecord
<1>3. Get \in AnyOp
  BY DEF AnyOp
<1>4. NoHandler \in HandlerRecord
  BY <1>3 DEF NoHandler, HandlerRecord
<1> QED
  BY <1>1, <1>2, <1>4 DEF HandlerInv, ChanInv

LEMMA ClearInv ==
    ASSUME NEW c \in Caller, NEW k \in CallRecord,
           NEW hs \in [Service -> HandlerRecord], NEW o \in OutcomeRecord,
           NEW s \in Service, CallerInv(c, k, hs, o)
    PROVE  /\ [hs EXCEPT ![s] = NoHandler] \in [Service -> HandlerRecord]
           /\ CallerInv(c, k, [hs EXCEPT ![s] = NoHandler], o)
<1> DEFINE g == [hs EXCEPT ![s] = NoHandler]
<1>1. NoHandler \in HandlerRecord /\ HandlerInv(s, c, NoHandler, k)
  BY NoHandlerInv
<1>2. NoHandler.pc = "idle"
  BY DEF NoHandler
<1>3. /\ g \in [Service -> HandlerRecord] /\ g[s] = NoHandler
      /\ \A t \in Service \ {s} : g[t] = hs[t]
  BY <1>1
<1> HIDE DEF g
<1>4. \A t \in Service : HandlerInv(t, c, g[t], k)
  BY <1>1, <1>3 DEF CallerInv
<1>5. \A t \in Service : g[t].pc # "idle" => g[t] = hs[t]
  BY <1>2, <1>3
<1>6. DistinctAttempts(g)
  BY <1>5 DEF CallerInv, DistinctAttempts
<1>7. FailedInv(c, k, g, o) /\ LastInv(c, g, o)
  BY <1>5 DEF CallerInv, FailedInv, LastInv
<1>8. CallerInv(c, k, g, o)
  BY <1>4, <1>6, <1>7 DEF CallerInv
<1> QED
  BY <1>3, <1>8 DEF g

\* A handler that is told of the end of its request.
LEMMA CancelInv ==
    ASSUME NEW c \in Caller, NEW k \in CallRecord,
           NEW hs \in [Service -> HandlerRecord], NEW o \in OutcomeRecord,
           NEW s \in Service, CallerInv(c, k, hs, o), NEW b \in BOOLEAN
    PROVE  LET g == [hs EXCEPT ![s] = [hs[s] EXCEPT !.cancelled = b]]
           IN  g \in [Service -> HandlerRecord] /\ CallerInv(c, k, g, o)
<1> DEFINE r == [hs[s] EXCEPT !.cancelled = b]
           g == [hs EXCEPT ![s] = r]
<1>1. hs[s] \in HandlerRecord
  OBVIOUS
<1>2. /\ r \in HandlerRecord /\ r.pc = hs[s].pc /\ r.request = hs[s].request
      /\ r.attempt = hs[s].attempt /\ r.index = hs[s].index
      /\ r.alone = hs[s].alone /\ r.chan = hs[s].chan
  BY <1>1 DEF HandlerRecord
<1> HIDE DEF r
<1>3. /\ g \in [Service -> HandlerRecord] /\ g[s] = r
      /\ \A t \in Service \ {s} : g[t] = hs[t]
  BY <1>2
<1> HIDE DEF g
<1>4. \A t \in Service : /\ g[t].pc = hs[t].pc /\ g[t].attempt = hs[t].attempt
                         /\ g[t].request = hs[t].request
  BY <1>2, <1>3
<1>5. HandlerInv(s, c, r, k)
  <2>1. HandlerInv(s, c, hs[s], k) /\ Mark(c, r) = Mark(c, hs[s])
    BY <1>2 DEF CallerInv, Mark
  <2>2. Located(s, c, hs[s]) => Located(s, c, r)
    BY <1>2, <2>1 DEF Located
  <2>3. StaysAlone(s, c, hs[s], k) => StaysAlone(s, c, r, k)
    BY <1>2, <2>1 DEF StaysAlone
  <2>4. ChanInv(hs[s]) => ChanInv(r)
    BY <1>2 DEF ChanInv
  <2> QED
    BY <1>2, <2>1, <2>2, <2>3, <2>4 DEF HandlerInv
<1>6. \A t \in Service : HandlerInv(t, c, g[t], k)
  BY <1>3, <1>5 DEF CallerInv
<1>7. DistinctAttempts(g)
  BY <1>4 DEF CallerInv, DistinctAttempts
<1>8. FailedInv(c, k, g, o) /\ LastInv(c, g, o)
  BY <1>4 DEF CallerInv, FailedInv, LastInv
<1>9. CallerInv(c, k, g, o)
  BY <1>6, <1>7, <1>8 DEF CallerInv
<1> QED
  BY <1>3, <1>9 DEF g, r

\* The next attempt, with a handler that has received it.
LEMMA SendInv ==
    ASSUME NEW c \in Caller, NEW k \in CallRecord,
           NEW hs \in [Service -> HandlerRecord], NEW o \in OutcomeRecord,
           NEW s \in Service, CallerInv(c, k, hs, o), TypeInv,
           NEW k2 \in CallRecord, NEW r \in HandlerRecord,
           k2.attempt = k.attempt + 1, k2.since <= Len(committed),
           \/ k2.request = k.request + 1
           \/ k2.request = k.request /\ k.pc = "waiting",
           r.pc = "received", r.attempt = k2.attempt, r.request = k2.request,
           r.chan = <<>>
    PROVE  /\ [hs EXCEPT ![s] = r] \in [Service -> HandlerRecord]
           /\ CallerInv(c, k2, [hs EXCEPT ![s] = r], o)
<1> DEFINE g == [hs EXCEPT ![s] = r]
<1>1. /\ g \in [Service -> HandlerRecord] /\ g[s] = r
      /\ \A t \in Service \ {s} : g[t] = hs[t]
  OBVIOUS
<1> HIDE DEF g
<1>2. k.attempt \in Nat /\ k2.attempt \in Nat /\ \A t \in Service : hs[t].attempt \in Nat
  BY DEF CallRecord, HandlerRecord
<1>3. o.attempt \in Nat
  BY DEF OutcomeRecord
<1>4. \A t \in Service : \A i \in 1..Len(log[t]) :
         log[t][i].from[1] = c => log[t][i].from[3] <= k.attempt
  BY DEF CallerInv, Numbered
<1>5. \A t \in Service : \A i \in 1..Len(log[t]) : log[t][i].from \in Tag
  <2> SUFFICES ASSUME NEW t \in Service, NEW i \in 1..Len(log[t])
               PROVE  log[t][i].from \in Tag
    OBVIOUS
  <2>1. log[t] \in Seq(Entry)
    BY DEF TypeInv, LogType
  <2>2. log[t][i] \in Entry
    BY <2>1
  <2> QED
    BY <2>2 DEF Entry
<1>6. Numbered(c, k2)
  <2>1. ASSUME NEW t \in Service, NEW i \in 1..Len(log[t]), log[t][i].from[1] = c
        PROVE  log[t][i].from[3] <= k2.attempt
    BY <2>1, <1>2, <1>4, <1>5 DEF Tag
  <2>2. ASSUME NEW t \in Service, NEW i \in Index, commitSubs[t][i].caller = c
        PROVE  commitSubs[t][i].attempt <= k2.attempt
    <3>1. commitSubs[t][i].attempt <= k.attempt
      BY <2>2 DEF CallerInv, Numbered
    <3>2. commitSubs[t][i].attempt \in Nat
      BY DEF TypeInv
    <3> QED
      BY <3>1, <3>2, <1>2
  <2> QED
    BY <2>1, <2>2 DEF Numbered
<1>7. HandlerInv(s, c, r, k2)
  <2>1. \A t \in Service : \A i \in 1..Len(log[t]) : log[t][i].from # Mark(c, r)
    <3> SUFFICES ASSUME NEW t \in Service, NEW i \in 1..Len(log[t]),
                        log[t][i].from = Mark(c, r)
                 PROVE  FALSE
      OBVIOUS
    <3>1. log[t][i].from[1] = c /\ log[t][i].from[3] = k2.attempt
      BY DEF Mark
    <3> QED
      BY <3>1, <1>2, <1>4
  <2>2. \A i \in Index :
           commitSubs[s][i] # [caller |-> c, attempt |-> r.attempt]
    BY <1>2 DEF CallerInv, Numbered
  <2> QED
    BY <2>1, <2>2, <1>2 DEF HandlerInv, ChanInv
<1>8. ASSUME NEW t \in Service PROVE HandlerInv(t, c, g[t], k2)
  <2>1. CASE t = s
    BY <2>1, <1>1, <1>7
  <2>2. CASE t # s
    <3>1. g[t] = hs[t] /\ HandlerInv(t, c, hs[t], k)
      BY <2>2, <1>1 DEF CallerInv
    <3>2. hs[t].attempt <= k2.attempt /\ hs[t].attempt # k2.attempt
      BY <3>1, <1>2 DEF HandlerInv
    <3>3. StaysAlone(t, c, hs[t], k) => StaysAlone(t, c, hs[t], k2)
      BY <3>2 DEF StaysAlone
    <3> QED
      BY <3>1, <3>2, <3>3 DEF HandlerInv
  <2> QED
    BY <2>1, <2>2
<1>9. \A t \in Service \ {s} : g[t].attempt <= k.attempt /\ g[t].attempt # k2.attempt
  <2> SUFFICES ASSUME NEW t \in Service \ {s}
               PROVE  g[t].attempt <= k.attempt /\ g[t].attempt # k2.attempt
    OBVIOUS
  <2>1. g[t] = hs[t] /\ hs[t].attempt <= k.attempt
    BY <1>1 DEF CallerInv, HandlerInv
  <2> QED
    BY <2>1, <1>2
<1>10. DistinctAttempts(g)
  BY <1>1, <1>9 DEF CallerInv, DistinctAttempts
<1>11. FailedInv(c, k2, g, o)
  <2> SUFFICES ASSUME o.status = "FailedCommit" PROVE FailedInv(c, k2, g, o)
    BY DEF FailedInv
  <2>1. o.attempt <= k.attempt
    BY DEF CallerInv, FailedInv
  <2>2. o.attempt <= k2.attempt /\ o.attempt # k2.attempt
    BY <2>1, <1>2, <1>3
  <2> QED
    BY <1>1, <2>2 DEF CallerInv, FailedInv
<1>12. /\ OrderInv(k2, o)
       /\ o.status = "OK" => o.attempt # k2.attempt /\ o.request # k2.request
  <2>1. k.request \in Nat /\ k2.request \in Nat
    BY DEF CallRecord
  <2>2. o.request \in Nat
    BY DEF OutcomeRecord
  <2>3. o.status = "OK" => /\ o.attempt <= k.attempt /\ o.request <= k.request
                           /\ k.pc = "waiting" => o.request < k.request
    BY DEF CallerInv, OrderInv
  <2>4. ASSUME o.status = "OK"
        PROVE  /\ o.attempt <= k2.attempt /\ o.request < k2.request
               /\ o.request <= k2.request
               /\ o.attempt # k2.attempt /\ o.request # k2.request
    BY <2>1, <2>2, <2>3, <2>4, <1>2, <1>3
  <2> QED
    BY <2>4 DEF OrderInv
<1>13. LastInv(c, g, o)
  BY <1>1, <1>12 DEF CallerInv, LastInv
<1>14. CallerInv(c, k2, g, o)
  BY <1>6, <1>8, <1>10, <1>11, <1>12, <1>13 DEF CallerInv
<1> QED
  BY <1>1, <1>14 DEF g

-----------------------------------------------------------------------------
(* The client's steps, and the answers *)

logged == <<log, committed, current, leaders, commitSubs, storeVars, alive>>

\* A step of caller c and its handlers that leaves the services alone.
LEMMA ClientStep ==
    ASSUME IInv, NEW c \in Caller, UNCHANGED logged,
           call' \in [Caller -> CallRecord],
           assumedLeader' \in [Caller -> Service],
           outcome' \in [Caller -> OutcomeRecord],
           handler' \in [Service -> [Caller -> HandlerRecord]],
           \A d \in Caller \ {c} : call'[d] = call[d] /\ outcome'[d] = outcome[d],
           \A t \in Service, d \in Caller \ {c} : handler'[t][d] = handler[t][d],
           NEW hs \in [Service -> HandlerRecord],
           \A t \in Service : handler'[t][c] = hs[t],
           CallerInv(c, call'[c], hs, outcome'[c])
    PROVE  IInv'
<1>1. TypeInv /\ LogType(Entry) /\ CurrentHolds
  BY DEF IInv, TypeInv
<1>2. UNCHANGED <<log, committed, current, leaders, commitSubs, data, applied, alive>>
  BY DEF logged, storeVars
<1>3. /\ LogType(Entry)' /\ AgreedStays /\ CommittedStays /\ LeadersAppend
      /\ CurrentHolds'
  BY <1>1, <1>2, UnchangedKeeps
<1>4. NothingNew /\ SubsEnd
  BY <1>2 DEF NothingNew, SubsEnd
<1>5. TypeInv'
  <2>1. LogsBounded'
    BY <1>1, <1>3, <1>4, BoundStays DEF TypeInv
  <2> QED
    BY <2>1, <1>1, <1>2, <1>3 DEF TypeInv
<1>6. StoreAfter' = StoreAfter
  BY <1>2 DEF StoreAfter
<1>7. \A s \in Service : NodeInv(s)'
  BY <1>2, <1>6 DEF IInv, NodeInv, Agrees
<1>8. ASSUME NEW d \in Caller
      PROVE  CallerInv(d, call'[d], Handlers(d)', outcome'[d])
  <2>1. CASE d = c
    <3>1. Handlers(c)' = hs
      BY DEF Handlers
    <3> QED
      BY <2>1, <3>1
  <2>2. CASE d # c
    <3>1. Handlers(d)' = Handlers(d)
      BY <2>2 DEF Handlers
    <3>2. call'[d] = call[d] /\ outcome'[d] = outcome[d]
      BY <2>2
    <3>3. CallerInv(d, call[d], Handlers(d), outcome[d])
      BY DEF IInv
    <3> QED
      BY <3>1, <3>2, <3>3
  <2> QED
    BY <2>1, <2>2
<1>9. ASSUME NEW d \in Caller
      PROVE  CallerInv(d, call[d], Handlers(d), outcome[d])'
  <2>1. /\ call'[d] \in CallRecord /\ outcome'[d] \in OutcomeRecord
        /\ Handlers(d)' \in [Service -> HandlerRecord]
    BY DEF Handlers
  <2>2. leaders' \ leaders = {}
    BY <1>2
  <2>3. \A k \in CallRecord, g \in [Service -> HandlerRecord], o \in OutcomeRecord :
           CallerInv(d, k, g, o) => CallerInv(d, k, g, o)'
    BY <2>2, <1>1, <1>3, <1>4, CallerStays
  <2> HIDE DEF Handlers
  <2> QED
    BY <2>1, <2>3, <1>8
<1> QED
  BY <1>3, <1>5, <1>7, <1>9 DEF IInv

LEMMA HandlersType ==
    ASSUME IInv, NEW c \in Caller
    PROVE  /\ Handlers(c) \in [Service -> HandlerRecord]
           /\ \A s \in Service : Handlers(c)[s] = handler[s][c]
           /\ CallerInv(c, call[c], Handlers(c), outcome[c])
           /\ call[c] \in CallRecord /\ outcome[c] \in OutcomeRecord
BY DEF IInv, TypeInv, Handlers

\* h has the handlers hs for c, and those of the state for the others.
ChangedFor(h, c, hs) ==
    /\ h \in [Service -> [Caller -> HandlerRecord]]
    /\ hs \in [Service -> HandlerRecord]
    /\ \A t \in Service : h[t][c] = hs[t]
    /\ \A t \in Service, d \in Caller \ {c} : h[t][d] = handler[t][d]

\* send: on from the handlers h, which differ for c alone.
LEMMA SendsKeeps ==
    ASSUME IInv, NEW c \in Caller, NEW s \in Service, NEW request \in Nat,
           NEW op \in AnyOp, NEW since \in Nat, since <= Len(committed),
           \/ request = call[c].request + 1
           \/ request = call[c].request /\ call[c].pc = "waiting",
           NEW h, NEW hs, ChangedFor(h, c, hs),
           CallerInv(c, call[c], hs, outcome[c]),
           Sends(c, s, request, op, since, h),
           assumedLeader' \in [Caller -> Service],
           UNCHANGED outcome, UNCHANGED logged
    PROVE  IInv'
<1> DEFINE n == call[c].attempt + 1
           k2 == [pc |-> "waiting", request |-> request, attempt |-> n,
                  target |-> s, op |-> op, since |-> since]
           r == [NoHandler EXCEPT !.pc = "received", !.request = request,
                                  !.attempt = n, !.op = op]
           g == [hs EXCEPT ![s] = r]
<1>1. call' = [call EXCEPT ![c] = k2] /\ handler' = [h EXCEPT ![s][c] = r]
  BY DEF Sends
<1>2. /\ TypeInv /\ call \in [Caller -> CallRecord] /\ call[c] \in CallRecord
      /\ outcome \in [Caller -> OutcomeRecord] /\ outcome[c] \in OutcomeRecord
  BY DEF IInv, TypeInv
<1>3. n \in Nat
  BY <1>2 DEF CallRecord
<1> HIDE DEF n
<1>4. k2 \in CallRecord
  BY <1>3 DEF CallRecord
<1>5. /\ r \in HandlerRecord /\ r.pc = "received" /\ r.request = request
      /\ r.attempt = n /\ r.chan = <<>>
  <2> DEFINE r1 == [NoHandler EXCEPT !.pc = "received"]
             r2 == [r1 EXCEPT !.request = request]
             r3 == [r2 EXCEPT !.attempt = n]
             r4 == [r3 EXCEPT !.op = op]
  <2>1. r = r4
    OBVIOUS
  <2>2. NoHandler \in HandlerRecord /\ NoHandler.chan = <<>>
    BY <1>2, NoHandlerInv DEF NoHandler
  <2>3. r1 \in HandlerRecord /\ r1.pc = "received" /\ r1.chan = <<>>
    BY <2>2 DEF HandlerRecord
  <2> HIDE DEF r1
  <2>4. r2 \in HandlerRecord /\ r2.pc = "received" /\ r2.chan = <<>>
        /\ r2.request = request
    BY <2>3 DEF HandlerRecord
  <2> HIDE DEF r2
  <2>5. r3 \in HandlerRecord /\ r3.pc = "received" /\ r3.chan = <<>>
        /\ r3.request = request /\ r3.attempt = n
    BY <2>4, <1>3 DEF HandlerRecord
  <2> HIDE DEF r3
  <2>6. r4 \in HandlerRecord /\ r4.pc = "received" /\ r4.chan = <<>>
        /\ r4.request = request /\ r4.attempt = n
    BY <2>5 DEF HandlerRecord
  <2> QED
    BY <2>1, <2>6
<1> HIDE DEF r
<1>6. /\ hs \in [Service -> HandlerRecord]
      /\ h \in [Service -> [Caller -> HandlerRecord]]
      /\ \A t \in Service : h[t][c] = hs[t]
      /\ \A t \in Service, d \in Caller \ {c} : h[t][d] = handler[t][d]
  BY DEF ChangedFor
<1>7. /\ k2.attempt = call[c].attempt + 1 /\ k2.since = since
      /\ k2.request = request
      /\ r.attempt = k2.attempt /\ r.request = k2.request
  BY <1>5 DEF n
<1> HIDE DEF k2
<1>8. g \in [Service -> HandlerRecord] /\ CallerInv(c, k2, g, outcome[c])
  <2>1. \/ k2.request = call[c].request + 1
        \/ k2.request = call[c].request /\ call[c].pc = "waiting"
    BY <1>7
  <2>2. k2.since <= Len(committed)
    BY <1>7
  <2> QED
    BY <2>1, <2>2, <1>2, <1>4, <1>5, <1>6, <1>7, SendInv
<1>9. /\ call' \in [Caller -> CallRecord] /\ call'[c] = k2
      /\ \A d \in Caller \ {c} : call'[d] = call[d] /\ outcome'[d] = outcome[d]
  BY <1>1, <1>2, <1>4
<1>10. /\ handler' \in [Service -> [Caller -> HandlerRecord]]
       /\ \A t \in Service : handler'[t][c] = g[t]
       /\ \A t \in Service, d \in Caller \ {c} : handler'[t][d] = handler[t][d]
  BY <1>1, <1>5, <1>6
<1>11. /\ outcome' \in [Caller -> OutcomeRecord]
       /\ CallerInv(c, call'[c], g, outcome'[c])
  BY <1>2, <1>8, <1>9
<1> HIDE DEF g
<1> QED
  BY <1>8, <1>9, <1>10, <1>11, ClientStep

\* The address after this one.
LEMMA NextService ==
    ASSUME NEW s \in Service
    PROVE  (s + 1) % Cardinality(Service) \in Service
<1>1. Cardinality(Service) \in Nat /\ Cardinality(Service) # 0
  BY PlainServiceAssumption, FS_CardinalityType, FS_EmptySet
<1>2. s + 1 \in Int
  BY <1>1, PlainServiceAssumption
<1>3. (s + 1) % Cardinality(Service) \in 0..(Cardinality(Service) - 1)
  BY <1>1, <1>2
<1> QED
  BY <1>3, PlainServiceAssumption

LEMMA RequestKeeps ==
    ASSUME IInv, NEW c \in Caller, NEW op \in Op[c], Request(c, op)
    PROVE  IInv'
<1>1. /\ Sends(c, assumedLeader[c], call[c].request + 1, op, Len(committed), handler)
      /\ UNCHANGED <<logVars, assumedLeader, outcome, commitSubs, storeVars,
                     faultVars>>
  BY DEF Request
<1>2. /\ assumedLeader \in [Caller -> Service] /\ assumedLeader[c] \in Service
      /\ handler \in [Service -> [Caller -> HandlerRecord]]
      /\ call[c].request + 1 \in Nat /\ Len(committed) \in Nat
  <2>1. call[c] \in CallRecord /\ committed \in Seq(Entry)
    BY DEF IInv, TypeInv, LogType
  <2>2. call[c].request \in Nat
    BY <2>1 DEF CallRecord
  <2> QED
    BY <2>1, <2>2 DEF IInv, TypeInv
<1>3. op \in AnyOp
  BY OpAssumption DEF AnyOp
<1>4. ChangedFor(handler, c, Handlers(c)) /\ Len(committed) <= Len(committed)
  BY <1>2, HandlersType DEF ChangedFor
<1>5. UNCHANGED logged /\ UNCHANGED outcome /\ assumedLeader' \in [Caller -> Service]
  BY <1>1, <1>2 DEF logged, logVars, faultVars
<1> QED
  BY <1>1, <1>2, <1>3, <1>4, <1>5, HandlersType, SendsKeeps

\* On to the next address, from the handlers h.
LEMMA MovesKeeps ==
    ASSUME IInv, NEW c \in Caller,
           NEW h, NEW hs, ChangedFor(h, c, hs),
           CallerInv(c, call[c], hs, outcome[c]),
           Moves(c, h), call[c].pc = "waiting", UNCHANGED logged
    PROVE  IInv'
<1> DEFINE next == (assumedLeader[c] + 1) % Cardinality(Service)
<1>1. /\ assumedLeader' = [assumedLeader EXCEPT ![c] = next]
      /\ Sends(c, next, call[c].request, call[c].op, call[c].since, h)
      /\ UNCHANGED outcome
  BY DEF Moves
<1>2. assumedLeader \in [Caller -> Service] /\ assumedLeader[c] \in Service
  BY DEF IInv, TypeInv
<1>3. next \in Service
  BY <1>2, NextService
<1> HIDE DEF next
<1>4. assumedLeader' \in [Caller -> Service]
  BY <1>1, <1>2, <1>3
<1>5. call[c].request \in Nat /\ call[c].op \in AnyOp /\ call[c].since \in Nat
  BY HandlersType DEF CallRecord
<1>6. call[c].since <= Len(committed)
  BY DEF CallerInv, Numbered
<1> QED
  BY <1>1, <1>3, <1>4, <1>5, <1>6, SendsKeeps

\* The handlers after the client has hung up.
LEMMA HungUpInv ==
    ASSUME IInv, NEW c \in Caller
    PROVE  \E hs : /\ ChangedFor(HungUp(c), c, hs)
                   /\ CallerInv(c, call[c], hs, outcome[c])
<1> DEFINE s == call[c].target
           b == handler[s][c].cancelled \/ handler[s][c].attempt = call[c].attempt
           hs == Handlers(c)
           r == [hs[s] EXCEPT !.cancelled = b]
           g == [hs EXCEPT ![s] = r]
<1>1. /\ handler \in [Service -> [Caller -> HandlerRecord]] /\ call[c] \in CallRecord
      /\ hs \in [Service -> HandlerRecord] /\ \A t \in Service : hs[t] = handler[t][c]
      /\ CallerInv(c, call[c], hs, outcome[c]) /\ outcome[c] \in OutcomeRecord
  BY HandlersType DEF IInv, TypeInv
<1>2. s \in Service
  BY <1>1 DEF CallRecord
<1>3. b \in BOOLEAN
  <2>1. handler[s][c] \in HandlerRecord
    BY <1>1, <1>2
  <2> QED
    BY <2>1 DEF HandlerRecord
<1>4. HungUp(c) = [handler EXCEPT ![s] = [handler[s] EXCEPT ![c] = r]]
  BY <1>1, <1>2 DEF HungUp, HandlerRecord
<1> HIDE DEF b, hs
<1>5. g \in [Service -> HandlerRecord] /\ CallerInv(c, call[c], g, outcome[c])
  BY <1>1, <1>2, <1>3, CancelInv
<1> HIDE DEF r
<1>6. r \in HandlerRecord /\ g[s] = r /\ \A t \in Service \ {s} : g[t] = hs[t]
  BY <1>1, <1>2, <1>5
<1> HIDE DEF g, s
<1>7. /\ HungUp(c) \in [Service -> [Caller -> HandlerRecord]]
      /\ \A t \in Service : HungUp(c)[t][c] = g[t]
      /\ \A t \in Service, d \in Caller \ {c} : HungUp(c)[t][d] = handler[t][d]
  BY <1>1, <1>2, <1>4, <1>6
<1> QED
  BY <1>5, <1>7 DEF ChangedFor

LEMMA RetryKeeps ==
    ASSUME IInv, NEW c \in Caller, Retry(c)
    PROVE  IInv'
<1>1. /\ Moves(c, HungUp(c)) /\ call[c].pc = "waiting" /\ UNCHANGED logged
  BY DEF Retry, logged, logVars, faultVars
<1> QED
  BY <1>1, HungUpInv, MovesKeeps

\* The request returns, and the handlers are h.
LEMMA ReturnsKeeps ==
    ASSUME IInv, NEW c \in Caller, NEW h, NEW hs, ChangedFor(h, c, hs),
           CallerInv(c, call[c], hs, outcome[c]), handler' = h,
           NEW status \in {"OK", "FailedCommit", "Error"}, NEW result \in StoreSet,
           NEW alone \in BOOLEAN, alone = handler[call[c].target][c].alone,
           Returns(c, status, result), UNCHANGED logged,
           \A o \in OutcomeRecord :
              /\ o.status = status /\ o.request = call[c].request
              /\ o.attempt = call[c].attempt /\ o.since = call[c].since
              /\ o.alone = alone /\ o.result = result
              => OKInv(c, o) /\ LastInv(c, hs, o) /\ FailedInv(c, call[c], hs, o)
    PROVE  IInv'
<1> DEFINE k == call[c]
           k2 == [call[c] EXCEPT !.pc = "idle"]
           o2 == [status |-> status, request |-> k.request, result |-> result,
                  attempt |-> k.attempt, since |-> k.since, alone |-> alone]
<1>1. /\ call' = [call EXCEPT ![c] = k2] /\ outcome' = [outcome EXCEPT ![c] = o2]
      /\ UNCHANGED assumedLeader
  BY DEF Returns
<1>2. /\ call \in [Caller -> CallRecord] /\ k \in CallRecord
      /\ outcome \in [Caller -> OutcomeRecord] /\ assumedLeader \in [Caller -> Service]
  BY DEF IInv, TypeInv
<1>3. /\ k2 \in CallRecord /\ k2.attempt = k.attempt /\ k2.since = k.since
      /\ k2.request = k.request /\ k2.pc = "idle"
  BY <1>2 DEF CallRecord
<1>4. k.request \in Nat /\ k.attempt \in Nat /\ k.since \in Nat
  BY <1>2 DEF CallRecord
<1> HIDE DEF k, k2
<1>5. o2 \in OutcomeRecord
  BY <1>4 DEF OutcomeRecord
<1>6. /\ OKInv(c, o2) /\ LastInv(c, hs, o2) /\ FailedInv(c, k, hs, o2)
      /\ OrderInv(k2, o2)
  BY <1>3, <1>4, <1>5 DEF k, OrderInv
<1> HIDE DEF o2
<1>7. CallerInv(c, k2, hs, o2)
  <2>1. Numbered(c, k2) /\ FailedInv(c, k2, hs, o2)
    BY <1>3, <1>6 DEF k, CallerInv, Numbered, FailedInv
  <2>2. ASSUME NEW s \in Service PROVE HandlerInv(s, c, hs[s], k2)
    <3>1. HandlerInv(s, c, hs[s], k)
      BY DEF k, CallerInv
    <3>2. StaysAlone(s, c, hs[s], k) => StaysAlone(s, c, hs[s], k2)
      BY <1>3 DEF StaysAlone
    <3> QED
      BY <3>1, <3>2, <1>3 DEF HandlerInv
  <2> QED
    BY <2>1, <2>2, <1>6 DEF CallerInv
<1>8. /\ call' \in [Caller -> CallRecord] /\ call'[c] = k2
      /\ outcome' \in [Caller -> OutcomeRecord] /\ outcome'[c] = o2
      /\ assumedLeader' \in [Caller -> Service]
      /\ \A d \in Caller \ {c} : call'[d] = call[d] /\ outcome'[d] = outcome[d]
  BY <1>1, <1>2, <1>3, <1>5
<1>9. CallerInv(c, call'[c], hs, outcome'[c])
  BY <1>7, <1>8
<1>10. /\ handler' \in [Service -> [Caller -> HandlerRecord]]
       /\ hs \in [Service -> HandlerRecord]
       /\ \A t \in Service : handler'[t][c] = hs[t]
       /\ \A t \in Service, d \in Caller \ {c} : handler'[t][d] = handler[t][d]
  BY DEF ChangedFor
<1> QED
  BY <1>8, <1>9, <1>10, ClientStep

\* The handler that answered is known to be alone, or not to be.
LEMMA AloneType ==
    ASSUME IInv, NEW c \in Caller
    PROVE  handler[call[c].target][c].alone \in BOOLEAN
<1>1. call[c] \in CallRecord /\ handler \in [Service -> [Caller -> HandlerRecord]]
  BY DEF IInv, TypeInv
<1>2. call[c].target \in Service
  BY <1>1 DEF CallRecord
<1>3. handler[call[c].target][c] \in HandlerRecord
  BY <1>1, <1>2
<1> QED
  BY <1>3 DEF HandlerRecord

\* An error says nothing.
LEMMA ErrorKeeps ==
    ASSUME IInv, NEW c \in Caller, NEW h, NEW hs, ChangedFor(h, c, hs),
           CallerInv(c, call[c], hs, outcome[c]), handler' = h,
           Returns(c, "Error", Absent), UNCHANGED logged
    PROVE  IInv'
<1>1. \A o \in OutcomeRecord :
         o.status = "Error" =>
            OKInv(c, o) /\ LastInv(c, hs, o) /\ FailedInv(c, call[c], hs, o)
  BY DEF OKInv, LastInv, FailedInv
<1>2. Absent \in StoreSet
  BY DEF StoreSet
<1> QED
  BY <1>1, <1>2, AloneType, ReturnsKeeps

LEMMA BailOutKeeps ==
    ASSUME IInv, NEW c \in Caller, BailOut(c)
    PROVE  IInv'
<1>1. /\ Returns(c, "Error", Absent) /\ handler' = HungUp(c) /\ UNCHANGED logged
  BY DEF BailOut, logged, logVars, faultVars
<1> QED
  BY <1>1, HungUpInv, ErrorKeeps

\* The handlers after the one at s is done.
LEMMA DoneInv ==
    ASSUME IInv, NEW c \in Caller, NEW s \in Service
    PROVE  /\ ChangedFor([handler EXCEPT ![s][c] = NoHandler], c,
                         [Handlers(c) EXCEPT ![s] = NoHandler])
           /\ CallerInv(c, call[c], [Handlers(c) EXCEPT ![s] = NoHandler], outcome[c])
<1> DEFINE h == [handler EXCEPT ![s][c] = NoHandler]
           g == [Handlers(c) EXCEPT ![s] = NoHandler]
<1>1. /\ handler \in [Service -> [Caller -> HandlerRecord]]
      /\ call[c] \in CallRecord /\ NoHandler \in HandlerRecord
  BY NoHandlerInv DEF IInv, TypeInv
<1>2. /\ Handlers(c) \in [Service -> HandlerRecord]
      /\ \A t \in Service : Handlers(c)[t] = handler[t][c]
      /\ CallerInv(c, call[c], Handlers(c), outcome[c])
      /\ outcome[c] \in OutcomeRecord
  BY HandlersType
<1>3. g \in [Service -> HandlerRecord] /\ CallerInv(c, call[c], g, outcome[c])
  <2> HIDE DEF Handlers
  <2> QED
    BY <1>1, <1>2, ClearInv
<1>4. ChangedFor(h, c, g)
  <2> HIDE DEF NoHandler, Handlers
  <2> QED
    BY <1>1, <1>2, <1>3 DEF ChangedFor
<1> QED
  BY <1>3, <1>4

\* What the handler of c at s says is true of the request it answers.
IsTrue(s, c, status, result) ==
    \A o \in OutcomeRecord :
        /\ call[c].attempt = handler[s][c].attempt
        /\ o.status = status /\ o.request = call[c].request
        /\ o.attempt = call[c].attempt /\ o.since = call[c].since
        /\ o.alone = handler[s][c].alone /\ o.result = result
        => LET hs == [Handlers(c) EXCEPT ![s] = NoHandler]
           IN  OKInv(c, o) /\ LastInv(c, hs, o) /\ FailedInv(c, call[c], hs, o)

\* The answer of a handler.
LEMMA AnswersKeeps ==
    ASSUME IInv, NEW c \in Caller, NEW s \in Service,
           NEW status \in {"OK", "FailedCommit", "Error", "NotLeader"},
           NEW result \in StoreSet, Answers(s, c, status, result),
           IsTrue(s, c, status, result), UNCHANGED logged
    PROVE  IInv'
<1> DEFINE h == [handler EXCEPT ![s][c] = NoHandler]
           hs == [Handlers(c) EXCEPT ![s] = NoHandler]
           awaited == /\ call[c].pc = "waiting" /\ call[c].target = s
                      /\ call[c].attempt = handler[s][c].attempt
<1>1. ChangedFor(h, c, hs) /\ CallerInv(c, call[c], hs, outcome[c])
  BY DoneInv
<1>2. handler[call[c].target][c].alone \in BOOLEAN
  BY AloneType
<1>3. \/ handler' = h /\ UNCHANGED clientVars
      \/ handler' = h /\ Returns(c, "Error", Absent)
      \/ call[c].pc = "waiting" /\ Moves(c, h)
      \/ awaited /\ status # "NotLeader" /\ handler' = h /\ Returns(c, status, result)
  BY DEF Answers
<1>4. CASE handler' = h /\ UNCHANGED clientVars
  <2>1. /\ handler' \in [Service -> [Caller -> HandlerRecord]]
        /\ hs \in [Service -> HandlerRecord]
        /\ \A t \in Service : handler'[t][c] = hs[t]
        /\ \A t \in Service, d \in Caller \ {c} : handler'[t][d] = handler[t][d]
    BY <1>1, <1>4 DEF ChangedFor
  <2>2. UNCHANGED <<call, assumedLeader, outcome>>
    BY <1>4 DEF clientVars
  <2>3. /\ call' \in [Caller -> CallRecord] /\ assumedLeader' \in [Caller -> Service]
        /\ outcome' \in [Caller -> OutcomeRecord]
        /\ \A d \in Caller \ {c} : call'[d] = call[d] /\ outcome'[d] = outcome[d]
    BY <2>2 DEF IInv, TypeInv
  <2>4. CallerInv(c, call'[c], hs, outcome'[c])
    BY <2>2, <1>1
  <2> HIDE DEF h, hs
  <2> QED
    BY <2>1, <2>3, <2>4, ClientStep
<1>5. CASE handler' = h /\ Returns(c, "Error", Absent)
  <2> HIDE DEF h, hs
  <2> QED
    BY <1>1, <1>5, ErrorKeeps
<1>6. CASE call[c].pc = "waiting" /\ Moves(c, h)
  <2> HIDE DEF h, hs
  <2> QED
    BY <1>1, <1>6, MovesKeeps
<1>7. CASE awaited /\ status # "NotLeader" /\ handler' = h /\ Returns(c, status, result)
  <2>1. \A o \in OutcomeRecord :
           /\ o.status = status /\ o.request = call[c].request
           /\ o.attempt = call[c].attempt /\ o.since = call[c].since
           /\ o.alone = handler[call[c].target][c].alone /\ o.result = result
           => OKInv(c, o) /\ LastInv(c, hs, o) /\ FailedInv(c, call[c], hs, o)
    BY <1>7 DEF IsTrue
  <2>2. status \in {"OK", "FailedCommit", "Error"}
    BY <1>7
  <2> HIDE DEF h, hs
  <2> QED
    BY <2>1, <2>2, <1>1, <1>2, <1>7, ReturnsKeeps
<1> QED
  BY <1>3, <1>4, <1>5, <1>6, <1>7

LEMMA NotLeaderKeeps ==
    ASSUME IInv, NEW c \in Caller, NEW s \in Service, NotLeader(s, c)
    PROVE  IInv'
<1>1. Answers(s, c, "NotLeader", Absent) /\ UNCHANGED logged
  BY DEF NotLeader, logged, logVars, faultVars
<1>2. Absent \in StoreSet
  BY DEF StoreSet
<1>3. IsTrue(s, c, "NotLeader", Absent)
  BY DEF IsTrue, OKInv, LastInv, FailedInv
<1> QED
  BY <1>1, <1>2, <1>3, AnswersKeeps

LEMMA SubscriptionPanicsKeeps ==
    ASSUME IInv, NEW c \in Caller, NEW s \in Service, SubscriptionPanics(s, c)
    PROVE  IInv'
<1>1. Answers(s, c, "Error", Absent) /\ UNCHANGED logged
  BY DEF SubscriptionPanics, logged, logVars, faultVars
<1>2. Absent \in StoreSet
  BY DEF StoreSet
<1>3. IsTrue(s, c, "Error", Absent)
  BY DEF IsTrue, OKInv, LastInv, FailedInv
<1> QED
  BY <1>1, <1>2, <1>3, AnswersKeeps

LEMMA HandlerAnswersKeeps ==
    ASSUME IInv, NEW c \in Caller, NEW s \in Service, HandlerAnswers(s, c)
    PROVE  IInv'
<1> DEFINE h == handler[s][c]
           k == call[c]
           hs == [Handlers(c) EXCEPT ![s] = NoHandler]
<1>1. /\ h.pc = "waiting" /\ h.chan # <<>> /\ UNCHANGED logged
      /\ IF h.chan[1].id = s THEN Answers(s, c, "OK", h.chan[2])
                             ELSE Answers(s, c, "FailedCommit", Absent)
  BY DEF HandlerAnswers, IsOwn, logged, logVars, faultVars
<1>2. /\ Handlers(c) \in [Service -> HandlerRecord]
      /\ \A t \in Service : Handlers(c)[t] = handler[t][c]
      /\ CallerInv(c, k, Handlers(c), outcome[c]) /\ k \in CallRecord
      /\ LogType(Entry) /\ CurrentHolds
  BY HandlersType DEF IInv, TypeInv
<1>3. HandlerInv(s, c, h, k) /\ h \in HandlerRecord /\ DistinctAttempts(Handlers(c))
  BY <1>2 DEF CallerInv
<1>4. /\ Located(s, c, h) /\ StaysAlone(s, c, h, k) /\ h.index <= Len(committed)
      /\ h.chan = <<committed[h.index], StoreAfter[h.index - 1]>>
      /\ h.attempt = k.attempt => h.request = k.request
      /\ h.attempt <= k.attempt
  BY <1>1, <1>3 DEF HandlerInv, ChanInv
<1>5. /\ h.index \in Nat /\ h.index \in 1..Len(committed) /\ Len(committed) \in Nat
      /\ k.since \in Nat
  <2>1. committed \in Seq(Entry)
    BY <1>2 DEF LogType
  <2>2. h.index \in Nat /\ k.since \in Nat
    BY <1>2, <1>3 DEF HandlerRecord, CallRecord
  <2> QED
    BY <2>1, <2>2, <1>4 DEF Located, Index
<1>6. /\ hs[s].pc = "idle"
      /\ \A t \in Service \ {s} : hs[t] = handler[t][c]
  BY <1>2 DEF NoHandler
<1>7. Absent \in StoreSet /\ h.chan[2] \in StoreSet
  <2>1. h.index - 1 \in 0..Len(committed)
    BY <1>5
  <2> QED
    BY <2>1, <1>2, <1>4, StoreAfterStep DEF StoreSet
<1>8. \A i \in 1..Len(committed) :
         \E u \in Service : i \in 1..Len(log[u]) /\ log[u][i] = committed[i]
  BY <1>2, CommittedIsHeld
<1>9. \A i \in 1..Len(committed) :
         committed[i].from = Mark(c, h) => i = h.index /\ committed[i].id = s
  <2> SUFFICES ASSUME NEW i \in 1..Len(committed), committed[i].from = Mark(c, h)
               PROVE  i = h.index /\ committed[i].id = s
    OBVIOUS
  <2>1. PICK u \in Service : i \in 1..Len(log[u]) /\ log[u][i] = committed[i]
    BY <1>8
  <2> QED
    BY <2>1, <1>4 DEF Located
<1>10. \A t \in Service : hs[t].pc # "idle" =>
          hs[t].attempt # h.attempt /\ hs[t].attempt <= k.attempt
  <2> SUFFICES ASSUME NEW t \in Service, hs[t].pc # "idle"
               PROVE  hs[t].attempt # h.attempt /\ hs[t].attempt <= k.attempt
    OBVIOUS
  <2>1. t # s /\ hs[t] = Handlers(c)[t] /\ Handlers(c)[s].pc # "idle"
    BY <1>1, <1>2, <1>6
  <2>2. hs[t].attempt # Handlers(c)[s].attempt
    BY <2>1, <1>3 DEF DistinctAttempts
  <2>3. HandlerInv(t, c, Handlers(c)[t], k)
    BY <1>2 DEF CallerInv
  <2>4. hs[t].attempt <= k.attempt
    BY <2>1, <2>3 DEF HandlerInv
  <2> QED
    BY <2>2, <2>4, <1>2
<1>11. CASE h.chan[1].id = s
  <2>1. committed[h.index].id = s
    BY <1>4, <1>11
  <2>2. ASSUME NEW o \in OutcomeRecord, k.attempt = h.attempt,
               o.status = "OK", o.request = k.request, o.since = k.since,
               o.attempt = k.attempt, o.alone = h.alone, o.result = h.chan[2]
        PROVE  OKInv(c, o) /\ LastInv(c, hs, o) /\ FailedInv(c, k, hs, o)
    <3>1. FailedInv(c, k, hs, o)
      BY <2>2 DEF FailedInv
    <3>2. ASSUME h.alone PROVE OKInv(c, o)
      <4>1. k.since < h.index
        BY <3>2, <2>1, <2>2, <1>4 DEF StaysAlone
      <4>2. PICK u \in Service :
               h.index \in 1..Len(log[u]) /\ log[u][h.index] = committed[h.index]
        BY <1>5, <1>8
      <4>3. log[u] \in Seq(Entry) /\ Len(log[u]) \in Nat
        BY <1>2 DEF LogType
      <4>4. committed[h.index].from = Mark(c, h)
        BY <4>2, <4>3, <3>2, <2>1, <1>4, <1>5 DEF StaysAlone
      <4>5. /\ h.index \in (o.since + 1)..Len(committed)
            /\ committed[h.index].from = <<c, o.request, o.attempt>>
            /\ o.result = StoreAfter[h.index - 1]
        BY <4>1, <4>4, <2>2, <1>4, <1>5 DEF Mark
      <4> QED
        BY <4>5 DEF OKInv
    <3>3. ~h.alone => OKInv(c, o)
      BY <2>2 DEF OKInv
    <3>4. <<c, o.request, o.attempt>> = Mark(c, h) /\ o.attempt = h.attempt
      BY <2>2, <1>4 DEF Mark
    <3>5. \A t \in Service : \A i \in 1..Len(log[t]) :
             /\ log[t][i].from[1] = c => log[t][i].from[3] <= k.attempt
             /\ log[t][i].from = Mark(c, h) => i <= Len(committed)
      BY <1>2, <1>4 DEF Located, CallerInv, Numbered
    <3>6. \A m, n \in 1..Len(committed) :
             committed[m].from = Mark(c, h) /\ committed[n].from = Mark(c, h) => m = n
      BY <1>9
    <3>7. LastInv(c, hs, o)
      <4> HIDE DEF hs, h, k
      <4> QED
        BY <3>4, <3>5, <3>6, <2>2, <1>10 DEF LastInv
    <3> QED
      BY <3>1, <3>2, <3>3, <3>7
  <2> DEFINE result == h.chan[2]
  <2>3. Answers(s, c, "OK", result) /\ result \in StoreSet
    BY <1>1, <1>7, <1>11
  <2>4. IsTrue(s, c, "OK", result)
    BY <2>2 DEF IsTrue
  <2> HIDE DEF h, k, hs, result
  <2> QED
    BY <2>3, <2>4, <1>1, AnswersKeeps
<1>12. CASE h.chan[1].id # s
  <2>1. committed[h.index].id # s
    BY <1>4, <1>12
  <2>2. ASSUME NEW o \in OutcomeRecord, k.attempt = h.attempt,
               o.status = "FailedCommit", o.request = k.request,
               o.attempt = k.attempt
        PROVE  OKInv(c, o) /\ LastInv(c, hs, o) /\ FailedInv(c, k, hs, o)
    <3>1. OKInv(c, o) /\ LastInv(c, hs, o)
      BY <2>2 DEF OKInv, LastInv
    <3>2. <<c, o.request, o.attempt>> = Mark(c, h) /\ o.attempt = h.attempt
      BY <2>2, <1>4 DEF Mark
    <3>3. \A t \in Service : hs[t].pc # "idle" => hs[t].attempt # o.attempt
      BY <3>2, <1>10
    <3>4. \A t \in Service : \A i \in 1..Len(log[t]) :
             log[t][i].from = Mark(c, h) => i <= Len(committed)
      BY <1>4 DEF Located
    <3>5. \A i \in 1..Len(committed) : committed[i].from # Mark(c, h)
      BY <1>9, <2>1
    <3> HIDE DEF hs, h, k
    <3>6. FailedInv(c, k, hs, o)
      BY <3>2, <3>3, <3>4, <3>5, <2>2, <1>4 DEF FailedInv
    <3> QED
      BY <3>1, <3>6
  <2>3. Answers(s, c, "FailedCommit", Absent)
    BY <1>1, <1>12
  <2>4. IsTrue(s, c, "FailedCommit", Absent)
    BY <2>2 DEF IsTrue
  <2> HIDE DEF h, k, hs
  <2> QED
    BY <2>3, <2>4, <1>1, <1>7, AnswersKeeps
<1> QED
  BY <1>11, <1>12

LEMMA HandlerCancelledKeeps ==
    ASSUME IInv, NEW c \in Caller, NEW s \in Service, HandlerCancelled(s, c)
    PROVE  IInv'
<1> DEFINE h == [handler EXCEPT ![s][c] = NoHandler]
           hs == [Handlers(c) EXCEPT ![s] = NoHandler]
<1>1. /\ handler' = h /\ UNCHANGED <<call, assumedLeader, outcome>> /\ UNCHANGED logged
  BY DEF HandlerCancelled, clientVars, logged, logVars, faultVars
<1>2. ChangedFor(h, c, hs) /\ CallerInv(c, call[c], hs, outcome[c])
  BY DoneInv
<1>3. /\ handler' \in [Service -> [Caller -> HandlerRecord]]
      /\ hs \in [Service -> HandlerRecord]
      /\ \A t \in Service : handler'[t][c] = hs[t]
      /\ \A t \in Service, d \in Caller \ {c} : handler'[t][d] = handler[t][d]
  BY <1>1, <1>2 DEF ChangedFor
<1>4. /\ call' \in [Caller -> CallRecord] /\ assumedLeader' \in [Caller -> Service]
      /\ outcome' \in [Caller -> OutcomeRecord]
      /\ \A d \in Caller \ {c} : call'[d] = call[d] /\ outcome'[d] = outcome[d]
  BY <1>1 DEF IInv, TypeInv
<1>5. CallerInv(c, call'[c], hs, outcome'[c])
  BY <1>1, <1>2
<1> HIDE DEF h, hs
<1> QED
  BY <1>1, <1>3, <1>4, <1>5, ClientStep

-----------------------------------------------------------------------------
(* The services' steps *)

\* The key of a service that executes nothing.
LEMMA NodeStays ==
    ASSUME IInv, LogType(Entry)', AgreedStays, CommittedStays, NEW s \in Service,
           data'[s] = data[s], applied'[s] = applied[s]
    PROVE  NodeInv(s)'
<1>1. /\ LogType(Entry) /\ Agrees(s, applied[s]) /\ applied[s] \in Nat
      /\ data[s] = StoreAfter[applied[s]]
  BY DEF IInv, TypeInv, NodeInv
<1>2. applied[s] \in 0..Len(committed)
  <2>1. committed \in Seq(Entry)
    BY <1>1 DEF LogType
  <2> QED
    BY <2>1, <1>1 DEF Agrees
<1>3. StoreAfter'[applied[s]] = StoreAfter[applied[s]]
  BY <1>1, <1>2, StoreStays
<1>4. Agrees(s, applied[s])'
  <2>1. \A n \in Nat : Agrees(s, n) => Agrees(s, n)'
    BY DEF AgreedStays
  <2>2. SubSeq(log'[s], 1, applied[s]) = SubSeq(committed', 1, applied[s])
        /\ applied[s] <= Len(log'[s]) /\ applied[s] <= Len(committed')
    BY <2>1, <1>1 DEF Agrees
  <2> QED
    BY <2>2 DEF Agrees
<1> QED
  BY <1>1, <1>3, <1>4 DEF NodeInv, Agrees

\* A step of the logs and the services.  The handlers change as they like, if
\* what is known of the callers stays true of the state before it.
LEMMA ServiceStep ==
    ASSUME IInv, LogType(Entry)', CurrentHolds',
           CommittedStays, LeadersAppend, NothingNew, SubsEnd,
           UNCHANGED clientVars,
           data' \in [Service -> StoreSet], applied' \in [Service -> Nat],
           handler' \in [Service -> [Caller -> HandlerRecord]],
           DOMAIN commitSubs' = Service,
           \A s \in Service : DOMAIN commitSubs'[s] = Index,
           alive' \subseteq Service,
           \A s \in Service : NodeInv(s)',
           \A s \in leaders' \ leaders, c \in Caller :
              handler'[s][c].pc \in {"idle", "received"},
           \A c \in Caller : CallerInv(c, call[c], Handlers(c)', outcome[c])
    PROVE  IInv'
<1>1. TypeInv /\ UNCHANGED <<call, assumedLeader, outcome>>
  BY DEF IInv, clientVars
<1>2. TypeInv'
  <2>1. \A s \in Service, i \in Index : commitSubs'[s][i].attempt \in Nat
    <3>1. NoSub.attempt \in Nat
      BY DEF NoSub
    <3>2. \A s \in Service, i \in Index : commitSubs[s][i].attempt \in Nat
      BY <1>1 DEF TypeInv
    <3> HIDE DEF NoSub
    <3> QED
      BY <3>1, <3>2 DEF SubsEnd
  <2>2. LogsBounded'
    BY <1>1, BoundStays DEF TypeInv
  <2> QED
    BY <2>1, <2>2, <1>1 DEF TypeInv
<1>3. ASSUME NEW c \in Caller
      PROVE  CallerInv(c, call[c], Handlers(c), outcome[c])'
  <2>1. /\ call[c] \in CallRecord /\ outcome[c] \in OutcomeRecord
        /\ Handlers(c)' \in [Service -> HandlerRecord]
        /\ \A s \in Service : Handlers(c)'[s] = handler'[s][c]
    BY <1>1 DEF TypeInv, Handlers
  <2>2. \A k \in CallRecord, g \in [Service -> HandlerRecord], o \in OutcomeRecord :
           /\ CallerInv(c, k, g, o)
           /\ \A s \in Service : s \in leaders' \ leaders =>
                 g[s].pc \in {"idle", "received"}
           => CallerInv(c, k, g, o)'
    BY <1>1, CallerStays
  <2>3. \A s \in Service : s \in leaders' \ leaders =>
           Handlers(c)'[s].pc \in {"idle", "received"}
    BY <2>1
  <2>4. call'[c] = call[c] /\ outcome'[c] = outcome[c]
    BY <1>1
  <2> HIDE DEF Handlers
  <2> QED
    BY <2>1, <2>2, <2>3, <2>4
<1> QED
  BY <1>2, <1>3 DEF IInv

LEMMA SameHandlers ==
    ASSUME IInv, UNCHANGED handler
    PROVE  \A c \in Caller : CallerInv(c, call[c], Handlers(c)', outcome[c])
<1>1. \A c \in Caller : Handlers(c)' = Handlers(c)
  BY DEF Handlers
<1> HIDE DEF Handlers
<1> QED
  BY <1>1 DEF IInv

LEMMA LogStepKeeps ==
    ASSUME IInv, LogStep
    PROVE  IInv'
<1>1. /\ LogNext /\ UNCHANGED <<clientVars, handler, commitSubs, data, applied, alive>>
      /\ \A s \in Service : s \in leaders' \ leaders =>
            \A c \in Caller : handler[s][c].pc \in {"idle", "received"}
  BY DEF LogStep, storeVars, faultVars
<1>2. TypeInv /\ LogType(Entry) /\ CurrentHolds
  BY DEF IInv, TypeInv
<1>3. /\ LogType(Entry)' /\ AgreedStays /\ CommittedStays /\ LeadersAppend
      /\ CurrentHolds' /\ NothingNew
  BY <1>1, <1>2, LogNextKeeps, LogNextNothingNew
<1>4. SubsEnd
  BY <1>1 DEF SubsEnd
<1>5. \A s \in Service : NodeInv(s)'
  BY <1>1, <1>3, NodeStays
<1>6. \A c \in Caller : CallerInv(c, call[c], Handlers(c)', outcome[c])
  BY <1>1, SameHandlers
<1>7. leaders' \ leaders \subseteq Service
  BY <1>1 DEF LogNext, Commit, Elect, StepDown, Replicate
<1>8. \A s \in leaders' \ leaders, c \in Caller :
         handler'[s][c].pc \in {"idle", "received"}
  BY <1>1, <1>7
<1>9. /\ data' \in [Service -> StoreSet] /\ applied' \in [Service -> Nat]
      /\ handler' \in [Service -> [Caller -> HandlerRecord]]
      /\ DOMAIN commitSubs' = Service
      /\ \A s \in Service : DOMAIN commitSubs'[s] = Index
      /\ alive' \subseteq Service
  BY <1>1, <1>2 DEF TypeInv
<1> QED
  BY <1>1, <1>3, <1>4, <1>5, <1>6, <1>8, <1>9, ServiceStep

\* A step that leaves the logs alone.
LEMMA LogsStay ==
    ASSUME IInv, UNCHANGED <<log, committed, current>>
    PROVE  /\ LogType(Entry) /\ LogType(Entry)' /\ AgreedStays /\ CommittedStays
           /\ LeadersAppend /\ CurrentHolds' /\ NothingNew
<1>1. LogType(Entry) /\ CurrentHolds
  BY DEF IInv, TypeInv
<1>2. NothingNew
  BY DEF NothingNew
<1> QED
  BY <1>1, <1>2, UnchangedKeeps

LEMMA ToggleKeeps ==
    ASSUME IInv, NEW s \in Service, ToggleHTTPResponses(s)
    PROVE  IInv'
<1>1. UNCHANGED <<log, committed, current, leaders, clientVars, handler, commitSubs,
                  data, applied, alive>>
  BY DEF ToggleHTTPResponses, logVars, storeVars
<1>2. /\ LogType(Entry)' /\ AgreedStays /\ CommittedStays /\ LeadersAppend
      /\ CurrentHolds' /\ NothingNew
  BY <1>1, LogsStay
<1>3. SubsEnd
  BY <1>1 DEF SubsEnd
<1>4. \A t \in Service : NodeInv(t)'
  BY <1>1, <1>2, NodeStays
<1>5. \A c \in Caller : CallerInv(c, call[c], Handlers(c)', outcome[c])
  BY <1>1, SameHandlers
<1>6. /\ data' \in [Service -> StoreSet] /\ applied' \in [Service -> Nat]
      /\ handler' \in [Service -> [Caller -> HandlerRecord]]
      /\ DOMAIN commitSubs' = Service
      /\ \A t \in Service : DOMAIN commitSubs'[t] = Index
      /\ alive' \subseteq Service /\ leaders' \ leaders = {}
  BY <1>1 DEF IInv, TypeInv
<1> QED
  BY <1>1, <1>2, <1>3, <1>4, <1>5, <1>6, ServiceStep

LEMMA RestartKeeps ==
    ASSUME IInv, NEW s \in Service, RestartService(s)
    PROVE  IInv'
<1>1. /\ UNCHANGED <<log, committed, current, leaders, clientVars, handler>>
      /\ data' = [data EXCEPT ![s] = Absent] /\ applied' = [applied EXCEPT ![s] = 0]
      /\ commitSubs' = [commitSubs EXCEPT ![s] = [n \in Index |-> NoSub]]
      /\ alive' = alive \cup {s}
  BY DEF RestartService, New, logVars
<1>2. TypeInv /\ LogType(Entry)
  BY DEF IInv, TypeInv
<1>3. /\ LogType(Entry)' /\ AgreedStays /\ CommittedStays /\ LeadersAppend
      /\ CurrentHolds' /\ NothingNew
  BY <1>1, LogsStay
<1>4. Absent \in StoreSet
  BY DEF StoreSet
<1>5. /\ data' \in [Service -> StoreSet] /\ applied' \in [Service -> Nat]
      /\ handler' \in [Service -> [Caller -> HandlerRecord]]
      /\ DOMAIN commitSubs' = Service
      /\ \A t \in Service : DOMAIN commitSubs'[t] = Index
      /\ alive' \subseteq Service /\ leaders' \ leaders = {}
  BY <1>1, <1>2, <1>4 DEF TypeInv
<1>6. SubsEnd
  BY <1>1, <1>2 DEF TypeInv, SubsEnd
<1>7. ASSUME NEW t \in Service PROVE NodeInv(t)'
  <2>1. CASE t # s
    <3>1. data'[t] = data[t] /\ applied'[t] = applied[t]
      BY <2>1, <1>1, <1>2 DEF TypeInv
    <3> QED
      BY <3>1, <1>3, NodeStays
  <2>2. CASE t = s
    <3>1. data'[s] = Absent /\ applied'[s] = 0
      BY <1>1, <1>2 DEF TypeInv
    <3>2. Agrees(s, 0)'
      <4>1. log'[s] \in Seq(Entry) /\ committed' \in Seq(Entry)
        BY <1>3 DEF LogType
      <4>2. 0 <= Len(log'[s]) /\ 0 <= Len(committed')
        BY <4>1
      <4>3. Agrees(s, 0)' <=> /\ 0 <= Len(log'[s]) /\ 0 <= Len(committed')
                              /\ \A i \in 1..0 : log'[s][i] = committed'[i]
        BY <1>3, AgreesPointwiseNext
      <4> QED
        BY <4>2, <4>3
    <3>3. StoreAfter' = StoreAfter /\ StoreAfter[0] = Absent
      BY <1>1, <1>2, StoreAfterStep DEF StoreAfter
    <3> QED
      BY <2>2, <3>1, <3>2, <3>3 DEF NodeInv
  <2> QED
    BY <2>1, <2>2
<1>8. \A c \in Caller : CallerInv(c, call[c], Handlers(c)', outcome[c])
  BY <1>1, SameHandlers
<1> QED
  BY <1>1, <1>3, <1>5, <1>6, <1>7, <1>8, ServiceStep

LEMMA CrashKeeps ==
    ASSUME IInv, NEW s \in Service, Crash(s)
    PROVE  IInv'
<1>1. /\ UNCHANGED <<log, committed, current, clientVars, commitSubs, data, applied>>
      /\ alive' = alive \ {s} /\ leaders' = leaders \ {s}
      /\ handler' = [handler EXCEPT ![s] = [c \in Caller |-> NoHandler]]
  BY DEF Crash, storeVars
<1>2. TypeInv /\ NoHandler \in HandlerRecord
  <2>1. Get \in AnyOp
    BY DEF AnyOp
  <2> QED
    BY <2>1 DEF IInv, NoHandler, HandlerRecord
<1> HIDE DEF NoHandler
<1>3. /\ LogType(Entry)' /\ AgreedStays /\ CommittedStays /\ LeadersAppend
      /\ CurrentHolds' /\ NothingNew
  BY <1>1, LogsStay
<1>4. SubsEnd
  BY <1>1 DEF SubsEnd
<1>5. \A t \in Service : NodeInv(t)'
  BY <1>1, <1>3, NodeStays
<1>6. /\ data' \in [Service -> StoreSet] /\ applied' \in [Service -> Nat]
      /\ handler' \in [Service -> [Caller -> HandlerRecord]]
      /\ DOMAIN commitSubs' = Service
      /\ \A t \in Service : DOMAIN commitSubs'[t] = Index
      /\ alive' \subseteq Service /\ leaders' \ leaders = {}
  BY <1>1, <1>2 DEF TypeInv
<1>7. ASSUME NEW c \in Caller
      PROVE  CallerInv(c, call[c], Handlers(c)', outcome[c])
  <2>1. /\ Handlers(c) \in [Service -> HandlerRecord]
        /\ \A t \in Service : Handlers(c)[t] = handler[t][c]
        /\ CallerInv(c, call[c], Handlers(c), outcome[c])
        /\ call[c] \in CallRecord /\ outcome[c] \in OutcomeRecord
    BY HandlersType
  <2>2. Handlers(c)' = [Handlers(c) EXCEPT ![s] = NoHandler]
    BY <1>1, <1>2 DEF TypeInv, Handlers
  <2> HIDE DEF Handlers
  <2>3. CallerInv(c, call[c], [Handlers(c) EXCEPT ![s] = NoHandler], outcome[c])
    BY <2>1, ClearInv
  <2> QED
    BY <2>2, <2>3
<1> QED
  BY <1>1, <1>3, <1>4, <1>5, <1>6, <1>7, ServiceStep

LEMMA UpdateKeeps ==
    ASSUME IInv, NEW s \in Service, Update(s)
    PROVE  IInv'
<1> DEFINE n == applied[s] + 1
           cmd == committed[n]
           got == <<cmd, data[s]>>
<1>1. /\ UNCHANGED <<log, committed, current, leaders, clientVars, alive>>
      /\ Agrees(s, n)
      /\ data' = [data EXCEPT ![s] = Executed(data[s], cmd.op)]
      /\ applied' = [applied EXCEPT ![s] = n]
      /\ handler' = [handler EXCEPT ![s] = Delivered(s, n, cmd)]
      /\ commitSubs' = [commitSubs EXCEPT ![s][n] = NoSub]
  <2>1. data' = [data EXCEPT ![s] = Executed(@, cmd.op)]
    BY DEF Update
  <2>2. data \in [Service -> StoreSet]
    BY DEF IInv, TypeInv
  <2> QED
    BY <2>1, <2>2 DEF Update, logVars, faultVars
<1>2. TypeInv /\ LogType(Entry) /\ Agrees(s, applied[s]) /\ data[s] = StoreAfter[applied[s]]
  BY DEF IInv, TypeInv, NodeInv
<1>3. /\ applied[s] \in Nat /\ n \in Nat /\ n \in 1..Len(committed) /\ n - 1 = applied[s]
      /\ Len(committed) \in Nat /\ data[s] \in StoreSet
  <2>1. committed \in Seq(Entry) /\ applied[s] \in Nat /\ data[s] \in StoreSet
    BY <1>2 DEF TypeInv, LogType
  <2> QED
    BY <2>1, <1>1 DEF Agrees
<1>4. cmd \in Entry /\ cmd.op \in AnyOp /\ got \in Entry \X StoreSet
  <2>1. cmd \in Entry
    BY <1>2, <1>3 DEF LogType
  <2> QED
    BY <2>1, <1>3 DEF Entry
<1>5. /\ LogType(Entry)' /\ AgreedStays /\ CommittedStays /\ LeadersAppend
      /\ CurrentHolds' /\ NothingNew
  BY <1>1, LogsStay
<1>6. ASSUME NEW c \in Caller
      PROVE  /\ handler'[s][c] \in HandlerRecord
             /\ CallerInv(c, call[c], Handlers(c)', outcome[c])
  <2> DEFINE h == handler[s][c]
             r == [h EXCEPT !.chan = got]
             k == call[c]
             hs == Handlers(c)
             hs2 == Handlers(c)'
             o == outcome[c]
  <2>1. /\ hs \in [Service -> HandlerRecord] /\ \A t \in Service : hs[t] = handler[t][c]
        /\ CallerInv(c, k, hs, o)
    BY HandlersType
  <2>2. h \in HandlerRecord /\ HandlerInv(s, c, h, k) /\ h.attempt \in Nat
    BY <2>1 DEF CallerInv, HandlerRecord
  <2>3. \/ handler'[s][c] = h
        \/ /\ commitSubs[s][n] = [caller |-> c, attempt |-> h.attempt]
           /\ h.pc = "waiting" /\ handler'[s][c] = r
    BY <1>1, <1>2 DEF TypeInv, Delivered
  <2>4. /\ \A t \in Service : hs2[t] = handler'[t][c]
        /\ \A t \in Service \ {s} : handler'[t][c] = handler[t][c]
        /\ hs2 = [t \in Service |-> handler'[t][c]]
    BY <1>1, <1>2 DEF TypeInv, Handlers
  <2>5. CASE handler'[s][c] = h
    <3>1. hs2 = hs
      BY <2>4, <2>5 DEF Handlers
    <3> HIDE DEF hs2, hs
    <3> QED
      BY <2>1, <2>2, <2>5, <3>1 DEF hs2
  <2>6. CASE /\ commitSubs[s][n] = [caller |-> c, attempt |-> h.attempt]
             /\ h.pc = "waiting" /\ handler'[s][c] = r
    <3>1. /\ r \in HandlerRecord /\ r.pc = h.pc /\ r.request = h.request
          /\ r.attempt = h.attempt /\ r.index = h.index /\ r.alone = h.alone
          /\ r.chan = got
      BY <2>2, <1>4 DEF HandlerRecord
    <3> HIDE DEF r, got
    <3>2. n = h.index
      <4>1. n \in Index
        <5>1. Len(log[s]) <= MaxLog
          BY <1>2 DEF TypeInv, LogsBounded
        <5>2. n <= Len(log[s]) /\ Len(log[s]) \in Nat
          BY <1>1, <1>2 DEF Agrees, LogType
        <5> QED
          BY <5>1, <5>2, <1>3, LogBoundAssumption DEF Index
      <4> QED
        BY <4>1, <2>2, <2>6 DEF HandlerInv
    <3>3. HandlerInv(s, c, r, k)
      <4>1. Mark(c, r) = Mark(c, h)
        BY <3>1 DEF Mark
      <4>2. Located(s, c, h) => Located(s, c, r)
        BY <3>1, <4>1 DEF Located
      <4>3. StaysAlone(s, c, h, k) => StaysAlone(s, c, r, k)
        BY <3>1, <4>1 DEF StaysAlone
      <4>4. ChanInv(r)
        BY <3>1, <3>2, <2>6, <1>2, <1>3 DEF ChanInv, got
      <4> QED
        BY <3>1, <4>1, <4>2, <4>3, <4>4, <2>2, <2>6 DEF HandlerInv
    <3>4. \A t \in Service : /\ hs2[t].pc = hs[t].pc /\ hs2[t].attempt = hs[t].attempt
                             /\ hs2[t].request = hs[t].request
      BY <3>1, <2>1, <2>4, <2>6
    <3>5. \A t \in Service : HandlerInv(t, c, hs2[t], k)
      BY <3>3, <2>1, <2>4, <2>6 DEF CallerInv
    <3> HIDE DEF hs2, hs, k, o
    <3>6. DistinctAttempts(hs2) /\ LastInv(c, hs2, o) /\ FailedInv(c, k, hs2, o)
      BY <3>4, <2>1 DEF CallerInv, DistinctAttempts, LastInv, FailedInv
    <3>7. CallerInv(c, k, hs2, o)
      BY <3>5, <3>6, <2>1 DEF CallerInv
    <3> QED
      BY <3>1, <3>7, <2>6 DEF hs2, k, o
  <2> QED
    BY <2>3, <2>5, <2>6
<1>7. handler' \in [Service -> [Caller -> HandlerRecord]]
  <2>1. Delivered(s, n, cmd) \in [Caller -> HandlerRecord]
    <3>1. handler'[s] = Delivered(s, n, cmd)
      BY <1>1, <1>2 DEF TypeInv
    <3>2. Delivered(s, n, cmd) = [c \in Caller |-> Delivered(s, n, cmd)[c]]
      BY DEF Delivered
    <3> QED
      BY <3>1, <3>2, <1>6
  <2> QED
    BY <2>1, <1>1, <1>2 DEF TypeInv
<1>8. /\ data' \in [Service -> StoreSet] /\ applied' \in [Service -> Nat]
      /\ alive' \subseteq Service /\ leaders' \ leaders = {}
  <2>1. Executed(data[s], cmd.op) \in StoreSet
    BY <1>3, <1>4, ExecutedType
  <2> HIDE DEF Executed
  <2> QED
    BY <2>1, <1>1, <1>2, <1>3 DEF TypeInv
<1>9. /\ DOMAIN commitSubs' = Service
      /\ \A t \in Service : DOMAIN commitSubs'[t] = Index
      /\ SubsEnd
  BY <1>1, <1>2 DEF TypeInv, SubsEnd
<1>10. ASSUME NEW t \in Service PROVE NodeInv(t)'
  <2>1. CASE t # s
    <3>1. data'[t] = data[t] /\ applied'[t] = applied[t]
      BY <2>1, <1>1, <1>2 DEF TypeInv
    <3> QED
      BY <3>1, <1>5, NodeStays
  <2>2. CASE t = s
    <3>1. applied'[s] = n /\ data'[s] = Executed(data[s], cmd.op)
      BY <1>1, <1>2 DEF TypeInv
    <3>2. StoreAfter' = StoreAfter
      BY <1>1 DEF StoreAfter
    <3>3. StoreAfter[n] = Executed(StoreAfter[n - 1], cmd.op)
      BY <1>2, <1>3, StoreAfterStep
    <3>4. /\ n <= Len(log'[s]) /\ n <= Len(committed')
          /\ SubSeq(log'[s], 1, n) = SubSeq(committed', 1, n)
      BY <1>1 DEF Agrees
    <3> HIDE DEF n, cmd
    <3>5. Agrees(s, applied[s])'
      BY <3>1, <3>4 DEF Agrees
    <3>6. data'[s] = StoreAfter'[applied'[s]]
      BY <3>1, <3>2, <3>3, <1>2, <1>3
    <3> QED
      BY <2>2, <3>5, <3>6 DEF NodeInv
  <2> QED
    BY <2>1, <2>2
<1> QED
  BY <1>1, <1>5, <1>6, <1>7, <1>8, <1>9, <1>10, ServiceStep

\* A subscription at s to index n, by the handler of attempt a of caller c.
Subscribes(s, n, c, a) ==
    /\ n \in Index /\ a \in Nat
    /\ commitSubs' = [commitSubs EXCEPT ![s][n] = [caller |-> c, attempt |-> a]]
    /\ UNCHANGED <<log, committed, leaders>>
    /\ DOMAIN commitSubs = Service /\ \A t \in Service : DOMAIN commitSubs[t] = Index

\* What is known of caller d, meanwhile.
LEMMA SubscriptionStays ==
    ASSUME NEW s \in Service, NEW n, NEW c \in Caller, NEW a, Subscribes(s, n, c, a),
           NEW d \in Caller, NEW k \in CallRecord,
           NEW hs \in [Service -> HandlerRecord], NEW o \in OutcomeRecord,
           CallerInv(d, k, hs, o),
           d = c => /\ a <= k.attempt
                    /\ hs[s].pc # "idle" /\ hs[s].attempt = a =>
                          hs[s].pc = "waiting" /\ hs[s].index = n
    PROVE  CallerInv(d, k, hs, o)'
<1> DEFINE sub == [caller |-> c, attempt |-> a]
<1>1. /\ \A t \in Service, i \in Index :
            commitSubs'[t][i] = commitSubs[t][i] \/ (t = s /\ i = n)
      /\ commitSubs'[s][n] = sub
      /\ UNCHANGED <<log, committed, leaders>> /\ n \in Index /\ a \in Nat
  BY DEF Subscribes
<1>2. StoreAfter' = StoreAfter
  BY <1>1 DEF StoreAfter
<1>3. Numbered(d, k)'
  <2>1. ASSUME NEW t \in Service, NEW i \in Index, commitSubs'[t][i].caller = d
        PROVE  commitSubs'[t][i].attempt <= k.attempt
    <3>1. CASE t = s /\ i = n
      BY <3>1, <2>1, <1>1
    <3>2. CASE ~(t = s /\ i = n)
      BY <3>2, <2>1, <1>1 DEF CallerInv, Numbered
    <3> QED
      BY <3>1, <3>2
  <2> QED
    BY <2>1, <1>1 DEF CallerInv, Numbered
<1>4. ASSUME NEW t \in Service PROVE HandlerInv(t, d, hs[t], k)'
  <2> DEFINE h == hs[t]
  <2>1. HandlerInv(t, d, h, k)
    BY DEF CallerInv
  <2>2. ASSUME h.pc # "idle", NEW i \in Index,
               commitSubs'[t][i] = [caller |-> d, attempt |-> h.attempt]
        PROVE  h.pc = "waiting" /\ i = h.index
    <3>1. CASE t = s /\ i = n
      <4>1. d = c /\ h.attempt = a
        BY <3>1, <2>2, <1>1
      <4> QED
        BY <4>1, <3>1, <2>2
    <3>2. CASE ~(t = s /\ i = n)
      <4>1. commitSubs[t][i] = [caller |-> d, attempt |-> h.attempt]
        BY <3>2, <2>2, <1>1
      <4> QED
        BY <4>1, <2>1, <2>2 DEF HandlerInv
    <3> QED
      BY <3>1, <3>2
  <2> HIDE DEF h
  <2>3. /\ Located(t, d, h) => Located(t, d, h)'
        /\ StaysAlone(t, d, h, k) => StaysAlone(t, d, h, k)'
        /\ ChanInv(h) => ChanInv(h)'
    BY <1>1, <1>2 DEF Located, StaysAlone, ChanInv, Mark
  <2>4. HandlerInv(t, d, h, k)'
    BY <2>1, <2>2, <2>3, <1>1 DEF HandlerInv, Mark
  <2> QED
    BY <2>4 DEF h
<1>5. /\ OKInv(d, o)' /\ LastInv(d, hs, o)' /\ OrderInv(k, o)'
      /\ FailedInv(d, k, hs, o)' /\ DistinctAttempts(hs)'
  BY <1>1, <1>2 DEF CallerInv, OKInv, LastInv, OrderInv, FailedInv, DistinctAttempts
<1> QED
  BY <1>3, <1>4, <1>5 DEF CallerInv

LEMMA CreateCommitSubscriptionKeeps ==
    ASSUME IInv, NEW s \in Service, NEW c \in Caller, CreateCommitSubscription(s, c)
    PROVE  IInv'
<1> DEFINE h == handler[s][c]
           n == h.index
           r == [h EXCEPT !.pc = "waiting"]
           k == call[c]
           hs == Handlers(c)
           hs2 == [hs EXCEPT ![s] = r]
<1>1. /\ h.pc = "submitted" /\ UNCHANGED <<log, committed, current, leaders, data,
                                           applied, alive, call, outcome, assumedLeader>>
      /\ commitSubs' = [commitSubs EXCEPT ![s][n] = [caller |-> c, attempt |-> h.attempt]]
      /\ handler' = [handler EXCEPT ![s] = [handler[s] EXCEPT ![c] = r]]
  <2>1. handler' = [handler EXCEPT ![s][c].pc = "waiting"]
    BY DEF CreateCommitSubscription
  <2>2. handler \in [Service -> [Caller -> HandlerRecord]]
    BY DEF IInv, TypeInv
  <2> QED
    BY <2>1, <2>2 DEF CreateCommitSubscription, clientVars, storeVars, faultVars, logVars,
                      HandlerRecord
<1>2. TypeInv /\ LogType(Entry)
  BY DEF IInv, TypeInv
<1>3. /\ hs \in [Service -> HandlerRecord] /\ \A t \in Service : hs[t] = handler[t][c]
      /\ CallerInv(c, k, hs, outcome[c])
      /\ k \in CallRecord /\ outcome[c] \in OutcomeRecord
  BY HandlersType
<1>4. h \in HandlerRecord /\ HandlerInv(s, c, h, k) /\ h.attempt \in Nat
  BY <1>3 DEF CallerInv, HandlerRecord
<1>5. Located(s, c, h) /\ n \in Index /\ h.attempt <= k.attempt /\ h.chan = <<>>
  BY <1>1, <1>4 DEF HandlerInv, Located, ChanInv
<1>6. /\ r \in HandlerRecord /\ r.pc = "waiting" /\ r.request = h.request
      /\ r.attempt = h.attempt /\ r.index = h.index /\ r.alone = h.alone
      /\ r.chan = h.chan
  BY <1>4 DEF HandlerRecord
<1> HIDE DEF r, hs
<1>7. /\ hs2 \in [Service -> HandlerRecord] /\ hs2[s] = r
      /\ \A t \in Service \ {s} : hs2[t] = hs[t]
  BY <1>3, <1>6
<1> HIDE DEF hs2
<1>8. HandlerInv(s, c, r, k)
  <2>1. Mark(c, r) = Mark(c, h)
    BY <1>6 DEF Mark
  <2>2. Located(s, c, h) => Located(s, c, r)
    BY <1>6, <2>1 DEF Located
  <2>3. StaysAlone(s, c, h, k) => StaysAlone(s, c, r, k)
    BY <1>6, <2>1 DEF StaysAlone
  <2>4. ChanInv(r)
    BY <1>5, <1>6 DEF ChanInv
  <2> QED
    BY <1>1, <1>4, <1>6, <2>1, <2>2, <2>3, <2>4 DEF HandlerInv
<1>9. CallerInv(c, k, hs2, outcome[c])
  <2>1. \A t \in Service : HandlerInv(t, c, hs2[t], k)
    BY <1>3, <1>7, <1>8 DEF CallerInv
  <2>2. \A t \in Service : /\ hs2[t].attempt = hs[t].attempt
                           /\ hs2[t].request = hs[t].request
                           /\ hs2[t].pc # "idle" => hs[t].pc # "idle"
    BY <1>1, <1>3, <1>6, <1>7
  <2>3. /\ DistinctAttempts(hs2) /\ LastInv(c, hs2, outcome[c])
        /\ FailedInv(c, k, hs2, outcome[c])
    BY <2>2, <1>3 DEF CallerInv, DistinctAttempts, LastInv, FailedInv
  <2> QED
    BY <2>1, <2>3, <1>3 DEF CallerInv
<1>10. ASSUME NEW d \in Caller
       PROVE  CallerInv(d, call[d], Handlers(d), outcome[d])'
  <2> DEFINE g == IF d = c THEN hs2 ELSE Handlers(d)
  <2>1. Handlers(d)' = g
    <3>1. CASE d = c
      BY <3>1, <1>1, <1>2, <1>3, <1>6, <1>7 DEF TypeInv, Handlers
    <3>2. CASE d # c
      BY <3>2, <1>1, <1>2 DEF TypeInv, Handlers
    <3> QED
      BY <3>1, <3>2
  <2>2. /\ g \in [Service -> HandlerRecord] /\ call[d] \in CallRecord
        /\ outcome[d] \in OutcomeRecord /\ CallerInv(d, call[d], g, outcome[d])
    BY <1>7, <1>9, HandlersType
  <2>3. d = c => g[s].pc = "waiting" /\ g[s].index = n
    BY <1>6, <1>7
  <2> HIDE DEF g
  <2>4. DOMAIN commitSubs = Service /\ \A t \in Service : DOMAIN commitSubs[t] = Index
    BY <1>2 DEF TypeInv
  <2> DEFINE a == h.attempt
  <2>5. Subscribes(s, n, c, a) /\ (d = c => a <= call[d].attempt)
    BY <2>4, <1>1, <1>4, <1>5 DEF Subscribes
  <2>6. call'[d] = call[d] /\ outcome'[d] = outcome[d]
    BY <1>1
  <2> HIDE DEF h, n, a
  <2>7. \A kk \in CallRecord, gg \in [Service -> HandlerRecord], oo \in OutcomeRecord :
           /\ CallerInv(d, kk, gg, oo)
           /\ d = c => a <= kk.attempt /\ gg[s].pc = "waiting" /\ gg[s].index = n
           => CallerInv(d, kk, gg, oo)'
    <3> SUFFICES ASSUME NEW kk \in CallRecord, NEW gg \in [Service -> HandlerRecord],
                        NEW oo \in OutcomeRecord, CallerInv(d, kk, gg, oo),
                        d = c => a <= kk.attempt /\ gg[s].pc = "waiting"
                                                /\ gg[s].index = n
                 PROVE  CallerInv(d, kk, gg, oo)'
      OBVIOUS
    <3> QED
      BY <2>5, SubscriptionStays
  <2> QED
    BY <2>1, <2>2, <2>3, <2>5, <2>6, <2>7
<1>11. /\ LogType(Entry)' /\ AgreedStays /\ CommittedStays /\ CurrentHolds' /\ NothingNew
  BY <1>1, LogsStay
<1>12. TypeInv'
  <2>1. handler' \in [Service -> [Caller -> HandlerRecord]]
    BY <1>1, <1>2, <1>6 DEF TypeInv
  <2>2. /\ DOMAIN commitSubs' = Service /\ \A t \in Service : DOMAIN commitSubs'[t] = Index
        /\ \A t \in Service, i \in Index : commitSubs'[t][i].attempt \in Nat
    <3> HIDE DEF h, n
    <3> QED
      BY <1>1, <1>2, <1>4, <1>5 DEF TypeInv
  <2>3. LogsBounded'
    BY <1>1, <1>2 DEF TypeInv, LogsBounded
  <2> QED
    BY <2>1, <2>2, <2>3, <1>1, <1>2, <1>11 DEF TypeInv
<1>13. \A t \in Service : NodeInv(t)'
  BY <1>1, <1>11, NodeStays
<1> QED
  BY <1>10, <1>11, <1>12, <1>13 DEF IInv

\* Service s, which leads, appends e to its log.
Appended(s, e) ==
    /\ s \in leaders /\ UNCHANGED <<committed, leaders, commitSubs>>
    /\ Len(log'[s]) = Len(log[s]) + 1 /\ log'[s][Len(log[s]) + 1] = e
    /\ \A i \in 1..Len(log[s]) : log'[s][i] = log[s][i]
    /\ \A t \in Service \ {s} : log'[t] = log[t]

\* An entry of a log is an old one, or the new one.
LEMMA AppendedEntry ==
    ASSUME NEW s \in Service, NEW e, Appended(s, e), LogType(Entry)
    PROVE  \A t \in Service : \A i \in 1..Len(log'[t]) :
              \/ i \in 1..Len(log[t]) /\ log'[t][i] = log[t][i]
              \/ t = s /\ i = Len(log[s]) + 1 /\ log'[t][i] = e
<1>1. Len(log[s]) \in Nat
  BY DEF LogType
<1> QED
  BY <1>1 DEF Appended

\* What is known of caller d, if the new entry is none of its handlers'.
LEMMA AppendedStays ==
    ASSUME NEW s \in Service, NEW e \in Entry, Appended(s, e), LogType(Entry), e.id = s,
           NEW d \in Caller, NEW k \in CallRecord,
           NEW hs \in [Service -> HandlerRecord], NEW o \in OutcomeRecord,
           CallerInv(d, k, hs, o),
           e.from[1] = d => e.from[3] <= k.attempt,
           \A t \in Service : hs[t].pc # "idle" => e.from # Mark(d, hs[t]),
           o.status \in {"OK", "FailedCommit"} =>
              e.from # <<d, o.request, o.attempt>>,
           o.status = "OK" /\ e.from[1] = d /\ e.from[2] = o.request =>
              e.from[3] <= o.attempt
    PROVE  CallerInv(d, k, hs, o)'
<1>1. \A t \in Service : \A i \in 1..Len(log'[t]) :
         \/ i \in 1..Len(log[t]) /\ log'[t][i] = log[t][i]
         \/ t = s /\ i = Len(log[s]) + 1 /\ log'[t][i] = e
  BY AppendedEntry
<1>2. s \in leaders /\ UNCHANGED <<committed, leaders, commitSubs>>
  BY DEF Appended
<1>3. StoreAfter' = StoreAfter
  BY <1>2 DEF StoreAfter
<1>4. /\ \A t \in Service : Len(log[t]) \in Nat /\ Len(log'[t]) \in Nat
                            /\ Len(log[t]) <= Len(log'[t])
  <2>1. \A t \in Service : Len(log[t]) \in Nat
    BY DEF LogType
  <2> QED
    BY <2>1 DEF Appended
<1>5. Numbered(d, k)'
  BY <1>1, <1>2 DEF CallerInv, Numbered
<1>6. ASSUME NEW t \in Service PROVE HandlerInv(t, d, hs[t], k)'
  <2> DEFINE h == hs[t]
  <2>1. /\ HandlerInv(t, d, h, k) /\ h \in HandlerRecord
        /\ h.pc # "idle" => e.from # Mark(d, h)
    BY DEF CallerInv
  <2> HIDE DEF h
  <2>2. h.pc = "received" =>
           \A u \in Service : \A i \in 1..Len(log'[u]) : log'[u][i].from # Mark(d, h)
    BY <2>1, <1>1 DEF HandlerInv
  <2>3. ASSUME h.pc \in {"submitted", "waiting"}
        PROVE  Located(t, d, h)' /\ StaysAlone(t, d, h, k)'
    <3>1. Located(t, d, h) /\ StaysAlone(t, d, h, k) /\ e.from # Mark(d, h)
      BY <2>1, <2>3 DEF HandlerInv
    <3>2. h.index \in Nat /\ h.index \in Index /\ h.index >= 1
      BY <2>1, <3>1, LogBoundAssumption DEF HandlerRecord, Located, Index
    <3>3. t \in leaders' => h.index <= Len(log'[t])
      BY <3>1, <3>2, <1>2, <1>4 DEF Located
    <3>4. \A u \in Service : \A i \in 1..Len(log'[u]) :
             log'[u][i].from = Mark(d, h) => i = h.index /\ log'[u][i].id = t
      BY <3>1, <1>1 DEF Located
    <3>5. Located(t, d, h)'
      BY <3>2, <3>3, <3>4 DEF Located, Mark
    <3>6. ASSUME h.alone, NEW u \in Service, h.index <= Len(log'[u]),
                 log'[u][h.index].id = t
          PROVE  log'[u][h.index].from = Mark(d, h)
      <4>1. h.index \in 1..Len(log'[u])
        BY <3>2, <3>6, <1>4
      <4>2. CASE h.index \in 1..Len(log[u]) /\ log'[u][h.index] = log[u][h.index]
        BY <4>2, <3>1, <3>6, <1>4 DEF StaysAlone
      <4>3. CASE u = s /\ h.index = Len(log[s]) + 1 /\ log'[u][h.index] = e
        <5>1. t = s
          BY <4>3, <3>6
        <5>2. h.index <= Len(log[s])
          BY <5>1, <3>1, <1>2 DEF Located
        <5> QED
          BY <5>2, <4>3, <1>4
      <4> QED
        BY <4>1, <4>2, <4>3, <1>1
    <3>7. StaysAlone(t, d, h, k)'
      BY <3>1, <3>6, <1>2 DEF StaysAlone, Mark
    <3> QED
      BY <3>5, <3>7
  <2>4. ChanInv(h)'
    BY <2>1, <1>2, <1>3 DEF HandlerInv, ChanInv
  <2>5. HandlerInv(t, d, h, k)'
    BY <2>1, <2>2, <2>3, <2>4, <1>2 DEF HandlerInv, Mark
  <2> QED
    BY <2>5 DEF h
<1>7. OKInv(d, o)' /\ DistinctAttempts(hs)'
  BY <1>2, <1>3 DEF CallerInv, OKInv, DistinctAttempts
<1>8. FailedInv(d, k, hs, o)'
  BY <1>1, <1>2 DEF CallerInv, FailedInv
<1>9. LastInv(d, hs, o)' /\ OrderInv(k, o)'
  BY <1>1, <1>2 DEF CallerInv, LastInv, OrderInv
<1> QED
  BY <1>5, <1>6, <1>7, <1>8, <1>9 DEF CallerInv

LEMMA HandlerSubmitsKeeps ==
    ASSUME IInv, NEW s \in Service, NEW c \in Caller, HandlerSubmits(s, c)
    PROVE  IInv'
<1> DEFINE h == handler[s][c]
           n == Len(log[s]) + 1
           e == Command(s, c)
           alone == Alone(s, n)
           r == [h EXCEPT !.pc = "submitted", !.index = n, !.alone = alone]
           k == call[c]
           o == outcome[c]
           hs == Handlers(c)
           hs0 == [hs EXCEPT ![s] = NoHandler]
           hs2 == [hs EXCEPT ![s] = r]
<1>1. /\ h.pc = "received" /\ Appends(s, e)
      /\ UNCHANGED <<committed, current, leaders, commitSubs, data,
                     applied, alive, call, outcome, assumedLeader>>
      /\ handler' = [handler EXCEPT ![s] = [handler[s] EXCEPT ![c] = r]]
  <2>1. handler' = [handler EXCEPT ![s][c].pc = "submitted",
                                  ![s][c].index = Len(log[s]) + 1,
                                  ![s][c].alone = Alone(s, Len(log[s]) + 1)]
    BY DEF HandlerSubmits
  <2>2. handler \in [Service -> [Caller -> HandlerRecord]]
    BY DEF IInv, TypeInv
  <2> HIDE DEF alone
  <2>3. handler' = [handler EXCEPT ![s] = [handler[s] EXCEPT ![c] = r]]
    BY <2>1, <2>2 DEF alone, HandlerRecord
  <2> QED
    BY <2>3 DEF HandlerSubmits, Appends, clientVars, storeVars, faultVars
<1>2. TypeInv /\ LogType(Entry) /\ CurrentHolds
  BY DEF IInv, TypeInv
<1>3. /\ hs \in [Service -> HandlerRecord] /\ \A t \in Service : hs[t] = handler[t][c]
      /\ CallerInv(c, k, hs, o) /\ k \in CallRecord /\ o \in OutcomeRecord
  BY HandlersType
<1>4. /\ h \in HandlerRecord /\ HandlerInv(s, c, h, k) /\ h.attempt \in Nat
      /\ h.request \in Nat /\ h.op \in AnyOp /\ h.attempt <= k.attempt
      /\ h.chan = <<>> /\ h.attempt > 0
  <2>1. h \in HandlerRecord /\ HandlerInv(s, c, h, k)
    BY <1>3 DEF CallerInv
  <2> QED
    BY <2>1, <1>1 DEF HandlerRecord, HandlerInv, ChanInv
<1>5. /\ e \in Entry /\ e.id = s /\ e.from = Mark(c, h)
      /\ e.from[1] = c /\ e.from[2] = h.request /\ e.from[3] = h.attempt
  <2>1. Mark(c, h) \in Tag
    BY <1>4 DEF Mark, Tag
  <2>2. e = [id |-> s, op |-> h.op, from |-> Mark(c, h)]
    BY DEF Command, Mark
  <2> QED
    BY <2>1, <2>2, <1>4 DEF Entry, Mark
<1> HIDE DEF e
<1>6. /\ LogType(Entry)' /\ AgreedStays /\ CommittedStays /\ LeadersAppend /\ CurrentHolds'
      /\ Appended(s, e)
  <2>1. /\ LogType(Entry)' /\ AgreedStays /\ CommittedStays /\ LeadersAppend
        /\ CurrentHolds'
        /\ Len(log'[s]) = Len(log[s]) + 1 /\ log'[s][Len(log[s]) + 1] = e
        /\ \A i \in 1..Len(log[s]) : log'[s][i] = log[s][i]
        /\ \A t \in Service \ {s} : log'[t] = log[t]
    BY <1>1, <1>2, <1>5, AppendsKeeps
  <2>2. s \in leaders
    BY <1>1 DEF Appends
  <2> QED
    BY <2>1, <2>2, <1>1 DEF Appended
<1>7. /\ n \in Nat /\ n \in Index /\ Len(log[s]) \in Nat /\ Len(log'[s]) = n
      /\ \A t \in Service : Len(log[t]) \in Nat
  <2>1. \A t \in Service : Len(log[t]) \in Nat
    BY <1>2 DEF LogType
  <2>2. Len(log[s]) < MaxLog
    BY <1>1 DEF Appends
  <2> QED
    BY <2>1, <2>2, <1>6, LogBoundAssumption DEF Index, Appended
<1>8. alone \in BOOLEAN
  BY DEF Alone
<1> HIDE DEF n, alone
<1>9. /\ r \in HandlerRecord /\ r.pc = "submitted" /\ r.request = h.request
      /\ r.attempt = h.attempt /\ r.index = n /\ r.alone = alone /\ r.chan = <<>>
  <2> DEFINE r1 == [h EXCEPT !.pc = "submitted"]
             r2 == [r1 EXCEPT !.index = n]
             r3 == [r2 EXCEPT !.alone = alone]
  <2>1. r = r3
    BY <1>4 DEF HandlerRecord
  <2>2. /\ r1 \in HandlerRecord /\ r1.pc = "submitted" /\ r1.request = h.request
        /\ r1.attempt = h.attempt /\ r1.chan = <<>>
    BY <1>4 DEF HandlerRecord
  <2> HIDE DEF r1
  <2>3. /\ r2 \in HandlerRecord /\ r2.pc = "submitted" /\ r2.request = h.request
        /\ r2.attempt = h.attempt /\ r2.chan = <<>> /\ r2.index = n
    BY <2>2, <1>7 DEF HandlerRecord
  <2> HIDE DEF r2
  <2>4. /\ r3 \in HandlerRecord /\ r3.pc = "submitted" /\ r3.request = h.request
        /\ r3.attempt = h.attempt /\ r3.chan = <<>> /\ r3.index = n /\ r3.alone = alone
    BY <2>3, <1>8 DEF HandlerRecord
  <2> QED
    BY <2>1, <2>4
<1> HIDE DEF r, hs
<1>10. /\ hs2 \in [Service -> HandlerRecord] /\ hs2[s] = r
       /\ \A t \in Service \ {s} : hs2[t] = hs[t] /\ hs0[t] = hs[t]
       /\ hs0[s].pc = "idle"
  BY <1>3, <1>9 DEF NoHandler
<1>11. hs0 \in [Service -> HandlerRecord] /\ CallerInv(c, k, hs0, o)
  BY <1>3, ClearInv
<1> HIDE DEF hs0, hs2
<1>12. \A t \in Service \ {s} : hs[t].pc # "idle" => hs[t].attempt # h.attempt
  <2>1. hs[s].pc # "idle" /\ hs[s].attempt = h.attempt
    BY <1>1, <1>3
  <2> QED
    BY <2>1, <1>3 DEF CallerInv, DistinctAttempts
<1>13. /\ o.status \in {"OK", "FailedCommit"} => h.attempt # o.attempt
       /\ o.status = "OK" /\ h.request = o.request => h.attempt <= o.attempt
  <2>1. hs[s].pc # "idle" /\ hs[s] = h
    BY <1>1, <1>3
  <2> QED
    BY <2>1, <1>3 DEF CallerInv, LastInv, FailedInv
<1>14. PICK kk \in CallRecord, g0 \in [Service -> HandlerRecord],
            g2 \in [Service -> HandlerRecord], oo \in OutcomeRecord, rr \in HandlerRecord :
          kk = k /\ g0 = hs0 /\ g2 = hs2 /\ oo = o /\ rr = r
  BY <1>3, <1>9, <1>10, <1>11
<1> DEFINE mark == Mark(c, rr)
           a == rr.attempt
           nn == rr.index
           b == rr.alone
<1>15. /\ mark = Mark(c, h) /\ a = h.attempt /\ nn = n /\ b = alone
       /\ rr.pc = "submitted" /\ rr.chan = <<>> /\ nn \in Index /\ b \in BOOLEAN
  <2>1. Mark(c, r) = Mark(c, h)
    BY <1>9 DEF Mark
  <2> QED
    BY <2>1, <1>7, <1>8, <1>9, <1>14
<1>16. CallerInv(c, kk, g0, oo)'
  <2>1. \A t \in Service : g0[t].pc # "idle" => e.from # Mark(c, g0[t])
    <3> SUFFICES ASSUME NEW t \in Service, hs0[t].pc # "idle" PROVE e.from # Mark(c, hs0[t])
      BY <1>14
    <3>1. t # s /\ hs0[t].attempt # h.attempt
      BY <1>10, <1>12
    <3> QED
      BY <3>1, <1>5 DEF Mark
  <2>2. /\ oo.status \in {"OK", "FailedCommit"} =>
              e.from # <<c, oo.request, oo.attempt>>
        /\ oo.status = "OK" /\ e.from[2] = oo.request => e.from[3] <= oo.attempt
    BY <1>5, <1>13, <1>14
  <2>3. CallerInv(c, kk, g0, oo) /\ e.from[3] <= kk.attempt
    BY <1>4, <1>5, <1>11, <1>14
  <2> QED
    BY <2>1, <2>2, <2>3, <1>2, <1>5, <1>6, AppendedStays
<1>17. HandlerInv(s, c, rr, kk)'
  <2>1. \A t \in Service : \A i \in 1..Len(log'[t]) :
           \/ i \in 1..Len(log[t]) /\ log'[t][i] = log[t][i]
           \/ t = s /\ i = nn /\ log'[t][i] = e
    BY <1>2, <1>6, <1>15, AppendedEntry DEF n
  <2>2. \A t \in Service : \A i \in 1..Len(log[t]) : log[t][i].from # mark
    BY <1>1, <1>4, <1>15 DEF HandlerInv
  <2>3. Located(s, c, rr)'
    <3>1. \A t \in Service : \A i \in 1..Len(log'[t]) :
             log'[t][i].from = mark => i = nn /\ log'[t][i].id = s
      BY <2>1, <2>2, <1>5
    <3>2. nn <= Len(log'[s]) /\ nn \in Index
      BY <1>7, <1>15
    <3> HIDE DEF h
    <3> QED
      BY <3>1, <3>2, <1>15 DEF Located, Mark
  <2>4. ASSUME b
        PROVE  /\ \A t \in Service : nn <= Len(log'[t]) /\ log'[t][nn].id = s =>
                     log'[t][nn].from = mark
               /\ nn <= Len(committed') => committed'[nn].id # s
    <3>1. /\ \A t \in Service : nn <= Len(log[t]) => log[t][nn].id # s
          /\ nn <= Len(committed) => committed[nn].id # s
      BY <2>4, <1>15 DEF alone, Alone
    <3>2. ASSUME NEW t \in Service, nn <= Len(log'[t]), log'[t][nn].id = s
          PROVE  log'[t][nn].from = mark
      <4>1. CASE t = s
        BY <4>1, <1>5, <1>6, <1>15 DEF Appended, n
      <4>2. CASE t # s
        BY <4>2, <3>1, <3>2, <1>6 DEF Appended
      <4> QED
        BY <4>1, <4>2
    <3> QED
      BY <3>1, <3>2, <1>1
  <2>5. StaysAlone(s, c, rr, kk)'
    <3>1. CASE b
      <4> HIDE DEF h
      <4> QED
        BY <3>1, <2>4, <1>15 DEF StaysAlone, Mark
    <3>2. CASE ~b
      BY <3>2, <1>15 DEF StaysAlone
    <3> QED
      BY <3>1, <3>2
  <2>6. \A i \in Index : commitSubs'[s][i] # [caller |-> c, attempt |-> a]
    BY <1>1, <1>4, <1>15 DEF HandlerInv
  <2>7. /\ a <= kk.attempt /\ a > 0
        /\ a = kk.attempt => rr.request = kk.request
    BY <1>1, <1>4, <1>9, <1>14, <1>15 DEF HandlerInv
  <2> HIDE DEF h
  <2> QED
    BY <2>3, <2>5, <2>6, <2>7, <1>15 DEF HandlerInv, ChanInv
<1>18. CallerInv(c, kk, g2, oo)'
  <2>1. g2[s] = rr /\ \A t \in Service \ {s} : g2[t] = g0[t]
    BY <1>10, <1>14
  <2>2. \A t \in Service : HandlerInv(t, c, g2[t], kk)'
    BY <2>1, <1>16, <1>17 DEF CallerInv
  <2>3. \A t \in Service \ {s} : g2[t].pc # "idle" => g2[t].attempt # a
    BY <1>10, <1>12, <1>14, <1>15
  <2>4. DistinctAttempts(g2)'
    BY <2>1, <2>3, <1>15, <1>16 DEF CallerInv, DistinctAttempts
  <2>5. FailedInv(c, kk, g2, oo)' /\ LastInv(c, g2, oo)'
    <3>1. /\ oo.status \in {"OK", "FailedCommit"} => a # oo.attempt
          /\ oo.status = "OK" /\ rr.request = oo.request => a <= oo.attempt
      BY <1>9, <1>13, <1>14, <1>15
    <3> HIDE DEF h
    <3>2. FailedInv(c, kk, g2, oo)'
      BY <3>1, <2>1, <1>15, <1>16 DEF CallerInv, FailedInv
    <3>3. LastInv(c, g2, oo)'
      BY <3>1, <2>1, <1>15, <1>16 DEF CallerInv, LastInv
    <3> QED
      BY <3>2, <3>3
  <2> QED
    BY <2>2, <2>4, <2>5, <1>16 DEF CallerInv
<1>19. ASSUME NEW d \in Caller
       PROVE  CallerInv(d, call[d], Handlers(d), outcome[d])'
  <2>1. call'[d] = call[d] /\ outcome'[d] = outcome[d]
    BY <1>1
  <2>2. CASE d = c
    <3>1. Handlers(c)' = g2
      <4>1. \A t \in Service : handler'[t][c] = hs2[t]
        BY <1>1, <1>2, <1>3, <1>9, <1>10 DEF TypeInv
      <4>2. Handlers(c)' = [t \in Service |-> handler'[t][c]]
        BY DEF Handlers
      <4> QED
        BY <4>1, <4>2, <1>14
    <3> HIDE DEF Handlers
    <3> QED
      BY <3>1, <2>1, <2>2, <1>14, <1>18
  <2>3. CASE d # c
    <3>1. Handlers(d)' = Handlers(d)
      BY <2>3, <1>1, <1>2 DEF TypeInv, Handlers
    <3>2. /\ Handlers(d) \in [Service -> HandlerRecord] /\ call[d] \in CallRecord
          /\ outcome[d] \in OutcomeRecord
          /\ CallerInv(d, call[d], Handlers(d), outcome[d])
      BY HandlersType
    <3>3. \A x \in CallRecord, g \in [Service -> HandlerRecord], y \in OutcomeRecord :
             CallerInv(d, x, g, y) => CallerInv(d, x, g, y)'
      <4> SUFFICES ASSUME NEW x \in CallRecord, NEW g \in [Service -> HandlerRecord],
                          NEW y \in OutcomeRecord, CallerInv(d, x, g, y)
                   PROVE  CallerInv(d, x, g, y)'
        OBVIOUS
      <4>1. /\ \A t \in Service : g[t].pc # "idle" => e.from # Mark(d, g[t])
            /\ e.from # <<d, y.request, y.attempt>>
        BY <2>3, <1>5 DEF Mark
      <4> QED
        BY <4>1, <2>3, <1>2, <1>5, <1>6, AppendedStays
    <3> HIDE DEF Handlers
    <3> QED
      BY <3>1, <3>2, <3>3, <2>1
  <2> QED
    BY <2>2, <2>3
<1>20. TypeInv'
  <2>1. handler' \in [Service -> [Caller -> HandlerRecord]]
    BY <1>1, <1>2, <1>9 DEF TypeInv
  <2>2. LogsBounded'
    <3>1. ASSUME NEW t \in Service PROVE Len(log'[t]) <= MaxLog
      <4>1. CASE t = s
        BY <4>1, <1>7, LogBoundAssumption DEF Index
      <4>2. CASE t # s
        BY <4>2, <1>2, <1>6 DEF Appended, TypeInv, LogsBounded
      <4> QED
        BY <4>1, <4>2
    <3> QED
      BY <3>1 DEF LogsBounded
  <2> QED
    BY <2>1, <2>2, <1>1, <1>2, <1>6 DEF TypeInv
<1>21. \A t \in Service : NodeInv(t)'
  BY <1>1, <1>6, NodeStays
<1> QED
  BY <1>6, <1>19, <1>20, <1>21 DEF IInv

-----------------------------------------------------------------------------
(* The theorems *)

LEMMA InitHolds ==
    ASSUME Init
    PROVE  IInv
<1>1. /\ log = [s \in Service |-> <<>>] /\ committed = <<>> /\ current \in Service
      /\ call = [c \in Caller |-> NoCall] /\ assumedLeader = [c \in Caller |-> 0]
      /\ outcome = [c \in Caller |-> NoOutcome]
      /\ handler = [s \in Service |-> [c \in Caller |-> NoHandler]]
      /\ commitSubs = [s \in Service |-> [n \in Index |-> NoSub]]
      /\ data = [s \in Service |-> Absent] /\ applied = [s \in Service |-> 0]
      /\ alive = Service
  BY DEF Init, Quiet, LogQuiet
<1>2. 0 \in Service
  BY PlainServiceAssumption, FS_CardinalityType, FS_EmptySet
<1>3. /\ Get \in AnyOp /\ Absent \in StoreSet
  BY DEF AnyOp, StoreSet
<1>4. /\ NoCall \in CallRecord /\ NoCall.since = 0 /\ NoCall.attempt = 0
  BY <1>2, <1>3 DEF NoCall, CallRecord
<1>5. NoOutcome \in OutcomeRecord /\ NoOutcome.status = "none"
  BY <1>3 DEF NoOutcome, OutcomeRecord
<1>6. NoHandler \in HandlerRecord /\ NoHandler.pc = "idle"
  BY <1>4, NoHandlerInv DEF NoHandler
<1>7. NoSub.attempt = 0
  BY DEF NoSub
<1>8. LogType(Entry) /\ \A s \in Service : log[s] = <<>>
  BY <1>1 DEF LogType
<1>9. Len(committed) = 0 /\ \A s \in Service : Len(log[s]) = 0
  BY <1>1, <1>8
<1>10. TypeInv
  <2> HIDE DEF NoCall, NoOutcome, NoHandler, NoSub, Absent
  <2>1. LogsBounded
    BY <1>9, LogBoundAssumption DEF LogsBounded
  <2> QED
    BY <2>1, <1>1, <1>2, <1>3, <1>4, <1>5, <1>6, <1>7, <1>8 DEF TypeInv
<1>11. \A s \in Service : Agrees(s, 0)
  <2> SUFFICES ASSUME NEW s \in Service PROVE Agrees(s, 0)
    OBVIOUS
  <2>1. Agrees(s, 0) <=> /\ 0 <= Len(log[s]) /\ 0 <= Len(committed)
                         /\ \A i \in 1..0 : log[s][i] = committed[i]
    BY <1>8, AgreesPointwise
  <2> QED
    BY <2>1, <1>9
<1>12. CurrentHolds
  BY <1>1, <1>9, <1>11 DEF CurrentHolds
<1>13. \A s \in Service : NodeInv(s)
  <2>1. StoreAfter[0] = Absent
    BY <1>8, StoreAfterStep
  <2> HIDE DEF Absent
  <2> QED
    BY <2>1, <1>1, <1>11 DEF NodeInv
<1>14. ASSUME NEW c \in Caller PROVE CallerInv(c, call[c], Handlers(c), outcome[c])
  <2>1. call[c] = NoCall /\ outcome[c] = NoOutcome
        /\ \A s \in Service : Handlers(c)[s] = NoHandler
    BY <1>1 DEF Handlers
  <2>2. Numbered(c, NoCall)
    <3> HIDE DEF NoSub, NoCall
    <3> QED
      BY <1>1, <1>4, <1>7, <1>9 DEF Numbered
  <2>3. \A s \in Service : HandlerInv(s, c, NoHandler, NoCall)
    BY <1>4, NoHandlerInv
  <2> HIDE DEF NoHandler, NoOutcome, NoCall, Handlers
  <2>4. /\ OKInv(c, NoOutcome) /\ LastInv(c, Handlers(c), NoOutcome)
        /\ OrderInv(NoCall, NoOutcome) /\ FailedInv(c, NoCall, Handlers(c), NoOutcome)
    BY <1>5 DEF OKInv, LastInv, OrderInv, FailedInv
  <2>5. DistinctAttempts(Handlers(c))
    BY <2>1, <1>6 DEF DistinctAttempts
  <2> QED
    BY <2>1, <2>2, <2>3, <2>4, <2>5 DEF CallerInv
<1> QED
  BY <1>10, <1>12, <1>13, <1>14 DEF IInv

LEMMA StutterKeeps ==
    ASSUME IInv, UNCHANGED vars
    PROVE  IInv'
<1>1. UNCHANGED <<log, committed, current, leaders, clientVars, handler, commitSubs,
                  data, applied, alive>>
  BY DEF vars, logVars, storeVars, faultVars
<1>2. /\ LogType(Entry)' /\ AgreedStays /\ CommittedStays /\ LeadersAppend
      /\ CurrentHolds' /\ NothingNew
  BY <1>1, LogsStay
<1>3. SubsEnd
  BY <1>1 DEF SubsEnd
<1>4. \A t \in Service : NodeInv(t)'
  BY <1>1, <1>2, NodeStays
<1>5. \A c \in Caller : CallerInv(c, call[c], Handlers(c)', outcome[c])
  BY <1>1, SameHandlers
<1>6. /\ data' \in [Service -> StoreSet] /\ applied' \in [Service -> Nat]
      /\ handler' \in [Service -> [Caller -> HandlerRecord]]
      /\ DOMAIN commitSubs' = Service
      /\ \A t \in Service : DOMAIN commitSubs'[t] = Index
      /\ alive' \subseteq Service /\ leaders' \ leaders = {}
  BY <1>1 DEF IInv, TypeInv
<1> QED
  BY <1>1, <1>2, <1>3, <1>4, <1>5, <1>6, ServiceStep

\* The invariant is inductive.
LEMMA Inductive == Spec => []IInv
<1>1. Init => IInv
  BY InitHolds
<1>2. IInv /\ [Next]_vars => IInv'
  <2> SUFFICES ASSUME IInv, [Next]_vars PROVE IInv'
    OBVIOUS
  <2>1. CASE LogStep
    BY <2>1, LogStepKeeps
  <2>2. ASSUME NEW c \in Caller, NEW op \in Op[c], Request(c, op) PROVE IInv'
    BY <2>2, RequestKeeps
  <2>3. ASSUME NEW c \in Caller, Retry(c) \/ BailOut(c) PROVE IInv'
    BY <2>3, RetryKeeps, BailOutKeeps
  <2>4. ASSUME NEW s \in Service, NEW c \in Caller,
               \/ HandlerSubmits(s, c) \/ NotLeader(s, c)
               \/ CreateCommitSubscription(s, c) \/ SubscriptionPanics(s, c)
               \/ HandlerAnswers(s, c) \/ HandlerCancelled(s, c)
        PROVE  IInv'
    BY <2>4, HandlerSubmitsKeeps, NotLeaderKeeps, CreateCommitSubscriptionKeeps,
       SubscriptionPanicsKeeps, HandlerAnswersKeeps, HandlerCancelledKeeps
  <2>5. ASSUME NEW s \in Service,
               Update(s) \/ Crash(s) \/ RestartService(s) \/ ToggleHTTPResponses(s)
        PROVE  IInv'
    BY <2>5, UpdateKeeps, CrashKeeps, RestartKeeps, ToggleKeeps
  <2>6. CASE UNCHANGED vars
    BY <2>6, StutterKeeps
  <2> QED
    BY <2>1, <2>2, <2>3, <2>4, <2>5, <2>6 DEF Next
<1> QED
  BY <1>1, <1>2, PTL DEF Spec

\* An attempt that was answered OK, and whose command was alone at its index
\* when it was submitted, was executed exactly once, after all that was
\* committed when the request was made and with the result that was given, and
\* only earlier attempts of its request ever are besides: whatever the
\* elections, crashes and retries.
THEOREM LinearizableTheorem == Spec => []AttemptLinearizable
<1>1. ASSUME IInv, NEW c \in Caller, outcome[c].status = "OK", outcome[c].alone
      PROVE  \E n \in (outcome[c].since + 1)..Len(committed) :
                /\ committed[n].from
                     = <<c, outcome[c].request, outcome[c].attempt>>
                /\ outcome[c].result = StoreAfter[n - 1]
                /\ \A m \in 1..Len(committed) \ {n} :
                     committed[m].from[1] = c
                     /\ committed[m].from[2] = outcome[c].request
                     => committed[m].from[3] < outcome[c].attempt
  <2> DEFINE o == outcome[c]
  <2>1. /\ LogType(Entry) /\ CurrentHolds /\ o \in OutcomeRecord
        /\ OKInv(c, o) /\ LastInv(c, Handlers(c), o)
    BY <1>1 DEF IInv, TypeInv, CallerInv
  <2>2. o.since \in Nat /\ o.attempt \in Nat
    BY <2>1 DEF OutcomeRecord
  <2>3. committed \in Seq(Entry) /\ Len(committed) \in Nat
    BY <2>1 DEF LogType
  <2>4. PICK n \in (o.since + 1)..Len(committed) :
           /\ committed[n].from = <<c, o.request, o.attempt>>
           /\ o.result = StoreAfter[n - 1]
    BY <1>1, <2>1 DEF OKInv
  <2>5. n \in 1..Len(committed)
    BY <2>2, <2>3
  <2>6. ASSUME NEW m \in 1..Len(committed) \ {n},
               committed[m].from[1] = c, committed[m].from[2] = o.request
        PROVE  committed[m].from[3] < o.attempt
    <3>1. PICK u \in Service : m \in 1..Len(log[u]) /\ log[u][m] = committed[m]
      BY <2>1, CommittedIsHeld
    <3>2. committed[m].from[3] <= o.attempt
      BY <1>1, <2>1, <2>6, <3>1 DEF LastInv
    <3>3. committed[m] \in Entry
      BY <2>3, <2>6
    <3>4. committed[m].from \in Tag
      BY <3>3 DEF Entry
    <3>5. committed[m].from[3] # o.attempt
      <4> SUFFICES ASSUME committed[m].from[3] = o.attempt PROVE FALSE
        OBVIOUS
      <4>1. committed[m].from = <<c, o.request, o.attempt>>
        BY <3>4, <2>6 DEF Tag
      <4> QED
        BY <4>1, <1>1, <2>1, <2>4, <2>5, <2>6 DEF LastInv
    <3>6. committed[m].from[3] \in Nat
      BY <3>4 DEF Tag
    <3> QED
      BY <3>2, <3>5, <3>6, <2>2
  <2> QED
    BY <2>4, <2>6
<1>2. IInv => AttemptLinearizable
  BY <1>1 DEF AttemptLinearizable
<1> QED
  BY <1>2, Inductive, PTL

\* An attempt that was answered "commit failed; please retry" is not executed,
\* then or later.
THEOREM FailedTheorem == Spec => []FailedIsNotRun
<1>1. IInv => FailedIsNotRun
  BY DEF IInv, CallerInv, FailedInv, FailedIsNotRun
<1> QED
  BY <1>1, Inductive, PTL
=============================================================================
