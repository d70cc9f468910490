--------------------------- MODULE KVServiceProofs ---------------------------
(***************************************************************************)
(* Proofs about KVService, for any number of services, clients, callers,   *)
(* requests, attempts, elections and restarts: no service executes a       *)
(* request twice and its store is that of the committed commands, and an   *)
(* OK carries the result of the caller's own request, if its command was   *)
(* alone at its index.                                                     *)
(***************************************************************************)
EXTENDS KVService, ReplicatedLogProofs, FiniteSetTheorems

-----------------------------------------------------------------------------
(* The key as a function of the commands *)

AnyOp == [kind : {"get", "put", "append", "cas"},
          value : Seq(Piece), compare : Seq(Piece)]
Entry == [serviceID : Service, clientID : Client, requestID : Nat \ {0}, op : AnyOp]
StoreSet == [found : BOOLEAN, value : Seq(Piece)]

\* Superseded and StoreAfter, of any commands.
SupersededIn(cmds, n) ==
    \E m \in 1..(n - 1) :
        /\ cmds[m].clientID = cmds[n].clientID
        /\ cmds[m].requestID >= cmds[n].requestID

\* The entry after command n, when it was v.
Outcome(cmds, v, n) == IF SupersededIn(cmds, n) THEN v ELSE Executed(v, cmds[n].op)

StoreOf(cmds) ==
    LET f[n \in 0..Len(cmds)] == IF n = 0 THEN Absent ELSE Outcome(cmds, f[n - 1], n)
    IN  f

LEMMA ExecutedType ==
    ASSUME NEW v \in StoreSet, NEW op \in AnyOp
    PROVE  Executed(v, op) \in StoreSet
<1>1. /\ v.value \in Seq(Piece) /\ op.value \in Seq(Piece)
      /\ op.kind \in {"get", "put", "append", "cas"}
  BY DEF StoreSet, AnyOp
<1>2. \A x \in Seq(Piece) : Present(x) \in StoreSet
  BY DEF Present, StoreSet
<1>3. v.value \o op.value \in Seq(Piece)
  BY <1>1
<1>4. CASE op.kind = "get"
  BY <1>4 DEF Executed
<1>5. CASE op.kind = "put"
  BY <1>1, <1>2, <1>5 DEF Executed
<1>6. CASE op.kind = "append"
  BY <1>2, <1>3, <1>6 DEF Executed
<1>7. CASE op.kind = "cas"
  BY <1>1, <1>2, <1>7 DEF Executed
<1> QED
  BY <1>1, <1>4, <1>5, <1>6, <1>7

LEMMA OutcomeType ==
    ASSUME NEW cmds \in Seq(Entry), NEW v \in StoreSet, NEW n \in 1..Len(cmds)
    PROVE  Outcome(cmds, v, n) \in StoreSet
<1>1. cmds[n] \in Entry
  OBVIOUS
<1>2. cmds[n].op \in AnyOp
  BY <1>1 DEF Entry
<1> QED
  BY <1>2, ExecutedType DEF Outcome

\* The recursion defines the entry for every number of commands.
LEMMA StoreOfDefined ==
    ASSUME NEW cmds \in Seq(Entry)
    PROVE  /\ StoreOf(cmds) \in [0..Len(cmds) -> StoreSet]
           /\ StoreOf(cmds)[0] = Absent
           /\ \A n \in 1..Len(cmds) :
                StoreOf(cmds)[n] = Outcome(cmds, StoreOf(cmds)[n - 1], n)
<1> DEFINE N == Len(cmds)
           G == [x \in StoreSet \X (1..N) |-> Outcome(cmds, x[1], x[2])]
           Step(f) == [n \in 0..N |-> IF n = 0 THEN Absent
                                      ELSE Outcome(cmds, f[n - 1], n)]
<1>1. N \in Nat
  OBVIOUS
<1>2. IsStep(G, StoreSet, N)
  BY <1>1, OutcomeType DEF IsStep
<1>3. Absent \in StoreSet
  BY DEF Absent, StoreSet
<1>4. PICK f : IsIterate(f, Absent, G, StoreSet, N)
  <2> HIDE DEF G, N, Absent
  <2> QED
    BY <1>1, <1>2, <1>3, RecursionDefines
<1>5. ASSUME NEW n \in 1..N PROVE f[n] = Outcome(cmds, f[n - 1], n)
  <2>1. n - 1 \in 0..N /\ f[n - 1] \in StoreSet
    BY <1>1, <1>4 DEF IsIterate
  <2>2. <<f[n - 1], n>> \in StoreSet \X (1..N)
    BY <2>1
  <2> QED
    BY <2>2, <1>4 DEF IsIterate
<1>6. f = Step(f)
  <2>1. \A n \in 0..N : n = 0 \/ n \in 1..N
    BY <1>1
  <2> QED
    BY <2>1, <1>4, <1>5 DEF IsIterate
<1>7. StoreOf(cmds) = CHOOSE g : g = Step(g)
  BY DEF StoreOf
<1> DEFINE g == StoreOf(cmds)
           Same == {n \in 0..N : g[n] = f[n]}
<1>8. g = Step(g)
  BY <1>6, <1>7
<1>9. g[0] = Absent /\ \A n \in 1..N : g[n] = Outcome(cmds, g[n - 1], n)
  <2>1. 0 \in 0..N /\ \A n \in 1..N : n \in 0..N /\ n # 0
    BY <1>1
  <2> QED
    BY <2>1, <1>8
<1>10. \A n \in 0..N : n \in Same
  <2>1. 0 \in Same
    BY <1>1, <1>4, <1>9 DEF IsIterate
  <2>2. \A n \in 1..N : n - 1 \in Same => n \in Same
    BY <1>1, <1>5, <1>9
  <2> HIDE DEF Same
  <2> QED
    BY <2>1, <2>2, <1>1, InductionUpTo
<1>11. g \in [0..N -> StoreSet]
  <2>1. DOMAIN g = 0..N /\ g = [n \in 0..N |-> g[n]]
    BY <1>8
  <2> QED
    BY <2>1, <1>4, <1>10 DEF IsIterate
<1> QED
  BY <1>9, <1>11

\* What is committed later does not change the entries before it.
LEMMA StoreOfPrefix ==
    ASSUME NEW a \in Seq(Entry), NEW b \in Seq(Entry), Len(a) <= Len(b),
           \A n \in 1..Len(a) : b[n] = a[n]
    PROVE  /\ \A n \in 1..Len(a) : SupersededIn(b, n) <=> SupersededIn(a, n)
           /\ \A n \in 0..Len(a) : StoreOf(b)[n] = StoreOf(a)[n]
<1> DEFINE N == Len(a)
           Same == {n \in 0..N : StoreOf(b)[n] = StoreOf(a)[n]}
<1>1. N \in Nat /\ Len(b) \in Nat
  OBVIOUS
<1>2. ASSUME NEW n \in 1..N PROVE SupersededIn(b, n) <=> SupersededIn(a, n)
  <2>1. b[n] = a[n] /\ \A m \in 1..(n - 1) : b[m] = a[m]
    BY <1>1
  <2> QED
    BY <2>1 DEF SupersededIn
<1>3. 0 \in Same
  BY <1>1, StoreOfDefined
<1>4. ASSUME NEW n \in 1..N, n - 1 \in Same PROVE n \in Same
  <2>1. n \in 0..N /\ n \in 1..Len(b) /\ b[n] = a[n]
    BY <1>1
  <2>2. StoreOf(b)[n] = Outcome(b, StoreOf(b)[n - 1], n)
    BY <2>1, StoreOfDefined
  <2>3. StoreOf(a)[n] = Outcome(a, StoreOf(a)[n - 1], n)
    BY StoreOfDefined
  <2>4. StoreOf(b)[n - 1] = StoreOf(a)[n - 1]
    BY <1>4
  <2>5. Outcome(b, StoreOf(b)[n - 1], n) = Outcome(a, StoreOf(a)[n - 1], n)
    BY <2>1, <2>4, <1>2 DEF Outcome
  <2> QED
    BY <2>1, <2>2, <2>3, <2>5
<1>5. \A n \in 0..N : n \in Same
  <2> HIDE DEF Same
  <2> QED
    BY <1>1, <1>3, <1>4, InductionUpTo
<1> QED
  BY <1>2, <1>5

\* StoreAfter is StoreOf the committed commands.
LEMMA StoreAfterIs == StoreAfter = StoreOf(committed)
<1>1. StoreAfter = LET f[n \in 0..Len(committed)] ==
                         IF n = 0 THEN Absent
                         ELSE IF SupersededIn(committed, n) THEN f[n - 1]
                         ELSE Executed(f[n - 1], committed[n].op)
                   IN  f
  BY DEF StoreAfter, Superseded, SupersededIn
<1> QED
  BY <1>1 DEF StoreOf, Outcome

LEMMA StoreAfterIsNext == StoreAfter' = StoreOf(committed')
<1>1. StoreAfter' = LET f[n \in 0..Len(committed')] ==
                         IF n = 0 THEN Absent
                         ELSE IF SupersededIn(committed', n) THEN f[n - 1]
                         ELSE Executed(f[n - 1], committed'[n].op)
                   IN  f
  BY DEF StoreAfter, Superseded, SupersededIn
<1> QED
  BY <1>1 DEF StoreOf, Outcome

LEMMA StoreStays ==
    ASSUME LogType(Entry), LogType(Entry)', CommittedStays
    PROVE  /\ \A n \in 0..Len(committed) : StoreAfter'[n] = StoreAfter[n]
           /\ \A n \in 1..Len(committed) : Superseded(n)' <=> Superseded(n)
<1>1. committed \in Seq(Entry) /\ committed' \in Seq(Entry)
  BY DEF LogType
<1>2. \A n \in 1..Len(committed) :
         /\ Superseded(n) <=> SupersededIn(committed, n)
         /\ Superseded(n)' <=> SupersededIn(committed', n)
  BY DEF Superseded, SupersededIn
<1> QED
  BY <1>1, <1>2, StoreAfterIs, StoreAfterIsNext, StoreOfPrefix DEF CommittedStays

\* The recursion, of the committed commands.
LEMMA StoreAfterStep ==
    ASSUME LogType(Entry)
    PROVE  /\ StoreAfter[0] = Absent
           /\ \A n \in 1..Len(committed) :
                StoreAfter[n] = IF Superseded(n) THEN StoreAfter[n - 1]
                                ELSE Executed(StoreAfter[n - 1], committed[n].op)
           /\ \A n \in 0..Len(committed) : StoreAfter[n] \in StoreSet
<1>1. committed \in Seq(Entry)
  BY DEF LogType
<1>2. \A n \in 1..Len(committed) : Superseded(n) <=> SupersededIn(committed, n)
  BY DEF Superseded, SupersededIn
<1> QED
  BY <1>1, <1>2, StoreAfterIs, StoreOfDefined DEF Outcome

-----------------------------------------------------------------------------
(* The inductive invariant *)

CallRecord == [pc : {"idle", "waiting"}, request : Nat, attempt : Nat,
               target : Service, op : AnyOp]
OutcomeRecord == [status : {"none", "OK", "FailedCommit", "DuplicateRequest",
                            "Error", "Cancelled"},
                  request : Nat, alone : BOOLEAN, result : StoreSet]
ReplyRecord == [kind : {"invalid", "get", "put", "append", "cas"}, serviceID : Service,
                duplicate : BOOLEAN, result : StoreSet]
HandlerRecord == [pc : {"idle", "received", "submitted", "waiting"}, attempt : Nat,
                  request : Nat, cancelled : BOOLEAN, op : AnyOp, index : Nat,
                  alone : BOOLEAN, chan : ReplyRecord]

TypeInv ==
    /\ LogType(Entry) /\ LogsBounded
    /\ requestID \in [Client -> Nat]
    /\ assumedLeader \in [Client -> Service]
    /\ call \in [Caller -> CallRecord]
    /\ outcome \in [Caller -> OutcomeRecord]
    /\ handler \in [Service -> [Caller -> HandlerRecord]]
    /\ DOMAIN commitSubs = Service
    /\ \A s \in Service : DOMAIN commitSubs[s] = Index
    /\ \A s \in Service, i \in Index : commitSubs[s][i].attempt \in Nat
    /\ data \in [Service -> StoreSet]
    /\ lastRequestID \in [Service -> [Client -> Nat]]
    /\ applied \in [Service -> Nat]
    /\ ran \in [Service -> Seq(Client \X Nat)]

\* lastRequestID is the highest ID of each client in what has been received.
IsLast(last, n) ==
    /\ \A i \in 1..n : committed[i].requestID <= last[committed[i].clientID]
    /\ \A k \in Client :
          \/ last[k] = 0
          \/ \E i \in 1..n : committed[i].clientID = k /\ committed[i].requestID = last[k]

\* The requests that were executed differ, and none is above the last.
RanOnce(r, last) ==
    /\ \A i \in 1..Len(r) : r[i][2] <= last[r[i][1]]
    /\ \A i, j \in 1..Len(r) : r[i] = r[j] => i = j

NodeInv(s) ==
    /\ Agrees(s, applied[s])
    /\ data[s] = StoreAfter[applied[s]]
    /\ IsLast(lastRequestID[s], applied[s])
    /\ RanOnce(ran[s], lastRequestID[s])

\* The handlers of caller c, by service.
Handlers(c) == [s \in Service |-> handler[s][c]]

\* A handler waits for an index of its service's log; if no other request of the
\* service was there when it submitted, none comes.
Located(s, c, h) ==
    /\ h.index \in Index
    /\ s \in leaders => h.index <= Len(log[s])
    /\ h.alone =>
          \A t \in Service :
             h.index <= Len(log[t]) /\ log[t][h.index].serviceID = s =>
                /\ log[t][h.index].clientID = ClientOf[c]
                /\ log[t][h.index].requestID = h.request

\* What is delivered is what is committed at the index, and the key before it;
\* but of a duplicate, the mark alone.
ChanInv(h) ==
    h.chan # NoCommand =>
        /\ h.pc = "waiting" /\ h.index <= Len(committed)
        /\ ~h.chan.duplicate =>
              /\ h.chan.serviceID = committed[h.index].serviceID
              /\ ~Superseded(h.index)
              /\ h.chan.result = StoreAfter[h.index - 1]

\* Handler h of caller c, whose last attempt is a, at service s.
HandlerInv(s, c, h, a) ==
    /\ h.attempt <= a
    /\ h.pc # "idle" => h.attempt > 0 /\ h.request > 0
    /\ h.pc \in {"submitted", "waiting"} => Located(s, c, h)
    \* a subscription is found under the index of its handler
    /\ h.pc # "idle" =>
          \A i \in Index :
             commitSubs[s][i] = [caller |-> c, attempt |-> h.attempt] =>
                h.pc = "waiting" /\ i = h.index
    /\ ChanInv(h)

OKInv(c, o) ==
    o.status = "OK" /\ o.alone =>
        \E n \in 1..Len(committed) :
            /\ committed[n].clientID = ClientOf[c]
            /\ committed[n].requestID = o.request
            /\ ~Superseded(n)
            /\ o.result = StoreAfter[n - 1]

CallerInv(c, k, hs, o) ==
    /\ k.pc = "waiting" => k.request > 0
    /\ \A s \in Service, i \in Index :
          commitSubs[s][i].caller = c => commitSubs[s][i].attempt <= k.attempt
    /\ \A s \in Service : HandlerInv(s, c, hs[s], k.attempt)
    /\ OKInv(c, o)

IInv ==
    /\ TypeInv
    /\ CurrentHolds
    /\ \A s \in Service : NodeInv(s)
    /\ \A c \in Caller : CallerInv(c, call[c], Handlers(c), outcome[c])

-----------------------------------------------------------------------------
(* What a step leaves alone stays true *)

\* Subscriptions end.
SubsEnd ==
    \A s \in Service, i \in Index :
        commitSubs'[s][i] = commitSubs[s][i] \/ commitSubs'[s][i] = NoSub

\* A step of the logs, with what is known of one caller.
LEMMA CallerStays ==
    ASSUME TypeInv, LogType(Entry)', CommittedStays, LeadersAppend, NothingNew, SubsEnd,
           NEW c \in Caller, NEW k \in CallRecord,
           NEW hs \in [Service -> HandlerRecord], NEW o \in OutcomeRecord,
           CallerInv(c, k, hs, o),
           \A s \in Service : s \in leaders' \ leaders =>
              hs[s].pc \in {"idle", "received"}
    PROVE  CallerInv(c, k, hs, o)'
<1>1. /\ LogType(Entry) /\ Len(committed) \in Nat /\ Len(committed') \in Nat
      /\ \A t \in Service : Len(log[t]) \in Nat /\ Len(log'[t]) \in Nat
      /\ k.attempt \in Nat
  <2>1. LogType(Entry) /\ committed \in Seq(Entry) /\ committed' \in Seq(Entry)
    BY DEF TypeInv, LogType
  <2>2. \A t \in Service : Len(log[t]) \in Nat /\ Len(log'[t]) \in Nat
    BY DEF TypeInv, LogType
  <2>3. k.attempt \in Nat
    BY DEF CallRecord
  <2> QED
    BY <2>1, <2>2, <2>3
<1>2. /\ \A n \in 0..Len(committed) : StoreAfter'[n] = StoreAfter[n]
      /\ \A n \in 1..Len(committed) : Superseded(n)' <=> Superseded(n)
  BY <1>1, StoreStays
<1>3. \A s \in Service, i \in Index :
         commitSubs'[s][i].caller = c => commitSubs'[s][i].attempt <= k.attempt
  BY <1>1 DEF CallerInv, SubsEnd, NoSub
<1>4. ASSUME NEW s \in Service PROVE HandlerInv(s, c, hs[s], k.attempt)'
  <2> DEFINE h == hs[s]
  <2>1. HandlerInv(s, c, h, k.attempt) /\ h \in HandlerRecord
    BY DEF CallerInv
  <2>2. /\ h.attempt \in Nat /\ h.index \in Nat
        /\ h.pc \in {"idle", "received", "submitted", "waiting"}
    BY <2>1 DEF HandlerRecord
  <2>3. s \in leaders' \ leaders => h.pc \in {"idle", "received"}
    OBVIOUS
  <2> HIDE DEF h
  <2>4. ASSUME h.pc \in {"submitted", "waiting"} PROVE Located(s, c, h)'
    <3>1. Located(s, c, h)
      BY <2>1, <2>4 DEF HandlerInv
    <3>2. s \in leaders' => h.index <= Len(log'[s])
      <4> SUFFICES ASSUME s \in leaders' PROVE h.index <= Len(log'[s])
        OBVIOUS
      <4>1. s \in leaders
        BY <2>3, <2>4
      <4> QED
        BY <4>1, <3>1, <2>2, <1>1 DEF Located, LeadersAppend
    <3>3. ASSUME h.alone, NEW t \in Service, h.index <= Len(log'[t]),
                 log'[t][h.index].serviceID = s
          PROVE  /\ log'[t][h.index].clientID = ClientOf[c]
                 /\ log'[t][h.index].requestID = h.request
      <4>1. h.index \in 1..Len(log'[t])
        BY <3>1, <3>3, <2>2, <1>1 DEF Located, Index
      <4>2. PICK u \in Service :
               h.index \in 1..Len(log[u]) /\ log[u][h.index] = log'[t][h.index]
        BY <4>1 DEF NothingNew
      <4> QED
        BY <4>2, <3>1, <3>3, <1>1 DEF Located
    <3> QED
      BY <3>1, <3>2, <3>3 DEF Located
  <2>5. h.pc # "idle" =>
           \A i \in Index :
              commitSubs'[s][i] = [caller |-> c, attempt |-> h.attempt] =>
                 h.pc = "waiting" /\ i = h.index
    <3>1. h.pc # "idle" => NoSub # [caller |-> c, attempt |-> h.attempt]
      BY <2>1, <2>2 DEF HandlerInv, NoSub
    <3> QED
      BY <3>1, <2>1 DEF HandlerInv, SubsEnd
  <2>6. ChanInv(h)'
    <3> SUFFICES ASSUME h.chan # NoCommand PROVE ChanInv(h)'
      BY DEF ChanInv
    <3>1. h.pc = "waiting" /\ h.index <= Len(committed)
      BY <2>1 DEF HandlerInv, ChanInv
    <3>2. h.index \in Index
      BY <3>1, <2>1 DEF HandlerInv, Located
    <3>3. h.index \in 1..Len(committed) /\ h.index - 1 \in 0..Len(committed)
      BY <3>1, <3>2, <2>2, <1>1 DEF Index
    <3>4. committed'[h.index] = committed[h.index] /\ h.index <= Len(committed')
      BY <3>1, <3>3, <1>1, <2>2 DEF CommittedStays
    <3>5. /\ StoreAfter'[h.index - 1] = StoreAfter[h.index - 1]
          /\ Superseded(h.index)' <=> Superseded(h.index)
      BY <3>3, <1>2
    <3> QED
      BY <3>1, <3>4, <3>5, <2>1 DEF HandlerInv, ChanInv
  <2>7. HandlerInv(s, c, h, k.attempt)'
    BY <2>1, <2>4, <2>5, <2>6 DEF HandlerInv
  <2> QED
    BY <2>7 DEF h
<1>5. OKInv(c, o)'
  <2> SUFFICES ASSUME o.status = "OK", o.alone
               PROVE  \E n \in 1..Len(committed') :
                         /\ committed'[n].clientID = ClientOf[c]
                         /\ committed'[n].requestID = o.request
                         /\ ~Superseded(n)'
                         /\ o.result = StoreAfter'[n - 1]
    BY DEF OKInv
  <2>1. PICK n \in 1..Len(committed) :
            /\ committed[n].clientID = ClientOf[c]
            /\ committed[n].requestID = o.request
            /\ ~Superseded(n)
            /\ o.result = StoreAfter[n - 1]
    BY DEF CallerInv, OKInv
  <2>2. n - 1 \in 0..Len(committed)
    BY <1>1
  <2>3. committed'[n] = committed[n] /\ n \in 1..Len(committed')
    BY <1>1 DEF CommittedStays
  <2> QED
    BY <2>1, <2>2, <2>3, <1>2
<1> QED
  BY <1>3, <1>4, <1>5 DEF CallerInv

-----------------------------------------------------------------------------
(* A caller and its handlers *)

LEMMA NoHandlerType ==
    /\ NoHandler \in HandlerRecord /\ NoHandler.pc = "idle" /\ NoHandler.attempt = 0
    /\ NoHandler.chan = NoCommand /\ NoOp \in AnyOp /\ Absent \in StoreSet
    /\ 0 \in Service
<1>1. 0 \in Service
  BY ServiceAssumption, FS_CardinalityType, FS_EmptySet
<1>2. NoOp \in AnyOp
  BY DEF NoOp, AnyOp
<1>3. Absent \in StoreSet
  BY DEF Absent, StoreSet
<1>4. NoCommand \in ReplyRecord
  <2> HIDE DEF Absent
  <2> QED
    BY <1>1, <1>3 DEF NoCommand, ReplyRecord
<1>5. NoHandler \in HandlerRecord /\ NoHandler.pc = "idle" /\ NoHandler.attempt = 0
      /\ NoHandler.chan = NoCommand
  <2> HIDE DEF NoOp, NoCommand
  <2> QED
    BY <1>2, <1>4 DEF NoHandler, HandlerRecord
<1> QED
  BY <1>1, <1>2, <1>3, <1>5

\* A handler that is gone.
LEMMA NoHandlerInv ==
    ASSUME NEW s, NEW c, NEW a \in Nat
    PROVE  HandlerInv(s, c, NoHandler, a)
<1> HIDE DEF NoHandler, NoCommand
<1> QED
  BY NoHandlerType DEF HandlerInv, ChanInv

LEMMA ReplaceInv ==
    ASSUME NEW c \in Caller, NEW k \in CallRecord,
           NEW hs \in [Service -> HandlerRecord], NEW o \in OutcomeRecord,
           NEW s \in Service, CallerInv(c, k, hs, o),
           NEW r \in HandlerRecord, HandlerInv(s, c, r, k.attempt)
    PROVE  /\ [hs EXCEPT ![s] = r] \in [Service -> HandlerRecord]
           /\ CallerInv(c, k, [hs EXCEPT ![s] = r], o)
<1> DEFINE g == [hs EXCEPT ![s] = r]
<1>1. /\ g \in [Service -> HandlerRecord] /\ g[s] = r
      /\ \A t \in Service \ {s} : g[t] = hs[t]
  OBVIOUS
<1> HIDE DEF g
<1>2. \A t \in Service : HandlerInv(t, c, g[t], k.attempt)
  BY <1>1 DEF CallerInv
<1>3. CallerInv(c, k, g, o)
  BY <1>2 DEF CallerInv
<1> QED
  BY <1>1, <1>3 DEF g

\* What HandlerInv depends on.
LEMMA SameInv ==
    ASSUME NEW s, NEW c, NEW a, NEW h \in HandlerRecord, HandlerInv(s, c, h, a),
           NEW r \in HandlerRecord, r.pc = h.pc, r.request = h.request,
           r.attempt = h.attempt, r.index = h.index, r.alone = h.alone
    PROVE  ChanInv(r) => HandlerInv(s, c, r, a)
<1>1. Located(s, c, h) => Located(s, c, r)
  BY DEF Located
<1> QED
  BY <1>1 DEF HandlerInv

\* The next attempt, with a handler that has received it.
LEMMA SendInv ==
    ASSUME NEW c \in Caller, NEW k \in CallRecord,
           NEW hs \in [Service -> HandlerRecord], NEW o \in OutcomeRecord,
           NEW s \in Service, CallerInv(c, k, hs, o), TypeInv,
           NEW k2 \in CallRecord, NEW r \in HandlerRecord,
           k2.attempt = k.attempt + 1, k2.request > 0,
           r.pc = "received", r.attempt = k2.attempt, r.request = k2.request,
           r.chan = NoCommand
    PROVE  /\ [hs EXCEPT ![s] = r] \in [Service -> HandlerRecord]
           /\ CallerInv(c, k2, [hs EXCEPT ![s] = r], o)
<1>1. k.attempt \in Nat /\ k2.attempt \in Nat /\ \A t \in Service : hs[t].attempt \in Nat
  BY DEF CallRecord, HandlerRecord
<1>2. ASSUME NEW t \in Service, NEW i \in Index, commitSubs[t][i].caller = c
      PROVE  commitSubs[t][i].attempt <= k.attempt /\ commitSubs[t][i].attempt <= k2.attempt
  <2>1. commitSubs[t][i].attempt <= k.attempt
    BY <1>2 DEF CallerInv
  <2>2. commitSubs[t][i].attempt \in Nat
    BY DEF TypeInv
  <2> QED
    BY <2>1, <2>2, <1>1
<1>3. CallerInv(c, k2, hs, o)
  <2>1. ASSUME NEW t \in Service PROVE HandlerInv(t, c, hs[t], k2.attempt)
    <3>1. HandlerInv(t, c, hs[t], k.attempt)
      BY DEF CallerInv
    <3>2. hs[t].attempt <= k2.attempt
      BY <3>1, <1>1 DEF HandlerInv
    <3> QED
      BY <3>1, <3>2 DEF HandlerInv
  <2> QED
    BY <2>1, <1>2 DEF CallerInv
<1>4. HandlerInv(s, c, r, k2.attempt)
  <2>1. \A i \in Index :
           commitSubs[s][i] # [caller |-> c, attempt |-> r.attempt]
    BY <1>1, <1>2
  <2> QED
    BY <2>1, <1>1 DEF HandlerInv, ChanInv
<1> QED
  BY <1>3, <1>4, ReplaceInv

-----------------------------------------------------------------------------
(* The client's steps, and the answers *)

logged == <<log, committed, current, leaders, commitSubs, storeVars>>

\* A step of caller c and its handlers that leaves the services alone.
LEMMA ClientStep ==
    ASSUME IInv, NEW c \in Caller, UNCHANGED logged,
           requestID' \in [Client -> Nat], assumedLeader' \in [Client -> Service],
           call' \in [Caller -> CallRecord],
           outcome' \in [Caller -> OutcomeRecord],
           handler' \in [Service -> [Caller -> HandlerRecord]],
           \A d \in Caller \ {c} : call'[d] = call[d] /\ outcome'[d] = outcome[d],
           \A t \in Service, d \in Caller \ {c} : handler'[t][d] = handler[t][d],
           NEW hs \in [Service -> HandlerRecord],
           \A t \in Service : handler'[t][c] = hs[t],
           CallerInv(c, call'[c], hs, outcome'[c])
    PROVE  IInv'
<1>1. TypeInv /\ LogType(Entry) /\ CurrentHolds
  BY DEF IInv, TypeInv
<1>2. UNCHANGED <<log, committed, current, leaders, commitSubs, data, lastRequestID,
                  applied, ran>>
  BY DEF logged, storeVars
<1>3. /\ LogType(Entry)' /\ AgreedStays /\ CommittedStays /\ LeadersAppend
      /\ CurrentHolds'
  BY <1>1, <1>2, UnchangedKeeps
<1>4. NothingNew /\ SubsEnd
  BY <1>2 DEF NothingNew, SubsEnd
<1>5. TypeInv'
  <2>1. LogsBounded'
    BY <1>1, <1>3, <1>4, BoundStays DEF TypeInv
  <2> QED
    BY <2>1, <1>1, <1>2, <1>3 DEF TypeInv
<1>6. StoreAfter' = StoreAfter
  BY <1>2, StoreAfterIs, StoreAfterIsNext
<1>7. \A s \in Service : NodeInv(s)'
  <2> SUFFICES ASSUME NEW s \in Service PROVE NodeInv(s)'
    OBVIOUS
  <2>1. NodeInv(s)
    BY DEF IInv
  <2>2. IsLast(lastRequestID[s], applied[s])' /\ RanOnce(ran[s], lastRequestID[s])'
    BY <2>1, <1>2 DEF NodeInv, IsLast, RanOnce
  <2>3. Agrees(s, applied[s])' /\ data'[s] = StoreAfter'[applied'[s]]
    BY <2>1, <1>2, <1>6 DEF NodeInv, Agrees
  <2> QED
    BY <2>2, <2>3 DEF NodeInv
<1>8. ASSUME NEW d \in Caller
      PROVE  CallerInv(d, call'[d], Handlers(d)', outcome'[d])
  <2>1. CASE d = c
    <3>1. Handlers(c)' = hs
      BY DEF Handlers
    <3> QED
      BY <2>1, <3>1
  <2>2. CASE d # c
    <3>1. Handlers(d)' = Handlers(d)
      BY <2>2 DEF Handlers
    <3>2. call'[d] = call[d] /\ outcome'[d] = outcome[d]
      BY <2>2
    <3>3. CallerInv(d, call[d], Handlers(d), outcome[d])
      BY DEF IInv
    <3> QED
      BY <3>1, <3>2, <3>3
  <2> QED
    BY <2>1, <2>2
<1>9. ASSUME NEW d \in Caller
      PROVE  CallerInv(d, call[d], Handlers(d), outcome[d])'
  <2>1. /\ call'[d] \in CallRecord /\ outcome'[d] \in OutcomeRecord
        /\ Handlers(d)' \in [Service -> HandlerRecord]
    BY DEF Handlers
  <2>2. leaders' \ leaders = {}
    BY <1>2
  <2>3. \A k \in CallRecord, g \in [Service -> HandlerRecord], o \in OutcomeRecord :
           CallerInv(d, k, g, o) => CallerInv(d, k, g, o)'
    BY <2>2, <1>1, <1>3, <1>4, CallerStays
  <2> HIDE DEF Handlers
  <2> QED
    BY <2>1, <2>3, <1>8
<1> QED
  BY <1>3, <1>5, <1>7, <1>9 DEF IInv

LEMMA HandlersType ==
    ASSUME IInv, NEW c \in Caller
    PROVE  /\ Handlers(c) \in [Service -> HandlerRecord]
           /\ \A s \in Service : Handlers(c)[s] = handler[s][c]
           /\ CallerInv(c, call[c], Handlers(c), outcome[c])
           /\ call[c] \in CallRecord /\ outcome[c] \in OutcomeRecord
           /\ ClientOf[c] \in Client
BY DEF IInv, TypeInv, Handlers, Client

\* h has the handlers hs for c, and those of the state for the others.
ChangedFor(h, c, hs) ==
    /\ h \in [Service -> [Caller -> HandlerRecord]]
    /\ hs \in [Service -> HandlerRecord]
    /\ \A t \in Service : h[t][c] = hs[t]
    /\ \A t \in Service, d \in Caller \ {c} : h[t][d] = handler[t][d]

\* send: on from the handlers h, which differ for c alone.
LEMMA SendsKeeps ==
    ASSUME IInv, NEW c \in Caller, NEW s \in Service, NEW request \in Nat, request > 0,
           NEW n, n = call[c].attempt + 1, NEW op \in AnyOp,
           NEW h, NEW hs, ChangedFor(h, c, hs),
           CallerInv(c, call[c], hs, outcome[c]), Sends(c, s, request, n, op, h),
           requestID' \in [Client -> Nat], assumedLeader' \in [Client -> Service],
           UNCHANGED outcome, UNCHANGED logged
    PROVE  IInv'
<1> DEFINE k2 == [pc |-> "waiting", request |-> request, attempt |-> n,
                  target |-> s, op |-> op]
           r == Arrived(request, n, op)
           g == [hs EXCEPT ![s] = r]
<1>1. call' = [call EXCEPT ![c] = k2] /\ handler' = [h EXCEPT ![s][c] = r]
  BY DEF Sends
<1>2. /\ TypeInv /\ call \in [Caller -> CallRecord] /\ call[c] \in CallRecord
      /\ outcome \in [Caller -> OutcomeRecord] /\ outcome[c] \in OutcomeRecord
  BY DEF IInv, TypeInv
<1>3. n \in Nat
  BY <1>2 DEF CallRecord
<1>4. k2 \in CallRecord
  BY <1>3 DEF CallRecord
<1>5. /\ r \in HandlerRecord /\ r.pc = "received" /\ r.request = request
      /\ r.attempt = n /\ r.chan = NoCommand
  <2> DEFINE r1 == [NoHandler EXCEPT !.pc = "received"]
             r2 == [r1 EXCEPT !.request = request]
             r3 == [r2 EXCEPT !.attempt = n]
             r4 == [r3 EXCEPT !.op = op]
  <2> HIDE DEF NoHandler, NoCommand
  <2>1. r = r4
    BY DEF Arrived
  <2>2. r1 \in HandlerRecord /\ r1.pc = "received" /\ r1.chan = NoCommand
    BY NoHandlerType DEF HandlerRecord
  <2> HIDE DEF r1
  <2>3. r2 \in HandlerRecord /\ r2.pc = "received" /\ r2.chan = NoCommand
        /\ r2.request = request
    BY <2>2 DEF HandlerRecord
  <2> HIDE DEF r2
  <2>4. r3 \in HandlerRecord /\ r3.pc = "received" /\ r3.chan = NoCommand
        /\ r3.request = request /\ r3.attempt = n
    BY <2>3, <1>3 DEF HandlerRecord
  <2> HIDE DEF r3
  <2>5. r4 \in HandlerRecord /\ r4.pc = "received" /\ r4.chan = NoCommand
        /\ r4.request = request /\ r4.attempt = n
    BY <2>4 DEF HandlerRecord
  <2> QED
    BY <2>1, <2>5
<1> HIDE DEF r
<1>6. /\ hs \in [Service -> HandlerRecord]
      /\ h \in [Service -> [Caller -> HandlerRecord]]
      /\ \A t \in Service : h[t][c] = hs[t]
      /\ \A t \in Service, d \in Caller \ {c} : h[t][d] = handler[t][d]
  BY DEF ChangedFor
<1>7. /\ k2.attempt = call[c].attempt + 1 /\ k2.request > 0
      /\ r.attempt = k2.attempt /\ r.request = k2.request
  BY <1>5
<1> HIDE DEF k2
<1>8. g \in [Service -> HandlerRecord] /\ CallerInv(c, k2, g, outcome[c])
  BY <1>2, <1>4, <1>5, <1>6, <1>7, SendInv
<1>9. /\ call' \in [Caller -> CallRecord] /\ call'[c] = k2
      /\ \A d \in Caller \ {c} : call'[d] = call[d] /\ outcome'[d] = outcome[d]
  BY <1>1, <1>2, <1>4
<1>10. /\ handler' \in [Service -> [Caller -> HandlerRecord]]
       /\ \A t \in Service : handler'[t][c] = g[t]
       /\ \A t \in Service, d \in Caller \ {c} : handler'[t][d] = handler[t][d]
  BY <1>1, <1>5, <1>6
<1>11. /\ outcome' \in [Caller -> OutcomeRecord]
       /\ CallerInv(c, call'[c], g, outcome'[c])
  BY <1>2, <1>8, <1>9
<1> HIDE DEF g
<1> QED
  BY <1>8, <1>9, <1>10, <1>11, ClientStep

\* The address after this one.
LEMMA NextService ==
    ASSUME NEW s \in Service
    PROVE  (s + 1) % NumServices \in Service
<1>1. NumServices \in Nat /\ NumServices # 0
  BY ServiceAssumption, FS_CardinalityType, FS_EmptySet DEF NumServices
<1>2. s + 1 \in Int
  BY <1>1, ServiceAssumption DEF NumServices
<1>3. (s + 1) % NumServices \in 0..(NumServices - 1)
  BY <1>1, <1>2
<1> QED
  BY <1>3, ServiceAssumption DEF NumServices

LEMMA RequestKeeps ==
    ASSUME IInv, NEW c \in Caller, NEW op \in Op[c], Request(c, op)
    PROVE  IInv'
<1> DEFINE k == ClientOf[c]
           request == requestID[k] + 1
           n == call[c].attempt + 1
<1>1. /\ Sends(c, assumedLeader[k], request, n, op, handler)
      /\ requestID' = [requestID EXCEPT ![k] = @ + 1]
      /\ UNCHANGED <<logVars, assumedLeader, outcome, commitSubs, storeVars, restarts>>
  BY DEF Request
<1>2. /\ k \in Client /\ requestID \in [Client -> Nat] /\ requestID[k] \in Nat
      /\ assumedLeader \in [Client -> Service] /\ assumedLeader[k] \in Service
      /\ handler \in [Service -> [Caller -> HandlerRecord]]
  BY HandlersType DEF IInv, TypeInv
<1>3. request \in Nat /\ request > 0 /\ op \in AnyOp
  BY <1>2, OpAssumption DEF AnyOp
<1>4. ChangedFor(handler, c, Handlers(c)) /\ CallerInv(c, call[c], Handlers(c), outcome[c])
  BY <1>2, HandlersType DEF ChangedFor
<1>5. /\ UNCHANGED logged /\ UNCHANGED outcome /\ requestID' \in [Client -> Nat]
      /\ assumedLeader' \in [Client -> Service]
  BY <1>1, <1>2 DEF logged, logVars
<1> HIDE DEF k, request
<1> QED
  BY <1>1, <1>2, <1>3, <1>4, <1>5, SendsKeeps

\* On to the next address, from the handlers h.
LEMMA MovesKeeps ==
    ASSUME IInv, NEW c \in Caller, NEW h, NEW hs, ChangedFor(h, c, hs),
           CallerInv(c, call[c], hs, outcome[c]), call[c].pc = "waiting",
           NEW next, next = (assumedLeader[ClientOf[c]] + 1) % NumServices,
           assumedLeader' = [assumedLeader EXCEPT ![ClientOf[c]] = next],
           Sends(c, next, call[c].request, call[c].attempt + 1, call[c].op, h),
           UNCHANGED <<requestID, outcome>>, UNCHANGED logged
    PROVE  IInv'
<1>1. /\ ClientOf[c] \in Client /\ assumedLeader \in [Client -> Service]
      /\ requestID \in [Client -> Nat] /\ assumedLeader[ClientOf[c]] \in Service
  BY HandlersType DEF IInv, TypeInv
<1>2. next \in Service
  BY <1>1, NextService
<1>3. assumedLeader' \in [Client -> Service] /\ requestID' \in [Client -> Nat]
  BY <1>1, <1>2
<1>4. call[c].request \in Nat /\ call[c].op \in AnyOp
  BY HandlersType DEF CallRecord
<1>5. call[c].request > 0
  BY DEF CallerInv
<1> QED
  BY <1>2, <1>3, <1>4, <1>5, SendsKeeps

\* One handler of c is replaced.
LEMMA ReplaceFor ==
    ASSUME IInv, NEW c \in Caller, NEW s \in Service, NEW r \in HandlerRecord,
           HandlerInv(s, c, r, call[c].attempt),
           NEW h, h = [handler EXCEPT ![s] = [handler[s] EXCEPT ![c] = r]]
    PROVE  /\ ChangedFor(h, c, [Handlers(c) EXCEPT ![s] = r])
           /\ CallerInv(c, call[c], [Handlers(c) EXCEPT ![s] = r], outcome[c])
<1> DEFINE g == [Handlers(c) EXCEPT ![s] = r]
<1>1. /\ Handlers(c) \in [Service -> HandlerRecord]
      /\ \A t \in Service : Handlers(c)[t] = handler[t][c]
      /\ CallerInv(c, call[c], Handlers(c), outcome[c])
      /\ call[c] \in CallRecord /\ outcome[c] \in OutcomeRecord
      /\ handler \in [Service -> [Caller -> HandlerRecord]]
  BY HandlersType DEF IInv, TypeInv
<1>2. g \in [Service -> HandlerRecord] /\ CallerInv(c, call[c], g, outcome[c])
  <2> HIDE DEF Handlers
  <2> QED
    BY <1>1, ReplaceInv
<1>3. ChangedFor(h, c, g)
  <2> HIDE DEF Handlers
  <2> QED
    BY <1>1, <1>2 DEF ChangedFor
<1> QED
  BY <1>2, <1>3

\* The handlers after the client has hung up.
LEMMA HungUpInv ==
    ASSUME IInv, NEW c \in Caller
    PROVE  \E hs : /\ ChangedFor(HungUp(c), c, hs)
                   /\ CallerInv(c, call[c], hs, outcome[c])
<1> DEFINE s == call[c].target
           h == handler[s][c]
           r0 == [h EXCEPT !.cancelled = TRUE]
           r == IF h.pc # "idle" /\ h.attempt = call[c].attempt THEN r0 ELSE h
<1>1. /\ handler \in [Service -> [Caller -> HandlerRecord]] /\ call[c] \in CallRecord
      /\ CallerInv(c, call[c], Handlers(c), outcome[c])
      /\ \A t \in Service : Handlers(c)[t] = handler[t][c]
  BY HandlersType DEF IInv, TypeInv
<1>2. s \in Service
  BY <1>1 DEF CallRecord
<1>3. h \in HandlerRecord /\ HandlerInv(s, c, h, call[c].attempt)
  BY <1>1, <1>2 DEF CallerInv
<1>4. HungUp(c) = [handler EXCEPT ![s] = [handler[s] EXCEPT ![c] = r]]
  BY <1>1, <1>2 DEF HungUp
<1>5. r0 \in HandlerRecord /\ HandlerInv(s, c, r0, call[c].attempt)
  <2>1. /\ r0 \in HandlerRecord /\ r0.pc = h.pc /\ r0.request = h.request
        /\ r0.attempt = h.attempt /\ r0.index = h.index
        /\ r0.alone = h.alone /\ r0.chan = h.chan
    BY <1>3 DEF HandlerRecord
  <2> HIDE DEF r0, h, s
  <2>2. ChanInv(r0)
    BY <2>1, <1>3 DEF HandlerInv, ChanInv
  <2> QED
    BY <2>1, <2>2, <1>3, SameInv
<1> HIDE DEF r0
<1>6. r \in HandlerRecord /\ HandlerInv(s, c, r, call[c].attempt)
  BY <1>3, <1>5
<1> HIDE DEF r, s
<1> QED
  BY <1>2, <1>4, <1>6, ReplaceFor

LEMMA RetryKeeps ==
    ASSUME IInv, NEW c \in Caller, Retry(c)
    PROVE  IInv'
<1> DEFINE next == (assumedLeader[ClientOf[c]] + 1) % NumServices
<1>1. /\ call[c].pc = "waiting"
      /\ assumedLeader' = [assumedLeader EXCEPT ![ClientOf[c]] = next]
      /\ Sends(c, next, call[c].request, call[c].attempt + 1, call[c].op, HungUp(c))
      /\ UNCHANGED <<requestID, outcome>> /\ UNCHANGED logged
  BY DEF Retry, logged, logVars
<1>2. PICK hs : ChangedFor(HungUp(c), c, hs) /\ CallerInv(c, call[c], hs, outcome[c])
  BY HungUpInv
<1>3. next = (assumedLeader[ClientOf[c]] + 1) % NumServices
  OBVIOUS
<1> HIDE DEF next
<1> QED
  BY <1>1, <1>2, <1>3, MovesKeeps

\* The request returns, and the handlers are h.
LEMMA ReturnsKeeps ==
    ASSUME IInv, NEW c \in Caller, NEW h, NEW hs, ChangedFor(h, c, hs),
           CallerInv(c, call[c], hs, outcome[c]), handler' = h,
           NEW status \in {"OK", "FailedCommit", "DuplicateRequest", "Error", "Cancelled"},
           NEW request \in Nat, NEW result \in StoreSet,
           NEW alone \in BOOLEAN, alone = handler[call[c].target][c].alone,
           Returns(c, status, request, result),
           UNCHANGED <<requestID, assumedLeader>>, UNCHANGED logged,
           \A o \in OutcomeRecord :
              /\ o.status = status /\ o.request = request
              /\ o.alone = alone /\ o.result = result
              => OKInv(c, o)
    PROVE  IInv'
<1> DEFINE k == call[c]
           k2 == [call[c] EXCEPT !.pc = "idle"]
           o2 == [status |-> status, request |-> request, result |-> result,
                  alone |-> alone]
<1>1. call' = [call EXCEPT ![c] = k2] /\ outcome' = [outcome EXCEPT ![c] = o2]
  BY DEF Returns
<1>2. /\ call \in [Caller -> CallRecord] /\ k \in CallRecord
      /\ outcome \in [Caller -> OutcomeRecord] /\ assumedLeader \in [Client -> Service]
      /\ requestID \in [Client -> Nat]
  BY DEF IInv, TypeInv
<1>3. k2 \in CallRecord /\ k2.attempt = k.attempt /\ k2.pc = "idle"
  BY <1>2 DEF CallRecord
<1> HIDE DEF k, k2
<1>4. o2 \in OutcomeRecord
  BY DEF OutcomeRecord
<1>5. OKInv(c, o2)
  BY <1>4
<1> HIDE DEF o2
<1>6. CallerInv(c, k2, hs, o2)
  BY <1>3, <1>5 DEF k, CallerInv
<1>7. /\ call' \in [Caller -> CallRecord] /\ call'[c] = k2
      /\ outcome' \in [Caller -> OutcomeRecord] /\ outcome'[c] = o2
      /\ assumedLeader' \in [Client -> Service] /\ requestID' \in [Client -> Nat]
      /\ \A d \in Caller \ {c} : call'[d] = call[d] /\ outcome'[d] = outcome[d]
  BY <1>1, <1>2, <1>3, <1>4
<1>8. CallerInv(c, call'[c], hs, outcome'[c])
  BY <1>6, <1>7
<1>9. /\ handler' \in [Service -> [Caller -> HandlerRecord]]
      /\ hs \in [Service -> HandlerRecord]
      /\ \A t \in Service : handler'[t][c] = hs[t]
      /\ \A t \in Service, d \in Caller \ {c} : handler'[t][d] = handler[t][d]
  BY DEF ChangedFor
<1> QED
  BY <1>7, <1>8, <1>9, ClientStep

LEMMA TargetType ==
    ASSUME IInv, NEW c \in Caller
    PROVE  handler[call[c].target][c].alone \in BOOLEAN /\ call[c].request \in Nat
<1>1. call[c] \in CallRecord /\ handler \in [Service -> [Caller -> HandlerRecord]]
  BY DEF IInv, TypeInv
<1>2. call[c].target \in Service /\ call[c].request \in Nat
  BY <1>1 DEF CallRecord
<1>3. handler[call[c].target][c] \in HandlerRecord
  BY <1>1, <1>2
<1> QED
  BY <1>2, <1>3 DEF HandlerRecord

LEMMA BailOutKeeps ==
    ASSUME IInv, NEW c \in Caller, BailOut(c)
    PROVE  IInv'
<1>1. /\ Returns(c, "Cancelled", call[c].request, Absent) /\ handler' = HungUp(c)
      /\ UNCHANGED logged /\ UNCHANGED <<requestID, assumedLeader>>
  BY DEF BailOut, logged, logVars
<1>2. \A o \in OutcomeRecord : o.status = "Cancelled" => OKInv(c, o)
  BY DEF OKInv
<1>3. PICK hs : ChangedFor(HungUp(c), c, hs) /\ CallerInv(c, call[c], hs, outcome[c])
  BY HungUpInv
<1> DEFINE alone == handler[call[c].target][c].alone
           request == call[c].request
<1>4. alone \in BOOLEAN /\ request \in Nat /\ Returns(c, "Cancelled", request, Absent)
      /\ alone = handler[call[c].target][c].alone
  BY <1>1, TargetType
<1> HIDE DEF alone, request
<1> QED
  BY <1>1, <1>2, <1>3, <1>4, NoHandlerType, ReturnsKeeps

\* What the handler of c at s says is true of its request.
IsTrue(s, c, status, result) ==
    \A o \in OutcomeRecord :
        /\ o.status = status /\ o.request = handler[s][c].request
        /\ o.alone = handler[s][c].alone /\ o.result = result
        => OKInv(c, o)

\* The handlers after the one at s is done.
LEMMA DoneInv ==
    ASSUME IInv, NEW c \in Caller, NEW s \in Service
    PROVE  \E hs : /\ ChangedFor([handler EXCEPT ![s][c] = NoHandler], c, hs)
                   /\ CallerInv(c, call[c], hs, outcome[c])
<1>1. call[c].attempt \in Nat /\ handler \in [Service -> [Caller -> HandlerRecord]]
  BY DEF IInv, TypeInv, CallRecord
<1>2. HandlerInv(s, c, NoHandler, call[c].attempt) /\ NoHandler \in HandlerRecord
  BY <1>1, NoHandlerInv, NoHandlerType
<1> HIDE DEF NoHandler
<1>3. [handler EXCEPT ![s][c] = NoHandler] =
         [handler EXCEPT ![s] = [handler[s] EXCEPT ![c] = NoHandler]]
  BY <1>1
<1> QED
  BY <1>2, <1>3, ReplaceFor

\* A step in which caller c is left alone.
LEMMA HandlerStep ==
    ASSUME IInv, NEW c \in Caller, NEW hs, ChangedFor(handler', c, hs),
           CallerInv(c, call[c], hs, outcome[c]), UNCHANGED clientVars, UNCHANGED logged
    PROVE  IInv'
<1>1. /\ handler' \in [Service -> [Caller -> HandlerRecord]]
      /\ hs \in [Service -> HandlerRecord]
      /\ \A t \in Service : handler'[t][c] = hs[t]
      /\ \A t \in Service, d \in Caller \ {c} : handler'[t][d] = handler[t][d]
  BY DEF ChangedFor
<1>2. UNCHANGED <<call, assumedLeader, outcome, requestID>>
  BY DEF clientVars
<1>3. /\ call' \in [Caller -> CallRecord] /\ assumedLeader' \in [Client -> Service]
      /\ outcome' \in [Caller -> OutcomeRecord] /\ requestID' \in [Client -> Nat]
      /\ \A d \in Caller \ {c} : call'[d] = call[d] /\ outcome'[d] = outcome[d]
  BY <1>2 DEF IInv, TypeInv
<1>4. CallerInv(c, call'[c], hs, outcome'[c])
  BY <1>2
<1> QED
  BY <1>1, <1>3, <1>4, ClientStep

\* The answer of a handler.
LEMMA AnswersKeeps ==
    ASSUME IInv, NEW c \in Caller, NEW s \in Service,
           NEW status \in {"OK", "FailedCommit", "DuplicateRequest", "Error"},
           NEW result \in StoreSet, Answers(s, c, status, result),
           IsTrue(s, c, status, result), UNCHANGED logged
    PROVE  IInv'
<1> DEFINE h == [handler EXCEPT ![s][c] = NoHandler]
           request == handler[s][c].request
           alone == handler[s][c].alone
<1>1. PICK hs : ChangedFor(h, c, hs) /\ CallerInv(c, call[c], hs, outcome[c])
  BY DoneInv
<1>2. handler' = h /\ UNCHANGED <<requestID, assumedLeader>>
  BY DEF Answers
<1>3. CASE Awaited(s, c)
  <2>1. Returns(c, status, request, result) /\ alone = handler[call[c].target][c].alone
    BY <1>3 DEF Answers, Awaited
  <2>2. \A o \in OutcomeRecord :
           /\ o.status = status /\ o.request = request
           /\ o.alone = alone /\ o.result = result
           => OKInv(c, o)
    BY DEF IsTrue
  <2>3. request \in Nat /\ alone \in BOOLEAN
    <3>1. handler[s][c] \in HandlerRecord
      BY DEF IInv, TypeInv
    <3> QED
      BY <3>1 DEF HandlerRecord
  <2> HIDE DEF h, request, alone
  <2> QED
    BY <2>1, <2>2, <2>3, <1>1, <1>2, ReturnsKeeps
<1>4. CASE ~Awaited(s, c)
  <2>1. UNCHANGED clientVars
    BY <1>4 DEF Answers, clientVars
  <2>2. ChangedFor(handler', c, hs)
    BY <1>1, <1>2
  <2> QED
    BY <2>1, <2>2, <1>1, HandlerStep
<1> QED
  BY <1>3, <1>4

LEMMA NotLeaderKeeps ==
    ASSUME IInv, NEW c \in Caller, NEW s \in Service, NotLeader(s, c)
    PROVE  IInv'
<1> DEFINE next == (assumedLeader[ClientOf[c]] + 1) % NumServices
           h == [handler EXCEPT ![s][c] = NoHandler]
<1>1. UNCHANGED logged /\ UNCHANGED <<requestID, outcome>>
  BY DEF NotLeader, logged, logVars
<1>2. PICK hs : ChangedFor(h, c, hs) /\ CallerInv(c, call[c], hs, outcome[c])
  BY DoneInv
<1>3. CASE Awaited(s, c)
  <2>1. /\ call[c].pc = "waiting"
        /\ assumedLeader' = [assumedLeader EXCEPT ![ClientOf[c]] = next]
        /\ Sends(c, next, call[c].request, call[c].attempt + 1, call[c].op, h)
    BY <1>3 DEF NotLeader, Awaited
  <2>2. next = (assumedLeader[ClientOf[c]] + 1) % NumServices
    OBVIOUS
  <2> HIDE DEF next, h
  <2> QED
    BY <2>1, <2>2, <1>1, <1>2, MovesKeeps
<1>4. CASE ~Awaited(s, c)
  <2>1. handler' = h /\ UNCHANGED clientVars
    BY <1>1, <1>4 DEF NotLeader, clientVars
  <2>2. ChangedFor(handler', c, hs)
    BY <2>1, <1>2
  <2> QED
    BY <2>1, <2>2, <1>1, <1>2, HandlerStep
<1> QED
  BY <1>3, <1>4

LEMMA SubscribePanicsKeeps ==
    ASSUME IInv, NEW c \in Caller, NEW s \in Service, SubscribePanics(s, c)
    PROVE  IInv'
<1>1. Answers(s, c, "Error", Absent) /\ UNCHANGED logged
  BY DEF SubscribePanics, logged, logVars
<1>2. IsTrue(s, c, "Error", Absent)
  BY DEF IsTrue, OKInv
<1> QED
  BY <1>1, <1>2, NoHandlerType, AnswersKeeps

LEMMA HandlerCancelledKeeps ==
    ASSUME IInv, NEW c \in Caller, NEW s \in Service, HandlerCancelled(s, c)
    PROVE  IInv'
<1> DEFINE h == [handler EXCEPT ![s][c] = NoHandler]
<1>1. handler' = h /\ UNCHANGED clientVars /\ UNCHANGED logged
  BY DEF HandlerCancelled, logged, logVars
<1>2. PICK hs : ChangedFor(h, c, hs) /\ CallerInv(c, call[c], hs, outcome[c])
  BY DoneInv
<1>3. ChangedFor(handler', c, hs)
  BY <1>1, <1>2
<1> QED
  BY <1>1, <1>2, <1>3, HandlerStep

LEMMA HandlerAnswersKeeps ==
    ASSUME IInv, NEW c \in Caller, NEW s \in Service, HandlerAnswers(s, c)
    PROVE  IInv'
<1> DEFINE h == handler[s][c]
           cmd == h.chan
           result == cmd.result
           status == IF cmd.serviceID # s THEN "FailedCommit"
                     ELSE IF cmd.duplicate THEN "DuplicateRequest" ELSE "OK"
<1>1. /\ h.pc = "waiting" /\ cmd # NoCommand /\ UNCHANGED logged
      /\ Answers(s, c, status, result)
  BY DEF HandlerAnswers, IsOwn, logged, logVars
<1>2. /\ \A t \in Service : Handlers(c)[t] = handler[t][c]
      /\ CallerInv(c, call[c], Handlers(c), outcome[c])
      /\ h \in HandlerRecord /\ LogType(Entry) /\ CurrentHolds
  BY HandlersType DEF IInv, TypeInv
<1>3. HandlerInv(s, c, h, call[c].attempt)
  BY <1>2 DEF CallerInv
<1>4. /\ Located(s, c, h) /\ h.index <= Len(committed)
      /\ ~cmd.duplicate => /\ cmd.serviceID = committed[h.index].serviceID
                           /\ ~Superseded(h.index)
                           /\ result = StoreAfter[h.index - 1]
  BY <1>1, <1>3 DEF HandlerInv, ChanInv
<1>5. h.index \in Nat /\ h.index \in 1..Len(committed) /\ Len(committed) \in Nat
  <2>1. committed \in Seq(Entry) /\ h.index \in Nat
    BY <1>2 DEF LogType, HandlerRecord
  <2> QED
    BY <2>1, <1>4 DEF Located, Index
<1>6. cmd.duplicate \in BOOLEAN /\ result \in StoreSet /\ cmd.serviceID \in Service
  <2>1. cmd \in ReplyRecord
    BY <1>2 DEF HandlerRecord
  <2> QED
    BY <2>1 DEF ReplyRecord
<1>7. status \in {"OK", "FailedCommit", "DuplicateRequest"}
  OBVIOUS
<1>8. IsTrue(s, c, status, result)
  <2> SUFFICES ASSUME status = "OK", h.alone
               PROVE  \E n \in 1..Len(committed) :
                         /\ committed[n].clientID = ClientOf[c]
                         /\ committed[n].requestID = h.request
                         /\ ~Superseded(n)
                         /\ result = StoreAfter[n - 1]
    BY DEF IsTrue, OKInv
  <2>1. cmd.serviceID = s /\ ~cmd.duplicate
    BY <1>6
  <2>2. committed[h.index].serviceID = s
    BY <2>1, <1>4
  <2>3. PICK u \in Service :
           h.index \in 1..Len(log[u]) /\ log[u][h.index] = committed[h.index]
    <3>1. \A i \in 1..Len(committed) :
             \E u \in Service : i \in 1..Len(log[u]) /\ log[u][i] = committed[i]
      BY <1>2, CommittedIsHeld
    <3> QED
      BY <3>1, <1>5
  <2>4. Len(log[u]) \in Nat
    BY <1>2 DEF LogType
  <2>5. /\ committed[h.index].clientID = ClientOf[c]
        /\ committed[h.index].requestID = h.request
    BY <2>2, <2>3, <2>4, <1>4, <1>5 DEF Located
  <2> QED
    BY <2>1, <2>5, <1>4, <1>5
<1> HIDE DEF status, result
<1> QED
  BY <1>1, <1>6, <1>7, <1>8, AnswersKeeps

-----------------------------------------------------------------------------
(* The services' steps *)

\* The store of a service that executes nothing.
LEMMA NodeStays ==
    ASSUME IInv, LogType(Entry)', AgreedStays, CommittedStays, NEW s \in Service,
           data'[s] = data[s], applied'[s] = applied[s],
           lastRequestID'[s] = lastRequestID[s], ran'[s] = ran[s]
    PROVE  NodeInv(s)'
<1>1. LogType(Entry) /\ NodeInv(s) /\ applied[s] \in Nat
  BY DEF IInv, TypeInv
<1>2. applied[s] \in 0..Len(committed) /\ Len(committed) \in Nat
  <2>1. committed \in Seq(Entry)
    BY <1>1 DEF LogType
  <2> QED
    BY <2>1, <1>1 DEF NodeInv, Agrees
<1>3. StoreAfter'[applied[s]] = StoreAfter[applied[s]]
  BY <1>1, <1>2, StoreStays
<1>4. /\ SubSeq(log'[s], 1, applied[s]) = SubSeq(committed', 1, applied[s])
      /\ applied[s] <= Len(log'[s]) /\ applied[s] <= Len(committed')
  <2>1. \A n \in Nat : Agrees(s, n) => Agrees(s, n)'
    BY DEF AgreedStays
  <2> QED
    BY <2>1, <1>1 DEF NodeInv, Agrees
<1>5. \A i \in 1..applied[s] : committed'[i] = committed[i]
  BY <1>2 DEF CommittedStays
<1>6. IsLast(lastRequestID[s], applied[s])'
  BY <1>1, <1>5 DEF NodeInv, IsLast
<1>7. RanOnce(ran[s], lastRequestID[s])'
  BY <1>1 DEF NodeInv, RanOnce
<1> QED
  BY <1>1, <1>3, <1>4, <1>6, <1>7 DEF NodeInv, Agrees

\* A step of the logs and the services.  The handlers change as they like, if
\* what is known of the callers stays true of the state before it.
LEMMA ServiceStep ==
    ASSUME IInv, LogType(Entry)', CurrentHolds',
           CommittedStays, LeadersAppend, NothingNew, SubsEnd,
           UNCHANGED clientVars,
           data' \in [Service -> StoreSet], applied' \in [Service -> Nat],
           lastRequestID' \in [Service -> [Client -> Nat]],
           ran' \in [Service -> Seq(Client \X Nat)],
           handler' \in [Service -> [Caller -> HandlerRecord]],
           DOMAIN commitSubs' = Service,
           \A s \in Service : DOMAIN commitSubs'[s] = Index,
           \A s \in Service : NodeInv(s)',
           \A s \in leaders' \ leaders, c \in Caller :
              handler'[s][c].pc \in {"idle", "received"},
           \A c \in Caller : CallerInv(c, call[c], Handlers(c)', outcome[c])
    PROVE  IInv'
<1>1. TypeInv /\ UNCHANGED <<call, assumedLeader, outcome, requestID>>
  BY DEF IInv, clientVars
<1>2. TypeInv'
  <2>1. \A s \in Service, i \in Index : commitSubs'[s][i].attempt \in Nat
    <3>1. NoSub.attempt \in Nat
      BY DEF NoSub
    <3>2. \A s \in Service, i \in Index : commitSubs[s][i].attempt \in Nat
      BY <1>1 DEF TypeInv
    <3> HIDE DEF NoSub
    <3> QED
      BY <3>1, <3>2 DEF SubsEnd
  <2>2. LogsBounded'
    BY <1>1, BoundStays DEF TypeInv
  <2> QED
    BY <2>1, <2>2, <1>1 DEF TypeInv
<1>3. ASSUME NEW c \in Caller
      PROVE  CallerInv(c, call[c], Handlers(c), outcome[c])'
  <2>1. /\ call[c] \in CallRecord /\ outcome[c] \in OutcomeRecord
        /\ Handlers(c)' \in [Service -> HandlerRecord]
        /\ \A s \in Service : Handlers(c)'[s] = handler'[s][c]
    BY <1>1 DEF TypeInv, Handlers
  <2>2. \A k \in CallRecord, g \in [Service -> HandlerRecord], o \in OutcomeRecord :
           /\ CallerInv(c, k, g, o)
           /\ \A s \in Service : s \in leaders' \ leaders =>
                 g[s].pc \in {"idle", "received"}
           => CallerInv(c, k, g, o)'
    BY <1>1, CallerStays
  <2>3. \A s \in Service : s \in leaders' \ leaders =>
           Handlers(c)'[s].pc \in {"idle", "received"}
    BY <2>1
  <2>4. call'[c] = call[c] /\ outcome'[c] = outcome[c]
    BY <1>1
  <2> HIDE DEF Handlers
  <2> QED
    BY <2>1, <2>2, <2>3, <2>4
<1> QED
  BY <1>2, <1>3 DEF IInv

\* A step of the logs alone.
LEMMA LogsKeep ==
    ASSUME IInv, LogType(Entry)', CurrentHolds', AgreedStays,
           CommittedStays, LeadersAppend, NothingNew,
           UNCHANGED <<clientVars, handler, commitSubs, storeVars>>,
           \A s \in leaders' \ leaders, c \in Caller :
              handler[s][c].pc \in {"idle", "received"}
    PROVE  IInv'
<1>1. TypeInv /\ UNCHANGED <<handler, commitSubs, data, applied, lastRequestID, ran>>
  BY DEF IInv, storeVars
<1>2. SubsEnd
  BY <1>1 DEF SubsEnd
<1>3. \A s \in Service : NodeInv(s)'
  BY <1>1, NodeStays
<1>4. \A c \in Caller : CallerInv(c, call[c], Handlers(c)', outcome[c])
  <2>1. \A c \in Caller : Handlers(c)' = Handlers(c)
    BY <1>1 DEF Handlers
  <2> HIDE DEF Handlers
  <2> QED
    BY <2>1 DEF IInv
<1>5. \A s \in leaders' \ leaders, c \in Caller :
         handler'[s][c].pc \in {"idle", "received"}
  BY <1>1
<1>6. /\ data' \in [Service -> StoreSet] /\ applied' \in [Service -> Nat]
      /\ lastRequestID' \in [Service -> [Client -> Nat]]
      /\ ran' \in [Service -> Seq(Client \X Nat)]
      /\ handler' \in [Service -> [Caller -> HandlerRecord]]
      /\ DOMAIN commitSubs' = Service
      /\ \A s \in Service : DOMAIN commitSubs'[s] = Index
  BY <1>1 DEF TypeInv
<1> QED
  BY <1>2, <1>3, <1>4, <1>5, <1>6, ServiceStep

LEMMA LogStepKeeps ==
    ASSUME IInv, LogStep
    PROVE  IInv'
<1>1. /\ LogNext /\ UNCHANGED <<clientVars, handler, commitSubs, storeVars>>
      /\ \A s \in leaders' \ leaders, c \in Caller :
            handler[s][c].pc \in {"idle", "received"}
  BY DEF LogStep
<1>2. LogType(Entry) /\ CurrentHolds
  BY DEF IInv, TypeInv
<1>3. /\ LogType(Entry)' /\ AgreedStays /\ CommittedStays /\ LeadersAppend
      /\ CurrentHolds' /\ NothingNew
  BY <1>1, <1>2, LogNextKeeps, LogNextNothingNew
<1> QED
  BY <1>1, <1>3, LogsKeep

\* A step that leaves the logs alone.
LEMMA LogsStay ==
    ASSUME IInv, UNCHANGED <<log, committed, current>>
    PROVE  /\ LogType(Entry) /\ LogType(Entry)' /\ AgreedStays /\ CommittedStays
           /\ LeadersAppend /\ CurrentHolds' /\ NothingNew
<1>1. LogType(Entry) /\ CurrentHolds
  BY DEF IInv, TypeInv
<1>2. NothingNew
  BY DEF NothingNew
<1> QED
  BY <1>1, <1>2, UnchangedKeeps

LEMMA StutterKeeps ==
    ASSUME IInv, UNCHANGED vars
    PROVE  IInv'
<1>1. /\ UNCHANGED <<log, committed, current>>
      /\ UNCHANGED <<clientVars, handler, commitSubs, storeVars>>
      /\ leaders' \ leaders = {}
  BY DEF vars, logVars
<1> QED
  BY <1>1, LogsStay, LogsKeep

LEMMA RestartKeeps ==
    ASSUME IInv, NEW s \in Service, Restart(s)
    PROVE  IInv'
<1>1. /\ UNCHANGED <<log, committed, current>> /\ UNCHANGED clientVars
      /\ leaders' = leaders \ {s}
      /\ handler' = [handler EXCEPT ![s] = [c \in Caller |-> NoHandler]]
      /\ commitSubs' = [commitSubs EXCEPT ![s] = [n \in Index |-> NoSub]]
      /\ data' = [data EXCEPT ![s] = Absent]
      /\ lastRequestID' = [lastRequestID EXCEPT ![s] = [k \in Client |-> 0]]
      /\ applied' = [applied EXCEPT ![s] = 0]
      /\ ran' = [ran EXCEPT ![s] = <<>>]
  BY DEF Restart, Shutdown, New
<1>2. /\ TypeInv /\ LogType(Entry) /\ NoHandler \in HandlerRecord /\ Absent \in StoreSet
      /\ <<>> \in Seq(Client \X Nat)
  BY NoHandlerType DEF IInv, TypeInv
<1> HIDE DEF NoHandler, Absent, NoSub
<1>3. /\ LogType(Entry)' /\ AgreedStays /\ CommittedStays /\ LeadersAppend
      /\ CurrentHolds' /\ NothingNew
  BY <1>1, LogsStay
<1>4. /\ data' \in [Service -> StoreSet] /\ applied' \in [Service -> Nat]
      /\ lastRequestID' \in [Service -> [Client -> Nat]]
      /\ ran' \in [Service -> Seq(Client \X Nat)]
      /\ handler' \in [Service -> [Caller -> HandlerRecord]]
      /\ DOMAIN commitSubs' = Service
      /\ \A t \in Service : DOMAIN commitSubs'[t] = Index
      /\ leaders' \ leaders = {}
  BY <1>1, <1>2 DEF TypeInv
<1>5. SubsEnd
  BY <1>1, <1>2 DEF TypeInv, SubsEnd
<1>6. ASSUME NEW t \in Service PROVE NodeInv(t)'
  <2>1. CASE t # s
    <3>1. /\ data'[t] = data[t] /\ applied'[t] = applied[t]
          /\ lastRequestID'[t] = lastRequestID[t] /\ ran'[t] = ran[t]
      BY <2>1, <1>1, <1>2 DEF TypeInv
    <3> QED
      BY <3>1, <1>3, NodeStays
  <2>2. CASE t = s
    <3>1. /\ data'[s] = Absent /\ applied'[s] = 0 /\ ran'[s] = <<>>
          /\ \A k \in Client : lastRequestID'[s][k] = 0
      BY <1>1, <1>2 DEF TypeInv
    <3>2. Agrees(s, 0)'
      <4>1. log'[s] \in Seq(Entry) /\ committed' \in Seq(Entry)
        BY <1>3 DEF LogType
      <4>2. 0 <= Len(log'[s]) /\ 0 <= Len(committed')
        BY <4>1
      <4>3. Agrees(s, 0)' <=> /\ 0 <= Len(log'[s]) /\ 0 <= Len(committed')
                              /\ \A i \in 1..0 : log'[s][i] = committed'[i]
        BY <1>3, AgreesPointwiseNext
      <4> QED
        BY <4>2, <4>3
    <3>3. StoreAfter' = StoreAfter /\ StoreAfter[0] = Absent
      BY <1>1, <1>2, StoreAfterStep, StoreAfterIs, StoreAfterIsNext
    <3>4. IsLast(lastRequestID[s], applied[s])' /\ RanOnce(ran[s], lastRequestID[s])'
      BY <3>1 DEF IsLast, RanOnce
    <3> QED
      BY <2>2, <3>1, <3>2, <3>3, <3>4 DEF NodeInv
  <2> QED
    BY <2>1, <2>2
<1>7. ASSUME NEW c \in Caller
      PROVE  CallerInv(c, call[c], Handlers(c)', outcome[c])
  <2>1. /\ Handlers(c) \in [Service -> HandlerRecord]
        /\ CallerInv(c, call[c], Handlers(c), outcome[c])
        /\ call[c] \in CallRecord /\ outcome[c] \in OutcomeRecord
        /\ call[c].attempt \in Nat
    BY HandlersType DEF CallRecord
  <2>2. Handlers(c)' = [Handlers(c) EXCEPT ![s] = NoHandler]
    BY <1>1, <1>2 DEF TypeInv, Handlers
  <2> HIDE DEF Handlers
  <2>3. HandlerInv(s, c, NoHandler, call[c].attempt)
    BY <2>1, NoHandlerInv
  <2>4. CallerInv(c, call[c], [Handlers(c) EXCEPT ![s] = NoHandler], outcome[c])
    BY <2>1, <2>3, <1>2, ReplaceInv
  <2> QED
    BY <2>2, <2>4
<1> QED
  BY <1>1, <1>3, <1>4, <1>5, <1>6, <1>7, ServiceStep

\* What the updater takes for a duplicate is a request that was executed, or
\* that its client has left behind.
LEMMA DuplicateIsSuperseded ==
    ASSUME LogType(Entry), NEW n \in 1..Len(committed), NEW last \in [Client -> Nat],
           IsLast(last, n - 1)
    PROVE  IsDuplicate(last[committed[n].clientID], committed[n]) <=> Superseded(n)
<1> DEFINE k == committed[n].clientID
           q == committed[n].requestID
<1>1. committed \in Seq(Entry) /\ n \in Nat /\ Len(committed) \in Nat
  BY DEF LogType
<1>2. \A i \in 1..Len(committed) :
         committed[i].clientID \in Client /\ committed[i].requestID \in Nat \ {0}
  <2>1. \A i \in 1..Len(committed) : committed[i] \in Entry
    BY <1>1
  <2> QED
    BY <2>1 DEF Entry
<1>3. k \in Client /\ q \in Nat /\ q # 0 /\ last[k] \in Nat
  BY <1>2
<1>4. ASSUME last[k] >= q PROVE Superseded(n)
  <2>1. last[k] # 0
    BY <1>3, <1>4
  <2>2. PICK i \in 1..(n - 1) :
           committed[i].clientID = k /\ committed[i].requestID = last[k]
    BY <2>1, <1>3 DEF IsLast
  <2> QED
    BY <2>2, <1>4 DEF Superseded
<1>5. ASSUME Superseded(n) PROVE last[k] >= q
  <2>1. PICK i \in 1..(n - 1) : committed[i].clientID = k /\ committed[i].requestID >= q
    BY <1>5 DEF Superseded
  <2>2. committed[i].requestID <= last[k]
    BY <2>1 DEF IsLast
  <2>3. committed[i].requestID \in Nat
    BY <1>1, <1>2
  <2> QED
    BY <2>1, <2>2, <2>3, <1>3
<1> QED
  BY <1>4, <1>5 DEF IsDuplicate

LEMMA LastStep ==
    ASSUME LogType(Entry), NEW n \in 1..Len(committed), NEW last \in [Client -> Nat],
           IsLast(last, n - 1)
    PROVE  LET k == committed[n].clientID
               q == committed[n].requestID
           IN  IF IsDuplicate(last[k], committed[n]) THEN IsLast(last, n)
               ELSE IsLast([last EXCEPT ![k] = q], n)
<1> DEFINE k == committed[n].clientID
           q == committed[n].requestID
           new == [last EXCEPT ![k] = q]
<1>1. committed \in Seq(Entry) /\ n \in Nat /\ Len(committed) \in Nat
  BY DEF LogType
<1>2. \A i \in 1..Len(committed) :
         committed[i].clientID \in Client /\ committed[i].requestID \in Nat
  <2>1. \A i \in 1..Len(committed) : committed[i] \in Entry
    BY <1>1
  <2> QED
    BY <2>1 DEF Entry
<1>3. k \in Client /\ q \in Nat /\ last[k] \in Nat
  BY <1>2
<1>4. \A i \in 1..n : i = n \/ i \in 1..(n - 1)
  BY <1>1
<1>5. \A i \in 1..(n - 1) : i \in 1..n /\ i \in 1..Len(committed)
  BY <1>1
<1>6. n \in 1..n
  BY <1>1
<1>7. ASSUME last[k] >= q PROVE IsLast(last, n)
  <2>1. \A i \in 1..n : committed[i].requestID <= last[committed[i].clientID]
    BY <1>3, <1>4, <1>7 DEF IsLast
  <2>2. \A j \in Client :
          \/ last[j] = 0
          \/ \E i \in 1..n : committed[i].clientID = j /\ committed[i].requestID = last[j]
    BY <1>5 DEF IsLast
  <2> QED
    BY <2>1, <2>2 DEF IsLast
<1>8. ASSUME ~(last[k] >= q) PROVE IsLast(new, n)
  <2>1. new[k] = q /\ \A j \in Client \ {k} : new[j] = last[j]
    BY <1>3
  <2> HIDE DEF new
  <2>2. ASSUME NEW i \in 1..n PROVE committed[i].requestID <= new[committed[i].clientID]
    <3>1. CASE i = n
      BY <3>1, <2>1, <1>3
    <3>2. CASE i \in 1..(n - 1)
      <4>1. /\ committed[i].requestID <= last[committed[i].clientID]
            /\ committed[i].clientID \in Client /\ committed[i].requestID \in Nat
        BY <3>2, <1>2, <1>5 DEF IsLast
      <4> QED
        BY <4>1, <2>1, <1>3, <1>8
    <3> QED
      BY <3>1, <3>2, <1>4
  <2>3. ASSUME NEW j \in Client
        PROVE  \/ new[j] = 0
               \/ \E i \in 1..n : committed[i].clientID = j /\ committed[i].requestID = new[j]
    <3>1. CASE j = k
      BY <3>1, <2>1, <1>6
    <3>2. CASE j # k
      BY <3>2, <2>1, <1>5 DEF IsLast
    <3> QED
      BY <3>1, <3>2
  <2> QED
    BY <2>2, <2>3 DEF IsLast
<1> QED
  BY <1>7, <1>8 DEF IsDuplicate

LEMMA RanStep ==
    ASSUME NEW r \in Seq(Client \X Nat), NEW last \in [Client -> Nat], RanOnce(r, last),
           NEW k \in Client, NEW q \in Nat, last[k] < q
    PROVE  /\ Append(r, <<k, q>>) \in Seq(Client \X Nat)
           /\ RanOnce(Append(r, <<k, q>>), [last EXCEPT ![k] = q])
<1> DEFINE x == <<k, q>>
           b == Append(r, x)
           new == [last EXCEPT ![k] = q]
           L == Len(r)
<1>1. L \in Nat /\ x \in Client \X Nat /\ \A i \in 1..L : r[i] \in Client \X Nat
  OBVIOUS
<1>2. /\ b \in Seq(Client \X Nat) /\ Len(b) = L + 1 /\ b[L + 1] = x
      /\ \A i \in 1..L : b[i] = r[i]
  BY <1>1
<1>3. new[k] = q /\ \A j \in Client \ {k} : new[j] = last[j]
  OBVIOUS
<1>4. \A i \in 1..Len(b) : i = L + 1 \/ i \in 1..L
  BY <1>1, <1>2
<1>5. x[1] = k /\ x[2] = q
  OBVIOUS
<1> HIDE DEF b, new, x, L
<1>6. \A i \in 1..L : /\ r[i][2] <= last[r[i][1]] /\ r[i][1] \in Client /\ r[i][2] \in Nat
                      /\ r[i] # x
  <2> SUFFICES ASSUME NEW i \in 1..L
               PROVE  /\ r[i][2] <= last[r[i][1]] /\ r[i][1] \in Client /\ r[i][2] \in Nat
                      /\ r[i] # x
    OBVIOUS
  <2>1. r[i][2] <= last[r[i][1]] /\ r[i][1] \in Client /\ r[i][2] \in Nat
    BY <1>1 DEF RanOnce, L
  <2>2. last[k] \in Nat
    OBVIOUS
  <2> QED
    BY <2>1, <2>2, <1>5
<1>7. ASSUME NEW i \in 1..Len(b) PROVE b[i][2] <= new[b[i][1]]
  <2>1. CASE i = L + 1
    BY <2>1, <1>2, <1>3, <1>5
  <2>2. CASE i \in 1..L
    <3>1. b[i] = r[i] /\ r[i][2] <= last[r[i][1]] /\ r[i][1] \in Client /\ r[i][2] \in Nat
      BY <2>2, <1>2, <1>6
    <3>2. last[k] \in Nat
      OBVIOUS
    <3> DEFINE d == r[i][1]
               m == r[i][2]
    <3>3. d \in Client /\ m \in Nat /\ m <= last[d]
      BY <3>1
    <3> HIDE DEF d, m
    <3>4. m <= new[d]
      <4>1. CASE d = k
        BY <4>1, <3>2, <3>3, <1>3
      <4>2. CASE d # k
        BY <4>2, <3>3, <1>3
      <4> QED
        BY <4>1, <4>2
    <3> QED
      BY <3>1, <3>4 DEF d, m
  <2> QED
    BY <2>1, <2>2, <1>4
<1>8. ASSUME NEW i \in 1..Len(b), NEW j \in 1..Len(b), b[i] = b[j] PROVE i = j
  <2>1. CASE i \in 1..L /\ j \in 1..L
    BY <2>1, <1>2, <1>8 DEF RanOnce, L
  <2>2. CASE i = L + 1 /\ j \in 1..L
    BY <2>2, <1>2, <1>6, <1>8
  <2>3. CASE i \in 1..L /\ j = L + 1
    BY <2>3, <1>2, <1>6, <1>8
  <2> QED
    BY <2>1, <2>2, <2>3, <1>4
<1>9. RanOnce(b, new)
  BY <1>7, <1>8 DEF RanOnce
<1> QED
  BY <1>2, <1>9 DEF b, new, x

LEMMA UpdateKeeps ==
    ASSUME IInv, NEW s \in Service, Update(s)
    PROVE  IInv'
<1> DEFINE n == applied[s] + 1
           cmd == committed[n]
           k == cmd.clientID
           q == cmd.requestID
           last == lastRequestID[s]
           dup == IsDuplicate(last[k], cmd)
           reply == Reply(cmd, dup, data[s])
           sub == commitSubs[s][n]
<1>1. /\ UNCHANGED <<log, committed, current, leaders>> /\ UNCHANGED clientVars
      /\ Agrees(s, n)
      /\ applied' = [applied EXCEPT ![s] = n]
      /\ handler' = [handler EXCEPT ![s] = Delivered(s, sub, reply)]
      /\ commitSubs' = [commitSubs EXCEPT ![s][n] = NoSub]
      /\ dup => UNCHANGED <<data, lastRequestID, ran>>
      /\ ~dup => /\ lastRequestID' = [lastRequestID EXCEPT ![s][k] = q]
                 /\ data' = [data EXCEPT ![s] = Executed(@, cmd.op)]
                 /\ ran' = [ran EXCEPT ![s] = Append(@, <<k, q>>)]
  BY DEF Update, logVars
<1>2. TypeInv /\ LogType(Entry) /\ NodeInv(s)
  BY DEF IInv, TypeInv
<1>3. /\ applied[s] \in Nat /\ n \in Nat /\ n \in 1..Len(committed) /\ n - 1 = applied[s]
      /\ Len(committed) \in Nat /\ data[s] \in StoreSet /\ last \in [Client -> Nat]
      /\ ran[s] \in Seq(Client \X Nat)
  <2>1. /\ committed \in Seq(Entry) /\ applied[s] \in Nat /\ data[s] \in StoreSet
        /\ last \in [Client -> Nat] /\ ran[s] \in Seq(Client \X Nat)
    BY <1>2 DEF TypeInv, LogType
  <2> QED
    BY <2>1, <1>1 DEF Agrees
<1>4. /\ cmd \in Entry /\ cmd.op \in AnyOp /\ k \in Client /\ q \in Nat
      /\ cmd.serviceID \in Service /\ cmd.op.kind \in {"get", "put", "append", "cas"}
      /\ last[k] \in Nat
  <2>1. cmd \in Entry
    BY <1>2, <1>3 DEF LogType
  <2>2. /\ cmd.op \in AnyOp /\ k \in Client /\ q \in Nat /\ cmd.serviceID \in Service
    BY <2>1 DEF Entry
  <2>3. cmd.op.kind \in {"get", "put", "append", "cas"}
    BY <2>2 DEF AnyOp
  <2> QED
    BY <2>1, <2>2, <2>3, <1>3
<1>5. /\ LogType(Entry)' /\ AgreedStays /\ CommittedStays /\ LeadersAppend
      /\ CurrentHolds' /\ NothingNew
  BY <1>1, LogsStay
<1>6. /\ data[s] = StoreAfter[n - 1] /\ IsLast(last, n - 1) /\ RanOnce(ran[s], last)
  BY <1>2, <1>3 DEF NodeInv
<1> HIDE DEF n
<1>7. dup <=> Superseded(n)
  BY <1>2, <1>3, <1>6, DuplicateIsSuperseded
<1>8. dup \in BOOLEAN
  BY DEF IsDuplicate
<1>9. /\ reply \in ReplyRecord
      /\ ~dup => reply.serviceID = cmd.serviceID /\ reply.result = data[s]
      /\ reply.duplicate <=> dup
  <2> HIDE DEF cmd, dup, Absent
  <2>1. (IF dup THEN 0 ELSE cmd.serviceID) \in Service /\ (IF dup THEN Absent ELSE data[s]) \in StoreSet
    BY <1>3, <1>4, NoHandlerType
  <2> DEFINE id == IF dup THEN 0 ELSE cmd.serviceID
             res == IF dup THEN Absent ELSE data[s]
  <2>2. reply = [kind |-> cmd.op.kind, serviceID |-> id, duplicate |-> dup, result |-> res]
    BY DEF Reply
  <2>3. ~dup => id = cmd.serviceID /\ res = data[s]
    OBVIOUS
  <2> HIDE DEF id, res
  <2> QED
    BY <2>1, <2>2, <2>3, <1>4, <1>8 DEF id, res, ReplyRecord
<1> HIDE DEF reply, dup
<1>10. ASSUME NEW c \in Caller
       PROVE  /\ handler'[s][c] \in HandlerRecord
              /\ CallerInv(c, call[c], Handlers(c)', outcome[c])
  <2> DEFINE h == handler[s][c]
             r == [h EXCEPT !.chan = reply]
  <2>1. /\ Handlers(c) \in [Service -> HandlerRecord]
        /\ \A t \in Service : Handlers(c)[t] = handler[t][c]
        /\ CallerInv(c, call[c], Handlers(c), outcome[c])
        /\ call[c] \in CallRecord /\ outcome[c] \in OutcomeRecord
    BY HandlersType
  <2>2. h \in HandlerRecord /\ HandlerInv(s, c, h, call[c].attempt)
    BY <2>1 DEF CallerInv
  <2>3. \/ handler'[s][c] = h
        \/ /\ sub = [caller |-> c, attempt |-> h.attempt]
           /\ h.pc = "waiting" /\ handler'[s][c] = r
    BY <1>1, <1>2 DEF TypeInv, Delivered
  <2>4. Handlers(c)' = [Handlers(c) EXCEPT ![s] = handler'[s][c]]
    BY <1>1, <1>2 DEF TypeInv, Handlers
  <2>5. CASE handler'[s][c] = h
    <3> HIDE DEF Handlers, h
    <3>1. CallerInv(c, call[c], [Handlers(c) EXCEPT ![s] = h], outcome[c])
      BY <2>1, <2>2, ReplaceInv
    <3> QED
      BY <3>1, <2>2, <2>4, <2>5
  <2>6. CASE /\ sub = [caller |-> c, attempt |-> h.attempt]
             /\ h.pc = "waiting" /\ handler'[s][c] = r
    <3>1. /\ r \in HandlerRecord /\ r.pc = h.pc /\ r.request = h.request
          /\ r.attempt = h.attempt /\ r.index = h.index /\ r.alone = h.alone
          /\ r.chan = reply
      BY <2>2, <1>9 DEF HandlerRecord
    <3> HIDE DEF r
    <3>2. n = h.index
      <4>1. n \in Index
        <5>1. Len(log[s]) <= MaxLog
          BY <1>2 DEF TypeInv, LogsBounded
        <5>2. n <= Len(log[s]) /\ Len(log[s]) \in Nat
          BY <1>1, <1>2 DEF Agrees, LogType
        <5> QED
          BY <5>1, <5>2, <1>3, LogBoundAssumption DEF Index
      <4> QED
        BY <4>1, <2>2, <2>6 DEF HandlerInv
    <3>3. ChanInv(r)
      <4>1. r.pc = "waiting" /\ r.index = n /\ n <= Len(committed)
        BY <3>1, <3>2, <2>6, <1>3
      <4>2. ASSUME ~r.chan.duplicate
            PROVE  /\ r.chan.serviceID = committed[n].serviceID /\ ~Superseded(n)
                   /\ r.chan.result = StoreAfter[n - 1]
        <5>1. ~dup
          BY <4>2, <3>1, <1>9
        <5> QED
          BY <5>1, <3>1, <1>6, <1>7, <1>9
      <4> HIDE DEF h
      <4> QED
        BY <4>1, <4>2 DEF ChanInv
    <3>4. HandlerInv(s, c, r, call[c].attempt)
      <4> HIDE DEF h
      <4> QED
        BY <3>1, <3>3, <2>2, SameInv
    <3> HIDE DEF Handlers, h
    <3>5. CallerInv(c, call[c], [Handlers(c) EXCEPT ![s] = r], outcome[c])
      BY <3>1, <3>4, <2>1, ReplaceInv
    <3> QED
      BY <3>1, <3>5, <2>4, <2>6
  <2> QED
    BY <2>3, <2>5, <2>6
<1>11. handler' \in [Service -> [Caller -> HandlerRecord]]
  <2>1. Delivered(s, sub, reply) \in [Caller -> HandlerRecord]
    <3>1. handler'[s] = Delivered(s, sub, reply)
      BY <1>1, <1>2 DEF TypeInv
    <3>2. Delivered(s, sub, reply) = [c \in Caller |-> Delivered(s, sub, reply)[c]]
      BY DEF Delivered
    <3> QED
      BY <3>1, <3>2, <1>10
  <2> QED
    BY <2>1, <1>1, <1>2 DEF TypeInv
<1>12. /\ DOMAIN commitSubs' = Service
       /\ \A t \in Service : DOMAIN commitSubs'[t] = Index
       /\ SubsEnd /\ leaders' \ leaders = {}
       /\ applied' \in [Service -> Nat] /\ applied'[s] = n
       /\ \A t \in Service \ {s} : applied'[t] = applied[t]
  BY <1>1, <1>2, <1>3 DEF TypeInv, SubsEnd
<1>13. StoreAfter' = StoreAfter
  BY <1>1, StoreAfterIs, StoreAfterIsNext
<1>14. /\ StoreAfter[n] = IF Superseded(n) THEN StoreAfter[n - 1]
                          ELSE Executed(StoreAfter[n - 1], cmd.op)
  BY <1>2, <1>3, StoreAfterStep
<1>15. /\ data' \in [Service -> StoreSet] /\ lastRequestID' \in [Service -> [Client -> Nat]]
       /\ ran' \in [Service -> Seq(Client \X Nat)]
       /\ \A t \in Service \ {s} : /\ data'[t] = data[t] /\ ran'[t] = ran[t]
                                   /\ lastRequestID'[t] = lastRequestID[t]
       /\ data'[s] = StoreAfter[n] /\ IsLast(lastRequestID'[s], n)
       /\ RanOnce(ran'[s], lastRequestID'[s])
  <2>1. CASE dup
    <3>1. UNCHANGED <<data, lastRequestID, ran>>
      BY <2>1, <1>1
    <3>2. IsLast(last, n)
      BY <2>1, <1>2, <1>3, <1>6, LastStep DEF dup
    <3> QED
      BY <3>1, <3>2, <2>1, <1>2, <1>6, <1>7, <1>14 DEF TypeInv
  <2>2. CASE ~dup
    <3> DEFINE last2 == [last EXCEPT ![k] = q]
               ran2 == Append(ran[s], <<k, q>>)
               new == Executed(data[s], cmd.op)
    <3>1. /\ lastRequestID' = [lastRequestID EXCEPT ![s] = last2]
          /\ data' = [data EXCEPT ![s] = new] /\ ran' = [ran EXCEPT ![s] = ran2]
      <4>1. /\ data \in [Service -> StoreSet] /\ ran \in [Service -> Seq(Client \X Nat)]
            /\ lastRequestID \in [Service -> [Client -> Nat]]
        BY <1>2 DEF TypeInv
      <4>2. /\ lastRequestID' = [lastRequestID EXCEPT ![s][k] = q]
            /\ data' = [data EXCEPT ![s] = Executed(@, cmd.op)]
            /\ ran' = [ran EXCEPT ![s] = Append(@, <<k, q>>)]
        BY <2>2, <1>1
      <4> QED
        BY <4>1, <4>2
    <3>2. IsLast(last2, n)
      BY <2>2, <1>2, <1>3, <1>6, LastStep DEF dup
    <3>3. last[k] < q
      BY <2>2, <1>4 DEF dup, IsDuplicate
    <3>4. ran2 \in Seq(Client \X Nat) /\ RanOnce(ran2, last2)
      <4> HIDE DEF last, k, q
      <4> QED
        BY <3>3, <1>3, <1>4, <1>6, RanStep
    <3>5. last2 \in [Client -> Nat]
      BY <1>3, <1>4
    <3>6. new \in StoreSet /\ new = StoreAfter[n]
      BY <2>2, <1>3, <1>4, <1>6, <1>7, <1>14, ExecutedType
    <3> HIDE DEF new, last2, ran2
    <3> QED
      BY <3>1, <3>2, <3>4, <3>5, <3>6, <1>2 DEF TypeInv
  <2> QED
    BY <2>1, <2>2
<1>16. ASSUME NEW t \in Service PROVE NodeInv(t)'
  <2>1. CASE t # s
    BY <2>1, <1>5, <1>12, <1>15, NodeStays
  <2>2. CASE t = s
    <3>1. Agrees(s, applied[s])' /\ data'[s] = StoreAfter'[applied'[s]]
      BY <1>1, <1>12, <1>13, <1>15 DEF Agrees
    <3>2. IsLast(lastRequestID[s], applied[s])'
      BY <1>1, <1>12, <1>15 DEF IsLast
    <3>3. RanOnce(ran[s], lastRequestID[s])'
      BY <1>15 DEF RanOnce
    <3> QED
      BY <2>2, <3>1, <3>2, <3>3 DEF NodeInv
  <2> QED
    BY <2>1, <2>2
<1> QED
  BY <1>1, <1>5, <1>10, <1>11, <1>12, <1>15, <1>16, ServiceStep

\* A subscription at s to index n, by the handler of attempt a of caller c.
Subscribes(s, n, c, a) ==
    /\ n \in Index /\ a \in Nat
    /\ commitSubs' = [commitSubs EXCEPT ![s][n] = [caller |-> c, attempt |-> a]]
    /\ UNCHANGED <<log, committed, leaders>>
    /\ DOMAIN commitSubs = Service /\ \A t \in Service : DOMAIN commitSubs[t] = Index

\* What is known of caller d, meanwhile.
LEMMA SubscriptionStays ==
    ASSUME NEW s \in Service, NEW n, NEW c \in Caller, NEW a, Subscribes(s, n, c, a),
           NEW d \in Caller, NEW k \in CallRecord,
           NEW hs \in [Service -> HandlerRecord], NEW o \in OutcomeRecord,
           CallerInv(d, k, hs, o),
           d = c => /\ a <= k.attempt
                    /\ hs[s].pc # "idle" /\ hs[s].attempt = a =>
                          hs[s].pc = "waiting" /\ hs[s].index = n
    PROVE  CallerInv(d, k, hs, o)'
<1> DEFINE sub == [caller |-> c, attempt |-> a]
<1>1. /\ \A t \in Service, i \in Index :
            commitSubs'[t][i] = commitSubs[t][i] \/ (t = s /\ i = n)
      /\ commitSubs'[s][n] = sub
      /\ UNCHANGED <<log, committed, leaders>> /\ n \in Index /\ a \in Nat
  BY DEF Subscribes
<1>2. /\ StoreAfter' = StoreAfter
      /\ \A i : Superseded(i)' <=> Superseded(i)
  BY <1>1, StoreAfterIs, StoreAfterIsNext DEF Superseded
<1>3. ASSUME NEW t \in Service, NEW i \in Index, commitSubs'[t][i].caller = d
      PROVE  commitSubs'[t][i].attempt <= k.attempt
  <2>1. CASE t = s /\ i = n
    BY <2>1, <1>1, <1>3
  <2>2. CASE ~(t = s /\ i = n)
    BY <2>2, <1>1, <1>3 DEF CallerInv
  <2> QED
    BY <2>1, <2>2
<1>4. ASSUME NEW t \in Service PROVE HandlerInv(t, d, hs[t], k.attempt)'
  <2> DEFINE h == hs[t]
  <2>1. HandlerInv(t, d, h, k.attempt)
    BY DEF CallerInv
  <2>2. ASSUME h.pc # "idle", NEW i \in Index,
               commitSubs'[t][i] = [caller |-> d, attempt |-> h.attempt]
        PROVE  h.pc = "waiting" /\ i = h.index
    <3>1. CASE t = s /\ i = n
      <4>1. d = c /\ h.attempt = a
        BY <3>1, <2>2, <1>1
      <4> QED
        BY <4>1, <3>1, <2>2
    <3>2. CASE ~(t = s /\ i = n)
      <4>1. commitSubs[t][i] = [caller |-> d, attempt |-> h.attempt]
        BY <3>2, <2>2, <1>1
      <4> QED
        BY <4>1, <2>1, <2>2 DEF HandlerInv
    <3> QED
      BY <3>1, <3>2
  <2> HIDE DEF h
  <2>3. /\ Located(t, d, h) => Located(t, d, h)'
        /\ ChanInv(h) => ChanInv(h)'
    BY <1>1, <1>2 DEF Located, ChanInv
  <2>4. HandlerInv(t, d, h, k.attempt)'
    BY <2>1, <2>2, <2>3, <1>1 DEF HandlerInv
  <2> QED
    BY <2>4 DEF h
<1>5. OKInv(d, o)'
  BY <1>1, <1>2 DEF CallerInv, OKInv
<1> QED
  BY <1>3, <1>4, <1>5 DEF CallerInv

LEMMA SubscribeKeeps ==
    ASSUME IInv, NEW s \in Service, NEW c \in Caller, Subscribe(s, c)
    PROVE  IInv'
<1> DEFINE h == handler[s][c]
           n == h.index
           a == h.attempt
           r == [h EXCEPT !.pc = "waiting"]
           hs2 == [Handlers(c) EXCEPT ![s] = r]
<1>1. /\ h.pc = "submitted" /\ UNCHANGED <<log, committed, current, leaders>>
      /\ UNCHANGED <<requestID, assumedLeader, call, outcome>>
      /\ UNCHANGED <<data, lastRequestID, applied, ran>>
      /\ commitSubs' = [commitSubs EXCEPT ![s][n] = [caller |-> c, attempt |-> a]]
      /\ handler' = [handler EXCEPT ![s] = [handler[s] EXCEPT ![c] = r]]
  <2>1. handler' = [handler EXCEPT ![s][c].pc = "waiting"]
    BY DEF Subscribe
  <2>2. handler \in [Service -> [Caller -> HandlerRecord]]
    BY DEF IInv, TypeInv
  <2> QED
    BY <2>1, <2>2 DEF Subscribe, clientVars, storeVars, logVars, HandlerRecord
<1>2. TypeInv /\ LogType(Entry) /\ handler \in [Service -> [Caller -> HandlerRecord]]
  BY DEF IInv, TypeInv
<1>3. /\ \A t \in Service : Handlers(c)[t] = handler[t][c]
      /\ CallerInv(c, call[c], Handlers(c), outcome[c])
      /\ Handlers(c) \in [Service -> HandlerRecord]
  BY HandlersType
<1>4. h \in HandlerRecord /\ HandlerInv(s, c, h, call[c].attempt) /\ a \in Nat
  BY <1>2, <1>3 DEF CallerInv, HandlerRecord
<1>5. Located(s, c, h) /\ n \in Index /\ a <= call[c].attempt /\ h.chan = NoCommand
  BY <1>1, <1>4 DEF HandlerInv, Located, ChanInv
<1>6. /\ r \in HandlerRecord /\ r.pc = "waiting" /\ r.request = h.request
      /\ r.attempt = h.attempt /\ r.index = h.index /\ r.alone = h.alone
      /\ r.chan = h.chan
  BY <1>4 DEF HandlerRecord
<1> HIDE DEF r
<1>7. HandlerInv(s, c, r, call[c].attempt)
  <2>1. Located(s, c, r) /\ ChanInv(r)
    BY <1>5, <1>6 DEF Located, ChanInv
  <2> QED
    BY <1>1, <1>4, <1>6, <2>1 DEF HandlerInv
<1>8. ChangedFor(handler', c, hs2) /\ CallerInv(c, call[c], hs2, outcome[c])
  BY <1>1, <1>6, <1>7, ReplaceFor
<1>9. hs2[s].pc = "waiting" /\ hs2[s].index = n
  BY <1>3, <1>6
<1> HIDE DEF hs2
<1>10. ASSUME NEW d \in Caller
       PROVE  CallerInv(d, call[d], Handlers(d), outcome[d])'
  <2> DEFINE g == IF d = c THEN hs2 ELSE Handlers(d)
  <2>1. Handlers(d)' = g
    <3>1. CASE d = c
      BY <3>1, <1>8 DEF Handlers, ChangedFor
    <3>2. CASE d # c
      BY <3>2, <1>8 DEF Handlers, ChangedFor
    <3> QED
      BY <3>1, <3>2
  <2>2. /\ g \in [Service -> HandlerRecord] /\ call[d] \in CallRecord
        /\ outcome[d] \in OutcomeRecord /\ CallerInv(d, call[d], g, outcome[d])
    BY <1>8, HandlersType DEF ChangedFor
  <2>3. d = c => g[s].pc = "waiting" /\ g[s].index = n
    BY <1>9
  <2> HIDE DEF g
  <2>4. DOMAIN commitSubs = Service /\ \A t \in Service : DOMAIN commitSubs[t] = Index
    BY <1>2 DEF TypeInv
  <2>5. Subscribes(s, n, c, a) /\ (d = c => a <= call[d].attempt)
    BY <2>4, <1>1, <1>4, <1>5 DEF Subscribes
  <2>6. call'[d] = call[d] /\ outcome'[d] = outcome[d]
    BY <1>1
  <2> HIDE DEF h, n, a
  <2>7. \A kk \in CallRecord, gg \in [Service -> HandlerRecord], oo \in OutcomeRecord :
           /\ CallerInv(d, kk, gg, oo)
           /\ d = c => a <= kk.attempt /\ gg[s].pc = "waiting" /\ gg[s].index = n
           => CallerInv(d, kk, gg, oo)'
    <3> SUFFICES ASSUME NEW kk \in CallRecord, NEW gg \in [Service -> HandlerRecord],
                        NEW oo \in OutcomeRecord, CallerInv(d, kk, gg, oo),
                        d = c => a <= kk.attempt /\ gg[s].pc = "waiting"
                                                /\ gg[s].index = n
                 PROVE  CallerInv(d, kk, gg, oo)'
      OBVIOUS
    <3> QED
      BY <2>5, SubscriptionStays
  <2> QED
    BY <2>1, <2>2, <2>3, <2>5, <2>6, <2>7
<1>11. /\ LogType(Entry)' /\ AgreedStays /\ CommittedStays /\ CurrentHolds'
  BY <1>1, LogsStay
<1>12. TypeInv'
  <2>1. handler' \in [Service -> [Caller -> HandlerRecord]]
    BY <1>8 DEF ChangedFor
  <2>2. /\ DOMAIN commitSubs' = Service /\ \A t \in Service : DOMAIN commitSubs'[t] = Index
        /\ \A t \in Service, i \in Index : commitSubs'[t][i].attempt \in Nat
    <3> HIDE DEF h, n, a
    <3> QED
      BY <1>1, <1>2, <1>4, <1>5 DEF TypeInv
  <2>3. LogsBounded'
    BY <1>1, <1>2 DEF TypeInv, LogsBounded
  <2> QED
    BY <2>1, <2>2, <2>3, <1>1, <1>2, <1>11 DEF TypeInv
<1>13. \A t \in Service : NodeInv(t)'
  BY <1>1, <1>11, NodeStays
<1> QED
  BY <1>10, <1>11, <1>12, <1>13 DEF IInv

\* Service s, which leads, appends e to its log.
Appended(s, e) ==
    /\ s \in leaders /\ UNCHANGED <<committed, leaders, commitSubs>>
    /\ Len(log'[s]) = Len(log[s]) + 1 /\ log'[s][Len(log[s]) + 1] = e
    /\ \A i \in 1..Len(log[s]) : log'[s][i] = log[s][i]
    /\ \A t \in Service \ {s} : log'[t] = log[t]

\* What is known of caller d, meanwhile: the handlers of s wait for less.
LEMMA AppendedStays ==
    ASSUME NEW s \in Service, NEW e, e.serviceID = s, Appended(s, e), LogType(Entry),
           NEW d \in Caller, NEW k \in CallRecord,
           NEW hs \in [Service -> HandlerRecord], NEW o \in OutcomeRecord,
           CallerInv(d, k, hs, o)
    PROVE  CallerInv(d, k, hs, o)'
<1>1. s \in leaders /\ UNCHANGED <<committed, leaders, commitSubs>>
  BY DEF Appended
<1>2. \A t \in Service : /\ Len(log[t]) \in Nat /\ Len(log'[t]) \in Nat
                         /\ Len(log[t]) <= Len(log'[t])
                         /\ \A i \in 1..Len(log[t]) : log'[t][i] = log[t][i]
  <2>1. \A t \in Service : Len(log[t]) \in Nat
    BY DEF LogType
  <2> QED
    BY <2>1 DEF Appended
<1>3. \A t \in Service : \A i \in 1..Len(log'[t]) :
         i \in 1..Len(log[t]) \/ (t = s /\ i = Len(log[s]) + 1 /\ log'[t][i] = e)
  BY <1>2 DEF Appended
<1>4. StoreAfter' = StoreAfter /\ \A i : Superseded(i)' <=> Superseded(i)
  BY <1>1, StoreAfterIs, StoreAfterIsNext DEF Superseded
<1>5. ASSUME NEW t \in Service PROVE HandlerInv(t, d, hs[t], k.attempt)'
  <2> DEFINE h == hs[t]
  <2>1. HandlerInv(t, d, h, k.attempt) /\ h \in HandlerRecord
    BY DEF CallerInv
  <2> HIDE DEF h
  <2>2. ASSUME h.pc \in {"submitted", "waiting"} PROVE Located(t, d, h)'
    <3>1. Located(t, d, h)
      BY <2>1, <2>2 DEF HandlerInv
    <3>2. h.index \in Nat /\ h.index \in Index /\ h.index >= 1
      BY <2>1, <3>1, LogBoundAssumption DEF HandlerRecord, Located, Index
    <3>3. t \in leaders' => h.index <= Len(log'[t])
      BY <3>1, <3>2, <1>1, <1>2 DEF Located
    <3>4. ASSUME h.alone, NEW u \in Service, h.index <= Len(log'[u]),
                 log'[u][h.index].serviceID = t
          PROVE  /\ log'[u][h.index].clientID = ClientOf[d]
                 /\ log'[u][h.index].requestID = h.request
      <4>1. h.index \in 1..Len(log'[u])
        BY <3>2, <3>4, <1>2
      <4>2. CASE h.index \in 1..Len(log[u])
        BY <4>2, <3>1, <3>2, <3>4, <1>2 DEF Located
      <4>3. CASE u = s /\ h.index = Len(log[s]) + 1 /\ log'[u][h.index] = e
        <5>1. t = s
          BY <4>3, <3>4
        <5>2. h.index <= Len(log[s])
          BY <5>1, <3>1, <1>1 DEF Located
        <5> QED
          BY <5>2, <4>3, <1>2
      <4> QED
        BY <4>1, <4>2, <4>3, <1>3
    <3> QED
      BY <3>2, <3>3, <3>4 DEF Located
  <2>3. ChanInv(h)'
    BY <2>1, <1>1, <1>4 DEF HandlerInv, ChanInv
  <2>4. HandlerInv(t, d, h, k.attempt)'
    BY <2>1, <2>2, <2>3, <1>1 DEF HandlerInv
  <2> QED
    BY <2>4 DEF h
<1>6. OKInv(d, o)'
  BY <1>1, <1>4 DEF CallerInv, OKInv
<1> QED
  BY <1>1, <1>5, <1>6 DEF CallerInv
LEMMA HandlerSubmitsKeeps ==
    ASSUME IInv, NEW s \in Service, NEW c \in Caller, HandlerSubmits(s, c)
    PROVE  IInv'
<1> DEFINE h == handler[s][c]
           n == Len(log[s]) + 1
           e == Command(s, c)
           alone == Alone(s, n, e)
           r == [h EXCEPT !.pc = "submitted", !.index = n, !.alone = alone]
           k == call[c]
           o == outcome[c]
           hs == Handlers(c)
           hs2 == [hs EXCEPT ![s] = r]
<1>1. /\ h.pc = "received" /\ Appends(s, e)
      /\ UNCHANGED <<committed, current, leaders, commitSubs>>
      /\ UNCHANGED <<data, lastRequestID, applied, ran>>
      /\ UNCHANGED <<requestID, assumedLeader, call, outcome>>
      /\ handler' = [handler EXCEPT ![s] = [handler[s] EXCEPT ![c] = r]]
  <2>1. handler' = [handler EXCEPT
                       ![s][c].pc = "submitted", ![s][c].index = Len(log[s]) + 1,
                       ![s][c].alone = Alone(s, Len(log[s]) + 1, Command(s, c))]
    BY DEF HandlerSubmits
  <2>2. handler \in [Service -> [Caller -> HandlerRecord]]
    BY DEF IInv, TypeInv
  <2> HIDE DEF alone
  <2>3. handler' = [handler EXCEPT ![s] = [handler[s] EXCEPT ![c] = r]]
    BY <2>1, <2>2 DEF alone, HandlerRecord
  <2> QED
    BY <2>3 DEF HandlerSubmits, Appends, clientVars, storeVars
<1>2. TypeInv /\ LogType(Entry) /\ CurrentHolds
  BY DEF IInv, TypeInv
<1>3. /\ hs \in [Service -> HandlerRecord] /\ \A t \in Service : hs[t] = handler[t][c]
      /\ CallerInv(c, k, hs, o) /\ k \in CallRecord /\ o \in OutcomeRecord
  BY HandlersType
<1>4. /\ h \in HandlerRecord /\ HandlerInv(s, c, h, k.attempt) /\ h.attempt \in Nat
      /\ h.request \in Nat \ {0} /\ h.op \in AnyOp /\ h.attempt <= k.attempt
      /\ h.chan = NoCommand /\ h.attempt > 0
  <2>1. h \in HandlerRecord /\ HandlerInv(s, c, h, k.attempt)
    BY <1>3 DEF CallerInv
  <2>2. h.attempt \in Nat /\ h.request \in Nat /\ h.op \in AnyOp
    BY <2>1 DEF HandlerRecord
  <2> QED
    BY <2>1, <2>2, <1>1 DEF HandlerInv, ChanInv
<1>5. /\ e \in Entry /\ e.serviceID = s /\ e.clientID = ClientOf[c]
      /\ e.requestID = h.request
  <2>1. e = [serviceID |-> s, clientID |-> ClientOf[c], requestID |-> h.request,
             op |-> h.op]
    BY DEF Command
  <2>2. ClientOf[c] \in Client
    BY DEF Client
  <2> HIDE DEF h, e
  <2> QED
    BY <2>1, <2>2, <1>4 DEF Entry
<1> HIDE DEF e
<1>6. /\ LogType(Entry)' /\ AgreedStays /\ CommittedStays /\ CurrentHolds'
      /\ Appended(s, e)
  <2>1. /\ LogType(Entry)' /\ AgreedStays /\ CommittedStays /\ CurrentHolds'
        /\ Len(log'[s]) = Len(log[s]) + 1 /\ log'[s][Len(log[s]) + 1] = e
        /\ \A i \in 1..Len(log[s]) : log'[s][i] = log[s][i]
        /\ \A t \in Service \ {s} : log'[t] = log[t]
    BY <1>1, <1>2, <1>5, AppendsKeeps
  <2>2. s \in leaders
    BY <1>1 DEF Appends
  <2> QED
    BY <2>1, <2>2, <1>1 DEF Appended
<1>7. /\ n \in Nat /\ n \in Index /\ Len(log'[s]) = n
      /\ \A t \in Service : Len(log[t]) \in Nat
  <2>1. \A t \in Service : Len(log[t]) \in Nat
    BY <1>2 DEF LogType
  <2>2. Len(log[s]) < MaxLog
    BY <1>1 DEF Appends
  <2> QED
    BY <2>1, <2>2, <1>6, LogBoundAssumption DEF Index, Appended
<1>8. alone \in BOOLEAN
  BY DEF Alone
<1> HIDE DEF n, alone
<1>9. /\ r \in HandlerRecord /\ r.pc = "submitted" /\ r.request = h.request
      /\ r.attempt = h.attempt /\ r.index = n /\ r.alone = alone /\ r.chan = h.chan
  <2> DEFINE r1 == [h EXCEPT !.pc = "submitted"]
             r2 == [r1 EXCEPT !.index = n]
             r3 == [r2 EXCEPT !.alone = alone]
  <2>1. r = r3
    BY <1>4 DEF HandlerRecord
  <2>2. /\ r1 \in HandlerRecord /\ r1.pc = "submitted" /\ r1.request = h.request
        /\ r1.attempt = h.attempt /\ r1.chan = h.chan
    BY <1>4 DEF HandlerRecord
  <2> HIDE DEF r1
  <2>3. /\ r2 \in HandlerRecord /\ r2.pc = "submitted" /\ r2.request = h.request
        /\ r2.attempt = h.attempt /\ r2.chan = h.chan /\ r2.index = n
    BY <2>2, <1>7 DEF HandlerRecord
  <2> HIDE DEF r2
  <2>4. /\ r3 \in HandlerRecord /\ r3.pc = "submitted" /\ r3.request = h.request
        /\ r3.attempt = h.attempt /\ r3.chan = h.chan /\ r3.index = n /\ r3.alone = alone
    BY <2>3, <1>8 DEF HandlerRecord
  <2> QED
    BY <2>1, <2>4
<1> HIDE DEF r, hs
<1>10. /\ hs2 \in [Service -> HandlerRecord] /\ hs2[s] = r
       /\ \A t \in Service \ {s} : hs2[t] = hs[t]
  BY <1>3, <1>9
<1> HIDE DEF hs2
<1>11. PICK kk \in CallRecord, g \in [Service -> HandlerRecord],
            g2 \in [Service -> HandlerRecord], oo \in OutcomeRecord, rr \in HandlerRecord :
          kk = k /\ g = hs /\ g2 = hs2 /\ oo = o /\ rr = r
  BY <1>3, <1>9, <1>10
<1> DEFINE a == rr.attempt
           nn == rr.index
           q == rr.request
<1>12. /\ a = h.attempt /\ nn = n /\ q = h.request /\ rr.alone = alone
       /\ rr.pc = "submitted" /\ rr.chan = NoCommand /\ nn \in Index
  BY <1>4, <1>7, <1>9, <1>11
<1>13. CallerInv(c, kk, g, oo)'
  BY <1>2, <1>3, <1>5, <1>6, <1>11, AppendedStays
<1>14. Located(s, c, rr)'
  <2>1. nn <= Len(log'[s]) /\ nn \in Index
    BY <1>7, <1>12
  <2>2. ASSUME rr.alone, NEW t \in Service, nn <= Len(log'[t]),
               log'[t][nn].serviceID = s
        PROVE  log'[t][nn].clientID = ClientOf[c] /\ log'[t][nn].requestID = q
    <3>1. CASE t = s
      BY <3>1, <1>5, <1>6, <1>12 DEF Appended, n
    <3>2. CASE t # s
      <4>1. log'[t] = log[t] /\ log[t][nn].serviceID = s
        BY <3>2, <2>2, <1>6 DEF Appended
      <4>2. <<log[t][nn].clientID, log[t][nn].requestID>>
              = <<e.clientID, e.requestID>>
        BY <4>1, <2>2, <1>12 DEF alone, Alone
      <4> QED
        BY <4>1, <4>2, <1>5, <1>12
    <3> QED
      BY <3>1, <3>2
  <2> HIDE DEF h
  <2> QED
    BY <2>1, <2>2 DEF Located
<1>15. HandlerInv(s, c, rr, kk.attempt)'
  <2>1. \A i \in Index : commitSubs'[s][i] # [caller |-> c, attempt |-> a]
    BY <1>1, <1>4, <1>12 DEF HandlerInv
  <2>2. a <= kk.attempt /\ a > 0 /\ q > 0
    BY <1>4, <1>11, <1>12
  <2> HIDE DEF h
  <2> QED
    BY <2>1, <2>2, <1>12, <1>14 DEF HandlerInv, ChanInv
<1>16. CallerInv(c, kk, g2, oo)'
  <2>1. g2[s] = rr /\ \A t \in Service \ {s} : g2[t] = g[t]
    BY <1>10, <1>11
  <2>2. \A t \in Service : HandlerInv(t, c, g2[t], kk.attempt)'
    BY <2>1, <1>13, <1>15 DEF CallerInv
  <2> QED
    BY <2>2, <1>13 DEF CallerInv
<1>17. ASSUME NEW d \in Caller
       PROVE  CallerInv(d, call[d], Handlers(d), outcome[d])'
  <2>1. call'[d] = call[d] /\ outcome'[d] = outcome[d]
    BY <1>1
  <2>2. CASE d = c
    <3>1. Handlers(c)' = g2
      <4>1. \A t \in Service : handler'[t][c] = hs2[t]
        BY <1>1, <1>2, <1>3, <1>9, <1>10 DEF TypeInv
      <4>2. Handlers(c)' = [t \in Service |-> handler'[t][c]]
        BY DEF Handlers
      <4> QED
        BY <4>1, <4>2, <1>11
    <3> HIDE DEF Handlers
    <3> QED
      BY <3>1, <2>1, <2>2, <1>11, <1>16
  <2>3. CASE d # c
    <3>1. Handlers(d)' = Handlers(d)
      BY <2>3, <1>1, <1>2 DEF TypeInv, Handlers
    <3>2. /\ Handlers(d) \in [Service -> HandlerRecord] /\ call[d] \in CallRecord
          /\ outcome[d] \in OutcomeRecord
          /\ CallerInv(d, call[d], Handlers(d), outcome[d])
      BY HandlersType
    <3>3. \A x \in CallRecord, y \in [Service -> HandlerRecord], z \in OutcomeRecord :
             CallerInv(d, x, y, z) => CallerInv(d, x, y, z)'
      <4> SUFFICES ASSUME NEW x \in CallRecord, NEW y \in [Service -> HandlerRecord],
                          NEW z \in OutcomeRecord, CallerInv(d, x, y, z)
                   PROVE  CallerInv(d, x, y, z)'
        OBVIOUS
      <4> QED
        BY <1>2, <1>5, <1>6, AppendedStays
    <3> HIDE DEF Handlers
    <3> QED
      BY <3>1, <3>2, <3>3, <2>1
  <2> QED
    BY <2>2, <2>3
<1>18. TypeInv'
  <2>1. handler' \in [Service -> [Caller -> HandlerRecord]]
    BY <1>1, <1>2, <1>9 DEF TypeInv
  <2>2. LogsBounded'
    <3>1. ASSUME NEW t \in Service PROVE Len(log'[t]) <= MaxLog
      <4>1. CASE t = s
        BY <4>1, <1>7, LogBoundAssumption DEF Index
      <4>2. CASE t # s
        BY <4>2, <1>2, <1>6 DEF Appended, TypeInv, LogsBounded
      <4> QED
        BY <4>1, <4>2
    <3> QED
      BY <3>1 DEF LogsBounded
  <2> QED
    BY <2>1, <2>2, <1>1, <1>2, <1>6 DEF TypeInv
<1>19. \A t \in Service : NodeInv(t)'
  BY <1>1, <1>6, NodeStays
<1> QED
  BY <1>6, <1>17, <1>18, <1>19 DEF IInv

-----------------------------------------------------------------------------
(* The theorems *)

LEMMA InitHolds ==
    ASSUME Init
    PROVE  IInv
<1>1. /\ log = [s \in Service |-> <<>>] /\ committed = <<>> /\ current \in Service
      /\ requestID = [k \in Client |-> 0] /\ assumedLeader = [k \in Client |-> 0]
      /\ call = [c \in Caller |-> NoCall] /\ outcome = [c \in Caller |-> NoOutcome]
      /\ handler = [s \in Service |-> [c \in Caller |-> NoHandler]]
      /\ commitSubs = [s \in Service |-> [n \in Index |-> NoSub]]
      /\ data = [s \in Service |-> Absent]
      /\ lastRequestID = [s \in Service |-> [k \in Client |-> 0]]
      /\ applied = [s \in Service |-> 0] /\ ran = [s \in Service |-> <<>>]
  BY DEF Init, Quiet, LogQuiet
<1>2. 0 \in Service
  BY ServiceAssumption, FS_CardinalityType, FS_EmptySet
<1>3. NoOp \in AnyOp /\ Absent \in StoreSet
  BY DEF NoOp, AnyOp, StoreSet, Absent
<1> HIDE DEF Absent, NoOp
<1>4. NoCall \in CallRecord /\ NoCall.pc = "idle" /\ NoCall.attempt = 0
  BY <1>2, <1>3 DEF NoCall, CallRecord
<1>5. NoOutcome \in OutcomeRecord /\ NoOutcome.status = "none"
  BY <1>3 DEF NoOutcome, OutcomeRecord
<1>6. NoHandler \in HandlerRecord /\ \A s \in Service, c \in Caller :
         HandlerInv(s, c, NoHandler, 0)
  BY NoHandlerType, NoHandlerInv
<1>7. NoSub.attempt = 0
  BY DEF NoSub
<1>8. LogType(Entry) /\ \A s \in Service : log[s] = <<>>
  BY <1>1 DEF LogType
<1>9. Len(committed) = 0 /\ \A s \in Service : Len(log[s]) = 0
  BY <1>1, <1>8
<1> HIDE DEF NoCall, NoOutcome, NoHandler, NoSub
<1>10. TypeInv
  <2>1. LogsBounded
    BY <1>9, LogBoundAssumption DEF LogsBounded
  <2>2. ran \in [Service -> Seq(Client \X Nat)]
    BY <1>1
  <2> QED
    BY <2>1, <2>2, <1>1, <1>2, <1>3, <1>4, <1>5, <1>6, <1>7, <1>8 DEF TypeInv
<1>11. \A s \in Service : Agrees(s, 0)
  <2> SUFFICES ASSUME NEW s \in Service PROVE Agrees(s, 0)
    OBVIOUS
  <2>1. Agrees(s, 0) <=> /\ 0 <= Len(log[s]) /\ 0 <= Len(committed)
                         /\ \A i \in 1..0 : log[s][i] = committed[i]
    BY <1>8, AgreesPointwise
  <2> QED
    BY <2>1, <1>9
<1>12. CurrentHolds
  BY <1>1, <1>9, <1>11 DEF CurrentHolds
<1>13. ASSUME NEW s \in Service PROVE NodeInv(s)
  <2>1. StoreAfter[0] = Absent
    BY <1>8, StoreAfterStep
  <2>2. /\ applied[s] = 0 /\ ran[s] = <<>> /\ data[s] = Absent
        /\ lastRequestID[s] = [k \in Client |-> 0]
    BY <1>1
  <2>3. IsLast([k \in Client |-> 0], 0)
    BY DEF IsLast
  <2>4. RanOnce(<<>>, [k \in Client |-> 0])
    BY DEF RanOnce
  <2> QED
    BY <2>1, <2>2, <2>3, <2>4, <1>11 DEF NodeInv
<1>14. ASSUME NEW c \in Caller PROVE CallerInv(c, call[c], Handlers(c), outcome[c])
  <2>1. call[c] = NoCall /\ outcome[c] = NoOutcome
        /\ \A s \in Service : Handlers(c)[s] = NoHandler
    BY <1>1 DEF Handlers
  <2>2. \A s \in Service, i \in Index : commitSubs[s][i].attempt <= 0
    BY <1>1, <1>7
  <2> HIDE DEF Handlers
  <2> QED
    BY <2>1, <2>2, <1>4, <1>5, <1>6 DEF CallerInv, OKInv
<1> QED
  BY <1>10, <1>12, <1>13, <1>14 DEF IInv

\* The invariant is inductive.
LEMMA Inductive == Spec => []IInv
<1>1. Init => IInv
  BY InitHolds
<1>2. IInv /\ [Next]_vars => IInv'
  <2> SUFFICES ASSUME IInv, [Next]_vars PROVE IInv'
    OBVIOUS
  <2>1. CASE LogStep
    BY <2>1, LogStepKeeps
  <2>2. ASSUME NEW c \in Caller, NEW op \in Op[c], Request(c, op) PROVE IInv'
    BY <2>2, RequestKeeps
  <2>3. ASSUME NEW c \in Caller, Retry(c) \/ BailOut(c) PROVE IInv'
    BY <2>3, RetryKeeps, BailOutKeeps
  <2>4. ASSUME NEW s \in Service, NEW c \in Caller,
               \/ HandlerSubmits(s, c) \/ NotLeader(s, c) \/ Subscribe(s, c)
               \/ SubscribePanics(s, c) \/ HandlerAnswers(s, c)
               \/ HandlerCancelled(s, c)
        PROVE  IInv'
    BY <2>4, HandlerSubmitsKeeps, NotLeaderKeeps, SubscribeKeeps,
       SubscribePanicsKeeps, HandlerAnswersKeeps, HandlerCancelledKeeps
  <2>5. ASSUME NEW s \in Service, Update(s) \/ Restart(s) PROVE IInv'
    BY <2>5, UpdateKeeps, RestartKeeps
  <2>6. CASE UNCHANGED vars
    BY <2>6, StutterKeeps
  <2> QED
    BY <2>1, <2>2, <2>3, <2>4, <2>5, <2>6 DEF Next
<1> QED
  BY <1>1, <1>2, PTL DEF Spec

\* Whatever is retried, replayed after a restart or committed twice: no service
\* executes a request twice, and its store is the one that the committed commands
\* make when each request is executed once.
THEOREM ExactlyOnceTheorem == Spec => []ExactlyOnce
<1>1. IInv => ExactlyOnce
  BY DEF IInv, NodeInv, RanOnce, ExactlyOnce
<1> QED
  BY <1>1, Inductive, PTL

\* An OK for a command that was alone at its index carries the result of the
\* caller's own request, where the committed log executes it.
THEOREM AnswersItsOwnTheorem == Spec => []AnswersItsOwn
<1>1. IInv => AnswersItsOwn
  BY DEF IInv, CallerInv, OKInv, AnswersItsOwn
<1> QED
  BY <1>1, Inductive, PTL
=============================================================================
