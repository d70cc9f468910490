---------------------------- MODULE HRaftdProofs ----------------------------
(***************************************************************************)
(* Proofs about HRaftd, for any number of nodes, keys, clients, elections, *)
(* snapshots and restarts: every store is that of a prefix of the          *)
(* committed commands, and what was answered 200 has been done.            *)
(***************************************************************************)
EXTENDS HRaftd, ReplicatedLogProofs

-----------------------------------------------------------------------------
(* The store as a function of the commands *)

What == {Delete("none")} \cup UNION {Request[c] : c \in Caller}
Pair == UNION {r.body : r \in What}
Entry == [op : {"set", "delete"}, key : Key, value : {p[2] : p \in Pair},
          from : Caller]
StoreSet == UNION {[K -> {p[2] : p \in Pair}] : K \in SUBSET Key}

StoreOf(cmds) ==
    LET f[n \in 0..Len(cmds)] ==
          IF n = 0 THEN Empty ELSE Executed(f[n - 1], cmds[n])
    IN  f

LEMMA ExecutedType ==
    ASSUME NEW f \in StoreSet, NEW cmd \in Entry
    PROVE  Executed(f, cmd) \in StoreSet
<1> DEFINE V == {p[2] : p \in Pair}
<1>1. cmd.key \in Key /\ cmd.value \in V
  BY DEF Entry
<1>2. PICK K \in SUBSET Key : f \in [K -> V]
  BY DEF StoreSet
<1> HIDE DEF V
<1>3. CASE cmd.op = "set"
  <2>1. K \cup {cmd.key} \in SUBSET Key
    BY <1>1
  <2>2. Executed(f, cmd) \in [K \cup {cmd.key} -> V]
    BY <1>1, <1>2, <1>3 DEF Executed
  <2> QED
    BY <2>1, <2>2 DEF StoreSet, V
<1>4. CASE cmd.op # "set"
  <2>1. K \ {cmd.key} \in SUBSET Key
    OBVIOUS
  <2>2. Executed(f, cmd) \in [K \ {cmd.key} -> V]
    BY <1>1, <1>2, <1>4 DEF Executed
  <2> QED
    BY <2>1, <2>2 DEF StoreSet, V
<1> QED
  BY <1>3, <1>4

\* The recursion defines a store for every number of commands.
LEMMA StoreOfDefined ==
    ASSUME NEW cmds \in Seq(Entry)
    PROVE  /\ StoreOf(cmds) \in [0..Len(cmds) -> StoreSet]
           /\ StoreOf(cmds)[0] = Empty
           /\ \A n \in 1..Len(cmds) :
                StoreOf(cmds)[n] = Executed(StoreOf(cmds)[n - 1], cmds[n])
<1> DEFINE N == Len(cmds)
           G == [x \in StoreSet \X (1..N) |-> Executed(x[1], cmds[x[2]])]
           Step(f) == [n \in 0..N |-> IF n = 0 THEN Empty
                                      ELSE Executed(f[n - 1], cmds[n])]
<1>1. N \in Nat /\ \A n \in 1..N : cmds[n] \in Entry
  OBVIOUS
<1>2. IsStep(G, StoreSet, N)
  BY <1>1, ExecutedType DEF IsStep
<1>3. Empty \in StoreSet
  <2>1. Empty \in [{} -> {p[2] : p \in Pair}] /\ {} \in SUBSET Key
    BY DEF Empty
  <2> QED
    BY <2>1 DEF StoreSet
<1>4. PICK f : IsIterate(f, Empty, G, StoreSet, N)
  <2> HIDE DEF G, N
  <2> QED
    BY <1>1, <1>2, <1>3, RecursionDefines
<1>5. ASSUME NEW n \in 1..N PROVE f[n] = Executed(f[n - 1], cmds[n])
  <2>1. n - 1 \in 0..N /\ f[n - 1] \in StoreSet
    BY <1>1, <1>4 DEF IsIterate
  <2>2. <<f[n - 1], n>> \in StoreSet \X (1..N)
    BY <2>1
  <2> QED
    BY <2>2, <1>4 DEF IsIterate
<1>6. f = Step(f)
  <2>1. \A n \in 0..N : n = 0 \/ n \in 1..N
    BY <1>1
  <2> QED
    BY <2>1, <1>4, <1>5 DEF IsIterate
<1>7. StoreOf(cmds) = CHOOSE g : g = Step(g)
  BY DEF StoreOf
<1> DEFINE g == StoreOf(cmds)
           Same == {n \in 0..N : g[n] = f[n]}
<1>8. g = Step(g)
  BY <1>6, <1>7
<1>9. g[0] = Empty /\ \A n \in 1..N : g[n] = Executed(g[n - 1], cmds[n])
  <2>1. 0 \in 0..N /\ \A n \in 1..N : n \in 0..N /\ n # 0
    BY <1>1
  <2> QED
    BY <2>1, <1>8
<1>10. \A n \in 0..N : n \in Same
  <2>1. 0 \in Same
    BY <1>1, <1>4, <1>9 DEF IsIterate
  <2>2. \A n \in 1..N : n - 1 \in Same => n \in Same
    BY <1>1, <1>5, <1>9
  <2> HIDE DEF Same
  <2> QED
    BY <2>1, <2>2, <1>1, InductionUpTo
<1>11. g \in [0..N -> StoreSet]
  <2>1. DOMAIN g = 0..N /\ g = [n \in 0..N |-> g[n]]
    BY <1>8
  <2> QED
    BY <2>1, <1>4, <1>10 DEF IsIterate
<1> QED
  BY <1>9, <1>11

\* What is committed later does not change the stores before it.
LEMMA StoreOfPrefix ==
    ASSUME NEW a \in Seq(Entry), NEW b \in Seq(Entry), Len(a) <= Len(b),
           \A n \in 1..Len(a) : b[n] = a[n]
    PROVE  \A n \in 0..Len(a) : StoreOf(b)[n] = StoreOf(a)[n]
<1> DEFINE N == Len(a)
           Same == {n \in 0..N : StoreOf(b)[n] = StoreOf(a)[n]}
<1>1. N \in Nat /\ Len(b) \in Nat
  OBVIOUS
<1>2. 0 \in Same
  BY <1>1, StoreOfDefined
<1>3. ASSUME NEW n \in 1..N, n - 1 \in Same PROVE n \in Same
  <2>1. n \in 0..N /\ n \in 1..Len(b)
    BY <1>1
  <2>2. StoreOf(b)[n] = Executed(StoreOf(b)[n - 1], b[n])
    BY <2>1, StoreOfDefined
  <2>3. StoreOf(a)[n] = Executed(StoreOf(a)[n - 1], a[n])
    BY StoreOfDefined
  <2> QED
    BY <2>1, <2>2, <2>3, <1>3
<1>4. \A n \in 0..N : n \in Same
  <2> HIDE DEF Same
  <2> QED
    BY <1>1, <1>2, <1>3, InductionUpTo
<1> QED
  BY <1>4

-----------------------------------------------------------------------------
(* The inductive invariant *)

RequestRecord ==
    [pc : {"idle", "change", "applying", "configuration", "join", "removing", "adding"},
     node : Service \cup {"none"}, what : What,
     todo : SUBSET (Pair \cup Service), index : Nat,
     status : {"none", "200", "already", "500", "error"}]
SnapshotRecord == [index : Nat, store : StoreSet]
ConfigSet == UNION {[I -> Addr] : I \in SUBSET Service}

TypeInv ==
    /\ LogType(Entry)
    /\ m \in [Service -> StoreSet]
    /\ applied \in [Service -> Nat]
    /\ taken \in [Service -> SnapshotRecord]
    /\ snap \in [Service -> SnapshotRecord]
    /\ req \in [Caller -> RequestRecord]
    /\ known \in [Service -> ConfigSet]

\* The store of a snapshot is that of the commands that it stands for, and the
\* log of node s, which may be given the snapshot again, holds these.
Sound(s, x) == Agrees(s, x.index) /\ x.store = StoreAfter[x.index]

NodeInv(s) ==
    /\ Agrees(s, applied[s]) /\ m[s] = StoreAfter[applied[s]]
    /\ Sound(s, snap[s])
    /\ Sound(s, taken[s])

Committed(c, p) == \E n \in 1..Len(committed) : committed[n] = Command(c, p)

\* The change waits for its entry, which is in the log while its node leads.
Pending(c, p) ==
    /\ req[c].pc = "applying"
    /\ req[c].node \in leaders =>
          /\ req[c].index \in 1..Len(log[req[c].node])
          /\ log[req[c].node][req[c].index] = Command(c, p)

\* What the handler of a change has done so far.
ChangeInv(c) ==
    req[c].pc \in {"change", "applying"} =>
        /\ req[c].what.kind # "join"
        /\ req[c].todo \subseteq req[c].what.body
        /\ \A p \in req[c].what.body \ req[c].todo : Committed(c, p) \/ Pending(c, p)

Finished(c) ==
    req[c].status = "200" =>
        \A p \in req[c].what.body :
            IF req[c].what.kind = "join" THEN p \in members ELSE Committed(c, p)

\* A join waits for a configuration that the leader has proposed: it is the one
\* the leader uses, and has the node if that is to be added.
Waits(c) ==
    /\ req[c].pc \in {"removing", "adding"}
    /\ req[c].node = current /\ current \in leaders

WaitInv(c) ==
    Waits(c) =>
        /\ known[current] \in proposed
        /\ req[c].pc = "adding" =>
              \A p \in req[c].what.body :
                 p[1] \in DOMAIN known[current] /\ known[current][p[1]] = p[2]

CallerInv(c) ==
    /\ req[c].pc # "idle" => /\ req[c].what \in Request[c] /\ req[c].node \in Service
                             /\ req[c].status = "none"
    /\ req[c].pc \in {"configuration", "join", "removing", "adding"} =>
          req[c].what.kind = "join"
    /\ ChangeInv(c)
    /\ WaitInv(c)
    /\ Finished(c)

IInv ==
    /\ TypeInv
    /\ CurrentHolds
    /\ \A s \in Service : NodeInv(s)
    /\ \A c \in Caller : CallerInv(c)

-----------------------------------------------------------------------------
(* What a step leaves alone stays true *)

LEMMA StoreStays ==
    ASSUME LogType(Entry), LogType(Entry)', CommittedStays
    PROVE  \A n \in 0..Len(committed) : StoreAfter'[n] = StoreAfter[n]
<1>1. StoreAfter = StoreOf(committed) /\ StoreAfter' = StoreOf(committed')
  BY DEF StoreAfter, StoreOf
<1>2. committed \in Seq(Entry) /\ committed' \in Seq(Entry)
  BY DEF LogType
<1> QED
  BY <1>1, <1>2, StoreOfPrefix DEF CommittedStays

\* The recursion, of the committed commands.
LEMMA StoreAfterStep ==
    ASSUME LogType(Entry)
    PROVE  /\ StoreAfter[0] = Empty
           /\ \A n \in 1..Len(committed) :
                StoreAfter[n] = Executed(StoreAfter[n - 1], committed[n])
           /\ \A n \in 0..Len(committed) : StoreAfter[n] \in StoreSet
<1>1. StoreAfter = StoreOf(committed)
  BY DEF StoreAfter, StoreOf
<1>2. committed \in Seq(Entry)
  BY DEF LogType
<1> QED
  BY <1>1, <1>2, StoreOfDefined

LEMMA SoundStays ==
    ASSUME LogType(Entry), LogType(Entry)', CommittedStays, AgreedStays,
           NEW s \in Service, NEW x \in SnapshotRecord, Sound(s, x)
    PROVE  Sound(s, x)'
<1>1. x.index \in Nat /\ Agrees(s, x.index)
  BY DEF SnapshotRecord, Sound
<1>2. x.index \in 0..Len(committed)
  BY <1>1 DEF Agrees, LogType
<1>3. StoreAfter'[x.index] = StoreAfter[x.index]
  BY <1>2, StoreStays
<1>4. Agrees(s, x.index)'
  BY <1>1 DEF AgreedStays
<1> QED
  BY <1>3, <1>4 DEF Sound

LEMMA NodeStays ==
    ASSUME TypeInv, LogType(Entry)', CommittedStays, AgreedStays,
           NEW s \in Service, NodeInv(s),
           applied'[s] = applied[s], m'[s] = m[s],
           snap'[s] = snap[s], taken'[s] = taken[s]
    PROVE  NodeInv(s)'
<1> DEFINE x == [index |-> applied[s], store |-> m[s]]
<1>1. /\ LogType(Entry) /\ x \in SnapshotRecord
      /\ snap[s] \in SnapshotRecord /\ taken[s] \in SnapshotRecord
  BY DEF TypeInv, SnapshotRecord
<1>2. Sound(s, snap[s]) /\ Sound(s, taken[s]) /\ Sound(s, x)
  BY DEF NodeInv, Sound
<1>3. \A y \in SnapshotRecord : Sound(s, y) => Sound(s, y)'
  BY <1>1, SoundStays
<1>4. \A y \in SnapshotRecord :
         Sound(s, y)' <=> Agrees(s, y.index)' /\ y.store = StoreAfter'[y.index]
  BY DEF Sound
<1>5. Sound(s, snap[s])'
  BY <1>1, <1>2, <1>3, <1>4 DEF Sound
<1>6. Sound(s, taken[s])'
  BY <1>1, <1>2, <1>3, <1>4 DEF Sound
<1>7. Agrees(s, applied[s])' /\ m'[s] = StoreAfter'[applied'[s]]
  BY <1>1, <1>2, <1>3, <1>4 DEF Sound
<1> QED
  BY <1>5, <1>6, <1>7 DEF NodeInv

LEMMA NodesStay ==
    ASSUME TypeInv, LogType(Entry)', CommittedStays, AgreedStays,
           \A s \in Service : NodeInv(s), UNCHANGED <<storeVars, snapVars>>
    PROVE  \A s \in Service : NodeInv(s)'
BY NodeStays DEF storeVars, snapVars

\* What a leader has proposed stays proposed, and in use.
ProposalStays == known'[current] = known[current] /\ proposed \subseteq proposed'

\* A caller whose request is not touched, when no node wins the leadership back
\* under a request that waits.
LEMMA CallerStays ==
    ASSUME TypeInv, LogType(Entry)', CommittedStays, LeadersAppend,
           members \subseteq members',
           NEW c \in Caller, CallerInv(c), req'[c] = req[c],
           req[c].pc \in {"applying", "removing", "adding"} =>
              req[c].node \notin leaders' \ leaders,
           current' = current \/ current' \notin leaders,
           Waits(c) => ProposalStays
    PROVE  CallerInv(c)'
<1>1. Len(committed) \in Nat /\ Len(committed') \in Nat
  BY DEF TypeInv, LogType
<1>2. \A p : Command(c, p)' = Command(c, p)
  BY DEF Command
<1>3. \A p : Committed(c, p) => Committed(c, p)'
  BY <1>1, <1>2 DEF Committed, CommittedStays
<1>4. ASSUME req[c].pc = "applying", NEW p, Pending(c, p) PROVE Pending(c, p)'
  <2> SUFFICES ASSUME req[c].node \in leaders'
               PROVE  /\ req[c].index \in 1..Len(log'[req[c].node])
                      /\ log'[req[c].node][req[c].index] = Command(c, p)
    BY <1>2, <1>4 DEF Pending
  <2>1. req[c].node \in leaders /\ req[c].node \in Service
    BY <1>4 DEF CallerInv
  <2>2. /\ req[c].index \in 1..Len(log[req[c].node])
        /\ log[req[c].node][req[c].index] = Command(c, p)
    BY <2>1, <1>4 DEF Pending
  <2>3. Len(log[req[c].node]) \in Nat /\ Len(log'[req[c].node]) \in Nat
    BY <2>1 DEF TypeInv, LogType
  <2> QED
    BY <2>1, <2>2, <2>3 DEF LeadersAppend
<1>5. \A p : Pending(c, p) => Pending(c, p)'
  BY <1>4 DEF Pending
<1>6. ChangeInv(c)'
  BY <1>3, <1>5 DEF ChangeInv, CallerInv
<1>7. Finished(c)'
  BY <1>3 DEF Finished, CallerInv
<1>8. WaitInv(c)'
  <2> SUFFICES ASSUME Waits(c)' PROVE WaitInv(c)'
    BY DEF WaitInv
  <2>1. Waits(c) /\ current' = current
    BY DEF Waits
  <2> QED
    BY <2>1 DEF WaitInv, CallerInv, ProposalStays
<1> QED
  BY <1>6, <1>7, <1>8 DEF CallerInv

-----------------------------------------------------------------------------
(* The handlers *)

\* A step of one handler that appends nothing.
LEMMA HandlerStep ==
    ASSUME IInv, NEW c \in Caller,
           UNCHANGED <<log, committed, current, storeVars, snapVars>>,
           leaders' \subseteq leaders, members \subseteq members',
           req' \in [Caller -> RequestRecord],
           \A d \in Caller \ {c} : req'[d] = req[d],
           known' \in [Service -> ConfigSet],
           \A d \in Caller \ {c} : Waits(d) => ProposalStays, CallerInv(c)'
    PROVE  IInv'
<1>1. TypeInv /\ LogType(Entry)
  BY DEF IInv, TypeInv
<1>2. /\ LogType(Entry)' /\ AgreedStays /\ CommittedStays /\ LeadersAppend
      /\ CurrentHolds'
  BY <1>1, UnchangedKeeps DEF IInv
<1>3. TypeInv'
  BY <1>1, <1>2 DEF TypeInv, storeVars, snapVars
<1>4. \A s \in Service : NodeInv(s)'
  BY <1>1, <1>2, NodesStay DEF IInv
<1>5. ASSUME NEW d \in Caller PROVE CallerInv(d)'
  <2>1. CASE d = c
    BY <2>1
  <2>2. CASE d # c
    BY <2>2, <1>1, <1>2, CallerStays DEF IInv
  <2> QED
    BY <2>1, <2>2
<1> QED
  BY <1>2, <1>3, <1>4, <1>5 DEF IInv

\* One that moves its request on, and leaves the configuration alone.
LEMMA RequestMoves ==
    ASSUME IInv, NEW c \in Caller,
           UNCHANGED <<logVars, storeVars, snapVars, configVars, budget>>,
           NEW r \in RequestRecord, req' = [req EXCEPT ![c] = r],
           CallerInv(c)'
    PROVE  IInv'
<1>1. /\ req' \in [Caller -> RequestRecord]
      /\ \A d \in Caller \ {c} : req'[d] = req[d]
  BY DEF IInv, TypeInv
<1>2. known' \in [Service -> ConfigSet] /\ ProposalStays
  BY DEF IInv, TypeInv, ProposalStays, configVars
<1>3. /\ UNCHANGED <<log, committed, current, storeVars, snapVars>>
      /\ leaders' \subseteq leaders /\ members \subseteq members'
  BY DEF logVars, configVars
<1> QED
  BY <1>1, <1>2, <1>3, HandlerStep

LEMMA ArrivesKeeps ==
    ASSUME IInv, NEW c \in Caller, NEW s \in Service, NEW what \in Request[c],
           Arrives(c, s, what)
    PROVE  IInv'
<1> DEFINE at == IF what.kind = "join" THEN "configuration" ELSE "change"
           r == [NoRequest EXCEPT !.pc = at, !.node = s, !.what = what,
                                  !.todo = what.body]
<1>1. what \in What /\ what.body \subseteq Pair
  BY DEF What, Pair
<1>2. at \in {"configuration", "change"} /\ (at = "configuration" <=> what.kind = "join")
  OBVIOUS
<1>3. req' = [req EXCEPT ![c] = r] /\ req'[c] = r
  BY DEF Arrives, IInv, TypeInv
<1> HIDE DEF at
<1>4. r = [pc |-> at, node |-> s, what |-> what, todo |-> what.body, index |-> 0,
           status |-> "none"]
  <2> DEFINE r1 == [NoRequest EXCEPT !.pc = at]
             r2 == [r1 EXCEPT !.node = s]
             r3 == [r2 EXCEPT !.what = what]
             r4 == [r3 EXCEPT !.todo = what.body]
  <2>1. r = r4
    OBVIOUS
  <2>2. r1 = [pc |-> at, node |-> "none", what |-> Delete("none"), todo |-> {},
              index |-> 0, status |-> "none"]
    BY DEF NoRequest
  <2> HIDE DEF r1
  <2>3. r2 = [pc |-> at, node |-> s, what |-> Delete("none"), todo |-> {},
              index |-> 0, status |-> "none"]
    BY <2>2
  <2> HIDE DEF r2
  <2>4. r3 = [pc |-> at, node |-> s, what |-> what, todo |-> {},
              index |-> 0, status |-> "none"]
    BY <2>3
  <2> HIDE DEF r3
  <2>5. r4 = [pc |-> at, node |-> s, what |-> what, todo |-> what.body,
              index |-> 0, status |-> "none"]
    BY <2>4
  <2> QED
    BY <2>1, <2>5
<1> HIDE DEF r
<1>5. r \in RequestRecord
  BY <1>1, <1>2, <1>4 DEF RequestRecord
<1>6. CallerInv(c)'
  <2>1. ChangeInv(c)'
    BY <1>2, <1>3, <1>4 DEF ChangeInv
  <2>2. Finished(c)'
    BY <1>3, <1>4 DEF Finished
  <2>3. WaitInv(c)'
    BY <1>2, <1>3, <1>4 DEF WaitInv, Waits
  <2> QED
    BY <1>2, <1>3, <1>4, <2>1, <2>2, <2>3 DEF CallerInv
<1> QED
  BY <1>3, <1>5, <1>6, RequestMoves DEF Arrives

\* A handler that gives up, or whose node ends.
LEMMA FailsInv ==
    ASSUME IInv, NEW c \in Caller, NEW status \in {"500", "error"},
           req'[c] = [req[c] EXCEPT !.pc = "idle", !.status = status]
    PROVE  CallerInv(c)'
<1>1. req[c] \in RequestRecord
  BY DEF IInv, TypeInv
<1>2. req'[c].pc = "idle" /\ req'[c].status # "200"
  BY <1>1 DEF RequestRecord
<1> QED
  BY <1>2 DEF CallerInv, ChangeInv, WaitInv, Waits, Finished

LEMMA AnswersMoves ==
    ASSUME IInv, NEW c \in Caller, NEW status \in {"200", "already", "500"},
           Answers(c, status),
           UNCHANGED <<logVars, storeVars, snapVars, configVars, budget>>,
           status = "200" =>
              \A p \in req[c].what.body :
                 IF req[c].what.kind = "join" THEN p \in members ELSE Committed(c, p)
    PROVE  IInv'
<1> DEFINE r == [req[c] EXCEPT !.pc = "idle", !.status = status]
<1>1. req[c] \in RequestRecord /\ req \in [Caller -> RequestRecord]
  BY DEF IInv, TypeInv
<1>2. req' = [req EXCEPT ![c] = r] /\ req'[c] = r
  BY <1>1 DEF Answers
<1>3. /\ r \in RequestRecord /\ r.what = req[c].what /\ r.pc = "idle"
      /\ r.status = status
  BY <1>1 DEF RequestRecord
<1>4. \A p : Committed(c, p) => Committed(c, p)'
  BY <1>2, <1>3 DEF Committed, Command, logVars
<1>5. Finished(c)'
  BY <1>2, <1>3, <1>4 DEF Finished, configVars
<1>6. CallerInv(c)'
  BY <1>2, <1>3, <1>5 DEF CallerInv, ChangeInv, WaitInv, Waits
<1> HIDE DEF r
<1> QED
  BY <1>2, <1>3, <1>6, RequestMoves

LEMMA RefusedKeeps ==
    ASSUME IInv, NEW c \in Caller, Refused(c) \/ ApplyLost(c) \/ JoinFails(c)
    PROVE  IInv'
<1>1. /\ Answers(c, "500")
      /\ UNCHANGED <<logVars, storeVars, snapVars, configVars, budget>>
  BY DEF Refused, ApplyLost, JoinFails
<1> QED
  BY <1>1, AnswersMoves

\* All keys are done: each by a committed command.
LEMMA DoneKeeps ==
    ASSUME IInv, NEW c \in Caller, Done(c)
    PROVE  IInv'
<1>1. /\ req[c].pc = "change" /\ req[c].todo = {} /\ Answers(c, "200")
      /\ UNCHANGED <<logVars, storeVars, snapVars, configVars, budget>>
  BY DEF Done
<1>2. /\ req[c].what.kind # "join"
      /\ \A p \in req[c].what.body : Committed(c, p) \/ Pending(c, p)
  BY <1>1 DEF IInv, CallerInv, ChangeInv
<1>3. \A p \in req[c].what.body : Committed(c, p)
  BY <1>1, <1>2 DEF Pending
<1> QED
  BY <1>1, <1>2, <1>3, AnswersMoves

\* The leader's FSM has applied the entry: it is committed.
LEMMA AppliedKeeps ==
    ASSUME IInv, NEW c \in Caller, Applied(c)
    PROVE  IInv'
<1> DEFINE s == req[c].node
           r == [req[c] EXCEPT !.pc = "change"]
<1>1. /\ req[c].pc = "applying" /\ s \in leaders /\ applied[s] >= req[c].index
      /\ req' = [req EXCEPT ![c].pc = "change"]
      /\ UNCHANGED <<logVars, storeVars, snapVars, configVars, budget>>
  BY DEF Applied
<1>2. /\ req[c] \in RequestRecord /\ req \in [Caller -> RequestRecord]
      /\ LogType(Entry) /\ CallerInv(c)
  BY DEF IInv, TypeInv
<1>3. s \in Service /\ Agrees(s, applied[s]) /\ applied[s] \in Nat
  BY <1>1, <1>2 DEF IInv, TypeInv, CallerInv, NodeInv
<1>4. \A p : Pending(c, p) => Committed(c, p)
  <2> SUFFICES ASSUME NEW p, Pending(c, p) PROVE Committed(c, p)
    OBVIOUS
  <2>1. req[c].index \in 1..Len(log[s]) /\ log[s][req[c].index] = Command(c, p)
    BY <1>1 DEF Pending
  <2>2. /\ applied[s] <= Len(committed)
        /\ \A i \in 1..applied[s] : log[s][i] = committed[i]
    BY <1>2, <1>3, AgreesPointwise
  <2>3. req[c].index \in 1..applied[s] /\ Len(committed) \in Nat /\ Len(log[s]) \in Nat
    BY <2>1, <1>1, <1>2, <1>3 DEF RequestRecord, LogType
  <2>4. req[c].index \in 1..Len(committed)
    BY <2>2, <2>3, <1>3
  <2> QED
    BY <2>1, <2>2, <2>3, <2>4 DEF Committed
<1>5. req' = [req EXCEPT ![c] = r] /\ req'[c] = r
  BY <1>1, <1>2
<1>6. /\ r \in RequestRecord /\ r.pc = "change"
      /\ r.what = req[c].what /\ r.todo = req[c].todo /\ r.status = req[c].status
      /\ r.node = req[c].node
  BY <1>2 DEF RequestRecord
<1> HIDE DEF r
<1>7. \A p : Committed(c, p) => Committed(c, p)'
  BY <1>1, <1>5, <1>6 DEF Committed, Command, logVars
<1>8. ChangeInv(c)'
  BY <1>1, <1>2, <1>4, <1>5, <1>6, <1>7 DEF ChangeInv, CallerInv
<1>9. req[c].status = "none"
  BY <1>1, <1>2 DEF CallerInv
<1>10. CallerInv(c)'
  BY <1>1, <1>2, <1>5, <1>6, <1>8, <1>9 DEF CallerInv, WaitInv, Waits, Finished
<1> QED
  BY <1>1, <1>5, <1>6, <1>10, RequestMoves

\* raft.Apply: the command is in the leader's log, and the handler waits.
LEMMA ChangeKeeps ==
    ASSUME IInv, NEW c \in Caller, Change(c)
    PROVE  IInv'
<1> DEFINE s == req[c].node
<1>1. PICK p \in req[c].todo :
         /\ Appends(s, Command(c, p))
         /\ req' = [req EXCEPT ![c].pc = "applying", ![c].todo = @ \ {p},
                               ![c].index = Len(log[s]) + 1]
  BY DEF Change
<1>2. req[c].pc = "change" /\ UNCHANGED <<storeVars, snapVars, configVars, budget>>
  BY DEF Change
<1>3. /\ TypeInv /\ LogType(Entry) /\ CallerInv(c) /\ CurrentHolds
      /\ req[c] \in RequestRecord /\ req \in [Caller -> RequestRecord]
  BY DEF IInv, TypeInv
<1>4. /\ s \in Service /\ req[c].what \in Request[c] /\ req[c].status = "none"
      /\ req[c].what.kind # "join" /\ p \in req[c].what.body
      /\ \A q \in req[c].what.body \ req[c].todo : Committed(c, q)
  BY <1>2, <1>3 DEF CallerInv, ChangeInv, Pending
<1>5. Command(c, p) \in Entry
  <2>1. p \in Pair
    BY <1>4 DEF Pair, What
  <2>2. p[1] \in Key
    BY <1>4, RequestAssumption DEF JoinOf
  <2> QED
    BY <2>1, <2>2 DEF Command, Entry
<1> DEFINE cmd == Command(c, p)
<1>6. /\ LogType(Entry)' /\ AgreedStays /\ CommittedStays /\ LeadersAppend
      /\ CurrentHolds'
      /\ Len(log'[s]) = Len(log[s]) + 1 /\ log'[s][Len(log[s]) + 1] = cmd
  <2> HIDE DEF cmd, s
  <2> QED
    BY <1>1, <1>3, <1>4, <1>5, AppendsKeeps DEF cmd
<1>7. Len(log[s]) \in Nat
  BY <1>3, <1>4 DEF LogType
<1> DEFINE n == Len(log[s]) + 1
           r1 == [req[c] EXCEPT !.pc = "applying"]
           r2 == [r1 EXCEPT !.todo = req[c].todo \ {p}]
           r == [r2 EXCEPT !.index = n]
<1>8. n \in Nat
  BY <1>7
<1> HIDE DEF n
<1>9. req' = [req EXCEPT ![c] = r] /\ req'[c] = r
  BY <1>1, <1>3 DEF n, RequestRecord
<1>10. r1 \in RequestRecord /\ r1.pc = "applying" /\ r1.todo = req[c].todo
       /\ r1.what = req[c].what /\ r1.status = req[c].status /\ r1.node = s
  BY <1>3 DEF RequestRecord
<1> HIDE DEF r1
<1>11. r2 \in RequestRecord /\ r2.pc = "applying" /\ r2.todo = req[c].todo \ {p}
       /\ r2.what = req[c].what /\ r2.status = req[c].status /\ r2.node = s
  BY <1>10 DEF RequestRecord
<1> HIDE DEF r2
<1>12. r \in RequestRecord /\ r.pc = "applying" /\ r.todo = req[c].todo \ {p}
       /\ r.what = req[c].what /\ r.status = req[c].status /\ r.node = s
       /\ r.index = n
  BY <1>8, <1>11 DEF RequestRecord
<1> HIDE DEF r
<1>13. \A q : Command(c, q)' = Command(c, q)
  BY <1>9, <1>12 DEF Command
<1>14. Len(committed) \in Nat /\ Len(committed') \in Nat
  BY <1>3, <1>6 DEF LogType
<1>15. \A q : Committed(c, q) => Committed(c, q)'
  BY <1>6, <1>13, <1>14 DEF Committed, CommittedStays
<1>16. Pending(c, p)'
  <2>1. n \in 1..Len(log'[s]) /\ log'[s][n] = cmd
    BY <1>6, <1>7 DEF n
  <2> QED
    BY <2>1, <1>9, <1>12, <1>13 DEF Pending
<1>17. ChangeInv(c)'
  <2>1. req[c].todo \subseteq req[c].what.body
    BY <1>2, <1>3 DEF CallerInv, ChangeInv
  <2>2. \A q \in req[c].what.body \ (req[c].todo \ {p}) : q = p \/ Committed(c, q)'
    BY <1>4, <1>15
  <2> QED
    BY <2>1, <2>2, <1>4, <1>9, <1>12, <1>16 DEF ChangeInv
<1>18. CallerInv(c)'
  BY <1>4, <1>9, <1>12, <1>17 DEF CallerInv, WaitInv, Waits, Finished
<1>19. TypeInv'
  <2>1. req' \in [Caller -> RequestRecord]
    BY <1>3, <1>9, <1>12
  <2> QED
    BY <2>1, <1>2, <1>3, <1>6 DEF TypeInv, storeVars, snapVars, configVars
<1>20. \A t \in Service : NodeInv(t)'
  BY <1>2, <1>3, <1>6, NodesStay DEF IInv
<1>21. ASSUME NEW d \in Caller PROVE CallerInv(d)'
  <2>1. CASE d = c
    BY <2>1, <1>18
  <2>2. CASE d # c
    <3>1. req'[d] = req[d] /\ CallerInv(d)
      BY <2>2, <1>3, <1>9 DEF IInv
    <3>2. leaders' = leaders /\ members' = members /\ current' = current
          /\ ProposalStays
      BY <1>1, <1>2 DEF Appends, configVars, ProposalStays
    <3> QED
      BY <3>1, <3>2, <1>3, <1>6, CallerStays
  <2> QED
    BY <2>1, <2>2
<1> QED
  BY <1>6, <1>19, <1>20, <1>21 DEF IInv

\* A request to join names one node and one address.
LEMMA JoiningIs ==
    ASSUME NEW c \in Caller, req[c].what \in Request[c], req[c].what.kind = "join"
    PROVE  \E id \in Service, addr \in Addr :
              /\ Joining(c) = <<id, addr>>
              /\ req[c].what.body = {<<id, addr>>}
<1>1. PICK id \in Service, addr \in Addr : req[c].what = JoinOf(id, addr)
  BY RequestAssumption
<1>2. req[c].what.body = {<<id, addr>>}
  BY <1>1 DEF JoinOf
<1>3. Joining(c) \in {<<id, addr>>}
  BY <1>2 DEF Joining
<1> QED
  BY <1>2, <1>3

LEMMA JoinReadsKeeps ==
    ASSUME IInv, NEW c \in Caller, JoinReads(c)
    PROVE  IInv'
<1>1. /\ req[c].pc = "configuration"
      /\ UNCHANGED <<logVars, storeVars, snapVars, configVars, budget>>
  BY DEF JoinReads
<1>2. /\ req[c] \in RequestRecord /\ req \in [Caller -> RequestRecord]
      /\ CallerInv(c) /\ known \in [Service -> ConfigSet]
  BY DEF IInv, TypeInv
<1>3. /\ req[c].what \in Request[c] /\ req[c].what.kind = "join"
      /\ req[c].node \in Service /\ req[c].status = "none"
  BY <1>1, <1>2 DEF CallerInv
<1>4. CASE Answers(c, "already")
  BY <1>1, <1>4, AnswersMoves
<1>5. CASE req' = [req EXCEPT ![c].pc = "join", ![c].todo = Clashes(c)]
  <2> DEFINE todo == Clashes(c)
             r1 == [req[c] EXCEPT !.pc = "join"]
             r == [r1 EXCEPT !.todo = todo]
  <2>1. todo \in SUBSET (Pair \cup Service)
    <3>1. known[req[c].node] \in ConfigSet
      BY <1>2, <1>3
    <3>2. DOMAIN known[req[c].node] \subseteq Service
      BY <3>1 DEF ConfigSet
    <3> QED
      BY <3>2 DEF Clashes
  <2> HIDE DEF todo
  <2>2. req' = [req EXCEPT ![c] = r] /\ req'[c] = r
    BY <1>2, <1>5 DEF todo, RequestRecord
  <2>3. r1 \in RequestRecord /\ r1.pc = "join" /\ r1.what = req[c].what
        /\ r1.status = req[c].status /\ r1.node = req[c].node
    BY <1>2 DEF RequestRecord
  <2> HIDE DEF r1
  <2>4. r \in RequestRecord /\ r.pc = "join" /\ r.what = req[c].what
        /\ r.status = req[c].status /\ r.node = req[c].node
    BY <2>1, <2>3 DEF RequestRecord
  <2> HIDE DEF r
  <2>5. CallerInv(c)'
    BY <2>2, <2>4, <1>3 DEF CallerInv, ChangeInv, WaitInv, Waits, Finished
  <2> QED
    BY <2>2, <2>4, <2>5, <1>1, RequestMoves
<1> QED
  BY <1>4, <1>5 DEF JoinReads

\* The handler of c proposes a configuration and waits for it.  Nobody else
\* waits for one of that node: the node would have to use it.
LEMMA ProposalKeeps ==
    ASSUME IInv, NEW c \in Caller, req[c].pc = "join",
           NEW servers \in ConfigSet, Proposes(req[c].node, servers),
           NEW at \in {"removing", "adding"},
           NEW todo \in SUBSET (Pair \cup Service),
           req' = [req EXCEPT ![c].pc = at, ![c].todo = todo],
           at = "adding" =>
              \A p \in req[c].what.body : p[1] \in DOMAIN servers /\ servers[p[1]] = p[2]
    PROVE  IInv'
<1> DEFINE s == req[c].node
           r1 == [req[c] EXCEPT !.pc = at]
           r == [r1 EXCEPT !.todo = todo]
<1>1. /\ req[c] \in RequestRecord /\ req \in [Caller -> RequestRecord]
      /\ CallerInv(c) /\ known \in [Service -> ConfigSet]
      /\ \A d \in Caller : CallerInv(d)
  BY DEF IInv, TypeInv
<1>2. /\ req[c].what \in Request[c] /\ req[c].what.kind = "join"
      /\ s \in Service /\ req[c].status = "none"
  BY <1>1 DEF CallerInv
<1>3. /\ s \in leaders /\ known[s] = config /\ config \notin proposed
      /\ known' = [known EXCEPT ![s] = servers]
      /\ proposed' = proposed \cup {servers}
      /\ UNCHANGED <<logVars, storeVars, snapVars, members>>
  BY DEF Proposes
<1>4. req' = [req EXCEPT ![c] = r] /\ req'[c] = r
  BY <1>1 DEF RequestRecord
<1>5. r1 \in RequestRecord /\ r1.pc = at /\ r1.what = req[c].what
      /\ r1.status = req[c].status /\ r1.node = s
  BY <1>1 DEF RequestRecord
<1> HIDE DEF r1
<1>6. r \in RequestRecord /\ r.pc = at /\ r.what = req[c].what
      /\ r.status = req[c].status /\ r.node = s
  BY <1>5 DEF RequestRecord
<1> HIDE DEF r, s
<1>7. /\ known' \in [Service -> ConfigSet] /\ known'[s] = servers
      /\ \A t : t # s => known'[t] = known[t]
  BY <1>1, <1>2, <1>3
<1>8. WaitInv(c)'
  <2> SUFFICES ASSUME Waits(c)' PROVE WaitInv(c)'
    BY DEF WaitInv
  <2>1. current' = s
    BY <1>4, <1>6 DEF Waits
  <2>2. known'[current'] = servers /\ servers \in proposed'
    BY <2>1, <1>3, <1>7
  <2>3. req'[c].pc = at /\ req'[c].what.body = req[c].what.body
    BY <1>4, <1>6
  <2> QED
    BY <2>2, <2>3 DEF WaitInv
<1>9. CallerInv(c)'
  BY <1>2, <1>4, <1>6, <1>8 DEF CallerInv, ChangeInv, Finished
<1>10. ASSUME NEW d \in Caller \ {c}, Waits(d) PROVE ProposalStays
  <2>1. known[current] \in proposed
    BY <1>1, <1>10 DEF CallerInv, WaitInv
  <2>2. current # s
    BY <2>1, <1>3
  <2> QED
    BY <2>2, <1>3, <1>7 DEF ProposalStays
<1>11. /\ req' \in [Caller -> RequestRecord]
       /\ \A d \in Caller \ {c} : req'[d] = req[d]
  BY <1>1, <1>4, <1>6
<1>12. /\ UNCHANGED <<log, committed, current, storeVars, snapVars>>
       /\ leaders' \subseteq leaders /\ members \subseteq members'
  BY <1>3 DEF logVars
<1> QED
  BY <1>7, <1>9, <1>10, <1>11, <1>12, HandlerStep

LEMMA JoinRemovesKeeps ==
    ASSUME IInv, NEW c \in Caller, JoinRemoves(c)
    PROVE  IInv'
<1> DEFINE s == req[c].node
<1>1. PICK i \in req[c].todo :
         /\ Proposes(s, Without(known[s], i))
         /\ req' = [req EXCEPT ![c].pc = "removing", ![c].todo = @ \ {i}]
  BY DEF JoinRemoves
<1>2. req[c].pc = "join"
  BY DEF JoinRemoves
<1>3. /\ req[c] \in RequestRecord /\ req \in [Caller -> RequestRecord]
      /\ CallerInv(c) /\ known \in [Service -> ConfigSet]
  BY DEF IInv, TypeInv
<1>4. s \in Service
  BY <1>2, <1>3 DEF CallerInv
<1>5. Without(known[s], i) \in ConfigSet
  <2>1. PICK I \in SUBSET Service : known[s] \in [I -> Addr]
    <3>1. known[s] \in ConfigSet
      BY <1>3, <1>4
    <3> QED
      BY <3>1 DEF ConfigSet
  <2>2. Without(known[s], i) \in [I \ {i} -> Addr]
    BY <2>1 DEF Without
  <2> QED
    BY <2>2 DEF ConfigSet
<1> DEFINE todo == req[c].todo \ {i}
<1>6. todo \in SUBSET (Pair \cup Service)
  BY <1>3 DEF RequestRecord
<1>7. req' = [req EXCEPT ![c].pc = "removing", ![c].todo = todo]
  BY <1>1, <1>3 DEF RequestRecord
<1> HIDE DEF todo
<1> QED
  BY <1>1, <1>2, <1>5, <1>6, <1>7, ProposalKeeps

LEMMA JoinAddsKeeps ==
    ASSUME IInv, NEW c \in Caller, JoinAdds(c)
    PROVE  IInv'
<1> DEFINE s == req[c].node
           p == Joining(c)
<1>1. /\ req[c].pc = "join" /\ Proposes(s, With(known[s], p))
      /\ req' = [req EXCEPT ![c].pc = "adding"]
  BY DEF JoinAdds
<1>2. /\ req[c] \in RequestRecord /\ req \in [Caller -> RequestRecord]
      /\ CallerInv(c) /\ known \in [Service -> ConfigSet]
  BY DEF IInv, TypeInv
<1>3. req[c].what \in Request[c] /\ req[c].what.kind = "join" /\ s \in Service
  BY <1>1, <1>2 DEF CallerInv
<1>4. PICK id \in Service, addr \in Addr :
         p = <<id, addr>> /\ req[c].what.body = {<<id, addr>>}
  BY <1>3, JoiningIs
<1> HIDE DEF p
<1>5. PICK I \in SUBSET Service : known[s] \in [I -> Addr]
  <2>1. known[s] \in ConfigSet
    BY <1>2, <1>3
  <2> QED
    BY <2>1 DEF ConfigSet
<1>6. With(known[s], p) \in [I \cup {id} -> Addr] /\ With(known[s], p)[id] = addr
  BY <1>4, <1>5 DEF With
<1>7. With(known[s], p) \in ConfigSet
  BY <1>6 DEF ConfigSet
<1>8. \A q \in req[c].what.body :
         q[1] \in DOMAIN With(known[s], p) /\ With(known[s], p)[q[1]] = q[2]
  BY <1>4, <1>6
<1> DEFINE todo == req[c].todo
<1>9. todo \in SUBSET (Pair \cup Service)
  BY <1>2 DEF RequestRecord
<1>10. req' = [req EXCEPT ![c].pc = "adding", ![c].todo = todo]
  BY <1>1, <1>2 DEF RequestRecord
<1> HIDE DEF todo
<1> QED
  BY <1>1, <1>7, <1>8, <1>9, <1>10, ProposalKeeps

\* The call that waits returns: the node that joins is in the configuration.
LEMMA ConfigCommitsKeeps ==
    ASSUME IInv, NEW s \in Service, ConfigCommits(s)
    PROVE  IInv'
<1>1. /\ s = current /\ s \in leaders
      /\ members' = members \cup {<<i, known[s][i]>> : i \in DOMAIN known[s]}
      /\ leaders' \subseteq leaders
      /\ UNCHANGED <<log, committed, current, storeVars, snapVars, known>>
  BY DEF ConfigCommits
<1>2. /\ req' = [c \in Caller |->
              CASE req[c].node = s /\ req[c].pc = "removing" ->
                     [req[c] EXCEPT !.pc = "join"]
                [] req[c].node = s /\ req[c].pc = "adding" ->
                     [req[c] EXCEPT !.pc = "idle", !.status = "200"]
                [] OTHER -> req[c]]
  BY DEF ConfigCommits
<1>3. /\ TypeInv /\ LogType(Entry) /\ CurrentHolds /\ req \in [Caller -> RequestRecord]
  BY DEF IInv, TypeInv
<1>4. /\ LogType(Entry)' /\ AgreedStays /\ CommittedStays /\ LeadersAppend
      /\ CurrentHolds'
  BY <1>1, <1>3, UnchangedKeeps
<1>5. ASSUME NEW c \in Caller PROVE CallerInv(c)' /\ req'[c] \in RequestRecord
  <2>1. req[c] \in RequestRecord /\ CallerInv(c)
    BY <1>3 DEF IInv
  <2>2. CASE req[c].node = s /\ req[c].pc = "removing"
    <3> DEFINE r == [req[c] EXCEPT !.pc = "join"]
    <3>1. req'[c] = r
      BY <1>2, <2>2
    <3>2. r \in RequestRecord /\ r.pc = "join" /\ r.what = req[c].what
          /\ r.status = req[c].status /\ r.node = req[c].node
      BY <2>1 DEF RequestRecord
    <3> HIDE DEF r
    <3> QED
      BY <3>1, <3>2, <2>1, <2>2 DEF CallerInv, ChangeInv, WaitInv, Waits, Finished
  <2>3. CASE req[c].node = s /\ req[c].pc = "adding"
    <3> DEFINE r1 == [req[c] EXCEPT !.pc = "idle"]
               r == [r1 EXCEPT !.status = "200"]
    <3>1. req'[c] = r
      BY <1>2, <2>3
    <3>2. r1 \in RequestRecord /\ r1.pc = "idle" /\ r1.what = req[c].what
      BY <2>1 DEF RequestRecord
    <3> HIDE DEF r1
    <3>3. r \in RequestRecord /\ r.pc = "idle" /\ r.what = req[c].what
      BY <3>2 DEF RequestRecord
    <3> HIDE DEF r
    <3>4. req[c].what \in Request[c] /\ req[c].what.kind = "join"
      BY <2>1, <2>3 DEF CallerInv
    <3>5. PICK id \in Service, addr \in Addr : req[c].what.body = {<<id, addr>>}
      BY <3>4, JoiningIs
    <3>6. id \in DOMAIN known[s] /\ known[s][id] = addr
      BY <3>5, <2>1, <2>3, <1>1 DEF CallerInv, WaitInv, Waits
    <3>7. \A q \in req[c].what.body : q \in members'
      BY <3>5, <3>6, <1>1
    <3>8. Finished(c)'
      BY <3>1, <3>3, <3>4, <3>7 DEF Finished
    <3> QED
      BY <3>1, <3>3, <3>8 DEF CallerInv, ChangeInv, WaitInv, Waits
  <2>4. CASE ~(req[c].node = s /\ req[c].pc \in {"removing", "adding"})
    <3>1. req'[c] = req[c]
      BY <1>2, <2>4
    <3>2. ~Waits(c)
      BY <2>4, <1>1 DEF Waits
    <3> QED
      BY <3>1, <3>2, <2>1, <1>1, <1>3, <1>4, CallerStays
  <2> QED
    BY <2>2, <2>3, <2>4
<1>6. req' \in [Caller -> RequestRecord]
  <2>1. DOMAIN req' = Caller /\ req' = [c \in Caller |-> req'[c]]
    BY <1>2
  <2> QED
    BY <2>1, <1>5
<1>7. TypeInv'
  BY <1>1, <1>3, <1>4, <1>6 DEF TypeInv, storeVars, snapVars
<1>8. \A t \in Service : NodeInv(t)'
  BY <1>1, <1>3, <1>4, NodesStay DEF IInv
<1> QED
  BY <1>4, <1>5, <1>7, <1>8 DEF IInv

LEMMA ConfigReachesKeeps ==
    ASSUME IInv, NEW l \in Service, NEW s \in Service, ConfigReaches(l, s)
    PROVE  IInv'
<1>1. /\ s # current /\ known' = [known EXCEPT ![s] = known[l]]
      /\ UNCHANGED <<logVars, storeVars, snapVars, req, proposed, members>>
  BY DEF ConfigReaches
<1>2. UNCHANGED <<log, committed, current, leaders>>
  BY <1>1 DEF logVars
<1>3. TypeInv /\ LogType(Entry) /\ CurrentHolds /\ known \in [Service -> ConfigSet]
  BY DEF IInv, TypeInv
<1>4. /\ LogType(Entry)' /\ AgreedStays /\ CommittedStays /\ LeadersAppend
      /\ CurrentHolds'
  BY <1>2, <1>3, UnchangedKeeps
<1>5. known' \in [Service -> ConfigSet] /\ ProposalStays
  BY <1>1, <1>3 DEF ProposalStays
<1>6. TypeInv'
  BY <1>1, <1>3, <1>4, <1>5 DEF TypeInv, storeVars, snapVars
<1>7. \A t \in Service : NodeInv(t)'
  BY <1>1, <1>3, <1>4, NodesStay DEF IInv
<1>8. \A c \in Caller : CallerInv(c)'
  BY <1>1, <1>2, <1>3, <1>4, <1>5, CallerStays DEF IInv
<1> QED
  BY <1>4, <1>6, <1>7, <1>8 DEF IInv

-----------------------------------------------------------------------------
(* The log and the FSM *)

LEMMA LogStepKeeps ==
    ASSUME IInv, LogStep
    PROVE  IInv'
<1>1. /\ LogNext /\ UNCHANGED <<storeVars, snapVars, req, configVars>>
      /\ \A s \in leaders' \ leaders, c \in Caller :
            ~(req[c].pc \in {"applying", "removing", "adding"} /\ req[c].node = s)
  BY DEF LogStep
<1>2. TypeInv /\ LogType(Entry) /\ CurrentHolds
  BY DEF IInv, TypeInv
<1>3. /\ LogType(Entry)' /\ AgreedStays /\ CommittedStays /\ LeadersAppend
      /\ CurrentHolds'
  BY <1>1, <1>2, LogNextKeeps
<1>4. TypeInv'
  BY <1>1, <1>2, <1>3 DEF TypeInv, storeVars, snapVars, configVars
<1>5. \A s \in Service : NodeInv(s)'
  BY <1>1, <1>2, <1>3, NodesStay DEF IInv
<1>6. \A c \in Caller : CallerInv(c)'
  <2>1. members \subseteq members' /\ ProposalStays /\ req' = req
    BY <1>1 DEF configVars, ProposalStays
  <2>2. current' = current \/ current' \notin leaders
    BY <1>1 DEF LogNext, Commit, Elect, StepDown, Replicate
  <2> QED
    BY <2>1, <2>2, <1>1, <1>2, <1>3, CallerStays DEF IInv
<1> QED
  BY <1>3, <1>4, <1>5, <1>6 DEF IInv

\* A step of one node's FSM, which leaves the logs and the requests alone.
LEMMA NodeStep ==
    ASSUME IInv, NEW s \in Service,
           UNCHANGED <<logVars, req, configVars>>,
           m' \in [Service -> StoreSet], applied' \in [Service -> Nat],
           taken' \in [Service -> SnapshotRecord],
           snap' \in [Service -> SnapshotRecord],
           \A t \in Service \ {s} :
              /\ m'[t] = m[t] /\ applied'[t] = applied[t]
              /\ taken'[t] = taken[t] /\ snap'[t] = snap[t],
           NodeInv(s)'
    PROVE  IInv'
<1>1. TypeInv /\ LogType(Entry) /\ CurrentHolds
  BY DEF IInv, TypeInv
<1>2. UNCHANGED <<log, committed, current, leaders, members, known>> /\ ProposalStays
  BY DEF logVars, configVars, ProposalStays
<1>3. /\ LogType(Entry)' /\ AgreedStays /\ CommittedStays /\ LeadersAppend
      /\ CurrentHolds'
  BY <1>1, <1>2, UnchangedKeeps
<1>4. TypeInv'
  BY <1>1, <1>2, <1>3 DEF TypeInv
<1>5. ASSUME NEW t \in Service PROVE NodeInv(t)'
  <2>1. CASE t = s
    BY <2>1
  <2>2. CASE t # s
    BY <2>2, <1>1, <1>3, NodeStays DEF IInv
  <2> QED
    BY <2>1, <2>2
<1>6. \A c \in Caller : CallerInv(c)'
  BY <1>1, <1>2, <1>3, CallerStays DEF IInv
<1> QED
  BY <1>3, <1>4, <1>5, <1>6 DEF IInv

\* fsm.Apply: one more command, and the store after it.
LEMMA ApplyKeeps ==
    ASSUME IInv, NEW s \in Service, Apply(s)
    PROVE  IInv'
<1> DEFINE n == applied[s] + 1
<1>1. /\ Agrees(s, n)
      /\ m' = [m EXCEPT ![s] = Executed(@, committed[n])]
      /\ applied' = [applied EXCEPT ![s] = n]
      /\ UNCHANGED <<logVars, snapVars, req, configVars>>
  BY DEF Apply
<1>2. /\ TypeInv /\ LogType(Entry) /\ NodeInv(s) /\ applied[s] \in Nat
      /\ m[s] \in StoreSet /\ Len(committed) \in Nat
  BY DEF IInv, TypeInv, LogType
<1>3. n \in 1..Len(committed) /\ n \in 0..Len(committed) /\ n - 1 = applied[s]
  BY <1>1, <1>2 DEF Agrees
<1>4. StoreAfter[n] = Executed(m[s], committed[n]) /\ StoreAfter[n] \in StoreSet
  BY <1>2, <1>3, StoreAfterStep DEF NodeInv
<1>5. /\ m' \in [Service -> StoreSet] /\ m'[s] = StoreAfter[n]
      /\ applied' \in [Service -> Nat] /\ applied'[s] = n
      /\ \A t \in Service \ {s} : m'[t] = m[t] /\ applied'[t] = applied[t]
  BY <1>1, <1>2, <1>3, <1>4 DEF TypeInv
<1>6. taken' = taken /\ snap' = snap /\ log' = log /\ committed' = committed
  BY <1>1 DEF logVars, snapVars
<1>7. StoreAfter' = StoreAfter
  BY <1>6 DEF StoreAfter
<1>8. NodeInv(s)'
  BY <1>1, <1>2, <1>5, <1>6, <1>7 DEF NodeInv, Sound, Agrees
<1> QED
  BY <1>1, <1>2, <1>5, <1>6, <1>8, NodeStep DEF TypeInv

LEMMA NoSnapshotSound ==
    ASSUME LogType(Entry), NEW s \in Service
    PROVE  NoSnapshot \in SnapshotRecord /\ Sound(s, NoSnapshot)
<1>1. StoreAfter[0] = Empty /\ Empty \in StoreSet
  <2>1. Len(committed) \in Nat
    BY DEF LogType
  <2> QED
    BY <2>1, StoreAfterStep
<1>2. Agrees(s, 0)
  <2>1. 0 <= Len(log[s]) /\ 0 <= Len(committed) /\ \A i \in 1..0 : FALSE
    BY DEF LogType
  <2> QED
    BY <2>1, AgreesPointwise
<1> QED
  BY <1>1, <1>2 DEF NoSnapshot, SnapshotRecord, Sound

\* A snapshot is taken, is written, or is given up.
LEMMA SnapshotKeeps ==
    ASSUME IInv, NEW s \in Service, Snapshot(s) \/ Persist(s) \/ PersistFails(s)
    PROVE  IInv'
<1>1. UNCHANGED <<logVars, storeVars, req, configVars>>
  BY DEF Snapshot, Persist, PersistFails
<1>2. /\ TypeInv /\ LogType(Entry) /\ NodeInv(s)
      /\ m \in [Service -> StoreSet] /\ applied \in [Service -> Nat]
      /\ taken \in [Service -> SnapshotRecord] /\ snap \in [Service -> SnapshotRecord]
  BY DEF IInv, TypeInv
<1>3. m' = m /\ applied' = applied /\ log' = log /\ committed' = committed
  BY <1>1 DEF logVars, storeVars
<1>4. StoreAfter' = StoreAfter
  BY <1>3 DEF StoreAfter
<1> DEFINE x == [index |-> applied[s], store |-> m[s]]
<1>5. x \in SnapshotRecord /\ Sound(s, x)
  BY <1>2 DEF SnapshotRecord, Sound, NodeInv
<1>6. NoSnapshot \in SnapshotRecord /\ Sound(s, NoSnapshot)
  BY <1>2, NoSnapshotSound
<1>7. PICK y \in SnapshotRecord, z \in SnapshotRecord :
         /\ Sound(s, y) /\ taken' = [taken EXCEPT ![s] = y]
         /\ Sound(s, z) /\ snap' = [snap EXCEPT ![s] = z]
  <2>1. CASE Snapshot(s)
    BY <2>1, <1>2, <1>5 DEF Snapshot, NodeInv
  <2>2. CASE Persist(s)
    BY <2>2, <1>2, <1>6 DEF Persist, Persisted, NodeInv
  <2>3. CASE PersistFails(s)
    <3>1. snap' = [snap EXCEPT ![s] = snap[s]] /\ Sound(s, snap[s])
      BY <2>3, <1>2 DEF PersistFails, NodeInv
    <3> QED
      BY <3>1, <2>3, <1>2, <1>6 DEF PersistFails
  <2> QED
    BY <2>1, <2>2, <2>3
<1>8. /\ taken' \in [Service -> SnapshotRecord] /\ snap' \in [Service -> SnapshotRecord]
      /\ taken'[s] = y /\ snap'[s] = z
      /\ \A t \in Service \ {s} : taken'[t] = taken[t] /\ snap'[t] = snap[t]
  BY <1>2, <1>7
<1>9. NodeInv(s)'
  BY <1>2, <1>3, <1>4, <1>7, <1>8 DEF NodeInv, Sound, Agrees
<1> QED
  BY <1>1, <1>2, <1>3, <1>8, <1>9, NodeStep

\* The process ends, and another starts from the snapshot on disk.
LEMMA RestartKeeps ==
    ASSUME IInv, NEW s \in Service, Restart(s)
    PROVE  IInv'
<1>1. /\ Restore(s, snap[s])
      /\ taken' = [taken EXCEPT ![s] = NoSnapshot]
      /\ leaders' = leaders \ {s}
      /\ req' = [c \in Caller |->
              IF req[c].pc # "idle" /\ req[c].node = s
              THEN [req[c] EXCEPT !.pc = "idle", !.status = "error"] ELSE req[c]]
      /\ UNCHANGED <<log, committed, current, snap, configVars>>
  BY DEF Restart
<1>2. /\ TypeInv /\ LogType(Entry) /\ CurrentHolds
      /\ m \in [Service -> StoreSet] /\ applied \in [Service -> Nat]
      /\ taken \in [Service -> SnapshotRecord] /\ snap \in [Service -> SnapshotRecord]
      /\ req \in [Caller -> RequestRecord]
  BY DEF IInv, TypeInv
<1>3. /\ LogType(Entry)' /\ AgreedStays /\ CommittedStays /\ LeadersAppend
      /\ CurrentHolds'
  BY <1>1, <1>2, UnchangedKeeps
<1>4. StoreAfter' = StoreAfter
  BY <1>1 DEF StoreAfter
<1>5. NoSnapshot \in SnapshotRecord /\ Sound(s, NoSnapshot)
  BY <1>2, NoSnapshotSound
<1>6. snap[s].index \in Nat /\ snap[s].store \in StoreSet
  BY <1>2 DEF SnapshotRecord
<1>7. /\ m' \in [Service -> StoreSet] /\ m'[s] = snap[s].store
      /\ applied' \in [Service -> Nat] /\ applied'[s] = snap[s].index
      /\ taken' \in [Service -> SnapshotRecord] /\ taken'[s] = NoSnapshot
      /\ \A t \in Service \ {s} :
            m'[t] = m[t] /\ applied'[t] = applied[t] /\ taken'[t] = taken[t]
  BY <1>1, <1>2, <1>5, <1>6 DEF Restore
<1>8. ASSUME NEW t \in Service PROVE NodeInv(t)'
  <2>1. CASE t = s
    <3>1. Sound(s, snap[s])
      BY DEF IInv, NodeInv
    <3> QED
      BY <2>1, <3>1, <1>1, <1>4, <1>5, <1>7 DEF NodeInv, Sound, Agrees
  <2>2. CASE t # s
    BY <2>2, <1>1, <1>2, <1>3, <1>7, NodeStays DEF IInv
  <2> QED
    BY <2>1, <2>2
<1>9. ASSUME NEW c \in Caller PROVE CallerInv(c)' /\ req'[c] \in RequestRecord
  <2>1. req[c] \in RequestRecord
    BY <1>2
  <2>2. CASE req[c].pc # "idle" /\ req[c].node = s
    <3> DEFINE r1 == [req[c] EXCEPT !.pc = "idle"]
               r == [r1 EXCEPT !.status = "error"]
    <3>1. req'[c] = r
      BY <1>1, <2>2
    <3>2. r1 \in RequestRecord
      BY <2>1 DEF RequestRecord
    <3> HIDE DEF r1
    <3>3. r \in RequestRecord
      BY <3>2 DEF RequestRecord
    <3>4. req'[c] = [req[c] EXCEPT !.pc = "idle", !.status = "error"]
      BY <1>1, <2>2
    <3> QED
      BY <3>1, <3>3, <3>4, FailsInv
  <2>3. CASE ~(req[c].pc # "idle" /\ req[c].node = s)
    <3>1. req'[c] = req[c]
      BY <1>1, <2>3
    <3>2. members \subseteq members' /\ leaders' \ leaders = {} /\ ProposalStays
      BY <1>1 DEF configVars, ProposalStays
    <3> QED
      BY <3>1, <3>2, <2>1, <1>1, <1>2, <1>3, CallerStays DEF IInv
  <2> QED
    BY <2>2, <2>3
<1>10. req' \in [Caller -> RequestRecord]
  <2>1. DOMAIN req' = Caller /\ req' = [c \in Caller |-> req'[c]]
    BY <1>1
  <2> QED
    BY <2>1, <1>9
<1>11. TypeInv'
  BY <1>1, <1>2, <1>3, <1>7, <1>10 DEF TypeInv, configVars
<1> QED
  BY <1>3, <1>8, <1>9, <1>11 DEF IInv

\* A node that lags is given the leader's snapshot, and a log that starts with
\* the entries it stands for.
LEMMA InstallSnapshotKeeps ==
    ASSUME IInv, NEW s \in Service, InstallSnapshot(s)
    PROVE  IInv'
<1> DEFINE x == snap[current]
           i == x.index
           entries == SubSeq(committed, 1, i)
<1>1. /\ current \in leaders /\ s \in Service \ leaders
      /\ Restore(s, x)
      /\ log' = [log EXCEPT ![s] = Merged(log[s], entries)]
      /\ snap' = [snap EXCEPT ![s] = x]
      /\ UNCHANGED <<committed, leaders, current, taken, req, configVars>>
  BY DEF InstallSnapshot
<1>2. /\ TypeInv /\ LogType(Entry) /\ CurrentHolds /\ current \in Service
      /\ m \in [Service -> StoreSet] /\ applied \in [Service -> Nat]
      /\ taken \in [Service -> SnapshotRecord] /\ snap \in [Service -> SnapshotRecord]
  BY DEF IInv, TypeInv, LogType
<1>3. committed \in Seq(Entry) /\ log[s] \in Seq(Entry) /\ Len(committed) \in Nat
  BY <1>2 DEF LogType
<1>4. x \in SnapshotRecord /\ i \in Nat /\ x.store \in StoreSet /\ Sound(current, x)
  BY <1>2 DEF SnapshotRecord, IInv, NodeInv
<1>5. i <= Len(committed) /\ x.store = StoreAfter[i]
  BY <1>4 DEF Sound, Agrees
<1>6. /\ entries \in Seq(Entry) /\ Len(entries) = i
      /\ \A k \in 1..i : entries[k] = committed[k]
  <2> HIDE DEF i
  <2>1. \A k \in 1..i : committed[k] \in Entry
    BY <1>3, <1>4, <1>5
  <2> QED
    BY <2>1, <1>4, SubSeqProperties
<1>7. \A k \in 1..Len(committed) : k <= Len(entries) => entries[k] = committed[k]
  <2> HIDE DEF i, entries
  <2> QED
    BY <1>4, <1>6
<1>8. /\ LogType(Entry)' /\ AgreedStays /\ CommittedStays /\ LeadersAppend
      /\ CurrentHolds'
  <2> HIDE DEF i, entries, x
  <2> QED
    BY <1>1, <1>2, <1>6, <1>7, MergeKeeps
<1>9. StoreAfter' = StoreAfter
  BY <1>1 DEF StoreAfter
<1>10. log'[s] = Merged(log[s], entries)
  BY <1>1, <1>2 DEF LogType
<1>11. /\ i <= Len(log'[s]) /\ \A k \in 1..i : log'[s][k] = committed'[k]
  <2> HIDE DEF i, entries
  <2>1. CASE log'[s] = entries
    BY <2>1, <1>1, <1>4, <1>6
  <2>2. CASE log'[s] # entries
    <3>1. log'[s] = log[s] /\ i <= Len(log[s]) /\ SubSeq(log[s], 1, i) = entries
      BY <2>2, <1>6, <1>10 DEF Merged
    <3>2. SubSeq(log[s], 1, i) = SubSeq(committed, 1, i)
      BY <3>1 DEF entries
    <3>3. \A k \in 1..i : log[s][k] = committed[k]
      BY <3>1, <3>2, <1>3, <1>4, <1>5, PrefixPointwise
    <3> QED
      BY <3>1, <3>3, <1>1
  <2> QED
    BY <2>1, <2>2
<1>12. SubSeq(log'[s], 1, i) = SubSeq(committed', 1, i)
  <2>1. log'[s] \in Seq(Entry) /\ committed' \in Seq(Entry) /\ committed' = committed
    BY <1>1, <1>8 DEF LogType
  <2> HIDE DEF i
  <2> QED
    BY <2>1, <1>4, <1>5, <1>11, PrefixPointwise
<1>13. /\ m' \in [Service -> StoreSet] /\ m'[s] = x.store
       /\ applied' \in [Service -> Nat] /\ applied'[s] = i
       /\ snap' \in [Service -> SnapshotRecord] /\ snap'[s] = x
       /\ \A t \in Service \ {s} :
             m'[t] = m[t] /\ applied'[t] = applied[t] /\ snap'[t] = snap[t]
  BY <1>1, <1>2, <1>4 DEF Restore
<1>14. ASSUME NEW t \in Service PROVE NodeInv(t)'
  <2>1. CASE t = s
    <3>1. Sound(s, taken[s])'
      <4>1. taken[s] \in SnapshotRecord /\ Sound(s, taken[s]) /\ taken'[s] = taken[s]
        BY <1>1, <1>2 DEF IInv, NodeInv
      <4>2. \A y \in SnapshotRecord : Sound(s, y) => Sound(s, y)'
        BY <1>2, <1>8, SoundStays
      <4> QED
        BY <4>1, <4>2 DEF Sound
    <3>2. Sound(s, snap[s])'
      <4> HIDE DEF x
      <4> QED
        BY <1>1, <1>5, <1>9, <1>11, <1>12, <1>13 DEF Sound, Agrees
    <3>3. Agrees(s, applied[s])' /\ m'[s] = StoreAfter'[applied'[s]]
      <4> HIDE DEF x
      <4> QED
        BY <1>1, <1>5, <1>9, <1>11, <1>12, <1>13 DEF Agrees
    <3> QED
      BY <2>1, <3>1, <3>2, <3>3 DEF NodeInv
  <2>2. CASE t # s
    <3>1. /\ applied'[t] = applied[t] /\ m'[t] = m[t] /\ snap'[t] = snap[t]
          /\ taken'[t] = taken[t] /\ NodeInv(t)
      BY <2>2, <1>1, <1>13 DEF IInv
    <3> QED
      BY <3>1, <1>2, <1>8, NodeStays
  <2> QED
    BY <2>1, <2>2
<1>15. \A c \in Caller : CallerInv(c)'
  <2>1. /\ members' = members /\ leaders' = leaders /\ req' = req
        /\ current' = current /\ ProposalStays
    BY <1>1 DEF configVars, ProposalStays
  <2> QED
    BY <2>1, <1>2, <1>8, CallerStays DEF IInv
<1>16. TypeInv'
  BY <1>1, <1>2, <1>8, <1>13 DEF TypeInv, configVars
<1> QED
  BY <1>8, <1>14, <1>15, <1>16 DEF IInv

-----------------------------------------------------------------------------
(* The theorems *)

LEMMA InitInv == Init => IInv
<1> SUFFICES ASSUME Init PROVE IInv
  OBVIOUS
<1>1. /\ log = [s \in Service |-> <<>>] /\ committed = <<>>
      /\ current \in Service
      /\ m = [s \in Service |-> Empty] /\ applied = [s \in Service |-> 0]
      /\ taken = [s \in Service |-> NoSnapshot]
      /\ snap = [s \in Service |-> NoSnapshot]
      /\ known = [s \in Service |-> IF s \in DOMAIN Founders THEN Founders ELSE Empty]
      /\ req = [c \in Caller |-> NoRequest]
  BY DEF Init, Quiet, LogQuiet
<1>2. LogType(Entry)
  BY <1>1, EmptySeq DEF LogType
<1>3. \A s \in Service : NoSnapshot \in SnapshotRecord /\ Sound(s, NoSnapshot)
  BY <1>2, NoSnapshotSound
<1>4. \A s \in Service : NodeInv(s)
  BY <1>1, <1>3 DEF NodeInv, Sound, NoSnapshot
<1>5. Empty \in StoreSet
  <2>1. Empty \in [{} -> {p[2] : p \in Pair}] /\ {} \in SUBSET Key
    BY DEF Empty
  <2> QED
    BY <2>1 DEF StoreSet
<1>6. NoRequest \in RequestRecord
  BY DEF NoRequest, RequestRecord, What
<1>7. TypeInv
  <2>1. Founders \in ConfigSet
    BY FoundersAssumption DEF ConfigSet
  <2>2. Empty \in ConfigSet
    <3>1. Empty \in [{} -> Addr] /\ {} \in SUBSET Service
      BY DEF Empty
    <3> QED
      BY <3>1 DEF ConfigSet
  <2> QED
    BY <2>1, <2>2, <1>1, <1>2, <1>3, <1>5, <1>6 DEF TypeInv
<1>8. CurrentHolds
  <2>1. Len(committed) = 0 /\ Agrees(current, 0)
    BY <1>1, <1>3, EmptySeq DEF Sound, NoSnapshot
  <2> QED
    BY <2>1 DEF CurrentHolds
<1>9. \A c \in Caller : CallerInv(c)
  BY <1>1 DEF CallerInv, ChangeInv, WaitInv, Waits, Finished, NoRequest
<1> QED
  BY <1>4, <1>7, <1>8, <1>9 DEF IInv

LEMMA NextInv == IInv /\ [Next]_vars => IInv'
<1> SUFFICES ASSUME IInv, [Next]_vars PROVE IInv'
  OBVIOUS
<1>1. CASE UNCHANGED vars
  <2>1. /\ UNCHANGED <<log, committed, leaders, current, m, applied, taken, snap>>
        /\ UNCHANGED <<req, known, members>> /\ ProposalStays
    BY <1>1 DEF vars, logVars, storeVars, snapVars, configVars, ProposalStays
  <2>2. /\ TypeInv /\ LogType(Entry) /\ CurrentHolds
        /\ \A s \in Service : NodeInv(s) /\ \A c \in Caller : CallerInv(c)
    BY DEF IInv, TypeInv
  <2>3. /\ LogType(Entry)' /\ AgreedStays /\ CommittedStays /\ LeadersAppend
        /\ CurrentHolds'
    BY <2>1, <2>2, UnchangedKeeps
  <2>4. \A s \in Service : NodeInv(s)'
    BY <2>1, <2>2, <2>3, NodeStays
  <2>5. \A c \in Caller : CallerInv(c)'
    BY <2>1, <2>2, <2>3, CallerStays DEF IInv
  <2>6. TypeInv'
    BY <2>1, <2>2, <2>3 DEF TypeInv
  <2> QED
    BY <2>3, <2>4, <2>5, <2>6 DEF IInv
<1>2. CASE LogStep
  BY <1>2, LogStepKeeps
<1>3. ASSUME NEW c \in Caller, NEW s \in Service, NEW what \in Request[c],
             Arrives(c, s, what)
      PROVE  IInv'
  BY <1>3, ArrivesKeeps
<1>4. ASSUME NEW c \in Caller,
             \/ Change(c) \/ Refused(c) \/ Done(c) \/ Applied(c) \/ ApplyLost(c)
             \/ JoinReads(c) \/ JoinRemoves(c) \/ JoinAdds(c) \/ JoinFails(c)
      PROVE  IInv'
  BY <1>4, ChangeKeeps, RefusedKeeps, DoneKeeps, AppliedKeeps, JoinReadsKeeps,
     JoinRemovesKeeps, JoinAddsKeeps
<1>5. ASSUME NEW s \in Service,
             \/ Apply(s) \/ Snapshot(s) \/ Persist(s) \/ PersistFails(s)
             \/ Restart(s) \/ InstallSnapshot(s) \/ ConfigCommits(s)
      PROVE  IInv'
  BY <1>5, ApplyKeeps, SnapshotKeeps, RestartKeeps, InstallSnapshotKeeps,
     ConfigCommitsKeeps
<1>6. ASSUME NEW l \in Service, NEW s \in Service, ConfigReaches(l, s)
      PROVE  IInv'
  BY <1>6, ConfigReachesKeeps
<1> QED
  BY <1>1, <1>2, <1>3, <1>4, <1>5, <1>6 DEF Next

\* Every node's store, and every snapshot on disk, is the store of a prefix of
\* the committed commands: for any number of nodes, requests, snapshots,
\* restarts and elections (fsm.Apply, fsm.Snapshot, Persist, fsm.Restore).
THEOREM StoreTheorem == Spec => []StoreIsOfLog
<1>1. IInv => StoreIsOfLog
  <2> SUFFICES ASSUME IInv, NEW s \in Service
               PROVE  /\ applied[s] <= Len(committed) /\ m[s] = StoreAfter[applied[s]]
                      /\ snap[s].index <= Len(committed)
                      /\ snap[s].store = StoreAfter[snap[s].index]
    BY DEF StoreIsOfLog
  <2> QED
    BY DEF IInv, NodeInv, Sound, Agrees
<1> QED
  BY <1>1, InitInv, NextInv, PTL DEF Spec

\* What was answered 200 has been done: every key by a committed command, a
\* join that adds the node by a committed configuration, although the
\* leadership may move under a handler that waits (handleKeyRequest, Store.Set,
\* Store.Delete, Store.Join).
THEOREM AnsweredTheorem == Spec => []AnsweredIsDone
<1>1. IInv => AnsweredIsDone
  BY DEF IInv, CallerInv, Finished, Committed, AnsweredIsDone
<1> QED
  BY <1>1, InitInv, NextInv, PTL DEF Spec
=============================================================================
