------------------------------- MODULE HRaftd -------------------------------
(***************************************************************************)
(* hraftd: a store whose changes go through hashicorp/raft (store.go), its *)
(* HTTP service (service.go) and the join of a new node (main.go).         *)
(*                                                                         *)
(* The library is not in the repository.  Its log is ReplicatedLog; of its *)
(* FSM runner the model has that Apply, Snapshot and Restore come one at a *)
(* time, that Persist runs beside later calls of Apply, and that a node    *)
(* that starts, or lags, is given the last snapshot and then the entries   *)
(* after it.  A node uses the last configuration that it has, committed or *)
(* not; a leader proposes a change of it once the one before is committed. *)
(* Nodes keep their log on disk (without -inmem).                          *)
(***************************************************************************)
EXTENDS ReplicatedLog

CONSTANTS
    Addr,         \* Raft addresses
    Key,
    Caller,       \* HTTP clients
    Request,      \* Request[c]: what caller c may ask for
    Founders,     \* the configuration at the start: ID -> address
    MaxSnapshots, \* bound on the snapshots taken
    MaxRestarts   \* bound on the processes that end

ASSUME FoundersAssumption == Founders \in UNION {[I -> Addr] : I \in SUBSET Service}

VARIABLES
    m,        \* m[s]: the store, key -> value
    applied,  \* applied[s]: entries given to the FSM
    taken,    \* taken[s]: a snapshot that has not been persisted yet
    snap,     \* snap[s]: the last one on disk
    req,      \* req[c]: the HTTP request of c, as its handler has it
    config,   \* the configuration committed last: ID -> address
    known,    \* known[s]: the last one that node s has
    proposed, \* those that leaders have proposed since config was committed
    members,  \* history: every <<ID, address>> of a committed configuration
    budget    \* what is left of MaxSnapshots and MaxRestarts

storeVars == <<m, applied>>
snapVars == <<taken, snap>>
configVars == <<config, known, proposed, members>>
vars == <<logVars, storeVars, snapVars, req, configVars, budget>>

Empty == [k \in {} |-> k]
NoSnapshot == [index |-> 0, store |-> Empty]

\* A POST sets every key of its body; a DELETE has one key; a join has an ID
\* and an address.
Post(body) == [kind |-> "post", body |-> {<<k, body[k]>> : k \in DOMAIN body}]
Delete(k) == [kind |-> "delete", body |-> {<<k, "none">>}]
JoinOf(id, addr) == [kind |-> "join", body |-> {<<id, addr>>}]

ASSUME RequestAssumption ==
    \A c \in Caller : \A r \in Request[c] :
        \/ \E id \in Service, addr \in Addr : r = JoinOf(id, addr)
        \/ r.kind \in {"post", "delete"} /\ \A p \in r.body : p[1] \in Key

\* todo: what is left of the body, or the members to be removed.  A join that
\* finds the node in the configuration is answered 200 too: status "already".
NoRequest == [pc |-> "idle", node |-> "none", what |-> Delete("none"),
              todo |-> {}, index |-> 0, status |-> "none"]

Quiet ==
    /\ LogQuiet
    /\ leaders \subseteq DOMAIN Founders
    /\ m = [s \in Service |-> Empty]
    /\ applied = [s \in Service |-> 0]
    /\ taken = [s \in Service |-> NoSnapshot]
    /\ snap = [s \in Service |-> NoSnapshot]
    /\ config = Founders
    /\ known = [s \in Service |-> IF s \in DOMAIN Founders THEN Founders ELSE Empty]
    /\ proposed = {}
    /\ members = {<<i, Founders[i]>> : i \in DOMAIN Founders}

Init ==
    /\ Quiet
    /\ req = [c \in Caller |-> NoRequest]
    /\ elects = MaxElects
    /\ budget = [snapshots |-> MaxSnapshots, restarts |-> MaxRestarts]

-----------------------------------------------------------------------------
(* httpd: the handlers *)

\* A request arrives: handleKeyRequest or handleJoin.
Arrives(c, s, what) ==
    /\ req[c].pc = "idle" /\ req[c].status = "none"
    /\ req' = [req EXCEPT ![c] =
            [NoRequest EXCEPT
                !.pc = IF what.kind = "join" THEN "configuration" ELSE "change",
                !.node = s, !.what = what, !.todo = what.body]]
    /\ UNCHANGED <<logVars, storeVars, snapVars, configVars, budget>>

\* The handler of c answers.
Answers(c, status) ==
    req' = [req EXCEPT ![c].pc = "idle", ![c].status = status]

\* The command of a change: Set or Delete.
Command(c, p) ==
    [op |-> IF req[c].what.kind = "post" THEN "set" ELSE "delete",
     key |-> p[1], value |-> p[2], from |-> c]

\* Set or Delete of the next key, on a node that leads: raft.Apply.
Change(c) ==
    /\ req[c].pc = "change"
    /\ \E p \in req[c].todo :
         /\ Appends(req[c].node, Command(c, p))
         /\ req' = [req EXCEPT ![c].pc = "applying", ![c].todo = @ \ {p},
                               ![c].index = Len(log[req[c].node]) + 1]
    /\ UNCHANGED <<storeVars, snapVars, configVars, budget>>

RefusedSkips(c) ==
    /\ req[c].pc = "change" /\ req[c].todo # {}
    /\ req[c].node \notin leaders
    /\ \E p \in req[c].todo : req' = [req EXCEPT ![c].todo = @ \ {p}]
    /\ UNCHANGED <<logVars, storeVars, snapVars, configVars, budget>>

\* "not leader": the handler gives up; the keys before this one stay set.
Refused(c) ==
    /\ req[c].pc = "change" /\ req[c].todo # {}
    /\ req[c].node \notin leaders
    /\ Answers(c, "500")
    /\ UNCHANGED <<logVars, storeVars, snapVars, configVars, budget>>

\* Every key is done.
Done(c) ==
    /\ req[c].pc = "change" /\ req[c].todo = {}
    /\ Answers(c, "200")
    /\ UNCHANGED <<logVars, storeVars, snapVars, configVars, budget>>

\* f.Error() is nil: the FSM of the leader has applied the entry.
Applied(c) ==
    LET s == req[c].node
    IN  /\ req[c].pc = "applying" /\ s \in leaders
        /\ applied[s] >= req[c].index
        /\ req' = [req EXCEPT ![c].pc = "change"]
        /\ UNCHANGED <<logVars, storeVars, snapVars, configVars, budget>>

\* f.Error() is not: the leadership was lost.  The entry may still be committed.
ApplyLost(c) ==
    /\ req[c].pc = "applying" /\ req[c].node \notin leaders
    /\ Answers(c, "500")
    /\ UNCHANGED <<logVars, storeVars, snapVars, configVars, budget>>

-----------------------------------------------------------------------------
(* Store.Join *)

Joining(c) == CHOOSE p \in req[c].what.body : TRUE

\* The members that have the ID or the address of the joining node, as the
\* node that is asked has them.
Clashes(c) ==
    LET servers == known[req[c].node]
    IN  {i \in DOMAIN servers : i = Joining(c)[1] \/ servers[i] = Joining(c)[2]}

\* GetConfiguration, on any node: the last it has, which may be stale, or not
\* committed yet.  One that has both is the node itself, and nothing is to be
\* done.
JoinReads(c) ==
    LET IsNode(i) == <<i, known[req[c].node][i]>> = Joining(c)
    IN  /\ req[c].pc = "configuration"
        /\ \/ /\ \E i \in Clashes(c) : IsNode(i)
              /\ Answers(c, "already")
           \/ /\ \A i \in Clashes(c) : ~IsNode(i)
              /\ req' = [req EXCEPT ![c].pc = "join", ![c].todo = Clashes(c)]
        /\ UNCHANGED <<logVars, storeVars, snapVars, configVars, budget>>

\* The configurations without member i, and with the node that joins.
Without(servers, i) == [d \in DOMAIN servers \ {i} |-> servers[d]]
With(servers, p) ==
    [i \in DOMAIN servers \cup {p[1]} |-> IF i = p[1] THEN p[2] ELSE servers[i]]

\* Node s, which leads, proposes a configuration and uses it from then on.
Proposes(s, servers) ==
    /\ s \in leaders /\ known[s] = config /\ config \notin proposed
    /\ known' = [known EXCEPT ![s] = servers]
    /\ proposed' = proposed \cup {servers}
    /\ UNCHANGED <<logVars, storeVars, snapVars, config, members, budget>>

\* RemoveServer of the next of them; of an ID that is no longer there, too.
JoinRemoves(c) ==
    LET s == req[c].node
    IN  /\ req[c].pc = "join"
        /\ \E i \in req[c].todo :
             /\ DOMAIN known[s] # {i}
             /\ Proposes(s, Without(known[s], i))
             /\ req' = [req EXCEPT ![c].pc = "removing", ![c].todo = @ \ {i}]

\* AddVoter, which refuses an address that another member has.
JoinAdds(c) ==
    LET s == req[c].node
        p == Joining(c)
    IN  /\ req[c].pc = "join" /\ req[c].todo = {}
        /\ \A i \in DOMAIN known[s] \ {p[1]} : known[s][i] # p[2]
        /\ Proposes(s, With(known[s], p))
        /\ req' = [req EXCEPT ![c].pc = "adding"]

\* Either call returns an error: the node does not lead, or not any more; no
\* voter would be left; the address is another's.  What was proposed may still
\* be committed.
JoinFails(c) ==
    LET s == req[c].node
    IN  /\ \/ req[c].pc \in {"join", "removing", "adding"} /\ s \notin leaders
           \/ req[c].pc = "join" /\ \E i \in req[c].todo : DOMAIN known[s] = {i}
           \/ /\ req[c].pc = "join" /\ req[c].todo = {}
              /\ \E i \in DOMAIN known[s] \ {Joining(c)[1]} :
                    known[s][i] = Joining(c)[2]
        /\ Answers(c, "500")
        /\ UNCHANGED <<logVars, storeVars, snapVars, configVars, budget>>

\* The configuration of the leader is committed: the call that waits for it
\* returns, and a leader that is not in it steps down.
ConfigCommits(s) ==
    /\ s = current /\ s \in leaders /\ known[s] \in proposed
    /\ config' = known[s]
    /\ proposed' = {}
    /\ members' = members \cup {<<i, known[s][i]>> : i \in DOMAIN known[s]}
    /\ leaders' = {l \in leaders : l = s => s \in DOMAIN known[s]}
    /\ req' = [c \in Caller |->
            CASE req[c].node = s /\ req[c].pc = "removing" ->
                   [req[c] EXCEPT !.pc = "join"]
              [] req[c].node = s /\ req[c].pc = "adding" ->
                   [req[c] EXCEPT !.pc = "idle", !.status = "200"]
              [] OTHER -> req[c]]
    /\ UNCHANGED <<log, committed, current, elects, storeVars, snapVars, known, budget>>

\* The configuration of l, which leads or still believes that it does, reaches
\* another node of it.
ConfigReaches(l, s) ==
    /\ l \in leaders /\ s \in DOMAIN known[l] \ leaders /\ s # current
    /\ known[s] # known[l]
    /\ known' = [known EXCEPT ![s] = known[l]]
    /\ UNCHANGED <<logVars, storeVars, snapVars, req, config, proposed, members, budget>>

-----------------------------------------------------------------------------
(* The FSM *)

\* applySet and applyDelete
Executed(f, cmd) ==
    IF cmd.op = "set"
    THEN [k \in DOMAIN f \cup {cmd.key} |-> IF k = cmd.key THEN cmd.value ELSE f[k]]
    ELSE [k \in DOMAIN f \ {cmd.key} |-> f[k]]

\* fsm.Apply, with the next committed entry.
Apply(s) ==
    LET n == applied[s] + 1
    IN  /\ Agrees(s, n)
        /\ m' = [m EXCEPT ![s] = Executed(@, committed[n])]
        /\ applied' = [applied EXCEPT ![s] = n]
        /\ UNCHANGED <<logVars, snapVars, req, configVars, budget>>

\* fsm.Snapshot clones the map.
Snapshot(s) ==
    /\ budget.snapshots > 0 /\ taken[s] = NoSnapshot /\ applied[s] > snap[s].index
    /\ budget' = [budget EXCEPT !.snapshots = @ - 1]
    /\ taken' = [taken EXCEPT ![s] = [index |-> applied[s], store |-> m[s]]]
    /\ UNCHANGED <<logVars, storeVars, snap, req, configVars>>

Stored(s) == [taken[s] EXCEPT !.store = m[s]]

\* What Persist writes is what Snapshot cloned.
Persisted(s) == taken[s]

\* Persist writes it and closes the sink.
Persist(s) ==
    /\ taken[s] # NoSnapshot
    /\ snap' = [snap EXCEPT ![s] = Persisted(s)]
    /\ taken' = [taken EXCEPT ![s] = NoSnapshot]
    /\ UNCHANGED <<logVars, storeVars, req, configVars, budget>>

\* A write fails: the sink is cancelled.
PersistFails(s) ==
    /\ taken[s] # NoSnapshot
    /\ taken' = [taken EXCEPT ![s] = NoSnapshot]
    /\ UNCHANGED <<logVars, storeVars, snap, req, configVars, budget>>

\* fsm.Restore
Restore(s, snapshot) ==
    /\ m' = [m EXCEPT ![s] = snapshot.store]
    /\ applied' = [applied EXCEPT ![s] = snapshot.index]

\* The process ends, and another is started in the same directory: New, Open.
Restart(s) ==
    /\ budget.restarts > 0
    /\ budget' = [budget EXCEPT !.restarts = @ - 1]
    /\ Restore(s, snap[s])
    /\ taken' = [taken EXCEPT ![s] = NoSnapshot]
    /\ leaders' = leaders \ {s}
    /\ req' = [c \in Caller |->
            IF req[c].pc # "idle" /\ req[c].node = s
            THEN [req[c] EXCEPT !.pc = "idle", !.status = "error"] ELSE req[c]]
    /\ UNCHANGED <<log, committed, current, elects, snap, configVars>>

\* The leader sends its snapshot to a node that lags.
InstallSnapshot(s) ==
    LET i == snap[current].index
    IN  /\ current \in leaders /\ s \in DOMAIN known[current] \ leaders
        /\ i > applied[s]
        /\ Restore(s, snap[current])
        /\ log' = [log EXCEPT ![s] = Merged(@, SubSeq(committed, 1, i))]
        /\ snap' = [snap EXCEPT ![s] = snap[current]]
        /\ UNCHANGED <<committed, leaders, current, elects, taken, req, configVars,
                       budget>>

-----------------------------------------------------------------------------
(* Specification *)

\* The log moves on among the members.  One that is elected is in its own
\* configuration, and has all that is committed.  The futures of a node that
\* has lost the leadership fail before it leads again.
LogStep ==
    /\ LogNext
    /\ \A s \in leaders' \ leaders :
          s \in DOMAIN known[s] /\ known[s] \in {config} \cup proposed
    /\ \A s \in Service :
          (\A l \in leaders : s \notin DOMAIN known[l]) => log'[s] = log[s]
    /\ \A s \in leaders' \ leaders, c \in Caller :
          ~(req[c].pc \in {"applying", "removing", "adding"} /\ req[c].node = s)
    /\ UNCHANGED <<storeVars, snapVars, req, configVars, budget>>

Next ==
    \/ LogStep
    \/ \E c \in Caller, s \in Service : \E what \in Request[c] : Arrives(c, s, what)
    \/ \E c \in Caller :
          \/ Change(c) \/ Refused(c) \/ Done(c) \/ Applied(c) \/ ApplyLost(c)
          \/ JoinReads(c) \/ JoinRemoves(c) \/ JoinAdds(c) \/ JoinFails(c)
    \/ \E s \in Service :
          \/ Apply(s) \/ Snapshot(s) \/ Persist(s) \/ PersistFails(s)
          \/ Restart(s) \/ InstallSnapshot(s) \/ ConfigCommits(s)
    \/ \E l, s \in Service : ConfigReaches(l, s)

Spec == Init /\ [][Next]_vars

-----------------------------------------------------------------------------
(* Properties *)

\* The store after the first n committed commands.
StoreAfter ==
    LET f[n \in 0..Len(committed)] ==
          IF n = 0 THEN Empty ELSE Executed(f[n - 1], committed[n])
    IN  f

\* Every node's store is that of the committed commands it has applied, and so
\* is every snapshot on disk, however Persist interleaves with Apply and
\* whenever processes end.
StoreIsOfLog ==
    \A s \in Service :
        /\ applied[s] <= Len(committed) /\ m[s] = StoreAfter[applied[s]]
        /\ snap[s].index <= Len(committed)
        /\ snap[s].store = StoreAfter[snap[s].index]

\* A request that was answered 200 has been done: every key of the body is set
\* (or deleted) by a committed command, the joining node was in a committed
\* configuration; whether or not the leadership was lost in the middle.  Not so
\* a join that is answered because the node is there "already": GetConfiguration
\* may give a configuration that is never committed (store.go:193-210).
AnsweredIsDone ==
    \A c \in Caller :
        req[c].status = "200" =>
            \A p \in req[c].what.body :
                IF req[c].what.kind = "join" THEN p \in members
                ELSE \E n \in 1..Len(committed) : committed[n] = Command(c, p)
=============================================================================
