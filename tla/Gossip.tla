------------------------------- MODULE Gossip -------------------------------
(***************************************************************************)
(* The gossip network (gossip/gossip.go, routes.go): nodes that keep a map *)
(* of peers, forward a broadcast to them, and connect to each of them      *)
(* every five seconds.                                                     *)
(*                                                                         *)
(* A node holds PeersLock while it forwards a broadcast, and a call has no *)
(* timeout.  The map of peers is by ID.  Connect answers with addresses    *)
(* only, and StartGossipLoop sends its own without the ID: every peer that *)
(* is learnt from either is kept under the same ID, 0 (NoId).              *)
(*                                                                         *)
(* The node a newcomer joins through is not in the repository: JoinGossip  *)
(* needs an answer that says who the peer is, which Connect never gives.   *)
(* Init is what such a node may have told the nodes, IDs included.         *)
(***************************************************************************)
EXTENDS Naturals, FiniteSets

CONSTANTS
    Node,
    Loopers,        \* the nodes whose process starts the gossip loop
    NoId,           \* the ID 0
    BroadcastCount, \* BROADCAST_COUNT of each node (JoinGossip sets it to 10)
    MaxBroadcasts,  \* bound on the BroadcastMessage calls of clients
    MaxForwards,    \* bound on those of nodes
    MaxAnswers,     \* bound on the answers to Connect a node works on at once
    MaxEnds         \* bound on the processes that end

ASSUME NodeAssumption ==
    IsFiniteSet(Node) /\ NoId \notin Node /\ Loopers \subseteq Node
ASSUME CountAssumption == BroadcastCount \in [Node -> Nat \ {0}]

VARIABLES
    up,        \* up[i]: the process of node i runs
    closing,   \* nodes whose server is shutting down, or has
    peers,     \* peers[i]: ID -> node
    holder,    \* holder[i]: the call that holds PeersLock of i, 0 if none
    call,      \* call[c]: a BroadcastMessage call
    looping,   \* the nodes whose gossip loop has been started
    dialing,   \* dialing[i]: goroutines of the gossip loop that call Connect
    learning,  \* learning[i]: those with an answer, by what is left of it
    received   \* which node has received which client's message

processVars == <<up, closing>>
callVars == <<holder, call, received>>
loopVars == <<dialing, learning>>
vars == <<processVars, callVars, peers, loopVars, looping>>

\* The first calls are those of clients.
Client == 1..MaxBroadcasts
Calls == 1..(MaxBroadcasts + MaxForwards)

\* by: the call that forwards the message here, 0 for a client.  root: the call
\* of the client whose message it is.
NoCall == [pc |-> "free", node |-> NoId, by |-> 0, root |-> 0, todo |-> {}]

\* Node i accepts requests.
Open(i) == up[i] /\ i \notin closing

\* The entries of a map of peers.
Entries(m) == {<<id, m[id]>> : id \in DOMAIN m}

\* The nodes in a map of peers.
Values(m) == {m[id] : id \in DOMAIN m}

\* m with id standing for node j, and without id.
With(m, id, j) == [d \in DOMAIN m \cup {id} |-> IF d = id THEN j ELSE m[d]]
Without(m, id) == [d \in DOMAIN m \ {id} |-> m[d]]

\* The nodes have joined: each knows some others, under their IDs.
Quiet ==
    /\ up = [i \in Node |-> TRUE]
    /\ closing = {}
    /\ \E known \in [Node -> SUBSET Node] :
         /\ \A i \in Node : i \notin known[i]
         /\ peers = [i \in Node |-> [j \in known[i] |-> j]]
    /\ holder = [i \in Node |-> 0]
    /\ dialing = [i \in Node |-> {}]
    /\ learning = [i \in Node |-> {}]
    /\ received = {}

Init ==
    /\ Quiet
    /\ looping \in SUBSET Loopers
    /\ call = [c \in Calls |-> NoCall]

-----------------------------------------------------------------------------
(* BroadcastMessage *)

\* A call to node j, of the message of root: its handler starts, if the node
\* accepts it.
Called(j, by, root) ==
    [NoCall EXCEPT !.pc = IF Open(j) THEN "lock" ELSE "refused",
                   !.node = j, !.by = by, !.root = root]

\* The next unused call among cs.
Fresh(cs, c) ==
    call[c].pc = "free" /\ \A d \in cs : call[d].pc = "free" => d >= c

\* A client sends a message, whatever others are under way.
Broadcast(i, c) ==
    /\ Open(i) /\ Fresh(Client, c)
    /\ call' = [call EXCEPT ![c] = Called(i, 0, c)]
    /\ UNCHANGED <<processVars, holder, received, peers, loopVars, looping>>

TakeLockLess(c) ==
    LET i == call[c].node
    IN  /\ call[c].pc = "lock" /\ up[i] /\ holder[i] = 0
        /\ received' = received \cup {<<call[c].root, i>>}
        /\ holder' = [holder EXCEPT ![i] = c]
        /\ \E id \in DOMAIN peers[i] \cup {NoId} :
             call' = [call EXCEPT ![c].pc = "send", ![c].todo =
                        Entries(Without(peers[i], id))]
        /\ UNCHANGED <<processVars, peers, loopVars, looping>>

\* The handler takes the lock and chooses the peers.
TakeLock(c) ==
    LET i == call[c].node
        n == IF BroadcastCount[i] < Cardinality(DOMAIN peers[i])
             THEN BroadcastCount[i] ELSE Cardinality(DOMAIN peers[i])
    IN  /\ call[c].pc = "lock" /\ up[i] /\ holder[i] = 0
        /\ received' = received \cup {<<call[c].root, i>>}
        /\ holder' = [holder EXCEPT ![i] = c]
        /\ \E ids \in {s \in SUBSET DOMAIN peers[i] : Cardinality(s) = n} :
             call' = [call EXCEPT ![c].pc = "send",
                                  ![c].todo = {<<id, peers[i][id]>> : id \in ids}]
        /\ UNCHANGED <<processVars, peers, loopVars, looping>>

\* It calls the next of them, and waits.
Forward(c, d) ==
    /\ call[c].pc = "send" /\ up[call[c].node] /\ Fresh(Calls \ Client, d)
    /\ \E t \in call[c].todo :
         call' = [call EXCEPT ![c].pc = "wait", ![c].todo = @ \ {t},
                              ![d] = Called(t[2], c, call[c].root)]
    /\ UNCHANGED <<processVars, holder, received, peers, loopVars, looping>>

\* The call that by waits for has ended, one way or another.
Ended(cs, c) ==
    IF cs[c].by # 0 /\ cs[cs[c].by].pc = "wait"
    THEN [cs EXCEPT ![c].pc = "ended", ![cs[c].by].pc = "send"]
    ELSE [cs EXCEPT ![c].pc = "ended"]

ReplyHolding(c) ==
    /\ call[c].pc = "send" /\ up[call[c].node] /\ call[c].todo = {}
    /\ call' = Ended(call, c)
    /\ UNCHANGED <<processVars, holder, received, peers, loopVars, looping>>

\* It has called them all: it releases the lock and answers.
Reply(c) ==
    /\ call[c].pc = "send" /\ up[call[c].node] /\ call[c].todo = {}
    /\ holder' = [holder EXCEPT ![call[c].node] = 0]
    /\ call' = Ended(call, c)
    /\ UNCHANGED <<processVars, received, peers, loopVars, looping>>

\* The call is refused, or the process it runs in is not there any more.
Fails(c) ==
    /\ \/ call[c].pc = "refused"
       \/ call[c].pc \in {"lock", "send", "wait"} /\ ~up[call[c].node]
    /\ call' = Ended(call, c)
    /\ UNCHANGED <<processVars, holder, received, peers, loopVars, looping>>

-----------------------------------------------------------------------------
(* StartGossipLoop and Connect *)

\* A tick: once it has had the lock, the loop starts a goroutine for each peer.
\* (Goroutines of two rounds that call the same peer are one here.)
Tick(i) ==
    /\ i \in looping /\ up[i] /\ holder[i] = 0
    /\ dialing' = [dialing EXCEPT ![i] = @ \cup Entries(peers[i])]
    /\ UNCHANGED <<processVars, callVars, peers, learning, looping>>

\* Connect of peer j, under its lock: it answers with the nodes it knows and
\* makes the caller one of them, whose request has no ID.  (No node is a
\* bootstrap node, which would not: JoinGossip makes an ID of the Unix time,
\* far below bit 63.)  While its server shuts down, a request that came before
\* is still served.
Connect(i, g) ==
    LET j == g[2]
    IN  /\ up[i] /\ up[j] /\ g \in dialing[i] /\ holder[j] = 0
        /\ dialing' = [dialing EXCEPT ![i] = @ \ {g}]
        /\ Cardinality(learning[i]) < MaxAnswers
        /\ learning' = [learning EXCEPT
                ![i] = @ \cup ({Values(peers[j])} \ {{}})]
        /\ peers' = [peers EXCEPT ![j] = With(@, NoId, i)]
        /\ UNCHANGED <<processVars, callVars, looping>>

ForgetFirst(i, g) ==
    /\ up[i] /\ g \in dialing[i] /\ ~Open(g[2])
    /\ dialing' = [dialing EXCEPT ![i] = @ \ {g}]
    /\ peers' = [peers EXCEPT ![i] = Without(@, NoId)]
    /\ UNCHANGED <<processVars, callVars, learning, looping>>

\* The peer does not accept the call, or ends before it has answered: the
\* goroutine deletes the peer's ID, without the lock, whoever is kept under it
\* by now.
Forget(i, g) ==
    /\ up[i] /\ g \in dialing[i] /\ ~Open(g[2])
    /\ dialing' = [dialing EXCEPT ![i] = @ \ {g}]
    /\ peers' = [peers EXCEPT ![i] = Without(@, g[1])]
    /\ UNCHANGED <<processVars, callVars, learning, looping>>

\* The goroutine with the answer rest keeps the next peer of it, without the
\* lock and, as the answer has no IDs, in place of the one before.
Learn(i, rest) ==
    /\ up[i] /\ rest \in learning[i]
    /\ \E j \in rest :
         /\ peers' = [peers EXCEPT ![i] = With(@, NoId, j)]
         /\ learning' = [learning EXCEPT
                ![i] = (@ \ {rest}) \cup ({rest \ {j}} \ {{}})]
    /\ UNCHANGED <<processVars, callVars, dialing, looping>>

-----------------------------------------------------------------------------
(* The process *)

FewEnd == Cardinality({j \in Node : ~Open(j)}) < MaxEnds

\* A signal: server.Shutdown accepts no more requests.
Shutdown(i) ==
    /\ Open(i) /\ FewEnd
    /\ closing' = closing \cup {i}
    /\ UNCHANGED <<up, callVars, peers, loopVars, looping>>

\* No handler runs any more: Shutdown returns and the process ends.
Terminate(i) ==
    /\ up[i] /\ i \in closing
    /\ \A c \in Calls : call[c].node = i => call[c].pc \in {"refused", "ended"}
    /\ up' = [up EXCEPT ![i] = FALSE]
    /\ UNCHANGED <<closing, callVars, peers, loopVars, looping>>

\* The process ends at once: two of its goroutines touch the map at the same
\* time without a lock and the runtime notices, or it is killed.
Crash(i) ==
    /\ Open(i) /\ FewEnd
    /\ up' = [up EXCEPT ![i] = FALSE]
    /\ UNCHANGED <<closing, callVars, peers, loopVars, looping>>

-----------------------------------------------------------------------------
(* Specification *)

CallStep(c) ==
    \/ TakeLock(c) \/ Reply(c) \/ Fails(c)
    \/ \E d \in Calls \ Client : Forward(c, d)

LoopStep(i) ==
    \/ \E g \in dialing[i] : Connect(i, g) \/ Forget(i, g)
    \/ \E rest \in learning[i] : Learn(i, rest)

Next ==
    \/ \E i \in Node, c \in Client : Broadcast(i, c)
    \/ \E i \in Node :
          Tick(i) \/ LoopStep(i) \/ Shutdown(i) \/ Terminate(i) \/ Crash(i)
    \/ \E c \in Calls : CallStep(c)

\* Handlers run and get the lock in the end (a mutex of Go starves nobody), the
\* ticker ticks, and a call to a process that has ended fails.
Fairness ==
    /\ \A c \in Calls : SF_vars(CallStep(c))
    /\ \A i \in Loopers : WF_vars(Tick(i))
    /\ \A i \in Loopers, j \in Node : \A id \in {j, NoId} :
          WF_vars(Forget(i, <<id, j>>))

Spec == Init /\ [][Next]_vars /\ Fairness

-----------------------------------------------------------------------------
(* Properties *)

\* Call c waits for call d: the one that its handler has made, or the one whose
\* handler has the lock that it needs.
WaitsFor(c, d) ==
    /\ up[call[c].node]
    /\ \/ call[c].pc = "wait" /\ call[d].by = c /\ call[d].pc # "ended"
       \/ call[c].pc = "lock" /\ holder[call[c].node] = d

\* Handlers wait for each other in a circle.
Deadlocked ==
    \E cs \in SUBSET {c \in Calls : call[c].pc \in {"wait", "lock"}} :
        cs # {} /\ \A c \in cs : \E d \in cs : WaitsFor(c, d)

\* A broadcast ends, though no call has a timeout and processes end in the
\* middle of it, unless handlers of this broadcast or of others wait for each
\* other in a circle; nothing else can stop it.
\* (Nothing is said of broadcasts that need more than MaxForwards calls.)
BroadcastEnds ==
    \A r \in Client :
        call[r].pc # "free"
            ~> \/ call[r].pc = "ended" \/ Deadlocked
               \/ /\ \A c \in Calls \ Client : call[c].pc # "free"
                  /\ \E c \in Calls : call[c].pc = "send" /\ call[c].todo # {}

\* While every process runs, a broadcast that has come back has reached every
\* peer, known by its ID, of every node it reached that has no more peers than
\* BROADCAST_COUNT, whatever other broadcasts and the loop do.
BroadcastReaches ==
    \A r \in Client :
        call[r].pc = "ended" /\ (\A i \in Node : Open(i)) =>
            \A i \in Node :
                /\ <<r, i>> \in received
                /\ Cardinality(DOMAIN peers[i]) <= BroadcastCount[i]
                => \A j \in Node \cap DOMAIN peers[i] : <<r, j>> \in received

\* A peer that ends is taken off, unless a broadcast keeps the node's lock for
\* ever.  What is kept under its own ID goes for good.  Its address may come
\* back under the ID 0 for ever, with the answers of peers that have not
\* noticed; but the loop takes it off each time.
SilentForgotten ==
    \A i \in Loopers, j \in Node :
        []<>(i \in looping /\ up[i] /\ holder[i] = 0) =>
            /\ ~up[j] ~> [](j \notin DOMAIN peers[i])
            /\ <>(~up[j]) => []<>(j \notin Values(peers[i]))
=============================================================================
