----------------------------- MODULE KVService -----------------------------
(***************************************************************************)
(* The replicated KV service of raft/part5kv: clients (kvclient) that send *)
(* their requests from service to service until one answers, the handlers  *)
(* of the services (kvservice), which submit a command to the replicated   *)
(* log and wait for what is committed at its index, and the updater of     *)
(* each service, which applies the committed commands to its data store    *)
(* and detects duplicates.                                                 *)
(*                                                                         *)
(* The services are numbered from 0 as in the code.  A request is made by  *)
(* a caller, a goroutine that uses a KVClient.  A handler is a goroutine   *)
(* of a service that serves one attempt at a request; submitting and       *)
(* subscribing are two steps of it, between which anything may happen.     *)
(* The four handlers (put, append, get, CAS) differ in the command alone.  *)
(***************************************************************************)
EXTENDS ReplicatedLog

CONSTANTS
    Caller,       \* the goroutines that make requests
    ClientOf,     \* ClientOf[c]: the KVClient that caller c uses
    Piece,        \* what values are put together from
    Op,           \* Op[c]: what caller c may ask for, records [kind, value, compare]
    MaxRequests,  \* bound on the requests of a client
    MaxAttempts,  \* MaxAttempts[c]: bound on the attempts of caller c
    MaxRestarts   \* bound on the number of restarted services

ASSUME ServiceAssumption ==
    /\ IsFiniteSet(Service) /\ Service # {}
    /\ Service = 0..(Cardinality(Service) - 1)
ASSUME ClientAssumption == DOMAIN ClientOf = Caller
ASSUME OpAssumption ==
    \A c \in Caller :
        Op[c] \subseteq [kind : {"get", "put", "append", "cas"},
                        value : Seq(Piece), compare : Seq(Piece)]

VARIABLES
    \* clients
    requestID,      \* of each client: the last one given out
    assumedLeader,  \* of each client
    call,           \* of each caller: the request it is making
    outcome,        \* of each caller: what its last request returned
    \* services
    handler,        \* handler[s][c]: s's handler of the attempt of caller c
    commitSubs,     \* commitSubs[s]: attempts subscribed to, by log index
    data,           \* ds.data, for one key: absent or its value
    lastRequestID,  \* lastRequestIDPerClient
    applied,        \* entries received from commitChan
    ran,            \* history: the requests the updater has executed
    restarts        \* restarts left

clientVars == <<requestID, assumedLeader, call, outcome>>
storeVars == <<data, lastRequestID, applied, ran>>
vars == <<logVars, clientVars, handler, commitSubs, storeVars, restarts>>

Client == {ClientOf[c] : c \in Caller}
Index == 1..MaxLog
NumServices == Cardinality(Service)

\* A value is the sequence of what was appended; a key that is not in the
\* store reads as the empty one.
Absent == [found |-> FALSE, value |-> <<>>]
Present(v) == [found |-> TRUE, value |-> v]

NoOp == [kind |-> "get", value |-> <<>>, compare |-> <<>>]
NoCall == [pc |-> "idle", request |-> 0, attempt |-> 0, target |-> 0,
           op |-> NoOp]
NoOutcome == [status |-> "none", request |-> 0, alone |-> FALSE, result |-> Absent]
NoCommand == [kind |-> "invalid", serviceID |-> 0, duplicate |-> FALSE,
              result |-> Absent]
\* alone: no other request of the service was at the index (see Alone).
NoHandler == [pc |-> "idle", attempt |-> 0, request |-> 0, cancelled |-> FALSE,
              op |-> NoOp, index |-> 0, alone |-> FALSE, chan |-> NoCommand]
NoSub == [caller |-> 0, attempt |-> 0]

Quiet ==
    /\ LogQuiet
    /\ requestID = [k \in Client |-> 0]
    /\ assumedLeader = [k \in Client |-> 0]
    /\ call = [c \in Caller |-> NoCall]
    /\ outcome = [c \in Caller |-> NoOutcome]
    /\ handler = [s \in Service |-> [c \in Caller |-> NoHandler]]
    /\ commitSubs = [s \in Service |-> [n \in Index |-> NoSub]]
    /\ data = [s \in Service |-> Absent]
    /\ lastRequestID = [s \in Service |-> [k \in Client |-> 0]]
    /\ applied = [s \in Service |-> 0]
    /\ ran = [s \in Service |-> <<>>]

Init == Quiet /\ elects = MaxElects /\ restarts = MaxRestarts

-----------------------------------------------------------------------------
(* Clients *)

\* The handler of an attempt that has just arrived at a service.
Arrived(request, attempt, op) ==
    [NoHandler EXCEPT !.pc = "received", !.request = request,
                      !.attempt = attempt, !.op = op]

\* send, with request `request`: attempt n goes to service s.  An attempt that
\* is lost is one whose handler never takes a step, until the next replaces it.
\* (The last one that did is done when the client's round is back at s.)
Sends(c, s, request, n, op, h) ==
    /\ call' = [call EXCEPT ![c] = [pc |-> "waiting", request |-> request,
                                    attempt |-> n, target |-> s, op |-> op]]
    /\ h[s][c].pc \in {"idle", "received"}
    /\ handler' = [h EXCEPT ![s][c] = Arrived(request, n, op)]

\* Put, Append, Get or CAS: a new request ID, sent to the assumed leader.
Request(c, op) ==
    LET k == ClientOf[c]
    IN  /\ call[c].pc = "idle"
        /\ requestID[k] < MaxRequests
        /\ requestID' = [requestID EXCEPT ![k] = @ + 1]
        /\ Sends(c, assumedLeader[k], requestID[k] + 1, call[c].attempt + 1, op,
                 handler)
        /\ UNCHANGED <<logVars, assumedLeader, outcome, commitSubs, storeVars,
                       restarts>>

\* The handler of an attempt whose client has hung up.
HungUp(c) ==
    [handler EXCEPT ![call[c].target][c] =
        IF @.pc # "idle" /\ @.attempt = call[c].attempt
        THEN [@ EXCEPT !.cancelled = TRUE] ELSE @]

\* The attempt has timed out: on to the next address.
Retry(c) ==
    LET k == ClientOf[c]
        next == (assumedLeader[k] + 1) % NumServices
    IN  /\ call[c].pc = "waiting"
        /\ call[c].attempt < MaxAttempts[c]
        /\ assumedLeader' = [assumedLeader EXCEPT ![k] = next]
        /\ Sends(c, next, call[c].request, call[c].attempt + 1, call[c].op,
                 HungUp(c))
        /\ UNCHANGED <<logVars, requestID, outcome, commitSubs, storeVars,
                       restarts>>

\* What the caller gets back.
Returns(c, status, request, result) ==
    /\ call' = [call EXCEPT ![c].pc = "idle"]
    /\ outcome' = [outcome EXCEPT ![c] =
            [status |-> status, request |-> request, result |-> result,
             alone |-> handler[call[c].target][c].alone]]

\* The caller's own context is done, or the connection fails in some other
\* way than by the timeout: send returns the error.
BailOut(c) ==
    /\ call[c].pc = "waiting"
    /\ Returns(c, "Cancelled", call[c].request, Absent)
    /\ handler' = HungUp(c)
    /\ UNCHANGED <<logVars, requestID, assumedLeader, commitSubs, storeVars,
                   restarts>>

\* The client still waits for this handler's answer.
Awaited(s, c) ==
    /\ call[c].pc = "waiting"
    /\ call[c].target = s
    /\ call[c].attempt = handler[s][c].attempt

\* The answer of service s reaches the client, unless it has hung up.
Answers(s, c, status, result) ==
    /\ handler' = [handler EXCEPT ![s][c] = NoHandler]
    /\ IF Awaited(s, c)
         THEN Returns(c, status, handler[s][c].request, result)
         ELSE UNCHANGED <<call, outcome>>
    /\ UNCHANGED <<requestID, assumedLeader>>

-----------------------------------------------------------------------------
(* Handlers *)

\* The command a handler submits.
Command(s, c) ==
    [serviceID |-> s, clientID |-> ClientOf[c],
     requestID |-> handler[s][c].request, op |-> handler[s][c].op]

\* History: nowhere is an earlier command of service s, which s itself has lost,
\* at index n, but of the same request.
Alone(s, n, cmd) ==
    LET Other(e) == /\ e.serviceID = s
                    /\ <<e.clientID, e.requestID>> # <<cmd.clientID, cmd.requestID>>
    IN  /\ \A t \in Service : n <= Len(log[t]) => ~Other(log[t][n])
        /\ n <= Len(committed) => ~Other(committed[n])

\* rs.Submit on a service that leads returns the index of the command.
HandlerSubmits(s, c) ==
    /\ handler[s][c].pc = "received"
    /\ Appends(s, Command(s, c))
    /\ handler' = [handler EXCEPT
            ![s][c].pc = "submitted", ![s][c].index = Len(log[s]) + 1,
            ![s][c].alone = Alone(s, Len(log[s]) + 1, Command(s, c))]
    /\ UNCHANGED <<clientVars, commitSubs, storeVars, restarts>>

\* On one that does not, it answers StatusNotLeader: the client tries the next.
NotLeader(s, c) ==
    LET k == ClientOf[c]
        next == (assumedLeader[k] + 1) % NumServices
        done == [handler EXCEPT ![s][c] = NoHandler]
    IN  /\ handler[s][c].pc = "received"
        /\ s \notin leaders
        /\ IF Awaited(s, c)
             THEN /\ call[c].attempt < MaxAttempts[c]
                  /\ assumedLeader' = [assumedLeader EXCEPT ![k] = next]
                  /\ Sends(c, next, call[c].request, call[c].attempt + 1,
                           call[c].op, done)
             ELSE /\ handler' = done
                  /\ UNCHANGED <<assumedLeader, call>>
        /\ UNCHANGED <<logVars, requestID, outcome, commitSubs, storeVars,
                       restarts>>

\* createCommitSubscription
Subscribe(s, c) ==
    LET n == handler[s][c].index
    IN  /\ handler[s][c].pc = "submitted"
        /\ commitSubs[s][n] = NoSub
        /\ commitSubs' = [commitSubs EXCEPT ![s][n] =
                [caller |-> c, attempt |-> handler[s][c].attempt]]
        /\ handler' = [handler EXCEPT ![s][c].pc = "waiting"]
        /\ UNCHANGED <<logVars, clientVars, storeVars, restarts>>

\* createCommitSubscription finds a subscription for the index and panics; the
\* HTTP server recovers and closes the connection.
SubscribePanics(s, c) ==
    /\ handler[s][c].pc = "submitted"
    /\ commitSubs[s][handler[s][c].index] # NoSub
    /\ Answers(s, c, "Error", Absent)
    /\ UNCHANGED <<logVars, commitSubs, storeVars, restarts>>

IsOwnAlways(s, cmd) == TRUE

\* The committed command is that of this service.
IsOwn(s, cmd) == cmd.serviceID = s

\* The handler receives the committed command and answers.
HandlerAnswers(s, c) ==
    LET cmd == handler[s][c].chan
        status == IF ~IsOwn(s, cmd) THEN "FailedCommit"
                  ELSE IF cmd.duplicate THEN "DuplicateRequest" ELSE "OK"
    IN  /\ handler[s][c].pc = "waiting"
        /\ cmd # NoCommand
        /\ Answers(s, c, status, cmd.result)
        /\ UNCHANGED <<logVars, commitSubs, storeVars, restarts>>

\* The handler sees that its request was cancelled.  Its subscription stays.
HandlerCancelled(s, c) ==
    /\ handler[s][c].pc = "waiting"
    /\ handler[s][c].cancelled
    /\ handler' = [handler EXCEPT ![s][c] = NoHandler]
    /\ UNCHANGED <<logVars, clientVars, commitSubs, storeVars, restarts>>

-----------------------------------------------------------------------------
(* The updater and the data store *)

IsDuplicateStrict(last, cmd) == last > cmd.requestID

\* Only a request ID above the client's last one is executed.  (IDs start at
\* 1: a client that has no entry in the map is one whose last ID is 0.)
IsDuplicate(last, cmd) == last >= cmd.requestID

\* Get, Put, Append and CAS of DataStore: the entry of the key afterwards.  All
\* of them return the entry before.
Executed(v, op) ==
    CASE op.kind = "get"    -> v
      [] op.kind = "put"    -> Present(op.value)
      [] op.kind = "append" -> Present(v.value \o op.value)
      [] op.kind = "cas"    -> IF v.found /\ v.value = op.compare
                               THEN Present(op.value) ELSE v

\* What the updater sends to the subscriber: the command with its result, or
\* for a duplicate a new Command with nothing but its kind and the mark.
Reply(cmd, duplicate, before) ==
    [kind |-> cmd.op.kind,
     serviceID |-> IF duplicate THEN 0 ELSE cmd.serviceID,
     duplicate |-> duplicate,
     result |-> IF duplicate THEN Absent ELSE before]

\* The channel of a subscription is read by its handler, if it is still there.
Delivered(s, sub, reply) ==
    [c \in Caller |->
        IF /\ sub = [caller |-> c, attempt |-> handler[s][c].attempt]
           /\ handler[s][c].pc = "waiting"
        THEN [handler[s][c] EXCEPT !.chan = reply] ELSE handler[s][c]]

\* The updater receives the next committed entry.
Update(s) ==
    LET n == applied[s] + 1
        cmd == committed[n]
        k == cmd.clientID
        duplicate == IsDuplicate(lastRequestID[s][k], cmd)
    IN  /\ applied[s] < Len(committed)
        /\ Agrees(s, n)
        /\ applied' = [applied EXCEPT ![s] = n]
        /\ IF duplicate
             THEN UNCHANGED <<data, lastRequestID, ran>>
             ELSE /\ lastRequestID' = [lastRequestID EXCEPT ![s][k] = cmd.requestID]
                  /\ data' = [data EXCEPT ![s] = Executed(@, cmd.op)]
                  /\ ran' = [ran EXCEPT ![s] = Append(@, <<k, cmd.requestID>>)]
        /\ handler' = [handler EXCEPT ![s] =
                Delivered(s, commitSubs[s][n], Reply(cmd, duplicate, data[s]))]
        /\ commitSubs' = [commitSubs EXCEPT ![s][n] = NoSub]
        /\ UNCHANGED <<logVars, clientVars, restarts>>

\* A new service has an empty store, no subscriptions and no request IDs, and
\* has received nothing of the log.
New(s) ==
    /\ commitSubs' = [commitSubs EXCEPT ![s] = [n \in Index |-> NoSub]]
    /\ data' = [data EXCEPT ![s] = Absent]
    /\ lastRequestID' = [lastRequestID EXCEPT ![s] = [k \in Client |-> 0]]
    /\ applied' = [applied EXCEPT ![s] = 0]
    /\ ran' = [ran EXCEPT ![s] = <<>>]

\* Shutdown: the CM stops and the handlers are gone.
Shutdown(s) ==
    /\ leaders' = leaders \ {s}
    /\ handler' = [handler EXCEPT ![s] = [c \in Caller |-> NoHandler]]

\* A service is shut down and started again on its storage: the log remains,
\* the store is rebuilt from it.
Restart(s) ==
    /\ restarts > 0
    /\ restarts' = restarts - 1
    /\ Shutdown(s)
    /\ New(s)
    /\ UNCHANGED <<log, committed, current, elects, clientVars>>

-----------------------------------------------------------------------------

\* The steps of the replicated log, which change nothing here.  A service that
\* has lost the leadership needs an election timeout (150 ms) to win it back;
\* the client gives a handler 50 ms.
LogStep ==
    /\ LogNext
    /\ \A s \in leaders' \ leaders, c \in Caller :
          handler[s][c].pc \in {"idle", "received"}
    /\ UNCHANGED <<clientVars, handler, commitSubs, storeVars, restarts>>

Next ==
    \/ LogStep
    \/ \E c \in Caller : \E op \in Op[c] : Request(c, op)
    \/ \E c \in Caller : Retry(c) \/ BailOut(c)
    \/ \E s \in Service, c \in Caller :
          \/ HandlerSubmits(s, c) \/ NotLeader(s, c) \/ Subscribe(s, c)
          \/ SubscribePanics(s, c) \/ HandlerAnswers(s, c)
          \/ HandlerCancelled(s, c)
    \/ \E s \in Service : Update(s) \/ Restart(s)

Spec == Init /\ [][Next]_vars

-----------------------------------------------------------------------------
(* Properties *)

\* The reference: the store after the first n committed commands when each
\* request is executed where it first occurs, unless its client has moved on.
Superseded(n) ==
    \E m \in 1..(n - 1) :
        /\ committed[m].clientID = committed[n].clientID
        /\ committed[m].requestID >= committed[n].requestID

StoreAfter ==
    LET f[n \in 0..Len(committed)] ==
          IF n = 0 THEN Absent
          ELSE IF Superseded(n) THEN f[n - 1]
          ELSE Executed(f[n - 1], committed[n].op)
    IN  f

\* Retries and replays after a restart never execute a request twice: every
\* replica's store is that of the reference.
ExactlyOnce ==
    \A s \in Service :
        /\ \A i, j \in 1..Len(ran[s]) : ran[s][i] = ran[s][j] => i = j
        /\ data[s] = StoreAfter[applied[s]]

\* A caller that is told OK gets the result of its own request, executed where
\* it first occurs in the committed log: although the handler knows only the
\* index at which it was submitted, and leadership may have moved since.  Any
\* command of its service there passes for its own; so this is said of the
\* commands that were alone at theirs.
AnswersItsOwn ==
    \A c \in Caller :
        outcome[c].status = "OK" /\ outcome[c].alone =>
            \E n \in 1..Len(committed) :
                /\ committed[n].clientID = ClientOf[c]
                /\ committed[n].requestID = outcome[c].request
                /\ ~Superseded(n)
                /\ outcome[c].result = StoreAfter[n - 1]
=============================================================================
