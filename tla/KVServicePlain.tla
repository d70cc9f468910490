--------------------------- MODULE KVServicePlain ---------------------------
(***************************************************************************)
(* The KV service of raft/part4kv, the stage before request IDs: a client  *)
(* that times out sends the same command again, and nothing tells the      *)
(* second from the first.  A handler submits a command with its service's  *)
(* ID, waits for what is committed at the index it was given, and takes    *)
(* the ID as the sign that the command there is its own.                   *)
(*                                                                         *)
(* Each caller has a client of its own.  A handler is a goroutine of a     *)
(* service that serves one attempt.  Services stop and start again on      *)
(* their storage, and may be told not to answer (a fault the tests of the  *)
(* repository inject).  There is one key.                                  *)
(***************************************************************************)
EXTENDS ReplicatedLog

CONSTANTS
    Caller,
    Op,           \* Op[c]: what caller c may ask for
    Value,
    MaxRequests,  \* bound on the requests of a caller
    MaxAttempts,  \* MaxAttempts[c]: bound on the attempts of caller c
    MaxCrashes,   \* bound on the services that stop
    MaxMutes      \* bound on the services told not to answer

ASSUME PlainServiceAssumption ==
    /\ IsFiniteSet(Service) /\ Service # {}
    /\ Service = 0..(Cardinality(Service) - 1)

VARIABLES
    call,           \* of each caller: the request it is making
    assumedLeader,  \* of each caller's client
    outcome,        \* of each caller: what its last request returned
    handler,        \* handler[s][c]: the handler at s of an attempt of c
    commitSubs,     \* commitSubs[s][n]: the caller whose handler subscribed
    data,           \* ds.data
    applied,        \* entries received from commitChan
    alive,          \* the services that run
    answering,      \* those with httpResponsesEnabled
    budget          \* what is left of MaxCrashes and MaxMutes

clientVars == <<call, assumedLeader, outcome>>
storeVars == <<data, applied>>
faultVars == <<alive, answering, budget>>
vars == <<logVars, clientVars, handler, commitSubs, storeVars, faultVars>>

Index == 1..MaxLog

Absent == [found |-> FALSE, value |-> "none"]
Present(v) == [found |-> TRUE, value |-> v]

Put(v) == [kind |-> "put", value |-> v, compare |-> "none"]
Get == [kind |-> "get", value |-> "none", compare |-> "none"]
CAS(old, v) == [kind |-> "cas", value |-> v, compare |-> old]

ASSUME OpAssumption ==
    \A c \in Caller :
        Op[c] \subseteq {Put(v) : v \in Value} \cup {Get}
                        \cup {CAS(v, w) : v, w \in Value}

\* since: how much was committed when the request was made.
NoCall == [pc |-> "idle", request |-> 0, attempt |-> 0, target |-> 0,
           op |-> Get, since |-> 0]
NoOutcome == [status |-> "none", request |-> 0, attempt |-> 0, since |-> 0,
              alone |-> FALSE, result |-> Absent]
\* alone: no other command of the service was at the index (see Alone).
NoHandler == [pc |-> "idle", request |-> 0, attempt |-> 0, op |-> Get,
              cancelled |-> FALSE, index |-> 0, alone |-> FALSE, chan |-> <<>>]
NoSub == [caller |-> "none", attempt |-> 0]

\* A new service, on whatever its storage holds.
New(s) ==
    /\ data' = [data EXCEPT ![s] = Absent]
    /\ applied' = [applied EXCEPT ![s] = 0]
    /\ commitSubs' = [commitSubs EXCEPT ![s] = [n \in Index |-> NoSub]]

Quiet ==
    /\ LogQuiet
    /\ assumedLeader = [c \in Caller |-> 0]
    /\ outcome = [c \in Caller |-> NoOutcome]
    /\ handler = [s \in Service |-> [c \in Caller |-> NoHandler]]
    /\ commitSubs = [s \in Service |-> [n \in Index |-> NoSub]]
    /\ data = [s \in Service |-> Absent]
    /\ applied = [s \in Service |-> 0]
    /\ alive = Service
    /\ answering = Service

Init ==
    /\ Quiet
    /\ call = [c \in Caller |-> NoCall]
    /\ elects = MaxElects
    /\ budget = [crashes |-> MaxCrashes, mutes |-> MaxMutes]

-----------------------------------------------------------------------------
(* kvclient *)

\* send: the next attempt, at service s.  The handler of an earlier attempt at
\* s is done by then, or has never run.
Sends(c, s, request, op, since, h) ==
    LET n == call[c].attempt + 1
    IN  /\ n <= MaxAttempts[c]
        /\ h[s][c].pc \in {"idle", "received"}
        /\ call' = [call EXCEPT ![c] =
                [pc |-> "waiting", request |-> request, attempt |-> n,
                 target |-> s, op |-> op, since |-> since]]
        /\ handler' = [h EXCEPT ![s][c] =
                [NoHandler EXCEPT !.pc = "received", !.request = request,
                                  !.attempt = n, !.op = op]]

\* Put, Get or CAS.
Request(c, op) ==
    /\ call[c].pc = "idle" /\ call[c].request < MaxRequests
    /\ Sends(c, assumedLeader[c], call[c].request + 1, op, Len(committed), handler)
    /\ UNCHANGED <<logVars, assumedLeader, outcome, commitSubs, storeVars,
                   faultVars>>

\* The attempt's context is done: its handler will see it.
HungUp(c) ==
    [handler EXCEPT ![call[c].target][c].cancelled =
        @ \/ handler[call[c].target][c].attempt = call[c].attempt]

\* On to the next address, with the same request.
Moves(c, h) ==
    LET next == (assumedLeader[c] + 1) % Cardinality(Service)
    IN  /\ assumedLeader' = [assumedLeader EXCEPT ![c] = next]
        /\ Sends(c, next, call[c].request, call[c].op, call[c].since, h)
        /\ UNCHANGED outcome

\* The attempt has timed out.
Retry(c) ==
    /\ call[c].pc = "waiting"
    /\ Moves(c, HungUp(c))
    /\ UNCHANGED <<logVars, commitSubs, storeVars, faultVars>>

Returns(c, status, result) ==
    /\ call' = [call EXCEPT ![c].pc = "idle"]
    /\ outcome' = [outcome EXCEPT ![c] =
            [status |-> status, request |-> call[c].request, result |-> result,
             attempt |-> call[c].attempt, since |-> call[c].since,
             alone |-> handler[call[c].target][c].alone]]
    /\ UNCHANGED assumedLeader

\* The caller's context is done, or the connection fails: send returns an error.
BailOut(c) ==
    /\ call[c].pc = "waiting"
    /\ Returns(c, "Error", Absent)
    /\ handler' = HungUp(c)
    /\ UNCHANGED <<logVars, commitSubs, storeVars, faultVars>>

\* What the client does with the answer of s, if it still waits for it.  A
\* service that does not answer ends the response without a body, which the
\* client cannot decode.
Answers(s, c, status, result) ==
    LET h == [handler EXCEPT ![s][c] = NoHandler]
        awaited == /\ call[c].pc = "waiting" /\ call[c].target = s
                   /\ call[c].attempt = handler[s][c].attempt
    IN  \/ ~awaited /\ handler' = h /\ UNCHANGED clientVars
        \/ awaited /\ s \notin answering /\ handler' = h
             /\ Returns(c, "Error", Absent)
        \/ awaited /\ s \in answering /\ status = "NotLeader" /\ Moves(c, h)
        \/ awaited /\ s \in answering /\ status # "NotLeader" /\ handler' = h
             /\ Returns(c, status, result)

-----------------------------------------------------------------------------
(* kvservice: the handlers *)

CommandAnonymous(s, c) ==
    [id |-> 0, op |-> handler[s][c].op,
     from |-> <<c, handler[s][c].request, handler[s][c].attempt>>]

\* The command, which carries the ID of the service.  (from is not part of it:
\* it is what the properties know it by.)
Command(s, c) ==
    [id |-> s, op |-> handler[s][c].op,
     from |-> <<c, handler[s][c].request, handler[s][c].attempt>>]

\* History: nowhere is an earlier command of service s, which s itself has lost,
\* at index n.
Alone(s, n) ==
    /\ \A t \in Service : n <= Len(log[t]) => log[t][n].id # s
    /\ n <= Len(committed) => committed[n].id # s

\* handlePut, handleGet and handleCAS: the command is submitted.
HandlerSubmits(s, c) ==
    /\ handler[s][c].pc = "received" /\ s \in alive
    /\ Appends(s, Command(s, c))
    /\ handler' = [handler EXCEPT ![s][c].pc = "submitted",
                                  ![s][c].index = Len(log[s]) + 1,
                                  ![s][c].alone = Alone(s, Len(log[s]) + 1)]
    /\ UNCHANGED <<clientVars, commitSubs, storeVars, faultVars>>

\* The service does not lead.
NotLeader(s, c) ==
    /\ handler[s][c].pc = "received" /\ s \in alive \ leaders
    /\ Answers(s, c, "NotLeader", Absent)
    /\ UNCHANGED <<logVars, commitSubs, storeVars, faultVars>>

\* createCommitSubscription
CreateCommitSubscription(s, c) ==
    LET n == handler[s][c].index
    IN  /\ handler[s][c].pc = "submitted" /\ commitSubs[s][n] = NoSub
        /\ commitSubs' = [commitSubs EXCEPT ![s][n] =
                [caller |-> c, attempt |-> handler[s][c].attempt]]
        /\ handler' = [handler EXCEPT ![s][c].pc = "waiting"]
        /\ UNCHANGED <<logVars, clientVars, storeVars, faultVars>>

\* It panics on a second one for the index, which the HTTP server recovers from.
SubscriptionPanics(s, c) ==
    /\ handler[s][c].pc = "submitted"
    /\ commitSubs[s][handler[s][c].index] # NoSub
    /\ Answers(s, c, "Error", Absent)
    /\ UNCHANGED <<logVars, commitSubs, storeVars, faultVars>>

IsOwnAlways(s, cmd) == TRUE

\* The committed command is taken for this handler's.
IsOwn(s, cmd) == cmd.id = s

\* The committed command has been delivered: the handler answers.
HandlerAnswers(s, c) ==
    /\ handler[s][c].pc = "waiting" /\ handler[s][c].chan # <<>>
    /\ LET cmd == handler[s][c].chan[1]
           result == handler[s][c].chan[2]
       IN  IF IsOwn(s, cmd) THEN Answers(s, c, "OK", result)
                            ELSE Answers(s, c, "FailedCommit", Absent)
    /\ UNCHANGED <<logVars, commitSubs, storeVars, faultVars>>

\* The request is cancelled.  The subscription stays.
HandlerCancelled(s, c) ==
    /\ handler[s][c].pc = "waiting" /\ handler[s][c].cancelled
    /\ handler' = [handler EXCEPT ![s][c] = NoHandler]
    /\ UNCHANGED <<logVars, clientVars, commitSubs, storeVars, faultVars>>

-----------------------------------------------------------------------------
(* The updater and the data store *)

\* DataStore.CAS, which needs the key to be there.
Swapped(v, op) ==
    IF v.found /\ v.value = op.compare THEN Present(op.value) ELSE v

\* The entry of the key after a command.  Its result is the entry before.
Executed(v, op) ==
    CASE op.kind = "get" -> v
      [] op.kind = "put" -> Present(op.value)
      [] op.kind = "cas" -> Swapped(v, op)

\* The subscriber of index n gets the command and its result, if it still waits.
Delivered(s, n, cmd) ==
    [c \in Caller |->
        IF /\ commitSubs[s][n] = [caller |-> c, attempt |-> handler[s][c].attempt]
           /\ handler[s][c].pc = "waiting"
        THEN [handler[s][c] EXCEPT !.chan = <<cmd, data[s]>>]
        ELSE handler[s][c]]

\* The updater receives the next committed entry.
Update(s) ==
    LET n == applied[s] + 1
    IN  /\ s \in alive /\ Agrees(s, n)
        /\ data' = [data EXCEPT ![s] = Executed(@, committed[n].op)]
        /\ applied' = [applied EXCEPT ![s] = n]
        /\ handler' = [handler EXCEPT ![s] = Delivered(s, n, committed[n])]
        /\ commitSubs' = [commitSubs EXCEPT ![s][n] = NoSub]
        /\ UNCHANGED <<logVars, clientVars, faultVars>>

-----------------------------------------------------------------------------
(* Faults *)

\* Shutdown: the CM stops, the updater ends, the HTTP server closes.  Nobody
\* hears of the handlers any more.
Crash(s) ==
    /\ s \in alive /\ budget.crashes > 0
    /\ budget' = [budget EXCEPT !.crashes = @ - 1]
    /\ alive' = alive \ {s}
    /\ leaders' = leaders \ {s}
    /\ handler' = [handler EXCEPT ![s] = [c \in Caller |-> NoHandler]]
    /\ UNCHANGED <<log, committed, current, elects, clientVars, commitSubs,
                   storeVars, answering>>

\* A new service on the old storage.
RestartService(s) ==
    /\ s \notin alive
    /\ New(s)
    /\ alive' = alive \cup {s}
    /\ answering' = answering \cup {s}
    /\ UNCHANGED <<logVars, clientVars, handler, budget>>

\* ToggleHTTPResponsesEnabled
ToggleHTTPResponses(s) ==
    /\ s \in answering /\ budget.mutes > 0
    /\ budget' = [budget EXCEPT !.mutes = @ - 1]
    /\ answering' = answering \ {s}
    /\ UNCHANGED <<logVars, clientVars, handler, commitSubs, storeVars, alive>>

-----------------------------------------------------------------------------
(* Specification *)

\* The replicated log moves on, in the services that run.  A service that has
\* lost the leadership needs an election timeout (150 ms) to win it back; the
\* client gives a handler 50 ms.
LogStep ==
    /\ LogNext
    /\ leaders' \subseteq alive
    /\ \A s \in Service \ alive : log'[s] = log[s]
    /\ \A s \in leaders' \ leaders, c \in Caller :
          handler[s][c].pc \in {"idle", "received"}
    /\ UNCHANGED <<clientVars, handler, commitSubs, storeVars, faultVars>>

Next ==
    \/ LogStep
    \/ \E c \in Caller : \E op \in Op[c] : Request(c, op)
    \/ \E c \in Caller : Retry(c) \/ BailOut(c)
    \/ \E s \in Service, c \in Caller :
          \/ HandlerSubmits(s, c) \/ NotLeader(s, c)
          \/ CreateCommitSubscription(s, c) \/ SubscriptionPanics(s, c)
          \/ HandlerAnswers(s, c) \/ HandlerCancelled(s, c)
    \/ \E s \in Service :
          Update(s) \/ Crash(s) \/ RestartService(s) \/ ToggleHTTPResponses(s)

Spec == Init /\ [][Next]_vars

-----------------------------------------------------------------------------
(* Properties *)

\* The key after the first n committed commands.
StoreAfter ==
    LET f[n \in 0..Len(committed)] ==
          IF n = 0 THEN Absent ELSE Executed(f[n - 1], committed[n].op)
    IN  f

\* What a client is told OK took effect, retries and changes of leader
\* included: the attempt that is answered was executed exactly once, with that
\* result and after everything that had been answered when the request was
\* made; and of the same request nothing but earlier attempts is ever executed.
\* So a request that is sent once is linearizable.  One that is sent again need
\* not be: an earlier attempt may be executed as well, before or after, and a
\* Put may be told its own value as the previous one.
\* The handler takes any command of its service at the index for its own; so
\* this is said of the commands that were alone at theirs.
AttemptLinearizable ==
    \A c \in Caller :
        outcome[c].status = "OK" /\ outcome[c].alone =>
            \E n \in (outcome[c].since + 1)..Len(committed) :
                /\ committed[n].from
                     = <<c, outcome[c].request, outcome[c].attempt>>
                /\ outcome[c].result = StoreAfter[n - 1]
                /\ \A m \in 1..Len(committed) \ {n} :
                     committed[m].from[1] = c
                     /\ committed[m].from[2] = outcome[c].request
                     => committed[m].from[3] < outcome[c].attempt

\* "commit failed; please retry" is safe to follow: the attempt that it is said
\* of is not executed, then or later.
FailedIsNotRun ==
    \A c \in Caller :
        outcome[c].status = "FailedCommit" =>
            \A n \in 1..Len(committed) :
                committed[n].from
                    # <<c, outcome[c].request, outcome[c].attempt>>
=============================================================================
