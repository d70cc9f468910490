------------------------------ MODULE Kademlia ------------------------------
(***************************************************************************)
(* A node of the Kademlia network (kademlia/node.go, routing.go,           *)
(* server.go, utils.go): its routing table, the requests it serves, the    *)
(* goroutine that pings the contacts, and a lookup with the goroutines it  *)
(* spawns.  The other nodes are the environment.                           *)
(*                                                                         *)
(* A key is a sequence of bits.  Only a peer that runs other code can      *)
(* answer a lookup with the target (MayAnswerTarget): Foreign.             *)
(*                                                                         *)
(* FindClosest takes the table's lock for each bucket; here it takes one   *)
(* snapshot, since what it returns only decides whom a lookup asks.        *)
(*                                                                         *)
(* StartPingTicker, which calls PingOldestContacts twice a minute, is      *)
(* called by nothing in the repository; it is taken to run here.           *)
(***************************************************************************)
EXTENDS Naturals, FiniteSets, ContactHeap

CONSTANTS
    Bits,        \* the length of a key (144 in the code)
    Contacts,    \* keys of the nodes that may join
    Self,        \* the key of this node
    Target,      \* the key that is looked up
    Foreign,     \* nodes whose GetContacts answers with what they know
    K,           \* size of a bucket (20 in the code)
    Alpha,       \* queries of one round of a lookup (5 in the code)
    MaxBranches, \* bound on the goroutines of a lookup
    MaxJoins,    \* bound on the Join requests
    MaxPings,    \* bound on the rounds of PingOldestContacts
    MaxLookups,  \* bound on the lookups, 0 or 1
    MaxDeeper    \* bound on the branches that call RecursiveFindNode

Key == [1..Bits -> {0, 1}]

ASSUME KeyAssumption ==
    /\ Bits \in Nat \ {0} /\ K \in Nat \ {0} /\ Alpha \in Nat \ {0}
    /\ Contacts \subseteq Key /\ Self \in Key /\ Target \in Key \ {Self}
    /\ Foreign \subseteq Contacts

VARIABLES
    buckets,   \* buckets[i]: the array of bucket i
    locked,    \* a goroutine died with the table's lock
    ping,      \* the goroutine in PingOldestContacts
    queried,   \* the lookup's map, shared without a lock
    frame,     \* frame[f]: a call of RecursiveFindNode; 0 is RFindNode's, f
               \* the one of branch f
    branch,    \* branch[b]: a goroutine that asks a contact
    answer,    \* what the lookup has returned
    crashed,   \* the runtime has found concurrent accesses to queried
    budget     \* what is left of the bounds

tableVars == <<buckets, locked>>
lookupVars == <<queried, frame, branch, answer, crashed>>
vars == <<tableVars, ping, lookupVars, budget>>

Bucket == 0..(Bits - 1)
Branch == 1..MaxBranches
Frame == 0..MaxBranches

Xor(a, b) == [i \in 1..Bits |-> IF a[i] = b[i] THEN 0 ELSE 1]

LeadingZeros(k) ==
    IF \E i \in 1..Bits : k[i] = 1
    THEN CHOOSE i \in Bucket : k[i + 1] = 1 /\ \A j \in 1..i : k[j] = 0
    ELSE Bits

\* The bucket of a key, or Bits for the node's own, which has none.
BucketIndex(key) == LeadingZeros(Xor(key, Self))

NoFrame == [pc |-> "free", todo |-> <<>>, pending |-> 0, found |-> 0,
            closed |-> FALSE, oks |-> 0]
NoBranch == [pc |-> "free", frame |-> 0, key |-> Self, knew |-> FALSE]
NoPing == [pc |-> "idle", bucket |-> 0, at |-> [key |-> Self, rtt |-> 0],
           attached |-> TRUE, asked |-> Self, changed |-> FALSE]

\* Nothing goes on.
Quiet ==
    /\ locked = FALSE
    /\ ping = NoPing
    /\ queried = {} /\ answer = "none" /\ crashed = FALSE
    /\ frame = [f \in Frame |-> NoFrame]
    /\ branch = [b \in Branch |-> NoBranch]

Init ==
    /\ Quiet
    /\ buckets = [i \in Bucket |-> <<>>]
    /\ budget = [joins |-> MaxJoins, pings |-> MaxPings, lookups |-> MaxLookups,
                 deeper |-> MaxDeeper]

\* The table can be used.
Usable == ~locked /\ ~crashed

-----------------------------------------------------------------------------
(* The routing table *)

\* Bucket i becomes h.  The pointer that PingOldestContacts keeps is to the
\* first place of the bucket's array: it sees what comes there, until append
\* moves the bucket to another array.
SetBucket(i, h, moves) ==
    /\ buckets' = [buckets EXCEPT ![i] = h]
    /\ ping' = IF ping.pc = "idle" \/ ping.bucket # i THEN ping
               ELSE [ping EXCEPT
                       !.changed = TRUE,
                       !.attached = @ /\ ~moves,
                       !.at = IF ping.attached /\ ~moves /\ h # <<>>
                              THEN h[1] ELSE @]

\* A contact as it comes out of a message: no round trip has been measured.
ToContact(key) == [key |-> key, rtt |-> 0]

\* node.AddContact.  For the node's own key the index is out of range, with
\* the lock taken: net/http recovers the handler's panic, and nobody can take
\* the lock any more.
AddContact(c, moves) ==
    LET i == BucketIndex(c.key)
    IN  IF i = Bits
        THEN /\ locked' = TRUE /\ UNCHANGED <<buckets, ping>>
        ELSE /\ SetBucket(i, AddTo(buckets[i], c, K),
                          moves /\ c.key \notin Keys(buckets[i])
                                /\ Len(buckets[i]) < K)
             /\ UNCHANGED locked

\* Join of another node, or a contact learnt from the answer to this node's
\* own Join.
Join(key, moves) ==
    /\ Usable /\ budget.joins > 0
    /\ budget' = [budget EXCEPT !.joins = @ - 1]
    /\ AddContact(ToContact(key), moves)
    /\ UNCHANGED lookupVars

\* The contacts of a bucket, or of none beyond the table.
BucketContacts(i) == IF i \in Bucket THEN buckets[i] ELSE <<>>

\* FindClosest: the target's bucket and, while there are too few, the ones
\* next to it, at most K contacts in no order of distance.
FindClosest(target) ==
    LET b == BucketIndex(target)
        near[i \in Bucket] ==
            IF i = 0 THEN BucketContacts(b)
            ELSE IF Len(BucketContacts(b)) >= K \/ Len(near[i - 1]) >= Alpha
            THEN near[i - 1]
            ELSE near[i - 1] \o (IF i <= b THEN BucketContacts(b - i) ELSE <<>>)
                             \o BucketContacts(b + i)
        all == near[Bits - 1]
    IN  IF b = Bits THEN <<>>
        ELSE IF Len(all) > K THEN SubSeq(all, 1, K) ELSE all

-----------------------------------------------------------------------------
(* PingOldestContacts *)

\* It looks at the root of the next bucket that has one ...
PingPeeks(i) ==
    /\ ~crashed /\ ping.pc = "idle" /\ budget.pings > 0
    /\ buckets[i] # <<>>
    /\ budget' = [budget EXCEPT !.pings = @ - 1]
    /\ ping' = [NoPing EXCEPT !.pc = "peeked", !.bucket = i, !.at = buckets[i][1]]
    /\ UNCHANGED <<tableVars, lookupVars>>

\* ... and, without the lock, calls Ping of the contact it points to.
PingCalls ==
    /\ ~crashed /\ ping.pc = "peeked"
    /\ ping' = [ping EXCEPT !.pc = "calling", !.asked = ping.at.key,
                            !.changed = FALSE]
    /\ UNCHANGED <<tableVars, lookupVars, budget>>

\* No answer: what the pointer points to by now is removed.
PingFails ==
    /\ ~crashed /\ ping.pc = "calling"
    /\ buckets' = [buckets EXCEPT ![ping.bucket] = Remove(@, ping.at.key)]
    /\ ping' = NoPing
    /\ UNCHANGED <<locked, lookupVars, budget>>

\* An answer: the RTT is written through the pointer, without the lock and
\* without restoring the heap.
PingAnswered(rtt) ==
    /\ ~crashed /\ ping.pc = "calling"
    /\ buckets' = IF ping.attached /\ buckets[ping.bucket] # <<>>
                  THEN [buckets EXCEPT ![ping.bucket][1].rtt = rtt] ELSE buckets
    /\ ping' = NoPing
    /\ UNCHANGED <<locked, lookupVars, budget>>

-----------------------------------------------------------------------------
(* RecursiveFindNode *)

\* A call begins: the contacts it may ask.
Entered ==
    LET closest == FindClosest(Target)
        n == IF Len(closest) < Alpha THEN Len(closest) ELSE Alpha
    IN  [NoFrame EXCEPT !.pc = "ask",
                        !.todo = [i \in 1..n |-> closest[i].key]]

\* A branch puts its result into the results of its call and is done.
Result(fr, ok) ==
    [fr EXCEPT !.pending = @ - 1, !.oks = IF ok THEN @ + 1 ELSE @]

\* Call f returns: to the branch it is for, or to RFindNode.
Return(f, fs, ok) ==
    LET left == [fs EXCEPT ![f].pc = "left"]
    IN  IF f = 0
        THEN /\ frame' = left
             /\ answer' = IF ok THEN "found" ELSE "not found"
             /\ UNCHANGED branch
        ELSE /\ frame' = [left EXCEPT ![branch[f].frame] = Result(@, ok)]
             /\ branch' = [branch EXCEPT ![f].pc = "ended"]
             /\ UNCHANGED answer

\* FindNode of a client.
FindNode ==
    /\ Usable /\ budget.lookups > 0
    /\ budget' = [budget EXCEPT !.lookups = @ - 1]
    /\ IF FindClosest(Target) = <<>>
       THEN Return(0, frame, FALSE)
       ELSE /\ frame' = [frame EXCEPT ![0] = Entered]
            /\ UNCHANGED <<branch, answer>>
    /\ UNCHANGED <<tableVars, ping, queried, crashed>>

\* The loop over the contacts reads queried up to one that has not been asked
\* ...
Ask(f) ==
    LET todo == SelectSeq(frame[f].todo, LAMBDA k : k \notin queried)
    IN  /\ ~crashed /\ frame[f].pc = "ask"
        /\ frame' = [frame EXCEPT ![f].todo = todo,
                                  ![f].pc = IF todo = <<>> THEN "wait" ELSE "mark"]
        /\ UNCHANGED <<tableVars, ping, queried, branch, answer, crashed, budget>>

\* ... writes it, and spawns a branch.
Mark(f, b) ==
    /\ ~crashed /\ frame[f].pc = "mark" /\ branch[b].pc = "free"
    /\ \A c \in 1..(b - 1) : branch[c].pc # "free"
    /\ queried' = queried \cup {Head(frame[f].todo)}
    /\ branch' = [branch EXCEPT ![b] = [NoBranch EXCEPT
                    !.pc = "call", !.frame = f, !.key = Head(frame[f].todo)]]
    /\ frame' = [frame EXCEPT ![f].pc = "ask", ![f].todo = Tail(@),
                              ![f].pending = @ + 1]
    /\ UNCHANGED <<tableVars, ping, answer, crashed, budget>>

\* Two goroutines are at queried at the same time and the runtime notices.
MapRace(f, g) ==
    /\ ~crashed /\ f # g /\ frame[f].pc = "mark"
    /\ frame[g].pc \in {"ask", "mark"} /\ frame[g].todo # <<>>
    /\ crashed' = TRUE
    /\ UNCHANGED <<tableVars, ping, queried, frame, branch, answer, budget>>

\* GetContacts fails or takes more than 200 ms.
CallFails(b) ==
    /\ ~crashed /\ branch[b].pc = "call"
    /\ branch' = [branch EXCEPT ![b].pc = "ended"]
    /\ frame' = [frame EXCEPT ![branch[b].frame] = Result(@, FALSE)]
    /\ UNCHANGED <<tableVars, ping, queried, answer, crashed, budget>>

\* GetContacts of a node that runs this code answers with no contacts at all:
\* it keeps those for which ApiContact fails, and a contact of a table has
\* passed ToContact.
MayAnswerTarget(key) == key \in Foreign

\* The answer has the target.
CallFinds(b) ==
    /\ ~crashed /\ branch[b].pc = "call" /\ MayAnswerTarget(branch[b].key)
    /\ branch' = [branch EXCEPT ![b].pc = "send", ![b].knew = TRUE]
    /\ UNCHANGED <<tableVars, ping, queried, frame, answer, crashed, budget>>

\* The answer has not: the branch calls RecursiveFindNode.
CallRecurses(b) ==
    /\ Usable /\ branch[b].pc = "call" /\ budget.deeper > 0
    /\ budget' = [budget EXCEPT !.deeper = @ - 1]
    /\ IF FindClosest(Target) = <<>>
       THEN Return(b, frame, FALSE)
       ELSE /\ branch' = [branch EXCEPT ![b].pc = "recurse"]
            /\ frame' = [frame EXCEPT ![b] = Entered]
            /\ UNCHANGED answer
    /\ UNCHANGED <<tableVars, ping, queried, crashed>>

SendFoundUnbuffered(b) ==
    LET f == branch[b].frame
    IN  /\ ~crashed /\ branch[b].pc = "send"
        /\ frame[f].found = 0 /\ frame[f].pc # "left"
        /\ frame' = [frame EXCEPT ![f] = [Result(@, TRUE) EXCEPT !.found = 1]]
        /\ branch' = [branch EXCEPT ![b].pc = "ended"]
        /\ UNCHANGED <<tableVars, ping, queried, answer, crashed, budget>>

\* A branch that has found the target sends it on found, which has room for
\* one, and then puts its result.
SendFound(b) ==
    LET f == branch[b].frame
    IN  /\ ~crashed /\ branch[b].pc = "send" /\ frame[f].found = 0
        /\ frame' = [frame EXCEPT ![f] = [Result(@, TRUE) EXCEPT !.found = 1]]
        /\ branch' = [branch EXCEPT ![b].pc = "ended"]
        /\ UNCHANGED <<tableVars, ping, queried, answer, crashed, budget>>

\* All branches of a call are done: its channels are closed.
CloseChannels(f) ==
    /\ ~crashed /\ frame[f].pc \notin {"free", "ask", "mark"}
    /\ frame[f].pending = 0 /\ ~frame[f].closed
    /\ frame' = [frame EXCEPT ![f].closed = TRUE]
    /\ UNCHANGED <<tableVars, ping, queried, branch, answer, crashed, budget>>

\* The call takes what is on found and returns it, or finds it closed.
TakeFound(f) ==
    /\ ~crashed /\ frame[f].pc = "wait"
    /\ \/ /\ frame[f].found = 1
          /\ Return(f, [frame EXCEPT ![f].found = 0], TRUE)
       \/ /\ frame[f].found = 0 /\ frame[f].closed
          /\ frame' = [frame EXCEPT ![f].pc = "results"]
          /\ UNCHANGED <<branch, answer>>
    /\ UNCHANGED <<tableVars, ping, queried, crashed, budget>>

IgnoreResults(f) ==
    /\ ~crashed /\ frame[f].pc = "results"
    /\ Return(f, frame, FALSE)
    /\ UNCHANGED <<tableVars, ping, queried, crashed, budget>>

\* It returns the first result that is not an error, if there is one.
TakeResults(f) ==
    /\ ~crashed /\ frame[f].pc = "results"
    /\ Return(f, frame, frame[f].oks > 0)
    /\ UNCHANGED <<tableVars, ping, queried, crashed, budget>>

-----------------------------------------------------------------------------
(* Specification *)

FrameStep(f) ==
    \/ Ask(f) \/ CloseChannels(f) \/ TakeFound(f) \/ TakeResults(f)
    \/ \E b \in Branch : Mark(f, b)

BranchStep(b) ==
    CallFails(b) \/ CallFinds(b) \/ CallRecurses(b) \/ SendFound(b)

Next ==
    \/ \E key \in Contacts, moves \in BOOLEAN : Join(key, moves)
    \/ \E i \in Bucket : PingPeeks(i)
    \/ PingCalls \/ PingFails
    \/ \E rtt \in {0, 1} : PingAnswered(rtt)
    \/ FindNode
    \/ \E f \in Frame : FrameStep(f)
    \/ \E f, g \in Frame : MapRace(f, g)
    \/ \E b \in Branch : BranchStep(b)

\* Goroutines run and calls end.
Fairness ==
    /\ \A f \in Frame : WF_vars(FrameStep(f))
    /\ \A b \in Branch : WF_vars(BranchStep(b))

Spec == Init /\ [][Next]_vars /\ Fairness

-----------------------------------------------------------------------------
(* Properties *)

\* A contact is in the bucket of its distance and in no other, once; no bucket
\* has more than K, and the node itself is in none.
TableSound ==
    \A i \in Bucket :
        /\ Len(buckets[i]) <= K
        /\ Cardinality(Keys(buckets[i])) = Len(buckets[i])
        /\ \A key \in Keys(buckets[i]) : key # Self /\ BucketIndex(key) = i

\* A ping removes nobody but the contact that has not answered it, unless the
\* bucket has changed meanwhile.
RemovesUnresponsive ==
    [][PingFails => \/ ping.changed
                    \/ Keys(buckets[ping.bucket]) \ Keys(buckets'[ping.bucket])
                            \subseteq {ping.asked}]_vars

\* A lookup that says it has not found the target has asked nobody who knew it:
\* whichever branch, at whatever depth, is answered with the target, and
\* whichever call returns first, the result comes through.
NotFoundMeansUnknown ==
    answer = "not found" => \A b \in Branch : ~branch[b].knew

\* Three branches of one call have found the target.
ThreeFound ==
    \E f \in Frame :
        Cardinality({b \in Branch : branch[b].frame = f /\ branch[b].knew}) > 2

\* A lookup returns and all its goroutines end.  A third branch that finds the
\* target is left behind: found has room for one and one has been taken.
LookupCleansUp ==
    frame[0].pc # "free"
        ~> \/ /\ answer # "none"
              /\ \A b \in Branch : branch[b].pc \in {"free", "ended"}
           \/ ThreeFound \/ crashed \/ locked
=============================================================================
