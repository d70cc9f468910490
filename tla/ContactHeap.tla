---------------------------- MODULE ContactHeap ----------------------------
(***************************************************************************)
(* The heap of contacts of a k-bucket (kademlia/routing.go), as the array  *)
(* it is kept in: a sequence whose first element is the root.  A contact   *)
(* is its key and its RTT.  StartTime, the first criterion of Less, is     *)
(* never set by the code (ToContact leaves it 0), so RTT alone decides.    *)
(***************************************************************************)
EXTENDS Naturals, Sequences

Less(a, b) == a.rtt < b.rtt

Swap(h, i, j) == [h EXCEPT ![i] = h[j], ![j] = h[i]]

\* up and down of container/heap: the element at i moves to its place among
\* the first n.
RECURSIVE Up(_, _)
Up(h, j) ==
    IF j = 1 \/ ~Less(h[j], h[j \div 2]) THEN h
    ELSE Up(Swap(h, j, j \div 2), j \div 2)

RECURSIVE Down(_, _, _)
Down(h, i, n) ==
    LET l == 2 * i
        c == IF l + 1 <= n /\ Less(h[l + 1], h[l]) THEN l + 1 ELSE l
    IN  IF l > n \/ ~Less(h[c], h[i]) THEN h
        ELSE Down(Swap(h, i, c), c, n)

\* Down, or Up when the element is not too large for its place.
Settle(h, i, n) ==
    LET d == Down(h, i, n) IN IF d # h THEN d ELSE Up(h, i)

HeapPush(h, c) == Up(Append(h, c), Len(h) + 1)

HeapFix(h, i) == Settle(h, i, Len(h))

\* heap.Remove; heap.Pop is the removal of the root.
HeapRemove(h, i) ==
    LET n == Len(h)
        s == Swap(h, i, n)
    IN  SubSeq(IF i = n THEN h ELSE Settle(s, i, n - 1), 1, n - 1)

Keys(h) == {h[i].key : i \in 1..Len(h)}

IndexOf(h, key) == CHOOSE i \in 1..Len(h) : h[i].key = key

RemoveLast(h, key) ==
    IF h # <<>> /\ key \in Keys(h) THEN SubSeq(h, 1, Len(h) - 1) ELSE h

\* ContactHeap.Remove.
Remove(h, key) ==
    IF key \in Keys(h) THEN HeapRemove(h, IndexOf(h, key)) ELSE h

AddUnchecked(h, c, k) ==
    IF Len(h) < k THEN HeapPush(h, c) ELSE HeapPush(HeapRemove(h, 1), c)

\* KBucket.AddContact: a known contact is replaced; a full bucket first gives
\* up its root.
AddTo(h, c, k) ==
    CASE c.key \in Keys(h) ->
            LET i == IndexOf(h, c.key) IN HeapFix([h EXCEPT ![i] = c], i)
      [] c.key \notin Keys(h) /\ Len(h) < k -> HeapPush(h, c)
      [] OTHER -> HeapPush(HeapRemove(h, 1), c)
=============================================================================
