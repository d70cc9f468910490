----------------------- MODULE TorrentDownloadProofs -----------------------
(***************************************************************************)
(* Proofs about TorrentDownload, for any number of peers and pieces and    *)
(* whatever the peers send.                                                *)
(***************************************************************************)
EXTENDS TorrentDownload, TLAPS, FiniteSetTheorems, SequenceTheorems

-----------------------------------------------------------------------------
(* The pieces: where they are *)

\* What the pieces' places are made of, without the file and the buffers.
QueueTypeOK ==
    /\ workQueue \in Seq(Piece)
    /\ closed \in BOOLEAN
    /\ donePieces \in Nat
    /\ reported \in SUBSET Piece
    /\ pc \in [Worker -> WorkerPC]
    /\ DOMAIN piece = Worker /\ \A w \in Worker : Holds(w) => piece[w] \in Piece

\* The inductive invariant: the queue is closed exactly when all is counted.
QueueInv ==
    /\ QueueTypeOK
    /\ PiecesConserved
    /\ closed <=> donePieces >= NumPieces

\* However many pieces there are, the bitfield an honest peer sends has a bit
\* for each, so its worker does connect (recvBitfield takes any length).
LEMMA HonestConnects ==
    ASSUME NEW w \in Honest
    PROVE  \E bytes \in 0..BitfieldBytes :
           \E set \in SUBSET {p \in Piece : p \div 8 < bytes} :
              w \in Honest => bytes = BitfieldBytes /\ set = Piece
<1>1. BitfieldBytes \in 0..BitfieldBytes
  BY PieceAssumption DEF BitfieldBytes
<1>2. ASSUME NEW p \in Piece PROVE p \div 8 < BitfieldBytes
  BY PieceAssumption DEF BitfieldBytes, Piece
<1>3. Piece \in SUBSET {p \in Piece : p \div 8 < BitfieldBytes}
  BY <1>2
<1> QED
  BY <1>1, <1>3

LEMMA PieceFinite ==
    /\ IsFiniteSet(Piece) /\ Cardinality(Piece) = NumPieces
    /\ \A S \in SUBSET Piece : /\ IsFiniteSet(S) /\ Cardinality(S) \in Nat
                               /\ Cardinality(S) <= NumPieces
                               /\ Cardinality(S) = NumPieces => S = Piece
<1>1. IsFiniteSet(Piece) /\ Cardinality(Piece) = NumPieces
  <2>1. NumPieces - 1 \in Int /\ NumPieces \in Nat /\ 0 \in Int
    BY PieceAssumption
  <2>2. /\ IsFiniteSet(Piece)
        /\ Cardinality(Piece) =
              IF 0 > NumPieces - 1 THEN 0 ELSE (NumPieces - 1) - 0 + 1
    BY <2>1, FS_Interval DEF Piece
  <2> QED
    BY <2>1, <2>2
<1> QED
  BY <1>1, FS_Subset, FS_CardinalityType

\* A piece that a worker holds leaves room on the queue, and the queue open.
LEMMA QueueInvSafe == QueueInv => PutBackSafe
<1> SUFFICES ASSUME QueueInv, NEW w \in Worker, Holds(w)
             PROVE  ~closed /\ Len(workQueue) < NumPieces
  BY DEF PutBackSafe
<1>1. /\ piece[w] \in Piece /\ piece[w] \notin reported
      /\ \A n \in 1..Len(workQueue) : workQueue[n] # piece[w]
      /\ \A m, n \in 1..Len(workQueue) : workQueue[m] = workQueue[n] => m = n
  BY DEF QueueInv, QueueTypeOK, PiecesConserved, InOnePlace
<1>2. ~closed
  <2>1. reported # Piece
    BY <1>1
  <2>2. reported \in SUBSET Piece /\ donePieces = Cardinality(reported)
    BY DEF QueueInv, QueueTypeOK, PiecesConserved, InOnePlace
  <2>3. donePieces < NumPieces
    BY <2>1, <2>2, PieceFinite, PieceAssumption
  <2> QED
    BY <2>2, <2>3, PieceFinite, PieceAssumption DEF QueueInv
<1>3. Len(workQueue) < NumPieces
  <2>1. workQueue \in Seq(Piece)
    BY DEF QueueInv, QueueTypeOK
  <2>2. /\ Len(workQueue) \in Nat
        /\ workQueue \in [1..Len(workQueue) -> Piece \ {piece[w]}]
    BY <1>1, <2>1
  <2>3. workQueue \in Injection(1..Len(workQueue), Piece \ {piece[w]})
    BY <1>1, <2>2 DEF Injection, IsInjective
  <2>4. /\ IsFiniteSet(Piece \ {piece[w]})
        /\ Cardinality(Piece \ {piece[w]}) = NumPieces - 1
    BY <1>1, PieceFinite, FS_RemoveElement
  <2>5. Cardinality(1..Len(workQueue)) <= NumPieces - 1
    BY <2>3, <2>4, FS_Injection
  <2>6. Cardinality(1..Len(workQueue)) = Len(workQueue)
    <3>1. Cardinality(1..Len(workQueue)) =
            IF 1 > Len(workQueue) THEN 0 ELSE Len(workQueue) - 1 + 1
      BY <2>2, FS_Interval
    <3> QED
      BY <2>2, <3>1
  <2> QED
    BY <2>2, <2>5, <2>6, PieceAssumption
<1> QED
  BY <1>2, <1>3

LEMMA QueueInit == Init => QueueInv
<1> SUFFICES ASSUME Init
             PROVE  QueueInv
  OBVIOUS
<1>1. workQueue \in Seq(Piece) /\ Len(workQueue) = NumPieces
  <2>1. workQueue \in [1..NumPieces -> Piece]
    BY PieceAssumption DEF Init, Filled, Piece
  <2> QED
    BY <2>1, PieceAssumption, SeqDef
<1>2. \A n \in 1..NumPieces : workQueue[n] = n - 1
  BY DEF Init, Filled
<1>3. \A w \in Worker : ~Holds(w)
  BY DEF Init, Holds, Holding
<1>4. /\ QueueTypeOK
  BY <1>1, <1>3, PieceAssumption DEF Init, QueueTypeOK, WorkerPC
<1>5. InOnePlace
  BY <1>1, <1>2, <1>3, FS_EmptySet, PieceAssumption DEF Init, InOnePlace
<1>6. NoneLost
  <2> SUFFICES ASSUME NEW p \in Piece
               PROVE  \E n \in 1..Len(workQueue) : workQueue[n] = p
    BY DEF NoneLost
  <2>1. p + 1 \in 1..NumPieces /\ (p + 1) - 1 = p
    BY PieceAssumption DEF Piece
  <2> QED
    BY <1>1, <1>2, <2>1
<1>7. closed <=> donePieces >= NumPieces
  <2>1. donePieces = 0 /\ closed = (NumPieces = 0)
    BY DEF Init
  <2>2. (NumPieces = 0) <=> donePieces >= NumPieces
    BY <2>1, PieceAssumption
  <2> QED
    BY <2>1, <2>2, Zenon
<1> QED
  BY <1>4, <1>5, <1>6, <1>7 DEF QueueInv, PiecesConserved

\* A step that leaves the queue, the results and everybody's hands alone.
LEMMA HandsUnchanged ==
    ASSUME QueueInv, UNCHANGED <<workQueue, closed, donePieces, reported, piece>>,
           pc' \in [Worker -> WorkerPC],
           \A w \in Worker : Holds(w)' <=> Holds(w)
    PROVE  QueueInv'
<1>1. QueueTypeOK'
  BY DEF QueueInv, QueueTypeOK
<1>2. InOnePlace'
  BY DEF QueueInv, PiecesConserved, InOnePlace
<1>3. NoneLost'
  BY DEF QueueInv, PiecesConserved, NoneLost
<1> QED
  BY <1>1, <1>2, <1>3 DEF QueueInv, PiecesConserved

\* A worker takes the piece at the head of the queue.
LEMMA TakeKeeps ==
    ASSUME QueueInv, NEW w \in Worker, Take(w)
    PROVE  QueueInv'
<1> DEFINE p == Head(workQueue)
           q == Tail(workQueue)
<1>t. /\ workQueue \in Seq(Piece) /\ pc \in [Worker -> WorkerPC]
      /\ DOMAIN piece = Worker /\ donePieces \in Nat /\ closed \in BOOLEAN
      /\ reported \in SUBSET Piece
      /\ \A v \in Worker : Holds(v) => piece[v] \in Piece
  BY DEF QueueInv, QueueTypeOK
<1>1. /\ workQueue # <<>> /\ workQueue' = q /\ piece' = [piece EXCEPT ![w] = p]
      /\ UNCHANGED <<closed, donePieces, reported>>
      /\ pc[w] = "ranging"
      /\ pc' \in {[pc EXCEPT ![w] = "fetching"], [pc EXCEPT ![w] = "putting"]}
  BY DEF Take, resultVars
<1>2. /\ Len(workQueue) \in Nat /\ Len(workQueue) > 0
      /\ p \in Piece /\ p = workQueue[1]
      /\ q \in Seq(Piece) /\ Len(q) = Len(workQueue) - 1
      /\ \A n \in 1..Len(q) : q[n] = workQueue[n + 1]
  BY <1>t, <1>1
<1>3. /\ pc' \in [Worker -> WorkerPC] /\ DOMAIN piece' = Worker
      /\ Holds(w)' /\ ~Holds(w) /\ piece'[w] = p
      /\ \A v \in Worker : v # w => /\ Holds(v)' <=> Holds(v)
                                    /\ piece'[v] = piece[v]
  BY <1>t, <1>1 DEF Holds, Holding, WorkerPC
<1>4. InOnePlace /\ NoneLost
  BY DEF QueueInv, PiecesConserved
<1> HIDE DEF p, q
<1>5. QueueTypeOK'
  BY <1>t, <1>1, <1>2, <1>3 DEF QueueTypeOK
<1>6. InOnePlace'
  <2>1. \A m, n \in 1..Len(q) : q[m] = q[n] => m = n
    <3> SUFFICES ASSUME NEW m \in 1..Len(q), NEW n \in 1..Len(q), q[m] = q[n]
                 PROVE  m = n
      OBVIOUS
    <3>1. m + 1 \in 1..Len(workQueue) /\ n + 1 \in 1..Len(workQueue)
      BY <1>2
    <3>2. m + 1 = n + 1
      BY <1>2, <1>4, <3>1 DEF InOnePlace
    <3> QED
      BY <3>2
  <2>2. \A n \in 1..Len(q) : q[n] # p /\ q[n] \notin reported
    <3> SUFFICES ASSUME NEW n \in 1..Len(q)
                 PROVE  q[n] # p /\ q[n] \notin reported
      OBVIOUS
    <3>1. n + 1 \in 1..Len(workQueue) /\ 1 \in 1..Len(workQueue) /\ n + 1 # 1
      BY <1>2
    <3> QED
      BY <1>2, <1>4, <3>1 DEF InOnePlace
  <2>3. 1 \in 1..Len(workQueue)
    BY <1>2
  <2>4. \A v \in Worker : Holds(v) => /\ piece[v] # p /\ piece[v] \notin reported
                                      /\ \A n \in 1..Len(q) : q[n] # piece[v]
    <3> SUFFICES ASSUME NEW v \in Worker, Holds(v)
                 PROVE  /\ piece[v] # p /\ piece[v] \notin reported
                        /\ \A n \in 1..Len(q) : q[n] # piece[v]
      OBVIOUS
    <3>1. \A n \in 1..Len(q) : n + 1 \in 1..Len(workQueue)
      BY <1>2
    <3> QED
      BY <1>2, <1>4, <2>3, <3>1 DEF InOnePlace
  <2>5. p \notin reported
    BY <1>2, <1>4, <2>3 DEF InOnePlace
  <2>6. \A u, v \in Worker :
            Holds(u)' /\ Holds(v)' /\ piece'[u] = piece'[v] => u = v
    BY <1>3, <1>4, <2>4 DEF InOnePlace
  <2>7. \A v \in Worker : Holds(v)' =>
            /\ piece'[v] \notin reported
            /\ \A n \in 1..Len(q) : q[n] # piece'[v]
    BY <1>3, <2>2, <2>4, <2>5
  <2>8. donePieces = Cardinality(reported)
    BY <1>4 DEF InOnePlace
  <2> QED
    BY <1>1, <2>1, <2>2, <2>6, <2>7, <2>8 DEF InOnePlace
<1>7. NoneLost'
  <2> SUFFICES ASSUME NEW r \in Piece, r \notin reported
               PROVE  \/ \E n \in 1..Len(q) : q[n] = r
                      \/ \E v \in Worker : Holds(v)' /\ piece'[v] = r
    BY <1>1 DEF NoneLost
  <2>1. CASE \E v \in Worker : Holds(v) /\ piece[v] = r
    BY <1>3, <2>1
  <2>2. CASE \E n \in 1..Len(workQueue) : workQueue[n] = r
    <3>1. PICK n \in 1..Len(workQueue) : workQueue[n] = r
      BY <2>2
    <3>2. CASE n = 1
      BY <1>2, <1>3, <3>1, <3>2
    <3>3. CASE n # 1
      <4>1. n - 1 \in 1..Len(q) /\ (n - 1) + 1 = n
        BY <1>2, <3>3
      <4> QED
        BY <1>2, <3>1, <4>1
    <3> QED
      BY <3>2, <3>3
  <2> QED
    BY <1>4, <2>1, <2>2 DEF NoneLost
<1> QED
  BY <1>1, <1>5, <1>6, <1>7 DEF QueueInv, PiecesConserved

\* A worker puts the piece it holds back at the end of the queue.
LEMMA PutBackKeeps ==
    ASSUME QueueInv, NEW w \in Worker, PutBack(w)
    PROVE  QueueInv'
<1> DEFINE p == piece[w]
           q == workQueue'
<1>t. /\ workQueue \in Seq(Piece) /\ pc \in [Worker -> WorkerPC]
      /\ DOMAIN piece = Worker /\ donePieces \in Nat /\ closed \in BOOLEAN
      /\ reported \in SUBSET Piece
      /\ \A v \in Worker : Holds(v) => piece[v] \in Piece
  BY DEF QueueInv, QueueTypeOK
<1>1. /\ q = Append(workQueue, p)
      /\ UNCHANGED <<closed, donePieces, reported, piece>>
      /\ pc[w] \in {"putting", "quitting"}
      /\ pc' \in {[pc EXCEPT ![w] = "ranging"], [pc EXCEPT ![w] = "exited"]}
  BY DEF PutBack, Send, resultVars
<1>2. /\ pc' \in [Worker -> WorkerPC] /\ Holds(w) /\ ~Holds(w)'
      /\ \A v \in Worker : v # w => (Holds(v)' <=> Holds(v))
  BY <1>t, <1>1 DEF Holds, Holding, WorkerPC
<1>3. p \in Piece
  BY <1>t, <1>2
<1>4. /\ Len(workQueue) \in Nat /\ Len(q) = Len(workQueue) + 1
      /\ q \in Seq(Piece) /\ q[Len(q)] = p
      /\ \A n \in 1..Len(workQueue) : q[n] = workQueue[n]
  BY <1>t, <1>1, <1>3
<1>5. InOnePlace /\ NoneLost
  BY DEF QueueInv, PiecesConserved
<1>6. QueueTypeOK'
  BY <1>t, <1>1, <1>2, <1>4 DEF QueueTypeOK
<1> HIDE DEF p, q
<1>7. \A n \in 1..Len(q) : \/ n = Len(q) /\ q[n] = p
                           \/ n \in 1..Len(workQueue) /\ q[n] = workQueue[n]
  BY <1>4
<1>8. InOnePlace'
  <2>1. /\ p \notin reported
        /\ \A n \in 1..Len(workQueue) : workQueue[n] # p
    BY <1>2, <1>5 DEF InOnePlace, p
  <2>2. \A m, n \in 1..Len(q) : q[m] = q[n] => m = n
    BY <1>5, <1>7, <2>1 DEF InOnePlace
  <2>3. \A n \in 1..Len(q) : q[n] \notin reported
    BY <1>5, <1>7, <2>1 DEF InOnePlace
  <2>4. \A v \in Worker : Holds(v)' => Holds(v) /\ piece[v] # p
    BY <1>2, <1>5 DEF InOnePlace, p
  <2>5. \A v \in Worker : Holds(v)' =>
            /\ piece[v] \notin reported
            /\ \A n \in 1..Len(q) : q[n] # piece[v]
    BY <1>5, <1>7, <2>4 DEF InOnePlace
  <2>6. \A u, v \in Worker :
            Holds(u)' /\ Holds(v)' /\ piece[u] = piece[v] => u = v
    BY <1>5, <2>4 DEF InOnePlace
  <2>7. donePieces = Cardinality(reported)
    BY <1>5 DEF InOnePlace
  <2> QED
    BY <1>1, <2>2, <2>3, <2>5, <2>6, <2>7 DEF InOnePlace, q
<1>9. NoneLost'
  <2> SUFFICES ASSUME NEW r \in Piece, r \notin reported
               PROVE  \/ \E n \in 1..Len(q) : q[n] = r
                      \/ \E v \in Worker : Holds(v)' /\ piece[v] = r
    BY <1>1 DEF NoneLost, q
  <2>1. CASE r = p
    BY <1>4, <2>1
  <2>2. CASE r # p
    <3>1. CASE \E v \in Worker : Holds(v) /\ piece[v] = r
      BY <1>2, <2>2, <3>1 DEF p
    <3>2. CASE \E n \in 1..Len(workQueue) : workQueue[n] = r
      BY <1>4, <3>2
    <3> QED
      BY <1>5, <3>1, <3>2 DEF NoneLost
  <2> QED
    BY <2>1, <2>2
<1> QED
  BY <1>1, <1>6, <1>8, <1>9 DEF QueueInv, PiecesConserved

\* A worker hands the piece it holds to Download.
LEMMA ReportKeeps ==
    ASSUME QueueInv, NEW w \in Worker, Report(w)
    PROVE  QueueInv'
<1> DEFINE p == piece[w]
<1>t. /\ workQueue \in Seq(Piece) /\ pc \in [Worker -> WorkerPC]
      /\ DOMAIN piece = Worker /\ donePieces \in Nat /\ closed \in BOOLEAN
      /\ reported \in SUBSET Piece
      /\ \A v \in Worker : Holds(v) => piece[v] \in Piece
  BY DEF QueueInv, QueueTypeOK
<1>1. /\ UNCHANGED <<workQueue, piece>>
      /\ pc[w] = "reporting" /\ pc' = [pc EXCEPT ![w] = "ranging"]
      /\ donePieces' = donePieces + 1 /\ reported' = reported \cup {p}
  BY DEF Report
<1>2. closed' \in BOOLEAN /\ (closed' <=> donePieces' >= NumPieces)
  <2>1. closed' = (donePieces' >= NumPieces)
    BY DEF Report, AllDone
  <2>2. closed' <=> donePieces' >= NumPieces
    BY <2>1, Zenon
  <2>3. (donePieces' >= NumPieces) \in BOOLEAN
    OBVIOUS
  <2> QED
    BY <2>1, <2>2, <2>3, Zenon
<1>3. /\ pc' \in [Worker -> WorkerPC] /\ Holds(w) /\ ~Holds(w)'
      /\ \A v \in Worker : v # w => (Holds(v)' <=> Holds(v))
  BY <1>t, <1>1 DEF Holds, Holding, WorkerPC
<1>4. p \in Piece
  BY <1>t, <1>3
<1>5. InOnePlace /\ NoneLost
  BY DEF QueueInv, PiecesConserved
<1>6. QueueTypeOK'
  BY <1>t, <1>1, <1>2, <1>3, <1>4 DEF QueueTypeOK
<1> HIDE DEF p
<1>7. InOnePlace'
  <2>1. /\ p \notin reported
        /\ \A n \in 1..Len(workQueue) : workQueue[n] # p
    BY <1>3, <1>5 DEF InOnePlace, p
  <2>2. donePieces' = Cardinality(reported')
    <3>1. IsFiniteSet(reported) /\ donePieces = Cardinality(reported)
      BY <1>t, <1>5, PieceFinite DEF InOnePlace
    <3> QED
      BY <1>1, <2>1, <3>1, FS_AddElement
  <2>3. \A v \in Worker : Holds(v)' => Holds(v) /\ piece[v] # p
    BY <1>3, <1>5 DEF InOnePlace, p
  <2> QED
    BY <1>1, <1>5, <2>1, <2>2, <2>3 DEF InOnePlace
<1>8. NoneLost'
  <2> SUFFICES ASSUME NEW r \in Piece, r \notin reported, r # p
               PROVE  \/ \E n \in 1..Len(workQueue) : workQueue[n] = r
                      \/ \E v \in Worker : Holds(v)' /\ piece[v] = r
    BY <1>1 DEF NoneLost
  <2> QED
    BY <1>3, <1>5 DEF NoneLost, p
<1> QED
  BY <1>2, <1>6, <1>7, <1>8 DEF QueueInv, PiecesConserved

\* The messages of a peer leave the queue and every worker's hands alone.
LEMMA MessagesKeep ==
    ASSUME NEW w \in Worker, Message(w)
    PROVE  /\ pc[w] = "fetching"
           /\ UNCHANGED <<workQueue, closed, file, donePieces, reported, pc,
                          piece>>
BY DEF Message, PieceArrives, BadPieceArrives, OtherMessageArrives,
       ChokeArrives, Iterates, queueVars, resultVars

LEMMA QueueNext ==
    ASSUME QueueInv, [Next]_vars
    PROVE  QueueInv'
<1>t. pc \in [Worker -> WorkerPC]
  BY DEF QueueInv, QueueTypeOK
<1>1. ASSUME NEW w \in Worker, Take(w) PROVE QueueInv'
  BY <1>1, TakeKeeps
<1>2. ASSUME NEW w \in Worker, Message(w) PROVE QueueInv'
  <2>1. \A v \in Worker : Holds(v)' <=> Holds(v)
    BY <1>2, MessagesKeep DEF Holds
  <2> QED
    BY <1>t, <1>2, <2>1, MessagesKeep, HandsUnchanged
<1>3. ASSUME NEW w \in Worker, WorkerStep(w) PROVE QueueInv'
  <2>1. CASE PutBack(w)
    BY <2>1, PutBackKeeps
  <2>2. CASE Report(w)
    BY <2>2, ReportKeeps
  <2>3. CASE Connect(w) \/ ConnectFails(w) \/ RangeEnds(w)
    <3>1. /\ UNCHANGED <<workQueue, closed, donePieces, reported, piece>>
          /\ pc[w] \in {"connecting", "ranging"}
          /\ pc' \in {[pc EXCEPT ![w] = "ranging"], [pc EXCEPT ![w] = "exited"]}
      BY <2>3 DEF Connect, ConnectFails, RangeEnds, queueVars, resultVars
    <3>2. /\ pc' \in [Worker -> WorkerPC]
          /\ \A v \in Worker : Holds(v)' <=> Holds(v)
      BY <1>t, <3>1 DEF Holds, Holding, WorkerPC
    <3> QED
      BY <3>1, <3>2, HandsUnchanged
  <2>4. CASE AttemptFails(w) \/ CheckIntegrity(w)
    <3>1. /\ UNCHANGED <<workQueue, closed, donePieces, reported, piece>>
          /\ pc[w] = "fetching"
          /\ pc' \in {[pc EXCEPT ![w] = "quitting"],
                      [pc EXCEPT ![w] = "putting"],
                      [pc EXCEPT ![w] = "reporting"]}
      BY <2>4 DEF AttemptFails, CheckIntegrity, queueVars, resultVars
    <3>2. /\ pc' \in [Worker -> WorkerPC]
          /\ \A v \in Worker : Holds(v)' <=> Holds(v)
      BY <1>t, <3>1 DEF Holds, Holding, WorkerPC
    <3> QED
      BY <3>1, <3>2, HandsUnchanged
  <2> QED
    BY <1>3, <2>1, <2>2, <2>3, <2>4 DEF WorkerStep
<1>4. CASE UNCHANGED vars
  <2>1. \A v \in Worker : Holds(v)' <=> Holds(v)
    BY <1>4 DEF Holds, vars
  <2> QED
    BY <1>t, <1>4, <2>1, HandsUnchanged DEF vars, queueVars, resultVars
<1> QED
  BY <1>1, <1>2, <1>3, <1>4 DEF Next, Finished

\* Every piece is always in exactly one place, whatever the peers do and
\* however the workers interleave.
THEOREM Conservation == Spec => []PiecesConserved
<1>1. QueueInv => PiecesConserved
  BY DEF QueueInv
<1> QED
  BY <1>1, QueueInit, QueueNext, PTL DEF Spec

\* Putting a piece back never blocks on a full queue and never sends on the
\* closed one, because the piece in hand is on neither side of the count.
THEOREM PutBackIsSafe == Spec => []PutBackSafe
BY QueueInit, QueueNext, QueueInvSafe, PTL DEF Spec

-----------------------------------------------------------------------------
(* The file *)

\* A pieceProgress whose buffer has the size of its piece.
IsProgress(p, size) ==
    \E A, B, C : p \in [requested : A, downloaded : B, backlog : C,
                        buf : [0..(size - 1) -> Content]]

\* A worker's buffer has the size of its piece, and is all good once checked.
BufferInv ==
    /\ DOMAIN progress = Worker
    /\ \A w \in Worker :
          /\ pc[w] \in {"fetching", "reporting"}
                => IsProgress(progress[w], PieceSize(piece[w]))
          /\ pc[w] = "reporting" => Integrity(progress[w].buf)

\* What has been received is in the file, in its place.
FileInv ==
    /\ file \in [0..(Length - 1) -> Content]
    /\ \A p \in reported : \A n \in Bounds(p)[1]..(Bounds(p)[2] - 1) :
            n \in 0..(Length - 1) => file[n] = "good"

LEMMA BoundsType ==
    ASSUME NEW p \in Piece
    PROVE  /\ Bounds(p)[1] \in Int /\ Bounds(p)[2] \in Int
           /\ PieceSize(p) = Bounds(p)[2] - Bounds(p)[1]
<1>1. p \in Int /\ p + 1 \in Int /\ PieceLength \in Int /\ Length \in Int
  BY PieceAssumption DEF Piece
<1>2. p * PieceLength \in Int /\ (p + 1) * PieceLength \in Int
  BY <1>1
<1> QED
  BY <1>1, <1>2 DEF Bounds, PieceSize

\* Every position of the file is in a piece.
LEMMA PiecesCover ==
    ASSUME NEW n \in 0..(Length - 1)
    PROVE  \E p \in Piece : n \in Bounds(p)[1]..(Bounds(p)[2] - 1)
<1>0. /\ n \in Nat /\ n < Length /\ Length \in Nat
      /\ PieceLength \in Nat /\ PieceLength > 0 /\ NumPieces \in Nat
      /\ Length <= NumPieces * PieceLength
  BY PieceAssumption, LengthAssumption
<1> DEFINE q == n \div PieceLength
<1>1. /\ q \in Int
      /\ q * PieceLength <= n
      /\ n < (q + 1) * PieceLength
  BY <1>0
<1> HIDE DEF q
<1>2. q >= 0
  <2> SUFFICES ASSUME q + 1 <= 0
               PROVE  FALSE
    BY <1>1
  <2>1. (q + 1) * PieceLength <= 0
    BY <1>0, <1>1
  <2> QED
    BY <1>0, <1>1, <2>1
<1>3. q < NumPieces
  <2> SUFFICES ASSUME q >= NumPieces
               PROVE  FALSE
    BY <1>0, <1>1
  <2>1. NumPieces * PieceLength <= q * PieceLength
    BY <1>0, <1>1
  <2> QED
    BY <1>0, <1>1, <2>1
<1>4. q \in Piece
  BY <1>0, <1>1, <1>2, <1>3 DEF Piece
<1>5. n \in Bounds(q)[1]..(Bounds(q)[2] - 1)
  <2>1. q * PieceLength \in Int /\ (q + 1) * PieceLength \in Int
    BY <1>0, <1>1
  <2> QED
    BY <1>0, <1>1, <2>1 DEF Bounds
<1> QED
  BY <1>4, <1>5

\* When Download returns, it has every piece: the file is the file.
LEMMA FileInvCorrect == QueueInv /\ FileInv => FileCorrect
<1> SUFFICES ASSUME QueueInv, FileInv, closed, NEW n \in 0..(Length - 1)
             PROVE  file[n] = "good"
  BY DEF FileCorrect
<1>1. reported = Piece
  <2>1. reported \in SUBSET Piece /\ donePieces = Cardinality(reported)
    BY DEF QueueInv, QueueTypeOK, PiecesConserved, InOnePlace
  <2>2. donePieces >= NumPieces
    BY DEF QueueInv
  <2> QED
    BY <2>1, <2>2, PieceFinite, PieceAssumption
<1> QED
  BY <1>1, PiecesCover DEF FileInv

LEMMA FileInit == Init => BufferInv /\ FileInv
BY DEF Init, BufferInv, FileInv, Content

\* A new pieceProgress is one.
LEMMA NewProgressType ==
    ASSUME NEW p
    PROVE  IsProgress(NewProgress(p), PieceSize(p))
<1>1. [n \in 0..(PieceSize(p) - 1) |-> "zero"]
        \in [0..(PieceSize(p) - 1) -> Content]
  BY DEF Content
<1>2. NewProgress(p) \in [requested : {0}, downloaded : {0}, backlog : {0},
                          buf : [0..(PieceSize(p) - 1) -> Content]]
  BY <1>1 DEF NewProgress
<1> QED
  BY <1>2 DEF IsProgress

\* Sending requests and receiving a block leave a pieceProgress one.
LEMMA PipelinedType ==
    ASSUME NEW index, NEW p, NEW c, NEW size, IsProgress(p, size)
    PROVE  IsProgress(Pipelined(index, p, c).progress, size)
<1> DEFINE G == [0..(size - 1) -> Content]
<1>1. PICK A, B, C : p \in [requested : A, downloaded : B, backlog : C, buf : G]
  BY DEF IsProgress
<1>2. p.buf \in G
  BY <1>1
<1>3. ASSUME NEW x, NEW y
      PROVE  IsProgress([p EXCEPT !.requested = x, !.backlog = y], size)
  <2> HIDE DEF G
  <2>1. [p EXCEPT !.requested = x, !.backlog = y]
          \in [requested : {x}, downloaded : B, backlog : {y}, buf : G]
    BY <1>1
  <2> QED
    BY <2>1 DEF IsProgress, G
<1> QED
  BY <1>3 DEF Pipelined

LEMMA ReceivedType ==
    ASSUME NEW p, NEW block, NEW content \in Content, NEW size,
           IsProgress(p, size)
    PROVE  IsProgress(Received(p, block, content), size)
<1> DEFINE G == [0..(size - 1) -> Content]
<1>1. PICK A, B, C : p \in [requested : A, downloaded : B, backlog : C, buf : G]
  BY DEF IsProgress
<1> DEFINE h == [n \in DOMAIN p.buf |->
                    IF n \in block.begin..(block.begin + block.len - 1)
                    THEN content ELSE p.buf[n]]
<1>2. p.buf \in G
  BY <1>1
<1>3. h \in G
  BY <1>2
<1>4. Received(p, block, content)
        = [p EXCEPT !.buf = h, !.downloaded = p.downloaded + block.len,
                    !.backlog = p.backlog - 1]
  BY DEF Received
<1> HIDE DEF h, G
<1>5. PICK x, y : Received(p, block, content)
                    = [p EXCEPT !.buf = h, !.downloaded = x, !.backlog = y]
  BY <1>4
<1>6. [p EXCEPT !.buf = h, !.downloaded = x, !.backlog = y]
        \in [requested : A, downloaded : {x}, backlog : {y}, buf : G]
  BY <1>1, <1>3
<1>7. Received(p, block, content)
        \in [requested : A, downloaded : {x}, backlog : {y}, buf : G]
  BY <1>5, <1>6
<1> QED
  BY <1>7 DEF IsProgress, G

\* A message leaves the worker's progress one.
LEMMA MessageType ==
    ASSUME BufferInv, NEW w \in Worker, Message(w)
    PROVE  \E p : /\ progress' = [progress EXCEPT ![w] = p]
                  /\ IsProgress(p, PieceSize(piece[w]))
<1> DEFINE s == Pipelined(piece[w], progress[w], conn[w])
<1>1. IsProgress(s.progress, PieceSize(piece[w]))
  <2>1. IsProgress(progress[w], PieceSize(piece[w]))
    BY MessagesKeep DEF BufferInv
  <2> QED
    BY <2>1, PipelinedType
<1>2. \/ progress' = [progress EXCEPT ![w] = s.progress]
      \/ \E block : \E content \in Content :
            progress' = [progress EXCEPT ![w] =
                            Received(s.progress, block, content)]
  BY DEF Message, PieceArrives, BadPieceArrives, OtherMessageArrives,
         ChokeArrives, Iterates, Content
<1> HIDE DEF s
<1> QED
  BY <1>1, <1>2, ReceivedType

LEMMA BufferNext ==
    ASSUME QueueInv, BufferInv, [Next]_vars
    PROVE  BufferInv'
<1>t. pc \in [Worker -> WorkerPC] /\ DOMAIN piece = Worker
  BY DEF QueueInv, QueueTypeOK
<1>1. ASSUME NEW w \in Worker, Take(w) PROVE BufferInv'
  <2> DEFINE p == Head(workQueue)
  <2>1. /\ progress' = [progress EXCEPT ![w] = NewProgress(p)]
        /\ piece' = [piece EXCEPT ![w] = p]
        /\ pc' \in {[pc EXCEPT ![w] = "fetching"], [pc EXCEPT ![w] = "putting"]}
    BY <1>1 DEF Take
  <2>2. IsProgress(NewProgress(p), PieceSize(p))
    BY NewProgressType
  <2> HIDE DEF p
  <2> QED
    BY <1>t, <2>1, <2>2 DEF BufferInv
<1>2. ASSUME NEW w \in Worker, Message(w) PROVE BufferInv'
  <2>1. PICK p : /\ progress' = [progress EXCEPT ![w] = p]
                 /\ IsProgress(p, PieceSize(piece[w]))
    BY <1>2, MessageType
  <2>2. pc[w] = "fetching" /\ UNCHANGED <<pc, piece>>
    BY <1>2, MessagesKeep
  <2> QED
    BY <2>1, <2>2 DEF BufferInv
<1>3. ASSUME NEW w \in Worker, WorkerStep(w) PROVE BufferInv'
  <2>1. UNCHANGED <<progress, piece>>
    BY <1>3 DEF WorkerStep, Connect, ConnectFails, RangeEnds, PutBack,
                AttemptFails, CheckIntegrity, Report
  <2>2. CASE CheckIntegrity(w)
    <3>1. /\ pc[w] = "fetching"
          /\ pc' = [pc EXCEPT ![w] = IF Integrity(progress[w].buf)
                                     THEN "reporting" ELSE "putting"]
      BY <2>2 DEF CheckIntegrity
    <3> QED
      BY <1>t, <2>1, <3>1 DEF BufferInv
  <2>3. CASE ~CheckIntegrity(w)
    <3>1. pc' \in {[pc EXCEPT ![w] = "ranging"], [pc EXCEPT ![w] = "exited"],
                   [pc EXCEPT ![w] = "quitting"]}
      BY <1>3, <2>3 DEF WorkerStep, Connect, ConnectFails, RangeEnds, PutBack,
                        AttemptFails, Report
    <3> QED
      BY <1>t, <2>1, <3>1 DEF BufferInv
  <2> QED
    BY <2>2, <2>3
<1>4. CASE UNCHANGED vars
  BY <1>4 DEF vars, BufferInv
<1> QED
  BY <1>1, <1>2, <1>3, <1>4 DEF Next, Finished

LEMMA FileNext ==
    ASSUME QueueInv, BufferInv, FileInv, [Next]_vars
    PROVE  FileInv'
<1>1. ASSUME NEW w \in Worker, Report(w) PROVE FileInv'
  <2> DEFINE b == Bounds(piece[w])
             buf == progress[w].buf
  <2>1. /\ pc[w] = "reporting" /\ reported' = reported \cup {piece[w]}
        /\ file' = [n \in DOMAIN file |->
                      IF n \in b[1]..(b[2] - 1) THEN buf[n - b[1]] ELSE file[n]]
    BY <1>1 DEF Report
  <2>2. piece[w] \in Piece
    BY <2>1 DEF QueueInv, QueueTypeOK, Holds, Holding
  <2>3. b[1] \in Int /\ b[2] \in Int /\ PieceSize(piece[w]) = b[2] - b[1]
    BY <2>2, BoundsType
  <2>4. DOMAIN buf = 0..(PieceSize(piece[w]) - 1)
    BY <2>1 DEF BufferInv, IsProgress
  <2>5. \A m \in DOMAIN buf : buf[m] = "good"
    BY <2>1 DEF BufferInv, Integrity
  <2>6. \A n \in b[1]..(b[2] - 1) : buf[n - b[1]] = "good"
    BY <2>3, <2>4, <2>5
  <2> HIDE DEF b, buf
  <2>7. \A n \in 0..(Length - 1) :
            /\ n \in b[1]..(b[2] - 1) => file'[n] = "good"
            /\ file[n] = "good" => file'[n] = "good"
            /\ file'[n] \in Content
    BY <2>1, <2>6 DEF FileInv, Content
  <2>8. file' \in [0..(Length - 1) -> Content]
    BY <2>1, <2>7 DEF FileInv
  <2> QED
    BY <2>1, <2>7, <2>8 DEF FileInv, b
<1>2. ASSUME ~\E w \in Worker : Report(w) PROVE UNCHANGED <<file, reported>>
  BY <1>2, MessagesKeep
     DEF Next, WorkerStep, Take, Connect, ConnectFails, RangeEnds, PutBack,
         AttemptFails, CheckIntegrity, Finished, vars, resultVars
<1> QED
  BY <1>1, <1>2 DEF FileInv

\* What Download returns is the file, whatever the peers sent: blocks twice,
\* blocks nobody asked for, blocks of another size or content.
THEOREM FileIsCorrect == Spec => []FileCorrect
<1>1. Init => QueueInv /\ BufferInv /\ FileInv
  BY QueueInit, FileInit
<1>2. QueueInv /\ BufferInv /\ FileInv /\ [Next]_vars
        => QueueInv' /\ BufferInv' /\ FileInv'
  BY QueueNext, BufferNext, FileNext
<1>3. QueueInv /\ FileInv => FileCorrect
  BY FileInvCorrect
<1> QED
  BY <1>1, <1>2, <1>3, PTL DEF Spec

FaultsOK == faults \in Nat

LEMMA FaultsNext ==
    ASSUME FaultsOK, [Next]_vars
    PROVE  FaultsOK'
<1>1. ASSUME NEW w \in Worker, WorkerStep(w) \/ Take(w) PROVE faults' = faults
  BY <1>1 DEF WorkerStep, Take, Connect, ConnectFails, RangeEnds, PutBack,
              AttemptFails, CheckIntegrity, Report
<1>2. ASSUME NEW w \in Worker, Message(w) PROVE faults' \in Nat
  <2>1. CASE PieceArrives(w) \/ OtherMessageArrives(w)
    <3>1. faults' = faults
      BY <2>1 DEF PieceArrives, OtherMessageArrives
    <3> QED
      BY <3>1 DEF FaultsOK
  <2>2. CASE BadPieceArrives(w) \/ ChokeArrives(w)
    <3>1. faults > 0 /\ faults' = faults - 1
      BY <2>2 DEF BadPieceArrives, ChokeArrives
    <3> QED
      BY <3>1 DEF FaultsOK
  <2> QED
    BY <1>2, <2>1, <2>2 DEF Message
<1>3. CASE UNCHANGED vars
  BY <1>3 DEF FaultsOK, vars
<1> QED
  BY <1>1, <1>2, <1>3 DEF FaultsOK, Next, Finished

\* Type correctness, from the same invariant.
THEOREM TypeCorrect == Spec => []TypeOK
<1>1. Init => QueueInv /\ BufferInv /\ FileInv /\ FaultsOK
  BY QueueInit, FileInit, PieceAssumption DEF Init, FaultsOK
<1>2. QueueInv /\ BufferInv /\ FileInv /\ FaultsOK /\ [Next]_vars
        => QueueInv' /\ BufferInv' /\ FileInv' /\ FaultsOK'
  BY QueueNext, BufferNext, FileNext, FaultsNext
<1>3. QueueInv /\ FileInv /\ FaultsOK => TypeOK
  BY DEF QueueInv, QueueTypeOK, FileInv, FaultsOK, TypeOK
<1> QED
  BY <1>1, <1>2, <1>3, PTL DEF Spec

-----------------------------------------------------------------------------
(* The pipeline *)

\* Division with remainder, as the spacing of the blocks uses it.
LEMMA Blocks ==
    ASSUME NEW a \in Nat, NEW b \in Nat \ {0}
    PROVE  /\ a \div b \in Nat
           /\ a % b = 0 => a = b * (a \div b)
BY Z3

\* Positions that are whole blocks apart, and fewer than K blocks from the
\* first, are at most K.
LEMMA FewStarts ==
    ASSUME NEW r \in Nat, NEW length \in Int, NEW K \in Nat,
           NEW S \in SUBSET (r..(length - 1)),
           \A n \in S : /\ (n - r) % MaxBlockSize = 0
                        /\ (n - r) \div MaxBlockSize < K
    PROVE  IsFiniteSet(S) /\ Cardinality(S) \in Nat /\ Cardinality(S) <= K
<1> DEFINE q(n) == (n - r) \div MaxBlockSize
           f == [n \in S |-> q(n)]
<1>1. \A n \in S : n \in Int /\ n - r \in Nat
  OBVIOUS
<1>2. \A n \in S : q(n) \in Nat /\ n - r = MaxBlockSize * q(n)
  BY <1>1, Blocks, PieceAssumption
<1>3. \A n \in S : q(n) < K
  OBVIOUS
<1> HIDE DEF q
<1>4. f \in [S -> 0..(K - 1)]
  BY <1>2, <1>3
<1>5. \A m, n \in S : f[m] = f[n] => m = n
  <2> SUFFICES ASSUME NEW m \in S, NEW n \in S, f[m] = f[n]
               PROVE  m = n
    OBVIOUS
  <2>1. q(m) = q(n)
    OBVIOUS
  <2>2. m - r = n - r
    BY <1>2, <2>1
  <2> QED
    BY <1>1, <2>2
<1>6. IsFiniteSet(0..(K - 1)) /\ Cardinality(0..(K - 1)) = K
  <2>1. /\ IsFiniteSet(0..(K - 1))
        /\ Cardinality(0..(K - 1)) = IF 0 > K - 1 THEN 0 ELSE (K - 1) - 0 + 1
    BY FS_Interval
  <2> QED
    BY <2>1
<1>7. f \in Injection(S, 0..(K - 1))
  BY <1>4, <1>5 DEF Injection, IsInjective
<1>8. IsFiniteSet(S) /\ Cardinality(S) <= K
  BY <1>6, <1>7, FS_Injection
<1> QED
  BY <1>8, FS_CardinalityType

LEMMA Multiples ==
    ASSUME NEW b \in Nat \ {0}, NEW x \in Nat, NEW y \in Nat
    PROVE  /\ x * b \in Nat
           /\ (x + 1) * b = x * b + b
           /\ b * x < y * b => x < y
BY Z3

\* What a worker asks its peer for.
Request == [index : Piece, begin : Nat, len : Nat]

\* The requests start where the ones before ended, each begins inside the piece
\* and ends where the next begins, and the backlog has room for them.
LEMMA RequestsShape ==
    ASSUME NEW index \in Piece, NEW p, p.requested \in Nat, p.backlog \in Nat,
           p.backlog <= MaxBacklog
    PROVE  LET R == Requests(index, p)
           IN  /\ R \in Seq(Request)
               /\ p.backlog + Len(R) <= MaxBacklog
               /\ R # <<>> => R[1].begin = p.requested
               /\ \A k \in 1..Len(R) : R[k].begin < PieceSize(index)
               /\ \A k \in 1..(Len(R) - 1) :
                        R[k].begin + R[k].len = R[k + 1].begin
<1> DEFINE length == PieceSize(index)
           r == p.requested
           starts == {n \in r..(length - 1) :
                        /\ (n - r) % MaxBlockSize = 0
                        /\ p.backlog + (n - r) \div MaxBlockSize < MaxBacklog}
           C == Cardinality(starts)
           at(k) == r + (k - 1) * MaxBlockSize
           size(k) == BlockSize(at(k), length)
           R == [k \in 1..C |-> [index |-> index, begin |-> at(k),
                                 len |-> size(k)]]
<1>0. Requests(index, p) = R
  BY DEF Requests
<1>t. /\ length \in Int /\ r \in Nat /\ MaxBlockSize \in Nat \ {0}
      /\ MaxBacklog \in Nat /\ p.backlog \in Nat
  BY BoundsType, PieceAssumption
<1>1. \A n \in starts : /\ n \in Int /\ n - r \in Nat /\ n < length
                        /\ (n - r) % MaxBlockSize = 0
                        /\ p.backlog + (n - r) \div MaxBlockSize < MaxBacklog
                        /\ (n - r) \div MaxBlockSize \in Nat
                        /\ n - r = MaxBlockSize * ((n - r) \div MaxBlockSize)
  <2>1. \A n \in starts : /\ n \in Int /\ n - r \in Nat /\ n < length
                        /\ (n - r) % MaxBlockSize = 0
                        /\ p.backlog + (n - r) \div MaxBlockSize < MaxBacklog
    BY <1>t
  <2> HIDE DEF starts
  <2> QED
    BY <1>t, <2>1, Blocks
<1>2. starts \in SUBSET (r..(length - 1))
  OBVIOUS
<1> HIDE DEF starts, length, r
<1>3. /\ C \in Nat /\ p.backlog + C <= MaxBacklog
  <2> DEFINE K == MaxBacklog - p.backlog
  <2>1. K \in Nat
    BY <1>t
  <2>2. \A n \in starts : (n - r) \div MaxBlockSize < K
    BY <1>t, <1>1
  <2>3. C \in Nat /\ C <= K
    BY <1>t, <1>1, <1>2, <2>1, <2>2, FewStarts
  <2> QED
    BY <1>t, <2>3
<1>4. \A k \in 1..C : at(k) \in Nat /\ at(k) < length
  <2> SUFFICES ASSUME NEW k \in 1..C
               PROVE  at(k) \in Nat /\ at(k) < length
    OBVIOUS
  <2>0. k - 1 \in Nat
    BY <1>3
  <2>1. (k - 1) * MaxBlockSize \in Nat
    BY <1>t, <2>0, Multiples
  <2>2. CASE length <= at(k)
    <3>1. ASSUME NEW n \in starts
          PROVE  (n - r) \div MaxBlockSize < k - 1
      <4> DEFINE x == (n - r) \div MaxBlockSize
      <4>1. x \in Nat /\ n - r = MaxBlockSize * x /\ n < length /\ n \in Int
        BY <1>1
      <4> HIDE DEF x
      <4>2. n - r < (k - 1) * MaxBlockSize
        BY <1>t, <2>1, <2>2, <4>1
      <4>3. MaxBlockSize * x < (k - 1) * MaxBlockSize
        BY <4>1, <4>2
      <4> QED
        BY <1>t, <2>0, <4>1, <4>3, Multiples DEF x
    <3>2. C <= k - 1
      BY <1>t, <1>1, <1>2, <2>0, <3>1, FewStarts
    <3> QED
      BY <1>3, <2>0, <3>2
  <2> QED
    BY <1>t, <2>1, <2>2
<1>5. \A k \in 1..C : size(k) \in Nat
  <2> HIDE DEF at
  <2> QED
    BY <1>t, <1>4 DEF BlockSize
<1>6. \A k \in 1..(C - 1) : at(k) + size(k) = at(k + 1)
  <2> SUFFICES ASSUME NEW k \in 1..(C - 1)
               PROVE  at(k) + size(k) = at(k + 1)
    OBVIOUS
  <2>1. k - 1 \in Nat /\ k \in 1..C /\ k + 1 \in 1..C /\ k = (k - 1) + 1
    BY <1>3
  <2>2. k * MaxBlockSize = (k - 1) * MaxBlockSize + MaxBlockSize
    BY <1>t, <2>1, Multiples
  <2>3. (k - 1) * MaxBlockSize \in Nat
    BY <1>t, <2>1, Multiples
  <2>4. at(k + 1) = at(k) + MaxBlockSize
    BY <1>t, <2>1, <2>2, <2>3
  <2>5. at(k) \in Nat /\ at(k + 1) < length
    BY <1>4, <2>1
  <2> HIDE DEF at
  <2> QED
    BY <1>t, <2>4, <2>5 DEF BlockSize
<1>7. at(1) = r
  BY <1>t
<1> HIDE DEF at, size, C
<1>8. /\ R \in Seq(Request) /\ Len(R) = C
      /\ \A k \in 1..C : R[k].begin = at(k) /\ R[k].len = size(k)
  BY <1>3, <1>4, <1>5 DEF Request
<1> HIDE DEF R
<1>9. R # <<>> => 1 \in 1..C
  BY <1>3, <1>8
<1>10. \A k \in 1..(C - 1) : k \in 1..C /\ k + 1 \in 1..C
  BY <1>3
<1> QED
  BY <1>0, <1>3, <1>4, <1>6, <1>7, <1>8, <1>9, <1>10 DEF length, r

\* The requests q that wait for an answer follow each other without a gap, from
\* the first position not downloaded to the first not requested.
Chain(q, from, to, size) ==
    /\ q = <<>> => from = to
    /\ q # <<>> => q[1].begin = from
    /\ \A k \in 1..Len(q) :
          /\ q[k].begin < size
          /\ q[k].begin + q[k].len = IF k = Len(q) THEN to ELSE q[k + 1].begin

\* Requests that follow those that wait prolong the chain.
LEMMA ChainGrows ==
    ASSUME NEW q \in Seq(Request), NEW R \in Seq(Request), NEW size \in Int,
           NEW from \in Nat, NEW to \in Nat, Chain(q, from, to, size),
           R # <<>> => R[1].begin = to,
           \A k \in 1..Len(R) : R[k].begin < size,
           \A k \in 1..(Len(R) - 1) : R[k].begin + R[k].len = R[k + 1].begin,
           NEW end,
           end = IF R = <<>> THEN to ELSE R[Len(R)].begin + R[Len(R)].len
    PROVE  /\ q \o R \in Seq(Request) /\ Len(q \o R) = Len(q) + Len(R)
           /\ Chain(q \o R, from, end, size)
           /\ end \in Nat
<1> DEFINE z == q \o R
<1>1. z \in Seq(Request) /\ Len(z) = Len(q) + Len(R)
  OBVIOUS
<1>2. Len(q) \in Nat /\ Len(R) \in Nat
  OBVIOUS
<1>3. /\ \A k \in 1..Len(q) : z[k] = q[k]
      /\ \A k \in 1..Len(R) : z[Len(q) + k] = R[k]
  OBVIOUS
<1>4. (q = <<>> <=> Len(q) = 0) /\ (R = <<>> <=> Len(R) = 0)
        /\ (z = <<>> <=> Len(z) = 0)
  OBVIOUS
<1>5. \A k \in 1..Len(R) : R[k].begin \in Nat /\ R[k].len \in Nat
  <2>1. \A k \in 1..Len(R) : R[k] \in Request
    OBVIOUS
  <2> QED
    BY <2>1 DEF Request
<1>6. end \in Nat
  BY <1>2, <1>4, <1>5
<1> HIDE DEF z
<1>7. z = <<>> => from = end
  BY <1>1, <1>2, <1>4 DEF Chain
<1>8. z # <<>> => z[1].begin = from
  <2>1. CASE q # <<>>
    BY <1>2, <1>3, <1>4, <2>1 DEF Chain
  <2>2. CASE q = <<>> /\ R # <<>>
    <3>1. z[1] = R[1]
      BY <1>2, <1>3, <1>4, <2>2
    <3> QED
      BY <2>2, <3>1 DEF Chain
  <2> QED
    BY <1>1, <1>2, <1>4, <2>1, <2>2
<1>9. ASSUME NEW k \in 1..Len(z)
      PROVE  /\ z[k].begin < size
             /\ z[k].begin + z[k].len =
                    IF k = Len(z) THEN end ELSE z[k + 1].begin
  <2>1. CASE k < Len(q)
    <3>0. k \in 1..Len(q) /\ k + 1 \in 1..Len(q)
      BY <1>1, <1>2, <2>1
    <3>1. z[k] = q[k] /\ z[k + 1] = q[k + 1] /\ k \in 1..Len(q)
      BY <1>3, <3>0
    <3>2. q[k].begin < size /\ q[k].begin + q[k].len = q[k + 1].begin
      BY <1>2, <2>1, <3>1 DEF Chain
    <3>3. k # Len(z)
      BY <1>1, <1>2, <2>1
    <3> QED
      BY <3>1, <3>2, <3>3
  <2>2. CASE k = Len(q)
    <3>1. z[k] = q[k] /\ k \in 1..Len(q)
      BY <1>2, <1>3, <2>2
    <3>2. q[k].begin < size /\ q[k].begin + q[k].len = to
      BY <2>2, <3>1 DEF Chain
    <3>3. CASE R = <<>>
      BY <1>1, <1>2, <1>4, <2>2, <3>1, <3>2, <3>3
    <3>4. CASE R # <<>>
      <4>1. 1 \in 1..Len(R) /\ k # Len(z)
        BY <1>1, <1>2, <1>4, <2>2, <3>4
      <4>2. z[k + 1] = R[1]
        BY <1>3, <2>2, <4>1
      <4> QED
        BY <3>1, <3>2, <3>4, <4>1, <4>2
    <3> QED
      BY <3>3, <3>4
  <2>3. CASE k > Len(q)
    <3>1. PICK m \in 1..Len(R) : k = Len(q) + m
      <4>1. k - Len(q) \in 1..Len(R) /\ k = Len(q) + (k - Len(q))
        BY <1>1, <1>2, <2>3
      <4> QED
        BY <4>1
    <3>2. z[k] = R[m] /\ R # <<>>
      BY <1>2, <1>3, <1>4, <3>1
    <3>3. CASE m = Len(R)
      <4>1. k = Len(z)
        BY <1>1, <3>1, <3>3
      <4> QED
        BY <3>2, <3>3, <4>1
    <3>4. CASE m # Len(R)
      <4>1. m \in 1..(Len(R) - 1) /\ m + 1 \in 1..Len(R) /\ k # Len(z)
             /\ k + 1 = Len(q) + (m + 1)
        BY <1>1, <1>2, <3>1, <3>4
      <4>2. z[k + 1] = R[m + 1]
        BY <1>3, <4>1
      <4>3. R[m].begin + R[m].len = R[m + 1].begin
        BY <4>1
      <4> QED
        BY <3>2, <4>1, <4>2, <4>3
    <3> QED
      BY <3>3, <3>4
  <2> QED
    BY <1>1, <1>2, <2>1, <2>2, <2>3
<1> QED
  BY <1>1, <1>6, <1>7, <1>8, <1>9 DEF Chain, z

\* The answer to the first request takes it off the chain.
LEMMA ChainShrinks ==
    ASSUME NEW q \in Seq(Request), NEW size \in Int, NEW from \in Nat,
           NEW to \in Nat, Chain(q, from, to, size), q # <<>>
    PROVE  /\ Tail(q) \in Seq(Request) /\ Len(Tail(q)) = Len(q) - 1
           /\ from + Head(q).len \in Nat
           /\ Chain(Tail(q), from + Head(q).len, to, size)
<1> DEFINE z == Tail(q)
<1>1. /\ z \in Seq(Request) /\ Len(z) = Len(q) - 1 /\ Len(q) \in Nat \ {0}
      /\ \A k \in 1..Len(z) : z[k] = q[k + 1]
      /\ Head(q) = q[1]
      /\ z = <<>> <=> Len(z) = 0
  <2>1. Len(q) \in Nat \ {0} /\ Head(q) = q[1]
    OBVIOUS
  <2>2. z \in Seq(Request) /\ Len(z) = Len(q) - 1
    OBVIOUS
  <2>3. \A k \in 1..Len(z) : z[k] = q[k + 1]
    OBVIOUS
  <2> HIDE DEF z
  <2>4. z = <<>> <=> Len(z) = 0
    BY <2>2
  <2> QED
    BY <2>1, <2>2, <2>3, <2>4
<1>2. q[1] \in Request
  BY <1>1
<1>3. q[1].begin = from /\ q[1].len \in Nat
  BY <1>2 DEF Chain, Request
<1> HIDE DEF z
<1>4. z = <<>> => from + q[1].len = to
  BY <1>1, <1>3 DEF Chain
<1>5. z # <<>> => z[1].begin = from + q[1].len
  <2> SUFFICES ASSUME z # <<>>
               PROVE  z[1].begin = from + q[1].len
    OBVIOUS
  <2>1. 1 \in 1..Len(z) /\ 1 \in 1..Len(q) /\ 1 # Len(q)
    BY <1>1
  <2>2. z[1] = q[2]
    BY <1>1, <2>1
  <2>3. q[1].begin + q[1].len = q[1 + 1].begin
    BY <2>1 DEF Chain
  <2> QED
    BY <1>3, <2>2, <2>3
<1>6. ASSUME NEW k \in 1..Len(z)
      PROVE  /\ z[k].begin < size
             /\ z[k].begin + z[k].len =
                    IF k = Len(z) THEN to ELSE z[k + 1].begin
  <2>0. PICK m \in 1..Len(q) : m = k + 1
    BY <1>1
  <2>1. z[k] = q[m] /\ (m = Len(q) <=> k = Len(z))
    BY <1>1, <2>0
  <2>2. /\ q[m].begin < size
        /\ q[m].begin + q[m].len = IF m = Len(q) THEN to ELSE q[m + 1].begin
    BY DEF Chain
  <2>3. k # Len(z) => z[k + 1] = q[m + 1]
    BY <1>1, <2>0
  <2> QED
    BY <2>1, <2>2, <2>3
<1>7. Chain(z, from + q[1].len, to, size)
  BY <1>4, <1>5, <1>6 DEF Chain
<1>8. from + q[1].len \in Nat
  BY <1>3
<1> QED
  BY <1>1, <1>7, <1>8 DEF z

IsConn(c) ==
    \E A, B : c \in [choked : A, asked : Seq(Request), bitfield : B]

\* What a worker's peer owes it: a chain of as many requests as are counted,
\* which the backlog has room for.
Waits(q, p, size) ==
    /\ p.requested \in Nat /\ p.downloaded \in Nat
    /\ p.backlog = Len(q) /\ Len(q) <= MaxBacklog
    /\ Chain(q, p.downloaded, p.requested, size)

\* An honest worker has nothing outstanding unless it fetches: the last answer
\* to what it asked for is what completes the piece.
PipelineInv ==
    /\ DOMAIN conn = Worker
    /\ \A w \in Honest :
          /\ IsConn(conn[w])
          /\ pc[w] # "fetching" => conn[w].asked = <<>>
          /\ pc[w] = "fetching" =>
                Waits(conn[w].asked, progress[w], PieceSize(piece[w]))

\* Sending what the pipeline has room for.
LEMMA PipelinedWaits ==
    ASSUME NEW index \in Piece, NEW p, NEW c, IsConn(c),
           IsProgress(p, PieceSize(index)), Waits(c.asked, p, PieceSize(index))
    PROVE  LET s == Pipelined(index, p, c)
           IN  /\ IsConn(s.conn)
               /\ Waits(s.conn.asked, s.progress, PieceSize(index))
<1> DEFINE R == IF c.choked THEN <<>> ELSE Requests(index, p)
           end == IF R = <<>> THEN p.requested
                  ELSE R[Len(R)].begin + R[Len(R)].len
           n == p.backlog + Len(R)
           z == c.asked \o R
           s == Pipelined(index, p, c)
           G == [0..(PieceSize(index) - 1) -> Content]
<1>0. /\ s.progress = [p EXCEPT !.requested = end, !.backlog = n]
      /\ s.conn = [c EXCEPT !.asked = z]
  BY DEF Pipelined
<1>1. /\ c.asked \in Seq(Request) /\ p.requested \in Nat /\ p.downloaded \in Nat
      /\ p.backlog = Len(c.asked) /\ p.backlog <= MaxBacklog
      /\ Chain(c.asked, p.downloaded, p.requested, PieceSize(index))
  BY DEF Waits, IsConn
<1>2. p.backlog \in Nat /\ MaxBacklog \in Nat /\ PieceSize(index) \in Int
  BY <1>1, PieceAssumption, BoundsType
<1>3. /\ R \in Seq(Request)
      /\ p.backlog + Len(R) <= MaxBacklog
      /\ R # <<>> => R[1].begin = p.requested
      /\ \A k \in 1..Len(R) : R[k].begin < PieceSize(index)
      /\ \A k \in 1..(Len(R) - 1) : R[k].begin + R[k].len = R[k + 1].begin
  <2>1. CASE c.choked
    <3>1. R = <<>>
      BY <2>1
    <3> HIDE DEF R
    <3>2. Len(R) = 0 /\ R \in Seq(Request)
      BY <3>1
    <3> QED
      BY <1>1, <1>2, <3>1, <3>2
  <2>2. CASE ~c.choked
    <3>1. R = Requests(index, p)
      BY <2>2
    <3> QED
      BY <1>1, <1>2, <3>1, RequestsShape
  <2> QED
    BY <2>1, <2>2
<1>e. end = IF R = <<>> THEN p.requested ELSE R[Len(R)].begin + R[Len(R)].len
  OBVIOUS
<1> HIDE DEF R, end
<1>4. /\ z \in Seq(Request) /\ Len(z) = Len(c.asked) + Len(R) /\ end \in Nat
      /\ Chain(z, p.downloaded, end, PieceSize(index))
  <2> DEFINE q == c.asked
             from == p.downloaded
             to == p.requested
             size == PieceSize(index)
  <2>1. /\ q \in Seq(Request) /\ R \in Seq(Request) /\ size \in Int
        /\ from \in Nat /\ to \in Nat /\ Chain(q, from, to, size)
        /\ R # <<>> => R[1].begin = to
        /\ end = IF R = <<>> THEN to ELSE R[Len(R)].begin + R[Len(R)].len
    BY <1>1, <1>2, <1>3, <1>e
  <2>2. /\ \A k \in 1..Len(R) : R[k].begin < size
        /\ \A k \in 1..(Len(R) - 1) : R[k].begin + R[k].len = R[k + 1].begin
    BY <1>3
  <2> HIDE DEF q, from, to, size
  <2>3. /\ q \o R \in Seq(Request) /\ Len(q \o R) = Len(q) + Len(R)
        /\ Chain(q \o R, from, end, size)
        /\ end \in Nat
    BY <2>1, <2>2, ChainGrows
  <2> QED
    BY <2>3 DEF q, from, to, size
<1> HIDE DEF n, z, s, G
<1>5. /\ s.progress.requested = end /\ s.progress.backlog = n
      /\ s.progress.downloaded = p.downloaded
  <2>1. PICK A, B, C : p \in [requested : A, downloaded : B, backlog : C, buf : G]
    BY DEF IsProgress, G
  <2> QED
    BY <1>0, <2>1
<1>6. s.conn.asked = z /\ IsConn(s.conn)
  <2>1. PICK A, B : c \in [choked : A, asked : Seq(Request), bitfield : B]
    BY DEF IsConn
  <2>2. s.conn \in [choked : A, asked : Seq(Request), bitfield : B]
    BY <1>0, <1>4, <2>1
  <2>3. s.conn.asked = z
    BY <1>0, <2>1
  <2> QED
    BY <2>2, <2>3 DEF IsConn
<1>7. Waits(z, s.progress, PieceSize(index))
  BY <1>1, <1>3, <1>4, <1>5 DEF Waits, n
<1> QED
  BY <1>6, <1>7 DEF s

\* The answer to the first request.
LEMMA ReceivedWaits ==
    ASSUME NEW c, NEW p, NEW size \in Int, IsConn(c), IsProgress(p, size),
           Waits(c.asked, p, size), c.asked # <<>>
    PROVE  LET d == [c EXCEPT !.asked = Tail(c.asked)]
           IN  /\ IsConn(d)
               /\ Waits(d.asked, Received(p, Head(c.asked), "good"), size)
<1> DEFINE z == Tail(c.asked)
           d == [c EXCEPT !.asked = z]
           b == Head(c.asked)
           e == Received(p, b, "good")
           G == [0..(size - 1) -> Content]
<1>1. /\ c.asked \in Seq(Request) /\ p.requested \in Nat /\ p.downloaded \in Nat
      /\ p.backlog = Len(c.asked) /\ Len(c.asked) <= MaxBacklog
      /\ Chain(c.asked, p.downloaded, p.requested, size)
  BY DEF Waits, IsConn
<1>2. /\ z \in Seq(Request) /\ Len(z) = Len(c.asked) - 1
      /\ p.downloaded + b.len \in Nat
      /\ Chain(z, p.downloaded + b.len, p.requested, size)
  BY <1>1, ChainShrinks
<1>3. /\ e.requested = p.requested /\ e.backlog = p.backlog - 1
      /\ e.downloaded = p.downloaded + b.len
  <2>1. PICK A, B, C : p \in [requested : A, downloaded : B, backlog : C, buf : G]
    BY DEF IsProgress
  <2>2. PICK h : e = [p EXCEPT !.buf = h, !.downloaded = p.downloaded + b.len,
                              !.backlog = p.backlog - 1]
    BY DEF Received
  <2> HIDE DEF e, b, G
  <2> QED
    BY <2>1, <2>2
<1> HIDE DEF z, e, b
<1>4. d.asked = z /\ IsConn(d)
  <2>1. PICK A, B : c \in [choked : A, asked : Seq(Request), bitfield : B]
    BY DEF IsConn
  <2>2. d \in [choked : A, asked : Seq(Request), bitfield : B]
    BY <1>2, <2>1
  <2>3. d.asked = z
    BY <2>1
  <2> HIDE DEF d
  <2> QED
    BY <2>2, <2>3 DEF IsConn
<1>5. Waits(z, e, size)
  <2>1. Len(z) <= MaxBacklog /\ Len(c.asked) \in Nat
    BY <1>1, <1>2, PieceAssumption
  <2> QED
    BY <1>1, <1>2, <1>3, <2>1 DEF Waits
<1> QED
  BY <1>4, <1>5 DEF z, e, b

\* Any message to an honest worker.
LEMMA HonestMessage ==
    ASSUME QueueInv, BufferInv, PipelineInv, NEW w \in Honest, Message(w)
    PROVE  \E c, p : /\ conn' = [conn EXCEPT ![w] = c] /\ IsConn(c)
                     /\ progress' = [progress EXCEPT ![w] = p]
                     /\ Waits(c.asked, p, PieceSize(piece[w]))
<1> DEFINE s == Pipelined(piece[w], progress[w], conn[w])
           size == PieceSize(piece[w])
<1>0. w \in Worker /\ pc[w] = "fetching"
  BY MessagesKeep, WorkerAssumption
<1>1. piece[w] \in Piece /\ size \in Int
  BY <1>0, BoundsType DEF QueueInv, QueueTypeOK, Holds, Holding
<1>2. IsProgress(progress[w], size)
  BY <1>0 DEF BufferInv
<1>3. IsConn(s.conn) /\ Waits(s.conn.asked, s.progress, size)
  BY <1>0, <1>1, <1>2, PipelinedWaits DEF PipelineInv
<1>4. IsProgress(s.progress, size)
  BY <1>2, PipelinedType
<1>5. CASE PieceArrives(w)
  <2>1. /\ s.conn.asked # <<>>
        /\ conn' = [conn EXCEPT ![w] = [s.conn EXCEPT !.asked = Tail(s.conn.asked)]]
        /\ progress' = [progress EXCEPT ![w] =
                          Received(s.progress, Head(s.conn.asked), "good")]
    BY <1>5 DEF PieceArrives, Iterates
  <2> HIDE DEF s, size
  <2> QED
    BY <1>1, <1>3, <1>4, <2>1, ReceivedWaits DEF size
<1>6. CASE OtherMessageArrives(w)
  <2>1. /\ conn' = [conn EXCEPT ![w] = [s.conn EXCEPT !.choked = FALSE]]
        /\ progress' = [progress EXCEPT ![w] = s.progress]
    BY <1>6 DEF OtherMessageArrives, Iterates
  <2> HIDE DEF s, size
  <2>2. PICK A, B : s.conn \in [choked : A, asked : Seq(Request), bitfield : B]
    BY <1>3 DEF IsConn
  <2> DEFINE d == [s.conn EXCEPT !.choked = FALSE]
  <2>3. d \in [choked : {FALSE}, asked : Seq(Request), bitfield : B]
    BY <2>2
  <2>4. d.asked = s.conn.asked
    BY <2>2
  <2>5. conn' = [conn EXCEPT ![w] = d]
    BY <2>1
  <2> HIDE DEF d
  <2>6. IsConn(d) /\ Waits(d.asked, s.progress, size)
    BY <1>3, <2>3, <2>4 DEF IsConn
  <2> QED
    BY <2>1, <2>5, <2>6 DEF size
<1> QED
  BY <1>5, <1>6 DEF Message, BadPieceArrives, ChokeArrives

LEMMA PipelineNext ==
    ASSUME QueueInv, BufferInv, PipelineInv, [Next]_vars
    PROVE  PipelineInv'
<1>t. /\ pc \in [Worker -> WorkerPC] /\ DOMAIN piece = Worker
      /\ DOMAIN progress = Worker /\ DOMAIN conn = Worker
      /\ Honest \subseteq Worker
  BY WorkerAssumption DEF QueueInv, QueueTypeOK, BufferInv, PipelineInv
<1>1. ASSUME NEW v \in Worker, Message(v) PROVE PipelineInv'
  <2>0. UNCHANGED <<pc, piece>> /\ pc[v] = "fetching"
    BY <1>1, MessagesKeep
  <2>1. PICK c, p : /\ conn' = [conn EXCEPT ![v] = c]
                    /\ progress' = [progress EXCEPT ![v] = p]
                    /\ v \in Honest => /\ IsConn(c)
                                       /\ Waits(c.asked, p, PieceSize(piece[v]))
    <3>1. CASE v \in Honest
      BY <1>1, <3>1, HonestMessage
    <3>2. CASE v \notin Honest
      <4>1. \E c, p : Iterates(v, c, p)
        BY <1>1 DEF Message, PieceArrives, BadPieceArrives,
                    OtherMessageArrives, ChokeArrives
      <4> QED
        BY <3>2, <4>1 DEF Iterates
    <3> QED
      BY <3>1, <3>2
  <2> QED
    BY <1>t, <2>0, <2>1 DEF PipelineInv
<1>2. ASSUME NEW v \in Worker, Take(v) PROVE PipelineInv'
  <2> DEFINE p == Head(workQueue)
  <2>1. /\ progress' = [progress EXCEPT ![v] = NewProgress(p)]
        /\ piece' = [piece EXCEPT ![v] = p] /\ conn' = conn
        /\ pc[v] = "ranging"
        /\ pc' \in {[pc EXCEPT ![v] = "fetching"], [pc EXCEPT ![v] = "putting"]}
    BY <1>2 DEF Take
  <2>2. Waits(<<>>, NewProgress(p), PieceSize(p))
    BY PieceAssumption DEF Waits, NewProgress, Chain
  <2> HIDE DEF p
  <2> QED
    BY <1>t, <2>1, <2>2 DEF PipelineInv
<1>3. ASSUME NEW v \in Worker, Connect(v) PROVE PipelineInv'
  <2>1. PICK x : conn' = [conn EXCEPT ![v].bitfield = x]
    BY <1>3 DEF Connect
  <2>2. /\ pc[v] = "connecting" /\ pc' = [pc EXCEPT ![v] = "ranging"]
        /\ UNCHANGED <<piece, progress>>
    BY <1>3 DEF Connect
  <2>3. ASSUME NEW w \in Honest
        PROVE  conn'[w].asked = conn[w].asked /\ IsConn(conn'[w])
    <3>1. PICK A, B : conn[w] \in [choked : A, asked : Seq(Request), bitfield : B]
      BY DEF PipelineInv, IsConn
    <3>2. conn'[w] = conn[w] \/ conn'[w] = [conn[w] EXCEPT !.bitfield = x]
      BY <1>t, <2>1
    <3>3. CASE conn'[w] = [conn[w] EXCEPT !.bitfield = x]
      <4>1. conn'[w] \in [choked : A, asked : Seq(Request), bitfield : {x}]
        BY <3>1, <3>3
      <4>2. conn'[w].asked = conn[w].asked
        BY <3>1, <3>3
      <4> QED
        BY <4>1, <4>2 DEF IsConn
    <3> QED
      BY <3>2, <3>3 DEF PipelineInv
  <2> QED
    BY <1>t, <2>1, <2>2, <2>3 DEF PipelineInv
<1>4. ASSUME NEW v \in Worker, CheckIntegrity(v) PROVE PipelineInv'
  <2>1. /\ pc[v] = "fetching" /\ UNCHANGED <<piece, progress, conn>>
        /\ progress[v].downloaded >= PieceSize(piece[v])
        /\ pc' \in {[pc EXCEPT ![v] = "reporting"], [pc EXCEPT ![v] = "putting"]}
    BY <1>4 DEF CheckIntegrity
  <2>2. v \in Honest => conn[v].asked = <<>>
    <3> SUFFICES ASSUME v \in Honest, conn[v].asked # <<>>
                 PROVE  FALSE
      OBVIOUS
    <3> DEFINE q == conn[v].asked
               size == PieceSize(piece[v])
               d == progress[v].downloaded
    <3>1. q \in Seq(Request)
      BY DEF PipelineInv, IsConn
    <3>2. Chain(q, d, progress[v].requested, size) /\ d \in Nat
      BY <2>1 DEF PipelineInv, Waits
    <3>3. size \in Int
      BY <2>1, BoundsType DEF QueueInv, QueueTypeOK, Holds, Holding
    <3>4. 1 \in 1..Len(q)
      BY <3>1
    <3>5. d < size
      BY <3>2, <3>4 DEF Chain
    <3> QED
      BY <2>1, <3>2, <3>3, <3>5
  <2> QED
    BY <1>t, <2>1, <2>2 DEF PipelineInv
<1>5. ASSUME NEW v \in Worker,
             ConnectFails(v) \/ RangeEnds(v) \/ PutBack(v) \/ AttemptFails(v)
                \/ Report(v)
      PROVE  PipelineInv'
  <2>1. /\ UNCHANGED <<piece, progress, conn>>
        /\ pc[v] = "fetching" => v \notin Honest
        /\ pc' \in {[pc EXCEPT ![v] = "exited"], [pc EXCEPT ![v] = "ranging"],
                    [pc EXCEPT ![v] = "quitting"]}
    BY <1>5 DEF ConnectFails, RangeEnds, PutBack, AttemptFails, Report
  <2> QED
    BY <1>t, <2>1 DEF PipelineInv
<1>6. CASE UNCHANGED vars
  BY <1>6 DEF vars, PipelineInv
<1> QED
  BY <1>1, <1>2, <1>3, <1>4, <1>5, <1>6 DEF Next, WorkerStep, Finished

LEMMA PipelineInit == Init => PipelineInv
<1> SUFFICES ASSUME Init
             PROVE  PipelineInv
  OBVIOUS
<1> DEFINE c == [choked |-> TRUE, asked |-> <<>>,
                 bitfield |-> [bytes |-> 0, set |-> {}]]
           b == [bytes |-> 0, set |-> {}]
<1>1. conn = [w \in Worker |-> c] /\ pc = [w \in Worker |-> "connecting"]
  BY DEF Init
<1>2. c \in [choked : {TRUE}, asked : Seq(Request), bitfield : {b}]
        /\ c.asked = <<>>
  OBVIOUS
<1> HIDE DEF c, b
<1>3. IsConn(c)
  BY <1>2 DEF IsConn
<1> QED
  BY <1>1, <1>2, <1>3, WorkerAssumption DEF PipelineInv

\* A well-behaved peer never owes more than MaxBacklog blocks, however the
\* piece's length and the block size divide and however many pieces the worker
\* fetches over one connection.
THEOREM PipelineIsBounded == Spec => []PipelineBounded
<1> DEFINE I == QueueInv /\ BufferInv /\ PipelineInv
<1>1. Init => I
  BY QueueInit, FileInit, PipelineInit
<1>2. I /\ [Next]_vars => I'
  BY QueueNext, BufferNext, PipelineNext
<1>3. PipelineInv => PipelineBounded
  <2> SUFFICES ASSUME PipelineInv, NEW w \in Honest
               PROVE  Len(conn[w].asked) <= MaxBacklog
    BY DEF PipelineBounded
  <2>1. CASE pc[w] = "fetching"
    BY <2>1 DEF PipelineInv, Waits
  <2>2. CASE pc[w] # "fetching"
    <3>1. Len(conn[w].asked) = 0
      BY <2>2 DEF PipelineInv
    <3> QED
      BY <3>1, PieceAssumption
  <2> QED
    BY <2>1, <2>2
<1> QED
  BY <1>1, <1>2, <1>3, PTL DEF Spec
=============================================================================
