-------------------------- MODULE TorrentDownload --------------------------
(***************************************************************************)
(* The download of torrent-client/p2p: Download fills a work queue with    *)
(* the pieces, one worker per peer takes pieces off it, fetches them block *)
(* by block over its connection (client, message, bitfield), checks their  *)
(* hash and hands them to Download, which assembles the file.  A piece     *)
(* that cannot be had is put back on the queue.                            *)
(*                                                                         *)
(* A worker's steps are the channel operations and, in between, one        *)
(* iteration of the loop of attemptDownloadPiece: send what the pipeline   *)
(* has room for, read one message.  Lengths are in units of which a block  *)
(* has MaxBlockSize; what a unit holds is abstracted to whether it is the  *)
(* right content, so a piece passes its hash exactly when it is all good.  *)
(*                                                                         *)
(* The peer at the other end is not part of the program.  The peer of an   *)
(* honest worker answers what it is asked; any other may do anything.      *)
(***************************************************************************)
EXTENDS Integers, Sequences, FiniteSets

CONSTANTS
    Worker,       \* t.Peers: one worker each
    Honest,       \* the workers whose peer has everything and behaves
    NumPieces,    \* len(t.PieceHashes)
    PieceLength,  \* t.PieceLength
    Length,       \* t.Length
    MaxBlockSize,
    MaxBacklog,
    MaxFaults     \* bound on what the peers do wrong

ASSUME WorkerAssumption == Honest \subseteq Worker
ASSUME PieceAssumption ==
    /\ NumPieces \in Nat /\ MaxFaults \in Nat
    /\ PieceLength \in Nat \ {0} /\ Length \in Nat
    /\ MaxBlockSize \in Nat \ {0} /\ MaxBacklog \in Nat \ {0}
\* The torrent file is well formed: its hashes are those of its pieces.
ASSUME LengthAssumption ==
    /\ (NumPieces - 1) * PieceLength < Length
    /\ Length <= NumPieces * PieceLength

VARIABLES
    workQueue,    \* the buffered channel, of capacity NumPieces
    closed,       \* Download has closed the channel and returned
    file,         \* Download's buf
    donePieces,   \* Download's counter
    reported,     \* history: the pieces Download has received
    pc, piece,    \* where each worker is, and the piece it holds
    conn,         \* its client: [choked, bitfield, asked]
    progress,     \* its pieceProgress: [requested, downloaded, backlog, buf]
    faults        \* what is left of MaxFaults

queueVars == <<workQueue, closed>>
resultVars == <<file, donePieces, reported>>
vars == <<queueVars, resultVars, pc, piece, conn, progress, faults>>

Piece == 0..(NumPieces - 1)
Content == {"zero", "good", "bad"}

\* Where a worker can be.  It holds a piece from taking it until it has put it
\* back ("putting", or "quitting" when it exits afterwards) or handed it over.
Holding == {"fetching", "putting", "quitting", "reporting"}
WorkerPC == Holding \cup {"connecting", "ranging", "exited"}

Holds(w) == pc[w] \in Holding

-----------------------------------------------------------------------------
(* Pieces and blocks *)

\* calculateBoundsForPiece: begin and end of a piece in the file.
Bounds(index) ==
    <<index * PieceLength,
      IF (index + 1) * PieceLength > Length THEN Length
      ELSE (index + 1) * PieceLength>>

\* calculatePieceSize
PieceSize(index) == Bounds(index)[2] - Bounds(index)[1]

\* A new pieceProgress for a piece: nothing requested, the buffer all zero.
NewProgress(index) ==
    [requested |-> 0, downloaded |-> 0, backlog |-> 0,
     buf |-> [n \in 0..(PieceSize(index) - 1) |-> "zero"]]

IntegrityUnchecked(buf) == TRUE

\* checkIntegrity
Integrity(buf) == \A n \in DOMAIN buf : buf[n] = "good"

BlockSize(requested, length) ==
    IF length - requested < MaxBlockSize THEN length - requested ELSE MaxBlockSize

RequestsUncapped(index, p) ==
    LET length == PieceSize(index)
        starts == {n \in p.requested..(length - 1) :
                        (n - p.requested) % MaxBlockSize = 0}
    IN  [k \in 1..Cardinality(starts) |->
            LET begin == p.requested + (k - 1) * MaxBlockSize
            IN  [index |-> index, begin |-> begin,
                 len |-> BlockSize(begin, length)]]

\* The requests an unchoked worker sends: as many blocks as its backlog has
\* room for, from the first one it has not requested.
Requests(index, p) ==
    LET length == PieceSize(index)
        starts == {n \in p.requested..(length - 1) :
                    /\ (n - p.requested) % MaxBlockSize = 0
                    /\ p.backlog + (n - p.requested) \div MaxBlockSize < MaxBacklog}
    IN  [k \in 1..Cardinality(starts) |->
            LET begin == p.requested + (k - 1) * MaxBlockSize
            IN  [index |-> index, begin |-> begin,
                 len |-> BlockSize(begin, length)]]

\* The progress and the connection after those requests were sent.
Pipelined(index, p, c) ==
    LET reqs == IF c.choked THEN <<>> ELSE Requests(index, p)
        sent == IF reqs = <<>> THEN p.requested
                ELSE reqs[Len(reqs)].begin + reqs[Len(reqs)].len
    IN  [progress |-> [p EXCEPT !.requested = sent,
                                !.backlog = @ + Len(reqs)],
         conn |-> [c EXCEPT !.asked = @ \o reqs]]

\* ParsePiece accepts a block when it is of this piece and fits its buffer.
Fits(index, buf, block) ==
    /\ block.index = index
    /\ block.begin < Cardinality(DOMAIN buf)
    /\ block.begin + block.len <= Cardinality(DOMAIN buf)

\* ParsePiece copies an accepted block; readMessage counts it.
Received(p, block, content) ==
    [p EXCEPT !.buf = [n \in DOMAIN @ |->
                         IF n \in block.begin..(block.begin + block.len - 1)
                         THEN content ELSE @[n]],
              !.downloaded = @ + block.len,
              !.backlog = @ - 1]

\* SetPiece discards an index the bitfield has no bit for.
SetPiece(bf, index) ==
    IF index \div 8 < bf.bytes THEN [bf EXCEPT !.set = @ \cup {index}] ELSE bf

HasPiece(bf, index) == index \in bf.set

\* The length of a bitfield with a bit for every piece.
BitfieldBytes == (NumPieces + 7) \div 8

-----------------------------------------------------------------------------
(* The workers *)

FilledFromOne == [n \in 1..NumPieces |-> n]

\* The queue as Download fills it, with the pieces in order.
Filled == [n \in 1..NumPieces |-> n - 1]

Init ==
    /\ workQueue = Filled
    /\ closed = (NumPieces = 0)
    /\ file = [n \in 0..(Length - 1) |-> "zero"]
    /\ donePieces = 0
    /\ reported = {}
    /\ pc = [w \in Worker |-> "connecting"]
    /\ piece = [w \in Worker |-> 0]
    /\ conn = [w \in Worker |-> [choked |-> TRUE, asked |-> <<>>,
                                 bitfield |-> [bytes |-> 0, set |-> {}]]]
    /\ progress = [w \in Worker |-> NewProgress(0)]
    /\ faults = MaxFaults

\* client.New: the handshake succeeds and the peer sends its bitfield, which
\* nobody measures: that of an honest peer has a bit for every piece, another
\* may be too short.  (The bits after the last piece are never looked at.)
Connect(w) ==
    /\ pc[w] = "connecting"
    /\ pc' = [pc EXCEPT ![w] = "ranging"]
    /\ \E bytes \in 0..BitfieldBytes :
       \E set \in SUBSET {p \in Piece : p \div 8 < bytes} :
          /\ w \in Honest => bytes = BitfieldBytes /\ set = Piece
          /\ conn' = [conn EXCEPT ![w].bitfield = [bytes |-> bytes, set |-> set]]
    /\ UNCHANGED <<queueVars, resultVars, piece, progress, faults>>

\* client.New fails and the worker returns.
ConnectFails(w) ==
    /\ pc[w] = "connecting"
    /\ w \notin Honest
    /\ pc' = [pc EXCEPT ![w] = "exited"]
    /\ UNCHANGED <<queueVars, resultVars, piece, conn, progress, faults>>

\* The range loop receives a piece: the worker downloads it if its peer has it.
Take(w) ==
    LET p == Head(workQueue)
    IN  /\ pc[w] = "ranging"
        /\ workQueue # <<>>
        /\ workQueue' = Tail(workQueue)
        /\ piece' = [piece EXCEPT ![w] = p]
        /\ pc' = [pc EXCEPT ![w] = IF HasPiece(conn[w].bitfield, p)
                                   THEN "fetching" ELSE "putting"]
        /\ progress' = [progress EXCEPT ![w] = NewProgress(p)]
        /\ UNCHANGED <<closed, resultVars, conn, faults>>

\* The range loop ends: the channel is closed and drained.
RangeEnds(w) ==
    /\ pc[w] = "ranging"
    /\ closed
    /\ workQueue = <<>>
    /\ pc' = [pc EXCEPT ![w] = "exited"]
    /\ UNCHANGED <<queueVars, resultVars, piece, conn, progress, faults>>

SendsTwice(w) ==
    /\ workQueue' = workQueue \o <<piece[w], piece[w]>>
    /\ UNCHANGED closed

SendsNothing(w) == UNCHANGED <<workQueue, closed>>

\* workQueue <- pw, on a channel that must be open and have room.
Send(w) ==
    /\ workQueue' = Append(workQueue, piece[w])
    /\ UNCHANGED closed

PutBack(w) ==
    /\ pc[w] \in {"putting", "quitting"}
    /\ Len(workQueue) < NumPieces
    /\ Send(w)
    /\ pc' = [pc EXCEPT ![w] = IF @ = "putting" THEN "ranging" ELSE "exited"]
    /\ UNCHANGED <<resultVars, piece, conn, progress, faults>>

\* One iteration of attemptDownloadPiece that ends with the connection as c
\* and the progress as p.
Iterates(w, c, p) ==
    /\ pc[w] = "fetching"
    /\ progress[w].downloaded < PieceSize(piece[w])
    /\ conn' = [conn EXCEPT ![w] = c]
    /\ progress' = [progress EXCEPT ![w] = p]
    /\ UNCHANGED <<queueVars, resultVars, pc, piece>>

\* The peer answers the request it was asked first, correctly.
PieceArrives(w) ==
    LET s == Pipelined(piece[w], progress[w], conn[w])
        block == Head(s.conn.asked)
    IN  /\ s.conn.asked # <<>>
        /\ Fits(piece[w], s.progress.buf, block)
        /\ Iterates(w, [s.conn EXCEPT !.asked = Tail(@)],
                       Received(s.progress, block, "good"))
        /\ UNCHANGED faults

\* The peer sends a block that was not asked for, or not with that content: a
\* duplicate, a corrupt one, one of another size.
BadPieceArrives(w) ==
    LET s == Pipelined(piece[w], progress[w], conn[w])
    IN  /\ w \notin Honest /\ faults > 0
        /\ faults' = faults - 1
        /\ \E begin \in DOMAIN s.progress.buf, len \in 0..PieceSize(piece[w]),
              content \in {"good", "bad"} :
              LET block == [index |-> piece[w], begin |-> begin, len |-> len]
              IN  /\ Fits(piece[w], s.progress.buf, block)
                  /\ Iterates(w, s.conn, Received(s.progress, block, content))

\* The peer unchokes the worker, or announces a piece.
OtherMessageArrives(w) ==
    LET s == Pipelined(piece[w], progress[w], conn[w])
    IN  /\ \/ Iterates(w, [s.conn EXCEPT !.choked = FALSE], s.progress)
           \/ /\ w \notin Honest
              /\ \E i \in Piece :
                    Iterates(w, [s.conn EXCEPT !.bitfield = SetPiece(@, i)],
                             s.progress)
        /\ <<conn, progress>>' # <<conn, progress>>
        /\ UNCHANGED faults

\* The peer chokes the worker: what it was asked, it will not answer.
ChokeArrives(w) ==
    LET s == Pipelined(piece[w], progress[w], conn[w])
    IN  /\ w \notin Honest /\ faults > 0
        /\ faults' = faults - 1
        /\ Iterates(w, [s.conn EXCEPT !.choked = TRUE, !.asked = <<>>],
                    s.progress)

\* A request cannot be sent, a message cannot be read or is refused, or the
\* deadline of 30 seconds has passed: attemptDownloadPiece returns an error.
AttemptFails(w) ==
    /\ pc[w] = "fetching"
    /\ progress[w].downloaded < PieceSize(piece[w])
    /\ w \notin Honest
    /\ pc' = [pc EXCEPT ![w] = "quitting"]
    /\ UNCHANGED <<queueVars, resultVars, piece, conn, progress, faults>>

\* attemptDownloadPiece returns the buffer and checkIntegrity looks at it.
CheckIntegrity(w) ==
    /\ pc[w] = "fetching"
    /\ progress[w].downloaded >= PieceSize(piece[w])
    /\ pc' = [pc EXCEPT ![w] = IF Integrity(progress[w].buf)
                               THEN "reporting" ELSE "putting"]
    /\ UNCHANGED <<queueVars, resultVars, piece, conn, progress, faults>>

ClosesEarly(done) == done + 1 >= NumPieces

\* Download's loop condition.
AllDone(done) == done >= NumPieces

\* The unbuffered results channel: the worker sends as Download receives,
\* copies the piece into the file, and closes the queue after the last one.
Report(w) ==
    LET b == Bounds(piece[w])
    IN  /\ pc[w] = "reporting"
        /\ ~closed
        /\ file' = [n \in DOMAIN file |->
                      IF n \in b[1]..(b[2] - 1)
                      THEN progress[w].buf[n - b[1]] ELSE file[n]]
        /\ donePieces' = donePieces + 1
        /\ reported' = reported \cup {piece[w]}
        /\ closed' = AllDone(donePieces')
        /\ pc' = [pc EXCEPT ![w] = "ranging"]
        /\ UNCHANGED <<workQueue, piece, conn, progress, faults>>

WorkerStep(w) ==
    \/ Connect(w) \/ ConnectFails(w) \/ RangeEnds(w) \/ PutBack(w)
    \/ AttemptFails(w) \/ CheckIntegrity(w) \/ Report(w)

Message(w) ==
    PieceArrives(w) \/ BadPieceArrives(w) \/ OtherMessageArrives(w)
        \/ ChokeArrives(w)

\* Every worker has returned and Download has too.
Finished ==
    /\ closed
    /\ \A w \in Worker : pc[w] = "exited"
    /\ UNCHANGED vars

Next ==
    \/ \E w \in Worker : WorkerStep(w) \/ Take(w) \/ Message(w)
    \/ Finished

Spec == Init /\ [][Next]_vars

\* Goroutines are scheduled, the deadline passes, honest peers answer, and a
\* worker that waits on the queue is served in turn (Go queues the receivers
\* of a channel first come, first served).
Fairness ==
    /\ \A w \in Worker : WF_vars(WorkerStep(w)) /\ SF_vars(Take(w))
    /\ \A w \in Honest : WF_vars(Message(w))

FairSpec == Spec /\ Fairness

-----------------------------------------------------------------------------
(* Properties *)

\* The variables have the types of the fields they model.
TypeOK ==
    /\ workQueue \in Seq(Piece)
    /\ closed \in BOOLEAN
    /\ file \in [0..(Length - 1) -> Content]
    /\ donePieces \in Nat
    /\ reported \in SUBSET Piece
    /\ pc \in [Worker -> WorkerPC]
    /\ DOMAIN piece = Worker /\ \A w \in Worker : Holds(w) => piece[w] \in Piece
    /\ faults \in Nat

\* No piece is in two places, of the queue, the hands of the workers and the
\* file; Download's counter counts the last of these.
InOnePlace ==
    /\ \A m, n \in 1..Len(workQueue) : workQueue[m] = workQueue[n] => m = n
    /\ \A v, w \in Worker : Holds(v) /\ Holds(w) /\ piece[v] = piece[w] => v = w
    /\ \A w \in Worker : Holds(w) =>
          /\ piece[w] \notin reported
          /\ \A n \in 1..Len(workQueue) : workQueue[n] # piece[w]
    /\ \A n \in 1..Len(workQueue) : workQueue[n] \notin reported
    /\ donePieces = Cardinality(reported)

\* Every piece is in one of these places.
NoneLost ==
    \A p \in Piece :
        \/ p \in reported
        \/ \E n \in 1..Len(workQueue) : workQueue[n] = p
        \/ \E w \in Worker : Holds(w) /\ piece[w] = p

\* Every piece is in exactly one place at any time, whichever way its workers
\* fail: the queue and the results channel lose and duplicate nothing.
PiecesConserved == InOnePlace /\ NoneLost

\* A worker that puts a piece back is never blocked by a full queue and never
\* sends on the closed one, which would panic.
PutBackSafe ==
    \A w \in Worker :
        Holds(w) => ~closed /\ Len(workQueue) < NumPieces

\* What Download returns is the file: every piece that arrived is in its place
\* and passed its check, and nothing is missing, whatever the peers sent.
FileCorrect == closed => \A n \in 0..(Length - 1) : file[n] = "good"

\* A well-behaved peer never has more than MaxBacklog requests to answer.  (The
\* comment on MaxBacklog says so of any client; but every block lowers the
\* backlog, so one that sends blocks nobody asked for is asked for more.)
PipelineBounded ==
    \A w \in Honest : Len(conn[w].asked) <= MaxBacklog

\* With one honest peer the download ends, and no worker outlives it.
DownloadEnds ==
    Honest # {} => <>(closed /\ \A w \in Worker : pc[w] = "exited")
=============================================================================
