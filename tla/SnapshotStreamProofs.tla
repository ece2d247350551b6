------------------------ MODULE SnapshotStreamProofs ------------------------
(***************************************************************************)
(* Theorems about SnapshotStream, for every number of leaders, snapshots,  *)
(* sizes, restarts and faults.                                             *)
(***************************************************************************)
EXTENDS SnapshotStream, SequenceTheorems, TLAPS

\* chunks are those of the snapshot of leader t at i after the first o.
Piece(chunks, t, i, o) ==
  /\ o + Len(chunks) <= Size[t][i]
  /\ \A k \in 1 .. Len(chunks) : chunks[k] = <<t, i, o + k>>

\* What a request carries, and what its done flag says.
RequestTruthful(m) ==
  /\ Piece(m.data, m.term, m.index, m.offset)
  /\ m.done => m.offset + Len(m.data) = Size[m.term][m.index]

\* What the follower has buffered.
PendingTruthful(p) ==
  p = NonePending \/ (p.term \in 1 .. MaxTerm /\ p.index \in Indices /\ Piece(p.data, p.term, p.index, 0))

\* The inductive invariant: the buffer is a prefix of one snapshot, every
\* request a piece of one, what was installed is whole, and what the leader
\* believes or is about to hear was installed.
StreamInvariant ==
  /\ \A m \in msgs : m.type = "request" => RequestTruthful(m)
  /\ PendingTruthful(pending)
  /\ InstalledWhole
  /\ \A m \in msgs : m.type = "response" /\ m.success /\ m.done => m.index <= commit
  /\ match <= commit

\* The chunks of a snapshot, and how many there are.
LEMMA ContentType ==
  ASSUME NEW t \in 1 .. MaxTerm, NEW i \in Indices
  PROVE  /\ Size[t][i] \in Nat /\ Size[t][i] >= 1
         /\ Content(t, i) \in Seq(Chunk) /\ Len(Content(t, i)) = Size[t][i]
         /\ \A k \in 1 .. Size[t][i] : Content(t, i)[k] = <<t, i, k>>
<1>1. Size[t][i] \in Nat /\ Size[t][i] >= 1
  BY StreamAssumption
<1>2. \A k \in 1 .. Size[t][i] : <<t, i, k>> \in Chunk
  BY <1>1 DEF Chunk
<1>3. Content(t, i) \in Seq(Chunk)
  BY <1>1, <1>2 DEF Content
<1> QED
  BY <1>1, <1>3 DEF Content

\* A buffer that has every chunk is the snapshot.
LEMMA WholePiece ==
  ASSUME NEW t \in 1 .. MaxTerm, NEW i \in Indices, NEW data \in Seq(Chunk),
         Piece(data, t, i, 0), Len(data) = Size[t][i]
  PROVE  data = Content(t, i)
<1>1. /\ Content(t, i) \in Seq(Chunk) /\ Len(Content(t, i)) = Len(data)
      /\ \A k \in 1 .. Len(data) : Content(t, i)[k] = <<t, i, k>>
  BY ContentType
<1>2. \A k \in 1 .. Len(data) : data[k] = <<t, i, 0 + k>>
  BY DEF Piece
<1>3. \A k \in 1 .. Len(data) : data[k] = Content(t, i)[k]
  <2> TAKE k \in 1 .. Len(data)
  <2>1. 0 + k = k
    OBVIOUS
  <2> QED
    BY <1>1, <1>2, <2>1
<1> QED
  BY <1>1, <1>3, SeqEqual

\* The chunk that fits extends the buffer.
LEMMA PieceExtends ==
  ASSUME NEW t \in 1 .. MaxTerm, NEW i \in Indices, NEW data \in Seq(Chunk),
         NEW more \in Seq(Chunk), Piece(data, t, i, 0), Piece(more, t, i, Len(data))
  PROVE  data \o more \in Seq(Chunk) /\ Piece(data \o more, t, i, 0)
<1> DEFINE all == data \o more
<1>1. Len(data) \in Nat /\ Len(more) \in Nat /\ Size[t][i] \in Nat
  BY ContentType
<1>2. all \in Seq(Chunk) /\ Len(all) = Len(data) + Len(more)
  OBVIOUS
<1>3. ASSUME NEW k \in 1 .. Len(all) PROVE all[k] = <<t, i, 0 + k>>
  <2>1. CASE k <= Len(data)
    <3>1. k \in 1 .. Len(data)
      BY <1>1, <1>2, <2>1
    <3>2. all[k] = data[k]
      BY <3>1
    <3> QED
      BY <3>1, <3>2 DEF Piece
  <2>2. CASE k > Len(data)
    <3> DEFINE j == k - Len(data)
    <3>1. j \in 1 .. Len(more) /\ Len(data) + j = k /\ 0 + k = k
      BY <1>1, <1>2, <2>2
    <3>2. all[k] = more[j]
      BY <1>1, <1>2, <2>2
    <3> HIDE DEF j, all
    <3>3. more[j] = <<t, i, Len(data) + j>>
      BY <3>1 DEF Piece
    <3> QED
      BY <3>1, <3>2, <3>3
  <2> QED
    BY <1>1, <2>1, <2>2
<1>4. 0 + Len(all) <= Size[t][i]
  BY <1>1, <1>2 DEF Piece
<1> HIDE DEF all
<1>5. all \in Seq(Chunk) /\ Piece(all, t, i, 0)
  BY <1>2, <1>3, <1>4 DEF Piece
<1> QED
  BY <1>5 DEF all

-----------------------------------------------------------------------------
(* The messages and the buffer.                                            *)

Pending == [term : 0 .. MaxTerm, index : Nat, data : Seq(Chunk)]

\* What broadcast_heartbeat sends is a piece of the leader's snapshot.
LEMMA ChunkSent ==
  ASSUME TypeOK, NEW last \in Nat, offset <= last, last <= Size[term][snap]
  PROVE  LET m == [type |-> "request", term |-> term, index |-> snap, offset |-> offset,
                   data |-> SubSeq(Content(term, snap), offset + 1, last),
                   done |-> last = Size[term][snap]]
         IN  m \in Request /\ m.type = "request" /\ RequestTruthful(m)
<1> DEFINE C == Content(term, snap)
           N == Size[term][snap]
           data == SubSeq(C, offset + 1, last)
           done == last = N
           m == [type |-> "request", term |-> term, index |-> snap, offset |-> offset,
                 data |-> data, done |-> done]
<1>1. term \in 1 .. MaxTerm /\ snap \in Indices /\ offset \in Nat
  BY DEF TypeOK
<1>2. /\ C \in Seq(Chunk) /\ Len(C) = N /\ N \in Nat
      /\ \A k \in 1 .. N : C[k] = <<term, snap, k>>
  BY <1>1, ContentType
<1> HIDE DEF C, N
<1>3. last <= N
  BY DEF N
<1>4. data \in Seq(Chunk) /\ Len(data) = last - offset
  BY <1>1, <1>2, <1>3
<1>5. \A k \in 1 .. Len(data) : data[k] = <<term, snap, offset + k>>
  <2> TAKE k \in 1 .. Len(data)
  <2>1. offset + k \in 1 .. N /\ k \in 1 .. last - offset
    BY <1>1, <1>2, <1>3, <1>4
  <2>2. data[k] = C[offset + k]
    BY <1>1, <1>2, <1>3, <2>1
  <2> QED
    BY <1>2, <2>1, <2>2
<1>6. offset + Len(data) = last
  BY <1>1, <1>4
<1>7. done \in BOOLEAN
  OBVIOUS
<1> HIDE DEF data
<1>8. m \in Request
  <2> HIDE DEF done
  <2> QED
    BY <1>1, <1>4, <1>7 DEF Request
<1>9. /\ m.data = data /\ m.term = term /\ m.index = snap /\ m.offset = offset
      /\ m.type = "request" /\ m.done = done
  OBVIOUS
<1> HIDE DEF m
<1>10. RequestTruthful(m)
  BY <1>3, <1>5, <1>6, <1>9 DEF RequestTruthful, Piece, N
<1> QED
  BY <1>8, <1>9, <1>10 DEF m, data, done, C, N

\* A message is a request or a response, and its type says which.
LEMMA MessageType ==
  ASSUME TypeOK, NEW m \in msgs
  PROVE  /\ m.type = "request" => m \in Request
         /\ m.type = "response" => m \in Response
BY DEF TypeOK, Request, Response

\* What the follower answers is a response to the request.
LEMMA AnswerType ==
  ASSUME NEW m \in Request, NEW ok \in BOOLEAN, NEW next \in Nat, NEW done \in BOOLEAN
  PROVE  /\ Answer(m, ok, next, done) \subseteq Response
         /\ \A a \in Answer(m, ok, next, done) :
               a.type = "response" /\ a.index = m.index /\ a.success = ok /\ a.done = done
BY DEF Answer, Request, Response

\* The pending stream as a request finds it is a prefix of one snapshot.
LEMMA ResumedTruthful ==
  ASSUME TypeOK, StreamInvariant, NEW m \in Request
  PROVE  Resumed(m) \in Pending /\ PendingTruthful(Resumed(m))
<1>1. m.term \in 1 .. MaxTerm /\ m.index \in Indices /\ m.index \in Nat /\ MaxTerm \in Nat
  BY StreamAssumption DEF Request
<1>2. NonePending \in Pending /\ PendingTruthful(NonePending)
  BY <1>1 DEF NonePending, Pending, PendingTruthful
<1>3. CASE m.offset = 0
  <2> DEFINE p == [term |-> m.term, index |-> m.index, data |-> <<>>]
  <2>1. p \in Pending /\ p.term = m.term /\ p.index = m.index /\ p.data = <<>>
    BY <1>1 DEF Pending
  <2>2. Size[m.term][m.index] \in Nat /\ Len(<<>>) = 0
    BY <1>1, ContentType
  <2>3. Piece(<<>>, m.term, m.index, 0)
    BY <2>2 DEF Piece
  <2>4. Resumed(m) = p
    BY <1>3 DEF Resumed
  <2> HIDE DEF p
  <2> QED
    BY <1>1, <2>1, <2>3, <2>4 DEF PendingTruthful
<1>4. CASE m.offset # 0
  <2>1. Resumed(m) = pending \/ Resumed(m) = NonePending
    BY <1>4 DEF Resumed
  <2>2. pending \in Pending /\ PendingTruthful(pending)
    BY DEF TypeOK, Pending, StreamInvariant
  <2> QED
    BY <1>2, <2>1, <2>2
<1> QED
  BY <1>3, <1>4

\* A chunk that fits extends the pending stream, and the last one completes it.
LEMMA FittingChunk ==
  ASSUME TypeOK, StreamInvariant, NEW m \in msgs, m.type = "request", Fits(Resumed(m), m)
  PROVE  LET p == [Resumed(m) EXCEPT !.data = @ \o m.data]
         IN  /\ p \in Pending /\ PendingTruthful(p) /\ p.index = m.index /\ p.term = m.term
             /\ m.done => p.data = Content(m.term, m.index)
<1> DEFINE q == Resumed(m)
           p == [q EXCEPT !.data = @ \o m.data]
<1>1. m \in Request /\ RequestTruthful(m)
  BY MessageType DEF StreamInvariant
<1>2. /\ m.term \in 1 .. MaxTerm /\ m.index \in Indices /\ m.data \in Seq(Chunk)
      /\ m.offset \in Nat
  BY <1>1 DEF Request
<1>3. q \in Pending /\ PendingTruthful(q)
  BY <1>1, ResumedTruthful
<1>4. q.term = m.term /\ q.index = m.index /\ m.offset = Len(q.data)
  BY DEF Fits
<1> HIDE DEF q
<1>5. q # NonePending
  <2>1. NonePending.term = 0
    BY DEF NonePending
  <2>2. m.term # 0
    BY <1>2
  <2> QED
    BY <1>4, <2>1, <2>2
<1>6. q.data \in Seq(Chunk) /\ Piece(q.data, m.term, m.index, 0)
  BY <1>3, <1>4, <1>5 DEF PendingTruthful, Pending
<1>7. Piece(m.data, m.term, m.index, Len(q.data))
  BY <1>1, <1>4 DEF RequestTruthful
<1> DEFINE all == q.data \o m.data
<1>8. all \in Seq(Chunk) /\ Piece(all, m.term, m.index, 0)
  BY <1>2, <1>6, <1>7, PieceExtends
<1>9. Len(all) = m.offset + Len(m.data)
  BY <1>2, <1>4, <1>6
<1>10. p = [q EXCEPT !.data = all]
  OBVIOUS
<1> HIDE DEF all
<1>11. p \in Pending /\ p.index = m.index /\ p.term = m.term /\ p.data = all
  BY <1>3, <1>4, <1>8, <1>10 DEF Pending
<1> HIDE DEF p
<1>12. PendingTruthful(p)
  BY <1>2, <1>8, <1>11 DEF PendingTruthful
<1>13. m.done => p.data = Content(m.term, m.index)
  BY <1>1, <1>2, <1>8, <1>9, <1>11, WholePiece DEF RequestTruthful
<1> QED
  BY <1>11, <1>12, <1>13 DEF p, q

-----------------------------------------------------------------------------
(* Steps.                                                                  *)

\* What a step must do for the invariant to be kept.
LEMMA InvariantStep ==
  ASSUME StreamInvariant, TypeOK', NEW sent, msgs' \subseteq msgs \cup sent,
         TypeOK, commit' >= commit,
         \A m \in sent : m.type = "request" => RequestTruthful(m),
         \A m \in sent : m.type = "response" /\ m.success /\ m.done => m.index <= commit',
         PendingTruthful(pending'),
         \/ commit' = commit /\ state' = state
         \/ commit' \in Indices /\ \E t \in 1 .. MaxTerm : state' = Content(t, commit'),
         match' <= commit'
  PROVE  StreamInvariant'
<1>1. commit \in Nat /\ commit' \in Nat
  BY DEF TypeOK
<1>2. \A m \in msgs' : m.type = "request" => RequestTruthful(m)
  BY DEF StreamInvariant
<1>3. ASSUME NEW m \in msgs', m.type = "response", m.success, m.done
      PROVE  m.index <= commit'
  <2>1. CASE m \in sent
    BY <1>3, <2>1
  <2>2. CASE m \in msgs
    <3>1. m.index \in Nat
      BY <1>3, <2>2, MessageType, StreamAssumption DEF Response
    <3>2. m.index <= commit
      BY <1>3, <2>2 DEF StreamInvariant
    <3> QED
      BY <1>1, <3>1, <3>2
  <2> QED
    BY <2>1, <2>2
<1>4. InstalledWhole'
  BY DEF StreamInvariant, InstalledWhole, Content
<1> QED
  BY <1>2, <1>3, <1>4 DEF StreamInvariant, RequestTruthful, PendingTruthful, Piece, NonePending

\* What a step may do to the follower's commit index and state.
CommitStep == commit' >= commit /\ (state' # state => commit' > commit)

Kept == TypeOK' /\ StreamInvariant' /\ CommitStep

\* A step that leaves the follower's commit index and state alone.
LEMMA SameCommit ==
  ASSUME TypeOK, StreamInvariant, TypeOK', NEW sent, msgs' \subseteq msgs \cup sent,
         UNCHANGED <<commit, state>>, PendingTruthful(pending'), match' <= commit,
         \A m \in sent : m.type = "request" => RequestTruthful(m),
         \A m \in sent : m.type = "response" /\ m.success /\ m.done => m.index <= commit
  PROVE  Kept
<1>1. commit \in Nat /\ commit' = commit /\ state' = state
  BY DEF TypeOK
<1>2. commit' >= commit
  BY <1>1
<1>3. StreamInvariant'
  BY <1>1, <1>2, InvariantStep
<1> QED
  BY <1>1, <1>2, <1>3 DEF Kept, CommitStep

\* The same when nothing is sent.
LEMMA NothingSent ==
  ASSUME TypeOK, StreamInvariant, TypeOK', msgs' \subseteq msgs,
         commit' = commit, state' = state, PendingTruthful(pending'), match' <= commit
  PROVE  Kept
<1> DEFINE none == {m \in msgs : FALSE}
<1>1. msgs' \subseteq msgs \cup none /\ UNCHANGED <<commit, state>>
  OBVIOUS
<1>2. /\ \A m \in none : m.type = "request" => RequestTruthful(m)
      /\ \A m \in none : m.type = "response" /\ m.success /\ m.done => m.index <= commit
  OBVIOUS
<1> HIDE DEF none
<1> QED
  BY <1>1, <1>2, SameCommit

\* broadcast_heartbeat
LEMMA SendChunkKeeps ==
  ASSUME TypeOK, StreamInvariant, SendChunk
  PROVE  Kept
<1> DEFINE last == IF offset + 1 <= Size[term][snap] THEN offset + 1 ELSE Size[term][snap]
           m == [type |-> "request", term |-> term, index |-> snap, offset |-> offset,
                 data |-> SubSeq(Content(term, snap), offset + 1, last),
                 done |-> last = Size[term][snap]]
<1>1. msgs' = msgs \cup {m} /\ UNCHANGED <<stream, follower, bounds>> /\ offset <= last
  BY DEF SendChunk
<1>2. last \in Nat /\ last <= Size[term][snap]
  <2>1. Size[term][snap] \in Nat /\ offset \in Nat
    BY ContentType DEF TypeOK
  <2> QED
    BY <2>1
<1> HIDE DEF last
<1>3. m \in Request /\ m.type = "request" /\ RequestTruthful(m)
  BY <1>1, <1>2, ChunkSent
<1> HIDE DEF m
<1>4. TypeOK'
  BY <1>1, <1>3 DEF TypeOK, stream, follower, bounds
<1>5. /\ UNCHANGED <<commit, state>> /\ PendingTruthful(pending') /\ match' <= commit
      /\ msgs' \subseteq msgs \cup {m}
  BY <1>1 DEF stream, follower, StreamInvariant
<1>6. /\ \A x \in {m} : x.type = "request" => RequestTruthful(x)
      /\ \A x \in {m} : x.type = "response" /\ x.success /\ x.done => x.index <= commit
  BY <1>3
<1> DEFINE sent == {m}
<1>7. /\ \A x \in sent : x.type = "request" => RequestTruthful(x)
      /\ \A x \in sent : x.type = "response" /\ x.success /\ x.done => x.index <= commit
      /\ msgs' \subseteq msgs \cup sent
  BY <1>5, <1>6
<1> HIDE DEF sent
<1> QED
  BY <1>4, <1>5, <1>7, SameCommit

\* Compact, NewLeader, Restart and Lose send nothing.
LEMMA EnvironmentKeeps ==
  ASSUME TypeOK, StreamInvariant, Compact \/ NewLeader \/ Restart \/ (\E m \in msgs : Lose(m))
  PROVE  Kept
<1>1. MaxTerm \in Nat /\ NonePending \in Pending /\ PendingTruthful(NonePending)
  BY StreamAssumption DEF NonePending, Pending, PendingTruthful
<1>2. match \in Nat /\ commit \in Nat /\ match <= commit /\ PendingTruthful(pending)
  BY DEF TypeOK, StreamInvariant
<1>3. CASE Compact
  <2>1. TypeOK'
    BY <1>3 DEF Compact, TypeOK, follower
  <2> QED
    BY <1>2, <1>3, <2>1, NothingSent DEF Compact, follower
<1>4. CASE NewLeader
  <2>1. TypeOK'
    BY <1>1, <1>4 DEF NewLeader, TypeOK, follower, bounds
  <2> QED
    BY <1>2, <1>4, <2>1, NothingSent DEF NewLeader, follower
<1>5. CASE Restart
  <2>1. TypeOK'
    BY <1>1, <1>5 DEF Restart, TypeOK, stream, Pending
  <2> QED
    BY <1>1, <1>2, <1>5, <2>1, NothingSent DEF Restart, stream
<1>6. CASE \E m \in msgs : Lose(m)
  <2>1. TypeOK'
    BY <1>6 DEF Lose, TypeOK, stream, follower
  <2> QED
    BY <1>2, <1>6, <2>1, NothingSent DEF Lose, stream, follower
<1> QED
  BY <1>3, <1>4, <1>5, <1>6

\* A handled message leaves the network or stays for another delivery.
LEMMA TakenType ==
  ASSUME TypeOK, NEW m, NEW sent, Taken(m, sent), sent \subseteq Request \cup Response
  PROVE  /\ msgs' \subseteq msgs \cup sent /\ faults' \in Nat
         /\ msgs' \subseteq Request \cup Response
BY DEF Taken, TypeOK

\* handle_install_snapshot_response
LEMMA HandleResponseKeeps ==
  ASSUME TypeOK, StreamInvariant, NEW m \in msgs, HandleResponse(m)
  PROVE  Kept
<1>1. m \in Response /\ m.type = "response"
  BY MessageType DEF HandleResponse
<1>2. m.index \in Nat /\ m.next \in Nat
  BY <1>1, StreamAssumption DEF Response
<1>3. /\ msgs' \subseteq msgs \cup {} /\ faults' \in Nat
      /\ msgs' \subseteq Request \cup Response
  BY TakenType DEF HandleResponse
<1>4. UNCHANGED <<fterm, commit, state, pending, compactions, restarts>>
  BY DEF HandleResponse, follower
<1>5. match \in Nat /\ commit \in Nat /\ match <= commit /\ offset \in Nat
  BY DEF TypeOK, StreamInvariant
<1>6. m.success /\ m.done => m.index <= commit
  BY <1>1 DEF StreamInvariant
<1>7. UNCHANGED <<term, snap>> /\ match' \in Nat /\ match' <= commit /\ offset' \in Nat
  BY <1>2, <1>5, <1>6 DEF HandleResponse, FinishStream, stream
<1>8. TypeOK'
  BY <1>3, <1>4, <1>7 DEF TypeOK
<1>9. PendingTruthful(pending')
  BY <1>4 DEF StreamInvariant
<1> QED
  BY <1>3, <1>4, <1>7, <1>8, <1>9, NothingSent

\* The follower's answers, one by one: a request that installs nothing.
LEMMA AnswerKeeps ==
  ASSUME TypeOK, StreamInvariant, NEW m \in msgs, m \in Request, NEW p \in Pending,
         PendingTruthful(p), NEW ok \in BOOLEAN, NEW next \in Nat, NEW done \in BOOLEAN,
         ok /\ done => m.index <= commit,
         pending' = p, fterm' = m.term, UNCHANGED <<stream, commit, state, compactions, restarts>>,
         Taken(m, Answer(m, ok, next, done))
  PROVE  Kept
<1>1. m.term \in 0 .. MaxTerm
  BY StreamAssumption DEF Request
<1>2. /\ Answer(m, ok, next, done) \subseteq Response
      /\ \A a \in Answer(m, ok, next, done) :
            a.type = "response" /\ a.index = m.index /\ a.success = ok /\ a.done = done
  BY AnswerType
<1> DEFINE sent == Answer(m, ok, next, done)
<1>3. /\ msgs' \subseteq msgs \cup sent /\ faults' \in Nat
      /\ msgs' \subseteq Request \cup Response
  BY <1>2, TakenType
<1> HIDE DEF sent
<1>4. TypeOK'
  BY <1>1, <1>3 DEF TypeOK, Pending, stream
<1>5. match' <= commit
  BY DEF StreamInvariant, stream
<1>6. /\ \A a \in sent : a.type = "request" => RequestTruthful(a)
      /\ \A a \in sent : a.type = "response" /\ a.success /\ a.done => a.index <= commit
  BY <1>2 DEF sent
<1> QED
  BY <1>3, <1>4, <1>5, <1>6, SameCommit

\* handle_install_snapshot
LEMMA HandleRequestKeeps ==
  ASSUME TypeOK, StreamInvariant, NEW m \in msgs, HandleRequest(m)
  PROVE  Kept
<1>1. m \in Request /\ m.type = "request" /\ UNCHANGED <<stream, compactions, restarts>>
  BY MessageType DEF HandleRequest
<1>2. /\ m.index \in Nat /\ m.offset \in Nat /\ m.data \in Seq(Chunk) /\ Len(m.data) \in Nat
      /\ m.index \in Indices /\ m.term \in 1 .. MaxTerm
  <2>1. /\ m.offset \in Nat /\ m.data \in Seq(Chunk)
        /\ m.index \in Indices /\ m.term \in 1 .. MaxTerm
    BY <1>1 DEF Request
  <2>2. m.index \in Nat
    BY <2>1, StreamAssumption
  <2>3. Len(m.data) \in Nat
    BY <2>1
  <2> QED
    BY <2>1, <2>2, <2>3
<1>3. commit \in Nat /\ match \in Nat /\ match <= commit
  BY DEF TypeOK, StreamInvariant
<1>4. NonePending \in Pending /\ PendingTruthful(NonePending)
  BY StreamAssumption DEF NonePending, Pending, PendingTruthful
<1>5. Resumed(m) \in Pending /\ PendingTruthful(Resumed(m)) /\ Len(Resumed(m).data) \in Nat
  <2>1. Resumed(m) \in Pending /\ PendingTruthful(Resumed(m))
    BY <1>1, ResumedTruthful
  <2>2. Resumed(m).data \in Seq(Chunk)
    BY <2>1 DEF Pending
  <2> QED
    BY <2>1, <2>2
<1>6. CASE RefuseStale(m)
  <2>1. Taken(m, {}) /\ UNCHANGED <<fterm, commit, state, pending>>
    BY <1>6 DEF RefuseStale, follower
  <2>2. /\ msgs' \subseteq msgs \cup {} /\ faults' \in Nat
        /\ msgs' \subseteq Request \cup Response
    BY <2>1, TakenType
  <2>3. TypeOK'
    BY <1>1, <2>1, <2>2 DEF TypeOK, stream
  <2>4. PendingTruthful(pending') /\ match' <= commit
    BY <1>1, <1>3, <2>1 DEF StreamInvariant, stream
  <2> QED
    BY <2>1, <2>2, <2>3, <2>4, NothingSent
<1>7. CASE AnswerCovered(m)
  <2>1. m.offset + Len(m.data) \in Nat /\ m.index <= commit
    BY <1>2, <1>7 DEF AnswerCovered, Covered
  <2> QED
    BY <1>1, <1>4, <1>7, <2>1, AnswerKeeps DEF AnswerCovered
<1>8. CASE RefuseChunk(m)
  BY <1>1, <1>5, <1>8, AnswerKeeps DEF RefuseChunk
<1>9. CASE RefuseOversized(m)
  BY <1>1, <1>4, <1>9, AnswerKeeps DEF RefuseOversized
<1>10. CASE AcceptChunk(m)
  <2> DEFINE p == [Resumed(m) EXCEPT !.data = @ \o m.data]
  <2>1. Fits(Resumed(m), m) /\ ~Covered(m) /\ fterm' = m.term
    BY <1>10 DEF AcceptChunk
  <2>2. /\ p \in Pending /\ PendingTruthful(p) /\ p.index = m.index
        /\ m.done => p.data = Content(m.term, m.index)
    BY <1>1, <2>1, FittingChunk
  <2>3. Len(p.data) \in Nat
    <3> HIDE DEF p
    <3>1. p.data \in Seq(Chunk)
      BY <2>2 DEF Pending
    <3> QED
      BY <3>1
  <2>4. \/ /\ pending' = p /\ Taken(m, Answer(m, TRUE, Len(p.data), FALSE))
           /\ UNCHANGED <<commit, state>>
        \/ m.done /\ Install(p) /\ Taken(m, Answer(m, TRUE, Len(p.data), TRUE))
        \/ /\ pending' = NonePending /\ Taken(m, Answer(m, FALSE, 0, FALSE))
           /\ UNCHANGED <<commit, state>>
    BY <1>10 DEF AcceptChunk
  <2> HIDE DEF p
  <2>5. CASE /\ pending' = p /\ Taken(m, Answer(m, TRUE, Len(p.data), FALSE))
             /\ UNCHANGED <<commit, state>>
    BY <1>1, <2>1, <2>2, <2>3, <2>5, AnswerKeeps
  <2>6. CASE /\ pending' = NonePending /\ Taken(m, Answer(m, FALSE, 0, FALSE))
             /\ UNCHANGED <<commit, state>>
    BY <1>1, <1>4, <2>1, <2>6, AnswerKeeps
  <2>7. CASE m.done /\ Install(p) /\ Taken(m, Answer(m, TRUE, Len(p.data), TRUE))
    <3> DEFINE sent == Answer(m, TRUE, Len(p.data), TRUE)
    <3>1. /\ sent \subseteq Response
          /\ \A a \in sent : a.type = "response" /\ a.index = m.index
      BY <1>1, <2>3 DEF Answer, Request, Response
    <3>2. commit' = m.index /\ state' = Content(m.term, m.index) /\ pending' = NonePending
      BY <2>2, <2>7 DEF Install
    <3>3. /\ msgs' \subseteq msgs \cup sent /\ faults' \in Nat
          /\ msgs' \subseteq Request \cup Response
      BY <2>7, <3>1, TakenType
    <3> HIDE DEF sent
    <3>4. Content(m.term, m.index) \in Seq(Chunk) /\ m.term \in 0 .. MaxTerm
      BY <1>2, ContentType
    <3>5. TypeOK'
      BY <1>1, <1>2, <1>4, <2>1, <3>2, <3>3, <3>4 DEF TypeOK, Pending, stream
    <3>6. commit' > commit
      BY <1>2, <1>3, <2>1, <3>2 DEF Covered
    <3>7. commit' >= commit /\ match' <= commit'
      BY <1>1, <1>2, <1>3, <3>2, <3>6 DEF stream
    <3>8. /\ \A a \in sent : a.type = "request" => RequestTruthful(a)
          /\ \A a \in sent : a.type = "response" /\ a.success /\ a.done => a.index <= commit'
      BY <1>2, <3>1, <3>2
    <3>9. StreamInvariant'
      <4>1. commit' \in Indices /\ \E t \in 1 .. MaxTerm : state' = Content(t, commit')
        BY <1>2, <3>2
      <4>2. PendingTruthful(pending')
        BY <1>4, <3>2
      <4> QED
        BY <3>3, <3>5, <3>7, <3>8, <4>1, <4>2, InvariantStep
    <3> QED
      BY <3>5, <3>6, <3>7, <3>9 DEF Kept, CommitStep
  <2> QED
    BY <2>4, <2>5, <2>6, <2>7
<1> QED
  BY <1>6, <1>7, <1>8, <1>9, <1>10 DEF HandleRequest

\* Every step keeps the invariant.
LEMMA StepKeeps ==
  ASSUME TypeOK, StreamInvariant, [Next]_vars
  PROVE  Kept
<1>1. CASE Next
  BY <1>1, SendChunkKeeps, EnvironmentKeeps, HandleRequestKeeps, HandleResponseKeeps DEF Next
<1>2. CASE UNCHANGED vars
  <2>1. TypeOK' /\ UNCHANGED <<commit, state, msgs, pending, match>>
    BY <1>2 DEF vars, stream, follower, bounds, TypeOK
  <2>2. PendingTruthful(pending') /\ match' <= commit /\ msgs' \subseteq msgs \cup {}
    BY <2>1 DEF StreamInvariant
  <2> QED
    BY <2>1, <2>2, NothingSent
<1> QED
  BY <1>1, <1>2

\* The invariant holds at first.
LEMMA InitEstablishes ==
  ASSUME Init
  PROVE  TypeOK /\ StreamInvariant
<1>1. MaxTerm \in Nat /\ MaxTerm >= 1
  BY StreamAssumption
<1>2. TypeOK
  BY <1>1 DEF Init, TypeOK, NonePending
<1>3. StreamInvariant
  BY DEF Init, StreamInvariant, InstalledWhole, PendingTruthful
<1> QED
  BY <1>2, <1>3

-----------------------------------------------------------------------------
\* TypeOK holds in every reachable state of the transfer.
THEOREM StreamTypeCorrect == Spec => []TypeOK
<1>1. TypeOK /\ StreamInvariant /\ [Next]_vars => TypeOK' /\ StreamInvariant'
  BY StepKeeps DEF Kept
<1>2. Init => TypeOK /\ StreamInvariant
  BY InitEstablishes
<1> QED
  BY <1>1, <1>2, PTL DEF Spec

\* What handle_install_snapshot restores is one leader's snapshot, whole and
\* in order, for any leaders, snapshots, losses, repetitions and restarts.
THEOREM StreamInstallsWhole == Spec => []InstalledWhole
<1>1. TypeOK /\ StreamInvariant /\ [Next]_vars => TypeOK' /\ StreamInvariant'
  BY StepKeeps DEF Kept
<1>2. Init => TypeOK /\ StreamInvariant
  BY InitEstablishes
<1>3. StreamInvariant => InstalledWhole
  BY DEF StreamInvariant
<1> QED
  BY <1>1, <1>2, <1>3, PTL DEF Spec

\* The leader's match_index for the follower never runs ahead of what the
\* follower has installed, even when an acknowledgement arrives late.
THEOREM StreamProgressTruthful == Spec => []ProgressTruthful
<1>1. TypeOK /\ StreamInvariant /\ [Next]_vars => TypeOK' /\ StreamInvariant'
  BY StepKeeps DEF Kept
<1>2. Init => TypeOK /\ StreamInvariant
  BY InitEstablishes
<1>3. StreamInvariant => ProgressTruthful
  BY DEF StreamInvariant, ProgressTruthful
<1> QED
  BY <1>1, <1>2, <1>3, PTL DEF Spec

\* No step moves the follower's commit index back or replaces its state
\* without moving it forward.
THEOREM StreamCommitMonotonic == Spec => CommitMonotonic
<1>1. TypeOK /\ StreamInvariant /\ [Next]_vars => TypeOK' /\ StreamInvariant'
  BY StepKeeps DEF Kept
<1>2. Init => TypeOK /\ StreamInvariant
  BY InitEstablishes
<1>3. TypeOK /\ StreamInvariant /\ [Next]_vars
        => [commit' >= commit /\ (state' # state => commit' > commit)]_vars
  BY StepKeeps DEF Kept, CommitStep
<1> QED
  BY <1>1, <1>2, <1>3, PTL DEF Spec, CommitMonotonic
=============================================================================
