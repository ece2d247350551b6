--------------------------- MODULE SnapshotStream ---------------------------
(***************************************************************************)
(* The chunked snapshot transfer of crates/catten-graft/src/node.rs, from  *)
(* the leaders of successive terms to one follower that is behind their    *)
(* snapshots.  RaftNode delivers such a stream whole; here it is sent one  *)
(* chunk per tick, and the messages are lost, repeated and reordered while *)
(* leaders change, leaders compact and the follower restarts.              *)
(*                                                                         *)
(* Offsets count chunks.  A snapshot is known by the leader's term and by  *)
(* its last included index: two leaders may encode the same state          *)
(* differently, one leader encodes it once.                                *)
(***************************************************************************)
EXTENDS Naturals, Sequences, FiniteSets

CONSTANTS MaxTerm,        \* bound: leaderships
          Indices,        \* the snapshot indexes leaders compact at
          Size,           \* Size[t][i]: chunks of the snapshot of leader t at i
          MaxChunks,      \* MAX_SNAPSHOT_BYTES
          MaxCompactions, \* bound: compactions during the transfer
          MaxRestarts,    \* bound: restarts of the follower
          MaxFaults,      \* bound: messages lost or delivered again
          MaxInFlight,    \* bound: messages in transit when a chunk is sent
          RestoreMayFail  \* whether StateMachine::restore may fail

ASSUME StreamAssumption ==
  /\ MaxTerm \in Nat \ {0}
  /\ Indices \subseteq Nat \ {0}
  /\ Size \in [1 .. MaxTerm -> [Indices -> Nat \ {0}]]
  /\ MaxChunks \in Nat
  /\ MaxCompactions \in Nat /\ MaxRestarts \in Nat /\ MaxFaults \in Nat
  /\ MaxInFlight \in Nat
  /\ RestoreMayFail \in BOOLEAN

VARIABLES term,      \* the term of the current leader
          snap,      \* the leader's snapshot index
          offset,    \* its snapshot_offsets entry for the follower
          match,     \* its match_index entry for the follower
          fterm,     \* the follower's term
          commit,    \* the follower's commit index
          state,     \* the bytes the follower last restored, <<>> before that
          pending,   \* the follower's pending_snapshot
          msgs,      \* the messages in transit
          compactions, restarts, faults   \* counters of the bounds

stream == <<term, snap, offset, match>>
follower == <<fterm, commit, state, pending>>
bounds == <<compactions, restarts, faults>>
vars == <<stream, follower, msgs, bounds>>

Chunk == (1 .. MaxTerm) \X Indices \X Nat

\* The bytes of a snapshot.
Content(t, i) == [k \in 1 .. Size[t][i] |-> <<t, i, k>>]

NonePending == [term |-> 0, index |-> 0, data |-> <<>>]

Request ==
  [type : {"request"}, term : 1 .. MaxTerm, index : Indices, offset : Nat,
   data : Seq(Chunk), done : BOOLEAN]

Response ==
  [type : {"response"}, term : 1 .. MaxTerm, index : Indices, success : BOOLEAN, next : Nat, done : BOOLEAN]

Init ==
  /\ term = 1 /\ snap \in Indices /\ offset = 0 /\ match = 0
  /\ fterm = 0 /\ commit = 0 /\ state = <<>> /\ pending = NonePending
  /\ msgs = {}
  /\ compactions = 0 /\ restarts = 0 /\ faults = 0

-----------------------------------------------------------------------------
(* The leader.                                                             *)

\* broadcast_heartbeat while next_index, which refused AppendEntries have
\* moved down to match + 1, is at or below the snapshot.
SendChunk ==
  LET last == IF offset + 1 <= Size[term][snap] THEN offset + 1 ELSE Size[term][snap]
  IN  /\ match < snap /\ Cardinality(msgs) < MaxInFlight
      /\ offset <= last
      /\ msgs' = msgs \cup {[type |-> "request", term |-> term, index |-> snap,
                             offset |-> offset,
                             data |-> SubSeq(Content(term, snap), offset + 1, last),
                             done |-> last = Size[term][snap]]}
      /\ UNCHANGED <<stream, follower, bounds>>

\* Mutant of Compact: an index past the committed ones.
CompactPastCommit ==
  /\ compactions < MaxCompactions
  /\ snap' = snap + 1
  /\ compactions' = compactions + 1
  /\ UNCHANGED <<term, offset, match, follower, msgs, restarts, faults>>

\* maybe_compact_local_snapshot leaves snapshot_offsets as it is.
Compact ==
  /\ compactions < MaxCompactions
  /\ snap' \in {i \in Indices : i > snap}
  /\ compactions' = compactions + 1
  /\ UNCHANGED <<term, offset, match, follower, msgs, restarts, faults>>

\* become_leader at another server, whose snapshot may be older or newer.
NewLeader ==
  /\ term < MaxTerm
  /\ term' = term + 1 /\ snap' \in Indices /\ offset' = 0 /\ match' = 0
  /\ UNCHANGED <<follower, msgs, bounds>>

\* A message is consumed when it is handled, or handled and delivered again.
Taken(m, sent) ==
  \/ /\ msgs' = (msgs \ {m}) \cup sent
     /\ UNCHANGED faults
  \/ /\ faults < MaxFaults /\ faults' = faults + 1
     /\ msgs' = msgs \cup sent
\* Mutant of FinishStream: the snapshot of now is taken for the one sent.
FinishCurrent(i) ==
  /\ match' = snap
  /\ offset' = 0

\* record_replication_progress; advance_commit_index is in RaftNode.
FinishStream(i) ==
  /\ match' = IF i > match THEN i ELSE match
  /\ offset' = 0
\* Mutant of HandleResponse: a refused chunk does not rewind the stream.
NoRewind(m) ==
  /\ m.type = "response" /\ m \in msgs
  /\ \/ /\ ~(m.term = term /\ m.success)
        /\ UNCHANGED stream
     \/ /\ m.term = term /\ m.success /\ m.done
        /\ FinishStream(m.index)
        /\ UNCHANGED <<term, snap>>
     \/ /\ m.term = term /\ m.success /\ ~m.done
        /\ offset' = m.next
        /\ UNCHANGED <<term, snap, match>>
  /\ Taken(m, {})
  /\ UNCHANGED <<follower, compactions, restarts>>

\* handle_install_snapshot_response.  relmsg_transport passes the response's
\* own next_offset and done as what was sent.
HandleResponse(m) ==
  /\ m.type = "response" /\ m \in msgs
  /\ \/ /\ m.term # term
        /\ UNCHANGED stream
     \/ /\ m.term = term /\ m.success /\ m.done
        /\ FinishStream(m.index)
        /\ UNCHANGED <<term, snap>>
     \/ /\ m.term = term /\ ~(m.success /\ m.done)
        /\ offset' = m.next
        /\ UNCHANGED <<term, snap, match>>
  /\ Taken(m, {})
  /\ UNCHANGED <<follower, compactions, restarts>>

-----------------------------------------------------------------------------
(* The follower.                                                           *)
Answer(m, ok, next, done) ==
  {[type |-> "response", term |-> m.term, index |-> m.index,
    success |-> ok, next |-> next, done |-> done]}

\* The pending stream as this request finds it: offset 0 starts a new one, and
\* the stream of another leadership is dropped, as step_down drops it.
Resumed(m) ==
  IF m.offset = 0 THEN [term |-> m.term, index |-> m.index, data |-> <<>>]
  ELSE IF pending.term = m.term THEN pending
  ELSE NonePending
\* Mutant of Fits: the offset alone identifies the chunk.
FitsByOffset(p, m) == p.term = m.term /\ m.offset = Len(p.data)

\* The chunk that this pending stream waits for.
Fits(p, m) == p.term = m.term /\ p.index = m.index /\ m.offset = Len(p.data)

Install(p) ==
  /\ commit' = p.index
  /\ state' = p.data
  /\ pending' = NonePending

\* Mutant of Covered: only older snapshots count as covered.
StrictlyCovered(m) == m.index < commit

\* A delayed or retried snapshot that the follower has already passed.
Covered(m) == m.index <= commit

\* A request of a term that is over; the answer reaches a deposed leader only.
RefuseStale(m) ==
  /\ m.term < fterm
  /\ Taken(m, {})
  /\ UNCHANGED follower

\* A snapshot the follower has already passed completes at once.
AnswerCovered(m) ==
  /\ m.term >= fterm /\ Covered(m)
  /\ fterm' = m.term /\ pending' = NonePending
  /\ Taken(m, Answer(m, TRUE, m.offset + Len(m.data), TRUE))
  /\ UNCHANGED <<commit, state>>

\* A chunk out of its place: report the offset that would be accepted.
RefuseChunk(m) ==
  /\ m.term >= fterm /\ ~Covered(m)
  /\ LET p == Resumed(m)
     IN  /\ ~Fits(p, m)
         /\ pending' = p
         /\ Taken(m, Answer(m, FALSE, Len(p.data), FALSE))
  /\ fterm' = m.term
  /\ UNCHANGED <<commit, state>>

\* A stream that outgrows the limit is dropped.
RefuseOversized(m) ==
  /\ m.term >= fterm /\ ~Covered(m)
  /\ Fits(Resumed(m), m)
  /\ Len(Resumed(m).data) + Len(m.data) > MaxChunks
  /\ fterm' = m.term /\ pending' = NonePending
  /\ Taken(m, Answer(m, FALSE, 0, FALSE))
  /\ UNCHANGED <<commit, state>>

\* The next chunk is buffered; the last one restores and installs the stream.
AcceptChunk(m) ==
  /\ m.term >= fterm /\ ~Covered(m)
  /\ Fits(Resumed(m), m)
  /\ Len(Resumed(m).data) + Len(m.data) <= MaxChunks
  /\ LET p == [Resumed(m) EXCEPT !.data = @ \o m.data]
     IN  \/ /\ ~m.done
            /\ pending' = p
            /\ Taken(m, Answer(m, TRUE, Len(p.data), FALSE))
            /\ UNCHANGED <<commit, state>>
         \/ /\ m.done
            /\ Install(p)
            /\ Taken(m, Answer(m, TRUE, Len(p.data), TRUE))
         \/ /\ m.done /\ RestoreMayFail
            /\ pending' = NonePending
            /\ Taken(m, Answer(m, FALSE, 0, FALSE))
            /\ UNCHANGED <<commit, state>>
  /\ fterm' = m.term

\* handle_install_snapshot
HandleRequest(m) ==
  /\ m.type = "request" /\ m \in msgs
  /\ \/ RefuseStale(m)
     \/ AnswerCovered(m)
     \/ RefuseChunk(m)
     \/ RefuseOversized(m)
     \/ AcceptChunk(m)
  /\ UNCHANGED <<stream, compactions, restarts>>

\* The buffer is volatile; RaftNode::new restores the installed snapshot.
Restart ==
  /\ restarts < MaxRestarts /\ restarts' = restarts + 1
  /\ pending' = NonePending
  /\ UNCHANGED <<stream, fterm, commit, state, msgs, compactions, faults>>

Lose(m) ==
  /\ faults < MaxFaults /\ faults' = faults + 1
  /\ msgs' = msgs \ {m}
  /\ UNCHANGED <<stream, follower, compactions, restarts>>

-----------------------------------------------------------------------------
Next ==
  \/ SendChunk
  \/ Compact
  \/ NewLeader
  \/ Restart
  \/ \E m \in msgs : HandleRequest(m) \/ HandleResponse(m) \/ Lose(m)

Spec == Init /\ [][Next]_vars

\* The tick keeps sending, and both ends keep polling the transport, which
\* delivers what it has not lost.
FairSpec ==
  /\ Spec
  /\ WF_vars(SendChunk)
  /\ WF_vars(\E m \in msgs : HandleRequest(m))
  /\ WF_vars(\E m \in msgs : HandleResponse(m))

-----------------------------------------------------------------------------
(* Properties.                                                             *)

\* Every variable has its type; the leader's snapshot is one it compacted at.
TypeOK ==
  /\ term \in 1 .. MaxTerm /\ snap \in Indices /\ offset \in Nat /\ match \in Nat
  /\ fterm \in 0 .. MaxTerm /\ commit \in Nat /\ state \in Seq(Chunk)
  /\ pending \in [term : 0 .. MaxTerm, index : Nat, data : Seq(Chunk)]
  /\ msgs \subseteq Request \cup Response
  /\ compactions \in Nat /\ restarts \in Nat /\ faults \in Nat

\* The bytes handed to StateMachine::restore are one leader's snapshot at the
\* installed index, whole and in order, however chunks of different leaders,
\* snapshots and attempts arrive.
InstalledWhole ==
  commit > 0 => \E t \in 1 .. MaxTerm : commit \in Indices /\ state = Content(t, commit)

\* The leader believes of the follower only what it has installed.
ProgressTruthful == match <= commit

\* The follower's commit index never moves back, and its state changes only
\* with it: a late or repeated snapshot is not installed over a newer one.
CommitMonotonic == [][commit' >= commit /\ (state' # state => commit' > commit)]_vars

\* A follower that is behind the leader's snapshot gets it: the transfer is
\* completed, whatever was lost, repeated or restarted on the way
\* (the rewind of handle_install_snapshot_response).
StreamCompletes == []<>(match >= snap)

\* StateMachine::restore rejects the completed stream.
RestoreFails ==
  \E m \in msgs : m.type = "request" /\ m.done /\ AcceptChunk(m) /\ commit' = commit

\* The same when the leader does not compact meanwhile: once restores stop
\* failing, a snapshot that the follower's buffer can hold is installed, also
\* by a later leader and after a restart or a dropped buffer.
UndisturbedStreamCompletes ==
  [](compactions = 0) /\ <>[][~RestoreFails]_vars
    => []<>(match >= snap \/ Size[term][snap] > MaxChunks)
=============================================================================
