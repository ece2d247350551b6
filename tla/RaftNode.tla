------------------------------ MODULE RaftNode ------------------------------
(***************************************************************************)
(* RaftNode of crates/catten-graft/src/node.rs: elections, replication,    *)
(* snapshots, membership changes, admission of standalone nodes and the    *)
(* read barrier, driven as the services raft and dns drive it.             *)
(*                                                                         *)
(* node[s] holds the fields of the RaftNode of server s.  The network is   *)
(* the set of all messages ever sent: a message may be delivered at any    *)
(* later time, in any order, again and again, or never.  A crash keeps the *)
(* durable fields (term, votedFor, admission, log, snap and the membership *)
(* envelope of the snapshot) and rebuilds the rest as RaftNode::new does.  *)
(*                                                                         *)
(* A handler runs to its end before the next one starts.  It is one action *)
(* here, up to the loop of apply_committed, which runs as one action per   *)
(* entry: while a node is Busy only its Apply step and a crash can happen, *)
(* so no other handler sees a half-applied node.                           *)
(***************************************************************************)
EXTENDS LogStore

CONSTANTS Nil,            \* no server
          Founders,       \* the servers launched with the common configuration
          JoinLearners,   \* the joiners an operator admits as learners
          Anchors,        \* the servers a standalone node may apply to
          Removable,      \* the servers OP_REMOVE_SERVER is called for
          SnapshotMinEntries,   \* snapshot_min_entries; 0 turns compaction off
          MaxBatch,       \* entries that fit one transport frame
          Campaigns,      \* bound: <<server, term>> of the elections explored
          Clients,        \* bound: the servers that receive client commands
          MaxLog,         \* bound: last index at which a proposal is accepted
          MaxRestart,     \* bound: incarnations of one node
          Crashing,       \* bound: the servers that crash
          CrashPoints,    \* bound: the kinds of crash explored
          Readers,        \* bound: the servers that receive linearizable reads
          MaxReads,       \* bound: reads admitted
          EagerHeartbeats \* bound: explore only ticks that follow every change at once

ASSUME ConstantsAssumption ==
  /\ Nil \notin Server
  /\ Founders \subseteq Server /\ Founders # {}
  /\ JoinLearners \subseteq Server
  /\ Anchors \subseteq Server
  /\ SnapshotMinEntries \in Nat
  /\ MaxBatch \in Nat \ {0}
  /\ Campaigns \subseteq Server \X Nat
  /\ MaxLog \in Nat /\ MaxRestart \in Nat /\ MaxReads \in Nat
  /\ EagerHeartbeats \in BOOLEAN

VARIABLES node,       \* node[s]: the state of server s
          msgs,       \* every message sent so far
          votes,      \* history: every vote cast
          elections,  \* history: every election won, and the log of the leadership
          committed,  \* history: the longest log prefix the cluster committed
          reads       \* the pending reads, with what was committed when each began

vars == <<node, msgs, votes, elections, committed, reads>>

Joiners == Server \ Founders

OptServer == Server \cup {Nil}

NoAdmission == [anchor |-> Nil, snap |-> 0]

\* The fields of RaftNode.  next is 0 for a peer absent from next_index.
\* joiners[p] is the fence of a pending joiner, 0 when p is not pending; its
\* role, the one its JOIN entry names, is given by JoinLearners.  base and snapEpoch are the
\* membership envelope of the snapshot (snapshot_configuration).  joiningFrom
\* is Nil exactly when the code's joining is false.  tail and after are what
\* remains to do once the apply loop ends: a call of maybe_auto_finalize by
\* the handler that committed, and the assignment of
\* finalize_configuration_pending by the one whose FINALIZE committed.
\* incarnation counts restarts and admissions (it names read_domain), moves the
\* consensus domains the node has left; a founder leaves none.
Node ==
  [term : Nat, votedFor : OptServer, admission : [anchor : OptServer, snap : Nat],
   log : Seq(Entry), snap : Nat, base : Configuration, snapEpoch : Nat,
   role : {"follower", "candidate", "leader"}, known : OptServer, granted : SUBSET Server,
   commit : Nat, applied : Nat, next : [Server -> Nat], match : [Server -> Nat],
   conf : Configuration, epoch : Nat, joiners : [Server -> Nat],
   finMembers : SUBSET Server, finFence : Nat, finPending : BOOLEAN,
   joiningFrom : OptServer, decommissioned : BOOLEAN,
   tail : BOOLEAN, after : BOOLEAN, incarnation : Nat, moves : Nat]

Message ==
  [type : {"voteRequest"}, from : Server, to : Server, term : Nat,
   lastIndex : Nat, lastTerm : Nat]
  \cup
  [type : {"voteResponse", "appendResponse", "snapshotResponse"},
   from : Server, to : Server, term : Nat, success : BOOLEAN, match : Nat]
  \cup
  [type : {"appendRequest"}, from : Server, to : Server, term : Nat,
   prev : Nat, prevTerm : Nat, entries : Seq(Entry), commit : Nat]
  \cup
  [type : {"snapshotRequest"}, from : Server, to : Server, term : Nat,
   prefix : Seq(Entry), conf : Configuration, epoch : Nat]

\* A vote and an election, each in the consensus domain its server is in.  An
\* election keeps who had voted for its winner by then, and the winner's log
\* for as long as it leads.
Vote == [voter : Server, moves : Nat, term : Nat, cand : Server]

Election ==
  [term : Nat, leader : Server, moves : Nat, conf : Configuration,
   voters : SUBSET Server, log : Seq(Entry)]

\* ReadBarrier, and how much the cluster had committed when it was taken.
Read == [server : Server, domain : Nat, term : Nat, index : Nat, epoch : Nat, seen : Nat]

Zero == [p \in Server |-> 0]

\* The configuration a node is launched with: the founders share one, every
\* other node starts as a cluster of its own.
Launch(s) ==
  Stable([voters |-> IF s \in Founders THEN Founders ELSE {s}, learners |-> {}])

InitNode(s) ==
  [term |-> 0, votedFor |-> Nil, admission |-> NoAdmission,
   log |-> <<>>, snap |-> 0, base |-> Launch(s), snapEpoch |-> 0,
   role |-> "follower", known |-> Nil, granted |-> {},
   commit |-> 0, applied |-> 0, next |-> Zero, match |-> Zero,
   conf |-> Launch(s), epoch |-> 0, joiners |-> Zero,
   finMembers |-> {}, finFence |-> 0, finPending |-> FALSE,
   joiningFrom |-> Nil, decommissioned |-> FALSE,
   tail |-> FALSE, after |-> FALSE, incarnation |-> 0, moves |-> 0]

Joining(n) == n.joiningFrom # Nil

Busy(n) == n.applied < n.commit

-----------------------------------------------------------------------------
(* Configurations in force.                                                *)

\* The configuration after the entries the store holds up to index i, from the
\* snapshot's: the last FINALIZE made the last JOINT before it current, a
\* later JOINT is the proposed one.
ConfigurationAt(n, i) ==
  LET f == LastOfKind(n, "finalize", i)
      j == LastOfKind(n, "joint", i)
      p == LastOfKind(n, "joint", f)
  IN  [cur  |-> IF f = 0 THEN n.base.cur
                ELSE IF p > 0 THEN n.log[p].members
                ELSE FinalizeTransition(n.base).cur,
       next |-> IF j > f THEN n.log[j].members
                ELSE IF f = 0 THEN n.base.next ELSE NoMembers]

EffectiveConfiguration(n) == ConfigurationAt(n, LastIndex(n))

HasUncommittedConfigurationChange(n) ==
  \E i \in n.commit + 1 .. LastIndex(n) :
     i > n.snap /\ n.log[i].kind \in {"joint", "finalize"}

ReplicationPeers(n) ==
  Ids(AllMembers(EffectiveConfiguration(n))) \cup {p \in Server : n.joiners[p] > 0}

-----------------------------------------------------------------------------
(* Commitment.                                                             *)

Replicated(n, s, i) ==
  {s} \cup {p \in Ids(AllMembers(ConfigurationAt(n, i))) : p # s /\ n.match[p] >= i}

\* An index commits only in the leader's own term, with the quorum of the
\* configuration at that index and, for every FINALIZE it would commit, the
\* quorum of the joint configuration before that FINALIZE.
CanCommit(n, s, i) ==
  /\ TermAt(n, i) = n.term
  /\ HasJointMajority(ConfigurationAt(n, i), Replicated(n, s, i))
  /\ \A q \in n.commit + 1 .. i :
        q > n.snap /\ n.log[q].kind = "finalize"
          => HasJointMajority(ConfigurationAt(n, q - 1), Replicated(n, s, i))

AdvanceCommitIndex(n, s) ==
  LET able == {i \in n.commit + 1 .. LastIndex(n) : CanCommit(n, s, i)}
  IN  IF able = {} THEN n ELSE [n EXCEPT !.commit = Max(able)]

AppendEntry(n, e) == [n EXCEPT !.log = Append(@, e)]

\* submit_command: append in the leader's term, then try to commit.
Submit(n, s, kind, m) ==
  AdvanceCommitIndex(AppendEntry(n, NewEntry(n.term, s, kind, m)), s)

\* The catch-up policy before FINALIZE: every proposed member other than the
\* leader has acknowledged the committed JOINT entry.
ReadyToFinalize(n, s) ==
  /\ n.role = "leader"
  /\ IsJointConsensus(n.conf)
  /\ ~n.finPending
  /\ n.finMembers # {}
  /\ n.finFence > 0 /\ n.commit >= n.finFence
  /\ \A p \in n.finMembers \ {s} : n.match[p] >= n.finFence

\* finPending is set after submit_finalize_configuration returns, that is
\* after the apply loop when the FINALIZE commits at once.
MaybeAutoFinalize(n, s) ==
  IF ReadyToFinalize(n, s)
  THEN LET m == Submit(n, s, "finalize", NoMembers)
       IN  IF m.commit > n.commit THEN [m EXCEPT !.after = TRUE]
                                  ELSE [m EXCEPT !.finPending = TRUE]
  ELSE n

\* advance_commit_index (whose apply loop runs as Apply steps) followed by
\* maybe_auto_finalize_joint_configuration.
AdvanceThenFinalize(n, s) ==
  LET m == AdvanceCommitIndex(n, s)
  IN  IF m.commit > n.commit THEN [m EXCEPT !.tail = TRUE] ELSE MaybeAutoFinalize(m, s)

SubmitJointConfiguration(n, s, m) ==
  IF IsJointConsensus(n.conf) \/ n.finPending \/ HasUncommittedConfigurationChange(n)
  THEN n
  ELSE AdvanceThenFinalize(AppendEntry(n, NewEntry(n.term, s, "joint", m)), s)

\* Mutant of MaybePromotePendingJoiners: the acknowledgement is not waited for.
PromoteAtOnce(n, s) ==
  LET ready == {p \in Server : n.joiners[p] > 0}
      old == AllMembers(n.conf)
      new == ready \ Ids(old)
  IN  IF ready = {} THEN n
      ELSE SubmitJointConfiguration(n, s,
             [voters   |-> old.voters \cup (new \ JoinLearners),
              learners |-> old.learners \cup (new \cap JoinLearners)])

\* The joiners that have caught up with their fence enter the configuration.
MaybePromotePendingJoiners(n, s) ==
  LET ready == {p \in Server : n.joiners[p] > 0 /\ n.match[p] >= n.joiners[p]}
      old == AllMembers(n.conf)
      new == ready \ Ids(old)
  IN  IF ready = {} THEN n
      ELSE SubmitJointConfiguration(n, s,
             [voters   |-> old.voters \cup (new \ JoinLearners),
              learners |-> old.learners \cup (new \cap JoinLearners)])

-----------------------------------------------------------------------------
(* Applying committed entries.                                             *)

\* maybe_compact_local_snapshot: the snapshot takes the whole committed
\* prefix, unless a pending joiner still needs its JOIN fence.
MaybeCompactLocalSnapshot(n) ==
  IF /\ SnapshotMinEntries > 0
     /\ n.joiners = Zero
     /\ n.commit > n.snap /\ n.commit - n.snap >= SnapshotMinEntries
  THEN [n EXCEPT !.snap = n.commit, !.base = n.conf, !.snapEpoch = n.epoch]
  ELSE n
\* Mutant of SnapshotAdmittedMembership: nothing is written.
SkipMembershipSnapshot(n, i) == n

\* snapshot_admitted_membership
SnapshotAdmittedMembership(n, i) ==
  [n EXCEPT !.snap = i, !.base = n.conf, !.snapEpoch = i]

\* The configuration a JOINT or FINALIZE entry puts in force, with the
\* bookkeeping of the automatic FINALIZE.
ChangeConfiguration(n, s, i) ==
  LET e == n.log[i]
      joint == e.kind = "joint"
      c == IF joint THEN TransitionTo(n.conf, e.members) ELSE FinalizeTransition(n.conf)
  IN  [n EXCEPT !.applied = i, !.conf = c, !.epoch = i,
                !.decommissioned = ~Contains(c, s),
                !.joiners = [p \in Server |-> IF joint /\ p \in Ids(e.members) THEN 0 ELSE @[p]],
                !.finMembers = IF joint THEN Ids(e.members) ELSE {},
                !.finFence = IF joint THEN i ELSE 0,
                !.finPending = FALSE]

\* Admission completes: the membership is made durable before the fence goes.
CompleteAdmission(n, s, i) ==
  IF Contains(n.conf, s) /\ Joining(n)
  THEN [SnapshotAdmittedMembership(n, i) EXCEPT !.admission = NoAdmission, !.joiningFrom = Nil]
  ELSE n

\* A server that is no voter any more stops leading, keeping its vote; the
\* progress of peers outside the configuration is forgotten.
RelinquishAndForget(n, s) ==
  LET active(f) == [p \in Server |-> IF Contains(n.conf, p) THEN f[p] ELSE 0]
      m == [n EXCEPT !.next = active(@), !.match = active(@)]
  IN  IF IsVoter(n.conf, s) THEN m
      ELSE [m EXCEPT !.role = "follower", !.known = Nil, !.granted = {}]

ApplyConfigurationCommand(n, s, i) ==
  LET m == RelinquishAndForget(CompleteAdmission(ChangeConfiguration(n, s, i), s, i), s)
  IN  IF n.log[i].kind = "joint" THEN MaybeAutoFinalize(m, s) ELSE m

ApplyJoin(n, i) ==
  [n EXCEPT !.applied = i,
            !.joiners = [p \in Server |-> IF p \in Ids(n.log[i].members) THEN i ELSE @[p]]]

\* One round of the loop; an entry the store does not hold is passed over.
ApplyEntry(n, s) ==
  LET i == n.applied + 1
  IN  IF \/ i <= n.snap \/ i > LastIndex(n)
         \/ n.log[i].kind \in {"noop", "command"}
      THEN [n EXCEPT !.applied = i]
      ELSE IF n.log[i].kind = "join" THEN ApplyJoin(n, i)
      ELSE ApplyConfigurationCommand(n, s, i)

\* What follows the loop: compaction, then the assignment and the call that
\* were waiting for it.
EndOfApply(n, s) ==
  LET c == MaybeCompactLocalSnapshot(n)
      m == [c EXCEPT !.finPending = @ \/ n.after, !.after = FALSE, !.tail = FALSE]
  IN  IF n.tail THEN MaybeAutoFinalize(m, s) ELSE m

ApplyCommitted(n, s) ==
  LET m == ApplyEntry(n, s) IN IF m.applied = m.commit THEN EndOfApply(m, s) ELSE m

-----------------------------------------------------------------------------
(* Elections.                                                              *)

\* Mutant of StepDown: a newer term is taken over, the role is not given up.
KeepRole(n, t) == [n EXCEPT !.term = t, !.votedFor = Nil, !.granted = {}, !.known = Nil]

\* step_down
StepDown(n, t) ==
  [n EXCEPT !.term = t, !.role = "follower", !.votedFor = Nil, !.granted = {}, !.known = Nil]

\* The progress of the effective members starts over; that of a pending
\* joiner outside the effective configuration is left as it is.
BecomeLeader(n, s) ==
  LET peers == Ids(AllMembers(EffectiveConfiguration(n))) \ {s}
      m == [n EXCEPT !.role = "leader", !.known = s, !.granted = {},
                     !.next = [p \in Server |-> IF p \in peers THEN LastIndex(n) + 1 ELSE @[p]],
                     !.match = [p \in Server |-> IF p \in peers THEN 0 ELSE @[p]]]
  IN  Submit(m, s, "noop", NoMembers)

\* Mutant of ElectIfMajority: only the current half of a joint configuration is asked.
ElectByCurrentHalf(n, s) ==
  IF HasMajority(EffectiveConfiguration(n).cur, n.granted) THEN BecomeLeader(n, s) ELSE n

ElectIfMajority(n, s) ==
  IF HasJointMajority(EffectiveConfiguration(n), n.granted) THEN BecomeLeader(n, s) ELSE n

\* check_timeout and the guard of start_election
MayCampaign(n, s) ==
  n.role # "leader" /\ ~Joining(n) /\ IsVoter(EffectiveConfiguration(n), s)

Campaign(n, s) ==
  [n EXCEPT !.role = "candidate", !.term = @ + 1, !.votedFor = s, !.known = Nil,
            !.granted = {s}]
\* Mutant of LogUpToDate: the two terms are compared the wrong way round.
LogNotAhead(n, m) ==
  \/ m.lastTerm < LastTerm(n)
  \/ m.lastTerm = LastTerm(n) /\ m.lastIndex >= LastIndex(n)

LogUpToDate(n, m) ==
  \/ m.lastTerm > LastTerm(n)
  \/ m.lastTerm = LastTerm(n) /\ m.lastIndex >= LastIndex(n)
\* Mutant of GrantsVote: the vote already cast is not looked at.
GrantsAnyVote(n, s, m) ==
  /\ m.term >= n.term /\ ~Joining(n)
  /\ IsVoter(EffectiveConfiguration(n), s) /\ IsVoter(EffectiveConfiguration(n), m.from)
  /\ LogUpToDate(n, m)

GrantsVote(n, s, m) ==
  /\ m.term >= n.term
  /\ ~Joining(n)
  /\ IsVoter(EffectiveConfiguration(n), s)
  /\ IsVoter(EffectiveConfiguration(n), m.from)
  /\ n.votedFor \in {Nil, m.from}
  /\ LogUpToDate(n, m)

-----------------------------------------------------------------------------
(* Replication.                                                            *)

\* The common gate of AppendEntries and InstallSnapshot once the term is not
\* stale: a voter of the committed configuration or the chosen anchor, and in
\* the current term the leader already known.
RefusesLeader(n, s, m) ==
  \/ m.from = s
  \/ ~IsVoter(n.conf, m.from) /\ ~(Joining(n) /\ n.joiningFrom = m.from)
  \/ m.term = n.term /\ n.role = "follower" /\ n.known \notin {Nil, m.from}
\* A current-term leader demotes a candidate without erasing its vote.
AcceptLeader(n, m) ==
  [(IF m.term > n.term THEN StepDown(n, m.term) ELSE n)
     EXCEPT !.role = "follower", !.known = m.from,
            !.granted = IF n.role = "follower" THEN @ ELSE {}]
\* Mutant of FirstDifference: entries already present are not compared.
FirstMissing(n, prev, entries) ==
  LET missing == {k \in 1 .. Len(entries) : prev + k > LastIndex(n)}
  IN  IF missing = {} THEN 0 ELSE Min(missing)

\* The first position of entries (after prev) that the log lacks or holds with
\* another term, 0 when the log already has them all.
FirstDifference(n, prev, entries) ==
  LET diff == {k \in 1 .. Len(entries) :
                 prev + k > LastIndex(n) \/ TermAt(n, prev + k) # entries[k].term}
  IN  IF diff = {} THEN 0 ELSE Min(diff)

\* The matching loop: keep what agrees, truncate at a conflict, append the rest.
MergeEntries(n, prev, entries) ==
  LET k == FirstDifference(n, prev, entries)
  IN  IF k = 0 THEN n.log
      ELSE Prefix(n.log, prev + k - 1) \o SubSeq(entries, k, Len(entries))
\* Mutant of Overlap: the snapshot boundary is not considered.
NoOverlap(n, m) == 0

\* A request that begins below the snapshot is cut at the snapshot index.
Overlap(n, m) == IF m.prev < n.snap THEN n.snap - m.prev ELSE 0
\* Why an accepted leader's request does not match this log.
LogMismatch(n, m) ==
  IF Overlap(n, m) > 0
  THEN m.entries[Overlap(n, m)].term # TermAt(n, n.snap)
  ELSE \/ m.prev > LastIndex(n)
       \/ m.prev > 0 /\ TermAt(n, m.prev) # m.prevTerm

\* The log and the commit index after a matching request.
AppendMatching(n, m) ==
  LET prev == m.prev + Overlap(n, m)
      entries == SubSeq(m.entries, Overlap(n, m) + 1, Len(m.entries))
      last == prev + Len(entries)
      commit == IF m.commit < last THEN m.commit ELSE last
  IN  [n EXCEPT !.log = MergeEntries(n, prev, entries),
                !.commit = IF commit > @ THEN commit ELSE @]

RecordReplicationProgress(n, p, i) ==
  LET confirmed == IF i > n.match[p] THEN i ELSE n.match[p]
  IN  [n EXCEPT !.match[p] = confirmed,
                !.next[p] = IF @ > confirmed THEN @ ELSE confirmed + 1]

\* Mutant of BackOff: next_index may fall below its first value.
BackOffUnbounded(n, p) == [n EXCEPT !.next[p] = @ - 1]

\* A rejected request moves next_index back, never below what is confirmed.
BackOff(n, p) ==
  [n EXCEPT !.next[p] = IF @ = 0 THEN 0
                        ELSE IF @ - 1 > n.match[p] THEN @ - 1 ELSE n.match[p] + 1]

AcceptsReplicationResponse(n, s, p) ==
  p # s /\ (Contains(EffectiveConfiguration(n), p) \/ n.joiners[p] > 0)

\* A completed stream: the application state, the membership envelope and the
\* progress are replaced, and an admission ends when the envelope contains us.
InstallSnapshot(n, s, m) ==
  LET i == Len(m.prefix)
      here == Contains(m.conf, s)
  IN  [n EXCEPT !.log = InstallSnapshotLog(n, m.prefix), !.snap = i,
                !.commit = i, !.applied = i,
                !.base = m.conf, !.snapEpoch = m.epoch,
                !.conf = m.conf, !.epoch = IF m.epoch = 0 THEN i ELSE m.epoch,
                !.decommissioned = ~here,
                !.admission = IF here THEN NoAdmission ELSE @,
                !.joiningFrom = IF here THEN Nil ELSE @,
                !.finMembers = Ids(m.conf.next),
                !.finFence = IF IsJointConsensus(m.conf) THEN i ELSE 0,
                !.finPending = FALSE]

\* What broadcast_heartbeat sends to peer p: the snapshot when p is behind it,
\* else the entries from next_index that fit one frame.
ReplicationMessage(n, s, p) ==
  LET ni == IF n.next[p] = 0 THEN 1 ELSE n.next[p]
      last == IF ni + MaxBatch - 1 < LastIndex(n) THEN ni + MaxBatch - 1 ELSE LastIndex(n)
  IN  IF n.snap > 0 /\ ni <= n.snap
      THEN [type |-> "snapshotRequest", from |-> s, to |-> p, term |-> n.term,
            prefix |-> Prefix(n.log, n.snap), conf |-> n.base, epoch |-> n.snapEpoch]
      ELSE [type |-> "appendRequest", from |-> s, to |-> p, term |-> n.term,
            prev |-> ni - 1, prevTerm |-> TermAt(n, ni - 1),
            entries |-> SubSeq(n.log, ni, last), commit |-> n.commit]

-----------------------------------------------------------------------------
(* Restart and admission.                                                  *)

\* Mutant of Restart: the vote is not read back.
RestartWithoutVote(n, s) ==
  [InitNode(s) EXCEPT !.term = n.term, !.log = n.log, !.snap = n.snap,
                      !.incarnation = n.incarnation + 1, !.moves = n.moves]

\* RaftNode::new over the durable stores.
Restart(n, s) ==
  LET c == IF n.snap > 0 THEN n.base ELSE Launch(s)
      completed == n.snap > 0 /\ n.snap > n.admission.snap /\ Contains(c, s)
      admission == IF completed THEN NoAdmission ELSE n.admission
      m == [InitNode(s) EXCEPT
              !.term = n.term, !.votedFor = n.votedFor, !.admission = admission,
              !.log = n.log, !.snap = n.snap, !.base = c, !.snapEpoch = n.snapEpoch,
              !.known = admission.anchor, !.joiningFrom = admission.anchor,
              !.commit = n.snap, !.applied = n.snap, !.conf = c,
              !.epoch = IF n.snap > 0 /\ n.snapEpoch = 0 THEN n.snap ELSE n.snapEpoch,
              !.finMembers = Ids(c.next),
              !.finFence = IF IsJointConsensus(c) THEN n.snap ELSE 0,
              !.incarnation = n.incarnation + 1, !.moves = n.moves]
  IN  [m EXCEPT !.decommissioned = ~Contains(EffectiveConfiguration(m), s)]

\* The three durable writes of begin_joining, in their order: the admission
\* fence, the reset of the log, the vote.
WriteAdmission(n, a) == [n EXCEPT !.admission = [anchor |-> a, snap |-> n.snap], !.moves = @ + 1]

ResetLog(n) == [n EXCEPT !.log = <<>>, !.snap = 0, !.snapEpoch = 0]

\* begin_joining leaves the term and both configurations as they were.
BeginJoiningNode(n, a) ==
  [ResetLog(WriteAdmission(n, a)) EXCEPT
     !.votedFor = Nil, !.role = "follower", !.known = a, !.joiningFrom = a, !.granted = {},
     !.commit = 0, !.applied = 0, !.epoch = 0, !.next = Zero, !.match = Zero,
     !.joiners = Zero, !.finMembers = {}, !.finFence = 0, !.finPending = FALSE,
     !.incarnation = @ + 1]

\* A node applies for admission only as the leader of a cluster of its own.
MayApply(n, s) == ~Joining(n) /\ n.role = "leader" /\ Ids(AllMembers(n.conf)) = {s}

-----------------------------------------------------------------------------
(* Actions.                                                                *)

\* Only the clustered servers share a consensus domain with the founders.
InCluster(n, s) == s \in Founders \/ n.moves > 0

Heartbeats(s) ==
  {ReplicationMessage(node[s], s, p) : p \in ReplicationPeers(node[s]) \ {s}}

\* The node that runs a handler is not inside another one.  No node is, since
\* the steps of a handler touch nothing that another node can see before it
\* ends.  With EagerHeartbeats every leader has also broadcast in its present
\* state: messages are never removed, so this only adds behaviours of the
\* receivers and leaves out runs with fewer messages.
Idle ==
  \A t \in Server :
     /\ ~Busy(node[t])
     /\ EagerHeartbeats /\ node[t].role = "leader" => Heartbeats(t) \subseteq msgs

\* A message that makes no difference any more to its receiver n or its sender
\* f: the answer to a term that is over for the receiver, or that it no longer
\* leads or stands in, or that acknowledges less than is known; a request of
\* a term that is over for both.  Terms never decrease and a server stands at
\* most once in a term.
Ignored(m, n, f) ==
  LET ack == m.type \in {"appendResponse", "snapshotResponse"}
      ballot == m.type = "voteResponse"
  IN  \/ m.term < n.term /\ (ack \/ ballot \/ m.term < f.term)
      \/ m.term = n.term /\ ballot /\ (n.role # "candidate" \/ ~m.success)
      \/ m.term = n.term /\ ack /\ (n.role # "leader" \/ (m.success /\ m.match < n.match[m.from]))

\* Who has voted for s in term t, its own vote included.
VotersFor(s, t) == {s} \cup {v.voter : v \in {w \in votes : w.cand = s /\ w.term = t}}

\* node[s] becomes n and sends ms.  The network loses what is ignored for
\* ever; the histories record an election won, what a leader appends and a
\* longer committed prefix.
\* A step that changes nothing is a stuttering step and not a step of Next.
Becomes(s, n, ms) ==
  /\ node' = [node EXCEPT ![s] = n]
  /\ LET Matters(m) == ~Ignored(m, node'[m.to], node'[m.from])
         sent == {m \in ms \ msgs : Matters(m)}
     IN  /\ n # node[s] \/ sent # {}
         /\ msgs' = sent \cup (IF n = node[s] THEN msgs ELSE {m \in msgs : Matters(m)})
  /\ elections' =
       IF n.role # "leader" THEN elections
       ELSE IF node[s].role = "leader"
       THEN {IF e.leader = s /\ e.term = n.term THEN [e EXCEPT !.log = n.log] ELSE e :
               e \in elections}
       ELSE elections \cup {[term |-> n.term, leader |-> s, moves |-> n.moves,
                             conf |-> EffectiveConfiguration(n),
                             voters |-> VotersFor(s, n.term), log |-> n.log]}
  /\ committed' = IF InCluster(n, s) /\ n.commit > Len(committed)
                  THEN Prefix(n.log, n.commit) ELSE committed

Reply(m, type, t, ok, i) ==
  [type |-> type, from |-> m.to, to |-> m.from, term |-> t, success |-> ok, match |-> i]

\* The next iteration of the loop of apply_committed.
Apply(s) ==
  /\ Busy(node[s])
  /\ Becomes(s, ApplyCommitted(node[s], s), {})
  /\ UNCHANGED <<votes, reads>>

\* check_timeout and start_election on a tick.
StartElection(s) ==
  /\ MayCampaign(node[s], s)
  /\ <<s, node[s].term + 1>> \in Campaigns
  /\ LET n == Campaign(node[s], s)
     IN  /\ Becomes(s, ElectIfMajority(n, s),
                   {[type |-> "voteRequest", from |-> s, to |-> p, term |-> n.term,
                     lastIndex |-> LastIndex(n), lastTerm |-> LastTerm(n)] :
                    p \in AllMembers(EffectiveConfiguration(n)).voters \ {s}})
         /\ votes' = votes \cup {[voter |-> s, moves |-> n.moves, term |-> n.term, cand |-> s]}
  /\ UNCHANGED reads

HandleVoteRequest(m) ==
  /\ m.type = "voteRequest"
  /\ LET s == m.to
         n == IF m.term > node[s].term THEN StepDown(node[s], m.term) ELSE node[s]
         granted == GrantsVote(n, s, m)
     IN  /\ Becomes(s, IF granted THEN [n EXCEPT !.votedFor = m.from] ELSE n,
                   {Reply(m, "voteResponse", n.term, granted, 0)})
         /\ votes' = IF granted
                     THEN votes \cup {[voter |-> s, moves |-> n.moves, term |-> n.term,
                                       cand |-> m.from]}
                     ELSE votes
  /\ UNCHANGED reads

HandleVoteResponse(m) ==
  /\ m.type = "voteResponse"
  /\ LET s == m.to
         n == node[s]
     IN  /\ n.role = "candidate"
         /\ \/ /\ m.term > n.term
               /\ Becomes(s, StepDown(n, m.term), {})
            \/ /\ m.term = n.term /\ m.success
               /\ IsVoter(EffectiveConfiguration(n), m.from)
               /\ Becomes(s, ElectIfMajority([n EXCEPT !.granted = @ \cup {m.from}], s), {})
  /\ UNCHANGED <<votes, reads>>

\* handle_append_entries.  The match index of a refusal is never read, so it
\* is 0 here.
HandleAppendEntries(m) ==
  /\ m.type = "appendRequest"
  /\ LET s == m.to
         n == AcceptLeader(node[s], m)
         answer(t, ok, i) == {Reply(m, "appendResponse", t, ok, i)}
     IN  \/ /\ m.term < node[s].term \/ RefusesLeader(node[s], s, m)
            /\ Becomes(s, node[s], answer(node[s].term, FALSE, 0))
         \/ /\ m.term >= node[s].term /\ ~RefusesLeader(node[s], s, m)
            /\ \/ /\ Len(m.entries) < Overlap(n, m)
                  /\ Becomes(s, n, answer(n.term, TRUE, n.snap))
               \/ /\ Len(m.entries) >= Overlap(n, m)
                  /\ LogMismatch(n, m)
                  /\ Becomes(s, n, answer(n.term, FALSE, 0))
               \/ /\ Len(m.entries) >= Overlap(n, m)
                  /\ ~LogMismatch(n, m)
                  /\ Becomes(s, AppendMatching(n, m),
                             answer(n.term, TRUE, m.prev + Len(m.entries)))
  /\ UNCHANGED <<votes, reads>>

HandleAppendEntriesResponse(m) ==
  /\ m.type = "appendResponse"
  /\ LET s == m.to
         n == node[s]
     IN  /\ n.role = "leader" /\ AcceptsReplicationResponse(n, s, m.from)
         /\ \/ /\ m.term > n.term
               /\ Becomes(s, StepDown(n, m.term), {})
            \/ /\ m.term = n.term /\ m.success /\ m.match <= LastIndex(n)
               /\ Becomes(s, AdvanceThenFinalize(
                              RecordReplicationProgress(n, m.from, m.match), s), {})
            \/ /\ m.term = n.term /\ ~m.success
               /\ Becomes(s, BackOff(n, m.from), {})
  /\ UNCHANGED <<votes, reads>>

\* handle_install_snapshot, for a stream delivered whole.
HandleInstallSnapshot(m) ==
  /\ m.type = "snapshotRequest"
  /\ LET s == m.to
         n == AcceptLeader(node[s], m)
         answer(t, ok) == {Reply(m, "snapshotResponse", t, ok, Len(m.prefix))}
     IN  \/ /\ m.term < node[s].term \/ RefusesLeader(node[s], s, m)
            /\ Becomes(s, node[s], answer(node[s].term, FALSE))
         \/ /\ m.term >= node[s].term /\ ~RefusesLeader(node[s], s, m)
            /\ Becomes(s, IF Len(m.prefix) <= n.commit THEN n ELSE InstallSnapshot(n, s, m),
                       answer(n.term, TRUE))
  /\ UNCHANGED <<votes, reads>>

HandleInstallSnapshotResponse(m) ==
  /\ m.type = "snapshotResponse"
  /\ LET s == m.to
         n == node[s]
     IN  /\ AcceptsReplicationResponse(n, s, m.from)
         /\ \/ /\ m.term > n.term
               /\ Becomes(s, StepDown(n, m.term), {})
            \/ /\ n.role = "leader" /\ m.term = n.term
               /\ m.success /\ m.match <= LastIndex(n)
               /\ Becomes(s, AdvanceCommitIndex(
                              RecordReplicationProgress(n, m.from, m.match), s), {})
  /\ UNCHANGED <<votes, reads>>

BroadcastHeartbeat(s) ==
  /\ \A t \in Server : ~Busy(node[t])
  /\ node[s].role = "leader"
  /\ Becomes(s, MaybePromotePendingJoiners(node[s], s), Heartbeats(s))
  /\ UNCHANGED <<votes, reads>>

ClientCommand(s) ==
  /\ s \in Clients
  /\ node[s].role = "leader" /\ LastIndex(node[s]) < MaxLog
  /\ Becomes(s, Submit(node[s], s, "command", NoMembers), {})
  /\ UNCHANGED <<votes, reads>>

\* submit_join, for a join request or OP_ADD_SERVER.
SubmitJoin(s, p) ==
  /\ node[s].role = "leader" /\ LastIndex(node[s]) < MaxLog
  /\ ~Contains(node[s].conf, p) /\ node[s].joiners[p] = 0
  /\ \A i \in node[s].snap + 1 .. LastIndex(node[s]) :
        ~(node[s].log[i].kind = "join" /\ p \in Ids(node[s].log[i].members))
  /\ Becomes(s, Submit(node[s], s, "join",
                       IF p \in JoinLearners THEN [voters |-> {}, learners |-> {p}]
                                             ELSE [voters |-> {p}, learners |-> {}]), {})
  /\ UNCHANGED <<votes, reads>>

\* OP_REMOVE_SERVER
RemoveServer(s, p) ==
  /\ node[s].role = "leader" /\ LastIndex(node[s]) < MaxLog
  /\ LET all == AllMembers(node[s].conf)
         left == [voters |-> all.voters \ {p}, learners |-> all.learners \ {p}]
     IN  /\ Ids(left) # {}
         /\ Becomes(s, SubmitJointConfiguration(node[s], s, left), {})
  /\ UNCHANGED <<votes, reads>>

BeginJoining(s, a) ==
  /\ MayApply(node[s], s) /\ a # s
  /\ node[s].incarnation < MaxRestart
  /\ Becomes(s, BeginJoiningNode(node[s], a), {})
  /\ UNCHANGED <<votes, reads>>

\* begin_read appends a no-op and remembers the leadership it was admitted in.
BeginRead(s) ==
  /\ s \in Readers
  /\ LET n == node[s]
     IN  /\ n.role = "leader" /\ ~Joining(n) /\ ~n.decommissioned /\ IsVoter(n.conf, s)
         /\ LastIndex(n) < MaxLog /\ Cardinality(reads) < MaxReads
         /\ reads' = reads \cup {[server |-> s, domain |-> n.incarnation, term |-> n.term,
                                  index |-> LastIndex(n) + 1, epoch |-> n.epoch,
                                  seen |-> Len(committed)]}
         /\ Becomes(s, Submit(n, s, "noop", NoMembers), {})
  /\ UNCHANGED votes
\* Mutant of ReadReady: the read's own index need not be committed.
ReadyWithoutBarrier(r) ==
  LET n == node[r.server]
  IN  /\ n.role = "leader" /\ n.term = r.term /\ ~Joining(n) /\ ~n.decommissioned
      /\ n.epoch = r.epoch /\ n.incarnation = r.domain
      /\ n.applied = n.commit /\ TermAt(n, n.commit) = r.term

\* read_ready; handle_client_query answers exactly then, from the applied state.
ReadReady(r) ==
  LET n == node[r.server]
  IN  /\ n.role = "leader" /\ n.term = r.term /\ ~Joining(n) /\ ~n.decommissioned
      /\ n.epoch = r.epoch /\ n.incarnation = r.domain
      /\ n.commit >= r.index /\ n.applied = n.commit
      /\ TermAt(n, n.commit) = r.term

-----------------------------------------------------------------------------
(* Crashes.  A crash loses memory and runs RaftNode::new on what was       *)
(* written: between handlers, inside the apply loop, or between two        *)
(* durable writes of one handler.                                          *)

CrashInto(s, n) ==
  /\ s \in Crashing /\ node[s].incarnation < MaxRestart
  /\ Becomes(s, Restart(n, s), {})
  /\ UNCHANGED <<votes, reads>>

Crash(s) == "any" \in CrashPoints /\ CrashInto(s, node[s])

\* step_down and start_election write the term before the vote.
CrashAfterTerm(s) ==
  /\ "term" \in CrashPoints
  /\ \/ \E m \in msgs : /\ m.to = s /\ m.term > node[s].term
                        /\ CrashInto(s, [node[s] EXCEPT !.term = m.term])
     \/ /\ MayCampaign(node[s], s) /\ <<s, node[s].term + 1>> \in Campaigns
        /\ CrashInto(s, [node[s] EXCEPT !.term = @ + 1])

\* A conflicting suffix is truncated before the new one is appended.
CrashAfterTruncate(m) ==
  /\ "truncate" \in CrashPoints
  /\ m.type = "appendRequest"
  /\ LET s == m.to
         n == AcceptLeader(node[s], m)
         k == Overlap(n, m)
         d == FirstDifference(n, m.prev + k, SubSeq(m.entries, k + 1, Len(m.entries)))
     IN  /\ m.term >= node[s].term /\ ~RefusesLeader(node[s], s, m)
         /\ Len(m.entries) >= k /\ ~LogMismatch(n, m)
         /\ d > 0 /\ m.prev + k + d <= LastIndex(n)
         /\ CrashInto(s, [n EXCEPT !.log = Prefix(@, m.prev + k + d - 1)])

\* Between the writes of begin_joining.
CrashAfterFence(s, a) ==
  /\ "fence" \in CrashPoints
  /\ MayApply(node[s], s) /\ a # s
  /\ CrashInto(s, WriteAdmission(node[s], a))

CrashAfterReset(s, a) ==
  /\ "reset" \in CrashPoints
  /\ MayApply(node[s], s) /\ a # s
  /\ CrashInto(s, ResetLog(WriteAdmission(node[s], a)))

\* The membership snapshot is durable, the admission fence not yet cleared.
CrashAdmitting(s) ==
  /\ "admit" \in CrashPoints
  /\ Busy(node[s])
  /\ LET i == node[s].applied + 1
         n == ChangeConfiguration(node[s], s, i)
     IN  /\ i > node[s].snap /\ i <= LastIndex(node[s])
         /\ node[s].log[i].kind \in {"joint", "finalize"}
         /\ Joining(n) /\ Contains(n.conf, s)
         /\ CrashInto(s, SnapshotAdmittedMembership(n, i))

\* A received snapshot is durable, the admission fence not yet cleared.
CrashInstalling(m) ==
  /\ "install" \in CrashPoints
  /\ m.type = "snapshotRequest"
  /\ LET s == m.to
         n == AcceptLeader(node[s], m)
     IN  /\ m.term >= node[s].term /\ ~RefusesLeader(node[s], s, m)
         /\ Len(m.prefix) > n.commit
         /\ Joining(n) /\ Contains(m.conf, s)
         /\ CrashInto(s, [InstallSnapshot(n, s, m) EXCEPT !.admission = n.admission])

-----------------------------------------------------------------------------
Init ==
  /\ node = [s \in Server |-> InitNode(s)]
  /\ msgs = {} /\ votes = {} /\ elections = {} /\ committed = <<>> /\ reads = {}

Receive(m) ==
  \/ HandleVoteRequest(m)
  \/ HandleVoteResponse(m)
  \/ HandleAppendEntries(m)
  \/ HandleAppendEntriesResponse(m)
  \/ HandleInstallSnapshot(m)
  \/ HandleInstallSnapshotResponse(m)

Call(s) ==
  \/ StartElection(s)
  \/ ClientCommand(s)
  \/ BeginRead(s)
  \/ CrashAfterTerm(s)

Reconfigure(s) ==
  \/ \E p \in Joiners : InCluster(node[s], s) /\ SubmitJoin(s, p)
  \/ \E p \in Removable : RemoveServer(s, p)
  \/ \E a \in Anchors : /\ s \in Joiners
                        /\ \/ BeginJoining(s, a)
                           \/ CrashAfterFence(s, a)
                           \/ CrashAfterReset(s, a)

\* Busy nodes first; then any node may take its next handler.
Next ==
  \/ \E s \in Server : Apply(s) \/ CrashAdmitting(s) \/ Crash(s) \/ BroadcastHeartbeat(s)
  \/ /\ Idle
     /\ \/ \E m \in msgs : Receive(m) \/ CrashAfterTruncate(m) \/ CrashInstalling(m)
        \/ \E s \in Server : Call(s) \/ Reconfigure(s)

Spec == Init /\ [][Next]_vars

-----------------------------------------------------------------------------
(* Properties.                                                             *)

\* Every field has its type, in the nodes, the messages and the histories.
TypeOK ==
  /\ node \in [Server -> Node]
  /\ msgs \subseteq Message
  /\ votes \subseteq Vote /\ elections \subseteq Election
  /\ committed \in Seq(Entry)
  /\ reads \subseteq Read

\* A server votes for at most one candidate in a term of one consensus domain:
\* handle_vote_request and start_election against a step-down that keeps the
\* term, a restart, a crash between the writes of term and vote, and repeated
\* or late requests.
VoteOnce ==
  \A v, w \in votes :
     v.voter = w.voter /\ v.moves = w.moves /\ v.term = w.term => v.cand = w.cand

Voted(p, s, t) == \E v \in votes : v.voter = p /\ v.cand = s /\ v.term = t

\* A node's term and votedFor remember its last vote in its present domain.
LastVoteRemembered ==
  \A v \in votes :
     LET n == node[v.voter]
     IN  /\ v.moves <= n.moves
         /\ v.moves = n.moves => v.term <= n.term
         /\ v.moves = n.moves /\ v.term = n.term => n.votedFor = v.cand

\* Every vote a candidate has counted, or is about to receive, was cast.
CountedVotesCast ==
  /\ \A s \in Server : \A p \in node[s].granted : Voted(p, s, node[s].term)
  /\ \A m \in msgs : m.type = "voteResponse" /\ m.success => Voted(m.from, m.to, m.term)

WinnersHadQuorum ==
  \A e \in elections : HasJointMajority(e.conf, {p \in Server : Voted(p, e.leader, e.term)})

FoundersStay == \A s \in Founders : node[s].moves = 0

\* What makes VoteOnce inductive and an election count real votes, across
\* restarts, late and repeated ballots and changes of membership: the last
\* vote is remembered, counted votes were cast, and every winner had both
\* quorums of the configuration it was elected in.
BallotInvariant ==
  LastVoteRemembered /\ CountedVotesCast /\ WinnersHadQuorum /\ FoundersStay

\* become_leader happens for at most one server in a term of the cluster,
\* whatever configurations the winners counted their votes in.
ElectionSafety ==
  \A e, f \in elections :
     /\ e.term = f.term
     /\ e.leader \in Founders \/ e.moves > 0
     /\ f.leader \in Founders \/ f.moves > 0
     => e.leader = f.leader

\* The voter sets whose majorities an election or a commitment needs.
Halves(c) == {c.cur.voters} \cup (IF IsJointConsensus(c) THEN {c.next.voters} ELSE {})

\* Two elections of one term whose configurations have one of their voter sets
\* in common have the same winner: has_joint_majority asks both halves of a
\* joint configuration so that this holds across every membership change.
SharedHalfElectionSafety ==
  \A e, f \in elections :
     /\ e.term = f.term
     /\ \E v \in Halves(e.conf) \cap Halves(f.conf) : v \subseteq Founders
     => e.leader = f.leader

\* What one server of the cluster has committed no server of the cluster
\* commits differently: the prefix apply_committed runs over is the same.
StateMachineSafety ==
  \A s \in Server : InCluster(node[s], s) =>
     \A i \in 1 .. node[s].commit :
        i <= Len(committed) /\ i <= LastIndex(node[s]) => node[s].log[i] = committed[i]

\* Two logs of the cluster that hold an entry of the same index and term agree
\* up to it: what the consistency check of handle_append_entries is for.
LogMatching ==
  \A s, t \in Server : InCluster(node[s], s) /\ InCluster(node[t], t) =>
     \A i \in 1 .. LastIndex(node[s]) :
        i <= LastIndex(node[t]) /\ node[s].log[i].term = node[t].log[i].term
          => SubSeq(node[s].log, 1, i) = SubSeq(node[t].log, 1, i)

\* The leader of the latest term holds every entry that was ever committed:
\* the vote's log comparison against advance_commit_index.
LeaderCompleteness ==
  \A s \in Server :
     /\ node[s].role = "leader" /\ InCluster(node[s], s)
     /\ \A e \in elections : e.term <= node[s].term
     => /\ Len(committed) <= LastIndex(node[s])
        /\ SubSeq(node[s].log, 1, Len(committed)) = committed

\* match_index is the truth about a peer that is still in the leader's term:
\* its log agrees with the leader's up to there.
MatchIndexTruthful ==
  \A s, p \in Server :
     LET n == node[s]
         i == n.match[p]
     IN  n.role = "leader" /\ i > 0 /\ node[p].term = n.term =>
           /\ i <= LastIndex(node[p])
           /\ SubSeq(node[p].log, 1, i) = SubSeq(n.log, 1, i)

\* A query is answered only by a state that contains everything the cluster
\* had committed when the read began, even from a leader that was deposed or
\* that has not yet committed in its term.
ReadLinearizable ==
  \A r \in reads : ReadReady(r) /\ InCluster(node[r.server], r.server) =>
     LET n == node[r.server]
     IN  /\ n.commit >= r.seen
         /\ SubSeq(n.log, 1, r.seen) = SubSeq(committed, 1, r.seen)

\* A node that has completed its admission never again is a quorum by itself,
\* as its launch-time configuration would let it, whenever it crashes: neither
\* to commit or elect, nor to refuse the leaders of the cluster as strangers.
NoSingletonResurrection ==
  \A s \in Joiners : node[s].moves > 0 /\ ~Joining(node[s]) =>
     /\ ~HasJointMajority(EffectiveConfiguration(node[s]), {s})
     /\ ~HasJointMajority(node[s].conf, {s})

\* The fences of p before index j: the entries that recorded its JOIN.
JoinFences(n, p, j) ==
  {i \in 1 .. j - 1 : n.log[i].kind = "join" /\ p \in Ids(n.log[i].members)}

\* No quorum counts a server that has not caught up: a JOINT entry in any log
\* of the cluster takes a joiner in only when that joiner holds the log up to
\* its JOIN entry, by index and term as the nodes compare logs, and it still
\* does after crashes of either and with late or repeated acknowledgements.
AdmittedCaughtUp ==
  \A s \in Server : InCluster(node[s], s) =>
    \A j \in 1 .. LastIndex(node[s]) : node[s].log[j].kind = "joint" =>
      \A p \in Ids(node[s].log[j].members) \cap Joiners :
        \E i \in JoinFences(node[s], p, j) :
          /\ i <= LastIndex(node[p])
          /\ \A k \in 1 .. i : node[p].log[k].term = node[s].log[k].term

\* finalize_configuration_pending is up only while a FINALIZE of this leader
\* is waiting to be committed; otherwise later changes are refused for ever.
\* RaftMembershipProofs says when it holds; a leader elected again, or one
\* that commits its FINALIZE alone, breaks it.
FinalizePendingHasFinalize ==
  \A s \in Server :
     node[s].role = "leader" /\ node[s].finPending /\ ~Busy(node[s]) =>
       \E i \in node[s].commit + 1 .. LastIndex(node[s]) : node[s].log[i].kind = "finalize"

\* No step of a running node changes an entry it has committed: truncation at
\* a conflict, a received snapshot and compaction all keep the prefix.
CommittedPrefixStable ==
  [][\A s \in Server : node'[s].incarnation = node[s].incarnation =>
       /\ node'[s].commit >= node[s].commit
       /\ Prefix(node'[s].log, node[s].commit) = Prefix(node[s].log, node[s].commit)]_vars
=============================================================================
