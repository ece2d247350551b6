# CharlotteOS: a TLA+ verification project

CharlotteOS is an operating system in Rust: a capability kernel (`crates/catten`), user-space
services (`crates/catten-services`) and, inside them, a Raft implementation
(`crates/catten-graft`) that keeps the cluster's membership, name catalogue and deployments
consistent. The project models the parts where most processes, crashes, refusals and
unreliable messages meet: the Raft core and its snapshot transfer, the reliable messaging
service under it, the object store that makes it durable, and in the kernel the translation
shootdown and the life of memory objects and address spaces.

The repository keeps exploratory specifications of its own under `docs/tla`. The modules here
are independent of them: every definition is translated from the Rust source, and
`PROJECT.json` ("map") names the lines of each.

## Inventory

### Consensus (crates/catten-graft, driven by services raft and dns)

| Part | State | Operations | What must hold |
|---|---|---|---|
| `membership.rs` | current and proposed member maps | stable, transition_to, finalize_transition, has_joint_majority | two quorums of one voter set meet; a joint configuration needs both |
| `log_store.rs`, `disk_raft.rs` | entries, snapshot index, term and bytes; term, vote, admission fence | append, truncate_from, term_at, entry_at, install_snapshot, reset | indexes mean the same before and after compaction; each write is durable before the next |
| `node.rs` elections | term, vote, role, granted votes | check_timeout, start_election, handle_vote_request/response, step_down, become_leader | one vote per term, one leader per term, across crashes and membership changes |
| `node.rs` replication | log, next_index, match_index, commit_index | broadcast_heartbeat, handle_append_entries(_response), advance_commit_index, apply_committed | committed entries never change and never differ; progress is true |
| `node.rs` snapshots | snapshot envelope, snapshot_offsets, pending_snapshot | maybe_compact_local_snapshot, handle_install_snapshot(_response) | whole snapshots only, commit never moves back, the transfer ends |
| `node.rs` membership | cluster_configuration, pending_joiners, finalize fields, joining, admission fence | submit_join, submit_joint_configuration, begin_joining, apply_configuration_command, maybe_promote_pending_joiners, maybe_auto_finalize | no double majority during a change; an admitted node never falls back to its own cluster; nobody joins a quorum before it has caught up |
| `node.rs` reads | read_domain, PendingRead | begin_read, read_ready, handle_client_query | a read sees everything committed when it began |
| `bin/raft.rs`, `bin/dns.rs` | timers, discovery, join requests | tick, inbound frames, OP_ADD_SERVER, OP_REMOVE_SERVER | the node is driven by one thread, one handler at a time |
| `relmsg_transport.rs`, `bin/relmsg.rs` | queues, sessions, sequence numbers | send, decode_inbound, retransmit | Raft messages may be lost, repeated, reordered |

The hard behaviours: handlers of different servers interleave freely; every handler that
writes durably may be cut by a crash between two writes; messages of ended terms, ended
leaderships and ended snapshot transfers arrive late; configurations are decided by logs that
are not yet committed; and a server may change from one consensus domain (its own one-server
cluster) into another.

### Messaging, storage and kernel

| Part | State | Operations | What must hold |
|---|---|---|---|
| `bin/relmsg.rs`, `charlotte-protocol-msg` | per peer a transmit half (session, next sequence, one outstanding message) and a receive half (session, expected sequence, reassembly), a bounded queue | OP_SEND, OP_RECV, frames, acknowledgements, retry ticks, restart | a call that succeeds was delivered; nothing twice, nothing out of order, no body mixed from two messages; every call is answered |
| `charlotte-lifecycle/src/shootdown.rs`, x86_64 `ipis/mod.rs` | coordinator (owned, requested epoch), acknowledgements, pending interrupts | try_begin, publication, delivery, handler, observation, deadline | success means no processor can use a removed translation; the coordinator is not leaked; calls return |
| `memory/object*.rs`, `memory/operation.rs`, `memory/retirement*.rs`, `id_table.rs` | objects with mappings, loans, pins, fences; roots with generation and leases; closes and retained retries | create, map, unmap, protect, lend, revoke, pin, copy, transfer, close; close, seal, retire and retry of a root | freed frames are unreachable, a writer is alone, a reused slot meets no old translation, the counts are exact, closes that are not given up finish |
| `bin/objstore.rs`, `charlotte-protocol-objstore` | directory banks, superblocks, headers and data on a device with a volatile cache; directory, bitmap, index cache and counter in memory | mount, format, create, write, delete, flush | a request answered with success survives every crash, interrupted ones leave old or new contents, the store always mounts, automatic ids are not repeated |

They interact through narrow promises: Raft's messages travel through relmsg, and `RaftNode`
assumes nothing of them; `SnapshotStream` opens one message of `RaftNode`; `MemoryObjects`
uses the invalidation as `Invalidation` states it, which `Shootdown` implements; Raft's
durable stores are objects of the object store, and `RaftNode` takes each durable write as
one step, which is what `DurableObjects` promises.

Not modelled: IPC endpoints, replies and cancellation (`catten/src/ipc`); completion queues
(`catten/src/completion`); observers and blocking waits (`catten/src/klib/observer`); the
scheduler and its blocking mutex; interrupt, IOMMU and resource lifecycles; capabilities;
timers; the name catalogue, cluster ingress and deployment control; authorization policy.
Drivers, TCP/IP, TLS, the Kafka and S3 clients and vendored code are I/O or third-party and
stay out. `PROJECT.json` ("components") lists each with its reason.

## Modules

| Module | What it is |
|---|---|
| `Membership` | `ClusterConfiguration` as a value: a member map is a pair of sets (voters, learners), a configuration a pair of member maps |
| `LogStore` | the store's index arithmetic over a record with `log` and `snap` |
| `RaftNode` | the node, the network and the crash points; EXTENDS the two above |
| `MCRaftNode` | which servers stand in which terms, and the view, for the runs |
| `RaftNodeProofs` | theorems about `RaftNode`: types, votes, elections |
| `RaftSafetyProofs` | theorems about `RaftNode` while nobody joins and at most one server is removed: elections, logs, commitment, reads |
| `RaftMembershipProofs` | theorems about `RaftNode`: admission of joining nodes, the automatic FINALIZE |
| `SnapshotStream` | the chunked snapshot transfer between successive leaders and one follower |
| `MCSnapshotStream` | sizes of the snapshots, for the runs |
| `SnapshotStreamProofs` | theorems about `SnapshotStream` |
| `MessageChannel` | what reliable messaging promises: accepted, delivered at most once and in order, reported |
| `RelMsg` | the messaging service on a network that loses, repeats, delays and reorders frames; implements `MessageChannel` |
| `MCRelMsg` | two machines and three messages, for the run |
| `RelMsgProofs` | theorems about `RelMsg`, the refinement among them |
| `Invalidation` | what a caller of the translation invalidation relies on |
| `Shootdown` | the epoch-fenced rendezvous of x86-64; implements `Invalidation` |
| `ShootdownProofs` | theorems about `Shootdown`, the refinement among them |
| `MemoryObjects` | objects, mappings, loans, pins, transfers; roots, leases, closing, retirement, recovery |
| `MCMemoryObjects` | the symmetry of one run, what may begin on the second object of the other |
| `MemoryObjectsProofs` | theorems about `MemoryObjects` |
| `DurableObjects` | what an object store promises: an answer of success is durable, one of failure leaves old or new contents, others are untouched |
| `ObjectStore` | the copy-on-write store on a device with a volatile write cache; implements `DurableObjects` |
| `MCObjectStore` | contents and their sizes, for the run |
| `ObjectStoreProofs` | theorems about `ObjectStore`, the refinement among them |

### How RaftNode corresponds to the code

`node[s]` is a record with the fields of `struct RaftNode` that decide anything. Durable are
`term`, `votedFor`, `admission` (`PersistentStateStore`) and `log`, `snap`, `base`,
`snapEpoch` (`LogStore` and the membership envelope in the snapshot bytes); a crash keeps
these and `Restart` rebuilds the rest as `RaftNode::new` does. The code drops the entries up
to the snapshot index and keeps the snapshot bytes. The model keeps the entries in `log`,
where they stand for the bytes; `TermAt`, `LastOfKind` and every other reader refuse them as the
code does.

Each handler is one action, with one exception. `apply_committed` is a loop that may append,
commit and apply more entries inside itself (`apply_configuration_command` calls
`maybe_auto_finalize`), so each round is one `Apply` step; `tail` and `after` hold what the
interrupted caller still has to do. While any node is in that loop no other handler runs
(`Idle`), which loses nothing because the loop touches no other node and sends nothing. The
reply to an AppendEntries request is in the network when the loop starts; the log it reports
is already durable then, so a crash inside the loop only adds behaviours.

`msgs` is the set of messages sent. Delivery does not remove a message, so each may be
delivered late, again, in any order, or never. Messages that can no longer change anything
are dropped (`Ignored`, with the reasons in its comment) to keep the state space small.
`EagerHeartbeats` restricts a run to schedules in which a leader's tick follows each change:
since messages stay available this leaves out only runs with fewer messages.

| Action | Code |
|---|---|
| `StartElection` | a tick: `check_timeout`, `start_election`, `become_leader` when alone |
| `HandleVoteRequest`, `HandleVoteResponse` | the handlers of the same names |
| `HandleAppendEntries`, `HandleAppendEntriesResponse` | the same, with the snapshot overlap, the matching loop, commitment and automatic FINALIZE |
| `HandleInstallSnapshot`, `HandleInstallSnapshotResponse` | the same, for a stream delivered whole (chunks are `SnapshotStream`) |
| `BroadcastHeartbeat` | a tick of the leader: one message per replication peer, then `maybe_promote_pending_joiners` |
| `Apply` | one round of `apply_committed`; with the last, compaction and the caller's rest |
| `ClientCommand`, `BeginRead` | `handle_client_command`, `begin_read`; `ReadReady` is `read_ready` |
| `SubmitJoin`, `RemoveServer` | join request or OP_ADD_SERVER, OP_REMOVE_SERVER |
| `BeginJoining` | a standalone leader applies to an anchor |
| `Crash`, `CrashAfterTerm`, `CrashAfterTruncate`, `CrashAfterFence`, `CrashAfterReset`, `CrashAdmitting`, `CrashInstalling` | a crash between handlers, inside the apply loop, and between any two durable writes of one handler whose order matters |

`votes`, `elections` and `committed` are history: no guard reads them. An election keeps who
had voted for its winner and the winner's log for as long as it leads; only the proofs use
these two, and TLC tells states apart without them (`VIEW Visible`). `moves` counts the
consensus domains a node has left, so that histories of a standalone node are not mixed with
those of the cluster it joins.

### SnapshotStream

RaftNode delivers a snapshot in one message. `SnapshotStream` opens that step: the leader's
`offset` (`snapshot_offsets`), the follower's `pending` buffer, one chunk per message. Bytes
are triples (term, index, position), so a buffer that mixes two leaders' or two snapshots'
bytes is visible. Messages are consumed, or delivered again or lost at the cost of one of
`MaxFaults`. Leaders change (`NewLeader`), compact (`Compact`), and the follower restarts or
fails to restore. A refused AppendEntries that brings next_index below the snapshot is taken
as done: the transfer is what is studied.

### RelMsg

`tx[n][p]` and `rx[n][p]` are the two halves a service keeps of each peer, `wire` the frames
ever sent: delivery does not remove a frame. A session is a pair of the generation that the
name service hands out at each start and a retry epoch; `Tick` counts retries, and when the
lease ends fails the call and moves to the next session, or refuses further sends when the
epochs are used up. `ReceiveData` goes through accept_session, the duplicate and
out-of-order cases, reassembly with its global limit, the bounded queue and the acknowledgement.
`MessageChannel` knows neither frames nor sessions; the mapping reads a message's status off
the call's reply and the order of acceptance and delivery off history variables.

`PartialSend` is a constant of the environment: whether the network service may refuse a
fragment after it took earlier ones of the same message. See *Known deviations*.

### Shootdown

Each access of another processor's state is a step: the claim of the coordinator, the
publication of the epoch, the local flush, each interrupt, each observation; the handler
captures the epoch, flushes and acknowledges in three steps. `cached[c]` says whose detached
mapping processor `c` may still cache; a processor may take an interrupt late, also for an
attempt that was abandoned. `Invalidation` has no epochs, processors or attempts: reachable
mappings, requests, confirmations.

### MemoryObjects

An action is what the code does under one hold of the object registry, of the root table or of
the lifecycle lock; page-table work and invalidations lie between the holds and may be
refused. `op` holds the operations under way with the leases they took, `closer` the close of
each root with its stage (begin, devices, memory with retained peers, sealing, retirement),
`entry` the bounded registry of roots whose release failed. The owner of a close that is told
to wait may give up (`GiveUp`, `Pending`): the supervisor does at its deadline of five
seconds, close_user_address_space_handle at once. The root then stays closing for ever, and
nobody tries again. A transfer may be dropped at any time, committed or not. `reach` is what
no software variable records: the mappings a processor may still use, from a table or a stale
translation.

Abstractions: the capabilities of a root for one object are one; the two registry holds that
end an unmap or a revocation without anything between them are one; the delivery of a
transferred object through IPC and the IPC stage of a root's cleanup are left out, as are
scratch windows, the destination of a private copy, the limit on leases, ticket serials, the
kernel's own root, and abandonment by panic. Retries of a retained root may happen at any
time, bounded by `MaxAttempts`; today only the kernel's test fixtures call them.

### ObjectStore

`disk` is what the device returns and `older` what each block may hold instead after a crash;
a flush empties `older`. A request runs as a sequence of device calls, each a step: data,
header, bitmap and flush, locator, flush (the commit), bitmap and flush again, and for an
automatic id the superblock and its flush. Each call may be accepted or rejected; a rejected
write may have happened. `Mount` accepts exactly what rebuild_allocation_state accepts. The
answer that ends a request, or an OP_FLUSH, is `reply`. The mapping to `DurableObjects` takes
the answer from it and reads objects through the index while the service waits for a request
and through the newest locators otherwise; `doubt` collects what every combination of
surviving banks would show.

A block is written as a whole: the checksums by which the code recognises torn blocks of a
bank or a superblock are not used. The bitmap on the device is written and never read, so it
is not represented.

## What the runs check

Passing runs (with TLC's distinct states):

| Run | Instance | Shows |
|---|---|---|
| `crashes` | 3 servers that compact at every second entry, a leader in term 1 and two rivals in term 2, the first leader crashes once anywhere (185,000) | `VoteOnce`, `LeaderCompleteness`, `StateMachineSafety`, `CommittedPrefixStable` |
| `replication` | 3 servers, two leaders, one entry per message, a read at the leader that is replaced (360,000) | `LogMatching`, `MatchIndexTruthful`, `ReadLinearizable` |
| `removal` | 3 servers, one removed while two stand for term 2 (365,000) | `TypeOK`, `ElectionSafety`, `BallotInvariant` |
| `admission` | a cluster of one and a joiner, a compaction at the fourth entry, two crashes at any point of either (121,000) | `NoSingletonResurrection`, `AdmittedCaughtUp`, `ElectionSafety` |
| `stream` | two leaders, two snapshots, two faults, a compaction, a restart, failing restores, a limit of two chunks (348,000) | `TypeOK`, `InstalledWhole`, `ProgressTruthful`, `CommitMonotonic`, `UndisturbedStreamCompletes` |
| `relmsg` | two services, three messages of one and two frames, one retry, three retry epochs, two generations | `TypeOK`, `Untorn`, `NoIdleReceiver`, `ImplementsChannel`, `CallsAnswered` |
| `shootdown` | three processors, two initiators that retry, two epochs | `TypeOK`, `OneOwner`, `ImplementsInvalidation`, `CallsReturn` |
| `memory` | two roots of two generations, one object, two operations, one refusal | `TypeOK`, `TranslationsNameTheirRoot`, `FreedUnreachable`, `WriterAlone`, `ClaimsUndisturbed`, `LeasesExact` |
| `memory_closes` | two roots of one generation, two objects, two operations, no refusal; once both objects exist only loans and mappings for reading begin, by one thread (482,000) | `OperationsEnd`, `ClosesComplete` |
| `objstore` | three slots, four data blocks, contents of no and two blocks, five requests, one rejected call, one crash (197,000) | `ReachableKept`, `MountSucceeds`, `AutomaticIdsFresh`, `ImplementsDurableObjects` |

Runs that end in a violation, each a disagreement between the code and what it says of
itself (quoted in `PROJECT.json`, "findings"):

| Run | Shows |
|---|---|
| `compaction_stalls_stream` | a leader that compacts during a transfer keeps its offset; leader and follower repeat the same refused chunk |
| `transfer_root` | the drop of a committed transfer clears the root of the transfer its new owner has begun |

### Known deviations without a run of their own

Each is reproduced by changing a constant of a passing run or by adding the property named.

* `RelMsg.cfg` with `PartialSend = TRUE` violates `Untorn`: when a fragment is refused after
  others were taken (`bin/relmsg.rs:686`), the sequence number and session are used again for
  the next message, and a receiver may complete the first with frames of the second. The
  comment at `relmsg.rs:101` says a sequence number never denotes two messages.
* `ObjectStore.cfg` with `"commit"` or `"locator"` among `FaultPoints` violates
  `MountSucceeds`, `ReachableKept` and `ImplementsDurableObjects`: after a failed write or
  flush of a locator `create` and `write` free blocks that the locator names
  (`bin/objstore.rs:459`, `:572`), and the next request writes over them; a failed delete
  leaves the id in `index_cache` (`:479`), where it then leads to the slot's next object.
* `Admission.cfg` with `StateMachineSafety` added is violated: a crash between the admission
  fence and the reset of the log (`node.rs:314`) keeps the standalone log. Its entries may have
  the index and the term of entries of the cluster, so that the nodes take them for these.
  `AdmittedCaughtUp` compares as the nodes do, by index and term; with the crash point
  `"fence"` left out the entries are equal too.
* `finalize_configuration_pending` goes up when a FINALIZE is proposed (`node.rs:1370`) and
  down only when one is applied, so it may stay up for ever, and then later changes, promotions
  and the automatic FINALIZE are refused. Two ways: a leader loses its uncommitted FINALIZE to
  a rival and is elected again, since neither `step_down` nor `become_leader` resets the flag
  (four founders, `Removable = {s4}`, `Campaigns` s1 in 1, s2 in 2, s1 in 3 violates
  `FinalizePendingHasFinalize`); or a leader that is the only voter commits and applies its
  FINALIZE before the assignment, as when it admits a learner.
* A server that leads again keeps the progress of a pending joiner from its earlier
  leadership (`node.rs:519` against the comment at `:724`); an admitted node applies JOINT to
  its launch configuration, so equal epochs name different member sets until FINALIZE
  (`node.rs:1303` against the doc at `:288`). The runs admit no learners
  (`JoinLearners = {}`); the proofs of `RaftMembershipProofs` do.

### Bounds

Every bound is a constant: `Campaigns` (who may stand in which term, the strongest reducer),
`MaxLog` (proposals, not entries received), `MaxRestart`, `Crashing`, `CrashPoints`,
`Readers`, `MaxReads`, `Clients`; for the stream `MaxTerm`, `Indices`, `MaxCompactions`,
`MaxRestarts`, `MaxFaults`, `MaxInFlight`; for the others the constants whose comment says
bound. Three servers are the smallest cluster in which a majority is not everybody and two is
the smallest in which an admission changes a quorum. Two terms are enough for a deposed
leader, a conflicting suffix and a stale acknowledgement. Three messages let an abandoned
message, its successor and the one after it cross; two generations let a restart meet frames
of the instance before. Three processors and two initiators let an abandoned attempt be
acknowledged late by one processor while another initiator waits. Two roots of two generations
and one object are enough for a slot to be used again under a stale translation. Two objects
let two roots own one each, lend it to the other and close each other's peer at once; since
all operations on two objects are too many states, `SecondObjectLent` in `MCMemoryObjects`
restricts what begins once both exist to what leads there. It only keeps operations from
starting, so none that is fair is cut off. Four blocks are few enough that each freed block is
used again by the next request, and five requests let an object be created, written, deleted
and its slot and id used again around a crash. The mutants confirm it: for each property, a
plausible slip in the code it is about is found by the same run. Symmetry is used only in
`memory`, among roots and operations; elsewhere the parts differ or a liveness property is
checked. Deadlock is checked in `shootdown` and not elsewhere (`CHECK_DEADLOCK FALSE`): a
bounded model without further campaigns, messages, generations or requests comes to rest.

### Fairness

* The stream: weak fairness of sending, of handling some request and of handling some
  response: the service arms its tick again on each round and polls the transport in every turn
  of its loop. Loss, duplication, restarts and changes of leader have no fairness and are
  bounded; `UndisturbedStreamCompletes` further assumes that the leader does not compact
  meanwhile and that restores stop failing.
* `RelMsg`: weak fairness of each service's tick, which its loop performs on every turn.
  Nothing is assumed of the network or of the peer.
* `Shootdown`: an initiator is a running thread and a handler, once entered, runs to its end.
  A processor may keep interrupts masked for ever.
* `MemoryObjects`: each kernel operation that has begun continues, and a close is polled
  until it ends or its owner gives up, which it may do whenever it is told to wait.
  `ClosesComplete` therefore speaks of closes that are not given up, whatever the owners of the
  others do, and excepts what the code does not prevent: a refusal by the hardware, a device
  left on a borrowed object by another root, and new operations that keep coming.

Fairness over the whole of `RaftNode` is not used: TLC's evaluation of ENABLED on it is too
slow to finish. That a joiner is promoted in the end is therefore not checked.

## What is proved

For every finite set of servers and every value of the bounds (`ServerFinite`,
`ConstantsAssumption`):

* `TypeCorrect`: `Spec => []TypeOK`.
* `BallotsInOrder`, `VotesOnce`: `Spec => [](BallotInvariant /\ VoteOnce)`.
* `SharedHalfElections`: `Spec => []SharedHalfElectionSafety`.

`VoteOnce` is not inductive: nothing in it ties the history to the nodes. `BallotInvariant`
adds that a node's term and vote remember its last vote in its present consensus domain
(`LastVoteRemembered`), that every vote counted or on its way was cast (`CountedVotesCast`),
that every winner had the quorums of its configuration (`WinnersHadQuorum`) and that founders
never leave their domain (`FoundersStay`). The step is split by kind: every action but three,
the seven crash actions among them, is *quiet*, that is it never lowers a term, never changes
the vote within a term and counts nothing, which is shown handler by handler (`SameBallot`,
`QuietNode`, `StepKinds`); the three that cast or count votes are treated one by one. Two
winners of a term that share a voter set of founders then share a voter by
`FS_MajoritiesIntersect`, and that voter voted once.

`SharedHalfElectionSafety` is the part of election safety that follows from votes alone, for
any changes of membership: two elections of one term whose configurations share a voter set of
founders have the same winner. No run checks it; on the runs' instances it says no more than
`ElectionSafety`.

For every finite set of servers that are all launched with one configuration and of which at
most one is ever removed (`OneRemovable`, an explicit assumption of each theorem, which the
instances of `crashes`, `replication` and `removal` satisfy), and any elections, client
commands, reads, removals proposed and lost, batch sizes, compaction thresholds, crashes at any
of the modelled points, and loss, repetition, delay and reordering of messages:

* `SafetyInvariantHolds`: `Spec => []SafetyInvariant`, and from it
* `OneLeaderPerTerm`, `LogsMatchUpToSameTerm`, `LeadersHaveCommitted`,
  `CommittedEverywhereAlike`, `MatchIndexNeverLies`, `ReadsLinearizable`: `ElectionSafety`,
  `LogMatching`, `LeaderCompleteness`, `StateMachineSafety`, `MatchIndexTruthful`,
  `ReadLinearizable` are invariants;
* `CommittedPrefixNeverChanges`: `Spec => CommittedPrefixStable`.

`MatchIndexNeverLies` assumes that nobody is removed (`FixedMembership`). Across a removal it
holds of every peer the leader counts (`MatchOfPeerTrue`); `become_leader` resets the progress
of the members of its configuration only, so what it keeps of a removed server may be from an
earlier leadership, and the invariant says that it is never counted (`Outside`).

None of these is inductive: what a leader counted is no longer in any node once messages are
lost, nodes restart and logs are truncated. `SafetyInvariant` speaks of the histories instead.
Every log is made of pieces of the logs of leaderships (`Inherited`). A server that has
acknowledged a prefix in a term (`HeldBy`) holds it until a later leadership lacks it, and
every candidate it votes for meanwhile is as far in its log; this stays true for ever
(`HeldPersists`). A prefix that ends in the leadership's own term and that a majority has held
is `Chosen`; of the later leaderships that lack it, if any, take the first: it shares a voter
with the majority, so it inherited an entry of a leadership in between, which has the prefix
(`ChosenSafe`). The commit index of every node and of every request, the prefix of every
snapshot in transit and the committed history are covered by a chosen prefix (`Settled`), and
every `match_index` and every successful answer by what the peer has acknowledged
(`Acknowledged`). A pending read began behind what was committed, or behind a later leadership
that will keep it from being answered (`ReadKept`). `Effect` collects what a step of one server
may do; `EffectKeeps` shows that any such step keeps the invariant, and each action is shown to
be one (`HandleAppendEntriesEffect`, `CrashAfterTruncateEffect`, ...).

A removal makes servers disagree on who votes: each uses the configuration that its latest
JOINT and FINALIZE entries prescribe, committed or not, and a conflict may truncate them. The
invariant says that every configuration applied, stored in a snapshot or sent is the launched
one, the remaining one or a joint of one of them with the remaining one (`Usual`), and that
the configuration in force is the one the log prescribes up to the applied index (`InForce`),
through compaction, received snapshots and restarts. A majority of either membership is a
`Quorum`; any two share a server (`QuorumsMeet`), since the memberships differ in one. That is
why one removal, also one that is abandoned and proposed again, needs no order between the two
changes, and why the argument does not extend to several removals.

For every number of leaders, snapshot indexes, sizes and faults (`StreamAssumption`):

* `StreamTypeCorrect`, `StreamInstallsWhole`, `StreamProgressTruthful`: `TypeOK`,
  `InstalledWhole`, `ProgressTruthful` are invariants.
* `StreamCommitMonotonic`: `Spec => CommitMonotonic`.

Their inductive invariant `StreamInvariant` says that a request in transit is a piece of one
leader's snapshot at the place its offset says, that the follower's buffer is a prefix of one
leader's snapshot, and that a successful completed response names an index the follower has
reached.

For every set of machines, messages, sizes and limits, if the network service takes all
fragments of a message or none (`~PartialSend`, an explicit assumption of each theorem):

* `TypesPreserved`, `BodiesUntorn`, `ReceiversServed`: `TypeOK`, `Untorn`, `NoIdleReceiver`.
* `ServiceImplementsChannel`: `Spec => ImplementsChannel`, the refinement of `MessageChannel`.

The inductive invariant `Inv` orders everything by position, a pair of session and sequence
number: a transmit half is above every frame it ever sent, two frames at one position are of
one message (this is what a partial send breaks), a receive half is above everything it
delivered, buffered fragments belong to the position they are buffered for, and an
acknowledgement on the wire was preceded by delivery. It is shown to hold action by
action (`SendStep`, `TickStep`,
`DeliverStep`, `RestartStep`, ...), and each action to map to a step of the channel or to none
(`SendMaps`, `TickMaps`, `DeliverMaps`, ...).

For every number of processors, any initiators and any last epoch:

* `TypesPreserved`, `CoordinatorOwned`: `TypeOK`, `OneOwner`.
* `RendezvousImplementsInvalidation`: `Spec => ImplementsInvalidation`.

The invariant ties the three steps of a handler to what they allow: a captured epoch was
published, a processor that flushed after capturing the current epoch no longer caches the
owner's mapping, and an acknowledgement of the current epoch was given after such a flush.

For every finite set of roots and of operations, any objects, generations, refusals and
retries (`TablesAssumption`):

* `MemoryInvariantHolds`: `Spec => []MemoryInvariant`, and from it
* `TypesHold`, `TranslationsAlwaysCurrent`, `FreedNeverReached`, `WritersAlwaysAlone`,
  `ClaimsNeverDisturbed`, `LeasesAlwaysExact`: each invariant of the run `memory`.

None of them is inductive alone. A slot is used again once its leases are gone, so a stale
translation must keep a lease or an authority alive; and whether an invalidation that is
refused leaves a stale translation depends on who else may touch the object meanwhile. The
invariant says: the retirement pin of an object has at most one holder (`OnePin`); while
nobody pins an object, its records, the page tables and the processors agree, and while
somebody does, the difference is exactly what the holder's stage says (`ObjectKept`,
`PinKept`, `ClaimKept`); a translation without a record is in the receipt of a closing root
that leases its root, or its root keeps a capability of an object whose pin was lost
(`StrayKept`), so that the root is never sealed (`FinalKept`, `TranslationKept`). Each action
writes one object, and `ObjectStep` and its siblings reduce it to that object and one holder.

For every number of objects, slots and blocks, any contents, requests, crashes and rejected
calls, if the device carries out each write of a locator and the flush after it
(`CommitsAccepted`, an explicit assumption of each theorem, which the run's instance
satisfies; *Known deviations* says what the code does without it):

* `StoreInvariantHolds`: `Spec => []StoreInvariant`, and from it
* `ReachableAlwaysKept`, `MountAlwaysSucceeds`, `AutomaticIdsAlwaysFresh`: each invariant of
  the run `objstore`;
* `StoreImplementsDurableObjects`: `Spec => ImplementsDurableObjects`.

The invariant quantifies over every directory a crash may leave behind: what each locates is
whole, durable and disjoint, and known to the running service as used (`AllSound`); a bank is
volatile only between a locator's write and its flush (`BanksDurable`); what a request has
written so far is reached by no located object (`Preparing`), and while its locator is
volatile a crash leaves the old one or the new one and what the old one reached is not shared
(`Committing`); no superblock that may survive as the newest forgets an id that was returned
(`SupersRemember`, `CounterAhead`). For the refinement each device call is shown to be a step
of `DurableObjects` or none; a step that answers success maps to one that requires the new
contents and no other survivor, which a flush has just provided.

For admission and changes of membership (`RaftMembershipProofs`), for all values of the
constants:

* `FenceHolds`: `Spec => []AdmissionFenced`. The admission marker on disk and the flag in memory
  agree, a joining node neither stands nor leads nor counts votes, a node whose admission is
  complete has a snapshot with its membership, and snapshot, applied and commit index of
  every node are in this order.
* `NoLaunchAfterAdmission`: `Spec => []RestartsAsAdmitted`, the durable core of
  `NoSingletonResurrection`: an admitted node reads its configuration from its snapshot at every
  restart and never falls back on the one it was launched with.

and, if every server is a founder and at least two are never removed (`TwoPermanent`):

* `FinalizeIsPending`: `Spec /\ CommittedPrefixStable` implies
  `[](NoneReelected => FinalizePendingHasFinalize)`. `NoneReelected` says that no server has won
  the elections of two terms so far; without it the statement is false (*Known deviations*). Two
  permanent voters are what keeps a FINALIZE from
  committing inside its own proposal, which is the other way in which the flag stays up.
* `RemovalFinalizeIsPending`: if also at most one server is removed, the premise
  `CommittedPrefixStable` is a theorem, and `Spec` alone suffices.

Both arguments go through the forms of a step (`StepForm`): `NextTaken` shows once that every
action is a step of one server of one of eight forms. `AdmissionFenced` is inductive.
`FinalizePendingHasFinalize` is not: `FinalizeInvariant` adds that permanent servers vote in
every configuration of every node, log, snapshot and message (`Sound`, `KeptMessage`), that no
peer's match index is ahead of the log and that the FINALIZE an apply loop has still to note is
beyond every match index (`Led`), and that this holds of every leader which was not
elected before (`ReignsIn`).

Neither checked by a run nor proved: logs, commitment and reads across admissions; elections,
logs, commitment and reads across the removal of several servers; the flag
`finalize_configuration_pending` in clusters of joiners and for leaders elected again, where
the code leaves it up (*Known deviations*).

Only model-checked: `NoSingletonResurrection` in full, which needs that the logs of a cluster
match across the consensus domains its members came from;
`AdmittedCaughtUp`; election safety across an admission, on the run's instance;
liveness under fairness and everything about ENABLED, which the prover does not handle; what
recursive definitions compute.

## What is not modelled

* Time. Elections may start at any moment; the receive-time witnesses of bounded reads
  (`has_recent_quorum_contact`, `can_serve_bounded_read`) are left out.
* The application state machine and the cache of command results. Entries stand for their
  effects.
* `committed_configurations`, which only tests read.
* An entry that does not fit one transport frame (the follower gets empty requests), and the
  suppression of sends while one is in flight, which only delays.
* The membership lists of a snapshot without an envelope (a legacy format the code still
  reads but never writes).
* Join requests to servers outside the cluster; relays of join requests.
* Messaging: more than one sender to a receiver in the run, the table of peers and its limit,
  header validation, OP_STATUS and OP_DIAG, the wrap of a 32-bit sequence number.
* Shootdown: the path before the other processors run, asynchronous range interrupts, the
  architectures that broadcast invalidations in hardware.
* The contents of page tables and the frame allocator; `MemoryObjects` lists its own
  abstractions above.
* The object store's authorization, the contents of the scope table, torn blocks, the limit of
  sixteen extents and two clients that announce sizes of one object.

## Plan

1. Done: membership, log store, node, snapshot transfer; reliable messaging with its abstract
   channel; translation shootdown with its abstract invalidation; memory objects and roots;
   the object store with its abstract specification; their runs, and the proofs above.
2. Proofs: election safety and state machine safety of `RaftNode` across several removals and
   across admissions, from the overlap of successive configurations; `NoSingletonResurrection`.
3. Admission as a module of its own with liveness: anchors that stop leading, repeated
   requests, at most one live JOIN per peer.
4. IPC transactions with cancellation and close, completion delivery, observer registration,
   the blocking mutex.
5. The replicated name catalogue and cluster ingress.
6. `ConfigurationAt` checked against the loop of `configuration_at` as a recursive reference.
