------------------------ MODULE RaftMembershipProofs ------------------------
(***************************************************************************)
(* Theorems about admission and membership changes of RaftNode.            *)
(*                                                                         *)
(*   1. Every step of the system is a step of one server of one of a few   *)
(*      forms (StepForm, NextTaken): a turn of apply_committed, a proposal *)
(*      of a leader, an election won, a calm step, entries or a snapshot   *)
(*      received, a restart, an admission begun.                           *)
(*   2. The fence of a joining node and its durable half hold for all      *)
(*      values of the constants (FenceHolds, NoLaunchAfterAdmission).      *)
(*   3. finalize_configuration_pending always has its FINALIZE while no    *)
(*      server is elected a second time (FinalizeIsPending); the inductive *)
(*      invariant is FinalizeInvariant.  For one removal, the safety of    *)
(*      RaftSafetyProofs supplies its premise (RemovalFinalizeIsPending).  *)
(***************************************************************************)
EXTENDS RaftSafetyProofs

-----------------------------------------------------------------------------
(* What the handlers of a leader leave alone.                              *)

\* A proposal, or an attempt to commit, appends to the log and moves the
\* commit index forward.
Proposal(n, o) ==
  /\ n.role = o.role /\ n.granted = o.granted /\ n.term = o.term /\ n.moves = o.moves
  /\ n.snap = o.snap /\ n.base = o.base /\ n.conf = o.conf /\ n.applied = o.applied
  /\ n.joiningFrom = o.joiningFrom /\ n.admission = o.admission
  /\ n.match = o.match /\ n.incarnation = o.incarnation
  /\ n.commit >= o.commit
  /\ Len(n.log) >= Len(o.log) /\ \A i \in 1 .. Len(o.log) : n.log[i] = o.log[i]

\* The fields of a node that are numbers or logs.
LEMMA Numbers ==
  ASSUME NEW n \in Node
  PROVE  /\ n.term \in Nat /\ n.log \in Seq(Entry) /\ n.snap \in Nat /\ n.commit \in Nat
         /\ n.applied \in Nat /\ n.moves \in Nat /\ Len(n.log) \in Nat
         /\ \A p \in Server : n.match[p] \in Nat
BY DEF Node

\* Proposals follow one another.
LEMMA ProposalTransitive ==
  ASSUME NEW l \in Node, NEW m \in Node, NEW n \in Node, Proposal(m, l), Proposal(n, m)
  PROVE  Proposal(n, l)
<1>1. /\ l.commit \in Nat /\ m.commit \in Nat /\ n.commit \in Nat
      /\ Len(l.log) \in Nat /\ Len(m.log) \in Nat /\ Len(n.log) \in Nat
  BY Numbers
<1>2. ASSUME NEW i \in 1 .. Len(l.log)
      PROVE  n.log[i] = l.log[i]
  BY <1>1, <1>2 DEF Proposal
<1> QED
  BY <1>1, <1>2 DEF Proposal

\* A change of the fields that a proposal may change besides.
LEMMA ProposalReflexive ==
  ASSUME NEW n \in Node
  PROVE  Proposal(n, n)
BY Numbers DEF Proposal

\* advance_commit_index.
LEMMA AdvanceIsProposal ==
  ASSUME NEW n \in Node, NEW s \in Server, NEW m, m = AdvanceCommitIndex(n, s)
  PROVE  /\ Proposal(m, n) /\ m.log = n.log /\ m \in Node
         /\ m.finPending = n.finPending /\ m.after = n.after /\ m.joiners = n.joiners
         /\ m.commit # n.commit =>
              m.commit \in n.commit + 1 .. Len(n.log) /\ CanCommit(n, s, m.commit)
<1> DEFINE able == {i \in n.commit + 1 .. LastIndex(n) : CanCommit(n, s, i)}
<1>0. m \in Node
  BY AdvanceCommitIndexKeeps
<1>1. n.commit \in Nat /\ Len(n.log) \in Nat /\ LastIndex(n) = Len(n.log)
  BY Numbers DEF LastIndex
<1>2. CASE able = {}
  <2>1. m = n
    BY <1>2 DEF AdvanceCommitIndex
  <2> QED
    BY <2>1, ProposalReflexive
<1>3. CASE able # {}
  <2>1. able \in SUBSET (n.commit + 1 .. LastIndex(n)) /\ n.commit + 1 \in Nat
    BY <1>1
  <2>2. m = [n EXCEPT !.commit = Max(able)]
    BY <1>3 DEF AdvanceCommitIndex
  <2>3. Max(able) \in able
    <3> HIDE DEF able
    <3> QED
      BY <1>1, <1>3, <2>1, MaxInInterval
  <2>4. Max(able) \in n.commit + 1 .. Len(n.log) /\ CanCommit(n, s, Max(able))
    BY <2>3, <1>1
  <2> HIDE DEF able
  <2>5. m.commit = Max(able)
    BY <2>2 DEF Node
  <2>6. /\ m.role = n.role /\ m.granted = n.granted /\ m.term = n.term /\ m.moves = n.moves
        /\ m.snap = n.snap /\ m.base = n.base /\ m.conf = n.conf /\ m.applied = n.applied
        /\ m.joiningFrom = n.joiningFrom /\ m.admission = n.admission
        /\ m.match = n.match /\ m.incarnation = n.incarnation /\ m.log = n.log
        /\ m.finPending = n.finPending /\ m.after = n.after /\ m.joiners = n.joiners
    BY <2>2 DEF Node
  <2>7. m.commit >= n.commit
    BY <1>1, <2>4, <2>5
  <2>8. Proposal(m, n)
    BY <1>1, <2>6, <2>7 DEF Proposal
  <2> QED
    BY <1>0, <2>4, <2>5, <2>6, <2>8
<1> QED
  BY <1>2, <1>3

\* Appending an entry.
LEMMA AppendIsProposal ==
  ASSUME NEW n \in Node, NEW e \in Entry, NEW m, m = AppendEntry(n, e)
  PROVE  /\ m \in Node /\ Proposal(m, n)
         /\ Len(m.log) = Len(n.log) + 1 /\ m.log[Len(m.log)] = e
         /\ \A i \in 1 .. Len(n.log) : m.log[i] = n.log[i]
         /\ m.commit = n.commit
         /\ m.finPending = n.finPending /\ m.after = n.after /\ m.joiners = n.joiners
<1>0. m \in Node
  BY AppendEntryKeeps
<1>1. n.commit \in Nat /\ Len(n.log) \in Nat /\ n.log \in Seq(Entry)
  BY Numbers
<1>2. m = [n EXCEPT !.log = Append(n.log, e)]
  BY DEF AppendEntry
<1>3. m.log = Append(n.log, e)
  BY <1>2 DEF Node
<1>4. /\ m.role = n.role /\ m.granted = n.granted /\ m.term = n.term /\ m.moves = n.moves
      /\ m.snap = n.snap /\ m.base = n.base /\ m.conf = n.conf /\ m.applied = n.applied
      /\ m.joiningFrom = n.joiningFrom /\ m.admission = n.admission
      /\ m.match = n.match /\ m.incarnation = n.incarnation /\ m.commit = n.commit
      /\ m.finPending = n.finPending /\ m.after = n.after /\ m.joiners = n.joiners
  BY <1>2 DEF Node
<1>5. /\ Len(m.log) = Len(n.log) + 1 /\ m.log[Len(m.log)] = e
      /\ \A i \in 1 .. Len(n.log) : m.log[i] = n.log[i]
  BY <1>1, <1>3
<1> QED
  BY <1>0, <1>1, <1>4, <1>5 DEF Proposal

\* submit_command.
LEMMA SubmitIsProposal ==
  ASSUME NEW n \in Node, NEW s \in Server, NEW kind \in Kinds, NEW d \in Members,
         NEW m, m = Submit(n, s, kind, d)
  PROVE  m \in Node /\ Proposal(m, n)
<1> DEFINE e == NewEntry(n.term, s, kind, d)
           a == AppendEntry(n, e)
<1>1. e \in Entry
  BY NewEntryType, Numbers
<1> HIDE DEF e
<1>2. a \in Node /\ Proposal(a, n)
  BY <1>1, AppendIsProposal
<1>3. m = AdvanceCommitIndex(a, s)
  BY DEF Submit, e
<1> HIDE DEF a
<1>4. m \in Node /\ Proposal(m, a)
  BY <1>2, <1>3, AdvanceIsProposal
<1> QED
  BY <1>2, <1>4, ProposalTransitive

\* What maybe_auto_finalize_joint_configuration does: nothing, or a FINALIZE.
LEMMA FinalizeIsProposal ==
  ASSUME NEW n \in Node, NEW s \in Server, NEW m, m = MaybeAutoFinalize(n, s)
  PROVE  m \in Node /\ Proposal(m, n)
<1>1. m \in Node
  BY MaybeAutoFinalizeKeeps
<1>2. PICK k : k = Submit(n, s, "finalize", NoMembers)
  OBVIOUS
<1>3. k \in Node /\ Proposal(k, n)
  BY <1>2, SubmitIsProposal, NoMembersType DEF Kinds
<1>4. \/ m = n
      \/ m = [k EXCEPT !.after = TRUE]
      \/ m = [k EXCEPT !.finPending = TRUE]
  BY <1>2 DEF MaybeAutoFinalize
<1>5. CASE m = n
  BY <1>5, ProposalReflexive
<1>6. ASSUME \/ m = [k EXCEPT !.after = TRUE]
             \/ m = [k EXCEPT !.finPending = TRUE]
      PROVE  Proposal(m, n)
  <2>1. /\ m.role = k.role /\ m.granted = k.granted /\ m.term = k.term /\ m.moves = k.moves
        /\ m.snap = k.snap /\ m.base = k.base /\ m.conf = k.conf /\ m.applied = k.applied
        /\ m.joiningFrom = k.joiningFrom /\ m.admission = k.admission
        /\ m.match = k.match /\ m.incarnation = k.incarnation /\ m.commit = k.commit
        /\ m.log = k.log
    <3>1. CASE m = [k EXCEPT !.after = TRUE]
      BY <1>3, <3>1 DEF Node
    <3>2. CASE m = [k EXCEPT !.finPending = TRUE]
      BY <1>3, <3>2 DEF Node
    <3> QED
      BY <1>6, <3>1, <3>2
  <2> QED
    BY <1>3, <2>1 DEF Proposal
<1> QED
  BY <1>1, <1>4, <1>5, <1>6

\* A commitment and the FINALIZE that may follow it.
LEMMA AdvanceThenFinalizeIsProposal ==
  ASSUME NEW n \in Node, NEW s \in Server, NEW m, m = AdvanceThenFinalize(n, s)
  PROVE  m \in Node /\ Proposal(m, n)
<1>1. m \in Node
  BY AdvanceThenFinalizeKeeps
<1>2. PICK k : k = AdvanceCommitIndex(n, s)
  OBVIOUS
<1>3. k \in Node /\ Proposal(k, n)
  BY <1>2, AdvanceIsProposal
<1>4. m = [k EXCEPT !.tail = TRUE] \/ m = MaybeAutoFinalize(k, s)
  BY <1>2 DEF AdvanceThenFinalize
<1>5. CASE m = [k EXCEPT !.tail = TRUE]
  <2>1. /\ m.role = k.role /\ m.granted = k.granted /\ m.term = k.term /\ m.moves = k.moves
        /\ m.snap = k.snap /\ m.base = k.base /\ m.conf = k.conf /\ m.applied = k.applied
        /\ m.joiningFrom = k.joiningFrom /\ m.admission = k.admission
        /\ m.match = k.match /\ m.incarnation = k.incarnation /\ m.commit = k.commit
        /\ m.log = k.log
    BY <1>3, <1>5 DEF Node
  <2> QED
    BY <1>1, <1>3, <2>1 DEF Proposal
<1>6. CASE m = MaybeAutoFinalize(k, s)
  <2>1. Proposal(m, k)
    BY <1>3, <1>6, FinalizeIsProposal
  <2> QED
    BY <1>1, <1>3, <2>1, ProposalTransitive
<1> QED
  BY <1>4, <1>5, <1>6

\* The proposal of a JOINT entry, accepted or refused.  An accepted one is in
\* the log.
LEMMA JointIsProposal ==
  ASSUME NEW n \in Node, NEW s \in Server, NEW d \in Members,
         NEW m, m = SubmitJointConfiguration(n, s, d)
  PROVE  /\ m \in Node /\ Proposal(m, n)
         /\ \/ m = n /\ (IsJointConsensus(n.conf) \/ n.finPending
                         \/ HasUncommittedConfigurationChange(n))
            \/ Len(m.log) > Len(n.log)
<1>1. m \in Node
  BY SubmitJointConfigurationKeeps
<1>2. CASE m = n /\ (IsJointConsensus(n.conf) \/ n.finPending
                     \/ HasUncommittedConfigurationChange(n))
  BY <1>1, <1>2, ProposalReflexive
<1>3. PICK e : e = NewEntry(n.term, s, "joint", d)
  OBVIOUS
<1>4. e \in Entry
  BY <1>3, NewEntryType, Numbers DEF Kinds
<1>5. PICK a : a = AppendEntry(n, e)
  OBVIOUS
<1>6. a \in Node /\ Proposal(a, n) /\ Len(a.log) = Len(n.log) + 1
  BY <1>4, <1>5, AppendIsProposal
<1>7. CASE m = AdvanceThenFinalize(a, s)
  <2>1. Proposal(m, a)
    BY <1>6, <1>7, AdvanceThenFinalizeIsProposal
  <2>2. Proposal(m, n)
    BY <1>1, <1>6, <2>1, ProposalTransitive
  <2>3. Len(m.log) \in Nat /\ Len(a.log) \in Nat /\ Len(n.log) \in Nat /\ Len(m.log) >= Len(a.log)
    BY <1>1, <1>6, <2>1, Numbers DEF Proposal
  <2> QED
    BY <1>1, <1>6, <2>2, <2>3
<1> QED
  BY <1>2, <1>3, <1>5, <1>7 DEF SubmitJointConfiguration

\* The promotion of joiners proposes a JOINT entry or nothing.
LEMMA PromotionIsJoint ==
  ASSUME NEW n \in Node, NEW s \in Server, NEW m, m = MaybePromotePendingJoiners(n, s)
  PROVE  \/ m = n /\ \A p \in Server : ~(n.joiners[p] > 0 /\ n.match[p] >= n.joiners[p])
         \/ \E d \in Members : /\ m = SubmitJointConfiguration(n, s, d)
                               /\ AllMembers(n.conf).voters \subseteq d.voters
<1> DEFINE ready == {p \in Server : n.joiners[p] > 0 /\ n.match[p] >= n.joiners[p]}
           old == AllMembers(n.conf)
           new == ready \ Ids(old)
           d == [voters   |-> old.voters \cup (new \ JoinLearners),
                 learners |-> old.learners \cup (new \cap JoinLearners)]
<1>1. old \in Members
  BY AllMembersType DEF Node
<1>2. new \subseteq Server
  OBVIOUS
<1>3. \/ m = n /\ ready = {}
      \/ m = SubmitJointConfiguration(n, s, d)
  BY DEF MaybePromotePendingJoiners
<1>4. ASSUME ready = {}, NEW p \in Server
      PROVE  ~(n.joiners[p] > 0 /\ n.match[p] >= n.joiners[p])
  BY <1>4
<1> HIDE DEF ready, new
<1>5. d \in Members /\ old.voters \subseteq d.voters
  BY <1>1, <1>2 DEF Members
<1> QED
  BY <1>3, <1>4, <1>5

-----------------------------------------------------------------------------
(* The fence of a joining node.                                            *)

\* The store never holds a snapshot past what is applied, nor is more applied
\* than committed.
Ordered(n) == n.snap <= n.applied /\ n.applied <= n.commit

\* The fence of an admission: the node in memory and its durable marker agree
\* on the anchor; a joining node has forgotten the configuration of its launch
\* and neither stands nor leads nor counts votes; a node whose admission is
\* complete has a snapshot with its membership, so that no restart falls back
\* on the configuration of its launch.
Fenced(n) ==
  /\ n.joiningFrom = n.admission.anchor
  /\ Joining(n) => n.moves > 0 /\ n.role = "follower" /\ n.granted = {}
  /\ n.moves > 0 /\ ~Joining(n) => n.snap > 0

\* What a handler may do to the fence: keep it, or lift it with a snapshot.
Guarded(n, o) ==
  /\ n.moves = o.moves
  /\ \/ n.joiningFrom = o.joiningFrom /\ n.admission = o.admission /\ n.snap >= o.snap
     \/ n.joiningFrom = Nil /\ n.admission.anchor = Nil /\ n.snap > 0
  /\ Joining(n) => n.role \in {"follower", o.role} /\ n.granted \subseteq o.granted

\* Guarded steps compose.
LEMMA GuardedTransitive ==
  ASSUME NEW l \in Node, NEW m \in Node, NEW n \in Node, Guarded(m, l), Guarded(n, m)
  PROVE  Guarded(n, l)
<1>1. l.snap \in Nat /\ m.snap \in Nat /\ n.snap \in Nat
  BY Numbers
<1>2. n.moves = l.moves
  BY DEF Guarded
<1>3. \/ n.joiningFrom = l.joiningFrom /\ n.admission = l.admission /\ n.snap >= l.snap
      \/ n.joiningFrom = Nil /\ n.admission.anchor = Nil /\ n.snap > 0
  BY <1>1 DEF Guarded
<1>4. ASSUME Joining(n)
      PROVE  n.role \in {"follower", l.role} /\ n.granted \subseteq l.granted
  <2>1. Joining(m)
    BY <1>4 DEF Guarded, Joining
  <2> QED
    BY <1>4, <2>1 DEF Guarded
<1> QED
  BY <1>2, <1>3, <1>4 DEF Guarded

\* A guarded step keeps the order of the indices and the fence.
LEMMA GuardedKeeps ==
  ASSUME NEW o \in Node, NEW n \in Node, Fenced(o), Guarded(n, o)
  PROVE  Fenced(n)
<1>1. o.snap \in Nat /\ n.snap \in Nat
  BY Numbers
<1>2. n.joiningFrom = n.admission.anchor
  BY DEF Fenced, Guarded
<1>3. ASSUME Joining(n) PROVE n.moves > 0 /\ n.role = "follower" /\ n.granted = {}
  <2>1. Joining(o)
    BY <1>3 DEF Guarded, Joining
  <2> QED
    BY <1>3, <2>1 DEF Guarded, Fenced
<1>4. ASSUME n.moves > 0, ~Joining(n) PROVE n.snap > 0
  BY <1>1, <1>4 DEF Guarded, Fenced, Joining
<1> QED
  BY <1>2, <1>3, <1>4 DEF Fenced

\* A proposal is a guarded step.
LEMMA ProposalGuarded ==
  ASSUME NEW o \in Node, NEW n \in Node, Proposal(n, o)
  PROVE  /\ Guarded(n, o)
         /\ Ordered(o) => Ordered(n)
<1>1. /\ o.snap \in Nat /\ n.snap \in Nat /\ o.commit \in Nat /\ n.commit \in Nat
      /\ o.applied \in Nat
  BY Numbers
<1>2. Guarded(n, o)
  BY <1>1 DEF Proposal, Guarded
<1> QED
  BY <1>1, <1>2 DEF Proposal, Ordered

\* Applying a JOINT or FINALIZE entry, as far as the fence goes.
LEMMA ChangeConfigurationGuarded ==
  ASSUME NEW n \in Node, NEW s \in Server, NEW i \in 1 .. LastIndex(n),
         NEW m, m = ChangeConfiguration(n, s, i)
  PROVE  /\ m \in Node /\ Guarded(m, n)
         /\ m.applied = i /\ m.commit = n.commit /\ m.snap = n.snap /\ m.log = n.log
         /\ m.role = n.role /\ m.term = n.term /\ m.incarnation = n.incarnation
         /\ m.match = n.match /\ ~m.finPending /\ m.after = n.after
         /\ m.base = n.base
         /\ m.conf = IF n.log[i].kind = "joint" THEN TransitionTo(n.conf, n.log[i].members)
                     ELSE FinalizeTransition(n.conf)
<1>1. m \in Node
  BY ChangeConfigurationKeeps
<1>2. PICK c : c = IF n.log[i].kind = "joint" THEN TransitionTo(n.conf, n.log[i].members)
                   ELSE FinalizeTransition(n.conf)
  OBVIOUS
<1> DEFINE joint == n.log[i].kind = "joint"
<1>a. PICK x : x = ~Contains(c, s)
  OBVIOUS
<1>b. PICK y : y = [p \in Server |-> IF joint /\ p \in Ids(n.log[i].members) THEN 0
                                     ELSE n.joiners[p]]
  OBVIOUS
<1>c. PICK z : z = IF joint THEN Ids(n.log[i].members) ELSE {}
  OBVIOUS
<1>d. PICK w : w = IF joint THEN i ELSE 0
  OBVIOUS
<1>3. m = [n EXCEPT !.applied = i, !.conf = c, !.epoch = i, !.decommissioned = x,
                    !.joiners = y, !.finMembers = z, !.finFence = w, !.finPending = FALSE]
  BY <1>2, <1>a, <1>b, <1>c, <1>d DEF ChangeConfiguration
<1>4. /\ m.applied = i /\ m.commit = n.commit /\ m.snap = n.snap /\ m.log = n.log
      /\ m.role = n.role /\ m.term = n.term /\ m.incarnation = n.incarnation
      /\ m.match = n.match /\ m.finPending = FALSE /\ m.after = n.after
      /\ m.base = n.base /\ m.conf = c
      /\ m.moves = n.moves /\ m.joiningFrom = n.joiningFrom /\ m.admission = n.admission
      /\ m.granted = n.granted
  BY <1>3 DEF Node
<1>5. Guarded(m, n)
  BY <1>4, Numbers DEF Guarded
<1> QED
  BY <1>1, <1>2, <1>4, <1>5

\* The end of an admission lifts the fence with a snapshot.
LEMMA CompleteAdmissionGuarded ==
  ASSUME NEW n \in Node, NEW s \in Server, NEW i \in Nat \ {0},
         NEW m, m = CompleteAdmission(n, s, i)
  PROVE  /\ m \in Node /\ Guarded(m, n)
         /\ m.applied = n.applied /\ m.commit = n.commit /\ m.log = n.log
         /\ m.role = n.role /\ m.term = n.term /\ m.incarnation = n.incarnation
         /\ m.match = n.match /\ m.finPending = n.finPending /\ m.after = n.after
         /\ m.conf = n.conf
         /\ \/ m.snap = n.snap /\ m.base = n.base
            \/ m.snap = i /\ m.base = n.conf
<1>1. m \in Node
  BY CompleteAdmissionKeeps
<1>2. CASE m = n
  BY <1>1, <1>2, Numbers DEF Guarded
<1>3. PICK k : k = SnapshotAdmittedMembership(n, i)
  OBVIOUS
<1>4. CASE m = [k EXCEPT !.admission = NoAdmission, !.joiningFrom = Nil]
  <2>1. k \in Node
    BY <1>3, CompactionKeeps
  <2>2. k = [n EXCEPT !.snap = i, !.base = n.conf, !.snapEpoch = i]
    BY <1>3 DEF SnapshotAdmittedMembership
  <2>3. /\ k.applied = n.applied /\ k.commit = n.commit /\ k.log = n.log
        /\ k.role = n.role /\ k.term = n.term /\ k.incarnation = n.incarnation
        /\ k.match = n.match /\ k.finPending = n.finPending /\ k.after = n.after
        /\ k.conf = n.conf /\ k.snap = i /\ k.base = n.conf /\ k.moves = n.moves
        /\ k.granted = n.granted
    BY <2>2 DEF Node
  <2>4. /\ m.applied = k.applied /\ m.commit = k.commit /\ m.log = k.log
        /\ m.role = k.role /\ m.term = k.term /\ m.incarnation = k.incarnation
        /\ m.match = k.match /\ m.finPending = k.finPending /\ m.after = k.after
        /\ m.conf = k.conf /\ m.snap = k.snap /\ m.base = k.base /\ m.moves = k.moves
        /\ m.granted = k.granted /\ m.joiningFrom = Nil /\ m.admission = NoAdmission
    BY <1>4, <2>1 DEF Node
  <2>5. m.snap > 0 /\ m.admission.anchor = Nil
    BY <2>3, <2>4 DEF NoAdmission
  <2>6. Guarded(m, n)
    BY <2>3, <2>4, <2>5 DEF Guarded, Joining
  <2> QED
    BY <1>1, <2>3, <2>4, <2>6
<1> QED
  BY <1>2, <1>3, <1>4 DEF CompleteAdmission

\* A server that is no voter any more stops leading; progress is kept or
\* forgotten.
LEMMA RelinquishGuarded ==
  ASSUME NEW n \in Node, NEW s \in Server, NEW m, m = RelinquishAndForget(n, s)
  PROVE  /\ m \in Node /\ Guarded(m, n)
         /\ m.applied = n.applied /\ m.commit = n.commit /\ m.log = n.log
         /\ m.role \in {"follower", n.role} /\ m.term = n.term /\ m.incarnation = n.incarnation
         /\ m.finPending = n.finPending /\ m.after = n.after
         /\ m.conf = n.conf /\ m.snap = n.snap /\ m.base = n.base
         /\ \A p \in Server : m.match[p] \in {0, n.match[p]}
<1>1. m \in Node
  BY RelinquishAndForgetKeeps
<1>2. PICK x : x = [p \in Server |-> IF Contains(n.conf, p) THEN n.next[p] ELSE 0]
  OBVIOUS
<1>3. PICK y : y = [p \in Server |-> IF Contains(n.conf, p) THEN n.match[p] ELSE 0]
  OBVIOUS
<1>4. PICK k : k = [n EXCEPT !.next = x, !.match = y]
  OBVIOUS
<1>5. m = k \/ m = [k EXCEPT !.role = "follower", !.known = Nil, !.granted = {}]
  BY <1>2, <1>3, <1>4, SMTT(30) DEF RelinquishAndForget
<1>6. k \in Node
  BY <1>2, <1>3, <1>4, ZenonT(60) DEF Node
<1>7. /\ k.applied = n.applied /\ k.commit = n.commit /\ k.log = n.log
      /\ k.role = n.role /\ k.term = n.term /\ k.incarnation = n.incarnation
      /\ k.finPending = n.finPending /\ k.after = n.after
      /\ k.conf = n.conf /\ k.snap = n.snap /\ k.base = n.base /\ k.moves = n.moves
      /\ k.granted = n.granted /\ k.joiningFrom = n.joiningFrom /\ k.admission = n.admission
      /\ k.match = y
  BY <1>4 DEF Node
<1>8. /\ m.applied = k.applied /\ m.commit = k.commit /\ m.log = k.log
      /\ m.role \in {"follower", k.role} /\ m.term = k.term /\ m.incarnation = k.incarnation
      /\ m.finPending = k.finPending /\ m.after = k.after
      /\ m.conf = k.conf /\ m.snap = k.snap /\ m.base = k.base /\ m.moves = k.moves
      /\ m.granted \subseteq k.granted
      /\ m.joiningFrom = k.joiningFrom /\ m.admission = k.admission
      /\ m.match = k.match
  <2>1. CASE m = k
    BY <2>1
  <2>2. CASE m = [k EXCEPT !.role = "follower", !.known = Nil, !.granted = {}]
    BY <1>6, <2>2 DEF Node
  <2> QED
    BY <1>5, <2>1, <2>2
<1>9. \A p \in Server : m.match[p] \in {0, n.match[p]}
  BY <1>3, <1>7, <1>8
<1>10. Guarded(m, n)
  BY <1>7, <1>8, Numbers DEF Guarded
<1> QED
  BY <1>1, <1>7, <1>8, <1>9, <1>10

\* The three together.
LEMMA ConfigurationApplied ==
  ASSUME NEW n \in Node, NEW s \in Server, NEW i \in 1 .. LastIndex(n),
         NEW m, m = RelinquishAndForget(CompleteAdmission(ChangeConfiguration(n, s, i), s, i), s)
  PROVE  /\ m \in Node /\ Guarded(m, n)
         /\ m.applied = i /\ m.commit = n.commit /\ m.log = n.log
         /\ m.role \in {"follower", n.role} /\ m.term = n.term /\ m.incarnation = n.incarnation
         /\ ~m.finPending /\ m.after = n.after
         /\ m.conf = IF n.log[i].kind = "joint" THEN TransitionTo(n.conf, n.log[i].members)
                     ELSE FinalizeTransition(n.conf)
         /\ \/ m.snap = n.snap /\ m.base = n.base
            \/ m.snap = i /\ m.base = m.conf
         /\ \A p \in Server : m.match[p] \in {0, n.match[p]}
<1>1. i \in Nat \ {0}
  BY Numbers DEF LastIndex
<1>2. PICK c : c = ChangeConfiguration(n, s, i)
  OBVIOUS
<1>3. PICK a : a = CompleteAdmission(c, s, i)
  OBVIOUS
<1>4. PICK k : k = IF n.log[i].kind = "joint" THEN TransitionTo(n.conf, n.log[i].members)
                   ELSE FinalizeTransition(n.conf)
  OBVIOUS
<1>5. /\ c \in Node /\ Guarded(c, n)
      /\ c.applied = i /\ c.commit = n.commit /\ c.snap = n.snap /\ c.log = n.log
      /\ c.role = n.role /\ c.term = n.term /\ c.incarnation = n.incarnation
      /\ c.match = n.match /\ ~c.finPending /\ c.after = n.after
      /\ c.base = n.base /\ c.conf = k
  BY <1>2, <1>4, ChangeConfigurationGuarded
<1>6. /\ a \in Node /\ Guarded(a, c)
      /\ a.applied = c.applied /\ a.commit = c.commit /\ a.log = c.log
      /\ a.role = c.role /\ a.term = c.term /\ a.incarnation = c.incarnation
      /\ a.match = c.match /\ a.finPending = c.finPending /\ a.after = c.after
      /\ a.conf = c.conf
      /\ \/ a.snap = c.snap /\ a.base = c.base
         \/ a.snap = i /\ a.base = c.conf
  BY <1>1, <1>3, <1>5, CompleteAdmissionGuarded
<1>7. m = RelinquishAndForget(a, s)
  BY <1>2, <1>3
<1>8. /\ m \in Node /\ Guarded(m, a)
      /\ m.applied = a.applied /\ m.commit = a.commit /\ m.log = a.log
      /\ m.role \in {"follower", a.role} /\ m.term = a.term /\ m.incarnation = a.incarnation
      /\ m.finPending = a.finPending /\ m.after = a.after
      /\ m.conf = a.conf /\ m.snap = a.snap /\ m.base = a.base
      /\ \A p \in Server : m.match[p] \in {0, a.match[p]}
  BY <1>6, <1>7, RelinquishGuarded
<1>9. Guarded(m, n)
  BY <1>5, <1>6, <1>8, GuardedTransitive
<1> QED
  BY <1>4, <1>5, <1>6, <1>8, <1>9

\* The two kinds of rounds of the apply loop: an entry that is no change of
\* configuration moves the applied index on; one that is takes effect and may
\* be followed by a FINALIZE.
PassesOver(m, n, i) ==
  /\ i <= n.snap \/ i > Len(n.log) \/ n.log[i].kind \notin {"joint", "finalize"}
  /\ m.applied = i /\ m.commit = n.commit /\ m.log = n.log /\ m.snap = n.snap
  /\ m.base = n.base /\ m.conf = n.conf
  /\ m.role = n.role /\ m.term = n.term /\ m.incarnation = n.incarnation
  /\ m.finPending = n.finPending /\ m.after = n.after /\ m.match = n.match
  /\ m.moves = n.moves /\ m.granted = n.granted
  /\ m.joiningFrom = n.joiningFrom /\ m.admission = n.admission

\* The configuration entry at index i takes effect: change_configuration,
\* complete_admission, then the leader relinquishes if it left.
TakesEffect(r, n, s, i) ==
  /\ i \in 1 .. LastIndex(n) /\ i > n.snap /\ n.log[i].kind \in {"joint", "finalize"}
  /\ r = RelinquishAndForget(CompleteAdmission(ChangeConfiguration(n, s, i), s, i), s)

\* One turn of apply_committed passes over an entry or lets it take effect.
LEMMA ApplyEntryCases ==
  ASSUME NEW n \in Node, NEW s \in Server, NEW m, m = ApplyEntry(n, s),
         NEW i, i = n.applied + 1
  PROVE  /\ m \in Node
         /\ \/ PassesOver(m, n, i)
            \/ \E r \in Node : /\ TakesEffect(r, n, s, i)
                               /\ m = r \/ m = MaybeAutoFinalize(r, s)
<1>1. m \in Node
  BY ApplyEntryKeeps
<1>2. i \in Nat \ {0} /\ n.snap \in Nat /\ Len(n.log) \in Nat /\ LastIndex(n) = Len(n.log)
  BY Numbers DEF LastIndex
<1>3. CASE m = [n EXCEPT !.applied = i] /\ (i <= n.snap \/ i > Len(n.log)
                                           \/ n.log[i].kind \in {"noop", "command"})
  <2>1. i <= n.snap \/ i > Len(n.log) \/ n.log[i].kind \notin {"joint", "finalize"}
    BY <1>3
  <2>2. /\ m.applied = i /\ m.commit = n.commit /\ m.log = n.log /\ m.snap = n.snap
        /\ m.base = n.base /\ m.conf = n.conf
        /\ m.role = n.role /\ m.term = n.term /\ m.incarnation = n.incarnation
        /\ m.finPending = n.finPending /\ m.after = n.after /\ m.match = n.match
        /\ m.moves = n.moves /\ m.granted = n.granted
        /\ m.joiningFrom = n.joiningFrom /\ m.admission = n.admission
    BY <1>3 DEF Node
  <2> QED
    BY <1>1, <2>1, <2>2 DEF PassesOver
<1>4. CASE m = ApplyJoin(n, i) /\ n.log[i].kind = "join"
  <2>1. PICK j : j = [p \in Server |-> IF p \in Ids(n.log[i].members) THEN i ELSE n.joiners[p]]
    OBVIOUS
  <2>2. m = [n EXCEPT !.applied = i, !.joiners = j]
    BY <1>4, <2>1 DEF ApplyJoin
  <2>3. /\ m.applied = i /\ m.commit = n.commit /\ m.log = n.log /\ m.snap = n.snap
        /\ m.base = n.base /\ m.conf = n.conf
        /\ m.role = n.role /\ m.term = n.term /\ m.incarnation = n.incarnation
        /\ m.finPending = n.finPending /\ m.after = n.after /\ m.match = n.match
        /\ m.moves = n.moves /\ m.granted = n.granted
        /\ m.joiningFrom = n.joiningFrom /\ m.admission = n.admission
    BY <2>2 DEF Node
  <2> QED
    BY <1>1, <1>4, <2>3 DEF PassesOver
<1>5. CASE /\ m = ApplyConfigurationCommand(n, s, i)
           /\ ~(i <= n.snap) /\ ~(i > Len(n.log))
           /\ n.log[i].kind \notin {"noop", "command", "join"}
  <2>1. i \in 1 .. LastIndex(n) /\ i > n.snap
    BY <1>2, <1>5
  <2>2. n.log[i].kind \in Kinds
    <3>1. n.log \in Seq(Entry) /\ i \in 1 .. Len(n.log)
      BY <1>2, <2>1, Numbers
    <3>2. n.log[i] \in Entry
      BY <3>1
    <3> QED
      BY <3>2 DEF Entry
  <2>3. n.log[i].kind \in {"joint", "finalize"}
    BY <1>5, <2>2 DEF Kinds
  <2>4. PICK r : r = RelinquishAndForget(CompleteAdmission(ChangeConfiguration(n, s, i), s, i), s)
    OBVIOUS
  <2>5. r \in Node
    BY <2>1, <2>4, ConfigurationApplied
  <2>6. m = r \/ m = MaybeAutoFinalize(r, s)
    BY <1>5, <2>4 DEF ApplyConfigurationCommand
  <2> QED
    BY <1>1, <2>1, <2>3, <2>4, <2>5, <2>6 DEF TakesEffect
<1> QED
  BY <1>2, <1>3, <1>4, <1>5 DEF ApplyEntry

\* What follows the loop: perhaps a snapshot of all that is committed, the
\* assignment that was waiting, perhaps a FINALIZE.
Finished(m, n) ==
  /\ \/ m.snap = n.snap /\ m.base = n.base
     \/ m.snap = n.commit /\ m.snap > n.snap /\ m.base = n.conf
  /\ m.applied = n.applied /\ m.commit = n.commit /\ m.log = n.log /\ m.conf = n.conf
  /\ m.role = n.role /\ m.term = n.term /\ m.incarnation = n.incarnation
  /\ m.finPending = (n.finPending \/ n.after) /\ ~m.after /\ m.match = n.match
  /\ m.moves = n.moves /\ m.granted = n.granted
  /\ m.joiningFrom = n.joiningFrom /\ m.admission = n.admission

\* The last turn of apply_committed compacts, or only finishes.
LEMMA EndOfApplyCases ==
  ASSUME NEW n \in Node, NEW s \in Server, NEW m, m = EndOfApply(n, s)
  PROVE  /\ m \in Node
         /\ \E k \in Node : Finished(k, n) /\ (m = k \/ m = MaybeAutoFinalize(k, s))
<1>1. m \in Node
  BY EndOfApplyKeeps
<1>2. PICK c : c = MaybeCompactLocalSnapshot(n)
  OBVIOUS
<1>3. c \in Node
  BY <1>2, CompactionKeeps
<1>4. /\ \/ c.snap = n.snap /\ c.base = n.base
         \/ c.snap = n.commit /\ c.snap > n.snap /\ c.base = n.conf
      /\ c.applied = n.applied /\ c.commit = n.commit /\ c.log = n.log /\ c.conf = n.conf
      /\ c.role = n.role /\ c.term = n.term /\ c.incarnation = n.incarnation
      /\ c.finPending = n.finPending /\ c.match = n.match
      /\ c.moves = n.moves /\ c.granted = n.granted
      /\ c.joiningFrom = n.joiningFrom /\ c.admission = n.admission
  <2>1. CASE c = n
    BY <2>1
  <2>2. CASE /\ c = [n EXCEPT !.snap = n.commit, !.base = n.conf, !.snapEpoch = n.epoch]
             /\ n.commit > n.snap
    BY <2>2 DEF Node
  <2> QED
    BY <1>2, <2>1, <2>2 DEF MaybeCompactLocalSnapshot
<1>5. PICK b : b = (c.finPending \/ n.after)
  OBVIOUS
<1>6. PICK k : k = [c EXCEPT !.finPending = b, !.after = FALSE, !.tail = FALSE]
  OBVIOUS
<1>7. b \in BOOLEAN
  BY <1>5
<1>8. k \in Node
  BY <1>3, <1>6, <1>7, ZenonT(60) DEF Node
<1>9. m = k \/ m = MaybeAutoFinalize(k, s)
  BY <1>2, <1>5, <1>6 DEF EndOfApply
<1>10. /\ k.snap = c.snap /\ k.base = c.base
       /\ k.applied = c.applied /\ k.commit = c.commit /\ k.log = c.log /\ k.conf = c.conf
       /\ k.role = c.role /\ k.term = c.term /\ k.incarnation = c.incarnation
       /\ k.finPending = b /\ k.after = FALSE /\ k.match = c.match
       /\ k.moves = c.moves /\ k.granted = c.granted
       /\ k.joiningFrom = c.joiningFrom /\ k.admission = c.admission
  BY <1>3, <1>6 DEF Node
<1>11. Finished(k, n)
  BY <1>4, <1>5, <1>10 DEF Finished
<1> QED
  BY <1>1, <1>8, <1>9, <1>11

\* One round of the loop keeps the order and the fence.
LEMMA ApplyGuarded ==
  ASSUME NEW n \in Node, NEW s \in Server, Ordered(n), Busy(n),
         NEW m, m = ApplyCommitted(n, s)
  PROVE  m \in Node /\ Guarded(m, n) /\ Ordered(m)
<1>1. m \in Node
  BY ApplyCommittedKeeps
<1>2. PICK a : a = ApplyEntry(n, s)
  OBVIOUS
<1>3. PICK i : i = n.applied + 1
  OBVIOUS
<1>4. /\ n.snap \in Nat /\ n.applied \in Nat /\ n.commit \in Nat
      /\ i \in Nat \ {0} /\ n.snap < i /\ i <= n.commit
  BY <1>3, Numbers DEF Ordered, Busy
<1>5. /\ a \in Node
      /\ \/ PassesOver(a, n, i)
         \/ \E r \in Node : /\ TakesEffect(r, n, s, i)
                            /\ a = r \/ a = MaybeAutoFinalize(r, s)
  BY <1>2, <1>3, ApplyEntryCases
<1>6. Guarded(a, n) /\ Ordered(a)
  <2>1. CASE PassesOver(a, n, i)
    BY <1>4, <2>1 DEF PassesOver, Guarded, Ordered
  <2>2. ASSUME NEW r \in Node, TakesEffect(r, n, s, i), a = r \/ a = MaybeAutoFinalize(r, s)
        PROVE  Guarded(a, n) /\ Ordered(a)
    <3>1. i \in 1 .. LastIndex(n)
          /\ r = RelinquishAndForget(CompleteAdmission(ChangeConfiguration(n, s, i), s, i), s)
      BY <2>2 DEF TakesEffect
    <3>2. /\ Guarded(r, n) /\ r.applied = i /\ r.commit = n.commit
          /\ r.snap = n.snap \/ r.snap = i
      BY <3>1, ConfigurationApplied
    <3>3. Ordered(r)
      BY <1>4, <3>2 DEF Ordered
    <3>4. CASE a = MaybeAutoFinalize(r, s)
      <4>1. Proposal(a, r)
        BY <3>4, FinalizeIsProposal
      <4>2. Guarded(a, r) /\ Ordered(a)
        BY <1>5, <3>3, <4>1, ProposalGuarded
      <4> QED
        BY <1>5, <3>2, <4>2, GuardedTransitive
    <3> QED
      BY <2>2, <3>2, <3>3, <3>4
  <2> QED
    BY <1>5, <2>1, <2>2
<1>7. CASE m = a
  BY <1>1, <1>6, <1>7
<1>8. CASE m = EndOfApply(a, s) /\ a.applied = a.commit
  <2>1. PICK k \in Node : Finished(k, a) /\ (m = k \/ m = MaybeAutoFinalize(k, s))
    BY <1>5, <1>8, EndOfApplyCases
  <2>2. /\ a.snap \in Nat /\ a.applied \in Nat /\ a.commit \in Nat /\ k.snap \in Nat
        /\ a.applied = a.commit
    BY <1>5, <1>8, <2>1, Numbers
  <2>3. Guarded(k, a) /\ Ordered(k)
    BY <1>6, <2>1, <2>2 DEF Finished, Guarded, Ordered
  <2>4. Guarded(k, n)
    BY <1>5, <1>6, <2>1, <2>3, GuardedTransitive
  <2>5. CASE m = MaybeAutoFinalize(k, s)
    <3>1. Proposal(m, k)
      BY <2>1, <2>5, FinalizeIsProposal
    <3>2. Guarded(m, k) /\ Ordered(m)
      BY <1>1, <2>1, <2>3, <3>1, ProposalGuarded
    <3> QED
      BY <1>1, <2>1, <2>4, <3>2, GuardedTransitive
  <2> QED
    BY <1>1, <2>1, <2>3, <2>4, <2>5
<1> QED
  BY <1>2, <1>7, <1>8 DEF ApplyCommitted

-----------------------------------------------------------------------------
(* Elections and replication.                                              *)

\* Only terms, votes and roles change.
Uneventful(n, o) ==
  /\ n.snap = o.snap /\ n.base = o.base /\ n.conf = o.conf /\ n.applied = o.applied
  /\ n.commit = o.commit /\ n.log = o.log /\ n.match = o.match
  /\ n.finPending = o.finPending /\ n.after = o.after
  /\ n.incarnation = o.incarnation /\ n.moves = o.moves
  /\ n.joiningFrom = o.joiningFrom /\ n.admission = o.admission

\* A calm step is a guarded step.
LEMMA CalmGuarded ==
  ASSUME NEW o \in Node, NEW n \in Node, Uneventful(n, o), Ordered(o),
         Joining(o) => n.role \in {"follower", o.role} /\ n.granted \subseteq o.granted
  PROVE  Guarded(n, o) /\ Ordered(n)
BY Numbers DEF Uneventful, Guarded, Ordered, Joining

\* step_down is calm.
LEMMA StepDownCalm ==
  ASSUME NEW n \in Node, NEW t \in Nat, NEW m, m = StepDown(n, t)
  PROVE  m \in Node /\ Uneventful(m, n) /\ m.role = "follower" /\ m.term = t /\ m.granted = {}
<1>1. m \in Node
  BY StepDownType
<1> QED
  BY <1>1, ZenonT(90) DEF StepDown, Uneventful, Node

\* The first half of start_election is calm.
LEMMA CampaignCalm ==
  ASSUME NEW n \in Node, NEW s \in Server, NEW m, m = Campaign(n, s)
  PROVE  m \in Node /\ Uneventful(m, n) /\ m.role = "candidate" /\ m.term = n.term + 1
<1>1. m \in Node
  BY CampaignType
<1> QED
  BY <1>1, ZenonT(90) DEF Campaign, Uneventful, Node

\* accept_leader is calm.
LEMMA AcceptLeaderCalm ==
  ASSUME NEW n \in Node, NEW m \in Message, m.term >= n.term, NEW k, k = AcceptLeader(n, m)
  PROVE  /\ k \in Node /\ Uneventful(k, n) /\ k.role = "follower" /\ k.term = m.term
         /\ k.granted \subseteq n.granted
<1>1. /\ k \in Node /\ k.role = "follower" /\ k.term = m.term /\ k.granted \subseteq n.granted
  BY AcceptLeaderKeeps
<1>2. m.term \in Nat /\ m.from \in Server
  BY DEF Message
<1>3. PICK b : b = IF m.term > n.term THEN StepDown(n, m.term) ELSE n
  OBVIOUS
<1>4. b \in Node /\ Uneventful(b, n)
  <2>1. Uneventful(n, n)
    BY DEF Uneventful
  <2> QED
    BY <1>2, <1>3, <2>1, StepDownCalm
<1>5. PICK g : g = IF n.role = "follower" THEN b.granted ELSE {}
  OBVIOUS
<1>6. k = [b EXCEPT !.role = "follower", !.known = m.from, !.granted = g]
  BY <1>3, <1>5 DEF AcceptLeader
<1>7. Uneventful(k, b)
  BY <1>4, <1>6 DEF Uneventful, Node
<1> QED
  BY <1>1, <1>4, <1>7 DEF Uneventful

\* A vote, or its absence.
LEMMA VoteCalm ==
  ASSUME NEW n \in Node, NEW c, NEW g, NEW m, m \in Node,
         m = [n EXCEPT !.votedFor = c] \/ m = [n EXCEPT !.granted = g]
  PROVE  Uneventful(m, n) /\ m.role = n.role /\ m.term = n.term
<1>1. CASE m = [n EXCEPT !.votedFor = c]
  BY <1>1 DEF Uneventful, Node
<1>2. CASE m = [n EXCEPT !.granted = g]
  BY <1>2 DEF Uneventful, Node
<1> QED
  BY <1>1, <1>2

\* become_leader: the progress of the effective members starts over and a
\* no-op is proposed.
Elected(n, o) ==
  /\ n.role = "leader" /\ n.term = o.term /\ n.moves = o.moves
  /\ n.snap = o.snap /\ n.base = o.base /\ n.conf = o.conf /\ n.applied = o.applied
  /\ n.joiningFrom = o.joiningFrom /\ n.admission = o.admission
  /\ n.incarnation = o.incarnation
  /\ n.commit >= o.commit
  /\ Len(n.log) >= Len(o.log) /\ \A i \in 1 .. Len(o.log) : n.log[i] = o.log[i]

\* become_leader.
LEMMA BecomeLeaderElected ==
  ASSUME NEW n \in Node, NEW s \in Server, NEW m, m = BecomeLeader(n, s)
  PROVE  /\ m \in Node /\ Elected(m, n) /\ m.granted = {}
         /\ \E k \in Node : /\ Elected(k, n) /\ k.commit = n.commit /\ k.log = n.log
                            /\ k.finPending = n.finPending /\ k.after = n.after
                            /\ \A p \in Server : k.match[p] \in {0, n.match[p]}
                            /\ m = Submit(k, s, "noop", NoMembers)
<1>1. m \in Node /\ m.granted = {}
  BY BecomeLeaderKeeps
<1>2. PICK P : P = Ids(AllMembers(EffectiveConfiguration(n))) \ {s}
  OBVIOUS
<1>3. PICK x : x = [p \in Server |-> IF p \in P THEN LastIndex(n) + 1 ELSE n.next[p]]
  OBVIOUS
<1>4. PICK y : y = [p \in Server |-> IF p \in P THEN 0 ELSE n.match[p]]
  OBVIOUS
<1>5. PICK k : k = [n EXCEPT !.role = "leader", !.known = s, !.granted = {},
                             !.next = x, !.match = y]
  OBVIOUS
<1>6. m = Submit(k, s, "noop", NoMembers)
  BY <1>2, <1>3, <1>4, <1>5 DEF BecomeLeader
<1>7. x \in [Server -> Nat] /\ y \in [Server -> Nat]
  BY <1>3, <1>4, Numbers, SMTT(30) DEF LastIndex, Node
<1>8. k \in Node
  BY <1>5, <1>7, ZenonT(60) DEF Node, OptServer
<1>9. /\ k.role = "leader" /\ k.term = n.term /\ k.moves = n.moves
      /\ k.snap = n.snap /\ k.base = n.base /\ k.conf = n.conf /\ k.applied = n.applied
      /\ k.joiningFrom = n.joiningFrom /\ k.admission = n.admission
      /\ k.incarnation = n.incarnation /\ k.commit = n.commit /\ k.log = n.log
      /\ k.finPending = n.finPending /\ k.after = n.after /\ k.match = y
  BY <1>5 DEF Node
<1>10. \A p \in Server : k.match[p] \in {0, n.match[p]}
  BY <1>4, <1>9
<1>11. Elected(k, n)
  BY <1>9, Numbers DEF Elected
<1>12. Proposal(m, k)
  BY <1>6, <1>8, SubmitIsProposal, NoMembersType DEF Kinds
<1>13. Elected(m, n)
  BY <1>9, <1>12 DEF Elected, Proposal
<1> QED
  BY <1>1, <1>6, <1>8, <1>9, <1>10, <1>11, <1>13

\* become_leader is a guarded step.
LEMMA ElectedGuarded ==
  ASSUME NEW o \in Node, NEW n \in Node, Elected(n, o), ~Joining(o), Ordered(o)
  PROVE  Guarded(n, o) /\ Ordered(n)
BY Numbers DEF Elected, Guarded, Ordered, Joining

\* A matching AppendEntries changes the log and moves the commit index on.
LEMMA AppendGuarded ==
  ASSUME NEW n \in Node, NEW m \in Message, m.type = "appendRequest",
         Len(m.entries) >= Overlap(n, m), Ordered(n), NEW k, k = AppendMatching(n, m)
  PROVE  /\ k \in Node /\ Guarded(k, n) /\ Ordered(k)
         /\ k.snap = n.snap /\ k.base = n.base /\ k.conf = n.conf /\ k.applied = n.applied
         /\ k.match = n.match /\ k.finPending = n.finPending /\ k.after = n.after
         /\ k.role = n.role /\ k.term = n.term /\ k.incarnation = n.incarnation
         /\ k.commit >= n.commit
<1>1. k \in Node
  BY AppendMatchingKeeps
<1>2. PICK L : L = MergeEntries(n, m.prev + Overlap(n, m),
                                SubSeq(m.entries, Overlap(n, m) + 1, Len(m.entries)))
  OBVIOUS
<1>3. PICK a : a = m.prev + Overlap(n, m)
                   + Len(SubSeq(m.entries, Overlap(n, m) + 1, Len(m.entries)))
  OBVIOUS
<1>4. PICK b : b = IF m.commit < a THEN m.commit ELSE a
  OBVIOUS
<1>5. PICK c : c = IF b > n.commit THEN b ELSE n.commit
  OBVIOUS
<1>6. k = [n EXCEPT !.log = L, !.commit = c]
  BY <1>2, <1>3, <1>4, <1>5 DEF AppendMatching
<1>7. /\ k.snap = n.snap /\ k.base = n.base /\ k.conf = n.conf /\ k.applied = n.applied
      /\ k.match = n.match /\ k.finPending = n.finPending /\ k.after = n.after
      /\ k.role = n.role /\ k.term = n.term /\ k.incarnation = n.incarnation
      /\ k.commit = c /\ k.moves = n.moves /\ k.granted = n.granted
      /\ k.joiningFrom = n.joiningFrom /\ k.admission = n.admission
  BY <1>6 DEF Node
<1>8. n.commit \in Nat /\ k.commit \in Nat
  BY <1>1, Numbers
<1>9. k.commit >= n.commit
  BY <1>5, <1>7, <1>8
<1> QED
  BY <1>1, <1>7, <1>8, <1>9, Numbers DEF Guarded, Ordered

\* The bookkeeping of a peer's progress.
Noted(m, n) ==
  /\ m.role = n.role /\ m.term = n.term /\ m.granted = n.granted
  /\ m.snap = n.snap /\ m.base = n.base /\ m.conf = n.conf /\ m.applied = n.applied
  /\ m.commit = n.commit /\ m.log = n.log
  /\ m.finPending = n.finPending /\ m.after = n.after
  /\ m.incarnation = n.incarnation /\ m.moves = n.moves
  /\ m.joiningFrom = n.joiningFrom /\ m.admission = n.admission

\* The bookkeeping of handle_append_response records progress.
LEMMA ProgressRecorded ==
  ASSUME NEW n \in Node, NEW p \in Server, NEW i \in Nat, NEW m,
         m = RecordReplicationProgress(n, p, i) \/ m = BackOff(n, p)
  PROVE  /\ m \in Node /\ Noted(m, n)
         /\ \A q \in Server : m.match[q] = n.match[q] \/ m.match[q] = i
<1>1. m \in Node
  BY ProgressKeeps
<1>2. CASE m = RecordReplicationProgress(n, p, i)
  <2>1. PICK c : c = IF i > n.match[p] THEN i ELSE n.match[p]
    OBVIOUS
  <2>2. PICK x : x = [n.match EXCEPT ![p] = c]
    OBVIOUS
  <2>3. PICK y : y = [n.next EXCEPT ![p] = IF n.next[p] > c THEN n.next[p] ELSE c + 1]
    OBVIOUS
  <2>4. m = [n EXCEPT !.match = x, !.next = y]
    BY <1>2, <2>1, <2>2, <2>3 DEF RecordReplicationProgress, Node
  <2>5. Noted(m, n) /\ m.match = x
    BY <2>4 DEF Noted, Node
  <2>6. \A q \in Server : x[q] = n.match[q] \/ x[q] = i
    BY <2>1, <2>2 DEF Node
  <2> QED
    BY <1>1, <2>5, <2>6
<1>3. CASE m = BackOff(n, p)
  <2>1. PICK y : y = [n.next EXCEPT ![p] = IF n.next[p] = 0 THEN 0
                        ELSE IF n.next[p] - 1 > n.match[p] THEN n.next[p] - 1 ELSE n.match[p] + 1]
    OBVIOUS
  <2>2. m = [n EXCEPT !.next = y]
    BY <1>3, <2>1 DEF BackOff, Node
  <2>3. Noted(m, n) /\ m.match = n.match
    BY <2>2 DEF Noted, Node
  <2> QED
    BY <1>1, <2>3
<1> QED
  BY <1>2, <1>3

\* Recording progress is a guarded step.
LEMMA RecordedGuarded ==
  ASSUME NEW o \in Node, NEW n \in Node, Noted(n, o), Ordered(o)
  PROVE  Guarded(n, o) /\ Ordered(n)
BY Numbers DEF Noted, Guarded, Ordered

\* A received snapshot.
LEMMA InstallGuarded ==
  ASSUME NEW n \in Node, NEW s \in Server, NEW m \in Message, m.type = "snapshotRequest",
         Len(m.prefix) > n.commit, NEW k, k = InstallSnapshot(n, s, m)
  PROVE  /\ k \in Node
         /\ n.snap <= n.commit /\ n.role = "follower" => Guarded(k, n)
         /\ Ordered(k)
         /\ k.snap = Len(m.prefix) /\ k.commit = Len(m.prefix) /\ k.applied = Len(m.prefix)
         /\ k.base = m.conf /\ k.conf = m.conf /\ k.log = InstallSnapshotLog(n, m.prefix)
         /\ k.match = n.match /\ ~k.finPending /\ k.after = n.after
         /\ k.role = n.role /\ k.term = n.term /\ k.incarnation = n.incarnation
<1>1. k \in Node
  BY InstallSnapshotKeeps
<1>2. PICK i : i = Len(m.prefix)
  OBVIOUS
<1>3. PICK L : L = InstallSnapshotLog(n, m.prefix)
  OBVIOUS
<1>4. PICK a : a = IF Contains(m.conf, s) THEN NoAdmission ELSE n.admission
  OBVIOUS
<1>5. PICK j : j = IF Contains(m.conf, s) THEN Nil ELSE n.joiningFrom
  OBVIOUS
<1>6. PICK e : e = IF m.epoch = 0 THEN i ELSE m.epoch
  OBVIOUS
<1>7. PICK d : d = ~Contains(m.conf, s)
  OBVIOUS
<1>8. PICK f : f = Ids(m.conf.next)
  OBVIOUS
<1>9. PICK g : g = IF IsJointConsensus(m.conf) THEN i ELSE 0
  OBVIOUS
<1>10. k = [n EXCEPT !.log = L, !.snap = i, !.commit = i, !.applied = i,
                     !.base = m.conf, !.snapEpoch = m.epoch, !.conf = m.conf, !.epoch = e,
                     !.decommissioned = d, !.admission = a, !.joiningFrom = j,
                     !.finMembers = f, !.finFence = g, !.finPending = FALSE]
  BY <1>2, <1>3, <1>4, <1>5, <1>6, <1>7, <1>8, <1>9 DEF InstallSnapshot
<1>11. /\ k.snap = i /\ k.commit = i /\ k.applied = i
       /\ k.base = m.conf /\ k.conf = m.conf /\ k.log = L
       /\ k.match = n.match /\ k.finPending = FALSE /\ k.after = n.after
       /\ k.role = n.role /\ k.term = n.term /\ k.incarnation = n.incarnation
       /\ k.admission = a /\ k.joiningFrom = j /\ k.moves = n.moves /\ k.granted = n.granted
  BY <1>10 DEF Node
<1>12. i \in Nat /\ n.commit \in Nat /\ n.snap \in Nat
  BY <1>1, <1>11, Numbers
<1>13. Ordered(k)
  BY <1>11, <1>12 DEF Ordered
<1>14. ASSUME n.snap <= n.commit, n.role = "follower" PROVE Guarded(k, n)
  <2>1. CASE Contains(m.conf, s)
    <3>1. j = Nil /\ a.anchor = Nil /\ i > 0
      BY <1>2, <1>4, <1>5, <1>12, <2>1 DEF NoAdmission
    <3> QED
      BY <1>11, <3>1 DEF Guarded, Joining
  <2>2. CASE ~Contains(m.conf, s)
    <3>1. j = n.joiningFrom /\ a = n.admission /\ i >= n.snap
      BY <1>2, <1>4, <1>5, <1>12, <1>14, <2>2
    <3> QED
      BY <1>11, <3>1 DEF Guarded
  <2> QED
    BY <2>1, <2>2
<1> QED
  BY <1>1, <1>2, <1>3, <1>11, <1>13, <1>14

-----------------------------------------------------------------------------
(* Restart and admission.                                                  *)

\* What is on disk says that a node that has moved and is not fenced has its
\* membership in a snapshot.
Durable(n) ==
  /\ n.moves > 0 /\ n.admission.anchor = Nil => n.snap > 0
  /\ n.admission.anchor # Nil => n.moves > 0

\* RaftNode::new: the fence is read back, or found to have been lifted.
LEMMA RestartFenced ==
  ASSUME NEW n \in Node, NEW s \in Server, NEW r, r = Restart(n, s)
  PROVE  /\ r \in Node /\ Ordered(r) /\ r.role = "follower" /\ r.term = n.term
         /\ Durable(n) => Fenced(r)
         /\ r.log = n.log /\ r.snap = n.snap /\ r.commit = n.snap /\ r.applied = n.snap
         /\ r.base = (IF n.snap > 0 THEN n.base ELSE Launch(s)) /\ r.conf = r.base
         /\ r.match = Zero /\ ~r.finPending /\ ~r.after
         /\ r.incarnation = n.incarnation + 1
<1>1. r \in Node /\ r.role = "follower" /\ r.granted = {}
  BY RestartKeeps
<1>2. PICK c : c = IF n.snap > 0 THEN n.base ELSE Launch(s)
  OBVIOUS
<1>3. PICK a : a = IF n.snap > 0 /\ n.snap > n.admission.snap /\ Contains(c, s)
                   THEN NoAdmission ELSE n.admission
  OBVIOUS
<1>4. PICK e : e = IF n.snap > 0 /\ n.snapEpoch = 0 THEN n.snap ELSE n.snapEpoch
  OBVIOUS
<1>5. PICK f : f = Ids(c.next)
  OBVIOUS
<1>6. PICK g : g = IF IsJointConsensus(c) THEN n.snap ELSE 0
  OBVIOUS
<1>7. PICK i : i = InitNode(s)
  OBVIOUS
<1>8. PICK m : m = [i EXCEPT
                      !.term = n.term, !.votedFor = n.votedFor, !.admission = a,
                      !.log = n.log, !.snap = n.snap, !.base = c, !.snapEpoch = n.snapEpoch,
                      !.known = a.anchor, !.joiningFrom = a.anchor,
                      !.commit = n.snap, !.applied = n.snap, !.conf = c, !.epoch = e,
                      !.finMembers = f, !.finFence = g,
                      !.incarnation = n.incarnation + 1, !.moves = n.moves]
  OBVIOUS
<1>9. PICK d : d = ~Contains(EffectiveConfiguration(m), s)
  OBVIOUS
<1>10. r = [m EXCEPT !.decommissioned = d]
  BY <1>2, <1>3, <1>4, <1>5, <1>6, <1>7, <1>8, <1>9 DEF Restart
<1>11. /\ i.match = Zero /\ i.finPending = FALSE /\ i.after = FALSE /\ i \in Node
  BY <1>7, InitNodeType DEF InitNode
<1>12. /\ m.term = n.term /\ m.log = n.log /\ m.snap = n.snap /\ m.commit = n.snap
       /\ m.applied = n.snap /\ m.base = c /\ m.conf = c /\ m.match = Zero
       /\ m.finPending = FALSE /\ m.after = FALSE /\ m.incarnation = n.incarnation + 1
       /\ m.joiningFrom = a.anchor /\ m.admission = a /\ m.moves = n.moves
  BY <1>8, <1>11 DEF Node
<1>13. DOMAIN m = DOMAIN i
  BY <1>8
<1>14. /\ r.term = n.term /\ r.log = n.log /\ r.snap = n.snap /\ r.commit = n.snap
       /\ r.applied = n.snap /\ r.base = c /\ r.conf = c /\ r.match = Zero
       /\ r.finPending = FALSE /\ r.after = FALSE /\ r.incarnation = n.incarnation + 1
       /\ r.joiningFrom = a.anchor /\ r.admission = a /\ r.moves = n.moves
  BY <1>10, <1>11, <1>12, <1>13 DEF Node
<1>15. n.snap \in Nat
  BY Numbers
<1>16. ASSUME Durable(n), n.moves > 0, a.anchor = Nil PROVE n.snap > 0
  BY <1>3, <1>15, <1>16 DEF Durable
<1>17. ASSUME Durable(n), a.anchor # Nil PROVE n.moves > 0
  BY <1>3, <1>17 DEF Durable, NoAdmission
<1>18. Durable(n) => Fenced(r)
  BY <1>1, <1>14, <1>16, <1>17 DEF Fenced, Joining
<1> QED
  BY <1>1, <1>2, <1>14, <1>15, <1>18 DEF Ordered

\* The writes of begin_joining put the fence up first.
LEMMA JoiningFenced ==
  ASSUME NEW n \in Node, NEW a \in Server
  PROVE  /\ Durable(WriteAdmission(n, a)) /\ Durable(ResetLog(WriteAdmission(n, a)))
         /\ Fenced(BeginJoiningNode(n, a)) /\ Ordered(BeginJoiningNode(n, a))
<1>0. a # Nil
  BY ConstantsAssumption
<1>1. PICK w : w = WriteAdmission(n, a)
  OBVIOUS
<1>2. w \in Node
  BY <1>1, JoiningType
<1>3. w.admission = [anchor |-> a, snap |-> n.snap] /\ w.moves > 0
  <2>1. w.admission = [anchor |-> a, snap |-> n.snap] /\ w.moves = n.moves + 1
    BY <1>1 DEF WriteAdmission, Node
  <2> QED
    BY <2>1, Numbers
<1>4. PICK r : r = ResetLog(w)
  OBVIOUS
<1>5. r \in Node
  BY <1>2, <1>4, JoiningType
<1>6. r.admission = w.admission /\ r.snap = 0 /\ r.moves = w.moves
  BY <1>2, <1>4 DEF ResetLog, Node
<1>7. PICK j : j = BeginJoiningNode(n, a)
  OBVIOUS
<1>8. j \in Node /\ j.role = "follower" /\ j.granted = {}
  BY <1>7, JoiningType
<1>9. j = [r EXCEPT
     !.votedFor = Nil, !.role = "follower", !.known = a, !.joiningFrom = a, !.granted = {},
     !.commit = 0, !.applied = 0, !.epoch = 0, !.next = Zero, !.match = Zero,
     !.joiners = Zero, !.finMembers = {}, !.finFence = 0, !.finPending = FALSE,
     !.incarnation = r.incarnation + 1]
  BY <1>1, <1>4, <1>7 DEF BeginJoiningNode
<1>10. /\ j.admission = r.admission /\ j.snap = 0 /\ j.joiningFrom = a
       /\ j.commit = 0 /\ j.applied = 0 /\ j.moves = r.moves
  BY <1>5, <1>6, <1>9 DEF Node
<1> QED
  BY <1>0, <1>1, <1>3, <1>4, <1>6, <1>7, <1>8, <1>10 DEF Durable, Fenced, Ordered, Joining

-----------------------------------------------------------------------------
(* The forms a step takes.  Every action makes one of these of the node o  *)
(* of its server s.                                                        *)

\* The forms of a step from node o to node n of server s: a turn of
\* apply_committed,
ApplyStep(n, o, s) == Busy(o) /\ n = ApplyCommitted(o, s)

\* a proposal of a leader,
LeaderStep(n, o, s) ==
  /\ o.role = "leader" /\ ~Busy(o)
  /\ \/ n = MaybePromotePendingJoiners(o, s)
     \/ \E kind \in {"noop", "command", "join"}, d \in Members : n = Submit(o, s, kind, d)
     \/ \E p \in Removable, d \in Members :
          d.voters = AllMembers(o.conf).voters \ {p} /\ n = SubmitJointConfiguration(o, s, d)
     \/ \E p \in Server, i \in 0 .. Len(o.log), k \in Node :
          /\ k = RecordReplicationProgress(o, p, i)
          /\ n = AdvanceThenFinalize(k, s) \/ n = AdvanceCommitIndex(k, s)
     \/ \E p \in Server : n = BackOff(o, p)

\* an election won,
CandidateStep(n, o, s) ==
  \E k \in Node :
    /\ ~Joining(o) /\ o.role # "leader" /\ Uneventful(k, o) /\ k.role = "candidate"
    /\ k.term = o.term + 1 \/ (o.role = "candidate" /\ k.term = o.term)
    /\ n = k \/ n = BecomeLeader(k, s)

\* a calm step,
CalmStep(n, o) ==
  /\ Uneventful(n, o) /\ n.granted \subseteq o.granted /\ n.term >= o.term
  /\ (n.role = o.role /\ n.term = o.term) \/ n.role = "follower"

\* (the node that has followed the sender of m)
Following(k, o, m) == m.term >= o.term /\ k = AcceptLeader(o, m)

\* entries received,
AppendStep(n, o, m) ==
  \E k \in Node : /\ Following(k, o, m) /\ m.type = "appendRequest"
                  /\ Len(m.entries) >= Overlap(k, m) /\ ~LogMismatch(k, m)
                  /\ n = AppendMatching(k, m)

\* a snapshot received,
InstallStep(n, o, s, m) ==
  \E k \in Node : /\ Following(k, o, m) /\ m.type = "snapshotRequest"
                  /\ Len(m.prefix) > k.commit
                  /\ n = InstallSnapshot(k, s, m)

\* What the durable store may hold when a node crashes: what it held, with a
\* later term or a shorter log, what the writes of an admission left, or a
\* snapshot received.
Shortened(w, o) ==
  /\ w.snap = o.snap /\ w.base = o.base /\ w.admission = o.admission /\ w.moves = o.moves
  /\ w.log = o.log \/ \E j \in o.snap .. Len(o.log) : w.log = Prefix(o.log, j)

\* The nodes whose durable part a crash may leave behind: before or after
\* each write of the interrupted handler.
Stored(w, o, s) ==
  \/ Shortened(w, o)
  \/ /\ s \in Joiners
     /\ \E a \in Server : w = WriteAdmission(o, a) \/ w = ResetLog(WriteAdmission(o, a))
  \/ /\ Joining(o) /\ w.admission = o.admission /\ w.moves = o.moves /\ w.snap > 0

\* a restart from what a crash left,
RestartStep(n, o, s) ==
  \E w \in Node : /\ Stored(w, o, s) /\ w.term >= o.term
                  /\ w.incarnation = o.incarnation /\ n = Restart(w, s)

\* the admission of a joining node begun.
JoinStep(n, o, s) == s \in Joiners /\ \E a \in Server : n = BeginJoiningNode(o, a)

\* Every step of a node is of one of these forms.
StepForm(n, o, s) ==
  \/ ApplyStep(n, o, s) \/ LeaderStep(n, o, s) \/ CandidateStep(n, o, s) \/ CalmStep(n, o)
  \/ \E m \in msgs : AppendStep(n, o, m) \/ InstallStep(n, o, s, m)
  \/ RestartStep(n, o, s) \/ JoinStep(n, o, s)

\* What it sends: replication from the node as it was, or no replication.
Issues(ms, o, s) ==
  \A x \in ms : x.type \in {"appendRequest", "snapshotRequest"} =>
    \E p \in Server : x = ReplicationMessage(o, s, p)

\* Server s goes to n by a step of one of the forms and sends the messages ms.
Step(s, n, ms) ==
  /\ s \in Server /\ n \in Node /\ Becomes(s, n, ms)
  /\ StepForm(n, node[s], s) /\ Issues(ms, node[s], s)

\* The indices of every node are ordered and every joining node is fenced.
AdmissionFenced == \A s \in Server : Ordered(node[s]) /\ Fenced(node[s])

\* No server is in the middle of apply_committed.
NoneBusy == \A t \in Server : ~Busy(node[t])

\* The step is one of the forms above.
Taken == \E s, n, ms : Step(s, n, ms)

\* How the lemmas below conclude: the step is of one of the forms.
LEMMA Takes ==
  ASSUME NEW s \in Server, NEW n \in Node, NEW ms, Becomes(s, n, ms),
         StepForm(n, node[s], s), Issues(ms, node[s], s)
  PROVE  Taken
BY DEF Taken, Step

\* A handler may send nothing,
LEMMA SendsNothing ==
  ASSUME NEW o, NEW s
  PROVE  Issues({}, o, s)
BY DEF Issues

\* or a reply.
LEMMA SendsReply ==
  ASSUME NEW m \in Message, NEW t \in Nat, NEW ok \in BOOLEAN, NEW i \in Nat,
         NEW type \in {"voteResponse", "appendResponse", "snapshotResponse"}, NEW o, NEW s
  PROVE  Issues({Reply(m, type, t, ok, i)}, o, s)
BY ReplyType DEF Issues

\* apply_committed.
LEMMA ApplyTaken ==
  ASSUME TypeOK, NEW s \in Server, Apply(s)
  PROVE  Taken
<1>1. PICK n : n = ApplyCommitted(node[s], s)
  OBVIOUS
<1>2. node[s] \in Node /\ n \in Node
  BY <1>1, ApplyCommittedKeeps DEF TypeOK
<1>3. Becomes(s, n, {}) /\ ApplyStep(n, node[s], s)
  BY <1>1 DEF Apply, ApplyStep
<1> QED
  BY <1>2, <1>3, SendsNothing, Takes DEF StepForm

\* broadcast_heartbeat.
LEMMA BroadcastTaken ==
  ASSUME TypeOK, NEW s \in Server, BroadcastHeartbeat(s)
  PROVE  Taken
<1>1. PICK n : n = MaybePromotePendingJoiners(node[s], s)
  OBVIOUS
<1>2. node[s] \in Node /\ n \in Node
  BY <1>1, MaybePromotePendingJoinersKeeps DEF TypeOK
<1>3. Becomes(s, n, Heartbeats(s)) /\ LeaderStep(n, node[s], s)
  BY <1>1 DEF BroadcastHeartbeat, LeaderStep
<1>4. ReplicationPeers(node[s]) \subseteq Server
  <2>1. AllMembers(EffectiveConfiguration(node[s])) \in Members
    BY <1>2, EffectiveConfigurationType, AllMembersType
  <2> QED
    BY <2>1 DEF ReplicationPeers, Ids, Members
<1>5. Issues(Heartbeats(s), node[s], s)
  BY <1>4 DEF Issues, Heartbeats
<1> QED
  BY <1>2, <1>3, <1>5, Takes DEF StepForm

\* The proposals of clients, readers and joiners.
LEMMA SubmitTaken ==
  ASSUME TypeOK, NoneBusy, NEW s \in Server, node[s].role = "leader",
         NEW kind \in {"noop", "command", "join"}, NEW d \in Members,
         Becomes(s, Submit(node[s], s, kind, d), {})
  PROVE  Taken
<1>1. PICK n : n = Submit(node[s], s, kind, d)
  OBVIOUS
<1>2. node[s] \in Node /\ n \in Node
  BY <1>1, SubmitKeeps DEF TypeOK, Kinds
<1>3. Becomes(s, n, {}) /\ LeaderStep(n, node[s], s)
  BY <1>1 DEF LeaderStep, NoneBusy
<1> QED
  BY <1>2, <1>3, SendsNothing, Takes DEF StepForm

\* submit_command and submit_membership.
LEMMA SubmitsTaken ==
  ASSUME TypeOK, NoneBusy, NEW s \in Server,
         ClientCommand(s) \/ BeginRead(s) \/ (\E p \in Server : SubmitJoin(s, p))
  PROVE  Taken
<1>1. CASE ClientCommand(s)
  <2>1. node[s].role = "leader" /\ Becomes(s, Submit(node[s], s, "command", NoMembers), {})
    BY <1>1 DEF ClientCommand
  <2> QED
    BY <2>1, SubmitTaken, NoMembersType
<1>2. CASE BeginRead(s)
  <2>1. node[s].role = "leader" /\ Becomes(s, Submit(node[s], s, "noop", NoMembers), {})
    BY <1>2 DEF BeginRead
  <2> QED
    BY <2>1, SubmitTaken, NoMembersType
<1>3. ASSUME NEW p \in Server, SubmitJoin(s, p) PROVE Taken
  <2>1. PICK d : d = IF p \in JoinLearners THEN [voters |-> {}, learners |-> {p}]
                                          ELSE [voters |-> {p}, learners |-> {}]
    OBVIOUS
  <2>2. d \in Members
    BY <2>1 DEF Members
  <2>3. node[s].role = "leader" /\ Becomes(s, Submit(node[s], s, "join", d), {})
    BY <1>3, <2>1 DEF SubmitJoin
  <2> QED
    BY <2>2, <2>3, SubmitTaken
<1> QED
  BY <1>1, <1>2, <1>3

\* The removal of a server.
LEMMA RemoveTaken ==
  ASSUME TypeOK, NoneBusy, NEW s \in Server, NEW p \in Removable, RemoveServer(s, p)
  PROVE  Taken
<1>1. node[s] \in Node /\ node[s].conf \in Configuration
  BY DEF TypeOK, Node
<1>2. PICK A : A = AllMembers(node[s].conf)
  OBVIOUS
<1>3. A \in Members
  BY <1>1, <1>2, AllMembersType
<1>4. PICK d : d = [voters |-> A.voters \ {p}, learners |-> A.learners \ {p}]
  OBVIOUS
<1>5. d \in Members /\ d.voters = AllMembers(node[s].conf).voters \ {p}
  BY <1>2, <1>3, <1>4 DEF Members
<1>6. PICK n : n = SubmitJointConfiguration(node[s], s, d)
  OBVIOUS
<1>7. n \in Node
  BY <1>1, <1>5, <1>6, SubmitJointConfigurationKeeps
<1>8. node[s].role = "leader" /\ Becomes(s, n, {})
  BY <1>2, <1>4, <1>6 DEF RemoveServer
<1>9. LeaderStep(n, node[s], s)
  BY <1>5, <1>6, <1>8 DEF LeaderStep, NoneBusy
<1> QED
  BY <1>7, <1>8, <1>9, SendsNothing, Takes DEF StepForm

\* begin_joining_node.
LEMMA JoiningTaken ==
  ASSUME TypeOK, NEW s \in Joiners, NEW a \in Server, BeginJoining(s, a)
  PROVE  Taken
<1>1. PICK n : n = BeginJoiningNode(node[s], a)
  OBVIOUS
<1>2. s \in Server /\ n \in Node
  BY <1>1, JoiningType DEF TypeOK, Joiners
<1>3. Becomes(s, n, {}) /\ JoinStep(n, node[s], s)
  BY <1>1 DEF BeginJoining, JoinStep
<1> QED
  BY <1>2, <1>3, SendsNothing, Takes DEF StepForm

\* A calm step that sends nothing or one reply.
LEMMA CalmTaken ==
  ASSUME TypeOK, NEW s \in Server, NEW n \in Node, NEW ms, Becomes(s, n, ms),
         CalmStep(n, node[s]), Issues(ms, node[s], s)
  PROVE  Taken
BY Takes DEF StepForm

\* A later term is taken over.
LEMMA StepDownTaken ==
  ASSUME TypeOK, NEW s \in Server, NEW t \in Nat, t > node[s].term,
         Becomes(s, StepDown(node[s], t), {})
  PROVE  Taken
<1>1. PICK o : o = node[s]
  OBVIOUS
<1>2. PICK n : n = StepDown(o, t)
  OBVIOUS
<1>3. o \in Node /\ o.term \in Nat /\ t > o.term
  BY <1>1 DEF TypeOK, Node
<1>4. n \in Node /\ Uneventful(n, o) /\ n.role = "follower" /\ n.term = t /\ n.granted = {}
  BY <1>2, <1>3, StepDownCalm, SMTT(30)
<1>5. CalmStep(n, o)
  BY <1>3, <1>4 DEF CalmStep
<1>6. Becomes(s, n, {}) /\ CalmStep(n, node[s])
  BY <1>1, <1>2, <1>5
<1> QED
  BY <1>4, <1>6, CalmTaken, SendsNothing

\* A candidate that has the votes becomes leader.
LEMMA CandidateTaken ==
  ASSUME TypeOK, NEW s \in Server, ~Joining(node[s]), node[s].role # "leader",
         NEW k \in Node, Uneventful(k, node[s]), k.role = "candidate",
         k.term = node[s].term + 1 \/ (node[s].role = "candidate" /\ k.term = node[s].term),
         NEW ms, Becomes(s, ElectIfMajority(k, s), ms), Issues(ms, node[s], s)
  PROVE  Taken
<1>1. PICK n : n = ElectIfMajority(k, s)
  OBVIOUS
<1>2. n \in Node /\ (n = k \/ n = BecomeLeader(k, s))
  BY <1>1, ElectIfMajorityKeeps DEF ElectIfMajority
<1>3. CandidateStep(n, node[s], s)
  BY <1>2 DEF CandidateStep
<1> QED
  BY <1>1, <1>2, <1>3, Takes DEF StepForm

\* start_election.
LEMMA StartElectionTaken ==
  ASSUME TypeOK, NEW s \in Server, StartElection(s)
  PROVE  Taken
<1>1. PICK k : k = Campaign(node[s], s)
  OBVIOUS
<1>2. k \in Node /\ Uneventful(k, node[s]) /\ k.role = "candidate" /\ k.term = node[s].term + 1
  BY <1>1, CampaignCalm DEF TypeOK
<1>3. PICK ms \in SUBSET Message : /\ Becomes(s, ElectIfMajority(k, s), ms)
                                   /\ \A m \in ms : m.type = "voteRequest"
  BY <1>1, StartElectionStep
<1>4. Issues(ms, node[s], s)
  BY <1>3 DEF Issues
<1>5. ~Joining(node[s]) /\ node[s].role # "leader"
  BY DEF StartElection, MayCampaign
<1> QED
  BY <1>2, <1>3, <1>4, <1>5, CandidateTaken

\* handle_vote_request.
LEMMA VoteRequestTaken ==
  ASSUME TypeOK, NEW m \in msgs, HandleVoteRequest(m)
  PROVE  Taken
<1>1. PICK s : s = m.to
  OBVIOUS
<1>2. PICK n : n = IF m.term > node[s].term THEN StepDown(node[s], m.term) ELSE node[s]
  OBVIOUS
<1>3. PICK g : g = GrantsVote(n, s, m)
  OBVIOUS
<1>4. PICK r : r = IF g THEN [n EXCEPT !.votedFor = m.from] ELSE n
  OBVIOUS
<1>5. /\ s \in Server /\ n \in Node /\ r \in Node /\ g \in BOOLEAN
      /\ Becomes(s, r, {Reply(m, "voteResponse", n.term, g, 0)})
  BY <1>1, <1>2, <1>3, <1>4, VoteRequestStep
<1>6. m \in Message /\ m.term \in Nat /\ n.term \in Nat /\ node[s] \in Node /\ node[s].term \in Nat
  BY <1>5 DEF TypeOK, Message, Node
<1>7. CalmStep(n, node[s])
  <2>1. CASE m.term > node[s].term
    <3>1. Uneventful(n, node[s]) /\ n.role = "follower" /\ n.term = m.term /\ n.granted = {}
      BY <1>2, <1>6, <2>1, StepDownCalm, SMTT(30)
    <3> QED
      BY <1>6, <2>1, <3>1 DEF CalmStep
  <2>2. CASE ~(m.term > node[s].term)
    BY <1>2, <1>6, <2>2 DEF CalmStep, Uneventful
  <2> QED
    BY <2>1, <2>2
<1>8. Uneventful(r, n) /\ r.role = n.role /\ r.term = n.term /\ r.granted = n.granted
  <2>1. CASE r = n
    BY <2>1 DEF Uneventful
  <2>2. CASE r = [n EXCEPT !.votedFor = m.from]
    BY <1>5, <2>2 DEF Uneventful, Node
  <2> QED
    BY <1>4, <2>1, <2>2
<1>9. CalmStep(r, node[s])
  BY <1>7, <1>8 DEF CalmStep, Uneventful
<1>10. Issues({Reply(m, "voteResponse", n.term, g, 0)}, node[s], s)
  BY <1>5, <1>6, SendsReply
<1> QED
  BY <1>5, <1>9, <1>10, CalmTaken

\* handle_vote_response.
LEMMA VoteResponseTaken ==
  ASSUME TypeOK, AdmissionFenced, NEW m \in msgs, HandleVoteResponse(m)
  PROVE  Taken
<1>1. PICK s : s = m.to
  OBVIOUS
<1>2. m \in Message /\ m.term \in Nat /\ s \in Server /\ m.from \in Server
  BY <1>1 DEF TypeOK, HandleVoteResponse, Message
<1>3. node[s] \in Node
  BY <1>2 DEF TypeOK
<1>4. PICK g : g = node[s].granted \cup {m.from}
  OBVIOUS
<1>5. PICK k : k = [node[s] EXCEPT !.granted = g]
  OBVIOUS
<1>6. /\ node[s].role = "candidate"
      /\ \/ m.term > node[s].term /\ Becomes(s, StepDown(node[s], m.term), {})
         \/ Becomes(s, ElectIfMajority(k, s), {})
  BY <1>1, <1>4, <1>5 DEF HandleVoteResponse
<1>7. CASE m.term > node[s].term /\ Becomes(s, StepDown(node[s], m.term), {})
  BY <1>2, <1>7, StepDownTaken
<1>8. CASE Becomes(s, ElectIfMajority(k, s), {})
  <2>1. g \subseteq Server
    BY <1>2, <1>3, <1>4 DEF Node
  <2>2. k \in Node
    BY <1>3, <1>5, <2>1 DEF Node
  <2>3. Uneventful(k, node[s]) /\ k.role = "candidate" /\ k.term = node[s].term
    BY <1>3, <1>5, <1>6 DEF Uneventful, Node
  <2>4. ~Joining(node[s])
    BY <1>2, <1>6 DEF AdmissionFenced, Fenced
  <2> QED
    BY <1>2, <1>6, <1>8, <2>2, <2>3, <2>4, CandidateTaken, SendsNothing
<1> QED
  BY <1>6, <1>7, <1>8

\* Following a leader, with nothing else.
LEMMA FollowingTaken ==
  ASSUME TypeOK, NEW m \in msgs, NEW s, s = m.to, m.term >= node[s].term,
         NEW ms, Becomes(s, AcceptLeader(node[s], m), ms), Issues(ms, node[s], s)
  PROVE  Taken
<1>1. PICK o : o = node[s]
  OBVIOUS
<1>2. PICK n : n = AcceptLeader(o, m)
  OBVIOUS
<1>3. m \in Message /\ s \in Server /\ o \in Node /\ o.term \in Nat /\ m.term \in Nat
  BY <1>1 DEF TypeOK, Message, Node
<1>4. /\ n \in Node /\ Uneventful(n, o) /\ n.role = "follower" /\ n.term = m.term
      /\ n.granted \subseteq o.granted
  BY <1>1, <1>2, <1>3, AcceptLeaderCalm
<1>5. CalmStep(n, o)
  BY <1>1, <1>3, <1>4 DEF CalmStep
<1>6. Becomes(s, n, ms) /\ CalmStep(n, node[s])
  BY <1>1, <1>2, <1>5
<1> QED
  BY <1>3, <1>4, <1>6, CalmTaken

\* A refusal changes nothing.
LEMMA RefusalTaken ==
  ASSUME TypeOK, NEW s \in Server, NEW ms, Becomes(s, node[s], ms), Issues(ms, node[s], s)
  PROVE  Taken
<1>1. node[s] \in Node /\ node[s].term \in Nat
  BY DEF TypeOK, Node
<1>2. CalmStep(node[s], node[s])
  BY <1>1 DEF CalmStep, Uneventful
<1> QED
  BY <1>1, <1>2, CalmTaken

\* handle_append_entries.
LEMMA AppendEntriesTaken ==
  ASSUME TypeOK, NEW m \in msgs, HandleAppendEntries(m)
  PROVE  Taken
<1>1. PICK s : s = m.to
  OBVIOUS
<1>2. PICK k : k = AcceptLeader(node[s], m)
  OBVIOUS
<1>3. /\ m \in Message /\ m.type = "appendRequest" /\ s \in Server /\ m.term \in Nat
      /\ m.prev \in Nat /\ m.entries \in Seq(Entry)
  BY <1>1 DEF TypeOK, HandleAppendEntries, Message
<1>4. node[s] \in Node /\ node[s].term \in Nat
  BY <1>3 DEF TypeOK, Node
<1>5. ASSUME NEW t \in Nat, NEW ok \in BOOLEAN, NEW i \in Nat
      PROVE  Issues({Reply(m, "appendResponse", t, ok, i)}, node[s], s)
  BY <1>3, SendsReply
<1>6. \/ Becomes(s, node[s], {Reply(m, "appendResponse", node[s].term, FALSE, 0)})
      \/ /\ m.term >= node[s].term
         /\ \/ Becomes(s, k, {Reply(m, "appendResponse", k.term, TRUE, k.snap)})
            \/ Becomes(s, k, {Reply(m, "appendResponse", k.term, FALSE, 0)})
            \/ /\ Len(m.entries) >= Overlap(k, m) /\ ~LogMismatch(k, m)
               /\ Becomes(s, AppendMatching(k, m),
                          {Reply(m, "appendResponse", k.term, TRUE, m.prev + Len(m.entries))})
  BY <1>1, <1>2 DEF HandleAppendEntries
<1>7. CASE Becomes(s, node[s], {Reply(m, "appendResponse", node[s].term, FALSE, 0)})
  BY <1>3, <1>4, <1>5, <1>7, RefusalTaken
<1>8. ASSUME m.term >= node[s].term
      PROVE  k \in Node /\ k.term \in Nat /\ k.snap \in Nat
  BY <1>2, <1>3, <1>4, <1>8, AcceptLeaderCalm, Numbers
<1>9. CASE /\ m.term >= node[s].term
           /\ Becomes(s, k, {Reply(m, "appendResponse", k.term, TRUE, k.snap)})
  <2>1. Issues({Reply(m, "appendResponse", k.term, TRUE, k.snap)}, node[s], s)
    BY <1>5, <1>8, <1>9
  <2> QED
    BY <1>1, <1>2, <1>9, <2>1, FollowingTaken
<1>10. CASE m.term >= node[s].term /\ Becomes(s, k, {Reply(m, "appendResponse", k.term, FALSE, 0)})
  <2>1. Issues({Reply(m, "appendResponse", k.term, FALSE, 0)}, node[s], s)
    BY <1>5, <1>8, <1>10
  <2> QED
    BY <1>1, <1>2, <1>10, <2>1, FollowingTaken
<1>11. CASE /\ m.term >= node[s].term
            /\ Len(m.entries) >= Overlap(k, m) /\ ~LogMismatch(k, m)
            /\ Becomes(s, AppendMatching(k, m),
                       {Reply(m, "appendResponse", k.term, TRUE, m.prev + Len(m.entries))})
  <2>1. Issues({Reply(m, "appendResponse", k.term, TRUE, m.prev + Len(m.entries))}, node[s], s)
    <3>1. PICK i : i = m.prev + Len(m.entries)
      OBVIOUS
    <3>2. i \in Nat
      BY <1>3, <3>1
    <3>3. k.term \in Nat
      BY <1>8, <1>11
    <3>4. Issues({Reply(m, "appendResponse", k.term, TRUE, i)}, node[s], s)
      BY <1>5, <3>2, <3>3
    <3> QED
      BY <3>1, <3>4
  <2>2. PICK n : n = AppendMatching(k, m)
    OBVIOUS
  <2>3. n \in Node
    BY <1>3, <1>8, <1>11, <2>2, AppendMatchingKeeps
  <2>4. AppendStep(n, node[s], m)
    BY <1>2, <1>3, <1>8, <1>11, <2>2 DEF AppendStep, Following
  <2>5. StepForm(n, node[s], s)
    BY <2>4 DEF StepForm
  <2> QED
    BY <1>3, <1>11, <2>1, <2>2, <2>3, <2>5, Takes
<1> QED
  BY <1>6, <1>7, <1>9, <1>10, <1>11

\* handle_install_snapshot.
LEMMA InstallSnapshotTaken ==
  ASSUME TypeOK, NEW m \in msgs, HandleInstallSnapshot(m)
  PROVE  Taken
<1>1. PICK s : s = m.to
  OBVIOUS
<1>2. PICK k : k = AcceptLeader(node[s], m)
  OBVIOUS
<1>3. /\ m \in Message /\ m.type = "snapshotRequest" /\ s \in Server /\ m.term \in Nat
      /\ m.prefix \in Seq(Entry)
  BY <1>1 DEF TypeOK, HandleInstallSnapshot, Message
<1>4. node[s] \in Node /\ node[s].term \in Nat /\ Len(m.prefix) \in Nat
  <2>1. node[s] \in Node /\ node[s].term \in Nat
    BY <1>3 DEF TypeOK, Node
  <2>2. Len(m.prefix) \in Nat
    BY <1>3
  <2> QED
    BY <2>1, <2>2
<1>5. ASSUME NEW t \in Nat, NEW ok \in BOOLEAN
      PROVE  Issues({Reply(m, "snapshotResponse", t, ok, Len(m.prefix))}, node[s], s)
  BY <1>3, <1>4, SendsReply
<1>6. \/ Becomes(s, node[s], {Reply(m, "snapshotResponse", node[s].term, FALSE, Len(m.prefix))})
      \/ /\ m.term >= node[s].term
         /\ Becomes(s, IF Len(m.prefix) <= k.commit THEN k ELSE InstallSnapshot(k, s, m),
                    {Reply(m, "snapshotResponse", k.term, TRUE, Len(m.prefix))})
  BY <1>1, <1>2 DEF HandleInstallSnapshot
<1>7. CASE Becomes(s, node[s], {Reply(m, "snapshotResponse", node[s].term, FALSE, Len(m.prefix))})
  BY <1>3, <1>4, <1>5, <1>7, RefusalTaken
<1>8. CASE /\ m.term >= node[s].term
           /\ Becomes(s, IF Len(m.prefix) <= k.commit THEN k ELSE InstallSnapshot(k, s, m),
                      {Reply(m, "snapshotResponse", k.term, TRUE, Len(m.prefix))})
  <2>1. k \in Node /\ k.term \in Nat /\ k.commit \in Nat
    BY <1>2, <1>3, <1>4, <1>8, AcceptLeaderCalm, Numbers
  <2>2. Issues({Reply(m, "snapshotResponse", k.term, TRUE, Len(m.prefix))}, node[s], s)
    BY <1>5, <2>1
  <2>3. CASE Len(m.prefix) <= k.commit
    <3>1. Becomes(s, k, {Reply(m, "snapshotResponse", k.term, TRUE, Len(m.prefix))})
      BY <1>8, <2>3
    <3> QED
      BY <1>1, <1>2, <1>8, <2>2, <3>1, FollowingTaken
  <2>4. CASE ~(Len(m.prefix) <= k.commit)
    <3>1. PICK n : n = InstallSnapshot(k, s, m)
      OBVIOUS
    <3>2. Becomes(s, n, {Reply(m, "snapshotResponse", k.term, TRUE, Len(m.prefix))})
      BY <1>8, <2>4, <3>1
    <3>3. Len(m.prefix) > k.commit
      BY <1>4, <2>1, <2>4
    <3>4. n \in Node
      BY <1>3, <2>1, <3>1, InstallSnapshotKeeps
    <3>5. InstallStep(n, node[s], s, m)
      BY <1>2, <1>3, <1>8, <2>1, <3>1, <3>3 DEF InstallStep, Following
    <3>6. StepForm(n, node[s], s)
      BY <3>5 DEF StepForm
    <3> QED
      BY <1>3, <2>2, <3>2, <3>4, <3>6, Takes
  <2> QED
    BY <2>3, <2>4
<1> QED
  BY <1>6, <1>7, <1>8

\* An acknowledgement or a refusal of what was sent.
LEMMA ResponseTaken ==
  ASSUME TypeOK, NoneBusy, NEW m \in msgs,
         HandleAppendEntriesResponse(m) \/ HandleInstallSnapshotResponse(m)
  PROVE  Taken
<1>1. PICK s : s = m.to
  OBVIOUS
<1>2. PICK o : o = node[s]
  OBVIOUS
<1>3. /\ m \in Message /\ m.type \in {"appendResponse", "snapshotResponse"}
  BY DEF TypeOK, HandleAppendEntriesResponse, HandleInstallSnapshotResponse
<1>4. m.to \in Server /\ m.from \in Server /\ m.term \in Nat /\ m.match \in Nat
  BY <1>3 DEF Message
<1>5. o \in Node /\ Len(o.log) \in Nat /\ LastIndex(o) = Len(o.log) /\ s \in Server /\ ~Busy(o)
  BY <1>1, <1>2, <1>4, Numbers DEF TypeOK, LastIndex, NoneBusy
<1>6. PICK k : k = RecordReplicationProgress(o, m.from, m.match)
  OBVIOUS
<1>7. k \in Node
  BY <1>4, <1>5, <1>6, ProgressKeeps
<1>8. \/ m.term > o.term /\ Becomes(s, StepDown(o, m.term), {})
      \/ /\ o.role = "leader" /\ m.match <= LastIndex(o)
         /\ Becomes(s, AdvanceThenFinalize(k, s), {}) \/ Becomes(s, AdvanceCommitIndex(k, s), {})
      \/ o.role = "leader" /\ Becomes(s, BackOff(o, m.from), {})
  BY <1>1, <1>2, <1>6 DEF HandleAppendEntriesResponse, HandleInstallSnapshotResponse
<1>9. CASE m.term > o.term /\ Becomes(s, StepDown(o, m.term), {})
  BY <1>2, <1>4, <1>5, <1>9, StepDownTaken
<1>10. ASSUME o.role = "leader", m.match <= LastIndex(o), NEW n,
              n = AdvanceThenFinalize(k, s) \/ n = AdvanceCommitIndex(k, s), Becomes(s, n, {})
       PROVE  Taken
  <2>1. n \in Node
    BY <1>5, <1>7, <1>10, AdvanceThenFinalizeKeeps, AdvanceCommitIndexKeeps
  <2>2. m.match \in 0 .. Len(o.log)
    BY <1>4, <1>5, <1>10
  <2>3. LeaderStep(n, o, s)
    BY <1>4, <1>5, <1>6, <1>7, <1>10, <2>2 DEF LeaderStep
  <2>4. StepForm(n, node[s], s)
    BY <1>2, <2>3 DEF StepForm
  <2> QED
    BY <1>5, <1>10, <2>1, <2>4, Takes, SendsNothing
<1>11. CASE o.role = "leader" /\ Becomes(s, BackOff(o, m.from), {})
  <2>1. PICK n : n = BackOff(o, m.from)
    OBVIOUS
  <2>2. n \in Node
    BY <1>4, <1>5, <2>1, ProgressKeeps
  <2>3. LeaderStep(n, o, s)
    BY <1>4, <1>5, <1>11, <2>1 DEF LeaderStep
  <2>4. StepForm(n, node[s], s)
    BY <1>2, <2>3 DEF StepForm
  <2> QED
    BY <1>5, <1>11, <2>1, <2>2, <2>4, Takes, SendsNothing
<1> QED
  BY <1>8, <1>9, <1>10, <1>11

\* A crash on what had been written.
LEMMA CrashIntoTaken ==
  ASSUME TypeOK, NEW s \in Server, NEW w \in Node, CrashInto(s, w), Stored(w, node[s], s),
         w.term >= node[s].term, w.incarnation = node[s].incarnation
  PROVE  Taken
<1>1. PICK n : n = Restart(w, s)
  OBVIOUS
<1>2. n \in Node
  BY <1>1, RestartKeeps
<1>3. Becomes(s, n, {}) /\ RestartStep(n, node[s], s)
  BY <1>1 DEF CrashInto, RestartStep
<1> QED
  BY <1>2, <1>3, SendsNothing, Takes DEF StepForm

\* A crash between two handlers.
LEMMA CrashTaken ==
  ASSUME TypeOK, NEW s \in Server, Crash(s)
  PROVE  Taken
<1>1. node[s] \in Node /\ node[s].term \in Nat
  BY DEF TypeOK, Node
<1>2. Stored(node[s], node[s], s)
  BY DEF Stored, Shortened
<1> QED
  BY <1>1, <1>2, CrashIntoTaken DEF Crash

\* A crash after the term and vote were saved.
LEMMA CrashAfterTermTaken ==
  ASSUME TypeOK, NEW s \in Server, CrashAfterTerm(s)
  PROVE  Taken
<1>1. PICK o : o = node[s]
  OBVIOUS
<1>2. o \in Node
  BY <1>1 DEF TypeOK
<1>3. o.term \in Nat
  BY <1>2 DEF Node
<1>4. PICK t : t \in Nat /\ t >= o.term /\ CrashInto(s, [o EXCEPT !.term = t])
  <2>1. CASE \E m \in msgs : m.term > o.term /\ CrashInto(s, [o EXCEPT !.term = m.term])
    <3>1. PICK m \in msgs : m.term > o.term /\ CrashInto(s, [o EXCEPT !.term = m.term])
      BY <2>1
    <3>2. m.term \in Nat
      BY DEF TypeOK, Message
    <3>3. m.term >= o.term
      BY <1>3, <3>1, <3>2
    <3> QED
      BY <3>1, <3>2, <3>3
  <2>2. CASE CrashInto(s, [o EXCEPT !.term = o.term + 1])
    <3>1. o.term + 1 \in Nat /\ o.term + 1 >= o.term
      BY <1>3
    <3> QED
      BY <2>2, <3>1
  <2>3. \/ \E m \in msgs : m.term > o.term /\ CrashInto(s, [o EXCEPT !.term = m.term])
        \/ CrashInto(s, [o EXCEPT !.term = @ + 1])
    BY <1>1 DEF CrashAfterTerm
  <2> QED
    BY <2>1, <2>2, <2>3
<1>5. PICK w : w = [o EXCEPT !.term = t]
  OBVIOUS
<1>6. /\ w \in Node /\ w.term = t /\ w.incarnation = o.incarnation
      /\ w.snap = o.snap /\ w.base = o.base /\ w.admission = o.admission /\ w.moves = o.moves
      /\ w.log = o.log
  BY <1>2, <1>4, <1>5 DEF Node
<1>7. Stored(w, o, s)
  BY <1>6 DEF Stored, Shortened
<1> QED
  BY <1>1, <1>4, <1>5, <1>6, <1>7, CrashIntoTaken

\* The suffix that is cut lies above the snapshot.
LEMMA CrashAfterTruncateTaken ==
  ASSUME TypeOK, NEW m \in msgs, CrashAfterTruncate(m)
  PROVE  Taken
<1>1. PICK s : s = m.to
  OBVIOUS
<1>2. PICK o : o = node[s]
  OBVIOUS
<1>3. PICK n : n = AcceptLeader(o, m)
  OBVIOUS
<1>4. PICK k : k = Overlap(n, m)
  OBVIOUS
<1>5. PICK d : d = FirstDifference(n, m.prev + k, SubSeq(m.entries, k + 1, Len(m.entries)))
  OBVIOUS
<1>6. PICK j : j = m.prev + k + d - 1
  OBVIOUS
<1>7. PICK w : w = [n EXCEPT !.log = Prefix(n.log, j)]
  OBVIOUS
<1>8. /\ m.type = "appendRequest" /\ m.term >= o.term
      /\ d > 0 /\ m.prev + k + d <= LastIndex(n) /\ CrashInto(s, w)
  BY <1>1, <1>2, <1>3, <1>4, <1>5, <1>6, <1>7 DEF CrashAfterTruncate
<1>9. m \in Message /\ s \in Server /\ o \in Node
  BY <1>1, <1>2, <1>8 DEF TypeOK, Message
<1>10. n \in Node /\ Uneventful(n, o) /\ n.term = m.term
  BY <1>3, <1>8, <1>9, AcceptLeaderCalm
<1>11. /\ k \in Nat /\ m.prev \in Nat /\ m.entries \in Seq(Entry)
       /\ n.snap \in Nat /\ Len(n.log) \in Nat /\ n.log \in Seq(Entry)
  <2>1. k \in Nat /\ m.prev \in Nat /\ m.entries \in Seq(Entry)
    BY <1>4, <1>8, <1>9, <1>10, OverlapType
  <2>2. n.snap \in Nat /\ Len(n.log) \in Nat
    BY <1>10, Numbers
  <2>3. n.log \in Seq(Entry)
    BY <1>10 DEF Node
  <2> QED
    BY <2>1, <2>2, <2>3
<1>12. m.prev + k >= n.snap
  BY <1>4, <1>11 DEF Overlap
<1>13. d \in Nat
  <2>1. PICK e : e = SubSeq(m.entries, k + 1, Len(m.entries))
    OBVIOUS
  <2>2. e \in Seq(Entry)
    BY <1>11, <2>1
  <2>3. PICK D : D = {x \in 1 .. Len(e) : \/ m.prev + k + x > LastIndex(n)
                                           \/ TermAt(n, m.prev + k + x) # e[x].term}
    OBVIOUS
  <2>4. D \in SUBSET Nat
    BY <2>2, <2>3
  <2>5. d = IF D = {} THEN 0 ELSE Min(D)
    BY <1>5, <2>1, <2>3 DEF FirstDifference
  <2> QED
    BY <2>4, <2>5, MinInNat
<1>14. j \in n.snap .. Len(n.log)
  BY <1>6, <1>8, <1>11, <1>12, <1>13, SMTT(30) DEF LastIndex
<1>15. Prefix(n.log, j) \in Seq(Entry)
  BY <1>11, <1>14, PrefixType
<1>16. /\ w \in Node /\ w.log = Prefix(n.log, j) /\ w.term = n.term /\ w.incarnation = n.incarnation
       /\ w.snap = n.snap /\ w.base = n.base /\ w.admission = n.admission /\ w.moves = n.moves
  BY <1>7, <1>10, <1>15 DEF Node
<1>17. Stored(w, o, s)
  BY <1>10, <1>14, <1>16 DEF Stored, Shortened, Uneventful
<1>18. w.term >= o.term /\ w.incarnation = o.incarnation
  BY <1>8, <1>10, <1>16 DEF Uneventful
<1> QED
  BY <1>2, <1>8, <1>9, <1>16, <1>17, <1>18, CrashIntoTaken

\* A crash inside begin_joining_node.
LEMMA CrashJoiningTaken ==
  ASSUME TypeOK, NEW s \in Joiners, NEW a \in Server, CrashAfterFence(s, a) \/ CrashAfterReset(s, a)
  PROVE  Taken
<1>1. PICK o : o = node[s]
  OBVIOUS
<1>2. PICK w : w = WriteAdmission(o, a)
  OBVIOUS
<1>3. PICK r : r = ResetLog(w)
  OBVIOUS
<1>4. s \in Server /\ o \in Node
  BY <1>1 DEF TypeOK, Joiners
<1>5. o.term \in Nat /\ w \in Node /\ r \in Node
  <2>1. o.term \in Nat
    BY <1>4 DEF Node
  <2>2. w \in Node
    BY <1>2, <1>4, JoiningType
  <2>3. r \in Node
    BY <1>3, <2>2, JoiningType
  <2> QED
    BY <2>1, <2>2, <2>3
<1>6. w.term = o.term /\ w.incarnation = o.incarnation
  BY <1>2, <1>4 DEF WriteAdmission, Node
<1>7. r.term = w.term /\ r.incarnation = w.incarnation
  BY <1>3, <1>5 DEF ResetLog, Node
<1>8. Stored(w, o, s) /\ Stored(r, o, s)
  BY <1>2, <1>3 DEF Stored
<1>9. w.term >= o.term /\ r.term >= o.term
  BY <1>5, <1>6, <1>7
<1>10. CrashInto(s, w) \/ CrashInto(s, r)
  BY <1>1, <1>2, <1>3 DEF CrashAfterFence, CrashAfterReset
<1> QED
  BY <1>1, <1>4, <1>5, <1>6, <1>7, <1>8, <1>9, <1>10, CrashIntoTaken

\* A crash inside complete_admission.
LEMMA CrashAdmittingTaken ==
  ASSUME TypeOK, NEW s \in Server, CrashAdmitting(s)
  PROVE  Taken
<1>1. PICK o : o = node[s]
  OBVIOUS
<1>2. PICK i : i = o.applied + 1
  OBVIOUS
<1>3. PICK n : n = ChangeConfiguration(o, s, i)
  OBVIOUS
<1>4. PICK w : w = SnapshotAdmittedMembership(n, i)
  OBVIOUS
<1>5. o \in Node /\ i <= LastIndex(o) /\ Joining(n) /\ CrashInto(s, w)
  BY <1>1, <1>2, <1>3, <1>4 DEF TypeOK, CrashAdmitting
<1>6. o.applied \in Nat /\ Len(o.log) \in Nat
  BY <1>5, Numbers
<1>7. i \in 1 .. LastIndex(o) /\ i \in Nat /\ i > 0
  BY <1>2, <1>5, <1>6 DEF LastIndex
<1>8. n \in Node /\ Guarded(n, o) /\ n.term = o.term /\ n.incarnation = o.incarnation
  BY <1>3, <1>5, <1>7, ChangeConfigurationGuarded
<1>9. w \in Node
  BY <1>4, <1>7, <1>8, CompactionKeeps
<1>10. /\ w.snap = i /\ w.admission = n.admission /\ w.moves = n.moves
       /\ w.term = n.term /\ w.incarnation = n.incarnation
  BY <1>4, <1>8 DEF SnapshotAdmittedMembership, Node
<1>11. Joining(o) /\ n.admission = o.admission /\ n.moves = o.moves
  BY <1>5, <1>8 DEF Guarded, Joining
<1>12. Stored(w, o, s)
  BY <1>7, <1>10, <1>11 DEF Stored
<1>13. w.term >= o.term
  <2>1. o.term \in Nat
    BY <1>5 DEF Node
  <2> QED
    BY <1>8, <1>10, <2>1
<1> QED
  BY <1>1, <1>5, <1>8, <1>9, <1>10, <1>12, <1>13, CrashIntoTaken

\* A crash inside handle_install_snapshot.
LEMMA CrashInstallingTaken ==
  ASSUME TypeOK, NEW m \in msgs, CrashInstalling(m)
  PROVE  Taken
<1>1. PICK s : s = m.to
  OBVIOUS
<1>2. PICK o : o = node[s]
  OBVIOUS
<1>3. PICK n : n = AcceptLeader(o, m)
  OBVIOUS
<1>4. PICK i : i = InstallSnapshot(n, s, m)
  OBVIOUS
<1>5. PICK w : w = [i EXCEPT !.admission = n.admission]
  OBVIOUS
<1>6. /\ m.type = "snapshotRequest" /\ m.term >= o.term /\ Len(m.prefix) > n.commit
      /\ Joining(n) /\ CrashInto(s, w)
  BY <1>1, <1>2, <1>3, <1>4, <1>5 DEF CrashInstalling
<1>7. m \in Message /\ s \in Server /\ o \in Node /\ m.prefix \in Seq(Entry)
  BY <1>1, <1>2, <1>6 DEF TypeOK, Message
<1>8. n \in Node /\ Uneventful(n, o) /\ n.term = m.term /\ n.commit \in Nat
  BY <1>3, <1>6, <1>7, AcceptLeaderCalm, Numbers
<1>9. /\ i \in Node /\ i.snap = Len(m.prefix) /\ i.term = n.term
      /\ i.incarnation = n.incarnation
  BY <1>4, <1>6, <1>7, <1>8, InstallGuarded
<1>10. i.moves = n.moves
  BY <1>4, <1>6, <1>7, <1>8, InstallSnapshotKeeps DEF SameBallot
<1>11. /\ w \in Node /\ w.snap = Len(m.prefix) /\ w.admission = n.admission
       /\ w.moves = n.moves /\ w.term = n.term /\ w.incarnation = n.incarnation
  BY <1>5, <1>8, <1>9, <1>10 DEF Node
<1>12. w.snap > 0
  <2>1. Len(m.prefix) \in Nat
    BY <1>7
  <2> QED
    BY <1>6, <1>8, <1>11, <2>1
<1>13. Stored(w, o, s)
  BY <1>6, <1>8, <1>11, <1>12 DEF Stored, Uneventful, Joining
<1>14. w.term >= o.term /\ w.incarnation = o.incarnation
  BY <1>6, <1>8, <1>11 DEF Uneventful
<1> QED
  BY <1>2, <1>6, <1>7, <1>11, <1>13, <1>14, CrashIntoTaken

\* Every step of the specification has one of the forms.
LEMMA NextTaken ==
  ASSUME TypeOK, AdmissionFenced, Next
  PROVE  Taken
<1>1. CASE \E s \in Server : Apply(s) \/ CrashAdmitting(s) \/ Crash(s) \/ BroadcastHeartbeat(s)
  BY <1>1, ApplyTaken, CrashAdmittingTaken, CrashTaken, BroadcastTaken
<1>2. ASSUME Idle PROVE NoneBusy
  BY <1>2 DEF Idle, NoneBusy
<1>3. CASE Idle /\ \E m \in msgs : Receive(m)
  BY <1>2, <1>3, VoteRequestTaken, VoteResponseTaken, AppendEntriesTaken, InstallSnapshotTaken,
     ResponseTaken DEF Receive
<1>4. CASE \E m \in msgs : CrashAfterTruncate(m) \/ CrashInstalling(m)
  BY <1>4, CrashAfterTruncateTaken, CrashInstallingTaken
<1>5. CASE Idle /\ \E s \in Server : Call(s)
  BY <1>2, <1>5, StartElectionTaken, SubmitsTaken, CrashAfterTermTaken DEF Call
<1>6. CASE Idle /\ \E s \in Server : Reconfigure(s)
  <2>1. PICK s \in Server : Reconfigure(s)
    BY <1>6
  <2>2. Joiners \subseteq Server /\ Anchors \subseteq Server /\ NoneBusy
    BY <1>2, <1>6, ConstantsAssumption DEF Joiners
  <2>3. CASE \E p \in Joiners : SubmitJoin(s, p)
    BY <2>2, <2>3, SubmitsTaken
  <2>4. CASE \E p \in Removable : RemoveServer(s, p)
    BY <2>2, <2>4, RemoveTaken
  <2>5. CASE \E a \in Anchors : s \in Joiners /\ BeginJoining(s, a)
    BY <2>2, <2>5, JoiningTaken
  <2>6. CASE \E a \in Anchors : s \in Joiners /\ (CrashAfterFence(s, a) \/ CrashAfterReset(s, a))
    BY <2>2, <2>6, CrashJoiningTaken
  <2> QED
    BY <2>1, <2>3, <2>4, <2>5, <2>6 DEF Reconfigure
<1> QED
  BY <1>1, <1>3, <1>4, <1>5, <1>6 DEF Next

-----------------------------------------------------------------------------
(* The fence holds.                                                        *)

\* The proposals of a leader are proposals, after recorded progress.
LEMMA LeaderStepProposal ==
  ASSUME NEW o \in Node, NEW n \in Node, NEW s \in Server, LeaderStep(n, o, s)
  PROVE  \E k \in Node : Noted(k, o) /\ Proposal(n, k)
<1>1. Noted(o, o) /\ Proposal(o, o)
  BY ProposalReflexive DEF Noted
<1>2. CASE n = MaybePromotePendingJoiners(o, s)
  BY <1>1, <1>2, PromotionIsJoint, JointIsProposal
<1>3. CASE \E kind \in {"noop", "command", "join"}, d \in Members : n = Submit(o, s, kind, d)
  BY <1>1, <1>3, SubmitIsProposal DEF Kinds
<1>4. CASE \E d \in Members : n = SubmitJointConfiguration(o, s, d)
  BY <1>1, <1>4, JointIsProposal
<1>5. CASE \E p \in Server, i \in 0 .. Len(o.log), k \in Node :
             /\ k = RecordReplicationProgress(o, p, i)
             /\ n = AdvanceThenFinalize(k, s) \/ n = AdvanceCommitIndex(k, s)
  <2>1. PICK p \in Server, i \in 0 .. Len(o.log), k \in Node :
               /\ k = RecordReplicationProgress(o, p, i)
               /\ n = AdvanceThenFinalize(k, s) \/ n = AdvanceCommitIndex(k, s)
    BY <1>5
  <2>2. i \in Nat
    BY <2>1, Numbers
  <2>3. Noted(k, o)
    BY <2>1, <2>2, ProgressRecorded
  <2>4. Proposal(n, k)
    BY <2>1, AdvanceThenFinalizeIsProposal, AdvanceIsProposal
  <2> QED
    BY <2>3, <2>4
<1>6. CASE \E p \in Server : n = BackOff(o, p)
  <2>1. Noted(n, o)
    BY <1>6, ProgressRecorded
  <2> QED
    BY <2>1, ProposalReflexive
<1> QED
  BY <1>2, <1>3, <1>4, <1>5, <1>6 DEF LeaderStep

\* Each form of step keeps the order of the indices and the fence.
LEMMA LeaderStepFenced ==
  ASSUME NEW o \in Node, NEW n \in Node, NEW s \in Server, Ordered(o), LeaderStep(n, o, s)
  PROVE  Guarded(n, o) /\ Ordered(n)
<1>1. PICK k \in Node : Noted(k, o) /\ Proposal(n, k)
  BY LeaderStepProposal
<1>2. Guarded(k, o) /\ Ordered(k)
  BY <1>1, RecordedGuarded
<1>3. Guarded(n, k) /\ Ordered(n)
  BY <1>1, <1>2, ProposalGuarded
<1> QED
  BY <1>2, <1>3, GuardedTransitive

\* An election won.
LEMMA CandidateStepFenced ==
  ASSUME NEW o \in Node, NEW n \in Node, NEW s \in Server, Ordered(o), CandidateStep(n, o, s)
  PROVE  Guarded(n, o) /\ Ordered(n)
<1>1. PICK k \in Node : ~Joining(o) /\ Uneventful(k, o) /\ (n = k \/ n = BecomeLeader(k, s))
  BY DEF CandidateStep
<1>2. Guarded(k, o) /\ Ordered(k) /\ ~Joining(k)
  BY <1>1, CalmGuarded DEF Uneventful, Joining
<1>3. CASE n = BecomeLeader(k, s)
  <2>1. Elected(n, k)
    BY <1>3, BecomeLeaderElected
  <2>2. Guarded(n, k) /\ Ordered(n)
    BY <1>2, <2>1, ElectedGuarded
  <2> QED
    BY <1>2, <2>2, GuardedTransitive
<1> QED
  BY <1>1, <1>2, <1>3

\* A calm step.
LEMMA CalmStepFenced ==
  ASSUME NEW o \in Node, NEW n \in Node, Ordered(o), CalmStep(n, o)
  PROVE  Guarded(n, o) /\ Ordered(n)
BY CalmGuarded DEF CalmStep

\* A node that follows the sender of m.
LEMMA FollowingFenced ==
  ASSUME NEW o \in Node, NEW k \in Node, NEW m \in Message, Ordered(o), Following(k, o, m)
  PROVE  /\ Guarded(k, o) /\ Ordered(k) /\ Uneventful(k, o) /\ k.role = "follower"
         /\ k.term = m.term /\ k.snap <= k.commit
<1>1. Uneventful(k, o) /\ k.role = "follower" /\ k.term = m.term /\ k.granted \subseteq o.granted
  BY AcceptLeaderCalm DEF Following
<1>2. Guarded(k, o) /\ Ordered(k)
  BY <1>1, CalmGuarded
<1> QED
  BY <1>1, <1>2, Numbers DEF Ordered

\* Entries received.
LEMMA AppendStepFenced ==
  ASSUME NEW o \in Node, NEW n \in Node, NEW m \in Message, Ordered(o), AppendStep(n, o, m)
  PROVE  Guarded(n, o) /\ Ordered(n)
<1>1. PICK k \in Node : /\ Following(k, o, m) /\ m.type = "appendRequest"
                        /\ Len(m.entries) >= Overlap(k, m) /\ n = AppendMatching(k, m)
  BY DEF AppendStep
<1>2. Guarded(k, o) /\ Ordered(k)
  BY <1>1, FollowingFenced
<1>3. Guarded(n, k) /\ Ordered(n)
  BY <1>1, <1>2, AppendGuarded
<1> QED
  BY <1>2, <1>3, GuardedTransitive

\* A snapshot received.
LEMMA InstallStepFenced ==
  ASSUME NEW o \in Node, NEW n \in Node, NEW s \in Server, NEW m \in Message, Ordered(o),
         InstallStep(n, o, s, m)
  PROVE  Guarded(n, o) /\ Ordered(n)
<1>1. PICK k \in Node : /\ Following(k, o, m) /\ m.type = "snapshotRequest"
                        /\ Len(m.prefix) > k.commit /\ n = InstallSnapshot(k, s, m)
  BY DEF InstallStep
<1>2. Guarded(k, o) /\ Ordered(k) /\ k.role = "follower" /\ k.snap <= k.commit
  BY <1>1, FollowingFenced
<1>3. Guarded(n, k) /\ Ordered(n)
  BY <1>1, <1>2, InstallGuarded
<1> QED
  BY <1>2, <1>3, GuardedTransitive

\* What is stored when a node crashes still shows whether it was admitted.
LEMMA StoredDurable ==
  ASSUME NEW o \in Node, NEW w \in Node, NEW s \in Server, Fenced(o), Stored(w, o, s)
  PROVE  Durable(w)
<1>1. CASE Shortened(w, o)
  BY <1>1 DEF Shortened, Fenced, Durable, Joining
<1>2. CASE \E a \in Server : w = WriteAdmission(o, a) \/ w = ResetLog(WriteAdmission(o, a))
  BY <1>2, JoiningFenced
<1>3. CASE Joining(o) /\ w.admission = o.admission /\ w.moves = o.moves /\ w.snap > 0
  BY <1>3 DEF Fenced, Durable
<1> QED
  BY <1>1, <1>2, <1>3 DEF Stored

\* All forms together.
LEMMA FormFenced ==
  ASSUME TypeOK, NEW o \in Node, NEW n \in Node, NEW s \in Server, Ordered(o), Fenced(o),
         StepForm(n, o, s)
  PROVE  Ordered(n) /\ Fenced(n)
<1>1. ASSUME Guarded(n, o) /\ Ordered(n) PROVE Ordered(n) /\ Fenced(n)
  BY <1>1, GuardedKeeps
<1>2. CASE ApplyStep(n, o, s)
  BY <1>1, <1>2, ApplyGuarded DEF ApplyStep
<1>3. CASE LeaderStep(n, o, s)
  BY <1>1, <1>3, LeaderStepFenced
<1>4. CASE CandidateStep(n, o, s)
  BY <1>1, <1>4, CandidateStepFenced
<1>5. CASE CalmStep(n, o)
  BY <1>1, <1>5, CalmStepFenced
<1>6. CASE \E m \in msgs : AppendStep(n, o, m) \/ InstallStep(n, o, s, m)
  <2>1. PICK m \in msgs : AppendStep(n, o, m) \/ InstallStep(n, o, s, m)
    BY <1>6
  <2>2. m \in Message
    BY DEF TypeOK
  <2> QED
    BY <1>1, <2>1, <2>2, AppendStepFenced, InstallStepFenced
<1>7. CASE RestartStep(n, o, s)
  <2>1. PICK w \in Node : Stored(w, o, s) /\ n = Restart(w, s)
    BY <1>7 DEF RestartStep
  <2> QED
    BY <2>1, StoredDurable, RestartFenced
<1>8. CASE JoinStep(n, o, s)
  BY <1>8, JoiningFenced DEF JoinStep
<1> QED
  BY <1>2, <1>3, <1>4, <1>5, <1>6, <1>7, <1>8 DEF StepForm

\* Only the node that takes the step changes.
LEMMA OthersStay ==
  ASSUME TypeOK, NEW s \in Server, NEW n \in Node, NEW ms, Becomes(s, n, ms)
  PROVE  node'[s] = n /\ \A t \in Server : t # s => node'[t] = node[t]
BY DEF TypeOK, Becomes

\* The step of the induction.
LEMMA FencedStep ==
  ASSUME TypeOK, AdmissionFenced, Next
  PROVE  AdmissionFenced'
<1>1. PICK s, n, ms : Step(s, n, ms)
  BY NextTaken DEF Taken
<1>2. /\ s \in Server /\ n \in Node /\ Becomes(s, n, ms) /\ StepForm(n, node[s], s)
      /\ node[s] \in Node
  BY <1>1 DEF Step, TypeOK
<1>3. Ordered(n) /\ Fenced(n)
  BY <1>2, FormFenced DEF AdmissionFenced
<1>4. node'[s] = n /\ \A t \in Server : t # s => node'[t] = node[t]
  BY <1>2, OthersStay
<1>5. ASSUME NEW t \in Server PROVE Ordered(node'[t]) /\ Fenced(node'[t])
  BY <1>3, <1>4, <1>5 DEF AdmissionFenced
<1> QED
  BY <1>5 DEF AdmissionFenced

\* The induction begins.
LEMMA InitFenced ==
  ASSUME Init
  PROVE  AdmissionFenced
<1>1. ASSUME NEW s \in Server PROVE Ordered(node[s]) /\ Fenced(node[s])
  <2>1. PICK o : o = InitNode(s)
    OBVIOUS
  <2>2. o.snap = 0 /\ o.applied = 0 /\ o.commit = 0 /\ o.moves = 0 /\ o.joiningFrom = Nil
        /\ o.admission.anchor = Nil
    BY <2>1 DEF InitNode, NoAdmission
  <2>3. Ordered(o) /\ Fenced(o)
    BY <2>2 DEF Ordered, Fenced, Joining
  <2> QED
    BY <2>1, <2>3 DEF Init
<1> QED
  BY <1>1 DEF AdmissionFenced

\* The admission fence of begin_joining, for every set of servers, every
\* configuration and every interleaving of crashes: the flag in memory is the
\* fence on disk, a fenced node neither stands nor leads nor counts votes, a
\* node whose admission is complete holds a snapshot that contains its
\* membership, and no snapshot is past what is applied or applied past what
\* is committed.
THEOREM FenceHolds == Spec => []AdmissionFenced
<1>1. Init => AdmissionFenced
  BY InitFenced
<1>2. TypeOK /\ AdmissionFenced /\ [Next]_vars => AdmissionFenced'
  <2>1. ASSUME TypeOK, AdmissionFenced, Next PROVE AdmissionFenced'
    BY <2>1, FencedStep
  <2>2. ASSUME AdmissionFenced, UNCHANGED vars PROVE AdmissionFenced'
    BY <2>2 DEF vars, AdmissionFenced
  <2> QED
    BY <2>1, <2>2
<1> QED
  BY <1>1, <1>2, TypeCorrect, PTL DEF Spec

\* What RaftNode::new finds on the disk of an admitted node.
RestartsAsAdmitted ==
  \A s \in Server : node[s].moves > 0 /\ ~Joining(node[s]) =>
     Restart(node[s], s).conf = node[s].base

\* A node that has completed its admission never restarts with the singleton
\* configuration it was launched with: a crash at any time reads its
\* configuration from the membership snapshot.
THEOREM NoLaunchAfterAdmission == Spec => []RestartsAsAdmitted
<1>1. TypeOK /\ AdmissionFenced => RestartsAsAdmitted
  <2>1. SUFFICES ASSUME TypeOK, AdmissionFenced, NEW s \in Server, node[s].moves > 0,
                        ~Joining(node[s])
                 PROVE  Restart(node[s], s).conf = node[s].base
    BY DEF RestartsAsAdmitted
  <2>2. PICK o : o = node[s]
    OBVIOUS
  <2>3. o \in Node /\ o.snap > 0
    BY <2>1, <2>2 DEF TypeOK, AdmissionFenced, Fenced
  <2>4. PICK r : r = Restart(o, s)
    OBVIOUS
  <2>5. r.conf = o.base
    BY <2>3, <2>4, RestartFenced
  <2> QED
    BY <2>2, <2>4, <2>5
<1> QED
  BY <1>1, TypeCorrect, FenceHolds, PTL

-----------------------------------------------------------------------------
(* Clusters in which two servers are never removed, and every server is a  *)
(* founder.  No server alone is a quorum there, so that a leader cannot    *)
(* commit what it appends before a peer has it.                            *)

\* Every server founded the cluster, and two of them can never be removed.
TwoPermanent == Founders = Server /\ \E p, q \in Server \ Removable : p # q

\* The servers that are never removed vote in every configuration.
Kept(c) ==
  /\ Server \ Removable \subseteq c.cur.voters
  /\ Ids(c.next) = {} \/ Server \ Removable \subseteq c.next.voters

\* Every configuration in the log keeps the two.
KeptLog(log) ==
  \A i \in 1 .. Len(log) :
     log[i].kind = "joint" => Server \ Removable \subseteq log[i].members.voters

\* What holds of every node: the order of its indices, all that is committed
\* is in the log, and the permanent servers vote.
Sound(n) ==
  /\ Ordered(n) /\ n.commit <= Len(n.log)
  /\ Kept(n.conf) /\ Kept(n.base) /\ KeptLog(n.log)

\* What holds of a leader that was elected once: no peer is ahead of its log,
\* finalize_configuration_pending has its FINALIZE, and so does the assignment
\* that waits for the end of the apply loop.
Led(n) ==
  /\ \A p \in Server : n.match[p] <= Len(n.log)
  /\ n.finPending => \E i \in n.applied + 1 .. Len(n.log) : n.log[i].kind = "finalize"
  /\ n.after => \E i \in n.commit + 1 .. Len(n.log) :
                   n.log[i].kind = "finalize" /\ \A p \in Server : n.match[p] < i

\* What an operation of a leader carries over.
Carries(m, n) ==
  Sound(n) => /\ Sound(m)
              /\ Led(n) => Led(m)
              /\ m.after => n.after \/ Busy(m)
              /\ Busy(n) => Busy(m)

\* Carrying composes.
LEMMA CarriesTransitive ==
  ASSUME NEW l, NEW m, NEW n, Carries(m, l), Carries(n, m)
  PROVE  Carries(n, l)
BY DEF Carries

\* One server is no majority of two or more.
LEMMA NotAlone ==
  ASSUME TwoPermanent, NEW c \in Configuration, Kept(c), NEW s \in Server, NEW R,
         R \subseteq {s}
  PROVE  ~HasJointMajority(c, R)
<1>1. PICK p, q \in Server \ Removable : p # q
  BY DEF TwoPermanent
<1>2. PICK V : V = c.cur.voters
  OBVIOUS
<1>3. V \subseteq Server /\ p \in V /\ q \in V
  BY <1>1, <1>2 DEF Kept, Configuration, Members
<1>4. IsFiniteSet(V)
  BY <1>3, ServerFinite, FS_Subset
<1>5. Cardinality(V) \in Nat
  BY <1>4, FS_CardinalityType
<1>6. Cardinality({p, q}) = 2 /\ IsFiniteSet({p, q})
  <2>1. IsFiniteSet({p}) /\ Cardinality({p}) = 1
    BY FS_Singleton
  <2>2. q \notin {p} /\ {p, q} = {p} \cup {q}
    BY <1>1
  <2>3. /\ IsFiniteSet({p} \cup {q})
        /\ Cardinality({p} \cup {q}) = Cardinality({p}) + 1
    BY <2>1, <2>2, FS_AddElement
  <2> QED
    BY <2>1, <2>2, <2>3
<1>7. Cardinality(V) >= 2
  <2>1. {p, q} \subseteq V
    BY <1>3
  <2>2. Cardinality({p, q}) <= Cardinality(V)
    BY <1>4, <2>1, FS_Subset
  <2> QED
    BY <1>5, <1>6, <2>2
<1>8. Cardinality(V \cap R) \in Nat /\ Cardinality(V \cap R) <= 1
  <2>1. IsFiniteSet({s}) /\ Cardinality({s}) = 1
    BY FS_Singleton
  <2>2. V \cap R \subseteq {s}
    OBVIOUS
  <2>3. IsFiniteSet(V \cap R) /\ Cardinality(V \cap R) <= Cardinality({s})
    BY <2>1, <2>2, FS_Subset
  <2>4. Cardinality(V \cap R) \in Nat
    BY <2>3, FS_CardinalityType
  <2> QED
    BY <2>1, <2>3, <2>4
<1>9. ~HasMajority(c.cur, R)
  BY <1>2, <1>5, <1>7, <1>8 DEF HasMajority
<1> QED
  BY <1>9 DEF HasJointMajority

\* LastOfKind finds an entry of its kind, or none.
LEMMA LastOfKindFinds ==
  ASSUME NEW n \in Node, NEW kind, NEW i \in Nat, NEW f, f = LastOfKind(n, kind, i)
  PROVE  f \in 0 .. Len(n.log) /\ (f > 0 => n.log[f].kind = kind)
<1> DEFINE held == {k \in n.snap + 1 .. LastIndex(n) : k <= i /\ n.log[k].kind = kind}
<1>1. f \in 0 .. Len(n.log)
  BY LastOfKindType
<1>2. n.snap \in Nat /\ Len(n.log) \in Nat
  BY Numbers
<1>3. CASE held = {}
  BY <1>1, <1>3 DEF LastOfKind
<1>4. CASE held # {}
  <2>1. held \in SUBSET (n.snap + 1 .. Len(n.log)) /\ n.snap + 1 \in Nat
    BY <1>2 DEF LastIndex
  <2>2. \A k \in held : n.log[k].kind = kind
    OBVIOUS
  <2>3. f = Max(held)
    BY <1>4 DEF LastOfKind
  <2> HIDE DEF held
  <2>4. Max(held) \in held
    BY <1>2, <1>4, <2>1, MaxInInterval
  <2> QED
    BY <1>1, <2>2, <2>3, <2>4
<1> QED
  BY <1>3, <1>4

\* Every configuration a log puts in force keeps the permanent servers.
LEMMA ConfigurationKept ==
  ASSUME TwoPermanent, NEW n \in Node, NEW i \in Nat, Kept(n.base), KeptLog(n.log)
  PROVE  Kept(ConfigurationAt(n, i))
<1>1. PICK f : f = LastOfKind(n, "finalize", i)
  OBVIOUS
<1>2. PICK j : j = LastOfKind(n, "joint", i)
  OBVIOUS
<1>3. f \in 0 .. Len(n.log) /\ j \in 0 .. Len(n.log) /\ (j > 0 => n.log[j].kind = "joint")
  BY <1>1, <1>2, LastOfKindFinds
<1>4. PICK p : p = LastOfKind(n, "joint", f)
  OBVIOUS
<1>5. Len(n.log) \in Nat /\ f \in Nat /\ j \in Nat
  BY <1>3, Numbers
<1>6. p \in 0 .. Len(n.log) /\ (p > 0 => n.log[p].kind = "joint")
  BY <1>4, <1>5, LastOfKindFinds
<1>7. PICK c : c = IF f = 0 THEN n.base.cur
                   ELSE IF p > 0 THEN n.log[p].members ELSE FinalizeTransition(n.base).cur
  OBVIOUS
<1>8. PICK x : x = IF j > f THEN n.log[j].members
                   ELSE IF f = 0 THEN n.base.next ELSE NoMembers
  OBVIOUS
<1>9. ASSUME NEW k \in 1 .. Len(n.log), n.log[k].kind = "joint"
      PROVE  Server \ Removable \subseteq n.log[k].members.voters
  BY <1>9 DEF KeptLog
<1>10. Server \ Removable \subseteq c.voters
  <2>1. CASE f # 0 /\ p > 0
    <3>1. p \in 1 .. Len(n.log)
      BY <1>5, <1>6, <2>1
    <3> QED
      BY <1>6, <1>7, <1>9, <2>1, <3>1
  <2>2. CASE f = 0
    BY <1>7, <2>2 DEF Kept
  <2>3. CASE f # 0 /\ ~(p > 0)
    BY <1>7, <2>3 DEF Kept, FinalizeTransition, Stable, IsJointConsensus
  <2> QED
    BY <2>1, <2>2, <2>3
<1>11. Ids(x) = {} \/ Server \ Removable \subseteq x.voters
  <2>1. CASE j > f
    <3>1. j \in 1 .. Len(n.log) /\ j > 0
      BY <1>3, <1>5, <2>1
    <3> QED
      BY <1>3, <1>8, <1>9, <2>1, <3>1
  <2>2. CASE ~(j > f)
    BY <1>8, <2>2 DEF Kept, Ids, NoMembers
  <2> QED
    BY <2>1, <2>2
<1>12. ConfigurationAt(n, i) = [cur |-> c, next |-> x]
  BY <1>1, <1>2, <1>4, <1>7, <1>8 DEF ConfigurationAt
<1> QED
  BY <1>10, <1>11, <1>12 DEF Kept

\* A commitment needs a peer that has confirmed the index.
LEMMA CommitNeedsPeer ==
  ASSUME TwoPermanent, NEW n \in Node, Sound(n), NEW s \in Server, NEW i \in Nat,
         CanCommit(n, s, i)
  PROVE  \E p \in Server : n.match[p] >= i
<1>1. PICK c : c = ConfigurationAt(n, i)
  OBVIOUS
<1>2. c \in Configuration /\ Kept(c)
  BY <1>1, ConfigurationAtType, ConfigurationKept DEF Sound
<1>3. SUFFICES ASSUME \A p \in Server : ~(n.match[p] >= i)
               PROVE  FALSE
  OBVIOUS
<1>4. Ids(AllMembers(c)) \subseteq Server
  <2>1. AllMembers(c) \in Members
    BY <1>2, AllMembersType
  <2> QED
    BY <2>1 DEF Members, Ids
<1>5. Replicated(n, s, i) \subseteq {s}
  BY <1>1, <1>3, <1>4 DEF Replicated
<1>6. HasJointMajority(c, Replicated(n, s, i))
  BY <1>1 DEF CanCommit
<1> QED
  BY <1>2, <1>5, <1>6, NotAlone

-----------------------------------------------------------------------------
(* The operations of a leader.                                             *)

\* How the lemmas conclude: the parts of Carries.
LEMMA CarriesSound ==
  ASSUME NEW n \in Node, NEW m \in Node, Sound(n), Proposal(m, n), KeptLog(m.log),
         m.commit <= Len(m.log)
  PROVE  Sound(m) /\ (Busy(n) => Busy(m))
<1>1. Ordered(m) /\ Kept(m.conf) /\ Kept(m.base)
  BY ProposalGuarded DEF Sound, Proposal
<1>2. Busy(n) => Busy(m)
  BY Numbers DEF Proposal, Busy
<1> QED
  BY <1>1, <1>2 DEF Sound

\* advance_commit_index carries.
LEMMA AdvanceCarries ==
  ASSUME TwoPermanent, NEW n \in Node, NEW s \in Server, NEW m, m = AdvanceCommitIndex(n, s)
  PROVE  Carries(m, n)
<1>1. /\ Proposal(m, n) /\ m.log = n.log /\ m \in Node
      /\ m.finPending = n.finPending /\ m.after = n.after
      /\ m.commit # n.commit => m.commit \in n.commit + 1 .. Len(n.log) /\ CanCommit(n, s, m.commit)
  BY AdvanceIsProposal
<1>2. m.match = n.match /\ m.applied = n.applied /\ m.commit \in Nat /\ n.commit \in Nat
      /\ Len(n.log) \in Nat
  BY <1>1, Numbers DEF Proposal
<1>3. SUFFICES ASSUME Sound(n)
               PROVE  Sound(m) /\ (Led(n) => Led(m)) /\ (Busy(n) => Busy(m))
  BY <1>1 DEF Carries
<1>4. KeptLog(m.log) /\ m.commit <= Len(m.log)
  BY <1>1, <1>2, <1>3 DEF Sound
<1>5. Sound(m) /\ (Busy(n) => Busy(m))
  BY <1>1, <1>3, <1>4, CarriesSound
<1>6. ASSUME Led(n) PROVE Led(m)
  <2>1. ASSUME m.after PROVE \E i \in m.commit + 1 .. Len(m.log) :
                               m.log[i].kind = "finalize" /\ \A p \in Server : m.match[p] < i
    <3>1. PICK i \in n.commit + 1 .. Len(n.log) :
                 n.log[i].kind = "finalize" /\ \A p \in Server : n.match[p] < i
      BY <1>1, <1>6, <2>1 DEF Led
    <3>2. CASE m.commit = n.commit
      BY <1>1, <1>2, <3>1, <3>2
    <3>3. CASE m.commit # n.commit
      <4>1. PICK p \in Server : n.match[p] >= m.commit
        BY <1>1, <1>2, <1>3, <3>3, CommitNeedsPeer
      <4>2. n.match[p] \in Nat /\ n.match[p] < i
        BY <3>1, Numbers
      <4>3. i \in m.commit + 1 .. Len(m.log)
        BY <1>1, <1>2, <3>1, <4>1, <4>2
      <4> QED
        BY <1>1, <1>2, <3>1, <4>3
    <3> QED
      BY <3>2, <3>3
  <2> QED
    BY <1>1, <1>2, <1>6, <2>1 DEF Led
<1> QED
  BY <1>5, <1>6

\* Appending an entry that keeps the two carries.
LEMMA AppendCarries ==
  ASSUME NEW n \in Node, NEW e \in Entry, NEW m, m = AppendEntry(n, e),
         e.kind = "joint" => Server \ Removable \subseteq e.members.voters
  PROVE  Carries(m, n)
<1>1. /\ m \in Node /\ Proposal(m, n)
      /\ Len(m.log) = Len(n.log) + 1 /\ m.log[Len(m.log)] = e
      /\ m.commit = n.commit /\ m.finPending = n.finPending /\ m.after = n.after
  BY AppendIsProposal
<1>2. ASSUME NEW i \in 1 .. Len(n.log) PROVE m.log[i] = n.log[i]
  BY <1>2, AppendIsProposal
<1>3. /\ m.match = n.match /\ m.applied = n.applied /\ n.commit \in Nat /\ n.applied \in Nat
      /\ Len(n.log) \in Nat
  BY <1>1, Numbers DEF Proposal
<1>4. SUFFICES ASSUME Sound(n)
               PROVE  Sound(m) /\ (Led(n) => Led(m)) /\ (Busy(n) => Busy(m))
  BY <1>1 DEF Carries
<1>5. KeptLog(m.log)
  <2>1. ASSUME NEW i \in 1 .. Len(m.log), m.log[i].kind = "joint"
        PROVE  Server \ Removable \subseteq m.log[i].members.voters
    <3>1. CASE i = Len(m.log)
      BY <1>1, <2>1, <3>1
    <3>2. CASE i # Len(m.log)
      <4>1. i \in 1 .. Len(n.log)
        BY <1>1, <1>3, <2>1, <3>2
      <4> QED
        BY <1>2, <1>4, <2>1, <4>1 DEF Sound, KeptLog
    <3> QED
      BY <3>1, <3>2
  <2> QED
    BY <2>1 DEF KeptLog
<1>6. n.commit <= Len(n.log)
  BY <1>4 DEF Sound
<1>7. m.commit <= Len(m.log)
  BY <1>1, <1>3, <1>6
<1>8. Sound(m) /\ (Busy(n) => Busy(m))
  BY <1>1, <1>4, <1>5, <1>7, CarriesSound
<1>9. ASSUME Led(n) PROVE Led(m)
  <2>1. ASSUME NEW p \in Server PROVE m.match[p] <= Len(m.log)
    <3>1. n.match[p] \in Nat /\ n.match[p] <= Len(n.log)
      BY <1>9, Numbers DEF Led
    <3> QED
      BY <1>1, <1>3, <3>1
  <2>2. ASSUME m.finPending
        PROVE  \E i \in m.applied + 1 .. Len(m.log) : m.log[i].kind = "finalize"
    <3>1. PICK i \in n.applied + 1 .. Len(n.log) : n.log[i].kind = "finalize"
      BY <1>1, <1>9, <2>2 DEF Led
    <3>2. i \in 1 .. Len(n.log) /\ i \in m.applied + 1 .. Len(m.log)
      BY <1>1, <1>3, <3>1
    <3> QED
      BY <1>2, <3>1, <3>2
  <2>3. ASSUME m.after
        PROVE  \E i \in m.commit + 1 .. Len(m.log) :
                  m.log[i].kind = "finalize" /\ \A p \in Server : m.match[p] < i
    <3>1. PICK i \in n.commit + 1 .. Len(n.log) :
                 n.log[i].kind = "finalize" /\ \A p \in Server : n.match[p] < i
      BY <1>1, <1>9, <2>3 DEF Led
    <3>2. i \in 1 .. Len(n.log) /\ i \in m.commit + 1 .. Len(m.log)
      BY <1>1, <1>3, <3>1
    <3> QED
      BY <1>2, <1>3, <3>1, <3>2
  <2> QED
    BY <2>1, <2>2, <2>3 DEF Led
<1> QED
  BY <1>8, <1>9

\* submit_command carries.
LEMMA SubmitCarries ==
  ASSUME TwoPermanent, NEW n \in Node, NEW s \in Server, NEW kind \in Kinds \ {"joint"},
         NEW d \in Members, NEW m, m = Submit(n, s, kind, d)
  PROVE  Carries(m, n)
<1>1. PICK e : e = NewEntry(n.term, s, kind, d)
  OBVIOUS
<1>2. e \in Entry /\ e.kind # "joint"
  <2>1. e \in Entry
    BY <1>1, NewEntryType, Numbers
  <2> QED
    BY <1>1, <2>1 DEF NewEntry
<1>3. PICK a : a = AppendEntry(n, e)
  OBVIOUS
<1>4. a \in Node /\ Carries(a, n)
  BY <1>2, <1>3, AppendIsProposal, AppendCarries
<1>5. m = AdvanceCommitIndex(a, s)
  BY <1>1, <1>3 DEF Submit
<1>6. Carries(m, a)
  BY <1>4, <1>5, AdvanceCarries
<1> QED
  BY <1>4, <1>6, CarriesTransitive

\* An automatic FINALIZE is in the log before the flag goes up, and no peer
\* has it yet.
LEMMA FinalizeCarries ==
  ASSUME TwoPermanent, NEW n \in Node, NEW s \in Server, NEW m, m = MaybeAutoFinalize(n, s)
  PROVE  Carries(m, n)
<1>1. CASE m = n
  BY <1>1 DEF Carries
<1>2. CASE ReadyToFinalize(n, s)
  <2>1. PICK e : e = NewEntry(n.term, s, "finalize", NoMembers)
    OBVIOUS
  <2>2. e \in Entry /\ e.kind = "finalize"
    <3>1. e \in Entry
      BY <2>1, NewEntryType, NoMembersType, Numbers DEF Kinds
    <3> QED
      BY <2>1, <3>1 DEF NewEntry
  <2>3. PICK a : a = AppendEntry(n, e)
    OBVIOUS
  <2>4. /\ a \in Node /\ Carries(a, n) /\ Proposal(a, n)
        /\ Len(a.log) = Len(n.log) + 1 /\ a.log[Len(a.log)] = e
        /\ a.commit = n.commit /\ a.after = n.after
    BY <2>2, <2>3, AppendIsProposal, AppendCarries
  <2>5. PICK k : k = AdvanceCommitIndex(a, s)
    OBVIOUS
  <2>6. /\ k \in Node /\ Carries(k, a) /\ Proposal(k, a) /\ k.log = a.log
        /\ k.after = a.after
        /\ k.commit # a.commit =>
             k.commit \in a.commit + 1 .. Len(a.log) /\ CanCommit(a, s, k.commit)
    BY <2>4, <2>5, AdvanceIsProposal, AdvanceCarries
  <2>7. /\ Len(n.log) \in Nat /\ n.commit \in Nat /\ n.applied \in Nat /\ k.commit \in Nat
        /\ k.match = n.match /\ k.applied = n.applied /\ a.match = n.match
    BY <2>4, <2>6, Numbers DEF Proposal
  <2>8. SUFFICES ASSUME Sound(n)
                 PROVE  /\ Sound(m) /\ (Led(n) => Led(m)) /\ (Busy(n) => Busy(m))
                        /\ m.after => n.after \/ Busy(m)
    BY DEF Carries
  <2>9. Sound(a) /\ Sound(k) /\ (Led(n) => Led(k)) /\ (Busy(n) => Busy(k))
    BY <2>4, <2>6, <2>8 DEF Carries
  <2>10. n.applied <= n.commit /\ n.commit <= Len(n.log)
    BY <2>8 DEF Sound, Ordered
  <2>11. ASSUME Led(n)
         PROVE  /\ k.log[Len(k.log)].kind = "finalize"
                /\ Len(k.log) \in k.commit + 1 .. Len(k.log)
                /\ Len(k.log) \in k.applied + 1 .. Len(k.log)
                /\ \A p \in Server : k.match[p] < Len(k.log)
    <3>1. ASSUME NEW p \in Server PROVE k.match[p] < Len(k.log)
      <4>1. n.match[p] \in Nat /\ n.match[p] <= Len(n.log)
        BY <2>11, Numbers DEF Led
      <4> QED
        BY <2>4, <2>6, <2>7, <4>1
    <3>2. k.commit < Len(k.log)
      <4>1. CASE k.commit = a.commit
        BY <2>4, <2>6, <2>7, <2>10, <4>1
      <4>2. CASE k.commit # a.commit
        <5>1. PICK p \in Server : a.match[p] >= k.commit
          BY <2>4, <2>6, <2>7, <2>9, <4>2, CommitNeedsPeer
        <5>2. k.match[p] < Len(k.log) /\ k.match[p] \in Nat
          BY <2>6, <3>1, Numbers
        <5> QED
          BY <2>4, <2>6, <2>7, <5>1, <5>2
      <4> QED
        BY <4>1, <4>2
    <3>3. k.log[Len(k.log)].kind = "finalize"
      BY <2>2, <2>4, <2>6
    <3> QED
      BY <2>4, <2>6, <2>7, <2>10, <3>1, <3>2, <3>3
  <2>12. \/ k.commit > n.commit /\ m = [k EXCEPT !.after = TRUE]
         \/ m = [k EXCEPT !.finPending = TRUE]
    <3>1. k = Submit(n, s, "finalize", NoMembers)
      BY <2>1, <2>3, <2>5 DEF Submit
    <3> QED
      BY <1>2, <3>1 DEF MaybeAutoFinalize
  <2>13. CASE k.commit > n.commit /\ m = [k EXCEPT !.after = TRUE]
    <3>1. /\ m.log = k.log /\ m.snap = k.snap /\ m.applied = k.applied /\ m.commit = k.commit
          /\ m.conf = k.conf /\ m.base = k.base /\ m.match = k.match
          /\ m.finPending = k.finPending
      BY <2>6, <2>13 DEF Node
    <3>2. Sound(m) /\ Busy(m)
      BY <2>7, <2>9, <2>10, <2>13, <3>1 DEF Sound, Ordered, Busy
    <3>3. ASSUME Led(n) PROVE Led(m)
      BY <2>9, <2>11, <3>1, <3>3 DEF Led
    <3> QED
      BY <3>2, <3>3
  <2>14. CASE m = [k EXCEPT !.finPending = TRUE]
    <3>1. /\ m.log = k.log /\ m.snap = k.snap /\ m.applied = k.applied /\ m.commit = k.commit
          /\ m.conf = k.conf /\ m.base = k.base /\ m.match = k.match /\ m.after = k.after
      BY <2>6, <2>14 DEF Node
    <3>2. Sound(m) /\ (Busy(n) => Busy(m)) /\ (m.after => n.after)
      BY <2>4, <2>6, <2>9, <3>1 DEF Sound, Ordered, Busy
    <3>3. ASSUME Led(n) PROVE Led(m)
      BY <2>9, <2>11, <3>1, <3>3 DEF Led
    <3> QED
      BY <3>2, <3>3
  <2> QED
    BY <2>12, <2>13, <2>14
<1> QED
  BY <1>1, <1>2 DEF MaybeAutoFinalize

\* advance_commit_index followed by the automatic FINALIZE carries.
LEMMA AdvanceThenFinalizeCarries ==
  ASSUME TwoPermanent, NEW n \in Node, NEW s \in Server, NEW m, m = AdvanceThenFinalize(n, s)
  PROVE  Carries(m, n)
<1>1. PICK k : k = AdvanceCommitIndex(n, s)
  OBVIOUS
<1>2. k \in Node /\ Carries(k, n)
  BY <1>1, AdvanceIsProposal, AdvanceCarries
<1>3. CASE m = [k EXCEPT !.tail = TRUE]
  <2>1. /\ m.log = k.log /\ m.snap = k.snap /\ m.applied = k.applied /\ m.commit = k.commit
        /\ m.conf = k.conf /\ m.base = k.base /\ m.match = k.match /\ m.after = k.after
        /\ m.finPending = k.finPending
    BY <1>2, <1>3 DEF Node
  <2>2. Carries(m, k)
    BY <2>1 DEF Carries, Sound, Ordered, Led, Busy
  <2> QED
    BY <1>2, <2>2, CarriesTransitive
<1>4. CASE m = MaybeAutoFinalize(k, s)
  <2>1. Carries(m, k)
    BY <1>2, <1>4, FinalizeCarries
  <2> QED
    BY <1>2, <2>1, CarriesTransitive
<1> QED
  BY <1>1, <1>3, <1>4 DEF AdvanceThenFinalize

\* The start of a membership change carries.
LEMMA JointCarries ==
  ASSUME TwoPermanent, NEW n \in Node, NEW s \in Server, NEW d \in Members,
         Server \ Removable \subseteq d.voters, NEW m, m = SubmitJointConfiguration(n, s, d)
  PROVE  Carries(m, n)
<1>1. CASE m = n
  BY <1>1 DEF Carries
<1>2. PICK e : e = NewEntry(n.term, s, "joint", d)
  OBVIOUS
<1>3. e \in Entry /\ Server \ Removable \subseteq e.members.voters
  <2>1. e \in Entry
    BY <1>2, NewEntryType, Numbers DEF Kinds
  <2> QED
    BY <1>2, <2>1 DEF NewEntry
<1>4. PICK a : a = AppendEntry(n, e)
  OBVIOUS
<1>5. a \in Node /\ Carries(a, n)
  BY <1>3, <1>4, AppendIsProposal, AppendCarries
<1>6. CASE m = AdvanceThenFinalize(a, s)
  <2>1. Carries(m, a)
    BY <1>5, <1>6, AdvanceThenFinalizeCarries
  <2> QED
    BY <1>5, <2>1, CarriesTransitive
<1> QED
  BY <1>1, <1>2, <1>4, <1>6 DEF SubmitJointConfiguration

\* The changes of membership a leader proposes keep the permanent servers.
LEMMA ChangeCarries ==
  ASSUME TwoPermanent, NEW n \in Node, NEW s \in Server, NEW m,
         \/ m = MaybePromotePendingJoiners(n, s)
         \/ \E p \in Removable, d \in Members :
              d.voters = AllMembers(n.conf).voters \ {p} /\ m = SubmitJointConfiguration(n, s, d)
  PROVE  Carries(m, n)
<1>1. CASE m = n
  BY <1>1 DEF Carries
<1>2. SUFFICES ASSUME Sound(n), m # n PROVE Carries(m, n)
  BY <1>1 DEF Carries
<1>3. Server \ Removable \subseteq AllMembers(n.conf).voters
  BY <1>2 DEF Sound, Kept, AllMembers
<1>4. PICK d \in Members : /\ Server \ Removable \subseteq d.voters
                           /\ m = SubmitJointConfiguration(n, s, d)
  <2>1. CASE m = MaybePromotePendingJoiners(n, s)
    BY <1>2, <1>3, <2>1, PromotionIsJoint
  <2>2. CASE \E p \in Removable, d \in Members :
               d.voters = AllMembers(n.conf).voters \ {p} /\ m = SubmitJointConfiguration(n, s, d)
    BY <1>3, <2>2
  <2> QED
    BY <2>1, <2>2
<1> QED
  BY <1>4, JointCarries

-----------------------------------------------------------------------------
(* The apply loop.                                                         *)

\* A configuration that takes effect leaves the node sound.
LEMMA TakesEffectSound ==
  ASSUME NEW n \in Node, NEW s \in Server, NEW i, NEW r, TakesEffect(r, n, s, i), Sound(n),
         i = n.applied + 1, i <= n.commit
  PROVE  Sound(r) /\ (Led(n) => Led(r)) /\ r \in Node
<1>1. /\ i \in 1 .. LastIndex(n) /\ i > n.snap /\ n.log[i].kind \in {"joint", "finalize"}
      /\ r = RelinquishAndForget(CompleteAdmission(ChangeConfiguration(n, s, i), s, i), s)
  BY DEF TakesEffect
<1>2. PICK c : c = IF n.log[i].kind = "joint" THEN TransitionTo(n.conf, n.log[i].members)
                   ELSE FinalizeTransition(n.conf)
  OBVIOUS
<1>3. /\ r \in Node /\ r.applied = i /\ r.commit = n.commit /\ r.log = n.log
      /\ ~r.finPending /\ r.after = n.after /\ r.conf = c
      /\ \/ r.snap = n.snap /\ r.base = n.base
         \/ r.snap = i /\ r.base = c
      /\ \A p \in Server : r.match[p] \in {0, n.match[p]}
  BY <1>1, <1>2, ConfigurationApplied
<1>4. /\ Kept(n.conf) /\ Kept(n.base) /\ KeptLog(n.log) /\ n.snap <= n.applied
      /\ n.commit <= Len(n.log)
  BY DEF Sound, Ordered
<1>5. Kept(c)
  <2>1. CASE n.log[i].kind = "joint"
    <3>1. Server \ Removable \subseteq n.log[i].members.voters
      BY <1>1, <1>4, <2>1 DEF KeptLog, LastIndex
    <3> QED
      BY <1>2, <1>4, <2>1, <3>1 DEF Kept, TransitionTo
  <2>2. CASE n.log[i].kind # "joint"
    BY <1>2, <1>4, <2>2 DEF Kept, FinalizeTransition, Stable, IsJointConsensus, Ids, NoMembers
  <2> QED
    BY <2>1, <2>2
<1>6. n.snap \in Nat /\ n.applied \in Nat /\ n.commit \in Nat
  BY Numbers
<1>7. Ordered(r)
  BY <1>3, <1>4, <1>6 DEF Ordered
<1>8. Sound(r)
  BY <1>3, <1>4, <1>5, <1>7 DEF Sound
<1>9. ASSUME Led(n) PROVE Led(r)
  <2>1. Len(n.log) \in Nat
    BY Numbers
  <2>2. ASSUME NEW p \in Server
        PROVE  r.match[p] <= n.match[p] /\ r.match[p] \in Nat /\ n.match[p] \in Nat
               /\ n.match[p] <= Len(n.log)
    BY <1>3, <1>9, Numbers, SMTT(30) DEF Led
  <2>3. ASSUME NEW p \in Server PROVE r.match[p] <= Len(r.log)
    BY <1>3, <2>1, <2>2
  <2>4. ASSUME r.after
        PROVE  \E j \in r.commit + 1 .. Len(r.log) :
                  r.log[j].kind = "finalize" /\ \A p \in Server : r.match[p] < j
    <3>1. PICK j \in n.commit + 1 .. Len(n.log) :
                 n.log[j].kind = "finalize" /\ \A p \in Server : n.match[p] < j
      BY <1>3, <1>9, <2>4 DEF Led
    <3>2. ASSUME NEW p \in Server PROVE r.match[p] < j
      <4>1. n.match[p] < j /\ j \in Nat
        BY <1>6, <2>1, <3>1
      <4> QED
        BY <2>2, <4>1
    <3> QED
      BY <1>3, <3>1, <3>2
  <2> QED
    BY <1>3, <2>3, <2>4 DEF Led
<1> QED
  BY <1>3, <1>8, <1>9

\* So does an entry passed over,
LEMMA PassesOverSound ==
  ASSUME NEW n \in Node, NEW i, NEW a \in Node, PassesOver(a, n, i), Sound(n),
         i = n.applied + 1, i <= n.commit
  PROVE  Sound(a) /\ (Led(n) => Led(a))
<1>1. /\ n.snap \in Nat /\ n.applied \in Nat /\ n.commit \in Nat /\ n.snap <= n.applied
      /\ Len(n.log) \in Nat
  BY Numbers DEF Sound, Ordered
<1>2. Ordered(a)
  BY <1>1 DEF PassesOver, Ordered
<1>3. Sound(a)
  BY <1>2 DEF PassesOver, Sound
<1>4. ASSUME Led(n) PROVE Led(a)
  <2>1. ASSUME a.finPending
        PROVE  \E j \in a.applied + 1 .. Len(a.log) : a.log[j].kind = "finalize"
    <3>1. PICK j \in n.applied + 1 .. Len(n.log) : n.log[j].kind = "finalize"
      BY <1>4, <2>1 DEF PassesOver, Led
    <3>2. j # i
      BY <1>1, <3>1 DEF PassesOver
    <3>3. j \in a.applied + 1 .. Len(a.log)
      BY <1>1, <3>1, <3>2 DEF PassesOver
    <3> QED
      BY <3>1, <3>3 DEF PassesOver
  <2> QED
    BY <1>4, <2>1 DEF PassesOver, Led
<1> QED
  BY <1>3, <1>4

\* When the loop ends, the assignment that was waiting finds its FINALIZE.
LEMMA FinishedSound ==
  ASSUME NEW n \in Node, NEW k \in Node, Finished(k, n), Sound(n), n.applied = n.commit
  PROVE  Sound(k) /\ (Led(n) => Led(k)) /\ ~k.after
<1>1. /\ n.snap \in Nat /\ n.applied \in Nat /\ n.commit \in Nat
  BY Numbers
<1>2. Ordered(k) /\ Kept(k.base)
  BY <1>1 DEF Finished, Sound, Ordered
<1>3. Sound(k)
  BY <1>2 DEF Finished, Sound
<1>4. ASSUME Led(n) PROVE Led(k)
  <2>1. ASSUME k.finPending
        PROVE  \E j \in k.applied + 1 .. Len(k.log) : k.log[j].kind = "finalize"
    BY <1>4, <2>1 DEF Finished, Led
  <2> QED
    BY <1>4, <2>1 DEF Finished, Led
<1> QED
  BY <1>3, <1>4 DEF Finished

\* and a whole turn of apply_committed.
LEMMA ApplySound ==
  ASSUME TwoPermanent, NEW n \in Node, NEW s \in Server, Sound(n), Busy(n),
         NEW m, m = ApplyCommitted(n, s)
  PROVE  Sound(m) /\ (Led(n) => Led(m) /\ (m.after => Busy(m)))
<1>1. PICK a : a = ApplyEntry(n, s)
  OBVIOUS
<1>2. PICK i : i = n.applied + 1
  OBVIOUS
<1>3. i <= n.commit
  BY <1>2, Numbers DEF Busy
<1>4. /\ a \in Node
      /\ \/ PassesOver(a, n, i)
         \/ \E r \in Node : /\ TakesEffect(r, n, s, i)
                            /\ a = r \/ a = MaybeAutoFinalize(r, s)
  BY <1>1, <1>2, ApplyEntryCases
<1>5. Sound(a) /\ (Led(n) => Led(a))
  <2>1. CASE PassesOver(a, n, i)
    BY <1>2, <1>3, <1>4, <2>1, PassesOverSound
  <2>2. ASSUME NEW r \in Node, TakesEffect(r, n, s, i), a = r \/ a = MaybeAutoFinalize(r, s)
        PROVE  Sound(a) /\ (Led(n) => Led(a))
    <3>1. Sound(r) /\ (Led(n) => Led(r))
      BY <1>2, <1>3, <2>2, TakesEffectSound
    <3>2. CASE a = MaybeAutoFinalize(r, s)
      <4>1. Carries(a, r)
        BY <3>2, FinalizeCarries
      <4> QED
        BY <3>1, <4>1 DEF Carries
    <3> QED
      BY <2>2, <3>1, <3>2
  <2> QED
    BY <1>4, <2>1, <2>2
<1>6. CASE m = a /\ a.applied # a.commit
  <2>1. Busy(a)
    BY <1>4, <1>5, <1>6, Numbers DEF Sound, Ordered, Busy
  <2> QED
    BY <1>5, <1>6, <2>1
<1>7. CASE m = EndOfApply(a, s) /\ a.applied = a.commit
  <2>1. PICK k \in Node : Finished(k, a) /\ (m = k \/ m = MaybeAutoFinalize(k, s))
    BY <1>4, <1>7, EndOfApplyCases
  <2>2. Sound(k) /\ (Led(a) => Led(k)) /\ ~k.after
    BY <1>4, <1>5, <1>7, <2>1, FinishedSound
  <2>3. CASE m = MaybeAutoFinalize(k, s)
    <3>1. Carries(m, k)
      BY <2>3, FinalizeCarries
    <3> QED
      BY <1>5, <2>2, <3>1 DEF Carries
  <2> QED
    BY <1>5, <2>1, <2>2, <2>3
<1> QED
  BY <1>1, <1>6, <1>7 DEF ApplyCommitted

-----------------------------------------------------------------------------
(* Followers, restarts and messages.                                       *)

\* Concatenation.
LEMMA Concatenated ==
  ASSUME NEW A \in Seq(Entry), NEW B \in Seq(Entry), NEW L, L = A \o B
  PROVE  /\ L \in Seq(Entry) /\ Len(L) = Len(A) + Len(B)
         /\ Len(A) \in Nat /\ Len(B) \in Nat
         /\ \A i \in 1 .. Len(A) : L[i] = A[i]
         /\ \A i \in 1 .. Len(B) : L[Len(A) + i] = B[i]
<1>1. Len(A) \in Nat /\ Len(B) \in Nat
  OBVIOUS
<1>2. L \in Seq(Entry)
  OBVIOUS
<1>3. Len(A \o B) = Len(A) + Len(B)
  OBVIOUS
<1>4. ASSUME NEW i \in 1 .. Len(A) PROVE (A \o B)[i] = A[i]
  BY <1>1, <1>4
<1>5. ASSUME NEW i \in 1 .. Len(B) PROVE (A \o B)[Len(A) + i] = B[i]
  BY <1>1, <1>5
<1> QED
  BY <1>1, <1>2, <1>3, <1>4, <1>5

\* The log after the matching loop holds all that the request brought.
LEMMA MergedLength ==
  ASSUME NEW n \in Node, NEW prev \in Nat, NEW entries \in Seq(Entry), prev <= Len(n.log),
         NEW L, L = MergeEntries(n, prev, entries)
  PROVE  L \in Seq(Entry) /\ prev + Len(entries) <= Len(L)
<1>1. Len(n.log) \in Nat /\ n.log \in Seq(Entry) /\ Len(entries) \in Nat
  BY Numbers
<1>2. PICK D : D = {k \in 1 .. Len(entries) :
                      prev + k > LastIndex(n) \/ TermAt(n, prev + k) # entries[k].term}
  OBVIOUS
<1>3. PICK k : k = IF D = {} THEN 0 ELSE Min(D)
  OBVIOUS
<1>4. L = IF k = 0 THEN n.log ELSE Prefix(n.log, prev + k - 1) \o SubSeq(entries, k, Len(entries))
  BY <1>2, <1>3 DEF MergeEntries, FirstDifference
<1>5. ASSUME NEW j \in 1 .. Len(entries), j \notin D PROVE prev + j <= Len(n.log)
  BY <1>1, <1>2, <1>5 DEF LastIndex
<1>6. CASE D = {}
  <2>1. L = n.log
    BY <1>3, <1>4, <1>6
  <2>2. prev + Len(entries) <= Len(n.log)
    <3>1. CASE Len(entries) = 0
      BY <1>1, <3>1
    <3>2. CASE Len(entries) # 0
      <4>1. Len(entries) \in 1 .. Len(entries)
        BY <1>1, <3>2
      <4> QED
        BY <1>5, <1>6, <4>1
    <3> QED
      BY <3>1, <3>2
  <2> QED
    BY <1>1, <2>1, <2>2
<1>7. CASE D # {}
  <2>1. D \in SUBSET Nat
    BY <1>1, <1>2
  <2>2. k \in D /\ \A y \in D : y >= k
    BY <1>3, <1>7, <2>1, MinInNat
  <2>3. k \in 1 .. Len(entries)
    BY <1>2, <2>2
  <2>4. prev + k - 1 <= Len(n.log)
    <3>1. CASE k = 1
      BY <1>1, <3>1
    <3>2. CASE k # 1
      <4>1. k - 1 \in 1 .. Len(entries) /\ ~(k - 1 >= k)
        BY <1>1, <2>3, <3>2
      <4>2. prev + (k - 1) <= Len(n.log)
        BY <1>5, <2>2, <4>1
      <4> QED
        BY <1>1, <2>3, <4>2
    <3> QED
      BY <3>1, <3>2
  <2>5. PICK j : j = prev + k - 1
    OBVIOUS
  <2>6. j \in 0 .. Len(n.log) /\ j = prev + k - 1
    BY <1>1, <2>3, <2>4, <2>5
  <2>7. PICK A : A = SubSeq(n.log, 1, j)
    OBVIOUS
  <2>8. PICK B : B = SubSeq(entries, k, Len(entries))
    OBVIOUS
  <2>9. A \in Seq(Entry) /\ Len(A) = j
    BY <1>1, <2>6, <2>7
  <2>10. B \in Seq(Entry) /\ Len(B) = Len(entries) - k + 1
    BY <1>1, <2>3, <2>8
  <2>11. L = A \o B
    BY <1>1, <1>4, <2>3, <2>6, <2>7, <2>8, SMTT(30) DEF Prefix
  <2>12. L \in Seq(Entry) /\ Len(L) = Len(A) + Len(B)
    BY <2>9, <2>10, <2>11, Concatenated, ZenonT(60)
  <2> QED
    BY <1>1, <2>3, <2>6, <2>9, <2>10, <2>12
<1> QED
  BY <1>6, <1>7

\* What is merged comes from the log or from the request.
LEMMA MergedKept ==
  ASSUME NEW n \in Node, NEW prev \in Nat, NEW entries \in Seq(Entry), prev <= Len(n.log),
         KeptLog(n.log), KeptLog(entries), NEW L, L = MergeEntries(n, prev, entries)
  PROVE  KeptLog(L)
<1>1. Len(n.log) \in Nat /\ n.log \in Seq(Entry) /\ Len(entries) \in Nat
  BY Numbers
<1>2. PICK k : k = FirstDifference(n, prev, entries)
  OBVIOUS
<1>3. k \in 0 .. Len(entries)
  <2>1. PICK D : D = {x \in 1 .. Len(entries) :
                        prev + x > LastIndex(n) \/ TermAt(n, prev + x) # entries[x].term}
    OBVIOUS
  <2>2. k = IF D = {} THEN 0 ELSE Min(D)
    BY <1>2, <2>1 DEF FirstDifference
  <2>3. D \in SUBSET Nat
    BY <1>1, <2>1
  <2>4. CASE D # {}
    <3>1. k \in D
      BY <2>2, <2>3, <2>4, MinInNat
    <3> QED
      BY <1>1, <2>1, <3>1
  <2> QED
    BY <1>1, <2>2, <2>4
<1>4. CASE k = 0
  BY <1>2, <1>4 DEF MergeEntries
<1>5. CASE k # 0
  <2>1. PICK j : j = IF prev + k - 1 <= Len(n.log) THEN prev + k - 1 ELSE Len(n.log)
    OBVIOUS
  <2>2. j \in 0 .. Len(n.log)
    BY <1>1, <1>3, <1>5, <2>1
  <2>3. PICK A : A = SubSeq(n.log, 1, j)
    OBVIOUS
  <2>4. PICK B : B = SubSeq(entries, k, Len(entries))
    OBVIOUS
  <2>5. L = A \o B
    BY <1>2, <1>5, <2>1, <2>3, <2>4 DEF MergeEntries, Prefix
  <2>6. /\ A \in Seq(Entry) /\ Len(A) = j
        /\ B \in Seq(Entry) /\ Len(B) = Len(entries) - k + 1
    BY <1>1, <1>3, <1>5, <2>2, <2>3, <2>4
  <2>7. ASSUME NEW i \in 1 .. Len(L), L[i].kind = "joint"
        PROVE  Server \ Removable \subseteq L[i].members.voters
    <3>1. Len(L) = j + (Len(entries) - k + 1)
      <4>1. Len(L) = Len(A) + Len(B)
        BY <2>5, <2>6, Concatenated, ZenonT(60)
      <4> QED
        BY <2>6, <4>1
    <3>2. CASE i <= j
      <4>1. i \in 1 .. j
        BY <2>2, <3>1, <3>2
      <4>2. L[i] = n.log[i] /\ i \in 1 .. Len(n.log)
        BY <1>1, <2>2, <2>3, <2>5, <2>6, <4>1
      <4> QED
        BY <2>7, <4>2 DEF KeptLog
    <3>3. CASE ~(i <= j)
      <4>1. PICK x : x = i - j
        OBVIOUS
      <4>2. x \in 1 .. Len(B)
        BY <1>1, <1>3, <2>2, <2>6, <2>7, <3>1, <3>3, <4>1
      <4>3. L[i] = B[x]
        BY <2>2, <2>5, <2>6, <2>7, <3>3, <4>1, <4>2, SMTT(30)
      <4>4. PICK y : y = k + x - 1
        OBVIOUS
      <4>5. B[x] = entries[y] /\ y \in 1 .. Len(entries)
        BY <1>1, <1>3, <1>5, <2>4, <2>6, <4>2, <4>4
      <4> QED
        BY <2>7, <4>3, <4>5 DEF KeptLog
    <3> QED
      BY <3>2, <3>3
  <2> QED
    BY <2>7 DEF KeptLog
<1> QED
  BY <1>4, <1>5

\* A part of a log that keeps the two keeps them,
LEMMA KeptPart ==
  ASSUME NEW L \in Seq(Entry), KeptLog(L), NEW a \in Nat \ {0}, NEW b \in Nat, b <= Len(L)
  PROVE  SubSeq(L, a, b) \in Seq(Entry) /\ KeptLog(SubSeq(L, a, b))
<1>1. Len(L) \in Nat
  OBVIOUS
<1>2. PICK P : P = SubSeq(L, a, b)
  OBVIOUS
<1>3. P \in Seq(Entry) /\ Len(P) = IF a <= b THEN b - a + 1 ELSE 0
  BY <1>1, <1>2
<1>4. ASSUME NEW i \in 1 .. Len(P), P[i].kind = "joint"
      PROVE  Server \ Removable \subseteq P[i].members.voters
  <2>1. PICK x : x = a + i - 1
    OBVIOUS
  <2>2. P[i] = L[x] /\ x \in 1 .. Len(L)
    BY <1>1, <1>2, <1>3, <1>4, <2>1
  <2> QED
    BY <1>4, <2>2 DEF KeptLog
<1> QED
  BY <1>2, <1>3, <1>4 DEF KeptLog

\* and so do two such logs one after the other.
LEMMA KeptConcatenated ==
  ASSUME NEW A \in Seq(Entry), NEW B \in Seq(Entry), KeptLog(A), KeptLog(B), NEW L, L = A \o B
  PROVE  KeptLog(L)
<1>1. Len(A) \in Nat /\ Len(B) \in Nat /\ Len(L) = Len(A) + Len(B)
  BY Concatenated
<1>2. ASSUME NEW i \in 1 .. Len(A) PROVE L[i] = A[i]
  BY <1>2, Concatenated
<1>3. ASSUME NEW i \in 1 .. Len(B) PROVE L[Len(A) + i] = B[i]
  BY <1>3, Concatenated
<1>4. ASSUME NEW i \in 1 .. Len(L), L[i].kind = "joint"
      PROVE  Server \ Removable \subseteq L[i].members.voters
  <2>1. CASE i <= Len(A)
    <3>1. i \in 1 .. Len(A)
      BY <1>1, <1>4, <2>1
    <3> QED
      BY <1>2, <1>4, <3>1 DEF KeptLog
  <2>2. CASE ~(i <= Len(A))
    <3>1. PICK x : x = i - Len(A)
      OBVIOUS
    <3>2. x \in 1 .. Len(B) /\ i = Len(A) + x
      BY <1>1, <1>4, <2>2, <3>1
    <3> QED
      BY <1>3, <1>4, <3>2 DEF KeptLog
  <2> QED
    BY <2>1, <2>2
<1> QED
  BY <1>4 DEF KeptLog

\* What a message carries keeps the permanent servers too.
KeptMessage(m) ==
  /\ m.type = "appendRequest" => KeptLog(m.entries)
  /\ m.type = "snapshotRequest" => Kept(m.conf) /\ KeptLog(m.prefix)

\* CommittedPrefixStable, of one node.
StableStep(n, o) ==
  n.incarnation = o.incarnation =>
    n.commit >= o.commit /\ Prefix(n.log, o.commit) = Prefix(o.log, o.commit)

\* A log with the same committed prefix is as long as that prefix.
LEMMA StableLength ==
  ASSUME NEW n \in Node, NEW o \in Node, o.commit <= Len(o.log),
         Prefix(n.log, o.commit) = Prefix(o.log, o.commit)
  PROVE  o.commit <= Len(n.log)
<1>1. /\ o.commit \in Nat /\ Len(o.log) \in Nat /\ Len(n.log) \in Nat
      /\ o.log \in Seq(Entry) /\ n.log \in Seq(Entry)
  BY Numbers
<1>2. Len(Prefix(o.log, o.commit)) = o.commit
  BY <1>1 DEF Prefix
<1>3. PICK j : j = IF o.commit <= Len(n.log) THEN o.commit ELSE Len(n.log)
  OBVIOUS
<1>4. j \in 0 .. Len(n.log)
  BY <1>1, <1>3
<1>5. Len(SubSeq(n.log, 1, j)) = j
  BY <1>1, <1>4
<1>6. j = o.commit
  BY <1>2, <1>3, <1>5 DEF Prefix
<1> QED
  BY <1>1, <1>4, <1>6

\* A calm step leaves the node sound.
LEMMA CalmSound ==
  ASSUME NEW o \in Node, NEW n \in Node, Uneventful(n, o), Sound(o)
  PROVE  Sound(n)
BY DEF Uneventful, Sound, Ordered

\* A request that matches.
LEMMA AppendSound ==
  ASSUME TypeOK, NEW o \in Node, NEW n \in Node, NEW m \in Message, Sound(o),
         AppendStep(n, o, m), KeptMessage(m), StableStep(n, o)
  PROVE  Sound(n)
<1>1. PICK k \in Node : /\ Following(k, o, m) /\ m.type = "appendRequest"
                        /\ Len(m.entries) >= Overlap(k, m) /\ ~LogMismatch(k, m)
                        /\ n = AppendMatching(k, m)
  BY DEF AppendStep
<1>2. Uneventful(k, o) /\ Sound(k)
  BY <1>1, FollowingFenced, CalmSound DEF Sound
<1>3. PICK v : v = Overlap(k, m)
  OBVIOUS
<1>4. v \in Nat /\ m.prev \in Nat /\ m.commit \in Nat /\ m.entries \in Seq(Entry)
  BY <1>1, <1>3, OverlapType
<1>5. PICK prev : prev = m.prev + v
  OBVIOUS
<1>6. PICK entries : entries = SubSeq(m.entries, v + 1, Len(m.entries))
  OBVIOUS
<1>7. PICK L : L = MergeEntries(k, prev, entries)
  OBVIOUS
<1>8. PICK c : c = IF m.commit < prev + Len(entries) THEN m.commit ELSE prev + Len(entries)
  OBVIOUS
<1>9. PICK d : d = IF c > k.commit THEN c ELSE k.commit
  OBVIOUS
<1>10. n = [k EXCEPT !.log = L, !.commit = d]
  BY <1>1, <1>3, <1>5, <1>6, <1>7, <1>8, <1>9 DEF AppendMatching
<1>11. n.log = L /\ n.commit = d
  BY <1>10 DEF Node
<1>12. /\ Ordered(n) /\ n.conf = k.conf /\ n.base = k.base /\ n.incarnation = k.incarnation
  BY <1>1, <1>2, AppendGuarded DEF Sound
<1>13. /\ k.commit \in Nat /\ Len(k.log) \in Nat /\ k.snap \in Nat /\ k.applied \in Nat
       /\ k.snap <= k.applied /\ k.applied <= k.commit /\ k.commit <= Len(k.log)
  BY <1>2, Numbers DEF Sound, Ordered
<1>14. prev \in Nat /\ prev <= Len(k.log)
  <2>1. CASE v > 0
    <3>1. prev = k.snap
      BY <1>3, <1>4, <1>5, <1>13, <2>1 DEF Overlap
    <3> QED
      BY <1>13, <3>1
  <2>2. CASE ~(v > 0)
    <3>1. prev = m.prev
      BY <1>4, <1>5, <2>2
    <3>2. ~(m.prev > LastIndex(k))
      BY <1>1, <1>3, <2>2 DEF LogMismatch
    <3> QED
      BY <1>4, <1>13, <3>1, <3>2 DEF LastIndex
  <2> QED
    BY <2>1, <2>2
<1>15. Len(m.entries) \in Nat /\ v + 1 \in Nat \ {0}
  BY <1>4
<1>16. entries \in Seq(Entry) /\ KeptLog(entries)
  <2>1. KeptLog(m.entries)
    BY <1>1 DEF KeptMessage
  <2> QED
    BY <1>4, <1>6, <1>15, <2>1, KeptPart
<1>17. L \in Seq(Entry) /\ prev + Len(entries) <= Len(L) /\ KeptLog(L)
  BY <1>2, <1>7, <1>14, <1>16, MergedLength, MergedKept DEF Sound
<1>18. n.commit <= Len(n.log)
  <2>1. Len(entries) \in Nat /\ Len(L) \in Nat
    BY <1>16, <1>17
  <2>2. CASE d = k.commit
    <3>1. Prefix(n.log, o.commit) = Prefix(o.log, o.commit) /\ o.commit = k.commit
      BY <1>2, <1>12 DEF StableStep, Uneventful
    <3>2. o.commit <= Len(n.log)
      BY <3>1, StableLength DEF Sound
    <3> QED
      BY <1>11, <2>2, <3>1, <3>2
  <2>3. CASE d = c
    <3>1. c <= prev + Len(entries) /\ c \in Nat
      BY <1>4, <1>8, <1>14, <2>1
    <3> QED
      BY <1>11, <1>14, <1>17, <2>1, <2>3, <3>1
  <2> QED
    BY <1>9, <2>2, <2>3
<1> QED
  BY <1>2, <1>11, <1>12, <1>17, <1>18 DEF Sound

\* A received snapshot.
LEMMA InstallSound ==
  ASSUME NEW o \in Node, NEW n \in Node, NEW s \in Server, NEW m \in Message, Sound(o),
         InstallStep(n, o, s, m), KeptMessage(m)
  PROVE  Sound(n)
<1>1. PICK k \in Node : /\ Following(k, o, m) /\ m.type = "snapshotRequest"
                        /\ Len(m.prefix) > k.commit /\ n = InstallSnapshot(k, s, m)
  BY DEF InstallStep
<1>2. Sound(k)
  BY <1>1, FollowingFenced, CalmSound DEF Sound
<1>3. /\ Ordered(n) /\ n.commit = Len(m.prefix) /\ n.base = m.conf /\ n.conf = m.conf
      /\ n.log = InstallSnapshotLog(k, m.prefix)
  BY <1>1, InstallGuarded
<1>4. m.prefix \in Seq(Entry) /\ KeptLog(m.prefix) /\ Kept(m.conf)
  BY <1>1 DEF Message, KeptMessage
<1>5. Len(m.prefix) \in Nat /\ k.log \in Seq(Entry) /\ Len(k.log) \in Nat /\ KeptLog(k.log)
  BY <1>2, <1>4, Numbers DEF Sound
<1>6. PICK B : B = SubSeq(k.log, Len(m.prefix) + 1, LastIndex(k))
  OBVIOUS
<1>7. B \in Seq(Entry) /\ KeptLog(B)
  <2>1. Len(m.prefix) + 1 \in Nat \ {0}
    BY <1>5
  <2> QED
    BY <1>5, <1>6, <2>1, KeptPart DEF LastIndex
<1>8. n.log = m.prefix \/ n.log = m.prefix \o B
  BY <1>3, <1>6 DEF InstallSnapshotLog
<1>9. KeptLog(n.log) /\ n.commit <= Len(n.log)
  <2>1. CASE n.log = m.prefix
    BY <1>3, <1>4, <1>5, <2>1
  <2>2. CASE n.log = m.prefix \o B
    <3>1. KeptLog(n.log)
      BY <1>4, <1>7, <2>2, KeptConcatenated
    <3>2. Len(n.log) = Len(m.prefix) + Len(B) /\ Len(B) \in Nat
      BY <1>4, <1>7, <2>2, Concatenated
    <3> QED
      BY <1>3, <1>5, <3>1, <3>2
  <2> QED
    BY <1>8, <2>1, <2>2
<1> QED
  BY <1>3, <1>4, <1>9 DEF Sound

\* RaftNode::new after a crash.
LEMMA RestartSound ==
  ASSUME TwoPermanent, NEW o \in Node, NEW w \in Node, NEW s \in Server, Sound(o),
         Shortened(w, o), NEW n, n = Restart(w, s)
  PROVE  Sound(n)
<1>1. /\ n \in Node /\ Ordered(n) /\ n.log = w.log /\ n.commit = w.snap
      /\ n.base = (IF w.snap > 0 THEN w.base ELSE Launch(s)) /\ n.conf = n.base
  BY RestartFenced
<1>2. Kept(Launch(s))
  <2>1. Launch(s) = [cur |-> [voters |-> Server, learners |-> {}], next |-> NoMembers]
    BY DEF Launch, Stable, TwoPermanent
  <2> QED
    BY <2>1 DEF Kept, Ids, NoMembers
<1>3. /\ o.snap \in Nat /\ o.commit \in Nat /\ o.applied \in Nat /\ Len(o.log) \in Nat
      /\ o.log \in Seq(Entry) /\ w.snap = o.snap
      /\ o.snap <= o.applied /\ o.applied <= o.commit /\ o.commit <= Len(o.log)
      /\ KeptLog(o.log)
  BY Numbers DEF Shortened, Sound, Ordered
<1>4. Kept(n.base)
  BY <1>1, <1>2 DEF Shortened, Sound
<1>5. KeptLog(w.log) /\ o.snap <= Len(w.log)
  <2>1. CASE w.log = o.log
    BY <1>3, <2>1
  <2>2. CASE \E j \in o.snap .. Len(o.log) : w.log = Prefix(o.log, j)
    <3>1. PICK j \in o.snap .. Len(o.log) : w.log = Prefix(o.log, j)
      BY <2>2
    <3>2. j \in Nat /\ j <= Len(o.log) /\ o.snap <= j
      BY <1>3, <3>1
    <3>3. w.log = SubSeq(o.log, 1, j)
      BY <3>1, <3>2 DEF Prefix
    <3>4. KeptLog(w.log)
      BY <1>3, <3>2, <3>3, KeptPart
    <3>5. Len(w.log) = j
      BY <1>3, <3>2, <3>3
    <3> QED
      BY <3>2, <3>4, <3>5
  <2> QED
    BY <2>1, <2>2 DEF Shortened
<1> QED
  BY <1>1, <1>3, <1>4, <1>5 DEF Sound

\* What is sent.
LEMMA ReplicationKept ==
  ASSUME NEW o \in Node, NEW s \in Server, NEW p \in Server, Sound(o)
  PROVE  KeptMessage(ReplicationMessage(o, s, p))
<1>1. PICK ni : ni = IF o.next[p] = 0 THEN 1 ELSE o.next[p]
  OBVIOUS
<1>2. PICK last :
        last = IF ni + MaxBatch - 1 < LastIndex(o) THEN ni + MaxBatch - 1 ELSE LastIndex(o)
  OBVIOUS
<1>3. /\ o.log \in Seq(Entry) /\ Len(o.log) \in Nat /\ o.snap \in Nat /\ KeptLog(o.log)
      /\ Kept(o.base)
  BY Numbers DEF Sound
<1>4. ni \in Nat \ {0}
  <2>1. o.next[p] \in Nat
    BY DEF Node
  <2> QED
    BY <1>1, <2>1
<1>5. last \in Nat /\ last <= Len(o.log)
  <2>1. MaxBatch \in Nat \ {0}
    BY ConstantsAssumption
  <2> QED
    BY <1>2, <1>3, <1>4, <2>1 DEF LastIndex
<1>6. KeptLog(SubSeq(o.log, ni, last))
  BY <1>3, <1>4, <1>5, KeptPart
<1>7. KeptLog(Prefix(o.log, o.snap))
  <2>1. PICK j : j = IF o.snap <= Len(o.log) THEN o.snap ELSE Len(o.log)
    OBVIOUS
  <2>2. j \in Nat /\ j <= Len(o.log) /\ Prefix(o.log, o.snap) = SubSeq(o.log, 1, j)
    BY <1>3, <2>1 DEF Prefix
  <2> QED
    BY <1>3, <2>2, KeptPart
<1>8. PICK m : m = ReplicationMessage(o, s, p)
  OBVIOUS
<1>9. \/ m.type = "snapshotRequest" /\ m.prefix = Prefix(o.log, o.snap) /\ m.conf = o.base
      \/ m.type = "appendRequest" /\ m.entries = SubSeq(o.log, ni, last)
  BY <1>1, <1>2, <1>8 DEF ReplicationMessage
<1> QED
  BY <1>3, <1>6, <1>7, <1>8, <1>9 DEF KeptMessage

-----------------------------------------------------------------------------
(* Leaders elected once.                                                   *)

\* No handler of a leader waits for the end of a loop that has ended.
FirstLed(n) == Led(n) /\ (n.after => Busy(n))

\* The bookkeeping of a leader that has never led.
Fresh(n) == n.match = Zero /\ ~n.finPending /\ ~n.after

\* The elections that s has won.
LedIn(E, s, t) == \E e \in E : e.leader = s /\ e.term = t

\* In E, s has won the elections of two terms.
TwiceIn(E, s) == \E t, u \in Nat : t # u /\ LedIn(E, s, t) /\ LedIn(E, s, u)

\* s has been elected in two terms.
Reelected(s) == TwiceIn(elections, s)

\* A leader has won its term, and its bookkeeping is in order unless it has
\* led before; a server that does not lead never did, or in a term it has left
\* or will not stand in again.
ReignsIn(E, n, s) ==
  IF n.role = "leader"
  THEN LedIn(E, s, n.term) /\ (FirstLed(n) \/ TwiceIn(E, s))
  ELSE \/ Fresh(n)
       \/ \E t \in Nat : LedIn(E, s, t) /\ (t < n.term \/ (t = n.term /\ n.role = "follower"))

\* How a step moves a server in and out of its leaderships.
Succeeds(n, o) ==
  /\ n.term >= o.term
  /\ o.role = "leader" =>
       n.role = "follower" \/ (n.role = "leader" /\ n.term = o.term /\ (FirstLed(o) => FirstLed(n)))
  /\ o.role # "leader" /\ n.role # "leader" =>
       (Fresh(o) => Fresh(n)) /\ (n.term > o.term \/ n.role \in {"follower", o.role})
  /\ o.role # "leader" /\ n.role = "leader" =>
       (Fresh(o) => FirstLed(n)) /\ (n.term > o.term \/ o.role = "candidate")

\* Each form of step is a succession: the proposals of a leader,
LEMMA LeaderStepSucceeds ==
  ASSUME TwoPermanent, NEW o \in Node, NEW n \in Node, NEW s \in Server, Sound(o),
         LeaderStep(n, o, s)
  PROVE  Sound(n) /\ Succeeds(n, o)
<1>1. o.role = "leader" /\ ~Busy(o)
  BY DEF LeaderStep
<1>2. n.role = o.role /\ n.term = o.term /\ n.term >= o.term
  <2>1. PICK k \in Node : Noted(k, o) /\ Proposal(n, k)
    BY LeaderStepProposal
  <2>2. n.role = o.role /\ n.term = o.term
    BY <2>1 DEF Noted, Proposal
  <2>3. o.term \in Nat
    BY Numbers
  <2> QED
    BY <2>2, <2>3
<1>3. ASSUME NEW k \in Node, Sound(k), FirstLed(o) => Led(k) /\ ~k.after, Carries(n, k)
      PROVE  Sound(n) /\ (FirstLed(o) => FirstLed(n))
  BY <1>3 DEF Carries, FirstLed
<1>4. FirstLed(o) => Led(o) /\ ~o.after
  BY <1>1 DEF FirstLed
<1>5. ASSUME NEW p \in Server, NEW i \in 0 .. Len(o.log), NEW k \in Node,
             k = RecordReplicationProgress(o, p, i) \/ k = BackOff(o, p)
      PROVE  Sound(k) /\ (FirstLed(o) => Led(k) /\ ~k.after)
  <2>1. i \in Nat /\ i <= Len(o.log) /\ Len(o.log) \in Nat
    BY <1>5, Numbers
  <2>2. Noted(k, o)
    BY <1>5, <2>1, ProgressRecorded
  <2>3. ASSUME NEW q \in Server PROVE k.match[q] = o.match[q] \/ k.match[q] = i
    BY <1>5, <2>1, <2>3, ProgressRecorded
  <2>4. Sound(k)
    BY <2>2 DEF Noted, Sound, Ordered
  <2>5. ASSUME FirstLed(o) PROVE Led(k) /\ ~k.after
    <3>1. ASSUME NEW q \in Server PROVE k.match[q] <= Len(k.log)
      BY <1>4, <2>1, <2>2, <2>3, <2>5, <3>1 DEF Led, Noted
    <3> QED
      BY <1>4, <2>2, <2>5, <3>1 DEF Led, Noted
  <2> QED
    BY <2>4, <2>5
<1>6. Sound(n) /\ (FirstLed(o) => FirstLed(n))
  <2>1. CASE n = MaybePromotePendingJoiners(o, s)
    BY <1>3, <1>4, <2>1, ChangeCarries
  <2>2. CASE \E kind \in {"noop", "command", "join"}, d \in Members : n = Submit(o, s, kind, d)
    <3>1. PICK kind \in {"noop", "command", "join"}, d \in Members : n = Submit(o, s, kind, d)
      BY <2>2
    <3>2. kind \in Kinds \ {"joint"}
      BY <3>1 DEF Kinds
    <3> QED
      BY <1>3, <1>4, <3>1, <3>2, SubmitCarries
  <2>3. CASE \E p \in Removable, d \in Members :
               d.voters = AllMembers(o.conf).voters \ {p} /\ n = SubmitJointConfiguration(o, s, d)
    BY <1>3, <1>4, <2>3, ChangeCarries
  <2>4. CASE \E p \in Server, i \in 0 .. Len(o.log), k \in Node :
               /\ k = RecordReplicationProgress(o, p, i)
               /\ n = AdvanceThenFinalize(k, s) \/ n = AdvanceCommitIndex(k, s)
    <3>1. PICK p \in Server, i \in 0 .. Len(o.log), k \in Node :
                 /\ k = RecordReplicationProgress(o, p, i)
                 /\ n = AdvanceThenFinalize(k, s) \/ n = AdvanceCommitIndex(k, s)
      BY <2>4
    <3>2. Sound(k) /\ (FirstLed(o) => Led(k) /\ ~k.after)
      BY <1>5, <3>1
    <3>3. Carries(n, k)
      BY <3>1, AdvanceThenFinalizeCarries, AdvanceCarries
    <3> QED
      BY <1>3, <3>2, <3>3
  <2>5. CASE \E p \in Server : n = BackOff(o, p)
    <3>1. 0 \in 0 .. Len(o.log)
      BY Numbers
    <3>2. Sound(n) /\ (FirstLed(o) => Led(n) /\ ~n.after)
      BY <1>5, <2>5, <3>1
    <3> QED
      BY <3>2 DEF FirstLed
  <2> QED
    BY <2>1, <2>2, <2>3, <2>4, <2>5 DEF LeaderStep
<1> QED
  BY <1>1, <1>2, <1>6 DEF Succeeds

\* an election won,
LEMMA CandidateStepSucceeds ==
  ASSUME TwoPermanent, NEW o \in Node, NEW n \in Node, NEW s \in Server, Sound(o),
         CandidateStep(n, o, s)
  PROVE  Sound(n) /\ Succeeds(n, o)
<1>1. PICK k \in Node : /\ o.role # "leader" /\ Uneventful(k, o) /\ k.role = "candidate"
                        /\ k.term = o.term + 1 \/ (o.role = "candidate" /\ k.term = o.term)
                        /\ n = k \/ n = BecomeLeader(k, s)
  BY DEF CandidateStep
<1>2. Sound(k) /\ (Fresh(o) => Fresh(k)) /\ o.term \in Nat
  BY <1>1, CalmSound, Numbers DEF Uneventful, Fresh
<1>3. k.term >= o.term /\ (k.term > o.term \/ o.role = "candidate")
  BY <1>1, <1>2
<1>4. CASE n = k
  BY <1>1, <1>2, <1>3, <1>4 DEF Succeeds
<1>5. CASE n = BecomeLeader(k, s)
  <2>1. Elected(n, k)
    BY <1>5, BecomeLeaderElected
  <2>2. PICK l \in Node : /\ Elected(l, k) /\ l.commit = k.commit /\ l.log = k.log
                          /\ l.finPending = k.finPending /\ l.after = k.after
                          /\ \A p \in Server : l.match[p] \in {0, k.match[p]}
                          /\ n = Submit(l, s, "noop", NoMembers)
    BY <1>5, BecomeLeaderElected
  <2>3. Sound(l)
    BY <1>2, <2>2 DEF Sound, Ordered, Elected
  <2>4. Carries(n, l)
    <3>1. "noop" \in Kinds \ {"joint"}
      BY DEF Kinds
    <3> QED
      BY <2>2, <3>1, SubmitCarries, NoMembersType
  <2>5. ASSUME Fresh(o) PROVE FirstLed(n)
    <3>1. Fresh(k) /\ Len(l.log) \in Nat
      BY <1>2, <2>2, <2>5, Numbers
    <3>2. ASSUME NEW p \in Server PROVE l.match[p] <= Len(l.log)
      BY <2>2, <3>1 DEF Fresh, Zero
    <3>3. Led(l) /\ ~l.after
      BY <2>2, <3>1, <3>2 DEF Led, Fresh
    <3> QED
      BY <2>3, <2>4, <3>3 DEF Carries, FirstLed
  <2>6. n.role = "leader" /\ n.term = k.term
    BY <2>1 DEF Elected
  <2> QED
    BY <1>1, <1>3, <2>3, <2>4, <2>5, <2>6 DEF Succeeds, Carries
<1> QED
  BY <1>1, <1>4, <1>5

\* a calm step,
LEMMA CalmStepSucceeds ==
  ASSUME NEW o \in Node, NEW n \in Node, Sound(o), CalmStep(n, o)
  PROVE  Sound(n) /\ Succeeds(n, o)
<1>1. Sound(n) /\ (Fresh(o) => Fresh(n)) /\ (FirstLed(o) => FirstLed(n))
  BY CalmSound DEF CalmStep, Uneventful, Fresh, FirstLed, Led, Busy
<1> QED
  BY <1>1 DEF CalmStep, Succeeds

\* A server that does not lead proposes nothing while it applies.
LEMMA ApplyFollows ==
  ASSUME NEW n \in Node, NEW s \in Server, Busy(n), Ordered(n), NEW m, m = ApplyCommitted(n, s)
  PROVE  /\ m.role \in {"follower", n.role} /\ m.term = n.term
         /\ n.role # "leader" /\ Fresh(n) => Fresh(m)
<1>1. PICK a : a = ApplyEntry(n, s)
  OBVIOUS
<1>2. PICK i : i = n.applied + 1
  OBVIOUS
<1>3. /\ a \in Node
      /\ \/ PassesOver(a, n, i)
         \/ \E r \in Node : /\ TakesEffect(r, n, s, i)
                            /\ a = r \/ a = MaybeAutoFinalize(r, s)
  BY <1>1, <1>2, ApplyEntryCases
<1>4. ASSUME NEW r \in Node, NEW l, l = MaybeAutoFinalize(r, s)
      PROVE  l.role = r.role /\ l.term = r.term /\ (r.role # "leader" => l = r)
  <2>1. Proposal(l, r)
    BY <1>4, FinalizeIsProposal
  <2>2. ASSUME r.role # "leader" PROVE l = r
    BY <1>4, <2>2 DEF MaybeAutoFinalize, ReadyToFinalize
  <2> QED
    BY <2>1, <2>2 DEF Proposal
<1>5. /\ a.role \in {"follower", n.role} /\ a.term = n.term
      /\ n.role # "leader" /\ Fresh(n) => Fresh(a)
  <2>1. CASE PassesOver(a, n, i)
    BY <2>1 DEF PassesOver, Fresh
  <2>2. ASSUME NEW r \in Node, TakesEffect(r, n, s, i), a = r \/ a = MaybeAutoFinalize(r, s)
        PROVE  /\ a.role \in {"follower", n.role} /\ a.term = n.term
               /\ n.role # "leader" /\ Fresh(n) => Fresh(a)
    <3>1. /\ i \in 1 .. LastIndex(n)
          /\ r = RelinquishAndForget(CompleteAdmission(ChangeConfiguration(n, s, i), s, i), s)
      BY <2>2 DEF TakesEffect
    <3>2. /\ r.role \in {"follower", n.role} /\ r.term = n.term
          /\ ~r.finPending /\ r.after = n.after
          /\ \A p \in Server : r.match[p] \in {0, n.match[p]}
      BY <3>1, ConfigurationApplied
    <3>3. Fresh(n) => Fresh(r)
      <4>1. r.match \in [Server -> Nat]
        BY DEF Node
      <4> QED
        BY <3>2, <4>1 DEF Fresh, Zero
    <3> QED
      BY <1>4, <2>2, <3>2, <3>3
  <2> QED
    BY <1>3, <2>1, <2>2
<1>6. CASE m = a
  BY <1>5, <1>6
<1>7. CASE m = EndOfApply(a, s)
  <2>1. PICK k \in Node : Finished(k, a) /\ (m = k \/ m = MaybeAutoFinalize(k, s))
    BY <1>3, <1>7, EndOfApplyCases
  <2>2. k.role = a.role /\ k.term = a.term /\ (Fresh(a) => Fresh(k))
    BY <2>1 DEF Finished, Fresh
  <2> QED
    BY <1>4, <1>5, <2>1, <2>2
<1> QED
  BY <1>1, <1>6, <1>7 DEF ApplyCommitted

\* a turn of apply_committed,
LEMMA ApplyStepSucceeds ==
  ASSUME TwoPermanent, NEW o \in Node, NEW n \in Node, NEW s \in Server, Sound(o),
         ApplyStep(n, o, s)
  PROVE  Sound(n) /\ Succeeds(n, o)
<1>1. Busy(o) /\ n = ApplyCommitted(o, s) /\ Ordered(o)
  BY DEF ApplyStep, Sound
<1>2. Sound(n) /\ (FirstLed(o) => FirstLed(n))
  BY <1>1, ApplySound DEF FirstLed
<1>3. /\ n.role \in {"follower", o.role} /\ n.term = o.term
      /\ o.role # "leader" /\ Fresh(o) => Fresh(n)
  BY <1>1, ApplyFollows
<1>4. n.term >= o.term
  BY <1>3, Numbers
<1> QED
  BY <1>2, <1>3, <1>4 DEF Succeeds

\* A node that follows, or has just started, and keeps a fresh bookkeeping.
LEMMA FollowerSucceeds ==
  ASSUME NEW o \in Node, NEW n \in Node, n.role = "follower", n.term >= o.term,
         Fresh(o) => Fresh(n)
  PROVE  Succeeds(n, o)
BY DEF Succeeds

\* and all forms together.
LEMMA FormSucceeds ==
  ASSUME TwoPermanent, TypeOK, \A m \in msgs : KeptMessage(m),
         NEW o \in Node, NEW n \in Node, NEW s \in Server,
         Sound(o), Fenced(o), o.moves = 0, StepForm(n, o, s), StableStep(n, o)
  PROVE  Sound(n) /\ Succeeds(n, o)
<1>1. s \notin Joiners /\ ~Joining(o)
  BY DEF TwoPermanent, Joiners, Fenced
<1>2. CASE ApplyStep(n, o, s)
  BY <1>2, ApplyStepSucceeds
<1>3. CASE LeaderStep(n, o, s)
  BY <1>3, LeaderStepSucceeds
<1>4. CASE CandidateStep(n, o, s)
  BY <1>4, CandidateStepSucceeds
<1>5. CASE CalmStep(n, o)
  BY <1>5, CalmStepSucceeds
<1>6. ASSUME NEW m \in msgs, AppendStep(n, o, m) PROVE Sound(n) /\ Succeeds(n, o)
  <2>1. m \in Message /\ KeptMessage(m)
    BY DEF TypeOK
  <2>2. Sound(n)
    BY <1>6, <2>1, AppendSound
  <2>3. PICK k \in Node : /\ Following(k, o, m) /\ m.type = "appendRequest"
                          /\ Len(m.entries) >= Overlap(k, m) /\ n = AppendMatching(k, m)
    BY <1>6 DEF AppendStep
  <2>4. /\ Ordered(k) /\ Uneventful(k, o) /\ k.role = "follower" /\ k.term = m.term
        /\ m.term >= o.term
    BY <2>1, <2>3, FollowingFenced DEF Sound, Following
  <2>5. /\ n.match = k.match /\ n.finPending = k.finPending /\ n.after = k.after
        /\ n.role = k.role /\ n.term = k.term
    BY <2>1, <2>3, <2>4, AppendGuarded
  <2>6. Fresh(o) => Fresh(n)
    BY <2>4, <2>5 DEF Fresh, Uneventful
  <2>7. n.role = "follower" /\ n.term >= o.term
    BY <2>4, <2>5
  <2> QED
    BY <2>2, <2>6, <2>7, FollowerSucceeds
<1>7. ASSUME NEW m \in msgs, InstallStep(n, o, s, m) PROVE Sound(n) /\ Succeeds(n, o)
  <2>1. m \in Message /\ KeptMessage(m)
    BY DEF TypeOK
  <2>2. Sound(n)
    BY <1>7, <2>1, InstallSound
  <2>3. PICK k \in Node : /\ Following(k, o, m) /\ m.type = "snapshotRequest"
                          /\ Len(m.prefix) > k.commit /\ n = InstallSnapshot(k, s, m)
    BY <1>7 DEF InstallStep
  <2>4. /\ Uneventful(k, o) /\ k.role = "follower" /\ k.term = m.term /\ m.term >= o.term
    BY <2>1, <2>3, FollowingFenced DEF Sound, Following
  <2>5. /\ n.match = k.match /\ ~n.finPending /\ n.after = k.after
        /\ n.role = k.role /\ n.term = k.term
    BY <2>1, <2>3, InstallGuarded
  <2>6. Fresh(o) => Fresh(n)
    BY <2>4, <2>5 DEF Fresh, Uneventful
  <2>7. n.role = "follower" /\ n.term >= o.term
    BY <2>4, <2>5
  <2> QED
    BY <2>2, <2>6, <2>7, FollowerSucceeds
<1>8. CASE RestartStep(n, o, s)
  <2>1. PICK w \in Node : Stored(w, o, s) /\ w.term >= o.term /\ n = Restart(w, s)
    BY <1>8 DEF RestartStep
  <2>2. Shortened(w, o)
    BY <1>1, <2>1 DEF Stored
  <2>3. Sound(n)
    BY <2>1, <2>2, RestartSound
  <2>4. /\ n.role = "follower" /\ n.term = w.term /\ n.match = Zero /\ ~n.finPending /\ ~n.after
    BY <2>1, RestartFenced
  <2>5. Fresh(n) /\ n.term >= o.term
    BY <2>1, <2>4 DEF Fresh
  <2> QED
    BY <2>3, <2>4, <2>5, FollowerSucceeds
<1>9. ~JoinStep(n, o, s)
  BY <1>1 DEF JoinStep
<1> QED
  BY <1>2, <1>3, <1>4, <1>5, <1>6, <1>7, <1>8, <1>9 DEF StepForm

\* The history forgets no election and records a new one.
LEMMA ElectionsRecorded ==
  ASSUME TypeOK, NEW s \in Server, NEW n \in Node, NEW ms, Becomes(s, n, ms)
  PROVE  /\ \A p, t : LedIn(elections, p, t) => LedIn(elections', p, t)
         /\ n.role = "leader" /\ node[s].role # "leader" => LedIn(elections', s, n.term)
<1>1. PICK new : new = [term |-> n.term, leader |-> s, moves |-> n.moves,
                        conf |-> EffectiveConfiguration(n),
                        voters |-> VotersFor(s, n.term), log |-> n.log]
  OBVIOUS
<1>2. PICK upd : upd = {IF e.leader = s /\ e.term = n.term THEN [e EXCEPT !.log = n.log] ELSE e :
                          e \in elections}
  OBVIOUS
<1>3. \/ n.role # "leader" /\ elections' = elections
      \/ n.role = "leader" /\ node[s].role = "leader" /\ elections' = upd
      \/ n.role = "leader" /\ node[s].role # "leader" /\ elections' = elections \cup {new}
  BY <1>1, <1>2 DEF Becomes
<1>4. ASSUME NEW e \in elections PROVE \E f \in upd : f.leader = e.leader /\ f.term = e.term
  <2>1. e \in Election
    BY DEF TypeOK
  <2>2. CASE e.leader = s /\ e.term = n.term
    <3>1. [e EXCEPT !.log = n.log] \in upd
      BY <1>2, <2>2
    <3>2. /\ [e EXCEPT !.log = n.log].leader = e.leader
          /\ [e EXCEPT !.log = n.log].term = e.term
      BY <2>1 DEF Election
    <3> QED
      BY <3>1, <3>2
  <2>3. CASE ~(e.leader = s /\ e.term = n.term)
    BY <1>2, <2>3
  <2> QED
    BY <2>2, <2>3
<1>5. ASSUME NEW p, NEW t, LedIn(elections, p, t) PROVE LedIn(elections', p, t)
  BY <1>3, <1>4, <1>5 DEF LedIn
<1>6. ASSUME n.role = "leader", node[s].role # "leader" PROVE LedIn(elections', s, n.term)
  <2>1. new.leader = s /\ new.term = n.term
    BY <1>1
  <2> QED
    BY <1>3, <1>6, <2>1 DEF LedIn
<1> QED
  BY <1>5, <1>6

\* Elections won by others leave the reign of s alone.
LEMMA ReignsStay ==
  ASSUME NEW E, NEW F, \A p, t : LedIn(E, p, t) => LedIn(F, p, t), NEW n, NEW s,
         ReignsIn(E, n, s)
  PROVE  ReignsIn(F, n, s)
<1>1. TwiceIn(E, s) => TwiceIn(F, s)
  BY DEF TwiceIn
<1> QED
  BY <1>1 DEF ReignsIn

\* A succession keeps the reign.
LEMMA ReignsSucceed ==
  ASSUME NEW E, NEW F, \A p, t : LedIn(E, p, t) => LedIn(F, p, t),
         NEW o \in Node, NEW n \in Node, NEW s \in Server,
         ReignsIn(E, o, s), Succeeds(n, o),
         n.role = "leader" /\ o.role # "leader" => LedIn(F, s, n.term)
  PROVE  ReignsIn(F, n, s)
<1>1. o.term \in Nat /\ n.term \in Nat /\ n.term >= o.term
  BY Numbers DEF Succeeds
<1>2. TwiceIn(E, s) => TwiceIn(F, s)
  BY DEF TwiceIn
<1>3. /\ n.role \in {"follower", "candidate", "leader"}
      /\ o.role \in {"follower", "candidate", "leader"}
  BY DEF Node
<1>4. CASE o.role = "leader" /\ n.role = "leader"
  <2>1. n.term = o.term /\ (FirstLed(o) => FirstLed(n))
    BY <1>4 DEF Succeeds
  <2>2. LedIn(E, s, o.term) /\ (FirstLed(o) \/ TwiceIn(E, s))
    BY <1>4 DEF ReignsIn
  <2> QED
    BY <1>2, <1>4, <2>1, <2>2 DEF ReignsIn
<1>5. CASE o.role = "leader" /\ n.role # "leader"
  <2>1. n.role = "follower"
    BY <1>5 DEF Succeeds
  <2>2. LedIn(F, s, o.term)
    BY <1>5 DEF ReignsIn
  <2>3. o.term < n.term \/ o.term = n.term
    BY <1>1
  <2> QED
    BY <1>1, <2>1, <2>2, <2>3 DEF ReignsIn
<1>6. CASE o.role # "leader" /\ n.role # "leader"
  <2>1. (Fresh(o) => Fresh(n)) /\ (n.term > o.term \/ n.role \in {"follower", o.role})
    BY <1>6 DEF Succeeds
  <2>2. CASE Fresh(o)
    BY <1>6, <2>1, <2>2 DEF ReignsIn
  <2>3. CASE ~Fresh(o)
    <3>1. PICK t \in Nat : LedIn(E, s, t) /\ (t < o.term \/ (t = o.term /\ o.role = "follower"))
      BY <1>6, <2>3 DEF ReignsIn
    <3>2. t < n.term \/ (t = n.term /\ n.role = "follower")
      BY <1>1, <2>1, <3>1
    <3> QED
      BY <1>6, <3>1, <3>2 DEF ReignsIn
  <2> QED
    BY <2>2, <2>3
<1>7. CASE o.role # "leader" /\ n.role = "leader"
  <2>1. (Fresh(o) => FirstLed(n)) /\ (n.term > o.term \/ o.role = "candidate")
    BY <1>7 DEF Succeeds
  <2>2. CASE Fresh(o)
    BY <1>7, <2>1, <2>2 DEF ReignsIn
  <2>3. CASE ~Fresh(o)
    <3>1. PICK t \in Nat : LedIn(E, s, t) /\ (t < o.term \/ (t = o.term /\ o.role = "follower"))
      BY <1>7, <2>3 DEF ReignsIn
    <3>2. t # n.term
      BY <1>1, <2>1, <3>1
    <3>3. LedIn(F, s, t) /\ LedIn(F, s, n.term)
      BY <1>7, <3>1
    <3>4. TwiceIn(F, s)
      BY <1>1, <3>2, <3>3 DEF TwiceIn
    <3> QED
      BY <1>7, <3>3, <3>4 DEF ReignsIn
  <2> QED
    BY <2>2, <2>3
<1> QED
  BY <1>4, <1>5, <1>6, <1>7

\* The inductive invariant of the theorem below.
FinalizeInvariant ==
  /\ \A s \in Server : Sound(node[s]) /\ ReignsIn(elections, node[s], s)
  /\ \A m \in msgs : KeptMessage(m)

\* The step of the induction.
LEMMA FinalizeStep ==
  ASSUME TwoPermanent, TypeOK, AdmissionFenced, FoundersStay, FinalizeInvariant, Next,
         \A s \in Server : StableStep(node'[s], node[s])
  PROVE  FinalizeInvariant'
<1>1. PICK s, n, ms : Step(s, n, ms)
  BY NextTaken DEF Taken
<1>2. /\ s \in Server /\ n \in Node /\ Becomes(s, n, ms) /\ StepForm(n, node[s], s)
      /\ Issues(ms, node[s], s) /\ node[s] \in Node
  BY <1>1 DEF Step, TypeOK
<1>3. node'[s] = n /\ \A t \in Server : t # s => node'[t] = node[t]
  BY <1>2, OthersStay
<1>4. Sound(n) /\ Succeeds(n, node[s])
  <2>1. PICK o : o = node[s]
    OBVIOUS
  <2>2. /\ o \in Node /\ Sound(o) /\ Fenced(o) /\ o.moves = 0 /\ StepForm(n, o, s)
        /\ StableStep(n, o)
    BY <1>2, <1>3, <2>1 DEF FinalizeInvariant, AdmissionFenced, FoundersStay, TwoPermanent
  <2>3. \A m \in msgs : KeptMessage(m)
    BY DEF FinalizeInvariant
  <2>4. Sound(n) /\ Succeeds(n, o)
    BY <1>2, <2>2, <2>3, FormSucceeds
  <2> QED
    BY <2>1, <2>4
<1>5. \A p, t : LedIn(elections, p, t) => LedIn(elections', p, t)
  BY <1>2, ElectionsRecorded
<1>6. n.role = "leader" /\ node[s].role # "leader" => LedIn(elections', s, n.term)
  BY <1>2, ElectionsRecorded
<1>7. ReignsIn(elections', n, s)
  <2>1. ReignsIn(elections, node[s], s)
    BY <1>2 DEF FinalizeInvariant
  <2> QED
    BY <1>2, <1>4, <1>5, <1>6, <2>1, ReignsSucceed
<1>8. ASSUME NEW t \in Server PROVE Sound(node'[t]) /\ ReignsIn(elections', node'[t], t)
  <2>1. CASE t = s
    BY <1>3, <1>4, <1>7, <2>1
  <2>2. CASE t # s
    <3>1. Sound(node[t]) /\ ReignsIn(elections, node[t], t)
      BY DEF FinalizeInvariant
    <3>2. ReignsIn(elections', node[t], t)
      BY <1>5, <3>1, ReignsStay
    <3> QED
      BY <1>3, <2>2, <3>1, <3>2
  <2> QED
    BY <2>1, <2>2
<1>9. ASSUME NEW m \in msgs' PROVE KeptMessage(m)
  <2>1. m \in msgs \/ m \in ms
    BY <1>2, <1>9 DEF Becomes
  <2>2. CASE m \in msgs
    BY <2>2 DEF FinalizeInvariant
  <2>3. CASE m \in ms
    <3>1. Sound(node[s])
      BY <1>2 DEF FinalizeInvariant
    <3>2. CASE m.type \in {"appendRequest", "snapshotRequest"}
      <4>1. PICK p \in Server : m = ReplicationMessage(node[s], s, p)
        BY <1>2, <2>3, <3>2 DEF Issues
      <4> QED
        BY <1>2, <3>1, <4>1, ReplicationKept
    <3>3. CASE m.type \notin {"appendRequest", "snapshotRequest"}
      BY <3>3 DEF KeptMessage
    <3> QED
      BY <3>2, <3>3
  <2> QED
    BY <2>1, <2>2, <2>3
<1> QED
  BY <1>8, <1>9 DEF FinalizeInvariant

\* The induction begins.
LEMMA InitFinalize ==
  ASSUME TwoPermanent, Init
  PROVE  FinalizeInvariant
<1>1. ASSUME NEW s \in Server PROVE Sound(node[s]) /\ ReignsIn(elections, node[s], s)
  <2>1. PICK o : o = InitNode(s)
    OBVIOUS
  <2>2. /\ o.snap = 0 /\ o.applied = 0 /\ o.commit = 0 /\ o.log = <<>> /\ o.role = "follower"
        /\ o.match = Zero /\ o.finPending = FALSE /\ o.after = FALSE
        /\ o.conf = Launch(s) /\ o.base = Launch(s)
    BY <2>1 DEF InitNode
  <2>3. Kept(Launch(s))
    <3>1. Launch(s) = [cur |-> [voters |-> Server, learners |-> {}], next |-> NoMembers]
      BY DEF Launch, Stable, TwoPermanent
    <3> QED
      BY <3>1 DEF Kept, Ids, NoMembers
  <2>4. KeptLog(o.log) /\ Len(o.log) = 0
    BY <2>2 DEF KeptLog
  <2>5. Sound(o)
    BY <2>2, <2>3, <2>4 DEF Sound, Ordered
  <2>6. ReignsIn(elections, o, s)
    BY <2>2 DEF ReignsIn, Fresh
  <2> QED
    BY <2>1, <2>5, <2>6 DEF Init
<1> QED
  BY <1>1 DEF FinalizeInvariant, Init

\* The invariant says, for a server elected once, what the run checks.
LEMMA FinalizeFollows ==
  ASSUME TypeOK, FinalizeInvariant, \A s \in Server : ~Reelected(s)
  PROVE  FinalizePendingHasFinalize
<1>1. SUFFICES ASSUME NEW s \in Server, NEW n, n = node[s],
                      n.role = "leader", n.finPending, ~Busy(n)
               PROVE  \E i \in n.commit + 1 .. LastIndex(n) : n.log[i].kind = "finalize"
  BY DEF FinalizePendingHasFinalize
<1>2. n \in Node /\ Sound(n) /\ ReignsIn(elections, n, s)
  BY <1>1 DEF TypeOK, FinalizeInvariant
<1>3. Led(n)
  BY <1>1, <1>2 DEF ReignsIn, Reelected, FirstLed
<1>4. n.applied = n.commit
  BY <1>1, <1>2, Numbers DEF Sound, Ordered, Busy
<1> QED
  BY <1>1, <1>3, <1>4 DEF Led, LastIndex

\* No server has won elections in two terms.
NoneReelected == \A s \in Server : ~Reelected(s)

\* In a cluster of founders two of which are never removed, with any removals,
\* crashes, restarts, compactions and losses, as long as committed entries
\* stay: while no server has led in two terms, every leader whose
\* finalize_configuration_pending is up has the FINALIZE in its log,
\* uncommitted.  A leader elected again may keep the flag from its earlier
\* term, since neither step_down nor become_leader resets it.
THEOREM FinalizeIsPending ==
  ASSUME TwoPermanent
  PROVE  Spec /\ CommittedPrefixStable => [](NoneReelected => FinalizePendingHasFinalize)
<1>1. Init => FinalizeInvariant
  BY InitFinalize
<1>2. /\ TypeOK /\ AdmissionFenced /\ BallotInvariant /\ FinalizeInvariant /\ [Next]_vars
      /\ [\A s \in Server : node'[s].incarnation = node[s].incarnation =>
            /\ node'[s].commit >= node[s].commit
            /\ Prefix(node'[s].log, node[s].commit) = Prefix(node[s].log, node[s].commit)]_vars
      => FinalizeInvariant'
  <2>1. ASSUME TypeOK, AdmissionFenced, BallotInvariant, FinalizeInvariant, UNCHANGED vars
        PROVE  FinalizeInvariant'
    BY <2>1 DEF vars, FinalizeInvariant
  <2>2. ASSUME TypeOK, AdmissionFenced, BallotInvariant, FinalizeInvariant, Next,
               \A s \in Server : node'[s].incarnation = node[s].incarnation =>
                 /\ node'[s].commit >= node[s].commit
                 /\ Prefix(node'[s].log, node[s].commit) = Prefix(node[s].log, node[s].commit)
        PROVE  FinalizeInvariant'
    <3>1. \A s \in Server : StableStep(node'[s], node[s])
      BY <2>2 DEF StableStep
    <3> QED
      BY <2>2, <3>1, FinalizeStep DEF BallotInvariant
  <2> QED
    BY <2>1, <2>2
<1>3. TypeOK /\ FinalizeInvariant => (NoneReelected => FinalizePendingHasFinalize)
  BY FinalizeFollows DEF NoneReelected
<1> QED
  BY <1>1, <1>2, <1>3, TypeCorrect, FenceHolds, BallotsInOrder, PTL
     DEF Spec, CommittedPrefixStable

\* In a cluster of founders of which one may be removed and two others stay,
\* committed entries do stay, so that every leader whose
\* finalize_configuration_pending is up has the FINALIZE in its log,
\* uncommitted, while no server has led in two terms.
THEOREM RemovalFinalizeIsPending ==
  ASSUME TwoPermanent, OneRemovable
  PROVE  Spec => [](NoneReelected => FinalizePendingHasFinalize)
BY FinalizeIsPending, CommittedPrefixNeverChanges, PTL
=============================================================================
