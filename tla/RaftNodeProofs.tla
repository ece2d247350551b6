--------------------------- MODULE RaftNodeProofs ---------------------------
(***************************************************************************)
(* Theorems about RaftNode, for every set of servers, every configuration  *)
(* history and every value of the bounds.                                  *)
(***************************************************************************)
EXTENDS RaftNode, FiniteSetTheorems, WellFoundedInduction, TLAPS

-----------------------------------------------------------------------------
(* Operators on sets and sequences.                                        *)

\* A non-empty set of numbers with an upper bound has its maximum in it.
LEMMA MaxInInterval ==
  ASSUME NEW lo \in Nat, NEW hi \in Nat, NEW S \in SUBSET (lo .. hi), S # {}
  PROVE  Max(S) \in S /\ \A y \in S : y <= Max(S)
<1> DEFINE T == {hi - x : x \in S}
           R == OpToRel(<, Nat)
<1>1. T \subseteq Nat /\ T # {}
  OBVIOUS
<1>2. PICK t \in T : \A y \in T : <<y, t>> \notin R
  <2> HIDE DEF T, R
  <2>1. IsWellFoundedOn(R, Nat)
    BY NatLessThanWellFounded DEF R
  <2> QED
    BY <1>1, <2>1, WFMin
<1>3. \A y \in T : t <= y
  <2> SUFFICES ASSUME NEW y \in T, y < t PROVE FALSE
    BY <1>1
  <2> HIDE DEF T
  <2>1. <<y, t>> \in Nat \X Nat
    BY <1>1
  <2>2. <<y, t>> \in R
    BY <2>1 DEF R, OpToRel
  <2> QED
    BY <1>2, <2>2
<1>4. PICK x \in S : t = hi - x
  OBVIOUS
<1>5. \A y \in S : x >= y
  <2> TAKE y \in S
  <2>1. hi - y \in T
    OBVIOUS
  <2> QED
    BY <1>3, <1>4, <2>1
<1> HIDE DEF T
<1>6. \A y \in S : y \in Nat
  OBVIOUS
<1>7. \E z \in S : \A y \in S : z >= y
  BY <1>5
<1> QED
  BY <1>6, <1>7 DEF Max

\* A non-empty set of numbers has its minimum in it.
LEMMA MinInNat ==
  ASSUME NEW S \in SUBSET Nat, S # {}
  PROVE  Min(S) \in S /\ \A y \in S : y >= Min(S)
<1> DEFINE R == OpToRel(<, Nat)
<1>1. PICK t \in S : \A y \in S : <<y, t>> \notin R
  <2> HIDE DEF R
  <2>1. IsWellFoundedOn(R, Nat)
    BY NatLessThanWellFounded DEF R
  <2> QED
    BY <2>1, WFMin
<1>2. \A y \in S : t <= y
  <2> SUFFICES ASSUME NEW y \in S, y < t PROVE FALSE
    OBVIOUS
  <2>1. <<y, t>> \in Nat \X Nat
    OBVIOUS
  <2>2. <<y, t>> \in R
    BY <2>1 DEF OpToRel
  <2> QED
    BY <1>1, <2>2
<1>3. \A y \in S : y \in Nat
  OBVIOUS
<1> HIDE DEF R
<1> QED
  BY <1>2, <1>3 DEF Min

\* A prefix of a log is a log.
LEMMA PrefixType ==
  ASSUME NEW log \in Seq(Entry), NEW i \in Int
  PROVE  Prefix(log, i) \in Seq(Entry)
BY DEF Prefix

\* LastOfKind is 0 or an index of the log.
LEMMA LastOfKindType ==
  ASSUME NEW n \in Node, NEW kind, NEW i \in Nat
  PROVE  LastOfKind(n, kind, i) \in 0 .. Len(n.log)
<1> DEFINE held == {k \in n.snap + 1 .. LastIndex(n) : k <= i /\ n.log[k].kind = kind}
<1>1. n.snap \in Nat /\ Len(n.log) \in Nat
  BY DEF Node
<1>2. CASE held = {}
  BY <1>1, <1>2 DEF LastOfKind
<1>3. CASE held # {}
  <2>1. held \in SUBSET (n.snap + 1 .. Len(n.log)) /\ n.snap + 1 \in Nat
    BY <1>1 DEF LastIndex
  <2> HIDE DEF held
  <2>2. Max(held) \in held
    BY <1>1, <1>3, <2>1, MaxInInterval
  <2>3. \A k \in held : k \in 0 .. Len(n.log)
    BY <1>1, <2>1
  <2>4. LastOfKind(n, kind, i) = Max(held)
    BY <1>3 DEF LastOfKind, held
  <2> QED
    BY <2>2, <2>3, <2>4
<1> QED
  BY <1>2, <1>3

\* The configuration at an index is a configuration.
LEMMA ConfigurationAtType ==
  ASSUME NEW n \in Node, NEW i \in Nat
  PROVE  ConfigurationAt(n, i) \in Configuration
<1> DEFINE f == LastOfKind(n, "finalize", i)
           j == LastOfKind(n, "joint", i)
           p == LastOfKind(n, "joint", f)
<1>1. f \in 0 .. Len(n.log) /\ j \in 0 .. Len(n.log)
  BY LastOfKindType
<1>2. f \in Nat
  BY <1>1
<1>3. p \in 0 .. Len(n.log)
  BY <1>2, LastOfKindType
<1>4. n.log \in Seq(Entry) /\ n.base \in Configuration
  BY DEF Node
<1>5. \A k \in 1 .. Len(n.log) : n.log[k].members \in Members
  <2> TAKE k \in 1 .. Len(n.log)
  <2>1. n.log[k] \in Entry
    BY <1>4
  <2> QED
    BY <2>1 DEF Entry
<1>6. n.base.cur \in Members /\ n.base.next \in Members /\ NoMembers \in Members
  BY <1>4 DEF Configuration, Members, NoMembers
<1>7. FinalizeTransition(n.base).cur \in Members
  BY <1>4, <1>6 DEF FinalizeTransition, Stable
<1> HIDE DEF f, j, p
<1>8. (IF f = 0 THEN n.base.cur
       ELSE IF p > 0 THEN n.log[p].members
       ELSE FinalizeTransition(n.base).cur) \in Members
  BY <1>1, <1>3, <1>5, <1>6, <1>7
<1>9. (IF j > f THEN n.log[j].members
       ELSE IF f = 0 THEN n.base.next ELSE NoMembers) \in Members
  BY <1>1, <1>2, <1>5, <1>6
<1> QED
  BY <1>8, <1>9 DEF ConfigurationAt, Configuration, f, j, p

\* effective_configuration returns a configuration.
LEMMA EffectiveConfigurationType ==
  ASSUME NEW n \in Node
  PROVE  EffectiveConfiguration(n) \in Configuration
<1>1. LastIndex(n) \in Nat
  BY DEF LastIndex, Node
<1> QED
  BY <1>1, ConfigurationAtType DEF EffectiveConfiguration

\* all_members returns a member map.
LEMMA AllMembersType ==
  ASSUME NEW c \in Configuration
  PROVE  AllMembers(c) \in Members
BY DEF AllMembers, Configuration, Members, Ids

-----------------------------------------------------------------------------
(* What a handler leaves alone.  Most of them neither move the term nor    *)
(* touch the vote, lose ballots rather than gain them, and make no leader. *)

SameBallot(m, n) ==
  /\ m.term = n.term /\ m.votedFor = n.votedFor /\ m.moves = n.moves
  /\ m.granted \subseteq n.granted
  /\ m.role = "leader" => n.role = "leader"

\* Two steps that leave the ballot alone leave it alone together.
LEMMA SameBallotTransitive ==
  ASSUME NEW l, NEW m, NEW n, SameBallot(m, l), SameBallot(n, m)
  PROVE  SameBallot(n, l)
BY DEF SameBallot

\* advance_commit_index moves the commit index and nothing else.
LEMMA AdvanceCommitIndexKeeps ==
  ASSUME NEW n \in Node, NEW s \in Server
  PROVE  /\ AdvanceCommitIndex(n, s) \in Node
         /\ SameBallot(AdvanceCommitIndex(n, s), n)
         /\ AdvanceCommitIndex(n, s).log = n.log
         /\ AdvanceCommitIndex(n, s).snap = n.snap
         /\ AdvanceCommitIndex(n, s).base = n.base
<1> DEFINE able == {i \in n.commit + 1 .. LastIndex(n) : CanCommit(n, s, i)}
<1>1. n.commit \in Nat /\ LastIndex(n) \in Nat
  BY DEF LastIndex, Node
<1>2. CASE able = {}
  BY <1>2 DEF AdvanceCommitIndex, SameBallot
<1>3. CASE able # {}
  <2>1. able \in SUBSET (n.commit + 1 .. LastIndex(n)) /\ n.commit + 1 \in Nat
    BY <1>1
  <2>2. AdvanceCommitIndex(n, s) = [n EXCEPT !.commit = Max(able)]
    BY <1>3 DEF AdvanceCommitIndex
  <2> HIDE DEF able
  <2>3. Max(able) \in able
    BY <1>1, <1>3, <2>1, MaxInInterval
  <2>4. \A k \in able : k \in Nat
    BY <1>1, <2>1
  <2>5. Max(able) \in Nat
    BY <2>3, <2>4
  <2> QED
    BY <2>2, <2>5, ZenonT(60) DEF Node, SameBallot
<1> QED
  BY <1>2, <1>3

\* Appending to the log leaves the ballot alone.
LEMMA AppendEntryKeeps ==
  ASSUME NEW n \in Node, NEW e \in Entry
  PROVE  AppendEntry(n, e) \in Node /\ SameBallot(AppendEntry(n, e), n)
<1>1. Append(n.log, e) \in Seq(Entry)
  BY DEF Node
<1> QED
  BY <1>1 DEF AppendEntry, Node, SameBallot

\* What submit_command appends is an entry.
LEMMA NewEntryType ==
  ASSUME NEW t \in Nat, NEW s \in Server, NEW kind \in Kinds, NEW m \in Members
  PROVE  NewEntry(t, s, kind, m) \in Entry
BY DEF NewEntry, Entry

\* The empty member map is one.
LEMMA NoMembersType == NoMembers \in Members
BY DEF NoMembers, Members

\* submit_command leaves the ballot alone.
LEMMA SubmitKeeps ==
  ASSUME NEW n \in Node, NEW s \in Server, NEW kind \in Kinds, NEW m \in Members
  PROVE  Submit(n, s, kind, m) \in Node /\ SameBallot(Submit(n, s, kind, m), n)
<1> DEFINE a == AppendEntry(n, NewEntry(n.term, s, kind, m))
<1>1. n.term \in Nat
  BY DEF Node
<1>2. a \in Node /\ SameBallot(a, n)
  BY <1>1, NewEntryType, AppendEntryKeeps
<1> HIDE DEF a
<1>3. AdvanceCommitIndex(a, s) \in Node /\ SameBallot(AdvanceCommitIndex(a, s), a)
  BY <1>2, AdvanceCommitIndexKeeps
<1> QED
  BY <1>2, <1>3, SameBallotTransitive DEF Submit, a

\* So does maybe_auto_finalize_joint_configuration.
LEMMA MaybeAutoFinalizeKeeps ==
  ASSUME NEW n \in Node, NEW s \in Server
  PROVE  MaybeAutoFinalize(n, s) \in Node /\ SameBallot(MaybeAutoFinalize(n, s), n)
<1> DEFINE m == Submit(n, s, "finalize", NoMembers)
<1>1. m \in Node /\ SameBallot(m, n)
  BY SubmitKeeps, NoMembersType DEF Kinds
<1> HIDE DEF m
<1>2. /\ [m EXCEPT !.after = TRUE] \in Node /\ SameBallot([m EXCEPT !.after = TRUE], n)
      /\ [m EXCEPT !.finPending = TRUE] \in Node
      /\ SameBallot([m EXCEPT !.finPending = TRUE], n)
  BY <1>1 DEF Node, SameBallot
<1>3. SameBallot(n, n)
  BY DEF SameBallot
<1> QED
  BY <1>2, <1>3 DEF MaybeAutoFinalize, m

\* So do a commitment and the FINALIZE that may follow it.
LEMMA AdvanceThenFinalizeKeeps ==
  ASSUME NEW n \in Node, NEW s \in Server
  PROVE  AdvanceThenFinalize(n, s) \in Node /\ SameBallot(AdvanceThenFinalize(n, s), n)
<1> DEFINE m == AdvanceCommitIndex(n, s)
<1>1. m \in Node /\ SameBallot(m, n)
  BY AdvanceCommitIndexKeeps
<1> HIDE DEF m
<1>2. [m EXCEPT !.tail = TRUE] \in Node /\ SameBallot([m EXCEPT !.tail = TRUE], n)
  BY <1>1 DEF Node, SameBallot
<1>3. MaybeAutoFinalize(m, s) \in Node /\ SameBallot(MaybeAutoFinalize(m, s), n)
  BY <1>1, MaybeAutoFinalizeKeeps, SameBallotTransitive
<1> QED
  BY <1>2, <1>3 DEF AdvanceThenFinalize, m

\* So does the proposal of a JOINT entry, accepted or refused.
LEMMA SubmitJointConfigurationKeeps ==
  ASSUME NEW n \in Node, NEW s \in Server, NEW m \in Members
  PROVE  /\ SubmitJointConfiguration(n, s, m) \in Node
         /\ SameBallot(SubmitJointConfiguration(n, s, m), n)
<1> DEFINE a == AppendEntry(n, NewEntry(n.term, s, "joint", m))
<1>1. n.term \in Nat
  BY DEF Node
<1>2. a \in Node /\ SameBallot(a, n)
  BY <1>1, NewEntryType, AppendEntryKeeps DEF Kinds
<1> HIDE DEF a
<1>3. AdvanceThenFinalize(a, s) \in Node /\ SameBallot(AdvanceThenFinalize(a, s), n)
  BY <1>2, AdvanceThenFinalizeKeeps, SameBallotTransitive
<1>4. SameBallot(n, n)
  BY DEF SameBallot
<1> QED
  BY <1>3, <1>4 DEF SubmitJointConfiguration, a

\* So does the promotion of the joiners that have caught up.
LEMMA MaybePromotePendingJoinersKeeps ==
  ASSUME NEW n \in Node, NEW s \in Server
  PROVE  /\ MaybePromotePendingJoiners(n, s) \in Node
         /\ SameBallot(MaybePromotePendingJoiners(n, s), n)
<1> DEFINE ready == {p \in Server : n.joiners[p] > 0 /\ n.match[p] >= n.joiners[p]}
           old == AllMembers(n.conf)
           new == ready \ Ids(old)
           m == [voters   |-> old.voters \cup (new \ JoinLearners),
                 learners |-> old.learners \cup (new \cap JoinLearners)]
<1>1. old \in Members
  BY AllMembersType DEF Node
<1>2. new \subseteq Server
  OBVIOUS
<1> HIDE DEF old, new
<1>3. m \in Members
  BY <1>1, <1>2 DEF Members
<1> HIDE DEF m
<1>4. /\ SubmitJointConfiguration(n, s, m) \in Node
      /\ SameBallot(SubmitJointConfiguration(n, s, m), n)
  BY <1>3, SubmitJointConfigurationKeeps
<1>5. SameBallot(n, n)
  BY DEF SameBallot
<1>6. \/ MaybePromotePendingJoiners(n, s) = n
      \/ MaybePromotePendingJoiners(n, s) = SubmitJointConfiguration(n, s, m)
  BY DEF MaybePromotePendingJoiners, m, old, new
<1> QED
  BY <1>4, <1>5, <1>6

-----------------------------------------------------------------------------
(* The apply loop.                                                         *)

\* Both ways to write the local snapshot.
LEMMA CompactionKeeps ==
  ASSUME NEW n \in Node, NEW i \in Nat
  PROVE  /\ MaybeCompactLocalSnapshot(n) \in Node
         /\ SameBallot(MaybeCompactLocalSnapshot(n), n)
         /\ SnapshotAdmittedMembership(n, i) \in Node
         /\ SameBallot(SnapshotAdmittedMembership(n, i), n)
<1>1. /\ MaybeCompactLocalSnapshot(n) \in Node
      /\ SameBallot(MaybeCompactLocalSnapshot(n), n)
  BY ZenonT(60) DEF MaybeCompactLocalSnapshot, Node, SameBallot
<1>2. /\ SnapshotAdmittedMembership(n, i) \in Node
      /\ SameBallot(SnapshotAdmittedMembership(n, i), n)
  BY DEF SnapshotAdmittedMembership, Node, SameBallot
<1> QED
  BY <1>1, <1>2

\* Applying a JOINT or FINALIZE entry keeps types and ballot.
LEMMA ChangeConfigurationKeeps ==
  ASSUME NEW n \in Node, NEW s \in Server, NEW i \in 1 .. LastIndex(n)
  PROVE  ChangeConfiguration(n, s, i) \in Node /\ SameBallot(ChangeConfiguration(n, s, i), n)
<1> DEFINE e == n.log[i]
           joint == e.kind = "joint"
           c == IF joint THEN TransitionTo(n.conf, e.members) ELSE FinalizeTransition(n.conf)
           j == [p \in Server |-> IF joint /\ p \in Ids(e.members) THEN 0 ELSE n.joiners[p]]
           f == IF joint THEN Ids(e.members) ELSE {}
           x == IF joint THEN i ELSE 0
           d == ~Contains(c, s)
<1>1. n.log \in Seq(Entry) /\ n.conf \in Configuration /\ n.joiners \in [Server -> Nat]
  BY DEF Node
<1>2. e \in Entry
  BY <1>1 DEF LastIndex
<1>3. e.members \in Members /\ Ids(e.members) \subseteq Server
  BY <1>2 DEF Entry, Members, Ids
<1>4. TransitionTo(n.conf, e.members) \in Configuration
  BY <1>1, <1>3 DEF TransitionTo, Configuration
<1>5. FinalizeTransition(n.conf) \in Configuration
  BY <1>1, NoMembersType DEF FinalizeTransition, Stable, Configuration
<1>6. c \in Configuration
  BY <1>4, <1>5
<1>7. j \in [Server -> Nat]
  BY <1>1
<1>8. f \in SUBSET Server /\ x \in Nat /\ i \in Nat
  BY <1>3 DEF LastIndex
<1>9. d \in BOOLEAN
  OBVIOUS
<1>10. ChangeConfiguration(n, s, i) =
         [n EXCEPT !.applied = i, !.conf = c, !.epoch = i, !.decommissioned = d,
                   !.joiners = j, !.finMembers = f, !.finFence = x, !.finPending = FALSE]
  BY DEF ChangeConfiguration
<1> DEFINE m == [n EXCEPT !.applied = i, !.conf = c, !.epoch = i,
                          !.joiners = j, !.finMembers = f, !.finFence = x, !.finPending = FALSE]
<1> HIDE DEF e, joint, c, j, f, x, d
<1>11. m \in Node /\ SameBallot(m, n)
  BY <1>6, <1>7, <1>8 DEF Node, SameBallot
<1>12. ChangeConfiguration(n, s, i) = [m EXCEPT !.decommissioned = d]
  BY <1>10 DEF Node
<1> HIDE DEF m
<1> QED
  BY <1>9, <1>11, <1>12, ZenonT(60) DEF Node, SameBallot

\* So does the end of an admission.
LEMMA CompleteAdmissionKeeps ==
  ASSUME NEW n \in Node, NEW s \in Server, NEW i \in Nat
  PROVE  CompleteAdmission(n, s, i) \in Node /\ SameBallot(CompleteAdmission(n, s, i), n)
<1> DEFINE a == SnapshotAdmittedMembership(n, i)
           m == [a EXCEPT !.admission = NoAdmission, !.joiningFrom = Nil]
<1>1. a \in Node /\ SameBallot(a, n)
  BY CompactionKeeps
<1> HIDE DEF a
<1>2. m \in Node /\ SameBallot(m, n)
  BY <1>1, ZenonT(60) DEF Node, SameBallot, NoAdmission, OptServer
<1>3. SameBallot(n, n)
  BY DEF SameBallot
<1> QED
  BY <1>2, <1>3 DEF CompleteAdmission, a

\* A removed leader stops leading and keeps its term and vote.
LEMMA RelinquishAndForgetKeeps ==
  ASSUME NEW n \in Node, NEW s \in Server
  PROVE  RelinquishAndForget(n, s) \in Node /\ SameBallot(RelinquishAndForget(n, s), n)
<1> DEFINE x == [p \in Server |-> IF Contains(n.conf, p) THEN n.next[p] ELSE 0]
           y == [p \in Server |-> IF Contains(n.conf, p) THEN n.match[p] ELSE 0]
           m == [n EXCEPT !.next = x, !.match = y]
           r == [m EXCEPT !.role = "follower", !.known = Nil, !.granted = {}]
<1>1. x \in [Server -> Nat] /\ y \in [Server -> Nat]
  BY DEF Node
<1>2. RelinquishAndForget(n, s) = IF IsVoter(n.conf, s) THEN m ELSE r
  BY DEF RelinquishAndForget
<1> HIDE DEF x, y
<1>3. m \in Node /\ SameBallot(m, n)
  BY <1>1 DEF Node, SameBallot
<1> HIDE DEF m
<1>4. r \in Node /\ SameBallot(r, n)
  BY <1>3, ZenonT(60) DEF Node, SameBallot, OptServer
<1> HIDE DEF r
<1> QED
  BY <1>2, <1>3, <1>4

\* apply_configuration_command, from the three parts above.
LEMMA ApplyConfigurationCommandKeeps ==
  ASSUME NEW n \in Node, NEW s \in Server, NEW i \in 1 .. LastIndex(n)
  PROVE  /\ ApplyConfigurationCommand(n, s, i) \in Node
         /\ SameBallot(ApplyConfigurationCommand(n, s, i), n)
<1> DEFINE c == ChangeConfiguration(n, s, i)
           a == CompleteAdmission(c, s, i)
           r == RelinquishAndForget(a, s)
<1>1. i \in Nat
  BY DEF LastIndex
<1>2. c \in Node /\ SameBallot(c, n)
  BY ChangeConfigurationKeeps
<1> HIDE DEF c
<1>3. a \in Node /\ SameBallot(a, n)
  BY <1>1, <1>2, CompleteAdmissionKeeps, SameBallotTransitive
<1> HIDE DEF a
<1>4. r \in Node /\ SameBallot(r, n)
  BY <1>3, RelinquishAndForgetKeeps, SameBallotTransitive
<1> HIDE DEF r
<1>5. MaybeAutoFinalize(r, s) \in Node /\ SameBallot(MaybeAutoFinalize(r, s), n)
  BY <1>4, MaybeAutoFinalizeKeeps, SameBallotTransitive
<1> QED
  BY <1>4, <1>5 DEF ApplyConfigurationCommand, r, a, c

\* One round of the apply loop, for every kind of entry.
LEMMA ApplyEntryKeeps ==
  ASSUME NEW n \in Node, NEW s \in Server
  PROVE  ApplyEntry(n, s) \in Node /\ SameBallot(ApplyEntry(n, s), n)
<1> DEFINE i == n.applied + 1
           skip == [n EXCEPT !.applied = i]
           j == [p \in Server |-> IF p \in Ids(n.log[i].members) THEN i ELSE n.joiners[p]]
<1>1. i \in Nat /\ i > 0 /\ LastIndex(n) \in Nat
  BY SMTT(30) DEF Node, LastIndex
<1>2. skip \in Node /\ SameBallot(skip, n)
  BY <1>1 DEF Node, SameBallot
<1>3. ApplyJoin(n, i) = [n EXCEPT !.applied = i, !.joiners = j]
  BY DEF ApplyJoin
<1>4. j \in [Server -> Nat]
  BY <1>1 DEF Node
<1>5. ApplyJoin(n, i) \in Node /\ SameBallot(ApplyJoin(n, i), n)
  <2> HIDE DEF i, j
  <2>1. [n EXCEPT !.applied = i, !.joiners = j] \in Node
    BY <1>1, <1>4 DEF Node
  <2>2. SameBallot([n EXCEPT !.applied = i, !.joiners = j], n)
    BY DEF Node, SameBallot
  <2> QED
    BY <1>3, <2>1, <2>2
<1>6. ASSUME i <= LastIndex(n)
      PROVE  /\ ApplyConfigurationCommand(n, s, i) \in Node
             /\ SameBallot(ApplyConfigurationCommand(n, s, i), n)
  <2>1. i \in 1 .. LastIndex(n)
    BY <1>1, <1>6
  <2> QED
    BY <2>1, ApplyConfigurationCommandKeeps
<1>7. CASE i > LastIndex(n)
  BY <1>2, <1>7 DEF ApplyEntry
<1>8. CASE ~(i > LastIndex(n))
  <2>1. i <= LastIndex(n)
    BY <1>1, <1>8
  <2>2. \/ ApplyEntry(n, s) = skip
        \/ ApplyEntry(n, s) = ApplyJoin(n, i)
        \/ ApplyEntry(n, s) = ApplyConfigurationCommand(n, s, i)
    BY DEF ApplyEntry
  <2> QED
    BY <1>2, <1>5, <1>6, <2>1, <2>2
<1> QED
  BY <1>7, <1>8

\* What follows the apply loop.
LEMMA EndOfApplyKeeps ==
  ASSUME NEW n \in Node, NEW s \in Server
  PROVE  EndOfApply(n, s) \in Node /\ SameBallot(EndOfApply(n, s), n)
<1> DEFINE c == MaybeCompactLocalSnapshot(n)
           b == c.finPending \/ n.after
           m == [c EXCEPT !.finPending = b, !.after = FALSE, !.tail = FALSE]
<1>1. c \in Node /\ SameBallot(c, n)
  BY CompactionKeeps
<1>2. b \in BOOLEAN
  BY DEF Node
<1>3. EndOfApply(n, s) = IF n.tail THEN MaybeAutoFinalize(m, s) ELSE m
  BY DEF EndOfApply
<1> HIDE DEF c, b
<1>4. m \in Node /\ SameBallot(m, n)
  BY <1>1, <1>2, ZenonT(60) DEF Node, SameBallot
<1> HIDE DEF m
<1>5. MaybeAutoFinalize(m, s) \in Node /\ SameBallot(MaybeAutoFinalize(m, s), n)
  BY <1>4, MaybeAutoFinalizeKeeps, SameBallotTransitive
<1> QED
  BY <1>3, <1>4, <1>5

\* One round of the apply loop neither votes nor campaigns.
LEMMA ApplyCommittedKeeps ==
  ASSUME NEW n \in Node, NEW s \in Server
  PROVE  ApplyCommitted(n, s) \in Node /\ SameBallot(ApplyCommitted(n, s), n)
<1> DEFINE m == ApplyEntry(n, s)
<1>1. m \in Node /\ SameBallot(m, n)
  BY ApplyEntryKeeps
<1> HIDE DEF m
<1>2. EndOfApply(m, s) \in Node /\ SameBallot(EndOfApply(m, s), n)
  BY <1>1, EndOfApplyKeeps, SameBallotTransitive
<1> QED
  BY <1>1, <1>2 DEF ApplyCommitted, m

-----------------------------------------------------------------------------
(* Elections.                                                              *)

\* The configuration in force depends on the store alone.
LEMMA ConfigurationOfStore ==
  ASSUME NEW m, NEW n, NEW i, m.log = n.log, m.snap = n.snap, m.base = n.base
  PROVE  ConfigurationAt(m, i) = ConfigurationAt(n, i)
<1>1. \A kind, k : LastOfKind(m, kind, k) = LastOfKind(n, kind, k)
  BY DEF LastOfKind, LastIndex
<1> QED
  BY <1>1 DEF ConfigurationAt

\* A no-op changes no configuration.
LEMMA NoopKeepsConfiguration ==
  ASSUME NEW n \in Node, NEW e \in Entry, e.kind = "noop"
  PROVE  EffectiveConfiguration(AppendEntry(n, e)) = EffectiveConfiguration(n)
<1> DEFINE m == AppendEntry(n, e)
           L == LastIndex(n)
<1>1. /\ n.log \in Seq(Entry) /\ n.snap \in Nat /\ L \in Nat /\ L = Len(n.log)
      /\ m.snap = n.snap /\ m.base = n.base /\ m.log = Append(n.log, e)
  BY DEF AppendEntry, Node, LastIndex
<1>2. LastIndex(m) = L + 1 /\ m.log[L + 1] = e /\ \A k \in 1 .. L : m.log[k] = n.log[k]
  BY <1>1 DEF LastIndex
<1> HIDE DEF m, L
<1>3. \A kind \in {"joint", "finalize"}, i \in Nat :
         LastOfKind(m, kind, i) = LastOfKind(n, kind, i)
  <2> TAKE kind \in {"joint", "finalize"}, i \in Nat
  <2> DEFINE hm == {k \in m.snap + 1 .. LastIndex(m) : k <= i /\ m.log[k].kind = kind}
             hn == {k \in n.snap + 1 .. LastIndex(n) : k <= i /\ n.log[k].kind = kind}
  <2>1. ASSUME NEW k \in hm PROVE k \in hn
    <3>1. k \in n.snap + 1 .. L + 1 /\ k <= i /\ m.log[k].kind = kind
      BY <1>1, <1>2
    <3>2. k # L + 1
      BY <1>2, <3>1
    <3>3. k \in n.snap + 1 .. L /\ k \in 1 .. L
      BY <1>1, <3>1, <3>2
    <3> QED
      BY <1>2, <3>1, <3>3 DEF L
  <2>2. ASSUME NEW k \in hn PROVE k \in hm
    <3>1. k \in n.snap + 1 .. L /\ k <= i /\ n.log[k].kind = kind
      BY DEF L
    <3>2. k \in 1 .. L /\ k \in m.snap + 1 .. LastIndex(m)
      BY <1>1, <1>2, <3>1
    <3> QED
      BY <1>2, <3>1, <3>2
  <2>3. hm = hn
    BY <2>1, <2>2
  <2> HIDE DEF hm, hn
  <2> QED
    BY <2>3 DEF LastOfKind, hm, hn
<1>4. \A kind : LastOfKind(n, kind, L + 1) = LastOfKind(n, kind, L)
  <2> TAKE kind
  <2>1. {k \in n.snap + 1 .. LastIndex(n) : k <= L + 1 /\ n.log[k].kind = kind}
          = {k \in n.snap + 1 .. LastIndex(n) : k <= L /\ n.log[k].kind = kind}
    BY <1>1 DEF L
  <2> QED
    BY <2>1 DEF LastOfKind
<1> DEFINE f == LastOfKind(n, "finalize", L)
           j == LastOfKind(n, "joint", L)
           p == LastOfKind(n, "joint", f)
<1>5. f \in 0 .. L /\ j \in 0 .. L
  BY <1>1, LastOfKindType
<1>6. f \in Nat
  BY <1>1, <1>5
<1>7. p \in 0 .. L
  BY <1>1, <1>6, LastOfKindType
<1>8. /\ LastOfKind(m, "finalize", L + 1) = f
      /\ LastOfKind(m, "joint", L + 1) = j
      /\ LastOfKind(m, "joint", f) = p
  BY <1>1, <1>3, <1>4, <1>6
<1> HIDE DEF f, j, p
<1>9. (p > 0 => m.log[p] = n.log[p]) /\ (j > f => m.log[j] = n.log[j])
  BY <1>1, <1>2, <1>5, <1>6, <1>7
<1> DEFINE cur(b, log) == IF f = 0 THEN b.cur
                          ELSE IF p > 0 THEN log[p].members ELSE FinalizeTransition(b).cur
           next(b, log) == IF j > f THEN log[j].members
                           ELSE IF f = 0 THEN b.next ELSE NoMembers
           cm == cur(m.base, m.log)
           cn == cur(n.base, n.log)
           nm == next(m.base, m.log)
           nn == next(n.base, n.log)
<1>10. EffectiveConfiguration(m) = [cur |-> cm, next |-> nm]
  BY <1>2, <1>8 DEF EffectiveConfiguration, ConfigurationAt
<1>11. EffectiveConfiguration(n) = [cur |-> cn, next |-> nn]
  BY DEF EffectiveConfiguration, ConfigurationAt, f, j, p, L
<1>12. cm = cn
  BY <1>1, <1>9
<1>13. nm = nn
  BY <1>1, <1>9
<1> HIDE DEF cm, cn, nm, nn
<1>14. EffectiveConfiguration(m) = EffectiveConfiguration(n)
  BY <1>10, <1>11, <1>12, <1>13
<1> QED
  BY <1>14 DEF m

\* step_down enters the given term with no vote.
LEMMA StepDownType ==
  ASSUME NEW n \in Node, NEW t \in Nat
  PROVE  /\ StepDown(n, t) \in Node
         /\ StepDown(n, t).term = t /\ StepDown(n, t).moves = n.moves
         /\ StepDown(n, t).votedFor = Nil
         /\ StepDown(n, t).granted = {} /\ StepDown(n, t).role = "follower"
BY DEF StepDown, Node, OptServer

\* start_election enters the next term with its own vote.
LEMMA CampaignType ==
  ASSUME NEW n \in Node, NEW s \in Server
  PROVE  /\ Campaign(n, s) \in Node
         /\ Campaign(n, s).term = n.term + 1 /\ Campaign(n, s).moves = n.moves
         /\ Campaign(n, s).votedFor = s
         /\ Campaign(n, s).granted = {s} /\ Campaign(n, s).role = "candidate"
<1>1. n.term + 1 \in Nat /\ {s} \in SUBSET Server
  BY DEF Node
<1> QED
  BY <1>1 DEF Campaign, Node, OptServer

\* Becoming leader leaves the ballot and the configuration as they are.
LEMMA BecomeLeaderKeeps ==
  ASSUME NEW n \in Node, NEW s \in Server
  PROVE  /\ BecomeLeader(n, s) \in Node
         /\ BecomeLeader(n, s).term = n.term /\ BecomeLeader(n, s).votedFor = n.votedFor
         /\ BecomeLeader(n, s).moves = n.moves /\ BecomeLeader(n, s).granted = {}
         /\ EffectiveConfiguration(BecomeLeader(n, s)) = EffectiveConfiguration(n)
<1> DEFINE peers == Ids(AllMembers(EffectiveConfiguration(n))) \ {s}
           x == [p \in Server |-> IF p \in peers THEN LastIndex(n) + 1 ELSE n.next[p]]
           y == [p \in Server |-> IF p \in peers THEN 0 ELSE n.match[p]]
           m == [n EXCEPT !.role = "leader", !.known = s, !.granted = {}, !.next = x, !.match = y]
           e == NewEntry(m.term, s, "noop", NoMembers)
           a == AppendEntry(m, e)
<1>1. LastIndex(n) \in Nat
  BY DEF Node, LastIndex
<1>2. x \in [Server -> Nat] /\ y \in [Server -> Nat]
  BY <1>1, SMTT(30) DEF Node
<1>3. BecomeLeader(n, s) = Submit(m, s, "noop", NoMembers)
  BY DEF BecomeLeader
<1> HIDE DEF peers, x, y
<1>4. /\ m \in Node /\ m.term = n.term /\ m.votedFor = n.votedFor /\ m.moves = n.moves
      /\ m.granted = {} /\ m.log = n.log /\ m.snap = n.snap /\ m.base = n.base
  BY <1>2 DEF Node, OptServer
<1> HIDE DEF m
<1>5. e \in Entry /\ e.kind = "noop"
  <2>1. m.term \in Nat
    BY <1>4 DEF Node
  <2> QED
    BY <2>1, NewEntryType, NoMembersType DEF NewEntry, Kinds
<1> HIDE DEF e
<1>6. a \in Node /\ SameBallot(a, m)
  BY <1>4, <1>5, AppendEntryKeeps
<1>7. EffectiveConfiguration(a) = EffectiveConfiguration(m)
  BY <1>4, <1>5, NoopKeepsConfiguration
<1> HIDE DEF a
<1>8. /\ AdvanceCommitIndex(a, s) \in Node
      /\ SameBallot(AdvanceCommitIndex(a, s), a)
      /\ AdvanceCommitIndex(a, s).log = a.log
      /\ AdvanceCommitIndex(a, s).snap = a.snap
      /\ AdvanceCommitIndex(a, s).base = a.base
  BY <1>6, AdvanceCommitIndexKeeps
<1>9. BecomeLeader(n, s) = AdvanceCommitIndex(a, s)
  BY <1>3 DEF Submit, a, e
<1>10. EffectiveConfiguration(BecomeLeader(n, s)) = EffectiveConfiguration(a)
  BY <1>8, <1>9, ConfigurationOfStore DEF EffectiveConfiguration, LastIndex
<1>11. EffectiveConfiguration(m) = EffectiveConfiguration(n)
  BY <1>4, ConfigurationOfStore DEF EffectiveConfiguration, LastIndex
<1> QED
  BY <1>4, <1>6, <1>7, <1>8, <1>9, <1>10, <1>11 DEF SameBallot

\* A new leader had the majorities of its configuration.
LEMMA ElectIfMajorityKeeps ==
  ASSUME NEW n \in Node, NEW s \in Server
  PROVE  LET r == ElectIfMajority(n, s)
         IN  /\ r \in Node
             /\ r.term = n.term /\ r.votedFor = n.votedFor /\ r.moves = n.moves
             /\ r.granted \subseteq n.granted
             /\ r.role = "leader" /\ n.role # "leader" =>
                  HasJointMajority(EffectiveConfiguration(r), n.granted)
<1>1. CASE HasJointMajority(EffectiveConfiguration(n), n.granted)
  BY <1>1, BecomeLeaderKeeps DEF ElectIfMajority
<1>2. CASE ~HasJointMajority(EffectiveConfiguration(n), n.granted)
  BY <1>2 DEF ElectIfMajority
<1> QED
  BY <1>1, <1>2

-----------------------------------------------------------------------------
(* Replication.                                                            *)

\* Accepting a leader never changes a vote of the current term.
LEMMA AcceptLeaderKeeps ==
  ASSUME NEW n \in Node, NEW m \in Message, m.term >= n.term
  PROVE  /\ AcceptLeader(n, m) \in Node
         /\ AcceptLeader(n, m).term = m.term /\ AcceptLeader(n, m).moves = n.moves
         /\ AcceptLeader(n, m).role = "follower"
         /\ AcceptLeader(n, m).granted \subseteq n.granted
         /\ m.term = n.term => AcceptLeader(n, m).votedFor = n.votedFor
         /\ m.term > n.term => AcceptLeader(n, m).granted = {}
<1> DEFINE b == IF m.term > n.term THEN StepDown(n, m.term) ELSE n
           g == IF n.role = "follower" THEN b.granted ELSE {}
           r == [b EXCEPT !.role = "follower", !.known = m.from, !.granted = g]
<1>1. m.term \in Nat /\ m.from \in Server /\ n.term \in Nat
  BY DEF Message, Node
<1>2. AcceptLeader(n, m) = r
  BY DEF AcceptLeader
<1>3. /\ b \in Node /\ b.term = m.term /\ b.moves = n.moves
      /\ b.granted \subseteq n.granted
      /\ m.term = n.term => b.votedFor = n.votedFor
      /\ m.term > n.term => b.granted = {}
  <2>1. CASE m.term > n.term
    BY <1>1, <2>1, StepDownType
  <2>2. CASE m.term = n.term
    BY <1>1, <2>2
  <2> QED
    BY <1>1, <2>1, <2>2
<1> HIDE DEF b
<1>4. g \in SUBSET Server /\ g \subseteq b.granted
  BY <1>3 DEF Node
<1> HIDE DEF g
<1>5. r \in Node
  BY <1>1, <1>3, <1>4 DEF Node, OptServer
<1>6. /\ r.term = b.term /\ r.moves = b.moves /\ r.role = "follower"
      /\ r.votedFor = b.votedFor /\ r.granted = g
  BY <1>3 DEF Node
<1> HIDE DEF r
<1> QED
  BY <1>2, <1>3, <1>4, <1>5, <1>6

\* The log merged with a request is a log.
LEMMA MergeEntriesType ==
  ASSUME NEW n \in Node, NEW prev \in Nat, NEW entries \in Seq(Entry)
  PROVE  MergeEntries(n, prev, entries) \in Seq(Entry)
<1> DEFINE diff == {k \in 1 .. Len(entries) :
                      prev + k > LastIndex(n) \/ TermAt(n, prev + k) # entries[k].term}
           k == FirstDifference(n, prev, entries)
<1>1. n.log \in Seq(Entry) /\ Len(entries) \in Nat
  BY DEF Node
<1>2. k \in 0 .. Len(entries)
  <2>1. CASE diff = {}
    BY <1>1, <2>1 DEF FirstDifference
  <2>2. CASE diff # {}
    <3>1. diff \in SUBSET Nat /\ \A x \in diff : x \in 0 .. Len(entries)
      BY <1>1
    <3>2. k = Min(diff)
      BY <2>2 DEF FirstDifference
    <3> HIDE DEF diff, k
    <3>3. Min(diff) \in diff
      BY <2>2, <3>1, MinInNat
    <3> QED
      BY <3>1, <3>2, <3>3
  <2> QED
    BY <2>1, <2>2
<1> HIDE DEF diff, k
<1>3. CASE k = 0
  BY <1>1, <1>3 DEF MergeEntries, k
<1>4. CASE k # 0
  <2>1. prev + k - 1 \in Int
    BY <1>1, <1>2
  <2>2. Prefix(n.log, prev + k - 1) \in Seq(Entry)
    BY <1>1, <2>1, PrefixType
  <2>3. SubSeq(entries, k, Len(entries)) \in Seq(Entry)
    BY <1>1, <1>2, <1>4
  <2>4. MergeEntries(n, prev, entries) =
          Prefix(n.log, prev + k - 1) \o SubSeq(entries, k, Len(entries))
    BY <1>4 DEF MergeEntries, k
  <2> QED
    BY <2>2, <2>3, <2>4
<1> QED
  BY <1>3, <1>4

\* The fields of a request, and how far it reaches below the snapshot.
LEMMA OverlapType ==
  ASSUME NEW n \in Node, NEW m \in Message, m.type = "appendRequest"
  PROVE  Overlap(n, m) \in Nat /\ m.prev \in Nat /\ m.commit \in Nat /\ m.entries \in Seq(Entry)
<1>1. m.prev \in Nat /\ m.commit \in Nat /\ m.entries \in Seq(Entry)
  BY DEF Message
<1>2. n.snap \in Nat
  BY DEF Node
<1> QED
  BY <1>1, <1>2 DEF Overlap

\* A matching AppendEntries changes log and commit index only.
LEMMA AppendMatchingKeeps ==
  ASSUME NEW n \in Node, NEW m \in Message, m.type = "appendRequest",
         Len(m.entries) >= Overlap(n, m)
  PROVE  AppendMatching(n, m) \in Node /\ SameBallot(AppendMatching(n, m), n)
<1> DEFINE prev == m.prev + Overlap(n, m)
           entries == SubSeq(m.entries, Overlap(n, m) + 1, Len(m.entries))
           last == prev + Len(entries)
           low == IF m.commit < last THEN m.commit ELSE last
           commit == IF low > n.commit THEN low ELSE n.commit
           log == MergeEntries(n, prev, entries)
<1>1. Overlap(n, m) \in Nat /\ m.prev \in Nat /\ m.commit \in Nat /\ m.entries \in Seq(Entry)
  BY OverlapType
<1>2. prev \in Nat
  BY <1>1
<1>3. entries \in Seq(Entry)
  BY <1>1
<1> HIDE DEF prev, entries
<1>4. last \in Nat
  BY <1>2, <1>3
<1> HIDE DEF last
<1>5. commit \in Nat
  BY <1>1, <1>4 DEF Node
<1>6. log \in Seq(Entry)
  BY <1>2, <1>3, MergeEntriesType
<1>7. AppendMatching(n, m) = [n EXCEPT !.log = log, !.commit = commit]
  BY DEF AppendMatching, last, prev, entries
<1> HIDE DEF commit, log
<1> QED
  BY <1>5, <1>6, <1>7, ZenonT(60) DEF Node, SameBallot

\* Bookkeeping of a peer's progress.
LEMMA ProgressKeeps ==
  ASSUME NEW n \in Node, NEW p \in Server, NEW i \in Nat
  PROVE  /\ RecordReplicationProgress(n, p, i) \in Node
         /\ SameBallot(RecordReplicationProgress(n, p, i), n)
         /\ BackOff(n, p) \in Node /\ SameBallot(BackOff(n, p), n)
<1> DEFINE c == IF i > n.match[p] THEN i ELSE n.match[p]
           x == IF n.next[p] > c THEN n.next[p] ELSE c + 1
           y == IF n.next[p] = 0 THEN 0
                ELSE IF n.next[p] - 1 > n.match[p] THEN n.next[p] - 1 ELSE n.match[p] + 1
<1>1. n.match \in [Server -> Nat] /\ n.next \in [Server -> Nat]
  BY DEF Node
<1>2. n.match[p] \in Nat /\ n.next[p] \in Nat
  BY <1>1
<1>3. c \in Nat /\ x \in Nat /\ y \in Nat
  BY <1>2
<1>4. RecordReplicationProgress(n, p, i) = [n EXCEPT !.match[p] = c, !.next[p] = x]
  BY DEF RecordReplicationProgress
<1>5. BackOff(n, p) = [n EXCEPT !.next[p] = y]
  BY DEF BackOff
<1> HIDE DEF c, x, y
<1>6. [n.match EXCEPT ![p] = c] \in [Server -> Nat] /\ [n.next EXCEPT ![p] = x] \in [Server -> Nat]
  BY <1>1, <1>3
<1>7. [n.next EXCEPT ![p] = y] \in [Server -> Nat]
  BY <1>1, <1>3
<1>8. [n EXCEPT !.match[p] = c, !.next[p] = x] \in Node
  BY <1>6 DEF Node
<1>9. [n EXCEPT !.next[p] = y] \in Node
  BY <1>7 DEF Node
<1> QED
  BY <1>4, <1>5, <1>8, <1>9, ZenonT(60) DEF Node, SameBallot

\* A received snapshot keeps types and ballot.
LEMMA InstallSnapshotKeeps ==
  ASSUME NEW n \in Node, NEW s \in Server, NEW m \in Message, m.type = "snapshotRequest"
  PROVE  InstallSnapshot(n, s, m) \in Node /\ SameBallot(InstallSnapshot(n, s, m), n)
<1> DEFINE i == Len(m.prefix)
           here == Contains(m.conf, s)
           log == InstallSnapshotLog(n, m.prefix)
           ep == IF m.epoch = 0 THEN i ELSE m.epoch
           ad == IF here THEN NoAdmission ELSE n.admission
           jf == IF here THEN Nil ELSE n.joiningFrom
           fm == Ids(m.conf.next)
           ff == IF IsJointConsensus(m.conf) THEN i ELSE 0
           dc == ~here
<1>1. m.prefix \in Seq(Entry) /\ m.conf \in Configuration /\ m.epoch \in Nat
  BY DEF Message
<1>2. i \in Nat /\ ep \in Nat /\ ff \in Nat
  BY <1>1
<1>3. log \in Seq(Entry)
  <2>1. n.log \in Seq(Entry) /\ i \in Nat
    BY <1>1 DEF Node
  <2>2. SubSeq(n.log, i + 1, LastIndex(n)) \in Seq(Entry)
    BY <2>1 DEF LastIndex
  <2>3. m.prefix \o SubSeq(n.log, i + 1, LastIndex(n)) \in Seq(Entry)
    BY <1>1, <2>2
  <2> QED
    BY <1>1, <2>3 DEF InstallSnapshotLog
<1>4. /\ ad \in [anchor : OptServer, snap : Nat] /\ jf \in OptServer
      /\ NoAdmission \in [anchor : OptServer, snap : Nat]
  BY DEF Node, NoAdmission, OptServer
<1>5. fm \in SUBSET Server
  BY <1>1 DEF Ids, Configuration, Members
<1>6. dc \in BOOLEAN
  OBVIOUS
<1> DEFINE r == [n EXCEPT !.log = log, !.snap = i, !.commit = i, !.applied = i,
                          !.base = m.conf, !.snapEpoch = m.epoch,
                          !.conf = m.conf, !.epoch = ep,
                          !.admission = ad, !.joiningFrom = jf,
                          !.finMembers = fm, !.finFence = ff, !.finPending = FALSE]
<1>7. InstallSnapshot(n, s, m) =
         [n EXCEPT !.log = log, !.snap = i, !.commit = i, !.applied = i,
                   !.base = m.conf, !.snapEpoch = m.epoch,
                   !.conf = m.conf, !.epoch = ep, !.decommissioned = dc,
                   !.admission = ad, !.joiningFrom = jf,
                   !.finMembers = fm, !.finFence = ff, !.finPending = FALSE]
  BY DEF InstallSnapshot
<1> HIDE DEF i, here, log, ep, ad, jf, fm, ff, dc
<1>8. InstallSnapshot(n, s, m) = [r EXCEPT !.decommissioned = dc]
  BY <1>7 DEF Node
<1>9. r \in Node /\ SameBallot(r, n)
  BY <1>1, <1>2, <1>3, <1>4, <1>5, ZenonT(60) DEF Node, SameBallot
<1> HIDE DEF r
<1> QED
  BY <1>6, <1>8, <1>9, ZenonT(60) DEF Node, SameBallot

\* What a leader sends is a message, and no ballot.
LEMMA ReplicationMessageType ==
  ASSUME NEW n \in Node, NEW s \in Server, NEW p \in Server
  PROVE  /\ ReplicationMessage(n, s, p) \in Message
         /\ ReplicationMessage(n, s, p).type \in {"appendRequest", "snapshotRequest"}
<1> DEFINE ni == IF n.next[p] = 0 THEN 1 ELSE n.next[p]
           last == IF ni + MaxBatch - 1 < LastIndex(n) THEN ni + MaxBatch - 1 ELSE LastIndex(n)
           snapshot == [type |-> "snapshotRequest", from |-> s, to |-> p, term |-> n.term,
                        prefix |-> Prefix(n.log, n.snap), conf |-> n.base,
                        epoch |-> n.snapEpoch]
           append == [type |-> "appendRequest", from |-> s, to |-> p, term |-> n.term,
                      prev |-> ni - 1, prevTerm |-> TermAt(n, ni - 1),
                      entries |-> SubSeq(n.log, ni, last), commit |-> n.commit]
<1>1. /\ n.log \in Seq(Entry) /\ n.snap \in Nat /\ n.term \in Nat /\ n.commit \in Nat
      /\ n.snapEpoch \in Nat /\ n.base \in Configuration /\ n.next[p] \in Nat
  BY DEF Node
<1>2. ni \in Nat /\ ni >= 1 /\ ni - 1 \in Nat
  BY <1>1
<1>3. last \in Int /\ last <= Len(n.log)
  BY <1>1, <1>2, ConstantsAssumption DEF LastIndex
<1> HIDE DEF ni, last
<1>4. SubSeq(n.log, ni, last) \in Seq(Entry)
  BY <1>1, <1>2, <1>3
<1>5. TermAt(n, ni - 1) \in Nat
  <2>1. CASE ni - 1 > 0 /\ ni - 1 <= LastIndex(n)
    <3>1. n.log[ni - 1] \in Entry
      BY <1>1, <1>2, <2>1 DEF LastIndex
    <3>2. n.log[ni - 1].term \in Nat
      BY <3>1 DEF Entry
    <3> QED
      BY <3>2 DEF TermAt
  <2>2. CASE ~(ni - 1 > 0 /\ ni - 1 <= LastIndex(n))
    BY <2>2 DEF TermAt
  <2> QED
    BY <2>1, <2>2
<1>6. Prefix(n.log, n.snap) \in Seq(Entry)
  <2>1. n.snap \in Int
    BY <1>1
  <2> QED
    BY <1>1, <2>1, PrefixType
<1>7. snapshot \in Message /\ snapshot.type = "snapshotRequest"
  BY <1>1, <1>6 DEF Message
<1>8. append \in Message /\ append.type = "appendRequest"
  BY <1>1, <1>2, <1>4, <1>5 DEF Message
<1>9. ReplicationMessage(n, s, p) = snapshot \/ ReplicationMessage(n, s, p) = append
  BY DEF ReplicationMessage, ni, last
<1> HIDE DEF snapshot, append
<1> QED
  BY <1>7, <1>8, <1>9

\* A reply is a message of its type.
LEMMA ReplyType ==
  ASSUME NEW m \in Message, NEW t \in Nat, NEW ok \in BOOLEAN, NEW i \in Nat,
         NEW type \in {"voteResponse", "appendResponse", "snapshotResponse"}
  PROVE  /\ Reply(m, type, t, ok, i) \in Message
         /\ Reply(m, type, t, ok, i).type = type
BY DEF Reply, Message

-----------------------------------------------------------------------------
(* Restart and admission.                                                  *)

\* A freshly launched node has its type.
LEMMA InitNodeType ==
  ASSUME NEW s \in Server
  PROVE  InitNode(s) \in Node
<1>1. Launch(s) \in Configuration
  BY ConstantsAssumption, NoMembersType DEF Launch, Stable, Configuration, Members
<1>2. Zero \in [Server -> Nat]
  BY DEF Zero
<1>3. <<>> \in Seq(Entry)
  OBVIOUS
<1> HIDE DEF Zero
<1> QED
  BY <1>1, <1>2, <1>3 DEF InitNode, Node, OptServer, NoAdmission

\* A restart reads term and vote back, and forgets the ballots it collected.
LEMMA RestartKeeps ==
  ASSUME NEW n \in Node, NEW s \in Server
  PROVE  /\ Restart(n, s) \in Node /\ SameBallot(Restart(n, s), n)
         /\ Restart(n, s).granted = {} /\ Restart(n, s).role = "follower"
<1> DEFINE c == IF n.snap > 0 THEN n.base ELSE Launch(s)
           ad == IF n.snap > 0 /\ n.snap > n.admission.snap /\ Contains(c, s)
                 THEN NoAdmission ELSE n.admission
           ep == IF n.snap > 0 /\ n.snapEpoch = 0 THEN n.snap ELSE n.snapEpoch
           fm == Ids(c.next)
           ff == IF IsJointConsensus(c) THEN n.snap ELSE 0
           i == InitNode(s)
           m == [i EXCEPT
                   !.term = n.term, !.votedFor = n.votedFor, !.admission = ad,
                   !.log = n.log, !.snap = n.snap, !.base = c, !.snapEpoch = n.snapEpoch,
                   !.known = ad.anchor, !.joiningFrom = ad.anchor,
                   !.commit = n.snap, !.applied = n.snap, !.conf = c, !.epoch = ep,
                   !.finMembers = fm, !.finFence = ff,
                   !.incarnation = n.incarnation + 1, !.moves = n.moves]
           d == ~Contains(EffectiveConfiguration(m), s)
<1>1. Launch(s) \in Configuration
  BY ConstantsAssumption, NoMembersType DEF Launch, Stable, Configuration, Members
<1>2. c \in Configuration
  BY <1>1 DEF Node
<1>3. ad \in [anchor : OptServer, snap : Nat] /\ ad.anchor \in OptServer
  BY DEF Node, NoAdmission, OptServer
<1>4. fm \in SUBSET Server
  BY <1>2 DEF Ids, Configuration, Members
<1>5. ep \in Nat /\ ff \in Nat /\ n.incarnation + 1 \in Nat
  BY DEF Node
<1>6. i \in Node /\ i.granted = {} /\ i.role = "follower"
  BY InitNodeType DEF InitNode
<1>7. Restart(n, s) = [m EXCEPT !.decommissioned = d]
  BY DEF Restart
<1>8. d \in BOOLEAN
  OBVIOUS
<1> HIDE DEF c, ad, ep, fm, ff, i, d
<1>9. /\ m \in Node /\ SameBallot(m, n)
      /\ m.granted = {} /\ m.role = "follower"
  BY <1>2, <1>3, <1>4, <1>5, <1>6, ZenonT(60) DEF Node, SameBallot
<1> HIDE DEF m
<1> QED
  BY <1>7, <1>8, <1>9, ZenonT(60) DEF Node, SameBallot

\* The writes of begin_joining, after the first of which the node belongs to
\* another consensus domain.
LEMMA JoiningType ==
  ASSUME NEW n \in Node, NEW a \in Server
  PROVE  /\ WriteAdmission(n, a) \in Node /\ WriteAdmission(n, a).term = n.term
         /\ WriteAdmission(n, a).moves = n.moves + 1
         /\ ResetLog(n) \in Node /\ SameBallot(ResetLog(n), n)
         /\ BeginJoiningNode(n, a) \in Node /\ BeginJoiningNode(n, a).term = n.term
         /\ BeginJoiningNode(n, a).moves = n.moves + 1
         /\ BeginJoiningNode(n, a).granted = {}
         /\ BeginJoiningNode(n, a).role = "follower"
<1>1. ASSUME NEW x \in Node PROVE ResetLog(x) \in Node /\ SameBallot(ResetLog(x), x)
  <2>1. <<>> \in Seq(Entry)
    OBVIOUS
  <2> QED
    BY <2>1 DEF ResetLog, Node, SameBallot
<1> DEFINE w == WriteAdmission(n, a)
           r == ResetLog(w)
<1>2. w \in Node /\ w.term = n.term /\ w.moves = n.moves + 1
  <2>1. [anchor |-> a, snap |-> n.snap] \in [anchor : OptServer, snap : Nat]
    BY DEF Node, OptServer
  <2>2. n.moves + 1 \in Nat
    BY DEF Node
  <2> QED
    BY <2>1, <2>2 DEF WriteAdmission, Node
<1>3. r \in Node /\ r.term = n.term /\ r.moves = n.moves + 1
  <2> HIDE DEF w
  <2> QED
    BY <1>1, <1>2 DEF SameBallot
<1> DEFINE joined(x) ==
        [x EXCEPT
          !.votedFor = Nil, !.role = "follower", !.known = a, !.joiningFrom = a,
          !.granted = {}, !.commit = 0, !.applied = 0, !.epoch = 0, !.next = Zero,
          !.match = Zero, !.joiners = Zero, !.finMembers = {}, !.finFence = 0,
          !.finPending = FALSE, !.incarnation = @ + 1]
<1>4. BeginJoiningNode(n, a) = joined(r)
  BY DEF BeginJoiningNode
<1>5. ASSUME NEW x \in Node
      PROVE  /\ joined(x) \in Node /\ joined(x).term = x.term /\ joined(x).moves = x.moves
             /\ joined(x).granted = {} /\ joined(x).role = "follower"
  <2>1. Zero \in [Server -> Nat]
    BY DEF Zero
  <2>2. x.incarnation \in Nat
    BY DEF Node
  <2>3. x.incarnation + 1 \in Nat
    BY <2>2
  <2> HIDE DEF Zero
  <2>4. joined(x) \in Node
    BY <2>1, <2>3, ZenonT(60) DEF Node, OptServer
  <2> QED
    BY <2>4 DEF Node
<1> HIDE DEF joined, r
<1> QED
  BY <1>1, <1>2, <1>3, <1>4, <1>5

-----------------------------------------------------------------------------
(* Every step either is quiet, that is neither casts nor counts a vote, or *)
(* is one of the three handlers that do.                                   *)

\* The ballot of a node after a quiet step: the same, or none in a later
\* term, or none in another consensus domain.
QuietNode(m, n, s) ==
  \/ SameBallot(m, n)
  \/ m.term > n.term /\ m.moves = n.moves /\ m.granted = {} /\ m.role # "leader"
  \/ m.moves = n.moves + 1 /\ s \in Joiners /\ m.granted = {} /\ m.role # "leader"

Quiet ==
  /\ votes' = votes /\ reads' \subseteq Read
  /\ \E s \in Server, n \in Node, ms \in SUBSET Message :
        /\ Becomes(s, n, ms)
        /\ QuietNode(n, node[s], s)
        /\ \A m \in ms : m.type = "voteResponse" => ~m.success

\* How the lemmas below conclude that a step is quiet.
LEMMA QuietStep ==
  ASSUME TypeOK, NEW s \in Server, NEW n \in Node, NEW ms \in SUBSET Message,
         Becomes(s, n, ms), QuietNode(n, node[s], s), UNCHANGED <<votes, reads>>,
         \A m \in ms : m.type = "voteResponse" => ~m.success
  PROVE  Quiet
BY DEF Quiet, TypeOK

\* The ballot stays as quiet under what leaves it alone.
LEMMA QuietThenSame ==
  ASSUME NEW l \in Node, NEW m \in Node, NEW n \in Node, NEW s,
         QuietNode(m, l, s), SameBallot(n, m)
  PROVE  QuietNode(n, l, s)
BY DEF QuietNode, SameBallot

\* Following a leader clears the ballot only with a later term.
LEMMA AcceptLeaderQuiet ==
  ASSUME NEW n \in Node, NEW m \in Message, NEW s, m.term >= n.term
  PROVE  AcceptLeader(n, m) \in Node /\ QuietNode(AcceptLeader(n, m), n, s)
<1>1. m.term \in Nat /\ n.term \in Nat
  BY DEF Message, Node
<1> QED
  BY <1>1, AcceptLeaderKeeps DEF QuietNode, SameBallot

\* apply_committed, the client's calls and the changes of membership.
LEMMA ApplyQuiet ==
  ASSUME TypeOK, NEW s \in Server, Apply(s)
  PROVE  Quiet
<1>1. node[s] \in Node
  BY DEF TypeOK
<1>2. /\ ApplyCommitted(node[s], s) \in Node
      /\ QuietNode(ApplyCommitted(node[s], s), node[s], s)
  BY <1>1, ApplyCommittedKeeps DEF QuietNode
<1> QED
  BY <1>2, QuietStep DEF Apply

\* handle_client_command is quiet.
LEMMA ClientCommandQuiet ==
  ASSUME TypeOK, NEW s \in Server, ClientCommand(s)
  PROVE  Quiet
<1> DEFINE n == Submit(node[s], s, "command", NoMembers)
<1>1. node[s] \in Node
  BY DEF TypeOK
<1>2. n \in Node /\ QuietNode(n, node[s], s)
  BY <1>1, SubmitKeeps, NoMembersType DEF QuietNode, Kinds
<1> QED
  BY <1>2, QuietStep DEF ClientCommand

\* submit_join is quiet.
LEMMA SubmitJoinQuiet ==
  ASSUME TypeOK, NEW s \in Server, NEW p \in Server, SubmitJoin(s, p)
  PROVE  Quiet
<1> DEFINE peer == IF p \in JoinLearners THEN [voters |-> {}, learners |-> {p}]
                                         ELSE [voters |-> {p}, learners |-> {}]
           n == Submit(node[s], s, "join", peer)
<1>1. node[s] \in Node
  BY DEF TypeOK
<1>2. peer \in Members
  BY DEF Members
<1>3. Becomes(s, n, {}) /\ UNCHANGED <<votes, reads>>
  BY DEF SubmitJoin
<1> HIDE DEF peer
<1>4. n \in Node /\ QuietNode(n, node[s], s)
  BY <1>1, <1>2, SubmitKeeps DEF QuietNode, Kinds
<1> QED
  BY <1>3, <1>4, QuietStep

\* OP_REMOVE_SERVER is quiet.
LEMMA RemoveServerQuiet ==
  ASSUME TypeOK, NEW s \in Server, NEW p, RemoveServer(s, p)
  PROVE  Quiet
<1> DEFINE all == AllMembers(node[s].conf)
           left == [voters |-> all.voters \ {p}, learners |-> all.learners \ {p}]
           n == SubmitJointConfiguration(node[s], s, left)
<1>1. node[s] \in Node
  BY DEF TypeOK
<1>2. all \in Members
  <2>1. node[s].conf \in Configuration
    BY <1>1 DEF Node
  <2> QED
    BY <2>1, AllMembersType
<1>3. Becomes(s, n, {}) /\ UNCHANGED <<votes, reads>>
  BY DEF RemoveServer
<1> HIDE DEF all
<1>4. left \in Members
  BY <1>2 DEF Members
<1> HIDE DEF left
<1>5. n \in Node /\ QuietNode(n, node[s], s)
  BY <1>1, <1>4, SubmitJointConfigurationKeeps DEF QuietNode
<1> QED
  BY <1>3, <1>5, QuietStep

\* begin_read is quiet.
LEMMA BeginReadQuiet ==
  ASSUME TypeOK, NEW s \in Server, BeginRead(s)
  PROVE  Quiet
<1> DEFINE n == Submit(node[s], s, "noop", NoMembers)
           r == [server |-> s, domain |-> node[s].incarnation, term |-> node[s].term,
                 index |-> LastIndex(node[s]) + 1, epoch |-> node[s].epoch,
                 seen |-> Len(committed)]
<1>1. node[s] \in Node /\ committed \in Seq(Entry) /\ reads \subseteq Read
  BY DEF TypeOK
<1>2. n \in Node /\ QuietNode(n, node[s], s)
  BY <1>1, SubmitKeeps, NoMembersType DEF QuietNode, Kinds
<1>3. r \in Read
  <2>1. /\ node[s].incarnation \in Nat /\ node[s].term \in Nat /\ node[s].epoch \in Nat
        /\ node[s].log \in Seq(Entry)
    BY <1>1 DEF Node
  <2>2. Len(node[s].log) \in Nat /\ Len(committed) \in Nat
    BY <1>1, <2>1
  <2>3. LastIndex(node[s]) + 1 \in Nat
    BY <2>2 DEF LastIndex
  <2> QED
    BY <2>1, <2>2, <2>3 DEF Read
<1>4. Becomes(s, n, {}) /\ reads' = reads \cup {r} /\ votes' = votes
  BY DEF BeginRead
<1> QED
  BY <1>1, <1>2, <1>3, <1>4 DEF Quiet

\* begin_joining clears the vote and enters another domain.
LEMMA BeginJoiningQuiet ==
  ASSUME TypeOK, NEW s \in Joiners, NEW a \in Server, BeginJoining(s, a)
  PROVE  Quiet
<1> DEFINE n == BeginJoiningNode(node[s], a)
<1>1. node[s] \in Node /\ s \in Server
  BY DEF TypeOK, Joiners
<1>2. n \in Node /\ QuietNode(n, node[s], s)
  BY <1>1, JoiningType DEF QuietNode
<1>3. Becomes(s, n, {}) /\ UNCHANGED <<votes, reads>>
  BY DEF BeginJoining
<1> QED
  BY <1>1, <1>2, <1>3, QuietStep

\* broadcast_heartbeat sends no ballot.
LEMMA BroadcastHeartbeatQuiet ==
  ASSUME TypeOK, NEW s \in Server, BroadcastHeartbeat(s)
  PROVE  Quiet
<1> DEFINE n == MaybePromotePendingJoiners(node[s], s)
<1>1. node[s] \in Node
  BY DEF TypeOK
<1>2. n \in Node /\ QuietNode(n, node[s], s)
  BY <1>1, MaybePromotePendingJoinersKeeps DEF QuietNode
<1>3. ReplicationPeers(node[s]) \subseteq Server
  <2>1. AllMembers(EffectiveConfiguration(node[s])) \in Members
    BY <1>1, EffectiveConfigurationType, AllMembersType
  <2> QED
    BY <2>1 DEF ReplicationPeers, Ids, Members
<1>4. /\ Heartbeats(s) \in SUBSET Message
      /\ \A m \in Heartbeats(s) : m.type # "voteResponse"
  BY <1>1, <1>3, ReplicationMessageType DEF Heartbeats
<1>5. Becomes(s, n, Heartbeats(s)) /\ UNCHANGED <<votes, reads>>
  BY DEF BroadcastHeartbeat
<1> QED
  BY <1>2, <1>4, <1>5, QuietStep
\* The handlers of messages that carry no vote.
LEMMA HandleAppendEntriesQuiet ==
  ASSUME TypeOK, NEW m \in msgs, HandleAppendEntries(m)
  PROVE  Quiet
<1> DEFINE s == m.to
           o == node[s]
           n == AcceptLeader(o, m)
           answer(t, ok, i) == {Reply(m, "appendResponse", t, ok, i)}
<1>1. m \in Message /\ m.type = "appendRequest" /\ s \in Server /\ UNCHANGED <<votes, reads>>
  BY DEF TypeOK, HandleAppendEntries, Message
<1>2. o \in Node /\ o.term \in Nat /\ o.snap \in Nat
  BY <1>1 DEF TypeOK, Node
<1>3. m.prev \in Nat /\ m.entries \in Seq(Entry) /\ m.term \in Nat
  BY <1>1 DEF Message
<1>4. ASSUME NEW t \in Nat, NEW ok \in BOOLEAN, NEW i \in Nat
      PROVE  /\ answer(t, ok, i) \in SUBSET Message
             /\ \A a \in answer(t, ok, i) : a.type = "voteResponse" => ~a.success
  BY <1>1, ReplyType, SMTT(30)
<1>5. \/ Becomes(s, o, answer(o.term, FALSE, 0))
      \/ /\ m.term >= o.term
         /\ \/ Becomes(s, n, answer(n.term, TRUE, n.snap))
            \/ Becomes(s, n, answer(n.term, FALSE, 0))
            \/ /\ Len(m.entries) >= Overlap(n, m)
               /\ Becomes(s, AppendMatching(n, m), answer(n.term, TRUE, m.prev + Len(m.entries)))
  BY DEF HandleAppendEntries
<1> HIDE DEF s, o, n, answer
<1>6. CASE Becomes(s, o, answer(o.term, FALSE, 0))
  <2>1. QuietNode(o, node[s], s)
    BY DEF QuietNode, SameBallot, o
  <2> QED
    BY <1>1, <1>2, <1>4, <1>6, <2>1, QuietStep
<1>7. CASE m.term >= o.term /\ ~Becomes(s, o, answer(o.term, FALSE, 0))
  <2>1. n \in Node /\ QuietNode(n, o, s)
    BY <1>1, <1>2, <1>7, AcceptLeaderQuiet DEF n
  <2>2. n.term \in Nat /\ n.snap \in Nat
    BY <2>1 DEF Node
  <2>3. QuietNode(n, node[s], s)
    BY <2>1 DEF o
  <2>4. CASE Becomes(s, n, answer(n.term, TRUE, n.snap))
    BY <1>1, <1>4, <2>1, <2>2, <2>3, <2>4, QuietStep
  <2>5. CASE Becomes(s, n, answer(n.term, FALSE, 0))
    BY <1>1, <1>4, <2>1, <2>2, <2>3, <2>5, QuietStep
  <2>6. CASE /\ Len(m.entries) >= Overlap(n, m)
             /\ Becomes(s, AppendMatching(n, m), answer(n.term, TRUE, m.prev + Len(m.entries)))
    <3>1. AppendMatching(n, m) \in Node /\ SameBallot(AppendMatching(n, m), n)
      BY <1>1, <2>1, <2>6, AppendMatchingKeeps
    <3>2. QuietNode(AppendMatching(n, m), node[s], s)
      <4>1. node[s] \in Node
        BY <1>2 DEF o
      <4> QED
        BY <2>1, <2>3, <3>1, <4>1, QuietThenSame
    <3>3. m.prev + Len(m.entries) \in Nat
      BY <1>3
    <3> QED
      BY <1>1, <1>4, <2>2, <2>6, <3>1, <3>2, <3>3, QuietStep
  <2> QED
    BY <1>5, <1>7, <2>4, <2>5, <2>6
<1> QED
  BY <1>5, <1>6, <1>7

\* What a leader or candidate does with a later term.
LEMMA StepDownQuiet ==
  ASSUME NEW n \in Node, NEW t \in Nat, t > n.term, NEW s
  PROVE  StepDown(n, t) \in Node /\ QuietNode(StepDown(n, t), n, s)
BY StepDownType DEF QuietNode

\* handle_append_entries_response is quiet.
LEMMA HandleAppendEntriesResponseQuiet ==
  ASSUME TypeOK, NEW m \in msgs, HandleAppendEntriesResponse(m)
  PROVE  Quiet
<1> DEFINE s == m.to
           n == node[s]
           p == m.from
           q == RecordReplicationProgress(n, p, m.match)
<1>1. m \in Message /\ m.type = "appendResponse" /\ s \in Server /\ UNCHANGED <<votes, reads>>
  BY DEF TypeOK, HandleAppendEntriesResponse, Message
<1>2. n \in Node /\ p \in Server /\ m.match \in Nat /\ m.term \in Nat
  BY <1>1 DEF TypeOK, Message
<1>3. \/ m.term > n.term /\ Becomes(s, StepDown(n, m.term), {})
      \/ Becomes(s, AdvanceThenFinalize(q, s), {})
      \/ Becomes(s, BackOff(n, p), {})
  BY DEF HandleAppendEntriesResponse
<1> HIDE DEF p
<1>4. q \in Node /\ SameBallot(q, n) /\ BackOff(n, p) \in Node /\ SameBallot(BackOff(n, p), n)
  BY <1>2, ProgressKeeps
<1> HIDE DEF q
<1>5. AdvanceThenFinalize(q, s) \in Node /\ SameBallot(AdvanceThenFinalize(q, s), n)
  BY <1>1, <1>4, AdvanceThenFinalizeKeeps, SameBallotTransitive
<1>6. CASE m.term > n.term /\ Becomes(s, StepDown(n, m.term), {})
  <2>1. StepDown(n, m.term) \in Node /\ QuietNode(StepDown(n, m.term), n, s)
    BY <1>2, <1>6, StepDownQuiet
  <2> QED
    BY <1>1, <1>6, <2>1, QuietStep
<1>7. CASE Becomes(s, AdvanceThenFinalize(q, s), {})
  <2>1. QuietNode(AdvanceThenFinalize(q, s), n, s)
    BY <1>5 DEF QuietNode
  <2> QED
    BY <1>1, <1>5, <1>7, <2>1, QuietStep
<1>8. CASE Becomes(s, BackOff(n, p), {})
  <2>1. QuietNode(BackOff(n, p), n, s)
    BY <1>4 DEF QuietNode
  <2> QED
    BY <1>1, <1>4, <1>8, <2>1, QuietStep
<1> QED
  BY <1>3, <1>6, <1>7, <1>8

\* handle_install_snapshot is quiet.
LEMMA HandleInstallSnapshotQuiet ==
  ASSUME TypeOK, NEW m \in msgs, HandleInstallSnapshot(m)
  PROVE  Quiet
<1> DEFINE s == m.to
           o == node[s]
           n == AcceptLeader(o, m)
           i == Len(m.prefix)
           answer(t, ok) == {Reply(m, "snapshotResponse", t, ok, i)}
<1>1. m \in Message /\ m.type = "snapshotRequest" /\ s \in Server /\ UNCHANGED <<votes, reads>>
  BY DEF TypeOK, HandleInstallSnapshot, Message
<1>2. o \in Node /\ o.term \in Nat
  BY <1>1 DEF TypeOK, Node
<1>3. i \in Nat
  BY <1>1 DEF Message
<1>4. \/ Becomes(s, o, answer(o.term, FALSE))
      \/ /\ m.term >= o.term
         /\ \/ Becomes(s, n, answer(n.term, TRUE))
            \/ Becomes(s, InstallSnapshot(n, s, m), answer(n.term, TRUE))
  BY DEF HandleInstallSnapshot
<1> HIDE DEF i
<1>5. ASSUME NEW t \in Nat, NEW ok \in BOOLEAN
      PROVE  /\ answer(t, ok) \in SUBSET Message
             /\ \A a \in answer(t, ok) : a.type = "voteResponse" => ~a.success
  BY <1>1, <1>3, ReplyType, SMTT(30)
<1> HIDE DEF s, o, n, answer
<1>6. CASE Becomes(s, o, answer(o.term, FALSE))
  <2>1. QuietNode(o, node[s], s)
    BY DEF QuietNode, SameBallot, o
  <2> QED
    BY <1>1, <1>2, <1>5, <1>6, <2>1, QuietStep
<1>7. CASE m.term >= o.term /\ ~Becomes(s, o, answer(o.term, FALSE))
  <2>1. n \in Node /\ QuietNode(n, o, s)
    BY <1>1, <1>2, <1>7, AcceptLeaderQuiet DEF n
  <2>2. n.term \in Nat
    BY <2>1 DEF Node
  <2>3. QuietNode(n, node[s], s) /\ node[s] \in Node
    BY <1>2, <2>1 DEF o
  <2>4. CASE Becomes(s, n, answer(n.term, TRUE))
    BY <1>1, <1>5, <2>1, <2>2, <2>3, <2>4, QuietStep
  <2>5. CASE Becomes(s, InstallSnapshot(n, s, m), answer(n.term, TRUE))
    <3>1. InstallSnapshot(n, s, m) \in Node /\ SameBallot(InstallSnapshot(n, s, m), n)
      BY <1>1, <2>1, InstallSnapshotKeeps
    <3>2. QuietNode(InstallSnapshot(n, s, m), node[s], s)
      BY <2>1, <2>3, <3>1, QuietThenSame
    <3> QED
      BY <1>1, <1>5, <2>2, <2>5, <3>1, <3>2, QuietStep
  <2> QED
    BY <1>4, <1>7, <2>4, <2>5
<1> QED
  BY <1>4, <1>6, <1>7

\* handle_install_snapshot_response is quiet.
LEMMA HandleInstallSnapshotResponseQuiet ==
  ASSUME TypeOK, NEW m \in msgs, HandleInstallSnapshotResponse(m)
  PROVE  Quiet
<1> DEFINE s == m.to
           n == node[s]
           q == RecordReplicationProgress(n, m.from, m.match)
<1>1. m \in Message /\ m.type = "snapshotResponse" /\ s \in Server /\ UNCHANGED <<votes, reads>>
  BY DEF TypeOK, HandleInstallSnapshotResponse, Message
<1>2. n \in Node /\ m.from \in Server /\ m.match \in Nat /\ m.term \in Nat
  BY <1>1 DEF TypeOK, Message
<1>3. \/ m.term > n.term /\ Becomes(s, StepDown(n, m.term), {})
      \/ Becomes(s, AdvanceCommitIndex(q, s), {})
  BY DEF HandleInstallSnapshotResponse
<1>4. q \in Node /\ SameBallot(q, n)
  BY <1>2, ProgressKeeps
<1> HIDE DEF q
<1>5. AdvanceCommitIndex(q, s) \in Node /\ SameBallot(AdvanceCommitIndex(q, s), n)
  BY <1>1, <1>4, AdvanceCommitIndexKeeps, SameBallotTransitive
<1>6. CASE m.term > n.term /\ Becomes(s, StepDown(n, m.term), {})
  <2>1. StepDown(n, m.term) \in Node /\ QuietNode(StepDown(n, m.term), n, s)
    BY <1>2, <1>6, StepDownQuiet
  <2> QED
    BY <1>1, <1>6, <2>1, QuietStep
<1>7. CASE Becomes(s, AdvanceCommitIndex(q, s), {})
  <2>1. QuietNode(AdvanceCommitIndex(q, s), n, s)
    BY <1>5 DEF QuietNode
  <2> QED
    BY <1>1, <1>5, <1>7, <2>1, QuietStep
<1> QED
  BY <1>3, <1>6, <1>7

-----------------------------------------------------------------------------
(* A crash: whatever was written of the handler, the restarted node has    *)
(* counted no vote.                                                        *)

\* What the durable writes before a crash may do to the ballot.
Written(n, o, s) ==
  \/ n.term = o.term /\ n.votedFor = o.votedFor /\ n.moves = o.moves
  \/ n.term > o.term /\ n.moves = o.moves
  \/ n.moves = o.moves + 1 /\ s \in Joiners

\* RaftNode::new over such writes is quiet.
LEMMA CrashIntoQuiet ==
  ASSUME TypeOK, NEW s \in Server, NEW n \in Node, Written(n, node[s], s), CrashInto(s, n)
  PROVE  Quiet
<1> DEFINE r == Restart(n, s)
<1>1. /\ r \in Node /\ SameBallot(r, n) /\ r.granted = {} /\ r.role = "follower"
  BY RestartKeeps
<1>2. Becomes(s, r, {}) /\ UNCHANGED <<votes, reads>>
  BY DEF CrashInto
<1> HIDE DEF r
<1>3. QuietNode(r, node[s], s)
  BY <1>1 DEF QuietNode, SameBallot, Written
<1> QED
  BY <1>1, <1>2, <1>3, QuietStep

\* A crash between handlers.
LEMMA CrashQuiet ==
  ASSUME TypeOK, NEW s \in Server, Crash(s)
  PROVE  Quiet
<1>1. node[s] \in Node /\ CrashInto(s, node[s]) /\ Written(node[s], node[s], s)
  BY DEF TypeOK, Crash, Written
<1> QED
  BY <1>1, CrashIntoQuiet

\* A crash between the writes of term and vote.
LEMMA CrashAfterTermQuiet ==
  ASSUME TypeOK, NEW s \in Server, CrashAfterTerm(s)
  PROVE  Quiet
<1> DEFINE at(t) == [node[s] EXCEPT !.term = t]
<1>1. node[s] \in Node /\ node[s].term \in Nat /\ node[s].term + 1 \in Nat
  <2>1. node[s] \in Node
    BY DEF TypeOK
  <2>2. node[s].term \in Nat
    BY <2>1 DEF Node
  <2> QED
    BY <2>1, <2>2
<1>2. ASSUME NEW t \in Nat, t > node[s].term, CrashInto(s, at(t)) PROVE Quiet
  <2>1. at(t) \in Node /\ at(t).term = t /\ at(t).moves = node[s].moves
    BY <1>1 DEF Node
  <2>2. Written(at(t), node[s], s)
    BY <1>2, <2>1 DEF Written
  <2> HIDE DEF at
  <2> QED
    BY <1>2, <2>1, <2>2, CrashIntoQuiet
<1>3. CASE \E m \in msgs : m.term > node[s].term /\ CrashInto(s, at(m.term))
  <2>1. PICK m \in msgs : m.term > node[s].term /\ CrashInto(s, at(m.term))
    BY <1>3
  <2>2. m.term \in Nat
    BY DEF TypeOK, Message
  <2> HIDE DEF at
  <2> QED
    BY <1>2, <2>1, <2>2
<1>4. CASE CrashInto(s, at(node[s].term + 1))
  <2>1. node[s].term + 1 > node[s].term
    BY <1>1
  <2> HIDE DEF at
  <2> QED
    BY <1>1, <1>2, <1>4, <2>1
<1> QED
  BY <1>3, <1>4 DEF CrashAfterTerm

\* A crash between truncation and append.
LEMMA CrashAfterTruncateQuiet ==
  ASSUME TypeOK, NEW m \in msgs, CrashAfterTruncate(m)
  PROVE  Quiet
<1> DEFINE s == m.to
           o == node[s]
           n == AcceptLeader(o, m)
           k == Overlap(n, m)
           d == FirstDifference(n, m.prev + k, SubSeq(m.entries, k + 1, Len(m.entries)))
           i == m.prev + k + d - 1
           w == [n EXCEPT !.log = Prefix(@, i)]
<1>1. /\ m \in Message /\ m.type = "appendRequest" /\ s \in Server
      /\ m.term >= o.term /\ Len(m.entries) >= k /\ CrashInto(s, w)
  BY DEF TypeOK, CrashAfterTruncate, Message
<1>2. o \in Node
  BY <1>1 DEF TypeOK
<1>3. n \in Node /\ QuietNode(n, o, s)
  BY <1>1, <1>2, AcceptLeaderQuiet
<1>4. i \in Int
  <2> HIDE DEF n, o, s
  <2>1. k \in Nat /\ m.prev \in Nat /\ m.entries \in Seq(Entry)
    BY <1>1, <1>3, OverlapType
  <2>2. SubSeq(m.entries, k + 1, Len(m.entries)) \in Seq(Entry)
    BY <2>1
  <2>3. d \in Nat
    <3> DEFINE e == SubSeq(m.entries, k + 1, Len(m.entries))
               D == {x \in 1 .. Len(e) : \/ m.prev + k + x > LastIndex(n)
                                         \/ TermAt(n, m.prev + k + x) # e[x].term}
    <3>1. Len(e) \in Nat
      BY <2>2
    <3>2. D \in SUBSET Nat
      BY <3>1
    <3>3. d = IF D = {} THEN 0 ELSE Min(D)
      BY DEF FirstDifference
    <3> HIDE DEF D, d
    <3> QED
      BY <3>2, <3>3, MinInNat
  <2> HIDE DEF k, d
  <2> QED
    BY <2>1, <2>3
<1> HIDE DEF i, n, o, s
<1>5. w \in Node /\ w.term = n.term /\ w.votedFor = n.votedFor /\ w.moves = n.moves
  <2>1. n.log \in Seq(Entry)
    BY <1>3 DEF Node
  <2>2. Prefix(n.log, i) \in Seq(Entry)
    BY <1>4, <2>1, PrefixType
  <2> QED
    BY <1>3, <2>2 DEF Node
<1> HIDE DEF w
<1>6. Written(w, node[s], s)
  BY <1>3, <1>5 DEF Written, QuietNode, SameBallot, o
<1> QED
  BY <1>1, <1>5, <1>6, CrashIntoQuiet

\* A crash inside begin_joining.
LEMMA CrashJoiningQuiet ==
  ASSUME TypeOK, NEW s \in Joiners, NEW a \in Server, CrashAfterFence(s, a) \/ CrashAfterReset(s, a)
  PROVE  Quiet
<1> DEFINE w == WriteAdmission(node[s], a)
           r == ResetLog(w)
<1>1. s \in Server /\ node[s] \in Node
  BY DEF TypeOK, Joiners
<1>2. w \in Node /\ w.moves = node[s].moves + 1
  BY <1>1, JoiningType
<1>3. CrashInto(s, w) \/ CrashInto(s, r)
  BY DEF CrashAfterFence, CrashAfterReset
<1> HIDE DEF w
<1>4. r \in Node /\ SameBallot(r, w)
  BY <1>2, JoiningType
<1> HIDE DEF r
<1>5. Written(w, node[s], s) /\ Written(r, node[s], s)
  BY <1>2, <1>4 DEF Written, SameBallot
<1> QED
  BY <1>1, <1>2, <1>3, <1>4, <1>5, CrashIntoQuiet

\* A crash after the membership snapshot of an admission.
LEMMA CrashAdmittingQuiet ==
  ASSUME TypeOK, NEW s \in Server, CrashAdmitting(s)
  PROVE  Quiet
<1> DEFINE i == node[s].applied + 1
           n == ChangeConfiguration(node[s], s, i)
           w == SnapshotAdmittedMembership(n, i)
<1>1. node[s] \in Node /\ i <= LastIndex(node[s]) /\ CrashInto(s, w)
  BY DEF TypeOK, CrashAdmitting
<1>2. i \in 1 .. LastIndex(node[s]) /\ i \in Nat
  <2>1. node[s].applied \in Nat /\ node[s].log \in Seq(Entry)
    BY <1>1 DEF Node
  <2>2. LastIndex(node[s]) \in Nat
    BY <2>1 DEF LastIndex
  <2> QED
    BY <1>1, <2>1, <2>2
<1> HIDE DEF i
<1>3. n \in Node /\ SameBallot(n, node[s])
  BY <1>1, <1>2, ChangeConfigurationKeeps
<1> HIDE DEF n
<1>4. w \in Node /\ SameBallot(w, n)
  BY <1>2, <1>3, CompactionKeeps
<1> HIDE DEF w
<1>5. Written(w, node[s], s)
  BY <1>3, <1>4 DEF Written, SameBallot
<1> QED
  BY <1>1, <1>4, <1>5, CrashIntoQuiet

\* A crash after a received snapshot was written.
LEMMA CrashInstallingQuiet ==
  ASSUME TypeOK, NEW m \in msgs, CrashInstalling(m)
  PROVE  Quiet
<1> DEFINE s == m.to
           o == node[s]
           n == AcceptLeader(o, m)
           i == InstallSnapshot(n, s, m)
           w == [i EXCEPT !.admission = n.admission]
<1>1. /\ m \in Message /\ m.type = "snapshotRequest" /\ s \in Server
      /\ m.term >= o.term /\ CrashInto(s, w)
  BY DEF TypeOK, CrashInstalling, Message
<1>2. o \in Node
  BY <1>1 DEF TypeOK
<1>3. n \in Node /\ QuietNode(n, o, s)
  BY <1>1, <1>2, AcceptLeaderQuiet
<1> HIDE DEF n, o, s
<1>4. i \in Node /\ SameBallot(i, n)
  BY <1>1, <1>3, InstallSnapshotKeeps
<1> HIDE DEF i
<1>5. w \in Node /\ w.term = n.term /\ w.votedFor = n.votedFor /\ w.moves = n.moves
  BY <1>3, <1>4 DEF Node, SameBallot
<1> HIDE DEF w
<1>6. Written(w, node[s], s)
  BY <1>3, <1>5 DEF Written, QuietNode, SameBallot, o
<1> QED
  BY <1>1, <1>5, <1>6, CrashIntoQuiet

\* Every step is quiet or one of the three handlers that cast or count votes.
LEMMA StepKinds ==
  ASSUME TypeOK, Next
  PROVE  \/ Quiet
         \/ \E s \in Server : StartElection(s)
         \/ \E m \in msgs : HandleVoteRequest(m) \/ HandleVoteResponse(m)
<1>1. CASE \E s \in Server : Apply(s) \/ CrashAdmitting(s) \/ Crash(s) \/ BroadcastHeartbeat(s)
  BY <1>1, ApplyQuiet, CrashAdmittingQuiet, CrashQuiet, BroadcastHeartbeatQuiet
<1>2. CASE \E m \in msgs : Receive(m) \/ CrashAfterTruncate(m) \/ CrashInstalling(m)
  BY <1>2, HandleAppendEntriesQuiet, HandleAppendEntriesResponseQuiet,
     HandleInstallSnapshotQuiet, HandleInstallSnapshotResponseQuiet,
     CrashAfterTruncateQuiet, CrashInstallingQuiet DEF Receive
<1>3. CASE \E s \in Server : Call(s)
  BY <1>3, ClientCommandQuiet, BeginReadQuiet, CrashAfterTermQuiet DEF Call
<1>4. CASE \E s \in Server : Reconfigure(s)
  <2>1. PICK s \in Server : Reconfigure(s)
    BY <1>4
  <2>2. Joiners \subseteq Server /\ Anchors \subseteq Server
    BY ConstantsAssumption DEF Joiners
  <2>3. CASE \E p \in Joiners : SubmitJoin(s, p)
    BY <2>2, <2>3, SubmitJoinQuiet
  <2>4. CASE \E p \in Removable : RemoveServer(s, p)
    BY <2>4, RemoveServerQuiet
  <2>5. CASE \E a \in Anchors : s \in Joiners /\ BeginJoining(s, a)
    BY <2>2, <2>5, BeginJoiningQuiet
  <2>6. CASE \E a \in Anchors : s \in Joiners /\ (CrashAfterFence(s, a) \/ CrashAfterReset(s, a))
    BY <2>2, <2>6, CrashJoiningQuiet
  <2> QED
    BY <2>1, <2>3, <2>4, <2>5, <2>6 DEF Reconfigure
<1> QED
  BY <1>1, <1>2, <1>3, <1>4 DEF Next

-----------------------------------------------------------------------------
(* Type correctness.                                                       *)

\* Becomes keeps the types of what it assigns.
LEMMA BecomesType ==
  ASSUME TypeOK, NEW s \in Server, NEW n \in Node, NEW ms \in SUBSET Message, Becomes(s, n, ms),
         votes' \subseteq Vote, reads' \subseteq Read
  PROVE  TypeOK'
<1>1. node' \in [Server -> Node]
  BY DEF TypeOK, Becomes
<1>2. msgs' \subseteq Message
  BY DEF TypeOK, Becomes
<1>3. elections' \subseteq Election
  <2>1. n.term \in Nat /\ n.moves \in Nat /\ n.log \in Seq(Entry)
    BY DEF Node
  <2>2. EffectiveConfiguration(n) \in Configuration
    BY EffectiveConfigurationType
  <2>3. VotersFor(s, n.term) \in SUBSET Server
    BY DEF VotersFor, TypeOK, Vote
  <2>4. [term |-> n.term, leader |-> s, moves |-> n.moves,
         conf |-> EffectiveConfiguration(n),
         voters |-> VotersFor(s, n.term), log |-> n.log] \in Election
    BY <2>1, <2>2, <2>3 DEF Election
  <2>5. ASSUME NEW e \in elections PROVE e \in Election /\ [e EXCEPT !.log = n.log] \in Election
    BY <2>1 DEF TypeOK, Election
  <2> QED
    BY <2>4, <2>5 DEF Becomes
<1>4. committed' \in Seq(Entry)
  <2>1. n.log \in Seq(Entry) /\ n.commit \in Int
    BY DEF Node
  <2>2. Prefix(n.log, n.commit) \in Seq(Entry)
    BY <2>1, PrefixType
  <2> QED
    BY <2>2 DEF TypeOK, Becomes
<1> QED
  BY <1>1, <1>2, <1>3, <1>4 DEF TypeOK

\* What start_election makes of the node and puts on the network.
LEMMA StartElectionStep ==
  ASSUME TypeOK, NEW s \in Server, StartElection(s)
  PROVE  LET n == Campaign(node[s], s)
             r == ElectIfMajority(n, s)
         IN  \E ms \in SUBSET Message :
               /\ Becomes(s, r, ms) /\ r \in Node
               /\ \A m \in ms : m.type = "voteRequest"
               /\ votes' = votes \cup {[voter |-> s, moves |-> n.moves, term |-> n.term,
                                        cand |-> s]}
               /\ reads' = reads
<1> DEFINE n == Campaign(node[s], s)
           r == ElectIfMajority(n, s)
           request(p) == [type |-> "voteRequest", from |-> s, to |-> p, term |-> n.term,
                          lastIndex |-> LastIndex(n), lastTerm |-> LastTerm(n)]
           peers == AllMembers(EffectiveConfiguration(n)).voters \ {s}
           ms == {request(p) : p \in peers}
<1>1. node[s] \in Node
  BY DEF TypeOK
<1>2. /\ Becomes(s, r, ms) /\ reads' = reads
      /\ votes' = votes \cup {[voter |-> s, moves |-> n.moves, term |-> n.term, cand |-> s]}
  BY DEF StartElection
<1>3. n \in Node
  BY <1>1, CampaignType
<1> HIDE DEF n
<1>4. r \in Node
  BY <1>3, ElectIfMajorityKeeps
<1>5. n.term \in Nat /\ n.log \in Seq(Entry)
  BY <1>3 DEF Node
<1>6. LastIndex(n) \in Nat
  BY <1>5 DEF LastIndex
<1>7. LastTerm(n) \in Nat
  <2>1. CASE LastIndex(n) > 0
    <3>1. n.log[LastIndex(n)] \in Entry
      BY <1>5, <2>1 DEF LastIndex
    <3>2. n.log[LastIndex(n)].term \in Nat
      BY <3>1 DEF Entry
    <3> QED
      BY <3>2 DEF LastTerm, TermAt
  <2>2. CASE ~(LastIndex(n) > 0)
    BY <2>2 DEF LastTerm, TermAt
  <2> QED
    BY <2>1, <2>2
<1>8. peers \subseteq Server
  BY <1>3, EffectiveConfigurationType, AllMembersType DEF Members
<1> HIDE DEF r, peers
<1>9. ms \in SUBSET Message /\ \A m \in ms : m.type = "voteRequest"
  BY <1>5, <1>6, <1>7, <1>8 DEF Message
<1> HIDE DEF ms
<1> QED
  BY <1>2, <1>4, <1>9 DEF n, r

\* The same for handle_vote_request: n is the node in the term of the request.
LEMMA VoteRequestStep ==
  ASSUME TypeOK, NEW m \in msgs, HandleVoteRequest(m)
  PROVE  LET s == m.to
             n == IF m.term > node[s].term THEN StepDown(node[s], m.term) ELSE node[s]
             granted == GrantsVote(n, s, m)
             r == IF granted THEN [n EXCEPT !.votedFor = m.from] ELSE n
             reply == Reply(m, "voteResponse", n.term, granted, 0)
         IN  /\ s \in Server /\ m.from \in Server /\ n \in Node /\ r \in Node
             /\ reply \in Message /\ granted \in BOOLEAN
             /\ Becomes(s, r, {reply})
             /\ votes' = IF granted
                         THEN votes \cup {[voter |-> s, moves |-> n.moves, term |-> n.term,
                                           cand |-> m.from]}
                         ELSE votes
             /\ reads' = reads
<1> DEFINE s == m.to
           n == IF m.term > node[s].term THEN StepDown(node[s], m.term) ELSE node[s]
           granted == GrantsVote(n, s, m)
           r == IF granted THEN [n EXCEPT !.votedFor = m.from] ELSE n
           reply == Reply(m, "voteResponse", n.term, granted, 0)
<1>1. m \in Message /\ m.type = "voteRequest" /\ s \in Server /\ m.from \in Server /\ m.term \in Nat
  BY DEF TypeOK, HandleVoteRequest, Message
<1>2. n \in Node
  <2>1. node[s] \in Node
    BY <1>1 DEF TypeOK
  <2> QED
    BY <1>1, <2>1, StepDownType
<1>3. /\ Becomes(s, r, {reply}) /\ reads' = reads
      /\ votes' = IF granted
                  THEN votes \cup {[voter |-> s, moves |-> n.moves, term |-> n.term,
                                    cand |-> m.from]}
                  ELSE votes
  BY DEF HandleVoteRequest
<1>4. granted \in BOOLEAN
  BY DEF GrantsVote
<1> HIDE DEF n, granted
<1>5. r \in Node
  BY <1>1, <1>2, ZenonT(60) DEF Node, OptServer
<1>6. n.term \in Nat
  BY <1>2 DEF Node
<1>7. reply \in Message
  BY <1>1, <1>4, <1>6, ReplyType
<1> HIDE DEF r, reply
<1> QED
  BY <1>1, <1>2, <1>3, <1>4, <1>5, <1>7 DEF n, granted, r, reply

\* And for a ballot that is counted.
LEMMA VoteResponseStep ==
  ASSUME TypeOK, NEW m \in msgs, HandleVoteResponse(m)
  PROVE  LET s == m.to
             n == [node[s] EXCEPT !.granted = @ \cup {m.from}]
             r == ElectIfMajority(n, s)
         IN  \/ Quiet
             \/ /\ s \in Server /\ m.from \in Server /\ n \in Node /\ r \in Node
                /\ m.term = node[s].term /\ m.success /\ m.type = "voteResponse"
                /\ node[s].role = "candidate"
                /\ Becomes(s, r, {})
                /\ UNCHANGED <<votes, reads>>
<1> DEFINE s == m.to
           o == node[s]
           n == [o EXCEPT !.granted = @ \cup {m.from}]
           r == ElectIfMajority(n, s)
<1>1. m \in Message /\ m.type = "voteResponse" /\ s \in Server /\ m.from \in Server /\ m.term \in Nat
  BY DEF TypeOK, HandleVoteResponse, Message
<1>2. o \in Node
  BY <1>1 DEF TypeOK
<1>3. /\ o.role = "candidate" /\ UNCHANGED <<votes, reads>>
      /\ \/ m.term > o.term /\ Becomes(s, StepDown(o, m.term), {})
         \/ m.term = o.term /\ m.success /\ Becomes(s, r, {})
  BY DEF HandleVoteResponse
<1>4. CASE m.term > o.term /\ Becomes(s, StepDown(o, m.term), {})
  <2>1. StepDown(o, m.term) \in Node /\ QuietNode(StepDown(o, m.term), o, s)
    BY <1>1, <1>2, <1>4, StepDownQuiet
  <2>2. Quiet
    BY <1>1, <1>3, <1>4, <2>1, QuietStep
  <2> QED
    BY <2>2
<1>5. CASE m.term = o.term /\ m.success /\ Becomes(s, r, {})
  <2>1. n \in Node
    BY <1>1, <1>2 DEF Node
  <2> HIDE DEF n
  <2>2. r \in Node
    BY <1>1, <2>1, ElectIfMajorityKeeps
  <2> HIDE DEF r
  <2> QED
    BY <1>1, <1>3, <1>5, <2>1, <2>2 DEF n, r
<1> QED
  BY <1>3, <1>4, <1>5

\* A step keeps every type.
LEMMA TypeStep ==
  ASSUME TypeOK, Next
  PROVE  TypeOK'
<1>1. CASE Quiet
  <2>1. PICK s \in Server, n \in Node, ms \in SUBSET Message : Becomes(s, n, ms)
    BY <1>1 DEF Quiet
  <2>2. votes' \subseteq Vote /\ reads' \subseteq Read
    BY <1>1 DEF Quiet, TypeOK
  <2> QED
    BY <2>1, <2>2, BecomesType
<1>2. ASSUME NEW s \in Server, StartElection(s) PROVE TypeOK'
  <2> DEFINE n == Campaign(node[s], s)
             r == ElectIfMajority(n, s)
  <2>1. PICK ms \in SUBSET Message :
               /\ Becomes(s, r, ms) /\ r \in Node /\ reads' = reads
               /\ votes' = votes \cup {[voter |-> s, moves |-> n.moves, term |-> n.term,
                                        cand |-> s]}
    BY <1>2, StartElectionStep
  <2>2. n \in Node
    BY CampaignType DEF TypeOK
  <2> HIDE DEF n, r
  <2>3. [voter |-> s, moves |-> n.moves, term |-> n.term, cand |-> s] \in Vote
    BY <2>2 DEF Node, Vote
  <2>4. votes' \subseteq Vote /\ reads' \subseteq Read
    BY <2>1, <2>3 DEF TypeOK
  <2> QED
    BY <2>1, <2>4, BecomesType
<1>3. ASSUME NEW m \in msgs, HandleVoteRequest(m) PROVE TypeOK'
  <2> DEFINE s == m.to
             n == IF m.term > node[s].term THEN StepDown(node[s], m.term) ELSE node[s]
             granted == GrantsVote(n, s, m)
             r == IF granted THEN [n EXCEPT !.votedFor = m.from] ELSE n
             reply == Reply(m, "voteResponse", n.term, granted, 0)
             v == [voter |-> s, moves |-> n.moves, term |-> n.term, cand |-> m.from]
  <2>1. /\ s \in Server /\ m.from \in Server /\ n \in Node /\ r \in Node /\ reply \in Message
        /\ Becomes(s, r, {reply}) /\ reads' = reads
        /\ votes' = IF granted THEN votes \cup {v} ELSE votes
    BY <1>3, VoteRequestStep
  <2> HIDE DEF n, granted, r, reply
  <2>2. v \in Vote
    BY <2>1 DEF Node, Vote
  <2> HIDE DEF v
  <2>3. votes' \subseteq Vote /\ reads' \subseteq Read
    BY <2>1, <2>2 DEF TypeOK
  <2> QED
    BY <2>1, <2>3, BecomesType
<1>4. ASSUME NEW m \in msgs, HandleVoteResponse(m), ~Quiet PROVE TypeOK'
  <2> DEFINE r == ElectIfMajority([node[m.to] EXCEPT !.granted = @ \cup {m.from}], m.to)
  <2>1. m.to \in Server /\ r \in Node /\ Becomes(m.to, r, {}) /\ UNCHANGED <<votes, reads>>
    BY <1>4, VoteResponseStep
  <2> HIDE DEF r
  <2>2. votes' \subseteq Vote /\ reads' \subseteq Read
    BY <2>1 DEF TypeOK
  <2> QED
    BY <2>1, <2>2, BecomesType
<1> QED
  BY <1>1, <1>2, <1>3, <1>4, StepKinds

\* TypeOK holds in every reachable state of RaftNode: each handler, restart
\* and partial write keeps every field of every node, and every message, in
\* its type, whatever the servers, the campaigns and the bounds are.
THEOREM TypeCorrect == Spec => []TypeOK
<1>1. Init => TypeOK
  <2> SUFFICES ASSUME Init PROVE TypeOK
    OBVIOUS
  <2>1. node \in [Server -> Node]
    BY InitNodeType DEF Init
  <2>2. committed \in Seq(Entry)
    BY DEF Init
  <2> QED
    BY <2>1, <2>2 DEF Init, TypeOK
<1>2. TypeOK /\ [Next]_vars => TypeOK'
  <2>1. CASE Next
    BY <2>1, TypeStep
  <2>2. CASE UNCHANGED vars
    BY <2>2 DEF vars, TypeOK
  <2> QED
    BY <2>1, <2>2
<1> QED
  BY <1>1, <1>2, PTL DEF Spec

-----------------------------------------------------------------------------
(* Votes and elections.                                                    *)

\* More votes keep a majority.
LEMMA MajorityMonotone ==
  ASSUME NEW m \in Members, NEW A, NEW B, A \subseteq B, HasMajority(m, A)
  PROVE  HasMajority(m, B)
<1>1. m.voters \subseteq Server
  BY DEF Members
<1>2. IsFiniteSet(m.voters)
  BY <1>1, ServerFinite, FS_Subset
<1>3. IsFiniteSet(m.voters \cap B)
  BY <1>2, FS_Subset
<1>4. Cardinality(m.voters \cap A) <= Cardinality(m.voters \cap B)
  BY <1>3, FS_Subset
<1>5. /\ Cardinality(m.voters \cap A) \in Nat /\ Cardinality(m.voters \cap B) \in Nat
      /\ Cardinality(m.voters) \in Nat
  <2>1. IsFiniteSet(m.voters \cap A)
    BY <1>2, FS_Subset
  <2> QED
    BY <1>2, <1>3, <2>1, FS_CardinalityType
<1>6. m.voters # {} /\ 2 * Cardinality(m.voters \cap A) > Cardinality(m.voters)
  BY DEF HasMajority
<1>7. 2 * Cardinality(m.voters \cap B) > Cardinality(m.voters)
  BY <1>4, <1>5, <1>6
<1> QED
  BY <1>6, <1>7 DEF HasMajority

\* The same for the one or two quorums of a configuration.
LEMMA JointMajorityMonotone ==
  ASSUME NEW c \in Configuration, NEW A, NEW B, A \subseteq B, HasJointMajority(c, A)
  PROVE  HasJointMajority(c, B)
<1>1. c.cur \in Members /\ c.next \in Members
  BY DEF Configuration
<1> QED
  BY <1>1, MajorityMonotone DEF HasJointMajority

\* Two majorities of one set of voters share a voter.
LEMMA MajoritiesMeet ==
  ASSUME NEW m \in Members, NEW k \in Members, m.voters = k.voters,
         NEW A, NEW B, HasMajority(m, A), HasMajority(k, B)
  PROVE  \E p \in m.voters : p \in A /\ p \in B
<1> DEFINE V == m.voters
           S == V \cap A
           T == V \cap B
<1>1. IsFiniteSet(V)
  <2>1. V \subseteq Server
    BY DEF Members
  <2> QED
    BY <2>1, ServerFinite, FS_Subset
<1>2. 2 * Cardinality(S) > Cardinality(V) /\ 2 * Cardinality(T) > Cardinality(V)
  BY DEF HasMajority
<1>3. Cardinality(S) \in Nat /\ Cardinality(T) \in Nat /\ Cardinality(V) \in Nat
  <2>1. IsFiniteSet(S) /\ IsFiniteSet(T)
    BY <1>1, FS_Subset
  <2> QED
    BY <1>1, <2>1, FS_CardinalityType
<1>4. S \subseteq V /\ T \subseteq V
  OBVIOUS
<1> HIDE DEF V, S, T
<1>5. Cardinality(S) + Cardinality(T) > Cardinality(V)
  BY <1>2, <1>3
<1>6. S \cap T # {}
  BY <1>1, <1>4, <1>5, FS_MajoritiesIntersect
<1> QED
  BY <1>6 DEF S, T, V

\* Voted in the next state.
VotedNext(p, s, t) == \E v \in votes' : v.voter = p /\ v.cand = s /\ v.term = t

\* A step adds at most one election, which the server of the step won, and
\* otherwise changes no more than the logs of leaderships.
LEMMA ElectionsGrow ==
  ASSUME TypeOK, NEW s \in Server, NEW n \in Node, NEW ms, Becomes(s, n, ms),
         NEW e \in elections'
  PROVE  \/ \E f \in elections :
              /\ e.term = f.term /\ e.leader = f.leader /\ e.moves = f.moves
              /\ e.conf = f.conf /\ e.voters = f.voters
              /\ \/ e.log = f.log
                 \/ /\ n.role = "leader" /\ node[s].role = "leader"
                    /\ f.leader = s /\ f.term = n.term /\ e.log = n.log
         \/ /\ n.role = "leader" /\ node[s].role # "leader"
            /\ e.term = n.term /\ e.leader = s /\ e.moves = n.moves
            /\ e.conf = EffectiveConfiguration(n)
            /\ e.voters = VotersFor(s, n.term) /\ e.log = n.log
<1> DEFINE won == [term |-> n.term, leader |-> s, moves |-> n.moves,
                   conf |-> EffectiveConfiguration(n),
                   voters |-> VotersFor(s, n.term), log |-> n.log]
           new(f) == IF f.leader = s /\ f.term = n.term THEN [f EXCEPT !.log = n.log] ELSE f
<1>1. CASE n.role # "leader"
  BY <1>1 DEF Becomes
<1>2. CASE n.role = "leader" /\ node[s].role = "leader"
  <2>1. elections' = {new(f) : f \in elections}
    BY <1>2 DEF Becomes
  <2>2. PICK f \in elections : e = new(f)
    BY <2>1
  <2>3. CASE f.leader = s /\ f.term = n.term
    <3>1. f \in Election
      BY DEF TypeOK
    <3>2. e = [f EXCEPT !.log = n.log]
      BY <2>2, <2>3
    <3>3. /\ e.term = f.term /\ e.leader = f.leader /\ e.moves = f.moves
          /\ e.conf = f.conf /\ e.voters = f.voters /\ e.log = n.log
      BY <3>1, <3>2 DEF Election
    <3> QED
      BY <1>2, <2>3, <3>3
  <2>4. CASE ~(f.leader = s /\ f.term = n.term)
    BY <2>2, <2>4
  <2> QED
    BY <2>3, <2>4
<1>3. CASE n.role = "leader" /\ node[s].role # "leader"
  <2>1. elections' = elections \cup {won}
    BY <1>3 DEF Becomes
  <2>2. e \in elections \/ e = won
    BY <2>1
  <2>3. CASE e = won
    BY <1>3, <2>3
  <2> QED
    BY <2>2, <2>3
<1> QED
  BY <1>1, <1>2, <1>3

\* What a step of server s must do for the ballots to stay in order.
LEMMA BallotStep ==
  ASSUME TypeOK, TypeOK', BallotInvariant,
         NEW s \in Server, NEW n \in Node, NEW ms \in SUBSET Message, Becomes(s, n, ms),
         votes \subseteq votes',
         \A v \in votes' : v.voter # s => v \in votes,
         \A v \in votes' : v.voter = s =>
            /\ v.moves <= n.moves
            /\ v.moves = n.moves => v.term <= n.term
            /\ v.moves = n.moves /\ v.term = n.term => n.votedFor = v.cand,
         \A p \in n.granted : VotedNext(p, s, n.term),
         \A m \in ms : m.type = "voteResponse" /\ m.success => VotedNext(m.from, m.to, m.term),
         n.role = "leader" /\ node[s].role # "leader" =>
            HasJointMajority(EffectiveConfiguration(n),
                             {p \in Server : VotedNext(p, s, n.term)}),
         s \in Founders => n.moves = 0
  PROVE  BallotInvariant'
<1> USE DEF BallotInvariant
<1>1. node' = [node EXCEPT ![s] = n] /\ node \in [Server -> Node]
  BY DEF Becomes, TypeOK
<1>2. node'[s] = n /\ \A t \in Server : t # s => node'[t] = node[t]
  BY <1>1
<1>3. \A p, q, t : Voted(p, q, t) => VotedNext(p, q, t)
  BY DEF Voted, VotedNext
<1>4. LastVoteRemembered'
  <2> SUFFICES ASSUME NEW v \in votes'
               PROVE  LET o == node'[v.voter]
                      IN  /\ v.moves <= o.moves
                          /\ v.moves = o.moves => v.term <= o.term
                          /\ v.moves = o.moves /\ v.term = o.term => o.votedFor = v.cand
    BY DEF LastVoteRemembered
  <2>1. v.voter \in Server
    BY DEF TypeOK, Vote
  <2>2. CASE v.voter = s
    BY <1>2, <2>2
  <2>3. CASE v.voter # s
    BY <1>2, <2>1, <2>3 DEF LastVoteRemembered
  <2> QED
    BY <2>2, <2>3
<1>5. CountedVotesCast'
  <2>1. ASSUME NEW q \in Server, NEW p \in node'[q].granted
        PROVE  VotedNext(p, q, node'[q].term)
    <3>1. CASE q = s
      BY <1>2, <3>1
    <3>2. CASE q # s
      BY <1>2, <1>3, <3>2 DEF CountedVotesCast
    <3> QED
      BY <3>1, <3>2
  <2>2. ASSUME NEW m \in msgs', m.type = "voteResponse", m.success
        PROVE  VotedNext(m.from, m.to, m.term)
    <3>1. m \in msgs \/ m \in ms
      BY DEF Becomes
    <3> QED
      BY <1>3, <2>2, <3>1 DEF CountedVotesCast
  <2> QED
    BY <2>1, <2>2 DEF CountedVotesCast, Voted, VotedNext
<1>6. WinnersHadQuorum'
  <2>1. ASSUME NEW e \in elections'
        PROVE  HasJointMajority(e.conf, {p \in Server : VotedNext(p, e.leader, e.term)})
    <3>1. \/ \E f \in elections : e.conf = f.conf /\ e.leader = f.leader /\ e.term = f.term
          \/ /\ n.role = "leader" /\ node[s].role # "leader"
             /\ e.conf = EffectiveConfiguration(n) /\ e.leader = s /\ e.term = n.term
      BY ElectionsGrow
    <3>2. ASSUME NEW f \in elections, e.conf = f.conf, e.leader = f.leader, e.term = f.term
          PROVE  HasJointMajority(e.conf, {p \in Server : VotedNext(p, e.leader, e.term)})
      <4> DEFINE A == {p \in Server : Voted(p, f.leader, f.term)}
                 B == {p \in Server : VotedNext(p, f.leader, f.term)}
      <4>1. f.conf \in Configuration
        BY DEF TypeOK, Election
      <4>2. A \subseteq B
        BY <1>3
      <4>3. HasJointMajority(f.conf, A)
        BY DEF WinnersHadQuorum
      <4> HIDE DEF A, B
      <4>4. HasJointMajority(f.conf, B)
        BY <4>1, <4>2, <4>3, JointMajorityMonotone
      <4> QED
        BY <3>2, <4>4 DEF B
    <3> QED
      BY <3>1, <3>2
  <2> QED
    BY <2>1 DEF WinnersHadQuorum, Voted, VotedNext
<1>7. FoundersStay'
  BY <1>2, ConstantsAssumption DEF FoundersStay
<1> QED
  BY <1>4, <1>5, <1>6, <1>7

\* A quiet step casts no vote and counts none.
LEMMA QuietBallots ==
  ASSUME TypeOK, TypeOK', BallotInvariant, VoteOnce, Quiet
  PROVE  BallotInvariant' /\ VoteOnce'
<1>1. PICK s \in Server, n \in Node, ms \in SUBSET Message :
            /\ Becomes(s, n, ms) /\ QuietNode(n, node[s], s)
            /\ \A m \in ms : m.type = "voteResponse" => ~m.success
  BY DEF Quiet
<1>2. votes' = votes
  BY DEF Quiet
<1>3. \A p, q, t : VotedNext(p, q, t) <=> Voted(p, q, t)
  BY <1>2 DEF Voted, VotedNext
<1>4. /\ node[s] \in Node /\ n.term \in Nat /\ node[s].term \in Nat
      /\ n.moves \in Nat /\ node[s].moves \in Nat
  BY DEF TypeOK, Node
<1>5. ASSUME NEW v \in votes', v.voter = s
      PROVE  /\ v.moves <= n.moves
             /\ v.moves = n.moves => v.term <= n.term
             /\ v.moves = n.moves /\ v.term = n.term => n.votedFor = v.cand
  <2>1. v.moves \in Nat /\ v.term \in Nat
    BY DEF TypeOK, Vote
  <2>2. /\ v.moves <= node[s].moves
        /\ v.moves = node[s].moves => v.term <= node[s].term
        /\ v.moves = node[s].moves /\ v.term = node[s].term => node[s].votedFor = v.cand
    BY <1>2, <1>5 DEF BallotInvariant, LastVoteRemembered
  <2> QED
    BY <1>1, <1>4, <2>1, <2>2 DEF QuietNode, SameBallot
<1>6. ASSUME NEW p \in n.granted PROVE VotedNext(p, s, n.term)
  <2>1. p \in node[s].granted /\ n.term = node[s].term
    BY <1>1, <1>6 DEF QuietNode, SameBallot
  <2> QED
    BY <1>3, <2>1 DEF BallotInvariant, CountedVotesCast
<1>7. ~(n.role = "leader" /\ node[s].role # "leader")
  BY <1>1 DEF QuietNode, SameBallot
<1>8. s \in Founders => n.moves = 0
  BY <1>1 DEF QuietNode, SameBallot, BallotInvariant, FoundersStay, Joiners
<1>9. BallotInvariant'
  BY <1>1, <1>2, <1>5, <1>6, <1>7, <1>8, BallotStep
<1> QED
  BY <1>2, <1>9 DEF VoteOnce

\* start_election votes in a term in which the server has cast no vote.
LEMMA StartElectionBallots ==
  ASSUME TypeOK, TypeOK', BallotInvariant, VoteOnce, NEW s \in Server, StartElection(s)
  PROVE  BallotInvariant' /\ VoteOnce'
<1> DEFINE o == node[s]
           n == Campaign(o, s)
           r == ElectIfMajority(n, s)
           w == [voter |-> s, moves |-> n.moves, term |-> n.term, cand |-> s]
<1>1. PICK ms \in SUBSET Message :
            /\ Becomes(s, r, ms) /\ r \in Node
            /\ \A m \in ms : m.type = "voteRequest"
            /\ votes' = votes \cup {w}
  BY StartElectionStep
<1>2. o \in Node /\ o.term \in Nat /\ o.moves \in Nat
  BY DEF TypeOK, Node
<1>3. /\ n \in Node /\ n.term = o.term + 1 /\ n.moves = o.moves /\ n.votedFor = s
      /\ n.granted = {s} /\ n.role = "candidate"
  BY <1>2, CampaignType
<1> HIDE DEF n
<1>4. /\ r.term = n.term /\ r.votedFor = n.votedFor /\ r.moves = n.moves
      /\ r.granted \subseteq n.granted
      /\ r.role = "leader" => HasJointMajority(EffectiveConfiguration(r), n.granted)
  BY <1>3, ElectIfMajorityKeeps
<1> HIDE DEF r
<1>5. ASSUME NEW v \in votes, v.voter = s
      PROVE  v.moves <= o.moves /\ (v.moves = o.moves => v.term <= o.term)
  BY <1>5 DEF BallotInvariant, LastVoteRemembered
<1>6. \A v \in votes : v.moves \in Nat /\ v.term \in Nat
  BY DEF TypeOK, Vote
<1>7. w.voter = s /\ w.moves = n.moves /\ w.term = n.term /\ w.cand = s
  OBVIOUS
<1> HIDE DEF w, o
<1>8. \A v \in votes' : v.voter = s =>
         /\ v.moves <= r.moves
         /\ v.moves = r.moves => v.term <= r.term
         /\ v.moves = r.moves /\ v.term = r.term => r.votedFor = v.cand
  <2> TAKE v \in votes'
  <2> HAVE v.voter = s
  <2>1. CASE v = w
    BY <1>2, <1>3, <1>4, <1>7, <2>1
  <2>2. CASE v \in votes
    BY <1>2, <1>3, <1>4, <1>5, <1>6, <2>2
  <2> QED
    BY <1>1, <2>1, <2>2
<1>9. VotedNext(s, s, n.term)
  BY <1>1, <1>7 DEF VotedNext
<1>10. \A p \in r.granted : VotedNext(p, s, r.term)
  BY <1>3, <1>4, <1>9
<1>11. r.role = "leader" =>
         HasJointMajority(EffectiveConfiguration(r), {p \in Server : VotedNext(p, s, r.term)})
  <2> DEFINE B == {p \in Server : VotedNext(p, s, r.term)}
  <2>1. n.granted \subseteq B
    BY <1>3, <1>4, <1>9
  <2>2. EffectiveConfiguration(r) \in Configuration
    BY <1>1, EffectiveConfigurationType
  <2> HIDE DEF B
  <2>3. r.role = "leader" => HasJointMajority(EffectiveConfiguration(r), B)
    BY <1>4, <2>1, <2>2, JointMajorityMonotone
  <2> QED
    BY <2>3 DEF B
<1>12. s \in Founders => r.moves = 0
  BY <1>3, <1>4 DEF BallotInvariant, FoundersStay, o
<1>13. /\ votes \subseteq votes'
       /\ \A v \in votes' : v.voter # s => v \in votes
  BY <1>1, <1>7
<1>14. BallotInvariant'
  BY <1>1, <1>8, <1>10, <1>11, <1>12, <1>13, BallotStep
<1>15. VoteOnce'
  <2>1. ASSUME NEW v \in votes, v.voter = w.voter, v.moves = w.moves, v.term = w.term
        PROVE  FALSE
    BY <1>2, <1>3, <1>5, <1>6, <1>7, <2>1
  <2>2. \A v, x \in votes' :
          v.voter = x.voter /\ v.moves = x.moves /\ v.term = x.term => v.cand = x.cand
    BY <1>1, <2>1 DEF VoteOnce
  <2> QED
    BY <2>2 DEF VoteOnce
<1> QED
  BY <1>14, <1>15

\* handle_vote_request votes only when votedFor allows it in that term.
LEMMA VoteRequestBallots ==
  ASSUME TypeOK, TypeOK', BallotInvariant, VoteOnce, NEW m \in msgs, HandleVoteRequest(m)
  PROVE  BallotInvariant' /\ VoteOnce'
<1> DEFINE s == m.to
           o == node[s]
           n == IF m.term > o.term THEN StepDown(o, m.term) ELSE o
           granted == GrantsVote(n, s, m)
           r == IF granted THEN [n EXCEPT !.votedFor = m.from] ELSE n
           reply == Reply(m, "voteResponse", n.term, granted, 0)
           w == [voter |-> s, moves |-> n.moves, term |-> n.term, cand |-> m.from]
<1>1. /\ s \in Server /\ m.from \in Server /\ n \in Node /\ r \in Node /\ reply \in Message
      /\ Becomes(s, r, {reply}) /\ granted \in BOOLEAN
      /\ votes' = IF granted THEN votes \cup {w} ELSE votes
  BY VoteRequestStep, SMTT(30)
<1>2. o \in Node /\ o.term \in Nat /\ o.moves \in Nat
  BY <1>1 DEF TypeOK, Node
<1>3. m.term \in Nat
  BY DEF TypeOK, Message
<1>4. /\ n.moves = o.moves /\ n.term >= o.term
      /\ n.term = o.term => n.votedFor = o.votedFor
      /\ \/ n.term = o.term /\ n.granted = o.granted /\ n.role = o.role
         \/ n.granted = {} /\ n.role = "follower"
  BY <1>2, <1>3, StepDownType, SMTT(30)
<1>5. granted => n.votedFor \in {Nil, m.from}
  BY DEF GrantsVote
<1>6. /\ r.term = n.term /\ r.moves = n.moves /\ r.granted = n.granted /\ r.role = n.role
      /\ r.votedFor = IF granted THEN m.from ELSE n.votedFor
  <2> HIDE DEF n, granted
  <2> QED
    BY <1>1 DEF Node
<1>7. reply.from = s /\ reply.to = m.from /\ reply.term = n.term /\ reply.success = granted
  BY DEF Reply
<1>8. w.voter = s /\ w.moves = n.moves /\ w.term = n.term /\ w.cand = m.from
  OBVIOUS
<1> HIDE DEF n, granted, r, reply, w
<1>9. ASSUME NEW v \in votes, v.voter = s
      PROVE  /\ v.moves <= o.moves /\ (v.moves = o.moves => v.term <= o.term)
             /\ v.moves = o.moves /\ v.term = o.term => o.votedFor = v.cand
  BY <1>9 DEF BallotInvariant, LastVoteRemembered
<1>10. \A v \in votes : v.moves \in Nat /\ v.term \in Nat /\ v.cand # Nil
  BY ConstantsAssumption DEF TypeOK, Vote
<1>11. n.term \in Nat /\ n.moves \in Nat
  BY <1>1 DEF Node
<1>12. ASSUME NEW v \in votes, v.voter = s, v.moves = n.moves, v.term = n.term
       PROVE  /\ n.votedFor = v.cand
              /\ granted => v.cand = m.from
  <2>1. n.votedFor = v.cand
    BY <1>2, <1>4, <1>9, <1>10, <1>11, <1>12
  <2> QED
    BY <1>5, <1>10, <2>1
<1>13. \A v \in votes' : v.voter = s =>
          /\ v.moves <= r.moves
          /\ v.moves = r.moves => v.term <= r.term
          /\ v.moves = r.moves /\ v.term = r.term => r.votedFor = v.cand
  <2> TAKE v \in votes'
  <2> HAVE v.voter = s
  <2>1. CASE granted /\ v = w
    BY <1>6, <1>8, <1>11, <2>1
  <2>2. CASE v \in votes
    <3>1. v.moves <= r.moves /\ (v.moves = r.moves => v.term <= r.term)
      BY <1>2, <1>4, <1>6, <1>9, <1>10, <1>11, <2>2
    <3>2. v.moves = r.moves /\ v.term = r.term => r.votedFor = v.cand
      BY <1>6, <1>12, <2>2
    <3> QED
      BY <3>1, <3>2
  <2> QED
    BY <1>1, <2>1, <2>2
<1>14. votes \subseteq votes' /\ \A v \in votes' : v.voter # s => v \in votes
  BY <1>1, <1>8
<1>15. \A p \in r.granted : VotedNext(p, s, r.term)
  <2> TAKE p \in r.granted
  <2>1. p \in o.granted /\ r.term = o.term
    BY <1>4, <1>6
  <2>2. Voted(p, s, o.term)
    BY <1>1, <2>1 DEF BallotInvariant, CountedVotesCast
  <2> QED
    BY <1>14, <2>1, <2>2 DEF Voted, VotedNext
<1>16. \A x \in {reply} : x.type = "voteResponse" /\ x.success => VotedNext(x.from, x.to, x.term)
  BY <1>1, <1>7, <1>8 DEF VotedNext
<1>17. ~(r.role = "leader" /\ o.role # "leader")
  BY <1>4, <1>6
<1>18. s \in Founders => r.moves = 0
  BY <1>4, <1>6 DEF BallotInvariant, FoundersStay
<1>19. BallotInvariant'
  <2>1. {reply} \in SUBSET Message
    BY <1>1
  <2>2. s \in Server /\ r \in Node /\ Becomes(s, r, {reply})
    BY <1>1
  <2> HIDE DEF s
  <2> QED
    BY <1>13, <1>14, <1>15, <1>16, <1>17, <1>18, <2>1, <2>2, BallotStep
<1>20. VoteOnce'
  <2>1. ASSUME granted, NEW v \in votes, v.voter = w.voter, v.moves = w.moves, v.term = w.term
        PROVE  v.cand = w.cand
    BY <1>8, <1>12, <2>1
  <2>2. \A v, x \in votes' :
          v.voter = x.voter /\ v.moves = x.moves /\ v.term = x.term => v.cand = x.cand
    <3> TAKE v, x \in votes'
    <3> HAVE v.voter = x.voter /\ v.moves = x.moves /\ v.term = x.term
    <3>1. CASE v \in votes /\ x \in votes
      BY <3>1 DEF VoteOnce
    <3>2. CASE v \notin votes
      BY <1>1, <2>1, <3>2
    <3>3. CASE x \notin votes
      BY <1>1, <2>1, <3>3
    <3> QED
      BY <3>1, <3>2, <3>3
  <2> QED
    BY <2>2 DEF VoteOnce
<1> QED
  BY <1>19, <1>20

\* handle_vote_response counts a vote that was cast.
LEMMA VoteResponseBallots ==
  ASSUME TypeOK, TypeOK', BallotInvariant, VoteOnce, NEW m \in msgs, HandleVoteResponse(m), ~Quiet
  PROVE  BallotInvariant' /\ VoteOnce'
<1> DEFINE s == m.to
           o == node[s]
           n == [o EXCEPT !.granted = @ \cup {m.from}]
           r == ElectIfMajority(n, s)
<1>1. /\ s \in Server /\ m.from \in Server /\ n \in Node /\ r \in Node
      /\ m.term = o.term /\ m.success /\ m.type = "voteResponse"
      /\ o.role = "candidate" /\ Becomes(s, r, {}) /\ votes' = votes
  BY VoteResponseStep
<1>2. o \in Node
  BY <1>1 DEF TypeOK
<1>3. /\ n.term = o.term /\ n.votedFor = o.votedFor /\ n.moves = o.moves /\ n.role = o.role
      /\ n.granted = o.granted \cup {m.from}
  BY <1>2 DEF Node
<1> HIDE DEF n
<1>4. /\ r.term = n.term /\ r.votedFor = n.votedFor /\ r.moves = n.moves
      /\ r.granted \subseteq n.granted
      /\ r.role = "leader" /\ n.role # "leader" =>
           HasJointMajority(EffectiveConfiguration(r), n.granted)
  BY <1>1, ElectIfMajorityKeeps
<1> HIDE DEF r
<1>5. \A p \in n.granted : VotedNext(p, s, r.term)
  <2>1. \A p \in o.granted : Voted(p, s, o.term)
    BY <1>1 DEF BallotInvariant, CountedVotesCast
  <2>2. Voted(m.from, s, o.term)
    BY <1>1 DEF BallotInvariant, CountedVotesCast
  <2> QED
    BY <1>1, <1>3, <1>4, <2>1, <2>2 DEF Voted, VotedNext
<1>6. r.role = "leader" /\ o.role # "leader" =>
         HasJointMajority(EffectiveConfiguration(r), {p \in Server : VotedNext(p, s, r.term)})
  <2> DEFINE B == {p \in Server : VotedNext(p, s, r.term)}
  <2>1. n.granted \subseteq B
    <3>1. n.granted \subseteq Server
      BY <1>1 DEF Node
    <3> QED
      BY <1>5, <3>1
  <2>2. EffectiveConfiguration(r) \in Configuration
    BY <1>1, EffectiveConfigurationType
  <2> HIDE DEF B
  <2>3. r.role = "leader" /\ o.role # "leader" => HasJointMajority(EffectiveConfiguration(r), B)
    BY <1>3, <1>4, <2>1, <2>2, JointMajorityMonotone
  <2> QED
    BY <2>3 DEF B
<1>7. \A v \in votes' : v.voter = s =>
         /\ v.moves <= r.moves
         /\ v.moves = r.moves => v.term <= r.term
         /\ v.moves = r.moves /\ v.term = r.term => r.votedFor = v.cand
  BY <1>1, <1>3, <1>4 DEF BallotInvariant, LastVoteRemembered
<1>8. s \in Founders => r.moves = 0
  BY <1>3, <1>4 DEF BallotInvariant, FoundersStay
<1>9. BallotInvariant'
  <2>1. votes \subseteq votes' /\ \A v \in votes' : v.voter # s => v \in votes
    BY <1>1
  <2>2. \A p \in r.granted : VotedNext(p, s, r.term)
    BY <1>4, <1>5
  <2>3. {} \in SUBSET Message
    OBVIOUS
  <2>4. \A x \in {} : x.type = "voteResponse" /\ x.success => VotedNext(x.from, x.to, x.term)
    OBVIOUS
  <2> HIDE DEF s
  <2> QED
    BY <1>1, <1>6, <1>7, <1>8, <2>1, <2>2, <2>3, <2>4, BallotStep
<1> QED
  BY <1>1, <1>9 DEF VoteOnce

\* Elections won in one term in configurations that share a half.
LEMMA SharedHalfFollows ==
  ASSUME TypeOK, BallotInvariant, VoteOnce
  PROVE  SharedHalfElectionSafety
<1> SUFFICES ASSUME NEW e \in elections, NEW f \in elections, e.term = f.term,
                    NEW V \in Halves(e.conf) \cap Halves(f.conf), V \subseteq Founders
             PROVE  e.leader = f.leader
  BY DEF SharedHalfElectionSafety
<1> DEFINE A(x) == {p \in Server : Voted(p, x.leader, x.term)}
<1>1. ASSUME NEW x \in elections, V \in Halves(x.conf)
      PROVE  \E m \in Members : m.voters = V /\ HasMajority(m, A(x))
  <2>1. x.conf.cur \in Members /\ x.conf.next \in Members
    BY DEF TypeOK, Election, Configuration
  <2>2. HasJointMajority(x.conf, A(x))
    BY DEF BallotInvariant, WinnersHadQuorum
  <2> HIDE DEF A
  <2> QED
    BY <1>1, <2>1, <2>2 DEF HasJointMajority, Halves
<1>2. PICK m \in Members : m.voters = V /\ HasMajority(m, A(e))
  BY <1>1
<1>3. PICK k \in Members : k.voters = V /\ HasMajority(k, A(f))
  BY <1>1
<1>4. PICK p \in V : p \in A(e) /\ p \in A(f)
  <2> HIDE DEF A
  <2> QED
    BY <1>2, <1>3, MajoritiesMeet
<1>5. PICK v \in votes : v.voter = p /\ v.cand = e.leader /\ v.term = e.term
  BY <1>4 DEF Voted
<1>6. PICK w \in votes : w.voter = p /\ w.cand = f.leader /\ w.term = f.term
  BY <1>4 DEF Voted
<1>7. v.moves = 0 /\ w.moves = 0
  <2>1. node[p].moves = 0
    BY <1>4 DEF BallotInvariant, FoundersStay
  <2>2. v.moves <= 0 /\ w.moves <= 0
    BY <1>5, <1>6, <2>1 DEF BallotInvariant, LastVoteRemembered
  <2>3. v.moves \in Nat /\ w.moves \in Nat
    BY DEF TypeOK, Vote
  <2> QED
    BY <2>2, <2>3
<1> QED
  BY <1>5, <1>6, <1>7 DEF VoteOnce

\* BallotInvariant and VoteOnce hold in every reachable state: no restart,
\* crash between two writes, step-down, repeated or late message lets a server
\* vote twice in a term of one consensus domain.
THEOREM BallotsInOrder == Spec => [](BallotInvariant /\ VoteOnce)
<1> DEFINE Inv == TypeOK /\ BallotInvariant /\ VoteOnce
<1>1. Init => BallotInvariant /\ VoteOnce
  <2> SUFFICES ASSUME Init PROVE BallotInvariant /\ VoteOnce
    OBVIOUS
  <2>1. LastVoteRemembered /\ CountedVotesCast /\ WinnersHadQuorum
    BY DEF Init, InitNode, LastVoteRemembered, CountedVotesCast, WinnersHadQuorum
  <2>2. FoundersStay
    BY ConstantsAssumption DEF Init, InitNode, FoundersStay
  <2> QED
    BY <2>1, <2>2 DEF Init, BallotInvariant, VoteOnce
<1>2. TypeOK /\ TypeOK' /\ BallotInvariant /\ VoteOnce /\ [Next]_vars
        => BallotInvariant' /\ VoteOnce'
  <2> SUFFICES ASSUME TypeOK, TypeOK', BallotInvariant, VoteOnce, [Next]_vars
               PROVE  BallotInvariant' /\ VoteOnce'
    OBVIOUS
  <2>1. CASE Next
    BY <2>1, StepKinds, QuietBallots, StartElectionBallots, VoteRequestBallots,
       VoteResponseBallots
  <2>2. CASE UNCHANGED vars
    <3>1. node' = node /\ msgs' = msgs /\ votes' = votes /\ elections' = elections
      BY <2>2 DEF vars
    <3>2. LastVoteRemembered' /\ FoundersStay' /\ VoteOnce'
      BY <3>1 DEF BallotInvariant, LastVoteRemembered, FoundersStay, VoteOnce
    <3>3. CountedVotesCast'
      BY <3>1 DEF BallotInvariant, CountedVotesCast, Voted
    <3>4. WinnersHadQuorum'
      BY <3>1 DEF BallotInvariant, WinnersHadQuorum, Voted
    <3> QED
      BY <3>2, <3>3, <3>4 DEF BallotInvariant
  <2> QED
    BY <2>1, <2>2
<1>3. Spec => []TypeOK
  BY TypeCorrect
<1> QED
  BY <1>1, <1>2, <1>3, PTL DEF Spec

\* Two elections of one term whose configurations share a voter set of
\* founders have the same winner, through any sequence of membership changes,
\* crashes and admissions (become_leader, has_joint_majority).
THEOREM SharedHalfElections == Spec => []SharedHalfElectionSafety
<1>1. TypeOK /\ BallotInvariant /\ VoteOnce => SharedHalfElectionSafety
  BY SharedHalfFollows
<1> QED
  BY <1>1, TypeCorrect, BallotsInOrder, PTL

\* No server votes for two candidates of one term of its consensus domain
\* (handle_vote_request, start_election), whatever crashes between the writes of
\* term and vote, restarts and late requests come between.
THEOREM VotesOnce == Spec => []VoteOnce
BY BallotsInOrder, PTL
=============================================================================
