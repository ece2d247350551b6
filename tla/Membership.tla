----------------------------- MODULE Membership -----------------------------
(***************************************************************************)
(* ClusterConfiguration of crates/catten-graft/src/membership.rs: the      *)
(* immutable Raft membership value and the quorum test on it.              *)
(*                                                                         *)
(* A member map (peer id to Peer) is a pair of disjoint sets, the ids with *)
(* role Voter and the ids with role Learner; service names are left out.   *)
(* The configuration is joint when it carries a non-empty proposed map.    *)
(***************************************************************************)
EXTENDS Integers, FiniteSets

CONSTANT Server   \* the peer ids

ASSUME ServerFinite == IsFiniteSet(Server)

Members == [voters : SUBSET Server, learners : SUBSET Server]

Configuration == [cur : Members, next : Members]

NoMembers == [voters |-> {}, learners |-> {}]

Ids(m) == m.voters \cup m.learners

Stable(m) == [cur |-> m, next |-> NoMembers]

IsJointConsensus(c) == Ids(c.next) # {}

Contains(c, p) == p \in Ids(c.cur) \/ p \in Ids(c.next)

IsVoter(c, p) == p \in c.cur.voters \/ p \in c.next.voters

\* all_members lists the current map first, so a peer of both maps keeps the
\* role it has in the current one.
AllMembers(c) ==
  [voters   |-> c.cur.voters \cup (c.next.voters \ Ids(c.cur)),
   learners |-> c.cur.learners \cup (c.next.learners \ Ids(c.cur))]

TransitionTo(c, m) == [cur |-> c.cur, next |-> m]

FinalizeTransition(c) == IF IsJointConsensus(c) THEN Stable(c.next) ELSE c
\* Mutant of HasMajority: half of the voters is enough.
HalfIsMajority(m, ids) ==
  /\ m.voters # {}
  /\ Cardinality(m.voters \cap ids) >= Cardinality(m.voters) \div 2

\* count > voter_count / 2 with the division of integers is 2 * count > voter_count.
HasMajority(m, ids) ==
  /\ m.voters # {}
  /\ 2 * Cardinality(m.voters \cap ids) > Cardinality(m.voters)

HasJointMajority(c, ids) ==
  /\ HasMajority(c.cur, ids)
  /\ IsJointConsensus(c) => HasMajority(c.next, ids)
=============================================================================
