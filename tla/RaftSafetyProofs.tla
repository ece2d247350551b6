-------------------------- MODULE RaftSafetyProofs --------------------------
(***************************************************************************)
(* The safety of RaftNode while nobody joins and at most one server is     *)
(* removed: for every number of servers, every schedule of elections,      *)
(* replication, removal, compaction, snapshots, reads and crashes, and     *)
(* every loss, repetition and delay of messages.                           *)
(*                                                                         *)
(* A removal puts a JOINT and a FINALIZE entry into the log.  A server     *)
(* uses the configuration of its latest entries, committed or not, so that *)
(* servers disagree on who votes while a removal is under way; the two     *)
(* memberships differ in one server and any majorities of them meet.       *)
(*                                                                         *)
(* The argument follows the histories.  Every log is made of pieces of the *)
(* logs of leaderships.  A server that acknowledged a prefix in a term     *)
(* holds it, and votes only for candidates that are as far, until a later  *)
(* leadership that lacks the prefix overrides it; when a majority          *)
(* acknowledged a prefix of a leadership's own term, no later leadership   *)
(* can lack it.                                                            *)
(***************************************************************************)
EXTENDS RaftNodeProofs

\* All servers are launched with one configuration, and at most one of them is
\* ever removed.
OneRemovable == Founders = Server /\ \A p, q \in Removable : p = q

-----------------------------------------------------------------------------
(* The memberships in use: that of the launch and the one after the        *)
(* removal.  The voters are those of the current half, also while joint.   *)

Everyone == [voters |-> Server, learners |-> {}]
Remaining == [voters |-> Server \ Removable, learners |-> {}]
Launched == Stable(Everyone)

Usually(c) == c.cur \in {Everyone, Remaining} /\ c.next \in {NoMembers, Remaining}

UsualLog(log) ==
  \A i \in 1 .. Len(log) :
     /\ log[i].kind # "join"
     /\ log[i].kind = "joint" => log[i].members = Remaining /\ Remaining # NoMembers

UsualNode(n) ==
  /\ Usually(n.conf) /\ Usually(n.base)
  /\ n.joiners = Zero /\ n.admission = NoAdmission /\ n.joiningFrom = Nil
  /\ UsualLog(n.log)

UsualMessage(m) ==
  /\ m.type = "appendRequest" => UsualLog(m.entries)
  /\ m.type = "snapshotRequest" => UsualLog(m.prefix) /\ Usually(m.conf)

Usual ==
  /\ \A s \in Server : UsualNode(node[s])
  /\ \A m \in msgs : UsualMessage(m)

\* Any two of these share a server.
Quorum(ids) == HasMajority(Everyone, ids) \/ HasMajority(Remaining, ids)

VotersAt(n, i) == ConfigurationAt(n, i).cur.voters

Peers(n) == VotersAt(n, Len(n.log))

\* The configuration applied is the one the log prescribes.
InForce(n) == n.conf = ConfigurationAt(n, n.applied)

\* p was not asked when the leadership of n began, nor is it counted now: what
\* n remembers of its progress may be from an earlier leadership.
Outside(n, p) ==
  /\ p \notin Peers(n)
  /\ \A i \in n.snap + 1 .. Len(n.log) : n.log[i].term = n.term => p \notin VotersAt(n, i)

-----------------------------------------------------------------------------
(* Logs.                                                                   *)

\* Both logs have the same entries up to index i.
Agree(L, M, i) == i <= Len(L) /\ i <= Len(M) /\ \A j \in 1 .. i : L[j] = M[j]

\* P is a prefix of L.
Has(L, P) == Agree(L, P, Len(P))

\* Each entry of the log, with all before it, was in the log of the
\* leadership of its term.
Inherited(ld, L) ==
  \A i \in 1 .. Len(L) : \E e \in ld : e.term = L[i].term /\ Agree(L, e.log, i)

TermsUpTo(L, t) == \A i \in 1 .. Len(L) : L[i].term \in 1 .. t

-----------------------------------------------------------------------------
(* Prefixes that a majority holds.  Nodes, votes and elections are         *)
(* parameters, so that the same facts are stated before and after a step.  *)

\* A leadership after term t and before term u lacks the prefix P.
Overridden(ld, t, P, u) == \E e \in ld : t < e.term /\ e.term < u /\ ~Has(e.log, P)

\* Before term u, the log is as far as index i of term t.
AsFar(L, u, t, i) ==
  \E k \in 1 .. Len(L) : L[k].term < u /\ (L[k].term > t \/ (L[k].term = t /\ k >= i))

Standing(nd, s, u) == nd[s].role = "candidate" /\ nd[s].term = u

\* p has held the prefix P of the leadership of term t.
HeldBy(nd, vt, ld, p, t, P) ==
  /\ nd[p].term >= t
  /\ \A v \in vt : v.voter = p /\ v.term > t /\ Standing(nd, v.cand, v.term) =>
       \/ AsFar(nd[v.cand].log, v.term, t, Len(P))
       \/ Overridden(ld, t, P, v.term)
       \/ \E e \in ld : e.term = v.term
  /\ \A e \in ld : p \in e.voters /\ e.term > t =>
       AsFar(e.log, e.term, t, Len(P)) \/ Overridden(ld, t, P, e.term)
  /\ Has(nd[p].log, P) \/ Overridden(ld, t, P, nd[p].term + 1)

\* A majority has held P, which ends with an entry of the term itself.
Chosen(nd, vt, ld, t, P) ==
  /\ P # <<>> /\ P[Len(P)].term = t
  /\ \E e \in ld : e.term = t /\ Has(e.log, P)
  /\ Quorum({p \in Server : HeldBy(nd, vt, ld, p, t, P)})

\* The first i entries of L are committed, by a leadership up to term t.
Settled(nd, vt, ld, L, i, t) ==
  i = 0 \/ \E e \in ld : \E j \in i .. Len(e.log) :
             /\ e.term <= t /\ Agree(L, e.log, i)
             /\ Chosen(nd, vt, ld, e.term, Prefix(e.log, j))

\* p has acknowledged the log of the leadership e up to index i.
Acknowledged(nd, vt, ld, p, e, i) ==
  /\ i <= Len(e.log) /\ nd[p].term >= e.term
  /\ nd[p].term = e.term => Agree(nd[p].log, e.log, i)
  /\ \A j \in 1 .. i : e.log[j].term = e.term => HeldBy(nd, vt, ld, p, e.term, Prefix(e.log, j))

-----------------------------------------------------------------------------
(* The invariant.                                                          *)

\* One leadership in a term; its voters voted for it and are a majority.
LeadershipsKept ==
  /\ \A e, f \in elections : e.term = f.term => e = f
  /\ \A e \in elections :
       /\ e.term <= node[e.leader].term /\ e.term > 0
       /\ e.log # <<>> /\ TermsUpTo(e.log, e.term) /\ Inherited(elections, e.log)
       /\ Quorum(e.voters)
       /\ \A p \in e.voters : Voted(p, e.leader, e.term)
       /\ ~Standing(node, e.leader, e.term)

VotesKept == \A v \in votes : v.term <= node[v.cand].term

NodeKept(s) ==
  LET n == node[s]
  IN  /\ n.snap <= n.applied /\ n.applied <= n.commit /\ n.commit <= Len(n.log)
      /\ InForce(n)
      /\ TermsUpTo(n.log, n.term) /\ Inherited(elections, n.log)
      /\ n.role = "candidate" =>
           /\ n.term > 0 /\ Voted(s, s, n.term)
           /\ \A i \in 1 .. Len(n.log) : n.log[i].term < n.term
      /\ Settled(node, votes, elections, n.log, n.commit, n.term)
      /\ n.commit <= Len(committed)
      /\ n.match[s] = 0
      /\ n.role = "leader" =>
           \E e \in elections :
             /\ e.leader = s /\ e.term = n.term /\ e.log = n.log
             /\ \A p \in Server :
                  /\ p \in Peers(n) \ {s} => n.next[p] <= Len(n.log) + 1
                  /\ n.match[p] > 0 =>
                       \/ Acknowledged(node, votes, elections, p, e, n.match[p])
                       \/ Outside(n, p)

\* A request carries what its sender had when it led, or stood for, its term.
MessageKept(m) ==
  /\ m.type = "voteRequest" =>
       /\ m.term <= node[m.from].term
       /\ m.lastTerm < m.term
       /\ m.lastTerm > 0 => m.lastIndex > 0
       /\ Standing(node, m.from, m.term) =>
            /\ Len(node[m.from].log) = m.lastIndex
            /\ m.lastIndex > 0 => node[m.from].log[m.lastIndex].term = m.lastTerm
  /\ m.type = "appendRequest" =>
       \E e \in elections :
         /\ e.term = m.term /\ e.leader = m.from
         /\ m.prev + Len(m.entries) <= Len(e.log)
         /\ m.prev > 0 => e.log[m.prev].term = m.prevTerm
         /\ \A k \in 1 .. Len(m.entries) : m.entries[k] = e.log[m.prev + k]
         /\ m.commit <= Len(e.log) /\ m.commit <= Len(committed)
         /\ Settled(node, votes, elections, e.log, m.commit, m.term)
  /\ m.type = "snapshotRequest" =>
       \E e \in elections :
         /\ e.term = m.term /\ e.leader = m.from
         /\ m.prefix # <<>> /\ Has(e.log, m.prefix) /\ Len(m.prefix) <= Len(committed)
         /\ Settled(node, votes, elections, e.log, Len(m.prefix), m.term)
  /\ m.type \in {"appendResponse", "snapshotResponse"} /\ m.success =>
       \E e \in elections :
         /\ e.term = m.term /\ e.leader = m.to
         /\ Acknowledged(node, votes, elections, m.from, e, m.match)

CommittedKept ==
  \E t \in Nat : Settled(node, votes, elections, committed, Len(committed), t)

\* A read that began behind a later leadership will not be answered.
ReadKept(r) ==
  /\ r.seen <= Len(committed)
  /\ \/ r.seen < r.index
     \/ \E e, f \in elections :
          /\ e.term = r.term /\ f.term > r.term
          /\ r.index <= Len(e.log) /\ ~Agree(f.log, e.log, r.index)

SafetyInvariant ==
  /\ Usual /\ LeadershipsKept /\ VotesKept
  /\ \A s \in Server : NodeKept(s)
  /\ \A m \in msgs : MessageKept(m)
  /\ CommittedKept
  /\ \A r \in reads : ReadKept(r)

-----------------------------------------------------------------------------
(* Sequences.                                                              *)

\* Logs that are as long and have the same entries are the same.
LEMMA SameLogs ==
  ASSUME NEW L \in Seq(Entry), NEW M \in Seq(Entry), Len(L) = Len(M),
         \A i \in 1 .. Len(L) : L[i] = M[i]
  PROVE  L = M
<1>1. DOMAIN L = 1 .. Len(L) /\ DOMAIN M = 1 .. Len(M)
  OBVIOUS
<1> QED
  BY <1>1, SMTT(30)

\* The first entries of a log.
LEMMA PrefixFacts ==
  ASSUME NEW L \in Seq(Entry), NEW i \in 0 .. Len(L)
  PROVE  /\ Prefix(L, i) \in Seq(Entry) /\ Len(Prefix(L, i)) = i
         /\ \A j \in 1 .. i : Prefix(L, i)[j] = L[j]
BY DEF Prefix

\* Agreement is closed downwards, symmetric and transitive.
LEMMA AgreeLower ==
  ASSUME NEW L \in Seq(Entry), NEW M \in Seq(Entry), NEW i \in Nat, NEW j \in 0 .. i, Agree(L, M, i)
  PROVE  Agree(L, M, j) /\ Agree(M, L, j)
BY DEF Agree

\* Logs that agree have the same first entries.
LEMMA AgreePrefix ==
  ASSUME NEW L \in Seq(Entry), NEW M \in Seq(Entry), NEW i \in Nat, Agree(L, M, i)
  PROVE  Prefix(L, i) = Prefix(M, i) /\ Has(L, Prefix(M, i))
<1>1. i \in 0 .. Len(L) /\ i \in 0 .. Len(M) /\ \A j \in 1 .. i : L[j] = M[j]
  BY DEF Agree
<1>2. /\ Prefix(L, i) \in Seq(Entry) /\ Len(Prefix(L, i)) = i
      /\ \A j \in 1 .. i : Prefix(L, i)[j] = L[j]
  BY <1>1, PrefixFacts
<1>3. /\ Prefix(M, i) \in Seq(Entry) /\ Len(Prefix(M, i)) = i
      /\ \A j \in 1 .. i : Prefix(M, i)[j] = M[j]
  BY <1>1, PrefixFacts
<1>4. Prefix(L, i) = Prefix(M, i)
  BY <1>1, <1>2, <1>3, SameLogs
<1> QED
  BY <1>1, <1>3, <1>4 DEF Has, Agree

\* M continues L with entries of term t.
Grown(M, L, t) ==
  Agree(M, L, Len(L)) /\ \A k \in Len(L) + 1 .. Len(M) : M[k].term = t

\* M is L brought nearer to the log R of a leadership.
Patched(L, R, M) ==
  /\ \A i \in 1 .. Len(M) : Agree(M, L, i) \/ Agree(M, R, i)
  /\ \A i \in 0 .. Len(L) : Agree(L, R, i) => Agree(M, R, i)

\* A log that grows by entries of a later term gains no prefix of an earlier.
LEMMA GrownLacks ==
  ASSUME NEW L \in Seq(Entry), NEW M \in Seq(Entry), NEW R \in Seq(Entry), NEW i \in Nat,
         NEW t \in Nat, NEW u \in Nat, t < u, Grown(M, L, u), TermsUpTo(R, t),
         Agree(M, R, i)
  PROVE  Agree(L, R, i)
<1>1. CASE i <= Len(L)
  BY <1>1 DEF Grown, Agree
<1>2. CASE i > Len(L)
  <2>1. Len(L) + 1 \in 1 .. i /\ Len(L) + 1 \in Len(L) + 1 .. Len(M) /\ Len(L) + 1 \in 1 .. Len(R)
    BY <1>2 DEF Agree
  <2>2. M[Len(L) + 1].term = u /\ R[Len(L) + 1].term <= t /\ M[Len(L) + 1] = R[Len(L) + 1]
    BY <2>1 DEF Grown, Agree, TermsUpTo
  <2>3. R[Len(L) + 1].term \in Nat
    BY <2>1 DEF TermsUpTo
  <2> QED
    BY <2>2, <2>3
<1> QED
  BY <1>1, <1>2

\* A prefix of a log has its terms.
LEMMA PrefixTerms ==
  ASSUME NEW L \in Seq(Entry), NEW P \in Seq(Entry), NEW t, TermsUpTo(L, t), Has(L, P)
  PROVE  TermsUpTo(P, t)
BY DEF TermsUpTo, Has, Agree

\* What agrees with a log agrees with what the log grows to.
LEMMA GrownAgree ==
  ASSUME NEW L \in Seq(Entry), NEW M \in Seq(Entry), NEW X \in Seq(Entry), NEW i \in Nat,
         NEW t, Grown(M, L, t), Agree(X, L, i)
  PROVE  Agree(X, M, i) /\ Agree(M, X, i) /\ Agree(M, L, i) /\ i <= Len(M)
BY DEF Grown, Agree

\* Within a log each term is at most the next: the log of the leadership of
\* an entry's term has no later terms.
LEMMA TermsInOrder ==
  ASSUME elections \subseteq Election, NEW L \in Seq(Entry), Inherited(elections, L),
         \A e \in elections : TermsUpTo(e.log, e.term),
         NEW i \in 1 .. Len(L), NEW j \in 1 .. i
  PROVE  L[j].term <= L[i].term /\ L[i].term \in Nat /\ L[j].term \in Nat
<1>1. PICK e \in elections : e.term = L[i].term /\ Agree(L, e.log, i)
  BY DEF Inherited
<1>2. e.term \in Nat /\ e.log \in Seq(Entry)
  BY DEF Election
<1>3. j \in 1 .. Len(e.log) /\ L[j] = e.log[j]
  BY <1>1, <1>2 DEF Agree
<1>4. e.log[j].term \in 1 .. e.term
  BY <1>3 DEF TermsUpTo
<1> QED
  BY <1>1, <1>2, <1>3, <1>4

-----------------------------------------------------------------------------
(* Quorums.                                                                *)

LEMMA MapsTyped ==
  /\ Everyone \in Members /\ Remaining \in Members /\ NoMembers \in Members
  /\ Everyone.voters = Server /\ Remaining.voters = Server \ Removable
  /\ Everyone.learners = {} /\ Remaining.learners = {}
BY DEF Everyone, Remaining, NoMembers, Members

\* Two quorums share a server, whichever of the two memberships counted them.
LEMMA QuorumsMeet ==
  ASSUME OneRemovable, NEW A, NEW B, Quorum(A), Quorum(B)
  PROVE  \E p \in Server : p \in A /\ p \in B
<1> DEFINE S == Server \cap A
           T == Server \cap B
<1>1. \A C : HasMajority(Everyone, C) \/ HasMajority(Remaining, C) =>
        /\ 2 * Cardinality(Server \cap C) >= Cardinality(Server)
        /\ Cardinality(Server \cap C) \in Nat /\ Cardinality(Server) \in Nat
        /\ HasMajority(Everyone, C) => 2 * Cardinality(Server \cap C) > Cardinality(Server)
  <2> TAKE C
  <2> HAVE HasMajority(Everyone, C) \/ HasMajority(Remaining, C)
  <2> DEFINE R == Server \ Removable
  <2>1. IsFiniteSet(Server) /\ IsFiniteSet(Server \cap C) /\ IsFiniteSet(R \cap C) /\ IsFiniteSet(R)
    BY ServerFinite, FS_Subset
  <2>2. /\ Cardinality(Server) \in Nat /\ Cardinality(Server \cap C) \in Nat
        /\ Cardinality(R \cap C) \in Nat /\ Cardinality(R) \in Nat
    BY <2>1, FS_CardinalityType
  <2>3. Cardinality(R \cap C) <= Cardinality(Server \cap C)
    BY <2>1, FS_Subset
  <2>4. Cardinality(R) + 1 >= Cardinality(Server)
    <3>1. CASE Removable \cap Server = {}
      <4>1. R = Server
        BY <3>1
      <4> QED
        BY <4>1, <2>2
    <3>2. CASE Removable \cap Server # {}
      <4>1. PICK r : r \in Removable \cap Server
        BY <3>2
      <4>2. R = Server \ {r}
        BY <4>1 DEF OneRemovable
      <4>3. Cardinality(Server \ {r}) = Cardinality(Server) - 1
        BY <2>1, <4>1, FS_RemoveElement
      <4> QED
        BY <4>2, <4>3, <2>2
    <3> QED
      BY <3>1, <3>2
  <2>5. HasMajority(Everyone, C) => 2 * Cardinality(Server \cap C) > Cardinality(Server)
    BY MapsTyped DEF HasMajority
  <2>6. HasMajority(Remaining, C) => 2 * Cardinality(R \cap C) > Cardinality(R)
    BY MapsTyped DEF HasMajority
  <2> HIDE DEF R
  <2> QED
    BY <2>2, <2>3, <2>4, <2>5, <2>6
<1>2. CASE HasMajority(Remaining, A) /\ HasMajority(Remaining, B)
  <2>1. \E p \in Remaining.voters : p \in A /\ p \in B
    BY <1>2, MapsTyped, MajoritiesMeet
  <2> QED
    BY <2>1, MapsTyped
<1>3. CASE HasMajority(Everyone, A) \/ HasMajority(Everyone, B)
  <2>1. /\ 2 * Cardinality(S) >= Cardinality(Server) /\ 2 * Cardinality(T) >= Cardinality(Server)
        /\ 2 * Cardinality(S) > Cardinality(Server) \/ 2 * Cardinality(T) > Cardinality(Server)
        /\ Cardinality(S) \in Nat /\ Cardinality(T) \in Nat /\ Cardinality(Server) \in Nat
    BY <1>1, <1>3 DEF Quorum
  <2>2. S \subseteq Server /\ T \subseteq Server
    OBVIOUS
  <2> HIDE DEF S, T
  <2>3. Cardinality(S) + Cardinality(T) > Cardinality(Server)
    BY <2>1
  <2>4. S \cap T # {}
    BY <2>2, <2>3, ServerFinite, FS_MajoritiesIntersect
  <2> QED
    BY <2>4 DEF S, T
<1> QED
  BY <1>2, <1>3 DEF Quorum

LEMMA QuorumMonotone ==
  ASSUME NEW A, NEW B, A \subseteq B, Quorum(A)
  PROVE  Quorum(B)
BY MapsTyped, MajorityMonotone DEF Quorum

\* The quorum rule asks a quorum of the current half, whatever the other half.
LEMMA JointIsQuorum ==
  ASSUME NEW c, Usually(c), NEW ids, HasJointMajority(c, ids)
  PROVE  Quorum(ids)
BY DEF Usually, HasJointMajority, Quorum

-----------------------------------------------------------------------------
(* What holds before a step.                                               *)

Before ==
  OneRemovable /\ TypeOK /\ BallotInvariant /\ VoteOnce /\ SafetyInvariant

\* The types of the parts of the state.
LEMMA Types ==
  ASSUME Before
  PROVE  /\ \A s \in Server : node[s] \in Node
         /\ \A m \in msgs : m \in Message
         /\ \A v \in votes : v \in Vote
         /\ \A e \in elections : e \in Election
         /\ committed \in Seq(Entry)
BY DEF Before, TypeOK

\* The fields of nodes, votes and elections that the argument is about.
LEMMA NodeFields ==
  ASSUME NEW n \in Node
  PROVE  /\ n.term \in Nat /\ n.log \in Seq(Entry) /\ n.snap \in Nat /\ n.commit \in Nat
         /\ n.applied \in Nat /\ n.moves \in Nat /\ Len(n.log) \in Nat
         /\ n.role \in {"follower", "candidate", "leader"}
         /\ \A p \in Server : n.match[p] \in Nat /\ n.next[p] \in Nat
BY DEF Node

LEMMA ElectionFields ==
  ASSUME NEW e \in Election
  PROVE  /\ e.term \in Nat /\ e.leader \in Server /\ e.voters \subseteq Server
         /\ e.log \in Seq(Entry) /\ Len(e.log) \in Nat
BY DEF Election

\* Nobody has voted in a term it has not reached.
LEMMA VoteTerms ==
  ASSUME Before, NEW v \in votes
  PROVE  /\ v.voter \in Server /\ v.cand \in Server /\ v.term \in Nat /\ v.moves = 0
         /\ v.term <= node[v.voter].term /\ v.term <= node[v.cand].term
<1>1. v \in Vote /\ node \in [Server -> Node]
  BY Types DEF Before, TypeOK
<1>2. v.voter \in Server /\ v.cand \in Server /\ v.term \in Nat /\ v.moves \in Nat
  BY <1>1 DEF Vote
<1>3. node[v.voter].moves = 0
  BY <1>2 DEF Before, OneRemovable, BallotInvariant, FoundersStay
<1>4. v.moves <= node[v.voter].moves
  BY DEF Before, BallotInvariant, LastVoteRemembered
<1>5. v.moves = 0
  BY <1>2, <1>3, <1>4
<1>6. v.term <= node[v.voter].term
  BY <1>3, <1>5 DEF Before, BallotInvariant, LastVoteRemembered
<1>7. v.term <= node[v.cand].term
  BY DEF Before, SafetyInvariant, VotesKept
<1> QED
  BY <1>2, <1>5, <1>6, <1>7

\* One vote in a term.
LEMMA OneVote ==
  ASSUME Before, NEW v \in votes, NEW w \in votes, v.voter = w.voter, v.term = w.term
  PROVE  v.cand = w.cand
<1>1. v.moves = 0 /\ w.moves = 0
  BY VoteTerms
<1> QED
  BY <1>1 DEF Before, VoteOnce

\* What is known of a leadership.
LEMMA Leaderships ==
  ASSUME Before, NEW e \in elections
  PROVE  /\ e \in Election /\ e.term <= node[e.leader].term /\ e.term > 0
         /\ e.log # <<>> /\ TermsUpTo(e.log, e.term) /\ Inherited(elections, e.log)
         /\ Quorum(e.voters)
         /\ \A p \in e.voters : Voted(p, e.leader, e.term)
         /\ ~Standing(node, e.leader, e.term)
         /\ \A f \in elections : e.term = f.term => e = f
BY Types DEF Before, SafetyInvariant, LeadershipsKept

-----------------------------------------------------------------------------
(* A step of server s, from node[s] to n, as far as terms, logs and votes  *)
(* go.                                                                     *)

\* The server is in a term that it stood in, or that it stands in now.
Stood(o, n) == (o.role = "candidate" /\ n.term = o.term) \/ n.term = o.term + 1

Moves(s, n) ==
  LET o == node[s]
  IN  /\ n.term >= o.term
      /\ n.role = "leader" =>
           /\ Grown(n.log, o.log, n.term) /\ n.log # <<>>
           /\ \/ o.role = "leader" /\ n.term = o.term
              \/ o.role # "leader" /\ Stood(o, n) /\ Quorum(VotersFor(s, n.term))
      /\ n.role = "candidate" => n.log = o.log /\ Stood(o, n)
      /\ n.role = "follower" =>
           \/ n.log = o.log
           \/ \E e \in elections : e.term = n.term /\ Patched(o.log, e.log, n.log)

CastsVotes(s, n) ==
  LET o == node[s]
  IN  /\ votes \subseteq votes'
      /\ \A v \in votes' \ votes :
           /\ v.voter = s /\ v.term = n.term
           /\ \/ v.cand = s /\ n.term = o.term + 1
              \/ \E m \in msgs :
                   /\ m.type = "voteRequest" /\ m.from = v.cand /\ m.term = v.term
                   /\ n.log = o.log /\ LogUpToDate(o, m)
      /\ n.role # "follower" /\ n.term = o.term + 1 => VotedNext(s, s, n.term)

Change(s, n, ms) ==
  /\ s \in Server /\ n \in Node
  /\ Becomes(s, n, ms) /\ Moves(s, n) /\ CastsVotes(s, n)

\* What becomes of a leadership, and the new one.
Carried(s, n, f) ==
  IF n.role = "leader" /\ node[s].role = "leader" /\ f.leader = s /\ f.term = n.term
  THEN [f EXCEPT !.log = n.log] ELSE f

Won(s, n) ==
  [term |-> n.term, leader |-> s, moves |-> n.moves, conf |-> EffectiveConfiguration(n),
   voters |-> VotersFor(s, n.term), log |-> n.log]

LEMMA ElectionsNext ==
  ASSUME NEW s, NEW n, NEW ms, Becomes(s, n, ms)
  PROVE  elections' = {Carried(s, n, f) : f \in elections} \cup
                        (IF n.role = "leader" /\ node[s].role # "leader" THEN {Won(s, n)} ELSE {})
<1>1. CASE n.role = "leader" /\ node[s].role = "leader"
  BY <1>1 DEF Becomes, Carried
<1>2. CASE ~(n.role = "leader" /\ node[s].role = "leader")
  <2>1. \A f \in elections : Carried(s, n, f) = f
    BY <1>2 DEF Carried
  <2>2. {Carried(s, n, f) : f \in elections} = elections
    BY <2>1
  <2> QED
    BY <1>2, <2>2 DEF Becomes, Won
<1> QED
  BY <1>1, <1>2

\* The other nodes stay as they are.
LEMMA NodesNext ==
  ASSUME Before, NEW s, NEW n, NEW ms, Change(s, n, ms)
  PROVE  /\ node'[s] = n /\ \A p \in Server : p # s => node'[p] = node[p]
         /\ \A p \in Server : node'[p].term >= node[p].term /\ node'[p] \in Node
<1>1. node \in [Server -> Node] /\ s \in Server /\ n \in Node
  BY DEF Before, TypeOK, Change
<1>2. node' = [node EXCEPT ![s] = n] /\ n.term >= node[s].term
  BY DEF Change, Becomes, Moves
<1>3. \A p \in Server : node[p] \in Node /\ node[p].term \in Nat
  BY <1>1, NodeFields
<1> QED
  BY <1>1, <1>2, <1>3

\* A leadership keeps its term, leader and voters; its log only grows.
LEMMA CarriedFacts ==
  ASSUME Before, NEW s, NEW n, NEW ms, Change(s, n, ms), NEW f \in elections,
         NEW e, e = Carried(s, n, f)
  PROVE  /\ e \in elections' /\ e \in Election
         /\ e.term = f.term /\ e.leader = f.leader /\ e.voters = f.voters /\ e.conf = f.conf
         /\ Grown(e.log, f.log, f.term)
         /\ f.leader # s => e.log = f.log
         /\ n.role = "leader" /\ node[s].role = "leader" /\ f.leader = s /\ f.term = n.term
              => e.log = n.log
<1>1. e \in elections'
  BY ElectionsNext DEF Change
<1>2. f \in Election /\ f.log \in Seq(Entry) /\ s \in Server /\ n \in Node /\ node[s] \in Node
  BY Types, ElectionFields DEF Change
<1>3. Agree(f.log, f.log, Len(f.log))
  BY <1>2 DEF Agree
<1>4. Grown(f.log, f.log, f.term)
  BY <1>2, <1>3 DEF Grown
<1>5. CASE n.role = "leader" /\ node[s].role = "leader" /\ f.leader = s /\ f.term = n.term
  <2>1. e = [f EXCEPT !.log = n.log]
    BY <1>5 DEF Carried
  <2>2. n.log \in Seq(Entry)
    BY <1>2, NodeFields
  <2>3. /\ e \in Election /\ e.term = f.term /\ e.leader = f.leader /\ e.voters = f.voters
        /\ e.conf = f.conf /\ e.log = n.log
    BY <1>2, <2>1, <2>2 DEF Election
  <2>4. Grown(n.log, node[s].log, n.term) /\ n.term = node[s].term
    BY <1>5 DEF Change, Moves
  <2>5. NodeKept(s)
    BY <1>2 DEF Before, SafetyInvariant
  <2>6. PICK g \in elections : g.leader = s /\ g.term = node[s].term /\ g.log = node[s].log
    BY <1>5, <2>5 DEF NodeKept
  <2>7. g = f
    BY <1>5, <2>4, <2>6, Leaderships
  <2>8. Grown(e.log, f.log, f.term)
    BY <1>5, <2>3, <2>4, <2>6, <2>7
  <2> QED
    BY <1>1, <1>5, <2>3, <2>8
<1>6. CASE ~(n.role = "leader" /\ node[s].role = "leader" /\ f.leader = s /\ f.term = n.term)
  <2>1. e = f
    BY <1>6 DEF Carried
  <2> QED
    BY <1>1, <1>2, <1>4, <1>6, <2>1
<1> QED
  BY <1>5, <1>6

LEMMA ElectionOrigin ==
  ASSUME NEW s, NEW n, NEW ms, Change(s, n, ms), NEW e \in elections'
  PROVE  \/ \E f \in elections : e = Carried(s, n, f)
         \/ n.role = "leader" /\ node[s].role # "leader" /\ e = Won(s, n)
BY ElectionsNext DEF Change

\* Who voted for a server in a term it has not reached: nobody but, now, itself.
LEMMA VotersKnown ==
  ASSUME Before, NEW s \in Server, NEW u, NEW p \in VotersFor(s, u), p # s
  PROVE  /\ \E v \in votes : v.voter = p /\ v.cand = s /\ v.term = u
         /\ u \in Nat /\ u <= node[s].term /\ p \in Server
<1>1. PICK v \in votes : v.voter = p /\ v.cand = s /\ v.term = u
  BY DEF VotersFor
<1> QED
  BY <1>1, VoteTerms

\* The winner of an election is the first of its term.
LEMMA NoRival ==
  ASSUME Before, NEW s, NEW n, NEW ms, Change(s, n, ms), n.role = "leader",
         node[s].role # "leader", NEW f \in elections
  PROVE  f.term # n.term
<1> SUFFICES ASSUME f.term = n.term PROVE FALSE
  OBVIOUS
<1>1. s \in Server /\ n \in Node /\ node[s] \in Node /\ node[s].term \in Nat /\ n.term \in Nat
  BY Types, NodeFields DEF Change
<1>2. Stood(node[s], n) /\ Quorum(VotersFor(s, n.term))
  BY DEF Change, Moves
<1>3. OneRemovable /\ Quorum(f.voters)
  BY Leaderships DEF Before
<1>4. PICK p \in Server : p \in f.voters /\ p \in VotersFor(s, n.term)
  BY <1>2, <1>3, QuorumsMeet
<1>5. PICK v \in votes : v.voter = p /\ v.cand = f.leader /\ v.term = n.term
  BY <1>4, Leaderships DEF Voted
<1>6. v.term <= node[p].term
  BY <1>5, VoteTerms
<1>7. CASE n.term = node[s].term + 1
  <2>1. p = s
    BY <1>1, <1>4, <1>7, VotersKnown
  <2> QED
    BY <1>1, <1>5, <1>6, <1>7, <2>1
<1>8. CASE node[s].role = "candidate" /\ n.term = node[s].term
  <2>1. Voted(s, s, n.term)
    BY <1>1, <1>8 DEF Before, SafetyInvariant, NodeKept
  <2>2. \E w \in votes : w.voter = p /\ w.cand = s /\ w.term = n.term
    BY <1>1, <1>4, <2>1, VotersKnown DEF Voted
  <2>3. f.leader = s
    BY <1>5, <2>2, OneVote
  <2> QED
    BY <1>8, <2>3, Leaderships DEF Standing
<1> QED
  BY <1>2, <1>7, <1>8 DEF Stood

\* The new leadership.
LEMMA WonFacts ==
  ASSUME Before, NEW s, NEW n, NEW ms, Change(s, n, ms), n.role = "leader",
         node[s].role # "leader", NEW e, e = Won(s, n)
  PROVE  /\ e \in elections' /\ e.term = n.term /\ e.leader = s /\ e.log = n.log
         /\ e.voters = VotersFor(s, n.term) /\ Quorum(e.voters)
         /\ Grown(e.log, node[s].log, e.term)
<1>1. e \in elections'
  BY ElectionsNext DEF Change
<1>2. /\ e.term = n.term /\ e.leader = s /\ e.log = n.log
      /\ e.voters = VotersFor(s, n.term)
  BY DEF Won
<1> QED
  BY <1>1, <1>2 DEF Change, Moves

-----------------------------------------------------------------------------
(* What a majority has held it holds after any step.                       *)

\* P is the log of the leadership of term t up to an entry of term t.
Owned(t, P) ==
  /\ P \in Seq(Entry) /\ P # <<>> /\ P[Len(P)].term = t
  /\ \E e \in elections : e.term = t /\ Has(e.log, P)

LEMMA OwnedFacts ==
  ASSUME Before, NEW t, NEW P, Owned(t, P)
  PROVE  /\ t \in Nat /\ P \in Seq(Entry) /\ Len(P) \in Nat \ {0} /\ TermsUpTo(P, t)
         /\ P[Len(P)].term = t
         /\ \A e \in elections : e.term = t => Has(e.log, P)
<1>1. PICK e \in elections : e.term = t /\ Has(e.log, P)
  BY DEF Owned
<1>2. e.log \in Seq(Entry) /\ e.term \in Nat /\ P \in Seq(Entry)
  BY Types, ElectionFields DEF Owned
<1>3. TermsUpTo(P, t)
  BY <1>1, <1>2, PrefixTerms, Leaderships
<1>4. Len(P) \in Nat \ {0}
  BY <1>2 DEF Owned
<1> QED
  BY <1>1, <1>2, <1>3, <1>4, Leaderships DEF Owned

\* A leadership that lacks a prefix of an earlier one goes on lacking it.
LEMMA OverriddenPersists ==
  ASSUME Before, NEW s, NEW n, NEW ms, Change(s, n, ms), NEW t, NEW P, Owned(t, P),
         NEW u \in Nat, NEW w \in Nat, u <= w, Overridden(elections, t, P, u)
  PROVE  Overridden(elections', t, P, w)
<1>1. PICK f \in elections : t < f.term /\ f.term < u /\ ~Has(f.log, P)
  BY DEF Overridden
<1> DEFINE e == Carried(s, n, f)
<1>2. /\ e \in elections' /\ e \in Election /\ f \in Election
      /\ e.term = f.term /\ Grown(e.log, f.log, f.term)
  BY CarriedFacts, Types
<1> HIDE DEF e
<1>3. f.term \in Nat /\ f.log \in Seq(Entry) /\ e.log \in Seq(Entry)
  BY <1>2, ElectionFields
<1>4. P \in Seq(Entry) /\ Len(P) \in Nat /\ t \in Nat /\ TermsUpTo(P, t)
  BY OwnedFacts
<1>5. ~Has(e.log, P)
  <2>1. SUFFICES ASSUME Agree(e.log, P, Len(P)) PROVE Agree(f.log, P, Len(P))
    BY <1>1 DEF Has
  <2> QED
    BY <1>1, <1>2, <1>3, <1>4, <2>1, GrownLacks
<1> QED
  BY <1>1, <1>2, <1>3, <1>4, <1>5 DEF Overridden

\* A log that has grown is as far as before.
LEMMA AsFarGrows ==
  ASSUME NEW L \in Seq(Entry), NEW M \in Seq(Entry), NEW x, Grown(M, L, x),
         NEW u, NEW t, NEW i, AsFar(L, u, t, i)
  PROVE  AsFar(M, u, t, i)
BY DEF AsFar, Grown, Agree

\* A log with the prefix is as far as its end.
LEMMA HasIsFar ==
  ASSUME Before, NEW t, NEW P, Owned(t, P), NEW L \in Seq(Entry), Has(L, P), NEW u \in Nat, t < u
  PROVE  AsFar(L, u, t, Len(P))
<1>1. Len(P) \in Nat \ {0} /\ P[Len(P)].term = t /\ t \in Nat
  BY OwnedFacts
<1>2. Len(P) \in 1 .. Len(L) /\ L[Len(P)] = P[Len(P)]
  BY <1>1 DEF Has, Agree
<1> QED
  BY <1>1, <1>2 DEF AsFar

LEMMA VoteRequestFields ==
  ASSUME NEW m \in Message, m.type = "voteRequest"
  PROVE  /\ m.from \in Server /\ m.to \in Server /\ m.term \in Nat
         /\ m.lastIndex \in Nat /\ m.lastTerm \in Nat
BY DEF Message

\* The term of the last entry.
LEMMA LastTermIs ==
  ASSUME Before, NEW s \in Server, NEW n, n = node[s], n.log # <<>>
  PROVE  LastTerm(n) = n.log[Len(n.log)].term /\ Len(n.log) \in Nat \ {0}
<1>1. n \in Node /\ n.log \in Seq(Entry) /\ n.snap \in Nat /\ n.applied \in Nat /\ n.commit \in Nat
  BY Types, NodeFields
<1>2. n.snap <= n.applied /\ n.applied <= n.commit /\ n.commit <= Len(n.log)
  BY DEF Before, SafetyInvariant, NodeKept
<1>3. Len(n.log) \in Nat \ {0}
  BY <1>1
<1> QED
  BY <1>1, <1>2, <1>3 DEF LastTerm, TermAt, LastIndex

\* The comparison of handle_vote_request: a candidate that a holder of the
\* prefix votes for is as far.
LEMMA VotedForIsFar ==
  ASSUME Before, NEW t, NEW P, Owned(t, P), NEW s \in Server, Has(node[s].log, P),
         NEW m \in msgs, m.type = "voteRequest", t < m.term,
         LogUpToDate(node[s], m), Standing(node, m.from, m.term)
  PROVE  AsFar(node[m.from].log, m.term, t, Len(P))
<1> DEFINE n == node[s]
           T == n.log[Len(n.log)].term
           c == node[m.from]
<1>1. /\ m.from \in Server /\ m.term \in Nat /\ m.lastIndex \in Nat /\ m.lastTerm \in Nat
  BY Types, VoteRequestFields
<1>2. n.log \in Seq(Entry) /\ c.log \in Seq(Entry)
  BY <1>1, Types, NodeFields
<1>3. /\ Len(P) \in Nat \ {0} /\ P \in Seq(Entry) /\ P[Len(P)].term = t /\ t \in Nat
  BY OwnedFacts
<1>4. Len(P) \in 1 .. Len(n.log) /\ n.log[Len(P)] = P[Len(P)] /\ n.log # <<>>
  BY <1>2, <1>3 DEF Has, Agree
<1>5. LastTerm(n) = T /\ Len(n.log) \in Nat \ {0} /\ LastIndex(n) = Len(n.log)
  BY <1>4, LastTermIs DEF LastIndex
<1>6. Inherited(elections, n.log)
  BY DEF Before, SafetyInvariant, NodeKept
<1>7. elections \subseteq Election /\ \A e \in elections : TermsUpTo(e.log, e.term)
  BY Types, Leaderships
<1>8. t <= T /\ T \in Nat
  BY <1>2, <1>3, <1>4, <1>5, <1>6, <1>7, TermsInOrder
<1>9. m.lastTerm > T \/ (m.lastTerm = T /\ m.lastIndex >= Len(n.log))
  BY <1>5 DEF LogUpToDate
<1>10. MessageKept(m)
  BY DEF Before, SafetyInvariant
<1>11. /\ m.lastTerm < m.term /\ (m.lastTerm > 0 => m.lastIndex > 0) /\ Len(c.log) = m.lastIndex
       /\ m.lastIndex > 0 => c.log[m.lastIndex].term = m.lastTerm
  BY <1>10 DEF MessageKept
<1> HIDE DEF n, T, c
<1>12. m.lastIndex > 0 /\ (m.lastTerm > t \/ (m.lastTerm = t /\ m.lastIndex >= Len(P)))
  BY <1>1, <1>3, <1>4, <1>5, <1>8, <1>9, <1>11
<1>13. m.lastIndex \in 1 .. Len(c.log)
  BY <1>1, <1>2, <1>11, <1>12
<1>14. AsFar(c.log, m.term, t, Len(P))
  BY <1>11, <1>12, <1>13 DEF AsFar
<1> QED
  BY <1>14 DEF c

\* A holder keeps the prefix until a later leadership lacks it.
LEMMA HeldLog ==
  ASSUME Before, NEW s, NEW n, NEW ms, Change(s, n, ms), NEW t, NEW P, Owned(t, P),
         NEW p \in Server, HeldBy(node, votes, elections, p, t, P)
  PROVE  Has(node'[p].log, P) \/ Overridden(elections', t, P, node'[p].term + 1)
<1>1. /\ node'[p].term \in Nat /\ node[p].term \in Nat /\ node'[p].term >= node[p].term
      /\ node[p].log \in Seq(Entry) /\ node'[p].log \in Seq(Entry) /\ s \in Server
  BY Types, NodesNext, NodeFields DEF Change
<1>2. node[p].term >= t /\ (Has(node[p].log, P) \/ Overridden(elections, t, P, node[p].term + 1))
  BY DEF HeldBy
<1>3. CASE Overridden(elections, t, P, node[p].term + 1)
  BY <1>1, <1>3, OverriddenPersists
<1>4. CASE Has(node[p].log, P) /\ p # s
  BY <1>4, NodesNext
<1>5. CASE Has(node[p].log, P) /\ p = s
  <2> DEFINE o == node[s]
  <2>1. /\ node'[p] = n /\ o.log \in Seq(Entry) /\ n.log \in Seq(Entry) /\ o.term >= t
        /\ o.term \in Nat /\ n.term \in Nat /\ n.term >= o.term /\ Has(o.log, P)
        /\ n.role \in {"follower", "candidate", "leader"}
    BY <1>1, <1>2, <1>5, NodesNext, NodeFields DEF Change
  <2>2. P \in Seq(Entry) /\ Len(P) \in Nat /\ t \in Nat
    BY OwnedFacts
  <2>3. CASE n.role = "leader"
    <3>1. Grown(n.log, o.log, n.term)
      BY <2>3 DEF Change, Moves
    <3>2. Agree(P, o.log, Len(P))
      BY <2>1, <2>2, AgreeLower DEF Has
    <3>3. Agree(n.log, P, Len(P))
      BY <2>1, <2>2, <3>1, <3>2, GrownAgree
    <3> QED
      BY <2>1, <3>3 DEF Has
  <2>4. CASE n.log = o.log
    BY <2>1, <2>4
  <2>5. ASSUME NEW e \in elections, e.term = n.term, Patched(o.log, e.log, n.log)
        PROVE  Has(n.log, P) \/ Overridden(elections', t, P, n.term + 1)
    <3>1. e.log \in Seq(Entry)
      BY Types, ElectionFields
    <3>2. CASE Has(e.log, P)
      <4>1. Agree(o.log, e.log, Len(P)) /\ Len(P) \in 0 .. Len(o.log)
        BY <2>1, <2>2, <3>1, <3>2 DEF Has, Agree
      <4>2. Agree(n.log, e.log, Len(P))
        BY <2>5, <4>1 DEF Patched
      <4>3. Agree(n.log, P, Len(P))
        BY <2>1, <2>2, <3>1, <3>2, <4>2 DEF Has, Agree
      <4> QED
        BY <4>3 DEF Has
    <3>3. CASE ~Has(e.log, P)
      <4>1. e.term # t
        BY <3>3, OwnedFacts
      <4>2. Overridden(elections, t, P, n.term + 1)
        BY <2>1, <2>2, <2>5, <3>3, <4>1 DEF Overridden
      <4> QED
        BY <2>1, <4>2, OverriddenPersists
    <3> QED
      BY <3>2, <3>3
  <2>6. \/ n.role = "leader" \/ n.log = o.log
        \/ \E e \in elections : e.term = n.term /\ Patched(o.log, e.log, n.log)
    BY <2>1 DEF Change, Moves
  <2> HIDE DEF o
  <2> QED
    BY <2>1, <2>3, <2>4, <2>5, <2>6
<1> QED
  BY <1>2, <1>3, <1>4, <1>5

\* A server that stands after the step stood before it, with the same log, or
\* has only now begun to.
LEMMA StandingNext ==
  ASSUME Before, NEW s, NEW n, NEW ms, Change(s, n, ms), NEW c \in Server, NEW u,
         Standing(node', c, u)
  PROVE  \/ Standing(node, c, u) /\ node'[c].log = node[c].log
         \/ c = s /\ u = node[s].term + 1 /\ u = n.term /\ n.log = node[s].log
<1>1. node'[s] = n /\ (c # s => node'[c] = node[c])
  BY NodesNext
<1>2. CASE c # s
  BY <1>1, <1>2 DEF Standing
<1>3. CASE c = s
  <2>1. n.role = "candidate" /\ n.term = u
    BY <1>1, <1>3 DEF Standing
  <2>2. n.log = node[s].log /\ Stood(node[s], n)
    BY <2>1 DEF Change, Moves
  <2> QED
    BY <1>1, <1>3, <2>1, <2>2 DEF Stood, Standing
<1> QED
  BY <1>2, <1>3

\* The candidates a holder votes for are as far, unless the prefix is overridden.
LEMMA HeldVotes ==
  ASSUME Before, NEW s, NEW n, NEW ms, Change(s, n, ms), NEW t, NEW P, Owned(t, P),
         NEW p \in Server, HeldBy(node, votes, elections, p, t, P),
         NEW v \in votes', v.voter = p, v.term > t, v.cand \in Server, v.term \in Nat,
         Standing(node', v.cand, v.term)
  PROVE  \/ AsFar(node'[v.cand].log, v.term, t, Len(P))
         \/ Overridden(elections', t, P, v.term)
         \/ \E e \in elections' : e.term = v.term
<1> DEFINE c == v.cand
<1>1. /\ s \in Server /\ n \in Node /\ n.term \in Nat /\ node[s].term \in Nat
      /\ node[s].log \in Seq(Entry) /\ node'[s] = n /\ node[p].term \in Nat
  BY Types, NodesNext, NodeFields DEF Change
<1>2. t \in Nat
  BY OwnedFacts
<1>3. \/ Standing(node, c, v.term) /\ node'[c].log = node[c].log
      \/ c = s /\ v.term = node[s].term + 1 /\ v.term = n.term /\ n.log = node[s].log
  BY StandingNext
<1>4. Overridden(elections, t, P, v.term) => Overridden(elections', t, P, v.term)
  BY OverriddenPersists
<1>5. (\E e \in elections : e.term = v.term) => (\E e \in elections' : e.term = v.term)
  BY CarriedFacts
<1>6. Has(node[p].log, P) \/ Overridden(elections, t, P, node[p].term + 1)
  BY DEF HeldBy
<1>7. CASE v \in votes
  <2>1. v.term <= node[c].term
    BY <1>7, VoteTerms
  <2>2. Standing(node, c, v.term) /\ node'[c].log = node[c].log
    BY <1>1, <1>3, <2>1
  <2>3. \/ AsFar(node[c].log, v.term, t, Len(P))
        \/ Overridden(elections, t, P, v.term)
        \/ \E e \in elections : e.term = v.term
    BY <1>7, <2>2 DEF HeldBy
  <2> QED
    BY <1>4, <1>5, <2>2, <2>3
<1>8. CASE v \notin votes
  <2>1. p = s /\ v.term = n.term
    BY <1>8 DEF Change, CastsVotes
  <2>2. CASE c = s /\ n.term = node[s].term + 1
    <3>1. n.log = node[s].log
      BY <1>1, <1>3, <2>1, <2>2 DEF Standing
    <3>2. CASE Has(node[s].log, P)
      BY <1>1, <2>1, <2>2, <3>1, <3>2, HasIsFar
    <3>3. CASE Overridden(elections, t, P, node[s].term + 1)
      BY <1>4, <2>1, <2>2, <3>3
    <3> QED
      BY <1>6, <2>1, <3>2, <3>3
  <2>3. CASE \E m \in msgs :
               /\ m.type = "voteRequest" /\ m.from = c /\ m.term = v.term
               /\ n.log = node[s].log /\ LogUpToDate(node[s], m)
    <3>1. PICK m \in msgs :
               /\ m.type = "voteRequest" /\ m.from = c /\ m.term = v.term
               /\ n.log = node[s].log /\ LogUpToDate(node[s], m)
      BY <2>3
    <3>2. MessageKept(m)
      BY DEF Before, SafetyInvariant
    <3>3. v.term <= node[c].term
      BY <3>1, <3>2 DEF MessageKept
    <3>4. Standing(node, c, v.term) /\ node'[c].log = node[c].log
      BY <1>1, <1>3, <3>3
    <3>5. CASE Has(node[s].log, P)
      <4>1. AsFar(node[m.from].log, m.term, t, Len(P))
        BY <1>1, <3>1, <3>4, <3>5, VotedForIsFar
      <4> QED
        BY <3>1, <3>4, <4>1
    <3>6. CASE Overridden(elections, t, P, node[s].term + 1)
      <4>1. PICK f \in elections : t < f.term /\ f.term < node[s].term + 1 /\ ~Has(f.log, P)
        BY <3>6 DEF Overridden
      <4>2. f.term \in Nat /\ n.term >= node[s].term
        BY Types, ElectionFields DEF Change, Moves
      <4>3. CASE f.term = v.term
        BY <1>5, <4>3
      <4>4. CASE f.term # v.term
        <5>1. f.term < v.term
          BY <1>1, <2>1, <4>1, <4>2, <4>4
        <5>2. Overridden(elections, t, P, v.term)
          BY <4>1, <5>1 DEF Overridden
        <5> QED
          BY <1>4, <5>2
      <4> QED
        BY <4>3, <4>4
    <3> QED
      BY <1>6, <2>1, <3>5, <3>6
  <2>4. \/ c = s /\ n.term = node[s].term + 1
        \/ \E m \in msgs :
               /\ m.type = "voteRequest" /\ m.from = c /\ m.term = v.term
               /\ n.log = node[s].log /\ LogUpToDate(node[s], m)
    BY <1>8 DEF Change, CastsVotes
  <2> QED
    BY <2>2, <2>3, <2>4
<1> QED
  BY <1>7, <1>8

\* So are the leaderships it voted for.
LEMMA HeldElections ==
  ASSUME Before, NEW s, NEW n, NEW ms, Change(s, n, ms), NEW t, NEW P, Owned(t, P),
         NEW p \in Server, HeldBy(node, votes, elections, p, t, P),
         NEW e \in elections', p \in e.voters, e.term > t
  PROVE  AsFar(e.log, e.term, t, Len(P)) \/ Overridden(elections', t, P, e.term)
<1>1. /\ s \in Server /\ n \in Node /\ n.term \in Nat /\ node[s].term \in Nat
      /\ node[s].log \in Seq(Entry) /\ n.log \in Seq(Entry)
  BY Types, NodeFields DEF Change
<1>2. t \in Nat
  BY OwnedFacts
<1>3. ASSUME NEW f \in elections, e = Carried(s, n, f)
      PROVE  AsFar(e.log, e.term, t, Len(P)) \/ Overridden(elections', t, P, e.term)
  <2>1. /\ f.term = e.term /\ f.voters = e.voters /\ Grown(e.log, f.log, f.term)
        /\ f.log \in Seq(Entry) /\ e.log \in Seq(Entry) /\ e.term \in Nat
    BY <1>3, CarriedFacts, Types, ElectionFields
  <2>2. AsFar(f.log, f.term, t, Len(P)) \/ Overridden(elections, t, P, f.term)
    BY <2>1 DEF HeldBy
  <2>3. CASE AsFar(f.log, f.term, t, Len(P))
    BY <2>1, <2>3, AsFarGrows
  <2>4. CASE Overridden(elections, t, P, f.term)
    BY <2>1, <2>4, OverriddenPersists
  <2> QED
    BY <2>2, <2>3, <2>4
<1>4. CASE n.role = "leader" /\ node[s].role # "leader" /\ e = Won(s, n)
  <2>1. /\ e.term = n.term /\ e.log = n.log /\ e.voters = VotersFor(s, n.term)
        /\ Grown(n.log, node[s].log, n.term)
    BY <1>4, WonFacts
  <2>2. Stood(node[s], n)
    BY <1>4 DEF Change, Moves
  <2>3. AsFar(node[s].log, n.term, t, Len(P)) => AsFar(n.log, n.term, t, Len(P))
    BY <1>1, <2>1, AsFarGrows
  <2>4. CASE p = s
    <3>1. CASE Has(node[s].log, P)
      BY <1>1, <2>1, <2>3, <3>1, HasIsFar
    <3>2. CASE Overridden(elections, t, P, node[s].term + 1)
      <4>1. PICK f \in elections : t < f.term /\ f.term < node[s].term + 1 /\ ~Has(f.log, P)
        BY <3>2 DEF Overridden
      <4>2. f.term # n.term
        BY <1>4, NoRival
      <4>3. f.term \in Nat
        BY Types, ElectionFields
      <4>4. f.term < n.term
        BY <1>1, <2>2, <4>1, <4>2, <4>3 DEF Stood
      <4>5. Overridden(elections, t, P, n.term)
        BY <4>1, <4>4 DEF Overridden
      <4> QED
        BY <1>1, <2>1, <4>5, OverriddenPersists
    <3> QED
      BY <2>4, <3>1, <3>2 DEF HeldBy
  <2>5. CASE p # s
    <3>1. PICK v \in votes : v.voter = p /\ v.cand = s /\ v.term = n.term
      BY <1>1, <2>1, <2>5, VotersKnown
    <3>2. n.term <= node[s].term
      BY <3>1, VoteTerms
    <3>3. Standing(node, s, n.term)
      BY <1>1, <2>2, <3>2 DEF Stood, Standing
    <3>4. \A f \in elections : f.term # n.term
      BY <1>4, NoRival
    <3>5. AsFar(node[s].log, n.term, t, Len(P)) \/ Overridden(elections, t, P, n.term)
      BY <2>1, <3>1, <3>3, <3>4 DEF HeldBy
    <3>6. CASE Overridden(elections, t, P, n.term)
      BY <1>1, <2>1, <3>6, OverriddenPersists
    <3> QED
      BY <2>1, <2>3, <3>5, <3>6
  <2> QED
    BY <2>4, <2>5
<1> QED
  BY <1>3, <1>4, ElectionOrigin

\* Once held, held for ever.
LEMMA HeldPersists ==
  ASSUME Before, TypeOK', NEW s, NEW n, NEW ms, Change(s, n, ms), NEW t, NEW P, Owned(t, P),
         NEW p \in Server, HeldBy(node, votes, elections, p, t, P)
  PROVE  HeldBy(node', votes', elections', p, t, P)
<1>1. node'[p].term >= t
  <2>1. node'[p].term >= node[p].term /\ node'[p].term \in Nat /\ node[p].term \in Nat
    BY Types, NodesNext, NodeFields
  <2>2. node[p].term >= t /\ t \in Nat
    BY OwnedFacts DEF HeldBy
  <2> QED
    BY <2>1, <2>2
<1>2. ASSUME NEW v \in votes', v.voter = p, v.term > t, Standing(node', v.cand, v.term)
      PROVE  \/ AsFar(node'[v.cand].log, v.term, t, Len(P))
             \/ Overridden(elections', t, P, v.term)
             \/ \E e \in elections' : e.term = v.term
  <2>1. v.cand \in Server /\ v.term \in Nat
    BY DEF TypeOK, Vote
  <2> QED
    BY <1>2, <2>1, HeldVotes
<1>3. ASSUME NEW e \in elections', p \in e.voters, e.term > t
      PROVE  AsFar(e.log, e.term, t, Len(P)) \/ Overridden(elections', t, P, e.term)
  BY <1>3, HeldElections
<1>4. Has(node'[p].log, P) \/ Overridden(elections', t, P, node'[p].term + 1)
  BY HeldLog
<1> QED
  BY <1>1, <1>2, <1>3, <1>4 DEF HeldBy

LEMMA ChosenPersists ==
  ASSUME Before, TypeOK', NEW s, NEW n, NEW ms, Change(s, n, ms), NEW t, NEW P \in Seq(Entry),
         Chosen(node, votes, elections, t, P)
  PROVE  Chosen(node', votes', elections', t, P)
<1>1. Owned(t, P)
  BY DEF Owned, Chosen
<1>2. {p \in Server : HeldBy(node, votes, elections, p, t, P)} \subseteq
        {p \in Server : HeldBy(node', votes', elections', p, t, P)}
  BY <1>1, HeldPersists
<1>4. Quorum({p \in Server : HeldBy(node', votes', elections', p, t, P)})
  BY <1>2, QuorumMonotone DEF Chosen
<1>5. PICK f \in elections : f.term = t /\ Has(f.log, P)
  BY <1>1 DEF Owned
<1> DEFINE e == Carried(s, n, f)
<1>6. /\ e \in elections' /\ e.term = t /\ Grown(e.log, f.log, f.term)
      /\ f.log \in Seq(Entry) /\ e.log \in Seq(Entry)
  BY <1>5, CarriedFacts, Types, ElectionFields
<1> HIDE DEF e
<1>7. Has(e.log, P)
  BY <1>5, <1>6 DEF Has, Grown, Agree
<1> QED
  BY <1>4, <1>6, <1>7 DEF Chosen

\* What is settled stays settled, in every log that agrees so far.
LEMMA SettledPersists ==
  ASSUME Before, TypeOK', NEW s, NEW n, NEW ms, Change(s, n, ms),
         NEW L \in Seq(Entry), NEW M \in Seq(Entry), NEW i \in Nat, NEW t \in Nat,
         NEW u \in Nat, t <= u, Settled(node, votes, elections, L, i, t), Agree(M, L, i)
  PROVE  Settled(node', votes', elections', M, i, u)
<1>1. CASE i = 0
  BY <1>1 DEF Settled
<1>2. CASE i # 0
  <2>1. PICK f \in elections : \E j \in i .. Len(f.log) :
               /\ f.term <= t /\ Agree(L, f.log, i)
               /\ Chosen(node, votes, elections, f.term, Prefix(f.log, j))
    BY <1>2 DEF Settled
  <2>1a. PICK j \in i .. Len(f.log) :
               /\ f.term <= t /\ Agree(L, f.log, i)
               /\ Chosen(node, votes, elections, f.term, Prefix(f.log, j))
    BY <2>1
  <2> DEFINE e == Carried(s, n, f)
  <2>2. /\ e \in elections' /\ e.term = f.term /\ Grown(e.log, f.log, f.term)
        /\ f.log \in Seq(Entry) /\ e.log \in Seq(Entry) /\ f.term \in Nat
    BY CarriedFacts, Types, ElectionFields
  <2> HIDE DEF e
  <2>3. j \in 0 .. Len(f.log) /\ j \in Nat /\ Agree(f.log, f.log, j)
    BY <2>2 DEF Agree
  <2>4. Prefix(f.log, j) \in Seq(Entry)
    BY <2>2, <2>3, PrefixFacts
  <2>5. Chosen(node', votes', elections', f.term, Prefix(f.log, j))
    BY <2>1a, <2>4, ChosenPersists
  <2>6. Agree(e.log, f.log, j) /\ j <= Len(e.log)
    BY <2>2, <2>3, GrownAgree
  <2>7. Prefix(e.log, j) = Prefix(f.log, j)
    BY <2>2, <2>3, <2>6, AgreePrefix
  <2>8. Agree(M, e.log, i) /\ j \in i .. Len(e.log)
    BY <2>1a, <2>2, <2>3, <2>6 DEF Agree
  <2> QED
    BY <2>1a, <2>2, <2>5, <2>7, <2>8 DEF Settled
<1> QED
  BY <1>1, <1>2

\* The same without a step.
LEMMA SettledLower ==
  ASSUME Before, NEW L \in Seq(Entry), NEW M \in Seq(Entry), NEW i \in Nat, NEW k \in 0 .. i,
         NEW t \in Nat, NEW u \in Nat, t <= u,
         Settled(node, votes, elections, L, i, t), Agree(M, L, k)
  PROVE  Settled(node, votes, elections, M, k, u)
<1>1. CASE k = 0
  BY <1>1 DEF Settled
<1>2. CASE k # 0
  <2>1. PICK f \in elections : \E j \in i .. Len(f.log) :
               /\ f.term <= t /\ Agree(L, f.log, i)
               /\ Chosen(node, votes, elections, f.term, Prefix(f.log, j))
    BY <1>2 DEF Settled
  <2>1a. PICK j \in i .. Len(f.log) :
               /\ f.term <= t /\ Agree(L, f.log, i)
               /\ Chosen(node, votes, elections, f.term, Prefix(f.log, j))
    BY <2>1
  <2>2. f.log \in Seq(Entry) /\ f.term \in Nat
    BY Types, ElectionFields
  <2>3. Agree(M, f.log, k) /\ j \in k .. Len(f.log)
    BY <2>1a, <2>2 DEF Agree
  <2> QED
    BY <2>1a, <2>2, <2>3 DEF Settled
<1> QED
  BY <1>1, <1>2

\* What a server has acknowledged to a leadership it has acknowledged for ever.
LEMMA AcknowledgedPersists ==
  ASSUME Before, TypeOK', NEW s, NEW n, NEW ms, Change(s, n, ms), NEW p \in Server,
         NEW f \in elections, NEW i \in Nat, Acknowledged(node, votes, elections, p, f, i),
         NEW e, e = Carried(s, n, f)
  PROVE  Acknowledged(node', votes', elections', p, e, i)
<1>1. /\ e \in elections' /\ e.term = f.term /\ Grown(e.log, f.log, f.term)
      /\ f.log \in Seq(Entry) /\ e.log \in Seq(Entry) /\ f.term \in Nat
  BY CarriedFacts, Types, ElectionFields
<1>2. /\ i <= Len(f.log) /\ node[p].term >= f.term
      /\ node[p].term = f.term => Agree(node[p].log, f.log, i)
      /\ \A j \in 1 .. i : f.log[j].term = f.term =>
             HeldBy(node, votes, elections, p, f.term, Prefix(f.log, j))
  BY DEF Acknowledged
<1>3. /\ node'[p].term \in Nat /\ node[p].term \in Nat /\ node'[p].term >= node[p].term
      /\ node[p].log \in Seq(Entry) /\ node'[p].log \in Seq(Entry) /\ s \in Server
      /\ node'[s] = n /\ (p # s => node'[p] = node[p])
      /\ n.role \in {"follower", "candidate", "leader"}
  BY Types, NodesNext, NodeFields DEF Change
<1>4. Agree(e.log, f.log, i) /\ i <= Len(e.log)
  <2>1. Agree(f.log, f.log, i)
    BY <1>1, <1>2 DEF Agree
  <2> QED
    BY <1>1, <2>1, GrownAgree
<1>5. ASSUME node'[p].term = e.term PROVE Agree(node'[p].log, e.log, i)
  <2>1. node[p].term = f.term /\ Agree(node[p].log, f.log, i)
    BY <1>1, <1>2, <1>3, <1>5
  <2>2. Agree(node'[p].log, f.log, i)
    <3>1. CASE p # s
      BY <1>3, <2>1, <3>1
    <3>2. CASE p = s /\ n.role = "leader"
      <4>1. Grown(n.log, node[s].log, n.term)
        BY <3>2 DEF Change, Moves
      <4>2. node[s].log \in Seq(Entry) /\ n.log \in Seq(Entry) /\ Agree(node[s].log, f.log, i)
        BY <1>3, <2>1, <3>2
      <4>3. Agree(f.log, node[s].log, i)
        BY <1>1, <4>2 DEF Agree
      <4>4. Agree(n.log, f.log, i)
        BY <1>1, <4>1, <4>2, <4>3, GrownAgree
      <4> QED
        BY <1>3, <3>2, <4>4
    <3>3. CASE p = s /\ n.log = node[s].log
      BY <1>3, <2>1, <3>3
    <3>4. CASE p = s /\ \E g \in elections : g.term = n.term /\ Patched(node[s].log, g.log, n.log)
      <4>1. PICK g \in elections : g.term = n.term /\ Patched(node[s].log, g.log, n.log)
        BY <3>4
      <4>2. g = f
        BY <1>1, <1>3, <1>5, <3>4, <4>1, Leaderships
      <4>3. i \in 0 .. Len(node[s].log)
        BY <1>3, <2>1, <3>4 DEF Agree
      <4>4. Agree(n.log, f.log, i)
        <5>1. Patched(node[s].log, f.log, n.log) /\ Agree(node[s].log, f.log, i)
          BY <2>1, <3>4, <4>1, <4>2
        <5> QED
          BY <4>3, <5>1 DEF Patched
      <4> QED
        BY <1>3, <3>4, <4>4
    <3> QED
      BY <1>3, <3>1, <3>2, <3>3, <3>4 DEF Change, Moves
  <2> QED
    BY <1>1, <1>3, <1>4, <2>2 DEF Agree
<1>6. ASSUME NEW j \in 1 .. i, e.log[j].term = e.term
      PROVE  HeldBy(node', votes', elections', p, e.term, Prefix(e.log, j))
  <2>1. f.log[j].term = f.term /\ j \in 0 .. Len(f.log) /\ j \in Nat /\ Agree(e.log, f.log, j)
    BY <1>1, <1>2, <1>4, <1>6 DEF Agree
  <2>2. Prefix(e.log, j) = Prefix(f.log, j) /\ Has(f.log, Prefix(f.log, j))
    <3>1. Agree(f.log, f.log, j)
      BY <1>1, <2>1 DEF Agree
    <3> QED
      BY <1>1, <2>1, <3>1, AgreePrefix
  <2>3. /\ Prefix(f.log, j) \in Seq(Entry) /\ Len(Prefix(f.log, j)) = j
        /\ Prefix(f.log, j)[j] = f.log[j]
    BY <1>1, <2>1, PrefixFacts
  <2>4. Owned(f.term, Prefix(f.log, j))
    BY <2>1, <2>2, <2>3 DEF Owned
  <2>5. HeldBy(node, votes, elections, p, f.term, Prefix(f.log, j))
    BY <1>2, <2>1
  <2> QED
    BY <1>1, <2>2, <2>4, <2>5, HeldPersists
<1>7. i <= Len(e.log) /\ node'[p].term >= e.term
  BY <1>1, <1>2, <1>3, <1>4
<1> QED
  BY <1>5, <1>6, <1>7 DEF Acknowledged

-----------------------------------------------------------------------------
(* Leader completeness: no later leadership lacks a chosen prefix.  Of the *)
(* ones that did, take the first; a common voter of it and of the prefix   *)
(* shows an entry it inherited from a leadership between the two.          *)

LEMMA ChosenSafe ==
  ASSUME Before, NEW t, NEW P \in Seq(Entry), Chosen(node, votes, elections, t, P),
         NEW e \in elections, e.term >= t
  PROVE  Has(e.log, P)
<1>1. Owned(t, P)
  BY DEF Owned, Chosen
<1>2. /\ t \in Nat /\ Len(P) \in Nat \ {0} /\ P[Len(P)].term = t
      /\ \A f \in elections : f.term = t => Has(f.log, P)
  BY <1>1, OwnedFacts
<1> DEFINE Lacks(u) == \E f \in elections : f.term = u /\ f.term >= t /\ ~Has(f.log, P)
           S == {u \in Nat : Lacks(u)}
<1> SUFFICES ASSUME ~Has(e.log, P) PROVE FALSE
  OBVIOUS
<1>3. e.term \in S
  BY Types, ElectionFields
<1>4. Min(S) \in S /\ \A u \in S : u >= Min(S)
  <2>1. S \in SUBSET Nat /\ S # {}
    BY <1>3
  <2> HIDE DEF S
  <2> QED
    BY <2>1, MinInNat
<1>5. PICK f \in elections : f.term = Min(S) /\ f.term >= t /\ ~Has(f.log, P)
  BY <1>4
<1>6. \A g \in elections : g.term >= t /\ g.term < f.term => Has(g.log, P)
  <2> SUFFICES ASSUME NEW g \in elections, g.term >= t, g.term < f.term, ~Has(g.log, P)
               PROVE  FALSE
    OBVIOUS
  <2>1. g.term \in Nat /\ f.term \in Nat
    BY Types, ElectionFields
  <2>2. g.term \in S
    BY <2>1
  <2> HIDE DEF S
  <2> QED
    BY <1>4, <1>5, <2>1, <2>2
<1> HIDE DEF S
<1>7. f.term > t /\ f.term \in Nat /\ f.log \in Seq(Entry)
  <2>1. f.term \in Nat /\ f.log \in Seq(Entry)
    BY Types, ElectionFields
  <2> QED
    BY <1>2, <1>5, <2>1
<1>8. PICK p \in Server : p \in f.voters /\ HeldBy(node, votes, elections, p, t, P)
  <2>2. Quorum(f.voters) /\ OneRemovable
    BY Leaderships DEF Before
  <2>3. Quorum({p \in Server : HeldBy(node, votes, elections, p, t, P)})
    BY DEF Chosen
  <2>4. \E p \in Server :
           p \in f.voters /\ p \in {q \in Server : HeldBy(node, votes, elections, q, t, P)}
    BY <2>2, <2>3, QuorumsMeet
  <2> QED
    BY <2>4
<1>9. ~Overridden(elections, t, P, f.term)
  BY <1>2, <1>6, <1>7, Types, ElectionFields DEF Overridden
<1>10. AsFar(f.log, f.term, t, Len(P))
  BY <1>7, <1>8, <1>9 DEF HeldBy
<1>11. PICK k \in 1 .. Len(f.log) :
          f.log[k].term < f.term /\ (f.log[k].term > t \/ (f.log[k].term = t /\ k >= Len(P)))
  BY <1>10 DEF AsFar
<1>12. Inherited(elections, f.log)
  BY Leaderships
<1>13. PICK g \in elections : g.term = f.log[k].term /\ Agree(f.log, g.log, k)
  BY <1>12 DEF Inherited
<1>14. g.term \in Nat /\ g.log \in Seq(Entry)
  BY Types, ElectionFields
<1>15. Has(g.log, P)
  BY <1>2, <1>6, <1>11, <1>13, <1>14
<1>16. Len(P) <= k
  <2> SUFFICES ASSUME k < Len(P), f.log[k].term > t PROVE FALSE
    BY <1>2, <1>11
  <2>1. Len(P) \in 1 .. Len(g.log) /\ k \in 1 .. Len(P) /\ g.log[Len(P)] = P[Len(P)]
    BY <1>2, <1>14, <1>15 DEF Has, Agree
  <2>2. Inherited(elections, g.log)
    BY Leaderships
  <2>3. elections \subseteq Election /\ \A h \in elections : TermsUpTo(h.log, h.term)
    BY Types, Leaderships
  <2>4. g.log[k].term <= g.log[Len(P)].term /\ g.log[k].term \in Nat
    BY <1>14, <2>1, <2>2, <2>3, TermsInOrder
  <2>5. g.log[k] = f.log[k]
    BY <1>13 DEF Agree
  <2> QED
    BY <1>2, <2>1, <2>4, <2>5
<1>17. Has(f.log, P)
  BY <1>2, <1>7, <1>13, <1>14, <1>15, <1>16 DEF Has, Agree
<1> QED
  BY <1>5, <1>17

\* A leadership as late as the one that settled them has the settled entries.
LEMMA SettledSafe ==
  ASSUME Before, NEW L \in Seq(Entry), NEW i \in Nat, NEW t \in Nat,
         Settled(node, votes, elections, L, i, t), NEW e \in elections, e.term >= t
  PROVE  Agree(L, e.log, i) \/ i = 0
<1> SUFFICES ASSUME i # 0 PROVE Agree(L, e.log, i)
  OBVIOUS
<1>1. PICK f \in elections : \E j \in i .. Len(f.log) :
             /\ f.term <= t /\ Agree(L, f.log, i)
             /\ Chosen(node, votes, elections, f.term, Prefix(f.log, j))
  BY DEF Settled
<1>2. PICK j \in i .. Len(f.log) :
             /\ f.term <= t /\ Agree(L, f.log, i)
             /\ Chosen(node, votes, elections, f.term, Prefix(f.log, j))
  BY <1>1
<1>3. /\ f.log \in Seq(Entry) /\ f.term \in Nat /\ e.log \in Seq(Entry) /\ e.term \in Nat
  BY Types, ElectionFields
<1>4. j \in 0 .. Len(f.log)
  BY <1>3
<1>5. /\ Prefix(f.log, j) \in Seq(Entry) /\ Len(Prefix(f.log, j)) = j
      /\ \A k \in 1 .. j : Prefix(f.log, j)[k] = f.log[k]
  BY <1>3, <1>4, PrefixFacts
<1>6. e.term >= f.term
  BY <1>2, <1>3
<1>7. Has(e.log, Prefix(f.log, j))
  BY <1>2, <1>5, <1>6, ChosenSafe
<1> QED
  BY <1>2, <1>3, <1>5, <1>7, SMTT(30) DEF Has, Agree

\* Two settled prefixes agree as far as both go.
LEMMA SettledAgree ==
  ASSUME Before, NEW L \in Seq(Entry), NEW i \in Nat, NEW t \in Nat,
         Settled(node, votes, elections, L, i, t),
         NEW M \in Seq(Entry), NEW j \in Nat, NEW u \in Nat,
         Settled(node, votes, elections, M, j, u), NEW k \in Nat, 0 < k, k <= i, k <= j
  PROVE  Agree(L, M, k)
<1>1. PICK e \in elections : e.term <= t /\ Agree(L, e.log, i) /\
             \E x \in i .. Len(e.log) : Chosen(node, votes, elections, e.term, Prefix(e.log, x))
  BY DEF Settled
<1>2. PICK f \in elections : f.term <= u /\ Agree(M, f.log, j) /\
             \E x \in j .. Len(f.log) : Chosen(node, votes, elections, f.term, Prefix(f.log, x))
  BY DEF Settled
<1>3. /\ f.log \in Seq(Entry) /\ f.term \in Nat /\ e.log \in Seq(Entry) /\ e.term \in Nat
  BY Types, ElectionFields
<1>4. CASE e.term <= f.term
  <2>1. Settled(node, votes, elections, L, i, e.term)
    BY <1>1, <1>3 DEF Settled
  <2>2. Agree(L, f.log, i)
    BY <1>3, <1>4, <2>1, SettledSafe
  <2> QED
    BY <1>2, <1>3, <2>2, SMTT(30) DEF Agree
<1>5. CASE f.term <= e.term
  <2>1. Settled(node, votes, elections, M, j, f.term)
    BY <1>2, <1>3 DEF Settled
  <2>2. Agree(M, e.log, j)
    BY <1>3, <1>5, <2>1, SettledSafe
  <2> QED
    BY <1>1, <1>3, <2>2, SMTT(30) DEF Agree
<1> QED
  BY <1>3, <1>4, <1>5

-----------------------------------------------------------------------------
(* What a step newly establishes.                                          *)

\* The votes of s after the step are in no later term than its own.
LEMMA VotesNext ==
  ASSUME Before, NEW s, NEW n, NEW ms, Change(s, n, ms), NEW v \in votes', v.voter = s
  PROVE  v.term \in Nat /\ v.term <= n.term
<1>1. n.term \in Nat /\ node[s].term \in Nat /\ n.term >= node[s].term
  BY Types, NodeFields DEF Change, Moves
<1>2. CASE v \in votes
  BY <1>1, <1>2, VoteTerms
<1>3. CASE v \notin votes
  BY <1>1, <1>3 DEF Change, CastsVotes
<1> QED
  BY <1>2, <1>3

\* Every voter of a leadership has voted for it.
LEMMA VotedForLeadership ==
  ASSUME Before, NEW s, NEW n, NEW ms, Change(s, n, ms), NEW e \in elections', NEW p \in e.voters
  PROVE  VotedNext(p, e.leader, e.term) /\ p \in Server
<1>1. votes \subseteq votes' /\ s \in Server /\ node[s].term \in Nat /\ n.term \in Nat
  BY Types, NodeFields DEF Change, CastsVotes
<1>2. ASSUME NEW f \in elections, e = Carried(s, n, f)
      PROVE  VotedNext(p, e.leader, e.term) /\ p \in Server
  <2>1. e.term = f.term /\ e.leader = f.leader /\ e.voters = f.voters /\ e \in Election
    BY <1>2, CarriedFacts
  <2>2. Voted(p, e.leader, e.term)
    BY <2>1, Leaderships
  <2> QED
    BY <1>1, <2>1, <2>2, ElectionFields DEF Voted, VotedNext
<1>3. CASE n.role = "leader" /\ node[s].role # "leader" /\ e = Won(s, n)
  <2>1. e.term = n.term /\ e.leader = s /\ e.voters = VotersFor(s, n.term)
    BY <1>3, WonFacts
  <2>2. Stood(node[s], n)
    BY <1>3 DEF Change, Moves
  <2>3. CASE p # s
    BY <1>1, <2>1, <2>3, VotersKnown DEF VotedNext
  <2>4. CASE p = s /\ n.term = node[s].term + 1
    BY <1>1, <1>3, <2>1, <2>4 DEF Change, CastsVotes
  <2>5. CASE p = s /\ node[s].role = "candidate" /\ n.term = node[s].term
    <3>1. Voted(s, s, n.term)
      BY <1>1, <2>5 DEF Before, SafetyInvariant, NodeKept
    <3> QED
      BY <1>1, <2>1, <2>5, <3>1 DEF Voted, VotedNext
  <2> QED
    BY <2>2, <2>3, <2>4, <2>5 DEF Stood
<1> QED
  BY <1>2, <1>3, ElectionOrigin

\* A server whose log agrees with that of the leadership of its own term has
\* acknowledged it: it has not voted in a later term.
LEMMA AcknowledgedNow ==
  ASSUME Before, NEW s, NEW n, NEW ms, Change(s, n, ms),
         NEW e \in elections', e.term = n.term, e.log \in Seq(Entry),
         NEW i \in Nat, Agree(n.log, e.log, i)
  PROVE  Acknowledged(node', votes', elections', s, e, i)
<1>1. node'[s] = n /\ s \in Server /\ n.term \in Nat /\ n.log \in Seq(Entry)
  BY NodesNext, NodeFields DEF Change
<1>2. i <= Len(e.log)
  BY DEF Agree
<1>3. ASSUME NEW j \in 1 .. i, e.log[j].term = e.term
      PROVE  HeldBy(node', votes', elections', s, e.term, Prefix(e.log, j))
  <2>1. Has(n.log, Prefix(e.log, j))
    <3>1. Agree(n.log, e.log, j) /\ j \in Nat
      BY <1>1, AgreeLower
    <3> QED
      BY <1>1, <3>1, AgreePrefix
  <2>2. \A v \in votes' : v.voter = s => ~(v.term > e.term)
    BY <1>1, VotesNext
  <2>3. \A f \in elections' : s \in f.voters => ~(f.term > e.term)
    BY <2>2, VotedForLeadership DEF VotedNext
  <2> QED
    BY <1>1, <2>1, <2>2, <2>3 DEF HeldBy
<1> QED
  BY <1>1, <1>2, <1>3 DEF Acknowledged

\* The leadership of a leader.
LEMMA OwnLeadership ==
  ASSUME Before, NEW s, NEW n, NEW ms, Change(s, n, ms), n.role = "leader"
  PROVE  \E e \in elections' :
           /\ e.leader = s /\ e.term = n.term /\ e.log = n.log
           /\ node[s].role = "leader" =>
                \E f \in elections : f.leader = s /\ f.term = n.term /\ e = Carried(s, n, f)
<1>1. CASE node[s].role = "leader"
  <2>1. n.term = node[s].term /\ s \in Server
    BY <1>1 DEF Change, Moves
  <2>2. PICK f \in elections : f.leader = s /\ f.term = node[s].term
    BY <1>1, <2>1 DEF Before, SafetyInvariant, NodeKept
  <2> DEFINE e == Carried(s, n, f)
  <2>3. e \in elections' /\ e.leader = s /\ e.term = n.term /\ e.log = n.log
    BY <1>1, <2>1, <2>2, CarriedFacts
  <2> QED
    BY <2>1, <2>2, <2>3
<1>2. CASE node[s].role # "leader"
  BY <1>2, WonFacts
<1> QED
  BY <1>1, <1>2

\* Committed entries are never lost from a log.
LEMMA CommittedLogKept ==
  ASSUME Before, NEW s, NEW n, NEW ms, Change(s, n, ms)
  PROVE  /\ Agree(n.log, node[s].log, node[s].commit)
         /\ Settled(node, votes, elections, n.log, node[s].commit, n.term)
<1> DEFINE o == node[s]
<1>1. /\ s \in Server /\ n.term \in Nat /\ o.term \in Nat /\ n.term >= o.term
      /\ n.log \in Seq(Entry) /\ o.log \in Seq(Entry) /\ o.commit \in Nat
      /\ n.role \in {"follower", "candidate", "leader"}
  BY Types, NodeFields DEF Change, Moves
<1>2. o.commit <= Len(o.log) /\ Settled(node, votes, elections, o.log, o.commit, o.term)
  BY <1>1 DEF Before, SafetyInvariant, NodeKept
<1>3. Agree(n.log, o.log, o.commit)
  <2>1. CASE n.role = "leader"
    <3>1. Grown(n.log, o.log, n.term)
      BY <2>1 DEF Change, Moves
    <3> QED
      BY <1>1, <1>2, <3>1 DEF Grown, Agree
  <2>2. CASE n.log = o.log
    BY <1>1, <1>2, <2>2 DEF Agree
  <2>3. CASE \E e \in elections : e.term = n.term /\ Patched(o.log, e.log, n.log)
    <3>1. PICK e \in elections : e.term = n.term /\ Patched(o.log, e.log, n.log)
      BY <2>3
    <3>2. e.log \in Seq(Entry)
      BY Types, ElectionFields
    <3>3. CASE o.commit = 0
      BY <1>1, <3>3 DEF Agree
    <3>4. CASE o.commit # 0
      <4>1. Agree(o.log, e.log, o.commit) /\ o.commit \in 0 .. Len(o.log)
        BY <1>1, <1>2, <3>1, <3>4, SettledSafe
      <4>2. Agree(n.log, e.log, o.commit)
        BY <3>1, <4>1 DEF Patched
      <4> QED
        BY <1>1, <3>2, <4>1, <4>2 DEF Agree
    <3> QED
      BY <3>3, <3>4
  <2> QED
    BY <1>1, <2>1, <2>2, <2>3 DEF Change, Moves
<1>4. o.commit \in 0 .. o.commit
  BY <1>1
<1> HIDE DEF o
<1>5. Settled(node, votes, elections, n.log, o.commit, n.term)
  BY <1>1, <1>2, <1>3, <1>4, SettledLower
<1> QED
  BY <1>3, <1>5 DEF o

-----------------------------------------------------------------------------
(* The configuration at an index of the log.                               *)

\* k is the last index up to i at which the store holds an entry of the kind.
Last(n, kind, i, k) ==
  \/ k = 0 /\ \A x \in n.snap + 1 .. Len(n.log) : x <= i => n.log[x].kind # kind
  \/ /\ k \in n.snap + 1 .. Len(n.log) /\ k <= i /\ n.log[k].kind = kind
     /\ \A x \in n.snap + 1 .. Len(n.log) : x <= i /\ n.log[x].kind = kind => x <= k

LEMMA LastOfKindIs ==
  ASSUME NEW n \in Node, NEW kind, NEW i \in Nat, NEW k, k = LastOfKind(n, kind, i)
  PROVE  Last(n, kind, i, k) /\ k \in Nat
<1> DEFINE held == {x \in n.snap + 1 .. LastIndex(n) : x <= i /\ n.log[x].kind = kind}
<1>1. n.snap \in Nat /\ Len(n.log) \in Nat
  BY NodeFields
<1>2. CASE held = {}
  <2>1. k = 0
    BY <1>2 DEF LastOfKind
  <2> QED
    BY <1>2, <2>1 DEF Last, LastIndex
<1>3. CASE held # {}
  <2>1. held \in SUBSET (n.snap + 1 .. Len(n.log)) /\ n.snap + 1 \in Nat
    BY <1>1 DEF LastIndex
  <2>2. \A x : x \in held <=> x \in n.snap + 1 .. Len(n.log) /\ x <= i /\ n.log[x].kind = kind
    BY DEF LastIndex
  <2>3. k = Max(held)
    BY <1>3 DEF LastOfKind
  <2> HIDE DEF held
  <2>4. Max(held) \in held /\ \A x \in held : x <= Max(held)
    BY <1>1, <1>3, <2>1, MaxInInterval
  <2>5. k \in n.snap + 1 .. Len(n.log) /\ k <= i /\ n.log[k].kind = kind
    BY <2>2, <2>3, <2>4
  <2>6. \A x \in n.snap + 1 .. Len(n.log) : x <= i /\ n.log[x].kind = kind => x <= k
    BY <2>2, <2>3, <2>4
  <2>7. k \in Nat
    BY <1>1, <2>5
  <2> QED
    BY <2>5, <2>6, <2>7 DEF Last
<1> QED
  BY <1>2, <1>3

LEMMA LastIsUnique ==
  ASSUME NEW n \in Node, NEW kind, NEW i \in Nat, NEW k, Last(n, kind, i, k)
  PROVE  k = LastOfKind(n, kind, i)
<1>1. PICK l : l = LastOfKind(n, kind, i)
  OBVIOUS
<1>2. Last(n, kind, i, l)
  BY <1>1, LastOfKindIs
<1>3. n.snap \in Nat /\ Len(n.log) \in Nat
  BY NodeFields
<1>4. CASE k = 0
  <2>1. ~(l \in n.snap + 1 .. Len(n.log) /\ l <= i /\ n.log[l].kind = kind)
    BY <1>3, <1>4 DEF Last
  <2> QED
    BY <1>1, <1>2, <1>4, <2>1 DEF Last
<1>5. CASE k # 0
  <2>1. k \in n.snap + 1 .. Len(n.log) /\ k <= i /\ n.log[k].kind = kind
    BY <1>5 DEF Last
  <2>2. l # 0 /\ l \in n.snap + 1 .. Len(n.log) /\ l <= i /\ n.log[l].kind = kind
    BY <1>2, <1>3, <2>1 DEF Last
  <2>3. k <= l /\ l <= k
    BY <1>2, <1>5, <2>1, <2>2 DEF Last
  <2> QED
    BY <1>1, <1>3, <2>1, <2>2, <2>3
<1> QED
  BY <1>4, <1>5

\* A configuration put together from the base b and entries of the log.
Built(b, log, f, j, p) ==
  [cur  |-> IF f = 0 THEN b.cur
            ELSE IF p > 0 THEN log[p].members ELSE FinalizeTransition(b).cur,
   next |-> IF j > f THEN log[j].members ELSE IF f = 0 THEN b.next ELSE NoMembers]

\* f, j and p are the entries it is put together from.
BuiltFrom(n, i, f, j, p) ==
  /\ f \in Nat /\ j \in Nat /\ p \in Nat
  /\ Last(n, "finalize", i, f) /\ Last(n, "joint", i, j) /\ Last(n, "joint", f, p)

LEMMA ConfigurationIs ==
  ASSUME NEW n \in Node, NEW i \in Nat
  PROVE  \E f, j, p : BuiltFrom(n, i, f, j, p) /\ ConfigurationAt(n, i) = Built(n.base, n.log, f, j, p)
<1>1. PICK f : f = LastOfKind(n, "finalize", i)
  OBVIOUS
<1>2. PICK j : j = LastOfKind(n, "joint", i)
  OBVIOUS
<1>3. PICK p : p = LastOfKind(n, "joint", f)
  OBVIOUS
<1>4. Last(n, "finalize", i, f) /\ f \in Nat
  BY <1>1, LastOfKindIs
<1>5. Last(n, "joint", i, j) /\ j \in Nat
  BY <1>2, LastOfKindIs
<1>6. Last(n, "joint", f, p) /\ p \in Nat
  BY <1>3, <1>4, LastOfKindIs
<1>7. ConfigurationAt(n, i) = Built(n.base, n.log, f, j, p)
  BY <1>1, <1>2, <1>3 DEF ConfigurationAt, Built
<1> QED
  BY <1>4, <1>5, <1>6, <1>7 DEF BuiltFrom

LEMMA ConfigurationBuilt ==
  ASSUME NEW n \in Node, NEW i \in Nat, NEW f, NEW j, NEW p, BuiltFrom(n, i, f, j, p)
  PROVE  ConfigurationAt(n, i) = Built(n.base, n.log, f, j, p)
<1>1. f = LastOfKind(n, "finalize", i) /\ j = LastOfKind(n, "joint", i)
  BY LastIsUnique DEF BuiltFrom
<1>2. p = LastOfKind(n, "joint", f)
  BY LastIsUnique DEF BuiltFrom
<1> QED
  BY <1>1, <1>2 DEF ConfigurationAt, Built

\* It is one of the usual ones.
LEMMA UsualConfiguration ==
  ASSUME NEW n \in Node, UsualNode(n), NEW i \in Nat
  PROVE  Usually(ConfigurationAt(n, i))
<1>1. PICK f, j, p : BuiltFrom(n, i, f, j, p) /\ ConfigurationAt(n, i) = Built(n.base, n.log, f, j, p)
  BY ConfigurationIs
<1>2. n.snap \in Nat /\ Len(n.log) \in Nat
  BY NodeFields
<1>3. p > 0 => p \in 1 .. Len(n.log) /\ n.log[p].kind = "joint"
  BY <1>1, <1>2 DEF BuiltFrom, Last
<1>4. j > f => j \in 1 .. Len(n.log) /\ n.log[j].kind = "joint"
  BY <1>1, <1>2 DEF BuiltFrom, Last
<1>5. (p > 0 => n.log[p].members = Remaining) /\ (j > f => n.log[j].members = Remaining)
  BY <1>3, <1>4 DEF UsualNode, UsualLog
<1>6. FinalizeTransition(n.base).cur \in {Everyone, Remaining}
  <2>1. ~IsJointConsensus([cur |-> n.base.cur, next |-> NoMembers])
    BY DEF IsJointConsensus, NoMembers, Ids
  <2>2. IsJointConsensus(n.base) => n.base.next = Remaining
    BY <2>1 DEF UsualNode, Usually, IsJointConsensus
  <2> QED
    BY <2>2 DEF UsualNode, Usually, FinalizeTransition, Stable
<1> QED
  BY <1>1, <1>5, <1>6 DEF Built, Usually, UsualNode

LEMMA SameConfiguration ==
  ASSUME NEW m \in Node, NEW n \in Node, m.snap = n.snap, m.base = n.base, NEW i \in Nat,
         Agree(m.log, n.log, i)
  PROVE  ConfigurationAt(m, i) = ConfigurationAt(n, i)
<1>1. PICK f, j, p : BuiltFrom(n, i, f, j, p) /\ ConfigurationAt(n, i) = Built(n.base, n.log, f, j, p)
  BY ConfigurationIs
<1>2. n.snap \in Nat /\ Len(n.log) \in Nat /\ Len(m.log) \in Nat
  BY NodeFields
<1>3. ASSUME NEW kind, NEW h \in Nat, h <= i, NEW k \in Nat, Last(n, kind, h, k)
      PROVE  Last(m, kind, h, k)
  <2>0. i <= Len(m.log) /\ i <= Len(n.log) /\ \A x \in 1 .. i : m.log[x] = n.log[x]
    BY DEF Agree
  <2>1. ASSUME NEW x \in n.snap + 1 .. Len(n.log), x <= h
        PROVE  x \in n.snap + 1 .. Len(m.log) /\ m.log[x] = n.log[x]
    <3>1. x \in 1 .. i /\ x \in n.snap + 1 .. Len(m.log)
      BY <1>2, <1>3, <2>0, <2>1
    <3> QED
      BY <2>0, <3>1
  <2>2. ASSUME NEW x \in n.snap + 1 .. Len(m.log), x <= h
        PROVE  x \in n.snap + 1 .. Len(n.log) /\ m.log[x] = n.log[x]
    <3>1. x \in 1 .. i /\ x \in n.snap + 1 .. Len(n.log)
      BY <1>2, <1>3, <2>0, <2>2
    <3> QED
      BY <2>0, <3>1
  <2>3. CASE k = 0
    <3>1. \A x \in n.snap + 1 .. Len(n.log) : x <= h => n.log[x].kind # kind
      BY <1>2, <1>3, <2>3 DEF Last
    <3>2. \A x \in m.snap + 1 .. Len(m.log) : x <= h => m.log[x].kind # kind
      BY <2>2, <3>1
    <3> QED
      BY <2>3, <3>2 DEF Last
  <2>4. CASE k # 0
    <3>1. /\ k \in n.snap + 1 .. Len(n.log) /\ k <= h /\ n.log[k].kind = kind
          /\ \A x \in n.snap + 1 .. Len(n.log) : x <= h /\ n.log[x].kind = kind => x <= k
      BY <1>3, <2>4 DEF Last
    <3>2. k \in n.snap + 1 .. Len(m.log) /\ m.log[k].kind = kind
      BY <2>1, <3>1
    <3>3. \A x \in n.snap + 1 .. Len(m.log) : x <= h /\ m.log[x].kind = kind => x <= k
      BY <2>2, <3>1
    <3> QED
      BY <3>1, <3>2, <3>3 DEF Last
  <2> QED
    BY <2>3, <2>4
<1>4. f <= i
  BY <1>1, <1>2 DEF BuiltFrom, Last
<1>5. BuiltFrom(m, i, f, j, p)
  BY <1>1, <1>3, <1>4 DEF BuiltFrom
<1>6. (p > 0 => m.log[p] = n.log[p]) /\ (j > f => m.log[j] = n.log[j])
  <2>1. p > 0 => p \in 1 .. i
    BY <1>1, <1>2, <1>4 DEF BuiltFrom, Last
  <2>2. j > f => j \in 1 .. i
    BY <1>1, <1>2 DEF BuiltFrom, Last
  <2> QED
    BY <2>1, <2>2 DEF Agree
<1>7. Built(m.base, m.log, f, j, p) = Built(n.base, n.log, f, j, p)
  BY <1>6 DEF Built
<1> QED
  BY <1>1, <1>5, <1>7, ConfigurationBuilt

\* Facts about the usual configurations: the voters are those of the current
\* half, and nobody else is a member.
LEMMA UsuallyFacts ==
  ASSUME NEW c, Usually(c), c = [cur |-> c.cur, next |-> c.next]
  PROVE  /\ AllMembers(c).voters = c.cur.voters /\ AllMembers(c).learners = {}
         /\ Ids(AllMembers(c)) = c.cur.voters
         /\ \A p : (IsVoter(c, p) <=> p \in c.cur.voters) /\ (Contains(c, p) <=> p \in c.cur.voters)
         /\ IsJointConsensus(c) => c.next = Remaining
         /\ ~IsJointConsensus(c) => c.next = NoMembers
         /\ c.cur.voters \in {Server, Server \ Removable} /\ c \in Configuration
<1>1. /\ c.cur \in {Everyone, Remaining} /\ c.next \in {NoMembers, Remaining}
  BY DEF Usually
<1>2. c.cur.learners = {} /\ c.next.learners = {} /\ c.next.voters \subseteq c.cur.voters
  BY <1>1 DEF Everyone, Remaining, NoMembers
<1>3. c.cur.voters \in {Server, Server \ Removable}
  BY <1>1, MapsTyped
<1>4. AllMembers(c).voters = c.cur.voters /\ AllMembers(c).learners = {}
  BY <1>2 DEF AllMembers, Ids
<1>5. Ids(AllMembers(c)) = c.cur.voters
  BY <1>4 DEF Ids
<1>6. \A p : (IsVoter(c, p) <=> p \in c.cur.voters) /\ (Contains(c, p) <=> p \in c.cur.voters)
  BY <1>2 DEF IsVoter, Contains, Ids
<1>7. IsJointConsensus(c) => c.next = Remaining
  BY <1>1 DEF IsJointConsensus, Ids, NoMembers
<1>8. ~IsJointConsensus(c) => c.next = NoMembers
  BY <1>1 DEF IsJointConsensus, Ids, NoMembers, Remaining
<1>9. c.cur \in Members /\ c.next \in Members
  BY <1>1, MapsTyped
<1>10. c \in Configuration
  BY <1>9 DEF Configuration
<1> QED
  BY <1>3, <1>4, <1>5, <1>6, <1>7, <1>8, <1>10

LEMMA ConfigurationShape ==
  ASSUME NEW c \in Configuration
  PROVE  c = [cur |-> c.cur, next |-> c.next]
BY DEF Configuration

\* The configuration after the snapshot is the base.
LEMMA BaseConfiguration ==
  ASSUME NEW n \in Node, UsualNode(n), NEW i \in Nat, i <= n.snap
  PROVE  ConfigurationAt(n, i) = n.base
<1>1. n.snap \in Nat /\ Len(n.log) \in Nat /\ n.base \in Configuration
  BY NodeFields DEF Node
<1>2. BuiltFrom(n, i, 0, 0, 0)
  BY <1>1 DEF BuiltFrom, Last
<1>3. ConfigurationAt(n, i) = Built(n.base, n.log, 0, 0, 0)
  BY <1>2, ConfigurationBuilt
<1>4. Built(n.base, n.log, 0, 0, 0) = [cur |-> n.base.cur, next |-> n.base.next]
  BY DEF Built
<1> QED
  BY <1>1, <1>3, <1>4, ConfigurationShape

\* One entry more.
LEMMA LastStep ==
  ASSUME NEW n \in Node, NEW kind, NEW i \in n.snap + 1 .. Len(n.log), NEW k,
         Last(n, kind, i - 1, k)
  PROVE  /\ n.log[i].kind # kind => Last(n, kind, i, k)
         /\ n.log[i].kind = kind => Last(n, kind, i, i)
<1>1. n.snap \in Nat /\ Len(n.log) \in Nat /\ i \in Nat
  BY NodeFields
<1>2. \A x \in n.snap + 1 .. Len(n.log) : x <= i <=> x <= i - 1 \/ x = i
  BY <1>1
<1>3. ASSUME n.log[i].kind # kind PROVE Last(n, kind, i, k)
  <2>1. CASE k = 0 /\ \A x \in n.snap + 1 .. Len(n.log) : x <= i - 1 => n.log[x].kind # kind
    BY <1>2, <1>3, <2>1 DEF Last
  <2>2. CASE /\ k \in n.snap + 1 .. Len(n.log) /\ k <= i - 1 /\ n.log[k].kind = kind
             /\ \A x \in n.snap + 1 .. Len(n.log) : x <= i - 1 /\ n.log[x].kind = kind => x <= k
    <3>1. k <= i
      BY <1>2, <2>2
    <3>2. \A x \in n.snap + 1 .. Len(n.log) : x <= i /\ n.log[x].kind = kind => x <= k
      BY <1>2, <1>3, <2>2
    <3> QED
      BY <2>2, <3>1, <3>2 DEF Last
  <2> QED
    BY <2>1, <2>2 DEF Last
<1>4. ASSUME n.log[i].kind = kind PROVE Last(n, kind, i, i)
  <2>1. i <= i /\ \A x \in n.snap + 1 .. Len(n.log) : x <= i /\ n.log[x].kind = kind => x <= i
    BY <1>1
  <2> QED
    BY <1>4, <2>1 DEF Last
<1> QED
  BY <1>3, <1>4

LEMMA ConfigurationStep ==
  ASSUME NEW n \in Node, UsualNode(n), NEW i \in n.snap + 1 .. Len(n.log),
         NEW c, c = ConfigurationAt(n, i - 1)
  PROVE  /\ n.log[i].kind = "joint" => ConfigurationAt(n, i) = TransitionTo(c, n.log[i].members)
         /\ n.log[i].kind = "finalize" => ConfigurationAt(n, i) = FinalizeTransition(c)
         /\ n.log[i].kind \notin {"joint", "finalize"} => ConfigurationAt(n, i) = c
<1>1. n.snap \in Nat /\ Len(n.log) \in Nat /\ i \in Nat /\ i - 1 \in Nat /\ i > 0
  BY NodeFields
<1>2. PICK f, j, p : BuiltFrom(n, i - 1, f, j, p) /\ c = Built(n.base, n.log, f, j, p)
  BY <1>1, ConfigurationIs
<1>3. f \in Nat /\ j \in Nat /\ p \in Nat /\ f <= i - 1 /\ j <= i - 1
  BY <1>1, <1>2 DEF BuiltFrom, Last
<1>4. CASE n.log[i].kind = "joint"
  <2>1. BuiltFrom(n, i, f, i, p)
    BY <1>1, <1>2, <1>4, LastStep DEF BuiltFrom
  <2>2. ConfigurationAt(n, i) = Built(n.base, n.log, f, i, p)
    BY <1>1, <2>1, ConfigurationBuilt
  <2>3. i > f
    BY <1>1, <1>3
  <2>4. Built(n.base, n.log, f, i, p) = TransitionTo(c, n.log[i].members)
    BY <1>2, <2>3 DEF Built, TransitionTo
  <2> QED
    BY <1>4, <2>2, <2>4
<1>5. CASE n.log[i].kind \notin {"joint", "finalize"}
  <2>1. BuiltFrom(n, i, f, j, p)
    BY <1>1, <1>2, <1>5, LastStep DEF BuiltFrom
  <2> QED
    BY <1>1, <1>2, <1>5, <2>1, ConfigurationBuilt
<1>6. CASE n.log[i].kind = "finalize"
  <2>1. Last(n, "finalize", i, i) /\ Last(n, "joint", i, j)
    BY <1>1, <1>2, <1>6, LastStep DEF BuiltFrom
  <2>2. BuiltFrom(n, i, i, j, j)
    BY <1>1, <1>3, <2>1 DEF BuiltFrom
  <2>3. ConfigurationAt(n, i) = Built(n.base, n.log, i, j, j)
    BY <1>1, <2>2, ConfigurationBuilt
  <2>4. Built(n.base, n.log, i, j, j) =
          [cur |-> IF j > 0 THEN n.log[j].members ELSE FinalizeTransition(n.base).cur,
           next |-> NoMembers]
    BY <1>1, <1>3 DEF Built
  <2>5. j > 0 => n.log[j].members = Remaining /\ Remaining # NoMembers
    <3>1. j > 0 => j \in 1 .. Len(n.log) /\ n.log[j].kind = "joint"
      BY <1>1, <1>2, <1>3 DEF BuiltFrom, Last
    <3> QED
      BY <3>1 DEF UsualNode, UsualLog
  <2>6. CASE j > f
    <3>1. j > 0
      BY <1>3, <2>6
    <3>2. c.next = Remaining
      BY <1>2, <2>5, <2>6, <3>1 DEF Built
    <3>3. IsJointConsensus(c)
      BY <2>5, <3>1, <3>2 DEF IsJointConsensus, Remaining, NoMembers, Ids
    <3>4. FinalizeTransition(c) = [cur |-> Remaining, next |-> NoMembers]
      BY <3>2, <3>3 DEF FinalizeTransition, Stable
    <3> QED
      BY <1>6, <2>3, <2>4, <2>5, <3>1, <3>4
  <2>7. CASE ~(j > f) /\ f > 0
    <3>1. Last(n, "joint", f, j)
      BY <1>1, <1>2, <1>3, <2>7, SMTT(30) DEF BuiltFrom, Last
    <3>2. p = j
      BY <1>2, <1>3, <3>1, LastIsUnique DEF BuiltFrom
    <3>3. c = [cur |-> IF j > 0 THEN n.log[j].members ELSE FinalizeTransition(n.base).cur,
               next |-> NoMembers]
      BY <1>2, <1>3, <2>7, <3>2 DEF Built
    <3>4. FinalizeTransition(c) = c
      BY <3>3 DEF FinalizeTransition, IsJointConsensus, NoMembers, Ids
    <3> QED
      BY <1>6, <2>3, <2>4, <3>3, <3>4
  <2>8. CASE ~(j > f) /\ f = 0
    <3>1. j = 0
      BY <1>3, <2>8
    <3>2. c = [cur |-> n.base.cur, next |-> n.base.next]
      BY <1>2, <2>8 DEF Built
    <3>3. n.base = [cur |-> n.base.cur, next |-> n.base.next]
      BY ConfigurationShape DEF Node
    <3>4. c = n.base /\ Usually(c)
      BY <3>2, <3>3 DEF UsualNode
    <3>5. FinalizeTransition(c) = [cur |-> FinalizeTransition(c).cur, next |-> NoMembers]
      <4>1. CASE IsJointConsensus(c)
        BY <4>1 DEF FinalizeTransition, Stable
      <4>2. CASE ~IsJointConsensus(c)
        BY <3>2, <3>4, <4>2, UsuallyFacts DEF FinalizeTransition
      <4> QED
        BY <4>1, <4>2
    <3> QED
      BY <1>6, <2>3, <2>4, <3>1, <3>4, <3>5
  <2> QED
    BY <1>3, <2>6, <2>7, <2>8
<1> QED
  BY <1>4, <1>5, <1>6

\* An entry of a kind up to an index is one up to every later index.
LEMMA LastGrows ==
  ASSUME NEW n \in Node, NEW kind, NEW h \in Nat, NEW i \in Nat, h <= i, NEW k \in Nat, NEW l \in Nat,
         Last(n, kind, h, k), Last(n, kind, i, l)
  PROVE  k <= l /\ (l <= h => k = l)
<1>1. n.snap \in Nat /\ Len(n.log) \in Nat
  BY NodeFields
<1>2. k <= l
  <2>1. CASE k = 0
    BY <2>1
  <2>2. CASE k # 0
    <3>1. k \in n.snap + 1 .. Len(n.log) /\ k <= i /\ n.log[k].kind = kind
      BY <1>1, <2>2 DEF Last
    <3> QED
      BY <3>1 DEF Last
  <2> QED
    BY <2>1, <2>2
<1>3. ASSUME l <= h PROVE l <= k
  <2>1. CASE l = 0
    BY <2>1
  <2>2. CASE l # 0
    <3>1. l \in n.snap + 1 .. Len(n.log) /\ l <= h /\ n.log[l].kind = kind
      BY <1>1, <1>3, <2>2 DEF Last
    <3> QED
      BY <3>1 DEF Last
  <2> QED
    BY <2>1, <2>2
<1> QED
  BY <1>2, <1>3

\* Of a usual configuration the voters are all servers or the remaining ones,
\* and a transition is one to the remaining ones.
LEMMA UsualFinalize ==
  ASSUME NEW c, Usually(c), c = [cur |-> c.cur, next |-> c.next]
  PROVE  /\ FinalizeTransition(c).cur.voters \subseteq c.cur.voters
         /\ FinalizeTransition(c).next = NoMembers
         /\ c.next = Remaining /\ Remaining # NoMembers => FinalizeTransition(c).cur = Remaining
         /\ c.cur = Remaining => FinalizeTransition(c).cur = Remaining
         /\ c.next = NoMembers => FinalizeTransition(c).cur = c.cur
<1>1. CASE IsJointConsensus(c)
  <2>1. c.next = Remaining /\ FinalizeTransition(c) = [cur |-> Remaining, next |-> NoMembers]
    BY <1>1, UsuallyFacts DEF FinalizeTransition, Stable
  <2>2. Remaining.voters \subseteq c.cur.voters
    BY MapsTyped DEF Usually, Everyone, Remaining
  <2>3. c.next # NoMembers
    BY <1>1 DEF IsJointConsensus, NoMembers, Ids
  <2> QED
    BY <2>1, <2>2, <2>3
<1>2. CASE ~IsJointConsensus(c)
  <2>1. c.next = NoMembers /\ FinalizeTransition(c) = c
    BY <1>2, UsuallyFacts DEF FinalizeTransition
  <2> QED
    BY <2>1
<1> QED
  BY <1>1, <1>2

\* Voters are only ever removed.
LEMMA VotersShrink ==
  ASSUME NEW n \in Node, UsualNode(n), NEW h \in Nat, NEW i \in Nat, h <= i
  PROVE  VotersAt(n, i) \subseteq VotersAt(n, h)
<1>1. PICK f, j, p : BuiltFrom(n, i, f, j, p) /\ ConfigurationAt(n, i) = Built(n.base, n.log, f, j, p)
  BY ConfigurationIs
<1>2. PICK g, k, q : BuiltFrom(n, h, g, k, q) /\ ConfigurationAt(n, h) = Built(n.base, n.log, g, k, q)
  BY ConfigurationIs
<1>3. f \in Nat /\ p \in Nat /\ g \in Nat /\ q \in Nat
  BY <1>1, <1>2 DEF BuiltFrom
<1>4. g <= f
  BY <1>1, <1>2, <1>3, LastGrows DEF BuiltFrom
<1>5. q <= p
  BY <1>1, <1>2, <1>3, <1>4, LastGrows DEF BuiltFrom
<1>6. /\ VotersAt(n, h) \in {Server, Server \ Removable}
  BY UsualConfiguration, MapsTyped DEF VotersAt, Usually
<1>7. n.base = [cur |-> n.base.cur, next |-> n.base.next] /\ Usually(n.base)
  BY ConfigurationShape DEF Node, UsualNode
<1>8. CASE f = 0
  BY <1>1, <1>2, <1>3, <1>4, <1>8 DEF VotersAt, Built
<1>9. CASE f > 0 /\ p > 0
  <2>1. p \in 1 .. Len(n.log) /\ n.log[p].kind = "joint"
    BY <1>1, <1>3, <1>9, NodeFields DEF BuiltFrom, Last
  <2>2. n.log[p].members = Remaining
    BY <2>1 DEF UsualNode, UsualLog
  <2>3. VotersAt(n, i) = Server \ Removable
    BY <1>1, <1>9, <2>2, MapsTyped DEF VotersAt, Built
  <2> QED
    BY <1>6, <2>3
<1>10. CASE f > 0 /\ p = 0
  <2>1. q = 0
    BY <1>3, <1>5, <1>10
  <2>2. VotersAt(n, i) = FinalizeTransition(n.base).cur.voters
    BY <1>1, <1>10 DEF VotersAt, Built
  <2>3. VotersAt(n, h) \in {n.base.cur.voters, FinalizeTransition(n.base).cur.voters}
    BY <1>2, <1>3, <2>1 DEF VotersAt, Built
  <2> QED
    BY <1>7, <2>2, <2>3, UsualFinalize
<1> QED
  BY <1>3, <1>8, <1>9, <1>10

\* A log that grows leaves its peers and who is outside them.
LEMMA PeersShrink ==
  ASSUME NEW m \in Node, NEW n \in Node, UsualNode(n), m.snap = n.snap, m.base = n.base,
         Agree(n.log, m.log, Len(m.log))
  PROVE  /\ Peers(n) \subseteq Peers(m)
         /\ \A i \in 0 .. Len(m.log) : VotersAt(n, i) = VotersAt(m, i)
         /\ \A i \in Len(m.log) .. Len(n.log) : VotersAt(n, i) \subseteq Peers(m)
<1>1. Len(m.log) \in Nat /\ Len(n.log) \in Nat /\ Len(m.log) <= Len(n.log)
  BY NodeFields DEF Agree
<1>2. ASSUME NEW i \in 0 .. Len(m.log) PROVE VotersAt(n, i) = VotersAt(m, i)
  <2>1. Agree(n.log, m.log, i) /\ i \in Nat
    BY <1>1, <1>2 DEF Agree
  <2> QED
    BY <2>1, SameConfiguration DEF VotersAt
<1>3. VotersAt(n, Len(m.log)) = Peers(m)
  BY <1>1, <1>2 DEF Peers
<1>4. ASSUME NEW i \in Len(m.log) .. Len(n.log) PROVE VotersAt(n, i) \subseteq Peers(m)
  <2>1. i \in Nat /\ Len(m.log) <= i
    BY <1>1, <1>4
  <2> QED
    BY <1>1, <1>3, <2>1, VotersShrink
<1>5. Peers(n) \subseteq Peers(m)
  BY <1>1, <1>4 DEF Peers
<1> QED
  BY <1>2, <1>4, <1>5

LEMMA OutsideKept ==
  ASSUME NEW m \in Node, NEW n \in Node, UsualNode(n), m.snap = n.snap, m.base = n.base,
         Agree(n.log, m.log, Len(m.log)), NEW p, p \notin Peers(m),
         \A i \in m.snap + 1 .. Len(m.log) : m.log[i].term = n.term => p \notin VotersAt(m, i)
  PROVE  Outside(n, p)
<1>1. /\ Len(m.log) \in Nat /\ Len(n.log) \in Nat /\ Len(m.log) <= Len(n.log) /\ n.snap \in Nat
  BY NodeFields DEF Agree
<1>2. /\ Peers(n) \subseteq Peers(m)
      /\ \A i \in 0 .. Len(m.log) : VotersAt(n, i) = VotersAt(m, i)
      /\ \A i \in Len(m.log) .. Len(n.log) : VotersAt(n, i) \subseteq Peers(m)
  BY PeersShrink
<1>3. ASSUME NEW i \in n.snap + 1 .. Len(n.log), n.log[i].term = n.term PROVE p \notin VotersAt(n, i)
  <2>1. CASE i <= Len(m.log)
    <3>1. i \in 0 .. Len(m.log) /\ i \in m.snap + 1 .. Len(m.log) /\ i \in 1 .. Len(m.log)
      BY <1>1, <2>1
    <3>2. n.log[i] = m.log[i]
      BY <3>1 DEF Agree
    <3> QED
      BY <1>2, <1>3, <3>1, <3>2
  <2>2. CASE ~(i <= Len(m.log))
    <3>1. i \in Len(m.log) .. Len(n.log)
      BY <1>1, <2>2
    <3> QED
      BY <1>2, <3>1
  <2> QED
    BY <2>1, <2>2
<1> QED
  BY <1>2, <1>3 DEF Outside

\* What compaction leaves of the entries of a kind.
LEMMA LastCompacted ==
  ASSUME NEW n \in Node, NEW m \in Node, m.log = n.log, n.snap <= m.snap, NEW kind,
         NEW i \in Nat, NEW k \in Nat, NEW l \in Nat, Last(m, kind, i, k), Last(n, kind, i, l)
  PROVE  (k > 0 => k = l /\ k > m.snap) /\ (k = 0 => l <= m.snap)
<1>1. n.snap \in Nat /\ m.snap \in Nat /\ Len(n.log) \in Nat
  BY NodeFields
<1>2. ASSUME k > 0 PROVE k = l /\ k > m.snap
  <2>1. /\ k \in m.snap + 1 .. Len(n.log) /\ k <= i /\ n.log[k].kind = kind
        /\ \A x \in m.snap + 1 .. Len(n.log) : x <= i /\ n.log[x].kind = kind => x <= k
    BY <1>2 DEF Last
  <2>2. k \in n.snap + 1 .. Len(n.log) /\ k > m.snap
    <3>1. k \in m.snap + 1 .. Len(n.log)
      BY <2>1
    <3> QED
      BY <1>1, <3>1
  <2>3. k <= l /\ l \in n.snap + 1 .. Len(n.log) /\ l <= i /\ n.log[l].kind = kind
    BY <2>1, <2>2 DEF Last
  <2>4. l \in m.snap + 1 .. Len(n.log)
    BY <1>1, <2>1, <2>3
  <2>5. l <= k
    BY <2>1, <2>3, <2>4
  <2> QED
    BY <2>2, <2>3, <2>5
<1>3. ASSUME k = 0 PROVE l <= m.snap
  <2>1. \A x \in m.snap + 1 .. Len(n.log) : x <= i => n.log[x].kind # kind
    BY <1>1, <1>3 DEF Last
  <2>2. CASE l = 0
    BY <1>1, <2>2
  <2>3. CASE l # 0
    <3>1. l \in n.snap + 1 .. Len(n.log) /\ l <= i /\ n.log[l].kind = kind
      BY <2>3 DEF Last
    <3>2. ~(l \in m.snap + 1 .. Len(n.log))
      BY <2>1, <3>1
    <3> QED
      BY <1>1, <3>1, <3>2
  <2> QED
    BY <2>2, <2>3
<1> QED
  BY <1>2, <1>3

\* Compaction, which makes the configuration in force the base, brings no
\* voter back.
LEMMA VotersCompacted ==
  ASSUME NEW n \in Node, NEW m \in Node, UsualNode(n), UsualNode(m), m.log = n.log,
         n.snap <= m.snap, m.base = ConfigurationAt(n, m.snap), NEW i \in Nat, m.snap <= i
  PROVE  VotersAt(m, i) \subseteq VotersAt(n, i)
<1>1. n.snap \in Nat /\ m.snap \in Nat
  BY NodeFields
<1>2. PICK f, j, p : BuiltFrom(n, i, f, j, p) /\ ConfigurationAt(n, i) = Built(n.base, n.log, f, j, p)
  BY ConfigurationIs
<1>3. PICK g, k, q : /\ BuiltFrom(n, m.snap, g, k, q)
                     /\ ConfigurationAt(n, m.snap) = Built(n.base, n.log, g, k, q)
  BY <1>1, ConfigurationIs
<1>4. PICK u, v, w : BuiltFrom(m, i, u, v, w) /\ ConfigurationAt(m, i) = Built(m.base, m.log, u, v, w)
  BY ConfigurationIs
<1>5. /\ f \in Nat /\ j \in Nat /\ p \in Nat /\ g \in Nat /\ k \in Nat /\ q \in Nat
      /\ u \in Nat /\ v \in Nat /\ w \in Nat
  BY <1>2, <1>3, <1>4 DEF BuiltFrom
<1>6. VotersAt(n, i) \in {Server, Server \ Removable}
  BY UsualConfiguration, MapsTyped DEF VotersAt, Usually
<1>7. m.base = [cur |-> m.base.cur, next |-> m.base.next] /\ Usually(m.base)
  BY ConfigurationShape DEF Node, UsualNode
<1>8. (u > 0 => u = f /\ u > m.snap) /\ (u = 0 => f <= m.snap)
  BY <1>2, <1>4, <1>5, LastCompacted DEF BuiltFrom
<1>9. CASE u = 0
  <2>1. g = f
    BY <1>1, <1>2, <1>3, <1>5, <1>8, <1>9, LastGrows DEF BuiltFrom
  <2>2. q = p
    BY <1>2, <1>3, <1>5, <2>1, LastIsUnique DEF BuiltFrom
  <2>3. VotersAt(m, i) = m.base.cur.voters
    BY <1>4, <1>9 DEF VotersAt, Built
  <2>4. VotersAt(n, i) = ConfigurationAt(n, m.snap).cur.voters
    BY <1>2, <1>3, <2>1, <2>2 DEF VotersAt, Built
  <2> QED
    BY <2>3, <2>4
<1>10. CASE u > 0 /\ w > 0
  <2>1. w \in 1 .. Len(m.log) /\ m.log[w].kind = "joint"
    BY <1>4, <1>5, <1>10, NodeFields DEF BuiltFrom, Last
  <2>2. m.log[w].members = Remaining
    BY <2>1 DEF UsualNode, UsualLog
  <2>3. VotersAt(m, i) = Server \ Removable
    BY <1>4, <1>10, <2>2, MapsTyped DEF VotersAt, Built
  <2> QED
    BY <1>6, <2>3
<1>11. CASE u > 0 /\ w = 0
  <2>1. u = f /\ m.snap <= f
    BY <1>1, <1>5, <1>8, <1>11
  <2>2. p <= m.snap
    BY <1>2, <1>4, <1>5, <1>11, <2>1, LastCompacted DEF BuiltFrom
  <2>3. k = p
    BY <1>1, <1>2, <1>3, <1>5, <2>1, <2>2, LastGrows DEF BuiltFrom
  <2>4. VotersAt(m, i) = FinalizeTransition(m.base).cur.voters
    BY <1>4, <1>11 DEF VotersAt, Built
  <2>5. g <= m.snap
    BY <1>1, <1>3, <1>5 DEF BuiltFrom, Last
  <2>6. q <= k /\ (k <= g => q = k)
    BY <1>1, <1>3, <1>5, <2>5, LastGrows DEF BuiltFrom
  <2>7. m.base = Built(n.base, n.log, g, k, q)
    BY <1>3
  <2>8. CASE p > 0
    <3>1. k \in 1 .. Len(n.log) /\ n.log[k].kind = "joint"
      BY <1>3, <1>5, <2>3, <2>8, NodeFields DEF BuiltFrom, Last
    <3>2. n.log[k].members = Remaining /\ Remaining # NoMembers
      BY <3>1 DEF UsualNode, UsualLog
    <3>3. CASE k > g
      <4>1. m.base.next = Remaining
        BY <2>7, <3>2, <3>3 DEF Built
      <4>2. VotersAt(m, i) = Remaining.voters
        BY <1>7, <2>4, <3>2, <4>1, UsualFinalize
      <4> QED
        BY <1>6, <4>2, MapsTyped
    <3>4. CASE ~(k > g)
      <4>1. q = k /\ g # 0 /\ q > 0
        BY <1>5, <2>3, <2>6, <2>8, <3>4
      <4>2. m.base.cur = Remaining
        BY <2>7, <3>2, <4>1 DEF Built
      <4>3. VotersAt(m, i) = Remaining.voters
        BY <1>7, <2>4, <4>2, UsualFinalize
      <4> QED
        BY <1>6, <4>3, MapsTyped
    <3> QED
      BY <3>3, <3>4
  <2>9. CASE p = 0
    <3>1. k = 0 /\ q = 0
      BY <1>5, <2>3, <2>6, <2>9
    <3>2. VotersAt(n, i) = FinalizeTransition(n.base).cur.voters
      BY <1>2, <1>5, <1>11, <2>1, <2>9 DEF VotersAt, Built
    <3>3. CASE g = 0
      <4>1. m.base = [cur |-> n.base.cur, next |-> n.base.next]
        BY <2>7, <3>1, <3>3 DEF Built
      <4>2. m.base = n.base
        BY <4>1, ConfigurationShape DEF Node
      <4> QED
        BY <2>4, <3>2, <4>2
    <3>4. CASE g # 0
      <4>1. m.base.cur = FinalizeTransition(n.base).cur /\ m.base.next = NoMembers
        BY <1>5, <2>7, <3>1, <3>4 DEF Built
      <4>2. FinalizeTransition(m.base).cur = m.base.cur
        BY <1>7, <4>1, UsualFinalize
      <4> QED
        BY <2>4, <3>2, <4>1, <4>2
    <3> QED
      BY <3>3, <3>4
  <2> QED
    BY <1>5, <2>8, <2>9
<1> QED
  BY <1>5, <1>9, <1>10, <1>11

\* Nor does it bring back a peer.
LEMMA OutsideCompacted ==
  ASSUME NEW n \in Node, NEW m \in Node, UsualNode(n), UsualNode(m), m.log = n.log,
         m.term = n.term, n.snap <= m.snap, m.snap <= Len(n.log), m.base = ConfigurationAt(n, m.snap)
  PROVE  Peers(m) \subseteq Peers(n) /\ \A p : Outside(n, p) => Outside(m, p)
<1>1. n.snap \in Nat /\ m.snap \in Nat /\ Len(n.log) \in Nat
  BY NodeFields
<1>2. ASSUME NEW i \in m.snap .. Len(n.log) PROVE VotersAt(m, i) \subseteq VotersAt(n, i)
  <2>1. i \in Nat /\ m.snap <= i
    BY <1>1
  <2> QED
    BY <2>1, VotersCompacted
<1>3. Peers(m) \subseteq Peers(n)
  BY <1>1, <1>2 DEF Peers
<1>4. \A i \in m.snap + 1 .. Len(m.log) : i \in m.snap .. Len(n.log) /\ i \in n.snap + 1 .. Len(n.log)
  BY <1>1
<1> QED
  BY <1>2, <1>3, <1>4 DEF Outside

-----------------------------------------------------------------------------
(* The whole of a step of server s, from node[s] to n.                     *)

\* Of the voters at its commit index, a majority has acknowledged it.
Counted(s, n) ==
  /\ n.commit > n.snap /\ n.log[n.commit].term = n.term
  /\ Quorum({s} \cup {p \in VotersAt(n, n.commit) : p # s /\ n.match[p] >= n.commit})

\* The commit index of n was settled before, or a leader counts a majority.
Commits(s, n) ==
  \/ Settled(node, votes, elections, n.log, n.commit, n.term)
  \/ n.role = "leader" /\ Counted(s, n)

\* What a leader knows of a peer that counts, the peer acknowledged.
Progress(s, n) ==
  /\ n.match[s] = 0
  /\ n.role = "leader" => \A p \in Server :
       /\ p \in Peers(n) \ {s} => n.next[p] <= Len(n.log) + 1
       /\ n.match[p] > 0 =>
            \/ /\ node[s].role = "leader"
               /\ \E f \in elections :
                    /\ f.leader = s /\ f.term = n.term
                    /\ Acknowledged(node, votes, elections, p, f, n.match[p])
            \/ Outside(n, p)

\* A message says what was so before the step, or what n now stands for.
Sends(s, n, m) ==
  \/ MessageKept(m)
  \/ /\ m.type = "voteRequest" /\ m.from = s /\ m.term = n.term
     /\ m.lastTerm < m.term /\ (m.lastTerm > 0 => m.lastIndex > 0)
     /\ n.role = "candidate" =>
          /\ Len(n.log) = m.lastIndex
          /\ m.lastIndex > 0 => n.log[m.lastIndex].term = m.lastTerm
  \/ /\ m.type \in {"appendResponse", "snapshotResponse"} /\ m.from = s /\ m.term = n.term
     /\ \E f \in elections : f.term = m.term /\ f.leader = m.to /\ Agree(n.log, f.log, m.match)

\* A read is begun by a leader, behind an entry of its own.
Begun(s, n, r) ==
  /\ n.role = "leader" /\ node[s].role = "leader" /\ r.term = n.term
  /\ r.index = Len(node[s].log) + 1 /\ r.index <= Len(n.log) /\ r.seen = Len(committed)

Effect(s, n, ms) ==
  /\ Change(s, n, ms)
  /\ UsualNode(n)
  /\ n.snap <= n.applied /\ n.applied <= n.commit /\ n.commit <= Len(n.log)
  /\ InForce(n)
  /\ Commits(s, n) /\ Progress(s, n)
  /\ \A m \in ms : m \in Message /\ UsualMessage(m) /\ Sends(s, n, m)
  /\ \A r \in reads' \ reads : Begun(s, n, r)
  /\ n.incarnation = node[s].incarnation => n.commit >= node[s].commit

LEMMA UsualStep ==
  ASSUME Before, NEW s, NEW n, NEW ms, Effect(s, n, ms)
  PROVE  Usual'
<1>1. Change(s, n, ms) /\ UsualNode(n) /\ n \in Node /\ Becomes(s, n, ms)
  BY DEF Effect, Change
<1>2. Usual
  BY DEF Before, SafetyInvariant
<1>3. \A p \in Server : UsualNode(node'[p])
  BY <1>1, <1>2, NodesNext DEF Usual
<1>4. msgs' \subseteq msgs \cup ms
  BY <1>1 DEF Becomes
<1>5. \A m \in msgs' : UsualMessage(m)
  BY <1>2, <1>4 DEF Usual, Effect
<1> QED
  BY <1>3, <1>5 DEF Usual

LEMMA InheritedPersists ==
  ASSUME Before, NEW s, NEW n, NEW ms, Change(s, n, ms), NEW L \in Seq(Entry),
         NEW i \in 1 .. Len(L), NEW f \in elections, f.term = L[i].term, Agree(L, f.log, i)
  PROVE  \E e \in elections' : e.term = L[i].term /\ Agree(L, e.log, i)
<1> DEFINE e == Carried(s, n, f)
<1>1. e \in elections' /\ e \in Election /\ e.term = f.term /\ Grown(e.log, f.log, f.term)
  BY CarriedFacts
<1>2. f.log \in Seq(Entry) /\ e.log \in Seq(Entry) /\ i \in Nat
  BY <1>1, Types, ElectionFields
<1> HIDE DEF e
<1>3. Agree(L, e.log, i)
  BY <1>1, <1>2, GrownAgree
<1> QED
  BY <1>1, <1>3

\* The log of the server of the step is made of pieces of leaderships.
LEMMA LogStep ==
  ASSUME Before, NEW s, NEW n, NEW ms, Change(s, n, ms)
  PROVE  TermsUpTo(n.log, n.term) /\ Inherited(elections', n.log)
<1> DEFINE o == node[s]
<1>1. /\ s \in Server /\ n.term \in Nat /\ o.term \in Nat /\ n.term >= o.term
      /\ n.log \in Seq(Entry) /\ o.log \in Seq(Entry)
      /\ n.role \in {"follower", "candidate", "leader"}
  BY Types, NodeFields DEF Change, Moves
<1>2. TermsUpTo(o.log, o.term) /\ Inherited(elections, o.log)
  BY <1>1 DEF Before, SafetyInvariant, NodeKept
<1>3. ASSUME NEW i \in 1 .. Len(n.log), Agree(n.log, o.log, i)
      PROVE  /\ n.log[i].term \in 1 .. n.term
             /\ \E e \in elections' : e.term = n.log[i].term /\ Agree(n.log, e.log, i)
  <2>1. i \in 1 .. Len(o.log) /\ n.log[i] = o.log[i]
    BY <1>1, <1>3 DEF Agree
  <2>2. PICK f \in elections : f.term = o.log[i].term /\ Agree(o.log, f.log, i)
    BY <1>2, <2>1 DEF Inherited
  <2>3. f.log \in Seq(Entry)
    BY Types, ElectionFields
  <2>4. Agree(n.log, f.log, i) /\ f.term = n.log[i].term
    BY <1>1, <1>3, <2>1, <2>2, <2>3 DEF Agree
  <2>5. n.log[i].term \in 1 .. n.term
    BY <1>1, <1>2, <2>1 DEF TermsUpTo
  <2> QED
    BY <1>1, <2>4, <2>5, InheritedPersists
<1>4. ASSUME NEW i \in 1 .. Len(n.log), NEW f \in elections, f.term = n.term, Agree(n.log, f.log, i)
      PROVE  /\ n.log[i].term \in 1 .. n.term
             /\ \E e \in elections' : e.term = n.log[i].term /\ Agree(n.log, e.log, i)
  <2>1. f.log \in Seq(Entry) /\ TermsUpTo(f.log, f.term) /\ Inherited(elections, f.log)
    BY Types, ElectionFields, Leaderships
  <2>2. i \in 1 .. Len(f.log) /\ n.log[i] = f.log[i]
    BY <1>1, <1>4, <2>1 DEF Agree
  <2>3. PICK g \in elections : g.term = f.log[i].term /\ Agree(f.log, g.log, i)
    BY <2>1, <2>2 DEF Inherited
  <2>4. g.log \in Seq(Entry)
    BY Types, ElectionFields
  <2>5. Agree(n.log, g.log, i) /\ g.term = n.log[i].term
    BY <1>1, <1>4, <2>1, <2>2, <2>3, <2>4 DEF Agree
  <2>6. n.log[i].term \in 1 .. n.term
    BY <1>4, <2>1, <2>2 DEF TermsUpTo
  <2> QED
    BY <1>1, <2>5, <2>6, InheritedPersists
<1>5. ASSUME NEW i \in 1 .. Len(n.log), n.role = "leader", i > Len(o.log)
      PROVE  /\ n.log[i].term \in 1 .. n.term
             /\ \E e \in elections' : e.term = n.log[i].term /\ Agree(n.log, e.log, i)
  <2>1. Grown(n.log, o.log, n.term) /\ n.term >= o.term
    BY <1>5 DEF Change, Moves
  <2>2. n.log[i].term = n.term
    BY <1>1, <1>5, <2>1 DEF Grown
  <2>3. PICK e \in elections' : e.term = n.term /\ e.log = n.log
    BY <1>5, OwnLeadership
  <2>4. Agree(n.log, e.log, i)
    BY <1>1, <2>3 DEF Agree
  <2>5. n.term > 0
    <3>1. \/ o.role = "leader" /\ n.term = o.term
          \/ o.role = "candidate" /\ n.term = o.term
          \/ n.term = o.term + 1
      BY <1>5 DEF Change, Moves, Stood
    <3>2. o.role = "candidate" => o.term > 0
      BY <1>1 DEF Before, SafetyInvariant, NodeKept
    <3>3. o.role = "leader" => \E f \in elections : f.term = o.term
      BY <1>1 DEF Before, SafetyInvariant, NodeKept
    <3>4. \A f \in elections : f.term > 0
      BY Leaderships
    <3> QED
      BY <1>1, <3>1, <3>2, <3>3, <3>4
  <2> QED
    BY <1>1, <2>2, <2>3, <2>4, <2>5
<1>6. ASSUME NEW i \in 1 .. Len(n.log)
      PROVE  /\ n.log[i].term \in 1 .. n.term
             /\ \E e \in elections' : e.term = n.log[i].term /\ Agree(n.log, e.log, i)
  <2>1. CASE n.role = "leader"
    <3>1. Grown(n.log, o.log, n.term)
      BY <2>1 DEF Change, Moves
    <3>2. i <= Len(o.log) => Agree(n.log, o.log, i)
      BY <1>1, <3>1 DEF Grown, Agree
    <3> QED
      BY <1>1, <1>3, <1>5, <2>1, <3>2
  <2>2. CASE n.log = o.log
    <3>1. Agree(n.log, o.log, i)
      BY <1>1, <2>2 DEF Agree
    <3> QED
      BY <1>3, <3>1
  <2>3. CASE \E e \in elections : e.term = n.term /\ Patched(o.log, e.log, n.log)
    <3>1. PICK f \in elections : f.term = n.term /\ Patched(o.log, f.log, n.log)
      BY <2>3
    <3>2. Agree(n.log, o.log, i) \/ Agree(n.log, f.log, i)
      BY <3>1 DEF Patched
    <3> QED
      BY <1>3, <1>4, <3>1, <3>2
  <2> QED
    BY <1>1, <2>1, <2>2, <2>3 DEF Change, Moves
<1> QED
  BY <1>6 DEF TermsUpTo, Inherited

\* Every leadership keeps what is known of it, and a new one is the only one
\* of its term.
LEMMA LeadershipsStep ==
  ASSUME Before, NEW s, NEW n, NEW ms, Change(s, n, ms)
  PROVE  LeadershipsKept'
<1>1. s \in Server /\ n \in Node /\ node[s] \in Node
  BY Types DEF Change
<1>2. ASSUME NEW e \in elections', NEW f \in elections', e.term = f.term PROVE e = f
  <2>1. ASSUME NEW g \in elections, e = Carried(s, n, g), NEW h \in elections, f = Carried(s, n, h)
        PROVE  e = f
    <3>1. g.term = h.term
      BY <1>2, <2>1, CarriedFacts
    <3> QED
      BY <2>1, <3>1, Leaderships
  <2>2. ASSUME NEW g \in elections, n.role = "leader", node[s].role # "leader"
        PROVE  /\ e = Carried(s, n, g) => f # Won(s, n)
               /\ f = Carried(s, n, g) => e # Won(s, n)
    <3>1. g.term # n.term /\ Carried(s, n, g).term = g.term /\ Won(s, n).term = n.term
      BY <2>2, NoRival, CarriedFacts DEF Won
    <3> QED
      BY <1>2, <3>1
  <2> QED
    BY <2>1, <2>2, ElectionOrigin
<1>3. ASSUME NEW e \in elections'
      PROVE  /\ e.term <= node'[e.leader].term /\ e.term > 0
             /\ e.log # <<>> /\ TermsUpTo(e.log, e.term) /\ Inherited(elections', e.log)
             /\ Quorum(e.voters) /\ ~Standing(node', e.leader, e.term)
  <2>1. CASE n.role = "leader" /\ e.leader = s /\ e.log = n.log /\ e.term = n.term /\ Quorum(e.voters)
    <3>1. TermsUpTo(n.log, n.term) /\ Inherited(elections', n.log)
      BY LogStep
    <3>2. node'[s] = n /\ n.log # <<>> /\ n.log \in Seq(Entry) /\ n.term \in Nat
      BY <1>1, <2>1, NodesNext, NodeFields DEF Change, Moves
    <3>3. n.term > 0
      BY <3>1, <3>2 DEF TermsUpTo
    <3> QED
      BY <2>1, <3>1, <3>2, <3>3 DEF Standing
  <2>2. ASSUME NEW f \in elections, e = Carried(s, n, f), e.log = f.log
        PROVE  /\ e.term <= node'[e.leader].term /\ e.term > 0
               /\ e.log # <<>> /\ TermsUpTo(e.log, e.term) /\ Inherited(elections', e.log)
               /\ Quorum(e.voters) /\ ~Standing(node', e.leader, e.term)
    <3>1. e.term = f.term /\ e.leader = f.leader /\ e.voters = f.voters /\ f \in Election
      BY <2>2, CarriedFacts, Types
    <3>2. /\ f.term <= node[f.leader].term /\ f.term > 0
          /\ f.log # <<>> /\ TermsUpTo(f.log, f.term) /\ Inherited(elections, f.log)
          /\ Quorum(f.voters) /\ ~Standing(node, f.leader, f.term)
      BY Leaderships
    <3>3. f.leader \in Server /\ f.term \in Nat /\ f.log \in Seq(Entry)
      BY <3>1, ElectionFields
    <3>4. /\ node'[f.leader].term >= node[f.leader].term
          /\ node'[f.leader].term \in Nat /\ node[f.leader].term \in Nat
      BY <3>3, NodesNext, Types, NodeFields
    <3>5. ~Standing(node', f.leader, f.term)
      BY <1>1, <3>2, <3>3, <3>4, StandingNext
    <3>6. Inherited(elections', f.log)
      BY <3>2, <3>3, InheritedPersists DEF Inherited
    <3> QED
      BY <2>2, <3>1, <3>2, <3>3, <3>4, <3>5, <3>6
  <2>3. ASSUME NEW f \in elections, e = Carried(s, n, f)
        PROVE  \/ /\ n.role = "leader" /\ e.leader = s /\ e.log = n.log /\ e.term = n.term
                  /\ Quorum(e.voters)
               \/ e.log = f.log
    BY <2>3, CarriedFacts, Leaderships DEF Carried
  <2>4. CASE n.role = "leader" /\ node[s].role # "leader" /\ e = Won(s, n)
    BY <2>1, <2>4, WonFacts
  <2> QED
    BY <2>1, <2>2, <2>3, <2>4, ElectionOrigin
<1>4. ASSUME NEW e \in elections', NEW p \in e.voters PROVE VotedNext(p, e.leader, e.term)
  BY VotedForLeadership
<1> QED
  BY <1>2, <1>3, <1>4 DEF LeadershipsKept, Voted, VotedNext

LEMMA VotesStep ==
  ASSUME Before, TypeOK', NEW s, NEW n, NEW ms, Change(s, n, ms)
  PROVE  VotesKept'
<1> SUFFICES ASSUME NEW v \in votes' PROVE v.term <= node'[v.cand].term
  BY DEF VotesKept
<1>1. v.cand \in Server /\ v.term \in Nat
  BY DEF TypeOK, Vote
<1>2. /\ node'[v.cand].term >= node[v.cand].term /\ node'[s] = n
      /\ node'[v.cand].term \in Nat /\ node[v.cand].term \in Nat
  BY <1>1, NodesNext, Types, NodeFields
<1>3. CASE v \in votes
  BY <1>1, <1>2, <1>3, VoteTerms
<1>4. CASE v \notin votes
  <2>1. v.term = n.term
    BY <1>4 DEF Change, CastsVotes
  <2>2. CASE v.cand = s
    BY <1>1, <1>2, <2>1, <2>2
  <2>3. CASE \E m \in msgs : m.type = "voteRequest" /\ m.from = v.cand /\ m.term = v.term
    <3>1. v.term <= node[v.cand].term
      BY <2>3 DEF Before, SafetyInvariant, MessageKept
    <3> QED
      BY <1>1, <1>2, <3>1
  <2> QED
    BY <1>4, <2>2, <2>3 DEF Change, CastsVotes
<1> QED
  BY <1>3, <1>4

LEMMA CommitSettled ==
  ASSUME Before, TypeOK', NEW s, NEW n, NEW ms, Effect(s, n, ms)
  PROVE  Settled(node', votes', elections', n.log, n.commit, n.term)
<1>1. /\ Change(s, n, ms) /\ s \in Server /\ n.log \in Seq(Entry) /\ n.commit \in Nat
      /\ n.term \in Nat /\ n.commit <= Len(n.log)
      /\ \A p \in Server : n.match[p] \in Nat
  BY NodeFields DEF Effect, Change
<1>2. Agree(n.log, n.log, n.commit)
  BY <1>1 DEF Agree
<1>3. CASE Settled(node, votes, elections, n.log, n.commit, n.term)
  BY <1>1, <1>2, <1>3, SettledPersists
<1>4. CASE n.role = "leader" /\ Counted(s, n)
  <2>0. /\ n.snap \in Nat /\ n.commit \in n.snap + 1 .. Len(n.log) /\ n.commit > 0
        /\ n.log[n.commit].term = n.term /\ VotersAt(n, n.commit) \subseteq Server
    <3>1. n \in Node /\ UsualNode(n) /\ n.snap \in Nat
      BY NodeFields DEF Effect, Change
    <3>2. VotersAt(n, n.commit) \subseteq Server
      BY <1>1, <3>1, UsualConfiguration, MapsTyped DEF VotersAt, Usually
    <3> QED
      BY <1>1, <1>4, <3>1, <3>2 DEF Counted
  <2> DEFINE P == Prefix(n.log, n.commit)
  <2>1. PICK e \in elections' :
           /\ e.leader = s /\ e.term = n.term /\ e.log = n.log
           /\ node[s].role = "leader" =>
                \E f \in elections : f.leader = s /\ f.term = n.term /\ e = Carried(s, n, f)
    BY <1>1, <1>4, OwnLeadership
  <2>2. /\ P \in Seq(Entry) /\ Len(P) = n.commit /\ P # <<>> /\ P[Len(P)].term = n.term
        /\ Has(n.log, P)
    <3>1. n.commit \in 0 .. Len(n.log) /\ n.commit \in 1 .. n.commit
      BY <1>1, <2>0
    <3>2. P \in Seq(Entry) /\ Len(P) = n.commit /\ P[n.commit] = n.log[n.commit]
      BY <1>1, <3>1, PrefixFacts
    <3>3. Has(n.log, P)
      BY <1>1, <1>2, AgreePrefix
    <3> HIDE DEF P
    <3> QED
      BY <1>1, <2>0, <3>2, <3>3
  <2>3. ASSUME NEW p \in Server,
               p = s \/ (p \in VotersAt(n, n.commit) /\ n.match[p] >= n.commit)
        PROVE  HeldBy(node', votes', elections', p, n.term, P)
    <3>1. CASE p = s
      <4>1. Acknowledged(node', votes', elections', s, e, n.commit)
        BY <1>1, <1>2, <2>1, AcknowledgedNow
      <4> QED
        BY <1>1, <2>0, <2>1, <3>1, <4>1 DEF Acknowledged
    <3>2. CASE p # s
      <4>1. n.match[p] > 0 /\ n.commit \in 1 .. n.match[p]
        BY <1>1, <2>0, <2>3, <3>2
      <4>2. /\ node[s].role = "leader"
            /\ \E f \in elections :
                 /\ f.leader = s /\ f.term = n.term
                 /\ Acknowledged(node, votes, elections, p, f, n.match[p])
        <5>1. ~Outside(n, p)
          BY <2>0, <2>3, <3>2 DEF Outside
        <5> QED
          BY <1>4, <4>1, <5>1 DEF Effect, Progress
      <4>3. PICK f \in elections :
                 /\ f.leader = s /\ f.term = n.term
                 /\ Acknowledged(node, votes, elections, p, f, n.match[p])
        BY <4>2
      <4>4. e = Carried(s, n, f)
        BY <2>1, <4>2, <4>3, Leaderships
      <4>5. Acknowledged(node', votes', elections', p, e, n.match[p])
        BY <1>1, <4>3, <4>4, AcknowledgedPersists
      <4> QED
        BY <2>0, <2>1, <4>1, <4>5 DEF Acknowledged
    <3> QED
      BY <3>1, <3>2
  <2> HIDE DEF P
  <2>4. {s} \cup {p \in VotersAt(n, n.commit) : p # s /\ n.match[p] >= n.commit} \subseteq
          {p \in Server : HeldBy(node', votes', elections', p, n.term, P)}
    BY <1>1, <2>0, <2>3
  <2>5. Quorum({p \in Server : HeldBy(node', votes', elections', p, n.term, P)})
    BY <1>4, <2>4, QuorumMonotone DEF Counted
  <2>6. Chosen(node', votes', elections', n.term, P)
    BY <2>1, <2>2, <2>5 DEF Chosen
  <2>7. n.commit \in n.commit .. Len(e.log)
    BY <1>1, <2>1
  <2> QED
    BY <1>1, <1>2, <2>1, <2>6, <2>7 DEF Settled, P
<1> QED
  BY <1>3, <1>4 DEF Effect, Commits

LEMMA CommittedNext ==
  ASSUME Before, TypeOK', NEW s, NEW n, NEW ms, Effect(s, n, ms)
  PROVE  /\ committed' \in Seq(Entry) /\ Len(committed') >= Len(committed)
         /\ n.commit <= Len(committed') /\ committed \in Seq(Entry)
         /\ committed' # committed =>
              Len(committed') = n.commit /\ Agree(committed', n.log, n.commit)
<1>1. /\ Becomes(s, n, ms) /\ s \in Server /\ n.log \in Seq(Entry) /\ n.commit \in Nat
      /\ n.commit <= Len(n.log)
  BY NodeFields DEF Effect, Change
<1>2. committed \in Seq(Entry) /\ committed' \in Seq(Entry)
  BY DEF Before, TypeOK
<1>3. InCluster(n, s)
  BY <1>1 DEF InCluster, Before, OneRemovable
<1>4. committed' = IF n.commit > Len(committed) THEN Prefix(n.log, n.commit) ELSE committed
  BY <1>1, <1>3 DEF Becomes
<1>5. n.commit \in 0 .. Len(n.log)
  BY <1>1
<1>6. /\ Len(Prefix(n.log, n.commit)) = n.commit
      /\ \A j \in 1 .. n.commit : Prefix(n.log, n.commit)[j] = n.log[j]
  BY <1>1, <1>5, PrefixFacts
<1>7. CASE n.commit > Len(committed)
  BY <1>1, <1>2, <1>4, <1>6, <1>7 DEF Agree
<1>8. CASE ~(n.commit > Len(committed))
  BY <1>1, <1>2, <1>4, <1>8
<1> QED
  BY <1>7, <1>8

LEMMA NodeStep ==
  ASSUME Before, TypeOK', NEW s, NEW n, NEW ms, Effect(s, n, ms)
  PROVE  NodeKept(s)'
<1>1. /\ Change(s, n, ms) /\ s \in Server /\ n \in Node /\ n.log \in Seq(Entry) /\ n.commit \in Nat
      /\ n.term \in Nat /\ node'[s] = n /\ node[s].term \in Nat /\ node[s].log \in Seq(Entry)
      /\ \A p \in Server : n.match[p] \in Nat
  BY NodeFields, NodesNext, Types DEF Effect, Change
<1>2. /\ n.snap <= n.applied /\ n.applied <= n.commit /\ n.commit <= Len(n.log) /\ n.match[s] = 0
      /\ InForce(n)
  BY DEF Effect, Progress
<1>3. TermsUpTo(n.log, n.term) /\ Inherited(elections', n.log)
  BY <1>1, LogStep
<1>4. ASSUME n.role = "candidate"
      PROVE  /\ n.term > 0 /\ VotedNext(s, s, n.term)
             /\ \A i \in 1 .. Len(n.log) : n.log[i].term < n.term
  <2>1. n.log = node[s].log /\ Stood(node[s], n)
    BY <1>1, <1>4 DEF Change, Moves
  <2>2. NodeKept(s)
    BY <1>1 DEF Before, SafetyInvariant
  <2>3. CASE n.term = node[s].term + 1
    <3>1. VotedNext(s, s, n.term)
      BY <1>1, <1>4, <2>3 DEF Change, CastsVotes
    <3>2. \A i \in 1 .. Len(n.log) : n.log[i].term \in 1 .. node[s].term
      BY <2>1, <2>2 DEF NodeKept, TermsUpTo
    <3> QED
      BY <1>1, <2>3, <3>1, <3>2, SMTT(30)
  <2>4. CASE node[s].role = "candidate" /\ n.term = node[s].term
    <3>1. /\ node[s].term > 0 /\ Voted(s, s, node[s].term)
          /\ \A i \in 1 .. Len(node[s].log) : node[s].log[i].term < node[s].term
      BY <2>2, <2>4 DEF NodeKept
    <3>2. votes \subseteq votes'
      BY <1>1 DEF Change, CastsVotes
    <3> QED
      BY <2>1, <2>4, <3>1, <3>2 DEF Voted, VotedNext
  <2> QED
    BY <2>1, <2>3, <2>4 DEF Stood
<1>5. Settled(node', votes', elections', n.log, n.commit, n.term)
  BY CommitSettled
<1>6. n.commit <= Len(committed')
  BY CommittedNext
<1>7. ASSUME n.role = "leader"
      PROVE  \E e \in elections' :
               /\ e.leader = s /\ e.term = n.term /\ e.log = n.log
               /\ \A p \in Server :
                    /\ p \in Peers(n) \ {s} => n.next[p] <= Len(n.log) + 1
                    /\ n.match[p] > 0 =>
                         \/ Acknowledged(node', votes', elections', p, e, n.match[p])
                         \/ Outside(n, p)
  <2>1. PICK e \in elections' :
           /\ e.leader = s /\ e.term = n.term /\ e.log = n.log
           /\ node[s].role = "leader" =>
                \E f \in elections : f.leader = s /\ f.term = n.term /\ e = Carried(s, n, f)
    BY <1>1, <1>7, OwnLeadership
  <2>2. ASSUME NEW p \in Server, n.match[p] > 0, ~Outside(n, p)
        PROVE  Acknowledged(node', votes', elections', p, e, n.match[p])
    <3>1. /\ node[s].role = "leader"
          /\ \E f \in elections :
               /\ f.leader = s /\ f.term = n.term
               /\ Acknowledged(node, votes, elections, p, f, n.match[p])
      BY <1>7, <2>2 DEF Effect, Progress
    <3>2. PICK f \in elections :
               /\ f.leader = s /\ f.term = n.term
               /\ Acknowledged(node, votes, elections, p, f, n.match[p])
      BY <3>1
    <3>3. e = Carried(s, n, f)
      BY <2>1, <3>1, <3>2, Leaderships
    <3> QED
      BY <1>1, <3>2, <3>3, AcknowledgedPersists
  <2>3. \A p \in Server : p \in Peers(n) \ {s} => n.next[p] <= Len(n.log) + 1
    BY <1>7 DEF Effect, Progress
  <2> QED
    BY <2>1, <2>2, <2>3
<1> QED
  BY <1>1, <1>2, <1>3, <1>4, <1>5, <1>6, <1>7 DEF NodeKept, Voted, VotedNext

LEMMA OtherNodes ==
  ASSUME Before, TypeOK', NEW s, NEW n, NEW ms, Effect(s, n, ms), NEW q \in Server, q # s
  PROVE  NodeKept(q)'
<1> DEFINE o == node[q]
<1>1. /\ Change(s, n, ms) /\ s \in Server /\ node'[q] = o /\ o \in Node
      /\ o.log \in Seq(Entry) /\ o.commit \in Nat /\ o.term \in Nat
      /\ \A p \in Server : o.match[p] \in Nat
  BY NodeFields, NodesNext, Types DEF Effect, Change
<1>2. NodeKept(q)
  BY DEF Before, SafetyInvariant
<1>3. /\ o.snap <= o.applied /\ o.applied <= o.commit /\ o.commit <= Len(o.log) /\ o.match[q] = 0
      /\ InForce(o)
      /\ TermsUpTo(o.log, o.term) /\ Inherited(elections, o.log)
      /\ Settled(node, votes, elections, o.log, o.commit, o.term) /\ o.commit <= Len(committed)
  BY <1>2 DEF NodeKept
<1>4. ASSUME o.role = "candidate"
      PROVE  /\ o.term > 0 /\ VotedNext(q, q, o.term)
             /\ \A i \in 1 .. Len(o.log) : o.log[i].term < o.term
  <2>1. /\ o.term > 0 /\ Voted(q, q, o.term)
        /\ \A i \in 1 .. Len(o.log) : o.log[i].term < o.term
    BY <1>2, <1>4 DEF NodeKept
  <2>2. votes \subseteq votes'
    BY <1>1 DEF Change, CastsVotes
  <2> QED
    BY <2>1, <2>2 DEF Voted, VotedNext
<1>5. Inherited(elections', o.log)
  BY <1>1, <1>3, InheritedPersists DEF Inherited
<1>6. Settled(node', votes', elections', o.log, o.commit, o.term)
  <2>1. Agree(o.log, o.log, o.commit)
    BY <1>1, <1>3 DEF Agree
  <2> QED
    BY <1>1, <1>3, <2>1, SettledPersists
<1>7. o.commit <= Len(committed')
  BY <1>1, <1>3, CommittedNext
<1>8. ASSUME o.role = "leader"
      PROVE  \E e \in elections' :
               /\ e.leader = q /\ e.term = o.term /\ e.log = o.log
               /\ \A p \in Server :
                    /\ p \in Peers(o) \ {q} => o.next[p] <= Len(o.log) + 1
                    /\ o.match[p] > 0 =>
                         \/ Acknowledged(node', votes', elections', p, e, o.match[p])
                         \/ Outside(o, p)
  <2>1. PICK f \in elections :
           /\ f.leader = q /\ f.term = o.term /\ f.log = o.log
           /\ \A p \in Server :
                /\ p \in Peers(o) \ {q} => o.next[p] <= Len(o.log) + 1
                /\ o.match[p] > 0 =>
                     \/ Acknowledged(node, votes, elections, p, f, o.match[p])
                     \/ Outside(o, p)
    BY <1>2, <1>8 DEF NodeKept
  <2> DEFINE e == Carried(s, n, f)
  <2>2. e \in elections' /\ e.term = f.term /\ e.leader = f.leader /\ e.log = f.log
    BY <1>1, <2>1, CarriedFacts
  <2>3. \A p \in Server : o.match[p] > 0 =>
           Acknowledged(node', votes', elections', p, e, o.match[p]) \/ Outside(o, p)
    BY <1>1, <2>1, AcknowledgedPersists
  <2> HIDE DEF e
  <2> QED
    BY <2>1, <2>2, <2>3
<1> HIDE DEF o
<1> QED
  BY <1>1, <1>3, <1>4, <1>5, <1>6, <1>7, <1>8 DEF NodeKept, Voted, VotedNext

\* The fields of the other messages.
LEMMA MessageFields ==
  ASSUME NEW m \in Message
  PROVE  /\ m.from \in Server /\ m.to \in Server /\ m.term \in Nat
         /\ m.type = "appendRequest" =>
              m.prev \in Nat /\ m.prevTerm \in Nat /\ m.entries \in Seq(Entry) /\ m.commit \in Nat
         /\ m.type = "snapshotRequest" =>
              m.prefix \in Seq(Entry) /\ m.conf \in Configuration /\ m.epoch \in Nat
         /\ m.type \in {"voteResponse", "appendResponse", "snapshotResponse"} =>
              m.success \in BOOLEAN /\ m.match \in Nat
BY DEF Message

\* A message that was true stays true.
LEMMA MessagePersists ==
  ASSUME Before, TypeOK', NEW s, NEW n, NEW ms, Effect(s, n, ms), NEW m \in Message, MessageKept(m)
  PROVE  MessageKept(m)'
<1>1. /\ Change(s, n, ms) /\ s \in Server /\ n.term \in Nat /\ node[s].term \in Nat
      /\ m.from \in Server /\ m.to \in Server /\ m.term \in Nat
  BY NodeFields, MessageFields, Types DEF Effect, Change
<1>2. ASSUME m.type = "voteRequest"
      PROVE  /\ m.term <= node'[m.from].term
             /\ m.lastTerm < m.term
             /\ m.lastTerm > 0 => m.lastIndex > 0
             /\ Standing(node', m.from, m.term) =>
                  /\ Len(node'[m.from].log) = m.lastIndex
                  /\ m.lastIndex > 0 => node'[m.from].log[m.lastIndex].term = m.lastTerm
  <2>1. /\ node'[m.from].term >= node[m.from].term
        /\ node'[m.from].term \in Nat /\ node[m.from].term \in Nat
    BY <1>1, NodesNext, Types, NodeFields
  <2>2. /\ m.term <= node[m.from].term
        /\ m.lastTerm < m.term
        /\ m.lastTerm > 0 => m.lastIndex > 0
        /\ Standing(node, m.from, m.term) =>
             /\ Len(node[m.from].log) = m.lastIndex
             /\ m.lastIndex > 0 => node[m.from].log[m.lastIndex].term = m.lastTerm
    BY <1>2 DEF MessageKept
  <2>3. Standing(node', m.from, m.term) =>
          Standing(node, m.from, m.term) /\ node'[m.from].log = node[m.from].log
    BY <1>1, <2>2, StandingNext
  <2> QED
    BY <1>1, <2>1, <2>2, <2>3
<1>3. Len(committed') >= Len(committed) /\ Len(committed') \in Nat /\ Len(committed) \in Nat
  BY CommittedNext
<1>4. ASSUME m.type = "appendRequest"
      PROVE  \E e \in elections' :
               /\ e.term = m.term /\ e.leader = m.from
               /\ m.prev + Len(m.entries) <= Len(e.log)
               /\ m.prev > 0 => e.log[m.prev].term = m.prevTerm
               /\ \A k \in 1 .. Len(m.entries) : m.entries[k] = e.log[m.prev + k]
               /\ m.commit <= Len(e.log) /\ m.commit <= Len(committed')
               /\ Settled(node', votes', elections', e.log, m.commit, m.term)
  <2>1. PICK f \in elections :
               /\ f.term = m.term /\ f.leader = m.from
               /\ m.prev + Len(m.entries) <= Len(f.log)
               /\ m.prev > 0 => f.log[m.prev].term = m.prevTerm
               /\ \A k \in 1 .. Len(m.entries) : m.entries[k] = f.log[m.prev + k]
               /\ m.commit <= Len(f.log) /\ m.commit <= Len(committed)
               /\ Settled(node, votes, elections, f.log, m.commit, m.term)
    BY <1>4 DEF MessageKept
  <2>2. m.prev \in Nat /\ m.entries \in Seq(Entry) /\ m.commit \in Nat
    BY <1>4, MessageFields
  <2> DEFINE e == Carried(s, n, f)
  <2>3. /\ e \in elections' /\ e.term = f.term /\ e.leader = f.leader /\ Grown(e.log, f.log, f.term)
        /\ f.log \in Seq(Entry) /\ e.log \in Seq(Entry)
    BY <1>1, CarriedFacts, Types, ElectionFields
  <2> HIDE DEF e
  <2>4. Len(f.log) <= Len(e.log) /\ \A k \in 1 .. Len(f.log) : e.log[k] = f.log[k]
    BY <2>3 DEF Grown, Agree
  <2>5. Agree(e.log, f.log, m.commit)
    BY <2>1, <2>2, <2>3, <2>4 DEF Agree
  <2>6. Settled(node', votes', elections', e.log, m.commit, m.term)
    BY <1>1, <2>1, <2>2, <2>3, <2>5, SettledPersists
  <2>7. \A k \in 1 .. Len(m.entries) : m.entries[k] = e.log[m.prev + k]
    <3> TAKE k \in 1 .. Len(m.entries)
    <3>1. m.prev + k \in 1 .. Len(f.log)
      BY <2>1, <2>2, <2>3
    <3>2. e.log[m.prev + k] = f.log[m.prev + k]
      BY <2>4, <3>1
    <3> QED
      BY <2>1, <3>2
  <2>8. m.prev > 0 => e.log[m.prev].term = m.prevTerm
    <3> HAVE m.prev > 0
    <3>1. m.prev \in 1 .. Len(f.log)
      BY <2>1, <2>2, <2>3
    <3>2. e.log[m.prev] = f.log[m.prev]
      BY <2>4, <3>1
    <3> QED
      BY <2>1, <3>2
  <2>9. m.prev + Len(m.entries) <= Len(e.log) /\ m.commit <= Len(e.log) /\ m.commit <= Len(committed')
    BY <1>3, <2>1, <2>2, <2>3, <2>4, SMTT(30)
  <2> QED
    BY <2>1, <2>3, <2>6, <2>7, <2>8, <2>9
<1>5. ASSUME m.type = "snapshotRequest"
      PROVE  \E e \in elections' :
               /\ e.term = m.term /\ e.leader = m.from
               /\ m.prefix # <<>> /\ Has(e.log, m.prefix) /\ Len(m.prefix) <= Len(committed')
               /\ Settled(node', votes', elections', e.log, Len(m.prefix), m.term)
  <2>1. PICK f \in elections :
               /\ f.term = m.term /\ f.leader = m.from
               /\ m.prefix # <<>> /\ Has(f.log, m.prefix) /\ Len(m.prefix) <= Len(committed)
               /\ Settled(node, votes, elections, f.log, Len(m.prefix), m.term)
    BY <1>5 DEF MessageKept
  <2>2. m.prefix \in Seq(Entry) /\ Len(m.prefix) \in Nat
    BY <1>5, MessageFields
  <2> DEFINE e == Carried(s, n, f)
  <2>3. /\ e \in elections' /\ e.term = f.term /\ e.leader = f.leader /\ Grown(e.log, f.log, f.term)
        /\ f.log \in Seq(Entry) /\ e.log \in Seq(Entry)
    BY <1>1, CarriedFacts, Types, ElectionFields
  <2> HIDE DEF e
  <2>4. Agree(m.prefix, f.log, Len(m.prefix))
    BY <2>1, <2>2, <2>3 DEF Has, Agree
  <2>5. Agree(e.log, m.prefix, Len(m.prefix)) /\ Agree(e.log, f.log, Len(m.prefix))
    BY <2>2, <2>3, <2>4, GrownAgree
  <2>6. Settled(node', votes', elections', e.log, Len(m.prefix), m.term)
    BY <1>1, <2>1, <2>2, <2>3, <2>5, SettledPersists
  <2> QED
    BY <1>3, <2>1, <2>2, <2>3, <2>5, <2>6 DEF Has
<1>6. ASSUME m.type \in {"appendResponse", "snapshotResponse"}, m.success
      PROVE  \E e \in elections' :
               /\ e.term = m.term /\ e.leader = m.to
               /\ Acknowledged(node', votes', elections', m.from, e, m.match)
  <2>1. PICK f \in elections :
               /\ f.term = m.term /\ f.leader = m.to
               /\ Acknowledged(node, votes, elections, m.from, f, m.match)
    BY <1>6 DEF MessageKept
  <2>2. m.match \in Nat
    BY <1>6, MessageFields
  <2> DEFINE e == Carried(s, n, f)
  <2>3. e \in elections' /\ e.term = f.term /\ e.leader = f.leader
    BY <1>1, CarriedFacts
  <2>4. Acknowledged(node', votes', elections', m.from, e, m.match)
    BY <1>1, <2>1, <2>2, AcknowledgedPersists
  <2> HIDE DEF e
  <2> QED
    BY <2>1, <2>3, <2>4
<1> QED
  BY <1>2, <1>4, <1>5, <1>6 DEF MessageKept

\* A new message is true.
LEMMA MessageSent ==
  ASSUME Before, TypeOK', NEW s, NEW n, NEW ms, Effect(s, n, ms), NEW m \in Message, Sends(s, n, m)
  PROVE  MessageKept(m)'
<1>1. /\ Change(s, n, ms) /\ s \in Server /\ node'[s] = n /\ n \in Node /\ n.term \in Nat
      /\ n.log \in Seq(Entry)
  BY NodeFields, NodesNext DEF Effect, Change
<1>2. CASE MessageKept(m)
  BY <1>2, MessagePersists
<1>3. CASE /\ m.type = "voteRequest" /\ m.from = s /\ m.term = n.term
           /\ m.lastTerm < m.term /\ (m.lastTerm > 0 => m.lastIndex > 0)
           /\ n.role = "candidate" =>
                /\ Len(n.log) = m.lastIndex
                /\ m.lastIndex > 0 => n.log[m.lastIndex].term = m.lastTerm
  BY <1>1, <1>3 DEF MessageKept, Standing
<1>4. CASE /\ m.type \in {"appendResponse", "snapshotResponse"} /\ m.from = s /\ m.term = n.term
           /\ \E f \in elections : f.term = m.term /\ f.leader = m.to /\ Agree(n.log, f.log, m.match)
  <2>1. PICK f \in elections : f.term = m.term /\ f.leader = m.to /\ Agree(n.log, f.log, m.match)
    BY <1>4
  <2>2. m.match \in Nat
    BY <1>4, MessageFields
  <2> DEFINE e == Carried(s, n, f)
  <2>3. /\ e \in elections' /\ e.term = f.term /\ e.leader = f.leader /\ Grown(e.log, f.log, f.term)
        /\ f.log \in Seq(Entry) /\ e.log \in Seq(Entry)
    BY <1>1, CarriedFacts, Types, ElectionFields
  <2> HIDE DEF e
  <2>4. Agree(n.log, e.log, m.match)
    BY <1>1, <2>1, <2>2, <2>3, GrownAgree
  <2>5. Acknowledged(node', votes', elections', s, e, m.match)
    BY <1>1, <1>4, <2>1, <2>2, <2>3, <2>4, AcknowledgedNow
  <2> QED
    BY <1>4, <2>1, <2>3, <2>5 DEF MessageKept
<1> QED
  BY <1>2, <1>3, <1>4 DEF Sends

LEMMA CommittedStep ==
  ASSUME Before, TypeOK', NEW s, NEW n, NEW ms, Effect(s, n, ms)
  PROVE  CommittedKept'
<1>1. /\ Change(s, n, ms) /\ n.log \in Seq(Entry) /\ n.commit \in Nat /\ n.term \in Nat
      /\ n.commit <= Len(n.log)
  BY NodeFields DEF Effect, Change
<1>2. /\ committed \in Seq(Entry) /\ committed' \in Seq(Entry)
      /\ committed' # committed =>
           Len(committed') = n.commit /\ Agree(committed', n.log, n.commit)
  BY CommittedNext
<1>3. CASE committed' = committed
  <2>1. PICK t \in Nat : Settled(node, votes, elections, committed, Len(committed), t)
    BY DEF Before, SafetyInvariant, CommittedKept
  <2>2. Agree(committed, committed, Len(committed)) /\ Len(committed) \in Nat /\ t <= t
    BY <1>2 DEF Agree
  <2>3. Settled(node', votes', elections', committed, Len(committed), t)
    BY <1>1, <1>2, <2>1, <2>2, SettledPersists
  <2> QED
    BY <1>3, <2>3 DEF CommittedKept
<1>4. CASE committed' # committed
  <2>1. Settled(node', votes', elections', n.log, n.commit, n.term)
    BY CommitSettled
  <2>2. Len(committed') = n.commit /\ Agree(committed', n.log, n.commit)
    BY <1>2, <1>4
  <2>3. Settled(node', votes', elections', committed', n.commit, n.term)
    BY <1>1, <1>2, <2>1, <2>2 DEF Settled, Agree
  <2> QED
    BY <1>1, <2>2, <2>3 DEF CommittedKept
<1> QED
  BY <1>3, <1>4

\* A pending read stays behind the leadership that it began behind.
LEMMA ReadPersists ==
  ASSUME Before, TypeOK', NEW s, NEW n, NEW ms, Effect(s, n, ms), NEW r \in reads
  PROVE  ReadKept(r)'
<1>1. Change(s, n, ms) /\ ReadKept(r)
  BY DEF Effect, Before, SafetyInvariant
<1>2. r.seen \in Nat /\ r.index \in Nat /\ r.term \in Nat
  BY DEF Before, TypeOK, Read
<1>3. r.seen <= Len(committed')
  <2>1. Len(committed') >= Len(committed) /\ Len(committed') \in Nat /\ Len(committed) \in Nat
    BY CommittedNext
  <2> QED
    BY <1>1, <1>2, <2>1 DEF ReadKept
<1>4. ASSUME NEW g \in elections, NEW f \in elections, g.term = r.term, f.term > r.term,
             r.index <= Len(g.log), ~Agree(f.log, g.log, r.index)
      PROVE  \E e, h \in elections' :
               /\ e.term = r.term /\ h.term > r.term
               /\ r.index <= Len(e.log) /\ ~Agree(h.log, e.log, r.index)
  <2> DEFINE e == Carried(s, n, g)
             h == Carried(s, n, f)
  <2>1. /\ e \in elections' /\ e.term = g.term /\ Grown(e.log, g.log, g.term)
        /\ g.log \in Seq(Entry) /\ e.log \in Seq(Entry) /\ g.term \in Nat
    BY <1>1, CarriedFacts, Types, ElectionFields
  <2>2. /\ h \in elections' /\ h.term = f.term /\ Grown(h.log, f.log, f.term)
        /\ f.log \in Seq(Entry) /\ h.log \in Seq(Entry) /\ f.term \in Nat
    BY <1>1, CarriedFacts, Types, ElectionFields
  <2>3. TermsUpTo(e.log, e.term)
    BY <1>1, <2>1, LeadershipsStep DEF LeadershipsKept
  <2> HIDE DEF e, h
  <2>4. r.index <= Len(e.log)
    BY <1>2, <1>4, <2>1 DEF Grown, Agree
  <2>5. ASSUME Agree(h.log, e.log, r.index) PROVE FALSE
    <3>1. g.term < f.term /\ TermsUpTo(e.log, g.term)
      BY <1>4, <2>1, <2>3
    <3>2. Agree(f.log, e.log, r.index)
      BY <1>2, <2>1, <2>2, <2>5, <3>1, GrownLacks
    <3>3. Agree(f.log, g.log, r.index)
      BY <1>2, <1>4, <2>1, <2>2, <3>2 DEF Grown, Agree
    <3> QED
      BY <1>4, <3>3
  <2> QED
    BY <1>4, <2>1, <2>2, <2>4, <2>5
<1> QED
  BY <1>1, <1>3, <1>4 DEF ReadKept

\* A new read is behind what was committed, or its leader is deposed.
LEMMA ReadBegun ==
  ASSUME Before, TypeOK', NEW s, NEW n, NEW ms, Effect(s, n, ms), NEW r \in reads' \ reads
  PROVE  ReadKept(r)'
<1> DEFINE o == node[s]
<1>1. /\ Change(s, n, ms) /\ s \in Server /\ n.role = "leader" /\ o.role = "leader" /\ r.term = n.term
      /\ r.index = Len(o.log) + 1 /\ r.index <= Len(n.log) /\ r.seen = Len(committed)
  BY DEF Effect, Begun, Change
<1>2. /\ n.log \in Seq(Entry) /\ o.log \in Seq(Entry) /\ n.term = o.term /\ n.term \in Nat
      /\ Grown(n.log, o.log, n.term) /\ committed \in Seq(Entry)
  BY <1>1, Types, NodeFields DEF Change, Moves
<1>3. r.seen <= Len(committed')
  <2>1. Len(committed') >= Len(committed)
    BY CommittedNext
  <2> QED
    BY <1>1, <2>1
<1> SUFFICES ASSUME ~(r.seen < r.index)
             PROVE  \E e, h \in elections' :
                      /\ e.term = r.term /\ h.term > r.term
                      /\ r.index <= Len(e.log) /\ ~Agree(h.log, e.log, r.index)
  BY <1>3 DEF ReadKept
<1>4. PICK g \in elections : g.leader = s /\ g.term = o.term /\ g.log = o.log
  BY <1>1 DEF Before, SafetyInvariant, NodeKept
<1>5. PICK t \in Nat : Settled(node, votes, elections, committed, Len(committed), t)
  BY DEF Before, SafetyInvariant, CommittedKept
<1>6. PICK f \in elections : f.term <= t /\ Agree(committed, f.log, Len(committed)) /\
             \E x \in Len(committed) .. Len(f.log) :
                Chosen(node, votes, elections, f.term, Prefix(f.log, x))
  <2>1. Len(committed) # 0
    BY <1>1, <1>2
  <2> QED
    BY <1>5, <2>1 DEF Settled
<1>7. f.term \in Nat /\ f.log \in Seq(Entry) /\ g.term \in Nat
  BY Types, ElectionFields
<1>8. Settled(node, votes, elections, committed, Len(committed), f.term)
  BY <1>6, <1>7 DEF Settled
<1>9. f.term > g.term
  <2> SUFFICES ASSUME f.term <= g.term PROVE FALSE
    BY <1>7
  <2>1. Len(committed) \in Nat /\ Len(committed) # 0
    BY <1>1, <1>2
  <2>2. Agree(committed, g.log, Len(committed))
    BY <1>2, <1>7, <1>8, <2>1, SettledSafe
  <2> QED
    BY <1>1, <1>2, <1>4, <2>2 DEF Agree
<1>10. f.leader # s
  BY <1>2, <1>4, <1>7, <1>9, Leaderships
<1> DEFINE e == Carried(s, n, g)
           h == Carried(s, n, f)
<1>11. e \in elections' /\ e.term = g.term /\ e.log = n.log
  BY <1>1, <1>2, <1>4, CarriedFacts
<1>12. h \in elections' /\ h.term = f.term /\ h.log = f.log
  BY <1>1, <1>10, CarriedFacts
<1> HIDE DEF e, h
<1>13. ~Agree(f.log, n.log, r.index)
  <2> SUFFICES ASSUME Agree(f.log, n.log, r.index) PROVE FALSE
    OBVIOUS
  <2>1. /\ r.index \in 1 .. Len(f.log) /\ f.log[r.index] = n.log[r.index]
        /\ r.index \in Len(o.log) + 1 .. Len(n.log)
    <3>1. r.index \in Nat /\ r.index >= 1 /\ r.index >= Len(o.log) + 1 /\ Len(o.log) + 1 \in Nat
      BY <1>1, <1>2
    <3>2. /\ r.index <= Len(f.log) /\ r.index <= Len(n.log) /\ Len(f.log) \in Nat
          /\ Len(n.log) \in Nat
      BY <1>2, <1>7 DEF Agree
    <3>3. r.index \in 1 .. r.index
      BY <3>1
    <3>4. f.log[r.index] = n.log[r.index]
      BY <3>3 DEF Agree
    <3> QED
      BY <3>1, <3>2, <3>4
  <2>2. f.log[r.index].term = n.term
    BY <2>1, <1>2 DEF Grown
  <2>3. PICK k \in elections : k.term = f.log[r.index].term /\ Agree(f.log, k.log, r.index)
    BY <2>1, Leaderships DEF Inherited
  <2>4. k = g
    BY <1>2, <1>4, <2>2, <2>3, Leaderships
  <2> QED
    BY <1>1, <1>2, <1>4, <2>3, <2>4 DEF Agree
<1> QED
  BY <1>1, <1>2, <1>4, <1>9, <1>11, <1>12, <1>13

\* Every such step keeps the invariant.
LEMMA EffectKeeps ==
  ASSUME Before, TypeOK', NEW s, NEW n, NEW ms, Effect(s, n, ms)
  PROVE  SafetyInvariant'
<1>1. Change(s, n, ms) /\ Becomes(s, n, ms)
  BY DEF Effect, Change
<1>2. Usual' /\ LeadershipsKept' /\ VotesKept' /\ CommittedKept'
  BY <1>1, UsualStep, LeadershipsStep, VotesStep, CommittedStep
<1>3. \A q \in Server : NodeKept(q)'
  BY NodeStep, OtherNodes
<1>4. \A m \in msgs' : MessageKept(m)'
  <2> TAKE m \in msgs'
  <2>1. m \in msgs \cup ms
    BY <1>1 DEF Becomes
  <2>2. CASE m \in msgs
    <3>1. m \in Message /\ MessageKept(m)
      BY <2>2, Types DEF Before, SafetyInvariant
    <3> QED
      BY <3>1, MessagePersists
  <2>3. CASE m \in ms
    <3>1. m \in Message /\ Sends(s, n, m)
      BY <2>3 DEF Effect
    <3> QED
      BY <3>1, MessageSent
  <2> QED
    BY <2>1, <2>2, <2>3
<1>5. \A r \in reads' : ReadKept(r)'
  BY ReadPersists, ReadBegun
<1> QED
  BY <1>2, <1>3, <1>4, <1>5 DEF SafetyInvariant

-----------------------------------------------------------------------------
(* The operations of a leader.                                             *)

\* n differs from m at most in what neither elections nor logs depend on, and
\* in the commit index.
Alike(n, m) ==
  /\ n.term = m.term /\ n.role = m.role /\ n.log = m.log /\ n.snap = m.snap /\ n.base = m.base
  /\ n.conf = m.conf /\ n.applied = m.applied /\ n.match = m.match /\ n.next = m.next
  /\ n.incarnation = m.incarnation
  /\ UsualNode(m) => UsualNode(n)

\* n is m after more entries of its term, and perhaps with a later commit
\* index that was counted.
Grows(s, m, n) ==
  /\ n \in Node /\ UsualNode(n) /\ Grown(n.log, m.log, m.term)
  /\ n.term = m.term /\ n.role = m.role /\ n.snap = m.snap /\ n.base = m.base
  /\ n.conf = m.conf /\ n.applied = m.applied /\ n.match = m.match /\ n.next = m.next
  /\ n.incarnation = m.incarnation
  /\ n.commit >= m.commit /\ n.commit <= Len(n.log)
  /\ n.commit # m.commit => Counted(s, n)

\* Facts about two nodes one of which has grown from the other.
LEMMA GrowsFacts ==
  ASSUME NEW m \in Node, NEW n, NEW s, Grows(s, m, n)
  PROVE  /\ Peers(n) \subseteq Peers(m) /\ \A p : Outside(m, p) => Outside(n, p)
         /\ Len(m.log) <= Len(n.log)
         /\ m.applied <= Len(m.log) /\ InForce(m) => InForce(n)
         /\ m.commit <= Len(m.log) /\ Counted(s, m) => Counted(s, n)
<1>1. /\ n \in Node /\ UsualNode(n) /\ m.snap = n.snap /\ m.base = n.base
      /\ Agree(n.log, m.log, Len(m.log)) /\ n.term = m.term /\ n.match = m.match
      /\ n.applied = m.applied /\ n.conf = m.conf
  BY DEF Grows, Grown
<1>2. /\ Peers(n) \subseteq Peers(m)
      /\ \A i \in 0 .. Len(m.log) : VotersAt(n, i) = VotersAt(m, i)
  BY <1>1, PeersShrink
<1>3. ASSUME NEW p, Outside(m, p) PROVE Outside(n, p)
  <2>1. /\ p \notin Peers(m)
        /\ \A i \in m.snap + 1 .. Len(m.log) : m.log[i].term = n.term => p \notin VotersAt(m, i)
    BY <1>1, <1>3 DEF Outside
  <2> QED
    BY <1>1, <2>1, OutsideKept
<1>4. m.applied \in Nat /\ m.commit \in Nat /\ Len(m.log) \in Nat /\ m.snap \in Nat
  BY NodeFields
<1>5. ASSUME m.applied <= Len(m.log), InForce(m) PROVE InForce(n)
  <2>1. Agree(n.log, m.log, m.applied)
    BY <1>1, <1>4, <1>5 DEF Agree
  <2>2. ConfigurationAt(n, m.applied) = ConfigurationAt(m, m.applied)
    BY <1>1, <1>4, <2>1, SameConfiguration
  <2> QED
    BY <1>1, <1>5, <2>2 DEF InForce
<1>6. ASSUME m.commit <= Len(m.log), Counted(s, m) PROVE Counted(s, n)
  <2>1. CASE n.commit = m.commit
    <3>1. m.commit \in 0 .. Len(m.log) /\ m.commit \in 1 .. Len(m.log)
      BY <1>4, <1>6 DEF Counted
    <3>2. VotersAt(n, n.commit) = VotersAt(m, m.commit) /\ n.log[n.commit] = m.log[m.commit]
      BY <1>1, <1>2, <2>1, <3>1 DEF Agree
    <3> QED
      BY <1>1, <1>6, <2>1, <3>2 DEF Counted
  <2>2. CASE n.commit # m.commit
    BY <2>2 DEF Grows
  <2> QED
    BY <2>1, <2>2
<1> QED
  BY <1>1, <1>2, <1>3, <1>5, <1>6 DEF Agree

LEMMA GrowsAlike ==
  ASSUME NEW m \in Node, UsualNode(m), m.commit <= Len(m.log), NEW s,
         NEW n \in Node, Alike(n, m), n.commit = m.commit
  PROVE  Grows(s, m, n)
<1>1. m.commit \in Nat /\ Len(m.log) \in Nat
  BY NodeFields
<1>2. Grown(n.log, m.log, m.term)
  BY <1>1 DEF Alike, Grown, Agree
<1>3. n.commit >= m.commit /\ n.commit <= Len(n.log)
  BY <1>1 DEF Alike
<1> QED
  BY <1>2, <1>3 DEF Alike, Grows

LEMMA GrowsTransitive ==
  ASSUME NEW m \in Node, NEW k, NEW n, NEW s, Grows(s, m, k), Grows(s, k, n)
  PROVE  Grows(s, m, n)
<1>1. k \in Node /\ n \in Node /\ k.commit <= Len(k.log)
  BY DEF Grows
<1>2. /\ Len(m.log) \in Nat /\ Len(k.log) \in Nat /\ Len(n.log) \in Nat
      /\ m.commit \in Nat /\ k.commit \in Nat /\ n.commit \in Nat
  BY <1>1, NodeFields
<1>3. Grown(n.log, m.log, m.term)
  <2>1. /\ Agree(k.log, m.log, Len(m.log)) /\ Agree(n.log, k.log, Len(k.log)) /\ k.term = m.term
        /\ \A x \in Len(m.log) + 1 .. Len(k.log) : k.log[x].term = m.term
        /\ \A x \in Len(k.log) + 1 .. Len(n.log) : n.log[x].term = k.term
    BY DEF Grows, Grown
  <2>2. Agree(n.log, m.log, Len(m.log))
    BY <1>2, <2>1 DEF Agree
  <2>3. ASSUME NEW x \in Len(m.log) + 1 .. Len(n.log) PROVE n.log[x].term = m.term
    <3>1. CASE x <= Len(k.log)
      <4>1. x \in 1 .. Len(k.log) /\ x \in Len(m.log) + 1 .. Len(k.log)
        BY <1>2, <3>1
      <4>2. n.log[x] = k.log[x]
        BY <2>1, <4>1 DEF Agree
      <4> QED
        BY <2>1, <4>1, <4>2
    <3>2. CASE ~(x <= Len(k.log))
      <4>1. x \in Len(k.log) + 1 .. Len(n.log)
        BY <1>2, <3>2
      <4> QED
        BY <2>1, <4>1
    <3> QED
      BY <3>1, <3>2
  <2> QED
    BY <2>2, <2>3 DEF Grown
<1>4. n.commit >= m.commit /\ n.commit <= Len(n.log)
  BY <1>2 DEF Grows
<1>5. n.commit # m.commit => Counted(s, n)
  <2>1. CASE k.commit = m.commit
    BY <2>1 DEF Grows
  <2>2. CASE k.commit # m.commit
    <3>1. Counted(s, k)
      BY <2>2 DEF Grows
    <3> QED
      BY <1>1, <3>1, GrowsFacts
  <2> QED
    BY <2>1, <2>2
<1> QED
  BY <1>3, <1>4, <1>5 DEF Grows

\* advance_commit_index: to an entry of the leader's term that a majority has.
LEMMA AdvanceGrows ==
  ASSUME NEW n \in Node, UsualNode(n), NEW s \in Server, n.snap <= n.commit, n.commit <= Len(n.log),
         NEW m, m = AdvanceCommitIndex(n, s)
  PROVE  Grows(s, n, m) /\ m.log = n.log
<1> DEFINE able == {i \in n.commit + 1 .. LastIndex(n) : CanCommit(n, s, i)}
           c == Max(able)
<1>1. n.log \in Seq(Entry) /\ n.commit \in Nat /\ n.snap \in Nat /\ m \in Node
  BY NodeFields, AdvanceCommitIndexKeeps
<1>2. CASE able = {}
  <2>1. m = n
    BY <1>2 DEF AdvanceCommitIndex
  <2>2. Alike(m, n)
    BY <2>1 DEF Alike
  <2> QED
    BY <1>1, <2>1, <2>2, GrowsAlike
<1>3. CASE able # {}
  <2>1. m = [n EXCEPT !.commit = c]
    BY <1>3 DEF AdvanceCommitIndex
  <2>2. able \in SUBSET (n.commit + 1 .. Len(n.log)) /\ n.commit + 1 \in Nat /\ Len(n.log) \in Nat
    BY <1>1 DEF LastIndex
  <2>3. c \in able
    <3> HIDE DEF able
    <3> QED
      BY <1>3, <2>2, MaxInInterval
  <2>4. CanCommit(n, s, c) /\ c \in n.commit + 1 .. Len(n.log)
    BY <2>3 DEF LastIndex
  <2> HIDE DEF c, able
  <2>5. Alike(m, n) /\ m.commit = c
    BY <2>1 DEF Alike, UsualNode, Node
  <2>6. c \in Nat /\ c > n.commit /\ c <= Len(n.log) /\ c > n.snap /\ c > 0
    BY <1>1, <2>4
  <2>7. n.log[c].term = n.term
    BY <1>1, <2>4, <2>6 DEF CanCommit, TermAt, LastIndex
  <2>8. Ids(AllMembers(ConfigurationAt(n, c))) = VotersAt(n, c)
    <3>1. Usually(ConfigurationAt(n, c)) /\ ConfigurationAt(n, c) \in Configuration
      BY <2>6, UsualConfiguration, ConfigurationAtType
    <3> QED
      BY <3>1, ConfigurationShape, UsuallyFacts DEF VotersAt
  <2>9. Quorum(Replicated(n, s, c))
    BY <2>4, <2>6, UsualConfiguration, JointIsQuorum DEF CanCommit
  <2>10. Replicated(n, s, c) = {s} \cup {p \in VotersAt(n, c) : p # s /\ n.match[p] >= c}
    BY <2>8 DEF Replicated
  <2>11. Agree(m.log, n.log, c) /\ m.snap = n.snap /\ m.base = n.base
    BY <2>5, <2>6 DEF Alike, Agree
  <2>12. VotersAt(m, c) = VotersAt(n, c)
    BY <1>1, <2>6, <2>11, SameConfiguration DEF VotersAt
  <2>13. Counted(s, m)
    BY <2>5, <2>6, <2>7, <2>9, <2>10, <2>12 DEF Counted, Alike
  <2>14. Grown(m.log, n.log, n.term)
    BY <1>1, <2>5 DEF Alike, Grown, Agree
  <2> QED
    BY <1>1, <2>5, <2>6, <2>13, <2>14 DEF Alike, Grows
<1> QED
  BY <1>2, <1>3

\* An entry is appended: no JOIN, and the JOINT entry of the removal only.
LEMMA AppendGrows ==
  ASSUME NEW n \in Node, UsualNode(n), NEW s \in Server, n.commit <= Len(n.log),
         NEW kind \in Kinds, kind # "join", NEW c \in Members,
         kind = "joint" => c = Remaining /\ Remaining # NoMembers,
         NEW m, m = AppendEntry(n, NewEntry(n.term, s, kind, c))
  PROVE  Grows(s, n, m) /\ Len(m.log) = Len(n.log) + 1 /\ m.commit = n.commit
<1>1. n.log \in Seq(Entry) /\ n.term \in Nat /\ n.commit \in Nat /\ Len(n.log) \in Nat
  BY NodeFields
<1>2. PICK e : e = NewEntry(n.term, s, kind, c)
  OBVIOUS
<1>3. e \in Entry /\ e.term = n.term /\ e.kind = kind /\ e.members = c
  BY <1>1, <1>2, NewEntryType DEF NewEntry
<1>4. m \in Node /\ m = [n EXCEPT !.log = Append(n.log, e)]
  BY <1>2, <1>3, AppendEntryKeeps DEF AppendEntry
<1>5. /\ Append(n.log, e) \in Seq(Entry) /\ Len(Append(n.log, e)) = Len(n.log) + 1
      /\ \A i \in 1 .. Len(n.log) : Append(n.log, e)[i] = n.log[i]
      /\ Append(n.log, e)[Len(n.log) + 1] = e
  BY <1>1, <1>3
<1>6. /\ m.log = Append(n.log, e) /\ m.term = n.term /\ m.role = n.role /\ m.snap = n.snap
      /\ m.applied = n.applied /\ m.match = n.match /\ m.next = n.next
      /\ m.incarnation = n.incarnation /\ m.commit = n.commit
      /\ m.conf = n.conf /\ m.base = n.base /\ m.joiners = n.joiners
      /\ m.admission = n.admission /\ m.joiningFrom = n.joiningFrom
  BY <1>4 DEF Node
<1>7. UsualLog(m.log)
  <2>1. UsualLog(n.log)
    BY DEF UsualNode
  <2> SUFFICES ASSUME NEW i \in 1 .. Len(m.log)
               PROVE  /\ m.log[i].kind # "join"
                      /\ m.log[i].kind = "joint" => m.log[i].members = Remaining /\ Remaining # NoMembers
    BY DEF UsualLog
  <2>2. CASE i \in 1 .. Len(n.log)
    BY <1>5, <1>6, <2>1, <2>2 DEF UsualLog
  <2>3. CASE i = Len(n.log) + 1
    BY <1>3, <1>5, <1>6, <2>3
  <2> QED
    BY <1>1, <1>5, <1>6, <2>2, <2>3
<1>8. UsualNode(m)
  BY <1>6, <1>7 DEF UsualNode
<1>9. Grown(m.log, n.log, n.term)
  BY <1>1, <1>3, <1>5, <1>6 DEF Grown, Agree
<1>10. m.commit >= n.commit /\ m.commit <= Len(m.log)
  BY <1>1, <1>5, <1>6
<1> QED
  BY <1>4, <1>5, <1>6, <1>8, <1>9, <1>10 DEF Grows

\* submit_command
LEMMA SubmitGrows ==
  ASSUME NEW n \in Node, UsualNode(n), NEW s \in Server, n.snap <= n.commit, n.commit <= Len(n.log),
         NEW kind \in {"noop", "command", "finalize"}, NEW m, m = Submit(n, s, kind, NoMembers)
  PROVE  Grows(s, n, m) /\ Len(m.log) = Len(n.log) + 1
<1>1. PICK k : k = AppendEntry(n, NewEntry(n.term, s, kind, NoMembers))
  OBVIOUS
<1>2. kind \in Kinds /\ kind # "join" /\ kind # "joint" /\ NoMembers \in Members
  BY NoMembersType DEF Kinds
<1>3. Grows(s, n, k) /\ Len(k.log) = Len(n.log) + 1 /\ k.commit = n.commit
  BY <1>1, <1>2, AppendGrows
<1>4. k \in Node /\ UsualNode(k) /\ k.snap <= k.commit /\ k.commit <= Len(k.log)
  BY <1>3 DEF Grows
<1>5. m = AdvanceCommitIndex(k, s)
  BY <1>1 DEF Submit
<1>6. Grows(s, k, m) /\ m.log = k.log
  BY <1>4, <1>5, AdvanceGrows
<1> QED
  BY <1>3, <1>6, GrowsTransitive

\* A flag of the bookkeeping makes no difference.
LEMMA FlagAlike ==
  ASSUME NEW m \in Node
  PROVE  /\ \A k : k \in {[m EXCEPT !.after = TRUE], [m EXCEPT !.finPending = TRUE],
                          [m EXCEPT !.tail = TRUE]} =>
              k \in Node /\ Alike(k, m) /\ k.commit = m.commit
<1> SUFFICES ASSUME NEW k, k \in {[m EXCEPT !.after = TRUE], [m EXCEPT !.finPending = TRUE],
                                  [m EXCEPT !.tail = TRUE]}
             PROVE  k \in Node /\ Alike(k, m) /\ k.commit = m.commit
  OBVIOUS
<1>1. CASE k = [m EXCEPT !.after = TRUE]
  BY <1>1, ZenonT(60) DEF Node, Alike, UsualNode
<1>2. CASE k = [m EXCEPT !.finPending = TRUE]
  BY <1>2, ZenonT(60) DEF Node, Alike, UsualNode
<1>3. CASE k = [m EXCEPT !.tail = TRUE]
  BY <1>3, ZenonT(60) DEF Node, Alike, UsualNode
<1> QED
  BY <1>1, <1>2, <1>3

\* maybe_auto_finalize_joint_configuration
LEMMA FinalizeGrows ==
  ASSUME NEW n \in Node, UsualNode(n), NEW s \in Server, n.snap <= n.commit, n.commit <= Len(n.log),
         NEW m, m = MaybeAutoFinalize(n, s)
  PROVE  Grows(s, n, m) /\ (n.role # "leader" => m = n)
<1>1. CASE ReadyToFinalize(n, s)
  <2>1. PICK k : k = Submit(n, s, "finalize", NoMembers)
    OBVIOUS
  <2>2. Grows(s, n, k)
    BY <2>1, SubmitGrows
  <2>3. k \in Node /\ UsualNode(k) /\ k.commit <= Len(k.log)
    BY <2>2 DEF Grows
  <2>4. m \in {[k EXCEPT !.after = TRUE], [k EXCEPT !.finPending = TRUE], [k EXCEPT !.tail = TRUE]}
    BY <1>1, <2>1 DEF MaybeAutoFinalize
  <2>5. m \in Node /\ Alike(m, k) /\ m.commit = k.commit
    BY <2>3, <2>4, FlagAlike
  <2>6. Grows(s, k, m)
    BY <2>3, <2>5, GrowsAlike
  <2>7. Grows(s, n, m)
    BY <2>2, <2>6, GrowsTransitive
  <2> QED
    BY <1>1, <2>7 DEF ReadyToFinalize
<1>2. CASE ~ReadyToFinalize(n, s)
  <2>1. m = n
    BY <1>2 DEF MaybeAutoFinalize
  <2>2. Alike(m, n)
    BY <2>1 DEF Alike
  <2> QED
    BY <2>1, <2>2, GrowsAlike
<1> QED
  BY <1>1, <1>2

\* advance_commit_index and what follows it.
LEMMA AdvanceThenGrows ==
  ASSUME NEW n \in Node, UsualNode(n), NEW s \in Server, n.snap <= n.commit, n.commit <= Len(n.log),
         NEW m, m = AdvanceThenFinalize(n, s)
  PROVE  Grows(s, n, m)
<1>1. PICK k : k = AdvanceCommitIndex(n, s)
  OBVIOUS
<1>2. Grows(s, n, k)
  BY <1>1, AdvanceGrows
<1>3. k \in Node /\ UsualNode(k) /\ k.commit <= Len(k.log) /\ k.snap = n.snap /\ k.commit >= n.commit
  BY <1>2 DEF Grows
<1>4. k.snap <= k.commit
  BY <1>3, NodeFields
<1>5. m = IF k.commit > n.commit THEN [k EXCEPT !.tail = TRUE] ELSE MaybeAutoFinalize(k, s)
  BY <1>1 DEF AdvanceThenFinalize
<1>6. Grows(s, k, m)
  <2>1. CASE m = [k EXCEPT !.tail = TRUE]
    <3>1. m \in Node /\ Alike(m, k) /\ m.commit = k.commit
      BY <1>3, <2>1, FlagAlike
    <3> QED
      BY <1>3, <3>1, GrowsAlike
  <2>2. CASE m = MaybeAutoFinalize(k, s)
    BY <1>3, <1>4, <2>2, FinalizeGrows
  <2> QED
    BY <1>5, <2>1, <2>2
<1> QED
  BY <1>2, <1>6, GrowsTransitive

\* submit_joint_configuration of the removal.
LEMMA JointGrows ==
  ASSUME NEW n \in Node, UsualNode(n), NEW s \in Server, n.snap <= n.commit, n.commit <= Len(n.log),
         Remaining # NoMembers, NEW m, m = SubmitJointConfiguration(n, s, Remaining)
  PROVE  Grows(s, n, m)
<1>1. PICK k : k = AppendEntry(n, NewEntry(n.term, s, "joint", Remaining))
  OBVIOUS
<1>2. "joint" \in Kinds /\ Remaining \in Members
  BY MapsTyped DEF Kinds
<1>3. Grows(s, n, k) /\ k.commit = n.commit
  BY <1>1, <1>2, AppendGrows
<1>4. k \in Node /\ UsualNode(k) /\ k.snap <= k.commit /\ k.commit <= Len(k.log)
  BY <1>3 DEF Grows
<1>5. m = n \/ m = AdvanceThenFinalize(k, s)
  BY <1>1 DEF SubmitJointConfiguration
<1>6. CASE m = n
  <2>1. Alike(m, n)
    BY <1>6 DEF Alike
  <2> QED
    BY <1>6, <2>1, GrowsAlike
<1>7. CASE m = AdvanceThenFinalize(k, s)
  <2>1. Grows(s, k, m)
    BY <1>4, <1>7, AdvanceThenGrows
  <2> QED
    BY <1>3, <2>1, GrowsTransitive
<1> QED
  BY <1>5, <1>6, <1>7

\* Nobody is waiting to be promoted.
LEMMA NobodyPromoted ==
  ASSUME NEW n, UsualNode(n), NEW s
  PROVE  MaybePromotePendingJoiners(n, s) = n
<1>1. {p \in Server : n.joiners[p] > 0 /\ n.match[p] >= n.joiners[p]} = {}
  <2>1. \A p \in Server : n.joiners[p] = 0
    BY DEF UsualNode, Zero
  <2> QED
    BY <2>1
<1> QED
  BY <1>1 DEF MaybePromotePendingJoiners

-----------------------------------------------------------------------------
(* The kinds of steps.                                                     *)

\* What is known of a node before a step.
LEMMA NodeBefore ==
  ASSUME Before, NEW s \in Server, NEW o, o = node[s]
  PROVE  /\ o \in Node /\ o.log \in Seq(Entry) /\ o.term \in Nat /\ o.commit \in Nat
         /\ o.snap \in Nat /\ o.applied \in Nat /\ Len(o.log) \in Nat
         /\ o.role \in {"follower", "candidate", "leader"}
         /\ UsualNode(o) /\ InForce(o)
         /\ o.snap <= o.applied /\ o.applied <= o.commit /\ o.commit <= Len(o.log)
         /\ TermsUpTo(o.log, o.term) /\ Inherited(elections, o.log)
         /\ Settled(node, votes, elections, o.log, o.commit, o.term)
         /\ o.match[s] = 0 /\ o.commit <= Len(committed)
<1>1. o \in Node
  BY Types
<1>2. NodeKept(s) /\ UsualNode(o)
  BY DEF Before, SafetyInvariant, Usual
<1> QED
  BY <1>1, <1>2, NodeFields DEF NodeKept

\* A leader's own leadership.
LEMMA LeaderBefore ==
  ASSUME Before, NEW s \in Server, NEW o, o = node[s], o.role = "leader"
  PROVE  /\ o.log # <<>> /\ Progress(s, o)
         /\ \E e \in elections : e.leader = s /\ e.term = o.term /\ e.log = o.log
<1>1. NodeKept(s)
  BY DEF Before, SafetyInvariant
<1>2. PICK e \in elections :
           /\ e.leader = s /\ e.term = o.term /\ e.log = o.log
           /\ \A p \in Server :
                /\ p \in Peers(o) \ {s} => o.next[p] <= Len(o.log) + 1
                /\ o.match[p] > 0 =>
                     Acknowledged(node, votes, elections, p, e, o.match[p]) \/ Outside(o, p)
  BY <1>1 DEF NodeKept
<1>3. e.log # <<>>
  BY Leaderships
<1>4. Progress(s, o)
  BY <1>1, <1>2 DEF Progress, NodeKept
<1> QED
  BY <1>2, <1>3, <1>4

\* What a leader knows stays true while it changes nothing, or forgets.
LEMMA ProgressKept ==
  ASSUME Before, NEW s \in Server, node[s].role = "leader", NEW k \in Node, Progress(s, k),
         k.role = "leader", NEW n \in Node, n.term = k.term, n.match[s] = 0,
         Peers(n) \subseteq Peers(k), \A p : Outside(k, p) => Outside(n, p),
         Len(k.log) <= Len(n.log), \A p \in Server : n.match[p] \in {0, k.match[p]},
         \A p \in Peers(n) \ {s} : n.next[p] <= k.next[p]
  PROVE  Progress(s, n)
<1>1. Len(k.log) \in Nat /\ Len(n.log) \in Nat
  BY NodeFields
<1>2. ASSUME NEW p \in Server, p \in Peers(n) \ {s} PROVE n.next[p] <= Len(n.log) + 1
  <2>1. n.next[p] \in Nat /\ k.next[p] \in Nat
    BY NodeFields
  <2>2. k.next[p] <= Len(k.log) + 1 /\ n.next[p] <= k.next[p]
    BY <1>2 DEF Progress
  <2>3. \A a, b, c, d \in Nat : a <= b /\ b <= c + 1 /\ c <= d => a <= d + 1
    OBVIOUS
  <2> QED
    BY <1>1, <2>1, <2>2, <2>3, Zenon
<1>3. ASSUME NEW p \in Server, n.match[p] > 0
      PROVE  \/ /\ node[s].role = "leader"
                /\ \E f \in elections :
                     /\ f.leader = s /\ f.term = n.term
                     /\ Acknowledged(node, votes, elections, p, f, n.match[p])
             \/ Outside(n, p)
  <2>1. n.match[p] = k.match[p] /\ k.match[p] > 0
    BY <1>3
  <2> QED
    BY <2>1 DEF Progress
<1> QED
  BY <1>2, <1>3 DEF Progress

LEMMA NoVotes ==
  ASSUME NEW s, NEW n, votes' = votes,
         n.role # "follower" => n.term = node[s].term, node[s].term \in Nat
  PROVE  CastsVotes(s, n)
BY DEF CastsVotes

\* A step that leaves the log alone, and the term too unless it is given up.
Calm(s, n) ==
  LET o == node[s]
  IN  /\ n.log = o.log /\ n.term >= o.term
      /\ n.role # "follower" => n.role = o.role /\ n.term = o.term
      /\ n.snap <= n.applied /\ n.applied <= n.commit /\ n.commit <= o.commit
      /\ n.incarnation = o.incarnation => n.commit = o.commit
      /\ n.match[s] = 0
      /\ n.role = "leader" => Progress(s, n)
      /\ UsualNode(n) /\ InForce(n)

LEMMA CalmEffect ==
  ASSUME Before, NEW s \in Server, NEW n \in Node, NEW ms, Becomes(s, n, ms), Calm(s, n),
         CastsVotes(s, n), reads' = reads,
         \A m \in ms : m \in Message /\ UsualMessage(m) /\ Sends(s, n, m)
  PROVE  Effect(s, n, ms)
<1> DEFINE o == node[s]
<1>1. /\ o \in Node /\ o.log \in Seq(Entry) /\ o.term \in Nat /\ o.commit \in Nat
      /\ o.commit <= Len(o.log) /\ Len(o.log) \in Nat
      /\ Settled(node, votes, elections, o.log, o.commit, o.term)
  BY NodeBefore
<1>2. n.term \in Nat /\ n.commit \in Nat /\ n.log \in Seq(Entry)
  BY NodeFields
<1>3. /\ n.log = o.log /\ n.term >= o.term /\ n.commit <= o.commit
      /\ n.role # "follower" => n.role = o.role /\ n.term = o.term
  BY DEF Calm
<1>4. Moves(s, n)
  <2>1. ASSUME n.role = "leader" PROVE Grown(n.log, o.log, n.term) /\ n.log # <<>>
    <3>1. o.role = "leader"
      BY <1>3, <2>1
    <3>2. o.log # <<>>
      BY <3>1, LeaderBefore
    <3> QED
      BY <1>1, <1>3, <3>2 DEF Grown, Agree
  <2> QED
    BY <1>1, <1>3, <2>1 DEF Moves, Stood
<1>5. Change(s, n, ms)
  BY <1>4 DEF Change
<1>6. Commits(s, n)
  <2>1. Agree(n.log, o.log, n.commit) /\ n.commit \in 0 .. o.commit
    BY <1>1, <1>2, <1>3 DEF Agree
  <2>2. Settled(node, votes, elections, n.log, n.commit, n.term)
    BY <1>1, <1>2, <1>3, <2>1, SettledLower
  <2> QED
    BY <2>2 DEF Commits
<1>7. Progress(s, n)
  BY DEF Calm, Progress
<1>8. /\ n.snap <= n.applied /\ n.applied <= n.commit /\ n.commit <= Len(n.log) /\ UsualNode(n)
      /\ InForce(n)
  BY <1>1, <1>2, <1>3 DEF Calm
<1>9. n.incarnation = o.incarnation => n.commit >= o.commit
  BY <1>1, <1>2 DEF Calm
<1> QED
  BY <1>5, <1>6, <1>7, <1>8, <1>9 DEF Effect

\* A leader that appended or counted.
Tended(s, n) ==
  LET o == node[s]
  IN  /\ n \in Node /\ UsualNode(n) /\ o.role = "leader" /\ n.role = "leader" /\ n.term = o.term
      /\ Grown(n.log, o.log, n.term)
      /\ n.snap <= n.applied /\ n.applied <= n.commit /\ n.commit <= Len(n.log)
      /\ n.commit >= o.commit /\ (n.commit # o.commit => Counted(s, n))
      /\ InForce(n) /\ Progress(s, n)

LEMMA TendedBefore ==
  ASSUME Before, NEW s \in Server, node[s].role = "leader"
  PROVE  Tended(s, node[s])
<1>1. PICK o : o = node[s]
  OBVIOUS
<1>2. /\ o \in Node /\ UsualNode(o) /\ Len(o.log) \in Nat /\ o.commit \in Nat /\ InForce(o)
      /\ o.snap <= o.applied /\ o.applied <= o.commit /\ o.commit <= Len(o.log)
  BY <1>1, NodeBefore
<1>3. Progress(s, o)
  BY <1>1, LeaderBefore
<1>4. Grown(o.log, o.log, o.term) /\ o.commit >= o.commit
  BY <1>2 DEF Grown, Agree
<1> QED
  BY <1>1, <1>2, <1>3, <1>4 DEF Tended

LEMMA TendedGrows ==
  ASSUME Before, NEW s \in Server, NEW m, Tended(s, m), NEW n, Grows(s, m, n)
  PROVE  Tended(s, n)
<1>1. PICK o : o = node[s]
  OBVIOUS
<1>2. /\ m \in Node /\ UsualNode(m) /\ o.role = "leader" /\ m.role = "leader" /\ m.term = o.term
      /\ Grown(m.log, o.log, m.term)
      /\ m.snap <= m.applied /\ m.applied <= m.commit /\ m.commit <= Len(m.log)
      /\ m.commit >= o.commit /\ (m.commit # o.commit => Counted(s, m))
      /\ InForce(m) /\ Progress(s, m)
  BY <1>1 DEF Tended
<1>3. /\ n \in Node /\ UsualNode(n) /\ Grown(n.log, m.log, m.term)
      /\ n.term = m.term /\ n.role = m.role /\ n.snap = m.snap /\ n.applied = m.applied
      /\ n.match = m.match /\ n.next = m.next
      /\ n.commit >= m.commit /\ n.commit <= Len(n.log)
      /\ n.commit # m.commit => Counted(s, n)
  BY DEF Grows
<1>4. /\ o \in Node /\ o.commit \in Nat /\ m.commit \in Nat /\ n.commit \in Nat
      /\ o.log \in Seq(Entry) /\ Len(o.log) \in Nat /\ Len(m.log) \in Nat /\ Len(n.log) \in Nat
      /\ m.applied \in Nat
  BY <1>1, <1>2, <1>3, NodeBefore, NodeFields
<1>5. /\ Peers(n) \subseteq Peers(m) /\ \A p : Outside(m, p) => Outside(n, p)
      /\ Len(m.log) <= Len(n.log)
      /\ m.applied <= Len(m.log) /\ InForce(m) => InForce(n)
      /\ m.commit <= Len(m.log) /\ Counted(s, m) => Counted(s, n)
  BY <1>2, GrowsFacts
<1>6. Grown(n.log, o.log, n.term)
  <2>1. /\ Agree(m.log, o.log, Len(o.log)) /\ Agree(n.log, m.log, Len(m.log))
        /\ \A x \in Len(o.log) + 1 .. Len(m.log) : m.log[x].term = m.term
        /\ \A x \in Len(m.log) + 1 .. Len(n.log) : n.log[x].term = m.term
    BY <1>2, <1>3 DEF Grown
  <2>2. Agree(n.log, o.log, Len(o.log))
    BY <1>4, <2>1 DEF Agree
  <2>3. ASSUME NEW x \in Len(o.log) + 1 .. Len(n.log) PROVE n.log[x].term = m.term
    <3>1. CASE x <= Len(m.log)
      <4>1. x \in 1 .. Len(m.log) /\ x \in Len(o.log) + 1 .. Len(m.log)
        BY <1>4, <3>1
      <4>2. n.log[x] = m.log[x]
        BY <2>1, <4>1 DEF Agree
      <4> QED
        BY <2>1, <4>1, <4>2
    <3>2. CASE ~(x <= Len(m.log))
      <4>1. x \in Len(m.log) + 1 .. Len(n.log)
        BY <1>4, <3>2
      <4> QED
        BY <2>1, <4>1
    <3> QED
      BY <3>1, <3>2
  <2> QED
    BY <1>3, <2>2, <2>3 DEF Grown
<1>7. InForce(n)
  BY <1>2, <1>4, <1>5
<1>8. n.commit >= o.commit /\ n.applied <= n.commit
  BY <1>2, <1>3, <1>4
<1>9. n.commit # o.commit => Counted(s, n)
  <2>1. CASE n.commit # m.commit
    BY <1>3, <2>1
  <2>2. CASE n.commit = m.commit
    BY <1>2, <1>5, <2>2
  <2> QED
    BY <2>1, <2>2
<1>10. Progress(s, n)
  <2>1. \A p \in Server : n.match[p] \in {0, m.match[p]}
    BY <1>3
  <2>2. \A p \in Peers(n) \ {s} : n.next[p] <= m.next[p]
    <3>1. Peers(n) \subseteq Server
      BY <1>3, <1>4, UsualConfiguration, MapsTyped DEF Peers, VotersAt, Usually
    <3>2. \A p \in Server : n.next[p] \in Nat
      BY <1>3, NodeFields
    <3> QED
      BY <1>3, <3>1, <3>2
  <2>3. n.match[s] = 0
    BY <1>2, <1>3 DEF Progress
  <2> QED
    BY <1>1, <1>2, <1>3, <1>5, <2>1, <2>2, <2>3, ProgressKept
<1> QED
  BY <1>1, <1>2, <1>3, <1>6, <1>7, <1>8, <1>9, <1>10 DEF Tended

LEMMA LeaderEffect ==
  ASSUME Before, NEW s \in Server, NEW n, Tended(s, n), Becomes(s, n, {}), votes' = votes,
         \A r \in reads' \ reads : Begun(s, n, r)
  PROVE  Effect(s, n, {})
<1>1. PICK o : o = node[s]
  OBVIOUS
<1>2. /\ n \in Node /\ UsualNode(n) /\ o.role = "leader" /\ n.role = "leader" /\ n.term = o.term
      /\ Grown(n.log, o.log, n.term)
      /\ n.snap <= n.applied /\ n.applied <= n.commit /\ n.commit <= Len(n.log)
      /\ n.commit >= o.commit /\ (n.commit # o.commit => Counted(s, n))
      /\ InForce(n) /\ Progress(s, n)
  BY <1>1 DEF Tended
<1>3. o \in Node /\ o.log \in Seq(Entry) /\ o.term \in Nat /\ Len(o.log) \in Nat
  BY <1>1, NodeBefore
<1>4. n.term \in Nat /\ n.log \in Seq(Entry)
  BY <1>2, NodeFields
<1>5. o.log # <<>>
  BY <1>1, <1>2, LeaderBefore
<1>6. n.log # <<>>
  BY <1>2, <1>3, <1>4, <1>5 DEF Grown, Agree
<1>7. Moves(s, n)
  BY <1>1, <1>2, <1>3, <1>4, <1>6 DEF Moves
<1>8. CastsVotes(s, n)
  BY <1>1, <1>2, <1>3, NoVotes
<1>9. Change(s, n, {})
  BY <1>2, <1>7, <1>8 DEF Change
<1>10. Commits(s, n)
  <2>1. CASE n.commit = o.commit
    BY <1>1, <1>9, <2>1, CommittedLogKept DEF Commits
  <2>2. CASE n.commit # o.commit
    BY <1>2, <2>2 DEF Commits
  <2> QED
    BY <2>1, <2>2
<1> QED
  BY <1>1, <1>2, <1>9, <1>10 DEF Effect

-----------------------------------------------------------------------------
(* The actions, one by one.                                                *)

\* The next entry of o has been applied.
Applied(o, k) ==
  /\ k \in Node /\ UsualNode(k) /\ InForce(k)
  /\ k.applied = o.applied + 1 /\ k.commit = o.commit /\ k.log = o.log /\ k.term = o.term
  /\ k.snap = o.snap /\ k.base = o.base /\ k.incarnation = o.incarnation
  /\ k.role \in {"follower", o.role}
  /\ \A p \in Server : k.match[p] \in {0, o.match[p]} /\ k.next[p] \in {0, o.next[p]}

\* The fields that a change of configuration leaves.
Changed(o, i, c, x, y, z, w) ==
  [o EXCEPT !.applied = i, !.conf = c, !.epoch = i, !.decommissioned = x,
            !.joiners = y, !.finMembers = z, !.finFence = w, !.finPending = FALSE]

LEMMA ChangedFields ==
  ASSUME NEW o \in Node, NEW i, NEW c, NEW x, NEW y, NEW z, NEW w, NEW m,
         m = Changed(o, i, c, x, y, z, w)
  PROVE  /\ m.applied = i /\ m.commit = o.commit /\ m.snap = o.snap /\ m.log = o.log
         /\ m.role = o.role /\ m.term = o.term /\ m.incarnation = o.incarnation
         /\ m.match = o.match /\ m.next = o.next /\ m.joiners = y
         /\ m.base = o.base /\ m.conf = c /\ m.joiningFrom = o.joiningFrom
         /\ m.admission = o.admission
BY DEF Node, Changed

\* The configuration that an entry puts in force is the one that the log
\* prescribes after it.
LEMMA ChangeFacts ==
  ASSUME NEW o \in Node, UsualNode(o), InForce(o), NEW s \in Server,
         NEW i \in o.snap + 1 .. Len(o.log), i = o.applied + 1,
         o.log[i].kind \in {"joint", "finalize"},
         NEW m, m = ChangeConfiguration(o, s, i)
  PROVE  /\ m \in Node /\ UsualNode(m) /\ InForce(m)
         /\ m.applied = i /\ m.commit = o.commit /\ m.log = o.log /\ m.term = o.term
         /\ m.snap = o.snap /\ m.base = o.base /\ m.incarnation = o.incarnation
         /\ m.role = o.role /\ m.match = o.match /\ m.next = o.next
<1>1. /\ o.snap \in Nat /\ o.applied \in Nat /\ i \in Nat /\ i \in 1 .. LastIndex(o)
      /\ i - 1 = o.applied
  <2>1. o.snap \in Nat /\ o.applied \in Nat /\ Len(o.log) \in Nat
    BY NodeFields
  <2>2. i \in Nat /\ i \in 1 .. Len(o.log)
    BY <2>1
  <2> QED
    BY <2>1, <2>2 DEF LastIndex
<1>2. m \in Node
  BY <1>1, ChangeConfigurationKeeps
<1>3. PICK c : c = IF o.log[i].kind = "joint" THEN TransitionTo(o.conf, o.log[i].members)
                   ELSE FinalizeTransition(o.conf)
  OBVIOUS
<1> DEFINE joint == o.log[i].kind = "joint"
<1>4. PICK x : x = ~Contains(c, s)
  OBVIOUS
<1>5. PICK y : y = [p \in Server |-> IF joint /\ p \in Ids(o.log[i].members) THEN 0 ELSE o.joiners[p]]
  OBVIOUS
<1>6. PICK z : z = IF joint THEN Ids(o.log[i].members) ELSE {}
  OBVIOUS
<1>7. PICK w : w = IF joint THEN i ELSE 0
  OBVIOUS
<1>8. m = Changed(o, i, c, x, y, z, w)
  BY <1>3, <1>4, <1>5, <1>6, <1>7 DEF ChangeConfiguration, Changed
<1> HIDE DEF joint
<1>9. /\ m.applied = i /\ m.commit = o.commit /\ m.snap = o.snap /\ m.log = o.log
      /\ m.role = o.role /\ m.term = o.term /\ m.incarnation = o.incarnation
      /\ m.match = o.match /\ m.next = o.next /\ m.joiners = y
      /\ m.base = o.base /\ m.conf = c /\ m.joiningFrom = o.joiningFrom /\ m.admission = o.admission
  BY <1>8, ChangedFields
<1>10. y = Zero
  BY <1>5 DEF UsualNode, Zero
<1>11. c = ConfigurationAt(o, i)
  <2>1. o.conf = ConfigurationAt(o, i - 1)
    BY <1>1 DEF InForce
  <2> QED
    BY <1>3, <2>1, ConfigurationStep
<1>12. Usually(c)
  BY <1>1, <1>11, UsualConfiguration
<1>13. UsualNode(m)
  BY <1>9, <1>10, <1>12 DEF UsualNode
<1>14. ConfigurationAt(m, i) = ConfigurationAt(o, i)
  <2>1. Agree(m.log, o.log, i)
    BY <1>9 DEF Agree
  <2> QED
    BY <1>1, <1>2, <1>9, <2>1, SameConfiguration
<1>15. InForce(m)
  BY <1>9, <1>11, <1>14 DEF InForce
<1> QED
  BY <1>2, <1>9, <1>13, <1>15

LEMMA ForgetFacts ==
  ASSUME NEW n \in Node, UsualNode(n), InForce(n), NEW s \in Server,
         NEW m, m = RelinquishAndForget(n, s)
  PROVE  /\ m \in Node /\ UsualNode(m) /\ InForce(m)
         /\ m.applied = n.applied /\ m.commit = n.commit /\ m.log = n.log /\ m.term = n.term
         /\ m.snap = n.snap /\ m.base = n.base /\ m.incarnation = n.incarnation
         /\ m.role \in {"follower", n.role}
         /\ \A p \in Server : m.match[p] \in {0, n.match[p]} /\ m.next[p] \in {0, n.next[p]}
<1>1. m \in Node
  BY RelinquishAndForgetKeeps
<1>2. PICK x : x = [p \in Server |-> IF Contains(n.conf, p) THEN n.next[p] ELSE 0]
  OBVIOUS
<1>3. PICK y : y = [p \in Server |-> IF Contains(n.conf, p) THEN n.match[p] ELSE 0]
  OBVIOUS
<1>4. PICK k : k = [n EXCEPT !.next = x, !.match = y]
  OBVIOUS
<1>5. m = k \/ m = [k EXCEPT !.role = "follower", !.known = Nil, !.granted = {}]
  BY <1>2, <1>3, <1>4, SMTT(30) DEF RelinquishAndForget
<1>6. k \in Node
  BY <1>2, <1>3, <1>4, ZenonT(60) DEF Node
<1>7. /\ k.applied = n.applied /\ k.commit = n.commit /\ k.log = n.log
      /\ k.role = n.role /\ k.term = n.term /\ k.incarnation = n.incarnation
      /\ k.conf = n.conf /\ k.snap = n.snap /\ k.base = n.base /\ k.joiners = n.joiners
      /\ k.joiningFrom = n.joiningFrom /\ k.admission = n.admission
      /\ k.match = y /\ k.next = x
  BY <1>4 DEF Node
<1>8. /\ m.applied = k.applied /\ m.commit = k.commit /\ m.log = k.log
      /\ m.role \in {"follower", k.role} /\ m.term = k.term /\ m.incarnation = k.incarnation
      /\ m.conf = k.conf /\ m.snap = k.snap /\ m.base = k.base /\ m.joiners = k.joiners
      /\ m.joiningFrom = k.joiningFrom /\ m.admission = k.admission
      /\ m.match = k.match /\ m.next = k.next
  <2>1. CASE m = k
    BY <2>1
  <2>2. CASE m = [k EXCEPT !.role = "follower", !.known = Nil, !.granted = {}]
    BY <1>6, <2>2 DEF Node
  <2> QED
    BY <1>5, <2>1, <2>2
<1>9. \A p \in Server : m.match[p] \in {0, n.match[p]} /\ m.next[p] \in {0, n.next[p]}
  BY <1>2, <1>3, <1>7, <1>8
<1>10. UsualNode(m)
  BY <1>7, <1>8 DEF UsualNode
<1>11. InForce(m)
  <2>1. n.applied \in Nat /\ n.log \in Seq(Entry)
    BY NodeFields
  <2>2. LastIndex(m) = LastIndex(n) /\ m.snap = n.snap /\ m.base = n.base /\ m.log = n.log
    BY <1>7, <1>8 DEF LastIndex
  <2>3. ConfigurationAt(m, n.applied) = ConfigurationAt(n, n.applied)
    BY <2>2 DEF ConfigurationAt, LastOfKind
  <2> QED
    BY <1>7, <1>8, <2>3 DEF InForce
<1> QED
  BY <1>1, <1>7, <1>8, <1>9, <1>10, <1>11

\* An entry that does not change the configuration is passed over.
Skipped(o, i) == [o EXCEPT !.applied = i]

Skips(o, i, m) ==
  /\ m \in Node
  /\ m.applied = i /\ m.commit = o.commit /\ m.snap = o.snap /\ m.log = o.log
  /\ m.role = o.role /\ m.term = o.term /\ m.incarnation = o.incarnation
  /\ m.match = o.match /\ m.next = o.next /\ m.joiners = o.joiners
  /\ m.base = o.base /\ m.conf = o.conf /\ m.joiningFrom = o.joiningFrom
  /\ m.admission = o.admission

LEMMA SkippedFields ==
  ASSUME NEW o \in Node, NEW i \in Nat
  PROVE  Skips(o, i, Skipped(o, i))
BY DEF Node, Skipped, Skips

\* One round of apply_committed.
LEMMA AppliedFacts ==
  ASSUME NEW o \in Node, UsualNode(o), InForce(o), NEW s \in Server,
         o.snap <= o.applied, o.applied < o.commit, o.commit <= Len(o.log),
         NEW a, a = ApplyEntry(o, s)
  PROVE  \E k : Applied(o, k) /\ (a = k \/ a = MaybeAutoFinalize(k, s))
<1>1. PICK i : i = o.applied + 1
  OBVIOUS
<1>2. /\ o.snap \in Nat /\ o.applied \in Nat /\ o.commit \in Nat /\ Len(o.log) \in Nat
  BY NodeFields
<1>3. /\ i \in Nat /\ i \in o.snap + 1 .. Len(o.log) /\ ~(i <= o.snap) /\ ~(i > Len(o.log))
      /\ i \in 1 .. Len(o.log) /\ i - 1 = o.applied
  BY <1>1, <1>2
<1>4. o.log[i].kind # "join" /\ o.log[i].kind \in Kinds
  <2>1. o.log[i] \in Entry
    BY <1>3, NodeFields
  <2> QED
    BY <1>3, <2>1 DEF UsualNode, UsualLog, Entry
<1>5. CASE o.log[i].kind \in {"noop", "command"}
  <2>1. a = Skipped(o, i)
    BY <1>1, <1>5 DEF ApplyEntry, Skipped
  <2>2. /\ a \in Node
        /\ a.applied = i /\ a.commit = o.commit /\ a.snap = o.snap /\ a.log = o.log
        /\ a.role = o.role /\ a.term = o.term /\ a.incarnation = o.incarnation
        /\ a.match = o.match /\ a.next = o.next /\ a.joiners = o.joiners
        /\ a.base = o.base /\ a.conf = o.conf /\ a.joiningFrom = o.joiningFrom
        /\ a.admission = o.admission
    <3>1. i \in Nat
      BY <1>3
    <3> QED
      BY <2>1, <3>1, SkippedFields, SMTT(30) DEF Skips
  <2>3. UsualNode(a)
    BY <2>2 DEF UsualNode
  <2>4. ConfigurationAt(a, i) = ConfigurationAt(o, i)
    BY <2>2 DEF ConfigurationAt, LastOfKind, LastIndex
  <2>5. PICK c : c = ConfigurationAt(o, i - 1)
    OBVIOUS
  <2>6. o.log[i].kind \notin {"joint", "finalize"}
    BY <1>5
  <2>7. ConfigurationAt(o, i) = c
    BY <1>3, <2>5, <2>6, ConfigurationStep
  <2>8. o.conf = c
    BY <1>3, <2>5 DEF InForce
  <2>9. InForce(a)
    BY <2>2, <2>4, <2>7, <2>8 DEF InForce
  <2> QED
    BY <1>1, <2>2, <2>3, <2>9 DEF Applied
<1>6. CASE o.log[i].kind \in {"joint", "finalize"}
  <2>1. PICK c : c = ChangeConfiguration(o, s, i)
    OBVIOUS
  <2>2. /\ c \in Node /\ UsualNode(c) /\ InForce(c)
        /\ c.applied = i /\ c.commit = o.commit /\ c.log = o.log /\ c.term = o.term
        /\ c.snap = o.snap /\ c.base = o.base /\ c.incarnation = o.incarnation
        /\ c.role = o.role /\ c.match = o.match /\ c.next = o.next
    BY <1>1, <1>3, <1>6, <2>1, ChangeFacts
  <2>3. CompleteAdmission(c, s, i) = c
    BY <2>2 DEF CompleteAdmission, Joining, UsualNode
  <2>4. PICK k : k = RelinquishAndForget(c, s)
    OBVIOUS
  <2>5. /\ k \in Node /\ UsualNode(k) /\ InForce(k)
        /\ k.applied = c.applied /\ k.commit = c.commit /\ k.log = c.log /\ k.term = c.term
        /\ k.snap = c.snap /\ k.base = c.base /\ k.incarnation = c.incarnation
        /\ k.role \in {"follower", c.role}
        /\ \A p \in Server : k.match[p] \in {0, c.match[p]} /\ k.next[p] \in {0, c.next[p]}
    BY <2>2, <2>4, ForgetFacts
  <2>6. Applied(o, k)
    BY <1>1, <2>2, <2>5 DEF Applied
  <2>7. a = ApplyConfigurationCommand(o, s, i)
    BY <1>1, <1>3, <1>6 DEF ApplyEntry, LastIndex
  <2>8. a = k \/ a = MaybeAutoFinalize(k, s)
    BY <2>1, <2>3, <2>4, <2>7 DEF ApplyConfigurationCommand
  <2> QED
    BY <2>6, <2>8
<1> QED
  BY <1>4, <1>5, <1>6 DEF Kinds

\* What apply_committed leaves: a leader that may have appended or counted, or
\* another server whose log and terms are as before.
Handled(s, n) ==
  /\ n \in Node
  /\ \/ Tended(s, n)
     \/ n.role # "leader" /\ n.incarnation = node[s].incarnation /\ Calm(s, n)

LEMMA HandledEffect ==
  ASSUME Before, NEW s \in Server, NEW n, Handled(s, n), Becomes(s, n, {}),
         votes' = votes, reads' = reads
  PROVE  Effect(s, n, {})
<1>1. CASE Tended(s, n)
  BY <1>1, LeaderEffect
<1>2. CASE n.role # "leader" /\ Calm(s, n)
  <2>1. n \in Node /\ node[s].term \in Nat
    BY NodeBefore DEF Handled
  <2>2. CastsVotes(s, n)
    BY <1>2, <2>1, NoVotes DEF Calm
  <2> QED
    BY <1>2, <2>1, <2>2, CalmEffect
<1> QED
  BY <1>1, <1>2 DEF Handled

LEMMA AppliedHandled ==
  ASSUME Before, NEW s \in Server, NEW o, o = node[s], o.applied < o.commit, NEW k, Applied(o, k)
  PROVE  Handled(s, k) /\ k.commit = o.commit /\ k.applied <= o.commit
<1>1. /\ o \in Node /\ o.log \in Seq(Entry) /\ o.term \in Nat /\ o.commit \in Nat
      /\ o.snap \in Nat /\ o.applied \in Nat /\ UsualNode(o) /\ Len(o.log) \in Nat
      /\ o.snap <= o.applied /\ o.applied <= o.commit /\ o.commit <= Len(o.log) /\ o.match[s] = 0
  BY NodeBefore
<1>2. /\ k \in Node /\ UsualNode(k) /\ InForce(k)
      /\ k.applied = o.applied + 1 /\ k.commit = o.commit /\ k.log = o.log /\ k.term = o.term
      /\ k.snap = o.snap /\ k.base = o.base /\ k.incarnation = o.incarnation
      /\ k.role \in {"follower", o.role}
      /\ \A p \in Server : k.match[p] \in {0, o.match[p]} /\ k.next[p] \in {0, o.next[p]}
  BY DEF Applied
<1>3. k.snap <= k.applied /\ k.applied <= k.commit
  BY <1>1, <1>2
<1>4. k.match[s] = 0
  BY <1>1, <1>2
<1>5. CASE k.role = "leader"
  <2>1. o.role = "leader"
    BY <1>2, <1>5
  <2>2. Progress(s, o)
    BY <2>1, LeaderBefore
  <2>3. Peers(k) = Peers(o) /\ \A i : VotersAt(k, i) = VotersAt(o, i)
    BY <1>2 DEF Peers, VotersAt, ConfigurationAt, LastOfKind, LastIndex
  <2>4. \A p : Outside(o, p) => Outside(k, p)
    BY <1>2, <2>3 DEF Outside
  <2>5. \A p \in Peers(k) \ {s} : k.next[p] <= o.next[p]
    <3>1. Peers(k) \subseteq Server
      BY <1>1, <1>2, UsualConfiguration, MapsTyped DEF Peers, VotersAt, Usually
    <3>2. \A p \in Server : k.next[p] \in Nat /\ o.next[p] \in Nat /\ k.next[p] \in {0, o.next[p]}
      BY <1>1, <1>2, NodeFields
    <3> QED
      BY <3>1, <3>2
  <2>6. Len(o.log) <= Len(k.log)
    BY <1>1, <1>2
  <2>7. Progress(s, k)
    BY <1>1, <1>2, <1>4, <2>1, <2>2, <2>3, <2>4, <2>5, <2>6, ProgressKept
  <2>8. Grown(k.log, o.log, k.term)
    BY <1>1, <1>2 DEF Grown, Agree
  <2>9. k.commit >= o.commit /\ k.commit <= Len(k.log)
    BY <1>1, <1>2
  <2>10. Tended(s, k)
    BY <1>2, <1>3, <1>5, <2>1, <2>7, <2>8, <2>9 DEF Tended
  <2> QED
    BY <1>2, <1>3, <2>10 DEF Handled
<1>6. CASE k.role # "leader"
  <2>1. k.term >= o.term /\ k.commit <= o.commit
    BY <1>1, <1>2
  <2>2. Calm(s, k)
    BY <1>2, <1>3, <1>4, <1>6, <2>1 DEF Calm
  <2> QED
    BY <1>2, <1>3, <1>6, <2>2 DEF Handled
<1> QED
  BY <1>5, <1>6

LEMMA HandledFinalize ==
  ASSUME Before, NEW s \in Server, NEW k, Handled(s, k), NEW m, m = MaybeAutoFinalize(k, s)
  PROVE  /\ Handled(s, m) /\ m.applied = k.applied /\ m.commit >= k.commit
<1>1. k \in Node /\ k.commit \in Nat /\ k.snap \in Nat /\ k.applied \in Nat
  BY NodeFields DEF Handled
<1>2. CASE Tended(s, k)
  <2>1. /\ UsualNode(k) /\ k.snap <= k.applied /\ k.applied <= k.commit /\ k.commit <= Len(k.log)
    BY <1>2 DEF Tended
  <2>2. k.snap <= k.commit
    BY <1>1, <2>1
  <2>3. Grows(s, k, m)
    BY <1>1, <2>1, <2>2, FinalizeGrows
  <2>4. Tended(s, m)
    BY <1>2, <2>3, TendedGrows
  <2> QED
    BY <2>3, <2>4 DEF Handled, Tended, Grows
<1>3. CASE k.role # "leader"
  <2>1. m = k
    BY <1>3 DEF MaybeAutoFinalize, ReadyToFinalize
  <2> QED
    BY <1>1, <2>1
<1> QED
  BY <1>2, <1>3 DEF Handled

\* maybe_compact_local_snapshot and the flags after it.
Compacts(k, n) ==
  /\ k \in Node
  /\ \/ k.snap = n.snap /\ k.base = n.base
     \/ k.snap = n.commit /\ k.snap > n.snap /\ k.base = n.conf
  /\ k.applied = n.applied /\ k.commit = n.commit /\ k.log = n.log /\ k.conf = n.conf
  /\ k.role = n.role /\ k.term = n.term /\ k.incarnation = n.incarnation
  /\ k.match = n.match /\ k.next = n.next /\ k.joiners = n.joiners
  /\ k.joiningFrom = n.joiningFrom /\ k.admission = n.admission

LEMMA EndOfApplyFacts ==
  ASSUME NEW n \in Node, NEW s \in Server, NEW m, m = EndOfApply(n, s)
  PROVE  \E k : Compacts(k, n) /\ (m = k \/ m = MaybeAutoFinalize(k, s))
<1>1. PICK c : c = MaybeCompactLocalSnapshot(n)
  OBVIOUS
<1>2. c \in Node
  BY <1>1, CompactionKeeps
<1>3. /\ \/ c.snap = n.snap /\ c.base = n.base
         \/ c.snap = n.commit /\ c.snap > n.snap /\ c.base = n.conf
      /\ c.applied = n.applied /\ c.commit = n.commit /\ c.log = n.log /\ c.conf = n.conf
      /\ c.role = n.role /\ c.term = n.term /\ c.incarnation = n.incarnation
      /\ c.match = n.match /\ c.next = n.next /\ c.joiners = n.joiners
      /\ c.joiningFrom = n.joiningFrom /\ c.admission = n.admission
  <2>1. CASE c = n
    BY <2>1
  <2>2. CASE /\ c = [n EXCEPT !.snap = n.commit, !.base = n.conf, !.snapEpoch = n.epoch]
             /\ n.commit > n.snap
    BY <2>2 DEF Node
  <2> QED
    BY <1>1, <2>1, <2>2 DEF MaybeCompactLocalSnapshot
<1>4. PICK b : b = (c.finPending \/ n.after)
  OBVIOUS
<1>5. PICK k : k = [c EXCEPT !.finPending = b, !.after = FALSE, !.tail = FALSE]
  OBVIOUS
<1>6. b \in BOOLEAN
  BY <1>4
<1>7. k \in Node
  BY <1>2, <1>5, <1>6, ZenonT(60) DEF Node
<1>8. m = k \/ m = MaybeAutoFinalize(k, s)
  BY <1>1, <1>4, <1>5 DEF EndOfApply
<1>9. /\ k.snap = c.snap /\ k.base = c.base
      /\ k.applied = c.applied /\ k.commit = c.commit /\ k.log = c.log /\ k.conf = c.conf
      /\ k.role = c.role /\ k.term = c.term /\ k.incarnation = c.incarnation
      /\ k.match = c.match /\ k.next = c.next /\ k.joiners = c.joiners
      /\ k.joiningFrom = c.joiningFrom /\ k.admission = c.admission
  BY <1>2, <1>5 DEF Node
<1>10. Compacts(k, n)
  BY <1>3, <1>7, <1>9 DEF Compacts
<1> QED
  BY <1>8, <1>10

LEMMA HandledCompacts ==
  ASSUME Before, NEW s \in Server, NEW n, Handled(s, n), n.commit = node[s].commit,
         n.applied = n.commit, NEW k, Compacts(k, n)
  PROVE  Handled(s, k)
<1>1. PICK o : o = node[s]
  OBVIOUS
<1>2. n \in Node /\ k \in Node /\ UsualNode(n) /\ InForce(n) /\ n.snap <= n.applied
  BY DEF Handled, Compacts, Tended, Calm
<1>3. /\ n.snap \in Nat /\ n.applied \in Nat /\ n.commit \in Nat /\ Len(n.log) \in Nat
      /\ k.snap \in Nat
  BY <1>2, NodeFields
<1>4. /\ k.applied = n.applied /\ k.commit = n.commit /\ k.log = n.log /\ k.conf = n.conf
      /\ k.role = n.role /\ k.term = n.term /\ k.incarnation = n.incarnation
      /\ k.match = n.match /\ k.next = n.next /\ k.joiners = n.joiners
      /\ k.joiningFrom = n.joiningFrom /\ k.admission = n.admission
      /\ k.base \in {n.base, n.conf}
  BY DEF Compacts
<1>5. UsualNode(k)
  BY <1>2, <1>4 DEF UsualNode
<1>6. n.snap <= k.snap /\ k.snap <= k.applied
  BY <1>2, <1>3, <1>4 DEF Compacts
<1>7. InForce(k)
  <2>1. CASE k.snap = n.snap /\ k.base = n.base
    <3>1. ConfigurationAt(k, k.applied) = ConfigurationAt(n, n.applied)
      BY <1>4, <2>1 DEF ConfigurationAt, LastOfKind, LastIndex
    <3> QED
      BY <1>2, <1>4, <3>1 DEF InForce
  <2>2. CASE k.snap = n.commit /\ k.base = n.conf
    <3>1. k.applied \in Nat /\ k.applied <= k.snap
      BY <1>3, <1>4, <2>2
    <3>2. ConfigurationAt(k, k.applied) = k.base
      BY <1>2, <1>5, <3>1, BaseConfiguration
    <3> QED
      BY <1>4, <2>2, <3>2 DEF InForce
  <2> QED
    BY <2>1, <2>2 DEF Compacts
<1>8. CASE Tended(s, n)
  <2>1. /\ o.role = "leader" /\ n.role = "leader" /\ n.term = o.term
        /\ Grown(n.log, o.log, n.term) /\ n.applied <= n.commit /\ n.commit <= Len(n.log)
        /\ n.commit >= o.commit /\ Progress(s, n)
    BY <1>1, <1>8 DEF Tended
  <2>2. Peers(k) \subseteq Peers(n) /\ \A p : Outside(n, p) => Outside(k, p)
    <3>1. CASE k.snap = n.snap /\ k.base = n.base
      <4>1. Peers(k) = Peers(n) /\ \A i : VotersAt(k, i) = VotersAt(n, i)
        BY <1>4, <3>1 DEF Peers, VotersAt, ConfigurationAt, LastOfKind, LastIndex
      <4> QED
        BY <1>4, <3>1, <4>1 DEF Outside
    <3>2. CASE k.snap = n.commit /\ k.base = n.conf
      <4>1. k.base = ConfigurationAt(n, k.snap) /\ k.snap <= Len(n.log)
        BY <1>2, <1>3, <2>1, <3>2 DEF InForce
      <4> QED
        BY <1>2, <1>4, <1>5, <1>6, <4>1, OutsideCompacted
    <3> QED
      BY <3>1, <3>2 DEF Compacts
  <2>3. n.match[s] = 0
    BY <2>1 DEF Progress
  <2>4. \A p \in Peers(k) \ {s} : k.next[p] <= n.next[p]
    <3>1. Peers(k) \subseteq Server
      BY <1>2, <1>3, <1>4, <1>5, UsualConfiguration, MapsTyped DEF Peers, VotersAt, Usually
    <3>2. \A p \in Server : n.next[p] \in Nat
      BY <1>2, NodeFields
    <3> QED
      BY <1>4, <3>1, <3>2
  <2>5. Len(n.log) <= Len(k.log) /\ \A p \in Server : k.match[p] \in {0, n.match[p]}
    BY <1>3, <1>4
  <2>6. Progress(s, k)
    BY <1>1, <1>2, <1>4, <2>1, <2>2, <2>3, <2>4, <2>5, ProgressKept
  <2>7. Tended(s, k)
    BY <1>1, <1>2, <1>4, <1>5, <1>6, <1>7, <2>1, <2>6 DEF Tended
  <2> QED
    BY <1>2, <2>7 DEF Handled
<1>9. CASE n.role # "leader" /\ n.incarnation = o.incarnation /\ Calm(s, n)
  <2>1. Calm(s, k)
    BY <1>1, <1>4, <1>5, <1>6, <1>7, <1>9 DEF Calm
  <2> QED
    BY <1>1, <1>2, <1>4, <1>9, <2>1 DEF Handled
<1> QED
  BY <1>1, <1>8, <1>9 DEF Handled

\* One round of apply_committed, with the compaction after the last.
LEMMA ApplyEffect ==
  ASSUME Before, NEW s \in Server, Apply(s)
  PROVE  \E n, ms : Effect(s, n, ms)
<1>1. PICK o : o = node[s]
  OBVIOUS
<1>2. PICK n : n = ApplyCommitted(o, s)
  OBVIOUS
<1>3. o.applied < o.commit /\ Becomes(s, n, {}) /\ votes' = votes /\ reads' = reads
  BY <1>1, <1>2 DEF Apply, Busy
<1>4. /\ o \in Node /\ UsualNode(o) /\ InForce(o) /\ o.commit \in Nat
      /\ o.snap <= o.applied /\ o.commit <= Len(o.log)
  BY <1>1, NodeBefore
<1>5. PICK a : a = ApplyEntry(o, s)
  OBVIOUS
<1>6. PICK k : Applied(o, k) /\ (a = k \/ a = MaybeAutoFinalize(k, s))
  BY <1>3, <1>4, <1>5, AppliedFacts
<1>7. Handled(s, k) /\ k.commit = o.commit /\ k.applied <= o.commit
  BY <1>1, <1>3, <1>6, AppliedHandled
<1>8. k \in Node /\ k.commit \in Nat /\ k.applied \in Nat
  BY <1>7, NodeFields DEF Handled
<1>9. Handled(s, a) /\ a.applied = k.applied /\ a.commit >= k.commit
  <2>1. CASE a = k
    BY <1>7, <1>8, <2>1
  <2>2. CASE a = MaybeAutoFinalize(k, s)
    BY <1>7, <2>2, HandledFinalize
  <2> QED
    BY <1>6, <2>1, <2>2
<1>10. a \in Node /\ a.commit \in Nat
  BY <1>9, NodeFields DEF Handled
<1>11. Handled(s, n)
  <2>1. CASE a.applied = a.commit
    <3>1. a.commit = o.commit
      BY <1>4, <1>7, <1>8, <1>9, <1>10, <2>1
    <3>2. n = EndOfApply(a, s)
      BY <1>2, <1>5, <2>1 DEF ApplyCommitted
    <3>3. PICK c : Compacts(c, a) /\ (n = c \/ n = MaybeAutoFinalize(c, s))
      BY <1>10, <3>2, EndOfApplyFacts
    <3>4. Handled(s, c)
      BY <1>1, <1>9, <2>1, <3>1, <3>3, HandledCompacts
    <3> QED
      BY <3>3, <3>4, HandledFinalize
  <2>2. CASE a.applied # a.commit
    BY <1>2, <1>5, <1>9, <2>2 DEF ApplyCommitted
  <2> QED
    BY <2>1, <2>2
<1>12. Effect(s, n, {})
  BY <1>3, <1>11, HandledEffect
<1> QED
  BY <1>12

\* RaftNode::new keeps the log and forgets what it knew.
LEMMA RestartFacts ==
  ASSUME OneRemovable, NEW s \in Server, NEW n \in Node, UsualNode(n), NEW r, r = Restart(n, s)
  PROVE  /\ r \in Node /\ UsualNode(r) /\ r.term = n.term /\ r.log = n.log /\ r.snap = n.snap
         /\ r.applied = n.snap /\ r.commit = n.snap /\ r.match = Zero /\ r.role = "follower"
         /\ r.incarnation = n.incarnation + 1 /\ InForce(r)
<1> DEFINE c == IF n.snap > 0 THEN n.base ELSE Launch(s)
           completed == n.snap > 0 /\ n.snap > n.admission.snap /\ Contains(c, s)
           a == IF completed THEN NoAdmission ELSE n.admission
           m == [InitNode(s) EXCEPT
                   !.term = n.term, !.votedFor = n.votedFor, !.admission = a,
                   !.log = n.log, !.snap = n.snap, !.base = c, !.snapEpoch = n.snapEpoch,
                   !.known = a.anchor, !.joiningFrom = a.anchor,
                   !.commit = n.snap, !.applied = n.snap, !.conf = c,
                   !.epoch = IF n.snap > 0 /\ n.snapEpoch = 0 THEN n.snap ELSE n.snapEpoch,
                   !.finMembers = Ids(c.next),
                   !.finFence = IF IsJointConsensus(c) THEN n.snap ELSE 0,
                   !.incarnation = n.incarnation + 1, !.moves = n.moves]
           d == ~Contains(EffectiveConfiguration(m), s)
<1>1. Launch(s) = Launched
  BY DEF Launch, Launched, Everyone, OneRemovable
<1>2. Usually(c)
  BY <1>1 DEF UsualNode, Usually, Launched, Stable
<1>3. a = NoAdmission /\ a.anchor = Nil
  BY DEF UsualNode, NoAdmission
<1>4. r = [m EXCEPT !.decommissioned = d]
  BY DEF Restart
<1>5. r \in Node
  BY RestartKeeps
<1> HIDE DEF c, a, completed, d
<1>6. /\ m.term = n.term /\ m.log = n.log /\ m.snap = n.snap /\ m.base = c /\ m.conf = c
      /\ m.applied = n.snap /\ m.commit = n.snap /\ m.match = Zero /\ m.role = "follower"
      /\ m.incarnation = n.incarnation + 1 /\ m.joiners = Zero /\ m.admission = a
      /\ m.joiningFrom = a.anchor
  BY DEF InitNode
<1>7. /\ r.term = m.term /\ r.log = m.log /\ r.snap = m.snap /\ r.base = m.base /\ r.conf = m.conf
      /\ r.applied = m.applied /\ r.commit = m.commit /\ r.match = m.match /\ r.role = m.role
      /\ r.incarnation = m.incarnation /\ r.joiners = m.joiners /\ r.admission = m.admission
      /\ r.joiningFrom = m.joiningFrom
  BY <1>4 DEF InitNode
<1> HIDE DEF m
<1>8. UsualNode(r)
  BY <1>2, <1>3, <1>6, <1>7 DEF UsualNode
<1>9. n.snap \in Nat
  BY NodeFields
<1>10. ConfigurationAt(r, n.snap) = r.base
  BY <1>5, <1>6, <1>7, <1>8, <1>9, BaseConfiguration
<1>11. InForce(r)
  BY <1>6, <1>7, <1>10 DEF InForce
<1> QED
  BY <1>5, <1>6, <1>7, <1>8, <1>11

\* A crash that keeps the log.
LEMMA CrashIntoEffect ==
  ASSUME Before, NEW s \in Server, NEW n \in Node, CrashInto(s, n), UsualNode(n),
         n.log = node[s].log, n.term >= node[s].term, n.snap = node[s].snap,
         n.incarnation = node[s].incarnation
  PROVE  \E r, ms : Effect(s, r, ms)
<1> DEFINE r == Restart(n, s)
           o == node[s]
<1>1. /\ r \in Node /\ UsualNode(r) /\ r.term = n.term /\ r.log = n.log /\ r.snap = n.snap
      /\ r.applied = n.snap /\ r.commit = n.snap /\ r.match = Zero /\ r.role = "follower"
      /\ r.incarnation = n.incarnation + 1 /\ InForce(r)
  BY RestartFacts DEF Before
<1>2. Becomes(s, r, {}) /\ votes' = votes /\ reads' = reads
  BY DEF CrashInto
<1> HIDE DEF r
<1>3. /\ o.snap \in Nat /\ o.applied \in Nat /\ o.commit \in Nat /\ o.term \in Nat
      /\ o.snap <= o.applied /\ o.applied <= o.commit
  BY NodeBefore
<1>4. n.incarnation \in Nat /\ n.snap \in Nat
  BY DEF Node
<1>5. r.match[s] = 0
  BY <1>1 DEF Zero
<1>6. Calm(s, r)
  BY <1>1, <1>3, <1>4, <1>5 DEF Calm
<1>7. CastsVotes(s, r)
  BY <1>1, <1>2, <1>3, NoVotes
<1>8. Effect(s, r, {})
  BY <1>1, <1>2, <1>6, <1>7, CalmEffect
<1> QED
  BY <1>8

LEMMA CrashEffect ==
  ASSUME Before, NEW s \in Server, Crash(s)
  PROVE  \E r, ms : Effect(s, r, ms)
<1>1. /\ node[s] \in Node /\ UsualNode(node[s]) /\ node[s].term \in Nat
  BY NodeBefore
<1>2. CrashInto(s, node[s])
  BY DEF Crash
<1> QED
  BY <1>1, <1>2, CrashIntoEffect

LEMMA CrashAfterTermEffect ==
  ASSUME Before, NEW s \in Server, CrashAfterTerm(s)
  PROVE  \E r, ms : Effect(s, r, ms)
<1> DEFINE o == node[s]
           n(t) == [o EXCEPT !.term = t]
<1>1. o \in Node /\ UsualNode(o) /\ o.term \in Nat
  BY NodeBefore
<1>2. PICK t \in Nat : t > o.term /\ CrashInto(s, n(t))
  <2>1. ASSUME NEW m \in msgs, m.term > o.term, CrashInto(s, n(m.term))
        PROVE  \E t \in Nat : t > o.term /\ CrashInto(s, n(t))
    <3>1. m.term \in Nat
      BY Types, MessageFields
    <3> QED
      BY <2>1, <3>1
  <2>2. CASE CrashInto(s, [node[s] EXCEPT !.term = @ + 1])
    <3>1. o.term + 1 \in Nat /\ o.term + 1 > o.term /\ CrashInto(s, n(o.term + 1))
      BY <1>1, <2>2
    <3> QED
      BY <3>1
  <2> QED
    BY <2>1, <2>2 DEF CrashAfterTerm
<1>3. /\ n(t) \in Node /\ n(t).log = o.log /\ n(t).term = t /\ n(t).snap = o.snap
      /\ n(t).incarnation = o.incarnation /\ UsualNode(n(t))
  BY <1>1 DEF Node, UsualNode
<1>4. n(t).term >= o.term
  BY <1>1, <1>2, <1>3
<1> HIDE DEF n
<1> QED
  BY <1>2, <1>3, <1>4, CrashIntoEffect

\* A leader replicates to the voters of its log, and to nobody else.
LEMMA ReplicationPeersAre ==
  ASSUME NEW n \in Node, UsualNode(n)
  PROVE  /\ ReplicationPeers(n) = Peers(n) /\ Peers(n) \subseteq Server
         /\ Ids(AllMembers(EffectiveConfiguration(n))) = Peers(n)
         /\ Usually(EffectiveConfiguration(n))
         /\ \A p : IsVoter(EffectiveConfiguration(n), p) <=> p \in Peers(n)
         /\ \A p : Contains(EffectiveConfiguration(n), p) <=> p \in Peers(n)
<1>1. Len(n.log) \in Nat
  BY NodeFields
<1>2. PICK c : c = ConfigurationAt(n, Len(n.log))
  OBVIOUS
<1>3. EffectiveConfiguration(n) = c /\ Peers(n) = c.cur.voters
  BY <1>2 DEF EffectiveConfiguration, LastIndex, Peers, VotersAt
<1>4. Usually(c) /\ c \in Configuration
  BY <1>1, <1>2, UsualConfiguration, ConfigurationAtType
<1>5. /\ Ids(AllMembers(c)) = c.cur.voters /\ c.cur.voters \in {Server, Server \ Removable}
      /\ \A p : (IsVoter(c, p) <=> p \in c.cur.voters) /\ (Contains(c, p) <=> p \in c.cur.voters)
  BY <1>4, ConfigurationShape, UsuallyFacts
<1>6. {p \in Server : n.joiners[p] > 0} = {}
  BY DEF UsualNode, Zero
<1> QED
  BY <1>3, <1>4, <1>5, <1>6 DEF ReplicationPeers

\* What a leader sends is in the log of its leadership, and settled where it
\* says so.
LEMMA HeartbeatKept ==
  ASSUME Before, NEW s \in Server, NEW o, o = node[s], o.role = "leader", NEW p \in Server,
         p \in Peers(o), p # s, NEW m, m = ReplicationMessage(o, s, p)
  PROVE  m \in Message /\ UsualMessage(m) /\ MessageKept(m)
<1>1. /\ o \in Node /\ o.log \in Seq(Entry) /\ o.term \in Nat /\ o.commit \in Nat
      /\ o.snap \in Nat /\ o.applied \in Nat /\ Len(o.log) \in Nat /\ UsualNode(o)
      /\ o.snap <= o.applied /\ o.applied <= o.commit /\ o.commit <= Len(o.log)
      /\ Settled(node, votes, elections, o.log, o.commit, o.term) /\ o.commit <= Len(committed)
  BY NodeBefore
<1>2. m \in Message
  BY <1>1, ReplicationMessageType
<1>3. PICK e \in elections :
           e.leader = s /\ e.term = o.term /\ e.log = o.log
  BY LeaderBefore
<1> DEFINE ni == IF o.next[p] = 0 THEN 1 ELSE o.next[p]
           last == IF ni + MaxBatch - 1 < LastIndex(o) THEN ni + MaxBatch - 1 ELSE LastIndex(o)
<1>4. o.next[p] \in Nat /\ o.next[p] <= Len(o.log) + 1
  BY <1>1, LeaderBefore, NodeFields DEF Progress
<1>5. ni \in 1 .. Len(o.log) + 1
  BY <1>1, <1>4
<1>6. CASE o.snap > 0 /\ ni <= o.snap
  <2>1. m = [type |-> "snapshotRequest", from |-> s, to |-> p, term |-> o.term,
             prefix |-> Prefix(o.log, o.snap), conf |-> o.base, epoch |-> o.snapEpoch]
    BY <1>6 DEF ReplicationMessage
  <2>2. o.snap \in 0 .. Len(o.log)
    BY <1>1, SMTT(30)
  <2>3. /\ Prefix(o.log, o.snap) \in Seq(Entry) /\ Len(Prefix(o.log, o.snap)) = o.snap
        /\ \A j \in 1 .. o.snap : Prefix(o.log, o.snap)[j] = o.log[j]
    BY <1>1, <2>2, PrefixFacts
  <2> DEFINE P == Prefix(o.log, o.snap)
  <2>4. /\ m.type = "snapshotRequest" /\ m.from = s /\ m.term = o.term /\ m.prefix = P
        /\ Usually(m.conf)
    BY <1>1, <2>1 DEF UsualNode
  <2> HIDE DEF P
  <2>5. P \in Seq(Entry) /\ Len(P) = o.snap /\ \A j \in 1 .. o.snap : P[j] = o.log[j]
    BY <2>3 DEF P
  <2>6. UsualLog(P)
    BY <1>1, <2>2, <2>5, SMTT(30) DEF UsualNode, UsualLog
  <2>7. UsualMessage(m)
    BY <2>4, <2>6 DEF UsualMessage
  <2>8. Has(o.log, P) /\ P # <<>>
    BY <1>1, <1>6, <2>2, <2>5 DEF Has, Agree
  <2>9. Settled(node, votes, elections, o.log, o.snap, o.term)
    <3>1. o.snap \in 0 .. o.commit /\ Agree(o.log, o.log, o.snap)
      BY <1>1 DEF Agree
    <3> QED
      BY <1>1, <3>1, SettledLower
  <2>10. o.snap <= Len(committed)
    <3>1. Len(committed) \in Nat
      BY Types
    <3> QED
      BY <1>1, <3>1
  <2>11. MessageKept(m)
    BY <1>3, <2>4, <2>5, <2>8, <2>9, <2>10 DEF MessageKept
  <2> QED
    BY <1>2, <2>7, <2>11
<1>7. CASE ~(o.snap > 0 /\ ni <= o.snap)
  <2> DEFINE ents == SubSeq(o.log, ni, last)
             prev == ni - 1
             before == TermAt(o, prev)
  <2>1. m = [type |-> "appendRequest", from |-> s, to |-> p, term |-> o.term,
             prev |-> prev, prevTerm |-> before, entries |-> ents, commit |-> o.commit]
    BY <1>7 DEF ReplicationMessage
  <2>2. MaxBatch \in Nat \ {0}
    BY ConstantsAssumption
  <2>3. last \in ni - 1 .. Len(o.log) /\ last \in Int
    BY <1>1, <1>5, <2>2, SMTT(30) DEF LastIndex
  <2>4. prev \in Nat /\ prev <= Len(o.log) /\ prev >= o.snap /\ prev = ni - 1 /\ ni \in Nat
    BY <1>1, <1>5, <1>7, SMTT(30)
  <2> HIDE DEF ni, last, prev, ents, before
  <2>5. /\ m.type = "appendRequest" /\ m.from = s /\ m.term = o.term /\ m.prev = prev
        /\ m.prevTerm = before /\ m.entries = ents /\ m.commit = o.commit
    BY <2>1
  <2>6. /\ ents \in Seq(Entry) /\ Len(ents) = last - prev
        /\ \A k \in 1 .. Len(ents) : ents[k] = o.log[prev + k]
    <3>1. \A k \in ni .. last : o.log[k] \in Entry
      BY <1>1, <1>5, <2>3
    <3>2. Len(ents) = last - prev /\ \A k \in 1 .. Len(ents) : ents[k] = o.log[prev + k]
      BY <1>1, <2>3, <2>4 DEF ents
    <3>3. ents \in Seq(Entry)
      BY <1>2, <2>5, MessageFields
    <3> QED
      BY <3>2, <3>3
  <2>7. prev + Len(ents) <= Len(o.log) /\ Len(ents) \in Nat
    BY <1>1, <2>3, <2>4, <2>6
  <2>8. prev > 0 => o.log[prev].term = before
    BY <1>1, <2>4 DEF TermAt, LastIndex, before
  <2>9. UsualLog(ents)
    <3> SUFFICES ASSUME NEW k \in 1 .. Len(ents)
                 PROVE  /\ ents[k].kind # "join"
                        /\ ents[k].kind = "joint" =>
                             ents[k].members = Remaining /\ Remaining # NoMembers
      BY DEF UsualLog
    <3>1. prev + k \in 1 .. Len(o.log)
      BY <1>1, <2>4, <2>7
    <3> QED
      BY <1>1, <2>6, <3>1 DEF UsualNode, UsualLog
  <2>10. UsualMessage(m)
    BY <2>5, <2>9 DEF UsualMessage
  <2>11. MessageKept(m)
    <3>1. /\ e.term = m.term /\ e.leader = m.from
          /\ m.prev + Len(m.entries) <= Len(e.log)
          /\ m.prev > 0 => e.log[m.prev].term = m.prevTerm
          /\ \A k \in 1 .. Len(m.entries) : m.entries[k] = e.log[m.prev + k]
          /\ m.commit <= Len(e.log) /\ m.commit <= Len(committed)
          /\ Settled(node, votes, elections, e.log, m.commit, m.term)
      BY <1>1, <1>3, <2>5, <2>6, <2>7, <2>8
    <3> QED
      BY <2>5, <3>1 DEF MessageKept
  <2> QED
    BY <1>2, <2>10, <2>11
<1> QED
  BY <1>6, <1>7

LEMMA BroadcastHeartbeatEffect ==
  ASSUME Before, NEW s \in Server, BroadcastHeartbeat(s)
  PROVE  \E n, ms : Effect(s, n, ms)
<1> DEFINE o == node[s]
           ms == Heartbeats(s)
<1>1. /\ o \in Node /\ UsualNode(o) /\ o.term \in Nat /\ o.commit \in Nat /\ InForce(o)
      /\ o.snap <= o.applied /\ o.applied <= o.commit /\ o.match[s] = 0 /\ Len(o.log) \in Nat
  BY NodeBefore
<1>2. MaybePromotePendingJoiners(o, s) = o
  BY <1>1, NobodyPromoted
<1>3. Becomes(s, o, ms) /\ o.role = "leader" /\ votes' = votes /\ reads' = reads
  BY <1>2 DEF BroadcastHeartbeat
<1>4. ReplicationPeers(o) = Peers(o) /\ Peers(o) \subseteq Server
  BY <1>1, ReplicationPeersAre
<1>5. \A m \in ms : m \in Message /\ UsualMessage(m) /\ Sends(s, o, m)
  <2> TAKE m \in ms
  <2>1. PICK p \in ReplicationPeers(o) \ {s} : m = ReplicationMessage(o, s, p)
    BY DEF Heartbeats
  <2> QED
    BY <1>3, <1>4, <2>1, HeartbeatKept DEF Sends
<1>6. Progress(s, o)
  BY <1>3, LeaderBefore
<1>7. Calm(s, o)
  BY <1>1, <1>6 DEF Calm
<1>8. CastsVotes(s, o)
  BY <1>1, <1>3, NoVotes
<1>9. Effect(s, o, ms)
  BY <1>1, <1>3, <1>5, <1>7, <1>8, CalmEffect
<1> QED
  BY <1>9

\* A leader that appends an entry of its own.
LEMMA SubmitStep ==
  ASSUME Before, NEW s \in Server, node[s].role = "leader", NEW kind \in {"noop", "command"},
         NEW n, n = Submit(node[s], s, kind, NoMembers)
  PROVE  Tended(s, n) /\ Len(n.log) = Len(node[s].log) + 1
<1>1. PICK o : o = node[s]
  OBVIOUS
<1>2. /\ o \in Node /\ UsualNode(o) /\ o.commit \in Nat /\ o.snap \in Nat
      /\ o.applied \in Nat
      /\ o.snap <= o.applied /\ o.applied <= o.commit /\ o.commit <= Len(o.log)
  BY <1>1, NodeBefore
<1>3. o.snap <= o.commit
  BY <1>2
<1>4. Grows(s, o, n) /\ Len(n.log) = Len(o.log) + 1
  BY <1>1, <1>2, <1>3, SubmitGrows
<1> QED
  BY <1>1, <1>4, TendedBefore, TendedGrows

LEMMA ClientCommandEffect ==
  ASSUME Before, NEW s \in Server, ClientCommand(s)
  PROVE  \E n, ms : Effect(s, n, ms)
<1>1. PICK n : n = Submit(node[s], s, "command", NoMembers)
  OBVIOUS
<1>2. Becomes(s, n, {}) /\ votes' = votes /\ reads' = reads /\ node[s].role = "leader"
  BY <1>1 DEF ClientCommand
<1>3. Tended(s, n)
  BY <1>1, <1>2, SubmitStep
<1>4. Effect(s, n, {})
  BY <1>2, <1>3, LeaderEffect
<1> QED
  BY <1>4

LEMMA BeginReadEffect ==
  ASSUME Before, NEW s \in Server, BeginRead(s)
  PROVE  \E n, ms : Effect(s, n, ms)
<1> DEFINE o == node[s]
           n == Submit(o, s, "noop", NoMembers)
           r == [server |-> s, domain |-> o.incarnation, term |-> o.term,
                 index |-> LastIndex(o) + 1, epoch |-> o.epoch, seen |-> Len(committed)]
<1>1. Becomes(s, n, {}) /\ votes' = votes /\ reads' = reads \cup {r} /\ o.role = "leader"
  BY DEF BeginRead
<1>2. Len(o.log) \in Nat
  BY NodeBefore
<1>3. Tended(s, n) /\ Len(n.log) = Len(o.log) + 1
  BY <1>1, SubmitStep
<1>4. n.term = o.term /\ n.role = "leader"
  BY <1>3 DEF Tended
<1>5. Begun(s, n, r)
  BY <1>1, <1>2, <1>3, <1>4 DEF Begun, LastIndex
<1> HIDE DEF n, r
<1>6. \A x \in reads' \ reads : Begun(s, n, x)
  BY <1>1, <1>5
<1>7. Effect(s, n, {})
  BY <1>1, <1>3, <1>6, LeaderEffect
<1> QED
  BY <1>7

\* OP_REMOVE_SERVER: whoever is left, the JOINT entry names the remaining ones.
LEMMA RemoveServerEffect ==
  ASSUME Before, NEW s \in Server, NEW p \in Removable, RemoveServer(s, p)
  PROVE  \E n, ms : Effect(s, n, ms)
<1>1. PICK o : o = node[s]
  OBVIOUS
<1>2. /\ o \in Node /\ UsualNode(o) /\ o.commit \in Nat /\ o.snap \in Nat
      /\ o.applied \in Nat
      /\ o.snap <= o.applied /\ o.applied <= o.commit /\ o.commit <= Len(o.log)
  BY <1>1, NodeBefore
<1>3. o.snap <= o.commit
  BY <1>2
<1>4. PICK all : all = AllMembers(o.conf)
  OBVIOUS
<1>5. PICK left : left = [voters |-> all.voters \ {p}, learners |-> all.learners \ {p}]
  OBVIOUS
<1>6. PICK n : n = SubmitJointConfiguration(o, s, left)
  OBVIOUS
<1>7. /\ o.role = "leader" /\ Ids(left) # {} /\ Becomes(s, n, {})
      /\ votes' = votes /\ reads' = reads
  BY <1>1, <1>4, <1>5, <1>6 DEF RemoveServer
<1>8. all.voters \in {Server, Server \ Removable} /\ all.learners = {}
  <2>1. o.conf \in Configuration /\ Usually(o.conf)
    BY <1>2 DEF Node, UsualNode
  <2> QED
    BY <1>4, <2>1, ConfigurationShape, UsuallyFacts
<1>9. Removable = {p}
  BY DEF Before, OneRemovable
<1>10. left = Remaining
  BY <1>5, <1>8, <1>9 DEF Remaining
<1>11. Remaining # NoMembers
  BY <1>7, <1>10 DEF NoMembers, Ids
<1>12. Grows(s, o, n)
  BY <1>2, <1>3, <1>6, <1>10, <1>11, JointGrows
<1>13. Tended(s, n)
  BY <1>1, <1>7, <1>12, TendedBefore, TendedGrows
<1>14. Effect(s, n, {})
  BY <1>7, <1>13, LeaderEffect
<1> QED
  BY <1>14

-----------------------------------------------------------------------------
(* Elections.                                                              *)

\* Neither what is in force nor what is known of the peers depends on more
\* than this.
LEMMA InForceKept ==
  ASSUME NEW o, InForce(o), NEW n, n.log = o.log, n.snap = o.snap, n.base = o.base,
         n.conf = o.conf, n.applied = o.applied
  PROVE  InForce(n)
<1>1. ConfigurationAt(n, n.applied) = ConfigurationAt(o, o.applied)
  BY DEF ConfigurationAt, LastOfKind, LastIndex
<1> QED
  BY <1>1 DEF InForce

LEMMA ProgressSame ==
  ASSUME NEW s, NEW o, Progress(s, o), NEW n, n.log = o.log, n.snap = o.snap, n.base = o.base,
         n.term = o.term, n.role = o.role, n.match = o.match, n.next = o.next
  PROVE  Progress(s, n)
<1>1. Peers(n) = Peers(o) /\ \A i : VotersAt(n, i) = VotersAt(o, i)
  BY DEF Peers, VotersAt, ConfigurationAt, LastOfKind, LastIndex
<1>2. \A p : Outside(n, p) <=> Outside(o, p)
  BY <1>1 DEF Outside
<1> QED
  BY <1>1, <1>2 DEF Progress

\* step_down into a later term: nothing else is lost.
LEMMA StepDownFacts ==
  ASSUME NEW o \in Node, UsualNode(o), InForce(o), NEW t \in Nat, NEW n, n = StepDown(o, t)
  PROVE  /\ n \in Node /\ UsualNode(n) /\ n.role = "follower" /\ n.term = t /\ n.log = o.log
         /\ n.snap = o.snap /\ n.applied = o.applied /\ n.commit = o.commit
         /\ n.match = o.match /\ n.next = o.next /\ n.incarnation = o.incarnation
         /\ n.moves = o.moves /\ n.conf = o.conf /\ n.base = o.base /\ InForce(n)
<1>1. n \in Node /\ n.role = "follower" /\ n.term = t /\ n.moves = o.moves
  BY StepDownType
<1>2. /\ n.log = o.log /\ n.snap = o.snap /\ n.applied = o.applied /\ n.commit = o.commit
      /\ n.match = o.match /\ n.next = o.next /\ n.incarnation = o.incarnation
      /\ n.conf = o.conf /\ n.base = o.base /\ n.joiners = o.joiners
      /\ n.admission = o.admission /\ n.joiningFrom = o.joiningFrom
  BY DEF StepDown, Node
<1>3. InForce(n)
  BY <1>2, InForceKept
<1> QED
  BY <1>1, <1>2, <1>3 DEF UsualNode

\* A follower that keeps its log and its progress.
LEMMA FollowerCalm ==
  ASSUME Before, NEW s \in Server, NEW n \in Node, UsualNode(n), InForce(n), n.role = "follower",
         n.term >= node[s].term, n.log = node[s].log,
         n.snap = node[s].snap, n.applied = node[s].applied, n.commit = node[s].commit,
         n.match = node[s].match
  PROVE  Calm(s, n)
<1>1. /\ node[s].snap <= node[s].applied /\ node[s].applied <= node[s].commit
      /\ node[s].match[s] = 0 /\ node[s].commit \in Nat
  BY NodeBefore
<1> QED
  BY <1>1 DEF Calm

LEMMA StepDownEffect ==
  ASSUME Before, NEW s \in Server, NEW t \in Nat, t > node[s].term,
         Becomes(s, StepDown(node[s], t), {}), votes' = votes, reads' = reads
  PROVE  \E n, ms : Effect(s, n, ms)
<1>1. PICK o : o = node[s]
  OBVIOUS
<1>2. PICK n : n = StepDown(o, t)
  OBVIOUS
<1>3. o \in Node /\ UsualNode(o) /\ o.term \in Nat /\ InForce(o)
  BY <1>1, NodeBefore
<1>4. /\ n \in Node /\ UsualNode(n) /\ InForce(n)
      /\ n.role = "follower" /\ n.term = t /\ n.log = o.log
      /\ n.snap = o.snap /\ n.applied = o.applied /\ n.commit = o.commit /\ n.match = o.match
  BY <1>2, <1>3, StepDownFacts, SMTT(30)
<1>5. Becomes(s, n, {}) /\ t > o.term
  BY <1>1, <1>2
<1>6. n.term >= o.term
  BY <1>3, <1>4, <1>5
<1>7. Calm(s, n)
  BY <1>1, <1>4, <1>6, FollowerCalm
<1>8. CastsVotes(s, n)
  BY <1>1, <1>3, <1>4, NoVotes
<1>9. Effect(s, n, {})
  BY <1>4, <1>5, <1>7, <1>8, CalmEffect
<1> QED
  BY <1>9

\* A ballot says nothing that the invariant is about.
LEMMA BallotKept ==
  ASSUME NEW m \in Message, NEW t \in Nat, NEW ok \in BOOLEAN, NEW i \in Nat,
         NEW type \in {"voteResponse", "appendResponse", "snapshotResponse"},
         NEW r, r = Reply(m, type, t, ok, i)
  PROVE  /\ r \in Message /\ UsualMessage(r) /\ r.type = type /\ r.from = m.to /\ r.to = m.from
         /\ r.term = t /\ r.success = ok /\ r.match = i
         /\ ~ok \/ type = "voteResponse" => MessageKept(r)
<1>1. m.from \in Server /\ m.to \in Server
  BY MessageFields
<1>2. /\ r.type = type /\ r.from = m.to /\ r.to = m.from
      /\ r.term = t /\ r.success = ok /\ r.match = i
  BY DEF Reply
<1>3. r \in [type : {"voteResponse", "appendResponse", "snapshotResponse"},
             from : Server, to : Server, term : Nat, success : BOOLEAN, match : Nat]
  BY <1>1 DEF Reply
<1>4. r \in Message
  BY <1>3 DEF Message
<1>5. UsualMessage(r)
  BY <1>2 DEF UsualMessage
<1>6. ~ok \/ type = "voteResponse" => MessageKept(r)
  BY <1>2 DEF MessageKept
<1> QED
  BY <1>2, <1>4, <1>5, <1>6

\* A candidate that has the votes it counted stands, or leads.
LEMMA ElectEffect ==
  ASSUME Before, NEW s \in Server, NEW o, o = node[s], o.role # "leader",
         NEW k \in Node, UsualNode(k), InForce(k), k.role = "candidate", k.log = o.log,
         k.snap = o.snap, k.applied = o.applied, k.commit = o.commit, k.match = o.match,
         k.incarnation = o.incarnation, Stood(o, k), k.granted \subseteq VotersFor(s, k.term),
         NEW r, r = ElectIfMajority(k, s), NEW ms, Becomes(s, r, ms), CastsVotes(s, r),
         reads' = reads, \A m \in ms : m \in Message /\ UsualMessage(m) /\ Sends(s, r, m)
  PROVE  Effect(s, r, ms)
<1>1. /\ o \in Node /\ o.log \in Seq(Entry) /\ o.term \in Nat /\ o.commit \in Nat
      /\ o.snap \in Nat /\ o.applied \in Nat /\ Len(o.log) \in Nat
      /\ o.snap <= o.applied /\ o.applied <= o.commit /\ o.commit <= Len(o.log)
      /\ Settled(node, votes, elections, o.log, o.commit, o.term) /\ o.match[s] = 0
      /\ TermsUpTo(o.log, o.term)
  BY NodeBefore
<1>2. k.term \in Nat /\ k.term >= o.term
  BY <1>1, NodeFields DEF Stood
<1>3. /\ Usually(EffectiveConfiguration(k)) /\ Peers(k) \subseteq Server
      /\ Ids(AllMembers(EffectiveConfiguration(k))) = Peers(k)
  BY ReplicationPeersAre
<1>4. CASE ~HasJointMajority(EffectiveConfiguration(k), k.granted)
  <2>1. r = k
    BY <1>4 DEF ElectIfMajority
  <2>2. Moves(s, r)
    BY <1>2, <2>1 DEF Moves
  <2>3. Change(s, r, ms)
    BY <2>1, <2>2 DEF Change
  <2>4. Commits(s, r)
    <3>1. Agree(r.log, o.log, o.commit) /\ r.log \in Seq(Entry) /\ o.commit \in 0 .. o.commit
      BY <1>1, <2>1 DEF Agree
    <3>2. Settled(node, votes, elections, r.log, o.commit, r.term)
      BY <1>1, <1>2, <2>1, <3>1, SettledLower
    <3> QED
      BY <2>1, <3>2 DEF Commits
  <2>5. Progress(s, r)
    BY <1>1, <2>1 DEF Progress
  <2> QED
    BY <1>1, <2>1, <2>3, <2>4, <2>5 DEF Effect
<1>5. CASE HasJointMajority(EffectiveConfiguration(k), k.granted)
  <2>a. PICK ps : ps = Ids(AllMembers(EffectiveConfiguration(k))) \ {s}
    OBVIOUS
  <2>1. PICK x : x = [p \in Server |-> IF p \in ps THEN LastIndex(k) + 1 ELSE k.next[p]]
    OBVIOUS
  <2>2. PICK y : y = [p \in Server |-> IF p \in ps THEN 0 ELSE k.match[p]]
    OBVIOUS
  <2>3. PICK l : l = [k EXCEPT !.role = "leader", !.known = s, !.granted = {}, !.next = x, !.match = y]
    OBVIOUS
  <2>4. r = Submit(l, s, "noop", NoMembers)
    <3>1. r = BecomeLeader(k, s)
      BY <1>5 DEF ElectIfMajority
    <3> DEFINE P == Ids(AllMembers(EffectiveConfiguration(k))) \ {s}
               X == [p \in Server |-> IF p \in P THEN LastIndex(k) + 1 ELSE k.next[p]]
               Y == [p \in Server |-> IF p \in P THEN 0 ELSE k.match[p]]
               L == [k EXCEPT !.role = "leader", !.known = s, !.granted = {}, !.next = X,
                              !.match = Y]
    <3>2. BecomeLeader(k, s) = Submit(L, s, "noop", NoMembers)
      BY DEF BecomeLeader
    <3>3. P = ps
      BY <2>a
    <3>4. X = x /\ Y = y
      BY <2>1, <2>2, <3>3
    <3>5. L = l
      <4> HIDE DEF X, Y
      <4> QED
        BY <2>3, <3>4
    <3> HIDE DEF L
    <3> QED
      BY <3>1, <3>2, <3>5
  <2>5. x \in [Server -> Nat] /\ y \in [Server -> Nat]
    <3>1. LastIndex(k) \in Nat
      BY <1>1 DEF LastIndex
    <3>2. \A p \in Server : k.next[p] \in Nat /\ k.match[p] \in Nat
      BY NodeFields
    <3> QED
      BY <2>1, <2>2, <3>1, <3>2, SMTT(30)
  <2>6. /\ \A p \in Peers(k) \ {s} : x[p] = Len(o.log) + 1 /\ y[p] = 0
        /\ y[s] = 0
    <3>1. ps = Peers(k) \ {s}
      BY <1>3, <2>a
    <3> QED
      BY <1>1, <1>3, <2>1, <2>2, <3>1 DEF LastIndex
  <2>7. /\ l \in Node /\ l.term = k.term /\ l.log = k.log /\ l.snap = k.snap /\ l.role = "leader"
        /\ l.applied = k.applied /\ l.commit = k.commit /\ l.match = y /\ l.next = x
        /\ l.incarnation = k.incarnation /\ l.conf = k.conf /\ l.base = k.base
        /\ l.joiners = k.joiners /\ l.admission = k.admission /\ l.joiningFrom = k.joiningFrom
    BY <2>3, <2>5 DEF Node, OptServer
  <2>8. UsualNode(l) /\ InForce(l)
    <3>1. InForce(l)
      BY <2>7, InForceKept
    <3> QED
      BY <2>7, <3>1 DEF UsualNode
  <2>9. l.snap <= l.commit /\ l.commit <= Len(l.log) /\ l.applied <= Len(l.log)
    BY <1>1, <2>7
  <2>10. Grows(s, l, r) /\ Len(r.log) = Len(l.log) + 1
    BY <2>4, <2>7, <2>8, <2>9, SubmitGrows
  <2>11. /\ r \in Node /\ UsualNode(r) /\ Grown(r.log, o.log, k.term)
         /\ Len(r.log) = Len(o.log) + 1
         /\ r.term = k.term /\ r.role = "leader" /\ r.snap = o.snap /\ r.applied = o.applied
         /\ r.match = y /\ r.next = x /\ r.incarnation = o.incarnation
         /\ r.commit >= o.commit /\ r.commit <= Len(r.log)
         /\ r.commit # o.commit => Counted(s, r)
         /\ r.base = l.base
    BY <2>7, <2>10 DEF Grows
  <2>12. r.log \in Seq(Entry) /\ r.commit \in Nat /\ Len(r.log) \in Nat
    BY <2>11, NodeFields
  <2>13. Quorum(VotersFor(s, r.term))
    BY <1>3, <1>5, <2>11, JointIsQuorum, QuorumMonotone
  <2>14. Moves(s, r)
    <3>1. r.log # <<>>
      BY <1>1, <2>11, <2>12
    <3>2. Stood(o, r)
      BY <2>11 DEF Stood
    <3> QED
      BY <1>2, <2>11, <2>13, <3>1, <3>2 DEF Moves
  <2>15. Change(s, r, ms)
    BY <2>11, <2>14 DEF Change
  <2>16. Commits(s, r)
    <3>1. CASE r.commit = o.commit
      BY <2>15, <3>1, CommittedLogKept DEF Commits
    <3> QED
      BY <2>11, <3>1 DEF Commits
  <2>17. InForce(r) /\ Peers(r) \subseteq Peers(l)
    BY <2>7, <2>8, <2>9, <2>10, GrowsFacts
  <2>18. Peers(l) = Peers(k)
    BY <2>7 DEF Peers, VotersAt, ConfigurationAt, LastOfKind, LastIndex
  <2>19. Progress(s, r)
    <3>1. ASSUME NEW p \in Server, p \in Peers(r) \ {s} PROVE r.next[p] <= Len(r.log) + 1
      <4>1. r.next[p] = Len(o.log) + 1
        BY <2>6, <2>11, <2>17, <2>18, <3>1
      <4> QED
        BY <1>1, <2>11, <4>1
    <3>2. ASSUME NEW p \in Server, r.match[p] > 0 PROVE Outside(r, p)
      <4>1. p \notin Peers(l)
        BY <2>6, <2>11, <2>18, <3>2
      <4>2. ASSUME NEW i \in l.snap + 1 .. Len(l.log) PROVE l.log[i].term # r.term
        <5>1. i \in 1 .. Len(o.log) /\ l.log[i] = o.log[i]
          BY <1>1, <2>7
        <5>2. o.log[i].term \in 1 .. o.term
          BY <1>1, <5>1 DEF TermsUpTo
        <5>3. CASE k.term = o.term + 1
          BY <1>1, <2>11, <5>1, <5>2, <5>3
        <5>4. CASE o.role = "candidate" /\ k.term = o.term
          <6>1. o.log[i].term < o.term
            BY <5>1, <5>4 DEF Before, SafetyInvariant, NodeKept
          <6> QED
            BY <1>1, <2>11, <5>1, <5>2, <5>4, <6>1
        <5> QED
          BY <5>3, <5>4 DEF Stood
      <4>3. l.snap = r.snap /\ l.base = r.base /\ Agree(r.log, l.log, Len(l.log))
        BY <2>10 DEF Grows, Grown
      <4>4. \A i \in l.snap + 1 .. Len(l.log) : l.log[i].term = r.term => p \notin VotersAt(l, i)
        BY <4>2
      <4> QED
        BY <2>7, <2>11, <4>1, <4>3, <4>4, OutsideKept
    <3>3. r.match[s] = 0
      BY <2>6, <2>11
    <3> QED
      BY <3>1, <3>2, <3>3 DEF Progress
  <2>20. r.snap <= r.applied /\ r.applied <= r.commit
    BY <1>1, <2>11, <2>12
  <2> QED
    BY <2>11, <2>15, <2>16, <2>17, <2>19, <2>20 DEF Effect
<1> QED
  BY <1>4, <1>5

LEMMA HandleVoteResponseEffect ==
  ASSUME Before, NEW m \in msgs, HandleVoteResponse(m)
  PROVE  \E s, n, ms : Effect(s, n, ms)
<1> DEFINE s == m.to
           o == node[s]
           k == [o EXCEPT !.granted = @ \cup {m.from}]
           r == ElectIfMajority(k, s)
<1>1. s \in Server /\ m.from \in Server /\ m.term \in Nat /\ m.type = "voteResponse"
  BY Types, MessageFields DEF HandleVoteResponse
<1>2. /\ o.role = "candidate" /\ votes' = votes /\ reads' = reads
      /\ \/ m.term > o.term /\ Becomes(s, StepDown(o, m.term), {})
         \/ m.term = o.term /\ m.success /\ Becomes(s, r, {})
  BY DEF HandleVoteResponse
<1>3. o \in Node /\ UsualNode(o) /\ o.term \in Nat /\ InForce(o)
  BY <1>1, NodeBefore
<1>4. CASE m.term > o.term /\ Becomes(s, StepDown(o, m.term), {})
  BY <1>1, <1>2, <1>4, StepDownEffect
<1>5. CASE m.term = o.term /\ m.success /\ Becomes(s, r, {})
  <2>1. /\ k \in Node /\ k.role = o.role /\ k.term = o.term /\ k.log = o.log /\ k.snap = o.snap
        /\ k.applied = o.applied /\ k.commit = o.commit /\ k.match = o.match
        /\ k.incarnation = o.incarnation /\ k.granted = o.granted \cup {m.from}
        /\ k.conf = o.conf /\ k.base = o.base /\ k.joiners = o.joiners
        /\ k.admission = o.admission /\ k.joiningFrom = o.joiningFrom
    BY <1>1, <1>3 DEF Node
  <2> HIDE DEF k
  <2>2. UsualNode(k) /\ InForce(k)
    <3>1. InForce(k)
      BY <1>3, <2>1, InForceKept
    <3> QED
      BY <1>3, <2>1, <3>1 DEF UsualNode
  <2>3. Stood(o, k)
    BY <1>2, <2>1 DEF Stood
  <2>4. k.granted \subseteq VotersFor(s, k.term)
    <3>1. \A p \in k.granted : Voted(p, s, k.term)
      BY <1>1, <1>5, <2>1 DEF Before, BallotInvariant, CountedVotesCast
    <3> QED
      BY <3>1 DEF Voted, VotersFor
  <2>5. r.role # "follower" => r.term = o.term
    BY <1>1, <2>1, ElectIfMajorityKeeps
  <2>6. CastsVotes(s, r)
    BY <1>2, <1>3, <2>5, NoVotes
  <2>7. Becomes(s, r, {})
    BY <1>5
  <2> HIDE DEF r
  <2>8. r = ElectIfMajority(k, s) /\ o = node[s] /\ o.role # "leader" /\ k.role = "candidate"
    BY <1>2, <2>1 DEF r
  <2> HIDE DEF o
  <2>9. Effect(s, r, {})
    BY <1>1, <1>2, <2>1, <2>2, <2>3, <2>4, <2>6, <2>7, <2>8, ElectEffect
  <2> QED
    BY <2>9
<1> QED
  BY <1>2, <1>4, <1>5

\* submit_command changes no role, become_leader makes a leader.
LEMMA SubmitRole ==
  ASSUME NEW n \in Node, NEW s \in Server
  PROVE  Submit(n, s, "noop", NoMembers).role = n.role
<1> DEFINE e == NewEntry(n.term, s, "noop", NoMembers)
           a == AppendEntry(n, e)
<1>1. e \in Entry
  BY NodeFields, NewEntryType, NoMembersType DEF Kinds
<1> HIDE DEF e
<1>2. a \in Node
  BY <1>1, AppendEntryKeeps
<1>3. a.role = n.role
  BY DEF AppendEntry, Node
<1> HIDE DEF a
<1>4. AdvanceCommitIndex(a, s).role = a.role
  <2> DEFINE able == {i \in a.commit + 1 .. LastIndex(a) : CanCommit(a, s, i)}
  <2>1. AdvanceCommitIndex(a, s) = a \/ AdvanceCommitIndex(a, s) = [a EXCEPT !.commit = Max(able)]
    BY DEF AdvanceCommitIndex
  <2> HIDE DEF able
  <2> QED
    BY <1>2, <2>1 DEF Node
<1>5. Submit(n, s, "noop", NoMembers) = AdvanceCommitIndex(a, s)
  BY DEF Submit, a, e
<1> QED
  BY <1>3, <1>4, <1>5

LEMMA ElectRole ==
  ASSUME NEW k \in Node, NEW s \in Server, NEW r, r = ElectIfMajority(k, s)
  PROVE  r = k \/ r.role = "leader"
<1> DEFINE peers == Ids(AllMembers(EffectiveConfiguration(k))) \ {s}
           x == [p \in Server |-> IF p \in peers THEN LastIndex(k) + 1 ELSE k.next[p]]
           y == [p \in Server |-> IF p \in peers THEN 0 ELSE k.match[p]]
           l == [k EXCEPT !.role = "leader", !.known = s, !.granted = {}, !.next = x, !.match = y]
<1>1. r = k \/ r = BecomeLeader(k, s)
  BY DEF ElectIfMajority
<1>2. BecomeLeader(k, s) = Submit(l, s, "noop", NoMembers)
  BY DEF BecomeLeader
<1>3. x \in [Server -> Nat] /\ y \in [Server -> Nat]
  <2>1. LastIndex(k) \in Nat
    BY NodeFields DEF LastIndex
  <2>2. \A p \in Server : k.next[p] \in Nat /\ k.match[p] \in Nat
    BY NodeFields
  <2> HIDE DEF peers
  <2> QED
    BY <2>1, <2>2, SMTT(30)
<1> HIDE DEF peers, x, y
<1>4. l \in Node /\ l.role = "leader"
  BY <1>3 DEF Node, OptServer
<1> HIDE DEF l
<1> QED
  BY <1>1, <1>2, <1>4, SubmitRole

\* start_election: the server votes for itself and asks for votes with its log.
LEMMA StartElectionEffect ==
  ASSUME Before, NEW s \in Server, StartElection(s)
  PROVE  \E n, ms : Effect(s, n, ms)
<1> DEFINE o == node[s]
           k == Campaign(o, s)
           r == ElectIfMajority(k, s)
           v == [voter |-> s, moves |-> k.moves, term |-> k.term, cand |-> s]
           request(p) == [type |-> "voteRequest", from |-> s, to |-> p, term |-> k.term,
                          lastIndex |-> LastIndex(k), lastTerm |-> LastTerm(k)]
           peers == AllMembers(EffectiveConfiguration(k)).voters \ {s}
           ms == {request(p) : p \in peers}
<1>1. Becomes(s, r, ms) /\ reads' = reads /\ votes' = votes \cup {v} /\ o.role # "leader"
  BY DEF StartElection, MayCampaign
<1>2. /\ o \in Node /\ UsualNode(o) /\ o.term \in Nat /\ o.log \in Seq(Entry) /\ Len(o.log) \in Nat
      /\ TermsUpTo(o.log, o.term) /\ InForce(o)
  BY NodeBefore
<1>3. /\ k \in Node /\ k.role = "candidate" /\ k.term = o.term + 1 /\ k.granted = {s}
  BY <1>2, CampaignType
<1>4. /\ k.log = o.log /\ k.snap = o.snap
      /\ k.applied = o.applied /\ k.commit = o.commit /\ k.match = o.match
      /\ k.incarnation = o.incarnation
      /\ k.conf = o.conf /\ k.base = o.base /\ k.joiners = o.joiners
      /\ k.admission = o.admission /\ k.joiningFrom = o.joiningFrom
  BY <1>2 DEF Campaign, Node
<1> HIDE DEF k
<1>5. UsualNode(k) /\ InForce(k)
  <2>1. InForce(k)
    BY <1>2, <1>4, InForceKept
  <2> QED
    BY <1>2, <1>4, <2>1 DEF UsualNode
<1>6. Stood(o, k) /\ k.granted \subseteq VotersFor(s, k.term)
  BY <1>3 DEF Stood, VotersFor
<1>7. r \in Node /\ r.term = k.term
  BY <1>3, ElectIfMajorityKeeps
<1>8. peers \subseteq Server
  <2>1. AllMembers(EffectiveConfiguration(k)).voters \subseteq Ids(AllMembers(EffectiveConfiguration(k)))
    BY DEF Ids
  <2> QED
    BY <1>3, <1>5, <2>1, ReplicationPeersAre
<1>9. r.role = "candidate" => r.log = o.log
  BY <1>3, <1>4, ElectRole
<1>10. LastIndex(k) = Len(o.log) /\ LastTerm(k) = LastTerm(o)
  BY <1>4 DEF LastTerm, TermAt, LastIndex
<1>11. /\ LastTerm(o) \in Nat /\ LastTerm(o) < k.term /\ (LastTerm(o) > 0 => Len(o.log) > 0)
       /\ Len(o.log) > 0 => o.log[Len(o.log)].term = LastTerm(o)
  <2>1. CASE o.log = <<>>
    BY <1>2, <1>3, <2>1 DEF LastTerm, TermAt, LastIndex
  <2>2. CASE o.log # <<>>
    <3>1. LastTerm(o) = o.log[Len(o.log)].term /\ Len(o.log) \in 1 .. Len(o.log)
      BY <2>2, LastTermIs
    <3>2. o.log[Len(o.log)].term \in 1 .. o.term
      BY <1>2, <3>1 DEF TermsUpTo
    <3> QED
      BY <1>2, <1>3, <3>1, <3>2
  <2> QED
    BY <2>1, <2>2
<1>12. \A m \in ms : m \in Message /\ UsualMessage(m) /\ Sends(s, r, m)
  <2> TAKE m \in ms
  <2>1. PICK p \in peers : m = request(p)
    OBVIOUS
  <2>2. p \in Server
    BY <1>8
  <2>3. /\ m.type = "voteRequest" /\ m.from = s /\ m.term = k.term
        /\ m.lastIndex = Len(o.log) /\ m.lastTerm = LastTerm(o)
    BY <1>10, <2>1
  <2>4. m \in [type : {"voteRequest"}, from : Server, to : Server, term : Nat,
               lastIndex : Nat, lastTerm : Nat]
    BY <1>2, <1>3, <1>10, <1>11, <2>1, <2>2
  <2>5. m \in Message
    BY <2>4 DEF Message
  <2>6. UsualMessage(m)
    BY <2>3 DEF UsualMessage
  <2>7. Sends(s, r, m)
    BY <1>7, <1>9, <1>11, <2>3 DEF Sends
  <2> QED
    BY <2>5, <2>6, <2>7
<1>13. CastsVotes(s, r)
  <2>1. v.voter = s /\ v.term = r.term /\ v.cand = s /\ r.term = o.term + 1
    BY <1>3, <1>7
  <2> HIDE DEF v, r
  <2>2. VotedNext(s, s, r.term)
    BY <1>1, <2>1 DEF VotedNext
  <2> QED
    BY <1>1, <2>1, <2>2 DEF CastsVotes
<1>14. r = ElectIfMajority(k, s) /\ o = node[s]
  OBVIOUS
<1> HIDE DEF r, ms, v, o
<1>15. Effect(s, r, ms)
  BY <1>1, <1>3, <1>4, <1>5, <1>6, <1>12, <1>13, <1>14, ElectEffect
<1> QED
  BY <1>15

\* handle_vote_request: a server votes only for a log as far as its own.
LEMMA HandleVoteRequestEffect ==
  ASSUME Before, NEW m \in msgs, HandleVoteRequest(m)
  PROVE  \E s, n, ms : Effect(s, n, ms)
<1> DEFINE s == m.to
           o == node[s]
           k == IF m.term > o.term THEN StepDown(o, m.term) ELSE o
           granted == GrantsVote(k, s, m)
           n == IF granted THEN [k EXCEPT !.votedFor = m.from] ELSE k
           v == [voter |-> s, moves |-> k.moves, term |-> k.term, cand |-> m.from]
           reply == Reply(m, "voteResponse", k.term, granted, 0)
<1>1. /\ m \in Message /\ s \in Server /\ m.from \in Server /\ m.term \in Nat
      /\ m.type = "voteRequest"
  BY Types, MessageFields DEF HandleVoteRequest
<1>2. /\ Becomes(s, n, {reply}) /\ reads' = reads
      /\ votes' = IF granted THEN votes \cup {v} ELSE votes
  BY DEF HandleVoteRequest
<1>3. /\ o \in Node /\ UsualNode(o) /\ o.term \in Nat /\ o.match[s] = 0 /\ o.commit \in Nat
      /\ InForce(o) /\ o.snap <= o.applied /\ o.applied <= o.commit
  BY <1>1, NodeBefore
<1>a. IF m.term > o.term THEN k = StepDown(o, m.term) ELSE k = o
  OBVIOUS
<1> HIDE DEF k
<1>4. /\ k \in Node /\ UsualNode(k) /\ k.log = o.log /\ k.term >= o.term
      /\ k.role = "follower" \/ (k.role = o.role /\ k.term = o.term)
      /\ k.snap = o.snap /\ k.applied = o.applied /\ k.commit = o.commit
      /\ k.match = o.match /\ k.next = o.next /\ k.incarnation = o.incarnation
      /\ k.term >= m.term /\ k.term \in Nat /\ InForce(k) /\ k.base = o.base
  <2>1. CASE m.term > o.term
    <3>1. k = StepDown(o, m.term)
      BY <1>a, <2>1
    <3>2. /\ k \in Node /\ UsualNode(k) /\ k.role = "follower" /\ k.term = m.term /\ k.log = o.log
          /\ k.snap = o.snap /\ k.applied = o.applied /\ k.commit = o.commit
          /\ k.match = o.match /\ k.next = o.next /\ k.incarnation = o.incarnation
          /\ InForce(k) /\ k.base = o.base
      <4>1. o \in Node /\ UsualNode(o) /\ InForce(o) /\ m.term \in Nat
        BY <1>1, <1>3
      <4> HIDE DEF o
      <4> QED
        BY <3>1, <4>1, StepDownFacts
    <3> QED
      BY <1>1, <1>3, <2>1, <3>2
  <2>2. CASE ~(m.term > o.term)
    BY <1>1, <1>3, <1>a, <2>2
  <2> QED
    BY <2>1, <2>2
<1>5. granted => m.term = k.term /\ LogUpToDate(o, m)
  <2>1. granted => m.term >= k.term /\ LogUpToDate(k, m)
    BY DEF GrantsVote
  <2>2. LogUpToDate(k, m) => LogUpToDate(o, m)
    BY <1>4 DEF LogUpToDate, LastTerm, TermAt, LastIndex
  <2> QED
    BY <1>1, <1>4, <2>1, <2>2
<1>6. granted \in BOOLEAN
  BY DEF GrantsVote
<1> HIDE DEF granted
<1>7. /\ n \in Node /\ n.log = k.log /\ n.term = k.term /\ n.role = k.role
      /\ n.snap = k.snap /\ n.applied = k.applied /\ n.commit = k.commit
      /\ n.match = k.match /\ n.next = k.next /\ n.incarnation = k.incarnation
      /\ n.conf = k.conf /\ n.base = k.base /\ n.joiners = k.joiners
      /\ n.admission = k.admission /\ n.joiningFrom = k.joiningFrom
  <2>1. CASE granted
    BY <1>1, <1>4, <2>1 DEF Node, OptServer
  <2>2. CASE ~granted
    BY <1>4, <2>2
  <2> QED
    BY <2>1, <2>2
<1> HIDE DEF n
<1>8. UsualNode(n) /\ InForce(n)
  <2>1. InForce(n)
    BY <1>4, <1>7, InForceKept
  <2> QED
    BY <1>4, <1>7, <2>1 DEF UsualNode
<1>9. n.role = "leader" => Progress(s, n)
  <2> SUFFICES ASSUME n.role = "leader" PROVE Progress(s, n)
    OBVIOUS
  <2>1. /\ o.role = "leader" /\ n.log = o.log /\ n.snap = o.snap /\ n.base = o.base
        /\ n.match = o.match /\ n.next = o.next /\ n.term = o.term
    BY <1>4, <1>7
  <2>2. Progress(s, o)
    BY <1>1, <2>1, LeaderBefore
  <2> QED
    BY <2>1, <2>2, ProgressSame
<1>10. Calm(s, n)
  BY <1>3, <1>4, <1>7, <1>8, <1>9 DEF Calm
<1>11. reply \in Message /\ UsualMessage(reply) /\ MessageKept(reply)
  BY <1>1, <1>4, <1>6, BallotKept
<1>12. CastsVotes(s, n)
  <2>1. v.voter = s /\ v.term = k.term /\ v.cand = m.from
    OBVIOUS
  <2> HIDE DEF v
  <2>2. n.role # "follower" => n.term # o.term + 1
    BY <1>3, <1>4, <1>7
  <2>3. CASE granted
    BY <1>1, <1>2, <1>4, <1>5, <1>7, <2>1, <2>2, <2>3 DEF CastsVotes
  <2>4. CASE ~granted
    BY <1>2, <2>2, <2>4 DEF CastsVotes
  <2> QED
    BY <2>3, <2>4
<1> HIDE DEF reply
<1>13. \A x \in {reply} : x \in Message /\ UsualMessage(x) /\ Sends(s, n, x)
  BY <1>11 DEF Sends
<1>14. Effect(s, n, {reply})
  BY <1>1, <1>2, <1>7, <1>10, <1>12, <1>13, CalmEffect
<1> QED
  BY <1>14

-----------------------------------------------------------------------------
(* The answers to a leader.                                                *)

\* k is n with the progress of p up to i.
Recorded(n, p, i, k) ==
  /\ k \in Node /\ UsualNode(k) /\ k.term = n.term /\ k.role = n.role /\ k.log = n.log
  /\ k.snap = n.snap /\ k.applied = n.applied /\ k.commit = n.commit
  /\ k.incarnation = n.incarnation /\ k.base = n.base /\ k.conf = n.conf
  /\ \A q \in Server : q # p => k.match[q] = n.match[q] /\ k.next[q] = n.next[q]
  /\ k.match[p] \in {i, n.match[p]}
  /\ k.next[p] \in {n.next[p], k.match[p] + 1}

LEMMA ProgressFacts ==
  ASSUME NEW n \in Node, UsualNode(n), NEW p \in Server, NEW i \in Nat,
         NEW k, k = RecordReplicationProgress(n, p, i)
  PROVE  Recorded(n, p, i, k)
<1> DEFINE c == IF i > n.match[p] THEN i ELSE n.match[p]
           x == IF n.next[p] > c THEN n.next[p] ELSE c + 1
<1>1. n.match \in [Server -> Nat] /\ n.next \in [Server -> Nat]
  BY DEF Node
<1>2. k \in Node
  BY ProgressKeeps
<1>3. k = [n EXCEPT !.match[p] = c, !.next[p] = x]
  BY DEF RecordReplicationProgress
<1>4. c \in {i, n.match[p]} /\ x \in {n.next[p], c + 1}
  OBVIOUS
<1> HIDE DEF c, x
<1>5. /\ k.term = n.term /\ k.role = n.role /\ k.log = n.log
      /\ k.snap = n.snap /\ k.applied = n.applied /\ k.commit = n.commit
      /\ k.incarnation = n.incarnation
      /\ k.conf = n.conf /\ k.base = n.base /\ k.joiners = n.joiners
      /\ k.admission = n.admission /\ k.joiningFrom = n.joiningFrom
  BY <1>3, ZenonT(60) DEF Node
<1>6. k.match = [n.match EXCEPT ![p] = c] /\ k.next = [n.next EXCEPT ![p] = x]
  BY <1>3, ZenonT(60) DEF Node
<1>7. /\ \A q \in Server : q # p => k.match[q] = n.match[q] /\ k.next[q] = n.next[q]
      /\ k.match[p] = c /\ k.next[p] = x
  BY <1>1, <1>6
<1>8. UsualNode(k)
  BY <1>5 DEF UsualNode
<1> QED
  BY <1>2, <1>4, <1>5, <1>7, <1>8 DEF Recorded

LEMMA BackOffFacts ==
  ASSUME NEW n \in Node, UsualNode(n), NEW p \in Server, NEW k, k = BackOff(n, p)
  PROVE  /\ k \in Node /\ UsualNode(k) /\ k.term = n.term /\ k.role = n.role /\ k.log = n.log
         /\ k.snap = n.snap /\ k.applied = n.applied /\ k.commit = n.commit
         /\ k.incarnation = n.incarnation /\ k.match = n.match
         /\ k.base = n.base /\ k.conf = n.conf
         /\ \A q \in Server : k.next[q] <= n.next[q] \/ k.next[q] = n.match[q] + 1
<1> DEFINE y == IF n.next[p] = 0 THEN 0
                ELSE IF n.next[p] - 1 > n.match[p] THEN n.next[p] - 1 ELSE n.match[p] + 1
<1>1. n.match \in [Server -> Nat] /\ n.next \in [Server -> Nat]
  BY DEF Node
<1>2. k \in Node
  BY ProgressKeeps
<1>3. k = [n EXCEPT !.next[p] = y]
  BY DEF BackOff
<1>4. y <= n.next[p] \/ y = n.match[p] + 1
  BY <1>1
<1> HIDE DEF y
<1>5. /\ k.term = n.term /\ k.role = n.role /\ k.log = n.log
      /\ k.snap = n.snap /\ k.applied = n.applied /\ k.commit = n.commit
      /\ k.incarnation = n.incarnation /\ k.match = n.match
      /\ k.conf = n.conf /\ k.base = n.base /\ k.joiners = n.joiners
      /\ k.admission = n.admission /\ k.joiningFrom = n.joiningFrom
  BY <1>3, ZenonT(60) DEF Node
<1>6. k.next = [n.next EXCEPT ![p] = y]
  BY <1>3, ZenonT(60) DEF Node
<1>7. \A q \in Server : k.next[q] <= n.next[q] \/ k.next[q] = n.match[q] + 1
  <2> TAKE q \in Server
  <2>1. CASE q = p
    BY <1>1, <1>4, <1>6, <2>1
  <2>2. CASE q # p
    BY <1>1, <1>6, <2>2
  <2> QED
    BY <2>1, <2>2
<1>8. UsualNode(k)
  BY <1>5 DEF UsualNode
<1> QED
  BY <1>2, <1>5, <1>7, <1>8

\* Who votes depends on the log, the snapshot and its configuration.
LEMMA SamePeers ==
  ASSUME NEW o, NEW n, n.log = o.log, n.snap = o.snap, n.base = o.base, n.term = o.term
  PROVE  Peers(n) = Peers(o) /\ \A p : Outside(n, p) <=> Outside(o, p)
<1>1. \A i : VotersAt(n, i) = VotersAt(o, i)
  BY DEF VotersAt, ConfigurationAt, LastOfKind, LastIndex
<1> QED
  BY <1>1 DEF Outside, Peers

\* How much a leader believes of a voter, and where it sends from.
LEMMA PeerMatch ==
  ASSUME Before, NEW s \in Server, NEW o, o = node[s], o.role = "leader", NEW p \in Server,
         p \in Peers(o), p # s
  PROVE  /\ o.match[p] \in Nat /\ o.next[p] \in Nat /\ o.match[p] <= Len(o.log)
         /\ o.next[p] <= Len(o.log) + 1
<1>1. o \in Node /\ Len(o.log) \in Nat
  BY NodeBefore
<1>2. o.match[p] \in Nat /\ o.next[p] \in Nat
  BY <1>1, NodeFields
<1>3. Progress(s, o)
  BY LeaderBefore
<1>4. o.next[p] <= Len(o.log) + 1
  BY <1>3 DEF Progress
<1>5. PICK e \in elections : e.leader = s /\ e.term = o.term /\ e.log = o.log
  BY LeaderBefore
<1>6. CASE o.match[p] > 0
  <2>1. ~Outside(o, p)
    BY DEF Outside
  <2>2. PICK f \in elections : /\ f.leader = s /\ f.term = o.term
                               /\ Acknowledged(node, votes, elections, p, f, o.match[p])
    BY <1>3, <1>6, <2>1 DEF Progress
  <2>3. e = f
    BY <1>5, <2>2, Leaderships
  <2>4. o.match[p] <= Len(f.log)
    BY <2>2 DEF Acknowledged
  <2> QED
    BY <1>2, <1>4, <1>5, <2>3, <2>4
<1>7. CASE o.match[p] = 0
  BY <1>1, <1>2, <1>4, <1>7
<1> QED
  BY <1>2, <1>6, <1>7

\* A successful answer: the peer has acknowledged that much.
LEMMA RecordedTended ==
  ASSUME Before, NEW m \in msgs, m.type \in {"appendResponse", "snapshotResponse"}, m.success,
         NEW s \in Server, s = m.to, NEW o, o = node[s], o.role = "leader", m.term = o.term,
         NEW q \in Server, q = m.from, q \in Peers(o), q # s, m.match \in Nat,
         m.match <= Len(o.log), NEW k, Recorded(o, q, m.match, k)
  PROVE  Tended(s, k)
<1>1. /\ o \in Node /\ UsualNode(o) /\ o.term \in Nat /\ o.commit \in Nat /\ o.snap \in Nat
      /\ o.applied \in Nat /\ o.log \in Seq(Entry) /\ Len(o.log) \in Nat /\ o.match[s] = 0
      /\ o.snap <= o.applied /\ o.applied <= o.commit /\ o.commit <= Len(o.log) /\ InForce(o)
  BY NodeBefore
<1>2. /\ k \in Node /\ UsualNode(k) /\ k.term = o.term /\ k.role = o.role /\ k.log = o.log
      /\ k.snap = o.snap /\ k.applied = o.applied /\ k.commit = o.commit
      /\ k.base = o.base /\ k.conf = o.conf
      /\ \A p \in Server : p # q => k.match[p] = o.match[p] /\ k.next[p] = o.next[p]
      /\ k.match[q] \in {m.match, o.match[q]}
      /\ k.next[q] \in {o.next[q], k.match[q] + 1}
  BY DEF Recorded
<1>3. InForce(k)
  BY <1>1, <1>2, InForceKept
<1>4. Peers(k) = Peers(o) /\ \A p : Outside(k, p) <=> Outside(o, p)
  BY <1>2, SamePeers
<1>5. Progress(s, o)
  BY LeaderBefore
<1>6. PICK f \in elections : /\ f.leader = s /\ f.term = m.term
                             /\ Acknowledged(node, votes, elections, q, f, m.match)
  <2>1. MessageKept(m)
    BY DEF Before, SafetyInvariant
  <2> QED
    BY <2>1 DEF MessageKept
<1>7. /\ o.match[q] \in Nat /\ o.next[q] \in Nat /\ o.match[q] <= Len(o.log)
      /\ o.next[q] <= Len(o.log) + 1
  BY PeerMatch
<1>8. Progress(s, k)
  <2>1. k.match[s] = 0
    BY <1>1, <1>2
  <2>2. ASSUME NEW p \in Server
        PROVE  /\ p \in Peers(k) \ {s} => k.next[p] <= Len(k.log) + 1
               /\ k.match[p] > 0 =>
                    \/ /\ node[s].role = "leader"
                       /\ \E g \in elections :
                            /\ g.leader = s /\ g.term = k.term
                            /\ Acknowledged(node, votes, elections, p, g, k.match[p])
                    \/ Outside(k, p)
    <3>1. CASE p # q
      <4>1. k.match[p] = o.match[p] /\ k.next[p] = o.next[p]
        BY <1>2, <3>1
      <4> QED
        BY <1>2, <1>4, <1>5, <4>1 DEF Progress
    <3>2. CASE p = q
      <4>1. k.match[q] \in Nat /\ k.match[q] <= Len(o.log)
        BY <1>2, <1>7
      <4>2. k.next[q] <= Len(k.log) + 1
        <5>1. k.log = o.log /\ Len(o.log) \in Nat
          BY <1>1, <1>2
        <5>2. CASE k.next[q] = o.next[q]
          BY <1>7, <5>1, <5>2
        <5>3. CASE k.next[q] = k.match[q] + 1
          BY <4>1, <5>1, <5>3
        <5> QED
          BY <1>2, <5>2, <5>3
      <4>3. CASE k.match[q] = m.match
        BY <1>2, <1>6, <3>2, <4>2, <4>3
      <4>4. CASE k.match[q] = o.match[q]
        <5>1. o.match[q] > 0 =>
                    \/ /\ node[s].role = "leader"
                       /\ \E g \in elections :
                            /\ g.leader = s /\ g.term = o.term
                            /\ Acknowledged(node, votes, elections, q, g, o.match[q])
                    \/ Outside(o, q)
          BY <1>5 DEF Progress
        <5> QED
          BY <1>2, <1>4, <3>2, <4>2, <4>4, <5>1
      <4> QED
        BY <1>2, <4>3, <4>4
    <3> QED
      BY <3>1, <3>2
  <2> QED
    BY <2>1, <2>2 DEF Progress
<1>9. Grown(k.log, o.log, k.term)
  BY <1>1, <1>2 DEF Grown, Agree
<1> QED
  BY <1>1, <1>2, <1>3, <1>8, <1>9 DEF Tended

\* The peer whose answer is counted is a voter.
LEMMA AnsweredBy ==
  ASSUME Before, NEW m \in msgs, NEW s, s = m.to, NEW o, o = node[s],
         AcceptsReplicationResponse(o, s, m.from)
  PROVE  /\ s \in Server /\ m.from \in Server /\ m.term \in Nat
         /\ m.from \in Peers(o) /\ m.from # s
<1>1. s \in Server /\ m.from \in Server /\ m.term \in Nat
  BY Types, MessageFields
<1>2. o \in Node /\ UsualNode(o)
  BY <1>1, NodeBefore
<1>3. o.joiners[m.from] = 0
  BY <1>1, <1>2 DEF UsualNode, Zero
<1>4. Contains(EffectiveConfiguration(o), m.from) /\ m.from # s
  BY <1>3 DEF AcceptsReplicationResponse
<1> QED
  BY <1>1, <1>2, <1>4, ReplicationPeersAre

LEMMA HandleAppendEntriesResponseEffect ==
  ASSUME Before, NEW m \in msgs, HandleAppendEntriesResponse(m)
  PROVE  \E s, n, ms : Effect(s, n, ms)
<1>1. PICK s : s = m.to
  OBVIOUS
<1>2. PICK o : o = node[s]
  OBVIOUS
<1>3. PICK k : k = RecordReplicationProgress(o, m.from, m.match)
  OBVIOUS
<1>4. PICK r : r = AdvanceThenFinalize(k, s)
  OBVIOUS
<1>5. PICK b : b = BackOff(o, m.from)
  OBVIOUS
<1>6. /\ m.type = "appendResponse" /\ AcceptsReplicationResponse(o, s, m.from)
      /\ o.role = "leader" /\ votes' = votes /\ reads' = reads
      /\ \/ m.term > o.term /\ Becomes(s, StepDown(o, m.term), {})
         \/ m.term = o.term /\ m.success /\ m.match <= Len(o.log) /\ Becomes(s, r, {})
         \/ m.term = o.term /\ ~m.success /\ Becomes(s, b, {})
  BY <1>1, <1>2, <1>3, <1>4, <1>5 DEF HandleAppendEntriesResponse, LastIndex
<1>7. /\ s \in Server /\ m.from \in Server /\ m.term \in Nat
      /\ m.from \in Peers(o) /\ m.from # s
  BY <1>1, <1>2, <1>6, AnsweredBy
<1>8. m.match \in Nat
  BY <1>6, Types, MessageFields
<1>9. /\ o \in Node /\ UsualNode(o) /\ o.term \in Nat /\ o.commit \in Nat /\ o.snap \in Nat
      /\ o.applied \in Nat /\ Len(o.log) \in Nat /\ o.match[s] = 0 /\ InForce(o)
      /\ o.snap <= o.applied /\ o.applied <= o.commit /\ o.commit <= Len(o.log)
  BY <1>2, <1>7, NodeBefore
<1>10. CASE m.term > o.term /\ Becomes(s, StepDown(o, m.term), {})
  BY <1>2, <1>6, <1>7, <1>10, StepDownEffect
<1>11. CASE m.term = o.term /\ m.success /\ m.match <= Len(o.log) /\ Becomes(s, r, {})
  <2>1. Recorded(o, m.from, m.match, k)
    BY <1>3, <1>7, <1>8, <1>9, ProgressFacts
  <2>2. Tended(s, k)
    BY <1>1, <1>2, <1>6, <1>7, <1>8, <1>11, <2>1, RecordedTended
  <2>3. /\ k \in Node /\ UsualNode(k) /\ k.snap <= k.commit /\ k.commit <= Len(k.log)
    BY <1>9, <2>1 DEF Recorded
  <2>4. Grows(s, k, r)
    BY <1>4, <1>7, <2>3, AdvanceThenGrows
  <2>5. Tended(s, r)
    BY <1>7, <2>2, <2>4, TendedGrows
  <2>6. Effect(s, r, {})
    BY <1>6, <1>7, <1>11, <2>5, LeaderEffect
  <2> QED
    BY <2>6
<1>12. CASE m.term = o.term /\ ~m.success /\ Becomes(s, b, {})
  <2>1. /\ b \in Node /\ UsualNode(b) /\ b.term = o.term /\ b.role = o.role /\ b.log = o.log
        /\ b.snap = o.snap /\ b.applied = o.applied /\ b.commit = o.commit
        /\ b.incarnation = o.incarnation /\ b.match = o.match
        /\ b.base = o.base /\ b.conf = o.conf
        /\ \A q \in Server : b.next[q] <= o.next[q] \/ b.next[q] = o.match[q] + 1
    <3>1. PICK q \in Server : q = m.from
      BY <1>7
    <3> QED
      BY <1>5, <1>9, <3>1, BackOffFacts
  <2>2. Peers(b) = Peers(o) /\ \A p : Outside(b, p) <=> Outside(o, p)
    BY <2>1, SamePeers
  <2>3. ASSUME NEW q \in Server, q \in Peers(b) \ {s} PROVE b.next[q] <= Len(b.log) + 1
    <3>1. b.next[q] \in Nat
      BY <2>1, NodeFields
    <3>2. b.next[q] <= o.next[q] \/ b.next[q] = o.match[q] + 1
      BY <2>1
    <3>3. /\ o.match[q] \in Nat /\ o.next[q] \in Nat /\ o.match[q] <= Len(o.log)
          /\ o.next[q] <= Len(o.log) + 1
      BY <1>2, <1>6, <1>7, <2>2, <2>3, PeerMatch
    <3> QED
      BY <1>9, <2>1, <3>1, <3>2, <3>3, SMTT(30)
  <2>4. Progress(s, o)
    BY <1>2, <1>6, <1>7, LeaderBefore
  <2>5. Progress(s, b)
    BY <2>1, <2>2, <2>3, <2>4 DEF Progress
  <2>6. InForce(b)
    BY <1>9, <2>1, InForceKept
  <2>7. Calm(s, b)
    BY <1>2, <1>9, <2>1, <2>5, <2>6 DEF Calm
  <2>8. CastsVotes(s, b)
    BY <1>2, <1>6, <1>7, <1>9, <2>1, NoVotes
  <2>9. Effect(s, b, {})
    BY <1>6, <1>7, <1>12, <2>1, <2>7, <2>8, CalmEffect
  <2> QED
    BY <2>9
<1> QED
  BY <1>6, <1>10, <1>11, <1>12

LEMMA HandleInstallSnapshotResponseEffect ==
  ASSUME Before, NEW m \in msgs, HandleInstallSnapshotResponse(m)
  PROVE  \E s, n, ms : Effect(s, n, ms)
<1>1. PICK s : s = m.to
  OBVIOUS
<1>2. PICK o : o = node[s]
  OBVIOUS
<1>3. PICK k : k = RecordReplicationProgress(o, m.from, m.match)
  OBVIOUS
<1>4. PICK r : r = AdvanceCommitIndex(k, s)
  OBVIOUS
<1>5. /\ m.type = "snapshotResponse" /\ AcceptsReplicationResponse(o, s, m.from)
      /\ votes' = votes /\ reads' = reads
      /\ \/ m.term > o.term /\ Becomes(s, StepDown(o, m.term), {})
         \/ /\ o.role = "leader" /\ m.term = o.term /\ m.success /\ m.match <= Len(o.log)
            /\ Becomes(s, r, {})
  BY <1>1, <1>2, <1>3, <1>4 DEF HandleInstallSnapshotResponse, LastIndex
<1>6. /\ s \in Server /\ m.from \in Server /\ m.term \in Nat
      /\ m.from \in Peers(o) /\ m.from # s
  BY <1>1, <1>2, <1>5, AnsweredBy
<1>7. m.match \in Nat
  BY <1>5, Types, MessageFields
<1>8. /\ o \in Node /\ UsualNode(o) /\ o.term \in Nat /\ o.commit \in Nat /\ o.snap \in Nat
      /\ o.applied \in Nat /\ Len(o.log) \in Nat
      /\ o.snap <= o.applied /\ o.applied <= o.commit /\ o.commit <= Len(o.log)
  BY <1>2, <1>6, NodeBefore
<1>9. CASE m.term > o.term /\ Becomes(s, StepDown(o, m.term), {})
  BY <1>2, <1>5, <1>6, <1>9, StepDownEffect
<1>10. CASE /\ o.role = "leader" /\ m.term = o.term /\ m.success /\ m.match <= Len(o.log)
            /\ Becomes(s, r, {})
  <2>1. Recorded(o, m.from, m.match, k)
    BY <1>3, <1>6, <1>7, <1>8, ProgressFacts
  <2>2. Tended(s, k)
    BY <1>1, <1>2, <1>5, <1>6, <1>7, <1>10, <2>1, RecordedTended
  <2>3. /\ k \in Node /\ UsualNode(k) /\ k.snap <= k.commit /\ k.commit <= Len(k.log)
    BY <1>8, <2>1 DEF Recorded
  <2>4. Grows(s, k, r)
    BY <1>4, <1>6, <2>3, AdvanceGrows
  <2>5. Tended(s, r)
    BY <1>6, <2>2, <2>4, TendedGrows
  <2>6. Effect(s, r, {})
    BY <1>5, <1>6, <1>10, <2>5, LeaderEffect
  <2> QED
    BY <2>6
<1> QED
  BY <1>5, <1>9, <1>10

-----------------------------------------------------------------------------
(* Following a leader.                                                     *)

\* Two logs made of pieces of leaderships that have an entry of one term at an
\* index agree up to it.
LEMMA LogsMatch ==
  ASSUME Before, NEW L \in Seq(Entry), NEW M \in Seq(Entry),
         Inherited(elections, L), Inherited(elections, M),
         NEW i \in Nat, 0 < i, i <= Len(L), i <= Len(M), L[i].term = M[i].term
  PROVE  Agree(L, M, i)
<1>1. i \in 1 .. Len(L) /\ i \in 1 .. Len(M)
  OBVIOUS
<1>2. PICK e \in elections : e.term = L[i].term /\ Agree(L, e.log, i)
  BY <1>1 DEF Inherited
<1>3. PICK f \in elections : f.term = M[i].term /\ Agree(M, f.log, i)
  BY <1>1 DEF Inherited
<1>4. e = f
  BY <1>2, <1>3, Leaderships
<1> QED
  BY <1>2, <1>3, <1>4 DEF Agree

\* What a server has committed is in every leadership of its term or later.
LEMMA CommittedAgree ==
  ASSUME Before, NEW s \in Server, NEW o, o = node[s], NEW e \in elections, e.term >= o.term,
         NEW j \in 0 .. o.commit
  PROVE  Agree(o.log, e.log, j)
<1>1. /\ o.log \in Seq(Entry) /\ o.term \in Nat /\ o.commit \in Nat
      /\ Settled(node, votes, elections, o.log, o.commit, o.term)
  BY NodeBefore
<1>2. e.log \in Seq(Entry)
  BY Leaderships, ElectionFields
<1>3. Agree(o.log, e.log, o.commit) \/ o.commit = 0
  BY <1>1, SettledSafe
<1>4. CASE o.commit = 0
  BY <1>1, <1>2, <1>4 DEF Agree
<1>5. CASE Agree(o.log, e.log, o.commit)
  BY <1>1, <1>2, <1>5, AgreeLower
<1> QED
  BY <1>3, <1>4, <1>5

\* k is o as a follower of the leader that sent m.
Follows(o, m, k) ==
  /\ k \in Node /\ UsualNode(k) /\ k.role = "follower" /\ k.term = m.term /\ k.log = o.log
  /\ k.snap = o.snap /\ k.applied = o.applied /\ k.commit = o.commit
  /\ k.match = o.match /\ k.incarnation = o.incarnation /\ k.conf = o.conf /\ k.base = o.base

LEMMA AcceptLeaderFacts ==
  ASSUME NEW o \in Node, UsualNode(o), NEW m \in Message, m.term >= o.term,
         NEW k, k = AcceptLeader(o, m)
  PROVE  Follows(o, m, k)
<1> DEFINE a == IF m.term > o.term THEN StepDown(o, m.term) ELSE o
           g == IF o.role = "follower" THEN a.granted ELSE {}
<1>1. k \in Node /\ k.role = "follower" /\ k.term = m.term
  BY AcceptLeaderKeeps
<1>2. k = [a EXCEPT !.role = "follower", !.known = m.from, !.granted = g]
  BY DEF AcceptLeader
<1>3. m.term \in Nat
  BY MessageFields
<1>4. IF m.term > o.term THEN a = StepDown(o, m.term) ELSE a = o
  OBVIOUS
<1> HIDE DEF a, g
<1>5. a \in Node
  BY <1>3, <1>4, StepDownType
<1>6. /\ k.log = a.log /\ k.snap = a.snap /\ k.applied = a.applied /\ k.commit = a.commit
      /\ k.match = a.match /\ k.incarnation = a.incarnation
      /\ k.conf = a.conf /\ k.base = a.base /\ k.joiners = a.joiners
      /\ k.admission = a.admission /\ k.joiningFrom = a.joiningFrom
  BY <1>2, <1>5 DEF Node
<1>7. /\ a.log = o.log /\ a.snap = o.snap /\ a.applied = o.applied /\ a.commit = o.commit
      /\ a.match = o.match /\ a.incarnation = o.incarnation
      /\ a.conf = o.conf /\ a.base = o.base /\ a.joiners = o.joiners
      /\ a.admission = o.admission /\ a.joiningFrom = o.joiningFrom
  <2>1. CASE m.term > o.term
    <3>1. a = [o EXCEPT !.term = m.term, !.role = "follower", !.votedFor = Nil, !.granted = {},
                        !.known = Nil]
      BY <1>4, <2>1 DEF StepDown
    <3> QED
      BY <3>1 DEF Node
  <2>2. CASE ~(m.term > o.term)
    BY <1>4, <2>2
  <2> QED
    BY <2>1, <2>2
<1>8. UsualNode(k)
  BY <1>6, <1>7 DEF UsualNode
<1> QED
  BY <1>1, <1>6, <1>7, <1>8 DEF Follows

\* A step that brings the log nearer to that of the leadership it follows.
LEMMA FollowEffect ==
  ASSUME Before, NEW s \in Server, NEW o, o = node[s], NEW e \in elections, e.term >= o.term,
         NEW n \in Node, UsualNode(n), n.role = "follower", n.term = e.term,
         Patched(o.log, e.log, n.log), n.snap <= n.applied, n.applied <= n.commit,
         \/ n.commit <= o.commit
         \/ n.commit <= Len(n.log) /\ Settled(node, votes, elections, n.log, n.commit, n.term),
         n.incarnation = o.incarnation => n.commit >= o.commit,
         \/ InForce(n)
         \/ n.snap = o.snap /\ n.base = o.base /\ n.conf = o.conf /\ n.applied = o.applied,
         n.match[s] = 0, NEW ms, Becomes(s, n, ms), votes' = votes, reads' = reads,
         \A m \in ms : m \in Message /\ UsualMessage(m) /\ Sends(s, n, m)
  PROVE  Effect(s, n, ms)
<1>1. /\ o.log \in Seq(Entry) /\ o.term \in Nat /\ o.commit \in Nat /\ o.commit <= Len(o.log)
      /\ Len(o.log) \in Nat /\ o \in Node /\ InForce(o) /\ o.applied \in Nat
      /\ o.applied <= o.commit
  BY NodeBefore
<1>2. n.log \in Seq(Entry) /\ n.commit \in Nat /\ Len(n.log) \in Nat /\ n.term \in Nat
  BY NodeFields
<1>3. Moves(s, n)
  BY DEF Moves
<1>4. CastsVotes(s, n)
  BY <1>1, NoVotes
<1>5. Change(s, n, ms)
  BY <1>3, <1>4 DEF Change
<1>6. /\ Agree(n.log, o.log, o.commit)
      /\ Settled(node, votes, elections, n.log, o.commit, n.term)
  BY <1>5, CommittedLogKept
<1>7. n.commit <= Len(n.log) /\ Settled(node, votes, elections, n.log, n.commit, n.term)
  <2>1. CASE n.commit <= o.commit
    <3>1. n.commit \in 0 .. o.commit /\ Agree(n.log, n.log, n.commit) /\ n.commit <= Len(n.log)
      BY <1>1, <1>2, <1>6, <2>1 DEF Agree
    <3> QED
      BY <1>1, <1>2, <1>6, <3>1, SettledLower
  <2>2. CASE ~(n.commit <= o.commit)
    BY <2>2
  <2> QED
    BY <2>1, <2>2
<1>8. Commits(s, n)
  BY <1>7 DEF Commits
<1>9. Progress(s, n)
  BY DEF Progress
<1>10. reads' \ reads = {}
  OBVIOUS
<1>11. InForce(n)
  <2>1. CASE n.snap = o.snap /\ n.base = o.base /\ n.conf = o.conf /\ n.applied = o.applied
    <3>1. o.applied \in 0 .. o.commit
      BY <1>1
    <3>2. Agree(n.log, o.log, o.applied)
      BY <1>1, <1>2, <1>6, <3>1, AgreeLower
    <3>3. ConfigurationAt(n, o.applied) = ConfigurationAt(o, o.applied)
      BY <1>1, <2>1, <3>2, SameConfiguration
    <3> QED
      BY <1>1, <2>1, <3>3 DEF InForce
  <2> QED
    BY <2>1
<1> QED
  BY <1>5, <1>7, <1>8, <1>9, <1>10, <1>11 DEF Effect

\* The first difference between the log and the entries of a leadership.
LEMMA DifferenceFacts ==
  ASSUME Before, NEW n \in Node, NEW L, L = n.log, NEW R \in Seq(Entry),
         Inherited(elections, L), Inherited(elections, R), NEW prev \in Nat, prev >= n.snap,
         NEW E \in Seq(Entry), prev + Len(E) <= Len(R),
         \A k \in 1 .. Len(E) : E[k] = R[prev + k],
         Agree(L, R, prev), NEW d, d = FirstDifference(n, prev, E)
  PROVE  /\ d = 0 => Agree(L, R, prev + Len(E))
         /\ d # 0 => /\ d \in 1 .. Len(E) /\ Agree(L, R, prev + d - 1)
                     /\ \A i \in Nat : Agree(L, R, i) => i <= prev + d - 1
<1> DEFINE diff == {k \in 1 .. Len(E) : prev + k > LastIndex(n) \/ TermAt(n, prev + k) # E[k].term}
<1>1. L \in Seq(Entry) /\ Len(L) \in Nat /\ n.snap \in Nat /\ Len(E) \in Nat /\ Len(R) \in Nat
  BY NodeFields
<1>2. d = IF diff = {} THEN 0 ELSE Min(diff)
  BY DEF FirstDifference
<1>3. ASSUME NEW k \in 1 .. Len(E), prev + k <= Len(L)
      PROVE  TermAt(n, prev + k) = L[prev + k].term
  BY <1>1, <1>3 DEF TermAt, LastIndex
<1>4. ASSUME NEW k \in 1 .. Len(E), k \notin diff PROVE Agree(L, R, prev + k)
  <2>1. prev + k <= Len(L) /\ TermAt(n, prev + k) = E[k].term
    BY <1>4 DEF LastIndex
  <2>2. L[prev + k].term = R[prev + k].term
    BY <1>3, <2>1
  <2>3. prev + k \in Nat /\ 0 < prev + k /\ prev + k <= Len(R)
    BY <1>1
  <2> QED
    BY <1>1, <2>1, <2>2, <2>3, LogsMatch
<1>5. CASE diff = {}
  <2>1. d = 0
    BY <1>2, <1>5
  <2>2. CASE Len(E) = 0
    BY <1>1, <2>1, <2>2
  <2>3. CASE Len(E) # 0
    <3>1. Len(E) \in 1 .. Len(E) /\ Len(E) \notin diff
      BY <1>1, <1>5, <2>3
    <3> QED
      BY <1>4, <2>1, <3>1
  <2> QED
    BY <2>2, <2>3
<1>6. CASE diff # {}
  <2>1. diff \in SUBSET Nat
    BY <1>1
  <2>2. d \in diff /\ \A y \in diff : y >= d
    BY <1>2, <1>6, <2>1, MinInNat
  <2>3. d \in 1 .. Len(E) /\ d \in Nat /\ d # 0
    BY <1>1, <2>2
  <2>a. prev + d > LastIndex(n) \/ TermAt(n, prev + d) # E[d].term
    BY <2>2
  <2> HIDE DEF diff
  <2>4. Agree(L, R, prev + d - 1)
    <3>1. CASE d = 1
      <4>1. prev + d - 1 = prev
        BY <3>1
      <4> QED
        BY <4>1
    <3>2. CASE d # 1
      <4>1. d - 1 \in 1 .. Len(E) /\ ~(d - 1 >= d)
        BY <1>1, <2>3, <3>2
      <4>2. d - 1 \notin diff
        BY <2>2, <4>1
      <4>3. Agree(L, R, prev + (d - 1))
        BY <1>4, <4>1, <4>2
      <4>4. prev + (d - 1) = prev + d - 1
        BY <2>3
      <4> QED
        BY <4>3, <4>4
    <3> QED
      BY <3>1, <3>2
  <2>5. ASSUME NEW i \in Nat, Agree(L, R, i), ~(i <= prev + d - 1) PROVE FALSE
    <3>1. prev + d \in 1 .. i
      BY <2>3, <2>5, SMTT(30)
    <3>2. L[prev + d] = R[prev + d] /\ prev + d <= Len(L)
      BY <1>1, <2>5, <3>1 DEF Agree
    <3>3. TermAt(n, prev + d) = E[d].term
      BY <1>3, <2>3, <3>2
    <3>4. ~(prev + d > LastIndex(n))
      BY <1>1, <2>3, <3>2 DEF LastIndex
    <3> QED
      BY <2>a, <3>3, <3>4
  <2> QED
    BY <2>3, <2>4, <2>5
<1> QED
  BY <1>5, <1>6

\* One log after the other.
LEMMA ConcatFacts ==
  ASSUME NEW A \in Seq(Entry), NEW B \in Seq(Entry)
  PROVE  /\ A \o B \in Seq(Entry) /\ Len(A \o B) = Len(A) + Len(B)
         /\ \A j \in 1 .. Len(A) + Len(B) :
              (A \o B)[j] = IF j <= Len(A) THEN A[j] ELSE B[j - Len(A)]
OBVIOUS

\* The matching loop of handle_append_entries.
LEMMA MergeFacts ==
  ASSUME Before, NEW n \in Node, NEW L, L = n.log, NEW R \in Seq(Entry),
         Inherited(elections, L), Inherited(elections, R), NEW prev \in Nat, prev >= n.snap,
         NEW E \in Seq(Entry), prev + Len(E) <= Len(R),
         \A k \in 1 .. Len(E) : E[k] = R[prev + k],
         Agree(L, R, prev), NEW M, M = MergeEntries(n, prev, E)
  PROVE  /\ M \in Seq(Entry) /\ Agree(M, R, prev + Len(E)) /\ Patched(L, R, M)
         /\ \A i \in 1 .. Len(M) : \/ i \in 1 .. Len(L) /\ M[i] = L[i]
                                   \/ \E k \in 1 .. Len(E) : M[i] = E[k]
<1> DEFINE d == FirstDifference(n, prev, E)
<1>1. L \in Seq(Entry) /\ Len(L) \in Nat /\ Len(E) \in Nat /\ Len(R) \in Nat
  BY NodeFields
<1>2. /\ d = 0 => Agree(L, R, prev + Len(E))
      /\ d # 0 => /\ d \in 1 .. Len(E) /\ Agree(L, R, prev + d - 1)
                  /\ \A i \in Nat : Agree(L, R, i) => i <= prev + d - 1
  BY DifferenceFacts
<1>3. M = IF d = 0 THEN L ELSE Prefix(L, prev + d - 1) \o SubSeq(E, d, Len(E))
  BY DEF MergeEntries
<1> HIDE DEF d
<1>4. CASE d = 0
  <2>1. M = L /\ Agree(M, R, prev + Len(E))
    BY <1>2, <1>3, <1>4
  <2>2. \A i \in 1 .. Len(L) : Agree(L, L, i)
    BY <1>1 DEF Agree
  <2> QED
    BY <1>1, <2>1, <2>2 DEF Patched
<1>5. CASE d # 0
  <2> DEFINE c == prev + d - 1
             A == Prefix(L, c)
             B == SubSeq(E, d, Len(E))
  <2>1. d \in 1 .. Len(E) /\ Agree(L, R, c) /\ \A i \in Nat : Agree(L, R, i) => i <= c
    BY <1>2, <1>5
  <2>2. c \in 0 .. Len(L) /\ c \in Nat /\ c = prev + (d - 1) /\ d \in Nat /\ c <= Len(R)
    BY <1>1, <2>1 DEF Agree
  <2>3. A \in Seq(Entry) /\ Len(A) = c /\ \A j \in 1 .. c : A[j] = L[j]
    BY <1>1, <2>2, PrefixFacts
  <2>4. /\ B \in Seq(Entry) /\ Len(B) = Len(E) - d + 1
        /\ \A j \in 1 .. Len(B) : B[j] = E[d + j - 1]
    BY <1>1, <2>1, SMTT(30)
  <2>5. M = A \o B
    BY <1>3, <1>5
  <2> HIDE DEF A, B, c
  <2>6. /\ M \in Seq(Entry) /\ Len(M) = c + Len(B)
        /\ \A j \in 1 .. Len(M) : M[j] = IF j <= c THEN A[j] ELSE B[j - c]
    <3>1. A \in Seq(Entry) /\ B \in Seq(Entry) /\ Len(A) = c
      BY <2>3, <2>4
    <3> QED
      BY <2>5, <3>1, ConcatFacts, SMTT(30)
  <2>7. Len(M) = prev + Len(E) /\ Len(M) \in Nat /\ c <= Len(M)
    BY <1>1, <2>1, <2>2, <2>4, <2>6, SMTT(30)
  <2>8. ASSUME NEW j \in 1 .. Len(M)
        PROVE  /\ M[j] = R[j]
               /\ \/ j \in 1 .. Len(L) /\ M[j] = L[j]
                  \/ \E k \in 1 .. Len(E) : M[j] = E[k]
    <3>1. CASE j <= c
      <4>1. j \in 1 .. c /\ j \in 1 .. Len(L)
        BY <2>2, <3>1
      <4>2. M[j] = A[j]
        BY <2>6, <3>1
      <4>3. A[j] = L[j] /\ L[j] = R[j]
        BY <2>1, <2>3, <4>1 DEF Agree
      <4> QED
        BY <4>1, <4>2, <4>3
    <3>2. CASE ~(j <= c)
      <4>1. j - c \in 1 .. Len(B) /\ d + (j - c) - 1 = j - prev /\ j - prev \in 1 .. Len(E)
        BY <1>1, <2>1, <2>2, <2>4, <2>6, <2>7, <3>2, SMTT(30)
      <4>2. M[j] = B[j - c]
        BY <2>6, <3>2
      <4>3. B[j - c] = E[j - prev]
        BY <2>4, <4>1
      <4>4. E[j - prev] = R[prev + (j - prev)]
        BY <4>1
      <4>5. prev + (j - prev) = j
        BY <2>7
      <4> QED
        BY <4>1, <4>2, <4>3, <4>4, <4>5
    <3> QED
      BY <3>1, <3>2
  <2>9. Agree(M, R, Len(M))
    BY <2>7, <2>8 DEF Agree
  <2>10. \A i \in 1 .. Len(M) : Agree(M, R, i)
    BY <2>6, <2>7, <2>9, AgreeLower
  <2>11. \A i \in 0 .. Len(L) : Agree(L, R, i) => Agree(M, R, i)
    <3> SUFFICES ASSUME NEW i \in 0 .. Len(L), Agree(L, R, i) PROVE Agree(M, R, i)
      OBVIOUS
    <3>1. i \in 0 .. Len(M) /\ i \in Nat
      BY <1>1, <2>1, <2>2, <2>7
    <3> QED
      BY <2>6, <2>7, <2>9, <3>1, AgreeLower
  <2> QED
    BY <2>6, <2>7, <2>8, <2>9, <2>10, <2>11 DEF Patched
<1> QED
  BY <1>4, <1>5

\* S is what follows position p in R.
Piece(S, R, p) == \A k \in 1 .. Len(S) : S[k] = R[p + k]

\* M is the log L brought nearer to R by the entries E after prev.
Merged(L, R, E, prev, M) ==
  /\ M \in Seq(Entry) /\ Agree(M, R, prev + Len(E)) /\ Patched(L, R, M)
  /\ \A i \in 1 .. Len(M) : \/ i \in 1 .. Len(L) /\ M[i] = L[i]
                            \/ \E k \in 1 .. Len(E) : M[i] = E[k]

LEMMA MergedFacts ==
  ASSUME Before, NEW n \in Node, Inherited(elections, n.log), NEW R \in Seq(Entry),
         Inherited(elections, R), NEW prev \in Nat, prev >= n.snap,
         NEW E \in Seq(Entry), prev + Len(E) <= Len(R), Piece(E, R, prev),
         Agree(n.log, R, prev), NEW M, M = MergeEntries(n, prev, E)
  PROVE  Merged(n.log, R, E, prev, M)
<1>1. PICK L : L = n.log
  OBVIOUS
<1>2. \A k \in 1 .. Len(E) : E[k] = R[prev + k]
  BY DEF Piece
<1>3. Inherited(elections, L) /\ Agree(L, R, prev)
  BY <1>1
<1>4. /\ M \in Seq(Entry) /\ Agree(M, R, prev + Len(E)) /\ Patched(L, R, M)
      /\ \A i \in 1 .. Len(M) : \/ i \in 1 .. Len(L) /\ M[i] = L[i]
                                \/ \E k \in 1 .. Len(E) : M[i] = E[k]
  BY <1>1, <1>2, <1>3, MergeFacts, SMTT(30)
<1> QED
  BY <1>1, <1>4 DEF Merged

\* The leadership behind a request that is not stale, and what it says.
Requests(m, e) ==
  /\ m \in Message /\ m.type = "appendRequest" /\ e.term = m.term /\ e.leader = m.from
  /\ e.log \in Seq(Entry) /\ Inherited(elections, e.log)
  /\ m.prev + Len(m.entries) <= Len(e.log)
  /\ m.prev > 0 => e.log[m.prev].term = m.prevTerm
  /\ \A k \in 1 .. Len(m.entries) : m.entries[k] = e.log[m.prev + k]
  /\ m.commit <= Len(e.log)
  /\ Settled(node, votes, elections, e.log, m.commit, m.term)
  /\ UsualLog(m.entries)

LEMMA RequestFacts ==
  ASSUME Before, NEW m \in msgs, m.type = "appendRequest"
  PROVE  \E e \in elections : Requests(m, e)
<1>1. MessageKept(m) /\ UsualMessage(m) /\ m \in Message
  BY Types DEF Before, SafetyInvariant, Usual
<1>2. PICK e \in elections :
         /\ e.term = m.term /\ e.leader = m.from
         /\ m.prev + Len(m.entries) <= Len(e.log)
         /\ m.prev > 0 => e.log[m.prev].term = m.prevTerm
         /\ \A k \in 1 .. Len(m.entries) : m.entries[k] = e.log[m.prev + k]
         /\ m.commit <= Len(e.log)
         /\ Settled(node, votes, elections, e.log, m.commit, m.term)
  BY <1>1 DEF MessageKept
<1>3. e.log \in Seq(Entry) /\ Inherited(elections, e.log)
  BY Leaderships, ElectionFields
<1>4. UsualLog(m.entries)
  BY <1>1 DEF UsualMessage
<1> QED
  BY <1>1, <1>2, <1>3, <1>4 DEF Requests

LEMMA SubSeqFacts ==
  ASSUME NEW S \in Seq(Entry), NEW v \in Nat, v <= Len(S), NEW E, E = SubSeq(S, v + 1, Len(S))
  PROVE  E \in Seq(Entry) /\ Len(E) = Len(S) - v /\ \A i \in 1 .. Len(E) : E[i] = S[v + i]
<1>1. Len(E) = Len(S) - v /\ \A i \in 1 .. Len(E) : E[i] = S[v + i]
  OBVIOUS
<1>2. \A i \in v + 1 .. Len(S) : S[i] \in Entry
  OBVIOUS
<1>3. E \in Seq(Entry)
  BY <1>2
<1> QED
  BY <1>1, <1>3

\* Entries S of R after position p, cut at a later position c.
LEMMA CutAt ==
  ASSUME NEW p \in Nat, NEW c \in Nat, NEW S \in Seq(Entry), NEW R \in Seq(Entry), UsualLog(S),
         Piece(S, R, p), NEW v \in Nat, p < c => p + v = c, p >= c => v = 0, v <= Len(S),
         NEW q \in Nat, p + v = q, NEW E \in Seq(Entry), Len(E) + v = Len(S),
         Piece(E, S, v)
  PROVE  /\ q >= c
         /\ v > 0 => q = c
         /\ v = 0 => q = p
         /\ UsualLog(E)
         /\ q + Len(E) = p + Len(S)
         /\ Piece(E, R, q)
<1>1. q >= c /\ (v > 0 => q = c) /\ (v = 0 => q = p)
  OBVIOUS
<1>2. Len(E) \in Nat /\ Len(S) \in Nat
  OBVIOUS
<1>3. Len(E) \in Nat /\ q + Len(E) = p + Len(S)
  <2> DEFINE a == Len(E)
             b == Len(S)
  <2>1. a \in Nat /\ b \in Nat /\ a + v = b
    BY <1>2
  <2> HIDE DEF a, b
  <2>2. q + a = p + b
    BY <2>1
  <2> QED
    BY <1>2, <2>2 DEF a, b
<1>4. ASSUME NEW i \in 1 .. Len(E)
      PROVE  /\ E[i] = R[q + i] /\ E[i].kind # "join"
             /\ E[i].kind = "joint" => E[i].members = Remaining /\ Remaining # NoMembers
  <2>1. v + i \in 1 .. Len(S) /\ p + (v + i) = q + i
    BY <1>3
  <2>2. E[i] = S[v + i]
    BY DEF Piece
  <2>3. /\ S[v + i] = R[p + (v + i)] /\ S[v + i].kind # "join"
        /\ S[v + i].kind = "joint" => S[v + i].members = Remaining /\ Remaining # NoMembers
    BY <2>1 DEF UsualLog, Piece
  <2> QED
    BY <2>1, <2>2, <2>3
<1> QED
  BY <1>1, <1>3, <1>4 DEF UsualLog, Piece

\* The entries E after prev are the leadership's, and the log of o agrees with
\* it up to there.
Cut(e, o, m, prev, E) ==
  /\ prev \in Nat /\ prev >= o.snap /\ E \in Seq(Entry) /\ UsualLog(E)
  /\ prev + Len(E) = m.prev + Len(m.entries) /\ prev + Len(E) <= Len(e.log)
  /\ Piece(E, e.log, prev)
  /\ Agree(o.log, e.log, prev)

\* A matching request, cut at the snapshot.
LEMMA CutFacts ==
  ASSUME Before, NEW s \in Server, NEW o, o = node[s], NEW m, NEW e \in elections, Requests(m, e),
         m.term >= o.term, NEW n, Follows(o, m, n),
         Len(m.entries) >= Overlap(n, m), ~LogMismatch(n, m)
  PROVE  Cut(e, o, m, m.prev + Overlap(n, m), SubSeq(m.entries, Overlap(n, m) + 1, Len(m.entries)))
<1>1. /\ m \in Message /\ m.type = "appendRequest" /\ e.term = m.term
      /\ e.log \in Seq(Entry) /\ Inherited(elections, e.log)
      /\ m.prev + Len(m.entries) <= Len(e.log)
      /\ m.prev > 0 => e.log[m.prev].term = m.prevTerm
      /\ Piece(m.entries, e.log, m.prev)
      /\ UsualLog(m.entries)
  BY DEF Requests, Piece
<1>2. /\ m.prev \in Nat /\ m.prevTerm \in Nat /\ m.entries \in Seq(Entry)
      /\ Len(m.entries) \in Nat /\ Len(e.log) \in Nat
  BY <1>1, MessageFields
<1>3. n \in Node /\ n.log = o.log /\ n.snap = o.snap
  BY DEF Follows
<1>4. /\ o.log \in Seq(Entry) /\ Len(o.log) \in Nat /\ Inherited(elections, o.log)
      /\ o.snap \in Nat /\ o.applied \in Nat /\ o.commit \in Nat
      /\ o.snap <= o.applied /\ o.applied <= o.commit
  BY NodeBefore
<1>5. PICK v \in Nat : v = Overlap(n, m)
  BY <1>1, <1>3, OverlapType
<1>6. /\ m.prev < o.snap => m.prev + v = o.snap
      /\ m.prev >= o.snap => v = 0
      /\ v <= Len(m.entries)
  <2>1. v = IF m.prev < o.snap THEN o.snap - m.prev ELSE 0
    BY <1>3, <1>5 DEF Overlap
  <2>2. v <= Len(m.entries)
    BY <1>2, <1>5
  <2>3. m.prev < o.snap => v = o.snap - m.prev
    BY <2>1
  <2>4. ~(m.prev < o.snap) => v = 0
    BY <2>1
  <2> DEFINE a == m.prev
             c == o.snap
  <2>5. a \in Nat /\ c \in Nat /\ (a < c => v = c - a) /\ (~(a < c) => v = 0)
    BY <1>2, <1>4, <2>3, <2>4
  <2> HIDE DEF a, c
  <2>6. (a < c => a + v = c) /\ (a >= c => v = 0)
    BY <2>5
  <2> QED
    BY <2>2, <2>6 DEF a, c
<1>7. IF v > 0 THEN TRUE
      ELSE ~(m.prev > LastIndex(n)) /\ ~(m.prev > 0 /\ TermAt(n, m.prev) # m.prevTerm)
  BY <1>5 DEF LogMismatch
<1>8. PICK prev \in Nat : m.prev + v = prev
  BY <1>2
<1>9. PICK E \in Seq(Entry) :
         /\ E = SubSeq(m.entries, v + 1, Len(m.entries)) /\ Len(E) + v = Len(m.entries)
         /\ Piece(E, m.entries, v)
  <2> DEFINE E == SubSeq(m.entries, v + 1, Len(m.entries))
  <2>1. E \in Seq(Entry) /\ Len(E) = Len(m.entries) - v /\ Piece(E, m.entries, v)
    BY <1>2, <1>6, SubSeqFacts DEF Piece
  <2> HIDE DEF E
  <2>2. Len(E) = Len(m.entries) - v
    BY <2>1
  <2>3. Len(E) + v = Len(m.entries)
    BY <1>2, <2>2
  <2> QED
    BY <2>1, <2>3 DEF E
<1>10. Len(E) + v = Len(m.entries) /\ Piece(E, m.entries, v)
  BY <1>9
<1>11. /\ prev >= o.snap
       /\ v > 0 => prev = o.snap
       /\ v = 0 => prev = m.prev
       /\ UsualLog(E)
       /\ prev + Len(E) = m.prev + Len(m.entries)
       /\ Piece(E, e.log, prev)
  <2> DEFINE a == m.prev
             c == o.snap
             S == m.entries
             R == e.log
  <2>1. /\ a \in Nat /\ c \in Nat /\ S \in Seq(Entry) /\ R \in Seq(Entry) /\ UsualLog(S)
        /\ Piece(S, R, a) /\ (a < c => a + v = c) /\ (a >= c => v = 0) /\ v <= Len(S)
        /\ a + v = prev /\ Len(E) + v = Len(S) /\ Piece(E, S, v)
    BY <1>1, <1>2, <1>4, <1>6, <1>8, <1>10
  <2> HIDE DEF a, c, S, R
  <2>2. /\ prev >= c
        /\ v > 0 => prev = c
        /\ v = 0 => prev = a
        /\ UsualLog(E)
        /\ prev + Len(E) = a + Len(S)
        /\ Piece(E, R, prev)
    BY <2>1, CutAt, SMTT(30)
  <2> QED
    BY <2>2 DEF a, c, S, R
<1>12. Agree(o.log, e.log, prev)
  <2>1. CASE v > 0
    <3>1. o.snap <= o.commit /\ o.commit \in Nat
      BY <1>4
    <3>2. prev = o.snap /\ prev \in 0 .. o.commit
      BY <1>4, <1>11, <2>1, <3>1
    <3>3. e.term >= o.term
      BY <1>1
    <3> QED
      BY <3>2, <3>3, CommittedAgree
  <2>2. CASE ~(v > 0)
    <3>1. prev = m.prev
      BY <1>11, <2>2
    <3>2. ~(prev > LastIndex(n)) /\ ~(prev > 0 /\ TermAt(n, prev) # m.prevTerm)
      BY <1>7, <2>2, <3>1
    <3>3. prev <= Len(o.log)
      BY <1>3, <1>4, <3>2 DEF LastIndex
    <3>4. prev <= Len(e.log)
      BY <1>1, <1>2, <3>1
    <3>5. CASE prev = 0
      BY <1>1, <1>4, <3>3, <3>4, <3>5 DEF Agree
    <3>6. CASE prev > 0
      <4>1. TermAt(n, prev) = o.log[prev].term
        BY <1>3, <1>4, <1>11, <3>3, <3>6 DEF TermAt, LastIndex
      <4>2. o.log[prev].term = e.log[prev].term
        BY <1>1, <3>1, <3>2, <3>6, <4>1
      <4> QED
        BY <1>1, <1>4, <3>3, <3>4, <3>6, <4>2, LogsMatch
    <3> QED
      BY <3>5, <3>6
  <2> QED
    BY <2>1, <2>2
<1>13. Cut(e, o, m, prev, E)
  <2>1. prev + Len(E) <= Len(e.log)
    BY <1>1, <1>11
  <2> QED
    BY <1>11, <1>12, <2>1 DEF Cut
<1> QED
  BY <1>5, <1>8, <1>9, <1>13

\* A reply that says how far the follower's log agrees with the leadership.
LEMMA AckSent ==
  ASSUME Before, NEW s, NEW m \in Message, s = m.to, NEW e \in elections, e.term = m.term,
         e.leader = m.from, NEW n, n.term = m.term, NEW i \in Nat, Agree(n.log, e.log, i),
         NEW type \in {"appendResponse", "snapshotResponse"},
         NEW r, r = Reply(m, type, m.term, TRUE, i)
  PROVE  r \in Message /\ UsualMessage(r) /\ Sends(s, n, r)
<1>1. m.term \in Nat /\ TRUE \in BOOLEAN
  BY MessageFields
<1>2. type \in {"voteResponse", "appendResponse", "snapshotResponse"}
  OBVIOUS
<1>3. /\ r.type = type /\ r.from = m.to /\ r.to = m.from /\ r.term = m.term /\ r.match = i
  BY DEF Reply
<1>4. r \in [type : {"voteResponse", "appendResponse", "snapshotResponse"},
             from : Server, to : Server, term : Nat, success : BOOLEAN, match : Nat]
  BY <1>1, <1>2, MessageFields DEF Reply
<1>5. r \in Message /\ UsualMessage(r)
  BY <1>3, <1>4 DEF Message, UsualMessage
<1>6. Sends(s, n, r)
  BY <1>3 DEF Sends
<1> QED
  BY <1>6, <1>5

LEMMA RefusalKept ==
  ASSUME NEW m \in Message, NEW type \in {"appendResponse", "snapshotResponse"},
         NEW t \in Nat, NEW i \in Nat
  PROVE  LET r == Reply(m, type, t, FALSE, i) IN r \in Message /\ UsualMessage(r) /\ MessageKept(r)
<1>1. type \in {"voteResponse", "appendResponse", "snapshotResponse"}
  OBVIOUS
<1>2. \A ok \in BOOLEAN : ~ok =>
        LET r == Reply(m, type, t, ok, i) IN r \in Message /\ UsualMessage(r) /\ MessageKept(r)
  BY <1>1, BallotKept
<1> QED
  BY <1>2

\* A request of a stale term, or of a stranger, changes nothing.
LEMMA RefusalEffect ==
  ASSUME Before, NEW m \in msgs, NEW s, s = m.to, NEW i \in Nat,
         NEW type \in {"appendResponse", "snapshotResponse"},
         Becomes(s, node[s], {Reply(m, type, node[s].term, FALSE, i)}),
         votes' = votes, reads' = reads
  PROVE  \E n, ms : Effect(s, n, ms)
<1>1. m \in Message /\ s \in Server
  BY Types, MessageFields
<1> DEFINE o == node[s]
           r == Reply(m, type, o.term, FALSE, i)
<1>2. o \in Node /\ o.term \in Nat /\ UsualNode(o) /\ o.commit \in Nat /\ InForce(o)
  BY <1>1, NodeBefore
<1>3. r \in Message /\ UsualMessage(r) /\ MessageKept(r)
  BY <1>1, <1>2, RefusalKept
<1>4. Becomes(s, o, {r})
  OBVIOUS
<1> HIDE DEF r
<1>5. Calm(s, o)
  <2>1. /\ UsualNode(o) /\ o.snap <= o.applied /\ o.applied <= o.commit /\ o.match[s] = 0
        /\ o.term >= o.term /\ o.commit <= o.commit
    BY <1>1, NodeBefore
  <2>2. o.role = "leader" => Progress(s, o)
    BY <1>1, LeaderBefore
  <2> QED
    BY <1>2, <2>1, <2>2 DEF Calm
<1>6. CastsVotes(s, o)
  BY <1>2, NoVotes
<1>7. \A q \in {r} : q \in Message /\ UsualMessage(q) /\ Sends(s, o, q)
  BY <1>3 DEF Sends
<1> HIDE DEF o
<1>8. Effect(s, o, {r})
  BY <1>1, <1>2, <1>4, <1>5, <1>6, <1>7, CalmEffect DEF o
<1> QED
  BY <1>8

\* A follower that keeps its log and its commit index.
LEMMA FollowReply ==
  ASSUME Before, NEW s \in Server, NEW m \in Message, m.term >= node[s].term,
         NEW n, Follows(node[s], m, n), NEW ms, Becomes(s, n, ms), votes' = votes, reads' = reads,
         \A q \in ms : q \in Message /\ UsualMessage(q) /\ Sends(s, n, q)
  PROVE  Effect(s, n, ms)
<1>1. /\ n \in Node /\ UsualNode(n) /\ n.role = "follower" /\ n.term >= node[s].term
      /\ n.log = node[s].log /\ n.snap = node[s].snap /\ n.applied = node[s].applied
      /\ n.commit = node[s].commit /\ n.match = node[s].match
      /\ n.conf = node[s].conf /\ n.base = node[s].base
  BY DEF Follows
<1>2. Calm(s, n)
  <2>1. PICK o : o = node[s]
    OBVIOUS
  <2>2. InForce(o)
    BY <2>1, NodeBefore
  <2>3. InForce(n)
    BY <1>1, <2>1, <2>2, InForceKept
  <2> QED
    BY <1>1, <2>3, FollowerCalm
<1>3. node[s].term \in Nat
  BY NodeBefore
<1>4. CastsVotes(s, n)
  BY <1>1, <1>3, NoVotes
<1> QED
  BY <1>1, <1>2, <1>4, CalmEffect

\* A node with another log and commit index.
WithLog(k, M, c) == [k EXCEPT !.log = M, !.commit = c]

Appended(k, M, c, n) ==
  /\ n \in Node /\ UsualNode(n) /\ n.log = M /\ n.commit = c
  /\ n.role = k.role /\ n.term = k.term /\ n.snap = k.snap /\ n.applied = k.applied
  /\ n.match = k.match /\ n.incarnation = k.incarnation /\ n.conf = k.conf /\ n.base = k.base

LEMMA AppendedFacts ==
  ASSUME NEW k \in Node, UsualNode(k), NEW M \in Seq(Entry), UsualLog(M), NEW c \in Nat,
         NEW n, n = WithLog(k, M, c)
  PROVE  Appended(k, M, c, n)
<1>1. n \in Node
  BY DEF Node, WithLog
<1>2. /\ n.log = M /\ n.commit = c
      /\ n.role = k.role /\ n.term = k.term /\ n.snap = k.snap /\ n.applied = k.applied
      /\ n.match = k.match /\ n.incarnation = k.incarnation
      /\ n.conf = k.conf /\ n.base = k.base /\ n.joiners = k.joiners
      /\ n.admission = k.admission /\ n.joiningFrom = k.joiningFrom
  BY DEF Node, WithLog
<1>3. UsualNode(n)
  BY <1>2 DEF UsualNode
<1> QED
  BY <1>1, <1>2, <1>3 DEF Appended

\* A matching request: what it appends is the leadership's, and what it
\* commits is settled there.
LEMMA AppendEffect ==
  ASSUME Before, NEW m \in msgs, m.type = "appendRequest", NEW s, s = m.to, NEW o, o = node[s],
         m.term >= o.term, NEW k, Follows(o, m, k),
         Len(m.entries) >= Overlap(k, m), ~LogMismatch(k, m),
         NEW n, n = AppendMatching(k, m),
         Becomes(s, n, {Reply(m, "appendResponse", m.term, TRUE, m.prev + Len(m.entries))}),
         votes' = votes, reads' = reads
  PROVE  \E q, ms : Effect(s, q, ms)
<1>1. m \in Message /\ s \in Server /\ m.term \in Nat
  BY Types, MessageFields
<1>2. PICK e \in elections : Requests(m, e)
  BY RequestFacts
<1>3. Cut(e, o, m, m.prev + Overlap(k, m), SubSeq(m.entries, Overlap(k, m) + 1, Len(m.entries)))
  BY <1>1, <1>2, CutFacts
<1>4. PICK prev : prev = m.prev + Overlap(k, m)
  OBVIOUS
<1>5. PICK E : E = SubSeq(m.entries, Overlap(k, m) + 1, Len(m.entries))
  OBVIOUS
<1>6. Cut(e, o, m, prev, E)
  BY <1>3, <1>4, <1>5
<1>7. /\ k \in Node /\ UsualNode(k) /\ k.log = o.log /\ k.snap = o.snap /\ k.commit = o.commit
      /\ k.applied = o.applied /\ k.role = "follower" /\ k.term = m.term
      /\ k.match = o.match /\ k.incarnation = o.incarnation
      /\ k.conf = o.conf /\ k.base = o.base
  BY DEF Follows
<1>8. /\ e.log \in Seq(Entry) /\ Inherited(elections, e.log) /\ e.term = m.term
      /\ e.leader = m.from /\ Settled(node, votes, elections, e.log, m.commit, m.term)
      /\ m.commit \in Nat
  BY <1>1, <1>2, MessageFields DEF Requests
<1>9. /\ prev \in Nat /\ prev >= k.snap /\ E \in Seq(Entry) /\ UsualLog(E)
      /\ prev + Len(E) <= Len(e.log) /\ Agree(k.log, e.log, prev)
  BY <1>6, <1>7 DEF Cut
<1>10. \A i \in 1 .. Len(E) : E[i] = e.log[prev + i]
  BY <1>6 DEF Cut, Piece
<1>11. prev + Len(E) = m.prev + Len(m.entries) /\ Len(E) \in Nat
  BY <1>6, <1>9 DEF Cut
<1>12. /\ o.log \in Seq(Entry) /\ Inherited(elections, k.log) /\ o.commit \in Nat
       /\ o.snap <= o.applied /\ o.applied <= o.commit /\ o.match[s] = 0 /\ o.term \in Nat
       /\ o.snap \in Nat /\ o.applied \in Nat
  BY <1>1, <1>7, NodeBefore
<1>13. PICK M : M = MergeEntries(k, prev, E)
  OBVIOUS
<1>14. /\ M \in Seq(Entry) /\ Agree(M, e.log, prev + Len(E)) /\ Patched(o.log, e.log, M)
       /\ \A i \in 1 .. Len(M) : \/ i \in 1 .. Len(k.log) /\ M[i] = k.log[i]
                                 \/ \E j \in 1 .. Len(E) : M[i] = E[j]
  <2> DEFINE R == e.log
  <2>1. /\ R \in Seq(Entry) /\ Inherited(elections, R) /\ Inherited(elections, k.log)
        /\ prev + Len(E) <= Len(R) /\ Agree(k.log, R, prev) /\ Piece(E, R, prev)
    BY <1>8, <1>9, <1>10, <1>12 DEF Piece
  <2>2. k \in Node /\ prev \in Nat /\ prev >= k.snap /\ E \in Seq(Entry)
    BY <1>7, <1>9
  <2> HIDE DEF R
  <2>3. Merged(k.log, R, E, prev, M)
    BY <1>13, <2>1, <2>2, MergedFacts
  <2> QED
    BY <1>7, <2>3 DEF R, Merged
<1>15. UsualLog(M)
  <2>1. UsualLog(k.log) /\ UsualLog(E)
    BY <1>7, <1>9 DEF UsualNode
  <2> QED
    BY <1>14, <2>1 DEF UsualLog
<1> DEFINE last == prev + Len(E)
           f == IF m.commit < last THEN m.commit ELSE last
           c == IF f > k.commit THEN f ELSE k.commit
<1>16. n = [k EXCEPT !.log = M, !.commit = c]
  BY <1>4, <1>5, <1>13 DEF AppendMatching
<1>17. last \in Nat
  BY <1>9, <1>11
<1>18. c \in Nat /\ c >= o.commit /\ (c = o.commit \/ (c <= m.commit /\ c <= last))
  <2> HIDE DEF last
  <2>1. f \in Nat /\ f <= m.commit /\ f <= last
    BY <1>8, <1>17
  <2> HIDE DEF f
  <2> QED
    BY <1>7, <1>12, <1>17, <2>1
<1> HIDE DEF c, f, last
<1>19. Appended(k, M, c, n)
  <2>1. /\ k \in Node /\ UsualNode(k) /\ M \in Seq(Entry) /\ UsualLog(M) /\ c \in Nat
        /\ n = WithLog(k, M, c)
    BY <1>7, <1>14, <1>15, <1>16, <1>18 DEF WithLog
  <2> QED
    BY <2>1, AppendedFacts
<1>20. /\ n \in Node /\ UsualNode(n) /\ n.role = "follower" /\ n.term = e.term /\ n.log = M
       /\ n.commit = c /\ n.snap = o.snap /\ n.applied = o.applied /\ n.match[s] = 0
       /\ n.incarnation = o.incarnation /\ n.conf = o.conf /\ n.base = o.base
  BY <1>7, <1>8, <1>12, <1>19 DEF Appended
<1>21. Agree(M, e.log, last)
  BY <1>14 DEF last
<1>22. c # o.commit => c <= Len(M) /\ Settled(node, votes, elections, M, c, m.term)
  <2> SUFFICES ASSUME c # o.commit
               PROVE  c <= Len(M) /\ Settled(node, votes, elections, M, c, m.term)
    OBVIOUS
  <2>1. c <= last /\ c \in 0 .. last /\ c \in 0 .. m.commit
    BY <1>8, <1>17, <1>18
  <2>2. Agree(M, e.log, c)
    BY <1>8, <1>14, <1>17, <1>21, <2>1, AgreeLower
  <2>3. c <= Len(M)
    BY <2>2 DEF Agree
  <2>4. Settled(node, votes, elections, M, c, m.term)
    <3>1. m.term <= m.term
      BY <1>1
    <3> QED
      BY <1>1, <1>8, <1>14, <2>1, <2>2, <3>1, SettledLower
  <2> QED
    BY <2>3, <2>4
<1> DEFINE r == Reply(m, "appendResponse", m.term, TRUE, last)
<1>23. Becomes(s, n, {r})
  BY <1>11 DEF last
<1>24. r \in Message /\ UsualMessage(r) /\ Sends(s, n, r)
  <2>1. n.term = m.term /\ Agree(n.log, e.log, last)
    BY <1>8, <1>20, <1>21
  <2>2. "appendResponse" \in {"appendResponse", "snapshotResponse"}
    OBVIOUS
  <2> QED
    BY <1>1, <1>8, <1>17, <2>1, <2>2, AckSent
<1> HIDE DEF r
<1>25. \A q \in {r} : q \in Message /\ UsualMessage(q) /\ Sends(s, n, q)
  BY <1>24
<1>26. \/ n.commit <= o.commit
       \/ n.commit <= Len(n.log) /\ Settled(node, votes, elections, n.log, n.commit, n.term)
  <2>1. CASE c = o.commit
    BY <1>12, <1>20, <2>1
  <2>2. CASE c # o.commit
    BY <1>8, <1>20, <1>22, <2>2
  <2> QED
    BY <2>1, <2>2
<1>27. /\ n.snap <= n.applied /\ n.applied <= n.commit
       /\ n.incarnation = o.incarnation => n.commit >= o.commit
  BY <1>12, <1>18, <1>20
<1>28. e.term >= o.term /\ Patched(o.log, e.log, n.log)
  BY <1>8, <1>14, <1>20
<1>29. Effect(s, n, {r})
  BY <1>1, <1>20, <1>23, <1>25, <1>26, <1>27, <1>28, FollowEffect
<1> QED
  BY <1>29

\* handle_append_entries
LEMMA HandleAppendEntriesEffect ==
  ASSUME Before, NEW m \in msgs, HandleAppendEntries(m)
  PROVE  \E s, n, ms : Effect(s, n, ms)
<1>1. PICK s : s = m.to
  OBVIOUS
<1>2. PICK o : o = node[s]
  OBVIOUS
<1>3. PICK k : k = AcceptLeader(o, m)
  OBVIOUS
<1>4. /\ m.type = "appendRequest" /\ votes' = votes /\ reads' = reads
      /\ \/ /\ m.term < o.term \/ RefusesLeader(o, s, m)
            /\ Becomes(s, o, {Reply(m, "appendResponse", o.term, FALSE, 0)})
         \/ /\ m.term >= o.term /\ ~RefusesLeader(o, s, m)
            /\ \/ /\ Len(m.entries) < Overlap(k, m)
                  /\ Becomes(s, k, {Reply(m, "appendResponse", k.term, TRUE, k.snap)})
               \/ /\ Len(m.entries) >= Overlap(k, m)
                  /\ LogMismatch(k, m)
                  /\ Becomes(s, k, {Reply(m, "appendResponse", k.term, FALSE, 0)})
               \/ /\ Len(m.entries) >= Overlap(k, m)
                  /\ ~LogMismatch(k, m)
                  /\ Becomes(s, AppendMatching(k, m),
                       {Reply(m, "appendResponse", k.term, TRUE, m.prev + Len(m.entries))})
  BY <1>1, <1>2, <1>3 DEF HandleAppendEntries
<1>5. m \in Message /\ s \in Server /\ m.term \in Nat
  BY <1>1, Types, MessageFields
<1>6. /\ o \in Node /\ UsualNode(o) /\ o.term \in Nat /\ o.snap \in 0 .. o.commit
      /\ o.commit \in Nat /\ o.log \in Seq(Entry)
  <2>1. /\ o \in Node /\ UsualNode(o) /\ o.term \in Nat /\ o.snap \in Nat /\ o.applied \in Nat
        /\ o.commit \in Nat /\ o.log \in Seq(Entry) /\ o.snap <= o.applied /\ o.applied <= o.commit
    BY <1>2, <1>5, NodeBefore
  <2> QED
    BY <2>1
<1>7. "appendResponse" \in {"appendResponse", "snapshotResponse"} /\ 0 \in Nat
  OBVIOUS
<1>8. CASE Becomes(s, o, {Reply(m, "appendResponse", o.term, FALSE, 0)})
  <2>1. Becomes(s, node[s], {Reply(m, "appendResponse", node[s].term, FALSE, 0)})
    BY <1>2, <1>8
  <2>2. \E n, ms : Effect(s, n, ms)
    BY <1>1, <1>4, <1>7, <2>1, RefusalEffect
  <2> QED
    BY <2>2
<1>9. CASE m.term >= o.term
  <2>1. Follows(o, m, k)
    BY <1>3, <1>5, <1>6, <1>9, AcceptLeaderFacts
  <2>2. k.term = m.term /\ k.snap = o.snap /\ k.log = o.log
    BY <2>1 DEF Follows
  <2>3. CASE Becomes(s, k, {Reply(m, "appendResponse", k.term, FALSE, 0)})
    <3> DEFINE r == Reply(m, "appendResponse", m.term, FALSE, 0)
    <3>1. r \in Message /\ UsualMessage(r) /\ MessageKept(r)
      BY <1>5, <1>7, RefusalKept
    <3>2. Becomes(s, k, {r})
      BY <2>2, <2>3
    <3> HIDE DEF r
    <3>3. \A q \in {r} : q \in Message /\ UsualMessage(q) /\ Sends(s, k, q)
      BY <3>1 DEF Sends
    <3>4. Effect(s, k, {r})
      BY <1>2, <1>4, <1>5, <1>9, <2>1, <3>2, <3>3, FollowReply
    <3> QED
      BY <3>4
  <2>4. CASE Becomes(s, k, {Reply(m, "appendResponse", k.term, TRUE, k.snap)})
    <3> DEFINE r == Reply(m, "appendResponse", m.term, TRUE, o.snap)
    <3>1. PICK e \in elections : Requests(m, e)
      BY <1>4, RequestFacts
    <3>2. e.term = m.term /\ e.leader = m.from
      BY <3>1 DEF Requests
    <3>3. Agree(o.log, e.log, o.snap)
      BY <1>2, <1>5, <1>6, <1>9, <3>2, CommittedAgree
    <3>4. Agree(k.log, e.log, o.snap) /\ o.snap \in Nat
      BY <1>6, <2>2, <3>3
    <3>5. r \in Message /\ UsualMessage(r) /\ Sends(s, k, r)
      BY <1>1, <1>5, <1>7, <2>2, <3>2, <3>4, AckSent
    <3>6. Becomes(s, k, {r})
      BY <2>2, <2>4
    <3> HIDE DEF r
    <3>7. \A q \in {r} : q \in Message /\ UsualMessage(q) /\ Sends(s, k, q)
      BY <3>5
    <3>8. Effect(s, k, {r})
      BY <1>2, <1>4, <1>5, <1>9, <2>1, <3>6, <3>7, FollowReply
    <3> QED
      BY <3>8
  <2>5. CASE /\ Len(m.entries) >= Overlap(k, m) /\ ~LogMismatch(k, m)
             /\ Becomes(s, AppendMatching(k, m),
                       {Reply(m, "appendResponse", k.term, TRUE, m.prev + Len(m.entries))})
    <3>1. PICK n : n = AppendMatching(k, m)
      OBVIOUS
    <3>2. Becomes(s, n, {Reply(m, "appendResponse", m.term, TRUE, m.prev + Len(m.entries))})
      BY <2>2, <2>5, <3>1
    <3>3. \E q, ms : Effect(s, q, ms)
      BY <1>1, <1>2, <1>4, <1>9, <2>1, <2>5, <3>1, <3>2, AppendEffect
    <3> QED
      BY <3>3
  <2> QED
    BY <1>4, <1>8, <2>3, <2>4, <2>5
<1> QED
  BY <1>4, <1>8, <1>9

\* A snapshot that replaces the log, or confirms the part it covers.
LEMMA InstalledLog ==
  ASSUME Before, NEW s \in Server, NEW o, o = node[s], NEW k \in Node, k.log = o.log,
         k.snap = o.snap, NEW e \in elections, NEW P \in Seq(Entry), P # <<>>, Has(e.log, P),
         Len(P) > o.commit, UsualLog(P), NEW M, M = InstallSnapshotLog(k, P)
  PROVE  /\ M \in Seq(Entry) /\ UsualLog(M)
         /\ Patched(o.log, e.log, M) /\ Agree(M, e.log, Len(P))
<1>1. /\ o.log \in Seq(Entry) /\ Len(o.log) \in Nat /\ Inherited(elections, o.log)
      /\ o.snap \in Nat /\ o.applied \in Nat /\ o.commit \in Nat /\ UsualNode(o)
      /\ o.snap <= o.applied /\ o.applied <= o.commit
  BY NodeBefore
<1>2. e.log \in Seq(Entry) /\ Len(e.log) \in Nat /\ Inherited(elections, e.log)
  BY Leaderships, ElectionFields
<1> DEFINE i == Len(P)
           L == o.log
           R == e.log
<1>3. i \in Nat /\ i > 0
  OBVIOUS
<1>4. o.snap <= i
  BY <1>1, <1>3
<1>5. /\ L \in Seq(Entry) /\ R \in Seq(Entry) /\ Len(L) \in Nat /\ Len(R) \in Nat
      /\ Inherited(elections, L) /\ Inherited(elections, R)
  BY <1>1, <1>2
<1>6. i <= Len(R) /\ \A j \in 1 .. i : R[j] = P[j]
  BY DEF Has, Agree
<1>7. IF i <= Len(L) /\ L[i].term = P[i].term
      THEN M = P \o SubSeq(L, i + 1, Len(L)) ELSE M = P
  <2>1. i \in o.snap .. Len(L) <=> i <= Len(L)
    BY <1>1, <1>3, <1>4
  <2>2. IF i \in o.snap .. Len(L) /\ L[i].term = P[i].term
        THEN M = P \o SubSeq(L, i + 1, Len(L)) ELSE M = P
    BY DEF InstallSnapshotLog, LastIndex
  <2> QED
    BY <2>1, <2>2
<1>8. UsualLog(L)
  BY <1>1 DEF UsualNode
<1> HIDE DEF L, R
<1>9. CASE i <= Len(L) /\ L[i].term = P[i].term
  <2>1. R[i] = P[i]
    BY <1>3, <1>6
  <2>2. Agree(L, R, i)
    BY <1>3, <1>5, <1>6, <1>9, <2>1, LogsMatch
  <2>3. \A j \in 1 .. i : L[j] = P[j]
    BY <1>6, <2>2 DEF Agree
  <2> DEFINE B == SubSeq(L, i + 1, Len(L))
  <2>4. B \in Seq(Entry) /\ Len(B) = Len(L) - i /\ \A j \in 1 .. Len(B) : B[j] = L[i + j]
    BY <1>3, <1>5, <1>9, SubSeqFacts
  <2>5. M = P \o B
    BY <1>7, <1>9
  <2> HIDE DEF B
  <2>6. /\ M \in Seq(Entry) /\ Len(M) = i + Len(B)
        /\ \A j \in 1 .. i + Len(B) : M[j] = IF j <= i THEN P[j] ELSE B[j - i]
    BY <2>4, <2>5, ConcatFacts
  <2>7. Len(B) \in Nat /\ i + Len(B) = Len(L) /\ Len(M) = Len(L)
    BY <1>3, <1>5, <1>9, <2>4, <2>6
  <2>8. ASSUME NEW j \in 1 .. Len(M)
        PROVE  M[j] = L[j]
    <3>1. j \in 1 .. i + Len(B) /\ j \in Nat
      BY <2>7
    <3>2. M[j] = IF j <= i THEN P[j] ELSE B[j - i]
      BY <2>6, <3>1
    <3>3. CASE j <= i
      BY <2>3, <3>1, <3>2, <3>3
    <3>4. CASE ~(j <= i)
      <4>1. j - i \in 1 .. Len(B) /\ i + (j - i) = j
        BY <1>3, <2>7, <3>1, <3>4
      <4> QED
        BY <2>4, <3>2, <3>4, <4>1
    <3> QED
      BY <3>3, <3>4
  <2>9. M = L
    BY <1>5, <2>6, <2>7, <2>8, SameLogs
  <2>10. Patched(L, R, L)
    BY <1>5 DEF Patched, Agree
  <2> QED
    BY <1>5, <1>8, <2>2, <2>9, <2>10 DEF L, R
<1>10. CASE ~(i <= Len(L) /\ L[i].term = P[i].term)
  <2>1. M = P
    BY <1>7, <1>10
  <2>2. Agree(P, R, i)
    BY <1>3, <1>6 DEF Agree
  <2>3. ASSUME NEW j \in 1 .. Len(P)
        PROVE  Agree(P, R, j)
    BY <1>5, <2>2, AgreeLower
  <2>4. ASSUME NEW j \in 0 .. Len(L), Agree(L, R, j)
        PROVE  Agree(P, R, j)
    <3>1. CASE j <= i
      <4>1. j \in 0 .. i
        BY <1>5, <3>1
      <4> QED
        BY <1>3, <1>5, <2>2, <4>1, AgreeLower
    <3>2. CASE ~(j <= i)
      <4>1. i \in 1 .. j /\ i <= Len(L)
        BY <1>3, <1>5, <3>2
      <4>2. L[i] = R[i]
        BY <2>4, <4>1 DEF Agree
      <4>3. R[i] = P[i]
        BY <1>3, <1>6
      <4> QED
        BY <1>10, <4>1, <4>2, <4>3
    <3> QED
      BY <3>1, <3>2
  <2>5. Patched(L, R, P)
    BY <2>3, <2>4 DEF Patched
  <2> QED
    BY <2>1, <2>2, <2>5 DEF L, R
<1> QED
  BY <1>9, <1>10

\* n is k with the snapshot of m.
Installed(k, m, n) ==
  /\ n \in Node /\ UsualNode(n) /\ n.log = InstallSnapshotLog(k, m.prefix)
  /\ n.snap = Len(m.prefix) /\ n.applied = Len(m.prefix) /\ n.commit = Len(m.prefix)
  /\ n.role = k.role /\ n.term = k.term /\ n.match = k.match /\ n.incarnation = k.incarnation
  /\ InForce(n)

LEMMA InstalledFacts ==
  ASSUME NEW k \in Node, UsualNode(k), NEW s \in Server, NEW m \in Message,
         m.type = "snapshotRequest", Usually(m.conf), NEW M, M = InstallSnapshotLog(k, m.prefix),
         UsualLog(M), NEW n, n = InstallSnapshot(k, s, m)
  PROVE  Installed(k, m, n)
<1>1. PICK i : i = Len(m.prefix)
  OBVIOUS
<1>2. PICK ep : ep = IF m.epoch = 0 THEN i ELSE m.epoch
  OBVIOUS
<1>3. PICK fm : fm = Ids(m.conf.next)
  OBVIOUS
<1>4. PICK ff : ff = IF IsJointConsensus(m.conf) THEN i ELSE 0
  OBVIOUS
<1>5. PICK gone : gone = ~Contains(m.conf, s)
  OBVIOUS
<1>6. k.admission = NoAdmission /\ k.joiningFrom = Nil
  BY DEF UsualNode
<1>7. PICK adm : adm = IF Contains(m.conf, s) THEN NoAdmission ELSE k.admission
  OBVIOUS
<1>8. PICK jf : jf = IF Contains(m.conf, s) THEN Nil ELSE k.joiningFrom
  OBVIOUS
<1>9. n = [k EXCEPT !.log = M, !.snap = i, !.commit = i, !.applied = i,
                    !.base = m.conf, !.snapEpoch = m.epoch,
                    !.conf = m.conf, !.epoch = ep, !.decommissioned = gone,
                    !.admission = adm, !.joiningFrom = jf,
                    !.finMembers = fm, !.finFence = ff, !.finPending = FALSE]
  BY <1>1, <1>2, <1>3, <1>4, <1>5, <1>7, <1>8 DEF InstallSnapshot
<1>10. n \in Node
  BY InstallSnapshotKeeps
<1>11. /\ n.log = M /\ n.snap = i /\ n.applied = i /\ n.commit = i
       /\ n.role = k.role /\ n.term = k.term /\ n.match = k.match
       /\ n.incarnation = k.incarnation
       /\ n.conf = m.conf /\ n.base = m.conf /\ n.joiners = k.joiners
       /\ n.admission = adm /\ n.joiningFrom = jf
  BY <1>9, ZenonT(60) DEF Node
<1>12. adm = NoAdmission /\ jf = Nil
  BY <1>6, <1>7, <1>8
<1>13. UsualNode(n)
  BY <1>11, <1>12 DEF UsualNode
<1>14. InForce(n)
  <2>1. i \in Nat /\ i <= n.snap
    BY <1>10, <1>11, NodeFields
  <2>2. ConfigurationAt(n, i) = n.base
    BY <1>10, <1>13, <2>1, BaseConfiguration
  <2> QED
    BY <1>11, <2>2 DEF InForce
<1> QED
  BY <1>1, <1>10, <1>11, <1>13, <1>14 DEF Installed

\* The leadership behind a snapshot, and what it says.
LEMMA SnapshotFacts ==
  ASSUME Before, NEW m \in msgs, m.type = "snapshotRequest"
  PROVE  /\ m \in Message /\ m.prefix \in Seq(Entry) /\ UsualLog(m.prefix) /\ Usually(m.conf)
         /\ \E e \in elections :
              /\ e.term = m.term /\ e.leader = m.from /\ m.prefix # <<>> /\ Has(e.log, m.prefix)
              /\ Settled(node, votes, elections, e.log, Len(m.prefix), m.term)
<1>1. m \in Message /\ MessageKept(m) /\ UsualMessage(m)
  BY Types DEF Before, SafetyInvariant, Usual
<1>2. m.prefix \in Seq(Entry)
  BY <1>1, MessageFields
<1>3. UsualLog(m.prefix) /\ Usually(m.conf)
  BY <1>1 DEF UsualMessage
<1>4. \E e \in elections :
        /\ e.term = m.term /\ e.leader = m.from /\ m.prefix # <<>> /\ Has(e.log, m.prefix)
        /\ Settled(node, votes, elections, e.log, Len(m.prefix), m.term)
  BY <1>1 DEF MessageKept
<1> QED
  BY <1>1, <1>2, <1>3, <1>4

\* A snapshot ahead of the commit index: what it holds is settled.
LEMMA InstallEffect ==
  ASSUME Before, NEW m \in msgs, m.type = "snapshotRequest", NEW s, s = m.to, NEW o, o = node[s],
         m.term >= o.term, NEW k, Follows(o, m, k), Len(m.prefix) > o.commit,
         NEW n, n = InstallSnapshot(k, s, m),
         Becomes(s, n, {Reply(m, "snapshotResponse", m.term, TRUE, Len(m.prefix))}),
         votes' = votes, reads' = reads
  PROVE  \E q, ms : Effect(s, q, ms)
<1>1. /\ m \in Message /\ s \in Server /\ m.term \in Nat
      /\ m.prefix \in Seq(Entry) /\ UsualLog(m.prefix) /\ Usually(m.conf)
  BY SnapshotFacts, MessageFields
<1>2. PICK e \in elections :
        /\ e.term = m.term /\ e.leader = m.from /\ m.prefix # <<>> /\ Has(e.log, m.prefix)
        /\ Settled(node, votes, elections, e.log, Len(m.prefix), m.term)
  BY SnapshotFacts
<1>3. e.log \in Seq(Entry)
  BY Leaderships, ElectionFields
<1>4. /\ k \in Node /\ UsualNode(k) /\ k.log = o.log /\ k.snap = o.snap /\ k.role = "follower"
      /\ k.term = m.term /\ k.match = o.match /\ k.incarnation = o.incarnation
  BY DEF Follows
<1>5. PICK M : M = InstallSnapshotLog(k, m.prefix)
  OBVIOUS
<1>6. /\ M \in Seq(Entry) /\ UsualLog(M)
      /\ Patched(o.log, e.log, M) /\ Agree(M, e.log, Len(m.prefix))
  BY <1>1, <1>2, <1>4, <1>5, InstalledLog
<1>7. Installed(k, m, n)
  BY <1>1, <1>4, <1>5, <1>6, InstalledFacts
<1>8. o.match[s] = 0 /\ o.commit \in Nat /\ o.term \in Nat
  BY <1>1, NodeBefore
<1> DEFINE i == Len(m.prefix)
<1>9. i \in Nat /\ i \in 0 .. i /\ i > o.commit
  BY <1>1
<1>10. /\ Agree(M, e.log, i) /\ Settled(node, votes, elections, e.log, i, m.term)
       /\ Becomes(s, n, {Reply(m, "snapshotResponse", m.term, TRUE, i)})
  BY <1>2, <1>6
<1>11. /\ n \in Node /\ UsualNode(n) /\ n.log = M /\ n.snap = i /\ n.applied = i /\ n.commit = i
       /\ n.role = "follower" /\ n.term = e.term /\ n.term = m.term /\ n.match[s] = 0
       /\ n.incarnation = o.incarnation /\ InForce(n)
  BY <1>2, <1>4, <1>5, <1>7, <1>8 DEF Installed
<1> HIDE DEF i
<1>12. Settled(node, votes, elections, M, i, m.term)
  <2>1. m.term <= m.term
    BY <1>1
  <2> QED
    BY <1>1, <1>3, <1>6, <1>9, <1>10, <2>1, SettledLower
<1>13. i <= Len(M)
  BY <1>10 DEF Agree
<1> DEFINE r == Reply(m, "snapshotResponse", m.term, TRUE, i)
<1>14. r \in Message /\ UsualMessage(r) /\ Sends(s, n, r)
  <2>1. "snapshotResponse" \in {"appendResponse", "snapshotResponse"} /\ Agree(n.log, e.log, i)
    BY <1>10, <1>11
  <2> QED
    BY <1>1, <1>2, <1>9, <1>11, <2>1, AckSent
<1>15. Becomes(s, n, {r})
  BY <1>10
<1> HIDE DEF r
<1>16. \A q \in {r} : q \in Message /\ UsualMessage(q) /\ Sends(s, n, q)
  BY <1>14
<1>17. /\ n.snap <= n.applied /\ n.applied <= n.commit
       /\ n.commit <= Len(n.log) /\ Settled(node, votes, elections, n.log, n.commit, n.term)
       /\ n.incarnation = o.incarnation => n.commit >= o.commit
       /\ e.term >= o.term /\ Patched(o.log, e.log, n.log)
  BY <1>2, <1>6, <1>8, <1>9, <1>11, <1>12, <1>13
<1>18. Effect(s, n, {r})
  BY <1>1, <1>11, <1>15, <1>16, <1>17, FollowEffect
<1> QED
  BY <1>18

\* handle_install_snapshot
LEMMA HandleInstallSnapshotEffect ==
  ASSUME Before, NEW m \in msgs, HandleInstallSnapshot(m)
  PROVE  \E s, n, ms : Effect(s, n, ms)
<1>1. PICK s : s = m.to
  OBVIOUS
<1>2. PICK o : o = node[s]
  OBVIOUS
<1>3. PICK k : k = AcceptLeader(o, m)
  OBVIOUS
<1> DEFINE i == Len(m.prefix)
<1>4. /\ m.type = "snapshotRequest" /\ votes' = votes /\ reads' = reads
      /\ \/ /\ m.term < o.term \/ RefusesLeader(o, s, m)
            /\ Becomes(s, o, {Reply(m, "snapshotResponse", o.term, FALSE, i)})
         \/ /\ m.term >= o.term /\ ~RefusesLeader(o, s, m)
            /\ Becomes(s, IF i <= k.commit THEN k ELSE InstallSnapshot(k, s, m),
                       {Reply(m, "snapshotResponse", k.term, TRUE, i)})
  BY <1>1, <1>2, <1>3 DEF HandleInstallSnapshot
<1>5. m \in Message /\ s \in Server /\ m.term \in Nat /\ i \in Nat
  BY <1>1, <1>4, SnapshotFacts, MessageFields
<1>6. /\ o \in Node /\ UsualNode(o) /\ o.term \in Nat
      /\ o.commit \in Nat /\ o.log \in Seq(Entry)
  BY <1>2, <1>5, NodeBefore
<1>7. "snapshotResponse" \in {"appendResponse", "snapshotResponse"}
  OBVIOUS
<1>8. CASE Becomes(s, o, {Reply(m, "snapshotResponse", o.term, FALSE, i)})
  <2> HIDE DEF i
  <2>1. Becomes(s, node[s], {Reply(m, "snapshotResponse", node[s].term, FALSE, i)})
    BY <1>2, <1>8
  <2>2. \E n, ms : Effect(s, n, ms)
    BY <1>1, <1>4, <1>5, <1>7, <2>1, RefusalEffect
  <2> QED
    BY <2>2
<1>9. CASE /\ m.term >= o.term
           /\ Becomes(s, IF i <= k.commit THEN k ELSE InstallSnapshot(k, s, m),
                      {Reply(m, "snapshotResponse", k.term, TRUE, i)})
  <2>1. Follows(o, m, k)
    BY <1>3, <1>5, <1>6, <1>9, AcceptLeaderFacts
  <2>2. k.term = m.term /\ k.log = o.log /\ k.commit = o.commit
    BY <2>1 DEF Follows
  <2>3. CASE i <= o.commit
    <3> DEFINE r == Reply(m, "snapshotResponse", m.term, TRUE, i)
    <3>1. PICK e \in elections : e.term = m.term /\ e.leader = m.from
      BY <1>4, SnapshotFacts
    <3>2. i \in 0 .. o.commit
      BY <1>5, <1>6, <2>3
    <3> HIDE DEF i
    <3>3. Agree(o.log, e.log, i)
      BY <1>2, <1>5, <1>9, <3>1, <3>2, CommittedAgree
    <3>4. Agree(k.log, e.log, i)
      BY <2>2, <3>3
    <3>5. r \in Message /\ UsualMessage(r) /\ Sends(s, k, r)
      BY <1>1, <1>5, <1>7, <2>2, <3>1, <3>4, AckSent
    <3>6. Becomes(s, k, {r})
      BY <1>9, <2>2, <2>3
    <3> HIDE DEF r
    <3>7. \A q \in {r} : q \in Message /\ UsualMessage(q) /\ Sends(s, k, q)
      BY <3>5
    <3>8. Effect(s, k, {r})
      BY <1>2, <1>4, <1>5, <1>9, <2>1, <3>6, <3>7, FollowReply
    <3> QED
      BY <3>8
  <2>4. CASE ~(i <= o.commit)
    <3>1. PICK n : n = InstallSnapshot(k, s, m)
      OBVIOUS
    <3>2. Becomes(s, n, {Reply(m, "snapshotResponse", m.term, TRUE, i)})
      BY <1>9, <2>2, <2>4, <3>1
    <3>3. Len(m.prefix) > o.commit
      BY <1>5, <1>6, <2>4
    <3>4. \E q, ms : Effect(s, q, ms)
      BY <1>1, <1>2, <1>4, <1>9, <2>1, <3>1, <3>2, <3>3, InstallEffect
    <3> QED
      BY <3>4
  <2> QED
    BY <2>3, <2>4
<1> QED
  BY <1>4, <1>8, <1>9

\* A crash between the truncation of a conflicting suffix and the append: the
\* log is cut where it stops agreeing with the leadership.
LEMMA CrashAfterTruncateEffect ==
  ASSUME Before, NEW m \in msgs, CrashAfterTruncate(m)
  PROVE  \E s, n, ms : Effect(s, n, ms)
<1>1. PICK s : s = m.to
  OBVIOUS
<1>2. PICK o : o = node[s]
  OBVIOUS
<1>3. PICK k : k = AcceptLeader(o, m)
  OBVIOUS
<1>4. PICK prev : prev = m.prev + Overlap(k, m)
  OBVIOUS
<1>5. PICK E : E = SubSeq(m.entries, Overlap(k, m) + 1, Len(m.entries))
  OBVIOUS
<1>6. PICK d : d = FirstDifference(k, prev, E)
  OBVIOUS
<1>7. /\ m.type = "appendRequest" /\ m.term >= o.term
      /\ Len(m.entries) >= Overlap(k, m) /\ ~LogMismatch(k, m)
      /\ d > 0 /\ prev + d <= LastIndex(k)
      /\ CrashInto(s, [k EXCEPT !.log = Prefix(k.log, prev + d - 1)])
  BY <1>1, <1>2, <1>3, <1>4, <1>5, <1>6 DEF CrashAfterTruncate
<1>8. m \in Message /\ s \in Server /\ m.term \in Nat
  BY <1>1, Types, MessageFields
<1>9. /\ o \in Node /\ UsualNode(o) /\ o.log \in Seq(Entry) /\ Len(o.log) \in Nat
      /\ Inherited(elections, o.log) /\ o.snap \in Nat /\ o.applied \in Nat /\ o.commit \in Nat
      /\ o.snap <= o.applied /\ o.applied <= o.commit /\ o.term \in Nat
  BY <1>2, <1>8, NodeBefore
<1>10. Follows(o, m, k)
  BY <1>3, <1>7, <1>8, <1>9, AcceptLeaderFacts
<1>11. PICK e \in elections : Requests(m, e)
  BY <1>7, RequestFacts
<1>12. Cut(e, o, m, prev, E)
  <2>1. Cut(e, o, m, m.prev + Overlap(k, m), SubSeq(m.entries, Overlap(k, m) + 1, Len(m.entries)))
    BY <1>2, <1>7, <1>8, <1>10, <1>11, CutFacts
  <2> QED
    BY <1>4, <1>5, <2>1
<1>13. /\ k \in Node /\ UsualNode(k) /\ k.log = o.log /\ k.snap = o.snap /\ k.term = m.term
       /\ k.incarnation = o.incarnation
  BY <1>10 DEF Follows
<1>14. /\ e.log \in Seq(Entry) /\ Len(e.log) \in Nat /\ Inherited(elections, e.log)
       /\ e.term = m.term
  BY <1>11, Leaderships, ElectionFields DEF Requests
<1>15. /\ prev \in Nat /\ prev >= k.snap /\ E \in Seq(Entry) /\ prev + Len(E) <= Len(e.log)
       /\ Agree(k.log, e.log, prev) /\ \A i \in 1 .. Len(E) : E[i] = e.log[prev + i]
  BY <1>12, <1>13 DEF Cut, Piece
<1>16. /\ d \in 1 .. Len(E) /\ Agree(k.log, e.log, prev + d - 1)
       /\ \A i \in Nat : Agree(k.log, e.log, i) => i <= prev + d - 1
  <2> DEFINE R == e.log
  <2>1. /\ R \in Seq(Entry) /\ Inherited(elections, R) /\ Inherited(elections, k.log)
        /\ prev + Len(E) <= Len(R) /\ Agree(k.log, R, prev)
        /\ \A i \in 1 .. Len(E) : E[i] = R[prev + i]
    BY <1>9, <1>13, <1>14, <1>15
  <2>2. k \in Node /\ prev \in Nat /\ prev >= k.snap /\ E \in Seq(Entry)
    BY <1>13, <1>15
  <2> HIDE DEF R
  <2>3. d # 0 => /\ d \in 1 .. Len(E) /\ Agree(k.log, R, prev + d - 1)
                 /\ \A i \in Nat : Agree(k.log, R, i) => i <= prev + d - 1
    BY <1>6, <2>1, <2>2, DifferenceFacts
  <2>4. d # 0
    BY <1>7
  <2> QED
    BY <2>3, <2>4 DEF R
<1>17. PICK c : c = prev + d - 1
  OBVIOUS
<1>18. c \in Nat /\ c <= Len(o.log)
  <2>1. Len(E) \in Nat
    BY <1>15
  <2>2. d \in 1 .. Len(E)
    BY <1>16
  <2>3. d \in Nat /\ d > 0
    BY <2>1, <2>2
  <2>4. prev + d <= Len(o.log) /\ prev \in Nat
    BY <1>7, <1>13, <1>15 DEF LastIndex
  <2> QED
    BY <1>9, <1>17, <2>3, <2>4
<1>19. Agree(o.log, e.log, c) /\ \A i \in Nat : Agree(o.log, e.log, i) => i <= c
  BY <1>13, <1>16, <1>17
<1> DEFINE M == Prefix(o.log, c)
<1>20. M \in Seq(Entry) /\ Len(M) = c /\ \A j \in 1 .. c : M[j] = o.log[j]
  <2>1. c \in 0 .. Len(o.log)
    BY <1>9, <1>18
  <2> QED
    BY <1>9, <2>1, PrefixFacts
<1> HIDE DEF M
<1>21. Agree(M, e.log, c)
  BY <1>18, <1>19, <1>20 DEF Agree
<1>22. Patched(o.log, e.log, M)
  <2>1. ASSUME NEW i \in 1 .. Len(M)
        PROVE  Agree(M, e.log, i)
    BY <1>14, <1>18, <1>20, <1>21, AgreeLower
  <2>2. ASSUME NEW i \in 0 .. Len(o.log), Agree(o.log, e.log, i)
        PROVE  Agree(M, e.log, i)
    <3>1. i \in Nat /\ i <= c
      BY <1>9, <1>19, <2>2
    <3>2. i \in 0 .. c
      BY <1>18, <3>1
    <3> QED
      BY <1>14, <1>18, <1>20, <1>21, <3>2, AgreeLower
  <2> QED
    BY <2>1, <2>2 DEF Patched
<1>23. UsualLog(M)
  <2>1. UsualLog(o.log)
    BY <1>9 DEF UsualNode
  <2>2. ASSUME NEW i \in 1 .. Len(M)
        PROVE  M[i] = o.log[i] /\ i \in 1 .. Len(o.log)
    BY <1>9, <1>18, <1>20
  <2> QED
    BY <2>1, <2>2 DEF UsualLog
<1> DEFINE w == WithLog(k, M, k.commit)
<1>24. [k EXCEPT !.log = Prefix(k.log, prev + d - 1)] = w
  BY <1>13, <1>17 DEF WithLog, M, Node
<1>25. Appended(k, M, k.commit, w)
  <2>1. k.commit \in Nat
    BY <1>13, NodeFields
  <2> QED
    BY <1>13, <1>20, <1>23, <2>1, AppendedFacts
<1>26. CrashInto(s, w)
  BY <1>7, <1>24
<1> HIDE DEF w
<1>27. /\ w \in Node /\ UsualNode(w) /\ w.log = M /\ w.snap = o.snap /\ w.term = m.term
       /\ w.incarnation = o.incarnation
  BY <1>13, <1>25 DEF Appended
<1>28. PICK r : r = Restart(w, s)
  OBVIOUS
<1>29. /\ r \in Node /\ UsualNode(r) /\ r.term = m.term /\ r.log = M /\ r.snap = o.snap
       /\ r.applied = o.snap /\ r.commit = o.snap /\ r.match = Zero /\ r.role = "follower"
       /\ r.incarnation = o.incarnation + 1 /\ InForce(r)
  <2>1. OneRemovable
    BY DEF Before
  <2>2. /\ r \in Node /\ UsualNode(r) /\ r.term = w.term /\ r.log = w.log /\ r.snap = w.snap
        /\ r.applied = w.snap /\ r.commit = w.snap /\ r.match = Zero /\ r.role = "follower"
        /\ r.incarnation = w.incarnation + 1 /\ InForce(r)
    BY <1>8, <1>27, <1>28, <2>1, RestartFacts
  <2> QED
    BY <1>27, <2>2
<1>30. Becomes(s, r, {}) /\ votes' = votes /\ reads' = reads
  BY <1>26, <1>28 DEF CrashInto
<1>31. /\ r.snap <= r.applied /\ r.applied <= r.commit /\ r.commit <= o.commit
       /\ r.incarnation # o.incarnation /\ r.match[s] = 0 /\ r.term = e.term
       /\ e.term >= o.term /\ Patched(o.log, e.log, r.log)
  <2>1. o.incarnation \in Nat
    BY <1>9 DEF Node
  <2> QED
    BY <1>7, <1>8, <1>9, <1>14, <1>22, <1>29, <2>1 DEF Zero
<1>32. Effect(s, r, {})
  BY <1>2, <1>8, <1>29, <1>30, <1>31, FollowEffect
<1> QED
  BY <1>32

-----------------------------------------------------------------------------
(* The steps together.                                                     *)

\* Nobody is admitted when all servers are launched with one configuration.
LEMMA NobodyJoins ==
  ASSUME Before
  PROVE  /\ \A s \in Server : ~CrashAdmitting(s)
         /\ \A s \in Server : Reconfigure(s) => \E p \in Removable : RemoveServer(s, p)
         /\ \A m \in msgs : ~CrashInstalling(m)
<1>1. Joiners = {}
  BY DEF Before, OneRemovable, Joiners
<1>2. ASSUME NEW s \in Server, CrashAdmitting(s)
      PROVE  FALSE
  <2>1. PICK o : o = node[s]
    OBVIOUS
  <2>2. PICK i : i = o.applied + 1
    OBVIOUS
  <2>3. PICK n : n = ChangeConfiguration(o, s, i)
    OBVIOUS
  <2>4. /\ i > o.snap /\ i <= Len(o.log) /\ o.log[i].kind \in {"joint", "finalize"}
        /\ Joining(n)
    BY <1>2, <2>1, <2>2, <2>3 DEF CrashAdmitting, LastIndex
  <2>5. /\ o \in Node /\ UsualNode(o) /\ InForce(o) /\ o.applied \in Nat /\ o.snap \in Nat
        /\ Len(o.log) \in Nat
    BY <2>1, NodeBefore
  <2>6. i \in o.snap + 1 .. Len(o.log)
    BY <2>2, <2>4, <2>5
  <2>7. UsualNode(n)
    BY <2>2, <2>3, <2>4, <2>5, <2>6, ChangeFacts
  <2> QED
    BY <2>4, <2>7 DEF UsualNode, Joining
<1>3. ASSUME NEW s \in Server, Reconfigure(s)
      PROVE  \E p \in Removable : RemoveServer(s, p)
  BY <1>1, <1>3 DEF Reconfigure
<1>4. ASSUME NEW m \in msgs, CrashInstalling(m)
      PROVE  FALSE
  <2>1. PICK s : s = m.to
    OBVIOUS
  <2>2. PICK k : k = AcceptLeader(node[s], m)
    OBVIOUS
  <2>3. m.term >= node[s].term /\ Joining(k)
    BY <1>4, <2>1, <2>2 DEF CrashInstalling
  <2>4. m \in Message /\ s \in Server
    BY <2>1, Types, MessageFields
  <2>5. node[s] \in Node /\ UsualNode(node[s])
    BY <2>4, NodeBefore
  <2>6. Follows(node[s], m, k)
    BY <2>2, <2>3, <2>4, <2>5, AcceptLeaderFacts
  <2> QED
    BY <2>3, <2>6 DEF Follows, UsualNode, Joining
<1> QED
  BY <1>2, <1>3, <1>4

\* Every step of the specification is a step of one server as above.
LEMMA NextEffect ==
  ASSUME Before, Next
  PROVE  \E s, n, ms : Effect(s, n, ms)
<1>1. ASSUME NEW s \in Server, Apply(s)
      PROVE  \E n, ms : Effect(s, n, ms)
  BY <1>1, ApplyEffect
<1>2. ASSUME NEW s \in Server, Crash(s)
      PROVE  \E n, ms : Effect(s, n, ms)
  BY <1>2, CrashEffect
<1>3. ASSUME NEW s \in Server, BroadcastHeartbeat(s)
      PROVE  \E n, ms : Effect(s, n, ms)
  BY <1>3, BroadcastHeartbeatEffect
<1>4. ASSUME NEW m \in msgs, Receive(m)
      PROVE  \E s, n, ms : Effect(s, n, ms)
  BY <1>4, HandleVoteRequestEffect, HandleVoteResponseEffect, HandleAppendEntriesEffect,
     HandleAppendEntriesResponseEffect, HandleInstallSnapshotEffect,
     HandleInstallSnapshotResponseEffect DEF Receive
<1>5. ASSUME NEW m \in msgs, CrashAfterTruncate(m)
      PROVE  \E s, n, ms : Effect(s, n, ms)
  BY <1>5, CrashAfterTruncateEffect
<1>6. ASSUME NEW s \in Server, Call(s)
      PROVE  \E n, ms : Effect(s, n, ms)
  BY <1>6, StartElectionEffect, ClientCommandEffect, BeginReadEffect, CrashAfterTermEffect DEF Call
<1>7. ASSUME NEW s \in Server, Reconfigure(s)
      PROVE  \E n, ms : Effect(s, n, ms)
  BY <1>7, NobodyJoins, RemoveServerEffect
<1> QED
  BY <1>1, <1>2, <1>3, <1>4, <1>5, <1>6, <1>7, NobodyJoins DEF Next

\* The initial states.
LEMMA InitSafety ==
  ASSUME OneRemovable, TypeOK, Init
  PROVE  SafetyInvariant
<1>1. \A s \in Server : Launch(s) = Launched
  BY DEF OneRemovable, Launch, Launched, Everyone
<1>2. /\ \A s \in Server : node[s] = InitNode(s)
      /\ msgs = {} /\ votes = {} /\ elections = {} /\ committed = <<>> /\ reads = {}
  BY DEF Init
<1>3. ASSUME NEW s \in Server
      PROVE  UsualNode(node[s]) /\ NodeKept(s)
  <2>1. /\ node[s].conf = Launched /\ node[s].base = Launched /\ node[s].joiners = Zero
        /\ node[s].admission = NoAdmission /\ node[s].joiningFrom = Nil /\ node[s].log = <<>>
        /\ node[s].snap = 0 /\ node[s].applied = 0 /\ node[s].commit = 0
        /\ node[s].role = "follower" /\ node[s].match = Zero
    <3> DEFINE n == InitNode(s)
    <3>1. n.conf = Launch(s) /\ n.base = Launch(s) /\ n.joiners = Zero
      BY DEF InitNode
    <3>2. n.admission = NoAdmission /\ n.joiningFrom = Nil /\ n.log = <<>>
      BY DEF InitNode
    <3>3. n.snap = 0 /\ n.applied = 0 /\ n.commit = 0 /\ n.role = "follower" /\ n.match = Zero
      BY DEF InitNode
    <3> HIDE DEF n
    <3>4. node[s] = n
      BY <1>2 DEF n
    <3> QED
      BY <1>1, <3>1, <3>2, <3>3, <3>4
  <2>2. UsualNode(node[s])
    <3>1. Usually(Launched)
      BY DEF Usually, Launched, Stable
    <3> QED
      BY <2>1, <3>1 DEF UsualNode, UsualLog
  <2>3. TermsUpTo(node[s].log, node[s].term) /\ Inherited(elections, node[s].log)
    BY <2>1 DEF TermsUpTo, Inherited
  <2>4. Settled(node, votes, elections, node[s].log, node[s].commit, node[s].term)
    BY <2>1 DEF Settled
  <2>5. node[s].commit <= Len(committed) /\ node[s].match[s] = 0
    BY <1>2, <2>1 DEF Zero
  <2>6. InForce(node[s])
    <3>1. PICK n : n = node[s]
      OBVIOUS
    <3>2. n \in Node /\ UsualNode(n) /\ n.conf = n.base /\ n.applied = 0 /\ n.snap = 0
      BY <2>1, <2>2, <3>1, Types DEF TypeOK
    <3>3. ConfigurationAt(n, 0) = n.base
      BY <3>2, BaseConfiguration
    <3> QED
      BY <3>1, <3>2, <3>3 DEF InForce
  <2>7. NodeKept(s)
    BY <2>1, <2>3, <2>4, <2>5, <2>6 DEF NodeKept
  <2> QED
    BY <2>2, <2>7
<1>4. Usual
  BY <1>2, <1>3 DEF Usual
<1>5. LeadershipsKept /\ VotesKept
  BY <1>2 DEF LeadershipsKept, VotesKept
<1>6. CommittedKept
  <2>1. Len(committed) = 0 /\ 0 \in Nat
    BY <1>2
  <2> QED
    BY <2>1 DEF CommittedKept, Settled
<1> QED
  BY <1>2, <1>3, <1>4, <1>5, <1>6 DEF SafetyInvariant

LEMMA SafetyStutters ==
  ASSUME SafetyInvariant, UNCHANGED vars
  PROVE  SafetyInvariant'
<1>1. /\ node' = node /\ msgs' = msgs /\ votes' = votes /\ elections' = elections
      /\ committed' = committed /\ reads' = reads
  BY DEF vars
<1>2. Usual'
  BY <1>1 DEF SafetyInvariant, Usual
<1>3. LeadershipsKept' /\ VotesKept'
  BY <1>1 DEF SafetyInvariant, LeadershipsKept, VotesKept, Voted
<1>4. \A s \in Server : NodeKept(s)'
  BY <1>1 DEF SafetyInvariant, NodeKept, Voted
<1>5. ASSUME NEW m \in msgs
      PROVE  MessageKept(m)'
  <2>1. MessageKept(m)
    BY DEF SafetyInvariant
  <2> QED
    BY <1>1, <2>1 DEF MessageKept
<1>6. CommittedKept'
  BY <1>1 DEF SafetyInvariant, CommittedKept
<1>7. \A r \in reads : ReadKept(r)'
  BY <1>1 DEF SafetyInvariant, ReadKept
<1> QED
  BY <1>1, <1>2, <1>3, <1>4, <1>5, <1>6, <1>7 DEF SafetyInvariant

-----------------------------------------------------------------------------
(* The theorems.                                                           *)

\* What every log, leadership, message, read and commit index is made of, in
\* every behaviour of node.rs in which nobody joins and at most one server is
\* removed: the invariant above.
THEOREM SafetyInvariantHolds ==
  ASSUME OneRemovable
  PROVE  Spec => []SafetyInvariant
<1>1. TypeOK /\ Init => SafetyInvariant
  BY InitSafety
<1>2. /\ TypeOK /\ TypeOK' /\ BallotInvariant /\ VoteOnce /\ SafetyInvariant /\ [Next]_vars
      => SafetyInvariant'
  <2> SUFFICES ASSUME TypeOK, TypeOK', BallotInvariant, VoteOnce, SafetyInvariant, [Next]_vars
               PROVE  SafetyInvariant'
    OBVIOUS
  <2>1. Before
    BY DEF Before
  <2>2. CASE Next
    <3>1. PICK s, n, ms : Effect(s, n, ms)
      BY <2>1, <2>2, NextEffect
    <3> QED
      BY <2>1, <3>1, EffectKeeps
  <2>3. CASE UNCHANGED vars
    BY <2>3, SafetyStutters
  <2> QED
    BY <2>2, <2>3
<1> QED
  BY <1>1, <1>2, TypeCorrect, BallotsInOrder, PTL DEF Spec

\* All that the theorems below rest on.
LEMMA BeforeHolds ==
  ASSUME OneRemovable
  PROVE  Spec => []Before
<1>1. TypeOK /\ BallotInvariant /\ VoteOnce /\ SafetyInvariant => Before
  BY DEF Before
<1> QED
  BY <1>1, SafetyInvariantHolds, TypeCorrect, BallotsInOrder, PTL

\* become_leader happens for at most one server in a term, also while the JOINT
\* and FINALIZE entries of a removal are appended, truncated and applied.
THEOREM OneLeaderPerTerm ==
  ASSUME OneRemovable
  PROVE  Spec => []ElectionSafety
<1>1. Before => ElectionSafety
  BY Leaderships DEF ElectionSafety
<1> QED
  BY <1>1, BeforeHolds, PTL

\* Logs that agree up to an index have the same entries so far.
LEMMA AgreeSubSeq ==
  ASSUME NEW L \in Seq(Entry), NEW M \in Seq(Entry), NEW i \in Nat, Agree(L, M, i)
  PROVE  SubSeq(L, 1, i) = SubSeq(M, 1, i)
<1>1. Prefix(L, i) = Prefix(M, i)
  BY AgreePrefix
<1>2. i <= Len(L) /\ i <= Len(M)
  BY DEF Agree
<1> QED
  BY <1>1, <1>2 DEF Prefix

\* Two logs that hold an entry of the same index and term agree up to it: the
\* consistency check of handle_append_entries does what it is for.
THEOREM LogsMatchUpToSameTerm ==
  ASSUME OneRemovable
  PROVE  Spec => []LogMatching
<1>1. Before => LogMatching
  <2> SUFFICES ASSUME Before, NEW s \in Server, NEW t \in Server,
                      NEW i \in 1 .. LastIndex(node[s]), i <= LastIndex(node[t]),
                      node[s].log[i].term = node[t].log[i].term
               PROVE  SubSeq(node[s].log, 1, i) = SubSeq(node[t].log, 1, i)
    BY DEF LogMatching
  <2> DEFINE L == node[s].log
             M == node[t].log
  <2>1. /\ L \in Seq(Entry) /\ M \in Seq(Entry) /\ Len(L) \in Nat /\ Len(M) \in Nat
        /\ Inherited(elections, L) /\ Inherited(elections, M)
    BY NodeBefore
  <2>2. i \in 1 .. Len(L) /\ i <= Len(M) /\ L[i].term = M[i].term
    BY DEF LastIndex
  <2> HIDE DEF L, M
  <2>3. i \in Nat /\ 0 < i /\ i <= Len(L)
    BY <2>1, <2>2
  <2>4. Agree(L, M, i)
    BY <2>1, <2>2, <2>3, LogsMatch
  <2>5. SubSeq(L, 1, i) = SubSeq(M, 1, i)
    BY <2>1, <2>3, <2>4, AgreeSubSeq
  <2> QED
    BY <2>5 DEF L, M
<1> QED
  BY <1>1, BeforeHolds, PTL

\* The leader of the latest term has every entry that was ever committed: the
\* log comparison of handle_vote_request against advance_commit_index.
THEOREM LeadersHaveCommitted ==
  ASSUME OneRemovable
  PROVE  Spec => []LeaderCompleteness
<1>1. Before => LeaderCompleteness
  <2> SUFFICES ASSUME Before, NEW s \in Server, node[s].role = "leader",
                      \A e \in elections : e.term <= node[s].term
               PROVE  /\ Len(committed) <= LastIndex(node[s])
                      /\ SubSeq(node[s].log, 1, Len(committed)) = committed
    BY DEF LeaderCompleteness
  <2> DEFINE c == Len(committed)
             L == node[s].log
             u == node[s].term
  <2>1. /\ committed \in Seq(Entry) /\ c \in Nat /\ L \in Seq(Entry) /\ Len(L) \in Nat
        /\ u \in Nat
    BY Types, NodeBefore
  <2>2. \A e \in elections : e.term <= u
    OBVIOUS
  <2>3. PICK t \in Nat : Settled(node, votes, elections, committed, c, t)
    BY DEF Before, SafetyInvariant, CommittedKept
  <2>4. PICK l \in elections : l.term = u /\ l.log = L
    BY LeaderBefore
  <2>5. SubSeq(committed, 1, c) = committed
    BY <2>1, SameLogs
  <2> HIDE DEF c, L, u
  <2>6. Settled(node, votes, elections, committed, c, u)
    BY <2>2, <2>3 DEF Settled
  <2>7. l.term >= u
    BY <2>1, <2>4
  <2>8. Agree(committed, l.log, c) \/ c = 0
    BY <2>1, <2>6, <2>7, SettledSafe
  <2>9. Agree(committed, L, c)
    <3>1. CASE c = 0
      BY <2>1, <3>1 DEF Agree, c
    <3> QED
      BY <2>4, <2>8, <3>1
  <2>10. SubSeq(committed, 1, c) = SubSeq(L, 1, c)
    BY <2>1, <2>9, AgreeSubSeq
  <2>11. c <= Len(L)
    BY <2>9 DEF Agree
  <2> QED
    BY <2>5, <2>10, <2>11 DEF c, L, LastIndex
<1> QED
  BY <1>1, BeforeHolds, PTL

\* What one server has committed no server commits differently: apply_committed
\* runs over the same entries everywhere.
THEOREM CommittedEverywhereAlike ==
  ASSUME OneRemovable
  PROVE  Spec => []StateMachineSafety
<1>1. Before => StateMachineSafety
  <2> SUFFICES ASSUME Before, NEW s \in Server, NEW i \in 1 .. node[s].commit,
                      i <= Len(committed)
               PROVE  node[s].log[i] = committed[i]
    BY DEF StateMachineSafety
  <2> DEFINE L == node[s].log
             k == node[s].commit
             u == node[s].term
             c == Len(committed)
  <2>1. /\ committed \in Seq(Entry) /\ c \in Nat /\ L \in Seq(Entry) /\ k \in Nat /\ u \in Nat
        /\ Settled(node, votes, elections, L, k, u)
    BY Types, NodeBefore
  <2>2. PICK t \in Nat : Settled(node, votes, elections, committed, c, t)
    BY DEF Before, SafetyInvariant, CommittedKept
  <2>3. i \in Nat /\ 0 < i /\ i <= k /\ i <= c
    BY <2>1
  <2> HIDE DEF L, k, u, c
  <2>4. Agree(L, committed, i)
    BY <2>1, <2>2, <2>3, SettledAgree
  <2>5. i \in 1 .. i
    BY <2>3
  <2> QED
    BY <2>4, <2>5 DEF Agree, L
<1> QED
  BY <1>1, BeforeHolds, PTL

\* A leader's match_index of a peer it counts never claims more than the log of
\* that peer in its term holds, whatever was lost, repeated, delayed or crashed
\* in between.
LEMMA MatchOfPeerTrue ==
  ASSUME Before, NEW s \in Server, NEW p \in Server, node[s].role = "leader",
         node[s].match[p] > 0, node[p].term = node[s].term, p \in Peers(node[s])
  PROVE  /\ node[s].match[p] <= LastIndex(node[p])
         /\ SubSeq(node[p].log, 1, node[s].match[p]) = SubSeq(node[s].log, 1, node[s].match[p])
<1>1. PICK o : o = node[s]
  OBVIOUS
<1>2. PICK L : L = o.log
  OBVIOUS
<1>3. PICK M : M = node[p].log
  OBVIOUS
<1>4. PICK i : i = o.match[p]
  OBVIOUS
<1>5. L \in Seq(Entry) /\ M \in Seq(Entry) /\ i \in Nat
  <2>1. o \in Node /\ L \in Seq(Entry) /\ M \in Seq(Entry)
    BY <1>1, <1>2, <1>3, NodeBefore
  <2> QED
    BY <1>4, <2>1, NodeFields
<1>6. PICK f \in elections : f.leader = s /\ f.term = o.term /\ f.log = L
  BY <1>1, <1>2, LeaderBefore
<1>7. ~Outside(o, p)
  BY <1>1 DEF Outside
<1>8. PICK e \in elections : e.term = o.term /\ Acknowledged(node, votes, elections, p, e, i)
  <2>1. Progress(s, o)
    BY <1>1, LeaderBefore
  <2> QED
    BY <1>1, <1>4, <1>7, <2>1 DEF Progress
<1>9. e = f
  BY <1>6, <1>8, Leaderships
<1>10. Agree(M, L, i)
  BY <1>1, <1>3, <1>6, <1>8, <1>9 DEF Acknowledged
<1>11. SubSeq(M, 1, i) = SubSeq(L, 1, i)
  BY <1>5, <1>10, AgreeSubSeq
<1>12. i <= Len(M)
  BY <1>10 DEF Agree
<1> QED
  BY <1>1, <1>2, <1>3, <1>4, <1>11, <1>12 DEF LastIndex

\* Nobody is removed either.
FixedMembership == Founders = Server /\ Removable = {}

\* A leader's match_index never claims more than the log of a peer in its term
\* holds.  Without removals every server is a peer; a server that was removed
\* keeps what an earlier leadership of the leader recorded.
THEOREM MatchIndexNeverLies ==
  ASSUME FixedMembership
  PROVE  Spec => []MatchIndexTruthful
<1>1. OneRemovable
  BY DEF FixedMembership, OneRemovable
<1>2. Before => MatchIndexTruthful
  <2> SUFFICES ASSUME Before, NEW s \in Server, NEW p \in Server, node[s].role = "leader",
                      node[s].match[p] > 0, node[p].term = node[s].term
               PROVE  /\ node[s].match[p] <= LastIndex(node[p])
                      /\ SubSeq(node[p].log, 1, node[s].match[p])
                           = SubSeq(node[s].log, 1, node[s].match[p])
    BY DEF MatchIndexTruthful
  <2>1. PICK o : o = node[s]
    OBVIOUS
  <2>2. o \in Node /\ UsualNode(o) /\ Len(o.log) \in Nat
    BY <2>1, NodeBefore
  <2>3. Usually(ConfigurationAt(o, Len(o.log)))
    BY <2>2, UsualConfiguration
  <2>4. Peers(o) \in {Server, Server \ Removable}
    BY <2>3 DEF Usually, Peers, VotersAt, Everyone, Remaining
  <2>5. p \in Peers(o)
    BY <2>4 DEF FixedMembership
  <2> QED
    BY <2>1, <2>5, MatchOfPeerTrue
<1> QED
  BY <1>1, <1>2, BeforeHolds, PTL

\* A query is answered only from a state with everything the cluster had
\* committed when the read began: begin_read and read_ready against deposed
\* leaders and leaders that have not committed in their term.
THEOREM ReadsLinearizable ==
  ASSUME OneRemovable
  PROVE  Spec => []ReadLinearizable
<1>1. Before => ReadLinearizable
  <2> SUFFICES ASSUME Before, NEW r \in reads, ReadReady(r)
               PROVE  /\ node[r.server].commit >= r.seen
                      /\ SubSeq(node[r.server].log, 1, r.seen) = SubSeq(committed, 1, r.seen)
    BY DEF ReadLinearizable
  <2>1. r \in Read /\ ReadKept(r)
    BY DEF Before, TypeOK, SafetyInvariant
  <2>2. r.server \in Server /\ r.term \in Nat /\ r.index \in Nat /\ r.seen \in Nat
    BY <2>1 DEF Read
  <2>3. PICK s \in Server : s = r.server
    BY <2>2
  <2> DEFINE L == node[s].log
             k == node[s].commit
             u == node[s].term
             c == Len(committed)
  <2>4. node[s].role = "leader" /\ u = r.term /\ k >= r.index
    BY <2>3 DEF ReadReady
  <2>5. /\ committed \in Seq(Entry) /\ c \in Nat /\ L \in Seq(Entry) /\ k \in Nat /\ u \in Nat
        /\ Settled(node, votes, elections, L, k, u) /\ Len(L) \in Nat
    BY Types, NodeBefore
  <2>6. PICK l \in elections : l.term = u /\ l.log = L
    BY <2>4, LeaderBefore
  <2>7. PICK t \in Nat : Settled(node, votes, elections, committed, c, t)
    BY DEF Before, SafetyInvariant, CommittedKept
  <2> HIDE DEF L, k, u
  <2>8. r.seen < r.index /\ r.seen <= c
    <3>1. r.seen <= c
      BY <2>1 DEF ReadKept
    <3>2. ASSUME NEW e \in elections, NEW f \in elections, e.term = r.term, f.term > r.term,
                 r.index <= Len(e.log), ~Agree(f.log, e.log, r.index)
          PROVE  FALSE
      <4>1. e = l
        BY <2>4, <2>6, <3>2, Leaderships
      <4>2. f.log \in Seq(Entry) /\ Len(f.log) \in Nat /\ f.term \in Nat
        BY Leaderships, ElectionFields
      <4>3. f.term >= u
        BY <2>4, <2>5, <3>2, <4>2
      <4>4. Agree(L, f.log, k) \/ k = 0
        BY <2>5, <4>3, SettledSafe
      <4>5. r.index \in 0 .. k
        BY <2>2, <2>4, <2>5
      <4>6. CASE Agree(L, f.log, k)
        <5>1. Agree(f.log, L, r.index)
          BY <2>5, <4>2, <4>5, <4>6, AgreeLower
        <5> QED
          BY <2>6, <3>2, <4>1, <5>1
      <4>7. CASE k = 0
        <5>1. r.index = 0
          BY <4>5, <4>7
        <5>2. Agree(f.log, L, 0)
          BY <2>5, <4>2 DEF Agree
        <5> QED
          BY <2>6, <3>2, <4>1, <5>1, <5>2
      <4> QED
        BY <4>4, <4>6, <4>7
    <3> QED
      BY <2>1, <3>1, <3>2 DEF ReadKept
  <2> HIDE DEF c
  <2>9. r.seen <= k /\ k >= r.seen
    BY <2>2, <2>4, <2>5, <2>8
  <2>10. Agree(L, committed, r.seen)
    <3>1. CASE r.seen = 0
      BY <2>5, <3>1 DEF Agree, c
    <3>2. CASE r.seen # 0
      <4>1. 0 < r.seen
        BY <2>2, <3>2
      <4> QED
        BY <2>2, <2>5, <2>7, <2>8, <2>9, <4>1, SettledAgree
    <3> QED
      BY <3>1, <3>2
  <2>11. SubSeq(L, 1, r.seen) = SubSeq(committed, 1, r.seen)
    BY <2>2, <2>5, <2>10, AgreeSubSeq
  <2> QED
    BY <2>3, <2>9, <2>11 DEF L, k
<1> QED
  BY <1>1, BeforeHolds, PTL

\* No step of a running node changes an entry it has committed: truncation at a
\* conflict, a received snapshot and compaction keep the prefix.
THEOREM CommittedPrefixNeverChanges ==
  ASSUME OneRemovable
  PROVE  Spec => CommittedPrefixStable
<1> DEFINE Keeps(s) ==
      node'[s].incarnation = node[s].incarnation =>
       /\ node'[s].commit >= node[s].commit
       /\ Prefix(node'[s].log, node[s].commit) = Prefix(node[s].log, node[s].commit)
<1>1. Before /\ [Next]_vars => [\A s \in Server : Keeps(s)]_vars
  <2> SUFFICES ASSUME Before, Next, NEW p \in Server
               PROVE  Keeps(p)
    OBVIOUS
  <2>1. PICK s, n, ms : Effect(s, n, ms)
    BY NextEffect
  <2>2. Change(s, n, ms)
    BY <2>1 DEF Effect
  <2>3. /\ node'[s] = n /\ \A q \in Server : q # s => node'[q] = node[q]
        /\ s \in Server /\ n \in Node
    BY <2>2, NodesNext DEF Change
  <2>4. CASE p # s
    <3>1. node'[p] = node[p] /\ node[p].commit \in Nat
      BY <2>3, <2>4, NodeBefore
    <3> QED
      BY <3>1
  <2>5. CASE p = s
    <3>1. Agree(n.log, node[s].log, node[s].commit)
      BY <2>2, CommittedLogKept
    <3>2. n.log \in Seq(Entry) /\ node[s].log \in Seq(Entry) /\ node[s].commit \in Nat
      BY <2>3, NodeFields, NodeBefore
    <3>3. Prefix(n.log, node[s].commit) = Prefix(node[s].log, node[s].commit)
      BY <3>1, <3>2, AgreePrefix
    <3>4. n.incarnation = node[s].incarnation => n.commit >= node[s].commit
      BY <2>1 DEF Effect
    <3> QED
      BY <2>3, <2>5, <3>3, <3>4
  <2> QED
    BY <2>4, <2>5
<1> QED
  BY <1>1, BeforeHolds, PTL DEF Spec, CommittedPrefixStable

=============================================================================
