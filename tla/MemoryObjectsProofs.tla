------------------------ MODULE MemoryObjectsProofs ------------------------
(***************************************************************************)
(* Safety of memory objects and of the roots that map them, for every      *)
(* number of roots, objects and kernel threads, every number of reuses of  *)
(* a slot and every number of refusals by the hardware.                    *)
(*                                                                         *)
(* What carries the argument: the retirement pin of an object has at most  *)
(* one holder, and while nobody pins an object its records, the page       *)
(* tables and the processors agree.  A translation that outlived its       *)
(* record is known to a closing root that leases the root it belongs to,   *)
(* or its root keeps an authority that a lost pin entangles; either way    *)
(* the root is not sealed.                                                 *)
(***************************************************************************)
EXTENDS MemoryObjects, FiniteSetTheorems, TLAPS

-----------------------------------------------------------------------------
(* Types.                                                                  *)

Transfers == {"move", "read", "write"}
OpStages ==
  {"idle", "leased", "both", "over", "close", "map", "flush", "unmap", "revoke", "copy",
   "move", "read", "write"}
CloserStages ==
  {"none", "begun", "fenced", "devices", "memory", "scan", "retain", "detach", "flush", "unpin",
   "peers", "final", "retired", "lost"}

SlotType ==
  [gen : 0 .. MaxGen, live : BOOLEAN, closing : BOOLEAN, retiring : BOOLEAN, leases : Nat]
LoanType == [kind : {"none", "read", "write", "revoking"}, who : SUBSET Roots]
DmaType == [root : Roots, writes : BOOLEAN, exclusive : BOOLEAN]
ObjectType ==
  [state : {"absent", "live", "gone"}, owner : Roots \cup {NoRoot}, caps : [Roots -> Caps],
   maps : SUBSET Mappings, leaves : SUBSET Mappings, reach : SUBSET Mappings, loan : LoanType,
   pins : 0 .. 1, copies : Nat, dma : SUBSET DmaType, doomed : BOOLEAN,
   fence : {"none", "escrow", "set"}, source : Handles \cup {NoHandle}]
OpType ==
  [at : OpStages, root : Handles \cup {NoHandle}, peer : Handles \cup {NoHandle},
   object : Objects \cup {"none"}, mapping : Mappings \cup {NoMapping}, done : BOOLEAN,
   prior : LoanType]
CloserType ==
  [at : CloserStages, object : Objects \cup {"none"}, maps : SUBSET Mappings,
   peers : SUBSET Roots, done : BOOLEAN]
EntryType ==
  [state : {"vacant", "await", "running", "recovered", "quarantined"},
   root : Roots \cup {NoRoot}, attempts : 0 .. MaxAttempts]

Typed ==
  /\ slot \in [Roots -> SlotType]
  /\ obj \in [Objects -> ObjectType]
  /\ op \in [Ops -> OpType]
  /\ closer \in [Roots -> CloserType]
  /\ entry \in [1 .. Capacity -> EntryType]
  /\ faults \in 0 .. MaxFaults

-----------------------------------------------------------------------------
(* The roots: who leases them, and how far their close has come.  The      *)
(* tables are parameters, so that the same facts are stated before and     *)
(* after a step.                                                           *)

LiveIn(s, h) == h.root \in Roots /\ s[h.root].live /\ s[h.root].gen = h.gen

\* The operation holds a lease of the root, as its own or as the borrower's.
RootLeased(p, r) == p.root.root = r /\ p.at \notin Transfers
PeerLeased(p, r) == p.peer.root = r /\ p.at \in {"both", "revoke", "over"}

\* What an operation leases is the root it named when it began.
OpKept(s, p) ==
  /\ p.at = "idle" => p = Idle
  /\ p.at \notin {"idle", "copy"} => p.root \in Handles
  /\ p.at = "copy" => p.root = NoHandle /\ p.peer = NoHandle
  /\ p.at \in {"leased", "close", "map", "flush", "unmap"} => p.peer = NoHandle
  /\ p.at = "leased" => ~p.done
  /\ p.at \in {"both", "revoke", "move", "read", "write"} => p.peer \in Handles
  /\ p.peer \in Handles => p.root.root # p.peer.root
  /\ \A r \in Roots : RootLeased(p, r) => LiveIn(s, p.root)
  /\ \A r \in Roots : PeerLeased(p, r) => LiveIn(s, p.peer)
  /\ p.at \in {"copy", "close", "move", "read", "write"} => p.object \in Objects

OpsKept == \A o \in Ops : OpKept(slot, op[o])

\* Once a root is cleaned up, no operation leases it.
CleanupQuiet ==
  \A r \in Roots : closer[r].at \notin {"none", "begun", "fenced"} =>
    \A o \in Ops : ~RootLeased(op[o], r) /\ ~PeerLeased(op[o], r)

\* The stages in which a closing root has nothing in hand.
Plain == {"none", "begun", "fenced", "devices", "memory", "scan", "final", "retired"}

\* The stages of a close and of the slot go together.
StageKept(s, c, r) ==
  /\ c.at \in Plain => c.object = "none" /\ c.maps = {} /\ c.peers = {} /\ c.done = FALSE
  /\ c.at = "retain" => c.maps = {}
  /\ c.at \in {"retain", "detach"} => c.done = FALSE
  /\ r \notin c.peers
  /\ \A m \in c.maps : m.root = r \/ m.root \in c.peers
  /\ c.at \notin {"none", "retired"} => s[r].live /\ s[r].closing
  /\ c.at = "retired" => s[r].retiring
  /\ s[r].retiring => ~s[r].live
  /\ s[r].live => s[r].gen # 0

StagesKept == \A r \in Roots : StageKept(slot, closer[r], r)

\* A retained root is nobody else's, and no other entry's.
Active(e) == e.state \in {"await", "running"}

RetainedKept ==
  \A i \in 1 .. Capacity : Active(entry[i]) =>
    /\ entry[i].root \in Roots
    /\ slot[entry[i].root].retiring /\ closer[entry[i].root].at = "none"
    /\ \A j \in 1 .. Capacity : Active(entry[j]) /\ entry[j].root = entry[i].root => i = j

Tables == LeasesExact /\ OpsKept /\ CleanupQuiet /\ StagesKept /\ RetainedKept

-----------------------------------------------------------------------------
(* The objects.                                                            *)

\* Every mapping that is recorded, installed or still usable.
Used(v) == v.maps \cup v.leaves \cup v.reach

ReadOnly(v) == (\A m \in Used(v) : ~m.writable) /\ (\A d \in v.dma : ~d.writes)

\* Who may map an object under its loan.
LoanKept(v, loan) ==
  /\ loan.kind = "none" => loan.who = {} /\ \A m \in Used(v) : m.root = v.owner
  /\ loan.kind = "read" => ReadOnly(v) /\ \A m \in Used(v) : m.root \in {v.owner} \cup loan.who
  /\ loan.kind = "write" => \E t \in Roots : loan.who = {t} /\ \A m \in Used(v) : m.root = t
  /\ loan.kind = "revoking" => loan.who = {} /\ \A m, n \in Used(v) : m.writable => n.root = m.root

\* Without a pin, records, page tables and processors agree; without an
\* object there is nothing.
ObjectKept(v) ==
  /\ v.state # "live" => Used(v) = {} /\ v.dma = {} /\ v.copies = 0 /\ v.pins = 0
  /\ v.pins = 0 => v.reach = v.maps /\ v.leaves = v.maps
  /\ \A m, n \in v.maps : m.root = n.root => m = n
  /\ LoanKept(v, v.loan)
  /\ v.copies # 0 => ReadOnly(v)

\* What an operation that pins an object knows about it.
Pinning(p) == p.at \in {"map", "flush", "unmap", "revoke"}

PinKept(p, v) ==
  /\ v.state = "live" /\ v.pins = 1
  /\ p.at = "map" =>
       p.mapping \in v.maps /\ v.leaves = v.maps \ {p.mapping} /\ v.reach = v.leaves
  /\ p.at = "flush" => p.mapping \in Mappings /\ v.leaves = v.maps /\ v.reach = v.maps \cup {p.mapping}
  /\ p.at \in {"map", "flush"} =>
       RootOf(p.mapping) = p.root /\ v.caps[p.root.root] # "none" /\ ~v.doomed
  /\ p.at = "unmap" => p.mapping \in v.maps
  /\ p.at \in {"unmap", "revoke"} =>
       /\ v.reach = v.maps
       /\ v.leaves = IF p.done THEN v.maps \ {p.mapping} ELSE v.maps
  /\ p.at = "revoke" =>
       /\ v.owner = p.root.root /\ v.fence # "escrow" /\ v.loan.kind = "revoking" /\ v.dma = {}
       /\ v.caps[p.root.root] # "none" /\ v.caps[p.peer.root] # "none"
       /\ \A m \in v.maps : m.root = p.peer.root => m = p.mapping
       /\ p.mapping # NoMapping => p.mapping \in v.maps /\ p.mapping.root = p.peer.root
       /\ LoanKept(v, p.prior)
       /\ p.prior.kind \in {"read", "write"} /\ p.peer.root \in p.prior.who

\* What a closing root that claimed an object knows about it.
Claiming(c) == c.at \in {"retain", "detach", "flush", "unpin"}

ClaimKept(c, r, v) ==
  /\ v.state = "live" /\ v.pins = 1
  /\ c.at \in {"retain", "unpin"} => v.reach = v.maps /\ v.leaves = v.maps
  /\ c.at # "retain" => \A m \in v.maps : m.root # r
  /\ c.at = "detach" =>
       v.reach = v.maps \cup c.maps /\ v.leaves = v.maps \cup c.maps /\ v.maps \cap c.maps = {}
  /\ c.at = "flush" =>
       /\ v.reach = v.maps \cup c.maps
       /\ v.maps \subseteq v.leaves /\ v.leaves \subseteq v.maps \cup c.maps
       /\ c.done => v.leaves = v.maps

\* A translation without a record is in the receipt of a closing root, or
\* its root keeps an authority that the pin entangles.
StrayKept(c, x, v) ==
  \A m \in Used(v) : m \notin v.maps =>
    \/ \E s \in Roots : /\ c[s].at \in {"detach", "flush", "lost"}
                        /\ c[s].object = x /\ m \in c[s].maps
    \/ v.caps[m.root] # "none" /\ ~v.doomed

\* Every translation is its root's present occupant's.
TranslationKept(s, v) == \A m \in Used(v) : LiveIn(s, RootOf(m))

\* A root about to be sealed has no authority and no mapping.
FinalKept(c, v) ==
  \A r \in Roots : c[r].at = "final" => v.caps[r] = "none" /\ \A m \in v.maps : m.root # r

Copying(p, x) == p.at \in {"copy", "move", "read", "write"} /\ p.object = x
Copiers(q, x) == {o \in Ops : Copying(q[o], x)}

ObjectsKept ==
  \A x \in Objects :
    /\ ObjectKept(obj[x])
    /\ StrayKept(closer, x, obj[x])
    /\ TranslationKept(slot, obj[x])
    /\ FinalKept(closer, obj[x])
    /\ obj[x].copies = Cardinality(Copiers(op, x))

PinsKept == \A o \in Ops : Pinning(op[o]) => op[o].object \in Objects /\ PinKept(op[o], obj[op[o].object])
ClaimsKept ==
  \A r \in Roots : Claiming(closer[r]) =>
    closer[r].object \in Objects /\ ClaimKept(closer[r], r, obj[closer[r].object])

\* A pin has one holder.
OnePin ==
  /\ \A o, p \in Ops : Pinning(op[o]) /\ Pinning(op[p]) /\ op[o].object = op[p].object => o = p
  /\ \A r, s \in Roots :
       Claiming(closer[r]) /\ Claiming(closer[s]) /\ closer[r].object = closer[s].object => r = s
  /\ \A o \in Ops, r \in Roots :
       Pinning(op[o]) /\ Claiming(closer[r]) => op[o].object # closer[r].object

MemoryInvariant == Typed /\ Tables /\ ObjectsKept /\ PinsKept /\ ClaimsKept /\ OnePin

-----------------------------------------------------------------------------
(* Counting.                                                               *)

LEMMA CountChange ==
  ASSUME NEW S, IsFiniteSet(S), NEW A \in SUBSET S, NEW B \in SUBSET S, NEW e, A \ {e} = B \ {e}
  PROVE  /\ Cardinality(A) \in Nat /\ Cardinality(B) \in Nat
         /\ (e \in A <=> e \in B) => Cardinality(A) = Cardinality(B)
         /\ e \notin A /\ e \in B => Cardinality(B) = Cardinality(A) + 1
         /\ e \in A /\ e \notin B => Cardinality(A) = Cardinality(B) + 1
<1>1. IsFiniteSet(A) /\ IsFiniteSet(B)
  BY FS_Subset
<1>2. Cardinality(A) \in Nat /\ Cardinality(B) \in Nat
  BY <1>1, FS_CardinalityType
<1>3. CASE e \in A <=> e \in B
  <2>1. A = B
    BY <1>3
  <2> QED
    BY <1>2, <1>3, <2>1
<1>4. CASE e \notin A /\ e \in B
  <2>1. B = A \cup {e}
    BY <1>4
  <2> QED
    BY <1>1, <1>2, <1>4, <2>1, FS_AddElement
<1>5. CASE e \in A /\ e \notin B
  <2>1. A = B \cup {e}
    BY <1>5
  <2> QED
    BY <1>1, <1>2, <1>5, <2>1, FS_AddElement
<1> QED
  BY <1>2, <1>3, <1>4, <1>5

LEMMA CountZero ==
  ASSUME NEW S, IsFiniteSet(S), NEW A \in SUBSET S
  PROVE  Cardinality(A) \in Nat /\ (Cardinality(A) = 0 <=> A = {})
BY FS_Subset, FS_CardinalityType, FS_EmptySet

RootLessees(q, r) == {o \in Ops : RootLeased(q[o], r)}
PeerLessees(q, r) == {o \in Ops : PeerLeased(q[o], r)}
CloserLessees(c, r) == {s \in Roots : r \in c[s].peers}
LeaseCount(q, c, r) ==
  Cardinality(RootLessees(q, r)) + Cardinality(PeerLessees(q, r)) + Cardinality(CloserLessees(c, r))

LEMMA LeasesCounted ==
  /\ LeasesExact <=> \A r \in Roots : slot[r].leases = LeaseCount(op, closer, r)
  /\ LeasesExact' <=> \A r \in Roots : slot'[r].leases = LeaseCount(op', closer', r)
BY DEF LeasesExact, LeaseCount, RootLessees, PeerLessees, CloserLessees, RootLeased, PeerLeased, Transfers

\* One operation changes: its leases are all that is counted anew.
LEMMA OpRecount ==
  ASSUME NEW q, NEW q2, NEW c, NEW o, NEW r, \A p \in Ops : p # o => q2[p] = q[p], o \in Ops
  PROVE  /\ LeaseCount(q, c, r) \in Nat /\ LeaseCount(q2, c, r) \in Nat
         /\ /\ RootLeased(q[o], r) <=> RootLeased(q2[o], r)
            /\ PeerLeased(q[o], r) <=> PeerLeased(q2[o], r)
            => LeaseCount(q2, c, r) = LeaseCount(q, c, r)
         /\ /\ ~RootLeased(q[o], r) /\ RootLeased(q2[o], r)
            /\ PeerLeased(q[o], r) <=> PeerLeased(q2[o], r)
            => LeaseCount(q2, c, r) = LeaseCount(q, c, r) + 1
         /\ /\ RootLeased(q[o], r) <=> RootLeased(q2[o], r)
            /\ ~PeerLeased(q[o], r) /\ PeerLeased(q2[o], r)
            => LeaseCount(q2, c, r) = LeaseCount(q, c, r) + 1
         /\ /\ RootLeased(q[o], r) /\ ~RootLeased(q2[o], r)
            /\ PeerLeased(q[o], r) <=> PeerLeased(q2[o], r)
            => LeaseCount(q2, c, r) = LeaseCount(q, c, r) - 1
         /\ /\ RootLeased(q[o], r) <=> RootLeased(q2[o], r)
            /\ PeerLeased(q[o], r) /\ ~PeerLeased(q2[o], r)
            => LeaseCount(q2, c, r) = LeaseCount(q, c, r) - 1
<1> DEFINE A == RootLessees(q, r)
           A2 == RootLessees(q2, r)
           B == PeerLessees(q, r)
           B2 == PeerLessees(q2, r)
           C == CloserLessees(c, r)
<1>1. A \in SUBSET Ops /\ A2 \in SUBSET Ops /\ A \ {o} = A2 \ {o}
  BY DEF RootLessees
<1>2. B \in SUBSET Ops /\ B2 \in SUBSET Ops /\ B \ {o} = B2 \ {o}
  BY DEF PeerLessees
<1>3. C \in SUBSET Roots
  BY DEF CloserLessees
<1>4. /\ o \in A <=> RootLeased(q[o], r)
      /\ o \in A2 <=> RootLeased(q2[o], r)
      /\ o \in B <=> PeerLeased(q[o], r)
      /\ o \in B2 <=> PeerLeased(q2[o], r)
  BY DEF RootLessees, PeerLessees
<1>5. LeaseCount(q, c, r) = Cardinality(A) + Cardinality(B) + Cardinality(C)
  BY DEF LeaseCount
<1>6. LeaseCount(q2, c, r) = Cardinality(A2) + Cardinality(B2) + Cardinality(C)
  BY DEF LeaseCount
<1> HIDE DEF A, A2, B, B2, C
<1>7. Cardinality(C) \in Nat
  BY <1>3, CountZero, TablesAssumption
<1>8. /\ Cardinality(A) \in Nat /\ Cardinality(A2) \in Nat
      /\ (o \in A <=> o \in A2) => Cardinality(A) = Cardinality(A2)
      /\ o \notin A /\ o \in A2 => Cardinality(A2) = Cardinality(A) + 1
      /\ o \in A /\ o \notin A2 => Cardinality(A) = Cardinality(A2) + 1
  BY <1>1, CountChange, TablesAssumption
<1>9. /\ Cardinality(B) \in Nat /\ Cardinality(B2) \in Nat
      /\ (o \in B <=> o \in B2) => Cardinality(B) = Cardinality(B2)
      /\ o \notin B /\ o \in B2 => Cardinality(B2) = Cardinality(B) + 1
      /\ o \in B /\ o \notin B2 => Cardinality(B) = Cardinality(B2) + 1
  BY <1>2, CountChange, TablesAssumption
<1> QED
  BY <1>4, <1>5, <1>6, <1>7, <1>8, <1>9

\* One closing root changes.
LEMMA CloserRecount ==
  ASSUME NEW q, NEW c, NEW c2, NEW s \in Roots, NEW r, \A t \in Roots : t # s => c2[t] = c[t]
  PROVE  /\ LeaseCount(q, c, r) \in Nat /\ LeaseCount(q, c2, r) \in Nat
         /\ r \in c[s].peers /\ r \in c2[s].peers => LeaseCount(q, c2, r) = LeaseCount(q, c, r)
         /\ r \notin c[s].peers /\ r \notin c2[s].peers => LeaseCount(q, c2, r) = LeaseCount(q, c, r)
         /\ r \notin c[s].peers /\ r \in c2[s].peers => LeaseCount(q, c2, r) = LeaseCount(q, c, r) + 1
         /\ r \in c[s].peers /\ r \notin c2[s].peers => LeaseCount(q, c2, r) = LeaseCount(q, c, r) - 1
<1> DEFINE A == RootLessees(q, r)
           B == PeerLessees(q, r)
           C == CloserLessees(c, r)
           C2 == CloserLessees(c2, r)
<1>1. A \in SUBSET Ops /\ B \in SUBSET Ops
  BY DEF RootLessees, PeerLessees
<1>2. C \in SUBSET Roots /\ C2 \in SUBSET Roots /\ C \ {s} = C2 \ {s}
  BY DEF CloserLessees
<1>3. (s \in C <=> r \in c[s].peers) /\ (s \in C2 <=> r \in c2[s].peers)
  BY DEF CloserLessees
<1>4. LeaseCount(q, c, r) = Cardinality(A) + Cardinality(B) + Cardinality(C)
  BY DEF LeaseCount
<1>5. LeaseCount(q, c2, r) = Cardinality(A) + Cardinality(B) + Cardinality(C2)
  BY DEF LeaseCount
<1> HIDE DEF A, B, C, C2
<1>6. Cardinality(A) \in Nat /\ Cardinality(B) \in Nat
  BY <1>1, CountZero, TablesAssumption
<1>7. /\ Cardinality(C) \in Nat /\ Cardinality(C2) \in Nat
      /\ (s \in C <=> s \in C2) => Cardinality(C) = Cardinality(C2)
      /\ s \notin C /\ s \in C2 => Cardinality(C2) = Cardinality(C) + 1
      /\ s \in C /\ s \notin C2 => Cardinality(C) = Cardinality(C2) + 1
  BY <1>2, CountChange, TablesAssumption
<1> QED
  BY <1>3, <1>4, <1>5, <1>6, <1>7

LEMMA PeersDropped ==
  ASSUME NEW q, NEW c, NEW c2, NEW s \in Roots, \A t \in Roots : t # s => c2[t] = c[t],
         c2[s].peers = {}
  PROVE  \A r : /\ LeaseCount(q, c, r) \in Nat /\ LeaseCount(q, c2, r) \in Nat
                /\ LeaseCount(q, c2, r) =
                     IF r \in c[s].peers THEN LeaseCount(q, c, r) - 1 ELSE LeaseCount(q, c, r)
BY CloserRecount

LEMMA SamePeers ==
  ASSUME NEW q, NEW c, NEW c2, \A s \in Roots : c2[s].peers = c[s].peers
  PROVE  \A r : LeaseCount(q, c2, r) = LeaseCount(q, c, r)
BY DEF LeaseCount, CloserLessees

\* A root without leases is leased by nobody.
LEMMA NoLessee ==
  ASSUME NEW q, NEW c, NEW r, LeaseCount(q, c, r) = 0
  PROVE  /\ \A o \in Ops : ~RootLeased(q[o], r) /\ ~PeerLeased(q[o], r)
         /\ \A s \in Roots : r \notin c[s].peers
<1> DEFINE A == RootLessees(q, r)
           B == PeerLessees(q, r)
           C == CloserLessees(c, r)
<1>1. A \in SUBSET Ops /\ B \in SUBSET Ops /\ C \in SUBSET Roots
  BY DEF RootLessees, PeerLessees, CloserLessees
<1>2. Cardinality(A) + Cardinality(B) + Cardinality(C) = 0
  BY DEF LeaseCount
<1> HIDE DEF A, B, C
<1>3. /\ Cardinality(A) \in Nat /\ (Cardinality(A) = 0 <=> A = {})
      /\ Cardinality(B) \in Nat /\ (Cardinality(B) = 0 <=> B = {})
      /\ Cardinality(C) \in Nat /\ (Cardinality(C) = 0 <=> C = {})
  BY <1>1, CountZero, TablesAssumption
<1>4. \A a, b, d \in Nat : a + b + d = 0 => a = 0 /\ b = 0 /\ d = 0
  OBVIOUS
<1>5. Cardinality(A) = 0 /\ Cardinality(B) = 0 /\ Cardinality(C) = 0
  BY <1>2, <1>3, <1>4
<1>6. A = {} /\ B = {} /\ C = {}
  BY <1>3, <1>5
<1> QED
  BY <1>6 DEF A, B, C, RootLessees, PeerLessees, CloserLessees

-----------------------------------------------------------------------------
(* The tables of roots and operations, step by step.                       *)

\* An operation moves on with the leases it has.
LEMMA OpMoveTables ==
  ASSUME Tables, NEW o \in Ops, UNCHANGED <<slot, closer, entry>>,
         \A q \in Ops : q # o => op'[q] = op[q],
         OpKept(slot, op'[o]),
         \A r \in Roots : /\ RootLeased(op'[o], r) <=> RootLeased(op[o], r)
                          /\ PeerLeased(op'[o], r) <=> PeerLeased(op[o], r)
  PROVE  Tables'
<1>1. LeasesExact'
  <2>1. \A r \in Roots : LeaseCount(op', closer, r) = LeaseCount(op, closer, r)
    BY OpRecount
  <2> QED
    BY <2>1, LeasesCounted DEF Tables
<1>2. OpsKept'
  BY DEF Tables, OpsKept
<1>3. CleanupQuiet'
  BY DEF Tables, CleanupQuiet
<1>4. StagesKept' /\ RetainedKept'
  BY DEF Tables, StagesKept, RetainedKept
<1> QED
  BY <1>1, <1>2, <1>3, <1>4 DEF Tables

\* A root that is being cleaned up comes to its next stage.
LEMMA CloserMoveTables ==
  ASSUME Tables, NEW r \in Roots, UNCHANGED <<slot, op, entry>>,
         \A s \in Roots : s # r => closer'[s] = closer[s],
         closer'[r].peers = closer[r].peers,
         StageKept(slot, closer'[r], r),
         closer[r].at # "none",
         \/ closer[r].at \notin {"begun", "fenced"} \/ closer'[r].at = "fenced"
         \/ \A o \in Ops : ~RootLeased(op[o], r) /\ ~PeerLeased(op[o], r)
  PROVE  Tables'
<1>1. LeasesExact'
  <2>1. \A s \in Roots : closer'[s].peers = closer[s].peers
    OBVIOUS
  <2>2. \A t \in Roots : LeaseCount(op, closer', t) = LeaseCount(op, closer, t)
    BY <2>1, SamePeers
  <2> QED
    BY <2>2, LeasesCounted DEF Tables
<1>2. OpsKept'
  BY DEF Tables, OpsKept
<1>3. CleanupQuiet'
  BY DEF Tables, CleanupQuiet
<1>4. StagesKept'
  BY DEF Tables, StagesKept
<1>5. RetainedKept'
  BY DEF Tables, RetainedKept
<1> QED
  BY <1>1, <1>2, <1>3, <1>4, <1>5 DEF Tables

\* Nothing of it changes.
LEMMA SameTables ==
  ASSUME Tables, UNCHANGED <<slot, op, closer, entry>>
  PROVE  Tables'
<1>1. LeasesExact'
  BY LeasesCounted DEF Tables
<1> QED
  BY <1>1 DEF Tables, OpsKept, CleanupQuiet, StagesKept, RetainedKept

Objs == ObjectsKept /\ PinsKept /\ ClaimsKept /\ OnePin

LEMMA InvariantParts == MemoryInvariant <=> Typed /\ Tables /\ Objs
BY DEF MemoryInvariant, Objs

\* The objects stay, and no operation or closing root takes or drops a pin.
LEMMA SameObjects ==
  ASSUME Objs, obj' = obj,
         \A o \in Ops : \/ op'[o] = op[o]
                        \/ /\ ~Pinning(op[o]) /\ ~Pinning(op'[o])
                           /\ \A x \in Objects : Copying(op'[o], x) <=> Copying(op[o], x),
         \A r \in Roots : \/ closer'[r] = closer[r]
                          \/ /\ closer[r].at \notin {"retain", "detach", "flush", "unpin", "lost"}
                             /\ ~Claiming(closer'[r]) /\ closer'[r].at # "final"
                          \/ /\ closer'[r].at = closer[r].at /\ closer'[r].object = closer[r].object
                             /\ closer'[r].maps = closer[r].maps /\ closer'[r].done = closer[r].done,
         \A x \in Objects : TranslationKept(slot', obj[x])
  PROVE  Objs'
<1>1. ASSUME NEW x \in Objects PROVE Copiers(op', x) = Copiers(op, x)
  BY DEF Copiers
<1>2. ASSUME NEW x \in Objects PROVE StrayKept(closer', x, obj[x])
  <2>1. StrayKept(closer, x, obj[x])
    BY DEF Objs, ObjectsKept
  <2>2. ASSUME NEW s \in Roots, closer[s].at \in {"detach", "flush", "lost"}
        PROVE  /\ closer'[s].at = closer[s].at /\ closer'[s].object = closer[s].object
               /\ closer'[s].maps = closer[s].maps
    BY <2>2
  <2> QED
    BY <2>1, <2>2 DEF StrayKept
<1>3. ASSUME NEW x \in Objects PROVE FinalKept(closer', obj[x])
  BY DEF Objs, ObjectsKept, FinalKept
<1>4. ObjectsKept'
  BY <1>1, <1>2, <1>3 DEF Objs, ObjectsKept
<1>5. PinsKept'
  BY DEF Objs, PinsKept
<1>6. \A r \in Roots : Claiming(closer'[r]) => Claiming(closer[r]) /\ closer'[r].object = closer[r].object
  BY DEF Claiming
<1>7. ClaimsKept'
  <2> SUFFICES ASSUME NEW r \in Roots, Claiming(closer'[r])
               PROVE  closer'[r].object \in Objects /\ ClaimKept(closer'[r], r, obj[closer'[r].object])
    BY DEF ClaimsKept
  <2>1. closer[r].object \in Objects /\ ClaimKept(closer[r], r, obj[closer[r].object])
    BY <1>6 DEF Objs, ClaimsKept
  <2> QED
    BY <1>6, <2>1 DEF ClaimKept, Claiming
<1>8. \A o \in Ops : Pinning(op'[o]) => Pinning(op[o]) /\ op'[o].object = op[o].object
  OBVIOUS
<1>9. OnePin'
  BY <1>6, <1>8 DEF Objs, OnePin
<1> QED
  BY <1>4, <1>5, <1>7, <1>9 DEF Objs

\* Leases are the only thing a lease changes of a slot.
LEMMA LeasedFields ==
  ASSUME slot \in [Roots -> SlotType], NEW R
  PROVE  /\ Leased(slot, R) \in [Roots -> SlotType]
         /\ \A r \in Roots :
              /\ Leased(slot, R)[r].gen = slot[r].gen /\ Leased(slot, R)[r].live = slot[r].live
              /\ Leased(slot, R)[r].closing = slot[r].closing
              /\ Leased(slot, R)[r].retiring = slot[r].retiring
              /\ Leased(slot, R)[r].leases = IF r \in R THEN slot[r].leases + 1 ELSE slot[r].leases
BY DEF Leased, SlotType

LEMMA UnleasedFields ==
  ASSUME slot \in [Roots -> SlotType], NEW R, \A r \in R \cap Roots : slot[r].leases # 0
  PROVE  /\ Unleased(slot, R) \in [Roots -> SlotType]
         /\ \A r \in Roots :
              /\ Unleased(slot, R)[r].gen = slot[r].gen /\ Unleased(slot, R)[r].live = slot[r].live
              /\ Unleased(slot, R)[r].closing = slot[r].closing
              /\ Unleased(slot, R)[r].retiring = slot[r].retiring
              /\ Unleased(slot, R)[r].leases = IF r \in R THEN slot[r].leases - 1 ELSE slot[r].leases
BY DEF Unleased, SlotType

\* Two tables of slots with the same occupants.
SameOccupants(s, t) ==
  \A r \in Roots : /\ t[r].gen = s[r].gen /\ t[r].live = s[r].live
                   /\ t[r].closing = s[r].closing /\ t[r].retiring = s[r].retiring

LEMMA SameOccupantsFrame ==
  ASSUME NEW s, NEW t, SameOccupants(s, t)
  PROVE  /\ \A h : LiveIn(t, h) <=> LiveIn(s, h)
         /\ \A p : OpKept(t, p) <=> OpKept(s, p)
         /\ \A c : \A r \in Roots : StageKept(t, c, r) <=> StageKept(s, c, r)
         /\ \A v : TranslationKept(t, v) <=> TranslationKept(s, v)
<1>1. \A h : LiveIn(t, h) <=> LiveIn(s, h)
  BY DEF LiveIn, SameOccupants
<1>2. \A p : OpKept(t, p) <=> OpKept(s, p)
  BY <1>1 DEF OpKept
<1>3. \A c : \A r \in Roots : StageKept(t, c, r) <=> StageKept(s, c, r)
  BY DEF StageKept, SameOccupants
<1>4. \A v : TranslationKept(t, v) <=> TranslationKept(s, v)
  BY <1>1 DEF TranslationKept
<1> QED
  BY <1>1, <1>2, <1>3, <1>4

\* The handle of a live root.
LEMMA HandleFacts ==
  ASSUME Typed, Tables, NEW r \in Roots, slot[r].live
  PROVE  /\ Handle(r) \in Handles /\ LiveIn(slot, Handle(r)) /\ Handle(r).root = r
         /\ ~slot[r].closing => closer[r].at = "none"
<1>1. StageKept(slot, closer[r], r) /\ slot[r] \in SlotType
  BY DEF Tables, StagesKept, Typed
<1>2. slot[r].gen \in 1 .. MaxGen
  BY <1>1, BoundsAssumption DEF StageKept, SlotType
<1> QED
  BY <1>1, <1>2 DEF Handle, Handles, LiveIn, StageKept

LEMMA NoHandleFacts ==
  /\ NoHandle \notin Handles /\ NoHandle.root \notin Roots /\ NoMapping \notin Mappings
  /\ \A h \in Handles : h.root \in Roots /\ h \in Handles \cup {NoHandle}
  /\ \A m \in Mappings : m.root \in Roots /\ RootOf(m) \in Handles /\ RootOf(m).root = m.root
BY TablesAssumption DEF NoHandle, NoRoot, Handles, Mappings, NoMapping, RootOf

\* Somebody takes a lease of an open root.
LEMMA LeaseTables ==
  ASSUME Typed, Tables, NEW o \in Ops, NEW r \in Roots, slot[r].live, ~slot[r].closing,
         slot' = Leased(slot, {r}), UNCHANGED <<closer, entry>>,
         \A q \in Ops : q # o => op'[q] = op[q],
         OpKept(slot, op'[o]),
         \A t \in Roots : t # r => /\ RootLeased(op'[o], t) <=> RootLeased(op[o], t)
                                   /\ PeerLeased(op'[o], t) <=> PeerLeased(op[o], t),
         \/ /\ ~RootLeased(op[o], r) /\ RootLeased(op'[o], r)
            /\ PeerLeased(op'[o], r) <=> PeerLeased(op[o], r)
         \/ /\ RootLeased(op'[o], r) <=> RootLeased(op[o], r)
            /\ ~PeerLeased(op[o], r) /\ PeerLeased(op'[o], r)
  PROVE  Tables' /\ SameOccupants(slot, slot') /\ slot' \in [Roots -> SlotType]
<1>1. /\ slot' \in [Roots -> SlotType] /\ SameOccupants(slot, slot')
      /\ \A t \in Roots : slot'[t].leases = IF t = r THEN slot[t].leases + 1 ELSE slot[t].leases
  <2>1. slot \in [Roots -> SlotType]
    BY DEF Typed
  <2> QED
    BY <2>1, LeasedFields DEF SameOccupants
<1>2. LeasesExact'
  <2>1. \A t \in Roots : t # r => LeaseCount(op', closer, t) = LeaseCount(op, closer, t)
    BY OpRecount
  <2>2. LeaseCount(op', closer, r) = LeaseCount(op, closer, r) + 1
    BY OpRecount
  <2> QED
    BY <1>1, <2>1, <2>2, LeasesCounted DEF Tables
<1>3. closer[r].at = "none"
  BY HandleFacts
<1>4. OpsKept'
  BY <1>1, SameOccupantsFrame DEF Tables, OpsKept
<1>5. CleanupQuiet'
  BY <1>3 DEF Tables, CleanupQuiet
<1>6. StagesKept'
  BY <1>1, SameOccupantsFrame DEF Tables, StagesKept
<1>7. RetainedKept'
  BY <1>1 DEF Tables, RetainedKept, SameOccupants
<1> QED
  BY <1>1, <1>2, <1>4, <1>5, <1>6, <1>7 DEF Tables

LEMMA IdleFacts ==
  /\ Idle \in OpType
  /\ \A r \in Roots : ~RootLeased(Idle, r) /\ ~PeerLeased(Idle, r)
  /\ ~Pinning(Idle) /\ \A x : ~Copying(Idle, x)
  /\ Idle.at = "idle" /\ Idle.peer = NoHandle /\ Idle.root = NoHandle /\ Idle.done = FALSE
<1>1. NoLoan \in LoanType
  BY DEF NoLoan, LoanType
<1>2. Idle \in OpType
  BY <1>1 DEF Idle, OpType, OpStages
<1> QED
  BY <1>2, NoHandleFacts DEF Idle, RootLeased, PeerLeased, Pinning, Copying, Transfers

LEMMA AcquireKeeps ==
  ASSUME MemoryInvariant, NEW o \in Ops, NEW r \in Roots, Acquire(o, r)
  PROVE  MemoryInvariant'
<1>1. Typed /\ Tables /\ Objs
  BY InvariantParts
<1>2. /\ op[o] = Idle /\ slot[r].live /\ ~slot[r].closing /\ slot' = Leased(slot, {r})
      /\ UNCHANGED <<obj, closer, entry, faults>>
      /\ op' = [op EXCEPT ![o].at = "leased", ![o].root = Handle(r)]
  BY DEF Acquire, Admits
<1>3. /\ Handle(r) \in Handles /\ LiveIn(slot, Handle(r)) /\ Handle(r).root = r
  BY <1>1, <1>2, HandleFacts
<1>4. op \in [Ops -> OpType]
  BY <1>1 DEF Typed
<1>5. /\ op' \in [Ops -> OpType] /\ \A q \in Ops : q # o => op'[q] = op[q]
      /\ op'[o].at = "leased" /\ op'[o].root = Handle(r) /\ op'[o].peer = NoHandle /\ ~op'[o].done
  BY <1>2, <1>3, <1>4, IdleFacts DEF OpType, OpStages
<1>6. OpKept(slot, op'[o])
  BY <1>3, <1>5, NoHandleFacts DEF OpKept, PeerLeased
<1>7. /\ \A t \in Roots : RootLeased(op'[o], t) <=> t = r
      /\ \A t \in Roots : ~PeerLeased(op'[o], t)
  BY <1>3, <1>5 DEF RootLeased, PeerLeased, Transfers
<1>8. Tables' /\ SameOccupants(slot, slot') /\ slot' \in [Roots -> SlotType]
  BY <1>1, <1>2, <1>5, <1>6, <1>7, IdleFacts, LeaseTables
<1>9. Objs'
  <2>1. \A x \in Objects : TranslationKept(slot', obj[x])
    BY <1>1, <1>8, SameOccupantsFrame DEF Objs, ObjectsKept
  <2>2. ~Pinning(op'[o]) /\ \A x : ~Copying(op'[o], x)
    BY <1>5 DEF Pinning, Copying
  <2> QED
    BY <1>1, <1>2, <1>5, <2>1, <2>2, IdleFacts, SameObjects
<1> QED
  BY <1>1, <1>2, <1>5, <1>8, <1>9, InvariantParts DEF Typed, MemoryInvariant, Objs

LEMMA CloseWaitKeeps ==
  ASSUME MemoryInvariant, NEW o \in Ops, NEW r \in Roots, NEW x \in Objects, CloseWait(o, r, x)
  PROVE  MemoryInvariant'
<1> DEFINE h == obj[x].source
<1>1. Typed /\ Tables /\ Objs
  BY InvariantParts
<1>2. /\ op[o] = Idle /\ h.root \in Roots /\ slot[h.root].live /\ slot[h.root].gen = h.gen
      /\ ~slot[h.root].closing /\ slot' = Leased(slot, {h.root})
      /\ UNCHANGED <<obj, closer, entry, faults>>
      /\ op' = [op EXCEPT ![o] = [@ EXCEPT !.at = "close", !.root = h, !.object = x]]
  BY DEF CloseWait, Admits, Live
<1>3. h \in Handles /\ LiveIn(slot, h)
  BY <1>1, <1>2, NoHandleFacts DEF Typed, ObjectType, LiveIn
<1>4. op \in [Ops -> OpType]
  BY <1>1 DEF Typed
<1> HIDE DEF h
<1>5. /\ op' \in [Ops -> OpType] /\ \A q \in Ops : q # o => op'[q] = op[q]
      /\ op'[o].at = "close" /\ op'[o].root = h /\ op'[o].peer = NoHandle /\ op'[o].object = x
  BY <1>2, <1>3, <1>4, IdleFacts DEF OpType, OpStages
<1>6. OpKept(slot, op'[o])
  BY <1>3, <1>5, NoHandleFacts DEF OpKept, PeerLeased
<1>7. /\ \A t \in Roots : RootLeased(op'[o], t) <=> t = h.root
      /\ \A t \in Roots : ~PeerLeased(op'[o], t)
  BY <1>3, <1>5 DEF RootLeased, PeerLeased, Transfers
<1>8. Tables' /\ SameOccupants(slot, slot') /\ slot' \in [Roots -> SlotType]
  BY <1>1, <1>2, <1>5, <1>6, <1>7, IdleFacts, LeaseTables
<1>9. Objs'
  <2>1. \A y \in Objects : TranslationKept(slot', obj[y])
    BY <1>1, <1>8, SameOccupantsFrame DEF Objs, ObjectsKept
  <2>2. ~Pinning(op'[o]) /\ \A y : ~Copying(op'[o], y)
    BY <1>5 DEF Pinning, Copying
  <2> QED
    BY <1>1, <1>2, <1>5, <2>1, <2>2, IdleFacts, SameObjects
<1> QED
  BY <1>1, <1>2, <1>5, <1>8, <1>9, InvariantParts DEF Typed, MemoryInvariant, Objs

LEMMA AcquireBorrowerKeeps ==
  ASSUME MemoryInvariant, NEW o \in Ops, NEW b \in Roots, AcquireBorrower(o, b)
  PROVE  MemoryInvariant'
<1>1. Typed /\ Tables /\ Objs
  BY InvariantParts
<1>2. /\ op[o].at = "leased" /\ b # op[o].root.root /\ slot[b].live /\ ~slot[b].closing
      /\ slot' = Leased(slot, {b}) /\ UNCHANGED <<obj, closer, entry, faults>>
      /\ op' = [op EXCEPT ![o].at = "both", ![o].peer = Handle(b)]
  BY DEF AcquireBorrower, Admits
<1>3. Handle(b) \in Handles /\ LiveIn(slot, Handle(b)) /\ Handle(b).root = b
  BY <1>1, <1>2, HandleFacts
<1>4. op \in [Ops -> OpType] /\ OpKept(slot, op[o])
  BY <1>1 DEF Typed, Tables, OpsKept
<1>5. op[o].root \in Handles /\ LiveIn(slot, op[o].root) /\ op[o].peer = NoHandle
  BY <1>2, <1>4, NoHandleFacts DEF OpKept, RootLeased, Transfers
<1>6. /\ op' \in [Ops -> OpType] /\ \A q \in Ops : q # o => op'[q] = op[q]
      /\ op'[o].at = "both" /\ op'[o].root = op[o].root /\ op'[o].peer = Handle(b)
  <2> DEFINE p == [op[o] EXCEPT !.at = "both", !.peer = Handle(b)]
  <2>1. op' = [op EXCEPT ![o] = p]
    BY <1>2, <1>4
  <2>2. Handle(b) \in Handles \cup {NoHandle} /\ op[o] \in OpType
    BY <1>3, <1>4
  <2>3. p \in OpType /\ p.at = "both" /\ p.root = op[o].root /\ p.peer = Handle(b)
    BY <2>2 DEF OpType, OpStages
  <2> HIDE DEF p
  <2> QED
    BY <1>4, <2>1, <2>3
<1>7. OpKept(slot, op'[o])
  BY <1>2, <1>3, <1>5, <1>6, NoHandleFacts DEF OpKept
<1>8. /\ \A t \in Roots : RootLeased(op'[o], t) <=> RootLeased(op[o], t)
      /\ \A t \in Roots : PeerLeased(op'[o], t) <=> t = b
      /\ \A t \in Roots : ~PeerLeased(op[o], t)
  BY <1>2, <1>3, <1>6 DEF RootLeased, PeerLeased, Transfers
<1>9. Tables' /\ SameOccupants(slot, slot') /\ slot' \in [Roots -> SlotType]
  BY <1>1, <1>2, <1>6, <1>7, <1>8, LeaseTables
<1>10. Objs'
  <2>1. \A y \in Objects : TranslationKept(slot', obj[y])
    BY <1>1, <1>9, SameOccupantsFrame DEF Objs, ObjectsKept
  <2>2. ~Pinning(op'[o]) /\ ~Pinning(op[o]) /\ \A y : ~Copying(op'[o], y) /\ ~Copying(op[o], y)
    BY <1>2, <1>6 DEF Pinning, Copying
  <2> QED
    BY <1>1, <1>2, <1>6, <2>1, <2>2, SameObjects
<1> QED
  BY <1>1, <1>2, <1>6, <1>9, <1>10, InvariantParts DEF Typed, MemoryInvariant, Objs

LEMMA ReleaseKeeps ==
  ASSUME MemoryInvariant, NEW o \in Ops, Release(o)
  PROVE  MemoryInvariant'
<1> DEFINE R == {op[o].root.root} \cup ({op[o].peer.root} \cap Roots)
<1>1. Typed /\ Tables /\ Objs
  BY InvariantParts
<1>2. /\ op[o].at \in {"leased", "both", "over"} /\ slot' = Unleased(slot, R)
      /\ op' = [op EXCEPT ![o] = Idle] /\ UNCHANGED <<obj, closer, entry, faults>>
  BY DEF Release
<1>3. op \in [Ops -> OpType] /\ OpKept(slot, op[o]) /\ slot \in [Roots -> SlotType]
  BY <1>1 DEF Typed, Tables, OpsKept
<1>4. /\ op' \in [Ops -> OpType] /\ \A q \in Ops : q # o => op'[q] = op[q]
      /\ op'[o] = Idle
  BY <1>2, <1>3, IdleFacts
<1>5. /\ op[o].root \in Handles /\ op[o].root.root \in Roots
      /\ op[o].peer \in Handles => op[o].root.root # op[o].peer.root
      /\ op[o].at = "leased" => op[o].peer = NoHandle
      /\ op[o].peer \in Handles \/ op[o].peer = NoHandle
  BY <1>2, <1>3, NoHandleFacts DEF OpKept, OpType
<1>6. \A t \in Roots : /\ t \in R <=> RootLeased(op[o], t) \/ PeerLeased(op[o], t)
                       /\ ~(RootLeased(op[o], t) /\ PeerLeased(op[o], t))
  BY <1>2, <1>5, NoHandleFacts DEF RootLeased, PeerLeased, Transfers
<1> HIDE DEF R
<1>7. \A t \in Roots : /\ LeaseCount(op, closer, t) \in Nat /\ LeaseCount(op', closer, t) \in Nat
                       /\ LeaseCount(op', closer, t) =
                            IF t \in R THEN LeaseCount(op, closer, t) - 1 ELSE LeaseCount(op, closer, t)
  BY <1>4, <1>6, OpRecount, IdleFacts
<1>8. \A t \in Roots : slot[t].leases = LeaseCount(op, closer, t)
  BY <1>1, LeasesCounted DEF Tables
<1>9. \A t \in R \cap Roots : slot[t].leases # 0
  BY <1>7, <1>8
<1>10. /\ slot' \in [Roots -> SlotType] /\ SameOccupants(slot, slot')
       /\ \A t \in Roots : slot'[t].leases = IF t \in R THEN slot[t].leases - 1 ELSE slot[t].leases
  BY <1>2, <1>3, <1>9, UnleasedFields DEF SameOccupants
<1>11. LeasesExact'
  BY <1>2, <1>7, <1>8, <1>10, LeasesCounted
<1>12. Tables'
  <2>1. OpsKept'
    <3>1. OpKept(slot, Idle)
      BY NoHandleFacts, IdleFacts DEF OpKept
    <3> QED
      BY <1>1, <1>4, <1>10, <3>1, SameOccupantsFrame DEF Tables, OpsKept
  <2>2. CleanupQuiet'
    BY <1>1, <1>2, <1>4, IdleFacts DEF Tables, CleanupQuiet
  <2>3. StagesKept'
    BY <1>1, <1>2, <1>10, SameOccupantsFrame DEF Tables, StagesKept
  <2>4. RetainedKept'
    BY <1>1, <1>2, <1>10 DEF Tables, RetainedKept, SameOccupants
  <2> QED
    BY <1>11, <2>1, <2>2, <2>3, <2>4 DEF Tables
<1>13. Objs'
  <2>1. \A y \in Objects : TranslationKept(slot', obj[y])
    BY <1>1, <1>10, SameOccupantsFrame DEF Objs, ObjectsKept
  <2>2. ~Pinning(op'[o]) /\ ~Pinning(op[o]) /\ \A y : ~Copying(op'[o], y) /\ ~Copying(op[o], y)
    BY <1>2, <1>4, IdleFacts DEF Pinning, Copying
  <2> QED
    BY <1>1, <1>2, <1>4, <2>1, <2>2, SameObjects
<1> QED
  BY <1>1, <1>2, <1>4, <1>10, <1>12, <1>13, InvariantParts DEF Typed, MemoryInvariant, Objs

-----------------------------------------------------------------------------
(* Closing roots, as far as no object changes.                             *)

LEMMA StageFields ==
  ASSUME closer \in [Roots -> CloserType], NEW r \in Roots, NEW at \in CloserStages, Stage(r, at)
  PROVE  /\ closer' \in [Roots -> CloserType]
         /\ \A s \in Roots : s # r => closer'[s] = closer[s]
         /\ closer'[r].at = at /\ closer'[r].object = closer[r].object
         /\ closer'[r].maps = closer[r].maps /\ closer'[r].peers = closer[r].peers
         /\ closer'[r].done = closer[r].done
<1> DEFINE c == [closer[r] EXCEPT !.at = at]
<1>1. closer' = [closer EXCEPT ![r] = c]
  BY DEF Stage
<1>2. closer[r] \in CloserType
  OBVIOUS
<1>3. /\ c \in CloserType /\ c.at = at /\ c.object = closer[r].object
      /\ c.maps = closer[r].maps /\ c.peers = closer[r].peers /\ c.done = closer[r].done
  BY <1>2 DEF CloserType
<1> HIDE DEF c
<1> QED
  BY <1>1, <1>3

\* A step from a stage with nothing in hand to another, or the owner is lost.
LEMMA PlainStep ==
  ASSUME NEW s, NEW r \in Roots, NEW c, NEW d, StageKept(s, c, r),
         c.at \in Plain \ {"none", "retired"}, d.at \in (Plain \ {"none", "retired"}) \cup {"lost"},
         d.object = c.object, d.maps = c.maps, d.peers = c.peers, d.done = c.done
  PROVE  StageKept(s, d, r)
BY DEF StageKept, Plain

LEMMA StartStages ==
  ASSUME MemoryInvariant, NEW r \in Roots, StartCleanup(r) \/ StartMemory(r) \/ Pending(r) \/ GiveUp(r)
  PROVE  MemoryInvariant'
<1>1. Typed /\ Tables /\ Objs
  BY InvariantParts
<1>2. closer \in [Roots -> CloserType] /\ StageKept(slot, closer[r], r) /\ closer[r] \in CloserType
  BY <1>1 DEF Typed, Tables, StagesKept
<1>3. PICK at \in {"devices", "memory", "scan", "fenced", "lost"} :
        /\ Stage(r, at)
        /\ closer[r].at = "begun" => slot[r].leases = 0 \/ at = "fenced"
  BY DEF StartCleanup, StartMemory, Pending, GiveUp
<1>4. /\ UNCHANGED <<slot, obj, op, entry, faults>>
      /\ closer[r].at \in {"begun", "memory", "scan", "final"}
  BY DEF StartCleanup, StartMemory, Pending, GiveUp
<1>5. /\ closer' \in [Roots -> CloserType]
      /\ \A s \in Roots : s # r => closer'[s] = closer[s]
      /\ closer'[r].at = at /\ closer'[r].object = closer[r].object
      /\ closer'[r].maps = closer[r].maps /\ closer'[r].peers = closer[r].peers
      /\ closer'[r].done = closer[r].done
  BY <1>2, <1>3, StageFields DEF CloserStages
<1>6. StageKept(slot, closer'[r], r)
  BY <1>2, <1>4, <1>5, PlainStep DEF Plain
<1>7. \/ closer[r].at # "begun" \/ closer'[r].at = "fenced"
      \/ \A o \in Ops : ~RootLeased(op[o], r) /\ ~PeerLeased(op[o], r)
  BY <1>1, <1>3, <1>4, <1>5, LeasesCounted, NoLessee DEF Tables
<1>8. Tables'
  BY <1>1, <1>4, <1>5, <1>6, <1>7, CloserMoveTables
<1>9. Objs'
  <2>1. \A y \in Objects : TranslationKept(slot', obj[y])
    BY <1>1, <1>4 DEF Objs, ObjectsKept
  <2>2. closer[r].at \notin {"retain", "detach", "flush", "unpin", "lost"} /\ ~Claiming(closer'[r]) /\ closer'[r].at # "final"
    BY <1>4, <1>5 DEF Claiming
  <2> QED
    BY <1>1, <1>4, <1>5, <2>1, <2>2, SameObjects
<1> QED
  BY <1>1, <1>4, <1>5, <1>8, <1>9, InvariantParts DEF Typed, MemoryInvariant, Objs

LEMMA BeginCloseKeeps ==
  ASSUME MemoryInvariant, NEW r \in Roots, BeginClose(r)
  PROVE  MemoryInvariant'
<1>1. Typed /\ Tables /\ Objs
  BY InvariantParts
<1>2. /\ closer \in [Roots -> CloserType] /\ StageKept(slot, closer[r], r) /\ closer[r] \in CloserType
      /\ slot \in [Roots -> SlotType]
  BY <1>1 DEF Typed, Tables, StagesKept
<1>3. /\ slot[r].live /\ ~slot[r].closing /\ slot' = [slot EXCEPT ![r].closing = TRUE]
      /\ Stage(r, "begun") /\ UNCHANGED <<obj, op, entry, faults>>
  BY DEF BeginClose, Admits
<1>4. closer[r].at = "none"
  BY <1>1, <1>3, HandleFacts
<1>5. /\ closer' \in [Roots -> CloserType]
      /\ \A s \in Roots : s # r => closer'[s] = closer[s]
      /\ closer'[r].at = "begun" /\ closer'[r].object = closer[r].object
      /\ closer'[r].maps = closer[r].maps /\ closer'[r].peers = closer[r].peers
      /\ closer'[r].done = closer[r].done
  BY <1>2, <1>3, StageFields DEF CloserStages
<1>6. /\ slot' \in [Roots -> SlotType] /\ \A s \in Roots : s # r => slot'[s] = slot[s]
      /\ \A s \in Roots : /\ slot'[s].gen = slot[s].gen /\ slot'[s].live = slot[s].live
                          /\ slot'[s].retiring = slot[s].retiring /\ slot'[s].leases = slot[s].leases
      /\ slot'[r].closing
  BY <1>2, <1>3 DEF SlotType
<1>7. \A h : LiveIn(slot', h) <=> LiveIn(slot, h)
  BY <1>6 DEF LiveIn
<1>8. LeasesExact'
  <2>1. \A s \in Roots : closer'[s].peers = closer[s].peers
    BY <1>5
  <2>2. \A t \in Roots : LeaseCount(op, closer', t) = LeaseCount(op, closer, t)
    BY <2>1, SamePeers
  <2> QED
    BY <1>1, <1>3, <1>6, <2>2, LeasesCounted DEF Tables
<1>9. OpsKept'
  BY <1>1, <1>3, <1>7 DEF Tables, OpsKept, OpKept
<1>10. CleanupQuiet'
  BY <1>1, <1>3, <1>5 DEF Tables, CleanupQuiet
<1>11. StagesKept'
  <2>1. ASSUME NEW s \in Roots, s # r PROVE StageKept(slot', closer'[s], s)
    <3>1. StageKept(slot, closer[s], s)
      BY <1>1 DEF Tables, StagesKept
    <3>2. closer'[s] = closer[s] /\ slot'[s] = slot[s]
      BY <1>5, <1>6, <2>1
    <3> QED
      BY <3>1, <3>2 DEF StageKept
  <2>2. StageKept(slot', closer'[r], r)
    BY <1>2, <1>3, <1>4, <1>5, <1>6 DEF StageKept, Plain
  <2> QED
    BY <2>1, <2>2 DEF StagesKept
<1>12. RetainedKept'
  <2>1. \A i \in 1 .. Capacity : Active(entry[i]) => entry[i].root # r
    BY <1>1, <1>2, <1>3 DEF Tables, RetainedKept, StageKept
  <2> QED
    BY <1>1, <1>3, <1>5, <1>6, <2>1 DEF Tables, RetainedKept
<1>13. Objs'
  <2>1. \A y \in Objects : TranslationKept(slot', obj[y])
    BY <1>1, <1>7 DEF Objs, ObjectsKept, TranslationKept
  <2>2. closer[r].at \notin {"retain", "detach", "flush", "unpin", "lost"} /\ ~Claiming(closer'[r]) /\ closer'[r].at # "final"
    BY <1>4, <1>5 DEF Claiming
  <2> QED
    BY <1>1, <1>3, <1>5, <2>1, <2>2, SameObjects
<1> QED
  BY <1>1, <1>3, <1>5, <1>6, <1>8, <1>9, <1>10, <1>11, <1>12, <1>13
     DEF Typed, Tables, MemoryInvariant, Objs

LEMMA RetainPeerKeeps ==
  ASSUME MemoryInvariant, NEW r \in Roots, RetainPeer(r)
  PROVE  MemoryInvariant'
<1>1. Typed /\ Tables /\ Objs
  BY InvariantParts
<1>2. /\ closer \in [Roots -> CloserType] /\ StageKept(slot, closer[r], r) /\ closer[r] \in CloserType
      /\ slot \in [Roots -> SlotType] /\ closer[r].at = "retain"
      /\ UNCHANGED <<obj, op, entry, faults>>
  BY <1>1 DEF Typed, Tables, StagesKept, RetainPeer
<1>3. PICK m \in Unretained(r) : /\ AdmitsCleanup(RootOf(m))
                                 /\ slot' = Leased(slot, {m.root})
                                 /\ closer' = [closer EXCEPT ![r].peers = @ \cup {m.root}]
  BY DEF RetainPeer
<1> DEFINE p == m.root
<1>4. p \in Roots /\ p # r /\ p \notin closer[r].peers
  BY <1>3 DEF Unretained, Peers, AdmitsCleanup, Live, RootOf
<1>5. slot' = Leased(slot, {p}) /\ closer' = [closer EXCEPT ![r].peers = @ \cup {p}]
  BY <1>3
<1> HIDE DEF p
<1>6. /\ closer' \in [Roots -> CloserType]
      /\ \A s \in Roots : s # r => closer'[s] = closer[s]
      /\ closer'[r].at = closer[r].at /\ closer'[r].object = closer[r].object
      /\ closer'[r].maps = closer[r].maps /\ closer'[r].peers = closer[r].peers \cup {p}
      /\ closer'[r].done = closer[r].done
  <2> DEFINE c == [closer[r] EXCEPT !.peers = @ \cup {p}]
  <2>1. closer' = [closer EXCEPT ![r] = c]
    BY <1>5
  <2>2. /\ c \in CloserType /\ c.at = closer[r].at /\ c.object = closer[r].object
        /\ c.maps = closer[r].maps /\ c.peers = closer[r].peers \cup {p} /\ c.done = closer[r].done
    BY <1>2, <1>4 DEF CloserType
  <2> HIDE DEF c
  <2> QED
    BY <1>2, <2>1, <2>2
<1>7. /\ slot' \in [Roots -> SlotType] /\ SameOccupants(slot, slot')
      /\ \A t \in Roots : slot'[t].leases = IF t = p THEN slot[t].leases + 1 ELSE slot[t].leases
  BY <1>2, <1>5, LeasedFields DEF SameOccupants
<1>8. LeasesExact'
  <2> DEFINE c2 == closer'
  <2>a. \A s \in Roots : s # r => c2[s] = closer[s]
    BY <1>6
  <2>1. /\ \A t : t # p => (t \in c2[r].peers <=> t \in closer[r].peers)
        /\ p \in c2[r].peers
    BY <1>6
  <2>2. \A t \in Roots : slot[t].leases = LeaseCount(op, closer, t)
    BY <1>1, LeasesCounted DEF Tables
  <2> HIDE DEF c2
  <2>3. \A t \in Roots : LeaseCount(op, c2, t) =
                           IF t = p THEN LeaseCount(op, closer, t) + 1 ELSE LeaseCount(op, closer, t)
    <3> TAKE t \in Roots
    <3>1. /\ LeaseCount(op, closer, t) \in Nat /\ LeaseCount(op, c2, t) \in Nat
          /\ t \in closer[r].peers /\ t \in c2[r].peers =>
               LeaseCount(op, c2, t) = LeaseCount(op, closer, t)
          /\ t \notin closer[r].peers /\ t \notin c2[r].peers =>
               LeaseCount(op, c2, t) = LeaseCount(op, closer, t)
          /\ t \notin closer[r].peers /\ t \in c2[r].peers =>
               LeaseCount(op, c2, t) = LeaseCount(op, closer, t) + 1
          /\ t \in closer[r].peers /\ t \notin c2[r].peers =>
               LeaseCount(op, c2, t) = LeaseCount(op, closer, t) - 1
      BY <2>a, CloserRecount
    <3> QED
      BY <1>4, <2>1, <3>1
  <2>4. \A t \in Roots : slot'[t].leases = LeaseCount(op, c2, t)
    BY <1>7, <2>2, <2>3
  <2> QED
    BY <1>2, <2>4, LeasesCounted DEF c2
<1>9. OpsKept'
  BY <1>1, <1>2, <1>7, SameOccupantsFrame DEF Tables, OpsKept
<1>10. CleanupQuiet'
  BY <1>1, <1>2, <1>6 DEF Tables, CleanupQuiet
<1>11. StagesKept'
  <2>1. ASSUME NEW s \in Roots PROVE StageKept(slot, closer'[s], s)
    BY <1>1, <1>2, <1>4, <1>6 DEF Tables, StagesKept, StageKept, Plain
  <2> QED
    BY <1>7, <2>1, SameOccupantsFrame DEF StagesKept
<1>12. RetainedKept'
  BY <1>1, <1>2, <1>6, <1>7 DEF Tables, RetainedKept, SameOccupants
<1>13. Objs'
  <2>1. \A y \in Objects : TranslationKept(slot', obj[y])
    BY <1>1, <1>7, SameOccupantsFrame DEF Objs, ObjectsKept
  <2> QED
    BY <1>1, <1>2, <1>6, <2>1, SameObjects
<1> QED
  BY <1>1, <1>2, <1>6, <1>7, <1>8, <1>9, <1>10, <1>11, <1>12, <1>13
     DEF Typed, Tables, MemoryInvariant, Objs

LEMMA ReleasePeersKeeps ==
  ASSUME MemoryInvariant, NEW r \in Roots, ReleasePeers(r)
  PROVE  MemoryInvariant'
<1> DEFINE R == closer[r].peers
<1>1. Typed /\ Tables /\ Objs
  BY InvariantParts
<1>2. /\ closer \in [Roots -> CloserType] /\ StageKept(slot, closer[r], r) /\ closer[r] \in CloserType
      /\ slot \in [Roots -> SlotType] /\ closer[r].at = "peers" /\ slot' = Unleased(slot, R)
      /\ closer' = [closer EXCEPT ![r] = [NotClosing EXCEPT !.at = "scan"]]
      /\ UNCHANGED <<obj, op, entry, faults>>
  BY <1>1 DEF Typed, Tables, StagesKept, ReleasePeers
<1>3. /\ closer' \in [Roots -> CloserType]
      /\ \A s \in Roots : s # r => closer'[s] = closer[s]
      /\ closer'[r].at = "scan" /\ closer'[r].object = "none"
      /\ closer'[r].maps = {} /\ closer'[r].peers = {} /\ closer'[r].done = FALSE
  <2> DEFINE c == [NotClosing EXCEPT !.at = "scan"]
  <2>1. /\ c \in CloserType /\ c.at = "scan" /\ c.object = "none"
        /\ c.maps = {} /\ c.peers = {} /\ c.done = FALSE
    BY DEF NotClosing, CloserType, CloserStages
  <2>2. closer' = [closer EXCEPT ![r] = c]
    BY <1>2
  <2> HIDE DEF c
  <2> QED
    BY <1>2, <2>1, <2>2
<1>r. R = closer[r].peers
  OBVIOUS
<1> HIDE DEF R
<1>4. \A t \in Roots : slot[t].leases = LeaseCount(op, closer, t)
  BY <1>1, LeasesCounted DEF Tables
<1>5. \A t \in Roots : /\ LeaseCount(op, closer, t) \in Nat /\ LeaseCount(op, closer', t) \in Nat
                       /\ LeaseCount(op, closer', t) =
                            IF t \in R THEN LeaseCount(op, closer, t) - 1 ELSE LeaseCount(op, closer, t)
  <2> DEFINE c2 == closer'
  <2>a. \A s \in Roots : s # r => c2[s] = closer[s]
    BY <1>3
  <2>1. c2[r].peers = {}
    BY <1>3
  <2> HIDE DEF c2
  <2>2. \A t \in Roots : /\ LeaseCount(op, closer, t) \in Nat /\ LeaseCount(op, c2, t) \in Nat
                         /\ LeaseCount(op, c2, t) =
                              IF t \in R THEN LeaseCount(op, closer, t) - 1 ELSE LeaseCount(op, closer, t)
    BY <1>r, <2>a, <2>1, PeersDropped
  <2> QED
    BY <2>2 DEF c2
<1>6. \A t \in R \cap Roots : slot[t].leases # 0
  BY <1>4, <1>5
<1>7. /\ slot' \in [Roots -> SlotType] /\ SameOccupants(slot, slot')
      /\ \A t \in Roots : slot'[t].leases = IF t \in R THEN slot[t].leases - 1 ELSE slot[t].leases
  BY <1>2, <1>6, UnleasedFields DEF SameOccupants
<1>8. LeasesExact'
  BY <1>2, <1>4, <1>5, <1>7, LeasesCounted
<1>9. OpsKept'
  BY <1>1, <1>2, <1>7, SameOccupantsFrame DEF Tables, OpsKept
<1>10. CleanupQuiet'
  BY <1>1, <1>2, <1>3 DEF Tables, CleanupQuiet
<1>11. StagesKept'
  <2>1. ASSUME NEW s \in Roots PROVE StageKept(slot, closer'[s], s)
    BY <1>1, <1>2, <1>3 DEF Tables, StagesKept, StageKept
  <2> QED
    BY <1>7, <2>1, SameOccupantsFrame DEF StagesKept
<1>12. RetainedKept'
  BY <1>1, <1>2, <1>3, <1>7 DEF Tables, RetainedKept, SameOccupants
<1>13. Objs'
  <2>1. \A y \in Objects : TranslationKept(slot', obj[y])
    BY <1>1, <1>7, SameOccupantsFrame DEF Objs, ObjectsKept
  <2>2. ~Claiming(closer'[r])
    BY <1>3 DEF Claiming
  <2> QED
    BY <1>1, <1>2, <1>3, <2>1, <2>2, SameObjects
<1> QED
  BY <1>1, <1>2, <1>3, <1>7, <1>8, <1>9, <1>10, <1>11, <1>12, <1>13
     DEF Typed, Tables, MemoryInvariant, Objs

LEMMA CreateRootKeeps ==
  ASSUME MemoryInvariant, NEW r \in Roots, CreateRoot(r)
  PROVE  MemoryInvariant'
<1>1. Typed /\ Tables /\ Objs
  BY InvariantParts
<1>2. /\ slot \in [Roots -> SlotType] /\ StageKept(slot, closer[r], r) /\ slot[r].gen < MaxGen
      /\ ~slot[r].live /\ ~slot[r].retiring
      /\ slot' = [slot EXCEPT ![r].gen = @ + 1, ![r].live = TRUE]
      /\ UNCHANGED <<obj, op, closer, entry, faults>>
  BY <1>1 DEF Typed, Tables, StagesKept, CreateRoot
<1>3. /\ slot' \in [Roots -> SlotType] /\ \A s \in Roots : s # r => slot'[s] = slot[s]
      /\ \A s \in Roots : /\ slot'[s].retiring = slot[s].retiring /\ slot'[s].leases = slot[s].leases
                          /\ slot'[s].closing = slot[s].closing
      /\ slot'[r].live /\ slot'[r].gen # 0
  <2> DEFINE v == [slot[r] EXCEPT !.gen = @ + 1, !.live = TRUE]
  <2>1. slot' = [slot EXCEPT ![r] = v]
    BY <1>2
  <2>2. slot[r] \in SlotType
    BY <1>2
  <2>3. /\ v \in SlotType /\ v.retiring = slot[r].retiring /\ v.leases = slot[r].leases
        /\ v.closing = slot[r].closing /\ v.live /\ v.gen # 0
    BY <1>2, <2>2, BoundsAssumption DEF SlotType
  <2> HIDE DEF v
  <2> QED
    BY <1>2, <2>1, <2>3
<1>4. closer[r].at = "none"
  BY <1>2 DEF StageKept
<1>5. \A h : LiveIn(slot, h) => LiveIn(slot', h)
  BY <1>2, <1>3 DEF LiveIn
<1>6. LeasesExact'
  BY <1>1, <1>2, <1>3, LeasesCounted DEF Tables
<1>7. OpsKept'
  BY <1>1, <1>2, <1>5 DEF Tables, OpsKept, OpKept
<1>8. CleanupQuiet'
  BY <1>1, <1>2 DEF Tables, CleanupQuiet
<1>9. StagesKept'
  <2>1. ASSUME NEW s \in Roots, s # r PROVE StageKept(slot', closer[s], s)
    <3>1. StageKept(slot, closer[s], s) /\ slot'[s] = slot[s]
      BY <1>1, <1>3, <2>1 DEF Tables, StagesKept
    <3> QED
      BY <3>1 DEF StageKept
  <2>2. StageKept(slot', closer[r], r)
    BY <1>2, <1>3, <1>4 DEF StageKept
  <2> QED
    BY <1>2, <2>1, <2>2 DEF StagesKept
<1>10. RetainedKept'
  BY <1>1, <1>2, <1>3 DEF Tables, RetainedKept
<1>11. Objs'
  <2>1. \A y \in Objects : TranslationKept(slot', obj[y])
    BY <1>1, <1>5 DEF Objs, ObjectsKept, TranslationKept
  <2> QED
    BY <1>1, <1>2, <2>1, SameObjects
<1> QED
  BY <1>1, <1>2, <1>3, <1>6, <1>7, <1>8, <1>9, <1>10, <1>11
     DEF Typed, Tables, MemoryInvariant, Objs

\* No processor can use a translation of a root that is sealed: a recorded
\* one is ruled out by the scan, one without a record is in a receipt whose
\* holder leases the root, or entangles an authority the scan would have met.
LEMMA SealedUnused ==
  ASSUME MemoryInvariant, NEW r \in Roots, closer[r].at = "final", slot[r].leases = 0,
         NEW x \in Objects, NEW m \in Used(obj[x])
  PROVE  m.root # r
<1> SUFFICES ASSUME m.root = r PROVE FALSE
  OBVIOUS
<1>1. Typed /\ Tables /\ Objs
  BY InvariantParts
<1>2. /\ StrayKept(closer, x, obj[x]) /\ FinalKept(closer, obj[x])
  BY <1>1 DEF Objs, ObjectsKept
<1>3. obj[x].caps[r] = "none" /\ m \notin obj[x].maps
  BY <1>2 DEF FinalKept
<1>4. PICK s \in Roots : closer[s].at \in {"detach", "flush", "lost"} /\ m \in closer[s].maps
  BY <1>2, <1>3 DEF StrayKept
<1>5. r = s \/ r \in closer[s].peers
  BY <1>1, <1>4 DEF Tables, StagesKept, StageKept
<1>6. LeaseCount(op, closer, r) = 0
  BY <1>1, LeasesCounted DEF Tables
<1>7. r \notin closer[s].peers
  BY <1>6, NoLessee
<1> QED
  BY <1>4, <1>5, <1>7

LEMMA SealKeeps ==
  ASSUME MemoryInvariant, NEW r \in Roots, Seal(r)
  PROVE  MemoryInvariant'
<1>1. Typed /\ Tables /\ Objs
  BY InvariantParts
<1>2. /\ closer \in [Roots -> CloserType] /\ StageKept(slot, closer[r], r) /\ closer[r] \in CloserType
      /\ slot \in [Roots -> SlotType] /\ closer[r].at = "final" /\ slot[r].leases = 0
      /\ slot' = [slot EXCEPT ![r].live = FALSE, ![r].retiring = TRUE] /\ Stage(r, "retired")
      /\ UNCHANGED <<obj, op, entry, faults>>
  BY <1>1 DEF Typed, Tables, StagesKept, Seal
<1>3. /\ slot' \in [Roots -> SlotType] /\ \A s \in Roots : s # r => slot'[s] = slot[s]
      /\ \A s \in Roots : slot'[s].leases = slot[s].leases
      /\ ~slot'[r].live /\ slot'[r].retiring
  <2> DEFINE v == [slot[r] EXCEPT !.live = FALSE, !.retiring = TRUE]
  <2>1. slot' = [slot EXCEPT ![r] = v]
    BY <1>2
  <2>2. slot[r] \in SlotType
    BY <1>2
  <2>3. v \in SlotType /\ v.leases = slot[r].leases /\ ~v.live /\ v.retiring
    BY <2>2 DEF SlotType
  <2> HIDE DEF v
  <2> QED
    BY <1>2, <2>1, <2>3
<1>4. /\ closer' \in [Roots -> CloserType]
      /\ \A s \in Roots : s # r => closer'[s] = closer[s]
      /\ closer'[r].at = "retired" /\ closer'[r].object = closer[r].object
      /\ closer'[r].maps = closer[r].maps /\ closer'[r].peers = closer[r].peers
      /\ closer'[r].done = closer[r].done
  BY <1>2, StageFields DEF CloserStages
<1>5. \A h : h.root # r /\ LiveIn(slot, h) => LiveIn(slot', h)
  BY <1>3 DEF LiveIn
<1>6. \A o \in Ops : ~RootLeased(op[o], r) /\ ~PeerLeased(op[o], r)
  BY <1>1, <1>2, LeasesCounted, NoLessee DEF Tables
<1>7. LeasesExact'
  <2>1. \A s \in Roots : closer'[s].peers = closer[s].peers
    BY <1>4
  <2>2. \A t \in Roots : LeaseCount(op, closer', t) = LeaseCount(op, closer, t)
    BY <2>1, SamePeers
  <2> QED
    BY <1>1, <1>2, <1>3, <2>2, LeasesCounted DEF Tables
<1>8. OpsKept'
  <2>1. ASSUME NEW o \in Ops PROVE OpKept(slot', op[o])
    <3>1. OpKept(slot, op[o])
      BY <1>1 DEF Tables, OpsKept
    <3>2. \A t \in Roots : RootLeased(op[o], t) => op[o].root.root # r
      BY <1>6 DEF RootLeased
    <3>3. \A t \in Roots : PeerLeased(op[o], t) => op[o].peer.root # r
      BY <1>6 DEF PeerLeased
    <3> QED
      BY <1>5, <3>1, <3>2, <3>3 DEF OpKept
  <2> QED
    BY <1>2, <2>1 DEF OpsKept
<1>9. CleanupQuiet'
  BY <1>1, <1>2, <1>4, <1>6 DEF Tables, CleanupQuiet
<1>10. StagesKept'
  <2>1. ASSUME NEW s \in Roots, s # r PROVE StageKept(slot', closer'[s], s)
    <3>1. StageKept(slot, closer[s], s) /\ slot'[s] = slot[s] /\ closer'[s] = closer[s]
      BY <1>1, <1>3, <1>4, <2>1 DEF Tables, StagesKept
    <3> QED
      BY <3>1 DEF StageKept
  <2>2. StageKept(slot', closer'[r], r)
    BY <1>2, <1>3, <1>4 DEF StageKept, Plain
  <2> QED
    BY <2>1, <2>2 DEF StagesKept
<1>11. RetainedKept'
  <2>1. \A i \in 1 .. Capacity : Active(entry[i]) => entry[i].root # r
    BY <1>1, <1>2 DEF Tables, RetainedKept
  <2> QED
    BY <1>1, <1>2, <1>3, <1>4, <2>1 DEF Tables, RetainedKept
<1>12. Objs'
  <2>1. ASSUME NEW y \in Objects PROVE TranslationKept(slot', obj[y])
    <3>1. \A m \in Used(obj[y]) : m.root # r
      BY <1>2, SealedUnused
    <3>2. TranslationKept(slot, obj[y])
      BY <1>1 DEF Objs, ObjectsKept
    <3>3. \A m : RootOf(m).root = m.root
      BY DEF RootOf
    <3> QED
      BY <1>5, <3>1, <3>2, <3>3 DEF TranslationKept
  <2>2. closer[r].at \notin {"retain", "detach", "flush", "unpin", "lost"} /\ ~Claiming(closer'[r]) /\ closer'[r].at # "final"
    BY <1>2, <1>4 DEF Claiming
  <2> QED
    BY <1>1, <1>2, <1>4, <2>1, <2>2, SameObjects
<1> QED
  BY <1>1, <1>2, <1>3, <1>4, <1>7, <1>8, <1>9, <1>10, <1>11, <1>12
     DEF Typed, Tables, MemoryInvariant, Objs

\* The last invalidation finds nothing left of a root that is not live.
LEMMA RootFlushedSame ==
  ASSUME MemoryInvariant, NEW r \in Roots, ~slot[r].live
  PROVE  RootFlushed(r) = obj
<1>1. Typed /\ Objs
  BY InvariantParts
<1>2. ASSUME NEW x \in Objects PROVE Flushed(obj[x], {m \in obj[x].reach : m.root = r}) = obj[x]
  <2>1. TranslationKept(slot, obj[x]) /\ obj[x] \in ObjectType
    BY <1>1 DEF Objs, ObjectsKept, Typed
  <2>2. \A m \in obj[x].reach : m.root # r
    BY <2>1 DEF TranslationKept, Used, LiveIn, RootOf
  <2>3. {m \in obj[x].reach : m.root = r} = {}
    BY <2>2
  <2>4. obj[x].reach \ ({} \ obj[x].leaves) = obj[x].reach
    OBVIOUS
  <2>5. [obj[x] EXCEPT !.reach = obj[x].reach] = obj[x]
    BY <2>1 DEF ObjectType
  <2> QED
    BY <2>3, <2>4, <2>5 DEF Flushed
<1>3. obj \in [Objects -> ObjectType]
  BY <1>1 DEF Typed
<1> QED
  BY <1>2, <1>3 DEF RootFlushed

\* A slot that is not live is retired.
LEMMA RetiredFields ==
  ASSUME slot \in [Roots -> SlotType], NEW r \in Roots
  PROVE  /\ Retired(slot, r) \in [Roots -> SlotType]
         /\ \A s \in Roots : s # r => Retired(slot, r)[s] = slot[s]
         /\ \A s \in Roots : /\ Retired(slot, r)[s].leases = slot[s].leases
                             /\ Retired(slot, r)[s].live = slot[s].live
                             /\ Retired(slot, r)[s].gen = slot[s].gen
         /\ ~Retired(slot, r)[r].retiring
<1> DEFINE v == [slot[r] EXCEPT !.retiring = FALSE, !.closing = FALSE]
<1>1. Retired(slot, r) = [slot EXCEPT ![r] = v]
  BY DEF Retired
<1>2. slot[r] \in SlotType
  OBVIOUS
<1>3. /\ v \in SlotType /\ v.leases = slot[r].leases /\ v.live = slot[r].live
      /\ v.gen = slot[r].gen /\ ~v.retiring
  BY <1>2 DEF SlotType
<1> HIDE DEF v
<1> QED
  BY <1>1, <1>3

LEMMA NotClosingFacts ==
  /\ NotClosing \in CloserType /\ NotClosing.at = "none" /\ NotClosing.object = "none"
  /\ NotClosing.maps = {} /\ NotClosing.peers = {} /\ NotClosing.done = FALSE
BY DEF NotClosing, CloserType, CloserStages

\* A root is retired, or retained in the state in which it is.
LEMMA RetireTables ==
  ASSUME Typed, Tables, NEW r \in Roots, slot[r].retiring,
         \/ slot' = Retired(slot, r)
         \/ slot' = slot,
         \/ closer' = closer /\ closer[r].at = "none"
         \/ closer' = [closer EXCEPT ![r] = NotClosing] /\ closer[r].at = "retired",
         op' = op, entry' \in [1 .. Capacity -> EntryType],
         \A i \in 1 .. Capacity : Active(entry'[i]) =>
           \/ /\ Active(entry[i]) /\ entry'[i].root = entry[i].root
              /\ entry[i].root = r => slot' = slot
           \/ /\ entry'[i].root = r /\ slot' = slot
              /\ \A j \in 1 .. Capacity : j # i => ~(Active(entry'[j]) /\ entry'[j].root = r)
  PROVE  /\ Tables' /\ slot' \in [Roots -> SlotType] /\ closer' \in [Roots -> CloserType]
         /\ \A h : LiveIn(slot', h) <=> LiveIn(slot, h)
         /\ \A s \in Roots : s # r => closer'[s] = closer[s]
<1>1. slot \in [Roots -> SlotType] /\ closer \in [Roots -> CloserType] /\ StageKept(slot, closer[r], r)
  BY DEF Typed, Tables, StagesKept
<1>2. /\ slot' \in [Roots -> SlotType] /\ \A s \in Roots : s # r => slot'[s] = slot[s]
      /\ \A s \in Roots : /\ slot'[s].leases = slot[s].leases /\ slot'[s].live = slot[s].live
                          /\ slot'[s].gen = slot[s].gen
  BY <1>1, RetiredFields
<1>3. /\ closer' \in [Roots -> CloserType] /\ \A s \in Roots : s # r => closer'[s] = closer[s]
      /\ closer'[r].at = "none" /\ closer'[r].object = "none" /\ closer'[r].maps = {}
      /\ closer'[r].peers = {} /\ closer'[r].done = FALSE /\ closer[r].peers = {}
  BY <1>1, NotClosingFacts DEF StageKept, Plain
<1>4. \A h : LiveIn(slot', h) <=> LiveIn(slot, h)
  BY <1>2 DEF LiveIn
<1>5. \A s \in Roots : closer'[s].peers = closer[s].peers
  BY <1>3
<1>6. LeasesExact'
  <2>1. \A t \in Roots : LeaseCount(op, closer', t) = LeaseCount(op, closer, t)
    BY <1>5, SamePeers
  <2> QED
    BY <1>2, <2>1, LeasesCounted DEF Tables
<1>7. OpsKept'
  BY <1>4 DEF Tables, OpsKept, OpKept
<1>8. CleanupQuiet'
  <2>1. \A s \in Roots : closer'[s].at \notin {"none", "begun", "fenced"} => closer[s].at \notin {"none", "begun", "fenced"}
    BY <1>3, NotClosingFacts
  <2> QED
    BY <2>1 DEF Tables, CleanupQuiet
<1>9. StagesKept'
  <2>1. ASSUME NEW s \in Roots, s # r PROVE StageKept(slot', closer'[s], s)
    <3>1. StageKept(slot, closer[s], s) /\ slot'[s] = slot[s] /\ closer'[s] = closer[s]
      BY <1>2, <1>3, <2>1 DEF Tables, StagesKept
    <3> QED
      BY <3>1 DEF StageKept
  <2>2. StageKept(slot', closer'[r], r)
    <3>1. slot'[r].retiring => ~slot'[r].live
      BY <1>1, <1>2 DEF StageKept
    <3>2. slot'[r].live => slot'[r].gen # 0
      BY <1>1, <1>2 DEF StageKept
    <3> QED
      BY <1>3, <3>1, <3>2 DEF StageKept
  <2> QED
    BY <2>1, <2>2 DEF StagesKept
<1>10. RetainedKept'
  <2>1. ASSUME NEW i \in 1 .. Capacity, Active(entry'[i])
        PROVE  /\ entry'[i].root \in Roots
               /\ slot'[entry'[i].root].retiring /\ closer'[entry'[i].root].at = "none"
    BY <1>2, <1>3, <2>1 DEF Tables, RetainedKept
  <2>2. ASSUME NEW i \in 1 .. Capacity, NEW j \in 1 .. Capacity, Active(entry'[i]), Active(entry'[j]),
               entry'[j].root = entry'[i].root
        PROVE  i = j
    BY <2>2 DEF Tables, RetainedKept
  <2> QED
    BY <2>1, <2>2 DEF RetainedKept
<1> QED
  BY <1>2, <1>3, <1>4, <1>6, <1>7, <1>8, <1>9, <1>10 DEF Tables

\* The objects when a root is retired or retained.
LEMMA RetireObjects ==
  ASSUME Objs, obj' = obj, op' = op, NEW r \in Roots, closer[r].at \in {"none", "retired"},
         closer'[r].at = "none", \A s \in Roots : s # r => closer'[s] = closer[s],
         \A h : LiveIn(slot', h) <=> LiveIn(slot, h)
  PROVE  Objs'
<1>1. \A y \in Objects : TranslationKept(slot', obj[y])
  BY DEF Objs, ObjectsKept, TranslationKept
<1>2. closer[r].at \notin {"retain", "detach", "flush", "unpin", "lost"} /\ ~Claiming(closer'[r]) /\ closer'[r].at # "final"
  BY DEF Claiming
<1> QED
  BY <1>1, <1>2, SameObjects

LEMMA ReleaseRootKeeps ==
  ASSUME MemoryInvariant, NEW r \in Roots, ReleaseRoot(r)
  PROVE  MemoryInvariant'
<1>1. Typed /\ Tables /\ Objs
  BY InvariantParts
<1>2. /\ closer[r].at = "retired" /\ closer' = [closer EXCEPT ![r] = NotClosing] /\ op' = op
      /\ StageKept(slot, closer[r], r) /\ entry \in [1 .. Capacity -> EntryType]
      /\ closer \in [Roots -> CloserType] /\ faults \in 0 .. MaxFaults
  BY <1>1 DEF ReleaseRoot, Tables, StagesKept, Typed
<1>3. slot[r].retiring /\ ~slot[r].live
  BY <1>2 DEF StageKept
<1>4. \A i \in 1 .. Capacity : Active(entry[i]) => entry[i].root # r
  BY <1>1, <1>2 DEF Tables, RetainedKept
<1>5. obj' = obj
  BY <1>3, RootFlushedSame DEF ReleaseRoot
<1>6. faults' \in 0 .. MaxFaults
  BY <1>2, BoundsAssumption DEF ReleaseRoot, Agreed, Refused
<1>7. /\ slot' = Retired(slot, r) \/ slot' = slot
      /\ entry' \in [1 .. Capacity -> EntryType]
      /\ \A i \in 1 .. Capacity : Active(entry'[i]) =>
           \/ /\ Active(entry[i]) /\ entry'[i].root = entry[i].root
              /\ entry[i].root = r => slot' = slot
           \/ /\ entry'[i].root = r /\ slot' = slot
              /\ \A j \in 1 .. Capacity : j # i => ~(Active(entry'[j]) /\ entry'[j].root = r)
  <2>1. CASE slot' = Retired(slot, r) /\ entry' = entry
    BY <1>2, <1>4, <2>1
  <2>2. CASE slot' = slot /\ entry' = entry
    BY <1>2, <1>4, <2>2
  <2>3. ASSUME slot' = slot, NEW i \in 1 .. Capacity,
               entry' = [entry EXCEPT ![i] = [state |-> "await", root |-> r, attempts |-> 0]]
        PROVE  <1>7!:
    <3> DEFINE e == [state |-> "await", root |-> r, attempts |-> 0]
    <3>1. e \in EntryType /\ e.root = r /\ Active(e)
      BY BoundsAssumption DEF EntryType, Active
    <3>2. entry' = [entry EXCEPT ![i] = e]
      BY <2>3
    <3> HIDE DEF e
    <3>3. /\ entry' \in [1 .. Capacity -> EntryType] /\ entry'[i] = e
          /\ \A j \in 1 .. Capacity : j # i => entry'[j] = entry[j]
      BY <1>2, <3>1, <3>2
    <3> QED
      BY <1>4, <2>3, <3>1, <3>3
  <2> QED
    BY <2>1, <2>2, <2>3 DEF ReleaseRoot, Room
<1>8. /\ Tables' /\ slot' \in [Roots -> SlotType] /\ closer' \in [Roots -> CloserType]
      /\ \A h : LiveIn(slot', h) <=> LiveIn(slot, h)
      /\ \A s \in Roots : s # r => closer'[s] = closer[s]
  BY <1>1, <1>2, <1>3, <1>7, RetireTables
<1>9. closer'[r].at = "none"
  BY <1>2, NotClosingFacts
<1>10. Objs'
  BY <1>1, <1>2, <1>5, <1>8, <1>9, RetireObjects
<1> QED
  BY <1>1, <1>2, <1>5, <1>6, <1>7, <1>8, <1>10 DEF Typed, MemoryInvariant, Objs

LEMMA ClaimRetryKeeps ==
  ASSUME MemoryInvariant, NEW i \in 1 .. Capacity, ClaimRetry(i)
  PROVE  MemoryInvariant'
<1>1. Typed /\ Tables /\ Objs
  BY InvariantParts
<1>2. /\ Active(entry[i]) /\ entry[i].attempts < MaxAttempts /\ UNCHANGED <<slot, obj, op, closer, faults>>
      /\ entry' = [entry EXCEPT ![i].state = "running", ![i].attempts = @ + 1]
      /\ entry \in [1 .. Capacity -> EntryType]
  BY <1>1 DEF ClaimRetry, Active, Typed
<1>3. /\ entry' \in [1 .. Capacity -> EntryType]
      /\ \A j \in 1 .. Capacity : /\ Active(entry'[j]) <=> Active(entry[j])
                                  /\ entry'[j].root = entry[j].root
  <2> DEFINE e == [entry[i] EXCEPT !.state = "running", !.attempts = @ + 1]
  <2>1. entry[i] \in EntryType
    BY <1>2
  <2>2. e \in EntryType /\ e.root = entry[i].root /\ Active(e)
    BY <1>2, <2>1, BoundsAssumption DEF EntryType, Active
  <2>3. entry' = [entry EXCEPT ![i] = e]
    BY <1>2
  <2> HIDE DEF e
  <2> QED
    BY <1>2, <2>2, <2>3
<1>4. Tables'
  <2>1. LeasesExact'
    BY <1>1, <1>2, LeasesCounted DEF Tables
  <2>2. RetainedKept'
    BY <1>1, <1>2, <1>3 DEF Tables, RetainedKept
  <2> QED
    BY <1>1, <1>2, <2>1, <2>2 DEF Tables, OpsKept, CleanupQuiet, StagesKept
<1>5. Objs'
  <2>1. \A y \in Objects : TranslationKept(slot', obj[y])
    BY <1>1, <1>2 DEF Objs, ObjectsKept
  <2> QED
    BY <1>1, <1>2, <2>1, SameObjects
<1> QED
  BY <1>1, <1>2, <1>3, <1>4, <1>5 DEF Typed, MemoryInvariant, Objs

LEMMA FinishRetryKeeps ==
  ASSUME MemoryInvariant, NEW i \in 1 .. Capacity, FinishRetry(i)
  PROVE  MemoryInvariant'
<1> DEFINE r == entry[i].root
<1>1. Typed /\ Tables /\ Objs
  BY InvariantParts
<1>2. /\ Active(entry[i]) /\ UNCHANGED <<op, closer, faults>> /\ entry \in [1 .. Capacity -> EntryType]
      /\ closer \in [Roots -> CloserType]
  BY <1>1 DEF FinishRetry, Active, Typed
<1>3. r \in Roots /\ slot[r].retiring /\ closer[r].at = "none"
  BY <1>1, <1>2 DEF Tables, RetainedKept
<1>4. ~slot[r].live
  BY <1>1, <1>3 DEF Tables, StagesKept, StageKept
<1>5. obj' = obj
  BY <1>3, <1>4, RootFlushedSame DEF FinishRetry
<1>6. PICK state \in {"recovered", "quarantined", "await"} :
        /\ entry' = [entry EXCEPT ![i].state = state]
        /\ slot' = IF state = "await" THEN slot ELSE Retired(slot, r)
  BY DEF FinishRetry
<1>7. /\ entry' \in [1 .. Capacity -> EntryType]
      /\ \A j \in 1 .. Capacity : entry'[j].root = entry[j].root
      /\ \A j \in 1 .. Capacity : j # i => entry'[j] = entry[j]
      /\ Active(entry'[i]) => state = "await"
  <2> DEFINE e == [entry[i] EXCEPT !.state = state]
  <2>1. entry[i] \in EntryType
    BY <1>2
  <2>2. e \in EntryType /\ e.root = entry[i].root /\ (Active(e) => state = "await")
    BY <2>1 DEF EntryType, Active
  <2>3. entry' = [entry EXCEPT ![i] = e]
    BY <1>6
  <2> HIDE DEF e
  <2> QED
    BY <1>2, <2>2, <2>3
<1>8. \A j \in 1 .. Capacity : Active(entry[j]) /\ entry[j].root = r => j = i
  BY <1>1, <1>2 DEF Tables, RetainedKept
<1>9. \A j \in 1 .. Capacity : Active(entry'[j]) =>
        /\ Active(entry[j]) /\ entry'[j].root = entry[j].root
        /\ entry[j].root = r => slot' = slot
  BY <1>2, <1>6, <1>7, <1>8
<1> HIDE DEF r
<1>10. /\ Tables' /\ slot' \in [Roots -> SlotType] /\ closer' \in [Roots -> CloserType]
       /\ \A h : LiveIn(slot', h) <=> LiveIn(slot, h)
       /\ \A s \in Roots : s # r => closer'[s] = closer[s]
  BY <1>1, <1>2, <1>3, <1>6, <1>7, <1>9, RetireTables
<1>11. Objs'
  BY <1>1, <1>2, <1>3, <1>5, <1>10, RetireObjects
<1> QED
  BY <1>1, <1>2, <1>5, <1>7, <1>10, <1>11 DEF Typed, MemoryInvariant, Objs

-----------------------------------------------------------------------------
(* Steps that change an object.                                            *)

\* What is to be shown of a changed object, whoever changed it.
Kept(s, c, x, v) ==
  /\ v \in ObjectType /\ ObjectKept(v) /\ StrayKept(c, x, v) /\ TranslationKept(s, v) /\ FinalKept(c, v)

LEMMA KeptObjects ==
  ASSUME MemoryInvariant, NEW x \in Objects
  PROVE  Kept(slot, closer, x, obj[x]) /\ obj[x].copies = Cardinality(Copiers(op, x))
BY DEF MemoryInvariant, Typed, ObjectsKept, Kept

\* Nobody holds the pin of an object without one, and nobody else holds it
\* besides its holder.
LEMMA NoHolder ==
  ASSUME MemoryInvariant, NEW x \in Objects, obj[x].pins = 0
  PROVE  /\ \A q \in Ops : Pinning(op[q]) => op[q].object # x
         /\ \A r \in Roots : Claiming(closer[r]) => closer[r].object # x
<1>1. PinsKept /\ ClaimsKept
  BY DEF MemoryInvariant
<1>2. \A q \in Ops : Pinning(op[q]) => obj[op[q].object].pins = 1
  BY <1>1 DEF PinsKept, PinKept
<1>3. \A r \in Roots : Claiming(closer[r]) => obj[closer[r].object].pins = 1
  BY <1>1 DEF ClaimsKept, ClaimKept
<1> QED
  BY <1>2, <1>3

LEMMA OtherHolders ==
  ASSUME MemoryInvariant, NEW o \in Ops, Pinning(op[o])
  PROVE  /\ op[o].object \in Objects /\ PinKept(op[o], obj[op[o].object])
         /\ \A q \in Ops : q # o /\ Pinning(op[q]) => op[q].object # op[o].object
         /\ \A r \in Roots : Claiming(closer[r]) => closer[r].object # op[o].object
BY DEF MemoryInvariant, PinsKept, OnePin

LEMMA OtherClaims ==
  ASSUME MemoryInvariant, NEW r \in Roots, Claiming(closer[r])
  PROVE  /\ closer[r].object \in Objects /\ ClaimKept(closer[r], r, obj[closer[r].object])
         /\ \A q \in Ops : Pinning(op[q]) => op[q].object # closer[r].object
         /\ \A s \in Roots : s # r /\ Claiming(closer[s]) => closer[s].object # closer[r].object
BY DEF MemoryInvariant, ClaimsKept, OnePin

LEMMA ObjectChanged ==
  ASSUME obj \in [Objects -> ObjectType], NEW x \in Objects, NEW w \in ObjectType, obj' = [obj EXCEPT ![x] = w]
  PROVE  /\ obj' \in [Objects -> ObjectType] /\ obj'[x] = w
         /\ \A y \in Objects : y # x => obj'[y] = obj[y]
OBVIOUS

LEMMA OpChanged ==
  ASSUME op \in [Ops -> OpType], NEW o \in Ops, NEW p \in OpType, op' = [op EXCEPT ![o] = p]
  PROVE  /\ op' \in [Ops -> OpType] /\ op'[o] = p
         /\ \A q \in Ops : q # o => op'[q] = op[q]
OBVIOUS

\* One operation changes one object.
LEMMA OpObjectStep ==
  ASSUME MemoryInvariant, NEW o \in Ops, NEW x \in Objects,
         obj' \in [Objects -> ObjectType], \A y \in Objects : y # x => obj'[y] = obj[y],
         op' \in [Ops -> OpType], \A q \in Ops : q # o => op'[q] = op[q],
         UNCHANGED <<slot, closer, entry>>, faults' \in 0 .. MaxFaults,
         Kept(slot, closer, x, obj'[x]),
         OpKept(slot, op'[o]),
         \A r \in Roots : /\ RootLeased(op'[o], r) <=> RootLeased(op[o], r)
                          /\ PeerLeased(op'[o], r) <=> PeerLeased(op[o], r),
         \A y \in Objects : y # x => (Copying(op'[o], y) <=> Copying(op[o], y)),
         \/ (Copying(op'[o], x) <=> Copying(op[o], x)) /\ obj'[x].copies = obj[x].copies
         \/ Copying(op'[o], x) /\ ~Copying(op[o], x) /\ obj'[x].copies = obj[x].copies + 1
         \/ ~Copying(op'[o], x) /\ Copying(op[o], x) /\ obj'[x].copies = obj[x].copies - 1,
         Pinning(op'[o]) => op'[o].object = x /\ PinKept(op'[o], obj'[x]),
         \A q \in Ops : q # o /\ Pinning(op[q]) /\ op[q].object = x =>
                          ~Pinning(op'[o]) /\ PinKept(op[q], obj'[x]),
         \A r \in Roots : Claiming(closer[r]) /\ closer[r].object = x =>
                            ~Pinning(op'[o]) /\ ClaimKept(closer[r], r, obj'[x])
  PROVE  MemoryInvariant'
<1> DEFINE w == obj'[x]
           p == op'[o]
<1>1. Typed /\ Tables /\ Objs
  BY InvariantParts
<1>2. /\ obj' \in [Objects -> ObjectType] /\ obj'[x] = w /\ \A y \in Objects : y # x => obj'[y] = obj[y]
      /\ op' \in [Ops -> OpType] /\ op'[o] = p /\ \A q \in Ops : q # o => op'[q] = op[q]
  OBVIOUS
<1>3. Typed'
  BY <1>1, <1>2 DEF Typed
<1>4. Tables'
  BY <1>1, <1>2, OpMoveTables
<1>5. ObjectsKept'
  <2>1. ASSUME NEW y \in Objects, y # x PROVE Copiers(op', y) = Copiers(op, y)
    BY <1>2, <2>1 DEF Copiers
  <2>2. w.copies = Cardinality(Copiers(op', x))
    <3> DEFINE A == Copiers(op, x)
               B == Copiers(op', x)
    <3>1. A \in SUBSET Ops /\ B \in SUBSET Ops /\ A \ {o} = B \ {o}
      BY <1>2 DEF Copiers
    <3>2. (o \in A <=> Copying(op[o], x)) /\ (o \in B <=> Copying(p, x))
      BY <1>2 DEF Copiers
    <3>3. obj[x].copies = Cardinality(A)
      BY KeptObjects
    <3>4. QED
      <4> HIDE DEF A, B
      <4>1. /\ Cardinality(A) \in Nat /\ Cardinality(B) \in Nat
            /\ (o \in A <=> o \in B) => Cardinality(A) = Cardinality(B)
            /\ o \notin A /\ o \in B => Cardinality(B) = Cardinality(A) + 1
            /\ o \in A /\ o \notin B => Cardinality(A) = Cardinality(B) + 1
        BY <3>1, CountChange, TablesAssumption
      <4>2. w.copies = Cardinality(B)
        BY <3>2, <3>3, <4>1
      <4> QED
        BY <4>2 DEF B
  <2> QED
    BY <1>1, <1>2, <2>1, <2>2 DEF Objs, ObjectsKept, Kept
<1>6. PinsKept'
  BY <1>1, <1>2 DEF Objs, PinsKept
<1>7. ClaimsKept'
  BY <1>1, <1>2 DEF Objs, ClaimsKept
<1>8. OnePin'
  BY <1>1, <1>2 DEF Objs, OnePin
<1> QED
  BY <1>3, <1>4, <1>5, <1>6, <1>7, <1>8 DEF MemoryInvariant

\* Nobody's operation changes one object.
LEMMA ObjectStep ==
  ASSUME MemoryInvariant, NEW x \in Objects,
         obj' \in [Objects -> ObjectType], \A y \in Objects : y # x => obj'[y] = obj[y],
         UNCHANGED <<slot, op, closer, entry, faults>>,
         Kept(slot, closer, x, obj'[x]), obj'[x].copies = obj[x].copies,
         \A q \in Ops : Pinning(op[q]) /\ op[q].object = x => PinKept(op[q], obj'[x]),
         \A r \in Roots : Claiming(closer[r]) /\ closer[r].object = x => ClaimKept(closer[r], r, obj'[x])
  PROVE  MemoryInvariant'
<1>1. Typed /\ Tables /\ Objs
  BY InvariantParts
<1>2. /\ obj' \in [Objects -> ObjectType] /\ \A y \in Objects : y # x => obj'[y] = obj[y]
  OBVIOUS
<1>3. Typed'
  BY <1>1, <1>2 DEF Typed
<1>4. Tables'
  BY <1>1, SameTables
<1>5. ObjectsKept'
  <2>1. ASSUME NEW y \in Objects PROVE Copiers(op', y) = Copiers(op, y)
    BY DEF Copiers
  <2> QED
    BY <1>1, <1>2, <2>1 DEF Objs, ObjectsKept, Kept
<1>6. PinsKept' /\ ClaimsKept' /\ OnePin'
  BY <1>1, <1>2 DEF Objs, PinsKept, ClaimsKept, OnePin
<1> QED
  BY <1>3, <1>4, <1>5, <1>6 DEF MemoryInvariant

\* The frames of a doomed object go when nothing holds them.
LEMMA ClosedKept ==
  ASSUME NEW s, NEW c, NEW x, NEW v, Kept(s, c, x, v),
         v.pins = 0, v.copies = 0, v.dma = {}, v.maps = {}
  PROVE  Kept(s, c, x, Closed(v)) /\ Closed(v).copies = 0 /\ Closed(v).pins = 0
<1> DEFINE w == Closed(v)
<1>1. /\ v \in ObjectType /\ v.reach = {} /\ v.leaves = {} /\ LoanKept(v, v.loan)
  BY DEF Kept, ObjectKept
<1>2. /\ w \in ObjectType /\ w.state = "gone" /\ w.caps = [r \in Roots |-> "none"]
      /\ w.maps = {} /\ w.leaves = {} /\ w.reach = {} /\ w.dma = {} /\ w.copies = 0 /\ w.pins = 0
      /\ w.loan = v.loan /\ w.owner = v.owner
  BY <1>1 DEF Closed, ObjectType, Caps
<1> HIDE DEF w
<1>3. Used(w) = {}
  BY <1>2 DEF Used
<1>4. LoanKept(w, w.loan)
  BY <1>1, <1>2, <1>3 DEF LoanKept, ReadOnly
<1>5. ObjectKept(w)
  BY <1>2, <1>3, <1>4 DEF ObjectKept
<1>6. StrayKept(c, x, w) /\ TranslationKept(s, w) /\ FinalKept(c, w)
  BY <1>2, <1>3 DEF StrayKept, TranslationKept, FinalKept
<1>7. Kept(s, c, x, w) /\ w.copies = 0 /\ w.pins = 0
  BY <1>2, <1>5, <1>6 DEF Kept
<1> QED
  BY <1>7 DEF w

LEMMA UnpinnedKept ==
  ASSUME NEW s, NEW c, NEW x, NEW v, Kept(s, c, x, v)
  PROVE  /\ Kept(s, c, x, Unpinned(v)) /\ Unpinned(v).copies = v.copies /\ Unpinned(v).pins = v.pins
         /\ v.pins # 0 => Unpinned(v) = v
         /\ Unpinned(v) # v => Used(v) = {}
<1>1. CASE v.doomed /\ v.pins = 0 /\ v.copies = 0 /\ v.dma = {} /\ v.maps = {}
  <2>1. Kept(s, c, x, Closed(v)) /\ Closed(v).copies = 0 /\ Closed(v).pins = 0
    BY <1>1, ClosedKept
  <2>2. Unpinned(v) = Closed(v)
    BY <1>1 DEF Unpinned
  <2>3. Used(v) = {}
    BY <1>1 DEF Kept, ObjectKept, Used
  <2> QED
    BY <1>1, <2>1, <2>2, <2>3
<1>2. CASE ~(v.doomed /\ v.pins = 0 /\ v.copies = 0 /\ v.dma = {} /\ v.maps = {})
  <2>1. Unpinned(v) = v
    BY <1>2 DEF Unpinned
  <2> QED
    BY <2>1
<1> QED
  BY <1>1, <1>2

\* What a device, a copy or a transfer gives back disturbs nobody.
LEMMA LessHeld ==
  ASSUME NEW s, NEW c, NEW x, NEW v, NEW w \in ObjectType, Kept(s, c, x, v),
         w.state = v.state, w.owner = v.owner, w.caps = v.caps, w.maps = v.maps, w.leaves = v.leaves,
         w.reach = v.reach, w.loan = v.loan, w.pins = v.pins, w.doomed = v.doomed,
         w.dma \subseteq v.dma, w.fence = v.fence \/ w.fence # "escrow", v.copies = 0 => w.copies = 0
  PROVE  /\ Kept(s, c, x, w)
         /\ \A p : PinKept(p, v) => PinKept(p, w)
         /\ \A d : \A r \in Roots : ClaimKept(d, r, v) => ClaimKept(d, r, w)
<1>1. Used(w) = Used(v)
  BY DEF Used
<1>2. ReadOnly(v) => ReadOnly(w)
  BY <1>1 DEF ReadOnly
<1>3. \A loan : LoanKept(v, loan) => LoanKept(w, loan)
  BY <1>1, <1>2 DEF LoanKept
<1>4. ObjectKept(w)
  BY <1>1, <1>2, <1>3 DEF Kept, ObjectKept
<1>5. StrayKept(c, x, w) /\ TranslationKept(s, w) /\ FinalKept(c, w)
  BY <1>1 DEF Kept, StrayKept, TranslationKept, FinalKept
<1>6. \A p : PinKept(p, v) => PinKept(p, w)
  BY <1>3 DEF PinKept
<1>7. \A d : \A r \in Roots : ClaimKept(d, r, v) => ClaimKept(d, r, w)
  BY DEF ClaimKept
<1> QED
  BY <1>4, <1>5, <1>6, <1>7 DEF Kept

LEMMA GivenBack ==
  ASSUME NEW s, NEW c, NEW x, NEW v, NEW w \in ObjectType, Kept(s, c, x, v),
         w.state = v.state, w.owner = v.owner, w.caps = v.caps, w.maps = v.maps, w.leaves = v.leaves,
         w.reach = v.reach, w.loan = v.loan, w.pins = v.pins, w.doomed = v.doomed,
         w.dma \subseteq v.dma, w.fence = v.fence \/ w.fence # "escrow", v.copies = 0 => w.copies = 0
  PROVE  /\ Kept(s, c, x, Unpinned(w)) /\ Unpinned(w).copies = w.copies
         /\ \A p : PinKept(p, v) => PinKept(p, Unpinned(w))
         /\ \A d : \A r \in Roots : ClaimKept(d, r, v) => ClaimKept(d, r, Unpinned(w))
<1>1. /\ Kept(s, c, x, w)
      /\ \A p : PinKept(p, v) => PinKept(p, w)
      /\ \A d : \A r \in Roots : ClaimKept(d, r, v) => ClaimKept(d, r, w)
  BY LessHeld
<1>2. /\ Kept(s, c, x, Unpinned(w)) /\ Unpinned(w).copies = w.copies
      /\ w.pins # 0 => Unpinned(w) = w
  BY <1>1, UnpinnedKept
<1>3. \A p : PinKept(p, v) => w.pins = 1
  BY DEF PinKept
<1>4. \A d : \A r \in Roots : ClaimKept(d, r, v) => w.pins = 1
  BY DEF ClaimKept
<1> QED
  BY <1>1, <1>2, <1>3, <1>4

LEMMA DmaUnpinKeeps ==
  ASSUME MemoryInvariant, NEW x \in Objects, DmaUnpin(x)
  PROVE  MemoryInvariant'
<1>1. PICK d \in obj[x].dma : obj' = [obj EXCEPT ![x] = WithoutDma(@, {d})]
  BY DEF DmaUnpin
<1>2. UNCHANGED <<slot, op, closer, entry, faults>>
  BY DEF DmaUnpin
<1>3. Kept(slot, closer, x, obj[x]) /\ obj[x] \in ObjectType /\ obj \in [Objects -> ObjectType]
  BY KeptObjects DEF Kept, MemoryInvariant, Typed
<1> DEFINE u == [obj[x] EXCEPT !.dma = @ \ {d}]
           w == Unpinned(u)
<1>4. /\ u \in ObjectType /\ u.state = obj[x].state /\ u.owner = obj[x].owner /\ u.caps = obj[x].caps
      /\ u.maps = obj[x].maps /\ u.leaves = obj[x].leaves /\ u.reach = obj[x].reach
      /\ u.loan = obj[x].loan /\ u.pins = obj[x].pins /\ u.doomed = obj[x].doomed
      /\ u.dma \subseteq obj[x].dma /\ u.fence = obj[x].fence /\ u.copies = obj[x].copies
  BY <1>3 DEF ObjectType
<1>5. obj' = [obj EXCEPT ![x] = w]
  BY <1>1, <1>3 DEF WithoutDma
<1> HIDE DEF u
<1>6. /\ Kept(slot, closer, x, w) /\ w.copies = u.copies
      /\ \A p : PinKept(p, obj[x]) => PinKept(p, w)
      /\ \A e : \A r \in Roots : ClaimKept(e, r, obj[x]) => ClaimKept(e, r, w)
  BY <1>3, <1>4, GivenBack
<1> HIDE DEF w
<1>7. PinsKept /\ ClaimsKept
  BY DEF MemoryInvariant
<1>8. /\ obj' \in [Objects -> ObjectType] /\ obj'[x] = w
       /\ \A y \in Objects : y # x => obj'[y] = obj[y]
  BY <1>3, <1>5, <1>6 DEF Kept
<1>9. \A q \in Ops : Pinning(op[q]) /\ op[q].object = x => PinKept(op[q], w)
  BY <1>6, <1>7 DEF PinsKept
<1>10. \A r \in Roots : Claiming(closer[r]) /\ closer[r].object = x => ClaimKept(closer[r], r, w)
  BY <1>6, <1>7 DEF ClaimsKept
<1> QED
  BY <1>2, <1>4, <1>6, <1>9, <1>10, <1>8, ObjectStep

LEMMA CloseCapKeeps ==
  ASSUME MemoryInvariant, NEW r \in Roots, NEW x \in Objects, CloseCap(r, x)
  PROVE  MemoryInvariant'
<1> DEFINE w == Closed(obj[x])
<1>1. /\ obj[x].dma = {} /\ obj[x].copies = 0 /\ obj[x].pins = 0 /\ obj[x].maps = {}
      /\ obj' = [obj EXCEPT ![x] = Closed(@)] /\ UNCHANGED <<slot, op, closer, entry, faults>>
  BY DEF CloseCap, MayClose
<1>2. Kept(slot, closer, x, obj[x]) /\ obj \in [Objects -> ObjectType]
  BY KeptObjects DEF MemoryInvariant, Typed
<1>3. obj' = [obj EXCEPT ![x] = w]
  BY <1>1, <1>2
<1>4. Kept(slot, closer, x, w) /\ w.copies = 0
  BY <1>1, <1>2, ClosedKept
<1> HIDE DEF w
<1>5. /\ obj' \in [Objects -> ObjectType] /\ obj'[x] = w
      /\ \A y \in Objects : y # x => obj'[y] = obj[y]
  BY <1>2, <1>3, <1>4 DEF Kept
<1> QED
  BY <1>1, <1>4, <1>5, NoHolder, ObjectStep

LEMMA AllocateKeeps ==
  ASSUME MemoryInvariant, NEW r \in Roots, NEW x \in Objects, Allocate(r, x)
  PROVE  MemoryInvariant'
<1> DEFINE w == [obj[x] EXCEPT !.state = "live", !.owner = r, !.caps[r] = "all"]
<1>1. /\ obj[x].state = "absent" /\ closer[r].at \in {"none", "begun", "fenced"}
      /\ obj' = [obj EXCEPT ![x].state = "live", ![x].owner = r, ![x].caps[r] = "all"]
      /\ UNCHANGED <<slot, op, closer, entry, faults>>
  BY DEF Allocate, Accepting, Handle
<1>2. Kept(slot, closer, x, obj[x]) /\ obj \in [Objects -> ObjectType]
  BY KeptObjects DEF MemoryInvariant, Typed
<1>3. /\ obj[x] \in ObjectType /\ ObjectKept(obj[x]) /\ FinalKept(closer, obj[x])
  BY <1>2 DEF Kept
<1>4. /\ Used(obj[x]) = {} /\ obj[x].dma = {} /\ obj[x].copies = 0 /\ obj[x].pins = 0
      /\ LoanKept(obj[x], obj[x].loan)
  BY <1>1, <1>3 DEF ObjectKept
<1>5. obj' = [obj EXCEPT ![x] = w]
  BY <1>1, <1>2
<1>6. /\ w \in ObjectType /\ w.state = "live" /\ w.caps = [obj[x].caps EXCEPT ![r] = "all"]
      /\ w.maps = obj[x].maps /\ w.leaves = obj[x].leaves /\ w.reach = obj[x].reach
      /\ w.dma = {} /\ w.copies = 0 /\ w.pins = 0 /\ w.loan = obj[x].loan
  <2>1. [obj[x].caps EXCEPT ![r] = "all"] \in [Roots -> Caps]
    BY <1>3 DEF ObjectType, Caps
  <2> QED
    BY <1>3, <1>4, <2>1 DEF ObjectType
<1>7. Used(w) = {} /\ obj[x].caps \in [Roots -> Caps]
  BY <1>3, <1>4, <1>6 DEF Used, ObjectType
<1> HIDE DEF w
<1>8. w.maps = {} /\ w.leaves = {} /\ w.reach = {}
  BY <1>7 DEF Used
<1>9. LoanKept(w, w.loan)
  BY <1>4, <1>6, <1>7 DEF LoanKept, ReadOnly
<1>10. ObjectKept(w)
  BY <1>6, <1>7, <1>8, <1>9 DEF ObjectKept
<1>11. StrayKept(closer, x, w) /\ TranslationKept(slot, w)
  BY <1>7 DEF StrayKept, TranslationKept
<1>12. FinalKept(closer, w)
  BY <1>1, <1>3, <1>6, <1>7, <1>8 DEF FinalKept
<1>13. Kept(slot, closer, x, w)
  BY <1>6, <1>10, <1>11, <1>12 DEF Kept
<1>14. /\ obj' \in [Objects -> ObjectType] /\ obj'[x] = w
       /\ \A y \in Objects : y # x => obj'[y] = obj[y]
  BY <1>2, <1>5, <1>6
<1> QED
  BY <1>1, <1>4, <1>6, <1>13, <1>14, NoHolder, ObjectStep

\* An operation that gives a copy back, and becomes idle.
LEMMA CopyGivenBack ==
  ASSUME MemoryInvariant, NEW o \in Ops, op[o].at \in {"copy", "move", "read", "write"},
         NEW x \in Objects, op[o].object = x, NEW w,
         obj[x].copies # 0 => w \in ObjectType,
         w.state = obj[x].state, w.owner = obj[x].owner, w.caps = obj[x].caps, w.maps = obj[x].maps,
         w.leaves = obj[x].leaves, w.reach = obj[x].reach, w.loan = obj[x].loan, w.pins = obj[x].pins,
         w.doomed = obj[x].doomed, w.dma = obj[x].dma, w.fence = obj[x].fence \/ w.fence # "escrow",
         w.copies = obj[x].copies - 1,
         obj' = [obj EXCEPT ![x] = Unpinned(w)],
         op' = [op EXCEPT ![o] = Idle], UNCHANGED <<slot, closer, entry, faults>>
  PROVE  MemoryInvariant'
<1>1. /\ Kept(slot, closer, x, obj[x]) /\ obj[x] \in ObjectType /\ op \in [Ops -> OpType]
      /\ obj[x].copies = Cardinality(Copiers(op, x)) /\ OpKept(slot, op[o])
      /\ PinsKept /\ ClaimsKept /\ faults \in 0 .. MaxFaults /\ obj \in [Objects -> ObjectType]
  BY KeptObjects DEF Kept, MemoryInvariant, Typed, Tables, OpsKept
<1>2. o \in Copiers(op, x) /\ Copying(op[o], x) /\ \A y : Copying(op[o], y) => y = x
  BY DEF Copiers, Copying
<1>3. obj[x].copies \in Nat /\ obj[x].copies # 0
  <2>1. Copiers(op, x) \in SUBSET Ops
    BY DEF Copiers
  <2> QED
    BY <1>1, <1>2, <2>1, CountZero, TablesAssumption
<1> DEFINE u == Unpinned(w)
<1>4. w \in ObjectType /\ w.dma \subseteq obj[x].dma /\ (obj[x].copies = 0 => w.copies = 0)
  BY <1>3
<1>5. /\ Kept(slot, closer, x, u) /\ u.copies = w.copies
      /\ \A p : PinKept(p, obj[x]) => PinKept(p, u)
      /\ \A e : \A r \in Roots : ClaimKept(e, r, obj[x]) => ClaimKept(e, r, u)
  BY <1>1, <1>4, GivenBack
<1>6. obj' = [obj EXCEPT ![x] = u] /\ u \in ObjectType
  BY <1>5 DEF Kept
<1> HIDE DEF u
<1>7. \A q \in Ops : Pinning(op[q]) /\ op[q].object = x => PinKept(op[q], u)
  BY <1>1, <1>5 DEF PinsKept
<1>8. \A r \in Roots : Claiming(closer[r]) /\ closer[r].object = x => ClaimKept(closer[r], r, u)
  BY <1>1, <1>5 DEF ClaimsKept
<1>9. \A r \in Roots : ~RootLeased(op[o], r) /\ ~PeerLeased(op[o], r)
  BY <1>1, NoHandleFacts DEF OpKept, RootLeased, PeerLeased, Transfers
<1>10. OpKept(slot, Idle)
  BY NoHandleFacts, IdleFacts DEF OpKept
<1>11. /\ obj' \in [Objects -> ObjectType] /\ obj'[x] = u
       /\ \A y \in Objects : y # x => obj'[y] = obj[y]
  BY <1>1, <1>6
<1>12. op' \in [Ops -> OpType] /\ op'[o] = Idle /\ \A q \in Ops : q # o => op'[q] = op[q]
  BY <1>1, IdleFacts
<1> QED
  BY <1>1, <1>2, <1>5, <1>7, <1>8, <1>9, <1>10, <1>11, <1>12, IdleFacts, OpObjectStep

LEMMA CopyUnpinKeeps ==
  ASSUME MemoryInvariant, NEW o \in Ops, CopyUnpin(o)
  PROVE  MemoryInvariant'
<1> DEFINE x == op[o].object
           w == [obj[x] EXCEPT !.copies = @ - 1]
<1>1. /\ op[o].at = "copy" /\ op' = [op EXCEPT ![o] = Idle] /\ UNCHANGED <<slot, closer, entry, faults>>
      /\ obj' = [obj EXCEPT ![x] = Unpinned(w)]
  BY DEF CopyUnpin
<1>2. x \in Objects
  BY <1>1 DEF MemoryInvariant, Tables, OpsKept, OpKept
<1>3. obj[x] \in ObjectType
  BY <1>2 DEF MemoryInvariant, Typed
<1>4. /\ obj[x].copies # 0 => w \in ObjectType
      /\ w.state = obj[x].state /\ w.owner = obj[x].owner /\ w.caps = obj[x].caps
      /\ w.maps = obj[x].maps /\ w.leaves = obj[x].leaves /\ w.reach = obj[x].reach
      /\ w.loan = obj[x].loan /\ w.pins = obj[x].pins /\ w.doomed = obj[x].doomed
      /\ w.dma = obj[x].dma /\ w.fence = obj[x].fence /\ w.copies = obj[x].copies - 1
  BY <1>3 DEF ObjectType
<1>5. op[o].object = x
  OBVIOUS
<1> HIDE DEF w, x
<1> QED
  BY <1>1, <1>2, <1>4, <1>5, CopyGivenBack

LEMMA DropTransferKeeps ==
  ASSUME MemoryInvariant, NEW o \in Ops, DropTransfer(o)
  PROVE  MemoryInvariant'
<1> DEFINE x == op[o].object
           f == IF op[o].at = "move" /\ op[o].done THEN obj[x].fence ELSE "none"
           w == [obj[x] EXCEPT !.copies = @ - 1, !.source = NoHandle, !.fence = f]
<1>1. /\ op[o].at \in {"move", "read", "write"} /\ op' = [op EXCEPT ![o] = Idle]
      /\ UNCHANGED <<slot, closer, entry, faults>>
      /\ obj' = [obj EXCEPT ![x] = Unpinned(w)]
  BY DEF DropTransfer
<1>2. x \in Objects
  BY <1>1 DEF MemoryInvariant, Tables, OpsKept, OpKept
<1>3. obj[x] \in ObjectType
  BY <1>2 DEF MemoryInvariant, Typed
<1>4. f \in {"none", "escrow", "set"} /\ (f = obj[x].fence \/ f # "escrow")
  BY <1>3 DEF ObjectType
<1> HIDE DEF f
<1>5. /\ obj[x].copies \in Nat /\ NoHandle \in Handles \cup {NoHandle}
      /\ obj[x].copies # 0 => obj[x].copies - 1 \in Nat
  BY <1>3 DEF ObjectType
<1>6. /\ obj[x].copies # 0 => w \in ObjectType
      /\ w.state = obj[x].state /\ w.owner = obj[x].owner /\ w.caps = obj[x].caps
      /\ w.maps = obj[x].maps /\ w.leaves = obj[x].leaves /\ w.reach = obj[x].reach
      /\ w.loan = obj[x].loan /\ w.pins = obj[x].pins /\ w.doomed = obj[x].doomed
      /\ w.dma = obj[x].dma /\ w.fence = f
      /\ w.copies = obj[x].copies - 1
  BY <1>3, <1>4, <1>5 DEF ObjectType
<1>7. op[o].object = x
  OBVIOUS
<1> HIDE DEF w, x
<1> QED
  BY <1>1, <1>2, <1>6, <1>4, <1>7, CopyGivenBack

\* The holder of a pin, or whoever finds none, changes the object.
LEMMA HolderStep ==
  ASSUME MemoryInvariant, NEW o \in Ops, NEW x \in Objects,
         (Pinning(op[o]) /\ op[o].object = x) \/ obj[x].pins = 0,
         obj' \in [Objects -> ObjectType], \A y \in Objects : y # x => obj'[y] = obj[y],
         op' \in [Ops -> OpType], \A q \in Ops : q # o => op'[q] = op[q],
         UNCHANGED <<slot, closer, entry>>, faults' \in 0 .. MaxFaults,
         Kept(slot, closer, x, obj'[x]),
         OpKept(slot, op'[o]),
         \A r \in Roots : /\ RootLeased(op'[o], r) <=> RootLeased(op[o], r)
                          /\ PeerLeased(op'[o], r) <=> PeerLeased(op[o], r),
         \A y \in Objects : y # x => (Copying(op'[o], y) <=> Copying(op[o], y)),
         \/ (Copying(op'[o], x) <=> Copying(op[o], x)) /\ obj'[x].copies = obj[x].copies
         \/ Copying(op'[o], x) /\ ~Copying(op[o], x) /\ obj'[x].copies = obj[x].copies + 1
         \/ ~Copying(op'[o], x) /\ Copying(op[o], x) /\ obj'[x].copies = obj[x].copies - 1,
         Pinning(op'[o]) => op'[o].object = x /\ PinKept(op'[o], obj'[x])
  PROVE  MemoryInvariant'
<1>1. \A q \in Ops : q # o /\ Pinning(op[q]) => op[q].object # x
  BY NoHolder, OtherHolders
<1>2. \A r \in Roots : Claiming(closer[r]) => closer[r].object # x
  BY NoHolder, OtherHolders
<1> QED
  BY <1>1, <1>2, OpObjectStep

\* An operation that is over keeps its leases and nothing else.
LEMMA OverFacts ==
  ASSUME NEW o \in Ops, Over(o), op \in [Ops -> OpType], OpKept(slot, op[o]),
         op[o].at \in {"leased", "close", "map", "flush", "unmap", "revoke"}
  PROVE  /\ op' \in [Ops -> OpType] /\ \A q \in Ops : q # o => op'[q] = op[q]
         /\ OpKept(slot, op'[o]) /\ ~Pinning(op'[o]) /\ \A y : ~Copying(op'[o], y)
         /\ \A r \in Roots : /\ RootLeased(op'[o], r) <=> RootLeased(op[o], r)
                             /\ PeerLeased(op'[o], r) <=> PeerLeased(op[o], r)
<1> DEFINE p == [Idle EXCEPT !.at = "over", !.root = op[o].root, !.peer = op[o].peer]
<1>1. op' = [op EXCEPT ![o] = p]
  BY DEF Over
<1>2. op[o] \in OpType
  OBVIOUS
<1>3. p \in OpType /\ p.at = "over" /\ p.root = op[o].root /\ p.peer = op[o].peer
  BY <1>2, IdleFacts DEF OpType, OpStages
<1> HIDE DEF p
<1>4. op' \in [Ops -> OpType] /\ op'[o] = p /\ \A q \in Ops : q # o => op'[q] = op[q]
  BY <1>1, <1>3
<1>5. \A r \in Roots : /\ RootLeased(p, r) <=> RootLeased(op[o], r)
                       /\ PeerLeased(p, r) <=> PeerLeased(op[o], r)
  BY <1>3, NoHandleFacts DEF OpKept, RootLeased, PeerLeased, Transfers
<1>6. OpKept(slot, p)
  BY <1>3, <1>5 DEF OpKept
<1>7. ~Pinning(p) /\ \A y : ~Copying(p, y)
  BY <1>3 DEF Pinning, Copying
<1> QED
  BY <1>4, <1>5, <1>6, <1>7

\* Fewer mappings and devices are within what the larger set was within.
LEMMA LessUsed ==
  ASSUME NEW v, NEW w, Used(w) \subseteq Used(v), w.dma \subseteq v.dma, w.owner = v.owner
  PROVE  /\ \A loan : LoanKept(v, loan) => LoanKept(w, loan)
         /\ ReadOnly(v) => ReadOnly(w)
         /\ \A s : TranslationKept(s, v) => TranslationKept(s, w)
<1>1. ReadOnly(v) => ReadOnly(w)
  BY DEF ReadOnly
<1>2. \A loan : LoanKept(v, loan) => LoanKept(w, loan)
  BY <1>1 DEF LoanKept
<1> QED
  BY <1>1, <1>2 DEF TranslationKept

LEMMA RefusalCounted ==
  ASSUME faults \in 0 .. MaxFaults, Refused \/ Agreed
  PROVE  faults' \in 0 .. MaxFaults
BY BoundsAssumption DEF Refused, Agreed

LEMMA MapPublishKeeps ==
  ASSUME MemoryInvariant, NEW o \in Ops, NEW x \in Objects, NEW writable \in BOOLEAN,
         MapPublish(o, x, writable)
  PROVE  MemoryInvariant'
<1> DEFINE v == obj[x]
           r == op[o].root.root
           m == [root |-> op[o].root.root, gen |-> op[o].root.gen, writable |-> writable]
           w == [obj[x] EXCEPT !.maps = @ \cup {m}, !.pins = @ + 1]
           p == [op[o] EXCEPT !.at = "map", !.object = x, !.mapping = m]
<1>1. Typed /\ Tables /\ OpKept(slot, op[o]) /\ op[o] \in OpType /\ v \in ObjectType /\ Kept(slot, closer, x, v)
  BY KeptObjects DEF MemoryInvariant, Tables, OpsKept, Typed
<1>2. /\ op[o].at = "leased" /\ UNCHANGED <<slot, closer, entry, faults>>
      /\ v.state = "live" /\ v.caps[r] # "none" /\ ~v.doomed /\ v.pins = 0 /\ (writable => v.copies = 0)
      /\ LoanAllows(v, r, writable) /\ \A n \in v.maps : n.root # r
      /\ v.dma = {}
  BY DEF MapPublish, MapAdmits, Holds, Mapped
<1>3. obj' = [obj EXCEPT ![x] = w] /\ op' = [op EXCEPT ![o] = p]
  BY DEF MapPublish
<1>4. op[o].root \in Handles /\ LiveIn(slot, op[o].root) /\ r \in Roots /\ op[o].peer = NoHandle /\ ~op[o].done
  BY <1>1, <1>2, NoHandleFacts DEF OpKept, RootLeased, Transfers
<1>5. m \in Mappings /\ m.root = r /\ RootOf(m) = op[o].root /\ m.writable = writable
  BY <1>4 DEF Mappings, Handles, RootOf
<1>r. r = op[o].root.root
  OBVIOUS
<1> HIDE DEF m, r
<1>t. v.maps \cup {m} \in SUBSET Mappings /\ v.pins + 1 = 1 /\ 1 \in 0 .. 1
  BY <1>1, <1>2, <1>5 DEF ObjectType
<1>6. /\ w \in ObjectType /\ w.maps = v.maps \cup {m} /\ w.pins = 1 /\ w.leaves = v.leaves /\ w.reach = v.reach
      /\ w.state = v.state /\ w.caps = v.caps /\ w.loan = v.loan /\ w.owner = v.owner
      /\ w.copies = v.copies /\ w.dma = v.dma /\ w.doomed = v.doomed
  BY <1>1, <1>t DEF ObjectType
<1>7. /\ p \in OpType /\ p.at = "map" /\ p.object = x /\ p.mapping = m /\ p.root = op[o].root
      /\ p.peer = op[o].peer
  BY <1>1, <1>5 DEF OpType, OpStages
<1>8. op \in [Ops -> OpType] /\ obj \in [Objects -> ObjectType] /\ faults \in 0 .. MaxFaults
  BY <1>1 DEF Typed
<1>v. v = obj[x]
  OBVIOUS
<1> HIDE DEF v, w, p
<1>9. /\ v.reach = v.maps /\ v.leaves = v.maps /\ LoanKept(v, v.loan) /\ (v.copies # 0 => ReadOnly(v))
      /\ \A n, k \in v.maps : n.root = k.root => n = k
      /\ TranslationKept(slot, v) /\ FinalKept(closer, v) /\ Used(v) = v.maps
  BY <1>1, <1>2 DEF Kept, ObjectKept, Used
<1>10. m \notin v.maps /\ Used(w) = v.maps \cup {m}
  BY <1>2, <1>5, <1>6, <1>9 DEF Used
<1>11. LoanKept(w, w.loan)
  BY <1>2, <1>4, <1>5, <1>6, <1>9, <1>10 DEF LoanKept, LoanAllows, ReadOnly
<1>12. w.copies # 0 => ReadOnly(w)
  BY <1>2, <1>5, <1>6, <1>9, <1>10 DEF ReadOnly
<1>13. ObjectKept(w)
  BY <1>2, <1>5, <1>6, <1>9, <1>11, <1>12 DEF ObjectKept
<1>14. StrayKept(closer, x, w)
  BY <1>6, <1>9, <1>10 DEF StrayKept
<1>15. TranslationKept(slot, w)
  BY <1>4, <1>5, <1>9, <1>10 DEF TranslationKept
<1>16. FinalKept(closer, w)
  <2>1. \A s \in Roots : closer[s].at = "final" => s # r
    BY <1>1, <1>2, <1>r DEF Tables, CleanupQuiet, RootLeased, Transfers
  <2> QED
    BY <1>5, <1>6, <1>9, <2>1 DEF FinalKept
<1>17. Kept(slot, closer, x, w)
  BY <1>6, <1>13, <1>14, <1>15, <1>16 DEF Kept
<1>18. PinKept(p, w)
  BY <1>2, <1>5, <1>6, <1>7, <1>9, <1>10, <1>r DEF PinKept
<1>19. /\ OpKept(slot, p) /\ \A y : ~Copying(p, y) /\ ~Copying(op[o], y)
       /\ \A s \in Roots : /\ RootLeased(p, s) <=> RootLeased(op[o], s)
                           /\ PeerLeased(p, s) <=> PeerLeased(op[o], s)
  BY <1>1, <1>2, <1>4, <1>7, NoHandleFacts DEF OpKept, RootLeased, PeerLeased, Transfers, Copying
<1>20. /\ obj' \in [Objects -> ObjectType] /\ obj'[x] = w
       /\ \A y \in Objects : y # x => obj'[y] = obj[y]
  BY <1>3, <1>6, <1>8
<1>21. op' \in [Ops -> OpType] /\ op'[o] = p /\ \A q \in Ops : q # o => op'[q] = op[q]
  BY <1>3, <1>7, <1>8
<1> QED
  BY <1>2, <1>6, <1>7, <1>8, <1>17, <1>18, <1>19, <1>20, <1>21, <1>v, HolderStep

\* Mappings move between records, page tables and processors, and none is
\* new.
LEMMA MappingsMoved ==
  ASSUME NEW s, NEW c, NEW x, NEW v, NEW w \in ObjectType, Kept(s, c, x, v), v.state = "live",
         w.state = v.state, w.owner = v.owner, w.caps = v.caps, w.loan = v.loan, w.dma = v.dma,
         w.copies = v.copies, w.doomed = v.doomed,
         Used(w) \subseteq Used(v), w.maps \subseteq v.maps,
         w.pins = 0 => w.reach = w.maps /\ w.leaves = w.maps,
         \A m \in Used(w) : m \notin w.maps => m \notin v.maps \/ (v.caps[m.root] # "none" /\ ~v.doomed)
  PROVE  Kept(s, c, x, w)
<1>1. /\ \A loan : LoanKept(v, loan) => LoanKept(w, loan)
      /\ ReadOnly(v) => ReadOnly(w)
      /\ TranslationKept(s, v) => TranslationKept(s, w)
  BY LessUsed
<1>2. ObjectKept(w)
  BY <1>1 DEF Kept, ObjectKept
<1>3. StrayKept(c, x, w)
  <2>1. StrayKept(c, x, v)
    BY DEF Kept
  <2> SUFFICES ASSUME NEW m \in Used(w), m \notin w.maps
               PROVE  \/ \E t \in Roots : /\ c[t].at \in {"detach", "flush", "lost"}
                                          /\ c[t].object = x /\ m \in c[t].maps
                      \/ w.caps[m.root] # "none" /\ ~w.doomed
    BY DEF StrayKept
  <2>2. m \in Used(v)
    OBVIOUS
  <2> QED
    BY <2>1, <2>2 DEF StrayKept
<1>4. FinalKept(c, w)
  BY DEF Kept, FinalKept
<1> QED
  BY <1>1, <1>2, <1>3, <1>4 DEF Kept

LEMMA MapInstallKeeps ==
  ASSUME MemoryInvariant, NEW o \in Ops, MapInstall(o)
  PROVE  MemoryInvariant'
<1> DEFINE x == op[o].object
           m == op[o].mapping
           v == obj[x]
           w1 == [obj[x] EXCEPT !.leaves = @ \cup {m}, !.reach = @ \cup {m}]
           w2 == [obj[x] EXCEPT !.reach = @ \cup {m}, !.maps = @ \ {m}]
           p1 == [op[o] EXCEPT !.at = "flush", !.done = TRUE]
           p2 == [op[o] EXCEPT !.at = "flush"]
<1>1. op[o].at = "map" /\ UNCHANGED <<slot, closer, entry>> /\ (Refused \/ Agreed)
  BY DEF MapInstall
<1>2. Pinning(op[o])
  BY <1>1 DEF Pinning
<1>3. x \in Objects /\ PinKept(op[o], v)
  BY <1>2, OtherHolders
<1>4. /\ Typed /\ OpKept(slot, op[o]) /\ op[o] \in OpType /\ v \in ObjectType /\ Kept(slot, closer, x, v)
      /\ op \in [Ops -> OpType] /\ obj \in [Objects -> ObjectType] /\ faults \in 0 .. MaxFaults
  BY <1>3, KeptObjects DEF MemoryInvariant, Tables, OpsKept, Typed
<1>5. /\ m \in v.maps /\ v.leaves = v.maps \ {m} /\ v.reach = v.leaves /\ v.state = "live" /\ v.pins = 1
      /\ RootOf(m) = op[o].root /\ v.caps[op[o].root.root] # "none" /\ ~v.doomed
  BY <1>1, <1>3 DEF PinKept
<1>6. m \in Mappings /\ m.root = op[o].root.root
  BY <1>4, <1>5 DEF ObjectType, RootOf
<1>7. \/ obj' = [obj EXCEPT ![x] = w1] /\ op' = [op EXCEPT ![o] = p1]
      \/ obj' = [obj EXCEPT ![x] = w2] /\ op' = [op EXCEPT ![o] = p1]
      \/ obj' = [obj EXCEPT ![x] = w1] /\ op' = [op EXCEPT ![o] = p2]
  BY DEF MapInstall
<1>8. /\ v.leaves \cup {m} \in SUBSET Mappings /\ v.reach \cup {m} \in SUBSET Mappings
      /\ v.maps \ {m} \in SUBSET Mappings
  BY <1>4, <1>6 DEF ObjectType
<1>x. x = op[o].object /\ m = op[o].mapping
  OBVIOUS
<1> HIDE DEF m
<1>9. /\ w1 \in ObjectType /\ w1.leaves = v.leaves \cup {m} /\ w1.reach = v.reach \cup {m} /\ w1.maps = v.maps
      /\ w1.state = v.state /\ w1.owner = v.owner /\ w1.caps = v.caps /\ w1.loan = v.loan
      /\ w1.dma = v.dma /\ w1.copies = v.copies /\ w1.doomed = v.doomed /\ w1.pins = v.pins
  BY <1>4, <1>8 DEF ObjectType
<1>10. /\ w2 \in ObjectType /\ w2.leaves = v.leaves /\ w2.reach = v.reach \cup {m} /\ w2.maps = v.maps \ {m}
       /\ w2.state = v.state /\ w2.owner = v.owner /\ w2.caps = v.caps /\ w2.loan = v.loan
       /\ w2.dma = v.dma /\ w2.copies = v.copies /\ w2.doomed = v.doomed /\ w2.pins = v.pins
  BY <1>4, <1>8 DEF ObjectType
<1>11. /\ p1 \in OpType /\ p1.at = "flush" /\ p1.object = x /\ p1.mapping = m /\ p1.root = op[o].root
       /\ p1.peer = op[o].peer
  BY <1>4 DEF OpType, OpStages, m
<1>12. /\ p2 \in OpType /\ p2.at = "flush" /\ p2.object = x /\ p2.mapping = m /\ p2.root = op[o].root
       /\ p2.peer = op[o].peer
  BY <1>4 DEF OpType, OpStages, m
<1> HIDE DEF w1, w2, p1, p2
<1>13. PICK w \in {w1, w2}, p \in {p1, p2} : obj' = [obj EXCEPT ![x] = w] /\ op' = [op EXCEPT ![o] = p]
  BY <1>7
<1>v. v = obj[x]
  OBVIOUS
<1> HIDE DEF v, x
<1>14. /\ w \in ObjectType /\ w.state = v.state /\ w.owner = v.owner /\ w.caps = v.caps /\ w.loan = v.loan
       /\ w.dma = v.dma /\ w.copies = v.copies /\ w.doomed = v.doomed /\ w.pins = v.pins
       /\ w.maps \subseteq v.maps /\ w.leaves = w.maps /\ w.reach = w.maps \cup {m} /\ w.reach \subseteq v.maps
  BY <1>5, <1>9, <1>10
<1>15. Used(w) \subseteq Used(v) /\ \A n \in Used(w) : n \in w.maps \/ n = m
  BY <1>14 DEF Used
<1>16. Kept(slot, closer, x, w)
  BY <1>4, <1>5, <1>6, <1>14, <1>15, MappingsMoved
<1>17. /\ p \in OpType /\ p.at = "flush" /\ p.object = x /\ p.mapping = m /\ p.root = op[o].root
       /\ p.peer = op[o].peer
  BY <1>11, <1>12
<1>18. PinKept(p, w)
  BY <1>5, <1>6, <1>14, <1>17 DEF PinKept
<1>19. /\ OpKept(slot, p) /\ \A y : ~Copying(p, y) /\ ~Copying(op[o], y)
       /\ \A s \in Roots : /\ RootLeased(p, s) <=> RootLeased(op[o], s)
                           /\ PeerLeased(p, s) <=> PeerLeased(op[o], s)
  BY <1>1, <1>4, <1>17, NoHandleFacts DEF OpKept, RootLeased, PeerLeased, Transfers, Copying
<1>20. /\ obj' \in [Objects -> ObjectType] /\ obj'[x] = w
       /\ \A y \in Objects : y # x => obj'[y] = obj[y]
  BY <1>3, <1>4, <1>13, <1>14
<1>21. op' \in [Ops -> OpType] /\ op'[o] = p /\ \A q \in Ops : q # o => op'[q] = op[q]
  BY <1>4, <1>13, <1>17
<1>22. faults' \in 0 .. MaxFaults
  BY <1>1, <1>4, RefusalCounted
<1> QED
  BY <1>1, <1>2, <1>3, <1>14, <1>16, <1>17, <1>18, <1>19, <1>20, <1>21, <1>22, <1>v, <1>x, HolderStep

\* The last step of an operation that held a pin: what is left of the object.
LEMMA HolderEnds ==
  ASSUME MemoryInvariant, NEW o \in Ops, Pinning(op[o]), Over(o),
         NEW w, Kept(slot, closer, op[o].object, w), w.copies = obj[op[o].object].copies,
         obj' = [obj EXCEPT ![op[o].object] = w],
         UNCHANGED <<slot, closer, entry>>, Refused \/ Agreed
  PROVE  MemoryInvariant'
<1> DEFINE x == op[o].object
<1>1. x \in Objects
  BY OtherHolders
<1>2. /\ OpKept(slot, op[o]) /\ op \in [Ops -> OpType] /\ obj \in [Objects -> ObjectType]
      /\ faults \in 0 .. MaxFaults /\ w \in ObjectType
  BY DEF MemoryInvariant, Tables, OpsKept, Typed, Kept
<1>3. op[o].at \in {"leased", "close", "map", "flush", "unmap", "revoke"} /\ \A y : ~Copying(op[o], y)
  BY DEF Pinning, Copying
<1>4. /\ op' \in [Ops -> OpType] /\ \A q \in Ops : q # o => op'[q] = op[q]
      /\ OpKept(slot, op'[o]) /\ ~Pinning(op'[o]) /\ \A y : ~Copying(op'[o], y)
      /\ \A r \in Roots : /\ RootLeased(op'[o], r) <=> RootLeased(op[o], r)
                          /\ PeerLeased(op'[o], r) <=> PeerLeased(op[o], r)
  BY <1>2, <1>3, OverFacts
<1>5. /\ obj' \in [Objects -> ObjectType] /\ obj'[x] = w
      /\ \A y \in Objects : y # x => obj'[y] = obj[y]
  BY <1>1, <1>2
<1>6. faults' \in 0 .. MaxFaults
  BY <1>2, RefusalCounted
<1>x. x = op[o].object
  OBVIOUS
<1> HIDE DEF x
<1> QED
  BY <1>1, <1>3, <1>4, <1>5, <1>6, <1>x, HolderStep

\* A confirmed invalidation.
LEMMA FlushedFields ==
  ASSUME NEW v \in ObjectType, NEW M
  PROVE  /\ Flushed(v, M) \in ObjectType /\ Flushed(v, M).reach = v.reach \ (M \ v.leaves)
         /\ Flushed(v, M).state = v.state /\ Flushed(v, M).owner = v.owner /\ Flushed(v, M).caps = v.caps
         /\ Flushed(v, M).maps = v.maps /\ Flushed(v, M).leaves = v.leaves /\ Flushed(v, M).loan = v.loan
         /\ Flushed(v, M).pins = v.pins /\ Flushed(v, M).copies = v.copies /\ Flushed(v, M).dma = v.dma
         /\ Flushed(v, M).doomed = v.doomed /\ Flushed(v, M).fence = v.fence
<1>1. v.reach \ (M \ v.leaves) \in SUBSET Mappings
  BY DEF ObjectType
<1> QED
  BY <1>1 DEF Flushed, ObjectType

LEMMA MapFinishKeeps ==
  ASSUME MemoryInvariant, NEW o \in Ops, MapFinish(o)
  PROVE  MemoryInvariant'
<1> DEFINE x == op[o].object
           m == op[o].mapping
           v == obj[x]
           f == Flushed(obj[x], {m})
           u == [f EXCEPT !.pins = @ - 1]
<1>1. op[o].at = "flush" /\ UNCHANGED <<slot, closer, entry>> /\ (Refused \/ Agreed) /\ Over(o)
  BY DEF MapFinish
<1>2. Pinning(op[o])
  BY <1>1 DEF Pinning
<1>3. x \in Objects /\ PinKept(op[o], v)
  BY <1>2, OtherHolders
<1>4. v \in ObjectType /\ Kept(slot, closer, x, v) /\ obj \in [Objects -> ObjectType]
  BY <1>3, KeptObjects DEF MemoryInvariant, Typed
<1>5. /\ v.leaves = v.maps /\ v.reach = v.maps \cup {m} /\ v.state = "live" /\ v.pins = 1
  BY <1>1, <1>3 DEF PinKept
<1>6. \/ obj' = [obj EXCEPT ![x] = Unpinned(u)]
      \/ obj' = [obj EXCEPT ![x] = f]
      \/ obj' = obj
  BY DEF MapFinish
<1>7. /\ f \in ObjectType /\ f.reach = v.reach \ ({m} \ v.leaves) /\ f.state = v.state /\ f.owner = v.owner
      /\ f.caps = v.caps /\ f.maps = v.maps /\ f.leaves = v.leaves /\ f.loan = v.loan /\ f.pins = v.pins
      /\ f.copies = v.copies /\ f.dma = v.dma /\ f.doomed = v.doomed
  BY <1>4, FlushedFields
<1> HIDE DEF f, v, m
<1>8. f.reach = v.maps /\ f.pins - 1 = 0 /\ 0 \in 0 .. 1
  BY <1>5, <1>7
<1>9. /\ u \in ObjectType /\ u.reach = f.reach /\ u.state = v.state /\ u.owner = v.owner
      /\ u.caps = v.caps /\ u.maps = v.maps /\ u.leaves = v.leaves /\ u.loan = v.loan /\ u.pins = 0
      /\ u.copies = v.copies /\ u.dma = v.dma /\ u.doomed = v.doomed
  BY <1>7, <1>8 DEF ObjectType
<1> HIDE DEF u
<1>10. Used(f) = v.maps /\ Used(u) = v.maps /\ v.maps \subseteq Used(v)
  BY <1>5, <1>7, <1>8, <1>9 DEF Used
<1>11. Kept(slot, closer, x, f)
  BY <1>4, <1>5, <1>7, <1>8, <1>10, MappingsMoved
<1>12. Kept(slot, closer, x, u)
  BY <1>4, <1>5, <1>8, <1>9, <1>10, MappingsMoved
<1>13. Kept(slot, closer, x, Unpinned(u)) /\ Unpinned(u).copies = v.copies
  BY <1>9, <1>12, UnpinnedKept
<1>14. obj' = obj => obj' = [obj EXCEPT ![x] = v]
  BY <1>3, <1>4 DEF v
<1>15. PICK w \in {Unpinned(u), f, v} : obj' = [obj EXCEPT ![x] = w]
  BY <1>6, <1>14
<1>16. Kept(slot, closer, x, w) /\ w.copies = v.copies
  BY <1>4, <1>7, <1>11, <1>13
<1> QED
  BY <1>1, <1>2, <1>15, <1>16, HolderEnds DEF v

LEMMA UnmapBeginKeeps ==
  ASSUME MemoryInvariant, NEW o \in Ops, NEW x \in Objects, UnmapBegin(o, x)
  PROVE  MemoryInvariant'
<1>1. PICK m \in Mapped(x, op[o].root.root) :
        op' = [op EXCEPT ![o].at = "unmap", ![o].object = x, ![o].mapping = m]
  BY DEF UnmapBegin
<1> DEFINE v == obj[x]
           w == [obj[x] EXCEPT !.pins = @ + 1]
           p == [op[o] EXCEPT !.at = "unmap", !.object = x, !.mapping = m]
<1>2. /\ op[o].at = "leased" /\ UNCHANGED <<slot, closer, entry, faults>>
      /\ v.state = "live" /\ v.pins = 0 /\ m \in v.maps
      /\ obj' = [obj EXCEPT ![x] = w] /\ op' = [op EXCEPT ![o] = p]
  BY <1>1 DEF UnmapBegin, Holds, Mapped
<1>3. /\ Typed /\ OpKept(slot, op[o]) /\ op[o] \in OpType /\ v \in ObjectType /\ Kept(slot, closer, x, v)
      /\ op \in [Ops -> OpType] /\ obj \in [Objects -> ObjectType] /\ faults \in 0 .. MaxFaults
  BY KeptObjects DEF MemoryInvariant, Tables, OpsKept, Typed
<1>4. v.pins + 1 = 1 /\ 1 \in 0 .. 1 /\ m \in Mappings /\ ~op[o].done
  BY <1>2, <1>3 DEF ObjectType, OpKept
<1>5. /\ w \in ObjectType /\ w.state = v.state /\ w.owner = v.owner /\ w.caps = v.caps /\ w.loan = v.loan
      /\ w.dma = v.dma /\ w.copies = v.copies /\ w.doomed = v.doomed /\ w.pins = 1
      /\ w.maps = v.maps /\ w.leaves = v.leaves /\ w.reach = v.reach
  BY <1>3, <1>4 DEF ObjectType
<1>6. /\ p \in OpType /\ p.at = "unmap" /\ p.object = x /\ p.mapping = m /\ p.root = op[o].root
      /\ p.peer = op[o].peer /\ p.done = op[o].done
  BY <1>3, <1>4 DEF OpType, OpStages
<1>v. v = obj[x]
  OBVIOUS
<1> HIDE DEF v, w, p
<1>7. Used(w) = Used(v) /\ v.reach = v.maps /\ v.leaves = v.maps
  BY <1>2, <1>3, <1>5 DEF Used, Kept, ObjectKept
<1>8. Kept(slot, closer, x, w)
  BY <1>2, <1>3, <1>5, <1>7, MappingsMoved
<1>9. PinKept(p, w)
  BY <1>2, <1>4, <1>5, <1>6, <1>7 DEF PinKept
<1>10. /\ OpKept(slot, p) /\ \A y : ~Copying(p, y) /\ ~Copying(op[o], y)
       /\ \A s \in Roots : /\ RootLeased(p, s) <=> RootLeased(op[o], s)
                           /\ PeerLeased(p, s) <=> PeerLeased(op[o], s)
  BY <1>2, <1>3, <1>6, NoHandleFacts DEF OpKept, RootLeased, PeerLeased, Transfers, Copying
<1>11. /\ obj' \in [Objects -> ObjectType] /\ obj'[x] = w
       /\ \A y \in Objects : y # x => obj'[y] = obj[y]
  BY <1>2, <1>3, <1>5
<1>12. op' \in [Ops -> OpType] /\ op'[o] = p /\ \A q \in Ops : q # o => op'[q] = op[q]
  BY <1>2, <1>3, <1>6
<1> QED
  BY <1>2, <1>3, <1>5, <1>6, <1>8, <1>9, <1>10, <1>11, <1>12, <1>v, HolderStep

LEMMA RemoveLeafKeeps ==
  ASSUME MemoryInvariant, NEW o \in Ops, RemoveLeaf(o)
  PROVE  MemoryInvariant'
<1> DEFINE x == op[o].object
           m == op[o].mapping
           v == obj[x]
           w == [obj[x] EXCEPT !.leaves = @ \ {m}]
           p == [op[o] EXCEPT !.done = TRUE]
<1>1. /\ op[o].at \in {"unmap", "revoke"} /\ ~op[o].done /\ UNCHANGED <<slot, closer, entry>>
      /\ Refused \/ Agreed
      /\ \/ obj' = [obj EXCEPT ![x] = w] /\ op' = [op EXCEPT ![o] = p]
         \/ obj' = obj /\ Over(o)
  BY DEF RemoveLeaf
<1>2. Pinning(op[o])
  BY <1>1 DEF Pinning
<1>3. x \in Objects /\ PinKept(op[o], v)
  BY <1>2, OtherHolders
<1>4. /\ Typed /\ OpKept(slot, op[o]) /\ op[o] \in OpType /\ v \in ObjectType /\ Kept(slot, closer, x, v)
      /\ op \in [Ops -> OpType] /\ obj \in [Objects -> ObjectType] /\ faults \in 0 .. MaxFaults
  BY <1>3, KeptObjects DEF MemoryInvariant, Tables, OpsKept, Typed
<1>5. CASE obj' = obj /\ Over(o)
  <2>1. obj' = [obj EXCEPT ![x] = v]
    BY <1>3, <1>4, <1>5
  <2> HIDE DEF v
  <2> QED
    BY <1>1, <1>2, <1>4, <1>5, <2>1, HolderEnds DEF v
<1>6. CASE obj' = [obj EXCEPT ![x] = w] /\ op' = [op EXCEPT ![o] = p]
  <2>1. /\ v.state = "live" /\ v.pins = 1 /\ v.reach = v.maps /\ v.leaves = v.maps
    BY <1>1, <1>3 DEF PinKept
  <2>2. v.leaves \ {m} \in SUBSET Mappings
    BY <1>4 DEF ObjectType
  <2>3. /\ w \in ObjectType /\ w.state = v.state /\ w.owner = v.owner /\ w.caps = v.caps /\ w.loan = v.loan
        /\ w.dma = v.dma /\ w.copies = v.copies /\ w.doomed = v.doomed /\ w.pins = v.pins
        /\ w.maps = v.maps /\ w.leaves = v.leaves \ {m} /\ w.reach = v.reach /\ w.fence = v.fence
    BY <1>4, <2>2 DEF ObjectType
  <2>4. /\ p \in OpType /\ p.at = op[o].at /\ p.object = x /\ p.mapping = m /\ p.root = op[o].root
        /\ p.peer = op[o].peer /\ p.prior = op[o].prior /\ p.done
    BY <1>4 DEF OpType
  <2>v. v = obj[x] /\ x = op[o].object /\ m = op[o].mapping
    OBVIOUS
  <2> HIDE DEF v, w, p, m, x
  <2>5. Used(w) = v.maps /\ Used(v) = v.maps
    BY <2>1, <2>3 DEF Used
  <2>6. Kept(slot, closer, x, w)
    BY <1>4, <2>1, <2>3, <2>5, MappingsMoved
  <2>7. \A loan : LoanKept(v, loan) => LoanKept(w, loan)
    BY <2>3, <2>5, LessUsed
  <2>8. PinKept(p, w)
    BY <1>1, <1>3, <2>1, <2>3, <2>4, <2>7, <2>v DEF PinKept
  <2>9. /\ OpKept(slot, p) /\ \A y : ~Copying(p, y) /\ ~Copying(op[o], y)
         /\ \A s \in Roots : /\ RootLeased(p, s) <=> RootLeased(op[o], s)
                             /\ PeerLeased(p, s) <=> PeerLeased(op[o], s)
    BY <1>1, <1>4, <2>4, NoHandleFacts DEF OpKept, RootLeased, PeerLeased, Transfers, Copying
  <2>10. /\ obj' \in [Objects -> ObjectType] /\ obj'[x] = w
         /\ \A y \in Objects : y # x => obj'[y] = obj[y]
    BY <1>3, <1>4, <1>6, <2>3
  <2>11. op' \in [Ops -> OpType] /\ op'[o] = p /\ \A q \in Ops : q # o => op'[q] = op[q]
    BY <1>4, <1>6, <2>4
  <2>12. faults' \in 0 .. MaxFaults
    BY <1>1, <1>4, RefusalCounted
  <2> QED
    BY <1>1, <1>2, <1>3, <2>3, <2>4, <2>6, <2>8, <2>9, <2>10, <2>11, <2>12, <2>v, HolderStep
<1> QED
  BY <1>1, <1>5, <1>6

LEMMA UnmapFinishKeeps ==
  ASSUME MemoryInvariant, NEW o \in Ops, UnmapFinish(o)
  PROVE  MemoryInvariant'
<1> DEFINE x == op[o].object
           m == op[o].mapping
           v == obj[x]
           f == Flushed(obj[x], {m})
           u == [f EXCEPT !.maps = @ \ {m}, !.pins = @ - 1]
<1>1. /\ op[o].at = "unmap" /\ op[o].done /\ UNCHANGED <<slot, closer, entry>> /\ (Refused \/ Agreed) /\ Over(o)
      /\ obj' = [obj EXCEPT ![x] = Unpinned(u)] \/ obj' = obj
  BY DEF UnmapFinish
<1>2. Pinning(op[o])
  BY <1>1 DEF Pinning
<1>3. x \in Objects /\ PinKept(op[o], v)
  BY <1>2, OtherHolders
<1>4. v \in ObjectType /\ Kept(slot, closer, x, v) /\ obj \in [Objects -> ObjectType]
  BY <1>3, KeptObjects DEF MemoryInvariant, Typed
<1>5. /\ m \in v.maps /\ v.reach = v.maps /\ v.leaves = v.maps \ {m} /\ v.state = "live" /\ v.pins = 1
  BY <1>1, <1>3 DEF PinKept
<1>6. /\ f \in ObjectType /\ f.reach = v.reach \ ({m} \ v.leaves) /\ f.state = v.state /\ f.owner = v.owner
      /\ f.caps = v.caps /\ f.maps = v.maps /\ f.leaves = v.leaves /\ f.loan = v.loan /\ f.pins = v.pins
      /\ f.copies = v.copies /\ f.dma = v.dma /\ f.doomed = v.doomed
  BY <1>4, FlushedFields
<1> HIDE DEF f, v, m
<1>7. f.reach = v.maps \ {m} /\ f.pins - 1 = 0 /\ 0 \in 0 .. 1 /\ f.maps \ {m} \in SUBSET Mappings
  BY <1>5, <1>6 DEF ObjectType
<1>8. /\ u \in ObjectType /\ u.reach = f.reach /\ u.state = v.state /\ u.owner = v.owner
      /\ u.caps = v.caps /\ u.maps = v.maps \ {m} /\ u.leaves = v.leaves /\ u.loan = v.loan /\ u.pins = 0
      /\ u.copies = v.copies /\ u.dma = v.dma /\ u.doomed = v.doomed
  BY <1>6, <1>7 DEF ObjectType
<1> HIDE DEF u
<1>9. Used(u) = u.maps /\ u.maps \subseteq Used(v) /\ u.maps \subseteq v.maps
       /\ u.reach = u.maps /\ u.leaves = u.maps
  BY <1>5, <1>6, <1>7, <1>8 DEF Used
<1>10. Kept(slot, closer, x, u)
  BY <1>4, <1>5, <1>8, <1>9, MappingsMoved
<1>11. Kept(slot, closer, x, Unpinned(u)) /\ Unpinned(u).copies = v.copies
  BY <1>8, <1>10, UnpinnedKept
<1>12. obj' = obj => obj' = [obj EXCEPT ![x] = v]
  BY <1>3, <1>4 DEF v
<1>13. PICK w \in {Unpinned(u), v} : obj' = [obj EXCEPT ![x] = w]
  BY <1>1, <1>12
<1>14. Kept(slot, closer, x, w) /\ w.copies = v.copies
  BY <1>4, <1>11
<1> QED
  BY <1>1, <1>2, <1>13, <1>14, HolderEnds DEF v

LEMMA RevokeBeginKeeps ==
  ASSUME MemoryInvariant, NEW o \in Ops, NEW x \in Objects, RevokeBegin(o, x)
  PROVE  MemoryInvariant'
<1> DEFINE v == obj[x]
           b == op[o].peer.root
           M == Mapped(x, b)
           m == IF M = {} THEN NoMapping ELSE CHOOSE n \in M : TRUE
           none == M = {}
           loan == [kind |-> "revoking", who |-> {}]
           w == [obj[x] EXCEPT !.pins = @ + 1, !.loan = loan]
           p == [op[o] EXCEPT !.at = "revoke", !.object = x, !.prior = v.loan, !.done = none, !.mapping = m]
<1>1. /\ op[o].at = "both" /\ UNCHANGED <<slot, closer, entry, faults>>
      /\ v.owner = op[o].root.root /\ v.state = "live" /\ v.caps[op[o].root.root] # "none"
      /\ v.fence # "escrow" /\ v.caps[b] # "none" /\ ~v.doomed /\ v.pins = 0 /\ v.dma = {}
      /\ v.loan.kind \in {"read", "write"} /\ b \in v.loan.who
  BY DEF RevokeBegin, Holds
<1>2. obj' = [obj EXCEPT ![x] = w] /\ op' = [op EXCEPT ![o] = p]
  BY DEF RevokeBegin
<1>3. /\ OpKept(slot, op[o]) /\ op[o] \in OpType /\ v \in ObjectType /\ Kept(slot, closer, x, v)
      /\ op \in [Ops -> OpType] /\ obj \in [Objects -> ObjectType] /\ faults \in 0 .. MaxFaults
  BY KeptObjects DEF MemoryInvariant, Tables, OpsKept, Typed
<1>4. /\ v.pins + 1 = 1 /\ 1 \in 0 .. 1 /\ loan \in LoanType /\ v.loan \in LoanType /\ none \in BOOLEAN
      /\ loan.kind = "revoking" /\ loan.who = {}
  BY <1>1, <1>3 DEF ObjectType, LoanType
<1>5. /\ v.reach = v.maps /\ v.leaves = v.maps /\ LoanKept(v, v.loan) /\ (v.copies # 0 => ReadOnly(v))
      /\ \A n, k \in v.maps : n.root = k.root => n = k
      /\ Used(v) = v.maps /\ v.maps \subseteq Mappings
  BY <1>1, <1>3 DEF Kept, ObjectKept, Used, ObjectType
<1>6. /\ none => m = NoMapping /\ \A n \in v.maps : n.root # b
      /\ ~none => m \in v.maps /\ m.root = b
  BY DEF Mapped
<1>7. m \in Mappings \cup {NoMapping}
  BY <1>5, <1>6
<1>m. /\ m # NoMapping => m \in v.maps /\ m.root = b
      /\ \A n \in v.maps : n.root = b => n = m
      /\ none => v.maps \ {m} = v.maps
  BY <1>5, <1>6, NoHandleFacts
<1> HIDE DEF M, m, none, loan
<1>8. /\ w \in ObjectType /\ w.state = v.state /\ w.owner = v.owner /\ w.caps = v.caps /\ w.loan = loan
      /\ w.dma = v.dma /\ w.copies = v.copies /\ w.doomed = v.doomed /\ w.pins = 1
      /\ w.maps = v.maps /\ w.leaves = v.leaves /\ w.reach = v.reach /\ w.fence = v.fence
  BY <1>3, <1>4 DEF ObjectType
<1>9. /\ p \in OpType /\ p.at = "revoke" /\ p.object = x /\ p.mapping = m /\ p.root = op[o].root
      /\ p.peer = op[o].peer /\ p.done = none /\ p.prior = v.loan
  BY <1>3, <1>4, <1>7 DEF OpType, OpStages
<1>v. v = obj[x] /\ b = op[o].peer.root
  OBVIOUS
<1> HIDE DEF v, w, p, b
<1>10. Used(w) = Used(v)
  BY <1>8 DEF Used
<1>11. /\ \A l : LoanKept(v, l) => LoanKept(w, l)
       /\ ReadOnly(v) => ReadOnly(w)
       /\ TranslationKept(slot, v) => TranslationKept(slot, w)
  BY <1>8, <1>10, LessUsed
<1>12. LoanKept(w, loan)
  BY <1>1, <1>4, <1>5, <1>10 DEF LoanKept, ReadOnly
<1>13. ObjectKept(w)
  BY <1>1, <1>5, <1>8, <1>11, <1>12 DEF ObjectKept
<1>14. Kept(slot, closer, x, w)
  BY <1>3, <1>8, <1>10, <1>11, <1>13 DEF Kept, StrayKept, FinalKept
<1>15. PinKept(p, w)
  <2>1. w.reach = w.maps /\ w.leaves = IF p.done THEN w.maps \ {p.mapping} ELSE w.maps
    BY <1>5, <1>8, <1>9, <1>m
  <2>2. LoanKept(w, p.prior) /\ p.prior.kind \in {"read", "write"} /\ p.peer.root \in p.prior.who
    BY <1>1, <1>5, <1>9, <1>11, <1>v
  <2>3. /\ \A n \in w.maps : n.root = p.peer.root => n = p.mapping
        /\ p.mapping # NoMapping => p.mapping \in w.maps /\ p.mapping.root = p.peer.root
    BY <1>8, <1>9, <1>m, <1>v
  <2>4. /\ w.owner = p.root.root /\ w.fence # "escrow" /\ w.loan.kind = "revoking" /\ w.dma = {}
        /\ w.caps[p.root.root] # "none" /\ w.caps[p.peer.root] # "none"
        /\ w.state = "live" /\ w.pins = 1 /\ p.at = "revoke"
    BY <1>1, <1>4, <1>8, <1>9, <1>v
  <2> QED
    BY <2>1, <2>2, <2>3, <2>4 DEF PinKept
<1>16. /\ OpKept(slot, p) /\ \A y : ~Copying(p, y) /\ ~Copying(op[o], y)
       /\ \A s \in Roots : /\ RootLeased(p, s) <=> RootLeased(op[o], s)
                           /\ PeerLeased(p, s) <=> PeerLeased(op[o], s)
  BY <1>1, <1>3, <1>9, NoHandleFacts DEF OpKept, RootLeased, PeerLeased, Transfers, Copying
<1>17. /\ obj' \in [Objects -> ObjectType] /\ obj'[x] = w
       /\ \A y \in Objects : y # x => obj'[y] = obj[y]
  BY <1>2, <1>3, <1>8
<1>18. op' \in [Ops -> OpType] /\ op'[o] = p /\ \A q \in Ops : q # o => op'[q] = op[q]
  BY <1>2, <1>3, <1>9
<1> QED
  BY <1>1, <1>3, <1>8, <1>9, <1>14, <1>15, <1>16, <1>17, <1>18, <1>v, HolderStep

\* A borrower leaves a loan.
LEMMA WithoutFields ==
  ASSUME NEW loan \in LoanType, NEW r \in Roots
  PROVE  /\ Without(loan, r) \in LoanType
         /\ loan.who \subseteq {r} => Without(loan, r).kind = "none" /\ Without(loan, r).who = {}
         /\ ~(loan.who \subseteq {r}) => /\ Without(loan, r).kind = loan.kind
                                         /\ Without(loan, r).who = loan.who \ {r}
<1>1. CASE loan.who \subseteq {r}
  BY <1>1 DEF Without, NoLoan, LoanType
<1>2. CASE ~(loan.who \subseteq {r})
  <2>1. Without(loan, r) = [loan EXCEPT !.who = @ \ {r}]
    BY <1>2 DEF Without
  <2>2. loan.who \ {r} \in SUBSET Roots
    BY DEF LoanType
  <2> QED
    BY <1>2, <2>1, <2>2 DEF LoanType
<1> QED
  BY <1>1, <1>2

\* Without the borrower's mapping the remaining loan covers what is used.
LEMMA WithoutKept ==
  ASSUME NEW v, NEW w, NEW loan \in LoanType, NEW r \in Roots, LoanKept(v, loan), r \in loan.who,
         Used(w) \subseteq Used(v), w.dma \subseteq v.dma, w.owner = v.owner,
         \A m \in Used(w) : m.root # r
  PROVE  LoanKept(w, Without(loan, r))
<1>1. LoanKept(w, loan)
  BY LessUsed
<1>2. loan.kind \in {"none", "read", "write", "revoking"}
  BY DEF LoanType
<1>3. loan.kind \in {"read", "write"}
  BY <1>1, <1>2 DEF LoanKept
<1>4. /\ Without(loan, r) \in LoanType
      /\ loan.who \subseteq {r} => Without(loan, r).kind = "none" /\ Without(loan, r).who = {}
      /\ ~(loan.who \subseteq {r}) => /\ Without(loan, r).kind = loan.kind
                                      /\ Without(loan, r).who = loan.who \ {r}
  BY WithoutFields
<1> DEFINE l == Without(loan, r)
<1>5. CASE loan.kind = "read"
  <2>1. ReadOnly(w) /\ \A m \in Used(w) : m.root \in {w.owner} \cup loan.who
    BY <1>1, <1>5 DEF LoanKept
  <2>2. CASE loan.who \subseteq {r}
    BY <1>4, <2>1, <2>2 DEF LoanKept
  <2>3. CASE ~(loan.who \subseteq {r})
    BY <1>4, <1>5, <2>1, <2>3 DEF LoanKept
  <2> QED
    BY <2>2, <2>3
<1>6. CASE loan.kind = "write"
  <2>1. loan.who = {r} /\ \A m \in Used(w) : m.root = r
    BY <1>1, <1>6 DEF LoanKept
  <2> QED
    BY <1>4, <2>1 DEF LoanKept
<1> QED
  BY <1>3, <1>5, <1>6

LEMMA RevokeFinishKeeps ==
  ASSUME MemoryInvariant, NEW o \in Ops, RevokeFinish(o)
  PROVE  MemoryInvariant'
<1> DEFINE x == op[o].object
           b == op[o].peer.root
           M == Mapped(x, b)
           m == op[o].mapping
           v == obj[x]
           f == Flushed(obj[x], M)
           l == Without(op[o].prior, b)
           u == [f EXCEPT !.maps = @ \ M, !.pins = @ - 1, !.loan = l, !.caps[b] = "none"]
<1>1. /\ op[o].at = "revoke" /\ op[o].done /\ UNCHANGED <<slot, closer, entry>> /\ (Refused \/ Agreed) /\ Over(o)
      /\ obj' = [obj EXCEPT ![x] = Unpinned(u)] \/ obj' = obj
  BY DEF RevokeFinish
<1>2. Pinning(op[o])
  BY <1>1, SMTT(30) DEF Pinning
<1>3. x \in Objects /\ PinKept(op[o], v)
  BY <1>2, OtherHolders, SMTT(30)
<1>4. /\ v \in ObjectType /\ Kept(slot, closer, x, v) /\ obj \in [Objects -> ObjectType]
      /\ OpKept(slot, op[o]) /\ op[o] \in OpType
  BY <1>3, KeptObjects, SMTT(30) DEF MemoryInvariant, Typed, Tables, OpsKept
<1>5. /\ v.reach = v.maps /\ v.leaves = v.maps \ {m} /\ v.state = "live" /\ v.pins = 1
      /\ \A n \in v.maps : n.root = b => n = m
      /\ m # NoMapping => m \in v.maps /\ m.root = b
      /\ LoanKept(v, op[o].prior) /\ b \in op[o].prior.who
  BY <1>1, <1>3 DEF PinKept
<1>6. b \in Roots /\ op[o].prior \in LoanType /\ v.maps \subseteq Mappings
  BY <1>1, <1>4, NoHandleFacts DEF OpKept, OpType, ObjectType
<1>7. v.maps \ M = v.maps \ {m} /\ \A n \in v.maps \ M : n.root # b
  BY <1>5, <1>6, NoHandleFacts DEF Mapped
<1>8. /\ f \in ObjectType /\ f.reach = v.reach \ (M \ v.leaves) /\ f.state = v.state /\ f.owner = v.owner
      /\ f.caps = v.caps /\ f.maps = v.maps /\ f.leaves = v.leaves /\ f.loan = v.loan /\ f.pins = v.pins
      /\ f.copies = v.copies /\ f.dma = v.dma /\ f.doomed = v.doomed
  BY <1>4, FlushedFields
<1>9. l \in LoanType
  BY <1>6, WithoutFields
<1>10. M \subseteq v.maps
  BY DEF Mapped
<1> HIDE DEF f, v, m, M, l, b
<1>11. f.reach = v.maps \ M /\ f.pins - 1 = 0 /\ 0 \in 0 .. 1 /\ f.maps \ M \in SUBSET Mappings
  BY <1>5, <1>7, <1>8, <1>10 DEF ObjectType
<1>12. [f.caps EXCEPT ![b] = "none"] \in [Roots -> Caps]
  BY <1>8 DEF ObjectType, Caps
<1>13. /\ u \in ObjectType /\ u.reach = f.reach /\ u.state = v.state /\ u.owner = v.owner
       /\ u.caps = [f.caps EXCEPT ![b] = "none"] /\ u.maps = v.maps \ M /\ u.leaves = v.leaves
       /\ u.loan = l /\ u.pins = 0 /\ u.copies = v.copies /\ u.dma = v.dma /\ u.doomed = v.doomed
  BY <1>8, <1>9, <1>11, <1>12 DEF ObjectType
<1> HIDE DEF u
<1>14. /\ Used(u) = u.maps /\ u.maps \subseteq Used(v) /\ u.maps \subseteq v.maps
       /\ u.reach = u.maps /\ u.leaves = u.maps
  BY <1>5, <1>7, <1>11, <1>13 DEF Used
<1>15. LoanKept(u, u.loan)
  BY <1>5, <1>6, <1>7, <1>13, <1>14, WithoutKept DEF l
<1>16. (ReadOnly(v) => ReadOnly(u)) /\ (TranslationKept(slot, v) => TranslationKept(slot, u))
  BY <1>13, <1>14, LessUsed
<1>17. ObjectKept(u)
  BY <1>4, <1>5, <1>13, <1>14, <1>15, <1>16 DEF Kept, ObjectKept
<1>18. FinalKept(closer, u)
  BY <1>4, <1>6, <1>8, <1>13, <1>14 DEF Kept, FinalKept, ObjectType
<1>19. Kept(slot, closer, x, u)
  BY <1>4, <1>13, <1>14, <1>16, <1>17, <1>18 DEF Kept, StrayKept
<1>20. Kept(slot, closer, x, Unpinned(u)) /\ Unpinned(u).copies = v.copies
  BY <1>13, <1>19, UnpinnedKept
<1>21. obj' = obj => obj' = [obj EXCEPT ![x] = v]
  BY <1>3, <1>4 DEF v
<1>22. PICK w \in {Unpinned(u), v} : obj' = [obj EXCEPT ![x] = w]
  BY <1>1, <1>21
<1>23. Kept(slot, closer, x, w) /\ w.copies = v.copies
  BY <1>4, <1>20
<1> QED
  BY <1>1, <1>2, <1>22, <1>23, HolderEnds DEF v

LEMMA DmaPinKeeps ==
  ASSUME MemoryInvariant, NEW o \in Ops, NEW x \in Objects, NEW writes \in BOOLEAN, NEW exclusive \in BOOLEAN,
         DmaPin(o, x, writes, exclusive)
  PROVE  MemoryInvariant'
<1> DEFINE v == obj[x]
           d == [root |-> op[o].root.root, writes |-> writes, exclusive |-> exclusive]
           w == [obj[x] EXCEPT !.dma = @ \cup {d}]
<1>1. /\ op[o].at = "leased" /\ UNCHANGED <<slot, closer, entry, faults>> /\ Over(o)
      /\ v.state = "live" /\ v.pins = 0 /\ ~(writes /\ v.loan.kind = "read") /\ (writes => v.copies = 0)
      /\ obj' = [obj EXCEPT ![x] = w]
  BY DEF DmaPin, DmaAdmits, Holds
<1>2. /\ OpKept(slot, op[o]) /\ op[o] \in OpType /\ v \in ObjectType /\ Kept(slot, closer, x, v)
      /\ op \in [Ops -> OpType] /\ obj \in [Objects -> ObjectType] /\ faults \in 0 .. MaxFaults
  BY KeptObjects DEF MemoryInvariant, Tables, OpsKept, Typed
<1>3. d \in DmaType /\ d.writes = writes
  BY <1>1, <1>2, NoHandleFacts DEF OpKept, DmaType
<1> HIDE DEF d
<1>4. v.dma \cup {d} \in SUBSET DmaType
  BY <1>2, <1>3 DEF ObjectType
<1>5. /\ w \in ObjectType /\ w.state = v.state /\ w.owner = v.owner /\ w.caps = v.caps /\ w.loan = v.loan
      /\ w.dma = v.dma \cup {d} /\ w.copies = v.copies /\ w.doomed = v.doomed /\ w.pins = v.pins
      /\ w.maps = v.maps /\ w.leaves = v.leaves /\ w.reach = v.reach
  BY <1>2, <1>4 DEF ObjectType
<1>v. v = obj[x]
  OBVIOUS
<1> HIDE DEF v, w
<1>6. Used(w) = Used(v) /\ ObjectKept(v)
  BY <1>2, <1>5 DEF Used, Kept
<1>7. ReadOnly(v) /\ ~writes => ReadOnly(w)
  BY <1>3, <1>5, <1>6 DEF ReadOnly
<1>8. LoanKept(w, w.loan)
  BY <1>1, <1>5, <1>6, <1>7 DEF LoanKept, ObjectKept
<1>9. ObjectKept(w)
  BY <1>1, <1>5, <1>6, <1>7, <1>8 DEF ObjectKept
<1>10. Kept(slot, closer, x, w)
  BY <1>2, <1>5, <1>6, <1>9 DEF Kept, StrayKept, TranslationKept, FinalKept
<1>11. /\ op' \in [Ops -> OpType] /\ \A q \in Ops : q # o => op'[q] = op[q]
       /\ OpKept(slot, op'[o]) /\ ~Pinning(op'[o]) /\ \A y : ~Copying(op'[o], y)
       /\ \A r \in Roots : /\ RootLeased(op'[o], r) <=> RootLeased(op[o], r)
                           /\ PeerLeased(op'[o], r) <=> PeerLeased(op[o], r)
  BY <1>1, <1>2, OverFacts
<1>12. /\ obj' \in [Objects -> ObjectType] /\ obj'[x] = w
       /\ \A y \in Objects : y # x => obj'[y] = obj[y]
  BY <1>1, <1>2, <1>5
<1>13. \A y : ~Copying(op[o], y)
  BY <1>1 DEF Copying
<1> QED
  BY <1>1, <1>2, <1>5, <1>10, <1>11, <1>12, <1>13, <1>v, HolderStep

\* A copy of an object that nobody writes.
LEMMA CopyTaken ==
  ASSUME NEW s, NEW c, NEW x, NEW v, NEW w \in ObjectType, Kept(s, c, x, v), v.state = "live",
         v.pins = 0, v.dma = {}, \A m \in v.maps : ~m.writable,
         w.state = v.state, w.owner = v.owner, w.caps = v.caps, w.loan = v.loan, w.dma = v.dma,
         w.doomed = v.doomed, w.pins = v.pins, w.maps = v.maps, w.leaves = v.leaves, w.reach = v.reach
  PROVE  Kept(s, c, x, w)
<1>1. Used(w) = Used(v) /\ Used(v) = v.maps /\ ObjectKept(v)
  BY DEF Used, Kept, ObjectKept
<1>2. ReadOnly(w)
  BY <1>1 DEF ReadOnly
<1>3. LoanKept(w, w.loan)
  BY <1>1, LessUsed DEF ObjectKept
<1>4. ObjectKept(w)
  BY <1>1, <1>2, <1>3 DEF ObjectKept
<1> QED
  BY <1>1, <1>4 DEF Kept, StrayKept, TranslationKept, FinalKept

LEMMA CopyPinKeeps ==
  ASSUME MemoryInvariant, NEW o \in Ops, NEW r \in Roots, NEW x \in Objects, CopyPin(o, r, x)
  PROVE  MemoryInvariant'
<1> DEFINE v == obj[x]
           w == [obj[x] EXCEPT !.copies = @ + 1]
           p == [op[o] EXCEPT !.at = "copy", !.object = x]
<1>1. /\ op[o] = Idle /\ UNCHANGED <<slot, closer, entry, faults>>
      /\ v.state = "live" /\ v.pins = 0 /\ v.dma = {} /\ \A m \in v.maps : ~m.writable
      /\ obj' = [obj EXCEPT ![x] = w] /\ op' = [op EXCEPT ![o] = p]
  BY DEF CopyPin, Holds
<1>2. /\ op[o] \in OpType /\ v \in ObjectType /\ Kept(slot, closer, x, v)
      /\ op \in [Ops -> OpType] /\ obj \in [Objects -> ObjectType] /\ faults \in 0 .. MaxFaults
  BY KeptObjects DEF MemoryInvariant, Typed
<1>3. v.copies + 1 \in Nat
  BY <1>2 DEF ObjectType
<1>4. /\ w \in ObjectType /\ w.state = v.state /\ w.owner = v.owner /\ w.caps = v.caps /\ w.loan = v.loan
      /\ w.dma = v.dma /\ w.copies = v.copies + 1 /\ w.doomed = v.doomed /\ w.pins = v.pins
      /\ w.maps = v.maps /\ w.leaves = v.leaves /\ w.reach = v.reach
  BY <1>2, <1>3 DEF ObjectType
<1>5. /\ p \in OpType /\ p.at = "copy" /\ p.object = x /\ p.root = NoHandle /\ p.peer = NoHandle
  BY <1>1, <1>2, IdleFacts DEF OpType, OpStages
<1>v. v = obj[x]
  OBVIOUS
<1> HIDE DEF v, w, p
<1>6. Kept(slot, closer, x, w)
  BY <1>1, <1>2, <1>4, CopyTaken
<1>7. /\ OpKept(slot, p) /\ ~Pinning(p) /\ \A y : Copying(p, y) <=> y = x
      /\ \A s \in Roots : ~RootLeased(p, s) /\ ~PeerLeased(p, s)
  BY <1>5, NoHandleFacts DEF OpKept, RootLeased, PeerLeased, Transfers, Copying, Pinning
<1>8. /\ obj' \in [Objects -> ObjectType] /\ obj'[x] = w
      /\ \A y \in Objects : y # x => obj'[y] = obj[y]
  BY <1>1, <1>2, <1>4
<1>9. op' \in [Ops -> OpType] /\ op'[o] = p /\ \A q \in Ops : q # o => op'[q] = op[q]
  BY <1>1, <1>2, <1>5
<1> QED
  BY <1>1, <1>2, <1>4, <1>6, <1>7, <1>8, <1>9, <1>v, IdleFacts, HolderStep

LEMMA PrepareKeeps ==
  ASSUME MemoryInvariant, NEW o \in Ops, NEW r \in Roots, NEW t \in Roots, NEW x \in Objects,
         NEW mode \in Transfers, Prepare(o, r, t, x, mode)
  PROVE  MemoryInvariant'
<1> DEFINE v == obj[x]
           w == [obj[x] EXCEPT !.copies = @ + 1, !.fence = "escrow", !.source = Handle(r)]
           p == [op[o] EXCEPT !.at = mode, !.root = Handle(r), !.peer = Handle(t), !.object = x]
<1>1. /\ op[o] = Idle /\ UNCHANGED <<slot, closer, entry, faults>> /\ r # t
      /\ v.state = "live" /\ v.pins = 0 /\ v.dma = {} /\ \A m \in v.maps : ~m.writable
      /\ slot[r].live /\ slot[t].live
  BY DEF Prepare, Holds, ValidSource, Accepting, Live, Handle
<1>a. obj' = [obj EXCEPT ![x] = w] /\ op' = [op EXCEPT ![o] = p]
  BY DEF Prepare
<1>2. /\ op[o] \in OpType /\ v \in ObjectType /\ Kept(slot, closer, x, v) /\ Typed /\ Tables
      /\ op \in [Ops -> OpType] /\ obj \in [Objects -> ObjectType] /\ faults \in 0 .. MaxFaults
  BY KeptObjects DEF MemoryInvariant, Typed
<1>3. /\ v.copies + 1 \in Nat /\ Handle(r) \in Handles /\ Handle(t) \in Handles
      /\ Handle(r).root = r /\ Handle(t).root = t
  BY <1>1, <1>2, HandleFacts DEF ObjectType
<1>b. /\ Handle(r) \in Handles \cup {NoHandle} /\ Handle(t) \in Handles \cup {NoHandle} /\ mode \in OpStages
  BY <1>3 DEF Transfers, OpStages
<1>4. /\ w \in ObjectType /\ w.state = v.state /\ w.owner = v.owner /\ w.caps = v.caps /\ w.loan = v.loan
      /\ w.dma = v.dma /\ w.copies = v.copies + 1 /\ w.doomed = v.doomed /\ w.pins = v.pins
      /\ w.maps = v.maps /\ w.leaves = v.leaves /\ w.reach = v.reach
  BY <1>2, <1>3, <1>b DEF ObjectType
<1>5. /\ p \in OpType /\ p.at = mode /\ p.object = x /\ p.root = Handle(r) /\ p.peer = Handle(t)
  BY <1>2, <1>b DEF OpType
<1>v. v = obj[x]
  OBVIOUS
<1> HIDE DEF v, w, p
<1>6. Kept(slot, closer, x, w)
  BY <1>1, <1>2, <1>4, CopyTaken
<1>7. /\ OpKept(slot, p) /\ ~Pinning(p) /\ \A y : Copying(p, y) <=> y = x
      /\ \A s \in Roots : ~RootLeased(p, s) /\ ~PeerLeased(p, s)
  BY <1>1, <1>3, <1>5, NoHandleFacts DEF OpKept, RootLeased, PeerLeased, Transfers, Copying, Pinning
<1>8. /\ obj' \in [Objects -> ObjectType] /\ obj'[x] = w
      /\ \A y \in Objects : y # x => obj'[y] = obj[y]
  BY <1>a, <1>2, <1>4
<1>9. op' \in [Ops -> OpType] /\ op'[o] = p /\ \A q \in Ops : q # o => op'[q] = op[q]
  BY <1>a, <1>2, <1>5
<1> QED
  BY <1>1, <1>2, <1>4, <1>6, <1>7, <1>8, <1>9, <1>v, IdleFacts, HolderStep

LEMMA CloseAgainKeeps ==
  ASSUME MemoryInvariant, NEW o \in Ops, CloseAgain(o)
  PROVE  MemoryInvariant'
<1> DEFINE x == op[o].object
           v == obj[x]
           w == IF MayClose(x, op[o].root.root) THEN Closed(obj[x]) ELSE obj[x]
<1>1. /\ op[o].at = "close" /\ UNCHANGED <<slot, closer, entry, faults>> /\ Over(o)
      /\ obj' = [obj EXCEPT ![x] = w]
  BY DEF CloseAgain
<1>2. /\ OpKept(slot, op[o]) /\ op[o] \in OpType /\ op \in [Ops -> OpType]
      /\ obj \in [Objects -> ObjectType] /\ faults \in 0 .. MaxFaults /\ PinsKept /\ ClaimsKept
  BY DEF MemoryInvariant, Tables, OpsKept, Typed
<1>3. x \in Objects
  BY <1>1, <1>2 DEF OpKept
<1>4. Kept(slot, closer, x, v)
  BY <1>3, KeptObjects
<1>5. /\ Kept(slot, closer, x, w) /\ w.copies = v.copies
      /\ w = v \/ v.pins = 0
  <2>1. CASE MayClose(x, op[o].root.root)
    <3>1. v.dma = {} /\ v.copies = 0 /\ v.pins = 0 /\ v.maps = {}
      BY <2>1 DEF MayClose
    <3>2. Kept(slot, closer, x, Closed(v)) /\ Closed(v).copies = 0
      BY <1>4, <3>1, ClosedKept
    <3>3. w = Closed(v)
      BY <2>1
    <3> HIDE DEF w, v, x
    <3> QED
      BY <3>1, <3>2, <3>3
  <2>2. CASE ~MayClose(x, op[o].root.root)
    <3>1. w = v
      BY <2>2
    <3> HIDE DEF w, v, x
    <3> QED
      BY <1>4, <3>1
  <2> QED
    BY <2>1, <2>2
<1>v. v = obj[x]
  OBVIOUS
<1> HIDE DEF w, v
<1>6. /\ op' \in [Ops -> OpType] /\ \A q \in Ops : q # o => op'[q] = op[q]
      /\ OpKept(slot, op'[o]) /\ ~Pinning(op'[o]) /\ \A y : ~Copying(op'[o], y)
      /\ \A r \in Roots : /\ RootLeased(op'[o], r) <=> RootLeased(op[o], r)
                          /\ PeerLeased(op'[o], r) <=> PeerLeased(op[o], r)
  BY <1>1, <1>2, OverFacts
<1>7. /\ obj' \in [Objects -> ObjectType] /\ obj'[x] = w
      /\ \A y \in Objects : y # x => obj'[y] = obj[y]
  BY <1>1, <1>2, <1>3, <1>5 DEF Kept
<1>8. \A y : ~Copying(op[o], y)
  BY <1>1 DEF Copying
<1> HIDE DEF x
<1>9. \A q \in Ops : Pinning(op[q]) /\ op[q].object = x => PinKept(op[q], w)
  BY <1>2, <1>3, <1>5, <1>v, NoHolder DEF PinsKept
<1>10. \A r \in Roots : Claiming(closer[r]) /\ closer[r].object = x => ClaimKept(closer[r], r, w)
  BY <1>2, <1>3, <1>5, <1>v, NoHolder DEF ClaimsKept
<1> QED
  BY <1>1, <1>2, <1>3, <1>5, <1>6, <1>7, <1>8, <1>9, <1>10, <1>v, OpObjectStep

LEMMA CommitKeeps ==
  ASSUME MemoryInvariant, NEW o \in Ops, Commit(o)
  PROVE  MemoryInvariant'
<1> DEFINE x == op[o].object
           v == obj[x]
           mode == op[o].at
           r == op[o].root.root
           t == op[o].peer.root
           l == Lent(obj[x].loan, t, mode)
           w1 == [obj[x] EXCEPT !.owner = t, !.caps[r] = "none", !.caps[t] = "all", !.fence = "none"]
           w2 == [obj[x] EXCEPT !.loan = l, !.caps[t] = mode, !.fence = "set"]
           p == [op[o] EXCEPT !.done = TRUE]
<1>1. /\ mode \in Transfers /\ UNCHANGED <<slot, closer, entry, faults>> /\ CommitValid(o)
      /\ op' = [op EXCEPT ![o] = p]
      /\ obj' = [obj EXCEPT ![x] = IF mode = "move" THEN w1 ELSE w2]
  BY DEF Commit, Transfers
<1>2. /\ OpKept(slot, op[o]) /\ op[o] \in OpType /\ op \in [Ops -> OpType]
      /\ obj \in [Objects -> ObjectType] /\ faults \in 0 .. MaxFaults
  BY DEF MemoryInvariant, Tables, OpsKept, Typed
<1>3. x \in Objects /\ op[o].peer \in Handles /\ op[o].root \in Handles /\ t \in Roots /\ r \in Roots
  BY <1>1, <1>2, NoHandleFacts DEF OpKept, Transfers
<1>4. Kept(slot, closer, x, v) /\ v \in ObjectType
  BY <1>3, KeptObjects DEF Kept
<1>5. /\ closer[t].at \in {"none", "begun", "fenced"} /\ v.state = "live" /\ v.pins = 0 /\ v.dma = {}
      /\ IF mode = "read"
         THEN v.loan.kind \notin {"write", "revoking"} /\ \A m \in v.maps : ~m.writable
         ELSE v.loan = NoLoan /\ v.maps = {}
  BY <1>1 DEF CommitValid, Accepting, ValidSource
<1>6. /\ ObjectKept(v) /\ StrayKept(closer, x, v) /\ TranslationKept(slot, v) /\ FinalKept(closer, v)
      /\ LoanKept(v, v.loan) /\ v.reach = v.maps /\ v.leaves = v.maps /\ Used(v) = v.maps
      /\ v.caps \in [Roots -> Caps] /\ v.loan \in LoanType
  BY <1>4, <1>5 DEF Kept, ObjectKept, Used, ObjectType
<1>7. /\ mode # "move" => l \in LoanType
      /\ l.kind = mode /\ l.who = v.loan.who \cup {t}
  BY <1>1, <1>3, <1>6 DEF Lent, LoanType, Transfers
<1>8. /\ p \in OpType /\ p.at = mode /\ p.object = x /\ p.root = op[o].root /\ p.peer = op[o].peer
  BY <1>2 DEF OpType
<1>9. /\ OpKept(slot, p) /\ ~Pinning(p) /\ \A y : Copying(p, y) <=> Copying(op[o], y)
      /\ \A s \in Roots : /\ RootLeased(p, s) <=> RootLeased(op[o], s)
                          /\ PeerLeased(p, s) <=> PeerLeased(op[o], s)
  <2> HIDE DEF p
  <2> QED
    BY <1>1, <1>2, <1>8, NoHandleFacts DEF OpKept, RootLeased, PeerLeased, Transfers, Copying, Pinning
<1>v. v = obj[x]
  OBVIOUS
<1>10. ASSUME NEW w \in ObjectType, obj' = [obj EXCEPT ![x] = w], Kept(slot, closer, x, w), w.copies = v.copies
       PROVE  MemoryInvariant'
  <2> HIDE DEF p, v, x
  <2>1. /\ obj' \in [Objects -> ObjectType] /\ obj'[x] = w
        /\ \A y \in Objects : y # x => obj'[y] = obj[y]
    BY <1>2, <1>3, <1>10
  <2>2. op' \in [Ops -> OpType] /\ op'[o] = p /\ \A q \in Ops : q # o => op'[q] = op[q]
    BY <1>1, <1>2, <1>8
  <2> QED
    BY <1>1, <1>2, <1>3, <1>5, <1>9, <1>10, <1>v, <2>1, <2>2, HolderStep
<1>11. CASE mode = "move"
  <2> DEFINE k == [[v.caps EXCEPT ![r] = "none"] EXCEPT ![t] = "all"]
  <2>1. k \in [Roots -> Caps] /\ \A s \in Roots : s # t /\ v.caps[s] = "none" => k[s] = "none"
    BY <1>3, <1>6 DEF Caps
  <2>a. t \in Roots \cup {NoRoot}
    BY <1>3
  <2>2. /\ w1 \in ObjectType /\ w1.state = v.state /\ w1.owner = t /\ w1.loan = v.loan
        /\ w1.dma = v.dma /\ w1.copies = v.copies /\ w1.doomed = v.doomed /\ w1.pins = v.pins
        /\ w1.maps = v.maps /\ w1.leaves = v.leaves /\ w1.reach = v.reach /\ w1.caps = k
    <3>1. w1 = [v EXCEPT !.owner = t, !.caps = k, !.fence = "none"]
      BY <1>4 DEF ObjectType
    <3> DEFINE u == [v EXCEPT !.owner = t, !.caps = k, !.fence = "none"]
    <3> HIDE DEF k, v, t
    <3>2. /\ u \in ObjectType /\ u.state = v.state /\ u.owner = t /\ u.loan = v.loan
          /\ u.dma = v.dma /\ u.copies = v.copies /\ u.doomed = v.doomed /\ u.pins = v.pins
          /\ u.maps = v.maps /\ u.leaves = v.leaves /\ u.reach = v.reach /\ u.caps = k
      BY <1>4, <2>1, <2>a DEF ObjectType
    <3> HIDE DEF w1, u
    <3> QED
      BY <3>1, <3>2 DEF u
  <2> HIDE DEF w1, v, k, t, r
  <2>3. Used(w1) = {} /\ w1.dma = {}
    BY <1>5, <1>6, <1>11, <2>2 DEF Used
  <2>4. LoanKept(w1, w1.loan) /\ ReadOnly(w1)
    BY <1>5, <1>11, <2>2, <2>3 DEF LoanKept, NoLoan, ReadOnly
  <2>5. ObjectKept(w1)
    BY <1>5, <1>6, <1>11, <2>2, <2>4 DEF ObjectKept
  <2>6. FinalKept(closer, w1)
    BY <1>5, <1>6, <2>1, <2>2 DEF FinalKept
  <2>7. Kept(slot, closer, x, w1)
    BY <2>2, <2>3, <2>5, <2>6 DEF Kept, StrayKept, TranslationKept
  <2> QED
    BY <1>1, <1>10, <1>11, <2>2, <2>7
<1>12. CASE mode # "move"
  <2> DEFINE k == [v.caps EXCEPT ![t] = mode]
  <2>1. k \in [Roots -> Caps] /\ \A s \in Roots : s # t /\ v.caps[s] = "none" => k[s] = "none"
    BY <1>1, <1>3, <1>6, <1>12 DEF Caps, Transfers
  <2>2. /\ w2 \in ObjectType /\ w2.state = v.state /\ w2.owner = v.owner /\ w2.loan = l
        /\ w2.dma = v.dma /\ w2.copies = v.copies /\ w2.doomed = v.doomed /\ w2.pins = v.pins
        /\ w2.maps = v.maps /\ w2.leaves = v.leaves /\ w2.reach = v.reach /\ w2.caps = k
    <3>1. l \in LoanType
      BY <1>7, <1>12
    <3>2. w2 = [v EXCEPT !.loan = l, !.caps = k, !.fence = "set"]
      BY <1>4 DEF ObjectType
    <3> DEFINE u == [v EXCEPT !.loan = l, !.caps = k, !.fence = "set"]
    <3> HIDE DEF k, v, t, l
    <3>3. /\ u \in ObjectType /\ u.state = v.state /\ u.owner = v.owner /\ u.loan = l
          /\ u.dma = v.dma /\ u.copies = v.copies /\ u.doomed = v.doomed /\ u.pins = v.pins
          /\ u.maps = v.maps /\ u.leaves = v.leaves /\ u.reach = v.reach /\ u.caps = k
      BY <1>4, <2>1, <3>1 DEF ObjectType
    <3> HIDE DEF w2, u
    <3> QED
      BY <3>2, <3>3 DEF u
  <2> HIDE DEF w2, v, k, t, r, l
  <2>3. Used(w2) = v.maps /\ w2.dma = {}
    BY <1>5, <1>6, <2>2 DEF Used
  <2>4. ReadOnly(w2)
    BY <1>5, <2>3 DEF ReadOnly
  <2>5. LoanKept(w2, w2.loan)
    <3>1. CASE mode = "read"
      <4>1. v.loan.kind \in {"none", "read"}
        BY <1>5, <1>6, <3>1 DEF LoanType
      <4>2. \A m \in v.maps : m.root \in {v.owner} \cup v.loan.who
        BY <1>6, <4>1 DEF LoanKept
      <4> QED
        BY <1>7, <2>2, <2>3, <2>4, <3>1, <4>2 DEF LoanKept
    <3>2. CASE mode = "write"
      <4>1. l.kind = "write" /\ l.who = {t}
        BY <1>5, <1>7, <3>2 DEF NoLoan
      <4>2. Used(w2) = {}
        BY <1>5, <2>3, <3>2
      <4> QED
        BY <1>3, <2>2, <4>1, <4>2 DEF LoanKept
    <3> QED
      BY <1>1, <1>12, <3>1, <3>2 DEF Transfers
  <2>6. ObjectKept(w2)
    BY <1>5, <1>6, <2>2, <2>4, <2>5 DEF ObjectKept
  <2>7. FinalKept(closer, w2)
    BY <1>5, <1>6, <2>1, <2>2 DEF FinalKept
  <2>8. TranslationKept(slot, w2) /\ StrayKept(closer, x, w2)
    BY <1>6, <2>2, <2>3 DEF TranslationKept, StrayKept
  <2>9. Kept(slot, closer, x, w2)
    BY <2>2, <2>6, <2>7, <2>8 DEF Kept
  <2> QED
    BY <1>1, <1>10, <1>12, <2>2, <2>9
<1> QED
  BY <1>11, <1>12

-----------------------------------------------------------------------------
(* Steps of a closing root that change objects.                            *)

\* A stage without a receipt is left for one that is not the last.
LEMMA KeptStage ==
  ASSUME NEW s, NEW c, NEW d, NEW x, NEW v, NEW r \in Roots, Kept(s, c, x, v),
         \A t \in Roots : t # r => d[t] = c[t],
         c[r].at \notin {"detach", "flush", "lost"} \/ c[r].object # x,
         d[r].at # "final"
  PROVE  Kept(s, d, x, v)
<1>1. StrayKept(c, x, v) /\ FinalKept(c, v)
  BY DEF Kept
<1>2. StrayKept(d, x, v)
  <2> SUFFICES ASSUME NEW m \in Used(v), m \notin v.maps, ~(v.caps[m.root] # "none" /\ ~v.doomed)
               PROVE  \E t \in Roots : /\ d[t].at \in {"detach", "flush", "lost"}
                                       /\ d[t].object = x /\ m \in d[t].maps
    BY DEF StrayKept
  <2>1. PICK t \in Roots : c[t].at \in {"detach", "flush", "lost"} /\ c[t].object = x /\ m \in c[t].maps
    BY <1>1 DEF StrayKept
  <2>2. t # r
    BY <2>1
  <2> QED
    BY <2>1, <2>2
<1>3. FinalKept(d, v)
  BY <1>1 DEF FinalKept
<1> QED
  BY <1>2, <1>3 DEF Kept

\* A closing root takes a pin that nobody holds, or uses the one it holds.
LEMMA CloserObjectStep ==
  ASSUME MemoryInvariant, NEW r \in Roots, NEW x \in Objects,
         \/ Claiming(closer[r]) /\ closer[r].object = x
         \/ closer[r].at = "scan" /\ obj[x].pins = 0,
         obj' \in [Objects -> ObjectType], \A y \in Objects : y # x => obj'[y] = obj[y],
         closer' \in [Roots -> CloserType], \A s \in Roots : s # r => closer'[s] = closer[s],
         UNCHANGED <<slot, op, entry>>, faults' \in 0 .. MaxFaults,
         Kept(slot, closer', x, obj'[x]), obj'[x].copies = obj[x].copies,
         closer'[r].peers = closer[r].peers, StageKept(slot, closer'[r], r),
         closer'[r].at # "final",
         Claiming(closer'[r]) => closer'[r].object = x /\ ClaimKept(closer'[r], r, obj'[x])
  PROVE  MemoryInvariant'
<1>1. Typed /\ Tables /\ Objs
  BY InvariantParts
<1>2. /\ \A q \in Ops : Pinning(op[q]) => op[q].object # x
      /\ \A s \in Roots : s # r /\ Claiming(closer[s]) => closer[s].object # x
  BY NoHolder, OtherClaims
<1>3. Typed'
  BY <1>1 DEF Typed
<1>4. closer[r].at \notin {"none", "begun", "fenced"}
  BY DEF Claiming
<1>5. Tables'
  BY <1>1, <1>4, CloserMoveTables
<1>6. ObjectsKept'
  <2>1. ASSUME NEW y \in Objects PROVE Copiers(op', y) = Copiers(op, y)
    BY DEF Copiers
  <2>2. ASSUME NEW y \in Objects, y # x PROVE Kept(slot, closer', y, obj'[y])
    <3>1. Kept(slot, closer, y, obj[y])
      BY KeptObjects
    <3>2. closer[r].at \notin {"detach", "flush", "lost"} \/ closer[r].object # y
      BY <2>2 DEF Claiming
    <3> DEFINE d == closer'
    <3>3. (\A t \in Roots : t # r => d[t] = closer[t]) /\ d[r].at # "final"
      OBVIOUS
    <3> HIDE DEF d
    <3>4. Kept(slot, d, y, obj[y])
      BY <3>1, <3>2, <3>3, KeptStage
    <3> QED
      BY <2>2, <3>4 DEF d
  <2>3. \A y \in Objects : Kept(slot, closer', y, obj'[y])
    BY <2>2
  <2>4. \A y \in Objects : obj'[y].copies = Cardinality(Copiers(op', y))
    BY <2>1, KeptObjects
  <2> QED
    BY <2>3, <2>4 DEF ObjectsKept, Kept
<1>7. PinsKept'
  BY <1>1, <1>2 DEF Objs, PinsKept
<1>8. ClaimsKept'
  BY <1>1, <1>2 DEF Objs, ClaimsKept
<1>9. OnePin'
  BY <1>1, <1>2 DEF Objs, OnePin
<1> QED
  BY <1>3, <1>5, <1>6, <1>7, <1>8, <1>9 DEF MemoryInvariant

LEMMA CloserChanged ==
  ASSUME closer \in [Roots -> CloserType], NEW r \in Roots, NEW c \in CloserType, closer' = [closer EXCEPT ![r] = c]
  PROVE  /\ closer' \in [Roots -> CloserType] /\ closer'[r] = c
         /\ \A s \in Roots : s # r => closer'[s] = closer[s]
OBVIOUS

LEMMA ClaimKeeps ==
  ASSUME MemoryInvariant, NEW r \in Roots, NEW x \in Objects, Claim(r, x)
  PROVE  MemoryInvariant'
<1> DEFINE v == obj[x]
           w == [obj[x] EXCEPT !.pins = @ + 1]
           c == [closer[r] EXCEPT !.at = "retain", !.object = x]
<1>1. /\ closer[r].at = "scan" /\ v.state = "live" /\ v.pins = 0
      /\ obj' = [obj EXCEPT ![x] = w] /\ closer' = [closer EXCEPT ![r] = c]
      /\ UNCHANGED <<slot, op, entry, faults>>
  BY DEF Claim, Wanted, Busy
<1>2. /\ Typed /\ v \in ObjectType /\ Kept(slot, closer, x, v) /\ obj \in [Objects -> ObjectType]
      /\ closer \in [Roots -> CloserType] /\ closer[r] \in CloserType /\ StageKept(slot, closer[r], r)
  BY KeptObjects DEF MemoryInvariant, Typed, Tables, StagesKept
<1>3. v.pins + 1 = 1 /\ 1 \in 0 .. 1
  BY <1>1
<1>4. /\ w \in ObjectType /\ w.maps = v.maps /\ w.leaves = v.leaves /\ w.reach = v.reach
      /\ w.state = v.state /\ w.owner = v.owner /\ w.caps = v.caps /\ w.loan = v.loan
      /\ w.dma = v.dma /\ w.copies = v.copies /\ w.doomed = v.doomed /\ w.pins = 1
  BY <1>2, <1>3 DEF ObjectType
<1>5. /\ c \in CloserType /\ c.at = "retain" /\ c.object = x /\ c.maps = closer[r].maps
      /\ c.peers = closer[r].peers /\ c.done = closer[r].done
  BY <1>2 DEF CloserType, CloserStages
<1>v. v = obj[x]
  OBVIOUS
<1> HIDE DEF v, w, c
<1>6. v.reach = v.maps /\ v.leaves = v.maps
  BY <1>1, <1>2 DEF Kept, ObjectKept
<1>7. Used(w) = Used(v) /\ Used(v) = v.maps
  BY <1>4, <1>6 DEF Used
<1>8. Kept(slot, closer, x, w)
  BY <1>1, <1>2, <1>4, <1>7, MappingsMoved
<1>9. /\ closer' \in [Roots -> CloserType] /\ closer'[r] = c
      /\ \A s \in Roots : s # r => closer'[s] = closer[s]
  BY <1>1, <1>2, <1>5
<1>10. Kept(slot, closer', x, w)
  <2> DEFINE d == closer'
  <2>1. (\A t \in Roots : t # r => d[t] = closer[t]) /\ d[r].at # "final"
    BY <1>5, <1>9
  <2> HIDE DEF d
  <2>2. Kept(slot, d, x, w)
    BY <1>1, <1>8, <2>1, KeptStage
  <2> QED
    BY <2>2 DEF d
<1>11. ClaimKept(c, r, w)
  BY <1>1, <1>4, <1>5, <1>6 DEF ClaimKept
<1>12. StageKept(slot, c, r)
  BY <1>1, <1>2, <1>5 DEF StageKept, Plain
<1>13. /\ obj' \in [Objects -> ObjectType] /\ obj'[x] = w
       /\ \A y \in Objects : y # x => obj'[y] = obj[y]
  BY <1>1, <1>2, <1>4
<1>14. faults' \in 0 .. MaxFaults
  BY <1>1, <1>2 DEF Typed
<1>15. /\ closer[r].at = "scan" /\ obj[x].pins = 0 /\ obj'[x].copies = obj[x].copies
       /\ UNCHANGED <<slot, op, entry>>
  BY <1>1, <1>4, <1>13, <1>v
<1>16. /\ Kept(slot, closer', x, obj'[x]) /\ closer'[r].peers = closer[r].peers
       /\ StageKept(slot, closer'[r], r) /\ closer'[r].at # "final" /\ closer'[r].object = x
       /\ ClaimKept(closer'[r], r, obj'[x])
  BY <1>5, <1>9, <1>10, <1>11, <1>12, <1>13
<1> QED
  BY <1>9, <1>13, <1>14, <1>15, <1>16, CloserObjectStep

\* The stages in which a closing root has an object in hand.
LEMMA Claimed ==
  ASSUME MemoryInvariant, NEW r \in Roots, Claiming(closer[r])
  PROVE  /\ closer[r].object \in Objects /\ ClaimKept(closer[r], r, obj[closer[r].object])
         /\ obj[closer[r].object] \in ObjectType
         /\ Kept(slot, closer, closer[r].object, obj[closer[r].object])
         /\ obj \in [Objects -> ObjectType] /\ closer \in [Roots -> CloserType]
         /\ closer[r] \in CloserType /\ StageKept(slot, closer[r], r) /\ faults \in 0 .. MaxFaults
<1>1. closer[r].object \in Objects /\ ClaimKept(closer[r], r, obj[closer[r].object])
  BY OtherClaims
<1> QED
  BY <1>1, KeptObjects DEF MemoryInvariant, Typed, Tables, StagesKept

LEMMA PublishKeeps ==
  ASSUME MemoryInvariant, NEW r \in Roots, Publish(r)
  PROVE  MemoryInvariant'
<1> DEFINE x == closer[r].object
           v == obj[x]
           M == IF Owning(r) THEN obj[x].maps ELSE Mapped(x, r)
           w == [obj[x] EXCEPT !.maps = @ \ M, !.doomed = @ \/ Owning(r)]
           c == [closer[r] EXCEPT !.at = "detach", !.maps = M]
<1>1. /\ closer[r].at = "retain" /\ Unretained(r) = {}
      /\ obj' = [obj EXCEPT ![x] = w] /\ closer' = [closer EXCEPT ![r] = c]
      /\ UNCHANGED <<slot, op, entry, faults>>
  BY DEF Publish
<1>2. Claiming(closer[r])
  BY <1>1 DEF Claiming
<1>3. /\ x \in Objects /\ ClaimKept(closer[r], r, v) /\ v \in ObjectType /\ Kept(slot, closer, x, v)
      /\ obj \in [Objects -> ObjectType] /\ closer \in [Roots -> CloserType]
      /\ closer[r] \in CloserType /\ StageKept(slot, closer[r], r) /\ faults \in 0 .. MaxFaults
  BY <1>2, Claimed
<1>4. v.state = "live" /\ v.pins = 1 /\ v.reach = v.maps /\ v.leaves = v.maps
  BY <1>1, <1>3 DEF ClaimKept
<1>5. /\ M \subseteq v.maps /\ (Owning(r) => M = v.maps) /\ (\A m \in v.maps \ M : m.root # r)
      /\ \A m \in M : Owning(r) \/ m.root = r
  BY DEF Mapped
<1>6. \A m \in M : m.root = r \/ m.root \in closer[r].peers
  BY <1>1, <1>5 DEF Unretained, Peers
<1>x. x = closer[r].object /\ (Owning(r) \in BOOLEAN)
  BY DEF Owning
<1> HIDE DEF M
<1>7. M \in SUBSET Mappings /\ v.maps \ M \in SUBSET Mappings /\ (v.doomed \/ Owning(r)) \in BOOLEAN
  BY <1>3, <1>5 DEF ObjectType
<1>8. /\ w \in ObjectType /\ w.maps = v.maps \ M /\ w.leaves = v.leaves /\ w.reach = v.reach
      /\ w.state = v.state /\ w.owner = v.owner /\ w.caps = v.caps /\ w.loan = v.loan
      /\ w.dma = v.dma /\ w.copies = v.copies /\ w.pins = v.pins
  BY <1>3, <1>7 DEF ObjectType
<1>9. /\ c \in CloserType /\ c.at = "detach" /\ c.object = x /\ c.maps = M
      /\ c.peers = closer[r].peers /\ c.done = closer[r].done
  BY <1>3, <1>7 DEF CloserType, CloserStages
<1>v. v = obj[x]
  OBVIOUS
<1> HIDE DEF v, w, c, x
<1>10. Used(w) = Used(v) /\ Used(v) = v.maps
  BY <1>4, <1>5, <1>8 DEF Used
<1>11. /\ closer' \in [Roots -> CloserType] /\ closer'[r] = c
       /\ \A s \in Roots : s # r => closer'[s] = closer[s]
  BY <1>1, <1>3, <1>9
<1>12. Kept(slot, closer', x, w)
  <2>1. /\ \A loan : LoanKept(v, loan) => LoanKept(w, loan)
        /\ ReadOnly(v) => ReadOnly(w)
        /\ TranslationKept(slot, v) => TranslationKept(slot, w)
    BY <1>8, <1>10, LessUsed
  <2>2. ObjectKept(w)
    BY <1>3, <1>4, <1>8, <2>1 DEF Kept, ObjectKept
  <2>3. StrayKept(closer', x, w)
    BY <1>8, <1>9, <1>10, <1>11 DEF StrayKept
  <2>4. FinalKept(closer', w)
    BY <1>3, <1>8, <1>9, <1>11 DEF Kept, FinalKept
  <2> QED
    BY <1>3, <1>8, <2>1, <2>2, <2>3, <2>4 DEF Kept
<1>13. ClaimKept(c, r, w)
  <2>1. w.reach = w.maps \cup M /\ w.leaves = w.maps \cup M /\ w.maps \cap M = {}
    BY <1>4, <1>5, <1>8
  <2> QED
    BY <1>4, <1>5, <1>8, <1>9, <2>1 DEF ClaimKept
<1>14. StageKept(slot, c, r)
  BY <1>1, <1>3, <1>6, <1>9 DEF StageKept, Plain
<1>15. /\ obj' \in [Objects -> ObjectType] /\ obj'[x] = w
       /\ \A y \in Objects : y # x => obj'[y] = obj[y]
  BY <1>1, <1>3, <1>8
<1>16. /\ closer[r].object = x /\ obj'[x].copies = obj[x].copies
       /\ UNCHANGED <<slot, op, entry>> /\ faults' \in 0 .. MaxFaults
  BY <1>1, <1>3, <1>8, <1>15, <1>v, <1>x
<1>17. /\ Kept(slot, closer', x, obj'[x]) /\ closer'[r].peers = closer[r].peers
       /\ StageKept(slot, closer'[r], r) /\ closer'[r].at # "final" /\ closer'[r].object = x
       /\ ClaimKept(closer'[r], r, obj'[x])
  BY <1>9, <1>11, <1>12, <1>13, <1>14, <1>15
<1> QED
  BY <1>2, <1>3, <1>11, <1>15, <1>16, <1>17, CloserObjectStep

\* The receipt of a closing root covers the translations without a record.
LEMMA ReceiptKept ==
  ASSUME NEW s, NEW c, NEW d, NEW x, NEW v, NEW w \in ObjectType, NEW r \in Roots, Kept(s, c, x, v),
         v.state = "live", w.state = v.state, w.owner = v.owner, w.caps = v.caps, w.loan = v.loan,
         w.dma = v.dma, w.copies = v.copies, w.doomed = v.doomed, w.pins = v.pins, v.pins = 1,
         w.maps = v.maps, Used(w) \subseteq Used(v), \A m \in Used(w) : m \in w.maps \/ m \in d[r].maps,
         \A t \in Roots : t # r => d[t] = c[t],
         \/ d[r].at \in {"detach", "flush", "lost"} /\ d[r].object = x
         \/ d[r].at = "unpin" /\ Used(w) = w.maps
  PROVE  Kept(s, d, x, w)
<1>1. /\ \A loan : LoanKept(v, loan) => LoanKept(w, loan)
      /\ ReadOnly(v) => ReadOnly(w)
      /\ TranslationKept(s, v) => TranslationKept(s, w)
  BY LessUsed
<1>2. ObjectKept(w)
  BY <1>1 DEF Kept, ObjectKept
<1>3. StrayKept(d, x, w)
  BY DEF StrayKept
<1>4. FinalKept(d, w)
  BY DEF Kept, FinalKept
<1> QED
  BY <1>1, <1>2, <1>3, <1>4 DEF Kept

\* What is to be shown when a closing root uses the pin it holds.
LEMMA ClaimStep ==
  ASSUME MemoryInvariant, NEW r \in Roots, Claiming(closer[r]),
         NEW w, obj' = [obj EXCEPT ![closer[r].object] = w],
         NEW c \in CloserType, closer' = [closer EXCEPT ![r] = c],
         UNCHANGED <<slot, op, entry>>, Refused \/ Agreed,
         Kept(slot, closer', closer[r].object, w), w.copies = obj[closer[r].object].copies,
         c.peers = closer[r].peers, StageKept(slot, c, r), c.at # "final",
         Claiming(c) => c.object = closer[r].object /\ ClaimKept(c, r, w)
  PROVE  MemoryInvariant'
<1> DEFINE x == closer[r].object
<1>1. /\ x \in Objects /\ obj \in [Objects -> ObjectType] /\ closer \in [Roots -> CloserType]
      /\ faults \in 0 .. MaxFaults
  BY Claimed
<1>2. /\ closer' \in [Roots -> CloserType] /\ closer'[r] = c
      /\ \A s \in Roots : s # r => closer'[s] = closer[s]
  BY <1>1
<1>3. w \in ObjectType
  BY DEF Kept
<1>4. /\ obj' \in [Objects -> ObjectType] /\ obj'[x] = w
      /\ \A y \in Objects : y # x => obj'[y] = obj[y]
  BY <1>1, <1>3
<1>5. faults' \in 0 .. MaxFaults
  BY <1>1, RefusalCounted
<1>6. /\ Kept(slot, closer', x, obj'[x]) /\ closer'[r].peers = closer[r].peers
      /\ StageKept(slot, closer'[r], r) /\ closer'[r].at # "final"
      /\ Claiming(closer'[r]) => closer'[r].object = x /\ ClaimKept(closer'[r], r, obj'[x])
      /\ obj'[x].copies = obj[x].copies
  BY <1>2, <1>4
<1>7. Claiming(closer[r]) /\ closer[r].object = x /\ UNCHANGED <<slot, op, entry>>
  OBVIOUS
<1>8. x \in Objects
  BY <1>1
<1> HIDE DEF x
<1> QED
  BY <1>2, <1>4, <1>5, <1>6, <1>7, <1>8, CloserObjectStep, ZenonT(60)

\* Some leaves of the receipt are taken out of the page tables.
LEMMA LeavesDetached ==
  ASSUME MemoryInvariant, NEW r \in Roots, closer[r].at = "detach",
         NEW D \in SUBSET closer[r].maps, obj' = [obj EXCEPT ![closer[r].object].leaves = @ \ D],
         NEW c \in CloserType, closer' = [closer EXCEPT ![r] = c],
         c.at = "flush", c.object = closer[r].object, c.maps = closer[r].maps,
         c.peers = closer[r].peers, c.done => D = closer[r].maps,
         UNCHANGED <<slot, op, entry>>, Refused \/ Agreed
  PROVE  MemoryInvariant'
<1> DEFINE x == closer[r].object
           v == obj[x]
           M == closer[r].maps
           w == [obj[x] EXCEPT !.leaves = @ \ D]
<1>1. Claiming(closer[r]) /\ obj' = [obj EXCEPT ![x] = w]
  BY DEF Claiming
<1>2. /\ x \in Objects /\ ClaimKept(closer[r], r, v) /\ v \in ObjectType /\ Kept(slot, closer, x, v)
      /\ StageKept(slot, closer[r], r)
  BY <1>1, Claimed
<1>3. /\ v.state = "live" /\ v.pins = 1 /\ v.reach = v.maps \cup M /\ v.leaves = v.maps \cup M
      /\ v.maps \cap M = {} /\ \A m \in v.maps : m.root # r
  BY <1>2 DEF ClaimKept
<1>4. v.leaves \ D \in SUBSET Mappings
  BY <1>2 DEF ObjectType
<1>5. /\ w \in ObjectType /\ w.maps = v.maps /\ w.leaves = v.leaves \ D /\ w.reach = v.reach
      /\ w.state = v.state /\ w.owner = v.owner /\ w.caps = v.caps /\ w.loan = v.loan
      /\ w.dma = v.dma /\ w.copies = v.copies /\ w.pins = v.pins /\ w.doomed = v.doomed
  BY <1>2, <1>4 DEF ObjectType
<1>v. v = obj[x] /\ x = closer[r].object /\ M = closer[r].maps
  OBVIOUS
<1> HIDE DEF v, w, x, M
<1>6. /\ Used(w) \subseteq Used(v) /\ \A m \in Used(w) : m \in w.maps \/ m \in M
  BY <1>3, <1>5, <1>v DEF Used
<1>7. /\ closer'[r] = c /\ \A s \in Roots : s # r => closer'[s] = closer[s]
  BY DEF MemoryInvariant, Typed
<1>8. Kept(slot, closer', x, w)
  <2> DEFINE d == closer'
  <2>1. /\ \A t \in Roots : t # r => d[t] = closer[t]
        /\ d[r].at = "flush" /\ d[r].object = x /\ d[r].maps = M
    BY <1>7, <1>v
  <2> HIDE DEF d
  <2>2. Kept(slot, d, x, w)
    BY <1>2, <1>3, <1>5, <1>6, <2>1, ReceiptKept
  <2> QED
    BY <2>2 DEF d
<1>9. ClaimKept(c, r, w)
  <2>1. /\ w.reach = w.maps \cup M /\ w.maps \subseteq w.leaves /\ w.leaves \subseteq w.maps \cup M
        /\ D = M => w.leaves = w.maps
    BY <1>3, <1>5, <1>v
  <2> QED
    BY <1>3, <1>5, <1>v, <2>1 DEF ClaimKept
<1>10. StageKept(slot, c, r)
  BY <1>2 DEF StageKept, Plain
<1> QED
  BY <1>1, <1>5, <1>8, <1>9, <1>10, <1>v, ClaimStep

LEMMA DetachKeeps ==
  ASSUME MemoryInvariant, NEW r \in Roots, Detach(r)
  PROVE  MemoryInvariant'
<1> DEFINE x == closer[r].object
           M == closer[r].maps
           c1 == [closer[r] EXCEPT !.at = "flush", !.done = TRUE]
           c2 == [closer[r] EXCEPT !.at = "flush"]
<1>1. closer[r].at = "detach" /\ (Refused \/ Agreed) /\ UNCHANGED <<slot, op, entry>>
  BY DEF Detach
<1>2. closer[r] \in CloserType /\ closer[r].done = FALSE
  BY <1>1 DEF MemoryInvariant, Typed, Tables, StagesKept, StageKept
<1>3. /\ c1 \in CloserType /\ c1.at = "flush" /\ c1.object = x /\ c1.maps = M /\ c1.peers = closer[r].peers
      /\ c2 \in CloserType /\ c2.at = "flush" /\ c2.object = x /\ c2.maps = M /\ c2.peers = closer[r].peers
      /\ c2.done = FALSE
  BY <1>2 DEF CloserType, CloserStages
<1>4. CASE obj' = [obj EXCEPT ![x].leaves = @ \ M] /\ closer' = [closer EXCEPT ![r] = c1]
  <2> HIDE DEF c1
  <2> QED
    BY <1>1, <1>3, <1>4, LeavesDetached
<1>5. CASE /\ \E m \in M : obj' = [obj EXCEPT ![x].leaves = @ \ (M \ {m})]
           /\ closer' = [closer EXCEPT ![r] = c2]
  <2>1. PICK m \in M : obj' = [obj EXCEPT ![x].leaves = @ \ (M \ {m})]
    BY <1>5
  <2>2. M \ {m} \in SUBSET M
    OBVIOUS
  <2> HIDE DEF c2
  <2> QED
    BY <1>1, <1>3, <1>5, <2>1, <2>2, LeavesDetached
<1> QED
  BY <1>4, <1>5 DEF Detach, Stage

LEMMA FlushKeeps ==
  ASSUME MemoryInvariant, NEW r \in Roots, Flush(r)
  PROVE  MemoryInvariant'
<1> DEFINE x == closer[r].object
           v == obj[x]
           M == closer[r].maps
           f == Flushed(obj[x], M)
<1>1. closer[r].at = "flush" /\ (Refused \/ Agreed) /\ UNCHANGED <<slot, op, entry>>
  BY DEF Flush
<1>2. Claiming(closer[r])
  BY <1>1 DEF Claiming
<1>3. /\ x \in Objects /\ ClaimKept(closer[r], r, v) /\ v \in ObjectType /\ Kept(slot, closer, x, v)
      /\ StageKept(slot, closer[r], r) /\ closer[r] \in CloserType /\ obj \in [Objects -> ObjectType]
      /\ closer \in [Roots -> CloserType]
  BY <1>2, Claimed
<1>4. /\ v.state = "live" /\ v.pins = 1 /\ v.reach = v.maps \cup M
      /\ v.maps \subseteq v.leaves /\ v.leaves \subseteq v.maps \cup M
      /\ closer[r].done => v.leaves = v.maps
      /\ \A m \in v.maps : m.root # r
  BY <1>1, <1>3 DEF ClaimKept
<1>5. /\ f \in ObjectType /\ f.reach = v.reach \ (M \ v.leaves) /\ f.state = v.state /\ f.owner = v.owner
      /\ f.caps = v.caps /\ f.maps = v.maps /\ f.leaves = v.leaves /\ f.loan = v.loan /\ f.pins = v.pins
      /\ f.copies = v.copies /\ f.dma = v.dma /\ f.doomed = v.doomed
  BY <1>3, FlushedFields
<1>6. obj' = obj => obj' = [obj EXCEPT ![x] = v]
  BY <1>3
<1>7. /\ obj' = [obj EXCEPT ![x] = f] \/ (obj' = obj /\ Stage(r, "lost"))
      /\ \/ Stage(r, "lost")
         \/ closer[r].done /\ Stage(r, "unpin") /\ obj' = [obj EXCEPT ![x] = f]
  BY DEF Flush
<1>8. PICK at \in {"lost", "unpin"} :
        Stage(r, at) /\ (at = "unpin" => closer[r].done /\ obj' = [obj EXCEPT ![x] = f])
  BY <1>7
<1> DEFINE c == [closer[r] EXCEPT !.at = at]
<1>9. closer' = [closer EXCEPT ![r] = c]
  BY <1>8 DEF Stage
<1>10. /\ c \in CloserType /\ c.at = at /\ c.object = x /\ c.maps = M
       /\ c.peers = closer[r].peers /\ c.done = closer[r].done
  BY <1>3 DEF CloserType, CloserStages
<1>11. PICK w \in {f, v} : obj' = [obj EXCEPT ![x] = w] /\ (at = "unpin" => w = f)
  BY <1>6, <1>7, <1>8
<1>v. v = obj[x] /\ x = closer[r].object /\ M = closer[r].maps
  OBVIOUS
<1> HIDE DEF v, f, x, M, c
<1>12. /\ w \in ObjectType /\ w.state = v.state /\ w.owner = v.owner
       /\ w.caps = v.caps /\ w.maps = v.maps /\ w.leaves = v.leaves /\ w.loan = v.loan /\ w.pins = v.pins
       /\ w.copies = v.copies /\ w.dma = v.dma /\ w.doomed = v.doomed /\ w.reach \subseteq v.reach
  BY <1>3, <1>5
<1>13. at = "unpin" => w.reach = w.maps /\ w.leaves = w.maps
  BY <1>4, <1>5, <1>8, <1>11
<1>14. /\ Used(w) \subseteq Used(v) /\ (\A m \in Used(w) : m \in w.maps \/ m \in M)
       /\ at = "unpin" => Used(w) = w.maps
  BY <1>4, <1>12, <1>13 DEF Used
<1>15. /\ closer'[r] = c /\ \A s \in Roots : s # r => closer'[s] = closer[s]
  BY <1>3, <1>9
<1>16. Kept(slot, closer', x, w)
  <2> DEFINE d == closer'
  <2>1. /\ \A t \in Roots : t # r => d[t] = closer[t]
        /\ d[r].at = at /\ d[r].object = x /\ d[r].maps = M
    BY <1>10, <1>15
  <2> HIDE DEF d
  <2>2. Kept(slot, d, x, w)
    BY <1>3, <1>4, <1>12, <1>14, <2>1, ReceiptKept
  <2> QED
    BY <2>2 DEF d
<1>17. at = "unpin" => ClaimKept(c, r, w)
  BY <1>4, <1>10, <1>12, <1>13 DEF ClaimKept
<1>18. StageKept(slot, c, r)
  BY <1>1, <1>3, <1>10, <1>v DEF StageKept, Plain
<1>19. Claiming(c) => at = "unpin"
  BY <1>10 DEF Claiming
<1> QED
  BY <1>1, <1>2, <1>9, <1>10, <1>11, <1>12, <1>16, <1>17, <1>18, <1>19, <1>v, ClaimStep

\* A root that maps nothing of an unpinned object leaves its loan.
LEMMA BorrowerFields ==
  ASSUME NEW v \in ObjectType, NEW r \in Roots
  PROVE  LET w == WithoutBorrower(v, r)
         IN  /\ w \in ObjectType /\ w.state = v.state /\ w.owner = v.owner /\ w.maps = v.maps
             /\ w.leaves = v.leaves /\ w.reach = v.reach /\ w.pins = v.pins /\ w.copies = v.copies
             /\ w.dma = v.dma /\ w.doomed = v.doomed /\ w.fence = v.fence
             /\ \A s \in Roots : w.caps[s] = v.caps[s] \/ (s = r /\ w.caps[s] = "none")
             /\ v.pins # 0 \/ r \notin v.loan.who => w = v
             /\ v.pins = 0 /\ r \in v.loan.who => w.loan = Without(v.loan, r)
<1> DEFINE w == WithoutBorrower(v, r)
           k == [v.caps EXCEPT ![r] = IF v.loan.kind = "read" THEN "none" ELSE v.caps[r]]
           l == Without(v.loan, r)
           u == [v EXCEPT !.loan = l, !.caps = k]
<1>1. CASE v.pins # 0 \/ r \notin v.loan.who
  <2>1. w = v
    BY <1>1 DEF WithoutBorrower
  <2> QED
    BY <1>1, <2>1
<1>2. CASE v.pins = 0 /\ r \in v.loan.who
  <2>1. w = u
    BY <1>2 DEF WithoutBorrower
  <2>2. v.loan \in LoanType /\ v.caps \in [Roots -> Caps]
    BY DEF ObjectType
  <2>3. l \in LoanType
    BY <2>2, WithoutFields
  <2>4. k \in [Roots -> Caps] /\ \A s \in Roots : k[s] = v.caps[s] \/ (s = r /\ k[s] = "none")
    BY <2>2 DEF Caps
  <2> HIDE DEF k, l
  <2>5. /\ u \in ObjectType /\ u.state = v.state /\ u.owner = v.owner /\ u.maps = v.maps
        /\ u.leaves = v.leaves /\ u.reach = v.reach /\ u.pins = v.pins /\ u.copies = v.copies
        /\ u.dma = v.dma /\ u.doomed = v.doomed /\ u.fence = v.fence /\ u.caps = k /\ u.loan = l
    BY <2>3, <2>4 DEF ObjectType
  <2> HIDE DEF u, w
  <2>6. /\ w \in ObjectType /\ w.state = v.state /\ w.owner = v.owner /\ w.maps = v.maps
        /\ w.leaves = v.leaves /\ w.reach = v.reach /\ w.pins = v.pins /\ w.copies = v.copies
        /\ w.dma = v.dma /\ w.doomed = v.doomed /\ w.fence = v.fence /\ w.loan = Without(v.loan, r)
    BY <2>1, <2>5 DEF l
  <2>7. \A s \in Roots : w.caps[s] = v.caps[s] \/ (s = r /\ w.caps[s] = "none")
    BY <2>1, <2>4, <2>5
  <2> QED
    BY <1>2, <2>6, <2>7 DEF w
<1> QED
  BY <1>1, <1>2 DEF ObjectType

LEMMA BorrowerLeaves ==
  ASSUME NEW s, NEW c, NEW x, NEW v, NEW r \in Roots, Kept(s, c, x, v),
         v.pins = 0 => \A m \in v.maps : m.root # r
  PROVE  Kept(s, c, x, WithoutBorrower(v, r))
<1> DEFINE w == WithoutBorrower(v, r)
<1>1. v \in ObjectType /\ v.loan \in LoanType
  BY DEF Kept, ObjectType
<1>2. /\ w \in ObjectType /\ w.state = v.state /\ w.owner = v.owner /\ w.maps = v.maps
      /\ w.leaves = v.leaves /\ w.reach = v.reach /\ w.pins = v.pins /\ w.copies = v.copies
      /\ w.dma = v.dma /\ w.doomed = v.doomed /\ w.fence = v.fence
      /\ \A t \in Roots : w.caps[t] = v.caps[t] \/ (t = r /\ w.caps[t] = "none")
      /\ v.pins # 0 \/ r \notin v.loan.who => w = v
      /\ v.pins = 0 /\ r \in v.loan.who => w.loan = Without(v.loan, r)
  BY <1>1, BorrowerFields
<1> HIDE DEF w
<1>3. CASE v.pins = 0 /\ r \in v.loan.who
  <2>1. v.reach = v.maps /\ v.leaves = v.maps /\ LoanKept(v, v.loan)
    BY <1>3 DEF Kept, ObjectKept
  <2>2. Used(v) = v.maps /\ Used(w) = v.maps
    BY <1>2, <2>1 DEF Used
  <2>3. LoanKept(w, w.loan)
    BY <1>1, <1>2, <1>3, <2>1, <2>2, WithoutKept
  <2>4. (ReadOnly(v) => ReadOnly(w)) /\ (TranslationKept(s, v) => TranslationKept(s, w))
    BY <1>2, <2>2, LessUsed
  <2>5. ObjectKept(w)
    BY <1>2, <2>1, <2>2, <2>3, <2>4 DEF Kept, ObjectKept
  <2>6. StrayKept(c, x, w)
    BY <1>2, <2>2 DEF StrayKept
  <2>7. FinalKept(c, w)
    BY <1>2 DEF Kept, FinalKept
  <2>8. Kept(s, c, x, w)
    BY <1>2, <2>4, <2>5, <2>6, <2>7 DEF Kept
  <2> QED
    BY <2>8 DEF w
<1>4. CASE v.pins # 0 \/ r \notin v.loan.who
  BY <1>2, <1>4 DEF w
<1> QED
  BY <1>1, <1>3, <1>4

LEMMA UnpinKeeps ==
  ASSUME MemoryInvariant, NEW r \in Roots, Unpin(r)
  PROVE  MemoryInvariant'
<1> DEFINE x == closer[r].object
           v == obj[x]
           u == [obj[x] EXCEPT !.pins = @ - 1]
           b == WithoutBorrower(u, r)
           w == Unpinned(b)
<1>1. /\ closer[r].at = "unpin" /\ (Refused \/ Agreed) /\ UNCHANGED <<slot, op, entry>>
      /\ obj' = [obj EXCEPT ![x] = w] /\ (Stage(r, "peers") \/ Stage(r, "lost"))
  BY DEF Unpin
<1>2. Claiming(closer[r])
  BY <1>1 DEF Claiming
<1>3. /\ x \in Objects /\ ClaimKept(closer[r], r, v) /\ v \in ObjectType /\ Kept(slot, closer, x, v)
      /\ StageKept(slot, closer[r], r) /\ closer[r] \in CloserType
      /\ closer \in [Roots -> CloserType]
  BY <1>2, Claimed
<1>4. /\ v.state = "live" /\ v.pins = 1 /\ v.reach = v.maps /\ v.leaves = v.maps
      /\ \A m \in v.maps : m.root # r
  BY <1>1, <1>3 DEF ClaimKept
<1>5. v.pins - 1 = 0 /\ 0 \in 0 .. 1
  BY <1>4
<1>6. /\ u \in ObjectType /\ u.maps = v.maps /\ u.leaves = v.leaves /\ u.reach = v.reach
      /\ u.state = v.state /\ u.owner = v.owner /\ u.caps = v.caps /\ u.loan = v.loan
      /\ u.dma = v.dma /\ u.copies = v.copies /\ u.doomed = v.doomed /\ u.pins = 0
  BY <1>3, <1>5 DEF ObjectType
<1>7. PICK at \in {"lost", "peers"} : Stage(r, at)
  BY <1>1
<1> DEFINE c == [closer[r] EXCEPT !.at = at]
<1>8. closer' = [closer EXCEPT ![r] = c]
  BY <1>7 DEF Stage
<1>9. /\ c \in CloserType /\ c.at = at /\ c.object = x /\ c.maps = closer[r].maps
      /\ c.peers = closer[r].peers /\ c.done = closer[r].done
  BY <1>3 DEF CloserType, CloserStages
<1>v. v = obj[x] /\ x = closer[r].object
  OBVIOUS
<1> HIDE DEF v, u, b, w, x, c
<1>10. Used(u) = u.maps /\ Used(u) = Used(v)
  BY <1>4, <1>6 DEF Used
<1>11. Kept(slot, closer, x, u)
  BY <1>3, <1>4, <1>6, <1>10, MappingsMoved
<1>12. Kept(slot, closer, x, b) /\ b.copies = u.copies
  BY <1>4, <1>6, <1>11, BorrowerLeaves, BorrowerFields DEF b
<1>13. Kept(slot, closer, x, w) /\ w.copies = v.copies
  BY <1>6, <1>12, UnpinnedKept DEF w
<1>14. /\ closer'[r] = c /\ \A s \in Roots : s # r => closer'[s] = closer[s]
  BY <1>3, <1>8
<1>15. Kept(slot, closer', x, w)
  <2> DEFINE d == closer'
  <2>1. (\A t \in Roots : t # r => d[t] = closer[t]) /\ d[r].at # "final"
    BY <1>9, <1>14
  <2> HIDE DEF d
  <2>2. Kept(slot, d, x, w)
    BY <1>1, <1>13, <2>1, KeptStage
  <2> QED
    BY <2>2 DEF d
<1>16. StageKept(slot, c, r)
  BY <1>1, <1>3, <1>9 DEF StageKept, Plain
<1>17. ~Claiming(c) /\ c.at # "final"
  BY <1>9 DEF Claiming
<1> QED
  BY <1>1, <1>2, <1>8, <1>9, <1>13, <1>15, <1>16, <1>17, <1>v, ClaimStep

\* A closing root without an object in hand changes every object.
LEMMA EveryObjectStep ==
  ASSUME MemoryInvariant, NEW r \in Roots,
         obj' \in [Objects -> ObjectType], closer' \in [Roots -> CloserType],
         \A s \in Roots : s # r => closer'[s] = closer[s],
         UNCHANGED <<slot, op, entry>>, faults' \in 0 .. MaxFaults,
         closer[r].at \in {"devices", "scan"}, ~Claiming(closer'[r]),
         closer'[r].peers = closer[r].peers, StageKept(slot, closer'[r], r),
         \A x \in Objects : Kept(slot, closer', x, obj'[x]) /\ obj'[x].copies = obj[x].copies,
         \A q \in Ops : Pinning(op[q]) => PinKept(op[q], obj'[op[q].object]),
         \A s \in Roots : Claiming(closer[s]) => ClaimKept(closer[s], s, obj'[closer[s].object])
  PROVE  MemoryInvariant'
<1>1. Typed /\ Tables /\ Objs
  BY InvariantParts
<1>2. Typed'
  BY <1>1 DEF Typed
<1>3. Tables'
  BY <1>1, CloserMoveTables
<1>4. ObjectsKept'
  <2>1. ASSUME NEW y \in Objects PROVE Copiers(op', y) = Copiers(op, y)
    BY DEF Copiers
  <2>2. \A y \in Objects : obj'[y].copies = Cardinality(Copiers(op', y))
    BY <2>1, KeptObjects
  <2> QED
    BY <2>2 DEF ObjectsKept, Kept
<1>5. PinsKept'
  BY <1>1 DEF Objs, PinsKept
<1>6. ClaimsKept'
  BY <1>1 DEF Objs, ClaimsKept
<1>7. OnePin'
  BY <1>1 DEF Objs, OnePin
<1> QED
  BY <1>2, <1>3, <1>4, <1>5, <1>6, <1>7 DEF MemoryInvariant

LEMMA CloseDevicesKeeps ==
  ASSUME MemoryInvariant, NEW r \in Roots, CloseDevices(r)
  PROVE  MemoryInvariant'
<1>1. Typed /\ Tables /\ Objs
  BY InvariantParts
<1>2. /\ closer \in [Roots -> CloserType] /\ StageKept(slot, closer[r], r) /\ closer[r] \in CloserType
      /\ faults \in 0 .. MaxFaults /\ obj \in [Objects -> ObjectType]
  BY <1>1 DEF Typed, Tables, StagesKept
<1>3. closer[r].at = "devices" /\ UNCHANGED <<slot, op, entry>> /\ (Refused \/ Agreed)
  BY DEF CloseDevices
<1>4. PICK at \in {"memory", "lost"} :
        /\ Stage(r, at)
        /\ \/ obj' = obj
           \/ obj' = [x \in Objects |-> WithoutDma(obj[x], {d \in obj[x].dma : d.root = r})]
  BY DEF CloseDevices
<1>5. /\ closer' \in [Roots -> CloserType]
      /\ \A s \in Roots : s # r => closer'[s] = closer[s]
      /\ closer'[r].at = at /\ closer'[r].object = closer[r].object
      /\ closer'[r].maps = closer[r].maps /\ closer'[r].peers = closer[r].peers
      /\ closer'[r].done = closer[r].done
  BY <1>2, <1>4, StageFields DEF CloserStages
<1>6. StageKept(slot, closer'[r], r) /\ ~Claiming(closer'[r])
  BY <1>2, <1>3, <1>5 DEF StageKept, Plain, Claiming
<1>7. ASSUME NEW x \in Objects
      PROVE  /\ Kept(slot, closer, x, obj'[x]) /\ obj'[x].copies = obj[x].copies
             /\ \A p : PinKept(p, obj[x]) => PinKept(p, obj'[x])
             /\ \A e : \A s \in Roots : ClaimKept(e, s, obj[x]) => ClaimKept(e, s, obj'[x])
  <2> DEFINE D == {d \in obj[x].dma : d.root = r}
             u == [obj[x] EXCEPT !.dma = @ \ D]
             w == Unpinned(u)
  <2>1. Kept(slot, closer, x, obj[x]) /\ obj[x] \in ObjectType
    BY KeptObjects DEF Kept
  <2>2. obj[x].dma \ D \in SUBSET DmaType
    BY <2>1 DEF ObjectType
  <2>3. obj'[x] = obj[x] \/ obj'[x] = w
    BY <1>4 DEF WithoutDma
  <2> HIDE DEF D
  <2>4. /\ u \in ObjectType /\ u.state = obj[x].state /\ u.owner = obj[x].owner /\ u.caps = obj[x].caps
        /\ u.maps = obj[x].maps /\ u.leaves = obj[x].leaves /\ u.reach = obj[x].reach
        /\ u.loan = obj[x].loan /\ u.pins = obj[x].pins /\ u.doomed = obj[x].doomed
        /\ u.dma \subseteq obj[x].dma /\ u.fence = obj[x].fence /\ u.copies = obj[x].copies
    BY <2>1, <2>2 DEF ObjectType
  <2> HIDE DEF u
  <2>5. /\ Kept(slot, closer, x, w) /\ w.copies = u.copies
        /\ \A p : PinKept(p, obj[x]) => PinKept(p, w)
        /\ \A e : \A s \in Roots : ClaimKept(e, s, obj[x]) => ClaimKept(e, s, w)
    BY <2>1, <2>4, GivenBack
  <2> HIDE DEF w
  <2>6. CASE obj'[x] = w
    BY <2>4, <2>5, <2>6
  <2>7. CASE obj'[x] = obj[x]
    BY <2>1, <2>7
  <2> QED
    BY <2>3, <2>6, <2>7
<1>8. ASSUME NEW x \in Objects PROVE Kept(slot, closer', x, obj'[x])
  <2> DEFINE d == closer'
             w == obj'[x]
  <2>1. (\A t \in Roots : t # r => d[t] = closer[t]) /\ d[r].at # "final"
    BY <1>5
  <2>2. Kept(slot, closer, x, w)
    BY <1>7
  <2> HIDE DEF d, w
  <2>3. Kept(slot, d, x, w)
    BY <1>3, <2>1, <2>2, KeptStage
  <2> QED
    BY <2>3 DEF d, w
<1>9. obj' \in [Objects -> ObjectType]
  <2>1. \A x \in Objects : obj'[x] \in ObjectType
    BY <1>7 DEF Kept
  <2>2. obj' = [x \in Objects |-> obj'[x]]
    BY <1>2, <1>4
  <2> QED
    BY <2>1, <2>2
<1>10. \A q \in Ops : Pinning(op[q]) => PinKept(op[q], obj'[op[q].object])
  BY <1>1, <1>7 DEF Objs, PinsKept
<1>11. \A s \in Roots : Claiming(closer[s]) => ClaimKept(closer[s], s, obj'[closer[s].object])
  BY <1>1, <1>7 DEF Objs, ClaimsKept
<1>12. faults' \in 0 .. MaxFaults
  BY <1>2, <1>3, RefusalCounted
<1>13. closer[r].at \in {"devices", "scan"} /\ UNCHANGED <<slot, op, entry>>
  BY <1>3
<1>14. \A x \in Objects : Kept(slot, closer', x, obj'[x]) /\ obj'[x].copies = obj[x].copies
  BY <1>7, <1>8
<1> QED
  BY <1>5, <1>6, <1>9, <1>10, <1>11, <1>12, <1>13, <1>14, EveryObjectStep, ZenonT(60)

LEMMA MemoryClosedKeeps ==
  ASSUME MemoryInvariant, NEW r \in Roots, MemoryClosed(r)
  PROVE  MemoryInvariant'
<1>1. Typed /\ Tables /\ Objs
  BY InvariantParts
<1>2. /\ closer \in [Roots -> CloserType] /\ StageKept(slot, closer[r], r) /\ closer[r] \in CloserType
      /\ faults \in 0 .. MaxFaults /\ obj \in [Objects -> ObjectType]
  BY <1>1 DEF Typed, Tables, StagesKept
<1>3. /\ closer[r].at = "scan" /\ UNCHANGED <<slot, op, entry, faults>>
      /\ Wanted(r) = {} /\ ~Entangled(r) /\ Stage(r, "final")
      /\ obj' = [x \in Objects |-> [WithoutBorrower(obj[x], r) EXCEPT !.caps[r] = "none"]]
  BY DEF MemoryClosed
<1>4. /\ closer' \in [Roots -> CloserType]
      /\ \A s \in Roots : s # r => closer'[s] = closer[s]
      /\ closer'[r].at = "final" /\ closer'[r].object = closer[r].object
      /\ closer'[r].maps = closer[r].maps /\ closer'[r].peers = closer[r].peers
      /\ closer'[r].done = closer[r].done
  BY <1>2, <1>3, StageFields DEF CloserStages
<1>5. StageKept(slot, closer'[r], r) /\ ~Claiming(closer'[r])
  BY <1>2, <1>3, <1>4, PlainStep DEF Plain, Claiming
<1>6. \A q \in Ops : ~RootLeased(op[q], r) /\ ~PeerLeased(op[q], r)
  BY <1>1, <1>3 DEF Tables, CleanupQuiet
<1>7. ASSUME NEW x \in Objects
      PROVE  /\ Kept(slot, closer', x, obj'[x]) /\ obj'[x].copies = obj[x].copies
             /\ \A q \in Ops : Pinning(op[q]) /\ PinKept(op[q], obj[x]) => PinKept(op[q], obj'[x])
             /\ \A e : \A s \in Roots : ClaimKept(e, s, obj[x]) => ClaimKept(e, s, obj'[x])
  <2> DEFINE v == obj[x]
             b == WithoutBorrower(obj[x], r)
             k == [b.caps EXCEPT ![r] = "none"]
             w == [b EXCEPT !.caps = k]
  <2>1. Kept(slot, closer, x, v) /\ v \in ObjectType /\ ObjectKept(v)
    BY KeptObjects DEF Kept
  <2>2. \A m \in v.maps : m.root # r
    <3>1. CASE v.state = "live"
      BY <1>3, <3>1 DEF Wanted, Mapped
    <3>2. CASE v.state # "live"
      BY <2>1, <3>2 DEF ObjectKept, Used
    <3> QED
      BY <3>1, <3>2
  <2>3. v.caps[r] # "none" /\ ~v.doomed => v.reach = v.maps /\ v.leaves = v.maps
    <3>1. v.state = "live" /\ v.caps[r] # "none" /\ ~v.doomed => v.pins = 0
      BY <1>3 DEF Entangled
    <3> QED
      BY <2>1, <3>1 DEF ObjectKept
  <2>4. /\ b \in ObjectType /\ b.state = v.state /\ b.owner = v.owner /\ b.maps = v.maps
        /\ b.leaves = v.leaves /\ b.reach = v.reach /\ b.pins = v.pins /\ b.copies = v.copies
        /\ b.dma = v.dma /\ b.doomed = v.doomed /\ b.fence = v.fence
        /\ \A s \in Roots : b.caps[s] = v.caps[s] \/ (s = r /\ b.caps[s] = "none")
        /\ v.pins # 0 \/ r \notin v.loan.who => b = v
        /\ v.pins = 0 /\ r \in v.loan.who => b.loan = Without(v.loan, r)
    BY <2>1, BorrowerFields
  <2>5. Kept(slot, closer, x, b)
    BY <2>1, <2>2, BorrowerLeaves
  <2>6. obj'[x] = w
    BY <1>3
  <2>v. v = obj[x]
    OBVIOUS
  <2> HIDE DEF b, v
  <2>7. k \in [Roots -> Caps] /\ \A s \in Roots : k[s] = IF s = r THEN "none" ELSE b.caps[s]
    BY <2>4 DEF ObjectType, Caps
  <2> HIDE DEF k
  <2>8. /\ w \in ObjectType /\ w.state = v.state /\ w.owner = v.owner /\ w.maps = v.maps
        /\ w.leaves = v.leaves /\ w.reach = v.reach /\ w.pins = v.pins /\ w.copies = v.copies
        /\ w.dma = v.dma /\ w.doomed = v.doomed /\ w.fence = v.fence /\ w.loan = b.loan /\ w.caps = k
    BY <2>4, <2>7 DEF ObjectType
  <2> HIDE DEF w
  <2>9. \A s \in Roots : w.caps[s] = IF s = r THEN "none" ELSE v.caps[s]
    BY <2>4, <2>7, <2>8
  <2>10. Used(w) = Used(b) /\ Used(w) = Used(v)
    BY <2>4, <2>8 DEF Used
  <2>11. /\ \A loan : LoanKept(b, loan) => LoanKept(w, loan)
         /\ ReadOnly(b) => ReadOnly(w)
         /\ TranslationKept(slot, b) => TranslationKept(slot, w)
    BY <2>4, <2>8, <2>10, LessUsed
  <2>12. ObjectKept(w)
    BY <2>4, <2>5, <2>8, <2>10, <2>11 DEF Kept, ObjectKept
  <2>13. FinalKept(closer', w)
    BY <1>4, <2>1, <2>2, <2>8, <2>9 DEF Kept, FinalKept
  <2>14. StrayKept(closer', x, w)
    <3> SUFFICES ASSUME NEW m \in Used(w), m \notin w.maps, ~(w.caps[m.root] # "none" /\ ~w.doomed)
                 PROVE  \E t \in Roots : /\ closer'[t].at \in {"detach", "flush", "lost"}
                                         /\ closer'[t].object = x /\ m \in closer'[t].maps
      BY DEF StrayKept
    <3>1. m \in Used(v) /\ m \notin v.maps /\ m.root \in Roots
      BY <2>1, <2>8, <2>10 DEF ObjectType, Used, Mappings
    <3>2. ~(v.caps[m.root] # "none" /\ ~v.doomed)
      BY <2>3, <2>8, <2>9, <3>1 DEF Used
    <3>3. PICK t \in Roots : closer[t].at \in {"detach", "flush", "lost"} /\ closer[t].object = x /\ m \in closer[t].maps
      BY <2>1, <3>1, <3>2 DEF Kept, StrayKept
    <3>4. t # r
      BY <1>3, <3>3
    <3> QED
      BY <1>4, <3>3, <3>4
  <2>15. Kept(slot, closer', x, w)
    BY <2>5, <2>8, <2>11, <2>12, <2>13, <2>14 DEF Kept
  <2>16. \A e : \A s \in Roots : ClaimKept(e, s, v) => ClaimKept(e, s, w)
    BY <2>8 DEF ClaimKept
  <2>17. ASSUME NEW q \in Ops, Pinning(op[q]), PinKept(op[q], v) PROVE PinKept(op[q], w)
    <3>1. b = v
      BY <2>4, <2>17 DEF PinKept
    <3>2. \A loan : LoanKept(v, loan) => LoanKept(w, loan)
      BY <2>11, <3>1
    <3>3. OpKept(slot, op[q])
      BY <1>1 DEF Tables, OpsKept
    <3>4. op[q].root.root # r /\ op[q].root.root \in Roots
      BY <1>6, <2>17, <3>3 DEF RootLeased, Pinning, Transfers, OpKept, Handles
    <3>5. op[q].at = "revoke" => op[q].peer.root # r /\ op[q].peer.root \in Roots
      BY <1>6, <2>17, <3>3 DEF PeerLeased, Pinning, OpKept, Handles
    <3>6. w.caps[op[q].root.root] = v.caps[op[q].root.root]
      BY <2>9, <3>4
    <3>7. op[q].at = "revoke" => w.caps[op[q].peer.root] = v.caps[op[q].peer.root]
      BY <2>9, <3>5
    <3> QED
      BY <2>8, <2>17, <3>1, <3>2, <3>6, <3>7 DEF PinKept
  <2> QED
    BY <2>6, <2>8, <2>15, <2>16, <2>17, <2>v
<1>8. obj' \in [Objects -> ObjectType]
  <2>1. \A x \in Objects : obj'[x] \in ObjectType
    BY <1>7 DEF Kept
  <2>2. obj' = [x \in Objects |-> obj'[x]]
    BY <1>3
  <2> QED
    BY <2>1, <2>2
<1>9. \A q \in Ops : Pinning(op[q]) => PinKept(op[q], obj'[op[q].object])
  BY <1>1, <1>7 DEF Objs, PinsKept
<1>10. \A s \in Roots : Claiming(closer[s]) => ClaimKept(closer[s], s, obj'[closer[s].object])
  BY <1>1, <1>7 DEF Objs, ClaimsKept
<1>11. faults' \in 0 .. MaxFaults
  BY <1>2, <1>3
<1>12. closer[r].at \in {"devices", "scan"} /\ UNCHANGED <<slot, op, entry>>
  BY <1>3
<1>13. \A x \in Objects : Kept(slot, closer', x, obj'[x]) /\ obj'[x].copies = obj[x].copies
  BY <1>7
<1> QED
  BY <1>4, <1>5, <1>8, <1>9, <1>10, <1>11, <1>12, <1>13, EveryObjectStep, ZenonT(60)

-----------------------------------------------------------------------------
(* The invariant holds.                                                    *)

LEMMA AbsentFacts ==
  /\ Absent \in ObjectType /\ Absent.state = "absent" /\ Absent.maps = {} /\ Absent.leaves = {}
  /\ Absent.reach = {} /\ Absent.dma = {} /\ Absent.copies = 0 /\ Absent.pins = 0
  /\ Absent.loan = NoLoan
<1>1. NoLoan \in LoanType
  BY DEF NoLoan, LoanType
<1>2. [r \in Roots |-> "none"] \in [Roots -> Caps]
  BY DEF Caps
<1>3. 0 \in Nat /\ 0 \in 0 .. 1 /\ {} \in SUBSET Mappings /\ {} \in SUBSET DmaType
  OBVIOUS
<1> QED
  BY <1>1, <1>2, <1>3 DEF Absent, ObjectType

LEMMA InitKept ==
  ASSUME Init
  PROVE  MemoryInvariant
<1>1. Typed
  <2>1. slot \in [Roots -> SlotType] /\ faults \in 0 .. MaxFaults
    BY BoundsAssumption DEF Init, SlotType
  <2>2. entry \in [1 .. Capacity -> EntryType]
    <3>1. Vacant \in EntryType
      BY BoundsAssumption DEF Vacant, EntryType
    <3> QED
      BY <3>1 DEF Init
  <2>3. closer \in [Roots -> CloserType]
    BY NotClosingFacts DEF Init
  <2>4. op \in [Ops -> OpType] /\ obj \in [Objects -> ObjectType]
    BY IdleFacts, AbsentFacts DEF Init
  <2> QED
    BY <2>1, <2>2, <2>3, <2>4 DEF Typed
<1>2. \A o \in Ops : op[o] = Idle
  BY DEF Init
<1>3. \A r \in Roots : /\ closer[r].at = "none" /\ closer[r].object = "none" /\ closer[r].maps = {}
                       /\ closer[r].peers = {} /\ closer[r].done = FALSE
  BY DEF Init, NotClosing
<1>4. \A r \in Roots : ~slot[r].live /\ ~slot[r].retiring /\ slot[r].leases = 0
  BY DEF Init
<1>5. Tables
  <2>1. LeasesExact
    <3>1. ASSUME NEW r \in Roots PROVE LeaseCount(op, closer, r) = 0
      <4>1. RootLessees(op, r) = {} /\ PeerLessees(op, r) = {}
        BY <1>2, IdleFacts DEF RootLessees, PeerLessees
      <4>2. CloserLessees(closer, r) = {}
        BY <1>3 DEF CloserLessees
      <4> QED
        BY <4>1, <4>2, FS_EmptySet DEF LeaseCount
    <3> QED
      BY <1>4, <3>1, LeasesCounted
  <2>2. OpsKept
    BY <1>2, IdleFacts, NoHandleFacts DEF OpsKept, OpKept
  <2>3. CleanupQuiet
    BY <1>3 DEF CleanupQuiet
  <2>4. StagesKept
    BY <1>3, <1>4 DEF StagesKept, StageKept
  <2>5. RetainedKept
    BY DEF Init, RetainedKept, Active, Vacant
  <2> QED
    BY <2>1, <2>2, <2>3, <2>4, <2>5 DEF Tables
<1>6. ObjectsKept
  <2> SUFFICES ASSUME NEW x \in Objects
               PROVE  /\ ObjectKept(Absent) /\ StrayKept(closer, x, Absent) /\ TranslationKept(slot, Absent)
                      /\ FinalKept(closer, Absent) /\ Absent.copies = Cardinality(Copiers(op, x))
    BY DEF Init, ObjectsKept
  <2>1. Used(Absent) = {}
    BY AbsentFacts DEF Used
  <2>2. LoanKept(Absent, Absent.loan)
    BY <2>1, AbsentFacts DEF LoanKept, NoLoan
  <2>3. ObjectKept(Absent)
    BY <2>1, <2>2, AbsentFacts DEF ObjectKept
  <2>4. StrayKept(closer, x, Absent) /\ TranslationKept(slot, Absent) /\ FinalKept(closer, Absent)
    BY <1>3, <2>1 DEF StrayKept, TranslationKept, FinalKept
  <2>5. Copiers(op, x) = {}
    BY <1>2, IdleFacts DEF Copiers
  <2> QED
    BY <2>3, <2>4, <2>5, AbsentFacts, FS_EmptySet
<1>7. PinsKept /\ ClaimsKept /\ OnePin
  BY <1>2, <1>3, IdleFacts DEF PinsKept, ClaimsKept, OnePin, Claiming
<1> QED
  BY <1>1, <1>5, <1>6, <1>7 DEF MemoryInvariant

LEMMA StutterKeeps ==
  ASSUME MemoryInvariant, UNCHANGED vars
  PROVE  MemoryInvariant'
<1>1. Typed /\ Tables /\ Objs
  BY InvariantParts
<1>2. UNCHANGED <<slot, obj, op, closer, entry, faults>>
  BY DEF vars
<1>3. Tables'
  BY <1>1, <1>2, SameTables
<1>4. \A x \in Objects : TranslationKept(slot', obj[x])
  BY <1>1, <1>2 DEF Objs, ObjectsKept
<1>5. Objs'
  BY <1>1, <1>2, <1>4, SameObjects
<1>6. Typed'
  BY <1>1, <1>2 DEF Typed
<1> QED
  BY <1>3, <1>5, <1>6 DEF MemoryInvariant, Objs

LEMMA OpStartKeeps ==
  ASSUME MemoryInvariant, NEW o \in Ops, OpStart(o)
  PROVE  MemoryInvariant'
<1>1. CASE \E r \in Roots : Acquire(o, r) \/ AcquireBorrower(o, r)
  BY <1>1, AcquireKeeps, AcquireBorrowerKeeps
<1>2. CASE \E x \in Objects : \E w \in BOOLEAN : MapPublish(o, x, w)
  BY <1>2, MapPublishKeeps
<1>3. CASE \E x \in Objects : \E w, e \in BOOLEAN : DmaPin(o, x, w, e)
  BY <1>3, DmaPinKeeps
<1>4. CASE \E x \in Objects : UnmapBegin(o, x) \/ RevokeBegin(o, x)
  BY <1>4, UnmapBeginKeeps, RevokeBeginKeeps
<1>5. CASE \E x \in Objects : \E r \in Roots : CopyPin(o, r, x) \/ CloseWait(o, r, x)
  BY <1>5, CopyPinKeeps, CloseWaitKeeps
<1>6. CASE \E x \in Objects : \E r, t \in Roots, mode \in {"move", "read", "write"} : Prepare(o, r, t, x, mode)
  BY <1>6, PrepareKeeps DEF Transfers
<1> QED
  BY <1>1, <1>2, <1>3, <1>4, <1>5, <1>6 DEF OpStart

LEMMA OpStepKeeps ==
  ASSUME MemoryInvariant, NEW o \in Ops, OpStep(o)
  PROVE  MemoryInvariant'
BY MapInstallKeeps, MapFinishKeeps, RemoveLeafKeeps, UnmapFinishKeeps, RevokeFinishKeeps, CommitKeeps,
   DropTransferKeeps, CopyUnpinKeeps, CloseAgainKeeps, ReleaseKeeps DEF OpStep

LEMMA CloserStepKeeps ==
  ASSUME MemoryInvariant, NEW r \in Roots, CloserStep(r)
  PROVE  MemoryInvariant'
BY StartStages, CloseDevicesKeeps, MemoryClosedKeeps, ClaimKeeps, RetainPeerKeeps, PublishKeeps, DetachKeeps,
   FlushKeeps, UnpinKeeps, ReleasePeersKeeps, SealKeeps, ReleaseRootKeeps DEF CloserStep

LEMMA NextKeeps ==
  ASSUME MemoryInvariant, [Next]_vars
  PROVE  MemoryInvariant'
<1>1. CASE \E r \in Roots : \/ CreateRoot(r) \/ BeginClose(r) \/ CloserStep(r) \/ GiveUp(r)
                            \/ \E x \in Objects : Allocate(r, x) \/ CloseCap(r, x)
  BY <1>1, CreateRootKeeps, BeginCloseKeeps, CloserStepKeeps, StartStages, AllocateKeeps, CloseCapKeeps
<1>2. CASE \E o \in Ops : OpStart(o) \/ OpStep(o)
  BY <1>2, OpStartKeeps, OpStepKeeps
<1>3. CASE \E x \in Objects : DmaUnpin(x)
  BY <1>3, DmaUnpinKeeps
<1>4. CASE \E i \in 1 .. Capacity : ClaimRetry(i) \/ FinishRetry(i)
  BY <1>4, ClaimRetryKeeps, FinishRetryKeeps
<1>5. CASE UNCHANGED vars
  BY <1>5, StutterKeeps
<1> QED
  BY <1>1, <1>2, <1>3, <1>4, <1>5 DEF Next

(* The invariant of the kernel's tables, the objects and their pins holds  *)
(* in every state that the operations, the closing roots and the recovery  *)
(* of retained roots reach, however often the hardware refuses.            *)
THEOREM MemoryInvariantHolds == Spec => []MemoryInvariant
<1>1. Init => MemoryInvariant
  BY InitKept
<1>2. MemoryInvariant /\ [Next]_vars => MemoryInvariant'
  BY NextKeeps
<1> QED
  BY <1>1, <1>2, PTL DEF Spec

-----------------------------------------------------------------------------
(* What it says about the kernel.                                          *)

(* The tables keep their types; in particular no closing root leases       *)
(* itself, and no lease is released that was not taken.                    *)
THEOREM TypesHold == Spec => []TypeOK
<1>1. MemoryInvariant => TypeOK
  <2> SUFFICES ASSUME MemoryInvariant PROVE TypeOK
    OBVIOUS
  <2>1. Typed /\ StagesKept
    BY DEF MemoryInvariant, Tables
  <2>2. slot \in [Roots -> [gen : 0 .. MaxGen, live : BOOLEAN, closing : BOOLEAN, retiring : BOOLEAN, leases : Nat]]
    BY <2>1 DEF Typed, SlotType
  <2>3. DOMAIN obj = Objects /\ \A x \in Objects : obj[x] \in ObjectType
    BY <2>1 DEF Typed
  <2>4. ASSUME NEW v \in ObjectType
        PROVE  /\ v.state \in {"absent", "live", "gone"} /\ v.owner \in Roots \cup {NoRoot}
               /\ v.caps \in [Roots -> Caps]
               /\ v.maps \subseteq Mappings /\ v.leaves \subseteq Mappings /\ v.reach \subseteq Mappings
               /\ v.loan.kind \in {"none", "read", "write", "revoking"} /\ v.loan.who \subseteq Roots
               /\ v.pins \in Nat /\ v.copies \in Nat
               /\ v.fence \in {"none", "escrow", "set"}
               /\ v.source \in Handles \cup {NoHandle}
    BY DEF ObjectType, LoanType
  <2>5. \A r \in Roots : closer[r].peers \subseteq Roots \ {r} /\ closer[r].maps \subseteq Mappings
    BY <2>1 DEF Typed, CloserType, StagesKept, StageKept
  <2>6. \A i \in 1 .. Capacity : entry[i].attempts \in 0 .. MaxAttempts
    BY <2>1 DEF Typed, EntryType
  <2> QED
    BY <2>1, <2>2, <2>3, <2>4, <2>5, <2>6 DEF TypeOK, Typed
<1> QED
  BY <1>1, MemoryInvariantHolds, PTL

(* A translation that is recorded, installed or cached belongs to the      *)
(* present, live occupant of its slot: no root is sealed and no slot used  *)
(* again while a processor may still use a translation made for it.        *)
THEOREM TranslationsAlwaysCurrent == Spec => []TranslationsNameTheirRoot
<1>1. MemoryInvariant => TranslationsNameTheirRoot
  BY DEF MemoryInvariant, ObjectsKept, TranslationKept, Used, LiveIn, RootOf, TranslationsNameTheirRoot
<1> QED
  BY <1>1, MemoryInvariantHolds, PTL

(* Frames that went back to the allocator are reached by no processor, no  *)
(* device and no copy.                                                     *)
THEOREM FreedNeverReached == Spec => []FreedUnreachable
<1>1. MemoryInvariant => FreedUnreachable
  BY DEF MemoryInvariant, ObjectsKept, ObjectKept, Used, FreedUnreachable
<1> QED
  BY <1>1, MemoryInvariantHolds, PTL

(* A root with a writable translation, stale ones included, is alone with  *)
(* the frames, and what is copied or lent for reading is written by        *)
(* nobody, a device included.                                              *)
THEOREM WritersAlwaysAlone == Spec => []WriterAlone
<1>1. MemoryInvariant => WriterAlone
  <2> SUFFICES ASSUME MemoryInvariant, NEW x \in Objects
               PROVE  /\ \A m, n \in obj[x].reach : m.writable => n.root = m.root
                      /\ obj[x].copies # 0 \/ obj[x].loan.kind = "read" =>
                           /\ \A m \in obj[x].reach : ~m.writable
                           /\ \A d \in obj[x].dma : ~d.writes
    BY DEF WriterAlone
  <2> DEFINE v == obj[x]
  <2>1. v \in ObjectType /\ ObjectKept(v)
    BY KeptObjects DEF Kept
  <2>2. v.loan.kind \in {"none", "read", "write", "revoking"} /\ v.reach \subseteq Used(v)
    BY <2>1 DEF ObjectType, LoanType, Used
  <2>3. LoanKept(v, v.loan) /\ (v.copies # 0 => ReadOnly(v))
    BY <2>1 DEF ObjectKept
  <2> HIDE DEF v
  <2>4. \A m, n \in v.reach : m.writable => n.root = m.root
    BY <2>2, <2>3 DEF LoanKept, ReadOnly
  <2>5. v.copies # 0 \/ v.loan.kind = "read" => ReadOnly(v)
    BY <2>3 DEF LoanKept
  <2> QED
    BY <2>2, <2>4, <2>5 DEF ReadOnly, v
<1> QED
  BY <1>1, MemoryInvariantHolds, PTL

(* What a revocation and a closing root assert of the object they pinned   *)
(* is so when they come back to it: the authorities, the loan, the records *)
(* and the occupants of the peers' slots.                                  *)
THEOREM ClaimsNeverDisturbed == Spec => []ClaimsUndisturbed
<1>1. MemoryInvariant => ClaimsUndisturbed
  <2> SUFFICES ASSUME MemoryInvariant PROVE ClaimsUndisturbed
    OBVIOUS
  <2>1. ASSUME NEW o \in Ops, op[o].at = "revoke"
        PROVE  LET v == obj[op[o].object]
               IN  /\ Holds(op[o].object, op[o].root.root) /\ Holds(op[o].object, op[o].peer.root)
                   /\ v.loan.kind = "revoking" /\ v.pins = 1
                   /\ Mapped(op[o].object, op[o].peer.root) \ {op[o].mapping} = {}
                   /\ op[o].mapping # NoMapping => op[o].mapping \in v.maps
    <3>1. PinKept(op[o], obj[op[o].object])
      BY <2>1 DEF MemoryInvariant, PinsKept, Pinning
    <3>2. op[o].root.root # op[o].peer.root
      BY <2>1 DEF MemoryInvariant, Tables, OpsKept, OpKept
    <3> QED
      BY <2>1, <3>1, <3>2 DEF PinKept, Holds, Mapped
  <2>2. ASSUME NEW r \in Roots, closer[r].at \in {"retain", "detach", "flush", "unpin"}
        PROVE  /\ obj[closer[r].object].state = "live" /\ obj[closer[r].object].pins = 1
               /\ OwnRecordCurrent(r)
               /\ \A m \in Unretained(r) : closer[r].at = "retain" => AdmitsCleanup(RootOf(m))
    <3>1. closer[r].object \in Objects /\ ClaimKept(closer[r], r, obj[closer[r].object])
      BY <2>2 DEF MemoryInvariant, ClaimsKept, Claiming
    <3>2. \A m \in obj[closer[r].object].maps : LiveIn(slot, RootOf(m))
      BY <3>1 DEF MemoryInvariant, ObjectsKept, TranslationKept, Used
    <3>3. OwnRecordCurrent(r)
      BY <3>2 DEF OwnRecordCurrent, Mapped, LiveIn, RootOf
    <3>4. \A m \in Unretained(r) : AdmitsCleanup(RootOf(m))
      BY <3>2 DEF Unretained, Peers, AdmitsCleanup, Live, LiveIn
    <3> QED
      BY <3>1, <3>3, <3>4 DEF ClaimKept
  <2> QED
    BY <2>1, <2>2 DEF ClaimsUndisturbed
<1> QED
  BY <1>1, MemoryInvariantHolds, PTL

(* The count of leases that lets a root be sealed is exact: operations,    *)
(* borrowers' leases and closing roots, and nothing else.                  *)
THEOREM LeasesAlwaysExact == Spec => []LeasesExact
<1>1. MemoryInvariant => LeasesExact
  BY DEF MemoryInvariant, Tables
<1> QED
  BY <1>1, MemoryInvariantHolds, PTL
=============================================================================
