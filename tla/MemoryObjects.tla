---------------------------- MODULE MemoryObjects ----------------------------
(***************************************************************************)
(* Memory objects and the address spaces (roots) that own, borrow and map  *)
(* them, in the kernel:                                                    *)
(*                                                                         *)
(*   root slots     src/crates/catten/src/klib/collections/id_table.rs     *)
(*   operations     src/crates/catten/src/memory/operation.rs              *)
(*   objects        src/crates/catten/src/memory/object.rs and object/:    *)
(*                  mapping, transfer, revocation, dma, copy, close,       *)
(*                  retirement, namespace_close                            *)
(*   closing roots  src/crates/catten/src/memory/retirement.rs             *)
(*   recovery       src/crates/catten/src/memory/retirement/recovery.rs    *)
(*                                                                         *)
(* The registry of objects and the table of roots are each behind a lock   *)
(* of its own; an action is what the code does under one hold of one of    *)
(* them (or of the lifecycle lock around the table).  Page-table work and  *)
(* the invalidation of cached translations happen between holds, and both  *)
(* may fail: what must not happen is then prevented by counts that stay.   *)
(* The invalidation is used as Invalidation promises it.                   *)
(***************************************************************************)
EXTENDS Integers, FiniteSets

CONSTANTS Roots,        \* the slots of the address-space table
          Objects,      \* object identities, never used twice
          Ops,          \* kernel threads, each in at most one operation
          MaxGen,       \* how often a slot is occupied
          Capacity,     \* entries of the recovery registry
          MaxAttempts,  \* retries of a retained root
          MaxFaults     \* how often the hardware refuses

ASSUME BoundsAssumption == /\ MaxGen \in Nat /\ Capacity \in Nat
                           /\ MaxAttempts \in Nat /\ MaxFaults \in Nat

ASSUME TablesAssumption == /\ IsFiniteSet(Roots) /\ IsFiniteSet(Ops)
                           /\ "none" \notin Roots

VARIABLES slot,     \* the address-space table
          obj,      \* the registry of objects
          op,       \* the operations under way
          closer,   \* the owner of each root's close
          entry,    \* the recovery registry
          faults    \* refusals so far

vars == <<slot, obj, op, closer, entry, faults>>

NoRoot == "none"
Handle(r) == [root |-> r, gen |-> slot[r].gen]
NoHandle == [root |-> NoRoot, gen |-> 0]
Handles == [root : Roots, gen : 1 .. MaxGen]
Mappings == [root : Roots, gen : 1 .. MaxGen, writable : BOOLEAN]
RootOf(m) == [root |-> m.root, gen |-> m.gen]
NoMapping == [root |-> NoRoot, gen |-> 0, writable |-> FALSE]
NoLoan == [kind |-> "none", who |-> {}]

(***************************************************************************)
(* An object: its registry entry, and what the hardware may do with its    *)
(* frames.  `maps' are the mapping records, `leaves' the mappings present  *)
(* in page tables and `reach' those a processor may use, from a table or   *)
(* from a cached translation.  `caps' is what each root's capability       *)
(* allows, `pins' the retirement pins, `copies' the copy pins, `dma' the   *)
(* mappings of devices, `doomed' is destroy_when_unpinned.  `fence' says   *)
(* whether the owner's capability is in a transfer, "escrow" while it is   *)
(* taken from the owner too, and `source' is transfer_root.                *)
(***************************************************************************)
Absent ==
  [state |-> "absent", owner |-> NoRoot, caps |-> [r \in Roots |-> "none"], maps |-> {},
   leaves |-> {}, reach |-> {}, loan |-> NoLoan, pins |-> 0, copies |-> 0, dma |-> {},
   doomed |-> FALSE, fence |-> "none", source |-> NoHandle]

Idle == [at |-> "idle", root |-> NoHandle, peer |-> NoHandle, object |-> "none",
         mapping |-> NoMapping, done |-> FALSE, prior |-> NoLoan]

NotClosing == [at |-> "none", object |-> "none", maps |-> {}, peers |-> {}, done |-> FALSE]

Vacant == [state |-> "vacant", root |-> NoRoot, attempts |-> 0]

Init ==
  /\ slot = [r \in Roots |-> [gen |-> 0, live |-> FALSE, closing |-> FALSE, retiring |-> FALSE, leases |-> 0]]
  /\ obj = [x \in Objects |-> Absent]
  /\ op = [o \in Ops |-> Idle]
  /\ closer = [r \in Roots |-> NotClosing]
  /\ entry = [i \in 1 .. Capacity |-> Vacant]
  /\ faults = 0

-----------------------------------------------------------------------------
(***************************************************************************)
(* The table of roots.                                                     *)
(***************************************************************************)
Live(h) == /\ h.root \in Roots
           /\ slot[h.root].live
           /\ slot[h.root].gen = h.gen

(* lease, finish_lease, lease_for_close *)
Admits(r) == slot[r].live /\ ~slot[r].closing

(* Mutant: ordinary admission, which rejects a peer that is closing too. *)
AdmitsOpen(h) == Live(h) /\ ~slot[h.root].closing

AdmitsCleanup(h) == Live(h)

Leased(s, R) == [r \in Roots |-> IF r \in R THEN [s[r] EXCEPT !.leases = @ + 1] ELSE s[r]]
Unleased(s, R) == [r \in Roots |-> IF r \in R THEN [s[r] EXCEPT !.leases = @ - 1] ELSE s[r]]

(* budget::accepting and a capability namespace that is not retired: the   *)
(* cleanup of the root has not started.                                    *)
Accepting(h) == Live(h) /\ closer[h.root].at \in {"none", "begun", "fenced"}

(* The hardware, or page-table work, may refuse. *)
Refused == faults < MaxFaults /\ faults' = faults + 1
Agreed == UNCHANGED faults

(* The work is done or given up; the leases are still held. *)
Over(o) == op' = [op EXCEPT ![o] = [Idle EXCEPT !.at = "over", !.root = op[o].root, !.peer = op[o].peer]]

(* A slot that is not in use gets a new occupant. *)
CreateRoot(r) ==
  /\ ~slot[r].live /\ ~slot[r].retiring
  /\ slot[r].gen < MaxGen
  /\ slot' = [slot EXCEPT ![r].gen = @ + 1, ![r].live = TRUE]
  /\ UNCHANGED <<obj, op, closer, entry, faults>>

-----------------------------------------------------------------------------
(***************************************************************************)
(* Objects.  Unpinned(v) is the entry after a count of it went down:       *)
(* take_deferred_frames_if_unpinned releases the frames of a doomed object *)
(* and retires every capability to it.                                     *)
(***************************************************************************)
Closed(v) == [v EXCEPT !.state = "gone", !.caps = [r \in Roots |-> "none"]]

(* Mutant: the last unpin of a device or a copy does not look at the pins  *)
(* of operations that are detaching mappings.                              *)
FreesUnderDetach(v) ==
  IF v.doomed /\ v.copies = 0 /\ v.dma = {} /\ v.maps = {} THEN Closed(v) ELSE v

Unpinned(v) ==
  IF v.doomed /\ v.pins = 0 /\ v.copies = 0 /\ v.dma = {} /\ v.maps = {}
  THEN Closed(v)
  ELSE v

(* registry.lookup: authority in escrow is nobody's. *)
Holds(x, r) == /\ obj[x].state = "live"
               /\ obj[x].caps[r] # "none"
               /\ obj[x].owner = r => obj[x].fence # "escrow"
Writes(cap) == cap \in {"all", "write"}
Mapped(x, r) == {m \in obj[x].maps : m.root = r}

(* allocate *)
Allocate(r, x) ==
  /\ obj[x].state = "absent"
  /\ Accepting(Handle(r))
  /\ obj' = [obj EXCEPT ![x].state = "live", ![x].owner = r, ![x].caps[r] = "all"]
  /\ UNCHANGED <<slot, op, closer, entry, faults>>

(* prepare_close_cap, for the owner. *)
MayClose(x, r) ==
  LET v == obj[x]
  IN  /\ v.owner = r /\ Holds(x, r)
      /\ v.fence = "none" /\ v.loan = NoLoan
      /\ v.dma = {} /\ v.copies = 0 /\ v.pins = 0 /\ v.maps = {}

(* close_cap without a transfer: the owner gives the object up. *)
CloseCap(r, x) ==
  /\ Live(Handle(r))
  /\ MayClose(x, r)
  /\ obj' = [obj EXCEPT ![x] = Closed(@)]
  /\ UNCHANGED <<slot, op, closer, entry, faults>>

(* close_cap with one: a lease of the root the transfer recorded, until    *)
(* the fence is gone.                                                      *)
CloseWait(o, r, x) ==
  LET h == obj[x].source
  IN  /\ op[o] = Idle
      /\ obj[x].state = "live" /\ obj[x].owner = r /\ obj[x].caps[r] # "none"
      /\ obj[x].fence # "none"
      /\ Live(h) /\ Admits(h.root)
      /\ slot' = Leased(slot, {h.root})
      /\ op' = [op EXCEPT ![o] = [@ EXCEPT !.at = "close", !.root = h, !.object = x]]
      /\ UNCHANGED <<obj, closer, entry, faults>>

CloseAgain(o) ==
  LET x == op[o].object
      r == op[o].root.root
  IN  /\ op[o].at = "close"
      /\ obj[x].owner = r => obj[x].fence = "none"
      /\ obj' = [obj EXCEPT ![x] = IF MayClose(x, r) THEN Closed(@) ELSE @]
      /\ Over(o)
      /\ UNCHANGED <<slot, closer, entry, faults>>

-----------------------------------------------------------------------------
(***************************************************************************)
(* Operations that hold a lease of their root (with_address_space_         *)
(* operation): map, unmap, revoke, DMA.                                    *)
(***************************************************************************)
Acquire(o, r) ==
  /\ op[o] = Idle
  /\ Admits(r)
  /\ slot' = Leased(slot, {r})
  /\ op' = [op EXCEPT ![o].at = "leased", ![o].root = Handle(r)]
  /\ UNCHANGED <<obj, closer, entry, faults>>

(* Mutant: the borrower's lease is forgotten. *)
ReleaseFirst(o) ==
  /\ op[o].at \in {"leased", "both", "over"}
  /\ slot' = Unleased(slot, {op[o].root.root})
  /\ op' = [op EXCEPT ![o] = Idle]
  /\ UNCHANGED <<obj, closer, entry, faults>>

Release(o) ==
  /\ op[o].at \in {"leased", "both", "over"}
  /\ slot' = Unleased(slot, {op[o].root.root} \cup ({op[o].peer.root} \cap Roots))
  /\ op' = [op EXCEPT ![o] = Idle]
  /\ UNCHANGED <<obj, closer, entry, faults>>

(* check_map_lend_state *)
LoanAllows(v, r, writable) ==
  IF v.owner = r
  THEN v.loan.kind = "none" \/ (v.loan.kind = "read" /\ ~writable)
  ELSE r \in v.loan.who /\ (v.loan.kind = "read" => ~writable)

(* mapping_admission *)
MapAdmits(x, r, writable) ==
  LET v == obj[x]
  IN  /\ Holds(x, r) /\ (writable => Writes(v.caps[r]))
      /\ ~v.doomed /\ v.pins = 0 /\ v.dma = {} /\ (writable => v.copies = 0)
      /\ LoanAllows(v, r, writable)
      /\ Mapped(x, r) = {}

MapPublish(o, x, writable) ==
  /\ op[o].at = "leased"
  /\ MapAdmits(x, op[o].root.root, writable)
  /\ LET m == [root |-> op[o].root.root, gen |-> op[o].root.gen, writable |-> writable]
     IN  /\ obj' = [obj EXCEPT ![x].maps = @ \cup {m}, ![x].pins = @ + 1]
         /\ op' = [op EXCEPT ![o].at = "map", ![o].object = x, ![o].mapping = m]
  /\ UNCHANGED <<slot, closer, entry, faults>>

(* The leaves are installed; or a prefix of them, then taken out again,    *)
(* and the record moves into the pin; or they cannot be taken out.         *)
MapInstall(o) ==
  LET x == op[o].object
      m == op[o].mapping
  IN  /\ op[o].at = "map"
      /\ \/ /\ obj' = [obj EXCEPT ![x].leaves = @ \cup {m}, ![x].reach = @ \cup {m}]
            /\ op' = [op EXCEPT ![o].at = "flush", ![o].done = TRUE]
            /\ Agreed
         \/ /\ Refused
            /\ obj' = [obj EXCEPT ![x].reach = @ \cup {m}, ![x].maps = @ \ {m}]
            /\ op' = [op EXCEPT ![o].at = "flush", ![o].done = TRUE]
         \/ /\ Refused
            /\ obj' = [obj EXCEPT ![x].leaves = @ \cup {m}, ![x].reach = @ \cup {m}]
            /\ op' = [op EXCEPT ![o].at = "flush"]
      /\ UNCHANGED <<slot, closer, entry>>

(* An invalidation is confirmed: of these mappings only what is in a page  *)
(* table can still be used.                                                *)
Flushed(v, M) == [v EXCEPT !.reach = @ \ (M \ v.leaves)]

(* finish_mapping: the pin is released once the invalidation is confirmed. *)
MapFinish(o) ==
  LET x == op[o].object
      v == Flushed(obj[x], {op[o].mapping})
  IN  /\ op[o].at = "flush"
      /\ \/ obj' = [obj EXCEPT ![x] = IF op[o].done THEN Unpinned([v EXCEPT !.pins = @ - 1]) ELSE v] /\ Agreed
         \/ Refused /\ UNCHANGED obj
      /\ Over(o)
      /\ UNCHANGED <<slot, closer, entry>>

(* unmap_with_invalidation *)
UnmapBegin(o, x) ==
  /\ op[o].at = "leased"
  /\ Holds(x, op[o].root.root)
  /\ obj[x].pins = 0
  /\ \E m \in Mapped(x, op[o].root.root) :
       op' = [op EXCEPT ![o].at = "unmap", ![o].object = x, ![o].mapping = m]
  /\ obj' = [obj EXCEPT ![x].pins = @ + 1]
  /\ UNCHANGED <<slot, closer, entry, faults>>

(* pin.unmap_with, for unmap and for the borrower's mapping in a revocation. *)
RemoveLeaf(o) ==
  LET x == op[o].object
  IN  /\ op[o].at \in {"unmap", "revoke"} /\ ~op[o].done
      /\ \/ /\ obj' = [obj EXCEPT ![x].leaves = @ \ {op[o].mapping}]
            /\ op' = [op EXCEPT ![o].done = TRUE]
            /\ Agreed
         \/ /\ Refused
            /\ Over(o)
            /\ UNCHANGED obj
      /\ UNCHANGED <<slot, closer, entry>>

(* Mutant: the pin is released though the invalidation was refused. *)
UnmapUnconfirmed(o) ==
  LET x == op[o].object
      m == op[o].mapping
  IN  /\ op[o].at = "unmap" /\ op[o].done
      /\ \/ obj' = [obj EXCEPT ![x] =
                      Unpinned([Flushed(obj[x], {m}) EXCEPT !.maps = @ \ {m}, !.pins = @ - 1])]
            /\ Agreed
         \/ Refused /\ obj' = [obj EXCEPT ![x] = Unpinned([obj[x] EXCEPT !.maps = @ \ {m}, !.pins = @ - 1])]
      /\ Over(o)
      /\ UNCHANGED <<slot, closer, entry>>

UnmapFinish(o) ==
  LET x == op[o].object
      m == op[o].mapping
  IN  /\ op[o].at = "unmap" /\ op[o].done
      /\ \/ obj' = [obj EXCEPT ![x] =
                      Unpinned([Flushed(obj[x], {m}) EXCEPT !.maps = @ \ {m}, !.pins = @ - 1])]
            /\ Agreed
         \/ Refused /\ UNCHANGED obj
      /\ Over(o)
      /\ UNCHANGED <<slot, closer, entry>>

(* LeasedRevocation::prepare takes the second lease, then the fence. *)
AcquireBorrower(o, b) ==
  /\ op[o].at = "leased"
  /\ b # op[o].root.root
  /\ Admits(b)
  /\ slot' = Leased(slot, {b})
  /\ op' = [op EXCEPT ![o].at = "both", ![o].peer = Handle(b)]
  /\ UNCHANGED <<obj, closer, entry, faults>>

RevokeBegin(o, x) ==
  LET v == obj[x]
      b == op[o].peer.root
  IN  /\ op[o].at = "both"
      /\ v.owner = op[o].root.root /\ Holds(x, v.owner) /\ Holds(x, b)
      /\ ~v.doomed /\ v.pins = 0 /\ v.dma = {}
      /\ v.loan.kind \in {"read", "write"} /\ b \in v.loan.who
      /\ obj' = [obj EXCEPT ![x].pins = @ + 1, ![x].loan = [kind |-> "revoking", who |-> {}]]
      /\ op' = [op EXCEPT ![o] =
                 [@ EXCEPT !.at = "revoke", !.object = x, !.prior = v.loan,
                           !.done = Mapped(x, b) = {},
                           !.mapping = IF Mapped(x, b) = {} THEN NoMapping
                                       ELSE CHOOSE m \in Mapped(x, b) : TRUE]]
      /\ UNCHANGED <<slot, closer, entry, faults>>

Without(loan, r) ==
  IF loan.who \subseteq {r} THEN NoLoan ELSE [loan EXCEPT !.who = @ \ {r}]

RevokeFinish(o) ==
  LET x == op[o].object
      b == op[o].peer.root
      M == Mapped(x, b)
  IN  /\ op[o].at = "revoke" /\ op[o].done
      /\ \/ obj' = [obj EXCEPT ![x] =
                      Unpinned([Flushed(obj[x], M) EXCEPT !.maps = @ \ M, !.pins = @ - 1,
                                                          !.loan = Without(op[o].prior, b),
                                                          !.caps[b] = "none"])]
            /\ Agreed
         \/ Refused /\ op[o].mapping # NoMapping /\ UNCHANGED obj
      /\ Over(o)
      /\ UNCHANGED <<slot, closer, entry>>

(* dma.rs, admission and publish *)
DmaAdmits(x, r, writes, exclusive) ==
  LET v == obj[x]
  IN  /\ Holds(x, r) /\ (writes => Writes(v.caps[r]))
      /\ ~v.doomed /\ v.pins = 0
      /\ v.loan.kind # "revoking"
      /\ ~(writes /\ v.loan.kind = "read")
      /\ v.loan.kind = "write" => r \in v.loan.who
      /\ \A d \in v.dma : ~d.exclusive
      /\ writes => v.copies = 0
      /\ exclusive => (v.dma = {} /\ v.copies = 0 /\ v.loan = NoLoan /\ v.maps = {})

DmaPin(o, x, writes, exclusive) ==
  /\ op[o].at = "leased"
  /\ DmaAdmits(x, op[o].root.root, writes, exclusive)
  /\ obj' = [obj EXCEPT ![x].dma =
              @ \cup {[root |-> op[o].root.root, writes |-> writes, exclusive |-> exclusive]}]
  /\ Over(o)
  /\ UNCHANGED <<slot, closer, entry, faults>>

WithoutDma(v, D) == Unpinned([v EXCEPT !.dma = @ \ D])

(* The device's mapping was torn down: unpin_dma. *)
DmaUnpin(x) ==
  /\ \E d \in obj[x].dma : obj' = [obj EXCEPT ![x] = WithoutDma(@, {d})]
  /\ UNCHANGED <<slot, op, closer, entry, faults>>

-----------------------------------------------------------------------------
(***************************************************************************)
(* Transfers: prepared, committed, and dropped, which releases the pin and *)
(* the fence.  They hold no lease; both roots are checked again at the     *)
(* commit.  A copy only holds its pin.                                     *)
(***************************************************************************)
ValidSource(v, t, mode, prepared) ==
  /\ ~v.doomed /\ v.pins = 0 /\ v.dma = {}
  /\ IF mode = "read"
     THEN /\ v.loan.kind \notin {"write", "revoking"}
          /\ t \notin v.loan.who
          /\ \A m \in v.maps : ~m.writable
          /\ prepared => v.copies # 0
     ELSE /\ v.loan = NoLoan
          /\ v.copies = IF prepared THEN 1 ELSE 0
          /\ v.maps = {}

Needs(mode) == CASE mode = "read" -> {"all", "write", "read"}
                 [] mode = "write" -> {"all", "write"}
                 [] mode = "move" -> {"all"}

Prepare(o, r, t, x, mode) ==
  LET v == obj[x]
  IN  /\ op[o] = Idle
      /\ r # t /\ Accepting(Handle(r)) /\ Accepting(Handle(t))
      /\ v.owner = r /\ Holds(x, r) /\ v.caps[r] \in Needs(mode) /\ v.fence = "none"
      /\ ValidSource(v, t, mode, FALSE)
      /\ obj' = [obj EXCEPT ![x].copies = @ + 1, ![x].fence = "escrow", ![x].source = Handle(r)]
      /\ op' = [op EXCEPT ![o] = [@ EXCEPT !.at = mode, !.root = Handle(r), !.peer = Handle(t), !.object = x]]
      /\ UNCHANGED <<slot, closer, entry, faults>>

CommitValid(o) ==
  LET v == obj[op[o].object]
      r == op[o].root.root
  IN  /\ Accepting(op[o].peer) /\ Accepting(op[o].root)
      /\ v.state = "live" /\ v.owner = r /\ v.caps[r] # "none" /\ v.fence # "none"
      /\ ValidSource(v, op[o].peer.root, op[o].at, TRUE)

Lent(loan, t, mode) == [kind |-> mode, who |-> loan.who \cup {t}]

Commit(o) ==
  LET x == op[o].object
      t == op[o].peer.root
  IN  /\ op[o].at \in {"move", "read", "write"} /\ ~op[o].done
      /\ CommitValid(o)
      /\ obj' = [obj EXCEPT ![x] =
                  IF op[o].at = "move"
                  THEN [obj[x] EXCEPT !.owner = t, !.caps[op[o].root.root] = "none", !.caps[t] = "all",
                                      !.fence = "none"]
                  ELSE [obj[x] EXCEPT !.loan = Lent(@, t, op[o].at), !.caps[t] = op[o].at,
                                      !.fence = "set"]]
      /\ op' = [op EXCEPT ![o].done = TRUE]
      /\ UNCHANGED <<slot, closer, entry, faults>>

(* Mutant: the drop of a committed loan leaves the fence. *)
DropKeepsFence(o) ==
  LET x == op[o].object
  IN  /\ op[o].at \in {"move", "read", "write"}
      /\ obj' = [obj EXCEPT ![x] =
                  Unpinned([obj[x] EXCEPT !.copies = @ - 1, !.source = NoHandle,
                                          !.fence = IF op[o].done THEN @ ELSE "none"])]
      /\ op' = [op EXCEPT ![o] = Idle]
      /\ UNCHANGED <<slot, closer, entry, faults>>

(* PreparedTransfer::drop, after the commit or instead of it: the commit   *)
(* may be refused, or the submission fails before it.  The fence is on the *)
(* source's capability, which a committed move removed; the root recorded  *)
(* for the transfer is cleared in any case.                                *)
DropTransfer(o) ==
  LET x == op[o].object
      moved == op[o].at = "move" /\ op[o].done
  IN  /\ op[o].at \in {"move", "read", "write"}
      /\ obj' = [obj EXCEPT ![x] =
                  Unpinned([obj[x] EXCEPT !.copies = @ - 1, !.source = NoHandle,
                                          !.fence = IF moved THEN @ ELSE "none"])]
      /\ op' = [op EXCEPT ![o] = Idle]
      /\ UNCHANGED <<slot, closer, entry, faults>>

CopyPin(o, r, x) ==
  LET v == obj[x]
  IN  /\ op[o] = Idle
      /\ Live(Handle(r))
      /\ v.owner = r /\ Holds(x, r)
      /\ ~v.doomed /\ v.pins = 0 /\ v.dma = {}
      /\ v.loan.kind \notin {"write", "revoking"}
      /\ \A m \in v.maps : ~m.writable
      /\ obj' = [obj EXCEPT ![x].copies = @ + 1]
      /\ op' = [op EXCEPT ![o].at = "copy", ![o].object = x]
      /\ UNCHANGED <<slot, closer, entry, faults>>

CopyUnpin(o) ==
  LET x == op[o].object
  IN  /\ op[o].at = "copy"
      /\ obj' = [obj EXCEPT ![x] = Unpinned([obj[x] EXCEPT !.copies = @ - 1])]
      /\ op' = [op EXCEPT ![o] = Idle]
      /\ UNCHANGED <<slot, closer, entry, faults>>

-----------------------------------------------------------------------------
(***************************************************************************)
(* Closing a root (ClosingAddressSpace).  Its stages: begun, devices,      *)
(* memory, scan, retain, detach, flush, unpin, peers, final, retired; an   *)
(* owner that met a failure is lost, and keeps what it holds.  An owner    *)
(* may also give up when it is told to wait: the root stays closing, and   *)
(* nobody tries again.  It is fenced when no cleanup had started.          *)
(***************************************************************************)
Stage(r, at) == closer' = [closer EXCEPT ![r].at = at]

BeginClose(r) ==
  /\ Admits(r)
  /\ slot' = [slot EXCEPT ![r].closing = TRUE]
  /\ Stage(r, "begun")
  /\ UNCHANGED <<obj, op, entry, faults>>

(* start_cleanup: once the older leases are gone, nothing new is accepted. *)
StartCleanup(r) ==
  /\ closer[r].at = "begun" /\ slot[r].leases = 0
  /\ Stage(r, "devices")
  /\ UNCHANGED <<slot, obj, op, entry, faults>>

(* PreparedNamespaceDevices::finish ends the DMA of the root's devices. *)
CloseDevices(r) ==
  /\ closer[r].at = "devices"
  /\ \/ /\ obj' = [x \in Objects |-> WithoutDma(obj[x], {d \in obj[x].dma : d.root = r})]
        /\ Stage(r, "memory")
        /\ Agreed
     \/ /\ Refused
        /\ Stage(r, "lost")
        /\ UNCHANGED obj
  /\ UNCHANGED <<slot, op, entry>>

StartMemory(r) ==
  /\ closer[r].at = "memory" /\ slot[r].leases = 0
  /\ Stage(r, "scan")
  /\ UNCHANGED <<slot, obj, op, entry, faults>>

(* close_with: the objects to detach, and what makes one wait. *)
Wanted(r) == {x \in Objects : /\ obj[x].state = "live"
                              /\ (obj[x].owner = r /\ ~obj[x].doomed) \/ Mapped(x, r) # {}}

(* Mutant: another operation's pin is not looked at. *)
BusyUnpinned(x, r) == LET v == obj[x]
                      IN  \/ v.loan.kind = "revoking"
                          \/ v.owner # r /\ (v.dma # {} \/ v.copies # 0)

Busy(x, r) == LET v == obj[x]
              IN  \/ v.pins # 0 \/ v.loan.kind = "revoking"
                  \/ v.owner # r /\ (v.dma # {} \/ v.copies # 0)

Claim(r, x) ==
  /\ closer[r].at = "scan"
  /\ x \in Wanted(r) /\ ~Busy(x, r)
  /\ obj' = [obj EXCEPT ![x].pins = @ + 1]
  /\ closer' = [closer EXCEPT ![r].at = "retain", ![r].object = x]
  /\ UNCHANGED <<slot, op, entry, faults>>

(* Authority the root still holds that another operation depends on. *)
Entangled(r) ==
  \E x \in Objects :
    LET v == obj[x]
    IN  /\ v.state = "live" /\ v.caps[r] # "none" /\ ~v.doomed
        /\ \/ v.owner = r /\ v.fence # "none"
           \/ v.pins # 0 \/ v.dma # {} \/ v.copies # 0 \/ v.loan.kind = "revoking"

Pending(r) ==
  /\ closer[r].at = "scan"
  /\ \/ \E x \in Wanted(r) : Busy(x, r)
     \/ Wanted(r) = {} /\ Entangled(r)
  /\ \E at \in {"memory", "lost"} : Stage(r, at)
  /\ UNCHANGED <<slot, obj, op, entry, faults>>

Owning(r) == obj[closer[r].object].owner = r
Peers(r) == {m \in obj[closer[r].object].maps : Owning(r) /\ m.root # r}
Unretained(r) == {m \in Peers(r) : m.root \notin closer[r].peers}
OwnRecordCurrent(r) == \A m \in Mapped(closer[r].object, r) : m.gen = slot[r].gen

(* retain_peers, one mapping at a time.  A mapping whose root is gone      *)
(* would make it cancel; ClaimsUndisturbed says that there is none.        *)
RetainPeer(r) ==
  /\ closer[r].at = "retain"
  /\ \E m \in Unretained(r) :
       /\ AdmitsCleanup(RootOf(m))
       /\ slot' = Leased(slot, {m.root})
       /\ closer' = [closer EXCEPT ![r].peers = @ \cup {m.root}]
  /\ UNCHANGED <<obj, op, entry, faults>>

(* publish: the records move into the receipt. *)
Publish(r) ==
  LET x == closer[r].object
      M == IF Owning(r) THEN obj[x].maps ELSE Mapped(x, r)
  IN  /\ closer[r].at = "retain" /\ Unretained(r) = {}
      /\ obj' = [obj EXCEPT ![x].maps = @ \ M, ![x].doomed = @ \/ Owning(r)]
      /\ closer' = [closer EXCEPT ![r].at = "detach", ![r].maps = M]
      /\ UNCHANGED <<slot, op, entry, faults>>

(* detach_with: what one root refuses does not keep the others. *)
Detach(r) ==
  LET x == closer[r].object
      M == closer[r].maps
  IN  /\ closer[r].at = "detach"
      /\ \/ /\ obj' = [obj EXCEPT ![x].leaves = @ \ M]
            /\ closer' = [closer EXCEPT ![r].at = "flush", ![r].done = TRUE]
            /\ Agreed
         \/ /\ Refused
            /\ \E m \in M : obj' = [obj EXCEPT ![x].leaves = @ \ (M \ {m})]
            /\ Stage(r, "flush")
      /\ UNCHANGED <<slot, op, entry>>

(* complete_with_scratch: both or the receipt is kept. *)
Flush(r) ==
  LET x == closer[r].object
  IN  /\ closer[r].at = "flush"
      /\ \/ /\ obj' = [obj EXCEPT ![x] = Flushed(@, closer[r].maps)]
            /\ Stage(r, IF closer[r].done THEN "unpin" ELSE "lost")
            /\ Agreed
         \/ /\ Refused
            /\ Stage(r, "lost")
            /\ UNCHANGED obj
      /\ UNCHANGED <<slot, op, entry>>

(* clear_borrower and detach_borrower_authority *)
WithoutBorrower(v, r) ==
  IF v.pins # 0 \/ r \notin v.loan.who THEN v
  ELSE [v EXCEPT !.loan = Without(@, r),
                 !.caps[r] = IF v.loan.kind = "read" THEN "none" ELSE @]

(* release_checked: the frames may go now. *)
Unpin(r) ==
  LET x == closer[r].object
      v == Unpinned(WithoutBorrower([obj[x] EXCEPT !.pins = @ - 1], r))
  IN  /\ closer[r].at = "unpin"
      /\ obj' = [obj EXCEPT ![x] = v]
      /\ \/ Stage(r, "peers") /\ Agreed
         \/ v.state = "gone" /\ Stage(r, "lost") /\ Refused
      /\ UNCHANGED <<slot, op, entry>>

ReleasePeers(r) ==
  /\ closer[r].at = "peers"
  /\ slot' = Unleased(slot, closer[r].peers)
  /\ closer' = [closer EXCEPT ![r] = [NotClosing EXCEPT !.at = "scan"]]
  /\ UNCHANGED <<obj, op, entry, faults>>

(* The rest of the root's authority goes. *)
MemoryClosed(r) ==
  /\ closer[r].at = "scan" /\ Wanted(r) = {} /\ ~Entangled(r)
  /\ obj' = [x \in Objects |-> [WithoutBorrower(obj[x], r) EXCEPT !.caps[r] = "none"]]
  /\ Stage(r, "final")
  /\ UNCHANGED <<slot, op, entry, faults>>

(* Mutant: the leases are not counted again before the root is sealed. *)
SealLeased(r) ==
  /\ closer[r].at = "final"
  /\ slot' = [slot EXCEPT ![r].live = FALSE, ![r].retiring = TRUE]
  /\ Stage(r, "retired")
  /\ UNCHANGED <<obj, op, entry, faults>>

(* seal_close and retire_closing *)
Seal(r) ==
  /\ closer[r].at = "final" /\ slot[r].leases = 0
  /\ slot' = [slot EXCEPT ![r].live = FALSE, ![r].retiring = TRUE]
  /\ Stage(r, "retired")
  /\ UNCHANGED <<obj, op, entry, faults>>

(* The poll answers Pending for the leases of others, and the owner does   *)
(* not wait longer: the deadline of DomainTeardown passed, or it is        *)
(* close_user_address_space_handle, which does not wait.                   *)
GiveUp(r) ==
  /\ closer[r].at \in {"begun", "memory", "final"} /\ slot[r].leases # 0
  /\ Stage(r, IF closer[r].at = "begun" THEN "fenced" ELSE "lost")
  /\ UNCHANGED <<slot, obj, op, entry, faults>>

(* finish_retirement: the slot may be used again. *)
Retired(s, r) == [s EXCEPT ![r].retiring = FALSE, ![r].closing = FALSE]
RootFlushed(r) == [x \in Objects |-> Flushed(obj[x], {m \in obj[x].reach : m.root = r})]

Room == {i \in 1 .. Capacity : entry[i].state \in {"vacant", "recovered"}}

(* release_with: the last invalidation, or the recovery registry, or       *)
(* nobody.                                                                 *)
ReleaseRoot(r) ==
  /\ closer[r].at = "retired"
  /\ closer' = [closer EXCEPT ![r] = NotClosing]
  /\ \/ /\ slot' = Retired(slot, r)
        /\ obj' = RootFlushed(r)
        /\ Agreed
        /\ UNCHANGED entry
     \/ /\ Refused
        /\ \/ \E i \in Room : /\ \A j \in Room : i <= j
                              /\ entry' = [entry EXCEPT ![i] = [state |-> "await", root |-> r, attempts |-> 0]]
           \/ Room = {} /\ UNCHANGED entry
        /\ UNCHANGED <<slot, obj>>
  /\ UNCHANGED op

-----------------------------------------------------------------------------
(***************************************************************************)
(* Recovery of retained roots (recovery.rs, claim and retry_with).         *)
(***************************************************************************)
(* Mutant: retries without a limit. *)
ClaimAlways(i) ==
  /\ entry[i].state = "await"
  /\ entry' = [entry EXCEPT ![i].state = "running", ![i].attempts = @ + 1]
  /\ UNCHANGED <<slot, obj, op, closer, faults>>

ClaimRetry(i) ==
  /\ entry[i].state = "await" /\ entry[i].attempts < MaxAttempts
  /\ entry' = [entry EXCEPT ![i].state = "running", ![i].attempts = @ + 1]
  /\ UNCHANGED <<slot, obj, op, closer, faults>>

(* The retries are bounded, so their refusals are not counted. *)
FinishRetry(i) ==
  /\ entry[i].state = "running"
  /\ \/ /\ slot' = Retired(slot, entry[i].root)
        /\ obj' = RootFlushed(entry[i].root)
        /\ \E state \in {"recovered", "quarantined"} : entry' = [entry EXCEPT ![i].state = state]
     \/ /\ entry' = [entry EXCEPT ![i].state = "await"]
        /\ UNCHANGED <<slot, obj>>
  /\ UNCHANGED <<op, closer, faults>>

-----------------------------------------------------------------------------
OpStart(o) ==
  \/ \E r \in Roots : Acquire(o, r) \/ AcquireBorrower(o, r)
  \/ \E x \in Objects :
       \/ \E w \in BOOLEAN : MapPublish(o, x, w)
       \/ \E w, e \in BOOLEAN : DmaPin(o, x, w, e)
       \/ UnmapBegin(o, x) \/ RevokeBegin(o, x)
       \/ \E r \in Roots : CopyPin(o, r, x) \/ CloseWait(o, r, x)
       \/ \E r, t \in Roots, mode \in {"move", "read", "write"} : Prepare(o, r, t, x, mode)

OpStep(o) ==
  \/ MapInstall(o) \/ MapFinish(o) \/ RemoveLeaf(o) \/ UnmapFinish(o) \/ RevokeFinish(o)
  \/ Commit(o) \/ DropTransfer(o) \/ CopyUnpin(o) \/ CloseAgain(o) \/ Release(o)

CloserStep(r) ==
  \/ StartCleanup(r) \/ CloseDevices(r) \/ StartMemory(r) \/ Pending(r) \/ MemoryClosed(r)
  \/ \E x \in Objects : Claim(r, x)
  \/ RetainPeer(r) \/ Publish(r) \/ Detach(r) \/ Flush(r) \/ Unpin(r)
  \/ ReleasePeers(r) \/ Seal(r) \/ ReleaseRoot(r)

Next ==
  \/ \E r \in Roots : \/ CreateRoot(r) \/ BeginClose(r) \/ CloserStep(r) \/ GiveUp(r)
                      \/ \E x \in Objects : Allocate(r, x) \/ CloseCap(r, x)
  \/ \E o \in Ops : OpStart(o) \/ OpStep(o)
  \/ \E x \in Objects : DmaUnpin(x)
  \/ \E i \in 1 .. Capacity : ClaimRetry(i) \/ FinishRetry(i)

(***************************************************************************)
(* An operation that started runs on, and a closing owner is polled until  *)
(* it ends or gives up.  Nothing makes a device end its DMA, a root close, *)
(* or an operator retry.                                                   *)
(***************************************************************************)
Fairness == /\ \A o \in Ops : WF_vars(OpStep(o))
            /\ \A r \in Roots : WF_vars(CloserStep(r))

Spec == Init /\ [][Next]_vars /\ Fairness

-----------------------------------------------------------------------------
Caps == {"none", "read", "write", "all"}

(* The types of the kernel's tables: id_table.rs SlotState, object.rs      *)
(* MemoryObject, the operations' and closing owners' local state.          *)
TypeOK ==
  /\ slot \in [Roots -> [gen : 0 .. MaxGen, live : BOOLEAN, closing : BOOLEAN, retiring : BOOLEAN, leases : Nat]]
  /\ DOMAIN obj = Objects
  /\ \A x \in Objects :
       /\ obj[x].state \in {"absent", "live", "gone"} /\ obj[x].owner \in Roots \cup {NoRoot}
       /\ obj[x].caps \in [Roots -> Caps]
       /\ obj[x].maps \subseteq Mappings /\ obj[x].leaves \subseteq Mappings /\ obj[x].reach \subseteq Mappings
       /\ obj[x].loan.kind \in {"none", "read", "write", "revoking"} /\ obj[x].loan.who \subseteq Roots
       /\ obj[x].pins \in Nat /\ obj[x].copies \in Nat
       /\ obj[x].fence \in {"none", "escrow", "set"}
       /\ obj[x].source \in Handles \cup {NoHandle}
  /\ \A r \in Roots : closer[r].peers \subseteq Roots \ {r} /\ closer[r].maps \subseteq Mappings
  /\ \A i \in 1 .. Capacity : entry[i].attempts \in 0 .. MaxAttempts
  /\ faults \in 0 .. MaxFaults

(* No root's slot is used again while a processor may still use a          *)
(* translation made for its earlier occupant, however many invalidations   *)
(* were refused (mapping leases, receipts and retirement pins).            *)
TranslationsNameTheirRoot ==
  \A x \in Objects : \A m \in obj[x].reach \cup obj[x].leaves \cup obj[x].maps :
    /\ slot[m.root].gen = m.gen
    /\ slot[m.root].live

(* Frames that went back to the allocator are reached by no processor, no  *)
(* device and no copy (take_deferred_frames_if_unpinned).                  *)
FreedUnreachable ==
  \A x \in Objects :
    obj[x].state = "gone" => /\ obj[x].reach = {} /\ obj[x].leaves = {}
                             /\ obj[x].dma = {} /\ obj[x].copies = 0

(* Who may write the frames is alone with them: a root with a writable     *)
(* translation, stale ones included, excludes every other root's, and what *)
(* is copied or lent for reading is written by nobody.                     *)
WriterAlone ==
  \A x \in Objects :
    /\ \A m, n \in obj[x].reach : m.writable => n.root = m.root
    /\ obj[x].copies # 0 \/ obj[x].loan.kind = "read" =>
         /\ \A m \in obj[x].reach : ~m.writable
         /\ \A d \in obj[x].dma : ~d.writes

(* What a revocation asserts when it ends (LoanRevocation::finish_with):   *)
(* both capabilities, the fence and the borrower's mapping are as it left  *)
(* them; and what a closing owner asserts of a claimed object              *)
(* (retain_peers, publish).                                                *)
ClaimsUndisturbed ==
  /\ \A o \in Ops :
       op[o].at = "revoke" =>
         LET v == obj[op[o].object]
         IN  /\ Holds(op[o].object, op[o].root.root) /\ Holds(op[o].object, op[o].peer.root)
             /\ v.loan.kind = "revoking" /\ v.pins = 1
             /\ Mapped(op[o].object, op[o].peer.root) \ {op[o].mapping} = {}
             /\ op[o].mapping # NoMapping => op[o].mapping \in v.maps
  /\ \A r \in Roots :
       closer[r].at \in {"retain", "detach", "flush", "unpin"} =>
         /\ obj[closer[r].object].state = "live" /\ obj[closer[r].object].pins = 1
         /\ OwnRecordCurrent(r)
         /\ \A m \in Unretained(r) : closer[r].at = "retain" => AdmitsCleanup(RootOf(m))

(* Every lease is held by somebody, and nobody releases another's: the     *)
(* count that lets a root be sealed is exact (finish_lease).               *)
LeasesExact ==
  \A r \in Roots :
    slot[r].leases = Cardinality({o \in Ops : op[o].root.root = r /\ op[o].at \notin {"move", "read", "write"}})
                   + Cardinality({o \in Ops : op[o].peer.root = r /\ op[o].at \in {"both", "revoke", "over"}})
                   + Cardinality({s \in Roots : r \in closer[s].peers})

(* Every operation ends.  A close that waits for a transfer sees its fence *)
(* open again and again: every transfer is dropped, and only the next one  *)
(* can make it wait longer (Close::run).                                   *)
OperationsEnd ==
  \A o \in Ops :
    []<>(op[o] = Idle \/ (op[o].at = "close" /\ obj[op[o].object].fence = "none"))

(* A root whose owner does not give up is closed, whatever the owners of   *)
(* the others do: two that close each other's peers do not wait for each   *)
(* other, and one that gave up keeps nothing another one waits for.        *)
(* Unless the hardware refused, a device of another root is left on an     *)
(* object the root borrowed, or new operations keep coming: an object is   *)
(* claimed only in a moment without one (close_with returns Pending).      *)
ClosesComplete ==
  \A r \in Roots :
    []<>(\/ closer[r].at \in {"none", "fenced", "lost"} \/ faults # 0
         \/ \E x \in Objects : \E d \in obj[x].dma : d.root # r
         \/ \E o \in Ops : op[o] # Idle)

(* The active transfer stores its exact prepared source root (close.rs).   *)
ActiveTransferHasRoot == \A x \in Objects : obj[x].fence # "none" => obj[x].source # NoHandle
=============================================================================
