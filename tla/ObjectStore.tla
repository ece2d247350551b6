----------------------------- MODULE ObjectStore -----------------------------
(***************************************************************************)
(* The persistent object store (src/crates/catten-services/src/bin/         *)
(* objstore.rs and charlotte-protocol-objstore): copy-on-write objects on a *)
(* block device with a volatile write cache.                                *)
(*                                                                         *)
(* The service handles one request at a time; each call of the device is   *)
(* one step, so that the service or the machine may stop between any two.   *)
(* A block is written as a whole.  What was written since the last flush    *)
(* may survive a crash or not, block by block and in any order.  A rejected *)
(* write may have happened; a rejected flush guarantees nothing.            *)
(*                                                                         *)
(* Not represented: who may use which object, the operator's scope table    *)
(* (an object like the others), sizes in bytes (OP_SET_SIZE and OP_WRITE    *)
(* are one request of the object's only client), the limit of sixteen       *)
(* extents, and the bitmap's own blocks, which are written and never read:  *)
(* persist_bitmap and the flush after it are one step.                      *)
(***************************************************************************)
EXTENDS Integers, FiniteSets

CONSTANTS MaxId,        \* objects are 1 .. MaxId, also the automatic ids
          Requested,    \* the ids clients create objects at
          Slots,        \* the entries of a directory bank
          MaxBlock,     \* the data blocks are 1 .. MaxBlock
          Values,       \* what clients write
          Empty,        \* the contents of a created object
          Size,         \* the number of data blocks of a value
          Nil,          \* no value
          FaultPoints,  \* the steps whose device call may be rejected
          MaxFaults,    \* bound: rejected device calls
          MaxCrashes,   \* bound: crashes
          MaxRequests   \* bound: requests admitted

Ids == 1 .. MaxId
Blocks == 1 .. MaxBlock

ASSUME StoreAssumption ==
  /\ MaxId \in Nat \ {0} /\ MaxBlock \in Nat \ {0}
  /\ Requested \subseteq Ids
  /\ Slots \subseteq Nat \ {0} /\ IsFiniteSet(Slots)
  /\ Empty \in Values /\ Nil \notin Values
  /\ Size \in [Values -> Nat] /\ Size[Empty] = 0
  /\ MaxFaults \in Nat /\ MaxCrashes \in Nat /\ MaxRequests \in Nat

VARIABLES disk,     \* what the device returns: the directory banks, data blocks, superblocks
          older,    \* other contents each of these may have after a crash
          mem,      \* ObjStore: directory, bitmap, index_cache, next_id, super_generation
          op,       \* the request being handled and the step it is at
          reply,    \* what the last request was answered, "none" while one is handled
          issued,   \* history: the automatic ids that were returned
          faults, crashes, requests   \* counters of the bounds

vars == <<disk, older, mem, op, reply, issued, faults, crashes, requests>>

-----------------------------------------------------------------------------
(* The grammar on the device.                                              *)

\* A DirectoryEntry has an id, a generation and the header's block; id 0 is an
\* unused slot or a tombstone.
NoEntry == [id |-> 0, gen |-> 0, at |-> 0]

\* A data block: an ObjectHeader with its extents and the hash of the value,
\* or the part of a value it has room for.
Blank == [type |-> "blank", id |-> 0, gen |-> 0, ext |-> {}, val |-> Nil, part |-> 0]
Header(i, g, e, v) == [type |-> "header", id |-> i, gen |-> g, ext |-> e, val |-> v, part |-> 0]
Data(v, k) == [type |-> "data", id |-> 0, gen |-> 0, ext |-> {}, val |-> v, part |-> k]

\* A superblock has a generation, 0 when the slot is zero-filled, and the next
\* automatic id.
NoSuper == [gen |-> 0, next |-> 1]

Parts == {"bank", "block", "super"}
Places == [bank |-> 0 .. 1, block |-> Blocks, super |-> 0 .. 1]

\* newest_directory_entry
Newer(a, b) == IF a.gen >= b.gen THEN a ELSE b

NewestDirectory(first, second) == [s \in Slots |-> Newer(first[s], second[s])]

\* read_header: the block holds the header the locator was written for.
HeaderValid(d, e) ==
  /\ e.at # 0
  /\ LET h == d.block[e.at] IN h.type = "header" /\ h.id = e.id /\ h.gen = e.gen

\* The blocks of a located object.
Reached(d, e) == {e.at} \cup d.block[e.at].ext

Rank(b, e) == Cardinality({c \in e : c <= b})

\* read_object with the comparison of the content hash.
Intact(d, e) ==
  /\ HeaderValid(d, e)
  /\ LET h == d.block[e.at]
     IN  \A b \in h.ext : d.block[b] = Data(h.val, Rank(b, h.ext))

-----------------------------------------------------------------------------
(* The device.                                                             *)

Possible(p, i) == {disk[p][i]} \cup older[p][i]

\* The writes that turn the contents into d are accepted.
Store(d) ==
  /\ disk' = d
  /\ older' = [p \in Parts |-> [i \in Places[p] |->
                 IF d[p][i] = disk[p][i] THEN older[p][i]
                                         ELSE Possible(p, i) \ {d[p][i]}]]

\* They are rejected and not visible, and may still be carried out.
Discard(d) ==
  /\ disk' = disk
  /\ older' = [p \in Parts |-> [i \in Places[p] |->
                 (older[p][i] \cup {d[p][i]}) \ {disk[p][i]}]]

Clean == [p \in Parts |-> [i \in Places[p] |-> {}]]

Fault ==
  /\ op.pc \in FaultPoints
  /\ faults < MaxFaults /\ faults' = faults + 1

Accepted(d) == Store(d) /\ UNCHANGED faults
Rejected(d) == Fault /\ (Store(d) \/ Discard(d))

Flushed == older' = Clean /\ UNCHANGED <<disk, faults>>
NotFlushed == Fault /\ UNCHANGED <<disk, older>>

-----------------------------------------------------------------------------
(* The service's memory.                                                   *)

EmptyMem ==
  [dir |-> [s \in Slots |-> NoEntry], used |-> {}, cache |-> [i \in Ids |-> 0],
   next |-> 1, gen |-> 0]

NoOp(pc) ==
  [kind |-> "none", id |-> 0, val |-> Nil, slot |-> 0, entry |-> NoEntry,
   fresh |-> {}, old |-> {}, was |-> 0, auto |-> FALSE, pc |-> pc]

Lowest(S, n) == {b \in S : Cardinality({c \in S : c < b}) < n}
First(S) == CHOOSE b \in S : \A c \in S : b <= c

Holders(dir, i) == {s \in Slots : dir[s].id = i}

\* find_index: the cache decides before the directory does.
FindIndex(i) ==
  IF mem.cache[i] # 0 THEN mem.cache[i]
  ELSE IF Holders(mem.dir, i) # {} THEN First(Holders(mem.dir, i)) ELSE 0

FreeSlots == Holders(mem.dir, 0)
FreeBlocks == Blocks \ mem.used

\* next_automatic_id with at most one probe more than there are slots
Candidates ==
  {i \in Ids : mem.next <= i /\ i < mem.next + Cardinality(Slots) + 1 /\ FindIndex(i) = 0}

-----------------------------------------------------------------------------
(* Mount and first format.                                                 *)

\* What rebuild_allocation_state accepts.
Mountable(d) ==
  LET dir  == NewestDirectory(d.bank[0], d.bank[1])
      live == {s \in Slots : dir[s].id # 0}
  IN  /\ \A s \in live : HeaderValid(d, dir[s]) /\ dir[s].at \notin d.block[dir[s].at].ext
      /\ \A s, t \in live : s # t =>
           /\ dir[s].id # dir[t].id
           /\ Reached(d, dir[s]) \cap Reached(d, dir[t]) = {}

\* Mutant of NewestSuper: the first slot that can be read wins.
FirstSuper == IF disk.super[0].gen # 0 THEN disk.super[0] ELSE disk.super[1]

\* objstore_mount::select
NewestSuper ==
  IF disk.super[0].gen >= disk.super[1].gen THEN disk.super[0] ELSE disk.super[1]

\* Mount reads both superblocks and both banks; what no located object
\* reaches is free again.
Mount ==
  /\ op.pc = "down" /\ NewestSuper.gen # 0 /\ Mountable(disk)
  /\ LET dir  == NewestDirectory(disk.bank[0], disk.bank[1])
         live == {s \in Slots : dir[s].id # 0}
     IN  mem' = [dir |-> dir, used |-> UNION {Reached(disk, dir[s]) : s \in live},
                 cache |-> [i \in Ids |-> IF Holders(dir, i) = {} THEN 0 ELSE First(Holders(dir, i))],
                 next |-> NewestSuper.next, gen |-> NewestSuper.gen]
  /\ op' = NoOp("idle")
  /\ UNCHANGED <<disk, older, reply, issued, faults, crashes, requests>>

\* Only two blank superblocks permit formatting; both slots are written
\* before the flush.  A failed format ends the service.
FormatStep(from, to, written) ==
  /\ op.pc = from
  /\ \/ written /\ op' = NoOp(to) /\ UNCHANGED faults
     \/ /\ Fault /\ op' = NoOp("down")
        /\ (written \/ UNCHANGED <<disk, older>>)
  /\ mem' = IF op'.pc = "down" THEN EmptyMem ELSE [EmptyMem EXCEPT !.gen = 1]
  /\ UNCHANGED <<reply, issued, crashes, requests>>

Format ==
  LET Slot(i) == Store([disk EXCEPT !.super[i] = [gen |-> 1, next |-> 1]])
  IN  \/ NewestSuper.gen = 0 /\ FormatStep("down", "format", Slot(0))
      \/ FormatStep("format", "formatted", Slot(1))
      \/ FormatStep("formatted", "idle", older' = Clean /\ disk' = disk)

-----------------------------------------------------------------------------
(* The requests.  One that is refused before it changes anything is not a  *)
(* step.                                                                   *)

Admit ==
  /\ op.pc = "idle"
  /\ requests < MaxRequests /\ requests' = requests + 1
  /\ UNCHANGED <<disk, older, issued, faults, crashes>>

\* create admits an id, takes the first free slot and the first free block.
Create(i, auto) ==
  /\ FreeSlots # {} /\ FreeBlocks # {}
  /\ LET s == First(FreeSlots)
         b == First(FreeBlocks)
         g == mem.dir[s].gen + 1
     IN  /\ op' = [NoOp("header") EXCEPT !.kind = "create", !.id = i, !.val = Empty, !.slot = s,
                     !.entry = [id |-> i, gen |-> g, at |-> b], !.fresh = {b}, !.auto = auto]
         /\ mem' = [mem EXCEPT !.used = @ \cup {b}, !.next = IF auto THEN i + 1 ELSE @]
  /\ reply' = "none"

CreateAt(i) == Admit /\ FindIndex(i) = 0 /\ Create(i, FALSE)

CreateAuto == Admit /\ Candidates # {} /\ Create(First(Candidates), TRUE)

\* The counter has advanced when there is no block for the header.
CreateAutoFull ==
  /\ Admit /\ Candidates # {} /\ FreeSlots # {} /\ FreeBlocks = {}
  /\ mem' = [mem EXCEPT !.next = First(Candidates) + 1]
  /\ reply' = "failed"
  /\ UNCHANGED op

\* resolve, which remembers what the scan found
Resolves(i) ==
  /\ FindIndex(i) # 0
  /\ HeaderValid(disk, mem.dir[FindIndex(i)])

\* write: the replacement is placed in blocks of its own.
Write(i, v) ==
  /\ Admit /\ Resolves(i)
  /\ Cardinality(FreeBlocks) > Size[v]
  /\ LET s == FindIndex(i)
         e == mem.dir[s]
         h == First(FreeBlocks)
         x == Lowest(FreeBlocks \ {h}, Size[v])
     IN  /\ op' = [NoOp(IF x = {} THEN "header" ELSE "data") EXCEPT !.kind = "write", !.id = i,
                     !.val = v, !.slot = s, !.entry = [id |-> e.id, gen |-> e.gen + 1, at |-> h],
                     !.fresh = {h} \cup x, !.old = Reached(disk, e)]
         /\ mem' = [mem EXCEPT !.used = @ \cup {h} \cup x, !.cache[i] = s]
  /\ reply' = "none"

\* delete: a tombstone of the next generation.
Delete(i) ==
  /\ Admit /\ Resolves(i)
  /\ LET s == FindIndex(i)
         e == mem.dir[s]
     IN  /\ op' = [NoOp("locator") EXCEPT !.kind = "delete", !.id = i, !.slot = s,
                     !.entry = [NoEntry EXCEPT !.gen = e.gen + 1], !.old = Reached(disk, e), !.was = e.id]
         /\ mem' = [mem EXCEPT !.cache[i] = s]
  /\ reply' = "none"

\* OP_FLUSH
ClientFlush ==
  /\ op.pc = "idle"
  /\ (Flushed /\ reply' = "ok") \/ (NotFlushed /\ reply' = "failed")
  /\ UNCHANGED <<mem, op, issued, crashes, requests>>

-----------------------------------------------------------------------------
(* The steps of a request.  Whatever fails before the locator is durable   *)
(* frees what the request had allocated.                                   *)

GoTo(pc) == op' = [op EXCEPT !.pc = pc] /\ UNCHANGED <<mem, reply, issued, crashes, requests>>

\* The request is answered.
Done(answer) == op' = NoOp("idle") /\ reply' = answer

Abandon ==
  /\ Done("failed")
  /\ mem' = [mem EXCEPT !.used = @ \ op.fresh]
  /\ UNCHANGED <<issued, crashes, requests>>

WriteData ==
  /\ op.pc = "data"
  /\ LET x == op.fresh \ {op.entry.at}
         d == [disk EXCEPT !.block = [b \in Blocks |->
                 IF b \in x THEN Data(op.val, Rank(b, x)) ELSE @[b]]]
     IN  (Accepted(d) /\ GoTo("header")) \/ (Rejected(d) /\ Abandon)

\* Mutant of WriteHeader: the locator follows without the flush.
HeaderUnflushed ==
  /\ op.pc = "header"
  /\ LET x == op.fresh \ {op.entry.at}
         d == [disk EXCEPT !.block[op.entry.at] = Header(op.entry.id, op.entry.gen, x, op.val)]
     IN  (Accepted(d) /\ GoTo("locator")) \/ (Rejected(d) /\ Abandon)

WriteHeader ==
  /\ op.pc = "header"
  /\ LET x == op.fresh \ {op.entry.at}
         d == [disk EXCEPT !.block[op.entry.at] = Header(op.entry.id, op.entry.gen, x, op.val)]
     IN  (Accepted(d) /\ GoTo("flush")) \/ (Rejected(d) /\ Abandon)

FlushContents ==
  /\ op.pc = "flush"
  /\ (Flushed /\ GoTo("locator")) \/ (NotFlushed /\ Abandon)

\* Mutant of WriteLocator: the old contents are freed before the commit.
LocatorFrees ==
  /\ op.pc = "locator"
  /\ LET d == [disk EXCEPT !.bank[op.entry.gen % 2][op.slot] = op.entry]
     IN  \/ /\ Accepted(d)
            /\ mem' = [mem EXCEPT !.dir[op.slot] = op.entry, !.used = @ \ op.old]
            /\ op' = [op EXCEPT !.pc = "commit"]
            /\ UNCHANGED <<reply, issued, crashes, requests>>
         \/ Rejected(d) /\ Abandon

\* write_directory: the bank alternates with the generation.
WriteLocator ==
  /\ op.pc = "locator"
  /\ LET d == [disk EXCEPT !.bank[op.entry.gen % 2][op.slot] = op.entry]
     IN  \/ /\ Accepted(d)
            /\ mem' = [mem EXCEPT !.dir[op.slot] = op.entry]
            /\ op' = [op EXCEPT !.pc = "commit"]
            /\ UNCHANGED <<reply, issued, crashes, requests>>
         \/ Rejected(d) /\ Abandon

\* What the second flush commits: a created object enters the cache, a deleted
\* one leaves it, and what a write or delete replaced is free.  A create at a
\* requested id is answered.
Committed ==
  /\ mem' = [mem EXCEPT !.used = @ \ op.old,
               !.cache = [i \in Ids |->
                 IF op.kind = "create" /\ i = op.id THEN op.slot
                 ELSE IF op.kind = "delete" /\ i = op.was THEN 0 ELSE @[i]]]
  /\ op' = IF op.kind # "create" THEN [op EXCEPT !.pc = "release"]
           ELSE IF op.auto THEN [op EXCEPT !.pc = "super"] ELSE NoOp("idle")
  /\ reply' = IF op.kind = "create" /\ ~op.auto THEN "ok" ELSE reply
  /\ UNCHANGED <<issued, crashes, requests>>

\* Mutant of Commit: the second flush is left out.
CommitUnflushed == op.pc = "commit" /\ Committed /\ UNCHANGED <<disk, older, faults>>

Commit ==
  /\ op.pc = "commit"
  /\ (Flushed /\ Committed) \/ (NotFlushed /\ Abandon)

\* persist_bitmap and flush; the outcome decides only the reply.
Release ==
  /\ op.pc = "release"
  /\ (Flushed /\ Done("ok")) \/ (NotFlushed /\ Done("failed"))
  /\ UNCHANGED <<mem, issued, crashes, requests>>

\* persist_superblock: the generation advances whether or not the write does.
WriteSuper ==
  /\ op.pc = "super"
  /\ LET g == mem.gen + 1
         d == [disk EXCEPT !.super[g % 2] = [gen |-> g, next |-> mem.next]]
     IN  /\ mem' = [mem EXCEPT !.gen = g]
         /\ \/ Accepted(d) /\ op' = [op EXCEPT !.pc = "persist"] /\ UNCHANGED reply
            \/ Rejected(d) /\ Done("failed")
  /\ UNCHANGED <<issued, crashes, requests>>

\* The automatic id is returned once the counter is durable.
FlushSuper ==
  /\ op.pc = "persist"
  /\ \/ Flushed /\ issued' = issued \cup {op.id} /\ Done("ok")
     \/ NotFlushed /\ issued' = issued /\ Done("failed")
  /\ UNCHANGED <<mem, crashes, requests>>

-----------------------------------------------------------------------------
(* The machine stops: each block holds one of its possible contents.       *)

Dirty(p) == {i \in Places[p] : older[p][i] # {}}

Survivors(p) ==
  {f \in [Dirty(p) -> UNION {Possible(p, i) : i \in Dirty(p)}] :
     \A i \in Dirty(p) : f[i] \in Possible(p, i)}

Survived(p, f) == [i \in Places[p] |-> IF i \in Dirty(p) THEN f[i] ELSE disk[p][i]]

Crash ==
  /\ crashes < MaxCrashes /\ crashes' = crashes + 1
  /\ op.pc # "down" \/ older # Clean
  /\ \E x \in Survivors("bank"), y \in Survivors("block"), z \in Survivors("super") :
       disk' = [bank |-> Survived("bank", x), block |-> Survived("block", y),
                super |-> Survived("super", z)]
  /\ older' = Clean
  /\ mem' = EmptyMem /\ op' = NoOp("down") /\ reply' = "none"
  /\ UNCHANGED <<issued, faults, requests>>

-----------------------------------------------------------------------------
Init ==
  /\ disk = [bank |-> [k \in 0 .. 1 |-> [s \in Slots |-> NoEntry]],
             block |-> [b \in Blocks |-> Blank],
             super |-> [k \in 0 .. 1 |-> NoSuper]]
  /\ older = Clean
  /\ mem = EmptyMem /\ op = NoOp("down") /\ reply = "none"
  /\ issued = {} /\ faults = 0 /\ crashes = 0 /\ requests = 0

Request ==
  \/ \E i \in Requested : CreateAt(i)
  \/ \E i \in Ids : Delete(i)
  \/ \E i \in Ids, v \in Values : Write(i, v)
  \/ CreateAuto \/ CreateAutoFull \/ ClientFlush

Step ==
  \/ WriteData \/ WriteHeader \/ FlushContents \/ WriteLocator \/ Commit
  \/ Release \/ WriteSuper \/ FlushSuper

Next == Mount \/ Format \/ Request \/ Step \/ Crash

Spec == Init /\ [][Next]_vars

-----------------------------------------------------------------------------
(* Properties.                                                             *)

Up == op.pc \notin {"down", "format", "formatted"}

\* The directories a crash at this moment may leave behind.
Survivable ==
  {NewestDirectory(a, b) : a \in Possible("bank", 0), b \in Possible("bank", 1)}

Kept(e) ==
  /\ Intact(disk, e)
  /\ \A b \in Reached(disk, e) : older.block[b] = {}

\* Copy-on-write (objstore.rs:6): whichever locators survive a crash at any
\* step, the header and every data block they lead to are whole and durable,
\* and while the service runs its bitmap does not offer them to a new object.
ReachableKept ==
  \A dir \in Survivable : \A s \in Slots : dir[s].id # 0 =>
    /\ Kept(dir[s])
    /\ Up => Reached(disk, dir[s]) \subseteq mem.used

\* No crash, at any step of any request, leaves a store that mount refuses: no
\* two locators of one id, no missing header, no block of two objects.  A locator
\* write or a commit flush that the device rejects is left out (FaultPoints): the
\* blocks freed after one of these (objstore.rs:458, 570) may be reused while the
\* locator survives, and mount may then refuse.
MountSucceeds == op.pc = "down" => Mountable(disk)

\* An id returned by an automatic create is never given out again, whatever
\* was deleted, and whatever crashed or failed since (objstore.rs:463).
AutomaticIdsFresh == op.auto /\ op.pc \in {"super", "persist"} => op.id \notin issued

Damaged == "damaged"

\* What a client reads: through the index while the service waits for
\* requests, and otherwise what the directory names.
ReadOf(i) ==
  LET dir == IF Up THEN mem.dir ELSE NewestDirectory(disk.bank[0], disk.bank[1])
      s   == IF op.pc = "idle" THEN FindIndex(i)
             ELSE IF Holders(dir, i) = {} THEN 0 ELSE First(Holders(dir, i))
  IN  IF s = 0 THEN Nil
      ELSE IF Intact(disk, dir[s]) THEN disk.block[dir[s].at].val ELSE Damaged

\* What a client may read after a crash.
ReadAfterCrash(i) ==
  {IF Holders(dir, i) = {} THEN Nil
   ELSE LET e == dir[First(Holders(dir, i))]
        IN  IF Kept(e) THEN disk.block[e.at].val ELSE Damaged : dir \in Survivable}

Objects == INSTANCE DurableObjects WITH
  Contents <- Values \cup {Nil},
  current  <- [i \in Ids |-> ReadOf(i)],
  doubt    <- [i \in Ids |-> ReadAfterCrash(i)],
  request  <- IF op.kind = "none" THEN {} ELSE {[id |-> op.id, to |-> op.val]},
  answer   <- reply

\* The store implements DurableObjects, its replies mapped to the answers there
\* (objstore.rs:463-466, 485-488, 577-580): a request, or OP_FLUSH, is answered with success
\* only when no crash can undo what it did; an interrupted or failed request
\* leaves its object with the old or the new contents and never with a mixture;
\* and no request, crash or mount changes another object.
ImplementsDurableObjects == Objects!Spec
=============================================================================
