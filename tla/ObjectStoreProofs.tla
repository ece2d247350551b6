------------------------- MODULE ObjectStoreProofs -------------------------
(***************************************************************************)
(* Safety of the object store for every number of objects, slots and       *)
(* blocks, every set of values, and any number of requests, crashes and    *)
(* rejected device calls, provided that the device rejects no write of a   *)
(* locator and no flush that commits one.  The proviso is needed: after a  *)
(* rejected commit the service frees the blocks of a locator that a crash  *)
(* may still leave behind.                                                 *)
(***************************************************************************)
EXTENDS ObjectStore, FiniteSetTheorems, WellFoundedInduction, TLAPS

\* The device carries out the write of a locator and the flush after it.
CommitsAccepted == FaultPoints \cap {"locator", "commit"} = {}

-----------------------------------------------------------------------------
(* Types.                                                                  *)

Contents == Values \cup {Nil}

EntryType == [id : 0 .. MaxId, gen : Nat, at : 0 .. MaxBlock]
BankType == [Slots -> EntryType]
BlockType ==
  [type : {"blank", "header", "data"}, id : 0 .. MaxId, gen : Nat, ext : SUBSET Blocks,
   val : Contents, part : Nat]
SuperType == [gen : Nat, next : Nat]

StepType ==
  {"down", "format", "formatted", "idle", "data", "header", "flush", "locator", "commit",
   "release", "super", "persist"}

DiskType ==
  [bank : [0 .. 1 -> BankType], block : [Blocks -> BlockType], super : [0 .. 1 -> SuperType]]

OlderTypeOK ==
  /\ older.bank \in [0 .. 1 -> SUBSET BankType]
  /\ older.block \in [Blocks -> SUBSET BlockType]
  /\ older.super \in [0 .. 1 -> SUBSET SuperType]

MemType ==
  [dir : BankType, used : SUBSET Blocks, cache : [Ids -> Slots \cup {0}], next : Nat, gen : Nat]

OpType ==
  [kind : {"none", "create", "write", "delete"}, id : 0 .. MaxId, val : Contents,
   slot : Slots \cup {0}, entry : EntryType, fresh : SUBSET Blocks, old : SUBSET Blocks,
   was : 0 .. MaxId, auto : BOOLEAN, pc : StepType]

StoreTypeOK ==
  /\ disk \in DiskType
  /\ OlderTypeOK
  /\ mem \in MemType
  /\ op \in OpType
  /\ issued \subseteq Ids
  /\ faults \in Nat /\ crashes \in Nat /\ requests \in Nat

-----------------------------------------------------------------------------
(* The inductive invariant.                                                *)

\* The directory a mount would read.
Current == NewestDirectory(disk.bank[0], disk.bank[1])

Live(dir) == {s \in Slots : dir[s].id # 0}

\* The blocks of the object that e locates, given the contents of the blocks.
Span(blk, e) == {e.at} \cup blk[e.at].ext

\* e locates a whole header and whole data, all of it durable.
Whole(blk, old, e) ==
  LET h == blk[e.at]
  IN  /\ e.at \in Blocks /\ h.type = "header" /\ h.id = e.id /\ h.gen = e.gen
      /\ e.at \notin h.ext /\ h.ext \subseteq Blocks
      /\ \A b \in h.ext : blk[b] = Data(h.val, Rank(b, h.ext))
      /\ \A b \in Span(blk, e) : old[b] = {}

\* What a directory locates is whole, and apart from each other.
Sound(blk, old, dir) ==
  /\ \A s \in Live(dir) : Whole(blk, old, dir[s])
  /\ \A s, t \in Live(dir) : s # t =>
       /\ dir[s].id # dir[t].id
       /\ Span(blk, dir[s]) \cap Span(blk, dir[t]) = {}

\* A bank is volatile only while its flush is due.
BanksDurable == op.pc # "commit" => older.bank[0] = {} /\ older.bank[1] = {}

\* Every directory a crash may leave behind is sound, and the running service
\* knows its blocks to be in use.
AllSound ==
  \A dir \in Survivable :
    /\ Sound(disk.block, older.block, dir)
    /\ Up => \A s \in Live(dir) : Span(disk.block, dir[s]) \subseteq mem.used

\* The service's directory and cache agree with the banks.  The cache keeps a
\* deleted object until the deletion is durable.
MemAgrees ==
  Up =>
    /\ mem.dir = Current
    /\ \A i \in Ids : mem.cache[i] # 0 =>
         \/ mem.dir[mem.cache[i]].id = i
         \/ op.pc = "commit" /\ op.kind = "delete" /\ i = op.was

\* Between requests the record of the request is empty.
NoRequest == op.pc \in {"down", "format", "formatted", "idle"} => op = NoOp(op.pc)

\* What the request has written of its header and its data.
Extents == op.fresh \ {op.entry.at}

DataWritten == \A b \in Extents : disk.block[b] = Data(op.val, Rank(b, Extents))

HeaderWritten ==
  disk.block[op.entry.at] = Header(op.entry.id, op.entry.gen, Extents, op.val)

\* A request before its locator: what it writes to is used, and reached by no
\* located object; what it will replace is what the slot locates.
Preparing ==
  op.pc \in {"data", "header", "flush", "locator"} =>
    /\ op.slot \in Slots /\ op.id \in Ids
    /\ op.entry.gen = mem.dir[op.slot].gen + 1
    /\ op.fresh \subseteq mem.used
    /\ \A s \in Live(mem.dir) : op.fresh \cap Span(disk.block, mem.dir[s]) = {}
    /\ \/ /\ op.kind = "create" /\ op.entry.id = op.id /\ op.old = {}
          /\ mem.dir[op.slot].id = 0
          /\ \A s \in Slots : mem.dir[s].id # op.id
       \/ /\ op.kind = "write" /\ op.entry.id = op.id
          /\ mem.dir[op.slot].id = op.id
          /\ op.old = Span(disk.block, mem.dir[op.slot])
       \/ /\ op.kind = "delete" /\ op.entry.id = 0 /\ op.was = op.id /\ op.val = Nil
          /\ mem.dir[op.slot].id = op.id /\ op.fresh = {} /\ op.pc = "locator"
          /\ op.old = Span(disk.block, mem.dir[op.slot])
    /\ op.kind # "delete" =>
         /\ op.entry.at \in op.fresh
         /\ op.pc # "data" => DataWritten
         /\ op.pc \in {"flush", "locator"} => HeaderWritten
         /\ op.pc = "locator" => \A b \in op.fresh : older.block[b] = {}

\* A request whose locator is written and not yet durable: a crash leaves the
\* old locator or the new one, and what the old one reached is not shared.
Committing ==
  op.pc = "commit" =>
    /\ op.slot \in Slots /\ op.id \in Ids
    /\ mem.dir[op.slot] = op.entry
    /\ \A s \in Live(mem.dir) : op.old \cap Span(disk.block, mem.dir[s]) = {}
    /\ \A dir \in Survivable :
         /\ \A s \in Slots \ {op.slot} : dir[s] = mem.dir[s]
         /\ dir[op.slot] = op.entry \/ dir[op.slot].id \in {0, op.id}
    /\ \/ op.kind \in {"create", "write"} /\ op.entry.id = op.id /\ HeaderWritten
       \/ /\ op.kind = "delete" /\ op.entry.id = 0 /\ op.was = op.id /\ op.val = Nil
          /\ \A s \in Slots : mem.dir[s].id # op.id

\* The kinds of request that come to the steps after the commit.
Finishing ==
  /\ op.pc = "release" => op.kind \in {"write", "delete"}
  /\ op.pc \in {"super", "persist"} => op.kind = "create" /\ op.auto /\ op.id \in Ids

SuperOf(a, b) == IF a.gen >= b.gen THEN a ELSE b

\* No superblock that a crash may leave as the newest forgets an id that was
\* returned; a store without one holds nothing.
SupersRemember ==
  \A a \in Possible("super", 0), b \in Possible("super", 1) :
    /\ a.gen = 0 => a = NoSuper
    /\ b.gen = 0 => b = NoSuper
    /\ \A j \in issued : j < SuperOf(a, b).next
    /\ a.gen = 0 /\ b.gen = 0 =>
         /\ op.pc \notin {"locator", "commit"}
         /\ \A k \in 0 .. 1, s \in Slots : disk.bank[k][s] = NoEntry

\* The generation and the counter of the running service are ahead of every
\* superblock and of every id returned.
CounterAhead ==
  Up =>
    /\ \E k \in 0 .. 1 : disk.super[k].gen # 0
    /\ \A k \in 0 .. 1 : \A a \in Possible("super", k) : a.gen <= mem.gen
    /\ \A j \in issued : j < mem.next
    /\ op.auto => op.id < mem.next /\ op.id \notin issued
    /\ op.pc = "persist" =>
         /\ disk.super[mem.gen % 2] = [gen |-> mem.gen, next |-> mem.next]
         /\ \A k \in 0 .. 1 : k # mem.gen % 2 => disk.super[k].gen < mem.gen

\* Before the service runs, what is not durable is what a format left.
Formatting ==
  ~Up =>
    /\ \A k \in 0 .. 1 : \A a \in older.super[k] : a.gen <= 1
    /\ op.pc \in {"format", "formatted"} =>
         /\ issued = {}
         /\ \A k \in 0 .. 1 : disk.super[k].gen <= 1
         /\ disk.super[0].gen = 1
         /\ \A k \in 0 .. 1, s \in Slots : disk.bank[k][s] = NoEntry

StoreInvariant ==
  /\ StoreTypeOK
  /\ BanksDurable /\ AllSound /\ MemAgrees
  /\ NoRequest /\ Preparing /\ Committing /\ Finishing
  /\ SupersRemember /\ CounterAhead /\ Formatting

-----------------------------------------------------------------------------
(* Operators.                                                              *)

\* First returns the least element of a set of numbers.
LEMMA FirstLeast ==
  ASSUME NEW S \in SUBSET Nat, S # {}
  PROVE  First(S) \in S /\ \A c \in S : First(S) <= c
<1> DEFINE R == OpToRel(<, Nat)
<1>1. PICK t \in S : \A y \in S : <<y, t>> \notin R
  <2> HIDE DEF R
  <2>1. IsWellFoundedOn(R, Nat)
    BY NatLessThanWellFounded DEF R
  <2> QED
    BY <2>1, WFMin
<1>2. \A y \in S : t <= y
  <2> SUFFICES ASSUME NEW y \in S, y < t PROVE FALSE
    OBVIOUS
  <2>1. <<y, t>> \in Nat \X Nat
    OBVIOUS
  <2>2. <<y, t>> \in R
    BY <2>1 DEF R, OpToRel
  <2> QED
    BY <1>1, <2>2
<1> QED
  BY <1>2 DEF First

\* A data block knows its place among the blocks of its object.
LEMMA RankType ==
  ASSUME NEW e \in SUBSET Blocks, NEW b \in Blocks
  PROVE  Rank(b, e) \in Nat
<1>1. IsFiniteSet(Blocks)
  BY StoreAssumption, FS_Interval DEF Blocks
<1>2. IsFiniteSet({c \in e : c <= b})
  BY <1>1, FS_Subset
<1> QED
  BY <1>2, FS_CardinalityType DEF Rank

-----------------------------------------------------------------------------
(* The device.                                                             *)


LEMMA PlacesOf ==
  Parts = {"bank", "block", "super"} /\ Places.bank = 0 .. 1 /\ Places.block = Blocks
  /\ Places.super = 0 .. 1
BY DEF Parts, Places

\* What may be found after an accepted and after a rejected write of d.
Overwritten(d) ==
  /\ older'.bank = [i \in 0 .. 1 |-> IF d.bank[i] = disk.bank[i] THEN older.bank[i]
                      ELSE ({disk.bank[i]} \cup older.bank[i]) \ {d.bank[i]}]
  /\ older'.block = [i \in Blocks |-> IF d.block[i] = disk.block[i] THEN older.block[i]
                      ELSE ({disk.block[i]} \cup older.block[i]) \ {d.block[i]}]
  /\ older'.super = [i \in 0 .. 1 |-> IF d.super[i] = disk.super[i] THEN older.super[i]
                      ELSE ({disk.super[i]} \cup older.super[i]) \ {d.super[i]}]

Dropped(d) ==
  /\ older'.bank = [i \in 0 .. 1 |-> (older.bank[i] \cup {d.bank[i]}) \ {disk.bank[i]}]
  /\ older'.block = [i \in Blocks |-> (older.block[i] \cup {d.block[i]}) \ {disk.block[i]}]
  /\ older'.super = [i \in 0 .. 1 |-> (older.super[i] \cup {d.super[i]}) \ {disk.super[i]}]

LEMMA CleanOlder ==
  /\ Clean.bank = [i \in 0 .. 1 |-> {}]
  /\ Clean.block = [i \in Blocks |-> {}]
  /\ Clean.super = [i \in 0 .. 1 |-> {}]
BY PlacesOf DEF Clean

\* A write of blocks, accepted or rejected, leaves banks, superblocks and
\* other blocks as they are.
LEMMA WriteBlocks ==
  ASSUME StoreTypeOK, NEW f \in [Blocks -> BlockType],
         Accepted([disk EXCEPT !.block = f]) \/ Rejected([disk EXCEPT !.block = f])
  PROVE  /\ disk' \in DiskType /\ OlderTypeOK' /\ faults' \in Nat
         /\ disk'.bank = disk.bank /\ disk'.super = disk.super
         /\ \A k \in 0 .. 1 : older'.bank[k] \subseteq older.bank[k]
         /\ \A k \in 0 .. 1 : older'.super[k] \subseteq older.super[k]
         /\ \A b \in Blocks : f[b] = disk.block[b] =>
              disk'.block[b] = disk.block[b] /\ (older.block[b] = {} => older'.block[b] = {})
         /\ Accepted([disk EXCEPT !.block = f]) => disk'.block = f
<1> USE DEF StoreTypeOK
<1> DEFINE d == [disk EXCEPT !.block = f]
<1>1. d \in DiskType /\ d.block = f /\ d.bank = disk.bank /\ d.super = disk.super
  BY DEF DiskType
<1> HIDE DEF d
<1>t. /\ disk.bank \in [0 .. 1 -> BankType] /\ disk.block \in [Blocks -> BlockType]
      /\ disk.super \in [0 .. 1 -> SuperType]
  BY DEF DiskType
<1>f. faults' \in Nat
  BY DEF d, Accepted, Rejected, Fault
<1>2. CASE Store(d)
  <2> Overwritten(d)
    BY <1>2, PlacesOf DEF Store, Possible, Overwritten
  <2>1. disk' = d
    BY <1>2 DEF Store
  <2>2. older'.bank = older.bank /\ older'.super = older.super
    BY <1>1, <1>2 DEF Overwritten, OlderTypeOK
  <2>3. older'.block \in [Blocks -> SUBSET BlockType]
    BY <1>1, <1>2, <1>t DEF Overwritten, OlderTypeOK
  <2>4. \A b \in Blocks : f[b] = disk.block[b] => older'.block[b] = older.block[b]
    BY <1>1 DEF Overwritten
  <2> QED
    BY <1>1, <1>f, <2>1, <2>2, <2>3, <2>4 DEF OlderTypeOK
<1>3. CASE Discard(d) /\ ~Accepted(d)
  <2> Dropped(d)
    BY <1>3, PlacesOf DEF Discard, Dropped
  <2>1. disk' = disk
    BY <1>3 DEF Discard
  <2>2. \A k \in 0 .. 1 : /\ older'.bank[k] = older.bank[k] \ {disk.bank[k]}
                          /\ older'.super[k] = older.super[k] \ {disk.super[k]}
    BY <1>1 DEF Dropped
  <2>3. older'.block \in [Blocks -> SUBSET BlockType]
    BY <1>1, <1>3, <1>t DEF Dropped, OlderTypeOK
  <2>4. \A b \in Blocks : f[b] = disk.block[b] => older'.block[b] = older.block[b] \ {disk.block[b]}
    BY <1>1 DEF Dropped
  <2>5. /\ older'.bank \in [0 .. 1 -> SUBSET BankType]
        /\ older'.super \in [0 .. 1 -> SUBSET SuperType]
    BY <1>1, <1>3, <1>t DEF Dropped, OlderTypeOK
  <2>6. OlderTypeOK'
    BY <2>3, <2>5 DEF OlderTypeOK
  <2> QED
    BY <1>1, <1>3, <1>f, <2>1, <2>2, <2>4, <2>6 DEF d
<1> QED
  BY <1>2, <1>3 DEF d, Accepted, Rejected

\* The write of a locator when both banks are durable.
LEMMA WriteBank ==
  ASSUME StoreTypeOK, older.bank[0] = {}, older.bank[1] = {},
         NEW k \in 0 .. 1, NEW s \in Slots, NEW e \in EntryType,
         Accepted([disk EXCEPT !.bank[k][s] = e])
  PROVE  /\ disk' \in DiskType /\ OlderTypeOK' /\ faults' \in Nat
         /\ disk'.bank = [disk.bank EXCEPT ![k][s] = e]
         /\ disk'.block = disk.block /\ disk'.super = disk.super
         /\ \A j \in 0 .. 1 : older'.bank[j] \subseteq {disk.bank[j]}
         /\ \A j \in 0 .. 1 : j # k => older'.bank[j] = {}
         /\ disk.bank[k][s] # e => older'.bank[k] = {disk.bank[k]}
         /\ older'.block = older.block /\ older'.super = older.super
<1> USE DEF StoreTypeOK
<1> DEFINE d == [disk EXCEPT !.bank[k][s] = e]
<1>t. /\ disk.bank \in [0 .. 1 -> BankType] /\ disk.block \in [Blocks -> BlockType]
      /\ disk.super \in [0 .. 1 -> SuperType]
  BY DEF DiskType
<1>1. /\ d = [disk EXCEPT !.bank = [disk.bank EXCEPT ![k][s] = e]]
      /\ [disk.bank EXCEPT ![k][s] = e] \in [0 .. 1 -> BankType]
  BY <1>t DEF DiskType, BankType
<1>2. /\ d \in DiskType /\ d.bank = [disk.bank EXCEPT ![k][s] = e]
      /\ d.block = disk.block /\ d.super = disk.super
  BY <1>1 DEF DiskType
<1>3. \A j \in 0 .. 1 : j # k => d.bank[j] = disk.bank[j]
  BY <1>2, <1>t
<1>4. disk' = d /\ Overwritten(d) /\ faults' \in Nat
  BY PlacesOf DEF Accepted, Store, Possible, Overwritten
<1> HIDE DEF d
<1>5. /\ older'.bank \in [0 .. 1 -> SUBSET BankType]
      /\ older'.block = older.block /\ older'.super = older.super
  BY <1>2, <1>4, <1>t DEF Overwritten, OlderTypeOK
<1>6. /\ \A j \in 0 .. 1 : older'.bank[j] \subseteq {disk.bank[j]}
      /\ \A j \in 0 .. 1 : j # k => older'.bank[j] = {}
  BY <1>3, <1>4 DEF Overwritten
<1>7. disk.bank[k][s] # e => older'.bank[k] = {disk.bank[k]}
  <2> SUFFICES ASSUME disk.bank[k][s] # e PROVE older'.bank[k] = {disk.bank[k]}
    OBVIOUS
  <2>1. d.bank[k][s] = e
    BY <1>2, <1>t DEF BankType
  <2> QED
    BY <1>4, <2>1 DEF Overwritten
<1> QED
  BY <1>2, <1>4, <1>5, <1>6, <1>7 DEF OlderTypeOK

\* The write of a superblock, accepted or rejected.
LEMMA WriteSuperSlot ==
  ASSUME StoreTypeOK, NEW k \in 0 .. 1, NEW a \in SuperType,
         \/ Store([disk EXCEPT !.super[k] = a])
         \/ Discard([disk EXCEPT !.super[k] = a])
  PROVE  /\ disk' \in DiskType /\ OlderTypeOK'
         /\ disk'.bank = disk.bank /\ disk'.block = disk.block
         /\ \A j \in 0 .. 1 : older'.bank[j] \subseteq older.bank[j]
         /\ \A b \in Blocks : older'.block[b] \subseteq older.block[b]
         /\ \A j \in 0 .. 1 : j # k => disk'.super[j] = disk.super[j] /\ older'.super[j] \subseteq older.super[j]
         /\ disk'.super[k] \in {disk.super[k], a}
         /\ older'.super[k] \subseteq older.super[k] \cup {disk.super[k], a}
         /\ Store([disk EXCEPT !.super[k] = a]) =>
              disk'.super[k] = a /\ older'.super[k] \subseteq older.super[k] \cup {disk.super[k]}
<1> USE DEF StoreTypeOK
<1> DEFINE d == [disk EXCEPT !.super[k] = a]
<1>t. /\ disk.bank \in [0 .. 1 -> BankType] /\ disk.block \in [Blocks -> BlockType]
      /\ disk.super \in [0 .. 1 -> SuperType]
  BY DEF DiskType
<1>1. /\ d \in DiskType /\ d.super = [disk.super EXCEPT ![k] = a]
      /\ d.block = disk.block /\ d.bank = disk.bank
  BY <1>t DEF DiskType
<1>2. \A j \in 0 .. 1 : d.super[j] = IF j = k THEN a ELSE disk.super[j]
  BY <1>1, <1>t
<1> HIDE DEF d
<1>3. CASE Store(d)
  <2>1. disk' = d /\ Overwritten(d)
    BY <1>3, PlacesOf DEF Store, Possible, Overwritten
  <2>2. older'.super \in [0 .. 1 -> SUBSET SuperType]
    BY <1>2, <1>t, <2>1 DEF Overwritten, OlderTypeOK
  <2>3. older'.bank = older.bank /\ older'.block = older.block
    BY <1>1, <1>t, <2>1 DEF Overwritten, OlderTypeOK
  <2>4. \A j \in 0 .. 1 : older'.super[j] \subseteq
          IF j = k THEN older.super[j] \cup {disk.super[j]} ELSE older.super[j]
    BY <1>2, <2>1 DEF Overwritten
  <2> QED
    BY <1>1, <1>2, <2>1, <2>2, <2>3, <2>4 DEF OlderTypeOK
<1>4. CASE Discard(d) /\ ~Store(d)
  <2>1. disk' = disk /\ Dropped(d)
    BY <1>4, PlacesOf DEF Discard, Dropped
  <2>2. older'.super \in [0 .. 1 -> SUBSET SuperType]
    BY <1>2, <1>t, <2>1 DEF Dropped, OlderTypeOK
  <2>3. /\ older'.bank \in [0 .. 1 -> SUBSET BankType]
        /\ older'.block \in [Blocks -> SUBSET BlockType]
    BY <1>1, <1>t, <2>1 DEF Dropped, OlderTypeOK
  <2>4. /\ \A j \in 0 .. 1 : older'.bank[j] \subseteq older.bank[j]
        /\ \A b \in Blocks : older'.block[b] \subseteq older.block[b]
    BY <1>1, <2>1 DEF Dropped
  <2>5. \A j \in 0 .. 1 : older'.super[j] \subseteq
          IF j = k THEN older.super[j] \cup {disk.super[j], a} ELSE older.super[j]
    BY <1>2, <2>1 DEF Dropped
  <2> QED
    BY <1>1, <1>2, <1>4, <2>1, <2>2, <2>3, <2>4, <2>5 DEF OlderTypeOK, d
<1> QED
  BY <1>3, <1>4 DEF d

\* A flush.
LEMMA FlushAll ==
  ASSUME StoreTypeOK, older' = Clean, disk' = disk
  PROVE  /\ OlderTypeOK'
         /\ \A k \in 0 .. 1 : older'.bank[k] = {} /\ older'.super[k] = {}
         /\ \A b \in Blocks : older'.block[b] = {}
BY CleanOlder DEF OlderTypeOK

-----------------------------------------------------------------------------
(* Directories.                                                            *)

\* A directory stays sound while what it locates is left alone.
LEMMA SoundFrame ==
  ASSUME NEW blk, NEW old, NEW blk2, NEW old2, NEW dir, Sound(blk, old, dir),
         \A s \in Live(dir) : \A b \in Span(blk, dir[s]) : blk2[b] = blk[b] /\ old2[b] = {}
  PROVE  /\ Sound(blk2, old2, dir)
         /\ \A s \in Live(dir) : /\ Span(blk2, dir[s]) = Span(blk, dir[s])
                                 /\ blk2[dir[s].at] = blk[dir[s].at]
<1>1. \A s \in Live(dir) : /\ Span(blk2, dir[s]) = Span(blk, dir[s])
                           /\ blk2[dir[s].at] = blk[dir[s].at]
  BY DEF Span
<1>2. ASSUME NEW s \in Live(dir) PROVE Whole(blk2, old2, dir[s])
  BY <1>1 DEF Sound, Whole, Span
<1> QED
  BY <1>1, <1>2 DEF Sound

\* What a sound directory locates is intact for a reader, and mountable.
LEMMA WholeIsKept ==
  ASSUME NEW e, Whole(disk.block, older.block, e)
  PROVE  Kept(e) /\ HeaderValid(disk, e) /\ Reached(disk, e) = Span(disk.block, e)
BY DEF Whole, Kept, Intact, HeaderValid, Reached, Span, Blocks

LEMMA CurrentSurvives == Current \in Survivable
BY DEF Current, Survivable, Possible

LEMMA DurableBanks ==
  ASSUME older.bank[0] = {}, older.bank[1] = {}
  PROVE  Survivable = {Current}
BY DEF Current, Survivable, Possible

LEMMA BanksFrame ==
  ASSUME disk'.bank = disk.bank, \A k \in 0 .. 1 : older'.bank[k] \subseteq older.bank[k]
  PROVE  Current' = Current /\ Survivable' \subseteq Survivable
BY DEF Current, Survivable, Possible

-----------------------------------------------------------------------------
(* The requests.                                                           *)

\* Between requests find_index finds the object if there is one.
LEMMA FindIndexFinds ==
  ASSUME StoreInvariant, op.pc = "idle", NEW i \in Ids
  PROVE  \/ FindIndex(i) = 0 /\ \A s \in Slots : mem.dir[s].id # i
         \/ FindIndex(i) \in Slots /\ mem.dir[FindIndex(i)].id = i
<1> USE DEF StoreInvariant
<1>1. mem.cache[i] \in Slots \cup {0}
  BY DEF StoreTypeOK, MemType
<1>2. CASE mem.cache[i] # 0
  BY <1>1, <1>2 DEF MemAgrees, Up, FindIndex
<1>3. CASE mem.cache[i] = 0 /\ Holders(mem.dir, i) # {}
  <2>1. Holders(mem.dir, i) \in SUBSET Nat
    BY StoreAssumption DEF Holders
  <2>2. First(Holders(mem.dir, i)) \in Holders(mem.dir, i)
    BY <1>3, <2>1, FirstLeast
  <2> QED
    BY <1>3, <2>2 DEF FindIndex, Holders
<1>4. CASE mem.cache[i] = 0 /\ Holders(mem.dir, i) = {}
  BY <1>4 DEF FindIndex, Holders
<1> QED
  BY <1>2, <1>3, <1>4

\* A free slot and a free block, when there is one.
LEMMA FreeSlotFree ==
  ASSUME FreeSlots # {}
  PROVE  First(FreeSlots) \in Slots /\ mem.dir[First(FreeSlots)].id = 0
<1>1. FreeSlots \in SUBSET Nat
  BY StoreAssumption DEF FreeSlots, Holders
<1> QED
  BY <1>1, FirstLeast DEF FreeSlots, Holders

LEMMA FreeBlockFree ==
  ASSUME FreeBlocks # {}
  PROVE  First(FreeBlocks) \in Blocks /\ First(FreeBlocks) \notin mem.used
<1>1. FreeBlocks \in SUBSET Nat
  BY StoreAssumption DEF FreeBlocks, Blocks
<1> QED
  BY <1>1, FirstLeast DEF FreeBlocks

\* The directory of the running service is sound.
LEMMA DirectorySound ==
  ASSUME StoreInvariant, Up
  PROVE  /\ mem.dir = Current
         /\ Sound(disk.block, older.block, mem.dir)
         /\ \A s \in Live(mem.dir) : Span(disk.block, mem.dir[s]) \subseteq mem.used
BY CurrentSurvives DEF StoreInvariant, AllSound, MemAgrees

\* What an admitted request leaves as it is.
LEMMA AdmitFrame ==
  ASSUME StoreInvariant, op.pc = "idle", UNCHANGED <<disk, older, issued>>,
         op'.pc \in {"data", "header", "locator"},
         op'.pc = "locator" => Live(mem.dir) # {},
         mem'.dir = mem.dir, mem.used \subseteq mem'.used
  PROVE  /\ BanksDurable' /\ AllSound' /\ NoRequest' /\ Committing' /\ Finishing'
         /\ SupersRemember' /\ Formatting' /\ OlderTypeOK'
<1> USE DEF StoreInvariant
<1>1. Survivable' = Survivable /\ Current' = Current
  BY DEF Survivable, Possible, Current
<1>2. Up /\ Up'
  BY DEF Up
<1>3. BanksDurable' /\ NoRequest' /\ Committing' /\ Finishing' /\ Formatting'
  BY <1>2 DEF BanksDurable, NoRequest, Committing, Finishing, Formatting
<1>4. AllSound'
  BY <1>1, <1>2 DEF AllSound
<1>5. op'.pc = "locator" => ~ \A k \in 0 .. 1, s \in Slots : disk.bank[k][s] = NoEntry
  BY <1>2, DirectorySound DEF Live, Current, NewestDirectory, Newer, NoEntry
<1>6. SupersRemember'
  BY <1>5 DEF SupersRemember, Possible
<1> QED
  BY <1>3, <1>4, <1>6 DEF StoreTypeOK, OlderTypeOK

LEMMA CreateKeeps ==
  ASSUME StoreInvariant, NEW i \in Ids, NEW auto \in BOOLEAN, Admit, Create(i, auto),
         FindIndex(i) = 0, auto => mem.next <= i
  PROVE  StoreInvariant'
<1> USE DEF StoreInvariant
<1> DEFINE s == First(FreeSlots)
           b == First(FreeBlocks)
           g == mem.dir[s].gen + 1
<1>1. s \in Slots /\ mem.dir[s].id = 0
  BY FreeSlotFree DEF Create
<1>2. b \in Blocks /\ b \notin mem.used
  BY FreeBlockFree DEF Create
<1>3. /\ op.pc = "idle" /\ UNCHANGED <<disk, older, issued, faults, crashes>>
      /\ requests \in Nat /\ requests' \in Nat
  BY DEF Admit, StoreTypeOK
<1>4. /\ mem \in MemType /\ op \in OpType
      /\ mem.dir \in BankType /\ mem.dir[s] \in EntryType /\ g \in Nat
  BY <1>1 DEF StoreTypeOK, MemType, BankType, EntryType
<1>5. op' = [kind |-> "create", id |-> i, val |-> Empty, slot |-> s,
             entry |-> [id |-> i, gen |-> g, at |-> b], fresh |-> {b}, old |-> {},
             was |-> 0, auto |-> auto, pc |-> "header"]
  BY DEF Create, NoOp
<1>6. /\ mem' \in MemType
      /\ mem'.dir = mem.dir /\ mem'.used = mem.used \cup {b} /\ mem'.cache = mem.cache
      /\ mem'.next = (IF auto THEN i + 1 ELSE mem.next) /\ mem'.gen = mem.gen
  <2>1. mem' = [mem EXCEPT !.used = @ \cup {b}, !.next = IF auto THEN i + 1 ELSE @]
    BY DEF Create
  <2>2. i + 1 \in Nat /\ mem.next \in Nat /\ mem.used \cup {b} \in SUBSET Blocks
    BY <1>2, <1>4, StoreAssumption DEF Ids, MemType
  <2> HIDE DEF b
  <2> QED
    BY <1>4, <2>1, <2>2 DEF MemType
<1>n. \A t \in Slots : mem.dir[t].id # i
  BY <1>1, <1>3, FindIndexFinds, StoreAssumption
<1> HIDE DEF s, b, g
<1>7. [id |-> i, gen |-> g, at |-> b] \in EntryType
  BY <1>2, <1>4, StoreAssumption DEF EntryType, Ids, Blocks
<1>8. op' \in OpType
  BY <1>1, <1>2, <1>5, <1>7, StoreAssumption DEF OpType, Contents, StepType, Ids
<1>9. StoreTypeOK'
  BY <1>3, <1>6, <1>8 DEF StoreTypeOK, OlderTypeOK
<1>10. Up /\ Up'
  BY <1>3, <1>5 DEF Up
<1>11. /\ BanksDurable' /\ AllSound' /\ NoRequest' /\ Committing' /\ Finishing'
       /\ SupersRemember' /\ Formatting'
  BY <1>3, <1>5, <1>6, AdmitFrame
<1>12. MemAgrees'
  BY <1>3, <1>5, <1>6, <1>10 DEF MemAgrees, Current
<1>13. Preparing'
  <2>1. \A t \in Live(mem.dir) : {b} \cap Span(disk.block, mem.dir[t]) = {}
    BY <1>2, <1>10, DirectorySound
  <2>2. (op.fresh \ {op.entry.at})' = {}
    BY <1>5
  <2>3. DataWritten'
    BY <2>2 DEF DataWritten, Extents
  <2>4. /\ op'.slot = s /\ op'.id = i /\ op'.entry.gen = mem'.dir[s].gen + 1 /\ op'.fresh = {b}
        /\ op'.kind = "create" /\ op'.entry.id = i /\ op'.entry.at = b /\ op'.old = {} /\ op'.pc = "header"
    BY <1>5, <1>6 DEF g
  <2> QED
    BY <1>1, <1>3, <1>6, <1>n, <2>1, <2>3, <2>4 DEF Preparing
<1>14. CounterAhead'
  BY <1>3, <1>5, <1>6, <1>10 DEF CounterAhead, Possible, StoreTypeOK, MemType, Ids
<1> QED
  BY <1>9, <1>11, <1>12, <1>13, <1>14

LEMMA CreateAtKeeps ==
  ASSUME StoreInvariant, NEW i \in Requested, CreateAt(i)
  PROVE  StoreInvariant'
BY CreateKeeps, StoreAssumption DEF CreateAt

\* An automatic id is one that no object has, and not below the counter.
LEMMA FirstCandidate ==
  ASSUME Candidates # {}
  PROVE  /\ First(Candidates) \in Ids /\ mem.next <= First(Candidates)
         /\ FindIndex(First(Candidates)) = 0
<1>1. Candidates \in SUBSET Nat
  BY DEF Candidates, Ids
<1> QED
  BY <1>1, FirstLeast DEF Candidates

LEMMA CreateAutoKeeps ==
  ASSUME StoreInvariant, CreateAuto
  PROVE  StoreInvariant'
BY FirstCandidate, CreateKeeps DEF CreateAuto

LEMMA CreateAutoFullKeeps ==
  ASSUME StoreInvariant, CreateAutoFull
  PROVE  StoreInvariant'
<1> USE DEF StoreInvariant
<1>1. First(Candidates) \in Ids /\ mem.next <= First(Candidates)
  BY FirstCandidate DEF CreateAutoFull
<1>2. /\ op.pc = "idle" /\ UNCHANGED <<disk, older, issued, faults, crashes, op>>
      /\ requests' \in Nat
  BY DEF CreateAutoFull, Admit, StoreTypeOK
<1>3. /\ mem \in MemType /\ mem' \in MemType
      /\ mem'.dir = mem.dir /\ mem'.used = mem.used /\ mem'.cache = mem.cache
      /\ mem'.next = First(Candidates) + 1 /\ mem'.gen = mem.gen
  BY <1>1 DEF CreateAutoFull, StoreTypeOK, MemType, Ids
<1>4. StoreTypeOK'
  BY <1>2, <1>3 DEF StoreTypeOK, OlderTypeOK
<1>5. Survivable' = Survivable /\ Current' = Current
  BY <1>2 DEF Survivable, Possible, Current
<1>6. AllSound' /\ MemAgrees' /\ BanksDurable' /\ NoRequest'
  BY <1>2, <1>3, <1>5 DEF AllSound, MemAgrees, BanksDurable, Up, NoRequest
<1>7. Preparing' /\ Committing' /\ Finishing' /\ Formatting'
  BY <1>2 DEF Preparing, Committing, Finishing, Formatting, Up
<1>8. SupersRemember'
  BY <1>2 DEF SupersRemember, Possible
<1>9. ~op.auto
  BY <1>2 DEF NoRequest, NoOp
<1>10. CounterAhead'
  BY <1>1, <1>2, <1>3, <1>9 DEF CounterAhead, Possible, MemType, Up, Ids, StoreTypeOK
<1> QED
  BY <1>4, <1>6, <1>7, <1>8, <1>10

\* A resolved object is located by the slot that find_index returns.
LEMMA ResolvedSlot ==
  ASSUME StoreInvariant, op.pc = "idle", NEW i \in Ids, Resolves(i)
  PROVE  /\ FindIndex(i) \in Slots /\ mem.dir[FindIndex(i)].id = i
         /\ FindIndex(i) \in Live(mem.dir)
         /\ Reached(disk, mem.dir[FindIndex(i)]) = Span(disk.block, mem.dir[FindIndex(i)])
         /\ Span(disk.block, mem.dir[FindIndex(i)]) \subseteq mem.used
<1>1. FindIndex(i) \in Slots /\ mem.dir[FindIndex(i)].id = i
  BY FindIndexFinds DEF Resolves
<1>2. FindIndex(i) \in Live(mem.dir)
  BY <1>1 DEF Live, Ids
<1> QED
  BY <1>1, <1>2, DirectorySound DEF Up, Reached, Span

LEMMA WriteKeeps ==
  ASSUME StoreInvariant, NEW i \in Ids, NEW v \in Values, Write(i, v)
  PROVE  StoreInvariant'
<1> USE DEF StoreInvariant
<1> DEFINE s == FindIndex(i)
           e == mem.dir[s]
           h == First(FreeBlocks)
           x == Lowest(FreeBlocks \ {h}, Size[v])
<1>1. /\ op.pc = "idle" /\ UNCHANGED <<disk, older, issued, faults, crashes>>
      /\ requests' \in Nat
  BY DEF Write, Admit, StoreTypeOK
<1>2. /\ s \in Slots /\ e.id = i /\ s \in Live(mem.dir)
      /\ Reached(disk, e) = Span(disk.block, e) /\ Span(disk.block, e) \subseteq mem.used
  BY <1>1, ResolvedSlot DEF Write
<1>3. FreeBlocks # {}
  BY FS_EmptySet, StoreAssumption DEF Write
<1>4. h \in Blocks /\ h \notin mem.used
  BY <1>3, FreeBlockFree
<1>5. x \subseteq Blocks /\ x \cap mem.used = {} /\ h \notin x
  BY DEF Lowest, FreeBlocks
<1>6. /\ mem \in MemType /\ op \in OpType
      /\ mem.dir \in BankType /\ e \in EntryType /\ e.gen + 1 \in Nat
  BY <1>2 DEF StoreTypeOK, MemType, BankType, EntryType
<1>7. op' = [kind |-> "write", id |-> i, val |-> v, slot |-> s,
             entry |-> [id |-> e.id, gen |-> e.gen + 1, at |-> h], fresh |-> {h} \cup x,
             old |-> Reached(disk, e), was |-> 0, auto |-> FALSE,
             pc |-> IF x = {} THEN "header" ELSE "data"]
  BY DEF Write, NoOp
<1>8. mem' = [mem EXCEPT !.used = @ \cup {h} \cup x, !.cache[i] = s]
  BY DEF Write
<1> HIDE DEF s, h, x
<1>9. /\ mem' \in MemType /\ mem'.dir = mem.dir /\ mem'.used = mem.used \cup {h} \cup x
      /\ mem'.next = mem.next /\ mem'.gen = mem.gen
      /\ \A j \in Ids : mem'.cache[j] = IF j = i THEN s ELSE mem.cache[j]
  <2>1. mem.cache \in [Ids -> Slots \cup {0}] /\ mem.used \in SUBSET Blocks
    BY <1>6 DEF MemType
  <2> QED
    BY <1>2, <1>4, <1>5, <1>6, <1>8, <2>1 DEF MemType
<1>10. [id |-> e.id, gen |-> e.gen + 1, at |-> h] \in EntryType
  BY <1>4, <1>6, StoreAssumption DEF EntryType, Blocks
<1>11. op' \in OpType
  <2>1. Reached(disk, e) \in SUBSET Blocks
    BY <1>2, <1>6 DEF MemType
  <2>2. i \in 0 .. MaxId
    BY DEF Ids
  <2> HIDE DEF e
  <2>3. {h} \cup x \in SUBSET Blocks
    BY <1>4, <1>5
  <2> QED
    BY <1>2, <1>7, <1>10, <2>1, <2>2, <2>3, StoreAssumption DEF OpType, Contents, StepType
<1>12. StoreTypeOK'
  BY <1>1, <1>9, <1>11 DEF StoreTypeOK, OlderTypeOK
<1>13. Up /\ Up'
  BY <1>1, <1>7 DEF Up
<1>14. /\ BanksDurable' /\ AllSound' /\ NoRequest' /\ Committing' /\ Finishing'
       /\ SupersRemember' /\ Formatting'
  BY <1>1, <1>7, <1>9, AdmitFrame
<1>15. MemAgrees'
  BY <1>1, <1>2, <1>7, <1>9, <1>13 DEF MemAgrees, Current
<1>16. Preparing'
  <2>1. \A t \in Live(mem.dir) : ({h} \cup x) \cap Span(disk.block, mem.dir[t]) = {}
    BY <1>4, <1>5, <1>13, DirectorySound
  <2>2. op'.pc # "data" => DataWritten'
    BY <1>7 DEF DataWritten, Extents
  <2>3. /\ op'.slot = s /\ op'.id = i /\ op'.entry.gen = mem'.dir[s].gen + 1
        /\ op'.fresh = {h} \cup x /\ op'.kind = "write" /\ op'.entry.id = i
        /\ op'.entry.at = h /\ op'.old = Span(disk.block, mem.dir[s])
        /\ op'.pc \in {"header", "data"}
    BY <1>2, <1>7, <1>9
  <2> QED
    BY <1>1, <1>2, <1>9, <2>1, <2>2, <2>3 DEF Preparing
<1>17. CounterAhead'
  BY <1>1, <1>7, <1>9, <1>13 DEF CounterAhead, Possible
<1> QED
  BY <1>12, <1>14, <1>15, <1>16, <1>17

LEMMA DeleteKeeps ==
  ASSUME StoreInvariant, NEW i \in Ids, Delete(i)
  PROVE  StoreInvariant'
<1> USE DEF StoreInvariant
<1> DEFINE s == FindIndex(i)
           e == mem.dir[s]
<1>1. /\ op.pc = "idle" /\ UNCHANGED <<disk, older, issued, faults, crashes>>
      /\ requests' \in Nat
  BY DEF Delete, Admit, StoreTypeOK
<1>2. /\ s \in Slots /\ e.id = i /\ s \in Live(mem.dir)
      /\ Reached(disk, e) = Span(disk.block, e) /\ Span(disk.block, e) \subseteq mem.used
  BY <1>1, ResolvedSlot DEF Delete
<1>3. /\ mem \in MemType /\ op \in OpType
      /\ mem.dir \in BankType /\ e \in EntryType /\ e.gen + 1 \in Nat
  BY <1>2 DEF StoreTypeOK, MemType, BankType, EntryType
<1>4. op' = [kind |-> "delete", id |-> i, val |-> Nil, slot |-> s,
             entry |-> [id |-> 0, gen |-> e.gen + 1, at |-> 0], fresh |-> {},
             old |-> Reached(disk, e), was |-> e.id, auto |-> FALSE, pc |-> "locator"]
  BY DEF Delete, NoOp, NoEntry
<1>5. mem' = [mem EXCEPT !.cache[i] = s]
  BY DEF Delete
<1> HIDE DEF s
<1>6. /\ mem' \in MemType /\ mem'.dir = mem.dir /\ mem'.used = mem.used
      /\ mem'.next = mem.next /\ mem'.gen = mem.gen
      /\ \A j \in Ids : mem'.cache[j] = IF j = i THEN s ELSE mem.cache[j]
  <2>1. mem.cache \in [Ids -> Slots \cup {0}]
    BY <1>3 DEF MemType
  <2> QED
    BY <1>2, <1>3, <1>5, <2>1 DEF MemType
<1>7. [id |-> 0, gen |-> e.gen + 1, at |-> 0] \in EntryType
  BY <1>3, StoreAssumption DEF EntryType
<1>8. op' \in OpType
  <2>1. Reached(disk, e) \in SUBSET Blocks
    BY <1>2, <1>3 DEF MemType
  <2>2. i \in 0 .. MaxId
    BY DEF Ids
  <2> HIDE DEF e
  <2> QED
    BY <1>2, <1>4, <1>7, <2>1, <2>2, StoreAssumption DEF OpType, Contents, StepType
<1>9. StoreTypeOK'
  BY <1>1, <1>6, <1>8 DEF StoreTypeOK, OlderTypeOK
<1>10. Up /\ Up'
  BY <1>1, <1>4 DEF Up
<1>11. /\ BanksDurable' /\ AllSound' /\ NoRequest' /\ Committing' /\ Finishing'
       /\ SupersRemember' /\ Formatting'
  BY <1>1, <1>2, <1>4, <1>6, AdmitFrame
<1>12. MemAgrees'
  BY <1>1, <1>2, <1>4, <1>6, <1>10 DEF MemAgrees, Current
<1>13. Preparing'
  <2>1. /\ op'.slot = s /\ op'.id = i /\ op'.entry.gen = mem'.dir[s].gen + 1
        /\ op'.fresh = {} /\ op'.kind = "delete" /\ op'.entry.id = 0 /\ op'.was = i
        /\ op'.val = Nil /\ op'.old = Span(disk.block, mem.dir[s]) /\ op'.pc = "locator"
    BY <1>2, <1>4, <1>6
  <2> QED
    BY <1>1, <1>2, <1>6, <2>1 DEF Preparing
<1>14. CounterAhead'
  BY <1>1, <1>4, <1>6, <1>10 DEF CounterAhead, Possible
<1> QED
  BY <1>9, <1>11, <1>12, <1>13, <1>14

-----------------------------------------------------------------------------
(* The steps of a request.                                                 *)

\* The device keeps the banks and what is located; what it held back may
\* become durable.
Untouched ==
  /\ disk' \in DiskType /\ OlderTypeOK'
  /\ disk'.bank = disk.bank
  /\ \A k \in 0 .. 1 : older'.bank[k] \subseteq older.bank[k]
  /\ \A s \in Live(mem.dir) : \A b \in Span(disk.block, mem.dir[s]) :
       disk'.block[b] = disk.block[b] /\ older'.block[b] = {}

\* The same, and the superblocks too.
Spared ==
  /\ Untouched
  /\ disk'.super = disk.super
  /\ \A k \in 0 .. 1 : older'.super[k] \subseteq older.super[k]

LEMMA SparedByFlush ==
  ASSUME StoreInvariant, Up, disk' = disk, older' = older \/ older' = Clean
  PROVE  Spared
<1> USE DEF StoreInvariant
<1>1. \A s \in Live(mem.dir) : \A b \in Span(disk.block, mem.dir[s]) : b \in Blocks /\ older.block[b] = {}
  BY DirectorySound DEF Sound, Whole, Span
<1>2. CASE older' = older
  BY <1>1, <1>2 DEF Spared, Untouched, StoreTypeOK, OlderTypeOK
<1>3. CASE older' = Clean
  BY <1>1, <1>3, FlushAll DEF Spared, Untouched, StoreTypeOK
<1> QED
  BY <1>2, <1>3

\* What a step keeps that leaves alone what is located, while no locator is due.
LEMMA UntouchedFrame ==
  ASSUME StoreInvariant, Up, op.pc # "commit", Untouched,
         Up', op'.pc # "commit", mem'.dir = mem.dir,
         \A s \in Live(mem.dir) : Span(disk.block, mem.dir[s]) \subseteq mem'.used
  PROVE  /\ BanksDurable' /\ AllSound' /\ Committing' /\ Formatting' /\ mem'.dir = Current'
         /\ Sound(disk'.block, older'.block, mem.dir)
         /\ \A s \in Live(mem.dir) : Span(disk'.block, mem.dir[s]) = Span(disk.block, mem.dir[s])
<1> USE DEF StoreInvariant
<1>1. Survivable' \subseteq Survivable /\ Current' = Current
  BY BanksFrame DEF Spared, Untouched
<1>2. older.bank[0] = {} /\ older.bank[1] = {} /\ older'.bank[0] = {} /\ older'.bank[1] = {}
  BY DEF BanksDurable, Untouched
<1>3. Survivable = {Current} /\ mem.dir = Current
  BY <1>2, DurableBanks, DirectorySound
<1>4. /\ Sound(disk'.block, older'.block, mem.dir)
      /\ \A s \in Live(mem.dir) : Span(disk'.block, mem.dir[s]) = Span(disk.block, mem.dir[s])
  <2> DEFINE blk2 == disk'.block
             old2 == older'.block
             dir == mem.dir
  <2>1. Sound(disk.block, older.block, dir)
    BY DirectorySound
  <2>2. \A s \in Live(dir) : \A b \in Span(disk.block, dir[s]) : blk2[b] = disk.block[b] /\ old2[b] = {}
    BY DEF Spared, Untouched
  <2> HIDE DEF blk2, old2, dir
  <2>3. Sound(blk2, old2, dir)
    BY <2>1, <2>2, SoundFrame, Zenon
  <2>4. \A s \in Live(dir) : Span(blk2, dir[s]) = Span(disk.block, dir[s])
    BY <2>2 DEF Span
  <2> QED
    BY <2>3, <2>4 DEF blk2, old2, dir
<1>5. AllSound'
  <2> SUFFICES ASSUME NEW dir \in Survivable'
               PROVE  /\ Sound(disk'.block, older'.block, dir)
                      /\ \A s \in Live(dir) : Span(disk'.block, dir[s]) \subseteq mem'.used
    BY DEF AllSound
  <2>1. dir = mem.dir
    BY <1>1, <1>3
  <2> QED
    BY <1>4, <2>1
<1>6. BanksDurable' /\ Committing' /\ Formatting'
  BY <1>2 DEF BanksDurable, Committing, Formatting
<1> QED
  BY <1>1, <1>3, <1>4, <1>5, <1>6

\* The superblocks and the counter, when a step writes no superblock.
LEMMA SupersFrame ==
  ASSUME StoreInvariant, Up, Spared, op'.pc \notin {"locator", "commit"}, issued' = issued
  PROVE  SupersRemember'
<1> USE DEF StoreInvariant
<1>1. \A k \in 0 .. 1 : {disk'.super[k]} \cup older'.super[k] \subseteq {disk.super[k]} \cup older.super[k]
  BY DEF Spared, Untouched
<1> QED
  BY <1>1 DEF SupersRemember, Possible, Spared, Untouched

LEMMA CounterFrame ==
  ASSUME StoreInvariant, Up, Spared, issued' = issued, op'.pc # "persist",
         mem'.gen = mem.gen, mem'.next = mem.next,
         op'.auto => op.auto /\ op'.id = op.id
  PROVE  CounterAhead'
<1> USE DEF StoreInvariant
<1>1. \A k \in 0 .. 1 : {disk'.super[k]} \cup older'.super[k] \subseteq {disk.super[k]} \cup older.super[k]
  BY DEF Spared, Untouched
<1> QED
  BY <1>1 DEF CounterAhead, Possible, Spared, Untouched

\* A flush of the banks, superblocks and blocks, by a client or by a request
\* that has committed.
LEMMA ClientFlushKeeps ==
  ASSUME StoreInvariant, ClientFlush
  PROVE  StoreInvariant' /\ Untouched
<1> USE DEF StoreInvariant
<1>1. /\ op.pc = "idle" /\ disk' = disk /\ (older' = older \/ older' = Clean) /\ faults' \in Nat
      /\ UNCHANGED <<mem, op, issued, crashes, requests>>
  BY DEF ClientFlush, Flushed, NotFlushed, Fault, StoreTypeOK
<1>2. Up /\ Up'
  BY <1>1 DEF Up
<1>3. Spared
  BY <1>1, <1>2, SparedByFlush
<1>4. BanksDurable' /\ AllSound' /\ Committing' /\ Formatting' /\ mem'.dir = Current'
  BY <1>1, <1>2, <1>3, DirectorySound, UntouchedFrame DEF Spared, Untouched
<1>5. SupersRemember' /\ CounterAhead'
  BY <1>1, <1>2, <1>3, SupersFrame, CounterFrame
<1>6. StoreTypeOK'
  BY <1>1, <1>3 DEF StoreTypeOK, Spared, Untouched
<1>7. MemAgrees'
  BY <1>1, <1>2, <1>4 DEF MemAgrees
<1>8. NoRequest' /\ Preparing' /\ Finishing'
  BY <1>1 DEF NoRequest, Preparing, Finishing
<1> QED
  BY <1>3, <1>4, <1>5, <1>6, <1>7, <1>8 DEF Spared

\* A request that ends, whatever it frees, as long as that is not located.
LEMMA EndKeeps ==
  ASSUME StoreInvariant, Up, op.pc # "commit", Spared, op' = NoOp("idle"),
         mem' \in MemType, mem'.dir = mem.dir, mem'.cache = mem.cache,
         mem'.gen = mem.gen, mem'.next = mem.next,
         \A s \in Live(mem.dir) : Span(disk.block, mem.dir[s]) \subseteq mem'.used,
         issued' = issued, faults' \in Nat, UNCHANGED <<crashes, requests>>
  PROVE  StoreInvariant'
<1> USE DEF StoreInvariant
<1>1. op'.pc = "idle" /\ Up' /\ op'.auto = FALSE
  BY DEF NoOp, Up
<1>2. BanksDurable' /\ AllSound' /\ Committing' /\ Formatting' /\ mem'.dir = Current'
  BY <1>1, UntouchedFrame DEF Spared, Untouched
<1>3. SupersRemember' /\ CounterAhead'
  BY <1>1, SupersFrame, CounterFrame
<1>4. op' \in OpType
  BY StoreAssumption DEF OpType, NoOp, NoEntry, EntryType, StepType, Contents
<1>5. StoreTypeOK'
  BY <1>4 DEF StoreTypeOK, Spared, Untouched
<1>6. MemAgrees'
  BY <1>2 DEF MemAgrees
<1>7. NoRequest' /\ Preparing' /\ Finishing'
  BY <1>1 DEF NoRequest, Preparing, Finishing
<1> QED
  BY <1>2, <1>3, <1>5, <1>6, <1>7

LEMMA AbandonKeeps ==
  ASSUME StoreInvariant, op.pc \in {"data", "header", "flush"}, Spared, Abandon, faults' \in Nat
  PROVE  StoreInvariant'
<1> USE DEF StoreInvariant
<1>1. Up /\ mem \in MemType
  BY DEF Up, StoreTypeOK
<1>2. /\ mem' \in MemType /\ mem'.dir = mem.dir /\ mem'.cache = mem.cache
      /\ mem'.gen = mem.gen /\ mem'.next = mem.next /\ mem'.used = mem.used \ op.fresh
  BY <1>1 DEF Abandon, MemType
<1>3. \A s \in Live(mem.dir) : Span(disk.block, mem.dir[s]) \subseteq mem'.used
  BY <1>1, <1>2, DirectorySound DEF Preparing
<1> QED
  BY <1>1, <1>2, <1>3, EndKeeps DEF Abandon, Done

\* A request that goes on to its next step before the locator is written.
LEMMA AdvanceFrame ==
  ASSUME StoreInvariant, op.pc \in {"data", "header", "flush"}, Spared,
         NEW pc \in {"header", "flush", "locator"}, op' = [op EXCEPT !.pc = pc],
         faults' \in Nat, UNCHANGED <<mem, issued, crashes, requests>>
  PROVE  /\ StoreTypeOK' /\ BanksDurable' /\ AllSound' /\ MemAgrees' /\ NoRequest'
         /\ Committing' /\ Finishing' /\ CounterAhead' /\ Formatting'
         /\ pc # "locator" => SupersRemember'
         /\ \A s \in Live(mem.dir) : Span(disk'.block, mem.dir[s]) = Span(disk.block, mem.dir[s])
<1> USE DEF StoreInvariant
<1>1. /\ Up /\ Up' /\ op \in OpType /\ op' \in OpType /\ op'.pc = pc
      /\ op'.auto = op.auto /\ op'.id = op.id
  BY DEF Up, StoreTypeOK, OpType, StepType
<1>2. /\ BanksDurable' /\ AllSound' /\ Committing' /\ Formatting' /\ mem'.dir = Current'
      /\ \A s \in Live(mem.dir) : Span(disk'.block, mem.dir[s]) = Span(disk.block, mem.dir[s])
  BY <1>1, DirectorySound, UntouchedFrame DEF Spared, Untouched
<1>3. CounterAhead' /\ (pc # "locator" => SupersRemember')
  BY <1>1, SupersFrame, CounterFrame
<1>4. StoreTypeOK'
  BY <1>1 DEF StoreTypeOK, Spared, Untouched
<1>5. MemAgrees'
  BY <1>1, <1>2 DEF MemAgrees
<1>6. NoRequest' /\ Finishing'
  BY <1>1 DEF NoRequest, Finishing
<1> QED
  BY <1>2, <1>3, <1>4, <1>5, <1>6

\* A write into the request's own blocks spares what is located.
LEMMA SparedByOwnWrite ==
  ASSUME StoreInvariant, op.pc \in {"data", "header"}, NEW f \in [Blocks -> BlockType],
         \A b \in Blocks : b \notin op.fresh => f[b] = disk.block[b],
         Accepted([disk EXCEPT !.block = f]) \/ Rejected([disk EXCEPT !.block = f])
  PROVE  Spared /\ faults' \in Nat
<1> USE DEF StoreInvariant
<1>1. Up
  BY SMTT(30) DEF Up
<1>2. \A s \in Live(mem.dir) : \A b \in Span(disk.block, mem.dir[s]) :
        b \in Blocks /\ b \notin op.fresh /\ older.block[b] = {}
  <2>1. \A s \in Live(mem.dir) : op.fresh \cap Span(disk.block, mem.dir[s]) = {}
    BY SMTT(30) DEF Preparing
  <2>2. \A s \in Live(mem.dir) : \A b \in Span(disk.block, mem.dir[s]) :
          b \in Blocks /\ older.block[b] = {}
    BY <1>1, DirectorySound DEF Sound, Whole, Span
  <2> QED
    BY <2>1, <2>2, SMTT(30)
<1> QED
  BY <1>2, WriteBlocks DEF Spared, Untouched

LEMMA WriteDataKeeps ==
  ASSUME StoreInvariant, WriteData
  PROVE  StoreInvariant' /\ Untouched
<1> USE DEF StoreInvariant
<1> DEFINE x == op.fresh \ {op.entry.at}
           f == [b \in Blocks |-> IF b \in x THEN Data(op.val, Rank(b, x)) ELSE disk.block[b]]
           d == [disk EXCEPT !.block = f]
<1>1. op.pc = "data" /\ op \in OpType /\ disk \in DiskType
  BY DEF WriteData, StoreTypeOK
<1>2. (Accepted(d) /\ GoTo("header")) \/ (Rejected(d) /\ Abandon)
  BY DEF WriteData
<1>3. x \subseteq Blocks /\ op.val \in Contents
  BY <1>1 DEF OpType
<1>4. f \in [Blocks -> BlockType]
  <2> SUFFICES ASSUME NEW b \in Blocks PROVE f[b] \in BlockType
    OBVIOUS
  <2>1. b \in x => Data(op.val, Rank(b, x)) \in BlockType
    BY <1>3, RankType, StoreAssumption DEF Data, BlockType
  <2> QED
    BY <1>1, <2>1 DEF DiskType
<1>5. \A b \in Blocks : b \notin op.fresh => f[b] = disk.block[b]
  OBVIOUS
<1>6. \A b \in x : f[b] = Data(op.val, Rank(b, x))
  BY <1>3
<1> HIDE DEF f
<1>7. Spared /\ faults' \in Nat
  BY <1>1, <1>2, <1>4, <1>5, SparedByOwnWrite
<1>8. CASE Rejected(d) /\ Abandon
  BY <1>1, <1>7, <1>8, AbandonKeeps DEF Spared
<1>9. CASE Accepted(d) /\ GoTo("header")
  <2>1. op' = [op EXCEPT !.pc = "header"] /\ UNCHANGED <<mem, issued, crashes, requests>>
    BY <1>9 DEF GoTo
  <2>2. /\ StoreTypeOK' /\ BanksDurable' /\ AllSound' /\ MemAgrees' /\ NoRequest'
        /\ Committing' /\ Finishing' /\ CounterAhead' /\ Formatting' /\ SupersRemember'
        /\ \A s \in Live(mem.dir) : Span(disk'.block, mem.dir[s]) = Span(disk.block, mem.dir[s])
    BY <1>1, <1>7, <2>1, AdvanceFrame
  <2>3. disk'.block = f
    BY <1>4, <1>9, WriteBlocks
  <2>4. /\ op'.pc = "header" /\ op'.fresh = op.fresh /\ op'.entry = op.entry /\ op'.val = op.val
        /\ op'.slot = op.slot /\ op'.kind = op.kind /\ op'.id = op.id /\ op'.old = op.old
        /\ op'.was = op.was
    BY <1>1, <2>1 DEF OpType
  <2>5. DataWritten'
    BY <1>6, <2>3, <2>4 DEF DataWritten, Extents
  <2>6. mem.dir[op.slot].id # 0 => op.slot \in Live(mem.dir)
    BY <1>1 DEF Live, Preparing
  <2>7. op.id # 0
    BY <1>1 DEF Preparing, Ids
  <2>8. Preparing'
    BY <1>1, <2>1, <2>2, <2>4, <2>5, <2>6, <2>7 DEF Preparing
  <2> QED
    BY <1>7, <2>2, <2>8 DEF Spared
<1> QED
  BY <1>2, <1>8, <1>9

LEMMA WriteHeaderKeeps ==
  ASSUME StoreInvariant, WriteHeader
  PROVE  StoreInvariant' /\ Untouched
<1> USE DEF StoreInvariant
<1> DEFINE x == op.fresh \ {op.entry.at}
           h == Header(op.entry.id, op.entry.gen, x, op.val)
           f == [disk.block EXCEPT ![op.entry.at] = h]
           d == [disk EXCEPT !.block = f]
<1>1. op.pc = "header" /\ op \in OpType /\ disk \in DiskType
  BY DEF WriteHeader, StoreTypeOK
<1>2. (Accepted(d) /\ GoTo("flush")) \/ (Rejected(d) /\ Abandon)
  <2>1. [disk EXCEPT !.block[op.entry.at] = h] = d
    BY <1>1 DEF DiskType
  <2> QED
    BY <2>1 DEF WriteHeader
<1>3. /\ op.kind \in {"create", "write"} /\ op.fresh \in SUBSET Blocks
      /\ op.entry.at \in op.fresh /\ op.entry.at \in Blocks
  BY <1>1 DEF Preparing, OpType
<1>4. h \in BlockType
  BY <1>1 DEF Header, BlockType, OpType, EntryType
<1>5. f \in [Blocks -> BlockType]
  BY <1>1, <1>4 DEF DiskType
<1>6. /\ \A b \in Blocks : b # op.entry.at => f[b] = disk.block[b]
      /\ f[op.entry.at] = h
  BY <1>1, <1>3 DEF DiskType
<1> HIDE DEF f, h
<1>7. Spared /\ faults' \in Nat
  BY <1>1, <1>2, <1>3, <1>5, <1>6, SparedByOwnWrite
<1>8. CASE Rejected(d) /\ Abandon
  BY <1>1, <1>7, <1>8, AbandonKeeps DEF Spared
<1>9. CASE Accepted(d) /\ GoTo("flush")
  <2>1. op' = [op EXCEPT !.pc = "flush"] /\ UNCHANGED <<mem, issued, crashes, requests>>
    BY <1>9 DEF GoTo
  <2>2. /\ StoreTypeOK' /\ BanksDurable' /\ AllSound' /\ MemAgrees' /\ NoRequest'
        /\ Committing' /\ Finishing' /\ CounterAhead' /\ Formatting' /\ SupersRemember'
        /\ \A s \in Live(mem.dir) : Span(disk'.block, mem.dir[s]) = Span(disk.block, mem.dir[s])
    BY <1>1, <1>7, <2>1, AdvanceFrame
  <2>3. disk'.block = f
    BY <1>5, <1>9, WriteBlocks
  <2>4. /\ op'.pc = "flush" /\ op'.fresh = op.fresh /\ op'.entry = op.entry /\ op'.val = op.val
        /\ op'.slot = op.slot /\ op'.kind = op.kind /\ op'.id = op.id /\ op'.old = op.old
        /\ op'.was = op.was
    BY <1>1, <2>1 DEF OpType
  <2>5. DataWritten
    BY <1>1, <1>3 DEF Preparing
  <2>6. DataWritten' /\ HeaderWritten'
    BY <1>3, <1>6, <2>3, <2>4, <2>5 DEF DataWritten, HeaderWritten, Extents, h
  <2>7. mem.dir[op.slot].id # 0 => op.slot \in Live(mem.dir)
    BY <1>1 DEF Live, Preparing
  <2>8. op.id # 0
    BY <1>1 DEF Preparing, Ids
  <2>9. Preparing'
    BY <1>1, <2>1, <2>2, <2>4, <2>6, <2>7, <2>8 DEF Preparing
  <2> QED
    BY <1>7, <2>2, <2>9 DEF Spared
<1> QED
  BY <1>2, <1>8, <1>9

LEMMA FlushContentsKeeps ==
  ASSUME StoreInvariant, FlushContents
  PROVE  StoreInvariant' /\ Untouched
<1> USE DEF StoreInvariant
<1>1. op.pc = "flush" /\ op \in OpType /\ Up
  BY DEF FlushContents, StoreTypeOK, Up
<1>2. CASE NotFlushed /\ Abandon
  <2>1. Spared /\ faults' \in Nat
    BY <1>1, <1>2, SparedByFlush DEF NotFlushed, Fault, StoreTypeOK
  <2> QED
    BY <1>1, <1>2, <2>1, AbandonKeeps DEF Spared
<1>3. CASE Flushed /\ GoTo("locator")
  <2>1. op' = [op EXCEPT !.pc = "locator"] /\ UNCHANGED <<mem, issued, crashes, requests>>
    BY <1>3 DEF GoTo
  <2>2. disk' = disk /\ older' = Clean /\ faults' = faults
    BY <1>3 DEF Flushed
  <2>3. Spared /\ faults' \in Nat
    BY <1>1, <2>2, SparedByFlush DEF StoreTypeOK
  <2>4. /\ StoreTypeOK' /\ BanksDurable' /\ AllSound' /\ MemAgrees' /\ NoRequest'
        /\ Committing' /\ Finishing' /\ CounterAhead' /\ Formatting'
    BY <1>1, <2>1, <2>3, AdvanceFrame
  <2>5. /\ op'.pc = "locator" /\ op'.fresh = op.fresh /\ op'.entry = op.entry /\ op'.val = op.val
        /\ op'.slot = op.slot /\ op'.kind = op.kind /\ op'.id = op.id /\ op'.old = op.old
        /\ op'.was = op.was
    BY <1>1, <2>1 DEF OpType
  <2>6. \A b \in op.fresh : older'.block[b] = {}
    BY <1>1, <2>2, CleanOlder DEF OpType
  <2>7. op.kind # "delete" /\ DataWritten /\ HeaderWritten
    BY <1>1 DEF Preparing
  <2>8. DataWritten' /\ HeaderWritten'
    BY <2>2, <2>5, <2>7 DEF DataWritten, HeaderWritten, Extents
  <2>9. Preparing'
    BY <1>1, <2>1, <2>2, <2>5, <2>6, <2>7, <2>8 DEF Preparing
  <2>10. SupersRemember'
    <3>1. \A k \in 0 .. 1 : older'.super[k] = {}
      BY <2>2, FlushAll
    <3>2. PICK k \in 0 .. 1 : disk.super[k].gen # 0
      BY <1>1 DEF CounterAhead
    <3>3. k = 0 \/ k = 1
      OBVIOUS
    <3> QED
      BY <2>1, <2>2, <3>1, <3>2, <3>3 DEF SupersRemember, Possible
  <2> QED
    BY <2>3, <2>4, <2>9, <2>10 DEF Spared
<1> QED
  BY <1>2, <1>3 DEF FlushContents

\* The two directories a crash may leave once the locator is written.
LEMMA LocatorSurvivors ==
  ASSUME StoreInvariant, op.pc = "locator", NEW k \in 0 .. 1,
         disk'.bank = [disk.bank EXCEPT ![k][op.slot] = op.entry],
         \A j \in 0 .. 1 : older'.bank[j] \subseteq {disk.bank[j]},
         \A j \in 0 .. 1 : j # k => older'.bank[j] = {}
  PROVE  /\ Current' = [mem.dir EXCEPT ![op.slot] = op.entry]
         /\ \A dir \in Survivable' : dir \in {mem.dir, Current'}
<1> USE DEF StoreInvariant
<1> DEFINE new == [mem.dir EXCEPT ![op.slot] = op.entry]
<1>1. /\ op.slot \in Slots /\ op.entry.gen = mem.dir[op.slot].gen + 1
      /\ mem.dir = Current /\ op.entry \in EntryType /\ mem.dir \in BankType
  BY DirectorySound DEF Preparing, Up, StoreTypeOK, OpType, MemType
<1>2. disk.bank \in [0 .. 1 -> BankType]
  BY DEF StoreTypeOK, DiskType
<1>3. /\ disk.bank[0] \in BankType /\ disk.bank[1] \in BankType
      /\ \A s \in Slots : disk.bank[0][s].gen \in Nat /\ disk.bank[1][s].gen \in Nat
  BY <1>2 DEF BankType, EntryType
<1>4. \A s \in Slots : mem.dir[s] = Newer(disk.bank[0][s], disk.bank[1][s])
  BY <1>1 DEF Current, NewestDirectory
<1>5. disk.bank[0][op.slot].gen < op.entry.gen /\ disk.bank[1][op.slot].gen < op.entry.gen
  BY <1>1, <1>3, <1>4 DEF Newer
<1>6. \A s \in Slots : disk'.bank[k][s] = IF s = op.slot THEN op.entry ELSE disk.bank[k][s]
  BY <1>1, <1>2, <1>3 DEF BankType
<1>7. \A j \in 0 .. 1 : j # k => disk'.bank[j] = disk.bank[j]
  BY <1>1, <1>2
<1>8. \A s \in Slots : new[s] = IF s = op.slot THEN op.entry ELSE mem.dir[s]
  BY <1>1 DEF BankType
<1>9. new \in BankType
  BY <1>1 DEF BankType
<1>10. ASSUME NEW a, NEW b, a \in {disk'.bank[0], disk.bank[0]}, b \in {disk'.bank[1], disk.bank[1]},
              k = 0 => b = disk.bank[1], k = 1 => a = disk.bank[0]
       PROVE  /\ a = disk'.bank[0] /\ b = disk'.bank[1] => NewestDirectory(a, b) = new
              /\ NewestDirectory(a, b) \in {mem.dir, new}
  <2>1. CASE a = disk.bank[0] /\ b = disk.bank[1]
    <3>1. NewestDirectory(a, b) = mem.dir
      BY <1>1, <2>1 DEF Current
    <3>2. ~(a = disk'.bank[0] /\ b = disk'.bank[1])
      BY <1>1, <1>3, <1>5, <1>6, <2>1
    <3> QED
      BY <3>1, <3>2
  <2>2. CASE ~(a = disk.bank[0] /\ b = disk.bank[1])
    <3>1. k = 0 \/ k = 1
      OBVIOUS
    <3>2. \A s \in Slots : Newer(a[s], b[s]) = new[s]
      <4>1. CASE k = 0
        <5>1. a = disk'.bank[0] /\ b = disk.bank[1]
          BY <1>10, <2>2, <4>1
        <5> QED
          BY <1>1, <1>3, <1>4, <1>5, <1>6, <1>8, <4>1, <5>1 DEF Newer, EntryType
      <4>2. CASE k = 1
        <5>1. a = disk.bank[0] /\ b = disk'.bank[1]
          BY <1>10, <2>2, <4>2
        <5> QED
          BY <1>1, <1>3, <1>4, <1>5, <1>6, <1>8, <4>2, <5>1 DEF Newer, EntryType
      <4> QED
        BY <3>1, <4>1, <4>2
    <3> HIDE DEF new
    <3>3. NewestDirectory(a, b) = new
      BY <1>9, <3>2 DEF NewestDirectory, BankType
    <3> QED
      BY <3>3
  <2> QED
    BY <2>1, <2>2
<1>11. Current' = new
  <2>1. /\ k = 0 => disk'.bank[1] = disk.bank[1]
        /\ k = 1 => disk'.bank[0] = disk.bank[0]
    BY <1>7
  <2> HIDE DEF new
  <2> QED
    BY <1>10, <2>1 DEF Current
<1>12. ASSUME NEW dir \in Survivable' PROVE dir \in {mem.dir, new}
  <2>1. PICK a \in {disk'.bank[0]} \cup older'.bank[0], b \in {disk'.bank[1]} \cup older'.bank[1] :
          dir = NewestDirectory(a, b)
    <3> DEFINE A == {disk'.bank[0]} \cup older'.bank[0]
               B == {disk'.bank[1]} \cup older'.bank[1]
    <3>1. A = Possible("bank", 0)' /\ B = Possible("bank", 1)'
      BY DEF Possible
    <3>2. dir \in {NewestDirectory(a, b) : a \in A, b \in B}
      BY <3>1 DEF Survivable
    <3> HIDE DEF A, B
    <3>3. \E a \in A, b \in B : dir = NewestDirectory(a, b)
      BY <3>2
    <3> QED
      BY <3>3 DEF A, B
  <2>2. /\ a \in {disk'.bank[0], disk.bank[0]} /\ b \in {disk'.bank[1], disk.bank[1]}
        /\ k = 0 => b = disk.bank[1]
        /\ k = 1 => a = disk.bank[0]
    BY <1>7
  <2> HIDE DEF new
  <2> QED
    BY <1>10, <2>1, <2>2
<1> QED
  BY <1>11, <1>12

\* The directory with the new locator is as sound as the one before.
LEMMA LocatorSound ==
  ASSUME StoreInvariant, op.pc = "locator",
         NEW new, new = [mem.dir EXCEPT ![op.slot] = op.entry]
  PROVE  /\ Sound(disk.block, older.block, new)
         /\ \A s \in Live(new) : /\ Span(disk.block, new[s]) \subseteq mem.used
                                 /\ op.old \cap Span(disk.block, new[s]) = {}
<1> USE DEF StoreInvariant
<1>1. /\ Sound(disk.block, older.block, mem.dir)
      /\ \A s \in Live(mem.dir) : Span(disk.block, mem.dir[s]) \subseteq mem.used
  BY DirectorySound DEF Up
<1>2. /\ op.slot \in Slots /\ op.id \in Ids /\ op.id # 0 /\ mem.dir \in BankType
      /\ op.fresh \subseteq Blocks /\ op.fresh \subseteq mem.used
      /\ op.entry \in EntryType
  BY DEF Preparing, StoreTypeOK, MemType, OpType, Ids
<1>3. \A s \in Slots : new[s] = IF s = op.slot THEN op.entry ELSE mem.dir[s]
  BY <1>2 DEF BankType
<1>4. \A s \in Live(new) : s = op.slot \/ s \in Live(mem.dir)
  BY <1>3 DEF Live
<1>5. CASE op.kind = "delete"
  <2>1. /\ op.entry.id = 0 /\ mem.dir[op.slot].id = op.id
        /\ op.old = Span(disk.block, mem.dir[op.slot])
    BY <1>5 DEF Preparing
  <2>2. \A s \in Live(new) : s \in Live(mem.dir) /\ s # op.slot /\ new[s] = mem.dir[s]
    BY <1>3, <2>1 DEF Live
  <2>3. op.slot \in Live(mem.dir)
    BY <1>2, <2>1 DEF Live
  <2>4. Sound(disk.block, older.block, new)
    BY <1>1, <2>2 DEF Sound
  <2>5. \A s \in Live(mem.dir) : s # op.slot =>
          op.old \cap Span(disk.block, mem.dir[s]) = {}
    BY <1>1, <2>1, <2>3 DEF Sound
  <2> QED
    BY <1>1, <2>2, <2>4, <2>5
<1>6. CASE op.kind # "delete"
  <2>1. /\ op.entry.id = op.id /\ op.entry.at \in op.fresh /\ DataWritten /\ HeaderWritten
        /\ \A b \in op.fresh : older.block[b] = {}
        /\ \A s \in Live(mem.dir) : op.fresh \cap Span(disk.block, mem.dir[s]) = {}
    BY <1>6 DEF Preparing
  <2>2. Span(disk.block, op.entry) = op.fresh
    BY <2>1 DEF Span, HeaderWritten, Header, Extents
  <2>3. Whole(disk.block, older.block, op.entry)
    <3> DEFINE hd == disk.block[op.entry.at]
    <3>1. hd.type = "header" /\ hd.id = op.entry.id /\ hd.gen = op.entry.gen /\ hd.ext = Extents /\ hd.val = op.val
      BY <2>1 DEF HeaderWritten, Header
    <3>2. op.entry.at \notin Extents /\ Extents \subseteq Blocks /\ op.entry.at \in Blocks
      BY <1>2, <2>1 DEF Extents
    <3> QED
      BY <2>1, <2>2, <3>1, <3>2 DEF Whole, DataWritten
  <2>4. \A s \in Live(new) : s # op.slot => new[s] = mem.dir[s] /\ s \in Live(mem.dir)
    BY <1>3, <1>4 DEF Live
  <2>5. new[op.slot] = op.entry
    BY <1>2, <1>3
  <2>6. \A s \in Live(new) : s # op.slot => mem.dir[s].id # op.id
    <3>1. CASE op.kind = "create"
      BY <3>1, <2>4 DEF Preparing, Live
    <3>2. CASE op.kind = "write"
      <4>1. mem.dir[op.slot].id = op.id /\ op.slot \in Live(mem.dir)
        BY <1>2, <3>2 DEF Preparing, Live
      <4> QED
        BY <1>1, <2>4, <4>1 DEF Sound
    <3> QED
      BY <1>6, <3>1, <3>2 DEF Preparing
  <2>7. \A s \in Live(new) : Whole(disk.block, older.block, new[s])
    BY <1>1, <2>3, <2>4, <2>5 DEF Sound
  <2>8. ASSUME NEW s \in Live(new), NEW t \in Live(new), s # t
        PROVE  new[s].id # new[t].id /\ Span(disk.block, new[s]) \cap Span(disk.block, new[t]) = {}
    <3>1. CASE s # op.slot /\ t # op.slot
      BY <1>1, <2>4, <2>8, <3>1 DEF Sound
    <3>2. CASE s = op.slot
      BY <2>1, <2>2, <2>4, <2>5, <2>6, <2>8, <3>2
    <3>3. CASE t = op.slot
      BY <2>1, <2>2, <2>4, <2>5, <2>6, <2>8, <3>3
    <3> QED
      BY <3>1, <3>2, <3>3
  <2>9. Sound(disk.block, older.block, new)
    BY <2>7, <2>8 DEF Sound
  <2>10. \A s \in Live(new) : Span(disk.block, new[s]) \subseteq mem.used
    BY <1>1, <1>2, <2>2, <2>4, <2>5
  <2>11. ASSUME NEW s \in Live(new) PROVE op.old \cap Span(disk.block, new[s]) = {}
    <3>1. CASE op.kind = "create"
      BY <3>1 DEF Preparing
    <3>2. CASE op.kind = "write"
      <4>1. /\ mem.dir[op.slot].id = op.id /\ op.slot \in Live(mem.dir)
            /\ op.old = Span(disk.block, mem.dir[op.slot])
        BY <1>2, <3>2 DEF Preparing, Live
      <4>2. CASE s = op.slot
        BY <2>1, <2>2, <2>5, <4>1, <4>2
      <4>3. CASE s # op.slot
        BY <1>1, <2>4, <4>1, <4>3 DEF Sound
      <4> QED
        BY <4>2, <4>3
    <3> QED
      BY <1>6, <3>1, <3>2 DEF Preparing
  <2> QED
    BY <2>9, <2>10, <2>11
<1> QED
  BY <1>5, <1>6

LEMMA WriteLocatorKeeps ==
  ASSUME StoreInvariant, CommitsAccepted, WriteLocator
  PROVE  /\ StoreInvariant'
         /\ disk'.block = disk.block
         /\ Current' = [mem.dir EXCEPT ![op.slot] = op.entry]
         /\ Survivable' = {mem.dir, Current'}
         /\ op' = [op EXCEPT !.pc = "commit"]
<1> USE DEF StoreInvariant
<1> DEFINE k == op.entry.gen % 2
           d == [disk EXCEPT !.bank[k][op.slot] = op.entry]
<1>1. /\ op.pc = "locator" /\ Up /\ op \in OpType /\ mem \in MemType
      /\ op.slot \in Slots /\ op.id \in Ids /\ op.entry \in EntryType /\ mem.dir \in BankType
  BY DEF WriteLocator, Up, StoreTypeOK, Preparing, OpType, MemType
<1>2. k \in 0 .. 1
  BY <1>1 DEF EntryType
<1>3. /\ Accepted(d) /\ mem' = [mem EXCEPT !.dir[op.slot] = op.entry]
      /\ op' = [op EXCEPT !.pc = "commit"] /\ UNCHANGED <<issued, crashes, requests>>
  BY <1>1 DEF WriteLocator, Rejected, Fault, CommitsAccepted
<1> HIDE DEF k
<1>4. older.bank[0] = {} /\ older.bank[1] = {}
  BY <1>1 DEF BanksDurable
<1>5. /\ disk' \in DiskType /\ OlderTypeOK' /\ faults' \in Nat
      /\ disk'.bank = [disk.bank EXCEPT ![k][op.slot] = op.entry]
      /\ disk'.block = disk.block /\ disk'.super = disk.super
      /\ \A j \in 0 .. 1 : older'.bank[j] \subseteq {disk.bank[j]}
      /\ \A j \in 0 .. 1 : j # k => older'.bank[j] = {}
      /\ disk.bank[k][op.slot] # op.entry => older'.bank[k] = {disk.bank[k]}
      /\ older'.block = older.block /\ older'.super = older.super
  BY <1>1, <1>2, <1>3, <1>4, WriteBank
<1>6. /\ mem' \in MemType /\ mem'.dir = [mem.dir EXCEPT ![op.slot] = op.entry]
      /\ mem'.used = mem.used /\ mem'.cache = mem.cache /\ mem'.gen = mem.gen /\ mem'.next = mem.next
  BY <1>1, <1>3 DEF MemType, BankType
<1>7. /\ Current' = [mem.dir EXCEPT ![op.slot] = op.entry]
      /\ \A dir \in Survivable' : dir \in {mem.dir, Current'}
  BY <1>1, <1>2, <1>5, LocatorSurvivors
<1>8. /\ op'.pc = "commit" /\ op'.fresh = op.fresh /\ op'.entry = op.entry /\ op'.val = op.val
      /\ op'.slot = op.slot /\ op'.kind = op.kind /\ op'.id = op.id /\ op'.old = op.old
      /\ op'.was = op.was /\ op'.auto = op.auto /\ Up' /\ op' \in OpType
  BY <1>1, <1>3 DEF OpType, StepType, Up
<1>9. StoreTypeOK'
  BY <1>3, <1>5, <1>6, <1>8 DEF StoreTypeOK
<1>10. /\ Sound(disk.block, older.block, mem'.dir)
       /\ \A s \in Live(mem'.dir) : /\ Span(disk.block, mem'.dir[s]) \subseteq mem.used
                                    /\ op.old \cap Span(disk.block, mem'.dir[s]) = {}
  BY <1>1, <1>6, LocatorSound
<1>11. AllSound'
  <2> SUFFICES ASSUME NEW dir \in Survivable'
               PROVE  /\ Sound(disk.block, older.block, dir)
                      /\ \A s \in Live(dir) : Span(disk.block, dir[s]) \subseteq mem.used
    BY <1>5, <1>6 DEF AllSound
  <2>1. dir = mem.dir \/ dir = mem'.dir
    BY <1>6, <1>7
  <2> QED
    BY <1>1, <1>10, <2>1, DirectorySound
<1>12. \A s \in Slots : mem'.dir[s] = IF s = op.slot THEN op.entry ELSE mem.dir[s]
  BY <1>1, <1>6 DEF BankType
<1>13. MemAgrees'
  <2> SUFFICES ASSUME NEW i \in Ids, mem.cache[i] # 0
               PROVE  mem'.dir[mem.cache[i]].id = i \/ (op.kind = "delete" /\ i = op.was)
    BY <1>6, <1>7, <1>8 DEF MemAgrees
  <2>1. mem.cache[i] \in Slots /\ mem.dir[mem.cache[i]].id = i /\ i # 0
    <3>1. mem.cache[i] \in Slots \cup {0}
      BY <1>1 DEF MemType
    <3>2. i # 0
      BY DEF Ids
    <3> QED
      BY <1>1, <3>1, <3>2 DEF MemAgrees
  <2>2. CASE mem.cache[i] # op.slot
    BY <1>12, <2>1, <2>2
  <2>3. CASE mem.cache[i] = op.slot
    BY <1>1, <1>12, <2>1, <2>3 DEF Preparing
  <2> QED
    BY <2>2, <2>3
<1>14. Committing'
  <2>1. \A dir \in Survivable' :
          /\ \A s \in Slots \ {op.slot} : dir[s] = mem'.dir[s]
          /\ dir[op.slot] = op.entry \/ dir[op.slot].id \in {0, op.id}
    <3>1. mem.dir[op.slot].id \in {0, op.id}
      BY <1>1 DEF Preparing
    <3> SUFFICES ASSUME NEW dir \in Survivable'
                 PROVE  /\ \A s \in Slots \ {op.slot} : dir[s] = mem'.dir[s]
                        /\ dir[op.slot] = op.entry \/ dir[op.slot].id \in {0, op.id}
      OBVIOUS
    <3>2. dir = mem.dir \/ dir = mem'.dir
      BY <1>6, <1>7
    <3>3. CASE dir = mem.dir
      BY <1>12, <3>1, <3>3
    <3>4. CASE dir = mem'.dir
      BY <1>1, <1>12, <3>4
    <3> QED
      BY <3>2, <3>3, <3>4
  <2>2. \/ op.kind \in {"create", "write"} /\ op.entry.id = op.id /\ HeaderWritten'
        \/ /\ op.kind = "delete" /\ op.entry.id = 0 /\ op.was = op.id /\ op.val = Nil
           /\ \A s \in Slots : mem'.dir[s].id # op.id
    <3>1. CASE op.kind = "delete"
      <4>1. /\ op.entry.id = 0 /\ op.was = op.id /\ op.val = Nil /\ mem.dir[op.slot].id = op.id
            /\ op.id # 0 /\ op.slot \in Live(mem.dir)
        BY <1>1, <3>1 DEF Preparing, Ids, Live
      <4>2. \A s \in Slots : s # op.slot => mem.dir[s].id # op.id
        BY <1>1, <4>1, DirectorySound DEF Sound, Live
      <4> QED
        BY <1>12, <3>1, <4>1, <4>2
    <3>2. CASE op.kind # "delete"
      <4>1. HeaderWritten /\ op.entry.id = op.id /\ op.kind \in {"create", "write"}
        BY <1>1, <3>2 DEF Preparing
      <4> QED
        BY <1>5, <1>8, <4>1 DEF HeaderWritten, Extents
    <3> QED
      BY <3>1, <3>2
  <2> QED
    BY <1>1, <1>5, <1>8, <1>10, <1>12, <2>1, <2>2 DEF Committing
<1>15. BanksDurable' /\ NoRequest' /\ Preparing' /\ Finishing' /\ Formatting'
  BY <1>8 DEF BanksDurable, NoRequest, Preparing, Finishing, Formatting
<1>16. SupersRemember'
  <2>1. \A a \in Possible("super", 0), b \in Possible("super", 1) : ~(a.gen = 0 /\ b.gen = 0)
    BY <1>1 DEF SupersRemember
  <2> QED
    BY <1>3, <1>5, <2>1 DEF SupersRemember, Possible
<1>17. CounterAhead'
  BY <1>1, <1>3, <1>5, <1>6, <1>8 DEF CounterAhead, Possible
<1>18. mem.dir \in Survivable'
  <2>1. /\ op.entry.gen = mem.dir[op.slot].gen + 1 /\ mem.dir = Current
        /\ disk.bank \in [0 .. 1 -> BankType]
    BY <1>1, DirectorySound DEF Preparing, StoreTypeOK, DiskType
  <2>2. /\ disk.bank[0][op.slot].gen \in Nat /\ disk.bank[1][op.slot].gen \in Nat
        /\ mem.dir[op.slot] = Newer(disk.bank[0][op.slot], disk.bank[1][op.slot])
    BY <1>1, <2>1 DEF BankType, EntryType, Current, NewestDirectory
  <2>3. disk.bank[0][op.slot] # op.entry /\ disk.bank[1][op.slot] # op.entry
    BY <2>1, <2>2 DEF Newer
  <2>4. \A j \in 0 .. 1 : disk.bank[j] \in {disk'.bank[j]} \cup older'.bank[j]
    <3> SUFFICES ASSUME NEW j \in 0 .. 1 PROVE disk.bank[j] \in {disk'.bank[j]} \cup older'.bank[j]
      OBVIOUS
    <3>1. CASE j = k
      <4>1. disk.bank[k][op.slot] # op.entry
        BY <1>2, <2>3
      <4> QED
        BY <1>5, <3>1, <4>1
    <3>2. CASE j # k
      BY <1>5, <2>1, <3>2
    <3> QED
      BY <3>1, <3>2
  <2>5. NewestDirectory(disk.bank[0], disk.bank[1]) \in Survivable'
    BY <2>4 DEF Survivable, Possible
  <2> QED
    BY <2>1, <2>5 DEF Current
<1>19. Survivable' = {mem.dir, Current'}
  <2>1. Current' \in Survivable'
    BY DEF Current, Survivable, Possible
  <2> QED
    BY <1>7, <1>18, <2>1
<1> QED
  BY <1>3, <1>5, <1>7, <1>9, <1>11, <1>13, <1>14, <1>15, <1>16, <1>17, <1>19

LEMMA CommitKeeps ==
  ASSUME StoreInvariant, CommitsAccepted, Commit
  PROVE  StoreInvariant' /\ disk' = disk /\ Survivable' = {mem.dir} /\ Current' = mem.dir
<1> USE DEF StoreInvariant
<1>1. /\ op.pc = "commit" /\ Up /\ op \in OpType /\ mem \in MemType
      /\ op.slot \in Slots /\ op.id \in Ids
  BY DEF Commit, Up, StoreTypeOK, Committing
<1>2. /\ disk' = disk /\ older' = Clean /\ faults' = faults
      /\ mem' = [mem EXCEPT !.used = @ \ op.old,
                   !.cache = [i \in Ids |->
                     IF op.kind = "create" /\ i = op.id THEN op.slot
                     ELSE IF op.kind = "delete" /\ i = op.was THEN 0 ELSE @[i]]]
      /\ op' = (IF op.kind # "create" THEN [op EXCEPT !.pc = "release"]
                ELSE IF op.auto THEN [op EXCEPT !.pc = "super"] ELSE NoOp("idle"))
      /\ UNCHANGED <<issued, crashes, requests>>
  BY <1>1 DEF Commit, Committed, Flushed, NotFlushed, Fault, CommitsAccepted
<1>3. Spared
  BY <1>1, <1>2, SparedByFlush
<1>4. /\ mem' \in MemType /\ mem'.dir = mem.dir /\ mem'.used = mem.used \ op.old
      /\ mem'.gen = mem.gen /\ mem'.next = mem.next
      /\ \A i \in Ids : mem'.cache[i] =
           IF op.kind = "create" /\ i = op.id THEN op.slot
           ELSE IF op.kind = "delete" /\ i = op.was THEN 0 ELSE mem.cache[i]
  BY <1>1, <1>2 DEF MemType
<1>5. /\ op' \in OpType /\ op'.pc \in {"release", "super", "idle"} /\ Up'
      /\ op'.pc = "release" => op'.kind = op.kind /\ op.kind # "create" /\ op'.auto = op.auto /\ op'.id = op.id
      /\ op'.pc = "super" => op'.kind = "create" /\ op'.auto = op.auto /\ op.auto /\ op'.id = op.id
      /\ op'.pc = "idle" => op' = NoOp("idle")
  <2>1. [op EXCEPT !.pc = "release"] \in OpType /\ [op EXCEPT !.pc = "super"] \in OpType
    BY <1>1 DEF OpType, StepType
  <2>2. NoOp("idle") \in OpType /\ NoOp("idle").pc = "idle"
    BY StoreAssumption DEF OpType, NoOp, NoEntry, EntryType, StepType, Contents
  <2>3. CASE op.kind # "create"
    BY <1>1, <1>2, <2>1, <2>3 DEF OpType, Up
  <2>4. CASE op.kind = "create" /\ op.auto
    BY <1>1, <1>2, <2>1, <2>4 DEF OpType, Up
  <2>5. CASE op.kind = "create" /\ ~op.auto
    BY <1>1, <1>2, <2>2, <2>5 DEF Up
  <2> QED
    BY <2>3, <2>4, <2>5
<1>6. StoreTypeOK'
  BY <1>2, <1>3, <1>4, <1>5 DEF StoreTypeOK, Spared, Untouched
<1>7. Survivable' = {mem.dir} /\ Current' = mem.dir
  <2>1. older'.bank[0] = {} /\ older'.bank[1] = {}
    BY <1>2, CleanOlder
  <2>2. Current' = Current
    BY <1>2 DEF Current
  <2>3. Survivable' = {Current'}
    BY <2>1 DEF Survivable, Current, Possible
  <2> QED
    BY <1>1, <2>2, <2>3, DirectorySound
<1>8. AllSound' /\ BanksDurable'
  <2>1. \A s \in Live(mem.dir) : \A b \in Span(disk.block, mem.dir[s]) : older'.block[b] = {}
    BY <1>3 DEF Spared, Untouched
  <2>2. Sound(disk.block, older.block, mem.dir)
    BY <1>1, DirectorySound
  <2>3. Sound(disk.block, older'.block, mem.dir)
    <3> DEFINE old2 == older'.block
    <3> HIDE DEF old2
    <3>1. \A s \in Live(mem.dir) : \A b \in Span(disk.block, mem.dir[s]) : old2[b] = {}
      BY <2>1 DEF old2
    <3>2. Sound(disk.block, old2, mem.dir)
      BY <2>2, <3>1 DEF Sound, Whole
    <3> QED
      BY <3>2 DEF old2
  <2>4. \A s \in Live(mem.dir) : Span(disk.block, mem.dir[s]) \subseteq mem'.used
    BY <1>1, <1>4, DirectorySound DEF Committing
  <2>5. older'.bank[0] = {} /\ older'.bank[1] = {}
    BY <1>2, CleanOlder
  <2> QED
    BY <1>2, <1>7, <2>3, <2>4, <2>5 DEF AllSound, BanksDurable
<1>9. MemAgrees'
  <2> SUFFICES ASSUME NEW i \in Ids, mem'.cache[i] # 0 PROVE mem.dir[mem'.cache[i]].id = i
    BY <1>4, <1>7 DEF MemAgrees
  <2>1. mem.cache[i] # 0 => \/ mem.dir[mem.cache[i]].id = i
                            \/ op.kind = "delete" /\ i = op.was
    BY <1>1 DEF MemAgrees
  <2>2. op.kind = "create" => mem.dir[op.slot].id = op.id
    BY <1>1 DEF Committing
  <2> QED
    BY <1>4, <2>1, <2>2
<1>10. SupersRemember' /\ CounterAhead'
  BY <1>1, <1>2, <1>3, <1>4, <1>5, SupersFrame, CounterFrame DEF NoOp
<1>11. op.kind # "none"
  BY <1>1 DEF Committing
<1>12. NoRequest' /\ Preparing' /\ Finishing' /\ Formatting' /\ Committing'
  BY <1>1, <1>5, <1>11 DEF NoRequest, Preparing, Finishing, Formatting, Committing, OpType
<1> QED
  BY <1>2, <1>6, <1>7, <1>8, <1>9, <1>10, <1>12

LEMMA ReleaseKeeps ==
  ASSUME StoreInvariant, Release
  PROVE  StoreInvariant' /\ Untouched
<1> USE DEF StoreInvariant
<1>1. op.pc = "release" /\ Up /\ mem \in MemType
  BY DEF Release, Up, StoreTypeOK
<1>2. Spared
  BY <1>1, SparedByFlush DEF Release, Flushed, NotFlushed
<1>3. faults' \in Nat
  BY DEF Release, Flushed, NotFlushed, Fault, StoreTypeOK
<1> QED
  BY <1>1, <1>2, <1>3, DirectorySound, EndKeeps DEF Release, Done, Spared

LEMMA WriteSuperKeeps ==
  ASSUME StoreInvariant, WriteSuper
  PROVE  StoreInvariant' /\ Untouched
<1> USE DEF StoreInvariant
<1> DEFINE g == mem.gen + 1
           a == [gen |-> g, next |-> mem.next]
           k == g % 2
           d == [disk EXCEPT !.super[k] = a]
<1>1. /\ op.pc = "super" /\ Up /\ op \in OpType /\ mem \in MemType
      /\ op.auto /\ op.kind = "create" /\ op.id \in Ids
  BY DEF WriteSuper, Up, StoreTypeOK, Finishing
<1>2. g \in Nat /\ k \in 0 .. 1 /\ a \in SuperType /\ mem.gen \in Nat /\ g = mem.gen + 1
  BY <1>1 DEF MemType, SuperType
<1>3. /\ mem' = [mem EXCEPT !.gen = g]
      /\ \/ Accepted(d) /\ op' = [op EXCEPT !.pc = "persist"]
         \/ Rejected(d) /\ op' = NoOp("idle")
      /\ UNCHANGED <<issued, crashes, requests>>
  BY DEF WriteSuper, Done
<1>4. a.gen = g /\ a.next = mem.next
  OBVIOUS
<1>g. mem'.gen % 2 = k /\ [gen |-> mem'.gen, next |-> mem'.next] = a
  BY <1>1, <1>3 DEF MemType
<1> HIDE DEF k, g, a
<1>5. (Store(d) \/ Discard(d)) /\ faults' \in Nat /\ (Accepted(d) => Store(d))
  BY <1>3 DEF Accepted, Rejected, Fault, StoreTypeOK
<1>6. /\ disk' \in DiskType /\ OlderTypeOK'
      /\ disk'.bank = disk.bank /\ disk'.block = disk.block
      /\ \A j \in 0 .. 1 : older'.bank[j] \subseteq older.bank[j]
      /\ \A b \in Blocks : older'.block[b] \subseteq older.block[b]
      /\ \A j \in 0 .. 1 : j # k => disk'.super[j] = disk.super[j] /\ older'.super[j] \subseteq older.super[j]
      /\ disk'.super[k] \in {disk.super[k], a}
      /\ older'.super[k] \subseteq older.super[k] \cup {disk.super[k], a}
      /\ Store(d) => disk'.super[k] = a
  BY <1>2, <1>5, WriteSuperSlot
<1>7. Untouched
  <2>1. \A s \in Live(mem.dir) : \A b \in Span(disk.block, mem.dir[s]) : b \in Blocks /\ older.block[b] = {}
    BY <1>1, DirectorySound DEF Sound, Whole, Span
  <2> QED
    BY <1>6, <2>1 DEF Untouched
<1>8. /\ mem' \in MemType /\ mem'.dir = mem.dir /\ mem'.used = mem.used /\ mem'.cache = mem.cache
      /\ mem'.next = mem.next /\ mem'.gen = g
  BY <1>1, <1>2, <1>3 DEF MemType
<1>9. /\ op' \in OpType /\ op'.pc \in {"persist", "idle"} /\ Up'
      /\ op'.pc = "persist" => op'.kind = op.kind /\ op'.auto = op.auto /\ op'.id = op.id /\ disk'.super[k] = a
      /\ op'.pc = "idle" => op' = NoOp("idle") /\ op'.auto = FALSE
  <2>1. [op EXCEPT !.pc = "persist"] \in OpType
    BY <1>1 DEF OpType, StepType
  <2>2. NoOp("idle") \in OpType /\ NoOp("idle").pc = "idle" /\ NoOp("idle").auto = FALSE
    BY StoreAssumption DEF OpType, NoOp, NoEntry, EntryType, StepType, Contents
  <2>3. CASE Accepted(d) /\ op' = [op EXCEPT !.pc = "persist"]
    BY <1>1, <1>5, <1>6, <2>1, <2>3 DEF OpType, Up
  <2>4. CASE op' = NoOp("idle")
    BY <2>2, <2>4 DEF Up
  <2> QED
    BY <1>3, <2>3, <2>4
<1>10. BanksDurable' /\ AllSound' /\ Committing' /\ Formatting' /\ mem'.dir = Current'
  BY <1>1, <1>7, <1>8, <1>9, DirectorySound, UntouchedFrame
<1>11. StoreTypeOK'
  BY <1>3, <1>5, <1>6, <1>8, <1>9 DEF StoreTypeOK
<1>12. MemAgrees'
  BY <1>1, <1>8, <1>9, <1>10 DEF MemAgrees
<1>13. NoRequest' /\ Preparing' /\ Finishing'
  BY <1>1, <1>9 DEF NoRequest, Preparing, Finishing
<1>14. \A j \in 0 .. 1 : \A c \in {disk'.super[j]} \cup older'.super[j] :
         \/ c \in {disk.super[j]} \cup older.super[j]
         \/ j = k /\ c = a
  BY <1>2, <1>6
<1>15. \A j \in 0 .. 1 : \A c \in {disk.super[j]} \cup older.super[j] : c.gen \in Nat /\ c.gen < g
  <2>1. \A j \in 0 .. 1 : \A c \in {disk.super[j]} \cup older.super[j] : c \in SuperType
    BY DEF StoreTypeOK, OlderTypeOK, DiskType
  <2>2. \A j \in 0 .. 1 : \A c \in {disk.super[j]} \cup older.super[j] : c.gen <= mem.gen
    BY <1>1 DEF CounterAhead, Possible
  <2> QED
    BY <1>2, <2>1, <2>2 DEF SuperType
<1>16. SupersRemember'
  <2> SUFFICES ASSUME NEW x \in {disk'.super[0]} \cup older'.super[0],
                      NEW y \in {disk'.super[1]} \cup older'.super[1]
               PROVE  /\ x.gen = 0 => x = NoSuper
                      /\ y.gen = 0 => y = NoSuper
                      /\ \A j \in issued : j < SuperOf(x, y).next
                      /\ x.gen = 0 /\ y.gen = 0 =>
                           \A l \in 0 .. 1, s \in Slots : disk.bank[l][s] = NoEntry
    BY <1>3, <1>6, <1>9 DEF SupersRemember, Possible
  <2>1. x \in {disk.super[0]} \cup older.super[0] \/ (k = 0 /\ x = a)
    BY <1>14
  <2>2. y \in {disk.super[1]} \cup older.super[1] \/ (k = 1 /\ y = a)
    BY <1>14
  <2>3. \A j \in issued : j < a.next
    BY <1>1, <1>4 DEF CounterAhead
  <2>4. CASE x \in {disk.super[0]} \cup older.super[0] /\ y \in {disk.super[1]} \cup older.super[1]
    BY <2>4 DEF SupersRemember, Possible
  <2>5. CASE k = 0 /\ x = a /\ y \in {disk.super[1]} \cup older.super[1]
    <3>1. y.gen \in Nat /\ y.gen < g
      BY <1>15, <2>5
    <3>2. SuperOf(x, y) = a /\ x.gen # 0
      BY <1>2, <1>4, <2>5, <3>1 DEF SuperOf
    <3> QED
      BY <2>3, <2>5, <3>2 DEF SupersRemember, Possible
  <2>6. CASE k = 1 /\ y = a /\ x \in {disk.super[0]} \cup older.super[0]
    <3>1. x.gen \in Nat /\ x.gen < g
      BY <1>15, <2>6
    <3>2. SuperOf(x, y) = a /\ y.gen # 0
      BY <1>2, <1>4, <2>6, <3>1 DEF SuperOf
    <3> QED
      BY <2>3, <2>6, <3>2 DEF SupersRemember, Possible
  <2> QED
    BY <2>1, <2>2, <2>4, <2>5, <2>6
<1>17. CounterAhead'
  <2>1. \E j \in 0 .. 1 : disk'.super[j].gen # 0
    <3>1. PICK j \in 0 .. 1 : disk.super[j].gen # 0
      BY <1>1 DEF CounterAhead
    <3> QED
      BY <1>2, <1>4, <1>6, <3>1
  <2>2. \A j \in 0 .. 1 : \A c \in {disk'.super[j]} \cup older'.super[j] : c.gen <= g
    BY <1>2, <1>4, <1>14, <1>15
  <2>3. \A j \in 0 .. 1 : j # k => disk'.super[j].gen < g
    BY <1>6, <1>15
  <2>4. /\ \A j \in issued : j < mem.next
        /\ op.id < mem.next /\ op.id \notin issued
    BY <1>1 DEF CounterAhead
  <2>5. op'.auto => op'.id = op.id
    BY <1>9
  <2>6. op'.pc = "persist" =>
          /\ disk'.super[mem'.gen % 2] = [gen |-> mem'.gen, next |-> mem'.next]
          /\ \A j \in 0 .. 1 : j # mem'.gen % 2 => disk'.super[j].gen < mem'.gen
    BY <1>8, <1>9, <1>g, <2>3
  <2> QED
    BY <1>3, <1>8, <2>1, <2>2, <2>4, <2>5, <2>6 DEF CounterAhead, Possible
<1> QED
  BY <1>7, <1>10, <1>11, <1>12, <1>13, <1>16, <1>17

LEMMA FlushSuperKeeps ==
  ASSUME StoreInvariant, FlushSuper
  PROVE  StoreInvariant' /\ Untouched
<1> USE DEF StoreInvariant
<1>1. /\ op.pc = "persist" /\ Up /\ mem \in MemType /\ op.auto /\ op.id \in Ids
      /\ op' = NoOp("idle") /\ UNCHANGED <<mem, crashes, requests>>
      /\ disk' = disk /\ faults' \in Nat
  BY DEF FlushSuper, Done, Up, StoreTypeOK, Finishing, Flushed, NotFlushed, Fault
<1>2. Spared
  BY <1>1, SparedByFlush DEF FlushSuper, Flushed, NotFlushed
<1>3. CASE NotFlushed /\ issued' = issued
  BY <1>1, <1>2, <1>3, DirectorySound, EndKeeps DEF Spared
<1>4. CASE Flushed /\ issued' = issued \cup {op.id}
  <2>1. op'.pc = "idle" /\ Up' /\ op'.auto = FALSE
    BY <1>1 DEF NoOp, Up
  <2>2. BanksDurable' /\ AllSound' /\ Committing' /\ Formatting' /\ mem'.dir = Current'
    BY <1>1, <1>2, <2>1, DirectorySound, UntouchedFrame DEF Spared
  <2>3. op' \in OpType
    BY <1>1, StoreAssumption DEF OpType, NoOp, NoEntry, EntryType, StepType, Contents
  <2>4. StoreTypeOK'
    BY <1>1, <1>2, <1>4, <2>3 DEF StoreTypeOK, Spared, Untouched
  <2>5. MemAgrees'
    BY <1>1, <2>1, <2>2 DEF MemAgrees
  <2>6. NoRequest' /\ Preparing' /\ Finishing'
    BY <1>1, <2>1 DEF NoRequest, Preparing, Finishing
  <2>7. \A k \in 0 .. 1 : older'.super[k] = {}
    BY <1>4, CleanOlder DEF Flushed
  <2>8. \A j \in issued' : j < mem.next
    BY <1>1, <1>4 DEF CounterAhead
  <2>9. CounterAhead'
    BY <1>1, <2>1, <2>7, <2>8 DEF CounterAhead, Possible
  <2>10. SupersRemember'
    <3> DEFINE k == mem.gen % 2
    <3>1. k \in 0 .. 1 /\ mem.gen \in Nat
      BY <1>1 DEF MemType
    <3>2. disk.super[k] = [gen |-> mem.gen, next |-> mem.next]
      BY <1>1 DEF CounterAhead
    <3>3. \A j \in 0 .. 1 : j # k => disk.super[j].gen < mem.gen
      BY <1>1 DEF CounterAhead
    <3>4. disk.super[0].gen \in Nat /\ disk.super[1].gen \in Nat
      BY DEF StoreTypeOK, DiskType, SuperType
    <3> HIDE DEF k
    <3>5. SuperOf(disk.super[0], disk.super[1]) = disk.super[k]
      <4>1. CASE k = 0
        <5>1. disk.super[1].gen < disk.super[0].gen
          BY <3>1, <3>2, <3>3, <4>1
        <5> QED
          BY <3>4, <4>1, <5>1 DEF SuperOf
      <4>2. CASE k = 1
        <5>1. disk.super[0].gen < disk.super[1].gen
          BY <3>1, <3>2, <3>3, <4>2
        <5> QED
          BY <3>4, <4>2, <5>1 DEF SuperOf
      <4> QED
        BY <3>1, <4>1, <4>2
    <3>6. \A j \in issued' : j < SuperOf(disk.super[0], disk.super[1]).next
      BY <2>8, <3>2, <3>5
    <3> QED
      BY <1>1, <2>1, <2>7, <3>6 DEF SupersRemember, Possible
  <2> QED
    BY <1>2, <2>2, <2>4, <2>5, <2>6, <2>9, <2>10 DEF Spared
<1> QED
  BY <1>3, <1>4 DEF FlushSuper

-----------------------------------------------------------------------------
(* Crash, mount and format.                                                *)

\* After a crash every place holds one of its possible contents.
LEMMA CrashDisk ==
  ASSUME StoreInvariant, Crash
  PROVE  /\ disk' \in DiskType
         /\ \A k \in 0 .. 1 : /\ disk'.bank[k] \in {disk.bank[k]} \cup older.bank[k]
                              /\ disk'.super[k] \in {disk.super[k]} \cup older.super[k]
         /\ \A b \in Blocks : disk'.block[b] \in {disk.block[b]} \cup older.block[b]
<1> USE DEF StoreInvariant
<1>1. PICK x \in Survivors("bank"), y \in Survivors("block"), z \in Survivors("super") :
        disk' = [bank |-> Survived("bank", x), block |-> Survived("block", y),
                 super |-> Survived("super", z)]
  BY DEF Crash
<1>2. /\ \A k \in Dirty("bank") : x[k] \in {disk.bank[k]} \cup older.bank[k]
      /\ \A b \in Dirty("block") : y[b] \in {disk.block[b]} \cup older.block[b]
      /\ \A k \in Dirty("super") : z[k] \in {disk.super[k]} \cup older.super[k]
  BY DEF Survivors, Possible
<1>3. /\ Survived("bank", x) = [k \in 0 .. 1 |-> IF k \in Dirty("bank") THEN x[k] ELSE disk.bank[k]]
      /\ Survived("block", y) = [b \in Blocks |-> IF b \in Dirty("block") THEN y[b] ELSE disk.block[b]]
      /\ Survived("super", z) = [k \in 0 .. 1 |-> IF k \in Dirty("super") THEN z[k] ELSE disk.super[k]]
  BY PlacesOf DEF Survived
<1>4. /\ \A k \in 0 .. 1 : /\ disk'.bank[k] \in {disk.bank[k]} \cup older.bank[k]
                           /\ disk'.super[k] \in {disk.super[k]} \cup older.super[k]
      /\ \A b \in Blocks : disk'.block[b] \in {disk.block[b]} \cup older.block[b]
  BY <1>1, <1>2, <1>3
<1>5. disk' \in DiskType
  <2>1. /\ disk.bank \in [0 .. 1 -> BankType] /\ disk.block \in [Blocks -> BlockType]
        /\ disk.super \in [0 .. 1 -> SuperType]
    BY DEF StoreTypeOK, DiskType
  <2>2. /\ Survived("bank", x) \in [0 .. 1 -> BankType]
        /\ Survived("block", y) \in [Blocks -> BlockType]
        /\ Survived("super", z) \in [0 .. 1 -> SuperType]
    BY <1>2, <1>3, <2>1 DEF StoreTypeOK, OlderTypeOK
  <2> QED
    BY <1>1, <2>2 DEF DiskType
<1> QED
  BY <1>4, <1>5

LEMMA IdleTypes ==
  ASSUME NEW pc \in StepType
  PROVE  /\ NoOp(pc) \in OpType /\ NoOp(pc).pc = pc /\ NoOp(pc).auto = FALSE
         /\ NoOp(pc).kind = "none" /\ EmptyMem \in MemType
<1>1. NoEntry \in EntryType /\ Nil \in Contents
  BY StoreAssumption DEF NoEntry, EntryType, Contents
<1>2. NoOp(pc) \in OpType /\ NoOp(pc).pc = pc /\ NoOp(pc).auto = FALSE /\ NoOp(pc).kind = "none"
  BY <1>1, StoreAssumption DEF NoOp, OpType
<1>3. EmptyMem \in MemType
  BY <1>1 DEF EmptyMem, MemType, BankType
<1> QED
  BY <1>2, <1>3

LEMMA CrashKeeps ==
  ASSUME StoreInvariant, Crash
  PROVE  StoreInvariant'
<1> USE DEF StoreInvariant
<1>1. /\ older' = Clean /\ mem' = EmptyMem /\ op' = NoOp("down")
      /\ UNCHANGED <<issued, faults, requests>> /\ crashes' \in Nat
  BY DEF Crash, StoreTypeOK
<1>2. op' \in OpType /\ op'.pc = "down" /\ mem' \in MemType /\ ~Up' /\ op'.auto = FALSE
  BY <1>1, IdleTypes DEF StepType, Up
<1>3. /\ disk' \in DiskType
      /\ \A k \in 0 .. 1 : /\ disk'.bank[k] \in {disk.bank[k]} \cup older.bank[k]
                           /\ disk'.super[k] \in {disk.super[k]} \cup older.super[k]
      /\ \A b \in Blocks : disk'.block[b] \in {disk.block[b]} \cup older.block[b]
  BY CrashDisk
<1>4. /\ OlderTypeOK'
      /\ \A k \in 0 .. 1 : older'.bank[k] = {} /\ older'.super[k] = {}
      /\ \A b \in Blocks : older'.block[b] = {}
  BY <1>1, CleanOlder DEF OlderTypeOK
<1>5. StoreTypeOK'
  BY <1>1, <1>2, <1>3, <1>4 DEF StoreTypeOK
<1>6. Survivable' = {Current'} /\ Current' \in Survivable
  <2>1. Survivable' = {Current'}
    BY <1>4 DEF Survivable, Current, Possible
  <2>2. Current' \in Survivable
    BY <1>3 DEF Survivable, Current, Possible
  <2> QED
    BY <2>1, <2>2
<1>7. AllSound'
  <2> DEFINE dir == Current'
             blk2 == disk'.block
             old2 == older'.block
  <2>1. Sound(disk.block, older.block, dir)
    BY <1>6 DEF AllSound
  <2>2. \A s \in Live(dir) : \A b \in Span(disk.block, dir[s]) : b \in Blocks /\ older.block[b] = {}
    <3> HIDE DEF dir
    <3> QED
      BY <2>1 DEF Sound, Whole, Span
  <2>3. \A s \in Live(dir) : \A b \in Span(disk.block, dir[s]) : blk2[b] = disk.block[b] /\ old2[b] = {}
    <3> HIDE DEF dir
    <3> QED
      BY <1>3, <1>4, <2>2
  <2> HIDE DEF dir, blk2, old2
  <2>4. Sound(blk2, old2, dir)
    BY <2>1, <2>3, SoundFrame, Zenon
  <2> QED
    BY <1>2, <1>6, <2>4 DEF AllSound, dir, blk2, old2
<1>8. BanksDurable' /\ Formatting'
  BY <1>2, <1>4 DEF BanksDurable, Formatting
<1>9. MemAgrees' /\ NoRequest' /\ Preparing' /\ Committing' /\ Finishing' /\ CounterAhead'
  BY <1>1, <1>2 DEF MemAgrees, NoRequest, Preparing, Committing, Finishing, CounterAhead
<1>10. SupersRemember'
  <2> DEFINE x == disk'.super[0]
             y == disk'.super[1]
  <2>1. x \in Possible("super", 0) /\ y \in Possible("super", 1)
    BY <1>3 DEF Possible
  <2>2. x.gen = 0 /\ y.gen = 0 => \A k \in 0 .. 1, s \in Slots : disk'.bank[k][s] = NoEntry
    <3> SUFFICES ASSUME x.gen = 0, y.gen = 0
                 PROVE  \A k \in 0 .. 1, s \in Slots : disk'.bank[k][s] = NoEntry
      OBVIOUS
    <3>1. op.pc # "commit" /\ \A k \in 0 .. 1, s \in Slots : disk.bank[k][s] = NoEntry
      BY <2>1 DEF SupersRemember
    <3> QED
      BY <1>3, <3>1 DEF BanksDurable
  <2>3. Possible("super", 0)' = {x} /\ Possible("super", 1)' = {y}
    BY <1>4 DEF Possible
  <2> QED
    BY <1>1, <1>2, <2>1, <2>2, <2>3 DEF SupersRemember
<1> QED
  BY <1>5, <1>7, <1>8, <1>9, <1>10

LEMMA MountKeeps ==
  ASSUME StoreInvariant, Mount
  PROVE  StoreInvariant'
<1> USE DEF StoreInvariant
<1> DEFINE dir == Current
           live == {s \in Slots : dir[s].id # 0}
<1>1. /\ op.pc = "down" /\ ~Up /\ NewestSuper.gen # 0
      /\ op' = NoOp("idle") /\ UNCHANGED <<disk, older, issued, faults, crashes, requests>>
      /\ mem' = [dir |-> dir, used |-> UNION {Reached(disk, dir[s]) : s \in live},
                 cache |-> [i \in Ids |-> IF Holders(dir, i) = {} THEN 0 ELSE First(Holders(dir, i))],
                 next |-> NewestSuper.next, gen |-> NewestSuper.gen]
  BY DEF Mount, Up, Current
<1>2. op' \in OpType /\ op'.pc = "idle" /\ Up' /\ op'.auto = FALSE
  BY <1>1, IdleTypes DEF StepType, Up
<1>3. Survivable' = {dir} /\ Survivable = {dir} /\ Current' = dir
  <2>1. Survivable = {dir}
    BY <1>1, DurableBanks DEF BanksDurable
  <2>2. Survivable' = Survivable /\ Current' = Current
    BY <1>1 DEF Survivable, Current, Possible
  <2> QED
    BY <2>1, <2>2
<1>4. Sound(disk.block, older.block, dir) /\ live = Live(dir)
  BY <1>3 DEF AllSound, Live
<1>5. dir \in BankType
  BY DEF StoreTypeOK, DiskType, BankType, Current, NewestDirectory, Newer
<1>6. \A i \in Ids : Holders(dir, i) # {} => First(Holders(dir, i)) \in Holders(dir, i)
  <2> SUFFICES ASSUME NEW i \in Ids, Holders(dir, i) # {}
               PROVE  First(Holders(dir, i)) \in Holders(dir, i)
    OBVIOUS
  <2>1. Holders(dir, i) \in SUBSET Nat
    BY StoreAssumption DEF Holders
  <2> QED
    BY <2>1, FirstLeast
<1>s. /\ NewestSuper \in {disk.super[0], disk.super[1]} /\ NewestSuper \in SuperType
      /\ disk.super[0].gen <= NewestSuper.gen /\ disk.super[1].gen <= NewestSuper.gen
      /\ NewestSuper = SuperOf(disk.super[0], disk.super[1])
  <2>1. disk.super[0] \in SuperType /\ disk.super[1] \in SuperType
    BY DEF StoreTypeOK, DiskType
  <2>2. disk.super[0].gen \in Nat /\ disk.super[1].gen \in Nat
    BY <2>1 DEF SuperType
  <2> QED
    BY <2>1, <2>2 DEF NewestSuper, SuperOf
<1> HIDE DEF dir
<1>7. \A s \in Live(dir) : Reached(disk, dir[s]) = Span(disk.block, dir[s]) /\ Span(disk.block, dir[s]) \subseteq Blocks
  BY <1>4 DEF Sound, Whole, Reached, Span
<1>8. /\ mem'.dir = dir /\ mem'.used = UNION {Reached(disk, dir[s]) : s \in live}
      /\ \A i \in Ids : mem'.cache[i] = IF Holders(dir, i) = {} THEN 0 ELSE First(Holders(dir, i))
      /\ mem'.next = NewestSuper.next /\ mem'.gen = NewestSuper.gen
  BY <1>1
<1>9. mem' \in MemType
  <2>1. UNION {Reached(disk, dir[s]) : s \in live} \in SUBSET Blocks
    BY <1>4, <1>7
  <2>2. [i \in Ids |-> IF Holders(dir, i) = {} THEN 0 ELSE First(Holders(dir, i))] \in [Ids -> Slots \cup {0}]
    BY <1>6 DEF Holders
  <2>3. NewestSuper.next \in Nat /\ NewestSuper.gen \in Nat
    BY <1>s DEF SuperType
  <2> QED
    BY <1>1, <1>5, <2>1, <2>2, <2>3 DEF MemType
<1>10. StoreTypeOK'
  BY <1>1, <1>2, <1>9 DEF StoreTypeOK, OlderTypeOK
<1>11. AllSound'
  <2>1. \A s \in Live(dir) : Span(disk.block, dir[s]) \subseteq mem'.used
    BY <1>4, <1>7, <1>8
  <2> QED
    BY <1>1, <1>3, <1>4, <2>1 DEF AllSound
<1>12. MemAgrees'
  BY <1>3, <1>6, <1>8 DEF MemAgrees, Holders
<1>13. /\ BanksDurable' /\ NoRequest' /\ Preparing' /\ Committing' /\ Finishing' /\ Formatting'
  BY <1>1, <1>2 DEF BanksDurable, NoRequest, Preparing, Committing, Finishing, Formatting
<1>14. SupersRemember'
  BY <1>1, <1>2 DEF SupersRemember, Possible
<1>15. CounterAhead'
  <2>1. \A k \in 0 .. 1 : \A a \in {disk.super[k]} \cup older.super[k] : a.gen <= NewestSuper.gen
    <3>1. NewestSuper.gen \in Nat /\ NewestSuper.gen >= 1
      BY <1>1, <1>s DEF SuperType
    <3>2. \A k \in 0 .. 1 : \A a \in older.super[k] : a.gen <= 1 /\ a.gen \in Nat
      BY <1>1 DEF Formatting, StoreTypeOK, OlderTypeOK, SuperType
    <3> QED
      BY <1>s, <3>1, <3>2
  <2>2. \E k \in 0 .. 1 : disk.super[k].gen # 0
    BY <1>1, <1>s
  <2>3. \A j \in issued : j < NewestSuper.next
    BY <1>s DEF SupersRemember, Possible
  <2> QED
    BY <1>1, <1>2, <1>8, <2>1, <2>2, <2>3 DEF CounterAhead, Possible
<1> QED
  BY <1>10, <1>11, <1>12, <1>13, <1>14, <1>15

\* Empty banks locate nothing.
LEMMA EmptyBanks ==
  ASSUME \A k \in 0 .. 1, s \in Slots : disk.bank[k][s] = NoEntry,
         older.bank[0] = {}, older.bank[1] = {}
  PROVE  Current = EmptyMem.dir /\ AllSound
<1>1. Survivable = {Current}
  BY DurableBanks
<1>2. \A s \in Slots : Newer(disk.bank[0][s], disk.bank[1][s]) = NoEntry
  BY DEF Newer
<1>3. Current = [s \in Slots |-> NoEntry]
  BY <1>2 DEF Current, NewestDirectory
<1>4. Live(Current) = {}
  BY <1>3 DEF Live, NoEntry
<1>5. Sound(disk.block, older.block, Current)
  BY <1>4 DEF Sound
<1> QED
  BY <1>1, <1>3, <1>4, <1>5 DEF AllSound, EmptyMem

\* A step of the first format, accepted or rejected: banks stay empty, and
\* only the first generation is written.
LEMMA FormatFrame ==
  ASSUME StoreInvariant, op.pc \in {"down", "format", "formatted"},
         \A k \in 0 .. 1, s \in Slots : disk.bank[k][s] = NoEntry,
         issued = {}, \A k \in 0 .. 1 : disk.super[k].gen <= 1,
         disk' \in DiskType, OlderTypeOK', disk'.bank = disk.bank,
         \A k \in 0 .. 1 : older'.bank[k] \subseteq older.bank[k],
         \A k \in 0 .. 1 :
           \A a \in {disk'.super[k]} \cup older'.super[k] :
             a \in {disk.super[k]} \cup older.super[k] \/ a = [gen |-> 1, next |-> 1],
         NEW pc \in {"down", "format", "formatted"}, op' = NoOp(pc), mem' \in MemType,
         pc # "down" => disk'.super[0].gen = 1,
         faults' \in Nat, UNCHANGED <<issued, crashes, requests>>
  PROVE  StoreInvariant'
<1> USE DEF StoreInvariant
<1>1. op' \in OpType /\ op'.pc = pc /\ ~Up' /\ ~Up
  BY IdleTypes DEF StepType, Up
<1>2. StoreTypeOK'
  BY <1>1 DEF StoreTypeOK
<1>3. /\ older'.bank[0] = {} /\ older'.bank[1] = {}
      /\ \A k \in 0 .. 1, s \in Slots : disk'.bank[k][s] = NoEntry
  BY DEF BanksDurable
<1>4. AllSound'
  <2>1. Survivable' = {Current'}
    BY <1>3 DEF Survivable, Current, Possible
  <2>2. \A s \in Slots : Newer(disk'.bank[0][s], disk'.bank[1][s]) = NoEntry
    BY <1>3 DEF Newer
  <2>3. Current' = [s \in Slots |-> NoEntry]
    BY <2>2 DEF Current, NewestDirectory
  <2> DEFINE dir == Current'
  <2> HIDE DEF dir
  <2>4. Live(dir) = {}
    BY <2>3 DEF Live, NoEntry, dir
  <2>5. Sound(disk'.block, older'.block, dir)
    BY <2>4 DEF Sound
  <2> QED
    BY <1>1, <2>1, <2>5 DEF AllSound, dir
<1>5. BanksDurable' /\ MemAgrees' /\ NoRequest' /\ Preparing' /\ Committing' /\ Finishing' /\ CounterAhead'
  BY <1>1, <1>3 DEF BanksDurable, MemAgrees, NoRequest, Preparing, Committing, Finishing, CounterAhead
<1>6. \A k \in 0 .. 1 : \A a \in {disk'.super[k]} \cup older'.super[k] :
        a.gen <= 1 /\ (a.gen = 0 => a = NoSuper)
  <2>1. \A k \in 0 .. 1 : \A a \in {disk.super[k]} \cup older.super[k] : a.gen <= 1
    BY <1>1 DEF Formatting
  <2>2. \A a \in {disk.super[0]} \cup older.super[0] : a.gen = 0 => a = NoSuper
    BY DEF SupersRemember, Possible
  <2>3. \A a \in {disk.super[1]} \cup older.super[1] : a.gen = 0 => a = NoSuper
    BY DEF SupersRemember, Possible
  <2> QED
    BY <2>1, <2>2, <2>3
<1>7. SupersRemember'
  BY <1>1, <1>3, <1>6 DEF SupersRemember, Possible
<1>8. Formatting'
  BY <1>1, <1>3, <1>6 DEF Formatting
<1> QED
  BY <1>2, <1>4, <1>5, <1>7, <1>8

LEMMA FormatKeeps ==
  ASSUME StoreInvariant, Format
  PROVE  StoreInvariant'
<1> USE DEF StoreInvariant
<1> DEFINE a == [gen |-> 1, next |-> 1]
           Slot(i) == Store([disk EXCEPT !.super[i] = a])
<1>a. a \in SuperType /\ a.gen = 1
  BY DEF SuperType
<1>t. EmptyMem \in MemType /\ [EmptyMem EXCEPT !.gen = 1] \in MemType
  <2>1. "idle" \in StepType
    BY DEF StepType
  <2>2. EmptyMem \in MemType
    BY <2>1, IdleTypes
  <2> QED
    BY <2>2 DEF MemType
<1>1. CASE NewestSuper.gen = 0 /\ FormatStep("down", "format", Slot(0))
  <2>1. /\ op.pc = "down" /\ faults' \in Nat /\ UNCHANGED <<issued, crashes, requests>>
        /\ mem' \in MemType
        /\ \/ Slot(0) /\ op' = NoOp("format")
           \/ op' = NoOp("down") /\ (Slot(0) \/ UNCHANGED <<disk, older>>)
    BY <1>1, <1>t DEF FormatStep, Fault, StoreTypeOK
  <2>2. disk.super[0] = NoSuper /\ disk.super[1] = NoSuper
    <3>1. disk.super[0].gen \in Nat /\ disk.super[1].gen \in Nat
      BY DEF StoreTypeOK, DiskType, SuperType
    <3>2. disk.super[0].gen = 0 /\ disk.super[1].gen = 0
      BY <1>1, <3>1 DEF NewestSuper
    <3> QED
      BY <3>2 DEF SupersRemember, Possible
  <2>3. /\ \A k \in 0 .. 1, s \in Slots : disk.bank[k][s] = NoEntry
        /\ \A j \in issued : j < SuperOf(disk.super[0], disk.super[1]).next
    BY <2>2 DEF SupersRemember, Possible, NoSuper
  <2>4. issued = {}
    BY <2>2, <2>3 DEF SuperOf, NoSuper, StoreTypeOK, Ids
  <2>5. \A k \in 0 .. 1 : disk.super[k].gen <= 1
    BY <2>2 DEF NoSuper
  <2>6. CASE Slot(0)
    <3>1. /\ disk' \in DiskType /\ OlderTypeOK' /\ disk'.bank = disk.bank
          /\ \A k \in 0 .. 1 : older'.bank[k] \subseteq older.bank[k]
          /\ \A j \in 0 .. 1 : j # 0 => disk'.super[j] = disk.super[j] /\ older'.super[j] \subseteq older.super[j]
          /\ disk'.super[0] = a
          /\ older'.super[0] \subseteq older.super[0] \cup {disk.super[0], a}
      BY <1>a, <2>6, WriteSuperSlot
    <3>2. disk'.super[0].gen = 1
      BY <1>a, <3>1
    <3>3. PICK pc \in {"down", "format", "formatted"} : op' = NoOp(pc)
      BY <2>1
    <3>4. \A k \in 0 .. 1 : \A c \in {disk'.super[k]} \cup older'.super[k] :
             c \in {disk.super[k]} \cup older.super[k] \/ c = [gen |-> 1, next |-> 1]
      BY <3>1
    <3> QED
      BY <2>1, <2>3, <2>4, <2>5, <3>1, <3>2, <3>3, <3>4, FormatFrame
  <2>7. CASE UNCHANGED <<disk, older>> /\ op' = NoOp("down")
    BY <2>1, <2>3, <2>4, <2>5, <2>7, FormatFrame DEF StoreTypeOK, OlderTypeOK
  <2> QED
    BY <2>1, <2>6, <2>7
<1>2. CASE FormatStep("format", "formatted", Slot(1))
  <2>1. /\ op.pc = "format" /\ faults' \in Nat /\ UNCHANGED <<issued, crashes, requests>>
        /\ mem' \in MemType
        /\ \/ Slot(1) /\ op' = NoOp("formatted")
           \/ op' = NoOp("down") /\ (Slot(1) \/ UNCHANGED <<disk, older>>)
    BY <1>2, <1>t DEF FormatStep, Fault, StoreTypeOK
  <2>2. /\ \A k \in 0 .. 1, s \in Slots : disk.bank[k][s] = NoEntry
        /\ issued = {} /\ disk.super[0].gen = 1 /\ \A k \in 0 .. 1 : disk.super[k].gen <= 1
    BY <2>1 DEF Formatting, Up
  <2>3. CASE Slot(1)
    <3>1. /\ disk' \in DiskType /\ OlderTypeOK' /\ disk'.bank = disk.bank
          /\ \A k \in 0 .. 1 : older'.bank[k] \subseteq older.bank[k]
          /\ \A j \in 0 .. 1 : j # 1 => disk'.super[j] = disk.super[j] /\ older'.super[j] \subseteq older.super[j]
          /\ disk'.super[1] = a
          /\ older'.super[1] \subseteq older.super[1] \cup {disk.super[1], a}
      BY <1>a, <2>3, WriteSuperSlot
    <3>2. disk'.super[0].gen = 1
      BY <2>2, <3>1
    <3>3. PICK pc \in {"down", "format", "formatted"} : op' = NoOp(pc)
      BY <2>1
    <3>4. \A k \in 0 .. 1 : \A c \in {disk'.super[k]} \cup older'.super[k] :
             c \in {disk.super[k]} \cup older.super[k] \/ c = [gen |-> 1, next |-> 1]
      BY <3>1
    <3> QED
      BY <2>1, <2>2, <3>1, <3>2, <3>3, <3>4, FormatFrame
  <2>4. CASE UNCHANGED <<disk, older>> /\ op' = NoOp("down")
    BY <2>1, <2>2, <2>4, FormatFrame DEF StoreTypeOK, OlderTypeOK
  <2> QED
    BY <2>1, <2>3, <2>4
<1>3. CASE FormatStep("formatted", "idle", older' = Clean /\ disk' = disk)
  <2>1. /\ op.pc = "formatted" /\ faults' \in Nat /\ UNCHANGED <<issued, crashes, requests, disk>>
        /\ mem' \in MemType /\ older' \in {older, Clean}
        /\ \/ older' = Clean /\ op' = NoOp("idle") /\ mem' = [EmptyMem EXCEPT !.gen = 1]
           \/ op' = NoOp("down")
    <3>1. NoOp("idle").pc = "idle"
      BY DEF NoOp
    <3> QED
      BY <1>3, <1>t, <3>1 DEF FormatStep, Fault, StoreTypeOK
  <2>2. /\ \A k \in 0 .. 1, s \in Slots : disk.bank[k][s] = NoEntry
        /\ issued = {} /\ disk.super[0].gen = 1 /\ \A k \in 0 .. 1 : disk.super[k].gen <= 1
    BY <2>1 DEF Formatting, Up
  <2>3. /\ OlderTypeOK' /\ older'.bank[0] = {} /\ older'.bank[1] = {}
        /\ \A k \in 0 .. 1 : older'.super[k] \subseteq older.super[k]
    BY <2>1, CleanOlder DEF OlderTypeOK, StoreTypeOK, BanksDurable
  <2>4. CASE op' = NoOp("down")
    <3>1. \A k \in 0 .. 1 : older'.bank[k] \subseteq older.bank[k]
      BY <2>3
    <3>2. disk' \in DiskType
      BY <2>1 DEF StoreTypeOK
    <3> QED
      BY <2>1, <2>2, <2>3, <2>4, <3>1, <3>2, FormatFrame
  <2>5. CASE older' = Clean /\ op' = NoOp("idle") /\ mem' = [EmptyMem EXCEPT !.gen = 1]
    <3>1. op' \in OpType /\ op'.pc = "idle" /\ Up' /\ op'.auto = FALSE
      BY <2>5, IdleTypes DEF StepType, Up
    <3>2. /\ mem'.gen = 1 /\ mem'.dir = EmptyMem.dir /\ mem'.next = 1
          /\ \A i \in Ids : mem'.cache[i] = 0
      BY <2>5 DEF EmptyMem
    <3>3. StoreTypeOK'
      BY <2>1, <2>3, <3>1 DEF StoreTypeOK
    <3>4. Current' = EmptyMem.dir /\ Survivable' = {Current'}
      <4>1. Current' = Current /\ Current = EmptyMem.dir
        BY <2>1, <2>2, EmptyBanks DEF Current, BanksDurable
      <4>2. Survivable' = {Current'}
        BY <2>3 DEF Survivable, Current, Possible
      <4> QED
        BY <4>1, <4>2
    <3>5. AllSound'
      <4>1. Live(EmptyMem.dir) = {}
        BY DEF EmptyMem, Live, NoEntry
      <4>2. Sound(disk'.block, older'.block, EmptyMem.dir)
        BY <4>1 DEF Sound
      <4> QED
        BY <3>4, <4>1, <4>2 DEF AllSound
    <3>6. MemAgrees'
      BY <3>2, <3>4 DEF MemAgrees
    <3>7. BanksDurable' /\ NoRequest' /\ Preparing' /\ Committing' /\ Finishing' /\ Formatting'
      BY <2>3, <2>5, <3>1 DEF BanksDurable, NoRequest, Preparing, Committing, Finishing, Formatting
    <3>8. older'.super[0] = {} /\ older'.super[1] = {}
      BY <2>5, CleanOlder
    <3>9. SupersRemember'
      BY <2>1, <2>2, <3>1, <3>8 DEF SupersRemember, Possible
    <3>10. CounterAhead'
      BY <2>1, <2>2, <3>1, <3>2, <3>8 DEF CounterAhead, Possible
    <3> QED
      BY <3>3, <3>5, <3>6, <3>7, <3>9, <3>10
  <2> QED
    BY <2>1, <2>4, <2>5
<1> QED
  BY <1>1, <1>2, <1>3 DEF Format

-----------------------------------------------------------------------------
(* Theorems.                                                               *)

LEMMA InitEstablishes == Init => StoreInvariant
<1> SUFFICES ASSUME Init PROVE StoreInvariant
  OBVIOUS
<1>1. op \in OpType /\ op.pc = "down" /\ mem \in MemType /\ ~Up
  BY IdleTypes DEF Init, StepType, Up
<1>2. /\ disk.bank = [k \in 0 .. 1 |-> [s \in Slots |-> NoEntry]]
      /\ disk.block = [b \in Blocks |-> Blank]
      /\ disk.super = [k \in 0 .. 1 |-> NoSuper]
  BY DEF Init
<1>3. disk \in DiskType
  <2>1. NoEntry \in EntryType /\ Blank \in BlockType /\ NoSuper \in SuperType
    BY StoreAssumption DEF NoEntry, EntryType, Blank, BlockType, NoSuper, SuperType, Contents
  <2> QED
    BY <1>2, <2>1 DEF Init, DiskType, BankType
<1>4. /\ OlderTypeOK
      /\ \A k \in 0 .. 1 : older.bank[k] = {} /\ older.super[k] = {}
  BY CleanOlder DEF Init, OlderTypeOK
<1>5. StoreTypeOK
  BY <1>1, <1>3, <1>4 DEF StoreTypeOK, Init
<1>6. \A k \in 0 .. 1, s \in Slots : disk.bank[k][s] = NoEntry
  BY <1>2
<1>7. AllSound
  BY <1>4, <1>6, EmptyBanks
<1>8. disk.super[0] = NoSuper /\ disk.super[1] = NoSuper /\ issued = {}
  BY <1>2 DEF Init
<1>9. SupersRemember
  BY <1>1, <1>4, <1>6, <1>8 DEF SupersRemember, Possible
<1>10. /\ BanksDurable /\ MemAgrees /\ NoRequest /\ Preparing /\ Committing /\ Finishing
       /\ CounterAhead /\ Formatting
  BY <1>1, <1>4 DEF BanksDurable, MemAgrees, NoRequest, Preparing, Committing, Finishing,
                    CounterAhead, Formatting, Init
<1> QED
  BY <1>5, <1>7, <1>9, <1>10 DEF StoreInvariant

LEMMA StepKeeps ==
  ASSUME CommitsAccepted, StoreInvariant, [Next]_vars
  PROVE  StoreInvariant'
<1>1. CASE UNCHANGED vars
  <2>1. Survivable' = Survivable /\ Current' = Current /\ (Up' <=> Up)
    BY <1>1 DEF vars, Survivable, Possible, Current, Up
  <2>2. StoreTypeOK' /\ AllSound' /\ MemAgrees' /\ SupersRemember' /\ CounterAhead'
    BY <1>1, <2>1 DEF vars, StoreInvariant, StoreTypeOK, OlderTypeOK, AllSound, MemAgrees,
                      SupersRemember, CounterAhead, Possible
  <2>3. BanksDurable' /\ NoRequest' /\ Finishing' /\ Formatting'
    BY <1>1, <2>1 DEF vars, StoreInvariant, BanksDurable, NoRequest, Finishing, Formatting
  <2>4. Preparing' /\ Committing'
    BY <1>1, <2>1 DEF vars, StoreInvariant, Preparing, Committing, DataWritten, HeaderWritten, Extents
  <2> QED
    BY <2>2, <2>3, <2>4 DEF StoreInvariant
<1>2. CASE Mount
  BY <1>2, MountKeeps
<1>3. CASE Format
  BY <1>3, FormatKeeps
<1>4. CASE Request
  BY <1>4, CreateAtKeeps, DeleteKeeps, WriteKeeps, CreateAutoKeeps, CreateAutoFullKeeps,
     ClientFlushKeeps DEF Request
<1>5. CASE Step
  BY <1>5, WriteDataKeeps, WriteHeaderKeeps, FlushContentsKeeps, WriteLocatorKeeps, CommitKeeps,
     ReleaseKeeps, WriteSuperKeeps, FlushSuperKeeps DEF Step
<1>6. CASE Crash
  BY <1>6, CrashKeeps
<1> QED
  BY <1>1, <1>2, <1>3, <1>4, <1>5, <1>6 DEF Next

\* The inductive invariant of the store, types included: at every step of
\* objstore.rs the directories a crash can leave locate whole, durable objects
\* that share nothing, and memory agrees with the device.
THEOREM StoreInvariantHolds ==
  ASSUME CommitsAccepted
  PROVE  Spec => []StoreInvariant
BY InitEstablishes, StepKeeps, PTL DEF Spec

\* What is located is kept: ReachableKept follows from the invariant.
LEMMA InvariantKeepsReachable ==
  ASSUME StoreInvariant
  PROVE  ReachableKept
<1> SUFFICES ASSUME NEW dir \in Survivable, NEW s \in Slots, dir[s].id # 0
             PROVE  Kept(dir[s]) /\ (Up => Reached(disk, dir[s]) \subseteq mem.used)
  BY DEF ReachableKept
<1>1. s \in Live(dir)
  BY DEF Live
<1>2. /\ Whole(disk.block, older.block, dir[s])
      /\ Up => Span(disk.block, dir[s]) \subseteq mem.used
  BY <1>1 DEF StoreInvariant, AllSound, Sound
<1> QED
  BY <1>2, WholeIsKept

LEMMA InvariantMounts ==
  ASSUME StoreInvariant
  PROVE  MountSucceeds
<1> SUFFICES ASSUME op.pc = "down" PROVE Mountable(disk)
  BY DEF MountSucceeds
<1>1. Sound(disk.block, older.block, Current)
  BY CurrentSurvives DEF StoreInvariant, AllSound
<1>2. \A s \in Live(Current) :
        /\ HeaderValid(disk, Current[s]) /\ Reached(disk, Current[s]) = Span(disk.block, Current[s])
        /\ Current[s].at \notin disk.block[Current[s].at].ext
  BY <1>1, WholeIsKept DEF Sound, Whole
<1>3. NewestDirectory(disk.bank[0], disk.bank[1]) = Current
  BY DEF Current
<1> QED
  BY <1>1, <1>2, <1>3, SMTT(30) DEF Mountable, Live, Sound

LEMMA InvariantIdsFresh ==
  ASSUME StoreInvariant
  PROVE  AutomaticIdsFresh
BY DEF StoreInvariant, CounterAhead, AutomaticIdsFresh, Up

\* Copy-on-write (objstore.rs:6) for any number of objects, blocks, requests
\* and crashes: whichever locators survive, what they lead to is whole, durable
\* and marked in use.
THEOREM ReachableAlwaysKept ==
  ASSUME CommitsAccepted
  PROVE  Spec => []ReachableKept
BY StoreInvariantHolds, InvariantKeepsReachable, PTL

\* No crash leaves a store that mount refuses.
THEOREM MountAlwaysSucceeds ==
  ASSUME CommitsAccepted
  PROVE  Spec => []MountSucceeds
BY StoreInvariantHolds, InvariantMounts, PTL

\* No automatic id is given out twice (objstore.rs:463).
THEOREM AutomaticIdsAlwaysFresh ==
  ASSUME CommitsAccepted
  PROVE  Spec => []AutomaticIdsFresh
BY StoreInvariantHolds, InvariantIdsFresh, PTL

-----------------------------------------------------------------------------
(* The store implements DurableObjects.                                    *)

\* What a directory says an object holds.
Held(blk, dir, i) ==
  IF Holders(dir, i) = {} THEN Nil ELSE blk[dir[First(Holders(dir, i))].at].val

\* Reads are exact: no index or cache shows anything but the directory, and
\* nothing that is located is damaged.
ReadsExact ==
  \A i \in Ids :
    /\ ReadOf(i) = Held(disk.block, Current, i)
    /\ ReadAfterCrash(i) = {Held(disk.block, dir, i) : dir \in Survivable}

LEMMA SoleHolder ==
  ASSUME NEW blk, NEW old, NEW dir, Sound(blk, old, dir), NEW i \in Ids,
         NEW s \in Slots, dir[s].id = i
  PROVE  /\ Holders(dir, i) = {s} /\ First(Holders(dir, i)) = s
         /\ Held(blk, dir, i) = blk[dir[s].at].val
<1>1. i # 0 /\ s \in Live(dir)
  BY DEF Live, Ids
<1>2. \A t \in Slots : dir[t].id = i => t = s
  BY <1>1 DEF Sound, Live
<1>3. Holders(dir, i) = {s} /\ First(Holders(dir, i)) = s
  <2>1. Holders(dir, i) = {s}
    BY <1>2 DEF Holders
  <2>2. {s} \in SUBSET Nat
    BY StoreAssumption
  <2>3. First({s}) \in {s}
    BY <2>2, FirstLeast
  <2> QED
    BY <2>1, <2>3
<1> QED
  BY <1>3 DEF Held

LEMMA NoHolder ==
  ASSUME NEW blk, NEW dir, NEW i, \A s \in Slots : dir[s].id # i
  PROVE  Holders(dir, i) = {} /\ Held(blk, dir, i) = Nil
BY DEF Holders, Held

LEMMA ReadsAre == StoreInvariant => ReadsExact
<1> SUFFICES ASSUME StoreInvariant, NEW i \in Ids
             PROVE  /\ ReadOf(i) = Held(disk.block, Current, i)
                    /\ ReadAfterCrash(i) = {Held(disk.block, dir, i) : dir \in Survivable}
  BY DEF ReadsExact
<1>1. \A dir \in Survivable : Sound(disk.block, older.block, dir)
  BY DEF StoreInvariant, AllSound
<1>2. ASSUME NEW dir \in Survivable, NEW s \in Slots, dir[s].id = i
      PROVE  /\ First(Holders(dir, i)) = s /\ Holders(dir, i) # {}
             /\ Held(disk.block, dir, i) = disk.block[dir[s].at].val
             /\ Kept(dir[s]) /\ Intact(disk, dir[s])
  <2>1. Sound(disk.block, older.block, dir)
    BY <1>1
  <2>2. s \in Live(dir)
    BY <1>2 DEF Live, Ids
  <2>3. Kept(dir[s])
    BY <2>1, <2>2, WholeIsKept DEF Sound
  <2>4. /\ Holders(dir, i) = {s} /\ First(Holders(dir, i)) = s
        /\ Held(disk.block, dir, i) = disk.block[dir[s].at].val
    BY <1>2, <2>1, SoleHolder
  <2> QED
    BY <2>3, <2>4 DEF Kept
<1>3. \A dir : Holders(dir, i) # {} => \E s \in Slots : dir[s].id = i
  BY DEF Holders
<1>4. ReadAfterCrash(i) = {Held(disk.block, dir, i) : dir \in Survivable}
  <2>1. ASSUME NEW dir \in Survivable
        PROVE  Held(disk.block, dir, i) =
                 IF Holders(dir, i) = {} THEN Nil
                 ELSE LET e == dir[First(Holders(dir, i))]
                      IN  IF Kept(e) THEN disk.block[e.at].val ELSE Damaged
    <3>1. CASE Holders(dir, i) = {}
      BY <3>1 DEF Held
    <3>2. CASE Holders(dir, i) # {}
      <4>1. PICK s \in Slots : dir[s].id = i
        BY <1>3, <3>2
      <4> QED
        BY <1>2, <3>2, <4>1
    <3> QED
      BY <3>1, <3>2
  <2> QED
    BY <2>1 DEF ReadAfterCrash
<1>5. ReadOf(i) = Held(disk.block, Current, i)
  <2> DEFINE dir == IF Up THEN mem.dir ELSE NewestDirectory(disk.bank[0], disk.bank[1])
             s == IF op.pc = "idle" THEN FindIndex(i)
                  ELSE IF Holders(dir, i) = {} THEN 0 ELSE First(Holders(dir, i))
  <2>1. dir = Current
    BY DEF StoreInvariant, MemAgrees, Current
  <2>2. Current \in Survivable
    BY CurrentSurvives
  <2>3. ReadOf(i) = IF s = 0 THEN Nil
                    ELSE IF Intact(disk, dir[s]) THEN disk.block[dir[s].at].val ELSE Damaged
    BY DEF ReadOf
  <2>4. 0 \notin Slots
    BY StoreAssumption
  <2> HIDE DEF dir
  <2>5. (s = 0 /\ \A t \in Slots : Current[t].id # i) \/ (s \in Slots /\ Current[s].id = i)
    <3>1. CASE op.pc = "idle"
      <4>1. mem.dir = Current
        BY <3>1 DEF StoreInvariant, MemAgrees, Up
      <4> QED
        BY <3>1, <4>1, FindIndexFinds
    <3>2. CASE op.pc # "idle" /\ Holders(dir, i) = {}
      BY <2>1, <3>2 DEF Holders
    <3>3. CASE op.pc # "idle" /\ Holders(dir, i) # {}
      <4>1. PICK t \in Slots : Current[t].id = i
        BY <1>3, <2>1, <3>3
      <4>2. First(Holders(Current, i)) = t
        BY <1>2, <2>2, <4>1
      <4> QED
        BY <2>1, <3>3, <4>1, <4>2
    <3> QED
      BY <3>1, <3>2, <3>3
  <2> HIDE DEF s
  <2>6. CASE s = 0 /\ \A t \in Slots : Current[t].id # i
    BY <2>3, <2>6, NoHolder
  <2>7. CASE s \in Slots /\ Current[s].id = i
    <3>1. s # 0 /\ Intact(disk, Current[s]) /\ Held(disk.block, Current, i) = disk.block[Current[s].at].val
      BY <1>2, <2>2, <2>4, <2>7
    <3> QED
      BY <2>1, <2>3, <3>1
  <2> QED
    BY <2>5, <2>6, <2>7
<1> QED
  BY <1>4, <1>5

LEMMA HeldFrame ==
  ASSUME NEW blk, NEW old, NEW blk2, NEW dir, Sound(blk, old, dir), NEW i \in Ids,
         \A s \in Live(dir) : blk2[dir[s].at] = blk[dir[s].at]
  PROVE  Held(blk2, dir, i) = Held(blk, dir, i)
<1>1. CASE Holders(dir, i) = {}
  BY <1>1 DEF Held
<1>2. CASE Holders(dir, i) # {}
  <2>1. PICK s \in Slots : dir[s].id = i
    BY <1>2 DEF Holders
  <2>2. s \in Live(dir)
    BY <2>1 DEF Live, Ids
  <2>3. First(Holders(dir, i)) = s
    BY <2>1, SoleHolder
  <2> QED
    BY <1>2, <2>2, <2>3 DEF Held
<1> QED
  BY <1>1, <1>2

\* The mapping of the refinement.
CurrentMap == [i \in Ids |-> ReadOf(i)]
DoubtMap == [i \in Ids |-> ReadAfterCrash(i)]
RequestMap == IF op.kind = "none" THEN {} ELSE {[id |-> op.id, to |-> op.val]}

MapsExact ==
  /\ CurrentMap = [i \in Ids |-> Held(disk.block, Current, i)]
  /\ DoubtMap = [i \in Ids |-> {Held(disk.block, dir, i) : dir \in Survivable}]
  /\ op.pc # "commit" => DoubtMap = [i \in Ids |-> {CurrentMap[i]}]

LEMMA MapsAre == StoreInvariant => MapsExact
<1> SUFFICES ASSUME StoreInvariant PROVE MapsExact
  OBVIOUS
<1>1. ReadsExact
  BY ReadsAre
<1>2. /\ CurrentMap = [i \in Ids |-> Held(disk.block, Current, i)]
      /\ DoubtMap = [i \in Ids |-> {Held(disk.block, dir, i) : dir \in Survivable}]
  BY <1>1 DEF ReadsExact, CurrentMap, DoubtMap
<1>3. op.pc # "commit" => Survivable = {Current}
  BY DurableBanks DEF StoreInvariant, BanksDurable
<1> QED
  BY <1>2, <1>3 DEF MapsExact

LEMMA MapsAreNext == StoreInvariant' => MapsExact'
BY MapsAre, PTL

\* A step that leaves the directory and the headers it locates alone changes
\* no object.
LEMMA SteadyReads ==
  ASSUME StoreInvariant, StoreInvariant', op.pc # "commit", op'.pc # "commit", Current' = Current,
         \A s \in Live(Current) : disk'.block[Current[s].at] = disk.block[Current[s].at]
  PROVE  CurrentMap' = CurrentMap /\ DoubtMap' = DoubtMap
<1> DEFINE blk2 == disk'.block
           dir == Current
<1>1. Sound(disk.block, older.block, dir)
  BY CurrentSurvives DEF StoreInvariant, AllSound
<1>2. \A s \in Live(dir) : blk2[dir[s].at] = disk.block[dir[s].at]
  OBVIOUS
<1> HIDE DEF blk2, dir
<1>3. \A i \in Ids : Held(blk2, dir, i) = Held(disk.block, dir, i)
  BY <1>1, <1>2, HeldFrame
<1>4. MapsExact /\ MapsExact'
  BY MapsAre, MapsAreNext
<1>5. CurrentMap' = CurrentMap
  BY <1>3, <1>4 DEF MapsExact, blk2, dir
<1> QED
  BY <1>4, <1>5 DEF MapsExact

LEMMA UntouchedReads ==
  ASSUME StoreInvariant, StoreInvariant', Up, op.pc # "commit", op'.pc # "commit", Untouched
  PROVE  CurrentMap' = CurrentMap /\ DoubtMap' = DoubtMap
<1>1. mem.dir = Current
  BY DirectorySound
<1>2. Current' = Current
  BY BanksFrame DEF Untouched
<1>3. \A s \in Live(Current) : disk'.block[Current[s].at] = disk.block[Current[s].at]
  BY <1>1 DEF Untouched, Span
<1> QED
  BY <1>2, <1>3, SteadyReads

LEMMA SameDiskReads ==
  ASSUME StoreInvariant, StoreInvariant', op.pc # "commit", op'.pc # "commit",
         disk'.bank = disk.bank, disk'.block = disk.block
  PROVE  CurrentMap' = CurrentMap /\ DoubtMap' = DoubtMap
<1>1. Current' = Current
  BY DEF Current
<1> QED
  BY <1>1, SteadyReads

\* The shapes of a step of DurableObjects.
LEMMA Stutters ==
  ASSUME CurrentMap' = CurrentMap, DoubtMap' = DoubtMap, RequestMap' = RequestMap, reply' = reply
  PROVE  UNCHANGED Objects!vars
BY DEF Objects!vars, CurrentMap, DoubtMap, RequestMap

LEMMA Begins ==
  ASSUME CurrentMap' = CurrentMap, DoubtMap' = DoubtMap, reply' = "none",
         NEW i \in Ids, NEW v \in Contents, RequestMap = {}, RequestMap' = {[id |-> i, to |-> v]}
  PROVE  Objects!Next
<1>1. [id |-> i, to |-> v] \in Objects!Request
  BY DEF Objects!Request, Contents
<1>2. Objects!Begin([id |-> i, to |-> v])
  BY DEF Objects!Begin, CurrentMap, DoubtMap, RequestMap
<1> QED
  BY <1>1, <1>2 DEF Objects!Next

LEMMA Fails ==
  ASSUME CurrentMap' = CurrentMap, DoubtMap' = DoubtMap, RequestMap # {}, RequestMap' = {},
         reply' = "failed"
  PROVE  Objects!Next
<1>1. Objects!Fail
  BY SMTT(30) DEF Objects!Fail, CurrentMap, DoubtMap, RequestMap
<1> QED
  BY <1>1 DEF Objects!Next

LEMMA Succeeds ==
  ASSUME CurrentMap' = CurrentMap, DoubtMap' = [i \in Ids |-> {CurrentMap[i]}],
         op.kind # "none", CurrentMap[op.id] = op.val, RequestMap' = {}, reply' = "ok"
  PROVE  Objects!Next
<1> DEFINE r == [id |-> op.id, to |-> op.val]
<1>1. RequestMap = {r}
  BY DEF RequestMap
<1>2. Objects!Succeed(r)
  BY DEF Objects!Succeed, Objects!NoDoubt, CurrentMap, DoubtMap, RequestMap
<1> QED
  BY <1>1, <1>2 DEF Objects!Next, RequestMap

\* A request begins: the record of the request is all that changes.
LEMMA RequestImplements ==
  ASSUME StoreInvariant, StoreInvariant', Request
  PROVE  Objects!Next \/ UNCHANGED Objects!vars
<1>1. op.pc = "idle" /\ Up /\ op.kind = "none" /\ RequestMap = {}
  <2>1. op.pc = "idle"
    BY DEF Request, CreateAt, CreateAuto, CreateAutoFull, Write, Delete, ClientFlush, Admit
  <2> QED
    BY <2>1, SMTT(30) DEF StoreInvariant, NoRequest, NoOp, Up, RequestMap
<1>2. ASSUME NEW i \in Ids, NEW v \in Contents, op'.id = i, op'.val = v, op'.kind # "none",
             op'.pc # "commit", UNCHANGED disk, reply' = "none"
      PROVE  Objects!Next
  <2>1. CurrentMap' = CurrentMap /\ DoubtMap' = DoubtMap
    BY <1>1, <1>2, SameDiskReads
  <2>2. RequestMap' = {[id |-> i, to |-> v]}
    BY <1>2 DEF RequestMap
  <2> QED
    BY <1>1, <1>2, <2>1, <2>2, Begins
<1>3. ASSUME NEW i \in Ids, NEW auto, Admit, Create(i, auto) PROVE Objects!Next
  <2>1. /\ op'.id = i /\ op'.val = Empty /\ op'.kind = "create" /\ op'.pc = "header"
        /\ UNCHANGED disk /\ reply' = "none"
    BY <1>3 DEF Create, Admit, NoOp
  <2> QED
    BY <1>2, <2>1, StoreAssumption DEF Contents
<1>4. CASE \E i \in Requested : CreateAt(i)
  BY <1>3, <1>4, StoreAssumption DEF CreateAt
<1>5. CASE CreateAuto
  BY <1>3, <1>5, FirstCandidate DEF CreateAuto
<1>6. ASSUME NEW i \in Ids, Delete(i) PROVE Objects!Next
  <2>1. /\ op'.id = i /\ op'.val = Nil /\ op'.kind = "delete" /\ op'.pc = "locator"
        /\ UNCHANGED disk /\ reply' = "none"
    BY <1>6 DEF Delete, Admit, NoOp
  <2> QED
    BY <1>2, <2>1 DEF Contents
<1>7. ASSUME NEW i \in Ids, NEW v \in Values, Write(i, v) PROVE Objects!Next
  <2>1. /\ op'.id = i /\ op'.val = v /\ op'.kind = "write" /\ op'.pc \in {"header", "data"}
        /\ UNCHANGED disk /\ reply' = "none"
    BY <1>7 DEF Write, Admit, NoOp
  <2> QED
    BY <1>2, <2>1 DEF Contents
<1>8. CASE CreateAutoFull \/ ClientFlush
  <2>1. UNCHANGED <<op, disk>> /\ reply' \in {"ok", "failed"}
    BY <1>8 DEF CreateAutoFull, ClientFlush, Admit, Flushed, NotFlushed
  <2>2. CurrentMap' = CurrentMap /\ DoubtMap' = DoubtMap
    BY <1>1, <2>1, SameDiskReads
  <2>3. RequestMap' = {}
    BY <1>1, <2>1 DEF RequestMap
  <2>4. DoubtMap' = [i \in Ids |-> {CurrentMap[i]}]
    BY <1>1, <2>2, MapsAre DEF MapsExact
  <2>5. CASE reply' = "ok"
    <3>1. Objects!Sync
      BY <1>1, <2>2, <2>3, <2>4, <2>5 DEF Objects!Sync, Objects!NoDoubt, CurrentMap, DoubtMap, RequestMap
    <3> QED
      BY <3>1 DEF Objects!Next
  <2>6. CASE reply' = "failed"
    <3>1. Objects!Refuse
      BY <1>1, <2>2, <2>3, <2>6 DEF Objects!Refuse, CurrentMap, DoubtMap, RequestMap
    <3> QED
      BY <3>1 DEF Objects!Next
  <2> QED
    BY <2>1, <2>5, <2>6
<1> QED
  BY <1>4, <1>5, <1>6, <1>7, <1>8, SMTT(30) DEF Request

\* Between the commit and its answer the object reads as the request asked.
Fulfilled ==
  op.pc \in {"release", "super", "persist"} => op.id \in Ids /\ CurrentMap[op.id] = op.val

\* Steps before the locator and after the commit: a stutter, or the request is
\* answered, with success only when it has been fulfilled.
LEMMA QuietStepImplements ==
  ASSUME StoreInvariant, StoreInvariant', Untouched,
         op.pc \in {"data", "header", "flush", "release", "super", "persist"},
         \/ op' = NoOp("idle") /\ reply' = "failed"
         \/ op' = NoOp("idle") /\ reply' = "ok" /\ CurrentMap[op.id] = op.val
         \/ /\ \E pc \in {"header", "flush", "locator", "persist"} : op' = [op EXCEPT !.pc = pc]
            /\ reply' = reply
  PROVE  Objects!Next \/ UNCHANGED Objects!vars
<1>1. Up /\ op \in OpType /\ op.kind # "none"
  BY DEF Up, StoreInvariant, StoreTypeOK, Preparing, Finishing
<1>2. CASE op' = NoOp("idle")
  <2>1. op'.pc = "idle" /\ op'.kind = "none"
    BY <1>2 DEF NoOp
  <2>2. CurrentMap' = CurrentMap /\ DoubtMap' = DoubtMap
    BY <1>1, <2>1, UntouchedReads
  <2>3. RequestMap # {} /\ RequestMap' = {}
    BY <1>1, <2>1 DEF RequestMap
  <2>4. CASE reply' = "failed"
    BY <2>2, <2>3, <2>4, Fails
  <2>5. CASE reply' = "ok" /\ CurrentMap[op.id] = op.val
    <3>1. DoubtMap' = [i \in Ids |-> {CurrentMap[i]}]
      BY <2>2, MapsAre DEF MapsExact
    <3> QED
      BY <1>1, <2>2, <2>3, <2>5, <3>1, Succeeds
  <2>6. op'.pc = "idle" /\ \A pc \in {"header", "flush", "locator", "persist"} : op' # [op EXCEPT !.pc = pc]
    BY <1>1, <2>1 DEF OpType
  <2> QED
    BY <2>4, <2>5, <2>6
<1>3. CASE /\ \E pc \in {"header", "flush", "locator", "persist"} : op' = [op EXCEPT !.pc = pc]
           /\ reply' = reply
  <2>1. /\ op'.pc # "commit" /\ op'.kind = op.kind /\ op'.id = op.id /\ op'.val = op.val
    BY <1>1, <1>3 DEF OpType
  <2>2. CurrentMap' = CurrentMap /\ DoubtMap' = DoubtMap
    BY <1>1, <2>1, UntouchedReads
  <2>3. RequestMap' = RequestMap
    BY <2>1 DEF RequestMap
  <2> QED
    BY <1>3, <2>2, <2>3, Stutters
<1> QED
  BY <1>2, <1>3

\* The locator makes the new contents current, and puts the object in doubt.
LEMMA WriteLocatorImplements ==
  ASSUME StoreInvariant, CommitsAccepted, WriteLocator
  PROVE  Objects!Next
<1> DEFINE new == [mem.dir EXCEPT ![op.slot] = op.entry]
           r == [id |-> op.id, to |-> op.val]
<1>1. /\ op.pc = "locator" /\ op \in OpType /\ Up /\ op.slot \in Slots /\ op.id \in Ids
      /\ mem.dir \in BankType /\ op.kind # "none" /\ mem.dir = Current
  <2>1. op.pc = "locator" /\ Up
    BY DEF WriteLocator, Up
  <2> QED
    BY <2>1, DirectorySound DEF StoreInvariant, StoreTypeOK, MemType, Preparing
<1>2. /\ StoreInvariant' /\ disk'.block = disk.block /\ Current' = new
      /\ Survivable' = {mem.dir, new} /\ op' = [op EXCEPT !.pc = "commit"]
  BY WriteLocatorKeeps
<1>3. /\ Sound(disk.block, older.block, mem.dir)
      /\ Sound(disk.block, older.block, new)
  BY <1>1, LocatorSound, DirectorySound
<1>4. \A s \in Slots : new[s] = IF s = op.slot THEN op.entry ELSE mem.dir[s]
  BY <1>1 DEF BankType
<1> HIDE DEF new
<1>5. RequestMap = {r} /\ RequestMap' = RequestMap /\ reply' = reply
  <2>1. reply' = reply
    BY DEF WriteLocator, Rejected, Fault, CommitsAccepted
  <2> QED
    BY <1>1, <1>2, <2>1 DEF RequestMap, OpType
<1>6. Held(disk.block, new, op.id) = op.val
  <2>1. CASE op.kind = "delete"
    <3>1. /\ op.entry.id = 0 /\ op.val = Nil /\ mem.dir[op.slot].id = op.id /\ op.id # 0
          /\ op.slot \in Live(mem.dir)
      BY <1>1, <2>1 DEF StoreInvariant, Preparing, Live, Ids
    <3>2. \A s \in Slots : s # op.slot => mem.dir[s].id # op.id
      BY <1>3, <3>1 DEF Sound, Live
    <3>3. \A s \in Slots : new[s].id # op.id
      BY <1>4, <3>1, <3>2
    <3> QED
      BY <3>1, <3>3, NoHolder
  <2>2. CASE op.kind # "delete"
    <3>1. op.entry.id = op.id /\ HeaderWritten
      BY <1>1, <2>2 DEF StoreInvariant, Preparing
    <3>2. disk.block[op.entry.at].val = op.val
      BY <3>1 DEF HeaderWritten, Header
    <3>3. new[op.slot] = op.entry
      BY <1>1, <1>4
    <3>4. Held(disk.block, new, op.id) = disk.block[new[op.slot].at].val
      BY <1>1, <1>3, <3>1, <3>3, SoleHolder
    <3> QED
      BY <3>2, <3>3, <3>4
  <2> QED
    BY <2>1, <2>2
<1>7. \A i \in Ids : i # op.id => Held(disk.block, new, i) = Held(disk.block, mem.dir, i)
  <2> SUFFICES ASSUME NEW i \in Ids, i # op.id
               PROVE  Held(disk.block, new, i) = Held(disk.block, mem.dir, i)
    OBVIOUS
  <2>1. i # 0 /\ mem.dir[op.slot].id \in {0, op.id} /\ op.entry.id \in {0, op.id}
    BY <1>1 DEF StoreInvariant, Preparing, Ids
  <2>2. CASE \E s \in Slots : mem.dir[s].id = i
    <3>1. PICK s \in Slots : mem.dir[s].id = i
      BY <2>2
    <3>2. s # op.slot /\ new[s] = mem.dir[s]
      BY <1>4, <2>1, <3>1
    <3>3. Held(disk.block, mem.dir, i) = disk.block[mem.dir[s].at].val
      BY <1>3, <3>1, SoleHolder
    <3>4. Held(disk.block, new, i) = disk.block[new[s].at].val
      BY <1>3, <3>1, <3>2, SoleHolder
    <3> QED
      BY <3>2, <3>3, <3>4
  <2>3. CASE \A s \in Slots : mem.dir[s].id # i
    <3>1. \A s \in Slots : new[s].id # i
      BY <1>4, <2>1, <2>3
    <3> QED
      BY <2>3, <3>1, NoHolder
  <2> QED
    BY <2>2, <2>3
<1>8. MapsExact /\ MapsExact'
  BY <1>2, MapsAre, MapsAreNext
<1>9. CurrentMap' = [CurrentMap EXCEPT ![op.id] = op.val]
  <2>1. /\ CurrentMap = [i \in Ids |-> Held(disk.block, mem.dir, i)]
        /\ CurrentMap' = [i \in Ids |-> Held(disk.block, new, i)]
    BY <1>1, <1>2, <1>8 DEF MapsExact
  <2> QED
    BY <1>1, <1>6, <1>7, <2>1
<1>10. DoubtMap' = [DoubtMap EXCEPT ![op.id] = @ \cup {op.val}]
  <2>1. DoubtMap = [i \in Ids |-> {Held(disk.block, mem.dir, i)}]
    BY <1>1, <1>8 DEF MapsExact
  <2>2. DoubtMap' = [i \in Ids |-> {Held(disk.block, mem.dir, i), Held(disk.block, new, i)}]
    <3>1. DoubtMap' = [i \in Ids |-> {Held(disk.block, dir, i) : dir \in {mem.dir, new}}]
      BY <1>2, <1>8 DEF MapsExact
    <3> QED
      BY <3>1
  <2> QED
    BY <1>1, <1>6, <1>7, <2>1, <2>2
<1>11. Objects!Apply(r)
  BY <1>5, <1>9, <1>10 DEF Objects!Apply, CurrentMap, DoubtMap, RequestMap
<1> QED
  BY <1>5, <1>11 DEF Objects!Next, RequestMap

\* The second flush leaves no doubt about what is current, and what the
\* request asked for is current.  A plain create is then answered; the other
\* requests have a step to go.
LEMMA CommitImplements ==
  ASSUME StoreInvariant, CommitsAccepted, Commit
  PROVE  Objects!Next /\ Fulfilled'
<1>1. /\ op.pc = "commit" /\ op \in OpType /\ Up /\ op.slot \in Slots /\ op.id \in Ids
      /\ mem.dir = Current /\ mem.dir[op.slot] = op.entry /\ op.kind # "none"
  <2>1. op.pc = "commit" /\ Up
    BY DEF Commit, Up
  <2> QED
    BY <2>1, DirectorySound DEF StoreInvariant, StoreTypeOK, Committing
<1>2. StoreInvariant' /\ disk' = disk /\ Current' = Current
  BY <1>1, CommitKeeps
<1>3. /\ op' = IF op.kind # "create" THEN [op EXCEPT !.pc = "release"]
               ELSE IF op.auto THEN [op EXCEPT !.pc = "super"] ELSE NoOp("idle")
      /\ reply' = IF op.kind = "create" /\ ~op.auto THEN "ok" ELSE reply
  BY <1>1 DEF Commit, Committed, NotFlushed, Fault, CommitsAccepted
<1>4. op'.pc # "commit"
  BY <1>1, <1>3 DEF NoOp, OpType
<1>5. MapsExact /\ MapsExact'
  BY <1>2, MapsAre, MapsAreNext
<1>6. CurrentMap' = CurrentMap
  BY <1>2, <1>5 DEF MapsExact
<1>7. DoubtMap' = [i \in Ids |-> {CurrentMap[i]}]
  BY <1>4, <1>5, <1>6 DEF MapsExact
<1>8. CurrentMap[op.id] = op.val
  <2>1. Held(disk.block, mem.dir, op.id) = op.val
    <3>1. CASE op.kind \in {"create", "write"} /\ op.entry.id = op.id /\ HeaderWritten
      <4>1. Sound(disk.block, older.block, mem.dir)
        BY <1>1, DirectorySound
      <4>2. Held(disk.block, mem.dir, op.id) = disk.block[mem.dir[op.slot].at].val
        BY <1>1, <3>1, <4>1, SoleHolder
      <4>3. disk.block[op.entry.at].val = op.val
        BY <3>1 DEF HeaderWritten, Header
      <4> QED
        BY <1>1, <4>2, <4>3
    <3>2. CASE op.val = Nil /\ \A s \in Slots : mem.dir[s].id # op.id
      BY <3>2, NoHolder
    <3> QED
      BY <1>1, <3>1, <3>2 DEF StoreInvariant, Committing
  <2> QED
    BY <1>1, <1>5, <2>1 DEF MapsExact
<1>9. CASE op.kind # "create" \/ op.auto
  <2>1. op'.id = op.id /\ op'.val = op.val /\ op'.kind = op.kind /\ reply' = reply
    BY <1>1, <1>3, <1>9 DEF OpType
  <2>2. RequestMap' = RequestMap
    BY <2>1 DEF RequestMap
  <2>3. Objects!Settle
    BY <1>6, <1>7, <2>1, <2>2 DEF Objects!Settle, Objects!NoDoubt, CurrentMap, DoubtMap, RequestMap
  <2>4. Fulfilled'
    BY <1>1, <1>6, <1>8, <2>1 DEF Fulfilled
  <2> QED
    BY <2>3, <2>4 DEF Objects!Next
<1>10. CASE op.kind = "create" /\ ~op.auto
  <2>1. RequestMap' = {} /\ reply' = "ok" /\ op'.pc = "idle"
    BY <1>3, <1>10 DEF RequestMap, NoOp
  <2>2. Objects!Next
    BY <1>1, <1>6, <1>7, <1>8, <2>1, Succeeds
  <2>3. Fulfilled'
    BY <2>1 DEF Fulfilled
  <2> QED
    BY <2>2, <2>3
<1> QED
  BY <1>9, <1>10

\* Every directory a crash may leave behind holds values or nothing.
LEMMA HeldType ==
  ASSUME StoreInvariant, NEW dir \in Survivable, NEW i \in Ids
  PROVE  Held(disk.block, dir, i) \in Contents
<1>1. Sound(disk.block, older.block, dir) /\ disk.block \in [Blocks -> BlockType]
  BY DEF StoreInvariant, AllSound, StoreTypeOK, DiskType
<1>2. CASE \A s \in Slots : dir[s].id # i
  BY <1>2, NoHolder DEF Contents
<1>3. CASE \E s \in Slots : dir[s].id = i
  <2>1. PICK s \in Slots : dir[s].id = i
    BY <1>3
  <2>2. s \in Live(dir)
    BY <2>1 DEF Live, Ids
  <2>3. dir[s].at \in Blocks
    BY <1>1, <2>2 DEF Sound, Whole
  <2>4. Held(disk.block, dir, i) = disk.block[dir[s].at].val
    BY <1>1, <2>1, SoleHolder
  <2> QED
    BY <1>1, <2>3, <2>4 DEF BlockType
<1> QED
  BY <1>2, <1>3

\* A crash leaves each object with contents it was in doubt about.
LEMMA CrashImplements ==
  ASSUME StoreInvariant, Crash
  PROVE  Objects!Next
<1> DEFINE new == Current'
           blk2 == disk'.block
<1>1. StoreInvariant'
  BY CrashKeeps
<1>2. op' = NoOp("down") /\ op'.pc = "down" /\ RequestMap' = {} /\ reply' = "none"
  BY DEF Crash, NoOp, RequestMap
<1>3. /\ \A k \in 0 .. 1 : disk'.bank[k] \in {disk.bank[k]} \cup older.bank[k]
      /\ \A b \in Blocks : disk'.block[b] \in {disk.block[b]} \cup older.block[b]
  BY CrashDisk
<1>4. new \in Survivable
  <2>1. disk'.bank[0] \in Possible("bank", 0) /\ disk'.bank[1] \in Possible("bank", 1)
    BY <1>3 DEF Possible
  <2> QED
    BY <2>1 DEF Survivable, Current
<1>5. Sound(disk.block, older.block, new)
  BY <1>4 DEF StoreInvariant, AllSound
<1>6. \A s \in Live(new) : blk2[new[s].at] = disk.block[new[s].at]
  <2> SUFFICES ASSUME NEW s \in Live(new) PROVE blk2[new[s].at] = disk.block[new[s].at]
    OBVIOUS
  <2>1. Whole(disk.block, older.block, new[s])
    BY <1>5 DEF Sound
  <2>2. new[s].at \in Blocks /\ older.block[new[s].at] = {}
    BY <2>1 DEF Whole, Span
  <2> QED
    BY <1>3, <2>2
<1>7. MapsExact /\ MapsExact'
  BY <1>1, MapsAre, MapsAreNext
<1>8. CurrentMap' = [i \in Ids |-> Held(blk2, new, i)]
  BY <1>7 DEF MapsExact
<1>9. DoubtMap' = [i \in Ids |-> {CurrentMap'[i]}]
  BY <1>2, <1>7 DEF MapsExact
<1>10. DoubtMap = [i \in Ids |-> {Held(disk.block, dir, i) : dir \in Survivable}]
  BY <1>7 DEF MapsExact
<1> HIDE DEF new, blk2
<1>11. \A i \in Ids : Held(blk2, new, i) = Held(disk.block, new, i)
  BY <1>5, <1>6, HeldFrame
<1>12. \A i \in Ids : CurrentMap'[i] \in Contents /\ CurrentMap'[i] \in DoubtMap[i]
  BY <1>4, <1>8, <1>10, <1>11, HeldType
<1>13. CurrentMap' \in {f \in [Ids -> Values \cup {Nil}] : \A i \in Ids : f[i] \in DoubtMap[i]}
  BY <1>8, <1>12 DEF Contents
<1>14. Objects!Crash
  BY <1>2, <1>9, <1>13 DEF Objects!Crash, CurrentMap, DoubtMap, RequestMap
<1> QED
  BY <1>14 DEF Objects!Next

\* Mounting and formatting change nothing that clients see.
LEMMA StartImplements ==
  ASSUME StoreInvariant, StoreInvariant', Mount \/ Format
  PROVE  UNCHANGED Objects!vars
<1>1. op.pc \in {"down", "format", "formatted"} /\ op.kind = "none"
  <2>1. op.pc \in {"down", "format", "formatted"}
    BY DEF Mount, Format, FormatStep
  <2> QED
    BY <2>1 DEF StoreInvariant, NoRequest, NoOp
<1>2. \E pc \in {"down", "format", "formatted", "idle"} : op' = NoOp(pc)
  BY DEF Mount, Format, FormatStep
<1>3. op'.kind = "none" /\ op'.pc # "commit"
  BY <1>2 DEF NoOp
<1>4. disk'.bank = disk.bank /\ disk'.block = disk.block
  <2>1. disk \in DiskType
    BY DEF StoreInvariant, StoreTypeOK
  <2>2. \/ disk' = disk
        \/ \E k \in 0 .. 1 : disk' = [disk EXCEPT !.super[k] = [gen |-> 1, next |-> 1]]
    BY DEF Mount, Format, FormatStep, Store
  <2> QED
    BY <2>1, <2>2 DEF DiskType
<1>5. CurrentMap' = CurrentMap /\ DoubtMap' = DoubtMap
  BY <1>1, <1>3, <1>4, SameDiskReads
<1>6. RequestMap' = RequestMap /\ reply' = reply
  BY <1>1, <1>3 DEF RequestMap, Mount, Format, FormatStep
<1> QED
  BY <1>5, <1>6, Stutters

LEMMA ServiceStepImplements ==
  ASSUME StoreInvariant, Fulfilled, CommitsAccepted, Step
  PROVE  Objects!Next \/ UNCHANGED Objects!vars
<1>1. CASE WriteData
  BY <1>1, WriteDataKeeps, QuietStepImplements DEF WriteData, GoTo, Abandon, Done
<1>2. CASE WriteHeader
  BY <1>2, WriteHeaderKeeps, QuietStepImplements DEF WriteHeader, GoTo, Abandon, Done
<1>3. CASE FlushContents
  BY <1>3, FlushContentsKeeps, QuietStepImplements DEF FlushContents, GoTo, Abandon, Done
<1>4. CASE WriteLocator
  BY <1>4, WriteLocatorImplements
<1>5. CASE Commit
  BY <1>5, CommitImplements
<1>6. CASE Release
  BY <1>6, ReleaseKeeps, QuietStepImplements DEF Release, Done, Fulfilled
<1>7. CASE WriteSuper
  BY <1>7, WriteSuperKeeps, QuietStepImplements DEF WriteSuper, Done
<1>8. CASE FlushSuper
  BY <1>8, FlushSuperKeeps, QuietStepImplements DEF FlushSuper, Done, Fulfilled
<1> QED
  BY <1>1, <1>2, <1>3, <1>4, <1>5, <1>6, <1>7, <1>8 DEF Step

\* Only the commit and the write of the superblock lead to a later step.
LEMMA FulfilledKept ==
  ASSUME StoreInvariant, StoreInvariant', Fulfilled, CommitsAccepted, [Next]_vars
  PROVE  Fulfilled'
<1>1. CASE Commit
  BY <1>1, CommitImplements
<1>2. CASE WriteSuper
  <2>1. op.pc = "super" /\ Up /\ op \in OpType /\ Untouched
    BY <1>2, WriteSuperKeeps DEF WriteSuper, Up, StoreInvariant, StoreTypeOK
  <2>2. CASE op' = [op EXCEPT !.pc = "persist"]
    <3>1. op'.pc = "persist" /\ op'.id = op.id /\ op'.val = op.val
      BY <2>1, <2>2 DEF OpType
    <3>2. CurrentMap' = CurrentMap
      BY <2>1, <3>1, UntouchedReads
    <3> QED
      BY <2>1, <3>1, <3>2 DEF Fulfilled
  <2>3. CASE op' = NoOp("idle")
    BY <2>3 DEF Fulfilled, NoOp
  <2> QED
    BY <1>2, <2>2, <2>3 DEF WriteSuper, Done
<1>3. CASE Mount \/ Format \/ Crash
  <2>1. \E pc \in {"down", "format", "formatted", "idle"} : op' = NoOp(pc)
    BY <1>3 DEF Mount, Format, FormatStep, Crash
  <2> QED
    BY <2>1 DEF Fulfilled, NoOp
<1>4. CASE Request
  <2>1. op'.pc \in {"idle", "header", "data", "locator"}
    BY <1>4 DEF Request, CreateAt, CreateAuto, Create, CreateAutoFull, Write, Delete, ClientFlush, Admit, NoOp
  <2> QED
    BY <2>1 DEF Fulfilled
<1>5. CASE WriteData \/ WriteHeader \/ FlushContents \/ WriteLocator \/ Release \/ FlushSuper
  <2>1. op \in OpType
    BY DEF StoreInvariant, StoreTypeOK
  <2>2. \/ op' = NoOp("idle")
        \/ \E pc \in {"header", "flush", "locator", "commit"} : op' = [op EXCEPT !.pc = pc]
    BY <1>5 DEF WriteData, WriteHeader, FlushContents, WriteLocator, Release, FlushSuper, GoTo,
                Abandon, Done
  <2>3. op'.pc \in {"idle", "header", "flush", "locator", "commit"}
    BY <2>1, <2>2 DEF OpType, NoOp
  <2> QED
    BY <2>3 DEF Fulfilled
<1>6. CASE UNCHANGED vars
  <2>1. disk' = disk /\ op' = op /\ Current' = Current
    BY <1>6 DEF vars, Current
  <2>2. CurrentMap' = CurrentMap
    BY <2>1, MapsAre, MapsAreNext DEF MapsExact
  <2> QED
    BY <2>1, <2>2 DEF Fulfilled
<1> QED
  BY <1>1, <1>2, <1>3, <1>4, <1>5, <1>6 DEF Next, Step

LEMMA StepImplements ==
  ASSUME StoreInvariant, StoreInvariant', Fulfilled, CommitsAccepted, [Next]_vars
  PROVE  [Objects!Next]_(Objects!vars)
<1>1. CASE Mount \/ Format
  BY <1>1, StartImplements
<1>2. CASE Request
  BY <1>2, RequestImplements
<1>3. CASE Step
  BY <1>3, ServiceStepImplements
<1>4. CASE Crash
  BY <1>4, CrashImplements
<1>5. CASE UNCHANGED vars
  <2>1. /\ disk' = disk /\ older' = older /\ op' = op
    BY <1>5 DEF vars
  <2>2. Current' = Current /\ Survivable' = Survivable
    BY <2>1 DEF Current, Survivable, Possible
  <2>3. MapsExact /\ MapsExact'
    BY MapsAre, MapsAreNext
  <2>4. CurrentMap' = CurrentMap /\ DoubtMap' = DoubtMap
    BY <2>1, <2>2, <2>3 DEF MapsExact
  <2>5. RequestMap' = RequestMap /\ reply' = reply
    BY <1>5, <2>1 DEF RequestMap, vars
  <2> QED
    BY <2>4, <2>5, Stutters
<1> QED
  BY <1>1, <1>2, <1>3, <1>4, <1>5 DEF Next

\* A new device holds nothing.
LEMMA InitImplements == Init => Objects!Init
<1> SUFFICES ASSUME Init PROVE Objects!Init
  OBVIOUS
<1>1. StoreInvariant /\ MapsExact
  BY InitEstablishes, MapsAre
<1>2. op = NoOp("down") /\ op.pc = "down" /\ RequestMap = {} /\ reply = "none"
  BY DEF Init, NoOp, RequestMap
<1>3. \A s \in Slots : Current[s] = NoEntry
  BY DEF Init, Current, NewestDirectory, Newer
<1>4. \A i \in Ids : Held(disk.block, Current, i) = Nil
  <2>1. \A i \in Ids : \A s \in Slots : Current[s].id # i
    BY <1>3 DEF NoEntry, Ids
  <2> QED
    BY <2>1, NoHolder
<1>5. CurrentMap = [i \in Ids |-> Nil]
  BY <1>1, <1>4 DEF MapsExact
<1>6. DoubtMap = [i \in Ids |-> {CurrentMap[i]}]
  BY <1>1, <1>2 DEF MapsExact
<1> QED
  BY <1>2, <1>5, <1>6 DEF Objects!Init, CurrentMap, DoubtMap, RequestMap

\* The store implements DurableObjects for every instance: a request that was
\* answered with success (objstore.rs:466, 488, 580) survives every crash, one
\* that was interrupted or failed leaves the old or the new contents, and nothing
\* changes another object.
THEOREM StoreImplementsDurableObjects ==
  ASSUME CommitsAccepted
  PROVE  Spec => ImplementsDurableObjects
<1>1. Init => Objects!Init /\ Fulfilled
  BY InitImplements DEF Init, Fulfilled, NoOp
<1>2. StoreInvariant /\ StoreInvariant' /\ Fulfilled /\ [Next]_vars => Fulfilled'
  BY FulfilledKept
<1>3. StoreInvariant /\ StoreInvariant' /\ Fulfilled /\ [Next]_vars => [Objects!Next]_(Objects!vars)
  BY StepImplements
<1>4. Spec => []StoreInvariant
  BY StoreInvariantHolds
<1> QED
  BY <1>1, <1>2, <1>3, <1>4, PTL DEF Spec, ImplementsDurableObjects, Objects!Spec
=============================================================================
