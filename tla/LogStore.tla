------------------------------ MODULE LogStore ------------------------------
(***************************************************************************)
(* LogStore of crates/catten-graft/src/log_store.rs, and its durable form  *)
(* DiskLogStore of crates/catten-services/src/disk_raft.rs.                *)
(*                                                                         *)
(* A store is a record with the fields                                     *)
(*   log   the entries from index 1 to the last index, and                 *)
(*   snap  the snapshot index.                                             *)
(* The code drops the entries up to the snapshot index and keeps the       *)
(* snapshot bytes instead; those bytes are the state the dropped entries   *)
(* produced, so here the entries stay in log and stand for them.  Every    *)
(* reader below refuses them as the code does.                             *)
(***************************************************************************)
EXTENDS Membership, Sequences, FiniteSetsExt

\* What configuration::decode distinguishes in an entry's bytes.  A join
\* entry carries its one peer as a member map.
Kinds == {"noop", "command", "join", "joint", "finalize"}

\* A client command is known by its position and by the leader and term that
\* appended it (LogEntry::term, LogEntry::peer_id).
Entry == [term : Nat, by : Server, kind : Kinds, members : Members]

NewEntry(t, s, kind, m) == [term |-> t, by |-> s, kind |-> kind, members |-> m]

LastIndex(n) == Len(n.log)

TermAt(n, i) == IF i > 0 /\ i >= n.snap /\ i <= LastIndex(n) THEN n.log[i].term ELSE 0

\* The entries up to index i.
Prefix(log, i) == SubSeq(log, 1, IF i <= Len(log) THEN i ELSE Len(log))

LastTerm(n) == TermAt(n, LastIndex(n))

\* The index of the last entry of this kind that the store still holds at or
\* below i (the entries entry_at returns), 0 when there is none.
LastOfKind(n, kind, i) ==
  LET held == {k \in n.snap + 1 .. LastIndex(n) : k <= i /\ n.log[k].kind = kind}
  IN  IF held = {} THEN 0 ELSE Max(held)

\* The store after installing a snapshot at index i that replaces prefix: the
\* suffix is kept only when the entry at i has the snapshot's term.
InstallSnapshotLog(n, prefix) ==
  LET i == Len(prefix)
      keep == i \in n.snap .. LastIndex(n) /\ n.log[i].term = prefix[i].term
  IN  IF keep THEN prefix \o SubSeq(n.log, i + 1, LastIndex(n)) ELSE prefix
=============================================================================
