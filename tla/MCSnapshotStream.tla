-------------------------- MODULE MCSnapshotStream --------------------------
(***************************************************************************)
(* Instances of SnapshotStream for TLC.                                    *)
(***************************************************************************)
EXTENDS SnapshotStream

\* Two leaders that encode their snapshots in different lengths.
TwoLeaders == << [i \in Indices |-> 2], [i \in Indices |-> 4 - i] >>

OneLeader == << [i \in Indices |-> 2] >>
=============================================================================
