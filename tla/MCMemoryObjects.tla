---------------------------- MODULE MCMemoryObjects ----------------------------
(***************************************************************************)
(* MemoryObjects for TLC.  Roots and operations are interchangeable, which *)
(* the run without temporal properties uses.                               *)
(***************************************************************************)
EXTENDS MemoryObjects, TLC

Symmetry == Permutations(Roots) \cup Permutations(Ops)

(***************************************************************************)
(* The bound of the run about closes.  With one object every operation     *)
(* starts; the second object is there for roots that lend to each other,   *)
(* map what they borrowed and close each other's peers: once it exists,    *)
(* only loans and mappings for reading begin, by one thread.               *)
(***************************************************************************)
FirstObject == CHOOSE x \in Objects : TRUE
FirstOp == CHOOSE o \in Ops : TRUE
LendsOrMaps(p) == p.at \notin {"unmap", "both", "revoke", "copy", "move", "write", "close"}

SecondObjectLent ==
  (\E x \in Objects \ {FirstObject} : obj'[x].state # "absent") =>
    /\ obj'[FirstObject].state # "absent"
    /\ LendsOrMaps(op'[FirstOp]) /\ \A o \in Ops \ {FirstOp} : op'[o] = Idle
    /\ \A x \in Objects : obj'[x].dma = {} /\ \A m \in obj'[x].maps : ~m.writable
=============================================================================
