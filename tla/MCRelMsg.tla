------------------------------ MODULE MCRelMsg ------------------------------
(***************************************************************************)
(* An instance of RelMsg for TLC: two machines and three messages from one *)
(* to the other, one of a single frame and two of two frames.              *)
(***************************************************************************)
EXTENDS RelMsg

CONSTANTS h1, h2, m1, m2, m3

MCSource == [m \in Msgs |-> h1]
MCDest == [m \in Msgs |-> h2]
MCMaxGeneration == [n \in Nodes |-> 2]
MCSize == [m \in Msgs |-> IF m = m1 THEN 1 ELSE 2]

=============================================================================
