--------------------------- MODULE MCObjectStore ---------------------------
(***************************************************************************)
(* ObjectStore on a device of a few blocks, with contents of no and of two *)
(* data blocks.                                                            *)
(***************************************************************************)
EXTENDS ObjectStore, TLC

CONSTANT pair   \* contents that need two data blocks

MCValues == {Empty, pair}
MCSize == (Empty :> 0) @@ (pair :> 2)
=============================================================================
