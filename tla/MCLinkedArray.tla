--------------------------- MODULE MCLinkedArray ----------------------------
(***************************************************************************)
(* Small instances of LinkedArray for TLC.                                 *)
(***************************************************************************)
EXTENDS LinkedArray

AnyFlag == BOOLEAN
=============================================================================
