--------------------------- MODULE MCConfiguration ---------------------------
(***************************************************************************)
(* Configuration on small instances.                                       *)
(***************************************************************************)
EXTENDS Configuration
=============================================================================
