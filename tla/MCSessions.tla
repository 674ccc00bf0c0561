----------------------------- MODULE MCSessions -----------------------------
(***************************************************************************)
(* Sessions on small instances.  The calls are named in the order in which *)
(* they arrive, which leaves nothing for a symmetry set to do that a       *)
(* liveness property would allow.                                          *)
(***************************************************************************)
EXTENDS Sessions
=============================================================================
