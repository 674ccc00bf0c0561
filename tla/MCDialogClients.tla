-------------------------- MODULE MCDialogClients --------------------------
(***************************************************************************)
(* DialogClients on small instances.  There is a liveness property to      *)
(* check, so no symmetry is used.                                          *)
(***************************************************************************)
EXTENDS DialogClients
=============================================================================
