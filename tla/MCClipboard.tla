---------------------------- MODULE MCClipboard ----------------------------
(***************************************************************************)
(* Clipboard on small instances.                                           *)
(***************************************************************************)
EXTENDS Clipboard
=============================================================================
