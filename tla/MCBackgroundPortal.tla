------------------------ MODULE MCBackgroundPortal -------------------------
(***************************************************************************)
(* BackgroundPortal on small instances.  Calls, Close calls, handles and   *)
(* applications are interchangeable; symmetry is used in safety runs only. *)
(***************************************************************************)
EXTENDS BackgroundPortal

Interchangeable ==
  Permutations(Call) \cup Permutations(Close) \cup Permutations(Handle)
    \cup Permutations(App)

\* The dialog's queue loses the elements that SequencesExt's Remove removes.
ASSUME WithoutRemoves ==
  \A q \in SeqOf(Handle, 4), h \in Handle : Without(q, h) = Remove(q, h)
=============================================================================
