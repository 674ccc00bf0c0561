----------------------------- MODULE MCAppScopes -----------------------------
(***************************************************************************)
(* AppScopes on a small instance: two scopes of one application, and a     *)
(* window whose id only resembles the application's.                       *)
(***************************************************************************)
EXTENDS AppScopes, TLC

CONSTANTS u1, u2, app, alike, t1, t2

Units == {u1, u2}
Apps == {app, alike}
AlikeOnly == {alike}
ScopeOf == (u1 :> app) @@ (u2 :> app)
Tokens == (app :> t1) @@ (alike :> t1)
=============================================================================
