---------------------------- MODULE ScopeTracker ----------------------------
(***************************************************************************)
(* AppScopeTracker of src/src/backend.rs: which applications have a        *)
(* systemd scope, kept as two maps:                                        *)
(*                                                                         *)
(*   unit_app_ids     unit name -> application                             *)
(*   app_unit_counts  application -> number of its units, never 0          *)
(*                                                                         *)
(* parse_app_scope_name (src/src/systemd.rs) finds the application in the  *)
(* name of the unit, so AppOf says it once for both maps, and the first is *)
(* kept as the set of its keys.                                            *)
(***************************************************************************)
EXTENDS Naturals, FiniteSets

CONSTANTS
  Unit,     \* units of the service manager
  AppId,    \* application ids, of scopes and of windows
  AppOf,    \* parse_app_scope_name: the application of a scope, None for others
  None

ASSUME ScopeAssumption ==
  /\ None \notin AppId
  /\ AppOf \in [Unit -> AppId \cup {None}]
  /\ IsFiniteSet(Unit)

EmptyTracker == [units |-> {}, counts |-> [a \in {} |-> 0]]

\* AppScopeTracker::app_ids
AppIds(t) == DOMAIN t.counts

IsTracker(t) ==
  /\ t = [units |-> t.units, counts |-> t.counts]
  /\ t.units \subseteq {u \in Unit : AppOf[u] # None}
  /\ AppIds(t) \subseteq AppId /\ t.counts \in [AppIds(t) -> Nat]

\* Units of an application in a set of units.
UnitsOf(us, a) == {u \in us : AppOf[u] = a}
AppsOf(us) == {AppOf[u] : u \in us} \ {None}

CountOf(t, a) == IF a \in AppIds(t) THEN t.counts[a] ELSE 0

IsNoScope(t, u) == AppOf[u] = None   \* mutant: a unit is counted twice

\* insert_unit leaves the tracker alone for a unit it knows and for one
\* that is no application scope.
Ignored(t, u) == AppOf[u] = None \/ u \in t.units

InsertUnit(t, u) ==
  IF Ignored(t, u)
  THEN t
  ELSE [units  |-> t.units \cup {u},
        counts |-> [a \in AppIds(t) \cup {AppOf[u]} |->
                      IF a = AppOf[u] THEN CountOf(t, a) + 1 ELSE t.counts[a]]]

\* remove_unit, with the key of the application dropped at 0.
RemoveUnit(t, u) ==
  IF u \notin t.units
  THEN t
  ELSE [units  |-> t.units \ {u},
        counts |-> [a \in {b \in AppIds(t) : b # AppOf[u] \/ t.counts[b] > 1} |->
                      IF a = AppOf[u] THEN t.counts[a] - 1 ELSE t.counts[a]]]

\* rebuild_from_unit_names: every unit of a listing inserted into an empty
\* tracker.
Rebuild(us) ==
  [units  |-> {u \in us : AppOf[u] # None},
   counts |-> [a \in AppsOf(us) |-> Cardinality(UnitsOf(us, a))]]

UnitStopped(t, u) == u \in t.units   \* mutant: any unit of it

\* What insert_unit and remove_unit return: the application set changed.
AppStarted(t, u) == ~Ignored(t, u) /\ CountOf(t, AppOf[u]) = 0
AppStopped(t, u) == u \in t.units /\ CountOf(t, AppOf[u]) = 1

\* The two maps agree: every key of the one is counted once in the other.
CountsAgreeIn(t) ==
  /\ AppIds(t) = AppsOf(t.units)
  /\ \A a \in AppIds(t) : t.counts[a] = Cardinality(UnitsOf(t.units, a))
=============================================================================
