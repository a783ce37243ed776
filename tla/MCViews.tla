------------------------------ MODULE MCViews ------------------------------
(* Views, small: what there is on each surface, and what a behaviour may   *)
(* spend there.                                                            *)
EXTENDS Views

CONSTANTS P, Q, wt, a, b, Near, Far

RouteWorktrees == [p \in {P, Q} |-> IF p = Q THEN {wt} ELSE {}]
RouteChats ==
  [k \in [project : {P, Q}, worktree : {wt, None}] |->
     IF k = [project |-> P, worktree |-> None] THEN {a, b} ELSE {}]

Row(n, isCurrent) == [n |-> n, current |-> isCurrent]
TwoRows  == {Row(1, TRUE), Row(2, FALSE)}
OneHit   == {Row(2, FALSE)}

ParentOf == [x \in {"d", "f", "g"} |-> IF x = "g" THEN "d" ELSE "top"]

SavedTwo == <<"a", "b">>
FreshOne == <<"c">>
TwoDbs   == <<"m", "o">>

-----------------------------------------------------------------------------
(* Bounds.                                                                 *)

Bound(asks, failures)          == [asks |-> asks, failures |-> failures]
Looking(asks, failures, looks) == [asks |-> asks, failures |-> failures, looks |-> looks]

TabBudget(clicks, made, lists, switches, reloads) ==
  [clicks |-> clicks, made |-> made, lists |-> lists, switches |-> switches, reloads |-> reloads]

SmallBudgets ==
  [tabstrip |-> {TabBudget(2, 0, 1, 1, 0), TabBudget(0, 2, 0, 2, 0), TabBudget(1, 1, 1, 1, 0),
                 TabBudget(2, 0, 1, 0, 1), TabBudget(2, 0, 0, 1, 1)},
   dialog   |-> {Bound(4, 1)},
   tree     |-> {Looking(4, 1, 1)},
   changes  |-> {Looking(2, 1, 2), Looking(3, 0, 1)},
   db       |-> {Looking(3, 0, 1), Looking(2, 1, 1)},
   scroll   |-> {[asks |-> 2, failures |-> 0, grows |-> 3], [asks |-> 2, failures |-> 1, grows |-> 2]},
   row      |-> {[output |-> 1, looks |-> 2], [output |-> 2, looks |-> 1]}]
=============================================================================
