------------------------------ MODULE MCForms ------------------------------
(* Forms, small: what there is on each surface, and what a behaviour may   *)
(* spend there.                                                            *)
EXTENDS Forms

CONSTANTS w1, w2

OnePull   == {[checks |-> "success", mergeable |-> TRUE, review |-> None]}
HomeAbove == [d \in {"d"} |-> "home"]
QueuedTwo == <<"i", "j">>

OneScope == [A |-> "s", C |-> "s"]
OneOld   == [c \in {"c", "d"} |-> IF c = "c" THEN 1 ELSE 0]

Agent(available, models) == [available |-> available, models |-> models]
Detections ==
  {[p \in {"p", "q"} |-> IF p = "p" THEN Agent(TRUE, {"m"}) ELSE Agent(FALSE, {})],
   [p \in {"p", "q"} |-> IF p = "p" THEN Agent(TRUE, {"m", "m2"}) ELSE Agent(TRUE, {"k"})]}

-----------------------------------------------------------------------------
(* Bounds.                                                                 *)

Bound(asks, failures)          == [asks |-> asks, failures |-> failures]
Looking(asks, failures, looks) == [asks |-> asks, failures |-> failures, looks |-> looks]

RailBudget(asks, failures, looks, forge, reloads) ==
  [asks |-> asks, failures |-> failures, looks |-> looks, forge |-> forge, reloads |-> reloads]

LineBudget(asks, failures, looks, output, drops) ==
  [asks |-> asks, failures |-> failures, looks |-> looks, output |-> output, drops |-> drops]

\* Switching beside a lost socket; two messages, one parked behind the other;
\* a stop while the turn speaks; a lost socket beside a failing request.
MobileBudget(opens, sends, stops, drops, failures, output) ==
  [opens |-> opens, sends |-> sends, stops |-> stops, drops |-> drops, failures |-> failures,
   output |-> output]

SmallBudgets ==
  [rail     |-> {RailBudget(2, 1, 2, 0, 0), RailBudget(3, 0, 0, 1, 0), RailBudget(1, 0, 1, 0, 1)},
   worktree |-> {Looking(3, 0, 1), Looking(3, 1, 0)},
   chat     |-> {Looking(3, 1, 1)},
   folder   |-> {Bound(5, 0), Bound(3, 1)},
   dock     |-> {Looking(4, 0, 0), Looking(3, 1, 1)},
   settings |-> {Looking(3, 0, 1), Looking(2, 1, 2)},
   tabs     |-> {Looking(4, 1, 1), Looking(3, 0, 2)},
   composer |-> {Looking(2, 0, 2), Looking(1, 1, 2)},
   timeline |-> {LineBudget(3, 0, 1, 1, 0), LineBudget(2, 1, 1, 0, 1), LineBudget(2, 0, 2, 0, 0)},
   mobile   |-> {MobileBudget(2, 1, 0, 1, 0, 0), MobileBudget(1, 2, 0, 0, 0, 0),
                 MobileBudget(1, 1, 1, 0, 0, 1), MobileBudget(1, 1, 0, 1, 1, 0)}]
=============================================================================
