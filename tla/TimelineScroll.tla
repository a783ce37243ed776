--------------------------- MODULE TimelineScroll ---------------------------
(***************************************************************************)
(* Where the timeline of a chat is scrolled to (VirtualizedTimeline of     *)
(* ChatPane.tsx): the user's wheel and scroll bar against a content that   *)
(* grows at its end, is measured, collapses, is blanked and loaded again,  *)
(* and gets older pages at its top.                                        *)
(*                                                                         *)
(* Heights are in rows, the viewport is `Viewport` of them.  The windows   *)
(* in which a scroll event is taken for the browser's own, and the loop    *)
(* that enforces the position, end at any time.                            *)
(***************************************************************************)
EXTENDS Requests

CONSTANTS
  Viewport, Page,
  Pages,      \* how many older pages the server has
  Budgets

\* No rows yet.  `mine` is the user's last position, None before there is
\* one and while the end is followed.
Unloaded == [height |-> 0, top |-> 0, loaded |-> FALSE, seen |-> 0,
             mine |-> None, following |-> TRUE,
             programmatic |-> FALSE, changing |-> FALSE, settling |-> FALSE, wheel |-> FALSE,
             loop |-> FALSE, anchor |-> None, loadingOlder |-> FALSE, dragged |-> FALSE]

Init == left \in Budgets /\ calls = {} /\ server = Pages /\ view = Unloaded

atStart == server = 0

Least(a, b) == IF a < b THEN a ELSE b
End(v)      == IF v.height > Viewport THEN v.height - Viewport ELSE 0

At(v, top) == [v EXCEPT !.top = Least(top, End(v))]

-----------------------------------------------------------------------------
(* The rule.                                                               *)

scrollToBottom(v) == IF v.height = 0 THEN At(v, 0) ELSE [At(v, End(v)) EXCEPT !.programmatic = TRUE]

enforceAlwaysTheEnd(v) == scrollToBottom(v)

\* The user's position, or the end.
enforceScrollRule(v) ==
  IF v.mine = None \/ v.following THEN scrollToBottom(v)
  ELSE [At(v, v.mine) EXCEPT !.programmatic = TRUE]

\* Rows came, went or changed: the browser clamps, then the two observers.
\* While older rows are expected they leave the position alone.
Mutated(v) == IF v.anchor # None THEN At(v, v.top)
              ELSE [enforceScrollRule(At(v, v.top)) EXCEPT !.changing = TRUE]

Resized(v) ==
  IF v.anchor # None \/ v.height = v.seen THEN v
  ELSE LET w == [v EXCEPT !.seen = v.height, !.wheel = FALSE]
       IN  CASE v.settling -> IF w.mine = None \/ w.following THEN scrollToBottom(w) ELSE w
             [] ~v.settling /\ v.mine = None -> scrollToBottom(w)
             [] OTHER -> [enforceScrollRule(w) EXCEPT !.loop = TRUE, !.changing = TRUE]

Observed(v) == Resized(Mutated(v))

Becoming(v, height) == Observed([v EXCEPT !.height = height])

\* The number of prompts changed while older rows were expected.
Restored(v) ==
  IF v.anchor = None THEN v
  ELSE LET by == v.height - v.anchor.height
           w  == IF by > 0 THEN [At(v, v.anchor.top + by) EXCEPT !.programmatic = TRUE] ELSE At(v, v.top)
       IN  [w EXCEPT !.anchor = None, !.mine = w.top, !.following = w.top = End(w)]

Recounted(v, height) == Observed(Restored([v EXCEPT !.height = height]))

-----------------------------------------------------------------------------
(* The content.                                                            *)

\* The first rows of a chat: the end, whatever was there before.
Load ==
  /\ ~view.loaded
  /\ view' = Observed([Restored([view EXCEPT !.height = Viewport + Page, !.loaded = TRUE])
                       EXCEPT !.mine = None, !.following = TRUE, !.settling = TRUE])
  /\ UNCHANGED <<server, calls, left>>

\* The store is blanked before it is loaded again.
Blanked ==
  /\ view.loaded /\ Spend("grows")
  /\ view' = [Recounted(view, 0) EXCEPT !.loaded = FALSE, !.loadingOlder = FALSE]
  /\ UNCHANGED <<server, calls>>

\* A reply grows or a row is measured; a long one is collapsed.
Reply ==
  /\ view.loaded /\ Spend("grows")
  /\ \E height \in {view.height + 1, view.height - 1} : view' = Becoming(view, height)
  /\ UNCHANGED <<server, calls>>

NewPrompt ==
  /\ view.loaded /\ Spend("grows")
  /\ view' = [Recounted(view, view.height + 1) EXCEPT !.changing = TRUE]
  /\ UNCHANGED <<server, calls>>

\* onLoadOlder of the pane, which has its own guard.
LoadsOlder(v) ==
  IF atStart \/ v.loadingOlder \/ v.anchor # None \/ v.top > 0
  THEN view' = v /\ UNCHANGED <<calls, left>>
  ELSE /\ Asks("older", None)
       /\ view' = [v EXCEPT !.loadingOlder = TRUE, !.anchor = [top |-> v.top, height |-> v.height]]

ServeOlder(r) ==
  /\ Answers(r, Page) /\ server' = server - 1
  /\ UNCHANGED <<view, left>>

\* A failed page leaves the anchor where it is.  One for a blanked store is
\* dropped here: the rows it shows are replaced by those being loaded.
OlderDone(r) ==
  /\ Takes(r, "older")
  /\ view' = [(IF r.reply = Failed \/ ~view.loaded THEN view ELSE Recounted(view, view.height + r.reply))
              EXCEPT !.loadingOlder = FALSE]
  /\ UNCHANGED <<server, left>>

-----------------------------------------------------------------------------
(* The user, and scroll events.                                            *)

Placed(v) == [v EXCEPT !.following = v.top = End(v), !.mine = IF v.top = End(v) THEN None ELSE v.top]

onWheel(top) ==
  /\ view.loaded /\ top # view.top
  /\ LoadsOlder(Placed([At(view, top) EXCEPT !.wheel = TRUE]))

\* An event that is taken for one of our own is dropped.
onScroll(v) ==
  IF (v.programmatic \/ v.changing) /\ ~v.wheel THEN view' = v /\ UNCHANGED <<calls, left>>
  ELSE LoadsOlder(Placed(v))

Wheel == \E top \in 0..End(view) : onWheel(top) /\ UNCHANGED server

\* The bar or the keyboard; `dragged` is history.
Drag ==
  /\ view.loaded
  /\ \E top \in 0..End(view) : onScroll([At(view, top) EXCEPT !.dragged = TRUE])
  /\ UNCHANGED server

\* The event of one of our own writes, late.
OwnEvent == view.loaded /\ onScroll(view) /\ UNCHANGED server

Frame == view.loop /\ view' = enforceScrollRule(view) /\ UNCHANGED <<server, calls, left>>

WindowEnds ==
  /\ \E window \in {"programmatic", "changing", "settling", "wheel", "loop"} :
       view[window] /\ view' = [view EXCEPT ![window] = FALSE]
  /\ UNCHANGED <<server, calls, left>>

Next ==
  \/ Load \/ Blanked \/ Reply \/ NewPrompt \/ Wheel \/ Drag \/ OwnEvent \/ Frame \/ WindowEnds
  \/ \E r \in calls : ServeOlder(r) \/ OlderDone(r) \/ Fails(r)

Spec == Init /\ [][Next]_panelVars

-----------------------------------------------------------------------------
(* Properties.                                                             *)

\* The view is where the user has put it with the wheel, or at the end if
\* that is what was left in view, whatever grew, collapsed or was loaded,
\* and however late scroll events come: unless older rows are awaited or
\* the bar was used.
WheelIsKept ==
  view.anchor = None /\ ~view.dragged =>
    view.top = IF view.mine = None \/ view.following THEN End(view) ELSE Least(view.mine, End(view))
=============================================================================
