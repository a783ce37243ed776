------------------------------ MODULE Dialogs ------------------------------
(***************************************************************************)
(* The dialogs that list things the user acts on one by one: open pull     *)
(* requests, branches, tickets, ClickUp tasks, removed worktrees, deleted  *)
(* chats, and the branches one may switch to.                              *)
(*                                                                         *)
(* The first four keep their list in a resource, which takes the answer of *)
(* its newest request only, and search in it; the history dialogs ask the  *)
(* server for what is typed, a moment after it is, and take every answer.  *)
(***************************************************************************)
EXTENDS Requests

CONSTANTS
  Rows,      \* what there is to list
  Hits,      \* the rows what the user types finds
  Budgets

Resources == {"prs", "branches", "tickets", "tasks"}
Histories == {"worktrees", "chats"}

\* Mounting asks for the list; the history dialogs' effect on the search
\* box runs as well, and arms its timer.
Init ==
  \E dialog \in Resources \cup Histories \cup {"switch"}, b \in Budgets :
    /\ left = [b EXCEPT !.asks = @ - 1]
    /\ view = [dialog |-> dialog, open |-> TRUE, rows |-> {}, loading |-> TRUE,
               asked |-> -b.asks, shown |-> -b.asks - 1, err |-> FALSE,
               typed |-> FALSE, timer |-> dialog \in Histories,
               confirming |-> None, busy |-> None, known |-> {}]
    /\ calls = {[n |-> -b.asks, kind |-> "list", arg |-> [hits |-> FALSE, after |-> None],
                 reply |-> None]}
    /\ server = [rows |-> Rows, worktrees |-> {}]

-----------------------------------------------------------------------------
(* Lists.                                                                  *)

Searched(rows, typed) == IF typed THEN rows \cap Hits ELSE rows

Lists(v, after) ==
  /\ Asks("list", [hits |-> v.dialog \in Histories /\ v.typed, after |-> after])
  /\ view' = [v EXCEPT !.loading = TRUE, !.asked = Now, !.err = FALSE]

\* The button with the arrow.
Refetch ==
  /\ view.open /\ view.dialog \in Resources /\ ~view.loading
  /\ Lists(view, None)
  /\ UNCHANGED server

Type ==
  /\ view.open
  /\ view' = [view EXCEPT !.typed = ~@, !.timer = view.dialog \in Histories]
  /\ UNCHANGED <<calls, server, left>>

SearchTimer ==
  /\ view.open /\ view.timer
  /\ Lists([view EXCEPT !.timer = FALSE], None)
  /\ UNCHANGED server

\* The request after an action clears the mark of its row when it is done,
\* whichever row has the mark by then.
Unmarked(v, r) == IF r.arg.after = None THEN v ELSE [v EXCEPT !.busy = None]

TakenInAnyOrder(v, r) ==
  [v EXCEPT !.rows = IF r.reply = Failed THEN {} ELSE r.reply,
            !.err = r.reply = Failed, !.loading = FALSE, !.shown = r.n]

ResourceTaken(v, r) ==
  IF r.n # v.asked THEN v
  ELSE [v EXCEPT !.rows = IF r.reply = Failed THEN {} ELSE r.reply,
                 !.err = r.reply = Failed, !.loading = FALSE, !.shown = r.n]

HistoryTaken(v, r) ==
  IF r.reply = Failed THEN [v EXCEPT !.err = TRUE, !.loading = FALSE]
  ELSE [v EXCEPT !.rows = r.reply, !.loading = FALSE, !.shown = r.n]

ListDone(r) ==
  /\ view.open /\ Takes(r, "list")
  /\ view' = Unmarked(IF view.dialog \in Histories THEN HistoryTaken(view, r)
                                                   ELSE ResourceTaken(view, r), r)
  /\ UNCHANGED <<server, left>>

-----------------------------------------------------------------------------
(* What may be pressed.                                                    *)

Listed(v) == IF v.loading THEN {} ELSE Searched(v.rows, v.typed)

PrButtons(v)      == Listed(v) \ {v.busy}
BranchButtons(v)  == {row \in Listed(v) : ~row.current} \ {v.busy}
TicketButtons(v)  == IF v.busy # None THEN {} ELSE Listed(v) \ v.known
TaskButtons(v)    == IF v.busy # None THEN {} ELSE Listed(v) \ v.known
HistoryButtons(v) == v.rows \ {v.busy}
ChatButtons(v)    == v.rows \ {v.busy}
SwitchButtons(v)  == IF v.busy # None THEN {} ELSE {row \in Listed(v) : ~row.current}

Button(v, row) ==
  /\ v.open /\ v.confirming = None
  /\ \/ v.dialog = "prs"       /\ row \in PrButtons(v)
     \/ v.dialog = "branches"  /\ row \in BranchButtons(v)
     \/ v.dialog = "tickets"   /\ row \in TicketButtons(v)
     \/ v.dialog = "tasks"     /\ row \in TaskButtons(v)
     \/ v.dialog = "worktrees" /\ row \in HistoryButtons(v)
     \/ v.dialog = "chats"     /\ row \in ChatButtons(v)
     \/ v.dialog = "switch"    /\ row \in SwitchButtons(v)

\* A dialog asks first: to confirm, or which project to take.
AsksFirst == {"prs", "branches", "worktrees", "tasks"}

Acts(v, row) ==
  /\ Asks("act", row)
  /\ view' = [v EXCEPT !.busy = row, !.confirming = None,
                       !.err = IF v.dialog \in {"chats", "switch"} THEN FALSE ELSE @]

Press(row) ==
  /\ Button(view, row)
  /\ IF view.dialog \in AsksFirst
     THEN view' = [view EXCEPT !.confirming = row] /\ UNCHANGED <<calls, left>>
     ELSE Acts(view, row)
  /\ UNCHANGED server

Confirm ==
  /\ view.open /\ view.confirming # None
  /\ Acts(view, view.confirming)
  /\ UNCHANGED server

Decline ==
  /\ view.confirming # None
  /\ view' = [view EXCEPT !.confirming = None]
  /\ UNCHANGED <<calls, server, left>>

-----------------------------------------------------------------------------
(* After the server has acted.                                             *)

ActFailed(r) ==
  /\ view.open /\ r.reply = Failed /\ Takes(r, "act")
  /\ view' = [view EXCEPT !.busy = None, !.err = view.dialog \in {"chats", "switch"}]
  /\ UNCHANGED <<server, left>>

\* The pull request is closed, the branch deleted, the record restored: the
\* list is read again, the row keeps its mark until it is there.
ActThenList(r) ==
  /\ view.open /\ view.dialog \in {"prs", "branches"} \cup Histories /\ r.reply # Failed
  /\ TakesAsking(r, "act", "list",
                 [hits |-> view.dialog \in Histories /\ view.typed, after |-> r.arg])
  /\ view' = [view EXCEPT !.loading = TRUE, !.asked = Now, !.err = FALSE]
  /\ UNCHANGED server

\* The ticket's worktree is shown once its project's list has been read.
WorkThenFocus(r) ==
  /\ view.open /\ view.dialog \in {"tickets", "tasks"} /\ r.reply # Failed
  /\ TakesAsking(r, "act", "focus", r.arg)
  /\ UNCHANGED <<view, server>>

FocusDone(r) ==
  /\ view.open /\ Takes(r, "focus")
  /\ view' = [view EXCEPT !.known = IF r.reply = Failed THEN @ ELSE r.reply,
                          !.busy = None, !.open = view.dialog # "tickets"]
  /\ UNCHANGED <<server, left>>

Switched(r) ==
  /\ view.open /\ view.dialog = "switch" /\ r.reply # Failed
  /\ Takes(r, "act")
  /\ view' = [view EXCEPT !.open = FALSE]
  /\ UNCHANGED <<server, left>>

\* Escape, the backdrop, the cross: not while a branch is being switched.
Close ==
  /\ view.open /\ view.confirming = None
  /\ view.dialog = "switch" => view.busy = None
  /\ view' = [view EXCEPT !.open = FALSE, !.timer = FALSE] /\ calls' = {}
  /\ UNCHANGED <<server, left>>

-----------------------------------------------------------------------------
(* The server.                                                             *)

ServeList(r) ==
  /\ r.kind = "list" /\ Answers(r, Searched(server.rows, r.arg.hits))
  /\ UNCHANGED <<view, server, left>>

\* An action on a row that is gone, or a second worktree for a ticket, fails.
ServeAct(r) ==
  /\ r.kind = "act"
  /\ \/ /\ view.dialog \in {"prs", "branches"} \cup Histories /\ r.arg \in server.rows
        /\ server' = [server EXCEPT !.rows = @ \ {r.arg}] /\ Answers(r, r.arg)
     \/ /\ view.dialog \in {"tickets", "tasks"} /\ r.arg \notin server.worktrees
        /\ server' = [server EXCEPT !.worktrees = @ \cup {r.arg}] /\ Answers(r, r.arg)
     \/ /\ view.dialog = "switch"
        /\ Answers(r, r.arg) /\ UNCHANGED server
     \/ /\ \/ view.dialog \in {"prs", "branches"} \cup Histories /\ r.arg \notin server.rows
           \/ view.dialog \in {"tickets", "tasks"} /\ r.arg \in server.worktrees
        /\ Answers(r, Failed) /\ UNCHANGED server
  /\ UNCHANGED <<view, left>>

ServeFocus(r) ==
  /\ r.kind = "focus" /\ Answers(r, server.worktrees)
  /\ UNCHANGED <<view, server, left>>

Next ==
  \/ Refetch \/ Type \/ SearchTimer \/ Confirm \/ Decline \/ Close
  \/ \E row \in Rows : Press(row)
  \/ \E r \in calls :
       \/ ListDone(r) \/ ActFailed(r) \/ ActThenList(r) \/ WorkThenFocus(r) \/ FocusDone(r)
       \/ Switched(r) \/ ServeList(r) \/ ServeAct(r) \/ ServeFocus(r) \/ Fails(r)

Spec == Init /\ [][Next]_panelVars

-----------------------------------------------------------------------------
(* Properties.                                                             *)

\* The dialogs that keep no resource are not concerned.
OfResource(n) == IF view.dialog \in Resources THEN n ELSE 0
Answer == INSTANCE LatestAnswer WITH asked <- OfResource(view.asked), shown <- OfResource(view.shown)

\* The resource dialogs implement LatestAnswer: a pull request that was
\* closed or a branch that was deleted does not come back with the answer to
\* an older request, whichever buttons started the requests.
NeverGoesBack == Answer!Spec
=============================================================================
