-------------------------------- MODULE Rail --------------------------------
(***************************************************************************)
(* The left rail: the row of a project and those of its worktrees, their   *)
(* menus, what the forge says of their branches, and the requests that     *)
(* pull, merge and remove them (shells/desktop/LeftRail.tsx).              *)
(*                                                                         *)
(* `view.rows` is the store's list of the project's worktrees.  A removal  *)
(* takes its row out at once and puts the list of that moment back when it *)
(* fails; every listing that is answered replaces the list, in whichever   *)
(* order they come.                                                        *)
(***************************************************************************)
EXTENDS Requests

CONSTANTS
  Root,           \* the project's own row
  Worktrees,
  Kinds,          \* of project: "folder", "git", "remote"
  PullRequests,   \* what a forge may say of one: [checks, mergeable, review]
  Widths,         \* where the pointer may be, in pixels
  RailMin, RailMax, RailDefault,
  Budgets

Ids == Worktrees \cup {Root}
Unknown == [known |-> FALSE, pr |-> None, behind |-> FALSE]

loadExpanded(stored) == stored.expanded

initialWidth(stored) ==
  IF stored.width \in RailMin..RailMax THEN stored.width ELSE RailDefault

Fresh(kind, stored) ==
  [kind |-> kind, tab |-> stored.tab, rows |-> {}, scope |-> Root,
   expanded |-> loadExpanded(stored), width |-> initialWidth(stored), dragging |-> FALSE,
   menu |-> None, dialog |-> None, confirming |-> None, err |-> FALSE,
   pulling |-> FALSE, mergingBase |-> None, merging |-> None,
   status |-> [w \in Worktrees |-> Unknown], due |-> {}, injection |-> FALSE]

Init ==
  \E kind \in Kinds, b \in Budgets :
    LET stored == [expanded |-> {}, tab |-> "projects", width |-> RailDefault]
        rows   == IF kind = "remote" THEN Worktrees ELSE {}
    IN  /\ view = [Fresh(kind, stored) EXCEPT !.rows = rows]
        /\ server = [rows |-> rows, pr |-> [w \in Worktrees |-> None], behind |-> {},
                     stored |-> stored]
        /\ calls = {} /\ left = b

-----------------------------------------------------------------------------
(* What the rows offer.                                                    *)

\* "cli": a terminal for every agent's program that is installed.
CreateItems == {"chat", "terminal", "cli"}

GitItems(kind) ==
  (IF kind # "folder" THEN {"changes", "switch", "branches", "tickets"} ELSE {})
    \cup (IF kind = "remote" THEN {"pull", "prs", "worktree", "history"} ELSE {})

ManageItems(kind) ==
  {"chats", "refresh", "folder", "remove"} \cup (IF kind # "folder" THEN {"settings"} ELSE {})

ProjectMenu(v) ==
  CreateItems \cup ManageItems(v.kind) \cup (GitItems(v.kind) \ IF v.pulling THEN {"pull"} ELSE {})

WorktreeMenu(v, w) ==
  CreateItems \cup {"changes", "rename", "chats", "refresh", "folder", "removeWorktree"}
    \cup (IF v.mergingBase = w THEN {} ELSE {"mergeBase"})

Items(v, id) == IF id = Root THEN ProjectMenu(v) ELSE WorktreeMenu(v, id)

\* No pipeline at all is as good as a green one when the forge says so.
CanMerge(pr) ==
  /\ pr # None
  /\ pr.checks = "success" \/ (pr.checks = None /\ pr.mergeable)
  /\ pr.review \in {"approved", None}

-----------------------------------------------------------------------------
(* The poll of the forge.                                                  *)

\* The sweep asks for every row of a project on the screen; it follows every
\* change of the selection, of the expanded rows and of the list.
Swept(v) ==
  IF Root \in v.expanded \/ v.scope # None THEN [v EXCEPT !.due = v.rows] ELSE v

PollAllDrift ==
  /\ view' = Swept(view) /\ view' # view
  /\ UNCHANGED <<server, calls, left>>

FetchDrift(w) ==
  /\ w \in view.due
  /\ Asks("drift", w) /\ view' = [view EXCEPT !.due = @ \ {w}]
  /\ UNCHANGED server

DriftDone(r) ==
  /\ Takes(r, "drift")
  /\ view' = IF r.reply = Failed THEN view ELSE [view EXCEPT !.status[r.arg] = r.reply]
  /\ UNCHANGED <<server, left>>

-----------------------------------------------------------------------------
(* Rows and menus.                                                         *)

SelectRow(id) ==
  /\ id \in view.rows \cup {Root} /\ id # view.scope
  /\ view' = Swept([view EXCEPT !.scope = id])
  /\ UNCHANGED <<server, calls, left>>

ToggleExpanded(id) ==
  LET now == IF id \in view.expanded THEN view.expanded \ {id} ELSE view.expanded \cup {id} IN
  /\ id \in view.rows \cup {Root} /\ Spend("looks")
  /\ view' = Swept([view EXCEPT !.expanded = now])
  /\ server' = [server EXCEPT !.stored.expanded = now]
  /\ UNCHANGED calls

SetTab(tab) ==
  /\ tab # view.tab /\ Spend("looks")
  /\ view' = [view EXCEPT !.tab = tab, !.menu = None]
  /\ server' = [server EXCEPT !.stored.tab = tab]
  /\ UNCHANGED calls

\* The kebab of a row toggles its menu; a click elsewhere closes it.
ToggleMenu(id) ==
  /\ view.tab = "projects" /\ view.dialog = None /\ view.confirming = None
  /\ id \in view.rows \cup {Root}
  /\ Spend("looks") /\ view' = [view EXCEPT !.menu = IF @ = id THEN None ELSE id]
  /\ UNCHANGED <<server, calls>>

Chosen(id, item) ==
  /\ view.menu = id /\ view.tab = "projects" /\ id \in view.rows \cup {Root}
  /\ item \in Items(view, id)

Shut == [view EXCEPT !.menu = None]

\* A dialog of its own: the scope of a chat is selected first.  (Terminals are
\* Workspace's, the other lists Dialogs', changes ChangesPanel's.)
OpenDialog(id, item) ==
  /\ Chosen(id, item)
  /\ item \in {"chat", "switch", "worktree", "history", "rename"}
  /\ view' = [Shut EXCEPT !.dialog = [item |-> item, row |-> id],
                          !.scope = IF item = "chat" THEN id ELSE @,
                          !.err = IF item = "chat" THEN FALSE ELSE @]
  /\ UNCHANGED <<server, calls, left>>

\* The chip of a branch that has fallen behind: the request for an agent goes
\* to the chat of the scope, or to one that is made for it.
DriftChip(w) ==
  /\ w \in view.rows /\ view.status[w].behind /\ view.dialog = None
  /\ Asks("drift", w)
  /\ \E chat \in BOOLEAN :
       view' = [view EXCEPT !.scope = w, !.injection = TRUE,
                            !.err = IF chat THEN @ ELSE FALSE,
                            !.dialog = IF chat THEN @ ELSE [item |-> "chat", row |-> w]]
  /\ UNCHANGED server

-----------------------------------------------------------------------------
(* Pull and merge.                                                         *)

PullProject ==
  /\ Chosen(Root, "pull")
  /\ IF view.pulling THEN view' = Shut /\ UNCHANGED <<calls, left>>
     ELSE Asks("pull", Root) /\ view' = [Shut EXCEPT !.pulling = TRUE]
  /\ UNCHANGED server

PullDone(r) ==
  /\ Takes(r, "pull") /\ view' = [view EXCEPT !.pulling = FALSE]
  /\ UNCHANGED <<server, left>>

MergeUnlessThisRow(w) ==
  /\ Chosen(w, "mergeBase")
  /\ Asks("base", w) /\ view' = [Shut EXCEPT !.mergingBase = w]
  /\ UNCHANGED server

MergeWorktreeBase(w) ==
  /\ Chosen(w, "mergeBase")
  /\ IF view.mergingBase # None THEN view' = Shut /\ UNCHANGED <<calls, left>>
     ELSE Asks("base", w) /\ view' = [Shut EXCEPT !.mergingBase = w]
  /\ UNCHANGED server

MergeBaseDone(r) ==
  /\ IF r.reply = Failed THEN Takes(r, "base") /\ UNCHANGED left
                         ELSE TakesAsking(r, "base", "drift", r.arg)
  /\ view' = [view EXCEPT !.mergingBase = None]
  /\ UNCHANGED server

\* Each row looks at its own mark only, of the one there is.
MergePr(w) ==
  /\ w \in view.rows /\ CanMerge(view.status[w].pr) /\ view.merging # w
  /\ Asks("merge", w) /\ view' = [view EXCEPT !.merging = w]
  /\ UNCHANGED server

MergePrDone(r) ==
  /\ TakesAsking(r, "merge", "drift", r.arg)
  /\ view' = [view EXCEPT !.merging = None,
                          !.status[r.arg].pr = IF r.reply = Failed THEN @ ELSE None]
  /\ UNCHANGED server

-----------------------------------------------------------------------------
(* Worktrees.                                                              *)

AskRemove(w) ==
  /\ Chosen(w, "removeWorktree")
  /\ view' = [Shut EXCEPT !.confirming = w]
  /\ UNCHANGED <<server, calls, left>>

\* The scope falls back to the project, the row goes at once.
DeleteWorktree ==
  LET w == view.confirming IN
  /\ w # None
  /\ Asks("delete", [row |-> w, before |-> view.rows])
  /\ view' = Swept([view EXCEPT !.confirming = None, !.rows = @ \ {w},
                                !.scope = IF @ = w THEN Root ELSE @])
  /\ UNCHANGED server

KeepWorktree ==
  /\ view.confirming # None /\ view' = [view EXCEPT !.confirming = None]
  /\ UNCHANGED <<server, calls, left>>

DeleteDone(r) ==
  /\ r.reply # Failed /\ TakesAsking(r, "delete", "rows", None)
  /\ UNCHANGED <<view, server>>

DeleteFailed(r) ==
  /\ r.reply = Failed /\ Takes(r, "delete")
  /\ view' = Swept([view EXCEPT !.rows = r.arg.before, !.err = TRUE])
  /\ UNCHANGED <<server, left>>

\* What a dialog has done is listed; a worktree it has made is then selected.
DialogDone ==
  /\ view.dialog # None
  /\ \/ view.dialog.item = "chat" /\ UNCHANGED <<server, calls, left>>
     \/ /\ view.dialog.item \in {"history", "rename", "switch"}
        /\ Asks("rows", None) /\ UNCHANGED server
     \/ \E w \in Worktrees \ server.rows :
          /\ view.dialog.item = "worktree"
          /\ server' = [server EXCEPT !.rows = @ \cup {w}] /\ Asks("rows", w)
  /\ view' = [view EXCEPT !.dialog = None]

CloseDialog ==
  /\ view.dialog # None /\ view' = [view EXCEPT !.dialog = None]
  /\ UNCHANGED <<server, calls, left>>

RefreshWorktrees(r) ==
  /\ Takes(r, "rows")
  /\ view' = LET v == IF r.reply = Failed THEN view ELSE [view EXCEPT !.rows = r.reply]
             IN  Swept(IF r.arg = None THEN v ELSE [v EXCEPT !.scope = r.arg])
  /\ UNCHANGED <<server, left>>

-----------------------------------------------------------------------------
(* The edge of the rail, and the page.                                     *)

Clamp(px) == IF px < RailMin THEN RailMin ELSE IF px > RailMax THEN RailMax ELSE px

PointerDown ==
  /\ ~view.dragging /\ Spend("looks") /\ view' = [view EXCEPT !.dragging = TRUE]
  /\ UNCHANGED <<server, calls>>

PointerMove(px) ==
  /\ view.dragging /\ view' = [view EXCEPT !.width = Clamp(px)]
  /\ UNCHANGED <<server, calls, left>>

\* On the handle or anywhere else in the window.
PointerUp ==
  /\ view.dragging /\ view' = [view EXCEPT !.dragging = FALSE]
  /\ server' = [server EXCEPT !.stored.width = view.width]
  /\ UNCHANGED <<calls, left>>

NudgeWidth(px) ==
  /\ ~view.dragging /\ Clamp(px) # view.width /\ Spend("looks")
  /\ view' = [view EXCEPT !.width = Clamp(px)]
  /\ server' = [server EXCEPT !.stored.width = Clamp(px)]
  /\ UNCHANGED calls

\* The page is loaded anew, its scope is in the address.
Reload ==
  /\ left.reloads > 0 /\ left.asks > 0
  /\ left' = [left EXCEPT !.reloads = @ - 1, !.asks = @ - 1]
  /\ view' = [Fresh(view.kind, server.stored) EXCEPT !.scope = view.scope]
  /\ calls' = {Request("rows", None)}
  /\ UNCHANGED server

-----------------------------------------------------------------------------
(* The server and the forge.                                               *)

Serve(r) ==
  /\ r.reply = None
  /\ \/ r.kind = "rows" /\ Answers(r, server.rows) /\ UNCHANGED server
     \/ r.kind = "pull" /\ Answers(r, TRUE) /\ UNCHANGED server
     \/ /\ r.kind = "drift" /\ UNCHANGED server
        /\ Answers(r, [known |-> TRUE, pr |-> server.pr[r.arg], behind |-> r.arg \in server.behind])
     \/ /\ r.kind = "base" /\ Answers(r, TRUE)
        /\ server' = [server EXCEPT !.behind = @ \ {r.arg}]
     \/ /\ r.kind = "merge" /\ Answers(r, IF server.pr[r.arg] = None THEN Failed ELSE TRUE)
        /\ server' = [server EXCEPT !.pr[r.arg] = None]
     \/ /\ r.kind = "delete" /\ Answers(r, TRUE)
        /\ server' = [server EXCEPT !.rows = @ \ {r.arg.row}]
  /\ UNCHANGED <<view, left>>

ForgeMoves(w) ==
  /\ w \in server.rows /\ Spend("forge")
  /\ \/ \E pr \in PullRequests \cup {None} : server' = [server EXCEPT !.pr[w] = pr]
     \/ server' = [server EXCEPT !.behind = @ \cup {w}]
  /\ UNCHANGED <<view, calls>>

Next ==
  \/ PollAllDrift \/ PullProject \/ DeleteWorktree \/ KeepWorktree \/ DialogDone \/ CloseDialog
  \/ PointerDown \/ PointerUp \/ Reload
  \/ \E px \in Widths : PointerMove(px) \/ NudgeWidth(px)
  \/ \E tab \in {"projects", "db", "clickup"} : SetTab(tab)
  \/ \E id \in Ids : \/ SelectRow(id) \/ ToggleExpanded(id) \/ ToggleMenu(id)
                     \/ \E item \in Items(view, id) : OpenDialog(id, item)
  \/ \E w \in Worktrees : \/ FetchDrift(w) \/ DriftChip(w) \/ MergeWorktreeBase(w) \/ MergePr(w)
                          \/ AskRemove(w) \/ ForgeMoves(w)
  \/ \E r \in calls : \/ DriftDone(r) \/ PullDone(r) \/ MergeBaseDone(r) \/ MergePrDone(r)
                      \/ DeleteDone(r) \/ DeleteFailed(r) \/ RefreshWorktrees(r)
                      \/ Serve(r) \/ Fails(r)

Spec == Init /\ [][Next]_panelVars

-----------------------------------------------------------------------------
(* Properties.                                                             *)

\* One repository is never asked for two merges of a base branch at a time,
\* whichever rows' menus they come from, and the row that is marked is the
\* one whose merge is under way.
OneMergeAtATime ==
  /\ Cardinality({r \in calls : r.kind = "base"}) <= 1
  /\ \A r \in calls : r.kind = "base" => view.mergingBase = r.arg
=============================================================================
