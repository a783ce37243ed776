------------------------------ MODULE FileTree ------------------------------
(***************************************************************************)
(* The tree of files under a project's or a worktree's row (DirNode,       *)
(* FolderRow and FileRow of shells/desktop/LeftRail.tsx), and the one of   *)
(* ProjectFiles.tsx, which neither refreshes nor deletes.  Two levels.     *)
(*                                                                         *)
(* Every open folder holds a resource: it takes the answer of its newest   *)
(* request only.  A deletion moves the refresh key of the tree, and every  *)
(* folder on the screen asks again; an answer makes new rows, so what was  *)
(* open below them is closed.                                              *)
(***************************************************************************)
EXTENDS Requests, Functions

CONSTANTS
  Top,        \* the root of the tree
  Folders,    \* the folders in it
  Files,
  Parent,     \* the folder of each file, Top for a folder
  Budgets

Nodes == Folders \cup Files

\* A folder's rows, from the request that was made `asked`.
NodeOf(asked) == [rows |-> {}, loading |-> TRUE, asked |-> asked, shown |-> asked - 1]

Init ==
  \E deletes \in BOOLEAN, b \in Budgets :
    /\ left = [b EXCEPT !.asks = @ - 1]
    /\ server = [tree |-> Nodes]
    /\ view = [deletes |-> deletes, nodes |-> [f \in {Top} |-> NodeOf(-b.asks)],
               menu |-> None, confirming |-> None, deleting |-> {}, selected |-> None]
    /\ calls = {[n |-> -b.asks, kind |-> "tree", arg |-> Top, reply |-> None]}

Open(v) == DOMAIN v.nodes
OnScreen(v) == UNION {v.nodes[f].rows : f \in Open(v)}

-----------------------------------------------------------------------------
(* Folders.                                                                *)

OpenFolder(f) ==
  /\ f \in OnScreen(view) \cap Folders /\ f \notin Open(view)
  /\ Asks("tree", f)
  /\ view' = [view EXCEPT !.nodes = [g \in Open(view) \cup {f} |-> IF g = f THEN NodeOf(Now) ELSE @[g]]]
  /\ UNCHANGED server

\* The rows that go, with their menu and their marks, when those of a folder do.
Remade(f) == {x \in Nodes : f = Top \/ Parent[x] = f}

ShutFolder(f) ==
  /\ f \in Open(view) \ {Top}
  /\ view' = [view EXCEPT !.nodes = Restrict(@, Open(view) \ {f}), !.deleting = @ \ Remade(f),
                          !.menu = IF @ \in Remade(f) THEN None ELSE @]
  /\ UNCHANGED <<server, calls, left>>

Reloading(v) ==
  [v EXCEPT !.nodes = [f \in Open(v) |-> [@[f] EXCEPT !.loading = TRUE, !.asked = Now]]]

\* "Refresh files" of the menu, a pull, another branch.
RefreshTree ==
  /\ view.deletes /\ AsksEach("tree", Open(view)) /\ view' = Reloading(view)
  /\ UNCHANGED server

\* The rows of the top are new, and closed.
Taken(v, r) ==
  IF r.arg \notin Open(v) \/ r.n # v.nodes[r.arg].asked THEN v
  ELSE [v EXCEPT
          !.nodes = [f \in IF r.arg = Top THEN {Top} ELSE Open(v) |->
            IF f # r.arg THEN @[f]
            ELSE [@[f] EXCEPT !.rows = IF r.reply = Failed THEN {} ELSE r.reply,
                              !.loading = FALSE, !.shown = r.n]],
          !.menu = IF @ \in Remade(r.arg) THEN None ELSE @, !.deleting = @ \ Remade(r.arg)]

TreeDone(r) ==
  /\ Takes(r, "tree") /\ view' = Taken(view, r)
  /\ UNCHANGED <<server, left>>

-----------------------------------------------------------------------------
(* Rows.                                                                   *)

SelectFile(f) ==
  /\ f \in OnScreen(view) \cap Files /\ f # view.selected
  /\ Spend("looks") /\ view' = [view EXCEPT !.selected = f]
  /\ UNCHANGED <<server, calls>>

\* A right click, or the kebab; both kinds of row have the one item.
MenuOf(x, rows) ==
  /\ view.deletes /\ x \in rows /\ x \notin view.deleting /\ view.confirming = None
  /\ Spend("looks") /\ view' = [view EXCEPT !.menu = x]
  /\ UNCHANGED <<server, calls>>

FolderMenu(f) == MenuOf(f, OnScreen(view) \cap Folders)
FileMenu(f)   == MenuOf(f, OnScreen(view) \cap Files)

CloseMenu ==
  /\ view.menu # None /\ view' = [view EXCEPT !.menu = None]
  /\ UNCHANGED <<server, calls, left>>

AskDelete ==
  /\ view.menu # None /\ view' = [view EXCEPT !.menu = None, !.confirming = view.menu]
  /\ UNCHANGED <<server, calls, left>>

Keep ==
  /\ view.confirming # None /\ view' = [view EXCEPT !.confirming = None]
  /\ UNCHANGED <<server, calls, left>>

Delete ==
  /\ view.confirming # None
  /\ Asks("delete", view.confirming)
  /\ view' = [view EXCEPT !.deleting = @ \cup {view.confirming}, !.confirming = None]
  /\ UNCHANGED server

Deleted(r) ==
  /\ r.reply # Failed /\ TakesAskingEach(r, "delete", "tree", Open(view))
  /\ view' = [Reloading(view) EXCEPT !.deleting = @ \ {r.arg}]
  /\ UNCHANGED server

DeleteFailed(r) ==
  /\ r.reply = Failed /\ Takes(r, "delete")
  /\ view' = [view EXCEPT !.deleting = @ \ {r.arg}]
  /\ UNCHANGED <<server, left>>

-----------------------------------------------------------------------------
(* The server: an unreadable folder has no entries, one that is not empty  *)
(* goes with what is in it.                                                *)

ServeTree(r) ==
  /\ r.kind = "tree"
  /\ Answers(r, {x \in server.tree : Parent[x] = r.arg})
  /\ UNCHANGED <<view, server, left>>

ServeDelete(r) ==
  /\ r.kind = "delete"
  /\ IF r.arg \in server.tree
     THEN /\ Answers(r, TRUE)
          /\ server' = [server EXCEPT !.tree = {x \in @ : r.arg \notin {x, Parent[x]}}]
     ELSE Answers(r, Failed) /\ UNCHANGED server
  /\ UNCHANGED <<view, left>>

Next ==
  \/ RefreshTree \/ CloseMenu \/ AskDelete \/ Keep \/ Delete
  \/ \E f \in Folders : OpenFolder(f) \/ ShutFolder(f) \/ FolderMenu(f)
  \/ \E f \in Files : SelectFile(f) \/ FileMenu(f)
  \/ \E r \in calls : \/ TreeDone(r) \/ Deleted(r) \/ DeleteFailed(r)
                      \/ ServeTree(r) \/ ServeDelete(r) \/ Fails(r)

Spec == Init /\ [][Next]_panelVars

=============================================================================
