------------------------------ MODULE Projects ------------------------------
(***************************************************************************)
(* The list of projects: the folder picker that adds one                   *)
(* (features/projects/FolderPicker.tsx), its removal, and the store's      *)
(* reading of the list with every project's worktrees.                     *)
(***************************************************************************)
EXTENDS Requests

CONSTANTS
  Home,       \* where the picker starts
  Dirs,       \* folders the user may make, below Home or one of them
  Up,         \* the parent of each
  Budgets

Init ==
  \E readable \in SUBSET Dirs, b \in Budgets : \E added \in SUBSET readable :
    /\ left = b /\ calls = {}
    /\ server = [dirs |-> {Home} \cup readable, projects |-> added]
    /\ view = [picking |-> FALSE, at |-> None, entries |-> {}, loading |-> FALSE,
               creating |-> FALSE, busy |-> FALSE, err |-> FALSE, confirming |-> None,
               projects |-> added, selected |-> None, worktrees |-> {}]

-----------------------------------------------------------------------------
(* The picker.                                                             *)

\* Mounting asks for the home folder, and then browses it.
Open ==
  /\ ~view.picking /\ Asks("home", None)
  /\ view' = [view EXCEPT !.picking = TRUE, !.at = None, !.entries = {}, !.loading = FALSE,
                          !.creating = FALSE, !.busy = FALSE, !.err = FALSE]
  /\ UNCHANGED server

HomeDone(r) ==
  /\ view.picking
  /\ \/ /\ r.reply # Failed /\ TakesAsking(r, "home", "browse", [dir |-> Home, made |-> FALSE])
        /\ view' = [view EXCEPT !.loading = TRUE, !.err = FALSE]
     \/ /\ r.reply = Failed /\ Takes(r, "home") /\ UNCHANGED left
        /\ view' = [view EXCEPT !.err = TRUE]
  /\ UNCHANGED server

\* The path's folders, the parent, and the entries that can be read.
Crumbs(v) ==
  IF v.at = None THEN {} ELSE {v.at, Home} \cup (IF v.at = Home THEN {} ELSE {Up[v.at]})

Targets(v) == Crumbs(v) \cup IF v.loading THEN {} ELSE v.entries

Navigate(dir) ==
  /\ view.picking /\ dir \in Targets(view)
  /\ Asks("browse", [dir |-> dir, made |-> FALSE])
  /\ view' = [view EXCEPT !.loading = TRUE, !.err = FALSE]
  /\ UNCHANGED server

\* Whichever answer comes last is the folder that "Select" selects.
Browsed(r) ==
  /\ view.picking /\ Takes(r, "browse")
  /\ LET v == [view EXCEPT !.loading = FALSE, !.busy = IF r.arg.made THEN FALSE ELSE @] IN
     view' = IF r.reply = Failed THEN [v EXCEPT !.err = TRUE]
             ELSE [v EXCEPT !.at = r.reply.at, !.entries = r.reply.entries]
  /\ UNCHANGED <<server, left>>

\* "New folder" becomes a field, which Escape or Cancel takes back.
startCreate ==
  /\ view.picking /\ view.at # None
  /\ view' = [view EXCEPT !.creating = ~@, !.err = IF view.creating THEN @ ELSE FALSE]
  /\ UNCHANGED <<server, calls, left>>

submitCreate(dir) ==
  /\ view.picking /\ view.creating /\ view.at # None /\ dir \in Dirs /\ Up[dir] = view.at
  /\ ~view.busy /\ Asks("mkdir", dir)
  /\ view' = [view EXCEPT !.busy = TRUE, !.err = FALSE]
  /\ UNCHANGED server

\* The new folder is browsed, the button is free when that is done.
Created(r) ==
  /\ view.picking
  /\ \/ /\ r.reply # Failed /\ TakesAsking(r, "mkdir", "browse", [dir |-> r.arg, made |-> TRUE])
        /\ view' = [view EXCEPT !.creating = FALSE, !.loading = TRUE, !.err = FALSE]
     \/ /\ r.reply = Failed /\ Takes(r, "mkdir") /\ UNCHANGED left
        /\ view' = [view EXCEPT !.busy = FALSE, !.err = TRUE]
  /\ UNCHANGED server

OfPicker == {r \in calls : r.kind \in {"home", "browse", "mkdir"}}

Cancel ==
  /\ view.picking /\ view' = [view EXCEPT !.picking = FALSE] /\ calls' = calls \ OfPicker
  /\ UNCHANGED <<server, left>>

onSelect ==
  /\ view.picking /\ view.at # None
  /\ Asks("create", view.at) /\ view' = [view EXCEPT !.err = FALSE]
  /\ UNCHANGED server

-----------------------------------------------------------------------------
(* The list.                                                               *)

\* The picker closes, and the projects are read.
Added(r) ==
  /\ r \in calls /\ r.kind = "create"
  /\ \/ /\ r.reply \notin {None, Failed} /\ Spend("asks")
        /\ calls' = (calls \ (OfPicker \cup {r})) \cup {Request("projects", None)}
        /\ view' = [view EXCEPT !.picking = FALSE]
     \/ /\ r.reply = Failed /\ Takes(r, "create") /\ UNCHANGED left
        /\ view' = [view EXCEPT !.err = TRUE]
  /\ UNCHANGED server

AskRemove(p) ==
  /\ p \in view.projects /\ view.confirming = None /\ ~view.picking
  /\ view' = [view EXCEPT !.confirming = p]
  /\ UNCHANGED <<server, calls, left>>

deleteProject ==
  /\ view.confirming # None /\ Asks("delete", view.confirming)
  /\ view' = [view EXCEPT !.confirming = None]
  /\ UNCHANGED server

\* Nothing catches a failure here: the list stays as it is.
Removed(r) ==
  /\ \/ r.reply # Failed /\ TakesAsking(r, "delete", "projects", None)
     \/ r.reply = Failed /\ Takes(r, "delete") /\ UNCHANGED left
  /\ UNCHANGED <<view, server>>

\* Every project's worktrees are read before one is selected (whose worktrees
\* are then read once more, as Rail has it).
refreshProjects(r) ==
  /\ \/ /\ r.reply # Failed /\ TakesAsking(r, "projects", "worktrees", r.reply)
        /\ view' = [view EXCEPT !.projects = r.reply.projects]
     \/ /\ r.reply = Failed /\ Takes(r, "projects") /\ UNCHANGED <<view, left>>
  /\ UNCHANGED server

WorktreesListed(r) ==
  /\ Takes(r, "worktrees")
  /\ \E first \in r.arg.projects \cup {None} :
       /\ (first = None) = (r.arg.projects = {})
       /\ view' = [view EXCEPT !.worktrees = @ \cup r.arg.projects,
                               !.selected = IF @ = None THEN first ELSE @]
  /\ UNCHANGED <<server, left>>

-----------------------------------------------------------------------------
(* The server.                                                             *)

Serve(r) ==
  /\ \/ r.kind \in {"home", "worktrees"} /\ Answers(r, TRUE) /\ UNCHANGED server
     \/ /\ r.kind = "browse" /\ UNCHANGED server
        /\ Answers(r, [at |-> r.arg.dir, entries |-> {d \in server.dirs \ {Home} : Up[d] = r.arg.dir}])
     \/ r.kind = "mkdir" /\ Answers(r, TRUE) /\ server' = [server EXCEPT !.dirs = @ \cup {r.arg}]
     \/ r.kind = "projects" /\ Answers(r, [projects |-> server.projects]) /\ UNCHANGED server
     \/ r.kind = "create" /\ Answers(r, TRUE) /\ server' = [server EXCEPT !.projects = @ \cup {r.arg}]
     \/ r.kind = "delete" /\ Answers(r, TRUE) /\ server' = [server EXCEPT !.projects = @ \ {r.arg}]
  /\ UNCHANGED <<view, left>>

Next ==
  \/ Open \/ startCreate \/ Cancel \/ onSelect \/ deleteProject
  \/ \E dir \in {Home} \cup Dirs : Navigate(dir) \/ submitCreate(dir) \/ AskRemove(dir)
  \/ \E r \in calls : \/ HomeDone(r) \/ Browsed(r) \/ Created(r) \/ Added(r) \/ Removed(r)
                      \/ refreshProjects(r) \/ WorktreesListed(r) \/ Serve(r) \/ Fails(r)

Spec == Init /\ [][Next]_panelVars

-----------------------------------------------------------------------------
(* Properties.                                                             *)

\* One folder is made at a time.
OneSubmitAtATime == Cardinality({r \in calls : r.kind = "mkdir"}) <= 1
=============================================================================
