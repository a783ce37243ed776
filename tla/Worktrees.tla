----------------------------- MODULE Worktrees -----------------------------
(***************************************************************************)
(* The worktrees of one project: their rows, the directories and branches  *)
(* git keeps for them, the background task that creates one, and the       *)
(* requests that delete, restore and rename one                            *)
(* (crates/agentgrove-api/src/worktrees.rs over agentgrove-store's and     *)
(* agentgrove-git's worktree.rs).                                          *)
(*                                                                         *)
(* Nothing locks a worktree: the task and any number of requests work on   *)
(* it at once, and each statement of the database and each run of git is a *)
(* step of its own.  A row is named by its path, which is unique also      *)
(* among the soft-deleted rows, and a path is what sanitize_branch makes   *)
(* of the branch a worktree was created with.  git's answers follow from   *)
(* the directories, registrations and branches it finds; apart from that   *)
(* any run of it may fail, which counts as a fault.                        *)
(***************************************************************************)
EXTENDS Naturals, FiniteSets

CONSTANTS
  Paths,       \* where worktrees may be
  Branches,    \* branch names
  DirOf,       \* the path create picks for a branch: see sanitize_branch
  Handlers,    \* requests that may be under way at once
  Absent,      \* no row, no request, no branch
  MaxRequests, \* bound on the requests after creation
  MaxFaults    \* bound on crashes, hang-ups, failures of git, deletions by hand

Statuses == {"creating", "pre_script", "ready", "removing", "failed"}
Row      == [branch : Branches, status : Statuses, live : BOOLEAN]

ASSUME ParametersOK ==
  /\ DirOf \in [Branches -> Paths]
  /\ Absent \notin Branches
  /\ Absent \notin Row
  /\ MaxRequests \in Nat /\ MaxFaults \in Nat

VARIABLES
  row,      \* worktrees: per path its row, or Absent
  task,     \* per path: the await its creation is at, or "none"
  made,     \* per path: the branch its creation was asked for
  req,      \* per handler: its request, or Absent
  dirs,     \* paths where a directory exists
  head,     \* per path: the branch git has registered there, or Absent
  branches, \* local branches
  requests, faults, \* how many there have been
  calm,     \* history: nothing has overlapped, been interrupted or contested
  hung,     \* history: paths whose request was dropped and no status set since
  work      \* history: paths whose branch nothing has been asked to delete

gitVars   == <<dirs, head, branches>>
ghostVars == <<calm, hung, work>>
vars == <<row, task, made, req, dirs, head, branches, requests, faults,
          calm, hung, work>>

TaskSteps ==
  {"none", "fetch", "add", "mark", "script", "ready", "fail",
   "undo_tree", "undo_prune", "undo_dir", "undo_branch", "undo_row"}

DeleteSteps  == {"mark", "remove", "rollback", "prune", "branch", "row"}
RestoreSteps == {"look", "ref", "checkout", "fresh", "row", "ready"}
RenameSteps  == {"live", "history", "git", "row"}

\* branch is the row's as read; arg the branch to delete, or the new name.
Request ==
  [op : {"delete"}, at : DeleteSteps, path : Paths, branch : Branches,
   arg : Branches \cup {Absent}]
    \cup
  [op : {"restore"}, at : RestoreSteps, path : Paths, branch : Branches,
   arg : {Absent}]
    \cup
  [op : {"rename"}, at : RenameSteps, path : Paths, branch : Branches,
   arg : Branches]

ASSUME AbsentIsNoRequest == Absent \notin Request

TypeOK ==
  /\ row \in [Paths -> Row \cup {Absent}]
  /\ task \in [Paths -> TaskSteps]
  /\ made \in [Paths -> Branches \cup {Absent}]
  /\ \A p \in Paths : task[p] # "none" => row[p] # Absent /\ made[p] # Absent
  /\ req \in [Handlers -> Request \cup {Absent}]
  /\ \A h \in Handlers : req[h] # Absent => row[req[h].path] # Absent
  /\ dirs \subseteq Paths
  /\ head \in [Paths -> Branches \cup {Absent}]
  /\ branches \subseteq Branches
  /\ requests \in Nat /\ faults \in Nat
  /\ calm \in BOOLEAN /\ hung \subseteq Paths /\ work \subseteq Paths

Init ==
  /\ row = [p \in Paths |-> Absent]
  /\ task = [p \in Paths |-> "none"] /\ made = [p \in Paths |-> Absent]
  /\ req = [h \in Handlers |-> Absent]
  /\ dirs = {} /\ head = [p \in Paths |-> Absent] /\ branches = {}
  /\ requests = 0 /\ faults = 0
  /\ calm = TRUE /\ hung = {} /\ work = {}

Rows     == {p \in Paths : row[p] # Absent}
Live     == {p \in Rows : row[p].live}
On(p)    == {h \in Handlers : req[h] # Absent /\ req[h].path = p}
Held(p)  == task[p] # "none" \/ On(p) # {}
Tree(p)  == p \in dirs /\ head[p] # Absent
Free(p)  == p \notin dirs /\ head[p] = Absent
CheckedOut(b) == \E p \in Paths : head[p] = b

Claim(b) == {p \in Rows : row[p].branch = b}

\* Rows that bear b or are about to.
Claimants(b) ==
  Claim(b) \cup {req[h].path : h \in {g \in Handlers :
                    req[g] # Absent /\ req[g].op = "rename" /\ req[g].arg = b}}

Fault == faults < MaxFaults /\ faults' = faults + 1

\* A step that can succeed fails only as a fault.
Fails(can) == IF can THEN Fault ELSE UNCHANGED faults

-----------------------------------------------------------------------------
\* The statements of the store.

\* set_status, which does not look whether the row is live.
SetStatus(p, s) ==
  /\ row' = [row EXCEPT ![p].status = s]
  /\ hung' = hung \ {p}
  /\ UNCHANGED <<calm, work>>

\* delete: removed_at, if it is not set.
SoftDelete(p) == row' = [row EXCEPT ![p].live = FALSE]

-----------------------------------------------------------------------------
\* git.

\* worktree add -b b: a new branch, checked out at p.
CanAddNew(p, b) == Free(p) /\ b \notin branches

AddNew(p, b) ==
  /\ CanAddNew(p, b)
  /\ dirs' = dirs \cup {p} /\ head' = [head EXCEPT ![p] = b]
  /\ branches' = branches \cup {b}

\* It makes the branch before it checks it out, and may fail in between.
AddNewFails(p, b) ==
  /\ Fails(CanAddNew(p, b))
  /\ branches' \in {branches, IF CanAddNew(p, b) THEN branches \cup {b} ELSE branches}
  /\ UNCHANGED <<dirs, head>>

\* worktree add of a branch that exists.
CanAdd(p, b) == Free(p) /\ b \in branches /\ ~CheckedOut(b)

\* worktree remove --force.
Remove(p) ==
  /\ head[p] # Absent
  /\ dirs' = dirs \ {p} /\ head' = [head EXCEPT ![p] = Absent]
  /\ UNCHANGED <<branches, faults>>

\* "is not a working tree".
NotATree(p) == head[p] = Absent /\ UNCHANGED <<gitVars, faults>>

\* Any other error: it refuses, or it could not delete the directory, when
\* it has given up the registration all the same.
RemoveFails(p) ==
  /\ Fault
  /\ \/ head' = head
     \/ Tree(p) /\ head' = [head EXCEPT ![p] = Absent]
  /\ UNCHANGED <<dirs, branches>>

\* worktree prune: registrations without a directory.
Prune ==
  /\ head' = [p \in Paths |-> IF p \in dirs THEN head[p] ELSE Absent]
  /\ UNCHANGED <<dirs, branches>>

\* branch -D, which fails on a branch that is checked out.
DeleteBranch(b) ==
  /\ IF CheckedOut(b)
       THEN branches' = branches /\ UNCHANGED faults
       ELSE \/ branches' = branches \ {b} /\ UNCHANGED faults
            \/ branches' = branches /\ Fault
  /\ UNCHANGED <<dirs, head>>

CanMove(old, new) == old \in branches /\ new \notin branches

\* branch -m, which moves the checkouts of the branch along.
MoveBranch(old, new) ==
  /\ CanMove(old, new)
  /\ branches' = (branches \ {old}) \cup {new}
  /\ head' = [p \in Paths |-> IF head[p] = old THEN new ELSE head[p]]
  /\ UNCHANGED dirs

-----------------------------------------------------------------------------
\* POST: the row, and the task that creates the worktree.

\* INSERT, which fails on a path that has a row, live or removed.
Create(b) ==
  LET p == DirOf[b]
  IN  /\ row[p] = Absent
      /\ row' = [row EXCEPT ![p] = [branch |-> b, status |-> "creating", live |-> TRUE]]
      /\ task' = [task EXCEPT ![p] = "fetch"]
      /\ made' = [made EXCEPT ![p] = b]
      /\ calm' = (calm /\ Claimants(b) = {})
      /\ UNCHANGED <<req, gitVars, requests, faults, hung, work>>

TaskGoes(p, to) == task' = [task EXCEPT ![p] = to] /\ UNCHANGED <<made, req, requests>>

TaskEnds(p) ==
  /\ task' = [task EXCEPT ![p] = "none"] /\ made' = [made EXCEPT ![p] = Absent]
  /\ UNCHANGED <<req, requests>>

Fetch(p) ==
  /\ task[p] = "fetch"
  /\ \/ TaskGoes(p, "add") /\ UNCHANGED faults
     \/ TaskGoes(p, "fail") /\ Fault
  /\ UNCHANGED <<row, gitVars, ghostVars>>

\* With a pre-script the task goes on to "mark".
AddWorktree(p) ==
  /\ task[p] = "add"
  /\ \/ /\ AddNew(p, made[p]) /\ UNCHANGED faults
        /\ \E to \in {"mark", "ready"} : TaskGoes(p, to)
        /\ work' = work \cup {p}
     \/ AddNewFails(p, made[p]) /\ TaskGoes(p, "fail") /\ UNCHANGED work
  /\ UNCHANGED <<row, calm, hung>>

SetFailed(p) ==
  /\ task[p] = "fail"
  /\ SetStatus(p, "failed") /\ TaskEnds(p)
  /\ UNCHANGED <<gitVars, faults>>

SetPreScript(p) ==
  /\ task[p] = "mark"
  /\ SetStatus(p, "pre_script") /\ TaskGoes(p, "script")
  /\ UNCHANGED <<gitVars, faults>>

\* The script exits with 0, or it does not.
PreScript(p) ==
  /\ task[p] = "script"
  /\ \E to \in {"ready", "undo_tree"} : TaskGoes(p, to)
  /\ UNCHANGED <<row, gitVars, faults, ghostVars>>

SetReady(p) ==
  /\ task[p] = "ready"
  /\ SetStatus(p, "ready") /\ TaskEnds(p)
  /\ UNCHANGED <<gitVars, faults>>

\* cleanup_failed_worktree: every step is taken whatever became of the last.
UndoTree(p) ==
  /\ task[p] = "undo_tree"
  /\ \/ Remove(p) /\ TaskGoes(p, "undo_dir") /\ UNCHANGED calm
     \/ NotATree(p) /\ TaskGoes(p, "undo_prune") /\ UNCHANGED calm
     \/ RemoveFails(p) /\ TaskGoes(p, "undo_prune") /\ calm' = FALSE
  /\ UNCHANGED <<row, hung, work>>

UndoPrune(p) ==
  /\ task[p] = "undo_prune"
  /\ Prune /\ TaskGoes(p, "undo_dir")
  /\ UNCHANGED <<row, faults, ghostVars>>

\* remove_dir_all.
UndoDir(p) ==
  /\ task[p] = "undo_dir"
  /\ \/ dirs' = dirs \ {p} /\ UNCHANGED faults
     \/ p \in dirs /\ dirs' = dirs /\ Fault
  /\ TaskGoes(p, "undo_branch")
  /\ UNCHANGED <<row, head, branches, ghostVars>>

UndoBranch(p) ==
  /\ task[p] = "undo_branch"
  /\ DeleteBranch(made[p]) /\ TaskGoes(p, "undo_row")
  /\ work' = work \ {p}
  /\ UNCHANGED <<row, calm, hung>>

UndoRow(p) ==
  /\ task[p] = "undo_row"
  /\ SoftDelete(p) /\ TaskEnds(p)
  /\ UNCHANGED <<gitVars, faults, ghostVars>>

CreateStep(p) ==
  \/ Fetch(p) \/ AddWorktree(p) \/ SetFailed(p) \/ SetPreScript(p)
  \/ PreScript(p) \/ SetReady(p)
  \/ UndoTree(p) \/ UndoPrune(p) \/ UndoDir(p) \/ UndoBranch(p) \/ UndoRow(p)

-----------------------------------------------------------------------------
\* Requests.  Each begins by reading the row, live or removed.

Begin(h, r) ==
  /\ req[h] = Absent /\ requests < MaxRequests
  /\ req' = [req EXCEPT ![h] = r]
  /\ requests' = requests + 1
  /\ calm' = (calm /\ ~Held(r.path))
  /\ UNCHANGED <<row, task, made, gitVars, faults, hung, work>>

\* h is at that await of that request.
At(h, op, at) == req[h] # Absent /\ req[h].op = op /\ req[h].at = at

Goes(h, to) == req' = [req EXCEPT ![h].at = to] /\ UNCHANGED <<task, made, requests>>
Ends(h)     == req' = [req EXCEPT ![h] = Absent] /\ UNCHANGED <<task, made, requests>>

\* DELETE; then the post-script, of which only the delay matters.
BeginDelete(h, p) ==
  /\ p \in Rows
  /\ \E arg \in {Absent, row[p].branch} :
       Begin(h, [op |-> "delete", at |-> "mark", path |-> p,
                 branch |-> row[p].branch, arg |-> arg])

MarkRemoving(h) ==
  /\ At(h, "delete", "mark")
  /\ SetStatus(req[h].path, "removing") /\ Goes(h, "remove")
  /\ UNCHANGED <<gitVars, faults>>

AfterRemoval(r) == IF r.arg = Absent THEN "row" ELSE "branch"

\* A bug: every error counts as "already gone".
RemoveTreeShrugs(h) ==
  LET p == req[h].path
  IN  /\ At(h, "delete", "remove")
      /\ \/ Remove(p) /\ Goes(h, AfterRemoval(req[h]))
         \/ (NotATree(p) \/ RemoveFails(p)) /\ Goes(h, "prune")
      /\ UNCHANGED <<row, ghostVars>>

\* An error counts as "already gone" when the path is missing or git says
\* that it is not a working tree.
RemoveTree(h) ==
  LET p == req[h].path
  IN  /\ At(h, "delete", "remove")
      /\ \/ Remove(p) /\ Goes(h, AfterRemoval(req[h]))
         \/ NotATree(p) /\ Goes(h, "prune")
         \/ RemoveFails(p) /\ Goes(h, IF p \in dirs THEN "rollback" ELSE "prune")
      /\ UNCHANGED <<row, ghostVars>>

Rollback(h) ==
  /\ At(h, "delete", "rollback")
  /\ SetStatus(req[h].path, "ready") /\ Ends(h)
  /\ UNCHANGED <<gitVars, faults>>

PruneAfter(h) ==
  /\ At(h, "delete", "prune")
  /\ Prune /\ Goes(h, AfterRemoval(req[h]))
  /\ UNCHANGED <<row, faults, ghostVars>>

\* The row goes whether or not the branch did.
DropBranch(h) ==
  /\ At(h, "delete", "branch")
  /\ DeleteBranch(req[h].arg) /\ Goes(h, "row")
  /\ work' = work \ {req[h].path}
  /\ UNCHANGED <<row, calm, hung>>

DeleteRow(h) ==
  /\ At(h, "delete", "row")
  /\ SoftDelete(req[h].path) /\ Ends(h)
  /\ UNCHANGED <<gitVars, faults, ghostVars>>

DeleteStep(h) ==
  \/ MarkRemoving(h) \/ RemoveTree(h) \/ Rollback(h) \/ PruneAfter(h)
  \/ DropBranch(h) \/ DeleteRow(h)

\* POST restore, of a row that is removed.
BeginRestore(h, p) ==
  /\ p \in Rows \ Live
  /\ Begin(h, [op |-> "restore", at |-> "look", path |-> p,
               branch |-> row[p].branch, arg |-> Absent])

\* is_worktree_path; then a path that exists all the same is an error.
LookAtPath(h) ==
  LET p == req[h].path
  IN  /\ At(h, "restore", "look")
      /\ \/ Tree(p) /\ Goes(h, "row") /\ work' = work \cup {p}
         \/ p \in dirs /\ ~Tree(p) /\ Ends(h) /\ UNCHANGED work
         \/ p \notin dirs /\ Goes(h, "ref") /\ UNCHANGED work
      /\ UNCHANGED <<row, gitVars, faults, calm, hung>>

\* branch_exists.
LookAtBranch(h) ==
  /\ At(h, "restore", "ref")
  /\ Goes(h, IF req[h].branch \in branches THEN "checkout" ELSE "fresh")
  /\ UNCHANGED <<row, gitVars, faults, ghostVars>>

CheckOut(h) ==
  LET p == req[h].path  b == req[h].branch
  IN  /\ At(h, "restore", "checkout")
      /\ \/ /\ CanAdd(p, b) /\ Goes(h, "row")
            /\ dirs' = dirs \cup {p} /\ head' = [head EXCEPT ![p] = b]
            /\ work' = work \cup {p} /\ UNCHANGED faults
         \/ Fails(CanAdd(p, b)) /\ Ends(h) /\ UNCHANGED <<dirs, head, work>>
      /\ UNCHANGED <<row, branches, calm, hung>>

\* From the remote's base_ref, or else from the local one.
AddFresh(h) ==
  LET p == req[h].path  b == req[h].branch
  IN  /\ At(h, "restore", "fresh")
      /\ \/ /\ AddNew(p, b) /\ Goes(h, "row")
            /\ work' = work \cup {p} /\ UNCHANGED faults
         \/ AddNewFails(p, b) /\ Ends(h) /\ UNCHANGED work
      /\ UNCHANGED <<row, calm, hung>>

\* restore: a row that is live by now answers 409.
RestoreRow(h) ==
  LET p == req[h].path
  IN  /\ At(h, "restore", "row")
      /\ IF row[p].live THEN Ends(h) ELSE Goes(h, "ready")
      /\ row' = [row EXCEPT ![p].live = TRUE]
      /\ UNCHANGED <<gitVars, faults, ghostVars>>

RestoreReady(h) ==
  /\ At(h, "restore", "ready")
  /\ SetStatus(req[h].path, "ready") /\ Ends(h)
  /\ UNCHANGED <<gitVars, faults>>

RestoreStep(h) ==
  \/ LookAtPath(h) \/ LookAtBranch(h) \/ CheckOut(h) \/ AddFresh(h)
  \/ RestoreRow(h) \/ RestoreReady(h)

\* PATCH with another branch name.
BeginRename(h, p, b) ==
  /\ p \in Rows /\ row[p].branch # b
  /\ Begin(h, [op |-> "rename", at |-> "live", path |-> p,
               branch |-> row[p].branch, arg |-> b])

\* The collision check: two queries.
CheckLive(h) ==
  /\ At(h, "rename", "live")
  /\ IF Claim(req[h].arg) \cap (Live \ {req[h].path}) = {} THEN Goes(h, "history") ELSE Ends(h)
  /\ UNCHANGED <<row, gitVars, faults, ghostVars>>

CheckHistory(h) ==
  /\ At(h, "rename", "history")
  /\ IF Claim(req[h].arg) \subseteq Live THEN Goes(h, "git") ELSE Ends(h)
  /\ UNCHANGED <<row, gitVars, faults, ghostVars>>

RenameBranch(h) ==
  LET r == req[h]
  IN  /\ At(h, "rename", "git")
      /\ \/ /\ MoveBranch(r.branch, r.arg) /\ Goes(h, "row") /\ UNCHANGED faults
            /\ calm' = (calm /\ Claimants(r.arg) = {r.path})
         \/ /\ Fails(CanMove(r.branch, r.arg)) /\ Ends(h)
            /\ UNCHANGED <<gitVars, calm>>
      /\ UNCHANGED <<row, hung, work>>

\* A bug: the statement looks for a live row.
RenameLiveRow(h) ==
  /\ At(h, "rename", "row")
  /\ row' = IF row[req[h].path].live
              THEN [row EXCEPT ![req[h].path].branch = req[h].arg] ELSE row
  /\ Ends(h)
  /\ UNCHANGED <<gitVars, faults, ghostVars>>

\* rename, which does not look whether the row is live.
RenameRow(h) ==
  /\ At(h, "rename", "row")
  /\ row' = [row EXCEPT ![req[h].path].branch = req[h].arg]
  /\ Ends(h)
  /\ UNCHANGED <<gitVars, faults, ghostVars>>

RenameStep(h) ==
  CheckLive(h) \/ CheckHistory(h) \/ RenameBranch(h) \/ RenameRow(h)

-----------------------------------------------------------------------------
\* Interruptions.

\* The client goes away, and the server drops the handler where it waits.
HangUp(h) ==
  /\ req[h] # Absent /\ Fault
  /\ calm' = FALSE /\ hung' = hung \cup {req[h].path}
  /\ Ends(h)
  /\ UNCHANGED <<row, gitVars, work>>

\* A bug in recover_stale_lifecycle: it forgets the removals.
RecoveredCreations(r) ==
  IF r = Absent \/ ~r.live THEN r
  ELSE [r EXCEPT !.status = IF @ \in {"creating", "pre_script"} THEN "failed" ELSE @]

\* recover_stale_lifecycle.
Recovered(r) ==
  IF r = Absent \/ ~r.live THEN r
  ELSE [r EXCEPT !.status = IF @ \in {"creating", "pre_script"} THEN "failed"
                            ELSE IF @ = "removing" THEN "ready" ELSE @]

\* The server stops and starts again.
Restart ==
  /\ Fault
  /\ row' = [p \in Paths |-> Recovered(row[p])]
  /\ task' = [p \in Paths |-> "none"] /\ made' = [p \in Paths |-> Absent]
  /\ req' = [h \in Handlers |-> Absent]
  /\ calm' = (calm /\ \A p \in Paths : ~Held(p)) /\ hung' = {}
  /\ UNCHANGED <<gitVars, requests, work>>

\* The user deletes a directory by hand.
DeletedByHand(p) ==
  /\ p \in dirs /\ Fault
  /\ dirs' = dirs \ {p}
  /\ calm' = FALSE
  /\ UNCHANGED <<row, task, made, req, head, branches, requests, hung, work>>

Next ==
  \/ \E b \in Branches : Create(b)
  \/ \E p \in Paths : CreateStep(p) \/ DeletedByHand(p)
  \/ \E h \in Handlers, p \in Paths : BeginDelete(h, p) \/ BeginRestore(h, p)
  \/ \E h \in Handlers, p \in Paths, b \in Branches : BeginRename(h, p, b)
  \/ \E h \in Handlers : DeleteStep(h) \/ RestoreStep(h) \/ RenameStep(h) \/ HangUp(h)
  \/ Restart

Spec == Init /\ [][Next]_vars

-----------------------------------------------------------------------------
\* Properties.

\* No live row is left in a passing status: while it says that it is being
\* created, or removed, somebody is at work on it who will set another status
\* or remove the row, unless a client hung up in the middle of a request on
\* it.  This holds across overlapping requests, failures of git and restarts,
\* which is what the rollback of delete and recover_stale_lifecycle are for.
Restoring(p) == \E h \in On(p) : At(h, "restore", "ready")
Removing(p)  == \E h \in On(p) : req[h].op = "delete" /\ req[h].at # "mark"

Attended ==
  \A p \in Live \ hung :
    /\ row[p].status \in {"creating", "pre_script"} => task[p] # "none" \/ Restoring(p)
    /\ row[p].status = "removing" => Removing(p) \/ Restoring(p)

\* The rows tell what is on disk.  Of a worktree nobody is at work on: git has
\* at most the row's own branch checked out there, and only while the row is
\* live; the path of a ready row exists; that of a failed one is free.  This
\* holds as long as no two operations on it overlapped, none was interrupted,
\* git did not fail in the cleanup after a pre-script, nobody deleted the
\* directory by hand and no other row took its branch name.
Settled == {p \in Rows : calm /\ ~Held(p)}

RowsMatchDisk ==
  \A p \in Settled :
    /\ head[p] # Absent => row[p].live /\ head[p] = row[p].branch
    /\ row[p].live /\ row[p].status = "ready" => p \in dirs
    /\ row[p].live /\ row[p].status = "failed" => Free(p)

\* Under the same conditions, the branch of a worktree survives until a delete
\* of that worktree asks for it or its own pre-script fails: also while the
\* row is in the history, whatever is done to other worktrees meanwhile.
WorkIsKept == \A p \in Settled \cap work : row[p].branch \in branches

=============================================================================
