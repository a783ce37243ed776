-------------------------- MODULE Worktrees_proofs --------------------------
(* Theorems about Worktrees, for every set of paths, branches and handlers. *)
EXTENDS Worktrees, TLAPS

-----------------------------------------------------------------------------
\* The type invariant, in parts.

TaskOK ==
  /\ task \in [Paths -> TaskSteps]
  /\ made \in [Paths -> Branches \cup {Absent}]
  /\ \A p \in Paths : task[p] # "none" => row[p] # Absent /\ made[p] # Absent

ReqOK ==
  /\ req \in [Handlers -> Request \cup {Absent}]
  /\ \A h \in Handlers : req[h] # Absent => row[req[h].path] # Absent

RowOK == row \in [Paths -> Row \cup {Absent}]

GitOK ==
  dirs \subseteq Paths /\ head \in [Paths -> Branches \cup {Absent}] /\ branches \subseteq Branches

CountOK == requests \in Nat /\ faults \in Nat

GhostOK == calm \in BOOLEAN /\ hung \subseteq Paths /\ work \subseteq Paths

LEMMA Parts == TypeOK <=> RowOK /\ TaskOK /\ ReqOK /\ GitOK /\ CountOK /\ GhostOK
BY DEF TypeOK, RowOK, TaskOK, ReqOK, GitOK, CountOK, GhostOK

LEMMA PartsNext == ASSUME RowOK', TaskOK', ReqOK', GitOK', CountOK', GhostOK' PROVE TypeOK'
BY DEF TypeOK, RowOK, TaskOK, ReqOK, GitOK, CountOK, GhostOK

\* No row vanishes.
Kept == \A p \in Paths : row[p] # Absent => row'[p] # Absent

-----------------------------------------------------------------------------
\* What the steps are made of.

\* A request that goes on keeps its kind and path, and the task is left alone.
LEMMA GoesType ==
  ASSUME TaskOK, ReqOK, Kept, NEW h \in Handlers, req[h] # Absent, NEW to,
         \/ req[h].op = "delete" /\ to \in DeleteSteps
         \/ req[h].op = "restore" /\ to \in RestoreSteps
         \/ req[h].op = "rename" /\ to \in RenameSteps,
         Goes(h, to)
  PROVE  TaskOK' /\ ReqOK' /\ requests' = requests
<1>1. req[h] \in Request
  BY DEF ReqOK
<1>2. [req[h] EXCEPT !.at = to] \in Request /\ [req[h] EXCEPT !.at = to].path = req[h].path
  BY <1>1 DEF Request
<1>3. \A g \in Handlers : req[g] # Absent => req[g].path \in Paths
  BY DEF ReqOK, Request
<1>4. req' = [req EXCEPT ![h] = [req[h] EXCEPT !.at = to]]
  BY DEF Goes
<1>5. ReqOK'
  BY <1>2, <1>3, <1>4 DEF ReqOK, Kept
<1>6. TaskOK' /\ requests' = requests
  BY DEF TaskOK, Kept, Goes
<1>. QED BY <1>5, <1>6

LEMMA EndsType ==
  ASSUME TaskOK, ReqOK, Kept, NEW h \in Handlers, Ends(h)
  PROVE  TaskOK' /\ ReqOK' /\ requests' = requests
<1>1. \A g \in Handlers : req[g] # Absent => req[g].path \in Paths
  BY DEF ReqOK, Request
<1>2. ReqOK'
  BY <1>1 DEF ReqOK, Kept, Ends
<1>3. TaskOK' /\ requests' = requests
  BY DEF TaskOK, Kept, Ends
<1>. QED BY <1>2, <1>3

LEMMA ReqKept ==
  ASSUME ReqOK, Kept, req' = req PROVE ReqOK'
<1>1. \A g \in Handlers : req[g] # Absent => req[g].path \in Paths
  BY DEF ReqOK, Request
<1>. QED BY <1>1 DEF ReqOK, Kept

LEMMA TaskGoesType ==
  ASSUME TaskOK, ReqOK, Kept, NEW p \in Paths, task[p] # "none",
         NEW to \in TaskSteps, TaskGoes(p, to)
  PROVE  TaskOK' /\ ReqOK' /\ requests' = requests
<1>1. TaskOK' /\ requests' = requests
  BY DEF TaskOK, Kept, TaskGoes
<1>2. ReqOK'
  BY ReqKept DEF TaskGoes
<1>. QED BY <1>1, <1>2

LEMMA TaskEndsType ==
  ASSUME TaskOK, ReqOK, Kept, NEW p \in Paths, TaskEnds(p)
  PROVE  TaskOK' /\ ReqOK' /\ requests' = requests
<1>1. TaskOK' /\ requests' = requests
  BY DEF TaskOK, Kept, TaskEnds, TaskSteps
<1>2. ReqOK'
  BY ReqKept DEF TaskEnds
<1>. QED BY <1>1, <1>2

LEMMA SetStatusType ==
  ASSUME ParametersOK, RowOK, GhostOK, NEW p \in Paths, row[p] # Absent,
         NEW s \in Statuses, SetStatus(p, s)
  PROVE  RowOK' /\ GhostOK' /\ Kept
<1>1. [row[p] EXCEPT !.status = s] \in Row
  BY DEF RowOK, Row
<1>2. row' = [row EXCEPT ![p] = [row[p] EXCEPT !.status = s]]
  BY DEF SetStatus
<1>3. RowOK' /\ Kept
  BY <1>1, <1>2 DEF RowOK, Kept, ParametersOK
<1>4. GhostOK'
  BY DEF GhostOK, SetStatus
<1>. QED BY <1>3, <1>4

LEMMA LiveType ==
  ASSUME ParametersOK, RowOK, NEW p \in Paths, row[p] # Absent, NEW l \in BOOLEAN,
         row' = [row EXCEPT ![p].live = l]
  PROVE  RowOK' /\ Kept
<1>1. [row[p] EXCEPT !.live = l] \in Row
  BY DEF RowOK, Row
<1>2. row' = [row EXCEPT ![p] = [row[p] EXCEPT !.live = l]]
  OBVIOUS
<1>. QED BY <1>1, <1>2 DEF RowOK, Kept, ParametersOK

LEMMA SameRow == ASSUME RowOK, row' = row PROVE RowOK' /\ Kept
BY DEF RowOK, Kept

LEMMA FaultType == ASSUME CountOK, Fault, requests' = requests PROVE CountOK'
BY DEF CountOK, Fault

LEMMA FailsType == ASSUME CountOK, NEW c \in BOOLEAN, Fails(c), requests' = requests PROVE CountOK'
BY DEF CountOK, Fails, Fault

LEMMA SameCount == ASSUME CountOK, UNCHANGED <<requests, faults>> PROVE CountOK'
BY DEF CountOK

LEMMA GitType ==
  ASSUME GitOK, NEW p \in Paths, NEW b \in Branches, NEW c \in Branches,
         \/ AddNew(p, b)
         \/ AddNewFails(p, b)
         \/ Remove(p)
         \/ NotATree(p)
         \/ RemoveFails(p)
         \/ Prune
         \/ DeleteBranch(b)
         \/ MoveBranch(b, c)
         \/ UNCHANGED gitVars
  PROVE  GitOK'
<1>1. CASE AddNew(p, b)
  BY <1>1 DEF GitOK, AddNew
<1>2. CASE AddNewFails(p, b)
  BY <1>2 DEF GitOK, AddNewFails
<1>3. CASE Remove(p)
  BY <1>3 DEF GitOK, Remove
<1>4. CASE NotATree(p)
  BY <1>4 DEF GitOK, NotATree, gitVars
<1>5. CASE RemoveFails(p)
  BY <1>5 DEF GitOK, RemoveFails
<1>6. CASE Prune
  BY <1>6 DEF GitOK, Prune
<1>7. CASE DeleteBranch(b)
  BY <1>7 DEF GitOK, DeleteBranch
<1>8. CASE MoveBranch(b, c)
  BY <1>8 DEF GitOK, MoveBranch
<1>9. CASE UNCHANGED gitVars
  BY <1>9 DEF GitOK, gitVars
<1>. QED BY <1>1, <1>2, <1>3, <1>4, <1>5, <1>6, <1>7, <1>8, <1>9

-----------------------------------------------------------------------------
\* Each step keeps the types.

LEMMA InitType == ASSUME ParametersOK, Init PROVE TypeOK
<1>1. RowOK /\ TaskOK
  BY DEF Init, RowOK, TaskOK, TaskSteps
<1>2. ReqOK
  BY DEF Init, ReqOK
<1>3. GitOK /\ CountOK /\ GhostOK
  BY DEF Init, GitOK, CountOK, GhostOK
<1>. QED BY <1>1, <1>2, <1>3, Parts

LEMMA CreateType == ASSUME ParametersOK, TypeOK, NEW b \in Branches, Create(b) PROVE TypeOK'
<1>. DEFINE p == DirOf[b]  new == [branch |-> b, status |-> "creating", live |-> TRUE]
<1>1. p \in Paths /\ new \in Row /\ new # Absent /\ b # Absent
  <2>1. new \in Row
    BY DEF Row, Statuses
  <2>. QED BY <2>1 DEF ParametersOK
<1>2. row' = [row EXCEPT ![p] = new] /\ row[p] = Absent
  BY DEF Create
<1>. HIDE DEF new, p
<1>3. RowOK' /\ Kept
  BY <1>1, <1>2, Parts DEF RowOK, Kept
<1>4. task' = [task EXCEPT ![p] = "fetch"] /\ made' = [made EXCEPT ![p] = b]
  BY DEF Create, p
<1>5. TaskOK'
  BY <1>1, <1>2, <1>3, <1>4, Parts DEF TaskOK, TaskSteps, Kept, RowOK
<1>6. ReqOK'
  BY <1>3, ReqKept, Parts DEF Create
<1>7. GitOK' /\ CountOK'
  BY Parts DEF Create, gitVars, GitOK, CountOK
<1>8. GhostOK'
  BY Parts DEF Create, GhostOK
<1>. QED BY <1>3, <1>5, <1>6, <1>7, <1>8, PartsNext

LEMMA CreateStepType ==
  ASSUME ParametersOK, TypeOK, NEW p \in Paths, CreateStep(p) PROVE TypeOK'
<1>. USE Parts, PartsNext
<1>0. task[p] # "none" => row[p] # Absent /\ made[p] \in Branches
  BY DEF TaskOK
<1>1. CASE Fetch(p)
  <2>1. RowOK' /\ Kept
    BY <1>1, SameRow DEF Fetch
  <2>2. TaskOK' /\ ReqOK' /\ requests' = requests
    BY <1>1, <2>1, TaskGoesType DEF Fetch, TaskSteps
  <2>3. CountOK'
    BY <1>1, <2>2, FaultType, SameCount DEF Fetch
  <2>. QED BY <1>1, <2>1, <2>2, <2>3 DEF Fetch, GitOK, GhostOK, gitVars, ghostVars
<1>2. CASE AddWorktree(p)
  <2>1. RowOK' /\ Kept
    BY <1>2, SameRow DEF AddWorktree
  <2>2. TaskOK' /\ ReqOK' /\ requests' = requests
    BY <1>2, <2>1, TaskGoesType DEF AddWorktree, TaskSteps
  <2>3. CountOK'
    <3>. CanAddNew(p, made[p]) \in BOOLEAN
      BY DEF CanAddNew
    <3>. QED BY <1>2, <2>2, FailsType, SameCount DEF AddWorktree, AddNewFails
  <2>4. GitOK'
    BY <1>0, <1>2, GitType DEF AddWorktree
  <2>. QED BY <1>2, <2>1, <2>2, <2>3, <2>4 DEF AddWorktree, GhostOK
<1>3. CASE SetFailed(p) \/ SetPreScript(p) \/ SetReady(p)
  <2>1. RowOK' /\ GhostOK' /\ Kept
    BY <1>0, <1>3, SetStatusType DEF SetFailed, SetPreScript, SetReady, Statuses
  <2>2. TaskOK' /\ ReqOK' /\ requests' = requests
    BY <1>3, <2>1, TaskGoesType, TaskEndsType DEF SetFailed, SetPreScript, SetReady, TaskSteps
  <2>. QED BY <1>3, <2>1, <2>2 DEF SetFailed, SetPreScript, SetReady, GitOK, CountOK, gitVars
<1>4. CASE PreScript(p)
  <2>1. RowOK' /\ Kept
    BY <1>4, SameRow DEF PreScript
  <2>2. TaskOK' /\ ReqOK' /\ requests' = requests
    BY <1>4, <2>1, TaskGoesType DEF PreScript, TaskSteps
  <2>. QED BY <1>4, <2>1, <2>2 DEF PreScript, GitOK, CountOK, GhostOK, gitVars, ghostVars
<1>5. CASE UndoTree(p)
  <2>1. RowOK' /\ Kept
    BY <1>5, SameRow DEF UndoTree
  <2>2. TaskOK' /\ ReqOK' /\ requests' = requests
    BY <1>5, <2>1, TaskGoesType DEF UndoTree, TaskSteps
  <2>3. CountOK'
    BY <1>5, <2>2, FaultType, SameCount DEF UndoTree, Remove, NotATree, RemoveFails
  <2>4. GitOK'
    BY <1>0, <1>5, GitType DEF UndoTree
  <2>. QED BY <1>5, <2>1, <2>2, <2>3, <2>4 DEF UndoTree, GhostOK
<1>6. CASE UndoPrune(p)
  <2>1. RowOK' /\ Kept
    BY <1>6, SameRow DEF UndoPrune
  <2>2. TaskOK' /\ ReqOK' /\ requests' = requests
    BY <1>6, <2>1, TaskGoesType DEF UndoPrune, TaskSteps
  <2>3. GitOK'
    BY <1>0, <1>6, GitType DEF UndoPrune
  <2>. QED BY <1>6, <2>1, <2>2, <2>3 DEF UndoPrune, CountOK, GhostOK, ghostVars
<1>7. CASE UndoDir(p)
  <2>1. RowOK' /\ Kept
    BY <1>7, SameRow DEF UndoDir
  <2>2. TaskOK' /\ ReqOK' /\ requests' = requests
    BY <1>7, <2>1, TaskGoesType DEF UndoDir, TaskSteps
  <2>3. CountOK'
    BY <1>7, <2>2, FaultType, SameCount DEF UndoDir
  <2>4. GitOK'
    BY <1>7 DEF UndoDir, GitOK
  <2>. QED BY <1>7, <2>1, <2>2, <2>3, <2>4 DEF UndoDir, GhostOK, ghostVars
<1>8. CASE UndoBranch(p)
  <2>1. RowOK' /\ Kept
    BY <1>8, SameRow DEF UndoBranch
  <2>2. TaskOK' /\ ReqOK' /\ requests' = requests
    BY <1>8, <2>1, TaskGoesType DEF UndoBranch, TaskSteps
  <2>3. CountOK'
    BY <1>8, <2>2, FaultType, SameCount DEF UndoBranch, DeleteBranch
  <2>4. GitOK'
    BY <1>0, <1>8, GitType DEF UndoBranch
  <2>. QED BY <1>8, <2>1, <2>2, <2>3, <2>4 DEF UndoBranch, GhostOK
<1>9. CASE UndoRow(p)
  <2>1. RowOK' /\ Kept
    BY <1>0, <1>9, LiveType DEF UndoRow, SoftDelete
  <2>2. TaskOK' /\ ReqOK' /\ requests' = requests
    BY <1>9, <2>1, TaskEndsType DEF UndoRow
  <2>. QED BY <1>9, <2>1, <2>2 DEF UndoRow, GitOK, CountOK, GhostOK, gitVars, ghostVars
<1>. QED BY <1>1, <1>2, <1>3, <1>4, <1>5, <1>6, <1>7, <1>8, <1>9 DEF CreateStep

LEMMA BeginType ==
  ASSUME TypeOK, NEW h \in Handlers, NEW r \in Request, row[r.path] # Absent, Begin(h, r)
  PROVE  TypeOK'
<1>. USE Parts, PartsNext
<1>1. RowOK' /\ Kept
  BY SameRow DEF Begin
<1>2. \A g \in Handlers : req[g] # Absent => req[g].path \in Paths
  BY DEF ReqOK, Request
<1>3. ReqOK'
  BY <1>1, <1>2 DEF Begin, ReqOK, Kept
<1>4. TaskOK'
  BY DEF Begin, TaskOK
<1>5. CountOK' /\ GitOK'
  BY DEF Begin, CountOK, GitOK, gitVars
<1>6. GhostOK'
  BY DEF Begin, GhostOK
<1>. QED BY <1>1, <1>3, <1>4, <1>5, <1>6

LEMMA BeginsType ==
  ASSUME TypeOK, NEW h \in Handlers, NEW p \in Paths, NEW b \in Branches,
         BeginDelete(h, p) \/ BeginRestore(h, p) \/ BeginRename(h, p, b)
  PROVE  TypeOK'
<1>1. row[p] # Absent => row[p].branch \in Branches
  BY DEF TypeOK, Row
<1>2. CASE BeginDelete(h, p)
  <2>1. row[p] # Absent
    BY <1>2 DEF BeginDelete, Rows
  <2>2. PICK arg \in {Absent, row[p].branch} :
          Begin(h, [op |-> "delete", at |-> "mark", path |-> p, branch |-> row[p].branch, arg |-> arg])
    BY <1>2 DEF BeginDelete
  <2>3. [op |-> "delete", at |-> "mark", path |-> p, branch |-> row[p].branch, arg |-> arg] \in Request
    BY <1>1, <2>1 DEF Request, DeleteSteps
  <2>. QED BY <2>1, <2>2, <2>3, BeginType
<1>3. CASE BeginRestore(h, p)
  <2>1. row[p] # Absent
    BY <1>3 DEF BeginRestore, Rows
  <2>2. [op |-> "restore", at |-> "look", path |-> p, branch |-> row[p].branch, arg |-> Absent] \in Request
    BY <1>1, <2>1 DEF Request, RestoreSteps
  <2>. QED BY <1>3, <2>1, <2>2, BeginType DEF BeginRestore
<1>4. CASE BeginRename(h, p, b)
  <2>1. row[p] # Absent
    BY <1>4 DEF BeginRename, Rows
  <2>2. [op |-> "rename", at |-> "live", path |-> p, branch |-> row[p].branch, arg |-> b] \in Request
    BY <1>1, <2>1 DEF Request, RenameSteps
  <2>. QED BY <1>4, <2>1, <2>2, BeginType DEF BeginRename
<1>. QED BY <1>2, <1>3, <1>4

\* What is known of a request that has begun.
LEMMA Begun ==
  ASSUME TypeOK, NEW h \in Handlers, req[h] # Absent
  PROVE  /\ req[h].path \in Paths /\ row[req[h].path] # Absent /\ req[h].branch \in Branches
         /\ req[h].arg # Absent => req[h].arg \in Branches
         /\ req[h].op = "rename" => req[h].arg \in Branches
BY DEF TypeOK, Request

LEMMA DeleteStepType ==
  ASSUME ParametersOK, TypeOK, NEW h \in Handlers, DeleteStep(h) PROVE TypeOK'
<1>. USE Parts, PartsNext
<1>0. req[h] # Absent /\ req[h].op = "delete"
  BY DEF DeleteStep, MarkRemoving, RemoveTree, Rollback, PruneAfter, DropBranch, DeleteRow, At
<1>. USE <1>0, Begun
<1>1. CASE MarkRemoving(h) \/ Rollback(h)
  <2>1. RowOK' /\ GhostOK' /\ Kept
    BY <1>1, SetStatusType DEF MarkRemoving, Rollback, Statuses
  <2>2. TaskOK' /\ ReqOK' /\ requests' = requests
    BY <1>1, <2>1, GoesType, EndsType DEF MarkRemoving, Rollback, DeleteSteps
  <2>. QED BY <1>1, <2>1, <2>2 DEF MarkRemoving, Rollback, GitOK, CountOK, gitVars
<1>2. CASE RemoveTree(h)
  <2>1. RowOK' /\ Kept
    BY <1>2, SameRow DEF RemoveTree
  <2>2. TaskOK' /\ ReqOK' /\ requests' = requests
    BY <1>2, <2>1, GoesType DEF RemoveTree, AfterRemoval, DeleteSteps
  <2>3. CountOK'
    BY <1>2, <2>2, FaultType, SameCount DEF RemoveTree, Remove, NotATree, RemoveFails
  <2>4. GitOK'
    BY <1>2, GitType DEF RemoveTree
  <2>. QED BY <1>2, <2>1, <2>2, <2>3, <2>4 DEF RemoveTree, GhostOK, ghostVars
<1>3. CASE PruneAfter(h)
  <2>1. RowOK' /\ Kept
    BY <1>3, SameRow DEF PruneAfter
  <2>2. TaskOK' /\ ReqOK' /\ requests' = requests
    BY <1>3, <2>1, GoesType DEF PruneAfter, AfterRemoval, DeleteSteps
  <2>3. GitOK'
    BY <1>3, GitType DEF PruneAfter
  <2>. QED BY <1>3, <2>1, <2>2, <2>3 DEF PruneAfter, CountOK, GhostOK, ghostVars
<1>4. CASE DropBranch(h)
  <2>1. RowOK' /\ Kept
    BY <1>4, SameRow DEF DropBranch
  <2>2. TaskOK' /\ ReqOK' /\ requests' = requests
    BY <1>4, <2>1, GoesType DEF DropBranch, DeleteSteps
  <2>3. CountOK'
    BY <1>4, <2>2, FaultType, SameCount DEF DropBranch, DeleteBranch
  <2>4. GitOK'
    BY <1>4 DEF DropBranch, DeleteBranch, GitOK
  <2>. QED BY <1>4, <2>1, <2>2, <2>3, <2>4 DEF DropBranch, GhostOK
<1>5. CASE DeleteRow(h)
  <2>1. RowOK' /\ Kept
    BY <1>5, LiveType DEF DeleteRow, SoftDelete
  <2>2. TaskOK' /\ ReqOK' /\ requests' = requests
    BY <1>5, <2>1, EndsType DEF DeleteRow
  <2>. QED BY <1>5, <2>1, <2>2 DEF DeleteRow, GitOK, CountOK, GhostOK, gitVars, ghostVars
<1>. QED BY <1>1, <1>2, <1>3, <1>4, <1>5 DEF DeleteStep

LEMMA RestoreStepType ==
  ASSUME ParametersOK, TypeOK, NEW h \in Handlers, RestoreStep(h) PROVE TypeOK'
<1>. USE Parts, PartsNext
<1>0. req[h] # Absent /\ req[h].op = "restore"
  BY DEF RestoreStep, LookAtPath, LookAtBranch, CheckOut, AddFresh, RestoreRow, RestoreReady, At
<1>. USE <1>0, Begun
<1>1. CASE LookAtPath(h)
  <2>1. RowOK' /\ Kept
    BY <1>1, SameRow DEF LookAtPath
  <2>2. TaskOK' /\ ReqOK' /\ requests' = requests
    BY <1>1, <2>1, GoesType, EndsType DEF LookAtPath, RestoreSteps
  <2>. QED BY <1>1, <2>1, <2>2 DEF LookAtPath, GitOK, CountOK, GhostOK, gitVars
<1>2. CASE LookAtBranch(h)
  <2>1. RowOK' /\ Kept
    BY <1>2, SameRow DEF LookAtBranch
  <2>2. TaskOK' /\ ReqOK' /\ requests' = requests
    BY <1>2, <2>1, GoesType DEF LookAtBranch, RestoreSteps
  <2>. QED BY <1>2, <2>1, <2>2 DEF LookAtBranch, GitOK, CountOK, GhostOK, gitVars, ghostVars
<1>3. CASE CheckOut(h)
  <2>1. RowOK' /\ Kept
    BY <1>3, SameRow DEF CheckOut
  <2>2. TaskOK' /\ ReqOK' /\ requests' = requests
    BY <1>3, <2>1, GoesType, EndsType DEF CheckOut, RestoreSteps
  <2>3. CountOK'
    <3>. CanAdd(req[h].path, req[h].branch) \in BOOLEAN
      BY DEF CanAdd
    <3>. QED BY <1>3, <2>2, FailsType, SameCount DEF CheckOut
  <2>4. GitOK' /\ GhostOK'
    BY <1>3 DEF CheckOut, GitOK, GhostOK
  <2>. QED BY <2>1, <2>2, <2>3, <2>4
<1>4. CASE AddFresh(h)
  <2>1. RowOK' /\ Kept
    BY <1>4, SameRow DEF AddFresh
  <2>2. TaskOK' /\ ReqOK' /\ requests' = requests
    BY <1>4, <2>1, GoesType, EndsType DEF AddFresh, RestoreSteps
  <2>3. CountOK'
    <3>. CanAddNew(req[h].path, req[h].branch) \in BOOLEAN
      BY DEF CanAddNew
    <3>. QED BY <1>4, <2>2, FailsType, SameCount DEF AddFresh, AddNewFails
  <2>4. GitOK'
    BY <1>4, GitType DEF AddFresh
  <2>. QED BY <1>4, <2>1, <2>2, <2>3, <2>4 DEF AddFresh, GhostOK
<1>5. CASE RestoreRow(h)
  <2>1. RowOK' /\ Kept
    BY <1>5, LiveType DEF RestoreRow
  <2>2. TaskOK' /\ ReqOK' /\ requests' = requests
    BY <1>5, <2>1, GoesType, EndsType DEF RestoreRow, RestoreSteps
  <2>. QED BY <1>5, <2>1, <2>2 DEF RestoreRow, GitOK, CountOK, GhostOK, gitVars, ghostVars
<1>6. CASE RestoreReady(h)
  <2>1. RowOK' /\ GhostOK' /\ Kept
    BY <1>6, SetStatusType DEF RestoreReady, Statuses
  <2>2. TaskOK' /\ ReqOK' /\ requests' = requests
    BY <1>6, <2>1, EndsType DEF RestoreReady
  <2>. QED BY <1>6, <2>1, <2>2 DEF RestoreReady, GitOK, CountOK, gitVars
<1>. QED BY <1>1, <1>2, <1>3, <1>4, <1>5, <1>6 DEF RestoreStep

LEMMA RenameStepType ==
  ASSUME ParametersOK, TypeOK, NEW h \in Handlers, RenameStep(h) PROVE TypeOK'
<1>. USE Parts, PartsNext
<1>0. req[h] # Absent /\ req[h].op = "rename"
  BY DEF RenameStep, CheckLive, CheckHistory, RenameBranch, RenameRow, At
<1>. USE <1>0, Begun
<1>1. CASE CheckLive(h) \/ CheckHistory(h)
  <2>1. RowOK' /\ Kept
    BY <1>1, SameRow DEF CheckLive, CheckHistory
  <2>2. TaskOK' /\ ReqOK' /\ requests' = requests
    BY <1>1, <2>1, GoesType, EndsType DEF CheckLive, CheckHistory, RenameSteps
  <2>. QED BY <1>1, <2>1, <2>2 DEF CheckLive, CheckHistory, GitOK, CountOK, GhostOK, gitVars, ghostVars
<1>2. CASE RenameBranch(h)
  <2>1. RowOK' /\ Kept
    BY <1>2, SameRow DEF RenameBranch
  <2>2. TaskOK' /\ ReqOK' /\ requests' = requests
    BY <1>2, <2>1, GoesType, EndsType DEF RenameBranch, RenameSteps
  <2>3. CountOK'
    <3>. CanMove(req[h].branch, req[h].arg) \in BOOLEAN
      BY DEF CanMove
    <3>. QED BY <1>2, <2>2, FailsType, SameCount DEF RenameBranch
  <2>4. GitOK'
    BY <1>2, GitType DEF RenameBranch
  <2>. QED BY <1>2, <2>1, <2>2, <2>3, <2>4 DEF RenameBranch, GhostOK
<1>3. CASE RenameRow(h)
  <2>1. [row[req[h].path] EXCEPT !.branch = req[h].arg] \in Row
    BY DEF RowOK, Row
  <2>2. row' = [row EXCEPT ![req[h].path] = [row[req[h].path] EXCEPT !.branch = req[h].arg]]
    BY <1>3 DEF RenameRow
  <2>3. RowOK' /\ Kept
    BY <2>1, <2>2 DEF RowOK, Kept, ParametersOK
  <2>4. TaskOK' /\ ReqOK' /\ requests' = requests
    BY <1>3, <2>3, EndsType DEF RenameRow
  <2>. QED BY <1>3, <2>3, <2>4 DEF RenameRow, GitOK, CountOK, GhostOK, gitVars, ghostVars
<1>. QED BY <1>1, <1>2, <1>3 DEF RenameStep

LEMMA RecoveredType ==
  ASSUME NEW r \in Row \cup {Absent}
  PROVE  /\ Recovered(r) \in Row \cup {Absent}
         /\ ParametersOK /\ r # Absent => Recovered(r) # Absent
<1>1. CASE r = Absent \/ ~r.live
  BY <1>1 DEF Recovered
<1>2. CASE ~(r = Absent \/ ~r.live)
  <2>1. r \in Row
    BY <1>2
  <2>2. Recovered(r) \in Row
    BY <1>2, <2>1 DEF Recovered, Row, Statuses
  <2>. QED BY <2>2 DEF ParametersOK
<1>. QED BY <1>1, <1>2

LEMMA InterruptType ==
  ASSUME ParametersOK, TypeOK,
         \/ \E h \in Handlers : HangUp(h)
         \/ Restart
         \/ \E p \in Paths : DeletedByHand(p)
  PROVE  TypeOK'
<1>. USE Parts, PartsNext
<1>1. CASE \E h \in Handlers : HangUp(h)
  <2>1. PICK h \in Handlers : HangUp(h)
    BY <1>1
  <2>2. req[h] # Absent /\ req[h].path \in Paths
    BY <2>1, Begun DEF HangUp
  <2>3. RowOK' /\ Kept
    BY <2>1, SameRow DEF HangUp
  <2>4. TaskOK' /\ ReqOK' /\ requests' = requests
    BY <2>1, <2>3, EndsType DEF HangUp
  <2>5. CountOK'
    BY <2>1, <2>4, FaultType DEF HangUp
  <2>. QED BY <2>1, <2>2, <2>3, <2>4, <2>5 DEF HangUp, GitOK, GhostOK, gitVars
<1>2. CASE Restart
  <2>1. row' = [p \in Paths |-> Recovered(row[p])]
    BY <1>2 DEF Restart
  <2>2. RowOK'
    BY <2>1, RecoveredType DEF RowOK
  <2>3. TaskOK' /\ ReqOK'
    BY <1>2 DEF Restart, TaskOK, ReqOK, TaskSteps
  <2>4. CountOK'
    BY <1>2, FaultType DEF Restart
  <2>5. GitOK' /\ GhostOK'
    BY <1>2 DEF Restart, GitOK, GhostOK, gitVars
  <2>. QED BY <2>2, <2>3, <2>4, <2>5
<1>3. CASE \E p \in Paths : DeletedByHand(p)
  <2>1. PICK p \in Paths : DeletedByHand(p)
    BY <1>3
  <2>2. CountOK'
    BY <2>1, FaultType DEF DeletedByHand
  <2>. QED BY <2>1, <2>2 DEF DeletedByHand, RowOK, TaskOK, ReqOK, GitOK, GhostOK
<1>. QED BY <1>1, <1>2, <1>3

LEMMA NextType == ASSUME ParametersOK, TypeOK, [Next]_vars PROVE TypeOK'
<1>1. CASE UNCHANGED vars
  BY <1>1 DEF vars, TypeOK
<1>2. CASE \E b \in Branches : Create(b)
  BY <1>2, CreateType
<1>3. CASE \E p \in Paths : CreateStep(p)
  BY <1>3, CreateStepType
<1>4. CASE \E h \in Handlers, p \in Paths : BeginDelete(h, p) \/ BeginRestore(h, p)
  <2>1. PICK h \in Handlers, p \in Paths : BeginDelete(h, p) \/ BeginRestore(h, p)
    BY <1>4
  <2>2. row[p].branch \in Branches
    BY <2>1 DEF BeginDelete, BeginRestore, Rows, TypeOK, Row
  <2>. QED BY <2>1, <2>2, BeginsType
<1>5. CASE \E h \in Handlers, p \in Paths, b \in Branches : BeginRename(h, p, b)
  BY <1>5, BeginsType
<1>6. CASE \E h \in Handlers : DeleteStep(h) \/ RestoreStep(h) \/ RenameStep(h)
  BY <1>6, DeleteStepType, RestoreStepType, RenameStepType
<1>7. CASE \/ \E h \in Handlers : HangUp(h)
           \/ Restart
           \/ \E p \in Paths : DeletedByHand(p)
  BY <1>7, InterruptType
<1>. QED BY <1>1, <1>2, <1>3, <1>4, <1>5, <1>6, <1>7 DEF Next

\* The state variables of the worktrees have the types the store, git and the
\* handlers give them; in particular no operation's row ever vanishes under it,
\* because delete keeps it for the history.
THEOREM WorktreeTypes == Spec => []TypeOK
<1>. USE ParametersOK
<1>1. Init => TypeOK
  BY InitType
<1>2. TypeOK /\ [Next]_vars => TypeOK'
  BY NextType
<1>. QED BY <1>1, <1>2, PTL DEF Spec

-----------------------------------------------------------------------------
\* Passing statuses.

AttendedAt(p) ==
  p \in Live \ hung =>
    /\ row[p].status \in {"creating", "pre_script"} => task[p] # "none" \/ Restoring(p)
    /\ row[p].status = "removing" => Removing(p) \/ Restoring(p)

LEMMA AttendedEverywhere == Attended <=> \A p \in Paths : AttendedAt(p)
BY DEF Attended, AttendedAt, Live, Rows

\* h is busy with a request that answers for a passing status.
Answers(h) ==
  /\ req[h] # Absent
  /\ \/ req[h].op = "restore" /\ req[h].at = "ready"
     \/ req[h].op = "delete" /\ req[h].at # "mark"

\* Its next state goes on answering for p.
StillAnswers(h, p) ==
  /\ req'[h] # Absent /\ req'[h].path = p /\ req'[h].op = req[h].op
  /\ \/ req'[h].at = req[h].at
     \/ req[h].op = "delete" /\ req'[h].at # "mark"

\* A path whose row keeps its status, and whose task and requests go on.
LEMMA StaysAttended ==
  ASSUME NEW p \in Paths, AttendedAt(p), p \in hung => p \in hung',
         \/ row'[p] = row[p]
         \/ /\ row[p] # Absent /\ row'[p].status = row[p].status
            /\ row'[p].live => row[p].live,
         task[p] # "none" => task'[p] # "none",
         \A h \in On(p) : Answers(h) => p \in hung' \/ StillAnswers(h, p)
  PROVE  AttendedAt(p)'
<1>. SUFFICES ASSUME (p \in Live \ hung)'
              PROVE  /\ (row[p].status \in {"creating", "pre_script"} => task[p] # "none" \/ Restoring(p))'
                     /\ (row[p].status = "removing" => Removing(p) \/ Restoring(p))'
  BY DEF AttendedAt
<1>1. p \in Live \ hung /\ p \notin hung' /\ row'[p].status = row[p].status
  BY DEF Live, Rows
<1>2. Restoring(p) => Restoring(p)'
  <2>. SUFFICES ASSUME NEW h \in On(p), At(h, "restore", "ready") PROVE Restoring(p)'
    BY DEF Restoring
  <2>1. Answers(h) /\ StillAnswers(h, p)
    BY <1>1 DEF Answers, At
  <2>. QED BY <2>1 DEF Restoring, On, Answers, StillAnswers, At
<1>3. Removing(p) => Removing(p)'
  <2>. SUFFICES ASSUME NEW h \in On(p), req[h].op = "delete", req[h].at # "mark"
                PROVE  Removing(p)'
    BY DEF Removing
  <2>1. Answers(h) /\ StillAnswers(h, p)
    BY <1>1 DEF Answers, On
  <2>. QED BY <2>1 DEF Removing, On, StillAnswers
<1>. QED BY <1>1, <1>2, <1>3 DEF AttendedAt

\* A path to which a step sets a status that does not pass.
LEMMA SettledIsAttended ==
  ASSUME NEW p \in Paths, row'[p] = Absent \/ ~row'[p].live \/ row'[p].status \in {"ready", "failed"}
  PROVE  AttendedAt(p)'
BY DEF AttendedAt, Live, Rows

\* A step of p's task does not touch the other paths or any request.
LEMMA OthersUnderTask ==
  ASSUME TypeOK, Attended, NEW p \in Paths, NEW q \in Paths \ {p},
         row'[q] = row[q], hung \ {p} \subseteq hung',
         \/ \E to \in TaskSteps : TaskGoes(p, to)
         \/ TaskEnds(p)
  PROVE  AttendedAt(q)'
<1>1. AttendedAt(q)
  BY AttendedEverywhere
<1>2. req' = req /\ task'[q] = task[q]
  BY DEF TaskGoes, TaskEnds, TypeOK
<1>3. \A g \in On(q) : StillAnswers(g, q)
  BY <1>2 DEF On, StillAnswers
<1>. QED BY <1>1, <1>2, <1>3, StaysAttended

\* Nor does a step of h's request, except for that path.
LEMMA OthersUnderRequest ==
  ASSUME TypeOK, Attended, NEW h \in Handlers, req[h] # Absent,
         NEW q \in Paths \ {req[h].path},
         row'[q] = row[q], hung \ {req[h].path} \subseteq hung',
         \/ \E to : Goes(h, to)
         \/ Ends(h)
  PROVE  AttendedAt(q)'
<1>1. AttendedAt(q)
  BY AttendedEverywhere
<1>2. task' = task /\ \A g \in On(q) : req'[g] = req[g]
  BY DEF Goes, Ends, TypeOK, On
<1>3. q \in hung => q \in hung'
  OBVIOUS
<1>4. \A g \in On(q) : StillAnswers(g, q)
  BY <1>2 DEF On, StillAnswers
<1>. QED BY <1>1, <1>2, <1>3, <1>4, StaysAttended

\* The path of the request that steps, when its row keeps its status and the
\* request goes on, or ends without answering for the status.
LEMMA OwnUnderRequest ==
  ASSUME TypeOK, Attended, NEW h \in Handlers, req[h] # Absent, UNCHANGED hung,
         NEW p \in Paths, p = req[h].path,
         \/ row' = row
         \/ row'[p].status = row[p].status /\ (row'[p].live => row[p].live),
         \/ \E to \in DeleteSteps \ {"mark"} : req[h].op = "delete" /\ Goes(h, to)
         \/ ~Answers(h) /\ \E to : Goes(h, to)
         \/ ~Answers(h) /\ Ends(h)
  PROVE  AttendedAt(p)'
<1>1. p \in Paths /\ row[p] # Absent /\ AttendedAt(p) /\ req[h] \in Request
  BY Begun, AttendedEverywhere DEF TypeOK
<1>2. task' = task
  BY DEF Goes, Ends
<1>3. ASSUME NEW g \in On(p), Answers(g) PROVE StillAnswers(g, p)
  <2>1. CASE g # h
    <3>1. req'[g] = req[g]
      BY <2>1 DEF Goes, Ends, On, TypeOK
    <3>. QED BY <3>1 DEF On, StillAnswers
  <2>2. CASE g = h
    <3>1. PICK to \in DeleteSteps \ {"mark"} : req[h].op = "delete" /\ Goes(h, to)
      BY <1>3, <2>2
    <3>2. /\ [req[h] EXCEPT !.at = to].at = to /\ [req[h] EXCEPT !.at = to].path = p
          /\ [req[h] EXCEPT !.at = to].op = "delete" /\ [req[h] EXCEPT !.at = to] \in Request
      BY <1>1, <3>1 DEF Request
    <3>3. req'[h] = [req[h] EXCEPT !.at = to]
      BY <3>1 DEF Goes, TypeOK
    <3>4. req'[h] # Absent
      BY <3>2, <3>3, AbsentIsNoRequest
    <3>. QED BY <2>2, <3>1, <3>2, <3>3, <3>4 DEF StillAnswers
  <2>. QED BY <2>1, <2>2
<1>. QED BY <1>1, <1>2, <1>3, StaysAttended

-----------------------------------------------------------------------------
\* Each step keeps them attended.

LEMMA InitAttended == ASSUME Init PROVE Attended
BY DEF Init, Attended, Live, Rows

LEMMA CreateAttended ==
  ASSUME ParametersOK, TypeOK, Attended, NEW b \in Branches, Create(b) PROVE Attended'
<1>. SUFFICES ASSUME NEW q \in Paths PROVE AttendedAt(q)'
  BY DEF Attended, AttendedAt, Live, Rows
<1>1. CASE q = DirOf[b]
  BY <1>1 DEF Create, TypeOK, AttendedAt, Live, Rows
<1>2. CASE q # DirOf[b]
  <2>1. row'[q] = row[q] /\ task'[q] = task[q] /\ hung' = hung /\ req' = req
    BY <1>2 DEF Create, TypeOK
  <2>2. \A g \in On(q) : StillAnswers(g, q)
    BY <2>1 DEF On, StillAnswers
  <2>. QED BY <2>1, <2>2, AttendedEverywhere, StaysAttended
<1>. QED BY <1>1, <1>2

LEMMA CreateStepAttended ==
  ASSUME TypeOK, Attended, NEW p \in Paths, CreateStep(p) PROVE Attended'
<1>. SUFFICES ASSUME NEW q \in Paths PROVE AttendedAt(q)'
  BY DEF Attended, AttendedAt, Live, Rows
<1>1. CASE Fetch(p) \/ AddWorktree(p) \/ PreScript(p) \/ UndoTree(p) \/ UndoPrune(p)
           \/ UndoDir(p) \/ UndoBranch(p)
  <2>1. row' = row /\ hung' = hung /\ \E to \in TaskSteps \ {"none"} : TaskGoes(p, to)
    BY <1>1 DEF Fetch, AddWorktree, PreScript, UndoTree, UndoPrune, UndoDir, UndoBranch, ghostVars, TaskSteps
  <2>2. req' = req /\ (task[q] # "none" => task'[q] # "none")
    BY <2>1 DEF TaskGoes, TypeOK
  <2>3. \A g \in On(q) : StillAnswers(g, q)
    BY <2>2 DEF On, StillAnswers
  <2>. QED BY <2>1, <2>2, <2>3, AttendedEverywhere, StaysAttended
<1>2. CASE SetFailed(p) \/ SetPreScript(p) \/ SetReady(p) \/ UndoRow(p)
  <2>1. CASE q = p
    <3>1. row[p] \in Row
      BY <1>2 DEF SetFailed, SetPreScript, SetReady, UndoRow, TypeOK
    <3>2. CASE SetFailed(p) \/ SetReady(p)
      <4>1. row'[p].status \in {"ready", "failed"}
        BY <3>1, <3>2 DEF SetFailed, SetReady, SetStatus, TypeOK, Row
      <4>. QED BY <2>1, <4>1, SettledIsAttended
    <3>3. CASE SetPreScript(p)
      <4>1. row'[p].status = "pre_script" /\ task'[p] # "none"
        BY <3>1, <3>3 DEF SetPreScript, SetStatus, TaskGoes, TypeOK, Row
      <4>. QED BY <2>1, <4>1 DEF AttendedAt
    <3>4. CASE UndoRow(p)
      <4>1. ~row'[p].live
        BY <3>1, <3>4 DEF UndoRow, SoftDelete, TypeOK, Row
      <4>. QED BY <2>1, <4>1, SettledIsAttended
    <3>. QED BY <1>2, <3>2, <3>3, <3>4
  <2>2. CASE q # p
    <3>1. row'[q] = row[q] /\ hung \ {p} \subseteq hung'
      BY <1>2, <2>2 DEF SetFailed, SetPreScript, SetReady, UndoRow, SetStatus, SoftDelete, TypeOK, ghostVars
    <3>2. TaskEnds(p) \/ \E to \in TaskSteps : TaskGoes(p, to)
      BY <1>2 DEF SetFailed, SetPreScript, SetReady, UndoRow, TaskSteps
    <3>. QED BY <2>2, <3>1, <3>2, OthersUnderTask
  <2>. QED BY <2>1, <2>2
<1>. QED BY <1>1, <1>2 DEF CreateStep

LEMMA BeginAttended ==
  ASSUME TypeOK, Attended, NEW h \in Handlers, NEW r, Begin(h, r) PROVE Attended'
<1>. SUFFICES ASSUME NEW q \in Paths PROVE AttendedAt(q)'
  BY DEF Attended, AttendedAt, Live, Rows
<1>1. row' = row /\ task' = task /\ hung' = hung /\ \A g \in On(q) : req'[g] = req[g]
  BY DEF Begin, TypeOK, On
<1>2. \A g \in On(q) : StillAnswers(g, q)
  BY <1>1 DEF On, StillAnswers
<1>. QED BY <1>1, <1>2, AttendedEverywhere, StaysAttended

LEMMA DeleteStepAttended ==
  ASSUME ParametersOK, TypeOK, Attended, NEW h \in Handlers, DeleteStep(h) PROVE Attended'
<1>. DEFINE p == req[h].path
<1>0. req[h] # Absent /\ req[h].op = "delete" /\ req[h] \in Request
  BY DEF DeleteStep, MarkRemoving, RemoveTree, Rollback, PruneAfter, DropBranch, DeleteRow, At, TypeOK
<1>1. p \in Paths /\ row[p] \in Row
  BY <1>0, Begun DEF TypeOK
<1>. HIDE DEF p
<1>. SUFFICES ASSUME NEW q \in Paths PROVE AttendedAt(q)'
  BY DEF Attended, AttendedAt, Live, Rows
<1>2. (\E to : Goes(h, to)) \/ Ends(h)
  BY DEF DeleteStep, MarkRemoving, RemoveTree, Rollback, PruneAfter, DropBranch, DeleteRow
<1>3. CASE q # p
  <2>1. row'[q] = row[q] /\ hung \ {p} \subseteq hung'
    BY <1>3 DEF DeleteStep, MarkRemoving, RemoveTree, Rollback, PruneAfter, DropBranch, DeleteRow,
       SetStatus, SoftDelete, TypeOK, ghostVars, p
  <2>. QED BY <1>0, <1>2, <1>3, <2>1, OthersUnderRequest DEF p
<1>4. CASE q = p /\ MarkRemoving(h)
  <2>1. row'[p].status = "removing"
    BY <1>1, <1>4 DEF MarkRemoving, SetStatus, TypeOK, Row, p
  <2>2. req' = [req EXCEPT ![h] = [req[h] EXCEPT !.at = "remove"]]
    BY <1>4 DEF MarkRemoving, Goes
  <2>3. [req[h] EXCEPT !.at = "remove"] \in Request
    BY <1>0 DEF Request, DeleteSteps
  <2>4. req'[h] # Absent /\ req'[h].path = p /\ req'[h].op = "delete" /\ req'[h].at # "mark"
    BY <1>0, <2>2, <2>3, AbsentIsNoRequest DEF p, TypeOK, Request
  <2>. QED BY <1>4, <2>1, <2>4 DEF AttendedAt, Removing, On
<1>5. CASE q = p /\ (RemoveTree(h) \/ PruneAfter(h) \/ DropBranch(h))
  <2>1. row' = row /\ hung' = hung /\ \E to \in DeleteSteps \ {"mark"} : Goes(h, to)
    BY <1>5 DEF RemoveTree, PruneAfter, DropBranch, AfterRemoval, DeleteSteps, ghostVars
  <2>. QED BY <1>0, <1>5, <2>1, OwnUnderRequest DEF p
<1>6. CASE q = p /\ Rollback(h)
  <2>1. row'[p].status = "ready"
    BY <1>1, <1>6 DEF Rollback, SetStatus, TypeOK, Row, p
  <2>. QED BY <1>6, <2>1, SettledIsAttended
<1>7. CASE q = p /\ DeleteRow(h)
  <2>1. ~row'[p].live
    BY <1>1, <1>7 DEF DeleteRow, SoftDelete, TypeOK, Row, p
  <2>. QED BY <1>7, <2>1, SettledIsAttended
<1>. QED BY <1>3, <1>4, <1>5, <1>6, <1>7 DEF DeleteStep

LEMMA RestoreStepAttended ==
  ASSUME ParametersOK, TypeOK, Attended, NEW h \in Handlers, RestoreStep(h) PROVE Attended'
<1>. DEFINE p == req[h].path
<1>0. req[h] # Absent /\ req[h].op = "restore" /\ req[h] \in Request
  BY DEF RestoreStep, LookAtPath, LookAtBranch, CheckOut, AddFresh, RestoreRow, RestoreReady, At, TypeOK
<1>1. p \in Paths /\ row[p] \in Row
  BY <1>0, Begun DEF TypeOK
<1>. HIDE DEF p
<1>. SUFFICES ASSUME NEW q \in Paths PROVE AttendedAt(q)'
  BY DEF Attended, AttendedAt, Live, Rows
<1>2. (\E to : Goes(h, to)) \/ Ends(h)
  BY DEF RestoreStep, LookAtPath, LookAtBranch, CheckOut, AddFresh, RestoreRow, RestoreReady
<1>3. CASE q # p
  <2>1. row'[q] = row[q] /\ hung \ {p} \subseteq hung'
    BY <1>3 DEF RestoreStep, LookAtPath, LookAtBranch, CheckOut, AddFresh, RestoreRow, RestoreReady,
       SetStatus, TypeOK, ghostVars, p
  <2>. QED BY <1>0, <1>2, <1>3, <2>1, OthersUnderRequest DEF p
<1>4. CASE q = p /\ (LookAtPath(h) \/ LookAtBranch(h) \/ CheckOut(h) \/ AddFresh(h))
  <2>1. row' = row /\ hung' = hung /\ ~Answers(h)
    BY <1>0, <1>4 DEF LookAtPath, LookAtBranch, CheckOut, AddFresh, At, Answers, ghostVars
  <2>. QED BY <1>0, <1>2, <1>4, <2>1, OwnUnderRequest DEF p
<1>5. CASE q = p /\ RestoreRow(h)
  <2>0. ~Answers(h) /\ hung' = hung
    BY <1>0, <1>5 DEF RestoreRow, At, Answers, ghostVars
  <2>1. CASE row[p].live
    <3>1. row'[p].status = row[p].status /\ (row'[p].live => row[p].live)
      BY <1>1, <1>5, <2>1 DEF RestoreRow, TypeOK, Row, p
    <3>. QED BY <1>0, <1>2, <1>5, <2>0, <3>1, OwnUnderRequest DEF p
  <2>2. CASE ~row[p].live
    <3>1. req' = [req EXCEPT ![h] = [req[h] EXCEPT !.at = "ready"]]
      BY <1>5, <2>2 DEF RestoreRow, Goes, p
    <3>2. [req[h] EXCEPT !.at = "ready"] \in Request
      BY <1>0 DEF Request, RestoreSteps
    <3>3. req'[h] # Absent /\ req'[h].path = p /\ req'[h].op = "restore" /\ req'[h].at = "ready"
      BY <1>0, <3>1, <3>2, AbsentIsNoRequest DEF p, TypeOK, Request
    <3>. QED BY <1>5, <3>3 DEF AttendedAt, Restoring, On, At
  <2>. QED BY <2>1, <2>2
<1>6. CASE q = p /\ RestoreReady(h)
  <2>1. row'[p].status = "ready"
    BY <1>1, <1>6 DEF RestoreReady, SetStatus, TypeOK, Row, p
  <2>. QED BY <1>6, <2>1, SettledIsAttended
<1>. QED BY <1>3, <1>4, <1>5, <1>6 DEF RestoreStep

LEMMA RenameStepAttended ==
  ASSUME TypeOK, Attended, NEW h \in Handlers, RenameStep(h) PROVE Attended'
<1>. DEFINE p == req[h].path
<1>0. req[h] # Absent /\ req[h].op = "rename" /\ ~Answers(h)
  BY DEF RenameStep, CheckLive, CheckHistory, RenameBranch, RenameRow, At, Answers
<1>1. p \in Paths /\ row[p] \in Row
  BY <1>0, Begun DEF TypeOK
<1>. HIDE DEF p
<1>. SUFFICES ASSUME NEW q \in Paths PROVE AttendedAt(q)'
  BY DEF Attended, AttendedAt, Live, Rows
<1>2. ((\E to : Goes(h, to)) \/ Ends(h)) /\ hung' = hung
  BY DEF RenameStep, CheckLive, CheckHistory, RenameBranch, RenameRow, ghostVars
<1>3. CASE q # p
  <2>1. row'[q] = row[q]
    BY <1>3 DEF RenameStep, CheckLive, CheckHistory, RenameBranch, RenameRow, TypeOK, p
  <2>. QED BY <1>0, <1>2, <1>3, <2>1, OthersUnderRequest DEF p
<1>4. CASE q = p
  <2>1. \/ row' = row
        \/ row'[p].status = row[p].status /\ (row'[p].live => row[p].live)
    BY <1>1 DEF RenameStep, CheckLive, CheckHistory, RenameBranch, RenameRow, TypeOK, Row, p
  <2>. QED BY <1>0, <1>2, <1>4, <2>1, OwnUnderRequest DEF p
<1>. QED BY <1>3, <1>4

LEMMA InterruptAttended ==
  ASSUME TypeOK, Attended,
         \/ \E h \in Handlers : HangUp(h)
         \/ Restart
         \/ \E p \in Paths : DeletedByHand(p)
         \/ UNCHANGED vars
  PROVE  Attended'
<1>. SUFFICES ASSUME NEW q \in Paths PROVE AttendedAt(q)'
  BY DEF Attended, AttendedAt, Live, Rows
<1>1. CASE \E h \in Handlers : HangUp(h)
  <2>1. PICK h \in Handlers : HangUp(h)
    BY <1>1
  <2>2. CASE q = req[h].path
    BY <2>1, <2>2 DEF HangUp, AttendedAt
  <2>3. CASE q # req[h].path
    BY <2>1, <2>3, OthersUnderRequest DEF HangUp
  <2>. QED BY <2>2, <2>3
<1>2. CASE Restart
  <2>1. row'[q] = Recovered(row[q]) /\ row[q] \in Row \cup {Absent}
    BY <1>2 DEF Restart, TypeOK
  <2>2. row'[q] = Absent \/ ~row'[q].live \/ row'[q].status \in {"ready", "failed"}
    BY <2>1 DEF Recovered, Row, Statuses
  <2>. QED BY <2>2, SettledIsAttended
<1>3. CASE (\E p \in Paths : DeletedByHand(p)) \/ UNCHANGED vars
  <2>1. row' = row /\ task' = task /\ hung' = hung /\ req' = req
    BY <1>3 DEF DeletedByHand, vars
  <2>2. \A g \in On(q) : StillAnswers(g, q)
    BY <2>1 DEF On, StillAnswers
  <2>. QED BY <2>1, <2>2, AttendedEverywhere, StaysAttended
<1>. QED BY <1>1, <1>2, <1>3

LEMMA NextAttended ==
  ASSUME ParametersOK, TypeOK, Attended, [Next]_vars PROVE Attended'
<1>1. CASE \E b \in Branches : Create(b)
  BY <1>1, CreateAttended
<1>2. CASE \E p \in Paths : CreateStep(p)
  BY <1>2, CreateStepAttended
<1>3. CASE \/ \E h \in Handlers, p \in Paths : BeginDelete(h, p) \/ BeginRestore(h, p)
           \/ \E h \in Handlers, p \in Paths, b \in Branches : BeginRename(h, p, b)
  BY <1>3, BeginAttended DEF BeginDelete, BeginRestore, BeginRename
<1>4. CASE \E h \in Handlers : DeleteStep(h) \/ RestoreStep(h) \/ RenameStep(h)
  BY <1>4, DeleteStepAttended, RestoreStepAttended, RenameStepAttended
<1>5. CASE \/ \E h \in Handlers : HangUp(h)
           \/ Restart
           \/ \E p \in Paths : DeletedByHand(p)
           \/ UNCHANGED vars
  BY <1>5, InterruptAttended
<1>. QED BY <1>1, <1>2, <1>3, <1>4, <1>5 DEF Next

\* No live worktree is left in a passing status, whatever overlaps, fails or is
\* restarted: somebody is at work on it, or a client has hung up on it.
THEOREM NoneLeftPassing == Spec => []Attended
<1>. USE ParametersOK
<1>1. Init => TypeOK /\ Attended
  BY InitType, InitAttended
<1>2. TypeOK /\ Attended /\ [Next]_vars => (TypeOK /\ Attended)'
  BY NextType, NextAttended
<1>. QED BY <1>1, <1>2, PTL DEF Spec

-----------------------------------------------------------------------------
\* Rows, disks and branches, while all is calm.

\* The two conditions a worktree nobody is at work on is in.
SettledOK(p) ==
  IF row[p].live
    THEN \/ row[p].status = "ready" /\ p \in dirs
         \/ row[p].status = "failed" /\ Free(p)
    ELSE head[p] = Absent

\* git has moved the branch, and the row still has the old name.
Moved(h) == At(h, "rename", "row")

\* The branch the row of p stands for; the names it has, or has had before
\* the rename under way.
Called(p, b) ==
  IF \E h \in On(p) : Moved(h) THEN \E h \in On(p) : Moved(h) /\ req[h].arg = b
                               ELSE row[p].branch = b
Bears(p, b) == row[p] # Absent /\ (row[p].branch = b \/ Called(p, b))

\* What the task that creates a worktree relies on at each of its awaits.
TaskAlone(p) ==
  task[p] # "none" =>
    /\ On(p) = {} /\ row[p].live /\ made[p] = row[p].branch
    /\ task[p] \in {"fetch", "add", "fail"} => Free(p)
    /\ task[p] \in {"mark", "script", "ready"} => p \in dirs
    /\ task[p] \in {"undo_prune", "undo_dir", "undo_branch", "undo_row"} => head[p] = Absent

\* What a request relies on at each of its awaits.
DeleteAlone(p, r) ==
  /\ r.arg \in {Absent, r.branch}
  /\ r.at = "mark" => SettledOK(p)
  /\ r.at = "remove" => row[p].live \/ head[p] = Absent
  /\ r.at = "rollback" => p \in dirs /\ (row[p].live \/ head[p] = Absent)
  /\ r.at \in {"prune", "branch", "row"} => head[p] = Absent

RestoreAlone(p, r) ==
  /\ r.at \in {"look", "ref", "checkout", "fresh"} => ~row[p].live /\ head[p] = Absent
  /\ r.at = "row" => ~row[p].live /\ p \in dirs
  /\ r.at = "ready" => row[p].live /\ p \in dirs

RequestPhase(p, r) ==
  /\ r.op = "delete" => DeleteAlone(p, r)
  /\ r.op = "restore" => RestoreAlone(p, r)
  /\ r.op = "rename" => SettledOK(p)

RequestAlone(p, h) ==
  /\ \A g \in On(p) : g = h
  /\ req[h].branch = row[p].branch
  /\ RequestPhase(p, req[h])

DiskOK(p) ==
  /\ head[p] # Absent => p \in dirs /\ Called(p, head[p])
  /\ p \in dirs => row[p] # Absent
WorkOK(p) == p \in work => row[p] # Absent /\ \A b \in Branches : Called(p, b) => b \in branches

Calm(p) ==
  /\ TaskAlone(p)
  /\ \A h \in On(p) : RequestAlone(p, h)
  /\ row[p] # Absent /\ ~Held(p) => SettledOK(p)
  /\ DiskOK(p) /\ WorkOK(p)

NamesApart == \A p, q \in Paths : \A b \in Branches : Bears(p, b) /\ Bears(q, b) => p = q

CalmInv == calm => NamesApart /\ \A p \in Paths : Calm(p)

\* Where a step does nothing, all stays as it was, unless it takes the branch.
LEMMA Elsewhere ==
  ASSUME NEW q \in Paths, Calm(q), row'[q] = row[q], task'[q] = task[q], made'[q] = made[q],
         head'[q] = head[q], q \in dirs' <=> q \in dirs, q \in work' => q \in work,
         On(q)' = On(q), \A h \in On(q) : req'[h] = req[h],
         \A b \in Branches : Bears(q, b) /\ b \in branches => b \in branches'
  PROVE  /\ Calm(q)'
         /\ \A b \in Branches : Bears(q, b)' <=> Bears(q, b)
<1>1. SettledOK(q)' <=> SettledOK(q)
  BY DEF SettledOK, Free
<1>2. \A h \in On(q) : Moved(h)' <=> Moved(h)
  BY DEF Moved, At
<1>3. \A b : Called(q, b)' <=> Called(q, b)
  BY <1>2 DEF Called
<1>4. TaskAlone(q)'
  BY DEF Calm, TaskAlone, Free
<1>5. \A h \in On(q) : RequestAlone(q, h)'
  BY <1>1 DEF Calm, RequestAlone, RequestPhase, DeleteAlone, RestoreAlone
<1>6. Held(q)' <=> Held(q)
  BY DEF Held
<1>7. DiskOK(q)' /\ WorkOK(q)'
  BY <1>3 DEF Calm, DiskOK, WorkOK, Bears
<1>8. Calm(q)'
  BY <1>1, <1>4, <1>5, <1>6, <1>7 DEF Calm
<1>9. \A b \in Branches : Bears(q, b)' <=> Bears(q, b)
  BY <1>3 DEF Bears
<1>. QED BY <1>8, <1>9

\* A step at p that touches nothing else, takes only branches p bears and
\* brings only names to p that nobody bears.
LEMMA OnlyAt ==
  ASSUME ParametersOK, TypeOK, NamesApart, \A q \in Paths : Calm(q), NEW p \in Paths,
         \A q \in Paths \ {p} :
           /\ row'[q] = row[q] /\ task'[q] = task[q] /\ made'[q] = made[q] /\ head'[q] = head[q]
           /\ q \in dirs' <=> q \in dirs
           /\ q \in work' => q \in work
           /\ On(q)' = On(q) /\ \A h \in On(q) : req'[h] = req[h],
         \A b \in branches : b \in branches' \/ Bears(p, b),
         \A b \in Branches : Bears(p, b)' => Bears(p, b) \/ \A q \in Paths \ {p} : ~Bears(q, b),
         Calm(p)'
  PROVE  NamesApart' /\ \A q \in Paths : Calm(q)'
<1>1. ASSUME NEW q \in Paths \ {p}
      PROVE  Calm(q)' /\ \A b \in Branches : Bears(q, b)' <=> Bears(q, b)
  <2>1. \A b \in Branches : Bears(q, b) /\ b \in branches => b \in branches'
    BY DEF NamesApart
  <2>. QED BY <2>1, Elsewhere
<1>2. NamesApart'
  BY <1>1 DEF NamesApart
<1>. QED BY <1>1, <1>2


-----------------------------------------------------------------------------
\* Steps of the task.

LEMMA TaskNames ==
  ASSUME NEW p \in Paths, On(p) = {}
  PROVE  \A b : Called(p, b) <=> row[p].branch = b
BY DEF Called

\* What a step of p's task has to show.
LEMMA TaskStepCalm ==
  ASSUME ParametersOK, TypeOK, NamesApart, \A q \in Paths : Calm(q),
         NEW p \in Paths, task[p] # "none",
         \A q \in Paths \ {p} :
           /\ row'[q] = row[q] /\ head'[q] = head[q]
           /\ q \in dirs' <=> q \in dirs
           /\ q \in work' => q \in work,
         row'[p] # Absent, row'[p].branch = row[p].branch,
         \A b \in branches : b \in branches' \/ b = made[p],
         \/ /\ TaskEnds(p)
            /\ SettledOK(p)'
         \/ \E to \in TaskSteps \ {"none"} :
              /\ TaskGoes(p, to) /\ row'[p].live
              /\ to \in {"fetch", "add", "fail"} => Free(p)'
              /\ to \in {"mark", "script", "ready"} => p \in dirs'
              /\ to \in {"undo_prune", "undo_dir", "undo_branch", "undo_row"} => head'[p] = Absent,
         head'[p] # Absent => p \in dirs' /\ head'[p] = made[p],
         p \in work' => made[p] \in branches'
  PROVE  NamesApart' /\ \A q \in Paths : Calm(q)'
<1>1. /\ On(p) = {} /\ row[p].live /\ made[p] = row[p].branch /\ row[p] # Absent
      /\ made[p] \in Branches
  BY DEF Calm, TaskAlone, TypeOK
<1>2. /\ req' = req /\ \A q \in Paths : On(q)' = On(q)
      /\ \A q \in Paths \ {p} : task'[q] = task[q] /\ made'[q] = made[q]
  BY DEF TaskEnds, TaskGoes, TypeOK, On
<1>3. \A b : (Called(p, b) <=> row[p].branch = b) /\ (Called(p, b)' <=> row[p].branch = b)
  BY <1>1, <1>2, TaskNames DEF Called
<1>4. \A b \in Branches : Bears(p, b)' => Bears(p, b)
  BY <1>1, <1>3 DEF Bears
<1>5. \A b \in branches : b \in branches' \/ Bears(p, b)
  BY <1>1 DEF Bears
<1>6. Calm(p)'
  <2>1. DiskOK(p)' /\ WorkOK(p)'
    BY <1>1, <1>3 DEF DiskOK, WorkOK
  <2>2. CASE TaskEnds(p)
    <3>1. task'[p] = "none" /\ SettledOK(p)'
      BY <2>2 DEF TaskEnds, TaskGoes, TypeOK
    <3>. QED BY <1>1, <1>2, <2>1, <3>1 DEF Calm, TaskAlone
  <2>3. CASE ~TaskEnds(p)
    <3>1. PICK to \in TaskSteps \ {"none"} :
              /\ TaskGoes(p, to) /\ row'[p].live
              /\ to \in {"fetch", "add", "fail"} => Free(p)'
              /\ to \in {"mark", "script", "ready"} => p \in dirs'
              /\ to \in {"undo_prune", "undo_dir", "undo_branch", "undo_row"} => head'[p] = Absent
      BY <2>3
    <3>2. task'[p] = to /\ made' = made
      BY <3>1 DEF TaskGoes, TypeOK
    <3>. QED BY <1>1, <1>2, <2>1, <3>1, <3>2 DEF Calm, TaskAlone, Held
  <2>. QED BY <2>2, <2>3
<1>. QED BY <1>2, <1>4, <1>5, <1>6, OnlyAt

-----------------------------------------------------------------------------
\* Steps of a request.

LEMMA RequestMoves ==
  ASSUME TypeOK, NEW h \in Handlers, req[h] # Absent, NEW to,
         \/ req[h].op = "delete" /\ to \in DeleteSteps
         \/ req[h].op = "restore" /\ to \in RestoreSteps
         \/ req[h].op = "rename" /\ to \in RenameSteps,
         Goes(h, to)
  PROVE  /\ req'[h] # Absent /\ req'[h].path = req[h].path /\ req'[h].op = req[h].op
         /\ req'[h].branch = req[h].branch /\ req'[h].arg = req[h].arg /\ req'[h].at = to
         /\ \A g \in Handlers \ {h} : req'[g] = req[g]
         /\ task' = task /\ made' = made
<1>1. req[h] \in Request
  BY DEF TypeOK
<1>. DEFINE r == [req[h] EXCEPT !.at = to]
<1>2. r \in Request /\ r.path = req[h].path /\ r.op = req[h].op /\ r.branch = req[h].branch
      /\ r.arg = req[h].arg /\ r.at = to
  BY <1>1 DEF Request
<1>3. req' = [req EXCEPT ![h] = r] /\ task' = task /\ made' = made
  BY DEF Goes
<1>. HIDE DEF r
<1>. QED BY <1>2, <1>3, AbsentIsNoRequest DEF TypeOK

\* The requests at the paths after a step of h's.
LEMMA RequestsAfter ==
  ASSUME TypeOK, NEW h \in Handlers, req[h] # Absent, NEW p, p = req[h].path,
         \A g \in Handlers \ {h} : req'[g] = req[g],
         \/ req'[h] = Absent
         \/ req'[h] # Absent /\ req'[h].path = p
  PROVE  /\ \A q \in Paths \ {p} : On(q)' = On(q) /\ \A g \in On(q) : req'[g] = req[g]
         /\ On(p)' \ {h} = On(p) \ {h}
         /\ h \in On(p)
         /\ req'[h] = Absent => On(p)' = On(p) \ {h}
         /\ req'[h] # Absent => On(p)' = On(p)
BY DEF On

\* What a step of h's request has to show, other than those of a rename once
\* git has moved the branch.
LEMMA RequestStepCalm ==
  ASSUME ParametersOK, TypeOK, NamesApart, \A q \in Paths : Calm(q),
         NEW h \in Handlers, req[h] # Absent, NEW p \in Paths, p = req[h].path, ~Moved(h),
         \A q \in Paths \ {p} :
           /\ row'[q] = row[q] /\ head'[q] = head[q]
           /\ q \in dirs' <=> q \in dirs
           /\ q \in work' => q \in work,
         row'[p] # Absent, row'[p].branch = row[p].branch,
         \A b \in branches : b \in branches' \/ b = row[p].branch,
         \/ Ends(h) /\ SettledOK(p)'
         \/ \E to :
              /\ \/ req[h].op = "delete" /\ to \in DeleteSteps
                 \/ req[h].op = "restore" /\ to \in RestoreSteps
                 \/ req[h].op = "rename" /\ to \in RenameSteps \ {"row"}
              /\ Goes(h, to)
              /\ req'[h].at = to => RequestPhase(p, req[h])',
         head'[p] # Absent => p \in dirs' /\ head'[p] = row[p].branch,
         p \in work' => row[p].branch \in branches'
  PROVE  NamesApart' /\ \A q \in Paths : Calm(q)'
<1>1. /\ On(p) = {h} /\ row[p] # Absent /\ task[p] = "none" /\ req[h].branch = row[p].branch
      /\ row[p].branch \in Branches
  BY DEF Calm, TaskAlone, RequestAlone, On, TypeOK, Row
<1>2. /\ task' = task /\ made' = made
      /\ \/ /\ req'[h] = Absent /\ SettledOK(p)'
         \/ /\ req'[h] # Absent /\ req'[h].path = p /\ req'[h].branch = row[p].branch
            /\ RequestPhase(p, req[h])'
            /\ ~(req'[h].op = "rename" /\ req'[h].at = "row")
      /\ \A g \in Handlers \ {h} : req'[g] = req[g]
  <2>1. CASE Ends(h) /\ SettledOK(p)'
    BY <2>1 DEF Ends, TypeOK
  <2>2. CASE ~(Ends(h) /\ SettledOK(p)')
    <3>1. PICK to :
              /\ \/ req[h].op = "delete" /\ to \in DeleteSteps
                 \/ req[h].op = "restore" /\ to \in RestoreSteps
                 \/ req[h].op = "rename" /\ to \in RenameSteps \ {"row"}
              /\ Goes(h, to)
              /\ req'[h].at = to => RequestPhase(p, req[h])'
      BY <2>2
    <3>2. /\ req'[h] # Absent /\ req'[h].path = p /\ req'[h].op = req[h].op
          /\ req'[h].branch = req[h].branch /\ req'[h].at = to
          /\ \A g \in Handlers \ {h} : req'[g] = req[g]
          /\ task' = task /\ made' = made
      BY <3>1, RequestMoves
    <3>. QED BY <1>1, <3>1, <3>2
  <2>. QED BY <2>1, <2>2
<1>3. /\ \A q \in Paths \ {p} : On(q)' = On(q) /\ \A g \in On(q) : req'[g] = req[g]
      /\ On(p)' \subseteq {h}
      /\ req'[h] # Absent => On(p)' = {h}
      /\ req'[h] = Absent => On(p)' = {}
  BY <1>1, <1>2, RequestsAfter
<1>4. \A g \in On(p)' : ~Moved(g)'
  BY <1>2, <1>3 DEF Moved, At
<1>5. \A b : (Called(p, b) <=> row[p].branch = b) /\ (Called(p, b)' <=> row[p].branch = b)
  BY <1>1, <1>4 DEF Called
<1>6. \A b \in Branches : Bears(p, b)' => Bears(p, b)
  BY <1>1, <1>5 DEF Bears
<1>7. \A b \in branches : b \in branches' \/ Bears(p, b)
  BY <1>1 DEF Bears
<1>8. Calm(p)'
  <2>1. DiskOK(p)' /\ WorkOK(p)'
    BY <1>1, <1>5 DEF DiskOK, WorkOK
  <2>2. TaskAlone(p)'
    BY <1>1, <1>2 DEF TaskAlone
  <2>3. \A g \in On(p)' : RequestAlone(p, g)'
    BY <1>2, <1>3 DEF RequestAlone
  <2>4. (row[p] # Absent /\ ~Held(p) => SettledOK(p))'
    BY <1>2, <1>3 DEF Held
  <2>. QED BY <2>1, <2>2, <2>3, <2>4 DEF Calm
<1>. QED BY <1>2, <1>3, <1>6, <1>7, <1>8, OnlyAt

-----------------------------------------------------------------------------
\* Each step keeps the calm.

LEMMA InitCalm == ASSUME Init PROVE CalmInv
BY DEF Init, CalmInv, NamesApart, Calm, TaskAlone, On, Bears, Held, DiskOK, WorkOK

LEMMA StatusSet ==
  ASSUME ParametersOK, TypeOK, NEW p \in Paths, row[p] \in Row, NEW s \in Statuses, SetStatus(p, s)
  PROVE  /\ row'[p] # Absent /\ row'[p].branch = row[p].branch /\ row'[p].live = row[p].live
         /\ row'[p].status = s /\ work' = work /\ calm' = calm
         /\ \A q \in Paths \ {p} : row'[q] = row[q]
<1>. DEFINE r == [row[p] EXCEPT !.status = s]
<1>1. row' = [row EXCEPT ![p] = r] /\ work' = work /\ calm' = calm
  BY DEF SetStatus
<1>2. r \in Row /\ r.branch = row[p].branch /\ r.live = row[p].live /\ r.status = s
  BY DEF Row
<1>. HIDE DEF r
<1>. QED BY <1>1, <1>2 DEF ParametersOK, TypeOK

LEMMA LiveSet ==
  ASSUME ParametersOK, TypeOK, NEW p \in Paths, row[p] \in Row, NEW l \in BOOLEAN,
         row' = [row EXCEPT ![p].live = l]
  PROVE  /\ row'[p] # Absent /\ row'[p].branch = row[p].branch /\ row'[p].live = l
         /\ row'[p].status = row[p].status
         /\ \A q \in Paths \ {p} : row'[q] = row[q]
<1>. DEFINE r == [row[p] EXCEPT !.live = l]
<1>1. row' = [row EXCEPT ![p] = r]
  OBVIOUS
<1>2. r \in Row /\ r.branch = row[p].branch /\ r.live = l /\ r.status = row[p].status
  BY DEF Row
<1>. HIDE DEF r
<1>. QED BY <1>1, <1>2 DEF ParametersOK, TypeOK

LEMMA CreateCalm ==
  ASSUME ParametersOK, TypeOK, CalmInv, NEW b \in Branches, Create(b), calm'
  PROVE  NamesApart' /\ \A q \in Paths : Calm(q)'
<1>. DEFINE new == [branch |-> b, status |-> "creating", live |-> TRUE]
<1>. SUFFICES ASSUME NEW p \in Paths, p = DirOf[b]
              PROVE  NamesApart' /\ \A q \in Paths : Calm(q)'
  BY DEF ParametersOK
<1>1. /\ NamesApart /\ \A q \in Paths : Calm(q)
      /\ row[p] = Absent /\ row'[p] = new /\ task'[p] = "fetch" /\ made'[p] = b
      /\ req' = req /\ UNCHANGED gitVars /\ work' = work /\ Claimants(b) = {}
      /\ \A q \in Paths \ {p} : row'[q] = row[q] /\ task'[q] = task[q] /\ made'[q] = made[q]
  BY DEF Create, CalmInv, TypeOK
<1>2. new # Absent /\ new.branch = b /\ new.live
  <2>1. new \in Row
    BY DEF Row, Statuses
  <2>. QED BY <2>1 DEF ParametersOK
<1>3. On(p) = {} /\ \A q \in Paths : On(q)' = On(q)
  BY <1>1 DEF On, TypeOK
<1>4. head[p] = Absent /\ p \notin dirs /\ p \notin work
  BY <1>1 DEF Calm, DiskOK, WorkOK
<1>. HIDE DEF new
<1>5. Calm(p)'
  <2>1. TaskAlone(p)'
    BY <1>1, <1>2, <1>3, <1>4 DEF TaskAlone, Free, gitVars
  <2>2. DiskOK(p)' /\ WorkOK(p)'
    BY <1>1, <1>4 DEF DiskOK, WorkOK, gitVars
  <2>. QED BY <1>1, <1>3, <2>1, <2>2 DEF Calm, Held
<1>6. \A q \in Paths \ {p} : ~Bears(q, b)
  BY <1>1 DEF Claimants, Claim, Rows, Bears, Called, On, Moved, At
<1>7. \A c \in Branches : Bears(p, c)' => c = b
  BY <1>1, <1>2, <1>3 DEF Bears, Called
<1>. QED BY <1>1, <1>3, <1>5, <1>6, <1>7, OnlyAt DEF gitVars

LEMMA CreateStepCalm ==
  ASSUME ParametersOK, TypeOK, CalmInv, NEW p \in Paths, CreateStep(p), calm, calm'
  PROVE  NamesApart' /\ \A q \in Paths : Calm(q)'
<1>0. /\ NamesApart /\ \A q \in Paths : Calm(q)
      /\ task[p] # "none" /\ row[p] \in Row /\ row[p] # Absent /\ row[p].live
      /\ made[p] \in Branches /\ made[p] = row[p].branch /\ On(p) = {}
      /\ Absent \notin Branches
  BY DEF CalmInv, Calm, TaskAlone, TypeOK, ParametersOK, CreateStep, Fetch, AddWorktree, SetFailed,
     SetPreScript, PreScript, SetReady, UndoTree, UndoPrune, UndoDir, UndoBranch, UndoRow
<1>1. /\ head[p] # Absent => p \in dirs /\ head[p] = made[p]
      /\ p \in work => made[p] \in branches
      /\ task[p] \in {"fetch", "add", "fail"} => Free(p)
      /\ task[p] \in {"mark", "script", "ready"} => p \in dirs
      /\ task[p] \in {"undo_prune", "undo_dir", "undo_branch", "undo_row"} => head[p] = Absent
  BY <1>0, TaskNames DEF Calm, TaskAlone, DiskOK, WorkOK
<1>. USE <1>0, <1>1
<1>2. CASE Fetch(p)
  BY <1>2, TaskStepCalm DEF Fetch, TaskSteps, gitVars, ghostVars, Free
<1>3. CASE AddWorktree(p)
  <2>1. CASE AddNew(p, made[p]) /\ \E to \in {"mark", "ready"} : TaskGoes(p, to)
    <3>1. /\ p \in dirs' /\ head'[p] = made[p] /\ made[p] \in branches' /\ branches \subseteq branches'
          /\ \A q \in Paths \ {p} : head'[q] = head[q] /\ (q \in dirs' <=> q \in dirs)
          /\ row' = row /\ \A q \in Paths \ {p} : q \in work' => q \in work
      BY <1>3, <2>1 DEF AddWorktree, AddNew, TypeOK
    <3>. QED BY <2>1, <3>1, TaskStepCalm DEF TaskSteps
  <2>2. CASE AddNewFails(p, made[p]) /\ TaskGoes(p, "fail") /\ UNCHANGED work
    BY <1>3, <2>2, TaskStepCalm DEF AddWorktree, AddNewFails, TaskSteps, Free
  <2>. QED BY <1>3, <2>1, <2>2 DEF AddWorktree
<1>4. CASE SetFailed(p) \/ SetPreScript(p) \/ SetReady(p)
  <2>1. UNCHANGED gitVars
    BY <1>4 DEF SetFailed, SetPreScript, SetReady
  <2>2. CASE SetFailed(p)
    <3>1. /\ row'[p] # Absent /\ row'[p].branch = row[p].branch /\ row'[p].live = row[p].live
          /\ row'[p].status = "failed" /\ work' = work
          /\ \A q \in Paths \ {p} : row'[q] = row[q]
      BY <2>2, StatusSet DEF SetFailed, Statuses
    <3>2. SettledOK(p)' /\ TaskEnds(p)
      BY <2>1, <2>2, <3>1 DEF SettledOK, SetFailed, Free, gitVars
    <3>. QED BY <2>1, <3>1, <3>2, TaskStepCalm DEF gitVars
  <2>3. CASE SetPreScript(p)
    <3>1. /\ row'[p] # Absent /\ row'[p].branch = row[p].branch /\ row'[p].live = row[p].live
          /\ work' = work
          /\ \A q \in Paths \ {p} : row'[q] = row[q]
      BY <2>3, StatusSet DEF SetPreScript, Statuses
    <3>2. /\ "script" \in TaskSteps \ {"none"} /\ TaskGoes(p, "script") /\ p \in dirs'
          /\ head' = head /\ dirs' = dirs /\ branches' = branches
      BY <2>1, <2>3 DEF SetPreScript, TaskSteps, gitVars
    <3>. QED BY <3>1, <3>2, TaskStepCalm
  <2>4. CASE SetReady(p)
    <3>1. /\ row'[p] # Absent /\ row'[p].branch = row[p].branch /\ row'[p].live = row[p].live
          /\ row'[p].status = "ready" /\ work' = work
          /\ \A q \in Paths \ {p} : row'[q] = row[q]
      BY <2>4, StatusSet DEF SetReady, Statuses
    <3>2. SettledOK(p)' /\ TaskEnds(p)
      BY <2>1, <2>4, <3>1 DEF SettledOK, SetReady, gitVars
    <3>. QED BY <2>1, <3>1, <3>2, TaskStepCalm DEF gitVars
  <2>. QED BY <1>4, <2>2, <2>3, <2>4
<1>5. CASE PreScript(p)
  BY <1>5, TaskStepCalm DEF PreScript, TaskSteps, gitVars, ghostVars
<1>6. CASE UndoTree(p)
  <2>1. CASE Remove(p) /\ TaskGoes(p, "undo_dir") /\ UNCHANGED calm
    BY <1>6, <2>1, TaskStepCalm DEF UndoTree, Remove, TaskSteps, TypeOK
  <2>2. CASE NotATree(p) /\ TaskGoes(p, "undo_prune") /\ UNCHANGED calm
    BY <1>6, <2>2, TaskStepCalm DEF UndoTree, NotATree, TaskSteps, gitVars
  <2>. QED BY <1>6, <2>1, <2>2 DEF UndoTree
<1>7. CASE UndoPrune(p)
  <2>1. \A q \in Paths : head'[q] = head[q]
    BY <1>7 DEF UndoPrune, Prune, Calm, DiskOK
  <2>. QED BY <1>7, <2>1, TaskStepCalm DEF UndoPrune, Prune, TaskSteps, ghostVars
<1>8. CASE UndoDir(p)
  BY <1>8, TaskStepCalm DEF UndoDir, TaskSteps, ghostVars
<1>9. CASE UndoBranch(p)
  <2>1. /\ \A b \in branches : b \in branches' \/ b = made[p]
        /\ dirs' = dirs /\ head' = head
    BY <1>9 DEF UndoBranch, DeleteBranch
  <2>. QED BY <1>9, <2>1, TaskStepCalm DEF UndoBranch, TaskSteps
<1>10. CASE UndoRow(p)
  <2>1. /\ row'[p] # Absent /\ row'[p].branch = row[p].branch /\ ~row'[p].live
        /\ \A q \in Paths \ {p} : row'[q] = row[q]
    BY <1>10, LiveSet DEF UndoRow, SoftDelete
  <2>2. SettledOK(p)'
    BY <1>10, <2>1 DEF UndoRow, SettledOK, gitVars
  <2>. QED BY <1>10, <2>1, <2>2, TaskStepCalm DEF UndoRow, gitVars, ghostVars
<1>. QED BY <1>2, <1>3, <1>4, <1>5, <1>6, <1>7, <1>8, <1>9, <1>10 DEF CreateStep

\* A request that begins on a worktree nobody is at work on.
LEMMA BeginCalm ==
  ASSUME ParametersOK, TypeOK, CalmInv, NEW h \in Handlers, NEW r \in Request,
         r.branch = row[r.path].branch, row[r.path] # Absent, ~(r.op = "rename" /\ r.at = "row"),
         SettledOK(r.path) => RequestPhase(r.path, r),
         Begin(h, r), calm, calm'
  PROVE  NamesApart' /\ \A q \in Paths : Calm(q)'
<1>. SUFFICES ASSUME NEW p \in Paths, p = r.path
              PROVE  NamesApart' /\ \A q \in Paths : Calm(q)'
  BY DEF Request
<1>1. /\ NamesApart /\ \A q \in Paths : Calm(q)
      /\ ~Held(p) /\ req'[h] = r /\ req[h] = Absent /\ r # Absent
      /\ row' = row /\ task' = task /\ made' = made /\ UNCHANGED gitVars /\ work' = work
      /\ \A g \in Handlers \ {h} : req'[g] = req[g]
  BY AbsentIsNoRequest DEF Begin, CalmInv, TypeOK
<1>2. /\ On(p) = {} /\ On(p)' = {h} /\ task[p] = "none"
      /\ \A q \in Paths \ {p} : On(q)' = On(q) /\ \A g \in On(q) : req'[g] = req[g]
  BY <1>1 DEF On, Held
<1>3. SettledOK(p) /\ DiskOK(p) /\ WorkOK(p)
  BY <1>1 DEF Calm
<1>4. \A b : (Called(p, b) <=> row[p].branch = b) /\ (Called(p, b)' <=> row[p].branch = b)
  BY <1>1, <1>2 DEF Called, Moved, At
<1>5. RequestPhase(p, r)'
  BY <1>1, <1>3 DEF RequestPhase, DeleteAlone, RestoreAlone, SettledOK, Free, gitVars
<1>6. Calm(p)'
  <2>1. DiskOK(p)' /\ WorkOK(p)'
    BY <1>1, <1>3, <1>4 DEF DiskOK, WorkOK, gitVars
  <2>2. RequestAlone(p, h)'
    BY <1>1, <1>2, <1>5 DEF RequestAlone, RequestPhase, DeleteAlone, RestoreAlone
  <2>. QED BY <1>1, <1>2, <2>1, <2>2 DEF Calm, TaskAlone, Held
<1>7. \A b \in Branches : Bears(p, b)' => Bears(p, b)
  BY <1>1, <1>4 DEF Bears
<1>. QED BY <1>1, <1>2, <1>6, <1>7, OnlyAt DEF gitVars

LEMMA BeginsCalm ==
  ASSUME ParametersOK, TypeOK, CalmInv, NEW h \in Handlers, NEW p \in Paths, NEW b \in Branches,
         BeginDelete(h, p) \/ BeginRestore(h, p) \/ BeginRename(h, p, b), calm, calm'
  PROVE  NamesApart' /\ \A q \in Paths : Calm(q)'
<1>1. row[p] # Absent /\ row[p].branch \in Branches /\ Absent \notin Branches
  BY DEF BeginDelete, BeginRestore, BeginRename, Rows, Live, TypeOK, Row, ParametersOK
<1>2. CASE BeginDelete(h, p)
  <2>2. PICK arg \in {Absent, row[p].branch} :
          Begin(h, [op |-> "delete", at |-> "mark", path |-> p, branch |-> row[p].branch, arg |-> arg])
    BY <1>2 DEF BeginDelete
  <2>. DEFINE r == [op |-> "delete", at |-> "mark", path |-> p, branch |-> row[p].branch, arg |-> arg]
  <2>3. r \in Request
    BY <1>1 DEF Request, DeleteSteps
  <2>4. SettledOK(p) => RequestPhase(p, r)
    BY DEF RequestPhase, DeleteAlone
  <2>. QED BY <1>1, <2>2, <2>3, <2>4, BeginCalm
<1>3. CASE BeginRestore(h, p)
  <2>. DEFINE r == [op |-> "restore", at |-> "look", path |-> p, branch |-> row[p].branch, arg |-> Absent]
  <2>1. Begin(h, r) /\ ~row[p].live
    BY <1>3 DEF BeginRestore, Live
  <2>2. r \in Request
    BY <1>1 DEF Request, RestoreSteps
  <2>3. SettledOK(p) => RequestPhase(p, r)
    BY <2>1 DEF RequestPhase, RestoreAlone, SettledOK
  <2>. QED BY <1>1, <2>1, <2>2, <2>3, BeginCalm
<1>4. CASE BeginRename(h, p, b)
  <2>. DEFINE r == [op |-> "rename", at |-> "live", path |-> p, branch |-> row[p].branch, arg |-> b]
  <2>1. Begin(h, r)
    BY <1>4 DEF BeginRename
  <2>2. r \in Request
    BY <1>1 DEF Request, RenameSteps
  <2>3. SettledOK(p) => RequestPhase(p, r)
    BY DEF RequestPhase
  <2>. QED BY <1>1, <2>1, <2>2, <2>3, BeginCalm
<1>. QED BY <1>2, <1>3, <1>4

\* What is known of a request whose worktree is calm.
LEMMA BegunCalm ==
  ASSUME ParametersOK, TypeOK, CalmInv, calm, NEW h \in Handlers, req[h] # Absent, NEW p, p = req[h].path,
         ~Moved(h)
  PROVE  /\ NamesApart /\ \A q \in Paths : Calm(q)
         /\ p \in Paths /\ row[p] \in Row /\ row[p] # Absent /\ row[p].branch \in Branches
         /\ Absent \notin Branches /\ Absent \notin Row
         /\ req[h].branch = row[p].branch /\ RequestPhase(p, req[h]) /\ req[h] \in Request
         /\ head[p] # Absent => p \in dirs /\ head[p] = row[p].branch
         /\ p \in work => row[p].branch \in branches
<1>1. /\ NamesApart /\ \A q \in Paths : Calm(q)
      /\ p \in Paths /\ row[p] \in Row /\ row[p] # Absent /\ row[p].branch \in Branches
      /\ Absent \notin Branches /\ Absent \notin Row /\ h \in On(p) /\ req[h] \in Request
  BY Begun DEF CalmInv, TypeOK, Row, ParametersOK, On
<1>2. RequestAlone(p, h) /\ DiskOK(p) /\ WorkOK(p)
  BY <1>1 DEF Calm
<1>3. \A b : Called(p, b) <=> row[p].branch = b
  BY <1>1, <1>2 DEF Called, RequestAlone
<1>. QED BY <1>1, <1>2, <1>3 DEF RequestAlone, DiskOK, WorkOK

LEMMA DeleteStepCalm ==
  ASSUME ParametersOK, TypeOK, CalmInv, NEW h \in Handlers, DeleteStep(h), calm, calm'
  PROVE  NamesApart' /\ \A q \in Paths : Calm(q)'
<1>. SUFFICES ASSUME NEW p, p = req[h].path
              PROVE  NamesApart' /\ \A q \in Paths : Calm(q)'
  OBVIOUS
<1>0. req[h] # Absent /\ req[h].op = "delete" /\ ~Moved(h)
  BY DEF DeleteStep, MarkRemoving, RemoveTree, Rollback, PruneAfter, DropBranch, DeleteRow, At, Moved
<1>1. /\ NamesApart /\ \A q \in Paths : Calm(q)
      /\ p \in Paths /\ row[p] \in Row /\ row[p] # Absent /\ row[p].branch \in Branches
      /\ Absent \notin Branches /\ Absent \notin Row
      /\ req[h].branch = row[p].branch /\ DeleteAlone(p, req[h]) /\ req[h] \in Request
      /\ head[p] # Absent => p \in dirs /\ head[p] = row[p].branch
      /\ p \in work => row[p].branch \in branches
  BY <1>0, BegunCalm DEF RequestPhase
<1>. USE <1>0, <1>1
\* A step on to `to`, which leaves the row's branch and the other paths alone.
<1>2. ASSUME NEW to \in DeleteSteps, Goes(h, to)
      PROVE  /\ req'[h].op = "delete" /\ req'[h].at = to /\ req'[h].branch = req[h].branch
             /\ req'[h].arg = req[h].arg
  BY <1>2, RequestMoves
<1>3. CASE MarkRemoving(h)
  <2>1. /\ row'[p] # Absent /\ row'[p].branch = row[p].branch /\ row'[p].live = row[p].live
        /\ work' = work /\ \A q \in Paths \ {p} : row'[q] = row[q]
    BY <1>3, StatusSet DEF MarkRemoving, Statuses
  <2>2. Goes(h, "remove") /\ "remove" \in DeleteSteps /\ UNCHANGED gitVars /\ SettledOK(p)
    BY <1>3 DEF MarkRemoving, DeleteSteps, DeleteAlone, At
  <2>3. req'[h].at = "remove" => RequestPhase(p, req[h])'
    BY <1>2, <2>1, <2>2 DEF RequestPhase, DeleteAlone, SettledOK, gitVars
  <2>. QED BY <2>1, <2>2, <2>3, RequestStepCalm DEF gitVars
<1>4. CASE RemoveTree(h)
  <2>1. row' = row /\ work' = work /\ req[h].at = "remove"
    BY <1>4 DEF RemoveTree, ghostVars, At
  <2>2. CASE Remove(p) /\ Goes(h, AfterRemoval(req[h]))
    <3>1. /\ head'[p] = Absent /\ branches' = branches
          /\ \A q \in Paths \ {p} : head'[q] = head[q] /\ (q \in dirs' <=> q \in dirs)
      BY <2>2 DEF Remove, TypeOK
    <3>2. PICK to \in DeleteSteps : to = AfterRemoval(req[h]) /\ to \in {"row", "branch"}
      BY DEF AfterRemoval, DeleteSteps
    <3>3. req'[h].at = to => RequestPhase(p, req[h])'
      BY <1>2, <2>1, <2>2, <3>1, <3>2 DEF RequestPhase, DeleteAlone
    <3>. QED BY <2>1, <2>2, <3>1, <3>2, <3>3, RequestStepCalm
  <2>3. CASE NotATree(p) /\ Goes(h, "prune")
    <3>1. head[p] = Absent /\ UNCHANGED gitVars /\ "prune" \in DeleteSteps
      BY <2>3 DEF NotATree, DeleteSteps
    <3>2. req'[h].at = "prune" => RequestPhase(p, req[h])'
      BY <1>2, <2>1, <2>3, <3>1 DEF RequestPhase, DeleteAlone, gitVars
    <3>. QED BY <2>1, <2>3, <3>1, <3>2, RequestStepCalm DEF gitVars
  <2>4. CASE RemoveFails(p) /\ Goes(h, IF p \in dirs THEN "rollback" ELSE "prune")
    <3>. DEFINE to == IF p \in dirs THEN "rollback" ELSE "prune"
    <3>1. /\ dirs' = dirs /\ branches' = branches
          /\ \A q \in Paths \ {p} : head'[q] = head[q]
          /\ head'[p] = head[p] \/ head'[p] = Absent
      BY <2>4 DEF RemoveFails, TypeOK
    <3>2. to \in DeleteSteps /\ Goes(h, to)
      BY <2>4 DEF DeleteSteps
    <3>3. req'[h].at = to => RequestPhase(p, req[h])'
      BY <1>2, <2>1, <3>1, <3>2 DEF RequestPhase, DeleteAlone
    <3>. HIDE DEF to
    <3>. QED BY <2>1, <3>1, <3>2, <3>3, RequestStepCalm
  <2>. QED BY <1>4, <2>2, <2>3, <2>4 DEF RemoveTree
<1>5. CASE Rollback(h)
  <2>1. /\ row'[p] # Absent /\ row'[p].branch = row[p].branch /\ row'[p].live = row[p].live
        /\ row'[p].status = "ready"
        /\ work' = work /\ \A q \in Paths \ {p} : row'[q] = row[q]
    BY <1>5, StatusSet DEF Rollback, Statuses
  <2>2. Ends(h) /\ UNCHANGED gitVars /\ p \in dirs /\ (row[p].live \/ head[p] = Absent)
    BY <1>5 DEF Rollback, DeleteAlone, At
  <2>3. SettledOK(p)'
    BY <2>1, <2>2 DEF SettledOK, gitVars
  <2>. QED BY <2>1, <2>2, <2>3, RequestStepCalm DEF gitVars
<1>6. CASE PruneAfter(h)
  <2>1. row' = row /\ work' = work /\ req[h].at = "prune" /\ head[p] = Absent
    BY <1>6 DEF PruneAfter, ghostVars, At, DeleteAlone
  <2>2. /\ \A q \in Paths : head'[q] = head[q]
        /\ dirs' = dirs /\ branches' = branches
    BY <1>6 DEF PruneAfter, Prune, Calm, DiskOK
  <2>3. PICK to \in DeleteSteps : to = AfterRemoval(req[h]) /\ to \in {"row", "branch"}
    BY DEF AfterRemoval, DeleteSteps
  <2>4. Goes(h, to)
    BY <1>6, <2>3 DEF PruneAfter
  <2>5. req'[h].at = to => RequestPhase(p, req[h])'
    BY <1>2, <2>1, <2>2, <2>3, <2>4 DEF RequestPhase, DeleteAlone
  <2>. QED BY <2>1, <2>2, <2>4, <2>5, RequestStepCalm
<1>7. CASE DropBranch(h)
  <2>1. /\ row' = row /\ work' = work \ {p} /\ req[h].at = "branch" /\ head[p] = Absent
        /\ Goes(h, "row") /\ "row" \in DeleteSteps
    BY <1>7 DEF DropBranch, At, DeleteAlone, DeleteSteps
  <2>2. /\ \A b \in branches : b \in branches' \/ b = row[p].branch
        /\ dirs' = dirs /\ head' = head
    BY <1>7 DEF DropBranch, DeleteBranch, DeleteAlone, TypeOK
  <2>3. req'[h].at = "row" => RequestPhase(p, req[h])'
    BY <1>2, <2>1, <2>2 DEF RequestPhase, DeleteAlone
  <2>. QED BY <2>1, <2>2, <2>3, RequestStepCalm
<1>8. CASE DeleteRow(h)
  <2>1. /\ row'[p] # Absent /\ row'[p].branch = row[p].branch /\ ~row'[p].live
        /\ \A q \in Paths \ {p} : row'[q] = row[q]
    BY <1>8, LiveSet DEF DeleteRow, SoftDelete
  <2>2. Ends(h) /\ UNCHANGED gitVars /\ work' = work /\ head[p] = Absent
    BY <1>8 DEF DeleteRow, DeleteAlone, At, ghostVars
  <2>3. SettledOK(p)'
    BY <2>1, <2>2 DEF SettledOK, gitVars
  <2>. QED BY <2>1, <2>2, <2>3, RequestStepCalm DEF gitVars
<1>. QED BY <1>3, <1>4, <1>5, <1>6, <1>7, <1>8 DEF DeleteStep

LEMMA RestoreStepCalm ==
  ASSUME ParametersOK, TypeOK, CalmInv, NEW h \in Handlers, RestoreStep(h), calm, calm'
  PROVE  NamesApart' /\ \A q \in Paths : Calm(q)'
<1>. SUFFICES ASSUME NEW p, p = req[h].path
              PROVE  NamesApart' /\ \A q \in Paths : Calm(q)'
  OBVIOUS
<1>0. req[h] # Absent /\ req[h].op = "restore" /\ ~Moved(h)
  BY DEF RestoreStep, LookAtPath, LookAtBranch, CheckOut, AddFresh, RestoreRow, RestoreReady, At, Moved
<1>1. /\ NamesApart /\ \A q \in Paths : Calm(q)
      /\ p \in Paths /\ row[p] \in Row /\ row[p] # Absent /\ row[p].branch \in Branches
      /\ Absent \notin Branches /\ Absent \notin Row
      /\ req[h].branch = row[p].branch /\ RestoreAlone(p, req[h]) /\ req[h] \in Request
      /\ head[p] # Absent => p \in dirs /\ head[p] = row[p].branch
      /\ p \in work => row[p].branch \in branches
  BY <1>0, BegunCalm DEF RequestPhase
<1>. USE <1>0, <1>1
<1>2. ASSUME NEW to \in RestoreSteps, Goes(h, to)
      PROVE  req'[h].op = "restore" /\ req'[h].at = to
  BY <1>2, RequestMoves
<1>3. CASE LookAtPath(h)
  <2>1. row' = row /\ UNCHANGED gitVars /\ ~row[p].live /\ head[p] = Absent
    BY <1>3 DEF LookAtPath, At, RestoreAlone
  <2>2. CASE Ends(h) /\ UNCHANGED work
    <3>1. SettledOK(p)'
      BY <2>1 DEF SettledOK, gitVars
    <3>. QED BY <2>1, <2>2, <3>1, RequestStepCalm DEF gitVars
  <2>3. CASE Goes(h, "ref") /\ UNCHANGED work
    <3>1. "ref" \in RestoreSteps
      BY DEF RestoreSteps
    <3>2. req'[h].at = "ref" => RequestPhase(p, req[h])'
      BY <1>2, <2>1, <2>3, <3>1 DEF RequestPhase, RestoreAlone, gitVars
    <3>. QED BY <2>1, <2>3, <3>1, <3>2, RequestStepCalm DEF gitVars
  <2>. QED BY <1>3, <2>1, <2>2, <2>3 DEF LookAtPath, Tree
<1>4. CASE LookAtBranch(h)
  <2>1. row' = row /\ UNCHANGED gitVars /\ ~row[p].live /\ head[p] = Absent /\ work' = work
    BY <1>4 DEF LookAtBranch, At, RestoreAlone, ghostVars
  <2>2. PICK to \in RestoreSteps : Goes(h, to) /\ to \in {"checkout", "fresh"}
    BY <1>4 DEF LookAtBranch, RestoreSteps
  <2>3. req'[h].at = to => RequestPhase(p, req[h])'
    BY <1>2, <2>1, <2>2 DEF RequestPhase, RestoreAlone, gitVars
  <2>. QED BY <2>1, <2>2, <2>3, RequestStepCalm DEF gitVars
<1>5. CASE CheckOut(h)
  <2>1. row' = row /\ branches' = branches /\ ~row[p].live /\ head[p] = Absent
    BY <1>5 DEF CheckOut, At, RestoreAlone
  <2>2. CASE /\ CanAdd(p, row[p].branch) /\ Goes(h, "row")
             /\ dirs' = dirs \cup {p} /\ head' = [head EXCEPT ![p] = row[p].branch]
             /\ work' = work \cup {p}
    <3>1. /\ "row" \in RestoreSteps /\ row[p].branch \in branches'
          /\ p \in dirs' /\ head'[p] = row[p].branch
          /\ \A q \in Paths \ {p} : head'[q] = head[q]
      BY <2>1, <2>2 DEF RestoreSteps, CanAdd, TypeOK
    <3>2. req'[h].at = "row" => RequestPhase(p, req[h])'
      BY <1>2, <2>1, <2>2, <3>1 DEF RequestPhase, RestoreAlone
    <3>. QED BY <2>1, <2>2, <3>1, <3>2, RequestStepCalm
  <2>3. CASE Ends(h) /\ UNCHANGED <<dirs, head, work>>
    <3>1. SettledOK(p)'
      BY <2>1, <2>3 DEF SettledOK
    <3>. QED BY <2>1, <2>3, <3>1, RequestStepCalm
  <2>. QED BY <1>5, <2>2, <2>3 DEF CheckOut
<1>6. CASE AddFresh(h)
  <2>1. row' = row /\ ~row[p].live /\ head[p] = Absent
    BY <1>6 DEF AddFresh, At, RestoreAlone
  <2>2. CASE AddNew(p, row[p].branch) /\ Goes(h, "row") /\ work' = work \cup {p}
    <3>1. /\ "row" \in RestoreSteps /\ row[p].branch \in branches' /\ branches \subseteq branches'
          /\ p \in dirs' /\ head'[p] = row[p].branch
          /\ \A q \in Paths \ {p} : head'[q] = head[q] /\ (q \in dirs' <=> q \in dirs)
      BY <2>1, <2>2 DEF RestoreSteps, AddNew, TypeOK
    <3>2. req'[h].at = "row" => RequestPhase(p, req[h])'
      BY <1>2, <2>1, <2>2, <3>1 DEF RequestPhase, RestoreAlone
    <3>. QED BY <2>1, <2>2, <3>1, <3>2, RequestStepCalm
  <2>3. CASE AddNewFails(p, row[p].branch) /\ Ends(h) /\ UNCHANGED work
    <3>1. SettledOK(p)' /\ dirs' = dirs /\ head' = head /\ branches \subseteq branches'
      BY <2>1, <2>3 DEF SettledOK, AddNewFails
    <3>. QED BY <2>1, <2>3, <3>1, RequestStepCalm
  <2>. QED BY <1>6, <2>2, <2>3 DEF AddFresh
<1>7. CASE RestoreRow(h)
  <2>1. UNCHANGED gitVars /\ work' = work /\ ~row[p].live /\ p \in dirs
    BY <1>7 DEF RestoreRow, At, RestoreAlone, ghostVars
  <2>2. Goes(h, "ready") /\ "ready" \in RestoreSteps /\ row' = [row EXCEPT ![p].live = TRUE]
    BY <1>7, <2>1 DEF RestoreRow, RestoreSteps
  <2>3. /\ row'[p] # Absent /\ row'[p].branch = row[p].branch /\ row'[p].live
        /\ \A q \in Paths \ {p} : row'[q] = row[q]
    BY <2>2, LiveSet
  <2>4. req'[h].at = "ready" => RequestPhase(p, req[h])'
    BY <1>2, <2>1, <2>2, <2>3 DEF RequestPhase, RestoreAlone, gitVars
  <2>. QED BY <2>1, <2>2, <2>3, <2>4, RequestStepCalm DEF gitVars
<1>8. CASE RestoreReady(h)
  <2>1. UNCHANGED gitVars /\ row[p].live /\ p \in dirs /\ Ends(h)
    BY <1>8 DEF RestoreReady, At, RestoreAlone
  <2>2. /\ row'[p] # Absent /\ row'[p].branch = row[p].branch /\ row'[p].live = row[p].live
        /\ row'[p].status = "ready" /\ work' = work
        /\ \A q \in Paths \ {p} : row'[q] = row[q]
    BY <1>8, StatusSet DEF RestoreReady, Statuses
  <2>3. SettledOK(p)'
    BY <2>1, <2>2 DEF SettledOK, gitVars
  <2>. QED BY <2>1, <2>2, <2>3, RequestStepCalm DEF gitVars
<1>. QED BY <1>3, <1>4, <1>5, <1>6, <1>7, <1>8 DEF RestoreStep

LEMMA CheckCalm ==
  ASSUME ParametersOK, TypeOK, CalmInv, NEW h \in Handlers, calm, calm', req[h] # Absent,
         req[h].op = "rename", ~Moved(h), UNCHANGED <<row, gitVars, work>>,
         \/ Ends(h)
         \/ \E to \in RenameSteps \ {"row"} : Goes(h, to)
  PROVE  NamesApart' /\ \A q \in Paths : Calm(q)'
<1>. SUFFICES ASSUME NEW p, p = req[h].path
              PROVE  NamesApart' /\ \A q \in Paths : Calm(q)'
  OBVIOUS
<1>1. /\ NamesApart /\ \A q \in Paths : Calm(q)
      /\ p \in Paths /\ row[p] # Absent /\ SettledOK(p)
      /\ head[p] # Absent => p \in dirs /\ head[p] = row[p].branch
      /\ p \in work => row[p].branch \in branches
  BY BegunCalm DEF RequestPhase
<1>2. SettledOK(p)'
  BY <1>1 DEF SettledOK, Free, gitVars
<1>3. CASE Ends(h)
  BY <1>1, <1>2, <1>3, RequestStepCalm DEF gitVars
<1>4. CASE ~Ends(h)
  <2>1. PICK to \in RenameSteps \ {"row"} : Goes(h, to)
    BY <1>4
  <2>2. req'[h].op = "rename"
    BY <2>1, RequestMoves
  <2>3. RequestPhase(p, req[h])'
    BY <1>2, <2>2 DEF RequestPhase
  <2>. QED BY <1>1, <2>1, <2>3, RequestStepCalm DEF gitVars
<1>. QED BY <1>3, <1>4

\* git moves the branch: nothing else bears the new name, so the worktree is
\* the only one whose checkout moves along.
LEMMA RenameBranchCalm ==
  ASSUME ParametersOK, TypeOK, CalmInv, NEW h \in Handlers, calm, calm', At(h, "rename", "git"),
         MoveBranch(req[h].branch, req[h].arg), Goes(h, "row"), UNCHANGED <<row, work>>,
         Claimants(req[h].arg) = {req[h].path}
  PROVE  NamesApart' /\ \A q \in Paths : Calm(q)'
<1>. SUFFICES ASSUME NEW p, p = req[h].path, NEW old, old = req[h].branch, NEW new, new = req[h].arg
              PROVE  NamesApart' /\ \A q \in Paths : Calm(q)'
  OBVIOUS
<1>0. req[h] # Absent /\ req[h].op = "rename" /\ ~Moved(h)
  BY DEF At, Moved
<1>1. /\ NamesApart /\ \A q \in Paths : Calm(q)
      /\ p \in Paths /\ row[p] # Absent /\ SettledOK(p) /\ old = row[p].branch
      /\ old \in Branches /\ new \in Branches /\ Absent \notin Branches
      /\ head[p] # Absent => p \in dirs /\ head[p] = old
      /\ p \in work => row[p].branch \in branches
  BY <1>0, BegunCalm, Begun DEF RequestPhase
<1>2. h \in On(p) /\ On(p) = {h} /\ task[p] = "none"
  BY <1>0, <1>1 DEF On, Calm, RequestAlone, TaskAlone
<1>3. /\ req'[h] # Absent /\ req'[h].path = p /\ req'[h].op = "rename" /\ req'[h].at = "row"
      /\ req'[h].branch = old /\ req'[h].arg = new
      /\ \A g \in Handlers \ {h} : req'[g] = req[g]
      /\ task' = task /\ made' = made
  BY <1>0, RequestMoves DEF RenameSteps
<1>4. /\ \A q \in Paths \ {p} : On(q)' = On(q) /\ \A g \in On(q) : req'[g] = req[g]
      /\ On(p)' = {h}
  BY <1>0, <1>2, <1>3, RequestsAfter
<1>5. /\ \A b : (Called(p, b) <=> b = old)
      /\ \A b : (Called(p, b)' <=> b = new)
  BY <1>0, <1>1, <1>2, <1>3, <1>4 DEF Called, Moved, At
<1>6. /\ branches' = (branches \ {old}) \cup {new} /\ dirs' = dirs
      /\ \A q \in Paths : head'[q] = IF head[q] = old THEN new ELSE head[q]
  BY DEF MoveBranch
<1>7. \A q \in Paths \ {p} : head'[q] = head[q]
  <2>. SUFFICES ASSUME NEW q \in Paths \ {p}, head[q] = old PROVE FALSE
    BY <1>6
  <2>1. Bears(q, old)
    BY <1>1 DEF Calm, DiskOK, Bears
  <2>. QED BY <1>1, <2>1 DEF NamesApart, Bears
<1>8. \A q \in Paths \ {p} : ~Bears(q, new)
  BY DEF Claimants, Claim, Rows, Bears, Called, On, Moved, At
<1>9. Calm(p)'
  <2>1. SettledOK(p)'
    BY <1>1, <1>6 DEF SettledOK, Free
  <2>2. DiskOK(p)' /\ WorkOK(p)'
    BY <1>1, <1>5, <1>6 DEF DiskOK, WorkOK
  <2>3. RequestAlone(p, h)'
    BY <1>1, <1>3, <1>4, <2>1 DEF RequestAlone, RequestPhase
  <2>. QED BY <1>2, <1>3, <1>4, <2>2, <2>3 DEF Calm, TaskAlone, Held
<1>10. \A b \in Branches : Bears(p, b)' => Bears(p, b) \/ b = new
  BY <1>5 DEF Bears
<1>11. \A b \in branches : b \in branches' \/ Bears(p, b)
  BY <1>1, <1>6 DEF Bears
<1>. QED BY <1>1, <1>3, <1>4, <1>6, <1>7, <1>8, <1>9, <1>10, <1>11, OnlyAt

\* The row follows.
LEMMA RenameRowCalm ==
  ASSUME ParametersOK, TypeOK, CalmInv, NEW h \in Handlers, calm, calm', RenameRow(h)
  PROVE  NamesApart' /\ \A q \in Paths : Calm(q)'
<1>. SUFFICES ASSUME NEW p, p = req[h].path, NEW new, new = req[h].arg
              PROVE  NamesApart' /\ \A q \in Paths : Calm(q)'
  OBVIOUS
<1>0. req[h] # Absent /\ req[h].op = "rename" /\ Moved(h)
  BY DEF At, Moved, RenameRow
<1>1. /\ NamesApart /\ \A q \in Paths : Calm(q)
      /\ p \in Paths /\ row[p] # Absent /\ row[p] \in Row /\ new \in Branches
      /\ Absent \notin Branches /\ Absent \notin Row
  BY <1>0, Begun DEF CalmInv, TypeOK, ParametersOK
<1>2. /\ On(p) = {h} /\ task[p] = "none" /\ SettledOK(p) /\ DiskOK(p) /\ WorkOK(p)
  BY <1>0, <1>1 DEF On, Calm, RequestAlone, RequestPhase, TaskAlone
<1>3. /\ req'[h] = Absent /\ task' = task /\ made' = made
      /\ \A g \in Handlers \ {h} : req'[g] = req[g]
      /\ UNCHANGED gitVars /\ work' = work
  BY DEF RenameRow, Ends, TypeOK, ghostVars
<1>4. /\ \A q \in Paths \ {p} : On(q)' = On(q) /\ \A g \in On(q) : req'[g] = req[g]
      /\ On(p)' = {}
  BY <1>0, <1>2, <1>3, RequestsAfter
<1>5. /\ row'[p] # Absent /\ row'[p].branch = new /\ row'[p].live = row[p].live
      /\ row'[p].status = row[p].status
      /\ \A q \in Paths \ {p} : row'[q] = row[q]
  <2>. DEFINE r == [row[p] EXCEPT !.branch = new]
  <2>1. row' = [row EXCEPT ![p] = r]
    BY DEF RenameRow
  <2>2. r \in Row /\ r.branch = new /\ r.live = row[p].live /\ r.status = row[p].status
    BY <1>1 DEF Row
  <2>. HIDE DEF r
  <2>. QED BY <1>1, <2>1, <2>2 DEF TypeOK
<1>6. /\ \A b : (Called(p, b) <=> b = new)
      /\ \A b : (Called(p, b)' <=> b = new)
  BY <1>0, <1>2, <1>4, <1>5 DEF Called
<1>7. Calm(p)'
  <2>1. SettledOK(p)'
    BY <1>2, <1>3, <1>5 DEF SettledOK, Free, gitVars
  <2>2. DiskOK(p)' /\ WorkOK(p)'
    BY <1>2, <1>3, <1>5, <1>6 DEF DiskOK, WorkOK, gitVars
  <2>. QED BY <1>2, <1>3, <1>4, <2>1, <2>2 DEF Calm, TaskAlone
<1>8. \A b \in Branches : Bears(p, b)' => Bears(p, b)
  BY <1>1, <1>5, <1>6 DEF Bears
<1>. QED BY <1>1, <1>3, <1>4, <1>5, <1>7, <1>8, OnlyAt DEF gitVars

LEMMA RenameStepCalm ==
  ASSUME ParametersOK, TypeOK, CalmInv, NEW h \in Handlers, RenameStep(h), calm, calm'
  PROVE  NamesApart' /\ \A q \in Paths : Calm(q)'
<1>1. CASE CheckLive(h) \/ CheckHistory(h)
  <2>1. /\ req[h] # Absent /\ req[h].op = "rename" /\ ~Moved(h) /\ UNCHANGED <<row, gitVars, work>>
        /\ Ends(h) \/ \E to \in RenameSteps \ {"row"} : Goes(h, to)
    BY <1>1 DEF CheckLive, CheckHistory, At, Moved, RenameSteps, ghostVars
  <2>. QED BY <2>1, CheckCalm
<1>2. CASE RenameBranch(h)
  <2>1. At(h, "rename", "git") /\ UNCHANGED <<row, work>>
    BY <1>2 DEF RenameBranch
  <2>2. CASE /\ MoveBranch(req[h].branch, req[h].arg) /\ Goes(h, "row")
             /\ calm' = (calm /\ Claimants(req[h].arg) = {req[h].path})
    BY <2>1, <2>2, RenameBranchCalm
  <2>3. CASE Ends(h) /\ UNCHANGED gitVars
    BY <2>1, <2>3, CheckCalm DEF At, Moved
  <2>. QED BY <1>2, <2>2, <2>3 DEF RenameBranch
<1>3. CASE RenameRow(h)
  BY <1>3, RenameRowCalm
<1>. QED BY <1>1, <1>2, <1>3 DEF RenameStep

\* A restart that interrupts nothing changes no row.
LEMMA RestartCalm ==
  ASSUME ParametersOK, TypeOK, CalmInv, Restart, calm, calm'
  PROVE  NamesApart' /\ \A q \in Paths : Calm(q)'
<1>1. /\ NamesApart /\ \A q \in Paths : Calm(q) /\ ~Held(q)
      /\ UNCHANGED gitVars /\ work' = work
      /\ \A q \in Paths : row'[q] = Recovered(row[q]) /\ task'[q] = "none" /\ made'[q] = Absent
      /\ \A h \in Handlers : req'[h] = Absent
  BY DEF Restart, CalmInv
<1>2. \A q \in Paths : On(q) = {} /\ On(q)' = {} /\ task[q] = "none"
  BY <1>1 DEF Held, On
<1>3. ASSUME NEW q \in Paths PROVE row'[q] = row[q]
  <2>1. CASE row[q] = Absent \/ ~row[q].live
    BY <1>1, <2>1 DEF Recovered
  <2>2. CASE row[q] # Absent /\ row[q].live
    <3>1. row[q].status \in {"ready", "failed"} /\ row[q] \in Row
      BY <1>1, <2>2 DEF Calm, SettledOK, TypeOK
    <3>2. row'[q] = [row[q] EXCEPT !.status = row[q].status]
      BY <1>1, <2>2, <3>1 DEF Recovered
    <3>. QED BY <3>1, <3>2 DEF Row
  <2>. QED BY <2>1, <2>2
<1>4. \A q \in Paths, b \in Branches : (Called(q, b)' <=> Called(q, b)) /\ (Bears(q, b)' <=> Bears(q, b))
  BY <1>2, <1>3 DEF Called, Bears
<1>5. NamesApart'
  BY <1>1, <1>4 DEF NamesApart
<1>6. ASSUME NEW q \in Paths PROVE Calm(q)'
  <2>1. SettledOK(q)' <=> SettledOK(q)
    BY <1>1, <1>3 DEF SettledOK, Free, gitVars
  <2>2. DiskOK(q)' /\ WorkOK(q)'
    <3>1. head[q] # Absent => head[q] \in Branches
      BY DEF TypeOK
    <3>. QED BY <1>1, <1>3, <1>4, <3>1 DEF DiskOK, WorkOK, Calm, gitVars
  <2>. QED BY <1>1, <1>2, <1>3, <2>1, <2>2 DEF Calm, TaskAlone
<1>. QED BY <1>5, <1>6

LEMMA NextCalm ==
  ASSUME ParametersOK, TypeOK, CalmInv, [Next]_vars PROVE CalmInv'
<1>. SUFFICES ASSUME calm' PROVE NamesApart' /\ \A q \in Paths : Calm(q)'
  BY DEF CalmInv
<1>1. CASE \E b \in Branches : Create(b)
  BY <1>1, CreateCalm
<1>2. CASE \E p \in Paths : CreateStep(p)
  <2>1. calm
    BY <1>2 DEF CreateStep, Fetch, AddWorktree, SetFailed, SetPreScript, PreScript, SetReady,
       UndoTree, UndoPrune, UndoDir, UndoBranch, UndoRow, SetStatus, ghostVars
  <2>. QED BY <1>2, <2>1, CreateStepCalm
<1>3. CASE \/ \E h \in Handlers, p \in Paths : BeginDelete(h, p) \/ BeginRestore(h, p)
           \/ \E h \in Handlers, p \in Paths, b \in Branches : BeginRename(h, p, b)
  <2>1. calm
    BY <1>3 DEF BeginDelete, BeginRestore, BeginRename, Begin
  <2>2. \E b : b \in Branches
    BY <1>3 DEF BeginDelete, BeginRestore, BeginRename, Rows, Live, TypeOK, Row
  <2>. QED BY <1>3, <2>1, <2>2, BeginsCalm
<1>4. CASE \E h \in Handlers : DeleteStep(h)
  <2>1. calm
    BY <1>4 DEF DeleteStep, MarkRemoving, RemoveTree, Rollback, PruneAfter, DropBranch, DeleteRow,
       SetStatus, ghostVars
  <2>. QED BY <1>4, <2>1, DeleteStepCalm
<1>5. CASE \E h \in Handlers : RestoreStep(h)
  <2>1. calm
    BY <1>5 DEF RestoreStep, LookAtPath, LookAtBranch, CheckOut, AddFresh, RestoreRow, RestoreReady,
       SetStatus, ghostVars
  <2>. QED BY <1>5, <2>1, RestoreStepCalm
<1>6. CASE \E h \in Handlers : RenameStep(h)
  <2>1. calm
    BY <1>6 DEF RenameStep, CheckLive, CheckHistory, RenameBranch, RenameRow, ghostVars
  <2>. QED BY <1>6, <2>1, RenameStepCalm
<1>7. CASE (\E h \in Handlers : HangUp(h)) \/ \E p \in Paths : DeletedByHand(p)
  BY <1>7 DEF HangUp, DeletedByHand
<1>8. CASE Restart
  BY <1>8, RestartCalm DEF Restart
<1>9. CASE UNCHANGED vars
  <2>1. \A q \in Paths : On(q)' = On(q)
    BY <1>9 DEF vars, On
  <2>. QED BY <1>9, <2>1, Elsewhere DEF vars, CalmInv, NamesApart
<1>. QED BY <1>1, <1>2, <1>3, <1>4, <1>5, <1>6, <1>7, <1>8, <1>9 DEF Next

LEMMA CalmInvariance == Spec => [](TypeOK /\ CalmInv)
<1>. USE ParametersOK
<1>1. Init => TypeOK /\ CalmInv
  BY InitType, InitCalm
<1>2. TypeOK /\ CalmInv /\ [Next]_vars => (TypeOK /\ CalmInv)'
  BY NextType, NextCalm
<1>. QED BY <1>1, <1>2, PTL DEF Spec

\* The worktree nobody is at work on is on disk what its row says, and no
\* branch is lost with it, as long as operations on a path did not overlap,
\* none was interrupted and no two rows went for one name (worktrees.rs).
THEOREM RowsAreTrue == Spec => []RowsMatchDisk
<1>1. TypeOK /\ CalmInv => RowsMatchDisk
  BY DEF CalmInv, RowsMatchDisk, Settled, Rows, Held, Calm, SettledOK, DiskOK, Called
<1>. QED BY <1>1, CalmInvariance, PTL

\* The branch of a worktree survives until a delete of that worktree asks for
\* it or its own pre-script fails: create, restore and rename never drop one,
\* and delete drops no other's.
THEOREM WorkNeverLost == Spec => []WorkIsKept
<1>1. TypeOK /\ CalmInv => WorkIsKept
  BY DEF CalmInv, WorkIsKept, Settled, Rows, Held, Calm, WorkOK, Called, TypeOK, Row
<1>. QED BY <1>1, CalmInvariance, PTL

=============================================================================
