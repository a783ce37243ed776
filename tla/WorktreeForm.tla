---------------------------- MODULE WorktreeForm ----------------------------
(***************************************************************************)
(* The dialogs that make a worktree and that rename its branch             *)
(* (features/projects/WorktreeDialog.tsx, RenameWorktreeDialog.tsx).       *)
(*                                                                         *)
(* A form offers a name that is not taken, as far as it knows yet; the     *)
(* user may edit it.  Once the server has made the row, the dialog shows   *)
(* its console and reads the project's list of worktrees on a timer until  *)
(* the row is ready, failed or, having been seen, gone: a pre-script that  *)
(* fails takes its worktree with it.                                       *)
(***************************************************************************)
EXTENDS Requests

CONSTANTS
  Names,        \* of branches; the suggestions are made from them
  Taken,        \* the name of a worktree, of a removed one, or of a branch
  MaxConsole,   \* lines the console keeps
  Budgets

Init ==
  \E rename \in BOOLEAN, where \in {"live", "history", "git"}, b \in Budgets :
    /\ left = [b EXCEPT !.asks = @ - 1]
    /\ server = [taken |-> [w \in {"live", "history", "git"} |-> IF w = where THEN {Taken} ELSE {}],
                 name |-> None, row |-> None, was |-> {}, sent |-> 0]
    /\ view = [rename |-> rename, open |-> TRUE, phase |-> "form", branch |-> None,
               edited |-> FALSE, live |-> IF where = "live" THEN {Taken} ELSE {}, history |-> {}, git |-> {},
               busy |-> FALSE, err |-> FALSE, listed |-> None, seen |-> FALSE, polls |-> FALSE,
               closing |-> FALSE, socket |-> FALSE, console |-> 0]
    /\ calls = {[n |-> -b.asks, kind |-> kind, arg |-> None, reply |-> None] :
                kind \in {"history"} \cup IF rename THEN {} ELSE {"git"}}

takenBranches(v) == v.live \cup v.history \cup IF v.rename THEN {} ELSE v.git

-----------------------------------------------------------------------------
(* The form.                                                               *)

\* The effect on what is taken: a name that was offered and turns out to be
\* taken is replaced, one the user has typed is not.
Seeded(v, name) ==
  IF v.rename \/ v.edited \/ (v.branch # None /\ v.branch \notin takenBranches(v)) THEN v
  ELSE [v EXCEPT !.branch = name]

Suggestions(v) == Names \ takenBranches(v)

Learned(v) == \E name \in Suggestions(v) : view' = Seeded(v, name)

HistoryDone(r) ==
  /\ Takes(r, "history")
  /\ Learned(IF r.reply = Failed THEN view ELSE [view EXCEPT !.history = r.reply])
  /\ UNCHANGED <<server, left>>

GitDone(r) ==
  /\ Takes(r, "git")
  /\ Learned(IF r.reply = Failed THEN view ELSE [view EXCEPT !.git = r.reply])
  /\ UNCHANGED <<server, left>>

Reroll ==
  /\ view.open /\ view.phase = "form" /\ Spend("looks")
  /\ \E name \in Suggestions(view) : view' = [view EXCEPT !.branch = name, !.edited = FALSE]
  /\ UNCHANGED <<server, calls>>

EditBranch(name) ==
  /\ view.open /\ view.phase = "form" /\ Spend("looks")
  /\ view' = [view EXCEPT !.branch = name, !.edited = ~view.rename]
  /\ UNCHANGED <<server, calls>>

Submittable == view.open /\ view.phase = "form" /\ ~view.busy

\* A name that is taken; renaming to the present one just closes the form.
Refuse ==
  /\ Submittable /\ ~view.err
  /\ view.branch = None \/ view.branch \in takenBranches(view)
  /\ view' = IF view.rename /\ view.branch = None THEN [view EXCEPT !.open = FALSE]
                                                   ELSE [view EXCEPT !.err = TRUE]
  /\ UNCHANGED <<server, calls, left>>

Submit ==
  /\ Submittable /\ view.branch \notin takenBranches(view) \cup {None}
  /\ Asks(IF view.rename THEN "rename" ELSE "create", view.branch)
  /\ view' = [view EXCEPT !.busy = TRUE, !.err = FALSE]
  /\ UNCHANGED server

RenameDone(r) ==
  /\ Takes(r, "rename")
  /\ view' = [view EXCEPT !.busy = FALSE, !.err = r.reply = Failed, !.open = r.reply = Failed]
  /\ UNCHANGED <<server, left>>

CreateFailed(r) ==
  /\ r.reply = Failed /\ Takes(r, "create")
  /\ view' = [view EXCEPT !.busy = FALSE, !.err = TRUE]
  /\ UNCHANGED <<server, left>>

\* The row is there: the rail's list is read, the console is opened, the
\* timer of the poll is set.
Created(r) ==
  /\ r.reply # Failed /\ TakesAsking(r, "create", "rows", "rail")
  /\ view' = [view EXCEPT !.busy = FALSE, !.phase = "running", !.socket = TRUE,
                          !.console = 1, !.polls = TRUE]
  /\ UNCHANGED server

Cancel ==
  /\ view.open /\ view.phase \in {"form", "ready", "failed"} /\ ~view.busy
  /\ view' = [view EXCEPT !.open = FALSE, !.polls = FALSE, !.socket = FALSE, !.closing = FALSE]
  /\ UNCHANGED <<server, calls, left>>

-----------------------------------------------------------------------------
(* The console and the poll.                                               *)

pushConsole(v) == [v EXCEPT !.console = IF @ < MaxConsole THEN @ + 1 ELSE @]

ConsoleFrame ==
  /\ view.socket /\ server.sent > 0
  /\ server' = [server EXCEPT !.sent = @ - 1] /\ view' = pushConsole(view)
  /\ UNCHANGED <<calls, left>>

\* The timer does not wait for the answer to the poll before; here it does, as
\* each poll reads what the last listing has left.
PollTick ==
  /\ view.polls /\ {r \in calls : r.kind = "rows" /\ r.arg = "poll"} = {}
  /\ calls' = calls \cup {Request("rows", "poll")}
  /\ UNCHANGED <<view, server, left>>

VerdictUnseen(v, row) ==
  CASE row = None                  -> "failed"
    [] row \in {"ready", "failed"} -> row
    [] OTHER                       -> "running"

\* What the list says of the row: its status, or, once seen, that it is gone.
Verdict(v, row) ==
  CASE row = None /\ v.seen        -> "failed"
    [] row \in {"ready", "failed"} -> row
    [] OTHER                       -> "running"

\* The listing goes to the store, a listing that fails leaves it; the store's
\* branches are taken ones, the one that was just created among them.
Stored(v, reply) ==
  IF reply = Failed THEN v
  ELSE [v EXCEPT !.listed = reply.row,
                 !.live = server.taken["live"] \cup IF reply.row = None THEN {} ELSE {server.name}]

Polled(v) ==
  LET now == Verdict(v, v.listed) IN
  [v EXCEPT !.phase = now, !.seen = @ \/ v.listed # None,
            !.polls = now = "running", !.closing = now = "ready"]

RowsDone(r) ==
  /\ Takes(r, "rows")
  /\ \E name \in Suggestions(Stored(view, r.reply)) :
       LET v == Seeded(Stored(view, r.reply), name) IN
       view' = IF ~view.open THEN view ELSE IF r.arg = "poll" /\ v.polls THEN Polled(v) ELSE v
  /\ UNCHANGED <<server, left>>

\* A moment after the row is ready, or at once with the button.
Finish ==
  /\ view.open /\ view.phase = "ready" /\ view.closing
  /\ view' = [view EXCEPT !.phase = "form", !.console = 0, !.socket = FALSE,
                          !.closing = FALSE, !.open = FALSE]
  /\ UNCHANGED <<server, calls, left>>

-----------------------------------------------------------------------------
(* The server.                                                             *)

ServeLists(r) ==
  /\ \/ r.kind = "history" /\ Answers(r, server.taken["history"])
     \/ r.kind = "git"     /\ Answers(r, server.taken["git"])
     \/ r.kind = "rows"    /\ Answers(r, [row |-> server.row])
  /\ UNCHANGED <<view, server, left>>

ServeSubmit(r) ==
  /\ r.kind \in {"create", "rename"}
  /\ IF r.arg = Taken
     THEN Answers(r, Failed) /\ UNCHANGED server
     ELSE /\ Answers(r, TRUE)
          /\ server' = IF r.kind = "rename" THEN server
                       ELSE [server EXCEPT !.row = "creating", !.name = r.arg]
  /\ UNCHANGED <<view, left>>

\* The task of the row: it becomes ready, or fails and, when it was the
\* script that failed, goes; it writes to the console as it works.
Moves(row) ==
  /\ server.row = "creating" /\ row \in {"ready", "failed", None}
  /\ server' = [server EXCEPT !.row = row, !.was = @ \cup {row}, !.sent = 1]
  /\ UNCHANGED <<view, calls, left>>

Next ==
  \/ Reroll \/ Refuse \/ Submit \/ Cancel \/ ConsoleFrame \/ PollTick \/ Finish
  \/ \E name \in Names : EditBranch(name)
  \/ \E row \in {"ready", "failed", None} : Moves(row)
  \/ \E r \in calls : \/ HistoryDone(r) \/ GitDone(r) \/ RenameDone(r) \/ CreateFailed(r)
                      \/ Created(r) \/ RowsDone(r) \/ ServeLists(r) \/ ServeSubmit(r) \/ Fails(r)

Spec == Init /\ [][Next]_panelVars

-----------------------------------------------------------------------------
(* Properties.                                                             *)

\* One submit is under way at a time, however fast the form is sent again.
OneSubmitAtATime == Cardinality({r \in calls : r.kind \in {"create", "rename"}}) <= 1

\* What the dialog says of the worktree is what became of it: it is not
\* selected before it is ready, nor given up while its script may succeed.
VerdictIsTrue ==
  /\ view.phase = "ready"  => "ready" \in server.was
  /\ view.phase = "failed" => server.was \cap {"failed", None} # {}
=============================================================================
