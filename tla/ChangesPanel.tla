---------------------------- MODULE ChangesPanel ----------------------------
(***************************************************************************)
(* The panel of a scope's uncommitted changes: the files git lists, the    *)
(* diff of the one that is open, the marks of what the user has reviewed,  *)
(* kept per scope in the browser's storage, and files being discarded.     *)
(*                                                                         *)
(* A content is a number, 0 the one at HEAD; the signature of a diff is    *)
(* the content it was made of.  Nothing here looks whether an answer is    *)
(* the one to the newest request.  The budget's looks bound the edits, the *)
(* marks and the confirmations asked for.                                  *)
(***************************************************************************)
EXTENDS Requests, TLC

CONSTANTS
  Scopes, Paths,
  MaxContent,   \* contents a file may have
  Budgets

NoMarks == [p \in Paths |-> None]
Fresh(scope, marks) ==
  [scope |-> scope, entries |-> {}, listed |-> None, selected |-> None, diff |-> None,
   sigs |-> NoMarks, reviewed |-> marks, pending |-> None, loading |-> FALSE, err |-> FALSE,
   confirming |-> None]

Init ==
  /\ view = Fresh(None, NoMarks) /\ calls = {} /\ left \in Budgets
  /\ server = [content |-> [s \in Scopes |-> [p \in Paths |-> 1]],
               marks |-> [s \in Scopes |-> NoMarks]]

IsReviewed(v, p) == v.sigs[p] # None /\ v.reviewed[p] = v.sigs[p].content

-----------------------------------------------------------------------------
(* The user.                                                               *)

\* The panel is mounted with the marks of its scope, and lists twice: onMount
\* and the effect on the scope both call refresh.
Open(scope) ==
  /\ view.scope = None
  /\ view' = [Fresh(scope, server.marks[scope]) EXCEPT !.loading = TRUE]
  /\ AsksEach("status", {[scope |-> scope, by |-> who] : who \in {"mount", "effect"}})
  /\ UNCHANGED server

\* What is under way goes on without a panel: a mark it has promised is made
\* when the diff comes.
Close ==
  /\ view.scope # None /\ view.confirming = None
  /\ view' = Fresh(None, NoMarks)
  /\ calls' = {[r EXCEPT !.arg = [gone |-> [pending |-> view.pending, reviewed |-> view.reviewed]] @@ @]
               : r \in calls}
  /\ UNCHANGED <<server, left>>

Refresh ==
  /\ view.scope # None /\ ~view.loading
  /\ view' = [view EXCEPT !.loading = TRUE, !.err = FALSE]
  /\ Asks("status", [scope |-> view.scope])
  /\ UNCHANGED server

\* A click on a row; the wrap and collapse toggles open the diff once more.
OpenDiff(p) ==
  /\ p \in view.entries
  /\ view' = [view EXCEPT !.selected = p]
  /\ Asks("diff", [scope |-> view.scope, path |-> p])
  /\ UNCHANGED server

Stored(scope, marks) == server' = [server EXCEPT !.marks[scope] = marks]

Marked(v, p) ==
  [v.reviewed EXCEPT ![p] = IF IsReviewed(v, p) THEN None ELSE v.sigs[p].content]

ToggleReviewed(p) ==
  /\ p \in view.entries
  /\ \/ /\ view.sigs[p] # None
        /\ view' = [view EXCEPT !.reviewed = Marked(view, p)]
        /\ Stored(view.scope, Marked(view, p))
        /\ Spend("looks") /\ UNCHANGED calls
     \/ /\ view.sigs[p] = None
        /\ view' = [view EXCEPT !.pending = p, !.selected = p]
        /\ Asks("diff", [scope |-> view.scope, path |-> p])
        /\ UNCHANGED server

DiscardFile(p) ==
  /\ p \in view.entries /\ view.confirming = None /\ Spend("looks")
  /\ view' = [view EXCEPT !.confirming = p]
  /\ UNCHANGED <<server, calls>>

AnswerConfirm(ok) ==
  /\ view.confirming # None
  /\ view' = [view EXCEPT !.confirming = None]
  /\ IF ok THEN Asks("discard", [scope |-> view.scope, path |-> view.confirming])
           ELSE UNCHANGED <<calls, left>>
  /\ UNCHANGED server

-----------------------------------------------------------------------------
(* Answers.                                                                *)

Gone(r) == "gone" \in DOMAIN r.arg

StatusDone(r) ==
  /\ ~Gone(r) /\ Takes(r, "status")
  /\ view' = [view EXCEPT
       !.entries = IF r.reply = Failed THEN {} ELSE {p \in Paths : r.reply[p] # 0},
       !.listed = IF r.reply = Failed THEN None ELSE [n |-> r.n, content |-> r.reply],
       !.selected = IF r.reply # Failed /\ @ # None /\ r.reply[@] = 0 THEN None ELSE @,
       !.err = r.reply = Failed, !.loading = FALSE]
  /\ UNCHANGED <<server, left>>

DiffFailed(r) ==
  /\ ~Gone(r) /\ r.reply = Failed /\ Takes(r, "diff")
  /\ view' = [view EXCEPT !.err = TRUE]
  /\ UNCHANGED <<server, left>>

DiffDone(r) ==
  /\ ~Gone(r) /\ r.reply # Failed /\ Takes(r, "diff")
  /\ LET p     == r.arg.path
         shown == [view EXCEPT !.sigs[p] = [content |-> r.reply, n |-> r.n],
                               !.diff = [path |-> p, content |-> r.reply]]
     IN  \/ /\ view.pending = p
            /\ view' = [shown EXCEPT !.pending = None, !.reviewed[p] = r.reply]
            /\ Stored(view.scope, [view.reviewed EXCEPT ![p] = r.reply])
         \/ /\ view.pending # p
            /\ view' = shown /\ UNCHANGED server
  /\ UNCHANGED left

\* Under the scope of the panel that is open by now.
DiffDoneLate(r) ==
  /\ Gone(r) /\ r.kind = "diff" /\ r.reply # None /\ calls' = calls \ {r}
  /\ IF r.reply # Failed /\ r.arg.gone.pending = r.arg.path /\ view.scope # None
     THEN Stored(view.scope, [r.arg.gone.reviewed EXCEPT ![r.arg.path] = r.reply])
     ELSE UNCHANGED server
  /\ UNCHANGED <<view, left>>

DiscardDone(r) ==
  /\ ~Gone(r) /\ r.reply # Failed
  /\ TakesAsking(r, "discard", "status", [scope |-> view.scope])
  /\ LET v == IF view.selected = r.arg.path THEN [view EXCEPT !.selected = None, !.diff = None]
                                            ELSE view
     IN  view' = [v EXCEPT !.loading = TRUE, !.err = FALSE]
  /\ UNCHANGED server

DiscardFailed(r) ==
  /\ ~Gone(r) /\ r.reply = Failed /\ Takes(r, "discard")
  /\ view' = [view EXCEPT !.err = TRUE]
  /\ UNCHANGED <<server, left>>

Dropped(r) ==
  /\ Gone(r) /\ r.kind # "diff" /\ r.reply # None /\ calls' = calls \ {r}
  /\ UNCHANGED <<view, server, left>>

-----------------------------------------------------------------------------
(* git, and the agents that edit files.                                    *)

ServeStatus(r) ==
  /\ r.kind = "status" /\ Answers(r, server.content[r.arg.scope])
  /\ UNCHANGED <<view, server, left>>

ServeDiff(r) ==
  /\ r.kind = "diff" /\ Answers(r, server.content[r.arg.scope][r.arg.path])
  /\ UNCHANGED <<view, server, left>>

ServeDiscard(r) ==
  /\ r.kind = "discard" /\ Answers(r, 0)
  /\ server' = [server EXCEPT !.content[r.arg.scope][r.arg.path] = 0]
  /\ UNCHANGED <<view, left>>

Edit(scope, p) ==
  /\ server.content[scope][p] < MaxContent /\ Spend("looks")
  /\ server' = [server EXCEPT !.content[scope][p] = @ + 1]
  /\ UNCHANGED <<view, calls>>

Next ==
  \/ \E scope \in Scopes : Open(scope) \/ \E p \in Paths : Edit(scope, p)
  \/ Close \/ Refresh
  \/ \E p \in Paths : OpenDiff(p) \/ ToggleReviewed(p) \/ DiscardFile(p)
  \/ \E ok \in BOOLEAN : AnswerConfirm(ok)
  \/ \E r \in calls :
       \/ StatusDone(r) \/ DiffDone(r) \/ DiffFailed(r) \/ DiffDoneLate(r)
       \/ DiscardDone(r) \/ DiscardFailed(r) \/ Dropped(r)
       \/ ServeStatus(r) \/ ServeDiff(r) \/ ServeDiscard(r) \/ Fails(r)

Spec == Init /\ [][Next]_panelVars

-----------------------------------------------------------------------------
(* Properties.                                                             *)

\* The list that shows that it is being read is still to come.
LoadingHasAReason == view.loading => \E r \in calls : r.kind = "status" /\ ~Gone(r)
=============================================================================
