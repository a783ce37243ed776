------------------------------ MODULE NewChat ------------------------------
(***************************************************************************)
(* The dialog that makes a chat (features/chat/NewChatDialog.tsx): a       *)
(* provider among those whose program is installed, and a model of its.    *)
(*                                                                         *)
(* The providers come from the store at once, when it has them, and from   *)
(* the server in any case; the models of the chosen one can be read anew.  *)
(***************************************************************************)
EXTENDS Requests

CONSTANTS
  Providers,   \* in the order they are listed
  Free,        \* a model no provider lists, typed in
  Lists,       \* what a detection may find: [p -> [available, models]]
  Budgets

NoModels == [p \in Providers |-> [available |-> FALSE, models |-> {}]]
DefaultModel(list, p) == IF list[p].models = {} THEN Free ELSE CHOOSE m \in list[p].models : TRUE

\* The user's default, or else an available one.
Target(list, settings) ==
  IF settings.provider # None THEN settings.provider
  ELSE IF \E p \in Providers : list[p].available
  THEN CHOOSE p \in Providers : list[p].available ELSE None

Preset(v, list, settings) ==
  LET p == Target(list, settings) IN
  IF p = None THEN v
  ELSE [v EXCEPT !.provider = p,
                 !.model = IF settings.provider = p /\ settings.model # None
                           THEN settings.model ELSE DefaultModel(list, p)]

Init ==
  \E cached \in BOOLEAN, list \in Lists, b \in Budgets, p \in Providers \cup {None},
     model \in {Free, None} :
    LET settings == [provider |-> p, model |-> model]
        empty    == [open |-> TRUE, list |-> NoModels, provider |-> None, model |-> Free,
                     loading |-> TRUE, refreshing |-> FALSE, busy |-> FALSE, err |-> FALSE,
                     cached |-> cached]
    IN  /\ left = [b EXCEPT !.asks = @ - 1]
        /\ server = [list |-> list, settings |-> settings, chats |-> {}]
        /\ view = IF cached
                  THEN Preset([empty EXCEPT !.list = list, !.loading = FALSE], list, settings)
                  ELSE empty
        /\ calls = {[n |-> -b.asks, kind |-> "list", arg |-> None, reply |-> None]}

-----------------------------------------------------------------------------

\* The fresh list replaces the cached one; what is chosen is left alone.
ListDone(r) ==
  /\ Takes(r, "list")
  /\ view' = IF r.reply = Failed THEN [view EXCEPT !.loading = FALSE, !.err = @ \/ ~view.cached]
             ELSE LET v == [view EXCEPT !.list = r.reply, !.loading = FALSE] IN
                  IF view.cached THEN v ELSE Preset(v, r.reply, server.settings)
  /\ UNCHANGED <<server, left>>

modelOptions(v) == IF v.provider = None THEN {} ELSE v.list[v.provider].models

onPickProvider(p) ==
  /\ view.open /\ ~view.loading /\ p # view.provider /\ Spend("looks")
  /\ view' = [view EXCEPT !.provider = p, !.model = DefaultModel(view.list, p)]
  /\ UNCHANGED <<server, calls>>

\* A dropdown of what is listed, a free field when nothing is.
PickModel(m) ==
  /\ view.open /\ m \in (IF modelOptions(view) = {} THEN {Free} ELSE modelOptions(view)) \ {view.model}
  /\ Spend("looks") /\ view' = [view EXCEPT !.model = m]
  /\ UNCHANGED <<server, calls>>

RefreshActiveProvider ==
  /\ view.open /\ view.provider # None /\ ~view.refreshing
  /\ Asks("refresh", view.provider) /\ view' = [view EXCEPT !.refreshing = TRUE]
  /\ UNCHANGED server

\* The model is compared with the refreshed provider's, which need not be the
\* chosen one any more.
RefreshDone(r) ==
  /\ Takes(r, "refresh")
  /\ view' = IF r.reply = Failed THEN [view EXCEPT !.refreshing = FALSE, !.err = TRUE]
             ELSE LET list == [view.list EXCEPT ![r.arg] = r.reply.found] IN
                  [view EXCEPT !.refreshing = FALSE, !.list = list,
                    !.model = IF list[r.arg].models # {} /\ @ \notin list[r.arg].models
                              THEN DefaultModel(list, r.arg) ELSE @]
  /\ UNCHANGED <<server, left>>

Submittable == view.open /\ ~view.busy /\ ~view.loading

Installed(v) == v.provider # None /\ v.list[v.provider].available

Refuse ==
  /\ Submittable /\ ~Installed(view) /\ ~view.err
  /\ view' = [view EXCEPT !.err = TRUE]
  /\ UNCHANGED <<server, calls, left>>

Submit ==
  /\ Submittable /\ Installed(view)
  /\ Asks("create", [provider |-> view.provider, model |-> view.model])
  /\ view' = [view EXCEPT !.busy = TRUE, !.err = FALSE]
  /\ UNCHANGED server

\* The new chat's tab is opened, by the store (Workspace).
SubmitDone(r) ==
  /\ Takes(r, "create")
  /\ view' = [view EXCEPT !.busy = FALSE, !.open = r.reply = Failed, !.err = r.reply = Failed]
  /\ UNCHANGED <<server, left>>

Cancel ==
  /\ view.open /\ ~view.busy /\ view' = [view EXCEPT !.open = FALSE]
  /\ UNCHANGED <<server, calls, left>>

-----------------------------------------------------------------------------
(* The server.                                                             *)

Serve(r) ==
  /\ \/ r.kind = "list"    /\ Answers(r, server.list) /\ UNCHANGED server
     \/ r.kind = "refresh" /\ Answers(r, [found |-> server.list[r.arg]]) /\ UNCHANGED server
     \/ /\ r.kind = "create" /\ Answers(r, TRUE)
        /\ server' = [server EXCEPT !.chats = @ \cup {r.arg}]
  /\ UNCHANGED <<view, left>>

\* Programs are installed and removed, and change their models.
Installs(list) ==
  /\ list # server.list /\ Spend("looks") /\ server' = [server EXCEPT !.list = list]
  /\ UNCHANGED <<view, calls>>

Next ==
  \/ RefreshActiveProvider \/ Refuse \/ Submit \/ Cancel
  \/ \E p \in Providers : onPickProvider(p) \/ \E m \in modelOptions(view) \cup {Free} : PickModel(m)
  \/ \E list \in Lists : Installs(list)
  \/ \E r \in calls : ListDone(r) \/ RefreshDone(r) \/ SubmitDone(r) \/ Serve(r) \/ Fails(r)

Spec == Init /\ [][Next]_panelVars

-----------------------------------------------------------------------------
(* Properties.                                                             *)

\* One submit makes one chat.
OneSubmitAtATime == Cardinality({r \in calls : r.kind = "create"}) <= 1
=============================================================================
