---------------------------- MODULE SettingsTabs ----------------------------
(***************************************************************************)
(* The tabs of the settings that keep nothing in the settings file: the    *)
(* providers and their models, the snapshots of the database               *)
(* (features/settings/SettingsModal.tsx) and the integrations              *)
(* (features/settings/IntegrationsTab.tsx).                                *)
(*                                                                         *)
(* A tab is made when it comes to the screen and gone when it leaves it,   *)
(* while what it has asked is still answered; the list of providers        *)
(* outlives it in a variable of the module.                                *)
(***************************************************************************)
EXTENDS Requests, Functions

CONSTANTS
  Providers,  \* the ids of the agents' providers
  Budgets

\* What a tab starts with; `lists` holds the providers of every tab there
\* was, the last one's on the screen, and `cached` what the next one gets.
Tab(v) ==
  [v EXCEPT !.on = TRUE, !.lists = Append(@, v.cached), !.loading = TRUE, !.refreshing = {},
            !.busy = FALSE, !.err = FALSE, !.info = FALSE, !.rows = 0,
            !.connected = FALSE, !.typed = FALSE, !.confirming = FALSE,
            !.open = FALSE, !.loaded = FALSE, !.fetching = FALSE, !.chosen = 0, !.saving = FALSE]

Nothing == [p \in {} |-> 0]

Init ==
  \E tab \in {"providers", "backups", "integrations"}, installed \in SUBSET Providers,
    connected \in BOOLEAN, b \in Budgets :
    /\ left = b /\ calls = {}
    /\ server = [models |-> [p \in Providers |-> IF p \in installed THEN 1 ELSE 0],
                 backups |-> 0, connected |-> connected, filters |-> 0]
    /\ view = [tab |-> tab, on |-> FALSE, cached |-> Nothing, lists |-> <<>>,
               loading |-> FALSE, refreshing |-> {}, busy |-> FALSE, err |-> FALSE, info |-> FALSE,
               rows |-> 0, connected |-> FALSE, typed |-> FALSE, confirming |-> FALSE,
               open |-> FALSE, loaded |-> FALSE, fetching |-> FALSE, chosen |-> 0, saving |-> FALSE]

At == Len(view.lists)

\* `ends`: the handler that asked ends with the answer, and is no longer busy.
Arg(what) == [at |-> At, what |-> what, ends |-> FALSE]

Mine(r) == view.on /\ r.arg.at = At

Mount ==
  /\ ~view.on
  /\ Asks(view.tab, [Arg(None) EXCEPT !.at = At + 1])
  /\ view' = Tab(view)
  /\ UNCHANGED server

Unmount ==
  /\ view.on /\ Spend("looks")
  /\ view' = [view EXCEPT !.on = FALSE, !.confirming = FALSE]
  /\ UNCHANGED <<server, calls>>

-----------------------------------------------------------------------------
(* Providers.                                                              *)

List == IF view.on THEN view.lists[At] ELSE Nothing

\* The tab that asked has the list, and every other that is made from now on.
ProvidersDone(r) ==
  /\ Takes(r, "providers")
  /\ view' = [view EXCEPT !.cached = IF r.reply = Failed THEN @ ELSE r.reply,
                          !.lists[r.arg.at] = IF r.reply = Failed THEN @ ELSE r.reply,
                          !.loading = @ /\ ~Mine(r),
                          !.refreshing = IF r.reply = Failed \/ ~Mine(r) THEN @ ELSE {}]
  /\ UNCHANGED <<server, left>>

\* A provider that is not installed has a card without a button.
CliProviderCard(p) == view.tab = "providers" /\ p \in DOMAIN List /\ List[p] > 0

\* The cards of a list are made from it, and their buttons with them.
RefreshButton(p) ==
  /\ CliProviderCard(p) /\ p \notin view.refreshing
  /\ Asks("refresh", Arg(p))
  /\ view' = [view EXCEPT !.refreshing = @ \cup {p}]
  /\ UNCHANGED server

\* The answer goes into the list the button's tab has by now, and that list
\* into the cache.
RefreshDone(r) ==
  /\ Takes(r, "refresh")
  /\ LET p     == r.arg.what
         fresh == [view.lists[r.arg.at] EXCEPT ![p] = r.reply]
     IN  view' = IF r.reply = Failed
                 THEN [view EXCEPT !.refreshing = IF Mine(r) THEN @ \ {p} ELSE @]
                 ELSE [view EXCEPT !.lists[r.arg.at] = fresh, !.cached = fresh,
                                   !.refreshing = IF Mine(r) THEN @ \ {p} ELSE @]
  /\ UNCHANGED <<server, left>>

-----------------------------------------------------------------------------
(* Snapshots of the database.                                              *)

Busy(v) == [v EXCEPT !.busy = TRUE, !.err = FALSE]

BackupButtons == view.on /\ view.tab = "backups" /\ ~view.busy

takeNow ==
  /\ BackupButtons
  /\ Asks("backup", Arg(None)) /\ view' = Busy(view)
  /\ UNCHANGED server

showRestore ==
  /\ BackupButtons /\ view.rows > 0
  /\ Asks("restore", Arg(None)) /\ view' = Busy(view)
  /\ UNCHANGED server

Dismiss ==
  /\ view.on /\ view.info
  /\ view' = [view EXCEPT !.info = FALSE]
  /\ UNCHANGED <<server, calls, left>>

\* The list: when the tab is made, and after a snapshot has been taken.
BackupsDone(r) ==
  /\ Mine(r) /\ Takes(r, "backups")
  /\ view' = [view EXCEPT !.rows = IF r.reply = Failed THEN @ ELSE r.reply,
                          !.err = @ \/ r.reply = Failed, !.busy = @ /\ ~r.arg.ends]
  /\ UNCHANGED <<server, left>>

BackupTaken(r) ==
  /\ Mine(r) /\ r.reply # Failed
  /\ TakesAsking(r, "backup", "backups", [Arg(None) EXCEPT !.ends = TRUE])
  /\ view' = [view EXCEPT !.err = FALSE]
  /\ UNCHANGED server

BackupFailed(r) ==
  /\ Mine(r) /\ r.reply = Failed /\ Takes(r, "backup")
  /\ view' = [view EXCEPT !.err = TRUE, !.busy = FALSE]
  /\ UNCHANGED <<server, left>>

RestoreDone(r) ==
  /\ Mine(r) /\ Takes(r, "restore")
  /\ view' = [view EXCEPT !.busy = FALSE, !.err = @ \/ r.reply = Failed,
                          !.info = @ \/ r.reply # Failed]
  /\ UNCHANGED <<server, left>>

-----------------------------------------------------------------------------
(* Integrations.                                                           *)

\* A row has a field for the key, or a button that takes it back.
Row(connected) ==
  view.on /\ view.tab = "integrations" /\ view.connected = connected /\ ~view.busy

Type ==
  /\ Row(FALSE) /\ ~view.typed
  /\ view' = [view EXCEPT !.typed = TRUE]
  /\ UNCHANGED <<server, calls, left>>

saveClickUpKey ==
  /\ Row(FALSE) /\ view.typed /\ ~view.loading
  /\ Asks("connect", Arg(TRUE)) /\ view' = [view EXCEPT !.busy = TRUE]
  /\ UNCHANGED server

\* Confirmed in a dialog first.
AskDisconnect ==
  /\ Row(TRUE) /\ ~view.confirming
  /\ view' = [view EXCEPT !.confirming = TRUE]
  /\ UNCHANGED <<server, calls, left>>

disconnect ==
  /\ view.on /\ view.confirming
  /\ \/ /\ Asks("connect", Arg(FALSE))
        /\ view' = [view EXCEPT !.confirming = FALSE, !.busy = TRUE]
     \/ /\ view' = [view EXCEPT !.confirming = FALSE]
        /\ UNCHANGED <<calls, left>>
  /\ UNCHANGED server

\* The summaries, after which the handler that wanted them is done.
IntegrationsDone(r) ==
  /\ Mine(r) /\ Takes(r, "integrations")
  /\ view' = [view EXCEPT !.connected = IF r.reply = Failed THEN @ ELSE r.reply,
                          !.loading = FALSE, !.busy = @ /\ ~r.arg.ends]
  /\ UNCHANGED <<server, left>>

ConnectDone(r) ==
  /\ Mine(r) /\ r.kind = "connect"
  /\ IF r.reply = Failed
     THEN Takes(r, "connect") /\ view' = [view EXCEPT !.busy = FALSE] /\ UNCHANGED left
     ELSE /\ TakesAsking(r, "connect", "integrations", [Arg(None) EXCEPT !.ends = TRUE])
          /\ view' = [view EXCEPT !.typed = @ /\ ~r.arg.what]
  /\ UNCHANGED server

\* Opening the filters reads what there is to choose and what is chosen,
\* until that has succeeded once.
toggleFilters ==
  /\ view.on /\ view.tab = "integrations" /\ view.connected
  /\ IF view.open \/ view.loaded
     THEN view' = [view EXCEPT !.open = ~@] /\ Spend("looks") /\ UNCHANGED calls
     ELSE Asks("filters", Arg(None)) /\ view' = [view EXCEPT !.open = TRUE, !.fetching = TRUE]
  /\ UNCHANGED server

FiltersDone(r) ==
  /\ Mine(r) /\ Takes(r, "filters")
  /\ view' = IF r.reply = Failed THEN [view EXCEPT !.fetching = FALSE, !.open = FALSE]
             ELSE [view EXCEPT !.fetching = FALSE, !.loaded = TRUE, !.chosen = r.reply]
  /\ UNCHANGED <<server, left>>

Shown == view.on /\ view.connected /\ view.open /\ ~view.fetching

MultiSelects ==
  /\ Shown /\ Spend("looks")
  /\ view' = [view EXCEPT !.chosen = @ + 1]
  /\ UNCHANGED <<server, calls>>

saveFilters ==
  /\ Shown /\ ~view.saving
  /\ Asks("setFilters", Arg(view.chosen)) /\ view' = [view EXCEPT !.saving = TRUE]
  /\ UNCHANGED server

FiltersSaved(r) ==
  /\ Mine(r) /\ Takes(r, "setFilters")
  /\ view' = [view EXCEPT !.saving = FALSE]
  /\ UNCHANGED <<server, left>>

\* What a tab that is gone wanted; its buttons are gone with it.
Forgotten(r) ==
  /\ ~Mine(r) /\ r.kind \notin {"providers", "refresh"} /\ r.reply # None
  /\ calls' = calls \ {r}
  /\ UNCHANGED <<view, server, left>>

-----------------------------------------------------------------------------
(* The server.                                                             *)

Serve(r) ==
  /\ \/ r.kind = "providers" /\ Answers(r, server.models) /\ UNCHANGED server
     \/ /\ r.kind = "refresh" /\ Answers(r, server.models[r.arg.what] + 1)
        /\ server' = [server EXCEPT !.models[r.arg.what] = @ + 1]
     \/ r.kind = "backups" /\ Answers(r, server.backups) /\ UNCHANGED server
     \/ r.kind = "backup" /\ Answers(r, "ok") /\ server' = [server EXCEPT !.backups = @ + 1]
     \/ r.kind = "restore" /\ Answers(r, "ok") /\ UNCHANGED server
     \/ r.kind = "integrations" /\ Answers(r, server.connected) /\ UNCHANGED server
     \/ r.kind = "connect" /\ Answers(r, "ok") /\ server' = [server EXCEPT !.connected = r.arg.what]
     \/ r.kind = "filters" /\ Answers(r, server.filters) /\ UNCHANGED server
     \/ r.kind = "setFilters" /\ Answers(r, "ok") /\ server' = [server EXCEPT !.filters = r.arg.what]
  /\ UNCHANGED <<view, left>>

Next ==
  \/ Mount \/ Unmount
  \/ takeNow \/ showRestore \/ Dismiss
  \/ Type \/ saveClickUpKey \/ AskDisconnect \/ disconnect
  \/ toggleFilters \/ MultiSelects \/ saveFilters
  \/ \E p \in Providers : RefreshButton(p)
  \/ \E r \in calls :
       \/ ProvidersDone(r) \/ RefreshDone(r) \/ BackupsDone(r) \/ BackupTaken(r) \/ BackupFailed(r)
       \/ RestoreDone(r) \/ IntegrationsDone(r) \/ ConnectDone(r) \/ FiltersDone(r) \/ FiltersSaved(r)
       \/ Forgotten(r) \/ Serve(r) \/ Fails(r)

Spec == Init /\ [][Next]_panelVars

-----------------------------------------------------------------------------
(* Properties.                                                             *)

\* The buttons of a tab wait only for something that is still to come.
BusyHasAReason ==
  view.on /\ view.busy => \E r \in calls : Mine(r) /\ (r.kind \in {"backup", "restore", "connect"} \/ r.arg.ends)
=============================================================================
