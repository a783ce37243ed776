------------------------------ MODULE Database ------------------------------
(***************************************************************************)
(* The database view: saved connections, the tree of databases and tables  *)
(* (shells/desktop/DbSidebar.tsx), and the tab with SQL and rows           *)
(* (shells/desktop/panes/DbEditorPane.tsx), which share core/stores/db.ts. *)
(*                                                                         *)
(* The connections are kept in the settings file, which the rest of the    *)
(* settings is written to as well.  Everything read from a database is     *)
(* told apart here by the place it was read from.                          *)
(***************************************************************************)
EXTENDS Requests, Functions, SequencesExt

CONSTANTS
  Saved,      \* the connections in the settings file at first
  Fresh,      \* ids a new connection may get
  Dbs,        \* the databases of every server, the one of the url first
  Tables,     \* the tables of every database
  Budgets

Place(conn, db) == [conn |-> conn, db |-> db]

\* No connection; what belongs to one is forgotten.
Unconnected(v) ==
  [v EXCEPT !.active = None, !.db = None, !.databases = None, !.tables = None, !.byDb = <<>>,
            !.expanded = {}, !.selected = None, !.rows = None, !.columns = None, !.cached = FALSE]

\* The store before its first use.
Closed(conns) ==
  [active |-> None, db |-> None, databases |-> None, tables |-> None, byDb |-> <<>>, expanded |-> {},
   selected |-> None, rows |-> None, columns |-> None, cached |-> FALSE,
   inited |-> FALSE, conns |-> <<>>, offset |-> 0, loading |-> FALSE, token |-> 0, taken |-> 0,
   form |-> None, formBusy |-> FALSE, removing |-> None, settings |-> [theme |-> 0, conns |-> conns]]

\* The store with a connection that is up.
UpTo(conn) ==
  LET here == Place(conn, Dbs[1]) IN
  [Closed(Saved) EXCEPT !.active = conn, !.db = Dbs[1], !.databases = conn, !.tables = here,
                        !.byDb = Dbs[1] :> here, !.expanded = {Dbs[1]}, !.cached = TRUE,
                        !.inited = TRUE, !.conns = Saved, !.token = 1, !.taken = 1]

Init ==
  \E b \in Budgets, conns \in {Saved, <<>>} :
    /\ left = b /\ calls = {}
    /\ view \in {Closed(conns)} \cup IF conns = <<>> THEN {} ELSE {UpTo(Saved[1])}
    /\ server = [file |-> [theme |-> 0, conns |-> conns], remembered |-> view.active]

\* Where SQL and the tables of the tab go to, when a connection is up.
activeConn(v) == v.active # None /\ v.active \in ToSet(v.conns)

Here(v) == Place(v.active, v.db)

\* What handler a request belongs to: the form's, or one that opens `then`.
Chain(form, then) == [form |-> form, then |-> then]
Alone == Chain(FALSE, None)

Ask(kind, at, chain) == Request(kind, [at |-> at, chain |-> chain])

\* One budgeted step, with as many requests as the handlers in it make.
Makes(reqs) == calls' = calls \cup reqs /\ IF reqs = {} THEN UNCHANGED left ELSE Spend("asks")

\* The prefetch of columns goes with the tables, and spends nothing.
TakesMaking(r, kind, reqs) ==
  /\ r \in calls /\ r.kind = kind /\ r.reply # None
  /\ calls' = (calls \ {r}) \cup reqs
  /\ IF \A q \in reqs : q.kind = "columns" THEN UNCHANGED left ELSE Spend("asks")

\* The form's handler is done when nothing of it is left to wait for.
FormEnds(v, chain, reqs) == [v EXCEPT !.formBusy = IF chain.form /\ reqs = {} THEN FALSE ELSE @]

-----------------------------------------------------------------------------
(* Connections.                                                            *)

\* Another connection starts from nothing; the newest prefetch stays the newest.
Connected(v, conn) ==
  IF v.active = conn THEN v
  ELSE [Unconnected(v) EXCEPT !.active = conn, !.db = Dbs[1], !.offset = 0]

Databases(conn, chain) == {Ask("databases", conn, chain)}

Remembering(v) == server' = [server EXCEPT !.remembered = v.active]

initDb ==
  /\ ~view.inited /\ Makes({Ask("init", None, Alone)})
  /\ view' = [view EXCEPT !.inited = TRUE]
  /\ UNCHANGED server

\* Once only, whatever comes of it.  An empty list is seeded and put back.
InitDone(r) ==
  /\ r.kind \in {"init", "seed"} /\ r.reply # None
  /\ IF r.reply = Failed THEN TakesMaking(r, r.kind, {}) /\ UNCHANGED <<view, server>>
     ELSE IF r.reply.conns = <<>>
     THEN /\ TakesMaking(r, "init", {Ask("seed", [r.reply EXCEPT !.conns = <<Fresh[1]>>], Alone)})
          /\ UNCHANGED <<view, server>>
     ELSE LET conns  == r.reply.conns
              target == IF server.remembered \in ToSet(conns) THEN server.remembered ELSE Head(conns)
              v      == Connected([view EXCEPT !.conns = conns], target)
          IN  TakesMaking(r, r.kind, Databases(target, Alone)) /\ view' = v /\ Remembering(v)

Rows == ToSet(view.conns)

connectDb(conn) ==
  /\ conn \in Rows
  /\ LET v == Connected(view, conn)
     IN  Makes(IF activeConn(v) THEN Databases(conn, Alone) ELSE {}) /\ view' = v /\ Remembering(v)

disconnectDb ==
  /\ activeConn(view)
  /\ view' = Unconnected(view) /\ Remembering(view')
  /\ UNCHANGED <<calls, left>>

\* The list of databases keeps the active one, which is on every server, and
\* leads to its tables; a server that refuses the list still has those.
DatabasesDone(r) ==
  /\ LET v    == IF r.reply = Failed \/ ~activeConn(view) THEN view
                 ELSE [view EXCEPT !.databases = r.arg.at, !.expanded = {view.db}]
         reqs == IF activeConn(v) THEN {Ask("tables", Here(v), r.arg.chain)} ELSE {}
     IN  /\ TakesMaking(r, "databases", reqs)
         /\ view' = FormEnds([v EXCEPT !.loading = @ \/ reqs # {}], r.arg.chain, reqs)
  /\ UNCHANGED server

-----------------------------------------------------------------------------
(* Tables.                                                                 *)

DataOf(v, t) == IF t = None \/ ~activeConn(v) THEN {} ELSE {Ask("data", Here(v), Chain(FALSE, t))}

\* A prefetch whose tables have been read again gives up.
Prefetched(v, r) ==
  IF r.arg.chain.then # v.token THEN v
  ELSE [v EXCEPT !.cached = TRUE, !.taken = r.arg.chain.then]

ColumnsDone(r) ==
  /\ TakesMaking(r, "columns", {}) /\ view' = Prefetched(view, r)
  /\ UNCHANGED server

\* Mutant: the pane goes on waiting when the tables cannot be read.
loadDbTablesOrWait(v, r) ==
  IF r.reply = Failed THEN [v EXCEPT !.tables = None]
  ELSE [v EXCEPT !.tables = r.arg.at, !.loading = FALSE, !.cached = FALSE, !.token = @ + 1,
                 !.byDb = IF v.db = None THEN @ ELSE (v.db :> r.arg.at) @@ @]

\* Under the database that is active by now; the columns are read in the
\* background, and what waited for the tables goes on.
loadDbTables(v, r) ==
  IF r.reply = Failed THEN [v EXCEPT !.tables = None, !.loading = FALSE]
  ELSE [v EXCEPT !.tables = r.arg.at, !.loading = FALSE, !.cached = FALSE, !.token = @ + 1,
                 !.byDb = IF v.db = None THEN @ ELSE (v.db :> r.arg.at) @@ @]

TablesDone(r) ==
  /\ LET v        == loadDbTables(view, r)
         data     == DataOf(v, r.arg.chain.then)
         prefetch == IF r.reply = Failed THEN {}
                     ELSE {Ask("columns", r.arg.at, Chain(FALSE, v.token))}
     IN  /\ TakesMaking(r, "tables", prefetch \cup data)
         /\ view' = FormEnds([v EXCEPT !.loading = @ \/ data # {},
                                       !.offset = IF data = {} THEN @ ELSE 0], r.arg.chain, {})
  /\ UNCHANGED server

Selected(v, db) ==
  [v EXCEPT !.db = db, !.expanded = @ \cup {db}, !.selected = None, !.rows = None, !.columns = None,
            !.loading = TRUE]

selectDb(db) ==
  /\ activeConn(view) /\ view.databases # None
  /\ IF db = view.db
     THEN /\ view' = [view EXCEPT !.expanded = @ \cup {db}] /\ view' # view
          /\ UNCHANGED <<calls, left>>
     ELSE /\ view' = Selected(view, db)
          /\ Makes({Ask("tables", Here(view'), Alone)})
  /\ UNCHANGED server

\* A folder of the tree reads its tables once.
toggleDbExpanded(db) ==
  /\ activeConn(view) /\ view.databases # None
  /\ LET opens == db \notin view.expanded IN
     /\ view' = [view EXCEPT !.expanded = IF opens THEN @ \cup {db} ELSE @ \ {db}]
     /\ IF opens /\ db \notin DOMAIN view.byDb
        THEN Makes({Ask("tree", Place(view.active, db), Alone)})
        ELSE Spend("looks") /\ UNCHANGED calls
  /\ UNCHANGED server

TreeDone(r) ==
  /\ TakesMaking(r, "tree", {})
  /\ view' = IF r.reply = Failed THEN view ELSE [view EXCEPT !.byDb = (r.arg.at.db :> r.arg.at) @@ @]
  /\ UNCHANGED server

-----------------------------------------------------------------------------
(* Rows.                                                                   *)

Reads(v, t) == Makes(DataOf(v, t)) /\ view' = [v EXCEPT !.loading = TRUE]

InTree(db) == activeConn(view) /\ db \in view.expanded \cap DOMAIN view.byDb

\* A table of the tree; of another database, that one becomes the active one
\* first, and the table is read from whichever is active after.
openTable(db, t) ==
  /\ InTree(db)
  /\ IF db = view.db THEN Reads([view EXCEPT !.offset = 0], t)
     ELSE view' = Selected(view, db) /\ Makes({Ask("tables", Here(view'), Chain(FALSE, t))})
  /\ UNCHANGED server

Pager == activeConn(view) /\ view.selected # None /\ ~view.loading

applyDbFilter ==
  /\ Pager
  /\ Reads([view EXCEPT !.offset = 0], view.selected)
  /\ UNCHANGED server

nextDbPage ==
  /\ Pager
  /\ Reads([view EXCEPT !.offset = @ + 1], view.selected)
  /\ UNCHANGED server

prevDbPage ==
  /\ Pager /\ view.offset > 0
  /\ Reads([view EXCEPT !.offset = @ - 1], view.selected)
  /\ UNCHANGED server

DataDone(r) ==
  /\ TakesMaking(r, "data", {})
  /\ view' = IF r.reply = Failed THEN [view EXCEPT !.loading = FALSE]
             ELSE [view EXCEPT !.loading = FALSE, !.columns = r.arg, !.rows = r.arg,
                               !.selected = r.arg.chain.then]
  /\ UNCHANGED server

\* The key works while something is loading, unlike the button.
runDbSql ==
  /\ activeConn(view)
  /\ view' = [view EXCEPT !.loading = TRUE, !.selected = None]
  /\ Makes({Ask("sql", Here(view), Alone)})
  /\ UNCHANGED server

SqlDone(r) ==
  /\ TakesMaking(r, "sql", {})
  /\ view' = IF r.reply = Failed THEN [view EXCEPT !.loading = FALSE]
             ELSE [view EXCEPT !.loading = FALSE, !.rows = r.arg]
  /\ UNCHANGED server

-----------------------------------------------------------------------------
(* Editing the list of connections.                                        *)

\* "new", or the connection to edit.
openForm(c) ==
  /\ view.form = None /\ c \in Rows \cup {"new"} /\ Spend("looks")
  /\ view' = [view EXCEPT !.form = c]
  /\ UNCHANGED <<server, calls>>

FormButtons == view.form # None /\ ~view.formBusy

closeForm ==
  /\ FormButtons
  /\ view' = [view EXCEPT !.form = None]
  /\ UNCHANGED <<server, calls, left>>

testForm ==
  /\ FormButtons
  /\ Makes({Ask("test", None, Chain(TRUE, None))}) /\ view' = [view EXCEPT !.formBusy = TRUE]
  /\ UNCHANGED server

TestDone(r) ==
  /\ TakesMaking(r, "test", {}) /\ view' = [view EXCEPT !.formBusy = FALSE]
  /\ UNCHANGED server

\* The settings are read again, and put back with the new list.
saveDbConnections(next, saved, form) == Makes({Ask("get", next, Chain(form, saved))})

Unused == {k \in DOMAIN Fresh : Fresh[k] \notin ToSet(view.conns)}

saveForm ==
  /\ FormButtons
  /\ IF view.form = "new"
     THEN \E k \in Unused : saveDbConnections(Append(view.conns, Fresh[k]), Fresh[k], TRUE)
     ELSE saveDbConnections(view.conns, view.form, TRUE)
  /\ view' = [view EXCEPT !.formBusy = TRUE]
  /\ UNCHANGED server

AskRemove(c) ==
  /\ c \in Rows /\ view.removing = None /\ view.form = None /\ Spend("looks")
  /\ view' = [view EXCEPT !.removing = c]
  /\ UNCHANGED <<server, calls>>

removeConnection ==
  /\ view.removing # None
  /\ \/ saveDbConnections(SelectSeq(view.conns, LAMBDA c : c # view.removing), None, FALSE)
     \/ UNCHANGED <<calls, left>>
  /\ view' = [view EXCEPT !.removing = None]
  /\ UNCHANGED server

GetDone(r) ==
  /\ r.kind = "get" /\ r.reply # None
  /\ LET reqs == IF r.reply = Failed THEN {}
                 ELSE {Ask("put", [r.reply EXCEPT !.conns = r.arg.at], r.arg.chain)}
     IN  TakesMaking(r, "get", reqs) /\ view' = FormEnds(view, r.arg.chain, reqs)
  /\ UNCHANGED server

\* The form closes; the connection that was edited while it is up, or that
\* is the first one, is connected to, and the form is busy until that is done.
PutDone(r) ==
  /\ r.kind = "put"
  /\ LET chain    == r.arg.chain
         listed   == IF r.reply = Failed THEN view
                     ELSE [view EXCEPT !.conns = r.arg.at.conns,
                                       !.form = IF chain.form THEN None ELSE @]
         connects == r.reply # Failed /\ chain.form /\ view.active \in {None, chain.then}
         v        == IF connects THEN Connected(listed, chain.then) ELSE listed
         reqs     == IF connects THEN Databases(chain.then, Chain(TRUE, None)) ELSE {}
     IN  /\ TakesMaking(r, "put", reqs)
         /\ view' = FormEnds(v, chain, reqs)
         /\ IF connects THEN Remembering(v) ELSE UNCHANGED server

\* Elsewhere: a setting is chosen, and all of them are saved as this page
\* has had them since it was loaded.
saveSettings ==
  /\ Makes({Ask("save", [view.settings EXCEPT !.theme = 1 - @], Alone)})
  /\ view' = [view EXCEPT !.settings.theme = 1 - @]
  /\ UNCHANGED server

SaveDone(r) == TakesMaking(r, "save", {}) /\ UNCHANGED <<view, server>>

-----------------------------------------------------------------------------
(* The server, and the databases behind it.                                *)

Reading == {"init", "get", "databases", "tables", "tree", "columns", "data", "sql", "test"}

ServeRead(r) ==
  /\ r.kind \in Reading
  /\ Answers(r, IF r.kind \in {"init", "get"} THEN server.file ELSE "ok")
  /\ UNCHANGED <<view, server, left>>

ServeWrite(r) ==
  /\ r.kind \in {"seed", "put", "save"} /\ Answers(r, r.arg.at)
  /\ server' = [server EXCEPT !.file = r.arg.at]
  /\ UNCHANGED <<view, left>>

Next ==
  \/ initDb \/ disconnectDb \/ applyDbFilter \/ nextDbPage \/ prevDbPage \/ runDbSql
  \/ closeForm \/ testForm \/ saveForm \/ removeConnection \/ saveSettings
  \/ \E c \in Rows \cup {"new"} : connectDb(c) \/ openForm(c) \/ AskRemove(c)
  \/ \E db \in ToSet(Dbs) :
       selectDb(db) \/ toggleDbExpanded(db) \/ (\E t \in Tables : openTable(db, t))
  \/ \E r \in calls :
       \/ InitDone(r) \/ DatabasesDone(r) \/ TablesDone(r) \/ TreeDone(r) \/ ColumnsDone(r)
       \/ DataDone(r) \/ SqlDone(r) \/ TestDone(r) \/ GetDone(r) \/ PutDone(r) \/ SaveDone(r)
       \/ ServeRead(r) \/ ServeWrite(r) \/ Fails(r)

Spec == Init /\ [][Next]_panelVars

-----------------------------------------------------------------------------
(* Properties.                                                             *)

\* The form's and the pane's buttons wait only for something still to come.
BusyHasAReason ==
  /\ view.formBusy => \E r \in calls : r.arg.chain.form
  /\ view.loading => \E r \in calls : r.kind \in {"tables", "data", "sql"}
=============================================================================
