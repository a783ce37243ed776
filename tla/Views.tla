------------------------------- MODULE Views -------------------------------
(***************************************************************************)
(* What the desktop shell shows and the user moves about in: every         *)
(* behaviour is one of one surface beside the server.  A surface keeps no  *)
(* state that another one reads, so they are put next to each other rather *)
(* than multiplied: `surface` is chosen at first and says whose variables  *)
(* the others are.                                                         *)
(***************************************************************************)
EXTENDS Requests

CONSTANTS
  Budgets,                                                \* of each surface, by its name
  Projects, WorktreesOf, ChatsOf, MaxHistory, MaxRemovals,             \* RouteSync
  Keys,                                                                \* Workspace
  DialogRows, Hits,                                                    \* Dialogs
  Top, Folders, Files, Parent,                                         \* FileTree
  ChangeScopes, Paths, MaxContent,                                     \* ChangesPanel
  SavedConns, NewIds, Dbs, Tables,                                     \* Database
  Viewport, PageHeight, Pages,                                         \* TimelineScroll
  Tools, MaxText                                                       \* PromptRow

VARIABLES
  surface,
  known, ui, removals,                                          \* RouteSync
  current, scopes, armed, saved, listed, reasserts, strays      \* Workspace

routeVars == <<known, ui, removals>>
tabVars   == <<current, scopes, armed, saved, listed, reasserts, strays>>

-----------------------------------------------------------------------------
(* The surfaces.                                                           *)

Route     == INSTANCE RouteSync WITH Worktrees <- WorktreesOf, Chats <- ChatsOf
Strips    == INSTANCE Workspace WITH Budgets <- Budgets.tabstrip
Dialog    == INSTANCE Dialogs WITH Rows <- DialogRows, Budgets <- Budgets.dialog
Tree      == INSTANCE FileTree WITH Budgets <- Budgets.tree
Changes   == INSTANCE ChangesPanel WITH Scopes <- ChangeScopes, Budgets <- Budgets.changes
Db        == INSTANCE Database WITH Saved <- SavedConns, Fresh <- NewIds, Budgets <- Budgets.db
Scroll    == INSTANCE TimelineScroll WITH Page <- PageHeight, Budgets <- Budgets.scroll
Internals == INSTANCE PromptRow WITH Budgets <- Budgets.row

\* Every scope has its chats, and None is neither a project nor an address.
ASSUME RouteOK ==
  /\ DOMAIN WorktreesOf = Projects /\ DOMAIN ChatsOf = Route!Scopes
  /\ None \notin Projects
  /\ None \notin [scope : Route!Scopes,
                  chat : (UNION {ChatsOf[k] : k \in Route!Scopes}) \cup {None}]

\* Requests are counted, and they are what orders a list's answers; so are
\* the terminals and chats that are made, and they get their ids from it.
ASSUME BudgetsOK ==
  /\ \A b \in Budgets.dialog \cup Budgets.tree : "asks" \in DOMAIN b /\ b.asks \in Int
  /\ \A b \in Budgets.tabstrip : "made" \in DOMAIN b /\ b.made \in Nat

\* None is no tab.
ASSUME TabsOK == None \notin [kind : {"chat", "terminal", "db"}, home : Keys \cup {None}, n : Int]

\* None is no table, and no position.
ASSUME TablesOK == None \notin Tables
ASSUME HeightsOK == Viewport \in Nat /\ PageHeight \in Nat /\ None \notin Int

PanelInit ==
  \/ surface = "dialog"  /\ Dialog!Init
  \/ surface = "tree"    /\ Tree!Init
  \/ surface = "changes" /\ Changes!Init
  \/ surface = "db"      /\ Db!Init
  \/ surface = "scroll"  /\ Scroll!Init
  \/ surface = "row"     /\ Internals!Init

NoPanel  == view = None /\ server = None /\ calls = {} /\ left = None
NoRoute  == known = None /\ ui = None /\ removals = None
NoStrips ==
  /\ current = None /\ scopes = None /\ armed = None /\ saved = None
  /\ listed = None /\ reasserts = None /\ strays = None

Init ==
  \/ PanelInit /\ NoRoute /\ NoStrips
  \/ surface = "url" /\ Route!Init /\ NoPanel /\ NoStrips
  \/ surface = "tabstrip" /\ Strips!Init /\ NoRoute /\ view = None /\ server = None

Panel(name) == surface = name /\ UNCHANGED <<surface, routeVars, tabVars>>

Next ==
  \/ Panel("dialog")  /\ Dialog!Next
  \/ Panel("tree")    /\ Tree!Next
  \/ Panel("changes") /\ Changes!Next
  \/ Panel("db")      /\ Db!Next
  \/ Panel("scroll")  /\ Scroll!Next
  \/ Panel("row")     /\ Internals!Next
  \/ surface = "url"      /\ Route!Next  /\ UNCHANGED <<surface, panelVars, tabVars>>
  \/ surface = "tabstrip" /\ Strips!Next /\ UNCHANGED <<surface, routeVars, view, server>>

vars == <<surface, routeVars, tabVars, panelVars>>

Spec == Init /\ [][Next]_vars

-----------------------------------------------------------------------------
(* Properties: those of the surfaces, each about its own.                  *)

\* The address bar names what is on the screen (core/lib/routeSync.ts).
UrlNamesTheView == surface = "url" => Route!UrlNamesTheView

\* Back and Forward show the scope of the entry they reach
\* (core/lib/routeSync.ts), when it still exists.
BackShowsTheScope == [][surface = "url" => Route!PopShowsTheScope]_vars

\* A strip's focus is on one of its tabs and no tab is there twice; a strip
\* holds tabs of its own scope, but for those that were asked for in one
\* scope and came in another; and a change of a strip is stored, or the timer
\* that stores it runs (core/stores/app.ts).
StripsAreSound ==
  surface = "tabstrip" => Strips!ActiveIsATab /\ Strips!ListsStayHome /\ Strips!NothingUnsaved

AskedAt ==
  CASE surface = "dialog" -> Dialog!OfResource(view.asked)
    [] surface = "tree"   -> view.nodes[Top].asked
    [] surface = "db"     -> view.token
    [] OTHER              -> 0

ShownAt ==
  CASE surface = "dialog" -> Dialog!OfResource(view.shown)
    [] surface = "tree"   -> view.nodes[Top].shown
    [] surface = "db"     -> view.taken
    [] OTHER              -> 0

Latest == INSTANCE LatestAnswer WITH asked <- AskedAt, shown <- ShownAt

\* What is read again and again beside requests that overtake each other
\* never goes back to an older answer: the lists of the dialogs that keep a
\* resource, the top of the file tree (ProjectFiles.tsx) and the columns
\* offered for completion (DbEditorPane.tsx) implement LatestAnswer.
NeverGoesBack == Latest!Spec

\* What shows that it loads waits for something: the list of changes
\* (ChangesPanel.tsx), the database's form and pane (core/stores/db.ts).
LoadingHasAReason ==
  /\ surface = "changes" => Changes!LoadingHasAReason
  /\ surface = "db"      => Db!BusyHasAReason

\* The page stays as the user has left it: the timeline where the wheel has
\* put it, and folded what has been folded (ChatPane.tsx).
StaysAsLeft ==
  /\ surface = "scroll" => Scroll!WheelIsKept
  /\ surface = "row"    => Internals!LastClickWins
=============================================================================
