------------------------------ MODULE RouteSync ------------------------------
(***************************************************************************)
(* The URL and the store of the desktop shell (core/lib/routeSync.ts and   *)
(* the selection part of core/stores/app.ts), beside the browser's history *)
(* and projects and worktrees that other clients remove.                   *)
(*                                                                         *)
(* Every assignment to the store runs the effect that writes the URL       *)
(* before the next assignment, so a click that assigns twice may write     *)
(* twice.  A step below is therefore a chain of assignments `Set...`, each *)
(* followed by Mirror.  A URL names a scope and the open tab.              *)
(***************************************************************************)
EXTENDS Integers, Sequences, FiniteSets

CONSTANTS
  Projects,     \* ids of projects
  Worktrees,    \* per project, its worktrees
  Chats,        \* per scope, the chats one may have open
  None,
  MaxHistory,   \* entries of the browser's history
  MaxRemovals   \* projects and worktrees that other clients remove

VARIABLES
  known,     \* state.projects and state.worktrees: project -> worktrees
  ui,        \* the selection, the tabs, the history and the sync's own marks
  removals

vars == <<known, ui, removals>>

ScopeOf(p, w) == [project |-> p, worktree |-> w]
Scopes == {ScopeOf(p, w) : p \in Projects, w \in (UNION {Worktrees[q] : q \in Projects}) \cup {None}}

Url(scope, chat) == [scope |-> scope, chat |-> chat]
NoScope == ScopeOf(None, None)

Here(s)    == s.entries[s.at]
Current(s) == IF s.project = None THEN NoScope ELSE ScopeOf(s.project, s.worktree[s.project])
ActiveChat(s) == IF Current(s) = NoScope THEN None ELSE s.active[Current(s)]
BuildUrl(s) == Url(Current(s), ActiveChat(s))

MirrorScopesOnly(s) ==
  IF Current(s) = Here(s).scope THEN s
  ELSE LET entries == Append(SubSeq(s.entries, 1, s.at), BuildUrl(s))
       IN  [s EXCEPT !.entries = entries, !.at = @ + 1, !.own = BuildUrl(s), !.mirrored = Current(s)]

\* store -> URL: a new scope is a new entry and forgets the entries ahead.
Mirror(s) ==
  LET url == BuildUrl(s)
  IN  IF url = Here(s) THEN s
      ELSE [s EXCEPT
             !.entries = IF Current(s) # s.mirrored THEN Append(SubSeq(@, 1, s.at), url)
                         ELSE [@ EXCEPT ![s.at] = url],
             !.at = IF Current(s) # s.mirrored THEN @ + 1 ELSE @,
             !.own = url,
             !.mirrored = Current(s)]

Replace(s, url) == [s EXCEPT !.entries[s.at] = url]

SetProject(s, p)     == IF s.project = p THEN s ELSE Mirror([s EXCEPT !.project = p])
SetWorktree(s, p, w) == IF s.worktree[p] = w THEN s ELSE Mirror([s EXCEPT !.worktree[p] = w])
SetActive(s, chat)   == Mirror([s EXCEPT !.active[Current(s)] = chat])

SelectProject(s, p)     == SetProject(s, p)
SelectWorktree(s, p, w) == SetWorktree(SetProject(s, p), p, w)

\* A tab is added when it is not there, and focused.
EnsureChatTab(s, chat) ==
  IF Current(s) = NoScope THEN s
  ELSE SetActive([s EXCEPT !.open[Current(s)] = @ \cup {chat}], chat)

\* The URL the page was opened with is applied before any is written.
Init ==
  /\ known = Worktrees
  /\ removals = 0
  /\ \E scope \in {ScopeOf(p, None) : p \in Projects} :
       ui = [project |-> scope.project, worktree |-> [p \in Projects |-> None],
             open |-> [k \in Scopes |-> {}], active |-> [k \in Scopes |-> None],
             entries |-> <<Url(scope, None)>>, at |-> 1, own |-> None,
             mirrored |-> NoScope, validated |-> scope]

-----------------------------------------------------------------------------
(* The user.                                                               *)

Room == Len(ui.entries) + 2 <= MaxHistory

\* A project row, a worktree row, a chat row, the toast's "Go to chat".
ClickProject(p) ==
  /\ Room /\ p \in DOMAIN known
  /\ ui' = SelectProject(ui, p) /\ UNCHANGED <<known, removals>>

ClickWorktree(p, w) ==
  /\ Room /\ p \in DOMAIN known /\ w \in known[p] \cup {None}
  /\ ui' = SelectWorktree(ui, p, w) /\ UNCHANGED <<known, removals>>

OpenChat(chat) ==
  /\ Current(ui) # NoScope /\ chat \in Chats[Current(ui)]
  /\ ui' = EnsureChatTab(ui, chat) /\ UNCHANGED <<known, removals>>

\* The target's scope, its tab, its URL; reassert finds nothing to do.
GoToChat(scope, chat) ==
  /\ Room /\ chat \in Chats[scope] /\ scope.project \in DOMAIN known
  /\ scope.worktree \in known[scope.project] \cup {None}
  /\ ui' = Replace(EnsureChatTab(SelectWorktree(ui, scope.project, scope.worktree), chat),
                   Url(scope, chat))
  /\ UNCHANGED <<known, removals>>

CloseChat(chat) ==
  LET k == Current(ui)
      rest == ui.open[k] \ {chat}
  IN  /\ k # NoScope /\ chat \in ui.open[k]
      /\ \E next \in IF chat # ui.active[k] THEN {ui.active[k]}
                     ELSE IF rest = {} THEN {None} ELSE rest :
           ui' = Mirror([ui EXCEPT !.open[k] = rest, !.active[k] = next])
      /\ UNCHANGED <<known, removals>>

-----------------------------------------------------------------------------
(* URL -> store, after a step in the browser's history.                    *)

Fallback(s) ==
  IF s.project \in DOMAIN known THEN {s.project}
  ELSE IF DOMAIN known = {} THEN {None} ELSE DOMAIN known

\* Where to go, and with what in the address bar: the target is only looked
\* at when it is not the one looked at last.
Validate(s, target) ==
  IF target = s.validated THEN {<<s, target>>}
  ELSE LET seen == [s EXCEPT !.validated = target]
       IN  IF target.project # None /\ DOMAIN known # {} /\ target.project \notin DOMAIN known
           THEN {<<Replace(seen, Url(ScopeOf(p, None), None)), ScopeOf(p, None)>> : p \in Fallback(s)}
           ELSE IF /\ target.project \in DOMAIN known /\ target.worktree # None
                   /\ known[target.project] # {} /\ target.worktree \notin known[target.project]
           THEN {<<Replace(seen, Url(ScopeOf(target.project, None), None)),
                   ScopeOf(target.project, None)>>}
           ELSE {<<seen, target>>}

SelectNamedWorktree(s, to) ==
  LET one == SelectProject(s, to.project)
  IN  IF to.project = None THEN s
      ELSE IF to.worktree = None THEN one ELSE SelectWorktree(one, to.project, to.worktree)

\* The selection a URL asks for.
SelectTarget(s, to) ==
  LET one == SelectProject(s, to.project)
  IN  IF to.project = None THEN s
      ELSE IF to = Current(one) THEN one ELSE SelectWorktree(one, to.project, to.worktree)

\* The tab is read from the address bar as the selection has left it.
ApplyUrl(s) ==
  IF Here(s) = s.own THEN {[s EXCEPT !.own = None]}
  ELSE {LET atScope == SelectTarget(pair[1], pair[2])
            chat    == Here(atScope).chat
        IN  IF chat = None \/ chat = ActiveChat(atScope) THEN atScope
            ELSE EnsureChatTab(atScope, chat)
        : pair \in Validate([s EXCEPT !.own = None], Here(s).scope)}

Pop(step) ==
  /\ Room /\ ui.at + step \in DOMAIN ui.entries
  /\ ui' \in ApplyUrl([ui EXCEPT !.at = @ + step])
  /\ UNCHANGED <<known, removals>>

-----------------------------------------------------------------------------
(* Other clients.                                                          *)

\* The lists are refreshed; the selection is left as it is.
ProjectGoes(p) ==
  /\ removals < MaxRemovals /\ removals' = removals + 1
  /\ p \in DOMAIN known
  /\ known' = [q \in DOMAIN known \ {p} |-> known[q]]
  /\ UNCHANGED ui

WorktreeGoes(p, w) ==
  /\ removals < MaxRemovals /\ removals' = removals + 1
  /\ p \in DOMAIN known /\ w \in known[p]
  /\ known' = [known EXCEPT ![p] = @ \ {w}]
  /\ UNCHANGED ui

Next ==
  \/ \E p \in Projects : ClickProject(p) \/ ProjectGoes(p)
  \/ \E p \in Projects : \E w \in Worktrees[p] \cup {None} : ClickWorktree(p, w) \/ WorktreeGoes(p, w)
  \/ \E k \in DOMAIN Chats : \E chat \in Chats[k] : OpenChat(chat) \/ CloseChat(chat) \/ GoToChat(k, chat)
  \/ \E step \in {-1, 1} : Pop(step)

Spec == Init /\ [][Next]_vars

-----------------------------------------------------------------------------
(* Properties.                                                             *)

\* Whatever clicks and history steps came, the address bar names the scope
\* on the screen, and the open tab unless the address was just corrected.
UrlNamesTheView ==
  /\ Here(ui).scope = Current(ui)
  /\ Here(ui).chat \in {ActiveChat(ui), None}

\* Back and Forward show the scope of the entry they reach, when it still
\* exists, whatever the selection remembered of its project.
PopShowsTheScope ==
  \A step \in {-1, 1} :
    LET target == ui.entries[ui.at + step].scope
    IN  /\ ui.at + step \in DOMAIN ui.entries
        /\ Pop(step)
        /\ target.project \in DOMAIN known
        /\ target.worktree \in known[target.project] \cup {None}
        => Current(ui') = target
=============================================================================
