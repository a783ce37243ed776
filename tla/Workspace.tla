------------------------------ MODULE Workspace ------------------------------
(***************************************************************************)
(* The tabs of the desktop shell (core/stores/app.ts): every scope, that   *)
(* is a project's root or one of its worktrees, owns a strip of tabs; its  *)
(* layout is written to the server a moment after a change and read back   *)
(* when the page loads.                                                    *)
(*                                                                         *)
(* What opens, reopens or lists tabs waits for the server, and the user    *)
(* may be in another scope by then: the calls under way are in `calls`.    *)
(***************************************************************************)
EXTENDS Integers, Sequences, SequencesExt, FiniteSets, Filters

CONSTANTS
  Keys,        \* scopes: a project, or a worktree of it
  None,
  Budgets      \* bounds: clicks on tabs, chats and terminals made, lists asked
               \* for, changes of scope and reloads of the page

VARIABLES
  current,   \* currentScopeKey()
  scopes,    \* state.byScope
  armed,     \* scopes whose layout timer runs
  saved,     \* the layout the server holds
  listed,    \* per scope, the chats the server lists
  calls,     \* what has been asked and not yet taken
  reasserts, \* timers of goToChat
  left,      \* what is left of the behaviour's budget
  strays     \* history: tabs whose call was in flight across a change of scope

vars == <<current, scopes, armed, saved, listed, calls, reasserts, left, strays>>

Tab(id) == [id |-> id, title |-> "given"]
Id(kind, home, n) == [kind |-> kind, home |-> home, n |-> n]
Scope(tabs, active, hydrated) == [tabs |-> tabs, active |-> active, hydrated |-> hydrated]
FreshScope == Scope(<<>>, None, FALSE)

TabIds(s)   == {s.tabs[i].id : i \in DOMAIN s.tabs}
ChatTabs(s) == Only(s.tabs, {t \in ToSet(s.tabs) : t.id.kind = "chat"})
IndexOfTab(s, id) == CHOOSE i \in DOMAIN s.tabs : s.tabs[i].id = id
FirstOr(tabs) == IF tabs = <<>> THEN None ELSE tabs[1].id

\* The layout timer of a scope starts over; when it fires the scope is saved.
Change(k, s) == scopes' = [scopes EXCEPT ![k] = s] /\ armed' = armed \cup {k}

-----------------------------------------------------------------------------
(* What the store's operations make of a scope.                            *)

WithTab(s, tab) ==
  [s EXCEPT !.tabs = IF tab.id \in TabIds(s) THEN @ ELSE Append(@, tab), !.active = tab.id]

WithoutTabKeepingFocus(s, id) == [s EXCEPT !.tabs = RemoveAt(@, IndexOfTab(s, id))]

\* The neighbour to the right takes the focus, at the end the one to the left.
WithoutTab(s, id) ==
  LET i    == IndexOfTab(s, id)
      rest == RemoveAt(s.tabs, i)
      next == IF rest = <<>> THEN None
              ELSE rest[IF i <= Len(rest) THEN i ELSE Len(rest)].id
  IN  [s EXCEPT !.tabs = rest, !.active = IF @ = id THEN next ELSE @]

\* A tab stays where it is under the id of a new shell.
Restarted(s, old, new) ==
  [s EXCEPT !.tabs[IndexOfTab(s, old)].id = new, !.active = IF @ = old THEN new ELSE @]

\* The chat tabs of a scope become those listed: others go, titles are taken,
\* and all are added when there was none.
ScopeChats(s, chats) ==
  LET kept   == Only(s.tabs, {t \in ToSet(s.tabs) : t.id.kind # "chat" \/ t.id \in ToSet(chats)})
      titled == [i \in DOMAIN kept |-> IF kept[i].id.kind = "chat" THEN Tab(kept[i].id) ELSE kept[i]]
      addAll == ChatTabs([s EXCEPT !.tabs = kept]) = <<>> /\ chats # <<>>
      tabs   == IF addAll THEN titled \o [i \in DOMAIN chats |-> Tab(chats[i])] ELSE titled
      first  == IF addAll /\ s.active = None THEN FirstOr(tabs) ELSE s.active
  IN  Scope(tabs, IF first \in {t.id : t \in ToSet(tabs)} THEN first ELSE FirstOr(tabs), TRUE)

\* A stored layout: database tabs from before there was one only are dropped.
OldDb(id) == id.kind = "db" /\ id.n # 0

Hydrated(blob) ==
  LET tabs == Only(blob.tabs, {t \in ToSet(blob.tabs) : ~OldDb(t.id)})
  IN  IF tabs = blob.tabs THEN blob
      ELSE [blob EXCEPT !.tabs = tabs,
                        !.active = IF @ \in {t.id : t \in ToSet(tabs)} THEN @ ELSE FirstOr(tabs)]

OldLayout(k) ==
  Scope(<<Tab(Id("chat", k, 0)), Tab(Id("db", k, 1))>>, Id("db", k, 1), FALSE)

\* Every scope has a chat; one has a layout from an older version.
Init ==
  /\ current \in Keys
  /\ \E old \in SUBSET {current} :
       saved = [k \in Keys |-> IF k \in old THEN OldLayout(k) ELSE FreshScope]
  /\ scopes = [k \in Keys |-> Hydrated(saved[k])]
  /\ armed = {} /\ calls = {} /\ reasserts = {} /\ strays = {}
  /\ listed = [k \in Keys |-> <<Id("chat", k, 0)>>]
  /\ left \in Budgets

-----------------------------------------------------------------------------
(* The user, in the scope that is shown.                                   *)

Here == scopes[current]
Spend(what) == left[what] > 0 /\ left' = [left EXCEPT ![what] = @ - 1]

\* selectProject, selectWorktree, Back.  Calls in flight become strays.
Switch(k) ==
  /\ k # current /\ Spend("switches")
  /\ current' = k
  /\ calls' = {[c EXCEPT !.moved = TRUE] : c \in calls}
  /\ UNCHANGED <<scopes, armed, saved, listed, reasserts, strays>>

\* A file from the tree, or the database pane.
OpenTab(id) ==
  /\ Spend("clicks")
  /\ Change(current, WithTab(Here, Tab(id)))
  /\ UNCHANGED <<current, saved, listed, calls, reasserts, strays>>

\* A closed chat is removed on the server too.
CloseTab(id) ==
  /\ id \in TabIds(Here) /\ Spend("clicks")
  /\ Change(current, WithoutTab(Here, id))
  /\ listed' = [k \in Keys |-> Only(listed[k], ToSet(listed[k]) \ {id})]
  /\ UNCHANGED <<current, saved, calls, reasserts, strays>>

SetActiveTab(id) ==
  /\ id \in TabIds(Here) /\ Here.active # id /\ Spend("clicks")
  /\ Change(current, [Here EXCEPT !.active = id])
  /\ UNCHANGED <<current, saved, listed, calls, reasserts, strays>>

RenameUnsaved(id) ==
  /\ id \in TabIds(Here) /\ Spend("clicks")
  /\ scopes' = [scopes EXCEPT ![current].tabs[IndexOfTab(Here, id)].title = "chosen"]
  /\ UNCHANGED <<current, armed, saved, listed, calls, reasserts, strays>>

RenameTab(id) ==
  /\ id \in TabIds(Here) /\ Spend("clicks")
  /\ Change(current, [Here EXCEPT !.tabs[IndexOfTab(Here, id)].title = "chosen"])
  /\ UNCHANGED <<current, saved, listed, calls, reasserts, strays>>

\* The toast: the chat's own scope, its tab, and again a moment later.
GoToChat(k, id) ==
  /\ id \in ToSet(listed[k]) /\ Spend("switches")
  /\ current' = k
  /\ Change(k, WithTab(scopes[k], Tab(id)))
  /\ calls' = {[c EXCEPT !.moved = @ \/ k # current] : c \in calls}
  /\ reasserts' = reasserts \cup {[key |-> k, id |-> id]}
  /\ UNCHANGED <<saved, listed, strays>>

Reassert(r) ==
  /\ r \in reasserts /\ reasserts' = reasserts \ {r}
  /\ IF r.key = current THEN Change(current, WithTab(Here, Tab(r.id)))
                        ELSE UNCHANGED <<scopes, armed>>
  /\ UNCHANGED <<current, saved, listed, calls, left, strays>>

-----------------------------------------------------------------------------
(* What waits for the server.                                              *)

Call(kind, k, arg) == [kind |-> kind, key |-> k, arg |-> arg, moved |-> FALSE]
Calling(c) == c \notin calls /\ calls' = calls \cup {c}

\* A row's terminal or new chat: the row's scope is shown first.
Create(kind) ==
  /\ Spend("made")
  /\ LET id == Id(kind, current, left.made)
     IN  /\ Calling(Call("create", current, id))
         /\ listed' = IF kind = "chat" THEN [listed EXCEPT ![current] = Append(@, id)] ELSE listed
  /\ UNCHANGED <<current, scopes, armed, saved, reasserts, strays>>

\* The tab goes to the scope shown now.
CreateDone(c) ==
  /\ c \in calls /\ c.kind = "create" /\ calls' = calls \ {c}
  /\ Change(current, WithTab(Here, Tab(c.arg)))
  /\ strays' = IF c.moved THEN strays \cup {c.arg} ELSE strays
  /\ UNCHANGED <<current, saved, listed, reasserts, left>>

\* A shell that is gone is started anew under its tab.
Restart(id) ==
  /\ id \in TabIds(Here) /\ id.kind = "terminal"
  /\ Spend("made")
  /\ Calling(Call("restart", current, [old |-> id, new |-> Id("terminal", id.home, left.made)]))
  /\ UNCHANGED <<current, scopes, armed, saved, listed, reasserts, strays>>

RestartDone(c) ==
  /\ c \in calls /\ c.kind = "restart" /\ calls' = calls \ {c}
  /\ \/ /\ \A k \in Keys : c.arg.old \notin TabIds(scopes[k])
        /\ UNCHANGED <<scopes, armed>>
     \/ \E k \in Keys :
          LET s == scopes[k]
          IN  /\ c.arg.old \in TabIds(s)
              /\ Change(k, Restarted(s, c.arg.old, c.arg.new))
  /\ strays' = IF c.arg.old \in strays THEN strays \cup {c.arg.new} ELSE strays
  /\ UNCHANGED <<current, saved, listed, reasserts, left>>

\* The chats of a scope, for the first strip of tabs and for the chat pane.
List(kind) ==
  /\ kind = "seed" => ChatTabs(Here) = <<>>
  /\ Spend("lists")
  /\ Calling(Call(kind, current, listed[current]))
  /\ UNCHANGED <<current, scopes, armed, saved, listed, reasserts, strays>>

SeedIntoCurrent(c) ==
  /\ c \in calls /\ c.kind = "seed" /\ calls' = calls \ {c}
  /\ IF c.arg = <<>> THEN UNCHANGED <<scopes, armed>>
                     ELSE Change(current, ScopeChats(Here, c.arg))
  /\ UNCHANGED <<current, saved, listed, reasserts, left, strays>>

SeedDone(c) ==
  /\ c \in calls /\ c.kind = "seed" /\ calls' = calls \ {c}
  /\ IF c.arg = <<>> THEN UNCHANGED <<scopes, armed>>
                     ELSE Change(c.key, ScopeChats(scopes[c.key], c.arg))
  /\ UNCHANGED <<current, saved, listed, reasserts, left, strays>>

\* A scope that has been seen with tabs only loses those not listed; one
\* without any is filled.
RefreshDone(c) ==
  /\ c \in calls /\ c.kind = "refresh" /\ calls' = calls \ {c}
  /\ LET open == {t.id : t \in ToSet(ChatTabs(Here))}
         quiet == \/ c.key # current
                  \/ open = {} /\ Here.hydrated /\ c.arg = <<>>
         chats == IF open = {} THEN c.arg ELSE Only(c.arg, open)
     IN  IF quiet THEN UNCHANGED <<scopes, armed>>
                  ELSE Change(current, ScopeChats(Here, chats))
  /\ UNCHANGED <<current, saved, listed, reasserts, left, strays>>

-----------------------------------------------------------------------------
(* The layout.                                                             *)

LayoutTimer(k) ==
  /\ k \in armed /\ armed' = armed \ {k}
  /\ saved' = [saved EXCEPT ![k] = scopes[k]]
  /\ UNCHANGED <<current, scopes, listed, calls, reasserts, left, strays>>

\* What was not saved, and what was asked for, is gone.
Reload ==
  /\ Spend("reloads")
  /\ scopes' = [k \in Keys |-> Hydrated(saved[k])]
  /\ armed' = {} /\ calls' = {} /\ reasserts' = {}
  /\ UNCHANGED <<current, saved, listed, strays>>

Openable == {Id("db", None, 0)}

Next ==
  \/ \E k \in Keys : Switch(k) \/ LayoutTimer(k) \/ \E id \in ToSet(listed[k]) : GoToChat(k, id)
  \/ \E id \in Openable : OpenTab(id)
  \/ \E id \in TabIds(Here) : CloseTab(id) \/ SetActiveTab(id) \/ RenameTab(id) \/ Restart(id)
  \/ \E kind \in {"chat", "terminal"} : Create(kind)
  \/ \E kind \in {"seed", "refresh"} : List(kind)
  \/ \E c \in calls : CreateDone(c) \/ RestartDone(c) \/ SeedDone(c) \/ RefreshDone(c)
  \/ \E r \in reasserts : Reassert(r)
  \/ Reload

Spec == Init /\ [][Next]_vars

-----------------------------------------------------------------------------
(* Properties.                                                             *)

\* A scope has a focused tab exactly when it has tabs, the focused one is
\* among them, and no tab is there twice: through late lists, tabs that close
\* while they are reasserted, shells that restart and old layouts.
ActiveIsATab ==
  \A k \in Keys :
    /\ scopes[k].active = None <=> scopes[k].tabs = <<>>
    /\ scopes[k].active \in TabIds(scopes[k]) \cup {None}
    /\ Cardinality(TabIds(scopes[k])) = Len(scopes[k].tabs)

\* No change of a scope stays out of the stored layout: it is there, or the
\* timer that brings it there runs.
NothingUnsaved ==
  \A k \in Keys : k \in armed \/ scopes[k] = Hydrated(saved[k])

\* A strip holds tabs of its own scope, but for those that were asked for in
\* one scope and came when another was shown.
ListsStayHome ==
  \A k \in Keys : \A id \in TabIds(scopes[k]) : id.home \in {k, None} \/ id \in strays
=============================================================================
