------------------------------ MODULE Settings ------------------------------
(***************************************************************************)
(* The settings: the tabs of features/settings/SettingsModal.tsx that      *)
(* write them, saveSettings of core/stores/app.ts, and the file on the     *)
(* server.                                                                 *)
(*                                                                         *)
(* A choice is on the screen at once, and the whole of the settings, as    *)
(* this page has them, is put to the server, which writes what it is given *)
(* when it is given it.  Themes the user has made have requests of their   *)
(* own, and handlers that go on after the answer.                          *)
(***************************************************************************)
EXTENDS Requests, Functions

CONSTANTS
  Builtins,   \* the ids of the themes that ship
  Default,    \* "dark-default", one of them
  Customs,    \* the ids of themes the user makes
  Prompts,    \* the ids of the user's prompt templates
  Budgets

Tabs == {"appearance", "agents", "prompts", "providers"}

\* `font` stands for the fonts and their size, which are chosen alike.
NoSettings == [theme |-> Default, font |-> 0, auto |-> 0, model |-> 0,
               customs |-> {}, prompts |-> <<>>]

Init ==
  \E made \in SUBSET Customs, b \in Budgets :
    /\ left = b /\ calls = {}
    /\ server = [file |-> [NoSettings EXCEPT !.customs = made]]
    /\ view = [tab |-> None, form |-> None, err |-> FALSE,
               settings |-> [NoSettings EXCEPT !.customs = made],
               themes |-> Builtins \cup made, themeId |-> Default,
               shown |-> [theme |-> Default, font |-> 0]]

-----------------------------------------------------------------------------
(* Saving.                                                                 *)

Shown(s) == [theme |-> s.themeId, font |-> s.settings.font]

\* The tab that shows the theme and the fonts follows them, and puts its
\* form away whenever one of them has changed.
Synced(v) ==
  IF v.tab # "appearance" \/ Shown(v) = Shown(view) THEN v
  ELSE [v EXCEPT !.shown = Shown(v), !.form = None]

setTheme(v, t) == [v EXCEPT !.themeId = t]

\* The theme of the settings is applied with the rest of them.
applySettings(v) == setTheme(v, v.settings.theme)

Saved(v, s) == Synced(applySettings([v EXCEPT !.settings = s]))

saveSettings(s, resets) ==
  /\ Asks("save", [file |-> s, resets |-> resets])
  /\ view' = Saved(view, s)
  /\ UNCHANGED server

\* A save that comes to nothing leaves the choice on the screen.
SaveDone(r) ==
  /\ Takes(r, "save")
  /\ LET told == [view EXCEPT !.err = @ \/ r.reply = Failed]
     IN  view' = IF r.arg.resets /\ view.tab = "appearance"
                 THEN [told EXCEPT !.shown = [theme |-> Default, font |-> 0]] ELSE told
  /\ UNCHANGED <<server, left>>

-----------------------------------------------------------------------------
(* The tabs.                                                               *)

\* A tab that comes to the screen is made anew.
OpenTab(t) ==
  /\ view.tab # t /\ Spend("looks")
  /\ view' = [view EXCEPT !.tab = t, !.form = None,
                          !.shown = IF t = "appearance" THEN Shown(view) ELSE @]
  /\ UNCHANGED <<server, calls>>

\* Escape, the backdrop, "Done".
Close ==
  /\ view.tab # None
  /\ view' = [view EXCEPT !.tab = None, !.form = None]
  /\ UNCHANGED <<server, calls, left>>

onTheme(t) ==
  /\ view.tab = "appearance" /\ t \in view.themes \ {view.shown.theme}
  /\ saveSettings([view.settings EXCEPT !.theme = t], FALSE)

onUiFont ==
  /\ view.tab = "appearance"
  /\ saveSettings([view.settings EXCEPT !.font = 1 - view.shown.font], FALSE)

\* The default provider goes with its default model.
onDefaultProvider ==
  /\ view.tab = "providers"
  /\ saveSettings([view.settings EXCEPT !.model = 1 - @], FALSE)

AgentsTab ==
  /\ view.tab = "agents"
  /\ saveSettings([view.settings EXCEPT !.auto = 1 - @], FALSE)

reset ==
  /\ view.tab = "appearance"
  /\ saveSettings([view.settings EXCEPT !.theme = Default, !.font = 0], TRUE)

-----------------------------------------------------------------------------
(* Prompt templates: a list that every change saves as a whole.            *)

Template(id) == [id |-> id, edited |-> FALSE]

persist(next) == view.tab = "prompts" /\ saveSettings([view.settings EXCEPT !.prompts = next], FALSE)

Listed == view.settings.prompts

addPrompt ==
  \E id \in Prompts \ {p.id : p \in Range(Listed)} : persist(Append(Listed, Template(id)))

\* Leaving a field saves what is in it.
updatePrompt(k) == k \in DOMAIN Listed /\ persist([Listed EXCEPT ![k].edited = TRUE])

deletePrompt(k) == k \in DOMAIN Listed /\ persist(SelectSeq(Listed, LAMBDA p : p # Listed[k]))

\* One up; one down is the same for the other.
move(k) ==
  k \in DOMAIN Listed \ {1} /\ persist([Listed EXCEPT ![k] = Listed[k - 1], ![k - 1] = Listed[k]])

-----------------------------------------------------------------------------
(* Themes the user makes.                                                  *)

customThemes == view.themes \cap Customs

OpenForm(t) ==
  /\ view.tab = "appearance" /\ t \in customThemes \cup (IF view.form = None THEN {"new"} ELSE {})
  /\ view.form # t
  /\ view' = [view EXCEPT !.form = t]
  /\ UNCHANGED <<server, calls, left>>

\* An id is made whenever a new theme is submitted.
Unused(t) ==
  /\ t \notin view.themes \cup server.file.customs
  /\ \A r \in calls : r.kind = "saveTheme" => r.arg.id # t

CustomThemeForm(t) ==
  /\ view.form # None /\ IF view.form = "new" THEN Unused(t) ELSE t = view.form
  /\ Asks("saveTheme", [id |-> t])
  /\ UNCHANGED <<view, server>>

\* A list of themes that has changed changes nothing else on the tab.
WithTheme(v, t) ==
  [v EXCEPT !.themes = @ \cup {t}, !.settings.customs = @ \cup {t}, !.form = None]

\* The theme in use is only applied again; another one is chosen.
ThemeSaved(r) ==
  /\ r.kind = "saveTheme"
  /\ IF r.reply = Failed \/ view.themeId = r.arg.id
     THEN /\ Takes(r, "saveTheme") /\ UNCHANGED left
          /\ view' = IF r.reply = Failed THEN view ELSE WithTheme(view, r.arg.id)
     ELSE LET s == [WithTheme(view, r.arg.id).settings EXCEPT !.theme = r.arg.id]
          IN  /\ TakesAsking(r, "saveTheme", "save", [file |-> s, resets |-> FALSE])
              /\ view' = Saved(WithTheme(view, r.arg.id), s)
  /\ UNCHANGED server

deleteCustomTheme(t) ==
  /\ view.tab = "appearance" /\ t \in customThemes
  /\ Asks("deleteTheme", [id |-> t, used |-> view.themeId = t])
  /\ UNCHANGED <<view, server>>

WithoutTheme(v, t) == [v EXCEPT !.themes = @ \ {t}, !.settings.customs = @ \ {t}]

InUseWhenPressed(r) == r.arg.used

\* After the answer, and not when "Delete" was pressed.
InUse(r) == view.themeId = r.arg.id

ThemeDeleted(r) ==
  /\ r.kind = "deleteTheme"
  /\ IF r.reply = Failed \/ ~InUse(r)
     THEN /\ Takes(r, "deleteTheme") /\ UNCHANGED left
          /\ view' = IF r.reply = Failed THEN view ELSE WithoutTheme(view, r.arg.id)
     ELSE LET s == [WithoutTheme(view, r.arg.id).settings EXCEPT !.theme = Default]
          IN  /\ TakesAsking(r, "deleteTheme", "save", [file |-> s, resets |-> FALSE])
              /\ view' = Saved(WithoutTheme(view, r.arg.id), s)
  /\ UNCHANGED server

-----------------------------------------------------------------------------
(* The server (settings.rs, themes.rs).                                    *)

ServeSave(r) ==
  /\ r.kind = "save" /\ Answers(r, "ok")
  /\ server' = [server EXCEPT !.file = r.arg.file]
  /\ UNCHANGED <<view, left>>

ServeTheme(r) ==
  /\ r.kind \in {"saveTheme", "deleteTheme"}
  /\ LET there == r.arg.id \in server.file.customs
     IN  /\ Answers(r, IF r.kind = "deleteTheme" /\ ~there THEN Failed ELSE "ok")
         /\ server' = [server EXCEPT !.file.customs =
                        IF r.kind = "saveTheme" THEN @ \cup {r.arg.id} ELSE @ \ {r.arg.id}]
  /\ UNCHANGED <<view, left>>

Next ==
  \/ \E t \in Tabs : OpenTab(t)
  \/ Close \/ onUiFont \/ onDefaultProvider \/ AgentsTab \/ reset \/ addPrompt
  \/ \E t \in Builtins \cup Customs : onTheme(t)
  \/ \E k \in 1..Cardinality(Prompts) : updatePrompt(k) \/ deletePrompt(k) \/ move(k)
  \/ \E t \in Customs \cup {"new"} : OpenForm(t)
  \/ \E t \in Customs : CustomThemeForm(t) \/ deleteCustomTheme(t)
  \/ \E r \in calls :
       SaveDone(r) \/ ThemeSaved(r) \/ ThemeDeleted(r) \/ ServeSave(r) \/ ServeTheme(r) \/ Fails(r)

Spec == Init /\ [][Next]_panelVars

-----------------------------------------------------------------------------
(* Properties.                                                             *)

\* The theme in use is one there is, although a theme may be chosen while
\* its deletion, or its being saved again, is still under way.
ThemeIsKnown == view.themeId \in view.themes
=============================================================================
