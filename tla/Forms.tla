------------------------------- MODULE Forms -------------------------------
(***************************************************************************)
(* What the user writes and submits, and what becomes of it on the screen: *)
(* the rail's menus, the forms for worktrees, chats and projects, the dock *)
(* of queued messages, the settings; the composer and the timeline of the  *)
(* desktop's chat pane; and the chat session of the mobile shell.  As in   *)
(* Views, every behaviour is one of one surface beside the server, and     *)
(* `surface` says which.                                                   *)
(***************************************************************************)
EXTENDS ChatStream, Requests

CONSTANTS
  Budgets,                                                \* of each surface, by its name
  Root, Worktrees, Kinds, PullRequests, Widths, RailMin, RailMax, RailDefault,  \* Rail
  Names, TakenName, MaxConsole,                                        \* WorktreeForm
  Providers,                                                \* NewChat, SettingsTabs
  Free, Detected,                                                      \* NewChat
  Home, Dirs, Up,                                                      \* Projects
  Queued,                                                              \* QueueDock
  Builtins, Default, Customs, Templates,                               \* Settings
  ScopeOf, Attachments, Models,                                        \* Composer
  Window, Page,                                         \* ChatTimeline, ChatSession
  Old, PaneMaxPrompts, PaneMaxEvents,                                  \* ChatTimeline
  MobileChats, Texts, History, MaxCalls                                \* ChatSession

VARIABLES
  surface,
  chat, store, socket, batch, shown, newest, broken             \* ChatSession

mobileVars == <<chat, store, socket, batch, shown, newest, broken>>

-----------------------------------------------------------------------------
(* The surfaces.                                                           *)

Left        == INSTANCE Rail WITH Budgets <- Budgets.rail
NewWorktree == INSTANCE WorktreeForm WITH Taken <- TakenName, Budgets <- Budgets.worktree
Chat        == INSTANCE NewChat WITH Lists <- Detected, Budgets <- Budgets.chat
Folder      == INSTANCE Projects WITH Budgets <- Budgets.folder
Dock        == INSTANCE QueueDock WITH Budgets <- Budgets.dock
Themes      == INSTANCE Settings WITH Prompts <- Templates, Budgets <- Budgets.settings
Tabs        == INSTANCE SettingsTabs WITH Budgets <- Budgets.tabs
Composing   == INSTANCE Composer WITH
                 Scope <- ScopeOf, Files <- Attachments, Budgets <- Budgets.composer
Timeline    == INSTANCE ChatTimeline WITH
                 MaxPrompts <- PaneMaxPrompts, MaxEvents <- PaneMaxEvents,
                 Budgets <- Budgets.timeline
Mobile      == INSTANCE ChatSession WITH Chats <- MobileChats, Budgets <- Budgets.mobile

\* None is no worktree, nor what a worktree's row says.
ASSUME RailOK   == None \notin Worktrees
ASSUME StatusOK == None \notin {"creating", "ready", "failed"}

\* A message that has arrived is neither unanswered nor failed.
ASSUME ReplyOK == "ok" \notin {None, Failed}

\* What is left of a behaviour is counted.
ASSUME BudgetsOK ==
  /\ \A b \in Budgets.composer : "looks" \in DOMAIN b /\ b.looks \in Int
  /\ \A b \in Budgets.mobile : "sends" \in DOMAIN b /\ b.sends \in Int

\* Views, pages and what there was before are of so many prompts.
ASSUME WindowOK == Window \in Nat /\ Page \in Nat /\ \A c \in MobileChats : History[c] \in Nat

\* The default theme ships, and no theme the user makes has the id of one that
\* does.
ASSUME ThemesOK == Default \in Builtins /\ Builtins \cap Customs = {}

PanelInit ==
  \/ surface = "rail"     /\ Left!Init
  \/ surface = "worktree" /\ NewWorktree!Init
  \/ surface = "chat"     /\ Chat!Init
  \/ surface = "folder"   /\ Folder!Init
  \/ surface = "dock"     /\ Dock!Init
  \/ surface = "settings" /\ Themes!Init
  \/ surface = "tabs"     /\ Tabs!Init
  \/ surface = "composer" /\ Composing!Init
  \/ surface = "timeline" /\ Timeline!Init

NoMobile ==
  /\ chat = None /\ store = None /\ socket = None /\ batch = None
  /\ shown = None /\ newest = None /\ broken = None

Init ==
  \/ PanelInit /\ NoMobile
  \/ surface = "mobile" /\ Mobile!Init /\ view = None

\* A step of a surface that keeps its state in panelVars.
Panel(name) == surface = name /\ UNCHANGED <<surface, mobileVars>>

Next ==
  \/ Panel("rail")     /\ Left!Next
  \/ Panel("worktree") /\ NewWorktree!Next
  \/ Panel("chat")     /\ Chat!Next
  \/ Panel("folder")   /\ Folder!Next
  \/ Panel("dock")     /\ Dock!Next
  \/ Panel("settings") /\ Themes!Next
  \/ Panel("tabs")     /\ Tabs!Next
  \/ Panel("composer") /\ Composing!Next
  \/ Panel("timeline") /\ Timeline!Next
  \/ surface = "mobile" /\ Mobile!Next /\ UNCHANGED <<surface, view>>

vars == <<surface, mobileVars, panelVars>>

Spec == Init /\ [][Next]_vars

-----------------------------------------------------------------------------
(* Properties: those of the surfaces, each about its own.                  *)

\* One repository is asked for one merge of its base (LeftRail.tsx), and one
\* submit of a form is under way (WorktreeDialog.tsx, NewChatDialog.tsx,
\* FolderPicker.tsx), whatever is clicked and however fast.
OneAtATime ==
  /\ surface = "rail"     => Left!OneMergeAtATime
  /\ surface = "worktree" => NewWorktree!OneSubmitAtATime
  /\ surface = "chat"     => Chat!OneSubmitAtATime
  /\ surface = "folder"   => Folder!OneSubmitAtATime

\* What the dialog says of a new worktree is what became of it
\* (WorktreeDialog.tsx).
VerdictIsTrue == surface = "worktree" => NewWorktree!VerdictIsTrue

\* What is disabled waits for an answer that enables it: the buttons of the
\* dock of queued messages (ChatPane.tsx), those of the tabs of the settings
\* (SettingsModal.tsx, IntegrationsTab.tsx), and the one that loads older
\* prompts (ChatPane.tsx).
BusyHasAReason ==
  /\ surface = "dock"     => Dock!BusyHasAReason
  /\ surface = "tabs"     => Tabs!BusyHasAReason
  /\ surface = "timeline" => Timeline!OlderHasAReason

\* The theme in use is one there is (SettingsModal.tsx).
ThemeIsKnown == surface = "settings" => Themes!ThemeIsKnown

\* What was sent is nowhere in its chat's composer any more (ChatPane.tsx).
SentIsGone == surface = "composer" => Composing!SentIsGone

\* Once everything has arrived the timeline is the server's: the one of the
\* desktop's chat pane (ChatPane.tsx) and the one of the mobile session
\* (core/chat/createChatSession.ts).
TimelineIsCanonical ==
  /\ surface = "timeline" => Timeline!TimelineIsCanonical
  /\ surface = "mobile"   => Mobile!SettledIsCanonical

\* A message sent from the mobile session does not vanish before the server
\* has answered for it (core/chat/createChatSession.ts).
SentStaysVisible == [][surface = "mobile" => Mobile!SentStays]_vars
=============================================================================
