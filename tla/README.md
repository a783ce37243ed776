# AgentGrove in TLA+

A verification companion to the AgentGrove repository: TLA+ modules translated
from the Rust back end and the SolidJS front end, TLC runs over small
instances, and TLAPS proofs of the properties that matter most. File and line
references are to the repository; every definition of a model is mapped to the
lines it stands for in `PROJECT.json`.

## 1. The system

AgentGrove is a local server (`agentgrove-server`, axum on tokio, SQLite) with
a browser front end. A user opens projects and git worktrees, runs coding
agents (command-line programs started per turn) in chats, and uses terminals,
notes, a file editor and a ticket list beside them.

| Component | State it keeps | Operations | Talks to |
|---|---|---|---|
| **Chat routing, queue, dispatch** (`agentgrove-api/src/chats.rs`, `queue.rs`, `agentgrove-store/src/queue.rs`) | the set `dispatching` behind one async mutex, `cancel_tokens`, tables `queue_items` and `chat_queue_mode` | send, legacy add-prompt, enqueue, cancel, reorder, edit, mode, run-next, dispatch-item, retry, stop; the drain loop; `DispatchGuard` | chat store, providers, log bus |
| **Chat store and registry** (`chats.rs`, `agentgrove-store/src/chat.rs`) | tables `chats`, `prompts`; the in-memory `ChatRegistry` | create, rename, model and effort, fork, truncate, revert, soft delete, restore, hydrate | dispatch, front end |
| **Turn streaming** (`dispatch_via_provider`) | a channel of events per turn, a cancellation token | stream, coalesce, cap, cancel, persist | agents, log bus |
| **Log bus and WebSocket** (`logbus.rs`, `ws.rs`) | per topic: a ring of recent lines and a broadcast channel | publish, subscribe, resend after lag | every producer, front end |
| **Terminals** (`terminal.rs`, `agentgrove-pty`) | a pty, a byte history, subscribers | open, input, resize, replay, exit | front end |
| **Worktrees** (`worktrees.rs`, `agentgrove-store/src/worktree.rs`, `agentgrove-git/src/worktree.rs`, `agentgrove-scripts`) | table `worktrees` with a lifecycle status; git's own state | create (with a background task), rename, delete, restore, startup recovery | git, scripts, log bus |
| **Schedules** (`schedules.rs`, `agentgrove-store/src/schedule.rs`) | table of interval and one-shot prompts | create, edit, delete, the ticker | `send_message` |
| **Providers and caches** (`agentgrove-agents`, `providers.rs`, `models_cache.rs`, the TTL caches of `state.rs`) | parsers per turn; cached lists | list, refresh, invalidate | external programs |
| **Tickets, integrations, secrets** | sealed keys, caches | fetch, start task | ClickUp, Jira, GitHub |
| **Projects, files, editor, git views, notes, layout, settings, database browser** | tables and files | one request at a time | disk, git |
| **Front-end stores and client** (`core/stores/app.ts`, `core/api/client.ts`, `shells/desktop/App.tsx`, `TabStrip.tsx`) | projects, worktrees, a strip of tabs per scope, timers that store layouts | open, close, move, switch, hydrate, reassert | the API, every pane |
| **Chat session and stream** (`core/chat`, `shells/mobile`) | the timeline with optimistic prompts and live text, a WebSocket, a batch of deltas | reload, reconcile, backfill, page, send, stop, reconnect, poll | the API, the chat's topic |
| **Desktop chat pane** (`panes/ChatPane.tsx`, `queueCard.tsx`, `QueueTimeline.tsx`, `ui/ChatComposer.tsx`, `ui/MicButton.tsx`, `ToolRail.tsx`) | the same timeline, the dock of queued messages, the composer and its draft, folds, the scroll position | the same; resend, retry, fork, revert, delete; reorder, edit, run; type, attach, dictate | the same |
| **Rail, files, dialogs** (`LeftRail.tsx`, `ProjectFiles.tsx`, `ChangesPanel.tsx`, `features/projects`, `features/chat`, seven dialogs) | what each has read, what it is waiting for, what is being confirmed | list, search, act, refresh | the API |
| **URL and other pages** (`core/lib`) | the browser's history; channels between pages | mirror, Back and Forward, announce | stores |

What is hard here is concurrency inside one process: handlers are async
functions that may be suspended at every `.await` and dropped there when their
client goes away; turns, drains and guards are detached tasks; one async mutex
protects a set of chat ids but neither the queue nor the chat registry; the
queue is a table that several tasks update; the process may die between any two
statements. Properties that make the components correct:

- *dispatch*: one turn at a time per chat; no accepted message lost or sent
  twice; messages go out in the order they were accepted; a popped row is
  finished or rolled back; an auto-mode queue empties; a busy chat becomes idle;
- *queue store*: positions order the queue, and reorder keeps what it does not name;
- *chat store*: cache and table agree on every prompt both hold; seq numbers are unique;
- *turn streaming*: a turn ends with one terminal event; a stop ends it;
- *log bus, terminal*: a subscriber sees a suffix of the stream without gaps, also after lag;
- *worktrees*: a row is ready only when the directory exists; a deleted row stays deleted;
- *schedules*: a due prompt is sent once per interval, a one-shot at most once;
- *front end*: the timeline shown converges to the server's; a message sent neither
  vanishes nor is sent again; an old answer does not replace a newer one; what is
  disabled has something to wait for; the URL names the view; what the user
  scrolled, folded or opened stays so.

The hard part of the front end is that every handler is an async function over
signals: between a request and the code after its `await` the user clicks on, another
request is answered, the socket speaks, a timer fires, the component is unmounted.

`PROJECT.json` lists every component with its status and every hazard at the
line where it bites.

## 2. Modules

| Module | What it is |
|---|---|
| `ChatDispatch` | the core: routing, queue and dispatch of one chat |
| `TopicStream` | one topic of the log bus and the WebSockets that follow it |
| `Terminal` | one terminal session: its threads, its sockets, a poller |
| `Schedules` | the scheduled messages of one chat, their edits and the ticker |
| `Worktrees` | the worktrees of one project: rows, create tasks, requests, git's directories and branches |
| `ChatStore` | the chats and prompts of the database and their cache, with fork, truncate, revert, retry, delete and restore |
| `Requests` | what the panels of the web client share: requests, answers, failures |
| `ChatStream` | pure: the client's timeline and what frames, answers and the user's messages do to it |
| `ChatSession` | the mobile shell's chat session |
| `ChatTimeline`, `TimelineScroll`, `PromptRow`, `QueueDock`, `Composer` | the desktop's chat pane |
| `Workspace`, `RouteSync` | the tabs and their layouts; the URL and the history |
| `Rail`, `FileTree`, `ChangesPanel` | the left rail, the trees of files, the panel of changes |
| `WorktreeForm`, `NewChat`, `Projects`, `Dialogs` | the forms and the dialogs with lists |
| `Settings`, `SettingsTabs`, `Database` | the settings and the database view |
| `LatestAnswer` | abstract: a list that may lag behind but never goes back to an older answer |
| `Filters` | pure: `Array.prototype.filter` as a recursive function, for the proofs |
| `Views`, `Forms` | two sums of surfaces of the web client: what is looked at and moved about in; what submits something, and a chat on either screen |
| `MC…` | the instances for TLC of the first six and of the two sums (symmetry, inputs, bounds; constants in the `.cfg` files) |
| `…_proofs` | the theorems, of the first six, of `Views` and of `Forms` |

The components meet where one calls another, and each model takes the other side as an
environment that may do whatever the other component can do: the ticker calls
`send_message` (`Schedules` has its outcomes: a turn, a queue row, an error, no
such chat); turns and handlers publish on the log bus (`TopicStream` has
publishers); terminals share nothing with the rest but the server process. Worktrees meet chats only
through the directory a turn runs in, which no model of a turn looks at. `ChatDispatch`
and `ChatStore` look at a chat from two sides: the first at who may start a turn and
what becomes of each message, with one prompt list that says which prompts are cached;
the second takes one turn at a time for granted and follows every write to cache and table.

### ChatDispatch

One chat: chats share nothing but the routing mutex, and a second chat only
makes the mutex busier. A *slot* (`Procs`) is a handler or a task;
`pc[p]` names the `.await` it stands at, so every step of the model is the code
between two awaits. A handler that ends by spawning a task hands its slot to
the task.

| TLA+ | Code |
|---|---|
| `flag` | the chat's id in `AppState::dispatching` |
| `lock` | the tokio mutex around that set |
| `token`, `tripped` | `cancel_tokens` and the cancelled ones |
| `item`, `pos`, `mode` | `queue_items` (status, position), `chat_queue_mode` |
| `prompts` | table `prompts` in order; `cached` says whether the registry holds the row, `events` whether the stored events are missing, complete or the synthetic error of `stop_turn` |
| `present` | the chat is cached and not soft-deleted. `persist_chat_delete` does the two one after the other; the model does them together |
| `guards` | clears spawned by `DispatchGuard::drop` that have not run |
| `reply`, `accepted`, `exposed`, `disruptions` | history: what clients were told, the order of acceptance, owners whose flag another one removed or ignored, spent faults |

Actions follow the handlers: `SendMessage … SendIngest` (`send_message`),
`AddPrompt, LegacyIngest` (`add_prompt`), `Enqueue, Cancel, SetMode`, `Kick…`
(`kick_drain_if_idle`), `RunNext, RunPop, DispatchItem, RunPick, RunAdd,
RunIngest` (`run_next`, `dispatch_item`), `RetryChat, RetryGo`, `StopTurn …
StopForce`, `Turn…` (a provider or echo turn with the one retry after a stale
session), `Drain…, MarkDone, Clear…` (the drain), `GuardClear`, `DeleteChat,
RestoreChat`, and the faults `Panic` (a task unwinds), `Disconnect` (axum drops
a handler), `Crash` (restart: `recover_stale_running`, `hydrate_from_store`)
and, inside the actions, a failing database or a stale session (`Spend`).

Abstracted: message texts and provider output; the position tie-break on
`created_at`; reads of the database that the code does
not act on; requests answered 404, 409 or 400 without effect.

### TopicStream

One topic (`logbus.rs`, `ws.rs`). A message is the number of its push.
`history` is `TopicState::history`; `channel` is the sequence of all messages
ever sent on `TopicState::tx`, so a receiver is an index (`cursor`) and tokio's
ring is its last `Capacity` entries. `Push` and `Broadcast` are the two halves
of `publish`, on either side of the mutex; `Connect` is `subscribe`, `Replay`
and `Receive` the two phases of `handle_socket`, `Recover` its `Lagged` branch.
`sent` is `sent_history`. `base`, `window` and `lagged` are history variables.

### Terminal

One session (`terminal.rs`). Chunks are numbered as the shell writes them; the
reader thread is the only sender, so the channel is a counter (`streamed`).
`Read` and `Stream` are the reader's append and send, `WaiterEnds` the waiter
thread, `Kill` the DELETE. A subscription is two steps (receiver, then history),
as the reader runs in parallel. `holder` says who has the slave side of the pty
open: a background process may keep it open, and print, after the shell is gone.

### Schedules

The rows of one chat (`schedules.rs`, `agentgrove-store/src/schedule.rs`). The
ticker's `tick` names its await (`mark_ran`, `read_state`, `send_message`,
`disable`); `due` is the list it read, `firing` its element. A PATCH is
`PatchRead` and `PatchWrite`: the two statements of `ScheduleRepo::update`.
`Advanced` is `mark_ran`'s SQL, `Updated` and `Restarts` the computation in
`update`, `Accepted` the validation, `Parsed` what serde makes of a null
interval. The queue may pop, cancel, finish or roll back copies as the core
does. `from`, `runs`, `last`, `returned` and `clobbered` are history variables.

### Worktrees

The rows of one project and what git keeps for them (`worktrees.rs` over
`agentgrove-store/src/worktree.rs` and `agentgrove-git/src/worktree.rs`).
Nothing locks a worktree, so every statement and every run of git is a step.

| TLA+ | Code |
|---|---|
| `row` | `worktrees`; `live` is `removed_at IS NULL`. A row is named by its path, which is `UNIQUE` also among removed rows, so a path once used stays taken |
| `task`, `made` | the task spawned by `create`: the await it is at, and its copy of the branch |
| `req` | the handlers of `delete`, `restore`, `update`, each with the row as it was read |
| `dirs`, `head`, `branches` | directories, git's registered worktrees with their branch, local branches |
| `DirOf` | `sanitize_branch`: two branch names may share a path |
| `Fetch … SetReady` | the task's stages |
| `Undo…` | `cleanup_failed_worktree`, each step best effort |
| `BeginDelete … DeleteRow`, `BeginRestore … RestoreReady`, `BeginRename … RenameRow` | the handlers, await by await |
| `Recovered`, `Restart` | `recover_stale_lifecycle` and startup |
| `HangUp`, `DeletedByHand` | axum dropping a handler; the user |

git is modelled by what the code relies on: it refuses a path or branch that is
taken, will not delete a branch that is checked out, moves checkouts along with
a renamed branch, forgets a registration before it deletes the directory, and
may make a branch before it fails to check it out. Any run of git that could
succeed may also fail, which spends a fault. `calm`, `hung` and `work` are
history variables: whether histories have stayed free of overlaps and
interruptions, whose request was dropped, whose branch holds work.

Abstracted: ids, scripts' output, base refs and fetches of `restore`, custom
paths (the cleanup leaves those alone), one project and one repository.

### ChatStore

All chats of the server (`ChatRegistry` of `chats.rs` over
`agentgrove-store/src/chat.rs`), because a fork ties chats together.

| TLA+ | Code |
|---|---|
| `chats` | table `chats`: no row, a live one, one with `deleted_at` set |
| `rows` | table `prompts`, by id; `UNIQUE (chat_id, seq)` is `Taken` |
| `cache` | `ChatRegistry::by_id`, with the prompts of each chat |
| `turn` | a chat's turn: `Send`, `Insert`, `Ingest` are `persist_add_prompt`; `Stream`, `Finish` the events of `dispatch_via_provider`; `Read`, `Write` are `persist_prompt_events`; `Reset` is the retry after a stale session |
| `req` | the handlers of fork, truncate, delete, restore, statement by statement |
| `odd`, `clash` | history: chats whose cached prompts are known to differ from their rows; chats that only one of cache and table may list |

`text` is the id under which a prompt's content was first entered, so a copied
prompt can be told from its source; the events of a prompt are counted.
`SurvivesRestart` and `RegistryMatches` speak of a chat at rest: nothing under way
on it. `odd` and `clash` name what excuses a difference, and each excuse
is a divergence of section 3 or a fault; without one, the property fails.

Abstracted: titles, models, effort and session ids, touched paths, timestamps,
the index `by_project`; who holds which mutex (`ChatDispatch`); hydration that
fails to read a chat's prompts.

### The web client

A panel is a component with its signals and the requests it has made. `Requests`
says what all of them share: a request is in `calls` from the moment it is made; the
server answers in a step of its own, from the state it has then; the code after the
`await` is a third step (`Takes`). Steps of different requests come in any order, so
answers overtake each other, come after a click, or after the component is gone; a
request may also fail, or be left unanswered for ever. `view` is what the component
holds, `server` what the server or the browser's storage holds, `left` the budget
that bounds a behaviour (requests, failures, and other clicks: "looks").

| Module | Its state and actions in the code |
|---|---|
| `ChatStream` | `chatStream.ts` and the updates of the store in both shells: `ApplyWsFrame`, `Flushed`, `Loaded`, `Reconciled`, `Backfilled`, `Swapped`, `KeepTail`. Text is the sequence of the numbers of its deltas, so a lost or doubled delta shows; an id carries its chat |
| `ChatSession` | `createChatSession.ts`: `store`, `socket`, `batch`; `Open`, `Send`, `Stop`, `LoadOlder`, one `…Done` per `await`; `Connect`, `Receive`, `SocketCloses`; the timers `FlushTimer`, `Poll`; beside a server with turns, a queue and a topic that a new socket is sent from its start |
| `ChatTimeline` | the same of `ChatPane.tsx`, with resend, retry, fork, revert and delete, and the pane unmounted and mounted by tabs |
| `QueueDock` | the queue part of `ChatPane.tsx`, `queueCard.tsx` and `QueueTimeline.tsx`: `busy`, the order moved before the server has answered, a card being edited that holds the polls back |
| `Composer` | input, files, draft and its timer, send with its failure, prefill by the rail, slash commands, model, microphone |
| `TimelineScroll` | `VirtualizedTimeline`: the windows in which a scroll event counts as the browser's own, the anchor while older pages load, following the end |
| `PromptRow` | the fold of a prompt's internals: a `<details>` element and a signal that write each other through events |
| `Workspace` | `app.ts`: strips of tabs per scope, `hydrate`, the layout timer, `goToChat` and its reassert timers, tabs that arrive from the server |
| `RouteSync` | `routeSync.ts`: `Mirror` is the effect that runs after each assignment, `ApplyUrl` the handler of `popstate`, `Validate` what it does with entries that name what is gone |
| `Rail`, `FileTree`, `ChangesPanel` | rows with their menus, badges, pull, merge and removal; folders that are resources; files, diffs, review marks and discards |
| `WorktreeForm` | create and rename with the console and the poll for the verdict |
| `NewChat`, `Projects` | provider and model; folder picker, project list and removal |
| `Dialogs` | seven dialogs with one list each: four keep it in a resource, two search on the server, one switches branches |
| `Settings`, `SettingsTabs`, `Database` | `saveSettings` and themes; providers, backups, integrations; connections, trees, pages and SQL |

Two modules put surfaces next to each other, as a sum and not a product: they keep no
state that another reads, so `surface` is chosen first and says whose the variables
are. Each property says of which surface it speaks.

| Sum | Surfaces |
|---|---|
| `Views` | `RouteSync`, `Workspace`, `Dialogs`, `FileTree`, `ChangesPanel`, `Database`, `TimelineScroll`, `PromptRow` |
| `Forms` | `Rail`, `WorktreeForm`, `NewChat`, `Projects` (the folder picker), `QueueDock`, `Settings`, `SettingsTabs`; and a chat on the screen: `Composer`, `ChatTimeline`, `ChatSession` |

Where two components do meet, one model has both sides: the rail's message for a
composer (`Inject` and `TakeInjection` of `Composer`), the settings file that the database view also
writes (`Database`), the server's queue under the dock (`QueueDock`), the topic under
a timeline. A timer may fire whenever it is armed; storing a layout is one step at
its timer (the PUT's body is what the store has then, and its answer is not looked at).

`LatestAnswer` is the promise that Solid's `createResource`, and hand-written tokens
like it, make; `Dialogs`, the top of `FileTree` and the completions of `Database`
implement it (`asked` and `shown` say when the newest request was made and when the
one was whose answer is shown).

## 3. Runs

| Run | Instance | Shows |
|---|---|---|
| `faults` | 2 messages, 2 slots; every way to start a turn, one fault | `TypeOK`, `NothingLost`, `AtMostOncePlusFaults`, `OneTurnAtATime`, `NoDoublePop` |
| `live` | 3 messages, 2 slots; send, mode, run-next, cancel; fair | `NoOvertaking`, `FlagNotLeaked`, `NoStrandedRunning`, `AutoDrains`, `BusyEnds` |
| `topic_stream` | 2 publishers, 1 client, ring 2, channel 3, 7 messages, fair | `NoGap`, `NoRepeats`, `Delivers` |
| `terminal` | 1 client and a poller, history 2, channel 1, 4 chunks, fair | `NoGap`, `PollExact`, `ExitTold` |
| `schedule_rows` | 1 schedule, 2 editors, 2 edits, 1 fault, 4 ticks of the clock | `OneRunPerArming`, `Cadence`, `CatchesUp` |
| `schedule_queue` | 2 schedules with one text, 1 fault, fair | `NoPileUp`, `DueIsServed` |
| `worktrees` | 2 paths, 3 branches (two share a path), 2 requests at a time, 4 in all, 1 fault | `Attended`, `RowsMatchDisk`, `WorkIsKept` |
| `chat_store` | a chat and its fork, 3 prompts, 2 requests or faults, 2 at a time | `TypeOK`, `SurvivesRestart`, `RegistryMatches` |
| `views` | eight surfaces, each with 2 to 4 requests, at most one of which fails, and a few other clicks | what is seen: `UrlNamesTheView`, `StripsAreSound`, `LoadingHasAReason`, `StaysAsLeft`, `BackShowsTheScope`, `NeverGoesBack` |
| `forms` | seven surfaces that submit, the same with 1 to 5 requests; composer, timeline and mobile session with 1 to 3 and a lost socket | what is submitted: `OneAtATime`, `VerdictIsTrue`, `BusyHasAReason`, `ThemeIsKnown`; what a chat shows: `SentIsGone`, `TimelineIsCanonical`, `SentStaysVisible` |

The properties of the last two, each stated in its surface's own module:

| Property | Of | What could break it |
|---|---|---|
| `TimelineIsCanonical` | `ChatTimeline`, `ChatSession` | replayed frames, late answers, flushes after a reload, lost sockets |
| `SentStaysVisible` | `ChatSession` | a reconcile or reload that drops the optimistic prompt |
| `SentIsGone` | `Composer` | a draft's timer that fires after the send |
| `LoadingHasAReason` | `ChangesPanel`, `Database` | a path out of a handler that leaves its flag set |
| `BusyHasAReason` | `QueueDock`, `SettingsTabs`, the indicator of older prompts of `ChatTimeline` | the same |
| `OneAtATime` | `Rail`, `WorktreeForm`, `NewChat`, `Projects` | two clicks before the first one shows |
| `VerdictIsTrue` | `WorktreeForm` | a list read before the row, or after it is gone |
| `NeverGoesBack` | `Dialogs`, `FileTree`, `Database` | an older answer that comes late |
| `UrlNamesTheView`, `BackShowsTheScope` | `RouteSync` | the effect's own writes taken for the user's; a scope that is gone |
| `StripsAreSound` | `Workspace` | late lists and layouts, a tab asked for in another scope |
| `StaysAsLeft` | `TimelineScroll`, `PromptRow` | a scroll event of the browser taken for the user's; the end of a turn folding over a click |
| `ThemeIsKnown` | `Settings` | a theme chosen while its deletion is under way |

`TypeOK` of `Schedules`, `Terminal`, `TopicStream` and `Worktrees` is proved and not run.

Bounds. *Core*: each message is submitted once, so a timeline has at most
`|Msgs|` prompts plus repeats caused by faults; `MaxGuards` bounds the guard
clears that have not run (two suffices for one that is late and one that is
about to be); `MaxDisruptions` bounds faults and deletions. Two messages give a
busy chat and a parked message; two slots give two competing handlers, or
one handler beside the task that runs the turn or the drain, and a guard's clear
beside both (a third slot, two handlers beside a task, is in `two_turns`; the theorems
are about any number). Ordering needs a third message, which `live` has. *Topic*: seven messages
overflow ring and channel twice, so that a client can lag, recover and lag
again; the sizes keep the code's order (512 < 1024), on which `NoRepeats`
depends. *Terminal*: four chunks overflow both. *Schedules*: intervals are 2
and 3 on a clock of 4, so a tick can be late by a whole interval; two edits
give one that writes over the other. *Worktrees*: a delete, restore and rename
of one row and a request on the other take four requests, one after the other;
once two have overlapped or something was interrupted (`~calm`), the constraint
`FewRequests` stops at two, which is enough to overlap each pair of requests
with each other and with both create tasks. Three branch names give a name
that was used before, one that shares its path, and one of the other worktree.
*Chat store*: three chat ids are what a fork needs (source, temporary, own);
chats are otherwise independent, so one is created (`MaxCreated`). Three prompts
are a prompt, its copy and another one sent to either chat, or a truncation of
two. `MaxSpent` bounds requests other than sends, restarts, hang-ups and failing
statements together; two let each overlap each, beside the chats' turns. One
event is enough to tell a flushed prompt from one that is not.

*Views, forms*: a hazard of a panel takes two answers that overtake each other, or an answer
after a click that moved on, so two or three requests and one or two clicks reach
it; each surface has several budgets (`Budgets`) rather than one large one, each
aimed at a kind of trouble (two requests and a failure, three and none, a lost
socket). Two of everything that is told apart: chats, scopes, rows, files, worktrees,
themes. A window or page of one or two prompts puts backfill, paging and trimming within
reach, `MaxPrompts` and `MaxEvents` bound the timeline as the code's own
constants do, with smaller values (the cap on prompts and the code that trims
to it are part of the model). Nothing is fair there: what must happen in the end is
stated of the states in which everything has arrived.

Deadlock is checked in the two passing runs of the core: no slot ever waits for a mutex
that nobody will release. The other systems do stop (every message published, the
shell gone, no schedule left, every path taken, a panel closed), so their runs do not check it.

Two runs end in a counterexample, each against a sentence of the repository:

| Run | The code | The sentence |
|---|---|---|
| `two_turns` | the clear spawned by `DispatchGuard::drop` (`chats.rs:1519`) may run after the next turn has claimed the flag; the send after that starts a second turn beside it | "It never runs two turns in parallel" (`chat-queue-routing.md:30`) |
| `fork_truncate` | a fork keeps the ids of the prompts it copies (`chats.rs:251`), its rows get new ones; truncating the fork deletes by the cached ids (`chats.rs:1464`), hence the rows of the source, which has lost them after the next restart | "so a kill / upgrade / crash can no longer wipe the conversation history" (`migrations/0005_chats.sql:5`) |

The properties are stated around these and around more divergences that the
models contain in the same way; dropping the restriction that a property makes
for one gives its counterexample:

- `OneTurnAtATime` and `NoOvertaking` speak of the owners whose flag is still
  theirs. `exposed` records the others; among them are the turns of the legacy
  `add_prompt`, which does not test the flag (`chats.rs:1126`).
- `FlagNotLeaked` runs without deletions and disconnects: `send_message` sets
  the flag before its second lookup of the chat (`chats.rs:1260`).
- `NoStrandedRunning` likewise: `run_next` and `dispatch_item` do not roll a
  popped row back when the chat is gone (`queue.rs:280`).
- `BusyEnds` and `AutoDrains` run without deletions and restarts: a drain on a
  deleted chat pops and rolls back for ever (`chats.rs:1613`), and startup
  kicks no drain (`main.rs:87`).
- `OneRunPerArming` excepts the rows in `clobbered`: a PATCH writes all columns
  back from a row it read before `mark_ran` (`agentgrove-store/src/schedule.rs:158`),
  and a one-time schedule fires again, against "fires once at `next_run_at`, then
  disables itself" (`schedule.rs:20`).
- No property says that a client which lagged gets what the ring still holds.
  `sent_history` counts everything ever sent, while the ring keeps 512 entries
  (`ws.rs:73`), so recovery soon skips the whole ring, against "so we don't
  silently lose the tail" (`ws.rs:66`).
- `SurvivesRestart` excepts the chats in `odd`. A revert adds a prompt to the
  cache only, which is neither stored nor dispatched (`chats.rs:2321`), where the
  client means to "ask the assistant to undo" (`ChatPane.tsx:1270`); restore
  caches the chat without its prompts, which come back with the next restart
  (`chats.rs:886`); a retry or a turn on a chat that shares a prompt with its
  fork may flush the other's events (`chats.rs:567`); a fork of a chat whose
  numbers have a gap (a deletion failed) is numbered afresh; a send, retry or truncation that overlaps
  the copying of a fork is undone or half done by it.
- `RegistryMatches` excepts those in `clash`: a deletion that overlaps a restore
  leaves the chat live and not cached until the next restart, and a fork whose
  client goes away between its steps leaves its temporary id cached
  (`chats.rs:1388`).
- `Cadence` bounds the next run from below only. `mark_ran` advances a row that
  was edited since the list was read by one more interval (`schedules.rs:188`,
  against `schedule.rs:129`); and a PATCH with a null interval cannot make a
  schedule one-time, as serde reads null as absent (`schedules.rs:91`).
- `PollExact` ends at the first cut: later the length of a full history no
  longer grows and a poller gets nothing more (`terminal.rs:359`). No property
  says that the last output arrives before the exit notice: the exit poll
  flushes one chunk (`terminal.rs:626`).
- No property says that the stored events of a prompt only grow: `stop_turn`
  writes back the events it read before a turn that has just ended flushed its
  own (`chats.rs:1328`), against "so the turn survives a restart"
  (`chats.rs:2193`).
- `Attended` excepts the rows in `hung`: when the client of a delete goes away,
  the handler is dropped and the row says `removing` until the next start,
  where the code means that it "doesn't stay stuck in `removing` forever"
  (`worktrees.rs:560`).
- `RowsMatchDisk` speaks of histories without overlap. A delete or a cleanup
  that overlaps a restore leaves a live, ready row without its directory
  (`worktrees.rs:838`), though restore is ordered to "keep us from ever
  exposing a restored worktree whose path is missing" (`worktrees.rs:820`).
  Recovery turns `removing` into `ready` without a look at the disk
  (`agentgrove-store/src/worktree.rs:336`).
- `create` does not look at other rows' branches (`worktrees.rs:193`), which
  `calm` excludes: a failed row that bears another row's branch name, once
  renamed, moves that branch away. And the cleanup drops the branch "so a retry
  with the same name doesn't collide" (`worktrees.rs:145`), but the removed row
  keeps the path and the retry is answered 409 (`Create` needs a free path).

In the web client, likewise:

- `TimelineIsCanonical` speaks of timelines whose newest view was taken last and whose
  fetches succeeded. Reload and reconcile take answers in any order, and a
  failed one is not repeated until the next frame. Before everything has
  arrived a reconnect in the middle of a turn shows live text twice
  (the topic is replayed on top of it), a reconcile that comes before the answer to
  the POST shows the message twice, and a prompt of another client without events
  is shown as working until the next reload.
- A page of older prompts is put in front of whatever the timeline holds when it comes
  (`ChatPane.tsx:676`, `createChatSession.ts:161`). Prompts are on the screen twice, until the
  chat is next loaded, when the page was asked for before the timeline had come (a
  message just sent is its first prompt then, and scrolling up asks for what precedes it) or when
  it outlives a reload or a deletion of the prompt it was asked from: neither
  function looks at what is loaded, only at the chat that is open, and the mobile one not
  even at that. The property leaves such timelines out (`broken`).
- Answers to `send` and `loadOlder` of a chat that has been left are put into the
  timeline of the one that is open (`createChatSession.ts:213`), against the comment at
  `createChatSession.ts:92`; the properties speak of the open chat's prompts, and
  `TimelineIsCanonical` of a chat that was opened with no such answer to come.
- The server answers a stop with 204 in every case, so the branches for "404 = no
  in-flight turn" are never taken (`ChatPane.tsx:1239`, `createChatSession.ts:242`).
- A revert writes a prompt that no turn ever runs (`chats.rs:2322`,
  `ChatPane.tsx:1270`; `README.md:123` promises that the assistant is asked).
- A page of older prompts that fails leaves its anchor in place, and a reload takes the
  indicator away while a page is under way, so a page may be asked for twice
  (`StaysAsLeft` speaks of positions without an anchor).
- Review marks outlive a change of the file (`ChangesPanel.tsx:145`, against
  `ChangesPanel.tsx:33`); a diff that fails leaves a mark to be set by a later look; a mark
  set late is stored under the scope shown then (`ChangesPanel.tsx:184`).
- The worktree dialog waits for ever when the row it waits for is never listed
  (`WorktreeDialog.tsx:302`, against "not keep polling forever"); `VerdictIsTrue` speaks of
  what it says when it says something.
- A pane that is unmounted by a change of tabs stores its text as the draft of the chat that is
  active by then (`ChatPane.tsx:1034`), where "unsent text follows the chat the user
  expects to find it in" (`ChatPane.tsx:919`). `SentIsGone` speaks of sent texts.
- `saveDbConnections` reads the settings and puts them back whole, so that an edit made
  between the two is lost (`core/stores/db.ts:126`, against "aren't clobbered",
  `core/stores/db.ts:124`); the settings dialog does the same with what its page has. PUTs
  overtake each other, and one may bring back a theme that was deleted; a theme submitted
  twice becomes two. The list of providers outlives its tab, and one that is gone may
  still write it with an older answer (`SettingsModal.tsx:1010`, against "we never
  stale-serve once a new fetch lands", `SettingsModal.tsx:951`).
- The rail pairs a tool's start and end when it is mounted only (`ToolRail.tsx:274`); a
  removal that fails puts back the list of its start (`LeftRail.tsx:387`); two polls of the
  active chats that overlap announce a response that is not there (`App.tsx:253`).
- The two history dialogs and the panel of changes take their answers in any order
  (`NeverGoesBack` speaks of resources). `NewChatDialog.tsx:99` describes a choice that the
  code does not make.
- Back re-opens a chat's tab that was closed, as the entry names it.

### Fairness

`FairSpec` assumes strong fairness of each slot's own steps and of the guard
clears. The runtime polls every ready task; tokio's mutex serves its waiters in
order, so a slot that can take it again and again does take it (hence strong
rather than weak); a provider turn ends, by itself or because it is stopped.
Clients and faults are not fair. `BusyEnds` assumes that the user eventually
leaves the mode alone: a user who flips it for ever can keep a drain going.

`TopicStream`: a publisher goes from push to send without an await, and the
runtime polls a socket's task. `Terminal`: the threads run; the socket's loop is
polled; `select!` picks among ready branches at random, so the exit tick, which
stays ready, is not starved by output (strong fairness of `ExitTick`).
`Schedules`: the ticker is one task in a loop; its queries return. Clients, the
shell, the clock and faults are not fair anywhere.

## 4. Proofs

The theorems hold for every value of the constants: any sets of messages,
slots, sockets, publishers, schedules, editors, paths, branches, projects, chats and rows,
any sizes and bounds. Four of them have a hypothesis besides, named in the table and
explained below: it says which events of the environment the property is about.

| Theorem | Module | States |
|---|---|---|
| `TypeCorrect` | `ChatDispatch_proofs` | `Spec => [](TypeOK /\ CurInv)` |
| `TurnExclusion` | | `Spec => []OneTurnAtATime` |
| `PopExclusion` | | `Spec => []NoDoublePop` |
| `NeverLost` | | `Spec => []NothingLost` |
| `PromptedOnce` | | `Spec => []AtMostOncePlusFaults` |
| `NeverStranded` | | with `RowsRolledBack`: `Spec => []NoStrandedRunning` |
| `NeverLeaked` | | with `FlagKept`: `Spec => []FlagNotLeaked` |
| `NeverOvertaken` | | with `Orderly`: `Spec => []NoOvertaking` |
| `StreamHasNoGap` | `TopicStream_proofs` | `Spec => []NoGap` |
| `RingIsSuffix` | | `Spec => [](TypeOK /\ RingOK)` |
| `NeverRepeated` | | with `FewPublishers`: `Spec => []NoRepeats` |
| `TerminalHasNoGap` | `Terminal_proofs` | `Spec => []NoGap` |
| `PollsAreExact` | | `Spec => []PollExact` |
| `OneTimeOnce` | `Schedules_proofs` | `Spec => []OneRunPerArming` |
| `RecurringPaced` | | `Spec => []Cadence` |
| `MissedRunsFireOnce` | | `Spec => []CatchesUp` |
| `NoPileUpEver` | | `Spec => []NoPileUp` |
| `WorktreeTypes` | `Worktrees_proofs` | `Spec => []TypeOK` |
| `NoneLeftPassing` | | `Spec => []Attended` |
| `RowsAreTrue` | | `Spec => []RowsMatchDisk` |
| `WorkNeverLost` | | `Spec => []WorkIsKept` |
| `TypeCorrect` | `ChatStore_proofs` | `Spec => []TypeOK` |
| `ListMatchesTable` | | `Spec => []RegistryMatches` |
| `RestartShowsTheSame` | | `Spec => []SurvivesRestart` |
| `AddressIsTheView` | `Views_proofs` | `Spec => []UrlNamesTheView` |
| `HistoryIsFollowed` | | `Spec => BackShowsTheScope`, an action property |
| `AnswersStayInOrder` | | `Spec => NeverGoesBack`, that is, `Spec => LatestAnswer!Spec` |
| `WaitsForSomething` | | `Spec => []LoadingHasAReason` |
| `UsersViewStays` | | `Spec => []StaysAsLeft` |
| `StripsStaySound` | | `Spec => []StripsAreSound` |
| `NothingIsAskedTwice` | `Forms_proofs` | `Spec => []OneAtATime` |
| `VerdictsAreTrue` | | `Spec => []VerdictIsTrue` |
| `WaitsForAnAnswer` | | `Spec => []BusyHasAReason` |
| `ThemeIsThere` | | `Spec => []ThemeIsKnown` |
| `SentIsSentOnce` | | `Spec => []SentIsGone` |
| `SentStaysOnScreen` | | `Spec => SentStaysVisible`, an action property |

### ChatDispatch

The only assumption of the module is `ConstantsOK` (the messages are finite, `None` is
neither a message nor a slot, the bounds are naturals). Three properties are about
systems in which some events do not occur, since the code gives the property up on
exactly those (section 3); their theorems have that as a hypothesis on the sets
`Requests` and `Faults`:

| Hypothesis | What must not occur | Why | Run in which it holds |
|---|---|---|---|
| `RowsRolledBack` | panics and failing statements; and either `run_next` and `dispatch_item`, or deletions and dropped handlers | a popped row stays `running` when its task unwinds, when the rollback's own statement fails, or when a click's handler finds the chat gone | `live` |
| `FlagKept` | either `send` and what drops a click, or failing statements, dropped handlers and deletions | `send_message` sets the flag before its last early return | `live` |
| `Orderly` | besides: `add_prompt`, `dispatch_item`, and `send` next to `enqueue` | the first ignores the flag, the second picks from the middle, and `enqueue` takes no mutex, so that a send may see a queue that is not yet there | `live` |

- `TypeOK` is inductive with `CurInv`: a slot at an await that uses its message
  has one. Lemmas state what each way of moving a slot (`Go`, `GoWith`, `Loop`,
  `SpawnTurn`, `InsertPrompt`, `ResetPrompt`) preserves, and each action cites them.
- `OneTurnAtATime` needs `LockInv` (who stands in a mutex section is the
  mutex's holder) and `DecideInv` (a section entered with the flag clear still
  finds it clear): a handler that claims the flag in such a section is alone,
  since another owner that is not exposed would have the flag set. The three
  together (`Control`) are inductive.
- `NoDoublePop` needs `HeldRunning` (a popped row is running, so it cannot be
  popped again), and for that `SendInv` and `UnsentInv` (a message on its way
  to the queue has no row yet, so inserting it does not reset a held one);
  `SendInv` uses `LockInv`.
- `NothingLost` needs `InsertedInv`: a slot past its insert finds its message
  in the timeline, so deleting the queue row afterwards loses nothing. Nothing
  ever removes a prompt of this model from the timeline.
- `AtMostOncePlusFaults` follows from `CopyInv`: a message that may still become a
  prompt (it waits, or a slot is about to insert it) has at most as many prompts as
  there were faults, any other at most one more. Its new prompt spends that chance, and
  getting the chance back (a rollback after the insert) costs a fault. `CommitInv` rules
  out that a message committed to direct dispatch has a row as well, `HeldRunning` that two
  slots have one row.
- `NoStrandedRunning` needs `SlotInv` (a drain is not a direct turn, handlers nobody
  asks for are at no await, a chat that nobody deletes is there): each exit of a handler that
  holds a row then rolls it back or deletes it.
- `FlagNotLeaked` follows from `FlagInv`: a set flag has an owner or a pending clear.
- `NoOvertaking` needs that positions grow with the order of acceptance (`PosInv`), that
  what is still being sent was not accepted before (`FreshInv`), and what a slot knew when
  it took its message (`TurnOrder`): all that was accepted before it has left the queue, or
  there is a second owner, in which case one of the two is exposed.

### The others

- `TopicStream` (assumption `SizesOK`: the sizes are positive): `NoGap` is
  inductive with `RingOK`, the ring being exactly the last pushes. It gives the
  subscription's half (what is below the ring's first entry is below `base`);
  afterwards every message is in the ring's copy, in the channel beyond the
  cursor, or in a publisher's hands, and each step moves it from one to the next.
  `NoRepeats` is about a client that lags: it replays the ring, and must not then receive the
  same messages from the channel. The channel has each message once (`ChannelInv`), and a message
  is overtaken by fewer than there are publishers (`LateInv`), so when a receiver is lapped, all that
  the ring still had at its subscription has gone by (`OverrunForgets`). This takes
  `FewPublishers`: ring plus publishers fit in channel plus two. With the code's 512 and
  1024 that is up to 514 calls of `publish` between push and send at once; with more, TLC finds the
  property violated.
- `Terminal` (`SizesOK`): the same argument with `HistoryOK`; the snapshot alone
  establishes `NoGap`, and the receiver was taken before it. `PollExact` needs
  that the offset lies within the history (`SinceOK`) and that an uncut history
  is all that was read.
- `Schedules` (`ParametersOK`): the row properties need what a pending edit
  knows (`EditInv`: without a restart it keeps the timing it read, with one it
  counts from the time it read) and what the ticker's list promises (`DueInv`: a
  schedule is on it once, and a one-time one on it has not run since it was armed). With that, a run
  is never early (`Cadence`), and marking it leaves the next run after the present, however long
  the ticker slept (`CatchesUp`). `NoPileUp` needs that the ticker sends only from a check that saw no waiting copy, and that only the
  ticker adds copies while rollbacks are counted in `returned`.
- `Worktrees` (`ParametersOK`, `AbsentIsNoRequest`): `TypeOK` contains the
  conjuncts that make it inductive: who is at work on a path finds a row there,
  since rows are never deleted. It is split into parts (rows, tasks, requests,
  git, history), and each way of moving a task or a request, each statement and
  each run of git has a lemma about the part it disturbs. `Attended` is then
  inductive by itself: a status becomes passing only at the hands of the task or
  request that will set the next one, a task or request that ends has just set a
  final status or removed the row, and a request that is dropped is in `hung`.
  `RowsMatchDisk` and `WorkIsKept` share one invariant, `CalmInv`: in a history without overlaps
  no two rows bear or are about to bear a branch (`NamesApart`), and of each path it says, await by await,
  what its task or its only request knows of the row, the directory, git's registration and
  the branch (`Calm`). It is what a reader of the handlers takes for granted between two awaits.
- `ChatStore` (`ParametersOK`, `AbsentIsNothing`): `TypeOK`, with the numbers of a chat's prompts
  being unique, needs to know who holds an id that a row may still be made for (`IdsInv`), since a
  fork copies ids. `RegistryMatches` follows from `RegInv`: outside `clash` at most one
  request governs a chat's listing, and where it stands says which of cache and table list the
  chat. `SurvivesRestart` follows from `CalmInv`: a chat that is not in `odd` is either being
  forked by one request that nothing else touches (`Forked`: so far as it has copied, rows and cache
  agree), or plain (`Plain`): its ids are its own, its numbers ascend, each entry of the cache is backed by a row with
  the same content unless its turn, retry or truncation is at work on precisely that
  row. At rest, the rows read back in order are the cached list.

### Views and Forms

The invariant of a sum is the conjunction of its surfaces' (`ViewsInv`, `FormsInv`): a
step of one surface leaves the others' conjuncts true, since `surface` never changes. What
TLC checks on a small instance of the sum is therefore the very formula that is proved.
Requests are sets of records of which the proofs need only the fields a property reads.

- `RouteSync` (`RouteOK`: `None` is no project and no URL, each
  project has worktrees and each scope chats; `RouteInv`): the address bar names the view when
  the sync's mark `own` is either empty or the entry it stands at, since a step in the
  history that finds its own mark there does nothing. `MirrorIsExact` says that after any
  assignment the URL written is the one of the new selection; a chain of assignments
  therefore ends either where it began or with an exact URL, which is what each of the
  lemmas on `SetProject`, `SelectWorktree`, `EnsureChatTab`, `Validate` and
  `SelectTarget` adds a link to.
- `NeverGoesBack` (`BudgetsOK`: the budgets count; `DialogInv`, `TreeInv`, `DbInv`): each step leaves `asked` and
  `shown` alone, takes the answer to the newest request, or asks anew at a later time
  (`Moves`); the three are a stutter, a `Show` and an `Ask` of `LatestAnswer`. The clock is the
  budget, so what was asked lies before what is left of it. In the database a prefetch
  carries the token of its time, and no request has a newer one than the pane.
- `StripsAreSound` (`TabsOK`: `None` is no tab; `BudgetsOK`; `StripsInv`): each strip, in the store and as it was saved, is well formed (its
  focus is one of its tabs, which are distinct); what a `filter` keeps of a well-formed strip is one.
  Ids are given out in order, so an id in any strip, list or request lies above what is left to be made,
  and the new id of a restarted shell is nowhere yet. What a create brings belongs to the scope it was asked
  for unless that was left meanwhile (then it is in `strays`), and a list to the scope it was read for. No strip
  has a tab of the old database kind, so reading a stored layout drops nothing and what is
  stored equals what is shown.
- `LoadingHasAReason`: in `ChangesPanel` and `Database` each way out of a handler either resets the
  flag or makes a request of the kinds that will. For the database form (`TablesOK`) this needs
  that a request knows which handler it belongs to, and that what the form's handler starts is of the
  form's kinds (`DbRequest`).
- `BusyHasAReason`: the dock and the settings have the same with `Enables` and `Awaited`,
  where the answer that enables a button again may be the second of a chain. The indicator of
  older prompts waits for a request "older" of the pane that is mounted
  (`TimelineInv`); the frames of a burst leave it alone, by induction on the length of the burst.
- `StaysAsLeft` of the timeline (`HeightsOK`: heights are numbers; `ScrollInv`): the view lies within the
  content (`Clamped`), and where no anchor waits and the scroll bar was not dragged it is where the
  rule puts it (`Ruled`): at the end, or at the user's own place as far as there is content. Height,
  place and mode are changed by different events; those that disturb the rule enforce it.
  Of a fold (`RowInv`): signal and element differ only while a toggle event is still to
  come, and what the user wants is what the element shows. A click that unfolds finds the signal
  folded, or the automatic fold at the end of the turn has already been.
- `OneAtATime` (`RailOK`: `None` is no worktree): of the requests a form submits there is at most one, and while there
  is one, its flag is set. The rail's flag names the repository, the folder picker
  holds it over two requests (a new folder, then its listing).
- `VerdictIsTrue` (`StatusOK`; `WorktreeInv`): `was` remembers every status the row has had. Whatever a poll
  or the list brings was true when it was sent (`ListedInv`), a missing row included, and the dialog's verdict is
  one of those (`PhaseInv`); it polls only once its row has been made.
- `ThemeIsKnown` (`ThemesOK`: the default is built in, and custom themes have other names; `ThemesInv`): only
  custom themes are deleted, and the deletion's answer looks at the theme in use at that moment.
- `SentIsGone` (`ReplyOK`, `BudgetsOK`; `ComposerInv`): a text that is on its way or has arrived (`SentFrom`) is held by no
  part of its chat's composer, input, draft or timer; it is on its way once, and has not arrived while its
  request is unanswered or has failed, so that what a failure puts back was not received (`SentOnce`). A
  text is new when it is typed, by the budget that numbers texts (`TextsAreOld`), and one that the rail wants to put in is
  nowhere yet (`InjectedIsNew`). The exception is the property's own: a text that came back into the input because its
  send failed may be stored as the draft of the chat that is active by then (section 3,
  `ChatPane.tsx:1034`), and be sent from there and left here.
- `SentStaysVisible` (`WindowOK`, `BudgetsOK`; `MobileInv`): timelines are lists of prompts, and the sends under
  way have distinct placeholders, as their ids count on while `left.sends` counts down. An answer takes the placeholder of its own
  request and no other; a frame, and by induction a burst of them, keeps ids and texts at their
  places; a merge keeps the view, and of the local prompts those which the view has not made real, all
  within a window of the end. `KeepTail` therefore drops none of them as long as there is room, which the
  property asks for. The views, pages and answers have at most `Window` or `Page` prompts.

Induction. The library's induction theorems take an operator as a parameter and cannot be used, and the
built-in `SelectSeq` cannot be expanded. What a filter keeps or a burst of frames does is defined by recursive functions
over numbers (`Only` of `Filters`, `Flushed` of `ChatStream`), and a lemma about all of their values is proved
from the least number at which it would fail, which the well-foundedness of the naturals gives.

Model-checked only:

- `TimelineIsCanonical`. That a timeline ends up as the server's relates the whole history of a topic to what each
  fetch has returned (which deltas a view holds already, which are still to come, in which order), through two merges
  and a replay; an inductive invariant has to count the deltas of each prompt at every place they may be.
  It depends on the bounds as no proved property does: the run's timelines are short, so each
  shell's module was also searched alone, with more prompts, smaller views and up to eight requests,
  exhaustively or along 10^8 and more random states per instance. That search is where the exceptions of
  section 3 about pages come from; with them it finds nothing. One bound is the
  code's: a timeline at `MaxPrompts` drops the newest prompts, and the property asks for room.
- the liveness properties (`AutoDrains`, `BusyEnds`, `Delivers`, `ExitTold`, `DueIsServed`), which
  are outside the prover's reach: it has no rules for fairness and `ENABLED`.

Every safety property of the server that a run checks is proved.

## 5. Plan

The order in which the system was modelled: the core first, then the log bus and the
terminals that bring its output to a client, the schedules and worktrees that share the
database with it, the chat store, then the web client from the timeline outwards.
What is left, in this order:

1. the theorem on the timelines that is missing (`TimelineIsCanonical`);
2. in the server, the two statements of `enqueue` and the reordering of the queue against
   the pops (today `QueueDock` has the latter from the client's side), and the
   event loop inside a turn, with its silence watchdog and its cap.

## 6. Not modelled

In the server: parsers of agent output, git inspection, ticket services, settings, layout
and themes as documents, notes, team chat, database queries, authentication and uploads.
They convert data or store one document per request and keep no state that two actors race
on, or the state is another program's; what their clients make of the answers is in the
modules of the web client where it is stateful. Inside modelled components: the silence watchdog
and the cap on stored events of a turn, reordering and editing of queue rows on the server's
side, resizing a terminal, renaming a chat and its model. In the web client: the
galaxy map, the command palette, the editor, terminal, note and web panes, notifications, the memory
monitor, panel sizes, voice recognition beyond its start and end, and the channels between
pages (`crossTabs.ts`, `crossInstanceSync.ts`), whose effect on one page, lists that change under it, is an
environment action where a module looks at such a list. Layout, wording and styles are
abstracted throughout. `PROJECT.json` says so component by component.
