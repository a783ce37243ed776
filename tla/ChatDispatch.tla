---------------------------- MODULE ChatDispatch ----------------------------
(***************************************************************************)
(* How one chat routes, queues and runs its messages                       *)
(* (crates/agentgrove-api/src/chats.rs and queue.rs over the queue store). *)
(*                                                                         *)
(* The back end keeps, per chat, an entry in a process-wide set            *)
(* `dispatching` (here the Boolean flag), guarded by one async mutex       *)
(* (lock), a table of queue rows (item, pos), a mode, and the prompts of   *)
(* the timeline.  HTTP handlers and the tasks they spawn interleave at     *)
(* every await; a slot of Procs is one handler or one spawned task, and    *)
(* pc names the await it stands at.  A handler that ends by spawning a     *)
(* task hands its slot to the task, since the handler has then returned.   *)
(*                                                                         *)
(* Chats share nothing but the mutex, so one chat is modelled.  A handler  *)
(* that answers 404, 409 or 400 without having changed anything is no      *)
(* step.                                                                   *)
(***************************************************************************)
EXTENDS Naturals, Sequences, FiniteSets

CONSTANTS
  Msgs,            \* the messages users send; each is submitted once
  Procs,           \* slots for concurrent handlers and tasks
  Requests,        \* the kinds of request the clients issue
  Faults,          \* the kinds of fault the environment may inject
  MaxDisruptions,  \* bound on the number of faults and chat deletions
  MaxGuards,       \* bound on the number of guard clears not yet run
  None             \* neither a message nor a slot

RequestKinds == {"send", "add_prompt", "enqueue", "cancel", "set_mode",
                 "run_next", "dispatch_item", "retry", "stop",
                 "delete", "restore"}
FaultKinds   == {"crash", "panic", "disconnect", "db", "stale_session"}

ASSUME ConstantsOK ==
  /\ IsFiniteSet(Msgs)
  /\ None \notin Msgs /\ None \notin Procs
  /\ Requests \subseteq RequestKinds
  /\ Faults \subseteq FaultKinds
  /\ MaxDisruptions \in Nat
  /\ MaxGuards \in Nat

VARIABLES
  mode,        \* chat_queue_mode: "auto" or "manual"
  item,        \* queue_items: the status of each message's row
  pos,         \* queue_items.position of each row
  present,     \* the chat is live (cached, and not soft-deleted in the store)
  prompts,     \* the stored timeline, with what the cache still holds of it
  flag,        \* the chat is in AppState::dispatching
  lock,        \* the slot that holds the mutex around that set
  token,       \* cancel_tokens: the slot whose turn the map's token cancels
  tripped,     \* the slots whose turn's token has been cancelled
  pc, cur, at, \* per slot: its await, its message, its prompt's index
  direct,      \* the tasks still on the turn they were spawned for
  guards,      \* DispatchGuard drops whose spawned clear has not run yet
  reply,       \* what the sender of each message has been told
  accepted,    \* history: messages in the order the back end accepted them
  exposed,     \* history: owners whose flag another one removed or ignored
  disruptions  \* how much of the budget of faults is spent

chatVars  == <<mode, item, pos, present, prompts>>
procVars  == <<pc, cur, at, direct>>
ghostVars == <<reply, accepted, exposed, disruptions>>
vars == <<chatVars, flag, lock, token, tripped, procVars, guards, ghostVars>>

-----------------------------------------------------------------------------
(* The awaits a slot can stand at. *)

\* Inside a section that holds the mutex, entered with the flag clear.
DecidePCs == {"sendIdle", "park", "parkMode", "runPop", "runPick", "runAdd",
              "runIngest", "retryGo", "kickMode", "kickPend"}
\* Inside such a section, with the flag already set by its own handler.
CommitPCs == {"commit", "commitIngest"}
\* Past the section: the handler or task that owns the chat's turn.
TaskPCs   == {"turn", "stream", "flush", "reset", "drain", "pop", "popped",
              "add", "ingest", "done", "clear", "clearMode"}
OwnerPCs  == CommitPCs \cup TaskPCs
LockPCs   == DecidePCs \cup CommitPCs \cup
             {"sendBusy", "legacyIngest", "clearMode"}
\* Handlers outside such a section.
StopPCs   == {"kick", "stopTail", "stopWrite", "stopForce"}
PCs == {"idle"} \cup TaskPCs \cup LockPCs \cup StopPCs

Positions == 0 .. Cardinality(Msgs)
Prompt == [msg : Msgs, events : {"none", "full", "error"}, cached : BOOLEAN]

StoreTypes ==
  /\ mode \in {"auto", "manual"}
  /\ item \in [Msgs -> {"none", "pending", "running"}]
  /\ pos \in [Msgs -> Positions]
  /\ present \in BOOLEAN
  /\ prompts \in Seq(Prompt)

BusyTypes ==
  /\ flag \in BOOLEAN
  /\ lock \in Procs \cup {None}
  /\ token \in Procs \cup {None}
  /\ tripped \subseteq Procs
  /\ guards \in Nat

ProcTypes ==
  /\ pc \in [Procs -> PCs]
  /\ cur \in [Procs -> Msgs \cup {None}]
  /\ at \in [Procs -> Nat]
  /\ direct \subseteq Procs

HistoryTypes ==
  /\ reply \in [Msgs -> {"unsent", "open", "ok", "failed", "cancelled"}]
  /\ accepted \in Seq(Msgs)
  /\ exposed \subseteq Procs
  /\ disruptions \in Nat

\* The type of every variable.
TypeOK == StoreTypes /\ BusyTypes /\ ProcTypes /\ HistoryTypes

Init ==
  /\ mode = "manual"
  /\ item = [m \in Msgs |-> "none"]
  /\ pos = [m \in Msgs |-> 0]
  /\ present = TRUE
  /\ prompts = <<>>
  /\ flag = FALSE
  /\ lock = None
  /\ token = None
  /\ tripped = {}
  /\ pc = [p \in Procs |-> "idle"]
  /\ cur = [p \in Procs |-> None]
  /\ at = [p \in Procs |-> 0]
  /\ direct = {}
  /\ guards = 0
  /\ reply = [m \in Msgs |-> "unsent"]
  /\ accepted = <<>>
  /\ exposed = {}
  /\ disruptions = 0

-----------------------------------------------------------------------------
(* The queue store. *)

Rows    == {m \in Msgs : item[m] # "none"}
Pending == {m \in Msgs : item[m] = "pending"}
Heads   == {m \in Pending : \A n \in Pending : pos[m] <= pos[n]}

\* SELECT COALESCE(MAX(position), -1) + 1, then INSERT ... 'pending'.
EnqueueRow(m) ==
  \E n \in Positions :
    /\ \A r \in Rows : pos[r] < n
    /\ n = 0 \/ \E r \in Rows : pos[r] + 1 = n
    /\ pos' = [pos EXCEPT ![m] = n]
    /\ item' = [item EXCEPT ![m] = "pending"]

SetItem(m, status) ==
  /\ item' = [item EXCEPT ![m] = status]
  /\ UNCHANGED pos

-----------------------------------------------------------------------------
(* Moving a slot.  Go keeps its message, Finish ends the handler or task.  *)

\* run_next and dispatch_item still have their client at "done"; a drain has not.
Handler(p) == \/ pc[p] \in (LockPCs \cup StopPCs) \ {"clearMode"}
              \/ pc[p] = "done" /\ p \in direct
Owner(p) == pc[p] \in OwnerPCs
Owners   == {p \in Procs : Owner(p)}

Go(p, l) == pc' = [pc EXCEPT ![p] = l] /\ UNCHANGED <<cur, at, direct>>

GoWith(p, l, m) ==
  /\ pc' = [pc EXCEPT ![p] = l]
  /\ cur' = [cur EXCEPT ![p] = m]
  /\ UNCHANGED <<at, direct>>

\* At the top or the end of the drain loop, with no message in hand.
Loop(p, l) ==
  /\ pc' = [pc EXCEPT ![p] = l]
  /\ cur' = [cur EXCEPT ![p] = None]
  /\ at' = [at EXCEPT ![p] = 0]
  /\ direct' = direct \ {p}

Finish(p) == Loop(p, "idle")

\* spawn_dispatch_task: the slot becomes the task of a direct turn.
SpawnTurn(p, l) ==
  /\ pc' = [pc EXCEPT ![p] = l]
  /\ direct' = direct \cup {p}
  /\ UNCHANGED <<cur, at>>

\* dispatching.insert by p; dispatching.remove, which leaves every owner
\* but those in gone without its flag.
Claim(p)      == flag' = TRUE /\ exposed' = exposed \ {p}
Unclaim(gone) == flag' = FALSE /\ exposed' = Owners \ gone

Acquire(p) == lock = None /\ lock' = p
Release(p) == lock' = None
Reply(m, r) == reply' = [reply EXCEPT ![m] = r]

\* A message's prompt row is inserted at the end of the stored timeline...
InsertPrompt(p, m, l) ==
  /\ prompts' = Append(prompts, [msg |-> m, events |-> "none", cached |-> FALSE])
  /\ pc' = [pc EXCEPT ![p] = l]
  /\ at' = [at EXCEPT ![p] = Len(prompts) + 1]
  /\ UNCHANGED <<cur, direct>>

\* ...and then pushed onto the cached chat, if the chat is still cached.
IngestPrompt(p) == prompts' = [prompts EXCEPT ![at[p]].cached = TRUE]

Spend(kind) ==
  /\ kind \in Faults
  /\ disruptions < MaxDisruptions
  /\ disruptions' = disruptions + 1

-----------------------------------------------------------------------------
(* POST /messages: send_message.                                           *)

\* Take the mutex, look the chat up, read the flag.
SendMessage(p, m) ==
  /\ "send" \in Requests
  /\ pc[p] = "idle" /\ reply[m] = "unsent"
  /\ lock = None
  /\ \/ /\ ~present
        /\ Reply(m, "failed")
        /\ UNCHANGED <<lock, procVars>>
     \/ /\ present
        /\ Acquire(p)
        /\ Reply(m, "open")
        /\ GoWith(p, IF flag THEN "sendBusy" ELSE "sendIdle", m)
  /\ UNCHANGED <<chatVars, flag, token, tripped, guards,
                 accepted, exposed, disruptions>>

\* A busy chat: park the message; the running task drains it.
SendBusy(p) ==
  /\ pc[p] = "sendBusy"
  /\ EnqueueRow(cur[p])
  /\ Reply(cur[p], "ok")
  /\ accepted' = Append(accepted, cur[p])
  /\ Release(p) /\ Finish(p)
  /\ UNCHANGED <<mode, present, prompts, flag, token, tripped, guards,
                 exposed, disruptions>>

\* Mutant: an idle chat dispatches directly whatever is still queued.
SendDecideDirect(p) ==
  /\ pc[p] = "sendIdle"
  /\ Go(p, "commit") /\ Claim(p)
  /\ UNCHANGED <<chatVars, lock, token, tripped, guards, reply, accepted,
                 disruptions>>

\* An idle chat: older pending rows go first, else commit to dispatching.
SendDecide(p) ==
  /\ pc[p] = "sendIdle"
  /\ \/ Pending # {} /\ Go(p, "park") /\ UNCHANGED <<flag, exposed>>
     \/ Pending = {} /\ Go(p, "commit") /\ Claim(p)
  /\ UNCHANGED <<chatVars, lock, token, tripped, guards, reply, accepted,
                 disruptions>>

SendPark(p) ==
  /\ pc[p] = "park"
  /\ EnqueueRow(cur[p])
  /\ Reply(cur[p], "ok")
  /\ accepted' = Append(accepted, cur[p])
  /\ Go(p, "parkMode")
  /\ UNCHANGED <<mode, present, prompts, flag, lock, token, tripped, guards,
                 exposed, disruptions>>

\* In auto mode the sender also kicks a drain, still under the mutex.
SendParkMode(p) ==
  /\ pc[p] = "parkMode"
  /\ Release(p)
  /\ \/ mode = "auto" /\ Claim(p) /\ Loop(p, "drain")
     \/ mode = "manual" /\ Finish(p) /\ UNCHANGED <<flag, exposed>>
  /\ UNCHANGED <<chatVars, token, tripped, guards, reply, accepted,
                 disruptions>>

\* Direct dispatch: fetch the chat again and insert the prompt row.  An
\* early return drops the mutex guard but leaves the flag set.
SendCommit(p) ==
  /\ pc[p] = "commit"
  /\ \/ /\ present
        /\ InsertPrompt(p, cur[p], "commitIngest")
        /\ accepted' = Append(accepted, cur[p])
        /\ UNCHANGED <<lock, reply, disruptions>>
     \/ /\ \/ ~present /\ UNCHANGED disruptions
           \/ present /\ Spend("db")
        /\ Release(p) /\ Finish(p)
        /\ Reply(cur[p], "failed")
        /\ UNCHANGED <<prompts, accepted>>
  /\ UNCHANGED <<mode, item, pos, present, flag, token, tripped, guards,
                 exposed>>

SendIngest(p) ==
  /\ pc[p] = "commitIngest"
  /\ Release(p)
  /\ \/ /\ present
        /\ IngestPrompt(p)
        /\ Reply(cur[p], "ok")
        /\ SpawnTurn(p, "turn")
     \/ /\ ~present
        /\ Reply(cur[p], "failed")
        /\ Finish(p)
        /\ UNCHANGED prompts
  /\ UNCHANGED <<mode, item, pos, present, flag, token, tripped, guards,
                 accepted, exposed, disruptions>>

-----------------------------------------------------------------------------
(* POST /prompts: the legacy add_prompt, which never reads the flag.       *)

AddPrompt(p, m) ==
  /\ "add_prompt" \in Requests
  /\ pc[p] = "idle" /\ reply[m] = "unsent"
  /\ present
  /\ Acquire(p)
  /\ Reply(m, "open")
  /\ prompts' = Append(prompts, [msg |-> m, events |-> "none", cached |-> FALSE])
  /\ pc' = [pc EXCEPT ![p] = "legacyIngest"]
  /\ cur' = [cur EXCEPT ![p] = m]
  /\ at' = [at EXCEPT ![p] = Len(prompts) + 1]
  /\ accepted' = Append(accepted, m)
  /\ UNCHANGED <<mode, item, pos, present, flag, token, tripped, direct,
                 guards, exposed, disruptions>>

LegacyIngest(p) ==
  /\ pc[p] = "legacyIngest"
  /\ Release(p)
  /\ \/ /\ present
        /\ IngestPrompt(p)
        /\ Reply(cur[p], "ok")
        /\ flag' = TRUE
        /\ exposed' = Owners
        /\ SpawnTurn(p, "turn")
     \/ /\ ~present
        /\ Reply(cur[p], "failed")
        /\ Finish(p)
        /\ UNCHANGED <<prompts, flag, exposed>>
  /\ UNCHANGED <<mode, item, pos, present, token, tripped, guards,
                 accepted, disruptions>>

-----------------------------------------------------------------------------
(* Queue routes that take no mutex: enqueue, cancel, and set_mode's write. *)

Enqueue(m) ==
  /\ "enqueue" \in Requests
  /\ reply[m] = "unsent"
  /\ EnqueueRow(m)
  /\ Reply(m, "ok")
  /\ accepted' = Append(accepted, m)
  /\ UNCHANGED <<mode, present, prompts, flag, lock, token, tripped, procVars,
                 guards, exposed, disruptions>>

Cancel(m) ==
  /\ "cancel" \in Requests
  /\ item[m] = "pending"
  /\ SetItem(m, "none")
  /\ Reply(m, "cancelled")
  /\ UNCHANGED <<mode, present, prompts, flag, lock, token, tripped, procVars,
                 guards, accepted, exposed, disruptions>>

SetMode(p, md) ==
  /\ "set_mode" \in Requests
  /\ pc[p] = "idle"
  /\ mode' = md
  /\ Go(p, IF md = "auto" THEN "kick" ELSE "idle")
  /\ UNCHANGED <<item, pos, present, prompts, flag, lock, token, tripped,
                 guards, ghostVars>>

\* kick_drain_if_idle: busy, manual and empty return; else claim the flag.
Kick(p) ==
  /\ pc[p] = "kick"
  /\ lock = None
  /\ \/ flag /\ Finish(p) /\ UNCHANGED lock
     \/ ~flag /\ Acquire(p) /\ Go(p, "kickMode")
  /\ UNCHANGED <<chatVars, flag, token, tripped, guards, ghostVars>>

KickMode(p) ==
  /\ pc[p] = "kickMode"
  /\ \/ mode = "auto" /\ Go(p, "kickPend") /\ UNCHANGED lock
     \/ mode = "manual" /\ Release(p) /\ Finish(p)
  /\ UNCHANGED <<chatVars, flag, token, tripped, guards, ghostVars>>

\* Mutant: the flag is claimed before the queue is found empty.
KickPendEarly(p) ==
  /\ pc[p] = "kickPend"
  /\ Release(p) /\ Claim(p)
  /\ Loop(p, IF Pending # {} THEN "drain" ELSE "idle")
  /\ UNCHANGED <<chatVars, token, tripped, guards, reply, accepted,
                 disruptions>>


KickPend(p) ==
  /\ pc[p] = "kickPend"
  /\ Release(p)
  /\ \/ Pending # {} /\ Claim(p) /\ Loop(p, "drain")
     \/ Pending = {} /\ Finish(p) /\ UNCHANGED <<flag, exposed>>
  /\ UNCHANGED <<chatVars, token, tripped, guards, reply, accepted,
                 disruptions>>

-----------------------------------------------------------------------------
(* run_next and dispatch_item: 409 when busy, else pop under the mutex.    *)

\* Mutant: no 409 on a busy chat.
RunNextBusy(p) ==
  /\ "run_next" \in Requests
  /\ pc[p] = "idle"
  /\ Acquire(p) /\ Go(p, "runPop")
  /\ UNCHANGED <<chatVars, flag, token, tripped, guards, ghostVars>>


RunNext(p) ==
  /\ "run_next" \in Requests
  /\ pc[p] = "idle"
  /\ ~flag
  /\ Acquire(p) /\ Go(p, "runPop")
  /\ UNCHANGED <<chatVars, flag, token, tripped, guards, ghostVars>>

\* Mutant: an empty queue does not end the handler.
RunPopEmpty(p) ==
  /\ pc[p] = "runPop"
  /\ \/ \E m \in Heads : SetItem(m, "running") /\ GoWith(p, "runAdd", m)
     \/ Pending = {} /\ GoWith(p, "runAdd", None) /\ UNCHANGED <<item, pos>>
  /\ UNCHANGED <<mode, present, prompts, flag, lock, token, tripped, guards,
                 ghostVars>>


RunPop(p) ==
  /\ pc[p] = "runPop"
  /\ \/ \E m \in Heads :
          SetItem(m, "running") /\ GoWith(p, "runAdd", m) /\ UNCHANGED lock
     \/ Pending = {} /\ Release(p) /\ Finish(p) /\ UNCHANGED <<item, pos>>
  /\ UNCHANGED <<mode, present, prompts, flag, token, tripped, guards,
                 ghostVars>>

DispatchItem(p, m) ==
  /\ "dispatch_item" \in Requests
  /\ pc[p] = "idle"
  /\ item[m] # "none"
  /\ ~flag
  /\ Acquire(p) /\ GoWith(p, "runPick", m)
  /\ UNCHANGED <<chatVars, flag, token, tripped, guards, ghostVars>>

\* Mutant: the update does not insist on a pending row.
RunPickAny(p) ==
  /\ pc[p] = "runPick"
  /\ SetItem(cur[p], "running")
  /\ Go(p, "runAdd")
  /\ UNCHANGED <<mode, present, prompts, flag, lock, token, tripped, guards,
                 ghostVars>>


RunPick(p) ==
  /\ pc[p] = "runPick"
  /\ \/ /\ item[cur[p]] = "pending"
        /\ SetItem(cur[p], "running")
        /\ Go(p, "runAdd") /\ UNCHANGED lock
     \/ /\ item[cur[p]] # "pending"
        /\ Release(p) /\ Finish(p) /\ UNCHANGED <<item, pos>>
  /\ UNCHANGED <<mode, present, prompts, flag, token, tripped, guards,
                 ghostVars>>

\* Neither early return rolls the popped row back.
RunAdd(p) ==
  /\ pc[p] = "runAdd"
  /\ \/ /\ present
        /\ InsertPrompt(p, cur[p], "runIngest")
        /\ UNCHANGED <<lock, disruptions>>
     \/ /\ \/ ~present /\ UNCHANGED disruptions
           \/ present /\ Spend("db")
        /\ Release(p) /\ Finish(p) /\ UNCHANGED prompts
  /\ UNCHANGED <<mode, item, pos, present, flag, token, tripped, guards,
                 reply, accepted, exposed>>

RunIngest(p) ==
  /\ pc[p] = "runIngest"
  /\ Release(p)
  /\ \/ present /\ IngestPrompt(p) /\ Claim(p) /\ SpawnTurn(p, "done")
     \/ ~present /\ Finish(p) /\ UNCHANGED <<prompts, flag, exposed>>
  /\ UNCHANGED <<mode, item, pos, present, token, tripped, guards, reply,
                 accepted, disruptions>>

-----------------------------------------------------------------------------
(* retry_chat: clear the last cached prompt and dispatch it again.         *)

LastCached(i) ==
  /\ i \in DOMAIN prompts /\ prompts[i].cached
  /\ \A j \in DOMAIN prompts : prompts[j].cached => j <= i

ResetPrompt(p, i, l) ==
  /\ prompts' = [prompts EXCEPT ![i].events = "none"]
  /\ pc' = [pc EXCEPT ![p] = l]
  /\ cur' = [cur EXCEPT ![p] = prompts[i].msg]
  /\ at' = [at EXCEPT ![p] = i]

RetryChat(p) ==
  /\ "retry" \in Requests
  /\ pc[p] = "idle"
  /\ present /\ ~flag
  /\ Acquire(p)
  /\ \E i \in DOMAIN prompts : LastCached(i) /\ ResetPrompt(p, i, "retryGo")
  /\ UNCHANGED <<mode, item, pos, present, flag, token, tripped, direct,
                 guards, ghostVars>>

RetryGo(p) ==
  /\ pc[p] = "retryGo"
  /\ Release(p)
  /\ \/ present /\ Claim(p) /\ SpawnTurn(p, "turn")
     \/ ~present /\ Finish(p) /\ UNCHANGED <<flag, exposed>>
  /\ UNCHANGED <<chatVars, token, tripped, guards, reply, accepted,
                 disruptions>>

-----------------------------------------------------------------------------
(* stop_turn: trip the token if there is one; else close a prompt that has *)
(* no terminal event; else force the flag off.  Then kick the queue.       *)

StopTurn(p) ==
  /\ "stop" \in Requests
  /\ pc[p] = "idle"
  /\ \/ token # None /\ tripped' = tripped \cup {token} /\ Go(p, "kick")
     \/ token = None /\ UNCHANGED tripped /\ Go(p, "stopTail")
  /\ UNCHANGED <<chatVars, flag, lock, token, guards, ghostVars>>

TailUnfinished == prompts # <<>> /\ prompts[Len(prompts)].events = "none"

StopTail(p) ==
  /\ pc[p] = "stopTail"
  /\ \/ /\ TailUnfinished
        /\ pc' = [pc EXCEPT ![p] = "stopWrite"]
        /\ at' = [at EXCEPT ![p] = Len(prompts)]
        /\ UNCHANGED <<cur, direct>>
     \/ ~TailUnfinished /\ Go(p, "stopForce")
  /\ UNCHANGED <<chatVars, flag, lock, token, tripped, guards, ghostVars>>

\* The events read at stopTail, with an error appended, are written back;
\* this path returns without touching the flag or the queue.
StopWrite(p) ==
  /\ pc[p] = "stopWrite"
  /\ prompts' = [prompts EXCEPT ![at[p]].events = "error"]
  /\ Finish(p)
  /\ UNCHANGED <<mode, item, pos, present, flag, lock, token, tripped, guards,
                 ghostVars>>

StopForce(p) ==
  /\ pc[p] = "stopForce"
  /\ lock = None
  /\ Unclaim({})
  /\ Go(p, "kick")
  /\ UNCHANGED <<chatVars, lock, token, tripped, guards, reply, accepted,
                 disruptions>>

-----------------------------------------------------------------------------
(* A turn: dispatch_via_provider, or dispatch_echo without a provider.     *)

\* Install a fresh token under the chat's key, replacing whatever is there.
TurnStart(p) ==
  /\ pc[p] = "turn"
  /\ token' = p
  /\ tripped' = tripped \ {p}
  /\ Go(p, "stream")
  /\ UNCHANGED <<chatVars, flag, lock, guards, ghostVars>>

TurnEcho(p) ==
  /\ pc[p] = "turn"
  /\ Go(p, "flush")
  /\ UNCHANGED <<chatVars, flag, lock, token, tripped, guards, ghostVars>>

\* The provider finished, failed, or lost the race to its tripped token.
\* The chat's entry is removed whoever installed it.
TurnEnd(p) ==
  /\ pc[p] = "stream"
  /\ token' = None
  /\ tripped' = tripped \ {p}
  /\ Go(p, "flush")
  /\ UNCHANGED <<chatVars, flag, lock, guards, ghostVars>>

\* persist_prompt_events: write what the cache holds, if it holds the prompt.
Flushed(p) ==
  IF present /\ prompts[at[p]].cached
  THEN prompts' = [prompts EXCEPT ![at[p]].events = "full"]
  ELSE UNCHANGED prompts

TurnFlush(p) ==
  /\ pc[p] = "flush"
  /\ Flushed(p)
  /\ Loop(p, "drain")
  /\ UNCHANGED <<mode, item, pos, present, flag, lock, token, tripped, guards,
                 ghostVars>>

\* A stale resume token: the direct turn is retried once on a new session.
TurnStale(p) ==
  /\ pc[p] = "flush" /\ p \in direct
  /\ Spend("stale_session")
  /\ Flushed(p)
  /\ Go(p, "reset")
  /\ UNCHANGED <<mode, item, pos, present, flag, lock, token, tripped, guards,
                 reply, accepted, exposed>>

\* retry_prompt picks the last cached prompt of the chat, not the turn's own.
TurnReset(p) ==
  /\ pc[p] = "reset"
  /\ \/ /\ \E i \in DOMAIN prompts : LastCached(i) /\ ResetPrompt(p, i, "turn")
        /\ direct' = direct \ {p}
     \/ /\ ~ \E i \in DOMAIN prompts : LastCached(i)
        /\ Loop(p, "drain")
        /\ UNCHANGED prompts
  /\ UNCHANGED <<mode, item, pos, present, flag, lock, token, tripped, guards,
                 ghostVars>>

-----------------------------------------------------------------------------
(* drain_until_idle, drain_loop and clear_dispatching.                     *)

DrainCheck(p) ==
  /\ pc[p] = "drain"
  /\ Go(p, IF mode = "auto" THEN "pop" ELSE "clear")
  /\ UNCHANGED <<chatVars, flag, lock, token, tripped, guards, ghostVars>>

DrainPop(p) ==
  /\ pc[p] = "pop"
  /\ \/ \E m \in Heads : SetItem(m, "running") /\ GoWith(p, "popped", m)
     \/ Pending = {} /\ Go(p, "clear") /\ UNCHANGED <<item, pos>>
  /\ UNCHANGED <<mode, present, prompts, flag, lock, token, tripped, guards,
                 ghostVars>>

\* Mutant: the early exit on manual mode does not roll the row back.
DrainRecheckStrands(p) ==
  /\ pc[p] = "popped"
  /\ \/ mode = "auto" /\ Go(p, "add")
     \/ mode = "manual" /\ Loop(p, "clear")
  /\ UNCHANGED <<chatVars, flag, lock, token, tripped, guards, ghostVars>>

\* Manual mode since the pop: roll the row back and leave the loop.
DrainRecheck(p) ==
  /\ pc[p] = "popped"
  /\ \/ mode = "auto" /\ Go(p, "add") /\ UNCHANGED <<item, pos>>
     \/ mode = "manual" /\ SetItem(cur[p], "pending") /\ Loop(p, "clear")
  /\ UNCHANGED <<mode, present, prompts, flag, lock, token, tripped, guards,
                 ghostVars>>

\* Mutant: a row whose prompt cannot be inserted is deleted.
DrainAddDrops(p) ==
  /\ pc[p] = "add"
  /\ \/ /\ present
        /\ InsertPrompt(p, cur[p], "ingest")
        /\ UNCHANGED <<item, pos, disruptions>>
     \/ /\ \/ ~present /\ UNCHANGED disruptions
           \/ present /\ Spend("db")
        /\ SetItem(cur[p], "none")
        /\ Loop(p, "clear") /\ UNCHANGED prompts
  /\ UNCHANGED <<mode, present, flag, lock, token, tripped, guards,
                 reply, accepted, exposed>>


DrainAdd(p) ==
  /\ pc[p] = "add"
  /\ \/ /\ present
        /\ InsertPrompt(p, cur[p], "ingest")
        /\ UNCHANGED <<item, pos, disruptions>>
     \/ /\ \/ ~present /\ UNCHANGED disruptions
           \/ present /\ Spend("db")
        /\ SetItem(cur[p], "pending")
        /\ Loop(p, "clear") /\ UNCHANGED prompts
  /\ UNCHANGED <<mode, present, flag, lock, token, tripped, guards,
                 reply, accepted, exposed>>

DrainIngest(p) ==
  /\ pc[p] = "ingest"
  /\ \/ present /\ IngestPrompt(p) /\ Go(p, "done") /\ UNCHANGED <<item, pos>>
     \/ /\ ~present
        /\ SetItem(cur[p], "pending")
        /\ Loop(p, "clear") /\ UNCHANGED prompts
  /\ UNCHANGED <<mode, present, flag, lock, token, tripped, guards, ghostVars>>

\* Mutant: a dispatched row goes back to the queue.
MarkDoneRequeues(p) ==
  /\ pc[p] = "done"
  /\ SetItem(cur[p], "pending")
  /\ Go(p, "turn")
  /\ UNCHANGED <<mode, present, prompts, flag, lock, token, tripped, guards,
                 ghostVars>>

\* mark_done deletes the row; a failed delete is only logged.
MarkDone(p) ==
  /\ pc[p] = "done"
  /\ \/ SetItem(cur[p], "none") /\ UNCHANGED disruptions
     \/ Spend("db") /\ UNCHANGED <<item, pos>>
  /\ Go(p, "turn")
  /\ UNCHANGED <<mode, present, prompts, flag, lock, token, tripped, guards,
                 reply, accepted, exposed>>

\* The flag goes, the guard is dropped, and the guard's own clear is spawned.
ReleaseTurn(p) ==
  /\ Unclaim({p})
  /\ lock' = None
  /\ guards' = guards + 1
  /\ Finish(p)

\* Mutant: the queue is not looked at again under the mutex.
ClearDispatchingBlind(p) ==
  /\ pc[p] = "clear"
  /\ lock = None
  /\ guards < MaxGuards
  /\ ReleaseTurn(p)
  /\ UNCHANGED <<chatVars, token, tripped, reply, accepted, disruptions>>


ClearDispatching(p) ==
  /\ pc[p] = "clear"
  /\ lock = None
  /\ guards < MaxGuards
  /\ \/ Pending = {} /\ ReleaseTurn(p)
     \/ Pending # {} /\ Acquire(p) /\ Go(p, "clearMode")
        /\ UNCHANGED <<flag, guards, exposed>>
  /\ UNCHANGED <<chatVars, token, tripped, reply, accepted, disruptions>>

\* Mutant: pending rows restart the drain in either mode.
ClearModeEither(p) ==
  /\ pc[p] = "clearMode"
  /\ Release(p) /\ Go(p, "drain")
  /\ UNCHANGED <<chatVars, flag, guards, exposed, token, tripped, reply,
                 accepted, disruptions>>


ClearMode(p) ==
  /\ pc[p] = "clearMode"
  /\ \/ mode = "auto" /\ Release(p) /\ Go(p, "drain")
        /\ UNCHANGED <<flag, guards, exposed>>
     \/ mode = "manual" /\ ReleaseTurn(p)
  /\ UNCHANGED <<chatVars, token, tripped, reply, accepted, disruptions>>

\* The task spawned by DispatchGuard::drop: an unconditional remove.
GuardClear ==
  /\ guards > 0
  /\ lock = None
  /\ guards' = guards - 1
  /\ Unclaim({})
  /\ UNCHANGED <<chatVars, lock, token, tripped, procVars, reply, accepted,
                 disruptions>>

-----------------------------------------------------------------------------
(* DELETE /chats/:id, restore, and the faults.                             *)

\* Soft-delete: the row stays, the cache entry goes; nothing else is told.
DeleteChat ==
  /\ "delete" \in Requests
  /\ present
  /\ disruptions < MaxDisruptions /\ disruptions' = disruptions + 1
  /\ present' = FALSE
  /\ prompts' = [i \in DOMAIN prompts |-> [prompts[i] EXCEPT !.cached = FALSE]]
  /\ UNCHANGED <<mode, item, pos, flag, lock, token, tripped, procVars, guards,
                 reply, accepted, exposed>>

\* The restored chat is cached with no prompts.
RestoreChat ==
  /\ "restore" \in Requests
  /\ ~present
  /\ present' = TRUE
  /\ UNCHANGED <<mode, item, pos, prompts, flag, lock, token, tripped,
                 procVars, guards, ghostVars>>

\* A task unwinds: its guard's clear is spawned, its mutex guard is dropped.
Panic(p) ==
  /\ pc[p] \in TaskPCs /\ ~Handler(p)
  /\ guards + 1 < MaxGuards
  /\ Spend("panic")
  /\ lock' = IF lock = p THEN None ELSE lock
  /\ guards' = guards + 1
  /\ Finish(p)
  /\ UNCHANGED <<chatVars, flag, token, tripped, reply, accepted, exposed>>

\* The client goes away: axum drops the handler's future where it stands.
Disconnect(p) ==
  /\ Handler(p)
  /\ Spend("disconnect")
  /\ lock' = IF lock = p THEN None ELSE lock
  /\ reply' = [m \in Msgs |-> IF m = cur[p] /\ reply[m] = "open"
                              THEN "failed" ELSE reply[m]]
  /\ Finish(p)
  /\ UNCHANGED <<chatVars, flag, token, tripped, guards, accepted, exposed>>

\* The process dies and starts again: running rows are rolled back, live
\* chats are hydrated with all their prompts, everything in memory is new.
Crash ==
  /\ Spend("crash")
  /\ item' = [m \in Msgs |-> IF item[m] = "running" THEN "pending" ELSE item[m]]
  /\ prompts' = [i \in DOMAIN prompts |-> [prompts[i] EXCEPT !.cached = present]]
  /\ flag' = FALSE /\ lock' = None /\ token' = None /\ tripped' = {}
  /\ pc' = [p \in Procs |-> "idle"]
  /\ cur' = [p \in Procs |-> None]
  /\ at' = [p \in Procs |-> 0]
  /\ direct' = {}
  /\ guards' = 0
  /\ exposed' = {}
  /\ reply' = [m \in Msgs |-> IF reply[m] = "open" THEN "failed" ELSE reply[m]]
  /\ UNCHANGED <<mode, pos, present, accepted>>

-----------------------------------------------------------------------------

HandlerStep(p) ==
  \/ SendBusy(p) \/ SendDecide(p) \/ SendPark(p) \/ SendParkMode(p)
  \/ SendCommit(p) \/ SendIngest(p) \/ LegacyIngest(p)
  \/ Kick(p) \/ KickMode(p) \/ KickPend(p)
  \/ RunPop(p) \/ RunPick(p) \/ RunAdd(p) \/ RunIngest(p) \/ RetryGo(p)
  \/ StopTail(p) \/ StopWrite(p) \/ StopForce(p)

TaskStep(p) ==
  \/ TurnStart(p) \/ TurnEcho(p) \/ TurnEnd(p) \/ TurnFlush(p)
  \/ TurnStale(p) \/ TurnReset(p)
  \/ DrainCheck(p) \/ DrainPop(p) \/ DrainRecheck(p) \/ DrainAdd(p)
  \/ DrainIngest(p) \/ MarkDone(p) \/ ClearDispatching(p) \/ ClearMode(p)

ClientStep ==
  \/ \E p \in Procs, m \in Msgs :
       SendMessage(p, m) \/ AddPrompt(p, m) \/ DispatchItem(p, m)
  \/ \E m \in Msgs : Enqueue(m) \/ Cancel(m)
  \/ \E p \in Procs, md \in {"auto", "manual"} : SetMode(p, md)
  \/ \E p \in Procs : RunNext(p) \/ RetryChat(p) \/ StopTurn(p)
  \/ DeleteChat \/ RestoreChat

FaultStep == Crash \/ \E p \in Procs : Panic(p) \/ Disconnect(p)

Next ==
  \/ \E p \in Procs : HandlerStep(p) \/ TaskStep(p)
  \/ GuardClear
  \/ ClientStep
  \/ FaultStep

Spec == Init /\ [][Next]_vars

\* The runtime polls every ready task, tokio's mutex serves its waiters in
\* order, and every provider turn ends: by itself or when it is stopped.
Fairness ==
  /\ \A p \in Procs : SF_vars(HandlerStep(p) \/ TaskStep(p))
  /\ SF_vars(GuardClear)

FairSpec == Spec /\ Fairness

-----------------------------------------------------------------------------
(* Safety. *)

\* At most one handler or task owns the chat's turn, and the chat is marked
\* busy while one does (the decide-and-commit sections of send_message,
\* run_next, dispatch_item, retry_chat and kick_drain_if_idle), but for the
\* owners whose flag a guard's late clear, a forced stop, another exposed
\* owner's clear or the legacy add_prompt has removed or gone around.
OneTurnAtATime ==
  \A p \in Owners \ exposed : flag /\ Owners \ exposed = {p}

\* The slots that have popped a row and have not given it up.
Holds(p, m) ==
  cur[p] = m /\ pc[p] \in {"popped", "add", "ingest", "done", "runAdd",
                           "runIngest"}

\* A row is never handed to two slots, however many drains run at once
\* (pop_next_pending and pop_specific_pending against each other).
NoDoublePop ==
  \A m \in Msgs : \A p, q \in Procs : Holds(p, m) /\ Holds(q, m) => p = q

\* A running row has a handler or task that will finish it or roll it back
\* (the reset_to_pending rollbacks and recover_stale_running).
NoStrandedRunning ==
  \A m \in Msgs : item[m] = "running" => \E p \in Procs : Holds(p, m)

\* A busy chat has somebody who will make it idle again (DispatchGuard).
FlagNotLeaked == flag => Owners # {} \/ guards > 0

Copies(m) == Cardinality({i \in DOMAIN prompts : prompts[i].msg = m})

\* A message becomes a prompt once, plus at most once for each crash, chat
\* deletion or database error that undid a dispatch after its insert.
AtMostOncePlusFaults == \A m \in Msgs : Copies(m) <= 1 + disruptions

\* A message whose sender was told 200 is in the queue or in the timeline,
\* whatever was deleted, restarted or cancelled around it.
NothingLost ==
  \A m \in Msgs : reply[m] = "ok" => item[m] # "none" \/ Copies(m) > 0

\* No message overtakes one the back end accepted before it: while every
\* owner has its flag, a prompt is inserted only when nothing accepted earlier
\* still waits in the queue (send_message's rules 1 to 3, the drain's pops).
NoOvertaking ==
  [][Len(prompts') > Len(prompts) /\ Owners \cap exposed = {} =>
       \A i, j \in DOMAIN accepted' :
         i < j /\ accepted'[j] = prompts'[Len(prompts')].msg
           => item[accepted'[i]] = "none"]_vars

-----------------------------------------------------------------------------
(* Liveness. *)

\* In auto mode a parked message goes out, unless it is cancelled or the
\* chat is switched to manual first (drain_until_idle, kick_drain_if_idle).
AutoDrains ==
  \A m \in Msgs :
    (mode = "auto" /\ item[m] = "pending")
      ~> (mode = "manual" \/ Copies(m) > 0 \/ reply[m] = "cancelled")

\* Once the user leaves the mode alone, a busy chat always becomes idle again
\* (clear_dispatching, DispatchGuard, stop_turn).
BusyEnds ==
  (<>[](mode = "auto") \/ <>[](mode = "manual")) => []<>~flag

-----------------------------------------------------------------------------
(* What the documents and comments of the repository say, and the code does *)
(* not do.                                                                  *)

\* "It never runs two turns in parallel"
NeverTwoTurns ==
  \A p, q \in Procs : pc[p] = "stream" /\ pc[q] = "stream" => p = q
=============================================================================
