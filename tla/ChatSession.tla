---------------------------- MODULE ChatSession ----------------------------
(***************************************************************************)
(* The chat session of the mobile shell (core/chat/createChatSession.ts)   *)
(* between a user who opens chats, sends and scrolls up, the chat's socket *)
(* and a server that answers requests at any later time, in any order, or  *)
(* never.                                                                  *)
(*                                                                         *)
(* A request is in `calls` from the moment it is made.  The server fills   *)
(* in its reply with what is true at that moment; the client takes the     *)
(* reply in a later step.  The topic of a chat is its whole history of     *)
(* frames: a socket that connects is sent all of it after the hello.       *)
(* Timers (flush, reconnect, poll) may fire whenever they are armed.       *)
(***************************************************************************)
EXTENDS ChatStream, FiniteSets

CONSTANTS
  Chats,       \* the chats of the scope
  Texts,       \* what a user may type; a text may be sent twice
  None,        \* no chat open, no reply yet
  Failed,      \* the reply of a request that came to nothing
  Window,      \* prompts in a view (prompts_window)
  Page,        \* prompts in a backfill page (the 50 of loadOlder)
  History,     \* per chat, how many finished prompts it starts with
  Budgets,     \* bounds: how often a chat is opened, a message sent, Stop
               \* clicked, a socket lost and a request failed in a behaviour,
               \* and how much the turns say before their end
  MaxCalls     \* requests in flight at once

VARIABLES
  chat,        \* opts.chatId()
  store,       \* the ChatStore
  socket,      \* of the open chat: "waiting" for a timer or "open", and frames read
  batch,       \* pending: deltas not yet committed
  calls,       \* requests in flight
  server,      \* per chat: its prompts, its parked messages, its turn, its topic
  left,        \* what is left of the behaviour's budget
  shown, newest, broken   \* history: age of the view shown, of the newest view
                          \* taken, and whether a request for one has failed
                          \* or a page may overlap the timeline it arrives at

clientVars  == <<chat, store, socket, batch>>
historyVars == <<shown, newest, broken>>
vars == <<chat, store, socket, batch, calls, server, left, shown, newest, broken>>

Events == {"token", "tool_call"}
Hello  == [type |-> "subscribed"]
Topic(c) == <<Hello>> \o server[c].topic

RealId(c, n)    == [chat |-> c, n |-> n]
PendingId(c, n) == [chat |-> c, n |-> -n]
Own(p) == p.id.chat = chat

Done == [type |-> "done", n |-> 0]
OldPrompt(c, n) == [id |-> RealId(c, n), seq |-> n, content |-> None, events |-> <<Done>>]

NoSocket == [state |-> "waiting", read |-> 0]

Init ==
  /\ chat = None
  /\ store = FreshChatStore
  /\ socket = NoSocket /\ batch = <<>> /\ calls = {}
  /\ server = [c \in Chats |->
       [prompts |-> [n \in 1..History[c] |-> OldPrompt(c, n)], parked |-> <<>>,
        turn |-> "idle", topic |-> <<>>]]
  /\ left \in Budgets
  /\ shown = 0 /\ newest = 0 /\ broken = FALSE

Spend(what) == left[what] > 0 /\ left' = [left EXCEPT ![what] = @ - 1]

Request(kind, c, arg) == [kind |-> kind, chat |-> c, arg |-> arg, reply |-> None]
Calling(r) == Cardinality(calls) < MaxCalls /\ calls' = calls \cup {r}
Answer(r, reply) == calls' = (calls \ {r}) \cup {[r EXCEPT !.reply = reply]}

-----------------------------------------------------------------------------
(* The client's own steps.                                                 *)

\* The active chat changes.  reload blanks the store and asks for the view;
\* the old socket is closed, which commits its deltas into the new store.
Open(c) ==
  /\ c # chat
  /\ Spend("opens")
  /\ chat' = c
  /\ store' = Flushed(FreshChatStore, batch)
  /\ batch' = <<>> /\ socket' = NoSocket
  /\ IF c = None THEN UNCHANGED calls ELSE Calling(Request("reload", c, None))
  /\ shown' = 0 /\ newest' = 0
  /\ broken' = \E r \in calls : r.kind = "older" \/ (r.kind = "send" /\ r.chat # c)
  /\ UNCHANGED server

\* reconcile(), however it came to be called.
Reconcile == Calling(Request("reconcile", chat, None))

\* The connect or reconnect timer fires.
Connect ==
  /\ chat # None /\ socket.state = "waiting"
  /\ socket' = [state |-> "open", read |-> 0]
  /\ UNCHANGED <<chat, store, batch, calls, server, left, historyVars>>

\* `close` of the socket: reconnect later.  What was sent on it is gone.
SocketCloses ==
  /\ socket.state = "open"
  /\ Spend("drops")
  /\ socket' = NoSocket
  /\ UNCHANGED <<chat, store, batch, calls, server, historyVars>>

FlushTimer ==
  /\ batch # <<>>
  /\ store' = Flushed(store, batch) /\ batch' = <<>>
  /\ UNCHANGED <<chat, socket, calls, server, left, historyVars>>

\* One message: the hello, a queue or idle hint, or an event.  Deltas wait
\* for the flush; any other event commits them first.
Receive ==
  /\ socket.state = "open" /\ socket.read < Len(Topic(chat))
  /\ socket' = [socket EXCEPT !.read = @ + 1]
  /\ LET frame == Topic(chat)[socket.read + 1]
     IN  \/ /\ frame.type \in {"subscribed", "queue_dispatched", "chat_idle"}
            /\ Reconcile
            /\ UNCHANGED <<store, batch>>
         \/ /\ frame.type = "event" /\ Delta(frame.event)
            /\ batch' = Append(batch, frame)
            /\ UNCHANGED <<store, calls>>
         \/ /\ frame.type = "event" /\ ~Delta(frame.event)
            /\ store' = ApplyWsFrame(Flushed(store, batch), frame)
            /\ batch' = <<>>
            /\ UNCHANGED calls
  /\ UNCHANGED <<chat, server, left, historyVars>>

\* Every three seconds while the tail has no end.
Poll ==
  /\ chat # None /\ IsStreaming(store)
  /\ Reconcile
  /\ UNCHANGED <<clientVars, server, left, historyVars>>

LoadOlder ==
  /\ chat # None /\ store.prompts # <<>> /\ ~store.atStart /\ ~store.loadingOlder
  /\ Calling(Request("older", chat, store.prompts[1].seq))
  /\ store' = [store EXCEPT !.loadingOlder = TRUE]
  /\ broken' = (broken \/ ~store.loaded)
  /\ UNCHANGED <<chat, socket, batch, server, left, shown, newest>>

Send(text) ==
  /\ chat # None
  /\ Spend("sends")
  /\ LET id == PendingId(chat, left.sends)
     IN  /\ store' = WithPlaceholder(store, Placeholder(id, text))
         /\ Calling(Request("send", chat, [id |-> id, text |-> text]))
  /\ UNCHANGED <<chat, socket, batch, server, historyVars>>

Stop ==
  /\ chat # None /\ IsStreaming(store)
  /\ Spend("stops")
  /\ Calling(Request("stop", chat, None))
  /\ UNCHANGED <<clientVars, server, historyVars>>

-----------------------------------------------------------------------------
(* The client takes a reply.                                               *)

Resolve(r) == r \in calls /\ r.reply # None /\ calls' = calls \ {r}

\* History only: a view `at` this age is on the screen.
Shows(at) == shown' = at /\ newest' = (IF at > newest THEN at ELSE newest)

ReloadDone(r) ==
  /\ r.kind = "reload" /\ Resolve(r)
  /\ \/ /\ r.reply # Failed /\ r.chat = chat
        /\ store' = Loaded(r.reply.view) /\ Shows(r.reply.at) /\ UNCHANGED broken
     \/ /\ r.reply # Failed /\ r.chat # chat
        /\ UNCHANGED <<store, historyVars>>
     \/ /\ r.reply = Failed
        /\ broken' = (broken \/ r.chat = chat) /\ UNCHANGED <<store, shown, newest>>
  /\ UNCHANGED <<chat, socket, batch, server, left>>

ReconcileDone(r) ==
  /\ r.kind = "reconcile" /\ Resolve(r)
  /\ \/ /\ r.reply # Failed /\ r.chat = chat
        /\ store' = Reconciled(store, r.reply.view) /\ Shows(r.reply.at) /\ UNCHANGED broken
     \/ /\ r.reply # Failed /\ r.chat # chat
        /\ UNCHANGED <<store, historyVars>>
     \/ /\ r.reply = Failed
        /\ broken' = (broken \/ r.chat = chat) /\ UNCHANGED <<store, shown, newest>>
  /\ UNCHANGED <<chat, socket, batch, server, left>>

\* No look at the chat that is open now.
OlderDone(r) ==
  /\ r.kind = "older" /\ Resolve(r)
  /\ store' = [(IF r.reply = Failed THEN store ELSE Backfilled(store, r.reply))
                 EXCEPT !.loadingOlder = FALSE]
  /\ UNCHANGED <<chat, socket, batch, server, left, historyVars>>

\* Nor here: the prompt goes into whatever timeline is in the store.
SendDone(r) ==
  /\ r.kind = "send" /\ Resolve(r)
  /\ store' = IF r.reply # Failed /\ r.reply.kind = "dispatched"
              THEN Swapped(store, r.arg.id, r.reply.prompt)
              ELSE WithoutPrompt(store, r.arg.id)
  /\ UNCHANGED <<chat, socket, batch, server, left, historyVars>>

\* The server has a 204 for every stop, so the branch on 404, which gives a
\* stuck tail an end on the screen, is never entered.
StopDone(r) ==
  /\ r.kind = "stop" /\ Resolve(r)
  /\ UNCHANGED <<clientVars, server, left, historyVars>>

-----------------------------------------------------------------------------
(* The server.                                                             *)

Prompts(c)   == server[c].prompts
ViewOf(c)    == [prompts |-> SubSeq(Prompts(c), IF Len(Prompts(c)) > Window
                                                THEN Len(Prompts(c)) - Window + 1 ELSE 1,
                                    Len(Prompts(c))),
                 total |-> Len(Prompts(c))]
PageOf(c, before) ==
  LET older == Only(Prompts(c), {p \in ToSet(Prompts(c)) : p.seq < before})
      first == IF Len(older) > Page THEN Len(older) - Page + 1 ELSE 1
  IN  [prompts |-> SubSeq(older, first, Len(older)), atStart |-> first = 1]

Frame(id, ev) == [type |-> "event", id |-> id, event |-> ev]
Hint(type)    == [type |-> type]

\* Age of what the server would tell of a chat now.
Age(c) == 1 + Len(server[c].topic) + Len(Prompts(c))

ServeView(r) ==
  /\ r \in calls /\ r.kind \in {"reload", "reconcile"} /\ r.reply = None
  /\ Answer(r, [view |-> ViewOf(r.chat), at |-> Age(r.chat)])
  /\ UNCHANGED <<clientVars, server, left, historyVars>>

ServePage(r) ==
  /\ r \in calls /\ r.kind = "older" /\ r.reply = None
  /\ Answer(r, PageOf(r.chat, r.arg))
  /\ UNCHANGED <<clientVars, server, left, historyVars>>

NewPrompt(c, text) ==
  LET n == Len(Prompts(c)) + 1
  IN  [id |-> RealId(c, n), seq |-> n, content |-> text, events |-> <<>>]

\* An idle chat runs the message, a busy one parks it.
ServeSend(r) ==
  /\ r \in calls /\ r.kind = "send" /\ r.reply = None
  /\ LET p == NewPrompt(r.chat, r.arg.text)
     IN  \/ /\ server[r.chat].turn = "idle"
            /\ server' = [server EXCEPT ![r.chat].prompts = Append(@, p), ![r.chat].turn = "running"]
            /\ Answer(r, [kind |-> "dispatched", prompt |-> p])
         \/ /\ server[r.chat].turn # "idle"
            /\ server' = [server EXCEPT ![r.chat].parked = Append(@, r.arg.text)]
            /\ Answer(r, [kind |-> "queued"])
  /\ UNCHANGED <<clientVars, left, historyVars>>

\* The running turn says something; with a final event it is over.
Says(c, ev, turn) ==
  LET last == Len(Prompts(c))
  IN  server' = [server EXCEPT ![c].prompts[last].events = Append(@, ev), ![c].turn = turn,
                               ![c].topic = Append(@, Frame(RealId(c, last), ev))]

Emit(c) ==
  /\ server[c].turn = "running"
  /\ Spend("output")
  /\ \E type \in Events : Says(c, [type |-> type, n |-> left.output], "running")
  /\ UNCHANGED <<clientVars, calls, historyVars>>

\* A turn that is cancelled ends with an error.
Finish(c) ==
  /\ \/ server[c].turn = "running"  /\ Says(c, Done, "ending")
     \/ server[c].turn = "stopping" /\ Says(c, Crashed, "ending")
  /\ UNCHANGED <<clientVars, calls, left, historyVars>>

\* After a turn: the next parked message, by the drain or by a click, or idle.
NextParked(c) ==
  /\ server[c].turn \notin {"running", "stopping"} /\ server[c].parked # <<>>
  /\ server' = [server EXCEPT ![c].prompts = Append(@, NewPrompt(c, Head(server[c].parked))),
                              ![c].parked = Tail(@), ![c].turn = "running",
                              ![c].topic = Append(@, Hint("queue_dispatched"))]
  /\ UNCHANGED <<clientVars, calls, left, historyVars>>

GoIdle(c) ==
  /\ server[c].turn = "ending"
  /\ server' = [server EXCEPT ![c].turn = "idle", ![c].topic = Append(@, Hint("chat_idle"))]
  /\ UNCHANGED <<clientVars, calls, left, historyVars>>

\* A tail without an end gets one.
Ended(prompts) ==
  LET last == Len(prompts)
  IN  IF last = 0 \/ Finished(prompts[last]) THEN prompts
      ELSE [prompts EXCEPT ![last].events = Append(@, Crashed)]

\* Without a token, as before the turn has installed one or after its end,
\* that is done here, and the dispatching flag is let go.
StopsNothing(c) ==
  LET ending == server[c].turn = "ending"
  IN  /\ \/ server[c].turn \in {"ending", "idle"}
         \/ server[c].turn = "running" /\ Last(Prompts(c)).events = <<>>
      /\ server' = [server EXCEPT ![c].prompts = Ended(@), ![c].turn = IF ending THEN "idle" ELSE @,
                                  ![c].topic = Append(@, Hint("chat_idle"))]

ServeStop(r) ==
  /\ r \in calls /\ r.kind = "stop" /\ r.reply = None
  /\ Answer(r, "stopped")
  /\ \/ /\ server[r.chat].turn \in {"running", "stopping"}
        /\ server' = [server EXCEPT ![r.chat].turn = "stopping"]
     \/ StopsNothing(r.chat)
  /\ UNCHANGED <<clientVars, left, historyVars>>

\* The network or the server fails a request before or after it is served.
Fail(r) ==
  /\ r \in calls /\ r.reply # Failed
  /\ Spend("failures")
  /\ Answer(r, Failed)
  /\ UNCHANGED <<clientVars, server, historyVars>>

-----------------------------------------------------------------------------
Taken(r)  == ReloadDone(r) \/ ReconcileDone(r) \/ OlderDone(r) \/ SendDone(r) \/ StopDone(r)
Served(r) == ServeView(r) \/ ServePage(r) \/ ServeSend(r) \/ ServeStop(r)
Turn(c)   == Emit(c) \/ Finish(c) \/ NextParked(c) \/ GoIdle(c)

Next ==
  \/ \E c \in Chats \cup {None} : Open(c)
  \/ Connect \/ SocketCloses \/ FlushTimer \/ Receive \/ Poll
  \/ LoadOlder \/ Stop
  \/ \E text \in Texts : Send(text)
  \/ \E r \in calls : Taken(r) \/ Served(r) \/ Fail(r)
  \/ \E c \in Chats : Turn(c)

Spec == Init /\ [][Next]_vars

-----------------------------------------------------------------------------
(* Properties.                                                             *)

\* Nothing is under way for the open chat.
Settled ==
  /\ chat # None /\ calls = {} /\ batch = <<>>
  /\ socket.state = "open" /\ socket.read = Len(Topic(chat))
  /\ server[chat].turn = "idle" /\ ~IsStreaming(store)

\* Once everything has arrived, the newest prompts are on the screen, each
\* once and in order, with exactly the events the server holds and no live
\* buffer in front of them, and no placeholder is left: whatever order
\* replies, replayed frames, late flushes and reconnects came in, unless an
\* older answer has been taken after a newer one, a fetch has failed,
\* backfill has filled the timeline to its cap (then the newest make way), a
\* page was asked for before the timeline had come, or answers to what was
\* asked for in another visit were still to come when the chat was opened.
SettledIsCanonical ==
  Settled /\ shown = newest /\ ~broken /\ Len(store.prompts) < MaxPrompts =>
    LET view == ViewOf(chat).prompts
    IN  /\ SelectSeq(store.prompts, LAMBDA p : p.id \in IdsOf(view)) = view
        /\ \A p \in ToSet(view) :
             AssistantText(p, store.liveTokens) = TextIn(p.events, "token")
        /\ ~\E p \in ToSet(store.prompts) : Pending(p)

\* A message the user has sent stays on the screen until the server has
\* answered for it or it is there under its real id: only the timeline that
\* loads after it was typed takes it away, or one without room for what is
\* coming: a message, a view or a page.
SentStays ==
  \A p \in ToSet(store.prompts) :
    /\ chat' = chat /\ Pending(p) /\ Own(p)
    /\ \E r \in calls' : r.kind = "send" /\ r.arg.id = p.id
    /\ \A r \in calls \ calls' : r.kind # "reload"
    /\ \A n \in {1, Window, Page} : Len(store.prompts) + n <= MaxPrompts
    => p.id \in IdsOf(store'.prompts) \/ p.content \in TextsOf(store'.prompts)
=============================================================================
