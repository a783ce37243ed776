---------------------------- MODULE ChatTimeline ----------------------------
(***************************************************************************)
(* The timeline in the pane of one chat of the desktop shell: what         *)
(* ChatPane.tsx does to the store of ChatStream when the chat's socket     *)
(* speaks, requests are answered in any order or fail, the user presses    *)
(* the buttons of a prompt, and the pane is unmounted by another tab and   *)
(* mounted again.                                                          *)
(*                                                                         *)
(* A pane is of one chat only, so answers for a pane that is gone touch    *)
(* nothing.  The topic is the whole history of frames, sent again to every *)
(* socket that connects.                                                   *)
(***************************************************************************)
EXTENDS ChatStream, Requests

CONSTANTS
  Old,       \* how many finished prompts the chat starts with
  Window,    \* prompts in a view (prompts_window)
  Page,      \* prompts in a page (the 50 of loadOlder)
  Budgets

Done  == [type |-> "done", n |-> 0]
Ask(n) == [id |-> n, seq |-> n, content |-> "old", events |-> <<Done>>]

Frame(type, id, ev) == [type |-> type, id |-> id, event |-> ev]
Hint == Frame("hint", 0, Done)

\* `shown`, `newest`, `broken`: history of the views the pane has taken, and
\* whether one has failed or a page may overlap the timeline it arrives at.
Pane == [store |-> FreshChatStore, open |-> FALSE, read |-> 0, batch |-> <<>>,
         shown |-> 0, newest |-> 0, broken |-> FALSE]

Arg == [mine |-> TRUE, id |-> 0, text |-> "", seq |-> 0]

\* What the user and other clients do is bounded by left.looks.
Looks == /\ left.looks > 0 /\ left.asks > 0
         /\ left' = [left EXCEPT !.looks = @ - 1, !.asks = @ - 1]

Does(kind, arg) == Looks /\ calls' = calls \cup {Request(kind, arg)}

Idle == [id |-> 0, state |-> "idle"]

Init ==
  /\ left \in Budgets
  /\ server = [prompts |-> [n \in 1..Old |-> Ask(n)], parked |-> 0, turn |-> Idle,
               topic |-> <<>>, made |-> Old, at |-> 1]
  /\ view = Pane
  /\ calls = {[Request("load", Arg) EXCEPT !.n = @ - 1]}

-----------------------------------------------------------------------------
(* Views and pages.                                                        *)

\* History only: a page is on its way; the prompt it would be asked for from
\* is one the server has.
PageToCome == \E r \in calls : r.arg.mine /\ r.kind = "older"
KnownPlace == view.store.loaded /\ view.store.prompts[1].id \in IdsOf(server.prompts)

\* The store is blanked first: a pane that has just been mounted has no
\* cached view, and the other callers do not ask for one.
Blank(v) == [v EXCEPT !.store = FreshChatStore, !.broken = @ \/ PageToCome]

Showing(v, s, at) ==
  [v EXCEPT !.store = s, !.shown = at, !.newest = IF at > @ THEN at ELSE @]

loadChat(r) ==
  /\ r.arg.mine /\ Takes(r, "load")
  /\ view' = IF r.reply = Failed THEN [view EXCEPT !.broken = TRUE]
             ELSE Showing(view, Loaded(r.reply.view), r.reply.at)
  /\ UNCHANGED <<server, left>>

Reconcile == Asks("reconcile", Arg)

reconcileChat(r) ==
  /\ r.arg.mine /\ Takes(r, "reconcile")
  /\ view' = IF r.reply = Failed THEN [view EXCEPT !.broken = TRUE]
             ELSE Showing(view, Reconciled(view.store, r.reply.view), r.reply.at)
  /\ UNCHANGED <<server, left>>

loadOlder ==
  /\ view.store.prompts # <<>> /\ ~view.store.atStart /\ ~view.store.loadingOlder
  /\ Does("older", [Arg EXCEPT !.seq = view.store.prompts[1].seq])
  /\ view' = [view EXCEPT !.store.loadingOlder = TRUE, !.broken = @ \/ ~KnownPlace]
  /\ UNCHANGED server

\* Mutant: a page that fails leaves the indicator on.
OlderDoneOnSuccess(r) ==
  /\ r.arg.mine /\ Takes(r, "older")
  /\ view' = IF r.reply = Failed THEN view
             ELSE [view EXCEPT !.store = [Backfilled(@, r.reply) EXCEPT !.loadingOlder = FALSE]]
  /\ UNCHANGED <<server, left>>

OlderDone(r) ==
  /\ r.arg.mine /\ Takes(r, "older")
  /\ view' = [view EXCEPT !.store =
       [(IF r.reply = Failed THEN @ ELSE Backfilled(@, r.reply)) EXCEPT !.loadingOlder = FALSE]]
  /\ UNCHANGED <<server, left>>

\* Every three seconds while the tail has no end.
Poll == IsStreaming(view.store) /\ Reconcile /\ UNCHANGED <<view, server>>

\* Another client has renamed the chat or changed its model.
ChatUpdated == Does("load", Arg) /\ view' = Blank(view) /\ UNCHANGED server

-----------------------------------------------------------------------------
(* The socket.                                                             *)

Topic == <<Frame("hello", 0, Done)>> \o server.topic

\* The debounce of a new pane, or the backoff after a loss.
Connect ==
  /\ ~view.open
  /\ view' = [view EXCEPT !.open = TRUE, !.read = 0]
  /\ UNCHANGED <<server, calls, left>>

SocketCloses ==
  /\ view.open /\ Spend("drops")
  /\ view' = [view EXCEPT !.open = FALSE]
  /\ UNCHANGED <<server, calls>>

Committed(v) == [v EXCEPT !.store = Flushed(@, v.batch), !.batch = <<>>]

FlushTimer ==
  /\ view.batch # <<>>
  /\ view' = Committed(view)
  /\ UNCHANGED <<server, calls, left>>

\* Deltas wait for the flush, any other event commits them first.
Enqueued(v, frame) ==
  IF Delta(frame.event) THEN [v EXCEPT !.batch = Append(@, frame)]
  ELSE LET w == Committed(v) IN [w EXCEPT !.store = ApplyWsFrame(@, frame)]

Receive ==
  /\ view.open /\ view.read < Len(Topic)
  /\ LET frame == Topic[view.read + 1]
         v     == [view EXCEPT !.read = @ + 1]
     IN  \/ frame.type # "event" /\ view' = v /\ Reconcile
         \/ frame.type = "event" /\ view' = Enqueued(v, frame) /\ UNCHANGED <<calls, left>>
  /\ UNCHANGED server

\* Another tab came to the front and went again: a new pane, which asks for
\* its view, beside what the old one has asked for.
Mounts(others) ==
  /\ view' = Pane
  /\ calls' = {[r EXCEPT !.arg.mine = FALSE] : r \in others} \cup {Request("load", Arg)}

Remount == Looks /\ Mounts(calls) /\ UNCHANGED server

Forgotten(r) ==
  /\ ~r.arg.mine /\ r.kind # "fork" /\ Takes(r, r.kind)
  /\ UNCHANGED <<view, server, left>>

-----------------------------------------------------------------------------
(* The user.                                                               *)

\* The message is on the screen before the server has it.
dispatchBody ==
  /\ Does("send", [Arg EXCEPT !.id = Now, !.text = "new"])
  /\ view' = [view EXCEPT !.store = WithPlaceholder(@, Placeholder(Now, "new"))]
  /\ UNCHANGED server

SendDone(r) ==
  /\ r.arg.mine /\ Takes(r, "send")
  /\ view' = [view EXCEPT !.store =
       IF r.reply # Failed /\ r.reply.kind = "dispatched" THEN Swapped(@, r.arg.id, r.reply.prompt)
       ELSE WithoutPrompt(@, r.arg.id)]
  /\ UNCHANGED <<server, left>>

stopChat == IsStreaming(view.store) /\ Does("stop", Arg) /\ UNCHANGED <<view, server>>

\* The server has a 204 for every stop, so the branch on 404, which gives a
\* stuck tail an end on the screen, is never entered.
StopDone(r) == r.arg.mine /\ Takes(r, "stop") /\ UNCHANGED <<view, server, left>>

\* The buttons below a prompt, which a placeholder has too.
Acts(kind, p) ==
  /\ p \in ToSet(view.store.prompts)
  /\ Does(kind, [Arg EXCEPT !.id = p.id, !.text = p.content, !.seq = p.seq])
  /\ UNCHANGED <<view, server>>

revert(p)             == Acts("revert", p)
forkFromPrompt(p)     == Acts("fork", p)
resendPrompt(p)       == Acts("resend", p)
retryPrompt(p)        == p = Last(view.store.prompts) /\ Acts("retry", p)
truncateFromPrompt(p) == Acts("truncate", p)

Reloading == {"revert", "resend", "retry", "truncate"}

ActDone(r) ==
  /\ r.arg.mine /\ r.kind \in Reloading
  /\ \/ r.reply # Failed /\ TakesAsking(r, r.kind, "load", Arg) /\ view' = Blank(view)
     \/ r.reply = Failed /\ Takes(r, r.kind) /\ UNCHANGED <<view, left>>
  /\ UNCHANGED server

\* The fork comes to the front, whoever asked; the user comes back.
ForkDone(r) ==
  /\ r \in calls /\ r.kind = "fork" /\ r.reply # None
  /\ \/ r.reply # Failed /\ Spend("asks") /\ Mounts(calls \ {r})
     \/ r.reply = Failed /\ Takes(r, "fork") /\ UNCHANGED <<view, left>>
  /\ UNCHANGED server

-----------------------------------------------------------------------------
(* The server: its handlers are modelled in ChatDispatch and ChatStore.    *)

Becomes(s) == server' = [s EXCEPT !.at = @ + 1]

Shortened(s, n) == SubSeq(s, IF Len(s) > n THEN Len(s) - n + 1 ELSE 1, Len(s))

ViewNow == [prompts |-> Shortened(server.prompts, Window), total |-> Len(server.prompts)]

Older(seq) == SelectSeq(server.prompts, LAMBDA p : p.seq < seq)

ServeRead(r) ==
  /\ \/ r.kind \in {"load", "reconcile"} /\ Answers(r, [view |-> ViewNow, at |-> server.at])
     \/ r.kind = "older" /\ Answers(r, [prompts |-> Shortened(Older(r.arg.seq), Page),
                                        atStart |-> Len(Older(r.arg.seq)) <= Page])
     \/ r.kind = "fork" /\ Answers(r, IF r.arg.seq < 0 THEN Failed ELSE "ok")
  /\ UNCHANGED <<view, server, left>>

NewPrompt(s, text) ==
  [id |-> s.made + 1, seq |-> Len(s.prompts) + 1, content |-> text, events |-> <<>>]

Added(s, text) == [s EXCEPT !.prompts = Append(@, NewPrompt(s, text)), !.made = @ + 1]

Runs(s, id) == [s EXCEPT !.turn = [id |-> id, state |-> "running"]]

\* An idle chat runs the message, a busy one parks it.
ServeSend(r) ==
  /\ r.kind \in {"send", "resend"}
  /\ \/ /\ server.turn = Idle
        /\ Becomes(Runs(Added(server, r.arg.text), server.made + 1))
        /\ Answers(r, [kind |-> "dispatched", prompt |-> NewPrompt(server, r.arg.text)])
     \/ server.turn # Idle /\ Becomes([server EXCEPT !.parked = @ + 1]) /\ Answers(r, [kind |-> "queued"])
  /\ UNCHANGED <<view, left>>

\* The prompt is written, nothing runs it, and nobody is told: a pane that
\* has come after the one that asked may never hear of it.
ServeRevert(r) ==
  /\ r.kind = "revert"
  /\ \/ /\ IndexOf(server.prompts, r.arg.id) # 0
        /\ Becomes(Added(server, "revert")) /\ Answers(r, "ok")
        /\ view' = [view EXCEPT !.broken = @ \/ ~r.arg.mine]
     \/ /\ IndexOf(server.prompts, r.arg.id) = 0
        /\ Answers(r, Failed) /\ UNCHANGED <<view, server>>
  /\ UNCHANGED left

ServeRetry(r) ==
  LET last == Len(server.prompts)
      free == server.turn = Idle /\ last > 0
  IN  /\ r.kind = "retry"
      /\ Answers(r, IF free THEN "ok" ELSE Failed)
      /\ IF free THEN Becomes([Runs(server, server.prompts[last].id) EXCEPT !.prompts[last].events = <<>>])
         ELSE UNCHANGED server
      /\ UNCHANGED <<view, left>>

\* A placeholder's number is no number of a prompt.
ServeTruncate(r) ==
  /\ r.kind = "truncate"
  /\ \/ r.arg.seq >= 0 /\ Answers(r, "ok")
        /\ Becomes([server EXCEPT !.prompts = Older(r.arg.seq), !.topic = Append(@, Hint)])
        /\ view' = [view EXCEPT !.broken = @ \/ PageToCome]
     \/ r.arg.seq < 0 /\ Answers(r, Failed) /\ UNCHANGED <<view, server>>
  /\ UNCHANGED left

\* The running turn says something, to its prompt if that is still there.
Says(ev, state) ==
  LET i == IndexOf(server.prompts, server.turn.id)
      s == IF i = 0 THEN server ELSE [server EXCEPT !.prompts[i].events = Append(@, ev)]
  IN  Becomes([s EXCEPT !.turn.state = state, !.topic = Append(@, Frame("event", server.turn.id, ev))])

Emits ==
  /\ server.turn.state = "running" /\ Spend("output")
  /\ \E type \in {"token", "tool_call"} : Says([type |-> type, n |-> left.output], "running")
  /\ UNCHANGED <<view, calls>>

\* A turn that is cancelled ends with an error.
Finishes ==
  /\ \/ server.turn.state = "running"  /\ Says(Done, "ending")
     \/ server.turn.state = "stopping" /\ Says(Crashed, "ending")
  /\ UNCHANGED <<view, calls, left>>

GoesIdle ==
  /\ server.turn.state = "ending"
  /\ Becomes([server EXCEPT !.turn = Idle, !.topic = Append(@, Hint)])
  /\ UNCHANGED <<view, calls, left>>

\* A parked message runs, or one whose time has come.
StartsParked ==
  /\ server.turn.state \in {"ending", "idle"} /\ server.parked > 0
  /\ LET s == Runs(Added(server, "new"), server.made + 1)
     IN  Becomes([s EXCEPT !.parked = @ - 1, !.topic = Append(@, Hint)])
  /\ UNCHANGED <<view, calls, left>>

\* What is stored: a revert is in the registry only.
Stored == SelectSeq(server.prompts, LAMBDA p : p.content # "revert")

\* Without a token, as before the turn has installed one or after its end, a
\* stored tail without an end gets one, or else the dispatching flag is let go.
StopsNothing ==
  LET stuck == Stored # <<>> /\ ~Finished(Last(Stored))
      i     == IndexOf(server.prompts, Last(Stored).id)
  IN  /\ \/ server.turn.state \in {"ending", "idle"}
         \/ /\ server.turn.state = "running"
            /\ \E p \in ToSet(server.prompts) :
                 p = Last(server.prompts) /\ p.id = server.turn.id /\ p.events = <<>>
      /\ Becomes([server EXCEPT
           !.prompts = IF stuck THEN [@ EXCEPT ![i].events = Append(@, Crashed)] ELSE @,
           !.turn = IF stuck \/ @.state # "ending" THEN @ ELSE Idle,
           !.topic = Append(@, Hint)])

ServeStop(r) ==
  /\ r.kind = "stop" /\ Answers(r, "stopped")
  /\ \/ /\ server.turn.state \in {"running", "stopping"}
        /\ server' = [server EXCEPT !.turn.state = "stopping"]
     \/ StopsNothing
  /\ UNCHANGED <<view, left>>

-----------------------------------------------------------------------------
Next ==
  \/ Poll \/ ChatUpdated \/ loadOlder \/ Connect \/ SocketCloses \/ FlushTimer \/ Receive \/ Remount
  \/ dispatchBody \/ stopChat \/ Emits \/ Finishes \/ GoesIdle \/ StartsParked
  \/ \E p \in ToSet(view.store.prompts) :
       revert(p) \/ forkFromPrompt(p) \/ resendPrompt(p) \/ retryPrompt(p) \/ truncateFromPrompt(p)
  \/ \E r \in calls :
       \/ loadChat(r) \/ reconcileChat(r) \/ OlderDone(r) \/ Forgotten(r) \/ SendDone(r) \/ StopDone(r)
       \/ ActDone(r) \/ ForkDone(r) \/ Fails(r)
       \/ ServeRead(r) \/ ServeSend(r) \/ ServeRevert(r) \/ ServeRetry(r) \/ ServeTruncate(r) \/ ServeStop(r)

Spec == Init /\ [][Next]_panelVars

-----------------------------------------------------------------------------
(* Properties.                                                             *)

\* Everything that was asked for or announced has arrived.
Settled ==
  /\ calls = {} /\ view.batch = <<>> /\ view.open /\ view.read = Len(Topic) /\ server.turn = Idle

\* Once everything has arrived the newest prompts are on the screen, each
\* once and in order, with the text the server has and no placeholder:
\* through resends, retries, deletions, lost sockets and panes that come and
\* go, unless an older answer was taken after a newer one, a fetch has
\* failed, a revert was written that nobody was told of, pages from above
\* have filled the timeline, or a page was asked for before the timeline had
\* come, or outlived a reload or a deletion (what it brings may be there).
TimelineIsCanonical ==
  /\ Settled /\ ~IsStreaming(view.store)
  /\ view.shown = view.newest /\ ~view.broken /\ Len(view.store.prompts) < MaxPrompts
  => /\ SelectSeq(view.store.prompts, LAMBDA p : p.id \in IdsOf(ViewNow.prompts)) = ViewNow.prompts
     /\ \A p \in ToSet(ViewNow.prompts) :
          AssistantText(p, view.store.liveTokens) = TextIn(p.events, "token")
     /\ ~\E p \in ToSet(view.store.prompts) : Pending(p)

\* The indicator of a page being loaded has a request behind it.
OlderHasAReason == view.store.loadingOlder => \E r \in calls : r.arg.mine /\ r.kind = "older"
=============================================================================
