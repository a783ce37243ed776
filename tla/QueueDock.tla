----------------------------- MODULE QueueDock -----------------------------
(***************************************************************************)
(* The dock of queued messages below a chat's timeline (ChatPane.tsx,      *)
(* QueueTimeline.tsx, queueCard.tsx).                                      *)
(*                                                                         *)
(* The dock is read again on a timer, on frames of the server and after    *)
(* each of its own requests.  It moves cards before the server has         *)
(* answered, and a card being edited holds the timer back.  Another tab    *)
(* unmounts the pane of the chat; coming back mounts a new one, while the  *)
(* server still acts on what the old one has asked.                        *)
(***************************************************************************)
EXTENDS Requests, SequencesExt

CONSTANTS
  Queued,    \* the ids of what is queued at first
  Budgets

Item(id) == [id |-> id, running |-> FALSE, edited |-> FALSE]

NoSummary == [pending |-> 0, running |-> 0]

Pane == [dock |-> None, auto |-> FALSE, busy |-> FALSE, err |-> FALSE,
         editing |-> {}, expanded |-> {}, shown |-> {}, summary |-> NoSummary]

Init ==
  \E b \in Budgets :
    /\ left = b
    /\ calls = {}
    /\ server = [queue |-> [k \in DOMAIN Queued |-> Item(Queued[k])], auto |-> FALSE, prompts |-> {}]
    /\ view = Pane

-----------------------------------------------------------------------------
(* What the dock shows.                                                    *)

Items(v) == IF v.dock = None THEN <<>> ELSE v.dock

\* A running item whose prompt is in the timeline already is not shown twice.
queueItems(v) == SelectSeq(Items(v), LAMBDA i : ~i.running \/ i.id \notin v.shown)

queueLocked(v) == \E k \in DOMAIN Items(v) : Items(v)[k].running

Cards(v) == ToSet(queueItems(v))

\* Only the item being dispatched cannot be changed.
canSend(v)   == {i \in Cards(v) : ~i.running /\ ~v.busy}
Removable(v) == {i \in Cards(v) : ~i.running}

pendingIds(v) == [k \in DOMAIN SelectSeq(queueItems(v), LAMBDA i : ~i.running) |->
                    SelectSeq(queueItems(v), LAMBDA i : ~i.running)[k].id]

\* A card that leaves the dock takes its edit with it.
Mounted(v) == [v EXCEPT !.editing = @ \cap {i.id : i \in Cards(v)}]

-----------------------------------------------------------------------------
(* Reading the queue.                                                      *)

Arg == [mine |-> TRUE, ends |-> FALSE, err |-> FALSE, item |-> None, order |-> None]

refreshQueue == Asks("queue", Arg)

\* The timer, a little after a chat has come to the front or every second
\* and a half.
PollQueue == view.editing = {} /\ refreshQueue /\ UNCHANGED <<view, server>>

\* A schedule fired, the drain took an item, the turn ended.
QueueFrame == refreshQueue /\ UNCHANGED <<view, server>>

Replaced(v, q) == Mounted([v EXCEPT !.dock = q.items, !.auto = q.auto])

Refreshed(v, r) ==
  LET read == IF r.reply = Failed THEN v ELSE Replaced(v, r.reply)
  IN  [read EXCEPT !.busy = @ /\ ~r.arg.ends, !.err = @ \/ r.arg.err]

QueueDone(r) ==
  /\ r.arg.mine /\ Takes(r, "queue")
  /\ view' = Refreshed(view, r)
  /\ UNCHANGED <<server, left>>

\* The badge of the header has a timer of its own.
PollSummary == Asks("summary", Arg) /\ UNCHANGED <<view, server>>

SummaryDone(r) ==
  /\ r.arg.mine /\ Takes(r, "summary")
  /\ view' = IF r.reply = Failed THEN view
             ELSE [view EXCEPT !.summary =
                    [pending |-> Len(SelectSeq(r.reply.items, LAMBDA i : ~i.running)),
                     running |-> Len(SelectSeq(r.reply.items, LAMBDA i : i.running))]]
  /\ UNCHANGED <<server, left>>

\* The timeline takes the prompts the server has by now.
Reconciled ==
  /\ view.shown # server.prompts
  /\ view' = Mounted([view EXCEPT !.shown = server.prompts])
  /\ UNCHANGED <<server, calls, left>>

\* The pane of the old tab is gone, its requests are not.
Remount ==
  /\ Spend("looks")
  /\ view' = Pane
  /\ calls' = {[r EXCEPT !.arg.mine = FALSE] : r \in calls}
  /\ UNCHANGED server

Forgotten(r) ==
  /\ ~r.arg.mine /\ Takes(r, r.kind)
  /\ UNCHANGED <<view, server, left>>

toggleQueueExpanded(id) ==
  /\ id \in {i.id : i \in Cards(view)} /\ Spend("looks")
  /\ view' = [view EXCEPT !.expanded = IF id \in @ THEN @ \ {id} ELSE @ \cup {id}]
  /\ UNCHANGED <<server, calls>>

-----------------------------------------------------------------------------
(* Changing it.                                                            *)

Submits(kind, item, v) ==
  /\ Asks(kind, [Arg EXCEPT !.item = item])
  /\ view' = v
  /\ UNCHANGED server

Busy(v) == [v EXCEPT !.busy = TRUE]

WithoutCard(v, id) == Mounted([v EXCEPT !.dock = SelectSeq(@, LAMBDA i : i.id # id)])

cancelQueueItem(i) == i \in Removable(view) /\ Submits("cancel", i.id, Busy(view))

startEdit(i) ==
  /\ i \in Removable(view) /\ i.id \notin view.editing /\ Spend("looks")
  /\ view' = [view EXCEPT !.editing = @ \cup {i.id}]
  /\ UNCHANGED <<server, calls>>

\* Saved as it was, or changed.
commitEdit(id) ==
  /\ id \in view.editing
  /\ \/ Submits("update", id, [Busy(view) EXCEPT !.editing = @ \ {id}])
     \/ view' = [view EXCEPT !.editing = @ \ {id}] /\ UNCHANGED <<server, calls, left>>

\* The card goes at once, the answer to the next reading decides.
runNextQueue ==
  /\ queueItems(view) # <<>> /\ ~queueLocked(view) /\ ~view.busy
  /\ Submits("run", None, WithoutCard(Busy(view), Head(queueItems(view)).id))

sendQueueItem(i) == i \in canSend(view) /\ Submits("send", i.id, WithoutCard(Busy(view), i.id))

\* Dropping a card on another puts it in its place.
Dropped(ids, from, to) == LET rest == SelectSeq(ids, LAMBDA x : x # ids[from])
                          IN  SubSeq(rest, 1, to - 1) \o <<ids[from]>> \o SubSeq(rest, to, Len(rest))

Named(items, id) == SelectSeq(items, LAMBDA i : i.id = id)

Ordered(items, ids) == FlattenSeq([k \in DOMAIN ids |-> Named(items, ids[k])])

reorderQueue(ids) ==
  /\ Asks("reorder", [Arg EXCEPT !.order = ids])
  /\ view' = [view EXCEPT !.dock = SelectSeq(@, LAMBDA i : i.running) \o Ordered(@, ids)]
  /\ UNCHANGED server

Drop ==
  LET ids == pendingIds(view)
  IN  \E from, to \in DOMAIN ids :
        from # to /\ ~queueLocked(view) /\ reorderQueue(Dropped(ids, from, to))

setQueueMode ==
  /\ queueItems(view) # <<>>
  /\ Submits("mode", ~view.auto, [view EXCEPT !.auto = ~@])

-----------------------------------------------------------------------------
(* After the server has acted.                                             *)

\* All but a failed edit and a new order read the queue again, which ends
\* what the request has begun.  A card to cancel that is gone is no error.
Endings == {"cancel", "update", "run", "send"}

NeverEnds(r) == r.kind = "update" /\ r.reply = Failed

ActDone(r) ==
  /\ r.arg.mine /\ r.kind \in Endings \cup {"mode", "reorder"} /\ ~NeverEnds(r)
  /\ ~(r.kind = "reorder" /\ r.reply # Failed)
  /\ TakesAsking(r, r.kind, "queue",
       [Arg EXCEPT !.ends = r.kind \in Endings, !.err = r.reply = Failed])
  /\ UNCHANGED <<view, server>>

UpdateLeftBusy(r) ==
  /\ r.arg.mine /\ NeverEnds(r) /\ Takes(r, "update")
  /\ view' = [view EXCEPT !.err = TRUE]
  /\ UNCHANGED <<server, left>>

UpdateFailed(r) ==
  /\ r.arg.mine /\ NeverEnds(r) /\ Takes(r, "update")
  /\ view' = [view EXCEPT !.busy = FALSE, !.err = TRUE]
  /\ UNCHANGED <<server, left>>

ReorderDone(r) ==
  /\ r.arg.mine /\ r.kind = "reorder" /\ r.reply # Failed /\ Takes(r, "reorder")
  /\ view' = Replaced(view, r.reply)
  /\ UNCHANGED <<server, left>>

-----------------------------------------------------------------------------
(* The server: its handlers are modelled in ChatDispatch.                  *)

ServeRead(r) ==
  /\ r.kind \in {"queue", "summary"} /\ Answers(r, [items |-> server.queue, auto |-> server.auto])
  /\ UNCHANGED <<view, server, left>>

Pending == SelectSeq(server.queue, LAMBDA i : ~i.running)

Started(id) ==
  [server EXCEPT !.queue = [k \in DOMAIN @ |-> [@[k] EXCEPT !.running = @ \/ server.queue[k].id = id]]]

\* One item at a time; the head, or the one named.
ServeDispatch(r) ==
  LET wanted == IF r.kind = "run" THEN Pending ELSE Named(Pending, r.arg.item)
  IN  /\ r.kind \in {"run", "send"}
      /\ IF wanted = <<>> \/ Len(Pending) < Len(server.queue)
         THEN Answers(r, Failed) /\ UNCHANGED server
         ELSE Answers(r, "ok") /\ server' = Started(wanted[1].id)
      /\ UNCHANGED <<view, left>>

\* What is not pending any more is not found, which the dock reports for an
\* edit and not for a removal.
ServeItem(r) ==
  /\ r.kind \in {"cancel", "update"}
  /\ LET there == Named(Pending, r.arg.item) # <<>>
     IN  /\ Answers(r, IF there \/ r.kind = "cancel" THEN "ok" ELSE Failed)
         /\ server' = IF ~there THEN server
                      ELSE [server EXCEPT !.queue =
                             IF r.kind = "cancel" THEN SelectSeq(@, LAMBDA i : i.id # r.arg.item)
                             ELSE [k \in DOMAIN @ |->
                               [@[k] EXCEPT !.edited = @ \/ server.queue[k].id = r.arg.item]]]
  /\ UNCHANGED <<view, left>>

Reordered(q, ids) ==
  SelectSeq(q, LAMBDA i : i.running) \o Ordered(SelectSeq(q, LAMBDA i : ~i.running), ids)
  \o SelectSeq(q, LAMBDA i : ~i.running /\ i.id \notin ToSet(ids))

ServeSetting(r) ==
  /\ r.kind \in {"mode", "reorder"}
  /\ server' = IF r.kind = "mode" THEN [server EXCEPT !.auto = r.arg.item]
               ELSE [server EXCEPT !.queue = Reordered(@, r.arg.order)]
  /\ Answers(r, [items |-> server'.queue, auto |-> server'.auto])
  /\ UNCHANGED <<view, left>>

\* The drain takes the head when a turn has ended.
ServerDrains ==
  /\ server.auto /\ server.queue # <<>> /\ Pending = server.queue
  /\ server' = Started(Head(Pending).id)
  /\ UNCHANGED <<view, calls, left>>

\* The item has become a prompt of the chat.
ServerLands ==
  /\ Pending # server.queue
  /\ server' = [server EXCEPT !.queue = Pending,
                 !.prompts = @ \cup {i.id : i \in ToSet(server.queue) \ ToSet(Pending)}]
  /\ UNCHANGED <<view, calls, left>>

Next ==
  \/ PollQueue \/ QueueFrame \/ PollSummary \/ Reconciled \/ runNextQueue \/ Drop \/ setQueueMode
  \/ Remount \/ ServerDrains \/ ServerLands
  \/ \E i \in Cards(view) : cancelQueueItem(i) \/ startEdit(i) \/ sendQueueItem(i) \/ toggleQueueExpanded(i.id)
  \/ \E id \in view.editing : commitEdit(id)
  \/ \E r \in calls :
       \/ Forgotten(r) \/ QueueDone(r) \/ SummaryDone(r) \/ ActDone(r) \/ UpdateFailed(r) \/ ReorderDone(r)
       \/ ServeRead(r) \/ ServeDispatch(r) \/ ServeItem(r) \/ ServeSetting(r) \/ Fails(r)

Spec == Init /\ [][Next]_panelVars

-----------------------------------------------------------------------------
(* Properties.                                                             *)

\* The dock's buttons are disabled only while something is still to come
\* that enables them again, whichever requests failed, overlapped or belong
\* to a pane that is gone.
BusyHasAReason ==
  view.busy => \E r \in calls : r.arg.mine /\ (r.kind \in Endings \/ (r.kind = "queue" /\ r.arg.ends))
=============================================================================
