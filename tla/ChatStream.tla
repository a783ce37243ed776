----------------------------- MODULE ChatStream -----------------------------
(***************************************************************************)
(* The timeline of one chat as the web client holds it, and what the       *)
(* frames of the chat's topic, the answers of the server and the user's    *)
(* own messages do to it (core/chat/chatStream.ts and the store updates of *)
(* core/chat/createChatSession.ts, which ChatPane.tsx repeats).            *)
(*                                                                         *)
(* Everything here is a function of its arguments.  An id is a record with *)
(* the chat it belongs to; a placeholder's seq is -1.  Text is the         *)
(* sequence of the numbers of the deltas it was put together from, so a    *)
(* delta that is missing or appears twice shows.                           *)
(***************************************************************************)
EXTENDS Integers, Sequences, SequencesExt, Filters

CONSTANTS
  MaxPrompts,   \* MAX_PROMPTS_IN_VIEW
  MaxEvents     \* MAX_EVENTS_IN_VIEW

ASSUME CapsOK == MaxPrompts \in Nat \ {0} /\ MaxEvents \in Nat \ {0, 1}

NoText == [id \in {} |-> <<>>]

\* A store with nothing loaded.
FreshChatStore ==
  [loaded |-> FALSE, prompts |-> <<>>, liveTokens |-> NoText, liveThinking |-> NoText,
   loadingOlder |-> FALSE, atStart |-> FALSE]

IdsOf(prompts)   == {prompts[i].id : i \in DOMAIN prompts}
TextsOf(prompts) == {prompts[i].content : i \in DOMAIN prompts}
IndexOf(prompts, id) == SelectInSeq(prompts, LAMBDA p : p.id = id)

Terminal(ev) == ev.type \in {"done", "error"}
Delta(ev)    == ev.type \in {"token", "thinking"}
Finished(p)  == p.events # <<>> /\ Terminal(Last(p.events))
Pending(p)   == p.seq = -1

Grown(live, id, text) ==
  [k \in DOMAIN live \cup {id} |->
     IF k # id THEN live[k] ELSE IF id \in DOMAIN live THEN live[id] \o text ELSE text]

Without(live, ids) == [k \in DOMAIN live \ ids |-> live[k]]

DropLive(s, ids) ==
  [s EXCEPT !.liveTokens = Without(@, ids), !.liveThinking = Without(@, ids)]

-----------------------------------------------------------------------------
(* Frames.                                                                 *)

\* The bound: at the cap the oldest entry makes way for a sentinel that
\* counts; with a sentinel, the one after it does.
AppendEventBounded(events, ev) ==
  IF Len(events) < MaxEvents THEN Append(events, ev)
  ELSE LET sentinel == IF events[1].type = "truncated" THEN [events[1] EXCEPT !.n = @ + 1]
                                                       ELSE [type |-> "truncated", n |-> 1]
       IN  Append(<<sentinel>> \o SubSeq(events, 3, Len(events)), ev)

ApplyWsFrame(s, frame) ==
  LET ev == frame.event
      i  == IndexOf(s.prompts, frame.id)
  IN  CASE ev.type = "token"    -> [s EXCEPT !.liveTokens = Grown(@, frame.id, <<ev.n>>)]
        [] ev.type = "thinking" -> [s EXCEPT !.liveThinking = Grown(@, frame.id, <<ev.n>>)]
        [] ~Delta(ev) /\ i = 0  -> s
        [] ev.type = "retry" /\ i # 0 ->
             DropLive([s EXCEPT !.prompts[i].events = <<ev>>], {frame.id})
        [] Terminal(ev) /\ i # 0 ->
             DropLive([s EXCEPT !.prompts[i].events = AppendEventBounded(@, ev)], {frame.id})
        [] OTHER -> [s EXCEPT !.prompts[i].events = AppendEventBounded(@, ev)]

\* A burst of deltas committed at once.
Flushed(s, frames) ==
  LET after[n \in 0..Len(frames)] == IF n = 0 THEN s ELSE ApplyWsFrame(after[n - 1], frames[n])
  IN  after[Len(frames)]

-----------------------------------------------------------------------------
(* What a prompt says at the moment.                                       *)

TextIn(events, type) ==
  LET of == SelectSeq(events, LAMBDA ev : ev.type = type)
  IN  [k \in DOMAIN of |-> of[k].n]

AssistantText(p, liveTokens) ==
  IF p.id \in DOMAIN liveTokens THEN liveTokens[p.id] ELSE TextIn(p.events, "token")

\* The tail has a turn without an end: Stop is offered and the view polled.
IsStreaming(s) == s.prompts # <<>> /\ ~Finished(Last(s.prompts))

-----------------------------------------------------------------------------
(* What answers of the server and the user's messages do.  A view is what  *)
(* GET /api/chats/:id returns, a page what the backfill returns.           *)

KeepTail(prompts) ==
  SubSeq(prompts, IF Len(prompts) > MaxPrompts THEN Len(prompts) - MaxPrompts + 1 ELSE 1,
         Len(prompts))

KeepHead(prompts) == SubSeq(prompts, 1, IF Len(prompts) > MaxPrompts THEN MaxPrompts ELSE Len(prompts))

AtStart(view) == Len(view.prompts) >= view.total

Loaded(view) ==
  [FreshChatStore EXCEPT !.loaded = TRUE, !.prompts = view.prompts, !.atStart = AtStart(view)]

\* Local prompts that the view does not have and has not made real.
LocalOnly(s, view) ==
  Only(s.prompts, {p \in ToSet(s.prompts) :
                     /\ p.id \notin IdsOf(view.prompts)
                     /\ ~(Pending(p) /\ p.content \in TextsOf(view.prompts))})

MergedByAppending(s, view) == s.prompts \o SelectSeq(view.prompts, LAMBDA p : p.id \notin IdsOf(s.prompts))

MergedWithoutPlaceholders(s, view) ==
  LET local == SelectSeq(LocalOnly(s, view), LAMBDA p : ~Pending(p))
      shown == view.prompts
  IN  SelectSeq(local, LAMBDA p : shown # <<>> => p.seq < shown[1].seq) \o shown
        \o SelectSeq(local, LAMBDA p : shown # <<>> => p.seq > Last(shown).seq)

\* Older local prompts, the view, then newer local ones and placeholders.
Merged(s, view) ==
  LET local  == LocalOnly(s, view)
      shown  == view.prompts
      before == {p \in ToSet(local) : p.seq >= 0 /\ (shown # <<>> => p.seq < shown[1].seq)}
      after  == {p \in ToSet(local) : p.seq < 0 \/ (shown # <<>> => p.seq > Last(shown).seq)}
  IN  Only(local, before) \o shown \o Only(local, after)

Reconciled(s, view) ==
  DropLive([s EXCEPT !.loaded = TRUE, !.atStart = AtStart(view), !.prompts = KeepTail(Merged(s, view))],
           {p.id : p \in {q \in ToSet(view.prompts) : Finished(q)}})

Backfilled(s, page) ==
  [s EXCEPT !.prompts = KeepHead(page.prompts \o @), !.atStart = page.atStart]

Placeholder(id, text) == [id |-> id, seq |-> -1, content |-> text, events |-> <<>>]

WithPlaceholder(s, p) ==
  [s EXCEPT !.prompts = IF Len(@) + 1 > MaxPrompts THEN Tail(Append(@, p)) ELSE Append(@, p)]

WithoutPrompt(s, id) == [s EXCEPT !.prompts = Only(@, {p \in ToSet(@) : p.id # id})]

\* The server's record in place of the placeholder, or at the end.
Swapped(s, id, prompt) ==
  LET i == IndexOf(s.prompts, id)
  IN  [s EXCEPT !.prompts = IF i # 0 THEN ReplaceAt(@, i, prompt) ELSE Append(@, prompt)]

Crashed == [type |-> "error", n |-> 0]
=============================================================================
