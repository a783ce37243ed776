------------------------------ MODULE PromptRow ------------------------------
(***************************************************************************)
(* One row of a chat's timeline (PromptRow of ChatPane.tsx, ToolRail.tsx,  *)
(* the predicates of chatStream.ts): what it shows of a prompt that is     *)
(* being worked on, and its folds.                                         *)
(*                                                                         *)
(* `server` is the prompt as the timeline's store has it.  The fold of the *)
(* internals is a <details> element: a click changes the element at once,  *)
(* a change of it by whomever is told by a toggle event later, and the     *)
(* row's signal and the element write each other.                          *)
(***************************************************************************)
EXTENDS Requests, SequencesExt

CONSTANTS
  Tools,      \* ids of calls of tools
  MaxText,    \* the assistant's text in the model
  Budgets

\* `says` is the text of the events, `live` and `thinks` the live buffers.
Prompt == [events |-> <<>>, says |-> 0, live |-> None, thinks |-> FALSE, isLast |-> TRUE]

Final(ev) == ev.type \in {"done", "error"}
Event(type, id) == [type |-> type, id |-> id]

\* element: None while it is not in the page, else whether it is open.
\* wants: history, the user's last click on it.
Row(p) == [open |-> TRUE, autoClosed |-> FALSE, element |-> None, toggling |-> FALSE,
           wants |-> None, rail |-> None, userExpanded |-> FALSE, assistantExpanded |-> FALSE,
           waited |-> 0, copied |-> FALSE]

-----------------------------------------------------------------------------
(* What is shown.                                                          *)

Finished(p) == p.events # <<>> /\ Final(Last(p.events))

isPromptPending(p) == p.isLast /\ (p.live # None \/ p.thinks \/ ~Finished(p))

assistantText(p) == IF p.live # None THEN p.live ELSE p.says

toolEvents(p) == {ev \in ToSet(p.events) : ev.type \in {"tool_call", "tool_result", "error"}}

HasInternals(p) == p.thinks \/ toolEvents(p) # {}

\* A call is dimmed once its result is there.
pairTools(p) ==
  {[id |-> id, dim |-> Event("tool_result", id) \in toolEvents(p)] :
     id \in {t \in Tools : Event("tool_call", t) \in toolEvents(p)}}

waiting(p) == isPromptPending(p) /\ assistantText(p) = 0 /\ ~p.thinks

-----------------------------------------------------------------------------
(* The row follows its prompt.                                             *)

\* The element is written when the signal changes, which makes an event.
Signal(v, open) ==
  IF open = v.open THEN v
  ELSE [v EXCEPT !.open = open,
                 !.toggling = @ \/ (v.element # None /\ v.element # open),
                 !.element = IF @ = None THEN None ELSE open]

\* Once, when the turn is over.
AutoClosed(v, p) ==
  IF isPromptPending(p) \/ v.autoClosed THEN v ELSE [Signal(v, FALSE) EXCEPT !.autoClosed = TRUE]

\* The element comes with the first thought or tool, and the rail is paired
\* from what there is then.
Framed(v, p) ==
  LET new  == v.element = None
      rail == CASE toolEvents(p) = {} -> None
                [] toolEvents(p) # {} /\ v.rail = None -> pairTools(p)
                [] OTHER -> v.rail
  IN  IF ~HasInternals(p)
      THEN [v EXCEPT !.element = None, !.toggling = FALSE, !.wants = None, !.rail = None]
      ELSE [v EXCEPT !.element = IF new THEN v.open ELSE @, !.toggling = IF new THEN v.open ELSE @,
                     !.rail = rail]

Following(v, p) ==
  LET w == Framed(AutoClosed(v, p), p)
  IN  [w EXCEPT !.waited = IF waiting(p) THEN @ ELSE 0]

Becomes(p) == server' = p /\ view' = Following(view, p) /\ UNCHANGED calls

Init ==
  /\ left \in Budgets /\ calls = {}
  /\ server = Prompt /\ view = Following(Row(Prompt), Prompt)

Speaks ==
  /\ assistantText(server) < MaxText /\ server.isLast
  /\ Becomes([server EXCEPT !.live = assistantText(server) + 1]) /\ UNCHANGED left

Thinks == ~server.thinks /\ Becomes([server EXCEPT !.thinks = TRUE]) /\ UNCHANGED left

\* A tool is called or answers, the turn fails over to a new attempt.
Emits(ev) ==
  /\ Spend("output")
  /\ Becomes(IF ev.type = "retry"
             THEN [server EXCEPT !.events = <<ev>>, !.says = 0, !.live = None, !.thinks = FALSE]
             ELSE [server EXCEPT !.events = Append(@, ev)])

\* The end, and the store's canonical copy with it.
Ends ==
  /\ Spend("output")
  /\ \E type \in {"done", "error"} :
       Becomes([server EXCEPT !.events = Append(@, Event(type, None)), !.says = assistantText(server),
                              !.live = None, !.thinks = FALSE])

Newer == server.isLast /\ Becomes([server EXCEPT !.isLast = FALSE]) /\ UNCHANGED left

\* Scrolled out of the window of rows and back.
Recycle ==
  /\ Spend("looks")
  /\ view' = Following([Row(server) EXCEPT !.open = isPromptPending(server)], server)
  /\ UNCHANGED <<server, calls>>

-----------------------------------------------------------------------------
(* The user.                                                               *)

Sees(v) == view' = v /\ UNCHANGED <<server, calls, left>>

\* No click is so quick that it comes before the event of the last change.
ClickInternals ==
  /\ view.element # None /\ ~view.toggling /\ Spend("looks")
  /\ view' = [view EXCEPT !.element = ~@, !.wants = ~view.element, !.toggling = TRUE]
  /\ UNCHANGED <<server, calls>>

ToggledByAnyone(v) == [v EXCEPT !.toggling = FALSE, !.open = v.element]

\* A toggle event is trusted, whoever changed the element.
Toggled(v) == [v EXCEPT !.toggling = FALSE, !.open = v.element, !.autoClosed = TRUE]

onToggleInternals == view.toggling /\ Sees(Toggled(view))

ToggleUser == Sees([view EXCEPT !.userExpanded = ~@])

ToggleAssistant ==
  /\ ~isPromptPending(server) /\ assistantText(server) = MaxText
  /\ Sees([view EXCEPT !.assistantExpanded = ~@])

Tick == waiting(server) /\ view.waited < 3 /\ Sees([view EXCEPT !.waited = @ + 1])

\* The check mark after a copy, and its end.
doCopy == Sees([view EXCEPT !.copied = TRUE]) \/ (view.copied /\ Sees([view EXCEPT !.copied = FALSE]))

Next ==
  \/ Speaks \/ Thinks \/ Ends \/ Newer \/ Recycle
  \/ ClickInternals \/ onToggleInternals \/ ToggleUser \/ ToggleAssistant \/ Tick \/ doCopy
  \/ \E id \in Tools : Emits(Event("tool_call", id)) \/ Emits(Event("tool_result", id))
  \/ Emits(Event("retry", None))

Spec == Init /\ [][Next]_panelVars

-----------------------------------------------------------------------------
(* Properties.                                                             *)

\* What the user has folded or unfolded stays so: the end of the turn folds
\* the internals once, and not over a click, whichever of the click's event,
\* the page's own toggle events and the end comes first.
LastClickWins == view.wants # None => view.element = view.wants
=============================================================================
