----------------------------- MODULE Schedules -----------------------------
(***************************************************************************)
(* Scheduled messages of one chat: the rows, the handlers that edit them,  *)
(* and the ticker that sends the due ones                                  *)
(* (crates/agentgrove-api/src/schedules.rs over agentgrove-store's         *)
(* schedule.rs).                                                           *)
(*                                                                         *)
(* The ticker is one task: it reads the due rows, then for each in turn    *)
(* marks it as run, looks for a copy that still waits in the queue, and    *)
(* sends.  An edit reads the row, computes every column and writes them    *)
(* all.  Each of these steps is one statement of the database, and the     *)
(* others' steps come between.  Sending is send_message, of which only the *)
(* outcome matters here (ChatDispatch models it): a turn, a queue row, an  *)
(* error, or "no such chat".                                               *)
(*                                                                         *)
(* Times are natural numbers.  An interval of 0 stands for a null one: the *)
(* schedule is one-time.                                                   *)
(***************************************************************************)
EXTENDS Naturals, FiniteSets

CONSTANTS
  Jobs,      \* schedule ids; each is created at most once
  Editors,   \* PATCH requests that may be under way at once
  Bodies,    \* message texts
  Creations, \* the rows clients create: records with body, every and next
  Patches,   \* the edits clients ask for, as sent: see Patch
  Snooze,    \* countdown of a one-time schedule that is enabled again
  Absent,    \* a field a request leaves out; no row
  MaxTime,   \* bound on the clock
  MaxEdits,  \* bound on the number of edits
  MaxFaults  \* bound on crashes, failing statements and rolled-back rows

Columns == [body : Bodies, every : Nat, next : Nat, on : BOOLEAN]

\* Body, interval (null is 0), time, enabled.
Patch == [body : Bodies \cup {Absent}, every : Nat \cup {Absent},
          next : Nat \cup {Absent}, on : BOOLEAN \cup {Absent}]

ASSUME ParametersOK ==
  /\ Creations \subseteq [body : Bodies, every : Nat, next : Nat]
  /\ Patches \subseteq Patch
  /\ Snooze \in Nat \ {0}
  /\ Absent \notin Bodies \cup BOOLEAN \cup Nat
  /\ Absent \notin Columns
  /\ MaxTime \in Nat /\ MaxEdits \in Nat /\ MaxFaults \in Nat

VARIABLES
  now,       \* the clock
  row,       \* chat_schedules: per job its columns, or Absent
  used,      \* the jobs that have been created
  alive,     \* send_message finds the chat
  pending,   \* per text: its copies in the queue with status pending
  running,   \* per text: its copies with status running
  tick,      \* the ticker's await: "idle", "mark", "look", "send", "pause"
  at,        \* fire_due's argument
  due,       \* what is left of its list, as read
  firing,    \* the element it is at
  edit,      \* per editor: the edit it is about to write, or Absent
  edits, faults, \* how many edits and faults there have been
  returned,  \* history, per text: copies rolled back to pending
  from,      \* history, per job: when its countdown was last started
  runs,      \* history, per job: how often it has been marked since then
  last,      \* history, per job: the time of the last mark, or 0
  clobbered  \* history: jobs whose row an edit wrote over a newer one

queueVars  == <<pending, running, returned>>
tickVars   == <<tick, at, due, firing>>
ghostVars  == <<from, runs, last, clobbered>>
vars == <<now, row, used, alive, pending, running, returned, tick, at, due,
          firing, edit, edits, faults, from, runs, last, clobbered>>

Rows    == {j \in Jobs : row[j] # Absent}
Listed  == [job : Jobs, body : Bodies, next : Nat]
Edit    == [job : Jobs, read : Columns, new : Columns,
            restart : BOOLEAN, time : Nat]

TypeOK ==
  /\ now \in Nat
  /\ row \in [Jobs -> Columns \cup {Absent}]
  /\ used \subseteq Jobs /\ Rows \subseteq used
  /\ alive \in BOOLEAN
  /\ pending \in [Bodies -> Nat] /\ running \in [Bodies -> Nat]
  /\ tick \in {"idle", "mark", "look", "send", "pause"}
  /\ at \in Nat /\ at <= now
  /\ due \subseteq Listed
  /\ firing \in Listed \cup {Absent}
  /\ tick \in {"look", "send", "pause"} => firing \in Listed
  /\ edit \in [Editors -> Edit \cup {Absent}]
  /\ edits \in Nat /\ faults \in Nat /\ returned \in [Bodies -> Nat]
  /\ from \in [Jobs -> Nat] /\ runs \in [Jobs -> Nat] /\ last \in [Jobs -> Nat]
  /\ clobbered \subseteq Jobs

Init ==
  /\ now = 0
  /\ row = [j \in Jobs |-> Absent] /\ used = {}
  /\ alive = TRUE
  /\ pending = [b \in Bodies |-> 0] /\ running = [b \in Bodies |-> 0]
  /\ tick = "idle" /\ at = 0 /\ due = {} /\ firing = Absent
  /\ edit = [e \in Editors |-> Absent]
  /\ edits = 0 /\ faults = 0 /\ returned = [b \in Bodies |-> 0]
  /\ from = [j \in Jobs |-> 0] /\ runs = [j \in Jobs |-> 0] /\ last = [j \in Jobs |-> 0]
  /\ clobbered = {}

-----------------------------------------------------------------------------
\* Requests.

\* Start j's countdown afresh.
Restart(j, time) ==
  /\ from' = [from EXCEPT ![j] = time]
  /\ runs' = [runs EXCEPT ![j] = 0]
  /\ clobbered' = clobbered \ {j}
  /\ last' = last

\* POST: an interval and no time, or a time to come and no interval.
Create(j, c) ==
  /\ j \notin used /\ alive
  /\ IF c.every = 0 THEN c.next > now ELSE c.next = 0
  /\ row' = [row EXCEPT ![j] =
       [body |-> c.body, every |-> c.every, on |-> TRUE,
        next |-> IF c.every = 0 THEN c.next ELSE now + c.every]]
  /\ used' = used \cup {j}
  /\ Restart(j, now)
  /\ UNCHANGED <<now, alive, queueVars, tickVars, edit, edits, faults>>

\* DELETE.
Delete(j) ==
  /\ j \in Rows
  /\ row' = [row EXCEPT ![j] = Absent]
  /\ UNCHANGED <<now, used, alive, queueVars, tickVars, edit, edits, faults, ghostVars>>

\* serde reads a null interval as a field that is left out.
Parsed(w) == [w EXCEPT !.every = IF @ = 0 THEN Absent ELSE @]

\* validate.
Accepted(w) ==
  LET p == Parsed(w)
  IN  /\ p.every = Absent \/ p.next = Absent
      /\ p.next # Absent => p.next > now

OrElse(x, old) == IF x = Absent THEN old ELSE x

\* A bug in the restart: a new interval does not restart the countdown.
RestartsIgnoresInterval(cur, p) ==
  \/ OrElse(p.next, cur.next) # cur.next
  \/ OrElse(p.on, cur.on) /\ ~cur.on

\* A field of the timing changes, or the schedule is enabled again.
Restarts(cur, p) ==
  \/ OrElse(p.every, cur.every) # cur.every
  \/ OrElse(p.next, cur.next) # cur.next
  \/ OrElse(p.on, cur.on) /\ ~cur.on

\* The columns ScheduleRepo::update writes.
Updated(cur, p) ==
  LET every == OrElse(p.every, cur.every)
      restarted == IF every # 0 THEN now + every ELSE OrElse(p.next, now + Snooze)
  IN  [body |-> OrElse(p.body, cur.body), every |-> every, on |-> OrElse(p.on, cur.on),
       next |-> IF Restarts(cur, p) THEN restarted ELSE OrElse(p.next, cur.next)]

\* PATCH: read the row and work out its new columns.
PatchRead(e, j, w) ==
  /\ edit[e] = Absent /\ j \in Rows /\ Accepted(w)
  /\ edits < MaxEdits
  /\ edits' = edits + 1
  /\ edit' = [edit EXCEPT ![e] =
       [job |-> j, read |-> row[j], new |-> Updated(row[j], Parsed(w)),
        restart |-> Restarts(row[j], Parsed(w)), time |-> now]]
  /\ UNCHANGED <<now, row, used, alive, queueVars, tickVars, faults, ghostVars>>

\* PATCH: write them, unless the row is gone.
PatchWrite(e) ==
  /\ edit[e] # Absent
  /\ LET j == edit[e].job
     IN  IF j \in Rows
         THEN /\ row' = [row EXCEPT ![j] = edit[e].new]
              /\ IF edit[e].restart
                 THEN Restart(j, edit[e].time)
                 ELSE /\ clobbered' = IF row[j] = edit[e].read THEN clobbered
                                      ELSE clobbered \cup {j}
                      /\ UNCHANGED <<from, runs, last>>
         ELSE UNCHANGED <<row, ghostVars>>
  /\ edit' = [edit EXCEPT ![e] = Absent]
  /\ UNCHANGED <<now, used, alive, queueVars, tickVars, edits, faults>>

-----------------------------------------------------------------------------
\* The ticker.

Due == {[job |-> j, body |-> row[j].body, next |-> row[j].next] :
          j \in {k \in Rows : row[k].on /\ row[k].next <= now}}

\* A tick with something due: the query.
Wake ==
  /\ tick = "idle" /\ Due # {}
  /\ at' = now /\ due' = Due /\ tick' = "mark"
  /\ UNCHANGED <<now, row, used, alive, queueVars, firing, edit, edits, faults, ghostVars>>

\* On to the next element of the list.
Continue == tick' = IF due' = {} THEN "idle" ELSE "mark"

Spend == faults < MaxFaults /\ faults' = faults + 1

\* A bug in the cadence: a late run is counted from its old slot only.
AdvancedNoCatchUp(c) ==
  [c EXCEPT !.on = @ /\ c.every # 0, !.next = IF c.every = 0 THEN @ ELSE @ + c.every]

\* A bug in the cadence: a one-time schedule is left enabled.
AdvancedStaysOn(c) ==
  [c EXCEPT !.next = CASE c.every = 0 -> @
                       [] c.every # 0 /\ @ + c.every > at -> @ + c.every
                       [] OTHER -> at + c.every]

\* mark_ran's UPDATE.
Advanced(c) ==
  [c EXCEPT !.on = @ /\ c.every # 0,
            !.next = CASE c.every = 0 -> @
                       [] c.every # 0 /\ @ + c.every > at -> @ + c.every
                       [] OTHER -> at + c.every]

\* Take the earliest of the list and mark it as run; a row that is gone
\* matches no UPDATE, which is not an error.
Mark(d) ==
  /\ tick = "mark" /\ d \in due /\ \A o \in due : d.next <= o.next
  /\ due' = due \ {d}
  /\ IF d.job \in Rows
     THEN /\ row' = [row EXCEPT ![d.job] = Advanced(@)]
          /\ runs' = [runs EXCEPT ![d.job] = @ + 1]
          /\ last' = [last EXCEPT ![d.job] = at]
     ELSE UNCHANGED <<row, runs, last>>
  /\ firing' = d /\ tick' = "look"
  /\ UNCHANGED <<now, used, alive, queueVars, at, edit, edits, faults, from, clobbered>>

\* mark_ran fails: left for a later tick.
MarkFails(d) ==
  /\ tick = "mark" /\ d \in due /\ \A o \in due : d.next <= o.next
  /\ Spend
  /\ due' = due \ {d} /\ Continue
  /\ UNCHANGED <<now, row, used, alive, queueVars, at, firing, edit, edits, ghostVars>>

\* A bug in the check: a waiting copy does not stop the next one.
LookAway ==
  /\ tick = "look"
  /\ tick' = "send" /\ due' = due
  /\ UNCHANGED <<now, row, used, alive, queueVars, at, firing, edit, edits, faults, ghostVars>>

\* A bug in the check: the ticker waits for the copy to go.
LookWaits ==
  /\ tick = "look" /\ pending[firing.body] = 0
  /\ tick' = "send" /\ due' = due
  /\ UNCHANGED <<now, row, used, alive, queueVars, at, firing, edit, edits, faults, ghostVars>>

\* Skip the send while a copy waits.
Look ==
  /\ tick = "look"
  /\ due' = due
  /\ IF pending[firing.body] > 0 THEN Continue ELSE tick' = "send"
  /\ UNCHANGED <<now, row, used, alive, queueVars, at, firing, edit, edits, faults, ghostVars>>

\* send_message: a turn starts, or the message is queued.
Send ==
  /\ tick = "send" /\ alive
  /\ due' = due /\ Continue
  /\ \/ UNCHANGED pending
     \/ pending' = [pending EXCEPT ![firing.body] = @ + 1]
  /\ UNCHANGED <<now, row, used, alive, running, returned, at, firing, edit, edits, faults,
                 ghostVars>>

\* send_message fails.
SendFails ==
  /\ tick = "send" /\ Spend
  /\ due' = due /\ Continue
  /\ UNCHANGED <<now, row, used, alive, queueVars, at, firing, edit, edits, ghostVars>>

\* send_message finds no chat.
SendGone ==
  /\ tick = "send" /\ ~alive
  /\ tick' = "pause"
  /\ UNCHANGED <<now, row, used, alive, queueVars, at, due, firing, edit, edits, faults,
                 ghostVars>>

\* The schedule of a chat that is gone is disabled.
Pause ==
  /\ tick = "pause"
  /\ due' = due /\ Continue
  /\ row' = IF firing.job \in Rows THEN [row EXCEPT ![firing.job].on = FALSE] ELSE row
  /\ UNCHANGED <<now, used, alive, queueVars, at, firing, edit, edits, faults, ghostVars>>

-----------------------------------------------------------------------------
\* The rest of the system.

Clock ==
  /\ now < MaxTime
  /\ now' = now + 1
  /\ UNCHANGED <<row, used, alive, queueVars, tickVars, edit, edits, faults, ghostVars>>

\* The chat is deleted or restored.
ChatFlips ==
  /\ alive' = ~alive
  /\ UNCHANGED <<now, row, used, queueVars, tickVars, edit, edits, faults, ghostVars>>

\* The queue cancels a copy, pops it while it has none out, finishes it, or
\* rolls it back.
QueueMoves(b) ==
  /\ \/ /\ pending[b] > 0
        /\ pending' = [pending EXCEPT ![b] = @ - 1]
        /\ \/ running' = running
           \/ running[b] = 0 /\ running' = [running EXCEPT ![b] = 1]
        /\ UNCHANGED <<returned, faults>>
     \/ /\ running[b] > 0
        /\ running' = [running EXCEPT ![b] = @ - 1]
        /\ UNCHANGED <<pending, returned, faults>>
     \/ /\ running[b] > 0 /\ Spend
        /\ running' = [running EXCEPT ![b] = @ - 1]
        /\ pending' = [pending EXCEPT ![b] = @ + 1]
        /\ returned' = [returned EXCEPT ![b] = @ + 1]
  /\ UNCHANGED <<now, row, used, alive, tickVars, edit, edits, ghostVars>>

\* The process dies and starts again: running rows become pending.
Crash ==
  /\ Spend
  /\ tick' = "idle" /\ due' = {} /\ firing' = Absent
  /\ edit' = [e \in Editors |-> Absent]
  /\ pending' = [b \in Bodies |-> pending[b] + running[b]]
  /\ running' = [b \in Bodies |-> 0]
  /\ returned' = [b \in Bodies |-> returned[b] + running[b]]
  /\ UNCHANGED <<now, row, used, alive, at, edits, ghostVars>>

-----------------------------------------------------------------------------
Ticker == Wake \/ (\E d \in due : Mark(d)) \/ Look \/ Send \/ SendGone \/ Pause

Next ==
  \/ \E j \in Jobs : Delete(j) \/ \E c \in Creations : Create(j, c)
  \/ \E e \in Editors : PatchWrite(e) \/ \E j \in Jobs, w \in Patches : PatchRead(e, j, w)
  \/ Ticker
  \/ (\E d \in due : MarkFails(d)) \/ SendFails
  \/ Clock \/ ChatFlips \/ Crash
  \/ \E b \in Bodies : QueueMoves(b)

Spec == Init /\ [][Next]_vars

\* The ticker is one task that the runtime keeps polling, and its queries
\* come back.  Users, the clock and faults are not fair.
FairSpec == Spec /\ WF_vars(Ticker)

-----------------------------------------------------------------------------
\* Properties.  An edit that writes over a row that changed since it read it
\* undoes that change; the properties of a row are stated for the others.
Sound == Rows \ clobbered

\* A one-time schedule is marked, and so sent, at most once each time a user
\* arms it: across late ticks, edits, pauses, failures and restarts.
OneRunPerArming ==
  \A j \in Sound : row[j].every = 0 => runs[j] <= 1 /\ (runs[j] = 1 => ~row[j].on)

\* A recurring schedule runs at most once per interval since its countdown
\* began, even when the ticker marks it from a list older than the countdown.
Cadence ==
  \A j \in Sound : row[j].every > 0 => row[j].next >= from[j] + (runs[j] + 1) * row[j].every

\* A missed run fires once, not once per missed interval (schedule.rs
\* 106-109): a row that has run since its countdown began is not due again
\* at the time of that run.
CatchesUp ==
  \A j \in Sound : row[j].every > 0 /\ runs[j] > 0 => row[j].next > last[j]

\* Copies of a text do not pile up behind a busy chat or a manual queue
\* (schedules.rs 192-202): more than one waits only if the queue has put
\* copies back that had left it.
NoPileUp == \A b \in Bodies : pending[b] <= 1 + returned[b]

\* Whatever happens to the schedules before it in the list, one that is due
\* is taken up: it is advanced, disabled or gone.
DueIsServed ==
  \A j \in Jobs :
    (j \in Rows /\ row[j].on /\ row[j].next <= now)
      ~> (j \notin Rows \/ ~row[j].on \/ row[j].next > now)
=============================================================================
