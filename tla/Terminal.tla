------------------------------ MODULE Terminal ------------------------------
(***************************************************************************)
(* One terminal session: the pty, its reader and waiter threads, and the   *)
(* clients that follow its output over a WebSocket or by polling           *)
(* (crates/agentgrove-api/src/terminal.rs).                                *)
(*                                                                         *)
(* The threads and the sockets' tasks run in parallel; a step is what one  *)
(* of them does under one mutex, with one channel operation or one write   *)
(* to its client.  Output is a sequence of chunks, numbered as the shell   *)
(* writes them, one unit of the history's capacity each.  Only the reader  *)
(* sends on the broadcast channel, so its i-th message is chunk i, and a   *)
(* receiver is the number of chunks it has taken; the channel keeps the    *)
(* last Capacity chunks.                                                   *)
(*                                                                         *)
(* Input and resizing are left out: they change what the shell prints, not *)
(* how it is delivered.                                                    *)
(***************************************************************************)
EXTENDS Naturals, Sequences, FiniteSets

CONSTANTS
  Sockets,          \* WebSocket clients, each of which may reconnect
  Capacity,         \* of Session::output
  HistoryCapacity,  \* of Session::history
  MaxOutput         \* bound on the chunks written

ASSUME SizesOK ==
  /\ Capacity \in Nat \ {0}
  /\ HistoryCapacity \in Nat \ {0}
  /\ MaxOutput \in Nat

VARIABLES
  holder,    \* who has the pty's slave side open: "shell", "job" (only
             \* processes it left behind) or "nobody"
  written,   \* chunks written to the pty
  taken,     \* chunks the reader has read
  history,   \* Session::history
  streamed,  \* chunks sent on Session::output
  reader,    \* the reader thread runs
  waiter,    \* the waiter thread runs
  exited,    \* Session::exited
  listed,    \* the session is in TerminalManager::sessions
  stage,     \* per socket, what terminal_socket does next
  cursor,    \* per socket: chunks its receiver has taken
  out,       \* per socket: the chunks its client has been sent
  told,      \* the sockets whose client has been sent the exit frame
  base,      \* history, per socket: last chunk trimmed before its snapshot
  since,     \* the poller's offset
  view       \* what the poller has been given since it started

ptyVars    == <<holder, written>>
readVars   == <<taken, history, streamed, reader>>
socketVars == <<stage, cursor, out, told, base>>
pollVars   == <<since, view>>
vars == <<holder, written, taken, history, streamed, reader, waiter, exited,
          listed, stage, cursor, out, told, base, since, view>>

Chunks == 1..taken
Elements(s) == {s[i] : i \in DOMAIN s}

TypeOK ==
  /\ holder \in {"shell", "job", "nobody"}
  /\ written \in Nat /\ taken \in 0..written /\ streamed \in 0..taken
  /\ history \in Seq(Chunks) /\ Len(history) <= HistoryCapacity
  /\ reader \in BOOLEAN /\ waiter \in BOOLEAN
  /\ exited \in BOOLEAN /\ listed \in BOOLEAN
  /\ stage \in [Sockets -> {"off", "snapshot", "check", "live", "resync"}]
  /\ cursor \in [Sockets -> 0..streamed]
  /\ out \in [Sockets -> Seq(Chunks)]
  /\ told \subseteq Sockets
  /\ base \in [Sockets -> 0..taken]
  /\ since \in Nat /\ view \in Seq(Chunks)

Init ==
  /\ holder = "shell" /\ written = 0
  /\ taken = 0 /\ history = <<>> /\ streamed = 0
  /\ reader = TRUE /\ waiter = TRUE /\ exited = FALSE /\ listed = TRUE
  /\ stage = [s \in Sockets |-> "off"]
  /\ cursor = [s \in Sockets |-> 0]
  /\ out = [s \in Sockets |-> <<>>]
  /\ told = {}
  /\ base = [s \in Sockets |-> 0]
  /\ since = 0 /\ view = <<>>

-----------------------------------------------------------------------------
\* The pty: the shell and the processes it starts.

Output ==
  /\ holder # "nobody" /\ written < MaxOutput
  /\ written' = written + 1
  /\ UNCHANGED <<holder, readVars, waiter, exited, listed, socketVars, pollVars>>

\* The shell ends, with or without background processes that keep the pty;
\* or the last of these ends.
Hangup ==
  /\ \/ holder = "shell" /\ holder' \in {"job", "nobody"}
     \/ holder = "job" /\ holder' = "nobody"
  /\ UNCHANGED <<written, readVars, waiter, exited, listed, socketVars, pollVars>>

-----------------------------------------------------------------------------
\* The session's threads.

\* A bug in the cut: it comes one chunk early.
KeptShort(c) ==
  LET h == Append(history, c)
  IN  IF Len(h) >= HistoryCapacity THEN Tail(h) ELSE h

\* The history with chunk c added and cut to its capacity.
Kept(c) ==
  LET h == Append(history, c)
  IN  IF Len(h) > HistoryCapacity THEN Tail(h) ELSE h

\* The reader has read a chunk: into the history.
Read ==
  /\ reader /\ streamed = taken /\ taken < written
  /\ taken' = taken + 1
  /\ history' = Kept(taken + 1)
  /\ UNCHANGED <<ptyVars, streamed, reader, waiter, exited, listed, socketVars, pollVars>>

\* Then to the live subscribers.
Stream ==
  /\ reader /\ streamed < taken
  /\ streamed' = taken
  /\ UNCHANGED <<ptyVars, taken, history, reader, waiter, exited, listed, socketVars, pollVars>>

\* End of file: nobody holds the pty and everything has been read.
ReaderEnds ==
  /\ reader /\ streamed = taken /\ taken = written /\ holder = "nobody"
  /\ reader' = FALSE /\ exited' = TRUE
  /\ UNCHANGED <<ptyVars, taken, history, streamed, waiter, listed, socketVars, pollVars>>

\* A bug in the waiter: it waits for the end of file.
WaiterWantsEof ==
  /\ waiter /\ holder = "nobody"
  /\ waiter' = FALSE /\ exited' = TRUE
  /\ UNCHANGED <<ptyVars, readVars, listed, socketVars, pollVars>>

\* try_wait finds the shell gone.
WaiterEnds ==
  /\ waiter /\ holder # "shell"
  /\ waiter' = FALSE /\ exited' = TRUE
  /\ UNCHANGED <<ptyVars, readVars, listed, socketVars, pollVars>>

\* DELETE: the session leaves the map and its shell is sent a signal.
Kill ==
  /\ listed
  /\ listed' = FALSE /\ exited' = TRUE
  /\ UNCHANGED <<ptyVars, readVars, waiter, socketVars, pollVars>>

-----------------------------------------------------------------------------
\* A socket (terminal_socket).

Send(s, chunks) == out' = [out EXCEPT ![s] = @ \o chunks]
Goto(s, next) == stage' = [stage EXCEPT ![s] = next]

\* subscribe: a receiver first,
Subscribe(s, next) ==
  /\ cursor' = [cursor EXCEPT ![s] = streamed]
  /\ Goto(s, next)

\* A client connects; the one before it is forgotten.
Connect(s) ==
  /\ stage[s] = "off" /\ listed
  /\ Subscribe(s, "snapshot")
  /\ out' = [out EXCEPT ![s] = <<>>]
  /\ told' = told \ {s}
  /\ base' = [base EXCEPT ![s] = taken]
  /\ UNCHANGED <<ptyVars, readVars, waiter, exited, listed, pollVars>>

\* then the history, which goes to the client.
Snapshot(s) ==
  /\ stage[s] \in {"snapshot", "resync"}
  /\ Send(s, history)
  /\ base' = [base EXCEPT ![s] = taken - Len(history)]
  /\ Goto(s, IF stage[s] = "snapshot" THEN "check" ELSE "live")
  /\ UNCHANGED <<ptyVars, readVars, waiter, exited, listed, cursor, told, pollVars>>

IsExited == exited \/ ~listed

Tell(s) == told' = told \cup {s} /\ Goto(s, "off")

\* A bug in the replay: the receiver is taken when the socket goes live.
CheckSubscribes(s) ==
  /\ stage[s] = "check"
  /\ IF IsExited THEN Tell(s) /\ cursor' = cursor
     ELSE told' = told /\ Subscribe(s, "live")
  /\ UNCHANGED <<ptyVars, readVars, waiter, exited, listed, out, base, pollVars>>

\* After the replay: the shell may have exited already.
Check(s) ==
  /\ stage[s] = "check"
  /\ IF IsExited THEN Tell(s) ELSE told' = told /\ Goto(s, "live")
  /\ UNCHANGED <<ptyVars, readVars, waiter, exited, listed, cursor, out, base, pollVars>>

\* The channel has overwritten a chunk this receiver has not taken.
Overrun(s) == streamed - cursor[s] > Capacity

\* rx.recv() yields a chunk.
Receive(s) ==
  /\ stage[s] = "live" /\ ~Overrun(s) /\ cursor[s] < streamed
  /\ cursor' = [cursor EXCEPT ![s] = @ + 1]
  /\ Send(s, <<cursor[s] + 1>>)
  /\ UNCHANGED <<ptyVars, readVars, waiter, exited, listed, stage, told, base, pollVars>>

\* rx.recv() yields Lagged: subscribe again, unless the session is gone.
Lag(s) ==
  /\ stage[s] = "live" /\ Overrun(s)
  /\ IF listed
     THEN Subscribe(s, "resync")
     ELSE cursor' = [cursor EXCEPT ![s] = streamed - Capacity] /\ stage' = stage
  /\ UNCHANGED <<ptyVars, readVars, waiter, exited, listed, out, told, base, pollVars>>

\* rx.recv() yields Closed: the threads have ended and dropped the session.
Closed(s) ==
  /\ stage[s] = "live" /\ cursor[s] = streamed
  /\ ~listed /\ ~reader /\ ~waiter
  /\ Tell(s)
  /\ UNCHANGED <<ptyVars, readVars, waiter, exited, listed, cursor, out, base, pollVars>>

\* The exit poll: one more chunk, if the receiver has one, and the notice.
ExitTick(s) ==
  /\ stage[s] = "live" /\ IsExited
  /\ IF cursor[s] < streamed /\ ~Overrun(s)
     THEN cursor' = [cursor EXCEPT ![s] = @ + 1] /\ Send(s, <<cursor[s] + 1>>)
     ELSE UNCHANGED <<cursor, out>>
  /\ Tell(s)
  /\ UNCHANGED <<ptyVars, readVars, waiter, exited, listed, base, pollVars>>

\* The client goes away.
Leave(s) ==
  /\ stage[s] # "off" /\ Goto(s, "off")
  /\ UNCHANGED <<ptyVars, readVars, waiter, exited, listed, cursor, out, told, base, pollVars>>

-----------------------------------------------------------------------------
\* The poller (GET history?since=): its next `since` is the answer's total.
Poll ==
  /\ listed
  /\ view' = view \o SubSeq(history, since + 1, Len(history))
  /\ since' = Len(history)
  /\ UNCHANGED <<ptyVars, readVars, waiter, exited, listed, socketVars>>

-----------------------------------------------------------------------------
Socket(s) == Snapshot(s) \/ Check(s) \/ Receive(s) \/ Lag(s) \/ Closed(s)

Next ==
  \/ Output \/ Hangup
  \/ Read \/ Stream \/ ReaderEnds \/ WaiterEnds \/ Kill
  \/ \E s \in Sockets : Connect(s) \/ Socket(s) \/ ExitTick(s) \/ Leave(s)
  \/ Poll

Spec == Init /\ [][Next]_vars

\* The threads run, the runtime polls a socket's task, and tokio's select!
\* picks among the ready branches at random, so the tick has its turn.
Fairness ==
  /\ WF_vars(WaiterEnds)
  /\ WF_vars(Read \/ Stream \/ ReaderEnds)
  /\ \A s \in Sockets : WF_vars(Socket(s) \/ ExitTick(s)) /\ SF_vars(ExitTick(s))

FairSpec == Spec /\ Fairness

-----------------------------------------------------------------------------
\* Properties.

\* What the client has been sent or will be, if the socket goes on and is not
\* overrun (again).
Reaches(s) == Elements(out[s]) \cup cursor[s] + 1 .. taken

\* "Subscribe BEFORE snapshotting history so no chunk slips through the gap"
\* (terminal.rs 294-297), while the reader appends and sends in parallel, and
\* also when the snapshot resynchronises a socket that lagged: from what was
\* in the history at the snapshot on, the client misses nothing.
NoGap ==
  \A s \in Sockets : stage[s] \in {"check", "live"} /\ listed =>
    base[s] + 1 .. taken \subseteq Reaches(s)

\* While the history has not been cut, the poller has got every chunk once and
\* in order, whichever way its polls fall between the reader's steps.
PollExact ==
  taken <= HistoryCapacity =>
    Len(view) = since /\ \A i \in 1..since : view[i] = i

\* "so the rx.recv() branch would otherwise never learn of the exit and the
\* terminal would hang open" (terminal.rs 584-589): once the shell has ended,
\* even if a process it left behind keeps the pty, no socket stays open.
ExitTold ==
  \A s \in Sockets :
    (stage[s] # "off" /\ (holder # "shell" \/ ~listed)) ~> stage[s] = "off"
=============================================================================
