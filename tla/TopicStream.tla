---------------------------- MODULE TopicStream ----------------------------
(***************************************************************************)
(* One topic of the log bus and the WebSockets that follow it              *)
(* (crates/agentgrove-api/src/logbus.rs and ws.rs).                        *)
(*                                                                         *)
(* A publish appends to the topic's history ring under a mutex and sends   *)
(* on the topic's broadcast channel after it has released the mutex, so    *)
(* other publishers and subscribers come between the two.  A socket takes  *)
(* a receiver and a copy of the ring under that mutex, writes the copy     *)
(* out, then forwards what it receives; a receiver the channel has         *)
(* overrun is told so (Lagged) and the socket resumes from the ring.       *)
(*                                                                         *)
(* A message is the number of its push.  The channel is the sequence of    *)
(* everything ever sent on it; a receiver is an index into that sequence,  *)
(* and the last Capacity messages are the ones it can still read.  Topics  *)
(* share nothing but the mutex.  Nothing calls clear_history.              *)
(***************************************************************************)
EXTENDS Naturals, Sequences, FiniteSets

CONSTANTS
  Sockets,          \* WebSockets of this topic, each a client that may reconnect
  Publishers,       \* calls of publish that may be under way at once
  Capacity,         \* LogBus::capacity, the broadcast channel's
  HistoryCapacity,  \* LogBus::history_capacity, the ring's
  MaxPublished      \* bound on the number of messages published

ASSUME SizesOK ==
  /\ Capacity \in Nat \ {0}
  /\ HistoryCapacity \in Nat \ {0}
  /\ MaxPublished \in Nat

VARIABLES
  pushed,    \* how many messages have entered the ring
  history,   \* TopicState::history
  channel,   \* what has been sent on TopicState::tx, in order
  inflight,  \* per publisher: pushed and not yet sent, or 0
  open,      \* the sockets that are connected
  cursor,    \* per socket: how much of the channel its receiver has taken
  backlog,   \* per socket: ring entries it has still to write
  sent,      \* per socket: sent_history
  out,       \* per socket: the messages the client has been sent
  lagged,    \* history: the sockets that have met a Lagged error
  base,      \* history, per socket: the last message evicted before it subscribed
  window     \* history, per socket: messages in flight when it subscribed

busVars    == <<pushed, history, channel, inflight>>
socketVars == <<open, cursor, backlog, sent, out, lagged, base, window>>
vars       == <<pushed, history, channel, inflight, open, cursor, backlog,
                sent, out, lagged, base, window>>

Messages   == 1..pushed
Elements(s) == {s[i] : i \in DOMAIN s}
InFlight   == {inflight[p] : p \in Publishers} \ {0}
Lesser(a, b) == IF a < b THEN a ELSE b

TypeOK ==
  /\ pushed \in Nat
  /\ history \in Seq(Messages)
  /\ Len(history) <= HistoryCapacity
  /\ channel \in Seq(Messages)
  /\ inflight \in [Publishers -> 0..pushed]
  /\ open \subseteq Sockets
  /\ cursor \in [Sockets -> 0..Len(channel)]
  /\ backlog \in [Sockets -> Seq(Messages)]
  /\ sent \in [Sockets -> Nat]
  /\ out \in [Sockets -> Seq(Messages)]
  /\ lagged \subseteq Sockets
  /\ base \in [Sockets -> 0..pushed]
  /\ window \in [Sockets -> SUBSET Messages]

Init ==
  /\ pushed = 0 /\ history = <<>> /\ channel = <<>>
  /\ inflight = [p \in Publishers |-> 0]
  /\ open = {}
  /\ cursor = [s \in Sockets |-> 0]
  /\ backlog = [s \in Sockets |-> <<>>]
  /\ sent = [s \in Sockets |-> 0]
  /\ out = [s \in Sockets |-> <<>>]
  /\ lagged = {}
  /\ base = [s \in Sockets |-> 0]
  /\ window = [s \in Sockets |-> {}]

-----------------------------------------------------------------------------
\* The bus.

\* A bug in the eviction: the newest entry goes.
RingEvictsNewest(m) ==
  Append(IF Len(history) >= HistoryCapacity
         THEN SubSeq(history, 1, Len(history) - 1) ELSE history, m)

\* The ring with m added: the oldest entry goes when the ring is full.
Ring(m) == Append(IF Len(history) >= HistoryCapacity THEN Tail(history) ELSE history, m)

\* publish, under the mutex.
Push(p) ==
  /\ inflight[p] = 0
  /\ pushed < MaxPublished
  /\ pushed' = pushed + 1
  /\ history' = Ring(pushed + 1)
  /\ inflight' = [inflight EXCEPT ![p] = pushed + 1]
  /\ UNCHANGED <<channel, socketVars>>

\* publish, after the mutex: tx.send.
Broadcast(p) ==
  /\ inflight[p] # 0
  /\ channel' = Append(channel, inflight[p])
  /\ inflight' = [inflight EXCEPT ![p] = 0]
  /\ UNCHANGED <<pushed, history, socketVars>>

-----------------------------------------------------------------------------
\* A socket.  Every step ends with the socket's write to its client.

\* subscribe, under the mutex, at the start of handle_socket.
Connect(s) ==
  /\ s \notin open
  /\ open' = open \cup {s}
  /\ cursor' = [cursor EXCEPT ![s] = Len(channel)]
  /\ backlog' = [backlog EXCEPT ![s] = history]
  /\ sent' = [sent EXCEPT ![s] = Len(history)]
  /\ out' = [out EXCEPT ![s] = <<>>]
  /\ lagged' = lagged \ {s}
  /\ base' = [base EXCEPT ![s] = pushed - Len(history)]
  /\ window' = [window EXCEPT ![s] = InFlight]
  /\ UNCHANGED busVars

\* A bug in the replay: only the first entry is written before going live.
ReplayOnlyFirst(s) ==
  /\ s \in open /\ backlog[s] # <<>>
  /\ out' = [out EXCEPT ![s] = Append(@, Head(backlog[s]))]
  /\ backlog' = [backlog EXCEPT ![s] = <<>>]
  /\ UNCHANGED <<busVars, open, cursor, sent, lagged, base, window>>

\* Write the next entry of the ring's copy.
Replay(s) ==
  /\ s \in open /\ backlog[s] # <<>>
  /\ out' = [out EXCEPT ![s] = Append(@, Head(backlog[s]))]
  /\ backlog' = [backlog EXCEPT ![s] = Tail(@)]
  /\ UNCHANGED <<busVars, open, cursor, sent, lagged, base, window>>

Live(s) == s \in open /\ backlog[s] = <<>>

\* The channel has overwritten a message this receiver has not taken.
Overrun(s) == Len(channel) - cursor[s] > Capacity

\* rx.recv() yields the next message and the socket forwards it.
Receive(s) ==
  /\ Live(s) /\ ~Overrun(s)
  /\ cursor[s] < Len(channel)
  /\ cursor' = [cursor EXCEPT ![s] = @ + 1]
  /\ out' = [out EXCEPT ![s] = Append(@, channel[cursor[s] + 1])]
  /\ sent' = [sent EXCEPT ![s] = @ + 1]
  /\ UNCHANGED <<busVars, open, backlog, lagged, base, window>>

\* What a Lagged socket takes from the ring: all but the first `sent`.
Unsent(s) == SubSeq(history, Lesser(sent[s], Len(history)) + 1, Len(history))

\* A bug in the recovery: the new receiver is not kept, so the old one goes
\* on at the oldest message the channel still has.
RecoverOldReceiver(s) ==
  /\ Live(s) /\ Overrun(s)
  /\ cursor' = [cursor EXCEPT ![s] = Len(channel) - Capacity]
  /\ backlog' = [backlog EXCEPT ![s] = Unsent(s)]
  /\ sent' = [sent EXCEPT ![s] = Len(history)]
  /\ lagged' = lagged \cup {s}
  /\ window' = [window EXCEPT ![s] = @ \cup InFlight]
  /\ UNCHANGED <<busVars, open, out, base>>

\* rx.recv() yields Lagged: subscribe again and write the ring's tail.
Recover(s) ==
  /\ Live(s) /\ Overrun(s)
  /\ cursor' = [cursor EXCEPT ![s] = Len(channel)]
  /\ backlog' = [backlog EXCEPT ![s] = Unsent(s)]
  /\ sent' = [sent EXCEPT ![s] = Len(history)]
  /\ lagged' = lagged \cup {s}
  /\ window' = [window EXCEPT ![s] = @ \cup InFlight]
  /\ UNCHANGED <<busVars, open, out, base>>

\* A write fails or the client closes.  What it has seen stays seen.
Close(s) ==
  /\ s \in open
  /\ open' = open \ {s}
  /\ backlog' = [backlog EXCEPT ![s] = <<>>]
  /\ UNCHANGED <<busVars, cursor, sent, out, lagged, base, window>>

-----------------------------------------------------------------------------
Next ==
  \/ \E p \in Publishers : Push(p) \/ Broadcast(p)
  \/ \E s \in Sockets : Connect(s) \/ Replay(s) \/ Receive(s) \/ Recover(s) \/ Close(s)

Spec == Init /\ [][Next]_vars

\* A publisher that has pushed goes on to send, without an await between.
\* The runtime polls a socket's task that can proceed.  Clients come and go
\* as they like.
Fairness ==
  /\ \A p \in Publishers : WF_vars(Broadcast(p))
  /\ \A s \in Sockets : WF_vars(Replay(s) \/ Receive(s) \/ Recover(s))

FairSpec == Spec /\ Fairness

-----------------------------------------------------------------------------
\* Properties.

\* What the socket's client has been sent or will be, if it does not lag.
Reaches(s) == Elements(out[s]) \cup Elements(backlog[s])
              \cup {channel[i] : i \in cursor[s] + 1 .. Len(channel)} \cup InFlight

\* However publishes and the subscription interleave, a client that never
\* lags gets every message that was in the ring when it subscribed and every
\* later one: the gap between push and send loses nothing (logbus.rs 68-93).
NoGap ==
  \A s \in open \ lagged : base[s] + 1 .. pushed \subseteq Reaches(s)

Copies(m, seq) == Cardinality({i \in DOMAIN seq : seq[i] = m})

\* A client is sent a message twice only when its publish was between push and
\* send at one of the socket's subscriptions: lag recovery itself repeats
\* nothing (ws.rs 69-79), as the channel is longer than the ring.
NoRepeats ==
  \A s \in open : \A m \in Messages \ window[s] : Copies(m, out[s] \o backlog[s]) <= 1

\* A message in the ring reaches every client that stays connected and does
\* not lag, whichever side of its subscription the send falls (ws.rs 33-46).
Delivers ==
  \A s \in Sockets : \A m \in 1..MaxPublished :
    (s \in open /\ m > base[s] /\ m <= pushed)
      ~> (s \notin open \/ s \in lagged \/ m \in Elements(out[s]))
=============================================================================
