--------------------------- MODULE Terminal_proofs ---------------------------
(* Theorems about Terminal, for every number of sockets and every size of   *)
(* the history and of the channel.                                          *)
EXTENDS Terminal, SequenceTheorems, TLAPS

\* The history is the last chunks read, in order, and as many as fit.
HistoryOK ==
  /\ Len(history) = IF taken <= HistoryCapacity THEN taken ELSE HistoryCapacity
  /\ \A i \in 1..Len(history) : history[i] = taken - Len(history) + i

\* The poller's offset lies within the history.
SinceOK == since <= Len(history)

IInv == TypeOK /\ HistoryOK /\ SinceOK /\ NoGap /\ PollExact

-----------------------------------------------------------------------------
\* Sequences.

LEMMA ConcatElements ==
  ASSUME NEW S, NEW a \in Seq(S), NEW b \in Seq(S)
  PROVE  a \o b \in Seq(S) /\ Elements(a \o b) = Elements(a) \cup Elements(b)
<1>1. /\ a \o b \in Seq(S) /\ Len(a) \in Nat /\ Len(b) \in Nat
      /\ DOMAIN a = 1..Len(a) /\ DOMAIN b = 1..Len(b)
      /\ DOMAIN (a \o b) = 1..(Len(a) + Len(b))
      /\ \A i \in 1..(Len(a) + Len(b)) :
           (a \o b)[i] = IF i <= Len(a) THEN a[i] ELSE b[i - Len(a)]
  OBVIOUS
<1>. DEFINE c == a \o b
<1>. HIDE DEF c
<1>2. ASSUME NEW i \in DOMAIN c PROVE c[i] \in Elements(a) \cup Elements(b)
  <2>1. CASE i <= Len(a)
    BY <1>1, <2>1 DEF c, Elements
  <2>2. CASE ~(i <= Len(a))
    <3>1. i - Len(a) \in 1..Len(b) /\ c[i] = b[i - Len(a)]
      BY <1>1, <2>2 DEF c
    <3>. QED BY <1>1, <3>1 DEF Elements
  <2>. QED BY <2>1, <2>2
<1>3. ASSUME NEW i \in DOMAIN a PROVE a[i] \in Elements(c)
  <2>1. i \in DOMAIN c /\ c[i] = a[i]
    BY <1>1 DEF c
  <2>. QED BY <2>1 DEF Elements
<1>4. ASSUME NEW i \in DOMAIN b PROVE b[i] \in Elements(c)
  <2>1. i + Len(a) \in DOMAIN c /\ c[i + Len(a)] = b[i]
    BY <1>1 DEF c
  <2>. QED BY <2>1 DEF Elements
<1>5. Elements(c) = Elements(a) \cup Elements(b)
  BY <1>2, <1>3, <1>4 DEF Elements
<1>. QED BY <1>1, <1>5 DEF c

\* What follows the first n elements.
LEMMA Rest ==
  ASSUME NEW S, NEW q \in Seq(S), NEW n \in Nat, n <= Len(q)
  PROVE  LET r == SubSeq(q, n + 1, Len(q))
         IN  /\ r \in Seq(S) /\ Len(r) = Len(q) - n
             /\ \A i \in 1..Len(r) : r[i] = q[n + i]
<1>. DEFINE m == n + 1
            l == Len(q)
            r == SubSeq(q, m, l)
<1>1. l \in Nat /\ m \in Int /\ l \in Int /\ \A i \in m..l : q[i] \in S
  OBVIOUS
<1>2. /\ r \in Seq(S) /\ Len(r) = (IF m <= l THEN l - m + 1 ELSE 0)
      /\ \A i \in 1 .. l - m + 1 : r[i] = q[m + i - 1]
  <2>. HIDE DEF m, l
  <2>. QED BY <1>1, SubSeqProperties
<1>. HIDE DEF r
<1>3. Len(r) = l - n /\ l - m + 1 = l - n
  BY <1>1, <1>2
<1>4. \A i \in 1 .. l - n : r[i] = q[n + i]
  BY <1>1, <1>2, <1>3
<1>. QED BY <1>2, <1>3, <1>4 DEF r

\* The history after the reader's next chunk.
LEMMA KeptNext ==
  ASSUME SizesOK, TypeOK, HistoryOK
  PROVE  LET h == Kept(taken + 1)
         IN  /\ h \in Seq(1..taken + 1)
             /\ Len(h) = IF taken + 1 <= HistoryCapacity THEN taken + 1 ELSE HistoryCapacity
             /\ Len(h) >= Len(history)
             /\ \A i \in 1..Len(h) : h[i] = taken + 1 - Len(h) + i
<1>. DEFINE longer == Append(history, taken + 1)
<1>0. taken \in Nat /\ history \in Seq(1..taken + 1)
  BY DEF TypeOK, Chunks
<1>1. /\ longer \in Seq(1..taken + 1) /\ Len(longer) = Len(history) + 1 /\ Len(history) \in Nat
      /\ \A i \in 1..Len(longer) : longer[i] = IF i <= Len(history) THEN history[i] ELSE taken + 1
  BY <1>0
<1>. HIDE DEF longer
<1>2. \A i \in 1..Len(longer) : longer[i] = taken + 1 - Len(longer) + i
  <2>. SUFFICES ASSUME NEW i \in 1..Len(longer)
                PROVE  longer[i] = taken + 1 - Len(longer) + i
    OBVIOUS
  <2>1. CASE i <= Len(history)
    <3>1. i \in 1..Len(history) /\ longer[i] = history[i]
      BY <1>1, <2>1
    <3>2. history[i] = taken - Len(history) + i
      BY <3>1 DEF HistoryOK
    <3>. QED BY <1>0, <1>1, <3>1, <3>2
  <2>2. CASE ~(i <= Len(history))
    BY <1>0, <1>1, <2>2
  <2>. QED BY <2>1, <2>2
<1>3. CASE Len(longer) > HistoryCapacity
  <2>1. Kept(taken + 1) = Tail(longer)
    BY <1>3 DEF Kept, longer
  <2>2. longer # <<>> /\ Len(longer) \in Nat \ {0}
    BY <1>1
  <2>3. /\ Tail(longer) \in Seq(1..taken + 1) /\ Len(Tail(longer)) = Len(longer) - 1
        /\ \A i \in 1..Len(Tail(longer)) : Tail(longer)[i] = longer[i + 1]
    BY <1>1, <2>2
  <2>. DEFINE t == Tail(longer)
  <2>. HIDE DEF t
  <2>4. /\ t \in Seq(1..taken + 1) /\ Len(t) = Len(longer) - 1
        /\ \A i \in 1..Len(t) : t[i] = longer[i + 1]
    BY <2>3 DEF t
  <2>5. Len(t) = HistoryCapacity /\ Len(history) = HistoryCapacity /\ ~(taken + 1 <= HistoryCapacity)
    BY <1>0, <1>1, <1>3, <2>4 DEF HistoryOK, SizesOK
  <2>6. \A i \in 1..Len(t) : t[i] = taken + 1 - Len(t) + i
    <3>. SUFFICES ASSUME NEW i \in 1..Len(t) PROVE t[i] = taken + 1 - Len(t) + i
      OBVIOUS
    <3>1. i + 1 \in 1..Len(longer) /\ t[i] = longer[i + 1]
      BY <1>1, <2>4
    <3>2. t[i] = taken + 1 - Len(longer) + (i + 1)
      BY <1>2, <3>1
    <3>. QED BY <1>0, <1>1, <2>4, <3>2
  <2>7. Kept(taken + 1) = t
    BY <2>1 DEF t
  <2>. QED BY <2>4, <2>5, <2>6, <2>7 DEF SizesOK
<1>4. CASE ~(Len(longer) > HistoryCapacity)
  <2>1. Kept(taken + 1) = longer
    BY <1>4 DEF Kept, longer
  <2>2. Len(longer) = taken + 1 /\ taken + 1 <= HistoryCapacity
    BY <1>0, <1>1, <1>4 DEF HistoryOK, SizesOK
  <2>. QED BY <1>1, <1>2, <2>1, <2>2
<1>. QED BY <1>3, <1>4

\* The history's chunks are those after the ones it has trimmed.
LEMMA HistoryCovers ==
  ASSUME TypeOK, HistoryOK, SizesOK
  PROVE  /\ taken - Len(history) \in 0..taken /\ Len(history) \in Nat
         /\ taken - Len(history) + 1 .. taken \subseteq Elements(history)
<1>1. taken \in Nat /\ history \in Seq(1..taken)
  BY DEF TypeOK, Chunks
<1>2. Len(history) \in Nat /\ Len(history) <= taken /\ DOMAIN history = 1..Len(history)
  BY <1>1 DEF HistoryOK, SizesOK
<1>3. ASSUME NEW c \in taken - Len(history) + 1 .. taken PROVE c \in Elements(history)
  <2>. DEFINE i == c - (taken - Len(history))
  <2>1. i \in 1..Len(history)
    BY <1>1, <1>2
  <2>2. history[i] = taken - Len(history) + i
    BY <2>1 DEF HistoryOK
  <2>3. history[i] = c
    BY <1>1, <1>2, <2>2
  <2>. QED BY <1>2, <2>1, <2>3 DEF Elements
<1>. QED BY <1>1, <1>2, <1>3

-----------------------------------------------------------------------------
\* The steps.

LEMMA InitInv == ASSUME SizesOK, Init PROVE IInv
<1>1. TypeOK
  <2>1. /\ <<>> \in Seq(Chunks) /\ Len(<<>>) = 0 /\ 0 <= HistoryCapacity
        /\ written \in Nat /\ taken \in 0..written /\ streamed \in 0..taken
    BY DEF Init, SizesOK
  <2>2. history \in Seq(Chunks) /\ view \in Seq(Chunks) /\ Len(history) <= HistoryCapacity
    BY <2>1 DEF Init
  <2>3. /\ cursor \in [Sockets -> 0..streamed] /\ base \in [Sockets -> 0..taken]
        /\ out \in [Sockets -> Seq(Chunks)]
        /\ stage \in [Sockets -> {"off", "snapshot", "check", "live", "resync"}]
    BY <2>1 DEF Init
  <2>. QED BY <2>1, <2>2, <2>3 DEF Init, TypeOK
<1>2. HistoryOK /\ SinceOK
  <2>1. Len(history) = 0 /\ taken = 0 /\ since = 0 /\ taken <= HistoryCapacity
    BY DEF Init, SizesOK
  <2>. QED BY <2>1 DEF HistoryOK, SinceOK
<1>3. NoGap
  BY DEF Init, NoGap
<1>4. PollExact
  BY DEF Init, PollExact
<1>. QED BY <1>1, <1>2, <1>3, <1>4 DEF IInv

LEMMA ReadInv == ASSUME SizesOK, IInv, Read PROVE IInv'
<1>. USE DEF IInv
<1>1. taken' = taken + 1 /\ taken' \in 0..written /\ taken \in Nat /\ written \in Nat
      /\ history' = Kept(taken + 1) /\ streamed \in 0..taken
  BY DEF Read, TypeOK
<1>2. /\ history' \in Seq(Chunks') /\ HistoryOK' /\ Len(history') >= Len(history)
      /\ Len(history') <= HistoryCapacity
  BY <1>1, KeptNext DEF HistoryOK, Chunks, SizesOK
<1>3. Chunks \subseteq Chunks'
  BY <1>1 DEF Chunks
<1>4. TypeOK'
  <2>1. out' \in [Sockets -> Seq(Chunks')] /\ view' \in Seq(Chunks')
    BY <1>3 DEF Read, TypeOK, socketVars, pollVars
  <2>2. base' \in [Sockets -> 0..taken'] /\ streamed' \in 0..taken' /\ written' \in Nat
        /\ taken' \in 0..written'
    BY <1>1 DEF Read, TypeOK, socketVars, ptyVars
  <2>3. /\ stage' \in [Sockets -> {"off", "snapshot", "check", "live", "resync"}]
        /\ cursor' \in [Sockets -> 0..streamed'] /\ told' \subseteq Sockets /\ since' \in Nat
        /\ holder' \in {"shell", "job", "nobody"} /\ reader' \in BOOLEAN /\ waiter' \in BOOLEAN
        /\ exited' \in BOOLEAN /\ listed' \in BOOLEAN
    BY DEF Read, TypeOK, socketVars, pollVars, ptyVars
  <2>. QED BY <1>2, <2>1, <2>2, <2>3 DEF TypeOK
<1>5. SinceOK'
  <2>1. since' = since /\ since \in Nat /\ Len(history) \in Nat /\ Len(history') \in Nat
    BY <1>2 DEF Read, pollVars, TypeOK
  <2>. QED BY <1>2, <2>1 DEF SinceOK
<1>6. NoGap'
  <2>. SUFFICES ASSUME NEW s \in Sockets, stage[s] \in {"check", "live"}, listed,
                       NEW c \in base[s] + 1 .. taken + 1
                PROVE  c \in Reaches(s)'
    BY <1>1 DEF NoGap, Read, socketVars
  <2>1. Reaches(s) \cup {taken + 1} \subseteq Reaches(s)'
    BY <1>1 DEF Reaches, Read, socketVars, TypeOK
  <2>2. c \in base[s] + 1 .. taken \/ c = taken + 1
    BY <1>1 DEF TypeOK
  <2>. QED BY <2>1, <2>2 DEF NoGap
<1>7. PollExact'
  BY <1>1 DEF PollExact, Read, pollVars, SizesOK
<1>. QED BY <1>2, <1>4, <1>5, <1>6, <1>7

LEMMA StreamInv == ASSUME SizesOK, IInv, Stream PROVE IInv'
<1>. USE DEF IInv
<1>1. TypeOK'
  BY DEF Stream, TypeOK, Chunks, socketVars, pollVars, ptyVars
<1>2. HistoryOK' /\ SinceOK' /\ NoGap' /\ PollExact'
  BY DEF Stream, HistoryOK, SinceOK, NoGap, Reaches, PollExact, socketVars, pollVars
<1>. QED BY <1>1, <1>2

\* Steps of the shell, the waiter and the killer: nothing that was read moves.
LEMMA QuietInv ==
  ASSUME SizesOK, IInv, Output \/ Hangup \/ ReaderEnds \/ WaiterEnds \/ Kill
  PROVE  IInv'
<1>. USE DEF IInv
<1>1. TypeOK'
  <2>1. CASE Output
    <3>1. taken \in 0..written + 1
      BY DEF TypeOK
    <3>. QED BY <2>1, <3>1 DEF Output, TypeOK, Chunks, socketVars, pollVars, readVars
  <2>2. CASE Hangup \/ WaiterEnds \/ Kill
    BY <2>2 DEF Hangup, WaiterEnds, Kill, TypeOK, Chunks, socketVars, pollVars, readVars, ptyVars
  <2>3. CASE ReaderEnds
    BY <2>3 DEF ReaderEnds, TypeOK, Chunks, socketVars, pollVars, ptyVars
  <2>. QED BY <2>1, <2>2, <2>3
<1>2. HistoryOK' /\ SinceOK' /\ PollExact'
  BY DEF Output, Hangup, ReaderEnds, WaiterEnds, Kill, HistoryOK, SinceOK, PollExact,
         pollVars, readVars
<1>3. /\ (listed' => listed) /\ stage' = stage /\ base' = base /\ out' = out /\ cursor' = cursor
      /\ taken' = taken
  BY DEF Output, Hangup, ReaderEnds, WaiterEnds, Kill, socketVars, readVars
<1>4. NoGap'
  BY <1>3 DEF NoGap, Reaches
<1>. QED BY <1>1, <1>2, <1>4

\* What a socket's step leaves alone.
Apart(s) ==
  /\ UNCHANGED <<ptyVars, readVars, listed, pollVars>>
  /\ \A t \in Sockets \ {s} :
       stage'[t] = stage[t] /\ cursor'[t] = cursor[t] /\ out'[t] = out[t] /\ base'[t] = base[t]

\* So only that socket's own part of NoGap is at stake.
LEMMA SocketInv ==
  ASSUME IInv, NEW s \in Sockets, Apart(s), TypeOK',
         stage'[s] \in {"check", "live"} /\ listed =>
           base'[s] + 1 .. taken \subseteq Elements(out'[s]) \cup cursor'[s] + 1 .. taken
  PROVE  IInv'
<1>. USE DEF IInv
<1>1. HistoryOK' /\ SinceOK' /\ PollExact'
  BY DEF Apart, HistoryOK, SinceOK, PollExact, pollVars, readVars
<1>2. NoGap'
  <2>. SUFFICES ASSUME NEW t \in Sockets, (stage[t] \in {"check", "live"} /\ listed)'
                PROVE  (base[t] + 1 .. taken \subseteq Reaches(t))'
    BY DEF NoGap
  <2>0. taken' = taken /\ listed
    BY DEF Apart, readVars
  <2>1. CASE t = s
    BY <2>0, <2>1 DEF Reaches
  <2>2. CASE t # s
    BY <2>0, <2>2 DEF Apart, NoGap, Reaches
  <2>. QED BY <2>1, <2>2
<1>. QED BY <1>1, <1>2

LEMMA ConnectInv == ASSUME SizesOK, IInv, NEW s \in Sockets, Connect(s) PROVE IInv'
<1>. USE DEF IInv
<1>1. TypeOK'
  <2>1. <<>> \in Seq(Chunks) /\ streamed \in 0..streamed /\ taken \in 0..taken
    BY DEF TypeOK
  <2>. QED BY <2>1 DEF Connect, Subscribe, Goto, TypeOK, Chunks, ptyVars, readVars, pollVars
<1>2. Apart(s) /\ stage'[s] = "snapshot"
  BY DEF Connect, Subscribe, Goto, Apart, TypeOK, ptyVars, readVars, pollVars
<1>. QED BY <1>1, <1>2, SocketInv

LEMMA SnapshotInv == ASSUME SizesOK, IInv, NEW s \in Sockets, Snapshot(s) PROVE IInv'
<1>. USE DEF IInv
<1>1. /\ out[s] \o history \in Seq(Chunks)
      /\ Elements(history) \subseteq Elements(out[s] \o history)
  <2>1. out[s] \in Seq(Chunks) /\ history \in Seq(Chunks)
    BY DEF TypeOK
  <2>. QED BY <2>1, ConcatElements
<1>2. out' = [out EXCEPT ![s] = out[s] \o history]
  BY DEF Snapshot, Send
<1>3. base' = [base EXCEPT ![s] = taken - Len(history)]
  BY DEF Snapshot
<1>4. TypeOK'
  <2>1. out' \in [Sockets -> Seq(Chunks)] /\ base' \in [Sockets -> 0..taken]
    BY <1>1, <1>2, <1>3, HistoryCovers DEF TypeOK
  <2>2. stage' \in [Sockets -> {"off", "snapshot", "check", "live", "resync"}]
    BY DEF Snapshot, Goto, TypeOK
  <2>. QED BY <2>1, <2>2 DEF Snapshot, TypeOK, Chunks, ptyVars, readVars, pollVars
<1>5. Apart(s)
  BY DEF Snapshot, Send, Goto, Apart, TypeOK, ptyVars, readVars, pollVars
<1>6. base'[s] + 1 .. taken \subseteq Elements(out'[s])
  <2>1. base'[s] = taken - Len(history) /\ out'[s] = out[s] \o history
    BY <1>2, <1>3 DEF TypeOK
  <2>. QED BY <1>1, <2>1, HistoryCovers
<1>. QED BY <1>4, <1>5, <1>6, SocketInv

LEMMA CheckInv == ASSUME SizesOK, IInv, NEW s \in Sockets, Check(s) PROVE IInv'
<1>. USE DEF IInv
<1>1. TypeOK'
  BY DEF Check, Tell, Goto, TypeOK, Chunks, ptyVars, readVars, pollVars
<1>2. Apart(s)
  BY DEF Check, Tell, Goto, Apart, TypeOK, ptyVars, readVars, pollVars
<1>3. stage[s] = "check" /\ base' = base /\ out' = out /\ cursor' = cursor
  BY DEF Check
<1>. QED BY <1>1, <1>2, <1>3, SocketInv DEF NoGap, Reaches

\* A receiver that takes the next chunk hands it to the client.
LEMMA ForwardCovers ==
  ASSUME IInv, NEW s \in Sockets, cursor[s] < streamed,
         cursor' = [cursor EXCEPT ![s] = @ + 1], Send(s, <<cursor[s] + 1>>)
  PROVE  /\ cursor' \in [Sockets -> 0..streamed] /\ out' \in [Sockets -> Seq(Chunks)]
         /\ Elements(out[s]) \cup cursor[s] + 1 .. taken
              \subseteq Elements(out'[s]) \cup cursor'[s] + 1 .. taken
<1>. USE DEF IInv
<1>1. /\ cursor[s] \in Nat /\ streamed \in Nat /\ taken \in Nat /\ streamed <= taken
      /\ cursor[s] + 1 \in 1..streamed /\ cursor[s] + 1 \in Chunks /\ out[s] \in Seq(Chunks)
  BY DEF TypeOK, Chunks
<1>. DEFINE n == cursor[s] + 1
<1>2. <<n>> \in Seq(Chunks) /\ Elements(<<n>>) = {n}
  BY <1>1 DEF Elements
<1>3. /\ out[s] \o <<n>> \in Seq(Chunks)
      /\ Elements(out[s] \o <<n>>) = Elements(out[s]) \cup {n}
  <2>. DEFINE o == out[s]
              one == <<n>>
  <2>1. o \in Seq(Chunks) /\ one \in Seq(Chunks) /\ Elements(one) = {n}
    BY <1>1, <1>2
  <2>. HIDE DEF o, one
  <2>2. o \o one \in Seq(Chunks) /\ Elements(o \o one) = Elements(o) \cup Elements(one)
    BY <2>1, ConcatElements
  <2>3. Elements(o \o one) = Elements(o) \cup {n}
    BY <2>1, <2>2
  <2>. QED BY <2>2, <2>3 DEF o, one
<1>4. out' = [out EXCEPT ![s] = out[s] \o <<n>>] /\ cursor' = [cursor EXCEPT ![s] = n]
  BY DEF Send
<1>5. out'[s] = out[s] \o <<n>> /\ cursor'[s] = n
  BY <1>4 DEF TypeOK
<1>6. cursor[s] + 1 .. taken \subseteq {n} \cup n + 1 .. taken
  BY <1>1
<1>7. cursor' \in [Sockets -> 0..streamed] /\ out' \in [Sockets -> Seq(Chunks)]
  BY <1>1, <1>3, <1>4 DEF TypeOK
<1>. QED BY <1>3, <1>5, <1>6, <1>7

LEMMA ReceiveInv == ASSUME SizesOK, IInv, NEW s \in Sockets, Receive(s) PROVE IInv'
<1>. USE DEF IInv
<1>1. /\ cursor' \in [Sockets -> 0..streamed] /\ out' \in [Sockets -> Seq(Chunks)]
      /\ Elements(out[s]) \cup cursor[s] + 1 .. taken
           \subseteq Elements(out'[s]) \cup cursor'[s] + 1 .. taken
  BY ForwardCovers DEF Receive
<1>2. TypeOK'
  BY <1>1 DEF Receive, TypeOK, Chunks, ptyVars, readVars, pollVars
<1>3. Apart(s)
  BY DEF Receive, Send, Apart, TypeOK, ptyVars, readVars, pollVars
<1>4. stage' = stage /\ base' = base
  BY DEF Receive
<1>. QED BY <1>1, <1>2, <1>3, <1>4, SocketInv DEF NoGap, Reaches

LEMMA LagInv == ASSUME SizesOK, IInv, NEW s \in Sockets, Lag(s) PROVE IInv'
<1>. USE DEF IInv
<1>1. streamed - Capacity \in 0..streamed /\ streamed \in 0..streamed
  BY DEF Lag, Overrun, TypeOK, SizesOK
<1>2. TypeOK'
  BY <1>1 DEF Lag, Subscribe, Goto, TypeOK, Chunks, ptyVars, readVars, pollVars
<1>3. Apart(s)
  BY DEF Lag, Subscribe, Goto, Apart, TypeOK, ptyVars, readVars, pollVars
<1>4. listed => stage'[s] = "resync"
  BY DEF Lag, Subscribe, Goto, TypeOK
<1>. QED BY <1>2, <1>3, <1>4, SocketInv

\* The steps that leave a socket off.
LEMMA OffInv ==
  ASSUME SizesOK, IInv, NEW s \in Sockets, Closed(s) \/ ExitTick(s) \/ Leave(s)
  PROVE  IInv'
<1>. USE DEF IInv
<1>1. TypeOK'
  <2>1. CASE Closed(s)
    BY <2>1 DEF Closed, Tell, Goto, TypeOK, Chunks, ptyVars, readVars, pollVars
  <2>2. CASE ExitTick(s)
    <3>1. cursor' \in [Sockets -> 0..streamed] /\ out' \in [Sockets -> Seq(Chunks)]
      <4>1. CASE cursor[s] < streamed /\ ~Overrun(s)
        BY <2>2, <4>1, ForwardCovers DEF ExitTick
      <4>2. CASE ~(cursor[s] < streamed /\ ~Overrun(s))
        BY <2>2, <4>2 DEF ExitTick, TypeOK
      <4>. QED BY <4>1, <4>2
    <3>2. stage' \in [Sockets -> {"off", "snapshot", "check", "live", "resync"}]
          /\ told' \subseteq Sockets
      BY <2>2 DEF ExitTick, Tell, Goto, TypeOK
    <3>3. UNCHANGED <<ptyVars, readVars, waiter, exited, listed, base, pollVars>>
      BY <2>2 DEF ExitTick
    <3>. QED BY <3>1, <3>2, <3>3 DEF TypeOK, Chunks, ptyVars, readVars, pollVars
  <2>3. CASE Leave(s)
    BY <2>3 DEF Leave, Goto, TypeOK, Chunks, ptyVars, readVars, pollVars
  <2>. QED BY <2>1, <2>2, <2>3
<1>2. Apart(s) /\ stage'[s] = "off"
  <2>1. CASE Closed(s)
    BY <2>1 DEF Closed, Tell, Goto, Apart, TypeOK
  <2>2. CASE ExitTick(s)
    BY <2>2 DEF ExitTick, Tell, Goto, Send, Apart, TypeOK
  <2>3. CASE Leave(s)
    BY <2>3 DEF Leave, Goto, Apart, TypeOK
  <2>. QED BY <2>1, <2>2, <2>3
<1>. QED BY <1>1, <1>2, SocketInv

LEMMA PollInv == ASSUME SizesOK, IInv, Poll PROVE IInv'
<1>. USE DEF IInv
<1>. DEFINE news == SubSeq(history, since + 1, Len(history))
<1>1. /\ history \in Seq(Chunks) /\ view \in Seq(Chunks) /\ since \in Nat
      /\ Len(history) \in Nat /\ since <= Len(history) /\ taken \in Nat
  BY DEF TypeOK, SinceOK
<1>2. /\ news \in Seq(Chunks) /\ Len(news) = Len(history) - since
      /\ \A i \in 1..Len(news) : news[i] = history[since + i]
  BY <1>1, Rest
<1>. HIDE DEF news
<1>3. view' = view \o news /\ since' = Len(history) /\ view' \in Seq(Chunks)
      /\ Len(view') = Len(view) + Len(news)
      /\ \A i \in 1..Len(view') : view'[i] = IF i <= Len(view) THEN view[i] ELSE news[i - Len(view)]
  BY <1>1, <1>2 DEF Poll, news
<1>4. TypeOK'
  BY <1>1, <1>3 DEF Poll, TypeOK, Chunks, ptyVars, readVars, socketVars
<1>5. HistoryOK' /\ SinceOK' /\ NoGap'
  <2>1. UNCHANGED <<readVars, listed, socketVars>>
    BY DEF Poll
  <2>2. HistoryOK' /\ NoGap'
    BY <2>1 DEF HistoryOK, NoGap, Reaches, readVars, socketVars
  <2>3. SinceOK'
    BY <1>1, <1>3, <2>1 DEF SinceOK, readVars
  <2>. QED BY <2>2, <2>3
<1>6. PollExact'
  <2>. SUFFICES ASSUME taken <= HistoryCapacity
                PROVE  Len(view') = since' /\ \A i \in 1..since' : view'[i] = i
    BY DEF PollExact, Poll, readVars
  <2>1. Len(view) = since /\ \A i \in 1..since : view[i] = i
    BY DEF PollExact
  <2>2. Len(history) = taken /\ \A i \in 1..Len(history) : history[i] = i
    BY <1>1 DEF HistoryOK
  <2>3. Len(view') = since'
    BY <1>1, <1>2, <1>3, <2>1
  <2>4. ASSUME NEW i \in 1..since' PROVE view'[i] = i
    <3>1. CASE i <= since
      BY <1>1, <1>3, <2>1, <2>3, <3>1
    <3>2. CASE ~(i <= since)
      <4>1. i - since \in 1..Len(news) /\ view'[i] = news[i - since]
        BY <1>1, <1>2, <1>3, <2>1, <2>3, <3>2
      <4>2. news[i - since] = history[since + (i - since)]
        BY <1>2, <4>1
      <4>3. since + (i - since) = i /\ i \in 1..Len(history)
        BY <1>1, <1>3
      <4>. QED BY <2>2, <4>1, <4>2, <4>3
    <3>. QED BY <3>1, <3>2
  <2>. QED BY <2>3, <2>4
<1>. QED BY <1>4, <1>5, <1>6

LEMMA StutterInv == ASSUME IInv, UNCHANGED vars PROVE IInv'
<1>1. TypeOK'
  BY DEF IInv, TypeOK, Chunks, vars
<1>2. HistoryOK' /\ SinceOK' /\ NoGap' /\ PollExact'
  BY DEF IInv, HistoryOK, SinceOK, NoGap, Reaches, PollExact, vars
<1>. QED BY <1>1, <1>2 DEF IInv

LEMMA Invariance == Spec => []IInv
<1>1. Init => IInv
  BY InitInv, SizesOK
<1>2. IInv /\ [Next]_vars => IInv'
  <2>. SUFFICES ASSUME IInv, [Next]_vars PROVE IInv'
    OBVIOUS
  <2>1. CASE Output \/ Hangup \/ ReaderEnds \/ WaiterEnds \/ Kill
    BY <2>1, QuietInv, SizesOK
  <2>2. CASE Read
    BY <2>2, ReadInv, SizesOK
  <2>3. CASE Stream
    BY <2>3, StreamInv, SizesOK
  <2>4. ASSUME NEW s \in Sockets, Connect(s) \/ Socket(s) \/ ExitTick(s) \/ Leave(s)
        PROVE  IInv'
    BY <2>4, ConnectInv, SnapshotInv, CheckInv, ReceiveInv, LagInv, OffInv, SizesOK DEF Socket
  <2>5. CASE Poll
    BY <2>5, PollInv, SizesOK
  <2>6. CASE UNCHANGED vars
    BY <2>6, StutterInv
  <2>. QED BY <2>1, <2>2, <2>3, <2>4, <2>5, <2>6 DEF Next
<1>. QED BY <1>1, <1>2, PTL DEF Spec

-----------------------------------------------------------------------------
\* A client misses nothing of what the history held when it was snapshot, nor
\* anything later, although the reader appends and sends in two steps and the
\* subscription takes the receiver and the history in two; lag included.
THEOREM TerminalHasNoGap == Spec => []NoGap
<1>1. IInv => NoGap
  BY DEF IInv
<1>. QED BY <1>1, Invariance, PTL

\* Until the history is first cut, the poller gets every chunk once, in order.
THEOREM PollsAreExact == Spec => []PollExact
<1>1. IInv => PollExact
  BY DEF IInv
<1>. QED BY <1>1, Invariance, PTL
=============================================================================
