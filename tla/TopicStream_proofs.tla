------------------------ MODULE TopicStream_proofs ------------------------
(* Theorems about TopicStream, for every number of sockets and publishers   *)
(* and every size of the ring and of the channel.                           *)
EXTENDS TopicStream, SequenceTheorems, FiniteSetTheorems, TLAPS

\* The ring holds the last messages pushed, in the order of their pushes.
RingOK ==
  /\ Len(history) <= pushed
  /\ \A i \in 1..Len(history) : history[i] = pushed - Len(history) + i

IInv == TypeOK /\ RingOK /\ NoGap

\* What the ring looks like once the next message is in it.
LEMMA RingNext ==
  ASSUME SizesOK, pushed \in Nat, history \in Seq(Messages),
         Len(history) <= HistoryCapacity, RingOK
  PROVE  LET r == Ring(pushed + 1)
         IN  /\ r \in Seq(1..pushed + 1)
             /\ Len(r) <= HistoryCapacity
             /\ Len(r) <= pushed + 1
             /\ \A i \in 1..Len(r) : r[i] = pushed + 1 - Len(r) + i
<1>. DEFINE kept == IF Len(history) >= HistoryCapacity THEN Tail(history) ELSE history
<1>1. /\ kept \in Seq(1..pushed) /\ Len(kept) < HistoryCapacity /\ Len(kept) <= pushed
      /\ \A i \in 1..Len(kept) : kept[i] = pushed - Len(kept) + i
  <2>1. CASE Len(history) >= HistoryCapacity
    <3>1. history # <<>> /\ Len(history) \in Nat \ {0}
      BY <2>1 DEF SizesOK
    <3>2. /\ Tail(history) \in Seq(1..pushed) /\ Len(Tail(history)) = Len(history) - 1
          /\ \A i \in 1..Len(Tail(history)) : Tail(history)[i] = history[i + 1]
      BY <3>1 DEF Messages
    <3>. QED BY <2>1, <3>1, <3>2 DEF SizesOK, RingOK
  <2>2. CASE ~(Len(history) >= HistoryCapacity)
    BY <2>2 DEF SizesOK, RingOK, Messages
  <2>. QED BY <2>1, <2>2
<1>2. kept \in Seq(1..pushed + 1)
  BY <1>1
<1>. HIDE DEF kept
<1>. DEFINE r == Append(kept, pushed + 1)
<1>3. /\ r \in Seq(1..pushed + 1) /\ Len(r) = Len(kept) + 1 /\ Len(kept) \in Nat
      /\ \A i \in 1..Len(r) : r[i] = IF i <= Len(kept) THEN kept[i] ELSE pushed + 1
  BY <1>2
<1>4. Ring(pushed + 1) = r
  BY DEF Ring, kept
<1>. HIDE DEF r
<1>5. Len(r) <= HistoryCapacity /\ Len(r) <= pushed + 1
  BY <1>1, <1>3 DEF SizesOK
<1>6. ASSUME NEW i \in 1..Len(r) PROVE r[i] = pushed + 1 - Len(r) + i
  <2>1. CASE i <= Len(kept)
    <3>1. i \in 1..Len(kept) /\ r[i] = kept[i]
      BY <1>3, <2>1
    <3>2. kept[i] = pushed - Len(kept) + i
      BY <1>1, <3>1
    <3>. QED BY <1>3, <3>1, <3>2
  <2>2. CASE ~(i <= Len(kept))
    <3>1. i = Len(kept) + 1 /\ r[i] = pushed + 1
      BY <1>3, <2>2
    <3>. QED BY <1>3, <3>1
  <2>. QED BY <2>1, <2>2
<1>. QED BY <1>3, <1>4, <1>5, <1>6

\* What a Lagged socket takes are messages.
LEMMA UnsentType ==
  ASSUME TypeOK, NEW s \in Sockets
  PROVE  Unsent(s) \in Seq(Messages)
<1>1. /\ Lesser(sent[s], Len(history)) \in Nat
      /\ Lesser(sent[s], Len(history)) + 1 >= 1
  BY DEF TypeOK, Lesser
<1>. QED BY <1>1 DEF TypeOK, Unsent

LEMMA InitInv == ASSUME SizesOK, Init PROVE IInv
BY DEF Init, IInv, TypeOK, RingOK, NoGap, Messages, SizesOK, InFlight

LEMMA PushInv ==
  ASSUME SizesOK, IInv, NEW p \in Publishers, Push(p)
  PROVE  IInv'
<1>. USE DEF IInv
<1>1. pushed' = pushed + 1 /\ history' = Ring(pushed + 1) /\ pushed \in Nat
  BY DEF Push, TypeOK
<1>2. RingOK' /\ history' \in Seq(Messages') /\ Len(history') <= HistoryCapacity
  BY <1>1, RingNext DEF TypeOK, RingOK, Messages
<1>3. TypeOK'
  <2>1. Messages \subseteq Messages'
    BY <1>1 DEF Messages
  <2>2. channel' \in Seq(Messages') /\ Len(channel') = Len(channel)
    BY <1>1, <2>1 DEF Push, TypeOK
  <2>3. inflight' \in [Publishers -> 0..pushed']
    BY <1>1 DEF Push, TypeOK
  <2>4. backlog' \in [Sockets -> Seq(Messages')] /\ out' \in [Sockets -> Seq(Messages')]
    BY <2>1 DEF Push, TypeOK, socketVars
  <2>5. base' \in [Sockets -> 0..pushed'] /\ window' \in [Sockets -> SUBSET Messages']
    BY <1>1, <2>1 DEF Push, TypeOK, socketVars
  <2>6. pushed' \in Nat /\ cursor' \in [Sockets -> 0..Len(channel')] /\ open' \subseteq Sockets
        /\ sent' \in [Sockets -> Nat] /\ lagged' \subseteq Sockets
    BY <1>1, <2>2 DEF Push, TypeOK, socketVars
  <2>. QED BY <1>2, <2>2, <2>3, <2>4, <2>5, <2>6 DEF TypeOK
<1>4. NoGap'
  <2>. SUFFICES ASSUME NEW s \in open' \ lagged', NEW m \in base'[s] + 1 .. pushed'
                PROVE  m \in Reaches(s)'
    BY DEF NoGap
  <2>1. InFlight \cup {pushed + 1} \subseteq InFlight'
    BY DEF Push, TypeOK, InFlight
  <2>2. Reaches(s) \cup {pushed + 1} \subseteq Reaches(s)'
    BY <2>1 DEF Push, Reaches, socketVars
  <2>3. s \in open \ lagged /\ base'[s] = base[s] /\ base[s] \in Nat
    BY DEF Push, socketVars, TypeOK
  <2>4. m \in base[s] + 1 .. pushed \/ m = pushed + 1
    BY <1>1, <2>3
  <2>. QED BY <2>2, <2>3, <2>4 DEF NoGap
<1>. QED BY <1>2, <1>3, <1>4

LEMMA BroadcastInv ==
  ASSUME SizesOK, IInv, NEW p \in Publishers, Broadcast(p)
  PROVE  IInv'
<1>. USE DEF IInv
<1>1. inflight[p] \in Messages /\ channel \in Seq(Messages)
  BY DEF Broadcast, TypeOK, Messages
<1>2. /\ channel' \in Seq(Messages) /\ Len(channel') = Len(channel) + 1
      /\ channel'[Len(channel) + 1] = inflight[p]
      /\ \A i \in 1..Len(channel) : channel'[i] = channel[i]
  BY <1>1 DEF Broadcast
<1>3. TypeOK'
  <2>1. cursor' \in [Sockets -> 0..Len(channel')]
    BY <1>1, <1>2 DEF Broadcast, socketVars, TypeOK
  <2>. QED BY <1>2, <2>1 DEF Broadcast, TypeOK, socketVars, Messages
<1>4. RingOK'
  BY DEF Broadcast, RingOK
<1>5. NoGap'
  <2>. SUFFICES ASSUME NEW s \in open' \ lagged', NEW m \in base'[s] + 1 .. pushed'
                PROVE  m \in Reaches(s)'
    BY DEF NoGap
  <2>1. s \in Sockets /\ cursor[s] \in 0..Len(channel) /\ cursor' = cursor
        /\ out' = out /\ backlog' = backlog /\ Len(channel) \in Nat
    BY <1>1 DEF Broadcast, socketVars, TypeOK
  <2>2. m \in Reaches(s)
    BY DEF NoGap, Broadcast, socketVars
  <2>3. ASSUME NEW i \in cursor[s] + 1 .. Len(channel)
        PROVE  channel[i] \in {channel'[j] : j \in cursor'[s] + 1 .. Len(channel')}
    <3>1. i \in cursor'[s] + 1 .. Len(channel') /\ channel'[i] = channel[i]
      BY <1>2, <2>1
    <3>. QED BY <3>1
  <2>4. ASSUME NEW q \in Publishers, inflight[q] # 0
        PROVE  inflight[q] \in {channel'[j] : j \in cursor'[s] + 1 .. Len(channel')} \cup InFlight'
    <3>1. CASE q = p
      <4>1. Len(channel) + 1 \in cursor'[s] + 1 .. Len(channel')
        BY <1>2, <2>1
      <4>. QED BY <1>2, <3>1, <4>1
    <3>2. CASE q # p
      <4>1. inflight'[q] = inflight[q]
        BY <3>2 DEF Broadcast, TypeOK
      <4>. QED BY <2>4, <4>1 DEF InFlight
    <3>. QED BY <3>1, <3>2
  <2>. QED BY <2>1, <2>2, <2>3, <2>4 DEF Reaches, InFlight
<1>. QED BY <1>3, <1>4, <1>5

LEMMA ConnectInv ==
  ASSUME SizesOK, IInv, NEW s \in Sockets, Connect(s)
  PROVE  IInv'
<1>. USE DEF IInv
<1>1. TypeOK'
  <2>1. Len(history) \in Nat /\ Len(channel) \in Nat /\ pushed - Len(history) \in 0..pushed
        /\ InFlight \subseteq Messages
    BY DEF TypeOK, RingOK, InFlight, Messages
  <2>. QED BY <2>1 DEF Connect, TypeOK, busVars, Messages
<1>2. RingOK'
  BY DEF Connect, RingOK, busVars
<1>3. NoGap'
  <2>. SUFFICES ASSUME NEW t \in open' \ lagged', NEW m \in base'[t] + 1 .. pushed'
                PROVE  m \in Reaches(t)'
    BY DEF NoGap
  <2>0. t \in Sockets /\ pushed' = pushed /\ channel' = channel /\ InFlight' = InFlight
    BY DEF Connect, TypeOK, busVars, InFlight
  <2>1. CASE t = s
    <3>1. base'[t] = pushed - Len(history) /\ backlog'[t] = history
      BY <2>1 DEF Connect, TypeOK
    <3>0. pushed \in Nat /\ Len(history) \in Nat /\ Len(history) <= pushed
      BY DEF TypeOK, RingOK
    <3>2. m - (pushed - Len(history)) \in 1..Len(history)
      BY <2>0, <3>0, <3>1
    <3>4. history[m - (pushed - Len(history))] = pushed - Len(history) + (m - (pushed - Len(history)))
      BY <3>2 DEF RingOK
    <3>5. history[m - (pushed - Len(history))] = m
      BY <2>0, <3>0, <3>1, <3>4
    <3>3. m \in Elements(backlog'[t])
      <4>1. DOMAIN history = 1..Len(history)
        BY DEF TypeOK
      <4>. QED BY <3>1, <3>2, <3>5, <4>1 DEF Elements
    <3>. QED BY <3>3 DEF Reaches
  <2>2. CASE t # s
    <3>1. /\ t \in open \ lagged /\ base'[t] = base[t] /\ out'[t] = out[t]
          /\ backlog'[t] = backlog[t] /\ cursor'[t] = cursor[t]
      BY <2>0, <2>2 DEF Connect, TypeOK
    <3>. QED BY <2>0, <3>1 DEF NoGap, Reaches
  <2>. QED BY <2>1, <2>2
<1>. QED BY <1>1, <1>2, <1>3

LEMMA ReplayInv ==
  ASSUME SizesOK, IInv, NEW s \in Sockets, Replay(s)
  PROVE  IInv'
<1>. USE DEF IInv
<1>1. /\ Head(backlog[s]) \in Messages /\ Tail(backlog[s]) \in Seq(Messages)
      /\ backlog[s] \in Seq(Messages) /\ out[s] \in Seq(Messages)
  BY DEF Replay, TypeOK
<1>2. /\ out' = [out EXCEPT ![s] = Append(out[s], Head(backlog[s]))]
      /\ backlog' = [backlog EXCEPT ![s] = Tail(backlog[s])]
      /\ Append(out[s], Head(backlog[s])) \in Seq(Messages)
  BY <1>1 DEF Replay
<1>3. TypeOK'
  BY <1>1, <1>2 DEF Replay, TypeOK, busVars, Messages
<1>4. RingOK'
  BY DEF Replay, RingOK, busVars
<1>5. NoGap'
  <2>. SUFFICES ASSUME NEW t \in open' \ lagged', NEW m \in base'[t] + 1 .. pushed'
                PROVE  m \in Reaches(t)'
    BY DEF NoGap
  <2>0. /\ t \in Sockets /\ m \in Reaches(t) /\ channel' = channel /\ InFlight' = InFlight
        /\ cursor' = cursor
    BY DEF Replay, TypeOK, busVars, InFlight, NoGap
  <2>1. CASE t = s
    <3>1. Elements(out[s]) \cup Elements(backlog[s])
            \subseteq Elements(out'[s]) \cup Elements(backlog'[s])
      <4>1. out'[s] = Append(out[s], Head(backlog[s])) /\ backlog'[s] = Tail(backlog[s])
        BY <1>2 DEF TypeOK
      <4>2. Elements(Append(out[s], Head(backlog[s]))) = Elements(out[s]) \cup {Head(backlog[s])}
        <5>. DEFINE o == out[s]
                    h == Head(backlog[s])
        <5>1. o \in Seq(Messages) /\ h \in Messages
          BY <1>1
        <5>. HIDE DEF o, h
        <5>2. /\ DOMAIN Append(o, h) = 1..(Len(o) + 1) /\ DOMAIN o = 1..Len(o)
              /\ \A i \in 1..Len(o) : Append(o, h)[i] = o[i]
              /\ Append(o, h)[Len(o) + 1] = h /\ Len(o) \in Nat
          BY <5>1
        <5>3. Elements(Append(o, h)) = Elements(o) \cup {h}
          BY <5>2 DEF Elements
        <5>. QED BY <5>3 DEF o, h
      <4>3. Elements(backlog[s]) \subseteq {Head(backlog[s])} \cup Elements(Tail(backlog[s]))
        <5>. DEFINE b == backlog[s]
        <5>1. b \in Seq(Messages) /\ b # <<>>
          BY <1>1 DEF Replay
        <5>. HIDE DEF b
        <5>2. /\ DOMAIN b = 1..Len(b) /\ DOMAIN Tail(b) = 1..(Len(b) - 1) /\ Len(b) \in Nat
              /\ \A i \in 1..(Len(b) - 1) : Tail(b)[i] = b[i + 1]
              /\ Head(b) = b[1]
          BY <5>1
        <5>3. ASSUME NEW i \in 1..Len(b), i # 1
              PROVE  i - 1 \in DOMAIN Tail(b) /\ b[i] = Tail(b)[i - 1]
          BY <5>2, <5>3
        <5>4. ASSUME NEW i \in 1..Len(b)
              PROVE  b[i] \in {Head(b)} \cup Elements(Tail(b))
          <6>1. CASE i = 1
            BY <5>2, <6>1
          <6>2. CASE i # 1
            BY <5>3, <6>2 DEF Elements
          <6>. QED BY <6>1, <6>2
        <5>5. Elements(b) \subseteq {Head(b)} \cup Elements(Tail(b))
          BY <5>2, <5>4 DEF Elements
        <5>. QED BY <5>5 DEF b
      <4>. QED BY <4>1, <4>2, <4>3
    <3>. QED BY <2>0, <2>1, <3>1 DEF Reaches
  <2>2. CASE t # s
    <3>1. out'[t] = out[t] /\ backlog'[t] = backlog[t]
      BY <1>2, <2>0, <2>2 DEF TypeOK
    <3>. QED BY <2>0, <3>1 DEF Reaches
  <2>. QED BY <2>1, <2>2
<1>. QED BY <1>3, <1>4, <1>5

LEMMA ReceiveInv ==
  ASSUME SizesOK, IInv, NEW s \in Sockets, Receive(s)
  PROVE  IInv'
<1>. USE DEF IInv
<1>. DEFINE n == cursor[s] + 1
<1>1. /\ n \in 1..Len(channel) /\ channel[n] \in Messages /\ cursor[s] \in Nat
      /\ out[s] \in Seq(Messages) /\ Len(channel) \in Nat
  BY DEF Receive, TypeOK
<1>2. /\ out' = [out EXCEPT ![s] = Append(out[s], channel[n])]
      /\ cursor' = [cursor EXCEPT ![s] = n]
      /\ Append(out[s], channel[n]) \in Seq(Messages)
  BY <1>1 DEF Receive
<1>. HIDE DEF n
<1>3. TypeOK'
  <2>1. /\ pushed' = pushed /\ history' = history /\ channel' = channel /\ inflight' = inflight
        /\ open' = open /\ backlog' = backlog /\ lagged' = lagged /\ base' = base
        /\ window' = window
    BY DEF Receive, busVars
  <2>2. cursor' \in [Sockets -> 0..Len(channel)]
    BY <1>1, <1>2 DEF TypeOK
  <2>3. sent' \in [Sockets -> Nat]
    BY DEF Receive, TypeOK
  <2>4. out' \in [Sockets -> Seq(Messages)]
    BY <1>2 DEF TypeOK
  <2>. QED BY <2>1, <2>2, <2>3, <2>4 DEF TypeOK, Messages
<1>4. RingOK'
  BY DEF Receive, RingOK, busVars
<1>5. NoGap'
  <2>. SUFFICES ASSUME NEW t \in open' \ lagged', NEW m \in base'[t] + 1 .. pushed'
                PROVE  m \in Reaches(t)'
    BY DEF NoGap
  <2>0. /\ t \in Sockets /\ m \in Reaches(t) /\ channel' = channel /\ InFlight' = InFlight
        /\ backlog' = backlog
    BY DEF Receive, TypeOK, busVars, InFlight, NoGap
  <2>1. CASE t = s
    <3>1. /\ out'[s] = Append(out[s], channel[n]) /\ cursor'[s] = n
      BY <1>2 DEF TypeOK
    <3>2. Elements(out'[s]) = Elements(out[s]) \cup {channel[n]}
      <4>. DEFINE o == out[s]
                  h == channel[n]
      <4>1. o \in Seq(Messages) /\ h \in Messages
        BY <1>1
      <4>. HIDE DEF o, h
      <4>2. /\ DOMAIN Append(o, h) = 1..(Len(o) + 1) /\ DOMAIN o = 1..Len(o)
            /\ \A i \in 1..Len(o) : Append(o, h)[i] = o[i]
            /\ Append(o, h)[Len(o) + 1] = h /\ Len(o) \in Nat
        BY <4>1
      <4>3. Elements(Append(o, h)) = Elements(o) \cup {h}
        BY <4>2 DEF Elements
      <4>. QED BY <3>1, <4>3 DEF o, h
    <3>3. ASSUME NEW i \in cursor[s] + 1 .. Len(channel)
          PROVE  i = n \/ i \in cursor'[s] + 1 .. Len(channel')
      BY <1>1, <2>0, <3>1, <3>3 DEF n
    <3>. QED BY <2>0, <2>1, <3>2, <3>3 DEF Reaches
  <2>2. CASE t # s
    <3>1. out'[t] = out[t] /\ cursor'[t] = cursor[t]
      BY <1>2, <2>0, <2>2 DEF TypeOK
    <3>. QED BY <2>0, <3>1 DEF Reaches
  <2>. QED BY <2>1, <2>2
<1>. QED BY <1>3, <1>4, <1>5

LEMMA RecoverInv ==
  ASSUME SizesOK, IInv, NEW s \in Sockets, Recover(s)
  PROVE  IInv'
<1>. USE DEF IInv
<1>1. TypeOK'
  <2>1. Unsent(s) \in Seq(Messages) /\ InFlight \subseteq Messages
    BY UnsentType DEF TypeOK, InFlight, Messages
  <2>2. Len(channel) \in Nat /\ Len(history) \in Nat
    BY DEF TypeOK
  <2>3. window' \in [Sockets -> SUBSET Messages]
    BY <2>1 DEF Recover, TypeOK
  <2>. QED BY <2>1, <2>2, <2>3 DEF Recover, TypeOK, busVars, Messages
<1>2. RingOK'
  BY DEF Recover, RingOK, busVars
<1>3. NoGap'
  <2>. SUFFICES ASSUME NEW t \in open' \ lagged' PROVE (base[t] + 1 .. pushed \subseteq Reaches(t))'
    BY DEF NoGap
  <2>1. t # s /\ t \in open \ lagged /\ t \in Sockets
    BY DEF Recover, TypeOK
  <2>2. /\ out'[t] = out[t] /\ cursor'[t] = cursor[t] /\ backlog'[t] = backlog[t]
        /\ base' = base /\ pushed' = pushed /\ channel' = channel /\ InFlight' = InFlight
    BY <2>1 DEF Recover, TypeOK, busVars, InFlight
  <2>. QED BY <2>1, <2>2 DEF NoGap, Reaches
<1>. QED BY <1>1, <1>2, <1>3

LEMMA CloseInv ==
  ASSUME SizesOK, IInv, NEW s \in Sockets, Close(s)
  PROVE  IInv'
<1>. USE DEF IInv
<1>1. TypeOK'
  BY DEF Close, TypeOK, busVars, Messages
<1>2. RingOK'
  BY DEF Close, RingOK, busVars
<1>3. NoGap'
  <2>. SUFFICES ASSUME NEW t \in open' \ lagged' PROVE (base[t] + 1 .. pushed \subseteq Reaches(t))'
    BY DEF NoGap
  <2>1. t # s /\ t \in open \ lagged /\ t \in Sockets
    BY DEF Close, TypeOK
  <2>2. /\ backlog'[t] = backlog[t] /\ out' = out /\ cursor' = cursor
        /\ base' = base /\ pushed' = pushed /\ channel' = channel /\ InFlight' = InFlight
    BY <2>1 DEF Close, TypeOK, busVars, InFlight
  <2>. QED BY <2>1, <2>2 DEF NoGap, Reaches
<1>. QED BY <1>1, <1>2, <1>3

LEMMA StutterInv == ASSUME IInv, UNCHANGED vars PROVE IInv'
<1>1. TypeOK'
  BY DEF IInv, TypeOK, Messages, vars
<1>2. RingOK'
  BY DEF IInv, RingOK, vars
<1>3. NoGap'
  BY DEF IInv, NoGap, Reaches, InFlight, vars
<1>. QED BY <1>1, <1>2, <1>3 DEF IInv

LEMMA Invariance == Spec => []IInv
<1>1. Init => IInv
  BY InitInv, SizesOK
<1>2. IInv /\ [Next]_vars => IInv'
  <2>. SUFFICES ASSUME IInv, [Next]_vars PROVE IInv'
    OBVIOUS
  <2>1. ASSUME NEW p \in Publishers, Push(p) \/ Broadcast(p) PROVE IInv'
    BY <2>1, PushInv, BroadcastInv, SizesOK
  <2>2. ASSUME NEW s \in Sockets,
               Connect(s) \/ Replay(s) \/ Receive(s) \/ Recover(s) \/ Close(s)
        PROVE  IInv'
    BY <2>2, ConnectInv, ReplayInv, ReceiveInv, RecoverInv, CloseInv, SizesOK
  <2>3. CASE UNCHANGED vars
    BY <2>3, StutterInv
  <2>. QED BY <2>1, <2>2, <2>3 DEF Next
<1>. QED BY <1>1, <1>2, PTL DEF Spec

\* A client that never lags misses nothing that was in the ring when it
\* subscribed, nor anything later, although publish sends outside the mutex.
THEOREM StreamHasNoGap == Spec => []NoGap
<1>1. IInv => NoGap
  BY DEF IInv
<1>. QED BY <1>1, Invariance, PTL

\* The ring is the last messages pushed, in push order, within its capacity:
\* what every subscriber replays is a suffix of what was published.
THEOREM RingIsSuffix == Spec => [](TypeOK /\ RingOK)
<1>1. IInv => TypeOK /\ RingOK
  BY DEF IInv
<1>. QED BY <1>1, Invariance, PTL

-----------------------------------------------------------------------------
(* Repeats.                                                                 *)

\* Every message is in flight or on the channel, once: publish sends what it
\* pushed and nothing else.
ChannelInv ==
  /\ \A m \in Messages : m \in InFlight \/ \E i \in DOMAIN channel : channel[i] = m
  /\ \A i, j \in DOMAIN channel : channel[i] = channel[j] => i = j
  /\ \A i \in DOMAIN channel : channel[i] \notin InFlight
  /\ \A p, q \in Publishers : inflight[p] = inflight[q] /\ inflight[p] # 0 => p = q

LEMMA ChannelInit == ASSUME Init PROVE ChannelInv
BY DEF Init, ChannelInv, Messages, InFlight

LEMMA ChannelPush ==
  ASSUME TypeOK, ChannelInv, NEW p \in Publishers, Push(p)
  PROVE  ChannelInv'
<1>1. /\ pushed \in Nat /\ pushed' = pushed + 1 /\ channel' = channel
      /\ inflight' = [inflight EXCEPT ![p] = pushed + 1] /\ inflight[p] = 0
      /\ \A q \in Publishers : inflight[q] \in 0..pushed
      /\ \A i \in DOMAIN channel : channel[i] \in 1..pushed
  BY DEF Push, TypeOK, Messages
<1>2. InFlight' = InFlight \cup {pushed + 1}
  BY <1>1 DEF InFlight, TypeOK
<1>3. Messages' = Messages \cup {pushed + 1}
  BY <1>1 DEF Messages
<1>4. \A q \in Publishers : inflight'[q] = IF q = p THEN pushed + 1 ELSE inflight[q]
  BY <1>1 DEF TypeOK
<1>. QED BY <1>1, <1>2, <1>3, <1>4 DEF ChannelInv

LEMMA ChannelBroadcast ==
  ASSUME TypeOK, ChannelInv, NEW p \in Publishers, Broadcast(p)
  PROVE  /\ ChannelInv'
         /\ Len(channel) \in Nat
         /\ DOMAIN channel = 1..Len(channel)
         /\ DOMAIN channel' = 1..Len(channel) + 1
         /\ \A i \in 1..Len(channel) : channel'[i] = channel[i]
         /\ channel'[Len(channel) + 1] = inflight[p]
<1>1. inflight[p] \in Messages /\ channel \in Seq(Messages) /\ pushed' = pushed
  BY DEF Broadcast, TypeOK, Messages
<1>2. /\ Len(channel) \in Nat /\ DOMAIN channel = 1..Len(channel)
      /\ DOMAIN channel' = 1..Len(channel) + 1
      /\ channel'[Len(channel) + 1] = inflight[p]
      /\ \A i \in 1..Len(channel) : channel'[i] = channel[i]
  BY <1>1 DEF Broadcast
<1>3. \A q \in Publishers : inflight'[q] = IF q = p THEN 0 ELSE inflight[q]
  BY DEF Broadcast, TypeOK
<1>4. InFlight' = InFlight \ {inflight[p]} /\ inflight[p] \in InFlight
  BY <1>3 DEF InFlight, ChannelInv, Broadcast
<1>5. \A m \in Messages' : m \in InFlight' \/ \E i \in DOMAIN channel' : channel'[i] = m
  BY <1>1, <1>2, <1>4 DEF ChannelInv, Messages
<1>6. \A i \in 1..Len(channel) : channel[i] # inflight[p]
  BY <1>2, <1>4 DEF ChannelInv
<1>7. \A i, j \in DOMAIN channel' : channel'[i] = channel'[j] => i = j
  BY <1>2, <1>6 DEF ChannelInv
<1>8. \A i \in DOMAIN channel' : channel'[i] \notin InFlight'
  BY <1>2, <1>4 DEF ChannelInv
<1>9. \A q, r \in Publishers : inflight'[q] = inflight'[r] /\ inflight'[q] # 0 => q = r
  BY <1>3 DEF ChannelInv
<1>. QED BY <1>2, <1>5, <1>7, <1>8, <1>9 DEF ChannelInv

LEMMA ChannelSocket ==
  ASSUME ChannelInv, UNCHANGED busVars
  PROVE  ChannelInv'
BY DEF ChannelInv, busVars, Messages, InFlight

\* The ring, the channel and the publishers: a message can be overtaken on the
\* channel only by those whose publishers stood between push and send, and the
\* ring and they together fit in the channel.
FewPublishers ==
  /\ IsFiniteSet(Publishers)
  /\ HistoryCapacity + Cardinality(Publishers) <= Capacity + 2

\* The messages older than the one at i that are sent after it.
Overtaken(i) == {n \in 1 .. channel[i] - 1 : \A j \in 1 .. i : channel[j] # n}
LateInv ==
  \A i \in DOMAIN channel :
    /\ IsFiniteSet(Overtaken(i))
    /\ Cardinality(Overtaken(i)) <= Cardinality(Publishers) - 1

LEMMA LateBroadcast ==
  ASSUME FewPublishers, TypeOK, ChannelInv, LateInv, NEW p \in Publishers, Broadcast(p)
  PROVE  LateInv'
<1>1. /\ Len(channel) \in Nat /\ DOMAIN channel = 1..Len(channel)
      /\ DOMAIN channel' = 1..Len(channel) + 1
      /\ \A i \in 1..Len(channel) : channel'[i] = channel[i]
      /\ channel'[Len(channel) + 1] = inflight[p]
  BY ChannelBroadcast
<1>2. ASSUME NEW i \in 1..Len(channel)
      PROVE  Overtaken(i)' = Overtaken(i)
  <2>1. channel'[i] = channel[i] /\ \A j \in 1..i : channel'[j] = channel[j]
    BY <1>1
  <2>. QED BY <2>1 DEF Overtaken
<1>3. ASSUME NEW x, x = Len(channel) + 1
      PROVE  /\ IsFiniteSet(Overtaken(x)')
             /\ Cardinality(Overtaken(x)') <= Cardinality(Publishers) - 1
  <2>. DEFINE O == Overtaken(x)'
              Others == Publishers \ {p}
              sender == [n \in O |-> CHOOSE q \in Others : inflight[q] = n]
  <2>1. ASSUME NEW n \in O
        PROVE  \E q \in Others : inflight[q] = n
    <3>0. n \in 1..channel'[x] - 1 /\ \A j \in 1..x : channel'[j] # n
      BY DEF Overtaken
    <3>1. n \in 1..inflight[p] - 1 /\ \A j \in 1..Len(channel) : channel[j] # n
      BY <1>1, <1>3, <3>0
    <3>2. inflight[p] \in 0..pushed /\ pushed \in Nat
      BY DEF TypeOK
    <3>3. n \in Messages /\ n # inflight[p]
      BY <3>1, <3>2 DEF Messages
    <3>4. n \in InFlight
      BY <1>1, <3>1, <3>3 DEF ChannelInv
    <3>. QED BY <3>3, <3>4 DEF InFlight
  <2>2. sender \in Injection(O, Others)
    <3>1. \A n \in O : sender[n] \in Others /\ inflight[sender[n]] = n
      BY <2>1
    <3>. HIDE DEF sender
    <3>2. sender \in [O -> Others]
      BY <3>1 DEF sender
    <3>. QED BY <3>1, <3>2 DEF Injection, IsInjective
  <2>3. IsFiniteSet(Others) /\ Cardinality(Others) = Cardinality(Publishers) - 1
    BY FS_RemoveElement DEF FewPublishers
  <2>. HIDE DEF O, Others, sender
  <2>4. IsFiniteSet(O) /\ Cardinality(O) <= Cardinality(Others)
    BY <2>2, <2>3, FS_Injection
  <2>. QED BY <2>3, <2>4 DEF O
<1>4. ASSUME NEW i \in DOMAIN channel'
      PROVE  /\ IsFiniteSet(Overtaken(i)')
             /\ Cardinality(Overtaken(i)') <= Cardinality(Publishers) - 1
  <2>1. CASE i \in 1..Len(channel)
    BY <1>1, <1>2, <2>1 DEF LateInv
  <2>2. CASE i = Len(channel) + 1
    BY <1>3, <2>2
  <2>. QED BY <1>1, <2>1, <2>2
<1>. QED BY <1>4 DEF LateInv

LEMMA LateSame ==
  ASSUME LateInv, UNCHANGED channel
  PROVE  LateInv'
BY DEF LateInv, Overtaken

LEMMA ChannelInvariance ==
  ASSUME FewPublishers
  PROVE  Spec => [](ChannelInv /\ LateInv)
<1>1. Init => ChannelInv /\ LateInv
  BY ChannelInit DEF Init, LateInv
<1>2. TypeOK /\ ChannelInv /\ LateInv /\ [Next]_vars => ChannelInv' /\ LateInv'
  <2>. SUFFICES ASSUME TypeOK, ChannelInv, LateInv, [Next]_vars
                PROVE  ChannelInv' /\ LateInv'
    OBVIOUS
  <2>1. ASSUME NEW p \in Publishers, Push(p) PROVE ChannelInv' /\ LateInv'
    BY <2>1, ChannelPush, LateSame DEF Push
  <2>2. ASSUME NEW p \in Publishers, Broadcast(p) PROVE ChannelInv' /\ LateInv'
    BY <2>2, FewPublishers, ChannelBroadcast, LateBroadcast
  <2>3. CASE UNCHANGED busVars
    BY <2>3, ChannelSocket, LateSame DEF busVars
  <2>. QED
    BY <2>1, <2>2, <2>3 DEF Next, Connect, Replay, Receive, Recover, Close, vars,
       busVars
<1>3. IInv => TypeOK
  BY DEF IInv
<1>. QED BY <1>1, <1>2, <1>3, Invariance, PTL DEF Spec

\* What a socket has written and is about to write from the ring, and what its
\* receiver has taken from the channel.
Trail(s) == out[s] \o backlog[s]
Taken(s) == {channel[i] : i \in 1..cursor[s]}

\* A message of the trail t that is not in w has been taken and is in t once.
Single(t, w, taken) ==
  /\ \A k \in DOMAIN t : t[k] \notin w => t[k] \in taken
  /\ \A k, l \in DOMAIN t : t[k] \notin w /\ t[k] = t[l] => k = l
TrailOK(s) == Single(Trail(s), window[s], Taken(s))
TrailInv == \A s \in open : TrailOK(s)

LEMMA SingleWider ==
  ASSUME NEW t, NEW w, NEW v, NEW T, NEW U, Single(t, w, T), w \subseteq v, T \subseteq U
  PROVE  Single(t, v, U)
BY DEF Single

\* A message may join the trail if it has not been taken.
LEMMA SingleAppend ==
  ASSUME NEW S, NEW t \in Seq(S), NEW m \in S, NEW w, NEW T, Single(t, w, T), m \notin T
  PROVE  Single(Append(t, m), w, T \cup {m})
<1>1. /\ Len(t) \in Nat /\ DOMAIN t = 1..Len(t) /\ DOMAIN Append(t, m) = 1..(Len(t) + 1)
      /\ \A i \in 1..Len(t) : Append(t, m)[i] = t[i]
      /\ Append(t, m)[Len(t) + 1] = m
  OBVIOUS
<1>. DEFINE u == Append(t, m)
<1>. HIDE DEF u
<1>2. \A k \in 1..(Len(t) + 1) : k \in 1..Len(t) \/ k = Len(t) + 1
  BY <1>1
<1>3. \A k \in DOMAIN u : u[k] \notin w => u[k] \in T \cup {m}
  BY <1>1, <1>2 DEF Single, u
<1>4. \A k \in 1..Len(t) : t[k] \notin w => t[k] # m
  BY <1>1 DEF Single
<1>5. \A k, l \in 1..Len(t) : t[k] \notin w /\ t[k] = t[l] => k = l
  BY <1>1 DEF Single
<1>6. \A k, l \in DOMAIN u : u[k] \notin w /\ u[k] = u[l] => k = l
  BY <1>1, <1>2, <1>4, <1>5 DEF u
<1>. QED BY <1>3, <1>6 DEF Single, u

\* A second trail may follow if it repeats nothing that has been taken.
LEMMA SingleConcat ==
  ASSUME NEW S, NEW t \in Seq(S), NEW u \in Seq(S), NEW w, NEW T, NEW U,
         Single(t, w, T), Single(u, w, U), T \subseteq U,
         \A k \in DOMAIN u : u[k] \notin w => u[k] \notin T
  PROVE  Single(t \o u, w, U)
<1>. DEFINE c == t \o u
<1>1. /\ Len(t) \in Nat /\ Len(u) \in Nat /\ DOMAIN t = 1..Len(t) /\ DOMAIN u = 1..Len(u)
      /\ DOMAIN c = 1..(Len(t) + Len(u))
      /\ \A i \in 1..(Len(t) + Len(u)) :
           c[i] = IF i <= Len(t) THEN t[i] ELSE u[i - Len(t)]
  <2>1. Len(c) = Len(t) + Len(u) /\ c \in Seq(S)
    BY ConcatProperties
  <2>. QED BY <2>1, ConcatProperties
<1>. HIDE DEF c
<1>2. ASSUME NEW k \in DOMAIN c
      PROVE  \/ k \in DOMAIN t /\ c[k] = t[k]
             \/ k - Len(t) \in DOMAIN u /\ c[k] = u[k - Len(t)] /\ k > Len(t)
  <2>1. CASE k <= Len(t)
    BY <1>1, <2>1
  <2>2. CASE ~(k <= Len(t))
    BY <1>1, <2>2
  <2>. QED BY <2>1, <2>2
<1>3. \A k \in DOMAIN c : c[k] \notin w => c[k] \in U
  BY <1>2 DEF Single
<1>4. ASSUME NEW k \in DOMAIN c, NEW l \in DOMAIN c, c[k] \notin w, c[k] = c[l]
      PROVE  k = l
  <2>1. \A x \in DOMAIN t, y \in DOMAIN u : t[x] \notin w => t[x] # u[y]
    BY DEF Single
  <2>2. CASE k \in DOMAIN t /\ c[k] = t[k]
    <3>1. l \in DOMAIN t /\ c[l] = t[l]
      BY <1>2, <1>4, <2>1, <2>2
    <3>. QED BY <1>4, <2>2, <3>1 DEF Single
  <2>3. CASE k - Len(t) \in DOMAIN u /\ c[k] = u[k - Len(t)] /\ k > Len(t)
    <3>1. l - Len(t) \in DOMAIN u /\ c[l] = u[l - Len(t)] /\ l > Len(t)
      BY <1>2, <1>4, <2>1, <2>3
    <3>2. k - Len(t) = l - Len(t)
      BY <1>4, <2>3, <3>1 DEF Single
    <3>. QED BY <1>1, <3>2
  <2>. QED BY <1>2, <2>2, <2>3
<1>. QED BY <1>3, <1>4 DEF Single, c

\* A socket whose trail, receiver and window stand still keeps its trail in
\* order while the channel grows.
LEMMA TrailSame ==
  ASSUME TypeOK, NEW s \in Sockets, TrailOK(s), out'[s] = out[s], backlog'[s] = backlog[s],
         window'[s] = window[s], cursor'[s] = cursor[s],
         \A i \in 1..Len(channel) : channel'[i] = channel[i]
  PROVE  TrailOK(s)'
<1>1. cursor[s] \in 0..Len(channel) /\ Len(channel) \in Nat
  BY DEF TypeOK
<1>2. Taken(s)' = Taken(s)
  BY <1>1 DEF Taken
<1>. QED BY <1>2 DEF TrailOK, Trail

\* No two entries of the ring are the same, and what is not in flight has been
\* sent on the channel.
LEMMA RingOnce ==
  ASSUME TypeOK, RingOK, ChannelInv
  PROVE  /\ \A i, j \in DOMAIN history : history[i] = history[j] => i = j
         /\ \A i \in DOMAIN history : history[i] \notin InFlight =>
              history[i] \in {channel[k] : k \in 1..Len(channel)}
<1>1. Len(history) \in Nat /\ DOMAIN history = 1..Len(history) /\ pushed \in Nat
  BY DEF TypeOK
<1>2. \A i \in DOMAIN history : history[i] = pushed - Len(history) + i /\ history[i] \in Messages
  BY <1>1 DEF RingOK, TypeOK
<1>3. DOMAIN channel = 1..Len(channel)
  BY DEF TypeOK
<1>. QED BY <1>1, <1>2, <1>3 DEF ChannelInv

LEMMA ConnectTrail ==
  ASSUME TypeOK, TypeOK', RingOK, ChannelInv, NEW s \in Sockets, Connect(s)
  PROVE  TrailOK(s)'
<1>1. /\ Trail(s)' = history /\ window'[s] = InFlight /\ cursor'[s] = Len(channel)
      /\ channel' = channel
  <2>1. out'[s] = <<>> /\ backlog'[s] = history /\ history \in Seq(Messages)
    BY DEF Connect, TypeOK
  <2>2. Trail(s)' = history
    BY <2>1, ConcatEmptySeq DEF Trail
  <2>. QED BY <2>2 DEF Connect, TypeOK, busVars
<1>2. Taken(s)' = {channel[k] : k \in 1..Len(channel)}
  BY <1>1 DEF Taken
<1>3. Single(history, InFlight, Taken(s)')
  BY <1>2, RingOnce DEF Single
<1>. QED BY <1>1, <1>3 DEF TrailOK

\* Writing the next entry of the backlog moves it along the trail.
LEMMA ReplayTrail ==
  ASSUME TypeOK, NEW s \in Sockets, TrailOK(s), Replay(s)
  PROVE  TrailOK(s)'
<1>. DEFINE o == out[s]
            b == backlog[s]
<1>1. /\ out'[s] = Append(o, Head(b)) /\ backlog'[s] = Tail(b)
      /\ o \in Seq(Messages) /\ b \in Seq(Messages) /\ b # <<>>
  BY DEF Replay, TypeOK
<1>2. Append(o, Head(b)) \o Tail(b) = o \o b
  <2>. HIDE DEF o, b
  <2>1. /\ b = <<Head(b)>> \o Tail(b) /\ Tail(b) \in Seq(Messages)
        /\ Head(b) \in Messages
    BY <1>1, HeadTailProperties
  <2>2. Append(o, Head(b)) = o \o <<Head(b)>>
    BY <1>1, <2>1, AppendIsConcat
  <2>3. <<Head(b)>> \in Seq(Messages)
    BY <2>1
  <2>4. (o \o <<Head(b)>>) \o Tail(b) = o \o (<<Head(b)>> \o Tail(b))
    BY <1>1, <2>1, <2>3, ConcatAssociative
  <2>. QED BY <2>1, <2>2, <2>4
<1>3. Trail(s)' = Trail(s)
  BY <1>1, <1>2 DEF Trail
<1>4. Taken(s)' = Taken(s) /\ window'[s] = window[s]
  BY DEF Replay, Taken, busVars
<1>. QED BY <1>3, <1>4 DEF TrailOK

\* What the receiver yields next has not been taken.
LEMMA ReceiveTrail ==
  ASSUME TypeOK, ChannelInv, NEW s \in Sockets, TrailOK(s), Receive(s)
  PROVE  TrailOK(s)'
<1>. DEFINE n == cursor[s] + 1
            m == channel[n]
<1>1. /\ cursor[s] \in Nat /\ n \in 1..Len(channel) /\ channel' = channel
      /\ cursor'[s] = n /\ window'[s] = window[s] /\ backlog[s] = <<>>
      /\ backlog'[s] = <<>> /\ out'[s] = Append(out[s], m) /\ m \in Messages
      /\ DOMAIN channel = 1..Len(channel) /\ out[s] \in Seq(Messages)
  BY DEF Receive, TypeOK, Live, busVars
<1>2. Trail(s) = out[s] /\ Trail(s)' = Append(out[s], m)
  <2>1. Append(out[s], m) \in Seq(Messages)
    BY <1>1
  <2>. QED BY <1>1, <2>1, ConcatEmptySeq DEF Trail
<1>3. m \notin Taken(s)
  <2>1. \A i \in 1..cursor[s] : i \in DOMAIN channel /\ n \in DOMAIN channel /\ i # n
    BY <1>1
  <2>. QED BY <2>1 DEF Taken, ChannelInv
<1>4. Taken(s)' = Taken(s) \cup {m}
  <2>1. Taken(s)' = {channel[i] : i \in 1..n}
    BY <1>1 DEF Taken
  <2>2. \A i : i \in 1..n <=> i \in 1..cursor[s] \/ i = n
    BY <1>1
  <2>. QED BY <2>1, <2>2 DEF Taken
<1>. HIDE DEF m, n
<1>5. Single(Append(out[s], m), window[s], Taken(s) \cup {m})
  BY <1>1, <1>2, <1>3, SingleAppend DEF TrailOK
<1>. QED BY <1>1, <1>2, <1>4, <1>5 DEF TrailOK

\* What an overrun socket has already taken from the channel is no longer in
\* the ring: more messages follow it on the channel than the ring and the
\* publishers that were under way can account for.
LEMMA OverrunForgets ==
  ASSUME FewPublishers, SizesOK, TypeOK, RingOK, ChannelInv, LateInv,
         NEW s \in Sockets, Overrun(s), NEW k \in DOMAIN history
  PROVE  history[k] \notin Taken(s)
<1>. SUFFICES ASSUME NEW i \in 1..cursor[s], channel[i] = history[k] PROVE FALSE
  BY DEF Taken
<1>. DEFINE m == history[k]
            c == cursor[s]
            L == Len(channel)
            Later == m + 1 .. pushed
            B == Overtaken(i) \cup Later
            f == [j \in c + 1 .. L |-> channel[j]]
<1>1. /\ c \in 0..L /\ L \in Nat /\ DOMAIN channel = 1..L /\ pushed \in Nat
      /\ \A j \in 1..L : channel[j] \in 1..pushed
      /\ Len(history) \in Nat /\ Len(history) <= HistoryCapacity
      /\ DOMAIN history = 1..Len(history)
  <2>1. channel \in Seq(Messages) /\ history \in Seq(Messages)
    BY DEF TypeOK
  <2>2. DOMAIN channel = 1..L /\ \A j \in 1..L : channel[j] \in Messages
    BY <2>1
  <2>3. c \in 0..L /\ L \in Nat /\ pushed \in Nat /\ Len(history) <= HistoryCapacity
    BY <2>1 DEF TypeOK
  <2>. QED BY <2>1, <2>2, <2>3 DEF Messages
<1>2. m = pushed - Len(history) + k /\ m \in 1..pushed
  <2>1. m = pushed - Len(history) + k
    BY <1>1 DEF RingOK
  <2>2. m \in 1..pushed
    BY <1>1, <2>1 DEF RingOK
  <2>. QED BY <2>1, <2>2
<1>3. i \in DOMAIN channel /\ channel[i] = m /\ i \in 1..c
  BY <1>1
<1>4. IsFiniteSet(Overtaken(i)) /\ Cardinality(Overtaken(i)) <= Cardinality(Publishers) - 1
  BY <1>3 DEF LateInv
<1>5. \A j \in c + 1 .. L : L - c > Capacity /\ j \in 1..L /\ \A h \in 1..i : h \in 1..L /\ h # j
  BY <1>1, <1>3 DEF Overrun
<1>6. L - c > Capacity
  BY DEF Overrun
<1>. HIDE DEF m, c, L
<1>7. IsFiniteSet(Later) /\ Cardinality(Later) = pushed - m
  <2>1. m + 1 \in Int /\ pushed \in Int /\ (m + 1 > pushed => pushed - m = 0)
        /\ pushed - (m + 1) + 1 = pushed - m
    BY <1>1, <1>2
  <2>. QED BY <2>1, FS_Interval
<1>8. ASSUME NEW j \in c + 1 .. L
      PROVE  channel[j] \in B
  <2>1. \A h \in 1..i : channel[h] # channel[j]
    BY <1>1, <1>5 DEF ChannelInv
  <2>2. channel[j] \in 1..pushed /\ channel[j] # m
    <3>1. j \in 1..L /\ i \in 1..i
      BY <1>1, <1>3, <1>5
    <3>. QED BY <1>1, <1>3, <2>1, <3>1
  <2>3. CASE channel[j] < m
    <3>1. channel[j] \in 1 .. channel[i] - 1
      BY <1>2, <1>3, <2>2, <2>3
    <3>2. channel[j] \in Overtaken(i)
      BY <2>1, <3>1 DEF Overtaken
    <3>. QED BY <3>2
  <2>4. CASE channel[j] > m
    BY <1>1, <1>2, <2>2, <2>4
  <2>. QED BY <1>1, <1>2, <2>2, <2>3, <2>4
<1>9. f \in Injection(c + 1 .. L, B)
  <2>1. f \in [c + 1 .. L -> B]
    BY <1>8
  <2>2. \A j, h \in c + 1 .. L : channel[j] = channel[h] => j = h
    BY <1>1, <1>5 DEF ChannelInv
  <2>3. \A j, h \in c + 1 .. L : f[j] = f[h] => j = h
    BY <2>2
  <2>. HIDE DEF f, B
  <2>. QED BY <2>1, <2>3 DEF Injection, IsInjective
<1>10. IsFiniteSet(B) /\ Cardinality(B) <= Cardinality(Overtaken(i)) + Cardinality(Later)
  <2>. HIDE DEF Later
  <2>1. IsFiniteSet(Overtaken(i) \cap Later)
    BY <1>4, FS_Subset
  <2>2. Cardinality(Overtaken(i) \cap Later) \in Nat /\ Cardinality(Overtaken(i)) \in Nat
        /\ Cardinality(Later) \in Nat
    BY <1>4, <1>7, <2>1, FS_CardinalityType
  <2>3. /\ IsFiniteSet(B)
        /\ Cardinality(B) = Cardinality(Overtaken(i)) + Cardinality(Later)
                            - Cardinality(Overtaken(i) \cap Later)
    BY <1>4, <1>7, FS_Union
  <2>. HIDE DEF B
  <2>. QED BY <2>2, <2>3
<1>11. Cardinality(c + 1 .. L) = L - c
  <2>1. c + 1 \in Int /\ L \in Int /\ ~(c + 1 > L) /\ L - (c + 1) + 1 = L - c
    BY <1>1, <1>6 DEF SizesOK
  <2>. QED BY <2>1, FS_Interval
<1>. HIDE DEF Later, B, f
<1>12. Cardinality(c + 1 .. L) <= Cardinality(B)
  BY <1>9, <1>10, FS_Injection
<1>13. /\ Cardinality(Publishers) \in Nat /\ Cardinality(B) \in Nat
       /\ Cardinality(Overtaken(i)) \in Nat
  BY <1>4, <1>10, FS_CardinalityType DEF FewPublishers
<1>14. pushed - m <= HistoryCapacity - 1
  BY <1>1, <1>2 DEF SizesOK
<1>15. Cardinality(B) <= Cardinality(Publishers) - 1 + HistoryCapacity - 1
  <2>1. Cardinality(Later) \in Int /\ HistoryCapacity \in Int
    BY <1>1, <1>2, <1>7 DEF SizesOK
  <2>2. Cardinality(Later) <= HistoryCapacity - 1
    BY <1>7, <1>14
  <2>3. Cardinality(Overtaken(i)) <= Cardinality(Publishers) - 1
    BY <1>4
  <2>4. Cardinality(B) <= Cardinality(Overtaken(i)) + Cardinality(Later)
    BY <1>10
  <2>. QED BY <1>13, <2>1, <2>2, <2>3, <2>4
<1>. QED
  <2>1. L - c <= Cardinality(B)
    BY <1>11, <1>12
  <2>2. L \in Int /\ c \in Int /\ HistoryCapacity \in Int /\ Capacity \in Int
    BY <1>1 DEF SizesOK
  <2>. QED BY <1>6, <1>13, <1>15, <2>1, <2>2 DEF FewPublishers, SizesOK

\* A socket that recovers goes on with ring entries it has not taken.
LEMMA RecoverTrail ==
  ASSUME FewPublishers, SizesOK, TypeOK, RingOK, ChannelInv, LateInv,
         NEW s \in Sockets, TrailOK(s), Recover(s)
  PROVE  TrailOK(s)'
<1>. DEFINE a == Lesser(sent[s], Len(history))
            u == Unsent(s)
            v == window[s] \cup InFlight
            U == {channel[k] : k \in 1..Len(channel)}
<1>1. /\ backlog[s] = <<>> /\ out[s] \in Seq(Messages) /\ u \in Seq(Messages)
      /\ out'[s] = out[s] /\ backlog'[s] = u /\ window'[s] = v
      /\ cursor'[s] = Len(channel) /\ channel' = channel /\ Overrun(s)
      /\ cursor[s] \in 0..Len(channel) /\ Len(channel) \in Nat
  BY UnsentType DEF Recover, TypeOK, Live, busVars
<1>2. Trail(s) = out[s] /\ Trail(s)' = out[s] \o u
  BY <1>1, ConcatEmptySeq DEF Trail
<1>3. Taken(s)' = U /\ Taken(s) \subseteq U
  BY <1>1 DEF Taken
<1>4. /\ DOMAIN u = 1..(Len(history) - a) /\ a \in Nat
      /\ DOMAIN history = 1..Len(history) /\ Len(history) \in Nat
      /\ \A k \in DOMAIN u : u[k] = history[a + k]
  <2>1. /\ a \in Nat /\ a <= Len(history) /\ Len(history) \in Nat
        /\ DOMAIN history = 1..Len(history)
    BY DEF TypeOK, Lesser
  <2>. HIDE DEF a
  <2>2. u = [k \in 1..(Len(history) - a) |-> history[a + 1 + k - 1]]
    BY <2>1 DEF Unsent, a
  <2>3. \A k \in 1..(Len(history) - a) : a + 1 + k - 1 = a + k
    BY <2>1
  <2>. HIDE DEF u
  <2>. QED BY <2>1, <2>2, <2>3
<1>. HIDE DEF a, u
<1>5. \A k \in DOMAIN u : a + k \in DOMAIN history
  BY <1>4
<1>6. Single(u, v, U)
  <2>1. \A k \in DOMAIN u : u[k] \notin v => u[k] \in U
    BY <1>4, <1>5, RingOnce
  <2>2. \A k, l \in DOMAIN u : u[k] = u[l] => k = l
    BY <1>4, <1>5, RingOnce
  <2>. QED BY <2>1, <2>2 DEF Single
<1>7. \A k \in DOMAIN u : u[k] \notin Taken(s)
  BY <1>1, <1>4, <1>5, FewPublishers, OverrunForgets
<1>8. Single(out[s], v, Taken(s))
  BY <1>2, SingleWider DEF TrailOK
<1>. HIDE DEF v, U
<1>9. Single(out[s] \o u, v, U)
  BY <1>1, <1>3, <1>6, <1>7, <1>8, SingleConcat
<1>. QED BY <1>1, <1>2, <1>3, <1>9 DEF TrailOK

LEMMA TrailInvariance ==
  ASSUME FewPublishers
  PROVE  Spec => []TrailInv
<1>1. Init => TrailInv
  BY DEF Init, TrailInv
<1>2. IInv /\ IInv' /\ ChannelInv /\ LateInv /\ TrailInv /\ [Next]_vars => TrailInv'
  <2>. SUFFICES ASSUME IInv, IInv', ChannelInv, LateInv, TrailInv, [Next]_vars,
                       NEW s \in open'
                PROVE  TrailOK(s)'
    BY DEF TrailInv
  <2>. USE SizesOK, FewPublishers DEF IInv
  <2>0. s \in Sockets /\ channel \in Seq(Messages)
    BY DEF TypeOK
  <2>1. ASSUME NEW p \in Publishers, Push(p) PROVE TrailOK(s)'
    BY <2>0, <2>1, TrailSame DEF Push, socketVars, TrailInv
  <2>2. ASSUME NEW p \in Publishers, Broadcast(p) PROVE TrailOK(s)'
    BY <2>0, <2>2, TrailSame, ChannelBroadcast DEF Broadcast, socketVars, TrailInv
  <2>3. ASSUME NEW t \in Sockets, Connect(t) PROVE TrailOK(s)'
    <3>1. CASE s = t
      BY <2>3, <3>1, ConnectTrail
    <3>2. CASE s # t
      BY <2>0, <2>3, <3>2, TrailSame DEF Connect, busVars, TrailInv, TypeOK
    <3>. QED BY <3>1, <3>2
  <2>4. ASSUME NEW t \in Sockets, Replay(t) PROVE TrailOK(s)'
    <3>1. CASE s = t
      BY <2>4, <3>1, ReplayTrail DEF Replay, TrailInv
    <3>2. CASE s # t
      BY <2>0, <2>4, <3>2, TrailSame DEF Replay, busVars, TrailInv, TypeOK
    <3>. QED BY <3>1, <3>2
  <2>5. ASSUME NEW t \in Sockets, Receive(t) PROVE TrailOK(s)'
    <3>1. CASE s = t
      BY <2>5, <3>1, ReceiveTrail DEF Receive, TrailInv
    <3>2. CASE s # t
      BY <2>0, <2>5, <3>2, TrailSame DEF Receive, busVars, TrailInv, TypeOK
    <3>. QED BY <3>1, <3>2
  <2>6. ASSUME NEW t \in Sockets, Recover(t) PROVE TrailOK(s)'
    <3>1. CASE s = t
      BY <2>6, <3>1, RecoverTrail DEF Recover, TrailInv
    <3>2. CASE s # t
      BY <2>0, <2>6, <3>2, TrailSame DEF Recover, busVars, TrailInv, TypeOK
    <3>. QED BY <3>1, <3>2
  <2>7. ASSUME NEW t \in Sockets, Close(t) PROVE TrailOK(s)'
    BY <2>0, <2>7, TrailSame DEF Close, busVars, TrailInv, TypeOK
  <2>8. CASE UNCHANGED vars
    BY <2>0, <2>8, TrailSame DEF vars, TrailInv
  <2>. QED BY <2>1, <2>2, <2>3, <2>4, <2>5, <2>6, <2>7, <2>8 DEF Next
<1>. QED BY <1>1, <1>2, Invariance, ChannelInvariance, PTL DEF Spec

\* A message that is not in w is at most once on an orderly trail.
LEMMA SingleCopies ==
  ASSUME NEW t, NEW w, NEW T, NEW m, Single(t, w, T), m \notin w
  PROVE  Copies(m, t) <= 1
<1>. DEFINE P == {i \in DOMAIN t : t[i] = m}
<1>1. CASE P = {}
  <2>1. Cardinality(P) = 0
    BY <1>1, FS_EmptySet
  <2>. QED BY <2>1 DEF Copies
<1>2. CASE P # {}
  <2>1. PICK i \in P : TRUE
    BY <1>2
  <2>2. P = {i}
    BY <2>1 DEF Single
  <2>3. Cardinality({i}) = 1
    BY FS_Singleton
  <2>. QED BY <2>2, <2>3 DEF Copies
<1>. QED BY <1>1, <1>2

\* A client is sent a message twice only if its publish was between push and
\* send at one of the socket's subscriptions, as long as the ring and the calls
\* of publish that can be under way fit in the channel (logbus.rs 68-80).
THEOREM NeverRepeated == ASSUME FewPublishers PROVE Spec => []NoRepeats
<1>1. TrailInv => NoRepeats
  BY SingleCopies DEF TrailInv, TrailOK, NoRepeats, Trail
<1>. QED BY <1>1, TrailInvariance, PTL
=============================================================================
