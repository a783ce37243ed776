------------------------- MODULE Schedules_proofs -------------------------
(* Theorems about Schedules, for every set of schedules, editors, texts     *)
(* and edits, and every length of the intervals.                            *)
EXTENDS Schedules, TLAPS

\* An edit that does not restart the countdown keeps the timing it read and
\* does not enable; one that does sets the next run from the time it read.
EditInv ==
  \A e \in Editors : edit[e] # Absent =>
    LET w == edit[e]
    IN  /\ ~w.restart => /\ w.new.every = w.read.every
                         /\ w.new.next = w.read.next
                         /\ w.new.on => w.read.on
        /\ w.restart /\ w.new.every > 0 => w.new.next = w.time + w.new.every

\* The ticker's list names a schedule once, and a one-time schedule on it has
\* not run since it was armed.
DueInv ==
  /\ \A d, o \in due : d.job = o.job => d = o
  /\ \A d \in due : d.job \in Sound /\ row[d.job].every = 0 => runs[d.job] = 0

RowInv == EditInv /\ DueInv /\ OneRunPerArming /\ Cadence /\ CatchesUp

-----------------------------------------------------------------------------
\* What an edit computes.

LEMMA ParsedType == ASSUME ParametersOK, NEW w \in Patch PROVE Parsed(w) \in Patch
BY DEF Parsed, Patch

LEMMA UpdatedProps ==
  ASSUME ParametersOK, now \in Nat, NEW cur \in Columns, NEW p \in Patch
  PROVE  /\ Updated(cur, p) \in Columns
         /\ ~Restarts(cur, p) => /\ Updated(cur, p).every = cur.every
                                 /\ Updated(cur, p).next = cur.next
                                 /\ Updated(cur, p).on => cur.on
         /\ Restarts(cur, p) /\ Updated(cur, p).every > 0
              => Updated(cur, p).next = now + Updated(cur, p).every
<1>. DEFINE body == OrElse(p.body, cur.body)
            every == OrElse(p.every, cur.every)
            next == OrElse(p.next, cur.next)
            on == OrElse(p.on, cur.on)
            soon == OrElse(p.next, now + Snooze)
<1>1. /\ body \in Bodies /\ every \in Nat /\ next \in Nat /\ on \in BOOLEAN /\ soon \in Nat
      /\ now + every \in Nat
  BY DEF ParametersOK, Columns, Patch, OrElse
<1>2. Restarts(cur, p) <=> every # cur.every \/ next # cur.next \/ (on /\ ~cur.on)
  BY DEF Restarts
<1>3. Updated(cur, p) =
        [body |-> body, every |-> every, on |-> on,
         next |-> IF Restarts(cur, p) THEN (IF every # 0 THEN now + every ELSE soon) ELSE next]
  BY DEF Updated
<1>. HIDE DEF body, every, next, on, soon
<1>4. Updated(cur, p) \in Columns
  BY <1>1, <1>3 DEF Columns
<1>5. /\ Updated(cur, p).every = every /\ Updated(cur, p).on = on
      /\ ~Restarts(cur, p) => Updated(cur, p).next = next
      /\ Restarts(cur, p) /\ every # 0 => Updated(cur, p).next = now + every
  BY <1>3
<1>6. ASSUME ~Restarts(cur, p)
      PROVE  every = cur.every /\ next = cur.next /\ (on => cur.on)
  BY <1>2, <1>6
<1>. QED BY <1>1, <1>4, <1>5, <1>6

LEMMA AdvancedProps ==
  ASSUME at \in Nat, NEW c \in Columns
  PROVE  /\ Advanced(c) \in Columns
         /\ Advanced(c).every = c.every
         /\ c.every = 0 => ~Advanced(c).on
         /\ c.every > 0 => Advanced(c).next >= c.next + c.every /\ Advanced(c).next > at
<1>. DEFINE nx == CASE c.every = 0 -> c.next
                    [] c.every # 0 /\ c.next + c.every > at -> c.next + c.every
                    [] OTHER -> at + c.every
<1>1. c.every \in Nat /\ c.next \in Nat /\ c.on \in BOOLEAN
  BY DEF Columns
<1>2. nx \in Nat /\ (c.every > 0 => nx >= c.next + c.every /\ nx > at)
  BY <1>1
<1>3. Advanced(c) = [[c EXCEPT !.on = c.on /\ c.every # 0] EXCEPT !.next = nx]
  BY DEF Advanced
<1>. HIDE DEF nx
<1>4. /\ Advanced(c) \in Columns /\ Advanced(c).every = c.every /\ Advanced(c).next = nx
      /\ Advanced(c).on = (c.on /\ c.every # 0)
  BY <1>1, <1>2, <1>3 DEF Columns
<1>. QED BY <1>1, <1>2, <1>4

-----------------------------------------------------------------------------
\* Types, per action.

LEMMA InitType == ASSUME ParametersOK, Init PROVE TypeOK
BY DEF Init, TypeOK, Rows

LEMMA CreateType ==
  ASSUME ParametersOK, TypeOK, NEW j \in Jobs, NEW c \in Creations, Create(j, c)
  PROVE  TypeOK'
<1>. DEFINE new == [body |-> c.body, every |-> c.every, on |-> TRUE,
                    next |-> IF c.every = 0 THEN c.next ELSE now + c.every]
<1>1. new \in Columns
  BY DEF ParametersOK, TypeOK, Columns
<1>2. row' = [row EXCEPT ![j] = new] /\ used' = used \cup {j}
  BY DEF Create
<1>. HIDE DEF new
<1>3. row' \in [Jobs -> Columns \cup {Absent}] /\ Rows' \subseteq used'
  BY <1>1, <1>2 DEF TypeOK, Rows
<1>. QED BY <1>2, <1>3 DEF Create, Restart, TypeOK, queueVars, tickVars

LEMMA DeleteType == ASSUME TypeOK, NEW j \in Jobs, Delete(j) PROVE TypeOK'
<1>1. row' \in [Jobs -> Columns \cup {Absent}] /\ Rows' \subseteq used'
  BY DEF Delete, TypeOK, Rows
<1>. QED BY <1>1 DEF Delete, TypeOK, queueVars, tickVars, ghostVars

LEMMA PatchReadType ==
  ASSUME ParametersOK, TypeOK, NEW e \in Editors, NEW j \in Jobs, NEW w \in Patches,
         PatchRead(e, j, w)
  PROVE  TypeOK'
<1>. DEFINE new == [job |-> j, read |-> row[j], new |-> Updated(row[j], Parsed(w)),
                    restart |-> Restarts(row[j], Parsed(w)), time |-> now]
<1>1. w \in Patch /\ row[j] \in Columns /\ now \in Nat
  BY DEF ParametersOK, PatchRead, TypeOK, Rows
<1>2. Updated(row[j], Parsed(w)) \in Columns
  BY <1>1, ParsedType, UpdatedProps
<1>3. Restarts(row[j], Parsed(w)) \in BOOLEAN
  BY DEF Restarts
<1>4. new \in Edit
  BY <1>1, <1>2, <1>3 DEF Edit
<1>5. edit' = [edit EXCEPT ![e] = new]
  BY DEF PatchRead
<1>. HIDE DEF new
<1>6. edit' \in [Editors -> Edit \cup {Absent}]
  BY <1>4, <1>5 DEF TypeOK
<1>. QED BY <1>6 DEF PatchRead, TypeOK, queueVars, tickVars, ghostVars, Rows

LEMMA PatchWriteType == ASSUME TypeOK, NEW e \in Editors, PatchWrite(e) PROVE TypeOK'
<1>1. edit[e] \in Edit /\ edit[e].new \in Columns /\ edit[e].time \in Nat /\ edit[e].job \in Jobs
  BY DEF PatchWrite, TypeOK, Edit
<1>2. /\ row' \in [Jobs -> Columns \cup {Absent}] /\ Rows' \subseteq used'
      /\ from' \in [Jobs -> Nat] /\ runs' \in [Jobs -> Nat] /\ last' \in [Jobs -> Nat]
      /\ clobbered' \subseteq Jobs
  BY <1>1 DEF PatchWrite, Restart, TypeOK, Rows, ghostVars
<1>3. edit' \in [Editors -> Edit \cup {Absent}]
  BY DEF PatchWrite, TypeOK
<1>. QED BY <1>2, <1>3 DEF PatchWrite, TypeOK, queueVars, tickVars

LEMMA WakeType == ASSUME TypeOK, Wake PROVE TypeOK'
<1>1. Due \subseteq Listed
  BY DEF Due, Listed, Rows, TypeOK, Columns
<1>. QED BY <1>1 DEF Wake, TypeOK, queueVars, ghostVars, Rows

LEMMA MarkType == ASSUME TypeOK, NEW d \in due, Mark(d) PROVE TypeOK'
<1>1. d.job \in Jobs /\ at \in Nat /\ d \in Listed
  BY DEF TypeOK, Listed
<1>2. d.job \in Rows => row[d.job] \in Columns /\ Advanced(row[d.job]) \in Columns
  BY <1>1, AdvancedProps DEF TypeOK, Rows
<1>3. /\ row' \in [Jobs -> Columns \cup {Absent}] /\ Rows' \subseteq used'
      /\ runs' \in [Jobs -> Nat] /\ last' \in [Jobs -> Nat]
  BY <1>1, <1>2 DEF Mark, TypeOK, Rows
<1>. QED BY <1>1, <1>3 DEF Mark, TypeOK, queueVars

LEMMA MarkFailsType == ASSUME TypeOK, NEW d \in due, MarkFails(d) PROVE TypeOK'
BY DEF MarkFails, Continue, Spend, TypeOK, queueVars, ghostVars, Rows

LEMMA LookType == ASSUME TypeOK, Look PROVE TypeOK'
BY DEF Look, Continue, TypeOK, queueVars, ghostVars, Rows

LEMMA SendType == ASSUME TypeOK, Send PROVE TypeOK'
<1>1. firing \in Listed /\ firing.body \in Bodies
  BY DEF Send, TypeOK, Listed
<1>2. pending' \in [Bodies -> Nat]
  BY <1>1 DEF Send, TypeOK
<1>. QED BY <1>2 DEF Send, Continue, TypeOK, ghostVars, Rows

LEMMA SendFailsType == ASSUME TypeOK, SendFails \/ SendGone PROVE TypeOK'
BY DEF SendFails, SendGone, Continue, Spend, TypeOK, queueVars, ghostVars, Rows

LEMMA PauseType == ASSUME TypeOK, Pause PROVE TypeOK'
<1>1. firing \in Listed /\ firing.job \in Jobs
  BY DEF Pause, TypeOK, Listed
<1>2. row' \in [Jobs -> Columns \cup {Absent}] /\ Rows' \subseteq used'
  <2>1. CASE firing.job \in Rows
    <3>1. row[firing.job] \in Columns
      BY <1>1, <2>1 DEF TypeOK, Rows
    <3>2. [row[firing.job] EXCEPT !.on = FALSE] \in Columns
      BY <3>1 DEF Columns
    <3>3. row' = [row EXCEPT ![firing.job] = [row[firing.job] EXCEPT !.on = FALSE]]
      BY <2>1 DEF Pause
    <3>. QED BY <1>1, <2>1, <3>2, <3>3 DEF Pause, TypeOK, Rows
  <2>2. CASE firing.job \notin Rows
    BY <2>2 DEF Pause, TypeOK, Rows
  <2>. QED BY <2>1, <2>2
<1>. QED BY <1>2 DEF Pause, Continue, TypeOK, queueVars, ghostVars

LEMMA ClockType == ASSUME TypeOK, Clock PROVE TypeOK'
BY DEF Clock, TypeOK, queueVars, tickVars, ghostVars, Rows

LEMMA ChatFlipsType == ASSUME TypeOK, ChatFlips PROVE TypeOK'
<1>1. alive' \in BOOLEAN
  BY DEF ChatFlips
<1>. QED BY <1>1 DEF ChatFlips, TypeOK, queueVars, tickVars, ghostVars, Rows

LEMMA QueueMovesType == ASSUME TypeOK, NEW b \in Bodies, QueueMoves(b) PROVE TypeOK'
<1>1. /\ pending' \in [Bodies -> Nat] /\ running' \in [Bodies -> Nat]
      /\ returned' \in [Bodies -> Nat] /\ faults' \in Nat
  BY DEF QueueMoves, Spend, TypeOK
<1>. QED BY <1>1 DEF QueueMoves, TypeOK, tickVars, ghostVars, Rows

LEMMA CrashType == ASSUME TypeOK, Crash PROVE TypeOK'
<1>1. /\ pending' \in [Bodies -> Nat] /\ running' \in [Bodies -> Nat]
      /\ returned' \in [Bodies -> Nat] /\ faults' \in Nat
  BY DEF Crash, Spend, TypeOK
<1>. QED BY <1>1 DEF Crash, TypeOK, ghostVars, Rows

LEMMA StutterType == ASSUME TypeOK, UNCHANGED vars PROVE TypeOK'
BY DEF TypeOK, vars, Rows

LEMMA NextType == ASSUME ParametersOK, TypeOK, [Next]_vars PROVE TypeOK'
BY CreateType, DeleteType, PatchReadType, PatchWriteType, WakeType, MarkType, MarkFailsType,
   LookType, SendType, SendFailsType, PauseType, ClockType, ChatFlipsType, QueueMovesType, CrashType,
   StutterType
   DEF Next, Ticker

-----------------------------------------------------------------------------
\* The rows, per action.  An action that leaves the rows, the counts, the
\* edits and the list alone disturbs nothing.

rowVars == <<row, from, runs, last, clobbered>>

LEMMA RowsKept ==
  ASSUME RowInv, UNCHANGED rowVars,
         \A e \in Editors : edit'[e] = edit[e] \/ edit'[e] = Absent,
         due' \subseteq due
  PROVE  RowInv'
<1>1. EditInv'
  BY DEF RowInv, EditInv
<1>2. Rows' = Rows /\ Sound' = Sound
  BY DEF rowVars, Rows, Sound
<1>3. DueInv'
  BY <1>2 DEF RowInv, DueInv, rowVars
<1>4. OneRunPerArming' /\ Cadence' /\ CatchesUp'
  BY <1>2 DEF RowInv, OneRunPerArming, Cadence, CatchesUp, rowVars
<1>. QED BY <1>1, <1>3, <1>4 DEF RowInv

LEMMA CreateRow ==
  ASSUME ParametersOK, TypeOK, RowInv, NEW j \in Jobs, NEW c \in Creations, Create(j, c)
  PROVE  RowInv'
<1>. DEFINE new == [body |-> c.body, every |-> c.every, on |-> TRUE,
                    next |-> IF c.every = 0 THEN c.next ELSE now + c.every]
<1>0. c.every \in Nat /\ c.next \in Nat /\ now \in Nat
  BY DEF ParametersOK, TypeOK
<1>1. /\ row' = [row EXCEPT ![j] = new] /\ from' = [from EXCEPT ![j] = now]
      /\ runs' = [runs EXCEPT ![j] = 0] /\ last' = last /\ clobbered' = clobbered \ {j}
      /\ edit' = edit /\ due' = due
  BY DEF Create, Restart, tickVars
<1>2. new.every = c.every /\ (c.every > 0 => new.next = now + c.every)
  BY <1>0
<1>. HIDE DEF new
<1>3. ASSUME NEW k \in Sound', k # j
      PROVE  /\ k \in Sound /\ row'[k] = row[k] /\ from'[k] = from[k] /\ runs'[k] = runs[k]
             /\ last'[k] = last[k]
  BY <1>1, <1>3 DEF Sound, Rows, TypeOK
<1>4. row'[j] = new /\ from'[j] = now /\ runs'[j] = 0
  BY <1>1 DEF TypeOK
<1>5. EditInv'
  BY <1>1 DEF RowInv, EditInv
<1>6. DueInv'
  BY <1>1, <1>3, <1>4 DEF RowInv, DueInv
<1>7. OneRunPerArming'
  BY <1>3, <1>4 DEF RowInv, OneRunPerArming
<1>8. (0 + 1) * c.every = c.every
  BY <1>0
<1>9. Cadence'
  BY <1>0, <1>2, <1>3, <1>4, <1>8 DEF RowInv, Cadence
<1>10. CatchesUp'
  BY <1>3, <1>4 DEF RowInv, CatchesUp
<1>. QED BY <1>5, <1>6, <1>7, <1>9, <1>10 DEF RowInv

LEMMA DeleteRow ==
  ASSUME TypeOK, RowInv, NEW j \in Jobs, Delete(j)
  PROVE  RowInv'
<1>1. /\ row' = [row EXCEPT ![j] = Absent] /\ from' = from /\ runs' = runs /\ last' = last
      /\ clobbered' = clobbered /\ edit' = edit /\ due' = due
  BY DEF Delete, ghostVars, tickVars
<1>2. ASSUME NEW k \in Sound' PROVE k \in Sound /\ row'[k] = row[k]
  BY <1>1 DEF Sound, Rows, TypeOK
<1>3. EditInv'
  BY <1>1 DEF RowInv, EditInv
<1>4. DueInv'
  BY <1>1, <1>2 DEF RowInv, DueInv
<1>5. OneRunPerArming' /\ Cadence' /\ CatchesUp'
  BY <1>1, <1>2 DEF RowInv, OneRunPerArming, Cadence, CatchesUp
<1>. QED BY <1>3, <1>4, <1>5 DEF RowInv

LEMMA PatchReadRow ==
  ASSUME ParametersOK, TypeOK, RowInv, NEW e \in Editors, NEW j \in Jobs, NEW w \in Patches,
         PatchRead(e, j, w)
  PROVE  RowInv'
<1>. DEFINE p == Parsed(w)
            new == Updated(row[j], p)
            mine == [job |-> j, read |-> row[j], new |-> new,
                     restart |-> Restarts(row[j], p), time |-> now]
<1>1. p \in Patch /\ row[j] \in Columns /\ now \in Nat
  BY ParsedType DEF ParametersOK, PatchRead, TypeOK, Rows
<1>2. /\ ~Restarts(row[j], p) => /\ new.every = row[j].every /\ new.next = row[j].next
                                 /\ new.on => row[j].on
      /\ Restarts(row[j], p) /\ new.every > 0 => new.next = now + new.every
  BY <1>1, UpdatedProps
<1>3. /\ mine.read = row[j] /\ mine.new = new /\ mine.time = now
      /\ mine.restart = Restarts(row[j], p)
  OBVIOUS
<1>4. edit' = [edit EXCEPT ![e] = mine]
  BY DEF PatchRead
<1>. HIDE DEF new, mine, p
<1>5. EditInv'
  <2>. SUFFICES ASSUME NEW f \in Editors, edit'[f] # Absent
                PROVE  LET v == edit'[f]
                       IN  /\ ~v.restart => /\ v.new.every = v.read.every
                                            /\ v.new.next = v.read.next
                                            /\ v.new.on => v.read.on
                           /\ v.restart /\ v.new.every > 0 => v.new.next = v.time + v.new.every
    BY DEF EditInv
  <2>1. CASE f = e
    <3>1. edit'[f] = mine
      BY <1>4, <2>1 DEF TypeOK
    <3>. QED BY <1>2, <1>3, <3>1
  <2>2. CASE f # e
    <3>1. edit'[f] = edit[f]
      BY <1>4, <2>2 DEF TypeOK
    <3>. QED BY <3>1 DEF RowInv, EditInv
  <2>. QED BY <2>1, <2>2
<1>6. UNCHANGED rowVars /\ due' = due
  BY DEF PatchRead, rowVars, ghostVars, tickVars
<1>7. Rows' = Rows /\ Sound' = Sound
  BY <1>6 DEF rowVars, Rows, Sound
<1>8. DueInv' /\ OneRunPerArming' /\ Cadence' /\ CatchesUp'
  BY <1>6, <1>7 DEF RowInv, DueInv, OneRunPerArming, Cadence, CatchesUp, rowVars
<1>. QED BY <1>5, <1>8 DEF RowInv

LEMMA PatchWriteRow ==
  ASSUME TypeOK, RowInv, NEW e \in Editors, PatchWrite(e)
  PROVE  RowInv'
<1>. DEFINE w == edit[e]
            j == edit[e].job
<1>1. w \in Edit /\ j \in Jobs /\ w.time \in Nat /\ w.new.every \in Nat /\ w # Absent
  BY DEF PatchWrite, TypeOK, Edit, Columns
<1>2. \A f \in Editors : edit'[f] = edit[f] \/ edit'[f] = Absent
  BY DEF PatchWrite, TypeOK
<1>3. EditInv'
  BY <1>2 DEF RowInv, EditInv
<1>4. due' = due
  BY DEF PatchWrite, tickVars
<1>5. CASE j \notin Rows
  <2>1. UNCHANGED rowVars
    BY <1>5 DEF PatchWrite, rowVars, ghostVars
  <2>. QED BY <1>2, <1>4, <2>1, RowsKept
<1>6. CASE j \in Rows
  <2>1. row' = [row EXCEPT ![j] = w.new] /\ last' = last
    BY <1>6 DEF PatchWrite, Restart
  <2>2. ASSUME NEW k \in Sound', k # j
        PROVE  /\ k \in Sound /\ row'[k] = row[k] /\ from'[k] = from[k] /\ runs'[k] = runs[k]
               /\ last'[k] = last[k]
    <3>1. k \in Sound
      BY <1>6, <2>1, <2>2 DEF PatchWrite, Restart, Sound, Rows, TypeOK
    <3>. QED BY <1>6, <2>1, <2>2, <3>1 DEF PatchWrite, Restart, Sound, Rows, TypeOK
  <2>3. ASSUME j \in Sound'
        PROVE  /\ row'[j].every = 0 => runs'[j] <= 1 /\ (runs'[j] = 1 => ~row'[j].on)
               /\ row'[j].every > 0 => row'[j].next >= from'[j] + (runs'[j] + 1) * row'[j].every
               /\ row'[j].every > 0 /\ runs'[j] > 0 => row'[j].next > last'[j]
               /\ \A d \in due : d.job = j /\ row'[j].every = 0 => runs'[j] = 0
    <3>0. row'[j] = w.new
      BY <1>1, <2>1 DEF TypeOK
    <3>1. CASE w.restart
      <4>1. from'[j] = w.time /\ runs'[j] = 0
        BY <1>1, <1>6, <3>1 DEF PatchWrite, Restart, TypeOK
      <4>2. w.new.every > 0 => w.new.next = w.time + w.new.every
        BY <1>1, <3>1 DEF RowInv, EditInv
      <4>3. (0 + 1) * w.new.every = w.new.every
        BY <1>1
      <4>. QED BY <1>1, <3>0, <4>1, <4>2, <4>3
    <3>2. CASE ~w.restart
      <4>1. from' = from /\ runs' = runs /\ last' = last
        BY <1>6, <3>2 DEF PatchWrite
      <4>2. row[j] = w.read /\ j \in Sound
        <5>1. clobbered' = IF row[j] = w.read THEN clobbered ELSE clobbered \cup {j}
          BY <1>6, <3>2 DEF PatchWrite
        <5>. QED BY <1>6, <2>3, <5>1 DEF Sound
      <4>3. w.new.every = row[j].every /\ w.new.next = row[j].next /\ (w.new.on => row[j].on)
        BY <1>1, <3>2, <4>2 DEF RowInv, EditInv
      <4>. QED BY <3>0, <4>1, <4>2, <4>3 DEF RowInv, DueInv, OneRunPerArming, Cadence, CatchesUp
    <3>. QED BY <3>1, <3>2
  <2>4. DueInv'
    <3>1. \A d, o \in due' : d.job = o.job => d = o
      BY <1>4 DEF RowInv, DueInv
    <3>2. ASSUME NEW d \in due', d.job \in Sound', row'[d.job].every = 0
          PROVE  runs'[d.job] = 0
      <4>1. CASE d.job = j
        BY <1>4, <2>3, <3>2, <4>1
      <4>2. CASE d.job # j
        BY <1>4, <2>2, <3>2, <4>2 DEF RowInv, DueInv
      <4>. QED BY <4>1, <4>2
    <3>. QED BY <3>1, <3>2 DEF DueInv
  <2>5. OneRunPerArming' /\ Cadence' /\ CatchesUp'
    BY <2>2, <2>3 DEF RowInv, OneRunPerArming, Cadence, CatchesUp
  <2>. QED BY <1>3, <2>4, <2>5 DEF RowInv
<1>. QED BY <1>5, <1>6

LEMMA WakeRow == ASSUME TypeOK, RowInv, Wake PROVE RowInv'
<1>1. UNCHANGED rowVars /\ edit' = edit /\ due' = Due
  BY DEF Wake, rowVars, ghostVars
<1>2. Rows' = Rows /\ Sound' = Sound
  BY <1>1 DEF rowVars, Rows, Sound
<1>3. DueInv'
  <2>1. \A d, o \in Due : d.job = o.job => d = o
    BY DEF Due
  <2>2. ASSUME NEW d \in Due, d.job \in Sound, row[d.job].every = 0 PROVE runs[d.job] = 0
    <3>1. row[d.job].on /\ d.job \in Jobs
      BY DEF Due, Rows
    <3>2. runs[d.job] \in Nat
      BY <3>1 DEF TypeOK
    <3>. QED BY <2>2, <3>1, <3>2 DEF RowInv, OneRunPerArming
  <2>. QED BY <1>1, <1>2, <2>1, <2>2 DEF DueInv, rowVars
<1>4. EditInv' /\ OneRunPerArming' /\ Cadence' /\ CatchesUp'
  BY <1>1, <1>2 DEF RowInv, EditInv, OneRunPerArming, Cadence, CatchesUp, rowVars
<1>. QED BY <1>3, <1>4 DEF RowInv

LEMMA MarkRow == ASSUME TypeOK, RowInv, NEW d \in due, Mark(d) PROVE RowInv'
<1>. DEFINE j == d.job
<1>1. due' = due \ {d} /\ edit' = edit /\ from' = from /\ clobbered' = clobbered
      /\ j \in Jobs /\ at \in Nat
  BY DEF Mark, TypeOK, Listed
<1>2. CASE j \notin Rows
  <2>1. UNCHANGED rowVars
    BY <1>1, <1>2 DEF Mark, rowVars
  <2>. QED BY <1>1, <2>1, RowsKept
<1>3. CASE j \in Rows
  <2>1. /\ row' = [row EXCEPT ![j] = Advanced(row[j])] /\ runs' = [runs EXCEPT ![j] = runs[j] + 1]
        /\ last' = [last EXCEPT ![j] = at]
    BY <1>3 DEF Mark
  <2>2. /\ row'[j] = Advanced(row[j]) /\ runs'[j] = runs[j] + 1 /\ last'[j] = at
        /\ row[j] \in Columns /\ runs[j] \in Nat /\ from[j] \in Nat
    BY <1>1, <1>3, <2>1 DEF TypeOK, Rows
  <2>3. ASSUME NEW k \in Sound', k # j
        PROVE  k \in Sound /\ row'[k] = row[k] /\ runs'[k] = runs[k] /\ last'[k] = last[k]
    BY <1>1, <2>1, <2>3 DEF Sound, Rows, TypeOK
  <2>4. j \in Sound' => j \in Sound
    BY <1>1, <1>3 DEF Sound
  <2>5. /\ Advanced(row[j]).every = row[j].every
        /\ row[j].every = 0 => ~Advanced(row[j]).on
        /\ row[j].every > 0 => /\ Advanced(row[j]).next >= row[j].next + row[j].every
                               /\ Advanced(row[j]).next > at
        /\ Advanced(row[j]).next \in Nat /\ row[j].every \in Nat /\ row[j].next \in Nat
    BY <1>1, <2>2, AdvancedProps DEF Columns
  <2>6. OneRunPerArming'
    <3>1. j \in Sound' /\ row'[j].every = 0 => runs[j] = 0
      BY <2>2, <2>4, <2>5 DEF RowInv, DueInv
    <3>. QED BY <2>2, <2>3, <2>5, <3>1 DEF RowInv, OneRunPerArming
  <2>7. Cadence'
    <3>1. ASSUME j \in Sound', row'[j].every > 0
          PROVE  row'[j].next >= from'[j] + (runs'[j] + 1) * row'[j].every
      <4>1. row[j].next >= from[j] + (runs[j] + 1) * row[j].every
        BY <2>2, <2>4, <2>5, <3>1 DEF RowInv, Cadence
      <4>2. ASSUME NEW r \in Nat, NEW v \in Nat PROVE (r + 1 + 1) * v = (r + 1) * v + v
        OBVIOUS
      <4>3. /\ (runs[j] + 1 + 1) * row[j].every = (runs[j] + 1) * row[j].every + row[j].every
            /\ (runs[j] + 1) * row[j].every \in Nat
        BY <2>2, <2>5, <4>2
      <4>. QED BY <1>1, <2>2, <2>5, <3>1, <4>1, <4>3
    <3>. QED BY <1>1, <2>3, <3>1 DEF RowInv, Cadence
  <2>8. CatchesUp'
    BY <2>2, <2>3, <2>5 DEF RowInv, CatchesUp
  <2>9. DueInv'
    <3>1. ASSUME NEW o \in due' PROVE o \in due /\ o.job # j
      BY <1>1 DEF RowInv, DueInv
    <3>. QED BY <1>1, <2>3, <3>1 DEF RowInv, DueInv
  <2>10. EditInv'
    BY <1>1 DEF RowInv, EditInv
  <2>. QED BY <2>6, <2>7, <2>8, <2>9, <2>10 DEF RowInv
<1>. QED BY <1>2, <1>3

LEMMA PauseRow == ASSUME TypeOK, RowInv, Pause PROVE RowInv'
<1>. DEFINE j == firing.job
<1>1. /\ due' = due /\ edit' = edit /\ from' = from /\ runs' = runs /\ last' = last
      /\ clobbered' = clobbered /\ j \in Jobs
  BY DEF Pause, ghostVars, TypeOK, Listed
<1>2. ASSUME NEW k \in Sound'
      PROVE  /\ k \in Sound /\ row'[k].every = row[k].every /\ row'[k].next = row[k].next
             /\ row'[k].on => row[k].on
  <2>1. k \in Jobs /\ row'[k] # Absent /\ k \notin clobbered
    BY <1>1 DEF Sound, Rows
  <2>2. row'[k] = row[k] \/ (k = j /\ k \in Rows /\ row'[k] = [row[k] EXCEPT !.on = FALSE])
    BY <2>1 DEF Pause, TypeOK
  <2>3. k \in Sound
    BY <2>1, <2>2 DEF Sound, Rows
  <2>4. row[k] \in Columns
    BY <2>3 DEF Sound, Rows, TypeOK
  <2>5. row'[k].every = row[k].every /\ row'[k].next = row[k].next /\ (row'[k].on => row[k].on)
    BY <2>2, <2>4 DEF Columns
  <2>. QED BY <2>3, <2>5
<1>3. EditInv'
  BY <1>1 DEF RowInv, EditInv
<1>4. DueInv'
  BY <1>1, <1>2 DEF RowInv, DueInv
<1>5. OneRunPerArming' /\ Cadence' /\ CatchesUp'
  BY <1>1, <1>2 DEF RowInv, OneRunPerArming, Cadence, CatchesUp
<1>. QED BY <1>3, <1>4, <1>5 DEF RowInv

LEMMA OtherRow ==
  ASSUME TypeOK, RowInv,
         \/ \E d \in due : MarkFails(d)
         \/ Look \/ Send \/ SendFails \/ SendGone \/ Clock \/ ChatFlips \/ Crash
         \/ \E b \in Bodies : QueueMoves(b)
         \/ UNCHANGED vars
  PROVE  RowInv'
<1>1. UNCHANGED rowVars
  BY DEF MarkFails, Look, Send, SendFails, SendGone, Clock, ChatFlips, Crash, QueueMoves, vars,
         rowVars, ghostVars
<1>2. edit' = edit \/ edit' = [e \in Editors |-> Absent]
  BY DEF MarkFails, Look, Send, SendFails, SendGone, Clock, ChatFlips, Crash, QueueMoves, vars
<1>3. due' \subseteq due
  BY DEF MarkFails, Look, Send, SendFails, SendGone, Clock, ChatFlips, Crash, QueueMoves, vars,
         tickVars
<1>4. \A e \in Editors : edit'[e] = edit[e] \/ edit'[e] = Absent
  BY <1>2
<1>. QED BY <1>1, <1>3, <1>4, RowsKept

LEMMA NextRow == ASSUME ParametersOK, TypeOK, RowInv, [Next]_vars PROVE RowInv'
BY CreateRow, DeleteRow, PatchReadRow, PatchWriteRow, WakeRow, MarkRow, PauseRow, OtherRow
   DEF Next, Ticker

LEMMA InitRow == ASSUME ParametersOK, Init PROVE RowInv
BY DEF Init, RowInv, EditInv, DueInv, OneRunPerArming, Cadence, CatchesUp, Sound, Rows

LEMMA Invariance == Spec => [](TypeOK /\ RowInv)
<1>1. Init => TypeOK /\ RowInv
  BY InitType, InitRow, ParametersOK
<1>2. TypeOK /\ RowInv /\ [Next]_vars => TypeOK' /\ RowInv'
  BY NextType, NextRow, ParametersOK
<1>. QED BY <1>1, <1>2, PTL DEF Spec

\* Every run of a one-time schedule uses up the arming it answers: it runs at
\* most once per arming, unless an edit writes an old row back over the mark.
THEOREM OneTimeOnce == Spec => []OneRunPerArming
<1>1. RowInv => OneRunPerArming
  BY DEF RowInv
<1>. QED BY <1>1, Invariance, PTL

\* A recurring schedule runs at most once per interval since its countdown
\* began, under the same proviso.
THEOREM RecurringPaced == Spec => []Cadence
<1>1. RowInv => Cadence
  BY DEF RowInv
<1>. QED BY <1>1, Invariance, PTL

\* After a missed run it is not due again at the time of the run that makes up
\* for it, however many intervals have gone by (schedule.rs 106-109).
THEOREM MissedRunsFireOnce == Spec => []CatchesUp
<1>1. RowInv => CatchesUp
  BY DEF RowInv
<1>. QED BY <1>1, Invariance, PTL

-----------------------------------------------------------------------------
\* The queue.  Between the look and the send only a rolled-back row can add
\* a waiting copy.
SendInv == tick = "send" => pending[firing.body] <= returned[firing.body]

PileInv == NoPileUp /\ SendInv

LEMMA NextPile == ASSUME TypeOK, PileInv, [Next]_vars PROVE PileInv'
<1>. USE DEF PileInv
<1>0. /\ tick \in {"look", "send"} => firing.body \in Bodies
      /\ pending \in [Bodies -> Nat] /\ running \in [Bodies -> Nat]
      /\ returned \in [Bodies -> Nat]
  BY DEF TypeOK, Listed
<1>1. CASE Look
  BY <1>0, <1>1 DEF Look, Continue, NoPileUp, SendInv, queueVars
<1>2. CASE Send
  <2>1. tick' \in {"idle", "mark"} /\ returned' = returned
    BY <1>2 DEF Send, Continue
  <2>2. NoPileUp'
    BY <1>0, <1>2, <2>1 DEF Send, NoPileUp, SendInv
  <2>. QED BY <2>1, <2>2 DEF SendInv
<1>3. ASSUME NEW b \in Bodies, QueueMoves(b) PROVE PileInv'
  <2>1. tick' = tick /\ firing' = firing
    BY <1>3 DEF QueueMoves, tickVars
  <2>2. \A c \in Bodies : \/ pending'[c] = pending[c] /\ returned'[c] = returned[c]
                          \/ pending'[c] = pending[c] - 1 /\ returned'[c] = returned[c]
                          \/ pending'[c] = pending[c] + 1 /\ returned'[c] = returned[c] + 1
    BY <1>0, <1>3 DEF QueueMoves
  <2>. QED BY <1>0, <2>1, <2>2 DEF NoPileUp, SendInv
<1>4. CASE Crash
  <2>1. /\ tick' = "idle"
        /\ \A c \in Bodies : /\ pending'[c] = pending[c] + running[c]
                            /\ returned'[c] = returned[c] + running[c]
    BY <1>4 DEF Crash
  <2>. QED BY <1>0, <2>1 DEF NoPileUp, SendInv
<1>5. CASE \/ \E d \in due : Mark(d) \/ MarkFails(d)
           \/ Wake \/ SendFails \/ SendGone \/ Pause
  <2>1. pending' = pending /\ returned' = returned /\ tick' # "send"
    BY <1>5 DEF Mark, MarkFails, Wake, SendFails, SendGone, Pause, Continue, queueVars
  <2>. QED BY <2>1 DEF NoPileUp, SendInv
<1>6. CASE \/ \E j \in Jobs : Delete(j) \/ \E c \in Creations : Create(j, c)
           \/ \E e \in Editors : PatchWrite(e) \/ \E j \in Jobs, w \in Patches : PatchRead(e, j, w)
           \/ Clock \/ ChatFlips \/ UNCHANGED vars
  <2>1. pending' = pending /\ returned' = returned /\ tick' = tick /\ firing' = firing
    BY <1>6 DEF Delete, Create, PatchWrite, PatchRead, Clock, ChatFlips, vars, queueVars, tickVars
  <2>. QED BY <2>1 DEF NoPileUp, SendInv
<1>. QED BY <1>1, <1>2, <1>3, <1>4, <1>5, <1>6 DEF Next, Ticker

\* Copies of a text pile up only as the queue rolls rows back.
THEOREM NoPileUpEver == Spec => []NoPileUp
<1>1. Init => PileInv
  BY DEF Init, PileInv, NoPileUp, SendInv
<1>2. TypeOK /\ PileInv /\ [Next]_vars => PileInv'
  BY NextPile
<1>3. PileInv => NoPileUp
  BY DEF PileInv
<1>. QED BY <1>1, <1>2, <1>3, Invariance, PTL DEF Spec
=============================================================================
