------------------------ MODULE ChatDispatch_proofs ------------------------
(***************************************************************************)
(* What ChatDispatch guarantees for every set of messages, every number of *)
(* handlers and tasks, every mix of requests and faults and every bound.   *)
(*                                                                         *)
(* Invariants, each on top of the ones before it: the types; the sections  *)
(* around the mutex and the owners of the turn (Control); the queue rows   *)
(* and who has popped them (RowInv); the messages the back end has         *)
(* answered for (Ledger); the rows that keep a holder and the flag that    *)
(* keeps an owner; how often a message becomes a prompt (CopyInv), and in  *)
(* which order (PosInv, FreshInv, TurnOrder).  Each is shown step by step, *)
(* one step per action of the specification.  Where the code itself gives  *)
(* a guarantee up, the theorem names the events that must not occur        *)
(* (RowsRolledBack, FlagKept, Orderly).                                    *)
(***************************************************************************)
EXTENDS ChatDispatch, SequenceTheorems, FiniteSetTheorems, TLAPS

\* The awaits at which a slot has a message in hand.
CurPCs == {"sendBusy", "sendIdle", "park", "commit", "commitIngest",
           "legacyIngest", "runPick", "runAdd", "runIngest", "popped", "add",
           "ingest", "done"}

CurInv  == \A p \in Procs : pc[p] \in CurPCs => cur[p] \in Msgs
ProcInv == ProcTypes /\ CurInv

\* Who stands inside a section holds the mutex, and a section that found the
\* chat idle still finds it idle.
LockInv   == \A p \in Procs : pc[p] \in LockPCs <=> lock = p
DecideInv == \A p \in Procs : pc[p] \in DecidePCs => ~flag
Control   == LockInv /\ DecideInv /\ OneTurnAtATime

\* A popped row is running; a message still being sent has no row.
HeldRunning ==
  \A p \in Procs, m \in Msgs : Holds(p, m) => item[m] = "running"
SendInv ==
  \A p \in Procs : pc[p] \in {"sendBusy", "sendIdle", "park"} =>
                      item[cur[p]] = "none" /\ reply[cur[p]] # "unsent"
UnsentInv == \A m \in Msgs : reply[m] = "unsent" => item[m] = "none"
RowInv    == HeldRunning /\ NoDoublePop /\ SendInv /\ UnsentInv

\* A message whose prompt a slot has inserted is in the timeline, and so is
\* every message answered with 200 that has left the queue.
Delivered   == {prompts[i].msg : i \in DOMAIN prompts}
InsertedPCs == {"commitIngest", "legacyIngest", "runIngest", "ingest", "done"}
InsertedInv ==
  \A p \in Procs : pc[p] \in InsertedPCs => cur[p] \in Delivered
AcceptedInv ==
  \A m \in Msgs : reply[m] = "ok" => item[m] # "none" \/ m \in Delivered
Ledger == InsertedInv /\ AcceptedInv

\* The types those proofs need, without the sequences.
RowTypes ==
  /\ pc \in [Procs -> PCs]
  /\ cur \in [Procs -> Msgs \cup {None}]
  /\ item \in [Msgs -> {"none", "pending", "running"}]
  /\ reply \in [Msgs -> {"unsent", "open", "ok", "failed", "cancelled"}]
  /\ direct \subseteq Procs
  /\ None \notin Msgs

-----------------------------------------------------------------------------
(* Types: what each way of moving a slot or changing a table preserves.    *)

LEMMA PCsEnum ==
  PCs = {"idle", "turn", "stream", "flush", "reset", "drain", "pop", "popped",
         "add", "ingest", "done", "clear", "clearMode", "sendIdle", "park",
         "parkMode", "runPop", "runPick", "runAdd", "runIngest", "retryGo",
         "kickMode", "kickPend", "commit", "commitIngest", "sendBusy",
         "legacyIngest", "kick", "stopTail", "stopWrite", "stopForce"}
BY DEF PCs, TaskPCs, LockPCs, DecidePCs, CommitPCs, StopPCs

LEMMA GoType ==
  ASSUME ProcInv, NEW p \in Procs, NEW l \in PCs,
         l \in CurPCs => cur[p] \in Msgs, Go(p, l)
  PROVE  ProcInv'
BY DEF ProcInv, ProcTypes, CurInv, Go

LEMMA GoWithType ==
  ASSUME ProcInv, NEW p \in Procs, NEW l \in PCs, NEW m \in Msgs,
         GoWith(p, l, m)
  PROVE  ProcInv'
BY DEF ProcInv, ProcTypes, CurInv, GoWith

LEMMA LoopType ==
  ASSUME ProcInv, NEW p \in Procs, NEW l \in PCs \ CurPCs, Loop(p, l)
  PROVE  ProcInv'
BY DEF ProcInv, ProcTypes, CurInv, Loop

LEMMA SpawnType ==
  ASSUME ProcInv, NEW p \in Procs, NEW l \in PCs,
         l \in CurPCs => cur[p] \in Msgs, SpawnTurn(p, l)
  PROVE  ProcInv'
BY DEF ProcInv, ProcTypes, CurInv, SpawnTurn

LEMMA InsertType ==
  ASSUME StoreTypes, ProcInv, NEW p \in Procs, NEW l \in PCs, NEW m \in Msgs,
         l \in CurPCs => cur[p] \in Msgs, InsertPrompt(p, m, l)
  PROVE  prompts' \in Seq(Prompt) /\ ProcInv'
<1>1. prompts' \in Seq(Prompt)
  BY DEF StoreTypes, InsertPrompt, Prompt
<1>2. Len(prompts) + 1 \in Nat
  BY DEF StoreTypes
<1>3. QED
  BY <1>1, <1>2 DEF ProcInv, ProcTypes, CurInv, InsertPrompt

LEMMA IngestType ==
  ASSUME StoreTypes, NEW p, IngestPrompt(p)
  PROVE  prompts' \in Seq(Prompt)
<1>1. prompts \in [1 .. Len(prompts) -> Prompt] /\ Len(prompts) \in Nat
  BY DEF StoreTypes
<1>2. prompts' \in [1 .. Len(prompts) -> Prompt]
  BY <1>1 DEF IngestPrompt, Prompt
<1>3. QED
  BY <1>1, <1>2, IsASeq

LEMMA EventsType ==
  ASSUME StoreTypes, NEW i, NEW e \in {"none", "full", "error"},
         prompts' = [prompts EXCEPT ![i].events = e]
  PROVE  prompts' \in Seq(Prompt)
<1>1. prompts \in [1 .. Len(prompts) -> Prompt] /\ Len(prompts) \in Nat
  BY DEF StoreTypes
<1>2. prompts' \in [1 .. Len(prompts) -> Prompt]
  BY <1>1 DEF Prompt
<1>3. QED
  BY <1>1, <1>2, IsASeq

LEMMA CachedType ==
  ASSUME StoreTypes, NEW c \in BOOLEAN,
         prompts' = [i \in DOMAIN prompts |-> [prompts[i] EXCEPT !.cached = c]]
  PROVE  prompts' \in Seq(Prompt)
<1>1. prompts \in [1 .. Len(prompts) -> Prompt] /\ Len(prompts) \in Nat
  BY DEF StoreTypes
<1>2. prompts' \in [1 .. Len(prompts) -> Prompt]
  BY <1>1 DEF Prompt
<1>3. QED
  BY <1>1, <1>2, IsASeq

LEMMA ResetType ==
  ASSUME StoreTypes, ProcInv, NEW p \in Procs, NEW i \in DOMAIN prompts,
         NEW l \in PCs, ResetPrompt(p, i, l), direct' \subseteq Procs
  PROVE  prompts' \in Seq(Prompt) /\ ProcInv'
<1>1. prompts \in [1 .. Len(prompts) -> Prompt] /\ Len(prompts) \in Nat
  BY DEF StoreTypes
<1>2. prompts' = [prompts EXCEPT ![i].events = "none"]
  BY DEF ResetPrompt
<1>3. prompts' \in [1 .. Len(prompts) -> Prompt]
  BY <1>1, <1>2 DEF Prompt
<1>4. prompts' \in Seq(Prompt)
  BY <1>1, <1>3, IsASeq
<1>5. prompts[i].msg \in Msgs /\ i \in Nat
  BY <1>1 DEF Prompt
<1>6. ProcInv'
  BY <1>5 DEF ProcInv, ProcTypes, CurInv, ResetPrompt
<1>7. QED
  BY <1>4, <1>6

LEMMA FlushType ==
  ASSUME StoreTypes, NEW p, Flushed(p)
  PROVE  prompts' \in Seq(Prompt)
BY EventsType DEF Flushed, StoreTypes

LEMMA SetItemType ==
  ASSUME StoreTypes, NEW m, NEW s \in {"none", "pending", "running"},
         SetItem(m, s)
  PROVE  /\ item' \in [Msgs -> {"none", "pending", "running"}]
         /\ pos' \in [Msgs -> Positions]
BY DEF StoreTypes, SetItem

LEMMA EnqueueType ==
  ASSUME StoreTypes, NEW m, EnqueueRow(m)
  PROVE  /\ item' \in [Msgs -> {"none", "pending", "running"}]
         /\ pos' \in [Msgs -> Positions]
BY DEF StoreTypes, EnqueueRow

LEMMA ReplyType ==
  ASSUME HistoryTypes, NEW m,
         NEW r \in {"unsent", "open", "ok", "failed", "cancelled"},
         Reply(m, r)
  PROVE  reply' \in [Msgs -> {"unsent", "open", "ok", "failed", "cancelled"}]
BY DEF HistoryTypes, Reply

LEMMA SpendType ==
  ASSUME HistoryTypes, NEW k, Spend(k)
  PROVE  disruptions' \in Nat
BY DEF HistoryTypes, Spend

\* Every step of a handler keeps the types.
LEMMA HandlerTypes ==
  ASSUME TypeOK, CurInv, NEW p \in Procs,
         HandlerStep(p)
  PROVE  TypeOK' /\ CurInv'
<1>1. CASE SendBusy(p)
  <2>1. cur[p] \in Msgs
    BY <1>1 DEF CurInv, SendBusy, CurPCs
  <2>2. ProcInv'
    BY <1>1, LoopType, PCsEnum DEF SendBusy, Finish, TypeOK, ProcInv, CurPCs
  <2>3. StoreTypes'
    BY <1>1, EnqueueType DEF SendBusy, TypeOK, StoreTypes
  <2>4. HistoryTypes'
    BY <1>1, <2>1, ReplyType DEF SendBusy, TypeOK, HistoryTypes
  <2>5. QED
    BY <1>1, <2>2, <2>3, <2>4 DEF SendBusy, Release, TypeOK, BusyTypes, ProcInv
<1>2. CASE SendDecide(p)
  BY <1>2, GoType, PCsEnum DEF SendDecide, Claim, chatVars, TypeOK, StoreTypes,
     BusyTypes, HistoryTypes, CurInv, CurPCs, ProcInv
<1>3. CASE SendPark(p)
  BY <1>3, GoType, EnqueueType, ReplyType, PCsEnum DEF SendPark, TypeOK,
     StoreTypes, BusyTypes, HistoryTypes, CurInv, CurPCs, ProcInv
<1>4. CASE SendParkMode(p)
  BY <1>4, LoopType, PCsEnum DEF SendParkMode, Finish, Claim, Release,
     chatVars, TypeOK, StoreTypes, BusyTypes, HistoryTypes, CurInv, CurPCs,
     ProcInv, ProcTypes
<1>5. CASE SendCommit(p)
  <2>1. cur[p] \in Msgs
    BY <1>5 DEF CurInv, SendCommit, CurPCs
  <2>2. prompts' \in Seq(Prompt) /\ ProcInv'
    BY <1>5, <2>1, InsertType, LoopType, PCsEnum DEF SendCommit, Finish,
       TypeOK, StoreTypes, ProcInv, CurPCs
  <2>3. HistoryTypes'
    BY <1>5, <2>1, ReplyType, SpendType DEF SendCommit, TypeOK, HistoryTypes
  <2>4. QED
    BY <1>5, <2>2, <2>3 DEF SendCommit, Release, TypeOK, BusyTypes, StoreTypes,
       ProcInv
<1>6. CASE SendIngest(p)
  BY <1>6, LoopType, SpawnType, IngestType, ReplyType, PCsEnum DEF SendIngest,
     Finish, Release, TypeOK, StoreTypes, BusyTypes, HistoryTypes, CurInv,
     CurPCs, ProcInv, ProcTypes
<1>7. CASE LegacyIngest(p)
  <2>1. cur[p] \in Msgs
    BY <1>7 DEF CurInv, LegacyIngest, CurPCs
  <2>2. prompts' \in Seq(Prompt)
    BY <1>7, IngestType DEF LegacyIngest, TypeOK, StoreTypes
  <2>3. ProcInv'
    BY <1>7, <2>1, SpawnType, LoopType, PCsEnum DEF LegacyIngest, Finish,
       TypeOK, ProcInv, CurPCs
  <2>4. HistoryTypes'
    BY <1>7, ReplyType DEF LegacyIngest, Owners, TypeOK, HistoryTypes
  <2>5. QED
    BY <1>7, <2>2, <2>3, <2>4 DEF LegacyIngest, Release, TypeOK, BusyTypes,
       StoreTypes, ProcInv
<1>8. CASE Kick(p)
  BY <1>8, GoType, LoopType, PCsEnum DEF Kick, Finish, Acquire, chatVars,
     ghostVars, TypeOK, StoreTypes, BusyTypes, HistoryTypes, CurInv, CurPCs,
     ProcInv, ProcTypes
<1>9. CASE KickMode(p)
  BY <1>9, GoType, LoopType, PCsEnum DEF KickMode, Finish, Release, chatVars,
     ghostVars, TypeOK, StoreTypes, BusyTypes, HistoryTypes, CurInv, CurPCs,
     ProcInv, ProcTypes
<1>10. CASE KickPend(p)
  BY <1>10, LoopType, PCsEnum DEF KickPend, Finish, Claim, Release, chatVars,
     TypeOK, StoreTypes, BusyTypes, HistoryTypes, CurInv, CurPCs, ProcInv,
     ProcTypes
<1>11. CASE RunPop(p)
  BY <1>11, GoWithType, LoopType, SetItemType, PCsEnum DEF RunPop, Finish,
     Release, Heads, ghostVars, Pending, TypeOK, StoreTypes, BusyTypes,
     HistoryTypes, CurInv, CurPCs, ProcInv, ProcTypes
<1>12. CASE RunPick(p)
  BY <1>12, GoType, LoopType, SetItemType, PCsEnum DEF RunPick, Finish,
     Release, ghostVars, TypeOK, StoreTypes, BusyTypes, HistoryTypes, CurInv,
     CurPCs, ProcInv, ProcTypes
<1>13. CASE RunAdd(p)
  BY <1>13, LoopType, InsertType, SpendType, PCsEnum DEF RunAdd, Finish,
     Release, TypeOK, StoreTypes, BusyTypes, HistoryTypes, CurInv, CurPCs,
     ProcInv, ProcTypes
<1>14. CASE RunIngest(p)
  BY <1>14, LoopType, SpawnType, IngestType, PCsEnum DEF RunIngest, Finish,
     Claim, Release, TypeOK, StoreTypes, BusyTypes, HistoryTypes, CurInv,
     CurPCs, ProcInv, ProcTypes
<1>15. CASE RetryGo(p)
  BY <1>15, LoopType, SpawnType, PCsEnum DEF RetryGo, Finish, Claim, Release,
     chatVars, TypeOK, StoreTypes, BusyTypes, HistoryTypes, CurInv, CurPCs,
     ProcInv, ProcTypes
<1>16. CASE StopTail(p)
  <2>1. Len(prompts) \in Nat
    BY DEF TypeOK, StoreTypes
  <2>2. ProcInv'
    BY <1>16, <2>1, GoType, PCsEnum DEF StopTail, TypeOK, ProcTypes, CurInv,
       CurPCs, ProcInv
  <2>3. QED
    BY <1>16, <2>2 DEF StopTail, chatVars, ghostVars, TypeOK, StoreTypes,
       BusyTypes, HistoryTypes, ProcInv
<1>17. CASE StopWrite(p)
  BY <1>17, LoopType, EventsType, PCsEnum DEF StopWrite, Finish, ghostVars,
     TypeOK, StoreTypes, BusyTypes, HistoryTypes, CurInv, CurPCs, ProcInv,
     ProcTypes
<1>18. CASE StopForce(p)
  BY <1>18, GoType, PCsEnum DEF StopForce, Unclaim, chatVars, Owners, TypeOK,
     StoreTypes, BusyTypes, HistoryTypes, CurInv, CurPCs, ProcInv
<1>19. QED
  BY <1>1, <1>2, <1>3, <1>4, <1>5, <1>6, <1>7, <1>8, <1>9, <1>10, <1>11, <1>12,
     <1>13, <1>14, <1>15, <1>16, <1>17, <1>18 DEF HandlerStep

\* Every step of a task keeps the types.
LEMMA TaskTypes ==
  ASSUME TypeOK, CurInv, NEW p \in Procs,
         TaskStep(p)
  PROVE  TypeOK' /\ CurInv'
<1>1. CASE TurnStart(p)
  BY <1>1, GoType, PCsEnum DEF TurnStart, chatVars, ghostVars, TypeOK,
     StoreTypes, BusyTypes, HistoryTypes, CurInv, CurPCs, ProcInv
<1>2. CASE TurnEcho(p)
  BY <1>2, GoType, PCsEnum DEF TurnEcho, chatVars, ghostVars, TypeOK,
     StoreTypes, BusyTypes, HistoryTypes, CurInv, CurPCs, ProcInv
<1>3. CASE TurnEnd(p)
  BY <1>3, GoType, PCsEnum DEF TurnEnd, chatVars, ghostVars, TypeOK,
     StoreTypes, BusyTypes, HistoryTypes, CurInv, CurPCs, ProcInv
<1>4. CASE TurnFlush(p)
  BY <1>4, LoopType, FlushType, PCsEnum DEF TurnFlush, ghostVars, TypeOK,
     StoreTypes, BusyTypes, HistoryTypes, CurInv, CurPCs, ProcInv, ProcTypes
<1>5. CASE TurnStale(p)
  BY <1>5, GoType, SpendType, FlushType, PCsEnum DEF TurnStale, TypeOK,
     StoreTypes, BusyTypes, HistoryTypes, CurInv, CurPCs, ProcInv
<1>6. CASE TurnReset(p)
  BY <1>6, LoopType, ResetType, PCsEnum DEF TurnReset, ghostVars, TypeOK,
     StoreTypes, BusyTypes, HistoryTypes, CurInv, CurPCs, ProcInv, ProcTypes
<1>7. CASE DrainCheck(p)
  BY <1>7, GoType, PCsEnum DEF DrainCheck, chatVars, ghostVars, TypeOK,
     StoreTypes, BusyTypes, HistoryTypes, CurInv, CurPCs, ProcInv
<1>8. CASE DrainPop(p)
  BY <1>8, GoType, GoWithType, SetItemType, PCsEnum DEF DrainPop, Heads,
     ghostVars, Pending, TypeOK, StoreTypes, BusyTypes, HistoryTypes, CurInv,
     CurPCs, ProcInv
<1>9. CASE DrainRecheck(p)
  BY <1>9, GoType, LoopType, SetItemType, PCsEnum DEF DrainRecheck, ghostVars,
     TypeOK, StoreTypes, BusyTypes, HistoryTypes, CurInv, CurPCs, ProcInv,
     ProcTypes
<1>10. CASE DrainAdd(p)
  BY <1>10, LoopType, InsertType, SpendType, SetItemType, PCsEnum DEF DrainAdd,
     TypeOK, StoreTypes, BusyTypes, HistoryTypes, CurInv, CurPCs, ProcInv,
     ProcTypes
<1>11. CASE DrainIngest(p)
  BY <1>11, GoType, LoopType, IngestType, SetItemType, PCsEnum DEF DrainIngest,
     ghostVars, TypeOK, StoreTypes, BusyTypes, HistoryTypes, CurInv, CurPCs,
     ProcInv, ProcTypes
<1>12. CASE MarkDone(p)
  BY <1>12, GoType, SpendType, SetItemType, PCsEnum DEF MarkDone, TypeOK,
     StoreTypes, BusyTypes, HistoryTypes, CurInv, CurPCs, ProcInv
<1>13. CASE ClearDispatching(p)
  <2>1. Go(p, "clearMode") \/ Loop(p, "idle")
    BY <1>13 DEF ClearDispatching, ReleaseTurn, Finish
  <2>2. ProcInv'
    BY <2>1, GoType, LoopType, PCsEnum DEF TypeOK, ProcInv, CurPCs
  <2>3. HistoryTypes'
    BY <1>13 DEF ClearDispatching, ReleaseTurn, Unclaim, Owners, TypeOK,
       HistoryTypes
  <2>4. flag' \in BOOLEAN /\ lock' \in Procs \cup {None}
    BY <1>13 DEF ClearDispatching, Acquire, ReleaseTurn, Unclaim, TypeOK,
       BusyTypes
  <2>5. guards' \in Nat
    BY <1>13 DEF ClearDispatching, ReleaseTurn, TypeOK, BusyTypes
  <2>6. QED
    BY <1>13, <2>2, <2>3, <2>4, <2>5 DEF ClearDispatching, chatVars, TypeOK,
       BusyTypes, StoreTypes, ProcInv
<1>14. CASE ClearMode(p)
  <2>1. Go(p, "drain") \/ Loop(p, "idle")
    BY <1>14 DEF ClearMode, ReleaseTurn, Finish
  <2>2. ProcInv'
    BY <2>1, GoType, LoopType, PCsEnum DEF TypeOK, ProcInv, CurPCs
  <2>3. HistoryTypes'
    BY <1>14 DEF ClearMode, ReleaseTurn, Unclaim, Owners, TypeOK, HistoryTypes
  <2>4. flag' \in BOOLEAN /\ lock' \in Procs \cup {None}
    BY <1>14 DEF ClearMode, Release, ReleaseTurn, Unclaim, TypeOK, BusyTypes
  <2>5. guards' \in Nat
    BY <1>14 DEF ClearMode, ReleaseTurn, TypeOK, BusyTypes
  <2>6. QED
    BY <1>14, <2>2, <2>3, <2>4, <2>5 DEF ClearMode, chatVars, TypeOK,
       BusyTypes, StoreTypes, ProcInv
<1>15. QED
  BY <1>1, <1>2, <1>3, <1>4, <1>5, <1>6, <1>7, <1>8, <1>9, <1>10, <1>11, <1>12,
     <1>13, <1>14 DEF TaskStep

\* So does every request that arrives, every guard and every fault.
LEMMA EnvTypes ==
  ASSUME TypeOK, CurInv, GuardClear \/ ClientStep \/ FaultStep
  PROVE  TypeOK' /\ CurInv'
<1>1. CASE GuardClear
  <2>1. HistoryTypes'
    BY <1>1 DEF GuardClear, Unclaim, Owners, TypeOK, HistoryTypes
  <2>2. guards' \in Nat
    BY <1>1 DEF GuardClear, TypeOK, BusyTypes
  <2>3. QED
    BY <1>1, <2>1, <2>2 DEF GuardClear, Unclaim, chatVars, procVars, TypeOK,
       StoreTypes, BusyTypes, ProcTypes, CurInv
<1>2. ASSUME NEW p \in Procs, NEW m \in Msgs, SendMessage(p, m)
      PROVE  TypeOK' /\ CurInv'
  <2>1. ProcInv'
    BY <1>2, GoWithType, PCsEnum DEF SendMessage, procVars, TypeOK, ProcTypes,
       CurInv, ProcInv
  <2>2. HistoryTypes'
    BY <1>2, ReplyType DEF SendMessage, TypeOK, HistoryTypes
  <2>3. QED
    BY <1>2, <2>1, <2>2 DEF SendMessage, Acquire, chatVars, TypeOK, StoreTypes,
       BusyTypes, ProcInv
<1>3. ASSUME NEW p \in Procs, NEW m \in Msgs, AddPrompt(p, m)
      PROVE  TypeOK' /\ CurInv'
  <2>1. prompts' \in Seq(Prompt) /\ Len(prompts) + 1 \in Nat
    BY <1>3 DEF AddPrompt, TypeOK, StoreTypes, Prompt
  <2>2. ProcInv'
    BY <1>3, <2>1, PCsEnum DEF AddPrompt, TypeOK, ProcTypes, CurInv, ProcInv
  <2>3. HistoryTypes'
    BY <1>3, ReplyType DEF AddPrompt, TypeOK, HistoryTypes
  <2>4. QED
    BY <1>3, <2>1, <2>2, <2>3 DEF AddPrompt, Acquire, TypeOK, BusyTypes,
       StoreTypes, ProcInv
<1>4. ASSUME NEW p \in Procs, NEW m \in Msgs, DispatchItem(p, m)
      PROVE  TypeOK' /\ CurInv'
    BY <1>4, GoWithType, PCsEnum DEF DispatchItem, Acquire, chatVars,
       ghostVars, TypeOK, StoreTypes, BusyTypes, HistoryTypes, CurInv, CurPCs,
       ProcInv
<1>5. ASSUME NEW m \in Msgs, Enqueue(m)
      PROVE  TypeOK' /\ CurInv'
    BY <1>5, EnqueueType, ReplyType DEF Enqueue, procVars, TypeOK, StoreTypes,
       BusyTypes, HistoryTypes, ProcTypes, CurInv
<1>6. ASSUME NEW m \in Msgs, Cancel(m)
      PROVE  TypeOK' /\ CurInv'
    BY <1>6, SetItemType, ReplyType DEF Cancel, procVars, TypeOK, StoreTypes,
       BusyTypes, HistoryTypes, ProcTypes, CurInv
<1>7. ASSUME NEW p \in Procs,
                   NEW md \in {"auto", "manual"}, SetMode(p, md)
      PROVE  TypeOK' /\ CurInv'
    BY <1>7, GoType, PCsEnum DEF SetMode, ghostVars, TypeOK, StoreTypes,
       BusyTypes, HistoryTypes, CurInv, CurPCs, ProcInv
<1>8. ASSUME NEW p \in Procs, RunNext(p)
      PROVE  TypeOK' /\ CurInv'
    BY <1>8, GoType, PCsEnum DEF RunNext, Acquire, chatVars, ghostVars, TypeOK,
       StoreTypes, BusyTypes, HistoryTypes, CurInv, CurPCs, ProcInv
<1>9. ASSUME NEW p \in Procs, RetryChat(p)
      PROVE  TypeOK' /\ CurInv'
    BY <1>9, ResetType, PCsEnum DEF RetryChat, Acquire, ghostVars, TypeOK,
       StoreTypes, BusyTypes, HistoryTypes, CurInv, CurPCs, ProcInv, ProcTypes
<1>10. ASSUME NEW p \in Procs, StopTurn(p)
       PROVE  TypeOK' /\ CurInv'
    BY <1>10, GoType, PCsEnum DEF StopTurn, chatVars, ghostVars, TypeOK,
       StoreTypes, BusyTypes, HistoryTypes, CurInv, CurPCs, ProcInv
<1>11. CASE DeleteChat
  <2>1. prompts' \in Seq(Prompt)
    BY <1>11, CachedType DEF DeleteChat, TypeOK
  <2>2. StoreTypes'
    BY <1>11, <2>1 DEF DeleteChat, TypeOK, StoreTypes
  <2>3. HistoryTypes'
    BY <1>11 DEF DeleteChat, TypeOK, HistoryTypes
  <2>4. QED
    BY <1>11, <2>2, <2>3 DEF DeleteChat, procVars, TypeOK, BusyTypes,
       ProcTypes, CurInv
<1>12. CASE RestoreChat
    BY <1>12 DEF RestoreChat, procVars, ghostVars, TypeOK, StoreTypes,
       BusyTypes, HistoryTypes, ProcTypes, CurInv
<1>13. CASE Crash
  <2>1. prompts' \in Seq(Prompt)
    BY <1>13, CachedType DEF Crash, TypeOK, StoreTypes
  <2>2. StoreTypes'
    BY <1>13, <2>1 DEF Crash, TypeOK, StoreTypes
  <2>3. ProcInv'
    BY <1>13, PCsEnum DEF Crash, TypeOK, ProcTypes, CurInv, CurPCs, ProcInv
  <2>4. HistoryTypes'
    BY <1>13, SpendType DEF Crash, TypeOK, HistoryTypes
  <2>5. QED
    BY <1>13, <2>2, <2>3, <2>4 DEF Crash, TypeOK, BusyTypes, ProcInv
<1>14. ASSUME NEW p \in Procs, Panic(p)
       PROVE  TypeOK' /\ CurInv'
  <2>1. ProcInv'
    BY <1>14, LoopType, PCsEnum DEF Panic, Finish, TypeOK, CurPCs, ProcInv
  <2>2. HistoryTypes'
    BY <1>14, SpendType DEF Panic, TypeOK, HistoryTypes
  <2>3. guards' \in Nat /\ lock' \in Procs \cup {None}
    BY <1>14 DEF Panic, TypeOK, BusyTypes
  <2>4. QED
    BY <1>14, <2>1, <2>2, <2>3 DEF Panic, chatVars, TypeOK, StoreTypes,
       BusyTypes, ProcInv
<1>15. ASSUME NEW p \in Procs, Disconnect(p)
       PROVE  TypeOK' /\ CurInv'
  <2>1. ProcInv'
    BY <1>15, LoopType, PCsEnum DEF Disconnect, Finish, TypeOK, CurPCs, ProcInv
  <2>2. HistoryTypes'
    BY <1>15, SpendType DEF Disconnect, TypeOK, HistoryTypes
  <2>3. lock' \in Procs \cup {None}
    BY <1>15 DEF Disconnect, TypeOK, BusyTypes
  <2>4. QED
    BY <1>15, <2>1, <2>2, <2>3 DEF Disconnect, chatVars, TypeOK, StoreTypes,
       BusyTypes, ProcInv
<1>16. QED
  BY <1>1, <1>2, <1>3, <1>4, <1>5, <1>6, <1>7, <1>8, <1>9, <1>10, <1>11, <1>12,
     <1>13, <1>14, <1>15 DEF ClientStep, FaultStep

\* The type of every variable, and of the message a slot has in hand.
THEOREM TypeCorrect == Spec => [](TypeOK /\ CurInv)
<1>1. Init => TypeOK /\ CurInv
  <2>1. SUFFICES ASSUME Init PROVE TypeOK /\ CurInv
    OBVIOUS
  <2>2. 0 \in Positions
    BY FS_CardinalityType, ConstantsOK DEF Positions
  <2>3. ProcInv
    BY <2>1, PCsEnum DEF Init, ProcTypes, CurInv, CurPCs, ProcInv
  <2>4. StoreTypes
    BY <2>1, <2>2 DEF Init, StoreTypes
  <2>5. HistoryTypes
    BY <2>1 DEF Init, HistoryTypes
  <2>6. QED
    BY <2>1, <2>3, <2>4, <2>5 DEF Init, TypeOK, BusyTypes, ProcInv
<1>2. TypeOK /\ CurInv /\ [Next]_vars => TypeOK' /\ CurInv'
  <2>1. SUFFICES ASSUME TypeOK, CurInv, [Next]_vars
                 PROVE  TypeOK' /\ CurInv'
    OBVIOUS
  <2>2. CASE Next
    BY <2>1, <2>2, HandlerTypes, TaskTypes, EnvTypes DEF Next
  <2>3. CASE UNCHANGED vars
    BY <2>1, <2>3 DEF vars, chatVars, procVars, ghostVars, TypeOK, StoreTypes,
       BusyTypes, ProcTypes, HistoryTypes, CurInv
  <2>4. QED
    BY <2>1, <2>2, <2>3
<1>3. QED
  BY <1>1, <1>2, PTL DEF Spec

-----------------------------------------------------------------------------
(* The mutex sections and the owners of the turn.                          *)

\* Every step of a handler keeps the sections and the owners apart.
LEMMA HandlerControl ==
  ASSUME ProcTypes, Control, NEW p \in Procs,
         HandlerStep(p)
  PROVE  Control'
<1>1. CASE SendBusy(p)
  BY <1>1, ConstantsOK DEF SendBusy, Finish, Release, Loop, ProcTypes, Control,
     LockInv, DecideInv, OneTurnAtATime, Owners, Owner, OwnerPCs, LockPCs,
     DecidePCs, CommitPCs, TaskPCs
<1>2. CASE SendDecide(p)
  BY <1>2, ConstantsOK DEF SendDecide, Go, Claim, ProcTypes, Control, LockInv,
     DecideInv, OneTurnAtATime, Owners, Owner, OwnerPCs, LockPCs, DecidePCs,
     CommitPCs, TaskPCs
<1>3. CASE SendPark(p)
  BY <1>3, ConstantsOK DEF SendPark, Go, ProcTypes, Control, LockInv,
     DecideInv, OneTurnAtATime, Owners, Owner, OwnerPCs, LockPCs, DecidePCs,
     CommitPCs, TaskPCs
<1>4. CASE SendParkMode(p)
  BY <1>4, ConstantsOK DEF SendParkMode, Loop, Finish, Claim, Release,
     ProcTypes, Control, LockInv, DecideInv, OneTurnAtATime, Owners, Owner,
     OwnerPCs, LockPCs, DecidePCs, CommitPCs, TaskPCs
<1>5. CASE SendCommit(p)
  BY <1>5, ConstantsOK DEF SendCommit, Finish, Release, InsertPrompt, Loop,
     ProcTypes, Control, LockInv, DecideInv, OneTurnAtATime, Owners, Owner,
     OwnerPCs, LockPCs, DecidePCs, CommitPCs, TaskPCs
<1>6. CASE SendIngest(p)
  BY <1>6, ConstantsOK DEF SendIngest, Finish, SpawnTurn, Release, Loop,
     ProcTypes, Control, LockInv, DecideInv, OneTurnAtATime, Owners, Owner,
     OwnerPCs, LockPCs, DecidePCs, CommitPCs, TaskPCs
<1>7. CASE LegacyIngest(p)
  BY <1>7, ConstantsOK DEF LegacyIngest, Finish, SpawnTurn, Release, Loop,
     ProcTypes, Control, LockInv, DecideInv, OneTurnAtATime, Owners, Owner,
     OwnerPCs, LockPCs, DecidePCs, CommitPCs, TaskPCs
<1>8. CASE Kick(p)
  BY <1>8, ConstantsOK DEF Kick, Go, Finish, Acquire, ghostVars, Loop,
     ProcTypes, Control, LockInv, DecideInv, OneTurnAtATime, Owners, Owner,
     OwnerPCs, LockPCs, DecidePCs, CommitPCs, TaskPCs
<1>9. CASE KickMode(p)
  BY <1>9, ConstantsOK DEF KickMode, Go, Finish, Release, ghostVars, Loop,
     ProcTypes, Control, LockInv, DecideInv, OneTurnAtATime, Owners, Owner,
     OwnerPCs, LockPCs, DecidePCs, CommitPCs, TaskPCs
<1>10. CASE KickPend(p)
  BY <1>10, ConstantsOK DEF KickPend, Loop, Finish, Claim, Release, ProcTypes,
     Control, LockInv, DecideInv, OneTurnAtATime, Owners, Owner, OwnerPCs,
     LockPCs, DecidePCs, CommitPCs, TaskPCs
<1>11. CASE RunPop(p)
  BY <1>11, ConstantsOK DEF RunPop, GoWith, Finish, Release, ghostVars, Loop,
     ProcTypes, Control, LockInv, DecideInv, OneTurnAtATime, Owners, Owner,
     OwnerPCs, LockPCs, DecidePCs, CommitPCs, TaskPCs
<1>12. CASE RunPick(p)
  BY <1>12, ConstantsOK DEF RunPick, Go, Finish, Release, ghostVars, Loop,
     ProcTypes, Control, LockInv, DecideInv, OneTurnAtATime, Owners, Owner,
     OwnerPCs, LockPCs, DecidePCs, CommitPCs, TaskPCs
<1>13. CASE RunAdd(p)
  BY <1>13, ConstantsOK DEF RunAdd, Finish, Release, InsertPrompt, Loop,
     ProcTypes, Control, LockInv, DecideInv, OneTurnAtATime, Owners, Owner,
     OwnerPCs, LockPCs, DecidePCs, CommitPCs, TaskPCs
<1>14. CASE RunIngest(p)
  BY <1>14, ConstantsOK DEF RunIngest, Finish, SpawnTurn, Claim, Release, Loop,
     ProcTypes, Control, LockInv, DecideInv, OneTurnAtATime, Owners, Owner,
     OwnerPCs, LockPCs, DecidePCs, CommitPCs, TaskPCs
<1>15. CASE RetryGo(p)
  BY <1>15, ConstantsOK DEF RetryGo, Finish, SpawnTurn, Claim, Release, Loop,
     ProcTypes, Control, LockInv, DecideInv, OneTurnAtATime, Owners, Owner,
     OwnerPCs, LockPCs, DecidePCs, CommitPCs, TaskPCs
<1>16. CASE StopTail(p)
  BY <1>16, ConstantsOK DEF StopTail, Go, ghostVars, ProcTypes, Control,
     LockInv, DecideInv, OneTurnAtATime, Owners, Owner, OwnerPCs, LockPCs,
     DecidePCs, CommitPCs, TaskPCs
<1>17. CASE StopWrite(p)
  BY <1>17, ConstantsOK DEF StopWrite, Finish, ghostVars, Loop, ProcTypes,
     Control, LockInv, DecideInv, OneTurnAtATime, Owners, Owner, OwnerPCs,
     LockPCs, DecidePCs, CommitPCs, TaskPCs
<1>18. CASE StopForce(p)
  BY <1>18, ConstantsOK DEF StopForce, Go, Unclaim, ProcTypes, Control,
     LockInv, DecideInv, OneTurnAtATime, Owners, Owner, OwnerPCs, LockPCs,
     DecidePCs, CommitPCs, TaskPCs
<1>19. QED
  BY <1>1, <1>2, <1>3, <1>4, <1>5, <1>6, <1>7, <1>8, <1>9, <1>10, <1>11, <1>12,
     <1>13, <1>14, <1>15, <1>16, <1>17, <1>18 DEF HandlerStep

\* Every step of a task does.
LEMMA TaskControl ==
  ASSUME ProcTypes, Control, NEW p \in Procs,
         TaskStep(p)
  PROVE  Control'
<1>1. CASE TurnStart(p)
  BY <1>1, ConstantsOK DEF TurnStart, Go, ghostVars, ProcTypes, Control,
     LockInv, DecideInv, OneTurnAtATime, Owners, Owner, OwnerPCs, LockPCs,
     DecidePCs, CommitPCs, TaskPCs
<1>2. CASE TurnEcho(p)
  BY <1>2, ConstantsOK DEF TurnEcho, Go, ghostVars, ProcTypes, Control,
     LockInv, DecideInv, OneTurnAtATime, Owners, Owner, OwnerPCs, LockPCs,
     DecidePCs, CommitPCs, TaskPCs
<1>3. CASE TurnEnd(p)
  BY <1>3, ConstantsOK DEF TurnEnd, Go, ghostVars, ProcTypes, Control, LockInv,
     DecideInv, OneTurnAtATime, Owners, Owner, OwnerPCs, LockPCs, DecidePCs,
     CommitPCs, TaskPCs
<1>4. CASE TurnFlush(p)
  BY <1>4, ConstantsOK DEF TurnFlush, Loop, ghostVars, ProcTypes, Control,
     LockInv, DecideInv, OneTurnAtATime, Owners, Owner, OwnerPCs, LockPCs,
     DecidePCs, CommitPCs, TaskPCs
<1>5. CASE TurnStale(p)
  BY <1>5, ConstantsOK DEF TurnStale, Go, ProcTypes, Control, LockInv,
     DecideInv, OneTurnAtATime, Owners, Owner, OwnerPCs, LockPCs, DecidePCs,
     CommitPCs, TaskPCs
<1>6. CASE TurnReset(p)
  BY <1>6, ConstantsOK DEF TurnReset, Loop, ResetPrompt, ghostVars, ProcTypes,
     Control, LockInv, DecideInv, OneTurnAtATime, Owners, Owner, OwnerPCs,
     LockPCs, DecidePCs, CommitPCs, TaskPCs
<1>7. CASE DrainCheck(p)
  BY <1>7, ConstantsOK DEF DrainCheck, Go, ghostVars, ProcTypes, Control,
     LockInv, DecideInv, OneTurnAtATime, Owners, Owner, OwnerPCs, LockPCs,
     DecidePCs, CommitPCs, TaskPCs
<1>8. CASE DrainPop(p)
  BY <1>8, ConstantsOK DEF DrainPop, Go, GoWith, ghostVars, ProcTypes, Control,
     LockInv, DecideInv, OneTurnAtATime, Owners, Owner, OwnerPCs, LockPCs,
     DecidePCs, CommitPCs, TaskPCs
<1>9. CASE DrainRecheck(p)
  BY <1>9, ConstantsOK DEF DrainRecheck, Go, Loop, ghostVars, ProcTypes,
     Control, LockInv, DecideInv, OneTurnAtATime, Owners, Owner, OwnerPCs,
     LockPCs, DecidePCs, CommitPCs, TaskPCs
<1>10. CASE DrainAdd(p)
  BY <1>10, ConstantsOK DEF DrainAdd, Loop, InsertPrompt, ProcTypes, Control,
     LockInv, DecideInv, OneTurnAtATime, Owners, Owner, OwnerPCs, LockPCs,
     DecidePCs, CommitPCs, TaskPCs
<1>11. CASE DrainIngest(p)
  BY <1>11, ConstantsOK DEF DrainIngest, Go, Loop, ghostVars, ProcTypes,
     Control, LockInv, DecideInv, OneTurnAtATime, Owners, Owner, OwnerPCs,
     LockPCs, DecidePCs, CommitPCs, TaskPCs
<1>12. CASE MarkDone(p)
  BY <1>12, ConstantsOK DEF MarkDone, Go, ProcTypes, Control, LockInv,
     DecideInv, OneTurnAtATime, Owners, Owner, OwnerPCs, LockPCs, DecidePCs,
     CommitPCs, TaskPCs
<1>13. CASE ClearDispatching(p)
  BY <1>13, ConstantsOK DEF ClearDispatching, Go, Acquire, ReleaseTurn,
     Unclaim, Finish, Loop, ProcTypes, Control, LockInv, DecideInv,
     OneTurnAtATime, Owners, Owner, OwnerPCs, LockPCs, DecidePCs, CommitPCs,
     TaskPCs
<1>14. CASE ClearMode(p)
  BY <1>14, ConstantsOK DEF ClearMode, Go, Release, ReleaseTurn, Unclaim,
     Finish, Loop, ProcTypes, Control, LockInv, DecideInv, OneTurnAtATime,
     Owners, Owner, OwnerPCs, LockPCs, DecidePCs, CommitPCs, TaskPCs
<1>15. QED
  BY <1>1, <1>2, <1>3, <1>4, <1>5, <1>6, <1>7, <1>8, <1>9, <1>10, <1>11, <1>12,
     <1>13, <1>14 DEF TaskStep

\* So do requests, guards and faults.
LEMMA EnvControl ==
  ASSUME ProcTypes, Control, GuardClear \/ ClientStep \/ FaultStep
  PROVE  Control'
<1>1. CASE GuardClear
    BY <1>1, ConstantsOK DEF GuardClear, Unclaim, procVars, ProcTypes, Control,
       LockInv, DecideInv, OneTurnAtATime, Owners, Owner, OwnerPCs, LockPCs,
       DecidePCs, CommitPCs, TaskPCs
<1>2. ASSUME NEW p \in Procs, NEW m \in Msgs, SendMessage(p, m)
      PROVE  Control'
    BY <1>2, ConstantsOK DEF SendMessage, GoWith, Acquire, procVars, ProcTypes,
       Control, LockInv, DecideInv, OneTurnAtATime, Owners, Owner, OwnerPCs,
       LockPCs, DecidePCs, CommitPCs, TaskPCs
<1>3. ASSUME NEW p \in Procs, NEW m \in Msgs, AddPrompt(p, m)
      PROVE  Control'
    BY <1>3, ConstantsOK DEF AddPrompt, Acquire, ProcTypes, Control, LockInv,
       DecideInv, OneTurnAtATime, Owners, Owner, OwnerPCs, LockPCs, DecidePCs,
       CommitPCs, TaskPCs
<1>4. ASSUME NEW p \in Procs, NEW m \in Msgs, DispatchItem(p, m)
      PROVE  Control'
    BY <1>4, ConstantsOK DEF DispatchItem, GoWith, Acquire, ghostVars,
       ProcTypes, Control, LockInv, DecideInv, OneTurnAtATime, Owners, Owner,
       OwnerPCs, LockPCs, DecidePCs, CommitPCs, TaskPCs
<1>5. ASSUME NEW m \in Msgs, Enqueue(m)
      PROVE  Control'
    BY <1>5, ConstantsOK DEF Enqueue, procVars, ProcTypes, Control, LockInv,
       DecideInv, OneTurnAtATime, Owners, Owner, OwnerPCs, LockPCs, DecidePCs,
       CommitPCs, TaskPCs
<1>6. ASSUME NEW m \in Msgs, Cancel(m)
      PROVE  Control'
    BY <1>6, ConstantsOK DEF Cancel, procVars, ProcTypes, Control, LockInv,
       DecideInv, OneTurnAtATime, Owners, Owner, OwnerPCs, LockPCs, DecidePCs,
       CommitPCs, TaskPCs
<1>7. ASSUME NEW p \in Procs,
                   NEW md \in {"auto", "manual"}, SetMode(p, md)
      PROVE  Control'
    BY <1>7, ConstantsOK DEF SetMode, Go, ghostVars, ProcTypes, Control,
       LockInv, DecideInv, OneTurnAtATime, Owners, Owner, OwnerPCs, LockPCs,
       DecidePCs, CommitPCs, TaskPCs
<1>8. ASSUME NEW p \in Procs, RunNext(p)
      PROVE  Control'
    BY <1>8, ConstantsOK DEF RunNext, Go, Acquire, ghostVars, ProcTypes,
       Control, LockInv, DecideInv, OneTurnAtATime, Owners, Owner, OwnerPCs,
       LockPCs, DecidePCs, CommitPCs, TaskPCs
<1>9. ASSUME NEW p \in Procs, RetryChat(p)
      PROVE  Control'
    BY <1>9, ConstantsOK DEF RetryChat, Acquire, ResetPrompt, ghostVars,
       ProcTypes, Control, LockInv, DecideInv, OneTurnAtATime, Owners, Owner,
       OwnerPCs, LockPCs, DecidePCs, CommitPCs, TaskPCs
<1>10. ASSUME NEW p \in Procs, StopTurn(p)
       PROVE  Control'
    BY <1>10, ConstantsOK DEF StopTurn, Go, ghostVars, ProcTypes, Control,
       LockInv, DecideInv, OneTurnAtATime, Owners, Owner, OwnerPCs, LockPCs,
       DecidePCs, CommitPCs, TaskPCs
<1>11. CASE DeleteChat
    BY <1>11, ConstantsOK DEF DeleteChat, procVars, ProcTypes, Control,
       LockInv, DecideInv, OneTurnAtATime, Owners, Owner, OwnerPCs, LockPCs,
       DecidePCs, CommitPCs, TaskPCs
<1>12. CASE RestoreChat
    BY <1>12, ConstantsOK DEF RestoreChat, procVars, ghostVars, ProcTypes,
       Control, LockInv, DecideInv, OneTurnAtATime, Owners, Owner, OwnerPCs,
       LockPCs, DecidePCs, CommitPCs, TaskPCs
<1>13. CASE Crash
    BY <1>13, ConstantsOK DEF Crash, ProcTypes, Control, LockInv, DecideInv,
       OneTurnAtATime, Owners, Owner, OwnerPCs, LockPCs, DecidePCs, CommitPCs,
       TaskPCs
<1>14. ASSUME NEW p \in Procs, Panic(p)
       PROVE  Control'
    BY <1>14, ConstantsOK DEF Panic, Finish, Loop, ProcTypes, Control, LockInv,
       DecideInv, OneTurnAtATime, Owners, Owner, OwnerPCs, LockPCs, DecidePCs,
       CommitPCs, TaskPCs
<1>15. ASSUME NEW p \in Procs, Disconnect(p)
       PROVE  Control'
    BY <1>15, ConstantsOK DEF Disconnect, Finish, Loop, ProcTypes, Control,
       LockInv, DecideInv, OneTurnAtATime, Owners, Owner, OwnerPCs, LockPCs,
       DecidePCs, CommitPCs, TaskPCs, Handler, StopPCs
<1>16. QED
  BY <1>1, <1>2, <1>3, <1>4, <1>5, <1>6, <1>7, <1>8, <1>9, <1>10, <1>11, <1>12,
     <1>13, <1>14, <1>15 DEF ClientStep, FaultStep

LEMMA ControlInvariant == Spec => []Control
<1>1. Init => Control
  BY ConstantsOK DEF Init, Control, LockInv, DecideInv, OneTurnAtATime,
     Owners, Owner, OwnerPCs, CommitPCs, TaskPCs, LockPCs, DecidePCs
<1>2. ProcTypes /\ Control /\ [Next]_vars => Control'
  <2>1. SUFFICES ASSUME ProcTypes, Control, [Next]_vars
                 PROVE  Control'
    OBVIOUS
  <2>2. CASE Next
    BY <2>1, <2>2, HandlerControl, TaskControl, EnvControl DEF Next
  <2>3. CASE UNCHANGED vars
    BY <2>1, <2>3 DEF vars, procVars, ghostVars, Control, LockInv, DecideInv,
       OneTurnAtATime, Owners, Owner
  <2>4. QED
    BY <2>1, <2>2, <2>3
<1>3. TypeOK => ProcTypes
  BY DEF TypeOK
<1>4. QED
  BY <1>1, <1>2, <1>3, TypeCorrect, PTL DEF Spec

\* send_message, run_next, dispatch_item, retry_chat and kick_drain_if_idle
\* never start a turn beside another one, except where a late guard clear, a
\* forced stop or the legacy add_prompt has gone around the flag first.
THEOREM TurnExclusion == Spec => []OneTurnAtATime
<1>1. Control => OneTurnAtATime
  BY DEF Control
<1>2. QED
  BY <1>1, ControlInvariant, PTL

-----------------------------------------------------------------------------
(* Queue rows.                                                             *)

\* Every step of a handler keeps each row with at most one holder.
LEMMA HandlerRows ==
  ASSUME RowTypes, CurInv, LockInv, RowInv, NEW p \in Procs,
         HandlerStep(p)
  PROVE  RowInv'
<1>1. CASE SendBusy(p)
  BY <1>1 DEF SendBusy, Finish, Reply, EnqueueRow, Loop, RowTypes, CurInv,
     CurPCs, RowInv, HeldRunning, NoDoublePop, SendInv, UnsentInv, Holds,
     LockInv, LockPCs, DecidePCs, CommitPCs
<1>2. CASE SendDecide(p)
  BY <1>2 DEF SendDecide, Go, chatVars, RowTypes, CurInv, CurPCs, RowInv,
     HeldRunning, NoDoublePop, SendInv, UnsentInv, Holds, LockInv, LockPCs,
     DecidePCs, CommitPCs
<1>3. CASE SendPark(p)
  BY <1>3 DEF SendPark, Go, Reply, EnqueueRow, RowTypes, CurInv, CurPCs,
     RowInv, HeldRunning, NoDoublePop, SendInv, UnsentInv, Holds, LockInv,
     LockPCs, DecidePCs, CommitPCs
<1>4. CASE SendParkMode(p)
  BY <1>4 DEF SendParkMode, Loop, Finish, chatVars, RowTypes, CurInv, CurPCs,
     RowInv, HeldRunning, NoDoublePop, SendInv, UnsentInv, Holds
<1>5. CASE SendCommit(p)
  BY <1>5 DEF SendCommit, Finish, InsertPrompt, Reply, Loop, RowTypes, CurInv,
     CurPCs, RowInv, HeldRunning, NoDoublePop, SendInv, UnsentInv, Holds
<1>6. CASE SendIngest(p)
  BY <1>6 DEF SendIngest, Finish, SpawnTurn, Reply, Loop, RowTypes, CurInv,
     CurPCs, RowInv, HeldRunning, NoDoublePop, SendInv, UnsentInv, Holds
<1>7. CASE LegacyIngest(p)
  BY <1>7 DEF LegacyIngest, Finish, SpawnTurn, Reply, Loop, RowTypes, CurInv,
     CurPCs, RowInv, HeldRunning, NoDoublePop, SendInv, UnsentInv, Holds
<1>8. CASE Kick(p)
  BY <1>8 DEF Kick, Go, Finish, chatVars, ghostVars, Loop, RowTypes, CurInv,
     CurPCs, RowInv, HeldRunning, NoDoublePop, SendInv, UnsentInv, Holds
<1>9. CASE KickMode(p)
  BY <1>9 DEF KickMode, Go, Finish, chatVars, ghostVars, Loop, RowTypes,
     CurInv, CurPCs, RowInv, HeldRunning, NoDoublePop, SendInv, UnsentInv,
     Holds
<1>10. CASE KickPend(p)
  BY <1>10 DEF KickPend, Loop, Finish, chatVars, RowTypes, CurInv, CurPCs,
     RowInv, HeldRunning, NoDoublePop, SendInv, UnsentInv, Holds
<1>11. CASE RunPop(p)
  BY <1>11 DEF RunPop, GoWith, Finish, SetItem, ghostVars, Heads, Loop,
     Pending, RowTypes, CurInv, CurPCs, RowInv, HeldRunning, NoDoublePop,
     SendInv, UnsentInv, Holds
<1>12. CASE RunPick(p)
  BY <1>12 DEF RunPick, Go, Finish, SetItem, ghostVars, Loop, RowTypes, CurInv,
     CurPCs, RowInv, HeldRunning, NoDoublePop, SendInv, UnsentInv, Holds
<1>13. CASE RunAdd(p)
  BY <1>13 DEF RunAdd, Finish, InsertPrompt, Loop, RowTypes, CurInv, CurPCs,
     RowInv, HeldRunning, NoDoublePop, SendInv, UnsentInv, Holds
<1>14. CASE RunIngest(p)
  BY <1>14 DEF RunIngest, Finish, SpawnTurn, Loop, RowTypes, CurInv, CurPCs,
     RowInv, HeldRunning, NoDoublePop, SendInv, UnsentInv, Holds
<1>15. CASE RetryGo(p)
  BY <1>15 DEF RetryGo, Finish, SpawnTurn, chatVars, Loop, RowTypes, CurInv,
     CurPCs, RowInv, HeldRunning, NoDoublePop, SendInv, UnsentInv, Holds
<1>16. CASE StopTail(p)
  BY <1>16 DEF StopTail, Go, chatVars, ghostVars, RowTypes, CurInv, CurPCs,
     RowInv, HeldRunning, NoDoublePop, SendInv, UnsentInv, Holds
<1>17. CASE StopWrite(p)
  BY <1>17 DEF StopWrite, Finish, ghostVars, Loop, RowTypes, CurInv, CurPCs,
     RowInv, HeldRunning, NoDoublePop, SendInv, UnsentInv, Holds
<1>18. CASE StopForce(p)
  BY <1>18 DEF StopForce, Go, chatVars, RowTypes, CurInv, CurPCs, RowInv,
     HeldRunning, NoDoublePop, SendInv, UnsentInv, Holds
<1>19. QED
  BY <1>1, <1>2, <1>3, <1>4, <1>5, <1>6, <1>7, <1>8, <1>9, <1>10, <1>11, <1>12,
     <1>13, <1>14, <1>15, <1>16, <1>17, <1>18 DEF HandlerStep

\* Every step of a task does.
LEMMA TaskRows ==
  ASSUME RowTypes, CurInv, LockInv, RowInv, NEW p \in Procs,
         TaskStep(p)
  PROVE  RowInv'
<1>1. CASE TurnStart(p)
  BY <1>1 DEF TurnStart, Go, chatVars, ghostVars, RowTypes, CurInv, CurPCs,
     RowInv, HeldRunning, NoDoublePop, SendInv, UnsentInv, Holds
<1>2. CASE TurnEcho(p)
  BY <1>2 DEF TurnEcho, Go, chatVars, ghostVars, RowTypes, CurInv, CurPCs,
     RowInv, HeldRunning, NoDoublePop, SendInv, UnsentInv, Holds
<1>3. CASE TurnEnd(p)
  BY <1>3 DEF TurnEnd, Go, chatVars, ghostVars, RowTypes, CurInv, CurPCs,
     RowInv, HeldRunning, NoDoublePop, SendInv, UnsentInv, Holds
<1>4. CASE TurnFlush(p)
  BY <1>4 DEF TurnFlush, Loop, ghostVars, RowTypes, CurInv, CurPCs, RowInv,
     HeldRunning, NoDoublePop, SendInv, UnsentInv, Holds
<1>5. CASE TurnStale(p)
  BY <1>5 DEF TurnStale, Go, RowTypes, CurInv, CurPCs, RowInv, HeldRunning,
     NoDoublePop, SendInv, UnsentInv, Holds
<1>6. CASE TurnReset(p)
  BY <1>6 DEF TurnReset, Loop, ResetPrompt, ghostVars, RowTypes, CurInv,
     CurPCs, RowInv, HeldRunning, NoDoublePop, SendInv, UnsentInv, Holds
<1>7. CASE DrainCheck(p)
  BY <1>7 DEF DrainCheck, Go, chatVars, ghostVars, RowTypes, CurInv, CurPCs,
     RowInv, HeldRunning, NoDoublePop, SendInv, UnsentInv, Holds
<1>8. CASE DrainPop(p)
  BY <1>8 DEF DrainPop, Go, GoWith, SetItem, ghostVars, Heads, Pending,
     RowTypes, CurInv, CurPCs, RowInv, HeldRunning, NoDoublePop, SendInv,
     UnsentInv, Holds
<1>9. CASE DrainRecheck(p)
  BY <1>9 DEF DrainRecheck, Go, Loop, SetItem, ghostVars, RowTypes, CurInv,
     CurPCs, RowInv, HeldRunning, NoDoublePop, SendInv, UnsentInv, Holds
<1>10. CASE DrainAdd(p)
  BY <1>10 DEF DrainAdd, Loop, InsertPrompt, SetItem, RowTypes, CurInv, CurPCs,
     RowInv, HeldRunning, NoDoublePop, SendInv, UnsentInv, Holds
<1>11. CASE DrainIngest(p)
  BY <1>11 DEF DrainIngest, Go, Loop, SetItem, ghostVars, RowTypes, CurInv,
     CurPCs, RowInv, HeldRunning, NoDoublePop, SendInv, UnsentInv, Holds
<1>12. CASE MarkDone(p)
  BY <1>12 DEF MarkDone, Go, SetItem, RowTypes, CurInv, CurPCs, RowInv,
     HeldRunning, NoDoublePop, SendInv, UnsentInv, Holds
<1>13. CASE ClearDispatching(p)
  BY <1>13 DEF ClearDispatching, Go, ReleaseTurn, chatVars, Finish, Loop,
     RowTypes, CurInv, CurPCs, RowInv, HeldRunning, NoDoublePop, SendInv,
     UnsentInv, Holds
<1>14. CASE ClearMode(p)
  BY <1>14 DEF ClearMode, Go, ReleaseTurn, chatVars, Finish, Loop, RowTypes,
     CurInv, CurPCs, RowInv, HeldRunning, NoDoublePop, SendInv, UnsentInv,
     Holds
<1>15. QED
  BY <1>1, <1>2, <1>3, <1>4, <1>5, <1>6, <1>7, <1>8, <1>9, <1>10, <1>11, <1>12,
     <1>13, <1>14 DEF TaskStep

\* So do requests, guards and faults.
LEMMA EnvRows ==
  ASSUME RowTypes, CurInv, LockInv, RowInv, GuardClear \/ ClientStep \/ FaultStep
  PROVE  RowInv'
<1>1. CASE GuardClear
    BY <1>1 DEF GuardClear, chatVars, procVars, RowTypes, CurInv, CurPCs,
       RowInv, HeldRunning, NoDoublePop, SendInv, UnsentInv, Holds
<1>2. ASSUME NEW p \in Procs, NEW m \in Msgs, SendMessage(p, m)
      PROVE  RowInv'
    BY <1>2 DEF SendMessage, GoWith, Reply, chatVars, procVars, RowTypes,
       CurInv, CurPCs, RowInv, HeldRunning, NoDoublePop, SendInv, UnsentInv,
       Holds, LockInv, LockPCs, DecidePCs, CommitPCs
<1>3. ASSUME NEW p \in Procs, NEW m \in Msgs, AddPrompt(p, m)
      PROVE  RowInv'
    BY <1>3 DEF AddPrompt, Reply, RowTypes, CurInv, CurPCs, RowInv,
       HeldRunning, NoDoublePop, SendInv, UnsentInv, Holds
<1>4. ASSUME NEW p \in Procs, NEW m \in Msgs, DispatchItem(p, m)
      PROVE  RowInv'
    BY <1>4 DEF DispatchItem, GoWith, chatVars, ghostVars, RowTypes, CurInv,
       CurPCs, RowInv, HeldRunning, NoDoublePop, SendInv, UnsentInv, Holds
<1>5. ASSUME NEW m \in Msgs, Enqueue(m)
      PROVE  RowInv'
    BY <1>5 DEF Enqueue, Reply, EnqueueRow, procVars, RowTypes, CurInv, CurPCs,
       RowInv, HeldRunning, NoDoublePop, SendInv, UnsentInv, Holds, LockInv,
       LockPCs, DecidePCs, CommitPCs
<1>6. ASSUME NEW m \in Msgs, Cancel(m)
      PROVE  RowInv'
    BY <1>6 DEF Cancel, Reply, SetItem, procVars, RowTypes, CurInv, CurPCs,
       RowInv, HeldRunning, NoDoublePop, SendInv, UnsentInv, Holds
<1>7. ASSUME NEW p \in Procs,
                   NEW md \in {"auto", "manual"}, SetMode(p, md)
      PROVE  RowInv'
    BY <1>7 DEF SetMode, Go, ghostVars, RowTypes, CurInv, CurPCs, RowInv,
       HeldRunning, NoDoublePop, SendInv, UnsentInv, Holds
<1>8. ASSUME NEW p \in Procs, RunNext(p)
      PROVE  RowInv'
    BY <1>8 DEF RunNext, Go, chatVars, ghostVars, RowTypes, CurInv, CurPCs,
       RowInv, HeldRunning, NoDoublePop, SendInv, UnsentInv, Holds
<1>9. ASSUME NEW p \in Procs, RetryChat(p)
      PROVE  RowInv'
    BY <1>9 DEF RetryChat, ResetPrompt, ghostVars, RowTypes, CurInv, CurPCs,
       RowInv, HeldRunning, NoDoublePop, SendInv, UnsentInv, Holds
<1>10. ASSUME NEW p \in Procs, StopTurn(p)
       PROVE  RowInv'
    BY <1>10 DEF StopTurn, Go, chatVars, ghostVars, RowTypes, CurInv, CurPCs,
       RowInv, HeldRunning, NoDoublePop, SendInv, UnsentInv, Holds
<1>11. CASE DeleteChat
    BY <1>11 DEF DeleteChat, procVars, RowTypes, CurInv, CurPCs, RowInv,
       HeldRunning, NoDoublePop, SendInv, UnsentInv, Holds
<1>12. CASE RestoreChat
    BY <1>12 DEF RestoreChat, procVars, ghostVars, RowTypes, CurInv, CurPCs,
       RowInv, HeldRunning, NoDoublePop, SendInv, UnsentInv, Holds
<1>13. CASE Crash
    BY <1>13 DEF Crash, RowTypes, CurInv, CurPCs, RowInv, HeldRunning,
       NoDoublePop, SendInv, UnsentInv, Holds
<1>14. ASSUME NEW p \in Procs, Panic(p)
       PROVE  RowInv'
    BY <1>14 DEF Panic, Finish, chatVars, Loop, RowTypes, CurInv, CurPCs,
       RowInv, HeldRunning, NoDoublePop, SendInv, UnsentInv, Holds
<1>15. ASSUME NEW p \in Procs, Disconnect(p)
       PROVE  RowInv'
    BY <1>15 DEF Disconnect, Finish, chatVars, Loop, RowTypes, CurInv, CurPCs,
       RowInv, HeldRunning, NoDoublePop, SendInv, UnsentInv, Holds
<1>16. QED
  BY <1>1, <1>2, <1>3, <1>4, <1>5, <1>6, <1>7, <1>8, <1>9, <1>10, <1>11, <1>12,
     <1>13, <1>14, <1>15 DEF ClientStep, FaultStep

LEMMA RowsInvariant == Spec => []RowInv
<1>1. Init => RowInv
  BY ConstantsOK DEF Init, RowInv, HeldRunning, NoDoublePop, SendInv,
     UnsentInv, Holds
<1>2. RowTypes /\ CurInv /\ LockInv /\ RowInv /\ [Next]_vars => RowInv'
  <2>1. SUFFICES ASSUME RowTypes, CurInv, LockInv, RowInv, [Next]_vars
                 PROVE  RowInv'
    OBVIOUS
  <2>2. CASE Next
    BY <2>1, <2>2, HandlerRows, TaskRows, EnvRows DEF Next
  <2>3. CASE UNCHANGED vars
    BY <2>1, <2>3 DEF vars, chatVars, procVars, ghostVars, RowInv,
       HeldRunning, NoDoublePop, SendInv, UnsentInv, Holds
  <2>4. QED
    BY <2>1, <2>2, <2>3
<1>3. TypeOK => RowTypes
  BY ConstantsOK DEF TypeOK, StoreTypes, ProcTypes, HistoryTypes, RowTypes
<1>4. Control => LockInv
  BY DEF Control
<1>5. QED
  BY <1>1, <1>2, <1>3, <1>4, TypeCorrect, ControlInvariant, PTL DEF Spec

\* However many drains, run-next clicks and force-dispatches race on a chat's
\* queue, across crashes, panics and deletions, no two of them hold one row.
THEOREM PopExclusion == Spec => []NoDoublePop
<1>1. RowInv => NoDoublePop
  BY DEF RowInv
<1>2. QED
  BY <1>1, RowsInvariant, PTL

-----------------------------------------------------------------------------
(* Accepted messages.                                                      *)

LEMMA SameDelivered ==
  ASSUME UNCHANGED prompts
  PROVE  Delivered' = Delivered
BY DEF Delivered

LEMMA InsertDelivered ==
  ASSUME StoreTypes, NEW m,
         prompts' = Append(prompts, [msg |-> m, events |-> "none", cached |-> FALSE])
  PROVE  Delivered' = Delivered \cup {m}
<1>1. /\ Len(prompts) \in Nat /\ DOMAIN prompts = 1 .. Len(prompts)
      /\ DOMAIN prompts' = 1 .. Len(prompts) + 1
      /\ \A i \in 1 .. Len(prompts) : prompts'[i] = prompts[i]
      /\ prompts'[Len(prompts) + 1].msg = m
  BY DEF StoreTypes
<1>2. QED
  BY <1>1 DEF Delivered

LEMMA IngestDelivered ==
  ASSUME StoreTypes, NEW p, IngestPrompt(p)
  PROVE  Delivered' = Delivered
<1>1. prompts \in [1 .. Len(prompts) -> Prompt] BY DEF StoreTypes
<1>2. DOMAIN prompts' = DOMAIN prompts BY DEF IngestPrompt
<1>3. \A i \in DOMAIN prompts : prompts'[i].msg = prompts[i].msg  BY <1>1 DEF IngestPrompt, Prompt
<1>4. QED
BY <1>2, <1>3 DEF Delivered

LEMMA EventsDelivered ==
  ASSUME StoreTypes, NEW i, NEW e,
         prompts' = [prompts EXCEPT ![i].events = e]
  PROVE  Delivered' = Delivered
<1>1. prompts \in [1 .. Len(prompts) -> Prompt] BY DEF StoreTypes
<1>2. DOMAIN prompts' = DOMAIN prompts OBVIOUS
<1>3. \A j \in DOMAIN prompts : prompts'[j].msg = prompts[j].msg  BY <1>1 DEF Prompt
<1>4. QED
BY <1>2, <1>3 DEF Delivered

LEMMA CachedDelivered ==
  ASSUME StoreTypes, NEW c,
         prompts' = [i \in DOMAIN prompts |-> [prompts[i] EXCEPT !.cached = c]]
  PROVE  Delivered' = Delivered
<1>1. prompts \in [1 .. Len(prompts) -> Prompt] BY DEF StoreTypes
<1>2. DOMAIN prompts' = DOMAIN prompts OBVIOUS
<1>3. \A j \in DOMAIN prompts : prompts'[j].msg = prompts[j].msg  BY <1>1 DEF Prompt
<1>4. QED
BY <1>2, <1>3 DEF Delivered

LEMMA CopiesOfDelivered ==
  ASSUME StoreTypes, NEW m \in Delivered
  PROVE  Copies(m) > 0
<1>1. PICK i \in DOMAIN prompts : prompts[i].msg = m  BY DEF Delivered
<1>2. IsFiniteSet(DOMAIN prompts)
  BY FS_Interval DEF StoreTypes
<1> DEFINE S == {j \in DOMAIN prompts : prompts[j].msg = m}
<1>3. IsFiniteSet(S) /\ S # {}
  BY <1>1, <1>2, FS_Subset
<1>4. Cardinality(S) \in Nat /\ Cardinality(S) # 0 BY <1>3, FS_CardinalityType, FS_EmptySet
<1>5. QED BY <1>4 DEF Copies

\* Every step of a handler keeps the accepted messages.
LEMMA HandlerLedger ==
  ASSUME RowTypes, StoreTypes, CurInv, Ledger, NEW p \in Procs,
         HandlerStep(p)
  PROVE  Ledger'
<1>1. CASE SendBusy(p)
  BY <1>1, SameDelivered DEF SendBusy, Finish, Reply, EnqueueRow, Loop,
     RowTypes, Ledger, AcceptedInv, InsertedInv, InsertedPCs, CurInv, CurPCs
<1>2. CASE SendDecide(p)
  BY <1>2, SameDelivered DEF SendDecide, Go, chatVars, RowTypes, Ledger,
     AcceptedInv, InsertedInv, InsertedPCs, CurInv, CurPCs
<1>3. CASE SendPark(p)
  BY <1>3, SameDelivered DEF SendPark, Go, Reply, EnqueueRow, RowTypes, Ledger,
     AcceptedInv, InsertedInv, InsertedPCs, CurInv, CurPCs
<1>4. CASE SendParkMode(p)
  BY <1>4, SameDelivered DEF SendParkMode, Loop, Finish, chatVars, RowTypes,
     Ledger, AcceptedInv, InsertedInv, InsertedPCs, CurInv, CurPCs
<1>5. CASE SendCommit(p)
  BY <1>5, InsertDelivered, SameDelivered DEF SendCommit, Finish, Reply, Loop,
     RowTypes, InsertPrompt, Ledger, AcceptedInv, InsertedInv, InsertedPCs,
     CurInv, CurPCs
<1>6. CASE SendIngest(p)
  BY <1>6, IngestDelivered, SameDelivered DEF SendIngest, Finish, SpawnTurn,
     Reply, Loop, RowTypes, Ledger, AcceptedInv, InsertedInv, InsertedPCs,
     CurInv, CurPCs
<1>7. CASE LegacyIngest(p)
  BY <1>7, IngestDelivered, SameDelivered DEF LegacyIngest, Finish, SpawnTurn,
     Reply, Loop, RowTypes, Ledger, AcceptedInv, InsertedInv, InsertedPCs,
     CurInv, CurPCs
<1>8. CASE Kick(p)
  BY <1>8, SameDelivered DEF Kick, Go, Finish, chatVars, ghostVars, Loop,
     RowTypes, Ledger, AcceptedInv, InsertedInv, InsertedPCs, CurInv, CurPCs
<1>9. CASE KickMode(p)
  BY <1>9, SameDelivered DEF KickMode, Go, Finish, chatVars, ghostVars, Loop,
     RowTypes, Ledger, AcceptedInv, InsertedInv, InsertedPCs, CurInv, CurPCs
<1>10. CASE KickPend(p)
  BY <1>10, SameDelivered DEF KickPend, Loop, Finish, chatVars, RowTypes,
     Ledger, AcceptedInv, InsertedInv, InsertedPCs, CurInv, CurPCs
<1>11. CASE RunPop(p)
  BY <1>11, SameDelivered DEF RunPop, GoWith, Finish, SetItem, ghostVars,
     Heads, Loop, Pending, RowTypes, Ledger, AcceptedInv, InsertedInv,
     InsertedPCs, CurInv, CurPCs
<1>12. CASE RunPick(p)
  BY <1>12, SameDelivered DEF RunPick, Go, Finish, SetItem, ghostVars, Loop,
     RowTypes, Ledger, AcceptedInv, InsertedInv, InsertedPCs, CurInv, CurPCs
<1>13. CASE RunAdd(p)
  BY <1>13, InsertDelivered, SameDelivered DEF RunAdd, Finish, Loop, RowTypes,
     InsertPrompt, Ledger, AcceptedInv, InsertedInv, InsertedPCs, CurInv,
     CurPCs
<1>14. CASE RunIngest(p)
  BY <1>14, IngestDelivered, SameDelivered DEF RunIngest, Finish, SpawnTurn,
     Loop, RowTypes, Ledger, AcceptedInv, InsertedInv, InsertedPCs, CurInv,
     CurPCs
<1>15. CASE RetryGo(p)
  BY <1>15, SameDelivered DEF RetryGo, Finish, SpawnTurn, chatVars, Loop,
     RowTypes, Ledger, AcceptedInv, InsertedInv, InsertedPCs, CurInv, CurPCs
<1>16. CASE StopTail(p)
  BY <1>16, SameDelivered DEF StopTail, Go, chatVars, ghostVars, RowTypes,
     Ledger, AcceptedInv, InsertedInv, InsertedPCs, CurInv, CurPCs
<1>17. CASE StopWrite(p)
  BY <1>17, EventsDelivered DEF StopWrite, Finish, ghostVars, Loop, RowTypes,
     Ledger, AcceptedInv, InsertedInv, InsertedPCs, CurInv, CurPCs
<1>18. CASE StopForce(p)
  BY <1>18, SameDelivered DEF StopForce, Go, chatVars, RowTypes, Ledger,
     AcceptedInv, InsertedInv, InsertedPCs, CurInv, CurPCs
<1>19. QED
  BY <1>1, <1>2, <1>3, <1>4, <1>5, <1>6, <1>7, <1>8, <1>9, <1>10, <1>11, <1>12,
     <1>13, <1>14, <1>15, <1>16, <1>17, <1>18 DEF HandlerStep

\* Every step of a task does.
LEMMA TaskLedger ==
  ASSUME RowTypes, StoreTypes, CurInv, Ledger, NEW p \in Procs,
         TaskStep(p)
  PROVE  Ledger'
<1>1. CASE TurnStart(p)
  BY <1>1, SameDelivered DEF TurnStart, Go, chatVars, ghostVars, RowTypes,
     Ledger, AcceptedInv, InsertedInv, InsertedPCs, CurInv, CurPCs
<1>2. CASE TurnEcho(p)
  BY <1>2, SameDelivered DEF TurnEcho, Go, chatVars, ghostVars, RowTypes,
     Ledger, AcceptedInv, InsertedInv, InsertedPCs, CurInv, CurPCs
<1>3. CASE TurnEnd(p)
  BY <1>3, SameDelivered DEF TurnEnd, Go, chatVars, ghostVars, RowTypes,
     Ledger, AcceptedInv, InsertedInv, InsertedPCs, CurInv, CurPCs
<1>4. CASE TurnFlush(p)
  BY <1>4, EventsDelivered, SameDelivered DEF TurnFlush, Loop, ghostVars,
     RowTypes, Flushed, Ledger, AcceptedInv, InsertedInv, InsertedPCs, CurInv,
     CurPCs
<1>5. CASE TurnStale(p)
  BY <1>5, EventsDelivered, SameDelivered DEF TurnStale, Go, RowTypes, Flushed,
     Ledger, AcceptedInv, InsertedInv, InsertedPCs, CurInv, CurPCs
<1>6. CASE TurnReset(p)
  BY <1>6, EventsDelivered, SameDelivered DEF TurnReset, Loop, ghostVars,
     RowTypes, ResetPrompt, Ledger, AcceptedInv, InsertedInv, InsertedPCs,
     CurInv, CurPCs
<1>7. CASE DrainCheck(p)
  BY <1>7, SameDelivered DEF DrainCheck, Go, chatVars, ghostVars, RowTypes,
     Ledger, AcceptedInv, InsertedInv, InsertedPCs, CurInv, CurPCs
<1>8. CASE DrainPop(p)
  BY <1>8, SameDelivered DEF DrainPop, Go, GoWith, SetItem, ghostVars, Heads,
     Pending, RowTypes, Ledger, AcceptedInv, InsertedInv, InsertedPCs, CurInv,
     CurPCs
<1>9. CASE DrainRecheck(p)
  BY <1>9, SameDelivered DEF DrainRecheck, Go, Loop, SetItem, ghostVars,
     RowTypes, Ledger, AcceptedInv, InsertedInv, InsertedPCs, CurInv, CurPCs
<1>10. CASE DrainAdd(p)
  BY <1>10, InsertDelivered, SameDelivered DEF DrainAdd, Loop, SetItem,
     RowTypes, InsertPrompt, Ledger, AcceptedInv, InsertedInv, InsertedPCs,
     CurInv, CurPCs
<1>11. CASE DrainIngest(p)
  BY <1>11, IngestDelivered, SameDelivered DEF DrainIngest, Go, Loop, SetItem,
     ghostVars, RowTypes, Ledger, AcceptedInv, InsertedInv, InsertedPCs,
     CurInv, CurPCs
<1>12. CASE MarkDone(p)
  BY <1>12, SameDelivered DEF MarkDone, Go, SetItem, RowTypes, Ledger,
     AcceptedInv, InsertedInv, InsertedPCs, CurInv, CurPCs
<1>13. CASE ClearDispatching(p)
  BY <1>13, SameDelivered DEF ClearDispatching, Go, ReleaseTurn, chatVars,
     Finish, Loop, RowTypes, Ledger, AcceptedInv, InsertedInv, InsertedPCs,
     CurInv, CurPCs
<1>14. CASE ClearMode(p)
  BY <1>14, SameDelivered DEF ClearMode, Go, ReleaseTurn, chatVars, Finish,
     Loop, RowTypes, Ledger, AcceptedInv, InsertedInv, InsertedPCs, CurInv,
     CurPCs
<1>15. QED
  BY <1>1, <1>2, <1>3, <1>4, <1>5, <1>6, <1>7, <1>8, <1>9, <1>10, <1>11, <1>12,
     <1>13, <1>14 DEF TaskStep

\* So do requests, guards and faults.
LEMMA EnvLedger ==
  ASSUME RowTypes, StoreTypes, CurInv, Ledger, GuardClear \/ ClientStep \/ FaultStep
  PROVE  Ledger'
<1>1. CASE GuardClear
    BY <1>1, SameDelivered DEF GuardClear, chatVars, procVars, RowTypes,
       Ledger, AcceptedInv, InsertedInv, InsertedPCs, CurInv, CurPCs
<1>2. ASSUME NEW p \in Procs, NEW m \in Msgs, SendMessage(p, m)
      PROVE  Ledger'
    BY <1>2, SameDelivered DEF SendMessage, GoWith, Reply, chatVars, procVars,
       RowTypes, Ledger, AcceptedInv, InsertedInv, InsertedPCs, CurInv, CurPCs
<1>3. ASSUME NEW p \in Procs, NEW m \in Msgs, AddPrompt(p, m)
      PROVE  Ledger'
    BY <1>3, InsertDelivered DEF AddPrompt, Reply, RowTypes, Ledger,
       AcceptedInv, InsertedInv, InsertedPCs, CurInv, CurPCs
<1>4. ASSUME NEW p \in Procs, NEW m \in Msgs, DispatchItem(p, m)
      PROVE  Ledger'
    BY <1>4, SameDelivered DEF DispatchItem, GoWith, chatVars, ghostVars,
       RowTypes, Ledger, AcceptedInv, InsertedInv, InsertedPCs, CurInv, CurPCs
<1>5. ASSUME NEW m \in Msgs, Enqueue(m)
      PROVE  Ledger'
    BY <1>5, SameDelivered DEF Enqueue, Reply, EnqueueRow, procVars, RowTypes,
       Ledger, AcceptedInv, InsertedInv, InsertedPCs, CurInv, CurPCs
<1>6. ASSUME NEW m \in Msgs, Cancel(m)
      PROVE  Ledger'
    BY <1>6, SameDelivered DEF Cancel, Reply, SetItem, procVars, RowTypes,
       Ledger, AcceptedInv, InsertedInv, InsertedPCs, CurInv, CurPCs
<1>7. ASSUME NEW p \in Procs,
                   NEW md \in {"auto", "manual"}, SetMode(p, md)
      PROVE  Ledger'
    BY <1>7, SameDelivered DEF SetMode, Go, ghostVars, RowTypes, Ledger,
       AcceptedInv, InsertedInv, InsertedPCs, CurInv, CurPCs
<1>8. ASSUME NEW p \in Procs, RunNext(p)
      PROVE  Ledger'
    BY <1>8, SameDelivered DEF RunNext, Go, chatVars, ghostVars, RowTypes,
       Ledger, AcceptedInv, InsertedInv, InsertedPCs, CurInv, CurPCs
<1>9. ASSUME NEW p \in Procs, RetryChat(p)
      PROVE  Ledger'
  <2>1. Delivered \subseteq Delivered'
    BY <1>9, EventsDelivered DEF RetryChat, ResetPrompt
  <2>2. InsertedInv'
    BY <1>9, <2>1 DEF RetryChat, ghostVars, RowTypes, ResetPrompt, Ledger,
       InsertedInv, InsertedPCs
  <2>3. AcceptedInv'
    BY <1>9, <2>1 DEF RetryChat, ghostVars, RowTypes, ResetPrompt, Ledger,
       AcceptedInv, InsertedInv, InsertedPCs, CurInv, CurPCs
  <2>4. QED
    BY <2>2, <2>3 DEF Ledger
<1>10. ASSUME NEW p \in Procs, StopTurn(p)
       PROVE  Ledger'
    BY <1>10, SameDelivered DEF StopTurn, Go, chatVars, ghostVars, RowTypes,
       Ledger, AcceptedInv, InsertedInv, InsertedPCs, CurInv, CurPCs
<1>11. CASE DeleteChat
    BY <1>11, CachedDelivered DEF DeleteChat, procVars, RowTypes, Ledger,
       AcceptedInv, InsertedInv, InsertedPCs, CurInv, CurPCs
<1>12. CASE RestoreChat
    BY <1>12, SameDelivered DEF RestoreChat, procVars, ghostVars, RowTypes,
       Ledger, AcceptedInv, InsertedInv, InsertedPCs, CurInv, CurPCs
<1>13. CASE Crash
    BY <1>13, CachedDelivered DEF Crash, RowTypes, Ledger, AcceptedInv,
       InsertedInv, InsertedPCs, CurInv, CurPCs
<1>14. ASSUME NEW p \in Procs, Panic(p)
       PROVE  Ledger'
    BY <1>14, SameDelivered DEF Panic, Finish, chatVars, Loop, RowTypes,
       Ledger, AcceptedInv, InsertedInv, InsertedPCs, CurInv, CurPCs
<1>15. ASSUME NEW p \in Procs, Disconnect(p)
       PROVE  Ledger'
    BY <1>15, SameDelivered DEF Disconnect, Finish, chatVars, Loop, RowTypes,
       Ledger, AcceptedInv, InsertedInv, InsertedPCs, CurInv, CurPCs
<1>16. QED
  BY <1>1, <1>2, <1>3, <1>4, <1>5, <1>6, <1>7, <1>8, <1>9, <1>10, <1>11, <1>12,
     <1>13, <1>14, <1>15 DEF ClientStep, FaultStep

LEMMA LedgerInvariant == Spec => []Ledger
<1>1. Init => Ledger
  BY DEF Init, Ledger, InsertedInv, AcceptedInv, InsertedPCs
<1>2. RowTypes /\ StoreTypes /\ CurInv /\ Ledger /\ [Next]_vars => Ledger'
  <2>1. SUFFICES ASSUME RowTypes, StoreTypes, CurInv, Ledger, [Next]_vars
                 PROVE  Ledger'
    OBVIOUS
  <2>2. CASE Next
    BY <2>1, <2>2, HandlerLedger, TaskLedger, EnvLedger DEF Next
  <2>3. CASE UNCHANGED vars
    BY <2>1, <2>3 DEF vars, chatVars, procVars, ghostVars, Ledger,
       InsertedInv, AcceptedInv, Delivered
  <2>4. QED
    BY <2>1, <2>2, <2>3
<1>3. TypeOK => RowTypes /\ StoreTypes
  BY ConstantsOK DEF TypeOK, StoreTypes, ProcTypes, HistoryTypes, RowTypes
<1>4. QED
  BY <1>1, <1>2, <1>3, TypeCorrect, PTL DEF Spec

\* A message answered with 200 by send_message, add_prompt or enqueue is in
\* the queue or in the timeline in every later state, until its sender
\* cancels it: no crash, panic, disconnect, deletion or database error loses it.
THEOREM NeverLost == Spec => []NothingLost
<1>1. StoreTypes /\ Ledger => NothingLost
  BY CopiesOfDelivered DEF Ledger, AcceptedInv, NothingLost
<1>2. TypeOK => StoreTypes
  BY DEF TypeOK
<1>3. QED
  BY <1>1, <1>2, TypeCorrect, LedgerInvariant, PTL
-----------------------------------------------------------------------------
(* Rows that nobody holds.                                                 *)

\* The requests that pop a row in a handler rather than in a drain.
NoRuns == Requests \cap {"run_next", "dispatch_item"} = {}

\* Nothing happens that the code answers by leaving a popped row behind: a
\* drain rolls back on every early return, but a panic and a failed delete of
\* the row strand it, and so do the early returns of run_next and
\* dispatch_item, which a deleted chat or a client that goes away provokes.
RowsRolledBack ==
  /\ Faults \cap {"panic", "db"} = {}
  /\ NoRuns \/ ("delete" \notin Requests /\ "disconnect" \notin Faults)

\* A slot in its drain loop is no direct turn any more; the handlers that are
\* never asked for never run; a chat that nobody deletes is live.
DrainPCs == {"drain", "pop", "popped", "add", "ingest", "clear", "clearMode"}
SlotInv ==
  /\ \A p \in Procs : pc[p] \in DrainPCs => p \notin direct
  /\ NoRuns => \A p \in Procs :
                 /\ pc[p] \notin {"runPop", "runPick", "runAdd", "runIngest"}
                 /\ pc[p] = "done" => p \notin direct
  /\ "delete" \notin Requests => present

\* Every step of a handler keeps them so.
LEMMA HandlerSlots ==
  ASSUME ProcTypes, SlotInv, NEW p \in Procs, HandlerStep(p)
  PROVE  SlotInv'
<1>1. CASE SendBusy(p)
  BY <1>1 DEF SendBusy, Finish, Loop, ProcTypes, SlotInv, DrainPCs, NoRuns
<1>2. CASE SendDecide(p)
  BY <1>2 DEF SendDecide, Go, Claim, chatVars, ProcTypes, SlotInv, DrainPCs,
     NoRuns
<1>3. CASE SendPark(p)
  BY <1>3 DEF SendPark, Go, ProcTypes, SlotInv, DrainPCs, NoRuns
<1>4. CASE SendParkMode(p)
  BY <1>4 DEF SendParkMode, Loop, Finish, Claim, chatVars, ProcTypes, SlotInv,
     DrainPCs, NoRuns
<1>5. CASE SendCommit(p)
  BY <1>5 DEF SendCommit, Finish, InsertPrompt, Loop, ProcTypes, SlotInv,
     DrainPCs, NoRuns
<1>6. CASE SendIngest(p)
  BY <1>6 DEF SendIngest, Finish, SpawnTurn, Loop, ProcTypes, SlotInv,
     DrainPCs, NoRuns
<1>7. CASE LegacyIngest(p)
  BY <1>7 DEF LegacyIngest, Finish, SpawnTurn, Loop, ProcTypes, SlotInv,
     DrainPCs, NoRuns
<1>8. CASE Kick(p)
  BY <1>8 DEF Kick, Go, Finish, Loop, chatVars, ghostVars, ProcTypes, SlotInv,
     DrainPCs, NoRuns
<1>9. CASE KickMode(p)
  BY <1>9 DEF KickMode, Go, Finish, Loop, chatVars, ghostVars, ProcTypes,
     SlotInv, DrainPCs, NoRuns
<1>10. CASE KickPend(p)
  BY <1>10 DEF KickPend, Loop, Finish, Claim, chatVars, ProcTypes, SlotInv,
     DrainPCs, NoRuns
<1>11. CASE RunPop(p)
  BY <1>11 DEF RunPop, GoWith, Finish, Loop, ghostVars, ProcTypes, SlotInv,
     DrainPCs, NoRuns
<1>12. CASE RunPick(p)
  BY <1>12 DEF RunPick, Go, Finish, Loop, ghostVars, ProcTypes, SlotInv,
     DrainPCs, NoRuns
<1>13. CASE RunAdd(p)
  BY <1>13 DEF RunAdd, Finish, InsertPrompt, Loop, ProcTypes, SlotInv,
     DrainPCs, NoRuns
<1>14. CASE RunIngest(p)
  BY <1>14 DEF RunIngest, Finish, SpawnTurn, Claim, Loop, ProcTypes, SlotInv,
     DrainPCs, NoRuns
<1>15. CASE RetryGo(p)
  BY <1>15 DEF RetryGo, Finish, SpawnTurn, Claim, Loop, chatVars, ProcTypes,
     SlotInv, DrainPCs, NoRuns
<1>16. CASE StopTail(p)
  BY <1>16 DEF StopTail, Go, chatVars, ghostVars, ProcTypes, SlotInv,
     DrainPCs, NoRuns
<1>17. CASE StopWrite(p)
  BY <1>17 DEF StopWrite, Finish, Loop, ghostVars, ProcTypes, SlotInv,
     DrainPCs, NoRuns
<1>18. CASE StopForce(p)
  BY <1>18 DEF StopForce, Go, Unclaim, chatVars, ProcTypes, SlotInv, DrainPCs,
     NoRuns
<1>19. QED
  BY <1>1, <1>2, <1>3, <1>4, <1>5, <1>6, <1>7, <1>8, <1>9, <1>10, <1>11,
     <1>12, <1>13, <1>14, <1>15, <1>16, <1>17, <1>18 DEF HandlerStep

\* Every step of a task does.
LEMMA TaskSlots ==
  ASSUME ProcTypes, SlotInv, NEW p \in Procs, TaskStep(p)
  PROVE  SlotInv'
<1>1. CASE TurnStart(p)
  BY <1>1 DEF TurnStart, Go, chatVars, ghostVars, ProcTypes, SlotInv,
     DrainPCs, NoRuns
<1>2. CASE TurnEcho(p)
  BY <1>2 DEF TurnEcho, Go, chatVars, ghostVars, ProcTypes, SlotInv, DrainPCs,
     NoRuns
<1>3. CASE TurnEnd(p)
  BY <1>3 DEF TurnEnd, Go, chatVars, ghostVars, ProcTypes, SlotInv, DrainPCs,
     NoRuns
<1>4. CASE TurnFlush(p)
  BY <1>4 DEF TurnFlush, Loop, ghostVars, ProcTypes, SlotInv, DrainPCs, NoRuns
<1>5. CASE TurnStale(p)
  BY <1>5 DEF TurnStale, Go, ProcTypes, SlotInv, DrainPCs, NoRuns
<1>6. CASE TurnReset(p)
  BY <1>6 DEF TurnReset, Loop, ResetPrompt, ghostVars, ProcTypes, SlotInv,
     DrainPCs, NoRuns
<1>7. CASE DrainCheck(p)
  BY <1>7 DEF DrainCheck, Go, chatVars, ghostVars, ProcTypes, SlotInv,
     DrainPCs, NoRuns
<1>8. CASE DrainPop(p)
  BY <1>8 DEF DrainPop, Go, GoWith, ghostVars, ProcTypes, SlotInv, DrainPCs,
     NoRuns
<1>9. CASE DrainRecheck(p)
  BY <1>9 DEF DrainRecheck, Go, Loop, ghostVars, ProcTypes, SlotInv, DrainPCs,
     NoRuns
<1>10. CASE DrainAdd(p)
  BY <1>10 DEF DrainAdd, Loop, InsertPrompt, ProcTypes, SlotInv, DrainPCs,
     NoRuns
<1>11. CASE DrainIngest(p)
  BY <1>11 DEF DrainIngest, Go, Loop, ghostVars, ProcTypes, SlotInv, DrainPCs,
     NoRuns
<1>12. CASE MarkDone(p)
  BY <1>12 DEF MarkDone, Go, ProcTypes, SlotInv, DrainPCs, NoRuns
<1>13. CASE ClearDispatching(p)
  BY <1>13 DEF ClearDispatching, Go, ReleaseTurn, Unclaim, Finish, Loop,
     chatVars, ProcTypes, SlotInv, DrainPCs, NoRuns
<1>14. CASE ClearMode(p)
  BY <1>14 DEF ClearMode, Go, ReleaseTurn, Unclaim, Finish, Loop, chatVars,
     ProcTypes, SlotInv, DrainPCs, NoRuns
<1>15. QED
  BY <1>1, <1>2, <1>3, <1>4, <1>5, <1>6, <1>7, <1>8, <1>9, <1>10, <1>11,
     <1>12, <1>13, <1>14 DEF TaskStep

\* So do requests, guards and faults.
LEMMA EnvSlots ==
  ASSUME ProcTypes, SlotInv, GuardClear \/ ClientStep \/ FaultStep
  PROVE  SlotInv'
<1>1. CASE GuardClear
  BY <1>1 DEF GuardClear, Unclaim, chatVars, procVars, ProcTypes, SlotInv,
     DrainPCs, NoRuns
<1>2. ASSUME NEW p \in Procs, NEW m \in Msgs, SendMessage(p, m)
      PROVE  SlotInv'
  BY <1>2 DEF SendMessage, GoWith, chatVars, procVars, ProcTypes, SlotInv,
     DrainPCs, NoRuns
<1>3. ASSUME NEW p \in Procs, NEW m \in Msgs, AddPrompt(p, m)
      PROVE  SlotInv'
  BY <1>3 DEF AddPrompt, ProcTypes, SlotInv, DrainPCs, NoRuns
<1>4. ASSUME NEW p \in Procs, NEW m \in Msgs, DispatchItem(p, m)
      PROVE  SlotInv'
  BY <1>4 DEF DispatchItem, GoWith, chatVars, ghostVars, ProcTypes, SlotInv,
     DrainPCs, NoRuns
<1>5. ASSUME NEW m \in Msgs, Enqueue(m)
      PROVE  SlotInv'
  BY <1>5 DEF Enqueue, procVars, ProcTypes, SlotInv, DrainPCs, NoRuns
<1>6. ASSUME NEW m \in Msgs, Cancel(m)
      PROVE  SlotInv'
  BY <1>6 DEF Cancel, procVars, ProcTypes, SlotInv, DrainPCs, NoRuns
<1>7. ASSUME NEW p \in Procs,
                   NEW md \in {"auto", "manual"}, SetMode(p, md)
      PROVE  SlotInv'
  BY <1>7 DEF SetMode, Go, ghostVars, ProcTypes, SlotInv, DrainPCs, NoRuns
<1>8. ASSUME NEW p \in Procs, RunNext(p)
      PROVE  SlotInv'
  BY <1>8 DEF RunNext, Go, chatVars, ghostVars, ProcTypes, SlotInv, DrainPCs,
     NoRuns
<1>9. ASSUME NEW p \in Procs, RetryChat(p)
      PROVE  SlotInv'
  BY <1>9 DEF RetryChat, ResetPrompt, ghostVars, ProcTypes, SlotInv, DrainPCs,
     NoRuns
<1>10. ASSUME NEW p \in Procs, StopTurn(p)
       PROVE  SlotInv'
  BY <1>10 DEF StopTurn, Go, chatVars, ghostVars, ProcTypes, SlotInv,
     DrainPCs, NoRuns
<1>11. CASE DeleteChat
  BY <1>11 DEF DeleteChat, procVars, ProcTypes, SlotInv, DrainPCs, NoRuns
<1>12. CASE RestoreChat
  BY <1>12 DEF RestoreChat, procVars, ghostVars, ProcTypes, SlotInv, DrainPCs,
     NoRuns
<1>13. CASE Crash
  BY <1>13 DEF Crash, ProcTypes, SlotInv, DrainPCs, NoRuns
<1>14. ASSUME NEW p \in Procs, Panic(p)
       PROVE  SlotInv'
  BY <1>14 DEF Panic, Finish, Loop, chatVars, ProcTypes, SlotInv, DrainPCs,
     NoRuns
<1>15. ASSUME NEW p \in Procs, Disconnect(p)
       PROVE  SlotInv'
  BY <1>15 DEF Disconnect, Finish, Loop, chatVars, ProcTypes, SlotInv,
     DrainPCs, NoRuns
<1>16. QED
  BY <1>1, <1>2, <1>3, <1>4, <1>5, <1>6, <1>7, <1>8, <1>9, <1>10, <1>11,
     <1>12, <1>13, <1>14, <1>15 DEF ClientStep, FaultStep

LEMMA SlotInvariant == Spec => []SlotInv
<1>1. Init => SlotInv
  BY DEF Init, SlotInv, DrainPCs
<1>2. ProcTypes /\ SlotInv /\ [Next]_vars => SlotInv'
  <2>1. SUFFICES ASSUME ProcTypes, SlotInv, [Next]_vars
                 PROVE  SlotInv'
    OBVIOUS
  <2>2. CASE Next
    BY <2>1, <2>2, HandlerSlots, TaskSlots, EnvSlots DEF Next
  <2>3. CASE UNCHANGED vars
    BY <2>1, <2>3 DEF vars, chatVars, procVars, SlotInv
  <2>4. QED
    BY <2>1, <2>2, <2>3
<1>3. TypeOK => ProcTypes
  BY DEF TypeOK
<1>4. QED
  BY <1>1, <1>2, <1>3, TypeCorrect, PTL DEF Spec

\* No step of a handler leaves a running row without a holder.
LEMMA HandlerHolds ==
  ASSUME RowsRolledBack, RowTypes, CurInv, SlotInv, NoStrandedRunning, NEW p
         \in Procs, HandlerStep(p)
  PROVE  NoStrandedRunning'
<1>1. CASE SendBusy(p)
  BY <1>1 DEF SendBusy, Finish, EnqueueRow, Loop, RowTypes, SlotInv, NoRuns,
     RowsRolledBack, NoStrandedRunning, Holds
<1>2. CASE SendDecide(p)
  BY <1>2 DEF SendDecide, Go, chatVars, RowTypes, SlotInv, NoRuns,
     RowsRolledBack, NoStrandedRunning, Holds
<1>3. CASE SendPark(p)
  BY <1>3 DEF SendPark, Go, EnqueueRow, RowTypes, SlotInv, NoRuns,
     RowsRolledBack, NoStrandedRunning, Holds
<1>4. CASE SendParkMode(p)
  BY <1>4 DEF SendParkMode, Loop, Finish, chatVars, RowTypes, SlotInv, NoRuns,
     RowsRolledBack, NoStrandedRunning, Holds
<1>5. CASE SendCommit(p)
  BY <1>5 DEF SendCommit, Finish, InsertPrompt, Loop, Spend, RowTypes,
     SlotInv, NoRuns, RowsRolledBack, NoStrandedRunning, Holds
<1>6. CASE SendIngest(p)
  BY <1>6 DEF SendIngest, Finish, SpawnTurn, Loop, RowTypes, SlotInv, NoRuns,
     RowsRolledBack, NoStrandedRunning, Holds
<1>7. CASE LegacyIngest(p)
  BY <1>7 DEF LegacyIngest, Finish, SpawnTurn, Loop, RowTypes, SlotInv,
     NoRuns, RowsRolledBack, NoStrandedRunning, Holds
<1>8. CASE Kick(p)
  BY <1>8 DEF Kick, Go, Finish, Loop, chatVars, ghostVars, RowTypes, SlotInv,
     NoRuns, RowsRolledBack, NoStrandedRunning, Holds
<1>9. CASE KickMode(p)
  BY <1>9 DEF KickMode, Go, Finish, Loop, chatVars, ghostVars, RowTypes,
     SlotInv, NoRuns, RowsRolledBack, NoStrandedRunning, Holds
<1>10. CASE KickPend(p)
  BY <1>10 DEF KickPend, Loop, Finish, chatVars, RowTypes, SlotInv, NoRuns,
     RowsRolledBack, NoStrandedRunning, Holds
<1>11. CASE RunPop(p)
  BY <1>11 DEF RunPop, GoWith, Finish, SetItem, Heads, Pending, Loop,
     ghostVars, RowTypes, SlotInv, NoRuns, RowsRolledBack, NoStrandedRunning,
     Holds
<1>12. CASE RunPick(p)
  BY <1>12 DEF RunPick, Go, Finish, SetItem, Loop, ghostVars, RowTypes,
     SlotInv, NoRuns, RowsRolledBack, NoStrandedRunning, Holds
<1>13. CASE RunAdd(p)
  BY <1>13 DEF RunAdd, Finish, InsertPrompt, Loop, Spend, RowTypes, SlotInv,
     NoRuns, RowsRolledBack, NoStrandedRunning, Holds
<1>14. CASE RunIngest(p)
  BY <1>14 DEF RunIngest, Finish, SpawnTurn, Loop, RowTypes, SlotInv, NoRuns,
     RowsRolledBack, NoStrandedRunning, Holds
<1>15. CASE RetryGo(p)
  BY <1>15 DEF RetryGo, Finish, SpawnTurn, Loop, chatVars, RowTypes, SlotInv,
     NoRuns, RowsRolledBack, NoStrandedRunning, Holds
<1>16. CASE StopTail(p)
  BY <1>16 DEF StopTail, Go, chatVars, ghostVars, RowTypes, SlotInv, NoRuns,
     RowsRolledBack, NoStrandedRunning, Holds
<1>17. CASE StopWrite(p)
  BY <1>17 DEF StopWrite, Finish, Loop, ghostVars, RowTypes, SlotInv, NoRuns,
     RowsRolledBack, NoStrandedRunning, Holds
<1>18. CASE StopForce(p)
  BY <1>18 DEF StopForce, Go, chatVars, RowTypes, SlotInv, NoRuns,
     RowsRolledBack, NoStrandedRunning, Holds
<1>19. QED
  BY <1>1, <1>2, <1>3, <1>4, <1>5, <1>6, <1>7, <1>8, <1>9, <1>10, <1>11,
     <1>12, <1>13, <1>14, <1>15, <1>16, <1>17, <1>18 DEF HandlerStep

\* No step of a task does.
LEMMA TaskHolds ==
  ASSUME RowsRolledBack, RowTypes, CurInv, SlotInv, NoStrandedRunning, NEW p
         \in Procs, TaskStep(p)
  PROVE  NoStrandedRunning'
<1>1. CASE TurnStart(p)
  BY <1>1 DEF TurnStart, Go, chatVars, ghostVars, RowTypes, SlotInv, NoRuns,
     RowsRolledBack, NoStrandedRunning, Holds
<1>2. CASE TurnEcho(p)
  BY <1>2 DEF TurnEcho, Go, chatVars, ghostVars, RowTypes, SlotInv, NoRuns,
     RowsRolledBack, NoStrandedRunning, Holds
<1>3. CASE TurnEnd(p)
  BY <1>3 DEF TurnEnd, Go, chatVars, ghostVars, RowTypes, SlotInv, NoRuns,
     RowsRolledBack, NoStrandedRunning, Holds
<1>4. CASE TurnFlush(p)
  BY <1>4 DEF TurnFlush, Loop, ghostVars, RowTypes, SlotInv, NoRuns,
     RowsRolledBack, NoStrandedRunning, Holds
<1>5. CASE TurnStale(p)
  BY <1>5 DEF TurnStale, Go, Spend, RowTypes, SlotInv, NoRuns, RowsRolledBack,
     NoStrandedRunning, Holds
<1>6. CASE TurnReset(p)
  BY <1>6 DEF TurnReset, Loop, ResetPrompt, ghostVars, RowTypes, SlotInv,
     NoRuns, RowsRolledBack, NoStrandedRunning, Holds
<1>7. CASE DrainCheck(p)
  BY <1>7 DEF DrainCheck, Go, chatVars, ghostVars, RowTypes, SlotInv, NoRuns,
     RowsRolledBack, NoStrandedRunning, Holds
<1>8. CASE DrainPop(p)
  BY <1>8 DEF DrainPop, Go, GoWith, SetItem, Heads, Pending, ghostVars,
     RowTypes, SlotInv, NoRuns, RowsRolledBack, NoStrandedRunning, Holds
<1>9. CASE DrainRecheck(p)
  BY <1>9 DEF DrainRecheck, Go, Loop, SetItem, ghostVars, RowTypes, SlotInv,
     NoRuns, RowsRolledBack, NoStrandedRunning, Holds
<1>10. CASE DrainAdd(p)
  BY <1>10 DEF DrainAdd, Loop, InsertPrompt, SetItem, Spend, RowTypes,
     SlotInv, NoRuns, RowsRolledBack, NoStrandedRunning, Holds
<1>11. CASE DrainIngest(p)
  BY <1>11 DEF DrainIngest, Go, Loop, SetItem, ghostVars, RowTypes, SlotInv,
     NoRuns, RowsRolledBack, NoStrandedRunning, Holds
<1>12. CASE MarkDone(p)
  BY <1>12 DEF MarkDone, Go, SetItem, Spend, RowTypes, SlotInv, NoRuns,
     RowsRolledBack, NoStrandedRunning, Holds
<1>13. CASE ClearDispatching(p)
  BY <1>13 DEF ClearDispatching, Go, ReleaseTurn, Finish, Loop, chatVars,
     RowTypes, SlotInv, NoRuns, RowsRolledBack, NoStrandedRunning, Holds
<1>14. CASE ClearMode(p)
  BY <1>14 DEF ClearMode, Go, ReleaseTurn, Finish, Loop, chatVars, RowTypes,
     SlotInv, NoRuns, RowsRolledBack, NoStrandedRunning, Holds
<1>15. QED
  BY <1>1, <1>2, <1>3, <1>4, <1>5, <1>6, <1>7, <1>8, <1>9, <1>10, <1>11,
     <1>12, <1>13, <1>14 DEF TaskStep

\* Nor does a request, a guard or a fault that RowsRolledBack allows.
LEMMA EnvHolds ==
  ASSUME RowsRolledBack, RowTypes, CurInv, SlotInv, NoStrandedRunning,
         GuardClear \/ ClientStep \/ FaultStep
  PROVE  NoStrandedRunning'
<1>1. CASE GuardClear
  BY <1>1 DEF GuardClear, chatVars, procVars, RowTypes, SlotInv, NoRuns,
     RowsRolledBack, NoStrandedRunning, Holds
<1>2. ASSUME NEW p \in Procs, NEW m \in Msgs, SendMessage(p, m)
      PROVE  NoStrandedRunning'
  BY <1>2 DEF SendMessage, GoWith, chatVars, procVars, RowTypes, SlotInv,
     NoRuns, RowsRolledBack, NoStrandedRunning, Holds
<1>3. ASSUME NEW p \in Procs, NEW m \in Msgs, AddPrompt(p, m)
      PROVE  NoStrandedRunning'
  BY <1>3 DEF AddPrompt, RowTypes, SlotInv, NoRuns, RowsRolledBack,
     NoStrandedRunning, Holds
<1>4. ASSUME NEW p \in Procs, NEW m \in Msgs, DispatchItem(p, m)
      PROVE  NoStrandedRunning'
  BY <1>4 DEF DispatchItem, GoWith, chatVars, ghostVars, RowTypes, SlotInv,
     NoRuns, RowsRolledBack, NoStrandedRunning, Holds
<1>5. ASSUME NEW m \in Msgs, Enqueue(m)
      PROVE  NoStrandedRunning'
  BY <1>5 DEF Enqueue, EnqueueRow, procVars, RowTypes, SlotInv, NoRuns,
     RowsRolledBack, NoStrandedRunning, Holds
<1>6. ASSUME NEW m \in Msgs, Cancel(m)
      PROVE  NoStrandedRunning'
  BY <1>6 DEF Cancel, SetItem, procVars, RowTypes, SlotInv, NoRuns,
     RowsRolledBack, NoStrandedRunning, Holds
<1>7. ASSUME NEW p \in Procs,
                   NEW md \in {"auto", "manual"}, SetMode(p, md)
      PROVE  NoStrandedRunning'
  BY <1>7 DEF SetMode, Go, ghostVars, RowTypes, SlotInv, NoRuns,
     RowsRolledBack, NoStrandedRunning, Holds
<1>8. ASSUME NEW p \in Procs, RunNext(p)
      PROVE  NoStrandedRunning'
  BY <1>8 DEF RunNext, Go, chatVars, ghostVars, RowTypes, SlotInv, NoRuns,
     RowsRolledBack, NoStrandedRunning, Holds
<1>9. ASSUME NEW p \in Procs, RetryChat(p)
      PROVE  NoStrandedRunning'
  BY <1>9 DEF RetryChat, ResetPrompt, ghostVars, RowTypes, SlotInv, NoRuns,
     RowsRolledBack, NoStrandedRunning, Holds
<1>10. ASSUME NEW p \in Procs, StopTurn(p)
       PROVE  NoStrandedRunning'
  BY <1>10 DEF StopTurn, Go, chatVars, ghostVars, RowTypes, SlotInv, NoRuns,
     RowsRolledBack, NoStrandedRunning, Holds
<1>11. CASE DeleteChat
  BY <1>11 DEF DeleteChat, procVars, RowTypes, SlotInv, NoRuns,
     RowsRolledBack, NoStrandedRunning, Holds
<1>12. CASE RestoreChat
  BY <1>12 DEF RestoreChat, procVars, ghostVars, RowTypes, SlotInv, NoRuns,
     RowsRolledBack, NoStrandedRunning, Holds
<1>13. CASE Crash
  BY <1>13 DEF Crash, Spend, RowTypes, SlotInv, NoRuns, RowsRolledBack,
     NoStrandedRunning, Holds
<1>14. ASSUME NEW p \in Procs, Panic(p)
       PROVE  NoStrandedRunning'
  BY <1>14 DEF Panic, Finish, Loop, Spend, chatVars, RowTypes, SlotInv,
     NoRuns, RowsRolledBack, NoStrandedRunning, Holds
<1>15. ASSUME NEW p \in Procs, Disconnect(p)
       PROVE  NoStrandedRunning'
  BY <1>15 DEF Disconnect, Finish, Loop, Spend, chatVars, Handler, LockPCs,
     DecidePCs, CommitPCs, StopPCs, RowTypes, SlotInv, NoRuns, RowsRolledBack,
     NoStrandedRunning, Holds
<1>16. QED
  BY <1>1, <1>2, <1>3, <1>4, <1>5, <1>6, <1>7, <1>8, <1>9, <1>10, <1>11,
     <1>12, <1>13, <1>14, <1>15 DEF ClientStep, FaultStep

\* A running row always has the handler or task that will finish it or roll it
\* back, however drains, sends, clicks, cancels, stops and crashes interleave,
\* as long as none of the events RowsRolledBack names occurs.
THEOREM NeverStranded ==
  ASSUME RowsRolledBack
  PROVE  Spec => []NoStrandedRunning
<1>1. Init => NoStrandedRunning
  BY DEF Init, NoStrandedRunning
<1>2. /\ RowTypes /\ CurInv /\ SlotInv /\ NoStrandedRunning
      /\ [Next]_vars
      => NoStrandedRunning'
  <2>1. SUFFICES ASSUME RowTypes, CurInv, SlotInv, NoStrandedRunning,
                        [Next]_vars
                 PROVE  NoStrandedRunning'
    OBVIOUS
  <2>2. CASE Next
    BY <2>1, <2>2, RowsRolledBack, HandlerHolds, TaskHolds, EnvHolds DEF Next
  <2>3. CASE UNCHANGED vars
    BY <2>1, <2>3 DEF vars, chatVars, procVars, NoStrandedRunning, Holds
  <2>4. QED
    BY <2>1, <2>2, <2>3
<1>3. TypeOK => RowTypes
  BY ConstantsOK DEF TypeOK, StoreTypes, ProcTypes, HistoryTypes, RowTypes
<1>4. QED
  BY <1>1, <1>2, <1>3, TypeCorrect, SlotInvariant, PTL DEF Spec

-----------------------------------------------------------------------------
(* The flag and those who will clear it.                                   *)

\* Nothing happens to the handlers that have set the flag and not yet spawned
\* their task: SendCommit's early returns and a client that goes away drop the
\* handler without a guard, and the flag stays.
FlagKept ==
  \/ "send" \notin Requests /\ (NoRuns \/ "disconnect" \notin Faults)
  \/ Faults \cap {"db", "disconnect"} = {} /\ "delete" \notin Requests

\* A chat to which nobody sends has no handler of send_message.
NoSendInv ==
  "send" \notin Requests =>
    \A p \in Procs : pc[p] \notin {"sendIdle", "commit", "commitIngest"}

\* No step of a handler starts one.
LEMMA HandlerNoSend ==
  ASSUME ProcTypes, NoSendInv, NEW p \in Procs, HandlerStep(p)
  PROVE  NoSendInv'
<1>1. CASE SendBusy(p)
  BY <1>1 DEF SendBusy, Finish, Loop, ProcTypes, NoSendInv
<1>2. CASE SendDecide(p)
  BY <1>2 DEF SendDecide, Go, Claim, ProcTypes, NoSendInv
<1>3. CASE SendPark(p)
  BY <1>3 DEF SendPark, Go, ProcTypes, NoSendInv
<1>4. CASE SendParkMode(p)
  BY <1>4 DEF SendParkMode, Loop, Finish, Claim, ProcTypes, NoSendInv
<1>5. CASE SendCommit(p)
  BY <1>5 DEF SendCommit, Finish, InsertPrompt, Loop, ProcTypes, NoSendInv
<1>6. CASE SendIngest(p)
  BY <1>6 DEF SendIngest, Finish, SpawnTurn, Loop, ProcTypes, NoSendInv
<1>7. CASE LegacyIngest(p)
  BY <1>7 DEF LegacyIngest, Finish, SpawnTurn, Loop, ProcTypes, NoSendInv
<1>8. CASE Kick(p)
  BY <1>8 DEF Kick, Go, Finish, Loop, ProcTypes, NoSendInv
<1>9. CASE KickMode(p)
  BY <1>9 DEF KickMode, Go, Finish, Loop, ProcTypes, NoSendInv
<1>10. CASE KickPend(p)
  BY <1>10 DEF KickPend, Loop, Finish, Claim, ProcTypes, NoSendInv
<1>11. CASE RunPop(p)
  BY <1>11 DEF RunPop, GoWith, Finish, Loop, ProcTypes, NoSendInv
<1>12. CASE RunPick(p)
  BY <1>12 DEF RunPick, Go, Finish, Loop, ProcTypes, NoSendInv
<1>13. CASE RunAdd(p)
  BY <1>13 DEF RunAdd, Finish, InsertPrompt, Loop, ProcTypes, NoSendInv
<1>14. CASE RunIngest(p)
  BY <1>14 DEF RunIngest, Finish, SpawnTurn, Claim, Loop, ProcTypes, NoSendInv
<1>15. CASE RetryGo(p)
  BY <1>15 DEF RetryGo, Finish, SpawnTurn, Claim, Loop, ProcTypes, NoSendInv
<1>16. CASE StopTail(p)
  BY <1>16 DEF StopTail, Go, ProcTypes, NoSendInv
<1>17. CASE StopWrite(p)
  BY <1>17 DEF StopWrite, Finish, Loop, ProcTypes, NoSendInv
<1>18. CASE StopForce(p)
  BY <1>18 DEF StopForce, Go, Unclaim, ProcTypes, NoSendInv
<1>19. QED
  BY <1>1, <1>2, <1>3, <1>4, <1>5, <1>6, <1>7, <1>8, <1>9, <1>10, <1>11,
     <1>12, <1>13, <1>14, <1>15, <1>16, <1>17, <1>18 DEF HandlerStep

\* No step of a task does.
LEMMA TaskNoSend ==
  ASSUME ProcTypes, NoSendInv, NEW p \in Procs, TaskStep(p)
  PROVE  NoSendInv'
<1>1. CASE TurnStart(p)
  BY <1>1 DEF TurnStart, Go, ProcTypes, NoSendInv
<1>2. CASE TurnEcho(p)
  BY <1>2 DEF TurnEcho, Go, ProcTypes, NoSendInv
<1>3. CASE TurnEnd(p)
  BY <1>3 DEF TurnEnd, Go, ProcTypes, NoSendInv
<1>4. CASE TurnFlush(p)
  BY <1>4 DEF TurnFlush, Loop, ProcTypes, NoSendInv
<1>5. CASE TurnStale(p)
  BY <1>5 DEF TurnStale, Go, ProcTypes, NoSendInv
<1>6. CASE TurnReset(p)
  BY <1>6 DEF TurnReset, Loop, ResetPrompt, ProcTypes, NoSendInv
<1>7. CASE DrainCheck(p)
  BY <1>7 DEF DrainCheck, Go, ProcTypes, NoSendInv
<1>8. CASE DrainPop(p)
  BY <1>8 DEF DrainPop, Go, GoWith, ProcTypes, NoSendInv
<1>9. CASE DrainRecheck(p)
  BY <1>9 DEF DrainRecheck, Go, Loop, ProcTypes, NoSendInv
<1>10. CASE DrainAdd(p)
  BY <1>10 DEF DrainAdd, Loop, InsertPrompt, ProcTypes, NoSendInv
<1>11. CASE DrainIngest(p)
  BY <1>11 DEF DrainIngest, Go, Loop, ProcTypes, NoSendInv
<1>12. CASE MarkDone(p)
  BY <1>12 DEF MarkDone, Go, ProcTypes, NoSendInv
<1>13. CASE ClearDispatching(p)
  BY <1>13 DEF ClearDispatching, Go, ReleaseTurn, Unclaim, Finish, Loop,
     ProcTypes, NoSendInv
<1>14. CASE ClearMode(p)
  BY <1>14 DEF ClearMode, Go, ReleaseTurn, Unclaim, Finish, Loop, ProcTypes,
     NoSendInv
<1>15. QED
  BY <1>1, <1>2, <1>3, <1>4, <1>5, <1>6, <1>7, <1>8, <1>9, <1>10, <1>11,
     <1>12, <1>13, <1>14 DEF TaskStep

\* Nor does a request, a guard or a fault.
LEMMA EnvNoSend ==
  ASSUME ProcTypes, NoSendInv, GuardClear \/ ClientStep \/ FaultStep
  PROVE  NoSendInv'
<1>1. CASE GuardClear
  BY <1>1 DEF GuardClear, Unclaim, procVars, ProcTypes, NoSendInv
<1>2. ASSUME NEW p \in Procs, NEW m \in Msgs, SendMessage(p, m)
      PROVE  NoSendInv'
  BY <1>2 DEF SendMessage, GoWith, procVars, ProcTypes, NoSendInv
<1>3. ASSUME NEW p \in Procs, NEW m \in Msgs, AddPrompt(p, m)
      PROVE  NoSendInv'
  BY <1>3 DEF AddPrompt, ProcTypes, NoSendInv
<1>4. ASSUME NEW p \in Procs, NEW m \in Msgs, DispatchItem(p, m)
      PROVE  NoSendInv'
  BY <1>4 DEF DispatchItem, GoWith, ProcTypes, NoSendInv
<1>5. ASSUME NEW m \in Msgs, Enqueue(m)
      PROVE  NoSendInv'
  BY <1>5 DEF Enqueue, procVars, ProcTypes, NoSendInv
<1>6. ASSUME NEW m \in Msgs, Cancel(m)
      PROVE  NoSendInv'
  BY <1>6 DEF Cancel, procVars, ProcTypes, NoSendInv
<1>7. ASSUME NEW p \in Procs,
                   NEW md \in {"auto", "manual"}, SetMode(p, md)
      PROVE  NoSendInv'
  BY <1>7 DEF SetMode, Go, ProcTypes, NoSendInv
<1>8. ASSUME NEW p \in Procs, RunNext(p)
      PROVE  NoSendInv'
  BY <1>8 DEF RunNext, Go, ProcTypes, NoSendInv
<1>9. ASSUME NEW p \in Procs, RetryChat(p)
      PROVE  NoSendInv'
  BY <1>9 DEF RetryChat, ResetPrompt, ProcTypes, NoSendInv
<1>10. ASSUME NEW p \in Procs, StopTurn(p)
       PROVE  NoSendInv'
  BY <1>10 DEF StopTurn, Go, ProcTypes, NoSendInv
<1>11. CASE DeleteChat
  BY <1>11 DEF DeleteChat, procVars, ProcTypes, NoSendInv
<1>12. CASE RestoreChat
  BY <1>12 DEF RestoreChat, procVars, ProcTypes, NoSendInv
<1>13. CASE Crash
  BY <1>13 DEF Crash, ProcTypes, NoSendInv
<1>14. ASSUME NEW p \in Procs, Panic(p)
       PROVE  NoSendInv'
  BY <1>14 DEF Panic, Finish, Loop, ProcTypes, NoSendInv
<1>15. ASSUME NEW p \in Procs, Disconnect(p)
       PROVE  NoSendInv'
  BY <1>15 DEF Disconnect, Finish, Loop, ProcTypes, NoSendInv
<1>16. QED
  BY <1>1, <1>2, <1>3, <1>4, <1>5, <1>6, <1>7, <1>8, <1>9, <1>10, <1>11,
     <1>12, <1>13, <1>14, <1>15 DEF ClientStep, FaultStep

LEMMA NoSendInvariant == Spec => []NoSendInv
<1>1. Init => NoSendInv
  BY DEF Init, NoSendInv
<1>2. ProcTypes /\ NoSendInv /\ [Next]_vars => NoSendInv'
  <2>1. SUFFICES ASSUME ProcTypes, NoSendInv, [Next]_vars
                 PROVE  NoSendInv'
    OBVIOUS
  <2>2. CASE Next
    BY <2>1, <2>2, HandlerNoSend, TaskNoSend, EnvNoSend DEF Next
  <2>3. CASE UNCHANGED vars
    BY <2>1, <2>3 DEF vars, procVars, NoSendInv
  <2>4. QED
    BY <2>1, <2>2, <2>3
<1>3. TypeOK => ProcTypes
  BY DEF TypeOK
<1>4. QED
  BY <1>1, <1>2, <1>3, TypeCorrect, PTL DEF Spec

FlagTypes == ProcTypes /\ flag \in BOOLEAN /\ guards \in Nat
FlagInv == flag => (\E p \in Procs : pc[p] \in OwnerPCs) \/ guards > 0

\* No step of a handler leaves the flag with nobody to clear it.
LEMMA HandlerFlag ==
  ASSUME FlagKept, FlagTypes, SlotInv, NoSendInv, FlagInv, NEW p \in Procs,
         HandlerStep(p)
  PROVE  FlagInv'
<1>1. CASE SendBusy(p)
  BY <1>1 DEF SendBusy, Finish, Loop, FlagTypes, ProcTypes, FlagInv, OwnerPCs,
     TaskPCs, CommitPCs
<1>2. CASE SendDecide(p)
  BY <1>2 DEF SendDecide, Go, Claim, chatVars, FlagTypes, ProcTypes, FlagInv,
     OwnerPCs, TaskPCs, CommitPCs
<1>3. CASE SendPark(p)
  BY <1>3 DEF SendPark, Go, FlagTypes, ProcTypes, FlagInv, OwnerPCs, TaskPCs,
     CommitPCs
<1>4. CASE SendParkMode(p)
  BY <1>4 DEF SendParkMode, Loop, Finish, Claim, chatVars, FlagTypes,
     ProcTypes, FlagInv, OwnerPCs, TaskPCs, CommitPCs
<1>5. CASE SendCommit(p)
  BY <1>5 DEF SendCommit, Finish, InsertPrompt, Loop, Spend, FlagKept,
     SlotInv, NoSendInv, FlagTypes, ProcTypes, FlagInv, OwnerPCs, TaskPCs,
     CommitPCs
<1>6. CASE SendIngest(p)
  BY <1>6 DEF SendIngest, Finish, SpawnTurn, Loop, FlagKept, SlotInv,
     NoSendInv, FlagTypes, ProcTypes, FlagInv, OwnerPCs, TaskPCs, CommitPCs
<1>7. CASE LegacyIngest(p)
  BY <1>7 DEF LegacyIngest, Finish, SpawnTurn, Loop, FlagTypes, ProcTypes,
     FlagInv, OwnerPCs, TaskPCs, CommitPCs
<1>8. CASE Kick(p)
  BY <1>8 DEF Kick, Go, Finish, Loop, chatVars, ghostVars, FlagTypes,
     ProcTypes, FlagInv, OwnerPCs, TaskPCs, CommitPCs
<1>9. CASE KickMode(p)
  BY <1>9 DEF KickMode, Go, Finish, Loop, chatVars, ghostVars, FlagTypes,
     ProcTypes, FlagInv, OwnerPCs, TaskPCs, CommitPCs
<1>10. CASE KickPend(p)
  BY <1>10 DEF KickPend, Loop, Finish, Claim, chatVars, FlagTypes, ProcTypes,
     FlagInv, OwnerPCs, TaskPCs, CommitPCs
<1>11. CASE RunPop(p)
  BY <1>11 DEF RunPop, GoWith, Finish, Loop, ghostVars, FlagTypes, ProcTypes,
     FlagInv, OwnerPCs, TaskPCs, CommitPCs
<1>12. CASE RunPick(p)
  BY <1>12 DEF RunPick, Go, Finish, Loop, ghostVars, FlagTypes, ProcTypes,
     FlagInv, OwnerPCs, TaskPCs, CommitPCs
<1>13. CASE RunAdd(p)
  BY <1>13 DEF RunAdd, Finish, InsertPrompt, Loop, Spend, FlagTypes,
     ProcTypes, FlagInv, OwnerPCs, TaskPCs, CommitPCs
<1>14. CASE RunIngest(p)
  BY <1>14 DEF RunIngest, Finish, SpawnTurn, Claim, Loop, FlagTypes,
     ProcTypes, FlagInv, OwnerPCs, TaskPCs, CommitPCs
<1>15. CASE RetryGo(p)
  BY <1>15 DEF RetryGo, Finish, SpawnTurn, Claim, Loop, chatVars, FlagTypes,
     ProcTypes, FlagInv, OwnerPCs, TaskPCs, CommitPCs
<1>16. CASE StopTail(p)
  BY <1>16 DEF StopTail, Go, chatVars, ghostVars, FlagTypes, ProcTypes,
     FlagInv, OwnerPCs, TaskPCs, CommitPCs
<1>17. CASE StopWrite(p)
  BY <1>17 DEF StopWrite, Finish, Loop, ghostVars, FlagTypes, ProcTypes,
     FlagInv, OwnerPCs, TaskPCs, CommitPCs
<1>18. CASE StopForce(p)
  BY <1>18 DEF StopForce, Go, Unclaim, chatVars, FlagTypes, ProcTypes,
     FlagInv, OwnerPCs, TaskPCs, CommitPCs
<1>19. QED
  BY <1>1, <1>2, <1>3, <1>4, <1>5, <1>6, <1>7, <1>8, <1>9, <1>10, <1>11,
     <1>12, <1>13, <1>14, <1>15, <1>16, <1>17, <1>18 DEF HandlerStep

\* No step of a task does.
LEMMA TaskFlag ==
  ASSUME FlagKept, FlagTypes, SlotInv, NoSendInv, FlagInv, NEW p \in Procs,
         TaskStep(p)
  PROVE  FlagInv'
<1>1. CASE TurnStart(p)
  BY <1>1 DEF TurnStart, Go, chatVars, ghostVars, FlagTypes, ProcTypes,
     FlagInv, OwnerPCs, TaskPCs, CommitPCs
<1>2. CASE TurnEcho(p)
  BY <1>2 DEF TurnEcho, Go, chatVars, ghostVars, FlagTypes, ProcTypes,
     FlagInv, OwnerPCs, TaskPCs, CommitPCs
<1>3. CASE TurnEnd(p)
  BY <1>3 DEF TurnEnd, Go, chatVars, ghostVars, FlagTypes, ProcTypes, FlagInv,
     OwnerPCs, TaskPCs, CommitPCs
<1>4. CASE TurnFlush(p)
  BY <1>4 DEF TurnFlush, Loop, ghostVars, FlagTypes, ProcTypes, FlagInv,
     OwnerPCs, TaskPCs, CommitPCs
<1>5. CASE TurnStale(p)
  BY <1>5 DEF TurnStale, Go, Spend, FlagTypes, ProcTypes, FlagInv, OwnerPCs,
     TaskPCs, CommitPCs
<1>6. CASE TurnReset(p)
  BY <1>6 DEF TurnReset, Loop, ResetPrompt, ghostVars, FlagTypes, ProcTypes,
     FlagInv, OwnerPCs, TaskPCs, CommitPCs
<1>7. CASE DrainCheck(p)
  BY <1>7 DEF DrainCheck, Go, chatVars, ghostVars, FlagTypes, ProcTypes,
     FlagInv, OwnerPCs, TaskPCs, CommitPCs
<1>8. CASE DrainPop(p)
  BY <1>8 DEF DrainPop, Go, GoWith, ghostVars, FlagTypes, ProcTypes, FlagInv,
     OwnerPCs, TaskPCs, CommitPCs
<1>9. CASE DrainRecheck(p)
  BY <1>9 DEF DrainRecheck, Go, Loop, ghostVars, FlagTypes, ProcTypes,
     FlagInv, OwnerPCs, TaskPCs, CommitPCs
<1>10. CASE DrainAdd(p)
  BY <1>10 DEF DrainAdd, Loop, InsertPrompt, Spend, FlagTypes, ProcTypes,
     FlagInv, OwnerPCs, TaskPCs, CommitPCs
<1>11. CASE DrainIngest(p)
  BY <1>11 DEF DrainIngest, Go, Loop, ghostVars, FlagTypes, ProcTypes,
     FlagInv, OwnerPCs, TaskPCs, CommitPCs
<1>12. CASE MarkDone(p)
  BY <1>12 DEF MarkDone, Go, Spend, FlagTypes, ProcTypes, FlagInv, OwnerPCs,
     TaskPCs, CommitPCs
<1>13. CASE ClearDispatching(p)
  BY <1>13 DEF ClearDispatching, Go, ReleaseTurn, Unclaim, Finish, Loop,
     chatVars, FlagTypes, ProcTypes, FlagInv, OwnerPCs, TaskPCs, CommitPCs
<1>14. CASE ClearMode(p)
  BY <1>14 DEF ClearMode, Go, ReleaseTurn, Unclaim, Finish, Loop, chatVars,
     FlagTypes, ProcTypes, FlagInv, OwnerPCs, TaskPCs, CommitPCs
<1>15. QED
  BY <1>1, <1>2, <1>3, <1>4, <1>5, <1>6, <1>7, <1>8, <1>9, <1>10, <1>11,
     <1>12, <1>13, <1>14 DEF TaskStep

\* Nor does a request, a guard or a fault that FlagKept allows.
LEMMA EnvFlag ==
  ASSUME FlagKept, FlagTypes, SlotInv, NoSendInv, FlagInv, GuardClear \/
         ClientStep \/ FaultStep
  PROVE  FlagInv'
<1>1. CASE GuardClear
  BY <1>1 DEF GuardClear, Unclaim, chatVars, procVars, FlagTypes, ProcTypes,
     FlagInv, OwnerPCs, TaskPCs, CommitPCs
<1>2. ASSUME NEW p \in Procs, NEW m \in Msgs, SendMessage(p, m)
      PROVE  FlagInv'
  BY <1>2 DEF SendMessage, GoWith, chatVars, procVars, FlagTypes, ProcTypes,
     FlagInv, OwnerPCs, TaskPCs, CommitPCs
<1>3. ASSUME NEW p \in Procs, NEW m \in Msgs, AddPrompt(p, m)
      PROVE  FlagInv'
  BY <1>3 DEF AddPrompt, FlagTypes, ProcTypes, FlagInv, OwnerPCs, TaskPCs,
     CommitPCs
<1>4. ASSUME NEW p \in Procs, NEW m \in Msgs, DispatchItem(p, m)
      PROVE  FlagInv'
  BY <1>4 DEF DispatchItem, GoWith, chatVars, ghostVars, FlagTypes, ProcTypes,
     FlagInv, OwnerPCs, TaskPCs, CommitPCs
<1>5. ASSUME NEW m \in Msgs, Enqueue(m)
      PROVE  FlagInv'
  BY <1>5 DEF Enqueue, procVars, FlagTypes, ProcTypes, FlagInv, OwnerPCs,
     TaskPCs, CommitPCs
<1>6. ASSUME NEW m \in Msgs, Cancel(m)
      PROVE  FlagInv'
  BY <1>6 DEF Cancel, procVars, FlagTypes, ProcTypes, FlagInv, OwnerPCs,
     TaskPCs, CommitPCs
<1>7. ASSUME NEW p \in Procs,
                   NEW md \in {"auto", "manual"}, SetMode(p, md)
      PROVE  FlagInv'
  BY <1>7 DEF SetMode, Go, ghostVars, FlagTypes, ProcTypes, FlagInv, OwnerPCs,
     TaskPCs, CommitPCs
<1>8. ASSUME NEW p \in Procs, RunNext(p)
      PROVE  FlagInv'
  BY <1>8 DEF RunNext, Go, chatVars, ghostVars, FlagTypes, ProcTypes, FlagInv,
     OwnerPCs, TaskPCs, CommitPCs
<1>9. ASSUME NEW p \in Procs, RetryChat(p)
      PROVE  FlagInv'
  BY <1>9 DEF RetryChat, ResetPrompt, ghostVars, FlagTypes, ProcTypes,
     FlagInv, OwnerPCs, TaskPCs, CommitPCs
<1>10. ASSUME NEW p \in Procs, StopTurn(p)
       PROVE  FlagInv'
  BY <1>10 DEF StopTurn, Go, chatVars, ghostVars, FlagTypes, ProcTypes,
     FlagInv, OwnerPCs, TaskPCs, CommitPCs
<1>11. CASE DeleteChat
  BY <1>11 DEF DeleteChat, procVars, FlagTypes, ProcTypes, FlagInv, OwnerPCs,
     TaskPCs, CommitPCs
<1>12. CASE RestoreChat
  BY <1>12 DEF RestoreChat, procVars, ghostVars, FlagTypes, ProcTypes,
     FlagInv, OwnerPCs, TaskPCs, CommitPCs
<1>13. CASE Crash
  BY <1>13 DEF Crash, Spend, FlagTypes, ProcTypes, FlagInv, OwnerPCs, TaskPCs,
     CommitPCs
<1>14. ASSUME NEW p \in Procs, Panic(p)
       PROVE  FlagInv'
  BY <1>14 DEF Panic, Finish, Loop, Spend, chatVars, FlagTypes, ProcTypes,
     FlagInv, OwnerPCs, TaskPCs, CommitPCs
<1>15. ASSUME NEW p \in Procs, Disconnect(p)
       PROVE  FlagInv'
  BY <1>15 DEF Disconnect, Finish, Loop, Spend, chatVars, FlagKept, NoSendInv,
     SlotInv, Handler, LockPCs, DecidePCs, StopPCs, FlagTypes, ProcTypes,
     FlagInv, OwnerPCs, TaskPCs, CommitPCs
<1>16. QED
  BY <1>1, <1>2, <1>3, <1>4, <1>5, <1>6, <1>7, <1>8, <1>9, <1>10, <1>11,
     <1>12, <1>13, <1>14, <1>15 DEF ClientStep, FaultStep

\* A chat marked busy always has a handler, a task or a guard that will mark
\* it idle again, through panics, crashes, stops and stale sessions, unless a
\* handler is lost between setting the flag and spawning its task.
THEOREM NeverLeaked ==
  ASSUME FlagKept
  PROVE  Spec => []FlagNotLeaked
<1>1. Init => FlagInv
  BY DEF Init, FlagInv
<1>2. /\ FlagTypes /\ SlotInv /\ NoSendInv /\ FlagInv /\ [Next]_vars
      => FlagInv'
  <2>1. SUFFICES ASSUME FlagTypes, SlotInv, NoSendInv, FlagInv, [Next]_vars
                 PROVE  FlagInv'
    OBVIOUS
  <2>2. CASE Next
    BY <2>1, <2>2, FlagKept, HandlerFlag, TaskFlag, EnvFlag DEF Next
  <2>3. CASE UNCHANGED vars
    BY <2>1, <2>3 DEF vars, procVars, FlagInv
  <2>4. QED
    BY <2>1, <2>2, <2>3
<1>3. TypeOK => FlagTypes
  BY DEF TypeOK, BusyTypes, FlagTypes
<1>4. FlagInv => FlagNotLeaked
  BY DEF FlagInv, FlagNotLeaked, Owners, Owner
<1>5. QED
  BY <1>1, <1>2, <1>3, <1>4, TypeCorrect, SlotInvariant,
     NoSendInvariant, PTL DEF Spec

-----------------------------------------------------------------------------
(* How often a message becomes a prompt.                                   *)

\* The steps at which a message can still become a prompt: its sender has not
\* sent it, its row waits, or a slot has it in hand before the insert (or has
\* inserted it into a chat that has been deleted since, and will roll it back).
InsertPCs == {"sendBusy", "sendIdle", "park", "commit", "popped", "add",
              "runAdd"}
InHand(p, m) ==
  /\ cur[p] = m
  /\ pc[p] \in InsertPCs \/ (pc[p] = "ingest" /\ ~present)
Chance(m) ==
  reply[m] = "unsent" \/ item[m] = "pending" \/ \E p \in Procs : InHand(p, m)

\* A message that can still become a prompt has spent none of its one free
\* insert: every insert beyond the first was paid for by a fault.
CopyInv ==
  \A m \in Msgs : /\ Copies(m) <= 1 + disruptions
                  /\ Chance(m) => Copies(m) <= disruptions

\* A message that is committed to direct dispatch has no row.
CommitInv ==
  \A p \in Procs : pc[p] = "commit" =>
                      item[cur[p]] = "none" /\ reply[cur[p]] # "unsent"

CopyTypes ==
  /\ disruptions \in Nat
  /\ \A m \in Msgs : Copies(m) \in Nat
SameCopies == \A m \in Msgs : Copies(m)' = Copies(m)

LEMMA CopiesType ==
  ASSUME StoreTypes, NEW m
  PROVE  Copies(m) \in Nat
<1> DEFINE S == {i \in DOMAIN prompts : prompts[i].msg = m}
<1>1. IsFiniteSet(DOMAIN prompts)
  BY FS_Interval DEF StoreTypes
<1>2. IsFiniteSet(S)
  BY <1>1, FS_Subset
<1>3. QED
  BY <1>2, FS_CardinalityType DEF Copies

LEMMA SamePrompts ==
  ASSUME UNCHANGED prompts
  PROVE  SameCopies
BY DEF SameCopies, Copies

\* What keeps the message of every prompt keeps the copies of every message.
LEMMA SameMessages ==
  ASSUME DOMAIN prompts' = DOMAIN prompts,
         \A i \in DOMAIN prompts : prompts'[i].msg = prompts[i].msg
  PROVE  SameCopies
<1>1. ASSUME NEW m
      PROVE  {i \in DOMAIN prompts' : prompts'[i].msg = m}
               = {i \in DOMAIN prompts : prompts[i].msg = m}
  OBVIOUS
<1>2. QED
  BY <1>1 DEF SameCopies, Copies

LEMMA IngestCopies ==
  ASSUME StoreTypes, NEW p, IngestPrompt(p)
  PROVE  SameCopies
<1>1. prompts \in [1 .. Len(prompts) -> Prompt]
  BY DEF StoreTypes
<1>2. DOMAIN prompts' = DOMAIN prompts
  BY DEF IngestPrompt
<1>3. \A i \in DOMAIN prompts : prompts'[i].msg = prompts[i].msg
  BY <1>1 DEF IngestPrompt, Prompt
<1>4. QED
  BY <1>2, <1>3, SameMessages

LEMMA EventsCopies ==
  ASSUME StoreTypes, NEW i, NEW e,
         prompts' = [prompts EXCEPT ![i].events = e]
  PROVE  SameCopies
<1>1. prompts \in [1 .. Len(prompts) -> Prompt]
  BY DEF StoreTypes
<1>2. DOMAIN prompts' = DOMAIN prompts
  OBVIOUS
<1>3. \A j \in DOMAIN prompts : prompts'[j].msg = prompts[j].msg
  BY <1>1 DEF Prompt
<1>4. QED
  BY <1>2, <1>3, SameMessages

LEMMA CachedCopies ==
  ASSUME StoreTypes, NEW c,
         prompts' = [i \in DOMAIN prompts |-> [prompts[i] EXCEPT !.cached = c]]
  PROVE  SameCopies
<1>1. prompts \in [1 .. Len(prompts) -> Prompt]
  BY DEF StoreTypes
<1>2. DOMAIN prompts' = DOMAIN prompts
  OBVIOUS
<1>3. \A j \in DOMAIN prompts : prompts'[j].msg = prompts[j].msg
  BY <1>1 DEF Prompt
<1>4. QED
  BY <1>2, <1>3, SameMessages

\* A prompt inserted for m is one more copy of m, and of no other message.
LEMMA OneMoreCopy ==
  ASSUME StoreTypes, NEW m,
         prompts' = Append(prompts, [msg |-> m, events |-> "none", cached |-> FALSE])
  PROVE  /\ Copies(m)' = Copies(m) + 1
         /\ \A n : n # m => Copies(n)' = Copies(n)
<1> DEFINE S(n) == {i \in DOMAIN prompts : prompts[i].msg = n}
           T(n) == {i \in DOMAIN prompts' : prompts'[i].msg = n}
           k == Len(prompts) + 1
<1>1. /\ Len(prompts) \in Nat /\ DOMAIN prompts = 1 .. Len(prompts)
      /\ DOMAIN prompts' = 1 .. Len(prompts) + 1
      /\ \A i \in 1 .. Len(prompts) : prompts'[i] = prompts[i]
      /\ prompts'[Len(prompts) + 1].msg = m
  BY DEF StoreTypes
<1>2. T(m) = S(m) \cup {k} /\ k \notin S(m)
  BY <1>1
<1>3. ASSUME NEW n, n # m
      PROVE  T(n) = S(n)
  BY <1>1, <1>3
<1>4. IsFiniteSet(DOMAIN prompts)
  BY <1>1, FS_Interval
<1>5. IsFiniteSet(S(m))
  BY <1>4, FS_Subset
<1>6. Cardinality(T(m)) = Cardinality(S(m)) + 1
  BY <1>2, <1>5, FS_AddElement
<1>7. Copies(m) = Cardinality(S(m)) /\ Copies(m)' = Cardinality(T(m))
  BY DEF Copies
<1>8. ASSUME NEW n, n # m
      PROVE  Copies(n)' = Copies(n)
  BY <1>3, <1>8 DEF Copies
<1>9. QED
  BY <1>6, <1>7, <1>8

\* Three ways to keep the account: no new copy and no new chance; a fault paid
\* for; an insert that uses up the chance of its message.
LEMMA CopyQuiet ==
  ASSUME CopyTypes, CopyInv, SameCopies,
         disruptions' \in Nat, disruptions' >= disruptions,
         \A n \in Msgs : Chance(n)' => Chance(n)
  PROVE  CopyInv'
BY DEF CopyTypes, CopyInv, SameCopies

LEMMA CopyPaid ==
  ASSUME CopyTypes, CopyInv, SameCopies, disruptions' = disruptions + 1
  PROVE  CopyInv'
BY DEF CopyTypes, CopyInv, SameCopies

LEMMA CopyInsert ==
  ASSUME CopyTypes, CopyInv, StoreTypes, NEW m \in Msgs,
         prompts' = Append(prompts, [msg |-> m, events |-> "none", cached |-> FALSE]),
         disruptions' = disruptions,
         Chance(m), ~Chance(m)',
         \A n \in Msgs : Chance(n)' => Chance(n)
  PROVE  CopyInv'
<1>1. Copies(m)' = Copies(m) + 1
  BY OneMoreCopy
<1>2. \A n \in Msgs : n # m => Copies(n)' = Copies(n)
  BY OneMoreCopy
<1>3. \A n \in Msgs : n # m => (Copies(n)' <= 1 + disruptions'
                               /\ (Chance(n)' => Copies(n)' <= disruptions'))
  BY <1>2 DEF CopyInv, CopyTypes
<1>4. Copies(m)' <= 1 + disruptions'
  BY <1>1 DEF CopyInv, CopyTypes
<1>5. QED
  BY <1>3, <1>4 DEF CopyInv

\* Every step of a handler keeps them rowless.
LEMMA HandlerCommit ==
  ASSUME RowTypes, CurInv, LockInv, RowInv, CommitInv, NEW p \in Procs,
         HandlerStep(p)
  PROVE  CommitInv'
<1>1. CASE SendBusy(p)
  BY <1>1 DEF SendBusy, Finish, Reply, EnqueueRow, Loop, RowTypes, CurInv,
     CurPCs, RowInv, HeldRunning, SendInv, UnsentInv, Holds, LockInv, LockPCs,
     DecidePCs, CommitPCs, CommitInv
<1>2. CASE SendDecide(p)
  BY <1>2 DEF SendDecide, Go, chatVars, RowTypes, CurInv, CurPCs, RowInv,
     HeldRunning, SendInv, UnsentInv, Holds, LockInv, LockPCs, DecidePCs,
     CommitPCs, CommitInv
<1>3. CASE SendPark(p)
  BY <1>3 DEF SendPark, Go, Reply, EnqueueRow, RowTypes, CurInv, CurPCs,
     RowInv, HeldRunning, SendInv, UnsentInv, Holds, LockInv, LockPCs,
     DecidePCs, CommitPCs, CommitInv
<1>4. CASE SendParkMode(p)
  BY <1>4 DEF SendParkMode, Loop, Finish, chatVars, RowTypes, CurInv, CurPCs,
     RowInv, HeldRunning, SendInv, UnsentInv, Holds, LockInv, LockPCs,
     DecidePCs, CommitPCs, CommitInv
<1>5. CASE SendCommit(p)
  BY <1>5 DEF SendCommit, Finish, InsertPrompt, Reply, Loop, RowTypes, CurInv,
     CurPCs, RowInv, HeldRunning, SendInv, UnsentInv, Holds, LockInv, LockPCs,
     DecidePCs, CommitPCs, CommitInv
<1>6. CASE SendIngest(p)
  BY <1>6 DEF SendIngest, Finish, SpawnTurn, Reply, Loop, RowTypes, CurInv,
     CurPCs, RowInv, HeldRunning, SendInv, UnsentInv, Holds, LockInv, LockPCs,
     DecidePCs, CommitPCs, CommitInv
<1>7. CASE LegacyIngest(p)
  BY <1>7 DEF LegacyIngest, Finish, SpawnTurn, Reply, Loop, RowTypes, CurInv,
     CurPCs, RowInv, HeldRunning, SendInv, UnsentInv, Holds, LockInv, LockPCs,
     DecidePCs, CommitPCs, CommitInv
<1>8. CASE Kick(p)
  BY <1>8 DEF Kick, Go, Finish, Loop, chatVars, ghostVars, RowTypes, CurInv,
     CurPCs, RowInv, HeldRunning, SendInv, UnsentInv, Holds, LockInv, LockPCs,
     DecidePCs, CommitPCs, CommitInv
<1>9. CASE KickMode(p)
  BY <1>9 DEF KickMode, Go, Finish, Loop, chatVars, ghostVars, RowTypes,
     CurInv, CurPCs, RowInv, HeldRunning, SendInv, UnsentInv, Holds, LockInv,
     LockPCs, DecidePCs, CommitPCs, CommitInv
<1>10. CASE KickPend(p)
  BY <1>10 DEF KickPend, Loop, Finish, chatVars, RowTypes, CurInv, CurPCs,
     RowInv, HeldRunning, SendInv, UnsentInv, Holds, LockInv, LockPCs,
     DecidePCs, CommitPCs, CommitInv
<1>11. CASE RunPop(p)
  BY <1>11 DEF RunPop, GoWith, Finish, SetItem, Heads, Pending, Loop,
     ghostVars, RowTypes, CurInv, CurPCs, RowInv, HeldRunning, SendInv,
     UnsentInv, Holds, LockInv, LockPCs, DecidePCs, CommitPCs, CommitInv
<1>12. CASE RunPick(p)
  BY <1>12 DEF RunPick, Go, Finish, SetItem, Loop, ghostVars, RowTypes,
     CurInv, CurPCs, RowInv, HeldRunning, SendInv, UnsentInv, Holds, LockInv,
     LockPCs, DecidePCs, CommitPCs, CommitInv
<1>13. CASE RunAdd(p)
  BY <1>13 DEF RunAdd, Finish, InsertPrompt, Loop, RowTypes, CurInv, CurPCs,
     RowInv, HeldRunning, SendInv, UnsentInv, Holds, LockInv, LockPCs,
     DecidePCs, CommitPCs, CommitInv
<1>14. CASE RunIngest(p)
  BY <1>14 DEF RunIngest, Finish, SpawnTurn, Loop, RowTypes, CurInv, CurPCs,
     RowInv, HeldRunning, SendInv, UnsentInv, Holds, LockInv, LockPCs,
     DecidePCs, CommitPCs, CommitInv
<1>15. CASE RetryGo(p)
  BY <1>15 DEF RetryGo, Finish, SpawnTurn, Loop, chatVars, RowTypes, CurInv,
     CurPCs, RowInv, HeldRunning, SendInv, UnsentInv, Holds, LockInv, LockPCs,
     DecidePCs, CommitPCs, CommitInv
<1>16. CASE StopTail(p)
  BY <1>16 DEF StopTail, Go, chatVars, ghostVars, RowTypes, CurInv, CurPCs,
     RowInv, HeldRunning, SendInv, UnsentInv, Holds, LockInv, LockPCs,
     DecidePCs, CommitPCs, CommitInv
<1>17. CASE StopWrite(p)
  BY <1>17 DEF StopWrite, Finish, Loop, ghostVars, RowTypes, CurInv, CurPCs,
     RowInv, HeldRunning, SendInv, UnsentInv, Holds, LockInv, LockPCs,
     DecidePCs, CommitPCs, CommitInv
<1>18. CASE StopForce(p)
  BY <1>18 DEF StopForce, Go, chatVars, RowTypes, CurInv, CurPCs, RowInv,
     HeldRunning, SendInv, UnsentInv, Holds, LockInv, LockPCs, DecidePCs,
     CommitPCs, CommitInv
<1>19. QED
  BY <1>1, <1>2, <1>3, <1>4, <1>5, <1>6, <1>7, <1>8, <1>9, <1>10, <1>11,
     <1>12, <1>13, <1>14, <1>15, <1>16, <1>17, <1>18 DEF HandlerStep

\* Every step of a task does.
LEMMA TaskCommit ==
  ASSUME RowTypes, CurInv, LockInv, RowInv, CommitInv, NEW p \in Procs,
         TaskStep(p)
  PROVE  CommitInv'
<1>1. CASE TurnStart(p)
  BY <1>1 DEF TurnStart, Go, chatVars, ghostVars, RowTypes, CurInv, CurPCs,
     RowInv, HeldRunning, SendInv, UnsentInv, Holds, LockInv, LockPCs,
     DecidePCs, CommitPCs, CommitInv
<1>2. CASE TurnEcho(p)
  BY <1>2 DEF TurnEcho, Go, chatVars, ghostVars, RowTypes, CurInv, CurPCs,
     RowInv, HeldRunning, SendInv, UnsentInv, Holds, LockInv, LockPCs,
     DecidePCs, CommitPCs, CommitInv
<1>3. CASE TurnEnd(p)
  BY <1>3 DEF TurnEnd, Go, chatVars, ghostVars, RowTypes, CurInv, CurPCs,
     RowInv, HeldRunning, SendInv, UnsentInv, Holds, LockInv, LockPCs,
     DecidePCs, CommitPCs, CommitInv
<1>4. CASE TurnFlush(p)
  BY <1>4 DEF TurnFlush, Loop, ghostVars, RowTypes, CurInv, CurPCs, RowInv,
     HeldRunning, SendInv, UnsentInv, Holds, LockInv, LockPCs, DecidePCs,
     CommitPCs, CommitInv
<1>5. CASE TurnStale(p)
  BY <1>5 DEF TurnStale, Go, RowTypes, CurInv, CurPCs, RowInv, HeldRunning,
     SendInv, UnsentInv, Holds, LockInv, LockPCs, DecidePCs, CommitPCs,
     CommitInv
<1>6. CASE TurnReset(p)
  BY <1>6 DEF TurnReset, Loop, ResetPrompt, ghostVars, RowTypes, CurInv,
     CurPCs, RowInv, HeldRunning, SendInv, UnsentInv, Holds, LockInv, LockPCs,
     DecidePCs, CommitPCs, CommitInv
<1>7. CASE DrainCheck(p)
  BY <1>7 DEF DrainCheck, Go, chatVars, ghostVars, RowTypes, CurInv, CurPCs,
     RowInv, HeldRunning, SendInv, UnsentInv, Holds, LockInv, LockPCs,
     DecidePCs, CommitPCs, CommitInv
<1>8. CASE DrainPop(p)
  BY <1>8 DEF DrainPop, Go, GoWith, SetItem, Heads, Pending, ghostVars,
     RowTypes, CurInv, CurPCs, RowInv, HeldRunning, SendInv, UnsentInv, Holds,
     LockInv, LockPCs, DecidePCs, CommitPCs, CommitInv
<1>9. CASE DrainRecheck(p)
  BY <1>9 DEF DrainRecheck, Go, Loop, SetItem, ghostVars, RowTypes, CurInv,
     CurPCs, RowInv, HeldRunning, SendInv, UnsentInv, Holds, LockInv, LockPCs,
     DecidePCs, CommitPCs, CommitInv
<1>10. CASE DrainAdd(p)
  BY <1>10 DEF DrainAdd, Loop, InsertPrompt, SetItem, RowTypes, CurInv,
     CurPCs, RowInv, HeldRunning, SendInv, UnsentInv, Holds, LockInv, LockPCs,
     DecidePCs, CommitPCs, CommitInv
<1>11. CASE DrainIngest(p)
  BY <1>11 DEF DrainIngest, Go, Loop, SetItem, ghostVars, RowTypes, CurInv,
     CurPCs, RowInv, HeldRunning, SendInv, UnsentInv, Holds, LockInv, LockPCs,
     DecidePCs, CommitPCs, CommitInv
<1>12. CASE MarkDone(p)
  BY <1>12 DEF MarkDone, Go, SetItem, RowTypes, CurInv, CurPCs, RowInv,
     HeldRunning, SendInv, UnsentInv, Holds, LockInv, LockPCs, DecidePCs,
     CommitPCs, CommitInv
<1>13. CASE ClearDispatching(p)
  BY <1>13 DEF ClearDispatching, Go, ReleaseTurn, Finish, Loop, chatVars,
     RowTypes, CurInv, CurPCs, RowInv, HeldRunning, SendInv, UnsentInv, Holds,
     LockInv, LockPCs, DecidePCs, CommitPCs, CommitInv
<1>14. CASE ClearMode(p)
  BY <1>14 DEF ClearMode, Go, ReleaseTurn, Finish, Loop, chatVars, RowTypes,
     CurInv, CurPCs, RowInv, HeldRunning, SendInv, UnsentInv, Holds, LockInv,
     LockPCs, DecidePCs, CommitPCs, CommitInv
<1>15. QED
  BY <1>1, <1>2, <1>3, <1>4, <1>5, <1>6, <1>7, <1>8, <1>9, <1>10, <1>11,
     <1>12, <1>13, <1>14 DEF TaskStep

\* So do requests, guards and faults.
LEMMA EnvCommit ==
  ASSUME RowTypes, CurInv, LockInv, RowInv, CommitInv, GuardClear \/
         ClientStep \/ FaultStep
  PROVE  CommitInv'
<1>1. CASE GuardClear
  BY <1>1 DEF GuardClear, chatVars, procVars, RowTypes, CurInv, CurPCs,
     RowInv, HeldRunning, SendInv, UnsentInv, Holds, LockInv, LockPCs,
     DecidePCs, CommitPCs, CommitInv
<1>2. ASSUME NEW p \in Procs, NEW m \in Msgs, SendMessage(p, m)
      PROVE  CommitInv'
  BY <1>2 DEF SendMessage, GoWith, Reply, chatVars, procVars, RowTypes,
     CurInv, CurPCs, RowInv, HeldRunning, SendInv, UnsentInv, Holds, LockInv,
     LockPCs, DecidePCs, CommitPCs, CommitInv
<1>3. ASSUME NEW p \in Procs, NEW m \in Msgs, AddPrompt(p, m)
      PROVE  CommitInv'
  BY <1>3 DEF AddPrompt, Reply, RowTypes, CurInv, CurPCs, RowInv, HeldRunning,
     SendInv, UnsentInv, Holds, LockInv, LockPCs, DecidePCs, CommitPCs,
     CommitInv
<1>4. ASSUME NEW p \in Procs, NEW m \in Msgs, DispatchItem(p, m)
      PROVE  CommitInv'
  BY <1>4 DEF DispatchItem, GoWith, chatVars, ghostVars, RowTypes, CurInv,
     CurPCs, RowInv, HeldRunning, SendInv, UnsentInv, Holds, LockInv, LockPCs,
     DecidePCs, CommitPCs, CommitInv
<1>5. ASSUME NEW m \in Msgs, Enqueue(m)
      PROVE  CommitInv'
  BY <1>5 DEF Enqueue, Reply, EnqueueRow, procVars, RowTypes, CurInv, CurPCs,
     RowInv, HeldRunning, SendInv, UnsentInv, Holds, LockInv, LockPCs,
     DecidePCs, CommitPCs, CommitInv
<1>6. ASSUME NEW m \in Msgs, Cancel(m)
      PROVE  CommitInv'
  BY <1>6 DEF Cancel, Reply, SetItem, procVars, RowTypes, CurInv, CurPCs,
     RowInv, HeldRunning, SendInv, UnsentInv, Holds, LockInv, LockPCs,
     DecidePCs, CommitPCs, CommitInv
<1>7. ASSUME NEW p \in Procs,
                   NEW md \in {"auto", "manual"}, SetMode(p, md)
      PROVE  CommitInv'
  BY <1>7 DEF SetMode, Go, ghostVars, RowTypes, CurInv, CurPCs, RowInv,
     HeldRunning, SendInv, UnsentInv, Holds, LockInv, LockPCs, DecidePCs,
     CommitPCs, CommitInv
<1>8. ASSUME NEW p \in Procs, RunNext(p)
      PROVE  CommitInv'
  BY <1>8 DEF RunNext, Go, chatVars, ghostVars, RowTypes, CurInv, CurPCs,
     RowInv, HeldRunning, SendInv, UnsentInv, Holds, LockInv, LockPCs,
     DecidePCs, CommitPCs, CommitInv
<1>9. ASSUME NEW p \in Procs, RetryChat(p)
      PROVE  CommitInv'
  BY <1>9 DEF RetryChat, ResetPrompt, ghostVars, RowTypes, CurInv, CurPCs,
     RowInv, HeldRunning, SendInv, UnsentInv, Holds, LockInv, LockPCs,
     DecidePCs, CommitPCs, CommitInv
<1>10. ASSUME NEW p \in Procs, StopTurn(p)
       PROVE  CommitInv'
  BY <1>10 DEF StopTurn, Go, chatVars, ghostVars, RowTypes, CurInv, CurPCs,
     RowInv, HeldRunning, SendInv, UnsentInv, Holds, LockInv, LockPCs,
     DecidePCs, CommitPCs, CommitInv
<1>11. CASE DeleteChat
  BY <1>11 DEF DeleteChat, procVars, RowTypes, CurInv, CurPCs, RowInv,
     HeldRunning, SendInv, UnsentInv, Holds, LockInv, LockPCs, DecidePCs,
     CommitPCs, CommitInv
<1>12. CASE RestoreChat
  BY <1>12 DEF RestoreChat, procVars, ghostVars, RowTypes, CurInv, CurPCs,
     RowInv, HeldRunning, SendInv, UnsentInv, Holds, LockInv, LockPCs,
     DecidePCs, CommitPCs, CommitInv
<1>13. CASE Crash
  BY <1>13 DEF Crash, RowTypes, CurInv, CurPCs, RowInv, HeldRunning, SendInv,
     UnsentInv, Holds, LockInv, LockPCs, DecidePCs, CommitPCs, CommitInv
<1>14. ASSUME NEW p \in Procs, Panic(p)
       PROVE  CommitInv'
  BY <1>14 DEF Panic, Finish, Loop, chatVars, RowTypes, CurInv, CurPCs,
     RowInv, HeldRunning, SendInv, UnsentInv, Holds, LockInv, LockPCs,
     DecidePCs, CommitPCs, CommitInv
<1>15. ASSUME NEW p \in Procs, Disconnect(p)
       PROVE  CommitInv'
  BY <1>15 DEF Disconnect, Finish, Loop, chatVars, RowTypes, CurInv, CurPCs,
     RowInv, HeldRunning, SendInv, UnsentInv, Holds, LockInv, LockPCs,
     DecidePCs, CommitPCs, CommitInv
<1>16. QED
  BY <1>1, <1>2, <1>3, <1>4, <1>5, <1>6, <1>7, <1>8, <1>9, <1>10, <1>11,
     <1>12, <1>13, <1>14, <1>15 DEF ClientStep, FaultStep

LEMMA CommitInvariant == Spec => []CommitInv
<1>1. Init => CommitInv
  BY DEF Init, CommitInv
<1>2. RowTypes /\ CurInv /\ LockInv /\ RowInv /\ CommitInv /\ [Next]_vars
      => CommitInv'
  <2>1. SUFFICES ASSUME RowTypes, CurInv, LockInv, RowInv, CommitInv,
                        [Next]_vars
                 PROVE  CommitInv'
    OBVIOUS
  <2>2. CASE Next
    BY <2>1, <2>2, HandlerCommit, TaskCommit, EnvCommit DEF Next
  <2>3. CASE UNCHANGED vars
    BY <2>1, <2>3 DEF vars, chatVars, procVars, ghostVars, CommitInv
  <2>4. QED
    BY <2>1, <2>2, <2>3
<1>3. TypeOK => RowTypes
  BY ConstantsOK DEF TypeOK, StoreTypes, ProcTypes, HistoryTypes, RowTypes
<1>4. Control => LockInv
  BY DEF Control
<1>5. QED
  BY <1>1, <1>2, <1>3, <1>4, TypeCorrect, ControlInvariant, RowsInvariant,
     PTL DEF Spec

\* Every step of a handler keeps the account of copies.
LEMMA HandlerCopies ==
  ASSUME RowTypes, StoreTypes, CopyTypes, CurInv, LockInv, RowInv, CommitInv,
         CopyInv, NEW p \in Procs, HandlerStep(p)
  PROVE  CopyInv'
<1>1. CASE SendBusy(p)
  <2>1. \A n \in Msgs : Chance(n)' => Chance(n)
    BY <1>1 DEF SendBusy, Finish, Reply, EnqueueRow, Loop, RowTypes, CurInv,
       CurPCs, Chance, InHand, InsertPCs, Spend
  <2>2. SameCopies
    BY <1>1, SamePrompts DEF SendBusy, Finish, Reply, EnqueueRow, Loop
  <2>3. disruptions' \in Nat /\ disruptions' >= disruptions
    BY <1>1 DEF SendBusy, Finish, Reply, EnqueueRow, Loop, Spend, CopyTypes
  <2>4. QED
    BY <2>1, <2>2, <2>3, CopyQuiet
<1>2. CASE SendDecide(p)
  <2>1. \A n \in Msgs : Chance(n)' => Chance(n)
    BY <1>2 DEF SendDecide, Go, chatVars, RowTypes, CurInv, CurPCs, Chance,
       InHand, InsertPCs, Spend
  <2>2. SameCopies
    BY <1>2, SamePrompts DEF SendDecide, Go, chatVars
  <2>3. disruptions' \in Nat /\ disruptions' >= disruptions
    BY <1>2 DEF SendDecide, Go, chatVars, Spend, CopyTypes
  <2>4. QED
    BY <2>1, <2>2, <2>3, CopyQuiet
<1>3. CASE SendPark(p)
  <2>1. \A n \in Msgs : Chance(n)' => Chance(n)
    BY <1>3 DEF SendPark, Go, Reply, EnqueueRow, RowTypes, CurInv, CurPCs,
       Chance, InHand, InsertPCs, Spend
  <2>2. SameCopies
    BY <1>3, SamePrompts DEF SendPark, Go, Reply, EnqueueRow
  <2>3. disruptions' \in Nat /\ disruptions' >= disruptions
    BY <1>3 DEF SendPark, Go, Reply, EnqueueRow, Spend, CopyTypes
  <2>4. QED
    BY <2>1, <2>2, <2>3, CopyQuiet
<1>4. CASE SendParkMode(p)
  <2>1. \A n \in Msgs : Chance(n)' => Chance(n)
    BY <1>4 DEF SendParkMode, Loop, Finish, chatVars, RowTypes, CurInv,
       CurPCs, Chance, InHand, InsertPCs, Spend
  <2>2. SameCopies
    BY <1>4, SamePrompts DEF SendParkMode, Loop, Finish, chatVars
  <2>3. disruptions' \in Nat /\ disruptions' >= disruptions
    BY <1>4 DEF SendParkMode, Loop, Finish, chatVars, Spend, CopyTypes
  <2>4. QED
    BY <2>1, <2>2, <2>3, CopyQuiet
<1>5. CASE SendCommit(p)
  <2>1. cur[p] \in Msgs
    BY <1>5 DEF SendCommit, CurInv, CurPCs
  <2>2. \A n \in Msgs : Chance(n)' => Chance(n)
    BY <1>5, <2>1 DEF SendCommit, Finish, InsertPrompt, Reply, Loop, Spend,
       RowTypes, CurInv, CurPCs, Chance, InHand, InsertPCs
  <2>3. CASE present /\ InsertPrompt(p, cur[p], "commitIngest") /\ UNCHANGED disruptions
    <3>1. Chance(cur[p])
      BY <1>5 DEF SendCommit, CurInv, CurPCs, Chance, InHand, InsertPCs
    <3>2. ~Chance(cur[p])'
      BY <1>5, <2>1, <2>3 DEF SendCommit, InsertPrompt, RowTypes, CurInv,
         CurPCs, Chance, InHand, InsertPCs, RowInv, HeldRunning, NoDoublePop,
         SendInv, UnsentInv, Holds, LockInv, LockPCs, DecidePCs, CommitPCs,
         CommitInv
    <3>3. QED
      BY <2>1, <2>2, <2>3, <3>1, <3>2, CopyInsert DEF InsertPrompt
  <2>4. CASE UNCHANGED prompts
    <3>1. disruptions' \in Nat /\ disruptions' >= disruptions
      BY <1>5 DEF SendCommit, Spend, CopyTypes
    <3>2. QED
      BY <2>2, <2>4, <3>1, SamePrompts, CopyQuiet
  <2>5. QED
    BY <1>5, <2>3, <2>4 DEF SendCommit
<1>6. CASE SendIngest(p)
  <2>1. \A n \in Msgs : Chance(n)' => Chance(n)
    BY <1>6 DEF SendIngest, Finish, SpawnTurn, Reply, Loop, RowTypes, CurInv,
       CurPCs, Chance, InHand, InsertPCs, Spend
  <2>2. SameCopies
    BY <1>6, IngestCopies, SamePrompts DEF SendIngest, Finish, SpawnTurn,
       Reply, Loop
  <2>3. disruptions' \in Nat /\ disruptions' >= disruptions
    BY <1>6 DEF SendIngest, Finish, SpawnTurn, Reply, Loop, Spend, CopyTypes
  <2>4. QED
    BY <2>1, <2>2, <2>3, CopyQuiet
<1>7. CASE LegacyIngest(p)
  <2>1. \A n \in Msgs : Chance(n)' => Chance(n)
    BY <1>7 DEF LegacyIngest, Finish, SpawnTurn, Reply, Loop, RowTypes,
       CurInv, CurPCs, Chance, InHand, InsertPCs, Spend
  <2>2. SameCopies
    BY <1>7, IngestCopies, SamePrompts DEF LegacyIngest, Finish, SpawnTurn,
       Reply, Loop
  <2>3. disruptions' \in Nat /\ disruptions' >= disruptions
    BY <1>7 DEF LegacyIngest, Finish, SpawnTurn, Reply, Loop, Spend, CopyTypes
  <2>4. QED
    BY <2>1, <2>2, <2>3, CopyQuiet
<1>8. CASE Kick(p)
  <2>1. \A n \in Msgs : Chance(n)' => Chance(n)
    BY <1>8 DEF Kick, Go, Finish, Loop, chatVars, ghostVars, RowTypes, CurInv,
       CurPCs, Chance, InHand, InsertPCs, Spend
  <2>2. SameCopies
    BY <1>8, SamePrompts DEF Kick, Go, Finish, Loop, chatVars, ghostVars
  <2>3. disruptions' \in Nat /\ disruptions' >= disruptions
    BY <1>8 DEF Kick, Go, Finish, Loop, chatVars, ghostVars, Spend, CopyTypes
  <2>4. QED
    BY <2>1, <2>2, <2>3, CopyQuiet
<1>9. CASE KickMode(p)
  <2>1. \A n \in Msgs : Chance(n)' => Chance(n)
    BY <1>9 DEF KickMode, Go, Finish, Loop, chatVars, ghostVars, RowTypes,
       CurInv, CurPCs, Chance, InHand, InsertPCs, Spend
  <2>2. SameCopies
    BY <1>9, SamePrompts DEF KickMode, Go, Finish, Loop, chatVars, ghostVars
  <2>3. disruptions' \in Nat /\ disruptions' >= disruptions
    BY <1>9 DEF KickMode, Go, Finish, Loop, chatVars, ghostVars, Spend,
       CopyTypes
  <2>4. QED
    BY <2>1, <2>2, <2>3, CopyQuiet
<1>10. CASE KickPend(p)
  <2>1. \A n \in Msgs : Chance(n)' => Chance(n)
    BY <1>10 DEF KickPend, Loop, Finish, chatVars, RowTypes, CurInv, CurPCs,
       Chance, InHand, InsertPCs, Spend
  <2>2. SameCopies
    BY <1>10, SamePrompts DEF KickPend, Loop, Finish, chatVars
  <2>3. disruptions' \in Nat /\ disruptions' >= disruptions
    BY <1>10 DEF KickPend, Loop, Finish, chatVars, Spend, CopyTypes
  <2>4. QED
    BY <2>1, <2>2, <2>3, CopyQuiet
<1>11. CASE RunPop(p)
  <2>1. \A n \in Msgs : Chance(n)' => Chance(n)
    BY <1>11 DEF RunPop, GoWith, Finish, SetItem, Heads, Pending, Loop,
       ghostVars, RowTypes, CurInv, CurPCs, Chance, InHand, InsertPCs, Spend
  <2>2. SameCopies
    BY <1>11, SamePrompts DEF RunPop, GoWith, Finish, SetItem, Heads, Pending,
       Loop, ghostVars
  <2>3. disruptions' \in Nat /\ disruptions' >= disruptions
    BY <1>11 DEF RunPop, GoWith, Finish, SetItem, Heads, Pending, Loop,
       ghostVars, Spend, CopyTypes
  <2>4. QED
    BY <2>1, <2>2, <2>3, CopyQuiet
<1>12. CASE RunPick(p)
  <2>1. \A n \in Msgs : Chance(n)' => Chance(n)
    BY <1>12 DEF RunPick, Go, Finish, SetItem, Loop, ghostVars, RowTypes,
       CurInv, CurPCs, Chance, InHand, InsertPCs, Spend
  <2>2. SameCopies
    BY <1>12, SamePrompts DEF RunPick, Go, Finish, SetItem, Loop, ghostVars
  <2>3. disruptions' \in Nat /\ disruptions' >= disruptions
    BY <1>12 DEF RunPick, Go, Finish, SetItem, Loop, ghostVars, Spend,
       CopyTypes
  <2>4. QED
    BY <2>1, <2>2, <2>3, CopyQuiet
<1>13. CASE RunAdd(p)
  <2>1. cur[p] \in Msgs
    BY <1>13 DEF RunAdd, CurInv, CurPCs
  <2>2. \A n \in Msgs : Chance(n)' => Chance(n)
    BY <1>13, <2>1 DEF RunAdd, Finish, InsertPrompt, Loop, Spend, RowTypes,
       CurInv, CurPCs, Chance, InHand, InsertPCs
  <2>3. CASE present /\ InsertPrompt(p, cur[p], "runIngest") /\ UNCHANGED disruptions
    <3>1. Chance(cur[p])
      BY <1>13 DEF RunAdd, CurInv, CurPCs, Chance, InHand, InsertPCs
    <3>2. ~Chance(cur[p])'
      BY <1>13, <2>1, <2>3 DEF RunAdd, InsertPrompt, RowTypes, CurInv, CurPCs,
         Chance, InHand, InsertPCs, RowInv, HeldRunning, NoDoublePop, SendInv,
         UnsentInv, Holds, LockInv, LockPCs, DecidePCs, CommitPCs, CommitInv
    <3>3. QED
      BY <2>1, <2>2, <2>3, <3>1, <3>2, CopyInsert DEF InsertPrompt
  <2>4. CASE UNCHANGED prompts
    <3>1. disruptions' \in Nat /\ disruptions' >= disruptions
      BY <1>13 DEF RunAdd, Spend, CopyTypes
    <3>2. QED
      BY <2>2, <2>4, <3>1, SamePrompts, CopyQuiet
  <2>5. QED
    BY <1>13, <2>3, <2>4 DEF RunAdd
<1>14. CASE RunIngest(p)
  <2>1. \A n \in Msgs : Chance(n)' => Chance(n)
    BY <1>14 DEF RunIngest, Finish, SpawnTurn, Loop, RowTypes, CurInv, CurPCs,
       Chance, InHand, InsertPCs, Spend
  <2>2. SameCopies
    BY <1>14, IngestCopies, SamePrompts DEF RunIngest, Finish, SpawnTurn, Loop
  <2>3. disruptions' \in Nat /\ disruptions' >= disruptions
    BY <1>14 DEF RunIngest, Finish, SpawnTurn, Loop, Spend, CopyTypes
  <2>4. QED
    BY <2>1, <2>2, <2>3, CopyQuiet
<1>15. CASE RetryGo(p)
  <2>1. \A n \in Msgs : Chance(n)' => Chance(n)
    BY <1>15 DEF RetryGo, Finish, SpawnTurn, Loop, chatVars, RowTypes, CurInv,
       CurPCs, Chance, InHand, InsertPCs, Spend
  <2>2. SameCopies
    BY <1>15, SamePrompts DEF RetryGo, Finish, SpawnTurn, Loop, chatVars
  <2>3. disruptions' \in Nat /\ disruptions' >= disruptions
    BY <1>15 DEF RetryGo, Finish, SpawnTurn, Loop, chatVars, Spend, CopyTypes
  <2>4. QED
    BY <2>1, <2>2, <2>3, CopyQuiet
<1>16. CASE StopTail(p)
  <2>1. \A n \in Msgs : Chance(n)' => Chance(n)
    BY <1>16 DEF StopTail, Go, chatVars, ghostVars, RowTypes, CurInv, CurPCs,
       Chance, InHand, InsertPCs, Spend
  <2>2. SameCopies
    BY <1>16, SamePrompts DEF StopTail, Go, chatVars, ghostVars
  <2>3. disruptions' \in Nat /\ disruptions' >= disruptions
    BY <1>16 DEF StopTail, Go, chatVars, ghostVars, Spend, CopyTypes
  <2>4. QED
    BY <2>1, <2>2, <2>3, CopyQuiet
<1>17. CASE StopWrite(p)
  <2>1. \A n \in Msgs : Chance(n)' => Chance(n)
    BY <1>17 DEF StopWrite, Finish, Loop, ghostVars, RowTypes, CurInv, CurPCs,
       Chance, InHand, InsertPCs, Spend
  <2>2. SameCopies
    BY <1>17, EventsCopies DEF StopWrite, Finish, Loop, ghostVars, Flushed
  <2>3. disruptions' \in Nat /\ disruptions' >= disruptions
    BY <1>17 DEF StopWrite, Finish, Loop, ghostVars, Spend, CopyTypes
  <2>4. QED
    BY <2>1, <2>2, <2>3, CopyQuiet
<1>18. CASE StopForce(p)
  <2>1. \A n \in Msgs : Chance(n)' => Chance(n)
    BY <1>18 DEF StopForce, Go, chatVars, RowTypes, CurInv, CurPCs, Chance,
       InHand, InsertPCs, Spend
  <2>2. SameCopies
    BY <1>18, SamePrompts DEF StopForce, Go, chatVars
  <2>3. disruptions' \in Nat /\ disruptions' >= disruptions
    BY <1>18 DEF StopForce, Go, chatVars, Spend, CopyTypes
  <2>4. QED
    BY <2>1, <2>2, <2>3, CopyQuiet
<1>19. QED
  BY <1>1, <1>2, <1>3, <1>4, <1>5, <1>6, <1>7, <1>8, <1>9, <1>10, <1>11,
     <1>12, <1>13, <1>14, <1>15, <1>16, <1>17, <1>18 DEF HandlerStep

\* Every step of a task does.
LEMMA TaskCopies ==
  ASSUME RowTypes, StoreTypes, CopyTypes, CurInv, LockInv, RowInv, CommitInv,
         CopyInv, NEW p \in Procs, TaskStep(p)
  PROVE  CopyInv'
<1>1. CASE TurnStart(p)
  <2>1. \A n \in Msgs : Chance(n)' => Chance(n)
    BY <1>1 DEF TurnStart, Go, chatVars, ghostVars, RowTypes, CurInv, CurPCs,
       Chance, InHand, InsertPCs, Spend
  <2>2. SameCopies
    BY <1>1, SamePrompts DEF TurnStart, Go, chatVars, ghostVars
  <2>3. disruptions' \in Nat /\ disruptions' >= disruptions
    BY <1>1 DEF TurnStart, Go, chatVars, ghostVars, Spend, CopyTypes
  <2>4. QED
    BY <2>1, <2>2, <2>3, CopyQuiet
<1>2. CASE TurnEcho(p)
  <2>1. \A n \in Msgs : Chance(n)' => Chance(n)
    BY <1>2 DEF TurnEcho, Go, chatVars, ghostVars, RowTypes, CurInv, CurPCs,
       Chance, InHand, InsertPCs, Spend
  <2>2. SameCopies
    BY <1>2, SamePrompts DEF TurnEcho, Go, chatVars, ghostVars
  <2>3. disruptions' \in Nat /\ disruptions' >= disruptions
    BY <1>2 DEF TurnEcho, Go, chatVars, ghostVars, Spend, CopyTypes
  <2>4. QED
    BY <2>1, <2>2, <2>3, CopyQuiet
<1>3. CASE TurnEnd(p)
  <2>1. \A n \in Msgs : Chance(n)' => Chance(n)
    BY <1>3 DEF TurnEnd, Go, chatVars, ghostVars, RowTypes, CurInv, CurPCs,
       Chance, InHand, InsertPCs, Spend
  <2>2. SameCopies
    BY <1>3, SamePrompts DEF TurnEnd, Go, chatVars, ghostVars
  <2>3. disruptions' \in Nat /\ disruptions' >= disruptions
    BY <1>3 DEF TurnEnd, Go, chatVars, ghostVars, Spend, CopyTypes
  <2>4. QED
    BY <2>1, <2>2, <2>3, CopyQuiet
<1>4. CASE TurnFlush(p)
  <2>1. \A n \in Msgs : Chance(n)' => Chance(n)
    BY <1>4 DEF TurnFlush, Loop, ghostVars, RowTypes, CurInv, CurPCs, Chance,
       InHand, InsertPCs, Spend
  <2>2. SameCopies
    BY <1>4, EventsCopies, SamePrompts DEF TurnFlush, Loop, ghostVars, Flushed
  <2>3. disruptions' \in Nat /\ disruptions' >= disruptions
    BY <1>4 DEF TurnFlush, Loop, ghostVars, Spend, CopyTypes
  <2>4. QED
    BY <2>1, <2>2, <2>3, CopyQuiet
<1>5. CASE TurnStale(p)
  <2>1. \A n \in Msgs : Chance(n)' => Chance(n)
    BY <1>5 DEF TurnStale, Go, Spend, RowTypes, CurInv, CurPCs, Chance,
       InHand, InsertPCs
  <2>2. SameCopies
    BY <1>5, EventsCopies, SamePrompts DEF TurnStale, Go, Spend, Flushed
  <2>3. disruptions' \in Nat /\ disruptions' >= disruptions
    BY <1>5 DEF TurnStale, Go, Spend, CopyTypes
  <2>4. QED
    BY <2>1, <2>2, <2>3, CopyQuiet
<1>6. CASE TurnReset(p)
  <2>1. \A n \in Msgs : Chance(n)' => Chance(n)
    BY <1>6 DEF TurnReset, Loop, ResetPrompt, ghostVars, RowTypes, CurInv,
       CurPCs, Chance, InHand, InsertPCs, Spend
  <2>2. SameCopies
    BY <1>6, EventsCopies, SamePrompts DEF TurnReset, Loop, ResetPrompt,
       ghostVars, Flushed
  <2>3. disruptions' \in Nat /\ disruptions' >= disruptions
    BY <1>6 DEF TurnReset, Loop, ResetPrompt, ghostVars, Spend, CopyTypes
  <2>4. QED
    BY <2>1, <2>2, <2>3, CopyQuiet
<1>7. CASE DrainCheck(p)
  <2>1. \A n \in Msgs : Chance(n)' => Chance(n)
    BY <1>7 DEF DrainCheck, Go, chatVars, ghostVars, RowTypes, CurInv, CurPCs,
       Chance, InHand, InsertPCs, Spend
  <2>2. SameCopies
    BY <1>7, SamePrompts DEF DrainCheck, Go, chatVars, ghostVars
  <2>3. disruptions' \in Nat /\ disruptions' >= disruptions
    BY <1>7 DEF DrainCheck, Go, chatVars, ghostVars, Spend, CopyTypes
  <2>4. QED
    BY <2>1, <2>2, <2>3, CopyQuiet
<1>8. CASE DrainPop(p)
  <2>1. \A n \in Msgs : Chance(n)' => Chance(n)
    BY <1>8 DEF DrainPop, Go, GoWith, SetItem, Heads, Pending, ghostVars,
       RowTypes, CurInv, CurPCs, Chance, InHand, InsertPCs, Spend
  <2>2. SameCopies
    BY <1>8, SamePrompts DEF DrainPop, Go, GoWith, SetItem, Heads, Pending,
       ghostVars
  <2>3. disruptions' \in Nat /\ disruptions' >= disruptions
    BY <1>8 DEF DrainPop, Go, GoWith, SetItem, Heads, Pending, ghostVars,
       Spend, CopyTypes
  <2>4. QED
    BY <2>1, <2>2, <2>3, CopyQuiet
<1>9. CASE DrainRecheck(p)
  <2>1. \A n \in Msgs : Chance(n)' => Chance(n)
    BY <1>9 DEF DrainRecheck, Go, Loop, SetItem, ghostVars, RowInv,
       HeldRunning, Holds, RowTypes, CurInv, CurPCs, Chance, InHand,
       InsertPCs, Spend
  <2>2. SameCopies
    BY <1>9, SamePrompts DEF DrainRecheck, Go, Loop, SetItem, ghostVars
  <2>3. disruptions' \in Nat /\ disruptions' >= disruptions
    BY <1>9 DEF DrainRecheck, Go, Loop, SetItem, ghostVars, Spend, CopyTypes
  <2>4. QED
    BY <2>1, <2>2, <2>3, CopyQuiet
<1>10. CASE DrainAdd(p)
  <2>1. cur[p] \in Msgs
    BY <1>10 DEF DrainAdd, CurInv, CurPCs
  <2>2. \A n \in Msgs : Chance(n)' => Chance(n)
    BY <1>10, <2>1 DEF DrainAdd, Loop, InsertPrompt, SetItem, Spend, RowTypes,
       CurInv, CurPCs, Chance, InHand, InsertPCs
  <2>3. CASE present /\ InsertPrompt(p, cur[p], "ingest") /\ UNCHANGED disruptions
    <3>1. Chance(cur[p])
      BY <1>10 DEF DrainAdd, CurInv, CurPCs, Chance, InHand, InsertPCs
    <3>2. ~Chance(cur[p])'
      BY <1>10, <2>1, <2>3 DEF DrainAdd, InsertPrompt, RowTypes, CurInv,
         CurPCs, Chance, InHand, InsertPCs, RowInv, HeldRunning, NoDoublePop,
         SendInv, UnsentInv, Holds, LockInv, LockPCs, DecidePCs, CommitPCs,
         CommitInv
    <3>3. QED
      BY <2>1, <2>2, <2>3, <3>1, <3>2, CopyInsert DEF InsertPrompt
  <2>4. CASE UNCHANGED prompts
    <3>1. disruptions' \in Nat /\ disruptions' >= disruptions
      BY <1>10 DEF DrainAdd, Spend, CopyTypes
    <3>2. QED
      BY <2>2, <2>4, <3>1, SamePrompts, CopyQuiet
  <2>5. QED
    BY <1>10, <2>3, <2>4 DEF DrainAdd
<1>11. CASE DrainIngest(p)
  <2>1. \A n \in Msgs : Chance(n)' => Chance(n)
    BY <1>11 DEF DrainIngest, Go, Loop, SetItem, ghostVars, RowInv,
       HeldRunning, Holds, RowTypes, CurInv, CurPCs, Chance, InHand,
       InsertPCs, Spend
  <2>2. SameCopies
    BY <1>11, IngestCopies, SamePrompts DEF DrainIngest, Go, Loop, SetItem,
       ghostVars
  <2>3. disruptions' \in Nat /\ disruptions' >= disruptions
    BY <1>11 DEF DrainIngest, Go, Loop, SetItem, ghostVars, Spend, CopyTypes
  <2>4. QED
    BY <2>1, <2>2, <2>3, CopyQuiet
<1>12. CASE MarkDone(p)
  <2>1. \A n \in Msgs : Chance(n)' => Chance(n)
    BY <1>12 DEF MarkDone, Go, SetItem, Spend, RowInv, HeldRunning, Holds,
       RowTypes, CurInv, CurPCs, Chance, InHand, InsertPCs
  <2>2. SameCopies
    BY <1>12, SamePrompts DEF MarkDone, Go, SetItem, Spend
  <2>3. disruptions' \in Nat /\ disruptions' >= disruptions
    BY <1>12 DEF MarkDone, Go, SetItem, Spend, CopyTypes
  <2>4. QED
    BY <2>1, <2>2, <2>3, CopyQuiet
<1>13. CASE ClearDispatching(p)
  <2>1. \A n \in Msgs : Chance(n)' => Chance(n)
    BY <1>13 DEF ClearDispatching, Go, ReleaseTurn, Finish, Loop, chatVars,
       RowTypes, CurInv, CurPCs, Chance, InHand, InsertPCs, Spend
  <2>2. SameCopies
    BY <1>13, SamePrompts DEF ClearDispatching, Go, ReleaseTurn, Finish, Loop,
       chatVars
  <2>3. disruptions' \in Nat /\ disruptions' >= disruptions
    BY <1>13 DEF ClearDispatching, Go, ReleaseTurn, Finish, Loop, chatVars,
       Spend, CopyTypes
  <2>4. QED
    BY <2>1, <2>2, <2>3, CopyQuiet
<1>14. CASE ClearMode(p)
  <2>1. \A n \in Msgs : Chance(n)' => Chance(n)
    BY <1>14 DEF ClearMode, Go, ReleaseTurn, Finish, Loop, chatVars, RowTypes,
       CurInv, CurPCs, Chance, InHand, InsertPCs, Spend
  <2>2. SameCopies
    BY <1>14, SamePrompts DEF ClearMode, Go, ReleaseTurn, Finish, Loop,
       chatVars
  <2>3. disruptions' \in Nat /\ disruptions' >= disruptions
    BY <1>14 DEF ClearMode, Go, ReleaseTurn, Finish, Loop, chatVars, Spend,
       CopyTypes
  <2>4. QED
    BY <2>1, <2>2, <2>3, CopyQuiet
<1>15. QED
  BY <1>1, <1>2, <1>3, <1>4, <1>5, <1>6, <1>7, <1>8, <1>9, <1>10, <1>11,
     <1>12, <1>13, <1>14 DEF TaskStep

\* So do requests, guards and faults.
LEMMA EnvCopies ==
  ASSUME RowTypes, StoreTypes, CopyTypes, CurInv, LockInv, RowInv, CommitInv,
         CopyInv, GuardClear \/ ClientStep \/ FaultStep
  PROVE  CopyInv'
<1>1. CASE GuardClear
  <2>1. \A n \in Msgs : Chance(n)' => Chance(n)
    BY <1>1 DEF GuardClear, chatVars, procVars, RowTypes, CurInv, CurPCs,
       Chance, InHand, InsertPCs, Spend
  <2>2. SameCopies
    BY <1>1, SamePrompts DEF GuardClear, chatVars, procVars
  <2>3. disruptions' \in Nat /\ disruptions' >= disruptions
    BY <1>1 DEF GuardClear, chatVars, procVars, Spend, CopyTypes
  <2>4. QED
    BY <2>1, <2>2, <2>3, CopyQuiet
<1>2. ASSUME NEW p \in Procs, NEW m \in Msgs, SendMessage(p, m)
      PROVE  CopyInv'
  <2>1. \A n \in Msgs : Chance(n)' => Chance(n)
    BY <1>2 DEF SendMessage, GoWith, Reply, chatVars, procVars, RowTypes,
       CurInv, CurPCs, Chance, InHand, InsertPCs, Spend
  <2>2. SameCopies
    BY <1>2, SamePrompts DEF SendMessage, GoWith, Reply, chatVars, procVars
  <2>3. disruptions' \in Nat /\ disruptions' >= disruptions
    BY <1>2 DEF SendMessage, GoWith, Reply, chatVars, procVars, Spend,
       CopyTypes
  <2>4. QED
    BY <2>1, <2>2, <2>3, CopyQuiet
<1>3. ASSUME NEW p \in Procs, NEW m \in Msgs, AddPrompt(p, m)
      PROVE  CopyInv'
  <2>1. Chance(m)
    BY <1>3 DEF AddPrompt, Chance
  <2>2. \A n \in Msgs : Chance(n)' => Chance(n)
    BY <1>3, <2>1 DEF AddPrompt, Reply, RowTypes, CurInv, CurPCs, Chance,
       InHand, InsertPCs, Spend
  <2>3. ~Chance(m)'
    BY <1>3 DEF AddPrompt, Reply, RowTypes, CurInv, CurPCs, Chance, InHand,
       InsertPCs, RowInv, HeldRunning, NoDoublePop, SendInv, UnsentInv, Holds,
       LockInv, LockPCs, DecidePCs, CommitPCs, CommitInv
  <2>4. QED
    BY <1>3, <2>1, <2>2, <2>3, CopyInsert DEF AddPrompt
<1>4. ASSUME NEW p \in Procs, NEW m \in Msgs, DispatchItem(p, m)
      PROVE  CopyInv'
  <2>1. \A n \in Msgs : Chance(n)' => Chance(n)
    BY <1>4 DEF DispatchItem, GoWith, chatVars, ghostVars, RowTypes, CurInv,
       CurPCs, Chance, InHand, InsertPCs, Spend
  <2>2. SameCopies
    BY <1>4, SamePrompts DEF DispatchItem, GoWith, chatVars, ghostVars
  <2>3. disruptions' \in Nat /\ disruptions' >= disruptions
    BY <1>4 DEF DispatchItem, GoWith, chatVars, ghostVars, Spend, CopyTypes
  <2>4. QED
    BY <2>1, <2>2, <2>3, CopyQuiet
<1>5. ASSUME NEW m \in Msgs, Enqueue(m)
      PROVE  CopyInv'
  <2>1. \A n \in Msgs : Chance(n)' => Chance(n)
    BY <1>5 DEF Enqueue, Reply, EnqueueRow, procVars, RowTypes, CurInv,
       CurPCs, Chance, InHand, InsertPCs, Spend
  <2>2. SameCopies
    BY <1>5, SamePrompts DEF Enqueue, Reply, EnqueueRow, procVars
  <2>3. disruptions' \in Nat /\ disruptions' >= disruptions
    BY <1>5 DEF Enqueue, Reply, EnqueueRow, procVars, Spend, CopyTypes
  <2>4. QED
    BY <2>1, <2>2, <2>3, CopyQuiet
<1>6. ASSUME NEW m \in Msgs, Cancel(m)
      PROVE  CopyInv'
  <2>1. \A n \in Msgs : Chance(n)' => Chance(n)
    BY <1>6 DEF Cancel, Reply, SetItem, procVars, RowTypes, CurInv, CurPCs,
       Chance, InHand, InsertPCs, Spend
  <2>2. SameCopies
    BY <1>6, SamePrompts DEF Cancel, Reply, SetItem, procVars
  <2>3. disruptions' \in Nat /\ disruptions' >= disruptions
    BY <1>6 DEF Cancel, Reply, SetItem, procVars, Spend, CopyTypes
  <2>4. QED
    BY <2>1, <2>2, <2>3, CopyQuiet
<1>7. ASSUME NEW p \in Procs,
                   NEW md \in {"auto", "manual"}, SetMode(p, md)
      PROVE  CopyInv'
  <2>1. \A n \in Msgs : Chance(n)' => Chance(n)
    BY <1>7 DEF SetMode, Go, ghostVars, RowTypes, CurInv, CurPCs, Chance,
       InHand, InsertPCs, Spend
  <2>2. SameCopies
    BY <1>7, SamePrompts DEF SetMode, Go, ghostVars
  <2>3. disruptions' \in Nat /\ disruptions' >= disruptions
    BY <1>7 DEF SetMode, Go, ghostVars, Spend, CopyTypes
  <2>4. QED
    BY <2>1, <2>2, <2>3, CopyQuiet
<1>8. ASSUME NEW p \in Procs, RunNext(p)
      PROVE  CopyInv'
  <2>1. \A n \in Msgs : Chance(n)' => Chance(n)
    BY <1>8 DEF RunNext, Go, chatVars, ghostVars, RowTypes, CurInv, CurPCs,
       Chance, InHand, InsertPCs, Spend
  <2>2. SameCopies
    BY <1>8, SamePrompts DEF RunNext, Go, chatVars, ghostVars
  <2>3. disruptions' \in Nat /\ disruptions' >= disruptions
    BY <1>8 DEF RunNext, Go, chatVars, ghostVars, Spend, CopyTypes
  <2>4. QED
    BY <2>1, <2>2, <2>3, CopyQuiet
<1>9. ASSUME NEW p \in Procs, RetryChat(p)
      PROVE  CopyInv'
  <2>1. \A n \in Msgs : Chance(n)' => Chance(n)
    BY <1>9 DEF RetryChat, ResetPrompt, ghostVars, RowTypes, CurInv, CurPCs,
       Chance, InHand, InsertPCs, Spend
  <2>2. SameCopies
    BY <1>9, EventsCopies DEF RetryChat, ResetPrompt, ghostVars, Flushed
  <2>3. disruptions' \in Nat /\ disruptions' >= disruptions
    BY <1>9 DEF RetryChat, ResetPrompt, ghostVars, Spend, CopyTypes
  <2>4. QED
    BY <2>1, <2>2, <2>3, CopyQuiet
<1>10. ASSUME NEW p \in Procs, StopTurn(p)
       PROVE  CopyInv'
  <2>1. \A n \in Msgs : Chance(n)' => Chance(n)
    BY <1>10 DEF StopTurn, Go, chatVars, ghostVars, RowTypes, CurInv, CurPCs,
       Chance, InHand, InsertPCs, Spend
  <2>2. SameCopies
    BY <1>10, SamePrompts DEF StopTurn, Go, chatVars, ghostVars
  <2>3. disruptions' \in Nat /\ disruptions' >= disruptions
    BY <1>10 DEF StopTurn, Go, chatVars, ghostVars, Spend, CopyTypes
  <2>4. QED
    BY <2>1, <2>2, <2>3, CopyQuiet
<1>11. CASE DeleteChat
  BY <1>11, CachedCopies, CopyPaid DEF DeleteChat, Spend
<1>12. CASE RestoreChat
  <2>1. \A n \in Msgs : Chance(n)' => Chance(n)
    BY <1>12 DEF RestoreChat, procVars, ghostVars, RowTypes, CurInv, CurPCs,
       Chance, InHand, InsertPCs, Spend
  <2>2. SameCopies
    BY <1>12, SamePrompts DEF RestoreChat, procVars, ghostVars
  <2>3. disruptions' \in Nat /\ disruptions' >= disruptions
    BY <1>12 DEF RestoreChat, procVars, ghostVars, Spend, CopyTypes
  <2>4. QED
    BY <2>1, <2>2, <2>3, CopyQuiet
<1>13. CASE Crash
  BY <1>13, CachedCopies, CopyPaid DEF Crash, Spend
<1>14. ASSUME NEW p \in Procs, Panic(p)
       PROVE  CopyInv'
  BY <1>14, SamePrompts, CopyPaid DEF Panic, Spend, chatVars
<1>15. ASSUME NEW p \in Procs, Disconnect(p)
       PROVE  CopyInv'
  BY <1>15, SamePrompts, CopyPaid DEF Disconnect, Spend, chatVars
<1>16. QED
  BY <1>1, <1>2, <1>3, <1>4, <1>5, <1>6, <1>7, <1>8, <1>9, <1>10, <1>11,
     <1>12, <1>13, <1>14, <1>15 DEF ClientStep, FaultStep

LEMMA CopyInvariant == Spec => []CopyInv
<1>1. Init => CopyInv
  <2>1. SUFFICES ASSUME Init
                 PROVE  CopyInv
    OBVIOUS
  <2>2. ASSUME NEW m \in Msgs
        PROVE  Copies(m) = 0
    <3>1. {i \in DOMAIN prompts : prompts[i].msg = m} = {}
      BY <2>1 DEF Init
    <3>2. QED
      BY <3>1, FS_EmptySet DEF Copies
  <2>3. disruptions = 0
    BY <2>1 DEF Init
  <2>4. QED
    BY <2>2, <2>3 DEF CopyInv
<1>2. /\ RowTypes /\ StoreTypes /\ CopyTypes /\ CurInv /\ LockInv /\ RowInv
      /\ CommitInv /\ CopyInv /\ [Next]_vars
      => CopyInv'
  <2>1. SUFFICES ASSUME RowTypes, StoreTypes, CopyTypes, CurInv, LockInv,
                        RowInv, CommitInv, CopyInv, [Next]_vars
                 PROVE  CopyInv'
    OBVIOUS
  <2>2. CASE Next
    BY <2>1, <2>2, HandlerCopies, TaskCopies, EnvCopies DEF Next
  <2>3. CASE UNCHANGED vars
    BY <2>1, <2>3 DEF vars, chatVars, procVars, ghostVars, CopyInv, Copies,
       Chance, InHand
  <2>4. QED
    BY <2>1, <2>2, <2>3
<1>3. TypeOK => RowTypes /\ StoreTypes /\ CopyTypes
  BY ConstantsOK, CopiesType DEF TypeOK, StoreTypes, ProcTypes, HistoryTypes,
     RowTypes, CopyTypes
<1>4. Control => LockInv
  BY DEF Control
<1>5. QED
  BY <1>1, <1>2, <1>3, <1>4, TypeCorrect, ControlInvariant, RowsInvariant,
     CommitInvariant, PTL DEF Spec

\* A message becomes a prompt at most once, plus once for each crash, panic,
\* disconnect, database error, stale session or chat deletion so far, whatever
\* route it took and however often its row was popped and rolled back.
THEOREM PromptedOnce == Spec => []AtMostOncePlusFaults
<1>1. CopyInv => AtMostOncePlusFaults
  BY DEF CopyInv, AtMostOncePlusFaults
<1>2. QED
  BY <1>1, CopyInvariant, PTL

-----------------------------------------------------------------------------
(* The order in which messages become prompts.                             *)

\* Nobody asks to jump the queue: the legacy add_prompt and dispatch_item do
\* so by design, and enqueue takes no mutex, so its row can slip in between
\* send_message's look at the queue and its insert.
Orderly ==
  /\ RowsRolledBack
  /\ Requests \cap {"add_prompt", "dispatch_item"} = {}
  /\ "send" \notin Requests \/ "enqueue" \notin Requests

\* The messages accepted so far, and whether all before m have left the queue.
Seen == {accepted[i] : i \in DOMAIN accepted}
Foremost(m) ==
  \A i, j \in DOMAIN accepted :
    i < j /\ accepted[j] = m => item[accepted[i]] = "none"

\* Rows are positioned in the order in which they were accepted.
PosInv ==
  \A i, j \in DOMAIN accepted :
    (i < j /\ item[accepted[i]] # "none" /\ item[accepted[j]] # "none")
      => pos[accepted[i]] < pos[accepted[j]]

\* A message that is still being sent has not been accepted before.
FreshInv ==
  /\ \A m \in Msgs : reply[m] = "unsent" => m \notin Seen
  /\ \A p \in Procs : pc[p] \in {"sendBusy", "sendIdle", "park", "commit"} =>
                         cur[p] \notin Seen

\* A slot that is about to insert a prompt has the foremost message, or one of
\* the owners at that moment is exposed: the slot itself, or a task beside it.
Beside(p) == \E r \in Procs \ {p} : pc[r] \in TaskPCs
TurnOrder ==
  \A p \in Procs :
    /\ pc[p] # "runPick"
    /\ pc[p] = "commit" => (\A m \in Msgs : item[m] = "none") \/ Beside(p)
    /\ pc[p] = "runAdd" => Foremost(cur[p]) \/ Beside(p)
    /\ pc[p] \in {"popped", "add"} =>
         p \in exposed \/ Foremost(cur[p]) \/ Beside(p)

OrderTypes ==
  /\ accepted \in Seq(Msgs)
  /\ pos \in [Msgs -> Nat]
  /\ exposed \subseteq Procs

\* What every step does to the order of the rows.
KeepsOrder ==
  /\ PosInv'
  /\ \A m \in Msgs : item[m] # "none" /\ Foremost(m) => Foremost(m)'

LEMMA SeenMsgs ==
  ASSUME OrderTypes
  PROVE  /\ Len(accepted) \in Nat
         /\ DOMAIN accepted = 1 .. Len(accepted)
         /\ \A i \in DOMAIN accepted : accepted[i] \in Msgs
BY DEF OrderTypes

LEMMA AcceptSeen ==
  ASSUME OrderTypes, NEW x \in Msgs, accepted' = Append(accepted, x)
  PROVE  /\ DOMAIN accepted' = 1 .. Len(accepted) + 1
         /\ \A i \in 1 .. Len(accepted) : accepted'[i] = accepted[i]
         /\ accepted'[Len(accepted) + 1] = x
         /\ Seen' = Seen \cup {x}
<1>1. /\ DOMAIN accepted' = 1 .. Len(accepted) + 1
      /\ \A i \in 1 .. Len(accepted) : accepted'[i] = accepted[i]
      /\ accepted'[Len(accepted) + 1] = x
  BY DEF OrderTypes
<1>2. QED
  BY <1>1, SeenMsgs DEF Seen

\* A step that adds no row and accepts nothing.
LEMMA QuietOrder ==
  ASSUME OrderTypes, PosInv, UNCHANGED <<accepted, pos>>,
         \A m \in Msgs : item[m] = "none" => item'[m] = "none"
  PROVE  KeepsOrder
BY SeenMsgs DEF KeepsOrder, PosInv, Foremost

\* A message accepted without a row.
LEMMA DirectOrder ==
  ASSUME OrderTypes, PosInv, NEW x \in Msgs, item[x] = "none",
         accepted' = Append(accepted, x), UNCHANGED <<item, pos>>
  PROVE  KeepsOrder
<1>1. PosInv'
  BY AcceptSeen, SeenMsgs DEF PosInv
<1>2. ASSUME NEW m \in Msgs, item[m] # "none", Foremost(m)
      PROVE  Foremost(m)'
  BY <1>2, AcceptSeen, SeenMsgs DEF Foremost
<1>3. QED
  BY <1>1, <1>2 DEF KeepsOrder

\* A message accepted with the row that EnqueueRow appends.
LEMMA EnqueueOrder ==
  ASSUME OrderTypes, RowTypes, PosInv, NEW x \in Msgs, item[x] = "none",
         x \notin Seen, EnqueueRow(x), accepted' = Append(accepted, x)
  PROVE  KeepsOrder
<1>1. PICK n \in Positions :
         /\ \A r \in Rows : pos[r] < n
         /\ pos' = [pos EXCEPT ![x] = n]
         /\ item' = [item EXCEPT ![x] = "pending"]
  BY DEF EnqueueRow
<1>2. \A i \in DOMAIN accepted :
         /\ accepted[i] # x
         /\ item'[accepted[i]] = item[accepted[i]]
         /\ pos'[accepted[i]] = pos[accepted[i]]
  BY <1>1, SeenMsgs DEF Seen, OrderTypes, RowTypes
<1>3. \A i \in DOMAIN accepted :
         item[accepted[i]] # "none" => pos[accepted[i]] < pos'[x]
  BY <1>1, SeenMsgs DEF Rows, OrderTypes
<1>4. PosInv'
  BY <1>2, <1>3, AcceptSeen, SeenMsgs DEF PosInv
<1>5. ASSUME NEW m \in Msgs, item[m] # "none", Foremost(m)
      PROVE  Foremost(m)'
  BY <1>2, <1>5, AcceptSeen, SeenMsgs DEF Foremost
<1>6. QED
  BY <1>4, <1>5 DEF KeepsOrder

\* With no row running, the head of the queue is the foremost message.
LEMMA HeadForemost ==
  ASSUME OrderTypes, RowTypes, PosInv, NEW m \in Heads,
         \A n \in Msgs : item[n] # "running"
  PROVE  Foremost(m)
<1>1. SUFFICES ASSUME NEW i \in DOMAIN accepted, NEW j \in DOMAIN accepted,
                      i < j, accepted[j] = m, item[accepted[i]] # "none"
               PROVE  FALSE
  BY DEF Foremost
<1>2. accepted[i] \in Pending /\ m \in Pending
  BY <1>1, SeenMsgs DEF Heads, Pending, RowTypes
<1>3. pos[m] <= pos[accepted[i]]
  BY <1>2 DEF Heads
<1>4. pos[accepted[i]] < pos[m]
  BY <1>1, <1>2 DEF PosInv, Pending
<1>5. QED
  BY <1>2, <1>3, <1>4 DEF OrderTypes, Pending

\* Every step of a handler keeps the rows in order.
LEMMA HandlerQueue ==
  ASSUME Orderly, RowTypes, OrderTypes, CurInv, LockInv, RowInv, CommitInv,
         PosInv, FreshInv, NEW p \in Procs, HandlerStep(p)
  PROVE  KeepsOrder
<1>1. CASE SendBusy(p)
  <2>1. /\ cur[p] \in Msgs /\ item[cur[p]] = "none" /\ cur[p] \notin Seen
        /\ EnqueueRow(cur[p]) /\ accepted' = Append(accepted, cur[p])
    BY <1>1 DEF SendBusy, CurInv, CurPCs, RowInv, SendInv, FreshInv
  <2>2. QED
    BY <2>1, EnqueueOrder
<1>2. CASE SendDecide(p)
  BY <1>2, QuietOrder DEF SendDecide, chatVars, RowTypes
<1>3. CASE SendPark(p)
  <2>1. /\ cur[p] \in Msgs /\ item[cur[p]] = "none" /\ cur[p] \notin Seen
        /\ EnqueueRow(cur[p]) /\ accepted' = Append(accepted, cur[p])
    BY <1>3 DEF SendPark, CurInv, CurPCs, RowInv, SendInv, FreshInv
  <2>2. QED
    BY <2>1, EnqueueOrder
<1>4. CASE SendParkMode(p)
  BY <1>4, QuietOrder DEF SendParkMode, chatVars, RowTypes
<1>5. CASE SendCommit(p)
  <2>1. cur[p] \in Msgs /\ item[cur[p]] = "none"
    BY <1>5 DEF SendCommit, CurInv, CurPCs, CommitInv
  <2>2. QED
    BY <1>5, <2>1, DirectOrder, QuietOrder DEF SendCommit
<1>6. CASE SendIngest(p)
  BY <1>6, QuietOrder DEF SendIngest, RowTypes
<1>7. CASE LegacyIngest(p)
  BY <1>7, QuietOrder DEF LegacyIngest, RowTypes
<1>8. CASE Kick(p)
  BY <1>8, QuietOrder DEF Kick, chatVars, ghostVars, RowTypes
<1>9. CASE KickMode(p)
  BY <1>9, QuietOrder DEF KickMode, chatVars, ghostVars, RowTypes
<1>10. CASE KickPend(p)
  BY <1>10, QuietOrder DEF KickPend, chatVars, RowTypes
<1>11. CASE RunPop(p)
  BY <1>11, QuietOrder DEF RunPop, SetItem, Heads, Pending, ghostVars,
     RowTypes
<1>12. CASE RunPick(p)
  BY <1>12, QuietOrder DEF RunPick, SetItem, ghostVars, CurInv, CurPCs,
     RowTypes
<1>13. CASE RunAdd(p)
  BY <1>13, QuietOrder DEF RunAdd, RowTypes
<1>14. CASE RunIngest(p)
  BY <1>14, QuietOrder DEF RunIngest, RowTypes
<1>15. CASE RetryGo(p)
  BY <1>15, QuietOrder DEF RetryGo, chatVars, RowTypes
<1>16. CASE StopTail(p)
  BY <1>16, QuietOrder DEF StopTail, chatVars, ghostVars, RowTypes
<1>17. CASE StopWrite(p)
  BY <1>17, QuietOrder DEF StopWrite, ghostVars, RowTypes
<1>18. CASE StopForce(p)
  BY <1>18, QuietOrder DEF StopForce, chatVars, RowTypes
<1>19. QED
  BY <1>1, <1>2, <1>3, <1>4, <1>5, <1>6, <1>7, <1>8, <1>9, <1>10, <1>11,
     <1>12, <1>13, <1>14, <1>15, <1>16, <1>17, <1>18 DEF HandlerStep

\* Every step of a task does.
LEMMA TaskQueue ==
  ASSUME Orderly, RowTypes, OrderTypes, CurInv, LockInv, RowInv, CommitInv,
         PosInv, FreshInv, NEW p \in Procs, TaskStep(p)
  PROVE  KeepsOrder
<1>1. CASE TurnStart(p)
  BY <1>1, QuietOrder DEF TurnStart, chatVars, ghostVars, RowTypes
<1>2. CASE TurnEcho(p)
  BY <1>2, QuietOrder DEF TurnEcho, chatVars, ghostVars, RowTypes
<1>3. CASE TurnEnd(p)
  BY <1>3, QuietOrder DEF TurnEnd, chatVars, ghostVars, RowTypes
<1>4. CASE TurnFlush(p)
  BY <1>4, QuietOrder DEF TurnFlush, ghostVars, RowTypes
<1>5. CASE TurnStale(p)
  BY <1>5, QuietOrder DEF TurnStale, RowTypes
<1>6. CASE TurnReset(p)
  BY <1>6, QuietOrder DEF TurnReset, ghostVars, RowTypes
<1>7. CASE DrainCheck(p)
  BY <1>7, QuietOrder DEF DrainCheck, chatVars, ghostVars, RowTypes
<1>8. CASE DrainPop(p)
  BY <1>8, QuietOrder DEF DrainPop, SetItem, Heads, Pending, ghostVars,
     RowTypes
<1>9. CASE DrainRecheck(p)
  BY <1>9, QuietOrder DEF DrainRecheck, SetItem, ghostVars, RowInv,
     HeldRunning, Holds, CurInv, CurPCs, RowTypes
<1>10. CASE DrainAdd(p)
  BY <1>10, QuietOrder DEF DrainAdd, SetItem, RowInv, HeldRunning, Holds,
     CurInv, CurPCs, RowTypes
<1>11. CASE DrainIngest(p)
  BY <1>11, QuietOrder DEF DrainIngest, SetItem, ghostVars, RowInv,
     HeldRunning, Holds, CurInv, CurPCs, RowTypes
<1>12. CASE MarkDone(p)
  BY <1>12, QuietOrder DEF MarkDone, SetItem, RowInv, HeldRunning, Holds,
     CurInv, CurPCs, RowTypes
<1>13. CASE ClearDispatching(p)
  BY <1>13, QuietOrder DEF ClearDispatching, chatVars, RowTypes
<1>14. CASE ClearMode(p)
  BY <1>14, QuietOrder DEF ClearMode, chatVars, RowTypes
<1>15. QED
  BY <1>1, <1>2, <1>3, <1>4, <1>5, <1>6, <1>7, <1>8, <1>9, <1>10, <1>11,
     <1>12, <1>13, <1>14 DEF TaskStep

\* So do the requests that Orderly allows, guards and faults.
LEMMA EnvQueue ==
  ASSUME Orderly, RowTypes, OrderTypes, CurInv, LockInv, RowInv, CommitInv,
         PosInv, FreshInv, GuardClear \/ ClientStep \/ FaultStep
  PROVE  KeepsOrder
<1>1. CASE GuardClear
  BY <1>1, QuietOrder DEF GuardClear, chatVars, RowTypes
<1>2. ASSUME NEW p \in Procs, NEW m \in Msgs, SendMessage(p, m)
      PROVE  KeepsOrder
  BY <1>2, QuietOrder DEF SendMessage, chatVars, RowTypes
<1>3. ASSUME NEW p \in Procs, NEW m \in Msgs, AddPrompt(p, m)
      PROVE  KeepsOrder
  BY <1>3 DEF AddPrompt, Orderly
<1>4. ASSUME NEW p \in Procs, NEW m \in Msgs, DispatchItem(p, m)
      PROVE  KeepsOrder
  BY <1>4 DEF DispatchItem, Orderly
<1>5. ASSUME NEW m \in Msgs, Enqueue(m)
      PROVE  KeepsOrder
  <2>1. item[m] = "none" /\ m \notin Seen
    BY <1>5 DEF Enqueue, RowInv, UnsentInv, FreshInv
  <2>2. QED
    BY <1>5, <2>1, EnqueueOrder DEF Enqueue
<1>6. ASSUME NEW m \in Msgs, Cancel(m)
      PROVE  KeepsOrder
  BY <1>6, QuietOrder DEF Cancel, SetItem, RowTypes
<1>7. ASSUME NEW p \in Procs,
                   NEW md \in {"auto", "manual"}, SetMode(p, md)
      PROVE  KeepsOrder
  BY <1>7, QuietOrder DEF SetMode, ghostVars, RowTypes
<1>8. ASSUME NEW p \in Procs, RunNext(p)
      PROVE  KeepsOrder
  BY <1>8, QuietOrder DEF RunNext, chatVars, ghostVars, RowTypes
<1>9. ASSUME NEW p \in Procs, RetryChat(p)
      PROVE  KeepsOrder
  BY <1>9, QuietOrder DEF RetryChat, ghostVars, RowTypes
<1>10. ASSUME NEW p \in Procs, StopTurn(p)
       PROVE  KeepsOrder
  BY <1>10, QuietOrder DEF StopTurn, chatVars, ghostVars, RowTypes
<1>11. CASE DeleteChat
  BY <1>11, QuietOrder DEF DeleteChat, RowTypes
<1>12. CASE RestoreChat
  BY <1>12, QuietOrder DEF RestoreChat, ghostVars, RowTypes
<1>13. CASE Crash
  BY <1>13, QuietOrder DEF Crash, RowTypes
<1>14. ASSUME NEW p \in Procs, Panic(p)
       PROVE  KeepsOrder
  BY <1>14, QuietOrder DEF Panic, chatVars, RowTypes
<1>15. ASSUME NEW p \in Procs, Disconnect(p)
       PROVE  KeepsOrder
  BY <1>15, QuietOrder DEF Disconnect, chatVars, RowTypes
<1>16. QED
  BY <1>1, <1>2, <1>3, <1>4, <1>5, <1>6, <1>7, <1>8, <1>9, <1>10, <1>11,
     <1>12, <1>13, <1>14, <1>15 DEF ClientStep, FaultStep

\* Every step of a handler accepts a message once.
LEMMA HandlerFresh ==
  ASSUME Orderly, RowTypes, OrderTypes, CurInv, LockInv, RowInv, CommitInv,
         PosInv, FreshInv, NEW p \in Procs, HandlerStep(p)
  PROVE  FreshInv'
<1>1. CASE SendBusy(p)
  <2>1. cur[p] \in Msgs
    BY <1>1 DEF SendBusy, CurInv, CurPCs
  <2>2. Seen' = Seen \cup {cur[p]} \/ Seen' = Seen
    BY <1>1, <2>1, AcceptSeen DEF SendBusy, Seen
  <2>3. QED
    BY <1>1, <2>1, <2>2 DEF SendBusy, Finish, Reply, Loop, RowTypes, FreshInv,
       CurInv, CurPCs, LockInv, LockPCs, DecidePCs, CommitPCs, RowInv,
       SendInv, CommitInv
<1>2. CASE SendDecide(p)
  BY <1>2 DEF SendDecide, Go, chatVars, RowTypes, FreshInv, Seen
<1>3. CASE SendPark(p)
  <2>1. cur[p] \in Msgs
    BY <1>3 DEF SendPark, CurInv, CurPCs
  <2>2. Seen' = Seen \cup {cur[p]} \/ Seen' = Seen
    BY <1>3, <2>1, AcceptSeen DEF SendPark, Seen
  <2>3. QED
    BY <1>3, <2>1, <2>2 DEF SendPark, Go, Reply, RowTypes, FreshInv, CurInv,
       CurPCs, LockInv, LockPCs, DecidePCs, CommitPCs, RowInv, SendInv,
       CommitInv
<1>4. CASE SendParkMode(p)
  BY <1>4 DEF SendParkMode, Loop, Finish, chatVars, RowTypes, FreshInv, Seen
<1>5. CASE SendCommit(p)
  <2>1. cur[p] \in Msgs
    BY <1>5 DEF SendCommit, CurInv, CurPCs
  <2>2. Seen' = Seen \cup {cur[p]} \/ Seen' = Seen
    BY <1>5, <2>1, AcceptSeen DEF SendCommit, Seen
  <2>3. QED
    BY <1>5, <2>1, <2>2 DEF SendCommit, Finish, InsertPrompt, Reply, Loop,
       RowTypes, FreshInv, CurInv, CurPCs, LockInv, LockPCs, DecidePCs,
       CommitPCs, RowInv, SendInv, CommitInv
<1>6. CASE SendIngest(p)
  BY <1>6 DEF SendIngest, Finish, SpawnTurn, Reply, Loop, RowTypes, FreshInv,
     Seen
<1>7. CASE LegacyIngest(p)
  BY <1>7 DEF LegacyIngest, Finish, SpawnTurn, Reply, Loop, RowTypes,
     FreshInv, Seen
<1>8. CASE Kick(p)
  BY <1>8 DEF Kick, Go, Finish, Loop, chatVars, ghostVars, RowTypes, FreshInv,
     Seen
<1>9. CASE KickMode(p)
  BY <1>9 DEF KickMode, Go, Finish, Loop, chatVars, ghostVars, RowTypes,
     FreshInv, Seen
<1>10. CASE KickPend(p)
  BY <1>10 DEF KickPend, Loop, Finish, chatVars, RowTypes, FreshInv, Seen
<1>11. CASE RunPop(p)
  BY <1>11 DEF RunPop, GoWith, Finish, Loop, ghostVars, RowTypes, FreshInv,
     Seen
<1>12. CASE RunPick(p)
  BY <1>12 DEF RunPick, Go, Finish, Loop, ghostVars, RowTypes, FreshInv, Seen
<1>13. CASE RunAdd(p)
  BY <1>13 DEF RunAdd, Finish, InsertPrompt, Loop, RowTypes, FreshInv, Seen
<1>14. CASE RunIngest(p)
  BY <1>14 DEF RunIngest, Finish, SpawnTurn, Loop, RowTypes, FreshInv, Seen
<1>15. CASE RetryGo(p)
  BY <1>15 DEF RetryGo, Finish, SpawnTurn, Loop, chatVars, RowTypes, FreshInv,
     Seen
<1>16. CASE StopTail(p)
  BY <1>16 DEF StopTail, Go, chatVars, ghostVars, RowTypes, FreshInv, Seen
<1>17. CASE StopWrite(p)
  BY <1>17 DEF StopWrite, Finish, Loop, ghostVars, RowTypes, FreshInv, Seen
<1>18. CASE StopForce(p)
  BY <1>18 DEF StopForce, Go, chatVars, RowTypes, FreshInv, Seen
<1>19. QED
  BY <1>1, <1>2, <1>3, <1>4, <1>5, <1>6, <1>7, <1>8, <1>9, <1>10, <1>11,
     <1>12, <1>13, <1>14, <1>15, <1>16, <1>17, <1>18 DEF HandlerStep

\* Every step of a task does.
LEMMA TaskFresh ==
  ASSUME Orderly, RowTypes, OrderTypes, CurInv, LockInv, RowInv, CommitInv,
         PosInv, FreshInv, NEW p \in Procs, TaskStep(p)
  PROVE  FreshInv'
<1>1. CASE TurnStart(p)
  BY <1>1 DEF TurnStart, Go, chatVars, ghostVars, RowTypes, FreshInv, Seen
<1>2. CASE TurnEcho(p)
  BY <1>2 DEF TurnEcho, Go, chatVars, ghostVars, RowTypes, FreshInv, Seen
<1>3. CASE TurnEnd(p)
  BY <1>3 DEF TurnEnd, Go, chatVars, ghostVars, RowTypes, FreshInv, Seen
<1>4. CASE TurnFlush(p)
  BY <1>4 DEF TurnFlush, Loop, ghostVars, RowTypes, FreshInv, Seen
<1>5. CASE TurnStale(p)
  BY <1>5 DEF TurnStale, Go, RowTypes, FreshInv, Seen
<1>6. CASE TurnReset(p)
  BY <1>6 DEF TurnReset, Loop, ResetPrompt, ghostVars, RowTypes, FreshInv,
     Seen
<1>7. CASE DrainCheck(p)
  BY <1>7 DEF DrainCheck, Go, chatVars, ghostVars, RowTypes, FreshInv, Seen
<1>8. CASE DrainPop(p)
  BY <1>8 DEF DrainPop, Go, GoWith, ghostVars, RowTypes, FreshInv, Seen
<1>9. CASE DrainRecheck(p)
  BY <1>9 DEF DrainRecheck, Go, Loop, ghostVars, RowTypes, FreshInv, Seen
<1>10. CASE DrainAdd(p)
  BY <1>10 DEF DrainAdd, Loop, InsertPrompt, RowTypes, FreshInv, Seen
<1>11. CASE DrainIngest(p)
  BY <1>11 DEF DrainIngest, Go, Loop, ghostVars, RowTypes, FreshInv, Seen
<1>12. CASE MarkDone(p)
  BY <1>12 DEF MarkDone, Go, RowTypes, FreshInv, Seen
<1>13. CASE ClearDispatching(p)
  BY <1>13 DEF ClearDispatching, Go, ReleaseTurn, Finish, Loop, chatVars,
     RowTypes, FreshInv, Seen
<1>14. CASE ClearMode(p)
  BY <1>14 DEF ClearMode, Go, ReleaseTurn, Finish, Loop, chatVars, RowTypes,
     FreshInv, Seen
<1>15. QED
  BY <1>1, <1>2, <1>3, <1>4, <1>5, <1>6, <1>7, <1>8, <1>9, <1>10, <1>11,
     <1>12, <1>13, <1>14 DEF TaskStep

\* So do the requests that Orderly allows, guards and faults.
LEMMA EnvFresh ==
  ASSUME Orderly, RowTypes, OrderTypes, CurInv, LockInv, RowInv, CommitInv,
         PosInv, FreshInv, GuardClear \/ ClientStep \/ FaultStep
  PROVE  FreshInv'
<1>1. CASE GuardClear
  BY <1>1 DEF GuardClear, chatVars, procVars, RowTypes, FreshInv, Seen
<1>2. ASSUME NEW p \in Procs, NEW m \in Msgs, SendMessage(p, m)
      PROVE  FreshInv'
  BY <1>2 DEF SendMessage, GoWith, Reply, chatVars, procVars, CurInv, CurPCs,
     RowInv, SendInv, CommitInv, LockInv, LockPCs, DecidePCs, CommitPCs,
     RowTypes, FreshInv, Seen
<1>3. ASSUME NEW p \in Procs, NEW m \in Msgs, AddPrompt(p, m)
      PROVE  FreshInv'
  BY <1>3 DEF AddPrompt, Orderly
<1>4. ASSUME NEW p \in Procs, NEW m \in Msgs, DispatchItem(p, m)
      PROVE  FreshInv'
  BY <1>4 DEF DispatchItem, GoWith, chatVars, ghostVars, RowTypes, FreshInv,
     Seen
<1>5. ASSUME NEW m \in Msgs, Enqueue(m)
      PROVE  FreshInv'
  <2>1. Seen' = Seen \cup {m}
    BY <1>5, AcceptSeen DEF Enqueue
  <2>2. QED
    BY <1>5, <2>1 DEF Enqueue, Reply, procVars, RowTypes, FreshInv, CurInv,
       CurPCs, RowInv, SendInv, CommitInv
<1>6. ASSUME NEW m \in Msgs, Cancel(m)
      PROVE  FreshInv'
  BY <1>6 DEF Cancel, Reply, procVars, RowTypes, FreshInv, Seen
<1>7. ASSUME NEW p \in Procs,
                   NEW md \in {"auto", "manual"}, SetMode(p, md)
      PROVE  FreshInv'
  BY <1>7 DEF SetMode, Go, ghostVars, RowTypes, FreshInv, Seen
<1>8. ASSUME NEW p \in Procs, RunNext(p)
      PROVE  FreshInv'
  BY <1>8 DEF RunNext, Go, chatVars, ghostVars, RowTypes, FreshInv, Seen
<1>9. ASSUME NEW p \in Procs, RetryChat(p)
      PROVE  FreshInv'
  BY <1>9 DEF RetryChat, ResetPrompt, ghostVars, RowTypes, FreshInv, Seen
<1>10. ASSUME NEW p \in Procs, StopTurn(p)
       PROVE  FreshInv'
  BY <1>10 DEF StopTurn, Go, chatVars, ghostVars, RowTypes, FreshInv, Seen
<1>11. CASE DeleteChat
  BY <1>11 DEF DeleteChat, procVars, RowTypes, FreshInv, Seen
<1>12. CASE RestoreChat
  BY <1>12 DEF RestoreChat, procVars, ghostVars, RowTypes, FreshInv, Seen
<1>13. CASE Crash
  BY <1>13 DEF Crash, RowTypes, FreshInv, Seen
<1>14. ASSUME NEW p \in Procs, Panic(p)
       PROVE  FreshInv'
  BY <1>14 DEF Panic, Finish, Loop, chatVars, RowTypes, FreshInv, Seen
<1>15. ASSUME NEW p \in Procs, Disconnect(p)
       PROVE  FreshInv'
  BY <1>15 DEF Disconnect, Finish, Loop, chatVars, RowTypes, FreshInv, Seen
<1>16. QED
  BY <1>1, <1>2, <1>3, <1>4, <1>5, <1>6, <1>7, <1>8, <1>9, <1>10, <1>11,
     <1>12, <1>13, <1>14, <1>15 DEF ClientStep, FaultStep

\* Every step of a handler keeps the turns in order.
LEMMA HandlerOrder ==
  ASSUME Orderly, RowTypes, OrderTypes, CurInv, LockInv, DecideInv,
         OneTurnAtATime, HeldRunning, SlotInv, NoSendInv, NoStrandedRunning,
         PosInv, KeepsOrder, TurnOrder, NEW p \in Procs, HandlerStep(p)
  PROVE  TurnOrder'
<1>1. CASE SendBusy(p)
  BY <1>1 DEF SendBusy, Finish, EnqueueRow, Loop, NoSendInv, RowTypes, CurInv,
     CurPCs, TurnOrder, Beside, KeepsOrder, HeldRunning, Holds, LockInv,
     LockPCs, DecidePCs, CommitPCs, TaskPCs
<1>2. CASE SendDecide(p)
  <2>1. CASE Pending # {}
    BY <1>2, <2>1 DEF SendDecide, Go, chatVars, TurnOrder, Beside, KeepsOrder,
       RowTypes, CurInv, CurPCs, HeldRunning, Holds, TaskPCs
  <2>2. CASE Pending = {} /\ Go(p, "commit") /\ Claim(p)
    <3>1. (\A m \in Msgs : item[m] = "none") \/ Beside(p)
      BY <1>2, <2>2 DEF SendDecide, Pending, RowTypes, NoStrandedRunning,
         Holds, Beside, LockInv, LockPCs, DecidePCs, TaskPCs
    <3>2. UNCHANGED <<item, cur, accepted>>
      BY <1>2, <2>2 DEF SendDecide, Go, chatVars
    <3>3. \A q \in Procs \ {p} : pc'[q] = pc[q] /\ (q \in exposed => q \in exposed')
      BY <2>2 DEF Go, Claim, RowTypes
    <3>4. pc'[p] = "commit" /\ pc[p] = "sendIdle"
      BY <1>2, <2>2 DEF SendDecide, Go, RowTypes
    <3>5. ASSUME NEW q \in Procs
          PROVE  Beside(q) => Beside(q)'
      BY <3>3, <3>4 DEF Beside, TaskPCs
    <3>6. QED
      BY <3>1, <3>2, <3>3, <3>4, <3>5 DEF TurnOrder, Foremost
  <2>3. QED
    BY <1>2, <2>1, <2>2 DEF SendDecide
<1>3. CASE SendPark(p)
  BY <1>3 DEF SendPark, Go, EnqueueRow, RowTypes, CurInv, CurPCs, TurnOrder,
     Beside, KeepsOrder, HeldRunning, Holds, LockInv, LockPCs, DecidePCs,
     CommitPCs, TaskPCs
<1>4. CASE SendParkMode(p)
  BY <1>4 DEF SendParkMode, Loop, Finish, Claim, chatVars, RowTypes, CurInv,
     CurPCs, TurnOrder, Beside, KeepsOrder, HeldRunning, Holds, LockInv,
     LockPCs, DecidePCs, CommitPCs, TaskPCs
<1>5. CASE SendCommit(p)
  BY <1>5 DEF SendCommit, Finish, InsertPrompt, Loop, RowTypes, CurInv,
     CurPCs, TurnOrder, Beside, KeepsOrder, HeldRunning, Holds, LockInv,
     LockPCs, DecidePCs, CommitPCs, TaskPCs
<1>6. CASE SendIngest(p)
  BY <1>6 DEF SendIngest, Finish, SpawnTurn, Loop, RowTypes, CurInv, CurPCs,
     TurnOrder, Beside, KeepsOrder, HeldRunning, Holds, LockInv, LockPCs,
     DecidePCs, CommitPCs, TaskPCs
<1>7. CASE LegacyIngest(p)
  BY <1>7, ConstantsOK DEF LegacyIngest, Finish, SpawnTurn, Loop, Owners,
     Owner, OwnerPCs, RowTypes, CurInv, CurPCs, TurnOrder, Beside, KeepsOrder,
     HeldRunning, Holds, LockInv, LockPCs, DecidePCs, CommitPCs, TaskPCs
<1>8. CASE Kick(p)
  BY <1>8 DEF Kick, Go, Finish, Loop, chatVars, ghostVars, RowTypes, CurInv,
     CurPCs, TurnOrder, Beside, KeepsOrder, HeldRunning, Holds, LockInv,
     LockPCs, DecidePCs, CommitPCs, TaskPCs
<1>9. CASE KickMode(p)
  BY <1>9 DEF KickMode, Go, Finish, Loop, chatVars, ghostVars, RowTypes,
     CurInv, CurPCs, TurnOrder, Beside, KeepsOrder, HeldRunning, Holds,
     LockInv, LockPCs, DecidePCs, CommitPCs, TaskPCs
<1>10. CASE KickPend(p)
  BY <1>10 DEF KickPend, Loop, Finish, Claim, chatVars, RowTypes, CurInv,
     CurPCs, TurnOrder, Beside, KeepsOrder, HeldRunning, Holds, LockInv,
     LockPCs, DecidePCs, CommitPCs, TaskPCs
<1>11. CASE RunPop(p)
  <2>1. ASSUME NEW m \in Heads, SetItem(m, "running"), GoWith(p, "runAdd", m)
        PROVE  TurnOrder'
    <3>1. Foremost(m) \/ Beside(p)
      <4>1. CASE \A n \in Msgs : item[n] # "running"
        BY <4>1, HeadForemost
      <4>2. ASSUME NEW n \in Msgs, item[n] = "running"
            PROVE  Beside(p)
        <5>1. PICK r \in Procs : Holds(r, n)
          BY <4>2 DEF NoStrandedRunning
        <5>2. r # p
          BY <1>11, <5>1 DEF RunPop, Holds
        <5>3. CASE pc[r] \in TaskPCs
          BY <5>2, <5>3 DEF Beside
        <5>4. CASE pc[r] \in {"runAdd", "runIngest"}
          BY <1>11, <5>2, <5>4 DEF RunPop, LockInv, LockPCs, DecidePCs
        <5>5. QED
          BY <5>1, <5>3, <5>4 DEF Holds, TaskPCs
      <4>3. QED
        BY <4>1, <4>2
    <3>2. Foremost(m) => Foremost(m)'
      BY DEF Heads, Pending, KeepsOrder
    <3>3. QED
      BY <1>11, <2>1, <3>1, <3>2 DEF RunPop, GoWith, SetItem, Heads, Pending,
         ghostVars, RowTypes, CurInv, CurPCs, TurnOrder, Beside, KeepsOrder,
         HeldRunning, Holds, LockInv, LockPCs, DecidePCs, CommitPCs, TaskPCs
  <2>2. CASE Pending = {}
    BY <1>11, <2>2 DEF RunPop, Heads, GoWith, Finish, SetItem, Pending, Loop,
       ghostVars, RowTypes, CurInv, CurPCs, TurnOrder, Beside, KeepsOrder,
       HeldRunning, Holds, LockInv, LockPCs, DecidePCs, CommitPCs, TaskPCs
  <2>3. QED
    BY <1>11, <2>1, <2>2 DEF RunPop
<1>12. CASE RunPick(p)
  BY <1>12 DEF RunPick, Go, Finish, SetItem, Loop, ghostVars, RowTypes,
     CurInv, CurPCs, TurnOrder, Beside, KeepsOrder, HeldRunning, Holds,
     LockInv, LockPCs, DecidePCs, CommitPCs, TaskPCs
<1>13. CASE RunAdd(p)
  BY <1>13 DEF RunAdd, Finish, InsertPrompt, Loop, RowTypes, CurInv, CurPCs,
     TurnOrder, Beside, KeepsOrder, HeldRunning, Holds, LockInv, LockPCs,
     DecidePCs, CommitPCs, TaskPCs
<1>14. CASE RunIngest(p)
  BY <1>14 DEF RunIngest, Finish, SpawnTurn, Claim, Loop, RowTypes, CurInv,
     CurPCs, TurnOrder, Beside, KeepsOrder, HeldRunning, Holds, LockInv,
     LockPCs, DecidePCs, CommitPCs, TaskPCs
<1>15. CASE RetryGo(p)
  BY <1>15 DEF RetryGo, Finish, SpawnTurn, Claim, Loop, chatVars, RowTypes,
     CurInv, CurPCs, TurnOrder, Beside, KeepsOrder, HeldRunning, Holds,
     LockInv, LockPCs, DecidePCs, CommitPCs, TaskPCs
<1>16. CASE StopTail(p)
  BY <1>16 DEF StopTail, Go, chatVars, ghostVars, RowTypes, CurInv, CurPCs,
     TurnOrder, Beside, KeepsOrder, HeldRunning, Holds, LockInv, LockPCs,
     DecidePCs, CommitPCs, TaskPCs
<1>17. CASE StopWrite(p)
  BY <1>17 DEF StopWrite, Finish, Loop, ghostVars, RowTypes, CurInv, CurPCs,
     TurnOrder, Beside, KeepsOrder, HeldRunning, Holds, LockInv, LockPCs,
     DecidePCs, CommitPCs, TaskPCs
<1>18. CASE StopForce(p)
  BY <1>18, ConstantsOK DEF StopForce, Go, Unclaim, chatVars, Owners, Owner,
     OwnerPCs, RowTypes, CurInv, CurPCs, TurnOrder, Beside, KeepsOrder,
     HeldRunning, Holds, LockInv, LockPCs, DecidePCs, CommitPCs, TaskPCs
<1>19. QED
  BY <1>1, <1>2, <1>3, <1>4, <1>5, <1>6, <1>7, <1>8, <1>9, <1>10, <1>11,
     <1>12, <1>13, <1>14, <1>15, <1>16, <1>17, <1>18 DEF HandlerStep

\* Every step of a task does.
LEMMA TaskOrder ==
  ASSUME Orderly, RowTypes, OrderTypes, CurInv, LockInv, DecideInv,
         OneTurnAtATime, HeldRunning, SlotInv, NoSendInv, NoStrandedRunning,
         PosInv, KeepsOrder, TurnOrder, NEW p \in Procs, TaskStep(p)
  PROVE  TurnOrder'
<1>1. CASE TurnStart(p)
  BY <1>1 DEF TurnStart, Go, chatVars, ghostVars, RowTypes, CurInv, CurPCs,
     TurnOrder, Beside, KeepsOrder, HeldRunning, Holds, LockInv, LockPCs,
     DecidePCs, CommitPCs, TaskPCs
<1>2. CASE TurnEcho(p)
  BY <1>2 DEF TurnEcho, Go, chatVars, ghostVars, RowTypes, CurInv, CurPCs,
     TurnOrder, Beside, KeepsOrder, HeldRunning, Holds, LockInv, LockPCs,
     DecidePCs, CommitPCs, TaskPCs
<1>3. CASE TurnEnd(p)
  BY <1>3 DEF TurnEnd, Go, chatVars, ghostVars, RowTypes, CurInv, CurPCs,
     TurnOrder, Beside, KeepsOrder, HeldRunning, Holds, LockInv, LockPCs,
     DecidePCs, CommitPCs, TaskPCs
<1>4. CASE TurnFlush(p)
  BY <1>4 DEF TurnFlush, Loop, ghostVars, RowTypes, CurInv, CurPCs, TurnOrder,
     Beside, KeepsOrder, HeldRunning, Holds, LockInv, LockPCs, DecidePCs,
     CommitPCs, TaskPCs
<1>5. CASE TurnStale(p)
  BY <1>5 DEF TurnStale, Go, RowTypes, CurInv, CurPCs, TurnOrder, Beside,
     KeepsOrder, HeldRunning, Holds, LockInv, LockPCs, DecidePCs, CommitPCs,
     TaskPCs
<1>6. CASE TurnReset(p)
  BY <1>6 DEF TurnReset, Loop, ResetPrompt, ghostVars, RowTypes, CurInv,
     CurPCs, TurnOrder, Beside, KeepsOrder, HeldRunning, Holds, LockInv,
     LockPCs, DecidePCs, CommitPCs, TaskPCs
<1>7. CASE DrainCheck(p)
  BY <1>7 DEF DrainCheck, Go, chatVars, ghostVars, RowTypes, CurInv, CurPCs,
     TurnOrder, Beside, KeepsOrder, HeldRunning, Holds, LockInv, LockPCs,
     DecidePCs, CommitPCs, TaskPCs
<1>8. CASE DrainPop(p)
  <2>1. ASSUME NEW m \in Heads, SetItem(m, "running"), GoWith(p, "popped", m)
        PROVE  TurnOrder'
    <3>1. Foremost(m) \/ Beside(p) \/ p \in exposed
      <4>1. CASE \A n \in Msgs : item[n] # "running"
        BY <4>1, HeadForemost
      <4>2. ASSUME NEW n \in Msgs, item[n] = "running"
            PROVE  Beside(p) \/ p \in exposed
        <5>1. PICK r \in Procs : Holds(r, n)
          BY <4>2 DEF NoStrandedRunning
        <5>2. r # p
          BY <1>8, <5>1 DEF DrainPop, Holds
        <5>3. CASE pc[r] \in TaskPCs
          BY <5>2, <5>3 DEF Beside
        <5>4. CASE pc[r] \in {"runAdd", "runIngest"}
          BY <1>8, <5>4 DEF DrainPop, DecideInv, DecidePCs, OneTurnAtATime,
             Owners, Owner, OwnerPCs, TaskPCs
        <5>5. QED
          BY <5>1, <5>3, <5>4 DEF Holds, TaskPCs
      <4>3. QED
        BY <4>1, <4>2
    <3>2. Foremost(m) => Foremost(m)'
      BY DEF Heads, Pending, KeepsOrder
    <3>3. QED
      BY <1>8, <2>1, <3>1, <3>2 DEF DrainPop, GoWith, SetItem, Heads, Pending,
         ghostVars, RowTypes, CurInv, CurPCs, TurnOrder, Beside, KeepsOrder,
         HeldRunning, Holds, LockInv, LockPCs, DecidePCs, CommitPCs, TaskPCs
  <2>2. CASE Pending = {}
    BY <1>8, <2>2 DEF DrainPop, Heads, Go, GoWith, SetItem, Pending,
       ghostVars, RowTypes, CurInv, CurPCs, TurnOrder, Beside, KeepsOrder,
       HeldRunning, Holds, LockInv, LockPCs, DecidePCs, CommitPCs, TaskPCs
  <2>3. QED
    BY <1>8, <2>1, <2>2 DEF DrainPop
<1>9. CASE DrainRecheck(p)
  BY <1>9 DEF DrainRecheck, Go, Loop, SetItem, ghostVars, RowTypes, CurInv,
     CurPCs, TurnOrder, Beside, KeepsOrder, HeldRunning, Holds, LockInv,
     LockPCs, DecidePCs, CommitPCs, TaskPCs
<1>10. CASE DrainAdd(p)
  BY <1>10 DEF DrainAdd, Loop, InsertPrompt, SetItem, RowTypes, CurInv,
     CurPCs, TurnOrder, Beside, KeepsOrder, HeldRunning, Holds, LockInv,
     LockPCs, DecidePCs, CommitPCs, TaskPCs
<1>11. CASE DrainIngest(p)
  BY <1>11 DEF DrainIngest, Go, Loop, SetItem, ghostVars, RowTypes, CurInv,
     CurPCs, TurnOrder, Beside, KeepsOrder, HeldRunning, Holds, LockInv,
     LockPCs, DecidePCs, CommitPCs, TaskPCs
<1>12. CASE MarkDone(p)
  BY <1>12 DEF MarkDone, Go, SetItem, RowTypes, CurInv, CurPCs, TurnOrder,
     Beside, KeepsOrder, HeldRunning, Holds, LockInv, LockPCs, DecidePCs,
     CommitPCs, TaskPCs
<1>13. CASE ClearDispatching(p)
  BY <1>13, ConstantsOK DEF ClearDispatching, Go, ReleaseTurn, Unclaim,
     Finish, Loop, chatVars, Owners, Owner, OwnerPCs, RowTypes, CurInv,
     CurPCs, TurnOrder, Beside, KeepsOrder, HeldRunning, Holds, LockInv,
     LockPCs, DecidePCs, CommitPCs, TaskPCs
<1>14. CASE ClearMode(p)
  BY <1>14, ConstantsOK DEF ClearMode, Go, ReleaseTurn, Unclaim, Finish, Loop,
     chatVars, Owners, Owner, OwnerPCs, RowTypes, CurInv, CurPCs, TurnOrder,
     Beside, KeepsOrder, HeldRunning, Holds, LockInv, LockPCs, DecidePCs,
     CommitPCs, TaskPCs
<1>15. QED
  BY <1>1, <1>2, <1>3, <1>4, <1>5, <1>6, <1>7, <1>8, <1>9, <1>10, <1>11,
     <1>12, <1>13, <1>14 DEF TaskStep

\* So do the requests that Orderly allows, guards and faults.
LEMMA EnvOrder ==
  ASSUME Orderly, RowTypes, OrderTypes, CurInv, LockInv, DecideInv,
         OneTurnAtATime, HeldRunning, SlotInv, NoSendInv, NoStrandedRunning,
         PosInv, KeepsOrder, TurnOrder, GuardClear \/ ClientStep \/ FaultStep
  PROVE  TurnOrder'
<1>1. CASE GuardClear
  BY <1>1, ConstantsOK DEF GuardClear, Unclaim, chatVars, procVars, Owners,
     Owner, OwnerPCs, RowTypes, CurInv, CurPCs, TurnOrder, Beside, KeepsOrder,
     HeldRunning, Holds, LockInv, LockPCs, DecidePCs, CommitPCs, TaskPCs
<1>2. ASSUME NEW p \in Procs, NEW m \in Msgs, SendMessage(p, m)
      PROVE  TurnOrder'
  BY <1>2 DEF SendMessage, GoWith, chatVars, procVars, NoSendInv, RowTypes,
     CurInv, CurPCs, TurnOrder, Beside, KeepsOrder, HeldRunning, Holds,
     LockInv, LockPCs, DecidePCs, CommitPCs, TaskPCs
<1>3. ASSUME NEW p \in Procs, NEW m \in Msgs, AddPrompt(p, m)
      PROVE  TurnOrder'
  BY <1>3 DEF AddPrompt, Orderly, RowTypes, CurInv, CurPCs, TurnOrder, Beside,
     KeepsOrder, HeldRunning, Holds, LockInv, LockPCs, DecidePCs, CommitPCs,
     TaskPCs
<1>4. ASSUME NEW p \in Procs, NEW m \in Msgs, DispatchItem(p, m)
      PROVE  TurnOrder'
  BY <1>4 DEF DispatchItem, GoWith, chatVars, ghostVars, Orderly, RowTypes,
     CurInv, CurPCs, TurnOrder, Beside, KeepsOrder, HeldRunning, Holds,
     LockInv, LockPCs, DecidePCs, CommitPCs, TaskPCs
<1>5. ASSUME NEW m \in Msgs, Enqueue(m)
      PROVE  TurnOrder'
  BY <1>5 DEF Enqueue, EnqueueRow, procVars, Orderly, NoSendInv, RowTypes,
     CurInv, CurPCs, TurnOrder, Beside, KeepsOrder, HeldRunning, Holds,
     LockInv, LockPCs, DecidePCs, CommitPCs, TaskPCs
<1>6. ASSUME NEW m \in Msgs, Cancel(m)
      PROVE  TurnOrder'
  BY <1>6 DEF Cancel, SetItem, procVars, RowTypes, CurInv, CurPCs, TurnOrder,
     Beside, KeepsOrder, HeldRunning, Holds, LockInv, LockPCs, DecidePCs,
     CommitPCs, TaskPCs
<1>7. ASSUME NEW p \in Procs,
                   NEW md \in {"auto", "manual"}, SetMode(p, md)
      PROVE  TurnOrder'
  BY <1>7 DEF SetMode, Go, ghostVars, RowTypes, CurInv, CurPCs, TurnOrder,
     Beside, KeepsOrder, HeldRunning, Holds, LockInv, LockPCs, DecidePCs,
     CommitPCs, TaskPCs
<1>8. ASSUME NEW p \in Procs, RunNext(p)
      PROVE  TurnOrder'
  BY <1>8 DEF RunNext, Go, chatVars, ghostVars, RowTypes, CurInv, CurPCs,
     TurnOrder, Beside, KeepsOrder, HeldRunning, Holds, LockInv, LockPCs,
     DecidePCs, CommitPCs, TaskPCs
<1>9. ASSUME NEW p \in Procs, RetryChat(p)
      PROVE  TurnOrder'
  BY <1>9 DEF RetryChat, ResetPrompt, ghostVars, RowTypes, CurInv, CurPCs,
     TurnOrder, Beside, KeepsOrder, HeldRunning, Holds, LockInv, LockPCs,
     DecidePCs, CommitPCs, TaskPCs
<1>10. ASSUME NEW p \in Procs, StopTurn(p)
       PROVE  TurnOrder'
  BY <1>10 DEF StopTurn, Go, chatVars, ghostVars, RowTypes, CurInv, CurPCs,
     TurnOrder, Beside, KeepsOrder, HeldRunning, Holds, LockInv, LockPCs,
     DecidePCs, CommitPCs, TaskPCs
<1>11. CASE DeleteChat
  BY <1>11 DEF DeleteChat, procVars, RowTypes, CurInv, CurPCs, TurnOrder,
     Beside, KeepsOrder, HeldRunning, Holds, LockInv, LockPCs, DecidePCs,
     CommitPCs, TaskPCs
<1>12. CASE RestoreChat
  BY <1>12 DEF RestoreChat, procVars, ghostVars, RowTypes, CurInv, CurPCs,
     TurnOrder, Beside, KeepsOrder, HeldRunning, Holds, LockInv, LockPCs,
     DecidePCs, CommitPCs, TaskPCs
<1>13. CASE Crash
  BY <1>13 DEF Crash, RowTypes, CurInv, CurPCs, TurnOrder, Beside, KeepsOrder,
     HeldRunning, Holds, LockInv, LockPCs, DecidePCs, CommitPCs, TaskPCs
<1>14. ASSUME NEW p \in Procs, Panic(p)
       PROVE  TurnOrder'
  BY <1>14 DEF Panic, Finish, Loop, chatVars, Orderly, RowsRolledBack, Spend,
     RowTypes, CurInv, CurPCs, TurnOrder, Beside, KeepsOrder, HeldRunning,
     Holds, LockInv, LockPCs, DecidePCs, CommitPCs, TaskPCs
<1>15. ASSUME NEW p \in Procs, Disconnect(p)
       PROVE  TurnOrder'
  BY <1>15 DEF Disconnect, Finish, Loop, chatVars, Orderly, RowsRolledBack,
     NoRuns, SlotInv, Handler, StopPCs, Spend, RowTypes, CurInv, CurPCs,
     TurnOrder, Beside, KeepsOrder, HeldRunning, Holds, LockInv, LockPCs,
     DecidePCs, CommitPCs, TaskPCs
<1>16. QED
  BY <1>1, <1>2, <1>3, <1>4, <1>5, <1>6, <1>7, <1>8, <1>9, <1>10, <1>11,
     <1>12, <1>13, <1>14, <1>15 DEF ClientStep, FaultStep

LEMMA OrderInvariant ==
  ASSUME Orderly
  PROVE  Spec => [](PosInv /\ FreshInv /\ TurnOrder)
<1>1. Init => PosInv /\ FreshInv /\ TurnOrder
  BY DEF Init, PosInv, FreshInv, TurnOrder, Seen
<1>2. /\ RowTypes /\ OrderTypes /\ CurInv /\ Control /\ RowInv /\ CommitInv
      /\ SlotInv /\ NoSendInv /\ NoStrandedRunning
      /\ PosInv /\ FreshInv /\ TurnOrder /\ [Next]_vars
      => PosInv' /\ FreshInv' /\ TurnOrder'
  <2>1. SUFFICES ASSUME RowTypes, OrderTypes, CurInv, Control, RowInv,
                        CommitInv, SlotInv, NoSendInv, NoStrandedRunning,
                        PosInv, FreshInv, TurnOrder, [Next]_vars
                 PROVE  PosInv' /\ FreshInv' /\ TurnOrder'
    OBVIOUS
  <2>2. LockInv /\ DecideInv /\ OneTurnAtATime /\ HeldRunning
    BY <2>1 DEF Control, RowInv
  <2>3. CASE Next
    <3>1. KeepsOrder
      BY <2>1, <2>2, <2>3, Orderly, HandlerQueue, TaskQueue, EnvQueue DEF Next
    <3>2. FreshInv'
      BY <2>1, <2>2, <2>3, Orderly, HandlerFresh, TaskFresh, EnvFresh DEF Next
    <3>3. TurnOrder'
      BY <2>1, <2>2, <2>3, <3>1, Orderly, HandlerOrder, TaskOrder, EnvOrder
         DEF Next
    <3>4. QED
      BY <3>1, <3>2, <3>3 DEF KeepsOrder
  <2>4. CASE UNCHANGED vars
    BY <2>1, <2>4 DEF vars, chatVars, procVars, ghostVars, PosInv, FreshInv,
       TurnOrder, Seen, Foremost, Beside
  <2>5. QED
    BY <2>1, <2>3, <2>4
<1>3. TypeOK => RowTypes /\ OrderTypes
  <2>1. Positions \subseteq Nat
    BY FS_CardinalityType, ConstantsOK DEF Positions
  <2>2. QED
    BY <2>1, ConstantsOK DEF TypeOK, StoreTypes, ProcTypes, HistoryTypes,
       RowTypes, OrderTypes
<1>4. Spec => []NoStrandedRunning
  BY Orderly, NeverStranded DEF Orderly
<1>5. QED
  BY <1>1, <1>2, <1>3, <1>4, TypeCorrect, ControlInvariant, RowsInvariant,
     CommitInvariant, SlotInvariant, NoSendInvariant, PTL DEF Spec

LEMMA SameLength ==
  ASSUME StoreTypes, StoreTypes', DOMAIN prompts' = DOMAIN prompts
  PROVE  ~(Len(prompts') > Len(prompts))
<1>1. /\ Len(prompts) \in Nat /\ DOMAIN prompts = 1 .. Len(prompts)
      /\ Len(prompts') \in Nat /\ DOMAIN prompts' = 1 .. Len(prompts')
  BY DEF StoreTypes
<1>2. QED
  BY <1>1

LEMMA SamePromptsLength ==
  ASSUME StoreTypes, UNCHANGED prompts
  PROVE  ~(Len(prompts') > Len(prompts))
BY DEF StoreTypes

\* Two handlers insert a prompt.
LEMMA HandlerInserts ==
  ASSUME StoreTypes, StoreTypes', Len(prompts') > Len(prompts), NEW p \in
         Procs, HandlerStep(p)
  PROVE  SendCommit(p) \/ RunAdd(p)
<1>1. CASE SendBusy(p)
  BY <1>1, SamePromptsLength DEF SendBusy
<1>2. CASE SendDecide(p)
  BY <1>2, SamePromptsLength DEF SendDecide, chatVars
<1>3. CASE SendPark(p)
  BY <1>3, SamePromptsLength DEF SendPark
<1>4. CASE SendParkMode(p)
  BY <1>4, SamePromptsLength DEF SendParkMode, chatVars
<1>5. CASE SendCommit(p)
  BY <1>5
<1>6. CASE SendIngest(p)
  BY <1>6, SameLength, SamePromptsLength DEF SendIngest, IngestPrompt
<1>7. CASE LegacyIngest(p)
  BY <1>7, SameLength, SamePromptsLength DEF LegacyIngest, IngestPrompt
<1>8. CASE Kick(p)
  BY <1>8, SamePromptsLength DEF Kick, chatVars
<1>9. CASE KickMode(p)
  BY <1>9, SamePromptsLength DEF KickMode, chatVars
<1>10. CASE KickPend(p)
  BY <1>10, SamePromptsLength DEF KickPend, chatVars
<1>11. CASE RunPop(p)
  BY <1>11, SamePromptsLength DEF RunPop
<1>12. CASE RunPick(p)
  BY <1>12, SamePromptsLength DEF RunPick
<1>13. CASE RunAdd(p)
  BY <1>13
<1>14. CASE RunIngest(p)
  BY <1>14, SameLength, SamePromptsLength DEF RunIngest, IngestPrompt
<1>15. CASE RetryGo(p)
  BY <1>15, SamePromptsLength DEF RetryGo, chatVars
<1>16. CASE StopTail(p)
  BY <1>16, SamePromptsLength DEF StopTail, chatVars
<1>17. CASE StopWrite(p)
  BY <1>17, SameLength DEF StopWrite
<1>18. CASE StopForce(p)
  BY <1>18, SamePromptsLength DEF StopForce, chatVars
<1>19. QED
  BY <1>1, <1>2, <1>3, <1>4, <1>5, <1>6, <1>7, <1>8, <1>9, <1>10, <1>11,
     <1>12, <1>13, <1>14, <1>15, <1>16, <1>17, <1>18 DEF HandlerStep

\* A task inserts one in its drain loop.
LEMMA TaskInserts ==
  ASSUME StoreTypes, StoreTypes', Len(prompts') > Len(prompts), NEW p \in
         Procs, TaskStep(p)
  PROVE  DrainAdd(p)
<1>1. CASE TurnStart(p)
  BY <1>1, SamePromptsLength DEF TurnStart, chatVars
<1>2. CASE TurnEcho(p)
  BY <1>2, SamePromptsLength DEF TurnEcho, chatVars
<1>3. CASE TurnEnd(p)
  BY <1>3, SamePromptsLength DEF TurnEnd, chatVars
<1>4. CASE TurnFlush(p)
  BY <1>4, SameLength, SamePromptsLength DEF TurnFlush, Flushed
<1>5. CASE TurnStale(p)
  BY <1>5, SameLength, SamePromptsLength DEF TurnStale, Flushed
<1>6. CASE TurnReset(p)
  BY <1>6, SameLength, SamePromptsLength DEF TurnReset, ResetPrompt
<1>7. CASE DrainCheck(p)
  BY <1>7, SamePromptsLength DEF DrainCheck, chatVars
<1>8. CASE DrainPop(p)
  BY <1>8, SamePromptsLength DEF DrainPop
<1>9. CASE DrainRecheck(p)
  BY <1>9, SamePromptsLength DEF DrainRecheck
<1>10. CASE DrainAdd(p)
  BY <1>10
<1>11. CASE DrainIngest(p)
  BY <1>11, SameLength, SamePromptsLength DEF DrainIngest, IngestPrompt
<1>12. CASE MarkDone(p)
  BY <1>12, SamePromptsLength DEF MarkDone
<1>13. CASE ClearDispatching(p)
  BY <1>13, SamePromptsLength DEF ClearDispatching, chatVars
<1>14. CASE ClearMode(p)
  BY <1>14, SamePromptsLength DEF ClearMode, chatVars
<1>15. QED
  BY <1>1, <1>2, <1>3, <1>4, <1>5, <1>6, <1>7, <1>8, <1>9, <1>10, <1>11,
     <1>12, <1>13, <1>14 DEF TaskStep

\* Of the requests only the legacy add_prompt does.
LEMMA EnvInserts ==
  ASSUME StoreTypes, StoreTypes', Len(prompts') > Len(prompts), GuardClear \/
         ClientStep \/ FaultStep
  PROVE  \E q \in Procs, n \in Msgs : AddPrompt(q, n)
<1>1. CASE GuardClear
  BY <1>1, SamePromptsLength DEF GuardClear, chatVars
<1>2. ASSUME NEW p \in Procs, NEW m \in Msgs, SendMessage(p, m)
      PROVE  \E q \in Procs, n \in Msgs : AddPrompt(q, n)
  BY <1>2, SamePromptsLength DEF SendMessage, chatVars
<1>3. ASSUME NEW p \in Procs, NEW m \in Msgs, AddPrompt(p, m)
      PROVE  \E q \in Procs, n \in Msgs : AddPrompt(q, n)
  BY <1>3
<1>4. ASSUME NEW p \in Procs, NEW m \in Msgs, DispatchItem(p, m)
      PROVE  \E q \in Procs, n \in Msgs : AddPrompt(q, n)
  BY <1>4, SamePromptsLength DEF DispatchItem, chatVars
<1>5. ASSUME NEW m \in Msgs, Enqueue(m)
      PROVE  \E q \in Procs, n \in Msgs : AddPrompt(q, n)
  BY <1>5, SamePromptsLength DEF Enqueue
<1>6. ASSUME NEW m \in Msgs, Cancel(m)
      PROVE  \E q \in Procs, n \in Msgs : AddPrompt(q, n)
  BY <1>6, SamePromptsLength DEF Cancel
<1>7. ASSUME NEW p \in Procs,
                   NEW md \in {"auto", "manual"}, SetMode(p, md)
      PROVE  \E q \in Procs, n \in Msgs : AddPrompt(q, n)
  BY <1>7, SamePromptsLength DEF SetMode
<1>8. ASSUME NEW p \in Procs, RunNext(p)
      PROVE  \E q \in Procs, n \in Msgs : AddPrompt(q, n)
  BY <1>8, SamePromptsLength DEF RunNext, chatVars
<1>9. ASSUME NEW p \in Procs, RetryChat(p)
      PROVE  \E q \in Procs, n \in Msgs : AddPrompt(q, n)
  BY <1>9, SameLength DEF RetryChat, ResetPrompt
<1>10. ASSUME NEW p \in Procs, StopTurn(p)
       PROVE  \E q \in Procs, n \in Msgs : AddPrompt(q, n)
  BY <1>10, SamePromptsLength DEF StopTurn, chatVars
<1>11. CASE DeleteChat
  BY <1>11, SameLength DEF DeleteChat
<1>12. CASE RestoreChat
  BY <1>12, SamePromptsLength DEF RestoreChat
<1>13. CASE Crash
  BY <1>13, SameLength DEF Crash
<1>14. ASSUME NEW p \in Procs, Panic(p)
       PROVE  \E q \in Procs, n \in Msgs : AddPrompt(q, n)
  BY <1>14, SamePromptsLength DEF Panic, chatVars
<1>15. ASSUME NEW p \in Procs, Disconnect(p)
       PROVE  \E q \in Procs, n \in Msgs : AddPrompt(q, n)
  BY <1>15, SamePromptsLength DEF Disconnect, chatVars
<1>16. QED
  BY <1>1, <1>2, <1>3, <1>4, <1>5, <1>6, <1>7, <1>8, <1>9, <1>10, <1>11,
     <1>12, <1>13, <1>14, <1>15 DEF ClientStep, FaultStep

\* With every owner in possession of its flag there is one owner at most, so
\* nobody stands beside it; while the flag is clear there is none at all.
LEMMA SoleOwner ==
  ASSUME ProcTypes, OneTurnAtATime, Owners \cap exposed = {},
         NEW p \in Procs, pc[p] \in OwnerPCs \/ ~flag
  PROVE  ~Beside(p)
BY DEF OneTurnAtATime, Owners, Owner, OwnerPCs, Beside

\* One inserted prompt, at the moment of its insert.
InTurn ==
  Owners \cap exposed = {} =>
    \A i, j \in DOMAIN accepted' :
      i < j /\ accepted'[j] = prompts'[Len(prompts')].msg
        => item[accepted'[i]] = "none"

LEMMA InsertInTurn ==
  ASSUME ProcTypes, StoreTypes, StoreTypes', OrderTypes, Control, CurInv,
         TurnOrder, NEW p \in Procs,
         SendCommit(p) \/ RunAdd(p) \/ DrainAdd(p), Len(prompts') > Len(prompts)
  PROVE  InTurn
<1>1. SUFFICES ASSUME Owners \cap exposed = {}
               PROVE  \A i, j \in DOMAIN accepted' :
                        i < j /\ accepted'[j] = prompts'[Len(prompts')].msg
                          => item[accepted'[i]] = "none"
  BY DEF InTurn
<1>2. cur[p] \in Msgs
  BY DEF CurInv, CurPCs, SendCommit, RunAdd, DrainAdd
<1>3. prompts' = Append(prompts, [msg |-> cur[p], events |-> "none", cached |-> FALSE])
  BY SamePromptsLength DEF SendCommit, RunAdd, DrainAdd, InsertPrompt
<1>4. prompts'[Len(prompts')].msg = cur[p]
  BY <1>3 DEF StoreTypes
<1>5. CASE SendCommit(p)
  <2>1. ~Beside(p)
    BY <1>1, <1>5, SoleOwner DEF SendCommit, Control, OwnerPCs, CommitPCs
  <2>2. \A m \in Msgs : item[m] = "none"
    BY <1>5, <2>1 DEF TurnOrder, SendCommit
  <2>3. accepted' = Append(accepted, cur[p]) \/ UNCHANGED accepted
    BY <1>5 DEF SendCommit
  <2>4. \A i \in DOMAIN accepted' : accepted'[i] \in Msgs
    BY <1>2, <2>3, AcceptSeen, SeenMsgs
  <2>5. QED
    BY <2>2, <2>4
<1>6. CASE RunAdd(p)
  <2>1. ~Beside(p)
    BY <1>1, <1>6, SoleOwner DEF RunAdd, Control, DecideInv, DecidePCs
  <2>2. Foremost(cur[p]) /\ UNCHANGED accepted
    BY <1>6, <2>1 DEF TurnOrder, RunAdd
  <2>3. QED
    BY <1>4, <2>2 DEF Foremost
<1>7. CASE DrainAdd(p)
  <2>1. ~Beside(p) /\ p \notin exposed
    BY <1>1, <1>7, SoleOwner DEF DrainAdd, Control, Owners, Owner, OwnerPCs,
       TaskPCs
  <2>2. Foremost(cur[p]) /\ UNCHANGED accepted
    BY <1>7, <2>1 DEF TurnOrder, DrainAdd
  <2>3. QED
    BY <1>4, <2>2 DEF Foremost
<1>8. QED
  BY <1>5, <1>6, <1>7

\* No message becomes a prompt while one that was accepted before it waits in
\* the queue, as long as every owner of the turn has its flag: send_message's
\* three rules, the head that drains and run-next clicks pop, and the rollbacks
\* keep the order in which the back end said yes.
THEOREM NeverOvertaken ==
  ASSUME Orderly
  PROVE  Spec => NoOvertaking
<1>1. /\ TypeOK /\ TypeOK' /\ CurInv /\ Control /\ TurnOrder /\ [Next]_vars
      => [Len(prompts') > Len(prompts) => InTurn]_vars
  <2>1. SUFFICES ASSUME TypeOK, TypeOK', CurInv, Control, TurnOrder, Next,
                        Len(prompts') > Len(prompts)
                 PROVE  InTurn
    OBVIOUS
  <2>2. StoreTypes /\ StoreTypes' /\ ProcTypes
    BY <2>1 DEF TypeOK
  <2>3. OrderTypes
    <3>1. Positions \subseteq Nat
      BY FS_CardinalityType, ConstantsOK DEF Positions
    <3>2. QED
      BY <2>1, <3>1 DEF TypeOK, StoreTypes, HistoryTypes, OrderTypes
  <2>4. CASE \E p \in Procs : HandlerStep(p) \/ TaskStep(p)
    BY <2>1, <2>2, <2>3, <2>4, HandlerInserts, TaskInserts, InsertInTurn
  <2>5. CASE GuardClear \/ ClientStep \/ FaultStep
    BY <2>1, <2>2, <2>5, Orderly, EnvInserts DEF Orderly, AddPrompt
  <2>6. QED
    BY <2>1, <2>4, <2>5 DEF Next
<1>2. NoOvertaking <=> [][Len(prompts') > Len(prompts) => InTurn]_vars
  <2>1. (Len(prompts') > Len(prompts) => InTurn)
        <=> (Len(prompts') > Len(prompts) /\ Owners \cap exposed = {} =>
               \A i, j \in DOMAIN accepted' :
                 i < j /\ accepted'[j] = prompts'[Len(prompts')].msg
                   => item[accepted'[i]] = "none")
    BY DEF InTurn
  <2>2. QED
    BY <2>1, PTL DEF NoOvertaking
<1>3. QED
  BY <1>1, <1>2, Orderly, TypeCorrect, ControlInvariant, OrderInvariant,
     PTL DEF Spec
=============================================================================
