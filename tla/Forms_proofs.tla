---------------------------- MODULE Forms_proofs ----------------------------
(***************************************************************************)
(* What Forms promises, proved for every list, name and budget.            *)
(***************************************************************************)
EXTENDS Forms, FiniteSetTheorems, SequenceTheorems, WellFoundedInduction, TLAPS

-----------------------------------------------------------------------------
(* Requests.  An invariant of a surface is about the requests of a few     *)
(* kinds; all that matters of a step is whether it makes one of these.     *)

Fields == {"n", "kind", "arg", "reply"}

Shaped == \A r \in calls : Fields \subseteq DOMAIN r

AtMostOne(kinds) == \A r, q \in calls : r.kind \in kinds /\ q.kind \in kinds => r = q

\* A step makes no request of these kinds, it may take some.
MakesNo(kinds) == \A q \in calls' \ calls : Fields \subseteq DOMAIN q /\ q.kind \notin kinds

\* A step answers one request.
Replies(r) == \E reply : r \in calls /\ calls' = (calls \ {r}) \cup {[r EXCEPT !.reply = reply]}

\* One request at a time, as Cardinality says it.
LEMMA AtMostOneCounted ==
  ASSUME NEW S, \A r, q \in S : r = q
  PROVE  Cardinality(S) <= 1
<1>1. CASE S = {}
  BY <1>1, FS_EmptySet
<1>2. CASE S # {}
  <2>1. PICK r \in S : TRUE
    BY <1>2
  <2>2. S = {r}
    BY <2>1
  <2>3. Cardinality(S) = 1
    BY <2>2, FS_Singleton
  <2> QED BY <2>3
<1> QED BY <1>1, <1>2

\* Neither a step that makes none of the kinds nor an answer makes two of one.
LEMMA NoneMade ==
  ASSUME NEW kinds, Shaped, AtMostOne(kinds), MakesNo(kinds)
  PROVE  Shaped' /\ AtMostOne(kinds)'
BY DEF Shaped, AtMostOne, MakesNo

LEMMA OneReplied ==
  ASSUME NEW kinds, NEW r, Shaped, AtMostOne(kinds), Replies(r)
  PROVE  Shaped' /\ AtMostOne(kinds)'
BY DEF Shaped, AtMostOne, Replies, Fields

-----------------------------------------------------------------------------
(* The rail.                                                               *)

\* The merge of a base that is under way is of the row that is marked.
RailInv ==
  /\ Shaped
  /\ AtMostOne({"base"})
  /\ "mergingBase" \in DOMAIN view
  /\ \A r \in calls : r.kind = "base" => r.arg \in Worktrees /\ view.mergingBase = r.arg

\* The mark stays as it is.
RailMarkKept == "mergingBase" \in DOMAIN view' /\ view'.mergingBase = view.mergingBase

LEMMA RailInit == Left!Init => RailInv
BY DEF Left!Init, Left!Fresh, RailInv, Shaped, AtMostOne

LEMMA RailSwept ==
  ASSUME NEW v, "mergingBase" \in DOMAIN v
  PROVE  "mergingBase" \in DOMAIN Left!Swept(v) /\ Left!Swept(v).mergingBase = v.mergingBase
BY DEF Left!Swept

LEMMA RailQuiet ==
  ASSUME RailInv, RailMarkKept, MakesNo({"base"})
  PROVE  RailInv'
BY NoneMade DEF RailInv, RailMarkKept, MakesNo

LEMMA RailReplied ==
  ASSUME RailInv, view' = view, NEW r, Replies(r)
  PROVE  RailInv'
<1>1. Shaped' /\ AtMostOne({"base"})'
  BY OneReplied DEF RailInv
<1> QED BY <1>1 DEF RailInv, Replies, Shaped, Fields

LEMMA RailStep == ASSUME RailInv, Left!Next PROVE RailInv'
<1> USE DEF MakesNo, Fields, RailMarkKept
<1>1. "mergingBase" \in DOMAIN view
  BY DEF RailInv
<1>2. ASSUME calls' = calls, RailMarkKept PROVE RailInv'
  BY <1>2, RailQuiet
<1>3. CASE Left!PollAllDrift
  BY <1>1, <1>2, <1>3, RailSwept DEF Left!PollAllDrift
<1>4. CASE Left!KeepWorktree \/ Left!CloseDialog \/ Left!PointerDown \/ Left!PointerUp
  BY <1>1, <1>2, <1>4 DEF Left!KeepWorktree, Left!CloseDialog, Left!PointerDown, Left!PointerUp
<1>5. ASSUME NEW px \in Widths, Left!PointerMove(px) \/ Left!NudgeWidth(px) PROVE RailInv'
  BY <1>1, <1>2, <1>5 DEF Left!PointerMove, Left!NudgeWidth
<1>6. ASSUME NEW tab, Left!SetTab(tab) PROVE RailInv'
  BY <1>1, <1>2, <1>6 DEF Left!SetTab
<1>7. ASSUME NEW id, Left!SelectRow(id) PROVE RailInv'
  <2> DEFINE v == [view EXCEPT !.scope = id]
  <2>1. "mergingBase" \in DOMAIN v /\ v.mergingBase = view.mergingBase
    BY <1>1
  <2>2. view' = Left!Swept(v) /\ calls' = calls
    BY <1>7 DEF Left!SelectRow
  <2> QED BY <1>2, <2>1, <2>2, RailSwept
<1>8. ASSUME NEW id, Left!ToggleExpanded(id) PROVE RailInv'
  <2> PICK now : view' = Left!Swept([view EXCEPT !.expanded = now]) /\ calls' = calls
    BY <1>8 DEF Left!ToggleExpanded
  <2>1. "mergingBase" \in DOMAIN [view EXCEPT !.expanded = now]
        /\ [view EXCEPT !.expanded = now].mergingBase = view.mergingBase
    BY <1>1
  <2> QED BY <1>2, <2>1, RailSwept
<1>9. ASSUME NEW id, Left!ToggleMenu(id) PROVE RailInv'
  BY <1>1, <1>2, <1>9 DEF Left!ToggleMenu
<1>10. ASSUME NEW id, NEW item, Left!OpenDialog(id, item) PROVE RailInv'
  BY <1>1, <1>2, <1>10 DEF Left!OpenDialog, Left!Shut
<1>11. ASSUME NEW w, Left!AskRemove(w) \/ Left!ForgeMoves(w) PROVE RailInv'
  BY <1>1, <1>2, <1>11 DEF Left!AskRemove, Left!ForgeMoves, Left!Shut
<1>12. CASE Left!PullProject
  <2>1. MakesNo({"base"})
    BY <1>12 DEF Left!PullProject, Left!Asks, Left!Request
  <2>2. RailMarkKept
    BY <1>1, <1>12 DEF Left!PullProject, Left!Shut
  <2> QED BY <2>1, <2>2, RailQuiet
<1>13. CASE Left!DeleteWorktree
  <2> DEFINE w == view.confirming
             v == [view EXCEPT !.confirming = None, !.rows = @ \ {w}, !.scope = IF @ = w THEN Root ELSE @]
  <2>1. MakesNo({"base"}) /\ view' = Left!Swept(v)
    BY <1>13 DEF Left!DeleteWorktree, Left!Asks, Left!Request
  <2>2. "mergingBase" \in DOMAIN v /\ v.mergingBase = view.mergingBase
    BY <1>1
  <2>3. RailMarkKept
    BY <2>1, <2>2, RailSwept
  <2> QED BY <2>1, <2>3, RailQuiet
<1>14. CASE Left!DialogDone
  <2>1. MakesNo({"base"})
    BY <1>14 DEF Left!DialogDone, Left!Asks, Left!Request
  <2>2. RailMarkKept
    BY <1>1, <1>14 DEF Left!DialogDone
  <2> QED BY <2>1, <2>2, RailQuiet
<1>15. ASSUME NEW w, Left!FetchDrift(w) \/ Left!MergePr(w) \/ Left!DriftChip(w) PROVE RailInv'
  <2>1. MakesNo({"base"})
    <3>1. PICK kind \in {"drift", "merge"} : calls' = calls \cup {Left!Request(kind, w)}
      BY <1>15 DEF Left!FetchDrift, Left!DriftChip, Left!MergePr, Left!Asks
    <3> QED BY <3>1 DEF Left!Request
  <2>2. CASE Left!FetchDrift(w) \/ Left!MergePr(w)
    BY <1>1, <2>1, <2>2, RailQuiet DEF Left!FetchDrift, Left!MergePr
  <2>3. CASE Left!DriftChip(w)
    <3>1. PICK talks \in BOOLEAN :
            view' = [view EXCEPT !.scope = w, !.injection = TRUE, !.err = IF talks THEN @ ELSE FALSE,
                                 !.dialog = IF talks THEN @ ELSE [item |-> "chat", row |-> w]]
      BY <2>3 DEF Left!DriftChip
    <3>2. RailMarkKept
      BY <1>1, <3>1
    <3> QED BY <2>1, <3>2, RailQuiet
  <2> QED BY <1>15, <2>2, <2>3
<1>16. ASSUME NEW w \in Worktrees, Left!MergeWorktreeBase(w) PROVE RailInv'
  <2>1. CASE view.mergingBase # None
    BY <1>1, <1>2, <1>16, <2>1 DEF Left!MergeWorktreeBase, Left!Shut
  <2>2. CASE view.mergingBase = None
    <3>1. \A r \in calls : r.kind # "base"
      BY <2>2, RailOK DEF RailInv
    <3>2. calls' = calls \cup {Left!Request("base", w)} /\ view' = [Left!Shut EXCEPT !.mergingBase = w]
      BY <1>16, <2>2 DEF Left!MergeWorktreeBase, Left!Asks
    <3>3. "mergingBase" \in DOMAIN view' /\ view'.mergingBase = w
      BY <1>1, <3>2 DEF Left!Shut
    <3> QED BY <3>1, <3>2, <3>3 DEF RailInv, Shaped, AtMostOne, Left!Request
  <2> QED BY <2>1, <2>2
<1>17. ASSUME NEW r \in calls, Left!MergeBaseDone(r) PROVE RailInv'
  <2>1. r.kind = "base" /\ "mergingBase" \in DOMAIN view'
    BY <1>1, <1>17 DEF Left!MergeBaseDone, Left!Takes, Left!TakesAsking, Left!TakesAskingEach
  <2>2. \A q \in calls' : q \in calls \ {r} \/ (Fields \subseteq DOMAIN q /\ q.kind # "base")
    BY <1>17 DEF Left!MergeBaseDone, Left!Takes, Left!TakesAsking, Left!TakesAskingEach, Left!Request
  <2> QED BY <2>1, <2>2 DEF RailInv, Shaped, AtMostOne
<1>18. ASSUME NEW r \in calls, Left!DriftDone(r) \/ Left!PullDone(r) PROVE RailInv'
  <2>1. MakesNo({"base"})
    BY <1>18 DEF Left!DriftDone, Left!PullDone, Left!Takes
  <2>2. RailMarkKept
    BY <1>1, <1>18 DEF Left!DriftDone, Left!PullDone
  <2> QED BY <2>1, <2>2, RailQuiet
<1>19. ASSUME NEW r \in calls, Left!MergePrDone(r) \/ Left!DeleteDone(r) PROVE RailInv'
  <2>1. MakesNo({"base"})
    BY <1>19 DEF Left!MergePrDone, Left!DeleteDone, Left!TakesAsking, Left!TakesAskingEach, Left!Request
  <2>2. RailMarkKept
    BY <1>1, <1>19 DEF Left!MergePrDone, Left!DeleteDone
  <2> QED BY <2>1, <2>2, RailQuiet
<1>20. ASSUME NEW r \in calls, Left!DeleteFailed(r) PROVE RailInv'
  <2> DEFINE v == [view EXCEPT !.rows = r.arg.before, !.err = TRUE]
  <2>1. "mergingBase" \in DOMAIN v /\ v.mergingBase = view.mergingBase
    BY <1>1
  <2>2. MakesNo({"base"}) /\ view' = Left!Swept(v)
    BY <1>20 DEF Left!DeleteFailed, Left!Takes
  <2>3. RailMarkKept
    BY <2>1, <2>2, RailSwept
  <2> QED BY <2>2, <2>3, RailQuiet
<1>21. ASSUME NEW r \in calls, Left!RefreshWorktrees(r) PROVE RailInv'
  <2> DEFINE v == IF r.reply = Failed THEN view ELSE [view EXCEPT !.rows = r.reply]
             w == IF r.arg = None THEN v ELSE [v EXCEPT !.scope = r.arg]
  <2>1. "mergingBase" \in DOMAIN w /\ w.mergingBase = view.mergingBase
    BY <1>1
  <2>2. MakesNo({"base"}) /\ view' = Left!Swept(w)
    BY <1>21 DEF Left!RefreshWorktrees, Left!Takes
  <2>3. RailMarkKept
    BY <2>1, <2>2, RailSwept
  <2> QED BY <2>2, <2>3, RailQuiet
<1>22. CASE Left!Reload
  BY <1>22 DEF Left!Reload, Left!Fresh, Left!Request, RailInv, Shaped, AtMostOne
<1>23. ASSUME NEW r \in calls, Left!Serve(r) PROVE RailInv'
  <2>1. Replies(r) /\ view' = view
    BY <1>23 DEF Left!Serve, Left!Answers, Replies
  <2> QED BY <2>1, RailReplied
<1>24. ASSUME NEW r \in calls, Left!Fails(r) PROVE RailInv'
  <2>1. Replies(r) /\ view' = view
    BY <1>24 DEF Left!Fails, Left!Answers, Replies
  <2> QED BY <2>1, RailReplied
<1> QED
  BY <1>3, <1>4, <1>5, <1>6, <1>7, <1>8, <1>9, <1>10, <1>11, <1>12, <1>13, <1>14, <1>15, <1>16,
     <1>17, <1>18, <1>19, <1>20, <1>21, <1>22, <1>23, <1>24 DEF Left!Next

LEMMA RailSafe == ASSUME RailInv PROVE Left!OneMergeAtATime
<1> DEFINE S == {r \in calls : r.kind = "base"}
<1>1. \A r, q \in S : r = q
  BY DEF RailInv, AtMostOne
<1>2. Cardinality(S) <= 1
  <2> HIDE DEF S
  <2> QED BY <1>1, AtMostOneCounted
<1> QED BY <1>2 DEF RailInv, Left!OneMergeAtATime, Cardinality, Left!Cardinality

-----------------------------------------------------------------------------
(* The form for a chat.                                                    *)

ChatInv ==
  /\ Shaped
  /\ AtMostOne({"create"})
  /\ "busy" \in DOMAIN view
  /\ \A r \in calls : r.kind = "create" => view.busy

\* Whether the form is busy stays as it is.
BusyKept == "busy" \in DOMAIN view' /\ view'.busy = view.busy

LEMMA ChatPreset ==
  ASSUME NEW v, NEW list, NEW settings, "busy" \in DOMAIN v
  PROVE  /\ "busy" \in DOMAIN Chat!Preset(v, list, settings)
         /\ Chat!Preset(v, list, settings).busy = v.busy
<1>1. CASE Chat!Target(list, settings) = None
  BY <1>1 DEF Chat!Preset
<1>2. CASE Chat!Target(list, settings) # None
  BY <1>2 DEF Chat!Preset
<1> QED BY <1>1, <1>2

LEMMA ChatInit == ASSUME Chat!Init PROVE ChatInv
<1>1. PICK b : calls = {[n |-> -b.asks, kind |-> "list", arg |-> None, reply |-> None]}
  BY DEF Chat!Init
<1>2. "busy" \in DOMAIN view
  <2> DEFINE empty(cached) ==
        [open |-> TRUE, list |-> Chat!NoModels, provider |-> None, model |-> Free,
         loading |-> TRUE, refreshing |-> FALSE, busy |-> FALSE, err |-> FALSE, cached |-> cached]
  <2>1. ASSUME NEW cached, NEW list, NEW settings,
               view = IF cached
                      THEN Chat!Preset([empty(cached) EXCEPT !.list = list, !.loading = FALSE],
                                       list, settings)
                      ELSE empty(cached)
        PROVE  "busy" \in DOMAIN view
    <3> DEFINE v == [empty(cached) EXCEPT !.list = list, !.loading = FALSE]
    <3>1. "busy" \in DOMAIN empty(cached) /\ "busy" \in DOMAIN v
      OBVIOUS
    <3> HIDE DEF v, empty
    <3>2. "busy" \in DOMAIN Chat!Preset(v, list, settings)
      BY <3>1, ChatPreset
    <3> QED BY <2>1, <3>1, <3>2 DEF v
  <2> QED BY <2>1 DEF Chat!Init
<1> QED BY <1>1, <1>2 DEF ChatInv, Shaped, Fields, AtMostOne

LEMMA ChatQuiet ==
  ASSUME ChatInv, BusyKept, MakesNo({"create"})
  PROVE  ChatInv'
BY NoneMade DEF ChatInv, BusyKept, MakesNo

LEMMA ChatReplied ==
  ASSUME ChatInv, view' = view, NEW r, Replies(r)
  PROVE  ChatInv'
<1>1. Shaped' /\ AtMostOne({"create"})'
  BY OneReplied DEF ChatInv
<1> QED BY <1>1 DEF ChatInv, Replies, Shaped, Fields

LEMMA ChatStep == ASSUME ChatInv, Chat!Next PROVE ChatInv'
<1> USE DEF MakesNo, Fields, BusyKept
<1>1. "busy" \in DOMAIN view
  BY DEF ChatInv
<1>2. ASSUME calls' = calls, BusyKept PROVE ChatInv'
  BY <1>2, ChatQuiet
<1>3. CASE Chat!RefreshActiveProvider
  <2>1. MakesNo({"create"})
    BY <1>3 DEF Chat!RefreshActiveProvider, Chat!Asks, Chat!Request
  <2> QED BY <1>1, <1>3, <2>1, ChatQuiet DEF Chat!RefreshActiveProvider
<1>4. CASE Chat!Refuse \/ Chat!Cancel
  BY <1>1, <1>2, <1>4 DEF Chat!Refuse, Chat!Cancel
<1>5. CASE Chat!Submit
  <2>1. \A r \in calls : r.kind # "create"
    BY <1>5 DEF Chat!Submit, Chat!Submittable, ChatInv
  <2>2. PICK arg : calls' = calls \cup {Chat!Request("create", arg)}
    BY <1>5 DEF Chat!Submit, Chat!Asks
  <2>3. "busy" \in DOMAIN view' /\ view'.busy = TRUE
    BY <1>1, <1>5 DEF Chat!Submit
  <2> QED BY <2>1, <2>2, <2>3 DEF ChatInv, Shaped, AtMostOne, Chat!Request
<1>6. ASSUME NEW p, Chat!onPickProvider(p) PROVE ChatInv'
  BY <1>1, <1>2, <1>6 DEF Chat!onPickProvider
<1>7. ASSUME NEW m, Chat!PickModel(m) PROVE ChatInv'
  BY <1>1, <1>2, <1>7 DEF Chat!PickModel
<1>8. ASSUME NEW list, Chat!Installs(list) PROVE ChatInv'
  BY <1>1, <1>2, <1>8 DEF Chat!Installs
<1>9. ASSUME NEW r \in calls, Chat!ListDone(r) PROVE ChatInv'
  <2> DEFINE v == [view EXCEPT !.list = r.reply, !.loading = FALSE]
  <2>1. "busy" \in DOMAIN v /\ v.busy = view.busy
    BY <1>1
  <2>2. \/ view' = [view EXCEPT !.loading = FALSE, !.err = @ \/ ~view.cached]
        \/ view' = v
        \/ view' = Chat!Preset(v, r.reply, server.settings)
    BY <1>9 DEF Chat!ListDone
  <2>3. BusyKept
    <3>1. CASE view' = [view EXCEPT !.loading = FALSE, !.err = @ \/ ~view.cached]
      BY <1>1, <3>1
    <3>2. CASE view' = v
      BY <2>1, <3>2
    <3>3. CASE view' = Chat!Preset(v, r.reply, server.settings)
      <4> HIDE DEF v
      <4> QED BY <2>1, <3>3, ChatPreset
    <3> QED BY <2>2, <3>1, <3>2, <3>3
  <2>4. MakesNo({"create"})
    BY <1>9 DEF Chat!ListDone, Chat!Takes
  <2> QED BY <2>3, <2>4, ChatQuiet
<1>10. ASSUME NEW r \in calls, Chat!RefreshDone(r) PROVE ChatInv'
  <2>1. BusyKept
    BY <1>1, <1>10 DEF Chat!RefreshDone
  <2>2. MakesNo({"create"})
    BY <1>10 DEF Chat!RefreshDone, Chat!Takes
  <2> QED BY <2>1, <2>2, ChatQuiet
<1>11. ASSUME NEW r \in calls, Chat!SubmitDone(r) PROVE ChatInv'
  <2>1. r.kind = "create" /\ calls' = calls \ {r} /\ "busy" \in DOMAIN view'
    BY <1>1, <1>11 DEF Chat!SubmitDone, Chat!Takes
  <2> QED BY <2>1 DEF ChatInv, Shaped, AtMostOne
<1>12. ASSUME NEW r \in calls, Chat!Serve(r) PROVE ChatInv'
  <2>1. Replies(r) /\ view' = view
    BY <1>12 DEF Chat!Serve, Chat!Answers, Replies
  <2> QED BY <2>1, ChatReplied
<1>13. ASSUME NEW r \in calls, Chat!Fails(r) PROVE ChatInv'
  <2>1. Replies(r) /\ view' = view
    BY <1>13 DEF Chat!Fails, Chat!Answers, Replies
  <2> QED BY <2>1, ChatReplied
<1> QED
  BY <1>3, <1>4, <1>5, <1>6, <1>7, <1>8, <1>9, <1>10, <1>11, <1>12, <1>13 DEF Chat!Next

LEMMA ChatSafe == ASSUME ChatInv PROVE Chat!OneSubmitAtATime
<1> DEFINE S == {r \in calls : r.kind = "create"}
<1>1. \A r, q \in S : r = q
  BY DEF ChatInv, AtMostOne
<1>2. Cardinality(S) <= 1
  <2> HIDE DEF S
  <2> QED BY <1>1, AtMostOneCounted
<1> QED BY <1>2 DEF Chat!OneSubmitAtATime, Cardinality, Chat!Cardinality

-----------------------------------------------------------------------------
(* The picker of a folder.                                                 *)

\* A folder is being made until it has been browsed.
Making(r) == r.kind = "mkdir" \/ (r.kind = "browse" /\ r.arg.made)

FolderInv ==
  /\ Shaped
  /\ {"busy", "picking"} \subseteq DOMAIN view
  /\ \A r, q \in calls : Making(r) /\ Making(q) => r = q
  /\ \A r \in calls : Making(r) => view.busy /\ view.picking

\* Whether the picker is open and busy stays as it is.
PickerKept ==
  /\ {"busy", "picking"} \subseteq DOMAIN view'
  /\ view'.busy = view.busy /\ view'.picking = view.picking

MakesNoFolder == \A q \in calls' \ calls : Fields \subseteq DOMAIN q /\ ~Making(q)

LEMMA FolderInit == ASSUME Folder!Init PROVE FolderInv
BY DEF Folder!Init, FolderInv, Shaped

LEMMA FolderQuiet ==
  ASSUME FolderInv, PickerKept, MakesNoFolder
  PROVE  FolderInv'
BY DEF FolderInv, PickerKept, MakesNoFolder, Shaped, Making

LEMMA FolderReplied ==
  ASSUME FolderInv, view' = view, NEW r, Replies(r)
  PROVE  FolderInv'
<1>1. PICK reply : r \in calls /\ calls' = (calls \ {r}) \cup {[r EXCEPT !.reply = reply]}
  BY DEF Replies
<1>2. Fields \subseteq DOMAIN [r EXCEPT !.reply = reply]
      /\ (Making([r EXCEPT !.reply = reply]) <=> Making(r))
  BY <1>1 DEF FolderInv, Shaped, Fields, Making
<1> QED BY <1>1, <1>2 DEF FolderInv, Shaped, Making

LEMMA FolderStep == ASSUME FolderInv, Folder!Next PROVE FolderInv'
<1> USE DEF Fields
<1>1. {"busy", "picking"} \subseteq DOMAIN view
  BY DEF FolderInv
<1>2. ASSUME calls' = calls, PickerKept PROVE FolderInv'
  BY <1>2, FolderQuiet DEF MakesNoFolder
<1>3. CASE Folder!Open
  <2>1. calls' = calls \cup {Folder!Request("home", None)} /\ \A r \in calls : ~Making(r)
    BY <1>3 DEF Folder!Open, Folder!Asks, FolderInv
  <2>2. {"busy", "picking"} \subseteq DOMAIN view'
    BY <1>1, <1>3 DEF Folder!Open
  <2> QED BY <2>1, <2>2 DEF FolderInv, Shaped, Making, Folder!Request
<1>4. CASE Folder!startCreate
  BY <1>1, <1>2, <1>4 DEF Folder!startCreate, PickerKept
<1>5. CASE Folder!Cancel
  <2>1. calls' = calls \ Folder!OfPicker /\ {"busy", "picking"} \subseteq DOMAIN view'
    BY <1>1, <1>5 DEF Folder!Cancel
  <2>2. \A r \in calls' : r \in calls /\ ~Making(r)
    BY <2>1 DEF Folder!OfPicker, Making
  <2> QED BY <2>1, <2>2 DEF FolderInv, Shaped, Making
<1>6. CASE Folder!onSelect
  <2>1. MakesNoFolder
    BY <1>6 DEF Folder!onSelect, Folder!Asks, Folder!Request, MakesNoFolder, Making
  <2> QED BY <1>1, <1>6, <2>1, FolderQuiet DEF Folder!onSelect, PickerKept
<1>7. CASE Folder!deleteProject
  <2>1. MakesNoFolder
    BY <1>7 DEF Folder!deleteProject, Folder!Asks, Folder!Request, MakesNoFolder, Making
  <2> QED BY <1>1, <1>7, <2>1, FolderQuiet DEF Folder!deleteProject, PickerKept
<1>8. ASSUME NEW dir, Folder!Navigate(dir) PROVE FolderInv'
  <2>1. MakesNoFolder
    BY <1>8 DEF Folder!Navigate, Folder!Asks, Folder!Request, MakesNoFolder, Making
  <2> QED BY <1>1, <1>8, <2>1, FolderQuiet DEF Folder!Navigate, PickerKept
<1>9. ASSUME NEW dir, Folder!submitCreate(dir) PROVE FolderInv'
  <2>1. view.picking /\ \A r \in calls : ~Making(r)
    BY <1>9 DEF Folder!submitCreate, FolderInv
  <2>2. calls' = calls \cup {Folder!Request("mkdir", dir)}
        /\ view' = [view EXCEPT !.busy = TRUE, !.err = FALSE]
    BY <1>9 DEF Folder!submitCreate, Folder!Asks
  <2>3. {"busy", "picking"} \subseteq DOMAIN view' /\ view'.busy = TRUE /\ view'.picking = view.picking
    BY <1>1, <2>2
  <2> QED BY <2>1, <2>2, <2>3 DEF FolderInv, Shaped, Making, Folder!Request
<1>10. ASSUME NEW p, Folder!AskRemove(p) PROVE FolderInv'
  BY <1>1, <1>2, <1>10 DEF Folder!AskRemove, PickerKept
<1>11. ASSUME NEW r \in calls, Folder!HomeDone(r) PROVE FolderInv'
  <2>1. MakesNoFolder
    BY <1>11 DEF Folder!HomeDone, Folder!Takes, Folder!TakesAsking, Folder!TakesAskingEach,
                 Folder!Request, MakesNoFolder, Making
  <2> QED BY <1>1, <1>11, <2>1, FolderQuiet DEF Folder!HomeDone, PickerKept
<1>12. ASSUME NEW r \in calls, Folder!Browsed(r) PROVE FolderInv'
  <2>1. r.kind = "browse" /\ calls' = calls \ {r}
    BY <1>12 DEF Folder!Browsed, Folder!Takes
  <2> DEFINE v == [view EXCEPT !.loading = FALSE, !.busy = IF r.arg.made THEN FALSE ELSE @]
  <2>2. view' = [v EXCEPT !.err = TRUE]
        \/ view' = [v EXCEPT !.at = r.reply.at, !.entries = r.reply.entries]
    BY <1>12 DEF Folder!Browsed
  <2>3. /\ {"busy", "picking"} \subseteq DOMAIN view'
        /\ view'.picking = view.picking
        /\ ~r.arg.made => view'.busy = view.busy
    BY <1>1, <2>2
  <2>4. CASE r.arg.made
    <3>1. \A q \in calls' : q \in calls /\ ~Making(q)
      BY <2>1, <2>4 DEF FolderInv, Making
    <3> QED BY <2>3, <3>1 DEF FolderInv, Shaped, Making
  <2>5. CASE ~r.arg.made
    BY <2>1, <2>3, <2>5, FolderQuiet DEF PickerKept, MakesNoFolder
  <2> QED BY <2>4, <2>5
<1>13. ASSUME NEW r \in calls, Folder!Created(r) PROVE FolderInv'
  <2>1. r.kind = "mkdir"
    BY <1>13 DEF Folder!Created, Folder!Takes, Folder!TakesAsking, Folder!TakesAskingEach
  <2>2. view.busy /\ view.picking /\ \A q \in calls \ {r} : ~Making(q)
    BY <2>1 DEF FolderInv, Making
  <2>3. CASE r.reply # Failed
    <3>1. /\ calls' = (calls \ {r}) \cup {Folder!Request("browse", [dir |-> r.arg, made |-> TRUE])}
          /\ view' = [view EXCEPT !.creating = FALSE, !.loading = TRUE, !.err = FALSE]
      <4>1. Folder!TakesAsking(r, "mkdir", "browse", [dir |-> r.arg, made |-> TRUE])
            /\ view' = [view EXCEPT !.creating = FALSE, !.loading = TRUE, !.err = FALSE]
        BY <1>13, <2>3 DEF Folder!Created
      <4> QED BY <4>1 DEF Folder!TakesAsking, Folder!TakesAskingEach
    <3>2. {"busy", "picking"} \subseteq DOMAIN view' /\ view'.busy = view.busy /\ view'.picking = view.picking
      BY <1>1, <3>1
    <3> QED BY <2>2, <3>1, <3>2 DEF FolderInv, Shaped, Making, Folder!Request
  <2>4. CASE r.reply = Failed
    <3>1. calls' = calls \ {r} /\ {"busy", "picking"} \subseteq DOMAIN view'
      BY <1>1, <1>13, <2>4 DEF Folder!Created, Folder!Takes
    <3> QED BY <2>2, <3>1 DEF FolderInv, Shaped, Making
  <2> QED BY <2>3, <2>4
<1>14. ASSUME NEW r \in calls, Folder!Added(r) PROVE FolderInv'
  <2>1. CASE r.reply = Failed
    <3>1. MakesNoFolder
      BY <1>14, <2>1 DEF Folder!Added, Folder!Takes, MakesNoFolder
    <3> QED BY <1>1, <1>14, <2>1, <3>1, FolderQuiet DEF Folder!Added, PickerKept
  <2>2. CASE r.reply # Failed
    <3>1. calls' = (calls \ (Folder!OfPicker \cup {r})) \cup {Folder!Request("projects", None)}
          /\ {"busy", "picking"} \subseteq DOMAIN view'
      BY <1>1, <1>14, <2>2 DEF Folder!Added
    <3>2. \A q \in calls' : ~Making(q) /\ Fields \subseteq DOMAIN q
      BY <3>1 DEF Folder!OfPicker, Making, Folder!Request, FolderInv, Shaped
    <3> QED BY <3>1, <3>2 DEF FolderInv, Shaped, Making
  <2> QED BY <2>1, <2>2
<1>15. ASSUME NEW r \in calls, Folder!Removed(r) PROVE FolderInv'
  <2>1. MakesNoFolder
    BY <1>15 DEF Folder!Removed, Folder!Takes, Folder!TakesAsking, Folder!TakesAskingEach,
                 Folder!Request, MakesNoFolder, Making
  <2> QED BY <1>1, <1>15, <2>1, FolderQuiet DEF Folder!Removed, PickerKept
<1>16. ASSUME NEW r \in calls, Folder!refreshProjects(r) PROVE FolderInv'
  <2>1. MakesNoFolder
    BY <1>16 DEF Folder!refreshProjects, Folder!Takes, Folder!TakesAsking, Folder!TakesAskingEach,
                 Folder!Request, MakesNoFolder, Making
  <2> QED BY <1>1, <1>16, <2>1, FolderQuiet DEF Folder!refreshProjects, PickerKept
<1>17. ASSUME NEW r \in calls, Folder!WorktreesListed(r) PROVE FolderInv'
  <2>1. MakesNoFolder
    BY <1>17 DEF Folder!WorktreesListed, Folder!Takes, MakesNoFolder
  <2> QED BY <1>1, <1>17, <2>1, FolderQuiet DEF Folder!WorktreesListed, PickerKept
<1>18. ASSUME NEW r \in calls, Folder!Serve(r) PROVE FolderInv'
  <2>1. Replies(r) /\ view' = view
    BY <1>18 DEF Folder!Serve, Folder!Answers, Replies
  <2> QED BY <2>1, FolderReplied
<1>19. ASSUME NEW r \in calls, Folder!Fails(r) PROVE FolderInv'
  <2>1. Replies(r) /\ view' = view
    BY <1>19 DEF Folder!Fails, Folder!Answers, Replies
  <2> QED BY <2>1, FolderReplied
<1> QED
  BY <1>3, <1>4, <1>5, <1>6, <1>7, <1>8, <1>9, <1>10, <1>11, <1>12, <1>13, <1>14, <1>15, <1>16,
     <1>17, <1>18, <1>19 DEF Folder!Next

LEMMA FolderSafe == ASSUME FolderInv PROVE Folder!OneSubmitAtATime
<1> DEFINE S == {r \in calls : r.kind = "mkdir"}
<1>1. \A r, q \in S : r = q
  BY DEF FolderInv, Making
<1>2. Cardinality(S) <= 1
  <2> HIDE DEF S
  <2> QED BY <1>1, AtMostOneCounted
<1> QED BY <1>2 DEF Folder!OneSubmitAtATime, Cardinality, Folder!Cardinality

-----------------------------------------------------------------------------
(* The form for a worktree.                                                *)

Submitting == {"create", "rename"}

\* The row of the new worktree is there, or has been.
Made == server.row # None \/ None \in server.was

\* What the server says, or has said, of the row is what became of it.
Became(row) == row \in {"ready", "failed"} => row \in server.was

\* What the form keeps of all this.
Watched == {"busy", "phase", "seen", "listed", "polls"}

\* One submit, while the form is busy.
SubmitInv ==
  /\ Shaped
  /\ AtMostOne(Submitting)
  /\ "busy" \in DOMAIN view
  /\ \A r \in calls : r.kind \in Submitting => view.busy

\* The list is not read before the row is made, and what it said of the row
\* came to pass; a row that is missing from it has been made and is gone.
ListedInv ==
  /\ \A r \in calls : r.kind = "create" /\ r.reply \notin {None, Failed} => Made
  /\ \A r \in calls : r.kind = "rows" => Made
  /\ \A r \in calls : r.kind = "rows" /\ r.reply \notin {None, Failed} =>
       Became(r.reply.row) /\ (r.reply.row = None => None \in server.was)
  /\ {"row", "was", "name", "sent"} \subseteq DOMAIN server
  /\ Became(server.row)

PhaseInv ==
  /\ Watched \subseteq DOMAIN view
  /\ Became(view.listed)
  /\ view.seen /\ view.listed = None => None \in server.was
  /\ view.polls => Made
  /\ NewWorktree!VerdictIsTrue

WorktreeInv == SubmitInv /\ ListedInv /\ PhaseInv

LEMMA WorktreeInit == ASSUME NewWorktree!Init PROVE WorktreeInv
<1>1. PICK rename \in BOOLEAN, where \in {"live", "history", "git"}, b \in Budgets.worktree :
        /\ calls = {[n |-> -b.asks, kind |-> kind, arg |-> None, reply |-> None] :
                    kind \in {"history"} \cup IF rename THEN {} ELSE {"git"}}
        /\ server = [taken |-> [w \in {"live", "history", "git"} |-> IF w = where THEN {TakenName} ELSE {}],
                     name |-> None, row |-> None, was |-> {}, sent |-> 0]
        /\ view = [rename |-> rename, open |-> TRUE, phase |-> "form", branch |-> None,
                   edited |-> FALSE, live |-> IF where = "live" THEN {TakenName} ELSE {}, history |-> {}, git |-> {},
                   busy |-> FALSE, err |-> FALSE, listed |-> None, seen |-> FALSE, polls |-> FALSE,
                   closing |-> FALSE, socket |-> FALSE, console |-> 0]
  BY DEF NewWorktree!Init
<1>2. \A r \in calls : Fields \subseteq DOMAIN r /\ r.kind \in {"history", "git"}
  BY <1>1 DEF Fields
<1>3. SubmitInv
  BY <1>1, <1>2 DEF SubmitInv, Shaped, AtMostOne, Submitting
<1>4. ListedInv
  BY <1>1, <1>2, StatusOK DEF ListedInv, Became
<1>5. PhaseInv
  BY <1>1, StatusOK DEF PhaseInv, Watched, Made, Became, NewWorktree!VerdictIsTrue
<1> QED BY <1>3, <1>4, <1>5 DEF WorktreeInv

\* A step that leaves alone what the invariant is about.
PhaseKept ==
  /\ Watched \subseteq DOMAIN view'
  /\ view'.phase = view.phase /\ view'.seen = view.seen /\ view'.listed = view.listed
  /\ view'.polls => view.polls

LEMMA SubmitQuiet ==
  ASSUME SubmitInv, BusyKept, MakesNo(Submitting)
  PROVE  SubmitInv'
BY NoneMade DEF SubmitInv, BusyKept, MakesNo

LEMMA ListedQuiet ==
  ASSUME ListedInv, server' = server, MakesNo({"create", "rows"})
  PROVE  ListedInv'
BY DEF ListedInv, MakesNo, Made, Became

LEMMA PhaseQuiet ==
  ASSUME PhaseInv, server' = server, PhaseKept
  PROVE  PhaseInv'
BY DEF PhaseInv, PhaseKept, Made, Became, NewWorktree!VerdictIsTrue

LEMMA WorktreeQuiet ==
  ASSUME WorktreeInv, BusyKept, PhaseKept, server' = server,
         MakesNo({"create", "rename", "rows"})
  PROVE  WorktreeInv'
<1>1. MakesNo(Submitting) /\ MakesNo({"create", "rows"})
  BY DEF MakesNo, Submitting
<1> QED BY <1>1, SubmitQuiet, ListedQuiet, PhaseQuiet DEF WorktreeInv

LEMMA SubmitReplied ==
  ASSUME SubmitInv, view' = view, NEW r, Replies(r)
  PROVE  SubmitInv'
<1>1. Shaped' /\ AtMostOne(Submitting)'
  BY OneReplied DEF SubmitInv
<1> QED BY <1>1 DEF SubmitInv, Replies, Shaped, Fields

\* A request that fails, or that is answered with what matters to no one here.
LEMMA WorktreeReplied ==
  ASSUME WorktreeInv, view' = view, server' = server, NEW r, NEW reply, r \in calls,
         calls' = (calls \ {r}) \cup {[r EXCEPT !.reply = reply]},
         reply = Failed \/ r.kind \notin {"create", "rows"}
  PROVE  WorktreeInv'
<1> DEFINE q == [r EXCEPT !.reply = reply]
<1>1. q.kind = r.kind /\ q.reply = reply
  BY DEF WorktreeInv, SubmitInv, Shaped, Fields
<1>2. SubmitInv'
  BY SubmitReplied DEF WorktreeInv, Replies
<1>3. ListedInv'
  <2> HIDE DEF q
  <2>1. calls' = (calls \ {r}) \cup {q}
    BY DEF q
  <2>2. q.kind = "rows" => Made
    BY <1>1 DEF WorktreeInv, ListedInv
  <2>3. q.kind \in {"create", "rows"} => q.reply = Failed
    BY <1>1
  <2> QED BY <2>1, <2>2, <2>3 DEF WorktreeInv, ListedInv, Made, Became
<1>4. PhaseInv'
  BY PhaseQuiet DEF WorktreeInv, PhaseInv, PhaseKept
<1> QED BY <1>2, <1>3, <1>4 DEF WorktreeInv

\* The effect on what is taken, and the listing of the store.
LEMMA WorktreeSeeded ==
  ASSUME NEW v, NEW name, Watched \subseteq DOMAIN v
  PROVE  /\ Watched \subseteq DOMAIN NewWorktree!Seeded(v, name)
         /\ NewWorktree!Seeded(v, name).busy = v.busy
         /\ NewWorktree!Seeded(v, name).phase = v.phase
         /\ NewWorktree!Seeded(v, name).seen = v.seen
         /\ NewWorktree!Seeded(v, name).listed = v.listed
         /\ NewWorktree!Seeded(v, name).polls = v.polls
BY DEF NewWorktree!Seeded, Watched

LEMMA WorktreeStored ==
  ASSUME NEW v, NEW reply, Watched \subseteq DOMAIN v
  PROVE  /\ Watched \subseteq DOMAIN NewWorktree!Stored(v, reply)
         /\ NewWorktree!Stored(v, reply).busy = v.busy
         /\ NewWorktree!Stored(v, reply).phase = v.phase
         /\ NewWorktree!Stored(v, reply).seen = v.seen
         /\ NewWorktree!Stored(v, reply).listed = IF reply = Failed THEN v.listed ELSE reply.row
         /\ NewWorktree!Stored(v, reply).polls = v.polls
BY DEF NewWorktree!Stored, Watched

LEMMA WorktreeStep == ASSUME WorktreeInv, NewWorktree!Next PROVE WorktreeInv'
<1> USE DEF Fields, Watched
<1>1. Watched \subseteq DOMAIN view
  BY DEF WorktreeInv, SubmitInv, PhaseInv
<1>2. ASSUME calls' = calls, server' = server, BusyKept, PhaseKept PROVE WorktreeInv'
  BY <1>2, WorktreeQuiet DEF MakesNo
<1>3. CASE NewWorktree!Reroll \/ (\E name \in Names : NewWorktree!EditBranch(name))
  BY <1>1, <1>2, <1>3 DEF NewWorktree!Reroll, NewWorktree!EditBranch, BusyKept, PhaseKept
<1>4. CASE NewWorktree!Refuse \/ NewWorktree!Cancel
  BY <1>1, <1>2, <1>4 DEF NewWorktree!Refuse, NewWorktree!Cancel, BusyKept, PhaseKept
<1>5. CASE NewWorktree!Submit
  <2>1. \A r \in calls : r.kind \notin Submitting
    BY <1>5 DEF NewWorktree!Submit, NewWorktree!Submittable, WorktreeInv, SubmitInv
  <2> DEFINE kind == IF view.rename THEN "rename" ELSE "create"
  <2>2. calls' = calls \cup {NewWorktree!Request(kind, view.branch)}
    BY <1>5 DEF NewWorktree!Submit, NewWorktree!Asks
  <2>3. PhaseKept /\ "busy" \in DOMAIN view' /\ view'.busy = TRUE /\ server' = server
    BY <1>1, <1>5 DEF NewWorktree!Submit, PhaseKept
  <2>4. SubmitInv'
    BY <2>1, <2>2, <2>3 DEF WorktreeInv, SubmitInv, Shaped, AtMostOne, Submitting, NewWorktree!Request
  <2>5. ListedInv'
    BY <2>2, <2>3 DEF WorktreeInv, ListedInv, Submitting, NewWorktree!Request, Made, Became
  <2> QED BY <2>3, <2>4, <2>5, PhaseQuiet DEF WorktreeInv
<1>6. CASE NewWorktree!ConsoleFrame
  <2>1. server'.row = server.row /\ server'.was = server.was
        /\ {"row", "was", "name", "sent"} \subseteq DOMAIN server' /\ calls' = calls
    BY <1>6 DEF NewWorktree!ConsoleFrame, WorktreeInv, ListedInv
  <2>2. BusyKept /\ PhaseKept
    BY <1>1, <1>6 DEF NewWorktree!ConsoleFrame, NewWorktree!pushConsole, BusyKept, PhaseKept
  <2>3. SubmitInv'
    BY <2>1, <2>2, SubmitQuiet DEF WorktreeInv, MakesNo
  <2>4. ListedInv'
    BY <2>1 DEF WorktreeInv, ListedInv, Made, Became
  <2>5. PhaseInv'
    BY <2>1, <2>2 DEF WorktreeInv, PhaseInv, PhaseKept, Made, Became, NewWorktree!VerdictIsTrue
  <2> QED BY <2>3, <2>4, <2>5 DEF WorktreeInv
<1>7. CASE NewWorktree!PollTick
  <2>1. calls' = calls \cup {NewWorktree!Request("rows", "poll")} /\ view' = view /\ server' = server
    BY <1>7 DEF NewWorktree!PollTick
  <2>2. Made
    BY <1>7 DEF NewWorktree!PollTick, WorktreeInv, PhaseInv
  <2>3. SubmitInv'
    BY <2>1 DEF WorktreeInv, SubmitInv, Shaped, AtMostOne, Submitting, NewWorktree!Request
  <2>4. ListedInv'
    BY <2>1, <2>2 DEF WorktreeInv, ListedInv, Made, Became, NewWorktree!Request
  <2> QED BY <1>1, <2>1, <2>3, <2>4, PhaseQuiet DEF WorktreeInv, PhaseKept
<1>8. CASE NewWorktree!Finish
  <2>1. /\ Watched \subseteq DOMAIN view' /\ view'.phase = "form" /\ view'.busy = view.busy
        /\ view'.seen = view.seen /\ view'.listed = view.listed /\ view'.polls = view.polls
        /\ calls' = calls /\ server' = server
    BY <1>1, <1>8 DEF NewWorktree!Finish
  <2>2. SubmitInv' /\ ListedInv'
    BY <2>1, SubmitQuiet, ListedQuiet DEF WorktreeInv, BusyKept, MakesNo
  <2>3. PhaseInv'
    BY <2>1 DEF WorktreeInv, PhaseInv, Made, Became, NewWorktree!VerdictIsTrue
  <2> QED BY <2>2, <2>3 DEF WorktreeInv
<1>9. ASSUME NEW row \in {"ready", "failed", None}, NewWorktree!Moves(row) PROVE WorktreeInv'
  <2>1. /\ server.row = "creating" /\ server'.row = row /\ server'.was = server.was \cup {row}
        /\ {"row", "was", "name", "sent"} \subseteq DOMAIN server'
        /\ calls' = calls /\ view' = view
    BY <1>9 DEF NewWorktree!Moves, WorktreeInv, ListedInv
  <2>2. SubmitInv'
    BY <2>1 DEF WorktreeInv, SubmitInv, Shaped, AtMostOne
  <2>3. Made'
    BY <2>1 DEF Made
  <2>4. ListedInv'
    BY <2>1, <2>3, StatusOK DEF WorktreeInv, ListedInv, Became
  <2>5. PhaseInv'
    BY <2>1, <2>3 DEF WorktreeInv, PhaseInv, Became, NewWorktree!VerdictIsTrue
  <2> QED BY <2>2, <2>4, <2>5 DEF WorktreeInv
<1>10. ASSUME NEW r \in calls, NewWorktree!HistoryDone(r) PROVE WorktreeInv'
  <2> DEFINE v == IF r.reply = Failed THEN view ELSE [view EXCEPT !.history = r.reply]
  <2>1. PICK name : view' = NewWorktree!Seeded(v, name)
    BY <1>10 DEF NewWorktree!HistoryDone, NewWorktree!Learned
  <2>2. /\ Watched \subseteq DOMAIN v /\ v.busy = view.busy
        /\ v.phase = view.phase /\ v.seen = view.seen /\ v.listed = view.listed /\ v.polls = view.polls
    BY <1>1
  <2> HIDE DEF v
  <2>3. BusyKept /\ PhaseKept
    BY <2>1, <2>2, WorktreeSeeded DEF BusyKept, PhaseKept
  <2>4. MakesNo({"create", "rename", "rows"}) /\ server' = server
    BY <1>10 DEF NewWorktree!HistoryDone, NewWorktree!Takes, MakesNo
  <2> QED BY <2>3, <2>4, WorktreeQuiet
<1>11. ASSUME NEW r \in calls, NewWorktree!GitDone(r) PROVE WorktreeInv'
  <2> DEFINE v == IF r.reply = Failed THEN view ELSE [view EXCEPT !.git = r.reply]
  <2>1. PICK name : view' = NewWorktree!Seeded(v, name)
    BY <1>11 DEF NewWorktree!GitDone, NewWorktree!Learned
  <2>2. /\ Watched \subseteq DOMAIN v /\ v.busy = view.busy
        /\ v.phase = view.phase /\ v.seen = view.seen /\ v.listed = view.listed /\ v.polls = view.polls
    BY <1>1
  <2> HIDE DEF v
  <2>3. BusyKept /\ PhaseKept
    BY <2>1, <2>2, WorktreeSeeded DEF BusyKept, PhaseKept
  <2>4. MakesNo({"create", "rename", "rows"}) /\ server' = server
    BY <1>11 DEF NewWorktree!GitDone, NewWorktree!Takes, MakesNo
  <2> QED BY <2>3, <2>4, WorktreeQuiet
<1>12. ASSUME NEW r \in calls, NewWorktree!RenameDone(r) \/ NewWorktree!CreateFailed(r)
       PROVE  WorktreeInv'
  <2>1. r.kind \in Submitting /\ calls' = calls \ {r} /\ server' = server
    BY <1>12 DEF NewWorktree!RenameDone, NewWorktree!CreateFailed, NewWorktree!Takes, Submitting
  <2>2. PhaseKept /\ "busy" \in DOMAIN view'
    BY <1>1, <1>12 DEF NewWorktree!RenameDone, NewWorktree!CreateFailed, PhaseKept
  <2>3. SubmitInv'
    BY <2>1, <2>2 DEF WorktreeInv, SubmitInv, Shaped, AtMostOne
  <2>4. ListedInv'
    BY <2>1, ListedQuiet DEF WorktreeInv, MakesNo
  <2> QED BY <2>1, <2>2, <2>3, <2>4, PhaseQuiet DEF WorktreeInv
<1>13. ASSUME NEW r \in calls, NewWorktree!Created(r) PROVE WorktreeInv'
  <2>1. /\ r.kind = "create" /\ r.reply \notin {None, Failed} /\ server' = server
        /\ calls' = (calls \ {r}) \cup {NewWorktree!Request("rows", "rail")}
    BY <1>13 DEF NewWorktree!Created, NewWorktree!TakesAsking, NewWorktree!TakesAskingEach
  <2>2. /\ Watched \subseteq DOMAIN view' /\ view'.phase = "running"
        /\ view'.seen = view.seen /\ view'.listed = view.listed
    BY <1>1, <1>13 DEF NewWorktree!Created
  <2>3. SubmitInv'
    BY <2>1, <2>2 DEF WorktreeInv, SubmitInv, Shaped, AtMostOne, Submitting, NewWorktree!Request
  <2>4. Made
    BY <2>1 DEF WorktreeInv, ListedInv
  <2>5. ListedInv'
    BY <2>1, <2>4 DEF WorktreeInv, ListedInv, Made, Became, NewWorktree!Request
  <2>6. PhaseInv'
    BY <2>1, <2>2, <2>4 DEF WorktreeInv, PhaseInv, Made, Became, NewWorktree!VerdictIsTrue
  <2> QED BY <2>3, <2>5, <2>6 DEF WorktreeInv
<1>14. ASSUME NEW r \in calls, NewWorktree!RowsDone(r) PROVE WorktreeInv'
  <2>1. r.kind = "rows" /\ r.reply # None /\ calls' = calls \ {r} /\ server' = server
    BY <1>14 DEF NewWorktree!RowsDone, NewWorktree!Takes
  <2>2. ListedInv'
    BY <2>1, ListedQuiet DEF WorktreeInv, MakesNo
  <2>3. PICK name :
          LET v == NewWorktree!Seeded(NewWorktree!Stored(view, r.reply), name)
          IN  view' = IF ~view.open THEN view
                      ELSE IF r.arg = "poll" /\ v.polls THEN NewWorktree!Polled(v) ELSE v
    BY <1>14 DEF NewWorktree!RowsDone
  <2> DEFINE v == NewWorktree!Seeded(NewWorktree!Stored(view, r.reply), name)
  <2>4. /\ Watched \subseteq DOMAIN v /\ v.busy = view.busy
        /\ v.phase = view.phase /\ v.seen = view.seen /\ v.polls = view.polls
        /\ v.listed = IF r.reply = Failed THEN view.listed ELSE r.reply.row
    BY <1>1, WorktreeStored, WorktreeSeeded
  <2>5. Became(v.listed) /\ (v.seen /\ v.listed = None => None \in server.was)
    BY <2>1, <2>4 DEF WorktreeInv, ListedInv, PhaseInv
  <2>6. view' = view \/ view' = v \/ (v.polls /\ view' = NewWorktree!Polled(v))
    BY <2>3
  <2> HIDE DEF v
  <2>7. "busy" \in DOMAIN view' /\ view'.busy = view.busy
    BY <1>1, <2>4, <2>6 DEF NewWorktree!Polled
  <2>8. SubmitInv'
    BY <2>1, <2>7, SubmitQuiet DEF WorktreeInv, BusyKept, MakesNo
  <2>9. PhaseInv'
    <3>1. CASE view' = view
      BY <2>1, <3>1 DEF WorktreeInv, PhaseInv, Made, Became, NewWorktree!VerdictIsTrue
    <3>2. CASE view' = v
      BY <2>1, <2>4, <2>5, <3>2 DEF WorktreeInv, PhaseInv, Made, Became, NewWorktree!VerdictIsTrue
    <3>3. CASE v.polls /\ view' = NewWorktree!Polled(v)
      <4> DEFINE now == NewWorktree!Verdict(v, v.listed)
      <4>1. Watched \subseteq DOMAIN view' /\ view'.phase = now /\ view'.listed = v.listed
        BY <2>4, <3>3 DEF NewWorktree!Polled
      <4>2. view'.seen = (v.seen \/ v.listed # None)
        BY <2>4, <3>3, Zenon DEF NewWorktree!Polled
      <4>3. /\ now = "ready" => "ready" \in server.was
            /\ now = "failed" => server.was \cap {"failed", None} # {}
        BY <2>5, StatusOK DEF NewWorktree!Verdict, Became
      <4>4. Made
        BY <2>4, <3>3 DEF WorktreeInv, PhaseInv
      <4> HIDE DEF now
      <4>5. Became(view'.listed) /\ (view'.seen /\ view'.listed = None => None \in server.was)
        BY <2>5, <4>1, <4>2
      <4> QED BY <2>1, <4>1, <4>3, <4>4, <4>5 DEF PhaseInv, Made, Became, NewWorktree!VerdictIsTrue
    <3> QED BY <2>6, <3>1, <3>2, <3>3
  <2> QED BY <2>2, <2>8, <2>9 DEF WorktreeInv
<1>15. ASSUME NEW r \in calls, NewWorktree!ServeLists(r) PROVE WorktreeInv'
  <2>1. CASE r.kind \notin {"rows", "create"}
    <3>1. PICK reply : calls' = (calls \ {r}) \cup {[r EXCEPT !.reply = reply]}
      BY <1>15 DEF NewWorktree!ServeLists, NewWorktree!Answers
    <3> QED BY <1>15, <2>1, <3>1, WorktreeReplied DEF NewWorktree!ServeLists
  <2>2. CASE r.kind = "rows"
    <3> DEFINE q == [r EXCEPT !.reply = [row |-> server.row]]
    <3>1. calls' = (calls \ {r}) \cup {q} /\ view' = view /\ server' = server
      BY <1>15, <2>2 DEF NewWorktree!ServeLists, NewWorktree!Answers
    <3>2. q.kind = "rows" /\ q.reply.row = server.row
      BY <2>2 DEF WorktreeInv, SubmitInv, Shaped
    <3> HIDE DEF q
    <3>3. Made /\ Became(server.row) /\ (server.row = None => None \in server.was)
      BY <2>2 DEF WorktreeInv, ListedInv, Made
    <3>4. ListedInv'
      BY <3>1, <3>2, <3>3 DEF WorktreeInv, ListedInv, Made, Became
    <3>5. SubmitInv'
      BY <3>1, SubmitReplied DEF WorktreeInv, Replies, q
    <3> QED BY <1>1, <3>1, <3>4, <3>5, PhaseQuiet DEF WorktreeInv, PhaseKept
  <2> QED BY <1>15, <2>1, <2>2 DEF NewWorktree!ServeLists
<1>16. ASSUME NEW r \in calls, NewWorktree!ServeSubmit(r) PROVE WorktreeInv'
  <2>1. view' = view
    BY <1>16 DEF NewWorktree!ServeSubmit
  <2>2. CASE r.arg = TakenName
    BY <1>16, <2>1, <2>2, WorktreeReplied DEF NewWorktree!ServeSubmit, NewWorktree!Answers
  <2>3. CASE r.arg # TakenName /\ r.kind = "rename"
    <3>1. calls' = (calls \ {r}) \cup {[r EXCEPT !.reply = TRUE]} /\ server' = server
      BY <1>16, <2>3 DEF NewWorktree!ServeSubmit, NewWorktree!Answers
    <3> QED BY <2>1, <2>3, <3>1, WorktreeReplied
  <2>4. CASE r.arg # TakenName /\ r.kind = "create"
    <3> DEFINE q == [r EXCEPT !.reply = TRUE]
    <3>1. /\ calls' = (calls \ {r}) \cup {q}
          /\ server' = [server EXCEPT !.row = "creating", !.name = r.arg]
      BY <1>16, <2>4 DEF NewWorktree!ServeSubmit, NewWorktree!Answers
    <3>2. q.kind = "create"
      BY <2>4 DEF WorktreeInv, SubmitInv, Shaped
    <3> HIDE DEF q
    <3>3. /\ {"row", "was", "name", "sent"} \subseteq DOMAIN server'
          /\ server'.row = "creating" /\ server'.was = server.was
      BY <3>1 DEF WorktreeInv, ListedInv
    <3>4. Made'
      BY <3>3, StatusOK DEF Made
    <3>5. SubmitInv'
      BY <2>1, <3>1, SubmitReplied DEF WorktreeInv, Replies, q
    <3>6. ListedInv'
      BY <3>1, <3>2, <3>3, <3>4 DEF WorktreeInv, ListedInv, Became
    <3>7. PhaseInv'
      BY <2>1, <3>3, <3>4 DEF WorktreeInv, PhaseInv, Became, NewWorktree!VerdictIsTrue
    <3> QED BY <3>5, <3>6, <3>7 DEF WorktreeInv
  <2> QED BY <1>16, <2>2, <2>3, <2>4 DEF NewWorktree!ServeSubmit
<1>17. ASSUME NEW r \in calls, NewWorktree!Fails(r) PROVE WorktreeInv'
  BY <1>17, WorktreeReplied DEF NewWorktree!Fails, NewWorktree!Answers
<1> QED
  BY <1>3, <1>4, <1>5, <1>6, <1>7, <1>8, <1>9, <1>10, <1>11, <1>12, <1>13, <1>14, <1>15, <1>16,
     <1>17 DEF NewWorktree!Next

LEMMA WorktreeSafe ==
  ASSUME WorktreeInv
  PROVE  NewWorktree!OneSubmitAtATime /\ NewWorktree!VerdictIsTrue
<1> DEFINE S == {r \in calls : r.kind \in {"create", "rename"}}
<1>1. \A r, q \in S : r = q
  BY DEF WorktreeInv, SubmitInv, AtMostOne, Submitting
<1>2. Cardinality(S) <= 1
  <2> HIDE DEF S
  <2> QED BY <1>1, AtMostOneCounted
<1> QED
  BY <1>2 DEF WorktreeInv, PhaseInv, NewWorktree!OneSubmitAtATime, Cardinality, NewWorktree!Cardinality

-----------------------------------------------------------------------------
(* The dock of queued messages.                                            *)

\* The request that will enable the buttons again, or the reading after it.
Enables(r) == r.arg.mine /\ (r.kind \in Dock!Endings \/ (r.kind = "queue" /\ r.arg.ends))

DockRequest(r) == Fields \subseteq DOMAIN r /\ {"mine", "ends"} \subseteq DOMAIN r.arg

DockInv ==
  /\ \A r \in calls : DockRequest(r)
  /\ "busy" \in DOMAIN view
  /\ Dock!BusyHasAReason

\* The dock is as busy as it was, or less.
NoBusier == "busy" \in DOMAIN view' /\ (view'.busy => view.busy)

LEMMA DockInit == ASSUME Dock!Init PROVE DockInv
BY DEF Dock!Init, Dock!Pane, DockInv, Dock!BusyHasAReason

\* Nothing is taken that would have enabled the buttons.
LEMMA DockQuiet ==
  ASSUME DockInv, NoBusier,
         \A q \in calls' : q \in calls \/ DockRequest(q),
         \A q \in calls : q \in calls' \/ ~Enables(q)
  PROVE  DockInv'
BY DEF DockInv, NoBusier, Enables, DockRequest, Dock!BusyHasAReason

LEMMA DockReplied ==
  ASSUME DockInv, view' = view, NEW r, Replies(r)
  PROVE  DockInv'
<1>1. PICK reply : r \in calls /\ calls' = (calls \ {r}) \cup {[r EXCEPT !.reply = reply]}
  BY DEF Replies
<1> DEFINE q == [r EXCEPT !.reply = reply]
<1>2. DockRequest(q) /\ q.kind = r.kind /\ q.arg = r.arg
  BY <1>1 DEF DockInv, DockRequest, Fields
<1> HIDE DEF q
<1>3. calls' = (calls \ {r}) \cup {q}
  BY <1>1 DEF q
<1> QED BY <1>2, <1>3 DEF DockInv, DockRequest, Dock!BusyHasAReason

\* What the panel does to its cards leaves its buttons alone.
LEMMA DockMounted ==
  ASSUME NEW v, "busy" \in DOMAIN v
  PROVE  "busy" \in DOMAIN Dock!Mounted(v) /\ Dock!Mounted(v).busy = v.busy
BY DEF Dock!Mounted

LEMMA DockReplaced ==
  ASSUME NEW v, NEW q, "busy" \in DOMAIN v
  PROVE  "busy" \in DOMAIN Dock!Replaced(v, q) /\ Dock!Replaced(v, q).busy = v.busy
<1> DEFINE w == [v EXCEPT !.dock = q.items, !.auto = q.auto]
<1>1. "busy" \in DOMAIN w /\ w.busy = v.busy
  OBVIOUS
<1> HIDE DEF w
<1>2. "busy" \in DOMAIN Dock!Mounted(w) /\ Dock!Mounted(w).busy = w.busy
  BY <1>1, DockMounted
<1> QED BY <1>1, <1>2 DEF Dock!Replaced, w

LEMMA DockWithout ==
  ASSUME NEW v, NEW id, "busy" \in DOMAIN v
  PROVE  "busy" \in DOMAIN Dock!WithoutCard(v, id) /\ Dock!WithoutCard(v, id).busy = v.busy
<1> DEFINE w == [v EXCEPT !.dock = SelectSeq(@, LAMBDA i : i.id # id)]
<1>1. "busy" \in DOMAIN w /\ w.busy = v.busy
  OBVIOUS
<1> HIDE DEF w
<1>2. "busy" \in DOMAIN Dock!Mounted(w) /\ Dock!Mounted(w).busy = w.busy
  BY <1>1, DockMounted
<1> QED BY <1>1, <1>2 DEF Dock!WithoutCard, w

\* A request of the pane's own, whatever it is about.
LEMMA DockAsks ==
  ASSUME NEW kind, NEW item, NEW v, Dock!Submits(kind, item, v)
  PROVE  /\ view' = v
         /\ \E q : /\ calls' = calls \cup {q} /\ DockRequest(q)
                   /\ q.kind = kind /\ q.arg.mine
<1> DEFINE q == Dock!Request(kind, [Dock!Arg EXCEPT !.item = item])
<1>1. calls' = calls \cup {q} /\ view' = v
  BY DEF Dock!Submits, Dock!Asks
<1>2. DockRequest(q) /\ q.kind = kind /\ q.arg.mine
  BY DEF Dock!Request, Dock!Arg, DockRequest, Fields
<1> QED BY <1>1, <1>2

\* The dock is busy with a request that ends.
LEMMA DockBusy ==
  ASSUME DockInv, NEW kind \in Dock!Endings, NEW item, NEW v, "busy" \in DOMAIN v,
         Dock!Submits(kind, item, v)
  PROVE  DockInv'
<1>1. PICK q : calls' = calls \cup {q} /\ DockRequest(q) /\ q.kind = kind /\ q.arg.mine
  BY DockAsks
<1>2. view' = v
  BY DockAsks
<1> QED BY <1>1, <1>2 DEF DockInv, DockRequest, Dock!BusyHasAReason

LEMMA DockStep == ASSUME DockInv, Dock!Next PROVE DockInv'
<1>1. "busy" \in DOMAIN view /\ \A r \in calls : DockRequest(r)
  BY DEF DockInv
<1>2. ASSUME calls' = calls, NoBusier PROVE DockInv'
  BY <1>2, DockQuiet
<1>3. ASSUME NEW kind, Dock!Asks(kind, Dock!Arg), view' = view PROVE DockInv'
  <2> DEFINE q == Dock!Request(kind, Dock!Arg)
  <2>1. calls' = calls \cup {q} /\ DockRequest(q)
    BY <1>3 DEF Dock!Asks, Dock!Request, Dock!Arg, DockRequest, Fields
  <2> QED BY <1>1, <1>3, <2>1, DockQuiet DEF NoBusier
<1>4. CASE Dock!PollQueue \/ Dock!QueueFrame
  BY <1>3, <1>4 DEF Dock!PollQueue, Dock!QueueFrame, Dock!refreshQueue
<1>5. CASE Dock!PollSummary
  BY <1>3, <1>5 DEF Dock!PollSummary
<1>6. CASE Dock!Reconciled
  <2> DEFINE v == [view EXCEPT !.shown = server.prompts]
  <2>1. view' = Dock!Mounted(v) /\ calls' = calls /\ "busy" \in DOMAIN v /\ v.busy = view.busy
    BY <1>1, <1>6 DEF Dock!Reconciled
  <2> HIDE DEF v
  <2> QED BY <1>2, <2>1, DockMounted DEF NoBusier
<1>7. CASE Dock!runNextQueue
  <2> DEFINE id == Head(Dock!queueItems(view)).id
             v == Dock!WithoutCard(Dock!Busy(view), id)
  <2>1. Dock!Submits("run", None, v)
    BY <1>7 DEF Dock!runNextQueue
  <2>2. "busy" \in DOMAIN Dock!Busy(view)
    BY <1>1 DEF Dock!Busy
  <2> HIDE DEF id
  <2>3. "busy" \in DOMAIN v
    BY <2>2, DockWithout
  <2> HIDE DEF v
  <2> QED BY <2>1, <2>3, DockBusy DEF Dock!Endings
<1>8. CASE Dock!Drop
  <2>1. PICK ids : Dock!reorderQueue(ids)
    BY <1>8 DEF Dock!Drop
  <2> DEFINE q == Dock!Request("reorder", [Dock!Arg EXCEPT !.order = ids])
  <2>2. calls' = calls \cup {q} /\ DockRequest(q)
    BY <2>1 DEF Dock!reorderQueue, Dock!Asks, Dock!Request, Dock!Arg, DockRequest, Fields
  <2>3. NoBusier
    BY <1>1, <2>1 DEF Dock!reorderQueue, NoBusier
  <2> QED BY <2>2, <2>3, DockQuiet
<1>9. CASE Dock!setQueueMode
  <2> DEFINE v == [view EXCEPT !.auto = ~@]
  <2>1. Dock!Submits("mode", ~view.auto, v)
    BY <1>9 DEF Dock!setQueueMode
  <2>2. NoBusier
    BY <1>1, <2>1 DEF Dock!Submits, NoBusier
  <2>3. \E q : calls' = calls \cup {q} /\ DockRequest(q)
    BY <2>1, DockAsks
  <2> QED BY <2>2, <2>3, DockQuiet
<1>10. CASE Dock!Remount
  <2>1. view' = Dock!Pane /\ calls' = {[r EXCEPT !.arg.mine = FALSE] : r \in calls}
    BY <1>10 DEF Dock!Remount
  <2>2. \A r \in calls : DockRequest([r EXCEPT !.arg.mine = FALSE])
    BY <1>1 DEF DockRequest, Fields
  <2>3. \A q \in calls' : DockRequest(q)
    BY <2>1, <2>2
  <2> QED BY <2>1, <2>3 DEF DockInv, Dock!Pane, Dock!BusyHasAReason
<1>11. CASE Dock!ServerDrains \/ Dock!ServerLands
  <2>1. calls' = calls /\ view' = view
    BY <1>11 DEF Dock!ServerDrains, Dock!ServerLands
  <2> QED BY <1>1, <1>2, <2>1 DEF NoBusier
<1>12. ASSUME NEW i, Dock!cancelQueueItem(i) \/ Dock!sendQueueItem(i) PROVE DockInv'
  <2>1. "busy" \in DOMAIN Dock!Busy(view)
    BY <1>1 DEF Dock!Busy
  <2>2. CASE Dock!cancelQueueItem(i)
    BY <2>1, <2>2, DockBusy DEF Dock!cancelQueueItem, Dock!Endings
  <2>3. CASE Dock!sendQueueItem(i)
    <3> DEFINE v == Dock!WithoutCard(Dock!Busy(view), i.id)
    <3>1. Dock!Submits("send", i.id, v)
      BY <2>3 DEF Dock!sendQueueItem
    <3>2. "busy" \in DOMAIN v
      BY <2>1, DockWithout
    <3> HIDE DEF v
    <3> QED BY <3>1, <3>2, DockBusy DEF Dock!Endings
  <2> QED BY <1>12, <2>2, <2>3
<1>13. ASSUME NEW i, Dock!startEdit(i) \/ Dock!toggleQueueExpanded(i.id) PROVE DockInv'
  <2>1. calls' = calls /\ NoBusier
    BY <1>1, <1>13 DEF Dock!startEdit, Dock!toggleQueueExpanded, NoBusier
  <2> QED BY <1>2, <2>1
<1>14. ASSUME NEW id, Dock!commitEdit(id) PROVE DockInv'
  <2> DEFINE v == [Dock!Busy(view) EXCEPT !.editing = @ \ {id}]
  <2>1. CASE Dock!Submits("update", id, v)
    <3>1. "busy" \in DOMAIN v
      BY <1>1 DEF Dock!Busy
    <3> HIDE DEF v
    <3> QED BY <2>1, <3>1, DockBusy DEF Dock!Endings
  <2>2. CASE view' = [view EXCEPT !.editing = @ \ {id}] /\ calls' = calls
    BY <1>1, <1>2, <2>2 DEF NoBusier
  <2> QED BY <1>14, <2>1, <2>2 DEF Dock!commitEdit
<1>15. ASSUME NEW r \in calls, Dock!Forgotten(r) PROVE DockInv'
  <2>1. calls' = calls \ {r} /\ ~Enables(r) /\ view' = view
    BY <1>15 DEF Dock!Forgotten, Dock!Takes, Enables
  <2> QED BY <1>1, <2>1, DockQuiet DEF NoBusier
<1>16. ASSUME NEW r \in calls, Dock!QueueDone(r) PROVE DockInv'
  <2> DEFINE read == IF r.reply = Failed THEN view ELSE Dock!Replaced(view, r.reply)
  <2>1. "busy" \in DOMAIN read /\ read.busy = view.busy
    BY <1>1, DockReplaced
  <2>2. /\ calls' = calls \ {r} /\ r.kind = "queue"
        /\ view' = [read EXCEPT !.busy = @ /\ ~r.arg.ends, !.err = @ \/ r.arg.err]
    BY <1>16 DEF Dock!QueueDone, Dock!Refreshed, Dock!Takes
  <2> HIDE DEF read
  <2>3. "busy" \in DOMAIN view' /\ (view'.busy => view.busy /\ ~r.arg.ends)
    BY <2>1, <2>2, Zenon
  <2> QED BY <1>1, <2>2, <2>3 DEF DockInv, Dock!BusyHasAReason, Dock!Endings
<1>17. ASSUME NEW r \in calls, Dock!SummaryDone(r) PROVE DockInv'
  <2>1. calls' = calls \ {r} /\ ~Enables(r)
    BY <1>17 DEF Dock!SummaryDone, Dock!Takes, Enables, Dock!Endings
  <2>2. \/ view' = view
        \/ \E s : view' = [view EXCEPT !.summary = s]
    BY <1>17 DEF Dock!SummaryDone
  <2>3. NoBusier
    BY <1>1, <2>2 DEF NoBusier
  <2> QED BY <2>1, <2>3, DockQuiet
<1>18. ASSUME NEW r \in calls, Dock!ActDone(r) PROVE DockInv'
  <2> DEFINE arg == [Dock!Arg EXCEPT !.ends = r.kind \in Dock!Endings, !.err = r.reply = Failed]
             q == Dock!Request("queue", arg)
  <2>1. calls' = (calls \ {r}) \cup {q} /\ view' = view
    BY <1>18 DEF Dock!ActDone, Dock!TakesAsking, Dock!TakesAskingEach
  <2>2. DockRequest(q) /\ q.kind = "queue" /\ q.arg.mine
    BY DEF Dock!Request, Dock!Arg, DockRequest, Fields
  <2>3. q.arg.ends = (r.kind \in Dock!Endings)
    BY Zenon DEF Dock!Request, Dock!Arg
  <2>4. r.kind # "queue"
    BY <1>18 DEF Dock!ActDone, Dock!Endings
  <2> HIDE DEF q
  <2> QED BY <1>1, <2>1, <2>2, <2>3, <2>4 DEF DockInv, DockRequest, Dock!BusyHasAReason
<1>19. ASSUME NEW r \in calls, Dock!UpdateFailed(r) PROVE DockInv'
  <2>1. calls' = calls \ {r} /\ "busy" \in DOMAIN view' /\ ~view'.busy
    BY <1>1, <1>19 DEF Dock!UpdateFailed, Dock!Takes
  <2> QED BY <1>1, <2>1 DEF DockInv, Dock!BusyHasAReason
<1>20. ASSUME NEW r \in calls, Dock!ReorderDone(r) PROVE DockInv'
  <2>1. calls' = calls \ {r} /\ ~Enables(r) /\ view' = Dock!Replaced(view, r.reply)
    BY <1>20 DEF Dock!ReorderDone, Dock!Takes, Enables, Dock!Endings
  <2> QED BY <1>1, <2>1, DockReplaced, DockQuiet DEF NoBusier
<1>21. ASSUME NEW r \in calls, Dock!ServeRead(r) \/ Dock!ServeDispatch(r) PROVE DockInv'
  <2>1. view' = view /\ \E reply : Dock!Answers(r, reply)
    BY <1>21 DEF Dock!ServeRead, Dock!ServeDispatch
  <2> QED BY <2>1, DockReplied DEF Dock!Answers, Replies
<1>22. ASSUME NEW r \in calls, Dock!ServeItem(r) PROVE DockInv'
  <2>1. view' = view /\ \E reply : Dock!Answers(r, reply)
    BY <1>22 DEF Dock!ServeItem
  <2> QED BY <2>1, DockReplied DEF Dock!Answers, Replies
<1>23. ASSUME NEW r \in calls, Dock!ServeSetting(r) PROVE DockInv'
  <2>1. view' = view /\ \E reply : Dock!Answers(r, reply)
    BY <1>23 DEF Dock!ServeSetting
  <2> QED BY <2>1, DockReplied DEF Dock!Answers, Replies
<1>24. ASSUME NEW r \in calls, Dock!Fails(r) PROVE DockInv'
  <2>1. Replies(r) /\ view' = view
    BY <1>24 DEF Dock!Fails, Dock!Answers, Replies
  <2> QED BY <2>1, DockReplied
<1> QED
  BY <1>4, <1>5, <1>6, <1>7, <1>8, <1>9, <1>10, <1>11, <1>12, <1>13, <1>14, <1>15, <1>16, <1>17,
     <1>18, <1>19, <1>20, <1>21, <1>22, <1>23, <1>24 DEF Dock!Next

LEMMA DockSafe == ASSUME DockInv PROVE Dock!BusyHasAReason
BY DEF DockInv

-----------------------------------------------------------------------------
(* The tabs of the settings.                                               *)

\* The request that will enable the buttons of the tab again, or the reading
\* after it.
Awaited(r) == r.kind \in {"backup", "restore", "connect"} \/ r.arg.ends

TabRequest(r) ==
  /\ Fields \subseteq DOMAIN r /\ {"at", "what", "ends"} \subseteq DOMAIN r.arg
  /\ r.arg.ends => r.kind \in {"backups", "integrations"}

TabFields == {"on", "busy", "lists"}

IsList(s) == \E S : s \in Seq(S)

TabsInv ==
  /\ \A r \in calls : TabRequest(r)
  /\ TabFields \subseteq DOMAIN view
  /\ IsList(view.lists)
  /\ Tabs!BusyHasAReason

\* The tab on the screen stays, as busy as it was or less.
TabKept ==
  /\ TabFields \subseteq DOMAIN view'
  /\ IsList(view.lists)' /\ Len(view'.lists) = Len(view.lists)
  /\ view'.on = view.on /\ (view'.busy => view.busy)

LEMMA TabsInit == ASSUME Tabs!Init PROVE TabsInv
<1>1. calls = {} /\ TabFields \subseteq DOMAIN view /\ view.lists = <<>> /\ ~view.busy
  BY DEF Tabs!Init, TabFields
<1>2. IsList(view.lists)
  BY <1>1, EmptySeq DEF IsList
<1> QED BY <1>1, <1>2 DEF TabsInv, Tabs!BusyHasAReason

\* Nothing is taken that would have enabled the buttons.
LEMMA TabsQuiet ==
  ASSUME TabsInv, TabKept,
         \A q \in calls' : q \in calls \/ TabRequest(q),
         \A q \in calls : q \in calls' \/ ~Tabs!Mine(q) \/ ~Awaited(q)
  PROVE  TabsInv'
<1>1. (\A r \in calls : TabRequest(r))'
  BY DEF TabsInv, TabRequest
<1>2. ASSUME view'.on, view'.busy
      PROVE  \E r \in calls' : r.arg.at = Len(view'.lists) /\ Awaited(r)
  BY <1>2 DEF TabsInv, TabKept, Tabs!BusyHasAReason, Tabs!Mine, Tabs!At, Awaited
<1> QED BY <1>1, <1>2 DEF TabsInv, TabKept, Tabs!BusyHasAReason, Tabs!Mine, Tabs!At, Awaited

LEMMA TabsReplied ==
  ASSUME TabsInv, view' = view, NEW r, Replies(r)
  PROVE  TabsInv'
<1>1. PICK reply : r \in calls /\ calls' = (calls \ {r}) \cup {[r EXCEPT !.reply = reply]}
  BY DEF Replies
<1> DEFINE q == [r EXCEPT !.reply = reply]
<1>2. TabRequest(q) /\ q.kind = r.kind /\ q.arg = r.arg
  BY <1>1 DEF TabsInv, TabRequest, Fields
<1> HIDE DEF q
<1>3. calls' = (calls \ {r}) \cup {q}
  BY <1>1 DEF q
<1> QED BY <1>2, <1>3 DEF TabsInv, TabRequest, IsList, Tabs!BusyHasAReason, Tabs!Mine, Tabs!At

\* The list of a tab is replaced in its place, and only there.
LEMMA ListReplaced ==
  ASSUME NEW s, IsList(s), NEW at, NEW list
  PROVE  IsList([s EXCEPT ![at] = list]) /\ Len([s EXCEPT ![at] = list]) = Len(s)
<1>1. PICK S : s \in Seq(S)
  BY DEF IsList
<1>2. s \in Seq(S \cup {list})
  BY <1>1, SeqMonotonic
<1>3. CASE at \in 1..Len(s)
  BY <1>2, <1>3, ExceptSeq DEF IsList
<1>4. CASE at \notin 1..Len(s)
  <2>1. DOMAIN s = 1..Len(s) /\ s = [i \in DOMAIN s |-> s[i]]
    BY <1>2, LenProperties
  <2>2. [s EXCEPT ![at] = list] = s
    BY <1>4, <2>1
  <2> QED BY <1>1, <2>2 DEF IsList
<1> QED BY <1>3, <1>4

LEMMA ListAdded ==
  ASSUME NEW s, IsList(s), NEW list
  PROVE  IsList(Append(s, list)) /\ Len(Append(s, list)) = Len(s) + 1
<1>1. PICK S : s \in Seq(S)
  BY DEF IsList
<1>2. s \in Seq(S \cup {list})
  BY <1>1, SeqMonotonic
<1>3. Append(s, list) \in Seq(S \cup {list}) /\ Len(Append(s, list)) = Len(s) + 1
  BY <1>2, AppendProperties
<1> QED BY <1>3 DEF IsList

\* What the tab on the screen asks.
LEMMA TabsAsk ==
  ASSUME NEW kind, NEW what, Tabs!Asks(kind, Tabs!Arg(what))
  PROVE  \E q : /\ calls' = calls \cup {q} /\ TabRequest(q)
                /\ q.kind = kind /\ q.arg.at = Tabs!At
<1> DEFINE q == Tabs!Request(kind, Tabs!Arg(what))
<1>1. calls' = calls \cup {q}
  BY DEF Tabs!Asks
<1>2. TabRequest(q) /\ q.kind = kind /\ q.arg.at = Tabs!At
  BY DEF Tabs!Request, Tabs!Arg, TabRequest, Fields
<1> QED BY <1>1, <1>2

\* The tab is busy with what it asks.
LEMMA TabsBusy ==
  ASSUME TabsInv, NEW kind \in {"backup", "restore", "connect"}, NEW what,
         Tabs!Asks(kind, Tabs!Arg(what)),
         TabFields \subseteq DOMAIN view', view'.lists = view.lists
  PROVE  TabsInv'
<1>1. PICK q : calls' = calls \cup {q} /\ TabRequest(q) /\ q.kind = kind /\ q.arg.at = Tabs!At
  BY TabsAsk
<1> QED
  BY <1>1 DEF TabsInv, TabRequest, IsList, Tabs!BusyHasAReason, Tabs!Mine, Tabs!At

\* What was taken is read again before the tab is enabled.
LEMMA TabsAskAgain ==
  ASSUME TabsInv, NEW r \in calls, NEW kind, NEW next \in {"backups", "integrations"},
         Tabs!TakesAsking(r, kind, next, [Tabs!Arg(None) EXCEPT !.ends = TRUE]),
         TabFields \subseteq DOMAIN view', view'.lists = view.lists
  PROVE  TabsInv'
<1> DEFINE q == Tabs!Request(next, [Tabs!Arg(None) EXCEPT !.ends = TRUE])
<1>1. calls' = (calls \ {r}) \cup {q}
  BY DEF Tabs!TakesAsking, Tabs!TakesAskingEach
<1>2. TabRequest(q) /\ q.arg.ends /\ q.arg.at = Tabs!At
  BY DEF Tabs!Request, Tabs!Arg, TabRequest, Fields
<1> HIDE DEF q
<1> QED
  BY <1>1, <1>2 DEF TabsInv, TabRequest, IsList, Tabs!BusyHasAReason, Tabs!Mine, Tabs!At

LEMMA TabsStep == ASSUME TabsInv, Tabs!Next PROVE TabsInv'
<1> USE DEF TabFields
<1>1. /\ TabFields \subseteq DOMAIN view /\ IsList(view.lists)
      /\ \A r \in calls : TabRequest(r)
  BY DEF TabsInv
<1>2. ASSUME TabFields \subseteq DOMAIN view', view'.lists = view.lists, view'.on = view.on,
             view'.busy => view.busy
      PROVE  TabKept
  BY <1>1, <1>2 DEF TabKept, IsList
<1>3. ASSUME calls' = calls, TabKept PROVE TabsInv'
  BY <1>1, <1>3, TabsQuiet
<1>4. ASSUME NEW kind, NEW what, Tabs!Asks(kind, Tabs!Arg(what)), TabKept PROVE TabsInv'
  BY <1>1, <1>4, TabsAsk, TabsQuiet
<1>5. CASE Tabs!Mount
  <2> DEFINE q == Tabs!Request(view.tab, [Tabs!Arg(None) EXCEPT !.at = Tabs!At + 1])
  <2>1. calls' = calls \cup {q} /\ TabRequest(q)
    BY <1>5 DEF Tabs!Mount, Tabs!Asks, Tabs!Request, Tabs!Arg, TabRequest, Fields
  <2>2. /\ TabFields \subseteq DOMAIN view' /\ ~view'.busy
        /\ view'.lists = Append(view.lists, view.cached)
    BY <1>1, <1>5 DEF Tabs!Mount, Tabs!Tab
  <2>3. IsList(view'.lists)
    BY <1>1, <2>2, ListAdded
  <2>4. (\A r \in calls : TabRequest(r))'
    BY <1>1, <2>1 DEF TabRequest
  <2> QED BY <2>2, <2>3, <2>4 DEF TabsInv, IsList, Tabs!BusyHasAReason
<1>6. CASE Tabs!Unmount
  <2>1. TabFields \subseteq DOMAIN view' /\ ~view'.on /\ view'.lists = view.lists /\ calls' = calls
    BY <1>1, <1>6 DEF Tabs!Unmount
  <2> QED BY <1>1, <2>1 DEF TabsInv, TabRequest, IsList, Tabs!BusyHasAReason
<1>7. CASE Tabs!takeNow
  <2>1. TabFields \subseteq DOMAIN view' /\ view'.lists = view.lists
    BY <1>1, <1>7 DEF Tabs!takeNow, Tabs!Busy
  <2> QED BY <1>7, <2>1, TabsBusy DEF Tabs!takeNow
<1>8. CASE Tabs!showRestore
  <2>1. TabFields \subseteq DOMAIN view' /\ view'.lists = view.lists
    BY <1>1, <1>8 DEF Tabs!showRestore, Tabs!Busy
  <2> QED BY <1>8, <2>1, TabsBusy DEF Tabs!showRestore
<1>9. CASE Tabs!Dismiss \/ Tabs!Type \/ Tabs!AskDisconnect \/ Tabs!MultiSelects
  BY <1>1, <1>2, <1>3, <1>9 DEF Tabs!Dismiss, Tabs!Type, Tabs!AskDisconnect, Tabs!MultiSelects
<1>10. CASE Tabs!saveClickUpKey
  <2>1. TabFields \subseteq DOMAIN view' /\ view'.lists = view.lists
    BY <1>1, <1>10 DEF Tabs!saveClickUpKey
  <2> QED BY <1>10, <2>1, TabsBusy DEF Tabs!saveClickUpKey
<1>11. CASE Tabs!disconnect
  <2>1. CASE Tabs!Asks("connect", Tabs!Arg(FALSE))
             /\ view' = [view EXCEPT !.confirming = FALSE, !.busy = TRUE]
    <3>1. TabFields \subseteq DOMAIN view' /\ view'.lists = view.lists
      BY <1>1, <2>1
    <3> QED BY <2>1, <3>1, TabsBusy
  <2>2. CASE view' = [view EXCEPT !.confirming = FALSE] /\ calls' = calls
    BY <1>1, <1>2, <1>3, <2>2
  <2> QED BY <1>11, <2>1, <2>2 DEF Tabs!disconnect
<1>12. CASE Tabs!toggleFilters
  <2>1. CASE view' = [view EXCEPT !.open = ~@] /\ calls' = calls
    <3>1. TabKept
      BY <1>1, <1>2, <2>1
    <3> QED BY <1>3, <2>1, <3>1
  <2>2. CASE Tabs!Asks("filters", Tabs!Arg(None))
             /\ view' = [view EXCEPT !.open = TRUE, !.fetching = TRUE]
    <3>1. TabKept
      BY <1>1, <1>2, <2>2
    <3> QED BY <1>4, <2>2, <3>1
  <2> QED BY <1>12, <2>1, <2>2 DEF Tabs!toggleFilters
<1>13. CASE Tabs!saveFilters
  <2>1. TabKept
    BY <1>1, <1>2, <1>13 DEF Tabs!saveFilters
  <2> QED BY <1>4, <1>13, <2>1 DEF Tabs!saveFilters
<1>14. ASSUME NEW p, Tabs!RefreshButton(p) PROVE TabsInv'
  <2>1. TabKept
    BY <1>1, <1>2, <1>14 DEF Tabs!RefreshButton
  <2> QED BY <1>4, <1>14, <2>1 DEF Tabs!RefreshButton
<1>15. ASSUME NEW r \in calls, calls' = calls \ {r}, ~Tabs!Mine(r) \/ ~Awaited(r), TabKept
       PROVE  TabsInv'
  BY <1>1, <1>15, TabsQuiet
<1>16. ASSUME NEW r \in calls, ~Awaited(r), calls' = calls \ {r}, NEW list,
              TabFields \subseteq DOMAIN view', view'.on = view.on, view'.busy = view.busy,
              view'.lists = [view.lists EXCEPT ![r.arg.at] = list]
       PROVE  TabsInv'
  <2> DEFINE lists == [view.lists EXCEPT ![r.arg.at] = list]
  <2>1. IsList(lists) /\ Len(lists) = Len(view.lists)
    BY <1>1, ListReplaced
  <2>2. view'.lists = lists
    BY <1>16
  <2> HIDE DEF lists
  <2>3. TabKept
    BY <1>16, <2>1, <2>2 DEF TabKept, IsList
  <2> QED BY <1>15, <1>16, <2>3
<1>17. ASSUME NEW r \in calls, Tabs!ProvidersDone(r) PROVE TabsInv'
  <2>1. calls' = calls \ {r} /\ ~Awaited(r)
    BY <1>1, <1>17 DEF Tabs!ProvidersDone, Tabs!Takes, Awaited, TabRequest
  <2> DEFINE list == IF r.reply = Failed THEN view.lists[r.arg.at] ELSE r.reply
  <2>2. /\ TabFields \subseteq DOMAIN view' /\ view'.on = view.on /\ view'.busy = view.busy
        /\ view'.lists = [view.lists EXCEPT ![r.arg.at] = list]
    BY <1>1, <1>17 DEF Tabs!ProvidersDone
  <2> HIDE DEF list
  <2> QED BY <1>16, <2>1, <2>2
<1>18. ASSUME NEW r \in calls, Tabs!RefreshDone(r) PROVE TabsInv'
  <2>1. calls' = calls \ {r} /\ ~Awaited(r)
    BY <1>1, <1>18 DEF Tabs!RefreshDone, Tabs!Takes, Awaited, TabRequest
  <2>2. CASE r.reply = Failed
    <3>1. TabKept
      BY <1>1, <1>2, <1>18, <2>2 DEF Tabs!RefreshDone
    <3> QED BY <1>15, <2>1, <3>1
  <2>3. CASE r.reply # Failed
    <3> DEFINE fresh == [view.lists[r.arg.at] EXCEPT ![r.arg.what] = r.reply]
    <3>1. /\ TabFields \subseteq DOMAIN view' /\ view'.on = view.on /\ view'.busy = view.busy
          /\ view'.lists = [view.lists EXCEPT ![r.arg.at] = fresh]
      BY <1>1, <1>18, <2>3 DEF Tabs!RefreshDone
    <3> HIDE DEF fresh
    <3> QED BY <1>16, <2>1, <3>1
  <2> QED BY <2>2, <2>3
<1>19. ASSUME NEW r \in calls, calls' = calls \ {r}, TabFields \subseteq DOMAIN view',
              view'.lists = view.lists, view'.on = view.on,
              view'.busy => view.busy /\ ~r.arg.ends,
              r.kind \notin {"backup", "restore", "connect"}
       PROVE  TabsInv'
  <2>1. TabKept
    BY <1>2, <1>19
  <2>2. CASE r.arg.ends
    <3>1. ~view'.busy
      BY <1>19, <2>2
    <3> QED BY <1>1, <1>19, <2>1, <3>1 DEF TabsInv, TabKept, TabRequest, Tabs!BusyHasAReason
  <2>3. CASE ~r.arg.ends
    BY <1>15, <1>19, <2>1, <2>3 DEF Awaited
  <2> QED BY <2>2, <2>3
<1>20. ASSUME NEW r \in calls, Tabs!BackupsDone(r) PROVE TabsInv'
  <2>1. /\ calls' = calls \ {r} /\ r.kind = "backups" /\ TabFields \subseteq DOMAIN view'
        /\ view'.lists = view.lists /\ view'.on = view.on
    BY <1>1, <1>20 DEF Tabs!BackupsDone, Tabs!Takes
  <2>2. view'.busy = (view.busy /\ ~r.arg.ends)
    BY <1>1, <1>20, Zenon DEF Tabs!BackupsDone
  <2> QED BY <1>19, <2>1, <2>2
<1>21. ASSUME NEW r \in calls, Tabs!IntegrationsDone(r) PROVE TabsInv'
  <2>1. /\ calls' = calls \ {r} /\ r.kind = "integrations" /\ TabFields \subseteq DOMAIN view'
        /\ view'.lists = view.lists /\ view'.on = view.on
    BY <1>1, <1>21 DEF Tabs!IntegrationsDone, Tabs!Takes
  <2>2. view'.busy = (view.busy /\ ~r.arg.ends)
    BY <1>1, <1>21, Zenon DEF Tabs!IntegrationsDone
  <2> QED BY <1>19, <2>1, <2>2
<1>22. ASSUME NEW r \in calls, Tabs!BackupTaken(r) PROVE TabsInv'
  <2>1. TabFields \subseteq DOMAIN view' /\ view'.lists = view.lists
    BY <1>1, <1>22 DEF Tabs!BackupTaken
  <2> QED BY <1>22, <2>1, TabsAskAgain DEF Tabs!BackupTaken
<1>23. ASSUME NEW r \in calls, calls' = calls \ {r}, TabFields \subseteq DOMAIN view', ~view'.busy,
              view'.lists = view.lists
       PROVE  TabsInv'
  BY <1>1, <1>23 DEF TabsInv, TabRequest, IsList, Tabs!BusyHasAReason
<1>24. ASSUME NEW r \in calls, Tabs!BackupFailed(r) \/ Tabs!RestoreDone(r) PROVE TabsInv'
  BY <1>1, <1>23, <1>24 DEF Tabs!BackupFailed, Tabs!RestoreDone, Tabs!Takes
<1>25. ASSUME NEW r \in calls, Tabs!ConnectDone(r) PROVE TabsInv'
  <2>1. CASE r.reply = Failed
    BY <1>1, <1>23, <1>25, <2>1 DEF Tabs!ConnectDone, Tabs!Takes
  <2>2. CASE r.reply # Failed
    <3>1. TabFields \subseteq DOMAIN view' /\ view'.lists = view.lists
      BY <1>1, <1>25, <2>2 DEF Tabs!ConnectDone
    <3> QED BY <1>25, <2>2, <3>1, TabsAskAgain DEF Tabs!ConnectDone
  <2> QED BY <2>1, <2>2
<1>26. ASSUME NEW r \in calls, Tabs!FiltersDone(r) \/ Tabs!FiltersSaved(r) PROVE TabsInv'
  <2>1. calls' = calls \ {r} /\ ~Awaited(r)
    BY <1>1, <1>26 DEF Tabs!FiltersDone, Tabs!FiltersSaved, Tabs!Takes, Awaited, TabRequest
  <2>2. TabKept
    BY <1>1, <1>2, <1>26 DEF Tabs!FiltersDone, Tabs!FiltersSaved
  <2> QED BY <1>15, <2>1, <2>2
<1>27. ASSUME NEW r \in calls, Tabs!Forgotten(r) PROVE TabsInv'
  <2>1. calls' = calls \ {r} /\ ~Tabs!Mine(r) /\ view' = view
    BY <1>27 DEF Tabs!Forgotten
  <2> QED BY <1>1, <1>2, <1>15, <2>1
<1>28. ASSUME NEW r \in calls, Tabs!Serve(r) PROVE TabsInv'
  <2>1. Replies(r) /\ view' = view
    BY <1>28 DEF Tabs!Serve, Tabs!Answers, Replies
  <2> QED BY <2>1, TabsReplied
<1>29. ASSUME NEW r \in calls, Tabs!Fails(r) PROVE TabsInv'
  <2>1. Replies(r) /\ view' = view
    BY <1>29 DEF Tabs!Fails, Tabs!Answers, Replies
  <2> QED BY <2>1, TabsReplied
<1> QED
  BY <1>5, <1>6, <1>7, <1>8, <1>9, <1>10, <1>11, <1>12, <1>13, <1>14, <1>17, <1>18, <1>20, <1>21,
     <1>22, <1>24, <1>25, <1>26, <1>27, <1>28, <1>29 DEF Tabs!Next

LEMMA TabsSafe == ASSUME TabsInv PROVE Tabs!BusyHasAReason
BY DEF TabsInv

-----------------------------------------------------------------------------
(* The settings.                                                           *)

ThemeFields == {"tab", "form", "err", "settings", "themes", "themeId", "shown"}

\* What is asked of a theme is asked of one the user has made.
ThemeCallsInv ==
  \A r \in calls :
    /\ Fields \subseteq DOMAIN r
    /\ r.kind \in {"saveTheme", "deleteTheme"} => "id" \in DOMAIN r.arg /\ r.arg.id \in Customs

\* The theme of the settings is the one in use, and the themes that ship are
\* there for good: the default one is, to fall back on.
ThemeViewInv ==
  /\ ThemeFields \subseteq DOMAIN view
  /\ {"theme", "customs"} \subseteq DOMAIN view.settings
  /\ view.settings.theme = view.themeId
  /\ Builtins \subseteq view.themes
  /\ Themes!ThemeIsKnown

ThemesInv == ThemeCallsInv /\ ThemeViewInv

LEMMA ThemesInit == ASSUME Themes!Init PROVE ThemesInv
<1>1. PICK made \in SUBSET Customs :
        /\ calls = {}
        /\ view = [tab |-> None, form |-> None, err |-> FALSE,
                   settings |-> [Themes!NoSettings EXCEPT !.customs = made],
                   themes |-> Builtins \cup made, themeId |-> Default,
                   shown |-> [theme |-> Default, font |-> 0]]
  BY DEF Themes!Init
<1> QED
  BY <1>1, ThemesOK
  DEF ThemesInv, ThemeCallsInv, ThemeViewInv, ThemeFields, Themes!NoSettings, Themes!ThemeIsKnown

\* A request whose theme, if it is about one, is the user's.
ThemeRequest(q) ==
  /\ Fields \subseteq DOMAIN q
  /\ q.kind \in {"saveTheme", "deleteTheme"} => "id" \in DOMAIN q.arg /\ q.arg.id \in Customs

LEMMA ThemeCallsKept ==
  ASSUME ThemeCallsInv, \A q \in calls' : q \in calls \/ ThemeRequest(q)
  PROVE  ThemeCallsInv'
BY DEF ThemeCallsInv, ThemeRequest

LEMMA ThemesReplied ==
  ASSUME ThemesInv, view' = view, NEW r, Replies(r)
  PROVE  ThemesInv'
<1>1. PICK reply : r \in calls /\ calls' = (calls \ {r}) \cup {[r EXCEPT !.reply = reply]}
  BY DEF Replies
<1> DEFINE q == [r EXCEPT !.reply = reply]
<1>2. ThemeRequest(q)
  BY <1>1 DEF ThemesInv, ThemeCallsInv, ThemeRequest, Fields
<1> HIDE DEF q
<1>3. calls' = (calls \ {r}) \cup {q}
  BY <1>1 DEF q
<1>4. ThemeCallsInv'
  BY <1>2, <1>3, ThemeCallsKept DEF ThemesInv
<1> QED BY <1>4 DEF ThemesInv, ThemeViewInv, Themes!ThemeIsKnown

\* What is saved is in use, with the themes there are.
LEMMA ThemesSaved ==
  ASSUME NEW v, NEW s, ThemeFields \subseteq DOMAIN v, {"theme", "customs"} \subseteq DOMAIN s,
         s.theme \in v.themes, Builtins \subseteq v.themes, view' = Themes!Saved(v, s)
  PROVE  ThemeViewInv'
<1> DEFINE w == Themes!applySettings([v EXCEPT !.settings = s])
<1>1. /\ ThemeFields \subseteq DOMAIN w /\ w.themes = v.themes
      /\ w.settings = s /\ w.themeId = s.theme
  BY DEF Themes!applySettings, Themes!setTheme, ThemeFields
<1> HIDE DEF w
<1>2. \/ view' = w
      \/ \E x : view' = [w EXCEPT !.shown = x, !.form = None]
  BY DEF Themes!Saved, Themes!Synced, w
<1>3. /\ ThemeFields \subseteq DOMAIN view' /\ view'.themes = w.themes
      /\ view'.settings = w.settings /\ view'.themeId = w.themeId
  BY <1>1, <1>2 DEF ThemeFields
<1> QED BY <1>1, <1>3 DEF ThemeViewInv, Themes!ThemeIsKnown

LEMMA ThemesSave ==
  ASSUME ThemesInv, NEW s, NEW resets, Themes!saveSettings(s, resets),
         {"theme", "customs"} \subseteq DOMAIN s, s.theme \in view.themes
  PROVE  ThemesInv'
<1>1. view' = Themes!Saved(view, s)
      /\ calls' = calls \cup {Themes!Request("save", [file |-> s, resets |-> resets])}
  BY DEF Themes!saveSettings, Themes!Asks
<1>2. ThemeCallsInv'
  BY <1>1, ThemeCallsKept DEF ThemesInv, ThemeRequest, Themes!Request, Fields
<1>3. ThemeFields \subseteq DOMAIN view /\ Builtins \subseteq view.themes
  BY DEF ThemesInv, ThemeViewInv
<1>4. ThemeViewInv'
  BY <1>1, <1>3, ThemesSaved
<1> QED BY <1>2, <1>4 DEF ThemesInv

LEMMA ThemesStep == ASSUME ThemesInv, Themes!Next PROVE ThemesInv'
<1>1. /\ ThemeFields \subseteq DOMAIN view /\ {"theme", "customs"} \subseteq DOMAIN view.settings
      /\ view.settings.theme \in view.themes /\ Builtins \subseteq view.themes
      /\ view.settings.theme = view.themeId
  BY DEF ThemesInv, ThemeViewInv, Themes!ThemeIsKnown
<1>2. ASSUME ThemeFields \subseteq DOMAIN view', view'.settings = view.settings,
             view'.themes = view.themes, view'.themeId = view.themeId
      PROVE  ThemeViewInv'
  BY <1>1, <1>2 DEF ThemeViewInv, Themes!ThemeIsKnown
<1>3. ASSUME calls' = calls, ThemeViewInv' PROVE ThemesInv'
  BY <1>3 DEF ThemesInv, ThemeCallsInv
<1>4. ASSUME NEW t, Themes!OpenTab(t) \/ Themes!OpenForm(t) PROVE ThemesInv'
  <2>1. CASE Themes!OpenTab(t)
    <3>1. PICK x : view' = [view EXCEPT !.tab = t, !.form = None, !.shown = x]
      BY <2>1 DEF Themes!OpenTab
    <3>2. ThemeViewInv'
      BY <1>1, <1>2, <3>1 DEF ThemeFields
    <3> QED BY <1>3, <2>1, <3>2 DEF Themes!OpenTab
  <2>2. CASE Themes!OpenForm(t)
    <3>1. ThemeViewInv'
      BY <1>1, <1>2, <2>2 DEF ThemeFields, Themes!OpenForm
    <3> QED BY <1>3, <2>2, <3>1 DEF Themes!OpenForm
  <2> QED BY <1>4, <2>1, <2>2
<1>5. CASE Themes!Close
  <2>1. ThemeViewInv'
    BY <1>1, <1>2, <1>5 DEF ThemeFields, Themes!Close
  <2> QED BY <1>3, <1>5, <2>1 DEF Themes!Close
<1>6. CASE Themes!onUiFont
  BY <1>1, <1>6, ThemesSave DEF Themes!onUiFont
<1>7. CASE Themes!onDefaultProvider \/ Themes!AgentsTab
  BY <1>1, <1>7, ThemesSave DEF Themes!onDefaultProvider, Themes!AgentsTab
<1>8. CASE Themes!reset
  <2> DEFINE s == [view.settings EXCEPT !.theme = Default, !.font = 0]
  <2>1. {"theme", "customs"} \subseteq DOMAIN s /\ s.theme \in view.themes
    BY <1>1, ThemesOK
  <2>2. Themes!saveSettings(s, TRUE)
    BY <1>8 DEF Themes!reset
  <2> HIDE DEF s
  <2> QED BY <2>1, <2>2, ThemesSave
<1>9. ASSUME NEW next, Themes!persist(next) PROVE ThemesInv'
  <2> DEFINE s == [view.settings EXCEPT !.prompts = next]
  <2>1. {"theme", "customs"} \subseteq DOMAIN s /\ s.theme \in view.themes
    BY <1>1
  <2>2. Themes!saveSettings(s, FALSE)
    BY <1>9 DEF Themes!persist
  <2> HIDE DEF s
  <2> QED BY <2>1, <2>2, ThemesSave
<1>10. CASE Themes!addPrompt
  BY <1>9, <1>10 DEF Themes!addPrompt
<1>11. ASSUME NEW k, Themes!updatePrompt(k) \/ Themes!deletePrompt(k) \/ Themes!move(k)
       PROVE  ThemesInv'
  <2>1. \E next : Themes!persist(next)
    BY <1>11 DEF Themes!updatePrompt, Themes!deletePrompt, Themes!move
  <2> QED BY <1>9, <2>1
<1>12. ASSUME NEW t, Themes!onTheme(t) PROVE ThemesInv'
  <2> DEFINE s == [view.settings EXCEPT !.theme = t]
  <2>1. {"theme", "customs"} \subseteq DOMAIN s /\ s.theme \in view.themes
    BY <1>1, <1>12 DEF Themes!onTheme
  <2>2. Themes!saveSettings(s, FALSE)
    BY <1>12 DEF Themes!onTheme
  <2> HIDE DEF s
  <2> QED BY <2>1, <2>2, ThemesSave
<1>13. ASSUME NEW t \in Customs, Themes!CustomThemeForm(t) \/ Themes!deleteCustomTheme(t)
       PROVE  ThemesInv'
  <2>1. view' = view /\ \E q : calls' = calls \cup {q} /\ ThemeRequest(q)
    <3> DEFINE saves   == Themes!Request("saveTheme", [id |-> t])
               deletes == Themes!Request("deleteTheme", [id |-> t, used |-> view.themeId = t])
    <3>1. ThemeRequest(saves) /\ ThemeRequest(deletes)
      BY DEF Themes!Request, ThemeRequest, Fields
    <3>2. view' = view /\ (calls' = calls \cup {saves} \/ calls' = calls \cup {deletes})
      BY <1>13 DEF Themes!CustomThemeForm, Themes!deleteCustomTheme, Themes!Asks
    <3> QED BY <3>1, <3>2
  <2>2. ThemeCallsInv'
    BY <2>1, ThemeCallsKept DEF ThemesInv
  <2> QED BY <1>1, <1>2, <2>1, <2>2 DEF ThemesInv
<1>14. ASSUME NEW r \in calls, Themes!SaveDone(r) PROVE ThemesInv'
  <2>1. ThemeCallsInv'
    BY <1>14, ThemeCallsKept DEF ThemesInv, Themes!SaveDone, Themes!Takes
  <2>2. ThemeViewInv'
    BY <1>1, <1>2, <1>14 DEF Themes!SaveDone, ThemeFields
  <2> QED BY <2>1, <2>2 DEF ThemesInv
<1>15. ASSUME NEW r \in calls, Themes!ThemeSaved(r) PROVE ThemesInv'
  <2> DEFINE v == Themes!WithTheme(view, r.arg.id)
             s == [v.settings EXCEPT !.theme = r.arg.id]
  <2>1. /\ ThemeFields \subseteq DOMAIN v /\ {"theme", "customs"} \subseteq DOMAIN v.settings
        /\ v.settings.theme = view.settings.theme /\ v.themeId = view.themeId
        /\ v.themes = view.themes \cup {r.arg.id}
    BY <1>1 DEF Themes!WithTheme, ThemeFields
  <2>2. CASE r.reply = Failed \/ view.themeId = r.arg.id
    <3>1. calls' = calls \ {r} /\ (view' = view \/ view' = v)
      BY <1>15, <2>2 DEF Themes!ThemeSaved, Themes!Takes
    <3> HIDE DEF v
    <3>2. ThemeCallsInv'
      BY <3>1, ThemeCallsKept DEF ThemesInv
    <3>3. ThemeViewInv'
      BY <1>1, <2>1, <3>1 DEF ThemeViewInv, Themes!ThemeIsKnown
    <3> QED BY <3>2, <3>3 DEF ThemesInv
  <2>3. CASE ~(r.reply = Failed \/ view.themeId = r.arg.id)
    <3>1. /\ calls' = (calls \ {r}) \cup {Themes!Request("save", [file |-> s, resets |-> FALSE])}
          /\ view' = Themes!Saved(v, s)
      BY <1>15, <2>3 DEF Themes!ThemeSaved, Themes!TakesAsking, Themes!TakesAskingEach
    <3> HIDE DEF v
    <3>2. {"theme", "customs"} \subseteq DOMAIN s /\ s.theme = r.arg.id
      BY <2>1
    <3> HIDE DEF s
    <3>3. ThemeCallsInv'
      BY <3>1, ThemeCallsKept DEF ThemesInv, ThemeRequest, Themes!Request, Fields
    <3>4. ThemeViewInv'
      BY <1>1, <2>1, <3>1, <3>2, ThemesSaved
    <3> QED BY <3>3, <3>4 DEF ThemesInv
  <2> QED BY <2>2, <2>3
<1>16. ASSUME NEW r \in calls, Themes!ThemeDeleted(r) PROVE ThemesInv'
  <2> DEFINE v == Themes!WithoutTheme(view, r.arg.id)
             s == [v.settings EXCEPT !.theme = Default]
  <2>1. /\ ThemeFields \subseteq DOMAIN v /\ {"theme", "customs"} \subseteq DOMAIN v.settings
        /\ v.settings.theme = view.settings.theme /\ v.themeId = view.themeId
        /\ v.themes = view.themes \ {r.arg.id}
    BY <1>1 DEF Themes!WithoutTheme, ThemeFields
  <2>2. Builtins \subseteq v.themes
    BY <1>1, <1>16, <2>1, ThemesOK DEF Themes!ThemeDeleted, ThemesInv, ThemeCallsInv
  <2>3. CASE r.reply = Failed \/ ~Themes!InUse(r)
    <3>1. calls' = calls \ {r} /\ (view' = view \/ (view' = v /\ view.themeId # r.arg.id))
      BY <1>16, <2>3 DEF Themes!ThemeDeleted, Themes!Takes, Themes!InUse
    <3> HIDE DEF v
    <3>2. ThemeCallsInv'
      BY <3>1, ThemeCallsKept DEF ThemesInv
    <3>3. ThemeViewInv'
      BY <1>1, <2>1, <2>2, <3>1 DEF ThemeViewInv, Themes!ThemeIsKnown
    <3> QED BY <3>2, <3>3 DEF ThemesInv
  <2>4. CASE ~(r.reply = Failed \/ ~Themes!InUse(r))
    <3>1. /\ calls' = (calls \ {r}) \cup {Themes!Request("save", [file |-> s, resets |-> FALSE])}
          /\ view' = Themes!Saved(v, s)
      BY <1>16, <2>4 DEF Themes!ThemeDeleted, Themes!TakesAsking, Themes!TakesAskingEach
    <3> HIDE DEF v
    <3>2. {"theme", "customs"} \subseteq DOMAIN s /\ s.theme = Default
      BY <2>1
    <3> HIDE DEF s
    <3>3. ThemeCallsInv'
      BY <3>1, ThemeCallsKept DEF ThemesInv, ThemeRequest, Themes!Request, Fields
    <3>4. ThemeViewInv'
      BY <2>1, <2>2, <3>1, <3>2, ThemesOK, ThemesSaved
    <3> QED BY <3>3, <3>4 DEF ThemesInv
  <2> QED BY <2>3, <2>4
<1>17. ASSUME NEW r \in calls, Themes!ServeSave(r) \/ Themes!ServeTheme(r) \/ Themes!Fails(r)
       PROVE  ThemesInv'
  <2>1. view' = view /\ \E reply : Themes!Answers(r, reply)
    BY <1>17 DEF Themes!ServeSave, Themes!ServeTheme, Themes!Fails
  <2> QED BY <2>1, ThemesReplied DEF Themes!Answers, Replies
<1> QED
  BY <1>4, <1>5, <1>6, <1>7, <1>8, <1>10, <1>11, <1>12, <1>13, <1>14, <1>15, <1>16, <1>17
  DEF Themes!Next

LEMMA ThemesSafe == ASSUME ThemesInv PROVE Themes!ThemeIsKnown
BY DEF ThemesInv, ThemeViewInv

-----------------------------------------------------------------------------
(* The timeline.  A step keeps the indicator of older prompts, with the     *)
(* request behind it, or clears it.                                         *)

\* A nonempty set of numbers has a least one: what a recursive function gives
\* is reasoned about at the least place where it would go wrong.
LEMMA LeastOf ==
  ASSUME NEW T \in SUBSET Nat, T # {}
  PROVE  \E x \in T : \A y \in T : x <= y
<1>1. PICK x \in T : \A y \in T : ~ (<<y, x>> \in OpToRel(<, Nat))
  BY NatLessThanWellFounded, WFMin
<1>2. \A y \in T : ~(y < x)
  BY <1>1 DEF OpToRel
<1>3. \A y \in T : y \in Nat
  OBVIOUS
<1> QED BY <1>2, <1>3

TimelineInv ==
  /\ \A r \in calls : Fields \subseteq DOMAIN r /\ "mine" \in DOMAIN r.arg
  /\ {"store", "batch"} \subseteq DOMAIN view /\ "loadingOlder" \in DOMAIN view.store
  /\ \E S : view.batch \in Seq(S)
  /\ Timeline!OlderHasAReason

NoStarted(s, t) == "loadingOlder" \in DOMAIN t /\ (t.loadingOlder => s.loadingOlder)

CallsShaped(set) == \A r \in set : Fields \subseteq DOMAIN r /\ "mine" \in DOMAIN r.arg

\* The steps that take no page: what else they take, answer or ask for is of
\* no matter.
OlderStays ==
  /\ CallsShaped(calls')
  /\ \A r \in calls : r.arg.mine /\ r.kind = "older" =>
       \E q \in calls' : q.arg.mine /\ q.kind = "older"

\* They leave the indicator as it is, or clear it.
ViewStays(v) ==
  /\ {"store", "batch"} \subseteq DOMAIN v /\ \E S : v.batch \in Seq(S)
  /\ NoStarted(view.store, v.store)

LEMMA OlderKept ==
  ASSUME TimelineInv, OlderStays, ViewStays(view')
  PROVE  TimelineInv'
BY DEF TimelineInv, CallsShaped, OlderStays, ViewStays, NoStarted, Timeline!OlderHasAReason

LEMMA OlderAsked ==
  ASSUME TimelineInv, calls \subseteq calls', CallsShaped(calls' \ calls)
  PROVE  OlderStays
BY DEF TimelineInv, CallsShaped, OlderStays

LEMMA OlderTaken ==
  ASSUME TimelineInv, NEW r, ~(r.arg.mine /\ r.kind = "older"), calls' = calls \ {r}
  PROVE  OlderStays
BY DEF TimelineInv, CallsShaped, OlderStays

LEMMA OlderAnswered ==
  ASSUME TimelineInv, NEW r, NEW reply, Timeline!Answers(r, reply)
  PROVE  OlderStays
<1> DEFINE q == [r EXCEPT !.reply = reply]
<1>1. r \in calls /\ calls' = (calls \ {r}) \cup {q}
  BY DEF Timeline!Answers
<1>2. DOMAIN q = DOMAIN r /\ q.arg = r.arg /\ q.kind = r.kind
  BY <1>1 DEF TimelineInv, Fields
<1> HIDE DEF q
<1> QED BY <1>1, <1>2 DEF TimelineInv, CallsShaped, OlderStays

\* What a request carries, and the requests that one step makes.
LEMMA ArgShaped ==
  /\ "mine" \in DOMAIN Timeline!Arg /\ Timeline!Arg.mine
  /\ \A x, y, z :
       /\ "mine" \in DOMAIN [Timeline!Arg EXCEPT !.seq = x]
       /\ [Timeline!Arg EXCEPT !.seq = x].mine
       /\ "mine" \in DOMAIN [Timeline!Arg EXCEPT !.id = x, !.text = y]
       /\ "mine" \in DOMAIN [Timeline!Arg EXCEPT !.id = x, !.text = y, !.seq = z]
BY DEF Timeline!Arg

LEMMA RequestShaped ==
  ASSUME NEW kind, NEW arg, "mine" \in DOMAIN arg
  PROVE  LET q == Timeline!Request(kind, arg)
         IN  Fields \subseteq DOMAIN q /\ q.arg = arg /\ "mine" \in DOMAIN q.arg /\ q.kind = kind
BY DEF Timeline!Request, Fields

LEMMA OneAsked ==
  ASSUME TimelineInv, NEW kind, NEW arg, "mine" \in DOMAIN arg,
         calls' = calls \cup {Timeline!Request(kind, arg)}
  PROVE  OlderStays
<1>1. CallsShaped({Timeline!Request(kind, arg)})
  BY RequestShaped DEF CallsShaped
<1> QED BY <1>1, OlderAsked DEF CallsShaped

\* The requests of a pane that goes are nobody's.
LEMMA MountsShaped ==
  ASSUME TimelineInv, NEW others, others \subseteq calls, Timeline!Mounts(others)
  PROVE  CallsShaped(calls') /\ view' = Timeline!Pane
<1>1. \A r \in others : LET q == [r EXCEPT !.arg.mine = FALSE]
                        IN  Fields \subseteq DOMAIN q /\ "mine" \in DOMAIN q.arg
  <2> SUFFICES ASSUME NEW r \in others
               PROVE  LET q == [r EXCEPT !.arg.mine = FALSE]
                      IN  Fields \subseteq DOMAIN q /\ "mine" \in DOMAIN q.arg
    OBVIOUS
  <2>1. Fields \subseteq DOMAIN r /\ "mine" \in DOMAIN r.arg
    BY DEF TimelineInv
  <2> DEFINE q == [r EXCEPT !.arg.mine = FALSE]
  <2>2. DOMAIN q = DOMAIN r
    OBVIOUS
  <2>3. q.arg = [r.arg EXCEPT !.mine = FALSE]
    BY <2>1 DEF Fields
  <2> HIDE DEF q
  <2> QED BY <2>1, <2>2, <2>3
<1>2. LET q == Timeline!Request("load", Timeline!Arg) IN Fields \subseteq DOMAIN q /\ "mine" \in DOMAIN q.arg
  BY ArgShaped, RequestShaped
<1> QED BY <1>1, <1>2 DEF Timeline!Mounts, CallsShaped

LEMMA DropKeeps ==
  ASSUME NEW s, "loadingOlder" \in DOMAIN s, NEW ids
  PROVE  NoStarted(s, Timeline!DropLive(s, ids))
BY DEF Timeline!DropLive, NoStarted

LEMMA StartedThrough ==
  ASSUME NEW s, NEW t, NEW u, NoStarted(s, t), NoStarted(t, u)
  PROVE  NoStarted(s, u)
BY DEF NoStarted

\* One frame says nothing of the indicator.
LEMMA FrameKeeps ==
  ASSUME NEW s, "loadingOlder" \in DOMAIN s, NEW frame
  PROVE  NoStarted(s, Timeline!ApplyWsFrame(s, frame))
<1> DEFINE ev    == frame.event
           i     == Timeline!IndexOf(s.prompts, frame.id)
           retry == [s EXCEPT !.prompts[i].events = <<ev>>]
           more  == [s EXCEPT !.prompts[i].events = Timeline!AppendEventBounded(@, ev)]
           token == [s EXCEPT !.liveTokens = Timeline!Grown(@, frame.id, <<ev.n>>)]
           think == [s EXCEPT !.liveThinking = Timeline!Grown(@, frame.id, <<ev.n>>)]
<1>1. /\ NoStarted(s, retry) /\ NoStarted(s, more)
      /\ NoStarted(s, token) /\ NoStarted(s, think) /\ NoStarted(s, s)
  BY DEF NoStarted
<1>2. "loadingOlder" \in DOMAIN retry /\ "loadingOlder" \in DOMAIN more
  OBVIOUS
<1>3. Timeline!ApplyWsFrame(s, frame) \in
        {s, token, think, more, Timeline!DropLive(retry, {frame.id}), Timeline!DropLive(more, {frame.id})}
  BY DEF Timeline!ApplyWsFrame
<1> HIDE DEF retry, more, token, think
<1>4. NoStarted(s, Timeline!DropLive(retry, {frame.id})) /\ NoStarted(s, Timeline!DropLive(more, {frame.id}))
  BY <1>1, <1>2, DropKeeps, StartedThrough
<1> QED BY <1>1, <1>3, <1>4

\* A burst is what its frames make of the store, one after the other.
LEMMA FlushedIs ==
  ASSUME NEW s, NEW frames, Len(frames) \in Nat
  PROVE  \E f : /\ f = [n \in 0..Len(frames) |->
                          IF n = 0 THEN s ELSE Timeline!ApplyWsFrame(f[n - 1], frames[n])]
                /\ Timeline!Flushed(s, frames) = f[Len(frames)]
<1> DEFINE Rec(f, m) == f = [n \in 0..m |-> IF n = 0 THEN s ELSE Timeline!ApplyWsFrame(f[n - 1], frames[n])]
           Bad       == {m \in Nat : ~\E f : Rec(f, m)}
<1>1. Bad = {}
  <2> SUFFICES ASSUME Bad # {} PROVE FALSE
    OBVIOUS
  <2>1. PICK m \in Bad : \A k \in Bad : m <= k
    <3>1. Bad \in SUBSET Nat
      OBVIOUS
    <3> QED BY <3>1, LeastOf
  <2>2. m # 0
    <3> DEFINE z == [n \in {0} |-> s]
    <3>1. Rec(z, 0)
      OBVIOUS
    <3> QED BY <3>1
  <2>3. m \in Nat /\ m - 1 \in Nat /\ m - 1 < m
    BY <2>2
  <2>4. m - 1 \notin Bad
    BY <2>1, <2>3
  <2>5. PICK g : Rec(g, m - 1)
    BY <2>3, <2>4
  <2> DEFINE h == [n \in 0..m |-> IF n < m THEN g[n] ELSE Timeline!ApplyWsFrame(g[n - 1], frames[n])]
  <2>6. Rec(h, m)
    <3> SUFFICES ASSUME NEW n \in 0..m
                 PROVE  h[n] = IF n = 0 THEN s ELSE Timeline!ApplyWsFrame(h[n - 1], frames[n])
      OBVIOUS
    <3>1. n # 0 => h[n - 1] = g[n - 1]
      BY <2>3
    <3>2. n < m => h[n] = g[n] /\ g[n] = IF n = 0 THEN s ELSE Timeline!ApplyWsFrame(g[n - 1], frames[n])
      BY <2>3, <2>5
    <3>3. n = m => n # 0 /\ h[n] = Timeline!ApplyWsFrame(g[n - 1], frames[n])
      BY <2>3
    <3> HIDE DEF h
    <3> QED BY <2>3, <3>1, <3>2, <3>3
  <2> QED BY <2>3, <2>6
<1>2. \E f : Rec(f, Len(frames))
  BY <1>1
<1> QED BY <1>2 DEF Timeline!Flushed

LEMMA FlushedKeeps ==
  ASSUME NEW s, "loadingOlder" \in DOMAIN s, NEW frames, Len(frames) \in Nat
  PROVE  NoStarted(s, Timeline!Flushed(s, frames))
<1>1. PICK f : /\ f = [n \in 0..Len(frames) |->
                         IF n = 0 THEN s ELSE Timeline!ApplyWsFrame(f[n - 1], frames[n])]
               /\ Timeline!Flushed(s, frames) = f[Len(frames)]
  BY FlushedIs
<1> DEFINE Bad == {n \in 0..Len(frames) : ~NoStarted(s, f[n])}
<1>2. ASSUME Bad # {} PROVE FALSE
  <2>1. PICK m \in Bad : \A k \in Bad : m <= k
    <3>1. Bad \in SUBSET Nat
      OBVIOUS
    <3> QED BY <1>2, <3>1, LeastOf
  <2>2. m # 0
    BY <1>1 DEF NoStarted
  <2>3. m \in Nat /\ m - 1 \in 0..Len(frames) /\ m - 1 < m
    BY <2>2
  <2>4. m - 1 \notin Bad
    BY <2>1, <2>3
  <2>5. NoStarted(s, f[m - 1])
    BY <2>3, <2>4
  <2>6. f[m] = Timeline!ApplyWsFrame(f[m - 1], frames[m])
    BY <1>1, <2>2
  <2>7. NoStarted(f[m - 1], f[m])
    BY <2>5, <2>6, FrameKeeps DEF NoStarted
  <2> QED BY <2>5, <2>7, StartedThrough
<1> QED BY <1>1, <1>2

LEMMA NewPane ==
  ASSUME TimelineInv, CallsShaped(calls'), view' = Timeline!Pane
  PROVE  TimelineInv'
<1>1. view'.batch = <<>> /\ ~view'.store.loadingOlder
  BY DEF Timeline!Pane, Timeline!FreshChatStore
<1>2. {"store", "batch"} \subseteq DOMAIN view' /\ "loadingOlder" \in DOMAIN view'.store
  BY DEF Timeline!Pane, Timeline!FreshChatStore
<1>3. view'.batch \in Seq({})
  BY <1>1
<1> QED BY <1>1, <1>2, <1>3 DEF TimelineInv, CallsShaped, Timeline!OlderHasAReason

LEMMA TimelineInit == Timeline!Init => TimelineInv
<1> SUFFICES ASSUME Timeline!Init PROVE TimelineInv
  OBVIOUS
<1>1. view.batch = <<>> /\ ~view.store.loadingOlder
  BY DEF Timeline!Init, Timeline!Pane, Timeline!FreshChatStore
<1>2. {"store", "batch"} \subseteq DOMAIN view /\ "loadingOlder" \in DOMAIN view.store
  BY DEF Timeline!Init, Timeline!Pane, Timeline!FreshChatStore
<1>3. \A r \in calls : Fields \subseteq DOMAIN r /\ "mine" \in DOMAIN r.arg
  <2> DEFINE q == Timeline!Request("load", Timeline!Arg)
             r == [q EXCEPT !.n = @ - 1]
  <2>1. Fields \subseteq DOMAIN q /\ q.arg = Timeline!Arg /\ "mine" \in DOMAIN q.arg
    BY ArgShaped, RequestShaped
  <2>2. DOMAIN r = DOMAIN q /\ r.arg = q.arg
    BY <2>1 DEF Fields
  <2>3. calls = {r}
    BY DEF Timeline!Init
  <2> HIDE DEF q, r
  <2> QED BY <2>1, <2>2, <2>3
<1>4. view.batch \in Seq({})
  BY <1>1
<1> QED BY <1>1, <1>2, <1>3, <1>4 DEF TimelineInv, Timeline!OlderHasAReason

\* A store that is set as a whole.
LEMMA StoreSet ==
  ASSUME TimelineInv, NEW s, NoStarted(view.store, s)
  PROVE  ViewStays([view EXCEPT !.store = s])
BY DEF TimelineInv, ViewStays

LEMMA Blanked == ASSUME TimelineInv PROVE ViewStays(Timeline!Blank(view))
<1>1. NoStarted(view.store, Timeline!FreshChatStore)
  BY DEF NoStarted, Timeline!FreshChatStore
<1> QED BY <1>1 DEF TimelineInv, ViewStays, Timeline!Blank

LEMMA ViewSame == ASSUME TimelineInv PROVE ViewStays(view) /\ NoStarted(view.store, view.store)
BY DEF TimelineInv, ViewStays, NoStarted

LEMMA CommittedKeeps ==
  ASSUME NEW v, {"store", "batch"} \subseteq DOMAIN v, "loadingOlder" \in DOMAIN v.store,
         \E S : v.batch \in Seq(S)
  PROVE  LET w == Timeline!Committed(v)
         IN  /\ {"store", "batch"} \subseteq DOMAIN w /\ w.batch \in Seq({})
             /\ NoStarted(v.store, w.store)
<1>1. Len(v.batch) \in Nat
  OBVIOUS
<1>2. NoStarted(v.store, Timeline!Flushed(v.store, v.batch))
  BY <1>1, FlushedKeeps
<1> QED BY <1>2 DEF Timeline!Committed

LEMMA EnqueuedKeeps ==
  ASSUME NEW v, {"store", "batch"} \subseteq DOMAIN v, "loadingOlder" \in DOMAIN v.store,
         \E S : v.batch \in Seq(S), NEW frame
  PROVE  LET w == Timeline!Enqueued(v, frame)
         IN  /\ {"store", "batch"} \subseteq DOMAIN w /\ \E S : w.batch \in Seq(S)
             /\ NoStarted(v.store, w.store)
<1> DEFINE d == [v EXCEPT !.batch = Append(@, frame)]
           c == Timeline!Committed(v)
           e == [c EXCEPT !.store = Timeline!ApplyWsFrame(@, frame)]
<1>1. Timeline!Enqueued(v, frame) \in {d, e}
  BY DEF Timeline!Enqueued
<1>2. /\ {"store", "batch"} \subseteq DOMAIN d /\ \E S : d.batch \in Seq(S)
      /\ NoStarted(v.store, d.store)
  <2>1. PICK S : v.batch \in Seq(S)
    OBVIOUS
  <2>2. v.batch \in Seq(S \cup {frame})
    BY <2>1
  <2>3. Append(v.batch, frame) \in Seq(S \cup {frame})
    BY <2>2
  <2> QED BY <2>3 DEF NoStarted
<1>3. /\ {"store", "batch"} \subseteq DOMAIN c /\ c.batch \in Seq({}) /\ NoStarted(v.store, c.store)
  BY CommittedKeeps
<1> HIDE DEF c, d
<1>4. NoStarted(c.store, Timeline!ApplyWsFrame(c.store, frame))
  BY <1>3, FrameKeeps DEF NoStarted
<1>5. /\ {"store", "batch"} \subseteq DOMAIN e /\ e.batch = c.batch
      /\ e.store = Timeline!ApplyWsFrame(c.store, frame)
  BY <1>3
<1>6. NoStarted(v.store, e.store)
  BY <1>3, <1>4, <1>5, StartedThrough
<1> QED BY <1>1, <1>2, <1>3, <1>5, <1>6

\* A prompt is added, taken out or swapped.
LEMMA PromptsKeep ==
  ASSUME NEW s, "loadingOlder" \in DOMAIN s, NEW id, NEW p
  PROVE  /\ NoStarted(s, Timeline!WithPlaceholder(s, p))
         /\ NoStarted(s, Timeline!WithoutPrompt(s, id))
         /\ NoStarted(s, Timeline!Swapped(s, id, p))
<1>1. ASSUME NEW x PROVE NoStarted(s, [s EXCEPT !.prompts = x])
  BY DEF NoStarted
<1>2. NoStarted(s, Timeline!WithPlaceholder(s, p))
  BY <1>1 DEF Timeline!WithPlaceholder
<1>3. NoStarted(s, Timeline!WithoutPrompt(s, id))
  BY <1>1 DEF Timeline!WithoutPrompt
<1>4. NoStarted(s, Timeline!Swapped(s, id, p))
  BY <1>1 DEF Timeline!Swapped
<1> QED BY <1>2, <1>3, <1>4

LEMMA ReconciledKeeps ==
  ASSUME NEW s, "loadingOlder" \in DOMAIN s, NEW page
  PROVE  NoStarted(s, Timeline!Reconciled(s, page))
<1> DEFINE t == [s EXCEPT !.loaded = TRUE, !.atStart = Timeline!AtStart(page),
                          !.prompts = Timeline!KeepTail(Timeline!Merged(s, page))]
           ids == {p.id : p \in {q \in Timeline!ToSet(page.prompts) : Timeline!Finished(q)}}
<1>1. NoStarted(s, t) /\ "loadingOlder" \in DOMAIN t
  BY DEF NoStarted
<1>2. Timeline!Reconciled(s, page) = Timeline!DropLive(t, ids)
  BY DEF Timeline!Reconciled
<1> HIDE DEF t, ids
<1> QED BY <1>1, <1>2, DropKeeps, StartedThrough

LEMMA TimelineStep == ASSUME TimelineInv, Timeline!Next PROVE TimelineInv'
<1>1. CASE Timeline!Poll
  BY <1>1, ArgShaped, OneAsked, ViewSame, OlderKept DEF Timeline!Poll, Timeline!Reconcile, Timeline!Asks
<1>2. CASE Timeline!ChatUpdated
  <2>1. OlderStays
    BY <1>2, ArgShaped, OneAsked DEF Timeline!ChatUpdated, Timeline!Does
  <2> QED BY <1>2, <2>1, Blanked, OlderKept DEF Timeline!ChatUpdated
<1>3. CASE Timeline!loadOlder
  <2> DEFINE q == Timeline!Request("older", [Timeline!Arg EXCEPT !.seq = view.store.prompts[1].seq])
  <2>1. q.arg.mine /\ q.kind = "older" /\ Fields \subseteq DOMAIN q /\ "mine" \in DOMAIN q.arg
    BY ArgShaped, RequestShaped
  <2>2. calls' = calls \cup {q}
    BY <1>3 DEF Timeline!loadOlder, Timeline!Does
  <2>3. /\ {"store", "batch"} \subseteq DOMAIN view' /\ "loadingOlder" \in DOMAIN view'.store
        /\ view'.batch = view.batch
    BY <1>3 DEF Timeline!loadOlder, TimelineInv
  <2> HIDE DEF q
  <2> QED BY <2>1, <2>2, <2>3 DEF TimelineInv, Timeline!OlderHasAReason
<1>4. CASE Timeline!Connect \/ Timeline!SocketCloses
  <2>1. ViewStays(view')
    BY <1>4 DEF Timeline!Connect, Timeline!SocketCloses, TimelineInv, ViewStays, NoStarted
  <2> QED BY <1>4, <2>1, OlderAsked, OlderKept DEF Timeline!Connect, Timeline!SocketCloses, CallsShaped
<1>5. CASE Timeline!FlushTimer
  <2>1. ViewStays(view')
    BY <1>5, CommittedKeeps DEF Timeline!FlushTimer, TimelineInv, ViewStays
  <2> QED BY <1>5, <2>1, OlderAsked, OlderKept DEF Timeline!FlushTimer, CallsShaped
<1>6. CASE Timeline!Receive
  <2> DEFINE v == [view EXCEPT !.read = @ + 1]
  <2>1. /\ {"store", "batch"} \subseteq DOMAIN v /\ v.store = view.store /\ v.batch = view.batch
    BY DEF TimelineInv
  <2>2. OlderStays
    <3>1. CASE Timeline!Reconcile
      BY <3>1, ArgShaped, OneAsked DEF Timeline!Reconcile, Timeline!Asks
    <3>2. CASE calls' = calls
      BY <3>2, OlderAsked DEF CallsShaped
    <3> QED BY <1>6, <3>1, <3>2 DEF Timeline!Receive
  <2>3. view' = v \/ \E frame : view' = Timeline!Enqueued(v, frame)
    BY <1>6 DEF Timeline!Receive
  <2> HIDE DEF v
  <2>4. ViewStays(view')
    BY <2>1, <2>3, EnqueuedKeeps DEF TimelineInv, ViewStays, NoStarted
  <2> QED BY <2>2, <2>4, OlderKept
<1>7. CASE Timeline!Remount
  BY <1>7, MountsShaped, NewPane DEF Timeline!Remount
<1>8. CASE Timeline!dispatchBody
  <2>1. OlderStays
    BY <1>8, ArgShaped, OneAsked DEF Timeline!dispatchBody, Timeline!Does
  <2> QED BY <1>8, <2>1, PromptsKeep, StoreSet, OlderKept DEF Timeline!dispatchBody, TimelineInv
<1>9. CASE Timeline!stopChat
  BY <1>9, ArgShaped, OneAsked, ViewSame, OlderKept DEF Timeline!stopChat, Timeline!Does
<1>10. CASE Timeline!Emits \/ Timeline!Finishes \/ Timeline!GoesIdle \/ Timeline!StartsParked
  <2>1. UNCHANGED <<view, calls>>
    BY <1>10 DEF Timeline!Emits, Timeline!Finishes, Timeline!GoesIdle, Timeline!StartsParked
  <2> QED BY <2>1 DEF TimelineInv, Timeline!OlderHasAReason
<1>11. ASSUME NEW p, \/ Timeline!revert(p) \/ Timeline!forkFromPrompt(p) \/ Timeline!resendPrompt(p)
                    \/ Timeline!retryPrompt(p) \/ Timeline!truncateFromPrompt(p)
       PROVE  TimelineInv'
  <2>1. PICK kind : Timeline!Acts(kind, p)
    BY <1>11
    DEF Timeline!revert, Timeline!forkFromPrompt, Timeline!resendPrompt, Timeline!retryPrompt,
        Timeline!truncateFromPrompt
  <2> QED
    BY <2>1, ArgShaped, OneAsked, ViewSame, OlderKept DEF Timeline!Acts, Timeline!Does
<1>12. ASSUME NEW r \in calls, Timeline!loadChat(r) PROVE TimelineInv'
  <2>1. OlderStays
    BY <1>12, OlderTaken DEF Timeline!loadChat, Timeline!Takes
  <2>2. ViewStays(view')
    BY <1>12
    DEF Timeline!loadChat, Timeline!Showing, Timeline!Loaded, Timeline!FreshChatStore, TimelineInv, ViewStays,
        NoStarted
  <2> QED BY <2>1, <2>2, OlderKept
<1>13. ASSUME NEW r \in calls, Timeline!reconcileChat(r) PROVE TimelineInv'
  <2>1. OlderStays
    BY <1>13, OlderTaken DEF Timeline!reconcileChat, Timeline!Takes
  <2>2. NoStarted(view.store, Timeline!Reconciled(view.store, r.reply.view))
    BY ReconciledKeeps DEF TimelineInv
  <2>3. ViewStays(view')
    BY <1>13, <2>2 DEF Timeline!reconcileChat, Timeline!Showing, TimelineInv, ViewStays, NoStarted
  <2> QED BY <2>1, <2>3, OlderKept
<1>14. ASSUME NEW r \in calls, Timeline!OlderDone(r) PROVE TimelineInv'
  <2> DEFINE s == IF r.reply = Failed THEN view.store ELSE Timeline!Backfilled(view.store, r.reply)
  <2>1. "loadingOlder" \in DOMAIN s
    BY DEF TimelineInv, Timeline!Backfilled
  <2>2. view' = [view EXCEPT !.store = [s EXCEPT !.loadingOlder = FALSE]]
    BY <1>14 DEF Timeline!OlderDone, TimelineInv
  <2> HIDE DEF s
  <2>3. /\ {"store", "batch"} \subseteq DOMAIN view' /\ "loadingOlder" \in DOMAIN view'.store
        /\ view'.batch = view.batch /\ ~view'.store.loadingOlder
    BY <2>1, <2>2 DEF TimelineInv
  <2>4. calls' \subseteq calls
    BY <1>14 DEF Timeline!OlderDone, Timeline!Takes
  <2> QED BY <2>3, <2>4 DEF TimelineInv, Timeline!OlderHasAReason
<1>15. ASSUME NEW r \in calls, Timeline!Forgotten(r) \/ Timeline!StopDone(r) PROVE TimelineInv'
  BY <1>15, ViewSame, OlderTaken, OlderKept DEF Timeline!Forgotten, Timeline!StopDone, Timeline!Takes
<1>16. ASSUME NEW r \in calls, Timeline!SendDone(r) PROVE TimelineInv'
  <2>1. OlderStays
    BY <1>16, OlderTaken DEF Timeline!SendDone, Timeline!Takes
  <2> QED BY <1>16, <2>1, PromptsKeep, StoreSet, OlderKept DEF Timeline!SendDone, TimelineInv
<1>17. ASSUME NEW r \in calls, Timeline!ActDone(r) PROVE TimelineInv'
  <2>1. CASE r.reply # Failed
    <3> DEFINE q == Timeline!Request("load", Timeline!Arg)
    <3>1. calls' = (calls \ {r}) \cup {q} /\ view' = Timeline!Blank(view) /\ r.kind # "older"
      BY <1>17, <2>1 DEF Timeline!ActDone, Timeline!TakesAsking, Timeline!TakesAskingEach, Timeline!Reloading
    <3>2. Fields \subseteq DOMAIN q /\ "mine" \in DOMAIN q.arg
      BY ArgShaped, RequestShaped
    <3> HIDE DEF q
    <3>3. OlderStays
      BY <3>1, <3>2 DEF OlderStays, CallsShaped, TimelineInv
    <3> QED BY <3>1, <3>3, Blanked, OlderKept
  <2>2. CASE r.reply = Failed
    BY <1>17, <2>2, ViewSame, OlderTaken, OlderKept DEF Timeline!ActDone, Timeline!Takes, Timeline!Reloading
  <2> QED BY <2>1, <2>2
<1>18. ASSUME NEW r \in calls, Timeline!ForkDone(r) PROVE TimelineInv'
  <2>1. CASE r.reply # Failed
    BY <1>18, <2>1, MountsShaped, NewPane DEF Timeline!ForkDone
  <2>2. CASE r.reply = Failed
    BY <1>18, <2>2, ViewSame, OlderTaken, OlderKept DEF Timeline!ForkDone, Timeline!Takes
  <2> QED BY <2>1, <2>2
<1>19. ASSUME NEW r \in calls,
              \/ Timeline!Fails(r) \/ Timeline!ServeRead(r) \/ Timeline!ServeSend(r) \/ Timeline!ServeRevert(r)
              \/ Timeline!ServeRetry(r) \/ Timeline!ServeTruncate(r) \/ Timeline!ServeStop(r)
       PROVE  TimelineInv'
  <2>1. \E reply : Timeline!Answers(r, reply)
    BY <1>19
    DEF Timeline!Fails, Timeline!ServeRead, Timeline!ServeSend, Timeline!ServeRevert, Timeline!ServeRetry,
        Timeline!ServeTruncate, Timeline!ServeStop
  <2>2. ViewStays(view')
    <3>1. view' = view \/ \E x : view' = [view EXCEPT !.broken = x]
      BY <1>19
      DEF Timeline!Fails, Timeline!ServeRead, Timeline!ServeSend, Timeline!ServeRevert, Timeline!ServeRetry,
          Timeline!ServeTruncate, Timeline!ServeStop
    <3> QED BY <3>1 DEF TimelineInv, ViewStays, NoStarted
  <2> QED BY <2>1, <2>2, OlderAnswered, OlderKept
<1> QED
  BY <1>1, <1>2, <1>3, <1>4, <1>5, <1>6, <1>7, <1>8, <1>9, <1>10, <1>11, <1>12, <1>13, <1>14, <1>15, <1>16,
     <1>17, <1>18, <1>19
  DEF Timeline!Next

-----------------------------------------------------------------------------
(* The composer.  A text is in at most one place of its chat: on the way   *)
(* to the server, there, or to be sent yet; a text is typed but once.      *)

Message(tab, text) == [chat |-> tab, text |-> text]

\* What the composer of a chat holds, in its editor, its timer or its draft.
HeldIn(tab, text) ==
  \/ server.drafts[tab] = text
  \/ view.chat = tab /\ (view.input = text \/ (view.timer # None /\ view.timer.text = text))

Somewhere(text) ==
  \/ \E tab \in Composing!Chats : server.drafts[tab] = text
  \/ view.input = text
  \/ view.timer # None /\ view.timer.text = text

Sending(r, tab, text) == r.kind = "send" /\ r.arg.chat = tab /\ r.arg.text = text

Shipped(text) == \/ \E r \in calls : r.kind = "send" /\ r.arg.text = text
                 \/ \E m \in server.got : m.text = text

Waits(text) == server.pending # None /\ server.pending.text = text

\* A text whose chat answers for it.
Tracked(tab, text) == text # None /\ Message(tab, text) \notin server.carried

IsMessage(r) ==
  /\ {"chat", "text", "keep", "files"} \subseteq DOMAIN r.arg
  /\ r.arg.chat \in Composing!Chats
  /\ r.arg.mine => r.arg.chat = view.chat

ComposerShape ==
  /\ {"chat", "input", "timer"} \subseteq DOMAIN view
  /\ view.chat \in Composing!Chats \cup {None}
  /\ {"drafts", "got", "pending", "carried"} \subseteq DOMAIN server
  /\ DOMAIN server.drafts = Composing!Chats
  /\ \A m \in server.got : m = Message(m.chat, m.text) /\ m.chat \in Composing!Chats
  /\ \A r \in calls : /\ Fields \subseteq DOMAIN r /\ "mine" \in DOMAIN r.arg
                      /\ r.kind = "send" => IsMessage(r)

SentOnce ==
  \A tab \in Composing!Chats : \A text : Tracked(tab, text) =>
    /\ Composing!SentFrom(tab, text) => ~HeldIn(tab, text)
    /\ \A r, q \in calls : Sending(r, tab, text) /\ Sending(q, tab, text) => r = q
    /\ \A r \in calls : Sending(r, tab, text) /\ r.reply \in {None, Failed} =>
         Message(tab, text) \notin server.got

\* The texts there are were typed before what is left of the behaviour.
TextsAreOld ==
  /\ "looks" \in DOMAIN left /\ left.looks \in Int
  /\ \A text : text # None /\ (Somewhere(text) \/ Shipped(text) \/ Waits(text)) =>
       text.n \in Int /\ text.n > left.looks

InjectedIsNew ==
  \A text : text # None /\ Waits(text) => ~Somewhere(text) /\ ~Shipped(text)

ComposerInv == ComposerShape /\ SentOnce /\ TextsAreOld /\ InjectedIsNew

LEMMA ComposerSafe == ASSUME ComposerInv PROVE Composing!SentIsGone
<1> SUFFICES ASSUME NEW m \in server.got \ server.carried, m.text # None
             PROVE  /\ server.drafts[m.chat] # m.text
                    /\ view.chat = m.chat =>
                         view.input # m.text /\ (view.timer # None => view.timer.text # m.text)
  BY DEF Composing!SentIsGone
<1>1. m = Message(m.chat, m.text) /\ m.chat \in Composing!Chats
  BY DEF ComposerInv, ComposerShape
<1>2. Tracked(m.chat, m.text)
  BY <1>1 DEF Tracked
<1>3. Composing!SentFrom(m.chat, m.text)
  BY <1>1 DEF Composing!SentFrom, Message
<1>4. ~HeldIn(m.chat, m.text)
  BY <1>1, <1>2, <1>3 DEF ComposerInv, SentOnce
<1> QED BY <1>4 DEF HeldIn

LEMMA ComposerInit == Composing!Init => ComposerInv
<1> SUFFICES ASSUME Composing!Init PROVE ComposerInv
  OBVIOUS
<1>1. PICK tab \in Composing!Chats, model \in Models, b \in Budgets.composer :
        /\ left = b /\ calls = {}
        /\ server = [drafts |-> [c \in Composing!Chats |-> None], got |-> {}, pending |-> None,
                     carried |-> {}, model |-> model]
        /\ view = [Composing!Pane(tab, None) EXCEPT !.model = model]
  BY DEF Composing!Init
<1>2. /\ {"chat", "input", "timer"} \subseteq DOMAIN view
      /\ view.chat = tab /\ view.input = None /\ view.timer = None
  BY <1>1 DEF Composing!Pane
<1>3. \A text : text # None => ~Somewhere(text) /\ ~Shipped(text) /\ ~Waits(text)
  BY <1>1, <1>2 DEF Somewhere, Shipped, Waits
<1>4. ComposerShape
  BY <1>1, <1>2 DEF ComposerShape
<1>5. \A c \in Composing!Chats : \A text : ~Composing!SentFrom(c, text)
  BY <1>1 DEF Composing!SentFrom
<1>6. SentOnce
  BY <1>1, <1>5 DEF SentOnce
<1>7. TextsAreOld /\ InjectedIsNew
  BY <1>1, <1>3, BudgetsOK DEF TextsAreOld, InjectedIsNew
<1> QED BY <1>4, <1>6, <1>7 DEF ComposerInv

\* The budget for looking around is spent or kept.
LooksOn == "looks" \in DOMAIN left' /\ left'.looks \in Int /\ left'.looks <= left.looks

LEMMA SpendGoesOn ==
  ASSUME ComposerInv, NEW what, Composing!Spend(what)
  PROVE  LooksOn /\ (what = "looks" => left.looks \notin {left'.looks} /\ left'.looks = left.looks - 1)
BY DEF Composing!Spend, LooksOn, ComposerInv, TextsAreOld

NoMessage(q) == Fields \subseteq DOMAIN q /\ "mine" \in DOMAIN q.arg /\ q.kind # "send"

ServerSame ==
  /\ {"drafts", "got", "pending", "carried"} \subseteq DOMAIN server'
  /\ server'.got = server.got /\ server'.pending = server.pending /\ server'.carried = server.carried
  /\ DOMAIN server'.drafts = DOMAIN server.drafts

\* Steps that send nothing, write nothing and answer no message: they may
\* take a request, clear a text or move one within its chat.
LEMMA NothingWritten ==
  ASSUME ComposerInv, LooksOn, ServerSame,
         {"chat", "input", "timer"} \subseteq DOMAIN view', view'.chat = view.chat,
         view'.input \in {view.input, None},
         view'.timer # None =>
           view'.timer.text = None \/ (view.timer # None /\ view'.timer.text = view.timer.text),
         \A tab \in Composing!Chats :
           \/ server'.drafts[tab] \in {server.drafts[tab], None}
           \/ tab = view.chat /\ view.timer # None /\ server'.drafts[tab] = view.timer.text,
         \A q \in calls' : q \in calls \/ NoMessage(q)
  PROVE  ComposerInv'
<1>1. \A tab \in Composing!Chats : \A text : text # None /\ HeldIn(tab, text)' => HeldIn(tab, text)
  BY DEF HeldIn
<1>2. \A text : text # None /\ Somewhere(text)' => Somewhere(text)
  BY DEF Somewhere
<1>3. \A text : Shipped(text)' => Shipped(text)
  BY DEF Shipped, ServerSame, NoMessage
<1>4. \A text : Waits(text)' <=> Waits(text)
  BY DEF Waits, ServerSame
<1>5. \A tab, text : Composing!SentFrom(tab, text)' => Composing!SentFrom(tab, text)
  BY DEF Composing!SentFrom, ServerSame, NoMessage
<1>6. ComposerShape'
  BY DEF ComposerInv, ComposerShape, NoMessage, ServerSame, IsMessage
<1>7. SentOnce'
  <2> SUFFICES ASSUME NEW tab \in Composing!Chats, NEW text, Tracked(tab, text)'
               PROVE  /\ Composing!SentFrom(tab, text)' => ~HeldIn(tab, text)'
                      /\ \A r, q \in calls' : Sending(r, tab, text) /\ Sending(q, tab, text) => r = q
                      /\ \A r \in calls' : Sending(r, tab, text) /\ r.reply \in {None, Failed} =>
                           Message(tab, text) \notin server'.got
    BY DEF SentOnce
  <2>1. Tracked(tab, text) /\ text # None
    BY DEF Tracked, ServerSame
  <2>2. \A r \in calls' : Sending(r, tab, text) => r \in calls
    BY DEF Sending, NoMessage
  <2> QED BY <1>1, <1>5, <2>1, <2>2 DEF ComposerInv, SentOnce, ServerSame
<1>8. TextsAreOld'
  <2> SUFFICES ASSUME NEW text, text # None, Somewhere(text)' \/ Shipped(text)' \/ Waits(text)'
               PROVE  text.n \in Int /\ text.n > left'.looks
    BY DEF TextsAreOld, LooksOn
  <2>1. text.n \in Int /\ text.n > left.looks
    BY <1>2, <1>3, <1>4 DEF ComposerInv, TextsAreOld
  <2> QED BY <2>1 DEF LooksOn, ComposerInv, TextsAreOld
<1>9. InjectedIsNew'
  BY <1>2, <1>3, <1>4 DEF ComposerInv, InjectedIsNew
<1> QED BY <1>6, <1>7, <1>8, <1>9 DEF ComposerInv

\* A new text is written.
LEMMA TextWritten ==
  ASSUME ComposerInv, Composing!Shown, Composing!Spend("looks"), UNCHANGED <<server, calls>>,
         {"chat", "input", "timer"} \subseteq DOMAIN view', view'.chat = view.chat,
         view'.input = Composing!Text,
         view'.timer = view.timer \/ (view'.timer # None => view'.timer.text = Composing!Text)
  PROVE  ComposerInv'
<1> DEFINE new == Composing!Text
<1>1. left'.looks = left.looks - 1 /\ LooksOn /\ left.looks \in Int
  BY SpendGoesOn DEF ComposerInv, TextsAreOld
<1>2. new.n = left.looks
  BY DEF Composing!Text
<1> HIDE DEF new
<1>3. \A tab \in Composing!Chats : \A text : HeldIn(tab, text)' => HeldIn(tab, text) \/ text = new
  BY DEF HeldIn, new
<1>4. \A text : Somewhere(text)' => Somewhere(text) \/ text = new
  BY DEF Somewhere, new
<1>5. \A text : (Shipped(text)' <=> Shipped(text)) /\ (Waits(text)' <=> Waits(text))
  BY DEF Shipped, Waits
<1>6. \A tab, text : Composing!SentFrom(tab, text)' => Composing!SentFrom(tab, text) /\ Shipped(text)
  BY DEF Composing!SentFrom, Shipped, Message
<1>7. new # None => ~Shipped(new) /\ ~Waits(new)
  BY <1>1, <1>2 DEF ComposerInv, TextsAreOld
<1>8. ComposerShape'
  BY DEF ComposerInv, ComposerShape, IsMessage
<1>9. SentOnce'
  <2> SUFFICES ASSUME NEW tab \in Composing!Chats, NEW text, Tracked(tab, text)
               PROVE  /\ Composing!SentFrom(tab, text)' => ~HeldIn(tab, text)'
                      /\ \A r, q \in calls : Sending(r, tab, text) /\ Sending(q, tab, text) => r = q
                      /\ \A r \in calls : Sending(r, tab, text) /\ r.reply \in {None, Failed} =>
                           Message(tab, text) \notin server.got
    BY DEF SentOnce, Tracked
  <2> QED BY <1>3, <1>6, <1>7 DEF ComposerInv, SentOnce, Tracked
<1>10. TextsAreOld'
  <2> SUFFICES ASSUME NEW text, text # None, Somewhere(text)' \/ Shipped(text)' \/ Waits(text)'
               PROVE  text.n \in Int /\ text.n > left'.looks
    BY <1>1 DEF TextsAreOld, LooksOn
  <2>1. CASE text = new
    BY <1>1, <1>2, <2>1
  <2>2. CASE text # new
    <3>1. text.n \in Int /\ text.n > left.looks
      BY <1>4, <1>5, <2>2 DEF ComposerInv, TextsAreOld
    <3> QED BY <1>1, <3>1
  <2> QED BY <2>1, <2>2
<1>11. InjectedIsNew'
  BY <1>4, <1>5, <1>7 DEF ComposerInv, InjectedIsNew
<1> QED BY <1>8, <1>9, <1>10, <1>11 DEF ComposerInv

\* Another tab comes to the front: the text that was being written may go
\* with it, and is that chat's to answer for from then on if it had sent it.
LEMMA TabComes ==
  ASSUME ComposerInv, NEW front \in Composing!Chats \cup {None}, Composing!Activate(front)
  PROVE  ComposerInv'
<1>1. LooksOn
  BY SpendGoesOn DEF Composing!Activate
<1> DEFINE flush == view.timer # None /\ front # None
<1>2. /\ {"drafts", "got", "pending", "carried"} \subseteq DOMAIN server'
      /\ server'.got = server.got /\ server'.pending = server.pending
      /\ DOMAIN server'.drafts = Composing!Chats
  BY DEF Composing!Activate, Composing!Flushed, Composing!setChatDraft, ComposerInv, ComposerShape
<1>3. /\ flush => /\ front \in Composing!Chats
                  /\ server'.drafts = [server.drafts EXCEPT ![front] = view.input]
                  /\ server'.carried = IF Composing!SentFrom(front, view.input)
                                       THEN server.carried \cup {Message(front, view.input)}
                                       ELSE server.carried
      /\ ~flush => server'.drafts = server.drafts /\ server'.carried = server.carried
  BY DEF Composing!Activate, Composing!Flushed, Composing!setChatDraft, ComposerInv, ComposerShape, Message
<1> HIDE DEF flush
<1>4. /\ {"chat", "input", "timer"} \subseteq DOMAIN view'
      /\ view'.chat = front /\ view'.timer = None
      /\ view'.input = IF front = None THEN None ELSE server'.drafts[front]
  <2> DEFINE text == IF front = None THEN None ELSE server'.drafts[front]
             pane == Composing!Pane(front, text)
  <2>1. view' = [pane EXCEPT !.model = server.model]
    BY DEF Composing!Activate
  <2>2. /\ {"chat", "input", "timer"} \subseteq DOMAIN pane
        /\ pane.chat = front /\ pane.timer = None /\ pane.input = text
    BY DEF Composing!Pane
  <2> HIDE DEF pane
  <2> QED BY <2>1, <2>2
<1>5. calls' = {[r EXCEPT !.arg.mine = FALSE] : r \in calls}
  BY DEF Composing!Activate
<1>6. \A r \in calls : LET q == [r EXCEPT !.arg.mine = FALSE]
                       IN  /\ DOMAIN q = DOMAIN r /\ q.kind = r.kind /\ q.reply = r.reply
                           /\ DOMAIN q.arg = DOMAIN r.arg /\ ~q.arg.mine
                           /\ r.kind = "send" => q.arg.chat = r.arg.chat /\ q.arg.text = r.arg.text
  <2> SUFFICES ASSUME NEW r \in calls
               PROVE  LET q == [r EXCEPT !.arg.mine = FALSE]
                      IN  /\ DOMAIN q = DOMAIN r /\ q.kind = r.kind /\ q.reply = r.reply
                          /\ DOMAIN q.arg = DOMAIN r.arg /\ ~q.arg.mine
                          /\ r.kind = "send" => q.arg.chat = r.arg.chat /\ q.arg.text = r.arg.text
    OBVIOUS
  <2>1. /\ Fields \subseteq DOMAIN r /\ "mine" \in DOMAIN r.arg
        /\ r.kind = "send" => {"chat", "text"} \subseteq DOMAIN r.arg
    BY DEF ComposerInv, ComposerShape, IsMessage
  <2> DEFINE q == [r EXCEPT !.arg.mine = FALSE]
  <2>2. DOMAIN q = DOMAIN r /\ q.kind = r.kind /\ q.reply = r.reply /\ q.arg = [r.arg EXCEPT !.mine = FALSE]
    BY <2>1 DEF Fields
  <2> HIDE DEF q
  <2> QED BY <2>1, <2>2
<1> DEFINE Gone(r) == [r EXCEPT !.arg.mine = FALSE]
<1>7. /\ calls' = {Gone(r) : r \in calls}
      /\ \A r \in calls : /\ DOMAIN Gone(r) = DOMAIN r /\ Gone(r).kind = r.kind /\ Gone(r).reply = r.reply
                          /\ DOMAIN Gone(r).arg = DOMAIN r.arg /\ ~Gone(r).arg.mine
                          /\ r.kind = "send" => Gone(r).arg.chat = r.arg.chat /\ Gone(r).arg.text = r.arg.text
  BY <1>5, <1>6
<1> HIDE DEF Gone
<1>8. \A tab \in Composing!Chats : \A text : text # None /\ HeldIn(tab, text)' =>
        HeldIn(tab, text) \/ (flush /\ tab = front /\ text = view.input)
  BY <1>2, <1>3, <1>4 DEF HeldIn, ComposerInv, ComposerShape
<1>9. \A text : text # None /\ Somewhere(text)' => Somewhere(text)
  BY <1>2, <1>3, <1>4 DEF Somewhere, ComposerInv, ComposerShape
<1>10. \A text : (Shipped(text)' => Shipped(text)) /\ (Waits(text)' <=> Waits(text))
  BY <1>2, <1>7 DEF Shipped, Waits
<1>11. \A tab, text : Composing!SentFrom(tab, text)' => Composing!SentFrom(tab, text)
  BY <1>2, <1>7 DEF Composing!SentFrom
<1>12. \A r \in calls : \A tab, text : Sending(Gone(r), tab, text) => Sending(r, tab, text)
  BY <1>7 DEF Sending
<1>13. ComposerShape'
  BY <1>2, <1>4, <1>7 DEF ComposerInv, ComposerShape, IsMessage
<1>14. SentOnce'
  <2> SUFFICES ASSUME NEW tab \in Composing!Chats, NEW text, Tracked(tab, text)'
               PROVE  /\ Composing!SentFrom(tab, text)' => ~HeldIn(tab, text)'
                      /\ \A r, q \in calls' : Sending(r, tab, text) /\ Sending(q, tab, text) => r = q
                      /\ \A r \in calls' : Sending(r, tab, text) /\ r.reply \in {None, Failed} =>
                           Message(tab, text) \notin server'.got
    BY DEF SentOnce
  <2>1. Tracked(tab, text) /\ text # None
    BY <1>3 DEF Tracked
  <2>2. flush /\ tab = front /\ text = view.input => ~Composing!SentFrom(tab, text)
    BY <1>3 DEF Tracked
  <2>3. \A r, q \in calls' : Sending(r, tab, text) /\ Sending(q, tab, text) => r = q
    BY <1>7, <1>12, <2>1 DEF ComposerInv, SentOnce
  <2>4. \A r \in calls' : Sending(r, tab, text) /\ r.reply \in {None, Failed} =>
          Message(tab, text) \notin server'.got
    BY <1>2, <1>7, <1>12, <2>1 DEF ComposerInv, SentOnce
  <2> QED BY <1>8, <1>11, <2>1, <2>2, <2>3, <2>4 DEF ComposerInv, SentOnce
<1>15. TextsAreOld'
  <2> SUFFICES ASSUME NEW text, text # None, Somewhere(text)' \/ Shipped(text)' \/ Waits(text)'
               PROVE  text.n \in Int /\ text.n > left'.looks
    BY <1>1 DEF TextsAreOld, LooksOn
  <2>1. text.n \in Int /\ text.n > left.looks
    BY <1>9, <1>10 DEF ComposerInv, TextsAreOld
  <2> QED BY <1>1, <2>1 DEF LooksOn, ComposerInv, TextsAreOld
<1>16. InjectedIsNew'
  BY <1>9, <1>10 DEF ComposerInv, InjectedIsNew
<1> QED BY <1>13, <1>14, <1>15, <1>16 DEF ComposerInv

\* A text that its chat does not hold, has not sent and does not answer for
\* otherwise goes on its way: what is held may be cleared at that.
LEMMA TextSent ==
  ASSUME ComposerInv, LooksOn, NEW text, NEW q,
         {"drafts", "got", "pending", "carried"} \subseteq DOMAIN server',
         server'.got = server.got /\ server'.carried = server.carried,
         DOMAIN server'.drafts = Composing!Chats,
         \A tab \in Composing!Chats : server'.drafts[tab] \in {server.drafts[tab], None},
         {"chat", "input", "timer"} \subseteq DOMAIN view', view'.chat = view.chat,
         view'.input \in {view.input, None}, view'.timer \in {view.timer, None},
         view.chat \in Composing!Chats,
         calls' = calls \cup {q}, Fields \subseteq DOMAIN q, "mine" \in DOMAIN q.arg,
         q.kind = "send", {"chat", "text", "keep", "files"} \subseteq DOMAIN q.arg,
         q.arg.chat = view.chat, q.arg.text = text,
         text # None => Somewhere(text) \/ Waits(text),
         text # None => ~HeldIn(view.chat, text)',
         text # None /\ Tracked(view.chat, text) => ~Composing!SentFrom(view.chat, text),
         \A other : other # None /\ Waits(other)' => Waits(other) /\ other # text
  PROVE  ComposerInv'
<1>1. \A tab \in Composing!Chats : \A other : other # None /\ HeldIn(tab, other)' => HeldIn(tab, other)
  BY DEF HeldIn
<1>2. \A other : other # None /\ Somewhere(other)' => Somewhere(other)
  BY DEF Somewhere
<1>3. \A other : Shipped(other)' => Shipped(other) \/ other = text
  BY DEF Shipped
<1>4. \A tab, other : Composing!SentFrom(tab, other)' =>
        Composing!SentFrom(tab, other) \/ (tab = view.chat /\ other = text)
  BY DEF Composing!SentFrom
<1>5. ComposerShape'
  BY DEF ComposerInv, ComposerShape, IsMessage
<1>6. SentOnce'
  <2> SUFFICES ASSUME NEW tab \in Composing!Chats, NEW other, Tracked(tab, other)
               PROVE  /\ Composing!SentFrom(tab, other)' => ~HeldIn(tab, other)'
                      /\ \A r, p \in calls' : Sending(r, tab, other) /\ Sending(p, tab, other) => r = p
                      /\ \A r \in calls' : Sending(r, tab, other) /\ r.reply \in {None, Failed} =>
                           Message(tab, other) \notin server.got
    BY DEF SentOnce, Tracked
  <2>1. other # None
    BY DEF Tracked
  <2>2. CASE tab = view.chat /\ other = text
    <3>1. ~Composing!SentFrom(tab, other)
      BY <2>1, <2>2
    <3>2. \A r \in calls : ~Sending(r, tab, other)
      BY <3>1 DEF Sending, Composing!SentFrom
    <3>3. Message(tab, other) \notin server.got
      BY <3>1 DEF Message, Composing!SentFrom
    <3> QED BY <2>1, <2>2, <3>2, <3>3
  <2>3. CASE ~(tab = view.chat /\ other = text)
    <3>1. ~Sending(q, tab, other)
      BY <2>3 DEF Sending
    <3> QED BY <1>1, <1>4, <2>1, <2>3, <3>1 DEF ComposerInv, SentOnce
  <2> QED BY <2>2, <2>3
<1>7. TextsAreOld'
  <2> SUFFICES ASSUME NEW other, other # None, Somewhere(other)' \/ Shipped(other)' \/ Waits(other)'
               PROVE  other.n \in Int /\ other.n > left'.looks
    BY DEF TextsAreOld, LooksOn
  <2>1. other.n \in Int /\ other.n > left.looks
    BY <1>2, <1>3 DEF ComposerInv, TextsAreOld
  <2> QED BY <2>1 DEF LooksOn, ComposerInv, TextsAreOld
<1>8. InjectedIsNew'
  BY <1>2, <1>3 DEF ComposerInv, InjectedIsNew
<1> QED BY <1>5, <1>6, <1>7, <1>8 DEF ComposerInv

\* A message that failed is put back, by the code that sent it.
LEMMA TextPutBack ==
  ASSUME ComposerInv, NEW r \in calls, Composing!SendFailed(r)
  PROVE  ComposerInv'
<1> DEFINE tab == r.arg.chat
           text == r.arg.text
<1>1. /\ r.reply = Failed /\ r.kind = "send" /\ calls' = calls \ {r} /\ UNCHANGED left
      /\ IsMessage(r) /\ tab \in Composing!Chats
  BY DEF Composing!SendFailed, Composing!Takes, ComposerInv, ComposerShape, IsMessage
<1>2. /\ {"drafts", "got", "pending", "carried"} \subseteq DOMAIN server'
      /\ server'.got = server.got /\ server'.pending = server.pending /\ server'.carried = server.carried
      /\ DOMAIN server'.drafts = Composing!Chats
      /\ server'.drafts \in {server.drafts, [server.drafts EXCEPT ![tab] = text]}
  BY DEF Composing!SendFailed, Composing!setChatDraft, ComposerInv, ComposerShape
<1>3. /\ {"chat", "input", "timer"} \subseteq DOMAIN view' /\ view'.chat = view.chat
      /\ view'.timer = view.timer
      /\ view'.input = view.input \/ (view.chat = tab /\ view'.input = text)
  BY <1>1 DEF Composing!SendFailed, ComposerInv, ComposerShape, IsMessage
<1> HIDE DEF tab, text
<1>4. Shipped(text) /\ Composing!SentFrom(tab, text)
  BY <1>1 DEF Shipped, Composing!SentFrom, tab, text
<1>5. \A c \in Composing!Chats : \A x : HeldIn(c, x)' => HeldIn(c, x) \/ (c = tab /\ x = text)
  BY <1>1, <1>2, <1>3 DEF HeldIn, ComposerInv, ComposerShape
<1>6. \A x : Somewhere(x)' => Somewhere(x) \/ x = text
  BY <1>1, <1>2, <1>3 DEF Somewhere, ComposerInv, ComposerShape
<1>7. \A x : (Shipped(x)' => Shipped(x)) /\ (Waits(x)' <=> Waits(x))
  BY <1>1, <1>2 DEF Shipped, Waits
<1>8. ComposerShape'
  BY <1>1, <1>2, <1>3 DEF ComposerInv, ComposerShape, IsMessage
<1>9. SentOnce'
  <2> SUFFICES ASSUME NEW c \in Composing!Chats, NEW x, Tracked(c, x)
               PROVE  /\ Composing!SentFrom(c, x)' => ~HeldIn(c, x)'
                      /\ \A p, q \in calls' : Sending(p, c, x) /\ Sending(q, c, x) => p = q
                      /\ \A q \in calls' : Sending(q, c, x) /\ q.reply \in {None, Failed} =>
                           Message(c, x) \notin server.got
    BY <1>2 DEF SentOnce, Tracked
  <2>1. CASE c = tab /\ x = text
    <3>1. Sending(r, c, x)
      BY <1>1, <2>1 DEF Sending, tab, text
    <3>2. \A q \in calls' : ~Sending(q, c, x)
      BY <1>1, <3>1 DEF ComposerInv, SentOnce
    <3>3. Message(c, x) \notin server.got
      BY <1>1, <3>1 DEF ComposerInv, SentOnce
    <3>4. ~Composing!SentFrom(c, x)'
      BY <1>2, <3>2, <3>3 DEF Composing!SentFrom, Sending, Message
    <3> QED BY <3>2, <3>4
  <2>2. CASE ~(c = tab /\ x = text)
    <3>1. Composing!SentFrom(c, x)' => Composing!SentFrom(c, x)
      BY <1>1, <1>2 DEF Composing!SentFrom
    <3> QED BY <1>1, <1>2, <1>5, <2>2, <3>1 DEF ComposerInv, SentOnce
  <2> QED BY <2>1, <2>2
<1>10. TextsAreOld'
  BY <1>1, <1>4, <1>6, <1>7 DEF ComposerInv, TextsAreOld
<1>11. InjectedIsNew'
  BY <1>4, <1>6, <1>7 DEF ComposerInv, InjectedIsNew
<1> QED BY <1>8, <1>9, <1>10, <1>11 DEF ComposerInv

\* The server answers for a message: it has it, or the message came to nothing.
LEMMA MessageAnswered ==
  ASSUME ComposerInv, LooksOn, NEW r \in calls, r.kind = "send", NEW reply \in {"ok", Failed},
         Composing!Answers(r, reply), UNCHANGED view,
         {"drafts", "got", "pending", "carried"} \subseteq DOMAIN server',
         server'.drafts = server.drafts, server'.pending = server.pending,
         server'.carried = server.carried,
         server'.got = IF reply = "ok" THEN server.got \cup {Message(r.arg.chat, r.arg.text)}
                       ELSE server.got
  PROVE  ComposerInv'
<1> DEFINE q == [r EXCEPT !.reply = reply]
<1>1. calls' = (calls \ {r}) \cup {q} /\ r.reply = None
  BY DEF Composing!Answers
<1>2. DOMAIN q = DOMAIN r /\ q.kind = r.kind /\ q.arg = r.arg /\ q.reply = reply
  BY DEF ComposerInv, ComposerShape, Fields
<1> HIDE DEF q
<1>3. IsMessage(r) /\ Fields \subseteq DOMAIN r /\ "mine" \in DOMAIN r.arg
  BY DEF ComposerInv, ComposerShape
<1>4. \A tab, text : (HeldIn(tab, text)' <=> HeldIn(tab, text)) /\ (Somewhere(text)' <=> Somewhere(text))
  BY DEF HeldIn, Somewhere
<1>5. \A text : (Shipped(text)' => Shipped(text)) /\ (Waits(text)' <=> Waits(text))
  BY <1>1, <1>2 DEF Shipped, Waits, Message
<1>6. \A tab, text : Composing!SentFrom(tab, text)' => Composing!SentFrom(tab, text)
  BY <1>1, <1>2 DEF Composing!SentFrom, Message
<1>7. ComposerShape'
  BY <1>1, <1>2, <1>3 DEF ComposerInv, ComposerShape, IsMessage, Message
<1>8. SentOnce'
  <2> SUFFICES ASSUME NEW tab \in Composing!Chats, NEW text, Tracked(tab, text)
               PROVE  /\ Composing!SentFrom(tab, text)' => ~HeldIn(tab, text)'
                      /\ \A p, s \in calls' : Sending(p, tab, text) /\ Sending(s, tab, text) => p = s
                      /\ \A p \in calls' : Sending(p, tab, text) /\ p.reply \in {None, Failed} =>
                           Message(tab, text) \notin server'.got
    BY DEF SentOnce, Tracked
  <2>1. Sending(q, tab, text) <=> Sending(r, tab, text)
    BY <1>2 DEF Sending
  <2>2. \A p, s \in calls' : Sending(p, tab, text) /\ Sending(s, tab, text) => p = s
    BY <1>1, <2>1 DEF ComposerInv, SentOnce
  <2>3. ASSUME NEW p \in calls', Sending(p, tab, text), p.reply \in {None, Failed}
        PROVE  Message(tab, text) \notin server'.got
    <3>1. CASE p = q
      <4>1. reply # "ok"
        BY <1>2, <2>3, <3>1, ReplyOK
      <4>2. Message(tab, text) \notin server.got
        BY <1>1, <2>1, <2>3, <3>1 DEF ComposerInv, SentOnce
      <4> QED BY <4>1, <4>2
    <3>2. CASE p # q
      <4>1. p \in calls /\ p # r
        BY <1>1, <3>2
      <4>2. Message(tab, text) \notin server.got
        BY <2>3, <4>1 DEF ComposerInv, SentOnce
      <4>3. ~Sending(r, tab, text)
        BY <2>3, <4>1 DEF ComposerInv, SentOnce
      <4>4. Message(r.arg.chat, r.arg.text) # Message(tab, text)
        <5>1. r.arg.chat # tab \/ r.arg.text # text
          BY <4>3 DEF Sending
        <5>2. ASSUME Message(r.arg.chat, r.arg.text) = Message(tab, text)
              PROVE  r.arg.chat = tab /\ r.arg.text = text
          BY <5>2 DEF Message
        <5> QED BY <5>1, <5>2
      <4> QED BY <4>2, <4>4
    <3> QED BY <3>1, <3>2
  <2>4. Composing!SentFrom(tab, text)' => ~HeldIn(tab, text)'
    BY <1>4, <1>6 DEF ComposerInv, SentOnce
  <2> QED BY <2>2, <2>3, <2>4
<1>9. TextsAreOld'
  <2> SUFFICES ASSUME NEW text, text # None, Somewhere(text)' \/ Shipped(text)' \/ Waits(text)'
               PROVE  text.n \in Int /\ text.n > left'.looks
    BY DEF TextsAreOld, LooksOn
  <2>1. text.n \in Int /\ text.n > left.looks
    BY <1>4, <1>5 DEF ComposerInv, TextsAreOld
  <2> QED BY <2>1 DEF LooksOn, ComposerInv, TextsAreOld
<1>10. InjectedIsNew'
  BY <1>4, <1>5 DEF ComposerInv, InjectedIsNew
<1> QED BY <1>7, <1>8, <1>9, <1>10 DEF ComposerInv

\* A pane's requests are about something.
LEMMA AskedShaped ==
  ASSUME NEW kind, NEW arg, "mine" \in DOMAIN arg
  PROVE  LET q == Composing!Request(kind, arg)
         IN  Fields \subseteq DOMAIN q /\ q.arg = arg /\ "mine" \in DOMAIN q.arg /\ q.kind = kind
BY DEF Composing!Request, Fields

LEMMA ComposerStep == ASSUME ComposerInv, Composing!Next PROVE ComposerInv'
<1>1. CASE Composing!Type
  <2>1. PICK slash \in BOOLEAN : view' = [Composing!Typed(view, Composing!Text) EXCEPT !.slash = slash]
    BY <1>1 DEF Composing!Type
  <2>2. /\ {"chat", "input", "timer"} \subseteq DOMAIN view' /\ view'.chat = view.chat
        /\ view'.input = Composing!Text /\ view'.timer.text = Composing!Text
    BY <2>1 DEF Composing!Typed, ComposerInv, ComposerShape
  <2> QED BY <1>1, <2>2, TextWritten DEF Composing!Type
<1>2. CASE Composing!InsertPrompt \/ Composing!Dictate
  <2>1. view' = Composing!Typed(view, Composing!Text)
    BY <1>2 DEF Composing!Dictate, Composing!InsertPrompt
  <2>2. /\ {"chat", "input", "timer"} \subseteq DOMAIN view' /\ view'.chat = view.chat
        /\ view'.input = Composing!Text /\ view'.timer.text = Composing!Text
    BY <2>1 DEF Composing!Typed, ComposerInv, ComposerShape
  <2> QED BY <1>2, <2>2, TextWritten DEF Composing!Dictate, Composing!InsertPrompt
<1>3. CASE Composing!applySlash
  <2>1. /\ {"chat", "input", "timer"} \subseteq DOMAIN view' /\ view'.chat = view.chat
        /\ view'.input = Composing!Text /\ view'.timer = view.timer
    BY <1>3 DEF Composing!applySlash, ComposerInv, ComposerShape
  <2> QED BY <1>3, <2>1, TextWritten DEF Composing!applySlash
<1>4. CASE Composing!send
  <2>0. PICK text : text = view.input
    OBVIOUS
  <2> DEFINE arg == Composing!Message(view.chat, view.input, view.uploads, TRUE)
             q   == Composing!Request("send", arg)
  <2>1. /\ calls' = calls \cup {q} /\ LooksOn /\ view.chat \in Composing!Chats
    BY <1>4, SpendGoesOn DEF Composing!send, Composing!Sendable, Composing!Shown, Composing!Asks, ComposerInv, ComposerShape
  <2>2. /\ {"mine", "chat", "text", "keep", "files"} \subseteq DOMAIN arg
        /\ arg.chat = view.chat /\ arg.text = view.input
    BY DEF Composing!Message
  <2>3. Fields \subseteq DOMAIN q /\ q.arg = arg /\ q.kind = "send"
    BY <2>2, AskedShaped
  <2>4. /\ {"chat", "input", "timer"} \subseteq DOMAIN view' /\ view'.chat = view.chat
        /\ view'.input = None /\ view'.timer = None
    BY <1>4 DEF Composing!send, ComposerInv, ComposerShape
  <2>5. /\ {"drafts", "got", "pending", "carried"} \subseteq DOMAIN server'
        /\ server'.got = server.got /\ server'.carried = server.carried /\ server'.pending = server.pending
        /\ server'.drafts = [server.drafts EXCEPT ![view.chat] = None]
    BY <1>4 DEF Composing!send, Composing!Sendable, Composing!Shown, Composing!setChatDraft, ComposerInv, ComposerShape
  <2> HIDE DEF arg, q
  <2>6. /\ DOMAIN server'.drafts = Composing!Chats /\ server'.drafts[view.chat] = None
        /\ \A tab \in Composing!Chats : server'.drafts[tab] \in {server.drafts[tab], None}
    BY <2>1, <2>5 DEF ComposerInv, ComposerShape
  <2>7. text # None => /\ ~HeldIn(view.chat, text)'
                             /\ Somewhere(text) /\ HeldIn(view.chat, text)
    BY <2>0, <2>4, <2>6 DEF HeldIn, Somewhere
  <2>8. text # None /\ Tracked(view.chat, text) => ~Composing!SentFrom(view.chat, text)
    BY <2>1, <2>7 DEF ComposerInv, SentOnce
  <2>9. \A other : other # None /\ Waits(other)' => Waits(other) /\ other # text
    BY <2>5, <2>7 DEF Waits, ComposerInv, InjectedIsNew
  <2> QED BY <2>0, <2>1, <2>2, <2>3, <2>4, <2>5, <2>6, <2>7, <2>8, <2>9, TextSent
<1>5. CASE Composing!TakeInjection
  <2>0. PICK text : text = server.pending.text
    OBVIOUS
  <2> DEFINE plain == Composing!Message(view.chat, text, {}, TRUE)
             arg   == [plain EXCEPT !.keep = FALSE]
             q     == Composing!Request("send", arg)
  <2>1. /\ calls' = calls \cup {q} /\ LooksOn /\ view.chat \in Composing!Chats /\ Waits(text)
        /\ UNCHANGED view
    BY <1>5, <2>0, SpendGoesOn DEF Composing!TakeInjection, Composing!Shown, Composing!Asks, ComposerInv, ComposerShape, Waits
  <2>2. /\ {"mine", "chat", "text", "keep", "files"} \subseteq DOMAIN plain
        /\ plain.chat = view.chat /\ plain.text = text
    BY DEF Composing!Message
  <2>3. /\ {"mine", "chat", "text", "keep", "files"} \subseteq DOMAIN arg
        /\ arg.chat = view.chat /\ arg.text = text
    <3> HIDE DEF plain
    <3> QED BY <2>2
  <2> HIDE DEF arg, plain
  <2>4. Fields \subseteq DOMAIN q /\ q.arg = arg /\ q.kind = "send"
    BY <2>3, AskedShaped
  <2>5. /\ {"drafts", "got", "pending", "carried"} \subseteq DOMAIN server'
        /\ server'.got = server.got /\ server'.carried = server.carried /\ server'.pending = None
        /\ server'.drafts = server.drafts
    BY <1>5 DEF Composing!TakeInjection, ComposerInv, ComposerShape
  <2> HIDE DEF q
  <2>6. text # None => ~Somewhere(text) /\ ~Shipped(text)
    BY <2>1 DEF ComposerInv, InjectedIsNew
  <2>7. text # None => ~HeldIn(view.chat, text)' /\ ~Composing!SentFrom(view.chat, text)
    BY <2>1, <2>5, <2>6 DEF HeldIn, Somewhere, Shipped, Composing!SentFrom
  <2>8. \A other : ~Waits(other)'
    BY <2>5 DEF Waits
  <2>9. /\ {"chat", "input", "timer"} \subseteq DOMAIN view'
        /\ DOMAIN server'.drafts = Composing!Chats
    BY <2>1, <2>5 DEF ComposerInv, ComposerShape
  <2> QED BY <2>1, <2>3, <2>4, <2>5, <2>7, <2>8, <2>9, TextSent
<1>6. ASSUME NEW tab \in Composing!Chats \cup {None}, Composing!Activate(tab) PROVE ComposerInv'
  BY <1>6, TabComes
<1>7. ASSUME NEW tab \in Composing!Chats \cup {None}, Composing!Inject(tab) PROVE ComposerInv'
  <2> DEFINE new == [of |-> "rail", n |-> left.looks]
  <2>1. /\ {"drafts", "got", "pending", "carried"} \subseteq DOMAIN server'
        /\ server'.got = server.got /\ server'.carried = server.carried /\ server'.drafts = server.drafts
        /\ server'.pending.text = new
    BY <1>7 DEF Composing!Inject, ComposerInv, ComposerShape
  <2>2. new.n = left.looks /\ left.looks \in Int /\ left'.looks = left.looks - 1 /\ LooksOn
    BY <1>7, SpendGoesOn DEF Composing!Inject, ComposerInv, TextsAreOld
  <2>3. UNCHANGED <<view, calls>>
    BY <1>7 DEF Composing!Inject
  <2> HIDE DEF new
  <2>4. new # None => ~Somewhere(new) /\ ~Shipped(new)
    BY <2>2 DEF ComposerInv, TextsAreOld
  <2>5. \A c, x : (HeldIn(c, x)' <=> HeldIn(c, x)) /\ (Composing!SentFrom(c, x)' <=> Composing!SentFrom(c, x))
    BY <2>1, <2>3 DEF HeldIn, Composing!SentFrom
  <2>6. \A x : /\ Somewhere(x)' <=> Somewhere(x)
               /\ Shipped(x)' <=> Shipped(x)
               /\ Waits(x)' => x = new
    BY <2>1, <2>3 DEF Somewhere, Shipped, Waits
  <2>7. ComposerShape'
    BY <2>1, <2>3 DEF ComposerInv, ComposerShape, IsMessage
  <2>8. SentOnce'
    BY <2>1, <2>3, <2>5 DEF ComposerInv, SentOnce, Tracked
  <2>9. TextsAreOld'
    <3> SUFFICES ASSUME NEW x, x # None, Somewhere(x)' \/ Shipped(x)' \/ Waits(x)'
                 PROVE  x.n \in Int /\ x.n > left'.looks
      BY <2>2 DEF TextsAreOld, LooksOn
    <3>1. CASE x = new
      BY <2>2, <3>1
    <3>2. CASE x # new
      <4>1. x.n \in Int /\ x.n > left.looks
        BY <2>6, <3>2 DEF ComposerInv, TextsAreOld
      <4> QED BY <2>2, <4>1
    <3> QED BY <3>1, <3>2
  <2>10. InjectedIsNew'
    BY <2>4, <2>6 DEF InjectedIsNew
  <2> QED BY <2>7, <2>8, <2>9, <2>10 DEF ComposerInv
<1>8. ASSUME NEW r \in calls, Composing!SendFailed(r) PROVE ComposerInv'
  BY <1>8, TextPutBack
<1>9. ASSUME NEW r \in calls, Composing!ServeSend(r) PROVE ComposerInv'
  <2>1. /\ {"drafts", "got", "pending", "carried"} \subseteq DOMAIN server'
        /\ server'.drafts = server.drafts /\ server'.pending = server.pending
        /\ server'.carried = server.carried
        /\ server'.got = server.got \cup {Message(r.arg.chat, r.arg.text)}
    BY <1>9 DEF Composing!ServeSend, ComposerInv, ComposerShape, Message
  <2>2. LooksOn /\ r.kind = "send" /\ Composing!Answers(r, "ok") /\ UNCHANGED view
    BY <1>9 DEF Composing!ServeSend, LooksOn, ComposerInv, TextsAreOld
  <2> QED BY <2>1, <2>2, MessageAnswered
<1>10. ASSUME NEW r \in calls, Composing!Fails(r) PROVE ComposerInv'
  <2>1. LooksOn /\ Composing!Answers(r, Failed) /\ UNCHANGED <<view, server>>
    BY <1>10, SpendGoesOn DEF Composing!Fails
  <2>2. CASE r.kind = "send"
    BY <2>1, <2>2, ReplyOK, MessageAnswered DEF ComposerInv, ComposerShape
  <2>3. CASE r.kind # "send"
    <3> DEFINE q == [r EXCEPT !.reply = Failed]
    <3>1. calls' = (calls \ {r}) \cup {q}
      BY <2>1 DEF Composing!Answers
    <3>2. NoMessage(q)
      BY <2>3 DEF NoMessage, ComposerInv, ComposerShape, Fields
    <3> HIDE DEF q
    <3> QED BY <2>1, <3>1, <3>2, NothingWritten DEF ServerSame, ComposerInv, ComposerShape
  <2> QED BY <2>2, <2>3
<1>11. ASSUME NEW r \in calls, Composing!ServeModel(r) \/ Composing!ServeOther(r) PROVE ComposerInv'
  <2>1. PICK reply : Composing!Answers(r, reply)
    BY <1>11 DEF Composing!ServeModel, Composing!ServeOther
  <2> DEFINE q == [r EXCEPT !.reply = reply]
  <2>2. calls' = (calls \ {r}) \cup {q}
    BY <2>1 DEF Composing!Answers
  <2>3. NoMessage(q)
    BY <1>11 DEF Composing!ServeModel, Composing!ServeOther, NoMessage, ComposerInv, ComposerShape, Fields
  <2> HIDE DEF q
  <2>4. ServerSame /\ server'.drafts = server.drafts /\ UNCHANGED <<view, left>>
    BY <1>11 DEF Composing!ServeModel, Composing!ServeOther, ServerSame, ComposerInv, ComposerShape
  <2> QED BY <2>2, <2>3, <2>4, NothingWritten DEF LooksOn, ComposerInv, ComposerShape, TextsAreOld
<1>12. ASSUME NEW r \in calls,
              \/ Composing!CommandsDone(r) \/ Composing!UploadDone(r) \/ Composing!SendDone(r)
              \/ Composing!ModelDone(r) \/ Composing!Forgotten(r)
       PROVE  ComposerInv'
  <2>1. calls' \subseteq calls /\ UNCHANGED <<server, left>>
    BY <1>12
    DEF Composing!CommandsDone, Composing!UploadDone, Composing!SendDone, Composing!ModelDone,
        Composing!Forgotten, Composing!Takes
  <2>2. /\ {"chat", "input", "timer"} \subseteq DOMAIN view' /\ view'.chat = view.chat
        /\ view'.input = view.input /\ view'.timer = view.timer
    BY <1>12
    DEF Composing!CommandsDone, Composing!UploadDone, Composing!SendDone, Composing!ModelDone,
        Composing!Forgotten, ComposerInv, ComposerShape
  <2> QED BY <2>1, <2>2, NothingWritten DEF ServerSame, LooksOn, ComposerInv, ComposerShape, TextsAreOld
<1>13. CASE \/ Composing!Erase \/ Composing!DismissSlash \/ Composing!MicStart \/ Composing!MicStop
            \/ \E file \in Attachments : Composing!removeUpload(file)
            \/ \E session \in view.mic.live : Composing!MicEnd(session)
  <2>1. UNCHANGED <<server, calls>> /\ LooksOn
    BY <1>13, SpendGoesOn
    DEF Composing!Erase, Composing!DismissSlash, Composing!MicStart, Composing!MicStop,
        Composing!removeUpload, Composing!MicEnd, LooksOn, ComposerInv, TextsAreOld
  <2>2. /\ {"chat", "input", "timer"} \subseteq DOMAIN view' /\ view'.chat = view.chat
        /\ view'.input \in {view.input, None}
        /\ view'.timer = view.timer \/ view'.timer.text = None
    <3>1. CASE Composing!Erase
      <4> DEFINE typed == Composing!Typed(view, None)
      <4>1. view' = [typed EXCEPT !.slash = FALSE]
        BY <3>1 DEF Composing!Erase
      <4>2. /\ {"chat", "input", "timer"} \subseteq DOMAIN typed /\ typed.chat = view.chat
            /\ typed.input = None /\ typed.timer.text = None
        BY DEF Composing!Typed, ComposerInv, ComposerShape
      <4> HIDE DEF typed
      <4> QED BY <4>1, <4>2
    <3> QED
      BY <1>13, <3>1
      DEF Composing!DismissSlash, Composing!MicStart, Composing!MicStop, Composing!removeUpload,
          Composing!MicEnd, ComposerInv, ComposerShape
  <2> QED BY <2>1, <2>2, NothingWritten DEF ServerSame, ComposerInv, ComposerShape
<1>14. CASE Composing!DraftTimer
  <2>1. /\ {"chat", "input", "timer"} \subseteq DOMAIN view' /\ view'.chat = view.chat
        /\ view'.input = view.input /\ view'.timer = None /\ view.timer # None
        /\ UNCHANGED <<calls, left>>
    BY <1>14 DEF Composing!DraftTimer, ComposerInv, ComposerShape
  <2>2. ServerSame /\ server'.drafts \in {server.drafts, [server.drafts EXCEPT ![view.chat] = view.timer.text]}
    BY <1>14 DEF Composing!DraftTimer, Composing!setChatDraft, ServerSame, ComposerInv, ComposerShape
  <2>3. \A tab \in Composing!Chats :
          \/ server'.drafts[tab] \in {server.drafts[tab], None}
          \/ tab = view.chat /\ view.timer # None /\ server'.drafts[tab] = view.timer.text
    BY <2>1, <2>2 DEF ComposerInv, ComposerShape
  <2> QED BY <2>1, <2>2, <2>3, NothingWritten DEF LooksOn, ComposerInv, ComposerShape, TextsAreOld
<1>15. ASSUME NEW kind \in {"commands", "upload", "model"}, NEW arg, "mine" \in DOMAIN arg,
              Composing!Asks(kind, arg), UNCHANGED server,
              {"chat", "input", "timer"} \subseteq DOMAIN view', view'.chat = view.chat,
              view'.input = view.input, view'.timer = view.timer
       PROVE  ComposerInv'
  <2> DEFINE q == Composing!Request(kind, arg)
  <2>1. calls' = calls \cup {q} /\ LooksOn
    BY <1>15, SpendGoesOn DEF Composing!Asks
  <2>2. NoMessage(q)
    BY <1>15, AskedShaped DEF NoMessage
  <2> HIDE DEF q
  <2> QED BY <1>15, <2>1, <2>2, NothingWritten DEF ServerSame, ComposerInv, ComposerShape
<1>16. CASE Composing!ListCommands
  BY <1>15, <1>16 DEF Composing!ListCommands, ComposerInv, ComposerShape
<1>17. ASSUME NEW file, Composing!uploadFileList(file) PROVE ComposerInv'
  BY <1>15, <1>17 DEF Composing!uploadFileList, ComposerInv, ComposerShape
<1>18. ASSUME NEW model, Composing!changeModel(model) PROVE ComposerInv'
  BY <1>15, <1>18 DEF Composing!changeModel, ComposerInv, ComposerShape
<1>19. CASE Composing!Enter
  BY <1>3, <1>4, <1>19 DEF Composing!Enter
<1>20. CASE Composing!PasteFiles
  BY <1>17, <1>20 DEF Composing!PasteFiles
<1> QED
  BY <1>1, <1>2, <1>3, <1>4, <1>5, <1>6, <1>7, <1>8, <1>9, <1>10, <1>11, <1>12, <1>13, <1>14, <1>16, <1>17,
     <1>18, <1>19, <1>20
  DEF Composing!Next

-----------------------------------------------------------------------------
(* The mobile session.  Filters of prompts.                                *)

Filter(f, s, kept, m) ==
  f = [n \in 0..m |-> IF n = 0 THEN <<>> ELSE Mobile!Joined(f[n - 1], s[n], kept)]

LEMMA OnlyIs ==
  ASSUME NEW s, Len(s) \in Nat, NEW kept
  PROVE  \E f : Filter(f, s, kept, Len(s)) /\ Mobile!Only(s, kept) = f[Len(s)]
<1> DEFINE Bad == {m \in Nat : ~\E f : Filter(f, s, kept, m)}
<1>1. Bad = {}
  <2> SUFFICES ASSUME Bad # {} PROVE FALSE
    OBVIOUS
  <2>1. PICK m \in Bad : \A k \in Bad : m <= k
    <3>1. Bad \in SUBSET Nat
      OBVIOUS
    <3> QED BY <3>1, LeastOf
  <2>2. m # 0
    <3> DEFINE z == [n \in {0} |-> <<>>]
    <3>1. Filter(z, s, kept, 0)
      BY DEF Filter
    <3> QED BY <3>1
  <2>3. m \in Nat /\ m - 1 \in Nat /\ m - 1 < m
    BY <2>2
  <2>4. m - 1 \notin Bad
    BY <2>1, <2>3
  <2>5. PICK g : Filter(g, s, kept, m - 1)
    BY <2>3, <2>4
  <2> DEFINE h == [n \in 0..m |-> IF n < m THEN g[n] ELSE Mobile!Joined(g[n - 1], s[n], kept)]
  <2>6. Filter(h, s, kept, m)
    <3> SUFFICES ASSUME NEW n \in 0..m
                 PROVE  h[n] = IF n = 0 THEN <<>> ELSE Mobile!Joined(h[n - 1], s[n], kept)
      BY DEF Filter
    <3>1. n # 0 => h[n - 1] = g[n - 1]
      BY <2>3
    <3>2. n < m => h[n] = g[n] /\ g[n] = IF n = 0 THEN <<>> ELSE Mobile!Joined(g[n - 1], s[n], kept)
      BY <2>3, <2>5 DEF Filter
    <3>3. n = m => n # 0 /\ h[n] = Mobile!Joined(g[n - 1], s[n], kept)
      BY <2>3
    <3> HIDE DEF h
    <3> QED BY <2>3, <3>1, <3>2, <3>3
  <2> QED BY <2>3, <2>6
<1>2. \E f : Filter(f, s, kept, Len(s))
  BY <1>1
<1> QED BY <1>2 DEF Mobile!Only, Filter

Elements(s, n) == {s[i] : i \in 1..n}

\* What a filter has kept after n elements.
HasKept(q, s, S, kept, n) ==
  q \in Seq(S) /\ Len(q) <= n /\ Elements(q, Len(q)) = Elements(s, n) \cap kept

LEMMA KeptOn ==
  ASSUME NEW S, NEW s \in Seq(S), NEW kept, NEW n \in 1..Len(s), NEW q, HasKept(q, s, S, kept, n - 1),
         NEW p, p = Mobile!Joined(q, s[n], kept)
  PROVE  HasKept(p, s, S, kept, n)
<1>1. Elements(s, n) = Elements(s, n - 1) \cup {s[n]}
  BY DEF Elements
<1>2. CASE s[n] \in kept
  <2>1. /\ p \in Seq(S) /\ Len(p) = Len(q) + 1 /\ Len(q) \in Nat
        /\ \A i \in 1..Len(q) : p[i] = q[i]
        /\ p[Len(p)] = s[n]
    BY <1>2 DEF HasKept, Mobile!Joined
  <2>2. Elements(p, Len(p)) = Elements(q, Len(q)) \cup {s[n]}
    <3>1. {p[i] : i \in 1..(Len(q) + 1)} = {p[i] : i \in 1..Len(q)} \cup {p[Len(q) + 1]}
      BY <2>1
    <3>2. {p[i] : i \in 1..Len(q)} = {q[i] : i \in 1..Len(q)}
      BY <2>1
    <3> QED BY <2>1, <3>1, <3>2 DEF Elements
  <2> QED BY <1>1, <1>2, <2>1, <2>2 DEF HasKept
<1>3. CASE s[n] \notin kept
  BY <1>1, <1>3 DEF HasKept, Mobile!Joined
<1> QED BY <1>2, <1>3

LEMMA OnlyKeeps ==
  ASSUME NEW S, NEW s \in Seq(S), NEW kept
  PROVE  HasKept(Mobile!Only(s, kept), s, S, kept, Len(s))
<1>1. PICK f : Filter(f, s, kept, Len(s)) /\ Mobile!Only(s, kept) = f[Len(s)]
  BY OnlyIs
<1> DEFINE Bad == {n \in 0..Len(s) : ~HasKept(f[n], s, S, kept, n)}
<1>2. ASSUME Bad # {} PROVE FALSE
  <2>1. PICK m \in Bad : \A k \in Bad : m <= k
    <3>1. Bad \in SUBSET Nat
      OBVIOUS
    <3> QED BY <1>2, <3>1, LeastOf
  <2>2. m # 0
    BY <1>1 DEF Filter, HasKept, Elements
  <2>3. m \in 1..Len(s) /\ m - 1 \in 0..Len(s) /\ m - 1 < m
    BY <2>2
  <2>4. HasKept(f[m - 1], s, S, kept, m - 1)
    BY <2>1, <2>3
  <2>5. f[m] = Mobile!Joined(f[m - 1], s[m], kept)
    BY <1>1, <2>3 DEF Filter
  <2>6. HasKept(f[m], s, S, kept, m)
    BY <2>3, <2>4, <2>5, KeptOn
  <2> QED BY <2>1, <2>6
<1>3. Len(s) \in 0..Len(s)
  OBVIOUS
<1> QED BY <1>1, <1>2, <1>3

-----------------------------------------------------------------------------
(* Lists of prompts.  What is on the screen is told by the set of prompts  *)
(* that a list has.                                                        *)

Shapely(p) == {"id", "seq", "content", "events"} \subseteq DOMAIN p

PromptList(q) == \E S : q \in Seq(S) /\ \A p \in S : Shapely(p)

LEMMA ListFacts ==
  ASSUME NEW q, PromptList(q)
  PROVE  /\ Len(q) \in Nat /\ DOMAIN q = 1..Len(q)
         /\ Mobile!ToSet(q) = Elements(q, Len(q))
         /\ \A i \in 1..Len(q) : Shapely(q[i])
         /\ q \in Seq(Elements(q, Len(q))) /\ \A p \in Elements(q, Len(q)) : Shapely(p)
<1>1. PICK S : q \in Seq(S) /\ \A p \in S : Shapely(p)
  BY DEF PromptList
<1>2. Len(q) \in Nat /\ DOMAIN q = 1..Len(q) /\ \A i \in 1..Len(q) : q[i] \in S
  BY <1>1
<1>3. q \in [1..Len(q) -> S]
  BY <1>1
<1>4. q \in [1..Len(q) -> Elements(q, Len(q))]
  BY <1>3 DEF Elements
<1>5. q \in Seq(Elements(q, Len(q)))
  BY <1>2, <1>4, SeqDef
<1> QED BY <1>1, <1>2, <1>5 DEF Elements, Mobile!ToSet

LEMMA OnlyList ==
  ASSUME NEW q, PromptList(q), NEW kept
  PROVE  LET r == Mobile!Only(q, kept)
         IN  PromptList(r) /\ Len(r) <= Len(q) /\ Mobile!ToSet(r) = Mobile!ToSet(q) \cap kept
<1> DEFINE r == Mobile!Only(q, kept)
           S == Elements(q, Len(q))
<1>1. HasKept(r, q, S, kept, Len(q))
  BY ListFacts, OnlyKeeps
<1>2. \A p \in S : Shapely(p)
  BY ListFacts
<1> HIDE DEF r, S
<1>3. PromptList(r)
  BY <1>1, <1>2 DEF HasKept, PromptList
<1>4. Mobile!ToSet(r) = Elements(r, Len(r)) /\ Mobile!ToSet(q) = S
  BY <1>3, ListFacts DEF S
<1>5. Len(r) <= Len(q) /\ Mobile!ToSet(r) = Mobile!ToSet(q) \cap kept
  BY <1>1, <1>4 DEF HasKept, S
<1> QED BY <1>3, <1>5 DEF r

LEMMA JoinedLists ==
  ASSUME NEW q, PromptList(q), NEW r, PromptList(r)
  PROVE  /\ PromptList(q \o r) /\ Len(q \o r) = Len(q) + Len(r)
         /\ \A i \in 1..Len(q) : (q \o r)[i] = q[i]
         /\ \A i \in 1..Len(r) : (q \o r)[Len(q) + i] = r[i]
         /\ Mobile!ToSet(q \o r) = Mobile!ToSet(q) \cup Mobile!ToSet(r)
<1> DEFINE S == Elements(q, Len(q)) \cup Elements(r, Len(r))
<1>1. Len(q) \in Nat /\ Len(r) \in Nat /\ \A p \in S : Shapely(p)
  BY ListFacts
<1>2. q \in Seq(S) /\ r \in Seq(S)
  <2>1. q \in Seq(Elements(q, Len(q))) /\ r \in Seq(Elements(r, Len(r)))
    BY ListFacts
  <2>2. Elements(q, Len(q)) \subseteq S /\ Elements(r, Len(r)) \subseteq S
    OBVIOUS
  <2> HIDE DEF S
  <2> QED BY <2>1, <2>2, SeqMonotonic
<1>3. /\ q \o r \in Seq(S) /\ Len(q \o r) = Len(q) + Len(r)
      /\ \A i \in 1 .. Len(q) + Len(r) : (q \o r)[i] = IF i <= Len(q) THEN q[i] ELSE r[i - Len(q)]
  BY <1>2, ConcatProperties, Zenon
<1> HIDE DEF S
<1>4. PromptList(q \o r)
  BY <1>1, <1>3 DEF PromptList
<1>5. \A i \in 1..Len(q) : (q \o r)[i] = q[i]
  BY <1>1, <1>3
<1>6. \A i \in 1..Len(r) : (q \o r)[Len(q) + i] = r[i]
  BY <1>1, <1>3
<1>7. Elements(q \o r, Len(q) + Len(r)) = Elements(q, Len(q)) \cup Elements(r, Len(r))
  <2>1. ASSUME NEW i \in 1..(Len(q) + Len(r))
        PROVE  (q \o r)[i] \in Elements(q, Len(q)) \cup Elements(r, Len(r))
    <3>1. CASE i <= Len(q)
      BY <1>1, <1>3, <3>1 DEF Elements
    <3>2. CASE ~(i <= Len(q))
      <4>1. i - Len(q) \in 1..Len(r) /\ (q \o r)[i] = r[i - Len(q)]
        BY <1>1, <1>3, <3>2
      <4> QED BY <4>1 DEF Elements
    <3> QED BY <3>1, <3>2
  <2>2. ASSUME NEW i \in 1..Len(q) PROVE q[i] \in Elements(q \o r, Len(q) + Len(r))
    BY <1>1, <1>5 DEF Elements
  <2>3. ASSUME NEW i \in 1..Len(r) PROVE r[i] \in Elements(q \o r, Len(q) + Len(r))
    <3>1. Len(q) + i \in 1..(Len(q) + Len(r))
      BY <1>1
    <3> QED BY <1>6, <3>1 DEF Elements
  <2> QED BY <2>1, <2>2, <2>3 DEF Elements
<1> QED BY <1>3, <1>4, <1>5, <1>6, <1>7, ListFacts

LEMMA PartList ==
  ASSUME NEW q, PromptList(q), NEW m \in Nat \ {0}, NEW n \in 0..Len(q)
  PROVE  LET r == SubSeq(q, m, n)
         IN  /\ PromptList(r) /\ Len(r) = IF m <= n THEN n - m + 1 ELSE 0
             /\ Mobile!ToSet(r) = {q[i] : i \in m..n}
<1> DEFINE r == SubSeq(q, m, n)
           S == Elements(q, Len(q))
<1>1. Len(q) \in Nat /\ \A p \in S : Shapely(p)
  BY ListFacts
<1>2. \A i \in m..n : q[i] \in S
  BY <1>1 DEF Elements
<1>3. m \in Int /\ n \in Int
  BY <1>1
<1>4. /\ r \in Seq(S) /\ Len(r) = (IF m <= n THEN n - m + 1 ELSE 0)
      /\ \A i \in 1 .. n - m + 1 : r[i] = q[m + i - 1]
  <2> HIDE DEF S
  <2> QED BY <1>2, <1>3, SubSeqProperties
<1> HIDE DEF r, S
<1>5. PromptList(r)
  BY <1>1, <1>4 DEF PromptList
<1>6. Elements(r, Len(r)) = {q[i] : i \in m..n}
  <2>1. ASSUME NEW i \in 1..Len(r) PROVE r[i] \in {q[j] : j \in m..n}
    <3>1. m + i - 1 \in m..n /\ r[i] = q[m + i - 1]
      BY <1>1, <1>3, <1>4
    <3> QED BY <3>1
  <2>2. ASSUME NEW j \in m..n PROVE q[j] \in Elements(r, Len(r))
    <3>1. j - m + 1 \in 1..Len(r) /\ r[j - m + 1] = q[j]
      BY <1>1, <1>3, <1>4
    <3> QED BY <3>1 DEF Elements
  <2> QED BY <2>1, <2>2 DEF Elements
<1>7. Mobile!ToSet(r) = {q[i] : i \in m..n}
  BY <1>5, <1>6, ListFacts
<1> QED BY <1>4, <1>5, <1>7 DEF r

LEMMA OneMore ==
  ASSUME NEW q, PromptList(q), NEW p, Shapely(p)
  PROVE  LET r == Append(q, p)
         IN  PromptList(r) /\ Len(r) = Len(q) + 1 /\ Mobile!ToSet(r) = Mobile!ToSet(q) \cup {p}
<1> DEFINE r == Append(q, p)
           S == Elements(q, Len(q)) \cup {p}
<1>1. Len(q) \in Nat /\ \A x \in S : Shapely(x)
  BY ListFacts
<1>2. q \in Seq(S)
  <2>1. q \in Seq(Elements(q, Len(q)))
    BY ListFacts
  <2>2. Elements(q, Len(q)) \subseteq S
    OBVIOUS
  <2> HIDE DEF S
  <2> QED BY <2>1, <2>2, SeqMonotonic
<1> HIDE DEF S
<1>3. /\ r \in Seq(S \cup {p}) /\ Len(r) = Len(q) + 1 /\ r[Len(q) + 1] = p
      /\ \A i \in 1..Len(q) : r[i] = q[i]
  <2>1. q \in Seq(S \cup {p})
    BY <1>2
  <2> QED BY <2>1
<1> HIDE DEF r
<1>4. PromptList(r)
  BY <1>1, <1>3 DEF PromptList
<1>5. Elements(r, Len(r)) = Elements(q, Len(q)) \cup {p}
  BY <1>1, <1>3 DEF Elements
<1>6. Mobile!ToSet(r) = Mobile!ToSet(q) \cup {p}
  BY <1>3, <1>4, <1>5, ListFacts
<1> QED BY <1>3, <1>4, <1>6 DEF r

-----------------------------------------------------------------------------
(* The store: what each update leaves of the prompts.                      *)

StoreOK(s) == "prompts" \in DOMAIN s /\ PromptList(s.prompts)

\* A prompt is on the screen by its id, or by what it says.
Seen(s, p) == p.id \in Mobile!IdsOf(s.prompts) \/ p.content \in Mobile!TextsOf(s.prompts)

LEMMA ThereIsSeen ==
  ASSUME NEW s, StoreOK(s), NEW p \in Mobile!ToSet(s.prompts)
  PROVE  Seen(s, p)
BY DEF Seen, Mobile!ToSet, Mobile!IdsOf

\* The same prompts, whatever became of their events.
SameNames(s, t) ==
  /\ StoreOK(t) /\ Len(t.prompts) = Len(s.prompts)
  /\ \A i \in 1..Len(s.prompts) :
       t.prompts[i].id = s.prompts[i].id /\ t.prompts[i].content = s.prompts[i].content

LEMMA NamesStay ==
  ASSUME NEW s, StoreOK(s), NEW t, "prompts" \in DOMAIN t, t.prompts = s.prompts
  PROVE  SameNames(s, t)
BY DEF SameNames, StoreOK

LEMMA NamesThrough ==
  ASSUME NEW s, NEW t, NEW u, SameNames(s, t), SameNames(t, u)
  PROVE  SameNames(s, u)
BY DEF SameNames

LEMMA NamedIsSeen ==
  ASSUME NEW s, StoreOK(s), NEW t, SameNames(s, t), NEW p \in Mobile!ToSet(s.prompts)
  PROVE  Seen(t, p)
<1>1. DOMAIN s.prompts = 1..Len(s.prompts) /\ DOMAIN t.prompts = 1..Len(t.prompts)
  BY ListFacts DEF StoreOK, SameNames
<1>2. PICK i \in 1..Len(s.prompts) : p = s.prompts[i]
  BY <1>1 DEF Mobile!ToSet
<1>3. i \in DOMAIN t.prompts /\ t.prompts[i].id = p.id
  BY <1>1, <1>2 DEF SameNames
<1> QED BY <1>3 DEF Seen, Mobile!IdsOf

LEMMA DropNames ==
  ASSUME NEW s, StoreOK(s), NEW ids
  PROVE  SameNames(s, Mobile!DropLive(s, ids))
<1> DEFINE t == Mobile!DropLive(s, ids)
<1>1. "prompts" \in DOMAIN t /\ t.prompts = s.prompts
  BY DEF Mobile!DropLive, StoreOK
<1> QED BY <1>1, NamesStay

LEMMA EventsNames ==
  ASSUME NEW s, StoreOK(s), NEW i, NEW x
  PROVE  SameNames(s, [s EXCEPT !.prompts[i].events = x])
<1> DEFINE t == [s EXCEPT !.prompts[i].events = x]
           q == s.prompts
           p == [q[i] EXCEPT !.events = x]
<1>1. "prompts" \in DOMAIN t /\ t.prompts = [q EXCEPT ![i] = p]
  BY DEF StoreOK
<1>2. /\ Len(q) \in Nat /\ DOMAIN q = 1..Len(q) /\ q \in Seq(Elements(q, Len(q)))
      /\ \A j \in 1..Len(q) : Shapely(q[j])
      /\ \A y \in Elements(q, Len(q)) : Shapely(y)
  BY ListFacts DEF StoreOK
<1>3. CASE i \notin 1..Len(q)
  <2>1. t.prompts = q
    BY <1>1, <1>2, <1>3
  <2> QED BY <1>1, <2>1, NamesStay
<1>4. CASE i \in 1..Len(q)
  <2>1. Shapely(p) /\ p.id = q[i].id /\ p.content = q[i].content
    BY <1>2, <1>4 DEF Shapely
  <2> DEFINE E == Elements(q, Len(q))
             S == E \cup {p}
  <2>2. q \in Seq(S) /\ \A y \in S : Shapely(y)
    <3>1. E \subseteq S
      OBVIOUS
    <3>2. \A y \in S : Shapely(y)
      BY <1>2, <2>1
    <3>3. q \in Seq(E)
      BY <1>2
    <3> HIDE DEF S, E
    <3> QED BY <3>1, <3>2, <3>3, SeqMonotonic
  <2>3. p \in S
    OBVIOUS
  <2> HIDE DEF p, S, q
  <2>4. /\ [q EXCEPT ![i] = p] \in Seq(S) /\ Len([q EXCEPT ![i] = p]) = Len(q)
        /\ \A j \in 1..Len(q) : [q EXCEPT ![i] = p][j] = IF j = i THEN p ELSE q[j]
    BY <1>4, <2>2, <2>3, ExceptSeq
  <2>5. PromptList(t.prompts)
    BY <1>1, <2>2, <2>4 DEF PromptList
  <2> QED BY <1>1, <2>1, <2>4, <2>5 DEF SameNames, StoreOK, q
<1> QED BY <1>3, <1>4

\* A frame and a burst of them change what prompts say, not which there are.
LEMMA FrameNames ==
  ASSUME NEW s, StoreOK(s), NEW frame
  PROVE  SameNames(s, Mobile!ApplyWsFrame(s, frame))
<1> DEFINE ev    == frame.event
           i     == Mobile!IndexOf(s.prompts, frame.id)
           retry == [s EXCEPT !.prompts[i].events = <<ev>>]
           more  == [s EXCEPT !.prompts[i].events = Mobile!AppendEventBounded(@, ev)]
           token == [s EXCEPT !.liveTokens = Mobile!Grown(@, frame.id, <<ev.n>>)]
           think == [s EXCEPT !.liveThinking = Mobile!Grown(@, frame.id, <<ev.n>>)]
<1>1. SameNames(s, s)
  BY DEF SameNames
<1>2. SameNames(s, token) /\ SameNames(s, think)
  <2>1. /\ "prompts" \in DOMAIN token /\ token.prompts = s.prompts
        /\ "prompts" \in DOMAIN think /\ think.prompts = s.prompts
    BY DEF StoreOK
  <2> HIDE DEF token, think
  <2> QED BY <2>1, NamesStay
<1>3. SameNames(s, retry) /\ SameNames(s, more)
  <2> DEFINE x == Mobile!AppendEventBounded(s.prompts[i].events, ev)
  <2>1. more = [s EXCEPT !.prompts[i].events = x]
    OBVIOUS
  <2> HIDE DEF more, x, i
  <2> QED BY <2>1, EventsNames
<1>4. Mobile!ApplyWsFrame(s, frame) \in
        {s, token, think, more, Mobile!DropLive(retry, {frame.id}), Mobile!DropLive(more, {frame.id})}
  BY DEF Mobile!ApplyWsFrame
<1> HIDE DEF retry, more, token, think
<1>5. SameNames(s, Mobile!DropLive(retry, {frame.id})) /\ SameNames(s, Mobile!DropLive(more, {frame.id}))
  BY <1>3, DropNames, NamesThrough DEF SameNames
<1> QED BY <1>1, <1>2, <1>3, <1>4, <1>5

LEMMA BurstIs ==
  ASSUME NEW s, NEW frames, Len(frames) \in Nat
  PROVE  \E f : /\ f = [n \in 0..Len(frames) |->
                          IF n = 0 THEN s ELSE Mobile!ApplyWsFrame(f[n - 1], frames[n])]
                /\ Mobile!Flushed(s, frames) = f[Len(frames)]
<1> DEFINE Rec(f, m) == f = [n \in 0..m |-> IF n = 0 THEN s ELSE Mobile!ApplyWsFrame(f[n - 1], frames[n])]
           Bad       == {m \in Nat : ~\E f : Rec(f, m)}
<1>1. Bad = {}
  <2> SUFFICES ASSUME Bad # {} PROVE FALSE
    OBVIOUS
  <2>1. PICK m \in Bad : \A k \in Bad : m <= k
    <3>1. Bad \in SUBSET Nat
      OBVIOUS
    <3> QED BY <3>1, LeastOf
  <2>2. m # 0
    <3> DEFINE z == [n \in {0} |-> s]
    <3>1. Rec(z, 0)
      OBVIOUS
    <3> QED BY <3>1
  <2>3. m \in Nat /\ m - 1 \in Nat /\ m - 1 < m
    BY <2>2
  <2>4. m - 1 \notin Bad
    BY <2>1, <2>3
  <2>5. PICK g : Rec(g, m - 1)
    BY <2>3, <2>4
  <2> DEFINE h == [n \in 0..m |-> IF n < m THEN g[n] ELSE Mobile!ApplyWsFrame(g[n - 1], frames[n])]
  <2>6. Rec(h, m)
    <3> SUFFICES ASSUME NEW n \in 0..m
                 PROVE  h[n] = IF n = 0 THEN s ELSE Mobile!ApplyWsFrame(h[n - 1], frames[n])
      OBVIOUS
    <3>1. n # 0 => h[n - 1] = g[n - 1]
      BY <2>3
    <3>2. n < m => h[n] = g[n] /\ g[n] = IF n = 0 THEN s ELSE Mobile!ApplyWsFrame(g[n - 1], frames[n])
      BY <2>3, <2>5
    <3>3. n = m => n # 0 /\ h[n] = Mobile!ApplyWsFrame(g[n - 1], frames[n])
      BY <2>3
    <3> HIDE DEF h
    <3> QED BY <2>3, <3>1, <3>2, <3>3
  <2> QED BY <2>3, <2>6
<1>2. \E f : Rec(f, Len(frames))
  BY <1>1
<1> QED BY <1>2 DEF Mobile!Flushed

LEMMA BurstNames ==
  ASSUME NEW s, StoreOK(s), NEW frames, Len(frames) \in Nat
  PROVE  SameNames(s, Mobile!Flushed(s, frames))
<1>1. PICK f : /\ f = [n \in 0..Len(frames) |->
                         IF n = 0 THEN s ELSE Mobile!ApplyWsFrame(f[n - 1], frames[n])]
               /\ Mobile!Flushed(s, frames) = f[Len(frames)]
  BY BurstIs
<1> DEFINE Bad == {n \in 0..Len(frames) : ~SameNames(s, f[n])}
<1>2. ASSUME Bad # {} PROVE FALSE
  <2>1. PICK m \in Bad : \A k \in Bad : m <= k
    <3>1. Bad \in SUBSET Nat
      OBVIOUS
    <3> QED BY <1>2, <3>1, LeastOf
  <2>2. m # 0
    BY <1>1 DEF SameNames
  <2>3. m \in Nat /\ m - 1 \in 0..Len(frames) /\ m - 1 < m
    BY <2>2
  <2>4. m - 1 \notin Bad
    BY <2>1, <2>3
  <2>5. SameNames(s, f[m - 1])
    BY <2>3, <2>4
  <2>6. f[m] = Mobile!ApplyWsFrame(f[m - 1], frames[m])
    BY <1>1, <2>2
  <2>7. SameNames(f[m - 1], f[m])
    BY <2>5, <2>6, FrameNames DEF SameNames
  <2> QED BY <2>5, <2>7, NamesThrough
<1>3. SameNames(s, f[Len(frames)])
  <2>1. Len(frames) \in 0..Len(frames)
    OBVIOUS
  <2> QED BY <1>2, <2>1
<1> QED BY <1>1, <1>3

-----------------------------------------------------------------------------
(* What answers make of the store.                                         *)

ViewFits(v) == PromptList(v.prompts) /\ Len(v.prompts) <= Window

PageFits(page) == PromptList(page.prompts) /\ Len(page.prompts) <= Page

LEMMA CapsAre == MaxPrompts \in Nat \ {0} /\ Window \in Nat /\ Page \in Nat
BY CapsOK, WindowOK

LEMMA TailIsKept ==
  ASSUME NEW q, PromptList(q)
  PROVE  LET r == Mobile!KeepTail(q)
         IN  /\ PromptList(r)
             /\ \A i \in 1..Len(q) : Len(q) < i + MaxPrompts => q[i] \in Mobile!ToSet(r)
<1> DEFINE m == IF Len(q) > MaxPrompts THEN Len(q) - MaxPrompts + 1 ELSE 1
           r == SubSeq(q, m, Len(q))
<1>1. Len(q) \in Nat
  BY ListFacts
<1>2. m \in Nat \ {0} /\ Len(q) \in 0..Len(q)
  BY <1>1, CapsAre
<1>3. \A i \in 1..Len(q) : Len(q) < i + MaxPrompts => i \in m..Len(q)
  BY <1>1, CapsAre
<1> HIDE DEF m
<1>4. PromptList(r) /\ Mobile!ToSet(r) = {q[i] : i \in m..Len(q)}
  BY <1>2, PartList
<1> HIDE DEF r
<1> QED BY <1>3, <1>4 DEF Mobile!KeepTail, r, m

LEMMA HeadIsKept ==
  ASSUME NEW q, PromptList(q)
  PROVE  LET r == Mobile!KeepHead(q)
         IN  PromptList(r) /\ (Len(q) <= MaxPrompts => Mobile!ToSet(r) = Mobile!ToSet(q))
<1> DEFINE n == IF Len(q) > MaxPrompts THEN MaxPrompts ELSE Len(q)
           r == SubSeq(q, 1, n)
<1>1. Len(q) \in Nat /\ Mobile!ToSet(q) = {q[i] : i \in 1..Len(q)}
  BY ListFacts DEF Elements
<1>2. n \in 0..Len(q) /\ 1 \in Nat \ {0} /\ (Len(q) <= MaxPrompts => n = Len(q))
  BY <1>1, CapsAre
<1> HIDE DEF n
<1>3. PromptList(r) /\ Mobile!ToSet(r) = {q[i] : i \in 1..n}
  BY <1>2, PartList
<1> HIDE DEF r
<1> QED BY <1>1, <1>2, <1>3 DEF Mobile!KeepHead, r, n

\* A prompt at a place not far from the end.
NearEnd(q, p, n) == \E i \in 1..Len(q) : q[i] = p /\ Len(q) < i + n

LEMMA IsNearEnd ==
  ASSUME NEW q, Len(q) \in Nat, NEW p, NEW n \in Nat, NEW i \in 1..Len(q), q[i] = p, Len(q) < i + n
  PROVE  NearEnd(q, p, n)
BY DEF NearEnd

LEMMA PlacesAdd ==
  ASSUME NEW b \in Nat, NEW m \in Nat, NEW a \in Nat, NEW local \in Nat, NEW all \in Nat,
         a <= local, local <= all, NEW len, len = b + m + a, NEW i
  PROVE  /\ len \in Nat /\ m + all \in Nat
         /\ i \in 1..m => b + i \in 1..len /\ len < b + i + (m + all)
         /\ i \in 1..a => b + m + i \in 1..len /\ len < b + m + i + (m + all)
OBVIOUS

LEMMA MergedShows ==
  ASSUME NEW s, StoreOK(s), NEW v, ViewFits(v)
  PROVE  LET q == Mobile!Merged(s, v)
             n == Len(v.prompts) + Len(s.prompts)
         IN  /\ PromptList(q)
             /\ \A p \in Mobile!ToSet(v.prompts) : NearEnd(q, p, n)
             /\ \A p \in Mobile!ToSet(Mobile!LocalOnly(s, v)) : p.seq < 0 => NearEnd(q, p, n)
<1> DEFINE local  == Mobile!LocalOnly(s, v)
           show   == v.prompts
           before == Mobile!Only(local, {p \in Mobile!ToSet(local) :
                       p.seq >= 0 /\ (show # <<>> => p.seq < show[1].seq)})
           after  == Mobile!Only(local, {p \in Mobile!ToSet(local) :
                       p.seq < 0 \/ (show # <<>> => p.seq > Mobile!Last(show).seq)})
           q      == (before \o show) \o after
<1>1. Mobile!Merged(s, v) = q
  BY DEF Mobile!Merged
<1>2. PromptList(local) /\ Len(local) <= Len(s.prompts)
  BY OnlyList DEF StoreOK, Mobile!LocalOnly
<1>3. PromptList(show)
  BY DEF ViewFits
<1>4. PromptList(before)
  <2> HIDE DEF local, show
  <2> QED BY <1>2, OnlyList
<1>5. /\ PromptList(after) /\ Len(after) <= Len(local)
      /\ \A p \in Mobile!ToSet(local) : p.seq < 0 => p \in Mobile!ToSet(after)
  <2> HIDE DEF local, show
  <2> QED BY <1>2, OnlyList
<1> HIDE DEF local, show, before, after
<1>6. /\ PromptList(before \o show) /\ Len(before \o show) = Len(before) + Len(show)
      /\ \A i \in 1..Len(show) : (before \o show)[Len(before) + i] = show[i]
  BY <1>3, <1>4, JoinedLists
<1> DEFINE b == before \o show
<1>7. PromptList(b)
  BY <1>6
<1> HIDE DEF b
<1>8. /\ PromptList(b \o after) /\ Len(b \o after) = Len(b) + Len(after)
      /\ \A i \in 1..Len(b) : (b \o after)[i] = b[i]
      /\ \A i \in 1..Len(after) : (b \o after)[Len(b) + i] = after[i]
  BY <1>5, <1>7, JoinedLists
<1>9. Len(before) \in Nat /\ Len(show) \in Nat /\ Len(after) \in Nat /\ Len(b) \in Nat
      /\ Len(local) \in Nat /\ Len(s.prompts) \in Nat
  BY <1>2, <1>3, <1>4, <1>5, <1>7, ListFacts DEF StoreOK
<1>10. Len(b) = Len(before) + Len(show) /\ \A i \in 1..Len(show) : b[Len(before) + i] = show[i]
  BY <1>6 DEF b
<1>11. q = b \o after
  BY DEF b
<1> HIDE DEF q
<1>12. Mobile!ToSet(show) = {show[i] : i \in 1..Len(show)} /\ Mobile!ToSet(after) = {after[i] : i \in 1..Len(after)}
  BY <1>3, <1>5, ListFacts DEF Elements
<1> DEFINE n == Len(show) + Len(s.prompts)
<1>13. ASSUME NEW p \in Mobile!ToSet(show)
       PROVE  NearEnd(q, p, n)
  <2>1. PICK i \in 1..Len(show) : p = show[i]
    BY <1>12
  <2> DEFINE k == Len(before) + i
  <2>2. k \in 1..Len(b)
    BY <1>9, <1>10
  <2>3. q[k] = p /\ Len(q) = Len(before) + Len(show) + Len(after)
    BY <1>8, <1>10, <1>11, <2>1, <2>2
  <2>4. k \in 1..Len(q) /\ Len(q) < k + n /\ Len(q) \in Nat /\ n \in Nat
    BY <1>2, <1>5, <1>9, <2>3, PlacesAdd
  <2> HIDE DEF k, n
  <2> QED BY <2>3, <2>4, IsNearEnd
<1>14. ASSUME NEW p \in Mobile!ToSet(local), p.seq < 0
       PROVE  NearEnd(q, p, n)
  <2>1. PICK i \in 1..Len(after) : p = after[i]
    BY <1>5, <1>12, <1>14
  <2> DEFINE k == Len(b) + i
  <2>2. q[k] = p /\ Len(q) = Len(before) + Len(show) + Len(after)
    BY <1>8, <1>10, <1>11, <2>1
  <2>3. k \in 1..Len(q) /\ Len(q) < k + n /\ Len(q) \in Nat /\ n \in Nat
    BY <1>2, <1>5, <1>9, <1>10, <2>2, PlacesAdd
  <2> HIDE DEF k, n
  <2> QED BY <2>2, <2>3, IsNearEnd
<1> QED BY <1>1, <1>8, <1>11, <1>13, <1>14 DEF local, show


LEMMA RoomAdds ==
  ASSUME NEW a \in Nat, NEW b \in Nat, NEW n, n = a + b
  PROVE  /\ n \in Nat
         /\ a <= Window /\ b + Window <= MaxPrompts => n <= MaxPrompts
         /\ a <= Page /\ b + Page <= MaxPrompts => n <= MaxPrompts
BY CapsAre

\* With room for the view, what was on the screen stays there, by its id or,
\* once the view has made it real, by what it says.
LEMMA ReconciledShows ==
  ASSUME NEW s, StoreOK(s), NEW v, ViewFits(v)
  PROVE  LET t == Mobile!Reconciled(s, v)
         IN  /\ StoreOK(t)
             /\ Len(s.prompts) + Window <= MaxPrompts =>
                  \A p \in Mobile!ToSet(s.prompts) : p.seq = -1 => Seen(t, p)
<1> DEFINE q == Mobile!Merged(s, v)
           u == [s EXCEPT !.loaded = TRUE, !.atStart = Mobile!AtStart(v), !.prompts = Mobile!KeepTail(q)]
           ids == {p.id : p \in {x \in Mobile!ToSet(v.prompts) : Mobile!Finished(x)}}
           t == Mobile!DropLive(u, ids)
           n == Len(v.prompts) + Len(s.prompts)
<1>1. Mobile!Reconciled(s, v) = t
  BY DEF Mobile!Reconciled
<1>2. "prompts" \in DOMAIN u /\ u.prompts = Mobile!KeepTail(q)
  BY DEF StoreOK
<1>3. /\ PromptList(q)
      /\ \A p \in Mobile!ToSet(v.prompts) : NearEnd(q, p, n)
      /\ \A p \in Mobile!ToSet(Mobile!LocalOnly(s, v)) : p.seq < 0 => NearEnd(q, p, n)
  BY MergedShows
<1>7. n \in Nat /\ (Len(s.prompts) + Window <= MaxPrompts => n <= MaxPrompts)
  <2>1. Len(v.prompts) \in Nat /\ Len(s.prompts) \in Nat /\ Len(v.prompts) <= Window
    BY ListFacts DEF ViewFits, StoreOK
  <2> HIDE DEF n
  <2> QED BY <2>1, RoomAdds DEF n
<1> HIDE DEF q, u, n
<1>4. StoreOK(u)
  BY <1>2, <1>3, TailIsKept DEF StoreOK
<1>5. StoreOK(t) /\ t.prompts = u.prompts
  <2>1. StoreOK(t)
    BY <1>4, DropNames DEF SameNames
  <2>2. t.prompts = u.prompts
    BY <1>4 DEF Mobile!DropLive, StoreOK
  <2> QED BY <2>1, <2>2
<1> HIDE DEF t
<1>6. ASSUME Len(s.prompts) + Window <= MaxPrompts,
             NEW p \in Mobile!ToSet(s.prompts), p.seq = -1
      PROVE  Seen(t, p)
  <2>1. \A x : NearEnd(q, x, n) => x \in Mobile!ToSet(t.prompts)
    <3> SUFFICES ASSUME NEW i \in 1..Len(q), Len(q) < i + n
                 PROVE  q[i] \in Mobile!ToSet(t.prompts)
      BY DEF NearEnd
    <3>1. Len(q) < i + MaxPrompts
      <4>1. Len(q) \in Nat
        BY <1>3, ListFacts
      <4>2. n \in Nat /\ n <= MaxPrompts
        BY <1>6, <1>7
      <4> QED BY <4>1, <4>2, CapsAre
    <3> QED BY <1>2, <1>3, <1>5, <3>1, TailIsKept
  <2>2. \A x \in Mobile!ToSet(v.prompts) : x \in Mobile!ToSet(t.prompts)
    BY <1>3, <2>1
  <2>3. CASE p.id \in Mobile!IdsOf(v.prompts)
    BY <2>2, <2>3 DEF Seen, Mobile!ToSet, Mobile!IdsOf
  <2>4. CASE p.content \in Mobile!TextsOf(v.prompts)
    BY <2>2, <2>4 DEF Seen, Mobile!ToSet, Mobile!TextsOf
  <2>5. CASE p.id \notin Mobile!IdsOf(v.prompts) /\ p.content \notin Mobile!TextsOf(v.prompts)
    <3>1. p \in Mobile!ToSet(Mobile!LocalOnly(s, v))
      BY <2>5, OnlyList DEF Mobile!LocalOnly, StoreOK
    <3>2. p \in Mobile!ToSet(t.prompts)
      <4>1. p.seq < 0
        BY <1>6
      <4> QED BY <1>3, <2>1, <3>1, <4>1
    <3> QED BY <1>5, <3>2, ThereIsSeen
  <2> QED BY <2>3, <2>4, <2>5
<1> QED BY <1>1, <1>5, <1>6

LEMMA BackfilledShows ==
  ASSUME NEW s, StoreOK(s), NEW page, PageFits(page)
  PROVE  LET t == [Mobile!Backfilled(s, page) EXCEPT !.loadingOlder = FALSE]
         IN  /\ StoreOK(t)
             /\ Len(s.prompts) + Page <= MaxPrompts =>
                  \A p \in Mobile!ToSet(s.prompts) : Seen(t, p)
<1> DEFINE q == page.prompts \o s.prompts
           r == Mobile!KeepHead(q)
           t == [Mobile!Backfilled(s, page) EXCEPT !.loadingOlder = FALSE]
<1>1. "prompts" \in DOMAIN t /\ t.prompts = r
  BY DEF Mobile!Backfilled, StoreOK
<1>2. /\ PromptList(q) /\ Len(q) = Len(page.prompts) + Len(s.prompts)
      /\ Mobile!ToSet(q) = Mobile!ToSet(page.prompts) \cup Mobile!ToSet(s.prompts)
  BY JoinedLists DEF StoreOK, PageFits
<1> HIDE DEF q
<1>3. PromptList(r) /\ (Len(q) <= MaxPrompts => Mobile!ToSet(r) = Mobile!ToSet(q))
  BY <1>2, HeadIsKept
<1> HIDE DEF r, t
<1>4. StoreOK(t)
  BY <1>1, <1>3 DEF StoreOK
<1>5. ASSUME Len(s.prompts) + Page <= MaxPrompts, NEW p \in Mobile!ToSet(s.prompts)
      PROVE  Seen(t, p)
  <2>1. Len(q) <= MaxPrompts
    BY <1>2, <1>5, RoomAdds, ListFacts DEF PageFits, StoreOK
  <2> QED BY <1>1, <1>2, <1>3, <1>4, <2>1, ThereIsSeen
<1> QED BY <1>4, <1>5 DEF t

LEMMA PlaceholderShows ==
  ASSUME NEW s, StoreOK(s), NEW p, Shapely(p)
  PROVE  LET t == Mobile!WithPlaceholder(s, p)
         IN  /\ StoreOK(t)
             /\ Len(s.prompts) + 1 <= MaxPrompts =>
                  \A x \in Mobile!ToSet(s.prompts) : Seen(t, x)
<1> DEFINE q == Append(s.prompts, p)
           t == Mobile!WithPlaceholder(s, p)
<1>1. /\ PromptList(q) /\ Len(q) = Len(s.prompts) + 1 /\ Len(s.prompts) \in Nat
      /\ Mobile!ToSet(q) = Mobile!ToSet(s.prompts) \cup {p}
  BY OneMore, ListFacts DEF StoreOK
<1>2. "prompts" \in DOMAIN t /\ t.prompts = IF Len(s.prompts) + 1 > MaxPrompts THEN Tail(q) ELSE q
  BY DEF Mobile!WithPlaceholder, StoreOK
<1> HIDE DEF q, t
<1>3. PromptList(Tail(q))
  <2>1. PICK S : q \in Seq(S) /\ \A x \in S : Shapely(x)
    BY <1>1 DEF PromptList
  <2>2. Tail(q) \in Seq(S)
    BY <1>1, <2>1
  <2> QED BY <2>1, <2>2 DEF PromptList
<1>4. StoreOK(t)
  BY <1>1, <1>2, <1>3 DEF StoreOK
<1>5. ASSUME Len(s.prompts) + 1 <= MaxPrompts, NEW x \in Mobile!ToSet(s.prompts) PROVE Seen(t, x)
  <2>1. t.prompts = q
    BY <1>1, <1>2, <1>5, CapsAre
  <2> QED BY <1>1, <1>4, <2>1, ThereIsSeen
<1> QED BY <1>4, <1>5 DEF t

LEMMA WithoutShows ==
  ASSUME NEW s, StoreOK(s), NEW id
  PROVE  LET t == Mobile!WithoutPrompt(s, id)
         IN  StoreOK(t) /\ \A p \in Mobile!ToSet(s.prompts) : p.id # id => Seen(t, p)
<1> DEFINE kept == {p \in Mobile!ToSet(s.prompts) : p.id # id}
           r == Mobile!Only(s.prompts, kept)
           t == Mobile!WithoutPrompt(s, id)
<1>1. "prompts" \in DOMAIN t /\ t.prompts = r
  BY DEF Mobile!WithoutPrompt, StoreOK
<1>2. PromptList(r) /\ Mobile!ToSet(r) = Mobile!ToSet(s.prompts) \cap kept
  <2> HIDE DEF kept
  <2> QED BY OnlyList DEF StoreOK
<1> HIDE DEF r, t
<1>3. StoreOK(t)
  BY <1>1, <1>2 DEF StoreOK
<1>4. ASSUME NEW p \in Mobile!ToSet(s.prompts), p.id # id PROVE Seen(t, p)
  BY <1>1, <1>2, <1>3, <1>4, ThereIsSeen
<1> QED BY <1>3, <1>4 DEF t

\* Where a prompt of that id is found, if one is.
LEMMA IndexFound ==
  ASSUME NEW q, PromptList(q), NEW id
  PROVE  LET i == Mobile!IndexOf(q, id) IN i = 0 \/ (i \in 1..Len(q) /\ q[i].id = id)
<1> DEFINE I == {i \in 1..Len(q) : q[i].id = id}
<1>1. Mobile!IndexOf(q, id) = IF I # {} THEN Mobile!Min(I) ELSE 0
  BY DEF Mobile!IndexOf, Mobile!SelectInSeq
<1>2. ASSUME I # {} PROVE Mobile!Min(I) \in I
  <2>1. I \in SUBSET Nat
    BY ListFacts
  <2> HIDE DEF I
  <2>2. \E x \in I : \A y \in I : x <= y
    BY <1>2, <2>1, LeastOf
  <2> QED BY <2>2 DEF Mobile!Min
<1> QED BY <1>1, <1>2

LEMMA SwappedShows ==
  ASSUME NEW s, StoreOK(s), NEW id, NEW p, Shapely(p)
  PROVE  LET t == Mobile!Swapped(s, id, p)
         IN  StoreOK(t) /\ \A x \in Mobile!ToSet(s.prompts) : x.id # id => Seen(t, x)
<1> DEFINE q == s.prompts
           i == Mobile!IndexOf(q, id)
           t == Mobile!Swapped(s, id, p)
<1>1. "prompts" \in DOMAIN t /\ t.prompts = IF i # 0 THEN [q EXCEPT ![i] = p] ELSE Append(q, p)
  BY DEF Mobile!Swapped, Mobile!ReplaceAt, StoreOK
<1>2. i = 0 \/ (i \in 1..Len(q) /\ q[i].id = id)
  BY IndexFound DEF StoreOK
<1>3. Len(q) \in Nat /\ Mobile!ToSet(q) = {q[j] : j \in 1..Len(q)}
  BY ListFacts DEF StoreOK, Elements
<1> HIDE DEF i, t
<1>4. CASE i = 0
  <2>1. t.prompts = Append(q, p)
    BY <1>1, <1>4
  <2>2. PromptList(Append(q, p)) /\ Mobile!ToSet(Append(q, p)) = Mobile!ToSet(q) \cup {p}
    BY OneMore DEF StoreOK
  <2>3. StoreOK(t)
    BY <1>1, <2>1, <2>2 DEF StoreOK
  <2>4. \A x \in Mobile!ToSet(q) : Seen(t, x)
    BY <2>1, <2>2, <2>3, ThereIsSeen
  <2> QED BY <2>3, <2>4 DEF t
<1>5. CASE i # 0
  <2> DEFINE E == Elements(q, Len(q))
             S == E \cup {p}
             r == [q EXCEPT ![i] = p]
  <2>1. q \in Seq(S) /\ (\A y \in S : Shapely(y)) /\ p \in S
    <3>1. E \subseteq S
      OBVIOUS
    <3>2. q \in Seq(E) /\ \A y \in S : Shapely(y)
      BY ListFacts DEF StoreOK
    <3>3. p \in S
      OBVIOUS
    <3> HIDE DEF S, E, q
    <3> QED BY <3>1, <3>2, <3>3, SeqMonotonic
  <2> HIDE DEF S
  <2>2. i \in 1..Len(q) /\ q[i].id = id
    BY <1>2, <1>5
  <2>3. r \in Seq(S) /\ Len(r) = Len(q) /\ \A j \in 1..Len(q) : r[j] = IF j = i THEN p ELSE q[j]
    <3> HIDE DEF q
    <3> QED BY <2>1, <2>2, ExceptSeq
  <2>4. t.prompts = r
    BY <1>1, <1>5
  <2> HIDE DEF r
  <2>5. StoreOK(t)
    BY <1>1, <2>1, <2>3, <2>4 DEF StoreOK, PromptList
  <2>6. ASSUME NEW x \in Mobile!ToSet(q), x.id # id PROVE Seen(t, x)
    <3>1. PICK j \in 1..Len(q) : x = q[j]
      BY <1>3
    <3>2. j # i /\ r[j] = x
      BY <2>2, <2>3, <2>6, <3>1
    <3>3. x \in Mobile!ToSet(t.prompts)
      BY <2>3, <2>4, <2>5, <3>2, ListFacts DEF StoreOK, Elements
    <3> QED BY <2>5, <3>3, ThereIsSeen
  <2> QED BY <2>5, <2>6 DEF t
<1> QED BY <1>4, <1>5

-----------------------------------------------------------------------------
(* The requests of the session and the server behind it.                   *)

ReplyFits(kind, reply) ==
  /\ kind \in {"reload", "reconcile"} => ViewFits(reply.view)
  /\ kind = "older" => PageFits(reply)
  /\ kind = "send" /\ reply.kind = "dispatched" => Shapely(reply.prompt)

\* The id of a message sent is above what is left to send.
CallFits(r, sends) ==
  /\ {"kind", "chat", "arg", "reply"} \subseteq DOMAIN r /\ r.chat \in MobileChats
  /\ r.kind = "send" => r.arg.id.n \in Int /\ r.arg.id.n + sends < 0
  /\ r.reply \notin {None, Failed} => ReplyFits(r.kind, r.reply)

Apart(set) ==
  \A q, r \in set : q.kind = "send" /\ r.kind = "send" /\ q.arg.id = r.arg.id => q = r

CallsFit == (\A r \in calls : CallFits(r, left.sends)) /\ Apart(calls)

ServerFits ==
  /\ DOMAIN server = MobileChats
  /\ \A c \in MobileChats : "prompts" \in DOMAIN server[c] /\ PromptList(server[c].prompts)

SendsCounted == "sends" \in DOMAIN left /\ left.sends \in Int

ClientFits ==
  /\ StoreOK(store) /\ chat \in MobileChats \cup {None}
  /\ \E S : batch \in Seq(S)
  /\ "state" \in DOMAIN socket /\ (socket.state = "open" => chat # None)

MobileInv == ClientFits /\ SendsCounted /\ CallsFit /\ ServerFits

LEMMA SpendCounts ==
  ASSUME SendsCounted, NEW what, Mobile!Spend(what)
  PROVE  /\ SendsCounted' /\ left'.sends <= left.sends
         /\ what # "sends" => left'.sends = left.sends
         /\ what = "sends" => left'.sends = left.sends - 1
BY DEF SendsCounted, Mobile!Spend

LEMMA CallsFewer ==
  ASSUME SendsCounted, SendsCounted', left'.sends <= left.sends, CallsFit, calls' \subseteq calls
  PROVE  CallsFit'
<1>1. \A r \in calls : CallFits(r, left'.sends)
  BY DEF CallsFit, CallFits, SendsCounted
<1> QED BY <1>1 DEF CallsFit, Apart

LEMMA CallsMore ==
  ASSUME SendsCounted, SendsCounted', left'.sends = left.sends, CallsFit,
         NEW kind, kind # "send", NEW c \in MobileChats, NEW arg,
         Mobile!Calling(Mobile!Request(kind, c, arg))
  PROVE  CallsFit'
<1> DEFINE q == Mobile!Request(kind, c, arg)
<1>1. CallFits(q, left.sends) /\ q.kind # "send"
  BY DEF Mobile!Request, CallFits
<1>2. calls' = calls \cup {q}
  BY DEF Mobile!Calling
<1> HIDE DEF q
<1> QED BY <1>1, <1>2 DEF CallsFit, Apart

LEMMA CallsSend ==
  ASSUME SendsCounted, SendsCounted', left'.sends = left.sends - 1, CallsFit,
         NEW c \in MobileChats, NEW text, NEW id, id = Mobile!PendingId(c, left.sends),
         Mobile!Calling(Mobile!Request("send", c, [id |-> id, text |-> text]))
  PROVE  CallsFit'
<1> DEFINE q == Mobile!Request("send", c, [id |-> id, text |-> text])
<1>1. id.n = -left.sends /\ left.sends \in Int /\ left'.sends \in Int
  BY DEF Mobile!PendingId, SendsCounted
<1>2. q.arg.id = id /\ q.kind = "send" /\ CallFits(q, left'.sends)
  BY <1>1 DEF Mobile!Request, CallFits
<1>3. calls' = calls \cup {q}
  BY DEF Mobile!Calling
<1> HIDE DEF q
<1>4. \A r \in calls : CallFits(r, left'.sends) /\ (r.kind = "send" => r.arg.id # id)
  BY <1>1 DEF CallsFit, CallFits
<1> QED BY <1>2, <1>3, <1>4 DEF CallsFit, Apart

LEMMA CallsAnswered ==
  ASSUME SendsCounted, SendsCounted', left'.sends = left.sends, CallsFit,
         NEW r \in calls, NEW reply, Mobile!Answer(r, reply),
         reply = Failed \/ ReplyFits(r.kind, reply)
  PROVE  CallsFit'
<1> DEFINE q == [r EXCEPT !.reply = reply]
<1>1. CallFits(r, left.sends)
  BY DEF CallsFit
<1>2. DOMAIN q = DOMAIN r /\ q.kind = r.kind /\ q.chat = r.chat /\ q.arg = r.arg /\ q.reply = reply
  BY <1>1 DEF CallFits
<1>3. calls' = (calls \ {r}) \cup {q}
  BY DEF Mobile!Answer
<1> HIDE DEF q
<1>4. CallFits(q, left.sends)
  BY <1>1, <1>2 DEF CallFits
<1> QED BY <1>2, <1>3, <1>4 DEF CallsFit, Apart

LEMMA CallsSame == ASSUME CallsFit, SendsCounted, calls' = calls, left' = left PROVE CallsFit' /\ SendsCounted'
BY DEF CallsFit, Apart, SendsCounted

LEMMA ServerKept == ASSUME ServerFits, server' = server PROVE ServerFits'
BY DEF ServerFits

\* What a step does to one chat of the server.
LEMMA ServerSet ==
  ASSUME ServerFits, NEW c \in MobileChats, NEW x,
         server' = [server EXCEPT ![c] = x], "prompts" \in DOMAIN x, PromptList(x.prompts)
  PROVE  ServerFits'
BY DEF ServerFits

LEMMA OldShaped == ASSUME NEW c, NEW n PROVE Shapely(Mobile!OldPrompt(c, n))
BY DEF Shapely, Mobile!OldPrompt

LEMMA NewShaped == ASSUME NEW c, NEW text PROVE Shapely(Mobile!NewPrompt(c, text))
BY DEF Shapely, Mobile!NewPrompt

LEMMA PlaceholderShaped ==
  ASSUME NEW id, NEW text
  PROVE  LET p == Mobile!Placeholder(id, text) IN Shapely(p) /\ p.id = id
BY DEF Shapely, Mobile!Placeholder

\* The last prompt says something more.
LEMMA EventsList ==
  ASSUME NEW q, PromptList(q), NEW i, NEW x
  PROVE  PromptList([q EXCEPT ![i].events = x])
<1> DEFINE s == [prompts |-> q]
           t == [s EXCEPT !.prompts[i].events = x]
<1>1. StoreOK(s)
  BY DEF StoreOK
<1>2. t.prompts = [q EXCEPT ![i].events = x]
  OBVIOUS
<1> HIDE DEF s
<1>3. SameNames(s, t)
  BY <1>1, EventsNames
<1> QED BY <1>2, <1>3 DEF SameNames, StoreOK

LEMMA ViewIs ==
  ASSUME ServerFits, NEW c \in MobileChats
  PROVE  ViewFits(Mobile!ViewOf(c))
<1> DEFINE q == server[c].prompts
           m == IF Len(q) > Window THEN Len(q) - Window + 1 ELSE 1
           r == SubSeq(q, m, Len(q))
<1>1. PromptList(q)
  BY DEF ServerFits
<1> HIDE DEF q
<1>2. Len(q) \in Nat
  BY <1>1, ListFacts
<1>3. /\ m \in Nat \ {0} /\ Len(q) \in 0..Len(q)
      /\ (IF m <= Len(q) THEN Len(q) - m + 1 ELSE 0) <= Window
  BY <1>2, CapsAre
<1> HIDE DEF m
<1>4. PromptList(r) /\ Len(r) <= Window
  <2>1. PromptList(r) /\ Len(r) = IF m <= Len(q) THEN Len(q) - m + 1 ELSE 0
    BY <1>1, <1>3, PartList
  <2> HIDE DEF r
  <2> QED BY <1>3, <2>1
<1>5. Mobile!ViewOf(c).prompts = r
  BY DEF Mobile!ViewOf, Mobile!Prompts, q, m
<1> QED BY <1>4, <1>5 DEF ViewFits

LEMMA PageIs ==
  ASSUME ServerFits, NEW c \in MobileChats, NEW before
  PROVE  PageFits(Mobile!PageOf(c, before))
<1> DEFINE p == server[c].prompts
           q == Mobile!Only(p, {x \in Mobile!ToSet(p) : x.seq < before})
           m == IF Len(q) > Page THEN Len(q) - Page + 1 ELSE 1
           r == SubSeq(q, m, Len(q))
<1>1. PromptList(q)
  BY OnlyList DEF ServerFits
<1>5. Mobile!PageOf(c, before).prompts = r
  BY DEF Mobile!PageOf, Mobile!Prompts
<1> HIDE DEF q
<1>2. Len(q) \in Nat
  BY <1>1, ListFacts
<1>3. /\ m \in Nat \ {0} /\ Len(q) \in 0..Len(q)
      /\ (IF m <= Len(q) THEN Len(q) - m + 1 ELSE 0) <= Page
  BY <1>2, CapsAre
<1> HIDE DEF m
<1>4. PromptList(r) /\ Len(r) <= Page
  <2>1. PromptList(r) /\ Len(r) = IF m <= Len(q) THEN Len(q) - m + 1 ELSE 0
    BY <1>1, <1>3, PartList
  <2> HIDE DEF r
  <2> QED BY <1>3, <2>1
<1> QED BY <1>4, <1>5 DEF PageFits

LEMMA EmptyList == PromptList(<<>>)
<1> DEFINE S == {}
<1>1. \A p \in S : Shapely(p)
  OBVIOUS
<1> HIDE DEF S
<1>2. <<>> \in Seq(S)
  OBVIOUS
<1> QED BY <1>1, <1>2 DEF PromptList

LEMMA MobileInit == Mobile!Init => MobileInv
<1> SUFFICES ASSUME Mobile!Init PROVE MobileInv
  OBVIOUS
<1>1. PromptList(<<>>)
  BY EmptyList
<1>2. ClientFits
  <2>1. batch \in Seq({})
    BY DEF Mobile!Init
  <2>2. "prompts" \in DOMAIN store /\ store.prompts = <<>>
    BY DEF Mobile!Init, Mobile!FreshChatStore
  <2> QED BY <1>1, <2>1, <2>2 DEF ClientFits, StoreOK, Mobile!Init, Mobile!NoSocket
<1>3. SendsCounted
  BY BudgetsOK DEF Mobile!Init, SendsCounted
<1>4. CallsFit
  BY DEF Mobile!Init, CallsFit, Apart
<1>5. ServerFits
  <2>1. DOMAIN server = MobileChats
    BY DEF Mobile!Init
  <2>2. ASSUME NEW c \in MobileChats
        PROVE  "prompts" \in DOMAIN server[c] /\ PromptList(server[c].prompts)
    <3> DEFINE q == [n \in 1..History[c] |-> Mobile!OldPrompt(c, n)]
               S == {Mobile!OldPrompt(c, n) : n \in 1..History[c]}
    <3>1. "prompts" \in DOMAIN server[c] /\ server[c].prompts = q
      BY DEF Mobile!Init
    <3>2. History[c] \in Nat
      BY WindowOK
    <3>3. q \in [1..History[c] -> S]
      OBVIOUS
    <3>4. \A p \in S : Shapely(p)
      BY OldShaped
    <3> HIDE DEF q, S
    <3>5. q \in Seq(S)
      BY <3>2, <3>3, SeqDef
    <3> QED BY <3>1, <3>4, <3>5 DEF PromptList
  <2> QED BY <2>1, <2>2 DEF ServerFits
<1> QED BY <1>2, <1>3, <1>4, <1>5 DEF MobileInv


\* A step of the user, the socket or the server that leaves the prompts there.
Stays == MobileInv' /\ Mobile!SentStays

LEMMA NothingGoes ==
  ASSUME MobileInv, MobileInv', \A p \in Mobile!ToSet(store.prompts) : Seen(store', p)
  PROVE  Stays
BY DEF Stays, Mobile!SentStays, Seen

LEMMA StoreStays ==
  ASSUME MobileInv, MobileInv', store' = store
  PROVE  Stays
<1>1. \A p \in Mobile!ToSet(store.prompts) : Seen(store', p)
  BY ThereIsSeen DEF MobileInv, ClientFits
<1> QED BY <1>1, NothingGoes

LEMMA NamesStayThere ==
  ASSUME MobileInv, MobileInv', SameNames(store, store')
  PROVE  Stays
<1>1. \A p \in Mobile!ToSet(store.prompts) : Seen(store', p)
  BY NamedIsSeen DEF MobileInv, ClientFits
<1> QED BY <1>1, NothingGoes

LEMMA BurstFlushed ==
  ASSUME MobileInv, NEW s, StoreOK(s)
  PROVE  SameNames(s, Mobile!Flushed(s, batch)) /\ StoreOK(Mobile!Flushed(s, batch))
<1>1. Len(batch) \in Nat
  BY DEF MobileInv, ClientFits
<1> QED BY <1>1, BurstNames DEF SameNames

\* The client, when only its store changes, and perhaps nothing at all.
LEMMA ClientGoesOn ==
  ASSUME ClientFits, StoreOK(store'), chat' = chat, batch' = batch, socket' = socket
  PROVE  ClientFits'
BY DEF ClientFits

LEMMA NoBatch == ASSUME batch' = <<>> PROVE \E S : batch' \in Seq(S)
<1>1. batch' \in Seq({})
  OBVIOUS
<1> QED BY <1>1

\* The steps of the user and of the client's timers.
LEMMA OpenStays ==
  ASSUME MobileInv, NEW c \in MobileChats \cup {None}, Mobile!Open(c)
  PROVE  Stays
<1>1. SendsCounted' /\ left'.sends <= left.sends /\ left'.sends = left.sends
  BY SpendCounts DEF MobileInv, Mobile!Open
<1>2. StoreOK(Mobile!FreshChatStore)
  <2>1. PromptList(<<>>)
    BY EmptyList
  <2> QED BY <2>1 DEF StoreOK, Mobile!FreshChatStore
<1>3. StoreOK(store')
  BY <1>2, BurstFlushed DEF Mobile!Open
<1>4. ClientFits'
  BY <1>3, NoBatch DEF ClientFits, Mobile!Open, Mobile!NoSocket
<1>5. CallsFit'
  <2>1. CASE c = None
    <3>1. calls' \subseteq calls
      BY <2>1 DEF Mobile!Open
    <3> QED BY <1>1, <3>1, CallsFewer DEF MobileInv
  <2>2. CASE c # None
    <3>1. Mobile!Calling(Mobile!Request("reload", c, None)) /\ c \in MobileChats
      BY <2>2 DEF Mobile!Open
    <3> QED BY <1>1, <3>1, CallsMore DEF MobileInv
  <2> QED BY <2>1, <2>2
<1>6. ServerFits'
  BY ServerKept DEF MobileInv, Mobile!Open
<1> QED BY <1>1, <1>4, <1>5, <1>6 DEF Stays, MobileInv, Mobile!SentStays, Mobile!Open

LEMMA ReconcileAsked ==
  ASSUME MobileInv, Mobile!Reconcile, chat # None, left' = left
  PROVE  CallsFit' /\ SendsCounted'
<1>1. SendsCounted' /\ left'.sends = left.sends /\ chat \in MobileChats
  BY DEF MobileInv, SendsCounted, ClientFits
<1> QED BY <1>1, CallsMore DEF MobileInv, Mobile!Reconcile

LEMMA ReceiveStays ==
  ASSUME MobileInv, Mobile!Receive
  PROVE  Stays
<1>1. chat' = chat /\ left' = left /\ server' = server
  BY DEF Mobile!Receive
<1>2. ServerFits'
  BY <1>1, ServerKept DEF MobileInv
<1>7. chat # None /\ "state" \in DOMAIN socket' /\ socket'.state = socket.state
  BY DEF MobileInv, ClientFits, Mobile!Receive
<1> DEFINE frame == Mobile!Topic(chat)[socket.read + 1]
<1>3. \/ Mobile!Reconcile /\ store' = store /\ batch' = batch
      \/ batch' = Append(batch, frame) /\ store' = store /\ calls' = calls
      \/ /\ store' = Mobile!ApplyWsFrame(Mobile!Flushed(store, batch), frame)
         /\ batch' = <<>> /\ calls' = calls
  BY DEF Mobile!Receive
<1> HIDE DEF frame
<1>4. CASE Mobile!Reconcile /\ store' = store /\ batch' = batch
  <2>2. CallsFit' /\ SendsCounted'
    BY <1>1, <1>4, <1>7, ReconcileAsked
  <2>3. ClientFits'
    BY <1>1, <1>4, <1>7 DEF MobileInv, ClientFits
  <2> QED BY <1>2, <1>4, <2>2, <2>3, StoreStays DEF MobileInv
<1>5. CASE batch' = Append(batch, frame) /\ store' = store /\ calls' = calls
  <2>1. PICK S : batch \in Seq(S)
    BY DEF MobileInv, ClientFits
  <2>2. batch \in Seq(S \cup {frame})
    BY <2>1
  <2>3. batch' \in Seq(S \cup {frame})
    BY <1>5, <2>2
  <2>4. ClientFits'
    BY <1>1, <1>5, <1>7, <2>3 DEF MobileInv, ClientFits
  <2>5. CallsFit' /\ SendsCounted'
    BY <1>1, <1>5, CallsSame DEF MobileInv
  <2> QED BY <1>2, <1>5, <2>4, <2>5, StoreStays DEF MobileInv
<1>6. CASE /\ store' = Mobile!ApplyWsFrame(Mobile!Flushed(store, batch), frame)
           /\ batch' = <<>> /\ calls' = calls
  <2> DEFINE f == Mobile!Flushed(store, batch)
  <2>1. SameNames(store, f) /\ StoreOK(f)
    BY BurstFlushed DEF MobileInv, ClientFits
  <2> HIDE DEF f
  <2>2. SameNames(f, store')
    BY <1>6, <2>1, FrameNames DEF f
  <2>3. SameNames(store, store') /\ StoreOK(store')
    BY <2>1, <2>2, NamesThrough DEF SameNames
  <2>4. ClientFits'
    BY <1>1, <1>6, <1>7, <2>3, NoBatch DEF MobileInv, ClientFits
  <2>5. CallsFit' /\ SendsCounted'
    BY <1>1, <1>6, CallsSame DEF MobileInv
  <2> QED BY <1>2, <2>3, <2>4, <2>5, NamesStayThere DEF MobileInv
<1> QED BY <1>3, <1>4, <1>5, <1>6


LEMMA TimersStay ==
  ASSUME MobileInv, Mobile!Connect \/ Mobile!SocketCloses \/ Mobile!FlushTimer \/ Mobile!Poll
  PROVE  Stays
<1>1. CASE Mobile!Connect
  <2>1. ClientFits'
    BY <1>1 DEF MobileInv, ClientFits, Mobile!Connect
  <2>2. CallsFit' /\ SendsCounted' /\ ServerFits'
    BY <1>1, CallsSame, ServerKept DEF MobileInv, Mobile!Connect
  <2> QED BY <1>1, <2>1, <2>2, StoreStays DEF MobileInv, Mobile!Connect
<1>2. CASE Mobile!SocketCloses
  <2>1. ClientFits'
    BY <1>2 DEF MobileInv, ClientFits, Mobile!SocketCloses, Mobile!NoSocket
  <2>2. SendsCounted' /\ left'.sends = left.sends
    BY <1>2, SpendCounts DEF MobileInv, Mobile!SocketCloses
  <2>3. CallsFit' /\ ServerFits'
    BY <1>2, <2>2, ServerKept DEF MobileInv, Mobile!SocketCloses, CallsFit, Apart
  <2> QED BY <1>2, <2>1, <2>2, <2>3, StoreStays DEF MobileInv, Mobile!SocketCloses
<1>3. CASE Mobile!FlushTimer
  <2>1. SameNames(store, store') /\ StoreOK(store')
    BY <1>3, BurstFlushed DEF MobileInv, ClientFits, Mobile!FlushTimer
  <2>2. ClientFits'
    BY <1>3, <2>1, NoBatch DEF MobileInv, ClientFits, Mobile!FlushTimer
  <2>3. CallsFit' /\ SendsCounted' /\ ServerFits'
    BY <1>3, CallsSame, ServerKept DEF MobileInv, Mobile!FlushTimer
  <2> QED BY <2>1, <2>2, <2>3, NamesStayThere DEF MobileInv
<1>4. CASE Mobile!Poll
  <2>1. ClientFits'
    BY <1>4 DEF MobileInv, ClientFits, Mobile!Poll, Mobile!clientVars
  <2>2. CallsFit' /\ SendsCounted'
    BY <1>4, ReconcileAsked DEF Mobile!Poll
  <2>3. ServerFits'
    BY <1>4, ServerKept DEF MobileInv, Mobile!Poll
  <2> QED BY <1>4, <2>1, <2>2, <2>3, StoreStays DEF MobileInv, Mobile!Poll, Mobile!clientVars
<1> QED BY <1>1, <1>2, <1>3, <1>4

LEMMA ClicksStay ==
  ASSUME MobileInv, Mobile!LoadOlder \/ Mobile!Stop
  PROVE  Stays
<1>1. CASE Mobile!LoadOlder
  <2>1. StoreOK(store') /\ store'.prompts = store.prompts
    BY <1>1 DEF MobileInv, ClientFits, StoreOK, Mobile!LoadOlder
  <2>2. ClientFits'
    BY <1>1, <2>1, ClientGoesOn DEF MobileInv, Mobile!LoadOlder
  <2>3. SendsCounted' /\ left'.sends = left.sends /\ chat \in MobileChats
    BY <1>1 DEF MobileInv, SendsCounted, ClientFits, Mobile!LoadOlder
  <2>4. CallsFit' /\ ServerFits'
    BY <1>1, <2>3, CallsMore, ServerKept DEF MobileInv, Mobile!LoadOlder
  <2>5. SameNames(store, store')
    BY <2>1, NamesStay DEF MobileInv, ClientFits, StoreOK
  <2> QED BY <2>2, <2>3, <2>4, <2>5, NamesStayThere DEF MobileInv
<1>2. CASE Mobile!Stop
  <2>1. SendsCounted' /\ left'.sends = left.sends /\ chat \in MobileChats
    BY <1>2, SpendCounts DEF MobileInv, ClientFits, Mobile!Stop
  <2>2. CallsFit' /\ ServerFits'
    BY <1>2, <2>1, CallsMore, ServerKept DEF MobileInv, Mobile!Stop
  <2>3. ClientFits'
    BY <1>2 DEF MobileInv, ClientFits, Mobile!Stop, Mobile!clientVars
  <2> QED BY <1>2, <2>1, <2>2, <2>3, StoreStays DEF MobileInv, Mobile!Stop, Mobile!clientVars
<1> QED BY <1>1, <1>2

LEMMA SendStays ==
  ASSUME MobileInv, NEW text, Mobile!Send(text)
  PROVE  Stays
<1> DEFINE id == Mobile!PendingId(chat, left.sends)
           p == Mobile!Placeholder(id, text)
<1>1. SendsCounted' /\ left'.sends = left.sends - 1 /\ chat \in MobileChats
  BY SpendCounts DEF MobileInv, ClientFits, Mobile!Send
<1>2. Shapely(p)
  BY PlaceholderShaped
<1>3. store' = Mobile!WithPlaceholder(store, p)
  BY DEF Mobile!Send
<1>4. Mobile!Calling(Mobile!Request("send", chat, [id |-> id, text |-> text]))
  BY DEF Mobile!Send
<1>5. CallsFit'
  BY <1>1, <1>4, CallsSend DEF MobileInv
<1> HIDE DEF p
<1>6. /\ StoreOK(store')
      /\ Len(store.prompts) + 1 <= MaxPrompts =>
           \A x \in Mobile!ToSet(store.prompts) : Seen(store', x)
  BY <1>2, <1>3, PlaceholderShows DEF MobileInv, ClientFits
<1>7. ClientFits' /\ ServerFits'
  BY <1>6, ClientGoesOn, ServerKept DEF MobileInv, Mobile!Send
<1> QED BY <1>1, <1>5, <1>6, <1>7 DEF Stays, MobileInv, Mobile!SentStays, Seen

-----------------------------------------------------------------------------
(* The answers.                                                            *)

\* What is common to the steps that take an answer.
LEMMA TakenFits ==
  ASSUME MobileInv, NEW r, Mobile!Resolve(r), StoreOK(store'),
         UNCHANGED <<chat, socket, batch, server, left>>
  PROVE  MobileInv'
<1>1. ClientFits' /\ ServerFits'
  BY ClientGoesOn, ServerKept DEF MobileInv
<1>2. SendsCounted' /\ left'.sends <= left.sends
  BY DEF MobileInv, SendsCounted
<1>3. CallsFit'
  BY <1>2, CallsFewer DEF MobileInv, Mobile!Resolve
<1> QED BY <1>1, <1>2, <1>3 DEF MobileInv

LEMMA TakenIs ==
  ASSUME MobileInv, NEW r, Mobile!Resolve(r), r.reply # Failed
  PROVE  ReplyFits(r.kind, r.reply)
BY DEF MobileInv, CallsFit, CallFits, Mobile!Resolve

LEMMA ReloadStays ==
  ASSUME MobileInv, NEW r, Mobile!ReloadDone(r)
  PROVE  Stays
<1>1. StoreOK(store')
  <2>1. CASE store' = store
    BY <2>1 DEF MobileInv, ClientFits
  <2>2. CASE r.reply # Failed /\ store' = Mobile!Loaded(r.reply.view)
    <3>1. ViewFits(r.reply.view)
      BY <2>2, TakenIs DEF Mobile!ReloadDone, ReplyFits
    <3> QED BY <2>2, <3>1 DEF StoreOK, ViewFits, Mobile!Loaded, Mobile!FreshChatStore
  <2> QED BY <2>1, <2>2 DEF Mobile!ReloadDone
<1>2. MobileInv'
  BY <1>1, TakenFits DEF Mobile!ReloadDone
<1>3. r \in calls \ calls' /\ r.kind = "reload"
  BY DEF Mobile!ReloadDone, Mobile!Resolve
<1> QED BY <1>2, <1>3 DEF Stays, Mobile!SentStays

LEMMA ReconcileStays ==
  ASSUME MobileInv, NEW r, Mobile!ReconcileDone(r)
  PROVE  Stays
<1>1. CASE store' = store
  <2>1. MobileInv'
    BY <1>1, TakenFits DEF MobileInv, ClientFits, Mobile!ReconcileDone
  <2> QED BY <1>1, <2>1, StoreStays
<1>2. CASE r.reply # Failed /\ store' = Mobile!Reconciled(store, r.reply.view)
  <2>1. ViewFits(r.reply.view)
    BY <1>2, TakenIs DEF Mobile!ReconcileDone, ReplyFits
  <2>2. /\ StoreOK(store')
        /\ Len(store.prompts) + Window <= MaxPrompts =>
             \A p \in Mobile!ToSet(store.prompts) : p.seq = -1 => Seen(store', p)
    BY <1>2, <2>1, ReconciledShows DEF MobileInv, ClientFits
  <2>3. MobileInv'
    BY <2>2, TakenFits DEF Mobile!ReconcileDone
  <2> QED BY <2>2, <2>3 DEF Stays, Mobile!SentStays, Mobile!Pending, Seen
<1> QED BY <1>1, <1>2 DEF Mobile!ReconcileDone

LEMMA PageStays ==
  ASSUME MobileInv, NEW r, Mobile!OlderDone(r)
  PROVE  Stays
<1>1. CASE r.reply = Failed
  <2>1. "prompts" \in DOMAIN store' /\ store'.prompts = store.prompts
    BY <1>1 DEF MobileInv, ClientFits, StoreOK, Mobile!OlderDone
  <2>2. SameNames(store, store') /\ StoreOK(store')
    BY <2>1, NamesStay DEF MobileInv, ClientFits, SameNames
  <2>3. MobileInv'
    BY <2>2, TakenFits DEF Mobile!OlderDone
  <2> QED BY <2>2, <2>3, NamesStayThere
<1>2. CASE r.reply # Failed
  <2>1. PageFits(r.reply)
    BY <1>2, TakenIs DEF Mobile!OlderDone, ReplyFits
  <2>2. store' = [Mobile!Backfilled(store, r.reply) EXCEPT !.loadingOlder = FALSE]
    BY <1>2 DEF Mobile!OlderDone
  <2>3. /\ StoreOK(store')
        /\ Len(store.prompts) + Page <= MaxPrompts =>
             \A p \in Mobile!ToSet(store.prompts) : Seen(store', p)
    BY <2>1, <2>2, BackfilledShows DEF MobileInv, ClientFits
  <2>4. MobileInv'
    BY <2>3, TakenFits DEF Mobile!OlderDone
  <2> QED BY <2>3, <2>4 DEF Stays, Mobile!SentStays, Seen
<1> QED BY <1>1, <1>2

\* The answer to a message takes its own placeholder away, and no other.
LEMMA AnswerStays ==
  ASSUME MobileInv, NEW r, Mobile!SendDone(r)
  PROVE  Stays
<1>1. /\ StoreOK(store')
      /\ \A p \in Mobile!ToSet(store.prompts) : p.id # r.arg.id => Seen(store', p)
  <2>1. CASE r.reply # Failed /\ r.reply.kind = "dispatched"
    <3>1. Shapely(r.reply.prompt)
      BY <2>1, TakenIs DEF Mobile!SendDone, ReplyFits
    <3> QED BY <2>1, <3>1, SwappedShows DEF MobileInv, ClientFits, Mobile!SendDone
  <2>2. CASE ~(r.reply # Failed /\ r.reply.kind = "dispatched")
    BY <2>2, WithoutShows DEF MobileInv, ClientFits, Mobile!SendDone
  <2> QED BY <2>1, <2>2
<1>2. MobileInv'
  BY <1>1, TakenFits DEF Mobile!SendDone
<1>3. \A q \in calls' : q.kind = "send" => q.arg.id # r.arg.id
  BY DEF MobileInv, CallsFit, Apart, Mobile!SendDone, Mobile!Resolve
<1> QED BY <1>1, <1>2, <1>3 DEF Stays, Mobile!SentStays, Seen

LEMMA StopStays ==
  ASSUME MobileInv, NEW r, Mobile!StopDone(r)
  PROVE  Stays
<1>1. MobileInv'
  BY TakenFits DEF MobileInv, ClientFits, Mobile!StopDone, Mobile!clientVars
<1> QED BY <1>1, StoreStays DEF Mobile!StopDone, Mobile!clientVars

-----------------------------------------------------------------------------
(* The server's steps.                                                     *)

LEMMA ClientSame ==
  ASSUME MobileInv, UNCHANGED Mobile!clientVars
  PROVE  ClientFits' /\ store' = store
BY DEF MobileInv, ClientFits, Mobile!clientVars

\* A request is answered, and the server is as it should be.
LEMMA ServedStays ==
  ASSUME MobileInv, NEW r \in calls, NEW reply, Mobile!Answer(r, reply),
         reply = Failed \/ ReplyFits(r.kind, reply),
         SendsCounted', left'.sends = left.sends, ServerFits', UNCHANGED Mobile!clientVars
  PROVE  Stays
<1>1. ClientFits' /\ store' = store
  BY ClientSame
<1>2. CallsFit'
  BY CallsAnswered DEF MobileInv
<1> QED BY <1>1, <1>2, StoreStays DEF MobileInv

LEMMA ServedQuietly ==
  ASSUME MobileInv, NEW r \in calls, NEW reply, Mobile!Answer(r, reply),
         ReplyFits(r.kind, reply), UNCHANGED <<Mobile!clientVars, server, left>>
  PROVE  Stays
<1>1. SendsCounted' /\ left'.sends = left.sends /\ ServerFits'
  BY ServerKept DEF MobileInv, SendsCounted
<1> QED BY <1>1, ServedStays

\* A chat's prompts and all else the server has of it.
LEMMA ChatSet ==
  ASSUME ServerFits, NEW c \in MobileChats, DOMAIN server' = DOMAIN server,
         \A d \in MobileChats \ {c} : server'[d] = server[d],
         "prompts" \in DOMAIN server'[c], PromptList(server'[c].prompts)
  PROVE  ServerFits'
BY DEF ServerFits

LEMMA SaysFits ==
  ASSUME ServerFits, NEW c \in MobileChats, NEW ev, NEW turn, Mobile!Says(c, ev, turn)
  PROVE  ServerFits'
<1> DEFINE last == Len(Mobile!Prompts(c))
           q    == server[c].prompts
           x    == Append(q[last].events, ev)
<1>1. "prompts" \in DOMAIN server[c] /\ DOMAIN server = MobileChats /\ PromptList(q)
  BY DEF ServerFits
<1>2. DOMAIN server' = DOMAIN server /\ \A d \in MobileChats \ {c} : server'[d] = server[d]
  BY <1>1 DEF Mobile!Says
<1>3. "prompts" \in DOMAIN server'[c] /\ server'[c].prompts = [q EXCEPT ![last].events = x]
  BY <1>1 DEF Mobile!Says
<1> HIDE DEF last, q, x
<1>4. PromptList(server'[c].prompts)
  BY <1>1, <1>3, EventsList
<1> QED BY <1>2, <1>3, <1>4, ChatSet

\* One more prompt, and what else there is.
LEMMA PromptAdded ==
  ASSUME ServerFits, NEW c \in MobileChats, NEW p, Shapely(p), DOMAIN server' = DOMAIN server,
         \A d \in MobileChats \ {c} : server'[d] = server[d],
         "prompts" \in DOMAIN server'[c], server'[c].prompts = Append(server[c].prompts, p)
  PROVE  ServerFits'
<1>1. PromptList(server'[c].prompts)
  BY OneMore DEF ServerFits
<1> QED BY <1>1, ChatSet

LEMMA CallIs ==
  ASSUME MobileInv, NEW r \in calls
  PROVE  r.chat \in MobileChats /\ DOMAIN server = MobileChats /\ "prompts" \in DOMAIN server[r.chat]
BY DEF MobileInv, CallsFit, CallFits, ServerFits

LEMMA ViewServed ==
  ASSUME MobileInv, NEW r, Mobile!ServeView(r)
  PROVE  Stays
<1> DEFINE reply == [view |-> Mobile!ViewOf(r.chat), at |-> Mobile!Age(r.chat)]
<1>1. r \in calls /\ r.kind \in {"reload", "reconcile"} /\ Mobile!Answer(r, reply)
  BY DEF Mobile!ServeView
<1>2. ReplyFits(r.kind, reply)
  BY <1>1, CallIs, ViewIs DEF MobileInv, ReplyFits
<1> HIDE DEF reply
<1> QED BY <1>1, <1>2, ServedQuietly DEF Mobile!ServeView

LEMMA PageServed ==
  ASSUME MobileInv, NEW r, Mobile!ServePage(r)
  PROVE  Stays
<1> DEFINE reply == Mobile!PageOf(r.chat, r.arg)
<1>1. r \in calls /\ r.kind = "older" /\ Mobile!Answer(r, reply)
  BY DEF Mobile!ServePage
<1>2. PageFits(reply)
  BY <1>1, CallIs, PageIs DEF MobileInv
<1> HIDE DEF reply
<1>3. ReplyFits(r.kind, reply)
  BY <1>1, <1>2 DEF ReplyFits
<1> QED BY <1>1, <1>3, ServedQuietly DEF Mobile!ServePage

LEMMA SendServed ==
  ASSUME MobileInv, NEW r, Mobile!ServeSend(r)
  PROVE  Stays
<1> DEFINE p == Mobile!NewPrompt(r.chat, r.arg.text)
           ran == [kind |-> "dispatched", prompt |-> p]
<1>1. r \in calls /\ r.kind = "send" /\ UNCHANGED Mobile!clientVars
  BY DEF Mobile!ServeSend
<1>2. SendsCounted' /\ left'.sends = left.sends
  BY DEF MobileInv, SendsCounted, Mobile!ServeSend
<1>3. Shapely(p)
  BY NewShaped
<1>4. CASE /\ server' = [server EXCEPT ![r.chat].prompts = Append(@, p), ![r.chat].turn = "running"]
           /\ Mobile!Answer(r, ran)
  <2>1. ReplyFits(r.kind, ran)
    BY <1>1, <1>3 DEF ReplyFits
  <2> HIDE DEF p, ran
  <2>2. ServerFits'
    BY <1>1, <1>3, <1>4, CallIs, PromptAdded DEF MobileInv
  <2> QED BY <1>1, <1>2, <1>4, <2>1, <2>2, ServedStays
<1>5. CASE /\ server' = [server EXCEPT ![r.chat].parked = Append(@, r.arg.text)]
           /\ Mobile!Answer(r, [kind |-> "queued"])
  <2>1. ReplyFits(r.kind, [kind |-> "queued"])
    BY <1>1 DEF ReplyFits
  <2>2. ServerFits'
    BY <1>1, <1>5, CallIs DEF MobileInv, ServerFits
  <2> QED BY <1>1, <1>2, <1>5, <2>1, <2>2, ServedStays
<1> QED BY <1>4, <1>5 DEF Mobile!ServeSend

LEMMA EndedList == ASSUME NEW q, PromptList(q) PROVE PromptList(Mobile!Ended(q))
<1> DEFINE last == Len(q)
           x    == Append(q[last].events, Mobile!Crashed)
<1>1. Mobile!Ended(q) = IF last = 0 \/ Mobile!Finished(q[last]) THEN q ELSE [q EXCEPT ![last].events = x]
  BY DEF Mobile!Ended
<1> HIDE DEF last, x
<1>2. PromptList([q EXCEPT ![last].events = x])
  BY EventsList
<1> QED BY <1>1, <1>2

LEMMA StopServed ==
  ASSUME MobileInv, NEW r, Mobile!ServeStop(r)
  PROVE  Stays
<1>1. r \in calls /\ r.kind = "stop" /\ Mobile!Answer(r, "stopped") /\ UNCHANGED Mobile!clientVars
  BY DEF Mobile!ServeStop
<1>2. SendsCounted' /\ left'.sends = left.sends
  BY DEF MobileInv, SendsCounted, Mobile!ServeStop
<1>3. ReplyFits(r.kind, "stopped")
  BY <1>1 DEF ReplyFits
<1>4. CASE server' = [server EXCEPT ![r.chat].turn = "stopping"]
  <2>1. ServerFits'
    BY <1>1, <1>4, CallIs DEF MobileInv, ServerFits
  <2> QED BY <1>1, <1>2, <1>3, <2>1, ServedStays
<1>5. CASE Mobile!StopsNothing(r.chat)
  <2> DEFINE c == r.chat
             q == server[c].prompts
  <2>1. c \in MobileChats /\ DOMAIN server = MobileChats /\ "prompts" \in DOMAIN server[c]
    BY <1>1, CallIs
  <2>2. DOMAIN server' = DOMAIN server /\ \A d \in MobileChats \ {c} : server'[d] = server[d]
    BY <1>5, <2>1 DEF Mobile!StopsNothing
  <2>3. "prompts" \in DOMAIN server'[c] /\ server'[c].prompts = Mobile!Ended(q)
    BY <1>5, <2>1 DEF Mobile!StopsNothing
  <2>4. PromptList(q)
    BY <2>1 DEF MobileInv, ServerFits
  <2> HIDE DEF q
  <2>5. PromptList(Mobile!Ended(q))
    BY <2>4, EndedList
  <2> HIDE DEF c
  <2>6. ServerFits'
    BY <2>1, <2>2, <2>3, <2>5, ChatSet DEF MobileInv
  <2> QED BY <1>1, <1>2, <1>3, <2>6, ServedStays
<1> QED BY <1>4, <1>5 DEF Mobile!ServeStop

LEMMA FailStays ==
  ASSUME MobileInv, NEW r, Mobile!Fail(r)
  PROVE  Stays
<1>1. SendsCounted' /\ left'.sends = left.sends /\ ServerFits'
  BY SpendCounts, ServerKept DEF MobileInv, Mobile!Fail
<1> QED BY <1>1, ServedStays DEF Mobile!Fail

LEMMA TurnStays ==
  ASSUME MobileInv, NEW c \in MobileChats, Mobile!Turn(c)
  PROVE  Stays
<1>1. ClientFits' /\ store' = store /\ calls' = calls
  BY ClientSame DEF Mobile!Turn, Mobile!Emit, Mobile!Finish, Mobile!NextParked, Mobile!GoIdle
<1>2. SendsCounted' /\ left'.sends = left.sends
  BY SpendCounts
  DEF MobileInv, SendsCounted, Mobile!Turn, Mobile!Emit, Mobile!Finish, Mobile!NextParked, Mobile!GoIdle
<1>3. CallsFit'
  BY <1>1, <1>2 DEF MobileInv, CallsFit, Apart
<1>4. "prompts" \in DOMAIN server[c] /\ DOMAIN server = MobileChats
  BY DEF MobileInv, ServerFits
<1>5. CASE Mobile!Emit(c)
  BY <1>5, SaysFits, <1>1, <1>2, <1>3, StoreStays DEF MobileInv, Mobile!Emit
<1>6. CASE Mobile!Finish(c)
  BY <1>6, SaysFits, <1>1, <1>2, <1>3, StoreStays DEF MobileInv, Mobile!Finish
<1>7. CASE Mobile!NextParked(c)
  <2> DEFINE p == Mobile!NewPrompt(c, Head(server[c].parked))
  <2>1. Shapely(p)
    BY NewShaped
  <2>2. /\ DOMAIN server' = DOMAIN server /\ \A d \in MobileChats \ {c} : server'[d] = server[d]
        /\ "prompts" \in DOMAIN server'[c] /\ server'[c].prompts = Append(server[c].prompts, p)
    BY <1>4, <1>7 DEF Mobile!NextParked
  <2> HIDE DEF p
  <2>3. ServerFits'
    BY <2>1, <2>2, PromptAdded DEF MobileInv
  <2> QED BY <1>1, <1>2, <1>3, <2>3, StoreStays DEF MobileInv
<1>8. CASE Mobile!GoIdle(c)
  <2>1. ServerFits'
    BY <1>4, <1>8 DEF MobileInv, ServerFits, Mobile!GoIdle
  <2> QED BY <1>1, <1>2, <1>3, <2>1, StoreStays DEF MobileInv
<1> QED BY <1>5, <1>6, <1>7, <1>8 DEF Mobile!Turn

LEMMA MobileStep == ASSUME MobileInv, Mobile!Next PROVE Stays
<1>1. ASSUME NEW c \in MobileChats \cup {None}, Mobile!Open(c) PROVE Stays
  BY <1>1, OpenStays
<1>2. CASE Mobile!Connect \/ Mobile!SocketCloses \/ Mobile!FlushTimer \/ Mobile!Poll
  BY <1>2, TimersStay
<1>3. CASE Mobile!Receive
  BY <1>3, ReceiveStays
<1>4. CASE Mobile!LoadOlder \/ Mobile!Stop
  BY <1>4, ClicksStay
<1>5. ASSUME NEW text, Mobile!Send(text) PROVE Stays
  BY <1>5, SendStays
<1>6. ASSUME NEW r, Mobile!Taken(r) PROVE Stays
  BY <1>6, ReloadStays, ReconcileStays, PageStays, AnswerStays, StopStays DEF Mobile!Taken
<1>7. ASSUME NEW r, Mobile!Served(r) PROVE Stays
  BY <1>7, ViewServed, PageServed, SendServed, StopServed DEF Mobile!Served
<1>8. ASSUME NEW r, Mobile!Fail(r) PROVE Stays
  BY <1>8, FailStays
<1>9. ASSUME NEW c \in MobileChats, Mobile!Turn(c) PROVE Stays
  BY <1>9, TurnStays
<1> QED BY <1>1, <1>2, <1>3, <1>4, <1>5, <1>6, <1>7, <1>8, <1>9 DEF Mobile!Next

LEMMA MobileQuiet ==
  ASSUME MobileInv, UNCHANGED <<mobileVars, server, calls, left>>
  PROVE  MobileInv'
<1>1. ClientFits'
  BY DEF MobileInv, ClientFits, mobileVars
<1>2. CallsFit' /\ SendsCounted' /\ ServerFits'
  BY CallsSame, ServerKept DEF MobileInv
<1> QED BY <1>1, <1>2 DEF MobileInv

-----------------------------------------------------------------------------
(* The surfaces together: each of them that has one keeps its invariant.   *)

FormsInv ==
  /\ surface = "rail"     => RailInv
  /\ surface = "worktree" => WorktreeInv
  /\ surface = "chat"     => ChatInv
  /\ surface = "folder"   => FolderInv
  /\ surface = "dock"     => DockInv
  /\ surface = "settings" => ThemesInv
  /\ surface = "tabs"     => TabsInv
  /\ surface = "timeline" => TimelineInv
  /\ surface = "composer" => ComposerInv
  /\ surface = "mobile"   => MobileInv

LEMMA FormsInit == Init => FormsInv
<1>1. Left!Init => RailInv
  BY RailInit
<1>2. NewWorktree!Init => WorktreeInv
  BY WorktreeInit
<1>3. Chat!Init => ChatInv
  BY ChatInit
<1>4. Folder!Init => FolderInv
  BY FolderInit
<1>5. Dock!Init => DockInv
  BY DockInit
<1>6. Themes!Init => ThemesInv
  BY ThemesInit
<1>7. Tabs!Init => TabsInv
  BY TabsInit
<1>8. Timeline!Init => TimelineInv
  BY TimelineInit
<1>9. Composing!Init => ComposerInv
  BY ComposerInit
<1>10. Mobile!Init => MobileInv
  BY MobileInit
<1> QED BY <1>1, <1>2, <1>3, <1>4, <1>5, <1>6, <1>7, <1>8, <1>9, <1>10 DEF Init, PanelInit, FormsInv

\* A behaviour is of one surface, and a step of that surface keeps its
\* invariant.
LEMMA FormsStep == FormsInv /\ [Next]_vars => FormsInv'
<1> SUFFICES ASSUME FormsInv, [Next]_vars PROVE FormsInv'
  OBVIOUS
<1>1. surface' = surface
  BY DEF Next, Panel, vars
<1>2. ASSUME surface = "rail" PROVE RailInv'
  <2>1. RailInv
    BY <1>2 DEF FormsInv
  <2>2. CASE Left!Next
    BY <2>1, <2>2, RailStep
  <2>3. CASE UNCHANGED panelVars
    BY <2>1, <2>3
    DEF panelVars, RailInv, Shaped, AtMostOne
  <2> QED BY <1>2, <2>2, <2>3 DEF Next, Panel, vars
<1>3. ASSUME surface = "worktree" PROVE WorktreeInv'
  <2>1. WorktreeInv
    BY <1>3 DEF FormsInv
  <2>2. CASE NewWorktree!Next
    BY <2>1, <2>2, WorktreeStep
  <2>3. CASE UNCHANGED panelVars
    BY <2>1, <2>3
    DEF panelVars, WorktreeInv, SubmitInv, ListedInv, PhaseInv, Shaped, AtMostOne, Made, Became,
        NewWorktree!VerdictIsTrue
  <2> QED BY <1>3, <2>2, <2>3 DEF Next, Panel, vars
<1>4. ASSUME surface = "chat" PROVE ChatInv'
  <2>1. ChatInv
    BY <1>4 DEF FormsInv
  <2>2. CASE Chat!Next
    BY <2>1, <2>2, ChatStep
  <2>3. CASE UNCHANGED panelVars
    BY <2>1, <2>3 DEF panelVars, ChatInv, Shaped, AtMostOne
  <2> QED BY <1>4, <2>2, <2>3 DEF Next, Panel, vars
<1>5. ASSUME surface = "folder" PROVE FolderInv'
  <2>1. FolderInv
    BY <1>5 DEF FormsInv
  <2>2. CASE Folder!Next
    BY <2>1, <2>2, FolderStep
  <2>3. CASE UNCHANGED panelVars
    BY <2>1, <2>3 DEF panelVars, FolderInv, Shaped, AtMostOne
  <2> QED BY <1>5, <2>2, <2>3 DEF Next, Panel, vars
<1>6. ASSUME surface = "dock" PROVE DockInv'
  <2>1. DockInv
    BY <1>6 DEF FormsInv
  <2>2. CASE Dock!Next
    BY <2>1, <2>2, DockStep
  <2>3. CASE UNCHANGED panelVars
    BY <2>1, <2>3 DEF panelVars, DockInv, DockRequest, Dock!BusyHasAReason
  <2> QED BY <1>6, <2>2, <2>3 DEF Next, Panel, vars
<1>7. ASSUME surface = "settings" PROVE ThemesInv'
  <2>1. ThemesInv
    BY <1>7 DEF FormsInv
  <2>2. CASE Themes!Next
    BY <2>1, <2>2, ThemesStep
  <2>3. CASE UNCHANGED panelVars
    BY <2>1, <2>3
    DEF panelVars, ThemesInv, ThemeCallsInv, ThemeViewInv, Themes!ThemeIsKnown
  <2> QED BY <1>7, <2>2, <2>3 DEF Next, Panel, vars
<1>8. ASSUME surface = "tabs" PROVE TabsInv'
  <2>1. TabsInv
    BY <1>8 DEF FormsInv
  <2>2. CASE Tabs!Next
    BY <2>1, <2>2, TabsStep
  <2>3. CASE UNCHANGED panelVars
    BY <2>1, <2>3
    DEF panelVars, TabsInv, TabRequest, IsList, Tabs!BusyHasAReason, Tabs!Mine, Tabs!At
  <2> QED BY <1>8, <2>2, <2>3 DEF Next, Panel, vars
<1>9. ASSUME surface = "timeline" PROVE TimelineInv'
  <2>1. TimelineInv
    BY <1>9 DEF FormsInv
  <2>2. CASE Timeline!Next
    BY <2>1, <2>2, TimelineStep
  <2>3. CASE UNCHANGED panelVars
    BY <2>1, <2>3 DEF panelVars, TimelineInv, Timeline!OlderHasAReason
  <2> QED BY <1>9, <2>2, <2>3 DEF Next, Panel, vars
<1>10. ASSUME surface = "composer" PROVE ComposerInv'
  <2>1. ComposerInv
    BY <1>10 DEF FormsInv
  <2>2. CASE Composing!Next
    BY <2>1, <2>2, ComposerStep
  <2>3. CASE UNCHANGED panelVars
    BY <2>1, <2>3
    DEF panelVars, ComposerInv, ComposerShape, IsMessage, SentOnce, Tracked, HeldIn, Composing!SentFrom,
        TextsAreOld, InjectedIsNew, Somewhere, Shipped, Waits
  <2> QED BY <1>10, <2>2, <2>3 DEF Next, Panel, vars
<1>11. ASSUME surface = "mobile" PROVE MobileInv'
  <2>1. MobileInv
    BY <1>11 DEF FormsInv
  <2>2. CASE Mobile!Next
    BY <2>1, <2>2, MobileStep DEF Stays
  <2>3. CASE UNCHANGED <<mobileVars, server, calls, left>>
    BY <2>1, <2>3, MobileQuiet
  <2> QED BY <1>11, <2>2, <2>3 DEF Next, Panel, vars, panelVars
<1> QED BY <1>1, <1>2, <1>3, <1>4, <1>5, <1>6, <1>7, <1>8, <1>9, <1>10, <1>11 DEF FormsInv

LEMMA FormsInvariant == Spec => []FormsInv
BY FormsInit, FormsStep, PTL DEF Spec

\* However fast and often the user clicks, and whichever requests fail or are
\* late: a repository is asked for one merge at a time, and a form submits
\* once at a time (mergeWorktreeBase of LeftRail.tsx; the busy signals of
\* WorktreeDialog.tsx, NewChatDialog.tsx and FolderPicker.tsx).
THEOREM NothingIsAskedTwice == Spec => []OneAtATime
<1>1. FormsInv => OneAtATime
  BY RailSafe, WorktreeSafe, ChatSafe, FolderSafe DEF FormsInv, OneAtATime
<1> QED BY <1>1, FormsInvariant, PTL

\* The dialog says "ready" only of a worktree that has become ready, and
\* "failed" only of one that failed or is gone, although its polls and the
\* rail's answer in any order (pollStatus of WorktreeDialog.tsx).
THEOREM VerdictsAreTrue == Spec => []VerdictIsTrue
<1>1. FormsInv => VerdictIsTrue
  BY WorktreeSafe DEF FormsInv, VerdictIsTrue
<1> QED BY <1>1, FormsInvariant, PTL

\* The dock of a chat, the tabs of the settings and the button for older
\* prompts are never disabled without a request under way whose answer enables
\* them again (queueBusy and loadOlder of ChatPane.tsx, busy of
\* SettingsModal.tsx).
THEOREM WaitsForAnAnswer == Spec => []BusyHasAReason
<1>1. FormsInv => BusyHasAReason
  BY DockSafe, TabsSafe DEF FormsInv, TimelineInv, BusyHasAReason
<1> QED BY <1>1, FormsInvariant, PTL

\* The theme in use is never one that has been deleted (saveSettings of
\* core/stores/app.ts, deleteCustomTheme of SettingsModal.tsx).
THEOREM ThemeIsThere == Spec => []ThemeIsKnown
<1>1. FormsInv => ThemeIsKnown
  BY ThemesSafe DEF FormsInv, ThemeIsKnown
<1> QED BY <1>1, FormsInvariant, PTL

\* What the server has got in a chat is neither in that chat's editor nor in
\* its draft nor in the timer that would make it one, whatever was typed,
\* sent, put in by the rail, failed or carried to another tab, in any order;
\* only a text which another chat's pane has carried back is excepted (send,
\* sendFailed and debouncedSetChatDraft of ChatPane.tsx).
THEOREM SentIsSentOnce == Spec => []SentIsGone
<1>1. FormsInv => SentIsGone
  BY ComposerSafe DEF FormsInv, SentIsGone
<1> QED BY <1>1, FormsInvariant, PTL

\* A message sent from the mobile session stays on the screen until the server
\* has answered for it, under its own id or under the one the server gave it,
\* whatever frames, views, pages, polls and answers to other messages come, in
\* any order: unless the whole timeline is loaded anew, or is too full for what
\* is coming (send, reconcile, loadOlder of core/chat/createChatSession.ts,
\* pushFrame and applyWsFrame of core/chat/chatStream.ts).
THEOREM SentStaysOnScreen == Spec => SentStaysVisible
<1>1. FormsInv /\ [Next]_vars => [surface = "mobile" => Mobile!SentStays]_vars
  <2> SUFFICES ASSUME FormsInv, Next, surface = "mobile" PROVE Mobile!SentStays
    OBVIOUS
  <2>1. MobileInv /\ Mobile!Next
    BY DEF FormsInv, Next, Panel
  <2> QED BY <2>1, MobileStep DEF Stays
<1> QED BY <1>1, FormsInvariant, PTL DEF Spec, SentStaysVisible
=============================================================================
