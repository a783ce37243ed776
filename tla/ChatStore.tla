----------------------------- MODULE ChatStore -----------------------------
(***************************************************************************)
(* The conversations: the tables chats and prompts                         *)
(* (crates/agentgrove-store/src/chat.rs) and the ChatRegistry that caches  *)
(* them (crates/agentgrove-api/src/chats.rs).                              *)
(*                                                                         *)
(* Every request is answered from the cache and every change is made       *)
(* twice, to the cache under its lock and to the table by a statement of   *)
(* its own, in an order that differs from request to request.  A prompt    *)
(* is addressed by its id alone, also in the table.  Who may start a turn  *)
(* is ChatDispatch's subject: here a chat has one turn at a time.          *)
(***************************************************************************)
EXTENDS Naturals, Sequences, FiniteSets, SequencesExt

CONSTANTS
  Chats,       \* chat ids, also the temporary ones of fork
  Handlers,    \* requests that may be under way at once
  Absent,      \* no row, not cached, no turn, no request
  Ops,         \* kinds of request that clients make, and "fault"
  MaxCreated,  \* bound on the rows of chats when another one is created
  MaxPrompts,  \* bound on the ids ever issued
  MaxEvents,   \* events of a prompt that are told apart from more
  MaxSpent     \* bound on requests other than sends, restarts, hang-ups and
               \* failing statements, taken together

Ids == 1..MaxPrompts

\* A prompt, in the cache and in the table.  text is the id under which its
\* content was first entered, ev the number of its events.
Prompt == [id : Ids, text : Ids, seq : Nat, ev : 0..MaxEvents]
RowOf  == [chat : Chats, text : Ids, seq : Nat, ev : 0..MaxEvents]

ASSUME ParametersOK ==
  /\ Ops \subseteq {"fork", "truncate", "revert", "retry", "delete", "restore", "fault"}
  /\ MaxCreated \in Nat /\ MaxPrompts \in Nat /\ MaxEvents \in Nat
  /\ MaxSpent \in Nat

VARIABLES
  chats,  \* table chats: "none" (no row), "live" or "removed"
  rows,   \* table prompts: per id its row, or Absent
  cache,  \* ChatRegistry.by_id: the prompts of a cached chat, or Absent
  turn,   \* per chat: its turn, from the insert to the flush, or Absent
  req,    \* per handler: its request, or Absent
  issued, \* ids issued so far
  spent,  \* how much of MaxSpent has happened
  odd,    \* history: chats whose cached prompts are known to differ from rows
  clash   \* history: chats that the one may list and the other not

tables == <<chats, rows>>
vars == <<chats, rows, cache, turn, req, issued, spent, odd, clash>>

\* seq is the number to insert with, ev the events as read for the flush;
\* next is what follows the flush.
Turn == [at : {"insert", "ingest", "stream", "rerun", "read", "write", "reset"},
         id : Ids \cup {0}, seq : Nat, ev : 0..MaxEvents,
         next : {"stream", "rerun", "reset", "end"}]

\* chat is what the client named, or the new chat of a fork (temp until it
\* has an id); todo what is left to delete or to copy.
Request ==
  [op : {"fork"}, at : {"create", "rekey", "max", "insert", "events"},
   chat : Chats, temp : Chats, todo : Seq(Prompt), seq : Nat, id : Ids \cup {0}]
    \cup
  [op : {"truncate"}, at : {"rows"}, chat : Chats, todo : Seq(Ids)]
    \cup
  [op : {"delete"}, at : {"row", "evict"}, chat : Chats]
    \cup
  [op : {"restore"}, at : {"ingest"}, chat : Chats]

ASSUME AbsentIsNothing ==
  Absent \notin RowOf /\ Absent \notin Seq(Prompt) /\ Absent \notin Turn /\ Absent \notin Request

TypeOK ==
  /\ chats \in [Chats -> {"none", "live", "removed"}]
  /\ rows \in [Ids -> RowOf \cup {Absent}]
  /\ \A i, j \in Ids : (rows[i] # Absent /\ rows[j] # Absent /\ i # j)
       => <<rows[i].chat, rows[i].seq>> # <<rows[j].chat, rows[j].seq>>
  /\ \A i \in Ids : rows[i] # Absent => chats[rows[i].chat] # "none"
  /\ cache \in [Chats -> Seq(Prompt) \cup {Absent}]
  /\ turn \in [Chats -> Turn \cup {Absent}]
  /\ req \in [Handlers -> Request \cup {Absent}]
  /\ issued \in 0..MaxPrompts
  /\ spent \in 0..MaxSpent
  /\ odd \subseteq Chats /\ clash \subseteq Chats

Init ==
  /\ chats = [c \in Chats |-> "none"] /\ rows = [i \in Ids |-> Absent]
  /\ cache = [c \in Chats |-> Absent] /\ turn = [c \in Chats |-> Absent]
  /\ req = [h \in Handlers |-> Absent]
  /\ issued = 0 /\ spent = 0 /\ odd = {} /\ clash = {}

Cached == {c \in Chats : cache[c] # Absent}
On(c)  == {h \in Handlers : /\ req[h] # Absent
                            /\ req[h].chat = c \/ (req[h].op = "fork" /\ req[h].temp = c)}
Settled(c) == turn[c] = Absent /\ On(c) = {}

RowsOf(c)   == {i \in Ids : rows[i] # Absent /\ rows[i].chat = c}
Seqs(c)     == {rows[i].seq : i \in RowsOf(c)}
NextSeq(c)  == 1 + (IF Seqs(c) = {} THEN 0
                    ELSE CHOOSE n \in Seqs(c) : \A m \in Seqs(c) : m <= n)
Taken(c, n) == \E i \in RowsOf(c) : rows[i].seq = n

\* The k-th smallest member of a set of numbers, and the elements of a
\* sequence at such a set of places, in their order.
Nth(I, k)    == CHOOSE i \in I : Cardinality({j \in I : j < i}) = k - 1
Picked(s, I) == [k \in 1..Cardinality(I) |-> s[Nth(I, k)]]

\* list_prompts, in the order of seq.
RowAt(c, n) == CHOOSE i \in RowsOf(c) : rows[i].seq = n
ReadBack(i) == [id |-> i, text |-> rows[i].text, seq |-> rows[i].seq, ev |-> rows[i].ev]
Hydrated(c) ==
  [k \in 1..Cardinality(Seqs(c)) |-> ReadBack(RowAt(c, Nth(Seqs(c), k)))]

Holds(c, i) == \E k \in DOMAIN cache[c] : cache[c][k].id = i
Holders(i)  == {c \in Cached : Holds(c, i)}
EventsOf(c, i) == cache[c][CHOOSE k \in DOMAIN cache[c] : cache[c][k].id = i].ev

\* chats that nothing bears the id of: a UUID just made.
Unused == {c \in Chats : chats[c] = "none" /\ cache[c] = Absent /\ Settled(c)}

Spend == spent < MaxSpent /\ spent' = spent + 1
Fault == "fault" \in Ops /\ Spend

-----------------------------------------------------------------------------
\* Histories.

\* A request on c while a fork is copying to or from it, whose rows come from
\* what it read at first.
Forking(c) == \E h \in On(c) : req[h].op = "fork"
Touch(c)   == odd' = IF Forking(c) THEN odd \cup {c} ELSE odd

Kept == UNCHANGED <<spent, odd, clash>>

-----------------------------------------------------------------------------
\* create.

\* A client that hangs up after the insert leaves a chat that is not cached.
Create(c) ==
  /\ c \in Unused /\ Cardinality({d \in Chats : chats[d] # "none"}) < MaxCreated
  /\ chats' = [chats EXCEPT ![c] = "live"]
  /\ \/ /\ cache' = [cache EXCEPT ![c] = <<>>]
        /\ odd' = odd \ {c} /\ clash' = clash \ {c} /\ UNCHANGED spent
     \/ Fault /\ clash' = clash \cup {c} /\ UNCHANGED <<cache, odd>>
  /\ UNCHANGED <<rows, turn, req, issued>>

-----------------------------------------------------------------------------
\* A turn: persist_add_prompt, the provider's events, persist_prompt_events.

At(c, at) == turn[c] # Absent /\ turn[c].at = at
Turns(c, t) == turn' = [turn EXCEPT ![c] = t] /\ UNCHANGED <<req, issued>>
Goes(c, at) == Turns(c, [turn[c] EXCEPT !.at = at])
Ends(c)     == Turns(c, Absent)

\* Flushes the events of prompt i, and then.
Flush(i, then) == [at |-> "read", id |-> i, seq |-> 0, ev |-> 0, next |-> then]

\* add_prompt of the store up to the number of the new prompt.
Send(c) ==
  /\ c \in Cached /\ chats[c] # "none" /\ turn[c] = Absent
  /\ issued < MaxPrompts
  /\ Turns(c, [at |-> "insert", id |-> 0, seq |-> NextSeq(c), ev |-> 0, next |-> "end"])
  /\ Touch(c)
  /\ UNCHANGED <<tables, cache, spent, clash>>

\* A bug: nothing keeps the numbers of a chat apart.
InsertTwice(c) ==
  /\ At(c, "insert") /\ issued < MaxPrompts
  /\ issued' = issued + 1
  /\ rows' = [rows EXCEPT ![issued'] =
                [chat |-> c, text |-> issued', seq |-> turn[c].seq, ev |-> 0]]
  /\ turn' = [turn EXCEPT ![c].at = "ingest", ![c].id = issued']
  /\ UNCHANGED <<chats, cache, req>> /\ Kept

\* The number may have been taken since; or the statement fails.
Insert(c) ==
  /\ At(c, "insert")
  /\ \/ /\ ~Taken(c, turn[c].seq) /\ issued < MaxPrompts
        /\ issued' = issued + 1
        /\ rows' = [rows EXCEPT ![issued'] =
                      [chat |-> c, text |-> issued', seq |-> turn[c].seq, ev |-> 0]]
        /\ turn' = [turn EXCEPT ![c].at = "ingest", ![c].id = issued']
        /\ UNCHANGED <<req, spent>>
     \/ /\ IF Taken(c, turn[c].seq) THEN UNCHANGED spent ELSE Fault
        /\ Ends(c) /\ UNCHANGED rows
  /\ UNCHANGED <<chats, cache, odd, clash>>

\* ingest_prompt; a chat that is no longer cached gets no turn.
Ingest(c) ==
  /\ At(c, "ingest")
  /\ IF cache[c] = Absent
       THEN Ends(c) /\ UNCHANGED cache
       ELSE /\ cache' = [cache EXCEPT ![c] = Append(@,
                  [id |-> turn[c].id, text |-> turn[c].id, seq |-> turn[c].seq, ev |-> 0])]
            /\ Goes(c, "stream")
  /\ UNCHANGED tables /\ Kept

\* append_event to cached prompt i of c, if there is one; the code's cap, far
\* above MaxEvents, drops old events for new ones.
WithEvent(p) == IF p.ev < MaxEvents THEN [p EXCEPT !.ev = @ + 1] ELSE p
Appended(c, i) ==
  IF cache[c] = Absent THEN cache
  ELSE [cache EXCEPT ![c] = [k \in DOMAIN @ |-> IF @[k].id = i THEN WithEvent(@[k]) ELSE @[k]]]

Stream(c) ==
  /\ At(c, "stream") \/ At(c, "rerun")
  /\ cache' = Appended(c, turn[c].id)
  /\ UNCHANGED <<tables, turn, req, issued>> /\ Kept

\* The terminal event; a first turn may find that its session was stale.
Finish(c) ==
  /\ \/ At(c, "stream") /\ \E next \in {"end", "reset"} : Turns(c, Flush(turn[c].id, next))
     \/ At(c, "rerun") /\ Turns(c, Flush(turn[c].id, "end"))
  /\ cache' = Appended(c, turn[c].id)
  /\ UNCHANGED tables /\ Kept

\* retry_chat finds out here that its chat is no longer cached.
After(c) == IF turn[c].next = "end" \/ (turn[c].next = "stream" /\ cache[c] = Absent)
              THEN Ends(c) ELSE Goes(c, turn[c].next)

\* persist_prompt_events looks the prompt up by its id in all of the cache,
\* and writes no matter whose row it is.
Read(c) ==
  /\ At(c, "read")
  /\ LET i == turn[c].id
     IN  /\ \/ \E d \in Holders(i) :
                 Turns(c, [turn[c] EXCEPT !.at = "write", !.ev = EventsOf(d, i)])
            \/ Holders(i) = {} /\ After(c)
         /\ odd' = IF \E d, e \in Holders(i) : d # e THEN odd \cup Holders(i) ELSE odd
  /\ UNCHANGED <<tables, cache, spent, clash>>

\* A bug: the events of the last turn are not flushed.
WriteForgets(c) ==
  /\ At(c, "write") /\ After(c)
  /\ UNCHANGED <<tables, cache>> /\ Kept

\* The row may be missing, or another chat's; an error is logged.
Write(c) ==
  /\ At(c, "write")
  /\ LET i == turn[c].id
         mine == rows[i] # Absent /\ rows[i].chat = c
     IN  \/ /\ rows' = IF rows[i] = Absent THEN rows ELSE [rows EXCEPT ![i].ev = turn[c].ev]
            /\ odd' = odd \cup (IF mine \/ Holders(i) = {} THEN {}
                                ELSE Holders(i) \cup {d \in Chats : i \in RowsOf(d)})
            /\ UNCHANGED spent
         \/ rows' = rows /\ Fault /\ odd' = odd \cup {c}
  /\ After(c)
  /\ UNCHANGED <<chats, cache, clash>>

\* retry_prompt resets whatever prompt is the last one now.
LastReset(c) == [cache EXCEPT ![c] = [@ EXCEPT ![Len(@)].ev = 0]]

Reset(c) ==
  /\ At(c, "reset")
  /\ IF cache[c] \in {Absent, <<>>}
       THEN Ends(c) /\ UNCHANGED cache
       ELSE cache' = LastReset(c) /\ Turns(c, Flush(Last(cache[c]).id, "rerun"))
  /\ UNCHANGED tables /\ Kept

TurnStep(c) ==
  \/ Insert(c) \/ Ingest(c) \/ Stream(c) \/ Finish(c) \/ Read(c) \/ Write(c) \/ Reset(c)

-----------------------------------------------------------------------------
\* Requests.

Asked(op) == op \in Ops /\ Spend

Begin(h, r) == req[h] = Absent /\ req' = [req EXCEPT ![h] = r]
Serves(h, op, at) == req[h] # Absent /\ req[h].op = op /\ req[h].at = at
Serving(h, r) == req' = [req EXCEPT ![h] = r]

\* retry_chat, on an idle chat.
Retry(c) ==
  /\ Asked("retry") /\ turn[c] = Absent
  /\ cache[c] \notin {Absent, <<>>}
  /\ cache' = LastReset(c) /\ Turns(c, Flush(Last(cache[c]).id, "stream"))
  /\ Touch(c)
  /\ UNCHANGED <<tables, clash>>

\* revert_prompt: a prompt that only the cache has.
Revert(c) ==
  /\ Asked("revert") /\ cache[c] \notin {Absent, <<>>} /\ issued < MaxPrompts
  /\ issued' = issued + 1
  /\ cache' = [cache EXCEPT ![c] = Append(@,
        [id |-> issued', text |-> issued', seq |-> Len(@) + 1, ev |-> 0])]
  /\ odd' = odd \cup {c}
  /\ UNCHANGED <<tables, turn, req, clash>>

\* truncate_from_seq, then a DELETE per prompt.
Truncate(h, c, n) ==
  LET places == DOMAIN cache[c]
      cut  == Picked(cache[c], {k \in places : cache[c][k].seq >= n})
      kept == Picked(cache[c], {k \in places : cache[c][k].seq < n})
  IN  /\ Asked("truncate") /\ c \in Cached /\ cut # <<>>
      /\ Begin(h, [op |-> "truncate", at |-> "rows", chat |-> c,
                   todo |-> [k \in DOMAIN cut |-> cut[k].id]])
      /\ cache' = [cache EXCEPT ![c] = kept]
      /\ Touch(c)
      /\ UNCHANGED <<tables, turn, issued, clash>>

\* delete_prompt: by the id, and an error is ignored.
DeletePrompt(h) ==
  /\ Serves(h, "truncate", "rows")
  /\ LET r == req[h]  i == Head(r.todo)
         mine == rows[i] # Absent /\ rows[i].chat = r.chat
     IN  /\ \/ /\ rows' = [rows EXCEPT ![i] = Absent] /\ UNCHANGED spent
               /\ odd' = IF mine THEN odd
                         ELSE odd \cup {r.chat} \cup {d \in Chats : i \in RowsOf(d)}
            \/ rows' = rows /\ Fault /\ odd' = odd \cup {r.chat}
         /\ Serving(h, IF Len(r.todo) = 1 THEN Absent ELSE [r EXCEPT !.todo = Tail(@)])
  /\ UNCHANGED <<chats, cache, turn, issued, clash>>

Contested(c) == \E h \in On(c) : req[h].op \in {"delete", "restore"}

Registers(c) ==
  clash' = IF Contested(c) \/ Forking(c) THEN clash \cup {c} ELSE clash

\* persist_chat_delete.
Delete(h, c) ==
  /\ Asked("delete") /\ (c \in Cached \/ chats[c] # "none")
  /\ Begin(h, [op |-> "delete", at |-> "row", chat |-> c])
  /\ Registers(c) /\ Touch(c)
  /\ UNCHANGED <<tables, cache, turn, issued>>

DeleteChat(h) ==
  /\ Serves(h, "delete", "row")
  /\ LET c == req[h].chat
     IN  chats' = [chats EXCEPT ![c] = IF @ = "live" THEN "removed" ELSE @]
  /\ Serving(h, [req[h] EXCEPT !.at = "evict"])
  /\ UNCHANGED <<rows, cache, turn, issued>> /\ Kept

\* A bug: evict leaves the chat by_id.
EvictForgets(h) ==
  /\ Serves(h, "delete", "evict")
  /\ Serving(h, Absent)
  /\ UNCHANGED <<tables, cache, turn, issued>> /\ Kept

Evict(h) ==
  /\ Serves(h, "delete", "evict")
  /\ cache' = [cache EXCEPT ![req[h].chat] = Absent]
  /\ Serving(h, Absent)
  /\ UNCHANGED <<tables, turn, issued>> /\ Kept

\* restore_chat: the row, then an empty chat in the cache.
Restore(h, c) ==
  /\ Asked("restore") /\ chats[c] = "removed"
  /\ Begin(h, [op |-> "restore", at |-> "ingest", chat |-> c])
  /\ chats' = [chats EXCEPT ![c] = "live"]
  /\ Registers(c)
  /\ UNCHANGED <<rows, cache, turn, issued, odd>>

IngestChat(h) ==
  /\ Serves(h, "restore", "ingest")
  /\ cache' = [cache EXCEPT ![req[h].chat] = <<>>]
  /\ Serving(h, Absent)
  /\ odd' = odd \cup {req[h].chat}
  /\ UNCHANGED <<tables, turn, issued, spent, clash>>

\* fork_chat: the prompts up to n under a temporary id, with the ids they have.
Fork(h, c, n, t) ==
  LET prefix == Picked(cache[c], {k \in DOMAIN cache[c] : cache[c][k].seq <= n})
  IN  /\ Asked("fork") /\ c \in Cached /\ prefix # <<>> /\ t \in Unused
      /\ Begin(h, [op |-> "fork", at |-> "create", chat |-> t, temp |-> t,
                   todo |-> prefix, seq |-> 0, id |-> 0])
      /\ cache' = [cache EXCEPT ![t] = prefix]
      /\ odd' = IF \A k \in DOMAIN prefix : prefix[k].seq = k THEN odd \ {t} ELSE odd \cup {t}
      /\ clash' = clash \ {t}
      /\ UNCHANGED <<tables, turn, issued>>

\* The row, with an id of its own.
ForkCreate(h, f) ==
  /\ Serves(h, "fork", "create") /\ f \in Unused
  /\ \/ /\ chats' = [chats EXCEPT ![f] = "live"]
        /\ Serving(h, [req[h] EXCEPT !.at = "rekey", !.chat = f])
        /\ odd' = odd \ {f} /\ clash' = clash \ {f} /\ UNCHANGED spent
     \/ /\ Fault /\ Serving(h, Absent) /\ UNCHANGED chats
        /\ odd' = odd \cup {req[h].temp} /\ clash' = clash \cup {req[h].temp}
  /\ UNCHANGED <<rows, cache, turn, issued>>

Rekey(h) ==
  LET f == req[h].chat  t == req[h].temp
  IN  /\ Serves(h, "fork", "rekey")
      /\ cache' = IF cache[t] = Absent THEN cache
                  ELSE [cache EXCEPT ![f] = cache[t], ![t] = Absent]
      /\ Serving(h, [req[h] EXCEPT !.at = "max"])
      /\ odd' = IF t \in odd THEN odd \cup {f} ELSE odd
      /\ clash' = IF cache[t] = Absent \/ t \in clash THEN clash \cup {f} ELSE clash
      /\ UNCHANGED <<tables, turn, issued, spent>>

\* Then each prompt: add_prompt and write_events.
ForkNumber(h) ==
  /\ Serves(h, "fork", "max")
  /\ Serving(h, [req[h] EXCEPT !.at = "insert", !.seq = NextSeq(req[h].chat)])
  /\ UNCHANGED <<tables, cache, turn, issued>> /\ Kept

Copied(h) ==
  Serving(h, IF Len(req[h].todo) = 1 THEN Absent
             ELSE [req[h] EXCEPT !.at = "max", !.todo = Tail(@)])

ForkInsert(h) ==
  LET r == req[h]
  IN  /\ Serves(h, "fork", "insert")
      /\ \/ /\ ~Taken(r.chat, r.seq) /\ issued < MaxPrompts
            /\ issued' = issued + 1
            /\ rows' = [rows EXCEPT ![issued'] =
                 [chat |-> r.chat, text |-> Head(r.todo).text, seq |-> r.seq, ev |-> 0]]
            /\ Serving(h, [r EXCEPT !.at = "events", !.id = issued'])
            /\ UNCHANGED <<spent, odd>>
         \/ /\ IF Taken(r.chat, r.seq) THEN UNCHANGED spent ELSE Fault
            /\ Copied(h) /\ odd' = odd \cup {r.chat} /\ UNCHANGED <<rows, issued>>
      /\ UNCHANGED <<chats, cache, turn, clash>>

ForkEvents(h) ==
  LET r == req[h]
  IN  /\ Serves(h, "fork", "events")
      /\ \/ rows' = [rows EXCEPT ![r.id].ev = Head(r.todo).ev] /\ UNCHANGED <<spent, odd>>
         \/ rows' = rows /\ Fault /\ odd' = odd \cup {r.chat}
      /\ Copied(h)
      /\ UNCHANGED <<chats, cache, turn, issued, clash>>

Serve(h) ==
  \/ DeletePrompt(h) \/ DeleteChat(h) \/ Evict(h) \/ IngestChat(h)
  \/ \E f \in Chats : ForkCreate(h, f)
  \/ Rekey(h) \/ ForkNumber(h) \/ ForkInsert(h) \/ ForkEvents(h)

-----------------------------------------------------------------------------
\* Interruptions.

\* A client goes away and its handler is dropped where it waits: a request,
\* or a send or a retry that has not got to its turn.  A send also ends after
\* its insert when the statement that touches updated_at fails.
HangUp(h) ==
  /\ req[h] # Absent /\ Fault
  /\ Serving(h, Absent)
  /\ LET touched == {c \in Chats : h \in On(c)}
     IN  odd' = odd \cup touched /\ clash' = clash \cup touched
  /\ UNCHANGED <<tables, cache, turn, issued>>

HangUpTurn(c) ==
  /\ \/ At(c, "insert") \/ At(c, "ingest")
     \/ (At(c, "read") \/ At(c, "write")) /\ turn[c].next = "stream"
  /\ Fault /\ Ends(c)
  /\ odd' = odd \cup {c}
  /\ UNCHANGED <<tables, cache, clash>>

\* The server stops and starts again: hydrate_from_store.
Restart ==
  /\ Fault
  /\ cache' = [c \in Chats |-> IF chats[c] = "live" THEN Hydrated(c) ELSE Absent]
  /\ turn' = [c \in Chats |-> Absent] /\ req' = [h \in Handlers |-> Absent]
  /\ odd' = {} /\ clash' = {}
  /\ UNCHANGED <<tables, issued>>

Next ==
  \/ \E c \in Chats : Create(c) \/ Send(c) \/ TurnStep(c) \/ Retry(c) \/ Revert(c) \/ HangUpTurn(c)
  \/ \E h \in Handlers, c \in Chats, n \in Ids :
       Truncate(h, c, n) \/ \E t \in Chats : Fork(h, c, n, t)
  \/ \E h \in Handlers, c \in Chats : Delete(h, c) \/ Restore(h, c)
  \/ \E h \in Handlers : Serve(h) \/ HangUp(h)
  \/ Restart

Spec == Init /\ [][Next]_vars

-----------------------------------------------------------------------------
\* Properties.

Shown(prompts) == [k \in DOMAIN prompts |-> [prompts[k] EXCEPT !.id = 0]]

\* A restart changes nothing that the user sees: at rest, the cached prompts
\* of a chat are what its rows would be read back as, with their texts, their
\* order and their events.  This holds whatever sends, turns, truncations and
\* forks did to the chat and to its forks, in any interleaving, until the
\* cache is known to differ: by a revert or a restore, a failed statement, a
\* client that hung up, a request on a fork that was still being copied, or a
\* turn or truncation that addressed a prompt which a fork shares.
SurvivesRestart ==
  \A c \in Cached \ odd : Settled(c) => Shown(cache[c]) = Shown(Hydrated(c))

\* At rest, the registry lists exactly the chats that are live in the table,
\* apart from those whose deletion overlapped another deletion, a restore or
\* a fork, or was interrupted.
RegistryMatches ==
  \A c \in Chats \ clash : Settled(c) => (c \in Cached <=> chats[c] = "live")

\* "... so a kill / upgrade / crash can no longer wipe the conversation
\* history" (migrations/0005_chats.sql:5): at rest, a restart brings back at
\* least the texts that are shown.  A fork keeps the ids of the prompts it
\* copies, so a truncation of the fork deletes the rows of the source.
HistoryNotWiped ==
  \A c \in Cached : Settled(c) =>
    \A k \in DOMAIN cache[c] : \E i \in RowsOf(c) : rows[i].text = cache[c][k].text

=============================================================================
