------------------------------ MODULE Requests ------------------------------
(***************************************************************************)
(* What the panels of the desktop shell have in common: requests of the    *)
(* API client (core/api/client.ts) that the server answers at any later    *)
(* time, in any order, or fails, while the user goes on.                   *)
(*                                                                         *)
(* `view` is what a panel's component holds, `server` what the server (or  *)
(* the browser's storage) holds, `calls` the requests made and not yet     *)
(* taken.  A request is made, answered and taken in three steps; its `n`   *)
(* orders the requests by the time they were made.                         *)
(***************************************************************************)
EXTENDS Integers, Sequences, FiniteSets

CONSTANTS
  None,
  Failed      \* the answer of a request that came to nothing

VARIABLES
  view, server, calls,
  left        \* what is left of the behaviour's budget; left.asks bounds the
              \* requests, left.failures those that fail

panelVars == <<view, server, calls, left>>

Now == -left.asks

Spend(what) == left[what] > 0 /\ left' = [left EXCEPT ![what] = @ - 1]

Request(kind, arg) == [n |-> Now, kind |-> kind, arg |-> arg, reply |-> None]

Asks(kind, arg) == Spend("asks") /\ calls' = calls \cup {Request(kind, arg)}

\* One for each of `args` in the same step; they are told apart by their args.
AsksEach(kind, args) ==
  Spend("asks") /\ calls' = calls \cup {Request(kind, arg) : arg \in args}

\* The server answers: the state it answers from is that of this step.
Answers(r, reply) ==
  r \in calls /\ r.reply = None /\ calls' = (calls \ {r}) \cup {[r EXCEPT !.reply = reply]}

\* A lost connection, a status that is not ok.
Fails(r) == Answers(r, Failed) /\ Spend("failures") /\ UNCHANGED <<view, server>>

\* The code after an await goes on, and may ask again.
Takes(r, kind) == r \in calls /\ r.kind = kind /\ r.reply # None /\ calls' = calls \ {r}

TakesAskingEach(r, kind, next, args) ==
  /\ r \in calls /\ r.kind = kind /\ r.reply # None /\ Spend("asks")
  /\ calls' = (calls \ {r}) \cup {Request(next, arg) : arg \in args}

TakesAsking(r, kind, next, arg) == TakesAskingEach(r, kind, next, {arg})
=============================================================================
