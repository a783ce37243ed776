---------------------------- MODULE LatestAnswer ----------------------------
(***************************************************************************)
(* What a list on the screen promises beside requests that overtake each   *)
(* other: it may lag behind what was asked last, but it never goes back to *)
(* an answer older than the one it has shown.                              *)
(***************************************************************************)
EXTENDS Integers

VARIABLES
  asked,   \* when the newest request was made
  shown    \* when the request was made whose answer is on the screen

Init == asked \in Int /\ shown \in Int /\ shown <= asked

Ask  == asked' \in Int /\ asked' > asked /\ shown' = shown
Show == shown' \in Int /\ shown' > shown /\ shown' <= asked /\ asked' = asked

Spec == Init /\ [][Ask \/ Show]_<<asked, shown>>
=============================================================================
