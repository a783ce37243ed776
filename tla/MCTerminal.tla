----------------------------- MODULE MCTerminal -----------------------------
(* Terminal on small instances: the history and the channel both overflow.  *)
EXTENDS Terminal

ASSUME SmallSizesOK == HistoryCapacity < MaxOutput /\ Capacity < MaxOutput
=============================================================================
