--------------------------- MODULE MCTopicStream ---------------------------
(* TopicStream on small instances.  The ring is shorter than the channel,   *)
(* as in the code (512 against 1024), and both are overrun.                 *)
EXTENDS TopicStream

ASSUME SmallSizesOK == HistoryCapacity < Capacity /\ Capacity < MaxPublished
=============================================================================
