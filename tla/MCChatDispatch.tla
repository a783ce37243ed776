--------------------------- MODULE MCChatDispatch ---------------------------
(* ChatDispatch on small instances.  The cfg files give the messages, the   *)
(* slots, the requests the clients issue and the faults that occur.         *)
EXTENDS ChatDispatch, TLC

\* Messages and slots are interchangeable in every safety property.
Symmetry == Permutations(Msgs) \cup Permutations(Procs)
=============================================================================
