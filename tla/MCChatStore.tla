---------------------------- MODULE MCChatStore ----------------------------
(***************************************************************************)
(* Instances of ChatStore for TLC.                                         *)
(***************************************************************************)
EXTENDS ChatStore

Symmetry == Permutations(Chats) \cup Permutations(Handlers)

=============================================================================
