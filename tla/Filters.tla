------------------------------ MODULE Filters ------------------------------
(***************************************************************************)
(* Array.prototype.filter, as a recursive function: SelectSeq, that the    *)
(* prover can expand.                                                      *)
(***************************************************************************)
EXTENDS Naturals, Sequences

Joined(q, x, kept) == IF x \in kept THEN Append(q, x) ELSE q

\* Those of a sequence that are in a set, in their order.
Only(s, kept) ==
  LET upTo[n \in 0..Len(s)] == IF n = 0 THEN <<>> ELSE Joined(upTo[n - 1], s[n], kept)
  IN  upTo[Len(s)]
=============================================================================
