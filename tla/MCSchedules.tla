---------------------------- MODULE MCSchedules ----------------------------
(* Schedules on small instances: what the clients may create and ask for.   *)
EXTENDS Schedules, TLC

CONSTANTS Hello, Bye, Job1, Job2

CONSTANTS Editor1, Editor2

\* Editors are interchangeable.
Symmetry == Permutations({Editor1, Editor2})

NoChange == [body |-> Absent, every |-> Absent, next |-> Absent, on |-> Absent]

\* A recurring and a one-time schedule with the same text.
SameText == {[body |-> Hello, every |-> 2, next |-> 0], [body |-> Hello, every |-> 0, next |-> 2]}

\* An edit of the text, of the interval, of the time (with the null interval
\* that clients send along); pause and resume.
AllPatches ==
  {[NoChange EXCEPT !.body = Bye], [NoChange EXCEPT !.every = 3],
   [NoChange EXCEPT !.every = 0, !.next = 3], [NoChange EXCEPT !.on = FALSE],
   [NoChange EXCEPT !.on = TRUE]}

TextPatch == {[NoChange EXCEPT !.body = Bye]}
=============================================================================
