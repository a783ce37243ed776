\* Sends alone make two turns overlap.
CONSTANTS
  Msgs = {m1, m2, m3}
  Procs = {p1, p2, p3}
  None = None
  Requests = {"send"}
  Faults = {}
  MaxDisruptions = 0
  MaxGuards = 2
SPECIFICATION Spec
CHECK_DEADLOCK FALSE
INVARIANT NeverTwoTurns
