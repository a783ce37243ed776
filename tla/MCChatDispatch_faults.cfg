\* Every request and one fault or chat deletion.
CONSTANTS
  Msgs = {m1, m2}
  Procs = {p1, p2}
  None = None
  Requests = {"send", "add_prompt", "enqueue", "cancel", "set_mode", "run_next", "dispatch_item", "retry", "stop", "delete", "restore"}
  Faults = {"crash", "panic", "disconnect", "db", "stale_session"}
  MaxDisruptions = 1
  MaxGuards = 2
SYMMETRY Symmetry
SPECIFICATION Spec
INVARIANTS TypeOK NothingLost AtMostOncePlusFaults OneTurnAtATime NoDoublePop
