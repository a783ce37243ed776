\* Three messages in two slots: sends, mode flips, run-next clicks and cancels,
\* under fairness.
CONSTANTS
  Msgs = {m1, m2, m3}
  Procs = {p1, p2}
  None = None
  Requests = {"send", "set_mode", "run_next", "cancel"}
  Faults = {}
  MaxDisruptions = 0
  MaxGuards = 2
SPECIFICATION FairSpec
INVARIANTS FlagNotLeaked NoStrandedRunning
PROPERTIES AutoDrains BusyEnds NoOvertaking
