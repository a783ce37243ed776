\* One schedule and two editors: every edit against the ticker, with faults.
CONSTANTS
  Hello = Hello
  Bye = Bye
  Job1 = Job1
  Job2 = Job2
  Editor1 = Editor1
  Editor2 = Editor2
  Jobs = {Job1}
  Editors = {Editor1, Editor2}
  Bodies = {Hello, Bye}
  Creations <- SameText
  Patches <- AllPatches
  Snooze = 2
  Absent = Absent
  MaxTime = 4
  MaxEdits = 2
  MaxFaults = 1
SPECIFICATION Spec
SYMMETRY Symmetry
INVARIANTS OneRunPerArming Cadence CatchesUp
CHECK_DEADLOCK FALSE
