\* Two schedules with the same text, a queue that moves, one fault, a fair ticker.
CONSTANTS
  Hello = Hello
  Bye = Bye
  Job1 = Job1
  Job2 = Job2
  Editor1 = Editor1
  Editor2 = Editor2
  Jobs = {Job1, Job2}
  Editors = {}
  Bodies = {Hello, Bye}
  Creations <- SameText
  Patches <- TextPatch
  Snooze = 2
  Absent = Absent
  MaxTime = 4
  MaxEdits = 0
  MaxFaults = 1
SPECIFICATION FairSpec
 
PROPERTIES DueIsServed
CHECK_DEADLOCK FALSE
