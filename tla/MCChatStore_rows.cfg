SPECIFICATION Spec
CONSTANTS
  Chats = {c1, c2, c3}
  Handlers = {h1, h2}
  Absent = Absent
  Ops = {"fork", "truncate", "revert", "retry", "delete", "restore", "fault"}
  MaxCreated = 1
  MaxPrompts = 3
  MaxEvents = 1
  MaxSpent = 2
SYMMETRY Symmetry
INVARIANTS
  TypeOK
  SurvivesRestart
  RegistryMatches
CHECK_DEADLOCK FALSE
