SPECIFICATION Spec
CONSTANTS
  Chats = {c1, c2, c3}
  Handlers = {h1}
  Absent = Absent
  Ops = {"fork", "truncate"}
  MaxCreated = 1
  MaxPrompts = 4
  MaxEvents = 1
  MaxSpent = 2
SYMMETRY Symmetry
INVARIANT HistoryNotWiped
CHECK_DEADLOCK FALSE
