\* Two publishers and a client that may fall behind, reconnect and lag twice.
CONSTANTS
  Sockets = {s1}
  Publishers = {p1, p2}
  Capacity = 3
  HistoryCapacity = 2
  MaxPublished = 7
SPECIFICATION FairSpec
INVARIANTS NoGap NoRepeats
PROPERTIES Delivers
CHECK_DEADLOCK FALSE
