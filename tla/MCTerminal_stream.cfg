\* One client beside the poller; the channel and the history both overflow.
CONSTANTS
  Sockets = {s1}
  Capacity = 1
  HistoryCapacity = 2
  MaxOutput = 4
SPECIFICATION FairSpec
INVARIANTS NoGap PollExact
PROPERTIES ExitTold
CHECK_DEADLOCK FALSE
