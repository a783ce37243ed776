\* What is submitted, and a chat on the screen of either shell.
CONSTANTS
  None = None
  Failed = Failed
  w1 = w1
  w2 = w2
  Budgets <- SmallBudgets
  Root = Root
  Worktrees = {w1, w2}
  Kinds = {"remote"}
  PullRequests <- OnePull
  Widths = {1, 9}
  RailMin = 2
  RailMax = 5
  RailDefault = 3
  Names = {"a", "b", "c"}
  TakenName = "a"
  MaxConsole = 2
  Providers = {"p", "q"}
  Free = "free"
  Detected <- Detections
  Home = "home"
  Dirs = {"d"}
  Up <- HomeAbove
  Queued <- QueuedTwo
  Builtins = {"d", "l"}
  Default = "d"
  Customs = {"c"}
  Templates = {"p", "q"}
  MaxPrompts = 3
  MaxEvents = 4
  ScopeOf <- OneScope
  Attachments = {"f"}
  Models = {"m", "o"}
  Window = 1
  Page = 1
  Old = 2
  PaneMaxPrompts = 4
  PaneMaxEvents = 3
  MobileChats = {"c", "d"}
  Texts = {"hello"}
  History <- OneOld
  MaxCalls = 2
SPECIFICATION Spec
INVARIANTS
  
  VerdictIsTrue
  BusyHasAReason
  ThemeIsKnown
  
  TimelineIsCanonical
PROPERTIES
  SentStaysVisible
CHECK_DEADLOCK FALSE
