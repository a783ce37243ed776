\* The surfaces of the desktop shell that are moved about in.
CONSTANTS
  None = None
  Failed = Failed
  P = P
  Q = Q
  wt = wt
  a = a
  b = b
  Near = Near
  Far = Far
  Budgets <- SmallBudgets
  Projects = {P, Q}
  WorktreesOf <- RouteWorktrees
  ChatsOf <- RouteChats
  MaxHistory = 5
  MaxRemovals = 1
  Keys = {Near, Far}
  DialogRows <- TwoRows
  Hits <- OneHit
  Top = "top"
  Folders = {"d"}
  Files = {"f", "g"}
  Parent <- ParentOf
  ChangeScopes = {"s", "t"}
  Paths = {"f", "g"}
  MaxContent = 2
  SavedConns <- SavedTwo
  NewIds <- FreshOne
  Dbs <- TwoDbs
  Tables = {"t"}
  Viewport = 2
  PageHeight = 1
  Pages = 2
  Tools = {"t"}
  MaxText = 2
SPECIFICATION Spec
INVARIANTS
  UrlNamesTheView
  
  LoadingHasAReason
  StaysAsLeft
PROPERTIES
  BackShowsTheScope
  NeverGoesBack
CHECK_DEADLOCK FALSE
