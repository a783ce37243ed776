SPECIFICATION Spec
CONSTANTS
  path1 = path1
  path2 = path2
  feat_x = feat_x
  feat_x_slash = feat_x_slash
  fix_y = fix_y
  client1 = client1
  client2 = client2
  Paths <- MCPaths
  Branches <- MCBranches
  DirOf <- MCDirOf
  Handlers <- MCHandlers
  Absent = Absent
  MaxRequests = 4
  MaxFaults = 1
SYMMETRY HandlerSymmetry
CONSTRAINT FewRequests
INVARIANTS
  Attended
  RowsMatchDisk
  WorkIsKept
CHECK_DEADLOCK FALSE
