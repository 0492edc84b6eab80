SPECIFICATION Spec
CONSTANTS
  s1 = s1
  s2 = s2
  c1 = c1
  c2 = c2
  hub1 = hub1
  none = none
  missing = missing
  None = none
  Missing = missing
  Sessions = {s1, s2}
  SubDirs <- MCSubDirs
  ShellCalls <- MCShellCalls
  ReadCalls <- MCReadCalls
  RecordSets <- MCRecordSets
  ToolRequests <- MCToolRequests
  PushRequests <- MCPushRequests
  RemoteUrls <- MCRemoteUrls
  Repositories <- MCRepositories
  Branches <- MCBranches
  DistroBranches <- MCDistroBranches
  Refspecs <- MCRefspecs
  OddPaths <- MCOddPaths
  StandardOwners <- MCStandardOwners
  Workspaces <- MCWorkspaces
  Limits <- MCLimits
  Lines <- MCLines
  MaxHooks = 2
INVARIANTS
  RoutedOrHostControl
  WrapsOnce
  WrappersTransparent
  ScannersAgree
  
  
  NextActionsCover
