SPECIFICATION FairSpec
CONSTANTS
  s1 = s1
  s2 = s2
  Sensors = {s1, s2}
  Files <- SmallFiles
INVARIANT
  TypeOK
PROPERTIES
  ImplementsAllowList
  FollowsFile
  RefreshEnds
CHECK_DEADLOCK FALSE
