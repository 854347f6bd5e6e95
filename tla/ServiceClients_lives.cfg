SPECIFICATION FairSpec
CONSTANTS
  c1 = c1
  c2 = c2
  s1 = s1
  s2 = s2
  s3 = s3
  a1 = a1
  v1 = v1
  v2 = v2
  Clients = {c1, c2}
  Entries = {s1, s2, s3, a1, v1, v2}
  Services = {s1, s2, s3}
  Insecure = {s3}
  Profiles <- MCProfiles
  MaxLate = 1
  MaxCrashes = 1
INVARIANTS
  TypeOK
  AnnouncedIsListed
  ShutdownRemoves
PROPERTIES
  StopEnds
  StartRecovers
CHECK_DEADLOCK FALSE
