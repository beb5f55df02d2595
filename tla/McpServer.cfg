SPECIFICATION FairSpec
CONSTANTS
  g1 = g1
  g2 = g2
  p1 = p1
  p2 = p2
  c1 = c1
  apk = apk
  Main = Main
  None = None
  Absent = None
  Accepted = Accepted
  Failed = Failed
  Instances = {g1, g2}
  Ports = {p1, p2}
  Calls = {c1}
  Paths = {apk}
  Views <- MCViews
  MaxRevision <- MCRevision
  MaxSessions = 2
INVARIANTS TypeOK NewestIsShown ExchangeIsExact LatestIsFound SnapshotIsFollowed
PROPERTY EveryEndCompletes
CHECK_DEADLOCK FALSE
