SPECIFICATION PortalSpec
CONSTANTS
  MaxBeats = 2
  Threads = {t1, t2}
  Viewers = {t1, t2}
  Period = 2
  MaxCalls = 1
  KeyEnd = 2
  CacheLife = 2
  Horizon = 3
  MaxRequests = 4
  Serials = {"gw", "mesh", "other"}
  Stations = {s1}
  Venues = {"home", "away"}
  NoVenue = NoVenue
  Boards <- MCBoards
  Gateway = "gw"
  Zones = {z1}
  MaxChanges = 2
  NoZone = NoZone
  Deployments <- MCDeployments
INVARIANTS
  LimitHonest
  DroppedKeyRefused
  
PROPERTIES
  ImplementsFeed
  StopCompletes
CHECK_DEADLOCK FALSE
