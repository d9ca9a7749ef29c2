SPECIFICATION Spec
CONSTANTS
  Threads = {t1, t2}
  s1 = s1
  s2 = s2
  m1 = m1
  g1 = g1
  Ssids = {s1, s2}
  Macs = {m1}
  GroupRules = {g1}
  MeshDevices = {d1}
  NoSsid = NoSsid
  BadSsid = BadSsid
  NoRaw = NoRaw
  Jobs <- RecoveryJobs
  InitialShapes = {"ap"}
  MaxRequests = 3
INVARIANTS
  OkMeansCompleted
CHECK_DEADLOCK FALSE
SYMMETRY ThreadSymmetry
