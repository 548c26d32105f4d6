SPECIFICATION Spec
CONSTANTS
  Procs = {"p1"}
  Providers = {"k1"}
  MountIds = {"m1"}
  Models = {"g0"}
  Baked = "g0"
  Profiles = {"a", "b"}
  Clients = {"c1"}
  Silent = {}
  MaxScripts = 1
  None = None
  Missing = Missing
  Empty = Empty
  Broken = Broken
  MaxOps = 2
  MaxFaults = 1
  MaxSpend = 1
  Menus = {{"profile switch", "down", "up"}}
INVARIANT OneProfileAtATime
CHECK_DEADLOCK FALSE
