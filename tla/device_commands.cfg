SPECIFICATION FairSpec
CONSTANTS
  Procs = {"p1", "p2"}
  Providers = {"k1", "k2"}
  MountIds = {"m1", "m2"}
  Models = {"g0", "g1", "g2"}
  Baked = "g0"
  Profiles = {"a", "b"}
  Clients = {"c1", "c2", "c3"}
  Silent = {"c3"}
  MaxScripts = 2
  None = None
  Missing = Missing
  Empty = Empty
  Broken = Broken
  MaxOps = 3
  MaxFaults = 1
  MaxSpend = 2
  Menus = {{"cost set", "quiet-hours set"},
           {"cost set", "cost check", "cost reset"},
           {"cost check", "cost reset", "profile switch"},
           {"model set", "factory-reset"},
           {"mounts add", "mounts net-add", "mounts remove", "mounts apply"},
           {"network mode", "network allow", "network apply"},
           {"model register", "voice wake"},
           {"profile switch", "factory-reset", "reconcile", "up", "down"},
           {"relay"}}
INVARIANTS SettingsKept OneProfileRuns ResetKeepsItsWord PauseIsMarked
PROPERTY RelayServes
CHECK_DEADLOCK FALSE
