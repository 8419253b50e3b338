\* Both targets of .toy_bugs with the probes the pass plants in them: those of
\* the locks, none at the unlocks.
CONSTANTS
  Thread = {m, a, b}
  Main = m
  Untracked = {}
  SpawningSite = "spawning"
  SpawnedSite = "spawned"
  Func = {"check", "take", "put", "get"}
  BadSites = {}
  Bodies <- Toys
  Crashers = {}
  Scenarios <- NoScenario
  Permits = 1
SPECIFICATION RRSpec
INVARIANTS
  LocksInRecordedOrder
