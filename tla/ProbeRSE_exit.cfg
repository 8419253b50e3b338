\* A thread the pass does not see, a site whose path panics, one spawn.
CONSTANTS
  Thread = {m, a, u}
  Main = m
  Untracked = {u}
  Unannounced = {}
  Silent = {a}
  Spawners = {m}
  Func = {f, g}
  SpawningSite = sp
  SpawnedSite = bn
  BadSites = {g}
  MaxActs = 3
  Permits = 1
SPECIFICATION Spec
INVARIANTS
  DumpAgreesWithScenario
  LoneExitIsDumped
