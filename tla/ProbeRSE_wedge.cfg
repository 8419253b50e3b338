\* Two threads that spawn, one of them twice.
CONSTANTS
  Thread = {m, a, b, c, d}
  Main = m
  Untracked = {}
  Unannounced = {}
  Silent = {}
  Spawners = {m, a}
  Func = {f}
  SpawningSite = sp
  SpawnedSite = bn
  BadSites = {}
  MaxActs = 0
  Permits = 1
SPECIFICATION Spec
SYMMETRY Symmetry
INVARIANTS
  SomeSpawnerAllowed
