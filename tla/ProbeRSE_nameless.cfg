\* Two threads the pass does not see, both spawning.
CONSTANTS
  Thread = {m, u, v, a, b}
  Main = m
  Untracked = {u, v}
  Unannounced = {}
  Silent = {}
  Spawners = {u, v}
  Func = {f}
  SpawningSite = sp
  SpawnedSite = bn
  BadSites = {}
  MaxActs = 0
  Permits = 1
SPECIFICATION Spec
INVARIANTS
  UniqueTids
