\* Main spawns one thread by an invoke of thread::spawn and one by a call of it.
CONSTANTS
  Thread = {m, a, b}
  Main = m
  Untracked = {}
  Unannounced = {b}
  Silent = {}
  Spawners = {m}
  Func = {f}
  SpawningSite = sp
  SpawnedSite = bn
  BadSites = {}
  MaxActs = 0
  Permits = 1
SPECIFICATION Spec
INVARIANTS
  UniqueTids
