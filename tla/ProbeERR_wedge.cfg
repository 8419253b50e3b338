\* Main and two threads it spawns and joins; every recording of a whole run.
CONSTANTS
  f = f
  g = g
  sp = sp
  Thread = {m, a, b}
  Main = m
  Untracked = {}
  SpawningSite = sp
  SpawnedSite = bn
  Func = {f, g}
  BadSites = {}
  Bodies <- JustToy
  Crashers <- Nowhere
  Scenarios <- Recordings
  Permits = 1
SPECIFICATION FairSpec
PROPERTIES
  ReplayCompletes
