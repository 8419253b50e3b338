\* The programs of .toy_bugs over a type whose guard's drop the pass knows, so
\* that unlocks are probed too: every failing run of them, every replay of it.
CONSTANTS
  Thread = {m, a, b}
  Main = m
  Untracked = {}
  SpawningSite = "spawning"
  SpawnedSite = "spawned"
  Func = {"check", "checked", "take", "taken", "put", "done1", "get", "done2"}
  BadSites = {}
  Bodies <- Toys
  Crashers = {}
  Scenarios <- NoScenario
  Permits = 1
SPECIFICATION RRSpec
INVARIANTS
  SectionsAlike
  PanicsAlike
