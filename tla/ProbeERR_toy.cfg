\* Main and two threads it spawns and joins; three threads one after the other,
\* the last of which panics; a thread the pass does not see that spawns one it
\* sees.  Every recording of a run cut anywhere.
CONSTANTS
  f = f
  g = g
  sp = sp
  Thread = {m, u, a, b}
  Main = m
  Untracked = {u}
  SpawningSite = sp
  SpawnedSite = bn
  Func = {f, g}
  BadSites = {g}
  Bodies <- SmallTargets
  Crashers <- LastOfChain
  Scenarios <- CutRecordings
  Permits = 1
SPECIFICATION FairSpec
INVARIANTS
  TypeOK
  OneSpawnInFlight
  PassesInTurn
  PassersAreMeant
  StarvesOnlyAtTheEnd
PROPERTIES
  NamesByLineage
  SequentialReplays
