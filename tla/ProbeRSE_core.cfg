\* Main and a child both spawn; one child may run no _probe_spawned_.
CONSTANTS
  Thread = {m, a, b}
  Main = m
  Untracked = {}
  Unannounced = {}
  Silent = {b}
  Spawners = {m, a}
  Func = {f}
  SpawningSite = sp
  SpawnedSite = bn
  BadSites = {}
  MaxActs = 1
  Permits = 1
SPECIFICATION FairSpec
INVARIANTS
  TypeOK
  OneSpawnInFlight
  UniqueTids
  ScenarioKeepsProgramOrder
  StructureKeepsProgramOrder
  SpawningPrecedesChild
  AtMostPermits
  CountPaysWaiters
  LoneWaiterIsWoken
PROPERTIES
  NamesByLineage
  PermitComesBack
  SpawnerGetsIn
