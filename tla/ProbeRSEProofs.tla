--------------------------- MODULE ProbeRSEProofs ---------------------------
(***************************************************************************)
(* What holds of the recorder for any number of threads, spawners, sites    *)
(* and any bound on the probes a thread runs.                               *)
(*                                                                         *)
(* The proof is in layers, each on top of those before it.                  *)
(*   Base: the semaphore's invariant, and that the threads inside a spawn   *)
(*     are covered by the one permit.                                       *)
(*   Types.                                                                 *)
(*   Names: what the unsynchronised static _PROBE_NEW_THREAD_ID holds while *)
(*     a spawn is under way; Base keeps a second spawn from overwriting it. *)
(*   Scenario: the log counts a parent's spawnings ahead of its children.   *)
(*   Program order: read by name, the log and the node groups hold what a   *)
(*     thread has done; Names is what keeps two threads' records apart.     *)
(*   Dump and exit: what _final_ leaves on disk, and whose it is.           *)
(***************************************************************************)
EXTENDS ProbeRSE, ProbeSemaphoreProofs, SequenceTheorems, Recursion

-----------------------------------------------------------------------------
(* Base.                                                                    *)

WindowPC == {"recordSpawning", "name", "noteSpawning", "spawn", "born", "inc"}

BaseInv ==
  /\ SemInv
  /\ pc \in [Thread -> PC]
  /\ \A t \in Thread : pc[t] \in WindowPC => granted > 0
  /\ \A t, u \in Thread : pc[t] \in WindowPC /\ pc[u] \in WindowPC => t = u

LEMMA BaseInit == Init => BaseInv
BY SemInitInv DEF Init, BaseInv, PC, WindowPC

\* A step that leaves the semaphore alone and starts no spawn.
LEMMA QuietKeepsBase ==
  ASSUME BaseInv, UNCHANGED semVars, NEW t \in Thread, NEW label \in PC,
         Goto(t, label), label \in WindowPC => pc[t] \in WindowPC
  PROVE  BaseInv'
<1>1. SemInv'
  BY DEF BaseInv, SemInv, SemTypeOK, CountPaysWaiters, AtMostPermits, Waiting,
         semVars
<1>2. QED
  BY <1>1 DEF BaseInv, Goto, semVars

\* dec returned: the permit was free, so nobody was inside a spawn.
LEMMA GrantKeepsBase ==
  ASSUME BaseInv, SemInv', granted' = granted + 1, NEW t \in Thread,
         NEW label \in PC, Goto(t, label)
  PROVE  BaseInv'
<1>1. granted \in Nat /\ granted' <= 1
  BY RecorderAssumption DEF BaseInv, SemInv, SemTypeOK, AtMostPermits
<1>2. \A u \in Thread : pc[u] \notin WindowPC
  BY <1>1 DEF BaseInv
<1>3. QED
  BY <1>1, <1>2 DEF BaseInv, Goto

LEMMA BaseStep ==
  ASSUME Unannounced = {}, BaseInv, [Next]_vars
  PROVE  BaseInv'
<1>1. ASSUME NEW t \in Thread, RecordScenario(t) PROVE BaseInv'
  <2>1. /\ pc[t] \in {"record", "recordSpawning", "recordSpawned"}
        /\ AfterRecord[pc[t]] \in PC
        /\ AfterRecord[pc[t]] \in WindowPC => pc[t] \in WindowPC
    BY <1>1 DEF RecordScenario, AfterRecord, PC, WindowPC
  <2>2. QED
    BY <1>1, <2>1, QuietKeepsBase DEF RecordScenario
<1>2. ASSUME NEW t \in Thread, RecordStructure(t) PROVE BaseInv'
  <2>1. /\ AfterNote[pc[t]] \in PC
        /\ AfterNote[pc[t]] \in WindowPC => pc[t] \in WindowPC
    BY <1>2 DEF RecordStructure, AfterNote, PC, WindowPC
  <2>2. QED
    BY <1>2, <2>1, QuietKeepsBase DEF RecordStructure
<1>3. ASSUME NEW t \in Thread, NEW f \in Func, ProbeCall(t, f) PROVE BaseInv'
  <2>1. ProbeEntry \in PC /\ ProbeEntry \notin WindowPC
    BY DEF ProbeEntry, PC, WindowPC
  <2>2. QED
    BY <1>3, <2>1, QuietKeepsBase DEF ProbeCall
<1>4. ASSUME NEW t \in Thread, SpawningDec(t) PROVE BaseInv'
  <2>1. CASE DecPasses(t) /\ Goto(t, AfterDec)
    <3>1. SemInv' /\ granted' = granted + 1 /\ AfterDec \in PC
      BY <2>1, DecPassesKeepsInv DEF BaseInv, DecPasses, AfterDec, PC
    <3>2. QED
      BY <2>1, <3>1, GrantKeepsBase
  <2>2. CASE DecBlocks(t) /\ Goto(t, "dec")
    <3>1. SemInv' /\ granted' = granted
      BY <2>2, DecBlocksKeepsInv DEF BaseInv, DecBlocks
    <3>2. QED
      BY <2>2, <3>1 DEF BaseInv, Goto, PC, WindowPC
  <2>3. QED
    BY <1>4, <2>1, <2>2 DEF SpawningDec
<1>5. ASSUME NEW t \in Thread, SpawningRetest(t) PROVE BaseInv'
  <2>1. CASE RetestPasses(t) /\ Goto(t, AfterDec)
    <3>1. SemInv' /\ granted' = granted + 1 /\ AfterDec \in PC
      BY <2>1, RetestPassesKeepsInv DEF BaseInv, RetestPasses, AfterDec, PC
    <3>2. QED
      BY <2>1, <3>1, GrantKeepsBase
  <2>2. CASE RetestBlocks(t) /\ UNCHANGED pc
    BY <2>2, RetestBlocksKeepsInv DEF BaseInv, RetestBlocks
  <2>3. QED
    BY <1>5, <2>1, <2>2 DEF SpawningRetest
<1>6. ASSUME NEW t \in Thread, SpawningSpuriousWake(t) PROVE BaseInv'
  BY <1>6, SpuriousWakeKeepsInv DEF SpawningSpuriousWake, BaseInv, SpuriousWake
<1>7. ASSUME NEW t \in Thread, SpawningName(t) PROVE BaseInv'
  BY <1>7, QuietKeepsBase DEF SpawningName, PC, WindowPC
<1>8. ASSUME NEW p \in Thread, NEW c \in Thread, ThreadSpawn(p, c)
      PROVE  BaseInv'
  <2>1. PICK first \in FirstSteps(c) :
          /\ UNCHANGED semVars /\ pc[p] = "spawn" /\ c # p
          /\ pc' = [pc EXCEPT ![p] = "run", ![c] = first]
    BY <1>8 DEF ThreadSpawn, Unborn
  <2>0. first \in {"run", "born"}
    BY DEF FirstSteps
  <2>2. SemInv'
    BY <2>1 DEF BaseInv, SemInv, SemTypeOK, CountPaysWaiters, AtMostPermits,
                Waiting, semVars
  <2>3. \A u \in Thread : pc'[u] \in WindowPC => u = c
    BY <2>0, <2>1 DEF BaseInv, WindowPC
  <2>4. granted' > 0
    BY <2>1 DEF BaseInv, WindowPC, semVars
  <2>5. pc' \in [Thread -> PC]
    BY <2>0, <2>1 DEF BaseInv, PC
  <2>6. QED
    BY <2>2, <2>3, <2>4, <2>5 DEF BaseInv
<1>9. ASSUME NEW p \in Thread, NEW c \in Thread, UninstrumentedSpawn(p, c)
      PROVE  BaseInv'
  BY <1>9, QuietKeepsBase DEF UninstrumentedSpawn, PC, WindowPC
<1>10. ASSUME NEW c \in Thread, SpawnedTakeTid(c) PROVE BaseInv'
  BY <1>10, QuietKeepsBase DEF SpawnedTakeTid, AfterTakeTid, PC, WindowPC
<1>11. ASSUME NEW c \in Thread, SpawnedInc(c) PROVE BaseInv'
  <2>1. pc[c] = "inc" /\ Inc /\ Goto(c, "recordSpawned")
    BY <1>11 DEF SpawnedInc
  <2>2. granted > 0
    BY <2>1 DEF BaseInv, WindowPC
  <2>3. SemInv'
    BY <2>1, <2>2, IncKeepsInv DEF BaseInv
  <2>4. \A u \in Thread : pc'[u] \notin WindowPC
    BY <2>1 DEF BaseInv, Goto, WindowPC
  <2>5. pc' \in [Thread -> PC]
    BY <2>1 DEF BaseInv, Goto, PC
  <2>6. QED
    BY <2>3, <2>4, <2>5 DEF BaseInv
<1>12. ASSUME NEW c \in Thread, SpawnedOpen(c) PROVE BaseInv'
  BY <1>12, QuietKeepsBase DEF SpawnedOpen, PC, WindowPC
<1>13. ASSUME NEW t \in Thread, ThreadEnd(t) PROVE BaseInv'
  BY <1>13, QuietKeepsBase DEF ThreadEnd, PC, WindowPC
<1>14. ASSUME NEW t \in Thread, Exit(t) PROVE BaseInv'
  BY <1>14, QuietKeepsBase DEF Exit, PC, WindowPC
<1>15. ASSUME NEW t \in Thread, RunHandlers(t) PROVE BaseInv'
  BY <1>15, QuietKeepsBase DEF RunHandlers, PC, WindowPC
<1>16. ASSUME NEW t \in Thread, Final(t) PROVE BaseInv'
  BY <1>16, QuietKeepsBase DEF Final, PC, WindowPC
<1>17. ASSUME UNCHANGED <<semVars, pc>> PROVE BaseInv'
  BY <1>17 DEF BaseInv, SemInv, SemTypeOK, CountPaysWaiters, AtMostPermits,
               Waiting, semVars
<1>18. ASSUME NEW t \in Thread, Die(t) PROVE BaseInv'
  BY <1>17, <1>18 DEF Die
<1>19. CASE UNCHANGED vars
  BY <1>17, <1>19 DEF vars
<1>20. QED
  BY <1>1, <1>2, <1>3, <1>4, <1>5, <1>6, <1>7, <1>8, <1>9, <1>10, <1>11,
     <1>12, <1>13, <1>14, <1>15, <1>16, <1>18, <1>19
  DEF Next, ProbeStep, TargetStep, Gone

\* The permit covers every spawn under way.
THEOREM BaseInvariant ==
  ASSUME Unannounced = {} PROVE Spec => []BaseInv
<1>1. QED
  BY BaseInit, BaseStep, PTL DEF Spec

\* "allow only 1 thread" (probe_RSE.rs:50): from the parent's dec to the
\* child's inc one spawn at most is under way, so that nobody else writes the
\* static _PROBE_NEW_THREAD_ID in between.
THEOREM SpawnsAreExclusive ==
  ASSUME Unannounced = {} PROVE Spec => []OneSpawnInFlight
<1>1. BaseInv => OneSpawnInFlight
  <2> SUFFICES ASSUME BaseInv PROVE Cardinality(Window) <= 1
    BY DEF OneSpawnInFlight
  <2>1. CASE Window = {}
    BY <2>1, FS_EmptySet
  <2>2. CASE Window # {}
    <3>1. PICK t \in Window : TRUE
      BY <2>2
    <3>2. Window = {t}
      BY <3>1 DEF BaseInv, Window, WindowPC
    <3>3. Cardinality({t}) = 1
      BY FS_Singleton
    <3>4. QED
      BY <3>2, <3>3
  <2>3. QED
    BY <2>1, <2>2
<1>2. QED
  BY <1>1, BaseInvariant, PTL

\* The same for the permit itself, inside the recorder: grants never exceed it
\* and count pays for grants and waiters (probe_RSE.rs:269-288).
THEOREM RecorderKeepsPermit ==
  ASSUME Unannounced = {} PROVE Spec => []AtMostPermits /\ []CountPaysWaiters
<1>1. BaseInv => AtMostPermits /\ CountPaysWaiters
  BY DEF BaseInv, SemInv
<1>2. QED
  BY <1>1, BaseInvariant, PTL

\* The recorder implements the semaphore's specification, in which inc only
\* returns what dec granted: the probe that runs inc was announced by one that
\* ran dec (probe_RSE.rs:136-138, 161-163).
THEOREM RecorderUsesSemaphore ==
  ASSUME Unannounced = {} PROVE Spec => SemSpec
<1>1. Init => SemInit
  BY DEF Init
<1>2. BaseInv /\ [Next]_vars => [SemNext]_semVars
  <2> SUFFICES ASSUME BaseInv, [Next]_vars PROVE [SemNext]_semVars
    OBVIOUS
  <2>1. ASSUME NEW t \in Thread, SpawningDec(t) PROVE [SemNext]_semVars
    BY <2>1 DEF SpawningDec, SemNext
  <2>2. ASSUME NEW t \in Thread, SpawningRetest(t) PROVE [SemNext]_semVars
    BY <2>2 DEF SpawningRetest, SemNext
  <2>3. ASSUME NEW t \in Thread, SpawningSpuriousWake(t)
        PROVE  [SemNext]_semVars
    BY <2>3 DEF SpawningSpuriousWake, SemNext
  <2>4. ASSUME NEW t \in Thread, SpawnedInc(t) PROVE [SemNext]_semVars
    BY <2>4 DEF SpawnedInc, SemNext, BaseInv, WindowPC
  <2>5. ASSUME NEW t \in Thread,
               \/ RecordScenario(t) \/ RecordStructure(t) \/ SpawningName(t)
               \/ \E c \in Thread : ThreadSpawn(t, c)
               \/ SpawnedTakeTid(t) \/ SpawnedOpen(t)
        PROVE  UNCHANGED semVars
    BY <2>5 DEF RecordScenario, RecordStructure, SpawningName, ThreadSpawn,
       SpawnedTakeTid, SpawnedOpen
  <2>6. ASSUME NEW t \in Thread,
               \/ RunHandlers(t) \/ Final(t) \/ Die(t)
               \/ \E f \in Func : ProbeCall(t, f)
               \/ \E c \in Thread : UninstrumentedSpawn(t, c)
               \/ ThreadEnd(t) \/ Exit(t)
        PROVE  UNCHANGED semVars
    BY <2>6 DEF RunHandlers, Final, Die, ProbeCall, UninstrumentedSpawn,
       ThreadEnd, Exit
  <2>7. CASE UNCHANGED vars
    BY <2>7 DEF vars
  <2>8. QED
    BY <2>1, <2>2, <2>3, <2>4, <2>5, <2>6, <2>7
    DEF Next, ProbeStep, TargetStep, Gone
<1>3. QED
  BY <1>1, <1>2, BaseInvariant, PTL DEF Spec, SemSpec

\* Hence a spawner that waits alone is awake once the permit is back
\* (probe_RSE.rs:278-287).
THEOREM RecorderWakesLoneWaiter ==
  ASSUME Unannounced = {} PROVE Spec => []LoneWaiterIsWoken
<1>1. Permits = 1
  BY RecorderAssumption
<1>2. QED
  BY <1>1, RecorderUsesSemaphore, LoneWaiterWakes, PTL

-----------------------------------------------------------------------------
(* Types.                                                                   *)

Record == Seq(Nat) \X Site

\* A name or a node of a thread has its type whatever the thread.
LEMMA RecordType ==
  ASSUME TypeOK, NEW t \in Thread
  PROVE  /\ <<tid[t], act[t]>> \in Record
         /\ NodeOf(t) \in Record
         /\ tid[t] \in Seq(Nat) /\ act[t] \in Site
BY DEF TypeOK, Record, NodeOf

LEMMA TypeInit == Init => TypeOK
<1> SUFFICES ASSUME Init PROVE TypeOK
  OBVIOUS
<1>1. None \in Seq(Nat) /\ MainTid \in Seq(Nat)
  BY DEF None, MainTid
<1>2. exe \in Seq(Seq(Record)) /\ Len(exe) = 1 /\ log \in Seq(Record)
  BY DEF Init
<1>3. acts \in [Thread -> Seq(Site)]
  BY DEF Init
<1>4. SemTypeOK
  BY SemInitInv DEF Init, SemInv
<1>5. /\ pc \in [Thread -> PC] /\ act \in [Thread -> Site]
      /\ tid \in [Thread -> Seq(Nat)] /\ lineage \in [Thread -> Seq(Nat)]
      /\ childId \in [Thread -> Nat] /\ kids \in [Thread -> Nat]
      /\ newTid \in Seq(Nat)
  BY <1>1 DEF Init, PC, Site
<1>6. exeNode \in [Thread -> Nat \ {0}] /\ \A t \in Thread : exeNode[t] <= Len(exe)
  BY <1>2 DEF Init
<1>7. /\ recording \in BOOLEAN /\ handler \in BOOLEAN /\ dead \in BOOLEAN
      /\ structFile = NoFile
  BY DEF Init, AtExitRegistered
<1>8. QED
  BY <1>2, <1>3, <1>4, <1>5, <1>6, <1>7 DEF TypeOK, Record

\* One push into an open group of nodes.
LEMMA PushNode ==
  ASSUME NEW groups \in Seq(Seq(Record)), NEW n \in 1 .. Len(groups),
         NEW r \in Record
  PROVE  /\ [groups EXCEPT ![n] = Append(@, r)] \in Seq(Seq(Record))
         /\ Len([groups EXCEPT ![n] = Append(@, r)]) = Len(groups)
<1>1. groups[n] \in Seq(Record)
  BY ElementOfSeq
<1>2. Append(groups[n], r) \in Seq(Record)
  BY <1>1, AppendProperties
<1>3. QED
  BY <1>2, ExceptSeq

LEMMA TypeStep ==
  ASSUME TypeOK, BaseInv, BaseInv', [Next]_vars
  PROVE  TypeOK'
<1>0. SemTypeOK' /\ pc' \in [Thread -> PC]
  BY DEF BaseInv, SemInv
<1>1. ASSUME NEW t \in Thread, RecordScenario(t) PROVE TypeOK'
  <2>1. log \in Seq(Record) /\ <<tid[t], act[t]>> \in Record
    BY RecordType DEF TypeOK, Record
  <2>2. log' \in Seq(Record)
    BY <1>1, <2>1, AppendProperties DEF RecordScenario
  <2>3. QED
    BY <1>0, <1>1, <2>2
    DEF TypeOK, RecordScenario, Record, tlsVars, ghostVars
<1>2. ASSUME NEW t \in Thread, RecordStructure(t) PROVE TypeOK'
  <2>1. /\ exe \in Seq(Seq(Record)) /\ NodeOf(t) \in Record
        /\ exeNode[t] \in 1 .. Len(exe)
    <3>1. exe \in Seq(Seq(Record)) /\ Len(exe) \in Nat
      BY LenProperties DEF TypeOK, Record
    <3>2. NodeOf(t) \in Record
      BY RecordType
    <3>3. exeNode[t] \in Nat \ {0} /\ exeNode[t] <= Len(exe)
      BY DEF TypeOK
    <3>4. QED
      BY <3>1, <3>2, <3>3
  <2>2. exe' \in Seq(Seq(Record)) /\ Len(exe') = Len(exe)
    BY <1>2, <2>1, PushNode DEF RecordStructure
  <2>3. QED
    BY <1>0, <1>2, <2>2
    DEF TypeOK, RecordStructure, Record, tlsVars, ghostVars
<1>3. ASSUME NEW t \in Thread, NEW s \in Site, Reach(t, s), TypeOK
      PROVE  act' \in [Thread -> Site] /\ acts' \in [Thread -> Seq(Site)]
  BY <1>3 DEF Reach, TypeOK
<1>4. ASSUME NEW t \in Thread, NEW f \in Func, ProbeCall(t, f) PROVE TypeOK'
  BY <1>0, <1>3, <1>4
  DEF TypeOK, ProbeCall, Site, tlsVars, ghostVars, fileVars
<1>5. ASSUME NEW t \in Thread, SpawningDec(t) PROVE TypeOK'
  BY <1>0, <1>3, <1>5
  DEF TypeOK, SpawningDec, Site, tlsVars, ghostVars, fileVars
<1>6. ASSUME NEW t \in Thread, SpawningRetest(t) PROVE TypeOK'
  BY <1>0, <1>6 DEF TypeOK, SpawningRetest, tlsVars, ghostVars, fileVars
<1>7. ASSUME NEW t \in Thread, SpawningSpuriousWake(t) PROVE TypeOK'
  BY <1>0, <1>7 DEF TypeOK, SpawningSpuriousWake, tlsVars, ghostVars, fileVars
<1>8. ASSUME NEW t \in Thread, SpawningName(t) PROVE TypeOK'
  <2>1. NextTid(t) \in Seq(Nat) /\ NextChild(childId[t]) \in Nat
    BY AppendProperties DEF TypeOK, NextTid, NextChild, ChildTid
  <2>2. QED
    BY <1>0, <1>8, <2>1 DEF TypeOK, SpawningName, fileVars, ghostVars
<1>9. ASSUME NEW p \in Thread, NEW c \in Thread, ThreadSpawn(p, c)
      PROVE  TypeOK'
  <2>1. ChildTid(lineage[p], kids[p] + 1) \in Seq(Nat) /\ kids[p] + 1 \in Nat
    BY AppendProperties DEF TypeOK, ChildTid
  <2>2. QED
    BY <1>0, <1>9, <2>1 DEF TypeOK, ThreadSpawn, tlsVars, fileVars
<1>10. ASSUME NEW p \in Thread, NEW c \in Thread, UninstrumentedSpawn(p, c)
       PROVE  TypeOK'
  BY <1>0, <1>10 DEF TypeOK, UninstrumentedSpawn, tlsVars, ghostVars, fileVars
<1>11. ASSUME NEW c \in Thread, SpawnedTakeTid(c) PROVE TypeOK'
  BY <1>0, <1>3, <1>11 DEF TypeOK, SpawnedTakeTid, Site, ghostVars, fileVars
<1>12. ASSUME NEW c \in Thread, SpawnedInc(c) PROVE TypeOK'
  BY <1>0, <1>12 DEF TypeOK, SpawnedInc, tlsVars, ghostVars, fileVars
<1>13. ASSUME NEW c \in Thread, SpawnedOpen(c) PROVE TypeOK'
  <2>1. CASE recording
    <3>1. exe \in Seq(Seq(Record)) /\ <<>> \in Seq(Record) /\ Len(exe) \in Nat
      BY EmptySeq, LenProperties DEF TypeOK, Record
    <3>2. exe' = Append(exe, <<>>) /\ exeNode' = [exeNode EXCEPT ![c] = NewGroup]
      BY <1>13, <2>1 DEF SpawnedOpen
    <3>3. exe' \in Seq(Seq(Record)) /\ Len(exe') = Len(exe) + 1
      BY <3>1, <3>2, AppendProperties
    <3>4. exeNode' \in [Thread -> Nat \ {0}]
          /\ \A t \in Thread : exeNode'[t] <= Len(exe')
      BY <3>1, <3>2, <3>3 DEF TypeOK, NewGroup
    <3>5. QED
      BY <1>0, <1>13, <3>3, <3>4 DEF TypeOK, SpawnedOpen, Record, ghostVars
  <2>2. CASE ~recording
    BY <1>0, <1>13, <2>2 DEF TypeOK, SpawnedOpen, ghostVars
  <2>3. QED
    BY <2>1, <2>2 DEF TypeOK
<1>14. ASSUME NEW t \in Thread, ThreadEnd(t) \/ Exit(t) PROVE TypeOK'
  BY <1>0, <1>14 DEF TypeOK, ThreadEnd, Exit, tlsVars, ghostVars, fileVars
<1>15. ASSUME NEW t \in Thread, RunHandlers(t) PROVE TypeOK'
  BY <1>0, <1>15 DEF TypeOK, RunHandlers, tlsVars, ghostVars, fileVars
<1>16. ASSUME NEW t \in Thread, Final(t) PROVE TypeOK'
  BY <1>0, <1>16 DEF TypeOK, Final, tlsVars, ghostVars
<1>17. ASSUME NEW t \in Thread, Die(t) PROVE TypeOK'
  BY <1>0, <1>17 DEF TypeOK, Die, tlsVars, ghostVars, fileVars
<1>18. CASE UNCHANGED vars
  BY <1>0, <1>18 DEF TypeOK, vars, tlsVars, ghostVars, fileVars
<1>19. QED
  BY <1>1, <1>2, <1>4, <1>5, <1>6, <1>7, <1>8, <1>9, <1>10, <1>11, <1>12,
     <1>13, <1>14, <1>15, <1>16, <1>17, <1>18
  DEF Next, ProbeStep, TargetStep, Gone

\* Type correctness of the recorder; with it, a thread's EXE_NODE_ID is always
\* the index of an open group, so the push of __record_thread_structure never
\* panics on its index (probe_RSE.rs:175-176, 216).
THEOREM TypeCorrect ==
  ASSUME Unannounced = {} PROVE Spec => []TypeOK
<1>1. BaseInv /\ BaseInv' /\ TypeOK /\ [Next]_vars => TypeOK'
  BY TypeStep
<1>2. QED
  BY <1>1, TypeInit, BaseInvariant, PTL DEF Spec

-----------------------------------------------------------------------------
(* Names.  They need one thing of the target: that no thread without a name, *)
(* Untracked or Silent, executes an instrumented thread::spawn.  Its        *)
(* children would be named after "none" (run ProbeRSE_nameless).            *)

\* The threads whose own numbering is settled.
SettledPC == PC \ {"noteSpawning", "spawn", "exit", "final", "leave"}

UnbornInv(t) == pc[t] = "unborn" => lineage[t] = None /\ tid[t] = None
FreshInv(t) == pc[t] \in {"unborn", "born"} => kids[t] = 0 /\ childId[t] = 1
BornInv(t) ==
  pc[t] = "born" => lineage[t] # None /\ tid[t] = None /\ newTid = lineage[t]
NamedInv(t) ==
  pc[t] \notin {"unborn", "born"} /\ t \notin Untracked \cup Silent =>
    tid[t] = lineage[t] /\ lineage[t] # None
UntrackedInv(t) ==
  /\ t \in Untracked \cup Silent => pc[t] \notin SpawningPCs
  /\ t \in Untracked => pc[t] # "born" /\ lineage[t] = None /\ tid[t] = None
CountInv(t) ==
  /\ pc[t] \in SettledPC => childId[t] = kids[t] + 1
  /\ pc[t] \in {"noteSpawning", "spawn"} =>
       childId[t] = kids[t] + 2 /\ newTid = ChildTid(tid[t], kids[t] + 1)

NameInv ==
  \A t \in Thread :
    /\ lineage[t] # <<>>
    /\ UnbornInv(t) /\ FreshInv(t) /\ BornInv(t)
    /\ NamedInv(t) /\ UntrackedInv(t) /\ CountInv(t)

LEMMA NameInit == Init => NameInv
<1> SUFFICES ASSUME Init PROVE NameInv
  OBVIOUS
<1>1. None # MainTid /\ None # <<>> /\ MainTid # <<>>
  BY DEF None, MainTid
<1>2. QED
  BY <1>1, RecorderAssumption
  DEF Init, NameInv, UnbornInv, FreshInv, BornInv, NamedInv, UntrackedInv,
      CountInv, SettledPC, PC, SpawningPCs

\* A step of one thread that touches no name and no number.
LEMMA QuietKeepsNames ==
  ASSUME NameInv, BaseInv, UNCHANGED <<tid, childId, newTid, lineage, kids>>,
         NEW t \in Thread, NEW label, Goto(t, label),
         label \notin {"unborn", "born"},
         pc[t] = "unborn" => t \in Untracked,
         pc[t] # "born",
         label \in SettledPC => pc[t] \in SettledPC,
         label \in {"noteSpawning", "spawn"} => pc[t] \in {"noteSpawning", "spawn"},
         t \in Untracked \cup Silent => label \notin SpawningPCs
  PROVE  NameInv'
<1>1. pc' = [pc EXCEPT ![t] = label] /\ pc \in [Thread -> PC]
  BY DEF Goto, BaseInv
<1>2. ASSUME NEW u \in Thread PROVE
        /\ lineage'[u] # <<>>
        /\ UnbornInv(u)' /\ FreshInv(u)' /\ BornInv(u)'
        /\ NamedInv(u)' /\ UntrackedInv(u)' /\ CountInv(u)'
  <2>1. CASE u = t
    BY <1>1, <2>1
    DEF NameInv, UnbornInv, FreshInv, BornInv, NamedInv, UntrackedInv, CountInv
  <2>2. CASE u # t
    BY <1>1, <2>2
    DEF NameInv, UnbornInv, FreshInv, BornInv, NamedInv, UntrackedInv, CountInv
  <2>3. QED
    BY <2>1, <2>2
<1>3. QED
  BY <1>2 DEF NameInv

LEMMA NameStep ==
  ASSUME Unannounced = {}, Spawners \cap (Untracked \cup Silent) = {},
         TypeOK, BaseInv, NameInv, [Next]_vars
  PROVE  NameInv'
<1> DEFINE AllNames(u) == /\ lineage[u] # <<>>
                          /\ UnbornInv(u) /\ FreshInv(u) /\ BornInv(u)
                          /\ NamedInv(u) /\ UntrackedInv(u) /\ CountInv(u)
<1> USE DEF SettledPC, SpawningPCs, PC
<1>0. ASSUME UNCHANGED <<tid, childId, newTid, lineage, kids, pc>>
      PROVE  NameInv'
  BY <1>0 DEF NameInv, UnbornInv, FreshInv, BornInv, NamedInv, UntrackedInv,
              CountInv
<1>1. ASSUME NEW t \in Thread, RecordScenario(t) PROVE NameInv'
  <2>1. \/ pc[t] = "record" /\ Goto(t, "note")
        \/ pc[t] = "recordSpawning" /\ Goto(t, "name")
        \/ pc[t] = "recordSpawned" /\ Goto(t, "open")
    BY <1>1 DEF RecordScenario, AfterRecord
  <2>2. UntrackedInv(t)
    BY DEF NameInv
  <2>3. QED
    BY <1>1, <2>1, <2>2, QuietKeepsNames
    DEF RecordScenario, tlsVars, ghostVars, UntrackedInv
<1>2. ASSUME NEW t \in Thread, RecordStructure(t) PROVE NameInv'
  <2>1. \/ pc[t] = "note" /\ Goto(t, "run")
        \/ pc[t] = "noteSpawning" /\ Goto(t, "spawn")
        \/ pc[t] = "noteSpawned" /\ Goto(t, "run")
    BY <1>2 DEF RecordStructure, AfterNote
  <2>2. UntrackedInv(t)
    BY DEF NameInv
  <2>3. QED
    BY <1>2, <2>1, <2>2, QuietKeepsNames
    DEF RecordStructure, tlsVars, ghostVars, UntrackedInv
<1>3. ASSUME NEW t \in Thread, NEW f \in Func, ProbeCall(t, f) PROVE NameInv'
  BY <1>3, QuietKeepsNames DEF ProbeCall, ProbeEntry, tlsVars, ghostVars
<1>4. ASSUME NEW t \in Thread, SpawningDec(t) PROVE NameInv'
  <2>1. /\ pc[t] = "run" /\ t \notin Untracked \cup Silent
        /\ Goto(t, "recordSpawning") \/ Goto(t, "dec")
    BY <1>4 DEF SpawningDec, AfterDec
  <2>2. QED
    BY <1>4, <2>1, QuietKeepsNames DEF SpawningDec, tlsVars, ghostVars
<1>5. ASSUME NEW t \in Thread, SpawningRetest(t) PROVE NameInv'
  <2>1. pc[t] = "dec" /\ UntrackedInv(t)
        /\ (Goto(t, "recordSpawning") \/ UNCHANGED pc)
    BY <1>5 DEF SpawningRetest, AfterDec, NameInv
  <2>2. CASE Goto(t, "recordSpawning")
    BY <1>5, <2>1, <2>2, QuietKeepsNames
    DEF SpawningRetest, tlsVars, ghostVars, UntrackedInv
  <2>3. CASE UNCHANGED pc
    BY <1>0, <1>5, <2>3 DEF SpawningRetest, tlsVars, ghostVars
  <2>4. QED
    BY <2>1, <2>2, <2>3
<1>6. ASSUME NEW t \in Thread, SpawningSpuriousWake(t) PROVE NameInv'
  BY <1>0, <1>6 DEF SpawningSpuriousWake, tlsVars, ghostVars
\* The static is written: every other thread is outside a spawn.
<1>7. ASSUME NEW t \in Thread, SpawningName(t) PROVE NameInv'
  <2>1. /\ pc[t] = "name" /\ pc' = [pc EXCEPT ![t] = "noteSpawning"]
        /\ newTid' = ChildTid(tid[t], childId[t])
        /\ childId' = [childId EXCEPT ![t] = @ + 1]
        /\ UNCHANGED <<tid, lineage, kids>>
    BY <1>7 DEF SpawningName, Goto, NextTid, NextChild, ghostVars
  <2>2. pc \in [Thread -> PC] /\ childId \in [Thread -> Nat]
        /\ kids \in [Thread -> Nat]
    BY DEF TypeOK
  <2>3. \A u \in Thread \ {t} : pc[u] \notin WindowPC
    BY <2>1 DEF BaseInv, WindowPC
  <2>4. ASSUME NEW u \in Thread PROVE AllNames(u)'
    <3>1. CASE u = t
      <4>1. childId[t] = kids[t] + 1
        BY <2>1 DEF NameInv, CountInv
      <4>2. CountInv(u)'
        BY <2>1, <2>2, <3>1, <4>1 DEF CountInv
      <4>3. QED
        BY <2>1, <2>2, <3>1, <4>2
        DEF NameInv, UnbornInv, FreshInv, BornInv, NamedInv, UntrackedInv
    <3>2. CASE u # t
      BY <2>1, <2>2, <2>3, <3>2
      DEF NameInv, UnbornInv, FreshInv, BornInv, NamedInv, UntrackedInv,
          CountInv, WindowPC
    <3>3. QED
      BY <3>1, <3>2
  <2>5. QED
    BY <2>4 DEF NameInv
\* The child is created while the static holds its name.
<1>8. ASSUME NEW p \in Thread, NEW c \in Thread, ThreadSpawn(p, c)
      PROVE  NameInv'
  <2>0. PICK first \in FirstSteps(c) :
          pc' = [pc EXCEPT ![p] = "run", ![c] = first]
    BY <1>8 DEF ThreadSpawn
  <2>1. /\ pc[p] = "spawn" /\ pc[c] = "unborn" /\ c \notin Untracked /\ c # p
        /\ pc' = [pc EXCEPT ![p] = "run", ![c] = first]
        /\ first = "born" \/ (first = "run" /\ c \in Silent)
        /\ lineage' = [lineage EXCEPT ![c] = ChildTid(lineage[p], kids[p] + 1)]
        /\ kids' = [kids EXCEPT ![p] = @ + 1]
        /\ UNCHANGED <<tid, childId, newTid>>
    BY <1>8, <2>0 DEF ThreadSpawn, Unborn, tlsVars, FirstSteps
  <2>2. /\ pc \in [Thread -> PC] /\ childId \in [Thread -> Nat]
        /\ kids \in [Thread -> Nat] /\ lineage \in [Thread -> Seq(Nat)]
    BY DEF TypeOK
  <2>3. p \notin Untracked \cup Silent
    BY <2>1 DEF NameInv, UntrackedInv
  <2>4. tid[p] = lineage[p] /\ lineage[p] # <<>>
        /\ childId[p] = kids[p] + 2 /\ newTid = ChildTid(tid[p], kids[p] + 1)
    BY <2>1, <2>3 DEF NameInv, NamedInv, CountInv
  <2>5. newTid # None /\ newTid # <<>>
    <3>1. lineage[p] \in Seq(Nat) /\ kids[p] + 1 \in Nat
      BY <2>2
    <3>2. Len(newTid) = Len(lineage[p]) + 1 /\ Len(lineage[p]) \in Nat \ {0}
      BY <2>4, <3>1, AppendProperties, EmptySeq DEF ChildTid
    <3>3. Len(newTid) # 1 /\ Len(newTid) # 0
      BY <3>2
    <3>4. Len(None) = 1 /\ Len(<<>>) = 0
      BY DEF None
    <3>5. QED
      BY <3>3, <3>4, Zenon
  <2>6. \A u \in Thread \ {p} : pc[u] \notin WindowPC
    BY <2>1 DEF BaseInv, WindowPC
  <2>7. ASSUME NEW u \in Thread PROVE AllNames(u)'
    <3>1. CASE u = p
      BY <2>1, <2>2, <2>3, <2>4, <3>1
      DEF NameInv, UnbornInv, FreshInv, BornInv, NamedInv, UntrackedInv,
          CountInv
    <3>2. CASE u = c
      BY <2>1, <2>2, <2>4, <2>5, <3>2
      DEF NameInv, UnbornInv, FreshInv, BornInv, NamedInv, UntrackedInv,
          CountInv
    <3>3. CASE u # p /\ u # c
      BY <2>1, <2>2, <2>6, <3>3
      DEF NameInv, UnbornInv, FreshInv, BornInv, NamedInv, UntrackedInv,
          CountInv, WindowPC
    <3>4. QED
      BY <3>1, <3>2, <3>3
  <2>8. QED
    BY <2>7 DEF NameInv
<1>9. ASSUME NEW p \in Thread, NEW c \in Thread, UninstrumentedSpawn(p, c)
      PROVE  NameInv'
  BY <1>9, QuietKeepsNames DEF UninstrumentedSpawn, tlsVars, ghostVars
\* The child reads the static, which still holds its name.
<1>10. ASSUME NEW c \in Thread, SpawnedTakeTid(c) PROVE NameInv'
  <2>1. /\ pc[c] = "born" /\ pc' = [pc EXCEPT ![c] = "inc"]
        /\ tid' = [tid EXCEPT ![c] = newTid]
        /\ UNCHANGED <<lineage, kids, childId, newTid>>
    BY <1>10 DEF SpawnedTakeTid, AfterTakeTid, Goto, ghostVars
  <2>2. pc \in [Thread -> PC] /\ tid \in [Thread -> Seq(Nat)]
    BY DEF TypeOK
  <2>3. newTid = lineage[c] /\ lineage[c] # None /\ c \notin Untracked
        /\ childId[c] = kids[c] + 1
    BY <2>1 DEF NameInv, BornInv, UntrackedInv, CountInv
  <2>4. ASSUME NEW u \in Thread PROVE AllNames(u)'
    <3>1. CASE u = c
      BY <2>1, <2>2, <2>3, <3>1
      DEF NameInv, UnbornInv, FreshInv, BornInv, NamedInv, UntrackedInv,
          CountInv
    <3>2. CASE u # c
      BY <2>1, <2>2, <3>2
      DEF NameInv, UnbornInv, FreshInv, BornInv, NamedInv, UntrackedInv,
          CountInv
    <3>3. QED
      BY <3>1, <3>2
  <2>5. QED
    BY <2>4 DEF NameInv
<1>11. ASSUME NEW c \in Thread, SpawnedInc(c) PROVE NameInv'
  BY <1>11, QuietKeepsNames DEF SpawnedInc, tlsVars, ghostVars
<1>12. ASSUME NEW c \in Thread, SpawnedOpen(c) PROVE NameInv'
  BY <1>12, QuietKeepsNames DEF SpawnedOpen, ghostVars
<1>13. ASSUME NEW t \in Thread, ThreadEnd(t) PROVE NameInv'
  BY <1>13, QuietKeepsNames DEF ThreadEnd, tlsVars, ghostVars
<1>14. ASSUME NEW t \in Thread, Exit(t) PROVE NameInv'
  <2>1. pc[t] \in {"run", "note", "noteSpawning", "noteSpawned"}
    BY <1>14 DEF Exit, AfterNote
  <2>2. QED
    BY <1>14, <2>1, QuietKeepsNames DEF Exit, tlsVars, ghostVars
<1>15. ASSUME NEW t \in Thread, RunHandlers(t) PROVE NameInv'
  BY <1>15, QuietKeepsNames DEF RunHandlers, tlsVars, ghostVars
<1>16. ASSUME NEW t \in Thread, Final(t) PROVE NameInv'
  BY <1>16, QuietKeepsNames DEF Final, tlsVars, ghostVars
<1>17. ASSUME NEW t \in Thread, Die(t) PROVE NameInv'
  BY <1>0, <1>17 DEF Die, tlsVars, ghostVars
<1>18. CASE UNCHANGED vars
  BY <1>0, <1>18 DEF vars, tlsVars, ghostVars
<1>19. QED
  BY <1>1, <1>2, <1>3, <1>4, <1>5, <1>6, <1>7, <1>8, <1>9, <1>10, <1>11,
     <1>12, <1>13, <1>14, <1>15, <1>16, <1>17, <1>18
  DEF Next, ProbeStep, TargetStep, Gone

LEMMA NameInvariant ==
  ASSUME Unannounced = {}, Spawners \cap (Untracked \cup Silent) = {}
  PROVE  Spec => []NameInv
<1>1. TypeOK /\ BaseInv /\ NameInv /\ [Next]_vars => NameInv'
  BY NameStep
<1>2. QED
  BY <1>1, NameInit, TypeCorrect, BaseInvariant, PTL DEF Spec

-----------------------------------------------------------------------------
(* The refinement.                                                          *)

\* The step of the abstract naming that a step of the recorder is.
LEMMA NamingStep ==
  ASSUME Unannounced = {}, Spawners \cap (Untracked \cup Silent) = {},
         TypeOK, BaseInv, NameInv, [Next]_vars
  PROVE  [Naming!NamingNext]_(Naming!namingVars)
<1>1. ASSUME UNCHANGED <<tid, lineage, kids>>
      PROVE  [Naming!NamingNext]_(Naming!namingVars)
  BY <1>1 DEF Naming!namingVars
<1>2. ASSUME NEW p \in Thread, NEW c \in Thread, ThreadSpawn(p, c)
      PROVE  [Naming!NamingNext]_(Naming!namingVars)
  <2>1. /\ pc[p] = "spawn" /\ pc[c] = "unborn"
        /\ lineage' = [lineage EXCEPT ![c] = ChildTid(lineage[p], kids[p] + 1)]
        /\ kids' = [kids EXCEPT ![p] = @ + 1]
        /\ UNCHANGED tid
    BY <1>2 DEF ThreadSpawn, Unborn, tlsVars
  <2>2. tid[p] # None /\ lineage[c] = None
    BY <2>1 DEF NameInv, NamedInv, UntrackedInv, UnbornInv, SpawningPCs
  <2>3. Naming!Create(p, c)
    BY <2>1, <2>2 DEF Naming!Create, Naming!ChildTid, Naming!None, ChildTid, None
  <2>4. QED
    BY <2>3 DEF Naming!NamingNext
<1>3. ASSUME NEW c \in Thread, SpawnedTakeTid(c)
      PROVE  [Naming!NamingNext]_(Naming!namingVars)
  <2>1. /\ pc[c] = "born" /\ tid' = [tid EXCEPT ![c] = newTid]
        /\ UNCHANGED <<lineage, kids>>
    BY <1>3 DEF SpawnedTakeTid, ghostVars
  <2>2. newTid = lineage[c] /\ lineage[c] # None /\ tid[c] = None
    BY <2>1 DEF NameInv, BornInv
  <2>3. Naming!Name(c)
    BY <2>1, <2>2 DEF Naming!Name, Naming!None, None
  <2>4. QED
    BY <2>3 DEF Naming!NamingNext
<1>4. ASSUME NEW t \in Thread,
             \/ RecordScenario(t) \/ RecordStructure(t)
             \/ SpawningDec(t) \/ SpawningRetest(t) \/ SpawningSpuriousWake(t)
             \/ SpawningName(t) \/ SpawnedInc(t) \/ SpawnedOpen(t)
             \/ ThreadEnd(t) \/ Exit(t) \/ RunHandlers(t) \/ Final(t) \/ Die(t)
      PROVE  UNCHANGED <<tid, lineage, kids>>
  BY <1>4 DEF RecordScenario, RecordStructure, SpawningDec, SpawningRetest,
              SpawningSpuriousWake, SpawningName, SpawnedInc, SpawnedOpen,
              ThreadEnd, Exit, RunHandlers, Final, Die, tlsVars, ghostVars
<1>5. ASSUME NEW t \in Thread, NEW f \in Func, ProbeCall(t, f)
      PROVE  UNCHANGED <<tid, lineage, kids>>
  BY <1>5 DEF ProbeCall, tlsVars, ghostVars
<1>6. ASSUME NEW p \in Thread, NEW c \in Thread, UninstrumentedSpawn(p, c)
      PROVE  UNCHANGED <<tid, lineage, kids>>
  BY <1>6 DEF UninstrumentedSpawn, tlsVars, ghostVars
<1>7. CASE UNCHANGED vars
  BY <1>1, <1>7 DEF vars, tlsVars, ghostVars
<1>8. QED
  BY <1>1, <1>2, <1>3, <1>4, <1>5, <1>6, <1>7
  DEF Next, ProbeStep, TargetStep, Gone

\* The recorder implements the abstract naming: whatever spawns interleave, the
\* one unsynchronised static hands every thread the name of its place in the
\* spawn tree (probe_RSE.rs:141-144, 156-160), provided no untracked or silent
\* thread executes an instrumented spawn.
THEOREM RecorderNamesByLineage ==
  ASSUME Unannounced = {}, Spawners \cap (Untracked \cup Silent) = {}
  PROVE  Spec => NamesByLineage
<1>1. Init => Naming!NamingInit
  BY DEF Init, Naming!NamingInit, Naming!MainTid, Naming!None, MainTid, None
<1>2. TypeOK /\ BaseInv /\ NameInv /\ [Next]_vars
        => [Naming!NamingNext]_(Naming!namingVars)
  BY NamingStep
<1>3. QED
  BY <1>1, <1>2, TypeCorrect, BaseInvariant, NameInvariant, PTL
  DEF Spec, NamesByLineage, Naming!NamingSpec

NP == INSTANCE ThreadNamingProofs

\* The recorder's steps, read in the module the abstract naming is proved about.
LEMMA RecorderMeetsNaming ==
  ASSUME Unannounced = {}, Spawners \cap (Untracked \cup Silent) = {}
  PROVE  Spec => NP!NamingSpec
<1>1. Naming!NamingInit => NP!NamingInit
  BY DEF Naming!NamingInit, NP!NamingInit, Naming!MainTid, NP!MainTid,
         Naming!None, NP!None
<1>2. [Naming!NamingNext]_(Naming!namingVars)
        => [NP!NamingNext]_(NP!namingVars)
  BY DEF Naming!NamingNext, NP!NamingNext, Naming!namingVars, NP!namingVars,
         Naming!Create, NP!Create, Naming!Name, NP!Name, Naming!ChildTid,
         NP!ChildTid, Naming!None, NP!None
<1>3. QED
  BY <1>1, <1>2, RecorderNamesByLineage, PTL
  DEF NamesByLineage, Naming!NamingSpec, NP!NamingSpec

\* Hence no two threads of a recorded run ever answer to one name, and an entry
\* of the scenario stands for one thread (probe_RSE.rs:232).
THEOREM RecordedNamesAreUnique ==
  ASSUME Unannounced = {}, Spawners \cap (Untracked \cup Silent) = {}
  PROVE  Spec => []UniqueTids
<1>1. NP!NamingSpec => []NP!UniqueTids
  BY NP!NamesAreUnique
<1>2. NP!UniqueTids => UniqueTids
  BY DEF NP!UniqueTids, UniqueTids, Naming!UniqueTids, Naming!None, NP!None
<1>3. QED
  BY <1>1, <1>2, RecorderMeetsNaming, PTL

-----------------------------------------------------------------------------
(* The scenario: spawnings before the children they announce.  What a parent*)
(* has recorded by now bounds its children, and a name is not in the log    *)
(* before its thread exists.                                                *)

\* The spawnings of the thread named n among the first k lines of a log.
Spawnings(lines, n, k) == {i \in 1 .. k : lines[i] = <<n, SpawningSite>>}
SpawningsBy(n, k) == Cardinality(Spawnings(log, n, k))

\* A thread whose spawning is recorded and whose child is not created.
RecordedPC == {"name", "noteSpawning", "spawn"}

SpawnsRecorded(t) ==
  /\ pc[t] \in {"dec", "recordSpawning"} => act[t] = SpawningSite
  /\ SpawningsBy(lineage[t], Len(log)) >= kids[t]
  /\ pc[t] \in RecordedPC =>
       SpawningsBy(lineage[t], Len(log)) >= kids[t] + 1

ChildRecorded(c) ==
  c # Main /\ lineage[c] # None =>
    /\ SpawningsBy(ParentTid(lineage[c]), Len(log)) >= ChildNumber(lineage[c])
    /\ \A j \in 1 .. Len(log) :
         log[j][1] = lineage[c] =>
           SpawningsBy(ParentTid(lineage[c]), j - 1) >= ChildNumber(lineage[c])

ScenarioInv ==
  /\ \A t \in Thread : SpawnsRecorded(t) /\ ChildRecorded(t)
  /\ \A j \in 1 .. Len(log) :
       log[j][1] = None \/ \E t \in Thread : lineage[t] = log[j][1]

LEMMA SpawningsFinite ==
  ASSUME NEW lines, NEW n, NEW k \in Nat
  PROVE  /\ IsFiniteSet(Spawnings(lines, n, k))
         /\ Cardinality(Spawnings(lines, n, k)) \in Nat
<1>1. Spawnings(lines, n, k) \subseteq 1 .. k
  BY DEF Spawnings
<1>2. IsFiniteSet(1 .. k)
  BY FS_Interval
<1>3. QED
  BY <1>1, <1>2, FS_Subset, FS_CardinalityType

\* One more line.
LEMMA SpawningsOfAppend ==
  ASSUME NEW lines \in Seq(Record), NEW r \in Record, NEW n
  PROVE  LET more == Append(lines, r) IN
         /\ \A k \in 0 .. Len(lines) :
              Spawnings(more, n, k) = Spawnings(lines, n, k)
         /\ Cardinality(Spawnings(more, n, Len(lines) + 1))
              >= Cardinality(Spawnings(lines, n, Len(lines)))
         /\ r = <<n, SpawningSite>> =>
              Cardinality(Spawnings(more, n, Len(lines) + 1))
                = Cardinality(Spawnings(lines, n, Len(lines))) + 1
<1> DEFINE more == Append(lines, r)
           old == Spawnings(lines, n, Len(lines))
           new == Spawnings(more, n, Len(lines) + 1)
<1>1. /\ Len(lines) \in Nat /\ more[Len(lines) + 1] = r
      /\ \A i \in 1 .. Len(lines) : more[i] = lines[i]
  BY AppendProperties, LenProperties
<1> HIDE DEF more
<1>2. \A k \in 0 .. Len(lines) : Spawnings(more, n, k) = Spawnings(lines, n, k)
  BY <1>1 DEF Spawnings
<1>3. /\ r # <<n, SpawningSite>> => new = old
      /\ r = <<n, SpawningSite>> => new = old \cup {Len(lines) + 1}
      /\ Len(lines) + 1 \notin old
  <2>1. /\ 1 .. Len(lines) + 1 = (1 .. Len(lines)) \cup {Len(lines) + 1}
        /\ Len(lines) + 1 \notin 1 .. Len(lines)
    BY <1>1
  <2>2. old = {i \in 1 .. Len(lines) : more[i] = <<n, SpawningSite>>}
    BY <1>1 DEF Spawnings
  <2>3. new = {i \in (1 .. Len(lines)) \cup {Len(lines) + 1} :
                 more[i] = <<n, SpawningSite>>}
    BY <2>1 DEF Spawnings
  <2>4. QED
    BY <1>1, <2>1, <2>2, <2>3
<1>4. IsFiniteSet(old) /\ Cardinality(old) \in Nat
  BY <1>1, SpawningsFinite
<1> HIDE DEF old, new
<1>5. r = <<n, SpawningSite>> => Cardinality(new) = Cardinality(old) + 1
  BY <1>3, <1>4, FS_AddElement
<1>6. Cardinality(new) >= Cardinality(old)
  BY <1>3, <1>4, <1>5
<1>7. QED
  BY <1>2, <1>5, <1>6 DEF more, old, new

LEMMA ScenarioInit == Init => ScenarioInv
<1> SUFFICES ASSUME Init PROVE ScenarioInv
  OBVIOUS
<1>1. log = <<>> /\ Len(log) = 0 /\ \A t \in Thread : kids[t] = 0
  BY DEF Init
<1>2. \A t \in Thread : SpawningsBy(lineage[t], Len(log)) >= 0
  BY <1>1, SpawningsFinite DEF SpawningsBy
<1>3. \A t \in Thread : pc[t] \in {"run", "unborn"}
                        /\ (t # Main => lineage[t] = None)
  BY DEF Init
<1>4. QED
  BY <1>1, <1>2, <1>3
  DEF ScenarioInv, SpawnsRecorded, ChildRecorded, RecordedPC

\* A step that records nothing and creates nobody.
LEMMA QuietKeepsScenario ==
  ASSUME ScenarioInv, UNCHANGED <<log, lineage, kids>>,
         \A t \in Thread :
           /\ pc'[t] \in RecordedPC => pc[t] \in RecordedPC
           /\ pc'[t] \in {"dec", "recordSpawning"} => act'[t] = SpawningSite
  PROVE  ScenarioInv'
BY DEF ScenarioInv, SpawnsRecorded, ChildRecorded, SpawningsBy

\* One thread's line in the log.
LEMMA RecordKeepsScenario ==
  ASSUME TypeOK, NameInv, NP!NamingInv, ScenarioInv,
         NEW t \in Thread, RecordScenario(t)
  PROVE  ScenarioInv'
<1> DEFINE r == <<tid[t], act[t]>>
<1>1. /\ log \in Seq(Record) /\ r \in Record /\ log' = Append(log, r)
      /\ Len(log) \in Nat /\ Len(log') = Len(log) + 1
      /\ log'[Len(log) + 1] = r
      /\ \A j \in 1 .. Len(log) : log'[j] = log[j]
      /\ UNCHANGED <<lineage, kids, act>>
  <2>1. log \in Seq(Record) /\ r \in Record
    BY RecordType DEF TypeOK, Record
  <2>2. log' = Append(log, r) /\ UNCHANGED <<lineage, kids, act>>
    BY DEF RecordScenario, ghostVars
  <2>3. QED
    BY <2>1, <2>2, AppendProperties, LenProperties
<1>2. /\ pc \in [Thread -> PC] /\ pc' = [pc EXCEPT ![t] = AfterRecord[pc[t]]]
      /\ pc[t] \in {"record", "recordSpawning", "recordSpawned"}
      /\ pc[t] = "recordSpawning" <=> AfterRecord[pc[t]] = "name"
      /\ AfterRecord[pc[t]] \in {"note", "name", "open"}
  BY DEF TypeOK, RecordScenario, AfterRecord, Goto
<1>3. tid[t] # None => tid[t] = lineage[t]
  BY DEF NP!NamingInv, NP!None, None
<1>4. pc[t] = "recordSpawning" => r = <<lineage[t], SpawningSite>>
  <2>1. SpawnsRecorded(t) /\ NamedInv(t) /\ UntrackedInv(t)
    BY DEF ScenarioInv, NameInv
  <2>2. QED
    BY <2>1 DEF SpawnsRecorded, NamedInv, UntrackedInv, SpawningPCs
<1> HIDE DEF r
<1>5. ASSUME NEW n
      PROVE  /\ \A k \in 0 .. Len(log) :
                  /\ Cardinality(Spawnings(log', n, k))
                       = Cardinality(Spawnings(log, n, k))
                  /\ Cardinality(Spawnings(log, n, k)) \in Nat
             /\ Cardinality(Spawnings(log', n, Len(log) + 1)) \in Nat
             /\ Cardinality(Spawnings(log', n, Len(log) + 1))
                  >= Cardinality(Spawnings(log, n, Len(log)))
             /\ r = <<n, SpawningSite>> =>
                  Cardinality(Spawnings(log', n, Len(log) + 1))
                    = Cardinality(Spawnings(log, n, Len(log))) + 1
  <2>1. /\ \A k \in 0 .. Len(log) :
             Spawnings(log', n, k) = Spawnings(log, n, k)
        /\ Cardinality(Spawnings(log', n, Len(log) + 1))
             >= Cardinality(Spawnings(log, n, Len(log)))
        /\ r = <<n, SpawningSite>> =>
             Cardinality(Spawnings(log', n, Len(log) + 1))
               = Cardinality(Spawnings(log, n, Len(log))) + 1
    BY <1>1, SpawningsOfAppend
  <2>2. \A k \in 0 .. Len(log) : Cardinality(Spawnings(log, n, k)) \in Nat
    BY <1>1, SpawningsFinite
  <2>3. Cardinality(Spawnings(log', n, Len(log) + 1)) \in Nat
    BY <1>1, SpawningsFinite
  <2>4. QED
    BY <2>1, <2>2, <2>3
<1>6. ASSUME NEW u \in Thread PROVE SpawnsRecorded(u)' /\ ChildRecorded(u)'
  <2>1. /\ SpawnsRecorded(u) /\ ChildRecorded(u)
        /\ kids \in [Thread -> Nat] /\ lineage \in [Thread -> Seq(Nat)]
    BY DEF ScenarioInv, TypeOK
  <2>2. SpawnsRecorded(u)'
    <3>1. /\ pc'[u] \in {"dec", "recordSpawning"} => act'[u] = SpawningSite
      BY <1>1, <1>2, <2>1 DEF SpawnsRecorded
    <3> DEFINE before == Cardinality(Spawnings(log, lineage[u], Len(log)))
               after == Cardinality(Spawnings(log', lineage[u], Len(log) + 1))
    <3>2. before \in Nat /\ after \in Nat /\ after >= before
          /\ (r = <<lineage[u], SpawningSite>> => after = before + 1)
      BY <1>1, <1>5
    <3>3. /\ before >= kids[u] /\ kids[u] \in Nat
          /\ pc[u] \in RecordedPC => before >= kids[u] + 1
      BY <2>1 DEF SpawnsRecorded, SpawningsBy
    <3> HIDE DEF before, after
    <3>4. pc'[u] \in RecordedPC => after >= kids[u] + 1
      <4>1. CASE u = t
        <5>1. pc'[u] \in RecordedPC => pc[t] = "recordSpawning"
          BY <1>2, <4>1 DEF RecordedPC
        <5>2. QED
          BY <1>4, <3>2, <3>3, <4>1, <5>1
      <4>2. CASE u # t
        BY <1>2, <3>2, <3>3, <4>2
      <4>3. QED
        BY <4>1, <4>2
    <3>5. after >= kids[u]
      BY <3>2, <3>3
    <3>6. QED
      BY <1>1, <3>1, <3>4, <3>5 DEF SpawnsRecorded, SpawningsBy, after
  <2>3. ChildRecorded(u)'
    <3> DEFINE up == ParentTid(lineage[u])
               number == ChildNumber(lineage[u])
    <3> HIDE DEF up, number
    <3> SUFFICES ASSUME u # Main, lineage[u] # None
                 PROVE  /\ Cardinality(Spawnings(log', up, Len(log) + 1))
                             >= number
                        /\ \A j \in 1 .. Len(log) + 1 :
                             log'[j][1] = lineage[u] =>
                               Cardinality(Spawnings(log', up, j - 1))
                                 >= number
      BY <1>1 DEF ChildRecorded, SpawningsBy, up, number
    <3>1. /\ Cardinality(Spawnings(log, up, Len(log))) >= number
          /\ \A j \in 1 .. Len(log) :
               log[j][1] = lineage[u] =>
                 Cardinality(Spawnings(log, up, j - 1)) >= number
      BY <2>1 DEF ChildRecorded, SpawningsBy, up, number
    <3>2. number \in Nat
      <4>1. lineage[u] \in Seq(Nat) /\ lineage[u] # <<>>
        BY <2>1 DEF NameInv
      <4>2. Len(lineage[u]) \in 1 .. Len(lineage[u])
        BY <4>1, LenProperties, EmptySeq
      <4>3. QED
        BY <4>1, <4>2, ElementOfSeq DEF number, ChildNumber
    <3>3. Cardinality(Spawnings(log', up, Len(log) + 1)) >= number
      BY <1>1, <1>5, <3>1, <3>2
    <3>4. ASSUME NEW j \in 1 .. Len(log) + 1, log'[j][1] = lineage[u]
          PROVE  Cardinality(Spawnings(log', up, j - 1)) >= number
      <4>1. j - 1 \in 0 .. Len(log)
        BY <1>1
      <4>2. Cardinality(Spawnings(log', up, j - 1))
              = Cardinality(Spawnings(log, up, j - 1))
        BY <1>5, <4>1
      <4>3. CASE j \in 1 .. Len(log)
        BY <1>1, <3>1, <3>4, <4>2, <4>3
      <4>4. CASE j = Len(log) + 1
        BY <1>1, <3>1, <4>2, <4>4
      <4>5. QED
        BY <1>1, <4>3, <4>4
    <3>5. QED
      BY <3>3, <3>4
  <2>4. QED
    BY <2>2, <2>3
<1>7. \A j \in 1 .. Len(log') :
        log'[j][1] = None \/ \E u \in Thread : lineage'[u] = log'[j][1]
  <2>1. log'[Len(log) + 1][1] = tid[t]
    BY <1>1 DEF r
  <2>2. \A j \in 1 .. Len(log) :
          log[j][1] = None \/ \E u \in Thread : lineage[u] = log[j][1]
    BY DEF ScenarioInv
  <2>3. ASSUME NEW j \in 1 .. Len(log')
        PROVE  log'[j][1] = None \/ \E u \in Thread : lineage'[u] = log'[j][1]
    <3>1. CASE j \in 1 .. Len(log)
      BY <1>1, <2>2, <3>1
    <3>2. CASE j = Len(log) + 1
      BY <1>1, <1>3, <2>1, <3>2
    <3>3. QED
      BY <1>1, <3>1, <3>2
  <2>4. QED
    BY <2>3
<1>8. QED
  BY <1>6, <1>7 DEF ScenarioInv

\* A thread is created: the spawning that announced it is in the log, and its
\* name is not.
LEMMA SpawnKeepsScenario ==
  ASSUME TypeOK, NameInv, NP!NamingInv, (NP!NamingInv)', ScenarioInv,
         NEW p \in Thread, NEW c \in Thread, ThreadSpawn(p, c)
  PROVE  ScenarioInv'
<1> DEFINE L == ChildTid(lineage[p], kids[p] + 1)
<1>1. PICK first \in {"born", "run"} :
        pc' = [pc EXCEPT ![p] = "run", ![c] = first]
  BY DEF ThreadSpawn, FirstSteps
<1>2. /\ pc[p] = "spawn" /\ pc[c] = "unborn" /\ c # p
      /\ lineage' = [lineage EXCEPT ![c] = L]
      /\ kids' = [kids EXCEPT ![p] = @ + 1]
      /\ UNCHANGED <<log, act>>
  BY DEF ThreadSpawn, Unborn, fileVars
<1>3. /\ pc \in [Thread -> PC] /\ kids \in [Thread -> Nat]
      /\ lineage \in [Thread -> Seq(Nat)]
      /\ log \in Seq(Record) /\ Len(log) \in Nat
  BY LenProperties DEF TypeOK, Record
<1>4. lineage[c] = None /\ kids[c] = 0
  BY <1>2 DEF NameInv, UnbornInv, FreshInv
<1>5. ParentTid(L) = lineage[p] /\ ChildNumber(L) = kids[p] + 1 /\ L # None
  <2>1. lineage[p] \in Seq(Nat) /\ lineage[p] # <<>> /\ kids[p] + 1 \in Nat
    BY <1>3 DEF NameInv
  <2>2. Len(L) = Len(lineage[p]) + 1 /\ L[Len(lineage[p]) + 1] = kids[p] + 1
        /\ SubSeq(L, 1, Len(L) - 1) = lineage[p]
    BY <2>1, AppendProperties DEF ChildTid
  <2>3. Len(lineage[p]) \in Nat \ {0} /\ Len(None) = 1
    BY <2>1, LenProperties, EmptySeq DEF None
  <2>4. L # None
    BY <2>2, <2>3
  <2>5. QED
    BY <2>2, <2>4 DEF ParentTid, ChildNumber
<1> HIDE DEF L
<1>6. \A u \in Thread \ {c} : lineage[u] # L
  BY <1>2, <1>3, <1>5 DEF NP!NamingInv, NP!None, None
<1>7. \A j \in 1 .. Len(log) : log[j][1] # L
  BY <1>4, <1>5, <1>6 DEF ScenarioInv
<1>8. SpawningsBy(lineage[p], Len(log)) >= kids[p] + 1
  BY <1>2 DEF ScenarioInv, SpawnsRecorded, RecordedPC
<1>9. SpawningsBy(L, Len(log)) >= 0
  BY <1>3, SpawningsFinite DEF SpawningsBy
<1>10. ASSUME NEW n, NEW k
       PROVE  Cardinality(Spawnings(log', n, k)) = SpawningsBy(n, k)
  BY <1>2 DEF SpawningsBy
<1>11. ASSUME NEW u \in Thread PROVE SpawnsRecorded(u)' /\ ChildRecorded(u)'
  <2>1. SpawnsRecorded(u) /\ ChildRecorded(u)
    BY DEF ScenarioInv
  <2>2. SpawnsRecorded(u)'
    BY <1>1, <1>2, <1>3, <1>4, <1>8, <1>9, <2>1
    DEF SpawnsRecorded, RecordedPC, SpawningsBy
  <2>3. CASE u = c
    BY <1>2, <1>3, <1>5, <1>7, <1>8, <2>2, <2>3 DEF ChildRecorded, SpawningsBy
  <2>4. CASE u # c
    BY <1>2, <1>3, <2>1, <2>2, <2>4 DEF ChildRecorded, SpawningsBy
  <2>5. QED
    BY <2>3, <2>4
<1>12. \A j \in 1 .. Len(log') :
         log'[j][1] = None \/ \E u \in Thread : lineage'[u] = log'[j][1]
  <2>1. ASSUME NEW j \in 1 .. Len(log), log[j][1] # None
        PROVE  \E u \in Thread : lineage'[u] = log[j][1]
    <3>1. PICK u \in Thread : lineage[u] = log[j][1]
      BY <2>1 DEF ScenarioInv
    <3>2. u # c
      BY <1>4, <2>1, <3>1
    <3>3. QED
      BY <1>2, <1>3, <3>1, <3>2
  <2>2. QED
    BY <1>2, <2>1
<1>13. QED
  BY <1>11, <1>12 DEF ScenarioInv

LEMMA ScenarioStep ==
  ASSUME TypeOK, NameInv, NP!NamingInv, (NP!NamingInv)', ScenarioInv,
         [Next]_vars
  PROVE  ScenarioInv'
<1>0. /\ pc \in [Thread -> PC] /\ act \in [Thread -> Site]
      /\ \A t \in Thread :
           pc[t] \in {"dec", "recordSpawning"} => act[t] = SpawningSite
  BY DEF TypeOK, ScenarioInv, SpawnsRecorded
<1>1. ASSUME NEW t \in Thread, NEW label, Goto(t, label),
             UNCHANGED <<log, lineage, kids, act>>,
             label \in RecordedPC => pc[t] \in RecordedPC,
             label \in {"dec", "recordSpawning"} => pc[t] = "dec"
      PROVE  ScenarioInv'
  BY <1>0, <1>1, QuietKeepsScenario DEF Goto
<1>2. ASSUME NEW t \in Thread, NEW s \in Site, NEW label, Goto(t, label),
             UNCHANGED <<log, lineage, kids>>, Reach(t, s),
             label \notin RecordedPC,
             label \in {"dec", "recordSpawning"} => s = SpawningSite
      PROVE  ScenarioInv'
  BY <1>0, <1>2, QuietKeepsScenario DEF Goto, Reach
<1>3. ASSUME UNCHANGED <<log, lineage, kids, act, pc>> PROVE ScenarioInv'
  BY <1>0, <1>3, QuietKeepsScenario
<1>4. ASSUME NEW t \in Thread, RecordScenario(t) PROVE ScenarioInv'
  BY <1>4, RecordKeepsScenario
<1>5. ASSUME NEW t \in Thread, RecordStructure(t) PROVE ScenarioInv'
  <2>1. /\ Goto(t, AfterNote[pc[t]]) /\ UNCHANGED <<log, lineage, kids, act>>
        /\ pc[t] \in {"note", "noteSpawning", "noteSpawned"}
        /\ AfterNote[pc[t]] \in RecordedPC => pc[t] = "noteSpawning"
        /\ AfterNote[pc[t]] \notin {"dec", "recordSpawning"}
    BY <1>5 DEF RecordStructure, AfterNote, ghostVars, RecordedPC
  <2>2. QED
    BY <1>1, <2>1 DEF RecordedPC
<1>6. ASSUME NEW t \in Thread, NEW f \in Func, ProbeCall(t, f)
      PROVE  ScenarioInv'
  BY <1>2, <1>6
  DEF ProbeCall, ProbeEntry, Site, RecordedPC, fileVars, ghostVars
<1>7. ASSUME NEW t \in Thread, SpawningDec(t) PROVE ScenarioInv'
  BY <1>2, <1>7
  DEF SpawningDec, AfterDec, Site, RecordedPC, fileVars, ghostVars
<1>8. ASSUME NEW t \in Thread, SpawningRetest(t) PROVE ScenarioInv'
  BY <1>1, <1>3, <1>8
  DEF SpawningRetest, AfterDec, RecordedPC, fileVars, ghostVars
<1>9. ASSUME NEW t \in Thread, SpawningSpuriousWake(t) PROVE ScenarioInv'
  BY <1>3, <1>9 DEF SpawningSpuriousWake, fileVars, ghostVars
<1>10. ASSUME NEW t \in Thread, SpawningName(t) PROVE ScenarioInv'
  BY <1>1, <1>10 DEF SpawningName, RecordedPC, fileVars, ghostVars
<1>11. ASSUME NEW p \in Thread, NEW c \in Thread, ThreadSpawn(p, c)
       PROVE  ScenarioInv'
  BY <1>11, SpawnKeepsScenario
<1>12. ASSUME NEW p \in Thread, NEW c \in Thread, UninstrumentedSpawn(p, c)
       PROVE  ScenarioInv'
  BY <1>1, <1>12 DEF UninstrumentedSpawn, RecordedPC, fileVars, ghostVars
<1>13. ASSUME NEW c \in Thread, SpawnedTakeTid(c) PROVE ScenarioInv'
  BY <1>2, <1>13
  DEF SpawnedTakeTid, AfterTakeTid, Site, RecordedPC, fileVars, ghostVars
<1>14. ASSUME NEW t \in Thread, SpawnedInc(t) \/ SpawnedOpen(t)
       PROVE  ScenarioInv'
  BY <1>1, <1>14 DEF SpawnedInc, SpawnedOpen, RecordedPC, fileVars, ghostVars
<1>15. ASSUME NEW t \in Thread,
              ThreadEnd(t) \/ Exit(t) \/ RunHandlers(t) \/ Final(t)
       PROVE  ScenarioInv'
  BY <1>1, <1>15
  DEF ThreadEnd, Exit, RunHandlers, Final, RecordedPC, fileVars, ghostVars
<1>16. ASSUME NEW t \in Thread, Die(t) PROVE ScenarioInv'
  BY <1>3, <1>16 DEF Die, fileVars, ghostVars
<1>17. CASE UNCHANGED vars
  BY <1>3, <1>17 DEF vars, fileVars, ghostVars
<1>18. QED
  BY <1>4, <1>5, <1>6, <1>7, <1>8, <1>9, <1>10, <1>11, <1>12, <1>13, <1>14,
     <1>15, <1>16, <1>17
  DEF Next, ProbeStep, TargetStep, Gone

\* In the scenario the k-th child of a thread acts only after that thread's k-th
\* spawning, so that a replay never waits for a thread whose creation it holds
\* back (probe_RSE.rs:139-150, 167-169).
THEOREM SpawningsComeFirst ==
  ASSUME Unannounced = {}, Spawners \cap (Untracked \cup Silent) = {}
  PROVE  Spec => []SpawningPrecedesChild
<1>1. TypeOK /\ NameInv /\ NP!NamingInv /\ (NP!NamingInv)' /\ ScenarioInv
        /\ [Next]_vars => ScenarioInv'
  BY ScenarioStep
<1>2. TypeOK /\ NP!NamingInv /\ ScenarioInv => SpawningPrecedesChild
  <2> SUFFICES ASSUME TypeOK, NP!NamingInv, ScenarioInv,
                      NEW c \in Tracked \ {Main}, NEW j \in DOMAIN log,
                      log[j][1] = lineage[c]
               PROVE  Cardinality({i \in 1 .. j - 1 :
                        log[i] = <<ParentTid(lineage[c]), SpawningSite>>})
                          >= ChildNumber(lineage[c])
    BY DEF SpawningPrecedesChild
  <2>0. c \in Thread /\ c # Main /\ tid[c] # None
    BY DEF Tracked
  <2>1. /\ c \in Thread /\ c # Main /\ lineage[c] # None
        /\ j \in 1 .. Len(log)
    <3>1. lineage[c] # None
      BY <2>0 DEF NP!NamingInv, NP!None, None
    <3>2. log \in Seq(Record)
      BY DEF TypeOK, Record
    <3>3. DOMAIN log = 1 .. Len(log)
      BY <3>2, LenProperties
    <3>4. QED
      BY <2>0, <3>1, <3>3
  <2>2. ChildRecorded(c)
    BY <2>1 DEF ScenarioInv
  <2>3. QED
    BY <2>1, <2>2 DEF ChildRecorded, SpawningsBy, Spawnings
<1>3. NP!NamingSpec => []NP!NamingInv
  BY NP!NamingInvariant
<1>4. QED
  BY <1>1, <1>2, <1>3, ScenarioInit, TypeCorrect, NameInvariant,
     RecorderMeetsNaming, PTL DEF Spec

-----------------------------------------------------------------------------
(* The sites that belong to a name, unrolled.                               *)

\* The sites read so far, after one more record.
ReadOn(sites, r, n) == IF r[1] = n THEN Append(sites, r[2]) ELSE sites

LEMMA SitesUnroll ==
  ASSUME NEW records \in Seq(Record), NEW n
  PROVE  /\ SitesUpTo(records, n)[0] = <<>>
         /\ \A k \in 0 .. Len(records) : SitesUpTo(records, n)[k] \in Seq(Site)
         /\ \A k \in 1 .. Len(records) :
              SitesUpTo(records, n)[k]
                = ReadOn(SitesUpTo(records, n)[k - 1], records[k], n)
<1> DEFINE Step == [at \in Nat \X Seq(Site) |->
                      IF at[1] \in 1 .. Len(records)
                      THEN ReadOn(at[2], records[at[1]], n) ELSE <<>>]
           Reads(f) == f = [k \in 0 .. Len(records) |->
                              IF k = 0 THEN <<>>
                              ELSE IF records[k][1] = n
                              THEN Append(f[k - 1], records[k][2])
                              ELSE f[k - 1]]
<1>1. Len(records) \in Nat /\ \A k \in 1 .. Len(records) : records[k] \in Record
  BY LenProperties, ElementOfSeq
<1>2. <<>> \in Seq(Site)
  BY EmptySeq
<1>3. ASSUME NEW sites \in Seq(Site), NEW r \in Record
      PROVE  ReadOn(sites, r, n) \in Seq(Site)
  BY AppendProperties DEF ReadOn, Record
<1>4. Step \in [Nat \X Seq(Site) -> Seq(Site)]
  <2>1. ASSUME NEW at \in Nat \X Seq(Site)
        PROVE  (IF at[1] \in 1 .. Len(records)
                THEN ReadOn(at[2], records[at[1]], n) ELSE <<>>) \in Seq(Site)
    BY <1>1, <1>2, <1>3
  <2>2. QED
    BY <2>1
<1>5. PICK f : Solves(f, Seq(Site), <<>>, Step, Len(records))
  <2> HIDE DEF Step
  <2>1. QED
    BY <1>1, <1>2, <1>4, RecursionExists
<1>6. ASSUME NEW k \in 1 .. Len(records)
      PROVE  f[k] = ReadOn(f[k - 1], records[k], n)
  <2>1. k \in Nat /\ k - 1 \in 0 .. Len(records)
    BY <1>1
  <2>2. <<k, f[k - 1]>> \in Nat \X Seq(Site)
    BY <1>5, <2>1 DEF Solves
  <2>3. Step[<<k, f[k - 1]>>] = ReadOn(f[k - 1], records[k], n)
    BY <2>2
  <2>4. QED
    BY <1>5, <2>3 DEF Solves
<1>7. Reads(f)
  <2>1. f = [k \in 0 .. Len(records) |-> f[k]]
    BY <1>5 DEF Solves
  <2>2. ASSUME NEW k \in 0 .. Len(records)
        PROVE  f[k] = IF k = 0 THEN <<>>
                      ELSE IF records[k][1] = n
                      THEN Append(f[k - 1], records[k][2])
                      ELSE f[k - 1]
    <3>1. k = 0 \/ k \in 1 .. Len(records)
      BY <1>1
    <3>2. QED
      BY <1>5, <1>6, <3>1 DEF ReadOn, Solves
  <2>3. QED
    BY <2>1, <2>2
<1>8. Reads(SitesUpTo(records, n))
  BY <1>7 DEF SitesUpTo
<1> DEFINE s == SitesUpTo(records, n)
<1> HIDE DEF s
<1>9. s = [k \in 0 .. Len(records) |->
             IF k = 0 THEN <<>> ELSE ReadOn(s[k - 1], records[k], n)]
  BY <1>8 DEF ReadOn, s
<1> HIDE DEF Reads
<1>10. s[0] = <<>>
       /\ \A k \in 1 .. Len(records) : s[k] = ReadOn(s[k - 1], records[k], n)
  <2>1. \A k \in 0 .. Len(records) :
          s[k] = IF k = 0 THEN <<>> ELSE ReadOn(s[k - 1], records[k], n)
    BY <1>9
  <2>2. QED
    BY <1>1, <2>1
<1>11. \A k \in 0 .. Len(records) : s[k] \in Seq(Site)
  <2> DEFINE Traces == Seq(Site)
             Typed == {k \in 0 .. Len(records) : s[k] \in Traces}
  <2>1. 0 \in Typed
    <3>1. s[0] \in Traces /\ 0 \in 0 .. Len(records)
      BY <1>1, <1>2, <1>10
    <3>2. QED
      BY <3>1
  <2>2. ASSUME NEW k \in 1 .. Len(records), k - 1 \in Typed
        PROVE  k \in Typed
    <3>1. s[k - 1] \in Seq(Site) /\ records[k] \in Record
      BY <1>1, <2>2
    <3>2. s[k] \in Traces
      BY <1>3, <1>10, <3>1
    <3>3. QED
      BY <1>1, <3>2
  <2> HIDE DEF Typed
  <2>3. 0 .. Len(records) \subseteq Typed
    BY <1>1, <2>1, <2>2, IntervalInduction
  <2>4. QED
    BY <2>3 DEF Typed
<1>12. QED
  BY <1>10, <1>11 DEF s

LEMMA SitesOfType ==
  ASSUME NEW records \in Seq(Record), NEW n
  PROVE  SitesOf(records, n) \in Seq(Site)
<1>1. Len(records) \in 0 .. Len(records)
  BY LenProperties
<1>2. QED
  BY <1>1, SitesUnroll DEF SitesOf

\* Records of others leave a name without sites.
LEMMA SitesOfOthers ==
  ASSUME NEW records \in Seq(Record), NEW n,
         \A j \in 1 .. Len(records) : records[j][1] # n
  PROVE  SitesOf(records, n) = <<>>
<1> DEFINE Bare == {k \in 0 .. Len(records) : SitesUpTo(records, n)[k] = <<>>}
<1>1. Len(records) \in Nat
  BY LenProperties
<1>2. 0 \in Bare
  BY <1>1, SitesUnroll
<1>3. ASSUME NEW k \in 1 .. Len(records), k - 1 \in Bare PROVE k \in Bare
  <2>1. SitesUpTo(records, n)[k]
          = ReadOn(SitesUpTo(records, n)[k - 1], records[k], n)
    BY SitesUnroll
  <2>2. QED
    BY <1>3, <2>1 DEF ReadOn
<1> HIDE DEF Bare
<1>4. 0 .. Len(records) \subseteq Bare
  BY <1>1, <1>2, <1>3, IntervalInduction
<1>5. QED
  BY <1>1, <1>4 DEF Bare, SitesOf

\* One more record adds its site to its own name, and to no other.
LEMMA SitesOfAppend ==
  ASSUME NEW records \in Seq(Record), NEW r \in Record, NEW n
  PROVE  SitesOf(Append(records, r), n) = ReadOn(SitesOf(records, n), r, n)
<1> DEFINE more == Append(records, r)
           Same == {k \in 0 .. Len(records) :
                      SitesUpTo(more, n)[k] = SitesUpTo(records, n)[k]}
<1>1. /\ Len(records) \in Nat /\ more \in Seq(Record)
      /\ Len(more) = Len(records) + 1 /\ more[Len(records) + 1] = r
      /\ \A j \in 1 .. Len(records) : more[j] = records[j]
  BY LenProperties, AppendProperties
<1> HIDE DEF more
<1>2. 0 \in Same
  BY <1>1, SitesUnroll
<1>3. ASSUME NEW k \in 1 .. Len(records), k - 1 \in Same PROVE k \in Same
  <2>1. /\ SitesUpTo(records, n)[k]
             = ReadOn(SitesUpTo(records, n)[k - 1], records[k], n)
        /\ k \in 1 .. Len(more)
    BY <1>1, SitesUnroll
  <2>2. SitesUpTo(more, n)[k] = ReadOn(SitesUpTo(more, n)[k - 1], more[k], n)
    BY <1>1, <2>1, SitesUnroll
  <2>3. QED
    BY <1>1, <1>3, <2>1, <2>2
<1>4. SitesUpTo(more, n)[Len(records)] = SitesOf(records, n)
  <2> HIDE DEF Same
  <2>1. 0 .. Len(records) \subseteq Same
    BY <1>1, <1>2, <1>3, IntervalInduction
  <2>2. QED
    BY <1>1, <2>1 DEF Same, SitesOf
<1>5. SitesOf(more, n) = ReadOn(SitesUpTo(more, n)[Len(records)], r, n)
  <2>1. Len(more) \in 1 .. Len(more) /\ Len(more) - 1 = Len(records)
    BY <1>1
  <2>2. SitesUpTo(more, n)[Len(more)]
          = ReadOn(SitesUpTo(more, n)[Len(more) - 1], more[Len(more)], n)
    BY <1>1, <2>1, SitesUnroll
  <2>3. QED
    BY <1>1, <2>1, <2>2 DEF SitesOf
<1>6. QED
  BY <1>4, <1>5 DEF more

-----------------------------------------------------------------------------
(* Program order.  Read by name, both records give back what a thread's     *)
(* probes finished: every probe appends for the thread it runs in, names    *)
(* are unique, and nothing was written under a name before its thread had   *)
(* it.                                                                      *)

\* The acts of a thread against where it is.
ActsInv(t) ==
  /\ pc[t] \in {"unborn", "born"} => acts[t] = <<>>
  /\ pc[t] \in {"inc", "recordSpawned", "open", "noteSpawned"} =>
       Len(acts[t]) = 1
  /\ pc[t] \in Unnoted => acts[t] # <<>>
  /\ act[t] = IF acts[t] = <<>> THEN SpawnedSite ELSE acts[t][Len(acts[t])]
  /\ pc[t] \in {"unborn", "run", "spawn"} => act[t] \notin BadSites

\* The names in a sequence of records are names of threads.
Known(records) ==
  \A j \in 1 .. Len(records) :
    records[j][1] = None \/ \E u \in Thread : tid[u] = records[j][1]

\* The node of a thread's last act is not pushed.
OwesNode(t) == pc[t] \in Unnoted \/ PanickedInNote(t)

OrderInv ==
  /\ \A t \in Thread : ActsInv(t)
  /\ Known(log) /\ \A g \in 1 .. Len(exe) : Known(exe[g])
  /\ ScenarioKeepsProgramOrder
  /\ StructureKeepsProgramOrder

LEMMA DropLastOfAppend ==
  ASSUME NEW s \in Seq(Site), NEW x \in Site
  PROVE  DropLast(Append(s, x), TRUE) = s
<1> DEFINE t == Append(s, x)
           u == SubSeq(t, 1, Len(t) - 1)
<1>1. /\ Len(s) \in Nat /\ t \in Seq(Site) /\ Len(t) = Len(s) + 1
      /\ \A i \in 1 .. Len(s) : t[i] = s[i]
  BY LenProperties, AppendProperties
<1> HIDE DEF t
<1>2. /\ 1 \in Int /\ Len(t) - 1 \in Int
      /\ \A i \in 1 .. Len(t) - 1 : t[i] \in Site
  BY <1>1, ElementOfSeq
<1>3. /\ u \in Seq(Site)
      /\ Len(u) = IF 1 <= Len(t) - 1 THEN (Len(t) - 1) - 1 + 1 ELSE 0
      /\ \A i \in 1 .. (Len(t) - 1) - 1 + 1 : u[i] = t[1 + i - 1]
  BY <1>2, SubSeqProperties
<1> HIDE DEF u
<1>4. Len(u) = Len(s)
  BY <1>1, <1>3
<1>5. ASSUME NEW i \in 1 .. Len(s) PROVE s[i] = u[i]
  <2>1. i \in 1 .. (Len(t) - 1) - 1 + 1 /\ 1 + i - 1 = i
    BY <1>1
  <2>2. QED
    BY <1>1, <1>3, <2>1
<1>6. s = u
  BY <1>3, <1>4, <1>5, SeqEqual
<1>7. QED
  BY <1>6 DEF DropLast, t, u

\* Every sequence of acts that is not empty ends in its last one.
LEMMA DropLastThenAppend ==
  ASSUME NEW s \in Seq(Site), s # <<>>
  PROVE  /\ Append(DropLast(s, TRUE), s[Len(s)]) = s
         /\ DropLast(s, TRUE) \in Seq(Site) /\ s[Len(s)] \in Site
<1>1. PICK r \in Seq(Site), x \in Site : s = Append(r, x)
  BY SequenceEmptyOrAppend
<1>2. DropLast(s, TRUE) = r
  BY <1>1, DropLastOfAppend
<1>3. s[Len(s)] = x
  BY <1>1, AppendProperties
<1>4. QED
  BY <1>1, <1>2, <1>3

LEMMA DropLastOfOne ==
  ASSUME NEW s \in Seq(Site), Len(s) = 1
  PROVE  DropLast(s, TRUE) = <<>>
<1>1. PICK r \in Seq(Site), x \in Site : s = Append(r, x)
  <2>1. s # <<>>
    BY EmptySeq
  <2>2. QED
    BY <2>1, SequenceEmptyOrAppend
<1>2. Len(r) \in Nat /\ Len(s) = Len(r) + 1
  BY <1>1, AppendProperties, LenProperties
<1>3. r = <<>>
  BY <1>2, EmptySeq
<1>4. QED
  BY <1>1, <1>3, DropLastOfAppend

LEMMA SitesOfNone ==
  ASSUME NEW n
  PROVE  SitesOf(<<>>, n) = <<>>
<1> DEFINE none == <<>>
<1>1. none \in Seq(Record) /\ Len(none) = 0
  BY EmptySeq
<1> HIDE DEF none
<1>2. \A j \in 1 .. Len(none) : none[j][1] # n
  BY <1>1
<1>3. SitesOf(none, n) = <<>>
  BY <1>1, <1>2, SitesOfOthers
<1>4. QED
  BY <1>3 DEF none

LEMMA OrderInit == Init => OrderInv
<1> SUFFICES ASSUME Init PROVE OrderInv
  OBVIOUS
<1>1. /\ log = <<>> /\ Len(log) = 0
      /\ exe = <<(<<>>)>> /\ Len(exe) = 1 /\ exe[1] = <<>> /\ Len(exe[1]) = 0
      /\ \A t \in Thread : /\ pc[t] \in {"run", "unborn"} /\ acts[t] = <<>>
                           /\ act[t] = SpawnedSite /\ exeNode[t] = 1
  BY DEF Init
<1>2. SpawnedSite \notin BadSites
  BY RecorderAssumption
<1>3. \A t \in Thread : ActsInv(t)
  BY <1>1, <1>2 DEF ActsInv, Unnoted, Unrecorded
<1>4. Known(log) /\ \A g \in 1 .. Len(exe) : Known(exe[g])
  BY <1>1 DEF Known
<1>5. ASSUME NEW n PROVE SitesOf(<<>>, n) = <<>>
  BY SitesOfNone
<1>6. \A t \in Thread : Recorded(t) = <<>> /\ Noted(t) = <<>>
  BY <1>1 DEF Recorded, Noted, DropLast, Unrecorded, Unnoted, PanickedInNote
<1>7. ScenarioKeepsProgramOrder
  BY <1>1, <1>5, <1>6 DEF ScenarioKeepsProgramOrder, Tracked
<1>8. StructureKeepsProgramOrder
  <2>1. \A t \in Thread : exe[exeNode[t]] = <<>>
    BY <1>1
  <2>2. \A t \in Thread : SitesOf(exe[exeNode[t]], tid[t]) = Noted(t)
    BY <1>5, <1>6, <2>1
  <2>3. QED
    BY <2>2 DEF StructureKeepsProgramOrder, Tracked
<1>9. QED
  BY <1>3, <1>4, <1>7, <1>8 DEF OrderInv

\* A step that records nothing, and after which a thread owes what it owed.
LEMMA QuietKeepsOrder ==
  ASSUME OrderInv, UNCHANGED <<log, exe, exeNode, tid, acts, recording>>,
         \A u \in Thread : /\ ActsInv(u)'
                           /\ pc'[u] \in Unrecorded <=> pc[u] \in Unrecorded
                           /\ OwesNode(u)' <=> OwesNode(u)
  PROVE  OrderInv'
<1>1. Tracked' = Tracked
  BY DEF Tracked
<1>2. \A u \in Thread : Recorded(u)' = Recorded(u) /\ Noted(u)' = Noted(u)
  BY DEF Recorded, Noted, DropLast, OwesNode
<1>3. (Known(log) /\ \A g \in 1 .. Len(exe) : Known(exe[g]))'
  BY DEF OrderInv, Known
<1>4. ScenarioKeepsProgramOrder'
  BY <1>1, <1>2 DEF OrderInv, ScenarioKeepsProgramOrder, Tracked
<1>5. StructureKeepsProgramOrder'
  BY <1>1, <1>2 DEF OrderInv, StructureKeepsProgramOrder, Tracked
<1>6. QED
  BY <1>3, <1>4, <1>5 DEF OrderInv

\* A write reaches a thread's own sites and nobody else's.
LEMMA OwnRecord ==
  ASSUME TypeOK, NP!NamingInv, NEW t \in Thread, NEW u \in Tracked,
         NEW records \in Seq(Record)
  PROVE  SitesOf(Append(records, <<tid[t], act[t]>>), tid[u])
           = IF u = t THEN Append(SitesOf(records, tid[u]), act[t])
             ELSE SitesOf(records, tid[u])
<1>1. u \in Thread /\ tid[u] # None
  BY DEF Tracked
<1>2. tid[u] = tid[t] => u = t
  BY <1>1 DEF NP!NamingInv, NP!None, None
<1>3. <<tid[t], act[t]>> \in Record
  BY RecordType
<1>4. SitesOf(Append(records, <<tid[t], act[t]>>), tid[u])
        = ReadOn(SitesOf(records, tid[u]), <<tid[t], act[t]>>, tid[u])
  BY <1>3, SitesOfAppend
<1>5. QED
  BY <1>2, <1>4 DEF ReadOn

\* And it leaves the names known.
LEMMA OwnRecordIsKnown ==
  ASSUME TypeOK, NEW t \in Thread, NEW records \in Seq(Record), Known(records)
  PROVE  Known(Append(records, <<tid[t], act[t]>>))
<1>1. <<tid[t], act[t]>> \in Record
  BY RecordType
<1> DEFINE r == <<tid[t], act[t]>>
           more == Append(records, r)
<1>2. r[1] = tid[t]
  OBVIOUS
<1> HIDE DEF r
<1>3. /\ Len(records) \in Nat /\ Len(more) = Len(records) + 1
      /\ more[Len(records) + 1] = r
      /\ \A j \in 1 .. Len(records) : more[j] = records[j]
  BY <1>1, AppendProperties, LenProperties DEF r
<1> HIDE DEF more
<1>4. ASSUME NEW j \in 1 .. Len(more)
      PROVE  more[j][1] = None \/ \E u \in Thread : tid[u] = more[j][1]
  <2>1. CASE j \in 1 .. Len(records)
    BY <1>3, <2>1 DEF Known
  <2>2. CASE j = Len(records) + 1
    BY <1>2, <1>3, <2>2
  <2>3. QED
    BY <1>3, <2>1, <2>2
<1>5. Known(more)
  BY <1>4 DEF Known
<1>6. QED
  BY <1>5 DEF more, r

\* The site a probe owes a record is the last of the thread's acts.
LEMMA RecordPaysAct ==
  ASSUME TypeOK, NEW t \in Thread, ActsInv(t), acts[t] # <<>>
  PROVE  Append(DropLast(acts[t], TRUE), act[t]) = acts[t]
<1>1. acts[t] \in Seq(Site)
  BY DEF TypeOK
<1>2. QED
  BY <1>1, DropLastThenAppend DEF ActsInv

\* __record_scenario.
LEMMA RecordKeepsOrder ==
  ASSUME TypeOK, NP!NamingInv, OrderInv, NEW t \in Thread, RecordScenario(t)
  PROVE  OrderInv'
<1>1. /\ pc \in [Thread -> PC] /\ log \in Seq(Record)
      /\ log' = Append(log, <<tid[t], act[t]>>)
      /\ UNCHANGED <<exe, exeNode, tid, act, acts, recording>>
  BY DEF RecordScenario, TypeOK, Record, tlsVars
<1>2. \/ pc[t] = "record" /\ pc' = [pc EXCEPT ![t] = "note"]
      \/ pc[t] = "recordSpawning" /\ pc' = [pc EXCEPT ![t] = "name"]
      \/ pc[t] = "recordSpawned" /\ pc' = [pc EXCEPT ![t] = "open"]
  <2>1. \/ pc[t] = "record" /\ Goto(t, "note")
        \/ pc[t] = "recordSpawning" /\ Goto(t, "name")
        \/ pc[t] = "recordSpawned" /\ Goto(t, "open")
    BY DEF RecordScenario, AfterRecord
  <2>2. QED
    BY <2>1 DEF Goto
<1>3. \A u \in Thread : /\ ActsInv(u)'
                        /\ OwesNode(u)' <=> OwesNode(u)
                        /\ u # t => (pc'[u] \in Unrecorded
                                       <=> pc[u] \in Unrecorded)
  BY <1>1, <1>2
  DEF OrderInv, ActsInv, OwesNode, Unnoted, Unrecorded, PanickedInNote
<1>4. pc[t] \in Unrecorded /\ pc'[t] \notin Unrecorded /\ acts[t] # <<>>
  BY <1>1, <1>2 DEF Unrecorded, Unnoted, OrderInv, ActsInv
<1>5. Tracked' = Tracked
  BY <1>1 DEF Tracked
<1>6. ASSUME NEW u \in Tracked PROVE SitesOf(log', tid[u]) = Recorded(u)'
  <2>0. u \in Thread
    BY DEF Tracked
  <2>1. SitesOf(log, tid[u]) = Recorded(u)
    BY DEF OrderInv, ScenarioKeepsProgramOrder
  <2>2. CASE u = t
    <3>1. SitesOf(log', tid[u]) = Append(Recorded(t), act[t])
      BY <1>1, <2>1, <2>2, OwnRecord
    <3>2. Recorded(t) = DropLast(acts[t], TRUE) /\ Recorded(t)' = acts[t]
      BY <1>1, <1>4 DEF Recorded, DropLast
    <3>3. ActsInv(t)
      BY DEF OrderInv
    <3>4. QED
      BY <1>4, <2>2, <3>1, <3>2, <3>3, RecordPaysAct
  <2>3. CASE u # t
    <3>1. SitesOf(log', tid[u]) = SitesOf(log, tid[u])
      BY <1>1, <2>3, OwnRecord
    <3>2. Recorded(u)' = Recorded(u)
      BY <1>1, <1>3, <2>0, <2>3 DEF Recorded, DropLast
    <3>3. QED
      BY <2>1, <3>1, <3>2
  <2>4. QED
    BY <2>2, <2>3
<1>7. ScenarioKeepsProgramOrder'
  BY <1>1, <1>5, <1>6 DEF ScenarioKeepsProgramOrder, Tracked
<1>8. StructureKeepsProgramOrder'
  <2>1. \A u \in Thread : Noted(u)' = Noted(u)
    BY <1>1, <1>3 DEF Noted, DropLast, OwesNode
  <2>2. QED
    BY <1>1, <2>1, <1>5
    DEF OrderInv, StructureKeepsProgramOrder, Tracked
<1>9. Known(log)' /\ (\A g \in 1 .. Len(exe) : Known(exe[g]))'
  <2>1. Known(log')
    BY <1>1, OwnRecordIsKnown DEF OrderInv
  <2>2. QED
    BY <1>1, <2>1 DEF OrderInv, Known
<1>10. QED
  BY <1>3, <1>7, <1>8, <1>9 DEF OrderInv

\* A push into one group leaves the others alone.
LEMMA PushedGroup ==
  ASSUME NEW groups \in Seq(Seq(Record)), NEW n \in 1 .. Len(groups),
         NEW r \in Record
  PROVE  LET pushed == [groups EXCEPT ![n] = Append(@, r)] IN
         /\ Len(pushed) = Len(groups)
         /\ pushed[n] = Append(groups[n], r) /\ groups[n] \in Seq(Record)
         /\ \A g \in 1 .. Len(groups) : g # n => pushed[g] = groups[g]
<1>1. groups[n] \in Seq(Record)
  BY ElementOfSeq
<1>2. Append(groups[n], r) \in Seq(Record)
  BY <1>1, AppendProperties
<1>3. QED
  BY <1>1, <1>2, ExceptSeq

\* __record_thread_structure.
LEMMA PushKeepsOrder ==
  ASSUME TypeOK, NP!NamingInv, OrderInv, NEW t \in Thread, RecordStructure(t)
  PROVE  OrderInv'
<1>1. /\ pc \in [Thread -> PC] /\ act[t] \notin BadSites
      /\ UNCHANGED <<log, exeNode, tid, act, acts, recording>>
  BY DEF RecordStructure, TypeOK, tlsVars
<1>2. \/ pc[t] \in {"note", "noteSpawned"} /\ pc' = [pc EXCEPT ![t] = "run"]
      \/ pc[t] = "noteSpawning" /\ pc' = [pc EXCEPT ![t] = "spawn"]
  <2>1. \/ pc[t] = "note" /\ Goto(t, "run")
        \/ pc[t] = "noteSpawned" /\ Goto(t, "run")
        \/ pc[t] = "noteSpawning" /\ Goto(t, "spawn")
    BY DEF RecordStructure, AfterNote
  <2>2. QED
    BY <2>1 DEF Goto
<1>3. \A u \in Thread : /\ ActsInv(u)'
                        /\ pc'[u] \in Unrecorded <=> pc[u] \in Unrecorded
                        /\ u # t => (OwesNode(u)' <=> OwesNode(u))
  BY <1>1, <1>2
  DEF OrderInv, ActsInv, OwesNode, Unnoted, Unrecorded, PanickedInNote
<1>4. OwesNode(t) /\ ~OwesNode(t)' /\ acts[t] # <<>>
  BY <1>1, <1>2
  DEF OwesNode, Unrecorded, Unnoted, PanickedInNote, OrderInv, ActsInv
<1>5. Tracked' = Tracked
  BY <1>1 DEF Tracked
<1>6. ScenarioKeepsProgramOrder'
  <2>1. \A u \in Thread : Recorded(u)' = Recorded(u)
    BY <1>1, <1>3 DEF Recorded, DropLast
  <2>2. QED
    BY <1>1, <2>1, <1>5 DEF OrderInv, ScenarioKeepsProgramOrder, Tracked
<1>7. Known(log)'
  BY <1>1 DEF OrderInv, Known
<1>8. CASE ~recording
  <2>1. exe' = exe
    BY <1>8 DEF RecordStructure
  <2>2. StructureKeepsProgramOrder'
    BY <1>1, <1>8 DEF StructureKeepsProgramOrder
  <2>3. (\A g \in 1 .. Len(exe) : Known(exe[g]))'
    BY <1>1, <2>1 DEF OrderInv, Known
  <2>4. QED
    BY <1>3, <1>6, <1>7, <2>2, <2>3 DEF OrderInv
<1>9. CASE recording
  <2> DEFINE n == exeNode[t]
             r == <<tid[t], act[t]>>
  <2>1. /\ exe \in Seq(Seq(Record)) /\ Len(exe) \in Nat
        /\ \A u \in Thread : exeNode[u] \in 1 .. Len(exe)
        /\ r \in Record
    <3>1. exe \in Seq(Seq(Record)) /\ Len(exe) \in Nat
      BY LenProperties DEF TypeOK, Record
    <3>2. \A u \in Thread : exeNode[u] \in Nat \ {0} /\ exeNode[u] <= Len(exe)
      BY DEF TypeOK
    <3>3. r \in Record
      BY RecordType
    <3>4. \A u \in Thread : exeNode[u] \in 1 .. Len(exe)
      BY <3>1, <3>2
    <3>5. QED
      BY <3>1, <3>3, <3>4
  <2>2. exe' = [exe EXCEPT ![n] = Append(@, r)]
    BY <1>9 DEF RecordStructure, NodeOf
  <2>3. /\ Len(exe') = Len(exe)
        /\ exe'[n] = Append(exe[n], r) /\ exe[n] \in Seq(Record)
        /\ \A g \in 1 .. Len(exe) : g # n => exe'[g] = exe[g]
    BY <2>1, <2>2, PushedGroup
  <2>4. ASSUME NEW u \in Tracked
        PROVE  SitesOf(exe'[exeNode[u]], tid[u]) = Noted(u)'
    <3>0. u \in Thread /\ SitesOf(exe[exeNode[u]], tid[u]) = Noted(u)
      BY <1>9 DEF OrderInv, StructureKeepsProgramOrder, Tracked
    <3>1. CASE u = t
      <4>1. SitesOf(exe'[exeNode[u]], tid[u]) = Append(Noted(t), act[t])
        BY <2>3, <3>0, <3>1, OwnRecord
      <4>2. Noted(t) = DropLast(acts[t], TRUE) /\ Noted(t)' = acts[t]
        BY <1>1, <1>4 DEF Noted, DropLast, OwesNode
      <4>3. ActsInv(t)
        BY DEF OrderInv
      <4>4. QED
        BY <1>4, <3>1, <4>1, <4>2, <4>3, RecordPaysAct
    <3>2. CASE u # t
      <4>1. SitesOf(exe'[exeNode[u]], tid[u]) = SitesOf(exe[exeNode[u]], tid[u])
        <5>1. CASE exeNode[u] = n
          <6>1. SitesOf(exe'[n], tid[u]) = SitesOf(exe[n], tid[u])
            BY <2>3, <3>2, OwnRecord
          <6>2. QED
            BY <5>1, <6>1
        <5>2. CASE exeNode[u] # n
          BY <2>1, <2>3, <3>0, <5>2
        <5>3. QED
          BY <5>1, <5>2
      <4>2. Noted(u)' = Noted(u)
        BY <1>1, <1>3, <3>0, <3>2 DEF Noted, DropLast, OwesNode
      <4>3. QED
        BY <3>0, <4>1, <4>2
    <3>3. QED
      BY <3>1, <3>2
  <2>5. StructureKeepsProgramOrder'
    BY <1>1, <1>5, <2>4 DEF StructureKeepsProgramOrder, Tracked
  <2>6. ASSUME NEW g \in 1 .. Len(exe') PROVE Known(exe'[g])
    <3>1. g \in 1 .. Len(exe) /\ Known(exe[g])
      BY <2>3 DEF OrderInv
    <3>2. CASE g = n
      BY <2>3, <3>1, <3>2, OwnRecordIsKnown
    <3>3. CASE g # n
      BY <2>3, <3>1, <3>3
    <3>4. QED
      BY <3>2, <3>3
  <2>7. (\A g \in 1 .. Len(exe) : Known(exe[g]))'
    BY <1>1, <2>6 DEF Known
  <2>8. QED
    BY <1>3, <1>6, <1>7, <2>5, <2>7 DEF OrderInv
<1>10. QED
  BY <1>8, <1>9 DEF TypeOK

\* A thread of the target reaches a probe: it owes both records.
LEMMA ReachKeepsOrder ==
  ASSUME TypeOK, OrderInv, NEW t \in Thread, NEW s \in Site, NEW label,
         pc[t] = "run", label \in {"record", "dec", "recordSpawning"},
         Reach(t, s), Goto(t, label),
         UNCHANGED <<log, exe, exeNode, tid, recording>>
  PROVE  OrderInv'
<1>1. /\ pc \in [Thread -> PC] /\ act \in [Thread -> Site]
      /\ acts \in [Thread -> Seq(Site)]
  BY DEF TypeOK
<1>2. /\ pc' = [pc EXCEPT ![t] = label] /\ act' = [act EXCEPT ![t] = s]
      /\ acts' = [acts EXCEPT ![t] = Append(@, s)]
  BY DEF Goto, Reach
<1>3. /\ Append(acts[t], s) # <<>>
      /\ Append(acts[t], s)[Len(Append(acts[t], s))] = s
      /\ DropLast(Append(acts[t], s), TRUE) = acts[t]
  <2> DEFINE more == Append(acts[t], s)
  <2>1. acts[t] \in Seq(Site) /\ Len(acts[t]) \in Nat
    BY <1>1, LenProperties
  <2>2. /\ more # <<>> /\ Len(more) = Len(acts[t]) + 1
        /\ more[Len(acts[t]) + 1] = s
    BY <2>1, AppendProperties
  <2>3. DropLast(more, TRUE) = acts[t]
    BY <2>1, DropLastOfAppend
  <2> HIDE DEF more
  <2>4. more # <<>> /\ more[Len(more)] = s
    BY <2>1, <2>2
  <2>5. QED
    BY <2>3, <2>4 DEF more
<1>4. ActsInv(t)'
  <2>1. /\ pc'[t] = label /\ act'[t] = s /\ acts'[t] = Append(acts[t], s)
        /\ label \notin {"unborn", "born", "inc", "recordSpawned", "open",
                         "noteSpawned", "run", "spawn"}
    BY <1>1, <1>2
  <2>2. QED
    BY <1>3, <2>1 DEF ActsInv
<1>5. \A u \in Thread \ {t} :
        /\ ActsInv(u)' /\ Recorded(u)' = Recorded(u) /\ Noted(u)' = Noted(u)
  BY <1>1, <1>2
  DEF OrderInv, ActsInv, Recorded, Noted, DropLast, PanickedInNote
<1>6. Recorded(t) = acts[t] /\ Noted(t) = acts[t]
  BY DEF Recorded, Noted, DropLast, Unrecorded, Unnoted, PanickedInNote
<1>7. pc'[t] \in Unrecorded /\ pc'[t] \in Unnoted
  BY <1>1, <1>2 DEF Unrecorded, Unnoted
<1>8. Recorded(t)' = acts[t] /\ Noted(t)' = acts[t]
  BY <1>1, <1>2, <1>3, <1>7 DEF Recorded, Noted, DropLast
<1>9. \A u \in Thread : /\ ActsInv(u)'
                        /\ Recorded(u)' = Recorded(u) /\ Noted(u)' = Noted(u)
  BY <1>4, <1>5, <1>6, <1>8
<1>10. Tracked' = Tracked
  BY DEF Tracked
<1>11. ScenarioKeepsProgramOrder' /\ StructureKeepsProgramOrder'
  BY <1>9, <1>10
  DEF OrderInv, ScenarioKeepsProgramOrder, StructureKeepsProgramOrder, Tracked
<1>12. (Known(log) /\ \A g \in 1 .. Len(exe) : Known(exe[g]))'
  BY DEF OrderInv, Known
<1>13. QED
  BY <1>9, <1>11, <1>12 DEF OrderInv

\* A name nobody answers to yet stands nowhere in the records.
LEMMA UnusedName ==
  ASSUME TypeOK, NP!NamingInv, NEW c \in Thread, tid[c] = None,
         lineage[c] # None, NEW records \in Seq(Record), Known(records)
  PROVE  SitesOf(records, lineage[c]) = <<>>
<1>1. ASSUME NEW j \in 1 .. Len(records) PROVE records[j][1] # lineage[c]
  <2> SUFFICES ASSUME records[j][1] = lineage[c] PROVE FALSE
    OBVIOUS
  <2>1. PICK u \in Thread : tid[u] = lineage[c]
    BY DEF Known
  <2>2. tid[u] = lineage[u] /\ lineage[u] = lineage[c]
    BY <2>1 DEF NP!NamingInv, NP!None, None
  <2>3. u = c
    BY <2>2 DEF NP!NamingInv, NP!None, None
  <2>4. QED
    BY <2>1, <2>3
<1>2. QED
  BY <1>1, SitesOfOthers

\* The child takes its name.
LEMMA TakeTidKeepsOrder ==
  ASSUME TypeOK, TypeOK', NameInv, NP!NamingInv, OrderInv,
         NEW c \in Thread, SpawnedTakeTid(c)
  PROVE  OrderInv'
<1>1. /\ pc \in [Thread -> PC] /\ act \in [Thread -> Site]
      /\ acts \in [Thread -> Seq(Site)] /\ tid \in [Thread -> Seq(Nat)]
      /\ SpawnedSite \in Site
  BY DEF TypeOK, Site
<1>2. /\ pc[c] = "born" /\ pc' = [pc EXCEPT ![c] = "inc"]
      /\ act' = [act EXCEPT ![c] = SpawnedSite]
      /\ acts' = [acts EXCEPT ![c] = Append(@, SpawnedSite)]
      /\ tid' = [tid EXCEPT ![c] = newTid]
      /\ UNCHANGED <<log, exe, exeNode, recording>>
  BY DEF SpawnedTakeTid, AfterTakeTid, Goto, Reach, fileVars
<1>3. /\ newTid = lineage[c] /\ lineage[c] # None /\ tid[c] = None
      /\ acts[c] = <<>>
  BY <1>2 DEF NameInv, BornInv, OrderInv, ActsInv
<1>4. /\ Append(acts[c], SpawnedSite) # <<>>
      /\ Append(acts[c], SpawnedSite)[Len(Append(acts[c], SpawnedSite))]
           = SpawnedSite
      /\ Len(Append(acts[c], SpawnedSite)) = 1
      /\ DropLast(Append(acts[c], SpawnedSite), TRUE) = acts[c]
  <2> DEFINE one == Append(acts[c], SpawnedSite)
  <2>1. acts[c] \in Seq(Site) /\ Len(acts[c]) = 0
    BY <1>1, <1>3, EmptySeq
  <2>2. /\ one # <<>> /\ Len(one) = Len(acts[c]) + 1
        /\ one[Len(acts[c]) + 1] = SpawnedSite
    <3>1. acts[c] \in Seq(Site) /\ SpawnedSite \in Site
      BY <1>1
    <3>2. QED
      BY <3>1, AppendProperties
  <2>3. DropLast(one, TRUE) = acts[c]
    BY <1>1, <2>1, DropLastOfAppend
  <2> HIDE DEF one
  <2>4. one # <<>> /\ one[Len(one)] = SpawnedSite /\ Len(one) = 1
    BY <2>1, <2>2
  <2>5. QED
    BY <2>3, <2>4 DEF one
<1>5. ActsInv(c)'
  BY <1>1, <1>2, <1>4 DEF ActsInv
<1>6. \A u \in Thread \ {c} :
        /\ ActsInv(u)' /\ Recorded(u)' = Recorded(u) /\ Noted(u)' = Noted(u)
        /\ tid'[u] = tid[u]
  BY <1>1, <1>2
  DEF OrderInv, ActsInv, Recorded, Noted, DropLast, PanickedInNote
<1>7. Recorded(c)' = <<>> /\ Noted(c)' = <<>>
  <2>1. pc'[c] \in Unrecorded /\ pc'[c] \in Unnoted
    BY <1>1, <1>2 DEF Unrecorded, Unnoted
  <2>2. QED
    BY <1>1, <1>2, <1>3, <1>4, <2>1 DEF Recorded, Noted, DropLast
<1>8. tid'[c] = lineage[c] /\ \A u \in Thread : tid[u] # None => tid'[u] = tid[u]
  BY <1>1, <1>2, <1>3
<1>9. Tracked' \subseteq Tracked \cup {c} /\ Tracked' \subseteq Thread
  BY <1>6 DEF Tracked
<1>10. /\ log \in Seq(Record) /\ Len(exe) \in Nat
       /\ \A u \in Thread : exe[exeNode[u]] \in Seq(Record)
                            /\ exeNode[u] \in 1 .. Len(exe)
  <2>1. /\ log \in Seq(Record)
        /\ exe \in Seq(Seq(Record)) /\ Len(exe) \in Nat
    BY LenProperties DEF TypeOK, Record
  <2>2. \A u \in Thread : exeNode[u] \in Nat \ {0} /\ exeNode[u] <= Len(exe)
    BY DEF TypeOK
  <2>3. \A u \in Thread : exeNode[u] \in 1 .. Len(exe)
    BY <2>1, <2>2
  <2>4. QED
    BY <2>1, <2>3, ElementOfSeq
<1>11. ASSUME NEW u \in Tracked' PROVE SitesOf(log, tid'[u]) = Recorded(u)'
  <2>1. CASE u = c
    BY <1>3, <1>7, <1>8, <1>10, <2>1, UnusedName DEF OrderInv
  <2>2. CASE u # c
    BY <1>6, <1>9, <2>2 DEF OrderInv, ScenarioKeepsProgramOrder
  <2>3. QED
    BY <2>1, <2>2
<1>12. ASSUME NEW u \in Tracked', recording
       PROVE  SitesOf(exe[exeNode[u]], tid'[u]) = Noted(u)'
  <2>1. CASE u = c
    <3>1. Known(exe[exeNode[c]]) /\ exe[exeNode[c]] \in Seq(Record)
      BY <1>10 DEF OrderInv
    <3>2. QED
      BY <1>3, <1>7, <1>8, <2>1, <3>1, UnusedName
  <2>2. CASE u # c
    BY <1>6, <1>9, <1>12, <2>2 DEF OrderInv, StructureKeepsProgramOrder
  <2>3. QED
    BY <2>1, <2>2
<1>13. ScenarioKeepsProgramOrder'
  BY <1>2, <1>11 DEF ScenarioKeepsProgramOrder
<1>14. StructureKeepsProgramOrder'
  BY <1>2, <1>12 DEF StructureKeepsProgramOrder
<1>15. (Known(log) /\ \A g \in 1 .. Len(exe) : Known(exe[g]))'
  <2>1. \A j \in 1 .. Len(log) :
          log[j][1] = None \/ \E u \in Thread : tid'[u] = log[j][1]
    BY <1>8 DEF OrderInv, Known
  <2>2. \A g \in 1 .. Len(exe) : \A j \in 1 .. Len(exe[g]) :
          exe[g][j][1] = None \/ \E u \in Thread : tid'[u] = exe[g][j][1]
    BY <1>8 DEF OrderInv, Known
  <2>3. QED
    BY <1>2, <2>1, <2>2 DEF Known
<1>16. QED
  BY <1>5, <1>6, <1>13, <1>14, <1>15 DEF OrderInv

\* The child opens its group.
LEMMA OpenKeepsOrder ==
  ASSUME TypeOK, OrderInv, NEW c \in Thread, SpawnedOpen(c)
  PROVE  OrderInv'
<1>1. /\ pc \in [Thread -> PC] /\ acts \in [Thread -> Seq(Site)]
      /\ exeNode \in [Thread -> Nat \ {0}]
  BY DEF TypeOK
<1>2. /\ pc[c] = "open" /\ pc' = [pc EXCEPT ![c] = "noteSpawned"]
      /\ UNCHANGED <<log, tid, act, acts, recording>>
  BY DEF SpawnedOpen, Goto
<1>3. \A u \in Thread : /\ ActsInv(u)'
                        /\ pc'[u] \in Unrecorded <=> pc[u] \in Unrecorded
                        /\ OwesNode(u)' <=> OwesNode(u)
  BY <1>1, <1>2
  DEF OrderInv, ActsInv, OwesNode, Unnoted, Unrecorded, PanickedInNote
<1>4. CASE ~recording
  BY <1>2, <1>3, <1>4, QuietKeepsOrder DEF SpawnedOpen
<1>5. CASE recording
  <2>1. /\ exe \in Seq(Seq(Record)) /\ Len(exe) \in Nat
        /\ \A u \in Thread : exeNode[u] <= Len(exe)
    BY LenProperties DEF TypeOK, Record
  <2>2. exe' = Append(exe, <<>>) /\ exeNode' = [exeNode EXCEPT ![c] = Len(exe) + 1]
    BY <1>5 DEF SpawnedOpen, NewGroup
  <2>3. /\ Len(exe') = Len(exe) + 1 /\ exe'[Len(exe) + 1] = <<>>
        /\ \A g \in 1 .. Len(exe) : exe'[g] = exe[g]
    <3>1. <<>> \in Seq(Record)
      BY EmptySeq
    <3>2. QED
      BY <2>1, <2>2, <3>1, AppendProperties
  <2>4. Tracked' = Tracked
    BY <1>2 DEF Tracked
  <2>5. \A u \in Thread : Recorded(u)' = Recorded(u) /\ Noted(u)' = Noted(u)
    BY <1>2, <1>3 DEF Recorded, Noted, DropLast, OwesNode
  <2>6. ScenarioKeepsProgramOrder'
    BY <1>2, <2>4, <2>5 DEF OrderInv, ScenarioKeepsProgramOrder, Tracked
  <2>7. ASSUME NEW u \in Tracked
        PROVE  SitesOf(exe'[exeNode'[u]], tid[u]) = Noted(u)
    <3>0. u \in Thread
      BY DEF Tracked
    <3>1. CASE u = c
      <4>1. exe'[exeNode'[u]] = <<>>
        BY <1>1, <2>2, <2>3, <3>0, <3>1
      <4>2. Noted(u) = DropLast(acts[c], TRUE) /\ Len(acts[c]) = 1
        BY <1>2, <3>1 DEF Noted, DropLast, Unnoted, OrderInv, ActsInv
      <4>3. Noted(u) = <<>>
        BY <1>1, <4>2, DropLastOfOne
      <4>4. QED
        BY <4>1, <4>3, SitesOfNone
    <3>2. CASE u # c
      <4>1. exeNode'[u] = exeNode[u] /\ exeNode[u] \in 1 .. Len(exe)
        BY <1>1, <2>1, <2>2, <3>0, <3>2
      <4>2. exe'[exeNode'[u]] = exe[exeNode[u]]
        BY <2>3, <4>1
      <4>3. QED
        BY <1>5, <4>2 DEF OrderInv, StructureKeepsProgramOrder
    <3>3. QED
      BY <3>1, <3>2
  <2>8. StructureKeepsProgramOrder'
    BY <1>2, <2>4, <2>5, <2>7 DEF StructureKeepsProgramOrder, Tracked
  <2>9. Known(log)'
    BY <1>2 DEF OrderInv, Known
  <2>10. ASSUME NEW g \in 1 .. Len(exe') PROVE Known(exe'[g])
    <3>1. CASE g \in 1 .. Len(exe)
      BY <2>3, <3>1 DEF OrderInv
    <3>2. CASE g = Len(exe) + 1
      BY <2>3, <3>2, EmptySeq DEF Known
    <3>3. QED
      BY <2>1, <2>3, <3>1, <3>2
  <2>11. (\A g \in 1 .. Len(exe) : Known(exe[g]))'
    BY <1>2, <2>10 DEF Known
  <2>12. QED
    BY <1>3, <2>6, <2>8, <2>9, <2>11 DEF OrderInv
<1>6. QED
  BY <1>4, <1>5 DEF TypeOK

LEMMA OrderStep ==
  ASSUME Unannounced = {}, TypeOK, TypeOK', NameInv, NP!NamingInv, OrderInv,
         [Next]_vars
  PROVE  OrderInv'
<1>0. pc \in [Thread -> PC] /\ \A u \in Thread : ActsInv(u)
  BY DEF TypeOK, OrderInv
<1>1. ASSUME UNCHANGED <<log, exe, exeNode, tid, act, acts, recording, pc>>
      PROVE  OrderInv'
  BY <1>0, <1>1, QuietKeepsOrder
  DEF ActsInv, OwesNode, PanickedInNote
\* One thread goes on, and owes what it owed.
<1>2. ASSUME NEW t \in Thread, NEW label, Goto(t, label),
             UNCHANGED <<log, exe, exeNode, tid, act, acts, recording>>,
             \/ /\ pc[t] = "dec" /\ label = "recordSpawning"
             \/ /\ pc[t] = "name" /\ label = "noteSpawning"
             \/ /\ pc[t] = "inc" /\ label = "recordSpawned"
             \/ /\ pc[t] = "unborn" /\ label = "run"
             \/ /\ pc[t] = "run" /\ label \in {"done", "exit"}
             \/ /\ pc[t] \in {"note", "noteSpawning", "noteSpawned"}
                /\ act[t] \in BadSites /\ label = "exit"
             \/ /\ pc[t] = "exit" /\ label \in {"final", "leave"}
             \/ /\ pc[t] = "final" /\ label = "leave"
      PROVE  OrderInv'
  <2>1. pc' = [pc EXCEPT ![t] = label]
    BY <1>2 DEF Goto
  <2>2. \A u \in Thread : ActsInv(u)'
    BY <1>0, <1>2, <2>1 DEF ActsInv, Unnoted, Unrecorded
  <2>3. \A u \in Thread : pc'[u] \in Unrecorded <=> pc[u] \in Unrecorded
    BY <1>0, <1>2, <2>1 DEF Unrecorded
  <2>4. \A u \in Thread : OwesNode(u)' <=> OwesNode(u)
    BY <1>0, <1>2, <2>1
    DEF OwesNode, PanickedInNote, Unnoted, Unrecorded, ActsInv
  <2>5. QED
    BY <1>2, <2>2, <2>3, <2>4, QuietKeepsOrder
<1>3. ASSUME NEW t \in Thread, RecordScenario(t) PROVE OrderInv'
  BY <1>3, RecordKeepsOrder
<1>4. ASSUME NEW t \in Thread, RecordStructure(t) PROVE OrderInv'
  BY <1>4, PushKeepsOrder
<1>5. ASSUME NEW t \in Thread, NEW f \in Func, ProbeCall(t, f) PROVE OrderInv'
  BY <1>5, ReachKeepsOrder DEF ProbeCall, ProbeEntry, Site, tlsVars, fileVars
<1>6. ASSUME NEW t \in Thread, SpawningDec(t) PROVE OrderInv'
  <2>1. Goto(t, "recordSpawning") \/ Goto(t, "dec")
    BY <1>6 DEF SpawningDec, AfterDec
  <2>2. QED
    BY <1>6, <2>1, ReachKeepsOrder DEF SpawningDec, Site, tlsVars, fileVars
<1>7. ASSUME NEW t \in Thread, SpawningRetest(t) PROVE OrderInv'
  <2>1. pc[t] = "dec" /\ (Goto(t, "recordSpawning") \/ UNCHANGED pc)
        /\ UNCHANGED <<log, exe, exeNode, tid, act, acts, recording>>
    BY <1>7 DEF SpawningRetest, AfterDec, tlsVars, fileVars
  <2>2. QED
    BY <1>1, <1>2, <2>1
<1>8. ASSUME NEW t \in Thread, SpawningSpuriousWake(t) PROVE OrderInv'
  BY <1>1, <1>8 DEF SpawningSpuriousWake, tlsVars, fileVars
<1>9. ASSUME NEW t \in Thread, SpawningName(t) PROVE OrderInv'
  BY <1>2, <1>9 DEF SpawningName, fileVars
<1>10. ASSUME NEW p \in Thread, NEW c \in Thread, ThreadSpawn(p, c)
       PROVE  OrderInv'
  <2>1. PICK first \in {"born", "run"} :
          pc' = [pc EXCEPT ![p] = "run", ![c] = first]
    BY <1>10 DEF ThreadSpawn, FirstSteps
  <2>2. /\ pc[p] = "spawn" /\ pc[c] = "unborn" /\ c # p
        /\ UNCHANGED <<log, exe, exeNode, tid, act, acts, recording>>
    BY <1>10 DEF ThreadSpawn, Unborn, tlsVars, fileVars
  <2>3. \A u \in Thread : ActsInv(u)'
    BY <1>0, <2>1, <2>2 DEF ActsInv, Unnoted, Unrecorded
  <2>4. \A u \in Thread : pc'[u] \in Unrecorded <=> pc[u] \in Unrecorded
    BY <1>0, <2>1, <2>2 DEF Unrecorded
  <2>5. \A u \in Thread : OwesNode(u)' <=> OwesNode(u)
    BY <1>0, <2>1, <2>2 DEF OwesNode, PanickedInNote, Unnoted, Unrecorded
  <2>6. QED
    BY <2>2, <2>3, <2>4, <2>5, QuietKeepsOrder
<1>11. ASSUME NEW p \in Thread, NEW c \in Thread, UninstrumentedSpawn(p, c)
       PROVE  OrderInv'
  BY <1>2, <1>11 DEF UninstrumentedSpawn, tlsVars, fileVars
<1>12. ASSUME NEW c \in Thread, SpawnedTakeTid(c) PROVE OrderInv'
  BY <1>12, TakeTidKeepsOrder
<1>13. ASSUME NEW c \in Thread, SpawnedInc(c) PROVE OrderInv'
  BY <1>2, <1>13 DEF SpawnedInc, tlsVars, fileVars
<1>14. ASSUME NEW c \in Thread, SpawnedOpen(c) PROVE OrderInv'
  BY <1>14, OpenKeepsOrder
<1>15. ASSUME NEW t \in Thread, ThreadEnd(t) PROVE OrderInv'
  BY <1>2, <1>15 DEF ThreadEnd, tlsVars, fileVars
<1>16. ASSUME NEW t \in Thread, Exit(t) PROVE OrderInv'
  <2>1. \/ pc[t] = "run"
        \/ pc[t] \in {"note", "noteSpawning", "noteSpawned"}
           /\ act[t] \in BadSites
    BY <1>16 DEF Exit, AfterNote
  <2>2. QED
    BY <1>2, <1>16, <2>1 DEF Exit, tlsVars, fileVars
<1>17. ASSUME NEW t \in Thread, RunHandlers(t) PROVE OrderInv'
  <2>1. pc[t] = "exit" /\ (Goto(t, "final") \/ Goto(t, "leave"))
    BY <1>17 DEF RunHandlers
  <2>2. QED
    BY <1>2, <1>17, <2>1 DEF RunHandlers, tlsVars, fileVars
<1>18. ASSUME NEW t \in Thread, Final(t) PROVE OrderInv'
  BY <1>2, <1>18 DEF Final, tlsVars
<1>19. ASSUME NEW t \in Thread, Die(t) PROVE OrderInv'
  BY <1>1, <1>19 DEF Die, tlsVars, fileVars
<1>20. CASE UNCHANGED vars
  BY <1>1, <1>20 DEF vars, tlsVars, fileVars
<1>21. QED
  BY <1>3, <1>4, <1>5, <1>6, <1>7, <1>8, <1>9, <1>10, <1>11, <1>12, <1>13,
     <1>14, <1>15, <1>16, <1>17, <1>18, <1>19, <1>20
  DEF Next, ProbeStep, TargetStep, Gone

LEMMA OrderInvariant ==
  ASSUME Unannounced = {}, Spawners \cap (Untracked \cup Silent) = {}
  PROVE  Spec => []OrderInv
<1>1. TypeOK /\ TypeOK' /\ NameInv /\ NP!NamingInv /\ OrderInv /\ [Next]_vars
        => OrderInv'
  BY OrderStep
<1>2. NP!NamingSpec => []NP!NamingInv
  BY NP!NamingInvariant
<1>3. QED
  BY <1>1, <1>2, OrderInit, TypeCorrect, NameInvariant, RecorderMeetsNaming,
     PTL DEF Spec

\* The scenario gives back every thread's own program order, nothing lost and
\* nothing of another thread mixed in, for any number of threads and records
\* (probe_RSE.rs:228-236).
THEOREM ScenarioIsProgramOrder ==
  ASSUME Unannounced = {}, Spawners \cap (Untracked \cup Silent) = {}
  PROVE  Spec => []ScenarioKeepsProgramOrder
<1>1. OrderInv => ScenarioKeepsProgramOrder
  BY DEF OrderInv
<1>2. QED
  BY <1>1, OrderInvariant, PTL

\* And so does the thread structure, in the group each thread opened
\* (probe_RSE.rs:171-180, 213-225).
THEOREM StructureIsProgramOrder ==
  ASSUME Unannounced = {}, Spawners \cap (Untracked \cup Silent) = {}
  PROVE  Spec => []StructureKeepsProgramOrder
<1>1. OrderInv => StructureKeepsProgramOrder
  BY DEF OrderInv
<1>2. QED
  BY <1>1, OrderInvariant, PTL

-----------------------------------------------------------------------------
(* The dump.  What _final_ writes is the thread structure of that moment,   *)
(* which is at most one node per thread behind the scenario; the scenario   *)
(* only grows after it.                                                     *)

DumpInv ==
  /\ structFile # NoFile => recording
  /\ structFile \in Seq(Seq(Record)) /\ Len(structFile) <= Len(exe)
  /\ \A g \in 1 .. Len(structFile) : Known(structFile[g])
  /\ DumpAgreesWithScenario

\* A prefix, element by element.
LEMMA PrefixIs ==
  ASSUME NEW s \in Seq(Site), NEW q \in Seq(Site)
  PROVE  IsPrefixOf(s, q) <=> /\ Len(s) <= Len(q)
                              /\ \A i \in 1 .. Len(s) : q[i] = s[i]
<1> DEFINE front == SubSeq(q, 1, Len(s))
<1>1. Len(s) \in Nat /\ Len(q) \in Nat
  BY LenProperties
<1>2. ASSUME Len(s) <= Len(q)
      PROVE  front = s <=> \A i \in 1 .. Len(s) : q[i] = s[i]
  <2>1. /\ 1 \in Int /\ Len(s) \in Int
        /\ \A i \in 1 .. Len(s) : q[i] \in Site
    BY <1>1, <1>2, ElementOfSeq
  <2>2. /\ front \in Seq(Site)
        /\ Len(front) = IF 1 <= Len(s) THEN Len(s) - 1 + 1 ELSE 0
        /\ \A i \in 1 .. Len(s) - 1 + 1 : front[i] = q[1 + i - 1]
    BY <2>1, SubSeqProperties
  <2> HIDE DEF front
  <2>3. Len(front) = Len(s)
    BY <1>1, <2>2
  <2>4. ASSUME NEW i \in 1 .. Len(s) PROVE front[i] = q[i]
    <3>1. i \in 1 .. Len(s) - 1 + 1 /\ 1 + i - 1 = i
      BY <1>1
    <3>2. QED
      BY <2>2, <3>1
  <2>5. ASSUME \A i \in 1 .. Len(s) : q[i] = s[i] PROVE front = s
    BY <2>2, <2>3, <2>4, <2>5, SeqEqual
  <2>6. QED
    BY <2>4, <2>5
<1>3. QED
  BY <1>2 DEF IsPrefixOf

LEMMA PrefixOfLonger ==
  ASSUME NEW s \in Seq(Site), NEW q \in Seq(Site), NEW x \in Site,
         IsPrefixOf(s, q)
  PROVE  IsPrefixOf(s, Append(q, x))
<1> DEFINE more == Append(q, x)
<1>1. /\ Len(s) \in Nat /\ Len(q) \in Nat
      /\ more \in Seq(Site) /\ Len(more) = Len(q) + 1
      /\ \A i \in 1 .. Len(q) : more[i] = q[i]
  BY LenProperties, AppendProperties
<1> HIDE DEF more
<1>2. Len(s) <= Len(q) /\ \A i \in 1 .. Len(s) : q[i] = s[i]
  BY PrefixIs
<1>3. Len(s) <= Len(more) /\ \A i \in 1 .. Len(s) : more[i] = s[i]
  BY <1>1, <1>2
<1>4. IsPrefixOf(s, more)
  BY <1>1, <1>3, PrefixIs
<1>5. QED
  BY <1>4 DEF more

LEMMA EmptyIsPrefixOf ==
  ASSUME NEW q \in Seq(Site)
  PROVE  IsPrefixOf(<<>>, q)
<1> DEFINE none == <<>>
<1>1. none \in Seq(Site) /\ Len(none) = 0 /\ Len(q) \in Nat
  BY EmptySeq, LenProperties
<1> HIDE DEF none
<1>2. IsPrefixOf(none, q)
  <2>1. Len(none) <= Len(q) /\ \A i \in 1 .. Len(none) : q[i] = none[i]
    BY <1>1
  <2>2. QED
    BY <1>1, <2>1, PrefixIs
<1>3. QED
  BY <1>2 DEF none

\* The structure is at most one node behind the scenario.
LEMMA NotedIsRecorded ==
  ASSUME TypeOK, NEW t \in Thread, ActsInv(t)
  PROVE  IsPrefixOf(Noted(t), Recorded(t))
<1>1. acts[t] \in Seq(Site) /\ DropLast(acts[t], FALSE) = acts[t]
  BY DEF TypeOK, DropLast
<1>2. CASE Noted(t) = Recorded(t)
  <2>1. Recorded(t) \in Seq(Site)
    <3>1. CASE pc[t] \in Unrecorded
      BY <1>1, <3>1, DropLastThenAppend
      DEF Recorded, DropLast, ActsInv, Unnoted
    <3>2. CASE pc[t] \notin Unrecorded
      BY <1>1, <3>2 DEF Recorded, DropLast
    <3>3. QED
      BY <3>1, <3>2
  <2>2. Len(Recorded(t)) \in Nat
    BY <2>1, LenProperties
  <2>3. QED
    BY <1>2, <2>1, <2>2, PrefixIs
<1>3. CASE Noted(t) # Recorded(t)
  <2>1. OwesNode(t) /\ pc[t] \notin Unrecorded
    BY <1>3 DEF Noted, Recorded, DropLast, OwesNode, Unnoted
  <2>2. acts[t] # <<>>
    <3>1. CASE pc[t] \in Unnoted
      BY <3>1 DEF ActsInv
    <3>2. CASE PanickedInNote(t)
      BY <3>2, RecorderAssumption DEF PanickedInNote, ActsInv
    <3>3. QED
      BY <2>1, <3>1, <3>2 DEF OwesNode
  <2>3. Recorded(t) = acts[t] /\ Noted(t) = DropLast(acts[t], TRUE)
    BY <2>1 DEF Noted, Recorded, DropLast, OwesNode
  <2> DEFINE s == DropLast(acts[t], TRUE)
             x == acts[t][Len(acts[t])]
  <2>4. s \in Seq(Site) /\ x \in Site /\ Append(s, x) = acts[t]
    BY <1>1, <2>2, DropLastThenAppend
  <2> HIDE DEF s, x
  <2>5. IsPrefixOf(s, s)
    <3>1. Len(s) \in Nat
      BY <2>4, LenProperties
    <3>2. QED
      BY <2>4, <3>1, PrefixIs
  <2>6. IsPrefixOf(s, Append(s, x))
    BY <2>4, <2>5, PrefixOfLonger
  <2>7. QED
    BY <2>3, <2>4, <2>6 DEF s
<1>4. QED
  BY <1>2, <1>3

LEMMA DumpInit == Init => DumpInv
<1> SUFFICES ASSUME Init PROVE DumpInv
  OBVIOUS
<1>1. structFile = NoFile /\ Len(exe) = 1
  BY DEF Init
<1>2. structFile \in Seq(Seq(Record)) /\ Len(structFile) = 0
  BY <1>1, EmptySeq DEF NoFile
<1>3. QED
  BY <1>1, <1>2 DEF DumpInv, DumpAgreesWithScenario

\* The dump stays what it was while the structure grows.
LEMMA QuietKeepsDump ==
  ASSUME DumpInv, UNCHANGED <<log, exeNode, tid, recording, structFile>>,
         exe \in Seq(Seq(Record)), Len(exe') = Len(exe)
  PROVE  DumpInv'
<1>1. Tracked' = Tracked
  BY DEF Tracked
<1>2. DumpAgreesWithScenario'
  BY <1>1 DEF DumpInv, DumpAgreesWithScenario
<1>3. QED
  BY <1>2 DEF DumpInv, Known

LEMMA DumpStep ==
  ASSUME TypeOK, NameInv, NP!NamingInv, OrderInv, DumpInv, [Next]_vars
  PROVE  DumpInv'
<1>0. /\ exe \in Seq(Seq(Record)) /\ Len(exe) \in Nat /\ log \in Seq(Record)
      /\ structFile \in Seq(Seq(Record)) /\ Len(structFile) \in Nat
      /\ DOMAIN structFile = 1 .. Len(structFile)
      /\ \A g \in 1 .. Len(structFile) : structFile[g] \in Seq(Record)
  BY LenProperties, ElementOfSeq DEF TypeOK, DumpInv, Record
<1>1. ASSUME UNCHANGED <<log, exe, exeNode, tid, recording, structFile>>
      PROVE  DumpInv'
  BY <1>0, <1>1, QuietKeepsDump
\* The scenario grows.
<1>2. ASSUME NEW t \in Thread, RecordScenario(t) PROVE DumpInv'
  <2>1. /\ log' = Append(log, <<tid[t], act[t]>>) /\ act[t] \in Site
        /\ UNCHANGED <<exe, exeNode, tid, recording, structFile>>
    BY <1>2 DEF RecordScenario, tlsVars, TypeOK
  <2>2. ASSUME NEW u \in Tracked, exeNode[u] \in DOMAIN structFile,
               structFile # NoFile
        PROVE  IsPrefixOf(SitesOf(structFile[exeNode[u]], tid[u]),
                          SitesOf(log', tid[u]))
    <3> DEFINE dumped == SitesOf(structFile[exeNode[u]], tid[u])
               written == SitesOf(log, tid[u])
    <3>1. IsPrefixOf(dumped, written)
      BY <2>2 DEF DumpInv, DumpAgreesWithScenario
    <3>2. dumped \in Seq(Site) /\ written \in Seq(Site)
      BY <1>0, <2>2, SitesOfType
    <3>3. SitesOf(log', tid[u]) = IF u = t THEN Append(written, act[t])
                                  ELSE written
      BY <1>0, <2>1, OwnRecord
    <3> HIDE DEF dumped, written
    <3>4. IsPrefixOf(dumped, Append(written, act[t]))
      BY <2>1, <3>1, <3>2, PrefixOfLonger
    <3>5. IsPrefixOf(dumped, SitesOf(log', tid[u]))
      BY <3>1, <3>3, <3>4
    <3>6. QED
      BY <3>5 DEF dumped
  <2>3. Tracked' = Tracked
    BY <2>1 DEF Tracked
  <2>4. DumpAgreesWithScenario'
    BY <2>1, <2>2, <2>3 DEF DumpAgreesWithScenario
  <2>5. QED
    BY <2>1, <2>4 DEF DumpInv, Known
\* The structure grows behind the dump.
<1>3. ASSUME NEW t \in Thread, RecordStructure(t) PROVE DumpInv'
  <2>1. UNCHANGED <<log, exeNode, tid, recording, structFile>>
        /\ exe' = IF recording
                  THEN [exe EXCEPT ![exeNode[t]] = Append(@, NodeOf(t))]
                  ELSE exe
    BY <1>3 DEF RecordStructure, tlsVars
  <2>2. exeNode[t] \in 1 .. Len(exe) /\ NodeOf(t) \in Record
    <3>1. exeNode[t] \in Nat \ {0} /\ exeNode[t] <= Len(exe)
      BY DEF TypeOK
    <3>2. exeNode[t] \in 1 .. Len(exe)
      BY <1>0, <3>1
    <3>3. QED
      BY <3>2, RecordType
  <2>3. Len([exe EXCEPT ![exeNode[t]] = Append(@, NodeOf(t))]) = Len(exe)
    BY <1>0, <2>2, PushNode
  <2>4. QED
    BY <1>0, <2>1, <2>3, QuietKeepsDump
\* A thread opens a group that the dump has not.
<1>4. ASSUME NEW c \in Thread, SpawnedOpen(c) PROVE DumpInv'
  <2>1. UNCHANGED <<log, tid, recording, structFile>>
    BY <1>4 DEF SpawnedOpen
  <2>2. CASE ~recording
    BY <1>1, <1>4, <2>1, <2>2 DEF SpawnedOpen
  <2>3. CASE recording
    <3>1. /\ exe' = Append(exe, <<>>)
          /\ exeNode' = [exeNode EXCEPT ![c] = Len(exe) + 1]
      BY <1>4, <2>3 DEF SpawnedOpen, NewGroup
    <3>2. Len(exe') = Len(exe) + 1
      <4>1. <<>> \in Seq(Record)
        BY EmptySeq
      <4>2. QED
        BY <1>0, <3>1, <4>1, AppendProperties
    <3>3. ASSUME NEW u \in Thread, exeNode'[u] \in DOMAIN structFile
          PROVE  exeNode'[u] = exeNode[u]
      <4>1. exeNode \in [Thread -> Nat \ {0}] /\ Len(structFile) <= Len(exe)
        BY DEF TypeOK, DumpInv
      <4>2. CASE u = c
        <5>1. exeNode'[u] = Len(exe) + 1
          BY <3>1, <4>1, <4>2
        <5>2. QED
          BY <1>0, <3>3, <4>1, <5>1
      <4>3. CASE u # c
        BY <3>1, <4>1, <4>3
      <4>4. QED
        BY <4>2, <4>3
    <3>4. Tracked' = Tracked /\ Tracked \subseteq Thread
      BY <2>1 DEF Tracked
    <3>5. DumpAgreesWithScenario'
      BY <2>1, <3>3, <3>4 DEF DumpInv, DumpAgreesWithScenario
    <3>6. QED
      BY <1>0, <2>1, <3>2, <3>5 DEF DumpInv, Known
  <2>4. QED
    BY <2>2, <2>3 DEF TypeOK
\* A name nobody answered to before is not in the dump.
<1>5. ASSUME NEW c \in Thread, SpawnedTakeTid(c) PROVE DumpInv'
  <2>1. /\ pc[c] = "born" /\ tid' = [tid EXCEPT ![c] = newTid]
        /\ UNCHANGED <<log, exe, exeNode, recording, structFile>>
    BY <1>5 DEF SpawnedTakeTid, fileVars
  <2>2. newTid = lineage[c] /\ lineage[c] # None /\ tid[c] = None
        /\ tid \in [Thread -> Seq(Nat)]
    BY <2>1 DEF NameInv, BornInv, TypeOK
  <2>3. tid'[c] = lineage[c] /\ \A u \in Thread : tid[u] # None => tid'[u] = tid[u]
    BY <2>1, <2>2
  <2>4. Tracked' \subseteq Tracked \cup {c}
        /\ \A u \in Thread \ {c} : tid'[u] = tid[u]
    BY <2>1, <2>2 DEF Tracked
  <2>5. ASSUME NEW u \in Tracked', exeNode[u] \in DOMAIN structFile,
               structFile # NoFile
        PROVE  IsPrefixOf(SitesOf(structFile[exeNode[u]], tid'[u]),
                          SitesOf(log, tid'[u]))
    <3>1. CASE u = c
      <4>1. Known(structFile[exeNode[c]]) /\ structFile[exeNode[c]] \in Seq(Record)
        BY <1>0, <2>5, <3>1 DEF DumpInv
      <4>2. SitesOf(structFile[exeNode[c]], lineage[c]) = <<>>
        BY <2>2, <4>1, UnusedName
      <4>3. SitesOf(log, lineage[c]) \in Seq(Site)
        BY <1>0, SitesOfType
      <4>4. IsPrefixOf(<<>>, SitesOf(log, lineage[c]))
        BY <4>3, EmptyIsPrefixOf
      <4>5. QED
        BY <2>3, <3>1, <4>2, <4>4
    <3>2. CASE u # c
      <4>1. u \in Tracked /\ tid'[u] = tid[u]
        BY <2>4, <3>2 DEF Tracked
      <4>2. QED
        BY <2>5, <4>1 DEF DumpInv, DumpAgreesWithScenario
    <3>3. QED
      BY <3>1, <3>2
  <2>6. DumpAgreesWithScenario'
    BY <2>1, <2>5 DEF DumpAgreesWithScenario
  <2>7. \A g \in 1 .. Len(structFile) : \A j \in 1 .. Len(structFile[g]) :
          structFile[g][j][1] = None
            \/ \E u \in Thread : tid'[u] = structFile[g][j][1]
    BY <2>3 DEF DumpInv, Known
  <2>8. QED
    BY <2>1, <2>6, <2>7 DEF DumpInv, Known
\* _final_ dumps the structure.
<1>6. ASSUME NEW t \in Thread, Final(t) PROVE DumpInv'
  <2>1. /\ UNCHANGED <<log, exe, exeNode, tid, acts, recording>>
        /\ structFile' = IF recording THEN exe ELSE structFile
    BY <1>6 DEF Final, tlsVars
  <2>2. CASE ~recording
    BY <1>1, <2>1, <2>2
  <2>3. CASE recording
    <3>1. ASSUME NEW u \in Tracked
          PROVE  IsPrefixOf(SitesOf(exe[exeNode[u]], tid[u]),
                            SitesOf(log, tid[u]))
      <4>1. u \in Thread
        BY DEF Tracked
      <4>2. SitesOf(exe[exeNode[u]], tid[u]) = Noted(u)
        BY <2>3 DEF OrderInv, StructureKeepsProgramOrder
      <4>3. SitesOf(log, tid[u]) = Recorded(u)
        BY DEF OrderInv, ScenarioKeepsProgramOrder
      <4>4. ActsInv(u)
        BY <4>1 DEF OrderInv
      <4>5. QED
        BY <4>1, <4>2, <4>3, <4>4, NotedIsRecorded
    <3>2. Tracked' = Tracked
      BY <2>1 DEF Tracked
    <3>3. DumpAgreesWithScenario'
      BY <2>1, <2>3, <3>1, <3>2 DEF DumpAgreesWithScenario
    <3>4. QED
      BY <1>0, <2>1, <2>3, <3>3 DEF DumpInv, OrderInv, Known
  <2>4. QED
    BY <2>2, <2>3 DEF TypeOK
<1>7. ASSUME NEW t \in Thread,
             \/ SpawningDec(t) \/ SpawningRetest(t) \/ SpawningSpuriousWake(t)
             \/ SpawningName(t) \/ SpawnedInc(t) \/ ThreadEnd(t) \/ Exit(t)
             \/ RunHandlers(t) \/ Die(t)
             \/ \E f \in Func : ProbeCall(t, f)
             \/ \E c \in Thread : ThreadSpawn(t, c) \/ UninstrumentedSpawn(t, c)
      PROVE  DumpInv'
  <2>1. UNCHANGED <<log, exe, exeNode, tid, recording, structFile>>
    BY <1>7
    DEF SpawningDec, SpawningRetest, SpawningSpuriousWake, SpawningName,
        SpawnedInc, ThreadEnd, Exit, RunHandlers, Die, ProbeCall, ThreadSpawn,
        UninstrumentedSpawn, tlsVars, fileVars
  <2>2. QED
    BY <1>1, <2>1
<1>8. CASE UNCHANGED vars
  BY <1>1, <1>8 DEF vars, tlsVars, fileVars
<1>9. QED
  BY <1>2, <1>3, <1>4, <1>5, <1>6, <1>7, <1>8
  DEF Next, ProbeStep, TargetStep, Gone

\* The dump of _final_ never shows a thread doing what the scenario does not,
\* whatever is still recorded after it (probe_RSE.rs:80-95 after 228-236).
THEOREM DumpFollowsScenario ==
  ASSUME Unannounced = {}, Spawners \cap (Untracked \cup Silent) = {}
  PROVE  Spec => []DumpAgreesWithScenario
<1>1. TypeOK /\ NameInv /\ NP!NamingInv /\ OrderInv /\ DumpInv /\ [Next]_vars
        => DumpInv'
  BY DumpStep
<1>2. NP!NamingSpec => []NP!NamingInv
  BY NP!NamingInvariant
<1>3. DumpInv => DumpAgreesWithScenario
  BY DEF DumpInv
<1>4. QED
  BY <1>1, <1>2, <1>3, DumpInit, OrderInvariant, TypeCorrect, NameInvariant,
     RecorderMeetsNaming, PTL DEF Spec

-----------------------------------------------------------------------------
(* The exit.  The first thread to run the handlers finds _final_ and is the *)
(* only one that ever does; while it is past it the dump holds what that    *)
(* thread noted, because a thread that leaves does nothing any more.        *)

Ended == {"final", "leave"}

Dumped(d) ==
  /\ structFile # NoFile
  /\ exeNode[d] \in DOMAIN structFile
  /\ d \in Tracked =>
       SitesOf(structFile[exeNode[d]], tid[d]) = Noted(d)

\* d is the thread that ran _final_.
Finalizer(d) ==
  /\ pc[d] \in Ended
  /\ \A u \in Thread \ {d} : pc[u] # "final"
  /\ recording /\ pc[d] = "leave" => Dumped(d)

ExitInv ==
  /\ dead => \E t \in Thread : pc[t] = "leave"
  /\ handler => \A t \in Thread : pc[t] \notin Ended
  /\ ~handler => \E d \in Thread : Finalizer(d)

LEMMA ExitInit == Init => ExitInv
BY DEF Init, ExitInv, AtExitRegistered, Ended

\* A step of the threads that are not through exit() yet.
LEMMA OthersKeepExit ==
  ASSUME ExitInv, UNCHANGED <<handler, structFile, recording, dead>>,
         \A u \in Thread :
           pc[u] \in Ended \/ pc'[u] \in Ended =>
             /\ pc'[u] = pc[u] /\ act'[u] = act[u] /\ acts'[u] = acts[u]
             /\ tid'[u] = tid[u] /\ exeNode'[u] = exeNode[u]
  PROVE  ExitInv'
<1>1. ASSUME NEW d \in Thread, Finalizer(d) PROVE Finalizer(d)'
  <2>1. /\ pc[d] \in Ended /\ pc'[d] = pc[d] /\ act'[d] = act[d]
        /\ acts'[d] = acts[d] /\ tid'[d] = tid[d] /\ exeNode'[d] = exeNode[d]
    BY <1>1 DEF Finalizer
  <2>2. \A u \in Thread \ {d} : pc'[u] # "final"
    BY <1>1 DEF Finalizer, Ended
  <2>3. (d \in Tracked)' <=> d \in Tracked
    BY <2>1 DEF Tracked
  <2>4. Noted(d)' = Noted(d)
    BY <2>1 DEF Noted, DropLast, PanickedInNote
  <2>5. Dumped(d) => Dumped(d)'
    BY <2>1, <2>3, <2>4 DEF Dumped
  <2>6. QED
    BY <1>1, <2>1, <2>2, <2>5 DEF Finalizer
<1>2. dead => \E t \in Thread : pc'[t] = "leave"
  BY DEF ExitInv, Ended
<1>3. handler => \A t \in Thread : pc'[t] \notin Ended
  BY DEF ExitInv
<1>4. ~handler => \E d \in Thread : Finalizer(d)'
  BY <1>1 DEF ExitInv
<1>5. QED
  BY <1>2, <1>3, <1>4 DEF ExitInv

LEMMA ExitStep ==
  ASSUME TypeOK, OrderInv, ExitInv, [Next]_vars
  PROVE  ExitInv'
<1>0. /\ pc \in [Thread -> PC] /\ act \in [Thread -> Site]
      /\ acts \in [Thread -> Seq(Site)] /\ tid \in [Thread -> Seq(Nat)]
      /\ exeNode \in [Thread -> Nat \ {0}]
  BY DEF TypeOK
<1>1. ASSUME UNCHANGED <<pc, act, acts, tid, exeNode>>,
             UNCHANGED <<handler, structFile, recording, dead>>
      PROVE  ExitInv'
  BY <1>1, OthersKeepExit
\* One thread moves on, before exit() or into it.
<1>2. ASSUME NEW t \in Thread, NEW label, Goto(t, label),
             pc[t] \notin Ended, label \notin Ended,
             UNCHANGED <<handler, structFile, recording, dead>>,
             \A u \in Thread \ {t} :
               /\ act'[u] = act[u] /\ acts'[u] = acts[u]
               /\ tid'[u] = tid[u] /\ exeNode'[u] = exeNode[u]
      PROVE  ExitInv'
  <2>1. \A u \in Thread : pc'[u] = IF u = t THEN label ELSE pc[u]
    BY <1>0, <1>2 DEF Goto
  <2>2. QED
    BY <1>2, <2>1, OthersKeepExit
<1>3. ASSUME NEW t \in Thread, RecordScenario(t) PROVE ExitInv'
  <2>1. /\ pc[t] \notin Ended /\ AfterRecord[pc[t]] \notin Ended
        /\ Goto(t, AfterRecord[pc[t]])
        /\ UNCHANGED <<act, acts, tid, exeNode>>
        /\ UNCHANGED <<handler, structFile, recording, dead>>
    BY <1>3 DEF RecordScenario, AfterRecord, Ended, tlsVars
  <2>2. QED
    BY <1>2, <2>1
<1>4. ASSUME NEW t \in Thread, RecordStructure(t) PROVE ExitInv'
  <2>1. /\ pc[t] \notin Ended /\ AfterNote[pc[t]] \notin Ended
        /\ Goto(t, AfterNote[pc[t]])
        /\ UNCHANGED <<act, acts, tid, exeNode>>
        /\ UNCHANGED <<handler, structFile, recording, dead>>
    BY <1>4 DEF RecordStructure, AfterNote, Ended, tlsVars
  <2>2. QED
    BY <1>2, <2>1
<1>5. ASSUME NEW t \in Thread, NEW f \in Func, ProbeCall(t, f) PROVE ExitInv'
  <2>1. \A u \in Thread \ {t} : act'[u] = act[u] /\ acts'[u] = acts[u]
    BY <1>0, <1>5 DEF ProbeCall, Reach
  <2>2. /\ pc[t] \notin Ended /\ "record" \notin Ended /\ Goto(t, "record")
        /\ UNCHANGED <<tid, exeNode, handler, structFile, recording, dead>>
    BY <1>5 DEF ProbeCall, ProbeEntry, Ended, tlsVars, fileVars
  <2>3. QED
    BY <1>2, <2>1, <2>2
<1>6. ASSUME NEW t \in Thread, SpawningDec(t) PROVE ExitInv'
  <2>1. \A u \in Thread \ {t} : act'[u] = act[u] /\ acts'[u] = acts[u]
    BY <1>0, <1>6 DEF SpawningDec, Reach
  <2>2. /\ pc[t] \notin Ended
        /\ UNCHANGED <<tid, exeNode, handler, structFile, recording, dead>>
    BY <1>6 DEF SpawningDec, Ended, tlsVars, fileVars
  <2>3. \E label \in {"dec", "recordSpawning"} : Goto(t, label)
    BY <1>6 DEF SpawningDec, AfterDec
  <2>4. {"dec", "recordSpawning"} \cap Ended = {}
    BY DEF Ended
  <2>5. QED
    BY <1>2, <2>1, <2>2, <2>3, <2>4
<1>7. ASSUME NEW t \in Thread, SpawningRetest(t) PROVE ExitInv'
  <2>1. /\ pc[t] \notin Ended /\ "recordSpawning" \notin Ended
        /\ Goto(t, "recordSpawning") \/ UNCHANGED pc
        /\ UNCHANGED <<act, acts, tid, exeNode>>
        /\ UNCHANGED <<handler, structFile, recording, dead>>
    BY <1>7 DEF SpawningRetest, AfterDec, Ended, tlsVars, fileVars
  <2>2. QED
    BY <1>1, <1>2, <2>1
<1>8. ASSUME NEW t \in Thread, SpawningSpuriousWake(t) PROVE ExitInv'
  BY <1>1, <1>8 DEF SpawningSpuriousWake, tlsVars, fileVars
\* Nothing but where the thread is.
<1>9. ASSUME NEW t \in Thread,
             SpawningName(t) \/ SpawnedInc(t) \/ ThreadEnd(t) \/ Exit(t)
      PROVE  ExitInv'
  <2>1. UNCHANGED <<act, acts, tid, exeNode, handler, structFile, recording, dead>>
    BY <1>9
    DEF SpawningName, SpawnedInc, ThreadEnd, Exit, tlsVars, fileVars
  <2>2. pc[t] \notin Ended
    BY <1>9
    DEF SpawningName, SpawnedInc, ThreadEnd, Exit, AfterNote, Ended
  <2>3. \E label \in {"noteSpawning", "recordSpawned", "done", "exit"} :
          Goto(t, label)
    BY <1>9 DEF SpawningName, SpawnedInc, ThreadEnd, Exit
  <2>4. {"noteSpawning", "recordSpawned", "done", "exit"} \cap Ended = {}
    BY DEF Ended
  <2>5. QED
    BY <1>2, <2>1, <2>2, <2>3, <2>4
<1>10. ASSUME NEW p \in Thread, NEW c \in Thread, ThreadSpawn(p, c)
       PROVE  ExitInv'
  <2>1. /\ pc[p] = "spawn" /\ pc[c] = "unborn"
        /\ UNCHANGED <<act, acts, tid, exeNode>>
        /\ UNCHANGED <<handler, structFile, recording, dead>>
    BY <1>10 DEF ThreadSpawn, Unborn, tlsVars, fileVars
  <2>2. PICK first \in {"born", "run"} :
          pc' = [pc EXCEPT ![p] = "run", ![c] = first]
    BY <1>10 DEF ThreadSpawn, FirstSteps
  <2>3. \A u \in Thread :
          pc[u] \in Ended \/ pc'[u] \in Ended => pc'[u] = pc[u]
    BY <1>0, <2>1, <2>2 DEF Ended
  <2>4. QED
    BY <2>1, <2>3, OthersKeepExit
<1>11. ASSUME NEW p \in Thread, NEW c \in Thread, UninstrumentedSpawn(p, c)
       PROVE  ExitInv'
  <2>1. /\ pc[c] \notin Ended
        /\ UNCHANGED <<act, acts, tid, exeNode>>
        /\ UNCHANGED <<handler, structFile, recording, dead>>
    BY <1>11 DEF UninstrumentedSpawn, Ended, tlsVars, fileVars
  <2>2. \E label \in {"born", "run"} : Goto(c, label)
    BY <1>11 DEF UninstrumentedSpawn
  <2>3. {"born", "run"} \cap Ended = {}
    BY DEF Ended
  <2>4. QED
    BY <1>2, <2>1, <2>2, <2>3
<1>12. ASSUME NEW c \in Thread, SpawnedTakeTid(c) PROVE ExitInv'
  <2>1. \A u \in Thread \ {c} :
          act'[u] = act[u] /\ acts'[u] = acts[u] /\ tid'[u] = tid[u]
    BY <1>0, <1>12 DEF SpawnedTakeTid, Reach
  <2>2. /\ pc[c] \notin Ended /\ "inc" \notin Ended /\ Goto(c, "inc")
        /\ UNCHANGED <<exeNode, handler, structFile, recording, dead>>
    BY <1>12 DEF SpawnedTakeTid, AfterTakeTid, Ended, fileVars
  <2>3. QED
    BY <1>2, <2>1, <2>2
<1>13. ASSUME NEW c \in Thread, SpawnedOpen(c) PROVE ExitInv'
  <2>1. \A u \in Thread \ {c} : exeNode'[u] = exeNode[u]
    BY <1>0, <1>13 DEF SpawnedOpen
  <2>2. /\ pc[c] \notin Ended /\ "noteSpawned" \notin Ended
        /\ Goto(c, "noteSpawned")
        /\ UNCHANGED <<act, acts, tid, handler, structFile, recording, dead>>
    BY <1>13 DEF SpawnedOpen, Ended
  <2>3. QED
    BY <1>2, <2>1, <2>2
\* exit() unregisters _final_ before it runs it: only the first thread finds it.
<1>14. ASSUME NEW t \in Thread, RunHandlers(t) PROVE ExitInv'
  <2>1. /\ pc[t] = "exit" /\ handler' = FALSE
        /\ Goto(t, IF handler THEN "final" ELSE "leave")
        /\ UNCHANGED <<act, acts, tid, exeNode, structFile, recording, dead>>
    BY <1>14 DEF RunHandlers, tlsVars, fileVars
  <2>2. CASE handler
    <3>1. pc' = [pc EXCEPT ![t] = "final"] /\ ~dead
      BY <2>1, <2>2 DEF Goto, ExitInv, Ended
    <3>2. pc'[t] = "final" /\ \A u \in Thread \ {t} : pc'[u] # "final"
      BY <1>0, <2>2, <3>1 DEF ExitInv, Ended
    <3>3. Finalizer(t)'
      BY <3>2 DEF Finalizer, Ended
    <3>4. QED
      BY <2>1, <3>1, <3>3 DEF ExitInv
  <2>3. CASE ~handler
    <3>1. pc' = [pc EXCEPT ![t] = "leave"]
      BY <2>1, <2>3 DEF Goto
    <3>2. PICK d \in Thread : Finalizer(d)
      BY <2>3 DEF ExitInv
    <3>3. d # t /\ pc'[d] = pc[d]
      BY <1>0, <2>1, <3>1, <3>2 DEF Finalizer, Ended
    <3>4. \A u \in Thread \ {d} : pc'[u] # "final"
      BY <1>0, <3>1, <3>2 DEF Finalizer
    <3>5. Tracked' = Tracked /\ Noted(d)' = Noted(d)
      BY <2>1, <3>3 DEF Tracked, Noted, DropLast, PanickedInNote
    <3>6. Dumped(d)' <=> Dumped(d)
      BY <2>1, <3>5 DEF Dumped
    <3>7. Finalizer(d)'
      BY <2>1, <3>2, <3>3, <3>4, <3>6 DEF Finalizer
    <3>8. pc'[t] = "leave"
      BY <1>0, <3>1
    <3>9. QED
      BY <2>1, <3>7, <3>8 DEF ExitInv
  <2>4. QED
    BY <2>2, <2>3 DEF TypeOK
\* _final_ dumps the structure, which holds what the thread noted.
<1>15. ASSUME NEW t \in Thread, Final(t) PROVE ExitInv'
  <2>1. /\ pc[t] = "final" /\ pc' = [pc EXCEPT ![t] = "leave"]
        /\ structFile' = IF recording THEN exe ELSE structFile
        /\ UNCHANGED <<act, acts, tid, exeNode, exe, handler, recording, dead>>
    BY <1>15 DEF Final, Goto, tlsVars
  <2>2. ~handler
    BY <2>1 DEF ExitInv, Ended
  <2>3. PICK d \in Thread : Finalizer(d)
    BY <2>2 DEF ExitInv
  <2>4. d = t
    BY <2>1, <2>3 DEF Finalizer
  <2>5. pc'[t] = "leave" /\ \A u \in Thread \ {t} : pc'[u] # "final"
    BY <1>0, <2>1, <2>3, <2>4 DEF Finalizer
  <2>6. Tracked' = Tracked /\ Noted(t)' = Noted(t)
    BY <2>1, <2>5
    DEF Tracked, Noted, DropLast, PanickedInNote, Unnoted, Unrecorded
  <2>7. ASSUME recording PROVE Dumped(t)'
    <3>1. structFile' = exe /\ exe \in Seq(Seq(Record)) /\ Len(exe) \in Nat
      BY <2>1, <2>7, LenProperties DEF TypeOK, Record
    <3>2. exeNode[t] \in Nat \ {0} /\ exeNode[t] <= Len(exe)
      BY DEF TypeOK
    <3>3. exeNode[t] \in DOMAIN exe
      BY <3>1, <3>2, LenProperties
    <3>4. exe # NoFile
      BY <3>3 DEF NoFile
    <3>5. t \in Tracked => SitesOf(exe[exeNode[t]], tid[t]) = Noted(t)
      BY <2>7 DEF OrderInv, StructureKeepsProgramOrder
    <3>6. QED
      BY <2>1, <2>6, <3>1, <3>3, <3>4, <3>5 DEF Dumped
  <2>8. Finalizer(t)'
    BY <2>1, <2>5, <2>7 DEF Finalizer, Ended
  <2>9. QED
    BY <2>1, <2>2, <2>5, <2>8 DEF ExitInv
<1>16. ASSUME NEW t \in Thread, Die(t) PROVE ExitInv'
  <2>1. /\ pc[t] = "leave" /\ dead' = TRUE
        /\ UNCHANGED <<pc, act, acts, tid, exeNode, handler, structFile, recording>>
    BY <1>16 DEF Die, tlsVars, fileVars
  <2>2. \A d \in Thread : Finalizer(d)' <=> Finalizer(d)
    BY <2>1
    DEF Finalizer, Dumped, Tracked, Noted, DropLast, PanickedInNote
  <2>3. QED
    BY <2>1, <2>2 DEF ExitInv
<1>17. CASE UNCHANGED vars
  BY <1>1, <1>17 DEF vars, tlsVars, fileVars
<1>18. QED
  BY <1>3, <1>4, <1>5, <1>6, <1>7, <1>8, <1>9, <1>10, <1>11, <1>12, <1>13,
     <1>14, <1>15, <1>16, <1>17
  DEF Next, ProbeStep, TargetStep, Gone

\* If one thread alone ends the process, the dump is on disk when the process
\* is gone and holds all that this thread did, except the node whose recording
\* is what panicked (probe_RSE.rs:64, 73-77, 80-95).
THEOREM LoneExitDumps ==
  ASSUME Unannounced = {}, Spawners \cap (Untracked \cup Silent) = {}
  PROVE  Spec => []LoneExitIsDumped
<1>1. TypeOK /\ OrderInv /\ ExitInv /\ [Next]_vars => ExitInv'
  BY ExitStep
<1>2. ExitInv => LoneExitIsDumped
  <2> SUFFICES ASSUME ExitInv, dead, recording, Cardinality(Exiting) = 1
               PROVE  /\ structFile # NoFile
                      /\ \A t \in Exiting \cap Tracked :
                           SitesOf(structFile[exeNode[t]], tid[t]) = Noted(t)
    BY DEF LoneExitIsDumped
  <2>1. IsFiniteSet(Exiting)
    BY ThreadAssumption, FS_Subset DEF Exiting
  <2>2. PICK e : Exiting = {e}
    BY <2>1, FS_Singleton
  <2>3. PICK x \in Thread : pc[x] = "leave"
    BY DEF ExitInv
  <2>4. PICK d \in Thread : Finalizer(d)
    BY <2>3 DEF ExitInv, Ended
  <2>5. x = e /\ d = e
    BY <2>2, <2>3, <2>4 DEF Exiting, Finalizer, Ended
  <2>6. Dumped(e)
    BY <2>3, <2>4, <2>5 DEF Finalizer
  <2>7. QED
    BY <2>2, <2>6 DEF Dumped
<1>3. QED
  BY <1>1, <1>2, ExitInit, OrderInvariant, TypeCorrect, PTL DEF Spec
=============================================================================
