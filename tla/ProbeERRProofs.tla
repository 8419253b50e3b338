--------------------------- MODULE ProbeERRProofs ---------------------------
(***************************************************************************)
(* What holds of the replayer for any target, any scenario and any number   *)
(* of threads.                                                              *)
(*                                                                         *)
(* First part, whoever was announced: the types, the mutex of the light,    *)
(* and that the log and the queue are the two halves of the scenario.       *)
(* Second part, for targets whose threads are all announced: the permit     *)
(* covers a spawn from dec to inc, across the light, and the name left for  *)
(* the child is still there when the child reads it.                        *)
(* Third part, for targets with a probe at each lock and unlock: a replay    *)
(* repeats the critical sections and the panic of the recorded run.          *)
(***************************************************************************)
EXTENDS RecordReplay, ProbeSemaphoreProofs, SequenceTheorems

Act == Seq(Nat) \X Site

-----------------------------------------------------------------------------
(* Types, mutex and queue.                                                  *)

\* Whoever is between lock and release of the light is the one that holds it.
MutexInv == \A t \in Inside : light = {t}

\* What passed is the beginning of the scenario, what is queued the rest of it
\* and, if the file ended in no newline, the empty act.
QueueInv ==
  /\ scenario \in Seq(Act) /\ log \in Seq(Act)
  /\ Len(log) <= Len(scenario)
  /\ log = SubSeq(scenario, 1, Len(log))
  /\ \E newline \in BOOLEAN :
       LET all == QueueOf(scenario, newline) IN
       queue = SubSeq(all, Len(log) + 1, Len(all))

\* Who found the queue empty: it stays empty.
StarvedInv == \A t \in Thread : pc[t] = "starved" => queue = <<>>

LEMMA ActIsNotEmpty == \A a \in Act : a # EmptyAct
<1> SUFFICES ASSUME NEW a \in Act PROVE a # <<>>
  BY DEF EmptyAct
<1>1. a = <<a[1], a[2]>>
  BY DEF Act
<1>2. Len(<<a[1], a[2]>>) = 2 /\ Len(<<>>) = 0
  OBVIOUS
<1>3. QED
  BY <1>1, <1>2

\* The queue _ReplayDirector::new builds.
LEMMA QueueOfProperties ==
  ASSUME NEW acts \in Seq(Act), NEW newline \in BOOLEAN
  PROVE  LET all == QueueOf(acts, newline) IN
         /\ all \in Seq({EmptyAct} \cup Act)
         /\ Len(all) = IF newline THEN Len(acts) ELSE Len(acts) + 1
         /\ \A i \in 1 .. Len(acts) : all[i] = acts[i]
         /\ \A i \in 1 .. Len(all) : i > Len(acts) => all[i] = EmptyAct
<1>1. acts \in Seq({EmptyAct} \cup Act)
  OBVIOUS
<1>2. CASE newline
  BY <1>1, <1>2 DEF QueueOf
<1>3. CASE ~newline
  BY <1>1, <1>3 DEF QueueOf
<1>4. QED
  BY <1>2, <1>3

LEMMA QueueInit == Init => MutexInv /\ QueueInv /\ StarvedInv
<1> SUFFICES ASSUME Init PROVE MutexInv /\ QueueInv /\ StarvedInv
  OBVIOUS
<1>1. scenario \in Seq(Act)
  BY ReplayerAssumption DEF Init, Act
<1>2. PICK newline \in BOOLEAN : queue = QueueOf(scenario, newline)
  BY DEF Init
<1>3. DEFINE all == QueueOf(scenario, newline)
<1>4. all = SubSeq(all, 1, Len(all))
  BY <1>1, QueueOfProperties, SubSeqFull
<1>5. log = <<>> /\ Len(log) = 0 /\ SubSeq(scenario, 1, 0) = <<>>
  BY SubSeqEmpty DEF Init
<1>6. QueueInv
  BY <1>1, <1>2, <1>4, <1>5, LenProperties DEF QueueInv
<1>7. MutexInv /\ StarvedInv
  BY DEF Init, MutexInv, StarvedInv, Inside
<1>8. QED
  BY <1>6, <1>7

\* An act passes: it is the next of the scenario and moves to the log.
LEMMA PassMovesAct ==
  ASSUME QueueInv, NEW t \in Thread, Pass(t), tid[t] \in Seq(Nat),
         act[t] \in Site
  PROVE  QueueInv'
<1> DEFINE n == Len(log)
           a == <<tid[t], act[t]>>
<1>1. PICK newline \in BOOLEAN :
        queue = SubSeq(QueueOf(scenario, newline), n + 1,
                       Len(QueueOf(scenario, newline)))
  BY DEF QueueInv
<1> DEFINE all == QueueOf(scenario, newline)
<1>2. /\ scenario \in Seq(Act) /\ n <= Len(scenario)
      /\ log = SubSeq(scenario, 1, n) /\ Len(scenario) \in Nat
  BY LenProperties DEF QueueInv
<1>3. /\ all \in Seq({EmptyAct} \cup Act)
      /\ Len(all) = IF newline THEN Len(scenario) ELSE Len(scenario) + 1
      /\ \A i \in 1 .. Len(scenario) : all[i] = scenario[i]
      /\ \A i \in 1 .. Len(all) : i > Len(scenario) => all[i] = EmptyAct
  BY <1>2, QueueOfProperties
<1>4. /\ queue # <<>> /\ Head(queue) = a /\ queue' = Tail(queue)
      /\ log' = Append(log, a) /\ UNCHANGED scenario
  BY DEF Pass, MyTurn, PopFront, target
<1> HIDE DEF a, all
<1>5. log \in Seq(Act) /\ n \in Nat
  BY LenProperties DEF QueueInv
<1>6. n + 1 \in 1 .. Len(all)
  BY <1>1, <1>3, <1>4, <1>5, SubSeqEmpty, LenProperties DEF all
<1>7. Head(queue) = all[n + 1] /\ Tail(queue) = SubSeq(all, n + 2, Len(all))
  BY <1>1, <1>3, <1>6, HeadTailOfSubSeq DEF all
<1>8. a \in Act /\ a # EmptyAct
  BY ActIsNotEmpty DEF a, Act
<1>9. n + 1 \in 1 .. Len(scenario) /\ scenario[n + 1] = a
  BY <1>2, <1>3, <1>4, <1>5, <1>6, <1>7, <1>8
<1>10. Len(log') = n + 1
  BY <1>4, <1>5, <1>8, AppendProperties
<1>11. log' = SubSeq(scenario, 1, n + 1)
  <2>1. SubSeq(scenario, 1, n + 1)
          = SubSeq(scenario, 1, n) \o <<scenario[n + 1]>>
    BY <1>2, <1>9, SubSeqRecursiveSecond
  <2>2. Append(log, a) = log \o <<a>>
    BY <1>5, <1>8, AppendIsConcat
  <2>3. QED
    BY <1>2, <1>4, <1>9, <2>1, <2>2
<1>12. queue' = SubSeq(all, Len(log') + 1, Len(all))
  BY <1>4, <1>5, <1>7, <1>10
<1>13. queue' = SubSeq(QueueOf(scenario', newline), Len(log') + 1,
                       Len(QueueOf(scenario', newline)))
  BY <1>4, <1>12 DEF all
<1>14. log' \in Seq(Act)
  BY <1>4, <1>5, <1>8, AppendProperties
<1>15. Len(log') <= Len(scenario') /\ log' = SubSeq(scenario', 1, Len(log'))
  BY <1>4, <1>9, <1>10, <1>11
<1>16. scenario' \in Seq(Act)
  BY <1>2, <1>4
<1>17. QED
  BY <1>13, <1>14, <1>15, <1>16 DEF QueueInv

\* The types that TypeOK adds, with MutexInv for Inside \subseteq light.
ReplayTypes ==
  /\ pc \in [Thread -> PC]
  /\ act \in [Thread -> Site]
  /\ reached \in [Thread -> Nat]
  /\ tid \in [Thread -> Seq(Nat)]
  /\ childId \in [Thread -> Nat]
  /\ newTid \in Seq(Nat)
  /\ light \subseteq Thread
  /\ queue \in Seq({EmptyAct} \cup Act)
  /\ dead \in BOOLEAN
  /\ lineage \in [Thread -> Seq(Nat)]
  /\ kids \in [Thread -> Nat]

ReplayInv == ReplayTypes /\ MutexInv /\ QueueInv /\ StarvedInv

LEMMA TypesInit == Init => ReplayTypes
<1> SUFFICES ASSUME Init PROVE ReplayTypes
  OBVIOUS
<1>1. None \in Seq(Nat) /\ MainTid \in Seq(Nat)
  BY DEF None, MainTid
<1>2. queue \in Seq({EmptyAct} \cup Act)
  BY QueueOfProperties, ReplayerAssumption DEF Init, Act
<1>3. QED
  BY <1>1, <1>2 DEF Init, ReplayTypes, PC, Site

\* A name made from a thread's own is a name.
LEMMA ChildTidType ==
  ASSUME NEW n \in Seq(Nat), NEW k \in Nat
  PROVE  ChildTid(n, k) \in Seq(Nat)
BY AppendProperties DEF ChildTid

LEMMA ReachTypes ==
  ASSUME ReplayTypes, NEW t \in Thread, NEW s \in Site, Reach(t, s)
  PROVE  reached' \in [Thread -> Nat] /\ act' \in [Thread -> Site]
BY DEF ReplayTypes, Reach

LEMMA TypesStep == ReplayTypes /\ [Next]_vars => ReplayTypes'
<1> SUFFICES ASSUME ReplayTypes, [Next]_vars PROVE ReplayTypes'
  OBVIOUS
<1> USE DEF ReplayTypes, PC, Goto
<1>1. ASSUME NEW t \in Thread,
             \/ Acquire(t) \/ Sleep(t) \/ WakeUp(t) \/ Starve(t) \/ BadPath(t)
             \/ ThreadEnd(t) \/ Die(t) \/ SpawningSpuriousWake(t)
      PROVE  ReplayTypes'
  BY <1>1 DEF Acquire, Sleep, WakeUp, Starve, BadPath, ThreadEnd, Die,
     SpawningSpuriousWake, director, target, ghostVars
<1>2. ASSUME NEW t \in Thread, Pass(t) PROVE ReplayTypes'
  <2>1. queue' \in Seq({EmptyAct} \cup Act)
    BY <1>2, HeadTailProperties DEF Pass, PopFront
  <2>2. pc' \in [Thread -> PC]
    BY <1>2 DEF Pass, AfterLight
  <2>3. QED
    BY <1>2, <2>1, <2>2 DEF Pass, target, ghostVars
<1>3. ASSUME NEW t \in Thread, NEW f \in Func, ProbeCall(t, f)
      PROVE  ReplayTypes'
  <2>1. reached' \in [Thread -> Nat] /\ act' \in [Thread -> Site]
    BY <1>3, ReachTypes DEF ProbeCall, Site
  <2>2. pc' \in [Thread -> PC]
    BY <1>3 DEF ProbeCall
  <2>3. QED
    BY <1>3, <2>1, <2>2 DEF ProbeCall, director, target, ghostVars
<1>4. ASSUME NEW t \in Thread, SetTid(t)
      PROVE  /\ newTid' \in Seq(Nat) /\ childId' \in [Thread -> Nat]
             /\ pc' \in [Thread -> PC]
  <2>1. tid[t] \in Seq(Nat) /\ childId[t] \in Nat
    OBVIOUS
  <2>2. newTid' \in Seq(Nat)
    BY <1>4, <2>1, ChildTidType DEF SetTid
  <2>3. childId' \in [Thread -> Nat]
    BY <1>4, <2>1 DEF SetTid, NextChild
  <2>4. pc' \in [Thread -> PC]
    BY <1>4 DEF SetTid
  <2>5. QED
    BY <2>2, <2>3, <2>4
<1>5. ASSUME NEW t \in Thread, SpawningDec(t) PROVE ReplayTypes'
  <2>1. /\ newTid' \in Seq(Nat) /\ childId' \in [Thread -> Nat]
        /\ pc' \in [Thread -> PC]
    BY <1>4, <1>5 DEF SpawningDec
  <2>2. reached' \in [Thread -> Nat] /\ act' \in [Thread -> Site]
    BY <1>5, ReachTypes DEF SpawningDec, Site
  <2>3. QED
    BY <1>5, <2>1, <2>2 DEF SpawningDec, director, target, ghostVars
<1>6. ASSUME NEW t \in Thread, SpawningRetest(t) PROVE ReplayTypes'
  <2>1. /\ newTid' \in Seq(Nat) /\ childId' \in [Thread -> Nat]
        /\ pc' \in [Thread -> PC]
    BY <1>4, <1>6 DEF SpawningRetest
  <2>2. QED
    BY <1>6, <2>1 DEF SpawningRetest, director, target, ghostVars
<1>7. ASSUME NEW t \in Thread, SpawningUntracked(t) PROVE ReplayTypes'
  <2>1. reached' \in [Thread -> Nat] /\ act' \in [Thread -> Site]
    BY <1>7, ReachTypes DEF SpawningUntracked, Site
  <2>2. QED
    BY <1>7, <2>1 DEF SpawningUntracked, director, target, ghostVars
<1>8. ASSUME NEW p \in Thread, NEW c \in Thread, ThreadSpawn(p, c)
      PROVE  ReplayTypes'
  <2>1. ChildTid(lineage[p], kids[p] + 1) \in Seq(Nat)
    BY ChildTidType
  <2>2. lineage' \in [Thread -> Seq(Nat)] /\ kids' \in [Thread -> Nat]
    BY <1>8, <2>1 DEF ThreadSpawn
  <2>3. pc' \in [Thread -> PC]
    BY <1>8 DEF ThreadSpawn
  <2>4. QED
    BY <1>8, <2>2, <2>3 DEF ThreadSpawn, director, target
<1>9. ASSUME NEW p \in Thread, NEW c \in Thread, UninstrumentedSpawn(p, c)
      PROVE  ReplayTypes'
  BY <1>9 DEF UninstrumentedSpawn, director, target, ghostVars
<1>10. ASSUME NEW c \in Thread, Spawned(c) PROVE ReplayTypes'
  BY <1>10 DEF Spawned, Site, director, target, ghostVars
<1>11. CASE UNCHANGED vars
  BY <1>11 DEF vars, director, target, ghostVars
<1>12. QED
  BY <1>1, <1>2, <1>3, <1>5, <1>6, <1>7, <1>8, <1>9, <1>10, <1>11
  DEF Next, Step, Choice, Gone

\* A step off the light leaves it, the queue and the log alone.
LEMMA OffTheLight ==
  ASSUME ReplayInv, UNCHANGED <<light, queue, log, scenario>>,
         \A t \in Thread : pc'[t] \in {"light", "sleep", "starved"}
           => \/ pc'[t] = pc[t]
              \/ pc[t] \in {"light", "sleep"} /\ pc'[t] # "starved"
  PROVE  MutexInv' /\ QueueInv' /\ StarvedInv'
BY DEF ReplayInv, MutexInv, QueueInv, StarvedInv, Inside

LEMMA LightStep ==
  ReplayInv /\ [Next]_vars => MutexInv' /\ QueueInv' /\ StarvedInv'
<1> SUFFICES ASSUME ReplayInv, [Next]_vars
             PROVE  MutexInv' /\ QueueInv' /\ StarvedInv'
  OBVIOUS
<1>0. pc \in [Thread -> PC]
  BY DEF ReplayInv, ReplayTypes
<1> USE DEF Goto
<1>1. ASSUME NEW t \in Thread, Acquire(t)
      PROVE  MutexInv' /\ QueueInv' /\ StarvedInv'
  <2>1. UNCHANGED <<queue, log, scenario>> /\ light = {} /\ light' = {t}
        /\ pc' = [pc EXCEPT ![t] = "light"]
    BY <1>1 DEF Acquire, MutexFree, target
  <2>2. MutexInv'
    BY <1>0, <2>1 DEF ReplayInv, MutexInv, Inside
  <2>3. QueueInv' /\ StarvedInv'
    BY <1>0, <2>1 DEF ReplayInv, QueueInv, StarvedInv
  <2>4. QED
    BY <2>2, <2>3
<1>2. ASSUME NEW t \in Thread, Pass(t)
      PROVE  MutexInv' /\ QueueInv' /\ StarvedInv'
  <2>1. tid[t] \in Seq(Nat) /\ act[t] \in Site
    BY DEF ReplayInv, ReplayTypes
  <2>2. QueueInv'
    BY <1>2, <2>1, PassMovesAct DEF ReplayInv
  <2>3. pc[t] = "light" /\ pc' = [pc EXCEPT ![t] = AfterLight(act[t])]
        /\ AfterLight(act[t]) \in {"spawn", "run"} /\ queue # <<>>
    BY <1>2 DEF Pass, AfterLight
  <2>4. \A u \in Thread : pc'[u] \notin {"light", "sleep", "starved"}
    BY <1>0, <2>3 DEF ReplayInv, MutexInv, Inside
  <2>5. QED
    BY <2>2, <2>4 DEF MutexInv, StarvedInv, Inside
<1>3. ASSUME NEW t \in Thread, Starve(t)
      PROVE  MutexInv' /\ QueueInv' /\ StarvedInv'
  BY <1>0, <1>3 DEF Starve, ReplayInv, MutexInv, QueueInv, StarvedInv, Inside,
     director, target
<1>4. ASSUME NEW t \in Thread, Sleep(t) \/ WakeUp(t) \/ BadPath(t)
      PROVE  MutexInv' /\ QueueInv' /\ StarvedInv'
  BY <1>0, <1>4, OffTheLight DEF Sleep, WakeUp, BadPath, director, target
<1>5. ASSUME NEW t \in Thread, NEW f \in Func, ProbeCall(t, f)
      PROVE  MutexInv' /\ QueueInv' /\ StarvedInv'
  BY <1>0, <1>5, OffTheLight DEF ProbeCall, director, target
<1>6. ASSUME NEW t \in Thread,
             \/ SpawningDec(t) \/ SpawningRetest(t) \/ SpawningUntracked(t)
             \/ SpawningSpuriousWake(t)
      PROVE  MutexInv' /\ QueueInv' /\ StarvedInv'
  BY <1>0, <1>6, OffTheLight DEF SpawningDec, SpawningRetest, SetTid,
     SpawningUntracked, SpawningSpuriousWake, director, target
<1>7. ASSUME NEW p \in Thread, NEW c \in Thread,
             ThreadSpawn(p, c) \/ UninstrumentedSpawn(p, c)
      PROVE  MutexInv' /\ QueueInv' /\ StarvedInv'
  BY <1>0, <1>7, OffTheLight DEF ThreadSpawn, UninstrumentedSpawn, director,
     target
<1>8. ASSUME NEW t \in Thread, Spawned(t) \/ ThreadEnd(t) \/ Die(t)
      PROVE  MutexInv' /\ QueueInv' /\ StarvedInv'
  BY <1>0, <1>8, OffTheLight DEF Spawned, ThreadEnd, Die, director, target
<1>9. CASE UNCHANGED vars
  BY <1>9, OffTheLight DEF vars, director, target
<1>10. QED
  BY <1>1, <1>2, <1>3, <1>4, <1>5, <1>6, <1>7, <1>8, <1>9
  DEF Next, Step, Choice, Gone

LEMMA ReplayInvariant == Spec => []ReplayInv
<1>1. Init => ReplayInv
  BY TypesInit, QueueInit DEF ReplayInv
<1>2. ReplayInv /\ [Next]_vars => ReplayInv'
  BY TypesStep, LightStep DEF ReplayInv
<1>3. QED
  BY <1>1, <1>2, PTL DEF Spec

\* Type correctness of the replayer; the mutex of the light is with whoever is
\* between its lock and its release (probe_ERR.rs:168-181).
THEOREM TypeCorrect == Spec => []TypeOK
<1>1. ReplayInv => TypeOK
  BY DEF ReplayInv, ReplayTypes, MutexInv, QueueInv, TypeOK, Act
<1>2. QED
  BY <1>1, ReplayInvariant, PTL

\* Whatever the target does and whoever was announced, what passes the light is
\* the beginning of the scenario (probe_ERR.rs:168-181).
THEOREM ReplaysInTurn == Spec => []PassesInTurn
<1>1. ReplayInv => PassesInTurn
  BY DEF ReplayInv, QueueInv, PassesInTurn
<1>2. QED
  BY <1>1, ReplayInvariant, PTL

\* And nobody is killed for want of a next act before the scenario is through
\* (probe_ERR.rs:234-237, 249).
THEOREM StarvesAtTheEnd == Spec => []StarvesOnlyAtTheEnd
<1>1. ReplayInv => StarvesOnlyAtTheEnd
  <2> SUFFICES ASSUME ReplayInv, queue = <<>> PROVE log = scenario
    BY DEF ReplayInv, StarvedInv, StarvesOnlyAtTheEnd
  <2>1. /\ scenario \in Seq(Act) /\ log \in Seq(Act)
        /\ Len(log) \in Nat /\ Len(scenario) \in Nat
        /\ Len(log) <= Len(scenario)
    BY LenProperties DEF ReplayInv, QueueInv
  <2>2. PICK newline \in BOOLEAN :
          queue = SubSeq(QueueOf(scenario, newline), Len(log) + 1,
                         Len(QueueOf(scenario, newline)))
    BY DEF ReplayInv, QueueInv
  <2> DEFINE all == QueueOf(scenario, newline)
  <2>3. /\ all \in Seq({EmptyAct} \cup Act)
        /\ Len(all) \in Nat /\ Len(all) >= Len(scenario)
    BY <2>1, QueueOfProperties, LenProperties
  <2>4. Len(SubSeq(all, Len(log) + 1, Len(all))) = 0
    <3>1. queue = <<>>
      OBVIOUS
    <3>2. SubSeq(all, Len(log) + 1, Len(all)) = <<>>
      BY <2>2, <3>1
    <3>3. Len(<<>>) = 0
      OBVIOUS
    <3> HIDE DEF all
    <3>4. QED
      BY <3>2, <3>3
  <2>5. \A i \in Len(log) + 1 .. Len(all) : all[i] \in {EmptyAct} \cup Act
    BY <2>1, <2>3, ElementOfSeq
  <2>6. Len(log) >= Len(all)
    BY <2>1, <2>3, <2>4, <2>5, SubSeqProperties
  <2>7. Len(log) = Len(scenario)
    BY <2>1, <2>3, <2>6
  <2>8. QED
    BY <2>1, <2>7, SubSeqFull DEF ReplayInv, QueueInv
<1>2. QED
  BY <1>1, ReplayInvariant, PTL
-----------------------------------------------------------------------------
(* The permit, for targets whose threads are all announced.                 *)

\* Between the dec of the announcing probe and its thread::spawn.
Announcing(t) ==
  \/ pc[t] = "spawn"
  \/ act[t] = SpawningSite /\ pc[t] \in {"arrive", "light", "sleep"}
InSpawn(t) == Announcing(t) \/ pc[t] = "born"

BaseInv ==
  /\ SemInv
  /\ \A t \in Untracked : pc[t] = "unborn"
  /\ \A t \in Thread : pc[t] = "dec" => act[t] = SpawningSite
  /\ \A t \in Thread : InSpawn(t) => granted > 0
  /\ \A t, u \in Thread : InSpawn(t) /\ InSpawn(u) => t = u

LEMMA BaseInit == Init => BaseInv
BY SemInitInv, ReplayerAssumption DEF Init, BaseInv, Announcing, InSpawn

\* The target stays what it is.
LEMMA TargetStays == [Next]_vars => UNCHANGED target
BY DEF Next, Step, Choice, Gone, Acquire, Pass, Sleep, WakeUp, Starve, BadPath,
   ProbeCall, SpawningDec, SpawningRetest, SpawningUntracked, ThreadSpawn,
   Spawned, ThreadEnd, Die, UninstrumentedSpawn, SpawningSpuriousWake, vars

\* What a thread may do without entering a spawn.
Stays(t) ==
  /\ InSpawn(t)' => InSpawn(t)
  /\ t \in Untracked => pc'[t] = pc[t]
  /\ pc'[t] = "dec" => act'[t] = SpawningSite

LEMMA QuietKeepsBase ==
  ASSUME BaseInv, UNCHANGED semVars, \A t \in Thread : Stays(t)
  PROVE  BaseInv'
<1>1. SemInv'
  BY DEF BaseInv, SemInv, SemTypeOK, CountPaysWaiters, AtMostPermits, Waiting,
         semVars
<1>2. granted' = granted
  BY DEF semVars
<1>3. Untracked \subseteq Thread
  BY ReplayerAssumption
<1> HIDE DEF semVars
<1>4. QED
  BY <1>1, <1>2, <1>3 DEF BaseInv, Stays

\* dec returned: the permit was free, so nobody was inside a spawn.
LEMMA GrantKeepsBase ==
  ASSUME ReplayTypes, BaseInv, SemInv', granted' = granted + 1,
         NEW t \in Thread \ Untracked, Goto(t, "arrive"),
         \A u \in Thread \ {t} : act'[u] = act[u]
  PROVE  BaseInv'
<1>1. granted \in Nat /\ granted' <= 1
  BY ReplayerAssumption DEF BaseInv, SemInv, SemTypeOK, AtMostPermits
<1>2. \A u \in Thread : ~InSpawn(u)
  BY <1>1 DEF BaseInv
<1>3. pc' = [pc EXCEPT ![t] = "arrive"] /\ pc \in [Thread -> PC]
  BY DEF Goto, ReplayTypes
<1>4. \A u \in Thread \ {t} : ~InSpawn(u)'
  BY <1>2, <1>3 DEF InSpawn, Announcing
<1>5. Untracked \subseteq Thread
  BY ReplayerAssumption
<1>6. QED
  BY <1>1, <1>3, <1>4, <1>5 DEF BaseInv

LEMMA BaseStep ==
  ASSUME AllAnnounced, ReplayTypes, BaseInv, [Next]_vars
  PROVE  BaseInv'
<1>0. /\ pc \in [Thread -> PC] /\ act \in [Thread -> Site]
      /\ Untracked \subseteq Thread /\ SpawnedSite # SpawningSite
      /\ SpawningSite \notin Func
  BY ReplayerAssumption DEF ReplayTypes
<1>a. \A t \in Untracked : pc[t] = "unborn"
  BY DEF BaseInv
<1>b. \A t \in Thread : pc[t] = "dec" => act[t] = SpawningSite
  BY DEF BaseInv
<1> USE DEF Goto
<1>1. ASSUME NEW t \in Thread,
             \/ Acquire(t) \/ Sleep(t) \/ WakeUp(t) \/ Starve(t) \/ BadPath(t)
             \/ ThreadEnd(t)
      PROVE  BaseInv'
  <2>1. ASSUME NEW u \in Thread PROVE Stays(u)
    BY <1>0, <1>a, <1>b, <1>1 DEF Acquire, Sleep, WakeUp, Starve, BadPath,
       ThreadEnd, Stays, InSpawn, Announcing
  <2>2. UNCHANGED semVars
    BY <1>1 DEF Acquire, Sleep, WakeUp, Starve, BadPath, ThreadEnd
  <2>3. QED
    BY <2>1, <2>2, QuietKeepsBase
<1>2. ASSUME NEW t \in Thread, Pass(t) PROVE BaseInv'
  <2>1. /\ pc[t] = "light" /\ UNCHANGED <<semVars, act>>
        /\ pc' = [pc EXCEPT ![t] = AfterLight(act[t])]
        /\ AfterLight(act[t]) = "spawn" => act[t] = SpawningSite
        /\ AfterLight(act[t]) \in {"spawn", "run"}
    BY <1>2 DEF Pass, AfterLight
  <2>2. ASSUME NEW u \in Thread PROVE Stays(u)
    BY <1>0, <1>a, <1>b, <2>1 DEF Stays, InSpawn, Announcing
  <2>3. QED
    BY <2>1, <2>2, QuietKeepsBase
<1>3. ASSUME NEW t \in Thread, NEW f \in Func, ProbeCall(t, f) PROVE BaseInv'
  <2>1. /\ pc[t] = "run" /\ UNCHANGED semVars /\ t \notin Untracked
        /\ act' = [act EXCEPT ![t] = f]
        /\ pc' = [pc EXCEPT ![t] = "arrive"]
    BY <1>0, <1>a, <1>3 DEF ProbeCall, Reach
  <2>2. ASSUME NEW u \in Thread PROVE Stays(u)
    BY <1>0, <1>a, <1>b, <2>1 DEF Stays, InSpawn, Announcing
  <2>3. QED
    BY <2>1, <2>2, QuietKeepsBase
<1>4. ASSUME NEW t \in Thread, SpawningDec(t) PROVE BaseInv'
  <2>1. /\ pc[t] = "run" /\ t \notin Untracked
        /\ act' = [act EXCEPT ![t] = SpawningSite]
    BY <1>4 DEF SpawningDec, Reach
  <2>2. CASE DecPasses(t) /\ SetTid(t)
    <3>1. SemInv' /\ granted' = granted + 1
      BY <2>2, DecPassesKeepsInv DEF BaseInv, DecPasses
    <3>2. \A u \in Thread \ {t} : act'[u] = act[u]
      BY <1>0, <2>1
    <3>3. QED
      BY <2>1, <2>2, <3>1, <3>2, GrantKeepsBase DEF SetTid
  <2>3. CASE DecBlocks(t) /\ Goto(t, "dec")
    <3>1. SemInv' /\ granted' = granted
      BY <2>3, DecBlocksKeepsInv DEF BaseInv, DecBlocks
    <3>2. ASSUME NEW u \in Thread PROVE Stays(u)
      BY <1>0, <1>a, <1>b, <2>1, <2>3 DEF Stays, InSpawn, Announcing
    <3>3. QED
      BY <1>0, <3>1, <3>2 DEF BaseInv, Stays
  <2>4. QED
    BY <1>4, <2>2, <2>3 DEF SpawningDec
<1>5. ASSUME NEW t \in Thread, SpawningRetest(t) PROVE BaseInv'
  <2>1. pc[t] = "dec" /\ t \notin Untracked /\ UNCHANGED act
    BY <1>a, <1>5 DEF SpawningRetest
  <2>2. CASE RetestPasses(t) /\ SetTid(t)
    <3>1. SemInv' /\ granted' = granted + 1
      BY <2>2, RetestPassesKeepsInv DEF BaseInv, RetestPasses
    <3>2. QED
      BY <2>1, <2>2, <3>1, GrantKeepsBase DEF SetTid
  <2>3. CASE RetestBlocks(t) /\ UNCHANGED pc
    <3>1. SemInv' /\ granted' = granted
      BY <2>3, RetestBlocksKeepsInv DEF BaseInv, RetestBlocks
    <3>2. QED
      BY <2>1, <2>3, <3>1 DEF BaseInv, InSpawn, Announcing
  <2>4. QED
    BY <1>5, <2>2, <2>3 DEF SpawningRetest
<1>6. ASSUME NEW t \in Thread, SpawningSpuriousWake(t) PROVE BaseInv'
  BY <1>6, SpuriousWakeKeepsInv
  DEF SpawningSpuriousWake, BaseInv, SpuriousWake, InSpawn, Announcing
<1>7. ASSUME NEW t \in Thread, SpawningUntracked(t) PROVE BaseInv'
  BY <1>a, <1>7 DEF SpawningUntracked
<1>8. ASSUME NEW p \in Thread, NEW c \in Thread, ThreadSpawn(p, c)
      PROVE  BaseInv'
  <2>1. /\ pc[p] = "spawn" /\ pc[c] = "unborn" /\ c \notin Untracked
        /\ pc' = [pc EXCEPT ![p] = "run", ![c] = "born"]
        /\ UNCHANGED <<semVars, act>>
    BY <1>8 DEF ThreadSpawn
  <2>2. SemInv' /\ granted' = granted
    BY <2>1 DEF BaseInv, SemInv, SemTypeOK, CountPaysWaiters, AtMostPermits,
                Waiting, semVars
  <2>3. InSpawn(p) /\ granted > 0
    BY <2>1 DEF BaseInv, InSpawn, Announcing
  <2>4. \A u \in Thread \ {p} : ~InSpawn(u)
    BY <2>3 DEF BaseInv
  <2>5. \A u \in Thread : InSpawn(u)' => u = c
    BY <1>0, <2>1, <2>4 DEF InSpawn, Announcing
  <2>6. \A u \in Thread : pc'[u] = "dec" => act'[u] = SpawningSite
    BY <1>0, <1>b, <2>1
  <2>7. \A u \in Untracked : pc'[u] = "unborn"
    BY <1>0, <1>a, <2>1
  <2>8. QED
    BY <2>2, <2>3, <2>5, <2>6, <2>7 DEF BaseInv
<1>9. ASSUME NEW p \in Thread, NEW c \in Thread, UninstrumentedSpawn(p, c)
      PROVE  BaseInv'
  BY <1>9 DEF UninstrumentedSpawn, AllAnnounced
<1>10. ASSUME NEW c \in Thread, Spawned(c) PROVE BaseInv'
  <2>1. /\ pc[c] = "born" /\ Inc
        /\ pc' = [pc EXCEPT ![c] = "arrive"]
        /\ act' = [act EXCEPT ![c] = SpawnedSite]
    BY <1>10 DEF Spawned, SpawnedInc
  <2>2. InSpawn(c) /\ granted > 0
    BY <2>1 DEF BaseInv, InSpawn
  <2>3. SemInv'
    BY <2>1, <2>2, IncKeepsInv DEF BaseInv
  <2>4. \A u \in Thread \ {c} : ~InSpawn(u)
    BY <2>2 DEF BaseInv
  <2>5. \A u \in Thread : ~InSpawn(u)'
    BY <1>0, <2>1, <2>4 DEF InSpawn, Announcing
  <2>6. \A u \in Thread : pc'[u] = "dec" => act'[u] = SpawningSite
    BY <1>0, <1>b, <2>1
  <2>7. \A u \in Untracked : pc'[u] = "unborn"
    BY <1>0, <1>a, <2>1
  <2>8. QED
    BY <2>3, <2>5, <2>6, <2>7 DEF BaseInv
<1>11. ASSUME UNCHANGED <<semVars, pc, act>> PROVE BaseInv'
  BY <1>a, <1>b, <1>11, QuietKeepsBase DEF Stays, InSpawn, Announcing
<1>12. ASSUME NEW t \in Thread, Die(t) PROVE BaseInv'
  BY <1>11, <1>12 DEF Die
<1>13. CASE UNCHANGED vars
  BY <1>11, <1>13 DEF vars
<1>14. QED
  BY <1>1, <1>2, <1>3, <1>4, <1>5, <1>6, <1>7, <1>8, <1>9, <1>10, <1>12, <1>13
  DEF Next, Step, Choice, Gone

LEMMA BaseInvariant == Spec => [](AllAnnounced => BaseInv)
<1>1. Init => (AllAnnounced => BaseInv)
  BY BaseInit
<1>2. ReplayInv /\ (AllAnnounced => BaseInv) /\ [Next]_vars
        => (AllAnnounced => BaseInv)'
  BY BaseStep, TargetStays DEF ReplayInv, AllAnnounced, target
<1>3. QED
  BY <1>1, <1>2, ReplayInvariant, PTL DEF Spec

\* From dec to inc, across the traffic light of the spawning probe, one spawn at
\* most is under way, however many threads spawn (probe_ERR.rs:105-126,
\* 131-147).
THEOREM SpawnsAreExclusive == Spec => []OneSpawnInFlight
<1>1. BaseInv => Cardinality(Window) <= 1
  <2> SUFFICES ASSUME BaseInv PROVE Cardinality(Window) <= 1
    OBVIOUS
  <2>1. Window \subseteq Thread /\ \A t \in Window : InSpawn(t)
    BY DEF Window, InSpawn, Announcing
  <2>2. CASE Window = {}
    BY <2>2, FS_EmptySet
  <2>3. CASE Window # {}
    <3>1. PICK t \in Window : TRUE
      BY <2>3
    <3>2. Window = {t}
      BY <2>1, <3>1 DEF BaseInv
    <3>3. Cardinality({t}) = 1
      BY FS_Singleton
    <3>4. QED
      BY <3>2, <3>3
  <2>4. QED
    BY <2>2, <2>3
<1>2. (AllAnnounced => BaseInv) => OneSpawnInFlight
  BY <1>1 DEF OneSpawnInFlight
<1>3. QED
  BY <1>2, BaseInvariant, PTL

\* The replayer, too, implements the semaphore's specification: the probe that
\* runs inc was announced by one that ran dec, however long the traffic light
\* keeps the parent in between (probe_ERR.rs:105-117, 140-146).
THEOREM ReplayerUsesSemaphore == Spec /\ AllAnnounced => SemSpec
<1>1. Init => SemInit
  BY DEF Init
<1>2. AllAnnounced /\ BaseInv /\ [Next]_vars => [SemNext]_semVars
  <2> SUFFICES ASSUME AllAnnounced, BaseInv, [Next]_vars
               PROVE  [SemNext]_semVars
    OBVIOUS
  <2>1. ASSUME NEW t \in Thread, SpawningDec(t) PROVE [SemNext]_semVars
    BY <2>1 DEF SpawningDec, SemNext
  <2>2. ASSUME NEW t \in Thread, SpawningRetest(t) PROVE [SemNext]_semVars
    BY <2>2 DEF SpawningRetest, SemNext
  <2>3. ASSUME NEW t \in Thread, SpawningSpuriousWake(t)
        PROVE  [SemNext]_semVars
    BY <2>3 DEF SpawningSpuriousWake, SemNext
  <2>4. ASSUME NEW c \in Thread, Spawned(c) PROVE [SemNext]_semVars
    BY <2>4 DEF Spawned, SpawnedInc, SemNext, BaseInv, InSpawn
  <2>5. ASSUME NEW t \in Thread,
               \/ Acquire(t) \/ Pass(t) \/ Sleep(t) \/ WakeUp(t) \/ Starve(t)
               \/ BadPath(t) \/ SpawningUntracked(t) \/ ThreadEnd(t) \/ Die(t)
               \/ \E f \in Func : ProbeCall(t, f)
               \/ \E c \in Thread : ThreadSpawn(t, c) \/ UninstrumentedSpawn(t, c)
        PROVE  UNCHANGED semVars
    BY <2>5 DEF Acquire, Pass, Sleep, WakeUp, Starve, BadPath,
       SpawningUntracked, ThreadEnd, Die, ProbeCall, ThreadSpawn,
       UninstrumentedSpawn
  <2>6. CASE UNCHANGED vars
    BY <2>6 DEF vars
  <2>7. QED
    BY <2>1, <2>2, <2>3, <2>4, <2>5, <2>6 DEF Next, Step, Choice, Gone
<1>3. AllAnnounced /\ [Next]_vars => AllAnnounced'
  BY TargetStays DEF AllAnnounced, target
<1>4. QED
  BY <1>1, <1>2, <1>3, BaseInvariant, PTL DEF Spec, SemSpec

\* Hence a replayed spawner that waits alone is awake once the permit is back
\* (probe_ERR.rs:105-117).
THEOREM ReplayerWakesLoneWaiter ==
  Spec /\ AllAnnounced => []LoneWaiterIsWoken
<1>1. Permits = 1
  BY ReplayerAssumption
<1>2. QED
  BY <1>1, ReplayerUsesSemaphore, LoneWaiterWakes, PTL
-----------------------------------------------------------------------------
(* Names, for targets whose threads are all announced.                      *)

\* Killed at the light, wherever they were: their counter may be one ahead.
Lost == {"starved", "panic"}

UnbornInv(t) ==
  pc[t] = "unborn" => lineage[t] = None /\ tid[t] = None
                      /\ kids[t] = 0 /\ childId[t] = 1
BornInv(t) ==
  pc[t] = "born" => lineage[t] = newTid /\ lineage[t] # None /\ tid[t] = None
NamedInv(t) ==
  pc[t] \notin {"unborn", "born"} => tid[t] = lineage[t] /\ tid[t] # None
CountInv(t) ==
  /\ ~Announcing(t) /\ pc[t] \notin Lost => childId[t] = kids[t] + 1
  /\ Announcing(t) =>
       childId[t] = kids[t] + 2 /\ newTid = ChildTid(tid[t], kids[t] + 1)

ThreadNames(t) ==
  lineage[t] # <<>> /\ UnbornInv(t) /\ BornInv(t) /\ NamedInv(t) /\ CountInv(t)
NameInv == \A t \in Thread : ThreadNames(t)

\* Whoever passed was the thread its line of the log names.
PassedInv ==
  /\ passed \in Seq(Seq(Nat)) /\ Len(passed) = Len(log)
  /\ \A i \in 1 .. Len(log) : passed[i] = log[i][1]

LEMMA NameInit == Init => NameInv /\ PassedInv
<1> SUFFICES ASSUME Init PROVE NameInv /\ PassedInv
  OBVIOUS
<1>1. None # MainTid /\ None # <<>> /\ MainTid # <<>>
  BY DEF None, MainTid
<1>2. NameInv
  BY <1>1, ReplayerAssumption
  DEF Init, NameInv, ThreadNames, UnbornInv, BornInv, NamedInv, CountInv,
      Announcing, Lost
<1>3. PassedInv
  BY DEF Init, PassedInv
<1>4. QED
  BY <1>2, <1>3

\* What a thread may do without a new name or number.
Keeps(t) ==
  /\ pc'[t] = "unborn" <=> pc[t] = "unborn"
  /\ pc'[t] = "born" <=> pc[t] = "born"
  /\ Announcing(t)' => Announcing(t)
  /\ ~Announcing(t)' /\ pc'[t] \notin Lost =>
       ~Announcing(t) /\ pc[t] \notin Lost

LEMMA QuietKeepsNames ==
  ASSUME NameInv, UNCHANGED <<tid, childId, newTid, lineage, kids>>,
         \A t \in Thread : Keeps(t)
  PROVE  NameInv'
<1> SUFFICES ASSUME NEW t \in Thread PROVE ThreadNames(t)'
  BY DEF NameInv
<1>1. Keeps(t) /\ ThreadNames(t)
  BY DEF NameInv
<1>2. (lineage[t] # <<>>)' /\ UnbornInv(t)' /\ BornInv(t)' /\ NamedInv(t)'
  BY <1>1 DEF ThreadNames, UnbornInv, BornInv, NamedInv, Keeps
<1>3. CountInv(t)'
  BY <1>1 DEF ThreadNames, CountInv, Keeps
<1>4. QED
  BY <1>2, <1>3 DEF ThreadNames

\* A dec that returns found nobody inside a spawn.
LEMMA GrantMeansFree ==
  ASSUME BaseInv, NEW t \in Thread, DecPasses(t) \/ RetestPasses(t)
  PROVE  \A u \in Thread : ~InSpawn(u)
<1>1. SemInv' /\ granted' = granted + 1
  BY DecPassesKeepsInv, RetestPassesKeepsInv
  DEF BaseInv, DecPasses, RetestPasses
<1>2. granted \in Nat /\ granted' <= 1
  BY <1>1, ReplayerAssumption DEF BaseInv, SemInv, SemTypeOK, AtMostPermits
<1>3. QED
  BY <1>1, <1>2 DEF BaseInv

\* A thread leaves the name of its next child in the static.
LEMMA SetTidKeepsNames ==
  ASSUME ReplayTypes, NameInv, NEW t \in Thread, SetTid(t),
         \/ pc[t] = "run"
         \/ pc[t] = "dec" /\ act[t] = SpawningSite,
         act' = [act EXCEPT ![t] = SpawningSite],
         \A u \in Thread : ~InSpawn(u),
         UNCHANGED <<tid, lineage, kids>>
  PROVE  NameInv'
<1>0. /\ pc \in [Thread -> PC] /\ childId \in [Thread -> Nat]
      /\ kids \in [Thread -> Nat] /\ act \in [Thread -> Site]
  BY DEF ReplayTypes
<1>1. /\ newTid' = ChildTid(tid[t], childId[t])
      /\ childId' = [childId EXCEPT ![t] = @ + 1]
      /\ pc' = [pc EXCEPT ![t] = "arrive"]
  BY DEF SetTid, NextChild, Goto
<1> SUFFICES ASSUME NEW u \in Thread PROVE ThreadNames(u)'
  BY DEF NameInv
<1>2. ThreadNames(u) /\ ThreadNames(t) /\ ~InSpawn(u) /\ ~InSpawn(t)
  BY DEF NameInv
<1>3. CASE u = t
  <2>1. childId[t] = kids[t] + 1
    BY <1>2 DEF ThreadNames, CountInv, InSpawn, Lost
  <2>2. CountInv(t)'
    BY <1>0, <1>1, <2>1 DEF CountInv, Announcing
  <2>3. (lineage[t] # <<>>)' /\ UnbornInv(t)' /\ BornInv(t)' /\ NamedInv(t)'
    BY <1>0, <1>1, <1>2 DEF ThreadNames, UnbornInv, BornInv, NamedInv
  <2>4. QED
    BY <1>3, <2>2, <2>3 DEF ThreadNames
<1>4. CASE u # t
  <2>1. pc'[u] = pc[u] /\ act'[u] = act[u] /\ childId'[u] = childId[u]
    BY <1>0, <1>1, <1>4
  <2>2. pc[u] # "born" /\ ~Announcing(u)
    BY <1>2 DEF InSpawn
  <2>3. ~Announcing(u)'
    BY <2>1, <2>2 DEF Announcing
  <2>4. QED
    BY <1>2, <2>1, <2>2, <2>3
    DEF ThreadNames, UnbornInv, BornInv, NamedInv, CountInv
<1>5. QED
  BY <1>3, <1>4

LEMMA NameStep ==
  ASSUME AllAnnounced, ReplayTypes, BaseInv, NameInv, [Next]_vars
  PROVE  NameInv'
<1>0. /\ pc \in [Thread -> PC] /\ act \in [Thread -> Site]
      /\ tid \in [Thread -> Seq(Nat)] /\ lineage \in [Thread -> Seq(Nat)]
      /\ childId \in [Thread -> Nat] /\ kids \in [Thread -> Nat]
      /\ Untracked \subseteq Thread /\ SpawnedSite # SpawningSite
      /\ SpawningSite \notin Func
  BY ReplayerAssumption DEF ReplayTypes
<1>a. \A t \in Untracked : pc[t] = "unborn"
  BY DEF BaseInv
<1>b. \A t \in Thread : pc[t] = "dec" => act[t] = SpawningSite
  BY DEF BaseInv
<1> USE DEF Goto
<1>1. ASSUME NEW t \in Thread,
             \/ Acquire(t) \/ Sleep(t) \/ WakeUp(t) \/ Starve(t) \/ BadPath(t)
             \/ ThreadEnd(t)
      PROVE  NameInv'
  <2>1. ASSUME NEW u \in Thread PROVE Keeps(u)
    BY <1>0, <1>1 DEF Acquire, Sleep, WakeUp, Starve, BadPath, ThreadEnd, Keeps,
       Announcing, Lost
  <2>2. QED
    BY <1>1, <2>1, QuietKeepsNames DEF Acquire, Sleep, WakeUp, Starve, BadPath,
       ThreadEnd, ghostVars
<1>2. ASSUME NEW t \in Thread, Pass(t) PROVE NameInv'
  <2>1. /\ pc[t] = "light" /\ UNCHANGED act
        /\ pc' = [pc EXCEPT ![t] = AfterLight(act[t])]
        /\ AfterLight(act[t]) = "spawn" <=> act[t] = SpawningSite
        /\ AfterLight(act[t]) \in {"spawn", "run"}
        /\ UNCHANGED <<tid, childId, newTid, lineage, kids>>
    BY <1>2 DEF Pass, AfterLight, ghostVars
  <2>2. ASSUME NEW u \in Thread PROVE Keeps(u)
    BY <1>0, <2>1 DEF Keeps, Announcing, Lost
  <2>3. QED
    BY <2>1, <2>2, QuietKeepsNames
<1>3. ASSUME NEW t \in Thread, NEW f \in Func, ProbeCall(t, f) PROVE NameInv'
  <2>1. /\ pc[t] = "run"
        /\ act' = [act EXCEPT ![t] = f]
        /\ pc' = [pc EXCEPT ![t] = "arrive"]
        /\ UNCHANGED <<tid, childId, newTid, lineage, kids>>
    BY <1>0, <1>a, <1>3 DEF ProbeCall, Reach, ghostVars
  <2>2. ASSUME NEW u \in Thread PROVE Keeps(u)
    BY <1>0, <2>1 DEF Keeps, Announcing, Lost
  <2>3. QED
    BY <2>1, <2>2, QuietKeepsNames
<1>4. ASSUME NEW t \in Thread, SpawningDec(t) PROVE NameInv'
  <2>1. /\ pc[t] = "run" /\ act' = [act EXCEPT ![t] = SpawningSite]
        /\ UNCHANGED <<tid, lineage, kids>>
    BY <1>4 DEF SpawningDec, Reach, ghostVars
  <2>2. CASE DecPasses(t) /\ SetTid(t)
    BY <2>1, <2>2, GrantMeansFree, SetTidKeepsNames DEF DecPasses
  <2>3. CASE Goto(t, "dec") /\ UNCHANGED <<newTid, childId>>
    <3>1. ASSUME NEW u \in Thread PROVE Keeps(u)
      BY <1>0, <2>1, <2>3 DEF Keeps, Announcing, Lost
    <3>2. QED
      BY <2>1, <2>3, <3>1, QuietKeepsNames
  <2>4. QED
    BY <1>4, <2>2, <2>3 DEF SpawningDec
<1>5. ASSUME NEW t \in Thread, SpawningRetest(t) PROVE NameInv'
  <2>1. /\ pc[t] = "dec" /\ act[t] = SpawningSite
        /\ act' = [act EXCEPT ![t] = SpawningSite]
        /\ UNCHANGED <<act, tid, lineage, kids>>
    BY <1>0, <1>b, <1>5 DEF SpawningRetest, ghostVars
  <2>2. CASE RetestPasses(t) /\ SetTid(t)
    BY <2>1, <2>2, GrantMeansFree, SetTidKeepsNames DEF RetestPasses
  <2>3. CASE UNCHANGED <<pc, newTid, childId>>
    <3>1. ASSUME NEW u \in Thread PROVE Keeps(u)
      BY <2>1, <2>3 DEF Keeps, Announcing, Lost
    <3>2. QED
      BY <2>1, <2>3, <3>1, QuietKeepsNames
  <2>4. QED
    BY <1>5, <2>2, <2>3 DEF SpawningRetest
<1>6. ASSUME UNCHANGED <<pc, act, tid, childId, newTid, lineage, kids>>
      PROVE  NameInv'
  BY <1>6, QuietKeepsNames DEF Keeps, Announcing, Lost
<1>7. ASSUME NEW t \in Thread, SpawningUntracked(t) PROVE NameInv'
  BY <1>a, <1>7 DEF SpawningUntracked
\* The child is created while the static holds its name.
<1>8. ASSUME NEW p \in Thread, NEW c \in Thread, ThreadSpawn(p, c)
      PROVE  NameInv'
  <2>1. /\ pc[p] = "spawn" /\ pc[c] = "unborn" /\ c # p
        /\ pc' = [pc EXCEPT ![p] = "run", ![c] = "born"]
        /\ lineage' = [lineage EXCEPT ![c] = ChildTid(lineage[p], kids[p] + 1)]
        /\ kids' = [kids EXCEPT ![p] = @ + 1]
        /\ UNCHANGED <<act, tid, childId, newTid>>
    BY <1>8 DEF ThreadSpawn
  <2>2. InSpawn(p) /\ Announcing(p)
    BY <2>1 DEF InSpawn, Announcing
  <2>3. /\ tid[p] = lineage[p] /\ lineage[p] # <<>>
        /\ childId[p] = kids[p] + 2 /\ newTid = ChildTid(tid[p], kids[p] + 1)
    BY <2>1, <2>2 DEF NameInv, ThreadNames, NamedInv, CountInv
  <2>4. newTid # None /\ newTid # <<>>
    <3>1. lineage[p] \in Seq(Nat) /\ kids[p] + 1 \in Nat
      BY <1>0
    <3>2. Len(newTid) = Len(lineage[p]) + 1 /\ Len(lineage[p]) \in Nat \ {0}
      BY <2>3, <3>1, AppendProperties, EmptySeq DEF ChildTid
    <3>3. Len(newTid) # 1 /\ Len(newTid) # 0
      BY <3>2
    <3>4. Len(None) = 1 /\ Len(<<>>) = 0
      BY DEF None
    <3>5. QED
      BY <3>3, <3>4, Zenon
  <2>5. \A u \in Thread \ {p} : ~InSpawn(u)
    BY <2>2 DEF BaseInv
  <2> SUFFICES ASSUME NEW u \in Thread PROVE ThreadNames(u)'
    BY DEF NameInv
  <2>6. ThreadNames(u)
    BY DEF NameInv
  <2>7. CASE u = p
    BY <1>0, <2>1, <2>3, <2>6, <2>7
    DEF ThreadNames, UnbornInv, BornInv, NamedInv, CountInv, Announcing, Lost
  <2>8. CASE u = c
    <3>1. lineage'[c] = newTid' /\ pc'[c] = "born" /\ tid'[c] = None
      BY <1>0, <2>1, <2>3, <2>6, <2>8 DEF ThreadNames, UnbornInv
    <3>2. ~Announcing(c)' /\ childId'[c] = kids'[c] + 1
      BY <1>0, <2>1, <2>6, <2>8 DEF ThreadNames, UnbornInv, Announcing
    <3>3. QED
      BY <2>1, <2>4, <2>8, <3>1, <3>2
      DEF ThreadNames, UnbornInv, BornInv, NamedInv, CountInv
  <2>9. CASE u # p /\ u # c
    <3>1. pc'[u] = pc[u] /\ lineage'[u] = lineage[u] /\ kids'[u] = kids[u]
      BY <1>0, <2>1, <2>9
    <3>2. pc[u] # "born" /\ ~Announcing(u) /\ ~Announcing(u)'
      BY <2>1, <2>5, <2>9, <3>1 DEF InSpawn, Announcing
    <3>3. QED
      BY <2>1, <2>6, <3>1, <3>2
      DEF ThreadNames, UnbornInv, BornInv, NamedInv, CountInv
  <2>10. QED
    BY <2>7, <2>8, <2>9
<1>9. ASSUME NEW p \in Thread, NEW c \in Thread, UninstrumentedSpawn(p, c)
      PROVE  NameInv'
  BY <1>9 DEF UninstrumentedSpawn, AllAnnounced
\* The child reads the static, which still holds its name.
<1>10. ASSUME NEW c \in Thread, Spawned(c) PROVE NameInv'
  <2>1. /\ pc[c] = "born" /\ pc' = [pc EXCEPT ![c] = "arrive"]
        /\ tid' = [tid EXCEPT ![c] = newTid]
        /\ act' = [act EXCEPT ![c] = SpawnedSite]
        /\ UNCHANGED <<lineage, kids, childId, newTid>>
    BY <1>10 DEF Spawned, ghostVars
  <2>2. \A u \in Thread \ {c} : ~InSpawn(u)
    BY <2>1 DEF BaseInv, InSpawn
  <2> SUFFICES ASSUME NEW u \in Thread PROVE ThreadNames(u)'
    BY DEF NameInv
  <2>3. ThreadNames(u)
    BY DEF NameInv
  <2>4. CASE u = c
    <3>1. newTid = lineage[c] /\ lineage[c] # None
          /\ childId[c] = kids[c] + 1
      BY <1>0, <2>1, <2>3, <2>4 DEF ThreadNames, BornInv, CountInv, Announcing,
         Lost, BaseInv
    <3>2. ~Announcing(c)'
      BY <1>0, <2>1 DEF Announcing
    <3>3. QED
      BY <1>0, <2>1, <2>3, <2>4, <3>1, <3>2
      DEF ThreadNames, UnbornInv, BornInv, NamedInv, CountInv
  <2>5. CASE u # c
    <3>1. pc'[u] = pc[u] /\ tid'[u] = tid[u] /\ act'[u] = act[u]
      BY <1>0, <2>1, <2>5
    <3>2. ~Announcing(u) /\ ~Announcing(u)'
      BY <2>2, <2>5, <3>1 DEF InSpawn, Announcing
    <3>3. QED
      BY <2>1, <2>3, <3>1, <3>2
      DEF ThreadNames, UnbornInv, BornInv, NamedInv, CountInv
  <2>6. QED
    BY <2>4, <2>5
<1>11. ASSUME NEW t \in Thread, SpawningSpuriousWake(t) \/ Die(t)
       PROVE  NameInv'
  BY <1>6, <1>11 DEF SpawningSpuriousWake, Die, ghostVars
<1>12. CASE UNCHANGED vars
  BY <1>6, <1>12 DEF vars, ghostVars
<1>13. QED
  BY <1>1, <1>2, <1>3, <1>4, <1>5, <1>7, <1>8, <1>9, <1>10, <1>11, <1>12
  DEF Next, Step, Choice, Gone

LEMMA NameInvariant == Spec => [](AllAnnounced => NameInv)
<1>1. Init => (AllAnnounced => NameInv)
  BY NameInit
<1>2. ReplayInv /\ (AllAnnounced => BaseInv) /\ (AllAnnounced => NameInv)
        /\ [Next]_vars => (AllAnnounced => NameInv)'
  BY NameStep, TargetStays DEF ReplayInv, AllAnnounced, target
<1>3. QED
  BY <1>1, <1>2, ReplayInvariant, BaseInvariant, PTL DEF Spec

-----------------------------------------------------------------------------
(* What the names are for.                                                  *)

\* The step of the abstract naming that a step of the replayer is.
LEMMA NamingStep ==
  ASSUME AllAnnounced, ReplayTypes, NameInv, [Next]_vars
  PROVE  [Naming!NamingNext]_(Naming!namingVars)
<1>1. ASSUME UNCHANGED <<tid, lineage, kids>>
      PROVE  [Naming!NamingNext]_(Naming!namingVars)
  BY <1>1 DEF Naming!namingVars
<1>2. ASSUME NEW p \in Thread, NEW c \in Thread, ThreadSpawn(p, c)
      PROVE  [Naming!NamingNext]_(Naming!namingVars)
  <2>1. /\ pc[p] = "spawn" /\ pc[c] = "unborn"
        /\ lineage' = [lineage EXCEPT ![c] = ChildTid(lineage[p], kids[p] + 1)]
        /\ kids' = [kids EXCEPT ![p] = @ + 1]
        /\ UNCHANGED tid
    BY <1>2 DEF ThreadSpawn
  <2>2. tid[p] # None /\ lineage[c] = None
    BY <2>1 DEF NameInv, ThreadNames, NamedInv, UnbornInv
  <2>3. Naming!Create(p, c)
    BY <2>1, <2>2
    DEF Naming!Create, Naming!ChildTid, Naming!None, ChildTid, None
  <2>4. QED
    BY <2>3 DEF Naming!NamingNext
<1>3. ASSUME NEW c \in Thread, Spawned(c)
      PROVE  [Naming!NamingNext]_(Naming!namingVars)
  <2>1. /\ pc[c] = "born" /\ tid' = [tid EXCEPT ![c] = newTid]
        /\ UNCHANGED <<lineage, kids>>
    BY <1>3 DEF Spawned, ghostVars
  <2>2. newTid = lineage[c] /\ lineage[c] # None /\ tid[c] = None
    BY <2>1 DEF NameInv, ThreadNames, BornInv
  <2>3. Naming!Name(c)
    BY <2>1, <2>2 DEF Naming!Name, Naming!None, None
  <2>4. QED
    BY <2>3 DEF Naming!NamingNext
<1>4. ASSUME NEW t \in Thread,
             \/ Acquire(t) \/ Pass(t) \/ Sleep(t) \/ WakeUp(t) \/ Starve(t)
             \/ BadPath(t) \/ SpawningDec(t) \/ SpawningRetest(t)
             \/ SpawningUntracked(t) \/ SpawningSpuriousWake(t)
             \/ ThreadEnd(t) \/ Die(t)
             \/ \E f \in Func : ProbeCall(t, f)
             \/ \E c \in Thread : UninstrumentedSpawn(t, c)
      PROVE  UNCHANGED <<tid, lineage, kids>>
  BY <1>4 DEF Acquire, Pass, Sleep, WakeUp, Starve, BadPath, SpawningDec,
     SpawningRetest, SpawningUntracked, SpawningSpuriousWake, ThreadEnd, Die,
     ProbeCall, UninstrumentedSpawn, ghostVars
<1>5. CASE UNCHANGED vars
  BY <1>1, <1>5 DEF vars, ghostVars
<1>6. QED
  BY <1>1, <1>2, <1>3, <1>4, <1>5 DEF Next, Step, Choice, Gone

\* Replay implements the abstract naming: as long as every spawn is announced,
\* each thread learns the name of its place in the spawn tree
\* (probe_ERR.rs:112-113, 136-138).
THEOREM ReplayNamesByLineage == Spec => NamesByLineage
<1>1. Init => Naming!NamingInit
  BY DEF Init, Naming!NamingInit, Naming!MainTid, Naming!None, MainTid, None
<1>2. ReplayInv /\ (AllAnnounced => NameInv) /\ [Next]_vars
        => [AllAnnounced => Naming!NamingNext]_(Naming!namingVars)
  BY NamingStep DEF ReplayInv
<1>3. QED
  BY <1>1, <1>2, ReplayInvariant, NameInvariant, PTL DEF Spec, NamesByLineage

LEMMA PassedStep ==
  ASSUME AllAnnounced, ReplayInv, NameInv, PassedInv, [Next]_vars
  PROVE  PassedInv'
<1>1. ASSUME NEW t \in Thread, Pass(t) PROVE PassedInv'
  <2>1. /\ pc[t] = "light"
        /\ log' = Append(log, <<tid[t], act[t]>>)
        /\ passed' = Append(passed, lineage[t])
    BY <1>1 DEF Pass
  <2>2. tid[t] = lineage[t]
    BY <2>1 DEF NameInv, ThreadNames, NamedInv
  <2>3. /\ log \in Seq(Act) /\ <<tid[t], act[t]>> \in Act
        /\ passed \in Seq(Seq(Nat)) /\ lineage[t] \in Seq(Nat)
        /\ Len(passed) = Len(log) /\ Len(log) \in Nat
    BY LenProperties DEF ReplayInv, ReplayTypes, QueueInv, PassedInv, Act
  <2>4. /\ passed' \in Seq(Seq(Nat)) /\ Len(passed') = Len(log) + 1
        /\ Len(log') = Len(log) + 1
    BY <2>1, <2>3, AppendProperties
  <2>5. ASSUME NEW i \in 1 .. Len(log') PROVE passed'[i] = log'[i][1]
    <3>1. CASE i = Len(log) + 1
      <4>1. passed'[i] = lineage[t] /\ log'[i] = <<tid[t], act[t]>>
        BY <2>1, <2>3, <3>1, AppendProperties
      <4>2. QED
        BY <2>2, <4>1
    <3>2. CASE i # Len(log) + 1
      <4>1. i \in 1 .. Len(log)
        BY <2>3, <2>4, <3>2
      <4>2. passed'[i] = passed[i] /\ log'[i] = log[i]
        BY <2>1, <2>3, <4>1, AppendProperties
      <4>3. QED
        BY <4>1, <4>2 DEF PassedInv
    <3>3. QED
      BY <3>1, <3>2
  <2>6. QED
    BY <2>4, <2>5 DEF PassedInv
<1>2. ASSUME UNCHANGED <<log, passed>> PROVE PassedInv'
  BY <1>2 DEF PassedInv
<1>3. ASSUME NEW t \in Thread,
             \/ Acquire(t) \/ Sleep(t) \/ WakeUp(t) \/ Starve(t)
             \/ BadPath(t) \/ SpawningDec(t) \/ SpawningRetest(t)
             \/ SpawningUntracked(t) \/ SpawningSpuriousWake(t)
             \/ Spawned(t) \/ ThreadEnd(t) \/ Die(t)
             \/ \E f \in Func : ProbeCall(t, f)
             \/ \E c \in Thread : ThreadSpawn(t, c) \/ UninstrumentedSpawn(t, c)
      PROVE  UNCHANGED <<log, passed>>
  BY <1>3 DEF Acquire, Sleep, WakeUp, Starve, BadPath, SpawningDec,
     SpawningRetest, SpawningUntracked, SpawningSpuriousWake, Spawned,
     ThreadEnd, Die, ProbeCall, ThreadSpawn, UninstrumentedSpawn, director
<1>4. CASE UNCHANGED vars
  BY <1>2, <1>4 DEF vars, director
<1>5. QED
  BY <1>1, <1>2, <1>3, <1>4 DEF Next, Step, Choice, Gone

\* The right thread passes: a line of the log was written by the thread at the
\* place the line names, not by another one under its name
\* (probe_ERR.rs:112, 137, 164).
THEOREM ThreadsPassAsMeant == Spec => []PassersAreMeant
<1>1. Init => (AllAnnounced => PassedInv)
  BY NameInit
<1>2. ReplayInv /\ (AllAnnounced => NameInv) /\ (AllAnnounced => PassedInv)
        /\ [Next]_vars => (AllAnnounced => PassedInv)'
  BY PassedStep, TargetStays DEF AllAnnounced, target
<1>3. ReplayInv /\ (AllAnnounced => PassedInv) => PassersAreMeant
  <2> SUFFICES ASSUME ReplayInv, PassedInv, NEW i \in DOMAIN log
               PROVE  passed[i] = log[i][1]
    BY DEF PassersAreMeant
  <2>1. i \in 1 .. Len(log)
    BY LenProperties DEF ReplayInv, QueueInv
  <2>2. QED
    BY <2>1 DEF PassedInv
<1>4. QED
  BY <1>1, <1>2, <1>3, ReplayInvariant, NameInvariant, PTL DEF Spec
-----------------------------------------------------------------------------
(* Record and replay: the steps of RecordReplay keep what was proved of the *)
(* replayer.                                                                *)

\* The site at which the lock was taken that a site's operation gives back.
LockOf(s) ==
  CASE s = "checked" -> "check" [] s = "taken" -> "take"
    [] s = "done1" -> "put" [] OTHER -> "get"

\* The act of a probe in front of the drop of a guard.
Closing(a) == a[2] \in Unlocking

LEMMA LockOrUnlock ==
  /\ Locking \subseteq Operations /\ Unlocking \subseteq Operations
  /\ \A s \in Operations : s \in Unlocking <=> s \notin Locking
BY DEF Operations, Locking, Unlocking

\* A guard is dropped by the thread that took the lock, right after what it did
\* under it.
Disciplined(b) ==
  /\ DOMAIN b \subseteq Seq(Nat) \ {Nobody, None}
  /\ \A place \in DOMAIN b :
       LET acts == ActsOf(b, place) IN
       \A n \in DOMAIN acts :
         acts[n] \in Unlocking => n > 1 /\ acts[n - 1] = LockOf(acts[n])

\* What a target must be like: a probe at each lock and at each unlock, so a
\* guard whose drop the pass knows.
LocksAreProbed ==
  Operations \subseteq Func /\ \A b \in Bodies : Disciplined(b)

\* An unlock then waits for its own probe.
LEMMA UnlockIsProbed ==
  ASSUME LocksAreProbed, NEW place, NEW s
  PROVE  OwesNext(place, s) = {}
<1>1. GuardSeen
  BY DEF LocksAreProbed, Operations, GuardSeen
<1>2. QED
  BY <1>1 DEF OwesNext

\* Where a run of both is.
PhaseInv ==
  /\ body \in Bodies
  /\ phase \in {"record", "replay"}
  /\ tape \in Seq((DOMAIN body) \X Site)
  /\ phase = "record" =>
       log = <<>> /\ \A t \in Thread : pc[t] \in {"unborn", "run"}
  /\ phase = "replay" => scenario = tape

ReplayerInv == ReplayInv /\ BaseInv /\ NameInv

\* An act is of the sites a probe may stand at.
LEMMA ActsOfType ==
  ASSUME NEW b \in Bodies, NEW place \in DOMAIN b
  PROVE  ActsOf(b, place) \in Seq(Site)
<1>1. b[place] \in Seq(Site)
  BY ReplayerAssumption DEF Site
<1>2. SpawnedSite \in Site
  BY DEF Site
<1>3. QED
  BY <1>1, <1>2 DEF ActsOf

LEMMA DisciplinedTapes ==
  ASSUME LocksAreProbed, PhaseInv
  PROVE  tape \in Seq(Act) /\ AllAnnounced
<1>1. DOMAIN body \subseteq Seq(Nat) /\ None \notin DOMAIN body
  BY DEF LocksAreProbed, PhaseInv, Disciplined
<1>2. (DOMAIN body) \X Site \subseteq Act
  BY <1>1 DEF Act
<1>3. QED
  BY <1>1, <1>2, SeqMonotonic DEF PhaseInv, AllAnnounced

\* The hand-over gives the replayer a scenario before it did anything.
LEMMA HandOverKeepsReplayer ==
  ASSUME LocksAreProbed, PhaseInv, ReplayerInv, HandOver
  PROVE  ReplayerInv'
<1>1. /\ UNCHANGED <<pc, act, reached, tid, childId, newTid, light, log, dead,
                     lineage, kids, body>>
      /\ UNCHANGED semVars
      /\ scenario' = tape /\ queue' = QueueOf(tape, FALSE)
  BY DEF HandOver, ghostVars
<1>2. tape \in Seq(Act) /\ log = <<>>
      /\ \A t \in Thread : pc[t] \in {"unborn", "run"}
  BY DisciplinedTapes DEF HandOver, PhaseInv
<1>3. LET all == QueueOf(tape, FALSE) IN
      all \in Seq({EmptyAct} \cup Act) /\ all = SubSeq(all, 1, Len(all))
  BY <1>2, QueueOfProperties, SubSeqFull
<1>4. ReplayTypes'
  BY <1>1, <1>3 DEF ReplayerInv, ReplayInv, ReplayTypes
<1>5. Len(log) = 0 /\ SubSeq(tape, 1, 0) = <<>> /\ Len(tape) \in Nat
  BY <1>2, SubSeqEmpty, LenProperties
<1>6. QueueInv'
  <2>1. log' = <<>> /\ log' \in Seq(Act) /\ Len(log') = 0
    <3>1. <<>> \in Seq(Act)
      BY EmptySeq
    <3>2. QED
      BY <1>1, <1>2, <1>5, <3>1
  <2>2. queue' = SubSeq(QueueOf(scenario', FALSE), Len(log') + 1,
                        Len(QueueOf(scenario', FALSE)))
    <3> DEFINE all == QueueOf(tape, FALSE)
    <3>1. queue' = SubSeq(all, 1, Len(all)) /\ QueueOf(scenario', FALSE) = all
      BY <1>1, <1>3
    <3> HIDE DEF all
    <3>2. Len(log') + 1 = 1
      BY <2>1
    <3>3. QED
      BY <3>1, <3>2
  <2>3. /\ scenario' \in Seq(Act) /\ Len(log') <= Len(scenario')
        /\ log' = SubSeq(scenario', 1, Len(log'))
    BY <1>1, <1>2, <1>5, <2>1
  <2>4. QED
    BY <2>1, <2>2, <2>3 DEF QueueInv
<1>7. MutexInv' /\ StarvedInv'
  BY <1>1, <1>2 DEF MutexInv, StarvedInv, Inside
<1>8. \A t \in Thread : Stays(t) /\ Keeps(t)
  BY <1>1, <1>2 DEF Stays, Keeps, InSpawn, Announcing
<1>9. BaseInv' /\ NameInv'
  BY <1>1, <1>8, QuietKeepsBase, QuietKeepsNames DEF ReplayerInv
<1>10. QED
  BY <1>4, <1>6, <1>7, <1>9 DEF ReplayerInv, ReplayInv

\* A lock, an unlock or a panic is no business of the replayer.
LEMMA OperationKeepsReplayer ==
  ASSUME PhaseInv, ReplayerInv,
         world.owes \subseteq (DOMAIN body) \X Operations,
         NEW t \in Thread, NEW s \in Operations, ReplayOperation(t, s)
  PROVE  ReplayerInv'
<1>1. /\ UNCHANGED <<act, tid, childId, newTid, light, queue, log, dead,
                     scenario, lineage, kids, body>>
      /\ UNCHANGED semVars
      /\ pc[t] = "run" /\ \E label \in {"run", "panic"} :
           pc' = [pc EXCEPT ![t] = label]
      /\ \/ reached' = [reached EXCEPT ![t] = Len(body[lineage[t]])]
         \/ reached' = reached
  BY DEF ReplayOperation, Goto, director, ghostVars
<1>2. pc \in [Thread -> PC] /\ reached \in [Thread -> Nat]
  BY DEF ReplayerInv, ReplayInv, ReplayTypes
<1>3. lineage[t] \in DOMAIN body
  BY DEF ReplayOperation, Operate
<1>4. Len(body[lineage[t]]) \in Nat
  BY <1>3, ReplayerAssumption, LenProperties DEF PhaseInv
<1>5. ReplayTypes'
  BY <1>1, <1>2, <1>4 DEF ReplayerInv, ReplayInv, ReplayTypes, PC
<1>6. MutexInv' /\ QueueInv' /\ StarvedInv'
  BY <1>1, <1>2, OffTheLight DEF ReplayerInv
<1>7. t \notin Untracked
  BY <1>1 DEF ReplayerInv, BaseInv
<1>8. ASSUME NEW u \in Thread PROVE Stays(u) /\ Keeps(u)
  BY <1>1, <1>2, <1>7
  DEF Stays, Keeps, InSpawn, Announcing, Lost, ReplayerInv, BaseInv
<1>9. BaseInv' /\ NameInv'
  BY <1>1, <1>8, QuietKeepsBase, QuietKeepsNames DEF ReplayerInv
<1>10. QED
  BY <1>5, <1>6, <1>9 DEF ReplayerInv, ReplayInv

\* A probe of the replay is a step of the replayer; the recorder and the
\* operations of the recorded run leave the replayer alone.
LEMMA StepKeepsReplayer ==
  ASSUME LocksAreProbed, PhaseInv, ReplayerInv,
         world.owes \subseteq (DOMAIN body) \X Operations, [RRNext]_rrVars
  PROVE  ReplayerInv'
<1>1. AllAnnounced
  BY DisciplinedTapes
<1>2. ASSUME [Next]_vars PROVE ReplayerInv'
  BY <1>1, <1>2, TypesStep, LightStep, BaseStep, NameStep
  DEF ReplayerInv, ReplayInv
<1>3. ASSUME NEW place \in DOMAIN body,
             Record(place) \/ \E s \in Operations : RecordedOperation(place, s)
      PROVE  ReplayerInv'
  BY <1>2, <1>3 DEF Record, RecordedOperation
<1>4. ASSUME NEW t \in Thread, ReplayProbe(t) PROVE ReplayerInv'
  BY <1>2, <1>4 DEF ReplayProbe, Next
<1>5. ASSUME AllOver \/ UNCHANGED rrVars PROVE ReplayerInv'
  BY <1>2, <1>5 DEF AllOver, rrVars
<1>6. QED
  BY <1>3, <1>4, <1>5, HandOverKeepsReplayer, OperationKeepsReplayer DEF RRNext
-----------------------------------------------------------------------------
(* Positions in a tape: the last act of a thread among the first n, and how *)
(* many of these drop a guard.                                              *)

LastIs(h, n, place, s) ==
  \E i \in 1 .. n : h[i] = <<place, s>> /\ \A j \in i + 1 .. n : h[j][1] # place

Closings(h, n) == {i \in 1 .. n : Closing(h[i])}
Closed(h, n) == Cardinality(Closings(h, n))

\* Two tapes with the same first n acts.
Agree(g, h, n) == \A i \in 1 .. n : g[i] = h[i]

\* A thread has one last act.
LEMMA LastIsUnique ==
  ASSUME NEW h, NEW n \in Nat, NEW place, NEW s, NEW r,
         LastIs(h, n, place, s), LastIs(h, n, place, r)
  PROVE  s = r
<1>1. PICK i \in 1 .. n : /\ h[i] = <<place, s>>
                          /\ \A j \in i + 1 .. n : h[j][1] # place
  BY DEF LastIs
<1>2. PICK k \in 1 .. n : /\ h[k] = <<place, r>>
                          /\ \A j \in k + 1 .. n : h[j][1] # place
  BY DEF LastIs
<1>3. h[i][1] = place /\ h[k][1] = place
  BY <1>1, <1>2
<1>4. i = k
  BY <1>1, <1>2, <1>3
<1>5. QED
  BY <1>1, <1>2, <1>4

\* The last act depends on the acts up to n only.
LEMMA LastIsLocal ==
  ASSUME NEW g, NEW h, NEW n \in Nat, NEW m \in 0 .. n, Agree(g, h, n),
         NEW place, NEW s
  PROVE  LastIs(g, m, place, s) <=> LastIs(h, m, place, s)
<1>1. \A i \in 1 .. m : i \in 1 .. n /\ g[i] = h[i]
  BY DEF Agree
<1>2. \A i \in 1 .. m : \A j \in i + 1 .. m : j \in 1 .. m
  OBVIOUS
<1>3. QED
  BY <1>1, <1>2 DEF LastIs

\* One more act: its thread's last act is new, the others' are not.
LEMMA LastIsNext ==
  ASSUME NEW h, NEW n \in Nat, NEW place, NEW s
  PROVE  /\ h[n + 1][1] # place =>
              (LastIs(h, n + 1, place, s) <=> LastIs(h, n, place, s))
         /\ h[n + 1] = <<place, s>> => LastIs(h, n + 1, place, s)
         /\ h[n + 1][1] = place /\ LastIs(h, n + 1, place, s) =>
              h[n + 1] = <<place, s>>
<1>1. ASSUME h[n + 1][1] # place, LastIs(h, n, place, s)
      PROVE  LastIs(h, n + 1, place, s)
  <2>1. PICK i \in 1 .. n : /\ h[i] = <<place, s>>
                            /\ \A j \in i + 1 .. n : h[j][1] # place
    BY <1>1 DEF LastIs
  <2>2. \A j \in i + 1 .. n + 1 : j \in i + 1 .. n \/ j = n + 1
    OBVIOUS
  <2>3. i \in 1 .. n + 1
    OBVIOUS
  <2>4. QED
    BY <1>1, <2>1, <2>2, <2>3 DEF LastIs
<1>2. ASSUME LastIs(h, n + 1, place, s)
      PROVE  \/ h[n + 1] = <<place, s>>
             \/ h[n + 1][1] # place /\ LastIs(h, n, place, s)
  <2>1. PICK i \in 1 .. n + 1 : /\ h[i] = <<place, s>>
                                /\ \A j \in i + 1 .. n + 1 : h[j][1] # place
    BY <1>2 DEF LastIs
  <2>2. CASE i # n + 1
    <3>1. i \in 1 .. n /\ n + 1 \in i + 1 .. n + 1
      BY <2>2
    <3>2. \A j \in i + 1 .. n : j \in i + 1 .. n + 1
      OBVIOUS
    <3>3. QED
      BY <2>1, <3>1, <3>2 DEF LastIs
  <2>3. QED
    BY <2>1, <2>2
<1>3. ASSUME h[n + 1] = <<place, s>> PROVE LastIs(h, n + 1, place, s)
  <2>1. n + 1 \in 1 .. n + 1 /\ \A j \in (n + 1) + 1 .. n + 1 : FALSE
    OBVIOUS
  <2>2. QED
    BY <1>3, <2>1 DEF LastIs
<1>4. <<place, s>>[1] = place
  OBVIOUS
<1>5. QED
  BY <1>1, <1>2, <1>3, <1>4

LEMMA ClosedType ==
  ASSUME NEW h, NEW n \in Nat
  PROVE  IsFiniteSet(Closings(h, n)) /\ Closed(h, n) \in Nat
<1>1. Closings(h, n) \in SUBSET (1 .. n) /\ IsFiniteSet(1 .. n)
  BY FS_Interval DEF Closings
<1>2. QED
  BY <1>1, FS_Subset, FS_CardinalityType DEF Closed

LEMMA ClosedInit == ASSUME NEW h PROVE Closed(h, 0) = 0
<1>1. Closings(h, 0) = {}
  BY DEF Closings
<1>2. QED
  BY <1>1, FS_EmptySet DEF Closed

LEMMA ClosedLocal ==
  ASSUME NEW g, NEW h, NEW n \in Nat, NEW m \in 0 .. n, Agree(g, h, n)
  PROVE  Closed(g, m) = Closed(h, m)
<1>1. \A i \in 1 .. m : g[i] = h[i]
  BY DEF Agree
<1>2. Closings(g, m) = Closings(h, m)
  BY <1>1 DEF Closings
<1>3. QED
  BY <1>2 DEF Closed

LEMMA ClosedNext ==
  ASSUME NEW h, NEW n \in Nat
  PROVE  Closed(h, n + 1)
           = IF Closing(h[n + 1]) THEN Closed(h, n) + 1 ELSE Closed(h, n)
<1>1. IsFiniteSet(Closings(h, n)) /\ Closed(h, n) \in Nat
  BY ClosedType
<1>2. n + 1 \notin Closings(h, n)
  BY DEF Closings
<1>3. Closings(h, n + 1)
        = IF Closing(h[n + 1]) THEN Closings(h, n) \cup {n + 1}
          ELSE Closings(h, n)
  <2>1. 1 .. n + 1 = (1 .. n) \cup {n + 1}
    OBVIOUS
  <2>2. QED
    BY <2>1 DEF Closings
<1>4. Cardinality(Closings(h, n) \cup {n + 1}) = Closed(h, n) + 1
  BY <1>1, <1>2, FS_AddElement DEF Closed
<1>5. QED
  BY <1>3, <1>4 DEF Closed

LEMMA ClosedGrows ==
  ASSUME NEW h, NEW n \in Nat, NEW m \in 0 .. n
  PROVE  Closed(h, m) <= Closed(h, n)
<1>1. Closings(h, m) \in SUBSET Closings(h, n)
  BY DEF Closings
<1>2. QED
  BY <1>1, ClosedType, FS_Subset DEF Closed

\* The guards are dropped one after the other.
LEMMA ClosedOnce ==
  ASSUME NEW h, NEW n \in Nat \ {0}, Closing(h[n]), NEW m \in 0 .. n - 1
  PROVE  Closed(h, m) < Closed(h, n)
<1>1. Closed(h, m) <= Closed(h, n - 1)
  BY ClosedGrows
<1>2. Closed(h, n) = Closed(h, n - 1) + 1
  <2>1. n - 1 \in Nat /\ (n - 1) + 1 = n
    OBVIOUS
  <2>2. QED
    BY <2>1, ClosedNext
<1>3. Closed(h, m) \in Nat /\ Closed(h, n - 1) \in Nat
  BY ClosedType
<1>4. QED
  BY <1>1, <1>2, <1>3
-----------------------------------------------------------------------------
(* What the recorder writes of a disciplined target.                        *)

\* A thread's acts are the first of its program, and its last act is the last
\* of them.
FollowsProgram(place) ==
  LET acts == ActsOf(body, place)
      n == Progress(tape, place)
  IN /\ n \in 0 .. Len(acts)
     /\ n > 0 => LastIs(tape, Len(tape), place, acts[n])
     /\ \A i \in 1 .. Len(tape) :
          tape[i][1] = place => \E m \in 1 .. n : tape[i][2] = acts[m]
ProgramInv == \A place \in DOMAIN body : FollowsProgram(place)

\* Before it drops a guard a thread took it, and did nothing else since.
BracketInv ==
  \A i \in 1 .. Len(tape) :
    Closing(tape[i]) => LastIs(tape, i - 1, tape[i][1], LockOf(tape[i][2]))

\* A thread's progress, one act later.
LEMMA ProgressNext ==
  ASSUME NEW S, NEW h \in Seq(S), NEW a \in S, NEW place
  PROVE  /\ Progress(h, place) \in Nat
         /\ Progress(Append(h, a), place)
              = IF a[1] = place THEN Progress(h, place) + 1
                ELSE Progress(h, place)
<1> DEFINE g == Append(h, a)
           n == Len(h)
           old == {i \in 1 .. n : h[i][1] = place}
<1>1. /\ n \in Nat /\ DOMAIN h = 1 .. n
      /\ g \in Seq(S) /\ Len(g) = n + 1 /\ g[n + 1] = a
      /\ \A i \in 1 .. n : g[i] = h[i]
  BY AppendProperties, LenProperties
<1>2. DOMAIN g = 1 .. n + 1
  BY <1>1, LenProperties
<1> HIDE DEF g, n
<1>3. Progress(h, place) = Cardinality(old)
  BY <1>1 DEF Progress, CountIn
<1>4. Progress(g, place) = Cardinality({i \in 1 .. n + 1 : g[i][1] = place})
  BY <1>2 DEF Progress, CountIn
<1>5. old \in SUBSET (1 .. n) /\ IsFiniteSet(1 .. n) /\ n + 1 \notin old
  BY <1>1, FS_Interval
<1>6. IsFiniteSet(old) /\ Cardinality(old) \in Nat
  BY <1>5, FS_Subset, FS_CardinalityType
<1>7. {i \in 1 .. n + 1 : g[i][1] = place}
        = IF a[1] = place THEN old \cup {n + 1} ELSE old
  <2>1. 1 .. n + 1 = (1 .. n) \cup {n + 1}
    BY <1>1
  <2>2. QED
    BY <1>1, <2>1
<1> HIDE DEF old
<1>8. Cardinality(old \cup {n + 1}) = Cardinality(old) + 1
  BY <1>5, <1>6, FS_AddElement
<1>9. QED
  BY <1>3, <1>4, <1>6, <1>7, <1>8 DEF g

LEMMA RecordInit ==
  ASSUME body \in Bodies, tape = <<>>
  PROVE  ProgramInv /\ BracketInv
<1>1. Len(tape) = 0 /\ DOMAIN tape = {}
  OBVIOUS
<1>2. BracketInv
  BY <1>1 DEF BracketInv
<1>3. ASSUME NEW place \in DOMAIN body PROVE FollowsProgram(place)
  <2>1. Progress(tape, place) = 0
    <3>1. {i \in DOMAIN tape : tape[i][1] = place} = {}
      BY <1>1
    <3>2. QED
      BY <3>1, FS_EmptySet DEF Progress, CountIn
  <2>2. Len(ActsOf(body, place)) \in Nat
    BY ActsOfType, LenProperties
  <2>3. QED
    BY <1>1, <2>1, <2>2 DEF FollowsProgram
<1>4. QED
  BY <1>2, <1>3 DEF ProgramInv

\* What Record appends: the next act of a thread's program.
LEMMA RecordAppends ==
  ASSUME PhaseInv, ProgramInv, NEW place \in DOMAIN body, Record(place)
  PROVE  LET acts == ActsOf(body, place)
             n == Progress(tape, place)
         IN /\ n \in Nat /\ n + 1 \in 1 .. Len(acts) /\ acts \in Seq(Site)
            /\ <<place, acts[n + 1]>> \in (DOMAIN body) \X Site
            /\ tape' = Append(tape, <<place, acts[n + 1]>>)
            /\ UNCHANGED body
<1> DEFINE acts == ActsOf(body, place)
           n == Progress(tape, place)
<1>1. acts \in Seq(Site) /\ Len(acts) \in Nat
  BY ActsOfType, LenProperties DEF PhaseInv
<1>2. n \in 0 .. Len(acts)
  BY DEF ProgramInv, FollowsProgram
<1>3. n < Len(acts) /\ tape' = Append(tape, <<place, acts[n + 1]>>)
      /\ UNCHANGED body
  BY DEF Record, MayFollow, NextAct, vars, target
<1> HIDE DEF acts, n
<1>4. n + 1 \in 1 .. Len(acts)
  BY <1>1, <1>2, <1>3
<1>5. acts[n + 1] \in Site
  BY <1>1, <1>4, ElementOfSeq
<1>6. QED
  BY <1>1, <1>2, <1>3, <1>4, <1>5 DEF acts, n

LEMMA RecordKeepsProgram ==
  ASSUME PhaseInv, ProgramInv, NEW place \in DOMAIN body, Record(place)
  PROVE  ProgramInv'
<1> DEFINE acts(p) == ActsOf(body, p)
           n(p) == Progress(tape, p)
           k == Len(tape)
           a == <<place, acts(place)[n(place) + 1]>>
<1>1. /\ a \in (DOMAIN body) \X Site /\ tape' = Append(tape, a)
      /\ n(place) \in Nat /\ n(place) + 1 \in 1 .. Len(acts(place))
      /\ UNCHANGED body
  BY RecordAppends
<1>2. tape \in Seq((DOMAIN body) \X Site) /\ k \in Nat
  BY LenProperties DEF PhaseInv
<1>3. /\ Len(tape') = k + 1 /\ tape'[k + 1] = a
      /\ \A i \in 1 .. k : tape'[i] = tape[i]
  BY <1>1, <1>2, AppendProperties
<1>4. a[1] = place /\ a[2] = acts(place)[n(place) + 1]
  OBVIOUS
<1>5. ASSUME NEW p \in DOMAIN body PROVE FollowsProgram(p)'
  <2>1. /\ n(p) \in 0 .. Len(acts(p))
        /\ n(p) > 0 => LastIs(tape, k, p, acts(p)[n(p)])
        /\ \A i \in 1 .. k :
             tape[i][1] = p => \E m \in 1 .. n(p) : tape[i][2] = acts(p)[m]
    BY DEF ProgramInv, FollowsProgram
  <2>2. n(p)' = IF a[1] = p THEN n(p) + 1 ELSE n(p)
    BY <1>1, <1>2, ProgressNext
  <2>3. acts(p)' = acts(p) /\ Len(acts(p)) \in Nat
    <3>1. Len(acts(p)) \in Nat
      BY ActsOfType, LenProperties DEF PhaseInv
    <3>2. QED
      BY <1>1, <3>1
  <2>4. \A i \in 1 .. k + 1 : i \in 1 .. k \/ i = k + 1
    BY <1>2
  <2>5. Agree(tape', tape, k)
    BY <1>3 DEF Agree
  <2>6. CASE p = place
    <3>1. n(p)' = n(p) + 1 /\ n(p) + 1 \in 1 .. Len(acts(p))
      BY <1>1, <1>4, <2>2, <2>6
    <3>2. LastIs(tape', k + 1, p, acts(p)[n(p) + 1])
      BY <1>2, <1>3, <2>6, LastIsNext
    <3> HIDE DEF a, acts, n, k
    <3>3. ASSUME NEW i \in 1 .. k + 1, tape'[i][1] = p
          PROVE  \E m \in 1 .. n(p) + 1 : tape'[i][2] = acts(p)[m]
      <4>1. CASE i \in 1 .. k
        <5>1. PICK m \in 1 .. n(p) : tape[i][2] = acts(p)[m]
          BY <1>3, <2>1, <3>3, <4>1
        <5>2. m \in 1 .. n(p) + 1 /\ tape'[i][2] = acts(p)[m]
          BY <1>3, <2>1, <4>1, <5>1
        <5>3. QED
          BY <5>2
      <4>2. CASE i = k + 1
        <5>1. n(p) + 1 \in 1 .. n(p) + 1
          BY <2>1
        <5>2. QED
          BY <1>3, <1>4, <2>6, <4>2, <5>1
      <4>3. QED
        BY <2>4, <4>1, <4>2
    <3>4. n(p)' \in 0 .. Len(acts(p))
      BY <2>3, <3>1
    <3>5. QED
      BY <1>3, <2>3, <3>1, <3>2, <3>3, <3>4 DEF FollowsProgram, acts, n
  <2>7. CASE p # place
    <3>1. n(p)' = n(p)
      BY <1>4, <2>2, <2>7
    <3>2. n(p) > 0 => LastIs(tape', k + 1, p, acts(p)[n(p)])
      <4>1. tape'[k + 1][1] # p
        BY <1>3, <1>4, <2>7
      <4>2. n(p) > 0 => LastIs(tape', k, p, acts(p)[n(p)])
        BY <1>2, <2>1, <2>5, LastIsLocal
      <4>3. QED
        BY <1>2, <4>1, <4>2, LastIsNext
    <3> HIDE DEF a, acts, n, k
    <3>3. ASSUME NEW i \in 1 .. k + 1, tape'[i][1] = p
          PROVE  \E m \in 1 .. n(p) : tape'[i][2] = acts(p)[m]
      BY <1>3, <1>4, <2>1, <2>4, <2>7, <3>3
    <3>4. QED
      BY <1>3, <2>1, <2>3, <3>1, <3>2, <3>3 DEF FollowsProgram, acts, n
  <2>8. QED
    BY <2>6, <2>7
<1>6. QED
  BY <1>1, <1>5 DEF ProgramInv

LEMMA RecordKeepsBrackets ==
  ASSUME LocksAreProbed, PhaseInv, ProgramInv, BracketInv,
         NEW place \in DOMAIN body, Record(place)
  PROVE  BracketInv'
<1> DEFINE acts == ActsOf(body, place)
           n == Progress(tape, place)
           k == Len(tape)
           a == <<place, acts[n + 1]>>
<1>1. /\ a \in (DOMAIN body) \X Site /\ tape' = Append(tape, a)
      /\ n \in Nat /\ n + 1 \in 1 .. Len(acts) /\ acts \in Seq(Site)
  BY RecordAppends
<1>2. tape \in Seq((DOMAIN body) \X Site) /\ k \in Nat
  BY LenProperties DEF PhaseInv
<1>3. /\ Len(tape') = k + 1 /\ tape'[k + 1] = a
      /\ \A i \in 1 .. k : tape'[i] = tape[i]
  BY <1>1, <1>2, AppendProperties
<1>4. Agree(tape', tape, k)
  BY <1>3 DEF Agree
<1> SUFFICES ASSUME NEW i \in 1 .. k + 1, Closing(tape'[i])
             PROVE  LastIs(tape', i - 1, tape'[i][1], LockOf(tape'[i][2]))
  BY <1>3 DEF BracketInv, Closing
<1>5. CASE i \in 1 .. k
  <2>1. LastIs(tape, i - 1, tape[i][1], LockOf(tape[i][2]))
    BY <1>3, <1>5 DEF BracketInv, Closing
  <2>2. i - 1 \in 0 .. k
    BY <1>2, <1>5
  <2>3. QED
    BY <1>2, <1>3, <1>4, <1>5, <2>1, <2>2, LastIsLocal
<1>6. CASE i = k + 1
  <2>1. acts[n + 1] \in Unlocking
    BY <1>3, <1>6 DEF Closing
  <2>2. n + 1 > 1 /\ acts[(n + 1) - 1] = LockOf(acts[n + 1])
    <3>1. n + 1 \in DOMAIN acts
      BY <1>1, LenProperties
    <3>2. Disciplined(body)
      BY DEF PhaseInv, LocksAreProbed
    <3> HIDE DEF n
    <3>3. QED
      BY <2>1, <3>1, <3>2 DEF Disciplined
  <2>3. n > 0 /\ (n + 1) - 1 = n /\ i - 1 = k
    BY <1>1, <1>2, <1>6, <2>2
  <2>4. LastIs(tape, k, place, acts[n])
    BY <2>3 DEF ProgramInv, FollowsProgram
  <2>5. LastIs(tape', k, place, acts[n])
    BY <1>2, <1>4, <2>4, LastIsLocal
  <2> HIDE DEF acts, n, k
  <2>6. QED
    BY <1>3, <1>6, <2>2, <2>3, <2>5
<1>7. QED
  BY <1>2, <1>5, <1>6
-----------------------------------------------------------------------------
(* The lock, the data and the critical sections, in either phase.           *)

\* How many acts passed so far.
Cursor == IF phase = "record" THEN Len(tape) ELSE Len(log)

Section == (DOMAIN body) \X Operations \X BOOLEAN
WorldTypes ==
  world \in [owes     : SUBSET ((DOMAIN body) \X Operations),
             holder   : {Nobody} \cup ((DOMAIN body) \X Operations),
             isSome   : BOOLEAN,
             quits    : SUBSET (DOMAIN body),
             crashed  : {Nobody} \cup (DOMAIN body),
             sections : Seq(Section),
             locks    : Seq((DOMAIN body) \X Operations)]

\* What a thread owes is what its last act announced.
OwedInv ==
  \A a \in world.owes : LastIs(tape, Cursor, a[1], a[2])

\* Who is about to drop a guard holds the lock, and so does who took it last.
HeldInv ==
  /\ \A a \in world.owes : Closing(a) => world.holder = <<a[1], LockOf(a[2])>>
  /\ \A place \in DOMAIN body, l \in Locking :
       Idle(place) /\ LastIs(tape, Cursor, place, l)
         => world.holder = <<place, l>>

\* The data before the k-th section.
Before(secs, k) == IF k = 1 THEN body = RaceBtwFunc ELSE secs[k - 1][3]

\* The k-th section is that of the k-th act that drops a guard, and leaves what
\* the operation under the lock makes of the data before it.
SectionOf(secs, k, n) ==
  \E i \in 1 .. n : /\ Closing(tape[i]) /\ Closed(tape, i) = k
                    /\ tape[i] = <<secs[k][1], secs[k][2]>>
Matches(secs, n) ==
  \A k \in 1 .. Len(secs) :
    /\ SectionOf(secs, k, n)
    /\ secs[k][3] = Leaves(LockOf(secs[k][2]), Before(secs, k))

\* The sections are those of all acts passed that drop a guard, but for the one
\* whose operation is still owed.
Done == Len(world.sections)
SectionInv ==
  /\ Matches(world.sections, Cursor)
  /\ (\A a \in world.owes : ~Closing(a)) => Closed(tape, Cursor) = Done
  /\ \A a \in world.owes :
       Closing(a) =>
         /\ Closed(tape, Cursor) = Done + 1
         /\ \E i \in 1 .. Cursor : tape[i] = a /\ Closed(tape, i) = Done + 1

\* The data are what the last section left, and what the holder made of it.
DataInv ==
  world.isSome = IF world.holder = Nobody THEN Before(world.sections, Done + 1)
                 ELSE Leaves(world.holder[2], Before(world.sections, Done + 1))

WorldInv == WorldTypes /\ OwedInv /\ HeldInv /\ SectionInv /\ DataInv

\* Without a section nothing is owed.
LEMMA NewWorldInv ==
  ASSUME body \in Bodies, world = NewWorld(body), Cursor = 0
  PROVE  WorldInv
<1>1. /\ world.owes = {} /\ world.holder = Nobody /\ world.sections = <<>>
      /\ world.isSome = (body = RaceBtwFunc)
  BY DEF NewWorld
<1>2. WorldTypes
  <2>1. <<>> \in Seq(Section) /\ <<>> \in Seq((DOMAIN body) \X Operations)
    BY EmptySeq
  <2>2. QED
    BY <2>1 DEF NewWorld, WorldTypes
<1>3. Done = 0 /\ Closed(tape, Cursor) = 0
  <2>1. Len(<<>>) = 0
    OBVIOUS
  <2>2. QED
    BY <1>1, <2>1, ClosedInit DEF Done
<1>4. OwedInv /\ HeldInv
  BY <1>1 DEF OwedInv, HeldInv, LastIs
<1>5. SectionInv
  BY <1>1, <1>3 DEF SectionInv, Matches, Done
<1>6. DataInv
  BY <1>1, <1>3 DEF DataInv, Before
<1>7. QED
  BY <1>2, <1>4, <1>5, <1>6 DEF WorldInv

\* Whoever holds the lock, or is about to give it back, is the only one.
LEMMA OneClosing ==
  ASSUME WorldInv, Cursor \in Nat,
         NEW a \in world.owes, NEW b \in world.owes, a[1] = b[1]
  PROVE  a = b
<1>1. a[2] = b[2]
  BY LastIsUnique DEF WorldInv, OwedInv
<1>2. a = <<a[1], a[2]>> /\ b = <<b[1], b[2]>>
  BY DEF WorldInv, WorldTypes
<1>3. QED
  BY <1>1, <1>2

\* A probe passes, in either phase: a is the next act of the tape, and its
\* thread owes nothing else.
LEMMA AdvanceKeepsWorld ==
  ASSUME LocksAreProbed, WorldInv, UNCHANGED body,
         Cursor \in Nat, Cursor' = Cursor + 1, Agree(tape', tape, Cursor),
         NEW a \in (DOMAIN body) \X Site, tape'[Cursor + 1] = a, Idle(a[1]),
         Closing(a) => LastIs(tape', Cursor, a[1], LockOf(a[2])),
         world' = IF a[2] \in Operations THEN Owes(a[1], a[2]) ELSE world
  PROVE  WorldInv'
<1> DEFINE n == Cursor
<1>1. /\ world'.owes = IF a[2] \in Operations THEN world.owes \cup {a}
                       ELSE world.owes
      /\ world'.holder = world.holder /\ world'.isSome = world.isSome
      /\ world'.sections = world.sections
      /\ WorldTypes'
  <2>1. a = <<a[1], a[2]>> /\ a[1] \in DOMAIN body
    OBVIOUS
  <2>2. WorldTypes
    BY DEF WorldInv
  <2>3. QED
    BY <2>1, <2>2 DEF WorldTypes, Owes, Section
<1>2. /\ n \in Nat /\ n + 1 \in 1 .. n + 1
      /\ \A i \in 1 .. n : i \in 1 .. n + 1 /\ tape'[i] = tape[i]
      /\ n \in 0 .. n
  BY DEF Agree
<1>3. \A p, s : p # a[1] =>
        (LastIs(tape', n + 1, p, s) <=> LastIs(tape, n, p, s))
  BY <1>2, LastIsNext, LastIsLocal
<1>4. \A s : LastIs(tape', n + 1, a[1], s) <=> s = a[2]
  <2>1. a = <<a[1], a[2]>>
    OBVIOUS
  <2>2. LastIs(tape', n + 1, a[1], a[2])
    BY <1>2, <2>1, LastIsNext
  <2>3. ASSUME NEW s, LastIs(tape', n + 1, a[1], s) PROVE s = a[2]
    <3>1. n + 1 \in Nat
      BY <1>2
    <3>2. QED
      BY <2>2, <2>3, <3>1, LastIsUnique
  <2>4. QED
    BY <2>2, <2>3
<1>5. \A b \in world.owes : b[1] # a[1]
  <2>1. \A b \in world.owes : b = <<b[1], b[2]>> /\ b[2] \in Operations
    BY DEF WorldInv, WorldTypes
  <2>2. QED
    BY <2>1 DEF Idle
<1>6. OwedInv'
  BY <1>1, <1>3, <1>4, <1>5 DEF WorldInv, OwedInv
<1>7. Closing(a) => world.holder = <<a[1], LockOf(a[2])>>
  <2> SUFFICES ASSUME Closing(a) PROVE world.holder = <<a[1], LockOf(a[2])>>
    OBVIOUS
  <2>1. LastIs(tape, n, a[1], LockOf(a[2]))
    BY <1>2, LastIsLocal
  <2>2. LockOf(a[2]) \in Locking
    BY DEF LockOf, Locking
  <2>3. QED
    BY <2>1, <2>2 DEF WorldInv, HeldInv
<1>8. HeldInv'
  <2>1. \A b \in world'.owes : Closing(b) => world'.holder = <<b[1], LockOf(b[2])>>
    BY <1>1, <1>7 DEF WorldInv, HeldInv
  <2>2. ASSUME NEW p \in DOMAIN body, NEW l \in Locking, Idle(p)',
               LastIs(tape', n + 1, p, l)
        PROVE  world'.holder = <<p, l>>
    <3>1. p # a[1]
      <4>1. l \in Operations
        BY LockOrUnlock
      <4>2. a = <<a[1], a[2]>>
        OBVIOUS
      <4>3. QED
        BY <1>1, <1>4, <2>2, <4>1, <4>2 DEF Idle
    <3>2. Idle(p) /\ LastIs(tape, n, p, l)
      BY <1>1, <1>3, <2>2, <3>1 DEF Idle
    <3>3. QED
      BY <1>1, <3>2 DEF WorldInv, HeldInv
  <2>3. QED
    BY <2>1, <2>2 DEF HeldInv, Closing
<1>9. Done' = Done /\ Done \in Nat
  BY <1>1, LenProperties DEF WorldInv, WorldTypes, Done
<1>10. \A i \in 0 .. n : Closed(tape', i) = Closed(tape, i)
  BY ClosedLocal
<1>11. Closed(tape', n + 1)
         = IF Closing(a) THEN Closed(tape, n) + 1 ELSE Closed(tape, n)
  BY <1>2, <1>10, ClosedNext
<1>12. Matches(world.sections, n)'
  <2>1. Matches(world.sections, n)
    BY DEF WorldInv, SectionInv
  <2>2. ASSUME NEW k, SectionOf(world.sections, k, n)
        PROVE  SectionOf(world.sections, k, n)'
    <3>1. PICK i \in 1 .. n :
            /\ Closing(tape[i]) /\ Closed(tape, i) = k
            /\ tape[i] = <<world.sections[k][1], world.sections[k][2]>>
      BY <2>2 DEF SectionOf
    <3>2. i \in 1 .. n' /\ i \in 0 .. n /\ tape'[i] = tape[i]
      BY <1>2
    <3>3. QED
      BY <1>1, <1>10, <3>1, <3>2 DEF SectionOf, Closing
  <2>3. QED
    BY <1>1, <2>1, <2>2 DEF Matches, Before
<1>13. Closing(a) => Closed(tape, n) = Done
  BY <1>5, <1>7 DEF WorldInv, HeldInv, SectionInv
<1>14. SectionInv'
  <2>1. ASSUME \A b \in world'.owes : ~Closing(b)
        PROVE  Closed(tape', n + 1) = Done
    BY <1>1, <1>11, <2>1, LockOrUnlock DEF WorldInv, SectionInv, Closing
  <2>2. ASSUME NEW b \in world'.owes, Closing(b)
        PROVE  /\ Closed(tape', n + 1) = Done + 1
               /\ \E i \in 1 .. n + 1 : tape'[i] = b /\ Closed(tape', i) = Done + 1
    <3>1. CASE b = a
      BY <1>2, <1>11, <1>13, <2>2, <3>1
    <3>2. CASE b # a
      <4>1. b \in world.owes
        BY <1>1, <3>2
      <4>2. ~Closing(a)
        BY <1>5, <1>7, <2>2, <4>1 DEF WorldInv, HeldInv
      <4>3. PICK i \in 1 .. n : tape[i] = b /\ Closed(tape, i) = Done + 1
        BY <2>2, <4>1 DEF WorldInv, SectionInv
      <4>4. i \in 0 .. n
        BY <1>2
      <4>5. Closed(tape, n) = Done + 1
        BY <2>2, <4>1 DEF WorldInv, SectionInv
      <4>6. QED
        BY <1>2, <1>10, <1>11, <4>2, <4>3, <4>4, <4>5
    <3>3. QED
      BY <3>1, <3>2
  <2>3. QED
    BY <1>1, <1>9, <1>12, <2>1, <2>2 DEF SectionInv, Closing
<1>15. DataInv'
  BY <1>1, <1>9 DEF WorldInv, DataInv, Before
<1>16. QED
  BY <1>1, <1>6, <1>8, <1>14, <1>15 DEF WorldInv

\* A lock is taken, or given back, in either phase.
LEMMA OperateKeepsWorld ==
  ASSUME LocksAreProbed, WorldInv, UNCHANGED <<body, tape>>,
         Cursor \in Nat, Cursor' = Cursor,
         NEW place \in DOMAIN body, NEW s \in Operations, Operate(place, s)
  PROVE  WorldInv'
<1> DEFINE n == Cursor
           a == <<place, s>>
           section == <<place, s, world.isSome>>
<1>1. /\ a \in world.owes
      /\ world'.owes = world.owes \ {a}
      /\ world'.isSome = Leaves(s, world.isSome)
      /\ s \in Locking => /\ world.holder = Nobody /\ world'.holder = a
                          /\ world'.sections = world.sections
      /\ s \notin Locking =>
           /\ world'.holder = Nobody
           /\ world'.sections = Append(world.sections, section)
  BY UnlockIsProbed DEF Operate
<1>2. LastIs(tape, n, place, s)
  BY <1>1 DEF WorldInv, OwedInv
<1>3. WorldTypes'
  <2>1. /\ world.sections \in Seq(Section)
        /\ world.locks \in Seq((DOMAIN body) \X Operations)
        /\ world.isSome \in BOOLEAN /\ world.quits \in SUBSET (DOMAIN body)
        /\ world.crashed \in {Nobody} \cup (DOMAIN body)
        /\ world.owes \in SUBSET ((DOMAIN body) \X Operations)
    BY DEF WorldInv, WorldTypes
  <2>2. section \in Section /\ a \in (DOMAIN body) \X Operations
    BY <2>1 DEF Section
  <2>3. /\ Append(world.sections, section) \in Seq(Section)
        /\ Append(world.locks, a) \in Seq((DOMAIN body) \X Operations)
    BY <2>1, <2>2, AppendProperties
  <2>4. Leaves(s, world.isSome) \in BOOLEAN
    BY DEF Leaves
  <2>5. world' \in [owes     : SUBSET ((DOMAIN body) \X Operations),
                    holder   : {Nobody} \cup ((DOMAIN body) \X Operations),
                    isSome   : BOOLEAN,
                    quits    : SUBSET (DOMAIN body),
                    crashed  : {Nobody} \cup (DOMAIN body),
                    sections : Seq(Section),
                    locks    : Seq((DOMAIN body) \X Operations)]
    BY <2>1, <2>2, <2>3, <2>4, UnlockIsProbed DEF Operate
  <2>6. QED
    BY <2>5 DEF WorldTypes, Section
<1>4. OwedInv'
  BY <1>1 DEF WorldInv, OwedInv
<1>5. \A b \in world.owes : Closing(b) => b = a
  <2> SUFFICES ASSUME NEW b \in world.owes, Closing(b) PROVE b = a
    OBVIOUS
  <2>1. world.holder = <<b[1], LockOf(b[2])>>
    BY DEF WorldInv, HeldInv
  <2>2. s \notin Locking
    BY <1>1, <2>1 DEF Nobody
  <2>3. world.holder = <<place, LockOf(s)>>
    BY <1>1, <2>2, LockOrUnlock DEF WorldInv, HeldInv, Closing
  <2>4. b[1] = a[1]
    BY <2>1, <2>3
  <2>5. QED
    BY <1>1, <2>4, OneClosing
<1>6. \A b \in world'.owes : ~Closing(b)
  BY <1>1, <1>5
<1>7. ASSUME NEW p \in DOMAIN body, Idle(p)', p # place PROVE Idle(p)
  BY <1>1, <1>7 DEF Idle
<1>8. ASSUME NEW p \in DOMAIN body, NEW l \in Locking, Idle(p)',
             LastIs(tape, n, p, l)
      PROVE  s \in Locking /\ p = place /\ l = s
  <2>1. CASE p = place
    BY <1>2, <1>8, <2>1, LastIsUnique
  <2>2. CASE p # place
    <3>1. world.holder = <<p, l>>
      BY <1>7, <1>8, <2>2 DEF WorldInv, HeldInv
    <3>2. s \notin Locking
      BY <1>1, <3>1 DEF Nobody
    <3>3. world.holder = <<place, LockOf(s)>>
      BY <1>1, <3>2, LockOrUnlock DEF WorldInv, HeldInv, Closing
    <3>4. QED
      BY <2>2, <3>1, <3>3
  <2>3. QED
    BY <2>1, <2>2
<1>9. HeldInv'
  BY <1>1, <1>6, <1>8 DEF HeldInv, Closing
<1>10. Done \in Nat /\ world.sections \in Seq(Section)
  BY LenProperties DEF WorldInv, WorldTypes, Done
<1>11. CASE s \in Locking
  <2>1. Done' = Done
    BY <1>1, <1>11 DEF Done
  <2>2. a[2] = s
    OBVIOUS
  <2>3. \A b \in world.owes : ~Closing(b)
    BY <1>5, <1>11, <2>2, LockOrUnlock DEF Closing
  <2>4. \A k : Before(world.sections, k)' = Before(world.sections, k)
    BY <1>1, <1>11 DEF Before
  <2>5. SectionInv'
    <3>1. Matches(world.sections, n) /\ Closed(tape, n) = Done
      BY <2>3 DEF WorldInv, SectionInv
    <3>2. world'.sections = world.sections
      BY <1>1, <1>11
    <3>3. \A k : SectionOf(world.sections, k, n)'
                   <=> SectionOf(world.sections, k, n)
      BY <3>2 DEF SectionOf, Closing
    <3>4. Matches(world.sections, n)'
      BY <2>4, <3>1, <3>2, <3>3 DEF Matches
    <3>5. QED
      BY <1>6, <2>1, <3>1, <3>4 DEF SectionInv, Closing
  <2>6. DataInv'
    <3>1. world.isSome = Before(world.sections, Done + 1)
      BY <1>1, <1>11 DEF WorldInv, DataInv
    <3>2. a # Nobody
      BY DEF Nobody
    <3>3. world'.holder = a /\ world'.isSome = Leaves(a[2], world.isSome)
      BY <1>1, <1>11, <2>2
    <3> HIDE DEF a
    <3>4. QED
      BY <2>1, <2>4, <3>1, <3>2, <3>3 DEF DataInv
  <2>7. QED
    BY <1>3, <1>4, <1>9, <2>5, <2>6 DEF WorldInv
<1>12. CASE s \notin Locking
  <2>1. Closing(a) /\ world.holder = <<place, LockOf(s)>>
    BY <1>1, <1>12, LockOrUnlock DEF WorldInv, HeldInv, Closing
  <2>2. /\ Done' = Done + 1
        /\ world'.sections[Done + 1] = section
        /\ \A k \in 1 .. Done : world'.sections[k] = world.sections[k]
    <3>1. section \in Section
      BY DEF Section, WorldInv, WorldTypes
    <3>2. QED
      BY <1>1, <1>10, <1>12, <3>1, AppendProperties DEF Done
  <2>3. \A k \in 1 .. Done + 1 : Before(world.sections, k)' = Before(world.sections, k)
    BY <1>10, <2>2 DEF Before
  <2>4. world'.isSome = world.isSome
    BY <1>1, <1>12 DEF Leaves, Locking, WorldInv, WorldTypes
  <2>5. world.isSome = Leaves(LockOf(s), Before(world.sections, Done + 1))
    BY <2>1 DEF WorldInv, DataInv, Nobody
  <2>6. /\ Closed(tape, n) = Done + 1
        /\ \E i \in 1 .. n : tape[i] = a /\ Closed(tape, i) = Done + 1
    BY <1>1, <2>1 DEF WorldInv, SectionInv
  <2>7. Matches(world.sections, n)'
    <3> SUFFICES ASSUME NEW k \in 1 .. Done + 1
                 PROVE  /\ SectionOf(world.sections, k, n)'
                        /\ world'.sections[k][3]
                             = Leaves(LockOf(world'.sections[k][2]),
                                      Before(world.sections, k)')
      BY <2>2 DEF Matches, Done
    <3>1. CASE k = Done + 1
      <4>1. world'.sections[k][1] = place /\ world'.sections[k][2] = s
            /\ world'.sections[k][3] = world.isSome
        BY <2>2, <3>1
      <4>2. SectionOf(world.sections, k, n)'
        BY <2>1, <2>6, <3>1, <4>1 DEF SectionOf, Closing
      <4>3. QED
        BY <2>3, <2>5, <3>1, <4>1, <4>2
    <3>2. CASE k \in 1 .. Done
      <4>1. /\ SectionOf(world.sections, k, n)
            /\ world.sections[k][3] = Leaves(LockOf(world.sections[k][2]),
                                             Before(world.sections, k))
        BY <3>2 DEF WorldInv, SectionInv, Matches, Done
      <4>2. SectionOf(world.sections, k, n)'
        BY <2>2, <3>2, <4>1 DEF SectionOf, Closing
      <4>3. QED
        BY <2>2, <2>3, <3>2, <4>1, <4>2
    <3>3. QED
      BY <1>10, <3>1, <3>2
  <2>8. SectionInv'
    BY <1>6, <2>2, <2>6, <2>7 DEF SectionInv
  <2>9. DataInv'
    <3>1. Before(world.sections, Done + 1)' = world.isSome
      BY <1>10, <2>2 DEF Before
    <3>2. QED
      BY <1>1, <1>12, <2>4, <3>1 DEF DataInv
  <2>10. QED
    BY <1>3, <1>4, <1>9, <2>8, <2>9 DEF WorldInv
<1>13. QED
  BY <1>11, <1>12
-----------------------------------------------------------------------------
(* Record, hand-over and replay.                                            *)

\* Whoever panicked in the recorded run did so under the lock, and is gone.
CrashInv ==
  phase = "record" /\ world.crashed # Nobody =>
    /\ world.holder # Nobody /\ world.holder[1] = world.crashed
    /\ Idle(world.crashed)

\* The sections of the recorded run are those of its whole tape, and the replay
\* has done the first of them.
RecordedInv ==
  phase = "replay" =>
    /\ recorded.sections \in Seq(Section)
    /\ Matches(recorded.sections, Len(tape))
    /\ Len(recorded.sections) = Closed(tape, Len(tape))
    /\ Done <= Len(recorded.sections)
    /\ \A k \in 1 .. Done : world.sections[k] = recorded.sections[k]

JointInv ==
  /\ PhaseInv /\ ReplayerInv
  /\ ProgramInv /\ BracketInv
  /\ WorldInv /\ CrashInv /\ RecordedInv

LEMMA JointInit == LocksAreProbed /\ RRInit => JointInv
<1> SUFFICES ASSUME LocksAreProbed, RRInit PROVE JointInv
  OBVIOUS
<1>1. /\ Init /\ phase = "record" /\ tape = <<>> /\ world = NewWorld(body)
      /\ body \in Bodies /\ log = <<>>
  BY DEF RRInit, Init
<1>2. Len(tape) = 0 /\ <<>> \in Seq((DOMAIN body) \X Site)
  BY <1>1, EmptySeq
<1>3. PhaseInv
  <2>1. \A t \in Thread : pc[t] \in {"unborn", "run"}
    BY <1>1 DEF Init
  <2>2. QED
    BY <1>1, <1>2, <2>1 DEF PhaseInv
<1>4. ReplayerInv
  BY <1>1, TypesInit, QueueInit, BaseInit, NameInit DEF ReplayerInv, ReplayInv
<1>5. ProgramInv /\ BracketInv
  BY <1>1, RecordInit
<1>6. WorldInv
  BY <1>1, <1>2, NewWorldInv DEF Cursor
<1>7. CrashInv /\ RecordedInv
  BY <1>1 DEF CrashInv, RecordedInv, NewWorld
<1>8. QED
  BY <1>3, <1>4, <1>5, <1>6, <1>7 DEF JointInv

LEMMA RecordKeepsJoint ==
  ASSUME LocksAreProbed, JointInv, ReplayerInv',
         NEW place \in DOMAIN body, Record(place)
  PROVE  JointInv'
<1> DEFINE n == Len(tape)
           a == <<place, ActsOf(body, place)[Progress(tape, place) + 1]>>
<1>1. PhaseInv /\ ProgramInv /\ BracketInv /\ WorldInv /\ CrashInv
  BY DEF JointInv
<1>2. /\ a \in (DOMAIN body) \X Site /\ tape' = Append(tape, a)
      /\ UNCHANGED body
  BY <1>1, RecordAppends
<1>3. /\ phase = "record" /\ UNCHANGED <<phase, log, pc, scenario>>
      /\ Idle(place) /\ place # world.crashed
      /\ world' = IF a[2] \in Operations THEN Owes(a[1], a[2]) ELSE world
  BY DEF Record, NextAct, vars, director, target
<1>4. tape \in Seq((DOMAIN body) \X Site) /\ n \in Nat
  BY <1>1, LenProperties DEF PhaseInv
<1>5. /\ tape' \in Seq((DOMAIN body) \X Site) /\ Len(tape') = n + 1
      /\ tape'[n + 1] = a /\ Agree(tape', tape, n)
  BY <1>2, <1>4, AppendProperties DEF Agree
<1>6. PhaseInv'
  BY <1>1, <1>2, <1>3, <1>5 DEF PhaseInv
<1>7. ProgramInv' /\ BracketInv'
  BY <1>1, RecordKeepsProgram, RecordKeepsBrackets
<1>8. Cursor = n /\ Cursor' = n + 1
  BY <1>3, <1>5 DEF Cursor
<1> HIDE DEF a, n
<1>9. Closing(a) => LastIs(tape', n, a[1], LockOf(a[2]))
  <2>1. n + 1 \in 1 .. Len(tape') /\ (n + 1) - 1 = n
    BY <1>4, <1>5
  <2>2. QED
    BY <1>5, <1>7, <2>1 DEF BracketInv, Closing
<1>10. a[1] = place
  BY DEF a
<1>11. WorldInv'
  BY <1>1, <1>2, <1>3, <1>4, <1>5, <1>8, <1>9, <1>10, AdvanceKeepsWorld
<1>12. CrashInv'
  <2>1. /\ world'.crashed = world.crashed /\ world'.holder = world.holder
        /\ world'.owes \subseteq world.owes \cup {<<place, a[2]>>}
    BY <1>1, <1>3, <1>10 DEF WorldInv, WorldTypes, Owes
  <2>2. QED
    BY <1>1, <1>3, <2>1 DEF CrashInv, Idle
<1>13. RecordedInv'
  BY <1>3 DEF RecordedInv
<1>14. QED
  BY <1>6, <1>7, <1>11, <1>12, <1>13 DEF JointInv

LEMMA TapeStays ==
  ASSUME PhaseInv, ProgramInv, BracketInv, UNCHANGED <<body, tape>>
  PROVE  ProgramInv' /\ BracketInv'
BY DEF ProgramInv, FollowsProgram, BracketInv, Closing

LEMMA OperationKeepsCrash ==
  ASSUME LocksAreProbed, WorldInv, Cursor \in Nat, CrashInv, UNCHANGED phase,
         NEW place \in DOMAIN body, NEW s \in Operations, Operate(place, s)
  PROVE  CrashInv'
<1> SUFFICES ASSUME phase = "record", world'.crashed # Nobody
             PROVE  /\ world'.holder # Nobody
                    /\ world'.holder[1] = world'.crashed
                    /\ Idle(world.crashed)'
  BY DEF CrashInv
<1>1. /\ <<place, s>> \in world.owes
      /\ world'.owes = world.owes \ {<<place, s>>}
      /\ world'.crashed = IF s \in Unwraps /\ ~world.isSome THEN place
                          ELSE world.crashed
      /\ s \in Locking => world.holder = Nobody /\ world'.holder = <<place, s>>
  BY UnlockIsProbed DEF Operate, UnwrapsNone
<1>2. CASE s \in Unwraps /\ ~world.isSome
  <2>1. s \in Locking /\ world'.crashed = place
    BY <1>1, <1>2 DEF Unwraps, Locking
  <2>2. \A r \in Operations : <<place, r>> \in world.owes => r = s
    <3> SUFFICES ASSUME NEW r \in Operations, <<place, r>> \in world.owes
                 PROVE  r = s
      OBVIOUS
    <3>1. <<place, r>>[1] = <<place, s>>[1]
      OBVIOUS
    <3>2. <<place, r>> = <<place, s>>
      BY <1>1, <3>1, OneClosing
    <3>3. QED
      BY <3>2
  <2>3. Idle(place)'
    BY <1>1, <2>2 DEF Idle
  <2>4. QED
    BY <1>1, <2>1, <2>3 DEF Nobody, Idle
<1>3. CASE ~(s \in Unwraps /\ ~world.isSome)
  <2>1. world.crashed # Nobody /\ world.holder # Nobody
        /\ world.holder[1] = world.crashed /\ Idle(world.crashed)
    BY <1>1, <1>3 DEF CrashInv
  <2>2. s \in Unlocking
    BY <1>1, <2>1, LockOrUnlock
  <2>3. world.holder = <<place, LockOf(s)>>
    BY <1>1, <2>2 DEF WorldInv, HeldInv, Closing
  <2>4. QED
    BY <1>1, <2>1, <2>3 DEF Idle
<1>4. QED
  BY <1>2, <1>3

LEMMA OperationKeepsJoint ==
  ASSUME LocksAreProbed, JointInv, ReplayerInv',
         NEW place \in DOMAIN body, NEW s \in Operations,
         RecordedOperation(place, s)
  PROVE  JointInv'
<1>1. PhaseInv /\ ProgramInv /\ BracketInv /\ WorldInv /\ CrashInv
  BY DEF JointInv
<1>2. /\ phase = "record" /\ Operate(place, s)
      /\ UNCHANGED <<phase, log, pc, scenario, body, tape>>
  BY DEF RecordedOperation, vars, director, target
<1>3. Cursor \in Nat /\ Cursor' = Cursor
  BY <1>1, <1>2, LenProperties DEF Cursor, PhaseInv
<1>4. WorldInv' /\ CrashInv'
  BY <1>1, <1>2, <1>3, OperateKeepsWorld, OperationKeepsCrash
<1>5. PhaseInv' /\ ProgramInv' /\ BracketInv' /\ RecordedInv'
  BY <1>1, <1>2, TapeStays DEF PhaseInv, RecordedInv
<1>6. QED
  BY <1>4, <1>5 DEF JointInv

LEMMA HandOverKeepsJoint ==
  ASSUME LocksAreProbed, JointInv, ReplayerInv', HandOver
  PROVE  JointInv'
<1>1. PhaseInv /\ ProgramInv /\ BracketInv /\ WorldInv /\ CrashInv
  BY DEF JointInv
<1>2. /\ phase = "record" /\ phase' = "replay" /\ world.crashed # Nobody
      /\ scenario' = tape /\ recorded' = world /\ world' = NewWorld(body)
      /\ UNCHANGED <<body, log, tape>>
  BY DEF HandOver
<1>3. PhaseInv' /\ ProgramInv' /\ BracketInv' /\ CrashInv'
  BY <1>1, <1>2, TapeStays DEF PhaseInv, CrashInv
<1>4. Cursor = Len(tape) /\ Cursor \in Nat /\ Cursor' = 0
  <2>1. log = <<>> /\ Len(<<>>) = 0
    BY <1>1, <1>2 DEF PhaseInv
  <2>2. QED
    BY <1>1, <1>2, <2>1, LenProperties DEF Cursor, PhaseInv
<1>5. WorldInv'
  <2>1. body' \in Bodies /\ world' = NewWorld(body)'
    BY <1>1, <1>2 DEF PhaseInv, NewWorld
  <2>2. (body \in Bodies /\ world = NewWorld(body) /\ Cursor = 0 => WorldInv)'
    BY NewWorldInv, PTL
  <2>3. QED
    BY <1>4, <2>1, <2>2
<1>6. \A a \in world.owes : ~Closing(a)
  <2> SUFFICES ASSUME NEW a \in world.owes, Closing(a) PROVE FALSE
    OBVIOUS
  <2>1. world.holder = <<a[1], LockOf(a[2])>> /\ a = <<a[1], a[2]>>
        /\ a[2] \in Operations
    BY <1>1 DEF WorldInv, HeldInv, WorldTypes
  <2>2. a[1] = world.crashed /\ Idle(world.crashed)
    BY <1>1, <1>2, <2>1 DEF CrashInv
  <2>3. QED
    BY <2>1, <2>2 DEF Idle
<1>7. RecordedInv'
  <2>1. /\ world.sections \in Seq(Section)
        /\ Matches(world.sections, Cursor)
        /\ Closed(tape, Cursor) = Len(world.sections)
    BY <1>1, <1>6 DEF WorldInv, WorldTypes, SectionInv, Done
  <2>2. Matches(recorded.sections, Len(tape))'
    BY <1>2, <1>4, <2>1 DEF Matches, SectionOf, Before, Closing
  <2>3. Len(recorded'.sections) = Closed(tape, Len(tape))'
    BY <1>2, <1>4, <2>1 DEF Closed, Closings, Closing
  <2>4. Done' = 0
    <3>1. Len(<<>>) = 0
      OBVIOUS
    <3>2. QED
      BY <1>2, <3>1 DEF NewWorld, Done
  <2>5. recorded'.sections \in Seq(Section')
    BY <1>2, <2>1 DEF Section
  <2>6. Len(world.sections) \in Nat
    BY <2>1, LenProperties
  <2>7. QED
    BY <1>2, <2>2, <2>3, <2>4, <2>5, <2>6 DEF RecordedInv
<1>8. QED
  BY <1>3, <1>5, <1>7 DEF JointInv

LEMMA WorldStays ==
  ASSUME WorldInv, UNCHANGED <<body, tape, world>>, Cursor' = Cursor
  PROVE  WorldInv'
<1>1. WorldTypes'
  BY DEF WorldInv, WorldTypes, Section
<1>2. OwedInv'
  BY DEF WorldInv, OwedInv
<1>3. HeldInv'
  BY DEF WorldInv, HeldInv, Closing, Idle
<1>4. SectionInv'
  <2>1. Done' = Done
    BY DEF Done
  <2>2. QED
    BY <2>1 DEF WorldInv, SectionInv, Matches, SectionOf, Before, Closing
<1>5. DataInv'
  BY DEF WorldInv, DataInv, Before, Done
<1>6. QED
  BY <1>1, <1>2, <1>3, <1>4, <1>5 DEF WorldInv

\* Only the light writes to the log.
LEMMA OnlyPassLogs ==
  ASSUME NEW t \in Thread, Step(t)
  PROVE  UNCHANGED <<body, scenario>> /\ (Pass(t) \/ log' = log)
BY DEF Step, Acquire, Pass, Sleep, WakeUp, Starve, BadPath, ProbeCall,
   SpawningDec, SpawningRetest, SpawningUntracked, ThreadSpawn, Spawned,
   ThreadEnd, Die, director, target

\* What passes the light in the replay is the next act of the tape, at the
\* place of the thread that passes.
LEMMA PassIsNextOfTape ==
  ASSUME PhaseInv, phase = "replay", ReplayerInv, ReplayerInv',
         NEW t \in Thread, Pass(t)
  PROVE  /\ Len(log) \in Nat /\ Len(log) + 1 \in 1 .. Len(tape)
         /\ Len(log') = Len(log) + 1
         /\ tape[Len(log) + 1] = <<lineage[t], act[t]>>
<1> DEFINE n == Len(log)
           a == <<lineage[t], act[t]>>
<1>1. /\ pc[t] = "light" /\ log' = Append(log, <<tid[t], act[t]>>)
      /\ scenario' = scenario /\ scenario = tape
  BY DEF Pass, target, PhaseInv
<1>2. tid[t] = lineage[t]
  BY <1>1 DEF ReplayerInv, NameInv, ThreadNames, NamedInv
<1>3. /\ log \in Seq(Act) /\ a \in Act /\ n \in Nat
      /\ tape \in Seq(Act) /\ Len(tape) \in Nat
  BY <1>1, LenProperties DEF ReplayerInv, ReplayInv, ReplayTypes, QueueInv, Act
<1>4. log' = Append(log, a)
  BY <1>1, <1>2
<1> HIDE DEF a
<1>5. Len(log') = n + 1 /\ log'[n + 1] = a
  BY <1>3, <1>4, AppendProperties
<1>6. /\ Len(log') <= Len(tape) /\ log' = SubSeq(tape, 1, Len(log'))
  BY <1>1 DEF ReplayerInv, ReplayInv, QueueInv
<1>7. n + 1 \in 1 .. Len(tape)
  BY <1>3, <1>5, <1>6
<1>8. SubSeq(tape, 1, n + 1)[n + 1] = tape[n + 1]
  <2>1. \A i \in 1 .. n + 1 : tape[i] \in Act
    BY <1>3, <1>7, ElementOfSeq
  <2>2. \A i \in 1 .. (n + 1) - 1 + 1 :
          SubSeq(tape, 1, n + 1)[i] = tape[1 + i - 1]
    BY <1>3, <2>1, SubSeqProperties
  <2>3. n + 1 \in 1 .. (n + 1) - 1 + 1 /\ 1 + (n + 1) - 1 = n + 1
    BY <1>3
  <2>4. QED
    BY <2>2, <2>3
<1>9. QED
  BY <1>3, <1>5, <1>6, <1>7, <1>8 DEF a

LEMMA ProbeKeepsJoint ==
  ASSUME LocksAreProbed, JointInv, ReplayerInv', NEW t \in Thread,
         ReplayProbe(t)
  PROVE  JointInv'
<1>1. PhaseInv /\ ReplayerInv /\ ProgramInv /\ BracketInv /\ WorldInv
      /\ RecordedInv
  BY DEF JointInv
<1>2. /\ phase = "replay" /\ Step(t) /\ Idle(lineage[t])
      /\ UNCHANGED <<phase, tape, recorded>>
      /\ world' = IF log' # log /\ act[t] \in Operations
                  THEN Owes(lineage[t], act[t]) ELSE world
  BY DEF ReplayProbe
<1>3. UNCHANGED <<body, scenario>> /\ (Pass(t) \/ log' = log)
  BY <1>2, OnlyPassLogs
<1>4. PhaseInv' /\ ProgramInv' /\ BracketInv' /\ CrashInv'
  BY <1>1, <1>2, <1>3, TapeStays DEF PhaseInv, CrashInv
<1>5. Len(log) \in Nat /\ Cursor = Len(log) /\ Cursor' = Len(log')
  BY <1>1, <1>2, LenProperties DEF ReplayerInv, ReplayInv, QueueInv, Cursor
<1>6. WorldInv' /\ world'.sections = world.sections
  <2>1. CASE Pass(t)
    <3> DEFINE a == <<lineage[t], act[t]>>
    <3>1. /\ Cursor + 1 \in 1 .. Len(tape) /\ Cursor' = Cursor + 1
          /\ tape[Cursor + 1] = a
      BY <1>1, <1>2, <1>5, <2>1, PassIsNextOfTape
    <3>2. log' # log
      <4>1. Len(log') = Len(log) + 1
        BY <1>1, <1>2, <2>1, PassIsNextOfTape
      <4>2. QED
        BY <1>5, <4>1
    <3>3. a \in (DOMAIN body) \X Site
      <4>1. tape \in Seq((DOMAIN body) \X Site)
        BY <1>1 DEF PhaseInv
      <4> HIDE DEF a
      <4>2. QED
        BY <3>1, <4>1, ElementOfSeq
    <3>4. a[1] = lineage[t] /\ a[2] = act[t]
      OBVIOUS
    <3>5. world' = IF a[2] \in Operations THEN Owes(a[1], a[2]) ELSE world
      BY <1>2, <3>2
    <3> HIDE DEF a
    <3>6. Agree(tape', tape, Cursor)
      BY <1>2 DEF Agree
    <3>7. Closing(a) => LastIs(tape', Cursor, a[1], LockOf(a[2]))
      <4>1. (Cursor + 1) - 1 = Cursor
        BY <1>5
      <4>2. QED
        BY <1>1, <1>2, <3>1, <4>1 DEF BracketInv
    <3>8. WorldInv'
      BY <1>1, <1>2, <1>3, <1>5, <3>1, <3>3, <3>4, <3>5, <3>6, <3>7,
         AdvanceKeepsWorld
    <3>9. world'.sections = world.sections
      BY <1>1, <3>5 DEF WorldInv, WorldTypes, Owes
    <3>10. QED
      BY <3>8, <3>9
  <2>2. CASE log' = log
    BY <1>1, <1>2, <1>3, <1>5, <2>2, WorldStays
  <2>3. QED
    BY <1>3, <2>1, <2>2
<1>7. RecordedInv'
  BY <1>1, <1>2, <1>3, <1>6
  DEF RecordedInv, Matches, SectionOf, Before, Done, Section, Closing
<1>8. QED
  BY <1>4, <1>6, <1>7 DEF JointInv

\* The section a replay completes is the one the recorded run has there.
LEMMA NextSectionIsRecorded ==
  ASSUME phase = "replay", WorldInv, RecordedInv, tape \in Seq(Act),
         Cursor \in 0 .. Len(tape),
         NEW place \in DOMAIN body, NEW s \in Unlocking, Operate(place, s)
  PROVE  /\ Done + 1 <= Len(recorded.sections)
         /\ recorded.sections[Done + 1] = <<place, s, world.isSome>>
<1> DEFINE a == <<place, s>>
           secs == recorded.sections
           k == Done + 1
           n == Len(tape)
<1>1. /\ secs \in Seq(Section) /\ Matches(secs, n) /\ Len(secs) = Closed(tape, n)
      /\ Done <= Len(secs)
      /\ \A j \in 1 .. Done : world.sections[j] = secs[j]
  BY DEF RecordedInv
<1>2. n \in Nat /\ Done \in Nat /\ Len(secs) \in Nat
  BY <1>1, LenProperties DEF WorldInv, WorldTypes, Done
<1>3. a \in world.owes /\ a[1] = place /\ a[2] = s /\ Closing(a)
  BY DEF Operate, Closing
<1>4. PICK i \in 1 .. Cursor : tape[i] = a /\ Closed(tape, i) = k
  BY <1>3 DEF WorldInv, SectionInv
<1>5. i \in 1 .. n /\ i \in Nat /\ i \in 0 .. n
  BY <1>2, <1>4
<1> HIDE DEF a, n, secs, k
<1>6. k <= Len(secs) /\ k \in 1 .. Len(secs)
  <2>1. k <= Len(secs)
    BY <1>1, <1>2, <1>4, <1>5, ClosedGrows
  <2>2. QED
    BY <1>2, <2>1 DEF k
<1>7. PICK j \in 1 .. n : /\ Closing(tape[j]) /\ Closed(tape, j) = k
                          /\ tape[j] = <<secs[k][1], secs[k][2]>>
  BY <1>1, <1>6 DEF Matches, SectionOf
<1>8. i = j
  <2>1. i \in Nat \ {0} /\ j \in Nat \ {0} /\ Closing(tape[i])
    BY <1>2, <1>3, <1>4, <1>5
  <2>2. ASSUME i < j PROVE FALSE
    <3>1. i \in 0 .. j - 1
      BY <2>1, <2>2
    <3>2. Closed(tape, i) < Closed(tape, j)
      BY <1>7, <2>1, <3>1, ClosedOnce
    <3>3. Closed(tape, i) \in Nat
      BY <1>5, ClosedType
    <3>4. QED
      BY <1>4, <1>7, <3>2, <3>3
  <2>3. ASSUME j < i PROVE FALSE
    <3>1. j \in 0 .. i - 1
      BY <2>1, <2>3
    <3>2. Closed(tape, j) < Closed(tape, i)
      BY <2>1, <3>1, ClosedOnce
    <3>3. Closed(tape, i) \in Nat
      BY <1>5, ClosedType
    <3>4. QED
      BY <1>4, <1>7, <3>2, <3>3
  <2>4. QED
    BY <2>1, <2>2, <2>3
<1>9. secs[k][1] = place /\ secs[k][2] = s
  BY <1>3, <1>4, <1>7, <1>8
<1>10. secs[k][3] = world.isSome
  <2>1. world.holder = <<place, LockOf(s)>>
    BY <1>3 DEF WorldInv, HeldInv
  <2>2. world.isSome = Leaves(LockOf(s), Before(world.sections, Done + 1))
    BY <2>1 DEF WorldInv, DataInv, Nobody
  <2>3. Before(world.sections, k) = Before(secs, k)
    BY <1>1, <1>2 DEF Before, k
  <2>4. secs[k][3] = Leaves(LockOf(s), Before(secs, k))
    BY <1>1, <1>6, <1>9 DEF Matches
  <2>5. QED
    BY <2>2, <2>3, <2>4 DEF k
<1>11. secs[k] = <<secs[k][1], secs[k][2], secs[k][3]>>
  <2>1. secs[k] \in Section
    BY <1>1, <1>6, ElementOfSeq
  <2>2. QED
    BY <2>1 DEF Section
<1>12. QED
  BY <1>6, <1>9, <1>10, <1>11 DEF secs, k

LEMMA OperationKeepsRecorded ==
  ASSUME phase = "replay", WorldInv, RecordedInv, tape \in Seq(Act),
         Cursor \in 0 .. Len(tape), UNCHANGED <<phase, body, tape, recorded>>,
         NEW place \in DOMAIN body, NEW s \in Operations, Operate(place, s)
  PROVE  RecordedInv'
<1>1. /\ recorded.sections \in Seq(Section)
      /\ Matches(recorded.sections, Len(tape))
      /\ Len(recorded.sections) = Closed(tape, Len(tape))
      /\ Done <= Len(recorded.sections)
      /\ \A k \in 1 .. Done : world.sections[k] = recorded.sections[k]
  BY DEF RecordedInv
<1>2. /\ recorded'.sections \in Seq(Section')
      /\ Matches(recorded.sections, Len(tape))'
      /\ Len(recorded'.sections) = Closed(tape, Len(tape))'
  BY <1>1 DEF Matches, SectionOf, Before, Section, Closing
<1>3. CASE s \in Locking
  <2>1. world'.sections = world.sections /\ Done' = Done
    BY <1>3 DEF Operate, Done
  <2>2. QED
    BY <1>1, <1>2, <2>1 DEF RecordedInv
<1>4. CASE s \notin Locking
  <2> DEFINE section == <<place, s, world.isSome>>
  <2>1. world'.sections = Append(world.sections, section)
    BY <1>4 DEF Operate
  <2>2. world.sections \in Seq(Section) /\ section \in Section /\ Done \in Nat
    BY LenProperties DEF WorldInv, WorldTypes, Section, Done
  <2>3. Done + 1 <= Len(recorded.sections)
        /\ recorded.sections[Done + 1] = section
    BY <1>4, LockOrUnlock, NextSectionIsRecorded
  <2> HIDE DEF section
  <2>4. /\ Done' = Done + 1 /\ world'.sections[Done + 1] = section
        /\ \A k \in 1 .. Done : world'.sections[k] = world.sections[k]
    BY <2>1, <2>2, AppendProperties DEF Done
  <2>5. \A k \in 1 .. Done + 1 : world'.sections[k] = recorded.sections[k]
    BY <1>1, <2>2, <2>3, <2>4
  <2>6. QED
    BY <1>2, <2>3, <2>4, <2>5 DEF RecordedInv
<1>5. QED
  BY <1>3, <1>4

LEMMA ReplayKeepsJoint ==
  ASSUME LocksAreProbed, JointInv, ReplayerInv', NEW t \in Thread,
         NEW s \in Operations, ReplayOperation(t, s)
  PROVE  JointInv'
<1>1. PhaseInv /\ ReplayerInv /\ ProgramInv /\ BracketInv /\ WorldInv
      /\ RecordedInv
  BY DEF JointInv
<1>2. /\ phase = "replay" /\ Operate(lineage[t], s)
      /\ UNCHANGED <<phase, tape, recorded, body, log, scenario>>
  BY DEF ReplayOperation, director
<1>3. lineage[t] \in DOMAIN body
  BY <1>1, <1>2 DEF Operate, WorldInv, WorldTypes
<1>4. tape \in Seq(Act) /\ Cursor = Len(log) /\ Cursor' = Cursor
      /\ Cursor \in 0 .. Len(tape)
  <2>1. scenario = tape /\ Cursor = Len(log) /\ Cursor' = Len(log)
    BY <1>1, <1>2 DEF PhaseInv, Cursor
  <2>2. /\ tape \in Seq(Act) /\ log \in Seq(Act) /\ Len(log) <= Len(tape)
        /\ Len(log) \in Nat /\ Len(tape) \in Nat
    BY <1>1, <2>1, LenProperties DEF ReplayerInv, ReplayInv, QueueInv
  <2>3. QED
    BY <2>1, <2>2
<1>5. PhaseInv' /\ ProgramInv' /\ BracketInv' /\ CrashInv'
  BY <1>1, <1>2, TapeStays DEF PhaseInv, CrashInv
<1>6. Cursor \in Nat
  BY <1>4
<1>7. WorldInv'
  BY <1>1, <1>2, <1>3, <1>4, <1>6, OperateKeepsWorld
<1>8. RecordedInv'
  BY <1>1, <1>2, <1>3, <1>4, OperationKeepsRecorded
<1>9. QED
  BY <1>5, <1>7, <1>8 DEF JointInv

LEMMA NothingKeepsJoint ==
  ASSUME JointInv, ReplayerInv', UNCHANGED rrVars PROVE JointInv'
<1>1. UNCHANGED <<body, log, pc, scenario, phase, tape, world, recorded>>
  BY DEF rrVars, vars, director, target
<1>2. Cursor' = Cursor
  BY <1>1 DEF Cursor
<1>3. WorldInv'
  BY <1>1, <1>2, WorldStays DEF JointInv
<1>4. ProgramInv' /\ BracketInv'
  BY <1>1, TapeStays DEF JointInv
<1>5. PhaseInv' /\ CrashInv'
  BY <1>1 DEF JointInv, PhaseInv, CrashInv, Idle
<1>6. RecordedInv'
  BY <1>1
  DEF JointInv, RecordedInv, Matches, SectionOf, Before, Done, Section, Closing
<1>7. QED
  BY <1>3, <1>4, <1>5, <1>6 DEF JointInv

LEMMA JointStep ==
  ASSUME LocksAreProbed, JointInv, [RRNext]_rrVars
  PROVE  JointInv'
<1>1. world.owes \subseteq (DOMAIN body) \X Operations
  BY DEF JointInv, WorldInv, WorldTypes
<1>2. ReplayerInv'
  BY <1>1, StepKeepsReplayer DEF JointInv
<1>3. ASSUME AllOver \/ UNCHANGED rrVars PROVE JointInv'
  BY <1>2, <1>3, NothingKeepsJoint DEF AllOver
<1>4. QED
  BY <1>2, <1>3, RecordKeepsJoint, OperationKeepsJoint, HandOverKeepsJoint,
     ProbeKeepsJoint, ReplayKeepsJoint DEF RRNext

LEMMA JointInvariant ==
  ASSUME LocksAreProbed PROVE RRSpec => []JointInv
<1>1. RRInit => JointInv
  BY JointInit
<1>2. JointInv /\ [RRNext]_rrVars => JointInv'
  BY JointStep
<1>3. QED
  BY <1>1, <1>2, PTL DEF RRSpec

\* Whatever the program, as long as a probe stands in front of each of its locks
\* and unlocks: the critical sections a replay completes are the first of the
\* recorded run, in its order, by the same threads and with the same data left
\* behind (probe_ERR.rs:168-181).
THEOREM ReplayKeepsSections ==
  ASSUME LocksAreProbed PROVE RRSpec => []SectionsAlike
<1>1. JointInv => SectionsAlike
  <2> SUFFICES ASSUME JointInv, phase = "replay"
               PROVE  Begins(world.sections, recorded.sections)
    BY DEF SectionsAlike
  <2> DEFINE secs == recorded.sections
             n == Done
  <2>1. /\ secs \in Seq(Section) /\ world.sections \in Seq(Section)
        /\ n <= Len(secs) /\ n \in Nat /\ Len(secs) \in Nat
        /\ n = Len(world.sections)
        /\ \A k \in 1 .. n : world.sections[k] = secs[k]
    BY LenProperties DEF JointInv, RecordedInv, WorldInv, WorldTypes, Done
  <2> HIDE DEF secs, n
  <2>2. \A k \in 1 .. n : secs[k] \in Section
    BY <2>1, ElementOfSeq
  <2>3. /\ SubSeq(secs, 1, n) \in Seq(Section)
        /\ Len(SubSeq(secs, 1, n)) = IF 1 <= n THEN n - 1 + 1 ELSE 0
        /\ \A k \in 1 .. n - 1 + 1 : SubSeq(secs, 1, n)[k] = secs[1 + k - 1]
    BY <2>1, <2>2, SubSeqProperties
  <2>4. Len(SubSeq(secs, 1, n)) = n
        /\ \A k \in 1 .. n : SubSeq(secs, 1, n)[k] = secs[k]
    BY <2>1, <2>3
  <2>5. world.sections = SubSeq(secs, 1, n)
    BY <2>1, <2>3, <2>4, SeqEqual
  <2>6. QED
    BY <2>1, <2>5 DEF Begins, secs
<1>2. QED
  BY <1>1, JointInvariant, PTL
-----------------------------------------------------------------------------
(* The targets of .toy_bugs.                                                *)

Kids == {Child(1), Child(2)}

\* The programs of .toy_bugs over a type whose guard's drop the pass knows: a
\* probe at each of their locks and unlocks.  (Of .toy_bugs themselves this is
\* false: their unlocks have none.)
ToysWithUnlocksProbed == Bodies \subseteq Toys /\ Operations \subseteq Func

\* The place of a site in the program of its thread.
Rank(s) ==
  CASE s \in {"check", "put", "get"} -> 2
    [] s \in {"checked", "done1", "done2"} -> 3
    [] s = "take" -> 4
    [] s = "taken" -> 5
    [] OTHER -> 1

LEMMA GuardsAreSeen == ToysWithUnlocksProbed => GuardSeen
BY DEF ToysWithUnlocksProbed, Operations, GuardSeen

LEMMA ToyPlaces ==
  /\ MainTid \notin Kids /\ Child(1) # Child(2) /\ None \notin Places
  /\ Nobody \notin Places /\ Places \subseteq Seq(Nat)
  /\ Places = {MainTid} \cup Kids
  /\ \A place \in Kids : place \notin Roots
  /\ GuardSeen => RaceBtwFunc # ReadNone
  /\ DOMAIN RaceBtwFunc = Places /\ DOMAIN ReadNone = Places
<1>1. /\ Len(MainTid) = 1 /\ Len(Child(1)) = 2 /\ Len(Child(2)) = 2
      /\ Len(None) = 1 /\ Len(Nobody) = 0
      /\ MainTid[1] = 1 /\ None[1] = 0 /\ Child(1)[2] = 1 /\ Child(2)[2] = 2
  BY DEF MainTid, None, Child, Nobody
<1>2. Places = {MainTid} \cup Kids
  BY DEF Places, Kids
<1>3. Places \subseteq Seq(Nat)
  BY DEF Places, MainTid, Child
<1>4. MainTid # Child(1) /\ MainTid # Child(2) /\ Child(1) # Child(2)
      /\ MainTid # None /\ None # Child(1) /\ None # Child(2)
      /\ Nobody # MainTid /\ Nobody # Child(1) /\ Nobody # Child(2)
  BY <1>1
<1>5. ASSUME GuardSeen PROVE RaceBtwFunc # ReadNone
  <2>1. RaceBtwFunc[Child(1)] = Thrd /\ ReadNone[Child(1)] = <<"put", "done1">>
    BY <1>4, <1>5 DEF RaceBtwFunc, ReadNone, Thrd1, Places
  <2>2. Len(Thrd) = 4 /\ Len(<<"put", "done1">>) = 2
    BY <1>5 DEF Thrd
  <2>3. QED
    BY <2>1, <2>2
<1>6. QED
  BY <1>2, <1>3, <1>4, <1>5 DEF Kids, Roots, Places, RaceBtwFunc, ReadNone

LEMMA ConsTwo ==
  ASSUME NEW x, NEW y, NEW z PROVE <<x>> \o <<y, z>> = <<x, y, z>>
<1> DEFINE S == {x, y, z}
           s == <<x>> \o <<y, z>>
<1>1. <<x>> \in Seq(S) /\ <<y, z>> \in Seq(S) /\ <<x, y, z>> \in Seq(S)
      /\ Len(<<x>>) = 1 /\ Len(<<y, z>>) = 2 /\ Len(<<x, y, z>>) = 3
  OBVIOUS
<1>2. s \in Seq(S) /\ Len(s) = 3
      /\ \A i \in 1 .. 3 : s[i] = IF i <= 1 THEN <<x>>[i] ELSE <<y, z>>[i - 1]
  BY <1>1, ConcatProperties
<1>3. s[1] = x /\ s[2] = y /\ s[3] = z
  BY <1>2
<1> HIDE DEF s, S
<1>4. \A i \in 1 .. 3 : s[i] = <<x, y, z>>[i]
  BY <1>3
<1>5. QED
  BY <1>1, <1>2, <1>4, SeqEqual DEF s

LEMMA ConsFour ==
  ASSUME NEW v, NEW w, NEW x, NEW y, NEW z
  PROVE  <<v>> \o <<w, x, y, z>> = <<v, w, x, y, z>>
<1> DEFINE S == {v, w, x, y, z}
           s == <<v>> \o <<w, x, y, z>>
<1>1. /\ <<v>> \in Seq(S) /\ <<w, x, y, z>> \in Seq(S)
      /\ <<v, w, x, y, z>> \in Seq(S)
      /\ Len(<<v>>) = 1 /\ Len(<<w, x, y, z>>) = 4
      /\ Len(<<v, w, x, y, z>>) = 5
  OBVIOUS
<1>2. s \in Seq(S) /\ Len(s) = 5
      /\ \A i \in 1 .. 5 :
           s[i] = IF i <= 1 THEN <<v>>[i] ELSE <<w, x, y, z>>[i - 1]
  BY <1>1, ConcatProperties
<1>3. s[1] = v /\ s[2] = w /\ s[3] = x /\ s[4] = y /\ s[5] = z
  BY <1>2
<1> HIDE DEF s, S
<1>4. \A i \in 1 .. 5 : s[i] = <<v, w, x, y, z>>[i]
  BY <1>3
<1>5. QED
  BY <1>1, <1>2, <1>4, SeqEqual DEF s

\* What the threads of the toys are recorded with.
LEMMA ToyActs ==
  ASSUME GuardSeen, NEW b \in Toys
  PROVE  /\ DOMAIN b = Places
         /\ ActsOf(b, MainTid) = <<SpawningSite, SpawningSite>>
         /\ b = RaceBtwFunc => \A place \in Kids :
              ActsOf(b, place)
                = <<SpawnedSite, "check", "checked", "take", "taken">>
         /\ b # RaceBtwFunc =>
              /\ ActsOf(b, Child(1)) = <<SpawnedSite, "put", "done1">>
              /\ ActsOf(b, Child(2)) = <<SpawnedSite, "get", "done2">>
<1>1. DOMAIN b = Places /\ (b = RaceBtwFunc \/ b = ReadNone)
  BY ToyPlaces DEF Toys
<1>2. b[MainTid] = SpawnsTwo /\ MainTid \in Roots
  BY <1>1, ToyPlaces DEF RaceBtwFunc, ReadNone, Roots, Kids
<1>3. ActsOf(b, MainTid) = <<SpawningSite, SpawningSite>>
  BY <1>2 DEF ActsOf, SpawnsTwo
<1>4. ASSUME b = RaceBtwFunc, NEW place \in Kids
      PROVE  ActsOf(b, place)
               = <<SpawnedSite, "check", "checked", "take", "taken">>
  <2>1. b[place] = Thrd /\ place \notin Roots
    BY <1>4, ToyPlaces DEF RaceBtwFunc
  <2>2. <<SpawnedSite>> \o Thrd
          = <<SpawnedSite, "check", "checked", "take", "taken">>
    BY ConsFour DEF Thrd
  <2>3. QED
    BY <2>1, <2>2 DEF ActsOf
<1>5. ASSUME b # RaceBtwFunc
      PROVE  /\ ActsOf(b, Child(1)) = <<SpawnedSite, "put", "done1">>
             /\ ActsOf(b, Child(2)) = <<SpawnedSite, "get", "done2">>
  <2>1. b = ReadNone /\ Child(1) \in Kids /\ Child(2) \in Kids
    BY <1>1, <1>5 DEF Kids
  <2>2. b[Child(1)] = <<"put", "done1">> /\ b[Child(2)] = <<"get", "done2">>
    BY <2>1, ToyPlaces DEF ReadNone, Thrd1, Thrd2
  <2>3. <<SpawnedSite>> \o <<"put", "done1">> = <<SpawnedSite, "put", "done1">>
    BY ConsTwo
  <2>4. <<SpawnedSite>> \o <<"get", "done2">> = <<SpawnedSite, "get", "done2">>
    BY ConsTwo
  <2>5. Child(1) \notin Roots /\ Child(2) \notin Roots
    BY <2>1, ToyPlaces
  <2>6. QED
    BY <2>2, <2>3, <2>4, <2>5 DEF ActsOf
<1>6. QED
  BY <1>1, <1>3, <1>4, <1>5

\* The toys give back what they took.
LEMMA ToysAreProbed == ToysWithUnlocksProbed => LocksAreProbed
<1> SUFFICES ASSUME ToysWithUnlocksProbed PROVE LocksAreProbed
  OBVIOUS
<1>1. Operations \subseteq Func
  BY DEF ToysWithUnlocksProbed
<1>2. SpawningSite \notin Func /\ SpawnedSite \notin Func
  BY ReplayerAssumption
<1>3. ASSUME NEW b \in Bodies PROVE Disciplined(b)
  <2>1. b \in Toys
    BY DEF ToysWithUnlocksProbed
  <2>2. DOMAIN b \subseteq Seq(Nat) \ {Nobody, None}
    BY <2>1, ToyActs, GuardsAreSeen, ToyPlaces
  <2>3. ASSUME NEW place \in Places, NEW n \in DOMAIN ActsOf(b, place),
               ActsOf(b, place)[n] \in Unlocking
        PROVE  n > 1 /\ ActsOf(b, place)[n - 1] = LockOf(ActsOf(b, place)[n])
    <3>1. CASE place = MainTid
      BY <1>1, <1>2, <2>1, <2>3, <3>1, LockOrUnlock, ToyActs, GuardsAreSeen
    <3>2. CASE place \in Kids /\ b = RaceBtwFunc
      <4>1. ActsOf(b, place)
              = <<SpawnedSite, "check", "checked", "take", "taken">>
        BY <2>1, <3>2, ToyActs, GuardsAreSeen
      <4>2. n \in {1, 2, 3, 4, 5}
        BY <2>3, <4>1
      <4>3. QED
        BY <1>1, <1>2, <2>3, <4>1, <4>2, LockOrUnlock DEF LockOf, Unlocking
    <3>3. CASE place \in Kids /\ b # RaceBtwFunc
      <4>1. \/ ActsOf(b, place) = <<SpawnedSite, "put", "done1">>
            \/ ActsOf(b, place) = <<SpawnedSite, "get", "done2">>
        BY <2>1, <3>3, ToyActs, GuardsAreSeen DEF Kids
      <4>2. n \in {1, 2, 3}
        BY <2>3, <4>1
      <4>3. QED
        BY <1>1, <1>2, <2>3, <4>1, <4>2, LockOrUnlock DEF LockOf, Unlocking
    <3>4. QED
      BY <3>1, <3>2, <3>3, ToyPlaces
  <2>4. QED
    BY <2>1, <2>2, <2>3, ToyActs, GuardsAreSeen DEF Disciplined
<1>4. QED
  BY <1>1, <1>3 DEF LocksAreProbed

\* A thread's n-th site has rank n.
LEMMA RankOfAct ==
  ASSUME ToysWithUnlocksProbed, body \in Bodies, NEW place \in Kids,
         NEW m \in 1 .. Len(ActsOf(body, place))
  PROVE  Rank(ActsOf(body, place)[m]) = m
<1>1. body \in Toys /\ Rank(SpawnedSite) = 1
  BY ReplayerAssumption
  DEF ToysWithUnlocksProbed, Operations, Locking, Unlocking, Rank
<1>2. CASE body = RaceBtwFunc
  <2>1. ActsOf(body, place)
          = <<SpawnedSite, "check", "checked", "take", "taken">>
    BY <1>1, <1>2, ToyActs, GuardsAreSeen
  <2>2. m \in {1, 2, 3, 4, 5}
    BY <2>1
  <2>3. QED
    BY <1>1, <2>1, <2>2 DEF Rank
<1>3. CASE body # RaceBtwFunc
  <2>1. \/ ActsOf(body, place) = <<SpawnedSite, "put", "done1">>
        \/ ActsOf(body, place) = <<SpawnedSite, "get", "done2">>
    BY <1>1, <1>3, ToyActs, GuardsAreSeen DEF Kids
  <2>2. m \in {1, 2, 3}
    <3>1. Len(ActsOf(body, place)) = 3
      BY <2>1
    <3>2. QED
      BY <3>1
  <2>3. QED
    BY <1>1, <2>1, <2>2 DEF Rank
<1>4. QED
  BY <1>2, <1>3
\* A thread's later act is of a later site.
TapeOrder ==
  \A i, j \in 1 .. Len(tape) :
    i < j /\ tape[i][1] = tape[j][1] /\ tape[i][1] \in Kids
      => Rank(tape[i][2]) < Rank(tape[j][2])

LEMMA RecordKeepsOrder ==
  ASSUME ToysWithUnlocksProbed, PhaseInv, ProgramInv, TapeOrder,
         NEW place \in DOMAIN body, Record(place)
  PROVE  TapeOrder'
<1> DEFINE acts == ActsOf(body, place)
           n == Progress(tape, place)
           k == Len(tape)
           a == <<place, acts[n + 1]>>
<1>1. /\ n \in Nat /\ n + 1 \in 1 .. Len(acts)
      /\ a \in (DOMAIN body) \X Site /\ tape' = Append(tape, a)
  BY RecordAppends
<1>2. tape \in Seq((DOMAIN body) \X Site) /\ k \in Nat
  BY LenProperties DEF PhaseInv
<1> HIDE DEF a
<1>3. /\ Len(tape') = k + 1 /\ tape'[k + 1] = a
      /\ \A i \in 1 .. k : tape'[i] = tape[i]
  BY <1>1, <1>2, AppendProperties
<1>4. ASSUME NEW i \in 1 .. k, tape[i][1] = place, place \in Kids
      PROVE  Rank(tape[i][2]) < Rank(acts[n + 1])
  <2>1. PICK m \in 1 .. n : tape[i][2] = acts[m]
    BY <1>4 DEF ProgramInv, FollowsProgram
  <2>2. m \in 1 .. Len(acts) /\ body \in Bodies
    <3>1. Len(acts) \in Nat
      BY ActsOfType, LenProperties DEF PhaseInv
    <3>2. QED
      BY <1>1, <3>1 DEF PhaseInv
  <2>3. Rank(acts[m]) = m /\ Rank(acts[n + 1]) = n + 1
    BY <1>1, <1>4, <2>2, RankOfAct
  <2>4. QED
    BY <1>1, <2>1, <2>3
<1>5. a[1] = place /\ a[2] = acts[n + 1]
  BY DEF a
<1>6. SUFFICES ASSUME NEW i \in 1 .. k + 1, NEW j \in 1 .. k + 1, i < j,
                      tape'[i][1] = tape'[j][1], tape'[i][1] \in Kids
               PROVE  Rank(tape'[i][2]) < Rank(tape'[j][2])
  BY <1>3 DEF TapeOrder
<1>7. i \in 1 .. k /\ (j \in 1 .. k \/ j = k + 1)
  BY <1>2, <1>6
<1>8. QED
  BY <1>3, <1>4, <1>5, <1>6, <1>7 DEF TapeOrder

\* Where the locks and unlocks of the toys are.
LEMMA TapeActs ==
  ASSUME ToysWithUnlocksProbed, PhaseInv, ProgramInv,
         NEW i \in 1 .. Len(tape), tape[i][2] \in Operations
  PROVE  /\ tape[i][1] \in Kids
         /\ body = RaceBtwFunc =>
              tape[i][2] \in {"check", "checked", "take", "taken"}
         /\ body # RaceBtwFunc =>
              \/ tape[i][1] = Child(1) /\ tape[i][2] \in {"put", "done1"}
              \/ tape[i][1] = Child(2) /\ tape[i][2] \in {"get", "done2"}
<1>1. body \in Toys /\ DOMAIN body = Places
  BY ToyActs, GuardsAreSeen DEF ToysWithUnlocksProbed, PhaseInv
<1>2. tape[i] \in (DOMAIN body) \X Site
  BY ElementOfSeq DEF PhaseInv
<1> DEFINE place == tape[i][1]
           acts == ActsOf(body, place)
<1>3. place \in Places
  BY <1>1, <1>2
<1>4. PICK m \in 1 .. Progress(tape, place) : tape[i][2] = acts[m]
  BY <1>1, <1>3 DEF ProgramInv, FollowsProgram
<1>5. m \in 1 .. Len(acts)
  <2>1. Progress(tape, place) \in 0 .. Len(acts)
    BY <1>1, <1>3 DEF ProgramInv, FollowsProgram
  <2>2. QED
    BY <2>1
<1>6. SpawningSite \notin Operations /\ SpawnedSite \notin Operations
  BY ReplayerAssumption DEF ToysWithUnlocksProbed
<1>7. place \in Kids
  <2>1. ASSUME place = MainTid PROVE FALSE
    <3>1. acts = <<SpawningSite, SpawningSite>>
      BY <1>1, <2>1, ToyActs, GuardsAreSeen
    <3>2. m \in {1, 2}
      <4>1. Len(acts) = 2
        BY <3>1
      <4>2. QED
        BY <1>5, <4>1
    <3>3. acts[m] = SpawningSite
      BY <3>1, <3>2
    <3>4. QED
      BY <1>4, <1>6, <3>3
  <2>2. QED
    BY <1>3, <2>1, ToyPlaces
<1>8. ASSUME body = RaceBtwFunc
      PROVE  tape[i][2] \in {"check", "checked", "take", "taken"}
  <2>1. acts = <<SpawnedSite, "check", "checked", "take", "taken">>
    BY <1>1, <1>7, <1>8, ToyActs, GuardsAreSeen
  <2>2. m \in {1, 2, 3, 4, 5}
    <3>1. Len(acts) = 5
      BY <2>1
    <3>2. QED
      BY <1>5, <3>1
  <2>3. acts[m] \in {SpawnedSite, "check", "checked", "take", "taken"}
    BY <2>1, <2>2
  <2>4. QED
    BY <1>4, <1>6, <2>3
<1>9. ASSUME NEW s1, NEW s2, acts = <<SpawnedSite, s1, s2>>
      PROVE  tape[i][2] \in {s1, s2}
  <2>1. m \in {1, 2, 3}
    <3>1. Len(acts) = 3
      BY <1>9
    <3>2. QED
      BY <1>5, <3>1
  <2>2. acts[m] \in {SpawnedSite, s1, s2}
    BY <1>9, <2>1
  <2>3. QED
    BY <1>4, <1>6, <2>2
<1>10. ASSUME body # RaceBtwFunc
       PROVE  \/ place = Child(1) /\ tape[i][2] \in {"put", "done1"}
              \/ place = Child(2) /\ tape[i][2] \in {"get", "done2"}
  <2>1. CASE place = Child(1)
    <3>1. acts = <<SpawnedSite, "put", "done1">>
      BY <1>1, <1>10, <2>1, ToyActs, GuardsAreSeen
    <3>2. QED
      BY <1>9, <2>1, <3>1
  <2>2. CASE place = Child(2)
    <3>1. acts = <<SpawnedSite, "get", "done2">>
      BY <1>1, <1>10, <2>2, ToyActs, GuardsAreSeen
    <3>2. QED
      BY <1>9, <2>2, <3>1
  <2>3. QED
    BY <1>7, <2>1, <2>2 DEF Kids
<1>11. QED
  BY <1>7, <1>8, <1>10

\* No act of a thread is of a later site than its last.
LEMMA LastRank ==
  ASSUME TapeOrder, Len(tape) \in Nat, NEW n \in 0 .. Len(tape),
         NEW place \in Kids, NEW s, LastIs(tape, n, place, s),
         NEW i \in 1 .. n, tape[i][1] = place
  PROVE  Rank(tape[i][2]) <= Rank(s)
<1>1. PICK j \in 1 .. n : /\ tape[j] = <<place, s>>
                          /\ \A k \in j + 1 .. n : tape[k][1] # place
  BY DEF LastIs
<1>2. i <= j /\ tape[j][1] = place /\ tape[j][2] = s
  BY <1>1
<1>3. i \in 1 .. Len(tape) /\ j \in 1 .. Len(tape)
  BY <1>1
<1>4. Rank(s) \in Nat
  BY DEF Rank
<1>5. CASE i = j
  BY <1>2, <1>4, <1>5
<1>6. CASE i < j
  <2>1. Rank(tape[i][2]) < Rank(tape[j][2])
    BY <1>2, <1>3, <1>6 DEF TapeOrder
  <2>2. Rank(tape[i][2]) \in Nat
    BY DEF Rank
  <2>3. QED
    BY <1>2, <1>4, <2>1, <2>2
<1>7. QED
  BY <1>2, <1>5, <1>6

\* Whose critical sections the toys complete, and in which order a thread does.
LEMMA SectionActs ==
  ASSUME ToysWithUnlocksProbed, PhaseInv, ProgramInv,
         NEW secs, NEW n \in 0 .. Len(tape), Matches(secs, n),
         NEW k \in 1 .. Len(secs)
  PROVE  /\ secs[k][1] \in Kids
         /\ \E i \in 1 .. n : /\ tape[i][1] = secs[k][1]
                              /\ tape[i][2] = secs[k][2]
         /\ body = RaceBtwFunc => secs[k][2] \in {"checked", "taken"}
         /\ body # RaceBtwFunc =>
              \/ secs[k][2] = "done1"
              \/ secs[k][1] = Child(2) /\ secs[k][2] = "done2"
<1>1. PICK i \in 1 .. n : /\ Closing(tape[i]) /\ Closed(tape, i) = k
                          /\ tape[i] = <<secs[k][1], secs[k][2]>>
  BY DEF Matches, SectionOf
<1>2. /\ tape[i][1] = secs[k][1] /\ tape[i][2] = secs[k][2]
      /\ secs[k][2] \in Unlocking /\ secs[k][2] \in Operations
  BY <1>1, LockOrUnlock DEF Closing
<1>3. i \in 1 .. Len(tape)
  <2>1. Len(tape) \in Nat
    BY LenProperties DEF PhaseInv
  <2>2. QED
    BY <2>1
<1>4. /\ secs[k][1] \in Kids
      /\ body = RaceBtwFunc =>
           secs[k][2] \in {"check", "checked", "take", "taken"}
      /\ body # RaceBtwFunc =>
           \/ secs[k][1] = Child(1) /\ secs[k][2] \in {"put", "done1"}
           \/ secs[k][1] = Child(2) /\ secs[k][2] \in {"get", "done2"}
  BY <1>2, <1>3, TapeActs
<1>5. QED
  BY <1>2, <1>4 DEF Unlocking

LEMMA SectionsInOrder ==
  ASSUME TapeOrder, Len(tape) \in Nat,
         NEW secs, NEW n \in 0 .. Len(tape), Matches(secs, n),
         Len(secs) \in Nat, NEW j \in 1 .. Len(secs), NEW k \in 1 .. Len(secs),
         j < k, secs[j][1] = secs[k][1], secs[k][1] \in Kids
  PROVE  Rank(secs[j][2]) < Rank(secs[k][2])
<1>1. PICK i \in 1 .. n : /\ Closed(tape, i) = j
                          /\ tape[i] = <<secs[j][1], secs[j][2]>>
  BY DEF Matches, SectionOf
<1>2. PICK m \in 1 .. n : /\ Closed(tape, m) = k
                          /\ tape[m] = <<secs[k][1], secs[k][2]>>
  BY DEF Matches, SectionOf
<1>3. i < m
  <2> SUFFICES ASSUME m <= i PROVE FALSE
    OBVIOUS
  <2>1. m \in 0 .. i /\ i \in Nat
    OBVIOUS
  <2>2. k <= j
    BY <1>1, <1>2, <2>1, ClosedGrows
  <2>3. QED
    BY <2>2
<1>4. i \in 1 .. Len(tape) /\ m \in 1 .. Len(tape)
  OBVIOUS
<1>5. /\ tape[i][1] = secs[k][1] /\ tape[m][1] = secs[k][1]
      /\ tape[i][2] = secs[j][2] /\ tape[m][2] = secs[k][2]
  BY <1>1, <1>2
<1>6. QED
  BY <1>3, <1>4, <1>5 DEF TapeOrder

\* race_btw_func: the data are gone from the first "take" on, and a thread that
\* found them gone drops its guard and takes no other.
RaceInv ==
  phase = "record" /\ body = RaceBtwFunc =>
    /\ \A k \in 1 .. Done :
         LET section == world.sections[k] IN
         /\ section[3] <=> \A j \in 1 .. k : world.sections[j][2] # "taken"
         /\ section[2] = "checked" /\ ~section[3] => section[1] \in world.quits
    /\ \A place \in Kids :
         world.holder = <<place, "check">> /\ ~world.isSome
           => place \in world.quits
    /\ \A i \in 1 .. Len(tape) :
         tape[i][1] \in world.quits => tape[i][2] \notin {"take", "taken"}

\* How a toy fails: in race_btw_func the one child has just dropped the guard of
\* its take when the other unwraps; in read_none the getter is the first to lock.
Failed(w) ==
  w.crashed # Nobody =>
    IF body = RaceBtwFunc
    THEN /\ w.crashed \in Kids
         /\ \A k \in 1 .. Len(w.sections) :
              ~w.sections[k][3] =>
                /\ k = Len(w.sections) /\ w.sections[k][2] = "taken"
                /\ w.sections[k][1] \in Kids \ {w.crashed}
    ELSE w.crashed = Child(2) /\ w.sections = <<>>
FailInv ==
  IF phase = "record" THEN Failed(world)
  ELSE recorded.crashed # Nobody /\ Failed(recorded)

ToyInv == TapeOrder /\ RaceInv /\ FailInv /\ PanicsAlike

LEMMA ToyInit == ToysWithUnlocksProbed /\ RRInit => ToyInv
<1> SUFFICES ASSUME ToysWithUnlocksProbed, RRInit PROVE ToyInv
  OBVIOUS
<1>1. phase = "record" /\ tape = <<>> /\ world = NewWorld(body)
  BY DEF RRInit
<1>2. Len(tape) = 0 /\ Done = 0 /\ world.quits = {} /\ world.holder = Nobody
      /\ world.crashed = Nobody
  BY <1>1 DEF NewWorld, Done
<1>3. TapeOrder
  BY <1>2 DEF TapeOrder
<1>4. RaceInv
  BY <1>2 DEF RaceInv, Nobody
<1>5. FailInv /\ PanicsAlike
  BY <1>1, <1>2 DEF FailInv, Failed, PanicsAlike
<1>6. QED
  BY <1>3, <1>4, <1>5 DEF ToyInv

LEMMA RecordKeepsToys ==
  ASSUME ToysWithUnlocksProbed, JointInv, ToyInv,
         NEW place \in DOMAIN body, Record(place)
  PROVE  ToyInv'
<1> DEFINE k == Len(tape)
           a == <<place, ActsOf(body, place)[Progress(tape, place) + 1]>>
<1>1. PhaseInv /\ ProgramInv /\ WorldInv /\ TapeOrder /\ RaceInv /\ FailInv
  BY DEF JointInv, ToyInv
<1>2. /\ phase = "record" /\ UNCHANGED <<phase, body>>
      /\ place \in world.quits => a[2] = "checked"
      /\ world' = IF a[2] \in Operations THEN Owes(place, a[2]) ELSE world
  BY DEF Record, NextAct, vars, target
<1>3. /\ a \in (DOMAIN body) \X Site /\ tape' = Append(tape, a)
      /\ tape \in Seq((DOMAIN body) \X Site) /\ k \in Nat
  BY <1>1, RecordAppends, LenProperties DEF PhaseInv
<1>4. a[1] = place
  OBVIOUS
<1> HIDE DEF a
<1>5. /\ Len(tape') = k + 1 /\ tape'[k + 1] = a
      /\ \A i \in 1 .. k : tape'[i] = tape[i]
  BY <1>3, AppendProperties
<1>6. /\ world'.sections = world.sections /\ world'.quits = world.quits
      /\ world'.holder = world.holder /\ world'.isSome = world.isSome
      /\ world'.crashed = world.crashed
  BY <1>1, <1>2 DEF WorldInv, WorldTypes, Owes
<1>7. TapeOrder'
  BY <1>1, RecordKeepsOrder
<1>8. RaceInv'
  <2> SUFFICES ASSUME body = RaceBtwFunc PROVE RaceInv'
    BY <1>2 DEF RaceInv
  <2>1. /\ \A i \in 1 .. k :
             tape[i][1] \in world.quits => tape[i][2] \notin {"take", "taken"}
        /\ \A p \in Kids :
             world.holder = <<p, "check">> /\ ~world.isSome => p \in world.quits
    BY <1>1, <1>2 DEF RaceInv
  <2>2. ASSUME NEW i \in 1 .. k + 1, tape'[i][1] \in world.quits
        PROVE  tape'[i][2] \notin {"take", "taken"}
    <3>1. CASE i \in 1 .. k
      BY <1>5, <2>1, <2>2, <3>1
    <3>2. CASE i = k + 1
      BY <1>2, <1>4, <1>5, <2>2, <3>2
    <3>3. QED
      BY <1>3, <3>1, <3>2
  <2>3. \A j \in 1 .. Done :
          /\ world.sections[j][3]
               <=> \A m \in 1 .. j : world.sections[m][2] # "taken"
          /\ world.sections[j][2] = "checked" /\ ~world.sections[j][3]
               => world.sections[j][1] \in world.quits
    BY <1>1, <1>2 DEF RaceInv
  <2>4. Done' = Done
    BY <1>6 DEF Done
  <2>5. QED
    BY <1>5, <1>6, <2>1, <2>2, <2>3, <2>4 DEF RaceInv
<1>9. FailInv' /\ PanicsAlike'
  BY <1>1, <1>2, <1>6 DEF FailInv, Failed, PanicsAlike
<1>10. QED
  BY <1>7, <1>8, <1>9 DEF ToyInv

\* Who panics, and before which data.
LEMMA CrashSite ==
  ASSUME ToysWithUnlocksProbed, PhaseInv, ProgramInv, WorldInv, TapeOrder,
         Cursor \in 0 .. Len(tape),
         NEW place \in DOMAIN body, NEW s \in Operations, Operate(place, s),
         s \in Unwraps, ~world.isSome
  PROVE  /\ place \in Kids /\ LastIs(tape, Cursor, place, s)
         /\ ~Before(world.sections, Done + 1)
         /\ body = RaceBtwFunc => s = "take"
         /\ body # RaceBtwFunc => place = Child(2) /\ Done = 0
<1>1. <<place, s>> \in world.owes /\ world.holder = Nobody
  BY DEF Operate, Unwraps, Locking
<1>2. LastIs(tape, Cursor, place, s)
  <2>1. <<place, s>>[1] = place /\ <<place, s>>[2] = s
    OBVIOUS
  <2>2. QED
    BY <1>1, <2>1 DEF WorldInv, OwedInv
<1>3. PICK i \in 1 .. Cursor : tape[i] = <<place, s>>
  BY <1>2 DEF LastIs
<1>4. i \in 1 .. Len(tape) /\ tape[i][1] = place /\ tape[i][2] = s
      /\ Len(tape) \in Nat
  <2>1. Len(tape) \in Nat
    BY LenProperties DEF PhaseInv
  <2>2. QED
    BY <1>3, <2>1
<1>5. /\ place \in Kids
      /\ body = RaceBtwFunc => s = "take"
      /\ body # RaceBtwFunc => place = Child(2) /\ s = "get"
  <2>1. /\ place \in Kids
        /\ body = RaceBtwFunc => s \in {"check", "checked", "take", "taken"}
        /\ body # RaceBtwFunc =>
             \/ place = Child(1) /\ s \in {"put", "done1"}
             \/ place = Child(2) /\ s \in {"get", "done2"}
    BY <1>4, TapeActs
  <2>2. QED
    BY <2>1 DEF Unwraps
<1>6. ~Before(world.sections, Done + 1)
  BY <1>1 DEF WorldInv, DataInv
<1>7. ASSUME body # RaceBtwFunc, Done # 0 PROVE FALSE
  <2> DEFINE secs == world.sections
  <2>1. Done \in 1 .. Len(secs) /\ Done + 1 # 1 /\ (Done + 1) - 1 = Done
        /\ Matches(secs, Cursor)
    BY <1>7, LenProperties DEF WorldInv, WorldTypes, SectionInv, Done
  <2>2. ~secs[Done][3]
    BY <1>6, <2>1 DEF Before
  <2>3. /\ secs[Done][2] = "done1" \/
             (secs[Done][1] = Child(2) /\ secs[Done][2] = "done2")
        /\ \E m \in 1 .. Cursor : /\ tape[m][1] = secs[Done][1]
                                  /\ tape[m][2] = secs[Done][2]
    BY <1>7, <2>1, SectionActs
  <2>4. secs[Done][2] # "done1"
    BY <2>1, <2>2 DEF Matches, LockOf, Leaves
  <2>5. PICK m \in 1 .. Cursor : tape[m][1] = place /\ tape[m][2] = "done2"
    BY <1>5, <1>7, <2>3, <2>4
  <2>6. Rank("done2") <= Rank("get")
    BY <1>2, <1>4, <1>5, <1>7, <2>5, LastRank
  <2>7. QED
    BY <2>6 DEF Rank
<1>8. QED
  BY <1>2, <1>5, <1>6, <1>7

\* The panic of a recorded run.
LEMMA RecordedFailure ==
  ASSUME ToysWithUnlocksProbed, JointInv, ToyInv,
         NEW place \in DOMAIN body, NEW s \in Operations,
         RecordedOperation(place, s)
  PROVE  Failed(world)'
<1>1. PhaseInv /\ ProgramInv /\ WorldInv /\ CrashInv /\ TapeOrder /\ RaceInv
  BY DEF JointInv, ToyInv
<1>2. phase = "record" /\ Operate(place, s) /\ UNCHANGED body
  BY DEF RecordedOperation, vars, target
<1>3. Cursor = Len(tape) /\ Len(tape) \in Nat /\ Cursor \in 0 .. Len(tape)
  BY <1>1, <1>2, LenProperties DEF Cursor, PhaseInv
<1>4. <<place, s>> \in world.owes
  BY <1>2 DEF Operate
<1>5. world.crashed = Nobody
  <2> SUFFICES ASSUME world.crashed # Nobody PROVE FALSE
    OBVIOUS
  <2>1. /\ world.holder # Nobody /\ world.holder[1] = world.crashed
        /\ Idle(world.crashed)
    BY <1>1, <1>2 DEF CrashInv
  <2>2. Closing(<<place, s>>)
    BY <1>2, <2>1, LockOrUnlock DEF Operate, Closing
  <2>3. world.holder = <<place, LockOf(s)>>
    BY <1>1, <1>4, <2>2 DEF WorldInv, HeldInv
  <2>4. QED
    BY <1>4, <2>1, <2>3 DEF Idle
<1>6. SUFFICES ASSUME world'.crashed # Nobody PROVE Failed(world)'
  BY DEF Failed
<1>7. /\ s \in Unwraps /\ ~world.isSome
      /\ world'.crashed = place /\ world'.sections = world.sections
  BY <1>2, <1>5, <1>6 DEF Operate, UnwrapsNone, Unwraps, Locking
<1>8. /\ place \in Kids /\ LastIs(tape, Cursor, place, s)
      /\ ~Before(world.sections, Done + 1)
      /\ body = RaceBtwFunc => s = "take"
      /\ body # RaceBtwFunc => place = Child(2) /\ Done = 0
  BY <1>1, <1>2, <1>3, <1>7, CrashSite
<1>9. CASE body # RaceBtwFunc
  <2>1. world.sections = <<>>
    BY <1>1, <1>8, <1>9, EmptySeq DEF WorldInv, WorldTypes, Done
  <2>2. QED
    BY <1>2, <1>7, <1>8, <1>9, <2>1 DEF Failed
<1>10. CASE body = RaceBtwFunc
  <2> DEFINE secs == world.sections
             n == Done
  <2>1. /\ Matches(secs, Cursor) /\ n = Len(secs) /\ n \in Nat
        /\ \A k \in 1 .. n :
             /\ secs[k][1] \in Kids /\ secs[k][2] \in {"checked", "taken"}
             /\ secs[k][3] <=> \A j \in 1 .. k : secs[j][2] # "taken"
             /\ secs[k][2] = "checked" /\ ~secs[k][3]
                  => secs[k][1] \in world.quits
    <3>1. Matches(secs, Cursor) /\ n = Len(secs) /\ n \in Nat
      BY <1>1, LenProperties DEF WorldInv, WorldTypes, SectionInv, Done
    <3>2. \A k \in 1 .. n :
            /\ secs[k][1] \in Kids /\ secs[k][2] \in {"checked", "taken"}
      BY <1>1, <1>3, <1>10, <3>1, SectionActs
    <3>3. \A k \in 1 .. n :
             /\ secs[k][3] <=> \A j \in 1 .. k : secs[j][2] # "taken"
             /\ secs[k][2] = "checked" /\ ~secs[k][3]
                  => secs[k][1] \in world.quits
      BY <1>1, <1>2, <1>10 DEF RaceInv
    <3>4. QED
      BY <3>1, <3>2, <3>3
  <2>2. place \notin world.quits
    <3>1. PICK i \in 1 .. Cursor : tape[i] = <<place, s>>
      BY <1>8 DEF LastIs
    <3>2. tape[i][1] = place /\ tape[i][2] = "take" /\ i \in 1 .. Len(tape)
      BY <1>3, <1>8, <1>10, <3>1
    <3>3. QED
      BY <1>1, <1>2, <1>10, <3>2 DEF RaceInv
  <2>3. \A k \in 1 .. n : secs[k][2] = "taken" => secs[k][1] # place
    <3> SUFFICES ASSUME NEW k \in 1 .. n, secs[k][2] = "taken",
                        secs[k][1] = place
                 PROVE  FALSE
      OBVIOUS
    <3>1. PICK i \in 1 .. Cursor : tape[i][1] = place /\ tape[i][2] = "taken"
      BY <1>1, <1>3, <2>1, SectionActs
    <3>2. Rank("taken") <= Rank("take")
      BY <1>1, <1>3, <1>8, <1>10, <3>1, LastRank
    <3>3. QED
      BY <3>2 DEF Rank
  <2>4. ASSUME NEW k \in 1 .. n, ~secs[k][3]
        PROVE  k = n /\ secs[k][2] = "taken" /\ secs[k][1] \in Kids \ {place}
    <3>1. PICK j \in 1 .. k : secs[j][2] = "taken"
      BY <2>1, <2>4
    <3>2. j \in 1 .. n /\ n \in 1 .. n /\ j \in 1 .. n
      BY <2>1
    <3>3. ~secs[n][3]
      BY <2>1, <3>1, <3>2
    <3>4. secs[n][1] # place
      BY <2>1, <2>2, <2>3, <3>2, <3>3
    <3>5. secs[n][1] = secs[j][1]
      <4>1. \A p, q \in Kids \ {place} : p = q
        BY <1>8 DEF Kids
      <4>2. QED
        BY <2>1, <2>3, <3>1, <3>2, <3>4, <4>1
    <3>6. j = n
      <4> SUFFICES ASSUME j < n PROVE FALSE
        BY <3>2
      <4>1. Rank(secs[j][2]) < Rank(secs[n][2])
        BY <1>1, <1>3, <2>1, <3>2, <3>5, SectionsInOrder
      <4>2. Rank(secs[j][2]) = 5 /\ Rank(secs[n][2]) \in {3, 5}
        BY <2>1, <3>1, <3>2 DEF Rank
      <4> HIDE DEF secs, n
      <4>3. QED
        BY <4>1, <4>2
    <3>7. k = n
      BY <2>1, <3>6
    <3>8. QED
      BY <2>1, <2>3, <3>1, <3>6, <3>7
  <2>5. QED
    BY <1>2, <1>7, <1>8, <1>10, <2>1, <2>4 DEF Failed
<1>11. QED
  BY <1>9, <1>10

LEMMA OperationKeepsRace ==
  ASSUME ToysWithUnlocksProbed, JointInv, ToyInv,
         NEW place \in DOMAIN body, NEW s \in Operations,
         RecordedOperation(place, s)
  PROVE  RaceInv'
<1>1. PhaseInv /\ ProgramInv /\ WorldInv /\ TapeOrder /\ RaceInv
  BY DEF JointInv, ToyInv
<1>2. phase = "record" /\ Operate(place, s) /\ UNCHANGED <<phase, body, tape>>
  BY DEF RecordedOperation, vars, target
<1>3. Cursor = Len(tape) /\ Len(tape) \in Nat /\ Cursor \in 0 .. Len(tape)
  BY <1>1, <1>2, LenProperties DEF Cursor, PhaseInv
<1> SUFFICES ASSUME body = RaceBtwFunc PROVE RaceInv'
  BY <1>2 DEF RaceInv
<1> DEFINE secs == world.sections
           n == Done
           section == <<place, s, world.isSome>>
<1>4. /\ \A k \in 1 .. n :
           /\ secs[k][3] <=> \A j \in 1 .. k : secs[j][2] # "taken"
           /\ secs[k][2] = "checked" /\ ~secs[k][3]
                => secs[k][1] \in world.quits
      /\ \A p \in Kids :
           world.holder = <<p, "check">> /\ ~world.isSome => p \in world.quits
      /\ \A i \in 1 .. Len(tape) :
           tape[i][1] \in world.quits => tape[i][2] \notin {"take", "taken"}
  BY <1>1, <1>2 DEF RaceInv
<1>5. <<place, s>> \in world.owes /\ LastIs(tape, Cursor, place, s)
  <2>1. <<place, s>>[1] = place /\ <<place, s>>[2] = s
    OBVIOUS
  <2>2. QED
    BY <1>1, <1>2, <2>1 DEF Operate, WorldInv, OwedInv
<1>6. place \in Kids /\ s \in {"check", "checked", "take", "taken"}
  <2>1. PICK i \in 1 .. Cursor : tape[i] = <<place, s>>
    BY <1>5 DEF LastIs
  <2>2. tape[i][1] = place /\ tape[i][2] = s /\ i \in 1 .. Len(tape)
    BY <1>3, <2>1
  <2>3. QED
    BY <1>1, <2>2, TapeActs
<1>7. /\ world'.quits = world.quits \cup
                          {p \in {place} : s = "check" /\ ~world.isSome}
      /\ world'.holder = IF s \in Locking THEN <<place, s>> ELSE Nobody
      /\ world'.isSome = Leaves(s, world.isSome)
      /\ world'.sections = IF s \in Locking THEN secs ELSE Append(secs, section)
  BY <1>2 DEF Operate
<1>8. ASSUME NEW i \in 1 .. Len(tape), tape[i][1] \in world'.quits
      PROVE  tape[i][2] \notin {"take", "taken"}
  <2>1. CASE tape[i][1] \in world.quits
    BY <1>4, <2>1
  <2>2. CASE tape[i][1] = place /\ s = "check"
    <3>1. Rank(tape[i][2]) <= Rank("check")
      BY <1>1, <1>3, <1>5, <1>6, <2>2, LastRank
    <3>2. Rank("check") = 2 /\ Rank("take") = 4 /\ Rank("taken") = 5
      BY DEF Rank
    <3>3. QED
      BY <3>1, <3>2
  <2>3. QED
    BY <1>7, <1>8, <2>1, <2>2
<1>9. ASSUME NEW p \in Kids, world'.holder = <<p, "check">>, ~world'.isSome
      PROVE  p \in world'.quits
  <2>1. s \in Locking /\ <<place, s>> = <<p, "check">>
    <3>1. <<p, "check">> # Nobody
      BY DEF Nobody
    <3> HIDE DEF secs, n, section
    <3>2. QED
      BY <1>7, <1>9, <3>1
  <2>2. p = place /\ s = "check"
    BY <2>1
  <2>3. ~world.isSome
    BY <1>1, <1>7, <1>9, <2>2 DEF Leaves, WorldInv, WorldTypes
  <2>4. QED
    BY <1>7, <2>2, <2>3
<1>10. CASE s \in Locking
  <2>1. world'.sections = secs /\ Done' = Done
    BY <1>7, <1>10 DEF Done
  <2>2. QED
    BY <1>2, <1>4, <1>7, <1>8, <1>9, <2>1 DEF RaceInv
<1>11. CASE s \notin Locking
  <2>1. /\ secs \in Seq(Section) /\ section \in Section /\ n \in Nat
        /\ world.isSome \in BOOLEAN
    BY <1>1, LenProperties DEF WorldInv, WorldTypes, Section, Done
  <2>2. section[1] = place /\ section[2] = s /\ section[3] = world.isSome
    OBVIOUS
  <2> HIDE DEF section
  <2>3. /\ Done' = n + 1 /\ world'.sections[n + 1] = section
        /\ \A k \in 1 .. n : world'.sections[k] = secs[k]
    BY <1>7, <1>11, <2>1, AppendProperties DEF Done
  <2>4. s \in {"checked", "taken"} /\ Closing(<<place, s>>)
    BY <1>6, <1>11 DEF Locking, Unlocking, Closing
  <2>5. world.holder = <<place, LockOf(s)>>
    BY <1>1, <1>5, <2>4 DEF WorldInv, HeldInv
  <2>6. world.isSome = Leaves(LockOf(s), Before(secs, n + 1))
    BY <1>1, <2>5 DEF WorldInv, DataInv, Nobody
  <2>7. s = "checked" /\ ~world.isSome => place \in world.quits
    BY <1>4, <1>6, <2>5 DEF LockOf
  <2>8. world.isSome <=> s # "taken" /\ \A j \in 1 .. n : secs[j][2] # "taken"
    <3>1. CASE s = "taken"
      BY <2>6, <3>1 DEF LockOf, Leaves
    <3>2. CASE s = "checked"
      <4>1. world.isSome <=> Before(secs, n + 1)
        <5>1. LockOf(s) = "check"
          BY <3>2 DEF LockOf
        <5>2. Leaves("check", Before(secs, n + 1)) <=> Before(secs, n + 1)
          BY DEF Leaves
        <5>3. QED
          BY <2>6, <5>1, <5>2
      <4>2. CASE n = 0
        BY <3>2, <4>1, <4>2 DEF Before
      <4>3. CASE n # 0
        <5>1. n \in 1 .. n /\ n + 1 # 1 /\ (n + 1) - 1 = n
          BY <2>1, <4>3
        <5>2. Before(secs, n + 1) = secs[n][3]
          BY <5>1 DEF Before
        <5>3. secs[n][3] \in BOOLEAN
          <6>1. secs[n] \in Section
            BY <2>1, <5>1, ElementOfSeq DEF Done
          <6>2. QED
            BY <6>1 DEF Section
        <5>4. QED
          BY <1>4, <3>2, <4>1, <5>1, <5>2, <5>3
      <4>4. QED
        BY <4>2, <4>3
    <3>3. QED
      BY <2>4, <3>1, <3>2
  <2>9. ASSUME NEW k \in 1 .. n + 1
        PROVE  /\ world'.sections[k][3]
                    <=> \A j \in 1 .. k : world'.sections[j][2] # "taken"
               /\ world'.sections[k][2] = "checked" /\ ~world'.sections[k][3]
                    => world'.sections[k][1] \in world'.quits
    <3>1. CASE k \in 1 .. n
      <4>1. \A j \in 1 .. k : j \in 1 .. n /\ world'.sections[j] = secs[j]
        BY <2>1, <2>3, <3>1
      <4>2. k \in 1 .. k
        BY <3>1
      <4>3. QED
        BY <1>4, <1>7, <3>1, <4>1, <4>2
    <3>2. CASE k = n + 1
      <4>1. (\A j \in 1 .. n + 1 : world'.sections[j][2] # "taken")
              <=> s # "taken" /\ \A j \in 1 .. n : secs[j][2] # "taken"
        <5>1. n + 1 \in 1 .. n + 1 /\ \A j \in 1 .. n : j \in 1 .. n + 1
          BY <2>1
        <5>2. \A j \in 1 .. n + 1 : j \in 1 .. n \/ j = n + 1
          BY <2>1
        <5>3. QED
          BY <2>2, <2>3, <5>1, <5>2
      <4>2. QED
        BY <1>7, <2>2, <2>3, <2>7, <2>8, <3>2, <4>1
    <3>3. QED
      BY <2>1, <3>1, <3>2
  <2>10. QED
    BY <1>2, <1>8, <1>9, <2>3, <2>9 DEF RaceInv
<1>12. QED
  BY <1>10, <1>11

LEMMA OperationKeepsToys ==
  ASSUME ToysWithUnlocksProbed, JointInv, ToyInv,
         NEW place \in DOMAIN body, NEW s \in Operations,
         RecordedOperation(place, s)
  PROVE  ToyInv'
<1>1. phase = "record" /\ UNCHANGED <<phase, tape>>
  BY DEF RecordedOperation
<1>2. TapeOrder' /\ PanicsAlike'
  BY <1>1 DEF ToyInv, TapeOrder, PanicsAlike
<1>3. FailInv'
  BY <1>1, RecordedFailure DEF FailInv
<1>4. QED
  BY <1>2, <1>3, OperationKeepsRace DEF ToyInv

LEMMA HandOverKeepsToys ==
  ASSUME ToyInv, HandOver
  PROVE  ToyInv'
<1>1. /\ phase = "record" /\ phase' = "replay" /\ world.crashed # Nobody
      /\ recorded' = world /\ world'.crashed = Nobody
      /\ UNCHANGED <<body, tape>>
  BY DEF HandOver, NewWorld
<1>2. TapeOrder' /\ RaceInv' /\ PanicsAlike'
  BY <1>1 DEF ToyInv, TapeOrder, RaceInv, PanicsAlike
<1>3. FailInv'
  BY <1>1 DEF ToyInv, FailInv, Failed
<1>4. QED
  BY <1>2, <1>3 DEF ToyInv

LEMMA ProbeKeepsToys ==
  ASSUME JointInv, ToyInv, NEW t \in Thread, ReplayProbe(t)
  PROVE  ToyInv'
<1>1. /\ phase = "replay" /\ Step(t) /\ UNCHANGED <<phase, tape, recorded>>
      /\ world' = IF log' # log /\ act[t] \in Operations
                  THEN Owes(lineage[t], act[t]) ELSE world
  BY DEF ReplayProbe
<1>2. UNCHANGED body
  BY <1>1, OnlyPassLogs
<1>3. world'.crashed = world.crashed /\ world'.sections = world.sections
  BY <1>1 DEF JointInv, WorldInv, WorldTypes, Owes
<1>4. QED
  BY <1>1, <1>2, <1>3
  DEF ToyInv, TapeOrder, RaceInv, FailInv, Failed, PanicsAlike

\* The panic of a replay is the one that was recorded.
LEMMA ReplayedFailure ==
  ASSUME ToysWithUnlocksProbed, JointInv, ToyInv, phase = "replay",
         Cursor \in 0 .. Len(tape),
         NEW place \in DOMAIN body, NEW s \in Operations, Operate(place, s),
         s \in Unwraps, ~world.isSome
  PROVE  place = recorded.crashed /\ world.sections = recorded.sections
<1>1. PhaseInv /\ ProgramInv /\ WorldInv /\ RecordedInv /\ TapeOrder
  BY DEF JointInv, ToyInv
<1>2. /\ place \in Kids /\ LastIs(tape, Cursor, place, s)
      /\ ~Before(world.sections, Done + 1)
      /\ body = RaceBtwFunc => s = "take"
      /\ body # RaceBtwFunc => place = Child(2) /\ Done = 0
  BY <1>1, CrashSite
<1> DEFINE secs == recorded.sections
           n == Done
<1>3. /\ secs \in Seq(Section) /\ world.sections \in Seq(Section)
      /\ Len(secs) \in Nat /\ n \in Nat /\ n = Len(world.sections)
      /\ n <= Len(secs) /\ \A k \in 1 .. n : world.sections[k] = secs[k]
  BY <1>1, LenProperties DEF RecordedInv, WorldInv, WorldTypes, Done
<1>4. Failed(recorded) /\ recorded.crashed # Nobody
  BY DEF ToyInv, FailInv
<1>5. CASE body # RaceBtwFunc
  <2>1. recorded.crashed = Child(2) /\ secs = <<>>
    BY <1>4, <1>5 DEF Failed
  <2>2. world.sections = <<>>
    BY <1>2, <1>3, <1>5, EmptySeq
  <2>3. QED
    BY <1>2, <1>5, <2>1, <2>2
<1>6. CASE body = RaceBtwFunc
  <2>1. /\ n # 0 /\ n \in 1 .. n /\ n \in 1 .. Len(secs) /\ (n + 1) - 1 = n
    <3>1. n # 0
      BY <1>2, <1>6 DEF Before
    <3>2. QED
      BY <1>3, <3>1
  <2>2. ~world.sections[n][3]
    BY <1>2, <1>3, <2>1 DEF Before
  <2>3. /\ recorded.crashed \in Kids
        /\ n = Len(secs) /\ secs[n][2] = "taken"
        /\ secs[n][1] \in Kids \ {recorded.crashed}
    BY <1>3, <1>4, <1>6, <2>1, <2>2 DEF Failed
  <2>4. world.sections = secs
    BY <1>3, <2>3, SeqEqual
  <2>5. secs[n][1] # place
    <3> SUFFICES ASSUME secs[n][1] = place PROVE FALSE
      OBVIOUS
    <3>1. Matches(world.sections, Cursor) /\ n \in 1 .. Len(world.sections)
      BY <1>1, <1>3, <2>1 DEF WorldInv, SectionInv
    <3>2. PICK i \in 1 .. Cursor : /\ tape[i][1] = world.sections[n][1]
                                   /\ tape[i][2] = world.sections[n][2]
      BY <1>1, <3>1, SectionActs
    <3>3. tape[i][1] = place /\ tape[i][2] = "taken"
      BY <2>3, <2>4, <3>2
    <3>4. Len(tape) \in Nat
      BY <1>1, LenProperties DEF PhaseInv
    <3>5. Rank("taken") <= Rank("take")
      BY <1>1, <1>2, <1>6, <3>3, <3>4, LastRank
    <3>6. QED
      BY <3>5 DEF Rank
  <2>6. place = recorded.crashed
    BY <1>2, <2>3, <2>5 DEF Kids
  <2>7. QED
    BY <2>4, <2>6
<1>7. QED
  BY <1>5, <1>6

LEMMA ReplayKeepsToys ==
  ASSUME ToysWithUnlocksProbed, JointInv, ToyInv,
         NEW t \in Thread, NEW s \in Operations,
         ReplayOperation(t, s)
  PROVE  ToyInv'
<1>1. /\ phase = "replay" /\ Operate(lineage[t], s)
      /\ UNCHANGED <<phase, body, tape, recorded>>
  BY DEF ReplayOperation
<1>2. PhaseInv /\ ReplayerInv /\ WorldInv /\ RecordedInv
  BY DEF JointInv
<1>3. lineage[t] \in DOMAIN body
  BY <1>1, <1>2 DEF Operate, WorldInv, WorldTypes
<1>4. tape \in Seq(Act) /\ Cursor \in 0 .. Len(tape)
  <2>1. scenario = tape /\ Cursor = Len(log)
    BY <1>1, <1>2 DEF PhaseInv, Cursor
  <2>2. /\ tape \in Seq(Act) /\ log \in Seq(Act) /\ Len(log) <= Len(tape)
        /\ Len(log) \in Nat /\ Len(tape) \in Nat
    BY <1>1, <1>2, <2>1, LenProperties DEF ReplayerInv, ReplayInv, QueueInv
  <2>3. QED
    BY <2>1, <2>2
<1>5. TapeOrder' /\ RaceInv' /\ FailInv'
  BY <1>1 DEF ToyInv, TapeOrder, RaceInv, FailInv, Failed
<1>6. PanicsAlike'
  <2> SUFFICES ASSUME world'.crashed # Nobody
               PROVE  /\ world'.crashed = recorded.crashed
                      /\ world'.sections = recorded.sections
    BY <1>1 DEF PanicsAlike
  <2>1. CASE s \in Unwraps /\ ~world.isSome
    <3>1. world'.crashed = lineage[t] /\ world'.sections = world.sections
      BY <1>1, <2>1 DEF Operate, UnwrapsNone, Unwraps, Locking
    <3>2. QED
      BY <1>1, <1>3, <1>4, <2>1, <3>1, ReplayedFailure
  <2>2. CASE ~(s \in Unwraps /\ ~world.isSome)
    <3>1. world'.crashed = world.crashed
      BY <1>1, <2>2 DEF Operate, UnwrapsNone
    <3>2. /\ world.crashed = recorded.crashed
          /\ world.sections = recorded.sections
      BY <1>1, <3>1 DEF ToyInv, PanicsAlike
    <3>3. s \in Locking
      <4> SUFFICES ASSUME s \notin Locking PROVE FALSE
        OBVIOUS
      <4>1. Done + 1 <= Len(recorded.sections)
        BY <1>1, <1>2, <1>3, <1>4, LockOrUnlock, NextSectionIsRecorded
      <4>2. Done = Len(recorded.sections) /\ Done \in Nat
        BY <1>2, <3>2, LenProperties DEF Done, WorldInv, WorldTypes
      <4>3. QED
        BY <4>1, <4>2
    <3>4. world'.sections = world.sections
      BY <1>1, <3>3 DEF Operate
    <3>5. QED
      BY <3>1, <3>2, <3>4
  <2>3. QED
    BY <2>1, <2>2
<1>7. QED
  BY <1>5, <1>6 DEF ToyInv

LEMMA ToyStep ==
  ASSUME ToysWithUnlocksProbed, JointInv, ToyInv, [RRNext]_rrVars
  PROVE  ToyInv'
<1>1. ASSUME AllOver \/ UNCHANGED rrVars PROVE ToyInv'
  <2>1. UNCHANGED <<body, phase, tape, world, recorded>>
    BY <1>1 DEF AllOver, rrVars, vars, target
  <2>2. QED
    BY <2>1
    DEF ToyInv, TapeOrder, RaceInv, FailInv, Failed, PanicsAlike, Done
<1>2. QED
  BY <1>1, RecordKeepsToys, OperationKeepsToys, HandOverKeepsToys,
     ProbeKeepsToys, ReplayKeepsToys DEF RRNext

\* The programs of race_btw_func and read_none over a type whose guard's drop
\* the pass knows (custom_pass.cpp:242-249), so that their unlocks are probed:
\* if a replay fails, the thread that panicked in the recorded run panics, after
\* the same critical sections.  Of .toy_bugs as the pass instruments them this would
\* be false: RecordReplay's mutant GuardUnknown breaks it.
THEOREM ReplayKeepsPanics ==
  ASSUME ToysWithUnlocksProbed PROVE RRSpec => []PanicsAlike
<1>1. RRSpec => []JointInv
  BY ToysAreProbed, JointInvariant
<1>2. RRInit => ToyInv
  BY ToyInit
<1>3. JointInv /\ ToyInv /\ [RRNext]_rrVars => ToyInv'
  BY ToyStep
<1>4. ToyInv => PanicsAlike
  BY DEF ToyInv
<1>5. QED
  BY <1>1, <1>2, <1>3, <1>4, PTL DEF RRSpec
=============================================================================
