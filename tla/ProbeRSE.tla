------------------------------ MODULE ProbeRSE ------------------------------
(***************************************************************************)
(* The recording probe (probe/probe_RSE.rs): what the functions that the    *)
(* pass plants in the target do, interleaved over the target's threads,     *)
(* from _init_ to the exit of the process.                                  *)
(*                                                                         *)
(* The target itself is arbitrary: a thread in state "run" may reach any    *)
(* probe site, create a thread, end, panic, or (Main) return from main.     *)
(* __random_sleep only delays and is the freedom of the interleaving.       *)
(***************************************************************************)
EXTENDS ProbeSemaphore, Tids

CONSTANTS
  Main,          \* the thread that runs _init_
  Untracked,     \* threads the pass plants no probe for, neither at the call that
                 \* creates them nor at their closure
  Unannounced,   \* threads created by a call the pass does not recognise, whose
                 \* closure it does: only _probe_spawned_ runs
  Silent,        \* threads whose closure may be one the pass does not recognise:
                 \* announced by the parent, but no _probe_spawned_ runs in them
  Spawners,      \* threads whose code holds an instrumented thread::spawn
  Func,          \* the func_nums of _probe_func_ and _probe_mutex_ sites
  SpawningSite,  \* the func_num of _probe_spawning_ sites
  SpawnedSite,   \* the func_num of _probe_spawned_ sites
  BadSites,      \* sites whose path has a ".." less than two components deep: the
                 \* normalisation of __record_thread_structure panics (PathNorm)
  MaxActs        \* bound: generic probes the threads may run, all together

ASSUME RecorderAssumption ==
  /\ Permits = 1
  /\ Main \in Thread \ Untracked
  /\ Untracked \subseteq Thread
  /\ Unannounced \subseteq Thread \ (Untracked \cup {Main})
  /\ Silent \subseteq Thread \ (Untracked \cup Unannounced \cup {Main})
  /\ Spawners \subseteq Thread
  /\ SpawningSite \notin Func /\ SpawnedSite \notin Func
  /\ SpawningSite # SpawnedSite
  /\ BadSites \subseteq Func \cup {SpawningSite}
  /\ MaxActs \in Nat

Site == Func \cup {SpawningSite, SpawnedSite}

VARIABLES
  pc,        \* where each thread is: in the target, in a probe, in exit()
  act,       \* the func_num argument of the probe a thread is in
  tid,       \* thread-local TID
  childId,   \* thread-local CHILD_ID
  exeNode,   \* thread-local EXE_NODE_ID, as an index of exe (1 is main's)
  newTid,    \* static _PROBE_NEW_THREAD_ID
  recording, \* is _PROBE_THRD_EXE Some? (_init_ found no file "struct")
  exe,       \* static _PROBE_THRD_EXE: one sequence of nodes per group
  log,       \* the file "log": the scenario
  handler,   \* is _final_ still registered with atexit?
  structFile,\* the file "struct", or NoFile
  dead,      \* the process is gone
  lineage,   \* history: the place in the spawn tree a thread was created at
  kids,      \* history: threads created by an instrumented thread::spawn
  acts       \* history: the sites a thread has reached, in program order

tlsVars   == <<tid, childId, exeNode>>
fileVars  == <<log, exe, structFile>>
ghostVars == <<lineage, kids>>
vars == <<semVars, pc, act, tlsVars, newTid, recording, fileVars, handler,
          dead, ghostVars, acts>>

\* No file "struct"; a written one has at least main's group.
NoFile == <<>>

\* _init_ registers _final_.  (The mutant does not.)
NoAtExit == FALSE
AtExitRegistered == TRUE

\* Process states of a thread, by the statement it runs next.
PC == {"unborn", "run", "done",                          \* the target's code
       "record", "note",                                 \* _probe_func_/_mutex_
       "dec", "recordSpawning", "name", "noteSpawning", "spawn",
       "born", "inc", "recordSpawned", "open", "noteSpawned",
       "exit", "final", "leave"}                         \* process::exit

Init ==
  /\ SemInit
  /\ pc = [t \in Thread |-> IF t = Main THEN "run" ELSE "unborn"]
  /\ act = [t \in Thread |-> SpawnedSite]
  /\ tid = [t \in Thread |-> IF t = Main THEN MainTid ELSE None]
  /\ childId = [t \in Thread |-> 1]
  /\ exeNode = [t \in Thread |-> 1]
  /\ newTid = None
  /\ recording \in BOOLEAN
  /\ exe = <<(<<>>)>>
  /\ log = <<>>
  /\ handler = AtExitRegistered
  /\ structFile = NoFile
  /\ dead = FALSE
  /\ lineage = [t \in Thread |-> IF t = Main THEN MainTid ELSE None]
  /\ kids = [t \in Thread |-> 0]
  /\ acts = [t \in Thread |-> <<>>]

Goto(t, label) == pc' = [pc EXCEPT ![t] = label]

\* Thread t runs the probe of site s.
Reach(t, s) ==
  /\ act' = [act EXCEPT ![t] = s]
  /\ acts' = [acts EXCEPT ![t] = Append(@, s)]

-----------------------------------------------------------------------------
(* The two recording helpers, shared by all the probes.                     *)

\* Where _probe_func_ and _probe_mutex_ begin, and what follows each call.
\* (The mutant drops their __record_scenario.)
EntersUnrecorded == "note"
ProbeEntry  == "record"
AfterRecord == [record |-> "note", recordSpawning |-> "name",
                recordSpawned |-> "open"]
AfterNote   == [note |-> "run", noteSpawning |-> "spawn",
                noteSpawned |-> "run"]

\* __record_scenario: one write to the log under its mutex.
RecordScenario(t) ==
  /\ pc[t] \in DOMAIN AfterRecord
  /\ log' = Append(log, <<tid[t], act[t]>>)
  /\ Goto(t, AfterRecord[pc[t]])
  /\ UNCHANGED <<semVars, act, tlsVars, newTid, recording, exe, structFile,
                 handler, dead, ghostVars, acts>>

\* The node pushed.  (The mutant names it after the shared static.)
StaleNode(t) == <<newTid, act[t]>>
NodeOf(t) == <<tid[t], act[t]>>

\* __record_thread_structure: one push under the mutex of _PROBE_THRD_EXE.
RecordStructure(t) ==
  /\ pc[t] \in DOMAIN AfterNote
  /\ act[t] \notin BadSites
  /\ exe' = IF recording
            THEN [exe EXCEPT ![exeNode[t]] = Append(@, NodeOf(t))]
            ELSE exe
  /\ Goto(t, AfterNote[pc[t]])
  /\ UNCHANGED <<semVars, act, tlsVars, newTid, recording, log, structFile,
                 handler, dead, ghostVars, acts>>

-----------------------------------------------------------------------------
(* _probe_func_ and _probe_mutex_.                                          *)

Generic ==
  UNION {{<<t, i>> : i \in {j \in DOMAIN acts[t] : acts[t][j] \in Func}} :
           t \in Thread}

ProbeCall(t, f) ==
  /\ pc[t] = "run"
  /\ Cardinality(Generic) < MaxActs
  /\ Reach(t, f)
  /\ Goto(t, ProbeEntry)
  /\ UNCHANGED <<semVars, tlsVars, newTid, recording, fileVars, handler, dead,
                 ghostVars>>

-----------------------------------------------------------------------------
(* _probe_spawning_, the target's thread::spawn, _probe_spawned_.           *)

\* Bound: a spawning thread finds a thread of the model left to create.
SpawningPCs == {"dec", "recordSpawning", "name", "noteSpawning", "spawn"}
Unborn == {t \in Thread \ (Untracked \cup Unannounced) : pc[t] = "unborn"}
ThreadLeft ==
  Cardinality({t \in Thread : pc[t] \in SpawningPCs}) < Cardinality(Unborn)

\* What follows dec.  (The mutant drops the __record_scenario.)
SpawnsUnrecorded == "name"
AfterDec == "recordSpawning"

SpawningDec(t) ==
  /\ pc[t] = "run" /\ t \in Spawners
  /\ ThreadLeft
  /\ Reach(t, SpawningSite)
  /\ \/ DecPasses(t) /\ Goto(t, AfterDec)
     \/ DecBlocks(t) /\ Goto(t, "dec")
  /\ UNCHANGED <<tlsVars, newTid, recording, fileVars, handler, dead,
                 ghostVars>>

SpawningRetest(t) ==
  /\ pc[t] = "dec"
  /\ \/ RetestPasses(t) /\ Goto(t, AfterDec)
     \/ RetestBlocks(t) /\ UNCHANGED pc
  /\ UNCHANGED <<act, tlsVars, newTid, recording, fileVars, handler, dead,
                 ghostVars, acts>>

SpawningSpuriousWake(t) ==
  /\ SpuriousWake(t)
  /\ UNCHANGED <<pc, act, tlsVars, newTid, recording, fileVars, handler, dead,
                 ghostVars, acts>>

\* The child's name and the next child's number.  (The mutants forget the
\* number, read the static instead of the own name, or do not count.)
NumberlessTid(t) == tid[t]
StaleParentTid(t) == ChildTid(newTid, childId[t])
NextTid(t) == ChildTid(tid[t], childId[t])
SameChild(k) == k
NextChild(k) == k + 1

SpawningName(t) ==
  /\ pc[t] = "name"
  /\ newTid' = NextTid(t)
  /\ childId' = [childId EXCEPT ![t] = NextChild(@)]
  /\ Goto(t, "noteSpawning")
  /\ UNCHANGED <<semVars, act, tid, exeNode, recording, fileVars, handler,
                 dead, ghostVars, acts>>

\* The child's first instrumented step: _probe_spawned_, planted at the call of
\* its closure if the pass knows the closure by name.
FirstSteps(c) == {"born"} \cup IF c \in Silent THEN {"run"} ELSE {}

\* thread::spawn after _probe_spawning_ returned.
ThreadSpawn(p, c) ==
  /\ pc[p] = "spawn"
  /\ c \in Unborn
  /\ \E first \in FirstSteps(c) :
       pc' = [pc EXCEPT ![p] = "run", ![c] = first]
  /\ lineage' = [lineage EXCEPT ![c] = ChildTid(lineage[p], kids[p] + 1)]
  /\ kids' = [kids EXCEPT ![p] = @ + 1]
  /\ UNCHANGED <<semVars, act, tlsVars, newTid, recording, fileVars, handler,
                 dead, acts>>

\* A thread nobody announced: its TID stays "none" and its node group main's,
\* unless its closure is one the pass knows.
UninstrumentedSpawn(p, c) ==
  /\ pc[p] = "run"
  /\ c \in Untracked \cup Unannounced /\ pc[c] = "unborn"
  /\ Goto(c, IF c \in Unannounced THEN "born" ELSE "run")
  /\ UNCHANGED <<semVars, act, tlsVars, newTid, recording, fileVars, handler,
                 dead, ghostVars, acts>>

\* What follows the reading of the name.  (The mutant drops the inc.)
KeepsPermit == "recordSpawned"
AfterTakeTid == "inc"

SpawnedTakeTid(c) ==
  /\ pc[c] = "born"
  /\ tid' = [tid EXCEPT ![c] = newTid]
  /\ Reach(c, SpawnedSite)
  /\ Goto(c, AfterTakeTid)
  /\ UNCHANGED <<semVars, childId, exeNode, newTid, recording, fileVars,
                 handler, dead, ghostVars>>

SpawnedInc(c) ==
  /\ pc[c] = "inc"
  /\ Inc
  /\ Goto(c, "recordSpawned")
  /\ UNCHANGED <<act, tlsVars, newTid, recording, fileVars, handler, dead,
                 ghostVars, acts>>

\* The index of the group about to be pushed.  (The mutant reads it late.)
GroupAfterPush == Len(exe) + 2
NewGroup == Len(exe) + 1

\* The new thread opens a node group of its own, if nodes are recorded.
SpawnedOpen(c) ==
  /\ pc[c] = "open"
  /\ IF recording
     THEN /\ exeNode' = [exeNode EXCEPT ![c] = NewGroup]
          /\ exe' = Append(exe, <<>>)
     ELSE UNCHANGED <<exeNode, exe>>
  /\ Goto(c, "noteSpawned")
  /\ UNCHANGED <<semVars, act, tid, childId, newTid, recording, log,
                 structFile, handler, dead, ghostVars, acts>>

-----------------------------------------------------------------------------
(* The end of threads and of the process.                                   *)

ThreadEnd(t) ==
  /\ pc[t] = "run" /\ t # Main
  /\ Goto(t, "done")
  /\ UNCHANGED <<semVars, act, tlsVars, newTid, recording, fileVars, handler,
                 dead, ghostVars, acts>>

\* main returns, or the panic hook turns a panic of the target, or of the path
\* normalisation, into process::exit(1).
Exit(t) ==
  /\ \/ pc[t] = "run"
     \/ pc[t] \in DOMAIN AfterNote /\ act[t] \in BadSites
  /\ Goto(t, "exit")
  /\ UNCHANGED <<semVars, act, tlsVars, newTid, recording, fileVars, handler,
                 dead, ghostVars, acts>>

\* exit() unregisters a handler before it runs it: a second thread in exit()
\* meanwhile finds none left and goes on to end the process.
RunHandlers(t) ==
  /\ pc[t] = "exit"
  /\ handler' = FALSE
  /\ Goto(t, IF handler THEN "final" ELSE "leave")
  /\ UNCHANGED <<semVars, act, tlsVars, newTid, recording, fileVars, dead,
                 ghostVars, acts>>

Final(t) ==
  /\ pc[t] = "final"
  /\ structFile' = IF recording THEN exe ELSE structFile
  /\ Goto(t, "leave")
  /\ UNCHANGED <<semVars, act, tlsVars, newTid, recording, log, exe, handler,
                 dead, ghostVars, acts>>

Die(t) ==
  /\ pc[t] = "leave"
  /\ dead' = TRUE
  /\ UNCHANGED <<semVars, pc, act, tlsVars, newTid, recording, fileVars,
                 handler, ghostVars, acts>>

-----------------------------------------------------------------------------

\* What a thread does next when it is scheduled, inside a probe, thread::spawn
\* or exit().
ProbeStep(t) ==
  \/ RecordScenario(t)
  \/ RecordStructure(t)
  \/ SpawningRetest(t)
  \/ SpawningName(t)
  \/ \E c \in Thread : ThreadSpawn(t, c)
  \/ SpawnedTakeTid(t)
  \/ SpawnedInc(t)
  \/ SpawnedOpen(t)
  \/ RunHandlers(t)
  \/ Final(t)
  \/ Die(t)

\* What the target, or the library, may choose to do and may also not.
TargetStep(t) ==
  \/ \E f \in Func : ProbeCall(t, f)
  \/ SpawningDec(t)
  \/ \E c \in Thread : UninstrumentedSpawn(t, c)
  \/ ThreadEnd(t)
  \/ Exit(t)
  \/ SpawningSpuriousWake(t)

\* The process is gone: nothing happens any more.
Gone == dead /\ UNCHANGED vars

Next ==
  \/ ~dead /\ \E t \in Thread : ProbeStep(t) \/ TargetStep(t)
  \/ Gone

Spec == Init /\ [][Next]_vars

\* Every thread that is inside a probe, inside thread::spawn or inside exit()
\* keeps being scheduled; the target owes no step.
FairSpec == Spec /\ \A t \in Thread : WF_vars(~dead /\ ProbeStep(t))
-----------------------------------------------------------------------------
(* Properties.                                                              *)

\* Types of the whole state; exeNode always indexes an open node group.
TypeOK ==
  /\ SemTypeOK
  /\ pc \in [Thread -> PC]
  /\ act \in [Thread -> Site]
  /\ tid \in [Thread -> Seq(Nat)]
  /\ childId \in [Thread -> Nat]
  /\ exeNode \in [Thread -> Nat \ {0}]
  /\ \A t \in Thread : exeNode[t] <= Len(exe)
  /\ newTid \in Seq(Nat)
  /\ recording \in BOOLEAN
  /\ exe \in Seq(Seq(Seq(Nat) \X Site))
  /\ log \in Seq(Seq(Nat) \X Site)
  /\ handler \in BOOLEAN
  /\ structFile = NoFile \/ structFile \in Seq(Seq(Seq(Nat) \X Site))
  /\ dead \in BOOLEAN
  /\ lineage \in [Thread -> Seq(Nat)]
  /\ kids \in [Thread -> Nat]
  /\ acts \in [Thread -> Seq(Site)]

\* From the parent's dec to the child's inc, only one spawn is under way: the
\* parent that holds the permit, or the child that has not returned it.  This
\* is what protects the unsynchronised static _PROBE_NEW_THREAD_ID
\* (probe_RSE.rs:19-23, 135-144, 155-163).
Window == {t \in Thread : pc[t] \in {"recordSpawning", "name", "noteSpawning",
                                     "spawn", "born", "inc"}}
OneSpawnInFlight == Cardinality(Window) <= 1

\* No interleaving of spawns gives a thread another thread's name: the recorder
\* implements the abstract naming of threads by their place in the spawn tree
\* (probe_RSE.rs:141-144, 156-160).
Naming == INSTANCE ThreadNaming WITH
            lineage <- lineage, kids <- kids, tid <- tid
NamesByLineage == Naming!NamingSpec

\* Two running threads never answer to the same name, "none" aside
\* ("for keeping track of parent thread id", probe_RSE.rs:21).
UniqueTids == Naming!UniqueTids

Tracked == {t \in Thread \ Untracked : tid[t] # None}

\* The sites of the first k records that belong to the name n, for every k; and
\* of all of them.
SitesUpTo(records, n) ==
  LET sites[k \in 0 .. Len(records)] ==
        IF k = 0 THEN <<>>
        ELSE IF records[k][1] = n THEN Append(sites[k - 1], records[k][2])
        ELSE sites[k - 1]
  IN  sites
SitesOf(records, n) == SitesUpTo(records, n)[Len(records)]

\* The acts of a thread that its probes have finished recording.
Unrecorded == {"record", "dec", "recordSpawning", "inc", "recordSpawned"}
Unnoted == Unrecorded \cup {"note", "name", "noteSpawning", "open",
                            "noteSpawned"}
DropLast(s, cond) == IF cond THEN SubSeq(s, 1, Len(s) - 1) ELSE s
PanickedInNote(t) == pc[t] \in {"exit", "final", "leave"} /\ act[t] \in BadSites
Recorded(t) == DropLast(acts[t], pc[t] \in Unrecorded)
Noted(t)    == DropLast(acts[t], pc[t] \in Unnoted \/ PanickedInNote(t))

\* Read by name, the scenario gives back every thread's own program order,
\* nothing lost and nothing of another thread mixed in (probe_RSE.rs:228-236).
ScenarioKeepsProgramOrder ==
  \A t \in Tracked : SitesOf(log, tid[t]) = Recorded(t)

\* The thread structure tells the same story, each thread's nodes in the group
\* it opened (probe_RSE.rs:171-180, 213-225).
StructureKeepsProgramOrder ==
  recording => \A t \in Tracked : SitesOf(exe[exeNode[t]], tid[t]) = Noted(t)

\* In the scenario, the k-th child of a thread acts only after that thread's
\* k-th spawning: replay never has to wait for a thread whose creation it is
\* itself holding back (probe_RSE.rs:139-150, 167-169).
SpawningPrecedesChild ==
  \A c \in Tracked \ {Main} : \A j \in DOMAIN log :
    log[j][1] = lineage[c] =>
      Cardinality({i \in 1 .. j - 1 :
                     log[i] = <<ParentTid(lineage[c]), SpawningSite>>})
        >= ChildNumber(lineage[c])

\* The dump of _final_ never shows a thread doing what the scenario does not
\* (probe_RSE.rs:80-95 after 228-236).
IsPrefixOf(s, t) == Len(s) <= Len(t) /\ SubSeq(t, 1, Len(s)) = s
DumpAgreesWithScenario ==
  structFile # NoFile =>
    \A t \in Tracked : exeNode[t] \in DOMAIN structFile =>
      IsPrefixOf(SitesOf(structFile[exeNode[t]], tid[t]), SitesOf(log, tid[t]))

\* If one thread alone ends the process, the dump is on disk when the process
\* is gone and holds all that this thread did, except the node whose recording
\* is what panicked (probe_RSE.rs:64, 73-77, 80-95).
Exiting == {t \in Thread : pc[t] \in {"exit", "final", "leave"}}
LoneExitIsDumped ==
  dead /\ recording /\ Cardinality(Exiting) = 1 =>
    /\ structFile # NoFile
    /\ \A t \in Exiting \cap Tracked :
         SitesOf(structFile[exeNode[t]], tid[t]) = Noted(t)

\* Only a child without _probe_spawned_ keeps the permit it was announced with
\* (custom_pass.cpp:222-236, 288-291).
PermitKept ==
  \E c \in Silent : pc[c] # "born" /\ lineage[c] # None /\ tid[c] = None

\* A permit that was granted comes back: parent, thread creation and child hand
\* it on to inc, unless the process ends first or a child was silent
\* (probe_RSE.rs:136-138, 161-163).
PermitComesBack == granted > 0 ~> granted = 0 \/ dead \/ PermitKept

\* And who waits to spawn gets to spawn, if nobody else waits too
\* (probe_RSE.rs:278-280, 285-287).
SpawnerGetsIn ==
  \A t \in Thread :
    pc[t] = "dec" ~> pc[t] # "dec" \/ dead \/ PermitKept \/ Waiting # {t}

\* "semaphore for allowing only one spawning thread at a time"
\* (probe_RSE.rs:19): with no spawn under way, some waiting spawner can go.
SomeSpawnerAllowed == granted = 0 /\ Waiting # {} => count >= 0
=============================================================================
