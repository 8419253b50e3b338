------------------------------ MODULE ProbeERR ------------------------------
(***************************************************************************)
(* The replaying probe (probe/probe_ERR.rs): the same probe functions, but  *)
(* each waits at __traffic_light for its turn in the file "scenario".       *)
(*                                                                         *)
(* The target is a program: body gives the sites each thread reaches, in    *)
(* order, and main returns once the threads it can join have ended (the     *)
(* shape of .toy_bugs).  The 1000 ms sleeps only delay, except that the one *)
(* inside __traffic_light holds the mutex of the scenario.                  *)
(***************************************************************************)
EXTENDS ProbeSemaphore, Tids

CONSTANTS
  Main,          \* the thread that runs _init_
  Untracked,     \* threads created by calls the pass plants no probe at: their
                 \* thread-locals _SPAWN_SEM and _SCENARIO stay None
  SpawningSite,  \* the func_num of _probe_spawning_ sites
  SpawnedSite,   \* the func_num of _probe_spawned_ sites
  Func,          \* the func_nums of _probe_func_ and _probe_mutex_ sites
  BadSites,      \* sites whose path makes the normalisation of write_log panic
  Bodies,        \* the targets: place in the spawn tree -> the sites its thread
                 \* reaches
  Crashers,      \* the places whose thread panics at the end of its body
  Scenarios(_)   \* what the file "scenario" may hold for a target

Site == Func \cup {SpawningSite, SpawnedSite}

ASSUME ReplayerAssumption ==
  /\ Permits = 1
  /\ Main \in Thread \ Untracked
  /\ Untracked \subseteq Thread
  /\ SpawningSite \notin Func /\ SpawnedSite \notin Func
  /\ SpawningSite # SpawnedSite
  /\ BadSites \subseteq Func \cup {SpawningSite}
  /\ \A b \in Bodies : \A place \in DOMAIN b :
       b[place] \in Seq(Func \cup {SpawningSite})
  /\ \A b \in Bodies :
       Scenarios(b) \subseteq Seq(Seq(Nat) \X Site)

VARIABLES
  body,      \* the target
  pc,        \* where each thread is
  act,       \* the func_num argument of the probe a thread is in
  reached,   \* how many sites of its body a thread has reached
  tid,       \* thread-local _TID
  childId,   \* thread-local _CHILD_ID
  newTid,    \* _ProbeSpawnSema.child_thread_id
  light,     \* who holds the mutex of the _ReplayDirector: nobody or one
  queue,     \* _ReplayDirector.scenario_queue
  log,       \* the file "log": the acts that passed the light
  dead,      \* the process is gone
  scenario,  \* history: the acts in the file "scenario"
  passed,    \* history: the place of the thread behind each line of log
  lineage,   \* history: the place in the spawn tree a thread was created at
  kids       \* history: threads created by an instrumented thread::spawn

target    == <<body, scenario>>
director  == <<light, queue, log, passed>>
ghostVars == <<lineage, kids>>
vars == <<semVars, pc, act, reached, tid, childId, newTid, director, dead,
          target, ghostVars>>

PC == {"unborn", "run", "done",             \* the target's code
       "dec", "spawn", "born",              \* _probe_spawning_, _probe_spawned_
       "arrive", "light", "sleep",          \* __traffic_light
       "starved", "panic", "exit"}          \* process::exit

\* _ReplayDirector::new: split at '+', where a last element "\n" is skipped but
\* the empty string after the recorder's last '+' is not.  (The mutant drops
\* the last element whatever it is.)
EmptyAct == <<>>
QueueDropsLast(acts, newline) ==
  IF newline THEN SubSeq(acts, 1, Len(acts) - 1) ELSE acts
QueueOf(acts, newline) ==
  IF newline THEN acts ELSE Append(acts, EmptyAct)

Init ==
  /\ SemInit
  /\ pc = [t \in Thread |-> IF t = Main THEN "run" ELSE "unborn"]
  /\ act = [t \in Thread |-> SpawnedSite]
  /\ reached = [t \in Thread |-> 0]
  /\ tid = [t \in Thread |-> IF t = Main THEN MainTid ELSE None]
  /\ childId = [t \in Thread |-> 1]
  /\ newTid = None
  /\ light = {}
  /\ body \in Bodies
  /\ scenario \in Scenarios(body)
  /\ \E newline \in BOOLEAN : queue = QueueOf(scenario, newline)
  /\ log = <<>>
  /\ passed = <<>>
  /\ dead = FALSE
  /\ lineage = [t \in Thread |-> IF t = Main THEN MainTid ELSE None]
  /\ kids = [t \in Thread |-> 0]

Goto(t, label) == pc' = [pc EXCEPT ![t] = label]

\* The next site of thread t's body.
More(t)     == reached[t] < Len(body[lineage[t]])
NextSite(t) == body[lineage[t]][reached[t] + 1]
Reach(t, s) ==
  /\ More(t) /\ NextSite(t) = s
  /\ reached' = [reached EXCEPT ![t] = @ + 1]
  /\ act' = [act EXCEPT ![t] = s]

-----------------------------------------------------------------------------
(* What the recorder writes of a target: each thread's acts in its program  *)
(* order, a thread's after the spawning that announced it (proved of        *)
(* ProbeRSE: ScenarioKeepsProgramOrder, SpawningPrecedesChild).             *)

\* Threads that start without the announcement of a spawning probe.
Roots == {MainTid, None}

\* The acts of the thread at a place, in program order.
ActsOf(b, place) ==
  IF place \in Roots THEN b[place] ELSE <<SpawnedSite>> \o b[place]

CountIn(tape, P(_)) == Cardinality({i \in DOMAIN tape : P(tape[i])})
Progress(tape, place) == CountIn(tape, LAMBDA a : a[1] = place)
Announced(tape, place) ==
  CountIn(tape, LAMBDA a : a = <<ParentTid(place), SpawningSite>>)
    >= ChildNumber(place)

\* The places whose thread may be recorded after tape, and its next act.
MayFollow(b, tape, place) ==
  /\ Progress(tape, place) < Len(ActsOf(b, place))
  /\ place \in Roots \/ Announced(tape, place)
NextAct(b, tape, place) ==
  <<place, ActsOf(b, place)[Progress(tape, place) + 1]>>

-----------------------------------------------------------------------------
(* __traffic_light.                                                         *)

\* exe_guarded.lock().  (The mutant forgets the mutex.)
IgnoresMutex == TRUE
MutexFree == light = {}

Acquire(t) ==
  /\ pc[t] = "arrive"
  /\ MutexFree
  /\ light' = {t}
  /\ Goto(t, "light")
  /\ UNCHANGED <<semVars, act, reached, tid, childId, newTid, queue, log,
                 passed, dead, target, ghostVars>>

\* my_order.eq(&exe_order.get_next_act()).  (The mutant compares func_nums.)
ComparesSites(t, next) == next # EmptyAct /\ next[2] = act[t]
MyTurn(t, next) == next = <<tid[t], act[t]>>

\* update_next_act.  (The mutant forgets the pop.)
KeepsFront(q) == q
PopFront(q) == Tail(q)

\* What a probe does after the light.
AfterLight(s) == IF s = SpawningSite THEN "spawn" ELSE "run"

Pass(t) ==
  /\ pc[t] = "light"
  /\ queue # <<>> /\ MyTurn(t, Head(queue))
  /\ act[t] \notin BadSites
  /\ log' = Append(log, <<tid[t], act[t]>>)
  /\ passed' = Append(passed, lineage[t])
  /\ queue' = PopFront(queue)
  /\ light' = {}
  /\ Goto(t, AfterLight(act[t]))
  /\ UNCHANGED <<semVars, act, reached, tid, childId, newTid, dead, target,
                 ghostVars>>

\* Somebody else's turn: thread::sleep, with the mutex held.
Sleep(t) ==
  /\ pc[t] = "light"
  /\ queue # <<>> /\ ~MyTurn(t, Head(queue))
  /\ Goto(t, "sleep")
  /\ UNCHANGED <<semVars, act, reached, tid, childId, newTid, director, dead,
                 target, ghostVars>>

WakeUp(t) ==
  /\ pc[t] = "sleep"
  /\ Goto(t, "light")
  /\ UNCHANGED <<semVars, act, reached, tid, childId, newTid, director, dead,
                 target, ghostVars>>

\* get_next_act on an empty queue: front().unwrap() panics.
Starve(t) ==
  /\ pc[t] = "light"
  /\ queue = <<>>
  /\ Goto(t, "starved")
  /\ UNCHANGED <<semVars, act, reached, tid, childId, newTid, director, dead,
                 target, ghostVars>>

\* write_log panics on the path before the act is taken off the queue.
BadPath(t) ==
  /\ pc[t] = "light"
  /\ queue # <<>> /\ MyTurn(t, Head(queue))
  /\ act[t] \in BadSites
  /\ Goto(t, "panic")
  /\ UNCHANGED <<semVars, act, reached, tid, childId, newTid, director, dead,
                 target, ghostVars>>

-----------------------------------------------------------------------------
(* _probe_func_, _probe_mutex_, _probe_spawning_ and _probe_spawned_.       *)

\* Threads without the thread-locals run through the probes.
ProbeCall(t, f) ==
  /\ pc[t] = "run"
  /\ Reach(t, f)
  /\ IF t \in Untracked THEN UNCHANGED pc ELSE Goto(t, "arrive")
  /\ UNCHANGED <<semVars, tid, childId, newTid, director, dead, target,
                 ghostVars>>

\* The number given to the next child.  (The mutant does not count.)
SameChild(k) == k
NextChild(k) == k + 1

\* After dec, still under the mutex: set_tid, and on to the light.
SetTid(t) ==
  /\ newTid' = ChildTid(tid[t], childId[t])
  /\ childId' = [childId EXCEPT ![t] = NextChild(@)]
  /\ Goto(t, "arrive")

SpawningDec(t) ==
  /\ pc[t] = "run" /\ t \notin Untracked
  /\ Reach(t, SpawningSite)
  /\ \/ DecPasses(t) /\ SetTid(t)
     \/ DecBlocks(t) /\ Goto(t, "dec") /\ UNCHANGED <<newTid, childId>>
  /\ UNCHANGED <<tid, director, dead, target, ghostVars>>

SpawningRetest(t) ==
  /\ pc[t] = "dec"
  /\ \/ RetestPasses(t) /\ SetTid(t)
     \/ RetestBlocks(t) /\ UNCHANGED <<pc, newTid, childId>>
  /\ UNCHANGED <<act, reached, tid, director, dead, target, ghostVars>>

SpawningSpuriousWake(t) ==
  /\ SpuriousWake(t)
  /\ UNCHANGED <<pc, act, reached, tid, childId, newTid, director, dead,
                 target, ghostVars>>

\* No semaphore, no name and no light for a thread without the thread-locals.
SpawningUntracked(t) ==
  /\ pc[t] = "run" /\ t \in Untracked
  /\ Reach(t, SpawningSite)
  /\ Goto(t, "spawn")
  /\ UNCHANGED <<semVars, tid, childId, newTid, director, dead, target,
                 ghostVars>>

\* thread::spawn after _probe_spawning_ returned.
ThreadSpawn(p, c) ==
  /\ pc[p] = "spawn"
  /\ c \in Thread \ Untracked /\ pc[c] = "unborn"
  /\ pc' = [pc EXCEPT ![p] = "run", ![c] = "born"]
  /\ lineage' = [lineage EXCEPT ![c] = ChildTid(lineage[p], kids[p] + 1)]
  /\ kids' = [kids EXCEPT ![p] = @ + 1]
  /\ UNCHANGED <<semVars, act, reached, tid, childId, newTid, director, dead,
                 target>>

\* A thread nobody announced, if the target has one.
UninstrumentedSpawn(p, c) ==
  /\ None \in DOMAIN body
  /\ pc[p] = "run"
  /\ c \in Untracked /\ pc[c] = "unborn"
  /\ Goto(c, "run")
  /\ UNCHANGED <<semVars, act, reached, tid, childId, newTid, director, dead,
                 target, ghostVars>>

\* What _probe_spawned_ does to the semaphore.  (The mutant forgets the inc.)
NoInc == UNCHANGED semVars
SpawnedInc == Inc

\* get_tid and inc in one critical section, then on to the light.
Spawned(c) ==
  /\ pc[c] = "born"
  /\ tid' = [tid EXCEPT ![c] = newTid]
  /\ SpawnedInc
  /\ act' = [act EXCEPT ![c] = SpawnedSite]
  /\ Goto(c, "arrive")
  /\ UNCHANGED <<reached, childId, newTid, director, dead, target,
                 ghostVars>>

-----------------------------------------------------------------------------
(* The end of threads and of the process.                                   *)

Panics(t) == lineage[t] \in Crashers

\* A thread at the end of its body ends, or panics into process::exit(1); main
\* first joins the tracked threads.
ThreadEnd(t) ==
  /\ pc[t] = "run" /\ ~More(t)
  /\ t = Main =>
       \A u \in Thread \ (Untracked \cup {Main}) : pc[u] \in {"unborn", "done"}
  /\ Goto(t, IF Panics(t) THEN "panic" ELSE IF t = Main THEN "exit" ELSE "done")
  /\ UNCHANGED <<semVars, act, reached, tid, childId, newTid, director, dead,
                 target, ghostVars>>

\* main returned, or the panic hook calls process::exit(1); _final_ is empty.
Die(t) ==
  /\ pc[t] \in {"starved", "panic", "exit"}
  /\ dead' = TRUE
  /\ UNCHANGED <<semVars, pc, act, reached, tid, childId, newTid, director,
                 target, ghostVars>>

-----------------------------------------------------------------------------

Step(t) ==
  \/ Acquire(t)
  \/ Pass(t)
  \/ Sleep(t)
  \/ WakeUp(t)
  \/ Starve(t)
  \/ BadPath(t)
  \/ \E f \in Func : ProbeCall(t, f)
  \/ SpawningDec(t)
  \/ SpawningRetest(t)
  \/ SpawningUntracked(t)
  \/ \E c \in Thread : ThreadSpawn(t, c)
  \/ Spawned(t)
  \/ ThreadEnd(t)
  \/ Die(t)

\* What the target, or the library, may choose to do and may also not.
Choice(t) ==
  \/ \E c \in Thread : UninstrumentedSpawn(t, c)
  \/ SpawningSpuriousWake(t)

\* The process is gone: nothing happens any more.
Gone == dead /\ UNCHANGED vars

Next ==
  \/ ~dead /\ \E t \in Thread : Step(t) \/ Choice(t)
  \/ Gone

Spec == Init /\ [][Next]_vars

\* Every thread keeps being scheduled, and the mutex of the light is granted to
\* somebody whenever it is free and somebody asks.
FairSpec == Spec /\ \A t \in Thread : WF_vars(~dead /\ Step(t))

-----------------------------------------------------------------------------
(* Properties.                                                              *)

\* Types; the mutex of the light is with whoever is between its lock and its
\* release, and with nobody else (probe_ERR.rs:168-181).
Inside == {t \in Thread : pc[t] \in {"light", "sleep", "starved"}}
TypeOK ==
  /\ pc \in [Thread -> PC]
  /\ act \in [Thread -> Site]
  /\ reached \in [Thread -> Nat]
  /\ tid \in [Thread -> Seq(Nat)]
  /\ childId \in [Thread -> Nat]
  /\ newTid \in Seq(Nat)
  /\ light \subseteq Thread
  /\ Inside \subseteq light
  /\ queue \in Seq({EmptyAct} \cup (Seq(Nat) \X Site))
  /\ log \in Seq(Seq(Nat) \X Site)
  /\ dead \in BOOLEAN
  /\ lineage \in [Thread -> Seq(Nat)]
  /\ kids \in [Thread -> Nat]

\* The replayer may take a target for granted whose threads are all announced:
\* the children of a thread without the thread-locals have stale names and
\* return permits nobody took (probe_ERR.rs:100-118, 129-147).
AllAnnounced == None \notin DOMAIN body

\* From dec to inc, across the traffic light of the spawning probe, only one
\* spawn is under way (probe_ERR.rs:105-126, 131-147).
Window ==
  {t \in Thread \ Untracked :
     \/ pc[t] \in {"spawn", "born"}
     \/ act[t] = SpawningSite /\ pc[t] \in {"arrive", "light", "sleep"}}
OneSpawnInFlight == AllAnnounced => Cardinality(Window) <= 1

\* "semaphore used to keep track of parent-child thread relationship"
\* (probe_ERR.rs:17): replay names threads as the recorder does, by their place
\* in the spawn tree (probe_ERR.rs:112-113, 136-138).
Naming == INSTANCE ThreadNaming WITH
            lineage <- lineage, kids <- kids, tid <- tid
NamesByLineage ==
  /\ Naming!NamingInit
  /\ [][AllAnnounced => Naming!NamingNext]_(Naming!namingVars)

\* What passed the light is always the beginning of the scenario, whatever
\* threads arrive and in whatever order (probe_ERR.rs:168-181).
PassesInTurn == log = SubSeq(scenario, 1, Len(log)) /\ Len(log) <= Len(scenario)

\* And each act was passed by the very thread the scenario means
\* (probe_ERR.rs:112, 137, 164).
PassersAreMeant ==
  AllAnnounced => \A i \in DOMAIN log : passed[i] = log[i][1]

\* Only a target that outruns the scenario is killed for want of a next act,
\* never one that still has acts to replay (probe_ERR.rs:234-237, 249).
StarvesOnlyAtTheEnd ==
  (\E t \in Thread : pc[t] = "starved") => log = scenario

\* "mutex and scenario to sequentially execute threads" (probe_ERR.rs:19):
\* a replay gets through its scenario, and the process ends.
ReplayCompletes == <>(dead /\ log = scenario)

\* It does if a spawn is the last thing a thread does: then no two threads are
\* at their probes at once, and none arrives before its turn
\* (probe_ERR.rs:168-181, 105-117, 140-146).
OneAtATime ==
  \A place \in DOMAIN body : \A i \in DOMAIN body[place] :
    body[place][i] = SpawningSite => i = Len(body[place])
SequentialReplays == OneAtATime /\ AllAnnounced => <>(log = scenario)
=============================================================================
