---------------------------- MODULE RecordReplay ----------------------------
(***************************************************************************)
(* Record and replay composed on the programs of .toy_bugs: a run under the *)
(* recorder that ends in a panic, and the replay (ProbeERR) of the tape it  *)
(* left.  A probe stands in front of each Mutex::lock; the lock itself      *)
(* comes after the probe returned, and that gap is what this module adds.   *)
(* A probe stands in front of the drop of a guard only if the pass knows    *)
(* the name of that drop, which depends on the type under the mutex: it     *)
(* does not know those of .toy_bugs, whose unlocks go unprobed.  Func, the  *)
(* sites with a probe, says which of the two a target is.                   *)
(***************************************************************************)
EXTENDS ProbeERR

VARIABLES
  phase,    \* "record" or "replay"
  tape,     \* what the recorder wrote: the file "log", later "scenario"
  world,    \* the target's own state, see NewWorld
  recorded  \* history: the world at the end of the recorded run

rrVars == <<vars, phase, tape, world, recorded>>

Nobody == <<>>

-----------------------------------------------------------------------------
(* The targets.                                                             *)

Locking == {"check", "take", "put", "get"}
Unlocking == {"checked", "taken", "done1", "done2"}
Operations == Locking \cup Unlocking

\* The drop of the guard that a lock gave.
UnlockOf ==
  [s \in Locking |-> CASE s = "check" -> "checked" [] s = "take" -> "taken"
                       [] s = "put" -> "done1" [] s = "get" -> "done2"]

\* Does the pass know the drop of this target's guards?  It compares the name of
\* the callee, and expects drop_in_place and its type to be 65 or 115 characters
\* of it: with MutexGuard<app::Job> they are 65, but with MutexGuard<Option<i32>>
\* and MutexGuard<read_none::Shared> 88 and 74.  (The mutant is the pass on
\* .toy_bugs.)
GuardUnknown == FALSE
GuardSeen == Unlocking \subseteq Func

Child(k) == <<1, k>>
Places == {MainTid, Child(1), Child(2)}
SpawnsTwo == <<SpawningSite, SpawningSite>>

\* race_btw_func.rs: each child takes the lock to check, and again to take.
Thrd == IF GuardSeen THEN <<"check", "checked", "take", "taken">>
        ELSE <<"check", "take">>
RaceBtwFunc ==
  [place \in Places |-> IF place = MainTid THEN SpawnsTwo ELSE Thrd]

\* read_none.rs: one child puts the value that the other expects.
Thrd1 == IF GuardSeen THEN <<"put", "done1">> ELSE <<"put">>
Thrd2 == IF GuardSeen THEN <<"get", "done2">> ELSE <<"get">>
ReadNone ==
  [place \in Places |->
     CASE place = MainTid  -> SpawnsTwo
       [] place = Child(1) -> Thrd1
       [] place = Child(2) -> Thrd2]

Toys == {RaceBtwFunc, ReadNone}
NoScenario(b) == {<<>>}

\* owes: each place with the site whose operation its thread does next.
\* holder: who has the lock, and the site it was taken at.  quits: the places
\* whose check found None.  sections: history of the critical sections
\* completed, each with the data it left.  locks: history of the locks taken.
NewWorld(b) ==
  [owes     |-> {},
   holder   |-> Nobody,
   isSome   |-> b = RaceBtwFunc,
   quits    |-> {},
   crashed  |-> Nobody,
   sections |-> <<>>,
   locks    |-> <<>>]

Idle(place) == \A s \in Operations : <<place, s>> \notin world.owes
Owes(place, s) == [world EXCEPT !.owes = @ \cup {<<place, s>>}]

\* What an operation leaves in the shared Option, and what panics on a None.
Leaves(s, isSome) == s = "put" \/ (isSome /\ s # "take")
Unwraps == {"take", "get"}
UnwrapsNone(s) == s \in Unwraps /\ ~world.isSome

\* Without a probe of its own, the drop of the guard is just what comes next.
OwesNext(place, s) ==
  IF GuardSeen \/ s \notin Locking \/ UnwrapsNone(s) THEN {}
  ELSE {<<place, UnlockOf[s]>>}

\* The operation a thread owes: lock and use the data, or drop the guard.
Operate(place, s) ==
  /\ <<place, s>> \in world.owes
  /\ s \in Locking => world.holder = Nobody
  /\ world' =
       [owes     |-> (world.owes \ {<<place, s>>}) \cup OwesNext(place, s),
        holder   |-> IF s \in Locking THEN <<place, s>> ELSE Nobody,
        isSome   |-> Leaves(s, world.isSome),
        quits    |-> world.quits \cup
                       {p \in {place} : s = "check" /\ ~world.isSome},
        crashed  |-> IF UnwrapsNone(s) THEN place ELSE world.crashed,
        sections |-> IF s \in Locking THEN world.sections
                     ELSE Append(world.sections, <<place, s, world.isSome>>),
        locks    |-> IF s \in Locking THEN Append(world.locks, <<place, s>>)
                     ELSE world.locks]

\* The else branch of race_btw_func's thrd drops the guard and returns.
Returns(place, s) == s = "checked" /\ place \in world.quits

-----------------------------------------------------------------------------
(* The recorded run.                                                        *)

\* The process lives on for a while after the panic, without its thread.
Record(place) ==
  /\ phase = "record"
  /\ place # world.crashed
  /\ Idle(place)
  /\ MayFollow(body, tape, place)
  /\ LET a == NextAct(body, tape, place) IN
     /\ place \in world.quits => a[2] = "checked"
     /\ tape' = Append(tape, a)
     /\ world' = IF a[2] \in Operations THEN Owes(place, a[2]) ELSE world
  /\ UNCHANGED <<vars, phase, recorded>>

RecordedOperation(place, s) ==
  /\ phase = "record"
  /\ Operate(place, s)
  /\ UNCHANGED <<vars, phase, tape, recorded>>

\* The run failed: run_random.sh makes its log the scenario (no newline is
\* added) and starts the replay.
HandOver ==
  /\ phase = "record"
  /\ world.crashed # Nobody
  /\ phase' = "replay"
  /\ scenario' = tape
  /\ queue' = QueueOf(tape, FALSE)
  /\ recorded' = world
  /\ world' = NewWorld(body)
  /\ UNCHANGED <<semVars, body, pc, act, reached, tid, childId, newTid, light,
                 log, passed, dead, ghostVars, tape>>

-----------------------------------------------------------------------------
(* The replay.                                                              *)

\* A thread that owes nothing goes on to its next step under the replayer.
\* Once it passed the light of an operation, it owes the operation.
ReplayProbe(t) ==
  /\ phase = "replay" /\ ~dead
  /\ pc[t] # "unborn" /\ Idle(lineage[t])
  /\ Step(t)
  /\ world' = IF log' # log /\ act[t] \in Operations
              THEN Owes(lineage[t], act[t]) ELSE world
  /\ UNCHANGED <<phase, tape, recorded>>

ReplayOperation(t, s) ==
  /\ phase = "replay" /\ ~dead
  /\ pc[t] = "run" /\ Operate(lineage[t], s)
  /\ Goto(t, IF world'.crashed = lineage[t] THEN "panic" ELSE "run")
  /\ reached' = IF Returns(lineage[t], s)
                THEN [reached EXCEPT ![t] = Len(body[lineage[t]])] ELSE reached
  /\ UNCHANGED <<semVars, body, act, tid, childId, newTid, director, dead,
                 scenario, ghostVars, phase, tape, recorded>>

-----------------------------------------------------------------------------

RRInit ==
  /\ Init /\ queue = <<EmptyAct>>
  /\ phase = "record"
  /\ tape = <<>>
  /\ world = NewWorld(body)
  /\ recorded = world

\* The recorded run passed: nothing to replay.  Or the replay is over.
AllOver ==
  /\ \/ dead
     \/ /\ phase = "record" /\ world.crashed = Nobody
        /\ \A place \in DOMAIN body :
             /\ Idle(place)
             /\ place \in world.quits \/ ~MayFollow(body, tape, place)
  /\ UNCHANGED rrVars

RRNext ==
  \/ \E place \in DOMAIN body :
       Record(place) \/ \E s \in Operations : RecordedOperation(place, s)
  \/ HandOver
  \/ \E t \in Thread :
       ReplayProbe(t) \/ \E s \in Operations : ReplayOperation(t, s)
  \/ AllOver

RRSpec == RRInit /\ [][RRNext]_rrVars

-----------------------------------------------------------------------------
(* Properties.                                                              *)

\* If the pass knows the drop of the guards (custom_pass.cpp:242-249), the
\* critical sections a replay completes are those of the recorded run, in its
\* order, and leave the same data behind: the probe in front of a drop is passed
\* by the thread that holds the lock, in recorded order (probe_ERR.rs:168-181).
\* Nothing of the kind holds of .toy_bugs as the pass instruments them.
Begins(s, t) == Len(s) <= Len(t) /\ s = SubSeq(t, 1, Len(s))
SectionsAlike ==
  phase = "replay" => Begins(world.sections, recorded.sections)

\* Under the same condition a replay of these two programs that fails shows the
\* failure of the recorded run: the same thread panics, after the same sections
\* (race_btw_func.rs:6-22, read_none.rs:15-25).
PanicsAlike ==
  phase = "replay" /\ world.crashed # Nobody =>
    /\ world.crashed = recorded.crashed
    /\ world.sections = recorded.sections

\* "mutex and scenario to sequentially execute threads" (probe_ERR.rs:19): the
\* threads of a replay take the target's lock in the recorded order.
LocksInRecordedOrder ==
  phase = "replay" => Begins(world.locks, recorded.locks)
=============================================================================
