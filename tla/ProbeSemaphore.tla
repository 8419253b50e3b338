--------------------------- MODULE ProbeSemaphore ---------------------------
(***************************************************************************)
(* The counting semaphore of the probes: an integer behind a mutex, and a   *)
(* condition variable (probe_RSE.rs, _ProbeSemaphore).  probe_ERR.rs spells *)
(* out the same two critical sections around _ProbeSpawnSema.               *)
(*                                                                         *)
(* A spawning parent calls dec, and the child it created calls inc: no      *)
(* thread owns the permit, so permits are only counted here.  The mutex is  *)
(* held from the first to the last access of a critical section and nothing *)
(* else is touched inside, hence each critical section is one step.         *)
(***************************************************************************)
EXTENDS Integers, FiniteSets

CONSTANTS
  Thread,   \* the threads that may call the semaphore
  Permits   \* the argument of _ProbeSemaphore::new

ASSUME PermitsAssumption == Permits \in Nat \ {0}
ASSUME ThreadAssumption  == IsFiniteSet(Thread)

VARIABLES
  count,    \* the integer behind the mutex
  asleep,   \* threads blocked in cvar.wait
  awake,    \* threads woken from cvar.wait that have not re-read count yet
  granted   \* history: calls of dec that returned and have no inc yet

semVars == <<count, asleep, awake, granted>>

\* The threads inside dec's loop, blocked or about to test again.
Waiting == asleep \cup awake

SemInit ==
  /\ count = Permits
  /\ asleep = {}
  /\ awake = {}
  /\ granted = 0

-----------------------------------------------------------------------------

\* dec: while *lock < 0.  (The mutant tests the value before the decrement.)
PassesOneTooMany(n) == n + 1 >= 0
Passes(n) == n >= 0

\* inc: if *lock <= 0.  (The mutant forgets the last waiter.)
NotifiesBelowZero(n) == n < 0
Notifies(n) == n <= 0

\* dec, first pass: count is decremented and tested once.
DecPasses(t) ==
  /\ t \notin Waiting
  /\ Passes(count - 1)
  /\ count' = count - 1
  /\ granted' = granted + 1
  /\ UNCHANGED <<asleep, awake>>

DecBlocks(t) ==
  /\ t \notin Waiting
  /\ ~Passes(count - 1)
  /\ count' = count - 1
  /\ asleep' = asleep \cup {t}
  /\ UNCHANGED <<awake, granted>>

\* dec, a later pass: cvar.wait returned with the mutex, count is read again.
RetestPasses(t) ==
  /\ t \in awake
  /\ Passes(count)
  /\ awake' = awake \ {t}
  /\ granted' = granted + 1
  /\ UNCHANGED <<count, asleep>>

\* (The mutant decrements on every turn of the loop.)
RetestDecrements(t) ==
  /\ t \in awake
  /\ ~Passes(count)
  /\ awake' = awake \ {t}
  /\ asleep' = asleep \cup {t}
  /\ count' = count - 1
  /\ UNCHANGED granted

RetestBlocks(t) ==
  /\ t \in awake
  /\ ~Passes(count)
  /\ awake' = awake \ {t}
  /\ asleep' = asleep \cup {t}
  /\ UNCHANGED <<count, granted>>

\* cvar.notify_one: the library picks which blocked thread returns, if any.
NotifyOne ==
  \/ \E w \in asleep : asleep' = asleep \ {w} /\ awake' = awake \cup {w}
  \/ asleep = {} /\ UNCHANGED <<asleep, awake>>

\* inc.  Nothing in it asks for a permit to return.
Inc ==
  /\ count' = count + 1
  /\ granted' = granted - 1
  /\ IF Notifies(count + 1) THEN NotifyOne ELSE UNCHANGED <<asleep, awake>>

\* Condvar::wait may return without a notification.
SpuriousWake(t) ==
  /\ t \in asleep
  /\ asleep' = asleep \ {t}
  /\ awake' = awake \cup {t}
  /\ UNCHANGED <<count, granted>>

\* Used as intended: inc only returns a permit that dec granted.
SemNext ==
  \/ \E t \in Thread : \/ DecPasses(t)
                       \/ DecBlocks(t)
                       \/ RetestPasses(t)
                       \/ RetestBlocks(t)
                       \/ SpuriousWake(t)
  \/ granted > 0 /\ Inc

SemSpec == SemInit /\ [][SemNext]_semVars

-----------------------------------------------------------------------------

\* Types: threads sleep and wake within Thread, nobody does both, and count
\* never exceeds the initial permits (probe_RSE.rs:269-288).
SemTypeOK ==
  /\ count \in Int
  /\ count <= Permits
  /\ asleep \subseteq Thread
  /\ awake \subseteq Thread
  /\ asleep \cap awake = {}
  /\ granted \in Nat

\* "allow only 1 thread" (probe_RSE.rs:50): whatever the order of dec, inc,
\* notifications and spurious wakeups, no more than Permits calls of dec have
\* returned without their inc.
AtMostPermits == granted <= Permits

\* count pays for every granted permit and for every thread in dec's loop:
\* dec subtracts before it waits and never adds back, so a blocked thread
\* still counts (probe_RSE.rs:277-280).
CountPaysWaiters == count = Permits - granted - Cardinality(Waiting)

\* A blocked thread is never left behind by inc while permits are all back and
\* it is the only one in the loop: the notification found it, or it is already
\* awake (probe_RSE.rs:285-287).
LoneWaiterIsWoken ==
  \A t \in Thread : granted = 0 /\ Waiting = {t} => t \in awake /\ count >= 0
=============================================================================
