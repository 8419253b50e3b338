# dynamic-threading: verification project

dynamic-threading looks for concurrency bugs in Rust programs. An LLVM pass
plants calls to *probes* in the target. Linked with the recorder
(`probe/probe_RSE.rs`), the target runs again and again with random sleeps until
it fails; the recorder writes the order in which probes ran (the *scenario*) and
what each thread did (the *structure*). Linked with the replayer
(`probe/probe_ERR.rs`), the target runs once more, and a *traffic light* in every
probe lets the threads pass in the recorded order only.

The TLA+ modules here model the pass and the build loop, the recorder, the
replayer, their spawn semaphore, the naming of threads both rest on, the
normalisation of paths both contain, the script that runs a campaign, and record
and replay composed on the repository's two example targets. TLC checks them on
small instances (`.cfg` files); TLAPS proves the results named below for every
instance.

## 1. Inventory

| component | source | state | operations | module |
|---|---|---|---|---|
| recorder probes | `probe/probe_RSE.rs` | `_PROBE_FP` (file `log`), `_PROBE_NEW_THREAD_ID`, `_PROBE_THRD_EXE` (file `struct`), thread-locals `TID`, `CHILD_ID`, `EXE_NODE_ID` | `_init_`, `_probe_mutex_`, `_probe_func_`, `_probe_spawning_`, `_probe_spawned_`, `_final_`, panic hook | `ProbeRSE` |
| spawn semaphore | `probe_RSE.rs:263-289`; written out in `probe_ERR.rs:105-118, 131-147` | integer behind a mutex, condition variable | `dec`, `inc` | `ProbeSemaphore` |
| thread naming | the spawn probes of both | the names and child numbers above | create, name | `ThreadNaming`, `Tids` |
| path normalisation | `probe_RSE.rs:199-209`, `probe_ERR.rs:254-269` | the vector and the index of a loop | one turn of the loop | `PathNorm` |
| replay probes | `probe/probe_ERR.rs` | `_ReplayDirector` (queue, file `log`), `_ProbeSpawnSema`, thread-locals `_TID`, `_CHILD_ID`, `_SPAWN_SEM`, `_SCENARIO` | `_init_`, `_probe_thread_init_`, the four probes, `__traffic_light`, panic hook | `ProbeERR` |
| pass and build loop | `opt_pass/custom_pass.cpp`, `build.sh` | `func_num` of the running `opt`; files `func_num_rse`, `func_num_tle`, `function_number_ind`; the output files | recognition, `initialize_*`, `run`, `insert_*`, the loop over `.ll` files | `OptPass` |
| random-run campaign | `run_random.sh` | files `log`, `struct`, `SC0`, `prog_struct`, the replay's `log`; `RCNT`, `ARR_IND` | one run, its clean-up or its hand-over, the replay | `Campaign` |
| random sleep, privileged thread | `__random_sleep`, `run_random.sh:19-28` | `ARR_IND` | whose turn it is | `Campaign`; the sleep is an interleaving of `ProbeRSE` |
| example targets | `.toy_bugs/` | a mutex and the `Option` in it | lock, check, take, put, panic | `RecordReplay` |
| combined probe in progress | `probe/probe_RSR.rs` | - | - | not modelled |
| vendored headers, old scripts | `include/`, `.scripts/` | - | - | not modelled |

**How they interact.** The pass gives each probe site its `func_num`; the two
builds must agree on it. At run time the pass's calls are the only link between
the target and a probe, so a thread the pass half recognises runs half of a
conversation. The threads of the target share a probe's statics. A spawn is a
conversation of two threads: the parent takes the permit (`dec`), leaves the
child's name in shared state, and returns to the target, which creates the
thread; the child reads the name and returns the permit (`inc`). The recorder
hands the files `log` and `struct` to `run_random.sh`, which makes the first the
replayer's `scenario`.

**What is hard here.**

- The permit belongs to no thread. It is the only protection of
  `_PROBE_NEW_THREAD_ID`, a `static mut` without a lock.
- The recorder's probes are not atomic: each is two to four critical sections
  under different mutexes. The scenario and the structure order events
  differently.
- Any thread may end the process at any moment, through a panic of the target or
  of a probe, and `_final_` then runs while the others go on.
- Threads exist that the pass does not know of, or knows at one end only.
- The replayer sleeps inside a critical section, waits at the light with the
  spawn permit held, and is done with an act before the target is.
- `opt` is a process per file and may crash in the middle; numbers survive in
  files.
- Files survive too: `log` is opened without truncation, the presence of `struct`
  switches structure recording off, and a campaign may be stopped anywhere.
- `usize` arithmetic is checked: `build.sh:34-35` compiles the probes without
  optimisation, so an index that would go below zero panics.

**What makes each part correct.**

- semaphore: no more grants than permits; a waiter is not forgotten; somebody may
  go when nobody is under way (this one fails, see `rse_wedge`).
- naming: a thread's name is its place in the spawn tree, hence its own.
- recorder: spawns do not overlap; read by name, scenario and structure each give
  back every thread's program order; a child acts in the scenario only after the
  spawning that creates it; the dump agrees with the scenario; a lone exit is
  dumped completely; permits come back.
- replayer: acts pass in the recorded order, each by the thread the scenario
  means; only a target that outruns the scenario is killed; the replay gets
  through (this one fails, see `err_wedge`).
- record and replay together: locks are taken in the recorded order (this one
  fails, see `toy_order`); where unlocks are probed too, a replay's critical
  sections are the recorded ones, and a panic in it is the recorded panic.
- normalisation: the result is the resolved path; the index stays inside; the
  panic strikes exactly the paths one would name.
- pass: both builds number alike; a number stands for one site and can be looked
  up.
- campaign: what is replayed is the failing run's record; every listed thread has
  its turn.

## 2. Modules

`ProbeSemaphore` and `Tids` are extended by both probes. `ThreadNaming` is the
abstract specification of the spawn probes; both probes instantiate it with the
history variables `lineage` and `kids` (and their own `tid`) and state
`NamesByLineage`, the refinement. `RecordReplay` extends `ProbeERR`. `MC*` modules
hold what only TLC needs: symmetry, small targets, and the recordings of a target.
`*Proofs` modules hold the theorems of the module they are named after; `Recursion`
holds the lemmas by which they reason about recursive functions. No module
declares a RECURSIVE operator; recursion is by functions. The theorems about
`RecordReplay` rest on those about the replayer and close `ProbeERRProofs`.

**`ProbeSemaphore`** (`probe_RSE.rs:263-289`). A critical section is one action:
the mutex is held from its first access to its last, and nothing else is touched
inside. `dec` splits where `cvar.wait` releases the mutex: `DecPasses`/`DecBlocks`
for the first pass, `RetestPasses`/`RetestBlocks` for each later one. `asleep`
holds blocked threads, `awake` those that returned from `wait` and have not read
the count again. `NotifyOne` leaves the choice of the waiter to the library, and
`SpuriousWake` is the wakeup the standard library allows itself. `Inc` asks for
nothing, as in the code. `granted` is a history variable.

**`Tids`, `ThreadNaming`.** The string `1.2.1` is the sequence `<<1, 2, 1>>`,
`"none"` is `<<0>>`; `format!("{}.{}", parent, k)` is `Append`. Printing distinct
sequences of numbers gives distinct strings. The child counter is an `i32`; no
run gets near its end.

**`ProbeRSE`** (`probe_RSE.rs`). `pc[t]` names the critical section thread `t`
runs next: for a spawn `dec`, `recordSpawning`, `name`, `noteSpawning`, `spawn` in
the parent and `born`, `inc`, `recordSpawned`, `open`, `noteSpawned` in the child.
`RecordScenario` and `RecordStructure` are the two helpers, shared by all probes as
in the code. A site is a value; the fields a node prints besides name and number
(line, address of the lock, path) are left out. `BadSites` are the sites whose path
makes the normalisation panic: that panic is `Exit`. `recording` is chosen in
`Init` (whether `_init_` found a file `struct`). `Exit`, `RunHandlers`, `Final` and
`Die` follow `exit(3)`: a handler is taken off the list before it runs, so a second
thread in `exit` goes on to end the process. The target is arbitrary: a thread in
`run` may reach any site, spawn, end, panic or (main) return.

The pass plants the two ends of a spawn by different tests, so four kinds of
thread exist besides main: announced by the parent and aware of it (the ordinary
one); `Untracked`, neither; `Silent`, announced by the parent, its closure not
known by name, so that `_probe_spawned_` may not run in it (`FirstSteps`);
`Unannounced`, created by a plain call of `thread::spawn`, its closure known, so
that `_probe_spawned_` runs without a parent's `_probe_spawning_`.

**`ProbeERR`** (`probe_ERR.rs`). Here the target is a program, since what a replay
does depends on what was recorded of *this* target: the variable `body`, chosen
from `Bodies`, maps a place in the spawn tree to the sites its thread reaches.
`__traffic_light` is `Acquire` (lock), then `Pass`, `Sleep`/`WakeUp` (the sleep
with the lock held, then the test again), `Starve` (the `unwrap` of an empty queue)
or `BadPath` (`write_log` panics). `_ReplayDirector::new` is `QueueOf`: after the
recorder's last `+` an empty act is left unless the file was given a newline. A
thread without the thread-locals (`Untracked`) runs through its probes, and its
instrumented children still take a name and return a permit; `AllAnnounced` is a
target without such threads. `ActsOf`, `MayFollow` and `NextAct` say what the
recorder writes of a target; `MCProbeERR` and `RecordReplay` build recordings from
them. The file `scenario` exists; without it `_init_` ends the process before
anything happens.

**`RecordReplay`** (`.toy_bugs/race_btw_func.rs`, `.toy_bugs/read_none.rs`). A run
of a toy under the recorder, the hand-over if it fails, and the replay, each with
the target's lock and data (`world`). `Operate` is what the target does after a
probe returned: take the lock and check, take or put the value, or drop the guard.
Between the two the thread *owes* the operation (`world.owes`).

Whether an unlock has a probe depends on the type under the mutex. The pass compares
the callee with the mangled name of a guard's drop, and the length in that name must
be 65 or 115 (`custom_pass.cpp:242-249, 264-271`). For `.toy_bugs` it is 88
(`MutexGuard<Option<i32>>`) and 74 (`MutexGuard<read_none::Shared>`): **their unlocks
are not probed.** With a type named by eight characters, such as `app::Job` (mangled
`app..Job`), it is 65. `Func`, the sites with a probe, says which it is
(`GuardSeen`): with the unlock sites in it the programs go through a probe before
each drop; without them, as in `.toy_bugs`, the drop is simply what the thread owes
after what it did under the lock (`OwesNext`).

`holder` is who has the lock and from which site; `quits` are the children that
found the value gone and return. `sections`, the critical sections completed with
the data each left, and `locks`, the order in which the lock was taken, are
histories. In the recorded phase a probe is one line of `tape` (`ProbeRSE` has its
insides); in the replay `ReplayProbe` is any step of `ProbeERR`. After a panic the recorded process may go on for a while,
as it does until `exit`.

**`PathNorm`** (`probe_RSE.rs:199-209`, `probe_ERR.rs:254-269`; the two loops are
the same). One action per turn of the loop. `i = 0` panics at `i - 1`, `i = 1` at
`i -= 2`: both are `Overflow`. `Resolved` is the reference: components pushed and
popped on a stack.

**`OptPass`** (`custom_pass.cpp`, `build.sh:27-32`). A target is a sequence of
files of functions of instructions: a call or an invoke, its callee, whether it has
a debug location. `CallProbes` and `InvokeProbes` are the two chains of
comparisons, which differ: a call of `thread::spawn` gets no probe, an invoke does.
`Start` is `initialize_*`, `Insert` any `insert_*`, `Skip` an instruction no branch
applies to, `EndFunction` the writing of the number, `WriteModule` opt's output.
`InsertInvokeLock` is the `insert_lock` of an `InvokeInst`, whose
`getNextNonDebugInstruction` is null because an invoke ends its block: opt crashes
after the row was written (`custom_pass.cpp:143-167`).

**`Campaign`** (`run_random.sh`). One action per statement that touches a file or a
counter. Of a file only the writer matters: the latest run (`"now"`) or an earlier
one (`"old"`). `Written` is a file opened without truncation. `Run` ends in success
or in failure, and perhaps without the file `_final_` writes (`cutShort`): a signal
ended it, or a second thread in `exit` ended the process while the first had just
taken the handler (`RunHandlers` of `ProbeRSE`); `Interrupt` stops the
script at any statement; `StartCampaign` is the next call of the script in the same
directory, `Rebuild` a `build.sh` in between.

## 3. Runs

| run | module, cfg | question |
|---|---|---|
| `path` | `PathNorm`, `PathNorm` | Every path of up to six components: result, panics, index, termination. |
| `rse_core` | `ProbeRSE`, `ProbeRSE_core` | Main and a child that both spawn, one child perhaps silent: `OneSpawnInFlight`, `UniqueTids`, program order in scenario and structure, `SpawningPrecedesChild`, the refinement of `ThreadNaming`, the semaphore's properties inside the recorder, and, under fairness, `PermitComesBack` and `SpawnerGetsIn`. |
| `rse_exit` | `ProbeRSE`, `ProbeRSE_exit` | Exits, a panicking site and an untracked thread: `DumpAgreesWithScenario`, `LoneExitIsDumped`. |
| `rse_wedge` | `MCProbeRSE`, `ProbeRSE_wedge` | Two spawners. `SomeSpawnerAllowed` is **violated**. |
| `rse_nameless` | `ProbeRSE`, `ProbeRSE_nameless` | Two untracked threads that spawn. `UniqueTids` is **violated**. |
| `rse_unannounced` | `ProbeRSE`, `ProbeRSE_unannounced` | A spawned probe without a spawning probe. `UniqueTids` is **violated**. |
| `err_toy` | `MCProbeERR`, `ProbeERR_toy` | Three targets (side by side with a bad path, one after the other with a panic at the end, an untracked thread that spawns) and every recording of a run cut anywhere: `PassesInTurn`, `PassersAreMeant`, `StarvesOnlyAtTheEnd`, `OneSpawnInFlight`, `NamesByLineage`, `SequentialReplays`. |
| `err_wedge` | `MCProbeERR`, `ProbeERR_wedge` | Main and two threads that run side by side: `ReplayCompletes` is **violated**. |
| `pass` | `MCOptPass`, `OptPass` | Every target of three small files: `BuildsAgree`, `NumbersIdentify`, `LastRowNamesSite`. |
| `campaign` | `Campaign`, `Campaign` | Campaign after campaign, interrupted anywhere: `StaleActsFollow`, `HandsOverTheFailure`, `WholeTurns`, `EveryoneGetsTurns`. |
| `guarded` | `RecordReplay`, `RecordReplay` | The toys' programs over a type whose guard's drop the pass knows, every failing run, every replay of it: `SectionsAlike`, `PanicsAlike`. |
| `toy_order` | `RecordReplay`, `RecordReplay_order` | The toys as the pass instruments them, locks probed and unlocks not: `LocksInRecordedOrder` is **violated**. |

Deadlock is checked in every run: a model stops only in `Gone`, `AllOver`, `Built`
or the like, which stand for a process that has ended.

### What the violations show

- `rse_wedge`: `dec` subtracts before it waits, and a waiting thread stays
  subtracted. With two waiters `count` is -1 after the permit is back, the thread
  `inc` wakes reads a negative number and sleeps again, and nobody may spawn any
  more. One waiter is served (`SpawnerGetsIn`, `LoneWaiterIsWoken`). The targets in
  `.toy_bugs` have one spawner and do not meet it.
- `rse_nameless`: untracked threads are all called `"none"` and each numbers its
  children from 1; two first children are both `"none.1"`.
- `rse_unannounced`: the child of a plain call of `thread::spawn` takes the name of
  the child announced last, and returns a permit nobody took.
- `err_wedge`: `__traffic_light` sleeps with the mutex of the scenario held
  (`cvar.wait` is commented out, `probe_ERR.rs:174`). A thread that arrives before
  its turn keeps out the one whose turn it is. Replay works when threads reach
  their probes in the recorded order anyhow, which the 1000 ms sleeps make likely
  and nothing makes certain; `SequentialReplays` is the case where it is certain.
- `toy_order`: the light is passed before the target's own operation. Two threads
  let through in order may take the lock in the other order. On the toys nothing
  stops the wrong thread then: its critical section completes out of order, and in
  race_btw_func the other child may be the one that panics. `SectionsAlike` and
  `PanicsAlike` are false of the toys; what breaks them in `guarded` is the mutant
  `GuardUnknown`, which is the toys' case. They hold where the pass knows the drop
  of the guard (`guarded`): the probe of the *drop* is passed with the lock held, so
  the wrong thread cannot get past its next light, and the replay stops rather than
  shows another failure. The special case for `"1.1-19"`
  (`probe_ERR.rs:184-186`), a sleep after the light of one act of one target, is a
  workaround for this gap.

### Bounds

- Threads. Names, windows and program order are about pairs: a parent and its
  child, or two spawns. Three threads (`rse_core`) give a child that spawns, a
  parent that spawns while its last child still holds the permit, and a
  grandchild. The semaphore is checked there, inside the recorder; its own theorems
  and `RecorderUsesSemaphore` hold for any number of threads. `rse_wedge` has five
  threads so that two spawners may wait together with threads left to create for
  both.
- `MaxActs` (in `ProbeCall`): generic probes of all threads together (`Generic`).
  One is enough to interleave with every step of a spawn, and a thread reaches spawn
  probes besides; `rse_exit`, whose properties are about probes and exits, has three.
- `ThreadLeft` (in `SpawningDec`): a thread spawns only if the model has a thread
  left to create, so no run ends in a spawn that cannot happen.
- `MaxLen = 6`, two names and `..`: two collapses in a row, one inside another, and
  each kind of panic fit in six components.
- Recordings (`MCProbeERR`): all sequences the recorder may write of the target,
  computed from its program: each place's acts in order, and a child's after the
  spawning that creates it - the two facts `ScenarioKeepsProgramOrder` and
  `SpawningPrecedesChild` state of the recorder. `CutRecordings` adds every prefix:
  a recorded run ends in a panic somewhere.
- `SmallPrograms`: three files; the first of up to two functions of up to two
  instructions, the later ones of one function of up to one; five kinds of
  instruction, recognised, not recognised and crashing ones among them. A crash
  before, between and after sites, in a first and a second function, is followed by
  files that count on.
- `Campaign`: the 15 names and the wrap at 19 are the script's; the 300 runs of a
  turn are scaled to 3, and a run has up to 3 acts, so that a run may be shorter than
  the one before by one or more. The number of campaigns is unbounded.
- `RecordReplay`: the two toys' programs whole, with main, two children and every
  act, with probed unlocks (`guarded`) and without (`toy_order`).
- `Symmetry` (`MCProbeRSE`) permutes threads that play the same part; it is used by
  `rse_wedge` only, whose property is an invariant that names no thread.

### Fairness

`FairSpec` of `ProbeRSE` assumes weak fairness of each thread's `ProbeStep`: a
thread inside a probe, inside `thread::spawn` or inside `exit` keeps being
scheduled. It assumes nothing of the target, which may never reach another site,
nor of spurious wakeups. What the code cannot promise is in the properties: a
silent child keeps the permit for good (`PermitKept`), and `SpawnerGetsIn` says
nothing once two threads wait (`Waiting # {t}`), which is `rse_wedge`. `FairSpec`
of `ProbeERR` assumes weak fairness of each thread's `Step`: the target is a
program there, and a scheduled thread goes on with it. In neither is a mutex
promised to a *particular* thread. `PathNorm`'s is the one thread running its loop.
`Campaign`'s is that the shell goes on and that a run of the target ends;
`EveryoneGetsTurns` asks for more in its premise, a campaign without end.

The counterexample of `rse_wedge` is to an invariant and needs no fairness. That of
`err_wedge` is under `FairSpec`: `Sleep` and `WakeUp` go round for ever, and no
other thread's `Step` is enabled while the mutex is held.

## 4. Theorems

`tlapm` checks every one of them from the modules' assumptions, which TLC evaluates
on the runs.

| theorem | says |
|---|---|
| `ProbeSemaphoreProofs!PermitsBoundGrants`, `CountIsExact` | for any finite `Thread` and any positive `Permits` |
| `ProbeSemaphoreProofs!LoneWaiterWakes` | for `Permits = 1`, any finite `Thread` |
| `ThreadNamingProofs!NamesAreUnique` | any set of threads; no assumption at all |
| `ProbeRSEProofs!RecorderUsesSemaphore` | the recorder implements `ProbeSemaphore` |
| `ProbeRSEProofs!RecorderKeepsPermit`, `RecorderWakesLoneWaiter` | `AtMostPermits` and `CountPaysWaiters`; `LoneWaiterIsWoken` |
| `ProbeRSEProofs!SpawnsAreExclusive` | `OneSpawnInFlight` for any threads, spawners, sites and bounds |
| `ProbeRSEProofs!TypeCorrect` | `TypeOK`; `exeNode[t]` indexes an open group |
| `ProbeRSEProofs!RecorderNamesByLineage` | the recorder refines `ThreadNaming` |
| `ProbeRSEProofs!RecordedNamesAreUnique` | `UniqueTids` |
| `ProbeRSEProofs!SpawningsComeFirst` | `SpawningPrecedesChild` |
| `ProbeRSEProofs!ScenarioIsProgramOrder`, `StructureIsProgramOrder` | `ScenarioKeepsProgramOrder`, `StructureKeepsProgramOrder` for any threads and any length of a run |
| `ProbeRSEProofs!DumpFollowsScenario`, `LoneExitDumps` | `DumpAgreesWithScenario`, `LoneExitIsDumped` |
| `ProbeERRProofs!TypeCorrect` | `TypeOK`, the mutex of the light included |
| `ProbeERRProofs!ReplaysInTurn`, `StarvesAtTheEnd` | `PassesInTurn`, `StarvesOnlyAtTheEnd`, for any target, scenario and threads |
| `ProbeERRProofs!SpawnsAreExclusive`, `ReplayNamesByLineage`, `ThreadsPassAsMeant` | `OneSpawnInFlight`, `NamesByLineage`, `PassersAreMeant` for any target whose threads are all announced |
| `ProbeERRProofs!ReplayerUsesSemaphore`, `ReplayerWakesLoneWaiter` | for the same targets, the replayer implements `ProbeSemaphore`; `LoneWaiterIsWoken` |
| `ProbeERRProofs!ReplayKeepsSections` | `SectionsAlike` for any targets with a probe at each lock and unlock (`LocksAreProbed`), any threads |
| `ProbeERRProofs!ReplayKeepsPanics` | `PanicsAlike` on the two toys' programs if the pass knows their guard's drop, which it does not in `.toy_bugs` (`ToysWithUnlocksProbed`), any threads |
| `PathNormProofs!PathTypes`, `NoDotDotIsWritten` | for any set of names and any length |
| `PathNormProofs!WrittenPathIsResolved`, `ShallowPathsPanic` | `PathIsResolved`, `PanicsWhenShallow`: the loop computes what the stack does, for any set of names and any length |
| `OptPassProofs!PassTypeCorrect` | `TypeOK`; a running opt never counts below what it saved |
| `OptPassProofs!NumbersAreUnique`, `IndexNamesSites`, `BuildsNumberAlike` | `NumbersIdentify`, `LastRowNamesSite`, `BuildsAgree` for any target |
| `CampaignProofs!StaleActsComeLast`, `FailureIsHandedOver`, `TurnsAreWhole` | `StaleActsFollow`, `HandsOverTheFailure`, `WholeTurns` for any list, period and length of a run |

**Semaphore.** That grants stay within the permits does not follow from itself: a
grant is decided by `count`. `SemInv` adds `CountPaysWaiters`, which makes `count` a
function of the grants and the waiters, and the types of the sets of waiters. A
grant on the first pass needs `count - 1 >= 0` and hence `granted < Permits`; a
re-test grants with the waiter itself counted, which leaves one unit for it. That a
lone waiter is not left behind needs more (`WakerStep`): with one permit and
nothing granted, a lone sleeper would have `count = 0`, and every step to that
situation - the last `inc`, or the other waiter leaving - is one that wakes it or
leaves it awake.

**Naming.** Uniqueness is not inductive. `NamingInv` keeps, for every place but
main's, that it is the `j`-th child of some thread with `j` at most that thread's
counter; then the next number is new (`ChildTidInjective`).

**Recorder.** The proof is in layers. `BaseInv`: the semaphore's invariant, and that every
thread inside a spawn is covered by the one permit, so that there is one such
thread at most. `TypeOK`. `NameInv`: what the unlocked static
`_PROBE_NEW_THREAD_ID` holds at each stage of a spawn - between `name` and the
child's reading of it, the name of the place the child is created at - and that a
thread's child number is one more than the children it has created, or than those
it has announced. `BaseInv` is what keeps a second spawn from overwriting the
static. With these, every step of the recorder is a step of `ThreadNaming` or
leaves its variables alone: `ThreadSpawn` is `Create`, `SpawnedTakeTid` is `Name`.
`ScenarioInv`: the log holds at least as many spawnings of a thread as it has
children, one more between the recording of a spawning and the creation of the
child, and no name whose thread does not exist. A new child's name is therefore
not in the log (`NamingInv`: no other thread has it), and each line it adds later
comes after enough spawnings of its parent.

`OrderInv` adds program order. A thread's place in the code says what it owes:
`ActsInv` ties `acts`, the history of the sites it reached, to `pc` and `act` - in
a probe its last act is the one at hand, and one it panicked in stays owed. Neither
record is inductive alone: a line is attributed by its name, so `NamingInv` must
keep two threads' names apart, and a thread that takes its name must not find lines
under it (`Known`: every name in a record is `"none"` or some thread's, hence
`UnusedName`). For the nodes the group matters too: a child reads its group's index
and pushes the group in one step, and what it pushes later goes there
(`PushedGroup`, `OpenKeepsOrder`).

`DumpInv`: what `_final_` wrote is, per thread, a beginning of what the scenario
holds. At the dump this is `OrderInv` twice - of the same acts the structure lacks
at most one more than the log, the one being noted (`NotedIsRecorded`) - and
afterwards the log only grows, and no new name stands in the dump. `ExitInv`: once
the handler is off the list there is one thread that took it, and no other is in
`_final_`; while it leaves, it does nothing that would make the dump late. A thread
alone in `exit` is therefore the one that dumped. The dump a second thread in
`exit` cuts short is no part of the theorem: the process may then be gone with no
file at all.

All of them assume `Unannounced = {}`: a spawned probe nobody announced returns a
permit nobody took (`rse_unannounced`). From `NameInv` on they also assume
`Spawners \cap (Untracked \cup Silent) = {}`: no thread without a name of its own
executes an instrumented spawn (`rse_nameless`). A silent child that spawns nothing
is covered by all of them: it keeps the permit, and spawning stalls, but no name and
no line of the log goes wrong.

**Replayer.** `ReplayInv` holds whoever was announced: types, whoever is between
the lock and the release of the light is its holder (`MutexInv`), log and queue are
the two halves of the scenario (`QueueInv`), and who starved did so on a queue that
stays empty. For targets whose threads are all announced, `BaseInv` and `NameInv`
are the recorder's with two differences: the window of a spawn includes the light,
where the parent waits with the permit, and the name is left before the light, so
the child number runs ahead of the children during the wait. `PassedInv` then says
that the place behind a line of the log is the line's name.

The permit is also shown to be used as `ProbeSemaphore` says: every step of
the replayer is one of its steps or leaves it alone.

**Record and replay.** `SectionsAlike` does not follow from the light alone: lights
are passed in the recorded order, but locks are not taken in it (`toy_order`). What
makes it true is that the probe of an *unlock* is passed with the lock held. The
hypothesis `LocksAreProbed` asks for just that of a target: a probe in front of each
lock and each drop of a guard, and the drop is the next probed thing a thread does
after the lock it took (`Disciplined`). `.toy_bugs` do not meet it; a target whose
guards have a name of the right length does. The sites that lock are those of
`RecordReplay`, the programs around them are arbitrary.

`JointInv` is inductive over both phases. `ReplayerInv` is the replayer's invariant
(a hand-over leaves it a scenario and an empty log); `ProgramInv` says a thread's
lines in the tape are the first of its program, and `BracketInv` that an unlock's
line comes right after its lock's, among those of its thread. `WorldInv` is stated
once for both phases, over the acts that have passed so far (`Cursor`: the tape's
length, then the log's). Who owes an operation passed its probe last (`OwedInv`), so
who owes an unlock holds the lock, and so does who locked and has done nothing since
(`HeldInv`). Hence at most one unlock is owed at a time, and the `k`-th section is
that of the `k`-th unlock passed (`SectionInv`, by `Closed`, which counts them); its
data are what the operation under the lock makes of the data before it (`DataInv`).
All this is about the tape, and the replay's log is a beginning of it, so the `k`-th
section of the replay is the `k`-th recorded one: thread, site and data
(`NextSectionIsRecorded`). The recorded sections are those of the whole tape because
whoever panicked did so under the lock, and nobody can owe an unlock then
(`CrashInv`).

`PanicsAlike` is about what the toys do with the data, so its theorem assumes their
programs, and a probe at each of their unlocks (`ToysWithUnlocksProbed`;
`ToysAreProbed` shows that they then meet `LocksAreProbed`). Of `.toy_bugs` as they
stand the second assumption is false, and so is the property.

A thread panics on a `None` it finds under the lock. In
race_btw_func the value is gone from the first completed take on (`RaceInv`), and a
child that found it gone at its check takes no lock again; so at a panic the only
section that left a `None` is the last one, the other child's take (`Failed`). A
replay that panics has completed a beginning of the recorded sections with a `None`
at its end: that is all of them, and the one that panics is the child whose take it
is not. In read_none a getter that finds nothing precedes every section. The
theorem says nothing of a replay that does not fail: it may stop at the light for
good, as in `err_wedge`.

**Path.** `PathInv`: the types, no `..` behind the index (`NoDotDotBehind`), and
that a returned index has reached the end. The lemmas say what removing two
neighbours does to a sequence. `StackInv` compares the vector that is shortened in
place with the stack of the reference: the components before the index are the
stack after the part of the path read so far, those behind it the part not yet read
(`Seen` is how much was read), and every `..` read so far found two components. A
turn of the loop that removes two is one pop of the stack, one that goes on a push.

**Recursive functions.** `Resolved` and `SitesOf` are defined by recursion on the
positions of a sequence, and the prover has neither recursion nor induction over
formulas. `Recursion` proves what is needed with sets in place of formulas: the
positions up to which a solution exists hold 0 and every successor, and a set of
naturals that misses one would miss a least one (`IntervalInduction`). So the
recursion has a solution (`RecursionExists`), and the function that was chosen as
one satisfies its equation (`ResolvedUnrolls`, `SitesUnroll`). Everything else
about it is a step of an invariant.

**Pass.** `PassInv`: a running opt counts above every number of the files built
before, and nothing reaches an output file whose number is not saved; so a crash
loses numbers that no output holds, and a row it left behind is followed by the row
of the site that gets the number. `BuildsAgree` compares two builds that never look
at each other. `AgreeInv` keeps for a running opt that each number is where it
started plus the count of recognised instructions before it, and between the two
opts of a file that the second starts at the first's number and ends, saves and
crashes in the same function: what decides is the file, not the pass.

**Campaign.** `FileInv`: in every file the marks of the latest run come first
(`WrittenFile`: overwriting from the start keeps that), and once a run of the
campaign has passed, `log` and `struct` are gone before the next one begins, so
that nothing old is left to mix with. `TurnInv`: `RCNT` is one ahead of the runs of
the turn, and 0 only before the first run of a campaign is counted; with it a
multiple of the period is the period itself.

**Only model-checked.** Liveness (`PermitComesBack`, `SpawnerGetsIn`,
`SequentialReplays`, `Terminates`, `EveryoneGetsTurns`) and anything under fairness,
which is out of the prover's reach. Every invariant of a passing run is a theorem.
The properties of the runs that expect a violation are false.

## 5. Not modelled

- **Random sleeps.** A sleep is an interleaving. Probabilities are out of reach.
- **`probe_RSR.rs`** does not compile (it names statics and types it does not
  declare) and no script builds it. **Vendored headers and old scripts** are used
  by nothing.
- **Locks taken by an invoke in the toys.** At an invoke of `Mutex::lock` opt
  crashes (`OptPass`), so a file that holds one is not built; `RecordReplay` answers
  for targets whose locks are taken by calls.
- **Probes at the toys' unlocks.** The pass plants none (see `RecordReplay` in
  section 2); `toy_order` models that. `guarded`, `ReplayKeepsSections` and
  `ReplayKeepsPanics` are about targets in which it does plant them. `OptPass` counts
  as an unlock only a drop whose name the pass knows.
- **crossbeam.** The spawned probe planted at the call of the builder
  (`custom_pass.cpp:234`) runs in the parent, which would take its child's name.
  `OptPass` plants it; no run-time model has such a parent. Nor is a closure of main
  that is called directly, not by a new thread.
- **Calls without a debug location.** RSE_pass reads the location of a call without
  a test (`custom_pass.cpp:57`). `OptPass` takes calls to have one.
- **A torn act.** A shorter `log` over a longer one may end in the second half of an
  act; `Campaign` counts whole acts, so the torn one is an old one.
- **Exhaustion** of memory, of `i32` child numbers and of the disk; a write to `log`
  that fails.
- **A mutex poisoned by a panic.** The panic hook ends the process before the
  panicking thread unwinds, so no other thread sees the poison.

## 6. Plan

Built, in this order: semaphore, naming, recorder, replayer, paths, pass; then
campaign, record and replay of the toys, spawn probes that do not match up; then the
proofs about pass, replayer and campaign, and of the recorder layer by layer up to
what is on disk when the process is gone; then the path's reference; last record and
replay together.
What would come next:

1. `RecordReplay` with more than one lock and other data than an `Option`: the
   argument of `SectionsAlike` should carry over lock by lock.
2. A spawned probe that runs in the parent (crossbeam), in `ProbeRSE`.
3. The mutex of the light released while waiting, as the commented-out `cvar.wait`
   would: `ReplayCompletes` should then hold.
