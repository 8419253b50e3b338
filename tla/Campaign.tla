------------------------------ MODULE Campaign ------------------------------
(***************************************************************************)
(* run_random.sh, campaign after campaign in the same directories: the      *)
(* target runs under the recorder until it fails, and the files of the      *)
(* failing run are handed to the replayer.  A campaign may be interrupted   *)
(* at any statement, and a run may end before _final_ has written its file. *)
(*                                                                         *)
(* What counts about a file is who wrote it: the latest run of the target,  *)
(* or an earlier one.  log is a sequence of such marks, one per act.        *)
(***************************************************************************)
EXTENDS Integers, Sequences

CONSTANTS
  Listed,   \* entries of myArray (15)
  Wrap,     \* the index at which ARR_IND starts again (19)
  Period,   \* runs between two changes of the index (300)
  MaxActs   \* bound: acts of one run

ASSUME CampaignAssumption ==
  /\ Listed \in Nat \ {0} /\ Wrap \in Nat /\ Wrap >= Listed
  /\ Period \in Nat \ {0} /\ MaxActs \in Nat

VARIABLES
  pc,          \* the statement the script is at
  log,         \* build/log
  struct,      \* build/struct
  scenario,    \* TLE/SC0, of which TLE/scenario is a copy
  prog_struct, \* TLE/prog_struct
  order,       \* TLE/log, which the replay writes and the script shows
  ARR_IND, RCNT,
  first,       \* history: is the latest run the first of its campaign?
  cutShort,    \* history: did it end without _final_'s file (see Run)?
  turn         \* history: runs that passed since ARR_IND changed

buildFiles == <<log, struct>>
tleFiles   == <<scenario, prog_struct, order>>
counters   == <<ARR_IND, RCNT, turn>>
vars == <<pc, buildFiles, tleFiles, counters, first, cutShort>>

Absent == "absent"
Loop == {"run", "passed", "rm_log", "rm_struct"}

\* A new run makes what is there the work of an earlier one.
Older(mark) == IF mark = Absent THEN Absent ELSE "old"
Aged(file) == [i \in DOMAIN file |-> "old"]

\* A file opened for writing at its start and not truncated, as both probes
\* open log.  (The mutant appends.)
Appended(file, n) == file \o [i \in 1 .. n |-> "now"]
Written(file, n) ==
  [i \in 1 .. n |-> "now"] \o SubSeq(Aged(file), n + 1, Len(file))

Init ==
  /\ pc = "idle"
  /\ log = <<>> /\ struct = Absent
  /\ scenario = <<>> /\ prog_struct = Absent /\ order = <<>>
  /\ ARR_IND = 0 /\ RCNT = 0 /\ turn = 0
  /\ first = TRUE /\ cutShort = FALSE

\* The counters are shell variables.  SC0 is written anew before it is read.
StartCampaign ==
  /\ pc = "idle"
  /\ pc' = "run"
  /\ ARR_IND' = 0 /\ RCNT' = 0 /\ turn' = 0
  /\ first' = TRUE /\ cutShort' = FALSE
  /\ scenario' = <<>>
  /\ prog_struct' = Older(prog_struct)
  /\ order' = Aged(order)
  /\ UNCHANGED buildFiles

\* build.sh removes the directory the campaign runs in.
Rebuild ==
  /\ pc = "idle"
  /\ log' = <<>> /\ struct' = Absent
  /\ UNCHANGED <<pc, tleFiles, counters, first, cutShort>>

\* _final_ writes struct if _init_ found none.
DumpedTo(s) == IF s = Absent THEN "now" ELSE Older(s)

\* ./rse: it exits, or it is cut short of _final_'s file, by a signal or because
\* a second thread in exit() ends the process while the first runs the handlers.
Run(n, next, cut) ==
  /\ pc = "run"
  /\ log' = Written(log, n)
  /\ struct' = IF cut THEN Older(struct) ELSE DumpedTo(struct)
  /\ cutShort' = cut
  /\ pc' = next
  /\ UNCHANGED <<tleFiles, counters, first>>

\* The index after i.  (The mutant forgets the last name.)
DropsLastName(i) == IF i + 1 = Listed - 1 THEN 0 ELSE i + 1
NextIndex(i) == IF i + 1 = Wrap THEN 0 ELSE i + 1

\* RCNT=0, and RCNT + 1 for the run just counted.  (The mutant forgets it.)
RestartedAtZero == 0
RestartedRCNT == 1

CountRun ==
  /\ pc = "passed"
  /\ IF RCNT % Period = 0
     THEN ARR_IND' = NextIndex(ARR_IND) /\ RCNT' = RestartedRCNT /\ turn' = 0
     ELSE ARR_IND' = ARR_IND /\ RCNT' = RCNT + 1 /\ turn' = turn + 1
  /\ pc' = "rm_log"
  /\ UNCHANGED <<buildFiles, tleFiles, first, cutShort>>

RemoveLog ==
  /\ pc = "rm_log"
  /\ log' = <<>>
  /\ pc' = "rm_struct"
  /\ UNCHANGED <<struct, tleFiles, counters, first, cutShort>>

\* (The mutant leaves struct for the next run.)
KeepsStruct == struct
RemovedStruct == Absent

RemoveStruct ==
  /\ pc = "rm_struct"
  /\ struct' = RemovedStruct
  /\ first' = FALSE
  /\ pc' = "run"
  /\ UNCHANGED <<log, tleFiles, counters, cutShort>>

MoveLog ==
  /\ pc = "mv_log"
  /\ scenario' = log
  /\ log' = <<>>
  /\ pc' = "cp_struct"
  /\ UNCHANGED <<struct, prog_struct, order, counters, first, cutShort>>

\* cp fails, and leaves the old copy, if there is no struct.
CopyStruct ==
  /\ pc = "cp_struct"
  /\ prog_struct' = IF struct = Absent THEN prog_struct ELSE struct
  /\ pc' = "replay"
  /\ UNCHANGED <<buildFiles, scenario, order, counters, first, cutShort>>

\* ./tle, which opens its log as the recorder does; then the script shows the
\* files and ends.
Replay(n) ==
  /\ pc = "replay"
  /\ order' = Written(order, n)
  /\ pc' = "show"
  /\ UNCHANGED <<buildFiles, scenario, prog_struct, counters, first, cutShort>>

End ==
  /\ pc = "show"
  /\ pc' = "idle"
  /\ UNCHANGED <<buildFiles, tleFiles, counters, first, cutShort>>

\* Somebody stops the script between two runs or during one.
Interrupt ==
  \/ \E n \in 0 .. MaxActs : Run(n, "idle", TRUE)
  \/ /\ pc \notin {"idle", "run"}
     /\ pc' = "idle"
     /\ UNCHANGED <<buildFiles, tleFiles, counters, first, cutShort>>

Statement ==
  \/ \E n \in 0 .. MaxActs :
       \E cut \in BOOLEAN : Run(n, "passed", cut) \/ Run(n, "mv_log", cut)
  \/ CountRun \/ RemoveLog \/ RemoveStruct
  \/ MoveLog \/ CopyStruct \/ \E n \in 0 .. MaxActs : Replay(n)
  \/ End

Next == StartCampaign \/ Rebuild \/ Statement \/ Interrupt

Spec == Init /\ [][Next]_vars

\* The shell goes on to the next statement, and the target always ends.
FairSpec == Spec /\ WF_vars(Statement)

-----------------------------------------------------------------------------
(* Properties.                                                              *)

\* The acts of the failing run come first in what is replayed, and those of the
\* replay first in what is shown: stale acts can only follow
\* (probe_RSE.rs:51-55, probe_ERR.rs:239; run_random.sh:40, 51-56).
NowFirst(file) ==
  \A i, j \in DOMAIN file : i < j /\ file[j] = "now" => file[i] = "now"
StaleActsFollow == NowFirst(scenario) /\ NowFirst(order)

\* What earlier campaigns left behind reaches the replay only if the very first
\* run of a campaign fails: after a run that passed, the scenario and the
\* structure are the failing run's, unless a signal, or two threads in exit(),
\* kept it from writing the structure (run_random.sh:40-52, probe_RSE.rs:56-64,
\* 73-77).
HandsOverTheFailure ==
  pc \in {"replay", "show"} /\ ~first =>
    /\ "old" \notin {scenario[i] : i \in DOMAIN scenario}
    /\ prog_struct = "now" \/ cutShort

\* A thread is privileged for a whole period, but for the first of a campaign,
\* who has one run (run_random.sh:19-28).
WholeTurns ==
  [][ARR_IND' # ARR_IND /\ pc = "passed" => turn + 1 = Period \/ first]_vars

\* Every listed thread gets its turn again and again while no run fails
\* (run_random.sh:4, 19-28).
EveryoneGetsTurns ==
  <>[](pc \in Loop) =>
    \A k \in 0 .. Listed - 1 : []<>(pc = "run" /\ ARR_IND = k)
=============================================================================
