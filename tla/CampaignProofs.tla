--------------------------- MODULE CampaignProofs ---------------------------
(***************************************************************************)
(* What holds of every chain of campaigns, interrupted anywhere, for any    *)
(* list of threads, any period and any length of a run.                     *)
(***************************************************************************)
EXTENDS Campaign, SequenceTheorems, TLAPS

Mark == {"now", "old"}
Marks == Seq(Mark)
PC == {"idle", "show", "mv_log", "cp_struct", "replay"} \cup Loop

-----------------------------------------------------------------------------
(* Files: the marks of the latest run come first in a file it wrote over.   *)

LEMMA EmptyFile == <<>> \in Marks /\ NowFirst(<<>>)
<1>1. DOMAIN <<>> = {}
  OBVIOUS
<1>2. QED
  BY <1>1 DEF Marks, NowFirst

LEMMA AgedFile ==
  ASSUME NEW file \in Marks
  PROVE  Aged(file) \in Marks /\ NowFirst(Aged(file))
<1>1. DOMAIN file = 1 .. Len(file) /\ Len(file) \in Nat
  BY LenProperties DEF Marks
<1>2. Aged(file) \in Marks
  BY <1>1 DEF Aged, Marks, Mark
<1>3. \A i \in DOMAIN Aged(file) : Aged(file)[i] = "old"
  BY DEF Aged
<1>4. QED
  BY <1>2, <1>3 DEF NowFirst

LEMMA WrittenFile ==
  ASSUME NEW file \in Marks, NEW n \in Nat
  PROVE  /\ Written(file, n) \in Marks /\ NowFirst(Written(file, n))
         /\ file = <<>> =>
              "old" \notin {Written(file, n)[i] : i \in DOMAIN Written(file, n)}
<1> DEFINE new == [i \in 1 .. n |-> "now"]
           rest == SubSeq(Aged(file), n + 1, Len(file))
           all == Written(file, n)
<1>1. new \in Marks /\ Len(new) = n /\ \A i \in 1 .. n : new[i] = "now"
  BY DEF Marks, Mark
<1>2. /\ Aged(file) \in Marks /\ Len(Aged(file)) = Len(file)
      /\ Len(file) \in Nat
      /\ \A i \in 1 .. Len(file) : Aged(file)[i] = "old"
  <2>1. DOMAIN file = 1 .. Len(file) /\ Len(file) \in Nat
    BY LenProperties DEF Marks
  <2>2. QED
    BY <2>1, AgedFile DEF Aged
<1>3. /\ rest \in Marks
      /\ Len(rest) = IF n + 1 <= Len(file) THEN Len(file) - n ELSE 0
      /\ \A i \in 1 .. Len(rest) : rest[i] = "old"
  BY <1>2, SubSeqProperties DEF Marks
<1>4. all = new \o rest
  BY DEF Written
<1> HIDE DEF new, rest, all
<1>5. /\ all \in Marks /\ Len(all) = n + Len(rest) /\ Len(rest) \in Nat
      /\ \A i \in 1 .. n : all[i] = "now"
      /\ \A i \in n + 1 .. n + Len(rest) : all[i] = "old"
  <2>1. /\ all \in Marks /\ Len(all) = Len(new) + Len(rest)
        /\ Len(rest) \in Nat
        /\ \A i \in 1 .. Len(new) + Len(rest) :
             all[i] = IF i <= Len(new) THEN new[i] ELSE rest[i - Len(new)]
    BY <1>1, <1>3, <1>4, ConcatProperties, LenProperties DEF Marks
  <2>2. QED
    BY <1>1, <1>3, <2>1
<1>6. DOMAIN all = 1 .. n + Len(rest)
  BY <1>5, LenProperties DEF Marks
<1>7. NowFirst(all)
  <2> SUFFICES ASSUME NEW i \in DOMAIN all, NEW j \in DOMAIN all, i < j,
                      all[j] = "now"
               PROVE  all[i] = "now"
    BY DEF NowFirst
  <2>1. j \in 1 .. n
    BY <1>5, <1>6
  <2>2. QED
    BY <1>5, <1>6, <2>1
<1>8. ASSUME file = <<>> PROVE \A i \in DOMAIN all : all[i] # "old"
  <2>1. Len(rest) = 0
    BY <1>3, <1>8
  <2>2. QED
    BY <1>5, <1>6, <2>1
<1>9. QED
  BY <1>5, <1>7, <1>8 DEF all

-----------------------------------------------------------------------------
(* The inductive invariant.                                                 *)

Types ==
  /\ pc \in PC
  /\ log \in Marks /\ scenario \in Marks /\ order \in Marks
  /\ struct \in Mark \cup {Absent} /\ prog_struct \in Mark \cup {Absent}
  /\ first \in BOOLEAN /\ cutShort \in BOOLEAN

StaleInv == NowFirst(log) /\ NowFirst(scenario) /\ NowFirst(order)

\* After a run that passed the build directory holds nothing of it.
NoOld(file) == \A i \in DOMAIN file : file[i] # "old"
CleanInv ==
  /\ pc = "rm_struct" => log = <<>>
  /\ pc = "run" /\ ~first => log = <<>>
  /\ pc = "run" /\ ~first => struct = Absent
  /\ pc = "mv_log" /\ ~first => NoOld(log)
  /\ pc \in {"mv_log", "cp_struct"} /\ ~first => struct = "now" \/ cutShort
  /\ pc \in {"cp_struct", "replay", "show"} /\ ~first => NoOld(scenario)
  /\ pc \in {"replay", "show"} /\ ~first => prog_struct = "now" \/ cutShort

FileInv == Types /\ StaleInv /\ CleanInv

LEMMA FileInit == Init => FileInv
BY EmptyFile
DEF Init, FileInv, Types, StaleInv, CleanInv, Mark, PC, Loop, Absent

\* A run, whatever becomes of it.
LEMMA RunKeepsFiles ==
  ASSUME FileInv, NEW n \in 0 .. MaxActs, NEW next, NEW cut \in BOOLEAN,
         next \in {"idle", "passed", "mv_log"}, Run(n, next, cut)
  PROVE  FileInv'
<1>1. /\ pc = "run" /\ pc' = next /\ log' = Written(log, n)
      /\ struct' = IF cut THEN Older(struct) ELSE DumpedTo(struct)
      /\ cutShort' = cut /\ log \in Marks /\ n \in Nat
      /\ UNCHANGED <<scenario, prog_struct, order, first>>
  BY CampaignAssumption DEF Run, FileInv, Types, tleFiles
<1>2. /\ log' \in Marks /\ NowFirst(log')
      /\ log = <<>> => NoOld(log')
  BY <1>1, WrittenFile DEF NoOld
<1>3. struct' \in Mark \cup {Absent}
  BY <1>1 DEF Older, DumpedTo, Mark, Absent
<1>4. ~first => log = <<>> /\ struct = Absent
  BY <1>1 DEF FileInv, CleanInv
<1>5. ~first => NoOld(log') /\ (struct' = "now" \/ cutShort')
  BY <1>1, <1>2, <1>4 DEF DumpedTo
<1>6. QED
  BY <1>1, <1>2, <1>3, <1>5
  DEF FileInv, Types, StaleInv, CleanInv, PC, Loop

LEMMA FileStep == FileInv /\ [Next]_vars => FileInv'
<1> SUFFICES ASSUME FileInv, [Next]_vars PROVE FileInv'
  OBVIOUS
<1> USE DEF buildFiles, tleFiles, counters
<1>1. CASE StartCampaign
  <2>1. order' \in Marks /\ NowFirst(order')
    BY <1>1, AgedFile DEF StartCampaign, FileInv, Types
  <2>2. scenario' \in Marks /\ NowFirst(scenario')
    BY <1>1, EmptyFile DEF StartCampaign
  <2>3. prog_struct' \in Mark \cup {Absent}
    BY <1>1 DEF StartCampaign, Older, Mark, Absent
  <2>4. /\ pc' = "run" /\ first' = TRUE /\ cutShort' = FALSE
        /\ UNCHANGED <<log, struct>>
    BY <1>1 DEF StartCampaign
  <2>5. Types' /\ StaleInv'
    BY <2>1, <2>2, <2>3, <2>4 DEF FileInv, Types, StaleInv, PC, Loop
  <2>6. CleanInv'
    BY <2>4 DEF CleanInv
  <2>7. QED
    BY <2>5, <2>6 DEF FileInv
<1>2. CASE Rebuild
  BY <1>2, EmptyFile DEF Rebuild, FileInv, Types, StaleInv, CleanInv
<1>3. ASSUME NEW n \in 0 .. MaxActs, NEW cut \in BOOLEAN,
             \/ Run(n, "passed", cut) \/ Run(n, "mv_log", cut)
             \/ Run(n, "idle", TRUE)
      PROVE  FileInv'
  <2>1. CASE Run(n, "passed", cut)
    BY <2>1, RunKeepsFiles
  <2>2. CASE Run(n, "mv_log", cut)
    BY <2>2, RunKeepsFiles
  <2>3. CASE Run(n, "idle", TRUE)
    BY <2>3, RunKeepsFiles
  <2>4. QED
    BY <1>3, <2>1, <2>2, <2>3
<1>4. CASE CountRun
  BY <1>4 DEF CountRun, FileInv, Types, StaleInv, CleanInv, PC, Loop
<1>5. CASE RemoveLog
  BY <1>5, EmptyFile DEF RemoveLog, FileInv, Types, StaleInv, CleanInv, PC, Loop
<1>6. CASE RemoveStruct
  <2>1. pc = "rm_struct" /\ pc' = "run" /\ struct' = Absent /\ first' = FALSE
        /\ UNCHANGED <<log, scenario, prog_struct, order, cutShort>>
    BY <1>6 DEF RemoveStruct, RemovedStruct
  <2>2. QED
    BY <2>1 DEF FileInv, Types, StaleInv, CleanInv, PC, Loop
<1>7. CASE MoveLog
  <2>1. /\ pc = "mv_log" /\ pc' = "cp_struct" /\ scenario' = log
        /\ log' = <<>>
        /\ UNCHANGED <<struct, prog_struct, order, first, cutShort>>
    BY <1>7 DEF MoveLog
  <2>2. Types' /\ StaleInv'
    BY <2>1, EmptyFile DEF FileInv, Types, StaleInv, PC, Loop
  <2>3. CleanInv'
    BY <2>1 DEF FileInv, CleanInv
  <2>4. QED
    BY <2>2, <2>3 DEF FileInv
<1>8. CASE CopyStruct
  <2>1. /\ pc = "cp_struct" /\ pc' = "replay"
        /\ prog_struct' = IF struct = Absent THEN prog_struct ELSE struct
        /\ UNCHANGED <<log, struct, scenario, order, first, cutShort>>
    BY <1>8 DEF CopyStruct
  <2>2. Types' /\ StaleInv'
    BY <2>1 DEF FileInv, Types, StaleInv, PC, Loop
  <2>3. CleanInv'
    BY <2>1 DEF FileInv, CleanInv, Absent, NoOld
  <2>4. QED
    BY <2>2, <2>3 DEF FileInv
<1>9. ASSUME NEW n \in 0 .. MaxActs, Replay(n) PROVE FileInv'
  <2>1. order' \in Marks /\ NowFirst(order')
    BY <1>9, CampaignAssumption, WrittenFile DEF Replay, FileInv, Types
  <2>2. QED
    BY <1>9, <2>1 DEF Replay, FileInv, Types, StaleInv, CleanInv, PC, Loop
<1>10. CASE End
  BY <1>10 DEF End, FileInv, Types, StaleInv, CleanInv, PC, Loop
<1>11. CASE pc' = "idle" /\ UNCHANGED <<buildFiles, tleFiles, first, cutShort>>
  BY <1>11 DEF FileInv, Types, StaleInv, CleanInv, PC, Loop
<1>12. CASE UNCHANGED vars
  BY <1>12 DEF vars, FileInv, Types, StaleInv, CleanInv
<1>13. QED
  BY <1>1, <1>2, <1>3, <1>4, <1>5, <1>6, <1>7, <1>8, <1>9, <1>10, <1>11,
     <1>12
  DEF Next, Statement, Interrupt

THEOREM FileInvariant == Spec => []FileInv
<1>1. QED
  BY FileInit, FileStep, PTL DEF Spec

\* Acts of earlier runs can only follow those of the failing run in what is
\* replayed, and those of the replay in what is shown (probe_RSE.rs:51-55).
THEOREM StaleActsComeLast == Spec => []StaleActsFollow
<1>1. FileInv => StaleActsFollow
  BY DEF FileInv, StaleInv, StaleActsFollow
<1>2. QED
  BY <1>1, FileInvariant, PTL

\* Unless the first run of a campaign fails, what is handed over is the failing
\* run's (run_random.sh:38-52).
THEOREM FailureIsHandedOver == Spec => []HandsOverTheFailure
<1>1. FileInv => HandsOverTheFailure
  BY DEF FileInv, CleanInv, HandsOverTheFailure, NoOld
<1>2. QED
  BY <1>1, FileInvariant, PTL

-----------------------------------------------------------------------------
(* Turns.  RCNT runs from 1 to Period and is one ahead of the runs of the    *)
(* turn; it is 0 only before the first run of a campaign is counted.        *)

TurnInv ==
  /\ RCNT \in 0 .. Period /\ turn \in Nat
  /\ RCNT = 0 => first /\ pc \notin {"rm_log", "rm_struct"}
  /\ RCNT > 0 => turn = RCNT - 1

LEMMA NoMultiple ==
  ASSUME NEW k \in 1 .. Period - 1 PROVE k % Period # 0
BY CampaignAssumption

LEMMA TurnStep == TurnInv /\ [Next]_vars => TurnInv'
<1> SUFFICES ASSUME TurnInv, [Next]_vars PROVE TurnInv'
  OBVIOUS
<1> USE DEF buildFiles, tleFiles, counters
<1>1. Period \in Nat \ {0}
  BY CampaignAssumption
<1>2. CASE StartCampaign
  BY <1>1, <1>2 DEF StartCampaign, TurnInv
<1>3. CASE CountRun
  <2>1. CASE RCNT % Period = 0
    BY <1>1, <1>3, <2>1 DEF CountRun, TurnInv, RestartedRCNT
  <2>2. CASE RCNT % Period # 0
    <3>1. RCNT # 0 /\ RCNT # Period
      BY <1>1, <2>2
    <3>2. QED
      BY <1>1, <1>3, <2>2, <3>1 DEF CountRun, TurnInv
  <2>3. QED
    BY <2>1, <2>2
<1>4. CASE RemoveStruct
  BY <1>4 DEF RemoveStruct, TurnInv
<1>5. CASE /\ UNCHANGED <<counters, first>>
           /\ pc' \in {"rm_log", "rm_struct"} => pc = "rm_log"
  BY <1>5 DEF TurnInv
<1>6. CASE Rebuild
  BY <1>6 DEF Rebuild, TurnInv
<1>7. CASE UNCHANGED vars
  BY <1>7 DEF vars, TurnInv
<1>8. ASSUME Statement \/ Interrupt, ~CountRun, ~RemoveStruct
      PROVE  /\ UNCHANGED <<counters, first>>
             /\ pc' \in {"rm_log", "rm_struct"} => pc = "rm_log"
  BY <1>8
  DEF Statement, Interrupt, Run, RemoveLog, MoveLog, CopyStruct, Replay, End
<1>9. QED
  BY <1>2, <1>3, <1>4, <1>5, <1>6, <1>7, <1>8 DEF Next

\* A thread is privileged for a whole period, but for the first of a campaign
\* (run_random.sh:19-28).
THEOREM TurnsAreWhole == Spec => WholeTurns
<1>1. Init => TurnInv
  BY CampaignAssumption DEF Init, TurnInv
<1>2. TurnInv /\ [Next]_vars
        => [ARR_IND' # ARR_IND /\ pc = "passed"
              => turn + 1 = Period \/ first]_vars
  <2> SUFFICES ASSUME TurnInv, Next, pc = "passed", ARR_IND' # ARR_IND
               PROVE  turn + 1 = Period \/ first
    OBVIOUS
  <2>1. CountRun
    BY DEF Next, StartCampaign, Rebuild, Statement, Interrupt, Run, RemoveLog,
           RemoveStruct, MoveLog, CopyStruct, Replay, End, counters
  <2>2. RCNT % Period = 0 /\ Period \in Nat \ {0}
    BY <2>1, CampaignAssumption DEF CountRun
  <2>3. RCNT \notin 1 .. Period - 1
    BY <2>2, NoMultiple
  <2>4. QED
    BY <2>2, <2>3 DEF TurnInv
<1>3. QED
  BY <1>1, <1>2, TurnStep, PTL DEF Spec, WholeTurns
=============================================================================
