------------------------------- MODULE OptPass -------------------------------
(***************************************************************************)
(* The pass that plants the probes (opt_pass/custom_pass.cpp) and the loop  *)
(* of build.sh that runs it: opt -passes=RSE_pass and then -passes=TLE_pass *)
(* on each .ll file in turn.  Each opt is a process of its own; the number  *)
(* of the next probe site travels in the files func_num_rse and             *)
(* func_num_tle, and RSE_pass appends a row per site to function_number_ind.*)
(*                                                                         *)
(* A file is a sequence of functions, a function a sequence of calls and    *)
(* invokes.  A callee stands for the part of its name the pass looks for.   *)
(* Calls are taken to carry a debug location, which the pass asks only of   *)
(* invokes and reads of both.                                               *)
(***************************************************************************)
EXTENDS Integers, Sequences, FiniteSets

CONSTANTS
  Callee,   \* the functions called: those the pass looks for, and others
  Programs  \* the targets: sequences of files

\* located: has the instruction a debug location?
Instruction ==
  [op : {"call"}, callee : Callee, located : {TRUE}]
    \cup [op : {"invoke"}, callee : Callee, located : BOOLEAN]

ASSUME PassAssumption == Programs \subseteq Seq(Seq(Seq(Instruction)))

\* The probes for the callees the pass recognises, in each kind of instruction.
\* Scope::spawn of crossbeam is announced at its invoke; the call of the
\* builder inside it counts as the spawned thread.  unlock is the drop of a guard
\* whose mangled name has one of the two lengths the pass looks for.
CallProbes ==
  [main_closure |-> "spawned", spawn_receiver |-> "spawned",
   builder_spawn |-> "spawned", recv |-> "func", unlock |-> "mutex",
   lock |-> "mutex"]
InvokeProbes ==
  [lock |-> "mutex", unlock |-> "mutex", send |-> "func", recv |-> "func",
   thread_spawn |-> "spawning", scope_spawn |-> "spawning"]
ProbesOf(op) == IF op = "call" THEN CallProbes ELSE InvokeProbes

Recognised(ins) == ins.located /\ ins.callee \in DOMAIN ProbesOf(ins.op)
ProbeFor(ins) == ProbesOf(ins.op)[ins.callee]

\* The pass asks for the instruction after an invoke, which ends its block.
Crashes(ins) == ins.op = "invoke" /\ ins.callee = "lock"

Pass == {"RSE_pass", "TLE_pass"}

VARIABLES
  program,   \* the .ll files, in the order of the glob
  file,      \* the file opt works on, an index of program
  pass,      \* which opt runs
  func,      \* the function the pass manager is at; 0 before opt started
  site,      \* how many instructions of that function are done
  func_num,  \* member func_num of the running pass
  saved,     \* the files func_num_rse and func_num_tle; 0 if absent
  index,     \* the file function_number_ind: the site of each row
  planted,   \* the probes planted so far in the module in memory
  out        \* the probes in the files target_rse_*.ll and target_err_*.ll

vars == <<program, file, pass, func, site, func_num, saved, index, planted,
          out>>

Init ==
  /\ program \in Programs
  /\ file = 1
  /\ pass = "RSE_pass"
  /\ func = 0
  /\ site = 0
  /\ func_num = 0
  /\ saved = [p \in Pass |-> 0]
  /\ index = <<>>
  /\ planted = {}
  /\ out = [p \in Pass |-> {}]

Functions    == program[file]
Instructions == Functions[func]

\* The instruction the pass is at, its place, and the probe for it.
AtInstruction == func \in DOMAIN Functions /\ site < Len(Instructions)
This  == Instructions[site + 1]
Here  == <<file, func, site + 1>>
Probe == <<func_num, Here, ProbeFor(This)>>

\* initialize_rse and initialize_tle: the number comes from the pass's file.
\* (The mutant starts from zero.)
StartsAtZero(p) == 0
StartsAt(p) == saved[p]

Start ==
  /\ file <= Len(program) /\ func = 0
  /\ func' = 1
  /\ site' = 0
  /\ func_num' = StartsAt(pass)
  /\ planted' = {}
  /\ UNCHANGED <<program, file, pass, saved, index, out>>

\* The row of a site, written by RSE_pass before the probe is built.
\* (The mutant counts first.)
RowAfter(n, s) == <<n + 1, s>>
Row(n, s) == <<n, s>>
Indexed(s) ==
  IF pass = "RSE_pass" THEN Append(index, Row(func_num, s)) ELSE index

\* insert_func, insert_spawning, insert_spawned, insert_unlock and the
\* insert_lock of a call.
Insert ==
  /\ AtInstruction /\ Recognised(This) /\ ~Crashes(This)
  /\ index' = Indexed(Here)
  /\ planted' = planted \cup {Probe}
  /\ func_num' = func_num + 1
  /\ site' = site + 1
  /\ UNCHANGED <<program, file, pass, func, saved, out>>

\* No branch of the chain of comparisons applies.
Skip ==
  /\ AtInstruction /\ ~Recognised(This)
  /\ site' = site + 1
  /\ UNCHANGED <<program, file, pass, func, func_num, saved, index, planted,
                 out>>

\* The next opt of the build.
NextOpt ==
  /\ func' = 0
  /\ site' = 0
  /\ planted' = {}
  /\ IF pass = "RSE_pass"
     THEN pass' = "TLE_pass" /\ UNCHANGED file
     ELSE pass' = "RSE_pass" /\ file' = file + 1

\* insert_lock of an invoke: the row is written and the probe planted, then
\* "got_lock" goes after the invoke - but an invoke ends its block, there is no
\* next instruction, and SetInsertPoint(nullptr) crashes opt.  No output file
\* is written, and the number of this function's sites is not saved.
InsertInvokeLock ==
  /\ AtInstruction /\ Recognised(This) /\ Crashes(This)
  /\ index' = Indexed(Here)
  /\ func_num' = func_num + 1
  /\ NextOpt
  /\ UNCHANGED <<program, saved, out>>

\* The end of run(F): the number goes to the pass's own file.  (The mutant
\* writes both passes' numbers to one.)
SavesToRSE == [saved EXCEPT !["RSE_pass"] = func_num]
SavesTo == [saved EXCEPT ![pass] = func_num]

EndFunction ==
  /\ func \in DOMAIN Functions /\ site = Len(Instructions)
  /\ saved' = SavesTo
  /\ func' = func + 1
  /\ site' = 0
  /\ UNCHANGED <<program, file, pass, func_num, index, planted, out>>

\* opt writes its output and ends.
WriteModule ==
  /\ func > Len(Functions)
  /\ out' = [out EXCEPT ![pass] = @ \cup planted]
  /\ NextOpt
  /\ UNCHANGED <<program, func_num, saved, index>>

Built == file > Len(program) /\ UNCHANGED vars

Next ==
  \/ /\ file <= Len(program)
     /\ \/ Start \/ Insert \/ Skip \/ InsertInvokeLock
        \/ EndFunction \/ WriteModule
  \/ Built

Spec == Init /\ [][Next]_vars

-----------------------------------------------------------------------------
(* Properties.                                                              *)

\* Types; saved numbers never run ahead of the pass that is counting.
TypeOK ==
  /\ file \in 1 .. Len(program) + 1
  /\ pass \in Pass
  /\ func \in Nat /\ site \in Nat /\ func_num \in Nat
  /\ saved \in [Pass -> Nat]
  /\ func > 0 => saved[pass] <= func_num
  /\ \A row \in {index[r] : r \in DOMAIN index} : row[1] \in Nat

\* The recorded build and the replayed build give a site the same number, and
\* hold the same files, though each counts on its own across processes and
\* crashes: a scenario can be replayed (custom_pass.cpp:302-311, 320-326,
\* 363-370; build.sh:27-32).
BuildsAgree ==
  pass = "RSE_pass" /\ func = 0 => out["RSE_pass"] = out["TLE_pass"]

\* In one build a number stands for one site, across files
\* (custom_pass.cpp:302-311).
NumbersIdentify ==
  \A p \in Pass : \A x, y \in out[p] : x[1] = y[1] => x = y

\* A number of the recording build is looked up in function_number_ind: the
\* last row with the number names the site, even after crashes whose rows stay
\* behind with numbers that are given again (custom_pass.cpp:40-43, 198-199).
LastRowNamesSite ==
  \A x \in out["RSE_pass"] :
    \E r \in DOMAIN index :
      /\ index[r] = <<x[1], x[2]>>
      /\ \A q \in r + 1 .. Len(index) : index[q][1] # x[1]
=============================================================================
