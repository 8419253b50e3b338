---------------------------- MODULE OptPassProofs ----------------------------
(***************************************************************************)
(* Theorems about OptPass: whatever the target, and wherever opt crashes, a *)
(* number stands for one site and its last row in the index names the site. *)
(* The invariant: a running pass counts above everything it built before,   *)
(* and nothing gets into an output file whose number is not saved.          *)
(* And both builds number alike: a number is the start of its opt plus the  *)
(* count of the sites before it, both opts of a file start alike, and end   *)
(* in the same function.                                                    *)
(***************************************************************************)
EXTENDS OptPass, FiniteSetTheorems, TLAPS

\* All numbers of a set of probes are smaller than n.
Below(probes, n) == \A x \in probes : x[1] \in Nat /\ x[1] < n
OneSite(probes)  == \A x, y \in probes : x[1] = y[1] => x = y

\* The last row of a probe's number is the row of its site.
Named(x) ==
  \E r \in DOMAIN index :
    /\ index[r] = <<x[1], x[2]>>
    /\ \A q \in r + 1 .. Len(index) : index[q][1] # x[1]

Place == Nat \X Nat \X Nat

PassTypes ==
  /\ program \in Seq(Seq(Seq(Instruction)))
  /\ file \in 1 .. Len(program) + 1
  /\ pass \in Pass
  /\ func \in Nat /\ site \in Nat /\ func_num \in Nat
  /\ saved \in [Pass -> Nat]
  /\ index \in Seq(Nat \X Place)
  /\ out = [p \in Pass |-> out[p]]

\* A running pass counts on from what it saved; it numbers above the files
\* already built, and saves its number before its own file is built.
CountInv ==
  /\ func > 0 => saved[pass] <= func_num /\ Below(planted, func_num)
  /\ func = 0 => planted = {}
  /\ file <= Len(program) /\ func > Len(Functions) =>
       Below(planted, saved[pass])
  /\ \A p \in Pass : Below(out[p], saved[p])
  /\ \A x \in planted, y \in out[pass] : y[1] < x[1]

IdentityInv ==
  /\ OneSite(planted)
  /\ \A p \in Pass : OneSite(out[p])

IndexInv ==
  /\ \A x \in out["RSE_pass"] : Named(x)
  /\ pass = "RSE_pass" => \A x \in planted : Named(x)

PassInv == PassTypes /\ CountInv /\ IdentityInv /\ IndexInv

-----------------------------------------------------------------------------

LEMMA InitPassInv == Init => PassInv
BY PassAssumption DEF Init, PassInv, PassTypes, CountInv, IdentityInv, IndexInv,
   Below, OneSite, Pass

\* The functions of the file opt works on.
LEMMA FunctionsType ==
  ASSUME PassTypes, file <= Len(program)
  PROVE  Functions \in Seq(Seq(Instruction))
<1>1. file \in 1 .. Len(program)
  BY DEF PassTypes
<1>2. QED
  BY <1>1 DEF PassTypes, Functions

\* A row of another number leaves a site named.
LEMMA OtherRow ==
  ASSUME PassTypes, NEW x, NEW n \in Nat, NEW s \in Place, x[1] # n, Named(x),
         index' = Append(index, <<n, s>>)
  PROVE  Named(x)'
<1>1. PICK r \in DOMAIN index :
        /\ index[r] = <<x[1], x[2]>>
        /\ \A q \in r + 1 .. Len(index) : index[q][1] # x[1]
  BY DEF Named
<1>2. index \in Seq(Nat \X Place) /\ <<n, s>> \in Nat \X Place
  BY DEF PassTypes
<1>3. /\ Len(index') = Len(index) + 1
      /\ \A q \in 1 .. Len(index) : index'[q] = index[q]
      /\ index'[Len(index) + 1] = <<n, s>>
      /\ DOMAIN index = 1 .. Len(index) /\ DOMAIN index' = 1 .. Len(index')
      /\ Len(index) \in Nat
  BY <1>2
<1>4. r \in DOMAIN index' /\ index'[r] = <<x[1], x[2]>>
  BY <1>1, <1>3
<1>5. ASSUME NEW q \in r + 1 .. Len(index') PROVE index'[q][1] # x[1]
  <2>1. CASE q = Len(index) + 1
    BY <2>1, <1>3
  <2>2. CASE q # Len(index) + 1
    BY <2>2, <1>1, <1>3
  <2>3. QED
    BY <2>1, <2>2
<1>6. QED
  BY <1>4, <1>5 DEF Named

\* The new row names its own site.
LEMMA OwnRow ==
  ASSUME PassTypes, NEW x, x[1] \in Nat, x[2] \in Place,
         index' = Append(index, <<x[1], x[2]>>)
  PROVE  Named(x)'
<1>1. index \in Seq(Nat \X Place) /\ <<x[1], x[2]>> \in Nat \X Place
  BY DEF PassTypes
<1>2. /\ Len(index') = Len(index) + 1 /\ Len(index) \in Nat
      /\ index'[Len(index) + 1] = <<x[1], x[2]>>
      /\ DOMAIN index' = 1 .. Len(index')
  BY <1>1
<1>3. \A q \in Len(index) + 2 .. Len(index') : FALSE
  BY <1>2
<1>4. Len(index) + 1 \in DOMAIN index'
  BY <1>2
<1>5. QED
  BY <1>2, <1>3, <1>4 DEF Named

-----------------------------------------------------------------------------
(* Every step keeps the invariant.                                          *)

LEMMA StartKeeps == PassInv /\ Start => PassInv'
<1> SUFFICES ASSUME PassInv, Start PROVE PassInv'
  OBVIOUS
<1> USE DEF PassInv
<1>1. PassTypes'
  BY DEF PassTypes, Start, StartsAt, Pass
<1>2. CountInv'
  <2>1. saved[pass] \in Nat /\ func_num' = saved[pass]
    BY DEF PassTypes, Start, StartsAt
  <2>2. QED
    BY <2>1 DEF CountInv, Start, Below
<1>3. IdentityInv'
  BY DEF IdentityInv, Start, OneSite
<1>4. IndexInv'
  BY DEF IndexInv, Start, Named
<1>5. QED
  BY <1>1, <1>2, <1>3, <1>4

LEMMA HereIsPlace == ASSUME PassTypes PROVE Here \in Place
BY DEF PassTypes, Here, Place

LEMMA InsertKeeps == PassInv /\ file <= Len(program) /\ Insert => PassInv'
<1> SUFFICES ASSUME PassInv, file <= Len(program), Insert PROVE PassInv'
  OBVIOUS
<1> USE DEF PassInv
<1> DEFINE kind == ProbeFor(This)
<1>1. /\ planted' = planted \cup {<<func_num, Here, kind>>}
      /\ func_num \in Nat /\ func_num' = func_num + 1 /\ Here \in Place
  BY HereIsPlace DEF Insert, Probe, PassTypes
<1>2. /\ func \in 1 .. Len(Functions) /\ Len(Functions) \in Nat
      /\ Functions' = Functions /\ func > 0
  BY FunctionsType DEF Insert, AtInstruction, Functions
<1>3. Below(planted, func_num)
  BY <1>2 DEF CountInv
<1>4. \A p \in Pass : Below(out[p], saved[p])
  BY DEF CountInv
<1>5. Below(out[pass], func_num)
  BY <1>1, <1>2, <1>4 DEF CountInv, PassTypes, Below
<1> HIDE DEF kind
<1>6. PassTypes'
  <2>1. index' \in Seq(Nat \X Place)
    BY <1>1 DEF Insert, Indexed, Row, PassTypes
  <2>2. QED
    BY <1>1, <2>1 DEF PassTypes, Insert
<1>7. CountInv'
  <2>1. Below(planted', func_num')
    BY <1>1, <1>3 DEF Below
  <2>2. saved[pass] <= func_num'
    BY <1>1, <1>2 DEF CountInv, PassTypes
  <2>3. \A x \in planted', y \in out[pass] : y[1] < x[1]
    BY <1>1, <1>5 DEF CountInv, Below
  <2>4. QED
    BY <1>2, <1>4, <2>1, <2>2, <2>3 DEF CountInv, Insert
<1>8. IdentityInv'
  BY <1>1, <1>3 DEF IdentityInv, Insert, OneSite, Below
<1>9. IndexInv'
  <2>1. CASE pass = "RSE_pass"
    <3>1. index' = Append(index, <<func_num, Here>>)
      BY <2>1 DEF Insert, Indexed, Row
    <3>2. \A x \in planted \cup out["RSE_pass"] : x[1] # func_num /\ Named(x)
      BY <2>1, <1>1, <1>3, <1>5 DEF Below, IndexInv
    <3>3. \A x \in planted \cup out["RSE_pass"] : Named(x)'
      BY <3>1, <3>2, <1>1, OtherRow
    <3>4. \A x : x = <<func_num, Here, kind>> => Named(x)'
      BY <3>1, <1>1, OwnRow
    <3>5. \A x \in planted' \cup out'["RSE_pass"] : Named(x)'
      BY <3>3, <3>4, <1>1 DEF Insert
    <3>6. QED
      BY <3>5 DEF IndexInv
  <2>2. CASE pass # "RSE_pass"
    BY <2>2 DEF IndexInv, Insert, Indexed, Named
  <2>3. QED
    BY <2>1, <2>2
<1>10. QED
  BY <1>6, <1>7, <1>8, <1>9

LEMMA SkipKeeps == PassInv /\ Skip => PassInv'
<1> SUFFICES ASSUME PassInv, Skip PROVE PassInv'
  OBVIOUS
<1>1. \A x : Named(x)' <=> Named(x)
  BY DEF Skip, Named
<1>2. PassTypes'
  BY DEF PassInv, PassTypes, Skip
<1>3. CountInv' /\ IdentityInv'
  BY DEF PassInv, CountInv, IdentityInv, Skip, Functions
<1>4. QED
  BY <1>1, <1>2, <1>3 DEF PassInv, IndexInv, Skip

\* What the end of one opt does to the invariant, given what it left behind.
LEMMA NextOptKeeps ==
  ASSUME PassInv, file <= Len(program), NextOpt, func_num' \in Nat,
         UNCHANGED <<program, saved>>, index' \in Seq(Nat \X Place),
         out' \in [Pass -> {out'[p] : p \in Pass}],
         \A p \in Pass : Below(out'[p], saved[p]) /\ OneSite(out'[p]),
         \A x \in out'["RSE_pass"] : Named(x)'
  PROVE  PassInv'
<1> USE DEF PassInv
<1>1. PassTypes'
  BY DEF PassTypes, NextOpt, Pass
<1>2. planted' = {} /\ func' = 0
  BY DEF NextOpt
<1>3. CountInv'
  BY <1>2 DEF CountInv, Below
<1>4. IdentityInv' /\ IndexInv'
  BY <1>2 DEF IdentityInv, IndexInv, OneSite
<1>5. QED
  BY <1>1, <1>3, <1>4

LEMMA InsertInvokeLockKeeps ==
  PassInv /\ file <= Len(program) /\ InsertInvokeLock => PassInv'
<1> SUFFICES ASSUME PassInv, file <= Len(program), InsertInvokeLock
             PROVE  PassInv'
  OBVIOUS
<1> USE DEF PassInv
<1>1. /\ func_num \in Nat /\ Here \in Place /\ func > 0
      /\ func_num' \in Nat
  <2>1. func \in 1 .. Len(Functions) /\ Len(Functions) \in Nat
    BY FunctionsType DEF InsertInvokeLock, AtInstruction
  <2>2. func_num \in Nat /\ func_num' \in Nat
    BY DEF InsertInvokeLock, PassTypes
  <2>3. QED
    BY <2>1, <2>2, HereIsPlace
<1>2. Below(out[pass], func_num)
  BY <1>1 DEF CountInv, PassTypes, Below
<1>3. index' \in Seq(Nat \X Place)
  BY <1>1 DEF InsertInvokeLock, Indexed, Row, PassTypes
<1>4. \A x \in out["RSE_pass"] : Named(x)'
  <2>1. CASE pass = "RSE_pass"
    <3>1. index' = Append(index, <<func_num, Here>>)
      BY <2>1 DEF InsertInvokeLock, Indexed, Row
    <3>2. \A x \in out["RSE_pass"] : x[1] # func_num /\ Named(x)
      BY <2>1, <1>1, <1>2 DEF Below, IndexInv
    <3>3. QED
      BY <3>1, <3>2, <1>1, OtherRow
  <2>2. CASE pass # "RSE_pass"
    BY <2>2 DEF IndexInv, InsertInvokeLock, Indexed, Named
  <2>3. QED
    BY <2>1, <2>2
<1>5. out' \in [Pass -> {out'[p] : p \in Pass}]
  BY DEF PassTypes, InsertInvokeLock
<1>6. QED
  BY <1>1, <1>3, <1>4, <1>5, NextOptKeeps
     DEF InsertInvokeLock, CountInv, IdentityInv

LEMMA EndFunctionKeeps ==
  PassInv /\ file <= Len(program) /\ EndFunction => PassInv'
<1> SUFFICES ASSUME PassInv, file <= Len(program), EndFunction PROVE PassInv'
  OBVIOUS
<1> USE DEF PassInv
<1>1. func > 0
  BY FunctionsType DEF EndFunction
<1>2. /\ saved' = [saved EXCEPT ![pass] = func_num]
      /\ saved[pass] <= func_num /\ func_num \in Nat
      /\ saved \in [Pass -> Nat] /\ pass \in Pass
  BY <1>1 DEF EndFunction, SavesTo, CountInv, PassTypes
<1>3. PassTypes'
  BY <1>2 DEF PassTypes, EndFunction
<1>4. \A p \in Pass : Below(out[p], saved'[p])
  <2> TAKE p \in Pass
  <2>1. Below(out[p], saved[p]) /\ saved[p] \in Nat /\ saved'[p] \in Nat
        /\ saved[p] <= saved'[p]
    BY <1>2 DEF CountInv
  <2>2. QED
    BY <2>1 DEF Below
<1>5. CountInv'
  <2>1. Below(planted, func_num) /\ saved'[pass] = func_num
    BY <1>1, <1>2 DEF CountInv
  <2>2. func' > 0 /\ func' # 0
    BY <1>1 DEF EndFunction, PassTypes
  <2>3. QED
    BY <1>2, <1>4, <2>1, <2>2 DEF CountInv, EndFunction
<1>6. IdentityInv' /\ IndexInv'
  BY DEF IdentityInv, IndexInv, EndFunction, Named, OneSite
<1>7. QED
  BY <1>3, <1>5, <1>6

LEMMA WriteModuleKeeps ==
  PassInv /\ file <= Len(program) /\ WriteModule => PassInv'
<1> SUFFICES ASSUME PassInv, file <= Len(program), WriteModule PROVE PassInv'
  OBVIOUS
<1> USE DEF PassInv
<1>1. /\ out' = [out EXCEPT ![pass] = @ \cup planted]
      /\ pass \in Pass /\ "RSE_pass" \in Pass
      /\ DOMAIN out = Pass
  BY DEF WriteModule, PassTypes, Pass
<1>2. /\ out'[pass] = out[pass] \cup planted
      /\ \A p \in Pass \ {pass} : out'[p] = out[p]
      /\ DOMAIN out' = Pass
  BY <1>1
<1>3. Below(planted, saved[pass])
  BY DEF WriteModule, CountInv
<1>4. \A p \in Pass : Below(out'[p], saved[p])
  BY <1>2, <1>3 DEF CountInv, Below
<1>5. \A p \in Pass : OneSite(out'[p])
  <2>1. \A x \in planted, y \in out[pass] :
          y[1] < x[1] /\ x[1] \in Nat /\ y[1] \in Nat
    BY <1>1, <1>3 DEF CountInv, Below
  <2>2. OneSite(out[pass] \cup planted)
    BY <2>1, <1>1 DEF IdentityInv, OneSite
  <2>3. QED
    BY <1>2, <2>2 DEF IdentityInv
<1>6. \A x \in out'["RSE_pass"] : Named(x)'
  <2>1. \A x : Named(x)' <=> Named(x)
    BY DEF WriteModule, Named
  <2>2. QED
    BY <1>1, <1>2, <2>1 DEF IndexInv
<1>7. out' \in [Pass -> {out'[p] : p \in Pass}]
  BY <1>1
<1>8. QED
  BY <1>4, <1>5, <1>6, <1>7, NextOptKeeps DEF WriteModule, PassTypes

LEMMA StepPassInv == PassInv /\ [Next]_vars => PassInv'
<1> SUFFICES ASSUME PassInv, [Next]_vars PROVE PassInv'
  OBVIOUS
<1>1. CASE file <= Len(program) /\ Start
  BY <1>1, StartKeeps
<1>2. CASE file <= Len(program) /\ Insert
  BY <1>2, InsertKeeps
<1>3. CASE file <= Len(program) /\ Skip
  BY <1>3, SkipKeeps
<1>4. CASE file <= Len(program) /\ InsertInvokeLock
  BY <1>4, InsertInvokeLockKeeps
<1>5. CASE file <= Len(program) /\ EndFunction
  BY <1>5, EndFunctionKeeps
<1>6. CASE file <= Len(program) /\ WriteModule
  BY <1>6, WriteModuleKeeps
<1>7. CASE UNCHANGED vars
  <2>1. \A x : Named(x)' <=> Named(x)
    BY <1>7 DEF vars, Named
  <2>2. PassTypes'
    BY <1>7 DEF vars, PassInv, PassTypes
  <2>3. CountInv' /\ IdentityInv'
    BY <1>7 DEF vars, PassInv, CountInv, IdentityInv, Functions
  <2>4. QED
    BY <1>7, <2>1, <2>2, <2>3 DEF vars, PassInv, IndexInv
<1>8. QED
  BY <1>1, <1>2, <1>3, <1>4, <1>5, <1>6, <1>7 DEF Next, Built

LEMMA AlwaysPassInv == Spec => []PassInv
BY InitPassInv, StepPassInv, PTL DEF Spec

-----------------------------------------------------------------------------

\* The pass's state is well typed, every row starts with a number, and a pass
\* never counts below what it saved, for any target (custom_pass.cpp:302-311, 320-326).
THEOREM PassTypeCorrect == Spec => []TypeOK
<1>1. PassInv => TypeOK
  <2> SUFFICES ASSUME PassInv PROVE TypeOK
    OBVIOUS
  <2>1. \A r \in DOMAIN index : index[r][1] \in Nat
    BY DEF PassInv, PassTypes
  <2>2. QED
    BY <2>1 DEF PassInv, PassTypes, CountInv, TypeOK
<1>2. QED
  BY <1>1, AlwaysPassInv, PTL

\* Within one build a number stands for one site, for any target and whatever
\* the files at which opt crashes (custom_pass.cpp:302-311).
THEOREM NumbersAreUnique == Spec => []NumbersIdentify
<1>1. PassInv => NumbersIdentify
  BY DEF PassInv, IdentityInv, OneSite, NumbersIdentify
<1>2. QED
  BY <1>1, AlwaysPassInv, PTL

\* The last row of a number in function_number_ind names its site, for any
\* target and whatever rows crashes left behind (custom_pass.cpp:40-43).
THEOREM IndexNamesSites == Spec => []LastRowNamesSite
<1>1. PassInv => LastRowNamesSite
  BY DEF PassInv, IndexInv, Named, LastRowNamesSite
<1>2. QED
  BY <1>1, AlwaysPassInv, PTL
-----------------------------------------------------------------------------
(* The two builds.  Where an opt is in a file F - function g, s instructions *)
(* done - says which sites it has numbered, and their number is their count. *)

File == Seq(Seq(Instruction))

\* The sites up to a position, as pairs of function and instruction.
Done(F, g, s) ==
  {w \in Nat \X Nat :
     /\ w[1] \in DOMAIN F /\ w[2] \in DOMAIN F[w[1]]
     /\ Recognised(F[w[1]][w[2]])
     /\ w[1] < g \/ (w[1] = g /\ w[2] <= s)}
Count(F, g, s) == Cardinality(Done(F, g, s))

\* What an opt that started at number n plants in file f up to a position.
ProbeAt(F, f, n, w) ==
  <<n + Count(F, w[1], w[2] - 1), <<f, w[1], w[2]>>, ProbeFor(F[w[1]][w[2]])>>
ProbesUpTo(F, f, n, g, s) == {ProbeAt(F, f, n, w) : w \in Done(F, g, s)}

\* Where opt does not crash, and the function it crashes in, or the last plus 1.
NoCrash(F, g, s) == \A w \in Done(F, g, s) : ~Crashes(F[w[1]][w[2]])
EndsIn(F, e) ==
  /\ e \in 1 .. Len(F) + 1
  /\ NoCrash(F, e, 0)
  /\ e <= Len(F) => \E i \in DOMAIN F[e] :
                      Recognised(F[e][i]) /\ Crashes(F[e][i])

LEMMA DoneAtStart ==
  ASSUME NEW F \in File
  PROVE  Done(F, 1, 0) = {}
BY DEF Done, File

LEMMA DoneNext ==
  ASSUME NEW F \in File, NEW g \in DOMAIN F, NEW s \in Nat, s < Len(F[g])
  PROVE  /\ <<g, s + 1>> \notin Done(F, g, s)
         /\ Recognised(F[g][s + 1]) =>
              Done(F, g, s + 1) = Done(F, g, s) \cup {<<g, s + 1>>}
         /\ ~Recognised(F[g][s + 1]) => Done(F, g, s + 1) = Done(F, g, s)
<1>1. g \in Nat /\ F[g] \in Seq(Instruction) /\ s + 1 \in DOMAIN F[g]
  BY DEF File
<1>2. <<g, s + 1>> \notin Done(F, g, s)
  BY <1>1 DEF Done
<1>3. ASSUME NEW w \in Nat \X Nat
      PROVE  w[1] = g /\ w[2] <= s + 1 <=>
               (w[1] = g /\ w[2] <= s) \/ w = <<g, s + 1>>
  BY <1>1
<1>4. CASE Recognised(F[g][s + 1])
  <2>1. <<g, s + 1>> \in Done(F, g, s + 1)
    BY <1>1, <1>4 DEF Done
  <2>2. \A w : w \in Done(F, g, s + 1) <=>
                 w \in Done(F, g, s) \/ w = <<g, s + 1>>
    BY <1>3, <2>1 DEF Done
  <2>3. QED
    BY <1>2, <1>4, <2>2
<1>5. CASE ~Recognised(F[g][s + 1])
  BY <1>2, <1>3, <1>5 DEF Done
<1>6. QED
  BY <1>4, <1>5

LEMMA DoneNextFunction ==
  ASSUME NEW F \in File, NEW g \in DOMAIN F
  PROVE  Done(F, g + 1, 0) = Done(F, g, Len(F[g]))
<1>1. g \in Nat /\ F[g] \in Seq(Instruction) /\ DOMAIN F[g] = 1 .. Len(F[g])
      /\ Len(F[g]) \in Nat
  BY DEF File
<1>2. ASSUME NEW w \in Nat \X Nat, w[1] \in DOMAIN F, w[2] \in DOMAIN F[w[1]]
      PROVE  w[1] < g + 1 \/ (w[1] = g + 1 /\ w[2] <= 0) <=>
             w[1] < g \/ (w[1] = g /\ w[2] <= Len(F[g]))
  <2>1. w[1] \in Nat /\ w[2] \in Nat /\ w[2] # 0
    BY <1>2 DEF File
  <2>2. w[1] = g => w[2] <= Len(F[g])
    BY <1>1, <1>2
  <2>3. QED
    BY <1>1, <2>1, <2>2
<1>3. QED
  BY <1>2 DEF Done

\* A position further on has done at least as much.
LEMMA DoneGrows ==
  ASSUME NEW F \in File, NEW g \in Nat, NEW h \in Nat, g <= h, NEW s \in Nat
  PROVE  Done(F, g, 0) \subseteq Done(F, h, s)
<1>1. ASSUME NEW w \in Done(F, g, 0)
      PROVE  w[2] # 0 /\ w[2] \in Nat /\ w[1] \in Nat
  BY DEF Done, File
<1>2. QED
  BY <1>1 DEF Done

-----------------------------------------------------------------------------

Position ==
  /\ file <= Len(program) =>
       /\ func <= Len(Functions) + 1
       /\ func \in DOMAIN Functions => site <= Len(Instructions)
       /\ func = Len(Functions) + 1 => site = 0
  /\ file > Len(program) => func = 0

\* The running opt started at number n.
RunsFrom(n) ==
  /\ func = 0 => planted = {} /\ saved[pass] = n
  /\ func > 0 =>
       /\ IsFiniteSet(Done(Functions, func, site))
       /\ func_num = n + Count(Functions, func, site)
       /\ saved[pass] = n + Count(Functions, func, 0)
       /\ planted = ProbesUpTo(Functions, file, n, func, site)
       /\ NoCrash(Functions, func, site)

\* What RSE_pass left of the file TLE_pass works on, when both started at n.
Left(n, e) ==
  /\ EndsIn(Functions, e)
  /\ saved["RSE_pass"] = n + Count(Functions, e, 0)
  /\ out["RSE_pass"] =
       out["TLE_pass"] \cup
         IF e > Len(Functions) THEN ProbesUpTo(Functions, file, n, e, 0) ELSE {}

AgreeInv ==
  /\ Position
  /\ pass = "RSE_pass" => /\ out["RSE_pass"] = out["TLE_pass"]
                          /\ RunsFrom(saved["TLE_pass"])
  /\ pass = "TLE_pass" => /\ file <= Len(program)
                          /\ \E n \in Nat : RunsFrom(n) /\ \E e : Left(n, e)

\* No two functions are the one opt ends in.
LEMMA EndsOnce ==
  ASSUME NEW F \in File, NEW e, EndsIn(F, e), NEW g \in 1 .. Len(F) + 1,
         NoCrash(F, g, 0),
         g <= Len(F) => \E i \in DOMAIN F[g] :
                          Recognised(F[g][i]) /\ Crashes(F[g][i])
  PROVE  e = g
<1> DEFINE CrashIn(h) ==
      \E i \in DOMAIN F[h] : Recognised(F[h][i]) /\ Crashes(F[h][i])
<1>1. ASSUME NEW h \in DOMAIN F, NEW k \in Nat, CrashIn(h), NoCrash(F, k, 0)
      PROVE  k <= h
  <2>1. PICK i \in DOMAIN F[h] : Recognised(F[h][i]) /\ Crashes(F[h][i])
    BY <1>1
  <2>2. h \in Nat /\ i \in Nat
    BY DEF File
  <2>3. h < k => <<h, i>> \in Done(F, k, 0)
    BY <2>1, <2>2 DEF Done
  <2>4. QED
    BY <1>1, <2>1, <2>2, <2>3 DEF NoCrash
<1>2. /\ e \in 1 .. Len(F) + 1 /\ NoCrash(F, e, 0)
      /\ e <= Len(F) => CrashIn(e)
      /\ g <= Len(F) => CrashIn(g)
      /\ Len(F) \in Nat /\ DOMAIN F = 1 .. Len(F)
  BY DEF EndsIn, File
<1> HIDE DEF CrashIn
<1>3. e <= g
  BY <1>1, <1>2
<1>4. g <= e
  BY <1>1, <1>2
<1>5. QED
  BY <1>2, <1>3, <1>4

LEMMA InitAgree == Init => AgreeInv
<1> SUFFICES ASSUME Init PROVE AgreeInv
  OBVIOUS
<1>1. program \in Seq(Seq(Seq(Instruction))) /\ Len(program) \in Nat
  BY PassAssumption DEF Init
<1>2. func = 0 /\ site = 0 /\ file = 1 /\ pass = "RSE_pass" /\ planted = {}
      /\ saved["RSE_pass"] = 0 /\ saved["TLE_pass"] = 0
      /\ out["RSE_pass"] = out["TLE_pass"]
  BY DEF Init, Pass
<1>3. Position
  <2>1. file <= Len(program) => Functions \in File
    BY <1>1, <1>2 DEF Functions, File
  <2>2. QED
    BY <1>2, <2>1 DEF Position, File
<1>4. QED
  BY <1>2, <1>3 DEF AgreeInv, RunsFrom

\* A step of one opt that is not its last.
LEMMA SamePassKeeps ==
  ASSUME PassTypes, AgreeInv, Position',
         UNCHANGED <<program, file, pass, out>>,
         \A p \in Pass \ {pass} : saved'[p] = saved[p],
         \A n \in Nat : RunsFrom(n) => RunsFrom(n)'
  PROVE  AgreeInv'
<1>1. CASE pass = "RSE_pass"
  <2>1. saved["TLE_pass"] \in Nat /\ saved'["TLE_pass"] = saved["TLE_pass"]
    BY <1>1 DEF PassTypes, Pass
  <2>2. RunsFrom(saved["TLE_pass"])'
    BY <1>1, <2>1 DEF AgreeInv, RunsFrom
  <2>3. QED
    BY <1>1, <2>2 DEF AgreeInv
<1>2. CASE pass = "TLE_pass"
  <2>1. PICK n \in Nat : RunsFrom(n) /\ \E e : Left(n, e)
    BY <1>2 DEF AgreeInv
  <2>2. PICK e : Left(n, e)
    BY <2>1
  <2>3. saved'["RSE_pass"] = saved["RSE_pass"]
    BY <1>2 DEF Pass
  <2>4. Left(n, e)'
    BY <2>2, <2>3 DEF Left, Functions
  <2>5. RunsFrom(n)'
    BY <2>1
  <2>6. QED
    BY <1>2, <2>4, <2>5 DEF AgreeInv
<1>3. QED
  BY <1>1, <1>2 DEF PassTypes, Pass

LEMMA StartAgrees ==
  ASSUME PassInv, AgreeInv, file <= Len(program), Start PROVE AgreeInv'
<1>1. /\ func = 0 /\ func' = 1 /\ site' = 0 /\ func_num' = saved[pass]
      /\ planted' = {} /\ UNCHANGED <<program, file, pass, saved, out>>
  BY DEF Start, StartsAt
<1>2. Functions \in File /\ Functions' = Functions
  BY <1>1, FunctionsType DEF PassInv, File, Functions
<1>3. Position'
  <2>1. /\ Len(Functions) \in Nat /\ DOMAIN Functions = 1 .. Len(Functions)
        /\ 1 \in DOMAIN Functions => Len(Functions[1]) \in Nat
    BY <1>2 DEF File
  <2>2. /\ Len(program') = Len(program) /\ file' = file
        /\ Len(program) \in Nat /\ file \in Nat
    BY <1>1 DEF PassInv, PassTypes
  <2>3. Instructions' = Functions[1]
    BY <1>1, <1>2 DEF Instructions
  <2>4. QED
    BY <1>1, <1>2, <2>1, <2>2, <2>3 DEF Position
<1>4. Done(Functions, 1, 0) = {} /\ Count(Functions, 1, 0) = 0
      /\ IsFiniteSet(Done(Functions, 1, 0))
  BY <1>2, DoneAtStart, FS_EmptySet DEF Count
<1>5. ASSUME NEW n \in Nat, RunsFrom(n) PROVE RunsFrom(n)'
  <2>1. saved[pass] = n
    BY <1>1, <1>5 DEF RunsFrom
  <2>2. ProbesUpTo(Functions, file, n, 1, 0) = {}
    BY <1>4 DEF ProbesUpTo
  <2>3. NoCrash(Functions, 1, 0)
    BY <1>4 DEF NoCrash
  <2>4. n + 0 = n
    OBVIOUS
  <2>5. QED
    BY <1>1, <1>2, <1>4, <2>1, <2>2, <2>3, <2>4 DEF RunsFrom
<1>6. QED
  BY <1>1, <1>3, <1>5, SamePassKeeps DEF PassInv

\* The position of an opt that is at an instruction.
LEMMA AtSite ==
  ASSUME PassTypes, AgreeInv, file <= Len(program), AtInstruction
  PROVE  /\ Functions \in File /\ func \in DOMAIN Functions /\ func > 0
         /\ site \in Nat /\ site < Len(Functions[func])
         /\ This = Functions[func][site + 1]
         /\ Here = <<file, func, site + 1>>
<1>1. Functions \in File
  BY FunctionsType DEF File
<1>2. QED
  BY <1>1 DEF AtInstruction, Instructions, This, Here, PassTypes, File

LEMMA InsertAgrees ==
  ASSUME PassInv, AgreeInv, file <= Len(program), Insert PROVE AgreeInv'
<1> DEFINE F == Functions
<1>1. /\ func' = func /\ site' = site + 1 /\ func_num' = func_num + 1
      /\ planted' = planted \cup {<<func_num, Here, ProbeFor(This)>>}
      /\ UNCHANGED <<program, file, pass, saved, out>>
      /\ Recognised(This) /\ ~Crashes(This) /\ AtInstruction
  BY DEF Insert, Probe
<1>2. /\ F \in File /\ func \in DOMAIN F /\ func > 0
      /\ site \in Nat /\ site < Len(F[func])
      /\ This = F[func][site + 1] /\ Here = <<file, func, site + 1>>
  BY <1>1, AtSite DEF PassInv
<1>3. F' = F
  BY <1>1 DEF Functions
<1>4. Position'
  BY <1>1, <1>2, <1>3 DEF Position, AgreeInv, File, Instructions
<1>5. /\ Done(F, func, site + 1) = Done(F, func, site) \cup {<<func, site + 1>>}
      /\ <<func, site + 1>> \notin Done(F, func, site)
  BY <1>1, <1>2, DoneNext
<1> HIDE DEF F
<1>6. ASSUME NEW n \in Nat, RunsFrom(n) PROVE RunsFrom(n)'
  <2>1. /\ IsFiniteSet(Done(F, func, site))
        /\ func_num = n + Count(F, func, site)
        /\ saved[pass] = n + Count(F, func, 0)
        /\ planted = ProbesUpTo(F, file, n, func, site)
        /\ NoCrash(F, func, site)
    BY <1>2, <1>6 DEF RunsFrom, F
  <2>2. /\ IsFiniteSet(Done(F, func, site + 1))
        /\ Count(F, func, site + 1) = Count(F, func, site) + 1
        /\ Count(F, func, site) \in Nat
    BY <1>5, <2>1, FS_AddElement, FS_CardinalityType DEF Count
  <2>3. func_num + 1 = n + Count(F, func, site + 1)
    BY <2>1, <2>2
  <2>4. ProbeAt(F, file, n, <<func, site + 1>>)
          = <<func_num, Here, ProbeFor(This)>>
    <3>1. site + 1 - 1 = site
      BY <1>2
    <3>2. QED
      BY <1>2, <2>1, <3>1 DEF ProbeAt
  <2>5. planted' = ProbesUpTo(F, file, n, func, site + 1)
    BY <1>1, <1>5, <2>1, <2>4 DEF ProbesUpTo
  <2>6. NoCrash(F, func, site + 1)
    BY <1>1, <1>2, <1>5, <2>1 DEF NoCrash
  <2>7. QED
    BY <1>1, <1>2, <1>3, <2>1, <2>2, <2>3, <2>5, <2>6 DEF RunsFrom, F
<1>7. QED
  BY <1>1, <1>4, <1>6, SamePassKeeps DEF PassInv

LEMMA SkipAgrees ==
  ASSUME PassInv, AgreeInv, file <= Len(program), Skip PROVE AgreeInv'
<1> DEFINE F == Functions
<1>1. /\ func' = func /\ site' = site + 1
      /\ UNCHANGED <<program, file, pass, func_num, saved, planted, out>>
      /\ ~Recognised(This) /\ AtInstruction
  BY DEF Skip
<1>2. /\ F \in File /\ func \in DOMAIN F /\ func > 0
      /\ site \in Nat /\ site < Len(F[func])
      /\ This = F[func][site + 1]
  BY <1>1, AtSite DEF PassInv
<1>3. F' = F
  BY <1>1 DEF Functions
<1>4. Position'
  BY <1>1, <1>2, <1>3 DEF Position, AgreeInv, File, Instructions
<1>5. Done(F, func, site + 1) = Done(F, func, site)
  BY <1>1, <1>2, DoneNext
<1>6. ASSUME NEW n \in Nat, RunsFrom(n) PROVE RunsFrom(n)'
  BY <1>1, <1>2, <1>3, <1>5, <1>6
  DEF RunsFrom, Count, ProbesUpTo, NoCrash
<1>7. QED
  BY <1>1, <1>4, <1>6, SamePassKeeps DEF PassInv

LEMMA EndFunctionAgrees ==
  ASSUME PassInv, AgreeInv, file <= Len(program), EndFunction PROVE AgreeInv'
<1> DEFINE F == Functions
<1>1. /\ func \in DOMAIN F /\ site = Len(F[func])
      /\ func' = func + 1 /\ site' = 0
      /\ saved' = [saved EXCEPT ![pass] = func_num]
      /\ UNCHANGED <<program, file, pass, func_num, planted, out>>
  BY DEF EndFunction, SavesTo, Instructions
<1>2. F \in File /\ F' = F /\ func \in Nat /\ func > 0
  <2>1. F \in File
    BY FunctionsType DEF PassInv, File
  <2>2. QED
    BY <1>1, <2>1 DEF Functions, File
<1>3. Position'
  BY <1>1, <1>2 DEF Position, AgreeInv, File, Instructions
<1>4. Done(F, func + 1, 0) = Done(F, func, site)
  BY <1>1, <1>2, DoneNextFunction
<1>5. saved'[pass] = func_num /\ \A p \in Pass \ {pass} : saved'[p] = saved[p]
  BY <1>1 DEF PassInv, PassTypes
<1>6. ASSUME NEW n \in Nat, RunsFrom(n) PROVE RunsFrom(n)'
  BY <1>1, <1>2, <1>4, <1>5, <1>6 DEF RunsFrom, Count, ProbesUpTo, NoCrash
<1>7. QED
  BY <1>1, <1>3, <1>5, <1>6, SamePassKeeps DEF PassInv

\* RSE_pass ends, at the end of its file or in a crash: TLE_pass will start at
\* the same number.
LEMMA HandOver ==
  ASSUME PassInv, AgreeInv, pass = "RSE_pass", file <= Len(program), NextOpt,
         UNCHANGED <<program, saved>>,
         NEW n \in Nat, n = saved["TLE_pass"], NEW e, Left(n, e)'
  PROVE  AgreeInv'
<1>1. func' = 0 /\ site' = 0 /\ planted' = {} /\ pass' = "TLE_pass"
      /\ file' = file
  BY DEF NextOpt
<1>2. saved'["TLE_pass"] = n
  OBVIOUS
<1>3. Position'
  <2>1. Functions \in File /\ Functions' = Functions
    BY <1>1, FunctionsType DEF PassInv, File, Functions
  <2>2. Len(Functions) \in Nat
    BY <2>1 DEF File
  <2>3. QED
    BY <1>1, <2>1, <2>2 DEF Position, Functions, File
<1>4. RunsFrom(n)'
  BY <1>1, <1>2 DEF RunsFrom
<1>5. QED
  BY <1>1, <1>2, <1>3, <1>4 DEF AgreeInv

\* TLE_pass ends as RSE_pass did: the next file starts with equal numbers.
LEMMA NextFile ==
  ASSUME PassInv, AgreeInv, pass = "TLE_pass", file <= Len(program), NextOpt,
         UNCHANGED <<program, saved>>,
         saved["RSE_pass"] = saved["TLE_pass"],
         out'["RSE_pass"] = out'["TLE_pass"]
  PROVE  AgreeInv'
<1>1. func' = 0 /\ site' = 0 /\ planted' = {} /\ pass' = "RSE_pass"
      /\ file' = file + 1 /\ file \in Nat
  BY DEF NextOpt, PassInv, PassTypes
<1>2. Position'
  <2>1. ASSUME file' <= Len(program') PROVE Len(Functions') \in Nat
    <3>1. /\ program' \in Seq(Seq(Seq(Instruction)))
          /\ file' \in 1 .. Len(program')
      BY <1>1, <2>1 DEF PassInv, PassTypes
    <3>2. QED
      BY <3>1 DEF Functions
  <2>2. QED
    BY <1>1, <2>1 DEF Position
<1>3. saved'[pass'] = saved'["TLE_pass"]
  BY <1>1
<1>4. RunsFrom(saved["TLE_pass"])'
  BY <1>1, <1>3 DEF RunsFrom
<1>5. QED
  BY <1>1, <1>2, <1>4 DEF AgreeInv

LEMMA CrashAgrees ==
  ASSUME PassInv, AgreeInv, file <= Len(program), InsertInvokeLock
  PROVE  AgreeInv'
<1> DEFINE F == Functions
<1>1. /\ AtInstruction /\ Recognised(This) /\ Crashes(This)
      /\ NextOpt /\ UNCHANGED <<program, saved, out>>
  BY DEF InsertInvokeLock
<1>2. /\ F \in File /\ func \in DOMAIN F /\ func > 0
      /\ site \in Nat /\ site < Len(F[func])
      /\ This = F[func][site + 1]
  BY <1>1, AtSite DEF PassInv
<1>3. /\ func \in 1 .. Len(F) + 1 /\ func <= Len(F) /\ Len(F) \in Nat
      /\ site + 1 \in DOMAIN F[func]
  BY <1>2 DEF File
<1> HIDE DEF F
<1>4. ASSUME NEW n \in Nat, RunsFrom(n)
      PROVE  saved[pass] = n + Count(F, func, 0) /\ NoCrash(F, func, 0)
  <2>1. NoCrash(F, func, site) /\ saved[pass] = n + Count(F, func, 0)
    BY <1>2, <1>4 DEF RunsFrom, F
  <2>2. Done(F, func, 0) \subseteq Done(F, func, site)
    BY <1>2, <1>3, DoneGrows
  <2>3. QED
    BY <2>1, <2>2 DEF NoCrash
<1>5. CASE pass = "RSE_pass"
  <2>1. /\ saved["TLE_pass"] \in Nat /\ RunsFrom(saved["TLE_pass"])
        /\ out["RSE_pass"] = out["TLE_pass"]
    BY <1>5 DEF AgreeInv, PassInv, PassTypes, Pass
  <2>n. PICK n \in Nat : n = saved["TLE_pass"] /\ RunsFrom(n)
    BY <2>1
  <2>e. PICK e : e = func
    OBVIOUS
  <2>2. saved["RSE_pass"] = n + Count(F, func, 0) /\ NoCrash(F, func, 0)
    BY <1>4, <1>5, <2>n
  <2>3. EndsIn(F, e)
    BY <1>1, <1>2, <1>3, <2>e, <2>2 DEF EndsIn
  <2>4. Functions' = F
    BY <1>1, <1>5 DEF NextOpt, Functions, F
  <2>5. Left(n, e)'
    BY <1>1, <1>3, <2>1, <2>e, <2>2, <2>3, <2>4 DEF Left, F
  <2>6. QED
    BY <1>1, <1>5, <2>n, <2>5, HandOver
<1>6. CASE pass = "TLE_pass"
  <2>1. PICK n \in Nat : RunsFrom(n) /\ \E e : Left(n, e)
    BY <1>6 DEF AgreeInv
  <2>2. PICK e : Left(n, e)
    BY <2>1
  <2>3. saved["TLE_pass"] = n + Count(F, func, 0) /\ NoCrash(F, func, 0)
    BY <1>4, <1>6, <2>1
  <2>4. e = func
    <3>1. EndsIn(F, e)
      BY <2>2 DEF Left, F
    <3>2. QED
      BY <1>1, <1>2, <1>3, <2>3, <3>1, EndsOnce
  <2>5. saved["RSE_pass"] = saved["TLE_pass"]
        /\ out["RSE_pass"] = out["TLE_pass"]
    BY <1>3, <2>2, <2>3, <2>4 DEF Left, F
  <2>6. QED
    BY <1>1, <1>6, <2>5, NextFile
<1>7. QED
  BY <1>5, <1>6 DEF PassInv, PassTypes, Pass

LEMMA WriteModuleAgrees ==
  ASSUME PassInv, AgreeInv, file <= Len(program), WriteModule
  PROVE  AgreeInv'
<1> DEFINE F == Functions
           last == Len(F) + 1
<1>1. /\ func > Len(F) /\ NextOpt /\ UNCHANGED <<program, saved>>
      /\ out' = [out EXCEPT ![pass] = @ \cup planted]
  BY DEF WriteModule
<1>2. F \in File /\ Len(F) \in Nat /\ func \in Nat
  BY FunctionsType DEF PassInv, PassTypes, File
<1>3. func = last /\ site = 0 /\ func > 0 /\ last \in 1 .. Len(F) + 1
      /\ last > Len(F)
  BY <1>1, <1>2 DEF AgreeInv, Position
<1>4. /\ out'[pass] = out[pass] \cup planted
      /\ \A p \in Pass \ {pass} : out'[p] = out[p]
  BY <1>1 DEF PassInv, PassTypes
<1> HIDE DEF F, last
<1>5. ASSUME NEW n \in Nat, RunsFrom(n)
      PROVE  /\ saved[pass] = n + Count(F, last, 0)
             /\ planted = ProbesUpTo(F, file, n, last, 0)
             /\ NoCrash(F, last, 0)
  BY <1>3, <1>5 DEF RunsFrom, F
<1>6. CASE pass = "RSE_pass"
  <2>1. /\ saved["TLE_pass"] \in Nat /\ RunsFrom(saved["TLE_pass"])
        /\ out["RSE_pass"] = out["TLE_pass"]
    BY <1>6 DEF AgreeInv, PassInv, PassTypes, Pass
  <2>n. PICK n \in Nat : n = saved["TLE_pass"] /\ RunsFrom(n)
    BY <2>1
  <2>e. PICK e : e = last
    OBVIOUS
  <2>2. /\ saved["RSE_pass"] = n + Count(F, last, 0)
        /\ planted = ProbesUpTo(F, file, n, last, 0)
        /\ NoCrash(F, last, 0)
    BY <1>5, <1>6, <2>n
  <2>3. EndsIn(F, e)
    BY <1>2, <1>3, <2>e, <2>2 DEF EndsIn
  <2>4. Functions' = F /\ file' = file
    BY <1>1, <1>6 DEF NextOpt, Functions, F
  <2>5. out'["RSE_pass"] = out["RSE_pass"] \cup planted
        /\ out'["TLE_pass"] = out["TLE_pass"]
    BY <1>4, <1>6 DEF Pass
  <2>6. Left(n, e)'
    BY <1>1, <1>3, <2>1, <2>e, <2>2, <2>3, <2>4, <2>5 DEF Left
  <2>7. QED
    BY <1>1, <1>6, <2>n, <2>6, HandOver
<1>7. CASE pass = "TLE_pass"
  <2>1. PICK n \in Nat : RunsFrom(n) /\ \E e : Left(n, e)
    BY <1>7 DEF AgreeInv
  <2>2. PICK e : Left(n, e)
    BY <2>1
  <2>3. /\ saved["TLE_pass"] = n + Count(F, last, 0)
        /\ planted = ProbesUpTo(F, file, n, last, 0)
        /\ NoCrash(F, last, 0)
    BY <1>5, <1>7, <2>1
  <2>4. e = last
    <3>1. EndsIn(F, e)
      BY <2>2 DEF Left, F
    <3>2. ~(last <= Len(F))
      BY <1>2, <1>3
    <3>3. QED
      BY <1>2, <1>3, <2>3, <3>1, <3>2, EndsOnce
  <2>5. out'["TLE_pass"] = out["TLE_pass"] \cup planted
        /\ out'["RSE_pass"] = out["RSE_pass"]
    BY <1>4, <1>7 DEF Pass
  <2>6. saved["RSE_pass"] = saved["TLE_pass"]
        /\ out'["RSE_pass"] = out'["TLE_pass"]
    BY <1>3, <2>2, <2>3, <2>4, <2>5 DEF Left, F
  <2>7. QED
    BY <1>1, <1>7, <2>6, NextFile
<1>8. QED
  BY <1>6, <1>7 DEF PassInv, PassTypes, Pass

LEMMA StepAgrees == PassInv /\ AgreeInv /\ [Next]_vars => AgreeInv'
<1> SUFFICES ASSUME PassInv, AgreeInv, [Next]_vars PROVE AgreeInv'
  OBVIOUS
<1>1. CASE UNCHANGED vars
  BY <1>1 DEF vars, AgreeInv, Position, RunsFrom, Left, Functions, Instructions
<1>2. CASE file <= Len(program) /\
           (Start \/ Insert \/ Skip \/ InsertInvokeLock \/ EndFunction
              \/ WriteModule)
  BY <1>2, StartAgrees, InsertAgrees, SkipAgrees, CrashAgrees,
     EndFunctionAgrees, WriteModuleAgrees
<1>3. QED
  BY <1>1, <1>2 DEF Next, Built

\* For any target, however many files and wherever opt crashes in them, the
\* recorded and the replayed build number their sites alike and hold the same
\* files (custom_pass.cpp:302-311, 320-326, 363-370; build.sh:27-32).
THEOREM BuildsNumberAlike == Spec => []BuildsAgree
<1>1. AgreeInv => BuildsAgree
  BY DEF AgreeInv, BuildsAgree
<1>2. QED
  BY <1>1, InitAgree, StepAgrees, AlwaysPassInv, PTL DEF Spec
=============================================================================
