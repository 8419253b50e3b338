----------------------------- MODULE Recursion -----------------------------
(***************************************************************************)
(* Induction over the naturals without a predicate variable, and what it    *)
(* gives for functions that are defined by recursion on 0 .. n: there is    *)
(* one, with the values expected of it.  The proofs about recorded          *)
(* sequences (ProbeRSEProofs) and about paths (PathNormProofs) unroll their *)
(* recursive functions with it.                                             *)
(***************************************************************************)
EXTENDS Integers, WellFoundedInduction, TLAPS

\* A set of naturals that holds 0 and the successors of its elements, up to n,
\* holds all of 0 .. n: else there would be a least one missing.
LEMMA IntervalInduction ==
  ASSUME NEW S, NEW n \in Nat, 0 \in S,
         \A k \in 1 .. n : k - 1 \in S => k \in S
  PROVE  0 .. n \subseteq S
<1> DEFINE Less == {ss \in Nat \X Nat : ss[1] < ss[2]}
           Missing == (0 .. n) \ S
<1>1. IsWellFoundedOn(Less, Nat)
  BY NatLessThanWellFounded DEF OpToRel
<1>2. Missing \subseteq Nat
  OBVIOUS
<1> SUFFICES ASSUME Missing # {} PROVE FALSE
  OBVIOUS
<1> HIDE DEF Less, Missing
<1>3. PICK x \in Missing : \A y \in Missing : ~(<<y, x>> \in Less)
  BY <1>1, <1>2, WFMin
<1>4. x \in 1 .. n /\ x - 1 \in 0 .. n /\ x \notin S
  BY <1>3 DEF Missing
<1>5. x - 1 \in Missing
  BY <1>4 DEF Missing
<1>6. <<x - 1, x>> \in Less
  BY <1>4 DEF Less
<1>7. QED
  BY <1>3, <1>5, <1>6

\* f is what the recursion on 0 .. n computes that starts from base and goes on
\* by step; step is a function of the argument and of the value before it.
Solves(f, T, base, step, n) ==
  /\ f \in [0 .. n -> T]
  /\ f[0] = base
  /\ \A k \in 1 .. n : f[k] = step[<<k, f[k - 1]>>]

\* A recursion on 0 .. n that starts in T and stays in T has a solution.
LEMMA RecursionExists ==
  ASSUME NEW T, NEW base \in T, NEW step \in [Nat \X T -> T], NEW n \in Nat
  PROVE  \E f : Solves(f, T, base, step, n)
<1> DEFINE Solved == {m \in Nat : \E f : Solves(f, T, base, step, m)}
<1>1. 0 \in Solved
  <2>1. Solves([k \in 0 .. 0 |-> base], T, base, step, 0)
    BY DEF Solves
  <2>2. QED
    BY <2>1
<1>2. ASSUME NEW m \in 1 .. n, m - 1 \in Solved PROVE m \in Solved
  <2>1. PICK f : Solves(f, T, base, step, m - 1)
    BY <1>2
  <2> DEFINE g == [k \in 0 .. m |-> IF k = m THEN step[<<m, f[m - 1]>>]
                                    ELSE f[k]]
  <2>2. m \in Nat /\ m - 1 \in 0 .. m - 1 /\ f[m - 1] \in T
    BY <2>1 DEF Solves
  <2>3. g \in [0 .. m -> T]
    BY <2>1, <2>2 DEF Solves
  <2>4. g[0] = base
    BY <2>1, <2>2 DEF Solves
  <2>5. ASSUME NEW k \in 1 .. m PROVE g[k] = step[<<k, g[k - 1]>>]
    <3>1. g[k - 1] = f[k - 1]
      BY <2>2
    <3>2. CASE k = m
      BY <3>1, <3>2
    <3>3. CASE k # m
      BY <2>1, <3>1, <3>3 DEF Solves
    <3>4. QED
      BY <3>2, <3>3
  <2>6. Solves(g, T, base, step, m)
    BY <2>3, <2>4, <2>5 DEF Solves
  <2>7. QED
    BY <2>2, <2>6
<1>3. n \in Solved
  <2> HIDE DEF Solved
  <2>1. 0 .. n \subseteq Solved
    BY <1>1, <1>2, IntervalInduction
  <2>2. QED
    BY <2>1
<1>4. QED
  BY <1>3
=============================================================================
