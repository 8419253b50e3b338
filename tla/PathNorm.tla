------------------------------ MODULE PathNorm ------------------------------
(***************************************************************************)
(* The loop that takes the ".." out of a probe's file path, in place, in    *)
(* __record_thread_structure (probe_RSE.rs) and again in write_log          *)
(* (probe_ERR.rs).  A path is the sequence of its components.               *)
(***************************************************************************)
EXTENDS Integers, SequencesExt

CONSTANTS
  Name,     \* components other than ".."
  DotDot,   \* ".."
  MaxLen    \* bound: components of a path

ASSUME PathAssumption == DotDot \notin Name /\ MaxLen \in Nat

Path == BoundedSeq(Name \cup {DotDot}, MaxLen)

VARIABLES
  path,     \* history: the argument file_path
  vec,      \* str_vec
  i,        \* the loop's index, counted from 0 as in the code
  status    \* where the call is: in the loop, returned or panicked

vars == <<path, vec, i, status>>

Init ==
  /\ path \in Path
  /\ vec = path
  /\ i = 0
  /\ status = "loop"

AtDotDot == i < Len(vec) /\ vec[i + 1] = DotDot

Keep ==
  /\ status = "loop"
  /\ i < Len(vec) /\ ~AtDotDot
  /\ i' = i + 1
  /\ UNCHANGED <<path, vec, status>>

\* str_vec.remove(i), str_vec.remove(i - 1).  (The mutants remove only "..", or
\* remove the two from a copy.)
WithoutDotDot(v, k) == RemoveAt(v, k + 1)
FromACopy(v, k) == v
WithoutPair(v, k) == RemoveAt(RemoveAt(v, k + 1), k)

\* i -= 2 and then i += 1.  (The mutant forgets the first.)
StepsOn(k) == k + 1
StepsBack(k) == k - 1

Collapse ==
  /\ status = "loop"
  /\ AtDotDot /\ i >= 2
  /\ vec' = WithoutPair(vec, i)
  /\ i' = StepsBack(i)
  /\ UNCHANGED <<path, status>>

\* With i = 0 the index i - 1 overflows, with i = 1 the assignment i -= 2:
\* usize arithmetic is checked in the unoptimised build (build.sh:34-35).
Overflow ==
  /\ status = "loop"
  /\ AtDotDot /\ i < 2
  /\ status' = "panic"
  /\ UNCHANGED <<path, vec, i>>

Return ==
  /\ status = "loop"
  /\ i >= Len(vec)
  /\ status' = "done"
  /\ UNCHANGED <<path, vec, i>>

Ended == status # "loop" /\ UNCHANGED vars

Next == Keep \/ Collapse \/ Overflow \/ Return \/ Ended

Spec == Init /\ [][Next]_vars
FairSpec == Spec /\ WF_vars(Keep \/ Collapse \/ Overflow \/ Return)

-----------------------------------------------------------------------------
(* The reference: components are read once, left to right, onto a stack.    *)

\* The stack after k components, if every ".." finds something to take off.
Resolved(p) ==
  LET stack[k \in 0 .. Len(p)] ==
        IF k = 0 THEN <<>>
        ELSE IF p[k] # DotDot THEN Append(stack[k - 1], p[k])
        ELSE IF stack[k - 1] = <<>> THEN <<>>
        ELSE Front(stack[k - 1])
  IN  stack

\* A ".." comes up with fewer than two components before it that are left.
Shallow(p) ==
  \E k \in 1 .. Len(p) : p[k] = DotDot /\ Len(Resolved(p)[k - 1]) < 2

-----------------------------------------------------------------------------
(* Properties.                                                              *)

\* Types; the index never leaves the vector, so str_vec[i] is never out of
\* bounds after a removal (probe_RSE.rs:201-208).
TypeOK ==
  /\ path \in Seq(Name \cup {DotDot})
  /\ vec \in Seq(Name \cup {DotDot})
  /\ i \in 0 .. Len(vec)
  /\ status \in {"loop", "done", "panic"}

\* No ".." is left in a path that was written, although removals move
\* components under the index (probe_RSE.rs:201-208).
NoDotDotLeft ==
  status = "done" => \A j \in 1 .. Len(vec) : vec[j] # DotDot

\* The components behind the index are done with.
NoDotDotBehind == \A j \in 1 .. i : vec[j] # DotDot

\* The path written is the path meant (probe_RSE.rs:199-209).
PathIsResolved == status = "done" => vec = Resolved(path)[Len(path)]

\* The panic, and with it the exit of the whole target, strikes exactly the
\* paths with a ".." less than two components deep - "a/../b" among them,
\* which climbs above nothing (probe_RSE.rs:203-205).
PanicsWhenShallow ==
  /\ status = "panic" => Shallow(path)
  /\ status = "done" => ~Shallow(path)

\* The loop ends, although the index also moves back.
Terminates == <>(status # "loop")
=============================================================================
