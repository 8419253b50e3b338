-------------------------------- MODULE Tids --------------------------------
(***************************************************************************)
(* Thread names.  The string "1.2.1" is the sequence <<1, 2, 1>>: Append is *)
(* format!("{}.{}", parent, k), and distinct sequences of numbers print as  *)
(* distinct strings.  "none", the value every TID starts with, is <<0>>: no *)
(* child has number 0, so it is nobody's name.                              *)
(***************************************************************************)
EXTENDS Integers, Sequences

None    == <<0>>
MainTid == <<1>>

ChildTid(parent, k) == Append(parent, k)

\* The name of a child's parent and the child's number, read off its name.
ParentTid(n)   == SubSeq(n, 1, Len(n) - 1)
ChildNumber(n) == n[Len(n)]
=============================================================================
