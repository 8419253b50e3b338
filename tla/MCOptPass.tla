----------------------------- MODULE MCOptPass ------------------------------
(***************************************************************************)
(* Small targets for OptPass: three files of functions; the first has up to *)
(* two functions of up to two instructions.                                 *)
(***************************************************************************)
EXTENDS OptPass

Ins(op, callee, located) == [op |-> op, callee |-> callee, located |-> located]

\* A closure the pass knows, a spawn it sees and two it does not, and the
\* invoke at which it crashes.
Kinds == {Ins("call", "main_closure", TRUE),
          Ins("invoke", "thread_spawn", TRUE),
          Ins("call", "thread_spawn", TRUE), Ins("invoke", "send", FALSE),
          Ins("invoke", "lock", TRUE)}

UpToOne == {<<>>} \cup {<<x>> : x \in Kinds}
UpToTwo == UpToOne \cup {<<x, y>> : x, y \in Kinds}
FirstFiles == {<<f>> : f \in UpToTwo} \cup {<<f, g>> : f, g \in UpToTwo}
LaterFiles == {<<f>> : f \in UpToOne}
SmallPrograms ==
  {<<a, b, c>> : a \in FirstFiles, b, c \in LaterFiles}
=============================================================================
