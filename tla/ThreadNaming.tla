---------------------------- MODULE ThreadNaming ----------------------------
(***************************************************************************)
(* What the spawn probes promise: every thread gets the name of its place   *)
(* in the spawn tree.  The main thread is "1"; the k-th child of the thread *)
(* named n is "n.k".  A name is written once, by the thread itself, some    *)
(* time after its creation, and spawns of different parents may interleave. *)
(***************************************************************************)
EXTENDS Tids

CONSTANTS
  Thread,   \* every thread the target program may run
  Main      \* the thread that runs _init_

VARIABLES
  lineage,  \* history: the place in the spawn tree a thread was created at
  kids,     \* history: the number of threads a thread has created
  tid       \* the thread-local name

namingVars == <<lineage, kids, tid>>

NamingInit ==
  /\ lineage = [t \in Thread |-> IF t = Main THEN MainTid ELSE None]
  /\ kids = [t \in Thread |-> 0]
  /\ tid = [t \in Thread |-> IF t = Main THEN MainTid ELSE None]

\* A named thread creates a new thread.
Create(p, c) ==
  /\ tid[p] # None
  /\ lineage[c] = None
  /\ lineage' = [lineage EXCEPT ![c] = ChildTid(lineage[p], kids[p] + 1)]
  /\ kids' = [kids EXCEPT ![p] = @ + 1]
  /\ UNCHANGED tid

\* The new thread learns its name.
Name(c) ==
  /\ lineage[c] # None
  /\ tid[c] = None
  /\ tid' = [tid EXCEPT ![c] = lineage[c]]
  /\ UNCHANGED <<lineage, kids>>

NamingNext ==
  \/ \E p, c \in Thread : Create(p, c)
  \/ \E c \in Thread : Name(c)

NamingSpec == NamingInit /\ [][NamingNext]_namingVars

-----------------------------------------------------------------------------

\* Types: names and places are sequences of positive child numbers, or None.
NamingTypeOK ==
  /\ lineage \in [Thread -> Seq(Nat)]
  /\ kids \in [Thread -> Nat]
  /\ tid \in [Thread -> Seq(Nat)]

\* Two threads that have a name never share it: an entry "tid-func_num" of the
\* scenario belongs to one thread, which is what replay relies on
\* (probe_RSE.rs:232, probe_ERR.rs:164-170).
UniqueTids ==
  \A t, u \in Thread : tid[t] = tid[u] /\ tid[t] # None => t = u
=============================================================================
