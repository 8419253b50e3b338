------------------------- MODULE ThreadNamingProofs -------------------------
(***************************************************************************)
(* Why naming threads by their place in the spawn tree gives every thread   *)
(* a name of its own, for any set of threads.                               *)
(*                                                                         *)
(* Uniqueness of names is not inductive: a new name differs from the old    *)
(* ones because every old one was numbered by its parent's counter.  The    *)
(* invariant therefore keeps, for every place but main's, its parent and    *)
(* its number.                                                              *)
(***************************************************************************)
EXTENDS ThreadNaming, SequenceTheorems, TLAPS

\* Names are built without loss (format!("{}.{}", ...)): parent and number can
\* be read off a name.
LEMMA ChildTidInjective ==
  ASSUME NEW n \in Seq(Nat), NEW m \in Seq(Nat), NEW j \in Nat, NEW k \in Nat,
         ChildTid(n, j) = ChildTid(m, k)
  PROVE  n = m /\ j = k
BY AppendInjective DEF ChildTid

\* A child's name is neither "none" nor "1".
LEMMA ChildTidIsNew ==
  ASSUME NEW n \in Seq(Nat), n # <<>>, NEW k \in Nat
  PROVE  /\ ChildTid(n, k) \in Seq(Nat)
         /\ Len(ChildTid(n, k)) >= 2
         /\ ChildTid(n, k) # None /\ ChildTid(n, k) # MainTid
<1>1. ChildTid(n, k) \in Seq(Nat) /\ Len(ChildTid(n, k)) = Len(n) + 1
  BY AppendProperties DEF ChildTid
<1>2. Len(n) \in Nat \ {0}
  BY EmptySeq
<1>3. Len(None) = 1 /\ Len(MainTid) = 1
  BY DEF None, MainTid
<1>4. QED
  BY <1>1, <1>2, <1>3

-----------------------------------------------------------------------------

IsChildOf(c, q) ==
  \E j \in 1 .. kids[q] : lineage[c] = ChildTid(lineage[q], j)

\* The inductive invariant.
NamingInv ==
  /\ NamingTypeOK
  /\ \A t \in Thread : lineage[t] # <<>>
  /\ \A t \in Thread : t = Main => lineage[t] = MainTid
  /\ \A t \in Thread : tid[t] # None => tid[t] = lineage[t]
  /\ \A t, u \in Thread : lineage[t] = lineage[u] /\ lineage[t] # None => t = u
  /\ \A c \in Thread \ {Main} : lineage[c] # None =>
       \E q \in Thread : lineage[q] # None /\ IsChildOf(c, q)

LEMMA NamingInitInv == NamingInit => NamingInv
<1> SUFFICES ASSUME NamingInit PROVE NamingInv
  OBVIOUS
<1>1. None \in Seq(Nat) /\ MainTid \in Seq(Nat) /\ None # MainTid
      /\ None # <<>> /\ MainTid # <<>>
  BY DEF None, MainTid
<1>2. QED
  BY <1>1
  DEF NamingInit, NamingInv, NamingTypeOK, IsChildOf

LEMMA CreateKeepsInv ==
  ASSUME NamingInv, NEW p \in Thread, NEW c \in Thread, Create(p, c)
  PROVE  NamingInv'
<1> DEFINE L == ChildTid(lineage[p], kids[p] + 1)
<1>0. /\ tid[p] # None /\ lineage[c] = None
      /\ lineage' = [lineage EXCEPT ![c] = L]
      /\ kids' = [kids EXCEPT ![p] = @ + 1]
      /\ tid' = tid
  BY DEF Create
<1>1. /\ lineage \in [Thread -> Seq(Nat)] /\ kids \in [Thread -> Nat]
      /\ tid \in [Thread -> Seq(Nat)]
  BY DEF NamingInv, NamingTypeOK
<1>2. lineage[p] # None /\ lineage[p] # <<>> /\ c # p
  BY <1>0, <1>1 DEF NamingInv
<1>3. L \in Seq(Nat) /\ Len(L) >= 2 /\ L # None /\ L # MainTid /\ L # <<>>
  <2>1. L \in Seq(Nat) /\ Len(L) >= 2 /\ L # None /\ L # MainTid
    BY <1>1, <1>2, ChildTidIsNew
  <2>2. QED
    BY <2>1, EmptySeq
<1>4. NamingTypeOK'
  BY <1>0, <1>1, <1>3 DEF NamingTypeOK
<1>5. \A t \in Thread : lineage'[t] # <<>>
  BY <1>0, <1>1, <1>3 DEF NamingInv
<1>6. \A t \in Thread : t = Main => t # c /\ lineage'[t] = MainTid
  <2>1. None # MainTid
    BY DEF None, MainTid
  <2>2. QED
    BY <1>0, <1>1, <2>1 DEF NamingInv
<1>7. \A t \in Thread : tid'[t] # None => tid'[t] = lineage'[t]
  BY <1>0, <1>1 DEF NamingInv
<1>8. \A u \in Thread : lineage[u] # L
  <2> SUFFICES ASSUME NEW u \in Thread, lineage[u] = L
               PROVE  FALSE
    OBVIOUS
  <2>1. u # Main /\ lineage[u] # None
    BY <1>3 DEF NamingInv
  <2>2. PICK q \in Thread : lineage[q] # None /\ IsChildOf(u, q)
    BY <2>1 DEF NamingInv
  <2>3. PICK j \in 1 .. kids[q] : L = ChildTid(lineage[q], j)
    BY <2>2 DEF IsChildOf
  <2>4. lineage[p] = lineage[q] /\ kids[p] + 1 = j
    BY <1>1, <2>3, ChildTidInjective
  <2>5. p = q
    BY <1>2, <2>4 DEF NamingInv
  <2>6. QED
    BY <1>1, <2>3, <2>4, <2>5
<1>9. \A t, u \in Thread :
        lineage'[t] = lineage'[u] /\ lineage'[t] # None => t = u
  BY <1>0, <1>1, <1>8 DEF NamingInv
<1>10. ASSUME NEW d \in Thread \ {Main}, lineage'[d] # None
       PROVE  \E q \in Thread : lineage'[q] # None /\ IsChildOf(d, q)'
  <2>1. CASE d = c
    <3>1. kids[p] + 1 \in 1 .. kids'[p] /\ lineage'[p] = lineage[p]
      BY <1>0, <1>1, <1>2
    <3>2. lineage'[d] = ChildTid(lineage'[p], kids[p] + 1)
      BY <1>0, <1>1, <2>1, <3>1
    <3>3. IsChildOf(d, p)' /\ lineage'[p] # None
      BY <1>2, <3>1, <3>2 DEF IsChildOf
    <3>4. QED
      BY <3>3
  <2>2. CASE d # c
    <3>1. lineage'[d] = lineage[d] /\ lineage[d] # None
      BY <1>0, <1>1, <2>2, <1>10
    <3>2. PICK q \in Thread : lineage[q] # None /\ IsChildOf(d, q)
      BY <3>1 DEF NamingInv
    <3>3. PICK j \in 1 .. kids[q] : lineage[d] = ChildTid(lineage[q], j)
      BY <3>2 DEF IsChildOf
    <3>4. lineage'[q] = lineage[q] /\ j \in 1 .. kids'[q]
      BY <1>0, <1>1, <3>2, <3>3
    <3>5. IsChildOf(d, q)' /\ lineage'[q] # None
      BY <3>1, <3>2, <3>3, <3>4 DEF IsChildOf
    <3>6. QED
      BY <3>5
  <2>3. QED
    BY <2>1, <2>2
<1>11. QED
  BY <1>4, <1>5, <1>6, <1>7, <1>9, <1>10 DEF NamingInv

LEMMA NameKeepsInv ==
  ASSUME NamingInv, NEW c \in Thread, Name(c)
  PROVE  NamingInv'
BY DEF NamingInv, NamingTypeOK, Name, IsChildOf

\* The invariant holds of every naming, whatever threads create each other.
THEOREM NamingInvariant == NamingSpec => []NamingInv
<1>1. NamingInit => NamingInv
  BY NamingInitInv
<1>2. NamingInv /\ [NamingNext]_namingVars => NamingInv'
  <2> SUFFICES ASSUME NamingInv, [NamingNext]_namingVars
               PROVE  NamingInv'
    OBVIOUS
  <2>1. ASSUME NEW p \in Thread, NEW c \in Thread, Create(p, c)
        PROVE  NamingInv'
    BY <2>1, CreateKeepsInv
  <2>2. ASSUME NEW c \in Thread, Name(c)
        PROVE  NamingInv'
    BY <2>2, NameKeepsInv
  <2>3. CASE UNCHANGED namingVars
    BY <2>3 DEF NamingInv, NamingTypeOK, IsChildOf, namingVars
  <2>4. QED
    BY <2>1, <2>2, <2>3 DEF NamingNext
<1>3. QED
  BY <1>1, <1>2, PTL DEF NamingSpec

\* Types hold of every naming.
THEOREM NamingTypes == NamingSpec => []NamingTypeOK
<1>1. NamingInv => NamingTypeOK
  BY DEF NamingInv
<1>2. QED
  BY <1>1, NamingInvariant, PTL

\* No two threads ever share a name: what lets an entry "tid-func_num" of the
\* scenario stand for one thread (probe_RSE.rs:232, probe_ERR.rs:164-170).
THEOREM NamesAreUnique == NamingSpec => []UniqueTids
<1>1. NamingInv => UniqueTids
  BY DEF NamingInv, UniqueTids
<1>2. QED
  BY <1>1, NamingInvariant, PTL
=============================================================================
