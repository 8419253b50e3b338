--------------------------- MODULE PathNormProofs ---------------------------
(***************************************************************************)
(* What the normalisation loop returns and when it panics, for paths of any *)
(* length over any components.  The invariant: the index never leaves the   *)
(* vector although removals shorten it and step the index back; what is     *)
(* behind the index is the stack that reading the path this far leaves, and *)
(* what is ahead of it is the rest of the path.                             *)
(***************************************************************************)
EXTENDS PathNorm, Recursion, SequenceTheorems

Component == Name \cup {DotDot}

\* Removing one component shortens the vector, keeps what is before it and
\* moves up what is behind it.
LEMMA RemoveAtProperties ==
  ASSUME NEW S, NEW v \in Seq(S), NEW k \in 1 .. Len(v)
  PROVE  /\ RemoveAt(v, k) \in Seq(S)
         /\ Len(RemoveAt(v, k)) = Len(v) - 1
         /\ \A j \in 1 .. k - 1 : RemoveAt(v, k)[j] = v[j]
         /\ \A j \in k .. Len(v) - 1 : RemoveAt(v, k)[j] = v[j + 1]
<1> DEFINE before == SubSeq(v, 1, k - 1)
           after  == SubSeq(v, k + 1, Len(v))
<1>1. Len(v) \in Nat /\ \A j \in 1 .. Len(v) : v[j] \in S
  BY LenProperties, ElementOfSeq
<1>2. /\ before \in Seq(S) /\ Len(before) = k - 1
      /\ \A j \in 1 .. k - 1 : before[j] = v[j]
  <2>1. \A j \in 1 .. k - 1 : v[j] \in S
    BY <1>1
  <2>2. 1 \in Int /\ k - 1 \in Int
    OBVIOUS
  <2>3. QED
    BY <2>1, <2>2, SubSeqProperties
<1>3. /\ after \in Seq(S) /\ Len(after) = Len(v) - k
      /\ \A j \in 1 .. Len(v) - k : after[j] = v[j + k]
  <2>1. \A j \in k + 1 .. Len(v) : v[j] \in S
    BY <1>1
  <2>2. k + 1 \in Int /\ Len(v) \in Int
    BY <1>1
  <2>3. /\ after \in Seq(S)
        /\ Len(after) = IF k + 1 <= Len(v) THEN Len(v) - (k + 1) + 1 ELSE 0
        /\ \A j \in 1 .. Len(v) - (k + 1) + 1 : after[j] = v[(k + 1) + j - 1]
    BY <2>1, <2>2, SubSeqProperties
  <2> HIDE DEF after
  <2>4. Len(after) = Len(v) - k
    BY <1>1, <2>3
  <2>5. ASSUME NEW j \in 1 .. Len(v) - k PROVE after[j] = v[j + k]
    <3>1. (k + 1) + j - 1 = j + k /\ j \in 1 .. Len(v) - (k + 1) + 1
      BY <1>1
    <3>2. QED
      BY <2>3, <3>1
  <2>6. QED
    BY <2>3, <2>4, <2>5
<1>4. /\ before \o after \in Seq(S)
      /\ Len(before \o after) = Len(before) + Len(after)
      /\ \A j \in 1 .. Len(before) + Len(after) :
           (before \o after)[j] = IF j <= Len(before) THEN before[j]
                                  ELSE after[j - Len(before)]
  BY <1>2, <1>3, ConcatProperties
<1>5. RemoveAt(v, k) = before \o after
  BY DEF RemoveAt
<1> HIDE DEF before, after
<1>6. Len(before) + Len(after) = Len(v) - 1
  BY <1>1, <1>2, <1>3
<1>7. ASSUME NEW j \in 1 .. k - 1 PROVE (before \o after)[j] = v[j]
  <2>1. j \in 1 .. Len(before) + Len(after) /\ j <= Len(before)
    BY <1>1, <1>2, <1>6
  <2>2. (before \o after)[j] = before[j]
    BY <1>4, <2>1
  <2>3. QED
    BY <1>2, <2>2
<1>8. ASSUME NEW j \in k .. Len(v) - 1
      PROVE  (before \o after)[j] = v[j + 1]
  <2>1. /\ j \in 1 .. Len(before) + Len(after) /\ ~(j <= Len(before))
        /\ j - Len(before) = j - k + 1 /\ j - k + 1 \in 1 .. Len(v) - k
        /\ (j - k + 1) + k = j + 1
    BY <1>1, <1>2, <1>6
  <2>2. (before \o after)[j] = after[j - k + 1]
    BY <1>4, <2>1
  <2>3. QED
    BY <1>3, <2>1, <2>2
<1>9. QED
  BY <1>4, <1>5, <1>6, <1>7, <1>8

\* Collapsing "x/.." removes two components at the index.
LEMMA WithoutPairProperties ==
  ASSUME NEW S, NEW v \in Seq(S), NEW k \in 1 .. Len(v) - 1
  PROVE  /\ WithoutPair(v, k) \in Seq(S)
         /\ Len(WithoutPair(v, k)) = Len(v) - 2
         /\ \A j \in 1 .. k - 1 : WithoutPair(v, k)[j] = v[j]
         /\ \A j \in k .. Len(v) - 2 : WithoutPair(v, k)[j] = v[j + 2]
<1>1. Len(v) \in Nat
  BY LenProperties
<1>2. /\ RemoveAt(v, k + 1) \in Seq(S)
      /\ Len(RemoveAt(v, k + 1)) = Len(v) - 1
      /\ \A j \in 1 .. k : RemoveAt(v, k + 1)[j] = v[j]
      /\ \A j \in k + 1 .. Len(v) - 1 : RemoveAt(v, k + 1)[j] = v[j + 1]
  <2>1. k + 1 \in 1 .. Len(v) /\ (k + 1) - 1 = k
    BY <1>1
  <2>2. QED
    BY <2>1, RemoveAtProperties
<1>3. k \in 1 .. Len(RemoveAt(v, k + 1))
  BY <1>1, <1>2
<1> DEFINE w == RemoveAt(v, k + 1)
<1>4. /\ RemoveAt(w, k) \in Seq(S)
      /\ Len(RemoveAt(w, k)) = Len(w) - 1
      /\ \A j \in 1 .. k - 1 : RemoveAt(w, k)[j] = w[j]
      /\ \A j \in k .. Len(w) - 1 : RemoveAt(w, k)[j] = w[j + 1]
  BY <1>2, <1>3, RemoveAtProperties
<1> HIDE DEF w
<1>5. WithoutPair(v, k) = RemoveAt(w, k)
  BY DEF WithoutPair, w
<1>6. /\ Len(w) = Len(v) - 1
      /\ \A j \in 1 .. k : w[j] = v[j]
      /\ \A j \in k + 1 .. Len(v) - 1 : w[j] = v[j + 1]
  BY <1>2 DEF w
<1>7. ASSUME NEW j \in k .. Len(v) - 2 PROVE RemoveAt(w, k)[j] = v[j + 2]
  <2>1. /\ j \in k .. Len(w) - 1 /\ j + 1 \in k + 1 .. Len(v) - 1
        /\ (j + 1) + 1 = j + 2
    BY <1>1, <1>6
  <2>2. QED
    BY <1>4, <1>6, <2>1
<1>8. QED
  BY <1>1, <1>4, <1>5, <1>6, <1>7

-----------------------------------------------------------------------------
(* The reference, unrolled.                                                 *)

Stack == Seq(Component)

\* The stack after one more component.
Put(stack, c) ==
  IF c # DotDot THEN Append(stack, c)
  ELSE IF stack = <<>> THEN <<>>
  ELSE Front(stack)

LEMMA PutType ==
  ASSUME NEW stack \in Stack, NEW c \in Component
  PROVE  Put(stack, c) \in Stack
<1>1. Append(stack, c) \in Stack /\ <<>> \in Stack
  BY AppendProperties, EmptySeq DEF Stack
<1>2. Front(stack) \in Stack
  <2>1. Len(stack) \in Nat /\ \A j \in 1 .. Len(stack) - 1 : stack[j] \in Component
    BY LenProperties, ElementOfSeq DEF Stack
  <2>2. 1 \in Int /\ Len(stack) - 1 \in Int
    BY <2>1
  <2>3. QED
    BY <2>1, <2>2, SubSeqProperties DEF Front, Stack
<1>3. QED
  BY <1>1, <1>2 DEF Put

\* The stack of Resolved, component by component.
LEMMA ResolvedUnrolls ==
  ASSUME NEW p \in Seq(Component)
  PROVE  /\ Resolved(p)[0] = <<>>
         /\ \A k \in 0 .. Len(p) : Resolved(p)[k] \in Stack
         /\ \A k \in 1 .. Len(p) :
              Resolved(p)[k] = Put(Resolved(p)[k - 1], p[k])
<1> DEFINE Step == [at \in Nat \X Stack |->
                      IF at[1] \in 1 .. Len(p) THEN Put(at[2], p[at[1]])
                      ELSE <<>>]
           Reads(f) == f = [k \in 0 .. Len(p) |->
                              IF k = 0 THEN <<>>
                              ELSE IF p[k] # DotDot THEN Append(f[k - 1], p[k])
                              ELSE IF f[k - 1] = <<>> THEN <<>>
                              ELSE Front(f[k - 1])]
<1>1. Len(p) \in Nat /\ \A k \in 1 .. Len(p) : p[k] \in Component
  BY LenProperties, ElementOfSeq
<1>2. <<>> \in Stack
  BY EmptySeq DEF Stack
<1>3. Step \in [Nat \X Stack -> Stack]
  <2>1. ASSUME NEW at \in Nat \X Stack
        PROVE  (IF at[1] \in 1 .. Len(p) THEN Put(at[2], p[at[1]]) ELSE <<>>)
                 \in Stack
    BY <1>1, <1>2, PutType
  <2>2. QED
    BY <2>1
<1>4. PICK f : Solves(f, Stack, <<>>, Step, Len(p))
  <2> HIDE DEF Step
  <2>1. QED
    BY <1>1, <1>2, <1>3, RecursionExists
<1>5. ASSUME NEW k \in 1 .. Len(p) PROVE f[k] = Put(f[k - 1], p[k])
  <2>1. k \in Nat /\ k - 1 \in 0 .. Len(p)
    BY <1>1
  <2>2. <<k, f[k - 1]>> \in Nat \X Stack
    BY <1>4, <2>1 DEF Solves
  <2>3. Step[<<k, f[k - 1]>>] = Put(f[k - 1], p[k])
    BY <2>2
  <2>4. QED
    BY <1>4, <2>3 DEF Solves
<1>6. Reads(f)
  <2>1. f = [k \in 0 .. Len(p) |-> f[k]]
    BY <1>4 DEF Solves
  <2>2. ASSUME NEW k \in 0 .. Len(p)
        PROVE  f[k] = IF k = 0 THEN <<>>
                      ELSE IF p[k] # DotDot THEN Append(f[k - 1], p[k])
                      ELSE IF f[k - 1] = <<>> THEN <<>>
                      ELSE Front(f[k - 1])
    <3>1. k = 0 \/ k \in 1 .. Len(p)
      BY <1>1
    <3>2. QED
      BY <1>4, <1>5, <3>1 DEF Put, Solves
  <2>3. QED
    BY <2>1, <2>2
<1>7. Reads(Resolved(p))
  BY <1>6 DEF Resolved
<1> DEFINE r == Resolved(p)
<1> HIDE DEF r
<1>8. r = [k \in 0 .. Len(p) |-> IF k = 0 THEN <<>> ELSE Put(r[k - 1], p[k])]
  BY <1>7 DEF Put, r
<1> HIDE DEF Reads
<1>9. r[0] = <<>> /\ \A k \in 1 .. Len(p) : r[k] = Put(r[k - 1], p[k])
  <2>1. \A k \in 0 .. Len(p) : r[k] = IF k = 0 THEN <<>> ELSE Put(r[k - 1], p[k])
    BY <1>8
  <2>2. QED
    BY <1>1, <2>1
<1>10. \A k \in 0 .. Len(p) : r[k] \in Stack
  <2> DEFINE Typed == {k \in 0 .. Len(p) : r[k] \in Stack}
  <2>1. 0 \in Typed
    BY <1>1, <1>2, <1>9
  <2>2. \A k \in 1 .. Len(p) : k - 1 \in Typed => k \in Typed
    BY <1>1, <1>9, PutType
  <2> HIDE DEF Typed
  <2>3. 0 .. Len(p) \subseteq Typed
    BY <1>1, <2>1, <2>2, IntervalInduction
  <2>4. QED
    BY <2>3 DEF Typed
<1>11. QED
  BY <1>9, <1>10 DEF r

-----------------------------------------------------------------------------

PathInv == TypeOK /\ NoDotDotBehind /\ (status = "done" => i = Len(vec))

LEMMA PathInit == Init => PathInv
<1> SUFFICES ASSUME Init PROVE PathInv
  OBVIOUS
<1>1. path \in Seq(Component)
  BY DEF Init, Path, BoundedSeq, SeqOf, Component
<1>2. Len(path) \in Nat
  BY <1>1, LenProperties
<1>3. QED
  BY <1>1, <1>2 DEF Init, PathInv, TypeOK, NoDotDotBehind, Component

LEMMA PathStep == PathInv /\ [Next]_vars => PathInv'
<1> SUFFICES ASSUME PathInv, [Next]_vars PROVE PathInv'
  OBVIOUS
<1>1. /\ vec \in Seq(Component) /\ Len(vec) \in Nat /\ i \in 0 .. Len(vec)
  BY LenProperties DEF PathInv, TypeOK, Component
<1>2. CASE Keep
  BY <1>1, <1>2
  DEF Keep, AtDotDot, PathInv, TypeOK, NoDotDotBehind, Component
<1>3. CASE Collapse
  <2>1. i \in 2 .. Len(vec) - 1 /\ i' = i - 1 /\ vec' = WithoutPair(vec, i)
    BY <1>1, <1>3 DEF Collapse, AtDotDot, StepsBack
  <2>2. /\ vec' \in Seq(Component) /\ Len(vec') = Len(vec) - 2
        /\ \A j \in 1 .. i - 1 : vec'[j] = vec[j]
    BY <1>1, <2>1, WithoutPairProperties
  <2>3. i' \in 0 .. Len(vec')
    BY <1>1, <2>1, <2>2
  <2>4. QED
    BY <1>3, <2>1, <2>2, <2>3
    DEF Collapse, PathInv, TypeOK, NoDotDotBehind, Component
<1>4. CASE Overflow
  BY <1>4 DEF Overflow, PathInv, TypeOK, NoDotDotBehind
<1>5. CASE Return
  BY <1>1, <1>5 DEF Return, PathInv, TypeOK, NoDotDotBehind
<1>6. CASE UNCHANGED vars
  BY <1>6 DEF vars, PathInv, TypeOK, NoDotDotBehind
<1>7. QED
  BY <1>2, <1>3, <1>4, <1>5, <1>6 DEF Next, Ended

\* The invariant holds for every path.
THEOREM PathInvariant == Spec => []PathInv
BY PathInit, PathStep, PTL DEF Spec

\* str_vec[i] and both removals stay inside the vector, whatever the path
\* (probe_RSE.rs:201-208, probe_ERR.rs:258-265).
THEOREM PathTypes == Spec => []TypeOK
<1>1. PathInv => TypeOK
  BY DEF PathInv
<1>2. QED
  BY <1>1, PathInvariant, PTL

\* A path that is written holds no "..", however components move under the
\* index (probe_RSE.rs:201-209, probe_ERR.rs:258-266).
THEOREM NoDotDotIsWritten == Spec => []NoDotDotLeft
<1>1. PathInv => NoDotDotLeft
  BY DEF PathInv, TypeOK, NoDotDotBehind, NoDotDotLeft
<1>2. QED
  BY <1>1, PathInvariant, PTL

-----------------------------------------------------------------------------
(* The loop against the reference.                                          *)

\* How much of the path the loop has gone through.
Seen == i + Len(path) - Len(vec)

\* Behind the index lies the stack, ahead of it the rest of the path, and no
\* ".." so far came up short.
StackInv ==
  /\ Seen \in 0 .. Len(path)
  /\ Len(Resolved(path)[Seen]) = i
  /\ \A j \in 1 .. i : vec[j] = Resolved(path)[Seen][j]
  /\ \A j \in i + 1 .. Len(vec) : vec[j] = path[j + Len(path) - Len(vec)]
  /\ \A k \in 1 .. Seen : path[k] = DotDot => Len(Resolved(path)[k - 1]) >= 2
  /\ status = "panic" => AtDotDot /\ i < 2

LEMMA StackInit == Init => StackInv
<1> SUFFICES ASSUME Init PROVE StackInv
  OBVIOUS
<1>1. path \in Seq(Component)
  BY DEF Init, Path, BoundedSeq, SeqOf, Component
<1>2. Len(path) \in Nat
  BY <1>1, LenProperties
<1>3. Resolved(path)[0] = <<>>
  BY <1>1, ResolvedUnrolls
<1>4. vec = path /\ i = 0 /\ status = "loop" /\ Seen = 0
  BY <1>2 DEF Init, Seen
<1>5. QED
  BY <1>2, <1>3, <1>4 DEF StackInv

LEMMA StackStep == PathInv /\ StackInv /\ [Next]_vars => StackInv'
<1> SUFFICES ASSUME PathInv, StackInv, [Next]_vars PROVE StackInv'
  OBVIOUS
<1> DEFINE r == Resolved(path)
           n == Len(path)
           gone == Len(path) - Len(vec)
<1>1. /\ path \in Seq(Component) /\ vec \in Seq(Component)
      /\ n \in Nat /\ Len(vec) \in Nat /\ i \in 0 .. Len(vec)
      /\ gone \in Int /\ Seen = i + gone
  BY LenProperties DEF PathInv, TypeOK, Component, Seen
<1>2. /\ Seen \in 0 .. n /\ Len(r[Seen]) = i
      /\ \A j \in 1 .. i : vec[j] = r[Seen][j]
      /\ \A j \in i + 1 .. Len(vec) : vec[j] = path[j + gone]
      /\ \A k \in 1 .. Seen : path[k] = DotDot => Len(r[k - 1]) >= 2
  <2>1. \A j \in i + 1 .. Len(vec) : j + n - Len(vec) = j + gone
    BY <1>1
  <2>2. QED
    BY <2>1 DEF StackInv
<1>3. ASSUME i < Len(vec)
      PROVE  /\ Seen + 1 \in 1 .. n /\ (Seen + 1) - 1 = Seen
             /\ path[Seen + 1] = vec[i + 1] /\ path[Seen + 1] \in Component
             /\ r[Seen + 1] = Put(r[Seen], path[Seen + 1])
             /\ r[Seen] \in Stack
  <2>1. Seen + 1 \in 1 .. n /\ i + 1 \in i + 1 .. Len(vec)
        /\ (i + 1) + gone = Seen + 1 /\ (Seen + 1) - 1 = Seen
    BY <1>1, <1>2, <1>3
  <2>2. path[Seen + 1] = vec[i + 1]
    BY <1>2, <2>1
  <2>3. path[Seen + 1] \in Component
    BY <1>1, <2>1, ElementOfSeq
  <2>4. QED
    BY <1>1, <1>2, <2>1, <2>2, <2>3, ResolvedUnrolls
<1>4. CASE Keep
  <2>1. /\ i < Len(vec) /\ vec[i + 1] # DotDot /\ i' = i + 1
        /\ UNCHANGED <<path, vec, status>> /\ status' # "panic"
    BY <1>4 DEF Keep, AtDotDot
  <2>2. Seen' = Seen + 1
    BY <1>1, <2>1 DEF Seen
  <2>3. /\ Seen + 1 \in 1 .. n
        /\ path[Seen + 1] = vec[i + 1] /\ path[Seen + 1] \in Component
        /\ r[Seen + 1] = Append(r[Seen], path[Seen + 1]) /\ r[Seen] \in Stack
    BY <1>3, <2>1 DEF Put
  <2>4. /\ Len(r[Seen + 1]) = i + 1 /\ r[Seen + 1][i + 1] = path[Seen + 1]
        /\ \A j \in 1 .. i : r[Seen + 1][j] = r[Seen][j]
    BY <1>2, <2>3, AppendProperties DEF Stack
  <2> HIDE DEF r, n, gone
  <2>5. \A j \in 1 .. i + 1 : vec[j] = r[Seen + 1][j]
    BY <1>1, <1>2, <2>3, <2>4
  <2>6. \A j \in (i + 1) + 1 .. Len(vec) : vec[j] = path[j + gone]
    BY <1>1, <1>2
  <2>7. \A k \in 1 .. Seen + 1 : path[k] = DotDot => Len(r[k - 1]) >= 2
    <3>1. \A k \in 1 .. Seen + 1 : k \in 1 .. Seen \/ k = Seen + 1
      BY <1>2
    <3>2. QED
      BY <1>2, <2>1, <2>3, <3>1
  <2>8. \A j \in (i + 1) + 1 .. Len(vec) : j + n - Len(vec) = j + gone
    BY <1>1 DEF n, gone
  <2>9. Seen + 1 \in 0 .. n
    BY <1>2, <2>3
  <2>10. QED
    BY <2>1, <2>2, <2>4, <2>5, <2>6, <2>7, <2>8, <2>9
    DEF StackInv, r, n
<1>5. CASE Collapse
  <2>1. /\ i \in 2 .. Len(vec) - 1 /\ vec[i + 1] = DotDot
        /\ i' = i - 1 /\ vec' = WithoutPair(vec, i)
        /\ UNCHANGED <<path, status>> /\ status' # "panic"
    BY <1>1, <1>5 DEF Collapse, AtDotDot, StepsBack
  <2>2. /\ Len(vec') = Len(vec) - 2
        /\ \A j \in 1 .. i - 1 : vec'[j] = vec[j]
        /\ \A j \in i .. Len(vec) - 2 : vec'[j] = vec[j + 2]
    <3>1. i \in 1 .. Len(vec) - 1
      BY <1>1, <2>1
    <3>2. QED
      BY <1>1, <2>1, <3>1, WithoutPairProperties
  <2>3. Seen' = Seen + 1
    BY <1>1, <2>1, <2>2 DEF Seen
  <2>4. /\ Seen + 1 \in 1 .. n /\ (Seen + 1) - 1 = Seen
        /\ path[Seen + 1] = DotDot /\ r[Seen] \in Stack
        /\ r[Seen + 1] = Put(r[Seen], DotDot)
    BY <1>1, <1>3, <2>1
  <2>5. r[Seen] # <<>>
    <3>1. Len(r[Seen]) # 0 /\ Len(<<>>) = 0
      BY <1>1, <1>2, <2>1, EmptySeq
    <3>2. QED
      BY <3>1, Zenon
  <2>6. r[Seen + 1] = SubSeq(r[Seen], 1, i - 1)
    BY <1>2, <2>4, <2>5 DEF Put, Front
  <2>7. Len(r[Seen + 1]) = i - 1
        /\ \A j \in 1 .. i - 1 : r[Seen + 1][j] = r[Seen][j]
    <3>1. \A j \in 1 .. i - 1 : r[Seen][j] \in Component
      BY <1>1, <1>2, <2>4, ElementOfSeq DEF Stack
    <3> DEFINE front == SubSeq(r[Seen], 1, i - 1)
    <3>2. 1 \in Int /\ i - 1 \in Int
      BY <1>1
    <3>3. /\ Len(front) = IF 1 <= i - 1 THEN (i - 1) - 1 + 1 ELSE 0
          /\ \A j \in 1 .. (i - 1) - 1 + 1 : front[j] = r[Seen][1 + j - 1]
      BY <3>1, <3>2, SubSeqProperties
    <3> HIDE DEF front, r
    <3>4. Len(front) = i - 1
      BY <2>1, <3>3
    <3>5. ASSUME NEW j \in 1 .. i - 1 PROVE front[j] = r[Seen][j]
      <4>1. j \in 1 .. (i - 1) - 1 + 1 /\ 1 + j - 1 = j
        BY <2>1
      <4>2. QED
        BY <3>3, <4>1
    <3>6. QED
      BY <2>6, <3>4, <3>5 DEF front
  <2> HIDE DEF r, n
  <2>8. \A j \in 1 .. i - 1 : vec'[j] = r[Seen + 1][j]
    BY <1>1, <1>2, <2>2, <2>7
  <2>9. ASSUME NEW j \in i .. Len(vec) - 2
        PROVE  vec'[j] = path[j + n - Len(vec')]
    <3>1. j + 2 \in i + 1 .. Len(vec)
          /\ (j + 2) + gone = j + n - Len(vec')
      BY <1>1, <2>1, <2>2 DEF n
    <3> HIDE DEF gone
    <3>2. QED
      BY <1>2, <2>2, <3>1
  <2>10. \A k \in 1 .. Seen + 1 : path[k] = DotDot => Len(r[k - 1]) >= 2
    <3>1. \A k \in 1 .. Seen + 1 : k \in 1 .. Seen \/ k = Seen + 1
      BY <1>2 DEF n
    <3>2. Len(r[(Seen + 1) - 1]) >= 2
      BY <1>2, <2>1, <2>4
    <3>3. QED
      BY <1>2, <3>1, <3>2
  <2>11. /\ Seen + 1 \in 0 .. n /\ (i - 1) + 1 = i
    BY <1>1, <2>4
  <2>12. QED
    BY <2>1, <2>2, <2>3, <2>7, <2>8, <2>9, <2>10, <2>11
    DEF StackInv, r, n
<1>6. CASE Overflow
  BY <1>6 DEF Overflow, StackInv, AtDotDot, Seen
<1>7. CASE Return
  BY <1>7 DEF Return, StackInv, AtDotDot, Seen
<1>8. CASE UNCHANGED vars
  BY <1>8 DEF vars, StackInv, AtDotDot, Seen
<1>9. QED
  BY <1>4, <1>5, <1>6, <1>7, <1>8 DEF Next, Ended

LEMMA StackInvariant == Spec => []StackInv
BY StackInit, StackStep, PathInvariant, PTL DEF Spec

\* The path that is written is the path meant, for every path that does not
\* panic: the components left are those on the stack when it is read through
\* (probe_RSE.rs:199-209, probe_ERR.rs:256-266).
THEOREM WrittenPathIsResolved == Spec => []PathIsResolved
<1>1. PathInv /\ StackInv => PathIsResolved
  <2> SUFFICES ASSUME PathInv, StackInv, status = "done"
               PROVE  vec = Resolved(path)[Len(path)]
    BY DEF PathIsResolved
  <2>1. /\ path \in Seq(Component) /\ vec \in Seq(Component)
        /\ Len(path) \in Nat /\ Len(vec) \in Nat /\ i = Len(vec)
    BY LenProperties DEF PathInv, TypeOK, Component
  <2>2. Seen = Len(path)
    BY <2>1 DEF Seen
  <2>3. Resolved(path)[Len(path)] \in Seq(Component)
    BY <2>1, ResolvedUnrolls DEF Stack
  <2>4. /\ Len(Resolved(path)[Len(path)]) = Len(vec)
        /\ \A j \in 1 .. Len(vec) : vec[j] = Resolved(path)[Len(path)][j]
    BY <2>1, <2>2 DEF StackInv
  <2>5. QED
    BY <2>1, <2>3, <2>4, SeqEqual
<1>2. QED
  BY <1>1, PathInvariant, StackInvariant, PTL

\* The panic, and with it the exit of the whole target, strikes exactly the
\* paths with a ".." less than two components deep (probe_RSE.rs:203-205).
THEOREM ShallowPathsPanic == Spec => []PanicsWhenShallow
<1>1. PathInv /\ StackInv => PanicsWhenShallow
  <2> SUFFICES ASSUME PathInv, StackInv PROVE PanicsWhenShallow
    OBVIOUS
  <2>1. /\ Len(path) \in Nat /\ Len(vec) \in Nat /\ i \in 0 .. Len(vec)
        /\ Seen = i + Len(path) - Len(vec)
    BY LenProperties DEF PathInv, TypeOK, Seen
  <2>2. ASSUME status = "panic" PROVE Shallow(path)
    <3>1. i < Len(vec) /\ vec[i + 1] = DotDot /\ i < 2
      BY <2>2 DEF StackInv, AtDotDot
    <3>2. /\ Seen + 1 \in 1 .. Len(path) /\ (Seen + 1) - 1 = Seen
          /\ (i + 1) + Len(path) - Len(vec) = Seen + 1
          /\ i + 1 \in i + 1 .. Len(vec)
      <4>1. Seen \in 0 .. Len(path)
        BY DEF StackInv
      <4>2. QED
        BY <2>1, <3>1, <4>1
    <3>3. path[Seen + 1] = DotDot
      BY <3>1, <3>2 DEF StackInv
    <3>4. Len(Resolved(path)[(Seen + 1) - 1]) < 2
      BY <3>1, <3>2 DEF StackInv
    <3>5. QED
      BY <3>2, <3>3, <3>4 DEF Shallow
  <2>3. ASSUME status = "done" PROVE ~Shallow(path)
    <3>1. Seen = Len(path)
      BY <2>1, <2>3 DEF PathInv
    <3>2. path \in Seq(Component)
      BY DEF PathInv, TypeOK, Component
    <3>3. \A k \in 1 .. Len(path) : Len(Resolved(path)[k - 1]) \in Nat
      <4>1. \A k \in 1 .. Len(path) : k - 1 \in 0 .. Len(path)
        BY <2>1
      <4>2. \A k \in 1 .. Len(path) : Resolved(path)[k - 1] \in Stack
        BY <3>2, <4>1, ResolvedUnrolls
      <4>3. QED
        BY <4>2, LenProperties DEF Stack
    <3>4. \A k \in 1 .. Len(path) :
            path[k] = DotDot => Len(Resolved(path)[k - 1]) >= 2
      BY <3>1 DEF StackInv
    <3>5. QED
      BY <3>3, <3>4 DEF Shallow
  <2>4. QED
    BY <2>2, <2>3 DEF PanicsWhenShallow
<1>2. QED
  BY <1>1, PathInvariant, StackInvariant, PTL
=============================================================================
