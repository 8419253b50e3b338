----------------------------- MODULE MCProbeERR -----------------------------
(***************************************************************************)
(* Model-checking instances of ProbeERR: small target programs, and what    *)
(* the recorder may have written about a run of them.                       *)
(***************************************************************************)
EXTENDS ProbeERR, TLC

CONSTANTS f, g, sp

Place(n) == <<1, n>>

\* .toy_bugs/race_btw_func.rs: main spawns two threads, goes on and joins them.
ToyBody == MainTid :> <<sp, sp, f>> @@ Place(1) :> <<f>> @@ Place(2) :> <<f>>

\* The same; the second thread reaches a site whose path panics.
BadBody == MainTid :> <<sp, sp, f>> @@ Place(1) :> <<f>> @@ Place(2) :> <<g>>

\* One thread after the other: each does all its probes and spawns the next.
ChainBody ==
  MainTid :> <<f, sp>> @@ <<1, 1>> :> <<f, f, sp>> @@ <<1, 1, 1>> :> <<f, f>>

\* Main announces one thread; a thread nobody announced spawns another.
NamelessBody ==
  MainTid :> <<sp>> @@ Place(1) :> <<f>> @@ None :> <<sp>>
    @@ ChildTid(None, 1) :> <<f>>

-----------------------------------------------------------------------------

\* What the recorder may have written after n acts.
Recorded(b) ==
  LET upTo[n \in Nat] ==
        IF n = 0 THEN {<<>>}
        ELSE UNION {{Append(s, NextAct(b, s, place)) :
                       place \in {p \in DOMAIN b : MayFollow(b, s, p)}} :
                      s \in upTo[n - 1]}
  IN  upTo

\* Recordings of whole runs, and of runs that ended anywhere.
Total(b) ==
  LET len[S \in SUBSET DOMAIN b] ==
        IF S = {} THEN 0
        ELSE LET p == CHOOSE p \in S : TRUE
             IN  Len(ActsOf(b, p)) + len[S \ {p}]
  IN  len[DOMAIN b]
Recordings(b) == Recorded(b)[Total(b)]
CutRecordings(b) == UNION {Recorded(b)[n] : n \in 0 .. Total(b)}

JustToy      == {ToyBody}
SmallTargets == {BadBody, ChainBody, NamelessBody}
Nowhere      == {}
LastOfChain  == {<<1, 1, 1>>}
=============================================================================
