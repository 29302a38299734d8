------------------------------ MODULE MCStreams ------------------------------
(* Small instances of Streams. *)
EXTENDS Streams, TLC

CONSTANTS c1, c2, q1, q2

(* 2 and 3 are two continuations of 1. *)
Forked == <<{1}, {1, 2}, {1, 3}>>

(* A third stream, and a third install of the update hook. *)
ThreeInstalls == {{"p1", "p2", "f"}}
AllCasts == {{"p1", "p2"}, {"p1", "f"}} \cup ThreeInstalls

Sym == Permutations(Calls)

(* One grant with every mishap, or two grants with one mishap fewer. *)
CallsInit ==
    /\ part = "calls" /\ Init /\ grant[q1] = "ready"
    /\ mishaps = IF grant[q2] = "none" THEN 0 ELSE 1
    /\ Git!Init /\ cast = {"p1", "f"} /\ upstream = 1 /\ ~mirror.exists /\ rules = {}
    /\ env = 0 /\ restarts = 0
GitInit ==
    /\ part = "git" /\ Git!Init /\ upstream # 3   \* 2 and 3 are interchangeable
    /\ rules = {"push", "fetch"}                  \* an edit may take them away
    /\ mirror.exists => mirror.head               \* a new mirror's HEAD dangles
    /\ mirror.tip \in {0, 1, upstream}            \* and lags or is empty at first
    /\ IF cast \in ThreeInstalls                  \* three streams and nobody else
       THEN mirror.tip = 1 /\ upstream = 1 /\ env = MaxEnv /\ restarts = MaxRestarts
       ELSE env = 0 /\ restarts = 0
    /\ Init /\ mishaps = MaxMishaps /\ \A r \in Requests : grant[r] = "none"

SmallSpec == (CallsInit \/ GitInit) /\ [][PartNext]_<<part, vars, gitState>>
GitSpec == GitInit /\ [][GitPart]_<<part, vars, gitState>>
=============================================================================
