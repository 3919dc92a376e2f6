---------------------------- MODULE MCNightlyRun ----------------------------
EXTENDS NightlyRun, TLC
CONSTANTS a1, a2, a3, r1, r2, m1, m2

(* The first two attempts share a run, as a workflow and its retry do. *)
AttemptRun == [a \in Attempt |-> IF a = a3 THEN r2 ELSE r1]
Symmetry == Permutations({a1, a2} \intersect Attempt) \union Permutations(Match)

(* One of the three attempts died before it claimed anything (a state that *)
(* Spec reaches): a run and its retry, or two different runs, are left.    *)
OneDied == Fresh /\ \E d \in Attempt :
             phase = [a \in Attempt |-> IF a = d THEN "ended" ELSE "waiting"]
TwoAttempts == OneDied /\ [][Next]_vars
=============================================================================
