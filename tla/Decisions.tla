------------------------------- MODULE Decisions -------------------------------
(***************************************************************************)
(* What the nightly decision run promises about who decides: one owner at  *)
(* a time, who may record decisions on fixtures nobody decided before, as  *)
(* long as nobody has taken the ownership away.                            *)
(***************************************************************************)
CONSTANTS
  Owner,      \* who may decide
  Fixture,    \* what is decided
  Nobody

VARIABLES
  owner,      \* the present owner
  decided     \* pairs of a fixture and the owner that decided on it
vars == <<owner, decided>>

Init == owner = Nobody /\ decided = {}

Acquire(a) == owner = Nobody /\ owner' = a /\ UNCHANGED decided

(* Given back, or lost by the passing of time. *)
Release == owner' = Nobody /\ UNCHANGED decided

Record(F) ==
  /\ owner # Nobody /\ F # {}
  /\ \A f \in F, a \in Owner : <<f, a>> \notin decided
  /\ decided' = decided \union {<<f, owner>> : f \in F}
  /\ UNCHANGED owner

Next == \/ \E a \in Owner : Acquire(a)
        \/ Release
        \/ \E F \in SUBSET Fixture : Record(F)

Spec == Init /\ [][Next]_vars
==============================================================================
