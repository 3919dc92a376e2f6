----------------------------- MODULE MCBankroll -----------------------------
(***************************************************************************)
(* Small instances of Bankroll.                                            *)
(***************************************************************************)
EXTENDS Bankroll, TLC

CONSTANTS r1, r2, r3, r4, r5, k1, k2

(* A return of less than the stake, and one below zero. *)
OddReturns == {-1, 1}

EvenOdds == [k \in Key |-> 200]

(* Requests of a kind, and keys of equal odds, are interchangeable. *)
Symmetry == Permutations(Request \ Resets) \union Permutations(Resets) \union Permutations(Key)
============================================================================
