------------------------ MODULE MCChallengerAdoption ------------------------
EXTENDS ChallengerAdoption
OneADay == [m \in Match |-> CASE m = 1 -> 2 [] m = 2 -> 1 [] OTHER -> 3]
=============================================================================
