------------------------------ MODULE MCReading ------------------------------
(***************************************************************************)
(* Two users, two workers, two days that end; one of the users reads.  The *)
(* calculations over curves and results of up to five entries, and over    *)
(* three years.                                                            *)
(***************************************************************************)
EXTENDS Reading, TLC

CONSTANTS u1, u2, w1, w2
Symmetric == Permutations({w1, w2})

NoneToFour == {0, 1, 2, 4}
LossToWin == {-1, 0, 1}
ThreeYears == 2024..2026
=============================================================================
