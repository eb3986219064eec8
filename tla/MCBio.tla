------------------------------- MODULE MCBio --------------------------------
(* Constants of the runs of Bio.                                           *)
EXTENDS Bio, TLC

CONSTANTS w1, w2

MCSymmetry == Permutations({w1, w2})

=============================================================================
