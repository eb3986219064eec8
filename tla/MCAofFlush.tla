----------------------------- MODULE MCAofFlush -----------------------------
EXTENDS AofFlush, TLC

CONSTANTS c1, c2

MCSymmetry == Permutations(Client)

=============================================================================
