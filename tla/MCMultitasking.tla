--------------------------- MODULE MCMultitasking ---------------------------
EXTENDS MultitaskingProps, TLC

CONSTANTS u1, u2, u3, w1, w2, Junk

\* The processes are alike, except that w1 is the entry context.
UserSymmetry == Permutations(Users)
=============================================================================
