------------------------------ MODULE MCBloques ------------------------------
EXTENDS Bloques, TLC

CONSTANTS c1, n1, n2, n3

Simetria == Permutations(Nombres)
=============================================================================
