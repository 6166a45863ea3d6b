----------------------------- MODULE MCCompactado -----------------------------
EXTENDS Compactado, TLC

CONSTANTS v1, v2

Simetria == Permutations(Valores)
=============================================================================
