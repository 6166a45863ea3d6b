----------------------------- MODULE MCCriterios -----------------------------
EXTENDS Criterios, TLC

CONSTANTS m1, m2, m3, p1, p2

Simetria == Permutations(Memorias \ {Original}) \cup Permutations(Hilos \ {"describe", "gossiping"})
=============================================================================
