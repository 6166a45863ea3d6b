----------------------------- MODULE MCMetadatos -----------------------------
EXTENDS Metadatos, TLC

CONSTANTS t1, t2, p1, p2, SC, EC

Simetria == Permutations(Procesadores) \cup Permutations(Criterios) \cup Permutations(Tablas)
=============================================================================
