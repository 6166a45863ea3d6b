------------------------------ MODULE MCMemoria ------------------------------
EXTENDS MemoriaAlmacen, TLC

CONSTANTS t1, t2, k1, k2, k3, v1, v2, h1, h2

\* The keys are not interchangeable: Clave0 is one of them.
Simetria == Permutations(Hilos) \cup Permutations(Valores)
=============================================================================
