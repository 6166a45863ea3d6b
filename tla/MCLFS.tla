-------------------------------- MODULE MCLFS --------------------------------
EXTENDS LFSRegistro, TLC

CONSTANTS t1, v1, v2, c1, c2

Simetria == Permutations(Clientes) \cup Permutations(Valores)

\* The answers, which no action reads, do not make states of their own.
SinSalida == <<disco, memtable, table_status, operation_mutex, est, pedido, abierta,
               comp, hilos, vivo, cotas>>
=============================================================================
