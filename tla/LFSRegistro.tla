----------------------------- MODULE LFSRegistro -----------------------------
(***************************************************************************)
(* LFS seen from a SELECT and from the disk: the refinement of UltimoGana, *)
(* the answers, and what a crash may and may not take with it.             *)
(***************************************************************************)
EXTENDS LFS

\* Rows of a table on the disk, and those that only compaction has.
EnDisco(t) == UNION {ToSet(archivos[t][n]) : n \in DOMAIN archivos[t]}
EnComp(t)  == IF comp # Nada /\ comp.tabla = t THEN ToSet(comp.filas) ELSE {}

Instante(R, k) == Max({0} \cup {f.timestamp : f \in {f \in R : f.key = k}})

\* The last rows of a key in a set of rows.
Ultimas(R, k) ==
    [instante |-> Instante(R, k),
     valores  |-> {f.value : f \in {f \in R : /\ f.key = k
                                              /\ f.timestamp = Instante(R, k)}}]

FilasDe(t) == ToSet(memtable[t]) \cup EnDisco(t) \cup EnComp(t)

\* A table does not exist any more once a DROP removed its files.
Borrandose ==
    {pedido[c].tabla : c \in {c \in Clientes : est[c] \in {"remove", "rmdir"}}}

U == INSTANCE UltimoGana WITH
        existe <- directorio \ Borrandose,
        ultimo <- [t \in Tablas |-> [k \in Claves |-> Ultimas(FilasDe(t), k)]]

\* While LFS does not crash, dump and compaction are invisible: no row that a
\* SELECT could return appears, disappears or is hidden by an older one, wherever
\* between memtable, .tmp, .tmpc, memory of the compaction and .bin it is.
EsUltimoGana == U!Spec

\* A SELECT returns a row of the last instant of its key at the moment it reads,
\* even when the table was dumped or compacted since its check.
RespuestaUltima ==
    [][\A c \in Clientes :
          SelectLee(c) =>
             LET u == Ultimas(FilasDe(pedido[c].tabla), pedido[c].key)
             IN  salida'[c] \in IF u.valores = {} THEN {Nada} ELSE u.valores]_vars

\* The files of the table are removed and not all of its rows are saved again.
EnVentana(t) ==
    comp # Nada /\ comp.tabla = t /\ comp.fase \in {"recrea", "guarda"}

\* A compaction replaces a .tmpc that a crash or a failing rename left behind.
PisaTmpc(t) ==
    CompRenombra(t) /\ \E n \in De(t, {"tmp"}) : <<"tmpc", n[2]>> \in De(t, {"tmpc"})

\* While no two CREATEs of a table overlap, what a dump saved is only lost by a
\* DROP, when a block is missing or a rename fails, by a stop between clean_blocks
\* and the last row saved, or by a .tmpc that a stop or a rename left behind.
SoloSePierdeEnVentana ==
    [][\A t \in Tablas :
          \/ \A k \in Claves :
                Instante(EnDisco(t) \cup EnComp(t), k)
                  <= Instante(EnDisco(t) \cup EnComp(t), k)'
          \/ \E c \in Clientes : DropBorra(c) /\ pedido[c].tabla = t
          \/ fallas' # fallas
          \/ EnVentana(t) /\ ~vivo'
          \/ PisaTmpc(t)]_vars
=============================================================================
