------------------------------ MODULE Registros ------------------------------
(***************************************************************************)
(* Lists of rows, as LFS keeps them in the memtable and reads them from    *)
(* its files (src/LFS/src/filesystem.c): which row of a key is the last    *)
(* one, and the loop that compaction runs to keep only the last rows.      *)
(*                                                                         *)
(* A row of timestamp 0 is never the last one; it takes a console that     *)
(* inserts with that timestamp, and is left out.                           *)
(***************************************************************************)
EXTENDS Integers, FiniteSets, SequencesExt

CONSTANTS
    Claves,      \* keys: a partition is chosen by the key modulo a number
    Valores,     \* values
    Instantes,   \* timestamps, of getCurrentTime() or given by the console
    Nada         \* no value, no request, nobody

ASSUME ClavesAssumption == Claves \subseteq Nat
ASSUME InstantesAssumption == Instantes \subseteq Nat \ {0}

Filas == [timestamp : Instantes, key : Claves, value : Valores]

\* filter_registro_list_by_key, as positions of the list.
Posiciones(l, k) == {i \in 1 .. Len(l) : l[i].key = k}

\* get_last_registro: > is strict, so the first row of the last instant wins.
Ultimo(l, k) ==
    CHOOSE i \in Posiciones(l, k) :
        \A j \in Posiciones(l, k) :
            \/ l[j].timestamp < l[i].timestamp
            \/ l[j].timestamp = l[i].timestamp /\ i <= j

\* get_last_value
UltimoValor(l, k) ==
    IF Posiciones(l, k) = {} THEN Nada ELSE l[Ultimo(l, k)].value

\* Mutant: the last row is not told from the others of its key.
OtrasConLaUltima(l, i) == Posiciones(l, l[i].key)

\* _matches_key_and_is_not_registro, for the key of the row at i.
Otras(l, i) == Posiciones(l, l[i].key) \ {Ultimo(l, l[i].key)}

\* One turn of get_last_value_for_each_key: the commons list removes only the
\* first row that matches.
Vuelta(l, i) == IF Otras(l, i) = {} THEN l ELSE RemoveAt(l, Min(Otras(l, i)))

\* get_last_value_for_each_key: one turn for each position of the list it was
\* given, until the list is too short to have it.
UltimasFilas(l) ==
    FoldLeft(LAMBDA r, i : IF i <= Len(r) THEN Vuelta(r, i) ELSE r,
             l, [i \in 1 .. Len(l) |-> i])
=============================================================================
