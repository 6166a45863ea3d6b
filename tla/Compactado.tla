------------------------------ MODULE Compactado ------------------------------
(***************************************************************************)
(* get_last_value_for_each_key (src/LFS/src/filesystem.c) turn by turn, on *)
(* any list of rows that compaction read from the files of a table.        *)
(***************************************************************************)
EXTENDS Registros

CONSTANT MaxFilas    \* bound: rows of the list

ASSUME MaxFilasAssumption == MaxFilas \in Nat

VARIABLES
    leidas,      \* the list get_last_rows made
    registros,   \* what is left of it
    vueltas      \* turns done

lista == <<leidas, registros, vueltas>>

\* The list is any one that get_last_rows may make.
InitLista ==
    /\ leidas \in BoundedSeq(Filas, MaxFilas)
    /\ registros = leidas
    /\ vueltas = 0

\* list_get gives NULL, and the loop breaks, past the end of the list.
Iterar ==
    /\ vueltas < Len(leidas)
    /\ vueltas < Len(registros)
    /\ registros' = Vuelta(registros, vueltas + 1)
    /\ vueltas' = vueltas + 1
    /\ UNCHANGED leidas

SpecLista == InitLista /\ [][Iterar]_lista

TypeOK ==
    /\ leidas \in Seq(Filas)
    /\ registros \in Seq(Filas)
    /\ vueltas \in 0 .. Len(leidas)

\* Compaction changes no answer: in every turn the last value of each key is
\* still the one of the whole list, ties of timestamp included.
ConservaUltimos ==
    \A k \in Claves : UltimoValor(registros, k) = UltimoValor(leidas, k)
=============================================================================
