------------------------------- MODULE Almacen -------------------------------
(***************************************************************************)
(* What a memory promises of the tables it serves: the value of a key is   *)
(* the one the last INSERT gave it, until the table is dropped.  Of a      *)
(* table that LFS does not have nothing is promised: an INSERT in it is    *)
(* accepted and lost later.  Nor is anything once LFS has died: what the   *)
(* memory had not sent, or LFS not saved, may be gone.                     *)
(***************************************************************************)
CONSTANTS Tablas, Claves, Valores

VARIABLES
    existe,    \* tables that exist
    valores,   \* table -> key -> value
    caido      \* LFS has died

\* The tables of T that go on existing keep their values.
Conserva(T) == \A t \in T \cap existe : valores'[t] = valores[t]

Insertar(t, k, v) ==
    /\ existe' = existe
    /\ t \in existe => valores'[t] = [valores[t] EXCEPT ![k] = v]
    /\ Conserva(Tablas \ {t})

Borrar(t) ==
    /\ existe' = existe \ {t}
    /\ Conserva(Tablas \ {t})

Crear(t) ==
    /\ t \notin existe
    /\ existe' = existe \cup {t}
    /\ Conserva(Tablas)

Olvidar == existe' = existe /\ Conserva(Tablas)

Init == existe = {} /\ ~caido

Prometido ==
    \/ \E t \in Tablas :
          \/ Borrar(t)
          \/ Crear(t)
          \/ \E k \in Claves, v \in Valores : Insertar(t, k, v)
    \/ Olvidar

Next ==
    \/ caido'
    \/ ~caido' /\ Prometido

Spec == Init /\ [][Next]_<<existe, valores, caido>>
=============================================================================
