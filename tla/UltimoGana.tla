------------------------------ MODULE UltimoGana ------------------------------
(***************************************************************************)
(* What LFS promises of a table: the value of a key is that of the row of  *)
(* the greatest timestamp ever inserted, in whatever order the rows came.  *)
(* Among rows of the same key and timestamp any may win, and a loser may   *)
(* be forgotten at any moment.                                             *)
(***************************************************************************)
EXTENDS Integers

CONSTANTS Tablas, Claves, Valores, Instantes

VARIABLES
    existe,    \* tables that exist
    ultimo     \* table -> key -> last timestamp and the values of that instant

Ninguno == [instante |-> 0, valores |-> {}]

\* The last rows of a key when one more arrives.
Con(u, n, v) ==
    CASE n > u.instante -> [instante |-> n, valores |-> {v}]
      [] n = u.instante -> [u EXCEPT !.valores = @ \cup {v}]
      [] OTHER -> u

Conserva(T) == \A t \in T \cap existe : ultimo'[t] = ultimo[t]

Insertar(t, k, n, v) ==
    /\ t \in existe
    /\ existe' = existe
    /\ ultimo'[t] = [ultimo[t] EXCEPT ![k] = Con(@, n, v)]
    /\ Conserva(Tablas \ {t})

Olvidar ==
    /\ existe' = existe
    /\ \A t \in existe, k \in Claves :
          /\ ultimo'[t][k].instante = ultimo[t][k].instante
          /\ ultimo'[t][k].valores \subseteq ultimo[t][k].valores
          /\ ultimo[t][k].valores # {} => ultimo'[t][k].valores # {}

Crear(t) ==
    /\ t \notin existe
    /\ existe' = existe \cup {t}
    /\ ultimo'[t] = [k \in Claves |-> Ninguno]
    /\ Conserva(Tablas)

Borrar(t) ==
    /\ existe' = existe \ {t}
    /\ Conserva(Tablas \ {t})

Init == \A t \in existe : ultimo[t] = [k \in Claves |-> Ninguno]

Next ==
    \/ \E t \in Tablas :
          \/ Crear(t)
          \/ Borrar(t)
          \/ \E k \in Claves, n \in Instantes, v \in Valores : Insertar(t, k, n, v)
    \/ Olvidar

Spec == Init /\ [][Next]_<<existe, ultimo>>
=============================================================================
