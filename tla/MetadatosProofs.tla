---------------------------- MODULE MetadatosProofs ----------------------------
(***************************************************************************)
(* What the Kernel knows of the tables, for any number of tables, criteria,*)
(* processors, lost answers and other consoles.                            *)
(*                                                                         *)
(* None of the three invariants is inductive.  That the entry of a table   *)
(* is exact once nothing changes it rests on what holds while a CREATE or  *)
(* a DROP is on its way: it is the only request of the table, a CREATE     *)
(* finds no entry and a DROP leaves one.  That no pointer hangs rests on   *)
(* there being no change of the table as long as none was noted.           *)
(***************************************************************************)
EXTENDS Metadatos, SequenceTheorems, FiniteSetTheorems, TLAPS

-----------------------------------------------------------------------------
(* The inductive invariant *)

Lugares == {"libre", "enviado", "mirado", "respondido", "tomada"}

TiposDeDatos ==
    /\ lfs \in [Tablas -> Criterios \cup {Nada}]
    /\ l_tablas \in [Tablas -> Seq(Criterios)]
    /\ dudosa \in [Tablas -> BOOLEAN]

TiposDeHilos ==
    /\ est \in [Hilos -> Lugares]
    /\ pedido \in [Hilos -> Pedidos]
    /\ respuesta \in [Hilos -> {"ok", "error"}]
    /\ leido \in [Hilos -> SUBSET (Tablas \X Criterios)]
    /\ porLeer \in [Hilos -> SUBSET Tablas]
    /\ abandonado \in [Hilos -> BOOLEAN]

TiposDeEntradas ==
    /\ tomada \in [Hilos -> Criterios \cup {Nada}]
    /\ colgada \in [Hilos -> BOOLEAN]
    /\ pisada \in [Hilos -> BOOLEAN]

\* Where a thread is goes with its request, and only a DESCRIBE reads tables, of
\* those it asked for.
Coherente(h) ==
    /\ est[h] = "libre" => pedido[h] = General
    /\ est[h] = "mirado" => Cambia(pedido[h])
    /\ est[h] = "tomada" => pedido[h] \in Lineas
    /\ h = Describe => pedido[h] = General
    /\ abandonado[h] => Cambia(pedido[h])
    /\ porLeer[h] # {} \/ leido[h] # {} =>
          est[h] \in {"enviado", "respondido"} /\ pedido[h].tipo = "DESCRIBE"
    /\ porLeer[h] \subseteq Tablas_de(pedido[h])
    /\ \A t \in Tablas, c \in Criterios : <<t, c>> \in leido[h] => t \in Tablas_de(pedido[h])

Coherentes == \A h \in Hilos : Coherente(h)

\* Only the pointer of a line that holds one may hang.
Cuelga == \A h \in Hilos : colgada[h] => est[h] = "tomada"

Tipos == TiposDeDatos /\ TiposDeHilos /\ TiposDeEntradas /\ Coherentes /\ Cuelga

\* A CREATE or DROP of t is on its way.
EsDe(h, t) == Cambia(pedido[h]) /\ pedido[h].tabla = t

\* The thread still has its request, and no other request of t waits for LFS.
Solo(h, t) ==
    /\ ~abandonado[h]
    /\ \A x \in Otros(h, t) : est[x] = "tomada"

Creando(h, t) ==
    /\ l_tablas[t] = <<>>
    /\ est[h] = "respondido" /\ respuesta[h] = "ok" => lfs[t] = pedido[h].criterio

Borrando(h, t) ==
    \/ lfs[t] # Nada /\ l_tablas[t] = <<lfs[t]>>
    \/ Len(l_tablas[t]) = 1 /\ est[h] = "respondido" /\ respuesta[h] = "ok"

CambioExacto(t) ==
    \A h \in Hilos :
        EsDe(h, t) =>
            /\ Solo(h, t)
            /\ pedido[h].tipo = "CREATE" => Creando(h, t)
            /\ pedido[h].tipo = "DROP" => Borrando(h, t)

\* What a DESCRIBE read of a table that nobody changes is still so.
LeidoExacto(t) ==
    \A h \in Hilos, c \in Criterios : <<t, c>> \in leido[h] => c = lfs[t]

TablaExacta(t) == l_tablas[t] \in {<<>>} \cup ({<<lfs[t]>>} \ {<<Nada>>})

ExactaDe(t) ==
    ~dudosa[t] => /\ CambioExacto(t)
                  /\ Quieta(t) => LeidoExacto(t) /\ TablaExacta(t)

\* Who holds an entry knows of every change of its table, and else it is exact.
UsoDe(h) ==
    est[h] = "tomada" /\ ~pisada[h] =>
        /\ Quieta(pedido[h].tabla)
        /\ ~colgada[h]
        /\ ~dudosa[pedido[h].tabla] => tomada[h] = lfs[pedido[h].tabla]

IInv ==
    /\ Tipos
    /\ \A t \in Tablas : ExactaDe(t)
    /\ \A h \in Hilos : UsoDe(h)

-----------------------------------------------------------------------------
(* Types and places *)

LEMMA LosPedidos ==
    /\ General \in Pedidos
    /\ \A p \in Pedidos : p.tipo \in {"CREATE", "DROP", "LINEA", "DESCRIBE"}
    /\ \A p \in Pedidos : p.tipo # "DESCRIBE" => p.tabla \in Tablas
    /\ \A p \in Pedidos : p.tipo = "CREATE" => p.criterio \in Criterios
    /\ \A p \in Pedidos : p.tipo = "LINEA" <=> p \in Lineas
    /\ \A p \in Pedidos : Tablas_de(p) \subseteq Tablas
    /\ \A p \in Pedidos : p.tabla \in Tablas => Tablas_de(p) = {p.tabla}
    /\ Tablas_de(General) = Tablas
    /\ General.tipo = "DESCRIBE"
    /\ Nada \notin Tablas /\ Nada \notin Criterios
  BY NadaAssumption
     DEF General, Pedidos, Creates, Drops, Lineas, Describes, Tablas_de

LEMMA IniciaTipos == Init => Tipos
  BY LosPedidos
     DEF Init, Tipos, TiposDeDatos, TiposDeHilos, TiposDeEntradas, Coherentes, Coherente,
         Cuelga, Lugares

\* A thread that is done, or that gets its answer.
LEMMA LiberaTipos ==
  ASSUME TiposDeHilos, Coherentes, NEW h \in Hilos, Libera(h)
  PROVE  TiposDeHilos' /\ Coherentes' /\ est'[h] = "libre"
<1>1. TiposDeHilos' /\ est'[h] = "libre"
  BY LosPedidos DEF Libera, TiposDeHilos, Lugares
<1>2. ASSUME NEW x \in Hilos PROVE Coherente(x)'
  BY LosPedidos DEF Libera, TiposDeHilos, Coherentes, Coherente, Lugares
<1> QED
  BY <1>1, <1>2 DEF Coherentes

LEMMA RespondeTipos ==
  ASSUME TiposDeHilos, Coherentes, NEW h \in Hilos, NEW r \in {"ok", "error"},
         est[h] \in {"enviado", "mirado"}, Responde(h, r)
  PROVE  TiposDeHilos' /\ Coherentes' /\ est'[h] \in {"libre", "respondido"}
<1>1. CASE abandonado[h]
  BY <1>1, LiberaTipos DEF Responde
<1>2. CASE ~abandonado[h]
  BY <1>2 DEF Responde, TiposDeHilos, Coherentes, Coherente, Lugares
<1> QED
  BY <1>1, <1>2

\* The thread did not hold an entry, and no pointer was left to hang.
LEMMA SinEntrada ==
  ASSUME Tipos, TiposDeDatos', TiposDeHilos', Coherentes', NEW h \in Hilos,
         est[h] # "tomada", \A x \in Hilos \ {h} : est'[x] = est[x], UNCHANGED entradas
  PROVE  Tipos'
  BY DEF Tipos, TiposDeEntradas, Cuelga, entradas

-----------------------------------------------------------------------------
(* Types and places, step by step *)

LEMMA EmpiezaTipos ==
  ASSUME Tipos, NEW h \in Hilos, NEW p \in Pedidos, NEW e \in {"enviado", "tomada"},
         e = "tomada" <=> p.tipo = "LINEA", h = Describe => p = General, Empieza(h, p, e)
  PROVE  TiposDeHilos' /\ Coherentes'
<1> USE DEF Tipos
<1>1. TiposDeHilos'
  BY LosPedidos DEF Empieza, TiposDeHilos, Lugares
<1>2. ASSUME NEW x \in Hilos PROVE Coherente(x)'
  BY LosPedidos DEF Empieza, TiposDeHilos, Coherentes, Coherente, Cambia
<1> QED
  BY <1>1, <1>2 DEF Coherentes

LEMMA PedirTipos ==
  ASSUME Tipos, NEW h \in Hilos, NEW p \in Pedidos, h = Describe => p = General,
         (Pide(h, p) /\ p.tipo # "LINEA") \/ (Busca(h, p) /\ p.tipo = "LINEA")
  PROVE  Tipos'
<1> USE DEF Tipos
<1>1. TiposDeHilos' /\ Coherentes'
  BY EmpiezaTipos, LosPedidos DEF Pide, Busca
<1>2. TiposDeDatos'
  BY DEF Pide, Busca, Empieza, Dudar, TiposDeDatos
<1>3. TiposDeEntradas'
  <2>1. Busca(h, p) /\ p.tipo = "LINEA" => Head(l_tablas[p.tabla]) \in Criterios
    BY LosPedidos DEF Busca, Conoce, TiposDeDatos
  <2> QED
    <3>1. CASE Pide(h, p)
      BY <3>1 DEF Pide, Empieza, TiposDeEntradas
    <3>2. CASE Busca(h, p) /\ p.tipo = "LINEA"
      BY <2>1, <3>2 DEF Busca, Empieza, TiposDeEntradas
    <3> QED
      BY <3>1, <3>2
<1>4. Cuelga'
  BY DEF Pide, Busca, Empieza, Cuelga, TiposDeHilos
<1> QED
  BY <1>1, <1>2, <1>3, <1>4

LEMMA UsaTipos ==
  ASSUME Tipos, NEW h \in Hilos, Usa(h)
  PROVE  Tipos'
<1> USE DEF Tipos
<1>1. TiposDeHilos' /\ Coherentes'
  BY LiberaTipos DEF Usa
<1> QED
  BY <1>1 DEF Usa, Libera, TiposDeDatos, TiposDeHilos, TiposDeEntradas, Cuelga, datos

LEMMA LfsTipos ==
  ASSUME Tipos, NEW h \in Hilos, Lfs(h)
  PROVE  Tipos'
<1> USE DEF Tipos
<1>1. TiposDeDatos'
  <2>1. CASE LfsCrea(h) \/ LfsBorra(h)
    <3>1. /\ pedido[h] \in Pedidos /\ pedido[h].tipo \in {"CREATE", "DROP"}
          /\ \E c \in Criterios \cup {Nada} : lfs' = [lfs EXCEPT ![pedido[h].tabla] = c]
          /\ UNCHANGED <<l_tablas, dudosa>>
      BY <2>1, LosPedidos DEF LfsCrea, LfsBorra, TiposDeHilos
    <3> QED
      BY <3>1, LosPedidos DEF TiposDeDatos
  <2>2. CASE LfsMira(h) \/ LfsLee(h) \/ LfsLeyo(h)
    BY <2>2 DEF LfsMira, LfsLee, LfsLeyo, datos, TiposDeDatos
  <2> QED
    BY <2>1, <2>2 DEF Lfs
<1>2. TiposDeHilos' /\ Coherentes'
  <2>1. CASE LfsMira(h)
    <3>1. CASE Responde(h, "error")
      BY <2>1, <3>1, RespondeTipos DEF LfsMira
    <3>2. CASE ~Responde(h, "error")
      <4>1. /\ est' = [est EXCEPT ![h] = "mirado"] /\ est[h] = "enviado"
            /\ Cambia(pedido[h])
            /\ UNCHANGED <<pedido, respuesta, leido, porLeer, abandonado>>
        BY <2>1, <3>2 DEF LfsMira
      <4>2. TiposDeHilos'
        BY <4>1 DEF TiposDeHilos, Lugares
      <4>3. ASSUME NEW x \in Hilos PROVE Coherente(x)'
        BY <4>1 DEF TiposDeHilos, Coherentes, Coherente, Cambia
      <4> QED
        BY <4>2, <4>3 DEF Coherentes
    <3> QED
      BY <3>1, <3>2
  <2>2. CASE LfsCrea(h) \/ LfsBorra(h)
    BY <2>2, RespondeTipos DEF LfsCrea, LfsBorra
  <2>3. CASE LfsLee(h)
    <3>1. PICK t \in porLeer[h] :
             /\ porLeer' = [porLeer EXCEPT ![h] = @ \ {t}]
             /\ leido' = [leido EXCEPT ![h] =
                             IF lfs[t] = Nada THEN @ ELSE @ \cup {<<t, lfs[t]>>}]
      BY <2>3 DEF LfsLee
    <3>2. t \in Tablas /\ lfs[t] \in Criterios \cup {Nada}
      BY DEF TiposDeHilos, TiposDeDatos
    <3>3. TiposDeHilos'
      BY <2>3, <3>1, <3>2 DEF LfsLee, TiposDeHilos
    <3>4. ASSUME NEW x \in Hilos PROVE Coherente(x)'
      BY <2>3, <3>1, <3>2 DEF LfsLee, TiposDeHilos, Coherentes, Coherente
    <3> QED
      BY <3>3, <3>4 DEF Coherentes
  <2>4. CASE LfsLeyo(h)
    BY <2>4, RespondeTipos DEF LfsLeyo
  <2> QED
    BY <2>1, <2>2, <2>3, <2>4 DEF Lfs
<1>3. /\ est[h] # "tomada" /\ UNCHANGED entradas
      /\ \A x \in Hilos \ {h} : est'[x] = est[x]
  BY DEF Lfs, LfsMira, LfsCrea, LfsBorra, LfsLee, LfsLeyo, Responde, Libera, TiposDeHilos
<1> QED
  BY <1>1, <1>2, <1>3, SinEntrada

LEMMA AplicaTipos ==
  ASSUME Tipos, NEW h \in Hilos, Aplica(h)
  PROVE  Tipos'
<1> USE DEF Tipos
<1>1. Termina(h) /\ est[h] = "respondido"
  BY DEF Aplica, SinEfecto, Alta, Baja, Agregar, Termina
<1>2. TiposDeHilos' /\ Coherentes' /\ est' = [est EXCEPT ![h] = "libre"]
  BY <1>1, LiberaTipos DEF Termina, Libera
<1>3. TiposDeDatos'
  <2>1. l_tablas' \in [Tablas -> Seq(Criterios)]
    <3>1. CASE SinEfecto(h)
      BY <3>1 DEF SinEfecto, TiposDeDatos
    <3>2. CASE Alta(h)
      BY <3>2, LosPedidos DEF Alta, TiposDeDatos, TiposDeHilos
    <3>3. CASE Baja(h)
      <4>1. pedido[h].tabla \in Tablas
        BY <3>3, LosPedidos DEF Baja, TiposDeHilos
      <4>2. Conoce(pedido[h].tabla) => Tail(l_tablas[pedido[h].tabla]) \in Seq(Criterios)
        BY <4>1 DEF Conoce, TiposDeDatos
      <4> QED
        BY <3>3, <4>1, <4>2 DEF Baja, TiposDeDatos
    <3>4. CASE Agregar(h)
      <4>1. \A t \in Tablas : Contesta(h, t) => Contestado(h, t) \in Criterios
        BY DEF Contesta, Contestado
      <4> QED
        BY <3>4, <4>1 DEF Agregar, TiposDeDatos
    <3> QED
      BY <3>1, <3>2, <3>3, <3>4 DEF Aplica
  <2> QED
    BY <1>1, <2>1 DEF Termina, TiposDeDatos
<1>4. TiposDeEntradas' /\ Cuelga'
  BY <1>1, <1>2 DEF Aplica, SinEfecto, Alta, Baja, Agregar, Termina, TiposDeEntradas,
                    TiposDeHilos, Cuelga
<1> QED
  BY <1>2, <1>3, <1>4

LEMMA CortaTipos ==
  ASSUME Tipos, NEW h \in Hilos, CortaYSigue(h) \/ CortaConBasura(h)
  PROVE  Tipos'
<1> USE DEF Tipos
<1>1. TiposDeDatos' /\ UNCHANGED entradas /\ est[h] # "tomada"
  BY DEF CortaYSigue, CortaConBasura, Corta, Dudar, TiposDeDatos
<1>2. TiposDeHilos' /\ Coherentes' /\ \A x \in Hilos \ {h} : est'[x] = est[x]
  <2>1. CASE Libera(h)
    <3>1. TiposDeHilos' /\ Coherentes'
      BY <2>1, LiberaTipos
    <3> QED
      BY <2>1, <3>1 DEF Libera, TiposDeHilos
  <2>2. CASE CortaYSigue(h) /\ ~Libera(h)
    BY <2>2 DEF CortaYSigue, TiposDeHilos, Coherentes, Coherente
  <2>3. CASE CortaConBasura(h)
    <3>1. TiposDeHilos' /\ \A x \in Hilos \ {h} : est'[x] = est[x]
      BY <2>3 DEF CortaConBasura, TiposDeHilos, Lugares
    <3>2. ASSUME NEW x \in Hilos PROVE Coherente(x)'
      BY <2>3 DEF CortaConBasura, Corta, TiposDeHilos, Coherentes, Coherente
    <3> QED
      BY <3>1, <3>2 DEF Coherentes
  <2> QED
    BY <2>1, <2>2, <2>3
<1> QED
  BY <1>1, <1>2, SinEntrada

LEMMA SigueTipos == Tipos /\ [Next]_vars => Tipos'
<1> SUFFICES ASSUME Tipos, [Next]_vars PROVE Tipos'
  OBVIOUS
<1>1. ASSUME NEW h \in Procesadores, Pedir(h)
      PROVE  Tipos'
  <2>1. /\ h \in Hilos /\ h # Describe
        /\ Creates \cup Drops \cup Describes \cup Lineas \subseteq Pedidos
    BY DescribeAssumption DEF Hilos, Pedidos
  <2>2. \A p \in Creates \cup Drops \cup Describes : p.tipo # "LINEA"
    BY DEF Creates, Drops, Describes
  <2>3. \A p \in Lineas : p.tipo = "LINEA"
    BY DEF Lineas
  <2>4. PICK p \in Pedidos : (Pide(h, p) /\ p.tipo # "LINEA") \/ (Busca(h, p) /\ p.tipo = "LINEA")
    <3>1. CASE \E p \in Creates \cup Drops \cup Describes : Pide(h, p)
      BY <2>1, <2>2, <3>1
    <3>2. CASE \E p \in Lineas : Busca(h, p)
      BY <2>1, <2>3, <3>2
    <3> QED
      BY <1>1, <3>1, <3>2 DEF Pedir
  <2> QED
    BY <2>1, <2>4, PedirTipos
<1>2. CASE Pide(Describe, General)
  <2>1. Describe \in Hilos /\ General \in Pedidos /\ General.tipo # "LINEA"
    BY LosPedidos DEF Hilos
  <2> QED
    BY <1>2, <2>1, PedirTipos
<1>3. ASSUME NEW h \in Hilos, Sigue(h) \/ CortaYSigue(h) \/ CortaConBasura(h)
      PROVE  Tipos'
  BY <1>3, LfsTipos, AplicaTipos, UsaTipos, CortaTipos DEF Sigue
<1>4. CASE OtraConsola
  BY ZenonT(30), <1>4 DEF OtraConsola, Dudar, hilos, entradas, Tipos, TiposDeDatos, TiposDeHilos,
              TiposDeEntradas, Coherentes, Coherente, Cuelga
<1>5. CASE UNCHANGED vars
  BY <1>5 DEF vars, datos, hilos, entradas, Tipos, TiposDeDatos, TiposDeHilos,
              TiposDeEntradas, Coherentes, Coherente, Cuelga
<1> QED
  BY <1>1, <1>2, <1>3, <1>4, <1>5 DEF Next

-----------------------------------------------------------------------------
(* The entry of one table *)

\* Nothing of the other threads' requests changes.
SoloDe(h) ==
    \A x \in Hilos \ {h} :
        /\ est'[x] = est[x]
        /\ pedido'[x] = pedido[x]
        /\ respuesta'[x] = respuesta[x]
        /\ leido'[x] = leido[x]
        /\ abandonado'[x] = abandonado[x]

\* The request of h waits for the answer about t.
Espera(h, t) == est[h] \notin {"libre", "tomada"} /\ t \in Tablas_de(pedido[h])

\* As long as it does a CREATE or DROP is the only one that waits.
LEMMA UnoSolo ==
  ASSUME Tipos, NEW t \in Tablas, CambioExacto(t),
         NEW h \in Hilos, NEW x \in Hilos, EsDe(h, t), Espera(x, t)
  PROVE  x = h
  BY DEF CambioExacto, Solo, Otros, Espera

LEMMA EsDeEspera ==
  ASSUME Tipos, NEW t \in Tablas, NEW h \in Hilos, EsDe(h, t)
  PROVE  Espera(h, t)
  BY LosPedidos
     DEF Tipos, TiposDeHilos, Coherentes, Coherente, EsDe, Espera, Cambia, Lineas, Tablas_de, General

LEMMA LeidoEspera ==
  ASSUME Tipos, NEW t \in Tablas, NEW h \in Hilos, NEW c \in Criterios, <<t, c>> \in leido[h]
  PROVE  Espera(h, t) /\ ~EsDe(h, t)
  BY DEF Tipos, TiposDeHilos, Coherentes, Coherente, EsDe, Espera, Cambia

\* A step of a thread whose request does not change t.
LEMMA PasoDeOtro ==
  ASSUME Tipos, Tipos', NEW t \in Tablas, ExactaDe(t), NEW h \in Hilos, SoloDe(h),
         dudosa'[t] \/ ~dudosa[t],
         lfs'[t] = lfs[t], l_tablas'[t] = l_tablas[t],
         ~EsDe(h, t), ~EsDe(h, t)',
         Espera(h, t)' => Espera(h, t) \/ dudosa'[t] \/ Quieta(t),
         \A c \in Criterios : <<t, c>> \in leido'[h] => <<t, c>> \in leido[h] \/ c = lfs[t]
  PROVE  ExactaDe(t)'
<1> SUFFICES ASSUME ~dudosa'[t] PROVE ExactaDe(t)'
  BY DEF ExactaDe
<1>1. CambioExacto(t) /\ (Quieta(t) => LeidoExacto(t) /\ TablaExacta(t))
  BY DEF ExactaDe
<1>2. \A x \in Hilos : EsDe(x, t)' <=> EsDe(x, t)
  BY DEF EsDe, SoloDe
<1>3. Quieta(t)' <=> Quieta(t)
  BY <1>2 DEF Quieta, EsDe
<1>4. ASSUME NEW x \in Hilos, EsDe(x, t)'
      PROVE  /\ Solo(x, t)'
             /\ pedido'[x].tipo = "CREATE" => Creando(x, t)'
             /\ pedido'[x].tipo = "DROP" => Borrando(x, t)'
  <2>1. x # h /\ EsDe(x, t) /\ ~Quieta(t)
    BY <1>2, <1>4 DEF Quieta, EsDe
  <2>2. ~Espera(h, t)'
    BY <1>1, <2>1, UnoSolo
  <2>3. Solo(x, t)'
    BY <1>1, <2>1, <2>2 DEF CambioExacto, Solo, Otros, Espera, SoloDe
  <2> QED
    BY <1>1, <2>1, <2>3 DEF CambioExacto, Creando, Borrando, SoloDe
<1>5. Quieta(t) => LeidoExacto(t)' /\ TablaExacta(t)'
  BY <1>1 DEF SoloDe, LeidoExacto, TablaExacta
<1> QED
  BY <1>3, <1>4, <1>5 DEF ExactaDe, CambioExacto

\* A step of the thread that changes t, whose request goes on.
LEMMA PasoSuyo ==
  ASSUME Tipos, Tipos', NEW t \in Tablas, ExactaDe(t), NEW h \in Hilos, SoloDe(h),
         dudosa'[t] \/ ~dudosa[t], pedido'[h] = pedido[h], EsDe(h, t),
         ~dudosa[t] /\ CambioExacto(t) =>
             /\ ~abandonado'[h]
             /\ pedido[h].tipo = "CREATE" => Creando(h, t)'
             /\ pedido[h].tipo = "DROP" => Borrando(h, t)'
  PROVE  ExactaDe(t)'
<1> SUFFICES ASSUME ~dudosa'[t] PROVE ExactaDe(t)'
  BY DEF ExactaDe
<1>1. CambioExacto(t)
  BY DEF ExactaDe
<1>2. EsDe(h, t)' /\ ~Quieta(t)'
  BY DEF EsDe, Quieta
<1>3. ASSUME NEW x \in Hilos, EsDe(x, t)' PROVE x = h
  BY <1>1, <1>3, UnoSolo, EsDeEspera DEF EsDe, SoloDe
<1>4. Solo(h, t)'
  BY <1>1 DEF CambioExacto, Solo, Otros, SoloDe
<1> QED
  BY <1>1, <1>2, <1>3, <1>4 DEF ExactaDe, CambioExacto

\* The end of the request that changes t.
LEMMA FinSuyo ==
  ASSUME Tipos, Tipos', NEW t \in Tablas, ExactaDe(t), NEW h \in Hilos, SoloDe(h),
         dudosa'[t] \/ ~dudosa[t], pedido'[h] = General, leido'[h] = {}, EsDe(h, t),
         ~dudosa[t] /\ CambioExacto(t) => TablaExacta(t)'
  PROVE  ExactaDe(t)'
<1> SUFFICES ASSUME ~dudosa'[t] PROVE ExactaDe(t)'
  BY DEF ExactaDe
<1>1. CambioExacto(t)
  BY DEF ExactaDe
<1>2. ASSUME NEW x \in Hilos PROVE ~EsDe(x, t)'
  <2>1. CASE x = h
    BY <2>1, LosPedidos DEF EsDe, Cambia
  <2>2. CASE x # h
    BY <1>1, <2>2, UnoSolo, EsDeEspera DEF EsDe, SoloDe
  <2> QED
    BY <2>1, <2>2
<1>3. LeidoExacto(t)'
  <2> SUFFICES ASSUME NEW x \in Hilos, NEW c \in Criterios, <<t, c>> \in leido'[x]
               PROVE  FALSE
    BY DEF LeidoExacto
  <2>1. x # h /\ <<t, c>> \in leido[x]
    BY DEF SoloDe
  <2> QED
    BY <1>1, <2>1, LeidoEspera, UnoSolo
<1> QED
  BY <1>1, <1>2, <1>3 DEF ExactaDe, CambioExacto

-----------------------------------------------------------------------------
(* The entry of one table, step by step *)

LEMMA PideExacta ==
  ASSUME Tipos, Tipos', NEW t \in Tablas, ExactaDe(t), NEW h \in Hilos, NEW p \in Pedidos,
         Pide(h, p)
  PROVE  ExactaDe(t)'
<1>1. /\ SoloDe(h) /\ (dudosa'[t] \/ ~dudosa[t])
      /\ lfs' = lfs /\ l_tablas' = l_tablas /\ leido' = leido /\ abandonado' = abandonado
      /\ pedido'[h] = p /\ est[h] = "libre" /\ est'[h] = "enviado"
  BY DEF Pide, Empieza, Dudar, SoloDe, Tipos, TiposDeHilos
<1>2. ~EsDe(h, t) /\ ~abandonado[h]
  BY <1>1, LosPedidos DEF Tipos, Coherentes, Coherente, EsDe, Cambia
<1>3. ASSUME t \in Tablas_de(p), ~dudosa'[t], Cambia(p) \/ ~Quieta(t)
      PROVE  Cambia(p) /\ Quieta(t) /\ \A x \in Otros(h, t) : est[x] = "tomada"
  <2>1. \A x \in Otros(h, t) : est[x] = "tomada" \/ ~(Cambia(p) \/ Cambia(pedido[x]))
    BY <1>3 DEF Pide, Dudar
  <2>2. \A x \in Hilos : EsDe(x, t) => x \in Otros(h, t) /\ est[x] # "tomada" /\ Cambia(pedido[x])
    BY <1>2, EsDeEspera DEF Espera, Otros, EsDe
  <2>3. Quieta(t)
    BY <2>1, <2>2 DEF Quieta, EsDe
  <2> QED
    BY <1>3, <2>1, <2>3
<1>4. CASE Cambia(p) /\ p.tabla = t /\ ~dudosa'[t]
  <2>1. t \in Tablas_de(p) /\ EsDe(h, t)' /\ ~Quieta(t)'
    BY <1>1, <1>4 DEF Tablas_de, EsDe, Quieta
  <2>2. Quieta(t) /\ \A x \in Otros(h, t) : est[x] = "tomada"
    BY <1>3, <1>4, <2>1
  <2>3. Solo(h, t)'
    BY <1>1, <1>2, <2>2 DEF Solo, Otros, SoloDe
  <2>4. TablaExacta(t) /\ ~dudosa[t]
    BY <1>1, <1>4, <2>2 DEF ExactaDe
  <2>5. p.tipo = "CREATE" => Creando(h, t)'
    BY <1>1, <1>4, <2>4 DEF Pide, Conoce, Creando
  <2>6. p.tipo = "DROP" => Borrando(h, t)'
    BY <1>1, <1>4, <2>4 DEF Pide, Conoce, Borrando, TablaExacta
  <2>7. ASSUME NEW x \in Hilos, EsDe(x, t)' PROVE x = h
    BY <1>1, <2>2, <2>7 DEF EsDe, SoloDe, Quieta
  <2> QED
    BY <1>1, <2>1, <2>3, <2>5, <2>6, <2>7 DEF ExactaDe, CambioExacto
<1>5. CASE ~(Cambia(p) /\ p.tabla = t)
  <2>1. ~EsDe(h, t)' /\ (Espera(h, t)' => dudosa'[t] \/ Quieta(t))
    BY <1>1, <1>3, <1>5 DEF EsDe, Espera
  <2> QED
    BY <1>1, <1>2, <2>1, PasoDeOtro
<1>6. CASE dudosa'[t]
  BY <1>6 DEF ExactaDe
<1> QED
  BY <1>4, <1>5, <1>6

LEMMA LineaExacta ==
  ASSUME Tipos, Tipos', NEW t \in Tablas, ExactaDe(t), NEW h \in Hilos,
         Usa(h) \/ \E p \in Lineas : Busca(h, p)
  PROVE  ExactaDe(t)'
<1>1. CASE Usa(h)
  <2>1. /\ SoloDe(h) /\ UNCHANGED datos /\ est[h] = "tomada" /\ est'[h] = "libre"
        /\ leido'[h] = {} /\ pedido'[h] = General
    BY <1>1 DEF Usa, Libera, SoloDe, Tipos, TiposDeHilos
  <2>2. ~EsDe(h, t) /\ ~EsDe(h, t)' /\ ~Espera(h, t)'
    BY <2>1, LosPedidos DEF EsDe, Espera, Cambia, Tipos, TiposDeHilos, Coherentes, Coherente
  <2> QED
    BY <2>1, <2>2, PasoDeOtro DEF datos
<1>2. ASSUME NEW p \in Lineas, Busca(h, p)
      PROVE  ExactaDe(t)'
  <2>1. /\ SoloDe(h) /\ UNCHANGED <<datos, leido>> /\ est[h] = "libre" /\ est'[h] = "tomada"
        /\ pedido'[h] = p
    BY <1>2 DEF Busca, Empieza, SoloDe, Tipos, TiposDeHilos, datos
  <2>2. ~EsDe(h, t) /\ ~EsDe(h, t)' /\ ~Espera(h, t)'
    BY <2>1, LosPedidos DEF EsDe, Espera, Cambia, Lineas, Tipos, TiposDeHilos, Coherentes, Coherente
  <2> QED
    BY <2>1, <2>2, PasoDeOtro DEF datos
<1> QED
  BY <1>1, <1>2

LEMMA LfsExacta ==
  ASSUME Tipos, Tipos', NEW t \in Tablas, ExactaDe(t), NEW h \in Hilos, Lfs(h)
  PROVE  ExactaDe(t)'
<1>1. SoloDe(h) /\ dudosa' = dudosa /\ l_tablas' = l_tablas
  BY DEF Lfs, LfsMira, LfsCrea, LfsBorra, LfsLee, LfsLeyo, Responde, Libera, SoloDe, Tipos,
         TiposDeHilos, datos
<1>2. pedido[h] \in Pedidos /\ Coherente(h) /\ pedido \in [Hilos -> Pedidos]
  BY DEF Tipos, TiposDeHilos, Coherentes
<1>3. CASE LfsMira(h) \/ LfsCrea(h) \/ LfsBorra(h)
  <2>1. Cambia(pedido[h]) /\ Espera(h, pedido[h].tabla) /\ pedido[h].tabla \in Tablas
    BY <1>2, <1>3, LosPedidos DEF LfsMira, LfsCrea, LfsBorra, Cambia, Espera, Tablas_de
  <2>2. \/ pedido'[h] = pedido[h] /\ abandonado'[h] = abandonado[h] /\ leido'[h] = leido[h]
        \/ Libera(h) /\ abandonado[h]
    BY <1>3 DEF LfsMira, LfsCrea, LfsBorra, Responde
  <2>3. CASE pedido[h].tabla # t
    <3>1. lfs'[t] = lfs[t]
      BY <1>3, <2>3 DEF LfsMira, LfsCrea, LfsBorra, datos, Tipos, TiposDeDatos
    <3>2. ~EsDe(h, t) /\ ~EsDe(h, t)' /\ ~Espera(h, t)' /\ leido'[h] \subseteq leido[h]
      <4>1. CASE Libera(h)
        <5>1. est'[h] = "libre" /\ pedido'[h] = General /\ leido'[h] = {}
          BY <4>1 DEF Libera, Tipos, TiposDeHilos
        <5> QED
          BY <2>3, <5>1, LosPedidos DEF EsDe, Espera, Cambia
      <4>2. CASE pedido'[h] = pedido[h] /\ leido'[h] = leido[h]
        BY <2>1, <2>3, <4>2, LosPedidos DEF EsDe, Espera, Tablas_de
      <4> QED
        BY <2>2, <4>1, <4>2
    <3> QED
      BY <1>1, <3>1, <3>2, PasoDeOtro
  <2>4. CASE pedido[h].tabla = t /\ Libera(h) /\ abandonado[h]
    <3>1. EsDe(h, t)
      BY <2>1, <2>4 DEF EsDe
    <3>2. dudosa[t]
      BY <2>4, <3>1 DEF ExactaDe, CambioExacto, Solo
    <3> QED
      BY <1>1, <3>2 DEF ExactaDe
  <2>5. CASE pedido[h].tabla = t /\ pedido'[h] = pedido[h] /\ abandonado'[h] = abandonado[h]
    <3>1. EsDe(h, t)
      BY <2>1, <2>5 DEF EsDe
    <3>2. ASSUME CambioExacto(t)
          PROVE  /\ ~abandonado'[h]
                 /\ pedido[h].tipo = "CREATE" => Creando(h, t)'
                 /\ pedido[h].tipo = "DROP" => Borrando(h, t)'
      <4>1. /\ ~abandonado[h]
            /\ pedido[h].tipo = "CREATE" => Creando(h, t)
            /\ pedido[h].tipo = "DROP" => Borrando(h, t)
        BY <3>1, <3>2 DEF CambioExacto, Solo
      <4>2. CASE LfsMira(h)
        BY <1>1, <2>5, <4>1, <4>2
           DEF LfsMira, Responde, Creando, Borrando, datos, Tipos, TiposDeHilos, Cambia
      <4>3. CASE LfsCrea(h)
        BY <1>1, <2>5, <4>1, <4>3
           DEF LfsCrea, Responde, Creando, Tipos, TiposDeHilos, TiposDeDatos
      <4>4. CASE LfsBorra(h)
        <5>1. /\ pedido[h].tipo = "DROP" /\ est[h] = "mirado" /\ ~abandonado[h]
              /\ Responde(h, "ok")
          BY <4>1, <4>4 DEF LfsBorra
        <5>2. Len(l_tablas[t]) = 1
          BY <4>1, <5>1 DEF Borrando
        <5>3. est'[h] = "respondido" /\ respuesta'[h] = "ok"
          BY <5>1 DEF Responde, Tipos, TiposDeHilos
        <5> QED
          BY <1>1, <2>5, <4>1, <5>1, <5>2, <5>3 DEF Borrando
      <4> QED
        BY <1>3, <4>2, <4>3, <4>4
    <3> QED
      BY <1>1, <2>5, <3>1, <3>2, PasoSuyo
  <2> QED
    BY <2>2, <2>3, <2>4, <2>5
<1>4. CASE LfsLee(h) \/ LfsLeyo(h)
  <2>1. pedido[h].tipo = "DESCRIBE" /\ est[h] = "enviado" /\ ~abandonado[h] /\ lfs' = lfs
    BY <1>2, <1>4 DEF LfsLee, LfsLeyo, Coherente, Cambia, datos
  <2>2. /\ pedido'[h] = pedido[h] /\ est'[h] \in {"enviado", "respondido"}
        /\ \A c \in Criterios : <<t, c>> \in leido'[h] => <<t, c>> \in leido[h] \/ c = lfs[t]
    BY <1>4, <2>1 DEF LfsLee, LfsLeyo, Responde, Tipos, TiposDeHilos
  <2>3. ~EsDe(h, t) /\ ~EsDe(h, t)' /\ (Espera(h, t)' => Espera(h, t))
    BY <2>1, <2>2 DEF EsDe, Cambia, Espera
  <2> QED
    BY <1>1, <2>1, <2>2, <2>3, PasoDeOtro
<1> QED
  BY <1>3, <1>4 DEF Lfs

LEMMA AplicaExacta ==
  ASSUME Tipos, Tipos', NEW t \in Tablas, ExactaDe(t), NEW h \in Hilos, Aplica(h)
  PROVE  ExactaDe(t)'
<1>1. /\ SoloDe(h) /\ dudosa' = dudosa /\ lfs' = lfs /\ est[h] = "respondido"
      /\ est'[h] = "libre" /\ pedido'[h] = General /\ leido'[h] = {}
  BY DEF Aplica, SinEfecto, Alta, Baja, Agregar, Termina, Libera, SoloDe, Tipos, TiposDeHilos
<1>2. pedido[h] \in Pedidos /\ ~EsDe(h, t)' /\ ~Espera(h, t)'
  BY <1>1, LosPedidos DEF Tipos, TiposDeHilos, EsDe, Cambia, Espera
<1>3. CASE EsDe(h, t)
  <2>1. ASSUME ~dudosa[t], CambioExacto(t) PROVE TablaExacta(t)'
    <3>1. /\ pedido[h].tipo = "CREATE" => Creando(h, t)
          /\ pedido[h].tipo = "DROP" => Borrando(h, t)
      BY <1>3, <2>1 DEF CambioExacto
    <3>2. CASE SinEfecto(h)
      <4>1. \/ l_tablas[t] = <<>>
            \/ lfs[t] # Nada /\ l_tablas[t] = <<lfs[t]>>
        BY <1>3, <3>1, <3>2 DEF SinEfecto, Creando, Borrando, EsDe, Cambia
      <4>2. lfs[t] # Nada => <<lfs[t]>> # <<Nada>>
        OBVIOUS
      <4> QED
        BY <1>1, <3>2, <4>1, <4>2 DEF SinEfecto, TablaExacta
    <3>3. CASE Alta(h)
      <4>1. /\ l_tablas'[t] = <<pedido[h].criterio>> /\ lfs[t] = pedido[h].criterio
            /\ pedido[h].criterio \in Criterios
        BY <1>1, <1>2, <1>3, <3>1, <3>3, LosPedidos
           DEF Alta, Creando, EsDe, Tipos, TiposDeDatos
      <4> QED
        BY <1>1, <4>1, LosPedidos DEF TablaExacta
    <3>4. CASE Baja(h)
      <4>1. l_tablas[t] \in Seq(Criterios) /\ Len(l_tablas[t]) = 1
        BY <1>3, <3>1, <3>4 DEF Baja, Borrando, EsDe, Tipos, TiposDeDatos
      <4>2. l_tablas'[t] = Tail(l_tablas[t])
        BY <1>3, <3>4, <4>1 DEF Baja, EsDe, Conoce, Tipos, TiposDeDatos
      <4>3. Tail(l_tablas[t]) = <<>>
        <5>1. l_tablas[t] # <<>> /\ Tail(l_tablas[t]) \in Seq(Criterios)
          BY <4>1, EmptySeq, HeadTailProperties
        <5>2. Len(Tail(l_tablas[t])) = 0
          BY <4>1, <5>1, HeadTailProperties
        <5> QED
          BY <5>1, <5>2, EmptySeq
      <4> QED
        BY <4>2, <4>3 DEF TablaExacta
    <3>5. CASE Agregar(h)
      BY <1>3, <3>5 DEF Agregar, EsDe, Cambia
    <3> QED
      BY <3>2, <3>3, <3>4, <3>5 DEF Aplica
  <2> QED
    BY <1>1, <1>3, <2>1, FinSuyo
<1>4. CASE ~EsDe(h, t) /\ ~Agregar(h)
  <2>1. l_tablas'[t] = l_tablas[t]
    BY <1>4 DEF Aplica, SinEfecto, Alta, Baja, EsDe, Cambia, Tipos, TiposDeDatos
  <2> QED
    BY <1>1, <1>2, <1>4, <2>1, PasoDeOtro
<1>5. CASE Agregar(h) /\ ~dudosa[t]
  <2>1. ~EsDe(h, t) /\ CambioExacto(t)
    BY <1>5 DEF Agregar, EsDe, Cambia, ExactaDe
  <2>2. CASE Contesta(h, t) /\ ~Conoce(t)
    <3>1. Contestado(h, t) \in Criterios /\ <<t, Contestado(h, t)>> \in leido[h]
      BY <2>2 DEF Contesta, Contestado
    <3>2. Espera(h, t)
      BY <3>1, LeidoEspera
    <3>3. Quieta(t)
      BY <2>1, <3>2, UnoSolo DEF Quieta, EsDe
    <3>4. Contestado(h, t) = lfs[t] /\ LeidoExacto(t)
      BY <1>5, <3>1, <3>3 DEF ExactaDe, LeidoExacto
    <3>5. l_tablas'[t] = <<lfs[t]>> /\ lfs[t] \in Criterios
      BY <1>5, <2>2, <3>1, <3>4 DEF Agregar
    <3>6. TablaExacta(t)'
      BY <1>1, <3>5, LosPedidos DEF TablaExacta
    <3>7. Quieta(t)'
      BY <1>1, <1>2, <3>3 DEF Quieta, EsDe, SoloDe
    <3>8. LeidoExacto(t)'
      BY <1>1, <3>4 DEF LeidoExacto, SoloDe
    <3> QED
      BY <3>6, <3>7, <3>8 DEF ExactaDe, CambioExacto, Quieta, EsDe
  <2>3. CASE ~(Contesta(h, t) /\ ~Conoce(t))
    <3>1. l_tablas'[t] = l_tablas[t]
      BY <1>5, <2>3 DEF Agregar
    <3> QED
      BY <1>1, <1>2, <2>1, <3>1, PasoDeOtro
  <2> QED
    BY <2>2, <2>3
<1>6. CASE dudosa[t]
  BY <1>1, <1>6 DEF ExactaDe
<1> QED
  BY <1>3, <1>4, <1>5, <1>6

LEMMA CortaExacta ==
  ASSUME Tipos, Tipos', NEW t \in Tablas, ExactaDe(t), NEW h \in Hilos,
         CortaYSigue(h) \/ CortaConBasura(h)
  PROVE  ExactaDe(t)'
<1>1. /\ SoloDe(h) /\ (dudosa'[t] \/ ~dudosa[t]) /\ lfs' = lfs /\ l_tablas' = l_tablas
      /\ dudosa'[t] \/ ~EsDe(h, t)
      /\ est[h] \notin {"libre", "tomada"} /\ leido'[h] \subseteq leido[h]
      /\ pedido'[h] = pedido[h] \/ (pedido'[h] = General /\ est'[h] = "libre")
  <2>1. /\ lfs' = lfs /\ l_tablas' = l_tablas /\ est[h] \notin {"libre", "tomada"}
        /\ Dudar(IF Cambia(pedido[h]) THEN {pedido[h].tabla} ELSE {})
    BY DEF CortaYSigue, CortaConBasura, Corta
  <2>2. (dudosa'[t] \/ ~dudosa[t]) /\ (dudosa'[t] \/ ~EsDe(h, t))
    BY <2>1 DEF Dudar, EsDe
  <2>3. CASE Libera(h)
    BY <2>1, <2>2, <2>3 DEF Libera, SoloDe, Tipos, TiposDeHilos
  <2>4. CASE ~Libera(h)
    BY <2>1, <2>2, <2>4 DEF CortaYSigue, CortaConBasura, SoloDe, Tipos, TiposDeHilos
  <2> QED
    BY <2>3, <2>4
<1>2. CASE dudosa'[t]
  BY <1>2 DEF ExactaDe
<1>3. CASE ~EsDe(h, t)
  <2>1. ~EsDe(h, t)' /\ (Espera(h, t)' => Espera(h, t))
    BY <1>1, <1>3, LosPedidos DEF EsDe, Espera, Cambia
  <2> QED
    BY <1>1, <1>3, <2>1, PasoDeOtro
<1> QED
  BY <1>1, <1>2, <1>3

LEMMA ConsolaExacta ==
  ASSUME Tipos, NEW t \in Tablas, ExactaDe(t), OtraConsola
  PROVE  ExactaDe(t)'
<1>1. CASE dudosa'[t]
  BY <1>1 DEF ExactaDe
<1>2. CASE ~dudosa'[t]
  <2>1. lfs'[t] = lfs[t] /\ ~dudosa[t] /\ UNCHANGED <<l_tablas, hilos>>
    BY <1>2 DEF OtraConsola, Dudar, Tipos, TiposDeDatos
  <2> QED
    BY <2>1 DEF hilos, ExactaDe, CambioExacto, LeidoExacto, TablaExacta, Quieta, EsDe, Solo,
                Otros, Creando, Borrando
<1> QED
  BY <1>1, <1>2

-----------------------------------------------------------------------------
(* The entry a line holds *)

\* A line other than the one that takes the step goes on holding its entry.
LEMMA UsoDeOtro ==
  ASSUME Tipos, NEW h \in Hilos, NEW x \in Hilos \ {h}, UsoDe(x), SoloDe(h),
         tomada'[x] = tomada[x],
         pisada[x] => pisada'[x],
         est[x] = "tomada" /\ ~pisada'[x] =>
             /\ ~EsDe(h, pedido[x].tabla)'
             /\ ~EsDe(h, pedido[x].tabla) => colgada'[x] = colgada[x]
             /\ dudosa[pedido[x].tabla] => dudosa'[pedido[x].tabla]
             /\ \/ EsDe(h, pedido[x].tabla) \/ dudosa'[pedido[x].tabla]
                \/ lfs'[pedido[x].tabla] = lfs[pedido[x].tabla]
  PROVE  UsoDe(x)'
<1> SUFFICES ASSUME est[x] = "tomada", ~pisada'[x]
             PROVE  /\ Quieta(pedido[x].tabla)'
                    /\ ~colgada'[x]
                    /\ ~dudosa'[pedido[x].tabla] => tomada[x] = lfs'[pedido[x].tabla]
  BY DEF UsoDe, SoloDe
<1> DEFINE t == pedido[x].tabla
<1>1. Quieta(t) /\ ~colgada[x] /\ (~dudosa[t] => tomada[x] = lfs[t])
  BY DEF UsoDe
<1>2. pedido'[x] = pedido[x] /\ ~EsDe(h, t) /\ pisada[x] \in BOOLEAN
  BY <1>1 DEF Quieta, EsDe, SoloDe, Tipos, TiposDeEntradas
<1>3. Quieta(t)'
  BY <1>1, <1>2 DEF Quieta, EsDe, SoloDe
<1> QED
  BY <1>1, <1>2, <1>3 DEF t

LEMMA PideUso ==
  ASSUME Tipos, NEW h \in Hilos, NEW p \in Pedidos, Pide(h, p), NEW x \in Hilos, UsoDe(x)
  PROVE  UsoDe(x)'
<1>1. /\ SoloDe(h) /\ est'[h] = "enviado" /\ pedido'[h] = p
      /\ lfs' = lfs /\ tomada' = tomada /\ colgada' = colgada
      /\ \A t \in Tablas : dudosa[t] => dudosa'[t]
      /\ pisada'[x] = (pisada[x] \/ (Cambia(p) /\ est[x] = "tomada" /\ pedido[x].tabla = p.tabla))
  BY DEF Pide, Empieza, Dudar, SoloDe, Tipos, TiposDeHilos
<1>2. est[x] = "tomada" => pedido[x].tabla \in Tablas
  BY DEF Tipos, Coherentes, Coherente, Lineas
<1>3. CASE x = h
  BY <1>1, <1>3 DEF UsoDe
<1>4. CASE x # h
  <2>1. pedido'[x] = pedido[x]
    BY <1>1, <1>4 DEF SoloDe
  <2> QED
    BY <1>1, <1>2, <1>4, <2>1, UsoDeOtro DEF EsDe
<1> QED
  BY <1>3, <1>4

LEMMA BuscaUso ==
  ASSUME Tipos, Tipos', \A t \in Tablas : ExactaDe(t), NEW h \in Hilos, NEW p \in Lineas,
         Busca(h, p), NEW x \in Hilos, UsoDe(x)
  PROVE  UsoDe(x)'
<1> DEFINE t == p.tabla
<1>1. /\ SoloDe(h) /\ est[h] = "libre" /\ est'[h] = "tomada" /\ pedido'[h] = p
      /\ UNCHANGED <<datos, colgada>>
      /\ tomada' = [tomada EXCEPT ![h] = Head(l_tablas[t])]
      /\ pisada' = [pisada EXCEPT ![h] = \E y \in Otros(h, t) : Cambia(pedido[y])]
      /\ l_tablas[t] # <<>>
  BY DEF Busca, Empieza, Conoce, SoloDe, Tipos, TiposDeHilos, datos
<1>2. t \in Tablas /\ p.tipo = "LINEA" /\ \A y : ~EsDe(h, y)' /\ ~EsDe(h, y)
  BY <1>1, LosPedidos DEF Lineas, EsDe, Cambia, Tipos, Coherentes, Coherente
<1>3. CASE x = h
  <2> SUFFICES ASSUME ~pisada'[h]
               PROVE  Quieta(t)' /\ ~colgada[h] /\ (~dudosa[t] => tomada'[h] = lfs[t])
    BY <1>1, <1>3 DEF UsoDe, datos
  <2>1. \A y \in Otros(h, t) : ~Cambia(pedido[y])
    BY <1>1 DEF Tipos, TiposDeEntradas
  <2>2. ASSUME NEW y \in Hilos, EsDe(y, t) PROVE FALSE
    <3>1. y \in Otros(h, t)
      BY <1>2, <2>2, EsDeEspera DEF Espera, Otros
    <3> QED
      BY <2>1, <2>2, <3>1 DEF EsDe
  <2>3. Quieta(t) /\ Quieta(t)'
    BY <1>1, <1>2, <2>2 DEF Quieta, EsDe, SoloDe
  <2>4. ~colgada[h]
    BY <1>1 DEF Tipos, Cuelga
  <2>5. ~dudosa[t] => l_tablas[t] = <<lfs[t]>>
    BY <1>1, <1>2, <2>3 DEF ExactaDe, TablaExacta
  <2> QED
    BY <1>1, <2>3, <2>4, <2>5 DEF Tipos, TiposDeEntradas
<1>4. CASE x # h
  <2>1. tomada'[x] = tomada[x] /\ pisada'[x] = pisada[x]
    BY <1>1, <1>4 DEF Tipos, TiposDeEntradas
  <2> QED
    BY <1>1, <1>2, <1>4, <2>1, UsoDeOtro DEF datos
<1> QED
  BY <1>3, <1>4

LEMMA SigueUso ==
  ASSUME Tipos, NEW h \in Hilos, Sigue(h) \/ CortaYSigue(h) \/ CortaConBasura(h),
         NEW x \in Hilos, UsoDe(x)
  PROVE  UsoDe(x)'
<1>1. /\ SoloDe(h) /\ est'[h] # "tomada"
      /\ pedido'[h] = pedido[h] \/ pedido'[h] = General
  BY DEF Sigue, Lfs, LfsMira, LfsCrea, LfsBorra, LfsLee, LfsLeyo, Responde, Libera, Usa,
         Aplica, SinEfecto, Alta, Baja, Agregar, Termina, CortaYSigue, CortaConBasura, Corta,
         SoloDe, Tipos, TiposDeHilos
<1>2. CASE x = h
  BY <1>1, <1>2 DEF UsoDe
<1>3. CASE x # h
  <2> DEFINE t == pedido[x].tabla
  <2>1. est[x] = "tomada" => t \in Tablas
    BY DEF Tipos, Coherentes, Coherente, Lineas
  <2>2. tomada'[x] = tomada[x] /\ pisada'[x] = pisada[x]
    BY <1>3
       DEF Sigue, Lfs, LfsMira, LfsCrea, LfsBorra, LfsLee, LfsLeyo, Usa, Aplica, SinEfecto,
           Alta, Baja, Agregar, Termina, CortaYSigue, CortaConBasura, Corta, entradas,
           Tipos, TiposDeEntradas
  <2>3. ~EsDe(h, t) => ~EsDe(h, t)'
    BY <1>1, <1>3, LosPedidos DEF EsDe, Cambia, SoloDe
  <2>4. ~EsDe(h, t) => colgada'[x] = colgada[x]
    BY <1>3
       DEF Sigue, Lfs, LfsMira, LfsCrea, LfsBorra, LfsLee, LfsLeyo, Usa, Aplica, SinEfecto,
           Alta, Baja, Agregar, Termina, CortaYSigue, CortaConBasura, Corta, entradas, EsDe,
           Cambia, Tipos, TiposDeEntradas
  <2>5. t \in Tablas => (dudosa[t] => dudosa'[t])
    BY DEF Sigue, Lfs, LfsMira, LfsCrea, LfsBorra, LfsLee, LfsLeyo, Usa, Aplica, SinEfecto,
           Alta, Baja, Agregar, Termina, CortaYSigue, CortaConBasura, Corta, Dudar, datos
  <2>6. t \in Tablas => EsDe(h, t) \/ lfs'[t] = lfs[t]
    BY DEF Sigue, Lfs, LfsMira, LfsCrea, LfsBorra, LfsLee, LfsLeyo, Usa, Aplica, SinEfecto,
           Alta, Baja, Agregar, Termina, CortaYSigue, CortaConBasura, Corta, datos, EsDe,
           Cambia, Tipos, TiposDeDatos
  <2>7. est[x] = "tomada" /\ ~pisada[x] => ~EsDe(h, t)
    BY DEF UsoDe, Quieta, EsDe
  <2> QED
    BY <1>1, <1>3, <2>1, <2>2, <2>3, <2>4, <2>5, <2>6, <2>7, UsoDeOtro
<1> QED
  BY <1>2, <1>3

LEMMA ConsolaUso ==
  ASSUME Tipos, OtraConsola, NEW x \in Hilos, UsoDe(x)
  PROVE  UsoDe(x)'
<1>1. est[x] = "tomada" => pedido[x].tabla \in Tablas
  BY DEF Tipos, Coherentes, Coherente, Lineas
<1>2. /\ UNCHANGED <<hilos, entradas>>
      /\ \A t \in Tablas : dudosa'[t] \/ (~dudosa[t] /\ lfs'[t] = lfs[t])
  BY DEF OtraConsola, Dudar, Tipos, TiposDeDatos
<1> QED
  BY <1>1, <1>2 DEF UsoDe, Quieta, hilos, entradas

-----------------------------------------------------------------------------
(* The theorems *)

LEMMA IniciaMetadatos == Init => IInv
<1> SUFFICES ASSUME Init PROVE IInv
  OBVIOUS
<1>1. Tipos
  BY IniciaTipos
<1>2. ASSUME NEW t \in Tablas PROVE ExactaDe(t)
  BY LosPedidos DEF Init, ExactaDe, CambioExacto, LeidoExacto, TablaExacta, EsDe, Cambia
<1>3. ASSUME NEW h \in Hilos PROVE UsoDe(h)
  BY DEF Init, UsoDe
<1> QED
  BY <1>1, <1>2, <1>3 DEF IInv

LEMMA SigueMetadatos == IInv /\ [Next]_vars => IInv'
<1> SUFFICES ASSUME IInv, [Next]_vars PROVE IInv'
  OBVIOUS
<1>1. Tipos /\ Tipos'
  BY SigueTipos DEF IInv
<1>2. /\ \A t \in Tablas : ExactaDe(t)
      /\ \A h \in Hilos : UsoDe(h)
  BY DEF IInv
<1>3. ASSUME NEW h \in Hilos, NEW p \in Pedidos, Pide(h, p)
      PROVE  IInv'
  BY <1>1, <1>2, <1>3, PideExacta, PideUso DEF IInv
<1>4. ASSUME NEW h \in Hilos, NEW p \in Lineas, Busca(h, p)
      PROVE  IInv'
  BY <1>1, <1>2, <1>4, LineaExacta, BuscaUso DEF IInv
<1>5. ASSUME NEW h \in Hilos, Sigue(h) \/ CortaYSigue(h) \/ CortaConBasura(h)
      PROVE  IInv'
  BY <1>1, <1>2, <1>5, LfsExacta, AplicaExacta, LineaExacta, CortaExacta, SigueUso
     DEF IInv, Sigue
<1>6. CASE OtraConsola
  BY <1>1, <1>2, <1>6, ConsolaExacta, ConsolaUso DEF IInv
<1>7. CASE UNCHANGED vars
  <2>1. ASSUME NEW t \in Tablas PROVE ExactaDe(t)'
    BY <1>2, <1>7 DEF vars, datos, hilos, ExactaDe, CambioExacto, LeidoExacto, TablaExacta,
                      Quieta, EsDe, Solo, Otros, Creando, Borrando
  <2>2. ASSUME NEW h \in Hilos PROVE UsoDe(h)'
    BY <1>2, <1>7 DEF vars, datos, hilos, entradas, UsoDe, Quieta
  <2> QED
    BY <1>1, <2>1, <2>2 DEF IInv
<1> QED
  <2>1. /\ Procesadores \subseteq Hilos /\ Describe \in Hilos /\ General \in Pedidos
        /\ Creates \cup Drops \cup Describes \subseteq Pedidos
    BY LosPedidos DEF Hilos, Pedidos
  <2>2. ASSUME NEW h \in Procesadores, Pedir(h) PROVE IInv'
    BY <1>3, <1>4, <2>1, <2>2 DEF Pedir
  <2> QED
    BY <1>3, <1>5, <1>6, <1>7, <2>1, <2>2 DEF Next

\* As long as no CREATE or DROP of a table met another request of it, was cut or
\* came from another console, l_tablas has the table once and with the criterion
\* LFS has, or not at all (ejecutar_linea_memoria, agregar_tabla_describe).
THEOREM SabeLoQueHay == Spec => []MetadataExacta
<1>1. IInv => MetadataExacta
  BY DEF IInv, ExactaDe, TablaExacta, MetadataExacta
<1> QED
  BY <1>1, IniciaMetadatos, SigueMetadatos, PTL DEF Spec

\* The entry that INSERT and SELECT keep after sem_tablas is given back is there
\* and exact when they use it, if no CREATE or DROP of the table runs meanwhile,
\* whatever DESCRIBE adds (ejecutar_linea, obtener_memoria_criterio).
THEOREM UsaLoQueHay == Spec => []UsaSuCriterio
<1>1. IInv => UsaSuCriterio
  BY DEF IInv, UsoDe, UsaSuCriterio
<1> QED
  BY <1>1, IniciaMetadatos, SigueMetadatos, PTL DEF Spec

-----------------------------------------------------------------------------
(* How often a table is repeated.                                          *)
(*                                                                         *)
(* Entries and CREATEs on their way are counted together: a CREATE is sent *)
(* when there is no entry, and each one makes one entry at most.           *)

Creadores(t) == {h \in Procesadores : pedido[h].tipo = "CREATE" /\ pedido[h].tabla = t}

Pocas(t) == Len(l_tablas[t]) + Cardinality(Creadores(t)) <= Cardinality(Procesadores) + 1

LEMMA CuantosCreadores ==
  /\ Cardinality(Procesadores) \in Nat
  /\ \A C \in SUBSET Procesadores :
        /\ IsFiniteSet(C) /\ Cardinality(C) \in Nat
        /\ Cardinality(C) <= Cardinality(Procesadores)
        /\ \A h \in C : Cardinality(C \ {h}) = Cardinality(C) - 1
        /\ \A D \in SUBSET C : Cardinality(D) <= Cardinality(C)
  BY ProcesadoresAssumption, FS_Subset, FS_CardinalityType, FS_RemoveElement

\* No more entries and no more CREATEs.
LEMMA NoMas ==
  ASSUME Tipos, Tipos', NEW t \in Tablas, Pocas(t),
         Creadores(t)' \subseteq Creadores(t), Len(l_tablas'[t]) <= Len(l_tablas[t])
  PROVE  Pocas(t)'
<1>1. Len(l_tablas[t]) \in Nat /\ Len(l_tablas'[t]) \in Nat
  BY DEF Tipos, TiposDeDatos
<1>2. Cardinality(Creadores(t)') <= Cardinality(Creadores(t))
  BY CuantosCreadores DEF Creadores
<1>3. Cardinality(Creadores(t)') \in Nat /\ Cardinality(Creadores(t)) \in Nat
  BY CuantosCreadores DEF Creadores
<1> QED
  BY <1>1, <1>2, <1>3, CuantosCreadores DEF Pocas

LEMMA PidePocas ==
  ASSUME Tipos, Tipos', NEW t \in Tablas, Pocas(t), NEW h \in Hilos, NEW p \in Pedidos,
         Pide(h, p)
  PROVE  Pocas(t)'
<1>1. l_tablas' = l_tablas /\ pedido' = [pedido EXCEPT ![h] = p]
  BY DEF Pide, Empieza
<1>2. CASE p.tipo = "CREATE" /\ p.tabla = t
  <2>1. l_tablas'[t] = <<>>
    BY <1>1, <1>2 DEF Pide, Conoce
  <2>2. Creadores(t)' \in SUBSET Procesadores
    BY DEF Creadores
  <2>3. Cardinality(Creadores(t)') \in Nat /\ Cardinality(Creadores(t)') <= Cardinality(Procesadores)
    BY <2>2, CuantosCreadores
  <2> QED
    BY <2>1, <2>3, CuantosCreadores DEF Pocas
<1>3. CASE ~(p.tipo = "CREATE" /\ p.tabla = t)
  <2>1. Creadores(t)' \subseteq Creadores(t)
    BY <1>1, <1>3 DEF Creadores, Tipos, TiposDeHilos
  <2> QED
    BY <1>1, <2>1, NoMas DEF Tipos, TiposDeDatos
<1> QED
  BY <1>2, <1>3

LEMMA AplicaPocas ==
  ASSUME Tipos, Tipos', NEW t \in Tablas, Pocas(t), NEW h \in Hilos, Aplica(h)
  PROVE  Pocas(t)'
<1>1. pedido' = [pedido EXCEPT ![h] = General] /\ General.tipo = "DESCRIBE"
  BY LosPedidos DEF Aplica, SinEfecto, Alta, Baja, Agregar, Termina, Libera
<1>2. Creadores(t)' = Creadores(t) \ {h}
  BY <1>1 DEF Creadores, Tipos, TiposDeHilos, Hilos
<1>3. l_tablas[t] \in Seq(Criterios) /\ l_tablas'[t] \in Seq(Criterios)
  BY DEF Tipos, TiposDeDatos
<1>4. CASE l_tablas'[t] = l_tablas[t]
  BY <1>2, <1>3, <1>4, NoMas
<1>5. CASE Alta(h) /\ pedido[h].tabla = t
  <2>1. h \in Creadores(t)
    BY <1>1, <1>5 DEF Alta, Creadores, Tipos, Coherentes, Coherente, Hilos
  <2>2. Len(l_tablas'[t]) = Len(l_tablas[t]) + 1
    BY <1>3, <1>5 DEF Alta, Tipos, TiposDeDatos
  <2>3. /\ Cardinality(Creadores(t)') = Cardinality(Creadores(t)) - 1
        /\ Cardinality(Creadores(t)) \in Nat
    BY <1>2, <2>1, CuantosCreadores DEF Creadores
  <2> QED
    BY <1>3, <2>2, <2>3, CuantosCreadores DEF Pocas
<1>6. CASE Baja(h) /\ Conoce(t) /\ pedido[h].tabla = t
  <2>1. l_tablas'[t] = Tail(l_tablas[t]) /\ l_tablas[t] # <<>>
    BY <1>6 DEF Baja, Conoce, Tipos, TiposDeDatos
  <2>2. Len(l_tablas'[t]) <= Len(l_tablas[t])
    BY <1>3, <2>1, HeadTailProperties
  <2> QED
    BY <1>2, <2>2, NoMas
<1>7. CASE Agregar(h) /\ ~Conoce(t) /\ Contesta(h, t)
  <2>1. Len(l_tablas'[t]) = 1
    BY <1>7 DEF Agregar
  <2>2. Creadores(t)' \in SUBSET Procesadores
    BY DEF Creadores
  <2>3. Cardinality(Creadores(t)') \in Nat /\ Cardinality(Creadores(t)') <= Cardinality(Procesadores)
    BY <2>2, CuantosCreadores
  <2> QED
    BY <2>1, <2>3, CuantosCreadores DEF Pocas
<1> QED
  BY <1>4, <1>5, <1>6, <1>7
     DEF Aplica, SinEfecto, Alta, Baja, Agregar, Tipos, TiposDeDatos

LEMMA SiguePocas ==
  ASSUME Tipos, Tipos', [Next]_vars, NEW t \in Tablas, Pocas(t)
  PROVE  Pocas(t)'
<1>1. ASSUME NEW h \in Hilos, NEW p \in Pedidos, Pide(h, p)
      PROVE  Pocas(t)'
  BY <1>1, PidePocas
<1>2. ASSUME NEW h \in Hilos, Aplica(h)
      PROVE  Pocas(t)'
  BY <1>2, AplicaPocas
<1>3. ASSUME NEW h \in Hilos, Lfs(h) \/ Usa(h) \/ CortaYSigue(h) \/ CortaConBasura(h)
      PROVE  Pocas(t)'
  <2>1. /\ l_tablas' = l_tablas
        /\ pedido' = pedido \/ pedido' = [pedido EXCEPT ![h] = General]
    BY <1>3 DEF Lfs, LfsMira, LfsCrea, LfsBorra, LfsLee, LfsLeyo, Responde, Libera, Usa,
                CortaYSigue, CortaConBasura, Corta, datos
  <2>2. Creadores(t)' \subseteq Creadores(t)
    <3>1. General.tipo # "CREATE"
      BY LosPedidos
    <3> QED
      BY <2>1, <3>1 DEF Creadores, Hilos, Tipos, TiposDeHilos
  <2> QED
    BY <2>1, <2>2, NoMas DEF Tipos, TiposDeDatos
<1>4. ASSUME NEW h \in Hilos, NEW p \in Lineas, Busca(h, p)
      PROVE  Pocas(t)'
  <2>1. l_tablas' = l_tablas /\ pedido' = [pedido EXCEPT ![h] = p] /\ p.tipo = "LINEA"
    BY <1>4 DEF Busca, Empieza, Lineas
  <2>2. Creadores(t)' \subseteq Creadores(t)
    BY <2>1 DEF Creadores, Tipos, TiposDeHilos
  <2> QED
    BY <2>1, <2>2, NoMas DEF Tipos, TiposDeDatos
<1>5. CASE OtraConsola \/ UNCHANGED vars
  <2>1. l_tablas' = l_tablas /\ pedido' = pedido
    BY <1>5 DEF OtraConsola, vars, datos, hilos
  <2> QED
    BY <2>1 DEF Pocas, Creadores
<1> QED
  <2>1. /\ Procesadores \subseteq Hilos /\ Describe \in Hilos /\ General \in Pedidos
        /\ Creates \cup Drops \cup Describes \subseteq Pedidos
    BY LosPedidos DEF Hilos, Pedidos
  <2>2. ASSUME NEW h \in Procesadores, Pedir(h) PROVE Pocas(t)'
    BY <1>1, <1>4, <2>1, <2>2 DEF Pedir
  <2> QED
    BY <1>1, <1>2, <1>3, <1>5, <2>1, <2>2 DEF Next, Sigue

PocasInv == Tipos /\ \A t \in Tablas : Pocas(t)

\* Whatever meets, is cut or is late, the CREATEs of the processors and one
\* DESCRIBE are all that can repeat a table in l_tablas (agregar_tabla).
THEOREM NoSeRepiteMas == Spec => []PocasRepetidas
<1>1. Init => PocasInv
  <2> SUFFICES ASSUME Init PROVE PocasInv
    OBVIOUS
  <2>1. Tipos
    BY IniciaTipos
  <2>2. ASSUME NEW t \in Tablas PROVE Pocas(t)
    <3>1. Creadores(t) = {} /\ Len(l_tablas[t]) = 0
      BY LosPedidos DEF Init, Creadores, Hilos
    <3>2. Cardinality({}) = 0
      BY FS_EmptySet
    <3> QED
      BY <3>1, <3>2, CuantosCreadores DEF Pocas
  <2> QED
    BY <2>1, <2>2 DEF PocasInv
<1>2. PocasInv /\ [Next]_vars => PocasInv'
  BY SigueTipos, SiguePocas DEF PocasInv
<1>3. PocasInv => PocasRepetidas
  <2> SUFFICES ASSUME PocasInv, NEW t \in Tablas
               PROVE  Len(l_tablas[t]) <= Cardinality(Procesadores) + 1
    BY DEF PocasRepetidas
  <2>1. Creadores(t) \in SUBSET Procesadores
    BY DEF Creadores
  <2>2. Cardinality(Creadores(t)) \in Nat /\ Len(l_tablas[t]) \in Nat
    BY <2>1, CuantosCreadores DEF PocasInv, Tipos, TiposDeDatos
  <2> QED
    BY <2>2, CuantosCreadores DEF PocasInv, Pocas
<1> QED
  BY <1>1, <1>2, <1>3, PTL DEF Spec
=============================================================================
