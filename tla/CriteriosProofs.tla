---------------------------- MODULE CriteriosProofs ----------------------------
(***************************************************************************)
(* The marks of the memories and the lists of the criteria, for any number *)
(* of memories, threads, ADDs and falls.                                   *)
(*                                                                         *)
(* Between the first and the last step of desactivar_memoria a memory may  *)
(* be marked and in no list: the calls on the stack that will clear its    *)
(* mark are what the invariants add to the properties.                     *)
(***************************************************************************)
EXTENDS Criterios, ListasProofs, FiniteSetTheorems

-----------------------------------------------------------------------------
(* The stack of calls *)

\* Memories that the calls of a stack are taking out of the criteria.
Quitan(p) == {x.memoria : x \in {y \in ToSet(p) : y.tarea = "quitar"}}

LEMMA UnaLlamada ==
  ASSUME NEW x
  PROVE  EsLista(<<x>>) /\ ToSet(<<x>>) = {x}
<1>1. <<x>> \in Seq({x}) /\ DOMAIN <<x>> = 1 .. 1 /\ <<x>>[1] = x
  OBVIOUS
<1>2. ToSet(<<x>>) = {x}
  BY <1>1 DEF ToSet
<1> QED
  BY <1>1, <1>2 DEF EsLista

\* Calls that are made.
LEMMA Llamar ==
  ASSUME NEW p, EsLista(p), NEW x
  PROVE  /\ EsLista(<<x>> \o p)
         /\ x.tarea # "quitar" => Quitan(<<x>> \o p) = Quitan(p)
         /\ x.tarea = "quitar" => Quitan(<<x>> \o p) = Quitan(p) \cup {x.memoria}
<1>1. EsLista(<<x>> \o p) /\ ToSet(<<x>> \o p) = ToSet(p) \cup {x}
  BY AgregarElemento DEF EsLista
<1> QED
  BY <1>1 DEF Quitan

\* Calls that return.
LEMMA Volver ==
  ASSUME EsLista(pila), pila # <<>>
  PROVE  /\ EsLista(Tail(pila))
         /\ Head(pila).tarea # "quitar" => Quitan(Tail(pila)) = Quitan(pila)
         /\ Head(pila).tarea = "quitar" =>
               Quitan(pila) = Quitan(Tail(pila)) \cup {Head(pila).memoria}
<1>1. EsLista(Tail(pila)) /\ ToSet(pila) = {Head(pila)} \cup ToSet(Tail(pila))
  BY QuitarCabeza
<1> QED
  BY <1>1 DEF Quitan

LEMMA DosLlamadas ==
  ASSUME NEW p, EsLista(p), NEW x, NEW y
  PROVE  <<x, y>> \o p = <<x>> \o (<<y>> \o p)
<1> DEFINE T == ToSet(p) \cup {x, y}
<1>1. p \in Seq(T) /\ <<x>> \in Seq(T) /\ <<y>> \in Seq(T)
  BY SeqMonotonic DEF EsLista
<1>2. <<x, y>> = <<x>> \o <<y>>
  <2>1. /\ <<x>> \in Seq({x, y}) /\ Len(<<x>>) = 1 /\ <<x>>[1] = x
        /\ <<y>> \in Seq({x, y}) /\ Len(<<y>>) = 1 /\ <<y>>[1] = y
        /\ <<x, y>> \in Seq({x, y}) /\ Len(<<x, y>>) = 2
        /\ <<x, y>>[1] = x /\ <<x, y>>[2] = y
    OBVIOUS
  <2>2. /\ <<x>> \o <<y>> \in Seq({x, y}) /\ Len(<<x>> \o <<y>>) = 2
        /\ (<<x>> \o <<y>>)[1] = x /\ (<<x>> \o <<y>>)[2] = y
    BY <2>1, ConcatProperties
  <2> DEFINE c == <<x>> \o <<y>>
             d == <<x, y>>
  <2> HIDE DEF c, d
  <2>3. /\ c \in Seq({x, y}) /\ d \in Seq({x, y}) /\ Len(d) = 2 /\ Len(c) = 2
        /\ c[1] = d[1] /\ c[2] = d[2]
    BY <2>1, <2>2 DEF c, d
  <2>4. \A i \in 1 .. Len(d) : d[i] = c[i]
    BY <2>3
  <2>5. d = c
    BY <2>3, <2>4, SeqEqual
  <2> QED
    BY <2>5 DEF c, d
<1> HIDE DEF T
<1> QED
  BY <1>1, <1>2, ConcatAssociative

-----------------------------------------------------------------------------
(* What the steps do to lists and stack *)

LEMMA SinQuita ==
  ASSUME NEW l \in Seq(Memorias), NEW m
  PROVE  /\ Sin(l, m) \in Seq(Memorias)
         /\ ToSet(Sin(l, m)) \subseteq ToSet(l)
         /\ ToSet(l) \ {m} \subseteq ToSet(Sin(l, m))
         /\ IsInjective(l) => IsInjective(Sin(l, m)) /\ m \notin ToSet(Sin(l, m))
<1>1. CASE m \in ToSet(l)
  BY <1>1, QuitarElemento DEF Sin
<1>2. CASE m \notin ToSet(l)
  BY <1>2 DEF Sin
<1> QED
  BY <1>1, <1>2

LEMMA DesactivarHace ==
  ASSUME l_criterio_SHC \in Seq(Memorias), NEW m, NEW resto, EsLista(resto),
         Desactivar(m, resto)
  PROVE  /\ EsLista(pila')
         /\ Quitan(pila') = Quitan(resto) \cup {m}
         /\ l_criterio_SHC' \in Seq(Memorias)
         /\ ToSet(l_criterio_SHC') \subseteq ToSet(l_criterio_SHC)
         /\ ToSet(l_criterio_SHC) \ {m} \subseteq ToSet(l_criterio_SHC')
         /\ IsInjective(l_criterio_SHC) =>
               IsInjective(l_criterio_SHC') /\ m \notin ToSet(l_criterio_SHC')
<1>1. /\ EsLista(<<Quitar(m)>> \o resto)
      /\ Quitan(<<Quitar(m)>> \o resto) = Quitan(resto) \cup {m}
  BY Llamar DEF Quitar
<1>2. CASE m \in ToSet(l_criterio_SHC)
  <2>1. PICK j : pila' = <<Journal(j), Quitar(m)>> \o resto
    BY <1>2 DEF Desactivar
  <2>2. pila' = <<Journal(j)>> \o (<<Quitar(m)>> \o resto)
    BY <2>1, DosLlamadas
  <2>3. EsLista(pila') /\ Quitan(pila') = Quitan(resto) \cup {m}
    BY <1>1, <2>2, Llamar DEF Journal
  <2>4. l_criterio_SHC' = Sin(l_criterio_SHC, m)
    BY <1>2 DEF Desactivar
  <2> QED
    BY <2>3, <2>4, SinQuita
<1>3. CASE m \notin ToSet(l_criterio_SHC)
  BY <1>1, <1>3 DEF Desactivar
<1> QED
  BY <1>2, <1>3

\* The journal on the top of the stack goes on to its next memory.
LEMMA SiguienteHace ==
  ASSUME EsLista(pila), EnTarea("journal")
  PROVE  EsLista(Siguiente) /\ Quitan(Siguiente) = Quitan(pila)
<1>1. EsLista(Tail(pila)) /\ Quitan(Tail(pila)) = Quitan(pila)
  BY Volver DEF EnTarea
<1> QED
  BY <1>1, Llamar DEF Siguiente, Journal

-----------------------------------------------------------------------------
(* Marks *)

Listas ==
    /\ l_criterio_SC \in Seq(Memorias)
    /\ l_criterio_SHC \in Seq(Memorias)
    /\ l_criterio_EC \in Seq(Memorias)
    /\ activa \in [Memorias -> BOOLEAN]
    /\ EsLista(pila)
    /\ sem_memorias = Nada => pila = <<>>

\* A marked memory is in a criterion, or its mark is about to be cleared.
Marcas == \A m \in Memorias : activa[m] => m \in EnCriterio \cup Quitan(pila)

\* ADD appends a memory to one list and marks it.
LEMMA AddMarcas ==
  ASSUME Listas, Marcas, NEW m \in Memorias,
         AgregarSC(m) \/ AgregarSHC(m) \/ AgregarEC(m)
  PROVE  Listas' /\ Marcas'
<1>1. pila = <<>> /\ Quitan(pila) = {} /\ activa' = [activa EXCEPT ![m] = TRUE]
  BY ListaVacia DEF Listas, AgregarSC, AgregarSHC, AgregarEC, Agregable, Quitan
<1>2. /\ ToSet(Append(l_criterio_EC, m)) = ToSet(l_criterio_EC) \cup {m}
      /\ ToSet(Append(l_criterio_SHC, m)) = ToSet(l_criterio_SHC) \cup {m}
      /\ ToSet(<<m>>) = {m}
      /\ Append(l_criterio_EC, m) \in Seq(Memorias)
      /\ Append(l_criterio_SHC, m) \in Seq(Memorias)
      /\ <<m>> \in Seq(Memorias)
  BY AgregarElemento, UnaLlamada DEF Listas
<1>3. CASE AgregarSC(m)
  <2>1. Listas'
    BY <1>1, <1>2, <1>3 DEF Listas, AgregarSC, Agregable
  <2> QED
    BY <1>1, <1>2, <1>3, <2>1, ListaVacia DEF Listas, Marcas, AgregarSC, EnCriterio
<1>4. CASE AgregarEC(m)
  <2>1. Listas'
    BY <1>1, <1>2, <1>4 DEF Listas, AgregarEC, Agregable
  <2> QED
    BY <1>1, <1>2, <1>4, <2>1 DEF Listas, Marcas, AgregarEC, EnCriterio
<1>5. CASE AgregarSHC(m)
  <2>1. PICK j : pila' = <<Journal(j)>>
    BY <1>5 DEF AgregarSHC
  <2>2. EsLista(pila')
    BY <2>1, UnaLlamada
  <2>3. Listas'
    BY <1>1, <1>2, <1>5, <2>2, NadaAssumption DEF Listas, AgregarSHC
  <2> QED
    BY <1>1, <1>2, <1>5, <2>3 DEF Listas, Marcas, AgregarSHC, EnCriterio
<1> QED
  BY <1>3, <1>4, <1>5

\* A thread that could not talk to a memory, or a journal, calls
\* desactivar_memoria.
LEMMA BajaMarcas ==
  ASSUME Listas, Marcas, NEW m, NEW resto, EsLista(resto),
         Quitan(resto) = Quitan(pila), Desactivar(m, resto), sem_memorias' # Nada,
         UNCHANGED <<activa, l_criterio_SC, l_criterio_EC>>
  PROVE  Listas' /\ Marcas'
<1>1. /\ EsLista(pila') /\ Quitan(pila') = Quitan(pila) \cup {m}
      /\ l_criterio_SHC' \in Seq(Memorias)
      /\ ToSet(l_criterio_SHC) \ {m} \subseteq ToSet(l_criterio_SHC')
  BY DesactivarHace DEF Listas
<1>2. Listas'
  BY <1>1 DEF Listas
<1> QED
  BY <1>1, <1>2 DEF Listas, Marcas, EnCriterio

LEMMA QuitarMarcas ==
  ASSUME Listas, Marcas, TerminarDeQuitar
  PROVE  Listas' /\ Marcas'
<1> DEFINE m == Head(pila).memoria
<1>1. /\ EsLista(pila') /\ Quitan(pila) = Quitan(pila') \cup {m}
      /\ l_criterio_SC' = Sin(l_criterio_SC, m)
      /\ l_criterio_EC' = Sin(l_criterio_EC, m)
      /\ l_criterio_SHC' = l_criterio_SHC
      /\ activa' = [activa EXCEPT ![m] = FALSE]
      /\ sem_memorias # Nada /\ sem_memorias' = sem_memorias
  BY Volver DEF TerminarDeQuitar, EnTarea, Listas
<1> HIDE DEF m
<1>2. /\ l_criterio_SC' \in Seq(Memorias) /\ l_criterio_EC' \in Seq(Memorias)
      /\ ToSet(l_criterio_SC) \ {m} \subseteq ToSet(l_criterio_SC')
      /\ ToSet(l_criterio_EC) \ {m} \subseteq ToSet(l_criterio_EC')
  BY <1>1, SinQuita DEF Listas
<1>3. Listas'
  BY <1>1, <1>2 DEF Listas
<1>4. ASSUME NEW n \in Memorias, activa'[n]
      PROVE  n # m /\ activa[n]
  BY <1>1, <1>4 DEF Listas
<1> QED
  BY <1>1, <1>2, <1>3, <1>4 DEF Marcas, EnCriterio

\* The other steps leave marks and lists alone, and the memories being taken out.
SinMarcas == UNCHANGED <<activa, listas>> /\ Quitan(pila') = Quitan(pila) /\ Listas'

LEMMA OtrosPasos ==
  ASSUME Listas,
         \/ ComandoJournal
         \/ \E h \in Hilos : Elegir(h) \/ Atendido(h) \/ Fracasa(h)
         \/ EnviarJournal \/ JournalRoto \/ FinDeJournal \/ Soltar
         \/ \E m \in Memorias : Cae(m) \/ Vuelve(m)
         \/ UNCHANGED vars
  PROVE  SinMarcas
<1>1. CASE ComandoJournal
  <2>1. PICK j : pila' = <<Journal(j)>>
    BY <1>1 DEF ComandoJournal
  <2>2. EsLista(pila') /\ Quitan(pila') = {}
    BY <2>1, UnaLlamada DEF Quitan, Journal
  <2>3. Quitan(pila) = {}
    BY <1>1, ListaVacia DEF Listas, ComandoJournal, Quitan
  <2> QED
    BY <1>1, <2>2, <2>3, NadaAssumption DEF SinMarcas, Listas, ComandoJournal, listas
<1>2. CASE EnviarJournal
  <2>1. EsLista(pila') /\ Quitan(pila') = Quitan(pila) /\ sem_memorias' # Nada
    BY <1>2, SiguienteHace DEF EnviarJournal, HayProxima, EnTarea, Listas
  <2> QED
    BY <1>2, <2>1 DEF SinMarcas, Listas, EnviarJournal, listas
<1>3. CASE JournalRoto
  <2>1. EsLista(pila') /\ Quitan(pila') = Quitan(pila) /\ sem_memorias' # Nada
    BY <1>3, Llamar DEF JournalRoto, HayProxima, EnTarea, Listas
  <2> QED
    BY <1>3, <2>1 DEF SinMarcas, Listas, JournalRoto, listas
<1>4. CASE FinDeJournal
  <2>1. EsLista(pila') /\ Quitan(pila') = Quitan(pila) /\ sem_memorias' # Nada
    BY <1>4, Volver DEF FinDeJournal, EnTarea, Listas
  <2> QED
    BY <1>4, <2>1 DEF SinMarcas, Listas, FinDeJournal, listas
<1>5. CASE \/ \E h \in Hilos : Elegir(h) \/ Atendido(h) \/ Fracasa(h)
           \/ Soltar
           \/ \E m \in Memorias : Cae(m) \/ Vuelve(m)
           \/ UNCHANGED vars
  <2>1. UNCHANGED <<activa, listas, pila>> /\ (sem_memorias' = Nada => pila = <<>>)
    BY <1>5 DEF Elegir, Atendido, Fracasa, Soltar, Cae, Vuelve, vars, listas, Listas
  <2> QED
    BY <2>1 DEF SinMarcas, Listas, listas
<1> QED
  BY <1>1, <1>2, <1>3, <1>4, <1>5

LEMMA MarcasInductivo ==
  ASSUME Listas, Marcas, [Next]_vars
  PROVE  Listas' /\ Marcas'
<1>1. CASE \E m \in Memorias : AgregarSC(m) \/ AgregarSHC(m) \/ AgregarEC(m)
  BY <1>1, AddMarcas
<1>2. CASE \E h \in Hilos : DarDeBaja(h)
  <2>1. PICK h \in Hilos : DarDeBaja(h)
    BY <1>2
  <2>2. EsLista(<<>>) /\ Quitan(<<>>) = Quitan(pila)
    BY <2>1, ListaVacia DEF DarDeBaja, Listas
  <2> QED
    BY <2>1, <2>2, BajaMarcas, NadaAssumption DEF DarDeBaja
<1>3. CASE JournalSinConexion
  <2>1. EsLista(Siguiente) /\ Quitan(Siguiente) = Quitan(pila)
    BY <1>3, SiguienteHace DEF JournalSinConexion, HayProxima, Listas
  <2> QED
    BY <1>3, <2>1, BajaMarcas DEF JournalSinConexion, HayProxima, EnTarea
<1>4. CASE TerminarDeQuitar
  BY <1>4, QuitarMarcas
<1>5. CASE SinMarcas
  BY <1>5 DEF SinMarcas, Marcas, EnCriterio, listas
<1> QED
  BY <1>1, <1>2, <1>3, <1>4, <1>5, OtrosPasos DEF Next, Consola, Hilo, ConMutex

LEMMA InitMarcas == Init => Listas /\ Marcas
<1>1. <<>> \in Seq(Memorias)
  OBVIOUS
<1> QED
  BY <1>1, ListaVacia DEF Init, Listas, Marcas

\* Whenever sem_memorias is free, a memory that desactivar_memoria took out of
\* every criterion is no longer marked: no request and no journal goes to it.
THEOREM ActivasEnCriterio == Spec => []ActivaEnCriterio
<1>1. Listas /\ Marcas => ActivaEnCriterio
  BY ListaVacia DEF Listas, Marcas, ActivaEnCriterio, Quitan
<1>2. QED
  BY <1>1, InitMarcas, MarcasInductivo, PTL DEF Spec

-----------------------------------------------------------------------------
(* Lists without repetitions *)

\* If the console never repeats an ADD, the lists hold each memory once, and taking
\* it out once leaves none of it.  A memory that is being taken out has left SHC.
Unicos ==
    /\ IsInjective(l_criterio_SC)
    /\ IsInjective(l_criterio_SHC)
    /\ IsInjective(l_criterio_EC)
    /\ \A m \in EnCriterio : activa[m]
    /\ \A m \in Quitan(pila) : m \notin ToSet(l_criterio_SHC)

LEMMA ListaDeUno == ASSUME NEW x PROVE IsInjective(<<x>>)
<1>1. DOMAIN <<x>> = 1 .. 1
  OBVIOUS
<1> QED
  BY <1>1 DEF IsInjective

LEMMA AddUnicos ==
  ASSUME RepiteAdd = FALSE, Listas, Unicos, NEW m \in Memorias,
         AgregarSC(m) \/ AgregarSHC(m) \/ AgregarEC(m)
  PROVE  Unicos'
<1>1. pila = <<>> /\ Quitan(<<>>) = {} /\ activa' = [activa EXCEPT ![m] = TRUE]
  BY ListaVacia DEF Listas, AgregarSC, AgregarSHC, AgregarEC, Agregable, Quitan
<1>2. /\ ToSet(Append(l_criterio_EC, m)) = ToSet(l_criterio_EC) \cup {m}
      /\ ToSet(Append(l_criterio_SHC, m)) = ToSet(l_criterio_SHC) \cup {m}
      /\ ToSet(<<m>>) = {m}
      /\ m \notin ToSet(l_criterio_EC) => IsInjective(Append(l_criterio_EC, m))
      /\ m \notin ToSet(l_criterio_SHC) => IsInjective(Append(l_criterio_SHC, m))
  BY AgregarElemento, UnaLlamada DEF Listas, Unicos
<1>3. activa'[m] /\ \A n \in Memorias : activa[n] => activa'[n]
  BY <1>1 DEF Listas
<1>4. EnCriterio \subseteq Memorias
  BY DEF EnCriterio, Listas, ToSet
<1>5. CASE AgregarSC(m)
  <2>1. EnCriterio' \subseteq EnCriterio \cup {m}
    BY <1>2, <1>5 DEF AgregarSC, EnCriterio
  <2> QED
    BY <1>1, <1>3, <1>4, <1>5, <2>1, ListaDeUno DEF Unicos, AgregarSC
<1>6. CASE AgregarEC(m)
  <2>1. EnCriterio' \subseteq EnCriterio \cup {m}
    BY <1>2, <1>6 DEF AgregarEC, EnCriterio
  <2> QED
    BY <1>1, <1>2, <1>3, <1>4, <1>6, <2>1 DEF Unicos, AgregarEC, Agregable
<1>7. CASE AgregarSHC(m)
  <2>1. PICK j : pila' = <<Journal(j)>>
    BY <1>7 DEF AgregarSHC
  <2>2. Quitan(pila') = {}
    BY <2>1, UnaLlamada DEF Quitan, Journal
  <2>3. EnCriterio' \subseteq EnCriterio \cup {m}
    BY <1>2, <1>7 DEF AgregarSHC, EnCriterio
  <2> QED
    BY <1>2, <1>3, <1>4, <1>7, <2>2, <2>3 DEF Unicos, AgregarSHC, Agregable
<1> QED
  BY <1>5, <1>6, <1>7

LEMMA BajaUnicos ==
  ASSUME Listas, Unicos, NEW m, NEW resto, EsLista(resto),
         Quitan(resto) = Quitan(pila), Desactivar(m, resto),
         UNCHANGED <<activa, l_criterio_SC, l_criterio_EC>>
  PROVE  Unicos'
<1>1. /\ Quitan(pila') = Quitan(pila) \cup {m}
      /\ ToSet(l_criterio_SHC') \subseteq ToSet(l_criterio_SHC)
      /\ IsInjective(l_criterio_SHC') /\ m \notin ToSet(l_criterio_SHC')
  BY DesactivarHace DEF Listas, Unicos
<1> QED
  BY <1>1 DEF Unicos, EnCriterio

LEMMA QuitarUnicos ==
  ASSUME Listas, Unicos, TerminarDeQuitar
  PROVE  Unicos'
<1> DEFINE m == Head(pila).memoria
<1>1. /\ Quitan(pila) = Quitan(pila') \cup {m}
      /\ l_criterio_SC' = Sin(l_criterio_SC, m)
      /\ l_criterio_EC' = Sin(l_criterio_EC, m)
      /\ l_criterio_SHC' = l_criterio_SHC
      /\ activa' = [activa EXCEPT ![m] = FALSE]
  BY Volver DEF TerminarDeQuitar, EnTarea, Listas
<1> HIDE DEF m
<1>2. /\ IsInjective(l_criterio_SC') /\ IsInjective(l_criterio_EC')
      /\ ToSet(l_criterio_SC') \subseteq ToSet(l_criterio_SC)
      /\ ToSet(l_criterio_EC') \subseteq ToSet(l_criterio_EC)
      /\ m \notin ToSet(l_criterio_SC') /\ m \notin ToSet(l_criterio_EC')
  BY <1>1, SinQuita DEF Listas, Unicos
<1>3. m \notin ToSet(l_criterio_SHC')
  BY <1>1 DEF Unicos
<1>4. EnCriterio' \subseteq EnCriterio \ {m} /\ EnCriterio \subseteq Memorias
  <2>1. EnCriterio' \subseteq EnCriterio \ {m}
    BY <1>1, <1>2, <1>3 DEF EnCriterio
  <2>2. EnCriterio \subseteq Memorias
    BY DEF EnCriterio, Listas, ToSet
  <2> QED
    BY <2>1, <2>2
<1>5. \A n \in EnCriterio' : activa'[n]
  BY <1>1, <1>4 DEF Unicos, Listas
<1> QED
  BY <1>1, <1>2, <1>5 DEF Unicos

LEMMA UnicosInductivo ==
  ASSUME RepiteAdd = FALSE, Listas, Unicos, [Next]_vars
  PROVE  Unicos'
<1>1. CASE \E m \in Memorias : AgregarSC(m) \/ AgregarSHC(m) \/ AgregarEC(m)
  BY <1>1, AddUnicos
<1>2. CASE \E h \in Hilos : DarDeBaja(h)
  <2>1. PICK h \in Hilos : DarDeBaja(h)
    BY <1>2
  <2>2. EsLista(<<>>) /\ Quitan(<<>>) = Quitan(pila)
    BY <2>1, ListaVacia DEF DarDeBaja, Listas
  <2> QED
    BY <2>1, <2>2, BajaUnicos DEF DarDeBaja
<1>3. CASE JournalSinConexion
  <2>1. EsLista(Siguiente) /\ Quitan(Siguiente) = Quitan(pila)
    BY <1>3, SiguienteHace DEF JournalSinConexion, HayProxima, Listas
  <2> QED
    BY <1>3, <2>1, BajaUnicos DEF JournalSinConexion
<1>4. CASE TerminarDeQuitar
  BY <1>4, QuitarUnicos
<1>5. CASE SinMarcas
  BY <1>5 DEF SinMarcas, Unicos, EnCriterio, listas
<1> QED
  BY <1>1, <1>2, <1>3, <1>4, <1>5, OtrosPasos DEF Next, Consola, Hilo, ConMutex

LEMMA InitUnicos == Init => Unicos
<1>1. IsInjective(<<>>)
  BY DEF IsInjective
<1> QED
  BY <1>1, ListaVacia DEF Init, Unicos, EnCriterio, Quitan

\* If no ADD is repeated, whenever sem_memorias is free the lists of the criteria
\* hold active memories only, so that no line goes to a memory that was
\* deactivated.
THEOREM SoloActivasSinRepetir == RepiteAdd = FALSE /\ Spec => []CriteriosActivos
<1> DEFINE Inv == RepiteAdd = FALSE /\ Listas /\ Marcas /\ Unicos
<1>1. RepiteAdd = FALSE /\ Init => Inv
  BY InitMarcas, InitUnicos
<1>2. Inv /\ [Next]_vars => Inv'
  BY MarcasInductivo, UnicosInductivo
<1>3. Inv => CriteriosActivos
  BY DEF Unicos, CriteriosActivos
<1> HIDE DEF Inv
<1>4. QED
  BY <1>1, <1>2, <1>3, PTL DEF Spec

-----------------------------------------------------------------------------
(* get_memorias_activas keeps the marked memories of a list *)

\* What it does with one memory of the list, for the marks a.
Filtro(a) ==
    [x \in Seq(Memorias) \X Memorias |-> IF a[x[2]] THEN Append(x[1], x[2]) ELSE x[1]]

LEMMA FiltroTipo ==
  ASSUME NEW a
  PROVE  /\ Filtro(a) \in [Seq(Memorias) \X Memorias -> Seq(Memorias)]
         /\ \A r \in Seq(Memorias), m \in Memorias :
               Filtro(a)[<<r, m>>] = IF a[m] THEN Append(r, m) ELSE r
  BY DEF Filtro

LEMMA FiltradasPliegue ==
  ASSUME NEW l \in Seq(Memorias), NEW a
  PROVE  Filtradas(l, a) = Plegado(Seq(Memorias), Filtro(a), <<>>, l)
<1> DEFINE V == Seq(Memorias)
           paso(r, m) == IF a[m] THEN Append(r, m) ELSE r
           EsIter(it) ==
               it = [S \in SUBSET DOMAIN l |->
                       IF S = {} THEN <<>> ELSE paso(it[S \ {Max(S)}], l[Max(S)])]
           n == Len(l)
<1>1. Filtradas(l, a) = (CHOOSE it : EsIter(it))[DOMAIN l]
  BY DEF Filtradas, FoldLeft, MapThenFoldSet
<1> HIDE DEF paso
<1>2. n \in Nat /\ DOMAIN l = 1 .. n
  OBVIOUS
<1>3. <<>> \in V
  OBVIOUS
<1> HIDE DEF V
<1>4. \A r \in V, m \in Memorias : Filtro(a)[<<r, m>>] = paso(r, m)
  BY FiltroTipo DEF V, paso
<1>5. PICK it : EsPliegue(V, Filtro(a), <<>>, l, n, it)
  BY <1>3, PliegueExiste, FiltroTipo DEF V
<1> HIDE DEF n
<1>6. ASSUME NEW S \in SUBSET (1 .. n), S # {}
      PROVE  it[S] = paso(it[S \ {Max(S)}], l[Max(S)])
  <2>1. Max(S) \in 1 .. n
    BY <1>2, <1>6, MaximoHay
  <2>2. l[Max(S)] \in Memorias
    BY <1>2, <2>1 DEF n
  <2>3. S \ {Max(S)} \in SUBSET (1 .. n)
    OBVIOUS
  <2>4. it[S \ {Max(S)}] \in V
    BY <1>5, <2>3 DEF EsPliegue
  <2>5. it[S] = Filtro(a)[<<it[S \ {Max(S)}], l[Max(S)]>>]
    BY <1>5, <1>6 DEF EsPliegue
  <2>6. QED
    BY <1>4, <2>2, <2>4, <2>5
<1>7. EsIter(it)
  <2>1. it \in [SUBSET (1 .. n) -> V] /\ it[{}] = <<>>
    BY <1>5 DEF EsPliegue
  <2>2. it = [S \in SUBSET (1 .. n) |-> it[S]]
    BY <2>1
  <2>3. QED
    BY <1>2, <1>6, <2>1, <2>2
<1> DEFINE c == CHOOSE x : EsIter(x)
<1>8. EsIter(c)
  BY <1>7
<1> HIDE DEF c
<1>9. /\ c[{}] = <<>>
      /\ \A S \in SUBSET (1 .. n) : S # {} => c[S] = paso(c[S \ {Max(S)}], l[Max(S)])
  BY <1>2, <1>8
<1>10. c[1 .. n] = it[1 .. n]
  <2>1. it[{}] = <<>>
    BY <1>5 DEF EsPliegue
  <2>2. MismaRegla(n, c, it)
    BY <1>6, <1>9, <2>1 DEF MismaRegla
  <2>3. QED
    BY <1>2, <2>2, PliegueUnico
<1>11. PICK f : Pasos(V, Filtro(a), <<>>, l, f) /\ f[n] = it[DOMAIN l]
  BY <1>5, PasosDelPliegue DEF n
<1>12. Plegado(V, Filtro(a), <<>>, l) = f[n]
  BY <1>3, <1>11, PlegadoEs DEF n
<1>13. QED
  BY <1>1, <1>2, <1>10, <1>11, <1>12 DEF c, V

LEMMA FiltradasSon ==
  ASSUME NEW l \in Seq(Memorias), NEW a
  PROVE  /\ Filtradas(l, a) \in Seq(Memorias)
         /\ \A m : m \in ToSet(Filtradas(l, a)) <=> m \in ToSet(l) /\ a[m]
<1> DEFINE V == Seq(Memorias)
           n == Len(l)
<1>1. n \in Nat /\ <<>> \in V /\ ToSet(<<>>) = {}
  BY DEF ToSet
<1>2. ToSet(l) = {l[i] : i \in 1 .. n}
  BY DEF ToSet
<1>3. \A i \in 1 .. n : l[i] \in Memorias
  OBVIOUS
<1>4. PICK f : Pasos(V, Filtro(a), <<>>, l, f)
  BY <1>1, FiltroTipo, PasosHay
<1>5. Filtradas(l, a) = f[n]
  <2> HIDE DEF V
  <2>1. Plegado(V, Filtro(a), <<>>, l) = f[n]
    BY <1>1, <1>4, PlegadoEs
  <2>2. QED
    BY <2>1, FiltradasPliegue DEF V
<1> HIDE DEF n
<1> DEFINE Bien(k) == /\ f[k] \in V
                      /\ ToSet(f[k]) = {m \in {l[i] : i \in 1 .. k} : a[m]}
           Mal == {k \in 0 .. n : ~Bien(k)}
<1>6. Bien(0)
  BY <1>1, <1>4 DEF Pasos
<1>7. ASSUME NEW k \in 1 .. n, Bien(k - 1)
      PROVE  Bien(k)
  <2>1. k - 1 \in 0 .. n /\ f[k - 1] \in V
    BY <1>1, <1>7
  <2>2. f[k] = Filtro(a)[<<f[k - 1], l[k]>>]
    BY <1>4 DEF Pasos, n
  <2>3. f[k] = IF a[l[k]] THEN Append(f[k - 1], l[k]) ELSE f[k - 1]
    BY <1>3, <2>1, <2>2, FiltroTipo
  <2>4. {l[i] : i \in 1 .. k} = {l[i] : i \in 1 .. k - 1} \cup {l[k]}
    <3>1. \A i \in 1 .. k : i \in 1 .. k - 1 \/ i = k
      BY <1>1
    <3>2. k \in 1 .. k /\ \A i \in 1 .. k - 1 : i \in 1 .. k
      BY <1>1
    <3>3. QED
      BY <3>1, <3>2
  <2>5. Append(f[k - 1], l[k]) \in V /\ ToSet(Append(f[k - 1], l[k])) = ToSet(f[k - 1]) \cup {l[k]}
    <3> DEFINE z == f[k - 1]
    <3>1. z \in Seq(Memorias) /\ l[k] \in Memorias
      BY <1>3, <2>1
    <3> HIDE DEF z
    <3>2. Append(z, l[k]) \in Seq(Memorias)
      BY <3>1, AppendProperties
    <3>3. ToSet(Append(z, l[k])) = ToSet(z) \cup {l[k]}
      BY <3>1, AgregarElemento
    <3>4. QED
      BY <3>2, <3>3 DEF z
  <2>6. QED
    BY <1>7, <2>3, <2>4, <2>5
<1> HIDE DEF Bien
<1>8. Mal = {}
  <2> SUFFICES ASSUME Mal # {} PROVE FALSE
    OBVIOUS
  <2>1. Mal \in SUBSET Nat
    BY <1>1
  <2>2. PICK k \in Mal : \A x \in Mal : k <= x
    BY <2>1, HayMinimo
  <2>3. k \in 1 .. n /\ k - 1 \in 0 .. n
    BY <1>1, <1>6, <2>2
  <2>4. k - 1 \notin Mal
    BY <2>2, <2>3
  <2>5. QED
    BY <1>7, <2>2, <2>3, <2>4
<1>9. Bien(n)
  BY <1>1, <1>8
<1>10. QED
  BY <1>2, <1>5, <1>9 DEF Bien

-----------------------------------------------------------------------------
(* The journals of SHC *)

\* Memories that the journals of a stack have not come to yet.
Faltan(p) == UNION {ToSet(x.faltan) : x \in {y \in ToSet(p) : y.tarea = "journal"}}

JournalsListas(p) == \A x \in ToSet(p) : x.tarea = "journal" => EsLista(x.faltan)

\* A memory of SHC that is marked was sent a JOURNAL since SHC changed, or a call
\* on the stack has it in its list.
Avisadas ==
    /\ l_memorias \in Seq(Memorias)
    /\ JournalsListas(pila)
    /\ \A m \in ToSet(l_criterio_SHC) : activa[m] => m \in enviados \cup Faltan(pila)

LEMMA LlamarFaltan ==
  ASSUME NEW p, EsLista(p), JournalsListas(p), NEW x,
         x.tarea = "journal" => EsLista(x.faltan)
  PROVE  /\ JournalsListas(<<x>> \o p)
         /\ Faltan(p) \subseteq Faltan(<<x>> \o p)
         /\ x.tarea = "journal" => ToSet(x.faltan) \subseteq Faltan(<<x>> \o p)
<1>1. ToSet(<<x>> \o p) = ToSet(p) \cup {x}
  BY AgregarElemento DEF EsLista
<1> QED
  BY <1>1 DEF Faltan, JournalsListas

LEMMA VolverFaltan ==
  ASSUME EsLista(pila), pila # <<>>, JournalsListas(pila)
  PROVE  /\ JournalsListas(Tail(pila))
         /\ Head(pila).tarea = "journal" => EsLista(Head(pila).faltan)
         /\ \A m \in Faltan(pila) :
               \/ m \in Faltan(Tail(pila))
               \/ Head(pila).tarea = "journal" /\ m \in ToSet(Head(pila).faltan)
<1>1. ToSet(pila) = {Head(pila)} \cup ToSet(Tail(pila))
  BY QuitarCabeza
<1> QED
  BY <1>1 DEF Faltan, JournalsListas

LEMMA SiguienteFaltan ==
  ASSUME EsLista(pila), JournalsListas(pila), HayProxima
  PROVE  /\ JournalsListas(Siguiente)
         /\ \A m \in Faltan(pila) : m \in Faltan(Siguiente) \/ m = Proxima
<1> DEFINE l == Head(pila).faltan
<1>1. /\ pila # <<>> /\ Head(pila).tarea = "journal" /\ l # <<>>
  BY DEF HayProxima, EnTarea
<1>2. EsLista(l) /\ EsLista(Tail(pila)) /\ JournalsListas(Tail(pila))
  BY <1>1, VolverFaltan, Volver
<1>3. EsLista(Tail(l)) /\ ToSet(l) = {Proxima} \cup ToSet(Tail(l))
  BY <1>1, <1>2, QuitarCabeza DEF Proxima
<1> DEFINE x == Journal(Tail(l))
<1>4. x.tarea = "journal" /\ x.faltan = Tail(l) /\ Siguiente = <<x>> \o Tail(pila)
  BY DEF Journal, Siguiente
<1> HIDE DEF x
<1>5. /\ JournalsListas(Siguiente) /\ Faltan(Tail(pila)) \subseteq Faltan(Siguiente)
      /\ ToSet(Tail(l)) \subseteq Faltan(Siguiente)
  BY <1>2, <1>3, <1>4, LlamarFaltan
<1>6. \A m \in Faltan(pila) : m \in Faltan(Tail(pila)) \/ m \in ToSet(l)
  BY <1>1, VolverFaltan
<1> QED
  BY <1>3, <1>5, <1>6

\* The orders in which some memories may be heard of.
LEMMA OrdenesSon ==
  ASSUME NEW S \in SUBSET Memorias, NEW s \in SetToSeqs(S)
  PROVE  s \in Seq(Memorias)
<1>1. Cardinality(S) \in Nat
  BY MemoriasAssumption, FS_Subset, FS_CardinalityType
<1>2. s \in [1 .. Cardinality(S) -> S]
  BY DEF SetToSeqs
<1> QED
  BY <1>1, <1>2

\* The memories that the kernel heard of.
LEMMA OidasSon ==
  ASSUME l_memorias \in Seq(Memorias), [Next]_vars
  PROVE  l_memorias' \in Seq(Memorias)
<1>1. CASE \E h \in Hilos : Atendido(h)
  <2>1. PICK h \in Hilos : Atendido(h)
    BY <1>1
  <2>2. CASE l_memorias' = l_memorias
    BY <2>2
  <2>3. CASE l_memorias' # l_memorias
    <3>1. PICK S \in SUBSET (Memorias \ ToSet(l_memorias)) :
             \E s \in SetToSeqs(S) : l_memorias' = l_memorias \o s
      BY <2>1, <2>3 DEF Atendido
    <3>2. PICK s \in SetToSeqs(S) : l_memorias' = l_memorias \o s
      BY <3>1
    <3>3. s \in Seq(Memorias)
      BY OrdenesSon
    <3> QED
      BY <3>2, <3>3, ConcatProperties
  <2> QED
    BY <2>2, <2>3
<1>2. CASE ~\E h \in Hilos : Atendido(h)
  <2>1. l_memorias' = l_memorias
    BY <1>2 DEF Next, Consola, AgregarSC, AgregarSHC, AgregarEC, ComandoJournal, Hilo, Elegir,
       Fracasa, DarDeBaja, ConMutex, TerminarDeQuitar, EnviarJournal, JournalSinConexion,
       JournalRoto, FinDeJournal, Soltar, Cae, Vuelve, vars
  <2> QED
    BY <2>1
<1> QED
  BY <1>1, <1>2

LEMMA BajaAvisadas ==
  ASSUME Listas, Avisadas, l_memorias' \in Seq(Memorias),
         NEW m, NEW resto, EsLista(resto), JournalsListas(resto),
         \A n \in Faltan(pila) : n \in Faltan(resto) \/ n = m,
         Desactivar(m, resto), activa' = activa
  PROVE  Avisadas'
<1> DEFINE q == Quitar(m)
           b == <<q>> \o resto
<1>1. q.tarea = "quitar"
  BY DEF Quitar
<1> HIDE DEF q
<1>2. EsLista(b) /\ JournalsListas(b) /\ Faltan(resto) \subseteq Faltan(b)
  BY <1>1, Llamar, LlamarFaltan
<1>3. CASE m \in ToSet(l_criterio_SHC)
  <2> DEFINE j == Activas(l_criterio_SHC')
             x == Journal(j)
  <2>1. l_criterio_SHC' \in Seq(Memorias)
    BY DesactivarHace DEF Listas
  <2>2. j \in Seq(Memorias) /\ \A n : n \in ToSet(j) <=> n \in ToSet(l_criterio_SHC') /\ activa[n]
    BY <2>1, FiltradasSon DEF Activas
  <2>3. pila' = <<x, q>> \o resto
    BY <1>3 DEF Desactivar, q
  <2>4. x.tarea = "journal" /\ x.faltan = j
    BY DEF Journal
  <2> HIDE DEF j, x
  <2>5. pila' = <<x>> \o b
    BY <2>3, DosLlamadas
  <2>6. EsLista(j)
    BY <2>2 DEF EsLista, ToSet
  <2>7. JournalsListas(pila') /\ ToSet(j) \subseteq Faltan(pila')
    BY <1>2, <2>4, <2>5, <2>6, LlamarFaltan
  <2> QED
    BY <2>2, <2>7 DEF Avisadas
<1>4. CASE m \notin ToSet(l_criterio_SHC)
  <2>1. pila' = b /\ UNCHANGED <<l_criterio_SHC, enviados>>
    BY <1>4 DEF Desactivar, q
  <2> QED
    BY <1>2, <1>4, <2>1 DEF Avisadas
<1> QED
  BY <1>3, <1>4

LEMMA AddAvisadas ==
  ASSUME RepiteAdd = FALSE, Listas, Unicos, Avisadas, l_memorias' \in Seq(Memorias),
         NEW m \in Memorias,
         AgregarSC(m) \/ AgregarSHC(m) \/ AgregarEC(m)
  PROVE  Avisadas'
<1>1. CASE AgregarSHC(m)
  <2> DEFINE j == Filtradas(l_criterio_SHC', activa')
             x == Journal(j)
  <2>1. l_criterio_SHC' \in Seq(Memorias)
    BY <1>1, AppendProperties DEF Listas, AgregarSHC
  <2>2. j \in Seq(Memorias) /\ \A n : n \in ToSet(j) <=> n \in ToSet(l_criterio_SHC') /\ activa'[n]
    BY <2>1, FiltradasSon
  <2>3. pila' = <<x>>
    BY <1>1 DEF AgregarSHC
  <2>4. x.tarea = "journal" /\ x.faltan = j
    BY DEF Journal
  <2> HIDE DEF j, x
  <2>5. ToSet(pila') = {x}
    BY <2>3, UnaLlamada
  <2>6. EsLista(j)
    BY <2>2 DEF EsLista, ToSet
  <2> QED
    BY <2>2, <2>4, <2>5, <2>6 DEF Avisadas, JournalsListas, Faltan
<1>2. CASE AgregarSC(m) \/ AgregarEC(m)
  <2>1. /\ UNCHANGED <<l_criterio_SHC, enviados, pila>>
        /\ activa' = [activa EXCEPT ![m] = TRUE]
    BY <1>2 DEF AgregarSC, AgregarEC
  <2>2. \A n \in ToSet(l_criterio_SHC) : activa[n]
    BY DEF Unicos, EnCriterio
  <2> QED
    BY <2>1, <2>2 DEF Avisadas
<1> QED
  BY <1>1, <1>2

LEMMA AvisadasInductivo ==
  ASSUME RepiteAdd = FALSE, Listas, Unicos, Avisadas, [Next]_vars
  PROVE  Avisadas'
<1>0. l_memorias' \in Seq(Memorias)
  BY OidasSon DEF Avisadas
<1>1. CASE \E m \in Memorias : AgregarSC(m) \/ AgregarSHC(m) \/ AgregarEC(m)
  BY <1>0, <1>1, AddAvisadas
<1>2. CASE ComandoJournal
  <2> DEFINE j == Activas(l_memorias)
             x == Journal(j)
  <2>1. pila' = <<x>> /\ UNCHANGED <<l_criterio_SHC, activa, enviados>> /\ pila = <<>>
    BY <1>2 DEF ComandoJournal, listas, Listas
  <2>2. x.tarea = "journal" /\ x.faltan = j
    BY DEF Journal
  <2>3. EsLista(j)
    BY FiltradasSon DEF Activas, Avisadas, EsLista, ToSet
  <2> HIDE DEF j, x
  <2>4. ToSet(pila') = {x}
    BY <2>1, UnaLlamada
  <2>5. JournalsListas(pila') /\ Faltan(pila) = {}
    BY <2>1, <2>2, <2>3, <2>4, ListaVacia DEF JournalsListas, Faltan
  <2> QED
    BY <1>0, <2>1, <2>5 DEF Avisadas
<1>3. CASE \E h \in Hilos : DarDeBaja(h)
  <2>1. PICK h \in Hilos : DarDeBaja(h)
    BY <1>3
  <2>2. EsLista(<<>>) /\ pila = <<>>
    BY <2>1, ListaVacia DEF DarDeBaja, Listas
  <2> QED
    BY <1>0, <2>1, <2>2, BajaAvisadas DEF DarDeBaja, Avisadas
<1>4. CASE JournalSinConexion
  <2>1. EsLista(Siguiente) /\ JournalsListas(Siguiente)
    BY <1>0, <1>4, SiguienteHace, SiguienteFaltan DEF JournalSinConexion, HayProxima, Listas, Avisadas
  <2> QED
    BY <1>0, <1>4, <2>1, SiguienteFaltan, BajaAvisadas DEF JournalSinConexion, Listas, Avisadas
<1>5. CASE TerminarDeQuitar
  <2>1. /\ pila # <<>> /\ Head(pila).tarea = "quitar" /\ pila' = Tail(pila)
        /\ UNCHANGED <<l_criterio_SHC, enviados>>
        /\ activa' = [activa EXCEPT ![Head(pila).memoria] = FALSE]
    BY <1>5 DEF TerminarDeQuitar, EnTarea
  <2>2. \A n \in Memorias : activa'[n] => activa[n]
    BY <2>1 DEF Listas
  <2>3. ToSet(l_criterio_SHC) \subseteq Memorias
    BY DEF Listas, ToSet
  <2>4. JournalsListas(pila') /\ Faltan(pila) \subseteq Faltan(pila')
    BY <1>0, <2>1, VolverFaltan DEF Listas, Avisadas
  <2> QED
    BY <1>0, <2>1, <2>2, <2>3, <2>4 DEF Avisadas
<1>6. CASE EnviarJournal
  <2>1. pila' = Siguiente /\ enviados' = enviados \cup {Proxima} /\ HayProxima
    BY <1>6 DEF EnviarJournal
  <2>2. UNCHANGED <<l_criterio_SHC, activa>>
    BY <1>6 DEF EnviarJournal, listas
  <2> QED
    BY <1>0, <2>1, <2>2, SiguienteFaltan DEF Listas, Avisadas
<1>7. CASE JournalRoto
  <2> DEFINE x == [tarea |-> "lock"]
  <2>1. x.tarea # "journal"
    OBVIOUS
  <2>2. pila' = <<x>> \o pila /\ UNCHANGED <<l_criterio_SHC, activa, enviados>>
    BY <1>7 DEF JournalRoto, listas
  <2> HIDE DEF x
  <2>3. JournalsListas(pila') /\ Faltan(pila) \subseteq Faltan(pila')
    BY <1>0, <2>1, <2>2, LlamarFaltan DEF Listas, Avisadas
  <2> QED
    BY <1>0, <2>2, <2>3 DEF Avisadas
<1>8. CASE FinDeJournal
  <2>1. /\ pila # <<>> /\ Head(pila).faltan = <<>> /\ pila' = Tail(pila)
        /\ UNCHANGED <<l_criterio_SHC, activa, enviados>>
    BY <1>8 DEF FinDeJournal, EnTarea, listas
  <2>2. ToSet(<<>>) = {}
    BY ListaVacia
  <2>3. JournalsListas(pila') /\ Faltan(pila) \subseteq Faltan(pila')
    BY <1>0, <2>1, <2>2, VolverFaltan DEF Listas, Avisadas
  <2> QED
    BY <1>0, <2>1, <2>3 DEF Avisadas
<1>9. CASE \/ \E h \in Hilos : Elegir(h) \/ Atendido(h) \/ Fracasa(h)
           \/ Soltar
           \/ \E m \in Memorias : Cae(m) \/ Vuelve(m)
           \/ UNCHANGED vars
  <2>1. UNCHANGED <<l_criterio_SHC, activa, enviados, pila>>
    BY <1>9 DEF Elegir, Atendido, Fracasa, Soltar, Cae, Vuelve, vars, listas
  <2> QED
    BY <1>0, <2>1 DEF Avisadas
<1> QED
  BY <1>1, <1>2, <1>3, <1>4, <1>5, <1>6, <1>7, <1>8, <1>9 DEF Next, Consola, Hilo, ConMutex

LEMMA InitAvisadas == Init => Avisadas
<1> SUFFICES ASSUME Init PROVE Avisadas
  OBVIOUS
<1>1. PICK s \in UNION {SetToSeqs(S) : S \in SUBSET (Memorias \ {Original})} :
         l_memorias = <<Original>> \o s
  BY DEF Init
<1>2. PICK S \in SUBSET (Memorias \ {Original}) : s \in SetToSeqs(S)
  BY <1>1
<1>3. s \in Seq(Memorias) /\ <<Original>> \in Seq(Memorias)
  BY <1>2, OrdenesSon, OriginalAssumption
<1>4. l_memorias \in Seq(Memorias)
  BY <1>1, <1>3, ConcatProperties
<1> QED
  BY <1>4, ListaVacia DEF Init, Avisadas, JournalsListas

\* If no ADD is repeated, whenever sem_memorias is free each marked memory of SHC
\* was sent a JOURNAL after the last change of SHC, however many memories fell while
\* others were being taken out.
THEOREM JournalAntesDeElegir == RepiteAdd = FALSE /\ Spec => []JournalDelCriterio
<1> DEFINE Inv == RepiteAdd = FALSE /\ Listas /\ Marcas /\ Unicos /\ Avisadas
<1>1. RepiteAdd = FALSE /\ Init => Inv
  BY InitMarcas, InitUnicos, InitAvisadas
<1>2. Inv /\ [Next]_vars => Inv'
  BY MarcasInductivo, UnicosInductivo, AvisadasInductivo
<1>3. Inv => JournalDelCriterio
  BY ListaVacia DEF Listas, Avisadas, Faltan, JournalDelCriterio
<1> HIDE DEF Inv
<1>4. QED
  BY <1>1, <1>2, <1>3, PTL DEF Spec
=============================================================================
