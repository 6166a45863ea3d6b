-------------------------- MODULE PlanificadorProofs --------------------------
(***************************************************************************)
(* Proofs about the scheduler, for any number of processors, PCBs, lines,  *)
(* quanta and changes of the configuration.                                *)
(***************************************************************************)
EXTENDS Planificador, FiniteSetTheorems, TLAPS

Elementos(s) == {s[i] : i \in 1 .. Len(s)}
SinRepetidos(s) == \A i, j \in 1 .. Len(s) : s[i] = s[j] => i = j

LEMMA AppendElementos ==
    ASSUME NEW S, NEW s \in Seq(S), NEW x \in S
    PROVE  /\ Append(s, x) \in Seq(S)
           /\ Len(Append(s, x)) = Len(s) + 1
           /\ Elementos(Append(s, x)) = Elementos(s) \cup {x}
           /\ SinRepetidos(s) /\ x \notin Elementos(s) => SinRepetidos(Append(s, x))
<1>1. /\ Append(s, x) \in Seq(S)
      /\ Len(s) \in Nat
      /\ Len(Append(s, x)) = Len(s) + 1
      /\ \A i \in 1 .. Len(s) : Append(s, x)[i] = s[i]
      /\ Append(s, x)[Len(s) + 1] = x
  OBVIOUS
<1>2. Elementos(Append(s, x)) = Elementos(s) \cup {x}
  BY <1>1 DEF Elementos
<1>3. SinRepetidos(s) /\ x \notin Elementos(s) => SinRepetidos(Append(s, x))
  BY <1>1 DEF Elementos, SinRepetidos
<1>4. QED
  BY <1>1, <1>2, <1>3

LEMMA TailElementos ==
    ASSUME NEW S, NEW s \in Seq(S), s # <<>>
    PROVE  /\ Tail(s) \in Seq(S)
           /\ Head(s) \in S
           /\ Len(Tail(s)) = Len(s) - 1
           /\ Elementos(s) = Elementos(Tail(s)) \cup {Head(s)}
           /\ SinRepetidos(s) => /\ SinRepetidos(Tail(s))
                                 /\ Head(s) \notin Elementos(Tail(s))
<1>1. /\ Tail(s) \in Seq(S)
      /\ Len(s) \in Nat \ {0}
      /\ Len(Tail(s)) = Len(s) - 1
      /\ Head(s) = s[1]
      /\ Head(s) \in S
      /\ \A i \in 1 .. Len(s) - 1 : Tail(s)[i] = s[i + 1]
  OBVIOUS
<1>2. Elementos(s) = Elementos(Tail(s)) \cup {Head(s)}
  <2>1. ASSUME NEW i \in 1 .. Len(s)
        PROVE  s[i] \in Elementos(Tail(s)) \cup {Head(s)}
    <3>1. CASE i = 1
      BY <1>1, <3>1
    <3>2. CASE i # 1
      <4>1. i - 1 \in 1 .. Len(Tail(s)) /\ Tail(s)[i - 1] = s[i]
        BY <1>1, <3>2
      <4>2. QED
        BY <4>1 DEF Elementos
    <3>3. QED
      BY <3>1, <3>2
  <2>2. ASSUME NEW i \in 1 .. Len(Tail(s))
        PROVE  Tail(s)[i] \in Elementos(s)
    <3>1. i + 1 \in 1 .. Len(s) /\ Tail(s)[i] = s[i + 1]
      BY <1>1
    <3>2. QED
      BY <3>1 DEF Elementos
  <2>3. Head(s) \in Elementos(s)
    BY <1>1 DEF Elementos
  <2>4. QED
    BY <2>1, <2>2, <2>3 DEF Elementos
<1>3. ASSUME SinRepetidos(s)
      PROVE  SinRepetidos(Tail(s)) /\ Head(s) \notin Elementos(Tail(s))
  <2>1. \A i, j \in 1 .. Len(s) : s[i] = s[j] => i = j
    BY <1>3 DEF SinRepetidos
  <2>2. SinRepetidos(Tail(s))
    BY <1>1, <2>1 DEF SinRepetidos
  <2>3. ASSUME NEW i \in 1 .. Len(Tail(s)), Tail(s)[i] = Head(s)
        PROVE  FALSE
    <3>1. i + 1 \in 1 .. Len(s) /\ 1 \in 1 .. Len(s) /\ s[i + 1] = s[1]
      BY <1>1, <2>3
    <3>2. QED
      BY <2>1, <3>1
  <2>4. QED
    BY <2>2, <2>3 DEF Elementos
<1>4. QED
  BY <1>1, <1>2, <1>3

-----------------------------------------------------------------------------
(* Reading a script *)

LEMMA TareasTipo ==
    ASSUME NEW g \in Tareas
    PROVE  /\ g.lineas \in Seq(Textos) /\ g.terminada \in BOOLEAN
           /\ Len(g.lineas) \in Nat
           /\ Saltos(g) \in Nat
           /\ Saltos(g) <= Len(g.lineas) /\ Len(g.lineas) <= Saltos(g) + 1
<1>1. /\ g.lineas \in Seq(Textos) /\ g.terminada \in BOOLEAN
      /\ ~g.terminada => g.lineas # <<>>
  <2>1. CASE g = Simple
    <3>1. <<"orden">> \in Seq(Textos) /\ <<"orden">> # <<>>
      BY DEF Textos
    <3>2. QED
      BY <2>1, <3>1 DEF Simple
  <2>2. CASE g # Simple
    <3>1. PICK h \in Guiones : g = Compuesta(h)
      BY <2>2 DEF Tareas
    <3>2. QED
      BY <3>1, GuionesAssumption DEF Compuesta
  <2>3. QED
    BY <2>1, <2>2
<1>2. Len(g.lineas) \in Nat /\ (g.lineas # <<>> => Len(g.lineas) > 0)
  BY <1>1
<1>3. QED
  BY <1>1, <1>2 DEF Saltos

\* Where a reading stops, and when it has come to the end of the file.
LEMMA HastaTipo ==
    ASSUME NEW g \in Tareas, NEW m \in Nat
    PROVE  /\ Hasta(g, m) \in 0 .. Len(g.lineas)
           /\ m > Saltos(g) => Hasta(g, m) = Len(g.lineas) /\ Hasta(g, m) <= m
           /\ m <= Saltos(g) => Hasta(g, m) = m
  BY TareasTipo DEF Hasta

LEMMA RenglonesTipo ==
    ASSUME NEW g, NEW n \in Nat
    PROVE  Renglones(g, n) \in {n + 1, n + 2}
  BY DEF Renglones

LEMMA LineaEfecto ==
    ASSUME NEW p, EjecutarLinea(p)
    PROVE  /\ est[p] = "ciclo" /\ OtraVuelta(p)
           /\ k' = [k EXCEPT ![p] = k[p] + 1]
           /\ pc' = [pc EXCEPT ![pcb[p]] = pc[pcb[p]] + 1]
           /\ pos' = [pos EXCEPT ![p] = Hasta(Guion(p), Renglones(Guion(p), pos[p]))]
           /\ feof' =
                 [feof EXCEPT ![p] = Renglones(Guion(p), pos[p]) > Saltos(Guion(p))]
           /\ \E r \in {0, -1} : res' = [res EXCEPT ![p] = r]
           /\ hechas' = IF Limpia(Guion(p), pos[p])
                        THEN [hechas EXCEPT ![pcb[p]] =
                                 Append(hechas[pcb[p]], pos[p] + 1)]
                        ELSE hechas
           /\ UNCHANGED <<id_pcbs, tarea, colas, quantum, recargas, vivo, est, pcb>>
<1>1. Resultados(Texto(Guion(p), pos[p])) \subseteq {0, -1}
  BY DEF Resultados
<1>2. \E r \in {0, -1} : res' = [res EXCEPT ![p] = r]
  <2>1. \E r \in Resultados(Texto(Guion(p), pos[p])) : res' = [res EXCEPT ![p] = r]
    BY Zenon DEF EjecutarLinea
  <2>2. QED
    BY <1>1, <2>1
<1>3. QED
  BY <1>2, Zenon DEF EjecutarLinea

-----------------------------------------------------------------------------
(* The queues.  TypeOK needs UnSoloLugar: AbrirArchivo reads the script of   *)
(* the PCB of a processor, which exists because it is in ejecutando.         *)

InvColas == TypeOK /\ UnSoloLugar

LEMMA InitColas == Init => InvColas
  BY QuantaAssumption, CotasAssumption
  DEF Init, InvColas, TypeOK, UnSoloLugar, EnCola, Ids, Corriendo

LEMMA ColaElementos ==
    /\ EnCola = Elementos(listos)
    /\ UnSoloLugar => SinRepetidos(listos)
  BY DEF EnCola, Elementos, UnSoloLugar, SinRepetidos

LEMMA CrearColas ==
    ASSUME InvColas, NEW t \in Tareas, CrearPcb(t)
    PROVE  InvColas'
<1> USE CotasAssumption
<1>1. /\ id_pcbs \in Ids
      /\ id_pcbs \notin EnCola \cup ejecutando \cup finalizados
      /\ 0 .. id_pcbs' - 1 = (0 .. id_pcbs - 1) \cup {id_pcbs}
  BY SMTT(20) DEF InvColas, TypeOK, UnSoloLugar, CrearPcb, Ids
<1>2. /\ listos' \in Seq(Ids)
      /\ Elementos(listos') = Elementos(listos) \cup {id_pcbs}
      /\ SinRepetidos(listos')
  BY <1>1, AppendElementos, ColaElementos DEF InvColas, TypeOK, CrearPcb
<1>3. TypeOK'
  BY <1>1, <1>2 DEF InvColas, TypeOK, CrearPcb, locales
<1>4. UnSoloLugar'
  <2>1. EnCola' = EnCola \cup {id_pcbs}
    BY <1>2, ColaElementos DEF EnCola, Elementos
  <2>2. QED
    BY SMTT(20), <1>1, <1>2, <2>1 DEF InvColas, UnSoloLugar, CrearPcb, locales, SinRepetidos
<1>5. QED
  BY <1>3, <1>4 DEF InvColas

LEMMA ObtenerColas ==
    ASSUME InvColas, NEW p \in Procesadores, ObtenerPcb(p)
    PROVE  InvColas'
<1>1. /\ listos \in Seq(Ids) /\ listos # <<>> /\ SinRepetidos(listos)
      /\ EnCola = Elementos(listos)
  BY ColaElementos DEF InvColas, TypeOK, ObtenerPcb
<1>2. /\ listos' \in Seq(Ids)
      /\ Head(listos) \in Ids
      /\ Head(listos) \in EnCola
      /\ EnCola = Elementos(listos') \cup {Head(listos)}
      /\ SinRepetidos(listos')
      /\ Head(listos) \notin Elementos(listos')
  BY <1>1, TailElementos DEF ObtenerPcb
<1>3. TypeOK'
  <2>1. pcb' \in [Procesadores -> Nat]
    BY <1>2, CotasAssumption DEF InvColas, TypeOK, ObtenerPcb, Ids
  <2>2. est' \in [Procesadores -> {"espera", "toma"} \cup Corriendo]
    BY DEF InvColas, TypeOK, ObtenerPcb, Corriendo
  <2>3. QED
    BY <1>2, <2>1, <2>2 DEF InvColas, TypeOK, ObtenerPcb
<1>4. UnSoloLugar'
  <2>1. EnCola' = Elementos(listos')
    BY DEF EnCola, Elementos
  <2>2. /\ est \in [Procesadores -> {"espera", "toma"} \cup Corriendo]
        /\ pcb \in [Procesadores -> Nat]
        /\ est[p] = "toma" /\ "toma" \notin Corriendo
    BY DEF InvColas, TypeOK, ObtenerPcb, Corriendo
  <2>3. /\ \A i, j \in 1 .. Len(listos') : listos'[i] = listos'[j] => i = j
        /\ EnCola' \cap ejecutando' = {}
        /\ EnCola' \cap finalizados' = {}
        /\ ejecutando' \cap finalizados' = {}
        /\ EnCola' \cup ejecutando' \cup finalizados' = 0 .. id_pcbs' - 1
    BY <1>2, <2>1 DEF InvColas, UnSoloLugar, ObtenerPcb, SinRepetidos
  <2>4. \A q \in Procesadores : est'[q] \in Corriendo => pcb'[q] \in ejecutando'
    BY <2>2 DEF InvColas, UnSoloLugar, ObtenerPcb
  <2>5. \A q \in Procesadores : q # p /\ est'[q] \in Corriendo => pcb'[q] # pcb'[p]
    BY <1>2, <2>2 DEF InvColas, UnSoloLugar, ObtenerPcb
  <2>6. \A q, r \in Procesadores :
            est'[q] \in Corriendo /\ est'[r] \in Corriendo /\ pcb'[q] = pcb'[r] => q = r
    BY <2>2, <2>5 DEF InvColas, UnSoloLugar, ObtenerPcb
  <2>7. QED
    BY <2>3, <2>4, <2>6 DEF UnSoloLugar
<1>5. QED
  BY <1>3, <1>4 DEF InvColas

\* The actions of a processor that leave the queues and its PCB alone, and keep
\* it among those that run a PCB, or among those that do not.
LEMMA MismasColas ==
    ASSUME InvColas, TypeOK', NEW p \in Procesadores,
           UNCHANGED <<id_pcbs, listos, ejecutando, finalizados, pcb>>,
           \E e : est' = [est EXCEPT ![p] = e] /\ (e \in Corriendo => est[p] \in Corriendo)
    PROVE  InvColas'
<1>1. EnCola' = EnCola
  BY DEF EnCola
<1>2. \A q \in Procesadores : est'[q] \in Corriendo => est[q] \in Corriendo
  BY DEF InvColas, TypeOK
<1>3. QED
  BY <1>1, <1>2 DEF InvColas, UnSoloLugar

LEMMA CorrerColas ==
    ASSUME InvColas, NEW p \in Procesadores,
           \/ Despertar(p)
           \/ EjecutarSimple(p)
           \/ SinArchivo(p)
           \/ AbrirArchivo(p)
           \/ EjecutarLinea(p)
           \/ Morir(p)
           \/ SalirDelCiclo(p)
           \/ Acabar(p)
    PROVE  InvColas'
<1>1. CASE Despertar(p)
  <2>1. TypeOK'
    BY <1>1 DEF InvColas, TypeOK, Despertar, locales, Corriendo
  <2>2. QED
    <3>1. est' = [est EXCEPT ![p] = "toma"] /\ "toma" \notin Corriendo
      BY <1>1 DEF Despertar, Corriendo
    <3>2. UNCHANGED <<id_pcbs, listos, ejecutando, finalizados, pcb>>
      BY <1>1 DEF Despertar, locales
    <3>3. QED
      BY <2>1, <3>1, <3>2, MismasColas
<1>2. CASE EjecutarSimple(p) \/ SinArchivo(p) \/ SalirDelCiclo(p) \/ Acabar(p)
  <2>1. TypeOK'
    BY <1>2 DEF InvColas, TypeOK, EjecutarSimple, SinArchivo, SalirDelCiclo, Acabar,
                locales, colas, Corriendo
  <2>2. QED
    BY <1>2, <2>1, MismasColas
    DEF EjecutarSimple, SinArchivo, SalirDelCiclo, Acabar, locales, colas, Corriendo
<1>3. CASE AbrirArchivo(p)
  <2>1. pcb[p] \in DOMAIN tarea /\ pcb[p] \in Ids
    BY <1>3, CotasAssumption
    DEF InvColas, TypeOK, UnSoloLugar, AbrirArchivo, Corriendo, Ids
  <2>2. Guion(p) \in Tareas /\ pc[pcb[p]] \in Nat
    BY <2>1 DEF InvColas, TypeOK, Guion
  <2>3. Apuntar(Guion(p), pc[pcb[p]]) \in Nat
    <3> DEFINE g == Guion(p)
               n == pc[pcb[p]]
    <3>1. g \in Tareas /\ n \in Nat
      BY <2>2
    <3> HIDE DEF g, n
    <3>2. Hasta(g, n) \in 0 .. Len(g.lineas) /\ Len(g.lineas) \in Nat
      BY <3>1, HastaTipo, TareasTipo
    <3>3. Apuntar(g, n) \in Nat
      BY <3>2 DEF Apuntar
    <3> QED
      BY <3>3 DEF g, n
  <2>4. pos' \in [Procesadores -> Nat]
    BY <1>3, <2>3 DEF AbrirArchivo, InvColas, TypeOK
  <2>5. feof' \in [Procesadores -> BOOLEAN]
    BY <1>3 DEF AbrirArchivo, InvColas, TypeOK
  <2>6. TypeOK'
    BY <1>3, <2>4, <2>5 DEF InvColas, TypeOK, AbrirArchivo, colas, Corriendo
  <2>7. QED
    BY <1>3, <2>6, MismasColas DEF AbrirArchivo, colas, Corriendo
<1>4. CASE EjecutarLinea(p)
  <2>1. /\ pc' \in [Ids -> Nat]
        /\ k' \in [Procesadores -> Nat]
        /\ pos' \in [Procesadores -> Nat]
        /\ res' \in [Procesadores -> {0, -1}]
    <3>1. /\ pc \in [Ids -> Nat]
          /\ k \in [Procesadores -> Nat]
          /\ pos \in [Procesadores -> Nat]
          /\ res \in [Procesadores -> {0, -1}]
      BY DEF InvColas, TypeOK
    <3>2. pcb[p] \in Ids /\ pcb[p] \in DOMAIN tarea
      BY <1>4, LineaEfecto, CotasAssumption
      DEF InvColas, TypeOK, UnSoloLugar, Corriendo, Ids
    <3>3. Hasta(Guion(p), Renglones(Guion(p), pos[p])) \in Nat
      <4>1. Guion(p) \in Tareas
        BY <3>2 DEF InvColas, TypeOK, Guion
      <4>2. Renglones(Guion(p), pos[p]) \in Nat
        BY <3>1, RenglonesTipo
      <4>3. QED
        BY <4>1, <4>2, HastaTipo, TareasTipo
    <3>4. /\ k' = [k EXCEPT ![p] = k[p] + 1]
          /\ pc' = [pc EXCEPT ![pcb[p]] = pc[pcb[p]] + 1]
          /\ pos' = [pos EXCEPT ![p] = Hasta(Guion(p), Renglones(Guion(p), pos[p]))]
          /\ \E r \in {0, -1} : res' = [res EXCEPT ![p] = r]
      BY <1>4, LineaEfecto, Zenon
    <3>5. pc' \in [Ids -> Nat] /\ k' \in [Procesadores -> Nat]
      BY <3>1, <3>2, <3>4
    <3>6. pos' \in [Procesadores -> Nat] /\ res' \in [Procesadores -> {0, -1}]
      BY <3>1, <3>3, <3>4
    <3>7. QED
      BY <3>5, <3>6
  <2>2. hechas' \in [Ids -> Seq(Nat)]
    <3>1. pos[p] + 1 \in Nat
      BY DEF InvColas, TypeOK
    <3>2. \A i \in Ids : Append(hechas[i], pos[p] + 1) \in Seq(Nat)
      BY <3>1, AppendElementos DEF InvColas, TypeOK
    <3>3. CASE hechas' = [hechas EXCEPT ![pcb[p]] = Append(hechas[pcb[p]], pos[p] + 1)]
      BY <3>2, <3>3 DEF InvColas, TypeOK
    <3>4. QED
      BY <1>4, <3>3, LineaEfecto DEF InvColas, TypeOK
  <2>3. feof' \in [Procesadores -> BOOLEAN]
    <3>1. PICK b \in BOOLEAN : feof' = [feof EXCEPT ![p] = b]
      <4>1. (Renglones(Guion(p), pos[p]) > Saltos(Guion(p))) \in BOOLEAN
        OBVIOUS
      <4>2. QED
        BY <1>4, <4>1, LineaEfecto, Zenon
    <3>2. QED
      BY <3>1 DEF InvColas, TypeOK
  <2>4. TypeOK'
    BY <1>4, <2>1, <2>2, <2>3, LineaEfecto DEF InvColas, TypeOK, colas
  <2>5. est' = [est EXCEPT ![p] = est[p]] /\ UNCHANGED pcb
    BY <1>4, LineaEfecto DEF InvColas, TypeOK
  <2>6. QED
    BY <1>4, <2>4, <2>5, LineaEfecto, MismasColas DEF colas
<1>5. CASE Morir(p)
  <2>1. TypeOK'
    BY <1>5 DEF InvColas, TypeOK, Morir, locales, colas
  <2>2. est' = [est EXCEPT ![p] = est[p]]
    BY <1>5 DEF Morir, InvColas, TypeOK
  <2>3. QED
    BY <1>5, <2>1, <2>2, MismasColas DEF Morir, locales, colas
<1>6. QED
  BY <1>1, <1>2, <1>3, <1>4, <1>5

\* What Soltar does to the processors.
LEMMA SoltarLocales ==
    ASSUME InvColas, NEW p \in Procesadores, Soltar(p)
    PROVE  /\ est' \in [Procesadores -> {"espera", "toma"} \cup Corriendo]
           /\ pcb' \in [Procesadores -> Nat]
           /\ k' \in [Procesadores -> Nat]
           /\ pos' \in [Procesadores -> Nat]
           /\ feof' \in [Procesadores -> BOOLEAN]
           /\ res' \in [Procesadores -> {0, -1}]
           /\ \A q \in Procesadores :
                 est'[q] \in Corriendo =>
                    q # p /\ est[q] \in Corriendo /\ pcb'[q] = pcb[q]
  BY DEF InvColas, TypeOK, Soltar, Corriendo

LEMMA SoltarColas ==
    ASSUME InvColas, NEW p \in Procesadores,
           FinalizarPcb(p) \/ PararPorQuantum(p) \/ Abandonar(p)
    PROVE  InvColas'
<1>1. Soltar(p)
  BY DEF FinalizarPcb, PararPorQuantum, Abandonar
<1>2. /\ pcb[p] \in ejecutando /\ pcb[p] \in Ids
      /\ est[p] \in Corriendo
      /\ listos \in Seq(Ids) /\ EnCola = Elementos(listos) /\ SinRepetidos(listos)
  BY ColaElementos
  DEF InvColas, TypeOK, UnSoloLugar, FinalizarPcb, PararPorQuantum, Abandonar, Corriendo
<1>3. \A q \in Procesadores :
         est'[q] \in Corriendo => pcb'[q] \in ejecutando /\ pcb'[q] # pcb[p]
  BY <1>1, <1>2, SoltarLocales DEF InvColas, UnSoloLugar
<1>4. \A q, r \in Procesadores :
         est'[q] \in Corriendo /\ est'[r] \in Corriendo /\ pcb'[q] = pcb'[r] => q = r
  BY <1>1, SoltarLocales DEF InvColas, UnSoloLugar
<1>5. CASE FinalizarPcb(p)
  <2>1. TypeOK'
    BY <1>1, <1>2, <1>5, SoltarLocales DEF InvColas, TypeOK, FinalizarPcb
  <2>2. EnCola' = EnCola
    BY <1>5 DEF FinalizarPcb, EnCola
  <2>3. QED
    BY <1>2, <1>3, <1>4, <1>5, <2>1, <2>2 DEF InvColas, UnSoloLugar, FinalizarPcb
<1>6. CASE PararPorQuantum(p)
  <2>1. /\ listos' \in Seq(Ids)
        /\ Elementos(listos') = EnCola \cup {pcb[p]}
        /\ SinRepetidos(listos')
    BY <1>2, <1>6, AppendElementos DEF PararPorQuantum, InvColas, UnSoloLugar
  <2>2. TypeOK'
    <3>1. sem' \in Nat /\ ejecutando' \in SUBSET Ids
      BY <1>6 DEF InvColas, TypeOK, PararPorQuantum
    <3>2. QED
      BY <1>1, <1>6, <2>1, <3>1, SoltarLocales DEF InvColas, TypeOK, PararPorQuantum
  <2>3. EnCola' = EnCola \cup {pcb[p]}
    BY <2>1 DEF EnCola, Elementos
  <2>4. QED
    BY <1>2, <1>3, <1>4, <1>6, <2>1, <2>2, <2>3
    DEF InvColas, UnSoloLugar, PararPorQuantum, SinRepetidos
<1>7. CASE Abandonar(p)
  <2>1. TypeOK'
    BY <1>1, <1>7, SoltarLocales DEF InvColas, TypeOK, Abandonar, colas
  <2>2. EnCola' = EnCola
    BY <1>7 DEF Abandonar, EnCola, colas
  <2>3. QED
    BY <1>3, <1>4, <1>7, <2>1, <2>2 DEF InvColas, UnSoloLugar, Abandonar, colas
<1>8. QED
  BY <1>5, <1>6, <1>7

LEMMA ColasInductivo == InvColas /\ [Next]_vars => InvColas'
<1> SUFFICES ASSUME InvColas, [Next]_vars
             PROVE  InvColas'
  OBVIOUS
<1>1. CASE \E t \in Tareas : CrearPcb(t)
  BY <1>1, CrearColas
<1>2. CASE \E p \in Procesadores : Avanzar(p)
  <2>1. PICK p \in Procesadores : Avanzar(p)
    BY <1>2
  <2>2. QED
    BY <2>1, ObtenerColas, CorrerColas, SoltarColas DEF Avanzar
<1>3. CASE RecargarConfig
  <2>1. TypeOK'
    BY <1>3 DEF RecargarConfig, InvColas, TypeOK, colas, locales
  <2>2. UnSoloLugar'
    BY <1>3 DEF RecargarConfig, InvColas, UnSoloLugar, EnCola, colas, locales
  <2>3. QED
    BY <2>1, <2>2 DEF InvColas
<1>4. CASE UNCHANGED vars
  BY <1>4 DEF vars, colas, locales, InvColas, TypeOK, UnSoloLugar, EnCola
<1>5. QED
  BY <1>1, <1>2, <1>3, <1>4 DEF Next

\* Every variable keeps its type: pcb, pos and res never leave their ranges.
THEOREM Tipos == Spec => []TypeOK
<1>1. InvColas => TypeOK
  BY DEF InvColas
<1>2. QED
  BY <1>1, InitColas, ColasInductivo, PTL DEF Spec

\* A PCB is in exactly one of the three lists, and at most one processor runs it,
\* whatever the order in which the processors take, stop and finish PCBs.
THEOREM CadaPcbEnUnLugar == Spec => []UnSoloLugar
<1>1. InvColas => UnSoloLugar
  BY DEF InvColas
<1>2. QED
  BY <1>1, InitColas, ColasInductivo, PTL DEF Spec

-----------------------------------------------------------------------------
(* The semaphore *)

Tomando == {p \in Procesadores : est[p] = "toma"}

LEMMA TomandoFinito == IsFiniteSet(Tomando) /\ Cardinality(Tomando) \in Nat
  BY ProcesadoresAssumption, FS_Subset, FS_CardinalityType DEF Tomando

\* A step that leaves the processors between sem_wait and sem_pcb as they are
\* moves the semaphore and the queue together.
LEMMA MismosTomando ==
    ASSUME SemaforoExacto, Tomando' = Tomando, sem' - sem = Len(listos') - Len(listos),
           sem \in Nat, sem' \in Nat, Len(listos) \in Nat, Len(listos') \in Nat
    PROVE  SemaforoExacto'
<1>1. /\ sem + Cardinality(Tomando) = Len(listos)
      /\ SemaforoExacto' <=> sem' + Cardinality(Tomando') = Len(listos')
  BY DEF SemaforoExacto, Tomando
<1>2. QED
  BY <1>1, TomandoFinito

LEMMA SemaforoInductivo == InvColas /\ SemaforoExacto /\ [Next]_vars => SemaforoExacto'
<1> SUFFICES ASSUME InvColas, SemaforoExacto, [Next]_vars
             PROVE  SemaforoExacto'
  OBVIOUS
<1>1. /\ sem \in Nat /\ listos \in Seq(Ids) /\ Len(listos) \in Nat
      /\ est \in [Procesadores -> {"espera", "toma"} \cup Corriendo]
      /\ sem + Cardinality(Tomando) = Len(listos)
  BY DEF InvColas, TypeOK, SemaforoExacto, Tomando
<1>2. sem' \in Nat /\ Len(listos') \in Nat
  BY ColasInductivo DEF InvColas, TypeOK
<1>3. ASSUME NEW t \in Tareas, CrearPcb(t)
      PROVE  SemaforoExacto'
  <2>1. id_pcbs \in Ids
    BY <1>3, CotasAssumption DEF InvColas, TypeOK, CrearPcb, Ids
  <2>2. Len(listos') = Len(listos) + 1
    BY <1>1, <1>3, <2>1, AppendElementos DEF CrearPcb
  <2>3. sem' - sem = Len(listos') - Len(listos) /\ Tomando' = Tomando
    BY <1>1, <1>3, <2>2 DEF CrearPcb, Tomando
  <2>4. QED
    BY <1>1, <1>2, <2>3, MismosTomando
<1>4. ASSUME NEW p \in Procesadores, Despertar(p)
      PROVE  SemaforoExacto'
  <2>1. Tomando' = Tomando \cup {p} /\ p \notin Tomando
    BY <1>1, <1>4 DEF Despertar, Tomando
  <2>2. Cardinality(Tomando') = Cardinality(Tomando) + 1
    BY <2>1, TomandoFinito, FS_AddElement
  <2>3. QED
    BY <1>1, <1>4, <2>2, TomandoFinito DEF Despertar, SemaforoExacto, Tomando
<1>5. ASSUME NEW p \in Procesadores, ObtenerPcb(p)
      PROVE  SemaforoExacto'
  <2>1. Tomando' = Tomando \ {p} /\ p \in Tomando
    BY <1>1, <1>5 DEF ObtenerPcb, Tomando
  <2>2. Cardinality(Tomando') = Cardinality(Tomando) - 1
    BY <2>1, TomandoFinito, FS_RemoveElement
  <2>3. Len(listos') = Len(listos) - 1
    BY <1>1, <1>5, TailElementos DEF ObtenerPcb
  <2>4. QED
    BY <1>1, <1>5, <2>2, <2>3, TomandoFinito DEF ObtenerPcb, SemaforoExacto, Tomando
<1>6. ASSUME NEW p \in Procesadores, PararPorQuantum(p)
      PROVE  SemaforoExacto'
  <2>1. pcb[p] \in Ids
    BY <1>6 DEF InvColas, TypeOK, UnSoloLugar, PararPorQuantum, Corriendo
  <2>2. Len(listos') = Len(listos) + 1
    BY <1>1, <1>6, <2>1, AppendElementos DEF PararPorQuantum
  <2>3. sem' - sem = Len(listos') - Len(listos) /\ Tomando' = Tomando
    BY <1>1, <1>6, <2>2 DEF PararPorQuantum, Soltar, Tomando
  <2>4. QED
    BY <1>1, <1>2, <2>3, MismosTomando
<1>7. ASSUME sem' = sem, listos' = listos, Tomando' = Tomando
      PROVE  SemaforoExacto'
  BY <1>1, <1>7 DEF SemaforoExacto, Tomando
<1>8. ASSUME NEW p \in Procesadores,
             \/ EjecutarSimple(p)
             \/ SinArchivo(p)
             \/ AbrirArchivo(p)
             \/ SalirDelCiclo(p)
             \/ Acabar(p)
             \/ FinalizarPcb(p)
             \/ Abandonar(p)
      PROVE  SemaforoExacto'
  <2>1. Tomando' = Tomando
    BY <1>1, <1>8
    DEF Tomando, EjecutarSimple, SinArchivo, AbrirArchivo, SalirDelCiclo, Acabar,
        FinalizarPcb, Abandonar, Soltar
  <2>2. sem' = sem /\ listos' = listos
    BY <1>8 DEF EjecutarSimple, SinArchivo, AbrirArchivo, SalirDelCiclo, Acabar,
                FinalizarPcb, Abandonar, colas
  <2>3. QED
    BY <1>7, <2>1, <2>2
<1>9. ASSUME NEW p \in Procesadores, EjecutarLinea(p)
      PROVE  SemaforoExacto'
  BY <1>7, <1>9, LineaEfecto DEF colas, Tomando
<1>12. ASSUME NEW p \in Procesadores, Morir(p)
      PROVE  SemaforoExacto'
  BY <1>7, <1>12 DEF Morir, colas, Tomando
<1>10. CASE RecargarConfig \/ UNCHANGED vars
  BY <1>7, <1>10 DEF RecargarConfig, vars, colas, Tomando
<1>11. QED
  BY <1>3, <1>4, <1>5, <1>6, <1>8, <1>9, <1>10, <1>12 DEF Next, Avanzar

\* A processor that passed sem_wait finds a ready PCB, and no ready PCB is left
\* without a wake-up, for any number of processors.
THEOREM SemaforoCuentaListos == Spec => []SemaforoExacto
<1>1. Init => SemaforoExacto
  <2>1. ASSUME Init PROVE Tomando = {}
    BY <2>1 DEF Init, Tomando
  <2>2. QED
    <3>1. ASSUME Init PROVE Cardinality(Tomando) = 0 /\ sem = 0 /\ Len(listos) = 0
      BY <2>1, <3>1, FS_EmptySet DEF Init
    <3>2. SemaforoExacto <=> sem + Cardinality(Tomando) = Len(listos)
      BY DEF SemaforoExacto, Tomando
    <3>3. QED
      BY <3>1, <3>2
<1>2. QED
  BY <1>1, InitColas, ColasInductivo, SemaforoInductivo, PTL DEF Spec

-----------------------------------------------------------------------------
(* The lines of a script *)

\* What a PCB that nobody runs keeps in pc is not beyond the lines it has run.
\* Without empty lines it is their number, and apuntar_archivo finds so many
\* newlines.
AlDia(i) ==
    tarea[i].tipo = "COMPUESTA" =>
        /\ Corridas(tarea[i], hechas[i], pc[i])
        /\ SinVacias(tarea[i]) =>
              pc[i] = Len(hechas[i]) /\ pc[i] <= Saltos(tarea[i])

Leyendo(p) ==
    /\ Guion(p).tipo = "COMPUESTA"
    /\ pos[p] <= Len(Guion(p).lineas)
    /\ feof[p] => pos[p] = Len(Guion(p).lineas)
    /\ Corridas(Guion(p), hechas[pcb[p]], pos[p])
    /\ ~feof[p] => pc[pcb[p]] <= pos[p]
    /\ SinVacias(Guion(p)) =>
          /\ pos[p] = Len(hechas[pcb[p]])
          /\ ~Terminado(p) => pc[pcb[p]] = pos[p] /\ pos[p] <= Saltos(Guion(p))

Sincronia ==
    /\ \A i \in Ids : i >= id_pcbs => pc[i] = 0 /\ hechas[i] = <<>>
    /\ \A i \in EnCola : AlDia(i)
    /\ \A p \in Procesadores : est[p] = "abre" => AlDia(pcb[p])
    /\ \A p \in Procesadores : est[p] \in {"ciclo", "decide"} => Leyendo(p)

InvLineas == Sincronia /\ LineasEnOrden /\ LineasSinSaltos

\* What has run of a script includes what had run of a shorter part of it.
LEMMA CorridasMenos ==
    ASSUME NEW g, NEW h, NEW n \in Nat, NEW m \in Nat, Len(g.lineas) \in Nat,
           m <= n \/ Len(g.lineas) <= n, Corridas(g, h, n)
    PROVE  Corridas(g, h, m)
  BY DEF Corridas

\* A line that runs is added to those that had run.
LEMMA CorridasAppend ==
    ASSUME NEW g, NEW h \in Seq(Nat), NEW n \in Nat, Len(g.lineas) \in Nat,
           Corridas(g, h, n)
    PROVE  /\ Corridas(g, Append(h, n + 1), n + 1)
           /\ SinSaltos(g, h) => SinSaltos(g, Append(h, n + 1))
<1> DEFINE d == Append(h, n + 1)
<1>1. /\ Len(d) = Len(h) + 1 /\ Len(h) \in Nat
      /\ \A j \in 1 .. Len(h) : d[j] = h[j]
      /\ d[Len(h) + 1] = n + 1
  OBVIOUS
<1> HIDE DEF d
<1>2. ASSUME NEW m, Corridas(g, h, m)
      PROVE  Corridas(g, d, m)
  <2>1. \A l : (\E j \in 1 .. Len(h) : h[j] = l) => (\E j \in 1 .. Len(d) : d[j] = l)
    BY <1>1
  <2>2. QED
    BY <1>2, <2>1 DEF Corridas
<1>3. Corridas(g, d, n + 1)
  <2>1. \A l \in 1 .. Len(g.lineas) : l <= n + 1 => l <= n \/ l = n + 1
    OBVIOUS
  <2>2. \E j \in 1 .. Len(d) : d[j] = n + 1
    BY <1>1
  <2>3. Corridas(g, d, n)
    BY <1>2
  <2>4. QED
    BY <2>1, <2>2, <2>3 DEF Corridas
<1>4. ASSUME SinSaltos(g, h)
      PROVE  SinSaltos(g, d)
  <2>1. ASSUME NEW j \in 1 .. Len(d)
        PROVE  Corridas(g, d, d[j])
    <3>1. CASE j = Len(h) + 1
      BY <1>1, <1>3, <3>1
    <3>2. CASE j # Len(h) + 1
      <4>1. j \in 1 .. Len(h) /\ d[j] = h[j]
        BY <1>1, <2>1, <3>2
      <4>2. Corridas(g, h, h[j])
        BY <1>4, <4>1 DEF SinSaltos
      <4>3. QED
        BY <1>2, <4>1, <4>2
    <3>3. QED
      BY <3>1, <3>2
  <2>2. QED
    BY <2>1 DEF SinSaltos
<1>5. QED
  BY <1>3, <1>4 DEF d

\* An empty line and the one it swallows do not count.
LEMMA CorridasVacia ==
    ASSUME NEW g, NEW h, NEW n \in Nat, Len(g.lineas) \in Nat,
           g.lineas[n + 1] = "vacia", Corridas(g, h, n)
    PROVE  Corridas(g, h, n + 2)
<1>1. ~Entera(g, n + 1)
  BY DEF Entera
<1>2. (n + 2) - 1 = n + 1 /\ n + 2 > 1
  OBVIOUS
<1>3. ~Entera(g, n + 2)
  BY <1>2 DEF Entera
<1>4. ASSUME NEW l \in 1 .. Len(g.lineas), l <= n + 2, Entera(g, l)
      PROVE  l <= n
  <2>1. l # n + 1 /\ l # n + 2
    BY <1>1, <1>3, <1>4
  <2>2. QED
    BY <1>4, <2>1
<1>5. QED
  BY <1>4 DEF Corridas

LEMMA CorriendoExiste ==
    ASSUME InvColas, NEW p \in Procesadores, est[p] \in Corriendo
    PROVE  /\ pcb[p] \in 0 .. id_pcbs - 1
           /\ pcb[p] \in Ids
           /\ pcb[p] \notin EnCola
           /\ Guion(p) \in Tareas
           /\ pc[pcb[p]] \in Nat /\ pos[p] \in Nat
           /\ hechas[pcb[p]] \in Seq(Nat)
           /\ \A q \in Procesadores : est[q] \in Corriendo /\ pcb[q] = pcb[p] => q = p
  BY DEF InvColas, TypeOK, UnSoloLugar, Guion

LEMMA InitLineas == Init => InvLineas
<1> SUFFICES ASSUME Init PROVE InvLineas
  OBVIOUS
<1>1. Sincronia
  BY DEF Init, Sincronia, EnCola
<1>2. LineasEnOrden /\ LineasSinSaltos
  BY DEF Init, LineasEnOrden, LineasSinSaltos
<1>3. QED
  BY <1>1, <1>2 DEF InvLineas

LEMMA CrearLineas ==
    ASSUME InvColas, InvLineas, NEW t \in Tareas, CrearPcb(t)
    PROVE  InvLineas'
<1>1. /\ id_pcbs \in Ids /\ id_pcbs \in Nat
      /\ listos \in Seq(Ids) /\ EnCola = Elementos(listos)
      /\ tarea' = [i \in DOMAIN tarea \cup {id_pcbs} |-> IF i = id_pcbs THEN t ELSE tarea[i]]
      /\ DOMAIN tarea = 0 .. id_pcbs - 1
  BY ColaElementos, CotasAssumption DEF InvColas, TypeOK, CrearPcb, Ids
<1>2. EnCola' = EnCola \cup {id_pcbs}
  <2>1. listos' = Append(listos, id_pcbs)
    BY DEF CrearPcb
  <2>2. Elementos(listos') = Elementos(listos) \cup {id_pcbs}
    BY <1>1, <2>1, AppendElementos
  <2>3. EnCola' = Elementos(listos')
    BY DEF EnCola, Elementos
  <2>4. QED
    BY <1>1, <2>2, <2>3
<1>3. \A i \in 0 .. id_pcbs - 1 : tarea'[i] = tarea[i]
  BY <1>1
<1>4. EnCola \subseteq 0 .. id_pcbs - 1
  BY DEF InvColas, UnSoloLugar
<1>5. \A i \in Ids : i >= id_pcbs' => pc'[i] = 0 /\ hechas'[i] = <<>>
  BY <1>1 DEF InvLineas, Sincronia, CrearPcb, Ids
<1>6. \A i \in EnCola : AlDia(i)'
  BY <1>3, <1>4 DEF InvLineas, Sincronia, AlDia, CrearPcb
<1>7. ASSUME NEW i \in Ids, i = id_pcbs
      PROVE  AlDia(i)'
  <2>1. tarea'[i] = t /\ Saltos(t) \in Nat /\ pc[i] = 0 /\ hechas[i] = <<>>
    BY <1>1, <1>7, TareasTipo DEF InvLineas, Sincronia
  <2>2. Corridas(t, <<>>, 0)
    BY TareasTipo DEF Corridas
  <2>3. pc' = pc /\ hechas' = hechas
    BY DEF CrearPcb
  <2>4. QED
    BY <2>1, <2>2, <2>3 DEF AlDia
<1>8. ASSUME NEW p \in Procesadores
      PROVE  /\ est'[p] = "abre" => AlDia(pcb[p])'
             /\ est'[p] \in {"ciclo", "decide"} => Leyendo(p)'
  <2>1. est' = est /\ UNCHANGED <<pcb, pos, feof, res, pc, hechas>>
    BY DEF CrearPcb, locales
  <2>2. CASE est[p] \in Corriendo
    <3>1. tarea'[pcb[p]] = tarea[pcb[p]]
      BY <1>3, <2>2, CorriendoExiste
    <3>2. QED
      BY <2>1, <3>1
      DEF InvLineas, Sincronia, AlDia, Leyendo, Guion, Terminado
  <2>3. CASE est[p] \notin Corriendo
    BY <2>1, <2>3 DEF Corriendo
  <2>4. QED
    BY <2>2, <2>3
<1>9. Sincronia'
  BY <1>1, <1>2, <1>5, <1>6, <1>7, <1>8 DEF Sincronia
<1>10. ASSUME NEW i \in DOMAIN tarea'
      PROVE  /\ SinVacias(tarea'[i]) => hechas'[i] = [n \in 1 .. Len(hechas'[i]) |-> n]
             /\ SinSaltos(tarea'[i], hechas'[i])
  <2>1. hechas' = hechas
    BY DEF CrearPcb
  <2>2. CASE i \in DOMAIN tarea
    <3>1. tarea'[i] = tarea[i]
      BY <1>1, <1>3, <2>2
    <3>2. QED
      BY <2>1, <2>2, <3>1 DEF InvLineas, LineasEnOrden, LineasSinSaltos
  <2>3. CASE i \notin DOMAIN tarea
    <3>1. i = id_pcbs /\ hechas[i] = <<>>
      BY <1>1, <1>10, <2>3 DEF InvLineas, Sincronia
    <3>2. SinSaltos(tarea'[i], <<>>)
      BY DEF SinSaltos
    <3>3. QED
      BY <2>1, <3>1, <3>2
  <2>4. QED
    BY <2>2, <2>3
<1>11. LineasEnOrden'
  BY <1>10 DEF LineasEnOrden
<1>12. LineasSinSaltos'
  BY <1>10 DEF LineasSinSaltos
<1>13. QED
  BY <1>9, <1>11, <1>12 DEF InvLineas

\* A step that runs no line keeps what is said of those that have run.
LEMMA MismasHechas ==
    ASSUME InvLineas, UNCHANGED <<tarea, hechas>>
    PROVE  LineasEnOrden' /\ LineasSinSaltos'
  BY DEF InvLineas, LineasEnOrden, LineasSinSaltos

\* The steps of a processor that read no line.
LEMMA TomarLineas ==
    ASSUME InvColas, InvLineas, NEW p \in Procesadores, Despertar(p) \/ ObtenerPcb(p)
    PROVE  InvLineas'
<1>1. /\ UNCHANGED <<id_pcbs, tarea, pc, pos, feof, res, hechas>>
      /\ \A q \in Procesadores : q # p => est'[q] = est[q] /\ pcb'[q] = pcb[q]
      /\ est'[p] \in {"toma", "abre"}
  BY DEF Despertar, ObtenerPcb, locales, InvColas, TypeOK
<1>2. /\ EnCola' \subseteq EnCola
      /\ est'[p] = "abre" => pcb'[p] \in EnCola
  <2>1. listos \in Seq(Ids) /\ EnCola = Elementos(listos) /\ EnCola' = Elementos(listos')
    BY ColaElementos DEF InvColas, TypeOK, EnCola, Elementos
  <2>2. CASE Despertar(p)
    BY <2>1, <2>2 DEF Despertar, InvColas, TypeOK
  <2>3. CASE ObtenerPcb(p)
    <3>1. EnCola = EnCola' \cup {Head(listos)}
      BY <2>1, <2>3, TailElementos DEF ObtenerPcb
    <3>2. pcb'[p] = Head(listos)
      BY <2>3 DEF ObtenerPcb, InvColas, TypeOK
    <3>3. QED
      BY <3>1, <3>2
  <2>4. QED
    BY <2>2, <2>3
<1>3. \A i : AlDia(i)' <=> AlDia(i)
  BY <1>1 DEF AlDia
<1>4. ASSUME NEW q \in Procesadores
      PROVE  /\ est'[q] = "abre" => AlDia(pcb'[q])
             /\ est'[q] \in {"ciclo", "decide"} => Leyendo(q)'
  <2>1. CASE q = p
    BY <1>1, <1>2, <2>1 DEF InvLineas, Sincronia
  <2>2. CASE q # p
    <3>1. Leyendo(q)' <=> Leyendo(q)
      BY <1>1, <2>2 DEF Leyendo, Guion, Terminado
    <3>2. QED
      BY <1>1, <2>2, <3>1 DEF InvLineas, Sincronia
  <2>3. QED
    BY <2>1, <2>2
<1>5. \A q \in Procesadores : est'[q] = "abre" => AlDia(pcb[q])'
  BY <1>1, <1>4 DEF AlDia
<1>6. Sincronia'
  BY <1>1, <1>2, <1>3, <1>4, <1>5 DEF InvLineas, Sincronia
<1>7. QED
  BY <1>1, <1>6, MismasHechas DEF InvLineas

\* AbrirArchivo: the file is left at or before the end of the lines that have run.
LEMMA AbrirLineas ==
    ASSUME InvColas, InvLineas, NEW p \in Procesadores, AbrirArchivo(p)
    PROVE  InvLineas'
<1> DEFINE g == Guion(p)
           i == pcb[p]
           n == pc[pcb[p]]
<1>1. /\ UNCHANGED <<id_pcbs, tarea, pc, listos, hechas, pcb>>
      /\ \A q \in Procesadores : q # p =>
            /\ est'[q] = est[q] /\ pos'[q] = pos[q]
            /\ feof'[q] = feof[q] /\ res'[q] = res[q]
      /\ est[p] = "abre" /\ est'[p] = "ciclo"
      /\ g.tipo = "COMPUESTA"
  BY DEF AbrirArchivo, colas, InvColas, TypeOK
<1>2. /\ g \in Tareas /\ n \in Nat
      /\ Saltos(g) \in Nat /\ Len(g.lineas) \in Nat
      /\ Saltos(g) <= Len(g.lineas) /\ Len(g.lineas) <= Saltos(g) + 1
  BY <1>1, CorriendoExiste, TareasTipo DEF Corriendo
<1>3. /\ Corridas(g, hechas[i], n)
      /\ SinVacias(g) => n = Len(hechas[i]) /\ n <= Saltos(g)
  BY <1>1 DEF InvLineas, Sincronia, AlDia, Guion
<1>4. /\ pos'[p] = Hasta(g, n)
      /\ feof'[p] <=> n > Saltos(g)
      /\ res'[p] = 0
  <2>1. /\ pos' = [pos EXCEPT ![p] = Apuntar(g, n)]
        /\ feof' = [feof EXCEPT ![p] = n > Saltos(g)]
        /\ res' = [res EXCEPT ![p] = 0]
    BY Zenon DEF AbrirArchivo
  <2>2. feof'[p] = (n > Saltos(g))
    BY <2>1, Zenon DEF InvColas, TypeOK
  <2>3. pos'[p] = Hasta(g, n) /\ res'[p] = 0
    BY <2>1 DEF Apuntar, InvColas, TypeOK
  <2>4. QED
    BY <2>2, <2>3
<1>5. Leyendo(p)'
  <2>1. /\ pos'[p] \in 0 .. Len(g.lineas)
        /\ feof'[p] => pos'[p] = Len(g.lineas)
        /\ ~feof'[p] => pos'[p] = n
        /\ pos'[p] <= n
    <3>1. /\ Hasta(g, n) \in 0 .. Len(g.lineas)
          /\ n > Saltos(g) => Hasta(g, n) = Len(g.lineas) /\ Hasta(g, n) <= n
          /\ n <= Saltos(g) => Hasta(g, n) = n
      BY <1>2, HastaTipo
    <3>2. n > Saltos(g) \/ n <= Saltos(g)
      BY <1>2
    <3>3. QED
      BY <1>2, <1>4, <3>1, <3>2
  <2>3. Corridas(g, hechas[i], pos'[p])
    BY <1>2, <1>3, <2>1, CorridasMenos
  <2>4. Guion(p)' = g /\ pcb'[p] = i /\ pc'[i] = n /\ hechas'[i] = hechas[i]
    BY <1>1 DEF Guion
  <2>5. SinVacias(g) => pos'[p] = n /\ ~feof'[p]
    BY <1>2, <1>3, <1>4, <2>1
  <2>6. QED
    BY <1>1, <1>2, <1>3, <2>1, <2>3, <2>4, <2>5 DEF Leyendo
<1>6. EnCola' = EnCola
  BY <1>1 DEF EnCola
<1>7. \A j : AlDia(j)' <=> AlDia(j)
  BY <1>1 DEF AlDia
<1>8. ASSUME NEW q \in Procesadores
      PROVE  /\ est'[q] = "abre" => AlDia(pcb[q])'
             /\ est'[q] \in {"ciclo", "decide"} => Leyendo(q)'
  <2>1. CASE q = p
    BY <1>1, <1>5, <2>1
  <2>2. CASE q # p
    <3>1. Leyendo(q)' <=> Leyendo(q)
      BY <1>1, <2>2 DEF Leyendo, Guion, Terminado
    <3>2. AlDia(pcb[q])' <=> AlDia(pcb[q])
      BY <1>1 DEF AlDia
    <3>3. QED
      BY <1>1, <2>2, <3>1, <3>2 DEF InvLineas, Sincronia
  <2>3. QED
    BY <2>1, <2>2
<1>9. Sincronia'
  BY <1>1, <1>6, <1>7, <1>8 DEF InvLineas, Sincronia
<1>10. QED
  BY <1>1, <1>9, MismasHechas DEF InvLineas

\* A turn of the loop only concerns the PCB of its processor.
LEMMA LineaAjena ==
    ASSUME InvColas, InvLineas, NEW p \in Procesadores, EjecutarLinea(p), Leyendo(p)'
    PROVE  Sincronia'
<1>1. /\ UNCHANGED <<id_pcbs, tarea, listos, est, pcb>>
      /\ est[p] = "ciclo"
      /\ \A q \in Procesadores : q # p =>
            pos'[q] = pos[q] /\ feof'[q] = feof[q] /\ res'[q] = res[q]
      /\ \A i \in Ids : i # pcb[p] => pc'[i] = pc[i] /\ hechas'[i] = hechas[i]
  <2>1. /\ UNCHANGED <<id_pcbs, tarea, listos, est, pcb>>
        /\ est[p] = "ciclo"
        /\ pc' = [pc EXCEPT ![pcb[p]] = pc[pcb[p]] + 1]
        /\ pos' = [pos EXCEPT ![p] = Hasta(Guion(p), Renglones(Guion(p), pos[p]))]
        /\ \E r \in {0, -1} : res' = [res EXCEPT ![p] = r]
    BY LineaEfecto, Zenon DEF colas
  <2>2. feof' = [feof EXCEPT ![p] = Renglones(Guion(p), pos[p]) > Saltos(Guion(p))]
    BY LineaEfecto, Zenon
  <2>3. hechas' = IF Limpia(Guion(p), pos[p])
                 THEN [hechas EXCEPT ![pcb[p]] = Append(hechas[pcb[p]], pos[p] + 1)]
                 ELSE hechas
    BY LineaEfecto, Zenon
  <2>4. QED
    BY <2>1, <2>2, <2>3 DEF InvColas, TypeOK
<1>2. /\ pcb[p] \in 0 .. id_pcbs - 1 /\ pcb[p] \in Ids /\ pcb[p] \notin EnCola
      /\ \A q \in Procesadores : q # p /\ est[q] \in Corriendo =>
            pcb[q] # pcb[p] /\ pcb[q] \in Ids
  BY <1>1, CorriendoExiste DEF Corriendo
<1>3. EnCola' = EnCola /\ EnCola \subseteq Ids
  BY <1>1 DEF EnCola, InvColas, TypeOK
<1>4. \A i \in Ids : i >= id_pcbs' => pc'[i] = 0 /\ hechas'[i] = <<>>
  BY <1>1, <1>2 DEF InvLineas, Sincronia, InvColas, TypeOK, Ids
<1>5. \A i \in Ids : i # pcb[p] => (AlDia(i)' <=> AlDia(i))
  BY <1>1 DEF AlDia
<1>6. \A i \in EnCola' : AlDia(i)'
  BY <1>2, <1>3, <1>5 DEF InvLineas, Sincronia
<1>7. ASSUME NEW q \in Procesadores
      PROVE  /\ est'[q] = "abre" => AlDia(pcb[q])'
             /\ est'[q] \in {"ciclo", "decide"} => Leyendo(q)'
  <2>1. CASE q = p
    BY <1>1, <2>1
  <2>2. CASE q # p /\ est[q] \in Corriendo
    <3>1. AlDia(pcb[q])' <=> AlDia(pcb[q])
      BY <1>1, <1>2, <2>2 DEF AlDia
    <3>2. Leyendo(q)' <=> Leyendo(q)
      BY <1>1, <1>2, <2>2 DEF Leyendo, Guion, Terminado
    <3>3. QED
      BY <1>1, <3>1, <3>2 DEF InvLineas, Sincronia
  <2>3. CASE q # p /\ est[q] \notin Corriendo
    BY <1>1, <2>3 DEF Corriendo
  <2>4. QED
    BY <2>1, <2>2, <2>3
<1>8. QED
  BY <1>4, <1>6, <1>7 DEF Sincronia

\* What a turn of the loop leaves run of the script: up to the newline where it
\* stops, whether the line was run or swallowed.
LEMMA LeerCorridas ==
    ASSUME InvColas, InvLineas, NEW p \in Procesadores, EjecutarLinea(p)
    PROVE  /\ Corridas(Guion(p), hechas'[pcb[p]], Renglones(Guion(p), pos[p]))
           /\ SinSaltos(Guion(p), hechas'[pcb[p]])
<1> DEFINE g == Guion(p)
           i == pcb[p]
           n == pos[p]
<1>1. /\ est[p] = "ciclo" /\ tarea' = tarea
      /\ hechas' = IF Limpia(g, n)
                   THEN [hechas EXCEPT ![i] = Append(hechas[i], n + 1)]
                   ELSE hechas
  BY LineaEfecto, Zenon
<1>2. /\ i \in Ids /\ g \in Tareas /\ hechas[i] \in Seq(Nat) /\ n \in Nat
      /\ Len(g.lineas) \in Nat /\ g = tarea[i] /\ i \in DOMAIN tarea
  BY <1>1, CorriendoExiste, TareasTipo DEF Corriendo, Guion, InvColas, TypeOK
<1>3. Corridas(g, hechas[i], n) /\ SinSaltos(g, hechas[i])
  BY <1>1, <1>2 DEF InvLineas, Sincronia, Leyendo, LineasSinSaltos
<1>4. CASE Limpia(g, n)
  <2>1. hechas'[i] = Append(hechas[i], n + 1)
    BY <1>1, <1>2, <1>4 DEF InvColas, TypeOK
  <2>2. Renglones(g, n) = n + 1
    BY <1>4 DEF Limpia, Renglones
  <2>3. QED
    BY <1>2, <1>3, <2>1, <2>2, CorridasAppend
<1>5. CASE ~Limpia(g, n)
  <2>1. hechas'[i] = hechas[i]
    BY <1>1, <1>5
  <2>2. CASE n >= Len(g.lineas)
    <3>1. Renglones(g, n) \in Nat
      BY <1>2, RenglonesTipo
    <3>2. QED
      BY <1>2, <1>3, <2>1, <2>2, <3>1, CorridasMenos
  <2>3. CASE n < Len(g.lineas)
    <3>1. g.lineas[n + 1] = "vacia" /\ Renglones(g, n) = n + 2
      BY <1>5, <2>3 DEF Limpia, Renglones
    <3>2. QED
      BY <1>2, <1>3, <2>1, <3>1, CorridasVacia
  <2>4. QED
    BY <1>2, <2>2, <2>3
<1>6. QED
  BY <1>4, <1>5

\* In a script without empty lines each turn runs the next line, until it finds
\* the end of the file.
LEMMA LeerSinVacias ==
    ASSUME InvColas, InvLineas, NEW p \in Procesadores, EjecutarLinea(p),
           SinVacias(Guion(p))
    PROVE  /\ pos'[p] = Len(hechas'[pcb[p]])
           /\ ~feof'[p] => pc'[pcb[p]] = pos'[p] /\ pos'[p] <= Saltos(Guion(p))
           /\ hechas'[pcb[p]] = [n \in 1 .. Len(hechas'[pcb[p]]) |-> n]
<1> DEFINE g == Guion(p)
           i == pcb[p]
           n == pos[p]
           r == Renglones(Guion(p), pos[p])
<1>1. /\ est[p] = "ciclo" /\ ~Terminado(p)
      /\ pc' = [pc EXCEPT ![i] = pc[i] + 1]
      /\ pos' = [pos EXCEPT ![p] = Hasta(g, r)]
      /\ feof' = [feof EXCEPT ![p] = r > Saltos(g)]
      /\ hechas' = IF Limpia(g, n)
                   THEN [hechas EXCEPT ![i] = Append(hechas[i], n + 1)]
                   ELSE hechas
  BY LineaEfecto, Zenon DEF OtraVuelta, Terminado
<1>2. /\ i \in Ids /\ g \in Tareas /\ hechas[i] \in Seq(Nat) /\ n \in Nat
      /\ i \in DOMAIN tarea /\ g = tarea[i]
  BY <1>1, CorriendoExiste DEF Corriendo, Guion, InvColas, TypeOK
<1>3. /\ Saltos(g) \in Nat /\ Len(g.lineas) \in Nat
      /\ Saltos(g) <= Len(g.lineas) /\ Len(g.lineas) <= Saltos(g) + 1
  BY <1>2, TareasTipo
<1>4. n = Len(hechas[i]) /\ pc[i] = n /\ n <= Saltos(g)
  BY <1>1 DEF InvLineas, Sincronia, Leyendo
<1>5. hechas[i] = [m \in 1 .. n |-> m]
  BY <1>2, <1>4 DEF InvLineas, LineasEnOrden
<1>6. /\ pc'[i] = n + 1 /\ pos'[p] = Hasta(g, r)
      /\ feof'[p] <=> r > Saltos(g)
  <2>1. feof'[p] = (r > Saltos(g))
    BY <1>1, Zenon DEF InvColas, TypeOK
  <2>2. pc'[i] = n + 1 /\ pos'[p] = Hasta(g, r)
    BY <1>1, <1>2, <1>4 DEF InvColas, TypeOK
  <2>3. QED
    BY <2>1, <2>2
<1>7. CASE n < Len(g.lineas)
  <2>1. Limpia(g, n) /\ r = n + 1
    BY <1>2, <1>3, <1>7 DEF SinVacias, Limpia, Renglones
  <2>2. hechas'[i] = Append(hechas[i], n + 1)
    BY <1>1, <1>2, <2>1 DEF InvColas, TypeOK
  <2>3. Len(hechas'[i]) = n + 1 /\ hechas'[i] = [m \in 1 .. n + 1 |-> m]
    BY <1>2, <1>4, <1>5, <2>2
  <2>4. Hasta(g, n + 1) = n + 1
    <3>1. n + 1 > Saltos(g) => n + 1 = Len(g.lineas)
      BY <1>2, <1>3, <1>7
    <3>2. QED
      BY <1>2, <1>3, <3>1 DEF Hasta
  <2>5. ~feof'[p] => n + 1 <= Saltos(g)
    BY <1>2, <1>3, <1>6, <2>1
  <2>6. QED
    BY <1>6, <2>1, <2>3, <2>4, <2>5
<1>8. CASE n >= Len(g.lineas)
  <2>1. n = Len(g.lineas) /\ r = n + 1 /\ ~Limpia(g, n)
    BY <1>2, <1>3, <1>4, <1>8 DEF Limpia, Renglones
  <2>2. r > Saltos(g) /\ Hasta(g, r) = n
    BY <1>2, <1>3, <1>4, <2>1 DEF Hasta
  <2>3. hechas' = hechas
    BY <1>1, <2>1
  <2>4. QED
    BY <1>4, <1>5, <1>6, <2>2, <2>3
<1>9. QED
  BY <1>2, <1>3, <1>7, <1>8

LEMMA EjecutarLineas ==
    ASSUME InvColas, InvLineas, NEW p \in Procesadores, EjecutarLinea(p)
    PROVE  InvLineas'
<1> DEFINE g == Guion(p)
           i == pcb[p]
           n == pos[p]
           r == Renglones(Guion(p), pos[p])
<1>1. /\ est[p] = "ciclo" /\ ~Terminado(p)
      /\ pc' = [pc EXCEPT ![i] = pc[i] + 1]
      /\ pos' = [pos EXCEPT ![p] = Hasta(g, r)]
      /\ feof' = [feof EXCEPT ![p] = r > Saltos(g)]
      /\ hechas' = IF Limpia(g, n)
                   THEN [hechas EXCEPT ![i] = Append(hechas[i], n + 1)]
                   ELSE hechas
      /\ UNCHANGED <<tarea, pcb>>
  BY LineaEfecto, Zenon DEF OtraVuelta, Terminado
<1>2. /\ i \in Ids /\ g \in Tareas /\ hechas[i] \in Seq(Nat) /\ n \in Nat
      /\ pc[i] \in Nat /\ g = tarea[i]
  BY <1>1, CorriendoExiste DEF Corriendo, Guion
<1>3. /\ Saltos(g) \in Nat /\ Len(g.lineas) \in Nat
      /\ Saltos(g) <= Len(g.lineas) /\ Len(g.lineas) <= Saltos(g) + 1
      /\ r \in {n + 1, n + 2} /\ r \in Nat
  BY <1>2, TareasTipo, RenglonesTipo
<1>4. g.tipo = "COMPUESTA" /\ pc[i] <= n
  BY <1>1 DEF InvLineas, Sincronia, Leyendo, Terminado
<1>5. /\ pc'[i] = pc[i] + 1 /\ pos'[p] = Hasta(g, r)
      /\ feof'[p] <=> r > Saltos(g)
  <2>1. feof'[p] = (r > Saltos(g))
    BY <1>1, Zenon DEF InvColas, TypeOK
  <2>2. pc'[i] = pc[i] + 1 /\ pos'[p] = Hasta(g, r)
    BY <1>1, <1>2 DEF InvColas, TypeOK
  <2>3. QED
    BY <2>1, <2>2
<1>6. /\ pos'[p] \in 0 .. Len(g.lineas) /\ pos'[p] <= r
      /\ feof'[p] => pos'[p] = Len(g.lineas)
      /\ ~feof'[p] => pos'[p] = r
  <2>1. /\ Hasta(g, r) \in 0 .. Len(g.lineas)
        /\ r > Saltos(g) => Hasta(g, r) = Len(g.lineas) /\ Hasta(g, r) <= r
        /\ r <= Saltos(g) => Hasta(g, r) = r
    BY <1>2, <1>3, HastaTipo
  <2>2. r > Saltos(g) \/ r <= Saltos(g)
    BY <1>3
  <2>3. QED
    BY <1>3, <1>5, <2>1, <2>2
<1>7. Guion(p)' = g /\ pcb'[p] = i
  BY <1>1 DEF Guion
<1>8. Leyendo(p)'
  <2>1. Corridas(g, hechas'[i], pos'[p])
    BY <1>3, <1>6, LeerCorridas, CorridasMenos
  <2>2. ~feof'[p] => pc'[i] <= pos'[p]
    BY <1>2, <1>3, <1>4, <1>5, <1>6
  <2>3. SinVacias(g) =>
           /\ pos'[p] = Len(hechas'[i])
           /\ ~feof'[p] => pc'[i] = pos'[p] /\ pos'[p] <= Saltos(g)
    BY LeerSinVacias
  <2>5. pos'[p] <= Len(g.lineas)
    BY <1>3, <1>6
  <2>6. QED
    BY <1>4, <1>6, <1>7, <2>1, <2>2, <2>3, <2>5 DEF Leyendo, Terminado
<1>9. ASSUME NEW j \in DOMAIN tarea
      PROVE  /\ SinVacias(tarea[j]) => hechas'[j] = [m \in 1 .. Len(hechas'[j]) |-> m]
             /\ SinSaltos(tarea[j], hechas'[j])
  <2>1. CASE j = i
    BY <1>2, <2>1, LeerCorridas, LeerSinVacias
  <2>2. CASE j # i
    <3>1. j \in Ids
      BY <1>9, CotasAssumption DEF InvColas, TypeOK, Ids
    <3>2. hechas'[j] = hechas[j]
      BY <1>1, <2>2, <3>1 DEF InvColas, TypeOK
    <3>3. QED
      BY <3>2 DEF InvLineas, LineasEnOrden, LineasSinSaltos
  <2>3. QED
    BY <2>1, <2>2
<1>10. LineasEnOrden'
  BY <1>1, <1>9 DEF LineasEnOrden
<1>11. LineasSinSaltos'
  BY <1>1, <1>9 DEF LineasSinSaltos
<1>12. QED
  BY <1>8, <1>10, <1>11, LineaAjena DEF InvLineas

LEMMA PasarLineas ==
    ASSUME InvColas, InvLineas, NEW p \in Procesadores,
           \/ EjecutarSimple(p)
           \/ SinArchivo(p)
           \/ SalirDelCiclo(p)
           \/ Acabar(p)
           \/ Morir(p)
    PROVE  InvLineas'
<1>1. /\ UNCHANGED <<id_pcbs, tarea, pc, listos, pcb, pos, feof, res, hechas>>
      /\ \A q \in Procesadores : q # p => est'[q] = est[q]
      /\ est'[p] \in {"ciclo", "decide", "finaliza"}
      /\ est'[p] \in {"ciclo", "decide"} => est[p] = "ciclo"
  BY DEF EjecutarSimple, SinArchivo, SalirDelCiclo, Acabar, Morir, colas, locales,
         InvColas, TypeOK
<1>2. EnCola' = EnCola
  BY <1>1 DEF EnCola
<1>3. \A q \in Procesadores : Leyendo(q)' <=> Leyendo(q)
  BY <1>1 DEF Leyendo, Guion, Terminado
<1>4. \A i : AlDia(i)' <=> AlDia(i)
  BY <1>1 DEF AlDia
<1>5. \A q \in Procesadores : AlDia(pcb[q])' <=> AlDia(pcb[q])
  BY <1>1 DEF AlDia
<1>6. \A q \in Procesadores :
         /\ est'[q] = "abre" => est[q] = "abre"
         /\ est'[q] \in {"ciclo", "decide"} => est[q] \in {"ciclo", "decide"}
  BY <1>1
<1>7. Sincronia'
  BY <1>1, <1>2, <1>3, <1>4, <1>5, <1>6 DEF InvLineas, Sincronia
<1>8. QED
  BY <1>1, <1>7, MismasHechas DEF InvLineas

LEMMA SoltarLineas ==
    ASSUME InvColas, InvLineas, NEW p \in Procesadores,
           FinalizarPcb(p) \/ PararPorQuantum(p) \/ Abandonar(p)
    PROVE  InvLineas'
<1>1. /\ UNCHANGED <<id_pcbs, tarea, pc, hechas>>
      /\ est'[p] = "espera"
      /\ \A q \in Procesadores : q # p =>
            /\ est'[q] = est[q] /\ pcb'[q] = pcb[q] /\ pos'[q] = pos[q]
            /\ feof'[q] = feof[q] /\ res'[q] = res[q]
  BY DEF FinalizarPcb, PararPorQuantum, Abandonar, Soltar, InvColas, TypeOK
<1>2. \A i : AlDia(i)' <=> AlDia(i)
  BY <1>1 DEF AlDia
<1>3. \A i \in EnCola' : AlDia(i)
  <2>1. CASE FinalizarPcb(p) \/ Abandonar(p)
    BY <2>1 DEF FinalizarPcb, Abandonar, colas, EnCola, InvLineas, Sincronia
  <2>2. CASE PararPorQuantum(p)
    <3>1. est[p] = "decide" /\ ~Terminado(p) /\ listos' = Append(listos, pcb[p])
      BY <2>2 DEF PararPorQuantum
    <3>2. /\ pcb[p] \in Ids /\ listos \in Seq(Ids)
          /\ Guion(p) \in Tareas /\ pc[pcb[p]] \in Nat /\ pos[p] \in Nat
          /\ Len(Guion(p).lineas) \in Nat
      BY <3>1, CorriendoExiste, TareasTipo DEF Corriendo, InvColas, TypeOK
    <3>3. AlDia(pcb[p])
      <4>1. Leyendo(p)
        BY <3>1 DEF InvLineas, Sincronia
      <4>2. ~feof[p]
        BY <3>1 DEF Terminado
      <4>3. Corridas(Guion(p), hechas[pcb[p]], pc[pcb[p]])
        BY <3>2, <4>1, <4>2, CorridasMenos DEF Leyendo
      <4>4. QED
        BY <3>1, <4>1, <4>3 DEF AlDia, Leyendo, Guion
    <3>4. EnCola' = EnCola \cup {pcb[p]}
      BY <3>1, <3>2, AppendElementos DEF EnCola, Elementos
    <3>5. QED
      BY <3>3, <3>4 DEF InvLineas, Sincronia
  <2>3. QED
    BY <2>1, <2>2
<1>4. ASSUME NEW q \in Procesadores
      PROVE  /\ est'[q] = "abre" => AlDia(pcb[q])'
             /\ est'[q] \in {"ciclo", "decide"} => Leyendo(q)'
  <2>1. CASE q = p
    BY <1>1, <2>1
  <2>2. CASE q # p
    <3>1. Leyendo(q)' <=> Leyendo(q)
      BY <1>1, <2>2 DEF Leyendo, Guion, Terminado
    <3>2. AlDia(pcb[q])' <=> AlDia(pcb[q])
      BY <1>1, <2>2 DEF AlDia
    <3>3. QED
      BY <1>1, <2>2, <3>1, <3>2 DEF InvLineas, Sincronia
  <2>3. QED
    BY <2>1, <2>2
<1>5. Sincronia'
  BY <1>1, <1>2, <1>3, <1>4 DEF InvLineas, Sincronia
<1>6. QED
  BY <1>1, <1>5, MismasHechas DEF InvLineas

LEMMA LineasInductivo == InvColas /\ InvLineas /\ [Next]_vars => InvLineas'
<1> SUFFICES ASSUME InvColas, InvLineas, [Next]_vars
             PROVE  InvLineas'
  OBVIOUS
<1>1. CASE \E t \in Tareas : CrearPcb(t)
  BY <1>1, CrearLineas
<1>2. CASE \E p \in Procesadores : Avanzar(p)
  BY <1>2, TomarLineas, AbrirLineas, EjecutarLineas, PasarLineas, SoltarLineas
  DEF Avanzar
<1>3. CASE RecargarConfig \/ UNCHANGED vars
  <2>1. UNCHANGED <<id_pcbs, tarea, pc, listos, est, pcb, pos, feof, res, hechas>>
    BY <1>3 DEF RecargarConfig, vars, colas, locales
  <2>2. EnCola' = EnCola
    BY <2>1 DEF EnCola
  <2>3. \A q \in Procesadores : Leyendo(q)' <=> Leyendo(q)
    BY <2>1 DEF Leyendo, Guion, Terminado
  <2>4. /\ \A i : AlDia(i)' <=> AlDia(i)
        /\ \A q \in Procesadores : AlDia(pcb[q])' <=> AlDia(pcb[q])
    BY <2>1 DEF AlDia
  <2>5. Sincronia'
    BY <2>1, <2>2, <2>3, <2>4 DEF InvLineas, Sincronia
  <2>6. QED
    BY <2>1, <2>5, MismasHechas DEF InvLineas
<1>4. QED
  BY <1>1, <1>2, <1>3 DEF Next

\* The lines of a script without empty lines run in order and each once, however
\* its slices are cut and whichever processors run them.
THEOREM LineasUnaVezEnOrden == Spec => []LineasEnOrden
<1>1. InvLineas => LineasEnOrden
  BY DEF InvLineas
<1>2. QED
  BY <1>1, InitColas, ColasInductivo, InitLineas, LineasInductivo, PTL DEF Spec

\* In any script, with empty lines or without, no line is left behind before one
\* that has run, but for those an empty line swallows: pc never goes beyond the
\* newlines that were passed.
THEOREM NingunaLineaSalteada == Spec => []LineasSinSaltos
<1>1. InvLineas => LineasSinSaltos
  BY DEF InvLineas
<1>2. QED
  BY <1>1, InitColas, ColasInductivo, InitLineas, LineasInductivo, PTL DEF Spec

\* A PCB that is finished because its file ended has run all of its lines, but for
\* those an empty line swallows.
THEOREM FinDeArchivoCompleto == Spec => FinCompleto
<1>1. ASSUME InvColas, InvLineas, NEW p \in Procesadores, Acabar(p), feof[p]
      PROVE  Corridas(Guion(p), hechas[pcb[p]], Len(Guion(p).lineas))
  BY <1>1 DEF Acabar, InvLineas, Sincronia, Leyendo
<1>2. InvColas /\ InvLineas /\ [Next]_vars =>
         [\A p \in Procesadores :
             Acabar(p) /\ feof[p] => Corridas(Guion(p), hechas[pcb[p]], Len(Guion(p).lineas))]_vars
  BY <1>1
<1>3. QED
  BY <1>2, InitColas, ColasInductivo, InitLineas, LineasInductivo, PTL
  DEF Spec, FinCompleto

-----------------------------------------------------------------------------
(* Forgotten PCBs *)

\* With a quantum that does not change, a slice that ends for no other reason ends
\* exactly at the quantum.
EnSuRodaja(p) ==
    /\ est[p] \in {"ciclo", "decide"} => k[p] <= quantum
    /\ est[p] = "decide" => ~OtraVuelta(p)

\* The count of reloads never goes back to 0.
LEMMA RecargasCrecen ==
    ASSUME InvColas, [Next]_vars, recargas' = 0
    PROVE  recargas = 0 /\ quantum' = quantum /\ ~RecargarConfig
<1>1. recargas \in Nat
  BY DEF InvColas, TypeOK
<1>2. ~RecargarConfig
  BY <1>1 DEF RecargarConfig
<1>3. QED
  BY <1>2 DEF Next, Avanzar, CrearPcb, Despertar, ObtenerPcb, EjecutarSimple,
              SinArchivo, AbrirArchivo, EjecutarLinea, Morir, SalirDelCiclo,
              Acabar, FinalizarPcb, PararPorQuantum, Abandonar, vars

EnRodaja == \A p \in Procesadores : EnSuRodaja(p)

LEMMA RodajaInductivo ==
    ASSUME InvColas, EnRodaja, [Next]_vars, recargas' = 0
    PROVE  EnRodaja'
<1>1. quantum' = quantum /\ ~RecargarConfig
  BY RecargasCrecen
<1>2. ASSUME NEW p \in Procesadores,
             UNCHANGED <<est[p], k[p], feof[p], res[p]>>
      PROVE  EnSuRodaja(p)'
  BY <1>1, <1>2 DEF EnRodaja, EnSuRodaja, OtraVuelta
<1>3. ASSUME NEW p \in Procesadores, est'[p] \notin {"ciclo", "decide"}
      PROVE  EnSuRodaja(p)'
  BY <1>3 DEF EnSuRodaja
<1>4. ASSUME NEW p \in Procesadores, Avanzar(p)
      PROVE  EnSuRodaja(p)'
  <2>1. CASE AbrirArchivo(p)
    <3>1. k'[p] = 0 /\ quantum \in Nat /\ est'[p] = "ciclo"
      BY <2>1, QuantaAssumption DEF AbrirArchivo, InvColas, TypeOK
    <3>2. QED
      BY <1>1, <3>1 DEF EnSuRodaja
  <2>2. CASE EjecutarLinea(p)
    <3>1. /\ k[p] < quantum /\ k'[p] = k[p] + 1 /\ est'[p] = "ciclo"
          /\ k[p] \in Nat /\ quantum \in Nat
      BY <2>2, QuantaAssumption DEF EjecutarLinea, OtraVuelta, InvColas, TypeOK
    <3>2. QED
      BY <1>1, <3>1 DEF EnSuRodaja
  <2>3. CASE SalirDelCiclo(p)
    BY <1>1, <2>3
    DEF SalirDelCiclo, locales, colas, EnSuRodaja, EnRodaja, OtraVuelta, InvColas, TypeOK
  <2>4. CASE \/ Despertar(p) \/ ObtenerPcb(p) \/ EjecutarSimple(p) \/ SinArchivo(p)
             \/ Acabar(p) \/ FinalizarPcb(p) \/ PararPorQuantum(p) \/ Abandonar(p)
    BY <1>3, <2>4
    DEF Despertar, ObtenerPcb, EjecutarSimple, SinArchivo, Acabar, FinalizarPcb,
        PararPorQuantum, Abandonar, Soltar, InvColas, TypeOK
  <2>5. CASE Morir(p)
    BY <1>2, <2>5 DEF Morir, locales
  <2>6. QED
    BY <1>4, <2>1, <2>2, <2>3, <2>4, <2>5 DEF Avanzar
<1>5. ASSUME NEW p \in Procesadores, Avanzar(p), NEW q \in Procesadores, q # p
      PROVE  UNCHANGED <<est[q], k[q], feof[q], res[q]>>
  <2>1. \/ UNCHANGED est
        \/ \E e : est' = [est EXCEPT ![p] = e]
    BY <1>5, Zenon
    DEF Avanzar, Despertar, ObtenerPcb, EjecutarSimple, SinArchivo, AbrirArchivo,
        EjecutarLinea, Morir, SalirDelCiclo, Acabar, FinalizarPcb, PararPorQuantum,
        Abandonar, Soltar
  <2>2. UNCHANGED k \/ \E e : k' = [k EXCEPT ![p] = e]
    BY <1>5, Zenon
    DEF Avanzar, Despertar, ObtenerPcb, EjecutarSimple, SinArchivo, AbrirArchivo,
        EjecutarLinea, Morir, SalirDelCiclo, Acabar, FinalizarPcb, PararPorQuantum,
        Abandonar, Soltar, locales
  <2>3. UNCHANGED feof \/ \E e : feof' = [feof EXCEPT ![p] = e]
    BY <1>5, Zenon
    DEF Avanzar, Despertar, ObtenerPcb, EjecutarSimple, SinArchivo, AbrirArchivo,
        EjecutarLinea, Morir, SalirDelCiclo, Acabar, FinalizarPcb, PararPorQuantum,
        Abandonar, Soltar, locales
  <2>4. UNCHANGED res \/ \E e : res' = [res EXCEPT ![p] = e]
    BY <1>5, Zenon
    DEF Avanzar, Despertar, ObtenerPcb, EjecutarSimple, SinArchivo, AbrirArchivo,
        EjecutarLinea, Morir, SalirDelCiclo, Acabar, FinalizarPcb, PararPorQuantum,
        Abandonar, Soltar, locales
  <2>5. QED
    BY <1>5, <2>1, <2>2, <2>3, <2>4 DEF InvColas, TypeOK
<1>6. ASSUME NEW p \in Procesadores
      PROVE  EnSuRodaja(p)'
  <2>1. CASE \E q \in Procesadores : Avanzar(q)
    BY <1>2, <1>4, <1>5, <2>1
  <2>2. CASE (\E t \in Tareas : CrearPcb(t)) \/ UNCHANGED vars
    BY <1>2, <2>2 DEF CrearPcb, vars, locales
  <2>3. QED
    BY <1>1, <2>1, <2>2 DEF Next
<1>7. QED
  BY <1>1, <1>6 DEF EnRodaja

Activos == {p \in Procesadores : est[p] \in Corriendo}

\* Every action but Abandonar keeps ejecutando and the PCBs of the processors
\* together.
LEMMA HuerfanosInductivo ==
    ASSUME InvColas, EnRodaja, NingunHuerfano, [Next]_vars
    PROVE  NingunHuerfano'
<1>1. ejecutando = {pcb[p] : p \in Activos}
  BY DEF NingunHuerfano, Activos
<1>2. ASSUME ejecutando' = {pcb'[p] : p \in Activos'}
      PROVE  NingunHuerfano'
  BY <1>2 DEF NingunHuerfano, Activos
<1>3. ASSUME UNCHANGED <<ejecutando, pcb>>, Activos' = Activos
      PROVE  NingunHuerfano'
  BY <1>1, <1>2, <1>3
<1>4. ASSUME NEW p \in Procesadores, ObtenerPcb(p)
      PROVE  NingunHuerfano'
  <2>1. /\ Activos' = Activos \cup {p} /\ p \notin Activos
        /\ \A q \in Activos : pcb'[q] = pcb[q]
        /\ ejecutando' = ejecutando \cup {pcb'[p]}
    BY <1>4 DEF ObtenerPcb, InvColas, TypeOK, Activos, Corriendo
  <2>2. QED
    BY <1>1, <1>2, <2>1
<1>5. ASSUME NEW p \in Procesadores, FinalizarPcb(p) \/ PararPorQuantum(p)
      PROVE  NingunHuerfano'
  <2>1. /\ Activos' = Activos \ {p} /\ p \in Activos
        /\ \A q \in Activos' : pcb'[q] = pcb[q]
        /\ ejecutando' = ejecutando \ {pcb[p]}
    BY <1>5 DEF FinalizarPcb, PararPorQuantum, Soltar, InvColas, TypeOK, Activos, Corriendo
  <2>2. \A q \in Activos' : pcb[q] # pcb[p]
    BY <2>1 DEF InvColas, UnSoloLugar, Activos
  <2>3. QED
    BY <1>1, <1>2, <2>1, <2>2
<1>6. ASSUME NEW p \in Procesadores, Abandonar(p)
      PROVE  FALSE
  <2>1. k[p] <= quantum /\ ~OtraVuelta(p) /\ k[p] \in Nat /\ quantum \in Nat
    BY <1>6, QuantaAssumption DEF Abandonar, EnRodaja, EnSuRodaja, InvColas, TypeOK
  <2>2. QED
    BY <1>6, <2>1 DEF Abandonar, OtraVuelta, Terminado
<1>7. ASSUME NEW p \in Procesadores,
             \/ Despertar(p) \/ EjecutarSimple(p) \/ SinArchivo(p)
             \/ AbrirArchivo(p) \/ SalirDelCiclo(p) \/ Acabar(p)
      PROVE  NingunHuerfano'
  <2>1. UNCHANGED <<ejecutando, pcb>>
    BY <1>7
    DEF Despertar, EjecutarSimple, SinArchivo, AbrirArchivo, SalirDelCiclo, Acabar,
        colas, locales
  <2>2. Activos' = Activos
    BY <1>7
    DEF Despertar, EjecutarSimple, SinArchivo, AbrirArchivo, SalirDelCiclo, Acabar,
        Activos, Corriendo, InvColas, TypeOK
  <2>3. QED
    BY <1>3, <2>1, <2>2
<1>8. CASE \/ \E p \in Procesadores : EjecutarLinea(p) \/ Morir(p)
           \/ \E t \in Tareas : CrearPcb(t)
           \/ RecargarConfig
           \/ UNCHANGED vars
  <2>1. UNCHANGED <<ejecutando, pcb, est>>
    BY <1>8, LineaEfecto DEF Morir, CrearPcb, RecargarConfig, vars, colas, locales
  <2>2. QED
    BY <1>3, <2>1 DEF Activos
<1>9. QED
  BY <1>4, <1>5, <1>6, <1>7, <1>8 DEF Next, Avanzar

\* Until somebody changes the configuration no PCB is forgotten in
\* l_pcb_ejecutando: k can only leave the loop at the quantum it is then compared
\* with.
THEOREM NadieQuedaHuerfano == Spec => []SinHuerfanos
<1> DEFINE Inv == InvColas /\ (recargas = 0 => EnRodaja /\ NingunHuerfano)
<1>1. Init => Inv
  <2>1. Init => InvColas
    BY InitColas
  <2>2. Init => EnRodaja /\ NingunHuerfano
    BY DEF Init, EnRodaja, EnSuRodaja, NingunHuerfano, Corriendo
  <2>3. QED
    BY <2>1, <2>2
<1>2. ASSUME Inv, [Next]_vars
      PROVE  Inv'
  <2>1. InvColas'
    BY <1>2, ColasInductivo
  <2>2. ASSUME recargas' = 0
        PROVE  EnRodaja' /\ NingunHuerfano'
    <3>1. recargas = 0
      BY <1>2, <2>2, RecargasCrecen
    <3>2. QED
      BY <1>2, <2>2, <3>1, RodajaInductivo, HuerfanosInductivo
  <2>3. QED
    BY <2>1, <2>2
<1>3. Inv => SinHuerfanos
  BY DEF SinHuerfanos
<1> HIDE DEF Inv
<1>4. QED
  BY <1>1, <1>2, <1>3, PTL DEF Spec

=============================================================================
