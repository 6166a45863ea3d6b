----------------------------- MODULE BloquesProofs -----------------------------
(***************************************************************************)
(* Proofs about the blocks of LFS, for any number of blocks, of bits that  *)
(* are stored together, of files, of CREATEs at once and of stops.         *)
(*                                                                         *)
(* The blocks have owners: the files that nobody removes, and the threads, *)
(* which own those they have taken or have yet to clean.  Outside of       *)
(* `dudosos' the owners share nothing, list nothing twice, and together    *)
(* own exactly the blocks whose bits are set, those of `fugados' apart.    *)
(*                                                                         *)
(* That is why what was saved stays: a row is written in a block of its    *)
(* own file, after what the file holds, and changes no byte of another.    *)
(***************************************************************************)
EXTENDS Bloques, ListasProofs, FiniteSetTheorems

\* Files that nobody removes.
Enteros == {n \in DOMAIN archivos : ~Borrado(n)}

\* The blocks of a thread.
Suyos(h) == ToSet(tomados[h])

\* What a thread does agrees with where it is.
DondeDe(h) ==
    /\ est[h] = "libre" => tarea[h] = Libre /\ tomados[h] = <<>>
    /\ est[h] \in {"busca", "carga", "toma"} => tarea[h].de \in {"crear", "guardar"}
    /\ est[h] \in {"carga", "toma"} => actual[h] \in Numeros
    /\ est[h] = "toma" => leido[h] \subseteq Byte(actual[h])
    /\ est[h] \in {"limpia", "suelta"} => tarea[h].de \in {"crear", "borrar"}
    /\ est[h] = "suelta" => tomados[h] # <<>> /\ leido[h] \subseteq Byte(Head(tomados[h]))
    /\ est[h] = "escribe" => tarea[h].de = "guardar"
    /\ est[h] = "crea" => tarea[h].de = "crear"
Donde == \A h \in Hilos : DondeDe(h)

\* A thread has as many blocks as files to make, when it makes them.
CuentasDe(h) ==
    tarea[h].de = "crear" =>
       /\ est[h] \in {"busca", "carga", "toma"} =>
             Len(tomados[h]) < Cardinality(tarea[h].nombres)
       /\ est[h] = "crea" => Len(tomados[h]) = Cardinality(tarea[h].nombres)
Cuentas == \A h \in Hilos : CuentasDe(h)

\* The files to be made are not there, and nobody else makes them.
Nuevos ==
    \A h \in Hilos : tarea[h].de = "crear" =>
       /\ tarea[h].nombres \cap DOMAIN archivos = {}
       /\ \A g \in Hilos : g # h /\ tarea[g].de = "crear" =>
             tarea[g].nombres \cap tarea[h].nombres = {}

\* What is to be cleaned is of the file that is removed.
DelBorrado ==
    \A h \in Hilos : tarea[h].de = "borrar" => Suyos(h) \subseteq DeArchivo(tarea[h].archivo)

\* The bits of the blocks with an owner are set.
Marcados ==
    /\ \A n \in Enteros : DeArchivo(n) \subseteq bitmap \cup dudosos
    /\ \A h \in Hilos : Suyos(h) \subseteq bitmap \cup dudosos

\* Each block has one owner.
UnDueno ==
    /\ \A m, n \in Enteros : m # n => DeArchivo(m) \cap DeArchivo(n) \subseteq dudosos
    /\ \A g, h \in Hilos : g # h => Suyos(g) \cap Suyos(h) \subseteq dudosos
    /\ \A n \in Enteros, h \in Hilos : DeArchivo(n) \cap Suyos(h) \subseteq dudosos

\* No block is twice in a list.
SinRepetir(s, D) == \A i, j \in 1 .. Len(s) : s[i] = s[j] /\ i # j => s[i] \in D
UnaVez ==
    /\ \A n \in DOMAIN archivos : SinRepetir(archivos[n].bloques, dudosos)
    /\ \A h \in Hilos : SinRepetir(tomados[h], dudosos)

\* Each block whose bit is set has an owner.
ConDueno ==
    \A b \in bitmap : \/ b \in dudosos \cup fugados
                      \/ \E n \in Enteros : b \in DeArchivo(n)
                      \/ \E h \in Hilos : b \in Suyos(h)

Orden == DelBorrado /\ Marcados /\ UnDueno /\ UnaVez /\ ConDueno
TInv  == TypeOK /\ Donde /\ Cuentas /\ Nuevos
IInv  == TInv /\ Orden

\* With the bytes c, byte p of what the blocks s hold one after another.
ByteDe(c, s, p) == c[s[(p \div BLOCK_SIZE) + 1]][(p % BLOCK_SIZE) + 1]

\* The first k bytes of g fit in the blocks s from p on, and are there unless
\* one of the blocks is of D.
Llega(c, s, p, g, k, D) ==
    /\ p + k <= BLOCK_SIZE * Len(s)
    /\ ToSet(s) \cap D = {} => \A i \in 0 .. k - 1 : ByteDe(c, s, p + i) = g[i + 1]

\* What was saved in a file is in its blocks.
Archivado(c, a, g, D) == a.tamanio = Len(g) /\ Llega(c, a.bloques, 0, g, Len(g), D)
EnSuLugar == \A n \in DOMAIN archivos : Archivado(contenido, archivos[n], guardado[n], dudosos)

\* What guardarDatos wrote is in the blocks it has, after what the file holds.
Cursado(c, a, t, z, D) ==
    t.escritos <= Len(t.nuevos) /\ Llega(c, a.bloques \o z, a.tamanio, t.nuevos, t.escritos, D)
EnCurso ==
    tarea["serie"].de = "guardar" =>
       Cursado(contenido, archivos[tarea["serie"].archivo], tarea["serie"], tomados["serie"],
               dudosos)

CInv == IInv /\ EnSuLugar /\ EnCurso

-----------------------------------------------------------------------------
(* Arithmetic *)

LEMMA Dividir ==
    ASSUME NEW a \in Nat, NEW d \in Nat \ {0}
    PROVE  a \div d \in Nat /\ a % d \in 0 .. d - 1
  OBVIOUS

LEMMA MinimoDeDos ==
    ASSUME NEW a \in Nat, NEW b \in Nat
    PROVE  /\ Min({a, b}) \in Nat /\ Min({a, b}) <= a /\ Min({a, b}) <= b
           /\ Min({a, b}) = IF a <= b THEN a ELSE b
<1>1. PICK x \in {a, b} : \A y \in {a, b} : x <= y
  <2>1. CASE a <= b
    BY <2>1
  <2>2. CASE ~(a <= b)
    BY <2>2
  <2> QED
    BY <2>1, <2>2
<1>2. Min({a, b}) \in {a, b} /\ \A y \in {a, b} : Min({a, b}) <= y
  BY <1>1 DEF Min
<1> QED
  BY <1>2

-----------------------------------------------------------------------------
(* What the tasks are *)

LEMMA Constructores ==
    /\ Libre.de = "nada"
    /\ \A S : Crear(S).de = "crear" /\ Crear(S).nombres = S
    /\ \A n : Borrar(n).de = "borrar" /\ Borrar(n).archivo = n
  BY DEF Libre, Crear, Borrar

LEMMA TareaTipo ==
    ASSUME NEW t \in Tareas
    PROVE  /\ t.de \in {"nada", "crear", "borrar", "guardar"}
           /\ t.de = "nada" <=> t = Libre
           /\ t.de = "crear" => t.nombres \in (SUBSET Nombres) \ {{}} /\ t = Crear(t.nombres)
           /\ t.de = "borrar" => t.archivo \in Nombres /\ t = Borrar(t.archivo)
           /\ t.de = "guardar" =>
                 /\ t.archivo \in Nombres /\ t.nuevos \in Seq(Nat) /\ t.escritos \in Nat
                 /\ t = [de |-> "guardar", archivo |-> t.archivo, nuevos |-> t.nuevos,
                         escritos |-> t.escritos]
<1>1. CASE t = Libre
  BY <1>1, Constructores
<1>2. ASSUME NEW S \in (SUBSET Nombres) \ {{}}, t = Crear(S) PROVE t.de = "crear" /\ t.nombres = S
  BY <1>2, Constructores
<1>3. ASSUME NEW n \in Nombres, t = Borrar(n) PROVE t.de = "borrar" /\ t.archivo = n
  BY <1>3, Constructores
<1>4. ASSUME t \in [de : {"guardar"}, archivo : Nombres, nuevos : Seq(Nat), escritos : Nat]
      PROVE  /\ t.de = "guardar" /\ t.archivo \in Nombres
             /\ t.nuevos \in Seq(Nat) /\ t.escritos \in Nat
             /\ t = [de |-> "guardar", archivo |-> t.archivo, nuevos |-> t.nuevos,
                     escritos |-> t.escritos]
  BY <1>4
<1> QED
  BY <1>1, <1>2, <1>3, <1>4, Constructores DEF Tareas

LEMMA NombresFinitos ==
    ASSUME NEW S \in SUBSET Nombres
    PROVE  IsFiniteSet(S) /\ Cardinality(S) \in Nat /\ (S # {} => Cardinality(S) > 0)
<1>1. IsFiniteSet(S)
  BY FS_Subset, NombresAssumption
<1> QED
  BY <1>1, FS_CardinalityType, FS_EmptySet

-----------------------------------------------------------------------------
(* The threads agree with what they do *)

\* The others are where they were.
Otros(h) ==
    \A g \in Hilos : g # h =>
       /\ est'[g] = est[g] /\ tarea'[g] = tarea[g] /\ actual'[g] = actual[g]
       /\ leido'[g] = leido[g] /\ tomados'[g] = tomados[g]

LEMMA TerminaTipos ==
    ASSUME TypeOK, NEW h \in Hilos, Termina(h)
    PROVE  /\ est' \in [Hilos -> {"libre", "busca", "carga", "toma", "crea", "escribe",
                                  "limpia", "suelta"}]
           /\ tarea' \in [Hilos -> Tareas]
           /\ actual' \in [Hilos -> 0 .. BLOCKS]
           /\ leido' \in [Hilos -> SUBSET Numeros]
           /\ tomados' \in [Hilos -> Seq(Numeros)]
           /\ est'[h] = "libre" /\ tarea'[h] = Libre /\ tomados'[h] = <<>>
           /\ Otros(h)
<1>1. Libre \in Tareas /\ 0 \in 0 .. BLOCKS
  BY BlocksAssumption DEF Tareas
<1> QED
  BY <1>1 DEF Termina, TypeOK, Otros

LEMMA LibreConcuerda ==
    ASSUME NEW h \in Hilos, est'[h] = "libre", tarea'[h] = Libre, tomados'[h] = <<>>
    PROVE  DondeDe(h)' /\ CuentasDe(h)'
  BY Constructores DEF DondeDe, CuentasDe

\* Only h moves, and it makes no file that it was not to make.
LEMMA UnHilo ==
    ASSUME TInv, NEW h \in Hilos, Otros(h), TypeOK', DondeDe(h)', CuentasDe(h)',
           tarea'[h].de = "crear" =>
              tarea[h].de = "crear" /\ tarea'[h].nombres \subseteq tarea[h].nombres,
           DOMAIN archivos' \subseteq DOMAIN archivos
    PROVE  TInv'
<1>1. ASSUME NEW g \in Hilos PROVE DondeDe(g)' /\ CuentasDe(g)'
  <2>1. CASE g # h
    <3>1. DondeDe(g) /\ CuentasDe(g)
      BY DEF TInv, Donde, Cuentas
    <3> QED
      BY <2>1, <3>1 DEF Otros, DondeDe, CuentasDe
  <2> QED
    BY <2>1
<1>2. \A g \in Hilos : tarea'[g].de = "crear" =>
          tarea[g].de = "crear" /\ tarea'[g].nombres \subseteq tarea[g].nombres
  BY DEF Otros
<1>3. Nuevos'
  <2> SUFFICES ASSUME NEW g \in Hilos, tarea'[g].de = "crear"
               PROVE  /\ tarea'[g].nombres \cap DOMAIN archivos' = {}
                      /\ \A k \in Hilos : k # g /\ tarea'[k].de = "crear" =>
                            tarea'[k].nombres \cap tarea'[g].nombres = {}
    BY DEF Nuevos
  <2>1. tarea[g].de = "crear" /\ tarea'[g].nombres \subseteq tarea[g].nombres
    BY <1>2
  <2>2. /\ tarea[g].nombres \cap DOMAIN archivos = {}
        /\ \A k \in Hilos : k # g /\ tarea[k].de = "crear" =>
              tarea[k].nombres \cap tarea[g].nombres = {}
    BY <2>1 DEF TInv, Nuevos
  <2>3. ASSUME NEW k \in Hilos, k # g, tarea'[k].de = "crear"
        PROVE  tarea'[k].nombres \cap tarea'[g].nombres = {}
    BY <1>2, <2>1, <2>2, <2>3
  <2> QED
    BY <2>1, <2>2, <2>3
<1> QED
  BY <1>1, <1>3 DEF TInv, Donde, Cuentas

\* Steps that only change est, actual or leido of one thread.
LEMMA PasoSimple ==
    ASSUME TInv, NEW h \in Hilos, UNCHANGED <<disco, tarea, tomados, guardado, cotas>>,
           dudosos' = dudosos, fugados' = fugados,
           NEW e \in {"busca", "carga", "toma", "crea", "escribe", "limpia", "suelta"},
           est' = [est EXCEPT ![h] = e],
           actual' \in [Hilos -> 0 .. BLOCKS], leido' \in [Hilos -> SUBSET Numeros],
           \A g \in Hilos : g # h => actual'[g] = actual[g] /\ leido'[g] = leido[g],
           DondeDe(h)', CuentasDe(h)'
    PROVE  TInv'
<1>1. TypeOK'
  BY DEF TInv, TypeOK, disco, cotas
<1>2. Otros(h)
  BY DEF TInv, TypeOK, Otros
<1> QED
  BY <1>1, <1>2, UnHilo DEF disco

LEMMA OcupadoT ==
    ASSUME TInv, NEW h \in Hilos, Ocupado(h)
    PROVE  TInv'
<1>1. actual[h] + 1 \in 0 .. BLOCKS /\ actual \in [Hilos -> 0 .. BLOCKS]
  BY BlocksAssumption DEF TInv, TypeOK, Ocupado
<1>2. TypeOK'
  BY <1>1 DEF TInv, TypeOK, Ocupado, disco, cotas
<1>3. Otros(h)
  BY <1>1 DEF TInv, TypeOK, Ocupado, Otros
<1>4. DondeDe(h) /\ CuentasDe(h)
  BY DEF TInv, Donde, Cuentas
<1>5. DondeDe(h)' /\ CuentasDe(h)'
  BY <1>4 DEF Ocupado, DondeDe, CuentasDe
<1> QED
  BY <1>2, <1>3, <1>5, UnHilo DEF Ocupado, disco

LEMMA HalladoT ==
    ASSUME TInv, NEW h \in Hilos, Hallado(h)
    PROVE  TInv'
<1>1. /\ actual \in [Hilos -> 0 .. BLOCKS] /\ leido \in [Hilos -> SUBSET Numeros]
      /\ est'[h] = "carga" /\ actual[h] \in Numeros
  BY BlocksAssumption DEF TInv, TypeOK, Hallado, Numeros
<1>2. DondeDe(h) /\ CuentasDe(h)
  BY DEF TInv, Donde, Cuentas
<1>3. DondeDe(h)' /\ CuentasDe(h)'
  BY <1>1, <1>2 DEF Hallado, DondeDe, CuentasDe
<1> QED
  BY <1>1, <1>3, PasoSimple DEF Hallado

LEMMA SinLugarParaCrearT ==
    ASSUME TInv, NEW h \in Hilos, SinLugarParaCrear(h)
    PROVE  TInv'
<1>1. /\ actual \in [Hilos -> 0 .. BLOCKS] /\ leido \in [Hilos -> SUBSET Numeros]
      /\ est'[h] = "limpia"
  BY DEF TInv, TypeOK, SinLugarParaCrear
<1>2. DondeDe(h)' /\ CuentasDe(h)'
  BY <1>1 DEF SinLugarParaCrear, DondeDe, CuentasDe
<1> QED
  BY <1>1, <1>2, PasoSimple DEF SinLugarParaCrear

LEMMA SinLugarParaGuardarT ==
    ASSUME TInv, NEW h \in Hilos, SinLugarParaGuardar(h)
    PROVE  TInv'
<1>1. ToSet(tomados[h]) \subseteq Numeros
  BY DEF TInv, TypeOK, ToSet
<1>2. Termina(h) /\ TypeOK
  BY DEF TInv, SinLugarParaGuardar
<1>3. TypeOK'
  <2>1. h \in Hilos
    OBVIOUS
  <2>2. \A g \in Hilos : tarea'[g].de \in {"borrar", "guardar"} => tarea'[g] = tarea[g]
    BY <1>2, TerminaTipos, Constructores DEF Otros
  <2> QED
    BY <1>1, <1>2, <2>2, TerminaTipos DEF TypeOK, SinLugarParaGuardar, disco, cotas
<1> QED
  BY <1>2, <1>3, TerminaTipos, LibreConcuerda, UnHilo, Constructores
     DEF SinLugarParaGuardar, disco

LEMMA CargaT ==
    ASSUME TInv, NEW h \in Hilos, CargaParaTomar(h) \/ CargaParaLimpiar(h)
    PROVE  TInv'
<1>1. \A b : bitmap \cap Byte(b) \in SUBSET Numeros /\ bitmap \cap Byte(b) \subseteq Byte(b)
  BY DEF TInv, TypeOK
<1>2. DondeDe(h) /\ CuentasDe(h)
  BY DEF TInv, Donde, Cuentas
<1>3. /\ actual \in [Hilos -> 0 .. BLOCKS] /\ leido \in [Hilos -> SUBSET Numeros]
      /\ est \in [Hilos -> {"libre", "busca", "carga", "toma", "crea", "escribe", "limpia",
                            "suelta"}]
  BY DEF TInv, TypeOK
<1>4. CASE CargaParaTomar(h)
  <2>1. est'[h] = "toma" /\ leido'[h] = bitmap \cap Byte(actual[h])
    BY <1>3, <1>4 DEF CargaParaTomar, CargaPara
  <2>2. DondeDe(h)' /\ CuentasDe(h)'
    BY <1>1, <1>2, <1>4, <2>1 DEF CargaParaTomar, CargaPara, DondeDe, CuentasDe
  <2> QED
    BY <1>1, <1>3, <1>4, <2>2, PasoSimple DEF CargaParaTomar, CargaPara
<1>5. CASE CargaParaLimpiar(h)
  <2>1. est'[h] = "suelta" /\ leido'[h] = bitmap \cap Byte(Head(tomados[h]))
    BY <1>3, <1>5 DEF CargaParaLimpiar, CargaPara
  <2>2. DondeDe(h)' /\ CuentasDe(h)'
    BY <1>1, <1>2, <1>5, <2>1 DEF CargaParaLimpiar, CargaPara, DondeDe, CuentasDe
  <2> QED
    BY <1>1, <1>3, <1>5, <2>2, PasoSimple DEF CargaParaLimpiar, CargaPara
<1> QED
  BY <1>4, <1>5

LEMMA PideBloqueT ==
    ASSUME TInv, PideBloque
    PROVE  TInv'
<1>1. "serie" \in Hilos
  BY DEF Hilos
<1>2. /\ actual \in [Hilos -> 0 .. BLOCKS] /\ leido \in [Hilos -> SUBSET Numeros]
      /\ est'["serie"] = "busca"
  BY <1>1 DEF TInv, TypeOK, PideBloque
<1>3. DondeDe("serie")
  BY <1>1 DEF TInv, Donde
<1>4. DondeDe("serie")' /\ CuentasDe("serie")'
  BY <1>2, <1>3 DEF PideBloque, DondeDe, CuentasDe
<1> QED
  BY <1>1, <1>2, <1>4, PasoSimple DEF PideBloque

LEMMA EmpiezaTipos ==
    ASSUME TypeOK, NEW h \in Hilos, NEW e \in {"busca", "escribe", "limpia"},
           NEW t \in Tareas, NEW s \in Seq(Numeros), Empieza(h, e, t, s)
    PROVE  /\ est' \in [Hilos -> {"libre", "busca", "carga", "toma", "crea", "escribe",
                                  "limpia", "suelta"}]
           /\ tarea' \in [Hilos -> Tareas]
           /\ tomados' \in [Hilos -> Seq(Numeros)]
           /\ est'[h] = e /\ tarea'[h] = t /\ tomados'[h] = s
           /\ Otros(h)
  BY DEF Empieza, TypeOK, Otros

LEMMA LlamaCrearT ==
    ASSUME TInv, NEW h \in Hilos, LlamaCrear(h)
    PROVE  TInv'
<1>1. PICK S \in SUBSET (Nombres \ (DOMAIN archivos \cup Pedidos)) :
         Cardinality(S) \in 1 .. MaxParticiones /\ Empieza(h, "busca", Crear(S), <<>>)
  BY DEF LlamaCrear
<1>2. S # {} /\ Crear(S) \in Tareas /\ <<>> \in Seq(Numeros)
  <2>1. ~(0 \in 1 .. MaxParticiones)
    OBVIOUS
  <2>2. S # {}
    BY <1>1, <2>1, FS_EmptySet
  <2>3. S \in (SUBSET Nombres) \ {{}}
    BY <2>2
  <2> QED
    BY <2>2, <2>3 DEF Tareas
<1>3. /\ TypeOK /\ Otros(h) /\ est'[h] = "busca" /\ tarea'[h] = Crear(S) /\ tomados'[h] = <<>>
      /\ tarea' \in [Hilos -> Tareas]
  BY <1>1, <1>2, EmpiezaTipos DEF TInv
<1>4. TypeOK'
  <2>1. \A g \in Hilos : tarea'[g].de \in {"borrar", "guardar"} => tarea'[g] = tarea[g]
    BY <1>3, Constructores DEF Otros
  <2>2. creates' \in Nat
    BY <1>3 DEF LlamaCrear, TypeOK
  <2> QED
    BY <1>1, <1>2, <1>3, <2>1, <2>2, EmpiezaTipos DEF TypeOK, LlamaCrear, Empieza, disco
<1>5. \A g \in Hilos : DondeDe(g)' /\ CuentasDe(g)'
  <2> TAKE g \in Hilos
  <2>1. DondeDe(g) /\ CuentasDe(g)
    BY DEF TInv, Donde, Cuentas
  <2>2. CASE g # h
    BY <1>3, <2>1, <2>2 DEF Otros, DondeDe, CuentasDe
  <2>3. CASE g = h
    BY <1>1, <1>3, <2>3, Constructores DEF DondeDe, CuentasDe
  <2> QED
    BY <2>2, <2>3
<1>6. Nuevos'
  <2>1. DOMAIN archivos' = DOMAIN archivos
    BY DEF LlamaCrear, disco
  <2>2. \A g \in Hilos : tarea[g].de = "crear" => tarea[g].nombres \cap S = {}
    BY <1>1 DEF Pedidos
  <2>3. ASSUME NEW g \in Hilos, tarea'[g].de = "crear"
        PROVE  /\ tarea'[g].nombres \cap DOMAIN archivos = {}
               /\ \A k \in Hilos : k # g /\ tarea'[k].de = "crear" =>
                     tarea'[k].nombres \cap tarea'[g].nombres = {}
    <3>1. CASE g = h
      <4>1. tarea'[g].nombres = S
        BY <1>3, <3>1, Constructores
      <4>2. \A k \in Hilos : k # g => tarea'[k] = tarea[k]
        BY <1>3, <3>1 DEF Otros
      <4> QED
        BY <1>1, <2>2, <4>1, <4>2
    <3>2. CASE g # h
      <4>1. tarea'[g] = tarea[g]
        BY <1>3, <3>2 DEF Otros
      <4>2. tarea'[h].nombres \cap tarea'[g].nombres = {}
        BY <1>3, <2>2, <2>3, <4>1, Constructores
      <4>3. ASSUME NEW k \in Hilos, k # g, k # h, tarea'[k].de = "crear"
            PROVE  tarea'[k].nombres \cap tarea'[g].nombres = {}
        <5>1. tarea'[k] = tarea[k]
          BY <1>3, <4>3 DEF Otros
        <5> QED
          BY <2>3, <4>1, <4>3, <5>1 DEF TInv, Nuevos
      <4>4. tarea'[g].nombres \cap DOMAIN archivos = {}
        BY <2>3, <4>1 DEF TInv, Nuevos
      <4> QED
        BY <4>2, <4>3, <4>4
    <3> QED
      BY <3>1, <3>2
  <2> QED
    BY <2>1, <2>3 DEF Nuevos
<1> QED
  BY <1>4, <1>5, <1>6 DEF TInv, Donde, Cuentas

LEMMA LlamaBorrarT ==
    ASSUME TInv, LlamaBorrar
    PROVE  TInv'
<1> DEFINE h == "serie"
<1>1. PICK n \in DOMAIN archivos : Empieza(h, "limpia", Borrar(n), archivos[n].bloques)
  BY DEF LlamaBorrar
<1>2. h \in Hilos /\ Borrar(n) \in Tareas /\ archivos[n].bloques \in Seq(Numeros) /\ TypeOK
  BY DEF TInv, TypeOK, Hilos, Tareas, Archivo
<1> HIDE DEF h
<1>3. /\ Otros(h) /\ est'[h] = "limpia" /\ tarea'[h] = Borrar(n)
  BY <1>1, <1>2, EmpiezaTipos
<1>4. TypeOK'
  <2>1. \A g \in Hilos : g # h => tarea'[g] = tarea[g]
    BY <1>3 DEF Otros
  <2>2. \A g \in Hilos : tarea'[g].de \in {"borrar", "guardar"} =>
           g = "serie" /\ tarea'[g].archivo \in DOMAIN archivos
    BY <1>2, <1>3, <2>1, Constructores DEF TypeOK, h
  <2> QED
    BY <1>1, <1>2, <2>2, EmpiezaTipos DEF TypeOK, LlamaBorrar, Empieza, disco, cotas
<1>5. DondeDe(h)' /\ CuentasDe(h)'
  BY <1>3, Constructores DEF DondeDe, CuentasDe
<1> QED
  BY <1>2, <1>3, <1>4, <1>5, UnHilo, Constructores DEF LlamaBorrar, disco

LEMMA LlamaGuardarT ==
    ASSUME TInv, LlamaGuardar
    PROVE  TInv'
<1> DEFINE h == "serie"
           t(n, l) == [de |-> "guardar", archivo |-> n,
                       nuevos |-> [o \in 1 .. l |-> bytes + o], escritos |-> 0]
<1>1. PICK n \in DOMAIN archivos, l \in Largos :
         bytes' = bytes + l /\ Empieza(h, "escribe", t(n, l), <<>>)
  BY DEF LlamaGuardar
<1>2. h \in Hilos /\ <<>> \in Seq(Numeros) /\ TypeOK /\ n \in Nombres /\ l \in Nat
  BY LargosAssumption DEF TInv, TypeOK, Hilos
<1>3. [o \in 1 .. l |-> bytes + o] \in Seq(Nat)
  <2>1. \A o \in 1 .. l : bytes + o \in Nat
    BY <1>2 DEF TypeOK
  <2>2. [o \in 1 .. l |-> bytes + o] \in [1 .. l -> Nat]
    BY <2>1
  <2> QED
    BY <1>2, <2>2
<1>4. t(n, l) \in Tareas /\ t(n, l).de = "guardar" /\ t(n, l).archivo = n
  BY <1>2, <1>3 DEF Tareas
<1> HIDE DEF h, t
<1>5. /\ Otros(h) /\ est'[h] = "escribe" /\ tarea'[h] = t(n, l)
  BY <1>1, <1>2, <1>4, EmpiezaTipos
<1>6. TypeOK'
  <2>1. \A g \in Hilos : g # h => tarea'[g] = tarea[g]
    BY <1>5 DEF Otros
  <2>2. \A g \in Hilos : tarea'[g].de \in {"borrar", "guardar"} =>
           g = "serie" /\ tarea'[g].archivo \in DOMAIN archivos
    BY <1>2, <1>4, <1>5, <2>1 DEF TypeOK, h
  <2>3. bytes' \in Nat /\ guardados' \in Nat
    BY <1>1, <1>2 DEF LlamaGuardar, TypeOK
  <2> QED
    BY <1>1, <1>2, <1>4, <2>2, <2>3, EmpiezaTipos
       DEF TypeOK, LlamaGuardar, Empieza, disco
<1>7. DondeDe(h)' /\ CuentasDe(h)'
  BY <1>4, <1>5 DEF DondeDe, CuentasDe
<1> QED
  BY <1>2, <1>4, <1>5, <1>6, <1>7, UnHilo DEF LlamaGuardar, disco

LEMMA TomaT ==
    ASSUME TInv, NEW h \in Hilos, Toma(h)
    PROVE  TInv'
<1> DEFINE b == actual[h]
<1>1. DondeDe(h) /\ CuentasDe(h) /\ TypeOK
  BY DEF TInv, Donde, Cuentas
<1>2. b \in Numeros /\ tomados[h] \in Seq(Numeros) /\ tarea[h] \in Tareas
  BY <1>1 DEF Toma, DondeDe, TypeOK
<1>3. /\ Append(tomados[h], b) \in Seq(Numeros)
      /\ Len(Append(tomados[h], b)) = Len(tomados[h]) + 1
      /\ Len(tomados[h]) \in Nat
  BY <1>2
<1>4. /\ Byte(b) \subseteq Numeros /\ Deshechos(h, b) \subseteq Numeros
      /\ leido[h] \subseteq Numeros /\ bitmap \subseteq Numeros
  BY <1>1 DEF Byte, Deshechos, TypeOK
<1>5. bitmap' \subseteq Numeros /\ dudosos' \subseteq Numeros
  BY <1>1, <1>2, <1>4 DEF Toma, Graba, TypeOK
<1>6. b + 1 \in 0 .. BLOCKS /\ 0 \in 0 .. BLOCKS
  BY <1>2, BlocksAssumption DEF Numeros
<1>7. /\ est' \in [Hilos -> {"libre", "busca", "carga", "toma", "crea", "escribe",
                              "limpia", "suelta"}]
      /\ actual' \in [Hilos -> 0 .. BLOCKS]
      /\ leido' \in [Hilos -> SUBSET Numeros]
      /\ tomados' \in [Hilos -> Seq(Numeros)]
  <2>1. \A e \in {"busca", "crea", "escribe"} : [est EXCEPT ![h] = e] \in
           [Hilos -> {"libre", "busca", "carga", "toma", "crea", "escribe", "limpia",
                      "suelta"}]
    BY <1>1 DEF TypeOK
  <2>2. \A a \in 0 .. BLOCKS : [actual EXCEPT ![h] = a] \in [Hilos -> 0 .. BLOCKS]
    BY <1>1 DEF TypeOK
  <2>3. /\ leido' \in [Hilos -> SUBSET Numeros]
        /\ tomados' \in [Hilos -> Seq(Numeros)]
    BY <1>1, <1>3 DEF Toma, Graba, TypeOK
  <2> QED
    BY <1>6, <2>1, <2>2, <2>3 DEF Toma
<1>8. TypeOK'
  BY <1>1, <1>5, <1>7 DEF Toma, TypeOK, cotas
<1>9. Otros(h) /\ tomados'[h] = Append(tomados[h], b) /\ tarea' = tarea
  BY <1>1 DEF Toma, Graba, TypeOK, Otros
<1>10. DondeDe(h)' /\ CuentasDe(h)'
  <2>1. tarea[h].de = "crear" =>
           /\ Cardinality(tarea[h].nombres) \in Nat
           /\ Len(tomados[h]) < Cardinality(tarea[h].nombres)
    BY <1>1, <1>2, TareaTipo, NombresFinitos DEF Toma, CuentasDe
  <2>2. \/ tarea[h].de = "crear" /\ est'[h] = "busca"
           /\ Len(tomados[h]) + 1 < Cardinality(tarea[h].nombres)
        \/ tarea[h].de = "crear" /\ est'[h] = "crea"
           /\ Len(tomados[h]) + 1 >= Cardinality(tarea[h].nombres)
        \/ tarea[h].de = "guardar" /\ est'[h] = "escribe"
    BY <1>1 DEF Toma, TypeOK
  <2>3. DondeDe(h)'
    BY <1>9, <2>2 DEF DondeDe
  <2>4. CuentasDe(h)'
    BY <1>3, <1>9, <2>1, <2>2 DEF CuentasDe
  <2> QED
    BY <2>3, <2>4
<1> QED
  BY <1>8, <1>9, <1>10, UnHilo DEF Toma

LEMMA SueltaT ==
    ASSUME TInv, NEW h \in Hilos, Suelta(h)
    PROVE  TInv'
<1> DEFINE b == Head(tomados[h])
<1>1. DondeDe(h) /\ CuentasDe(h) /\ TypeOK
  BY DEF TInv, Donde, Cuentas
<1>2. tomados[h] \in Seq(Numeros) /\ tomados[h] # <<>>
  BY <1>1 DEF Suelta, DondeDe, TypeOK
<1>3. Tail(tomados[h]) \in Seq(Numeros) /\ b \in Numeros
  BY <1>2
<1>4. /\ Byte(b) \subseteq Numeros /\ Deshechos(h, b) \subseteq Numeros
      /\ leido[h] \subseteq Numeros /\ bitmap \subseteq Numeros
  BY <1>1 DEF Byte, Deshechos, TypeOK
<1>5. bitmap' \subseteq Numeros /\ dudosos' \subseteq Numeros
  BY <1>1, <1>4 DEF Suelta, Graba, TypeOK
<1>6. /\ est' \in [Hilos -> {"libre", "busca", "carga", "toma", "crea", "escribe",
                              "limpia", "suelta"}]
      /\ leido' \in [Hilos -> SUBSET Numeros]
      /\ tomados' \in [Hilos -> Seq(Numeros)]
  BY <1>1, <1>3 DEF Suelta, Graba, TypeOK
<1>7. TypeOK'
  BY <1>1, <1>5, <1>6 DEF Suelta, TypeOK, cotas
<1>8. Otros(h) /\ tarea' = tarea /\ est'[h] = "limpia"
  BY <1>1 DEF Suelta, Graba, TypeOK, Otros
<1>9. DondeDe(h)' /\ CuentasDe(h)'
  BY <1>1, <1>8 DEF Suelta, DondeDe, CuentasDe
<1> QED
  BY <1>7, <1>8, <1>9, UnHilo DEF Suelta

LEMMA CreaArchivoT ==
    ASSUME TInv, NEW h \in Hilos, CreaArchivo(h)
    PROVE  TInv'
<1>1. DondeDe(h) /\ CuentasDe(h) /\ TypeOK
  BY DEF TInv, Donde, Cuentas
<1> DEFINE nuevo == [tamanio |-> 0, bloques |-> <<Head(tomados[h])>>]
<1>2. PICK n \in tarea[h].nombres :
         /\ archivos' = [m \in DOMAIN archivos \cup {n} |->
                            IF m = n THEN nuevo ELSE archivos[m]]
         /\ guardado' = [m \in DOMAIN guardado \cup {n} |->
                            IF m = n THEN <<>> ELSE guardado[m]]
         /\ \/ /\ tarea[h].nombres # {n}
               /\ tarea' = [tarea EXCEPT ![h] = Crear(tarea[h].nombres \ {n})]
               /\ tomados' = [tomados EXCEPT ![h] = Tail(@)]
               /\ UNCHANGED <<est, actual, leido>>
            \/ /\ tarea[h].nombres = {n}
               /\ Termina(h)
  BY DEF CreaArchivo
<1> DEFINE S == tarea[h].nombres
<1>3. tarea[h].de = "crear" /\ S \in SUBSET Nombres /\ IsFiniteSet(S) /\ Cardinality(S) \in Nat
      /\ tarea[h] \in Tareas
  BY <1>1, TareaTipo, NombresFinitos DEF CreaArchivo, DondeDe, TypeOK
<1>4. tomados[h] \in Seq(Numeros) /\ Len(tomados[h]) = Cardinality(S)
      /\ Cardinality(S \ {n}) = Cardinality(S) - 1
  BY ZenonT(30), <1>1, <1>2, <1>3, FS_RemoveElement DEF CreaArchivo, CuentasDe, TypeOK
<1>5. Len(tomados[h]) > 0
  BY <1>2, <1>3, <1>4, NombresFinitos
<1>6. nuevo \in Archivo
  <2>1. Head(tomados[h]) \in Numeros
    BY <1>4, <1>5
  <2>2. <<Head(tomados[h])>> \in Seq(Numeros)
    BY <2>1
  <2> QED
    BY <2>2 DEF Archivo
<1>7. Tail(tomados[h]) \in Seq(Numeros) /\ Len(Tail(tomados[h])) = Cardinality(S) - 1
  BY <1>4, <1>5
<1> HIDE DEF nuevo
<1>8. /\ est' \in [Hilos -> {"libre", "busca", "carga", "toma", "crea", "escribe",
                              "limpia", "suelta"}]
      /\ tarea' \in [Hilos -> Tareas]
      /\ actual' \in [Hilos -> 0 .. BLOCKS]
      /\ leido' \in [Hilos -> SUBSET Numeros]
      /\ tomados' \in [Hilos -> Seq(Numeros)]
      /\ Otros(h)
      /\ tarea'[h].de \in {"nada", "crear"}
      /\ tarea'[h].de = "crear" => tarea'[h].nombres = S \ {n}
  <2>1. CASE S # {n}
    <3>1. S \ {n} \in (SUBSET Nombres) \ {{}}
      BY <1>2, <1>3, <2>1
    <3>2. Crear(S \ {n}) \in Tareas
      BY <3>1 DEF Tareas
    <3>3. /\ tarea' = [tarea EXCEPT ![h] = Crear(S \ {n})]
          /\ tomados' = [tomados EXCEPT ![h] = Tail(tomados[h])]
          /\ UNCHANGED <<est, actual, leido>>
      BY <1>2, <2>1
    <3>4. tarea' \in [Hilos -> Tareas] /\ tarea'[h] = Crear(S \ {n})
      BY <1>1, <3>2, <3>3 DEF TypeOK
    <3>5. tomados' \in [Hilos -> Seq(Numeros)]
      BY <1>1, <1>7, <3>3 DEF TypeOK
    <3>6. Otros(h)
      BY <1>1, <3>3 DEF TypeOK, Otros
    <3> QED
      BY <1>1, <3>3, <3>4, <3>5, <3>6, Constructores DEF TypeOK
  <2>2. CASE S = {n}
    <3>1. Termina(h)
      BY <1>2, <2>2
    <3> QED
      BY <1>1, <3>1, TerminaTipos, Constructores
  <2> QED
    BY <2>1, <2>2
<1>9. /\ DOMAIN archivos' = DOMAIN archivos \cup {n}
      /\ \A m \in DOMAIN archivos' : archivos'[m] \in Archivo
      /\ DOMAIN guardado' = DOMAIN archivos \cup {n}
      /\ \A m \in DOMAIN guardado' : guardado'[m] \in Seq(Nat)
      /\ n \in Nombres
  BY <1>1, <1>2, <1>3, <1>6 DEF TypeOK
<1>10. TypeOK'
  <2>1. \A g \in Hilos : tarea'[g].de \in {"borrar", "guardar"} =>
           g = "serie" /\ tarea'[g].archivo \in DOMAIN archivos
    BY <1>1, <1>8 DEF TypeOK, Otros
  <2> QED
    BY <1>1, <1>8, <1>9, <2>1 DEF TypeOK, CreaArchivo, cotas
<1>11. DondeDe(h)' /\ CuentasDe(h)'
  <2>1. CASE S # {n}
    <3>1. tarea'[h] = Crear(S \ {n}) /\ tomados'[h] = Tail(tomados[h]) /\ est'[h] = "crea"
      BY <1>1, <1>2, <2>1 DEF TypeOK, CreaArchivo
    <3> QED
      BY <1>4, <1>7, <3>1, Constructores DEF DondeDe, CuentasDe
  <2>2. CASE S = {n}
    BY <1>1, <1>2, <2>2, TerminaTipos, LibreConcuerda
  <2> QED
    BY <2>1, <2>2
<1>12. \A g \in Hilos : DondeDe(g)' /\ CuentasDe(g)'
  <2> TAKE g \in Hilos
  <2>1. DondeDe(g) /\ CuentasDe(g)
    BY DEF TInv, Donde, Cuentas
  <2>2. CASE g # h
    BY <1>8, <2>1, <2>2 DEF Otros, DondeDe, CuentasDe
  <2> QED
    BY <1>11, <2>2
<1>13. Nuevos'
  <2> SUFFICES ASSUME NEW g \in Hilos, tarea'[g].de = "crear"
               PROVE  /\ tarea'[g].nombres \cap DOMAIN archivos' = {}
                      /\ \A k \in Hilos : k # g /\ tarea'[k].de = "crear" =>
                            tarea'[k].nombres \cap tarea'[g].nombres = {}
    BY DEF Nuevos
  <2>1. \A k \in Hilos : tarea'[k].de = "crear" =>
           tarea[k].de = "crear" /\ tarea'[k].nombres \subseteq tarea[k].nombres
    BY <1>3, <1>8 DEF Otros
  <2>2. /\ tarea[g].nombres \cap DOMAIN archivos = {}
        /\ \A k \in Hilos : k # g /\ tarea[k].de = "crear" =>
              tarea[k].nombres \cap tarea[g].nombres = {}
    BY <2>1 DEF TInv, Nuevos
  <2>3. n \notin tarea'[g].nombres
    BY <1>2, <1>3, <1>8, <2>1, <2>2
  <2>4. tarea'[g].nombres \cap DOMAIN archivos' = {}
    BY <1>9, <2>1, <2>2, <2>3
  <2>5. ASSUME NEW k \in Hilos, k # g, tarea'[k].de = "crear"
        PROVE  tarea'[k].nombres \cap tarea'[g].nombres = {}
    BY <2>1, <2>2, <2>5
  <2> QED
    BY <2>4, <2>5
<1> QED
  BY <1>10, <1>12, <1>13 DEF TInv, Donde, Cuentas

LEMMA TerminaDeLimpiarT ==
    ASSUME TInv, NEW h \in Hilos, TerminaDeLimpiar(h)
    PROVE  TInv'
<1> DEFINE quedan == IF tarea[h].de = "borrar"
                     THEN DOMAIN archivos \ {tarea[h].archivo}
                     ELSE DOMAIN archivos
<1>1. TypeOK /\ Termina(h)
  BY DEF TInv, TerminaDeLimpiar
<1>2. /\ archivos' = [m \in quedan |-> archivos[m]]
      /\ guardado' = [m \in quedan |-> guardado[m]]
      /\ quedan \subseteq DOMAIN archivos
  BY DEF TerminaDeLimpiar
<1>3. /\ DOMAIN archivos' = quedan
      /\ \A m \in DOMAIN archivos' : archivos'[m] \in Archivo
      /\ DOMAIN guardado' = quedan
      /\ \A m \in DOMAIN guardado' : guardado'[m] \in Seq(Nat)
  BY <1>1, <1>2 DEF TypeOK
<1>4. TypeOK'
  <2>1. ASSUME NEW g \in Hilos, tarea'[g].de \in {"borrar", "guardar"}
        PROVE  g = "serie" /\ tarea'[g].archivo \in quedan
    <3>1. g # h /\ tarea'[g] = tarea[g]
      BY <1>1, <2>1, TerminaTipos, Constructores DEF Otros
    <3>2. g = "serie" /\ tarea[g].archivo \in DOMAIN archivos
      BY <1>1, <2>1, <3>1 DEF TypeOK
    <3>3. tarea[h].de # "borrar"
      BY <1>1, <3>1, <3>2 DEF TypeOK
    <3> QED
      BY <3>1, <3>2, <3>3
  <2> QED
    BY <1>1, <1>2, <1>3, <2>1, TerminaTipos DEF TypeOK, TerminaDeLimpiar, cotas
<1>5. DOMAIN archivos' \subseteq DOMAIN archivos
  BY <1>2, <1>3
<1> HIDE DEF quedan
<1> QED
  BY <1>1, <1>4, <1>5, TerminaTipos, LibreConcuerda, UnHilo, Constructores

\* Where the bytes of a row go, in a file that has a block there.
LEMMA Lugar ==
    ASSUME TInv, tarea["serie"].de = "guardar"
    PROVE  LET t == tarea["serie"]
               k == TamanioDe(t) \div BLOCK_SIZE
               offset == TamanioDe(t) % BLOCK_SIZE
           IN  /\ "serie" \in Hilos /\ t \in Tareas /\ t.archivo \in DOMAIN archivos
               /\ t.nuevos \in Seq(Nat) /\ t.escritos \in Nat
               /\ TamanioDe(t) \in Nat /\ BloquesDe(t) \in Seq(Numeros)
               /\ k \in Nat /\ offset \in 0 .. BLOCK_SIZE - 1
               /\ k < Len(BloquesDe(t)) => BloquesDe(t)[k + 1] \in Numeros
<1> DEFINE t == tarea["serie"]
           k == TamanioDe(t) \div BLOCK_SIZE
           offset == TamanioDe(t) % BLOCK_SIZE
<1>1. /\ "serie" \in Hilos /\ t \in Tareas /\ t.archivo \in DOMAIN archivos
      /\ archivos[t.archivo] \in Archivo /\ tomados["serie"] \in Seq(Numeros)
  BY DEF TInv, TypeOK, Hilos
<1>2. t.nuevos \in Seq(Nat) /\ t.escritos \in Nat
  BY <1>1, TareaTipo
<1>3. /\ archivos[t.archivo].tamanio \in Nat
      /\ archivos[t.archivo].bloques \in Seq(Numeros)
  BY <1>1 DEF Archivo
<1> HIDE DEF t
<1>4. TamanioDe(t) \in Nat /\ BloquesDe(t) \in Seq(Numeros)
  BY <1>1, <1>2, <1>3 DEF TamanioDe, BloquesDe
<1>5. k \in Nat /\ offset \in 0 .. BLOCK_SIZE - 1
  BY <1>4, Dividir, BlocksAssumption
<1> HIDE DEF k, offset
<1>6. k < Len(BloquesDe(t)) => BloquesDe(t)[k + 1] \in Numeros
  BY <1>4, <1>5
<1> QED
  BY <1>1, <1>2, <1>4, <1>5, <1>6 DEF t, k, offset

LEMMA EscribeT ==
    ASSUME TInv, Escribe
    PROVE  TInv'
<1> DEFINE h == "serie"
           t == tarea[h]
           k == TamanioDe(t) \div BLOCK_SIZE
           b == BloquesDe(t)[k + 1]
           offset == TamanioDe(t) % BLOCK_SIZE
           cant == Min({BLOCK_SIZE - offset, Len(t.nuevos) - t.escritos})
           nuevo == [o \in 1 .. BLOCK_SIZE |->
                                IF o \in offset + 1 .. offset + cant
                                THEN t.nuevos[t.escritos + o - offset]
                                ELSE contenido[b][o]]
           t2 == [t EXCEPT !.escritos = @ + cant]
<1>1. h \in Hilos /\ TypeOK /\ DondeDe(h) /\ CuentasDe(h)
  BY DEF TInv, Donde, Cuentas, Hilos
<1>2. /\ est[h] = "escribe" /\ t.escritos < Len(t.nuevos) /\ k < Len(BloquesDe(t))
      /\ contenido' = [contenido EXCEPT ![b] = nuevo]
      /\ tarea' = [tarea EXCEPT ![h].escritos = @ + cant]
      /\ UNCHANGED <<bitmap, archivos, est, actual, leido, tomados, guardado, dudosos,
                     fugados, cotas>>
  BY DEF Escribe, EscribeDesde
<1>3. t.de = "guardar"
  BY <1>1, <1>2 DEF DondeDe
<1>4. /\ t \in Tareas /\ t.archivo \in DOMAIN archivos
      /\ t.nuevos \in Seq(Nat) /\ t.escritos \in Nat
      /\ offset \in 0 .. BLOCK_SIZE - 1 /\ b \in Numeros
  BY <1>2, <1>3, Lugar
<1>5. BLOCK_SIZE \in Nat \ {0}
  BY BlocksAssumption
<1> HIDE DEF t, k, b, offset
<1>6. BLOCK_SIZE - offset \in Nat /\ Len(t.nuevos) - t.escritos \in Nat
  BY <1>2, <1>4, <1>5
<1>7. cant \in Nat /\ cant <= Len(t.nuevos) - t.escritos
  BY <1>6, MinimoDeDos
<1> HIDE DEF cant
<1>8. nuevo \in [1 .. BLOCK_SIZE -> Nat]
  <2> SUFFICES ASSUME NEW o \in 1 .. BLOCK_SIZE
               PROVE  (IF o \in offset + 1 .. offset + cant
                       THEN t.nuevos[t.escritos + o - offset]
                       ELSE contenido[b][o]) \in Nat
    OBVIOUS
  <2>1. CASE o \in offset + 1 .. offset + cant
    <3>1. t.escritos + o - offset \in 1 .. Len(t.nuevos)
      BY <1>4, <1>5, <1>7, <2>1
    <3> QED
      BY <1>4, <2>1, <3>1
  <2>2. CASE o \notin offset + 1 .. offset + cant
    <3>1. contenido[b] \in [1 .. BLOCK_SIZE -> Nat]
      BY <1>1, <1>4 DEF TypeOK
    <3> QED
      BY <2>2, <3>1
  <2> QED
    BY <2>1, <2>2
<1> HIDE DEF nuevo
<1>9. contenido' \in [Numeros -> [1 .. BLOCK_SIZE -> Nat]]
  BY <1>1, <1>2, <1>4, <1>8 DEF TypeOK
<1>10. tarea'[h] = t2 /\ tarea' \in [Hilos -> Tareas]
  <2>1. t \in [de : {"guardar"}, archivo : Nombres, nuevos : Seq(Nat), escritos : Nat]
    BY <1>3, <1>4, TareaTipo
  <2>2. t2 \in [de : {"guardar"}, archivo : Nombres, nuevos : Seq(Nat), escritos : Nat]
    <3>1. t.escritos + cant \in Nat
      BY <1>4, <1>7
    <3> QED
      BY <2>1, <3>1
  <2>3. tarea' = [tarea EXCEPT ![h] = t2] /\ t2 \in Tareas
    BY <1>2, <2>2 DEF t, Tareas
  <2> QED
    BY <1>1, <2>3 DEF TypeOK
<1>11. Otros(h)
  BY <1>1, <1>2 DEF Otros, TypeOK
<1>12. t2.de = "guardar" /\ t2.archivo = t.archivo
  BY <1>3, <1>4, TareaTipo
<1> HIDE DEF t2
<1>13. TypeOK'
  <2>1. \A g \in Hilos : tarea'[g].de \in {"borrar", "guardar"} =>
           g = "serie" /\ tarea'[g].archivo \in DOMAIN archivos
    BY <1>1, <1>4, <1>10, <1>11, <1>12 DEF TypeOK, Otros
  <2> QED
    BY <1>1, <1>2, <1>9, <1>10, <2>1 DEF TypeOK, cotas
<1>14. DondeDe(h)' /\ CuentasDe(h)'
  BY <1>2, <1>10, <1>12 DEF DondeDe, CuentasDe
<1> QED
  BY <1>1, <1>2, <1>10, <1>11, <1>12, <1>13, <1>14, UnHilo

LEMMA GuardaConfigT ==
    ASSUME TInv, GuardaConfig
    PROVE  TInv'
<1> DEFINE h == "serie"
           t == tarea[h]
           nuevo == [tamanio |-> TamanioDe(t), bloques |-> BloquesDe(t)]
<1>1. h \in Hilos /\ TypeOK /\ DondeDe(h)
  BY DEF TInv, Donde, Hilos
<1>2. t.de = "guardar" /\ Termina(h)
  BY <1>1 DEF GuardaConfig, DondeDe
<1>3. /\ t.archivo \in DOMAIN archivos /\ t.nuevos \in Seq(Nat)
      /\ TamanioDe(t) \in Nat /\ BloquesDe(t) \in Seq(Numeros)
  BY <1>2, Lugar
<1>4. nuevo \in Archivo
  BY <1>3 DEF Archivo
<1> HIDE DEF nuevo
<1>5. /\ archivos' = [archivos EXCEPT ![t.archivo] = nuevo]
      /\ guardado' = [guardado EXCEPT ![t.archivo] = @ \o t.nuevos]
  BY DEF GuardaConfig, nuevo
<1>6. guardado[t.archivo] \o t.nuevos \in Seq(Nat)
  BY <1>1, <1>3 DEF TypeOK
<1>7. /\ DOMAIN archivos' = DOMAIN archivos
      /\ \A m \in DOMAIN archivos' : archivos'[m] \in Archivo
      /\ DOMAIN guardado' = DOMAIN archivos
      /\ \A m \in DOMAIN guardado' : guardado'[m] \in Seq(Nat)
  BY <1>1, <1>4, <1>5, <1>6 DEF TypeOK
<1>8. TypeOK'
  <2>1. \A g \in Hilos : tarea'[g].de \in {"borrar", "guardar"} => tarea'[g] = tarea[g]
    BY <1>1, <1>2, TerminaTipos, Constructores DEF Otros
  <2> QED
    BY <1>1, <1>2, <1>7, <2>1, TerminaTipos DEF TypeOK, GuardaConfig, cotas
<1> HIDE DEF h
<1> QED
  BY <1>1, <1>2, <1>7, <1>8, TerminaTipos, LibreConcuerda, UnHilo, Constructores

LEMMA CaidaT ==
    ASSUME TInv, Caida
    PROVE  TInv'
<1>1. \A h \in Hilos : Reservados(h) \subseteq Numeros /\ Limpiados(h) \subseteq Numeros
  <2> TAKE h \in Hilos
  <2>1. ToSet(tomados[h]) \subseteq Numeros
    BY DEF TInv, TypeOK, ToSet
  <2>2. tarea[h].de = "borrar" => DeArchivo(tarea[h].archivo) \subseteq Numeros
    BY DEF TInv, TypeOK, DeArchivo, ToSet, Archivo
  <2> QED
    BY <2>1, <2>2 DEF Reservados, Limpiados
<1>2. dudosos' \subseteq Numeros /\ fugados' \subseteq Numeros
  BY <1>1 DEF TInv, TypeOK, Caida
<1>3. \A h \in Hilos : /\ est'[h] = "libre" /\ tarea'[h] = Libre /\ tomados'[h] = <<>>
  BY DEF Caida
<1>4. Libre \in Tareas /\ 0 \in 0 .. BLOCKS
  BY BlocksAssumption DEF Tareas
<1>5. TypeOK'
  BY <1>2, <1>3, <1>4, Constructores DEF TInv, TypeOK, Caida, disco
<1>6. Nuevos'
  BY <1>3, Constructores DEF Nuevos
<1> QED
  BY <1>3, <1>5, <1>6, LibreConcuerda DEF TInv, Donde, Cuentas

-----------------------------------------------------------------------------
(* Type correctness *)

LEMMA InitT == Init => TInv
<1> SUFFICES ASSUME Init PROVE TInv
  OBVIOUS
<1>1. 0 \in 0 .. BLOCKS /\ Libre \in Tareas /\ DOMAIN archivos = {} /\ DOMAIN guardado = {}
  BY BlocksAssumption DEF Tareas, Init
<1>2. TypeOK
  BY <1>1, Constructores DEF TypeOK, Init
<1>3. \A h \in Hilos : est[h] = "libre" /\ tarea[h] = Libre /\ tomados[h] = <<>>
  BY DEF Init
<1>4. \A h \in Hilos : DondeDe(h) /\ CuentasDe(h)
  BY <1>3, Constructores DEF DondeDe, CuentasDe
<1>5. Nuevos
  BY <1>3, Constructores DEF Nuevos
<1> QED
  BY <1>2, <1>4, <1>5 DEF TInv, Donde, Cuentas

LEMMA QuietoT == ASSUME TInv, UNCHANGED vars PROVE TInv'
<1>1. TypeOK'
  BY DEF TInv, TypeOK, vars, disco, hilos, cotas
<1>2. \A h \in Hilos : DondeDe(h)' /\ CuentasDe(h)'
  BY DEF TInv, Donde, Cuentas, DondeDe, CuentasDe, vars, hilos
<1>3. Nuevos'
  BY DEF TInv, Nuevos, vars, disco, hilos
<1> QED
  BY <1>1, <1>2, <1>3 DEF TInv, Donde, Cuentas

LEMMA PasoT == TInv /\ [Next]_vars => TInv'
<1> SUFFICES ASSUME TInv, [Next]_vars PROVE TInv'
  OBVIOUS
<1>1. ASSUME NEW h \in Hilos, LlamaCrear(h) PROVE TInv'
  BY <1>1, LlamaCrearT
<1>2. ASSUME NEW h \in Hilos, Ocupado(h) PROVE TInv'
  BY <1>2, OcupadoT
<1>3. ASSUME NEW h \in Hilos, Hallado(h) PROVE TInv'
  BY <1>3, HalladoT
<1>4. ASSUME NEW h \in Hilos, SinLugarParaCrear(h) PROVE TInv'
  BY <1>4, SinLugarParaCrearT
<1>5. ASSUME NEW h \in Hilos, SinLugarParaGuardar(h) PROVE TInv'
  BY <1>5, SinLugarParaGuardarT
<1>6. ASSUME NEW h \in Hilos, CargaParaTomar(h) \/ CargaParaLimpiar(h) PROVE TInv'
  BY <1>6, CargaT
<1>7. ASSUME NEW h \in Hilos, Toma(h) PROVE TInv'
  BY <1>7, TomaT
<1>8. ASSUME NEW h \in Hilos, Suelta(h) PROVE TInv'
  BY <1>8, SueltaT
<1>9. ASSUME NEW h \in Hilos, TerminaDeLimpiar(h) PROVE TInv'
  BY <1>9, TerminaDeLimpiarT
<1>10. ASSUME NEW h \in Hilos, CreaArchivo(h) PROVE TInv'
  BY <1>10, CreaArchivoT
<1>11. CASE LlamaBorrar
  BY <1>11, LlamaBorrarT
<1>12. CASE LlamaGuardar
  BY <1>12, LlamaGuardarT
<1>13. CASE PideBloque
  BY <1>13, PideBloqueT
<1>14. CASE Escribe
  BY <1>14, EscribeT
<1>15. CASE GuardaConfig
  BY <1>15, GuardaConfigT
<1>16. CASE Caida
  BY <1>16, CaidaT
<1>17. CASE UNCHANGED vars
  BY <1>17, QuietoT
<1> QED
  BY <1>1, <1>2, <1>3, <1>4, <1>5, <1>6, <1>7, <1>8, <1>9, <1>10, <1>11, <1>12, <1>13,
     <1>14, <1>15, <1>16, <1>17 DEF Next

\* The types hold, for any number of blocks and threads: a call looks at bits
\* of blocks that there are, and writes and removes files that are there
\* (filesystem.c:191-585).
THEOREM Tipos == Spec => []TypeOK
<1>1. TInv => TypeOK
  BY DEF TInv
<1> QED
  BY <1>1, InitT, PasoT, PTL DEF Spec

-----------------------------------------------------------------------------
(* Lists of blocks *)

LEMMA RepetirMas ==
    ASSUME NEW s, NEW D, NEW E, D \subseteq E, SinRepetir(s, D)
    PROVE  SinRepetir(s, E)
  BY DEF SinRepetir

LEMMA RepetirAppend ==
    ASSUME NEW s \in Seq(Numeros), NEW b \in Numeros, NEW D, SinRepetir(s, D),
           b \in ToSet(s) => b \in D
    PROVE  /\ ToSet(Append(s, b)) = ToSet(s) \cup {b}
           /\ SinRepetir(Append(s, b), D)
<1> DEFINE a == Append(s, b)
<1>1. /\ Len(a) = Len(s) + 1 /\ Len(s) \in Nat /\ a[Len(s) + 1] = b
      /\ \A i \in 1 .. Len(s) : a[i] = s[i]
  OBVIOUS
<1>2. ToSet(a) = ToSet(s) \cup {b}
  BY AgregarElemento
<1> HIDE DEF a
<1>3. \A i \in 1 .. Len(s) : s[i] \in ToSet(s)
  BY DEF ToSet
<1>4. ASSUME NEW i \in 1 .. Len(a), NEW j \in 1 .. Len(a), a[i] = a[j], i # j
      PROVE  a[i] \in D
  <2>1. CASE i \in 1 .. Len(s) /\ j \in 1 .. Len(s)
    BY <1>1, <1>4, <2>1 DEF SinRepetir
  <2>2. CASE i = Len(s) + 1 /\ j \in 1 .. Len(s)
    BY <1>1, <1>3, <1>4, <2>2
  <2>3. CASE j = Len(s) + 1 /\ i \in 1 .. Len(s)
    BY <1>1, <1>3, <1>4, <2>3
  <2> QED
    BY <1>1, <1>4, <2>1, <2>2, <2>3
<1> QED
  BY <1>2, <1>4 DEF SinRepetir, a

LEMMA RepetirTail ==
    ASSUME NEW s \in Seq(Numeros), s # <<>>, NEW D, SinRepetir(s, D)
    PROVE  /\ Tail(s) \in Seq(Numeros) /\ Head(s) \in Numeros
           /\ ToSet(s) = {Head(s)} \cup ToSet(Tail(s))
           /\ SinRepetir(Tail(s), D)
           /\ Head(s) \in ToSet(Tail(s)) => Head(s) \in D
<1> DEFINE t == Tail(s)
<1>1. /\ t \in Seq(Numeros) /\ Len(t) = Len(s) - 1 /\ Len(s) \in Nat /\ Len(s) > 0
      /\ Head(s) = s[1] /\ Head(s) \in Numeros
      /\ \A i \in 1 .. Len(t) : t[i] = s[i + 1]
  OBVIOUS
<1>2. s \in Seq(ToSet(s))
  BY DEF ToSet
<1>3. ToSet(s) = {Head(s)} \cup ToSet(t)
  BY <1>2, QuitarCabeza DEF EsLista
<1> HIDE DEF t
<1>4. ASSUME NEW i \in 1 .. Len(t), NEW j \in 1 .. Len(t), t[i] = t[j], i # j
      PROVE  t[i] \in D
  <2>1. i + 1 \in 1 .. Len(s) /\ j + 1 \in 1 .. Len(s) /\ i + 1 # j + 1
    BY <1>1, <1>4
  <2> QED
    BY <1>1, <1>4, <2>1 DEF SinRepetir
<1>5. ASSUME Head(s) \in ToSet(t) PROVE Head(s) \in D
  <2>1. PICK i \in 1 .. Len(t) : t[i] = Head(s)
    BY <1>1, <1>5 DEF ToSet
  <2>2. i + 1 \in 1 .. Len(s) /\ 1 \in 1 .. Len(s) /\ i + 1 # 1
    BY <1>1
  <2> QED
    BY <1>1, <2>1, <2>2 DEF SinRepetir
<1> QED
  BY <1>1, <1>3, <1>4, <1>5 DEF SinRepetir, t

LEMMA RepetirJuntos ==
    ASSUME NEW s \in Seq(Numeros), NEW t \in Seq(Numeros), NEW D,
           SinRepetir(s, D), SinRepetir(t, D), ToSet(s) \cap ToSet(t) \subseteq D
    PROVE  /\ ToSet(s \o t) = ToSet(s) \cup ToSet(t)
           /\ SinRepetir(s \o t, D)
<1> DEFINE c == s \o t
<1>1. /\ Len(c) = Len(s) + Len(t) /\ Len(s) \in Nat /\ Len(t) \in Nat
      /\ \A i \in 1 .. Len(s) : c[i] = s[i]
      /\ \A i \in Len(s) + 1 .. Len(c) : c[i] = t[i - Len(s)]
      /\ c \in Seq(Numeros)
  OBVIOUS
<1> HIDE DEF c
<1>2. \A i \in Len(s) + 1 .. Len(c) : i - Len(s) \in 1 .. Len(t)
  BY <1>1
<1>3. /\ \A i \in 1 .. Len(s) : s[i] \in ToSet(s)
      /\ \A i \in 1 .. Len(t) : t[i] \in ToSet(t)
  BY DEF ToSet
<1>4. ToSet(c) \subseteq ToSet(s) \cup ToSet(t)
  <2> SUFFICES ASSUME NEW i \in 1 .. Len(c) PROVE c[i] \in ToSet(s) \cup ToSet(t)
    BY <1>1 DEF ToSet
  <2>1. i \in 1 .. Len(s) \/ i \in Len(s) + 1 .. Len(c)
    BY <1>1
  <2> QED
    BY <1>1, <1>2, <1>3, <2>1
<1>5. ToSet(s) \cup ToSet(t) \subseteq ToSet(c)
  <2>1. \A i \in 1 .. Len(s) : i \in 1 .. Len(c) /\ s[i] = c[i]
    BY <1>1
  <2>2. \A i \in 1 .. Len(t) : \E j \in 1 .. Len(c) : t[i] = c[j]
    <3> TAKE i \in 1 .. Len(t)
    <3>1. PICK j \in Len(s) + 1 .. Len(c) : j - Len(s) = i
      <4>1. i + Len(s) \in Len(s) + 1 .. Len(c) /\ (i + Len(s)) - Len(s) = i
        BY <1>1
      <4> QED
        BY <4>1
    <3>2. c[j] = t[i] /\ j \in 1 .. Len(c)
      BY SMTT(20), <1>1, <3>1
    <3> QED
      BY <3>2
  <2>3. c \in Seq(Numeros) /\ DOMAIN c = 1 .. Len(c) /\ DOMAIN s = 1 .. Len(s)
        /\ DOMAIN t = 1 .. Len(t)
    BY <1>1
  <2> QED
    BY ZenonT(30), <2>1, <2>2, <2>3 DEF ToSet
<1>6. ASSUME NEW i \in 1 .. Len(c), NEW j \in 1 .. Len(c), c[i] = c[j], i # j
      PROVE  c[i] \in D
  <2>1. CASE i \in 1 .. Len(s) /\ j \in 1 .. Len(s)
    BY <1>1, <1>6, <2>1 DEF SinRepetir
  <2>2. CASE i \in Len(s) + 1 .. Len(c) /\ j \in Len(s) + 1 .. Len(c)
    <3>1. i - Len(s) # j - Len(s)
      BY <1>1, <1>6, <2>2
    <3> QED
      BY <1>1, <1>2, <1>6, <2>2, <3>1 DEF SinRepetir
  <2>3. CASE i \in 1 .. Len(s) /\ j \in Len(s) + 1 .. Len(c)
    BY <1>1, <1>2, <1>3, <1>6, <2>3
  <2>4. CASE j \in 1 .. Len(s) /\ i \in Len(s) + 1 .. Len(c)
    BY <1>1, <1>2, <1>3, <1>6, <2>4
  <2>5. /\ i \in 1 .. Len(s) \/ i \in Len(s) + 1 .. Len(c)
        /\ j \in 1 .. Len(s) \/ j \in Len(s) + 1 .. Len(c)
    BY <1>1
  <2> QED
    BY <2>1, <2>2, <2>3, <2>4, <2>5
<1> QED
  BY <1>4, <1>5, <1>6 DEF SinRepetir, c

-----------------------------------------------------------------------------
(* The owners of the blocks *)

LEMMA BorradoPor ==
    ASSUME tarea \in [Hilos -> Tareas], NEW n
    PROVE  Borrado(n) <=> \E h \in Hilos : tarea[h].de = "borrar" /\ tarea[h].archivo = n
<1>1. \A h \in Hilos : tarea[h] = Borrar(n) <=>
         tarea[h].de = "borrar" /\ tarea[h].archivo = n
  <2> TAKE h \in Hilos
  <2>1. tarea[h] \in Tareas
    OBVIOUS
  <2> QED
    BY <2>1, TareaTipo, Constructores
<1> QED
  BY <1>1 DEF Borrado

\* The same files stay whole.
LEMMA MismosEnteros ==
    ASSUME TInv, TInv', DOMAIN archivos' = DOMAIN archivos,
           \A h \in Hilos : tarea[h].de = "borrar" \/ tarea'[h].de = "borrar" =>
              tarea'[h] = tarea[h]
    PROVE  Enteros' = Enteros
<1>1. tarea \in [Hilos -> Tareas] /\ tarea' \in [Hilos -> Tareas]
  BY DEF TInv, TypeOK
<1>2. \A n : Borrado(n)' <=> \E h \in Hilos : tarea'[h].de = "borrar" /\ tarea'[h].archivo = n
  <2> TAKE n
  <2>1. \A h \in Hilos : tarea'[h] = Borrar(n) <=>
           tarea'[h].de = "borrar" /\ tarea'[h].archivo = n
    <3> TAKE h \in Hilos
    <3>1. tarea'[h] \in Tareas
      BY <1>1
    <3> QED
      BY <3>1, TareaTipo, Constructores
  <2> QED
    BY <2>1 DEF Borrado
<1>3. \A n : Borrado(n)' <=> Borrado(n)
  BY <1>1, <1>2, BorradoPor
<1> QED
  BY <1>3 DEF Enteros

\* Steps that touch neither bits nor lists.
LEMMA OrdenQuieto ==
    ASSUME IInv, TInv', UNCHANGED <<bitmap, archivos, tomados, dudosos, fugados>>,
           \A h \in Hilos : tarea[h].de = "borrar" \/ tarea'[h].de = "borrar" =>
              tarea'[h] = tarea[h]
    PROVE  Orden'
<1>1. Enteros' = Enteros
  BY MismosEnteros DEF IInv
<1>2. /\ \A n : DeArchivo(n)' = DeArchivo(n)
      /\ \A h : Suyos(h)' = Suyos(h)
  BY DEF DeArchivo, Suyos
<1>3. DelBorrado' /\ Marcados'
  BY <1>1, <1>2 DEF IInv, Orden, DelBorrado, Marcados, DeArchivo, Suyos
<1>4. UnDueno' /\ UnaVez'
  BY <1>1, <1>2 DEF IInv, Orden, UnDueno, UnaVez, DeArchivo, Suyos
<1>5. ConDueno'
  BY <1>1, <1>2 DEF IInv, Orden, ConDueno, DeArchivo, Suyos
<1> QED
  BY <1>3, <1>4, <1>5 DEF Orden

\* Storing the byte of b: outside of dudosos only the bit of b changes.
LEMMA GrabaEfecto ==
    ASSUME TInv, NEW h \in Hilos, NEW b \in Numeros, NEW conB \in SUBSET {b},
           leido[h] \subseteq Byte(b), Graba(h, b, conB),
           NEW D, dudosos \cup Deshechos(h, b) \subseteq D
    PROVE  /\ b \in bitmap' <=> b \in conB
           /\ \A c \in Numeros \ D : c # b => (c \in bitmap' <=> c \in bitmap)
<1>1. b \in Byte(b)
  BY DEF Byte
<1>2. bitmap' = (bitmap \ Byte(b)) \cup (leido[h] \ {b}) \cup conB
  BY DEF Graba
<1>3. b \in bitmap' <=> b \in conB
  BY <1>1, <1>2
<1>4. ASSUME NEW c \in Numeros \ D, c # b PROVE c \in bitmap' <=> c \in bitmap
  <2>1. CASE c \in Byte(b)
    <3>1. c \in bitmap <=> c \in leido[h]
      BY <1>4, <2>1 DEF Deshechos
    <3> QED
      BY <1>2, <1>4, <2>1, <3>1
  <2>2. CASE c \notin Byte(b)
    BY <1>2, <1>4, <2>2
  <2> QED
    BY <2>1, <2>2
<1> QED
  BY <1>3, <1>4

LEMMA SuyosTipo ==
    ASSUME TInv
    PROVE  /\ \A h \in Hilos : Suyos(h) \subseteq Numeros
           /\ \A n \in DOMAIN archivos : DeArchivo(n) \subseteq Numeros
           /\ Enteros \subseteq DOMAIN archivos
  BY DEF TInv, TypeOK, Suyos, DeArchivo, Archivo, ToSet, Enteros

LEMMA TomaO ==
    ASSUME IInv, TInv', NEW h \in Hilos, Toma(h)
    PROVE  Orden'
<1> DEFINE b == actual[h]
<1>1. TInv /\ DondeDe(h) /\ TypeOK
  BY DEF IInv, TInv, Donde
<1>2. /\ b \in Numeros /\ leido[h] \subseteq Byte(b) /\ tarea[h].de \in {"crear", "guardar"}
      /\ Graba(h, b, {b})
      /\ tomados[h] \in Seq(Numeros)
  BY <1>1 DEF Toma, DondeDe, TypeOK
<1>3. /\ dudosos' = dudosos \cup Deshechos(h, b) \cup (bitmap \cap {b})
      /\ UNCHANGED <<archivos, tarea, fugados>>
      /\ tomados'[h] = Append(tomados[h], b)
      /\ \A g \in Hilos : g # h => tomados'[g] = tomados[g]
  BY <1>1 DEF Toma, TypeOK
<1> HIDE DEF b
<1>4. /\ b \in bitmap' /\ (b \in bitmap => b \in dudosos') /\ dudosos \subseteq dudosos'
      /\ \A c \in Numeros \ dudosos' : c # b => (c \in bitmap' <=> c \in bitmap)
  BY <1>1, <1>2, <1>3, GrabaEfecto
<1>5. Enteros' = Enteros
  BY <1>1, <1>3, MismosEnteros
<1>6. /\ Marcados /\ UnDueno /\ UnaVez /\ ConDueno /\ DelBorrado
  BY DEF IInv, Orden
<1>7. Suyos(h) \subseteq bitmap \cup dudosos
  BY <1>6 DEF Marcados
<1>8. /\ ToSet(tomados'[h]) = Suyos(h) \cup {b}
      /\ SinRepetir(tomados'[h], dudosos')
  <2>1. SinRepetir(tomados[h], dudosos')
    BY <1>4, <1>6, RepetirMas DEF UnaVez
  <2>2. b \in ToSet(tomados[h]) => b \in dudosos'
    BY <1>4, <1>7 DEF Suyos
  <2> QED
    BY <1>2, <1>3, <2>1, <2>2, RepetirAppend DEF Suyos
<1>9. /\ Suyos(h)' = Suyos(h) \cup {b}
      /\ \A g \in Hilos : g # h => Suyos(g)' = Suyos(g)
      /\ \A n : DeArchivo(n)' = DeArchivo(n)
  BY <1>3, <1>8 DEF Suyos, DeArchivo
<1>10. DelBorrado'
  BY <1>2, <1>3, <1>6, <1>9 DEF DelBorrado
<1>11. Marcados'
  <2>1. \A n \in Enteros : DeArchivo(n) \subseteq bitmap' \cup dudosos'
    BY <1>1, <1>4, <1>6, SuyosTipo DEF Marcados
  <2>2. \A g \in Hilos : Suyos(g) \subseteq bitmap' \cup dudosos'
    BY <1>1, <1>4, <1>6, SuyosTipo DEF Marcados
  <2> QED
    BY <1>4, <1>5, <1>9, <2>1, <2>2 DEF Marcados
<1>12. UnDueno'
  <2>1. /\ \A n \in Enteros : b \in DeArchivo(n) => b \in dudosos'
        /\ \A g \in Hilos : b \in Suyos(g) => b \in dudosos'
    BY <1>4, <1>6 DEF Marcados
  <2>2. \A m, n \in Enteros : m # n => DeArchivo(m) \cap DeArchivo(n) \subseteq dudosos'
    BY <1>4, <1>6 DEF UnDueno
  <2>3. \A g, k \in Hilos : g # k => Suyos(g)' \cap Suyos(k)' \subseteq dudosos'
    <3> SUFFICES ASSUME NEW g \in Hilos, NEW k \in Hilos, g # k
                 PROVE  Suyos(g)' \cap Suyos(k)' \subseteq dudosos'
      OBVIOUS
    <3>1. Suyos(g) \cap Suyos(k) \subseteq dudosos
      BY <1>6 DEF UnDueno
    <3>2. Suyos(g)' \subseteq Suyos(g) \cup {b} /\ Suyos(k)' \subseteq Suyos(k) \cup {b}
      BY <1>9
    <3>3. (g # h => Suyos(g)' = Suyos(g)) /\ (k # h => Suyos(k)' = Suyos(k))
      BY <1>9
    <3> QED
      BY <1>4, <2>1, <3>1, <3>2, <3>3
  <2>4. \A n \in Enteros, g \in Hilos : DeArchivo(n) \cap Suyos(g)' \subseteq dudosos'
    <3> SUFFICES ASSUME NEW n \in Enteros, NEW g \in Hilos
                 PROVE  DeArchivo(n) \cap Suyos(g)' \subseteq dudosos'
      OBVIOUS
    <3>1. DeArchivo(n) \cap Suyos(g) \subseteq dudosos
      BY <1>6 DEF UnDueno
    <3>2. Suyos(g)' \subseteq Suyos(g) \cup {b}
      BY <1>9
    <3> QED
      BY <1>4, <2>1, <3>1, <3>2
  <2> QED
    BY <1>5, <1>9, <2>2, <2>3, <2>4 DEF UnDueno
<1>13. UnaVez'
  <2>1. \A n \in DOMAIN archivos : SinRepetir(archivos[n].bloques, dudosos')
    BY <1>4, <1>6, RepetirMas DEF UnaVez
  <2>2. \A g \in Hilos : g # h => SinRepetir(tomados'[g], dudosos')
    BY <1>3, <1>4, <1>6, RepetirMas DEF UnaVez
  <2> QED
    BY <1>3, <1>5, <1>8, <2>1, <2>2 DEF UnaVez
<1>14. ConDueno'
  <2> SUFFICES ASSUME NEW c \in bitmap'
               PROVE  \/ c \in dudosos' \cup fugados'
                      \/ \E n \in Enteros : c \in DeArchivo(n)
                      \/ \E g \in Hilos : c \in Suyos(g)'
    BY <1>5, <1>9 DEF ConDueno
  <2>1. CASE c = b
    BY <1>9, <2>1
  <2>2. CASE c # b /\ c \notin dudosos'
    <3>1. c \in bitmap
      BY <1>4, <2>2 DEF TInv, TypeOK
    <3>2. c \notin dudosos
      BY <1>4, <2>2
    <3>3. \A g \in Hilos : Suyos(g) \subseteq Suyos(g)'
      BY <1>9
    <3> QED
      BY <1>3, <1>6, <3>1, <3>2, <3>3 DEF ConDueno
  <2> QED
    BY <2>1, <2>2
<1> QED
  BY <1>10, <1>11, <1>12, <1>13, <1>14 DEF Orden

LEMMA SueltaO ==
    ASSUME IInv, TInv', NEW h \in Hilos, Suelta(h)
    PROVE  Orden'
<1> DEFINE b == Head(tomados[h])
<1>1. TInv /\ DondeDe(h) /\ TypeOK
  BY DEF IInv, TInv, Donde
<1>2. /\ leido[h] \subseteq Byte(b)
      /\ Graba(h, b, {})
      /\ tomados[h] \in Seq(Numeros) /\ tomados[h] # <<>>
  BY <1>1 DEF Suelta, DondeDe, TypeOK
<1>3. /\ dudosos' = dudosos \cup Deshechos(h, b)
      /\ UNCHANGED <<archivos, tarea, fugados>>
      /\ tomados'[h] = Tail(tomados[h])
      /\ \A g \in Hilos : g # h => tomados'[g] = tomados[g]
  BY <1>1 DEF Suelta, TypeOK
<1>4. /\ Marcados /\ UnDueno /\ UnaVez /\ ConDueno /\ DelBorrado
  BY DEF IInv, Orden
<1>5. SinRepetir(tomados[h], dudosos)
  BY <1>4 DEF UnaVez
<1>6. /\ b \in Numeros
      /\ Suyos(h) = {b} \cup ToSet(tomados'[h])
      /\ SinRepetir(tomados'[h], dudosos)
      /\ b \in ToSet(tomados'[h]) => b \in dudosos
  BY <1>2, <1>3, <1>5, RepetirTail DEF Suyos
<1> HIDE DEF b
<1>7. /\ b \notin bitmap' /\ dudosos \subseteq dudosos'
      /\ \A c \in Numeros \ dudosos' : c # b => (c \in bitmap' <=> c \in bitmap)
  BY <1>1, <1>2, <1>3, <1>6, GrabaEfecto
<1>8. Enteros' = Enteros
  BY <1>1, <1>3, MismosEnteros
<1>9. /\ Suyos(h) = {b} \cup Suyos(h)' /\ (b \in Suyos(h)' => b \in dudosos)
      /\ \A g \in Hilos : g # h => Suyos(g)' = Suyos(g)
      /\ \A g \in Hilos : Suyos(g)' \subseteq Suyos(g)
      /\ \A n : DeArchivo(n)' = DeArchivo(n)
  BY <1>3, <1>6 DEF Suyos, DeArchivo
<1>10. DelBorrado'
  BY <1>3, <1>4, <1>9 DEF DelBorrado
<1>11. /\ \A n \in Enteros : b \in DeArchivo(n) => b \in dudosos
       /\ \A g \in Hilos : b \in Suyos(g)' => b \in dudosos
  BY <1>4, <1>9 DEF UnDueno
<1>12. Marcados'
  <2>1. \A n \in Enteros : DeArchivo(n) \subseteq bitmap' \cup dudosos'
    <3> SUFFICES ASSUME NEW n \in Enteros, NEW c \in DeArchivo(n), c \notin dudosos'
                 PROVE  c \in bitmap'
      OBVIOUS
    <3>1. c # b /\ c \in Numeros /\ c \in bitmap
      BY <1>1, <1>4, <1>7, <1>11, SuyosTipo DEF Marcados
    <3> QED
      BY <1>7, <3>1
  <2>2. \A g \in Hilos : Suyos(g)' \subseteq bitmap' \cup dudosos'
    <3> SUFFICES ASSUME NEW g \in Hilos, NEW c \in Suyos(g)', c \notin dudosos'
                 PROVE  c \in bitmap'
      OBVIOUS
    <3>1. c # b /\ c \in Numeros /\ c \in bitmap
      BY <1>1, <1>4, <1>7, <1>9, <1>11, SuyosTipo DEF Marcados
    <3> QED
      BY <1>7, <3>1
  <2> QED
    BY <1>8, <1>9, <2>1, <2>2 DEF Marcados
<1>13. UnDueno'
  BY <1>4, <1>7, <1>8, <1>9 DEF UnDueno
<1>14. UnaVez'
  <2>1. \A n \in DOMAIN archivos : SinRepetir(archivos[n].bloques, dudosos')
    BY <1>4, <1>7, RepetirMas DEF UnaVez
  <2>2. \A g \in Hilos : SinRepetir(tomados'[g], dudosos')
    BY <1>3, <1>4, <1>6, <1>7, RepetirMas DEF UnaVez
  <2> QED
    BY <1>3, <1>8, <2>1, <2>2 DEF UnaVez
<1>15. ConDueno'
  <2> SUFFICES ASSUME NEW c \in bitmap', c \notin dudosos'
               PROVE  \/ c \in fugados'
                      \/ \E n \in Enteros : c \in DeArchivo(n)
                      \/ \E g \in Hilos : c \in Suyos(g)'
    BY <1>8, <1>9 DEF ConDueno
  <2>1. c # b /\ c \in bitmap /\ c \notin dudosos
    BY <1>7 DEF TInv, TypeOK
  <2>2. \A g \in Hilos : c \in Suyos(g) => c \in Suyos(g)'
    BY <1>9, <2>1
  <2> QED
    BY <1>3, <1>4, <2>1, <2>2 DEF ConDueno
<1> QED
  BY <1>10, <1>12, <1>13, <1>14, <1>15 DEF Orden

\* A thread that has nothing to clean or to give away, and no file to remove, ends.
LEMMA SinNada == ToSet(<<>>) = {} /\ \A D : SinRepetir(<<>>, D)
  BY DEF ToSet, SinRepetir

LEMMA LlamaBorrarO ==
    ASSUME IInv, TInv', LlamaBorrar
    PROVE  Orden'
<1> DEFINE h == "serie"
<1>1. PICK n \in DOMAIN archivos : Empieza(h, "limpia", Borrar(n), archivos[n].bloques)
  BY DEF LlamaBorrar
<1>2. /\ h \in Hilos /\ TypeOK /\ TInv /\ DondeDe(h)
      /\ tarea \in [Hilos -> Tareas] /\ tarea' \in [Hilos -> Tareas]
  BY DEF IInv, TInv, Donde, TypeOK, Hilos
<1>3. /\ tarea[h] = Libre /\ tomados[h] = <<>>
      /\ tarea'[h] = Borrar(n) /\ tomados'[h] = archivos[n].bloques
      /\ \A g \in Hilos : g # h => tarea'[g] = tarea[g] /\ tomados'[g] = tomados[g]
      /\ UNCHANGED <<bitmap, archivos, dudosos, fugados>>
  BY <1>1, <1>2 DEF Empieza, DondeDe, TypeOK, LlamaBorrar, disco
<1>4. \A g \in Hilos : tarea[g].de # "borrar"
  BY <1>2, <1>3, Constructores DEF TypeOK
<1>5. Enteros = DOMAIN archivos
  BY <1>2, <1>4, BorradoPor DEF Enteros
<1>6. Enteros' = Enteros \ {n}
  <2>1. \A g \in Hilos : g # h => tarea'[g].de # "borrar"
    BY <1>3, <1>4
  <2>2. \A m : (\E g \in Hilos : tarea'[g] = Borrar(m)) <=> m = n
    BY <1>2, <1>3, <2>1, Constructores
  <2> QED
    BY <1>3, <1>5, <2>2 DEF Enteros, Borrado
<1> HIDE DEF h
<1>7. /\ Suyos(h) = {} /\ Suyos(h)' = DeArchivo(n)
      /\ \A g \in Hilos : g # h => Suyos(g)' = Suyos(g)
      /\ \A m : DeArchivo(m)' = DeArchivo(m)
  BY <1>3, SinNada DEF Suyos, DeArchivo
<1>8. /\ Marcados /\ UnDueno /\ UnaVez /\ ConDueno
  BY DEF IInv, Orden
<1>9. DelBorrado'
  BY <1>3, <1>4, <1>7, Constructores DEF DelBorrado
<1>10. Marcados'
  BY <1>3, <1>5, <1>6, <1>7, <1>8 DEF Marcados
<1>11. UnDueno'
  <2>1. /\ \A l, m \in Enteros' : l # m => DeArchivo(l) \cap DeArchivo(m) \subseteq dudosos
        /\ \A m \in Enteros' : DeArchivo(m) \cap DeArchivo(n) \subseteq dudosos
    BY <1>5, <1>6, <1>8 DEF UnDueno
  <2>2. \A g, k \in Hilos : g # k => Suyos(g)' \cap Suyos(k)' \subseteq dudosos
    <3> SUFFICES ASSUME NEW g \in Hilos, NEW k \in Hilos, g # k
                 PROVE  Suyos(g)' \cap Suyos(k)' \subseteq dudosos
      OBVIOUS
    <3>1. \A f \in Hilos : DeArchivo(n) \cap Suyos(f) \subseteq dudosos
      BY <1>5, <1>8 DEF UnDueno
    <3>2. Suyos(g) \cap Suyos(k) \subseteq dudosos
      BY <1>8 DEF UnDueno
    <3> QED
      BY <1>7, <3>1, <3>2
  <2>3. \A m \in Enteros', g \in Hilos : DeArchivo(m) \cap Suyos(g)' \subseteq dudosos
    BY <1>6, <1>7, <1>8, <2>1 DEF UnDueno
  <2> QED
    BY <1>3, <1>7, <2>1, <2>2, <2>3 DEF UnDueno
<1>12. UnaVez'
  BY <1>3, <1>5, <1>6, <1>8 DEF UnaVez
<1>13. ConDueno'
  BY <1>2, <1>3, <1>6, <1>7, <1>8 DEF ConDueno
<1> QED
  BY <1>9, <1>10, <1>11, <1>12, <1>13 DEF Orden

LEMMA SinLugarParaGuardarO ==
    ASSUME IInv, TInv', NEW h \in Hilos, SinLugarParaGuardar(h)
    PROVE  Orden'
<1>1. /\ TInv /\ TypeOK /\ Termina(h)
      /\ fugados' = fugados \cup ToSet(tomados[h])
      /\ tarea[h].de = "guardar"
      /\ UNCHANGED <<bitmap, archivos, dudosos>>
  BY DEF IInv, TInv, SinLugarParaGuardar, disco
<1>2. /\ tarea'[h] = Libre /\ tomados'[h] = <<>>
      /\ \A g \in Hilos : g # h => tarea'[g] = tarea[g] /\ tomados'[g] = tomados[g]
  BY <1>1, TerminaTipos DEF Otros
<1>3. Enteros' = Enteros
  BY <1>1, <1>2, Constructores, MismosEnteros
<1>4. /\ Suyos(h)' = {}
      /\ \A g \in Hilos : g # h => Suyos(g)' = Suyos(g)
      /\ \A m : DeArchivo(m)' = DeArchivo(m)
      /\ fugados' = fugados \cup Suyos(h)
  BY <1>1, <1>2, SinNada DEF Suyos, DeArchivo
<1>5. /\ Marcados /\ UnDueno /\ UnaVez /\ ConDueno /\ DelBorrado
  BY DEF IInv, Orden
<1>6. DelBorrado'
  BY <1>2, <1>4, <1>5, Constructores DEF DelBorrado
<1>7. Marcados'
  BY <1>1, <1>3, <1>4, <1>5 DEF Marcados
<1>8. UnDueno'
  BY <1>1, <1>3, <1>4, <1>5 DEF UnDueno
<1>9. UnaVez'
  BY <1>1, <1>2, <1>3, <1>5, SinNada DEF UnaVez
<1>10. ConDueno'
  BY <1>1, <1>3, <1>4, <1>5 DEF ConDueno
<1> QED
  BY <1>6, <1>7, <1>8, <1>9, <1>10 DEF Orden

LEMMA GuardaConfigO ==
    ASSUME IInv, TInv', GuardaConfig
    PROVE  Orden'
<1> DEFINE h == "serie"
           t == tarea[h]
<1>0. PICK f : f = t.archivo
  OBVIOUS
<1>1. /\ h \in Hilos /\ TInv /\ TypeOK /\ DondeDe(h)
  BY DEF IInv, TInv, Donde, Hilos
<1>2. t.de = "guardar" /\ Termina(h)
  BY <1>1 DEF GuardaConfig, DondeDe
<1>3. /\ f \in DOMAIN archivos
      /\ archivos' = [archivos EXCEPT ![f] =
                         [tamanio |-> TamanioDe(t), bloques |-> BloquesDe(t)]]
      /\ BloquesDe(t) = archivos[f].bloques \o tomados[h]
      /\ UNCHANGED <<bitmap, dudosos, fugados>>
  BY <1>0, <1>1, <1>2, Lugar DEF GuardaConfig, BloquesDe
<1>4. /\ tarea'[h] = Libre /\ tomados'[h] = <<>>
      /\ \A g \in Hilos : g # h => tarea'[g] = tarea[g] /\ tomados'[g] = tomados[g]
  BY <1>1, <1>2, TerminaTipos DEF Otros
<1>5. \A g \in Hilos : tarea[g].de # "borrar"
  BY <1>1, <1>2 DEF TypeOK
<1> HIDE DEF h
<1>6. DOMAIN archivos' = DOMAIN archivos
  BY <1>3
<1>7. Enteros' = Enteros /\ f \in Enteros
  <2>1. Enteros' = Enteros
    BY <1>1, <1>4, <1>5, <1>6, Constructores, MismosEnteros DEF t
  <2>2. f \in Enteros
    BY <1>1, <1>3, <1>5, BorradoPor DEF Enteros, TypeOK
  <2> QED
    BY <2>1, <2>2
<1>8. /\ Marcados /\ UnDueno /\ UnaVez /\ ConDueno /\ DelBorrado
  BY DEF IInv, Orden
<1>9. /\ archivos[f].bloques \in Seq(Numeros) /\ tomados[h] \in Seq(Numeros)
      /\ SinRepetir(archivos[f].bloques, dudosos) /\ SinRepetir(tomados[h], dudosos)
      /\ ToSet(archivos[f].bloques) \cap ToSet(tomados[h]) \subseteq dudosos
  <2>1. DeArchivo(f) \cap Suyos(h) \subseteq dudosos
    BY <1>1, <1>7, <1>8 DEF UnDueno
  <2> QED
    BY <1>1, <1>3, <1>7, <1>8, <2>1 DEF TypeOK, Archivo, UnaVez, DeArchivo, Suyos
<1>10. /\ archivos'[f].bloques = archivos[f].bloques \o tomados[h]
       /\ \A m \in DOMAIN archivos : m # f => archivos'[m] = archivos[m]
  BY <1>1, <1>3
<1>11. /\ ToSet(archivos'[f].bloques) = DeArchivo(f) \cup Suyos(h)
       /\ SinRepetir(archivos'[f].bloques, dudosos)
  BY <1>9, <1>10, RepetirJuntos DEF DeArchivo, Suyos
<1>12. /\ Suyos(h)' = {} /\ DeArchivo(f)' = DeArchivo(f) \cup Suyos(h)
       /\ \A g \in Hilos : g # h => Suyos(g)' = Suyos(g)
       /\ \A m \in Enteros : m # f => DeArchivo(m)' = DeArchivo(m)
  BY <1>4, <1>10, <1>11, SinNada DEF Suyos, DeArchivo, Enteros
<1>13. DelBorrado'
  BY <1>4, <1>5, Constructores DEF DelBorrado
<1>14. Marcados'
  BY <1>1, <1>3, <1>7, <1>8, <1>12 DEF Marcados
<1>15. UnDueno'
  <2>1. \A l, m \in Enteros : l # m => DeArchivo(l)' \cap DeArchivo(m)' \subseteq dudosos
    <3> SUFFICES ASSUME NEW l \in Enteros, NEW m \in Enteros, l # m
                 PROVE  DeArchivo(l)' \cap DeArchivo(m)' \subseteq dudosos
      OBVIOUS
    <3>1. /\ DeArchivo(l) \cap DeArchivo(m) \subseteq dudosos
          /\ DeArchivo(l) \cap Suyos(h) \subseteq dudosos
          /\ DeArchivo(m) \cap Suyos(h) \subseteq dudosos
      BY <1>1, <1>8 DEF UnDueno
    <3>2. /\ l # f => DeArchivo(l)' = DeArchivo(l)
          /\ m # f => DeArchivo(m)' = DeArchivo(m)
      BY <1>12
    <3>3. /\ DeArchivo(l)' \subseteq DeArchivo(l) \cup Suyos(h)
          /\ DeArchivo(m)' \subseteq DeArchivo(m) \cup Suyos(h)
      BY <1>12, <3>2
    <3> QED
      BY <3>1, <3>2, <3>3
  <2>2. \A g, k \in Hilos : g # k => Suyos(g)' \cap Suyos(k)' \subseteq dudosos
    BY <1>8, <1>12 DEF UnDueno
  <2>3. \A m \in Enteros, g \in Hilos : DeArchivo(m)' \cap Suyos(g)' \subseteq dudosos
    <3> SUFFICES ASSUME NEW m \in Enteros, NEW g \in Hilos
                 PROVE  DeArchivo(m)' \cap Suyos(g)' \subseteq dudosos
      OBVIOUS
    <3>1. CASE g = h
      BY <1>12, <3>1
    <3>2. CASE g # h
      <4>1. /\ DeArchivo(m) \cap Suyos(g) \subseteq dudosos
            /\ Suyos(h) \cap Suyos(g) \subseteq dudosos
        BY <1>1, <1>8, <3>2 DEF UnDueno
      <4>2. DeArchivo(m)' \subseteq DeArchivo(m) \cup Suyos(h) /\ Suyos(g)' = Suyos(g)
        BY <1>12, <3>2
      <4> QED
        BY <4>1, <4>2
    <3> QED
      BY <3>1, <3>2
  <2> QED
    BY <1>3, <1>7, <2>1, <2>2, <2>3 DEF UnDueno
<1>16. UnaVez'
  <2>1. \A m \in DOMAIN archivos : SinRepetir(archivos'[m].bloques, dudosos)
    <3> SUFFICES ASSUME NEW m \in DOMAIN archivos PROVE SinRepetir(archivos'[m].bloques, dudosos)
      OBVIOUS
    <3>1. CASE m = f
      BY <1>11, <3>1
    <3>2. CASE m # f
      BY <1>8, <1>10, <3>2 DEF UnaVez
    <3> QED
      BY <3>1, <3>2
  <2>2. \A g \in Hilos : SinRepetir(tomados'[g], dudosos)
    BY <1>4, <1>8, SinNada DEF UnaVez
  <2> QED
    BY <1>3, <1>7, <2>1, <2>2 DEF UnaVez
<1>17. ConDueno'
  <2> SUFFICES ASSUME NEW c \in bitmap, c \notin dudosos \cup fugados
               PROVE  \/ \E n \in Enteros : c \in DeArchivo(n)'
                      \/ \E g \in Hilos : c \in Suyos(g)'
    BY <1>3, <1>7 DEF ConDueno
  <2>1. \/ \E n \in Enteros : c \in DeArchivo(n)
        \/ \E g \in Hilos : c \in Suyos(g)
    BY <1>8 DEF ConDueno
  <2>2. \A n \in Enteros : DeArchivo(n) \subseteq DeArchivo(n)'
    BY <1>12
  <2>3. Suyos(h) \subseteq DeArchivo(f)'
    BY <1>12
  <2> QED
    BY <1>7, <1>12, <2>1, <2>2, <2>3
<1> QED
  BY <1>13, <1>14, <1>15, <1>16, <1>17 DEF Orden

LEMMA CreaArchivoO ==
    ASSUME IInv, TInv', NEW h \in Hilos, CreaArchivo(h)
    PROVE  Orden'
<1>1. TInv /\ TypeOK /\ DondeDe(h) /\ CuentasDe(h)
  BY DEF IInv, TInv, Donde, Cuentas
<1>2. PICK n \in tarea[h].nombres :
         /\ archivos' = [m \in DOMAIN archivos \cup {n} |->
                            IF m = n
                            THEN [tamanio |-> 0, bloques |-> <<Head(tomados[h])>>]
                            ELSE archivos[m]]
         /\ \/ /\ tarea[h].nombres # {n}
               /\ tarea' = [tarea EXCEPT ![h] = Crear(tarea[h].nombres \ {n})]
               /\ tomados' = [tomados EXCEPT ![h] = Tail(@)]
            \/ /\ tarea[h].nombres = {n}
               /\ Termina(h)
  BY DEF CreaArchivo
<1>3. UNCHANGED <<bitmap, dudosos, fugados>> /\ est[h] = "crea"
  BY DEF CreaArchivo
<1> DEFINE S == tarea[h].nombres
           b == Head(tomados[h])
<1>4. /\ tarea[h].de = "crear" /\ S \in SUBSET Nombres /\ IsFiniteSet(S) /\ S # {}
      /\ tomados[h] \in Seq(Numeros) /\ Len(tomados[h]) = Cardinality(S)
  BY <1>1, <1>3, TareaTipo, NombresFinitos DEF DondeDe, CuentasDe, TypeOK
<1>5. tomados[h] # <<>>
  BY <1>4, NombresFinitos
<1>6. /\ Marcados /\ UnDueno /\ UnaVez /\ ConDueno /\ DelBorrado
  BY DEF IInv, Orden
<1>7. /\ b \in Numeros /\ Suyos(h) = {b} \cup ToSet(Tail(tomados[h]))
      /\ SinRepetir(Tail(tomados[h]), dudosos)
      /\ b \in ToSet(Tail(tomados[h])) => b \in dudosos
  BY <1>4, <1>5, <1>6, RepetirTail DEF UnaVez, Suyos
<1>8. /\ \A g \in Hilos : g # h => tarea'[g] = tarea[g] /\ tomados'[g] = tomados[g]
      /\ tarea'[h].de # "borrar"
      /\ tomados'[h] = Tail(tomados[h])
  <2>1. CASE S # {n}
    BY <1>1, <1>2, <2>1, Constructores DEF TypeOK
  <2>2. CASE S = {n}
    <3>1. Len(tomados[h]) = 1
      BY <1>4, <2>2, FS_Singleton
    <3>2. Tail(tomados[h]) \in Seq(Numeros) /\ Len(Tail(tomados[h])) = 0
      BY <1>4, <1>5, <3>1
    <3>3. Tail(tomados[h]) = <<>>
      BY <3>2, EmptySeq
    <3> QED
      BY <1>1, <1>2, <2>2, <3>3, TerminaTipos, Constructores DEF Otros
  <2> QED
    BY <2>1, <2>2
<1> HIDE DEF b
<1>9. /\ n \notin DOMAIN archivos
      /\ DOMAIN archivos' = DOMAIN archivos \cup {n}
      /\ archivos'[n].bloques = <<b>>
      /\ \A m \in DOMAIN archivos : archivos'[m] = archivos[m]
  BY <1>1, <1>2, <1>4 DEF TInv, Nuevos, b
<1>10. Enteros' = Enteros \cup {n}
  <2>1. /\ tarea \in [Hilos -> Tareas] /\ tarea' \in [Hilos -> Tareas]
    BY <1>1 DEF TInv, TypeOK
  <2>2. \A m : (\E g \in Hilos : tarea'[g] = Borrar(m)) <=> (\E g \in Hilos : tarea[g] = Borrar(m))
    BY <1>4, <1>8, Constructores
  <2>3. ~Borrado(n)
    <3>1. \A g \in Hilos : tarea[g].de = "borrar" => tarea[g].archivo # n
      BY <1>1, <1>9 DEF TypeOK
    <3> QED
      BY <2>1, <3>1, BorradoPor
  <2>4. \A m : Borrado(m)' <=> Borrado(m)
    BY <2>2 DEF Borrado
  <2> QED
    BY <1>9, <2>3, <2>4 DEF Enteros
<1>11. /\ DeArchivo(n)' = {b}
       /\ \A m \in DOMAIN archivos : DeArchivo(m)' = DeArchivo(m)
       /\ Suyos(h) = {b} \cup Suyos(h)' /\ (b \in Suyos(h)' => b \in dudosos)
       /\ \A g \in Hilos : g # h => Suyos(g)' = Suyos(g)
       /\ \A g \in Hilos : Suyos(g)' \subseteq Suyos(g)
       /\ Enteros \subseteq DOMAIN archivos
  <2>1. ToSet(<<b>>) = {b}
    BY DEF ToSet
  <2> QED
    BY <1>7, <1>8, <1>9, <2>1 DEF DeArchivo, Suyos, Enteros
<1>12. DelBorrado'
  <2> SUFFICES ASSUME NEW g \in Hilos, tarea'[g].de = "borrar"
               PROVE  Suyos(g)' \subseteq DeArchivo(tarea[g].archivo)' /\ tarea'[g] = tarea[g]
    BY DEF DelBorrado, DeArchivo
  <2>1. g # h /\ tarea'[g] = tarea[g]
    BY <1>8
  <2>2. tarea[g].archivo \in DOMAIN archivos
    BY <1>1, <2>1 DEF TypeOK
  <2>3. PICK f : f = tarea[g].archivo
    OBVIOUS
  <2>4. tarea'[g].archivo = f
    BY <2>1, <2>3
  <2>5. Suyos(g)' \subseteq DeArchivo(f)'
    BY <1>6, <1>11, <2>1, <2>2, <2>3 DEF DelBorrado
  <2> QED
    BY <2>1, <2>3, <2>4, <2>5 DEF DeArchivo
<1>13. Marcados'
  <2>1. b \in bitmap \cup dudosos
    BY <1>6, <1>11 DEF Marcados
  <2> QED
    BY <1>3, <1>6, <1>10, <1>11, <2>1 DEF Marcados
<1>14. UnDueno'
  <2>1. /\ \A m \in Enteros : b \in DeArchivo(m) => b \in dudosos
        /\ \A g \in Hilos : b \in Suyos(g)' => b \in dudosos
    BY <1>6, <1>11 DEF UnDueno
  <2>2. \A l, m \in Enteros' : l # m => DeArchivo(l)' \cap DeArchivo(m)' \subseteq dudosos
    <3> SUFFICES ASSUME NEW l \in Enteros', NEW m \in Enteros', l # m
                 PROVE  DeArchivo(l)' \cap DeArchivo(m)' \subseteq dudosos
      OBVIOUS
    <3>1. CASE l = n
      BY <1>10, <1>11, <2>1, <3>1
    <3>2. CASE m = n
      BY <1>10, <1>11, <2>1, <3>2
    <3>3. CASE l # n /\ m # n
      BY <1>6, <1>10, <1>11, <3>3 DEF UnDueno
    <3> QED
      BY <3>1, <3>2, <3>3
  <2>3. \A g, k \in Hilos : g # k => Suyos(g)' \cap Suyos(k)' \subseteq dudosos
    BY <1>6, <1>11 DEF UnDueno
  <2>4. \A m \in Enteros', g \in Hilos : DeArchivo(m)' \cap Suyos(g)' \subseteq dudosos
    <3> SUFFICES ASSUME NEW m \in Enteros', NEW g \in Hilos
                 PROVE  DeArchivo(m)' \cap Suyos(g)' \subseteq dudosos
      OBVIOUS
    <3>1. CASE m = n
      BY <1>11, <2>1, <3>1
    <3>2. CASE m # n
      BY <1>6, <1>10, <1>11, <3>2 DEF UnDueno
    <3> QED
      BY <3>1, <3>2
  <2> QED
    BY <1>3, <2>2, <2>3, <2>4 DEF UnDueno
<1>15. UnaVez'
  <2>1. SinRepetir(<<b>>, dudosos)
    BY DEF SinRepetir
  <2>2. \A m \in DOMAIN archivos' : SinRepetir(archivos'[m].bloques, dudosos)
    <3> SUFFICES ASSUME NEW m \in DOMAIN archivos' PROVE SinRepetir(archivos'[m].bloques, dudosos)
      OBVIOUS
    <3>1. CASE m = n
      BY <1>9, <2>1, <3>1
    <3>2. CASE m # n
      BY <1>6, <1>9, <3>2 DEF UnaVez
    <3> QED
      BY <3>1, <3>2
  <2>3. \A g \in Hilos : SinRepetir(tomados'[g], dudosos)
    BY <1>6, <1>7, <1>8 DEF UnaVez
  <2> QED
    BY <1>3, <2>2, <2>3 DEF UnaVez
<1>16. ConDueno'
  <2> SUFFICES ASSUME NEW c \in bitmap, c \notin dudosos \cup fugados
               PROVE  \/ \E m \in Enteros' : c \in DeArchivo(m)'
                      \/ \E g \in Hilos : c \in Suyos(g)'
    BY <1>3 DEF ConDueno
  <2>1. \/ \E m \in Enteros : c \in DeArchivo(m)
        \/ \E g \in Hilos : c \in Suyos(g)
    BY <1>6 DEF ConDueno
  <2>2. CASE \E m \in Enteros : c \in DeArchivo(m)
    BY <1>10, <1>11, <2>2
  <2>3. CASE \E g \in Hilos : c \in Suyos(g)
    <3>1. PICK g \in Hilos : c \in Suyos(g)
      BY <2>3
    <3>2. CASE c \in Suyos(g)'
      BY <3>2
    <3>3. CASE c \notin Suyos(g)'
      <4>1. c = b
        BY <1>11, <3>1, <3>3
      <4>2. c \in DeArchivo(n)' /\ n \in Enteros'
        BY <1>10, <1>11, <4>1
      <4> QED
        BY <4>2
    <3> QED
      BY <3>2, <3>3
  <2> QED
    BY <2>1, <2>2, <2>3
<1> QED
  BY <1>12, <1>13, <1>14, <1>15, <1>16 DEF Orden

LEMMA TerminaDeLimpiarO ==
    ASSUME IInv, TInv', NEW h \in Hilos, TerminaDeLimpiar(h)
    PROVE  Orden'
<1>1. /\ TInv /\ TypeOK /\ Termina(h) /\ DondeDe(h)
      /\ est[h] = "limpia" /\ tomados[h] = <<>>
      /\ UNCHANGED <<bitmap, dudosos, fugados>>
  BY DEF IInv, TInv, Donde, TerminaDeLimpiar
<1> DEFINE quedan == IF tarea[h].de = "borrar"
                     THEN DOMAIN archivos \ {tarea[h].archivo}
                     ELSE DOMAIN archivos
<1>2. DOMAIN archivos' = quedan /\ \A m \in quedan : archivos'[m] = archivos[m]
  BY DEF TerminaDeLimpiar
<1>3. /\ tarea'[h] = Libre /\ tomados' = tomados
      /\ \A g \in Hilos : g # h => tarea'[g] = tarea[g]
  BY <1>1, TerminaTipos DEF Otros, TypeOK, Termina
<1>4. /\ tarea \in [Hilos -> Tareas] /\ tarea[h] \in Tareas
  BY <1>1 DEF TypeOK
<1>5. Enteros' = Enteros
  <2>1. CASE tarea[h].de = "borrar"
    <3>1. \A g \in Hilos : g # h => tarea[g].de # "borrar"
      BY <1>1, <2>1 DEF TypeOK
    <3>2. \A m : Borrado(m) <=> m = tarea[h].archivo
      BY <1>4, <2>1, <3>1, BorradoPor
    <3>3. \A g \in Hilos : tarea'[g].de # "borrar"
      BY <1>3, <3>1, Constructores
    <3>4. \A m : ~ \E g \in Hilos : tarea'[g] = Borrar(m)
      BY <3>3, Constructores
    <3> QED
      BY <1>2, <2>1, <3>2, <3>4 DEF Enteros, Borrado
  <2>2. CASE tarea[h].de # "borrar"
    BY <1>1, <1>2, <1>3, <2>2, Constructores, MismosEnteros
  <2> QED
    BY <2>1, <2>2
<1>6. Enteros \subseteq quedan
  BY <1>2, <1>5 DEF Enteros
<1> HIDE DEF quedan
<1>7. /\ \A g : Suyos(g)' = Suyos(g)
      /\ \A m \in Enteros : DeArchivo(m)' = DeArchivo(m) /\ archivos'[m] = archivos[m]
  BY <1>2, <1>3, <1>6 DEF Suyos, DeArchivo
<1>8. /\ Marcados /\ UnDueno /\ UnaVez /\ ConDueno /\ DelBorrado
  BY DEF IInv, Orden
<1>9. DelBorrado'
  <2> SUFFICES ASSUME NEW g \in Hilos, tarea'[g].de = "borrar"
               PROVE  Suyos(g)' \subseteq ToSet(archivos'[tarea'[g].archivo].bloques)
    BY DEF DelBorrado, DeArchivo
  <2>1. g # h /\ tarea'[g] = tarea[g]
    BY <1>3, Constructores
  <2>2. tarea[h].de # "borrar" /\ tarea[g].archivo \in DOMAIN archivos
    BY <1>1, <2>1 DEF TypeOK
  <2>3. archivos'[tarea[g].archivo] = archivos[tarea[g].archivo]
    BY <1>2, <2>2 DEF quedan
  <2> QED
    BY <1>7, <1>8, <2>1, <2>3 DEF DelBorrado, DeArchivo
<1>10. Marcados'
  BY <1>1, <1>5, <1>7, <1>8 DEF Marcados
<1>11. UnDueno'
  BY <1>1, <1>5, <1>7, <1>8 DEF UnDueno
<1>12. UnaVez'
  BY <1>1, <1>2, <1>3, <1>8 DEF UnaVez, quedan
<1>13. ConDueno'
  BY <1>1, <1>5, <1>7, <1>8 DEF ConDueno
<1> QED
  BY <1>9, <1>10, <1>11, <1>12, <1>13 DEF Orden

LEMMA CaidaO ==
    ASSUME IInv, TInv', Caida
    PROVE  Orden'
<1>1. /\ TInv /\ TypeOK /\ tarea \in [Hilos -> Tareas]
      /\ UNCHANGED <<bitmap, archivos>>
      /\ \A h \in Hilos : tarea'[h] = Libre /\ tomados'[h] = <<>>
      /\ fugados' = fugados \cup UNION {Reservados(h) : h \in Hilos}
      /\ dudosos' = dudosos \cup UNION {Limpiados(h) : h \in Hilos}
  BY DEF IInv, TInv, TypeOK, Caida, disco
<1>2. /\ Marcados /\ UnDueno /\ UnaVez /\ ConDueno /\ DelBorrado
  BY DEF IInv, Orden
<1>3. Enteros' = DOMAIN archivos
  <2>1. \A m : ~ \E h \in Hilos : tarea'[h] = Borrar(m)
    <3> SUFFICES ASSUME NEW m, NEW h \in Hilos, tarea'[h] = Borrar(m) PROVE FALSE
      OBVIOUS
    <3>1. Libre = Borrar(m)
      BY <1>1
    <3> QED
      BY <3>1, Constructores
  <2> QED
    BY <1>1, <2>1 DEF Enteros, Borrado
<1>4. /\ \A h \in Hilos : Suyos(h)' = {}
      /\ \A n : DeArchivo(n)' = DeArchivo(n)
  BY <1>1, SinNada DEF Suyos, DeArchivo
<1>5. dudosos \subseteq dudosos' /\ fugados \subseteq fugados'
  BY <1>1
\* A file that was being removed: what was cleaned is doubtful.
<1>6. ASSUME NEW n \in DOMAIN archivos, n \notin Enteros
      PROVE  \E h \in Hilos : /\ tarea[h].de = "borrar" /\ tarea[h].archivo = n
                              /\ h = "serie"
                              /\ DeArchivo(n) \subseteq Suyos(h) \cup dudosos'
  <2>1. PICK h \in Hilos : tarea[h].de = "borrar" /\ tarea[h].archivo = n
    BY <1>1, <1>6, BorradoPor DEF Enteros
  <2>2. DeArchivo(n) \ Suyos(h) \subseteq Limpiados(h)
    BY <2>1 DEF Limpiados, Suyos
  <2>3. h = "serie"
    BY <1>1, <2>1 DEF TypeOK
  <2>4. Limpiados(h) \subseteq dudosos'
    BY <1>1
  <2> QED
    BY <2>1, <2>2, <2>3, <2>4
<1>7. DelBorrado'
  BY <1>1, Constructores DEF DelBorrado
<1>8. Marcados'
  <2>1. ASSUME NEW n \in DOMAIN archivos PROVE DeArchivo(n) \subseteq bitmap \cup dudosos'
    <3>1. CASE n \in Enteros
      BY <1>2, <1>5, <3>1 DEF Marcados
    <3>2. CASE n \notin Enteros
      BY <1>2, <1>5, <1>6, <3>2 DEF Marcados
    <3> QED
      BY <3>1, <3>2
  <2> QED
    BY <1>1, <1>3, <1>4, <2>1 DEF Marcados
<1>9. UnDueno'
  <2>1. ASSUME NEW m \in DOMAIN archivos, NEW n \in DOMAIN archivos, m # n
        PROVE  DeArchivo(m) \cap DeArchivo(n) \subseteq dudosos'
    <3>1. CASE m \in Enteros /\ n \in Enteros
      BY <1>2, <1>5, <2>1, <3>1 DEF UnDueno
    <3>2. CASE m \in Enteros /\ n \notin Enteros
      <4>1. \A h \in Hilos : DeArchivo(m) \cap Suyos(h) \subseteq dudosos
        BY <1>2, <3>2 DEF UnDueno
      <4> QED
        BY <1>5, <1>6, <3>2, <4>1
    <3>3. CASE m \notin Enteros /\ n \in Enteros
      <4>1. \A h \in Hilos : DeArchivo(n) \cap Suyos(h) \subseteq dudosos
        BY <1>2, <3>3 DEF UnDueno
      <4> QED
        BY <1>5, <1>6, <3>3, <4>1
    <3>4. CASE m \notin Enteros /\ n \notin Enteros
      <4>1. tarea["serie"].archivo = m /\ tarea["serie"].archivo = n
        BY <1>6, <3>4
      <4> QED
        BY <2>1, <4>1
    <3> QED
      BY <3>1, <3>2, <3>3, <3>4
  <2> QED
    BY <1>3, <1>4, <2>1 DEF UnDueno
<1>10. UnaVez'
  <2>1. \A n \in DOMAIN archivos : SinRepetir(archivos[n].bloques, dudosos')
    BY <1>2, <1>5, RepetirMas DEF UnaVez
  <2>2. \A h \in Hilos : SinRepetir(tomados'[h], dudosos')
    BY <1>1, SinNada
  <2> QED
    BY <1>1, <2>1, <2>2 DEF UnaVez
<1>11. ConDueno'
  <2> SUFFICES ASSUME NEW c \in bitmap, c \notin dudosos' \cup fugados'
               PROVE  \E n \in DOMAIN archivos : c \in DeArchivo(n)
    BY <1>1, <1>3, <1>4 DEF ConDueno
  <2>1. \/ \E n \in Enteros : c \in DeArchivo(n)
        \/ \E h \in Hilos : c \in Suyos(h)
    BY <1>2, <1>5 DEF ConDueno
  <2>2. ASSUME NEW h \in Hilos, c \in Suyos(h)
        PROVE  \E n \in DOMAIN archivos : c \in DeArchivo(n)
    <3>1. c \notin Reservados(h)
      BY <1>1
    <3>2. tarea[h] \in Tareas
      BY <1>1
    <3>3. tarea[h].de = "borrar"
      <4>1. tarea[h].de = "nada" => est[h] = "libre"
        BY <1>1 DEF TInv, TypeOK, Donde, DondeDe
      <4>2. est[h] = "libre" => Suyos(h) = {}
        BY <1>1, SinNada DEF TInv, Donde, DondeDe, Suyos
      <4> QED
        BY <2>2, <3>1, <3>2, <4>1, <4>2, TareaTipo DEF Reservados, Suyos
    <3>4. tarea[h].archivo \in DOMAIN archivos /\ c \in DeArchivo(tarea[h].archivo)
      BY <1>1, <1>2, <2>2, <3>3 DEF TypeOK, DelBorrado
    <3> QED
      BY <3>4
  <2> QED
    BY <2>1, <2>2 DEF Enteros
<1> QED
  BY <1>7, <1>8, <1>9, <1>10, <1>11 DEF Orden

-----------------------------------------------------------------------------
(* The invariant *)

LEMMA InitO == Init => IInv
<1> SUFFICES ASSUME Init PROVE IInv
  OBVIOUS
<1>1. TInv
  BY InitT
<1>2. /\ \A h \in Hilos : tarea[h] = Libre /\ tomados[h] = <<>> /\ Suyos(h) = {}
      /\ DOMAIN archivos = {} /\ bitmap = {}
  BY SinNada DEF Init, Suyos
<1>3. Orden
  BY <1>2, SinNada, Constructores
     DEF Orden, DelBorrado, Marcados, UnDueno, UnaVez, ConDueno, Enteros
<1> QED
  BY <1>1, <1>3 DEF IInv

LEMMA PasoO == IInv /\ [Next]_vars => IInv'
<1> SUFFICES ASSUME IInv, [Next]_vars PROVE IInv'
  OBVIOUS
<1>0. TInv /\ TInv' /\ TypeOK
  BY PasoT DEF IInv, TInv
<1>1. ASSUME NEW h \in Hilos, LlamaCrear(h) PROVE Orden'
  <2>1. PICK S : Empieza(h, "busca", Crear(S), <<>>)
    BY <1>1 DEF LlamaCrear
  <2>2. tarea[h] = Libre /\ tomados[h] = <<>>
    BY <1>0, <2>1 DEF Empieza, TInv, Donde, DondeDe
  <2>3. /\ tomados' = tomados /\ tarea'[h] = Crear(S)
        /\ \A g \in Hilos : g # h => tarea'[g] = tarea[g]
    BY <1>0, <2>1, <2>2 DEF Empieza, TypeOK
  <2> QED
    BY <1>0, <1>1, <2>2, <2>3, Constructores, OrdenQuieto DEF LlamaCrear, disco
<1>2. ASSUME NEW h \in Hilos, Ocupado(h) PROVE Orden'
  BY <1>0, <1>2, OrdenQuieto DEF Ocupado, disco
<1>3. ASSUME NEW h \in Hilos, Hallado(h) PROVE Orden'
  BY <1>0, <1>3, OrdenQuieto DEF Hallado, disco
<1>4. ASSUME NEW h \in Hilos, SinLugarParaCrear(h) PROVE Orden'
  BY <1>0, <1>4, OrdenQuieto DEF SinLugarParaCrear, disco
<1>5. ASSUME NEW h \in Hilos, SinLugarParaGuardar(h) PROVE Orden'
  BY <1>0, <1>5, SinLugarParaGuardarO
<1>6. ASSUME NEW h \in Hilos, CargaParaTomar(h) \/ CargaParaLimpiar(h) PROVE Orden'
  BY <1>0, <1>6, OrdenQuieto DEF CargaParaTomar, CargaParaLimpiar, CargaPara, disco
<1>7. ASSUME NEW h \in Hilos, Toma(h) PROVE Orden'
  BY <1>0, <1>7, TomaO
<1>8. ASSUME NEW h \in Hilos, Suelta(h) PROVE Orden'
  BY <1>0, <1>8, SueltaO
<1>9. ASSUME NEW h \in Hilos, TerminaDeLimpiar(h) PROVE Orden'
  BY <1>0, <1>9, TerminaDeLimpiarO
<1>10. ASSUME NEW h \in Hilos, CreaArchivo(h) PROVE Orden'
  BY <1>0, <1>10, CreaArchivoO
<1>11. ASSUME LlamaBorrar PROVE Orden'
  BY <1>0, <1>11, LlamaBorrarO
<1>12. ASSUME LlamaGuardar PROVE Orden'
  <2>1. PICK t : Empieza("serie", "escribe", t, <<>>) /\ t.de = "guardar"
    BY <1>12 DEF LlamaGuardar
  <2>2. "serie" \in Hilos
    BY DEF Hilos
  <2>3. tarea["serie"] = Libre /\ tomados["serie"] = <<>>
    BY <1>0, <2>1, <2>2 DEF Empieza, TInv, Donde, DondeDe
  <2>4. /\ tomados' = tomados /\ tarea'["serie"] = t
        /\ \A g \in Hilos : g # "serie" => tarea'[g] = tarea[g]
    BY <1>0, <2>1, <2>2, <2>3 DEF Empieza, TypeOK
  <2> QED
    BY <1>0, <1>12, <2>1, <2>3, <2>4, Constructores, OrdenQuieto DEF LlamaGuardar, disco
<1>13. ASSUME PideBloque PROVE Orden'
  BY <1>0, <1>13, OrdenQuieto DEF PideBloque, disco
<1>14. ASSUME Escribe PROVE Orden'
  <2>1. /\ UNCHANGED <<bitmap, archivos, tomados, dudosos, fugados>>
        /\ \A g \in Hilos : g # "serie" => tarea'[g] = tarea[g]
        /\ est["serie"] = "escribe" /\ est' = est
    BY <1>0, <1>14 DEF Escribe, EscribeDesde, TypeOK
  <2>2. tarea["serie"].de = "guardar" /\ tarea'["serie"].de = "guardar"
    BY <1>0, <2>1 DEF TInv, Donde, DondeDe, Hilos
  <2> QED
    BY <1>0, <2>1, <2>2, OrdenQuieto
<1>15. ASSUME GuardaConfig PROVE Orden'
  BY <1>0, <1>15, GuardaConfigO
<1>16. ASSUME Caida PROVE Orden'
  BY <1>0, <1>16, CaidaO
<1>17. ASSUME UNCHANGED vars PROVE Orden'
  BY <1>0, <1>17, OrdenQuieto DEF vars, disco, hilos
<1>18. Orden'
  BY <1>1, <1>2, <1>3, <1>4, <1>5, <1>6, <1>7, <1>8, <1>9, <1>10, <1>11, <1>12, <1>13,
     <1>14, <1>15, <1>16, <1>17 DEF Next
<1> QED
  BY <1>0, <1>18 DEF IInv

LEMMA Exclusividad == IInv => Exclusivos
<1> SUFFICES ASSUME IInv PROVE Exclusivos
  OBVIOUS
<1>1. \A h : Reservados(h) \subseteq Suyos(h)
  BY DEF Reservados, Suyos
<1> QED
  BY <1>1 DEF IInv, Orden, UnDueno, Exclusivos, Enteros

LEMMA Cuidado == IInv => SinFugas
<1> SUFFICES ASSUME IInv, NEW b \in bitmap, b \notin dudosos \cup fugados
             PROVE  \/ \E n \in DOMAIN archivos : b \in DeArchivo(n)
                    \/ \E h \in Hilos : b \in Reservados(h)
  <2> DEFINE listados == UNION {DeArchivo(n) : n \in DOMAIN archivos}
             reservados == UNION {Reservados(h) : h \in Hilos}
  <2>1. /\ \A c : (\E n \in DOMAIN archivos : c \in DeArchivo(n)) => c \in listados
        /\ \A c : (\E h \in Hilos : c \in Reservados(h)) => c \in reservados
    OBVIOUS
  <2>2. SinFugas <=> bitmap \ (dudosos \cup fugados) \subseteq listados \cup reservados
    BY DEF SinFugas
  <2> HIDE DEF listados, reservados
  <2> QED
    BY <2>1, <2>2
<1>1. TInv /\ TypeOK /\ DelBorrado /\ ConDueno
  BY DEF IInv, TInv, Orden
<1>2. CASE \E n \in Enteros : b \in DeArchivo(n)
  BY <1>2 DEF Enteros
<1>3. ASSUME NEW h \in Hilos, b \in Suyos(h)
      PROVE  \/ \E n \in DOMAIN archivos : b \in DeArchivo(n)
             \/ b \in Reservados(h)
  <2>1. tarea[h] \in Tareas
    BY <1>1 DEF TypeOK
  <2>2. CASE tarea[h].de \in {"crear", "guardar"}
    BY <1>3, <2>2 DEF Reservados, Suyos
  <2>3. CASE tarea[h].de = "borrar"
    BY <1>1, <1>3, <2>3 DEF DelBorrado, TypeOK
  <2>4. CASE tarea[h].de = "nada"
    <3>1. est[h] = "libre"
      BY <1>1, <2>4 DEF TInv, TypeOK, Donde, DondeDe
    <3>2. Suyos(h) = {}
      BY <1>1, <3>1, SinNada DEF TInv, Donde, DondeDe, Suyos
    <3> QED
      BY <1>3, <3>2
  <2> QED
    BY <2>1, <2>2, <2>3, <2>4, TareaTipo
<1> QED
  BY <1>1, <1>2, <1>3 DEF ConDueno

\* A block is never of two files, nor of a file and of a call that took it, for
\* any number of CREATEs at once and of stops, but for those whose bit two threads
\* changed at once or that were cleaned for a file that stayed (filesystem.c:281, 355
\* and 503-517).
THEOREM DeUnSoloArchivo == Spec => []Exclusivos
<1> QED
  BY InitO, PasoO, Exclusividad, PTL DEF Spec

\* No block stays taken without a file that lists it or a call that holds it, but
\* for those and for what guardarDatos took before it found no room or the process
\* stopped (filesystem.c:191-215, 288-296 and 553-562).
THEOREM NingunoSePierde == Spec => []SinFugas
<1> QED
  BY InitO, PasoO, Cuidado, PTL DEF Spec

-----------------------------------------------------------------------------
(* The bytes are where they were saved *)

\* A byte that fits is in one of the blocks.
LEMMA Cabe ==
    ASSUME NEW s \in Seq(Numeros), NEW p \in Nat, p < BLOCK_SIZE * Len(s)
    PROVE  /\ p \div BLOCK_SIZE \in Nat /\ (p \div BLOCK_SIZE) + 1 \in 1 .. Len(s)
           /\ p % BLOCK_SIZE \in Nat /\ (p % BLOCK_SIZE) + 1 \in 1 .. BLOCK_SIZE
           /\ s[(p \div BLOCK_SIZE) + 1] \in Numeros
           /\ s[(p \div BLOCK_SIZE) + 1] \in ToSet(s)
<1>1. PICK d \in Nat \ {0} : d = BLOCK_SIZE
  BY BlocksAssumption
<1>2. PICK l \in Nat : l = Len(s)
  OBVIOUS
<1>3. p < d * l
  BY <1>1, <1>2
<1>4. p \div d \in Nat /\ p \div d < l
  BY <1>3
<1>5. p % d \in 0 .. d - 1
  OBVIOUS
<1>6. (p \div d) + 1 \in 1 .. l /\ p % d \in Nat /\ (p % d) + 1 \in 1 .. d
  BY <1>4, <1>5
<1>7. \A i \in 1 .. l : s[i] \in Numeros /\ s[i] \in ToSet(s)
  BY <1>2 DEF ToSet
<1> QED
  BY <1>1, <1>2, <1>4, <1>6, <1>7

\* More doubtful blocks.
LEMMA LlegaDudosos ==
    ASSUME NEW c, NEW s, NEW p, NEW g, NEW k, NEW D, NEW E,
           D \subseteq E, Llega(c, s, p, g, k, D)
    PROVE  Llega(c, s, p, g, k, E)
  BY DEF Llega

\* A list that begins as another.
Continua(j, s) == Len(s) <= Len(j) /\ \A i \in 1 .. Len(s) : j[i] = s[i]

LEMMA ContinuaJunto ==
    ASSUME NEW s \in Seq(Numeros), NEW z \in Seq(Numeros)
    PROVE  s \o z \in Seq(Numeros) /\ Continua(s \o z, s)
<1> DEFINE j == s \o z
<1>1. /\ j \in Seq(Numeros) /\ Len(j) = Len(s) + Len(z)
      /\ \A i \in 1 .. Len(s) + Len(z) : j[i] = IF i <= Len(s) THEN s[i] ELSE z[i - Len(s)]
      /\ Len(s) \in Nat /\ Len(z) \in Nat
  BY ConcatProperties
<1> HIDE DEF j
<1>2. ASSUME NEW i \in 1 .. Len(s) PROVE j[i] = s[i]
  <2>1. i \in 1 .. Len(s) + Len(z) /\ i <= Len(s)
    BY <1>1
  <2> QED
    BY <1>1, <2>1
<1>3. j \in Seq(Numeros) /\ Continua(j, s)
  BY <1>1, <1>2 DEF Continua
<1> QED
  BY <1>3 DEF j

LEMMA EmpiezaSubconjunto ==
    ASSUME NEW s \in Seq(Numeros), NEW j \in Seq(Numeros), Continua(j, s)
    PROVE  ToSet(s) \subseteq ToSet(j)
<1> SUFFICES ASSUME NEW i \in 1 .. Len(s) PROVE s[i] \in ToSet(j)
  BY DEF ToSet
<1>1. i \in 1 .. Len(j) /\ j[i] = s[i]
  BY DEF Continua
<1> QED
  BY <1>1 DEF ToSet

LEMMA LlegaMasBloques ==
    ASSUME NEW c, NEW s \in Seq(Numeros), NEW j \in Seq(Numeros), Continua(j, s),
           NEW p \in Nat, NEW g, NEW k \in Nat, NEW D, Llega(c, s, p, g, k, D)
    PROVE  Llega(c, j, p, g, k, D)
<1>1. p + k <= BLOCK_SIZE * Len(j)
  <2>1. PICK l \in Nat, m \in Nat, d \in Nat : l = Len(s) /\ m = Len(j) /\ d = BLOCK_SIZE
    BY BlocksAssumption
  <2>2. l <= m /\ p + k <= d * l
    BY <2>1 DEF Continua, Llega
  <2>3. d * l <= d * m /\ d * l \in Nat /\ d * m \in Nat
    BY <2>2
  <2> QED
    BY <2>1, <2>2, <2>3
<1>2. ASSUME ToSet(j) \cap D = {}, NEW i \in 0 .. k - 1
      PROVE  ByteDe(c, j, p + i) = g[i + 1]
  <2>1. ByteDe(c, s, p + i) = g[i + 1]
    BY <1>2, EmpiezaSubconjunto DEF Llega
  <2>2. p + i \in Nat /\ p + i < BLOCK_SIZE * Len(s)
    <3>1. PICK x : x = BLOCK_SIZE * Len(s)
      OBVIOUS
    <3>2. x \in Nat
      BY <3>1, BlocksAssumption
    <3> QED
      BY <3>1, <3>2 DEF Llega
  <2>3. ((p + i) \div BLOCK_SIZE) + 1 \in 1 .. Len(s)
    BY <2>2, Cabe
  <2>4. j[((p + i) \div BLOCK_SIZE) + 1] = s[((p + i) \div BLOCK_SIZE) + 1]
    BY <2>3 DEF Continua
  <2> QED
    BY <2>1, <2>4 DEF ByteDe
<1> QED
  BY <1>1, <1>2 DEF Llega

\* The bytes of a file and those that come after them.
LEMMA LlegaJunto ==
    ASSUME NEW c, NEW s \in Seq(Numeros), NEW j \in Seq(Numeros), Continua(j, s), NEW D,
           NEW g \in Seq(Nat), NEW w \in Seq(Nat),
           Llega(c, s, 0, g, Len(g), D), Llega(c, j, Len(g), w, Len(w), D)
    PROVE  Llega(c, j, 0, g \o w, Len(g \o w), D)
<1>1. PICK m \in Nat, k \in Nat : m = Len(g) /\ k = Len(w)
  OBVIOUS
<1>2. Llega(c, j, 0, g, m, D)
  BY <1>1, LlegaMasBloques
<1>3. /\ Len(g \o w) = m + k
      /\ \A i \in 1 .. m + k : (g \o w)[i] = IF i <= m THEN g[i] ELSE w[i - m]
  BY <1>1, ConcatProperties
<1> DEFINE z == g \o w
<1> HIDE DEF z
<1>4. 0 + (m + k) <= BLOCK_SIZE * Len(j)
  BY <1>1 DEF Llega
<1>5. ASSUME ToSet(j) \cap D = {}, NEW i \in 0 .. (m + k) - 1
      PROVE  ByteDe(c, j, 0 + i) = z[i + 1]
  <2>1. CASE i + 1 <= m
    <3>1. i \in 0 .. m - 1 /\ i + 1 \in 1 .. m + k
      BY <1>1, <2>1
    <3> QED
      BY <1>2, <1>3, <1>5, <2>1, <3>1 DEF Llega, z
  <2>2. CASE ~(i + 1 <= m)
    <3>1. PICK a : a = i - m
      OBVIOUS
    <3>2. /\ a \in 0 .. k - 1 /\ i + 1 \in 1 .. m + k /\ m + a = 0 + i
          /\ (i + 1) - m = a + 1
      BY <1>1, <2>2, <3>1
    <3>3. ByteDe(c, j, m + a) = w[a + 1]
      BY <1>1, <1>5, <3>2 DEF Llega
    <3>4. z[i + 1] = w[a + 1]
      <4>1. PICK x \in 1 .. m + k : x = i + 1
        BY <3>2
      <4>2. z[x] = w[x - m]
        BY <1>3, <2>2, <4>1 DEF z
      <4> QED
        BY <3>2, <4>1, <4>2
    <3> QED
      BY <3>2, <3>3, <3>4
  <2> QED
    BY <2>1, <2>2
<1> QED
  BY <1>3, <1>4, <1>5 DEF Llega, z

\* A block is written from offset on, with the cant elements of w that follow the
\* first e of them.
Escrito(c, b, offset, cant, w, e) ==
    [c EXCEPT ![b] = [o \in 1 .. BLOCK_SIZE |->
                         IF o \in offset + 1 .. offset + cant
                         THEN w[e + o - offset]
                         ELSE c[b][o]]]

Contenidos == [Numeros -> [1 .. BLOCK_SIZE -> Nat]]

LEMMA EscritoEs ==
    ASSUME NEW c \in Contenidos, NEW b \in Numeros, NEW offset \in Nat, NEW cant \in Nat,
           NEW w, NEW e \in Nat
    PROVE  /\ \A x \in Numeros : x # b => Escrito(c, b, offset, cant, w, e)[x] = c[x]
           /\ \A o \in 1 .. BLOCK_SIZE : o <= offset =>
                 Escrito(c, b, offset, cant, w, e)[b][o] = c[b][o]
<1> DEFINE f == [o \in 1 .. BLOCK_SIZE |->
                    IF o \in offset + 1 .. offset + cant
                    THEN w[e + o - offset]
                    ELSE c[b][o]]
           n == Escrito(c, b, offset, cant, w, e)
<1>1. n[b] = f /\ \A x \in Numeros : x # b => n[x] = c[x]
  BY DEF Escrito, Contenidos
<1> HIDE DEF n
<1>2. ASSUME NEW o \in 1 .. BLOCK_SIZE, o <= offset PROVE f[o] = c[b][o]
  <2>1. ~(o \in offset + 1 .. offset + cant)
    BY <1>2
  <2> QED
    BY <2>1
<1> HIDE DEF f
<1> QED
  BY <1>1, <1>2 DEF n

LEMMA EscritoAhi ==
    ASSUME NEW c \in Contenidos, NEW b \in Numeros, NEW offset \in Nat, NEW cant \in Nat,
           NEW w, NEW e \in Nat, NEW o \in 1 .. BLOCK_SIZE, o \in offset + 1 .. offset + cant
    PROVE  Escrito(c, b, offset, cant, w, e)[b][o] = w[e + o - offset]
<1> DEFINE f == [x \in 1 .. BLOCK_SIZE |->
                    IF x \in offset + 1 .. offset + cant
                    THEN w[e + x - offset]
                    ELSE c[b][x]]
<1>1. Escrito(c, b, offset, cant, w, e)[b] = f
  BY DEF Escrito, Contenidos
<1>2. f[o] = w[e + o - offset]
  OBVIOUS
<1> HIDE DEF f
<1> QED
  BY <1>1, <1>2

\* What is not written stays: a byte of another block, or one before the place.
LEMMA EscritoAntes ==
    ASSUME NEW c \in Contenidos, NEW s \in Seq(Numeros), NEW b \in Numeros, NEW T \in Nat,
           NEW cant \in Nat, NEW w, NEW e \in Nat, NEW p \in Nat,
           p < BLOCK_SIZE * Len(s),
           s[(p \div BLOCK_SIZE) + 1] = b => p \div BLOCK_SIZE = T \div BLOCK_SIZE /\ p < T
    PROVE  ByteDe(Escrito(c, b, T % BLOCK_SIZE, cant, w, e), s, p) = ByteDe(c, s, p)
<1> DEFINE n == Escrito(c, b, T % BLOCK_SIZE, cant, w, e)
<1>1. PICK d \in Nat \ {0} : d = BLOCK_SIZE
  BY BlocksAssumption
<1>2. PICK q, r, k, offset : /\ q = p \div BLOCK_SIZE /\ r = p % BLOCK_SIZE
                             /\ k = T \div BLOCK_SIZE /\ offset = T % BLOCK_SIZE
  OBVIOUS
<1>3. /\ p = d * q + r /\ T = d * k + offset
      /\ q \in Nat /\ r \in 0 .. d - 1 /\ k \in Nat /\ offset \in 0 .. d - 1
  <2>1. p = d * (p \div d) + (p % d) /\ p \div d \in Nat /\ p % d \in 0 .. d - 1
    OBVIOUS
  <2>2. T = d * (T \div d) + (T % d) /\ T \div d \in Nat /\ T % d \in 0 .. d - 1
    OBVIOUS
  <2> QED
    BY <1>1, <1>2, <2>1, <2>2
<1>4. s[q + 1] \in Numeros /\ r + 1 \in 1 .. BLOCK_SIZE
  BY <1>2, Cabe
<1>5. /\ \A x \in Numeros : x # b => n[x] = c[x]
      /\ \A o \in 1 .. BLOCK_SIZE : o <= offset => n[b][o] = c[b][o]
  <2>1. offset \in Nat /\ n = Escrito(c, b, offset, cant, w, e)
    BY <1>2, <1>3
  <2> HIDE DEF n
  <2> QED
    BY <2>1, EscritoEs
<1> HIDE DEF n
<1>6. n[s[q + 1]][r + 1] = c[s[q + 1]][r + 1]
  <2>1. CASE s[q + 1] = b
    <3>1. q = k /\ p < T
      BY <1>2, <2>1
    <3>2. r + 1 <= offset
      <4>1. PICK x : x = d * k
        OBVIOUS
      <4>2. x \in Nat /\ p = x + r /\ T = x + offset
        BY <1>3, <3>1, <4>1
      <4> QED
        BY <1>3, <3>1, <4>2
    <3> QED
      BY <1>4, <1>5, <2>1, <3>2
  <2>2. CASE s[q + 1] # b
    BY <1>4, <1>5, <2>2
  <2> QED
    BY <2>1, <2>2
<1> QED
  BY <1>2, <1>6 DEF ByteDe, n

\* What is written is read there, and fits.
LEMMA EscritoDespues ==
    ASSUME NEW c \in Contenidos, NEW s \in Seq(Numeros), NEW T \in Nat, NEW cant \in Nat,
           NEW w, NEW e \in Nat, NEW b \in Numeros,
           T \div BLOCK_SIZE < Len(s), b = s[(T \div BLOCK_SIZE) + 1],
           (T % BLOCK_SIZE) + cant <= BLOCK_SIZE
    PROVE  /\ T + cant <= BLOCK_SIZE * Len(s)
           /\ \A q \in T .. T + cant - 1 :
                 ByteDe(Escrito(c, b, T % BLOCK_SIZE, cant, w, e), s, q) = w[e + (q - T) + 1]
<1> DEFINE n == Escrito(c, b, T % BLOCK_SIZE, cant, w, e)
<1>1. PICK d \in Nat \ {0} : d = BLOCK_SIZE
  BY BlocksAssumption
<1>2. PICK k \in Nat, offset \in Nat : k = T \div BLOCK_SIZE /\ offset = T % BLOCK_SIZE
  <2>1. T \div d \in Nat /\ T % d \in 0 .. d - 1
    OBVIOUS
  <2>2. T % d \in Nat
    BY <2>1
  <2> QED
    BY <1>1, <2>1, <2>2
<1>3. T = d * k + offset /\ k \in Nat /\ offset \in 0 .. d - 1
  <2>1. T = d * (T \div d) + (T % d) /\ T \div d \in Nat /\ T % d \in 0 .. d - 1
    OBVIOUS
  <2> QED
    BY <1>1, <1>2, <2>1
<1>4. T + cant <= BLOCK_SIZE * Len(s)
  <2>1. PICK l \in Nat : l = Len(s)
    OBVIOUS
  <2>2. k + 1 <= l
    BY <1>2, <1>3, <2>1
  <2>3. PICK q \in Nat : l = (k + 1) + q
    <3>1. l - (k + 1) \in Nat /\ l = (k + 1) + (l - (k + 1))
      BY <1>3, <2>2
    <3> QED
      BY <3>1
  <2>4. /\ d * ((k + 1) + q) = d * (k + 1) + d * q /\ d * (k + 1) = d * k + d
        /\ d * k \in Nat /\ d * q \in Nat
    BY <1>3
  <2>5. PICK x \in Nat, y \in Nat : x = d * k /\ y = d * q
    BY <2>4
  <2>6. d * l = x + d + y /\ T = x + offset
    BY <1>3, <2>3, <2>4, <2>5
  <2>7. offset + cant <= d
    BY <1>1, <1>2
  <2> QED
    BY <1>1, <1>3, <2>1, <2>5, <2>6, <2>7
<1>5. ASSUME NEW i \in 0 .. cant - 1, offset + i + 1 \in 1 .. BLOCK_SIZE
      PROVE  n[b][offset + i + 1] = w[e + i + 1]
  <2>1. offset \in Nat /\ n = Escrito(c, b, offset, cant, w, e)
    BY <1>2, <1>3
  <2> HIDE DEF n
  <2>2. PICK o \in 1 .. BLOCK_SIZE : o = offset + i + 1
    BY <1>5
  <2>3. o \in offset + 1 .. offset + cant /\ e + o - offset = e + i + 1
    BY <2>1, <2>2
  <2>4. Escrito(c, b, offset, cant, w, e)[b][o] = w[e + o - offset]
    BY <2>1, <2>3, EscritoAhi
  <2> QED
    BY <2>1, <2>2, <2>3, <2>4
<1> HIDE DEF n
<1>6. ASSUME NEW i \in 0 .. cant - 1 PROVE ByteDe(n, s, T + i) = w[e + i + 1]
  <2>1. PICK r : r = offset + i
    OBVIOUS
  <2>2. r \in 0 .. d - 1 /\ T + i = d * k + r /\ r + 1 \in 1 .. BLOCK_SIZE
    BY SMTT(20), <1>1, <1>2, <1>3, <2>1
  <2>3. (d * k + r) \div d = k /\ (d * k + r) % d = r
    BY <1>3, <2>2
  <2>4. n[b][r + 1] = w[e + i + 1]
    BY <1>5, <2>1, <2>2
  <2> QED
    BY <1>1, <1>2, <2>2, <2>3, <2>4 DEF ByteDe
<1>7. ASSUME NEW q \in T .. T + cant - 1 PROVE ByteDe(n, s, q) = w[e + (q - T) + 1]
  <2>1. PICK i \in 0 .. cant - 1 : i = q - T /\ q = T + i
    <3>1. q - T \in 0 .. cant - 1 /\ q = T + (q - T)
      OBVIOUS
    <3> QED
      BY <3>1
  <2> QED
    BY <1>6, <2>1
<1> QED
  BY <1>4, <1>7 DEF n

LEMMA LlegaAntes ==
    ASSUME NEW c \in Contenidos, NEW s \in Seq(Numeros), NEW b \in Numeros, NEW T \in Nat,
           NEW cant \in Nat, NEW w, NEW e \in Nat,
           NEW p \in Nat, NEW g, NEW k \in Nat, NEW D, Llega(c, s, p, g, k, D),
           ToSet(s) \cap D = {} =>
              \A i \in 1 .. Len(s) : s[i] = b => i = (T \div BLOCK_SIZE) + 1 /\ p + k <= T
    PROVE  Llega(Escrito(c, b, T % BLOCK_SIZE, cant, w, e), s, p, g, k, D)
<1> DEFINE n == Escrito(c, b, T % BLOCK_SIZE, cant, w, e)
<1>1. ASSUME ToSet(s) \cap D = {}, NEW i \in 0 .. k - 1
      PROVE  ByteDe(n, s, p + i) = g[i + 1]
  <2>1. PICK x : x = BLOCK_SIZE * Len(s)
    OBVIOUS
  <2>2. x \in Nat /\ p + k <= x
    BY <2>1, BlocksAssumption DEF Llega
  <2>3. PICK q \in Nat : q = p + i /\ q < x /\ q < p + k
    BY <2>2
  <2>4. (q \div BLOCK_SIZE) + 1 \in 1 .. Len(s) /\ q \div BLOCK_SIZE \in Nat
    BY <2>1, <2>3, Cabe
  <2>5. T \div BLOCK_SIZE \in Nat
    BY Dividir, BlocksAssumption
  <2>6. s[(q \div BLOCK_SIZE) + 1] = b => q \div BLOCK_SIZE = T \div BLOCK_SIZE /\ q < T
    <3> SUFFICES ASSUME s[(q \div BLOCK_SIZE) + 1] = b
                 PROVE  q \div BLOCK_SIZE = T \div BLOCK_SIZE /\ q < T
      OBVIOUS
    <3>1. (q \div BLOCK_SIZE) + 1 = (T \div BLOCK_SIZE) + 1 /\ p + k <= T
      BY <1>1, <2>4
    <3> QED
      BY <2>3, <2>4, <2>5, <3>1
  <2>7. ByteDe(n, s, q) = ByteDe(c, s, q)
    BY <2>1, <2>3, <2>6, EscritoAntes
  <2>8. ByteDe(c, s, q) = g[i + 1]
    BY <1>1, <2>3 DEF Llega
  <2> QED
    BY <2>3, <2>7, <2>8
<1> HIDE DEF n
<1>2. p + k <= BLOCK_SIZE * Len(s)
  BY DEF Llega
<1>3. Llega(n, s, p, g, k, D)
  BY <1>1, <1>2 DEF Llega
<1> QED
  BY <1>3 DEF n

\* The bytes that follow those that are there.
LEMMA LlegaMas ==
    ASSUME NEW c \in Contenidos, NEW s \in Seq(Numeros), NEW b \in Numeros, NEW T \in Nat,
           NEW cant \in Nat, NEW g, NEW k \in Nat, NEW p \in Nat, NEW D,
           Llega(c, s, p, g, k, D), T = p + k,
           T \div BLOCK_SIZE < Len(s), b = s[(T \div BLOCK_SIZE) + 1],
           (T % BLOCK_SIZE) + cant <= BLOCK_SIZE, SinRepetir(s, D)
    PROVE  Llega(Escrito(c, b, T % BLOCK_SIZE, cant, g, k), s, p, g, k + cant, D)
<1> DEFINE n == Escrito(c, b, T % BLOCK_SIZE, cant, g, k)
<1>1. /\ T + cant <= BLOCK_SIZE * Len(s)
      /\ \A q \in T .. T + cant - 1 : ByteDe(n, s, q) = g[k + (q - T) + 1]
  BY SMTT(20), EscritoDespues
<1>2. Llega(n, s, p, g, k, D)
  <2>1. ASSUME ToSet(s) \cap D = {}, NEW i \in 1 .. Len(s), s[i] = b
        PROVE  i = (T \div BLOCK_SIZE) + 1 /\ p + k <= T
    <3>1. T \div BLOCK_SIZE \in Nat
      BY Dividir, BlocksAssumption
    <3>2. (T \div BLOCK_SIZE) + 1 \in 1 .. Len(s)
      BY <3>1
    <3>3. s[i] \in ToSet(s)
      BY DEF ToSet
    <3> QED
      BY <2>1, <3>2, <3>3 DEF SinRepetir
  <2> QED
    BY <2>1, LlegaAntes
<1> HIDE DEF n
<1>3. p + (k + cant) <= BLOCK_SIZE * Len(s)
  <2>1. p + (k + cant) = T + cant
    OBVIOUS
  <2> QED
    BY <1>1, <2>1
<1>4. ASSUME ToSet(s) \cap D = {}, NEW i \in 0 .. (k + cant) - 1
      PROVE  ByteDe(n, s, p + i) = g[i + 1]
  <2>1. CASE i < k
    <3>1. i \in 0 .. k - 1
      BY <2>1
    <3> QED
      BY <1>2, <1>4, <3>1 DEF Llega
  <2>2. CASE ~(i < k)
    <3>1. PICK a \in 0 .. cant - 1 : i = k + a
      <4>1. i - k \in 0 .. cant - 1 /\ i = k + (i - k)
        BY <2>2
      <4> QED
        BY <4>1
    <3>2. PICK q \in T .. T + cant - 1 : q = p + i /\ k + (q - T) + 1 = i + 1
      <4>1. T + a \in T .. T + cant - 1 /\ T + a = p + i /\ k + ((T + a) - T) + 1 = i + 1
        BY <3>1
      <4> QED
        BY <4>1
    <3> QED
      BY <1>1, <3>2
  <2> QED
    BY <2>1, <2>2
<1>5. Llega(n, s, p, g, k + cant, D)
  BY <1>3, <1>4 DEF Llega
<1> QED
  BY <1>5 DEF n

\* The blocks of a row that is being saved are of its file, in any order of calls.
LEMMA EnEscritura ==
    ASSUME IInv, tarea["serie"].de = "guardar", NEW f, f = tarea["serie"].archivo,
           NEW s, s = archivos[f].bloques,
           NEW j, j = BloquesDe(tarea["serie"])
    PROVE  /\ f \in DOMAIN archivos /\ s \in Seq(Numeros) /\ j \in Seq(Numeros)
           /\ Continua(j, s) /\ SinRepetir(j, dudosos)
           /\ \A n \in DOMAIN archivos : n # f => DeArchivo(n) \cap ToSet(j) \subseteq dudosos
<1>1. "serie" \in Hilos /\ TInv /\ TypeOK /\ UnDueno /\ UnaVez
  BY DEF IInv, TInv, Orden, Hilos
<1>2. f \in DOMAIN archivos /\ j = s \o tomados["serie"]
  BY <1>1, Lugar DEF BloquesDe
<1>3. \A n \in DOMAIN archivos : n \in Enteros
  BY <1>1, BorradoPor DEF Enteros, TypeOK
<1>4. PICK z \in Seq(Numeros) : z = tomados["serie"]
  BY <1>1 DEF TypeOK
<1>5. s \in Seq(Numeros)
  BY <1>1, <1>2 DEF TypeOK, Archivo
<1>6. /\ SinRepetir(s, dudosos) /\ SinRepetir(z, dudosos)
      /\ ToSet(s) \cap ToSet(z) \subseteq dudosos
  <2>1. DeArchivo(f) \cap Suyos("serie") \subseteq dudosos
    BY <1>1, <1>2, <1>3 DEF UnDueno
  <2> QED
    BY <1>1, <1>2, <1>4, <2>1 DEF UnaVez, DeArchivo, Suyos
<1>7. ToSet(j) = ToSet(s) \cup ToSet(z) /\ SinRepetir(j, dudosos)
  BY <1>2, <1>4, <1>5, <1>6, RepetirJuntos
<1>8. j \in Seq(Numeros) /\ Continua(j, s)
  <2>1. PICK u \in Seq(Numeros) : u = s
    BY <1>5
  <2>2. j = u \o z
    BY <1>2, <1>4, <2>1
  <2> QED
    BY <2>1, <2>2, ContinuaJunto
<1>9. ASSUME NEW n \in DOMAIN archivos, n # f
      PROVE  DeArchivo(n) \cap ToSet(j) \subseteq dudosos
  <2>1. /\ DeArchivo(n) \cap DeArchivo(f) \subseteq dudosos
        /\ DeArchivo(n) \cap Suyos("serie") \subseteq dudosos
    BY <1>1, <1>2, <1>3, <1>9 DEF UnDueno
  <2>2. DeArchivo(f) = ToSet(s) /\ Suyos("serie") = ToSet(z)
    BY <1>4 DEF DeArchivo, Suyos
  <2> QED
    BY <1>7, <2>1, <2>2
<1> QED
  BY <1>2, <1>5, <1>7, <1>8, <1>9

LEMMA MasDudosos ==
    ASSUME NEW D, NEW E, D \subseteq E, NEW c, NEW a
    PROVE  /\ \A g : Archivado(c, a, g, D) => Archivado(c, a, g, E)
           /\ \A t, z : Cursado(c, a, t, z, D) => Cursado(c, a, t, z, E)
  BY LlegaDudosos DEF Archivado, Cursado

\* Steps that write nothing; the thread of the mutex goes on as it was or ends.
LEMMA GuardadosQuieto ==
    ASSUME CInv, TInv', contenido' = contenido, dudosos \subseteq dudosos',
           \A n \in DOMAIN archivos' : /\ n \in DOMAIN archivos
                                       /\ archivos'[n] = archivos[n]
                                       /\ guardado'[n] = guardado[n],
           tarea'["serie"].de = "guardar" =>
              tarea'["serie"] = tarea["serie"] /\ tomados'["serie"] = tomados["serie"]
    PROVE  EnSuLugar' /\ EnCurso'
<1>1. EnSuLugar /\ EnCurso
  BY DEF CInv
<1>2. EnSuLugar'
  BY <1>1, MasDudosos DEF EnSuLugar
<1>3. ASSUME tarea'["serie"].de = "guardar"
      PROVE  Cursado(contenido, archivos'[tarea'["serie"].archivo], tarea'["serie"],
                     tomados'["serie"], dudosos')
  <2>1. "serie" \in Hilos
    BY DEF Hilos
  <2>2. tarea'["serie"].archivo \in DOMAIN archivos'
    BY <1>3, <2>1 DEF TInv, TypeOK
  <2>3. PICK t, z, a : /\ t = tarea["serie"] /\ z = tomados["serie"]
                       /\ a = archivos[tarea["serie"].archivo]
    OBVIOUS
  <2>4. t = tarea'["serie"] /\ z = tomados'["serie"] /\ a = archivos'[tarea'["serie"].archivo]
    BY <1>3, <2>2, <2>3
  <2>5. Cursado(contenido, a, t, z, dudosos)
    BY <1>1, <1>3, <2>3, <2>4 DEF EnCurso
  <2> QED
    BY <2>4, <2>5, MasDudosos
<1> QED
  BY <1>2, <1>3 DEF EnCurso

\* guardarDatos has not written yet.
LEMMA LlamaGuardarC ==
    ASSUME CInv, TInv', LlamaGuardar
    PROVE  EnSuLugar' /\ EnCurso'
<1>1. PICK n \in DOMAIN archivos, largo \in Largos :
         Empieza("serie", "escribe",
                 [de |-> "guardar", archivo |-> n,
                  nuevos |-> [o \in 1 .. largo |-> bytes + o], escritos |-> 0], <<>>)
  BY DEF LlamaGuardar
<1>2. /\ "serie" \in Hilos /\ TypeOK /\ EnSuLugar /\ bytes \in Nat /\ largo \in Nat
  BY LargosAssumption DEF CInv, IInv, TInv, TypeOK, Hilos
<1> DEFINE w == [o \in 1 .. largo |-> bytes + o]
           t == [de |-> "guardar", archivo |-> n, nuevos |-> w, escritos |-> 0]
<1>3. /\ tarea'["serie"] = t /\ tomados'["serie"] = <<>>
      /\ UNCHANGED <<archivos, contenido, guardado, dudosos>>
  BY <1>1, <1>2 DEF Empieza, TypeOK, LlamaGuardar, disco
<1>4. t.de = "guardar" /\ t.archivo = n /\ t.nuevos = w /\ t.escritos = 0
  OBVIOUS
<1>5. w \in Seq(Nat) /\ Len(w) = largo
  <2>1. \A o \in 1 .. largo : bytes + o \in Nat
    BY <1>2
  <2> QED
    BY <1>2, <2>1
<1> HIDE DEF w, t
<1>6. EnSuLugar'
  BY <1>2, <1>3 DEF EnSuLugar
<1>7. Cursado(contenido, archivos[n], t, <<>>, dudosos)
  <2>1. PICK s \in Seq(Numeros), m \in Nat : s = archivos[n].bloques /\ m = archivos[n].tamanio
    BY <1>2 DEF TypeOK, Archivo
  <2>2. s \o <<>> = s
    OBVIOUS
  <2>3. 0 + m <= BLOCK_SIZE * Len(s)
    BY <1>2, <2>1 DEF EnSuLugar, Archivado, Llega
  <2>4. m + 0 <= BLOCK_SIZE * Len(s)
    BY <2>3
  <2>5. \A i \in 0 .. 0 - 1 : FALSE
    OBVIOUS
  <2>6. Llega(contenido, s, m, w, 0, dudosos)
    BY <2>4, <2>5 DEF Llega
  <2>7. 0 <= Len(w)
    BY <1>2, <1>5
  <2> QED
    BY <1>4, <2>1, <2>2, <2>6, <2>7 DEF Cursado
<1> QED
  BY <1>3, <1>4, <1>6, <1>7 DEF EnCurso

\* A thread takes a block.
LEMMA TomaC ==
    ASSUME CInv, TInv', NEW h \in Hilos, Toma(h)
    PROVE  EnSuLugar' /\ EnCurso'
<1>1. /\ TypeOK /\ TInv /\ DondeDe(h) /\ EnCurso /\ EnSuLugar
  BY DEF CInv, IInv, TInv, Donde
<1>2. /\ dudosos \subseteq dudosos' /\ UNCHANGED <<archivos, contenido, tarea, guardado>>
      /\ tomados'[h] = Append(tomados[h], actual[h])
      /\ \A g \in Hilos : g # h => tomados'[g] = tomados[g]
      /\ actual[h] \in Numeros
  BY <1>1 DEF Toma, TypeOK, DondeDe
<1>3. CASE h # "serie"
  <2>1. "serie" \in Hilos
    BY DEF Hilos
  <2> QED
    BY <1>2, <1>3, <2>1, GuardadosQuieto
<1>4. CASE h = "serie"
  <2>1. EnSuLugar'
    BY <1>1, <1>2, MasDudosos DEF EnSuLugar
  <2>2. ASSUME tarea["serie"].de = "guardar"
        PROVE  Cursado(contenido, archivos[tarea["serie"].archivo], tarea["serie"],
                       tomados'["serie"], dudosos')
    <3>1. /\ tarea["serie"] \in Tareas /\ tarea["serie"].archivo \in DOMAIN archivos
          /\ tarea["serie"].nuevos \in Seq(Nat) /\ tarea["serie"].escritos \in Nat
      BY <1>1, <2>2, Lugar
    <3>2. PICK t \in Tareas, a \in Archivo : /\ t = tarea["serie"]
                                             /\ a = archivos[tarea["serie"].archivo]
      BY <1>1, <3>1 DEF TypeOK
    <3>3. PICK s \in Seq(Numeros), m \in Nat, e \in Nat :
                 s = a.bloques /\ m = a.tamanio /\ e = t.escritos
      BY <3>1, <3>2 DEF Archivo
    <3>4. PICK z \in Seq(Numeros), b \in Numeros : z = tomados["serie"] /\ b = actual["serie"]
      BY <1>1, <1>2, <1>4 DEF TypeOK
    <3>5. Cursado(contenido, a, t, z, dudosos)
      BY <1>1, <2>2, <3>2, <3>4 DEF EnCurso
    <3>6. Llega(contenido, s \o z, m, t.nuevos, e, dudosos)
      BY <3>3, <3>5 DEF Cursado
    <3>7. /\ s \o z \in Seq(Numeros) /\ s \o Append(z, b) \in Seq(Numeros)
          /\ Continua(s \o Append(z, b), s \o z)
      <4>1. s \o Append(z, b) = (s \o z) \o <<b>>
        OBVIOUS
      <4> DEFINE u == s \o z
                 v == <<b>>
      <4>2. u \in Seq(Numeros) /\ v \in Seq(Numeros)
        OBVIOUS
      <4> HIDE DEF u, v
      <4>3. u \o v \in Seq(Numeros) /\ Continua(u \o v, u)
        BY <4>2, ContinuaJunto
      <4> QED
        BY <4>1, <4>2, <4>3 DEF u, v
    <3>8. Llega(contenido, s \o Append(z, b), m, t.nuevos, e, dudosos)
      <4>1. PICK u \in Seq(Numeros), v \in Seq(Numeros) : u = s \o z /\ v = s \o Append(z, b)
        BY <3>7
      <4>2. Continua(v, u) /\ Llega(contenido, u, m, t.nuevos, e, dudosos)
        BY <3>6, <3>7, <4>1
      <4>3. Llega(contenido, v, m, t.nuevos, e, dudosos)
        BY <4>2, LlegaMasBloques
      <4> QED
        BY <4>1, <4>3
    <3>9. Cursado(contenido, a, t, Append(z, b), dudosos)
      BY <3>3, <3>5, <3>8 DEF Cursado
    <3>10. Append(z, b) = tomados'["serie"]
      BY <1>2, <1>4, <3>4
    <3>11. PICK x \in Seq(Numeros) : x = Append(z, b)
      <4>1. Append(z, b) \in Seq(Numeros)
        BY AppendProperties
      <4> QED
        BY <4>1
    <3>12. Cursado(contenido, a, t, x, dudosos)
      BY <3>9, <3>11
    <3>13. Cursado(contenido, a, t, x, dudosos')
      BY <1>2, <3>12, MasDudosos
    <3> QED
      BY <3>2, <3>10, <3>11, <3>13
  <2> QED
    BY <1>2, <2>1, <2>2 DEF EnCurso
<1> QED
  BY <1>3, <1>4

\* A part of a row is written in the block where the file ends.
LEMMA EscribeC ==
    ASSUME CInv, TInv', Escribe
    PROVE  EnSuLugar' /\ EnCurso'
<1>1. /\ IInv /\ TInv /\ TypeOK /\ EnCurso /\ EnSuLugar /\ "serie" \in Hilos
      /\ DondeDe("serie")
  BY DEF CInv, IInv, TInv, Hilos, Donde
<1>2. tarea["serie"].de = "guardar"
  BY <1>1 DEF Escribe, EscribeDesde, DondeDe
<1>0. /\ tarea["serie"] \in Tareas /\ tarea["serie"].archivo \in DOMAIN archivos
      /\ tarea["serie"].nuevos \in Seq(Nat) /\ tarea["serie"].escritos \in Nat
      /\ TamanioDe(tarea["serie"]) \in Nat /\ BloquesDe(tarea["serie"]) \in Seq(Numeros)
  BY <1>1, <1>2, Lugar
<1>3. PICK t \in Tareas : t = tarea["serie"]
  BY <1>0
<1>4. PICK f \in DOMAIN archivos : f = t.archivo
  BY <1>0, <1>3
<1>5. PICK s \in Seq(Numeros), j \in Seq(Numeros) : s = archivos[f].bloques /\ j = BloquesDe(t)
  BY <1>0, <1>1, <1>3 DEF TypeOK, Archivo
<1>6. PICK m \in Nat, e \in Nat, T \in Nat :
         m = archivos[f].tamanio /\ e = t.escritos /\ T = m + e /\ T = TamanioDe(t)
  <2>1. t.escritos \in Nat /\ archivos[f].tamanio \in Nat
    BY <1>0, <1>1, <1>3 DEF TypeOK, Archivo
  <2>2. archivos[f].tamanio + t.escritos \in Nat
    BY <2>1
  <2> QED
    BY <1>4, <2>1, <2>2 DEF TamanioDe
<1>7. PICK w \in Seq(Nat) : w = t.nuevos
  BY <1>0, <1>3
<1>8. PICK b \in Numeros : T \div BLOCK_SIZE < Len(j) /\ b = j[(T \div BLOCK_SIZE) + 1]
  <2>1. PICK k \in Nat : k = T \div BLOCK_SIZE
    BY Dividir, BlocksAssumption
  <2>2. k < Len(j)
    BY <1>3, <1>5, <1>6, <2>1 DEF Escribe, EscribeDesde
  <2>3. j[k + 1] \in Numeros
    BY <2>2
  <2> QED
    BY <2>1, <2>2, <2>3
<1> DEFINE cant == Min({BLOCK_SIZE - (T % BLOCK_SIZE), Len(w) - e})
<1>9. /\ e < Len(w) /\ tarea' = [tarea EXCEPT !["serie"].escritos = @ + cant]
      /\ contenido' = Escrito(contenido, b, T % BLOCK_SIZE, cant, w, e)
      /\ UNCHANGED <<archivos, tomados, guardado, dudosos>>
  BY <1>3, <1>5, <1>6, <1>7, <1>8 DEF Escribe, EscribeDesde, Escrito
<1>10. cant \in Nat /\ cant <= Len(w) - e /\ (T % BLOCK_SIZE) + cant <= BLOCK_SIZE
  <2>1. PICK d \in Nat : d = BLOCK_SIZE
    BY BlocksAssumption
  <2>2. PICK o \in Nat : o = T % BLOCK_SIZE /\ o <= d
    <3>1. T % BLOCK_SIZE \in 0 .. BLOCK_SIZE - 1
      BY Dividir, BlocksAssumption
    <3> QED
      BY <2>1, <3>1
  <2>3. PICK x \in Nat, y \in Nat : x = d - o /\ y = Len(w) - e
    <3>1. d - o \in Nat /\ Len(w) - e \in Nat
      BY <1>9, <2>2
    <3> QED
      BY <3>1
  <2>4. cant = Min({x, y})
    BY <2>1, <2>2, <2>3
  <2>5. Min({x, y}) \in Nat /\ Min({x, y}) <= x /\ Min({x, y}) <= y
    BY MinimoDeDos
  <2>6. PICK u \in Nat : u = Min({x, y}) /\ u <= x /\ u <= y
    BY <2>5
  <2> HIDE DEF cant
  <2>7. cant = u
    BY <2>4, <2>6
  <2>8. o + u <= d
    BY <2>2, <2>3, <2>6
  <2> QED
    BY <2>1, <2>2, <2>3, <2>6, <2>7, <2>8
<1> HIDE DEF cant
<1>11. PICK k \in Nat : k = cant /\ e + k <= Len(w) /\ (T % BLOCK_SIZE) + k <= BLOCK_SIZE
  BY <1>10
<1>12. PICK c \in Contenidos : c = contenido
  BY <1>1 DEF TypeOK, Contenidos
<1> DEFINE n == Escrito(c, b, T % BLOCK_SIZE, k, w, e)
<1>13. contenido' = n
  BY <1>9, <1>11, <1>12
<1>14. /\ Continua(j, s) /\ SinRepetir(j, dudosos)
       /\ \A x \in DOMAIN archivos : x # f => DeArchivo(x) \cap ToSet(j) \subseteq dudosos
  BY <1>1, <1>2, <1>3, <1>4, <1>5, EnEscritura
<1>15. T \div BLOCK_SIZE \in Nat /\ (T \div BLOCK_SIZE) + 1 \in 1 .. Len(j) /\ b \in ToSet(j)
  <2>1. T \div BLOCK_SIZE \in Nat
    BY Dividir, BlocksAssumption
  <2>2. (T \div BLOCK_SIZE) + 1 \in 1 .. Len(j)
    BY <1>8, <2>1
  <2> QED
    BY <1>8, <2>1, <2>2 DEF ToSet
<1>16. ASSUME NEW x \in DOMAIN archivos
       PROVE  Archivado(n, archivos[x], guardado[x], dudosos)
  <2>1. PICK y \in Seq(Numeros), g \in Seq(Nat) : y = archivos[x].bloques /\ g = guardado[x]
    BY <1>1 DEF TypeOK, Archivo
  <2>2. archivos[x].tamanio = Len(g) /\ Llega(c, y, 0, g, Len(g), dudosos)
    BY <1>1, <1>12, <2>1 DEF EnSuLugar, Archivado
  <2>3. ASSUME ToSet(y) \cap dudosos = {}, NEW i \in 1 .. Len(y), y[i] = b
        PROVE  i = (T \div BLOCK_SIZE) + 1 /\ 0 + Len(g) <= T
    <3>1. b \in ToSet(y) /\ b \notin dudosos
      BY <2>3 DEF ToSet
    <3>2. x = f
      BY <1>14, <1>15, <2>1, <3>1 DEF DeArchivo
    <3>3. y = s /\ Len(g) = m
      BY <1>5, <1>6, <2>1, <2>2, <3>2
    <3>4. i \in 1 .. Len(j) /\ j[i] = b
      BY <1>14, <2>3, <3>3 DEF Continua
    <3>5. i = (T \div BLOCK_SIZE) + 1
      BY <1>8, <1>14, <1>15, <3>1, <3>4 DEF SinRepetir
    <3> QED
      BY <1>6, <3>3, <3>5
  <2>4. Llega(n, y, 0, g, Len(g), dudosos)
    <3>1. PICK l \in Nat : l = Len(g)
      OBVIOUS
    <3>2. /\ Llega(c, y, 0, g, l, dudosos)
          /\ ToSet(y) \cap dudosos = {} =>
                \A i \in 1 .. Len(y) : y[i] = b => i = (T \div BLOCK_SIZE) + 1 /\ 0 + l <= T
      BY <2>2, <2>3, <3>1
    <3> QED
      BY <3>1, <3>2, LlegaAntes
  <2> HIDE DEF n
  <2> QED
    BY <2>1, <2>2, <2>4 DEF Archivado
<1>17. Llega(n, j, m, w, e + k, dudosos)
  <2>1. Cursado(c, archivos[f], t, tomados["serie"], dudosos)
    BY <1>1, <1>2, <1>3, <1>4, <1>12 DEF EnCurso
  <2>2. Llega(c, j, m, w, e, dudosos)
    BY <1>4, <1>5, <1>6, <1>7, <2>1 DEF Cursado, BloquesDe
  <2> QED
    BY <1>6, <1>8, <1>11, <1>14, <2>2, LlegaMas
<1> HIDE DEF n
<1>18. EnSuLugar'
  BY <1>9, <1>13, <1>16 DEF EnSuLugar
<1>19. PICK u : u = [t EXCEPT !.escritos = e + k]
  OBVIOUS
<1>20. u.de = "guardar" /\ u.archivo = f /\ u.nuevos = w /\ u.escritos = e + k
  <2>1. t = [de |-> "guardar", archivo |-> t.archivo, nuevos |-> t.nuevos,
             escritos |-> t.escritos]
    BY <1>2, <1>3, TareaTipo
  <2> QED
    BY <1>4, <1>7, <1>19, <2>1
<1>21. tarea'["serie"] = u
  BY <1>1, <1>3, <1>6, <1>9, <1>11, <1>19 DEF TypeOK
<1>22. Cursado(n, archivos[f], u, tomados["serie"], dudosos)
  BY <1>4, <1>5, <1>6, <1>11, <1>17, <1>20 DEF Cursado, BloquesDe
<1>23. EnCurso'
  BY <1>9, <1>13, <1>20, <1>21, <1>22 DEF EnCurso
<1> QED
  BY <1>18, <1>23

\* BLOQUES and TAMANIO are saved: what was written is of the file.
LEMMA GuardaConfigC ==
    ASSUME CInv, TInv', GuardaConfig
    PROVE  EnSuLugar' /\ EnCurso'
<1>1. /\ IInv /\ TInv /\ TypeOK /\ EnCurso /\ EnSuLugar /\ "serie" \in Hilos
      /\ DondeDe("serie") /\ Termina("serie")
  BY DEF CInv, IInv, TInv, Hilos, Donde, GuardaConfig
<1>2. tarea["serie"].de = "guardar"
  BY <1>1 DEF GuardaConfig, DondeDe
<1>3. /\ tarea["serie"] \in Tareas /\ tarea["serie"].archivo \in DOMAIN archivos
      /\ tarea["serie"].nuevos \in Seq(Nat) /\ tarea["serie"].escritos \in Nat
      /\ BloquesDe(tarea["serie"]) \in Seq(Numeros)
  BY <1>1, <1>2, Lugar
<1>4. PICK t \in Tareas : t = tarea["serie"]
  BY <1>3
<1>5. PICK f \in DOMAIN archivos, w \in Seq(Nat) : f = t.archivo /\ w = t.nuevos
  BY <1>3, <1>4
<1>6. PICK s \in Seq(Numeros), j \in Seq(Numeros), m \in Nat :
         s = archivos[f].bloques /\ j = BloquesDe(t) /\ m = archivos[f].tamanio
  BY <1>1, <1>3, <1>4 DEF TypeOK, Archivo
<1>7. PICK g \in Seq(Nat) : g = guardado[f]
  BY <1>1 DEF TypeOK
<1>8. /\ t.escritos = Len(w) /\ UNCHANGED <<contenido, dudosos>>
      /\ archivos' = [archivos EXCEPT ![f] = [tamanio |-> m + Len(w), bloques |-> j]]
      /\ guardado' = [guardado EXCEPT ![f] = g \o w]
  BY <1>1, <1>4, <1>5, <1>6, <1>7 DEF GuardaConfig, TamanioDe, TypeOK
<1>9. m = Len(g) /\ Llega(contenido, s, 0, g, Len(g), dudosos)
  BY <1>1, <1>6, <1>7 DEF EnSuLugar, Archivado
<1>10. Llega(contenido, j, Len(g), w, Len(w), dudosos)
  <2>1. Cursado(contenido, archivos[f], t, tomados["serie"], dudosos)
    BY <1>1, <1>2, <1>4, <1>5 DEF EnCurso
  <2> QED
    BY <1>5, <1>6, <1>8, <1>9, <2>1 DEF Cursado, BloquesDe
<1>11. Continua(j, s)
  BY <1>1, <1>2, <1>4, <1>5, <1>6, EnEscritura
<1>12. Llega(contenido, j, 0, g \o w, Len(g \o w), dudosos)
  BY <1>9, <1>10, <1>11, LlegaJunto
<1>13. PICK v : v = g \o w /\ Len(v) = m + Len(w)
  BY <1>9, ConcatProperties
<1>14. PICK a : a = [tamanio |-> m + Len(w), bloques |-> j]
  OBVIOUS
<1>15. Archivado(contenido, a, v, dudosos)
  BY <1>12, <1>13, <1>14 DEF Archivado
<1>16. ASSUME NEW x \in DOMAIN archivos
       PROVE  Archivado(contenido, archivos'[x], guardado'[x], dudosos)
  <2>1. DOMAIN guardado = DOMAIN archivos
    BY <1>1 DEF TypeOK
  <2>2. CASE x = f
    BY <1>8, <1>13, <1>14, <1>15, <2>1, <2>2
  <2>3. CASE x # f
    BY <1>1, <1>8, <2>1, <2>3 DEF EnSuLugar
  <2> QED
    BY <2>2, <2>3
<1>17. DOMAIN archivos' = DOMAIN archivos
  BY <1>8
<1>18. EnSuLugar'
  BY <1>8, <1>16, <1>17 DEF EnSuLugar
<1>19. tarea'["serie"] = Libre
  BY <1>1, TerminaTipos
<1> QED
  BY <1>18, <1>19, Constructores DEF EnCurso

\* A new file is empty, and is not the one that is written.
LEMMA CreaArchivoC ==
    ASSUME CInv, TInv', NEW h \in Hilos, CreaArchivo(h)
    PROVE  EnSuLugar' /\ EnCurso'
<1>1. /\ TInv /\ TypeOK /\ EnCurso /\ EnSuLugar /\ "serie" \in Hilos
      /\ DondeDe(h) /\ Nuevos
  BY DEF CInv, IInv, TInv, Hilos, Donde
<1>2. PICK b : b = Head(tomados[h])
  OBVIOUS
<1>3. PICK a : a = [tamanio |-> 0, bloques |-> <<b>>]
  OBVIOUS
<1>4. tarea[h].de = "crear"
  BY <1>1 DEF CreaArchivo, DondeDe
<1>5. PICK n \in tarea[h].nombres :
         /\ archivos' = [m \in DOMAIN archivos \cup {n} |-> IF m = n THEN a ELSE archivos[m]]
         /\ guardado' = [m \in DOMAIN guardado \cup {n} |-> IF m = n THEN <<>> ELSE guardado[m]]
         /\ \/ /\ tarea[h].nombres # {n}
               /\ tarea' = [tarea EXCEPT ![h] = Crear(tarea[h].nombres \ {n})]
               /\ tomados' = [tomados EXCEPT ![h] = Tail(@)]
            \/ Termina(h)
  BY <1>2, <1>3 DEF CreaArchivo
<1>6. /\ UNCHANGED <<contenido, dudosos>> /\ n \notin DOMAIN archivos
      /\ DOMAIN guardado = DOMAIN archivos
  BY <1>1, <1>4, <1>5 DEF CreaArchivo, Nuevos, TypeOK
<1>7. Archivado(contenido, a, <<>>, dudosos)
  <2>1. a.tamanio = 0 /\ a.bloques = <<b>> /\ Len(<<>>) = 0
    BY <1>3
  <2>2. Len(<<b>>) = 1
    OBVIOUS
  <2>3. 0 + 0 <= BLOCK_SIZE * Len(<<b>>)
    BY <2>2, BlocksAssumption
  <2>4. \A i \in 0 .. 0 - 1 : FALSE
    OBVIOUS
  <2> QED
    BY <2>1, <2>3, <2>4 DEF Archivado, Llega
<1>8. EnSuLugar'
  <2> SUFFICES ASSUME NEW x \in DOMAIN archivos \cup {n}
               PROVE  Archivado(contenido, archivos'[x], guardado'[x], dudosos)
    BY <1>5, <1>6 DEF EnSuLugar
  <2>1. CASE x = n
    BY <1>5, <1>7, <2>1
  <2>2. CASE x # n
    BY <1>1, <1>5, <1>6, <2>2 DEF EnSuLugar
  <2> QED
    BY <2>1, <2>2
<1>9. EnCurso'
  <2>1. CASE h = "serie"
    <3>1. tarea'["serie"].de # "guardar"
      BY <1>1, <1>5, <2>1, TerminaTipos, Constructores DEF TypeOK
    <3> QED
      BY <3>1 DEF EnCurso
  <2>2. CASE h # "serie"
    <3>1. tarea'["serie"] = tarea["serie"] /\ tomados'["serie"] = tomados["serie"]
      BY <1>1, <1>5, <2>2, TerminaTipos DEF TypeOK, Otros
    <3>2. ASSUME tarea["serie"].de = "guardar"
          PROVE  Cursado(contenido, archivos'[tarea["serie"].archivo], tarea["serie"],
                         tomados["serie"], dudosos)
      <4>1. tarea["serie"].archivo \in DOMAIN archivos
        BY <1>1, <3>2 DEF TypeOK
      <4>2. archivos'[tarea["serie"].archivo] = archivos[tarea["serie"].archivo]
        BY <1>5, <1>6, <4>1
      <4> QED
        BY <1>1, <3>2, <4>2 DEF EnCurso
    <3> QED
      BY <1>6, <3>1, <3>2 DEF EnCurso
  <2> QED
    BY <2>1, <2>2
<1> QED
  BY <1>8, <1>9

LEMMA InitC == Init => CInv
<1> SUFFICES ASSUME Init PROVE CInv
  OBVIOUS
<1>1. "serie" \in Hilos
  BY DEF Hilos
<1>2. DOMAIN archivos = {} /\ tarea["serie"] = Libre
  BY <1>1 DEF Init
<1> QED
  BY <1>2, InitO, Constructores DEF CInv, EnSuLugar, EnCurso

LEMMA PasoC == CInv /\ [Next]_vars => CInv'
<1> SUFFICES ASSUME CInv, [Next]_vars PROVE CInv'
  OBVIOUS
<1>0. IInv /\ IInv' /\ TInv /\ TInv' /\ TypeOK /\ "serie" \in Hilos
  BY PasoO DEF CInv, IInv, TInv, Hilos
<1> DEFINE Bien == EnSuLugar' /\ EnCurso'
<1>1. ASSUME NEW h \in Hilos, NEW e, NEW t, t.de # "guardar", NEW z, Empieza(h, e, t, z),
             UNCHANGED <<archivos, contenido, guardado, dudosos>>
      PROVE  Bien
  <2>1. tarea'[h] = t /\ \A g \in Hilos : g # h => tarea'[g] = tarea[g] /\ tomados'[g] = tomados[g]
    BY <1>0, <1>1 DEF Empieza, TypeOK
  <2> QED
    BY <1>0, <1>1, <2>1, GuardadosQuieto
<1>2. ASSUME NEW h \in Hilos, Termina(h), UNCHANGED <<archivos, contenido, guardado, dudosos>>
      PROVE  Bien
  <2>1. tarea'[h] = Libre /\ \A g \in Hilos : g # h => tarea'[g] = tarea[g] /\ tomados'[g] = tomados[g]
    BY <1>0, <1>2, TerminaTipos DEF Otros
  <2> QED
    BY <1>0, <1>2, <2>1, GuardadosQuieto, Constructores
<1>3. ASSUME UNCHANGED <<archivos, contenido, guardado, dudosos, tarea, tomados>> PROVE Bien
  BY <1>0, <1>3, GuardadosQuieto
<1> HIDE DEF Bien
<1>4. ASSUME NEW h \in Hilos, LlamaCrear(h) PROVE Bien
  BY <1>1, <1>4, Constructores DEF LlamaCrear, disco
<1>5. ASSUME NEW h \in Hilos, Ocupado(h) \/ Hallado(h) \/ SinLugarParaCrear(h) PROVE Bien
  BY <1>3, <1>5 DEF Ocupado, Hallado, SinLugarParaCrear, disco
<1>6. ASSUME NEW h \in Hilos, SinLugarParaGuardar(h) PROVE Bien
  BY <1>2, <1>6 DEF SinLugarParaGuardar, disco
<1>7. ASSUME NEW h \in Hilos, CargaParaTomar(h) \/ CargaParaLimpiar(h) PROVE Bien
  BY <1>3, <1>7 DEF CargaParaTomar, CargaParaLimpiar, CargaPara, disco
<1>8. ASSUME NEW h \in Hilos, Toma(h) PROVE Bien
  BY <1>0, <1>8, TomaC DEF Bien
<1>9. ASSUME NEW h \in Hilos, Suelta(h) PROVE Bien
  <2>1. tarea[h].de # "guardar"
    BY <1>0, <1>9 DEF TInv, Donde, DondeDe, Suelta
  <2>2. tarea["serie"].de = "guardar" => tomados'["serie"] = tomados["serie"]
    BY <1>0, <1>9, <2>1 DEF Suelta, TypeOK
  <2> QED
    BY <1>0, <1>9, <2>2, GuardadosQuieto DEF Suelta, Bien
<1>10. ASSUME NEW h \in Hilos, TerminaDeLimpiar(h) PROVE Bien
  <2>1. Termina(h) /\ UNCHANGED <<contenido, dudosos>>
    BY <1>10 DEF TerminaDeLimpiar
  <2>2. tarea'[h] = Libre /\ \A g \in Hilos : g # h => tarea'[g] = tarea[g] /\ tomados'[g] = tomados[g]
    BY <1>0, <2>1, TerminaTipos DEF Otros
  <2>3. \A n \in DOMAIN archivos' : /\ n \in DOMAIN archivos
                                    /\ archivos'[n] = archivos[n]
                                    /\ guardado'[n] = guardado[n]
    BY <1>10 DEF TerminaDeLimpiar
  <2> QED
    BY <1>0, <2>1, <2>2, <2>3, GuardadosQuieto, Constructores DEF Bien
<1>11. ASSUME NEW h \in Hilos, CreaArchivo(h) PROVE Bien
  BY <1>0, <1>11, CreaArchivoC DEF Bien
<1>12. ASSUME LlamaBorrar PROVE Bien
  BY <1>0, <1>1, <1>12, Constructores DEF LlamaBorrar, disco
<1>13. ASSUME LlamaGuardar PROVE Bien
  BY <1>0, <1>13, LlamaGuardarC DEF Bien
<1>14. ASSUME PideBloque PROVE Bien
  BY <1>3, <1>14 DEF PideBloque, disco
<1>15. ASSUME Escribe PROVE Bien
  BY <1>0, <1>15, EscribeC DEF Bien
<1>16. ASSUME GuardaConfig PROVE Bien
  BY <1>0, <1>16, GuardaConfigC DEF Bien
<1>17. ASSUME Caida PROVE Bien
  <2>1. tarea'["serie"] = Libre /\ dudosos \subseteq dudosos'
    BY <1>0, <1>17 DEF Caida
  <2> QED
    BY <1>0, <1>17, <2>1, GuardadosQuieto, Constructores DEF Caida, disco, Bien
<1>18. ASSUME UNCHANGED vars PROVE Bien
  BY <1>3, <1>18 DEF vars, disco, hilos
<1>19. Bien
  BY <1>4, <1>5, <1>6, <1>7, <1>8, <1>9, <1>10, <1>11, <1>12, <1>13, <1>14, <1>15, <1>16,
     <1>17, <1>18 DEF Next
<1> QED
  BY <1>0, <1>19 DEF Bien, CInv

\* obtenerDatos takes from each block what the file has there.
Leido(c, s, m, k) == SubSeq(c[s[k]], 1, Min({BLOCK_SIZE, m - (k - 1) * BLOCK_SIZE}))

LEMMA Prefijo ==
  ASSUME NEW b \in Seq(Nat), NEW u \in Nat, u <= Len(b)
  PROVE  /\ SubSeq(b, 1, u) \in Seq(Nat) /\ Len(SubSeq(b, 1, u)) = u
         /\ \A o \in 1 .. u : SubSeq(b, 1, u)[o] = b[o]
<1>1. \A i \in 1 .. u : b[i] \in Nat
  OBVIOUS
<1>2. /\ SubSeq(b, 1, u) \in Seq(Nat)
      /\ Len(SubSeq(b, 1, u)) = IF 1 <= u THEN u - 1 + 1 ELSE 0
      /\ \A i \in 1 .. u - 1 + 1 : SubSeq(b, 1, u)[i] = b[1 + i - 1]
  BY <1>1, SubSeqProperties, 1 \in Int, u \in Int
<1>3. (IF 1 <= u THEN u - 1 + 1 ELSE 0) = u /\ u - 1 + 1 = u
  OBVIOUS
<1>4. ASSUME NEW o \in 1 .. u PROVE SubSeq(b, 1, u)[o] = b[o]
  <2>1. 1 + o - 1 = o
    OBVIOUS
  <2> QED
    BY <1>2, <1>3, <2>1
<1> QED
  BY <1>2, <1>3, <1>4

LEMMA Trozo ==
    ASSUME NEW c \in Contenidos, NEW s \in Seq(Numeros), NEW g \in Seq(Nat),
           Llega(c, s, 0, g, Len(g), {}), NEW k \in Nat \ {0}, BLOCK_SIZE * (k - 1) < Len(g)
    PROVE  /\ Leido(c, s, Len(g), k) \in Seq(Nat)
           /\ EsTrozo(Leido(c, s, Len(g), k), g, BLOCK_SIZE, k)
<1>1. PICK d \in Nat \ {0}, m \in Nat, l \in Nat, q \in Nat :
         d = BLOCK_SIZE /\ m = Len(g) /\ l = Len(s) /\ k = q + 1
  <2>1. k - 1 \in Nat /\ k = (k - 1) + 1
    OBVIOUS
  <2> QED
    BY <2>1, BlocksAssumption
<1>2. PICK v \in Nat : v = d * q
  <2>1. d * q \in Nat
    OBVIOUS
  <2> QED
    BY <2>1
<1>3. /\ BLOCK_SIZE * (k - 1) = v /\ (k - 1) * BLOCK_SIZE = v /\ BLOCK_SIZE * k = v + d
      /\ v < m
  <2>1. k - 1 = q
    BY <1>1
  <2>2. d * (q + 1) = d * q + d /\ q * d = d * q
    OBVIOUS
  <2> QED
    BY <1>1, <1>2, <2>1, <2>2
<1>4. k \in 1 .. l
  <2>1. v < d * l
    <3>1. PICK y : y = d * l
      OBVIOUS
    <3>2. y \in Nat /\ 0 + m <= y
      BY <1>1, <3>1 DEF Llega
    <3> QED
      BY <1>3, <3>1, <3>2
  <2>2. v \div d < l
    BY <2>1
  <2>3. (d * q + 0) \div d = q
    OBVIOUS
  <2>4. v \div d = q
    BY <1>2, <2>3
  <2> QED
    BY <1>1, <2>2, <2>4
<1>5. PICK u \in Nat : /\ u = Min({BLOCK_SIZE, Len(g) - (k - 1) * BLOCK_SIZE})
                       /\ u = IF v + d <= m THEN d ELSE m - v
                       /\ u <= d /\ u <= m - v
  <2>1. PICK a \in Nat : a = m - v
    BY <1>3
  <2>2. PICK u \in Nat : u = Min({d, a}) /\ u <= d /\ u <= a /\ u = IF d <= a THEN d ELSE a
    BY MinimoDeDos
  <2>3. {BLOCK_SIZE, Len(g) - (k - 1) * BLOCK_SIZE} = {d, a}
    BY <1>1, <1>3, <2>1
  <2>4. u = IF v + d <= m THEN d ELSE m - v
    BY <2>1, <2>2
  <2> QED
    BY <2>1, <2>2, <2>3, <2>4
<1>6. PICK b \in Seq(Nat) : /\ b = c[s[k]] /\ Len(b) = d
  <2>1. c[s[k]] \in [1 .. d -> Nat]
    BY <1>1, <1>4 DEF Contenidos
  <2>2. PICK x \in [1 .. d -> Nat] : x = c[s[k]]
    BY <2>1
  <2>3. x \in Seq(Nat) /\ Len(x) = d
    OBVIOUS
  <2> QED
    BY <2>2, <2>3
<1>7. /\ SubSeq(b, 1, u) \in Seq(Nat) /\ Len(SubSeq(b, 1, u)) = u
      /\ \A o \in 1 .. u : SubSeq(b, 1, u)[o] = b[o]
  <2>1. u <= Len(b)
    BY <1>5, <1>6
  <2> QED
    BY <2>1, Prefijo
<1>8. FinDelTrozo(BLOCK_SIZE, Len(g), k) - BLOCK_SIZE * (k - 1) = u
  <2>1. FinDelTrozo(BLOCK_SIZE, Len(g), k) = IF v + d <= m THEN v + d ELSE m
    BY <1>1, <1>3 DEF FinDelTrozo
  <2>2. u = IF v + d <= m THEN d ELSE m - v
    BY <1>5
  <2>3. (IF v + d <= m THEN v + d ELSE m) - v = IF v + d <= m THEN d ELSE m - v
    OBVIOUS
  <2> QED
    BY <1>3, <2>1, <2>2, <2>3
<1>9. ASSUME NEW o \in 1 .. u PROVE b[o] = g[v + o]
  <2>1. PICK r \in 0 .. d - 1 : r = o - 1
    BY <1>5
  <2>2. PICK i \in 0 .. m - 1 : i = d * q + r /\ i + 1 = v + o
    <3>1. v + r \in 0 .. m - 1 /\ (v + r) + 1 = v + o
      BY <1>3, <1>5, <2>1
    <3> QED
      BY <1>2, <3>1
  <2>3. (d * q + r) \div d = q /\ (d * q + r) % d = r
    OBVIOUS
  <2>4. ByteDe(c, s, 0 + i) = g[i + 1]
    BY <1>1, <2>2 DEF Llega
  <2>5. ByteDe(c, s, i) = c[s[k]][o]
    <3>1. i \div d = q /\ i % d = r /\ r + 1 = o
      BY <2>1, <2>2, <2>3
    <3> QED
      BY <1>1, <3>1 DEF ByteDe
  <2>6. 0 + i = i
    BY <2>2
  <2> QED
    BY <1>6, <2>2, <2>4, <2>5, <2>6
<1>10. PICK x \in Seq(Nat) : x = Leido(c, s, Len(g), k) /\ x = SubSeq(b, 1, u)
  BY <1>5, <1>6, <1>7 DEF Leido
<1>11. Len(x) = u /\ \A o \in 1 .. u : x[o] = g[v + o]
  BY <1>7, <1>9, <1>10
<1>12. EsTrozo(x, g, BLOCK_SIZE, k)
  BY <1>3, <1>8, <1>11 DEF EsTrozo
<1> QED
  BY <1>10, <1>12

LEMMA Lectura == CInv => SeLeeLoGuardado
<1> SUFFICES ASSUME CInv, NEW n \in DOMAIN archivos, DeArchivo(n) \cap dudosos = {}
             PROVE  Obtener(n) = guardado[n]
  BY DEF SeLeeLoGuardado
<1>1. TypeOK /\ EnSuLugar
  BY DEF CInv, IInv, TInv
<1>2. PICK c \in Contenidos, s \in Seq(Numeros), g \in Seq(Nat) :
         c = contenido /\ s = archivos[n].bloques /\ g = guardado[n]
  BY <1>1 DEF TypeOK, Archivo, Contenidos
<1>3. archivos[n].tamanio = Len(g) /\ Llega(c, s, 0, g, Len(g), {})
  <2>1. archivos[n].tamanio = Len(g) /\ Llega(c, s, 0, g, Len(g), dudosos)
    BY <1>1, <1>2 DEF EnSuLugar, Archivado
  <2> QED
    BY <1>2, <2>1 DEF Llega, DeArchivo
<1> DEFINE cantidad == (Len(g) + BLOCK_SIZE - 1) \div BLOCK_SIZE
           z == [k \in 1 .. cantidad |-> Leido(c, s, Len(g), k)]
<1>4. Obtener(n) = FlattenSeq(z)
  BY <1>2, <1>3 DEF Obtener, Leido
<1>5. /\ cantidad \in Nat /\ Len(g) <= BLOCK_SIZE * cantidad
      /\ BLOCK_SIZE * cantidad < Len(g) + BLOCK_SIZE
  <2>1. PICK m \in Nat, d \in Nat \ {0} : m = Len(g) /\ d = BLOCK_SIZE
    BY BlocksAssumption
  <2>2. LET q == (m + d - 1) \div d IN q \in Nat /\ m <= d * q /\ d * q < m + d
    BY SMTT(20)
  <2> QED
    BY <2>1, <2>2
<1> HIDE DEF cantidad
<1>6. ASSUME NEW k \in 1 .. cantidad
      PROVE  /\ Leido(c, s, Len(g), k) \in Seq(Nat)
             /\ EsTrozo(Leido(c, s, Len(g), k), g, BLOCK_SIZE, k)
  <2>1. k \in Nat \ {0}
    BY <1>5
  <2>2. BLOCK_SIZE * (k - 1) < Len(g)
    <3>1. PICK m \in Nat, d \in Nat \ {0}, q \in Nat, r \in Nat :
             m = Len(g) /\ d = BLOCK_SIZE /\ k = q + 1 /\ cantidad = (q + 1) + r
      <4>1. PICK q \in Nat : k = q + 1
        <5>1. k - 1 \in Nat /\ k = (k - 1) + 1
          BY <2>1
        <5> QED
          BY <5>1
      <4>2. PICK r \in Nat : cantidad = (q + 1) + r
        <5>1. cantidad - (q + 1) \in Nat /\ cantidad = (q + 1) + (cantidad - (q + 1))
          BY <1>5, <4>1
        <5> QED
          BY <5>1
      <4>3. PICK d \in Nat \ {0} : d = BLOCK_SIZE
        BY BlocksAssumption
      <4>4. PICK m \in Nat : m = Len(g)
        OBVIOUS
      <4> QED
        BY <4>1, <4>2, <4>3, <4>4
    <3>2. d * ((q + 1) + r) = d * q + d + d * r /\ d * q \in Nat /\ d * r \in Nat
      OBVIOUS
    <3>3. PICK x \in Nat, y \in Nat : x = d * q /\ y = d * r
      BY <3>2
    <3>4. x + d + y < m + d
      BY <1>5, <3>1, <3>2, <3>3
    <3>5. k - 1 = q
      BY <3>1
    <3> QED
      BY <3>1, <3>3, <3>4, <3>5
  <2> QED
    BY <1>3, <2>1, <2>2, Trozo
<1>7. /\ z \in Seq(Seq(Nat)) /\ Len(z) = cantidad
      /\ \A k \in 1 .. cantidad : EsTrozo(z[k], g, BLOCK_SIZE, k)
  BY <1>5, <1>6
<1> HIDE DEF z
<1>8. FlattenSeq(z) = g
  <2>1. PICK d \in Nat \ {0} : d = BLOCK_SIZE
    BY BlocksAssumption
  <2>2. /\ Len(g) <= d * Len(z) /\ d * Len(z) < Len(g) + d
        /\ \A k \in 1 .. Len(z) : EsTrozo(z[k], g, d, k)
    BY <1>5, <1>7, <2>1
  <2> QED
    BY <1>7, <2>2, AplanaTrozos
<1> QED
  BY <1>2, <1>4, <1>8

\* What is read from a file is what was saved in it, for any number of files, of
\* blocks of any size, of rows of any length, of CREATEs at once and of stops, as
\* long as its blocks are its own (filesystem.c:393-585).
THEOREM LoGuardadoSeLee == Spec => []SeLeeLoGuardado
<1> QED
  BY InitC, PasoC, Lectura, PTL DEF Spec
=============================================================================
