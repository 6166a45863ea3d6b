----------------------------- MODULE GossipProofs -----------------------------
(***************************************************************************)
(* For any number of memories, any seeds and any number of lives: the      *)
(* types, that no table has a memory twice, and that no number is given    *)
(* the address of another.                                                 *)
(***************************************************************************)
EXTENDS Gossip, FiniteSetTheorems, TLAPS

PosNumerada(m, i) == i = 1 \/ i > 1 + Len(Seeds[m])

\* What every table is: its own entry and the seeds come first, only a seed may
\* be inactive, and the entries that are not seeds differ in their number.
TablaBien(m, t) ==
    /\ t \in Seq(Entrada)
    /\ Len(t) >= 1 + Len(Seeds[m])
    /\ \A i \in 1 .. Len(t) : PosNumerada(m, i) => t[i].activa
    /\ \A i, j \in 1 .. Len(t) :
          /\ PosNumerada(m, i) /\ PosNumerada(m, j)
          /\ t[i].num = t[j].num
          => i = j

\* The list of a thread is finite: so is the table it was taken from.
Finitas == \A m \in Memorias : IsFiniteSet(lista[m])

Tablas == \A m \in Memorias : TablaBien(m, tabla[m])

\* Only a seed is asked for its number.
PideNumero ==
    \A m \in Memorias :
        pc[G(m)] \in {"saluda", "numera"} => ~PosNumerada(m, lugar[m])

\* The entry of the walk is in the table, and so is the next one it took.
Lugares ==
    /\ sigue \in [Memorias -> BOOLEAN]
    /\ \A m \in Memorias :
          /\ lugar[m] \in 1 .. Len(tabla[m])
          /\ sigue[m] => lugar[m] < Len(tabla[m])

IInv == TypeOK /\ Finitas /\ Tablas /\ PideNumero /\ Lugares

-----------------------------------------------------------------------------
(* The table *)

LEMMA SeedsTipo ==
    ASSUME NEW m \in Memorias
    PROVE  /\ Seeds[m] \in Seq(Memorias)
           /\ Len(Seeds[m]) \in Nat
BY SeedsAssumption

LEMMA InicialBien ==
    ASSUME NEW m \in Memorias
    PROVE  TablaBien(m, TablaInicial(m))
<1> DEFINE t == TablaInicial(m)
           n == 1 + Len(Seeds[m])
<1>1. n \in Nat /\ n >= 1
  BY SeedsTipo
<1>2. \A i \in 2 .. n : Seeds[m][i - 1] \in Memorias
  <2> TAKE i \in 2 .. n
  <2>1. i - 1 \in 1 .. Len(Seeds[m])
    BY SeedsTipo
  <2> QED
    BY <2>1, SeedsTipo
<1>3. ASSUME NEW i \in 1 .. n PROVE t[i] \in Entrada
  <2>1. CASE i = 1
    BY <2>1, <1>1 DEF TablaInicial, Entrada, Numeros
  <2>2. CASE i # 1
    <3>1. i \in 2 .. n
      BY <2>2, <1>1
    <3>2. t[i] = [num |-> SinNumero, dir |-> Seeds[m][i - 1], activa |-> FALSE, socket |-> 0]
      BY <2>2 DEF TablaInicial
    <3> QED
      BY <3>1, <3>2, <1>2 DEF Entrada, Numeros
  <2> QED
    BY <2>1, <2>2
<1>4. t = [i \in 1 .. n |-> t[i]]
  BY DEF TablaInicial
<1>5. t \in [1 .. n -> Entrada]
  BY <1>3, <1>4
<1>6. t \in Seq(Entrada) /\ Len(t) = n
  BY <1>1, <1>5
<1>7. t[1].activa
  BY <1>1 DEF TablaInicial
<1> HIDE DEF t
<1>8. \A i \in 1 .. Len(t) : PosNumerada(m, i) => i = 1
  BY <1>1, <1>6 DEF PosNumerada
<1> QED
  BY <1>6, <1>7, <1>8, <1>1 DEF TablaBien, t

LEMMA ActivasFinitas ==
    ASSUME NEW t \in Seq(Entrada)
    PROVE  /\ MemoriasActivas(t) \in SUBSET Conocida
           /\ IsFiniteSet(MemoriasActivas(t))
<1> DEFINE D == {j \in DOMAIN t : t[j].activa}
           f == [i \in D |-> [num |-> t[i].num, dir |-> t[i].dir]]
<1>1. D \subseteq 1 .. Len(t) /\ Len(t) \in Nat
  OBVIOUS
<1>2. IsFiniteSet(D)
  BY <1>1, FS_Interval, FS_Subset
<1>3. f \in Surjection(D, MemoriasActivas(t))
  BY DEF Surjection, MemoriasActivas
<1>4. IsFiniteSet(MemoriasActivas(t))
  BY <1>2, <1>3, FS_Surjection
<1>5. \A i \in D : t[i] \in Entrada
  BY <1>1
<1>6. MemoriasActivas(t) \in SUBSET Conocida
  BY <1>5 DEF MemoriasActivas, Entrada, Conocida
<1> QED
  BY <1>4, <1>6

\* agregar_memorias_gossiping only appends, and what it appends is new.
LEMMA AgregadasSon ==
    ASSUME NEW t \in Seq(Entrada), NEW l \in SUBSET Conocida, IsFiniteSet(l),
           NEW u \in Agregadas(t, l)
    PROVE  /\ u \in Seq(Entrada)
           /\ Len(u) >= Len(t)
           /\ \A i \in 1 .. Len(t) : u[i] = t[i]
           /\ \A i \in Len(t) + 1 .. Len(u) :
                 /\ u[i].activa
                 /\ [num |-> u[i].num, dir |-> u[i].dir] \in l
                 /\ \A j \in 1 .. Len(t) : t[j].num # u[i].num
           /\ \A i, j \in Len(t) + 1 .. Len(u) : u[i].num = u[j].num => i = j
<1> DEFINE faltan == {c.num : c \in l} \ {t[i].num : i \in DOMAIN t}
           n == Cardinality(faltan)
           X == {c \in l : c.num \in faltan}
           g == [c \in l |-> c.num]
<1>1. g \in Surjection(l, {c.num : c \in l})
  BY DEF Surjection
<1>2. IsFiniteSet(faltan)
  BY <1>1, FS_Surjection, FS_Subset
<1>3. n \in Nat
  BY <1>2, FS_CardinalityType
<1>4. PICK s \in [1 .. n -> X] :
        /\ u = t \o [i \in DOMAIN s |-> [num |-> s[i].num, dir |-> s[i].dir,
                                         activa |-> TRUE, socket |-> 0]]
        /\ \A i, j \in DOMAIN s : s[i].num = s[j].num => i = j
  BY DEF Agregadas
<1> HIDE DEF n
<1> DEFINE r == [i \in 1 .. n |-> [num |-> s[i].num, dir |-> s[i].dir,
                                   activa |-> TRUE, socket |-> 0]]
<1>5. u = t \o r
  BY <1>4
<1>6. \A i \in 1 .. n : s[i] \in Conocida /\ s[i] \in l /\ s[i].num \in faltan
  OBVIOUS
<1>7. \A i \in 1 .. n : r[i] \in Entrada
  BY <1>6 DEF Entrada, Conocida
<1>8. r \in [1 .. n -> Entrada]
  BY <1>7
<1>9. r \in Seq(Entrada) /\ Len(r) = n
  BY <1>8, <1>3
<1>10. /\ u \in Seq(Entrada)
       /\ Len(u) = Len(t) + n
       /\ \A i \in 1 .. Len(t) : u[i] = t[i]
       /\ \A i \in Len(t) + 1 .. Len(u) : i - Len(t) \in 1 .. n /\ u[i] = r[i - Len(t)]
  <2> HIDE DEF r
  <2>1. Len(t) \in Nat /\ Len(r) = n /\ n \in Nat
    BY <1>9, <1>3
  <2>2. u \in Seq(Entrada)
    BY <1>5, <1>9
  <2>3. Len(u) = Len(t) + n
    BY <1>5, <1>9
  <2>4. \A i \in 1 .. Len(t) + n : u[i] = IF i <= Len(t) THEN t[i] ELSE r[i - Len(t)]
    BY <1>5, <1>9
  <2>5. \A i \in 1 .. Len(t) : u[i] = t[i]
    BY <2>1, <2>4
  <2>6. \A i \in Len(t) + 1 .. Len(u) : i - Len(t) \in 1 .. n /\ u[i] = r[i - Len(t)]
    BY <2>1, <2>3, <2>4
  <2> QED
    BY <2>2, <2>3, <2>5, <2>6
<1>11. ASSUME NEW i \in Len(t) + 1 .. Len(u)
       PROVE  /\ u[i].activa
              /\ u[i].num = s[i - Len(t)].num
              /\ u[i].dir = s[i - Len(t)].dir
  <2>1. i - Len(t) \in 1 .. n /\ u[i] = r[i - Len(t)]
    BY <1>10
  <2>2. r[i - Len(t)] = [num |-> s[i - Len(t)].num, dir |-> s[i - Len(t)].dir,
                         activa |-> TRUE, socket |-> 0]
    BY <2>1
  <2> HIDE DEF r
  <2> QED
    BY <2>1, <2>2
<1>12. ASSUME NEW i \in Len(t) + 1 .. Len(u)
       PROVE  /\ [num |-> u[i].num, dir |-> u[i].dir] \in l
              /\ \A j \in 1 .. Len(t) : t[j].num # u[i].num
  <2>1. i - Len(t) \in 1 .. n
    BY <1>10
  <2>2. s[i - Len(t)] = [num |-> s[i - Len(t)].num, dir |-> s[i - Len(t)].dir]
    BY <2>1, <1>6 DEF Conocida
  <2>3. [num |-> u[i].num, dir |-> u[i].dir] \in l
    BY <2>1, <2>2, <1>6, <1>11
  <2>4. u[i].num \in faltan
    BY <2>1, <1>6, <1>11
  <2> QED
    BY <2>3, <2>4
<1>13. ASSUME NEW i \in Len(t) + 1 .. Len(u), NEW j \in Len(t) + 1 .. Len(u),
              u[i].num = u[j].num
       PROVE  i = j
  <2>1. /\ i - Len(t) \in 1 .. n
        /\ j - Len(t) \in 1 .. n
    BY <1>10
  <2>2. i - Len(t) = j - Len(t)
    BY <2>1, <1>11, <1>13, <1>4
  <2> QED
    BY <2>2
<1>14. Len(u) >= Len(t)
  BY <1>10, <1>3
<1> QED
  BY <1>10, <1>11, <1>12, <1>13, <1>14

LEMMA AgregadasBien ==
    ASSUME NEW m \in Memorias, NEW t, TablaBien(m, t),
           NEW l \in SUBSET Conocida, IsFiniteSet(l), NEW u \in Agregadas(t, l)
    PROVE  TablaBien(m, u) /\ Len(u) >= Len(t)
<1>1. t \in Seq(Entrada) /\ Len(t) >= 1 + Len(Seeds[m])
  BY DEF TablaBien
<1>2. /\ u \in Seq(Entrada)
      /\ Len(u) >= Len(t)
      /\ \A i \in 1 .. Len(t) : u[i] = t[i]
      /\ \A i \in Len(t) + 1 .. Len(u) :
            u[i].activa /\ \A j \in 1 .. Len(t) : t[j].num # u[i].num
      /\ \A i, j \in Len(t) + 1 .. Len(u) : u[i].num = u[j].num => i = j
  <2>1. t \in Seq(Entrada)
    BY <1>1
  <2>2. /\ u \in Seq(Entrada)
        /\ Len(u) >= Len(t)
        /\ \A i \in 1 .. Len(t) : u[i] = t[i]
        /\ \A i \in Len(t) + 1 .. Len(u) :
              /\ u[i].activa
              /\ [num |-> u[i].num, dir |-> u[i].dir] \in l
              /\ \A j \in 1 .. Len(t) : t[j].num # u[i].num
        /\ \A i, j \in Len(t) + 1 .. Len(u) : u[i].num = u[j].num => i = j
    BY <2>1, AgregadasSon, Zenon
  <2> QED
    BY <2>2
<1>3. Len(t) \in Nat /\ Len(u) \in Nat /\ Len(Seeds[m]) \in Nat
  BY <1>1, <1>2, SeedsTipo
<1>4. \A i \in 1 .. Len(u) : i \in 1 .. Len(t) \/ i \in Len(t) + 1 .. Len(u)
  BY <1>3
<1>5. ASSUME NEW i \in 1 .. Len(u), PosNumerada(m, i) PROVE u[i].activa
  BY <1>2, <1>4, <1>5 DEF TablaBien
<1>6. ASSUME NEW i \in 1 .. Len(u), NEW j \in 1 .. Len(u),
             PosNumerada(m, i), PosNumerada(m, j), u[i].num = u[j].num
      PROVE  i = j
  <2>1. CASE i \in 1 .. Len(t) /\ j \in 1 .. Len(t)
    <3>1. t[i].num = t[j].num
      BY <2>1, <1>2, <1>6
    <3> QED
      BY <2>1, <3>1, <1>6 DEF TablaBien
  <2>2. CASE i \in 1 .. Len(t) /\ j \in Len(t) + 1 .. Len(u)
    BY <2>2, <1>2, <1>6
  <2>3. CASE i \in Len(t) + 1 .. Len(u) /\ j \in 1 .. Len(t)
    BY <2>3, <1>2, <1>6
  <2>4. CASE i \in Len(t) + 1 .. Len(u) /\ j \in Len(t) + 1 .. Len(u)
    BY <2>4, <1>2, <1>6
  <2> QED
    BY <1>4, <2>1, <2>2, <2>3, <2>4
<1>7. Len(u) >= 1 + Len(Seeds[m])
  BY <1>1, <1>2, <1>3
<1> QED
  BY <1>2, <1>5, <1>6, <1>7 DEF TablaBien

\* Writing a field of an entry that leaves its number, or that of a seed.
LEMMA EntradaBien ==
    ASSUME NEW m \in Memorias, NEW t, TablaBien(m, t), NEW k \in 1 .. Len(t),
           NEW e \in Entrada,
           e.num = t[k].num \/ ~PosNumerada(m, k),
           t[k].activa => e.activa
    PROVE  LET u == [t EXCEPT ![k] = e]
           IN  TablaBien(m, u) /\ Len(u) = Len(t)
<1> DEFINE u == [t EXCEPT ![k] = e]
<1>1. t \in Seq(Entrada)
  BY DEF TablaBien
<1>2. /\ u \in Seq(Entrada)
      /\ Len(u) = Len(t)
      /\ \A i \in 1 .. Len(t) : u[i] = IF i = k THEN e ELSE t[i]
  BY <1>1
<1> HIDE DEF u
<1>3. \A i \in 1 .. Len(t) : PosNumerada(m, i) => u[i].activa /\ u[i].num = t[i].num
  BY <1>2 DEF TablaBien
<1> QED
  BY <1>2, <1>3 DEF TablaBien, u

-----------------------------------------------------------------------------
(* The parts of a step *)

LEMMA HilosDistintos ==
    /\ \A m \in Memorias : G(m) \in Hilos /\ C(m) \in Hilos
    /\ \A m, x \in Memorias : G(m) # C(x)
    /\ \A m, x \in Memorias : G(m) = G(x) => m = x
    /\ \A m, x \in Memorias : C(m) = C(x) => m = x
BY DEF Hilos, G, C

Estados == {"libre", "recorre", "saluda", "numera", "envia", "espera",
            "pedido", "responde", "respondido"}

\* An entry of one memory's table is written.
LEMMA Escribe ==
    ASSUME IInv, NEW m \in Memorias, NEW e \in Entrada,
           e.num = Actual(m).num \/ ~PosNumerada(m, lugar[m]),
           Actual(m).activa => e.activa,
           tabla' = [tabla EXCEPT ![m] = [tabla[m] EXCEPT ![lugar[m]] = e]]
    PROVE  /\ Tablas'
           /\ tabla' \in [Memorias -> Seq(Entrada)]
           /\ \A x \in Memorias : Len(tabla'[x]) = Len(tabla[x])
<1>1. lugar[m] \in 1 .. Len(tabla[m])
  BY DEF IInv, TypeOK
<1>2. TablaBien(m, tabla[m])
  BY DEF IInv, Tablas
<1> DEFINE u == [tabla[m] EXCEPT ![lugar[m]] = e]
<1>3. TablaBien(m, u) /\ Len(u) = Len(tabla[m])
  BY ZenonT(30), <1>1, <1>2, EntradaBien DEF Actual
<1>4. tabla \in [Memorias -> Seq(Entrada)]
  BY DEF IInv, TypeOK
<1>5. \A x \in Memorias : tabla'[x] = IF x = m THEN u ELSE tabla[x]
  BY <1>4
<1> HIDE DEF u
<1>6. u \in Seq(Entrada)
  BY <1>3 DEF TablaBien
<1>7. tabla' \in [Memorias -> Seq(Entrada)]
  BY <1>4, <1>6 DEF u
<1>8. \A x \in Memorias : TablaBien(x, tabla'[x])
  BY <1>3, <1>5 DEF IInv, Tablas
<1> QED
  BY <1>3, <1>5, <1>7, <1>8 DEF Tablas, TablaBien

\* agregar_memorias_gossiping on the table of a memory.
LEMMA Agranda ==
    ASSUME IInv, NEW m \in Memorias, NEW x \in Memorias,
           NEW t \in Agregadas(tabla[m], lista[x]),
           tabla' = [tabla EXCEPT ![m] = t]
    PROVE  /\ Tablas'
           /\ tabla' \in [Memorias -> Seq(Entrada)]
           /\ \A y \in Memorias : Len(tabla'[y]) >= Len(tabla[y])
           /\ tabla'[m] = t
<1>1. TablaBien(m, tabla[m]) /\ lista[x] \in SUBSET Conocida /\ IsFiniteSet(lista[x])
  BY DEF IInv, Tablas, TypeOK, Finitas
<1>2. TablaBien(m, t) /\ Len(t) >= Len(tabla[m])
  BY <1>1, AgregadasBien
<1>3. tabla \in [Memorias -> Seq(Entrada)]
  BY DEF IInv, TypeOK
<1>4. \A y \in Memorias : tabla'[y] = IF y = m THEN t ELSE tabla[y]
  BY <1>3
<1>5. t \in Seq(Entrada)
  BY <1>2 DEF TablaBien
<1>6. tabla' \in [Memorias -> Seq(Entrada)]
  BY <1>3, <1>5
<1>7. \A y \in Memorias : TablaBien(y, tabla'[y])
  BY <1>2, <1>4 DEF IInv, Tablas
<1>8. \A y \in Memorias : Len(tabla[y]) \in Nat
  BY <1>3
<1> QED
  BY <1>2, <1>4, <1>6, <1>7, <1>8 DEF Tablas

\* The walk goes on, in a table of at least one entry.
LEMMA Avanza ==
    ASSUME IInv, NEW m \in Memorias, NEW largo \in Nat,
           largo >= Len(tabla[m]), NEW libres, \A x \in Memorias : G(x) \notin libres,
           Siguiente(m, largo, libres)
    PROVE  /\ lugar' \in [Memorias -> Nat] /\ sigue' \in [Memorias -> BOOLEAN]
           /\ lugar'[m] \in 1 .. largo
           /\ sigue'[m] => lugar'[m] < largo
           /\ \A x \in Memorias \ {m} : lugar'[x] = lugar[x] /\ sigue'[x] = sigue[x]
           /\ pc' \in [Hilos -> Estados]
           /\ pc'[G(m)] \in {"recorre", "libre"}
           /\ \A x \in Memorias \ {m} : pc'[G(x)] = pc[G(x)]
<1>1. /\ lugar \in [Memorias -> Nat] /\ lugar[m] >= 1
      /\ sigue \in [Memorias -> BOOLEAN]
      /\ Len(tabla[m]) \in Nat /\ Len(tabla[m]) >= 1
      /\ sigue[m] => lugar[m] < Len(tabla[m])
  BY DEF IInv, TypeOK, Lugares
<1>2. /\ lugar' = [lugar EXCEPT ![m] = IF sigue[m] THEN @ + 1 ELSE 1]
      /\ sigue' = [sigue EXCEPT ![m] = @ /\ lugar[m] + 1 < largo]
  BY DEF Siguiente
<1>3. /\ lugar'[m] = (IF sigue[m] THEN lugar[m] + 1 ELSE 1)
      /\ sigue'[m] <=> sigue[m] /\ lugar[m] + 1 < largo
  BY <1>1, <1>2
<1>4. lugar' \in [Memorias -> Nat] /\ lugar'[m] \in 1 .. largo
  BY <1>1, <1>2, <1>3
<1>5. sigue' \in [Memorias -> BOOLEAN]
  BY <1>1, <1>2
<1>6. sigue'[m] => lugar'[m] < largo
  BY <1>3
<1>7. \A x \in Memorias \ {m} : lugar'[x] = lugar[x] /\ sigue'[x] = sigue[x]
  BY <1>1, <1>2
<1>8. pc \in [Hilos -> Estados]
  BY DEF IInv, TypeOK, Estados
<1>9. pc' = [h \in Hilos |->
                IF h = G(m) THEN IF sigue[m] THEN "recorre" ELSE "libre"
                ELSE IF h \in libres THEN "libre" ELSE pc[h]]
  BY DEF Siguiente
<1>10. pc' \in [Hilos -> Estados]
  BY <1>8, <1>9 DEF Estados
<1>11. pc'[G(m)] \in {"recorre", "libre"}
  BY <1>9, HilosDistintos
<1>12. \A x \in Memorias \ {m} : pc'[G(x)] = pc[G(x)]
  BY <1>9, HilosDistintos
<1> QED
  BY <1>4, <1>5, <1>6, <1>7, <1>10, <1>11, <1>12

\* What it leaves to see of the places, in a table that did not shrink.
LEMMA SigueEnLugar ==
    ASSUME IInv, NEW m \in Memorias,
           sigue' \in [Memorias -> BOOLEAN], tabla' \in [Memorias -> Seq(Entrada)],
           \A x \in Memorias : Len(tabla'[x]) >= Len(tabla[x]),
           lugar'[m] \in 1 .. Len(tabla'[m]),
           sigue'[m] => lugar'[m] < Len(tabla'[m]),
           \A x \in Memorias \ {m} : lugar'[x] = lugar[x] /\ sigue'[x] = sigue[x]
    PROVE  Lugares'
<1>1. \A x \in Memorias : Len(tabla'[x]) \in Nat /\ Len(tabla[x]) \in Nat
  BY DEF IInv, TypeOK
<1>2. \A x \in Memorias : /\ lugar[x] \in 1 .. Len(tabla[x])
                          /\ sigue[x] => lugar[x] < Len(tabla[x])
  BY DEF IInv, Lugares
<1>3. ASSUME NEW x \in Memorias
      PROVE  /\ lugar'[x] \in 1 .. Len(tabla'[x])
             /\ sigue'[x] => lugar'[x] < Len(tabla'[x])
  <2>1. CASE x = m
    BY <2>1
  <2>2. CASE x # m
    <3>1. /\ lugar'[x] = lugar[x] /\ sigue'[x] = sigue[x]
          /\ Len(tabla'[x]) >= Len(tabla[x])
      BY <2>2
    <3> QED
      BY <3>1, <1>1, <1>2
  <2> QED
    BY <2>1, <2>2
<1> QED
  BY <1>3 DEF Lugares

LEMMA MismosLugares ==
    ASSUME IInv, UNCHANGED <<lugar, sigue>>, tabla' \in [Memorias -> Seq(Entrada)],
           \A x \in Memorias : Len(tabla'[x]) >= Len(tabla[x])
    PROVE  Lugares'
<1>1. \A x \in Memorias : Len(tabla'[x]) \in Nat /\ Len(tabla[x]) \in Nat
  BY DEF IInv, TypeOK
<1>2. /\ sigue \in [Memorias -> BOOLEAN]
      /\ \A x \in Memorias : /\ lugar[x] \in 1 .. Len(tabla[x])
                             /\ sigue[x] => lugar[x] < Len(tabla[x])
  BY DEF IInv, Lugares
<1>3. ASSUME NEW x \in Memorias
      PROVE  /\ lugar'[x] \in 1 .. Len(tabla'[x])
             /\ sigue'[x] => lugar'[x] < Len(tabla'[x])
  <2>1. lugar'[x] = lugar[x] /\ sigue'[x] = sigue[x] /\ Len(tabla'[x]) >= Len(tabla[x])
    OBVIOUS
  <2> QED
    BY <2>1, <1>1, <1>2
<1> QED
  BY <1>2, <1>3 DEF Lugares

LEMMA Comienza == Init => IInv
<1> SUFFICES ASSUME Init PROVE IInv
  OBVIOUS
<1>1. \A m \in Memorias : TablaBien(m, tabla[m])
  BY InicialBien DEF Init
<1>2. \A m \in Memorias : /\ tabla[m] \in Seq(Entrada)
                          /\ 1 \in DOMAIN tabla[m]
  <2> TAKE m \in Memorias
  <2>1. tabla[m] \in Seq(Entrada) /\ Len(tabla[m]) >= 1 + Len(Seeds[m])
    BY <1>1 DEF TablaBien
  <2> QED
    BY <2>1, SeedsTipo
<1>3. tabla \in [Memorias -> Seq(Entrada)]
  BY <1>2 DEF Init
<1>4. TypeOK
  <2>1. pool \subseteq Conocida
    BY InicialAssumption DEF Init, Numeros, Conocida
  <2>2. /\ lugar \in [Memorias -> Nat]
        /\ \A m \in Memorias : lugar[m] \in DOMAIN tabla[m]
    BY <1>2 DEF Init
  <2>3. /\ numero \in [Memorias -> Numeros]
        /\ destino \in [Memorias -> Memorias]
        /\ lista \in [Memorias -> SUBSET Conocida]
    BY DEF Init, Numeros
  <2> QED
    BY <2>1, <2>2, <2>3, <1>3 DEF Init, TypeOK
<1>5. Finitas
  BY FS_EmptySet DEF Init, Finitas
<1>6. PideNumero
  BY HilosDistintos DEF Init, PideNumero
<1>7. Lugares
  <2>1. \A m \in Memorias : lugar[m] = 1 /\ sigue[m] = FALSE
    BY DEF Init
  <2>2. \A m \in Memorias : 1 \in 1 .. Len(tabla[m])
    BY <1>2
  <2>3. sigue \in [Memorias -> BOOLEAN]
    BY DEF Init
  <2> QED
    BY <2>1, <2>2, <2>3 DEF Lugares
<1> QED
  BY <1>1, <1>4, <1>5, <1>6, <1>7 DEF IInv, Tablas

-----------------------------------------------------------------------------
(* Every step *)

\* What is left to see of a step once its table is known to be well.
LEMMA Junta ==
    ASSUME IInv, Tablas', tabla' \in [Memorias -> Seq(Entrada)],
           viva' \in [Memorias -> BOOLEAN], vida' \in [Memorias -> Nat],
           pc' \in [Hilos -> Estados], lugar' \in [Memorias -> Nat],
           Lugares', numero' \in [Memorias -> Numeros], destino' \in [Memorias -> Memorias],
           lista' \in [Memorias -> SUBSET Conocida],
           \A x \in Memorias : IsFiniteSet(lista'[x]),
           pool' \subseteq Conocida, cortado' \in BOOLEAN, PideNumero'
    PROVE  IInv'
<1>1. \A x \in Memorias : lugar'[x] \in DOMAIN tabla'[x]
  BY DEF Lugares
<1>2. TypeOK'
  BY <1>1 DEF TypeOK, Estados, Lugares
<1> QED
  BY <1>2 DEF IInv, Finitas

\* A step that leaves the tables and the places alone.
LEMMA MismasTablas ==
    ASSUME IInv, UNCHANGED <<tabla, lugar, sigue>>
    PROVE  /\ Tablas' /\ tabla' \in [Memorias -> Seq(Entrada)]
           /\ lugar' \in [Memorias -> Nat] /\ Lugares'
<1>1. tabla \in [Memorias -> Seq(Entrada)]
  BY DEF IInv, TypeOK
<1>2. \A x \in Memorias : DOMAIN tabla[x] = 1 .. Len(tabla[x])
  BY <1>1
<1> QED
  BY <1>1, <1>2 DEF IInv, TypeOK, Tablas, Lugares

LEMMA Sigue == IInv /\ [Next]_vars => IInv'
<1> SUFFICES ASSUME IInv, [Next]_vars PROVE IInv'
  OBVIOUS
<1>0. /\ viva \in [Memorias -> BOOLEAN] /\ vida \in [Memorias -> Nat]
      /\ tabla \in [Memorias -> Seq(Entrada)] /\ pc \in [Hilos -> Estados]
      /\ lugar \in [Memorias -> Nat]
      /\ \A m \in Memorias : lugar[m] \in 1 .. Len(tabla[m])
      /\ numero \in [Memorias -> Numeros] /\ destino \in [Memorias -> Memorias]
      /\ lista \in [Memorias -> SUBSET Conocida]
      /\ \A m \in Memorias : IsFiniteSet(lista[m])
      /\ pool \subseteq Conocida /\ cortado \in BOOLEAN
  <2>1. tabla \in [Memorias -> Seq(Entrada)]
    BY DEF IInv, TypeOK
  <2>2. \A m \in Memorias : DOMAIN tabla[m] = 1 .. Len(tabla[m]) 
    BY <2>1
  <2> QED
    BY <2>1, <2>2 DEF IInv, TypeOK, Finitas, Estados
<1>00. \A m \in Memorias : /\ Len(tabla[m]) \in Nat
                           /\ Len(tabla[m]) >= lugar[m]
                           /\ Actual(m) \in Entrada
                           /\ TablaBien(m, tabla[m])
  BY <1>0 DEF IInv, Tablas, Actual
<1>p. \A m \in Memorias : pc[G(m)] \in {"saluda", "numera"} => ~PosNumerada(m, lugar[m])
  BY DEF IInv, PideNumero
<1>1. CASE UNCHANGED vars
  <2>1. PideNumero'
    BY <1>1, <1>p DEF vars, PideNumero, PosNumerada
  <2> QED
    BY <1>1, <2>1, <1>0, MismasTablas, Junta DEF vars
<1>2. ASSUME NEW m \in Memorias, EmpiezaRonda(m) PROVE IInv'
  <2>1. lugar' \in [Memorias -> Nat]
    BY <1>2, <1>0 DEF EmpiezaRonda
  <2>2. Lugares'
    <3>1. /\ lugar' = [lugar EXCEPT ![m] = 2]
          /\ sigue' = [sigue EXCEPT ![m] = Len(tabla[m]) > 2]
          /\ tabla' = tabla /\ Len(tabla[m]) > 1
      BY <1>2 DEF EmpiezaRonda
    <3>2. sigue \in [Memorias -> BOOLEAN]
      BY DEF IInv, Lugares
    <3>3. /\ sigue' \in [Memorias -> BOOLEAN]
          /\ \A x \in Memorias \ {m} : lugar'[x] = lugar[x] /\ sigue'[x] = sigue[x]
          /\ lugar'[m] = 2 /\ (sigue'[m] => Len(tabla[m]) > 2)
      <4>1. /\ lugar'[m] = 2
            /\ \A x \in Memorias \ {m} : lugar'[x] = lugar[x]
        BY <3>1, <1>0
      <4>2. (Len(tabla[m]) > 2) \in BOOLEAN
        BY <1>00
      <4>3. /\ sigue' \in [Memorias -> BOOLEAN]
            /\ \A x \in Memorias \ {m} : sigue'[x] = sigue[x]
            /\ sigue'[m] => Len(tabla[m]) > 2
        <5> DEFINE b == Len(tabla[m]) > 2
        <5>1. sigue' = [sigue EXCEPT ![m] = b] /\ b \in BOOLEAN
          BY <3>1, <4>2
        <5>2. (sigue'[m] => b) => (sigue'[m] => Len(tabla[m]) > 2)
          OBVIOUS
        <5> HIDE DEF b
        <5>3. /\ sigue' \in [Memorias -> BOOLEAN]
              /\ \A x \in Memorias \ {m} : sigue'[x] = sigue[x]
              /\ sigue'[m] => b
          BY <5>1, <3>2, Zenon
        <5> QED
          BY <5>2, <5>3
      <4> QED
        BY <4>1, <4>3
    <3>4. \A x \in Memorias : Len(tabla'[x]) >= Len(tabla[x])
      BY <3>1, <1>00
    <3>5. lugar'[m] \in 1 .. Len(tabla'[m]) /\ (sigue'[m] => lugar'[m] < Len(tabla'[m]))
      <4>1. Len(tabla[m]) \in Nat /\ Len(tabla[m]) > 1 /\ tabla'[m] = tabla[m]
        BY <3>1, <1>00
      <4> QED
        BY <4>1, <3>3
    <3> QED
      BY <3>1, <3>3, <3>4, <3>5, <1>0, SigueEnLugar
  <2>3. pc' \in [Hilos -> Estados]
    BY <1>2, <1>0 DEF EmpiezaRonda, Estados
  <2>4. PideNumero'
    BY <1>2, <1>0, <1>p, HilosDistintos DEF EmpiezaRonda, PideNumero, PosNumerada
  <2>5. Tablas' /\ tabla' \in [Memorias -> Seq(Entrada)]
    BY <1>2, <1>0 DEF EmpiezaRonda, IInv, Tablas
  <2> QED
    BY <1>2, <1>0, <2>1, <2>2, <2>3, <2>4, <2>5, Junta DEF EmpiezaRonda
<1>3. ASSUME NEW m \in Memorias, Saltea(m) PROVE IInv'
  <2>1. /\ lugar' \in [Memorias -> Nat] /\ pc' \in [Hilos -> Estados]
        /\ sigue' \in [Memorias -> BOOLEAN]
        /\ lugar'[m] \in 1 .. Len(tabla[m]) /\ (sigue'[m] => lugar'[m] < Len(tabla[m]))
        /\ \A x \in Memorias \ {m} :
              lugar'[x] = lugar[x] /\ sigue'[x] = sigue[x] /\ pc'[G(x)] = pc[G(x)]
        /\ pc'[G(m)] \in {"recorre", "libre"}
    BY <1>3, <1>00, Avanza DEF Saltea, IInv
  <2>2. PideNumero'
    BY <2>1, <1>p DEF PideNumero, PosNumerada
  <2>3. Tablas' /\ Lugares'
    <3>1. tabla' = tabla
      BY <1>3 DEF Saltea
    <3>2. Tablas'
      BY <3>1 DEF IInv, Tablas
    <3>3. \A x \in Memorias : Len(tabla'[x]) >= Len(tabla[x])
      BY <3>1, <1>00
    <3> QED
      BY <2>1, <3>1, <3>2, <3>3, <1>0, SigueEnLugar
  <2> QED
    BY <1>3, <1>0, <2>1, <2>2, <2>3, Junta DEF Saltea
<1>4. ASSUME NEW m \in Memorias, Rechazada(m) \/ Cierra(m) \/ RecibeNada(m)
      PROVE  IInv'
  <2>0. /\ Siguiente(m, Len(tabla[m]), {})
        /\ UNCHANGED <<viva, vida, numero, destino, lista, pool, cortado>>
    BY <1>4, Zenon DEF Rechazada, Cierra, RecibeNada
  <2>00. PICK v \in Int : tabla' = [tabla EXCEPT ![m][lugar[m]].socket = v]
    <3>1. \/ tabla' = [tabla EXCEPT ![m][lugar[m]].socket = 0]
          \/ tabla' = [tabla EXCEPT ![m][lugar[m]].socket = -1]
      BY <1>4, Zenon DEF Rechazada, Cierra, RecibeNada, Rota
    <3>2. 0 \in Int /\ -1 \in Int
      OBVIOUS
    <3> QED
      BY <3>1, <3>2, Zenon
  <2> DEFINE e == [Actual(m) EXCEPT !.socket = v]
  <2>1. e \in Entrada /\ e.num = Actual(m).num /\ e.activa = Actual(m).activa
    BY <1>00 DEF Entrada
  <2>2. tabla' = [tabla EXCEPT ![m] = [tabla[m] EXCEPT ![lugar[m]] = e]]
    BY <2>00, <1>0 DEF Actual
  <2>3. /\ Tablas' /\ tabla' \in [Memorias -> Seq(Entrada)]
        /\ \A x \in Memorias : Len(tabla'[x]) = Len(tabla[x])
    <3> HIDE DEF e
    <3> QED
      BY <2>1, <2>2, Escribe
  <2>4. /\ lugar' \in [Memorias -> Nat] /\ pc' \in [Hilos -> Estados]
        /\ sigue' \in [Memorias -> BOOLEAN]
        /\ lugar'[m] \in 1 .. Len(tabla[m]) /\ (sigue'[m] => lugar'[m] < Len(tabla[m]))
        /\ \A x \in Memorias \ {m} :
              lugar'[x] = lugar[x] /\ sigue'[x] = sigue[x] /\ pc'[G(x)] = pc[G(x)]
        /\ pc'[G(m)] \in {"recorre", "libre"}
    BY <2>0, <1>00, Avanza DEF IInv
  <2>5. PideNumero'
    BY <2>4, <1>p DEF PideNumero, PosNumerada
  <2>6. Lugares'
    <3>1. \A x \in Memorias : Len(tabla'[x]) >= Len(tabla[x])
      BY <2>3, <1>00
    <3>2. lugar'[m] \in 1 .. Len(tabla'[m]) /\ (sigue'[m] => lugar'[m] < Len(tabla'[m]))
      BY <2>3, <2>4
    <3> QED
      BY <2>3, <2>4, <3>1, <3>2, SigueEnLugar
  <2> QED
    BY <2>0, <1>0, <2>3, <2>4, <2>5, <2>6, Junta
<1>5. ASSUME NEW m \in Memorias, Conecta(m) PROVE IInv'
  <2> DEFINE e == [Actual(m) EXCEPT !.socket = vida[Actual(m).dir]]
  <2>1. e \in Entrada /\ e.num = Actual(m).num /\ e.activa = Actual(m).activa
    <3>1. Actual(m) \in Entrada
      BY <1>00
    <3>2. Actual(m).dir \in Memorias
      BY <3>1 DEF Entrada
    <3>3. vida[Actual(m).dir] \in Int
      BY <3>2, <1>0
    <3> HIDE DEF Actual
    <3> QED
      BY <3>1, <3>3 DEF Entrada
  <2>2. tabla' = [tabla EXCEPT ![m] = [tabla[m] EXCEPT ![lugar[m]] = e]]
    BY <1>5, <1>0 DEF Conecta, Actual
  <2>3. /\ Tablas' /\ tabla' \in [Memorias -> Seq(Entrada)]
        /\ \A x \in Memorias : Len(tabla'[x]) = Len(tabla[x])
    <3> HIDE DEF e
    <3> QED
      BY <2>1, <2>2, Escribe
  <2>4. PosNumerada(m, lugar[m]) => Actual(m).activa
    BY <1>00, <1>0 DEF TablaBien, Actual
  <2>5. /\ pc' \in [Hilos -> Estados]
        /\ pc'[G(m)] = (IF Actual(m).activa THEN "envia" ELSE "saluda")
        /\ \A x \in Memorias \ {m} : pc'[G(x)] = pc[G(x)]
    BY <1>5, <1>0, HilosDistintos DEF Conecta, Estados
  <2>6. PideNumero'
    BY <1>5, <2>4, <2>5, <1>p DEF Conecta, PideNumero, PosNumerada
  <2>7. Lugares'
    <3>1. UNCHANGED <<lugar, sigue>>
      BY <1>5 DEF Conecta
    <3>2. \A x \in Memorias : Len(tabla'[x]) >= Len(tabla[x])
      BY <2>3, <1>00
    <3> QED
      BY <2>3, <3>1, <3>2, MismosLugares
  <2> QED
    BY <1>5, <1>0, <2>3, <2>5, <2>6, <2>7, Junta DEF Conecta
<1>6. ASSUME NEW m \in Memorias, Saluda(m) PROVE IInv'
  <2> DEFINE e == [Actual(m) EXCEPT !.activa = TRUE]
  <2>1. e \in Entrada /\ e.num = Actual(m).num /\ e.activa
    <3>1. Actual(m) \in Entrada
      BY <1>00
    <3> HIDE DEF Actual
    <3> QED
      BY <3>1 DEF Entrada
  <2>2. tabla' = [tabla EXCEPT ![m] = [tabla[m] EXCEPT ![lugar[m]] = e]]
    BY <1>6, <1>0 DEF Saluda, Actual
  <2>3. /\ Tablas' /\ tabla' \in [Memorias -> Seq(Entrada)]
        /\ \A x \in Memorias : Len(tabla'[x]) = Len(tabla[x])
    <3> HIDE DEF e
    <3> QED
      BY <2>1, <2>2, Escribe
  <2>4. numero' \in [Memorias -> Numeros] /\ cortado' \in BOOLEAN
    <3>1. Actual(m).dir \in Numeros
      BY <1>00 DEF Entrada, Numeros
    <3>2. PICK n \in Numeros : numero' = [numero EXCEPT ![m] = n]
      BY <1>6, <3>1 DEF Saluda
    <3>3. numero' \in [Memorias -> Numeros]
      BY <3>2, <1>0
    <3> QED
      BY <3>3, <1>6, <1>0 DEF Saluda, Vigente
  <2>5. /\ pc' \in [Hilos -> Estados]
        /\ \A x \in Memorias \ {m} : pc'[G(x)] = pc[G(x)]
        /\ pc[G(m)] = "saluda"
    BY <1>6, <1>0, HilosDistintos DEF Saluda, Estados
  <2>6. PideNumero'
    BY <1>6, <2>5, <1>p DEF Saluda, PideNumero, PosNumerada
  <2>7. Lugares'
    <3>1. UNCHANGED <<lugar, sigue>>
      BY <1>6 DEF Saluda
    <3>2. \A x \in Memorias : Len(tabla'[x]) >= Len(tabla[x])
      BY <2>3, <1>00
    <3> QED
      BY <2>3, <3>1, <3>2, MismosLugares
  <2> QED
    BY <1>6, <1>0, <2>3, <2>4, <2>5, <2>6, <2>7, Junta DEF Saluda
<1>7. ASSUME NEW m \in Memorias, Numera(m) PROVE IInv'
  <2> DEFINE e == [Actual(m) EXCEPT !.num = numero[m]]
  <2>1. e \in Entrada /\ e.activa = Actual(m).activa
    <3>1. Actual(m) \in Entrada /\ numero[m] \in Numeros
      BY <1>00, <1>0
    <3> QED
      BY <3>1 DEF Entrada
  <2>2. tabla' = [tabla EXCEPT ![m] = [tabla[m] EXCEPT ![lugar[m]] = e]]
    BY <1>7, <1>0 DEF Numera, Actual
  <2>3. ~PosNumerada(m, lugar[m])
    BY <1>7, <1>p DEF Numera
  <2>4. /\ Tablas' /\ tabla' \in [Memorias -> Seq(Entrada)]
        /\ \A x \in Memorias : Len(tabla'[x]) = Len(tabla[x])
    <3> HIDE DEF e
    <3> QED
      BY <2>1, <2>2, <2>3, Escribe
  <2>5. numero' \in [Memorias -> Numeros]
    BY <1>7, <1>0 DEF Numera, Numeros
  <2>6. /\ pc' \in [Hilos -> Estados]
        /\ \A x \in Memorias \ {m} : pc'[G(x)] = pc[G(x)]
        /\ pc'[G(m)] = "envia"
    BY <1>7, <1>0, HilosDistintos DEF Numera, Estados
  <2>7. PideNumero'
    BY <1>7, <2>6, <1>p DEF Numera, PideNumero, PosNumerada
  <2>8. Lugares'
    <3>1. UNCHANGED <<lugar, sigue>>
      BY <1>7 DEF Numera
    <3>2. \A x \in Memorias : Len(tabla'[x]) >= Len(tabla[x])
      BY <2>4, <1>00
    <3> QED
      BY <2>4, <3>1, <3>2, MismosLugares
  <2> QED
    BY <1>7, <1>0, <2>4, <2>5, <2>6, <2>7, <2>8, Junta DEF Numera
<1>8. ASSUME NEW m \in Memorias, Envia(m) PROVE IInv'
  <2>1. /\ MemoriasActivas(tabla[m]) \in SUBSET Conocida
        /\ IsFiniteSet(MemoriasActivas(tabla[m]))
    BY <1>0, ActivasFinitas
  <2>2. /\ destino' \in [Memorias -> Memorias]
        /\ lista' \in [Memorias -> SUBSET Conocida]
        /\ \A x \in Memorias : IsFiniteSet(lista'[x])
    <3>1. Actual(m).dir \in Memorias
      BY <1>00 DEF Entrada
    <3>2. CASE Vigente(Actual(m).dir, Actual(m).socket)
      BY ZenonT(30), <1>8, <1>0, <2>1, <3>1, <3>2 DEF Envia
    <3>3. CASE ~Vigente(Actual(m).dir, Actual(m).socket)
      BY <1>8, <1>0, <3>3 DEF Envia
    <3> QED
      BY <3>2, <3>3
  <2>3. /\ pc' \in [Hilos -> Estados]
        /\ pc'[G(m)] = "espera"
        /\ \A x \in Memorias \ {m} : pc'[G(x)] = pc[G(x)]
    <3>1. CASE Vigente(Actual(m).dir, Actual(m).socket)
      <4>1. pc' = [pc EXCEPT ![G(m)] = "espera", ![C(m)] = "pedido"]
        BY <1>8, <3>1 DEF Envia
      <4>2. /\ G(m) \in Hilos /\ C(m) \in Hilos /\ G(m) # C(m)
            /\ \A x \in Memorias \ {m} : G(x) \in Hilos /\ G(x) # G(m) /\ G(x) # C(m)
        BY HilosDistintos
      <4>3. pc \in [Hilos -> Estados] /\ {"espera", "pedido"} \subseteq Estados
        BY <1>0 DEF Estados
      <4> QED
        BY <4>1, <4>2, <4>3
    <3>2. CASE ~Vigente(Actual(m).dir, Actual(m).socket)
      BY <1>8, <1>0, <3>2, HilosDistintos DEF Envia, Estados
    <3> QED
      BY <3>1, <3>2
  <2>4. PideNumero'
    BY <1>8, <2>3, <1>p DEF Envia, PideNumero, PosNumerada
  <2>5. UNCHANGED <<tabla, lugar, sigue>>
    BY <1>8 DEF Envia
  <2> QED
    BY <1>8, <1>0, <2>2, <2>3, <2>4, <2>5, MismasTablas, Junta DEF Envia
<1>9. ASSUME NEW m \in Memorias, Recibe(m) PROVE IInv'
  <2>1. PICK t \in Agregadas(tabla[m], lista[m]) :
          tabla' = [tabla EXCEPT ![m] = t] /\ Siguiente(m, Len(t), {C(m)})
    BY <1>9 DEF Recibe
  <2>2. /\ Tablas' /\ tabla' \in [Memorias -> Seq(Entrada)]
        /\ \A y \in Memorias : Len(tabla'[y]) >= Len(tabla[y])
        /\ tabla'[m] = t
    BY <2>1, Agranda
  <2>3. Len(t) \in Nat /\ Len(t) >= Len(tabla[m])
    BY <2>2, <1>00, <1>0
  <2>4. /\ lugar' \in [Memorias -> Nat] /\ pc' \in [Hilos -> Estados]
        /\ sigue' \in [Memorias -> BOOLEAN]
        /\ lugar'[m] \in 1 .. Len(t) /\ (sigue'[m] => lugar'[m] < Len(t))
        /\ \A x \in Memorias \ {m} :
              lugar'[x] = lugar[x] /\ sigue'[x] = sigue[x] /\ pc'[G(x)] = pc[G(x)]
        /\ pc'[G(m)] \in {"recorre", "libre"}
    <3>1. \A x \in Memorias : G(x) \notin {C(m)}
      BY HilosDistintos
    <3> QED
      BY <2>1, <2>3, <3>1, Avanza DEF IInv
  <2>5. PideNumero'
    BY <2>4, <1>p DEF PideNumero, PosNumerada
  <2>6. Lugares'
    <3>1. lugar'[m] \in 1 .. Len(tabla'[m]) /\ (sigue'[m] => lugar'[m] < Len(tabla'[m]))
      BY <2>2, <2>4
    <3> QED
      BY <2>2, <2>4, <3>1, SigueEnLugar
  <2>7. lista' \in [Memorias -> SUBSET Conocida] /\ \A x \in Memorias : IsFiniteSet(lista'[x])
    BY <1>9, <1>0, FS_EmptySet DEF Recibe
  <2> QED
    BY <1>9, <1>0, <2>2, <2>4, <2>5, <2>6, <2>7, Junta DEF Recibe
<1>10. ASSUME NEW m \in Memorias, Atiende(m) PROVE IInv'
  <2> DEFINE d == destino[m]
  <2>1. PICK t \in Agregadas(tabla[d], lista[m]) : tabla' = [tabla EXCEPT ![d] = t]
    BY <1>10 DEF Atiende
  <2>2. d \in Memorias
    BY <1>0
  <2>3. /\ Tablas' /\ tabla' \in [Memorias -> Seq(Entrada)]
        /\ \A y \in Memorias : Len(tabla'[y]) >= Len(tabla[y])
    BY <2>1, <2>2, Agranda
  <2>4. Lugares'
    <3>1. UNCHANGED <<lugar, sigue>>
      BY <1>10 DEF Atiende
    <3> QED
      BY <2>3, <3>1, MismosLugares
  <2>5. pc' \in [Hilos -> Estados] /\ \A x \in Memorias : pc'[G(x)] = pc[G(x)]
    BY <1>10, <1>0, HilosDistintos DEF Atiende, Estados
  <2>6. PideNumero'
    BY <1>10, <2>5, <1>p DEF Atiende, PideNumero, PosNumerada
  <2>7. lista' \in [Memorias -> SUBSET Conocida] /\ \A x \in Memorias : IsFiniteSet(lista'[x])
    BY <1>10, <1>0, FS_EmptySet DEF Atiende
  <2> QED
    BY <1>10, <1>0, <2>3, <2>4, <2>5, <2>6, <2>7, Junta DEF Atiende
<1>11. ASSUME NEW m \in Memorias, Responde(m) PROVE IInv'
  <2>1. /\ MemoriasActivas(tabla[destino[m]]) \in SUBSET Conocida
        /\ IsFiniteSet(MemoriasActivas(tabla[destino[m]]))
    BY <1>0, ActivasFinitas
  <2>2. lista' \in [Memorias -> SUBSET Conocida] /\ \A x \in Memorias : IsFiniteSet(lista'[x])
    <3>1. CASE viva[m]
      BY ZenonT(30), <1>11, <1>0, <2>1, <3>1 DEF Responde
    <3>2. CASE ~viva[m]
      BY <1>11, <1>0, <3>2 DEF Responde
    <3> QED
      BY <3>1, <3>2
  <2>3. pc' \in [Hilos -> Estados] /\ \A x \in Memorias : pc'[G(x)] = pc[G(x)]
    <3>1. CASE viva[m]
      BY <1>11, <1>0, <3>1, HilosDistintos DEF Responde, Estados
    <3>2. CASE ~viva[m]
      BY <1>11, <1>0, <3>2, HilosDistintos DEF Responde, Estados
    <3> QED
      BY <3>1, <3>2
  <2>4. UNCHANGED <<tabla, lugar, sigue>>
    BY <1>11 DEF Responde
  <2>5. PideNumero'
    BY <2>4, <2>3, <1>p DEF PideNumero, PosNumerada
  <2> QED
    BY <1>11, <1>0, <2>2, <2>3, <2>4, <2>5, MismasTablas, Junta DEF Responde
<1>12. CASE KernelAgrega
  <2>0. PICK c \in pool :
          \E a \in MemoriasActivas(tabla[c.dir]) : pool' = pool \cup {a}
    BY <1>12 DEF KernelAgrega
  <2>1. PICK a \in MemoriasActivas(tabla[c.dir]) : pool' = pool \cup {a}
    BY <2>0
  <2>2. c.dir \in Memorias
    BY <1>0 DEF Conocida
  <2>3. a \in Conocida
    BY <2>2, <1>0, ActivasFinitas
  <2>4. pool' \subseteq Conocida
    BY <2>1, <2>3, <1>0
  <2>5. UNCHANGED <<tabla, lugar, sigue, pc>>
    BY <1>12 DEF KernelAgrega
  <2>6. PideNumero'
    BY <2>5, <1>p DEF PideNumero, PosNumerada
  <2> QED
    BY <1>12, <1>0, <2>4, <2>5, <2>6, MismasTablas, Junta DEF KernelAgrega
<1>13. ASSUME NEW m \in Memorias, Cae(m) PROVE IInv'
  <2>1. TablaBien(m, TablaInicial(m))
    BY InicialBien
  <2>2. \A x \in Memorias : tabla'[x] = IF x = m THEN TablaInicial(m) ELSE tabla[x]
    BY <1>13, <1>0 DEF Cae
  <2>3. TablaInicial(m) \in Seq(Entrada) /\ Len(TablaInicial(m)) >= 1
    BY <2>1, SeedsTipo DEF TablaBien
  <2>4. tabla' \in [Memorias -> Seq(Entrada)]
    BY <1>13, <1>0, <2>3 DEF Cae
  <2>5. Tablas'
    BY SMTT(20), <2>1, <2>2 DEF IInv, Tablas, TablaBien, PosNumerada
  <2>6. lugar' \in [Memorias -> Nat] /\ \A x \in Memorias : lugar'[x] = IF x = m THEN 1 ELSE lugar[x]
    BY <1>13, <1>0 DEF Cae
  <2>7. Lugares'
    <3>1. sigue \in [Memorias -> BOOLEAN] /\ sigue' = [sigue EXCEPT ![m] = FALSE]
      BY <1>13 DEF Cae, IInv, Lugares
    <3>2. /\ sigue' \in [Memorias -> BOOLEAN]
          /\ \A x \in Memorias : sigue'[x] => x # m /\ sigue[x]
      BY <3>1
    <3>3. ASSUME NEW x \in Memorias
          PROVE  /\ lugar'[x] \in 1 .. Len(tabla'[x])
                 /\ sigue'[x] => lugar'[x] < Len(tabla'[x])
      <4>1. CASE x = m
        BY <4>1, <2>2, <2>3, <2>6, <3>2
      <4>2. CASE x # m
        <5>1. tabla'[x] = tabla[x] /\ lugar'[x] = lugar[x] /\ (sigue'[x] => sigue[x])
          BY <4>2, <2>2, <2>6, <3>2
        <5> QED
          BY <5>1 DEF IInv, Lugares
      <4> QED
        BY <4>1, <4>2
    <3> QED
      BY <3>2, <3>3 DEF Lugares
  <2>8. /\ pc' \in [Hilos -> Estados]
        /\ pc'[G(m)] = "libre"
        /\ \A x \in Memorias \ {m} : pc'[G(x)] = pc[G(x)]
    <3>1. pc' = [h \in Hilos |-> IF h \in MueraCon(m) THEN "libre" ELSE pc[h]]
      BY <1>13 DEF Cae
    <3>2. G(m) \in MueraCon(m) /\ \A x \in Memorias \ {m} : G(x) \notin MueraCon(m)
      BY HilosDistintos DEF MueraCon
    <3> QED
      BY <3>1, <3>2, <1>0, HilosDistintos DEF Estados
  <2>9. PideNumero'
    BY <2>6, <2>8, <1>p DEF PideNumero, PosNumerada
  <2>10. lista' \in [Memorias -> SUBSET Conocida] /\ \A x \in Memorias : IsFiniteSet(lista'[x])
    <3>1. lista' = [x \in Memorias |-> IF C(x) \in MueraCon(m) THEN {} ELSE lista[x]]
      BY <1>13 DEF Cae
    <3> QED
      BY <3>1, <1>0, FS_EmptySet
  <2>11. /\ viva' \in [Memorias -> BOOLEAN]
         /\ numero' \in [Memorias -> Numeros]
    BY <1>13, <1>0 DEF Cae, Numeros
  <2> QED
    BY <1>13, <1>0, <2>4, <2>5, <2>6, <2>7, <2>8, <2>9, <2>10, <2>11, Junta DEF Cae
<1>14. ASSUME NEW m \in Memorias, Arranca(m) PROVE IInv'
  <2>1. viva' \in [Memorias -> BOOLEAN] /\ vida' \in [Memorias -> Nat]
    BY <1>14, <1>0 DEF Arranca
  <2>2. UNCHANGED <<tabla, lugar, sigue, pc>>
    BY <1>14 DEF Arranca
  <2>3. PideNumero'
    BY <2>2, <1>p DEF PideNumero, PosNumerada
  <2> QED
    BY <1>14, <1>0, <2>1, <2>2, <2>3, MismasTablas, Junta DEF Arranca
<1> QED
  BY <1>1, <1>2, <1>3, <1>4, <1>5, <1>6, <1>7, <1>8, <1>9, <1>10, <1>11, <1>12, <1>13,
     <1>14 DEF Next, PasoGossip, PasoConexion

-----------------------------------------------------------------------------
\* Every variable has its type, and the gossiping thread is always at an entry
\* the table has.
THEOREM Tipos == Spec => []TypeOK
<1>1. IInv => TypeOK
  BY DEF IInv
<1> QED
  BY Comienza, Sigue, <1>1, PTL DEF Spec

\* agregar_memorias_gossiping, whoever calls it and whatever the gossiping thread
\* writes without the mutex, leaves each memory once among the entries that are
\* not seeds.
THEOREM SinRepetidas == Spec => []SinDuplicadas
<1>1. IInv => SinDuplicadas
  <2> SUFFICES ASSUME IInv, NEW m \in Memorias,
                      NEW i \in Numeradas(m), NEW j \in Numeradas(m),
                      tabla[m][i].num = tabla[m][j].num
               PROVE  i = j
    BY DEF SinDuplicadas
  <2>1. tabla[m] \in Seq(Entrada) /\ TablaBien(m, tabla[m])
    BY DEF IInv, TypeOK, Tablas
  <2>2. DOMAIN tabla[m] = 1 .. Len(tabla[m])
    BY <2>1
  <2>3. /\ i \in 1 .. Len(tabla[m]) /\ PosNumerada(m, i)
        /\ j \in 1 .. Len(tabla[m]) /\ PosNumerada(m, j)
    BY <2>2 DEF Numeradas, PosNumerada
  <2> QED
    BY <2>1, <2>3 DEF TablaBien
<1> QED
  BY Comienza, Sigue, <1>1, PTL DEF Spec

-----------------------------------------------------------------------------
(* The numbers *)

Cierta(c) == c.num \in {c.dir, SinNumero}

\* As long as no recv of a number was cut: every entry, also those on their way,
\* has its own number or none, and so has the one a thread is about to write.
Ciertas ==
    /\ \A m \in Memorias : \A i \in 1 .. Len(tabla[m]) : Cierta(tabla[m][i])
    /\ \A m \in Memorias : \A c \in lista[m] : Cierta(c)
    /\ \A c \in pool : Cierta(c)
    /\ \A m \in Memorias : pc[G(m)] = "numera" => numero[m] = Actual(m).dir

CInv == cortado \/ Ciertas

LEMMA ActivasCiertas ==
    ASSUME NEW t \in Seq(Entrada), \A i \in 1 .. Len(t) : Cierta(t[i])
    PROVE  \A c \in MemoriasActivas(t) : Cierta(c)
<1>1. DOMAIN t = 1 .. Len(t)
  OBVIOUS
<1> QED
  BY <1>1 DEF MemoriasActivas, Cierta

LEMMA InicialCierta ==
    ASSUME NEW m \in Memorias
    PROVE  \A i \in 1 .. Len(TablaInicial(m)) : Cierta(TablaInicial(m)[i])
<1>1. TablaInicial(m) \in Seq(Entrada)
  BY InicialBien DEF TablaBien
<1>2. DOMAIN TablaInicial(m) = 1 .. Len(TablaInicial(m))
  BY <1>1
<1>3. \A i \in DOMAIN TablaInicial(m) : Cierta(TablaInicial(m)[i])
  BY DEF TablaInicial, Cierta
<1> QED
  BY <1>2, <1>3

LEMMA EscribeCierta ==
    ASSUME IInv, Ciertas, NEW m \in Memorias, NEW e \in Entrada, Cierta(e),
           e.dir = Actual(m).dir,
           tabla' = [tabla EXCEPT ![m] = [tabla[m] EXCEPT ![lugar[m]] = e]]
    PROVE  /\ \A x \in Memorias : \A i \in 1 .. Len(tabla'[x]) : Cierta(tabla'[x][i])
           /\ \A x \in Memorias : tabla'[x][lugar[x]].dir = Actual(x).dir
<1>1. /\ tabla \in [Memorias -> Seq(Entrada)]
      /\ lugar[m] \in DOMAIN tabla[m]
  BY DEF IInv, TypeOK
<1> DEFINE u == [tabla[m] EXCEPT ![lugar[m]] = e]
<1>2. /\ Len(u) = Len(tabla[m])
      /\ \A i \in 1 .. Len(u) : u[i] = IF i = lugar[m] THEN e ELSE tabla[m][i]
      /\ u[lugar[m]] = e
  BY <1>1
<1>3. \A x \in Memorias : tabla'[x] = IF x = m THEN u ELSE tabla[x]
  BY <1>1
<1> HIDE DEF u
<1>4. \A i \in 1 .. Len(u) : Cierta(u[i])
  BY <1>2 DEF Ciertas
<1> QED
  BY <1>2, <1>3, <1>4 DEF Ciertas, Actual

LEMMA AgrandaCierta ==
    ASSUME IInv, Ciertas, NEW m \in Memorias, NEW x \in Memorias,
           NEW t \in Agregadas(tabla[m], lista[x]),
           tabla' = [tabla EXCEPT ![m] = t]
    PROVE  /\ \A y \in Memorias : \A i \in 1 .. Len(tabla'[y]) : Cierta(tabla'[y][i])
           /\ \A y \in Memorias : tabla'[y][lugar[y]].dir = Actual(y).dir
<1> DEFINE u == tabla[m]
<1>1. /\ tabla \in [Memorias -> Seq(Entrada)] /\ u \in Seq(Entrada)
      /\ lista[x] \in SUBSET Conocida /\ IsFiniteSet(lista[x])
      /\ lugar[m] \in DOMAIN u
  BY DEF IInv, TypeOK, Finitas
<1>2. /\ t \in Seq(Entrada)
      /\ Len(t) >= Len(u)
      /\ \A i \in 1 .. Len(u) : t[i] = u[i]
      /\ \A i \in Len(u) + 1 .. Len(t) :
            /\ t[i].activa
            /\ [num |-> t[i].num, dir |-> t[i].dir] \in lista[x]
            /\ \A j \in 1 .. Len(u) : u[j].num # t[i].num
      /\ \A i, j \in Len(u) + 1 .. Len(t) : t[i].num = t[j].num => i = j
  <2>1. t \in Agregadas(u, lista[x])
    OBVIOUS
  <2> HIDE DEF u
  <2> QED
    BY <1>1, <2>1, AgregadasSon, Zenon
<1>3. Len(u) \in Nat /\ Len(t) \in Nat /\ DOMAIN u = 1 .. Len(u)
  BY <1>1, <1>2
<1>4. \A y \in Memorias : tabla'[y] = IF y = m THEN t ELSE tabla[y]
  BY <1>1
<1>5. ASSUME NEW i \in 1 .. Len(t) PROVE Cierta(t[i])
  <2>1. CASE i \in 1 .. Len(u)
    BY <2>1, <1>2 DEF Ciertas
  <2>2. CASE i \in Len(u) + 1 .. Len(t)
    <3> DEFINE c == [num |-> t[i].num, dir |-> t[i].dir]
    <3>1. c \in lista[x]
      BY <2>2, <1>2
    <3>2. Cierta(c)
      BY <3>1 DEF Ciertas
    <3> QED
      BY <3>2 DEF Cierta
  <2> QED
    BY <1>3, <2>1, <2>2
<1>6. t[lugar[m]].dir = Actual(m).dir
  BY <1>1, <1>2, <1>3 DEF Actual
<1> QED
  BY <1>4, <1>5, <1>6 DEF Ciertas, Actual

LEMMA SigueCierta == IInv /\ IInv' /\ CInv /\ [Next]_vars => CInv'
<1> SUFFICES ASSUME IInv, IInv', CInv, [Next]_vars PROVE CInv'
  OBVIOUS
<1>k. cortado => cortado'
  BY DEF Next, vars, PasoGossip, PasoConexion, EmpiezaRonda, Saltea, Rechazada,
         Conecta, Saluda, Numera, Envia, Recibe, Cierra, RecibeNada, Atiende,
         Responde, KernelAgrega, Cae, Arranca
<1> SUFFICES ASSUME Ciertas, ~cortado' PROVE Ciertas'
  BY <1>k DEF CInv
<1>0. /\ tabla \in [Memorias -> Seq(Entrada)] /\ pc \in [Hilos -> Estados]
      /\ lugar \in [Memorias -> Nat] /\ numero \in [Memorias -> Numeros]
      /\ destino \in [Memorias -> Memorias] /\ vida \in [Memorias -> Nat]
      /\ lista \in [Memorias -> SUBSET Conocida] /\ pool \subseteq Conocida
      /\ \A m \in Memorias : lugar[m] \in DOMAIN tabla[m]
  BY DEF IInv, TypeOK, Estados
<1>00. \A m \in Memorias : /\ lugar[m] \in 1 .. Len(tabla[m])
                           /\ Len(tabla[m]) \in Nat
                           /\ Actual(m) \in Entrada
                           /\ Cierta(Actual(m))
  <2>1. \A m \in Memorias : lugar[m] \in 1 .. Len(tabla[m]) /\ Len(tabla[m]) \in Nat
    BY <1>0
  <2> QED
    BY <1>0, <2>1 DEF Ciertas, Actual
<1>c. \A m \in Memorias : \A c \in MemoriasActivas(tabla[m]) : Cierta(c)
  BY <1>0, ActivasCiertas DEF Ciertas
<1>1. CASE UNCHANGED vars
  BY <1>1 DEF vars, Ciertas, Actual
<1>2. ASSUME NEW m \in Memorias, EmpiezaRonda(m) PROVE Ciertas'
  <2>1. \A x \in Memorias : pc'[G(x)] = "numera" => pc[G(x)] = "numera" /\ lugar'[x] = lugar[x]
    BY <1>2, <1>0, HilosDistintos DEF EmpiezaRonda
  <2> QED
    BY <1>2, <2>1 DEF EmpiezaRonda, Ciertas, Actual
<1>3. ASSUME NEW m \in Memorias, Saltea(m) PROVE Ciertas'
  <2>1. \A x \in Memorias : pc'[G(x)] = "numera" => pc[G(x)] = "numera" /\ lugar'[x] = lugar[x]
    BY <1>3, <1>00, Avanza DEF Saltea, IInv
  <2> QED
    BY <1>3, <2>1 DEF Saltea, Ciertas, Actual
<1>4. ASSUME NEW m \in Memorias, Rechazada(m) \/ Cierra(m) \/ RecibeNada(m)
      PROVE  Ciertas'
  <2>0. /\ Siguiente(m, Len(tabla[m]), {})
        /\ UNCHANGED <<viva, vida, numero, destino, lista, pool, cortado>>
    BY <1>4, Zenon DEF Rechazada, Cierra, RecibeNada
  <2>1. PICK v \in Int : tabla' = [tabla EXCEPT ![m][lugar[m]].socket = v]
    <3>1. \/ tabla' = [tabla EXCEPT ![m][lugar[m]].socket = 0]
          \/ tabla' = [tabla EXCEPT ![m][lugar[m]].socket = -1]
      BY <1>4, Zenon DEF Rechazada, Cierra, RecibeNada, Rota
    <3>2. 0 \in Int /\ -1 \in Int
      OBVIOUS
    <3> QED
      BY <3>1, <3>2, Zenon
  <2> DEFINE e == [Actual(m) EXCEPT !.socket = v]
  <2>2. e \in Entrada /\ Cierta(e) /\ e.dir = Actual(m).dir
    BY <1>00 DEF Entrada, Cierta
  <2>3. tabla' = [tabla EXCEPT ![m] = [tabla[m] EXCEPT ![lugar[m]] = e]]
    BY <2>1, <1>0 DEF Actual
  <2>4. /\ \A x \in Memorias : \A i \in 1 .. Len(tabla'[x]) : Cierta(tabla'[x][i])
        /\ \A x \in Memorias : tabla'[x][lugar[x]].dir = Actual(x).dir
    <3> HIDE DEF e
    <3> QED
      BY <2>2, <2>3, EscribeCierta
  <2>5. \A x \in Memorias : pc'[G(x)] = "numera" => pc[G(x)] = "numera" /\ lugar'[x] = lugar[x]
    BY <2>0, <1>00, Avanza DEF IInv
  <2> QED
    BY <2>0, <2>4, <2>5 DEF Ciertas, Actual
<1>5. ASSUME NEW m \in Memorias, Conecta(m) PROVE Ciertas'
  <2> DEFINE e == [Actual(m) EXCEPT !.socket = vida[Actual(m).dir]]
  <2>1. e \in Entrada /\ Cierta(e) /\ e.dir = Actual(m).dir
    <3>1. Actual(m) \in Entrada /\ Cierta(Actual(m))
      BY <1>00
    <3>2. vida[Actual(m).dir] \in Int
      BY <3>1, <1>0 DEF Entrada
    <3> HIDE DEF Actual
    <3> QED
      BY <3>1, <3>2 DEF Entrada, Cierta
  <2>2. tabla' = [tabla EXCEPT ![m] = [tabla[m] EXCEPT ![lugar[m]] = e]]
    BY <1>5, <1>0 DEF Conecta, Actual
  <2>3. /\ \A x \in Memorias : \A i \in 1 .. Len(tabla'[x]) : Cierta(tabla'[x][i])
        /\ \A x \in Memorias : tabla'[x][lugar[x]].dir = Actual(x).dir
    <3> HIDE DEF e
    <3> QED
      BY <2>1, <2>2, EscribeCierta
  <2>4. \A x \in Memorias : pc'[G(x)] = "numera" => pc[G(x)] = "numera"
    BY <1>5, <1>0, HilosDistintos DEF Conecta
  <2> QED
    BY <1>5, <2>3, <2>4 DEF Conecta, Ciertas, Actual
<1>6. ASSUME NEW m \in Memorias, Saluda(m) PROVE Ciertas'
  <2> DEFINE e == [Actual(m) EXCEPT !.activa = TRUE]
  <2>1. e \in Entrada /\ Cierta(e) /\ e.dir = Actual(m).dir
    <3>1. Actual(m) \in Entrada /\ Cierta(Actual(m))
      BY <1>00
    <3> HIDE DEF Actual
    <3> QED
      BY <3>1 DEF Entrada, Cierta
  <2>2. tabla' = [tabla EXCEPT ![m] = [tabla[m] EXCEPT ![lugar[m]] = e]]
    BY <1>6, <1>0 DEF Saluda, Actual
  <2>3. /\ \A x \in Memorias : \A i \in 1 .. Len(tabla'[x]) : Cierta(tabla'[x][i])
        /\ \A x \in Memorias : tabla'[x][lugar[x]].dir = Actual(x).dir
    <3> HIDE DEF e
    <3> QED
      BY <2>1, <2>2, EscribeCierta
  <2>4. Vigente(Actual(m).dir, Actual(m).socket)
    BY <1>6 DEF Saluda
  <2>5. numero' = [numero EXCEPT ![m] = Actual(m).dir]
    BY <1>6, <2>4 DEF Saluda
  <2>6. \A x \in Memorias \ {m} : pc'[G(x)] = pc[G(x)]
    BY <1>6, <1>0, HilosDistintos DEF Saluda
  <2>7. numero'[m] = Actual(m).dir /\ \A x \in Memorias \ {m} : numero'[x] = numero[x]
    BY <2>5, <1>0
  <2> QED
    <3>1. \A x \in Memorias : pc'[G(x)] = "numera" => numero'[x] = tabla'[x][lugar[x]].dir
      BY <2>3, <2>6, <2>7 DEF Ciertas
    <3>2. UNCHANGED <<lugar, lista, pool>>
      BY <1>6 DEF Saluda
    <3> QED
      BY <2>3, <3>1, <3>2 DEF Ciertas, Actual
<1>7. ASSUME NEW m \in Memorias, Numera(m) PROVE Ciertas'
  <2> DEFINE e == [Actual(m) EXCEPT !.num = numero[m]]
  <2>1. e \in Entrada /\ Cierta(e) /\ e.dir = Actual(m).dir
    <3>1. Actual(m) \in Entrada /\ numero[m] \in Numeros
      BY <1>00, <1>0
    <3>2. numero[m] = Actual(m).dir
      BY <1>7 DEF Numera, Ciertas
    <3> HIDE DEF Actual
    <3> QED
      BY <3>1, <3>2 DEF Entrada, Cierta
  <2>2. tabla' = [tabla EXCEPT ![m] = [tabla[m] EXCEPT ![lugar[m]] = e]]
    BY <1>7, <1>0 DEF Numera, Actual
  <2>3. /\ \A x \in Memorias : \A i \in 1 .. Len(tabla'[x]) : Cierta(tabla'[x][i])
        /\ \A x \in Memorias : tabla'[x][lugar[x]].dir = Actual(x).dir
    <3> HIDE DEF e
    <3> QED
      BY <2>1, <2>2, EscribeCierta
  <2>4. /\ pc'[G(m)] = "envia"
        /\ \A x \in Memorias \ {m} : pc'[G(x)] = pc[G(x)] /\ numero'[x] = numero[x]
    BY <1>7, <1>0, HilosDistintos DEF Numera
  <2>5. UNCHANGED <<lugar, lista, pool>>
    BY <1>7 DEF Numera
  <2>6. \A x \in Memorias : pc'[G(x)] = "numera" => numero'[x] = tabla'[x][lugar[x]].dir
    BY <2>3, <2>4 DEF Ciertas
  <2> QED
    BY <2>3, <2>5, <2>6 DEF Ciertas, Actual
<1>8. ASSUME NEW m \in Memorias, Envia(m) PROVE Ciertas'
  <2>1. \A x \in Memorias : \A c \in lista'[x] : Cierta(c)
    <3>1. lista' = lista \/ lista' = [lista EXCEPT ![m] = MemoriasActivas(tabla[m])]
      BY <1>8 DEF Envia
    <3>2. lista'[m] \in {lista[m], MemoriasActivas(tabla[m])}
      BY <3>1, <1>0
    <3>3. \A x \in Memorias \ {m} : lista'[x] = lista[x]
      BY <3>1, <1>0
    <3> QED
      BY <3>2, <3>3, <1>c DEF Ciertas
  <2>2. \A x \in Memorias : pc'[G(x)] = "numera" => pc[G(x)] = "numera"
    <3>1. \/ pc' = [pc EXCEPT ![G(m)] = "espera", ![C(m)] = "pedido"]
          \/ pc' = [pc EXCEPT ![G(m)] = "espera"]
      BY <1>8, Zenon DEF Envia
    <3>2. \A x \in Memorias : G(x) \in Hilos /\ G(x) # C(m) /\ C(m) \in Hilos
      BY HilosDistintos
    <3> QED
      BY <3>1, <3>2, <1>0
  <2> QED
    BY <1>8, <2>1, <2>2 DEF Envia, Ciertas, Actual
<1>9. ASSUME NEW m \in Memorias, Recibe(m) PROVE Ciertas'
  <2>1. PICK t \in Agregadas(tabla[m], lista[m]) :
          tabla' = [tabla EXCEPT ![m] = t] /\ Siguiente(m, Len(t), {C(m)})
    BY <1>9 DEF Recibe
  <2>2. /\ \A y \in Memorias : \A i \in 1 .. Len(tabla'[y]) : Cierta(tabla'[y][i])
        /\ \A y \in Memorias : tabla'[y][lugar[y]].dir = Actual(y).dir
    BY <2>1, AgrandaCierta
  <2>3. Len(t) \in Nat /\ Len(t) >= Len(tabla[m])
    <3>1. /\ \A y \in Memorias : Len(tabla'[y]) >= Len(tabla[y])
          /\ tabla'[m] = t /\ tabla' \in [Memorias -> Seq(Entrada)]
      BY <2>1, Agranda
    <3> QED
      BY <3>1, <1>00
  <2>4. \A x \in Memorias : pc'[G(x)] = "numera" => pc[G(x)] = "numera" /\ lugar'[x] = lugar[x]
    <3>1. \A x \in Memorias : G(x) \notin {C(m)}
      BY HilosDistintos
    <3> QED
      BY <2>1, <2>3, <3>1, Avanza DEF IInv
  <2>5. \A x \in Memorias : \A c \in lista'[x] : Cierta(c)
    BY <1>9, <1>0 DEF Recibe, Ciertas
  <2> QED
    BY <1>9, <2>2, <2>4, <2>5 DEF Recibe, Ciertas, Actual
<1>10. ASSUME NEW m \in Memorias, Atiende(m) PROVE Ciertas'
  <2> DEFINE d == destino[m]
  <2>1. PICK t \in Agregadas(tabla[d], lista[m]) : tabla' = [tabla EXCEPT ![d] = t]
    BY <1>10 DEF Atiende
  <2>2. d \in Memorias
    BY <1>0
  <2>3. /\ \A y \in Memorias : \A i \in 1 .. Len(tabla'[y]) : Cierta(tabla'[y][i])
        /\ \A y \in Memorias : tabla'[y][lugar[y]].dir = Actual(y).dir
    BY <2>1, <2>2, AgrandaCierta
  <2>4. \A x \in Memorias : pc'[G(x)] = pc[G(x)]
    BY <1>10, <1>0, HilosDistintos DEF Atiende
  <2>5. \A x \in Memorias : \A c \in lista'[x] : Cierta(c)
    BY <1>10, <1>0 DEF Atiende, Ciertas
  <2> QED
    BY <1>10, <2>3, <2>4, <2>5 DEF Atiende, Ciertas, Actual
<1>11. ASSUME NEW m \in Memorias, Responde(m) PROVE Ciertas'
  <2>1. lista' = lista \/ lista' = [lista EXCEPT ![m] = MemoriasActivas(tabla[destino[m]])]
    BY <1>11 DEF Responde
  <2>2. \A x \in Memorias : \A c \in lista'[x] : Cierta(c)
    <3>1. lista'[m] \in {lista[m], MemoriasActivas(tabla[destino[m]])}
      BY <2>1, <1>0
    <3>2. \A x \in Memorias \ {m} : lista'[x] = lista[x]
      BY <2>1, <1>0
    <3>3. \A c \in MemoriasActivas(tabla[destino[m]]) : Cierta(c)
      BY <1>0, <1>c
    <3> QED
      BY <3>1, <3>2, <3>3 DEF Ciertas
  <2>3. \A x \in Memorias : pc'[G(x)] = pc[G(x)]
    <3>1. \E z : pc' = [pc EXCEPT ![C(m)] = z]
      BY <1>11, Zenon DEF Responde
    <3> QED
      BY <3>1, <1>0, HilosDistintos
  <2> QED
    BY <1>11, <2>2, <2>3 DEF Responde, Ciertas, Actual
<1>12. CASE KernelAgrega
  <2>1. PICK c \in pool : \E a \in MemoriasActivas(tabla[c.dir]) : pool' = pool \cup {a}
    BY <1>12 DEF KernelAgrega
  <2>2. c.dir \in Memorias
    BY <1>0 DEF Conocida
  <2>3. \A a \in pool' : Cierta(a)
    BY <2>1, <2>2, <1>c DEF Ciertas
  <2> QED
    BY <1>12, <2>3 DEF KernelAgrega, Ciertas, Actual
<1>13. ASSUME NEW m \in Memorias, Cae(m) PROVE Ciertas'
  <2>1. \A x \in Memorias : /\ tabla'[x] = IF x = m THEN TablaInicial(m) ELSE tabla[x]
                            /\ x # m => lugar'[x] = lugar[x] /\ numero'[x] = numero[x]
                            /\ \A c \in lista'[x] : c \in lista[x]
    BY <1>13, <1>0 DEF Cae
  <2>2. \A x \in Memorias : \A i \in 1 .. Len(tabla'[x]) : Cierta(tabla'[x][i])
    BY <2>1, InicialCierta DEF Ciertas
  <2>3. \A x \in Memorias : pc'[G(x)] = "numera" => x # m /\ pc[G(x)] = "numera"
    <3>1. pc' = [h \in Hilos |-> IF h \in MueraCon(m) THEN "libre" ELSE pc[h]]
      BY <1>13 DEF Cae
    <3>2. G(m) \in MueraCon(m)
      BY DEF MueraCon
    <3> QED
      BY <3>1, <3>2, HilosDistintos
  <2> QED
    BY <1>13, <2>1, <2>2, <2>3 DEF Cae, Ciertas, Actual
<1>14. ASSUME NEW m \in Memorias, Arranca(m) PROVE Ciertas'
  BY <1>14 DEF Arranca, Ciertas, Actual
<1> QED
  BY <1>1, <1>2, <1>3, <1>4, <1>5, <1>6, <1>7, <1>8, <1>9, <1>10, <1>11, <1>12, <1>13,
     <1>14 DEF Next, PasoGossip, PasoConexion

\* Until a recv of a number is cut, no table and not the Kernel's pool give a
\* memory's number the address of another.
THEOREM NumerosCiertos == Spec => []NumeroDeSuDireccion
<1>1. Init => Ciertas
  BY InicialCierta, HilosDistintos DEF Init, Ciertas, Cierta
<1>2. IInv /\ CInv => NumeroDeSuDireccion
  <2> SUFFICES ASSUME IInv, Ciertas PROVE NumeroDeSuDireccion
    BY DEF CInv, NumeroDeSuDireccion
  <2>1. \A m \in Memorias : \A c \in MemoriasActivas(tabla[m]) : Cierta(c)
    BY ActivasCiertas DEF Ciertas, IInv, TypeOK
  <2> QED
    BY <2>1 DEF Ciertas, Cierta, NumeroDeSuDireccion
<1>3. Init => IInv /\ CInv
  BY <1>1, Comienza DEF CInv
<1>4. IInv /\ CInv /\ [Next]_vars => (IInv /\ CInv)'
  BY Sigue, SigueCierta
<1> QED
  BY <1>2, <1>3, <1>4, PTL DEF Spec
=============================================================================
