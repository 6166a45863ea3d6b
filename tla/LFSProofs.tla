----------------------------- MODULE LFSProofs -----------------------------
(***************************************************************************)
(* Theorems about LFS, for any number of clients, tables, requests, stops  *)
(* and failures, and about the loop of compaction, for any list of rows.   *)
(***************************************************************************)
EXTENDS LFSRegistro, Compactado, ListasProofs, FiniteSetTheorems

-----------------------------------------------------------------------------
(* The last row of a key *)

\* What Ultimo chooses.
EsUltimo(l, k, p) ==
    /\ p \in Posiciones(l, k)
    /\ \A j \in Posiciones(l, k) :
          \/ l[j].timestamp < l[p].timestamp
          \/ l[j].timestamp = l[p].timestamp /\ p <= j

LEMMA PosicionesTipo ==
  ASSUME NEW l \in Seq(Filas), NEW k
  PROVE  /\ Posiciones(l, k) \in SUBSET Nat
         /\ \A p \in Posiciones(l, k) :
               /\ p \in 1 .. Len(l)
               /\ l[p] \in Filas
               /\ l[p].timestamp \in Nat
               /\ l[p].key = k
<1>1. Posiciones(l, k) \in SUBSET Nat
  BY DEF Posiciones
<1>2. ASSUME NEW p \in Posiciones(l, k)
      PROVE  p \in 1 .. Len(l) /\ l[p] \in Filas /\ l[p].key = k
  BY DEF Posiciones
<1>3. \A f \in Filas : f.timestamp \in Nat
  BY InstantesAssumption DEF Filas
<1> QED
  BY <1>1, <1>2, <1>3

\* A key with a row has a last row: one looks for it among the positions up to
\* n, and no n can be the first without one.
LEMMA UltimoExiste ==
  ASSUME NEW l \in Seq(Filas), NEW k, Posiciones(l, k) # {}
  PROVE  EsUltimo(l, k, Ultimo(l, k))
<1> DEFINE P == Posiciones(l, k)
           Manda(p, j) == \/ l[j].timestamp < l[p].timestamp
                          \/ l[j].timestamp = l[p].timestamp /\ p <= j
           Hasta(n) == {p \in P : p <= n}
           Con(n) == \E p \in Hasta(n) : \A j \in Hasta(n) : Manda(p, j)
           Malos == {n \in Nat : Hasta(n) # {} /\ ~Con(n)}
<1>1. P \in SUBSET Nat /\ P # {} /\ \A p \in P : p \in 1 .. Len(l)
  BY PosicionesTipo
<1>2. /\ \A p, j \in P : Manda(p, j) \/ Manda(j, p)
      /\ \A p, j, q \in P : Manda(p, j) /\ Manda(j, q) => Manda(p, q)
  BY SMTT(20), PosicionesTipo
<1>3. Hasta(0) = {} /\ Hasta(Len(l)) = P
  BY <1>1
<1>4. ASSUME NEW n \in Nat \ {0}
      PROVE  Hasta(n) = Hasta(n - 1) \cup (IF n \in P THEN {n} ELSE {})
  BY <1>1
<1>5. \A n : Hasta(n) \subseteq P
  OBVIOUS
<1> HIDE DEF P, Manda, Hasta
<1>6. Malos = {}
  <2> SUFFICES ASSUME Malos # {} PROVE FALSE
    OBVIOUS
  <2>1. PICK n \in Malos : \A m \in Malos : n <= m
    <3>1. Malos \in SUBSET Nat
      OBVIOUS
    <3> HIDE DEF Malos
    <3> QED
      BY <3>1, HayMinimo
  <2>2. n \in Nat \ {0} /\ Hasta(n) # {} /\ ~Con(n)
    BY <1>3
  <2>3. n - 1 \in Nat /\ ~(n <= n - 1)
    BY <2>2
  <2>4. Hasta(n - 1) = {} \/ Con(n - 1)
    BY <2>1, <2>3
  <2>5. n \in P /\ Hasta(n) = Hasta(n - 1) \cup {n}
    BY <1>4, <2>2, <2>4
  <2>6. CASE Hasta(n - 1) = {}
    BY <1>2, <2>2, <2>5, <2>6
  <2>7. CASE Con(n - 1)
    <3>1. PICK p \in Hasta(n - 1) : \A j \in Hasta(n - 1) : Manda(p, j)
      BY <2>7
    <3>2. CASE Manda(p, n)
      BY <2>2, <2>5, <3>1, <3>2
    <3>3. CASE Manda(n, p)
      <4>1. \A j \in Hasta(n) : Manda(n, j)
        BY <1>2, <1>5, <2>5, <3>1, <3>3
      <4> QED
        BY <2>2, <2>5, <4>1
    <3> QED
      BY <1>2, <1>5, <2>5, <3>1, <3>2, <3>3
  <2> QED
    BY <2>4, <2>6, <2>7
<1>7. Con(Len(l))
  <2>1. Len(l) \in Nat /\ Len(l) \notin Malos
    BY <1>6
  <2> QED
    BY <2>1, <1>1, <1>3
<1>8. \E p \in P : \A j \in P : Manda(p, j)
  BY <1>3, <1>7
<1> QED
  BY <1>8 DEF EsUltimo, Ultimo, P, Manda

LEMMA UltimoUnico ==
  ASSUME NEW l \in Seq(Filas), NEW k, NEW p, EsUltimo(l, k, p)
  PROVE  Ultimo(l, k) = p
<1> DEFINE u == Ultimo(l, k)
<1>1. EsUltimo(l, k, u)
  BY UltimoExiste DEF EsUltimo
<1> QED
  BY <1>1, PosicionesTipo DEF EsUltimo

-----------------------------------------------------------------------------
(* One turn of get_last_value_for_each_key *)

\* Without a row that is not the last one of its key, every answer is the same.
LEMMA QuitarConserva ==
  ASSUME NEW l \in Seq(Filas), NEW m \in 1 .. Len(l), m # Ultimo(l, l[m].key), NEW k
  PROVE  UltimoValor(RemoveAt(l, m), k) = UltimoValor(l, k)
<1> DEFINE r == RemoveAt(l, m)
           u == Ultimo(l, k)
           v == IF u < m THEN u ELSE u - 1
           Antes(j) == IF j < m THEN j ELSE j + 1
<1>1. /\ r \in Seq(Filas) /\ Len(r) = Len(l) - 1
      /\ \A x \in 1 .. Len(l) - 1 : r[x] = l[Antes(x)]
  BY QuitarPosicion
<1>2. \A j \in Posiciones(r, k) : Antes(j) \in Posiciones(l, k) /\ r[j] = l[Antes(j)]
  BY <1>1 DEF Posiciones
<1>3. CASE Posiciones(l, k) = {}
  BY <1>2, <1>3 DEF UltimoValor
<1>4. CASE Posiciones(l, k) # {}
  <2>1. EsUltimo(l, k, u)
    BY <1>4, UltimoExiste
  <2>2. u \in 1 .. Len(l) /\ l[u].key = k
    BY <2>1 DEF EsUltimo, Posiciones
  <2>3. u # m
    BY <2>2
  <2>4. v \in 1 .. Len(r) /\ Antes(v) = u /\ r[v] = l[u]
    <3>1. v \in 1 .. Len(l) - 1 /\ Antes(v) = u
      BY <2>2, <2>3
    <3> QED
      BY <1>1, <3>1
  <2>5. v \in Posiciones(r, k)
    BY <2>2, <2>4 DEF Posiciones
  <2>6. ASSUME NEW j \in Posiciones(r, k)
        PROVE  \/ r[j].timestamp < r[v].timestamp
               \/ r[j].timestamp = r[v].timestamp /\ v <= j
    <3>1. \/ l[Antes(j)].timestamp < l[u].timestamp
          \/ l[Antes(j)].timestamp = l[u].timestamp /\ u <= Antes(j)
      BY <1>2, <2>1 DEF EsUltimo
    <3>2. j \in 1 .. Len(r)
      BY DEF Posiciones
    <3>3. u <= Antes(j) => v <= j
      BY <2>2, <2>3, <3>2, <1>1
    <3> QED
      BY <1>2, <2>4, <3>1, <3>3
  <2>7. EsUltimo(r, k, v)
    BY <2>5, <2>6 DEF EsUltimo
  <2>8. Ultimo(r, k) = v
    BY <1>1, <2>7, UltimoUnico
  <2> QED
    BY <1>4, <2>4, <2>5, <2>8 DEF UltimoValor
<1> QED
  BY <1>3, <1>4

LEMMA VueltaConserva ==
  ASSUME NEW l \in Seq(Filas), NEW p \in 1 .. Len(l)
  PROVE  /\ Vuelta(l, p) \in Seq(Filas)
         /\ \A k : UltimoValor(Vuelta(l, p), k) = UltimoValor(l, k)
<1>1. CASE Otras(l, p) = {}
  BY <1>1 DEF Vuelta
<1>2. CASE Otras(l, p) # {}
  <2> DEFINE m == Min(Otras(l, p))
  <2>1. Otras(l, p) \in SUBSET Nat
    BY PosicionesTipo DEF Otras
  <2>2. m \in Otras(l, p)
    BY <1>2, <2>1, HayMinimo DEF Min
  <2>3. m \in 1 .. Len(l) /\ l[m].key = l[p].key /\ m # Ultimo(l, l[m].key)
    BY <2>2 DEF Otras, Posiciones
  <2> QED
    BY <1>2, <2>3, QuitarPosicion, QuitarConserva DEF Vuelta
<1> QED
  BY <1>1, <1>2

-----------------------------------------------------------------------------
(* The whole loop *)

LEMMA CompactadoInit == InitLista => TypeOK /\ ConservaUltimos
<1> SUFFICES ASSUME InitLista PROVE TypeOK /\ ConservaUltimos
  OBVIOUS
<1>1. leidas \in Seq(Filas)
  BY MaxFilasAssumption DEF InitLista, BoundedSeq, SeqOf
<1> QED
  BY <1>1 DEF InitLista, TypeOK, ConservaUltimos

LEMMA CompactadoNext ==
  TypeOK /\ ConservaUltimos /\ [Iterar]_lista => (TypeOK /\ ConservaUltimos)'
<1> SUFFICES ASSUME TypeOK, ConservaUltimos, [Iterar]_lista
             PROVE  TypeOK' /\ ConservaUltimos'
  OBVIOUS
<1>1. CASE Iterar
  <2>1. vueltas + 1 \in 1 .. Len(registros) /\ vueltas + 1 \in 0 .. Len(leidas)
    BY <1>1 DEF Iterar, TypeOK
  <2>2. /\ registros' \in Seq(Filas)
        /\ \A k : UltimoValor(registros', k) = UltimoValor(registros, k)
    BY <1>1, <2>1, VueltaConserva DEF Iterar, TypeOK
  <2> QED
    BY <1>1, <2>1, <2>2 DEF Iterar, TypeOK, ConservaUltimos
<1>2. CASE UNCHANGED lista
  BY <1>2 DEF lista, TypeOK, ConservaUltimos
<1> QED
  BY <1>1, <1>2

\* Every turn of the loop leaves a list of rows, and ends within the list it was
\* given (get_last_value_for_each_key).
THEOREM TiposDeLista == SpecLista => []TypeOK
  BY CompactadoInit, CompactadoNext, PTL DEF SpecLista

\* Whatever the rows of a table, a SELECT after compaction gives for each key the
\* value it gave before (get_last_value_for_each_key, get_last_registro).
THEOREM NingunValorCambia == SpecLista => []ConservaUltimos
  BY CompactadoInit, CompactadoNext, PTL DEF SpecLista

-----------------------------------------------------------------------------
(* What the whole loop keeps of a list of rows: nothing new, and for each  *)
(* row one of its key that is as recent.                                   *)

Resume(R, S) ==
    /\ R \subseteq S
    /\ \A f \in S : \E g \in R : g.key = f.key /\ f.timestamp <= g.timestamp

LEMMA ResumeTransitivo ==
  ASSUME NEW S \in SUBSET Filas, NEW R, NEW Q, Resume(R, S), Resume(Q, R)
  PROVE  Resume(Q, S)
<1>1. \A f \in S : f.timestamp \in Nat
  BY InstantesAssumption DEF Filas
<1>2. Q \subseteq S /\ R \subseteq S
  BY DEF Resume
<1>3. ASSUME NEW f \in S
      PROVE  \E g \in Q : g.key = f.key /\ f.timestamp <= g.timestamp
  <2>1. PICK h \in R : h.key = f.key /\ f.timestamp <= h.timestamp
    BY DEF Resume
  <2>2. PICK g \in Q : g.key = h.key /\ h.timestamp <= g.timestamp
    BY DEF Resume
  <2> QED
    BY <1>1, <1>2, <2>1, <2>2
<1> QED
  BY <1>2, <1>3 DEF Resume

LEMMA FilasTipo ==
  /\ \A f \in Filas : f.timestamp \in Nat /\ f.timestamp # 0 /\ f.key \in Nat
  /\ \A l \in Seq(Filas) : ToSet(l) \in SUBSET Filas
<1>1. \A f \in Filas : f.timestamp \in Nat /\ f.timestamp # 0 /\ f.key \in Nat
  BY InstantesAssumption, ClavesAssumption DEF Filas
<1>2. \A l \in Seq(Filas) : ToSet(l) \in SUBSET Filas
  BY DEF ToSet
<1> QED
  BY <1>1, <1>2

LEMMA VueltaResume ==
  ASSUME NEW l \in Seq(Filas), NEW p \in 1 .. Len(l)
  PROVE  Resume(ToSet(Vuelta(l, p)), ToSet(l))
<1>1. \A f \in ToSet(l) : f \in Filas /\ f.timestamp \in Nat
  BY FilasTipo
<1>2. CASE Otras(l, p) = {}
  BY <1>1, <1>2 DEF Vuelta, Resume
<1>3. CASE Otras(l, p) # {}
  <2> DEFINE m == Min(Otras(l, p))
             r == RemoveAt(l, m)
             u == Ultimo(l, l[p].key)
  <2>1. Otras(l, p) \in SUBSET Nat
    BY PosicionesTipo DEF Otras
  <2>2. m \in Otras(l, p)
    BY <1>3, <2>1, HayMinimo DEF Min
  <2>3. m \in 1 .. Len(l) /\ l[m].key = l[p].key /\ m # u /\ m \in Posiciones(l, l[p].key)
    BY <2>2 DEF Otras, Posiciones
  <2>4. EsUltimo(l, l[p].key, u)
    BY <2>3, UltimoExiste
  <2>5. u \in 1 .. Len(l) /\ l[u].key = l[p].key /\ l[m].timestamp <= l[u].timestamp
    <3>1. u \in 1 .. Len(l) /\ l[u].key = l[p].key
      BY <2>4 DEF EsUltimo, Posiciones
    <3>2. l[m].timestamp \in Nat /\ l[u].timestamp \in Nat
      BY <2>3, <3>1, <1>1 DEF ToSet
    <3> QED
      BY <2>3, <2>4, <3>1, <3>2 DEF EsUltimo
  <2> HIDE DEF m, u
  <2>6. /\ r \in Seq(Filas) /\ Len(r) = Len(l) - 1
        /\ \A x \in 1 .. Len(l) - 1 : r[x] = IF x < m THEN l[x] ELSE l[x + 1]
    BY <2>3, QuitarPosicion
  <2> HIDE DEF r
  <2>7. DOMAIN r = 1 .. Len(l) - 1 /\ DOMAIN l = 1 .. Len(l) /\ Len(l) \in Nat
    BY <2>6
  <2>8. ASSUME NEW i \in 1 .. Len(l), i # m PROVE l[i] \in ToSet(r)
    <3> DEFINE x == IF i < m THEN i ELSE i - 1
    <3>1. x \in 1 .. Len(l) - 1 /\ (IF x < m THEN x ELSE x + 1) = i
      BY <2>3, <2>7, <2>8
    <3>2. r[x] = l[i]
      BY <2>6, <3>1
    <3> QED
      BY <2>7, <3>1, <3>2 DEF ToSet
  <2>9. ToSet(r) \subseteq ToSet(l)
    <3>1. \A x \in 1 .. Len(l) - 1 : x \in 1 .. Len(l) /\ x + 1 \in 1 .. Len(l)
      BY <2>7
    <3> QED
      BY <2>6, <2>7, <3>1 DEF ToSet
  <2>10. ASSUME NEW i \in 1 .. Len(l)
         PROVE  \E g \in ToSet(r) : g.key = l[i].key /\ l[i].timestamp <= g.timestamp
    <3>1. CASE i = m
      <4>1. l[u] \in ToSet(r)
        BY <2>3, <2>5, <2>8
      <4> QED
        BY <2>3, <2>5, <3>1, <4>1
    <3>2. CASE i # m
      <4>1. l[i] \in Filas /\ l[i] \in ToSet(r)
        BY <2>7, <2>8, <3>2
      <4>2. l[i].timestamp <= l[i].timestamp
        BY <4>1, FilasTipo
      <4> QED
        BY <4>1, <4>2
    <3> QED
      BY <3>1, <3>2
  <2>11. Resume(ToSet(r), ToSet(l))
    BY <2>7, <2>9, <2>10 DEF Resume, ToSet
  <2> QED
    BY <1>3, <2>11 DEF Vuelta, m, r
<1> QED
  BY <1>2, <1>3

\* One turn, for the position the loop is at, as a function.
Giro == [p \in Seq(Filas) \X (Nat \ {0}) |->
            IF p[2] <= Len(p[1]) THEN Vuelta(p[1], p[2]) ELSE p[1]]

LEMMA GiroTipo ==
  /\ Giro \in [Seq(Filas) \X (Nat \ {0}) -> Seq(Filas)]
  /\ \A r \in Seq(Filas), i \in Nat \ {0} :
        /\ Giro[<<r, i>>] = IF i <= Len(r) THEN Vuelta(r, i) ELSE r
        /\ Resume(ToSet(Giro[<<r, i>>]), ToSet(r))
<1>1. ASSUME NEW r \in Seq(Filas), NEW i \in Nat \ {0}
      PROVE  /\ (IF i <= Len(r) THEN Vuelta(r, i) ELSE r) \in Seq(Filas)
             /\ Resume(ToSet(IF i <= Len(r) THEN Vuelta(r, i) ELSE r), ToSet(r))
  <2>1. CASE i <= Len(r)
    <3>1. i \in 1 .. Len(r)
      BY <2>1
    <3> QED
      BY <2>1, <3>1, VueltaConserva, VueltaResume
  <2>2. CASE ~(i <= Len(r))
    <3>1. \A f \in ToSet(r) : f.timestamp \in Nat
      BY FilasTipo
    <3> QED
      BY <2>2, <3>1 DEF Resume
  <2> QED
    BY <2>1, <2>2
<1> QED
  BY <1>1 DEF Giro

LEMMA UltimasPasos ==
  ASSUME NEW l \in Seq(Filas)
  PROVE  \E f : /\ Pasos(Seq(Filas), Giro, l, [i \in 1 .. Len(l) |-> i], f)
                /\ UltimasFilas(l) = f[Len(l)]
<1> DEFINE V == Seq(Filas)
           s == [i \in 1 .. Len(l) |-> i]
           paso(r, i) == IF i <= Len(r) THEN Vuelta(r, i) ELSE r
           EsIter(it) ==
               it = [S \in SUBSET DOMAIN s |->
                       IF S = {} THEN l ELSE paso(it[S \ {Max(S)}], s[Max(S)])]
           n == Len(l)
<1>1. UltimasFilas(l) = (CHOOSE it : EsIter(it))[DOMAIN s]
  BY DEF UltimasFilas, FoldLeft, MapThenFoldSet
<1> HIDE DEF paso
<1>2. n \in Nat /\ DOMAIN s = 1 .. n /\ s \in Seq(Nat \ {0}) /\ Len(s) = n
  <2>1. n \in Nat /\ \A i \in 1 .. n : i \in Nat \ {0}
    OBVIOUS
  <2> QED
    BY <2>1, IsASeq
<1> HIDE DEF V, s
<1>3. \A r \in V, i \in Nat \ {0} : Giro[<<r, i>>] = paso(r, i)
  BY GiroTipo DEF V, paso
<1>4. PICK it : EsPliegue(V, Giro, l, s, n, it)
  <2>1. l \in V /\ Giro \in [V \X (Nat \ {0}) -> V]
    BY GiroTipo DEF V
  <2> HIDE DEF n
  <2> QED
    BY <1>2, <2>1, PliegueExiste
<1> HIDE DEF n
<1>5. ASSUME NEW S \in SUBSET (1 .. n), S # {}
      PROVE  it[S] = paso(it[S \ {Max(S)}], s[Max(S)])
  <2>1. Max(S) \in 1 .. n
    BY <1>2, <1>5, MaximoHay
  <2>2. s[Max(S)] \in Nat \ {0}
    BY <1>2, <2>1 DEF s, n
  <2>3. S \ {Max(S)} \in SUBSET (1 .. n)
    OBVIOUS
  <2>4. it[S \ {Max(S)}] \in V
    BY <1>4, <2>3 DEF EsPliegue
  <2>5. it[S] = Giro[<<it[S \ {Max(S)}], s[Max(S)]>>]
    BY <1>4, <1>5 DEF EsPliegue
  <2>6. QED
    BY <1>3, <2>2, <2>4, <2>5
<1>6. EsIter(it)
  <2>1. it \in [SUBSET (1 .. n) -> V] /\ it[{}] = l
    BY <1>4 DEF EsPliegue
  <2>2. it = [S \in SUBSET (1 .. n) |-> it[S]]
    BY <2>1
  <2>3. QED
    BY <1>2, <1>5, <2>1, <2>2
<1> DEFINE c == CHOOSE x : EsIter(x)
<1>7. EsIter(c)
  BY <1>6
<1> HIDE DEF c
<1>8. /\ c[{}] = l
      /\ \A S \in SUBSET (1 .. n) : S # {} => c[S] = paso(c[S \ {Max(S)}], s[Max(S)])
  BY <1>2, <1>7
<1>9. c[1 .. n] = it[1 .. n]
  <2>1. it[{}] = l
    BY <1>4 DEF EsPliegue
  <2>2. MismaRegla(n, c, it)
    BY <1>5, <1>8, <2>1 DEF MismaRegla
  <2>3. QED
    BY <1>2, <2>2, PliegueUnico
<1>10. PICK f : Pasos(V, Giro, l, s, f) /\ f[n] = it[DOMAIN s]
  BY <1>2, <1>4, PasosDelPliegue
<1>11. QED
  BY <1>1, <1>2, <1>9, <1>10 DEF c, V, s, n

\* The rows that compaction saves.
LEMMA UltimasSon ==
  ASSUME NEW l \in Seq(Filas)
  PROVE  /\ UltimasFilas(l) \in Seq(Filas)
         /\ Resume(ToSet(UltimasFilas(l)), ToSet(l))
<1> DEFINE s == [i \in 1 .. Len(l) |-> i]
           n == Len(l)
<1>1. PICK f : Pasos(Seq(Filas), Giro, l, s, f) /\ UltimasFilas(l) = f[n]
  BY UltimasPasos
<1>2. n \in Nat /\ s \in [1 .. n -> Nat] /\ \A i \in 1 .. n : s[i] = i
  OBVIOUS
<1>3. Len(s) = n
  BY <1>2, LenProperties, IsASeq
<1>4. /\ \A i \in 0 .. n : f[i] \in Seq(Filas)
      /\ f[0] = l
      /\ \A i \in 1 .. n : f[i] = Giro[<<f[i - 1], i>>]
  BY <1>1, <1>2, <1>3 DEF Pasos
<1> HIDE DEF n, s
<1>5. ToSet(l) \in SUBSET Filas
  BY DEF ToSet
<1> DEFINE Malos == {i \in 0 .. n : ~Resume(ToSet(f[i]), ToSet(l))}
<1>6. Malos = {}
  <2> SUFFICES ASSUME Malos # {} PROVE FALSE
    OBVIOUS
  <2>1. Malos \in SUBSET Nat
    BY <1>2
  <2>2. PICK i \in Malos : \A x \in Malos : i <= x
    BY <2>1, HayMinimo
  <2>3. i # 0
    <3>1. \A r \in ToSet(l) : r.timestamp \in Nat
      BY <1>5, InstantesAssumption DEF Filas
    <3>2. Resume(ToSet(l), ToSet(l))
      BY <3>1 DEF Resume
    <3> QED
      BY <1>4, <2>2, <3>2
  <2>4. i \in 1 .. n /\ i - 1 \in 0 .. n /\ ~(i <= i - 1) /\ i \in Nat \ {0}
    BY <1>2, <2>2, <2>3
  <2>5. Resume(ToSet(f[i - 1]), ToSet(l))
    BY <2>2, <2>4
  <2>6. Resume(ToSet(f[i]), ToSet(f[i - 1]))
    BY <1>4, <2>4, GiroTipo
  <2>7. Resume(ToSet(f[i]), ToSet(l))
    BY <1>5, <2>5, <2>6, ResumeTransitivo
  <2> QED
    BY <2>2, <2>7
<1>7. n \in 0 .. n
  BY <1>2
<1> QED
  BY <1>1, <1>4, <1>6, <1>7 DEF n

-----------------------------------------------------------------------------
(* Reading files *)

\* A list in which readdir may give some files holds each of them.
LEMMA OrdenTodos ==
  ASSUME NEW N, IsFiniteSet(N), NEW s \in SetToSeqs(N)
  PROVE  /\ s \in Seq(N) /\ Len(s) \in Nat
         /\ {s[i] : i \in 1 .. Len(s)} = N
<1> DEFINE n == Cardinality(N)
<1>1. n \in Nat
  BY FS_CardinalityType
<1>2. s \in [1 .. n -> N] /\ \A i, j \in 1 .. n : i # j => s[i] # s[j]
  BY DEF SetToSeqs
<1> HIDE DEF n
<1>3. s \in Seq(N) /\ Len(s) = n
  BY <1>1, <1>2, IsASeq, LenProperties
<1>4. Cardinality(1 .. n) = n
  BY <1>1, FS_Interval
<1>5. IsInjective(s)
  BY <1>2 DEF IsInjective
<1>6. s \in Injection(1 .. n, N)
  BY <1>2, <1>5 DEF Injection
<1>7. s \in Surjection(1 .. n, N)
  BY <1>4, <1>6, FS_Injection DEF n
<1>8. {s[i] : i \in 1 .. n} = N
  BY <1>2, <1>7 DEF Surjection
<1> QED
  BY <1>1, <1>3, <1>8

LEMMA LeerTodo ==
  ASSUME NEW t, NEW N, IsFiniteSet(N), \A n \in N : archivos[t][n] \in Seq(Filas),
         NEW l \in Leer(t, N)
  PROVE  /\ l \in Seq(Filas)
         /\ ToSet(l) = UNION {ToSet(archivos[t][n]) : n \in N}
<1>1. PICK s \in SetToSeqs(N) : l = FlattenSeq([i \in 1 .. Len(s) |-> archivos[t][s[i]]])
  BY DEF Leer
<1>2. s \in Seq(N) /\ Len(s) \in Nat /\ {s[i] : i \in 1 .. Len(s)} = N
  BY OrdenTodos
<1> DEFINE z == [i \in 1 .. Len(s) |-> archivos[t][s[i]]]
<1>3. \A i \in 1 .. Len(s) : z[i] \in Seq(Filas) /\ z[i] = archivos[t][s[i]]
  BY <1>2
<1>4. z \in Seq(Seq(Filas)) /\ Len(z) = Len(s)
  BY <1>2, <1>3, IsASeq, LenProperties
<1> HIDE DEF z
<1>5. FlattenSeq(z) \in Seq(Filas) /\ ToSet(FlattenSeq(z)) = UNION {ToSet(z[i]) : i \in 1 .. Len(z)}
  BY <1>4, AplanaElementos
<1>6. UNION {ToSet(z[i]) : i \in 1 .. Len(z)} = UNION {ToSet(archivos[t][n]) : n \in N}
  <2>1. \A i \in 1 .. Len(z) : s[i] \in N /\ z[i] = archivos[t][s[i]]
    BY <1>2, <1>3, <1>4
  <2>2. \A n \in N : \E i \in 1 .. Len(z) : n = s[i] /\ z[i] = archivos[t][n]
    BY ZenonT(30), <1>2, <1>3, <1>4
  <2>3. ASSUME NEW x
        PROVE  (\E i \in 1 .. Len(z) : x \in ToSet(z[i]))
                 <=> (\E n \in N : x \in ToSet(archivos[t][n]))
    BY <2>1, <2>2
  <2> QED
    BY <2>3
<1> QED
  BY <1>1, <1>5, <1>6 DEF z

-----------------------------------------------------------------------------
(* Every table has a thread that compacts it.                              *)
(*                                                                         *)
(* That a table keeps its thread is not a fact of its step alone.  A thread *)
(* ends when its table has no directory, so one has to know that such a    *)
(* table has no Metadata; and CREATE writes Metadata long after it made    *)
(* the directory, so one has to know that the file it holds open is still  *)
(* in that directory.                                                      *)

\* The types the argument needs.
TiposDeTabla ==
    /\ directorio \subseteq Tablas
    /\ hilos \in [Tablas -> Nat]
    /\ DOMAIN metadata = Tablas
    /\ DOMAIN abierta = Clientes
    /\ DOMAIN est = Clientes
    /\ DOMAIN pedido = Clientes

\* Only a directory holds a Metadata file.
MetadataEnDirectorio ==
    \A t \in Tablas : metadata[t] # SinMetadata => t \in directorio

\* A CREATE about to flush Metadata into its directory has that directory.
AbiertaEnDirectorio ==
    \A c \in Clientes :
        est[c] = "cierra" /\ abierta[c] => pedido[c].tabla \in directorio

\* A CREATE or a DROP that is not over is a request of some table.
CreateDeTabla ==
    \A c \in Clientes :
        est[c] \in {"borra", "remove", "rmdir", "crea", "particiona", "cierra"}
            => pedido[c].tabla \in Tablas

HiloInv ==
    /\ TiposDeTabla
    /\ MetadataEnDirectorio
    /\ AbiertaEnDirectorio
    /\ CreateDeTabla

\* What HiloPorTabla says of a step.
Cuidadas == \A t \in Tablas : ConHilo(t) => ConHilo(t)' \/ CompRenombraFalla(t)

USE DEF Espera, Responde, Sigue, TiposDeTabla

LEMMA HiloInit == Init => HiloInv
  BY ExistentesAssumption
     DEF Init, HiloInv, MetadataEnDirectorio, AbiertaEnDirectorio, CreateDeTabla

\* A stop of the process leaves no request and asks for no thread.
LEMMA MorirConserva ==
  ASSUME HiloInv, Morir, UNCHANGED <<directorio, metadata>>
  PROVE  HiloInv' /\ Cuidadas
  BY DEF HiloInv, Morir, MetadataEnDirectorio, AbiertaEnDirectorio, CreateDeTabla,
         Cuidadas, ConHilo

\* A step that leaves tables, threads and CREATEs alone, but for a request that
\* begins, ends or goes on to another place of the same table.
LEMMA OtroPaso ==
  ASSUME HiloInv,
         UNCHANGED <<directorio, metadata, hilos, vivo, abierta>>,
         DOMAIN est' = Clientes, DOMAIN pedido' = Clientes,
         \A c \in Clientes :
            \/ est'[c] = est[c] /\ pedido'[c] = pedido[c]
            \/ est'[c] \notin {"borra", "remove", "rmdir", "crea", "particiona", "cierra"}
            \/ /\ est'[c] \in {"borra", "remove", "rmdir", "crea", "particiona"}
               /\ pedido'[c].tabla \in Tablas
  PROVE  HiloInv' /\ Cuidadas
  BY DEF HiloInv, MetadataEnDirectorio, AbiertaEnDirectorio, CreateDeTabla, Cuidadas, ConHilo

LEMMA PedirConserva ==
  ASSUME HiloInv, NEW c \in Clientes, Pedir(c)
  PROVE  HiloInv' /\ Cuidadas
<1> USE DEF HiloInv
<1>1. CASE Rechaza(c)
  BY <1>1, OtroPaso DEF Rechaza, vars, disco, clientes
<1>2. ASSUME NEW t \in Tablas, NEW f \in Filas, InsertMira(c, t, f)
      PROVE  HiloInv' /\ Cuidadas
  BY <1>2, OtroPaso DEF InsertMira, disco
<1>3. ASSUME NEW t \in Tablas, NEW k \in Claves, SelectMira(c, t, k)
      PROVE  HiloInv' /\ Cuidadas
  BY <1>3, OtroPaso DEF SelectMira, disco
<1>4. ASSUME NEW t \in Tablas, DescribeUna(c, t)
      PROVE  HiloInv' /\ Cuidadas
  BY <1>4, OtroPaso DEF DescribeUna, disco
<1>5. ASSUME NEW t \in Tablas, DropMira(c, t)
      PROVE  HiloInv' /\ Cuidadas
  BY <1>5, OtroPaso DEF DropMira, disco
<1>6. ASSUME NEW t \in Tablas, NEW n \in Particiones, CreateMira(c, t, n)
      PROVE  HiloInv' /\ Cuidadas
  BY <1>6, OtroPaso DEF CreateMira, disco
<1>7. CASE DescribeTodas(c)
  BY <1>7, OtroPaso DEF DescribeTodas, disco
<1>8. CASE InsertInvalido(c)
  BY <1>8, MorirConserva DEF InsertInvalido, disco
<1>9. CASE DescribeInvalido(c)
  BY <1>9, MorirConserva DEF DescribeInvalido, disco
<1> QED
  BY <1>1, <1>2, <1>3, <1>4, <1>5, <1>6, <1>7, <1>8, <1>9 DEF Pedir

LEMMA SeguirConserva ==
  ASSUME HiloInv, NEW c \in Clientes, Seguir(c)
  PROVE  HiloInv' /\ Cuidadas
<1> USE DEF HiloInv
<1>1. CASE InsertGuarda(c)
  BY <1>1, OtroPaso DEF InsertGuarda, disco
<1>2. CASE SelectLee(c)
  BY <1>2, OtroPaso DEF SelectLee, disco
<1>3. CASE SelectMuere(c) \/ DescribeMuere(c)
  BY <1>3, MorirConserva DEF SelectMuere, DescribeMuere, disco
<1>4. CASE DropBorra(c)
  BY <1>4, OtroPaso DEF DropBorra, CreateDeTabla
<1>5. CASE DropMetadata(c)
  <2>1. MetadataEnDirectorio'
    BY <1>5 DEF DropMetadata, MetadataEnDirectorio
  <2>2. AbiertaEnDirectorio'
    BY <1>5 DEF DropMetadata, AbiertaEnDirectorio
  <2>3. Cuidadas
    BY <1>5 DEF DropMetadata, Cuidadas, ConHilo
  <2> QED
    BY <1>5, <2>1, <2>2, <2>3 DEF DropMetadata, CreateDeTabla
<1>6. CASE DropTermina(c)
  <2> DEFINE t == pedido[c].tabla
  <2>1. /\ \/ directorio' = directorio
           \/ /\ directorio' = directorio \ {t}
              /\ metadata[t] = SinMetadata
              /\ ~SigueAbierta(t)
        /\ UNCHANGED <<metadata, abierta, hilos, vivo>>
        /\ est' = [est EXCEPT ![c] = "reposo"]
        /\ pedido' = [pedido EXCEPT ![c] = Nada]
    BY <1>6 DEF DropTermina
  <2>2. MetadataEnDirectorio'
    BY <2>1 DEF MetadataEnDirectorio
  <2>3. AbiertaEnDirectorio'
    BY <2>1 DEF AbiertaEnDirectorio, SigueAbierta
  <2>4. Cuidadas
    BY <2>1 DEF Cuidadas, ConHilo
  <2> QED
    BY <2>1, <2>2, <2>3, <2>4 DEF CreateDeTabla
<1>7. CASE CreateDir(c)
  <2> DEFINE t == pedido[c].tabla
  <2>1. /\ t \in Tablas
        /\ directorio' = directorio \cup {t}
        /\ est' = [est EXCEPT ![c] = "particiona"]
        /\ UNCHANGED <<metadata, abierta, pedido, hilos, vivo>>
    BY <1>7 DEF CreateDir, CreateDeTabla
  <2>2. Cuidadas
    BY <2>1 DEF Cuidadas, ConHilo, MetadataEnDirectorio
  <2> QED
    BY <2>1, <2>2 DEF MetadataEnDirectorio, AbiertaEnDirectorio, CreateDeTabla
<1>8. CASE CreateParticiones(c)
  <2>1. AbiertaEnDirectorio'
    BY <1>8 DEF CreateParticiones, AbiertaEnDirectorio
  <2>2. MetadataEnDirectorio' /\ CreateDeTabla'
    BY <1>8 DEF CreateParticiones, MetadataEnDirectorio, CreateDeTabla
  <2>3. Cuidadas
    BY <1>8 DEF CreateParticiones, Cuidadas, ConHilo
  <2> QED
    BY <1>8, <2>1, <2>2, <2>3 DEF CreateParticiones
<1>9. CASE CreateSinEspacio(c)
  BY <1>9, OtroPaso DEF CreateSinEspacio, disco, CreateDeTabla
<1>10. CASE CreateSinDir(c)
  BY <1>10, OtroPaso, MorirConserva DEF CreateSinDir, disco
<1>11. CASE CreateTermina(c)
  <2> DEFINE t == pedido[c].tabla
  <2>1. t \in Tablas /\ hilos[t] \in Nat /\ hilos' = [hilos EXCEPT ![t] = hilos[t] + 1]
    BY <1>11 DEF CreateTermina, CreateDeTabla
  <2>2. hilos' \in [Tablas -> Nat]
    BY <2>1
  <2>3. Cuidadas
    BY <1>11, <2>1 DEF CreateTermina, Cuidadas, ConHilo
  <2>4. MetadataEnDirectorio'
    BY <1>11 DEF CreateTermina, MetadataEnDirectorio, AbiertaEnDirectorio
  <2> QED
    BY <1>11, <2>2, <2>3, <2>4 DEF CreateTermina, AbiertaEnDirectorio, CreateDeTabla
<1>12. CASE DescribeMira(c)
  BY <1>12, OtroPaso DEF DescribeMira, disco
<1>13. CASE DescribeAbre(c)
  BY <1>13, OtroPaso DEF DescribeAbre, disco
<1> QED
  BY <1>1, <1>2, <1>3, <1>4, <1>5, <1>6, <1>7, <1>8, <1>9, <1>10, <1>11, <1>12, <1>13
     DEF Seguir

LEMMA FondoConserva ==
  ASSUME HiloInv, Dump \/ Compactar \/ Caida \/ Arrancar
  PROVE  HiloInv' /\ Cuidadas
<1> USE DEF HiloInv
<1>1. CASE DumpEmpieza \/ DumpTermina \/ \E t \in Tablas : DumpTabla(t)
  BY <1>1, OtroPaso DEF DumpEmpieza, DumpTermina, DumpTabla, disco, clientes
<1>2. CASE \E t \in Tablas : DumpMuere(t)
  BY <1>2, MorirConserva DEF DumpMuere, disco
<1>3. ASSUME NEW t \in Tablas, CompSale(t)
      PROVE  HiloInv' /\ Cuidadas
  <2>1. metadata[t] = SinMetadata /\ hilos[t] - 1 \in Nat
    BY <1>3 DEF CompSale, MetadataEnDirectorio
  <2>2. Cuidadas
    BY <1>3, <2>1 DEF CompSale, Cuidadas, ConHilo, disco
  <2> QED
    BY <1>3, <2>1, <2>2 DEF CompSale, disco, clientes, MetadataEnDirectorio,
                            AbiertaEnDirectorio, CreateDeTabla
<1>4. CASE \/ \E t \in Tablas : CompRenombra(t)
           \/ CompLee \/ CompLimpia \/ CompRecrea \/ CompGuarda \/ CompTermina
  BY <1>4, OtroPaso DEF CompRenombra, CompLee, CompLimpia, CompRecrea, CompGuarda,
                        CompTermina, disco, clientes
<1>5. CASE CompMuere
  BY <1>5, MorirConserva DEF CompMuere
<1>6. CASE Caida
  BY <1>6, MorirConserva DEF Caida, disco
<1>7. CASE Arrancar
  <2>1. hilos' \in [Tablas -> Nat] /\ \A t \in directorio \cap Tablas : hilos'[t] = 1
    BY <1>7 DEF Arrancar
  <2>2. Cuidadas
    BY <1>7, <2>1 DEF Arrancar, disco, MetadataEnDirectorio, Cuidadas, ConHilo
  <2> QED
    BY <1>7, <2>1, <2>2 DEF Arrancar, disco, clientes, MetadataEnDirectorio,
                            AbiertaEnDirectorio, CreateDeTabla
<1>8. ASSUME NEW t \in Tablas, CompRenombraFalla(t)
      PROVE  HiloInv' /\ Cuidadas
  <2>1. /\ \/ hilos' = hilos
           \/ hilos[t] > 0 /\ hilos' = [hilos EXCEPT ![t] = hilos[t] - 1]
        /\ UNCHANGED <<directorio, metadata, est, pedido, abierta, vivo>>
    BY <1>8 DEF CompRenombraFalla, clientes
  <2>2. hilos' \in [Tablas -> Nat]
    BY <2>1
  <2>3. Cuidadas
    BY <1>8, <2>1 DEF Cuidadas, ConHilo
  <2> QED
    BY <2>1, <2>2, <2>3 DEF MetadataEnDirectorio, AbiertaEnDirectorio, CreateDeTabla
<1> QED
  BY <1>1, <1>2, <1>3, <1>4, <1>5, <1>6, <1>7, <1>8 DEF Dump, Compactar

LEMMA HiloNext == HiloInv /\ [Next]_vars => HiloInv' /\ Cuidadas
<1> SUFFICES ASSUME HiloInv, [Next]_vars PROVE HiloInv' /\ Cuidadas
  OBVIOUS
<1>1. CASE UNCHANGED vars
  BY <1>1 DEF vars, disco, clientes, HiloInv, MetadataEnDirectorio,
              AbiertaEnDirectorio, CreateDeTabla, Cuidadas, ConHilo
<1> QED
  BY <1>1, PedirConserva, SeguirConserva, FondoConserva DEF Next

\* While LFS runs, a table with a Metadata file loses its last thread that
\* compacts it (hilo_compactacion) only in a compaction whose rename fails,
\* whatever the DROPs, CREATEs and stops.
THEOREM SiempreHayHilo == Spec => HiloPorTabla
<1>1. HiloInv /\ [Next]_vars => HiloInv' /\ [Cuidadas]_vars
  BY HiloNext
<1>2. HiloPorTabla <=> [][Cuidadas]_vars
  BY DEF HiloPorTabla, Cuidadas
<1> QED
  BY <1>1, <1>2, HiloInit, PTL DEF Spec

-----------------------------------------------------------------------------
(* The directory of a table *)

EsCarpeta(a) ==
    /\ IsFiniteSet(DOMAIN a)
    /\ DOMAIN a \subseteq Nombres
    /\ a \in [DOMAIN a -> Seq(Filas)]

\* The names of n partitions.
Bins(n) == {<<"bin", i>> : i \in 0 .. n - 1}

LEMMA BinsSon ==
  ASSUME NEW n \in Nat
  PROVE  /\ IsFiniteSet(Bins(n)) /\ Cardinality(Bins(n)) = n
         /\ Bins(n) \subseteq Nombres
<1> DEFINE f == [i \in 0 .. n - 1 |-> <<"bin", i>>]
<1>1. IsFiniteSet(0 .. n - 1) /\ Cardinality(0 .. n - 1) = n
  BY FS_Interval
<1>2. \A i, j \in 0 .. n - 1 : f[i] = f[j] => i = j
  OBVIOUS
<1>3. f \in [0 .. n - 1 -> Bins(n)] /\ \A b \in Bins(n) : \E i \in 0 .. n - 1 : f[i] = b
  BY DEF Bins
<1> HIDE DEF f
<1>4. f \in Surjection(0 .. n - 1, Bins(n)) /\ f \in Injection(0 .. n - 1, Bins(n))
  BY <1>2, <1>3 DEF Surjection, Injection, IsInjective
<1>5. Bins(n) \subseteq Nombres
  BY DEF Bins, Nombres
<1> QED
  BY <1>1, <1>4, <1>5, FS_Surjection

LEMMA CarpetaVacia ==
  /\ EsCarpeta(SinArchivos)
  /\ DOMAIN SinArchivos = {}
  /\ \A a : EsCarpeta(a) /\ DOMAIN a = {} => a = SinArchivos
  BY FS_EmptySet DEF EsCarpeta, SinArchivos

LEMMA CarpetaParticiones ==
  ASSUME NEW t, EsCarpeta(archivos[t]), NEW n \in Nat
  PROVE  /\ EsCarpeta(ConParticiones(t, n))
         /\ DOMAIN ConParticiones(t, n) = Bins(n) \cup DOMAIN archivos[t]
         /\ \A x \in DOMAIN ConParticiones(t, n) :
               ConParticiones(t, n)[x] = IF x \in Bins(n) THEN <<>> ELSE archivos[t][x]
<1> DEFINE c == ConParticiones(t, n)
           D == Bins(n) \cup DOMAIN archivos[t]
<1>1. c = [x \in D |-> IF x \in Bins(n) THEN <<>> ELSE archivos[t][x]]
  BY DEF ConParticiones, ConArchivos, Bins
<1> HIDE DEF c
<1>2. IsFiniteSet(D) /\ D \subseteq Nombres
  BY BinsSon, FS_Union DEF EsCarpeta
<1>3. \A x \in D : c[x] = (IF x \in Bins(n) THEN <<>> ELSE archivos[t][x])
  BY <1>1
<1>4. \A x \in D : c[x] \in Seq(Filas)
  <2>1. <<>> \in Seq(Filas) /\ \A x \in DOMAIN archivos[t] : archivos[t][x] \in Seq(Filas)
    BY DEF EsCarpeta
  <2> QED
    BY <1>3, <2>1
<1>5. DOMAIN c = D
  BY <1>1
<1> HIDE DEF D
<1>6. c \in [D -> Seq(Filas)]
  BY <1>1, <1>4 DEF D
<1> QED
  BY <1>2, <1>3, <1>5, <1>6 DEF EsCarpeta, c, D

\* A file more, or another one of the same name.
ConUno(a, n, l) == ConArchivos(a, [m \in {n} |-> l])

LEMMA CarpetaAgrega ==
  ASSUME NEW a, EsCarpeta(a), NEW n \in Nombres, NEW l \in Seq(Filas)
  PROVE  /\ EsCarpeta(ConUno(a, n, l))
         /\ DOMAIN ConUno(a, n, l) = DOMAIN a \cup {n}
         /\ \A x \in DOMAIN a \cup {n} : ConUno(a, n, l)[x] = IF x = n THEN l ELSE a[x]
<1> DEFINE c == ConUno(a, n, l)
           D == DOMAIN a \cup {n}
<1>1. c = [x \in D |-> IF x = n THEN l ELSE a[x]]
  BY DEF ConUno, ConArchivos
<1> HIDE DEF c
<1>2. IsFiniteSet(D) /\ D \subseteq Nombres
  BY FS_AddElement DEF EsCarpeta
<1>3. \A x \in D : c[x] = (IF x = n THEN l ELSE a[x])
  BY <1>1
<1>4. \A x \in D : c[x] \in Seq(Filas)
  BY <1>3 DEF EsCarpeta
<1>5. c \in [D -> Seq(Filas)] /\ DOMAIN c = D
  BY <1>1, <1>4
<1> QED
  BY <1>2, <1>3, <1>5 DEF EsCarpeta, c

\* rename of some .tmp.
LEMMA CarpetaRenombraDe ==
  ASSUME NEW t, EsCarpeta(archivos[t]), NEW M \in SUBSET De(t, {"tmp"})
  PROVE  /\ EsCarpeta(RenombradosDe(t, M))
         /\ \A m \in Nombres :
               m \in DOMAIN RenombradosDe(t, M) <=>
                  \/ m \in DOMAIN archivos[t] /\ m \notin M
                  \/ m[1] = "tmpc" /\ <<"tmp", m[2]>> \in M
         /\ \A m \in DOMAIN RenombradosDe(t, M) :
               RenombradosDe(t, M)[m] = IF m[1] = "tmpc" /\ <<"tmp", m[2]>> \in M
                                        THEN archivos[t][<<"tmp", m[2]>>]
                                        ELSE archivos[t][m]
<1> DEFINE a == archivos[t]
           C == {<<"tmpc", m[2]>> : m \in M}
           D == C \cup (DOMAIN a \ M)
           c == RenombradosDe(t, M)
<1>1. c = [m \in D |-> IF m \in C THEN a[<<"tmp", m[2]>>] ELSE a[m]]
  BY DEF RenombradosDe, ConArchivos
<1> HIDE DEF c
<1>2. IsFiniteSet(DOMAIN a) /\ DOMAIN a \subseteq Nombres /\ \A m \in DOMAIN a : a[m] \in Seq(Filas)
  BY DEF EsCarpeta
<1>3. M \subseteq DOMAIN a /\ \A m \in M : m[1] = "tmp"
  BY DEF De
<1>4. \A m \in Nombres : m = <<m[1], m[2]>> /\ m[1] \in {"bin", "tmp", "tmpc"} /\ m[2] \in Nat
  BY DEF Nombres
<1>5. \A k \in Nat : <<"tmp", k>> \in Nombres /\ <<"tmpc", k>> \in Nombres
  BY DEF Nombres
<1>6. \A m \in Nombres : m \in C <=> m[1] = "tmpc" /\ <<"tmp", m[2]>> \in M
  <2> TAKE m \in Nombres
  <2>1. ASSUME m \in C PROVE m[1] = "tmpc" /\ <<"tmp", m[2]>> \in M
    <3>1. PICK x \in M : m = <<"tmpc", x[2]>>
      BY <2>1
    <3>2. x \in DOMAIN a /\ x[1] = "tmp" /\ x = <<x[1], x[2]>>
      BY <1>2, <1>3, <1>4
    <3> QED
      BY <3>1, <3>2
  <2>2. ASSUME m[1] = "tmpc", <<"tmp", m[2]>> \in M PROVE m \in C
    <3>1. m = <<"tmpc", <<"tmp", m[2]>>[2]>>
      BY <1>4, <2>2
    <3> QED
      BY <2>2, <3>1
  <2> QED
    BY <2>1, <2>2
<1>7. C \subseteq Nombres
  BY <1>2, <1>3, <1>4, <1>5
<1>8. IsFiniteSet(C)
  <2> DEFINE f == [m \in M |-> <<"tmpc", m[2]>>]
  <2>1. IsFiniteSet(M)
    BY <1>2, <1>3, FS_Subset
  <2>2. f \in Surjection(M, C)
    BY DEF Surjection
  <2> QED
    BY <2>1, <2>2, FS_Surjection
<1> HIDE DEF C
<1>9. IsFiniteSet(D) /\ D \subseteq Nombres
  BY <1>2, <1>7, <1>8, FS_Difference, FS_Union
<1>10. \A m \in D : c[m] = (IF m \in C THEN a[<<"tmp", m[2]>>] ELSE a[m])
  BY <1>1
<1>11. \A m \in D : c[m] \in Seq(Filas)
  BY <1>2, <1>3, <1>6, <1>7, <1>10
<1>12. DOMAIN c = D /\ c \in [D -> Seq(Filas)]
  BY <1>1, <1>11
<1>13. \A m \in Nombres :
         m \in D <=> \/ m \in DOMAIN a /\ m \notin M
                     \/ m[1] = "tmpc" /\ <<"tmp", m[2]>> \in M
  BY <1>6
<1>14. \A m \in D : c[m] = IF m[1] = "tmpc" /\ <<"tmp", m[2]>> \in M
                           THEN a[<<"tmp", m[2]>>] ELSE a[m]
  BY <1>6, <1>9, <1>10
<1> HIDE DEF D
<1> QED
  BY <1>9, <1>12, <1>13, <1>14 DEF EsCarpeta, c

\* rename_temporal_files.
LEMMA CarpetaRenombra ==
  ASSUME NEW t, EsCarpeta(archivos[t])
  PROVE  /\ EsCarpeta(Renombrados(t))
         /\ \A m \in Nombres :
               m \in DOMAIN Renombrados(t) <=>
                  \/ m[1] = "bin" /\ m \in DOMAIN archivos[t]
                  \/ m[1] = "tmpc" /\ (\/ m \in DOMAIN archivos[t]
                                       \/ <<"tmp", m[2]>> \in DOMAIN archivos[t])
         /\ \A m \in DOMAIN Renombrados(t) :
               Renombrados(t)[m] = IF m[1] = "tmpc" /\ <<"tmp", m[2]>> \in DOMAIN archivos[t]
                                   THEN archivos[t][<<"tmp", m[2]>>]
                                   ELSE archivos[t][m]
<1> DEFINE M == De(t, {"tmp"})
<1>1. M = {m \in DOMAIN archivos[t] : m[1] = "tmp"}
  BY DEF De
<1>2. \A m \in Nombres : m[1] \in {"bin", "tmp", "tmpc"}
  BY DEF Nombres
<1>3. \A k : <<"tmp", k>> \in M <=> <<"tmp", k>> \in DOMAIN archivos[t]
  BY <1>1
<1> HIDE DEF M
<1>4. M \in SUBSET De(t, {"tmp"}) /\ Renombrados(t) = RenombradosDe(t, M)
  BY DEF Renombrados, M
<1>5. /\ EsCarpeta(RenombradosDe(t, M))
      /\ \A m \in Nombres :
            m \in DOMAIN RenombradosDe(t, M) <=>
               \/ m \in DOMAIN archivos[t] /\ m \notin M
               \/ m[1] = "tmpc" /\ <<"tmp", m[2]>> \in M
      /\ \A m \in DOMAIN RenombradosDe(t, M) :
            RenombradosDe(t, M)[m] = IF m[1] = "tmpc" /\ <<"tmp", m[2]>> \in M
                                     THEN archivos[t][<<"tmp", m[2]>>]
                                     ELSE archivos[t][m]
  BY <1>4, CarpetaRenombraDe
<1>6. \A m \in Nombres :
         m \in DOMAIN RenombradosDe(t, M) <=>
            \/ m[1] = "bin" /\ m \in DOMAIN archivos[t]
            \/ m[1] = "tmpc" /\ (m \in DOMAIN archivos[t] \/ <<"tmp", m[2]>> \in DOMAIN archivos[t])
  <2> TAKE m \in Nombres
  <2>1. m[1] \in {"bin", "tmp", "tmpc"}
    BY <1>2
  <2>2. m \in M <=> m \in DOMAIN archivos[t] /\ m[1] = "tmp"
    BY <1>1
  <2>3. m \in DOMAIN RenombradosDe(t, M) <=>
            \/ m \in DOMAIN archivos[t] /\ m \notin M
            \/ m[1] = "tmpc" /\ <<"tmp", m[2]>> \in M
    BY <1>5
  <2> QED
    BY <1>3, <2>1, <2>2, <2>3
<1> QED
  BY <1>3, <1>4, <1>5, <1>6

\* The partitions stay as they are when some .tmp are renamed.
LEMMA BinsQuietos ==
  ASSUME NEW t, EsCarpeta(archivos[t]), NEW M \in SUBSET De(t, {"tmp"})
  PROVE  /\ \A m \in Nombres : m[1] = "bin" =>
               (m \in DOMAIN RenombradosDe(t, M) <=> m \in DOMAIN archivos[t])
         /\ \A m \in DOMAIN RenombradosDe(t, M) : m[1] = "bin" =>
               RenombradosDe(t, M)[m] = archivos[t][m]
<1>1. \A m \in M : m[1] = "tmp"
  BY DEF De
<1> DEFINE R == RenombradosDe(t, M)
<1>2. /\ \A m \in Nombres :
            m \in DOMAIN R <=>
               \/ m \in DOMAIN archivos[t] /\ m \notin M
               \/ m[1] = "tmpc" /\ <<"tmp", m[2]>> \in M
      /\ \A m \in DOMAIN R :
            R[m] = IF m[1] = "tmpc" /\ <<"tmp", m[2]>> \in M
                   THEN archivos[t][<<"tmp", m[2]>>] ELSE archivos[t][m]
  BY CarpetaRenombraDe
<1> HIDE DEF R
<1>3. \A m \in Nombres : m[1] = "bin" => (m \in DOMAIN R <=> m \in DOMAIN archivos[t])
  BY <1>1, <1>2
<1>4. \A m \in DOMAIN R : m[1] = "bin" => R[m] = archivos[t][m]
  BY <1>2
<1> QED
  BY <1>3, <1>4 DEF R

\* The file a dump makes is a new one.
LEMMA NuevoTemporalEs ==
  ASSUME NEW t, EsCarpeta(archivos[t])
  PROVE  /\ NuevoTemporal(t) \in Nombres
         /\ NuevoTemporal(t)[1] = "tmp"
         /\ NuevoTemporal(t) \notin DOMAIN archivos[t]
<1> DEFINE T == De(t, {"tmp"})
           N == {n[2] : n \in T}
           S == {0} \cup N
           m == Max(S)
<1>1. T \subseteq DOMAIN archivos[t] /\ IsFiniteSet(T) /\ \A n \in T : n[2] \in Nat
  <2>1. T \subseteq DOMAIN archivos[t]
    BY DEF De
  <2> QED
    BY <2>1, FS_Subset DEF EsCarpeta, Nombres
<1> HIDE DEF T
<1>2. IsFiniteSet(N)
  <2> DEFINE f == [n \in T |-> n[2]]
  <2>1. f \in Surjection(T, N)
    BY DEF Surjection
  <2> QED
    BY <1>1, <2>1, FS_Surjection
<1>3. N \in SUBSET Nat
  BY <1>1
<1>4. S \in SUBSET Nat /\ IsFiniteSet(S) /\ S # {}
  <2>1. IsFiniteSet({0})
    BY FS_Singleton
  <2>2. IsFiniteSet(S)
    BY <1>2, <2>1, FS_Union
  <2> QED
    BY <1>3, <2>2
<1>5. m \in Nat /\ \A n \in T : n[2] <= m
  <2> HIDE DEF S
  <2>1. m \in S /\ \A x \in S : x <= m
    BY <1>4, MaximoFinito
  <2>2. \A n \in T : n[2] \in S
    BY DEF S
  <2> QED
    BY <1>4, <2>1, <2>2
<1>6. NuevoTemporal(t) = <<"tmp", 1 + m>>
  BY DEF NuevoTemporal, T
<1> HIDE DEF m
<1>7. ASSUME <<"tmp", 1 + m>> \in DOMAIN archivos[t] PROVE FALSE
  <2> DEFINE x == <<"tmp", 1 + m>>
  <2>1. x[1] = "tmp" /\ x[2] = 1 + m
    OBVIOUS
  <2>2. x \in T
    BY <1>7, <2>1 DEF De, T
  <2> HIDE DEF x
  <2>3. 1 + m <= m
    BY <1>5, <2>1, <2>2
  <2> QED
    BY <1>5, <2>3
<1> QED
  BY <1>5, <1>6, <1>7 DEF Nombres

\* Some rows of a list, in its order.
LEMMA EnOrdenTipo ==
  ASSUME NEW l \in Seq(Filas), NEW o \in EnOrden(Len(l))
  PROVE  [i \in DOMAIN o |-> l[o[i]]] \in Seq(Filas)
<1>1. PICK S \in SUBSET (1 .. Len(l)) : o \in SetToSeqs(S)
  BY DEF EnOrden, SetToAllKPermutations
<1>2. IsFiniteSet(1 .. Len(l)) /\ Len(l) \in Nat
  BY FS_Interval
<1>3. IsFiniteSet(S)
  BY <1>2, FS_Subset
<1>4. Cardinality(S) \in Nat
  BY <1>3, FS_CardinalityType
<1>5. o \in [1 .. Cardinality(S) -> S]
  BY <1>1 DEF SetToSeqs
<1> DEFINE n == Cardinality(S)
           z == [i \in DOMAIN o |-> l[o[i]]]
<1> HIDE DEF n
<1>6. DOMAIN o = 1 .. n /\ \A i \in 1 .. n : l[o[i]] \in Filas
  <2>1. DOMAIN o = 1 .. n /\ \A i \in 1 .. n : o[i] \in 1 .. Len(l)
    BY <1>5 DEF n
  <2>2. \A j \in 1 .. Len(l) : l[j] \in Filas
    OBVIOUS
  <2> QED
    BY <2>1, <2>2
<1>7. z \in [1 .. n -> Filas]
  BY <1>6
<1> QED
  BY <1>4, <1>7, IsASeq DEF n

-----------------------------------------------------------------------------
(* Types *)

PedidoTipo(e, p) ==
    /\ e = "guarda" => p.tabla \in Tablas /\ p.fila \in Filas
    /\ e = "lee" => p.tabla \in Tablas /\ p.key \in Claves
    /\ e = "describe" => p.tablas \subseteq Tablas
    /\ e = "abre" => p.tabla \in Tablas /\ p.tablas \subseteq Tablas
    /\ e \in {"borra", "remove", "rmdir", "crea", "particiona", "cierra"} => p.tabla \in Tablas
    /\ e \in {"crea", "particiona", "cierra"} => p.particiones \in Particiones

\* Where a client can be.
Estados ==
    {"reposo", "guarda", "lee", "describe", "abre", "nulo", "borra", "remove", "rmdir",
     "crea", "particiona", "cierra"}

TiposClientes ==
    /\ est \in [Clientes -> Estados]
    /\ DOMAIN pedido = Clientes /\ DOMAIN salida = Clientes
    /\ abierta \in [Clientes -> BOOLEAN]
    /\ \A c \in Clientes : PedidoTipo(est[c], pedido[c])

TiposTablas ==
    /\ directorio \subseteq Tablas
    /\ metadata \in [Tablas -> Particiones \cup {SinMetadata}]
    /\ table_status \in [Tablas -> BOOLEAN]
    /\ memtable \in [Tablas -> Seq(Filas)]
    /\ comp \in {Nada} \cup Compactaciones

TiposArchivos ==
    /\ DOMAIN archivos = Tablas
    /\ \A t \in Tablas : EsCarpeta(archivos[t])

\* Who holds operation_mutex while it works.
Turno ==
    /\ comp # Nada => operation_mutex = "compactacion"
    /\ \A c \in Clientes : est[c] \in {"remove", "rmdir"} => operation_mutex = c

TInv == TiposClientes /\ TiposTablas /\ TiposArchivos /\ Turno

LEMMA TInit == Init => TInv
<1> SUFFICES ASSUME Init PROVE TInv
  OBVIOUS
<1>1. TiposClientes
  BY DEF Init, TiposClientes, PedidoTipo, Estados
<1>2. TiposTablas
  BY ExistentesAssumption DEF Init, TiposTablas
<1>3. TiposArchivos
  <2> SUFFICES ASSUME NEW t \in Tablas PROVE EsCarpeta(archivos[t])
    BY DEF Init, TiposArchivos
  <2>1. metadata[t] \in Nat \/ metadata[t] = -1
    BY ParticionesAssumption DEF Init, SinMetadata
  <2>2. archivos[t] = [p \in Bins(metadata[t]) |-> <<>>]
    BY DEF Init, Bins
  <2>3. IsFiniteSet(Bins(metadata[t])) /\ Bins(metadata[t]) \subseteq Nombres
    <3>1. CASE metadata[t] \in Nat
      BY <3>1, BinsSon
    <3>2. CASE metadata[t] = -1
      <4>1. Bins(metadata[t]) = {}
        BY <3>2 DEF Bins
      <4> QED
        BY <4>1, FS_EmptySet
    <3> QED
      BY <2>1, <3>1, <3>2
  <2> QED
    BY <2>2, <2>3 DEF EsCarpeta
<1>4. Turno
  BY DEF Init, Turno
<1> QED
  BY <1>1, <1>2, <1>3, <1>4 DEF TInv

LEMMA MorirTipos ==
  ASSUME TInv, Morir
  PROVE  TiposClientes' /\ Turno'
         /\ (UNCHANGED <<directorio, metadata>> => TiposTablas')
<1>1. TiposClientes'
  BY DEF Morir, TiposClientes, PedidoTipo, Estados
<1>2. Turno'
  BY NadieAssumption DEF Morir, Turno
<1>3. UNCHANGED <<directorio, metadata>> => TiposTablas'
  BY DEF Morir, TInv, TiposTablas
<1> QED
  BY <1>1, <1>2, <1>3

\* A request that passed its checks.
PedirEs(c, e, p) ==
    /\ est' = [est EXCEPT ![c] = e]
    /\ pedido' = [pedido EXCEPT ![c] = p]
    /\ e \in {"reposo", "guarda", "lee", "describe", "abre", "borra", "crea"}
    /\ PedidoTipo(e, p)

\* A DESCRIBE with some tables left, or none.
LEMMA SigueEs ==
  ASSUME NEW c, NEW T \in SUBSET Tablas, Sigue(c, T)
  PROVE  PedirEs(c, "reposo", Nada) \/ PedirEs(c, "describe", [tablas |-> T])
  BY DEF PedirEs, PedidoTipo

LEMMA PedirTipos ==
  ASSUME TInv, NEW c \in Clientes, Pedir(c)
  PROVE  TInv'
<1> USE DEF TInv
<1>1. CASE Rechaza(c)
  BY <1>1 DEF Rechaza, vars, disco, clientes, TiposClientes, TiposTablas, TiposArchivos, EsCarpeta,
              Turno
<1>2. CASE InsertInvalido(c) \/ DescribeInvalido(c)
  <2>1. TiposArchivos'
    BY <1>2 DEF InsertInvalido, DescribeInvalido, disco, TiposArchivos, EsCarpeta
  <2> QED
    BY <1>2, <2>1, MorirTipos DEF InsertInvalido, DescribeInvalido, disco
<1>3. ASSUME \/ \E t \in Tablas, f \in Filas : InsertMira(c, t, f)
             \/ \E t \in Tablas, k \in Claves : SelectMira(c, t, k)
             \/ \E t \in Tablas : DescribeUna(c, t)
             \/ DescribeTodas(c)
             \/ \E t \in Tablas : DropMira(c, t)
             \/ \E t \in Tablas, n \in Particiones : CreateMira(c, t, n)
      PROVE  TInv'
  <2>1. UNCHANGED <<directorio, archivos, metadata, memtable, table_status, operation_mutex,
                    abierta, salida, comp>>
    BY <1>3 DEF InsertMira, SelectMira, DescribeUna, DescribeTodas, DropMira, CreateMira, disco
  <2>2. TiposTablas' /\ TiposArchivos'
    BY <2>1 DEF TiposTablas, TiposArchivos, EsCarpeta
  <2>3. PICK e, p : PedirEs(c, e, p)
    <3>1. ASSUME NEW t \in Tablas, NEW f \in Filas, InsertMira(c, t, f)
          PROVE  PedirEs(c, "guarda", [tabla |-> t, fila |-> f])
      BY <3>1 DEF InsertMira, PedirEs, PedidoTipo
    <3>2. ASSUME NEW t \in Tablas, NEW k \in Claves, SelectMira(c, t, k)
          PROVE  PedirEs(c, "lee", [tabla |-> t, key |-> k])
      BY <3>2 DEF SelectMira, PedirEs, PedidoTipo
    <3>3. ASSUME NEW t \in Tablas, DropMira(c, t)
          PROVE  PedirEs(c, "borra", [tabla |-> t])
      BY <3>3 DEF DropMira, PedirEs, PedidoTipo
    <3>4. ASSUME NEW t \in Tablas, NEW n \in Particiones, CreateMira(c, t, n)
          PROVE  PedirEs(c, "crea", [tabla |-> t, particiones |-> n])
      BY <3>4 DEF CreateMira, PedirEs, PedidoTipo
    <3>5. ASSUME NEW t \in Tablas, DescribeUna(c, t)
          PROVE  PedirEs(c, "abre", [tabla |-> t, tablas |-> {}])
      BY <3>5 DEF DescribeUna, PedirEs, PedidoTipo
    <3>6. ASSUME DescribeTodas(c)
          PROVE  PedirEs(c, "reposo", Nada) \/ PedirEs(c, "describe", [tablas |-> directorio])
      BY <3>6, SigueEs DEF DescribeTodas, TiposTablas
    <3> QED
      BY <1>3, <3>1, <3>2, <3>3, <3>4, <3>5, <3>6
  <2>4. TiposClientes'
    BY <2>1, <2>3 DEF PedirEs, TiposClientes, Estados
  <2>5. Turno'
    BY <2>1, <2>3 DEF PedirEs, Turno, TiposClientes
  <2> QED
    BY <2>2, <2>4, <2>5
<1> QED
  BY <1>1, <1>2, <1>3 DEF Pedir

LEMMA CarpetaUna ==
  ASSUME TiposArchivos, NEW t \in Tablas, NEW a, EsCarpeta(a),
         archivos' = [archivos EXCEPT ![t] = a]
  PROVE  TiposArchivos'
<1>1. \A d \in Tablas : archivos'[d] = IF d = t THEN a ELSE archivos[d]
  BY DEF TiposArchivos
<1>2. \A d \in Tablas : EsCarpeta(archivos'[d])
  BY <1>1 DEF TiposArchivos
<1> QED
  BY <1>2 DEF TiposArchivos, EsCarpeta

\* The request of c goes on to another place, or ends.
LEMMA SigueCliente ==
  ASSUME TiposClientes, NEW c \in Clientes, NEW e, NEW p,
         e \in Estados,
         est' = [est EXCEPT ![c] = e],
         pedido' = [pedido EXCEPT ![c] = p] \/ (pedido' = pedido /\ p = pedido[c]),
         PedidoTipo(e, p), abierta' \in [Clientes -> BOOLEAN], DOMAIN salida' = Clientes
  PROVE  TiposClientes'
  BY DEF TiposClientes

\* The places a step leaves the request of c at.
LEMMA SonEstados ==
  {"reposo", "nulo", "borra", "remove", "rmdir", "particiona", "cierra"} \subseteq Estados
  BY DEF Estados

LEMMA SinPedido ==
  ASSUME NEW p
  PROVE  PedidoTipo("reposo", p)
  BY DEF PedidoTipo

LEMMA SeguirTipos ==
  ASSUME TInv, NEW c \in Clientes, Seguir(c)
  PROVE  TInv'
<1> USE DEF TInv
<1>0. Nada \notin Clientes /\ Nada # "compactacion" /\ "compactacion" \notin Clientes
  BY NadieAssumption
<1> USE SonEstados
<1>a. est[c] \in {"abre", "borra", "remove", "rmdir", "crea", "particiona", "cierra"}
         => pedido[c].tabla \in Tablas
  BY DEF TiposClientes, PedidoTipo
<1>1. CASE InsertGuarda(c)
  <2> DEFINE t == pedido[c].tabla
             f == pedido[c].fila
  <2>1. t \in Tablas /\ f \in Filas
    BY <1>1 DEF InsertGuarda, TiposClientes, PedidoTipo
  <2>2. memtable' = [memtable EXCEPT ![t] = Append(memtable[t], f)]
    BY <1>1 DEF InsertGuarda, TiposTablas
  <2>3. Append(memtable[t], f) \in Seq(Filas)
    BY <2>1, AppendProperties DEF TiposTablas
  <2> HIDE DEF t, f
  <2>4. memtable' \in [Tablas -> Seq(Filas)]
    BY <2>1, <2>2, <2>3 DEF TiposTablas
  <2>5. TiposTablas'
    BY <1>1, <2>4 DEF InsertGuarda, disco, TiposTablas
  <2>6. TiposArchivos'
    BY <1>1 DEF InsertGuarda, disco, TiposArchivos, EsCarpeta
  <2>7. TiposClientes'
    BY <1>1, SigueCliente, SinPedido DEF InsertGuarda, TiposClientes
  <2>8. Turno'
    BY <1>1 DEF InsertGuarda, Turno, TiposClientes
  <2> QED
    BY <2>5, <2>6, <2>7, <2>8
<1>2. CASE SelectLee(c)
  <2>1. TiposTablas' /\ TiposArchivos'
    BY <1>2 DEF SelectLee, disco, TiposTablas, TiposArchivos, EsCarpeta
  <2>2. abierta' \in [Clientes -> BOOLEAN] /\ DOMAIN salida' = Clientes
    BY <1>2 DEF SelectLee, TiposClientes
  <2>3. est' = [est EXCEPT ![c] = "reposo"] /\ pedido' = [pedido EXCEPT ![c] = Nada]
    BY <1>2 DEF SelectLee
  <2>5. TiposClientes'
    <3>1. PedidoTipo("reposo", Nada) /\ TiposClientes
      BY SinPedido
    <3> QED
      BY <2>2, <2>3, <3>1 DEF TiposClientes
  <2>4. Turno'
    BY <1>2, <2>3 DEF SelectLee, Turno, TiposClientes
  <2> QED
    BY <2>1, <2>5, <2>4
<1>3. CASE SelectMuere(c) \/ DescribeMuere(c)
  <2>1. TiposArchivos'
    BY <1>3 DEF SelectMuere, DescribeMuere, disco, TiposArchivos, EsCarpeta
  <2> QED
    BY <1>3, <2>1, MorirTipos DEF SelectMuere, DescribeMuere, disco
<1>4. CASE DropBorra(c)
  <2>1. pedido[c].tabla \in Tablas
    BY <1>4, <1>a DEF DropBorra
  <2>2. TiposArchivos'
    BY <1>4, <2>1, CarpetaUna, CarpetaVacia DEF DropBorra
  <2>3. TiposTablas'
    BY <1>4, <2>1 DEF DropBorra, TiposTablas
  <2>4. PedidoTipo("remove", pedido[c])
    BY <2>1 DEF PedidoTipo
  <2>5. TiposClientes'
    BY <1>0, <1>4, <2>4, SigueCliente DEF DropBorra, TiposClientes
  <2>6. Turno'
    BY <1>0, <1>4 DEF DropBorra, Turno, TiposClientes
  <2> QED
    BY <2>2, <2>3, <2>5, <2>6
<1>b. CASE DropMetadata(c)
  <2>1. pedido[c].tabla \in Tablas
    BY <1>b, <1>a DEF DropMetadata
  <2>2. TiposArchivos'
    BY <1>b DEF DropMetadata, TiposArchivos, EsCarpeta
  <2>3. TiposTablas'
    BY <1>b, <2>1 DEF DropMetadata, TiposTablas
  <2>4. PedidoTipo("rmdir", pedido[c])
    BY <2>1 DEF PedidoTipo
  <2>5. abierta' \in [Clientes -> BOOLEAN]
    BY <1>b DEF DropMetadata
  <2>6. TiposClientes'
    BY <1>b, <2>4, <2>5, SigueCliente DEF DropMetadata, TiposClientes
  <2>7. Turno'
    BY <1>0, <1>b DEF DropMetadata, Turno, TiposClientes
  <2> QED
    BY <2>2, <2>3, <2>6, <2>7
<1>5. CASE DropTermina(c)
  <2>1. TiposArchivos'
    BY <1>5 DEF DropTermina, TiposArchivos, EsCarpeta
  <2>2. TiposTablas'
    BY <1>5 DEF DropTermina, TiposTablas
  <2>4. TiposClientes'
    BY <1>5, SigueCliente, SinPedido DEF DropTermina, TiposClientes
  <2>5. Turno'
    BY <1>0, <1>5 DEF DropTermina, Turno, TiposClientes
  <2> QED
    BY <2>1, <2>2, <2>4, <2>5
<1>c. CASE CreateDir(c)
  <2>1. pedido[c].tabla \in Tablas /\ PedidoTipo("particiona", pedido[c])
    BY <1>c DEF CreateDir, TiposClientes, PedidoTipo
  <2>2. TiposArchivos'
    BY <1>c DEF CreateDir, TiposArchivos, EsCarpeta
  <2>3. TiposTablas'
    BY <1>c, <2>1 DEF CreateDir, TiposTablas
  <2>4. TiposClientes'
    BY <1>c, <2>1, SigueCliente DEF CreateDir, TiposClientes
  <2>5. Turno'
    BY <1>c DEF CreateDir, Turno, TiposClientes
  <2> QED
    BY <2>2, <2>3, <2>4, <2>5
<1>d. CASE DescribeMira(c) \/ DescribeAbre(c)
  <2>1. TiposTablas' /\ TiposArchivos'
    BY <1>d DEF DescribeMira, DescribeAbre, disco, TiposTablas, TiposArchivos, EsCarpeta
  <2>2. PICK e, p : (PedirEs(c, e, p) \/ (/\ e = "nulo" /\ PedidoTipo(e, p)
                                         /\ est' = [est EXCEPT ![c] = e]
                                         /\ pedido' = [pedido EXCEPT ![c] = p]))
    <3>1. CASE DescribeMira(c)
      <4>1. PICK t \in pedido[c].tablas :
               IF t \in directorio
               THEN Espera(c, "abre", [tabla |-> t, tablas |-> pedido[c].tablas \ {t}])
               ELSE Espera(c, "nulo", Nada)
        BY <3>1 DEF DescribeMira
      <4>2. pedido[c].tablas \subseteq Tablas
        BY <3>1 DEF DescribeMira, TiposClientes, PedidoTipo
      <4>3. /\ PedidoTipo("nulo", Nada)
            /\ PedidoTipo("abre", [tabla |-> t, tablas |-> pedido[c].tablas \ {t}])
        BY <4>2 DEF PedidoTipo
      <4> QED
        BY <4>1, <4>3 DEF PedirEs
    <3>2. CASE DescribeAbre(c)
      <4>1. pedido[c].tablas \in SUBSET Tablas /\ Sigue(c, pedido[c].tablas)
        BY <3>2 DEF DescribeAbre, TiposClientes, PedidoTipo
      <4> HIDE DEF Sigue
      <4> QED
        BY <4>1, SigueEs
    <3> QED
      BY <1>d, <3>1, <3>2
  <2>3. TiposClientes'
    BY <1>d, <2>2 DEF DescribeMira, DescribeAbre, PedirEs, TiposClientes, Estados
  <2>4. Turno'
    BY <1>d, <2>2 DEF DescribeMira, DescribeAbre, PedirEs, Turno, TiposClientes
  <2> QED
    BY <2>1, <2>3, <2>4
<1>6. CASE CreateParticiones(c)
  <2> DEFINE t == pedido[c].tabla
             n == pedido[c].particiones
  <2>1. t \in Tablas /\ n \in Nat /\ n \in Particiones
    BY <1>6, ParticionesAssumption DEF CreateParticiones, TiposClientes, PedidoTipo
  <2>2. EsCarpeta(ConParticiones(t, n))
    BY <2>1, CarpetaParticiones DEF TiposArchivos
  <2>3. archivos' = [archivos EXCEPT ![t] = ConParticiones(t, n)]
    BY <1>6 DEF CreateParticiones
  <2>4. PedidoTipo("cierra", pedido[c])
    BY <2>1 DEF PedidoTipo
  <2> HIDE DEF t, n
  <2>5. TiposArchivos'
    BY <2>1, <2>2, <2>3, CarpetaUna
  <2>6. TiposTablas'
    BY <1>6 DEF CreateParticiones, TiposTablas
  <2>7. abierta' \in [Clientes -> BOOLEAN]
    BY <1>6 DEF CreateParticiones, TiposClientes
  <2>8. TiposClientes'
    BY <1>0, <1>6, <2>4, <2>7, SigueCliente DEF CreateParticiones, TiposClientes
  <2>9. Turno'
    BY <1>6 DEF CreateParticiones, Turno, TiposClientes
  <2> QED
    BY <2>5, <2>6, <2>8, <2>9
<1>7. CASE CreateSinEspacio(c)
  <2>1. TiposTablas' /\ TiposArchivos'
    BY <1>7 DEF CreateSinEspacio, disco, TiposTablas, TiposArchivos, EsCarpeta
  <2>2. PedidoTipo("borra", pedido[c])
    BY <1>7, <1>a DEF CreateSinEspacio, PedidoTipo
  <2>3. TiposClientes'
    BY <1>0, <1>7, <2>2, SigueCliente DEF CreateSinEspacio, TiposClientes
  <2>4. Turno'
    BY <1>7 DEF CreateSinEspacio, Turno, TiposClientes
  <2> QED
    BY <2>1, <2>3, <2>4
<1>8. CASE CreateSinDir(c)
  <2>1. TiposArchivos'
    BY <1>8 DEF CreateSinDir, disco, TiposArchivos, EsCarpeta
  <2>2. CASE Morir
    BY <1>8, <2>1, <2>2, MorirTipos DEF CreateSinDir, disco
  <2>3. CASE Responde(c) /\ UNCHANGED <<memtable, table_status, operation_mutex, abierta,
                                        salida, comp, hilos, vivo>>
    <3>1. TiposTablas'
      BY <1>8, <2>3 DEF CreateSinDir, disco, TiposTablas
    <3>2. TiposClientes'
      BY <2>3, SigueCliente, SinPedido DEF TiposClientes
    <3>3. Turno'
      BY <2>3 DEF Turno, TiposClientes
    <3> QED
      BY <2>1, <3>1, <3>2, <3>3
  <2> QED
    BY <1>8, <2>2, <2>3 DEF CreateSinDir
<1>9. CASE CreateTermina(c)
  <2>1. pedido[c].tabla \in Tablas /\ pedido[c].particiones \in Particiones
    BY <1>9 DEF CreateTermina, TiposClientes, PedidoTipo
  <2>2. TiposArchivos'
    BY <1>9 DEF CreateTermina, TiposArchivos, EsCarpeta
  <2>3. TiposTablas'
    BY <1>9, <2>1 DEF CreateTermina, TiposTablas
  <2>4. abierta' \in [Clientes -> BOOLEAN]
    BY <1>9 DEF CreateTermina, TiposClientes
  <2>5. TiposClientes'
    BY <1>9, <2>4, SigueCliente, SinPedido DEF CreateTermina, TiposClientes
  <2>6. Turno'
    BY <1>9 DEF CreateTermina, Turno, TiposClientes
  <2> QED
    BY <2>2, <2>3, <2>5, <2>6
<1> QED
  BY <1>1, <1>2, <1>3, <1>4, <1>b, <1>5, <1>c, <1>d, <1>6, <1>7, <1>8, <1>9 DEF Seguir

\* A dump adds one file to the table, or none.
LEMMA DumpAgrega ==
  ASSUME TInv, NEW t \in Tablas, DumpTabla(t)
  PROVE  \/ archivos' = archivos
         \/ t \in directorio /\ \E l \in Seq(Filas) :
               archivos' = [archivos EXCEPT ![t] = ConUno(archivos[t], NuevoTemporal(t), l)]
<1> DEFINE n == NuevoTemporal(t)
<1>1. \/ archivos' = archivos
      \/ t \in directorio /\ archivos' = [archivos EXCEPT ![t] = ConUno(archivos[t], n, memtable[t])]
      \/ t \in directorio /\ \E o \in EnOrden(Len(memtable[t])) :
            archivos' = [archivos EXCEPT
                ![t] = ConUno(archivos[t], n, [i \in DOMAIN o |-> memtable[t][o[i]]])]
  BY DEF DumpTabla, ConUno, TInv, TiposArchivos
<1>2. memtable[t] \in Seq(Filas)
  BY DEF TInv, TiposTablas
<1>3. \A o \in EnOrden(Len(memtable[t])) : [i \in DOMAIN o |-> memtable[t][o[i]]] \in Seq(Filas)
  BY <1>2, EnOrdenTipo
<1> HIDE DEF n
<1>4. \/ archivos' = archivos
      \/ t \in directorio /\ \E l \in Seq(Filas) :
            archivos' = [archivos EXCEPT ![t] = ConUno(archivos[t], n, l)]
  BY <1>1, <1>2, <1>3
<1> QED
  BY <1>4 DEF n

LEMMA DumpTipos ==
  ASSUME TInv, Dump
  PROVE  TInv'
<1> USE DEF TInv
<1>1. CASE DumpEmpieza
  <2>1. comp = Nada /\ \A c \in Clientes : est[c] \notin {"remove", "rmdir"}
    BY <1>1, NadieAssumption DEF DumpEmpieza, Turno
  <2>2. TiposArchivos'
    BY <1>1 DEF DumpEmpieza, disco, TiposArchivos, EsCarpeta
  <2> QED
    BY <1>1, <2>1, <2>2 DEF DumpEmpieza, disco, clientes, TiposClientes, TiposTablas, Turno
<1>2. ASSUME NEW t \in Tablas, DumpTabla(t)
      PROVE  TInv'
  <2> DEFINE n == NuevoTemporal(t)
  <2>1. n \in Nombres /\ memtable[t] \in Seq(Filas) /\ EsCarpeta(archivos[t])
    BY NuevoTemporalEs DEF TiposArchivos, TiposTablas
  <2>2. TiposArchivos'
    <3>1. CASE archivos' = archivos
      BY <3>1 DEF TiposArchivos, EsCarpeta
    <3>2. ASSUME NEW l \in Seq(Filas), archivos' = [archivos EXCEPT ![t] = ConUno(@, n, l)]
          PROVE  TiposArchivos'
      <4>1. EsCarpeta(ConUno(archivos[t], n, l))
        BY <2>1, CarpetaAgrega
      <4>2. archivos' = [archivos EXCEPT ![t] = ConUno(archivos[t], n, l)]
        BY <3>2
      <4> QED
        BY <4>1, <4>2, CarpetaUna
    <3>3. \/ archivos' = [archivos EXCEPT ![t] = ConUno(@, n, memtable[t])]
          \/ \E o \in EnOrden(Len(memtable[t])) :
                archivos' = [archivos EXCEPT
                               ![t] = ConUno(@, n, [i \in DOMAIN o |-> memtable[t][o[i]]])]
          \/ archivos' = archivos
      BY <1>2 DEF DumpTabla, ConUno
    <3>4. \A o \in EnOrden(Len(memtable[t])) : [i \in DOMAIN o |-> memtable[t][o[i]]] \in Seq(Filas)
      BY <2>1, EnOrdenTipo
    <3> HIDE DEF n
    <3> QED
      BY <2>1, <3>1, <3>2, <3>3, <3>4
  <2>3. TiposTablas'
    BY <1>2 DEF DumpTabla, TiposTablas
  <2>4. TiposClientes' /\ Turno'
    BY <1>2 DEF DumpTabla, clientes, TiposClientes, Turno
  <2> QED
    BY <2>2, <2>3, <2>4
<1>3. ASSUME NEW t \in Tablas, DumpMuere(t)
      PROVE  TInv'
  <2>1. TiposArchivos'
    BY <1>3 DEF DumpMuere, disco, TiposArchivos, EsCarpeta
  <2> QED
    BY <1>3, <2>1, MorirTipos DEF DumpMuere, disco
<1>4. CASE DumpTermina
  <2>1. comp = Nada /\ \A c \in Clientes : est[c] \notin {"remove", "rmdir"}
    BY <1>4, NadieAssumption DEF DumpTermina, Turno
  <2>2. TiposArchivos'
    BY <1>4 DEF DumpTermina, disco, TiposArchivos, EsCarpeta
  <2> QED
    BY <1>4, <2>1, <2>2 DEF DumpTermina, disco, clientes, TiposClientes, TiposTablas, Turno
<1> QED
  BY <1>1, <1>2, <1>3, <1>4 DEF Dump

\* What Fase says of the compaction in progress.
LEMMA FaseEs ==
  ASSUME TInv, NEW f, Fase(f)
  PROVE  /\ comp \in Compactaciones /\ comp # Nada /\ comp.fase = f
         /\ comp.tabla \in Tablas /\ comp.filas \in Seq(Filas) /\ comp.particiones \in Nat
         /\ operation_mutex = "compactacion"
         /\ \A c \in Clientes : est[c] \notin {"remove", "rmdir"}
<1>1. comp \in Compactaciones /\ comp # Nada /\ comp.fase = f
  BY DEF Fase, TInv, TiposTablas
<1>2. comp.tabla \in Tablas /\ comp.filas \in Seq(Filas) /\ comp.particiones \in Nat
  BY <1>1 DEF Compactaciones
<1>3. operation_mutex = "compactacion"
  BY <1>1 DEF TInv, Turno
<1>4. \A c \in Clientes : est[c] \notin {"remove", "rmdir"}
  BY <1>3, NadieAssumption DEF TInv, Turno
<1> QED
  BY <1>1, <1>2, <1>3, <1>4

LEMMA ContarBins ==
  ASSUME TInv, NEW t \in Tablas
  PROVE  Cardinality(De(t, {"bin"})) \in Nat
<1>1. IsFiniteSet(De(t, {"bin"}))
  <2>1. De(t, {"bin"}) \in SUBSET DOMAIN archivos[t]
    BY DEF De
  <2> QED
    BY <2>1, FS_Subset DEF TInv, TiposArchivos, EsCarpeta
<1> QED
  BY <1>1, FS_CardinalityType

\* The rows that a compaction reads, and the ones it keeps.
LEMMA CompLeeFilas ==
  ASSUME TInv, Fase("lee"), NEW l \in Leer(comp.tabla, De(comp.tabla, {"bin", "tmpc"}))
  PROVE  /\ l \in Seq(Filas)
         /\ ToSet(l) = UNION {ToSet(archivos[comp.tabla][n]) : n \in De(comp.tabla, {"bin", "tmpc"})}
         /\ UltimasFilas(l) \in Seq(Filas)
         /\ Resume(ToSet(UltimasFilas(l)), ToSet(l))
<1> DEFINE t == comp.tabla
           N == De(t, {"bin", "tmpc"})
<1>1. t \in Tablas
  BY FaseEs
<1> HIDE DEF t
<1>2. N \in SUBSET DOMAIN archivos[t] /\ EsCarpeta(archivos[t])
  BY <1>1 DEF De, TInv, TiposArchivos
<1>3. IsFiniteSet(N) /\ \A n \in N : archivos[t][n] \in Seq(Filas)
  BY <1>2, FS_Subset DEF EsCarpeta
<1> HIDE DEF N
<1>4. l \in Leer(t, N)
  BY DEF N, t
<1>5. l \in Seq(Filas) /\ ToSet(l) = UNION {ToSet(archivos[t][n]) : n \in N}
  BY <1>3, <1>4, LeerTodo
<1>6. UltimasFilas(l) \in Seq(Filas) /\ Resume(ToSet(UltimasFilas(l)), ToSet(l))
  BY <1>5, UltimasSon
<1> QED
  BY <1>5, <1>6 DEF N, t

LEMMA CompTipos ==
  ASSUME TInv, Compactar
  PROVE  TInv'
<1> USE DEF TInv
<1>1. ASSUME NEW t \in Tablas, CompSale(t)
      PROVE  TInv'
  BY <1>1 DEF CompSale, disco, clientes, TiposClientes, TiposTablas, TiposArchivos, EsCarpeta, Turno
<1>2. ASSUME NEW t \in Tablas, CompRenombra(t)
      PROVE  TInv'
  <2>1. EsCarpeta(Renombrados(t))
    BY CarpetaRenombra DEF TiposArchivos
  <2>2. TiposArchivos'
    BY <1>2, <2>1, CarpetaUna DEF CompRenombra
  <2>3. comp' \in Compactaciones
    BY <1>2 DEF CompRenombra, Compactaciones
  <2>4. TiposTablas'
    BY <1>2, <2>3 DEF CompRenombra, TiposTablas
  <2>5. TiposClientes'
    BY <1>2 DEF CompRenombra, clientes, TiposClientes
  <2>6. Turno'
    BY <1>2, NadieAssumption DEF CompRenombra, clientes, Turno
  <2> QED
    BY <2>2, <2>4, <2>5, <2>6
<1>9. ASSUME NEW t \in Tablas, CompRenombraFalla(t)
      PROVE  TInv'
  <2>1. PICK M \in SUBSET De(t, {"tmp"}) : archivos' = [archivos EXCEPT ![t] = RenombradosDe(t, M)]
    BY <1>9 DEF CompRenombraFalla
  <2>2. EsCarpeta(RenombradosDe(t, M))
    BY CarpetaRenombraDe DEF TiposArchivos
  <2>3. TiposArchivos'
    BY <2>1, <2>2, CarpetaUna
  <2>4. TiposTablas' /\ TiposClientes' /\ Turno'
    BY <1>9 DEF CompRenombraFalla, clientes, TiposTablas, TiposClientes, Turno
  <2> QED
    BY <2>3, <2>4
<1>3. CASE CompLee
  <2>1. PICK l \in Leer(comp.tabla, De(comp.tabla, {"bin", "tmpc"})) :
            comp' = [comp EXCEPT !.fase = "limpia", !.filas = UltimasFilas(l)]
    BY <1>3 DEF CompLee
  <2>2. Fase("lee")
    BY <1>3 DEF CompLee
  <2>3. UltimasFilas(l) \in Seq(Filas) /\ comp \in Compactaciones
    BY <2>2, CompLeeFilas, FaseEs
  <2>4. comp' \in Compactaciones
    BY <2>1, <2>3 DEF Compactaciones
  <2>5. TiposTablas' /\ TiposArchivos'
    BY <1>3, <2>4 DEF CompLee, disco, TiposTablas, TiposArchivos, EsCarpeta
  <2>6. TiposClientes' /\ Turno'
    BY <1>3, <2>2, FaseEs DEF CompLee, clientes, TiposClientes, Turno
  <2> QED
    BY <2>5, <2>6
<1>4. CASE CompLimpia
  <2>1. Fase("limpia")
    BY <1>4 DEF CompLimpia
  <2>2. comp \in Compactaciones /\ comp.tabla \in Tablas
    BY <2>1, FaseEs
  <2>3. comp' \in Compactaciones
    BY <1>4, <2>2, ContarBins DEF CompLimpia, Compactaciones
  <2>4. TiposArchivos'
    BY <1>4, <2>2, CarpetaUna, CarpetaVacia DEF CompLimpia
  <2>5. TiposTablas'
    BY <1>4, <2>2, <2>3 DEF CompLimpia, TiposTablas
  <2>6. TiposClientes' /\ Turno'
    BY <1>4, <2>1, FaseEs DEF CompLimpia, clientes, TiposClientes, Turno
  <2> QED
    BY <2>4, <2>5, <2>6
<1>5. CASE CompRecrea
  <2>1. Fase("recrea")
    BY <1>5 DEF CompRecrea
  <2>2. comp \in Compactaciones /\ comp.tabla \in Tablas /\ comp.particiones \in Nat
    BY <2>1, FaseEs
  <2>3. comp' \in Compactaciones
    BY <1>5, <2>2 DEF CompRecrea, Compactaciones
  <2>4. EsCarpeta(ConParticiones(comp.tabla, comp.particiones))
    BY <2>2, CarpetaParticiones DEF TiposArchivos
  <2>5. TiposArchivos'
    BY <1>5, <2>2, <2>4, CarpetaUna DEF CompRecrea
  <2>6. TiposTablas'
    BY <1>5, <2>3 DEF CompRecrea, TiposTablas
  <2>7. TiposClientes' /\ Turno'
    BY <1>5, <2>1, FaseEs DEF CompRecrea, clientes, TiposClientes, Turno
  <2> QED
    BY <2>5, <2>6, <2>7
<1>6. CASE CompGuarda
  <2> DEFINE t == comp.tabla
             f == Head(comp.filas)
             d == Destino(t, f.key)
             a == [archivos[t] EXCEPT ![d] = Append(archivos[t][d], f)]
  <2>1. Fase("guarda") /\ comp.filas # <<>> /\ Hallada(t, f.key)
    BY <1>6 DEF CompGuarda
  <2>2. comp \in Compactaciones /\ t \in Tablas /\ comp.filas \in Seq(Filas)
    BY <2>1, FaseEs
  <2>3. Tail(comp.filas) \in Seq(Filas) /\ f \in Filas
    BY <2>1, <2>2, HeadTailProperties, EmptySeq
  <2>4. comp' \in Compactaciones
    BY <1>6, <2>2, <2>3 DEF CompGuarda, Compactaciones
  <2>5. d \in DOMAIN archivos[t] /\ EsCarpeta(archivos[t])
    BY <2>1, <2>2 DEF Hallada, Destino, TiposArchivos
  <2> HIDE DEF d, f, t
  <2>6. EsCarpeta(a)
    <3>1. archivos[t][d] \in Seq(Filas)
      BY <2>5 DEF EsCarpeta
    <3>2. Append(archivos[t][d], f) \in Seq(Filas)
      BY <2>3, <3>1, AppendProperties
    <3> QED
      BY <2>5, <3>2 DEF EsCarpeta
  <2>7. archivos' = archivos \/ archivos' = [archivos EXCEPT ![t] = a]
    BY <1>6, <2>2 DEF CompGuarda, TiposArchivos, t, f, d
  <2>8. TiposArchivos'
    <3>1. CASE archivos' = archivos
      BY <3>1 DEF TiposArchivos, EsCarpeta
    <3>2. CASE archivos' = [archivos EXCEPT ![t] = a]
      BY <2>2, <2>6, <3>2, CarpetaUna
    <3> QED
      BY <2>7, <3>1, <3>2
  <2>9. TiposTablas'
    BY <1>6, <2>4 DEF CompGuarda, TiposTablas
  <2>10. TiposClientes' /\ Turno'
    BY <1>6, <2>1, FaseEs DEF CompGuarda, clientes, TiposClientes, Turno
  <2> QED
    BY <2>8, <2>9, <2>10
<1>7. CASE CompMuere
  <2>1. TiposArchivos'
    <3>1. CASE archivos' = archivos
      BY <3>1 DEF TiposArchivos, EsCarpeta
    <3>2. CASE /\ Fase("recrea")
               /\ archivos' = [archivos EXCEPT
                                 ![comp.tabla] = ConParticiones(comp.tabla, comp.particiones)]
      <4>1. comp.tabla \in Tablas /\ comp.particiones \in Nat
        BY <3>2, FaseEs
      <4>2. EsCarpeta(ConParticiones(comp.tabla, comp.particiones))
        BY <4>1, CarpetaParticiones DEF TiposArchivos
      <4> QED
        BY <3>2, <4>1, <4>2, CarpetaUna
    <3> QED
      BY <1>7, <3>1, <3>2 DEF CompMuere
  <2> QED
    BY <1>7, <2>1, MorirTipos DEF CompMuere
<1>8. CASE CompTermina
  <2>1. Fase("guarda")
    BY <1>8 DEF CompTermina
  <2>2. comp.tabla \in Tablas /\ \A c \in Clientes : est[c] \notin {"remove", "rmdir"}
    BY <2>1, FaseEs
  <2>3. TiposTablas' /\ TiposArchivos'
    BY <1>8, <2>2 DEF CompTermina, disco, TiposTablas, TiposArchivos, EsCarpeta
  <2>4. TiposClientes' /\ Turno'
    BY <1>8, <2>2 DEF CompTermina, clientes, TiposClientes, Turno
  <2> QED
    BY <2>3, <2>4
<1> QED
  BY <1>1, <1>2, <1>3, <1>4, <1>5, <1>6, <1>7, <1>8, <1>9 DEF Compactar

LEMMA TNext == TInv /\ [Next]_vars => TInv'
<1> SUFFICES ASSUME TInv, [Next]_vars PROVE TInv'
  OBVIOUS
<1>1. CASE UNCHANGED vars
  BY <1>1 DEF vars, disco, clientes, TInv, TiposClientes, TiposTablas, TiposArchivos, EsCarpeta,
              Turno
<1>2. CASE Caida
  <2>1. TiposArchivos'
    BY <1>2 DEF Caida, disco, TInv, TiposArchivos, EsCarpeta
  <2> QED
    BY <1>2, <2>1, MorirTipos DEF Caida, disco, TInv
<1>3. CASE Arrancar
  BY <1>3 DEF Arrancar, disco, clientes, TInv, TiposClientes, TiposTablas, TiposArchivos, EsCarpeta,
              Turno
<1> QED
  BY <1>1, <1>2, <1>3, PedirTipos, SeguirTipos, DumpTipos, CompTipos DEF Next

-----------------------------------------------------------------------------
(* What a compaction leaves behind.                                        *)
(*                                                                         *)
(* A .tmpc and a blocked table are there only while a compaction of the    *)
(* table is in progress, and no other one starts, no table is dropped and  *)
(* no dump runs meanwhile, because it holds operation_mutex to its end.  A *)
(* stop in the middle leaves the .tmpc, and so does a rename that fails    *)
(* after others of the same compaction: the theorem is about LFS until it  *)
(* stops, whatever the reason, with no rename failing.                     *)

\* No rename fails.
SinRenombreFallido == ~\E t \in Tablas : CompRenombraFalla(t)

\* clean_blocks removed the temporals of the table.
SinTmpc ==
    comp # Nada /\ comp.fase \in {"recrea", "guarda"} => De(comp.tabla, {"tmpc"}) = {}

RestosInv == TInv /\ SinTmpc /\ SinRestos

HayTmpc(t) == De(t, {"tmpc"}) # {}

LEMMA HayTmpcEs ==
  /\ \A t : HayTmpc(t) <=> \E n \in DOMAIN archivos[t] : n[1] = "tmpc"
  /\ \A t : HayTmpc(t)' <=> \E n \in DOMAIN archivos'[t] : n[1] = "tmpc"
  BY DEF HayTmpc, De

LEMMA RestosInit == Init => RestosInv
<1> SUFFICES ASSUME Init PROVE RestosInv
  OBVIOUS
<1>1. \A t \in Tablas : De(t, {"tmpc"}) = {}
  BY DEF Init, De
<1> QED
  BY <1>1, TInit DEF Init, RestosInv, SinTmpc, SinRestos

\* The same compaction before and after.
LEMMA RestosConComp ==
  ASSUME RestosInv, TInv', comp' = comp,
         \A t \in Tablas : /\ table_status'[t] => table_status[t]
                           /\ HayTmpc(t)' => HayTmpc(t)
  PROVE  RestosInv'
<1>1. SinRestos'
  BY DEF RestosInv, SinRestos, HayTmpc
<1>2. comp # Nada => comp.tabla \in Tablas
  BY DEF RestosInv, TInv, TiposTablas, Compactaciones
<1>3. SinTmpc'
  <2> SUFFICES ASSUME comp # Nada, comp.fase \in {"recrea", "guarda"}
               PROVE  ~HayTmpc(comp.tabla)'
    BY DEF SinTmpc, HayTmpc
  <2>1. ~HayTmpc(comp.tabla)
    BY DEF RestosInv, SinTmpc, HayTmpc
  <2> QED
    BY <1>2, <2>1
<1> QED
  BY <1>1, <1>3 DEF RestosInv

\* The compaction of t goes on, and leaves the other tables alone.
LEMMA RestosSigue ==
  ASSUME RestosInv, TInv', NEW t \in Tablas, comp' # Nada, comp'.tabla = t,
         \A d \in Tablas \ {t} : ~HayTmpc(d) /\ ~table_status[d],
         \A d \in Tablas \ {t} : table_status'[d] = table_status[d] /\ archivos'[d] = archivos[d],
         comp'.fase \in {"recrea", "guarda"} => ~HayTmpc(t)'
  PROVE  RestosInv'
<1>1. \A d \in Tablas \ {t} : ~HayTmpc(d)' /\ ~table_status'[d]
  BY HayTmpcEs
<1>2. SinRestos'
  BY <1>1 DEF SinRestos, HayTmpc
<1>3. SinTmpc'
  BY DEF SinTmpc, HayTmpc
<1> QED
  BY <1>2, <1>3 DEF RestosInv

LEMMA RestosNext ==
  RestosInv /\ [Next]_vars /\ [SinRenombreFallido]_vars /\ vivo /\ vivo' => RestosInv'
<1> SUFFICES ASSUME RestosInv, [Next]_vars, [SinRenombreFallido]_vars, vivo, vivo'
             PROVE  RestosInv'
  OBVIOUS
<1>0. TInv /\ TInv'
  BY TNext DEF RestosInv
<1>1. CASE \/ UNCHANGED <<archivos, table_status, comp>>
  <2>1. \A t \in Tablas : table_status'[t] = table_status[t] /\ (HayTmpc(t)' => HayTmpc(t))
    BY <1>1, HayTmpcEs
  <2> QED
    BY <1>0, <1>1, <2>1, RestosConComp
<1>2. ~Morir
  BY DEF Morir
<1>3. ASSUME NEW c \in Clientes, Pedir(c)
      PROVE  RestosInv'
  BY <1>1, <1>2, <1>3 DEF Pedir, Rechaza, InsertMira, SelectMira, DescribeUna, DescribeTodas, DropMira,
                          CreateMira, InsertInvalido, DescribeInvalido, vars, disco
<1>4. ASSUME NEW c \in Clientes, Seguir(c)
      PROVE  RestosInv'
  <2>1. CASE DropBorra(c) \/ CreateParticiones(c)
    <3> DEFINE t == pedido[c].tabla
    <3>1. t \in Tablas
      BY <1>0, <2>1 DEF DropBorra, CreateParticiones, TInv, TiposClientes, PedidoTipo
    <3>2. comp' = comp /\ table_status' = table_status
      BY <2>1 DEF DropBorra, CreateParticiones
    <3>3. \A d \in Tablas : HayTmpc(d)' => HayTmpc(d)
      <4>1. CASE DropBorra(c)
        <5>1. \A d \in Tablas : archivos'[d] = archivos[d] \/ DOMAIN archivos'[d] = {}
          BY <1>0, <3>1, <4>1, CarpetaVacia DEF DropBorra, TInv, TiposArchivos
        <5> QED
          BY <5>1, HayTmpcEs
      <4>2. CASE CreateParticiones(c)
        <5>1. pedido[c].particiones \in Nat
          BY <1>0, <4>2, ParticionesAssumption DEF CreateParticiones, TInv, TiposClientes, PedidoTipo
        <5>2. DOMAIN ConParticiones(t, pedido[c].particiones) =
                 Bins(pedido[c].particiones) \cup DOMAIN archivos[t]
          BY <1>0, <3>1, <5>1, CarpetaParticiones DEF TInv, TiposArchivos
        <5>3. \A n \in Bins(pedido[c].particiones) : n[1] # "tmpc"
          BY DEF Bins
        <5>4. archivos' = [archivos EXCEPT ![t] = ConParticiones(t, pedido[c].particiones)]
          BY <4>2 DEF CreateParticiones
        <5> HIDE DEF t
        <5>5. \A d \in Tablas : \A n \in DOMAIN archivos'[d] : n[1] = "tmpc" => n \in DOMAIN archivos[d]
          BY <1>0, <3>1, <5>2, <5>3, <5>4 DEF TInv, TiposArchivos
        <5> QED
          BY <5>5, HayTmpcEs
      <4> QED
        BY <2>1, <4>1, <4>2
    <3> QED
      BY <1>0, <3>2, <3>3, RestosConComp
  <2>2. CASE CreateTermina(c)
    <3>1. \A d \in Tablas : (table_status'[d] => table_status[d]) /\ (HayTmpc(d)' => HayTmpc(d))
      BY <1>0, <2>2, HayTmpcEs DEF CreateTermina, TInv, TiposTablas
    <3> QED
      BY <1>0, <2>2, <3>1, RestosConComp DEF CreateTermina
  <2> QED
    BY <1>1, <1>2, <1>4, <2>1, <2>2
       DEF Seguir, InsertGuarda, SelectLee, SelectMuere, DescribeMira, DescribeAbre,
           DescribeMuere, DropMetadata, DropTermina, CreateDir, CreateSinEspacio,
           CreateSinDir, disco
<1>5. CASE Dump
  <2>1. ASSUME NEW t \in Tablas, DumpTabla(t)
        PROVE  RestosInv'
    <3> DEFINE n == NuevoTemporal(t)
    <3>1. n[1] = "tmp"
      BY <1>0, NuevoTemporalEs DEF TInv, TiposArchivos
    <3>2. \/ archivos' = archivos
          \/ \E l : archivos' = [archivos EXCEPT ![t] = ConUno(@, n, l)]
      BY <2>1 DEF DumpTabla, ConUno
    <3>3. \A l : DOMAIN ConUno(archivos[t], n, l) = DOMAIN archivos[t] \cup {n}
      BY DEF ConUno, ConArchivos
    <3> HIDE DEF n
    <3>4. \A d \in Tablas : \A m \in DOMAIN archivos'[d] : m[1] = "tmpc" => m \in DOMAIN archivos[d]
      BY <1>0, <3>1, <3>2, <3>3 DEF TInv, TiposArchivos
    <3>5. \A d \in Tablas : (table_status'[d] => table_status[d]) /\ (HayTmpc(d)' => HayTmpc(d))
      BY <2>1, <3>4, HayTmpcEs DEF DumpTabla
    <3> QED
      BY <1>0, <2>1, <3>5, RestosConComp DEF DumpTabla
  <2> QED
    BY <1>1, <1>2, <1>5, <2>1 DEF Dump, DumpEmpieza, DumpMuere, DumpTermina, disco
<1>6. CASE Compactar
  <2>0. ASSUME NEW f, Fase(f)
        PROVE  /\ comp.tabla \in Tablas /\ comp # Nada /\ comp.fase = f /\ comp \in Compactaciones
               /\ \A d \in Tablas \ {comp.tabla} : ~HayTmpc(d) /\ ~table_status[d]
    BY <1>0, <2>0, FaseEs DEF RestosInv, SinRestos, HayTmpc
  <2>1. ASSUME NEW t \in Tablas, CompRenombra(t)
        PROVE  RestosInv'
    <3>1. comp = Nada
      BY <1>0, <2>1, NadieAssumption DEF CompRenombra, TInv, Turno
    <3>2. \A d \in Tablas : ~HayTmpc(d) /\ ~table_status[d]
      BY <3>1 DEF RestosInv, SinRestos, HayTmpc
    <3>3. comp' # Nada /\ comp'.tabla = t /\ comp'.fase = "lee"
      <4>1. comp' \in Compactaciones
        BY <2>1 DEF CompRenombra, Compactaciones
      <4> QED
        BY <2>1, <4>1, NadaAssumption DEF CompRenombra
    <3>4. \A d \in Tablas \ {t} : table_status'[d] = table_status[d] /\ archivos'[d] = archivos[d]
      BY <1>0, <2>1 DEF CompRenombra, TInv, TiposArchivos
    <3> QED
      BY <1>0, <3>2, <3>3, <3>4, RestosSigue
  <2>2. CASE CompLee
    <3>1. Fase("lee")
      BY <2>2 DEF CompLee
    <3>2. comp' \in {Nada} \cup Compactaciones /\ comp'.tabla = comp.tabla /\ comp'.fase = "limpia"
      BY <1>0, <2>0, <2>2, <3>1 DEF CompLee, TInv, TiposTablas, Compactaciones
    <3>3. \E l : comp' = [comp EXCEPT !.fase = "limpia", !.filas = UltimasFilas(l)]
      BY <2>2 DEF CompLee
    <3>4. comp' # Nada
      <4>1. PICK l \in Leer(comp.tabla, De(comp.tabla, {"bin", "tmpc"})) :
                comp' = [comp EXCEPT !.fase = "limpia", !.filas = UltimasFilas(l)]
        BY <2>2 DEF CompLee
      <4>2. UltimasFilas(l) \in Seq(Filas)
        BY <1>0, <3>1, CompLeeFilas
      <4>3. comp' \in Compactaciones
        BY <2>0, <3>1, <4>1, <4>2 DEF Compactaciones
      <4> QED
        BY <4>3, NadaAssumption
    <3>5. UNCHANGED <<archivos, table_status>>
      BY <2>2 DEF CompLee, disco
    <3> QED
      BY <1>0, <2>0, <3>1, <3>2, <3>4, <3>5, RestosSigue
  <2>3. CASE CompLimpia
    <3>1. Fase("limpia")
      BY <2>3 DEF CompLimpia
    <3>2. comp' \in Compactaciones /\ comp'.tabla = comp.tabla
      BY <1>0, <2>0, <2>3, <3>1, ContarBins DEF CompLimpia, Compactaciones
    <3>3. archivos'[comp.tabla] = SinArchivos
      BY <1>0, <2>0, <2>3, <3>1 DEF CompLimpia, TInv, TiposArchivos
    <3>4. ~HayTmpc(comp.tabla)'
      BY <2>0, <3>1, <3>2, <3>3, HayTmpcEs, CarpetaVacia
    <3>5. \A d \in Tablas \ {comp.tabla} : table_status'[d] = table_status[d] /\ archivos'[d] = archivos[d]
      BY <1>0, <2>3 DEF CompLimpia, TInv, TiposArchivos, TiposTablas
    <3> QED
      BY <1>0, <2>0, <3>1, <3>2, <3>4, <3>5, RestosSigue, NadaAssumption
  <2>4. CASE CompRecrea
    <3>1. Fase("recrea")
      BY <2>4 DEF CompRecrea
    <3>2. comp' \in Compactaciones /\ comp'.tabla = comp.tabla /\ comp.particiones \in Nat
      BY <1>0, <2>0, <2>4, <3>1 DEF CompRecrea, Compactaciones
    <3>3. DOMAIN archivos'[comp.tabla] = Bins(comp.particiones) \cup DOMAIN archivos[comp.tabla]
      BY <1>0, <2>0, <2>4, <3>1, <3>2, CarpetaParticiones DEF CompRecrea, TInv, TiposArchivos
    <3>4. ~HayTmpc(comp.tabla)
      BY <2>0, <3>1 DEF RestosInv, SinTmpc, HayTmpc
    <3>5. \A n \in Bins(comp.particiones) : n[1] # "tmpc"
      BY DEF Bins
    <3>6. ~HayTmpc(comp.tabla)'
      BY <2>0, <3>1, <3>2, <3>3, <3>4, <3>5, HayTmpcEs
    <3>7. \A d \in Tablas \ {comp.tabla} : table_status'[d] = table_status[d] /\ archivos'[d] = archivos[d]
      BY <1>0, <2>4 DEF CompRecrea, TInv, TiposArchivos
    <3> QED
      BY <1>0, <2>0, <3>1, <3>2, <3>6, <3>7, RestosSigue, NadaAssumption
  <2>5. CASE CompGuarda
    <3> DEFINE t == comp.tabla
               f == Head(comp.filas)
               d == Destino(t, f.key)
    <3>1. Fase("guarda")
      BY <2>5 DEF CompGuarda
    <3>2. comp.filas \in Seq(Filas) /\ comp.filas # <<>> /\ t \in Tablas
      BY <1>0, <2>5, <3>1, FaseEs DEF CompGuarda
    <3>3. comp' \in Compactaciones /\ comp'.tabla = t
      <4>1. Tail(comp.filas) \in Seq(Filas)
        BY <3>2, HeadTailProperties, EmptySeq
      <4> QED
        BY <2>0, <2>5, <3>1, <4>1 DEF CompGuarda, Compactaciones
    <3>4. archivos' = archivos \/ archivos' = [archivos EXCEPT ![t][d] = Append(archivos[t][d], f)]
      BY <1>0, <2>5, <3>2 DEF CompGuarda, TInv, TiposArchivos
    <3> HIDE DEF d, f
    <3>5. DOMAIN archivos'[t] = DOMAIN archivos[t]
      BY <1>0, <3>2, <3>4 DEF TInv, TiposArchivos
    <3>6. \A e \in Tablas \ {t} : archivos'[e] = archivos[e]
      BY <1>0, <3>2, <3>4 DEF TInv, TiposArchivos
    <3>7. ~HayTmpc(t)'
      <4>1. ~HayTmpc(t)
        BY <2>0, <3>1 DEF RestosInv, SinTmpc, HayTmpc
      <4> QED
        BY <2>0, <3>1, <3>3, <3>5, <4>1, HayTmpcEs
    <3>8. table_status' = table_status
      BY <2>5 DEF CompGuarda
    <3> HIDE DEF t
    <3> QED
      BY <1>0, <2>0, <3>1, <3>2, <3>3, <3>6, <3>7, <3>8, RestosSigue, NadaAssumption DEF t
  <2>6. CASE CompTermina
    <3>1. Fase("guarda")
      BY <2>6 DEF CompTermina
    <3>2. ~HayTmpc(comp.tabla)
      BY <2>0, <3>1 DEF RestosInv, SinTmpc, HayTmpc
    <3>3. \A d \in Tablas : ~HayTmpc(d)' /\ ~table_status'[d]
      BY <1>0, <2>0, <2>6, <3>1, <3>2, HayTmpcEs DEF CompTermina, disco, TInv, TiposTablas
    <3>4. SinRestos'
      BY <3>3 DEF SinRestos, HayTmpc
    <3> QED
      BY <1>0, <2>6, <3>4 DEF CompTermina, RestosInv, SinTmpc
  <2>7. ASSUME NEW t \in Tablas, CompRenombraFalla(t)
        PROVE  RestosInv'
    <3>1. UNCHANGED vars
      BY <2>7 DEF SinRenombreFallido
    <3> QED
      BY <1>1, <3>1 DEF vars, disco
  <2> QED
    BY <1>1, <1>2, <1>6, <2>1, <2>2, <2>3, <2>4, <2>5, <2>6, <2>7
       DEF Compactar, CompSale, CompMuere, disco
<1>7. CASE Caida \/ Arrancar \/ UNCHANGED vars
  BY <1>1, <1>2, <1>7 DEF Caida, Arrancar, vars, disco
<1> QED
  BY <1>3, <1>4, <1>5, <1>6, <1>7 DEF Next

\* Until LFS stops, and while no rename fails, between two compactions there is
\* no .tmpc and no blocked table, whatever requests and dumps come in between
\* (compactate, drop_table).
THEOREM NoQuedanRestos ==
  Spec /\ []vivo /\ [][SinRenombreFallido]_vars => []SinRestos
<1>1. RestosInv => SinRestos
  BY DEF RestosInv
<1> QED
  BY <1>1, RestosInit, RestosNext, PTL DEF Spec

-----------------------------------------------------------------------------
(* What makes LFS stop.                                                    *)
(*                                                                         *)
(* If no request meets the CREATE or the DROP of its table, a table is     *)
(* either not in use (it does not exist, or its CREATE is not over) or     *)
(* whole: it has its directory, its Metadata and all its partitions, but   *)
(* for the steps in which a DROP or a compaction removed them and holds    *)
(* operation_mutex.  That is what every pointer the code does not check    *)
(* rests on.                                                               *)

\* Every file finds its blocks and can be renamed, nobody stops the process, no
\* table has 0 partitions, and LFS refuses none of the requests it may die of.
SinFallas ==
    MaxFallas = 0 /\ MaxCaidas = 0 /\ 0 \notin Particiones /\ "INVALIDO" \notin Pedidos

\* The tables the request of a client still has to do with.
Pide(c) ==
    {t \in Tablas :
        \/ est[c] \notin {"reposo", "describe", "nulo"} /\ t = pedido[c].tabla
        \/ est[c] \in {"describe", "abre"} /\ t \in pedido[c].tablas}

\* While a client makes or removes a table no other has a request of that table
\* under way, a DESCRIBE of all of them included.  One client alone never breaks it.
SinCruce ==
    \A c, d \in Clientes :
        c # d /\ est[c] \in {"borra", "remove", "rmdir", "crea", "particiona", "cierra"}
          => pedido[c].tabla \notin Pide(d)

Creando(t) == \E c \in Clientes : est[c] \in {"particiona", "cierra"} /\ pedido[c].tabla = t
Borrando(t) == \E c \in Clientes : est[c] = "remove" /\ pedido[c].tabla = t
Quitando(t) == \E c \in Clientes : est[c] = "rmdir" /\ pedido[c].tabla = t
Recreando(t) == comp # Nada /\ comp.tabla = t /\ comp.fase = "recrea"

SinUsar(t) ==
    metadata[t] = SinMetadata =>
        /\ memtable[t] = <<>>
        /\ \A n \in DOMAIN archivos[t] : n[1] = "bin" /\ archivos[t][n] = <<>>
        /\ t \in directorio => Creando(t) \/ Quitando(t)
        /\ t \notin directorio => archivos[t] = SinArchivos

\* A temporal has rows, a partition those of its keys.
FilasEnSuSitio(t) ==
    \A n \in DOMAIN archivos[t] :
        /\ n[1] # "bin" => archivos[t][n] # <<>>
        /\ n[1] = "bin" => \A f \in ToSet(archivos[t][n]) : n = Particion(t, f.key)

EnUso(t) ==
    metadata[t] # SinMetadata =>
        /\ t \in directorio
        /\ FilasEnSuSitio(t)
        /\ De(t, {"bin"}) = Bins(metadata[t]) \/ Borrando(t) \/ Recreando(t)

\* What a client's request knows of one of its tables.
Conoce(c, t) ==
    /\ est[c] = "crea" => t \notin directorio
    /\ est[c] \in {"particiona", "cierra"} => t \in directorio
    /\ est[c] \in {"particiona", "cierra", "rmdir"} => metadata[t] = SinMetadata
    /\ est[c] \in {"particiona", "remove", "rmdir"} => archivos[t] = SinArchivos
    /\ est[c] = "cierra" => abierta[c] /\ DOMAIN archivos[t] = Bins(pedido[c].particiones)
    /\ est[c] \in {"guarda", "lee", "describe", "abre", "borra", "remove"}
         => metadata[t] # SinMetadata
    /\ est[c] \in {"remove", "rmdir"} => memtable[t] = <<>>

Sabe(c) == est[c] # "nulo" /\ \A t \in Pide(c) : Conoce(c, t)

\* What the compaction knows of its table.
Compacta ==
    comp # Nada =>
        /\ metadata[comp.tabla] # SinMetadata
        /\ comp.fase = "lee" => De(comp.tabla, {"tmpc"}) # {}
        /\ comp.fase \in {"limpia", "recrea"} => comp.filas # <<>>
        /\ comp.fase = "recrea" => /\ archivos[comp.tabla] = SinArchivos
                                   /\ comp.particiones = metadata[comp.tabla]

Mesas == \A t \in Tablas : SinUsar(t) /\ EnUso(t)

VivoInv ==
    /\ TInv
    /\ vivo /\ fallas = 0 /\ caidas = 0
    /\ Mesas
    /\ \A c \in Clientes : Sabe(c)
    /\ Compacta

LEMMA VivoInit == SinFallas /\ Init => VivoInv
<1> SUFFICES ASSUME SinFallas, Init PROVE VivoInv
  OBVIOUS
<1>1. TInv
  BY TInit
<1>2. ASSUME NEW t \in Tablas PROVE SinUsar(t) /\ EnUso(t)
  <2>1. archivos[t] = [p \in Bins(metadata[t]) |-> <<>>] /\ memtable[t] = <<>>
    BY DEF Init, Bins
  <2>2. metadata[t] = SinMetadata <=> t \notin directorio
    BY DEF Init
  <2>3. SinUsar(t)
    <3> SUFFICES ASSUME metadata[t] = SinMetadata PROVE archivos[t] = SinArchivos
      BY <2>1, <2>2 DEF SinUsar, Bins
    <3>1. Bins(metadata[t]) = {}
      BY DEF Bins, SinMetadata
    <3> QED
      BY <2>1, <3>1 DEF SinArchivos
  <2>4. FilasEnSuSitio(t)
    <3>1. \A n \in DOMAIN archivos[t] : n[1] = "bin" /\ archivos[t][n] = <<>>
      BY <2>1 DEF Bins
    <3> QED
      BY <3>1 DEF FilasEnSuSitio, ToSet
  <2>5. De(t, {"bin"}) = Bins(metadata[t])
    BY <2>1 DEF De, Bins
  <2> QED
    BY <2>2, <2>3, <2>4, <2>5 DEF EnUso
<1>3. \A c \in Clientes : Sabe(c)
  BY DEF Init, Sabe, Pide
<1> QED
  BY <1>1, <1>2, <1>3 DEF Init, VivoInv, Mesas, Compacta

\* The other clients stay where they are: what they make or remove goes on.
LosDemas(c) ==
    \A d \in Clientes \ {c} :
        est'[d] = est[d] /\ pedido'[d] = pedido[d]

\* A client that makes or removes no table, or another one.
LEMMA Siguen ==
  ASSUME NEW c \in Clientes, LosDemas(c), NEW u,
         est[c] \notin {"particiona", "cierra", "remove", "rmdir"} \/ pedido[c].tabla # u
  PROVE  /\ Creando(u) => Creando(u)'
         /\ Borrando(u) => Borrando(u)'
         /\ Quitando(u) => Quitando(u)'
<1>1. ASSUME NEW d \in Clientes, est[d] \in {"particiona", "cierra", "remove", "rmdir"},
             pedido[d].tabla = u
      PROVE  est'[d] = est[d] /\ pedido'[d].tabla = u
  <2>1. d # c
    BY <1>1
  <2> QED
    BY <1>1, <2>1 DEF LosDemas
<1> QED
  BY <1>1 DEF Creando, Borrando, Quitando

\* Nothing of the table changed.
Igual(t) ==
    /\ metadata'[t] = metadata[t] /\ memtable'[t] = memtable[t] /\ archivos'[t] = archivos[t]
    /\ t \in directorio' <=> t \in directorio

LEMMA DeIgual ==
  ASSUME NEW t, NEW E, archivos'[t] = archivos[t]
  PROVE  De(t, E)' = De(t, E)
  BY DEF De

LEMMA MesaIgual ==
  ASSUME NEW t, Igual(t), SinUsar(t), EnUso(t),
         Creando(t) => Creando(t)' \/ metadata[t] # SinMetadata,
         Quitando(t) => Quitando(t)' \/ metadata[t] # SinMetadata,
         Borrando(t) \/ Recreando(t) => Borrando(t)' \/ Recreando(t)'
  PROVE  (SinUsar(t) /\ EnUso(t))'
<1>1. De(t, {"bin"})' = De(t, {"bin"})
  BY DeIgual DEF Igual
<1>2. SinUsar(t)'
  BY DEF SinUsar, Igual
<1>3. FilasEnSuSitio(t) => FilasEnSuSitio(t)'
  BY DEF FilasEnSuSitio, Igual, Particion
<1>4. EnUso(t)'
  BY <1>1, <1>3 DEF EnUso, Igual
<1> QED
  BY <1>2, <1>4

\* The request of d stays where it is, and so do its tables, or as much of them as
\* it knows.
LEMMA SabeIgual ==
  ASSUME NEW d, Sabe(d), est'[d] = est[d], pedido'[d] = pedido[d],
         est[d] = "cierra" => abierta'[d] = abierta[d],
         \A u \in Pide(d) : \/ Igual(u)
                            \/ /\ est[d] \in {"guarda", "lee", "describe", "abre"}
                               /\ metadata'[u] = metadata[u]
  PROVE  Sabe(d)'
<1>1. Pide(d)' = Pide(d)
  BY DEF Pide
<1>2. ASSUME NEW u \in Pide(d) PROVE Conoce(d, u)'
  <2>1. Conoce(d, u)
    BY DEF Sabe
  <2>2. CASE Igual(u)
    BY <2>1, <2>2 DEF Conoce, Igual
  <2>3. CASE est[d] \in {"guarda", "lee", "describe", "abre"} /\ metadata'[u] = metadata[u]
    BY <2>1, <2>3 DEF Conoce
  <2> QED
    BY <2>2, <2>3
<1> QED
  BY <1>1, <1>2 DEF Sabe

\* A client goes on with a request that makes or removes no table yet, and
\* changes nothing.
LEMMA VivoSolo ==
  ASSUME VivoInv, TInv', NEW c \in Clientes, LosDemas(c), Sabe(c)',
         est[c] \notin {"particiona", "cierra", "remove", "rmdir"},
         UNCHANGED <<directorio, metadata, archivos, memtable, abierta, comp, vivo, fallas,
                     caidas>>
  PROVE  VivoInv'
<1>1. \A u : Igual(u)
  BY DEF Igual
<1>2. ASSUME NEW d \in Clientes PROVE Sabe(d)'
  <2>1. CASE d = c
    BY <2>1
  <2>2. CASE d # c
    BY <1>1, <2>2, SabeIgual DEF VivoInv, LosDemas
  <2> QED
    BY <2>1, <2>2
<1>3. ASSUME NEW t \in Tablas PROVE (SinUsar(t) /\ EnUso(t))'
  <2>1. Recreando(t) => Recreando(t)'
    BY DEF Recreando
  <2>2. SinUsar(t) /\ EnUso(t)
    BY DEF VivoInv, Mesas
  <2> QED
    BY <1>1, <2>1, <2>2, Siguen, MesaIgual
<1>4. Compacta'
  BY DEF VivoInv, Compacta, De
<1> QED
  BY <1>2, <1>3, <1>4 DEF VivoInv, Mesas

\* A step that changes nothing the invariant is about.
LEMMA VivoIgual ==
  ASSUME VivoInv, TInv',
         UNCHANGED <<disco, memtable, est, pedido, abierta, comp, vivo, fallas, caidas>>
  PROVE  VivoInv'
<1>1. \A u : Igual(u)
  BY DEF Igual, disco
<1>2. ASSUME NEW d \in Clientes PROVE Sabe(d)'
  BY <1>1, SabeIgual DEF VivoInv
<1>3. ASSUME NEW t \in Tablas PROVE (SinUsar(t) /\ EnUso(t))'
  <2>1. /\ Recreando(t) => Recreando(t)'
        /\ Creando(t) => Creando(t)'
        /\ Borrando(t) => Borrando(t)'
        /\ Quitando(t) => Quitando(t)'
    BY DEF Recreando, Creando, Borrando, Quitando
  <2>2. SinUsar(t) /\ EnUso(t)
    BY DEF VivoInv, Mesas
  <2> QED
    BY <1>1, <2>1, <2>2, MesaIgual
<1>4. Compacta'
  BY DEF VivoInv, Compacta, De, disco
<1> QED
  BY <1>2, <1>3, <1>4 DEF VivoInv, Mesas

\* A client that is not in the middle of a request makes one, or is refused.
LEMMA VivoPedir ==
  ASSUME SinFallas, SinCruce', VivoInv, TInv', NEW c \in Clientes, Pedir(c)
  PROVE  VivoInv'
<1>1. DOMAIN est = Clientes /\ DOMAIN pedido = Clientes /\ directorio \subseteq Tablas
  BY DEF VivoInv, TInv, TiposClientes, TiposTablas
\* A table that exists and is asked for is whole.
<1>2. ASSUME LosDemas(c), est[c] = "reposo", NEW u \in Pide(c)', u \in directorio
      PROVE  metadata[u] # SinMetadata
  <2> SUFFICES ASSUME metadata[u] = SinMetadata PROVE FALSE
    OBVIOUS
  <2>1. u \in Tablas
    BY <1>1, <1>2
  <2>2. Creando(u) \/ Quitando(u)
    BY <1>2, <2>1 DEF VivoInv, Mesas, SinUsar
  <2>3. PICK d \in Clientes : est[d] \in {"particiona", "cierra", "rmdir"} /\ pedido[d].tabla = u
    BY <2>2 DEF Creando, Quitando
  <2>4. d # c /\ est'[d] = est[d] /\ pedido'[d] = pedido[d]
    BY <1>2, <2>3 DEF LosDemas
  <2> QED
    BY <1>2, <2>3, <2>4 DEF SinCruce
\* Its requests, but CREATE, are of tables that exist.
<1>3. ASSUME est[c] = "reposo", NEW e, NEW p, Espera(c, e, p),
             e \in {"reposo", "guarda", "lee", "describe", "abre", "borra"},
             Pide(c)' \subseteq directorio,
             UNCHANGED <<directorio, metadata, archivos, memtable, abierta, comp, vivo, fallas,
                         caidas>>
      PROVE  VivoInv'
  <2>1. est'[c] = e /\ LosDemas(c)
    BY <1>1, <1>3 DEF LosDemas
  <2>2. ASSUME NEW u \in Pide(c)' PROVE Conoce(c, u)'
    <3>1. metadata[u] # SinMetadata
      BY <1>2, <1>3, <2>1
    <3> QED
      BY <1>3, <2>1, <3>1 DEF Conoce
  <2>3. Sabe(c)'
    BY <1>3, <2>1, <2>2 DEF Sabe
  <2> QED
    BY <1>3, <2>1, <2>3, VivoSolo
<1>4. CASE Rechaza(c)
  BY <1>4, VivoIgual DEF Rechaza, vars, clientes, cotas
<1>5. ASSUME NEW t \in Tablas, NEW f \in Filas, InsertMira(c, t, f)
      PROVE  VivoInv'
  <2>1. Espera(c, "guarda", [tabla |-> t, fila |-> f]) /\ t \in directorio /\ est[c] = "reposo"
        /\ UNCHANGED <<directorio, metadata, archivos, memtable, abierta, comp, vivo, fallas,
                       caidas>>
    BY <1>5 DEF InsertMira, Ocioso, disco
  <2>2. Pide(c)' \subseteq directorio
    BY <1>1, <2>1 DEF Pide
  <2> HIDE DEF Espera
  <2> QED
    BY <1>3, <2>1, <2>2
<1>6. ASSUME NEW t \in Tablas, NEW k \in Claves, SelectMira(c, t, k)
      PROVE  VivoInv'
  <2>1. Espera(c, "lee", [tabla |-> t, key |-> k]) /\ t \in directorio /\ est[c] = "reposo"
        /\ UNCHANGED <<directorio, metadata, archivos, memtable, abierta, comp, vivo, fallas,
                       caidas>>
    BY <1>6 DEF SelectMira, Ocioso, disco, cotas
  <2>2. Pide(c)' \subseteq directorio
    BY <1>1, <2>1 DEF Pide
  <2> HIDE DEF Espera
  <2> QED
    BY <1>3, <2>1, <2>2
<1>7. ASSUME NEW t \in Tablas, DropMira(c, t)
      PROVE  VivoInv'
  <2>1. Espera(c, "borra", [tabla |-> t]) /\ t \in directorio /\ est[c] = "reposo"
        /\ UNCHANGED <<directorio, metadata, archivos, memtable, abierta, comp, vivo, fallas,
                       caidas>>
    BY <1>7 DEF DropMira, Ocioso, disco, cotas
  <2>2. Pide(c)' \subseteq directorio
    BY <1>1, <2>1 DEF Pide
  <2> HIDE DEF Espera
  <2> QED
    BY <1>3, <2>1, <2>2
<1>8. ASSUME NEW t \in Tablas, DescribeUna(c, t)
      PROVE  VivoInv'
  <2>1. Espera(c, "abre", [tabla |-> t, tablas |-> {}]) /\ t \in directorio /\ est[c] = "reposo"
        /\ UNCHANGED <<directorio, metadata, archivos, memtable, abierta, comp, vivo, fallas,
                       caidas>>
    BY <1>8 DEF DescribeUna, Ocioso, disco, cotas
  <2>2. Pide(c)' \subseteq directorio
    BY <1>1, <2>1 DEF Pide
  <2> HIDE DEF Espera
  <2> QED
    BY <1>3, <2>1, <2>2
<1>9. CASE DescribeTodas(c)
  <2>1. Sigue(c, directorio) /\ est[c] = "reposo"
        /\ UNCHANGED <<directorio, metadata, archivos, memtable, abierta, comp, vivo, fallas,
                       caidas>>
    BY <1>9 DEF DescribeTodas, Ocioso, disco, cotas
  <2>2. CASE Espera(c, "reposo", Nada)
    <3>1. Pide(c)' \subseteq directorio
      BY <1>1, <2>2 DEF Pide
    <3> HIDE DEF Espera
    <3> QED
      BY <1>3, <2>1, <2>2, <3>1
  <2>3. CASE Espera(c, "describe", [tablas |-> directorio])
    <3>1. Pide(c)' \subseteq directorio
      BY <1>1, <2>3 DEF Pide
    <3> HIDE DEF Espera
    <3> QED
      BY <1>3, <2>1, <2>3, <3>1
  <2>4. Espera(c, "reposo", Nada) \/ Espera(c, "describe", [tablas |-> directorio])
    BY <2>1
  <2> HIDE DEF Espera
  <2> QED
    BY <2>2, <2>3, <2>4
<1>10. ASSUME NEW t \in Tablas, NEW n \in Particiones, CreateMira(c, t, n)
       PROVE  VivoInv'
  <2>1. t \notin directorio /\ est[c] = "reposo" /\ est'[c] = "crea" /\ pedido'[c].tabla = t
        /\ LosDemas(c)
        /\ UNCHANGED <<directorio, metadata, archivos, memtable, abierta, comp, vivo, fallas,
                       caidas>>
    BY <1>1, <1>10 DEF CreateMira, Ocioso, disco, LosDemas
  <2>2. Sabe(c)'
    BY <2>1 DEF Sabe, Pide, Conoce
  <2> QED
    BY <2>1, <2>2, VivoSolo
<1> QED
  BY <1>4, <1>5, <1>6, <1>7, <1>8, <1>9, <1>10 DEF Pedir, SinFallas

LEMMA RestoSon ==
  ASSUME NEW k \in Nat, NEW n \in Nat, n > 0
  PROVE  k % n \in 0 .. n - 1
  OBVIOUS

\* The partition of a key of a table that is whole is there.
LEMMA SeHalla ==
  ASSUME SinFallas, TInv, NEW t \in Tablas, metadata[t] # SinMetadata,
         De(t, {"bin"}) = Bins(metadata[t]), NEW k \in Claves
  PROVE  Hallada(t, k) /\ Particion(t, k) \in De(t, {"bin"})
<1>1. metadata[t] \in Nat /\ metadata[t] # 0
  BY ParticionesAssumption DEF SinFallas, TInv, TiposTablas
<1>2. k \in Nat
  BY ClavesAssumption
<1>3. k % metadata[t] \in 0 .. metadata[t] - 1
  BY <1>1, <1>2, RestoSon
<1>4. Particion(t, k) \in De(t, {"bin"})
  BY <1>3 DEF Particion, Bins
<1> QED
  BY <1>1, <1>4 DEF Hallada, De

\* A SELECT that reads finds its partition and no temporal without rows.
LEMMA SeLee ==
  ASSUME SinFallas, VivoInv, NEW c \in Clientes, est[c] = "lee", operation_mutex = Nada
  PROVE  /\ pedido[c].tabla \in Tablas /\ pedido[c].key \in Claves /\ comp = Nada
         /\ metadata[pedido[c].tabla] # SinMetadata
         /\ De(pedido[c].tabla, {"bin"}) = Bins(metadata[pedido[c].tabla])
         /\ Legible(pedido[c].tabla, pedido[c].key)
<1> DEFINE t == pedido[c].tabla
<1>1. TInv /\ PedidoTipo(est[c], pedido[c]) /\ Sabe(c)
  BY DEF VivoInv, TInv, TiposClientes
<1>2. t \in Tablas /\ pedido[c].key \in Claves /\ metadata[t] # SinMetadata
  BY <1>1 DEF PedidoTipo, Sabe, Pide, Conoce
<1>3. comp = Nada
  BY <1>1, NadieAssumption DEF TInv, Turno
<1>4. ~Borrando(t) /\ ~Recreando(t)
  BY <1>1, <1>3, NadieAssumption DEF Borrando, Recreando, TInv, Turno
<1>5. EnUso(t)
  BY <1>2 DEF VivoInv, Mesas
<1>6. De(t, {"bin"}) = Bins(metadata[t])
  BY <1>2, <1>4, <1>5 DEF EnUso
<1>7. Hallada(t, pedido[c].key)
  BY <1>1, <1>2, <1>6, SeHalla
<1>8. \A n \in Temporales(t) : archivos[t][n] # <<>>
  BY <1>2, <1>5 DEF EnUso, FilasEnSuSitio, Temporales, De
<1> QED
  BY <1>2, <1>3, <1>6, <1>7, <1>8 DEF Legible

\* The table of a request other than a DESCRIBE of all of them, and what is known of it.
LEMMA LoQueSabe ==
  ASSUME VivoInv, NEW c \in Clientes, est[c] \notin {"reposo", "describe", "nulo"}
  PROVE  \E t \in Pide(c) : t = pedido[c].tabla /\ t \in Tablas /\ Conoce(c, t)
<1>1. TiposClientes /\ Sabe(c)
  BY DEF VivoInv, TInv
<1>2. pedido[c].tabla \in Tablas
  BY <1>1 DEF TiposClientes, PedidoTipo, Estados
<1>3. pedido[c].tabla \in Pide(c)
  BY <1>2 DEF Pide
<1> QED
  BY <1>1, <1>2, <1>3 DEF Sabe

LEMMA VivoSeguir ==
  ASSUME SinFallas, SinCruce, VivoInv, TInv', NEW c \in Clientes, Seguir(c)
  PROVE  VivoInv'
<1>1. DOMAIN est = Clientes /\ DOMAIN pedido = Clientes /\ Sabe(c) /\ TInv /\ vivo
      /\ PedidoTipo(est[c], pedido[c]) /\ est[c] \in Estados
  BY DEF VivoInv, TInv, TiposClientes
\* No step but one that stops LFS moves another client.
<1>2. vivo' => LosDemas(c)
  BY <1>1 DEF Seguir, InsertGuarda, SelectLee, SelectMuere, DescribeMira, DescribeAbre,
              DescribeMuere, DropBorra, DropMetadata, DropTermina, CreateDir, CreateParticiones,
              CreateSinEspacio, CreateSinDir, CreateTermina, Morir, LosDemas
\* A client that makes or removes a table has it for itself.
<1>3. ASSUME NEW d \in Clientes, d # c, NEW u \in Pide(c), u \in Pide(d),
             est[c] \notin {"describe", "abre"}
      PROVE  /\ est[d] \in {"guarda", "lee", "describe", "abre"}
             /\ est[c] \in {"guarda", "lee"}
  <2>1. Sabe(d) /\ est[d] \in Estados
    BY <1>1 DEF VivoInv, TInv, TiposClientes
  <2>2. u = pedido[c].tabla /\ est[c] \notin {"reposo", "nulo"} /\ est[d] # "reposo"
    BY <1>3 DEF Pide
  <2>3. est[c] \notin {"borra", "remove", "rmdir", "crea", "particiona", "cierra"}
    BY <1>3, <2>2 DEF SinCruce
  <2>4. est[d] \notin {"borra", "remove", "rmdir", "crea", "particiona", "cierra"}
    <3> SUFFICES ASSUME est[d] \in {"borra", "remove", "rmdir", "crea", "particiona", "cierra"}
                 PROVE  FALSE
      OBVIOUS
    <3>1. u = pedido[d].tabla
      BY <1>3 DEF Pide
    <3> QED
      BY <1>3, <3>1 DEF SinCruce
  <2> QED
    BY <1>1, <2>1, <2>2, <2>3, <2>4, <1>3 DEF Estados, Sabe
<1>4. operation_mutex \in {Nada, c} => comp = Nada
  BY <1>1, NadieAssumption DEF TInv, Turno
\* What is left to see of a step that changes only the table of the request.
<1>5. ASSUME UNCHANGED <<comp, vivo, fallas, caidas>>,
             NEW t \in Pide(c), t = pedido[c].tabla, est[c] \notin {"describe", "abre"},
             Sabe(c)', Compacta',
             \A d \in Tablas \ {t} : Igual(d),
             (SinUsar(t) /\ EnUso(t))',
             est[c] = "guarda" => metadata' = metadata, est[c] # "lee",
             \A d \in Clientes \ {c} : est[d] = "cierra" /\ pedido[d].tabla # t
                                         => abierta'[d] = abierta[d]
      PROVE  VivoInv'
  <2>0. LosDemas(c) /\ t \in Tablas
    BY <1>1, <1>2, <1>5 DEF Pide
  <2>1. \A d \in Clientes : Sabe(d)'
    <3> SUFFICES ASSUME NEW d \in Clientes, d # c PROVE Sabe(d)'
      BY <1>5
    <3>1. est'[d] = est[d] /\ pedido'[d] = pedido[d] /\ Sabe(d)
      BY <2>0 DEF LosDemas, VivoInv
    <3>2. Pide(d) \subseteq Tablas
      BY DEF Pide
    <3>3. CASE t \in Pide(d)
      <4>1. est[d] \in {"guarda", "lee", "describe", "abre"} /\ metadata' = metadata
        BY <1>3, <1>5, <3>3
      <4> QED
        BY <3>1, <4>1, SabeIgual
    <3>4. CASE t \notin Pide(d)
      <4>1. \A u \in Pide(d) : Igual(u)
        BY <1>5, <3>2, <3>4
      <4>2. est[d] = "cierra" => abierta'[d] = abierta[d]
        BY <1>5, <2>0, <3>4 DEF Pide
      <4> QED
        BY <3>1, <4>1, <4>2, SabeIgual
    <3> QED
      BY <3>3, <3>4
  <2>2. \A d \in Tablas \ {t} : (SinUsar(d) /\ EnUso(d))'
    <3> TAKE d \in Tablas \ {t}
    <3>1. (Creando(d) => Creando(d)') /\ (Borrando(d) => Borrando(d)') /\ (Quitando(d) => Quitando(d)')
      BY <1>5, <2>0, Siguen
    <3>2. Recreando(d) => Recreando(d)'
      BY <1>5 DEF Recreando
    <3>3. SinUsar(d) /\ EnUso(d)
      BY DEF VivoInv, Mesas
    <3> QED
      BY <1>5, <3>1, <3>2, <3>3, MesaIgual
  <2> QED
    BY <1>5, <2>1, <2>2 DEF VivoInv, Mesas
<1>6. ASSUME est[c] \notin {"reposo", "describe", "nulo"}
      PROVE  \E t \in Pide(c) : t = pedido[c].tabla /\ t \in Tablas /\ Conoce(c, t)
  BY <1>6, LoQueSabe
<1>7. ASSUME est[c] \in {"guarda", "borra", "remove", "rmdir", "crea", "particiona", "cierra"},
             NEW t \in Tablas, t = pedido[c].tabla
      PROVE  /\ Creando(t) => est[c] \in {"particiona", "cierra"}
             /\ Quitando(t) => est[c] = "rmdir"
             /\ Borrando(t) => est[c] = "remove"
  <2>1. ASSUME NEW d \in Clientes, est[d] \in {"particiona", "cierra", "remove", "rmdir"},
               pedido[d].tabla = t
        PROVE  d = c
    <3>1. t \in Pide(c) /\ t \in Pide(d)
      BY <1>7, <2>1 DEF Pide
    <3> QED
      BY <1>3, <1>7, <2>1, <3>1
  <2> QED
    BY <2>1 DEF Creando, Borrando, Quitando
<1>8. ASSUME NEW d, comp # Nada, metadata[d] = SinMetadata PROVE comp.tabla # d
  BY <1>8 DEF VivoInv, Compacta
<1>9. ASSUME comp # Nada PROVE comp.tabla \in Tablas
  BY <1>1, <1>9 DEF TInv, TiposTablas, Compactaciones
<1>10. CASE InsertGuarda(c)
  <2>1. est[c] = "guarda" /\ operation_mutex = Nada
    BY <1>10 DEF InsertGuarda
  <2>2. PICK t \in Pide(c) : t = pedido[c].tabla /\ t \in Tablas /\ metadata[t] # SinMetadata
    BY <1>6, <2>1 DEF Conoce
  <2>3. comp = Nada
    BY <1>4, <2>1
  <2>4. est'[c] = "reposo" /\ UNCHANGED <<directorio, metadata, archivos, abierta, comp, vivo, fallas, caidas>>
    BY <1>1, <1>10 DEF InsertGuarda, disco, cotas
  <2>5. \A d \in Tablas \ {t} : Igual(d)
    BY <1>1, <1>10, <2>2, <2>4 DEF InsertGuarda, Igual, TInv, TiposTablas
  <2>6. Sabe(c)' /\ Compacta'
    BY <2>3, <2>4 DEF Sabe, Pide, Compacta
  <2>7. (SinUsar(t) /\ EnUso(t))'
    <3>1. EnUso(t) /\ ~Borrando(t) /\ ~Recreando(t)
      BY <1>7, <2>1, <2>2, <2>3 DEF VivoInv, Mesas, Recreando
    <3>2. De(t, {"bin"})' = De(t, {"bin"}) /\ (FilasEnSuSitio(t) => FilasEnSuSitio(t)')
      BY <2>4 DEF De, FilasEnSuSitio, Particion
    <3> QED
      BY <2>2, <2>4, <3>1, <3>2 DEF EnUso, SinUsar
  <2> QED
    BY <1>5, <2>1, <2>2, <2>4, <2>5, <2>6, <2>7
<1>11. CASE SelectLee(c)
  <2>1. est[c] = "lee" /\ est'[c] = "reposo"
        /\ UNCHANGED <<directorio, metadata, archivos, memtable, abierta, comp, vivo, fallas,
                       caidas>>
    BY <1>1, <1>11 DEF SelectLee, disco, cotas
  <2>2. Sabe(c)'
    BY <2>1 DEF Sabe, Pide
  <2> QED
    BY <1>1, <1>2, <2>1, <2>2, VivoSolo
<1>12. CASE SelectMuere(c)
  BY <1>12, SeLee DEF SelectMuere
<1>13. CASE DescribeMira(c)
  <2>1. est[c] = "describe"
        /\ UNCHANGED <<directorio, metadata, archivos, memtable, abierta, comp, vivo, fallas,
                       caidas>>
    BY <1>13 DEF DescribeMira, disco, cotas
  <2>2. PICK t \in pedido[c].tablas :
           IF t \in directorio
           THEN Espera(c, "abre", [tabla |-> t, tablas |-> pedido[c].tablas \ {t}])
           ELSE Espera(c, "nulo", Nada)
    BY <1>13 DEF DescribeMira
  <2>3. Pide(c) = pedido[c].tablas
    BY <1>1, <2>1 DEF Pide, PedidoTipo
  <2>4. t \in Tablas /\ \A u \in Pide(c) : metadata[u] # SinMetadata
    BY <1>1, <2>1, <2>2, <2>3 DEF Sabe, Conoce, PedidoTipo
  <2>5. t \in directorio
    BY <2>2, <2>3, <2>4 DEF VivoInv, Mesas, EnUso
  <2>6. est'[c] = "abre" /\ pedido'[c].tabla = t /\ pedido'[c].tablas = pedido[c].tablas \ {t}
    BY <1>1, <2>2, <2>5
  <2>7. Pide(c)' \subseteq Pide(c)
    BY <2>2, <2>3, <2>6 DEF Pide
  <2>8. Sabe(c)'
    BY <2>1, <2>4, <2>6, <2>7 DEF Sabe, Conoce
  <2> QED
    BY <1>1, <1>2, <2>1, <2>8, VivoSolo
<1>14. CASE DescribeAbre(c)
  <2>1. est[c] = "abre" /\ Sigue(c, pedido[c].tablas)
        /\ UNCHANGED <<directorio, metadata, archivos, memtable, abierta, comp, vivo, fallas,
                       caidas>>
    BY <1>14 DEF DescribeAbre, disco, cotas
  <2>2. \/ est'[c] = "reposo"
        \/ est'[c] = "describe" /\ pedido'[c].tablas = pedido[c].tablas
    BY <1>1, <2>1
  <2>3. Pide(c)' \subseteq Pide(c)
    BY <2>1, <2>2 DEF Pide
  <2>4. \A u \in Pide(c) : metadata[u] # SinMetadata
    BY <1>1, <2>1 DEF Sabe, Conoce
  <2>5. Sabe(c)'
    BY <2>1, <2>2, <2>3, <2>4 DEF Sabe, Conoce
  <2> QED
    BY <1>1, <1>2, <2>1, <2>5, VivoSolo
<1>15. CASE DescribeMuere(c)
  <2>1. est[c] = "abre" /\ metadata[pedido[c].tabla] = SinMetadata
    BY <1>1, <1>15 DEF DescribeMuere, Sabe
  <2> QED
    BY <1>6, <2>1 DEF Conoce
<1>16. CASE DropBorra(c)
  <2>1. est[c] = "borra" /\ operation_mutex = Nada
    BY <1>16 DEF DropBorra
  <2>2. PICK t \in Pide(c) : t = pedido[c].tabla /\ t \in Tablas /\ metadata[t] # SinMetadata
    BY <1>6, <2>1 DEF Conoce
  <2>3. comp = Nada
    BY <1>4, <2>1
  <2>4. est'[c] = "remove"
        /\ UNCHANGED <<directorio, metadata, pedido, abierta, comp, vivo, fallas, caidas>>
    BY <1>1, <1>16 DEF DropBorra, cotas
  <2>5. archivos'[t] = SinArchivos /\ memtable'[t] = <<>> /\ \A d \in Tablas \ {t} : Igual(d)
    BY <1>1, <1>16, <2>2 DEF DropBorra, Igual, TInv, TiposTablas, TiposArchivos
  <2>6. Sabe(c)' /\ Compacta'
    BY <2>2, <2>3, <2>4, <2>5 DEF Sabe, Pide, Conoce, Compacta
  <2>7. (SinUsar(t) /\ EnUso(t))'
    <3>1. EnUso(t) /\ Borrando(t)'
      BY <2>2, <2>4 DEF VivoInv, Mesas, Borrando
    <3>2. FilasEnSuSitio(t)'
      BY <2>5, CarpetaVacia DEF FilasEnSuSitio
    <3> QED
      BY <2>2, <2>4, <3>1, <3>2 DEF EnUso, SinUsar
  <2> QED
    BY <1>5, <2>1, <2>2, <2>4, <2>5, <2>6, <2>7
<1>17. CASE DropMetadata(c)
  <2>1. est[c] = "remove"
    BY <1>17 DEF DropMetadata
  <2>2. PICK t \in Pide(c) : /\ t = pedido[c].tabla /\ t \in Tablas
                             /\ archivos[t] = SinArchivos /\ memtable[t] = <<>>
    BY <1>6, <2>1 DEF Conoce
  <2>3. comp = Nada
    BY <1>1, <1>4, <2>1 DEF TInv, Turno
  <2>4. est'[c] = "rmdir"
        /\ UNCHANGED <<directorio, archivos, memtable, pedido, comp, vivo, fallas, caidas>>
    BY <1>1, <1>17 DEF DropMetadata, cotas
  <2>5. metadata'[t] = SinMetadata /\ \A d \in Tablas \ {t} : Igual(d)
    BY <1>1, <1>17, <2>2, <2>4 DEF DropMetadata, Igual, TInv, TiposTablas
  <2>6. Sabe(c)' /\ Compacta'
    BY <2>2, <2>3, <2>4, <2>5 DEF Sabe, Pide, Conoce, Compacta
  <2>7. (SinUsar(t) /\ EnUso(t))'
    <3>1. Quitando(t)'
      BY <2>2, <2>4 DEF Quitando
    <3> QED
      BY <2>2, <2>4, <2>5, <3>1, CarpetaVacia DEF SinUsar, EnUso
  <2>8. \A d \in Clientes \ {c} : est[d] = "cierra" /\ pedido[d].tabla # t
                                    => abierta'[d] = abierta[d]
    BY <1>1, <1>17, <2>2 DEF DropMetadata, TInv, TiposClientes
  <2> QED
    BY <1>5, <2>1, <2>2, <2>4, <2>5, <2>6, <2>7, <2>8
<1>18. CASE DropTermina(c)
  <2>1. est[c] = "rmdir"
    BY <1>18 DEF DropTermina
  <2>2. PICK t \in Pide(c) : /\ t = pedido[c].tabla /\ t \in Tablas
                             /\ archivos[t] = SinArchivos /\ memtable[t] = <<>>
                             /\ metadata[t] = SinMetadata
    BY <1>6, <2>1 DEF Conoce
  <2>3. comp = Nada
    BY <1>1, <1>4, <2>1 DEF TInv, Turno
  <2>4. ~SigueAbierta(t)
    <3>1. ~Creando(t)
      BY <1>7, <2>1, <2>2
    <3> QED
      BY <3>1 DEF Creando, SigueAbierta
  <2>5. directorio' = directorio \ {t} /\ est'[c] = "reposo"
        /\ UNCHANGED <<metadata, archivos, memtable, abierta, comp, vivo, fallas, caidas>>
    BY <1>1, <1>18, <2>2, <2>4 DEF DropTermina, cotas
  <2>6. \A d \in Tablas \ {t} : Igual(d)
    BY <2>5 DEF Igual
  <2>7. Sabe(c)' /\ Compacta'
    BY <2>3, <2>5 DEF Sabe, Pide, Compacta
  <2>8. (SinUsar(t) /\ EnUso(t))'
    BY <2>2, <2>5, CarpetaVacia DEF SinUsar, EnUso
  <2> QED
    BY <1>5, <2>1, <2>2, <2>5, <2>6, <2>7, <2>8
<1>19. CASE CreateDir(c)
  <2>1. est[c] = "crea"
    BY <1>19 DEF CreateDir
  <2>2. PICK t \in Pide(c) : t = pedido[c].tabla /\ t \in Tablas /\ t \notin directorio
    BY <1>6, <2>1 DEF Conoce
  <2>3. metadata[t] = SinMetadata /\ archivos[t] = SinArchivos /\ memtable[t] = <<>>
    BY <2>2 DEF VivoInv, Mesas, SinUsar, EnUso
  <2>4. est'[c] = "particiona" /\ directorio' = directorio \cup {t}
        /\ UNCHANGED <<metadata, archivos, memtable, pedido, abierta, comp, vivo, fallas, caidas>>
    BY <1>1, <1>19, <2>2 DEF CreateDir, cotas
  <2>5. \A d \in Tablas \ {t} : Igual(d)
    BY <2>4 DEF Igual
  <2>6. Sabe(c)'
    BY <2>2, <2>3, <2>4 DEF Sabe, Pide, Conoce
  <2>7. Compacta'
    BY <2>4 DEF VivoInv, Compacta, De
  <2>8. (SinUsar(t) /\ EnUso(t))'
    <3>1. Creando(t)'
      BY <2>2, <2>4 DEF Creando
    <3> QED
      BY <2>3, <2>4, <3>1, CarpetaVacia DEF SinUsar, EnUso
  <2> QED
    BY <1>5, <2>1, <2>2, <2>4, <2>5, <2>6, <2>7, <2>8
<1>20. CASE CreateParticiones(c)
  <2>1. est[c] = "particiona"
    BY <1>20 DEF CreateParticiones
  <2>2. PICK t \in Pide(c) : /\ t = pedido[c].tabla /\ t \in Tablas
                             /\ t \in directorio /\ metadata[t] = SinMetadata
                             /\ archivos[t] = SinArchivos
    BY <1>6, <2>1 DEF Conoce
  <2>3. PICK n \in Nat : n = pedido[c].particiones
    BY <1>1, <2>1, ParticionesAssumption DEF PedidoTipo
  <2>4. est'[c] = "cierra" /\ abierta'[c]
        /\ UNCHANGED <<directorio, metadata, memtable, pedido, comp, vivo, fallas, caidas>>
        /\ \A d \in Clientes \ {c} : abierta'[d] = abierta[d]
    BY <1>1, <1>20 DEF CreateParticiones, cotas, TInv, TiposClientes
  <2>5. /\ archivos'[t] = ConParticiones(t, n)
        /\ \A d \in Tablas \ {t} : Igual(d)
    BY <1>1, <1>20, <2>2, <2>3, <2>4 DEF CreateParticiones, Igual, TInv, TiposArchivos
  <2>6. /\ DOMAIN archivos'[t] = Bins(n)
        /\ \A x \in Bins(n) : archivos'[t][x] = <<>> /\ x[1] = "bin"
    <3>1. EsCarpeta(archivos[t])
      BY <1>1, <2>2 DEF TInv, TiposArchivos
    <3>2. DOMAIN ConParticiones(t, n) = Bins(n) /\ \A x \in Bins(n) : ConParticiones(t, n)[x] = <<>>
      <4>1. /\ DOMAIN ConParticiones(t, n) = Bins(n) \cup DOMAIN archivos[t]
            /\ \A x \in DOMAIN ConParticiones(t, n) :
                  ConParticiones(t, n)[x] = IF x \in Bins(n) THEN <<>> ELSE archivos[t][x]
        BY <3>1, CarpetaParticiones
      <4>2. DOMAIN archivos[t] = {}
        BY <2>2, CarpetaVacia
      <4> QED
        BY <4>1, <4>2
    <3> QED
      BY <2>5, <3>2 DEF Bins
  <2>7. Sabe(c)'
    BY <2>2, <2>3, <2>4, <2>6 DEF Sabe, Pide, Conoce
  <2>8. Compacta'
    <3>1. SUFFICES ASSUME comp # Nada PROVE Compacta'
      BY <2>4 DEF Compacta
    <3>2. archivos'[comp.tabla] = archivos[comp.tabla] /\ comp' = comp
      BY <1>8, <1>9, <2>2, <2>4, <2>5, <3>1 DEF Igual
    <3> QED
      BY <2>4, <3>2 DEF VivoInv, Compacta, De
  <2>9. (SinUsar(t) /\ EnUso(t))'
    <3>1. Creando(t)'
      BY <2>2, <2>4 DEF Creando
    <3> QED
      BY <2>2, <2>4, <2>6, <3>1 DEF VivoInv, Mesas, SinUsar, EnUso
  <2> QED
    BY <1>5, <2>1, <2>2, <2>4, <2>5, <2>7, <2>8, <2>9
<1>21. CASE CreateSinEspacio(c)
  BY <1>21 DEF CreateSinEspacio, Falla, SinFallas, VivoInv
<1>22. CASE CreateSinDir(c)
  BY <1>6, <1>22 DEF CreateSinDir, Conoce
<1>23. CASE CreateTermina(c)
  <2>1. est[c] = "cierra"
    BY <1>23 DEF CreateTermina
  <2>2. PICK n \in Nat : n = pedido[c].particiones
    BY <1>1, <2>1, ParticionesAssumption DEF PedidoTipo
  <2>3. PICK t \in Pide(c) : /\ t = pedido[c].tabla /\ t \in Tablas
                             /\ t \in directorio /\ metadata[t] = SinMetadata
                             /\ abierta[c] /\ DOMAIN archivos[t] = Bins(n)
    BY <1>6, <2>1, <2>2 DEF Conoce
  <2>4. est'[c] = "reposo" /\ metadata' = [metadata EXCEPT ![t] = n]
        /\ UNCHANGED <<directorio, archivos, memtable, comp, vivo, fallas, caidas>>
        /\ \A d \in Clientes \ {c} : abierta'[d] = abierta[d]
    BY <1>1, <1>23, <2>2, <2>3 DEF CreateTermina, cotas, TInv, TiposClientes
  <2>5. metadata'[t] = n /\ n # SinMetadata /\ \A d \in Tablas \ {t} : Igual(d)
    BY <1>1, <2>2, <2>3, <2>4 DEF Igual, TInv, TiposTablas, SinMetadata
  <2>6. Sabe(c)'
    BY <2>4 DEF Sabe, Pide
  <2>7. Compacta'
    <3>1. SUFFICES ASSUME comp # Nada PROVE Compacta'
      BY <2>4 DEF Compacta
    <3>2. metadata'[comp.tabla] = metadata[comp.tabla] /\ comp' = comp
      BY <1>8, <1>9, <2>3, <2>4, <2>5, <3>1 DEF Igual
    <3> QED
      BY <2>4, <3>2 DEF VivoInv, Compacta, De
  <2>8. (SinUsar(t) /\ EnUso(t))'
    <3>1. \A x \in DOMAIN archivos'[t] : x[1] = "bin" /\ archivos'[t][x] = <<>>
      BY <2>3, <2>4 DEF VivoInv, Mesas, SinUsar
    <3>2. FilasEnSuSitio(t)'
      BY <3>1 DEF FilasEnSuSitio, ToSet
    <3>3. De(t, {"bin"})' = Bins(n)
      BY <2>3, <2>4, <3>1 DEF De
    <3> QED
      BY <2>3, <2>4, <2>5, <3>2, <3>3 DEF SinUsar, EnUso
  <2> QED
    BY <1>5, <2>1, <2>3, <2>4, <2>5, <2>6, <2>7, <2>8
<1> QED
  BY <1>10, <1>11, <1>12, <1>13, <1>14, <1>15, <1>16, <1>17, <1>18, <1>19, <1>20, <1>21, <1>22,
     <1>23 DEF Seguir

\* A step of dump or of a compaction, which change the files of one table.
LEMMA VivoDeFondo ==
  ASSUME VivoInv, TInv', NEW t \in Tablas, metadata[t] # SinMetadata,
         operation_mutex \notin Clientes,
         UNCHANGED <<directorio, metadata, est, pedido, abierta, vivo, fallas, caidas>>,
         \A d \in Tablas \ {t} : memtable'[d] = memtable[d] /\ archivos'[d] = archivos[d],
         \A d \in Tablas \ {t} : ~Recreando(d),
         FilasEnSuSitio(t)', De(t, {"bin"})' = Bins(metadata[t]) \/ Recreando(t)',
         Compacta'
  PROVE  VivoInv'
<1>1. \A c \in Clientes : est[c] \notin {"remove", "rmdir"}
  BY DEF VivoInv, TInv, Turno
<1>2. ASSUME NEW c \in Clientes PROVE Sabe(c)'
  <2>1. Sabe(c) /\ Pide(c) \subseteq Tablas
    BY DEF VivoInv, Pide
  <2>2. Pide(c)' = Pide(c)
    BY DEF Pide
  <2>3. ASSUME NEW u \in Pide(c) PROVE Conoce(c, u)'
    <3>1. Conoce(c, u)
      BY <2>1 DEF Sabe
    <3>2. CASE u = t
      BY <1>1, <3>1, <3>2 DEF Conoce
    <3>3. CASE u # t
      <4>1. archivos'[u] = archivos[u] /\ memtable'[u] = memtable[u]
        BY <2>1, <3>3
      <4> QED
        BY <3>1, <4>1 DEF Conoce
    <3> QED
      BY <3>2, <3>3
  <2> QED
    BY <2>1, <2>2, <2>3 DEF Sabe
<1>3. \A d : ~Borrando(d) /\ (Creando(d) <=> Creando(d)') /\ (Quitando(d) <=> Quitando(d)')
  BY <1>1 DEF Creando, Borrando, Quitando
<1>4. ASSUME NEW d \in Tablas \ {t} PROVE (SinUsar(d) /\ EnUso(d))'
  <2>1. Igual(d) /\ SinUsar(d) /\ EnUso(d) /\ ~Recreando(d)
    BY DEF Igual, VivoInv, Mesas
  <2> QED
    BY <1>3, <2>1, MesaIgual
<1>5. (SinUsar(t) /\ EnUso(t))'
  BY DEF VivoInv, Mesas, SinUsar, EnUso
<1> QED
  BY <1>2, <1>4, <1>5 DEF VivoInv, Mesas

LEMMA VivoDump ==
  ASSUME SinFallas, VivoInv, TInv', Dump
  PROVE  VivoInv'
<1>1. CASE DumpEmpieza \/ DumpTermina
  BY <1>1, VivoIgual DEF DumpEmpieza, DumpTermina, clientes, cotas
<1>2. ASSUME NEW t \in Tablas, operation_mutex = "dump", memtable[t] # <<>>
      PROVE  /\ metadata[t] # SinMetadata /\ t \in directorio /\ comp = Nada
             /\ operation_mutex \notin Clientes
             /\ FilasEnSuSitio(t) /\ De(t, {"bin"}) = Bins(metadata[t])
  <2>1. SinUsar(t) /\ EnUso(t)
    BY DEF VivoInv, Mesas
  <2>2. metadata[t] # SinMetadata /\ t \in directorio
    BY <1>2, <2>1 DEF SinUsar, EnUso
  <2>3. operation_mutex \notin Clientes /\ comp = Nada
    BY <1>2, NadieAssumption DEF VivoInv, TInv, Turno
  <2>4. ~Borrando(t) /\ ~Recreando(t)
    BY <2>3 DEF VivoInv, TInv, Turno, Borrando, Recreando
  <2> QED
    BY <2>1, <2>2, <2>3, <2>4 DEF EnUso
<1>3. ASSUME NEW t \in Tablas, DumpTabla(t)
      PROVE  VivoInv'
  <2>1. operation_mutex = "dump" /\ memtable[t] # <<>> /\ memtable[t] \in Seq(Filas)
        /\ EsCarpeta(archivos[t]) /\ DOMAIN archivos = Tablas /\ memtable \in [Tablas -> Seq(Filas)]
    BY <1>3 DEF DumpTabla, VivoInv, TInv, TiposTablas, TiposArchivos
  <2>2. /\ metadata[t] # SinMetadata /\ comp = Nada /\ operation_mutex \notin Clientes
        /\ FilasEnSuSitio(t) /\ De(t, {"bin"}) = Bins(metadata[t])
    BY <1>2, <2>1
  <2>3. PICK n \in Nombres : n = NuevoTemporal(t) /\ n[1] = "tmp"
    BY <2>1, NuevoTemporalEs
  <2>4. ~Falla
    BY DEF Falla, SinFallas, VivoInv
  <2>5. fallas' = fallas /\ archivos' = [archivos EXCEPT ![t] = ConUno(@, n, memtable[t])]
    BY <1>3, <2>3, <2>4 DEF DumpTabla, ConUno
  <2>6. archivos'[t] = ConUno(archivos[t], n, memtable[t]) /\ \A d \in Tablas \ {t} : archivos'[d] = archivos[d]
    BY <2>1, <2>5
  <2>7. /\ DOMAIN archivos'[t] = DOMAIN archivos[t] \cup {n}
        /\ \A x \in DOMAIN archivos'[t] :
              archivos'[t][x] = IF x = n THEN memtable[t] ELSE archivos[t][x]
    <3>1. PICK a, l : a = archivos[t] /\ l = memtable[t]
      OBVIOUS
    <3>2. EsCarpeta(a) /\ l \in Seq(Filas)
      BY <2>1, <3>1
    <3>3. DOMAIN ConUno(a, n, l) = DOMAIN a \cup {n}
      BY <2>3, <3>2, CarpetaAgrega
    <3>4. \A x \in DOMAIN a \cup {n} : ConUno(a, n, l)[x] = IF x = n THEN l ELSE a[x]
      BY <3>3 DEF ConUno, ConArchivos
    <3> QED
      BY <2>6, <3>1, <3>3, <3>4
  <2>8. /\ UNCHANGED <<directorio, metadata, est, pedido, abierta, vivo, caidas, comp>>
        /\ \A d \in Tablas \ {t} : memtable'[d] = memtable[d]
    BY <1>3, <2>1 DEF DumpTabla, clientes
  <2>9. FilasEnSuSitio(t)'
    BY <2>1, <2>2, <2>3, <2>7, <2>8 DEF FilasEnSuSitio, Particion
  <2>10. De(t, {"bin"})' = Bins(metadata[t])
    BY <2>2, <2>3, <2>7 DEF De
  <2>11. Compacta' /\ \A d : ~Recreando(d)
    BY <2>2, <2>8 DEF Compacta, Recreando
  <2> QED
    BY <2>2, <2>5, <2>6, <2>8, <2>9, <2>10, <2>11, VivoDeFondo
<1>4. ASSUME NEW t \in Tablas, DumpMuere(t)
      PROVE  VivoInv'
  BY <1>2, <1>4 DEF DumpMuere
<1> QED
  BY <1>1, <1>3, <1>4 DEF Dump

\* What a step of the compaction in progress starts from.
LEMMA EnFase ==
  ASSUME SinFallas, VivoInv, NEW f, Fase(f)
  PROVE  /\ comp \in Compactaciones /\ comp # Nada /\ comp.fase = f /\ comp.tabla \in Tablas
         /\ metadata[comp.tabla] # SinMetadata /\ metadata[comp.tabla] \in Nat
         /\ operation_mutex \notin Clientes
         /\ \A d : ~Borrando(d)
         /\ \A d : d # comp.tabla => ~Recreando(d)
         /\ FilasEnSuSitio(comp.tabla) /\ EsCarpeta(archivos[comp.tabla])
         /\ f # "recrea" => De(comp.tabla, {"bin"}) = Bins(metadata[comp.tabla])
         /\ Compacta
<1>1. comp \in Compactaciones /\ comp # Nada /\ comp.fase = f /\ comp.tabla \in Tablas
  BY FaseEs DEF VivoInv
<1>2. metadata[comp.tabla] # SinMetadata /\ Compacta
  BY <1>1 DEF VivoInv, Compacta
<1>3. metadata[comp.tabla] \in Nat /\ EsCarpeta(archivos[comp.tabla])
  BY <1>1, <1>2, ParticionesAssumption DEF VivoInv, TInv, TiposTablas, TiposArchivos
<1>4. operation_mutex = "compactacion" /\ operation_mutex \notin Clientes
  BY <1>1, NadieAssumption DEF VivoInv, TInv, Turno
<1>5. \A d : ~Borrando(d)
  BY <1>4 DEF VivoInv, TInv, Turno, Borrando
<1>6. /\ \A d : d # comp.tabla => ~Recreando(d)
      /\ f # "recrea" => ~Recreando(comp.tabla)
  BY <1>1 DEF Recreando
<1>7. EnUso(comp.tabla)
  BY <1>1 DEF VivoInv, Mesas
<1> QED
  BY <1>1, <1>2, <1>3, <1>4, <1>5, <1>6, <1>7 DEF EnUso

\* A compaction reads at least the rows of one temporal.
LEMMA LeeAlgo ==
  ASSUME SinFallas, VivoInv, Fase("lee"),
         NEW l \in Leer(comp.tabla, De(comp.tabla, {"bin", "tmpc"}))
  PROVE  UltimasFilas(l) # <<>>
<1>1. PICK t \in Tablas : t = comp.tabla
  BY EnFase
<1>2. EsCarpeta(archivos[t]) /\ FilasEnSuSitio(t) /\ De(t, {"tmpc"}) # {}
  BY <1>1, EnFase DEF Compacta
<1> DEFINE N == De(t, {"bin", "tmpc"})
<1>3. IsFiniteSet(N) /\ \A n \in N : archivos[t][n] \in Seq(Filas)
  <2>1. N \subseteq DOMAIN archivos[t]
    BY DEF De
  <2> QED
    BY <1>2, <2>1, FS_Subset DEF EsCarpeta
<1>4. l \in Leer(t, N)
  BY <1>1
<1>5. PICK n \in N : archivos[t][n] # <<>>
  BY <1>2 DEF De, FilasEnSuSitio
<1> HIDE DEF N
<1>6. l \in Seq(Filas) /\ ToSet(l) = UNION {ToSet(archivos[t][m]) : m \in N}
  BY <1>3, <1>4, LeerTodo
<1>7. PICK f : f \in ToSet(archivos[t][n])
  <2>1. archivos[t][n] \in Seq(Filas)
    BY <1>3
  <2>2. 1 \in DOMAIN archivos[t][n]
    BY <1>5, <2>1, EmptySeq
  <2> QED
    BY <2>2 DEF ToSet
<1>8. f \in ToSet(l)
  BY <1>6, <1>7
<1>9. PICK g : g \in ToSet(UltimasFilas(l))
  BY <1>6, <1>8, UltimasSon DEF Resume
<1> QED
  BY <1>9 DEF ToSet

LEMMA VivoCompactar ==
  ASSUME SinFallas, VivoInv, TInv', Compactar
  PROVE  VivoInv'
<1>1. ~Falla
  BY DEF Falla, SinFallas, VivoInv
<1>2. ASSUME NEW t \in Tablas, CompSale(t)
      PROVE  VivoInv'
  BY <1>2, VivoIgual DEF CompSale, clientes, cotas
<1>3. ASSUME NEW t \in Tablas, CompRenombra(t)
      PROVE  VivoInv'
  <2> DEFINE r == Renombrados(t)
  <2>1. operation_mutex = Nada /\ comp = Nada /\ operation_mutex \notin Clientes
    BY <1>3, NadieAssumption DEF CompRenombra, VivoInv, TInv, Turno
  <2>2. De(t, {"tmp"}) # {} /\ SinUsar(t) /\ EnUso(t) /\ EsCarpeta(archivos[t])
    BY <1>3 DEF CompRenombra, VivoInv, Mesas, TInv, TiposArchivos
  <2>3. metadata[t] # SinMetadata
    BY <2>2 DEF SinUsar, De
  <2>4. FilasEnSuSitio(t) /\ De(t, {"bin"}) = Bins(metadata[t])
    BY <2>1, <2>2, <2>3 DEF EnUso, VivoInv, TInv, Turno, Borrando, Recreando
  <2>5. archivos'[t] = r /\ \A d \in Tablas \ {t} : archivos'[d] = archivos[d]
    BY <1>3 DEF CompRenombra, VivoInv, TInv, TiposArchivos
  <2>6. /\ EsCarpeta(r)
        /\ \A m \in Nombres :
              m \in DOMAIN r <=>
                 \/ m[1] = "bin" /\ m \in DOMAIN archivos[t]
                 \/ m[1] = "tmpc" /\ (\/ m \in DOMAIN archivos[t]
                                      \/ <<"tmp", m[2]>> \in DOMAIN archivos[t])
        /\ \A m \in DOMAIN r :
              r[m] = IF m[1] = "tmpc" /\ <<"tmp", m[2]>> \in DOMAIN archivos[t]
                     THEN archivos[t][<<"tmp", m[2]>>]
                     ELSE archivos[t][m]
    BY <2>2, CarpetaRenombra
  <2> HIDE DEF r
  <2>7. DOMAIN r \subseteq Nombres /\ DOMAIN archivos[t] \subseteq Nombres
    BY <2>2, <2>6 DEF EsCarpeta
  <2>8. De(t, {"bin"})' = Bins(metadata[t])
    BY <2>4, <2>5, <2>6, <2>7 DEF De
  <2>9. De(t, {"tmpc"})' # {}
    <3>1. PICK x \in DOMAIN archivos[t] : x[1] = "tmp"
      BY <2>2 DEF De
    <3>2. x = <<"tmp", x[2]>> /\ x[2] \in Nat
      BY <2>7, <3>1 DEF Nombres
    <3>3. PICK k \in Nat : k = x[2]
      BY <3>2
    <3>4. <<"tmpc", k>> \in Nombres /\ <<"tmpc", k>>[1] = "tmpc" /\ <<"tmpc", k>>[2] = k
      BY <3>3 DEF Nombres
    <3>5. <<"tmpc", k>> \in DOMAIN r
      BY <2>6, <3>1, <3>2, <3>3, <3>4
    <3> QED
      BY <2>5, <3>4, <3>5 DEF De
  <2>10. UNCHANGED <<directorio, metadata, memtable, est, pedido, abierta, vivo, fallas, caidas>>
         /\ comp'.tabla = t /\ comp'.fase = "lee"
    BY <1>3 DEF CompRenombra, clientes, cotas
  <2>11. FilasEnSuSitio(t)'
    <3> SUFFICES ASSUME NEW m \in DOMAIN r
                 PROVE  /\ m[1] # "bin" => r[m] # <<>>
                        /\ m[1] = "bin" => \A f \in ToSet(r[m]) : m = Particion(t, f.key)
      BY <2>5, <2>10 DEF FilasEnSuSitio, Particion
    <3>1. CASE m[1] = "bin"
      <4>1. r[m] = archivos[t][m] /\ m \in DOMAIN archivos[t]
        BY <2>6, <2>7, <3>1
      <4> QED
        BY <2>4, <3>1, <4>1 DEF FilasEnSuSitio
    <3>2. CASE m[1] # "bin"
      <4>1. m[1] = "tmpc" /\ (m \in DOMAIN archivos[t] \/ <<"tmp", m[2]>> \in DOMAIN archivos[t])
        BY <2>6, <2>7, <3>2
      <4>2. PICK n \in DOMAIN archivos[t] : n[1] # "bin" /\ r[m] = archivos[t][n]
        <5>1. CASE <<"tmp", m[2]>> \in DOMAIN archivos[t]
          BY <2>6, <4>1, <5>1
        <5>2. CASE <<"tmp", m[2]>> \notin DOMAIN archivos[t]
          BY <2>6, <4>1, <5>2
        <5> QED
          BY <5>1, <5>2
      <4> QED
        BY <2>4, <3>2, <4>2 DEF FilasEnSuSitio
    <3> QED
      BY <3>1, <3>2
  <2>12. Compacta'
    BY <2>3, <2>9, <2>10 DEF Compacta
  <2>13. \A d : ~Recreando(d)
    BY <2>1 DEF Recreando
  <2> QED
    BY <2>1, <2>3, <2>5, <2>8, <2>10, <2>11, <2>12, <2>13, VivoDeFondo
<1>4. CASE CompLee
  <2>1. Fase("lee")
    BY <1>4 DEF CompLee
  <2>2. PICK t \in Tablas : t = comp.tabla
    BY <2>1, EnFase
  <2>3. /\ comp \in Compactaciones /\ metadata[t] # SinMetadata /\ operation_mutex \notin Clientes
        /\ FilasEnSuSitio(t) /\ De(t, {"bin"}) = Bins(metadata[t])
        /\ \A d : d # t => ~Recreando(d)
    BY <2>1, <2>2, EnFase
  <2>4. PICK l \in Leer(comp.tabla, De(comp.tabla, {"bin", "tmpc"})) :
            comp' = [comp EXCEPT !.fase = "limpia", !.filas = UltimasFilas(l)]
    BY <1>4 DEF CompLee
  <2>5. comp'.tabla = t /\ comp'.fase = "limpia" /\ comp'.filas # <<>>
    <3>1. UltimasFilas(l) # <<>>
      BY <2>1, LeeAlgo
    <3> QED
      BY <2>2, <2>3, <2>4, <3>1 DEF Compactaciones
  <2>6. UNCHANGED <<directorio, metadata, archivos, memtable, est, pedido, abierta, vivo, fallas, caidas>>
    BY <1>4 DEF CompLee, disco, clientes, cotas
  <2>7. Compacta' /\ FilasEnSuSitio(t)' /\ De(t, {"bin"})' = Bins(metadata[t])
    BY <2>3, <2>5, <2>6 DEF Compacta, FilasEnSuSitio, Particion, De
  <2> QED
    BY <2>3, <2>6, <2>7, VivoDeFondo
<1>5. CASE CompLimpia
  <2>1. Fase("limpia")
    BY <1>5 DEF CompLimpia
  <2>2. PICK t \in Tablas : t = comp.tabla
    BY <2>1, EnFase
  <2>3. /\ comp \in Compactaciones /\ metadata[t] # SinMetadata /\ operation_mutex \notin Clientes
        /\ De(t, {"bin"}) = Bins(metadata[t]) /\ metadata[t] \in Nat /\ comp.filas # <<>>
        /\ \A d : d # t => ~Recreando(d)
    BY <2>1, <2>2, EnFase DEF Compacta
  <2>4. Cardinality(De(t, {"bin"})) = metadata[t]
    BY <2>3, BinsSon
  <2>5. comp'.tabla = t /\ comp'.fase = "recrea" /\ comp'.filas # <<>> /\ comp'.particiones = metadata[t]
    BY <1>5, <2>2, <2>3, <2>4 DEF CompLimpia, Compactaciones
  <2>6. UNCHANGED <<directorio, metadata, memtable, est, pedido, abierta, vivo, fallas, caidas>>
    BY <1>5 DEF CompLimpia, clientes, cotas
  <2>7. archivos'[t] = SinArchivos /\ \A d \in Tablas \ {t} : archivos'[d] = archivos[d]
    BY <1>5, <2>2 DEF CompLimpia, VivoInv, TInv, TiposArchivos
  <2>8. comp' # Nada
    <3>1. comp' \in Compactaciones
      BY <1>5, <2>2, <2>3, <2>4 DEF CompLimpia, Compactaciones
    <3> QED
      BY <3>1, NadaAssumption
  <2>9. Compacta' /\ FilasEnSuSitio(t)' /\ Recreando(t)'
    BY <2>3, <2>5, <2>6, <2>7, <2>8, CarpetaVacia DEF Compacta, FilasEnSuSitio, Recreando
  <2> QED
    BY <2>3, <2>6, <2>7, <2>9, VivoDeFondo
<1>6. CASE CompRecrea
  <2>1. Fase("recrea")
    BY <1>6 DEF CompRecrea
  <2>2. PICK t \in Tablas : t = comp.tabla
    BY <2>1, EnFase
  <2>3. /\ comp \in Compactaciones /\ metadata[t] # SinMetadata /\ operation_mutex \notin Clientes
        /\ metadata[t] \in Nat /\ EsCarpeta(archivos[t])
        /\ archivos[t] = SinArchivos /\ comp.particiones = metadata[t]
        /\ \A d : d # t => ~Recreando(d)
    BY <2>1, <2>2, EnFase DEF Compacta
  <2>4. PICK n \in Nat : n = metadata[t]
    BY <2>3
  <2>5. comp'.tabla = t /\ comp'.fase = "guarda"
    BY <1>6, <2>2, <2>3 DEF CompRecrea, Compactaciones
  <2>6. UNCHANGED <<directorio, metadata, memtable, est, pedido, abierta, vivo, fallas, caidas>>
    BY <1>6 DEF CompRecrea, clientes, cotas
  <2>7. archivos'[t] = ConParticiones(t, n) /\ \A d \in Tablas \ {t} : archivos'[d] = archivos[d]
    BY <1>6, <2>2, <2>3, <2>4 DEF CompRecrea, VivoInv, TInv, TiposArchivos
  <2>8. DOMAIN archivos'[t] = Bins(n) /\ \A x \in Bins(n) : archivos'[t][x] = <<>> /\ x[1] = "bin"
    <3>1. /\ DOMAIN ConParticiones(t, n) = Bins(n) \cup DOMAIN archivos[t]
          /\ \A x \in DOMAIN ConParticiones(t, n) :
                ConParticiones(t, n)[x] = IF x \in Bins(n) THEN <<>> ELSE archivos[t][x]
      BY <2>3, CarpetaParticiones
    <3>2. DOMAIN archivos[t] = {} /\ \A x \in Bins(n) : x[1] = "bin"
      BY <2>3, CarpetaVacia DEF Bins
    <3> QED
      BY <2>7, <3>1, <3>2
  <2>9. Compacta'
    BY <2>3, <2>5, <2>6 DEF Compacta
  <2>10. FilasEnSuSitio(t)'
    BY <2>8 DEF FilasEnSuSitio, ToSet
  <2>11. De(t, {"bin"})' = Bins(metadata[t])
    BY <2>4, <2>8 DEF De
  <2> QED
    BY <2>3, <2>6, <2>7, <2>9, <2>10, <2>11, VivoDeFondo
<1>7. CASE CompGuarda
  <2>1. Fase("guarda")
    BY <1>7 DEF CompGuarda
  <2>2. PICK t \in Tablas : t = comp.tabla
    BY <2>1, EnFase
  <2>3. /\ comp \in Compactaciones /\ metadata[t] # SinMetadata /\ operation_mutex \notin Clientes
        /\ FilasEnSuSitio(t) /\ De(t, {"bin"}) = Bins(metadata[t]) /\ EsCarpeta(archivos[t])
        /\ \A d : d # t => ~Recreando(d)
    BY <2>1, <2>2, EnFase
  <2>4. comp.filas \in Seq(Filas) /\ comp.filas # <<>>
    BY <1>7, <2>3 DEF CompGuarda, Compactaciones
  <2>5. PICK f \in Filas : f = Head(comp.filas)
    BY <2>4, HeadTailProperties, EmptySeq
  <2>6. PICK d \in De(t, {"bin"}) : d = Particion(t, f.key)
    <3>1. f.key \in Claves
      BY DEF Filas
    <3> QED
      BY <2>3, <3>1, SeHalla DEF VivoInv
  <2>7. /\ UNCHANGED <<directorio, metadata, memtable, est, pedido, abierta, vivo, fallas, caidas>>
        /\ archivos' = [archivos EXCEPT ![t][d] = Append(@, f)]
        /\ comp' = [comp EXCEPT !.filas = Tail(@)]
    BY <1>1, <1>7, <2>2, <2>5, <2>6 DEF CompGuarda, Destino, clientes
  <2>8. d \in DOMAIN archivos[t] /\ d[1] = "bin" /\ archivos[t][d] \in Seq(Filas)
    BY <2>3, <2>6 DEF De, EsCarpeta
  <2>9. /\ archivos'[t] = [archivos[t] EXCEPT ![d] = Append(archivos[t][d], f)]
        /\ \A e \in Tablas \ {t} : archivos'[e] = archivos[e]
    BY <2>7 DEF VivoInv, TInv, TiposArchivos
  <2>10. /\ DOMAIN archivos'[t] = DOMAIN archivos[t]
         /\ archivos'[t][d] = Append(archivos[t][d], f)
         /\ \A x \in DOMAIN archivos[t] \ {d} : archivos'[t][x] = archivos[t][x]
    BY <2>8, <2>9
  <2>11. De(t, {"bin"})' = Bins(metadata[t])
    BY <2>3, <2>10 DEF De
  <2>12. ToSet(Append(archivos[t][d], f)) = ToSet(archivos[t][d]) \cup {f}
    BY <2>8, AgregarElemento
  <2>13. FilasEnSuSitio(t)'
    <3>1. metadata'[t] = metadata[t]
      BY <2>7
    <3> QED
      BY <2>3, <2>6, <2>8, <2>10, <2>12, <3>1 DEF FilasEnSuSitio, Particion
  <2>14. Compacta'
    BY <2>1, <2>2, <2>3, <2>7 DEF Compacta, Compactaciones, Fase
  <2> QED
    BY <2>3, <2>7, <2>9, <2>11, <2>13, <2>14, VivoDeFondo
<1>8. CASE CompMuere
  <2>1. CASE Fase("recrea") /\ comp.filas = <<>>
    BY <2>1, EnFase DEF Compacta
  <2>2. CASE Fase("recrea") /\ Falla
    BY <1>1, <2>2
  <2>3. CASE Fase("guarda") /\ comp.filas # <<>> /\ ~Hallada(comp.tabla, Head(comp.filas).key)
    <3>1. comp.filas \in Seq(Filas) /\ comp.tabla \in Tablas /\ metadata[comp.tabla] # SinMetadata
          /\ De(comp.tabla, {"bin"}) = Bins(metadata[comp.tabla])
      BY <2>3, EnFase DEF Compactaciones
    <3>2. Head(comp.filas) \in Filas
      BY <2>3, <3>1, HeadTailProperties, EmptySeq
    <3>3. Head(comp.filas).key \in Claves
      BY <3>2 DEF Filas
    <3> QED
      BY <2>3, <3>1, <3>3, SeHalla DEF VivoInv
  <2> QED
    BY <1>8, <2>1, <2>2, <2>3 DEF CompMuere
<1>9. CASE CompTermina
  <2>1. Fase("guarda")
    BY <1>9 DEF CompTermina
  <2>2. PICK t \in Tablas : t = comp.tabla
    BY <2>1, EnFase
  <2>3. /\ metadata[t] # SinMetadata /\ operation_mutex \notin Clientes
        /\ FilasEnSuSitio(t) /\ De(t, {"bin"}) = Bins(metadata[t])
        /\ \A d : d # t => ~Recreando(d)
    BY <2>1, <2>2, EnFase
  <2>4. UNCHANGED <<directorio, metadata, archivos, memtable, est, pedido, abierta, vivo, fallas, caidas>>
        /\ comp' = Nada
    BY <1>9 DEF CompTermina, disco, clientes, cotas
  <2>5. Compacta' /\ FilasEnSuSitio(t)' /\ De(t, {"bin"})' = Bins(metadata[t])
    BY <2>3, <2>4 DEF Compacta, FilasEnSuSitio, Particion, De
  <2> QED
    BY <2>3, <2>4, <2>5, VivoDeFondo
<1>10. ASSUME NEW t \in Tablas, CompRenombraFalla(t)
       PROVE  VivoInv'
  BY <1>1, <1>10 DEF CompRenombraFalla
<1> QED
  BY <1>2, <1>3, <1>4, <1>5, <1>6, <1>7, <1>8, <1>9, <1>10 DEF Compactar

LEMMA VivoNext == SinFallas /\ SinCruce /\ SinCruce' /\ VivoInv /\ [Next]_vars => VivoInv'
<1> SUFFICES ASSUME SinFallas, SinCruce, SinCruce', VivoInv, [Next]_vars PROVE VivoInv'
  OBVIOUS
<1>1. TInv'
  BY TNext DEF VivoInv
<1>2. CASE UNCHANGED vars
  BY <1>1, <1>2, VivoIgual DEF vars, disco, clientes, cotas
<1>3. ~Caida /\ ~Arrancar
  BY DEF Caida, Arrancar, SinFallas, VivoInv
<1> QED
  BY <1>1, <1>2, <1>3, VivoPedir, VivoSeguir, VivoDump, VivoCompactar DEF Next

\* With blocks for every file and no rename failing, nothing that dump, compaction
\* and the requests of the other clients do between the steps of a request makes
\* LFS dereference NULL or divide by zero, unless a request, a DESCRIBE included,
\* meets the CREATE or the DROP of one of its tables, or is one of those that are
\* refused after what they log was freed: every table that can be asked for is
\* whole, with rows in each of its temporals and each row in the partition of its
\* key.
THEOREM NoMuere == SinFallas /\ Spec /\ []SinCruce => []SiempreVivo
<1> DEFINE Inv == SinFallas /\ VivoInv
<1>1. SinFallas /\ Init => Inv
  BY VivoInit
<1>2. Inv /\ SinCruce /\ SinCruce' /\ [Next]_vars => Inv'
  BY VivoNext DEF SinFallas
<1>3. Inv => SiempreVivo
  BY DEF VivoInv, SiempreVivo
<1> HIDE DEF Inv
<1> QED
  BY <1>1, <1>2, <1>3, PTL DEF Spec

-----------------------------------------------------------------------------
(* The last rows of a key in a set of rows *)

DeClave(R, k) == {f \in R : f.key = k}

LEMMA ToSetAgrega ==
  ASSUME NEW l \in Seq(Filas), NEW f \in Filas
  PROVE  ToSet(Append(l, f)) = ToSet(l) \cup {f}
<1>1. /\ DOMAIN Append(l, f) = 1 .. Len(l) + 1 /\ Append(l, f)[Len(l) + 1] = f
      /\ \A i \in 1 .. Len(l) : Append(l, f)[i] = l[i]
  OBVIOUS
<1>2. DOMAIN l = 1 .. Len(l) /\ 1 .. Len(l) + 1 = (1 .. Len(l)) \cup {Len(l) + 1}
  OBVIOUS
<1> QED
  BY <1>1, <1>2 DEF ToSet

LEMMA ListaFinita ==
  ASSUME NEW S, NEW l \in Seq(S)
  PROVE  IsFiniteSet(ToSet(l))
<1> DEFINE f == [i \in 1 .. Len(l) |-> l[i]]
<1>1. IsFiniteSet(1 .. Len(l)) /\ Len(l) \in Nat /\ DOMAIN l = 1 .. Len(l)
  BY FS_Interval
<1>2. f \in Surjection(1 .. Len(l), ToSet(l))
  BY <1>1 DEF Surjection, ToSet
<1> QED
  BY <1>1, <1>2, FS_Surjection

LEMMA InstanteEs ==
  ASSUME NEW R \in SUBSET Filas, IsFiniteSet(R), NEW k
  PROVE  /\ Instante(R, k) \in Nat
         /\ \A f \in DeClave(R, k) : f.timestamp <= Instante(R, k)
         /\ DeClave(R, k) # {} => \E f \in DeClave(R, k) : f.timestamp = Instante(R, k)
         /\ DeClave(R, k) = {} => Instante(R, k) = 0
<1> DEFINE F == DeClave(R, k)
           N == {f.timestamp : f \in F}
           S == {0} \cup N
<1>1. Instante(R, k) = Max(S)
  BY DEF Instante, DeClave
<1>2. \A f \in F : f.timestamp \in Nat /\ f.timestamp # 0
  BY FilasTipo DEF DeClave
<1>3. IsFiniteSet(F)
  BY FS_Subset DEF DeClave
<1> HIDE DEF F
<1>4. IsFiniteSet(N)
  <2> DEFINE g == [f \in F |-> f.timestamp]
  <2>1. g \in Surjection(F, N)
    BY DEF Surjection
  <2> QED
    BY <1>3, <2>1, FS_Surjection
<1>5. IsFiniteSet(S)
  BY <1>4, FS_Singleton, FS_Union
<1>6. S \in SUBSET Nat /\ S # {}
  BY <1>2
<1>7. PICK m : m = Max(S)
  OBVIOUS
<1>8. m \in S /\ \A x \in S : x <= m
  <2> HIDE DEF S
  <2> QED
    BY <1>5, <1>6, <1>7, MaximoFinito
<1>9. m \in Nat /\ \A f \in F : f.timestamp <= m
  BY <1>6, <1>8
<1>10. F # {} => \E f \in F : f.timestamp = m
  <2> SUFFICES ASSUME NEW g \in F PROVE m # 0
    BY <1>8
  <2> QED
    BY <1>2, <1>9
<1>11. F = {} => m = 0
  BY <1>8
<1> QED
  BY <1>1, <1>7, <1>9, <1>10, <1>11 DEF F

\* The last rows of a key depend on the rows of that key alone.
LEMMA UltimasDeClave ==
  ASSUME NEW R, NEW S, NEW k, DeClave(R, k) = DeClave(S, k)
  PROVE  Ultimas(R, k) = Ultimas(S, k)
<1>1. Instante(R, k) = Instante(S, k)
  BY DEF Instante, DeClave
<1>2. {f \in R : f.key = k /\ f.timestamp = Instante(R, k)}
        = {f \in S : f.key = k /\ f.timestamp = Instante(S, k)}
  BY <1>1 DEF DeClave
<1> QED
  BY <1>1, <1>2 DEF Ultimas

LEMMA UltimasQuienes ==
  ASSUME NEW R \in SUBSET Filas, NEW k
  PROVE  /\ Ultimas(R, k).instante = Instante(R, k)
         /\ \A v : v \in Ultimas(R, k).valores <=>
               \E f \in DeClave(R, k) : f.timestamp = Instante(R, k) /\ f.value = v
  BY DEF Ultimas, DeClave

\* What a SELECT takes from a list is one of them.
LEMMA UltimoDeLista ==
  ASSUME NEW l \in Seq(Filas), NEW k
  PROVE  UltimoValor(l, k) \in IF Ultimas(ToSet(l), k).valores = {} THEN {Nada}
                               ELSE Ultimas(ToSet(l), k).valores
<1> DEFINE R == ToSet(l)
           V == Ultimas(R, k).valores
<1>1. R \in SUBSET Filas /\ IsFiniteSet(R) /\ DOMAIN l = 1 .. Len(l)
  BY ListaFinita, FilasTipo
<1>2. \A p \in Posiciones(l, k) : l[p] \in DeClave(R, k)
  BY <1>1 DEF Posiciones, DeClave, ToSet
<1>3. \A f \in DeClave(R, k) : \E p \in Posiciones(l, k) : f = l[p]
  BY <1>1 DEF Posiciones, DeClave, ToSet
<1> HIDE DEF R
<1>4. CASE Posiciones(l, k) = {}
  <2>1. V = {}
    BY <1>1, <1>3, <1>4, UltimasQuienes
  <2> QED
    BY <1>4, <2>1 DEF UltimoValor, R
<1>5. CASE Posiciones(l, k) # {}
  <2>1. EsUltimo(l, k, Ultimo(l, k))
    BY <1>5, UltimoExiste
  <2>2. PICK p \in Posiciones(l, k) : p = Ultimo(l, k)
    BY <2>1 DEF EsUltimo
  <2>3. PICK i \in Nat : i = Instante(R, k)
    BY <1>1, InstanteEs
  <2>4. PICK f \in DeClave(R, k) : f.timestamp = i
    BY <1>1, <1>2, <2>2, <2>3, InstanteEs
  <2>5. PICK q \in Posiciones(l, k) : l[q] = f
    BY <1>3
  <2>6. l[q].timestamp <= l[p].timestamp
    BY <2>1, <2>2, PosicionesTipo DEF EsUltimo
  <2>7. l[p].timestamp <= i
    BY <1>1, <1>2, <2>3, InstanteEs
  <2>8. l[p].timestamp = i
    BY <2>3, <2>4, <2>5, <2>6, <2>7, PosicionesTipo
  <2>9. l[p].value \in V
    BY <1>1, <1>2, <2>3, <2>8, UltimasQuienes
  <2>10. UltimoValor(l, k) = l[p].value
    BY <1>5, <2>2 DEF UltimoValor
  <2> QED
    BY <2>9, <2>10 DEF R
<1> QED
  BY <1>4, <1>5

-----------------------------------------------------------------------------
(* What a SELECT answers.                                                  *)
(*                                                                         *)
(* Any number of clients ask for anything, and LFS stops and starts again  *)
(* at any moment.  A SELECT reads under operation_mutex, when no           *)
(* compaction has rows in memory, but of the partitions only that of its   *)
(* key: it answers the last row if each row of a partition is in the one   *)
(* that PARTITIONS gives to its key now.  A compaction saves them so, and  *)
(* PARTITIONS may change only while the partitions have no rows: a CREATE  *)
(* writes it once, if no other CREATE of the table is between stat and     *)
(* crearParticiones, and a DROP removed the files before it removes it.    *)

\* No two clients found that the same table is missing and are making it.
SinSolape ==
    \A c, d \in Clientes :
        c # d /\ est[c] \in {"crea", "particiona"} /\ est[d] \in {"crea", "particiona"}
           => pedido[c].tabla # pedido[d].tabla

\* A CREATE whose Metadata, once flushed, gives its table another PARTITIONS.
Abierto(c) == est[c] = "cierra" /\ abierta[c]

\* It is the only one, and the table has no PARTITIONS meanwhile.
CreateSolo ==
    \A c \in Clientes : (est[c] \in {"crea", "particiona"} \/ Abierto(c)) =>
        /\ metadata[pedido[c].tabla] = SinMetadata
        /\ \A d \in Clientes : Abierto(d) /\ pedido[d].tabla = pedido[c].tabla => d = c

\* Each row of a partition is in that of its key.
CadaUnaEnLaSuya ==
    \A t \in Tablas : \A n \in DOMAIN archivos[t] :
        n[1] = "bin" => \A f \in ToSet(archivos[t][n]) : metadata[t] > 0 /\ n = Particion(t, f.key)

\* A DROP that has removed the files finds no rows in the partitions that a
\* CREATE may make since.
BorradaSinFilas ==
    \A c \in Clientes : est[c] = "remove" =>
        \A n \in DOMAIN archivos[pedido[c].tabla] :
            n[1] = "bin" => ToSet(archivos[pedido[c].tabla][n]) = {}

SitioInv == TInv /\ HiloInv /\ CreateSolo /\ CadaUnaEnLaSuya /\ BorradaSinFilas

\* The partitions of b are those of a, or have no rows.
NoCrecen(b, a) ==
    \A n \in DOMAIN b : n[1] = "bin" => ToSet(b[n]) = {} \/ (n \in DOMAIN a /\ b[n] = a[n])

LEMMA NoCrecenParticiones ==
  ASSUME NEW t, EsCarpeta(archivos[t]), NEW n \in Nat
  PROVE  NoCrecen(ConParticiones(t, n), archivos[t])
<1> DEFINE c == ConParticiones(t, n)
<1>1. /\ DOMAIN c = Bins(n) \cup DOMAIN archivos[t]
      /\ \A x \in DOMAIN c : c[x] = IF x \in Bins(n) THEN <<>> ELSE archivos[t][x]
  BY CarpetaParticiones
<1>2. ToSet(<<>>) = {}
  BY DEF ToSet
<1> HIDE DEF c
<1>3. NoCrecen(c, archivos[t])
  BY <1>1, <1>2 DEF NoCrecen
<1> QED
  BY <1>3 DEF c

\* Only the rows that a compaction saves go to a partition.
LEMMA SoloGuardaCrece ==
  ASSUME TInv, [Next]_vars, ~CompGuarda, NEW t \in Tablas
  PROVE  NoCrecen(archivos'[t], archivos[t])
<1>0. TiposArchivos /\ TiposClientes /\ EsCarpeta(archivos[t])
  BY DEF TInv, TiposArchivos
<1>1. CASE archivos'[t] = archivos[t]
  BY <1>1 DEF NoCrecen
<1>2. CASE archivos'[t] = SinArchivos
  BY <1>2, CarpetaVacia DEF NoCrecen
<1>3. ASSUME NEW n \in Nat, archivos'[t] = ConParticiones(t, n)
      PROVE  NoCrecen(archivos'[t], archivos[t])
  BY <1>0, <1>3, NoCrecenParticiones
<1>4. ASSUME NEW c \in Clientes, Pedir(c)
      PROVE  archivos' = archivos
  BY <1>4 DEF Pedir, Rechaza, InsertMira, SelectMira, DescribeUna, DescribeTodas, DropMira,
              CreateMira, InsertInvalido, DescribeInvalido, disco, vars
<1>5. ASSUME NEW c \in Clientes, Seguir(c)
      PROVE  NoCrecen(archivos'[t], archivos[t])
  <2>1. CASE DropBorra(c)
    BY <1>0, <1>1, <1>2, <2>1 DEF DropBorra, TiposArchivos
  <2>2. CASE CreateParticiones(c)
    <3>1. pedido[c].particiones \in Nat
      BY <1>0, <2>2, ParticionesAssumption DEF CreateParticiones, TiposClientes, PedidoTipo
    <3>2. archivos' = [archivos EXCEPT ![pedido[c].tabla] =
                                          ConParticiones(pedido[c].tabla, pedido[c].particiones)]
      BY <2>2 DEF CreateParticiones
    <3>3. CASE pedido[c].tabla # t
      BY <1>0, <1>1, <3>2, <3>3 DEF TiposArchivos
    <3>4. CASE pedido[c].tabla = t
      BY <1>0, <1>3, <3>1, <3>2, <3>4 DEF TiposArchivos
    <3> QED
      BY <3>3, <3>4
  <2> QED
    BY <1>1, <1>5, <2>1, <2>2
       DEF Seguir, InsertGuarda, SelectLee, SelectMuere, DescribeMira, DescribeAbre,
           DescribeMuere, DropMetadata, DropTermina, CreateDir, CreateSinEspacio,
           CreateSinDir, CreateTermina, disco
<1>6. ASSUME NEW u \in Tablas, DumpTabla(u)
      PROVE  NoCrecen(archivos'[t], archivos[t])
  <2>1. CASE u # t
    BY <1>0, <1>1, <1>6, <2>1, DumpAgrega DEF TiposArchivos
  <2>2. CASE u = t
    <3> DEFINE n == NuevoTemporal(t)
    <3>1. n[1] = "tmp"
      BY <1>0, NuevoTemporalEs
    <3>2. ASSUME NEW l, archivos' = [archivos EXCEPT ![t] = ConUno(archivos[t], n, l)]
          PROVE  NoCrecen(archivos'[t], archivos[t])
      <4>1. ConUno(archivos[t], n, l) = [x \in DOMAIN archivos[t] \cup {n} |->
                                           IF x = n THEN l ELSE archivos[t][x]]
        BY DEF ConUno, ConArchivos
      <4> HIDE DEF n
      <4>2. archivos'[t] = ConUno(archivos[t], n, l)
        BY <1>0, <3>2 DEF TiposArchivos
      <4> QED
        BY <3>1, <4>1, <4>2 DEF NoCrecen
    <3> HIDE DEF n
    <3>3. \/ archivos' = archivos
          \/ \E l \in Seq(Filas) : archivos' = [archivos EXCEPT ![t] = ConUno(archivos[t], n, l)]
      BY <1>6, <2>2, DumpAgrega DEF n
    <3> QED
      BY <1>1, <3>2, <3>3
  <2> QED
    BY <2>1, <2>2
<1>7. CASE Dump
  BY <1>1, <1>6, <1>7 DEF Dump, DumpEmpieza, DumpMuere, DumpTermina, disco
<1>8. ASSUME NEW u \in Tablas, CompRenombra(u)
      PROVE  NoCrecen(archivos'[t], archivos[t])
  <2>1. CASE u # t
    BY <1>0, <1>1, <1>8, <2>1 DEF CompRenombra, TiposArchivos
  <2>2. CASE u = t
    <3>1. archivos'[t] = Renombrados(t)
      BY <1>0, <1>8, <2>2 DEF CompRenombra, TiposArchivos
    <3>2. EsCarpeta(Renombrados(t))
      BY <1>0, CarpetaRenombra
    <3>3. ASSUME NEW n \in DOMAIN Renombrados(t), n[1] = "bin"
          PROVE  n \in DOMAIN archivos[t] /\ Renombrados(t)[n] = archivos[t][n]
      BY <1>0, <3>2, <3>3, CarpetaRenombra DEF EsCarpeta
    <3> QED
      BY <3>1, <3>3 DEF NoCrecen
  <2> QED
    BY <2>1, <2>2
<1>9. CASE CompLimpia
  BY <1>0, <1>1, <1>2, <1>9 DEF CompLimpia, TiposArchivos
<1>10. CASE CompRecrea \/ CompMuere
  <2>1. comp.particiones \in Nat
    BY <1>10, FaseEs DEF CompRecrea, CompMuere
  <2>2. \/ archivos' = archivos
        \/ archivos' = [archivos EXCEPT ![comp.tabla] = ConParticiones(comp.tabla, comp.particiones)]
    BY <1>10 DEF CompRecrea, CompMuere
  <2>3. CASE comp.tabla = t
    BY <1>0, <1>1, <1>3, <2>1, <2>2, <2>3 DEF TiposArchivos
  <2>4. CASE comp.tabla # t
    BY <1>0, <1>1, <2>2, <2>4 DEF TiposArchivos
  <2> QED
    BY <2>3, <2>4
<1>13. ASSUME NEW u \in Tablas, CompRenombraFalla(u)
       PROVE  NoCrecen(archivos'[t], archivos[t])
  <2>1. CASE u # t
    BY <1>0, <1>1, <1>13, <2>1 DEF CompRenombraFalla, TiposArchivos
  <2>2. CASE u = t
    <3>1. PICK M \in SUBSET De(t, {"tmp"}) : archivos' = [archivos EXCEPT ![t] = RenombradosDe(t, M)]
      BY <1>13, <2>2 DEF CompRenombraFalla
    <3>2. archivos'[t] = RenombradosDe(t, M)
      BY <1>0, <3>1 DEF TiposArchivos
    <3>3. EsCarpeta(RenombradosDe(t, M))
      BY <1>0, CarpetaRenombraDe
    <3>4. ASSUME NEW n \in DOMAIN RenombradosDe(t, M), n[1] = "bin"
          PROVE  n \in DOMAIN archivos[t] /\ RenombradosDe(t, M)[n] = archivos[t][n]
      BY <1>0, <3>3, <3>4, BinsQuietos DEF EsCarpeta
    <3> QED
      BY <3>2, <3>4 DEF NoCrecen
  <2> QED
    BY <2>1, <2>2
<1>11. CASE Compactar
  BY <1>1, <1>8, <1>9, <1>10, <1>11, <1>13 DEF Compactar, CompSale, CompLee, CompTermina, disco
<1>12. CASE Caida \/ Arrancar \/ UNCHANGED vars
  BY <1>1, <1>12 DEF Caida, Arrancar, vars, disco
<1> QED
  BY <1>1, <1>4, <1>5, <1>7, <1>11, <1>12 DEF Next

LEMMA SitioInit == Init => SitioInv
<1> SUFFICES ASSUME Init PROVE SitioInv
  OBVIOUS
<1>1. \A t \in Tablas : \A n \in DOMAIN archivos[t] : ToSet(archivos[t][n]) = {}
  <2> SUFFICES ASSUME NEW t \in Tablas, NEW n \in DOMAIN archivos[t]
               PROVE  ToSet(archivos[t][n]) = {}
    OBVIOUS
  <2>1. archivos[t] = [p \in {<<"bin", i>> : i \in 0 .. metadata[t] - 1} |-> <<>>]
    BY DEF Init
  <2>2. archivos[t][n] = <<>>
    BY <2>1
  <2> QED
    BY <2>2 DEF ToSet
<1>2. \A c \in Clientes : est[c] = "reposo"
  BY DEF Init
<1> QED
  BY <1>1, <1>2, TInit, HiloInit
     DEF SitioInv, CreateSolo, Abierto, CadaUnaEnLaSuya, BorradaSinFilas

\* No CREATE begins, and Metadata does not change but to be removed.
LEMMA SoloQuieto ==
  ASSUME CreateSolo, TiposClientes,
         \A t \in Tablas : metadata'[t] \in {metadata[t], SinMetadata},
         \A c \in Clientes : est'[c] \in {"crea", "particiona"}
                              => est[c] \in {"crea", "particiona"} /\ pedido'[c] = pedido[c],
         \A c \in Clientes : Abierto(c)' => Abierto(c) /\ pedido'[c] = pedido[c]
  PROVE  CreateSolo'
<1> SUFFICES ASSUME NEW c \in Clientes, est'[c] \in {"crea", "particiona"} \/ Abierto(c)'
             PROVE  /\ metadata'[pedido'[c].tabla] = SinMetadata
                    /\ \A d \in Clientes :
                          Abierto(d)' /\ pedido'[d].tabla = pedido'[c].tabla => d = c
  BY DEF CreateSolo
<1>1. (est[c] \in {"crea", "particiona"} \/ Abierto(c)) /\ pedido'[c] = pedido[c]
  OBVIOUS
<1>2. pedido[c].tabla \in Tablas /\ metadata[pedido[c].tabla] = SinMetadata
  BY <1>1 DEF CreateSolo, TiposClientes, PedidoTipo, Abierto
<1> QED
  BY <1>1, <1>2 DEF CreateSolo

LEMMA SoloPedir ==
  ASSUME SitioInv, NEW c \in Clientes, Pedir(c)
  PROVE  CreateSolo'
<1>0. TiposClientes /\ TiposTablas /\ CreateSolo /\ HiloInv
  BY DEF SitioInv, TInv
<1>1. CASE Rechaza(c)
  BY <1>0, <1>1, SoloQuieto DEF Rechaza, vars, disco, clientes, Abierto
<1>2. ASSUME \/ \E t \in Tablas, f \in Filas : InsertMira(c, t, f)
             \/ \E t \in Tablas, k \in Claves : SelectMira(c, t, k)
             \/ \E t \in Tablas : DescribeUna(c, t)
             \/ DescribeTodas(c)
             \/ \E t \in Tablas : DropMira(c, t)
      PROVE  CreateSolo'
  <2>1. PICK e \in {"reposo", "guarda", "lee", "describe", "abre", "borra"} :
           est' = [est EXCEPT ![c] = e]
    BY <1>2 DEF InsertMira, SelectMira, DescribeUna, DescribeTodas, DropMira
  <2>2. /\ metadata' = metadata /\ abierta' = abierta
        /\ \A d \in Clientes \ {c} : pedido'[d] = pedido[d] /\ est'[d] = est[d]
    BY <1>0, <1>2, <2>1
       DEF TiposClientes, InsertMira, SelectMira, DescribeUna, DescribeTodas, DropMira, disco
  <2>3. est'[c] = e
    BY <1>0, <2>1 DEF TiposClientes
  <2>4. \A d \in Clientes : est'[d] \in {"crea", "particiona", "cierra"} => d # c
    BY <2>3
  <2> QED
    BY <1>0, <2>2, <2>4, SoloQuieto DEF Abierto
<1>3. CASE InsertInvalido(c) \/ DescribeInvalido(c)
  BY <1>0, <1>3, SoloQuieto DEF InsertInvalido, DescribeInvalido, Morir, disco, Abierto
<1>4. ASSUME NEW t \in Tablas, NEW n \in Particiones, CreateMira(c, t, n)
      PROVE  CreateSolo'
  <2>1. /\ t \notin directorio /\ metadata' = metadata /\ abierta' = abierta
        /\ est' = [est EXCEPT ![c] = "crea"]
        /\ pedido' = [pedido EXCEPT ![c] = [tabla |-> t, particiones |-> n]]
    BY <1>4 DEF CreateMira, disco
  <2>2. metadata[t] = SinMetadata /\ \A d \in Clientes : Abierto(d) => pedido[d].tabla # t
    BY <1>0, <2>1 DEF HiloInv, MetadataEnDirectorio, AbiertaEnDirectorio, Abierto
  <2>3. est'[c] = "crea" /\ pedido'[c].tabla = t
    BY <1>0, <2>1 DEF TiposClientes
  <2>4. \A d \in Clientes \ {c} : est'[d] = est[d] /\ pedido'[d] = pedido[d]
    BY <1>0, <2>1 DEF TiposClientes
  <2>5. \A d \in Clientes : Abierto(d)' => d # c /\ Abierto(d) /\ pedido'[d] = pedido[d]
    BY <2>1, <2>3, <2>4 DEF Abierto
  <2>6. ASSUME NEW d \in Clientes, est'[d] \in {"crea", "particiona"} \/ Abierto(d)'
        PROVE  /\ metadata'[pedido'[d].tabla] = SinMetadata
               /\ \A e \in Clientes :
                     Abierto(e)' /\ pedido'[e].tabla = pedido'[d].tabla => e = d
    <3>1. CASE d = c
      BY <2>1, <2>2, <2>3, <2>5, <3>1
    <3>2. CASE d # c
      <4>1. est[d] \in {"crea", "particiona"} \/ Abierto(d)
        BY <2>4, <2>5, <2>6, <3>2
      <4> QED
        BY <1>0, <2>1, <2>4, <2>5, <3>2, <4>1 DEF CreateSolo
    <3> QED
      BY <3>1, <3>2
  <2> QED
    BY <2>6 DEF CreateSolo
<1> QED
  BY <1>1, <1>2, <1>3, <1>4 DEF Pedir

LEMMA SoloSeguir ==
  ASSUME SitioInv, SinSolape, NEW c \in Clientes, Seguir(c)
  PROVE  CreateSolo'
<1>0. TiposClientes /\ TiposTablas /\ CreateSolo
  BY DEF SitioInv, TInv
<1> DEFINE t == pedido[c].tabla
<1>1. CASE SelectMuere(c) \/ DescribeMuere(c) \/ (CreateSinDir(c) /\ Morir)
  BY <1>0, <1>1, SoloQuieto DEF SelectMuere, DescribeMuere, CreateSinDir, Morir, disco, Abierto
<1>2. ASSUME NEW e \in {"reposo", "describe", "abre", "nulo", "borra", "remove", "rmdir"}, est' = [est EXCEPT ![c] = e],
             \A d \in Clientes \ {c} : pedido'[d] = pedido[d],
             \A d \in Clientes : abierta'[d] => abierta[d],
             \A u \in Tablas : metadata'[u] \in {metadata[u], SinMetadata}
      PROVE  CreateSolo'
  <2>1. est'[c] = e /\ \A d \in Clientes \ {c} : est'[d] = est[d]
    BY <1>0, <1>2 DEF TiposClientes
  <2>2. \A d \in Clientes : est'[d] \in {"crea", "particiona", "cierra"} => d # c
    BY <2>1
  <2> QED
    BY <1>0, <1>2, <2>1, <2>2, SoloQuieto DEF Abierto
<1>3. CASE \/ InsertGuarda(c) \/ SelectLee(c) \/ DescribeMira(c) \/ DescribeAbre(c)
           \/ DropBorra(c) \/ DropTermina(c) \/ CreateSinEspacio(c)
           \/ (CreateSinDir(c) /\ Responde(c) /\ abierta' = abierta)
  <2>1. /\ metadata' = metadata /\ abierta' = abierta
        /\ \E e \in {"reposo", "describe", "abre", "nulo", "borra", "remove", "rmdir"} :
              est' = [est EXCEPT ![c] = e]
    BY <1>3 DEF InsertGuarda, SelectLee, DescribeMira, DescribeAbre, DropBorra, DropTermina,
                CreateSinEspacio, CreateSinDir, disco
  <2>2. \A d \in Clientes \ {c} : pedido'[d] = pedido[d]
    BY <1>0, <1>3 DEF TiposClientes, InsertGuarda, SelectLee, DescribeMira, DescribeAbre,
                      DropBorra, DropTermina, CreateSinEspacio
  <2> QED
    BY <1>2, <2>1, <2>2
<1>4. CASE DropMetadata(c)
  <2>1. /\ est' = [est EXCEPT ![c] = "rmdir"] /\ pedido' = pedido
        /\ metadata' = [metadata EXCEPT ![t] = SinMetadata]
        /\ abierta' = [d \in Clientes |->
                         abierta[d] /\ ~(est[d] = "cierra" /\ pedido[d].tabla = t)]
    BY <1>4 DEF DropMetadata
  <2>2. \A u \in Tablas : metadata'[u] \in {metadata[u], SinMetadata}
    BY <1>0, <2>1 DEF TiposTablas
  <2>3. \A d \in Clientes : abierta'[d] => abierta[d]
    BY <2>1
  <2> QED
    BY <1>2, <2>1, <2>2, <2>3
<1>8. CASE CreateDir(c)
  <2>1. /\ est[c] = "crea" /\ est' = [est EXCEPT ![c] = "particiona"]
        /\ pedido' = pedido /\ metadata' = metadata /\ abierta' = abierta
    BY <1>8 DEF CreateDir
  <2>2. \A d \in Clientes : est'[d] \in {"crea", "particiona"} => est[d] \in {"crea", "particiona"}
    BY <1>0, <2>1 DEF TiposClientes
  <2>3. \A d \in Clientes : Abierto(d)' => Abierto(d)
    BY <1>0, <2>1 DEF TiposClientes, Abierto
  <2> QED
    BY <1>0, <2>1, <2>2, <2>3, SoloQuieto
<1>5. CASE CreateParticiones(c)
  <2>1. /\ est[c] = "particiona" /\ t \in Tablas
        /\ est' = [est EXCEPT ![c] = "cierra"] /\ abierta' = [abierta EXCEPT ![c] = TRUE]
        /\ pedido' = pedido /\ metadata' = metadata
    BY <1>0, <1>5 DEF CreateParticiones, TiposClientes, PedidoTipo
  <2>2. \A d \in Clientes \ {c} : est[d] \in {"crea", "particiona"} => pedido[d].tabla # t
    BY <2>1 DEF SinSolape
  <2>3. metadata[t] = SinMetadata /\ \A d \in Clientes : Abierto(d) => pedido[d].tabla # t
    BY <1>0, <2>1 DEF CreateSolo, Abierto
  <2>4. est'[c] = "cierra" /\ \A d \in Clientes \ {c} : est'[d] = est[d] /\ abierta'[d] = abierta[d]
    BY <1>0, <2>1 DEF TiposClientes
  <2>5. \A d \in Clientes \ {c} : Abierto(d)' <=> Abierto(d)
    BY <2>4 DEF Abierto
  <2> HIDE DEF t
  <2>6. ASSUME NEW d \in Clientes, est'[d] \in {"crea", "particiona"} \/ Abierto(d)'
        PROVE  /\ metadata'[pedido'[d].tabla] = SinMetadata
               /\ \A e \in Clientes :
                     Abierto(e)' /\ pedido'[e].tabla = pedido'[d].tabla => e = d
    <3>1. CASE d = c
      BY <2>1, <2>3, <2>5, <3>1 DEF t
    <3>2. CASE d # c
      <4>1. est[d] \in {"crea", "particiona"} \/ Abierto(d)
        BY <2>4, <2>5, <2>6, <3>2
      <4>2. pedido[d].tabla # t
        BY <2>2, <2>3, <3>2, <4>1
      <4> QED
        BY <1>0, <2>1, <2>5, <3>2, <4>1, <4>2 DEF CreateSolo, t
    <3> QED
      BY <3>1, <3>2
  <2> QED
    BY <2>6 DEF CreateSolo
<1>6. CASE CreateTermina(c)
  <2>1. /\ est[c] = "cierra" /\ t \in Tablas
        /\ est' = [est EXCEPT ![c] = "reposo"] /\ pedido' = [pedido EXCEPT ![c] = Nada]
        /\ metadata' = IF abierta[c] THEN [metadata EXCEPT ![t] = pedido[c].particiones]
                                     ELSE metadata
        /\ abierta' = [abierta EXCEPT ![c] = FALSE]
    BY <1>0, <1>6 DEF CreateTermina, TiposClientes, PedidoTipo
  <2>2. est'[c] = "reposo" /\ \A d \in Clientes \ {c} :
           est'[d] = est[d] /\ abierta'[d] = abierta[d] /\ pedido'[d] = pedido[d]
    BY <1>0, <2>1 DEF TiposClientes
  <2>3. \A d \in Clientes : Abierto(d)' => d # c /\ Abierto(d)
    BY <2>2 DEF Abierto
  <2>4. \A u \in Tablas : (abierta[c] => u # t) => metadata'[u] = metadata[u]
    BY <1>0, <2>1 DEF TiposTablas
  <2> HIDE DEF t
  <2>5. ASSUME NEW d \in Clientes, est'[d] \in {"crea", "particiona"} \/ Abierto(d)'
        PROVE  /\ metadata'[pedido'[d].tabla] = SinMetadata
               /\ \A e \in Clientes :
                     Abierto(e)' /\ pedido'[e].tabla = pedido'[d].tabla => e = d
    <3>1. d # c
      BY <2>2, <2>3, <2>5
    <3>2. (est[d] \in {"crea", "particiona"} \/ Abierto(d)) /\ pedido'[d] = pedido[d]
      BY <2>2, <2>3, <2>5, <3>1
    <3>3. pedido[d].tabla \in Tablas
      BY <1>0, <3>2 DEF TiposClientes, PedidoTipo, Abierto
    <3>4. abierta[c] => pedido[d].tabla # t
      BY <1>0, <2>1, <3>1, <3>2 DEF CreateSolo, Abierto, t
    <3> QED
      BY <1>0, <2>2, <2>3, <2>4, <3>1, <3>2, <3>3, <3>4 DEF CreateSolo
  <2> QED
    BY <2>5 DEF CreateSolo
<1>7. CreateSinDir(c) => Morir \/ (Responde(c) /\ abierta' = abierta)
  BY DEF CreateSinDir
<1> QED
  BY <1>1, <1>3, <1>4, <1>5, <1>6, <1>7, <1>8 DEF Seguir

LEMMA SoloFondo ==
  ASSUME SitioInv, Dump \/ Compactar \/ Caida \/ Arrancar \/ UNCHANGED vars
  PROVE  CreateSolo'
<1>0. TiposClientes /\ CreateSolo
  BY DEF SitioInv, TInv
<1>1. ASSUME metadata' = metadata, Morir \/ UNCHANGED clientes
      PROVE  CreateSolo'
  <2>1. CASE Morir
    BY <1>0, <1>1, <2>1, SoloQuieto DEF Morir, Abierto
  <2>2. CASE UNCHANGED clientes
    BY <1>0, <1>1, <2>2, SoloQuieto DEF clientes, Abierto
  <2> QED
    BY <1>1, <2>1, <2>2
<1>2. CASE Dump
  BY <1>1, <1>2 DEF Dump, DumpEmpieza, DumpTabla, DumpMuere, DumpTermina, disco
<1>3. CASE Compactar
  BY <1>1, <1>3 DEF Compactar, CompSale, CompRenombra, CompRenombraFalla, CompLee, CompLimpia,
                    CompRecrea, CompGuarda, CompMuere, CompTermina, disco
<1> QED
  BY <1>1, <1>2, <1>3 DEF Caida, Arrancar, vars, disco

\* Metadata changes for a table whose partitions have no rows.
LEMMA MetadataSinFilas ==
  ASSUME SitioInv, [Next]_vars, NEW t \in Tablas, metadata'[t] # metadata[t],
         NEW n \in DOMAIN archivos[t], n[1] = "bin"
  PROVE  ToSet(archivos[t][n]) = {}
<1>0. TiposClientes /\ TiposTablas
  BY DEF SitioInv, TInv
<1>1. PICK c \in Clientes : CreateTermina(c) \/ DropMetadata(c)
  <2>1. Dump \/ Compactar \/ Caida \/ Arrancar \/ UNCHANGED vars => metadata' = metadata
    BY DEF Dump, DumpEmpieza, DumpTabla, DumpMuere, DumpTermina, disco, vars,
           Compactar, CompSale, CompRenombra, CompRenombraFalla, CompLee, CompLimpia,
           CompRecrea, CompGuarda, CompMuere, CompTermina, Caida, Arrancar
  <2>2. ASSUME NEW c \in Clientes, Pedir(c)
        PROVE  metadata' = metadata
    BY <2>2 DEF Pedir, Rechaza, InsertMira, SelectMira, DescribeUna, DescribeTodas, DropMira,
                CreateMira, InsertInvalido, DescribeInvalido, disco, vars
  <2>3. ASSUME NEW c \in Clientes, Seguir(c)
        PROVE  CreateTermina(c) \/ DropMetadata(c) \/ metadata' = metadata
    BY <2>3 DEF Seguir, InsertGuarda, SelectLee, SelectMuere, DescribeMira, DescribeAbre,
                DescribeMuere, DropBorra, DropTermina, CreateDir, CreateParticiones,
                CreateSinEspacio, CreateSinDir, disco
  <2> QED
    BY <2>1, <2>2, <2>3 DEF Next
<1>2. CASE CreateTermina(c)
  <2>1. abierta[c] /\ est[c] = "cierra" /\ pedido[c].tabla = t
    BY <1>0, <1>2 DEF CreateTermina, TiposTablas
  <2>2. metadata[t] = -1
    BY <2>1 DEF SitioInv, CreateSolo, Abierto, SinMetadata
  <2> QED
    BY <2>2 DEF SitioInv, CadaUnaEnLaSuya
<1>3. CASE DropMetadata(c)
  <2>1. est[c] = "remove" /\ pedido[c].tabla = t
    BY <1>0, <1>3 DEF DropMetadata, TiposTablas
  <2> QED
    BY <2>1 DEF SitioInv, BorradaSinFilas
<1> QED
  BY <1>1, <1>2, <1>3

LEMMA CadaUnaNext ==
  ASSUME SitioInv, [Next]_vars
  PROVE  CadaUnaEnLaSuya'
<1>0. TInv /\ TiposTablas /\ TiposArchivos
  BY DEF SitioInv, TInv
<1>1. CASE ~CompGuarda
  <2> SUFFICES ASSUME NEW t \in Tablas, NEW n \in DOMAIN archivos'[t], n[1] = "bin",
                      NEW f \in ToSet(archivos'[t][n])
               PROVE  metadata'[t] > 0 /\ n = <<"bin", f.key % metadata'[t]>>
    BY DEF CadaUnaEnLaSuya, Particion
  <2>1. n \in DOMAIN archivos[t] /\ f \in ToSet(archivos[t][n])
    BY <1>0, <1>1, SoloGuardaCrece DEF NoCrecen
  <2>2. metadata[t] > 0 /\ n = Particion(t, f.key)
    BY <2>1 DEF SitioInv, CadaUnaEnLaSuya
  <2>3. metadata'[t] = metadata[t]
    BY <2>1, MetadataSinFilas
  <2> QED
    BY <2>2, <2>3 DEF Particion
<1>2. CASE CompGuarda
  <2> DEFINE u == comp.tabla
             g == Head(comp.filas)
             p == Particion(u, g.key)
  <2>1. /\ metadata[u] > 0 /\ p \in DOMAIN archivos[u] /\ metadata' = metadata
        /\ \/ archivos' = archivos
           \/ archivos' = [archivos EXCEPT ![u][p] = Append(archivos[u][p], g)]
    BY <1>2 DEF CompGuarda, Hallada, Destino
  <2>2. u \in Tablas /\ comp.filas \in Seq(Filas) /\ g \in Filas
    <3>1. u \in Tablas /\ comp.filas \in Seq(Filas)
      BY <1>0, <1>2, FaseEs DEF CompGuarda
    <3>2. comp.filas # <<>>
      BY <1>2 DEF CompGuarda
    <3> QED
      BY <3>1, <3>2
  <2>3. archivos[u][p] \in Seq(Filas)
    BY <1>0, <2>1, <2>2 DEF TiposArchivos, EsCarpeta
  <2>4. Append(archivos[u][p], g) \in Seq(Filas)
        /\ ToSet(Append(archivos[u][p], g)) = ToSet(archivos[u][p]) \cup {g}
    BY <2>2, <2>3, ToSetAgrega
  <2> SUFFICES ASSUME NEW t \in Tablas, NEW n \in DOMAIN archivos'[t], n[1] = "bin",
                      NEW f \in ToSet(archivos'[t][n])
               PROVE  metadata[t] > 0 /\ n = Particion(t, f.key)
    BY <2>1 DEF CadaUnaEnLaSuya, Particion
  <2>5. /\ DOMAIN archivos'[t] = DOMAIN archivos[t]
        /\ \/ archivos'[t][n] = archivos[t][n]
           \/ t = u /\ n = p /\ archivos'[t][n] = Append(archivos[u][p], g)
    BY ZenonT(30), <1>0, <2>1, <2>2 DEF TiposArchivos
  <2>6. \/ f \in ToSet(archivos[t][n])
        \/ t = u /\ n = p /\ f = g
    BY <2>4, <2>5
  <2>7. CASE f \in ToSet(archivos[t][n])
    BY <2>5, <2>7 DEF SitioInv, CadaUnaEnLaSuya
  <2> QED
    BY <2>1, <2>6, <2>7
<1> QED
  BY <1>1, <1>2

LEMMA BorradaNext ==
  ASSUME SitioInv, [Next]_vars
  PROVE  BorradaSinFilas'
<1>0. TInv /\ TiposClientes /\ TiposArchivos
  BY DEF SitioInv, TInv
<1> SUFFICES ASSUME NEW c \in Clientes, est'[c] = "remove"
             PROVE  \A n \in DOMAIN archivos'[pedido'[c].tabla] :
                       n[1] = "bin" => ToSet(archivos'[pedido'[c].tabla][n]) = {}
  BY DEF BorradaSinFilas
<1>1. CASE DropBorra(c)
  <2>1. pedido' = pedido /\ pedido[c].tabla \in Tablas
    BY <1>0, <1>1 DEF DropBorra, TiposClientes, PedidoTipo
  <2>2. archivos'[pedido'[c].tabla] = SinArchivos
    BY <1>0, <1>1, <2>1 DEF DropBorra, TiposArchivos
  <2> QED
    BY <2>2, CarpetaVacia
<1>2. CASE ~DropBorra(c)
  <2>1. est[c] = "remove" /\ pedido'[c] = pedido[c]
    <3>1. ASSUME NEW d \in Clientes, Pedir(d)
          PROVE  est[c] = "remove" /\ pedido'[c] = pedido[c]
      BY <1>0, <3>1 DEF TiposClientes, Pedir, Rechaza, InsertMira, SelectMira, DescribeUna,
                        DescribeTodas, DropMira, CreateMira, InsertInvalido, DescribeInvalido,
                        Morir, clientes, vars
    <3>2. ASSUME NEW d \in Clientes, Seguir(d)
          PROVE  est[c] = "remove" /\ pedido'[c] = pedido[c]
      BY <1>0, <1>2, <3>2
         DEF TiposClientes, Seguir, InsertGuarda, SelectLee, SelectMuere, DescribeMira,
             DescribeAbre, DescribeMuere, DropBorra, DropMetadata, DropTermina, CreateDir,
             CreateParticiones, CreateSinEspacio, CreateSinDir, CreateTermina, Morir
    <3>3. Dump \/ Compactar \/ Caida \/ Arrancar \/ UNCHANGED vars => Morir \/ UNCHANGED clientes
      BY DEF Dump, DumpEmpieza, DumpTabla, DumpMuere, DumpTermina, vars,
             Compactar, CompSale, CompRenombra, CompRenombraFalla, CompLee, CompLimpia,
             CompRecrea, CompGuarda, CompMuere, CompTermina, Caida, Arrancar
    <3> QED
      BY <3>1, <3>2, <3>3 DEF Next, Morir, clientes
  <2>2. ~CompGuarda
    <3>1. comp = Nada
      BY <1>0, <2>1, NadieAssumption DEF TInv, Turno
    <3> QED
      BY <3>1 DEF CompGuarda, Fase
  <2>3. pedido[c].tabla \in Tablas
    BY <1>0, <2>1 DEF TiposClientes, PedidoTipo
  <2>4. NoCrecen(archivos'[pedido[c].tabla], archivos[pedido[c].tabla])
    BY <1>0, <2>2, <2>3, SoloGuardaCrece
  <2> QED
    BY <2>1, <2>4 DEF NoCrecen, SitioInv, BorradaSinFilas
<1> QED
  BY <1>1, <1>2

LEMMA SitioNext ==
  ASSUME SitioInv, SinSolape, SinSolape', [Next]_vars
  PROVE  SitioInv'
<1>1. TInv' /\ HiloInv'
  BY TNext, HiloNext DEF SitioInv
<1>2. CreateSolo'
  BY SoloPedir, SoloSeguir, SoloFondo DEF Next
<1> QED
  BY <1>1, <1>2, CadaUnaNext, BorradaNext DEF SitioInv

\* Where the rows of a key are, when no compaction holds any.
LEMMA FilasDeClave ==
  ASSUME TInv, NEW t \in Tablas, NEW k, comp = Nada, CadaUnaEnLaSuya,
         NEW p, p = Particion(t, k), p \in DOMAIN archivos[t]
  PROVE  DeClave(FilasDe(t), k) =
            DeClave(ToSet(memtable[t]) \cup ToSet(archivos[t][p])
                      \cup UNION {ToSet(archivos[t][n]) : n \in Temporales(t)}, k)
<1>1. FilasDe(t) = ToSet(memtable[t]) \cup EnDisco(t)
  BY DEF FilasDe, EnComp
<1>2. \A n \in DOMAIN archivos[t] : n \in Temporales(t) \/ n[1] = "bin"
  BY DEF TInv, TiposArchivos, EsCarpeta, Nombres, Temporales, De
<1>3. ASSUME NEW f, f.key = k
      PROVE  f \in EnDisco(t) <=> \/ f \in ToSet(archivos[t][p])
                                  \/ \E n \in Temporales(t) : f \in ToSet(archivos[t][n])
  <2>1. f \in EnDisco(t) <=> \E n \in DOMAIN archivos[t] : f \in ToSet(archivos[t][n])
    BY DEF EnDisco
  <2>2. \A n \in DOMAIN archivos[t] : n[1] = "bin" /\ f \in ToSet(archivos[t][n]) => n = p
    BY <1>3 DEF CadaUnaEnLaSuya
  <2>3. Temporales(t) \subseteq DOMAIN archivos[t]
    BY DEF Temporales, De
  <2> QED
    BY <1>2, <2>1, <2>2, <2>3
<1>4. ASSUME NEW f
      PROVE  f \in UNION {ToSet(archivos[t][n]) : n \in Temporales(t)}
               <=> \E n \in Temporales(t) : f \in ToSet(archivos[t][n])
  OBVIOUS
<1> QED
  BY <1>1, <1>3, <1>4 DEF DeClave

LEMMA LeeLoUltimo ==
  ASSUME TInv, CadaUnaEnLaSuya, NEW c \in Clientes, SelectLee(c)
  PROVE  LET u == Ultimas(FilasDe(pedido[c].tabla), pedido[c].key)
         IN  salida'[c] \in IF u.valores = {} THEN {Nada} ELSE u.valores
<1>1. est[c] = "lee" /\ operation_mutex = Nada
  BY DEF SelectLee
<1>2. PICK t \in Tablas, k \in Claves : t = pedido[c].tabla /\ k = pedido[c].key
  BY <1>1 DEF TInv, TiposClientes, PedidoTipo
<1>3. comp = Nada
  BY <1>1, NadieAssumption DEF TInv, Turno
<1>4. EsCarpeta(archivos[t]) /\ memtable[t] \in Seq(Filas)
  BY DEF TInv, TiposArchivos, TiposTablas
<1>5. PICK p \in DOMAIN archivos[t] : p = Particion(t, k)
  BY <1>2 DEF SelectLee, Legible, Hallada
<1>6. archivos[t][p] \in Seq(Filas)
  BY <1>4 DEF EsCarpeta
<1>7. PICK x \in Leer(t, Temporales(t)) :
          salida'[c] = UltimoValor(memtable[t] \o archivos[t][p] \o x, k)
  <2>1. PICK m \in ListasDeSelect(t, k) : salida' = [salida EXCEPT ![c] = UltimoValor(m, k)]
    BY <1>2 DEF SelectLee
  <2>2. salida'[c] = UltimoValor(m, k)
    BY <2>1 DEF TInv, TiposClientes
  <2>3. PICK x \in Leer(t, Temporales(t)) : m = memtable[t] \o archivos[t][p] \o x
    BY <1>5 DEF ListasDeSelect
  <2> QED
    BY <2>2, <2>3
<1>8. IsFiniteSet(Temporales(t)) /\ \A n \in Temporales(t) : archivos[t][n] \in Seq(Filas)
  <2>1. Temporales(t) \subseteq DOMAIN archivos[t]
    BY DEF Temporales, De
  <2> QED
    BY <1>4, <2>1, FS_Subset DEF EsCarpeta
<1>9. x \in Seq(Filas) /\ ToSet(x) = UNION {ToSet(archivos[t][n]) : n \in Temporales(t)}
  BY <1>8, LeerTodo
<1> DEFINE y == memtable[t] \o archivos[t][p]
           l == y \o x
<1>10. y \in Seq(Filas) /\ ToSet(y) = ToSet(memtable[t]) \cup ToSet(archivos[t][p])
  BY <1>4, <1>6, JuntarElementos
<1> HIDE DEF y
<1>11. l \in Seq(Filas) /\ ToSet(l) = ToSet(y) \cup ToSet(x)
  BY <1>9, <1>10, JuntarElementos
<1>12. salida'[c] = UltimoValor(l, k)
  BY <1>7 DEF y
<1> HIDE DEF l
<1>13. DeClave(FilasDe(t), k) = DeClave(ToSet(l), k)
  BY <1>3, <1>4, <1>5, <1>6, <1>9, <1>10, <1>11, FilasDeClave
<1>14. Ultimas(FilasDe(t), k) = Ultimas(ToSet(l), k)
  BY <1>13, UltimasDeClave
<1> QED
  BY <1>2, <1>11, <1>12, <1>14, UltimoDeLista

\* Whatever the other clients, dumps, compactions, stops and missing blocks did
\* since its check, a SELECT returns a row of the last instant of its key among
\* all those of the table, be they in memory, in temporals or in partitions
\* (select_table_key), if no two clients make the same table at once.
THEOREM SeRespondeLoUltimo == Spec /\ []SinSolape => RespuestaUltima
<1> DEFINE A == \A c \in Clientes :
                   SelectLee(c) =>
                      LET u == Ultimas(FilasDe(pedido[c].tabla), pedido[c].key)
                      IN  salida'[c] \in IF u.valores = {} THEN {Nada} ELSE u.valores
<1>1. SitioInv => A
  BY LeeLoUltimo DEF SitioInv
<1>2. Init => SitioInv
  BY SitioInit
<1>3. SitioInv /\ SinSolape /\ SinSolape' /\ [Next]_vars => SitioInv'
  BY SitioNext
<1> HIDE DEF A
<1>4. Spec /\ []SinSolape => [][A]_vars
  BY <1>1, <1>2, <1>3, PTL DEF Spec
<1> QED
  BY <1>4 DEF A, RespuestaUltima

-----------------------------------------------------------------------------
(* LFS implements UltimoGana, while nothing fails and no request meets the *)
(* CREATE or the DROP of its table.                                        *)
(*                                                                         *)
(* Every step either leaves the rows of every table that exists, or        *)
(* replaces them by some of them that resume them (a compaction), or adds  *)
(* the row of an INSERT, or makes or removes a table.                      *)

LEMMA FilasDeTipo ==
  ASSUME TInv, NEW t \in Tablas
  PROVE  FilasDe(t) \in SUBSET Filas /\ IsFiniteSet(FilasDe(t))
<1>1. memtable[t] \in Seq(Filas) /\ EsCarpeta(archivos[t])
  BY DEF TInv, TiposTablas, TiposArchivos
<1>2. ToSet(memtable[t]) \in SUBSET Filas /\ IsFiniteSet(ToSet(memtable[t]))
  BY <1>1, FilasTipo, ListaFinita
<1>3. EnDisco(t) \in SUBSET Filas /\ IsFiniteSet(EnDisco(t))
  <2> DEFINE N == DOMAIN archivos[t]
             C == {ToSet(archivos[t][n]) : n \in N}
             f == [n \in N |-> ToSet(archivos[t][n])]
  <2>1. \A n \in N : ToSet(archivos[t][n]) \in SUBSET Filas /\ IsFiniteSet(ToSet(archivos[t][n]))
    BY <1>1, FilasTipo, ListaFinita DEF EsCarpeta
  <2>2. IsFiniteSet(N)
    BY <1>1 DEF EsCarpeta
  <2>3. f \in Surjection(N, C)
    BY DEF Surjection
  <2>4. IsFiniteSet(C)
    BY <2>2, <2>3, FS_Surjection
  <2>5. \A T \in C : IsFiniteSet(T)
    BY <2>1
  <2>6. IsFiniteSet(UNION C)
    <3> HIDE DEF C
    <3> QED
      BY <2>4, <2>5, FS_UNION
  <2> QED
    BY <2>1, <2>6 DEF EnDisco
<1>4. EnComp(t) \in SUBSET Filas /\ IsFiniteSet(EnComp(t))
  <2>1. CASE comp # Nada
    <3>1. comp.filas \in Seq(Filas)
      BY <2>1 DEF TInv, TiposTablas, Compactaciones
    <3> QED
      BY <3>1, FilasTipo, ListaFinita, FS_EmptySet DEF EnComp
  <2>2. CASE comp = Nada
    BY <2>2, FS_EmptySet DEF EnComp
  <2> QED
    BY <2>1, <2>2
<1>5. IsFiniteSet(ToSet(memtable[t]) \cup EnDisco(t))
  BY <1>2, <1>3, FS_Union
<1> QED
  BY <1>2, <1>3, <1>4, <1>5, FS_Union DEF FilasDe

\* One row more.
LEMMA UltimasConUna ==
  ASSUME NEW R \in SUBSET Filas, IsFiniteSet(R), NEW f \in Filas,
         NEW S, \A g : g \in S <=> g \in R \/ g = f
  PROVE  /\ \A k : k # f.key => Ultimas(S, k) = Ultimas(R, k)
         /\ Ultimas(S, f.key) = U!Con(Ultimas(R, f.key), f.timestamp, f.value)
<1>1. ASSUME NEW k, k # f.key PROVE Ultimas(S, k) = Ultimas(R, k)
  <2>1. DeClave(S, k) = DeClave(R, k)
    BY <1>1 DEF DeClave
  <2> QED
    BY <2>1, UltimasDeClave
<1>2. S \in SUBSET Filas /\ IsFiniteSet(S) /\ f.timestamp \in Nat /\ f.timestamp # 0
  <2>1. S = R \cup {f}
    OBVIOUS
  <2>2. S \in SUBSET Filas /\ f.timestamp \in Nat /\ f.timestamp # 0
    BY FilasTipo
  <2> QED
    BY <2>1, <2>2, FS_AddElement
<1> DEFINE k == f.key
<1>3. PICK m \in Nat, i \in Nat : m = Instante(S, k) /\ i = Instante(R, k)
  BY <1>2, InstanteEs
<1>4. DeClave(S, k) = DeClave(R, k) \cup {f} /\ \A g \in DeClave(S, k) : g.timestamp \in Nat
  BY <1>2, FilasTipo DEF DeClave
<1>5. /\ \A g \in DeClave(R, k) : g.timestamp <= i
      /\ DeClave(R, k) # {} => \E g \in DeClave(R, k) : g.timestamp = i
      /\ DeClave(R, k) = {} => i = 0
  BY <1>3, InstanteEs
<1>6. /\ \A g \in DeClave(S, k) : g.timestamp <= m
      /\ \E g \in DeClave(S, k) : g.timestamp = m
  BY <1>2, <1>3, <1>4, InstanteEs
<1>7. m = IF f.timestamp > i THEN f.timestamp ELSE i
  BY <1>2, <1>4, <1>5, <1>6
<1> DEFINE u == Ultimas(R, k)
           w == Ultimas(S, k)
<1>8. u.instante = i /\ w.instante = m
  BY <1>2, <1>3, UltimasQuienes
<1>9. /\ \A v : v \in u.valores <=> \E g \in DeClave(R, k) : g.timestamp = i /\ g.value = v
      /\ \A v : v \in w.valores <=> \E g \in DeClave(S, k) : g.timestamp = m /\ g.value = v
  <2>1. \A v : v \in u.valores <=> \E g \in DeClave(R, k) : g.timestamp = i /\ g.value = v
    BY <1>3, UltimasQuienes
  <2>2. \A v : v \in w.valores <=> \E g \in DeClave(S, k) : g.timestamp = m /\ g.value = v
    <3>1. S \in SUBSET Filas /\ m = Instante(S, k)
      BY <1>2, <1>3
    <3> HIDE DEF k
    <3> QED
      BY <3>1 DEF Ultimas, DeClave
  <2> QED
    BY <2>1, <2>2
<1>10. /\ u = [instante |-> u.instante, valores |-> u.valores]
       /\ w = [instante |-> w.instante, valores |-> w.valores]
  BY DEF Ultimas
<1> HIDE DEF u, w
<1>11. CASE f.timestamp > i
  <2>1. m = f.timestamp
    BY <1>7, <1>11
  <2>2. \A v : v \in w.valores <=> v = f.value
    <3>1. \A g \in DeClave(R, k) : g.timestamp # m
      BY <1>2, <1>3, <1>4, <1>5, <1>11, <2>1
    <3>2. f \in DeClave(S, k) /\ \A g \in DeClave(S, k) : g.timestamp = m => g = f
      BY <1>4, <3>1
    <3> QED
      BY <1>9, <2>1, <3>2
  <2>3. w.valores = {f.value}
    BY <2>2
  <2> QED
    BY <1>1, <1>8, <1>10, <1>11, <2>1, <2>3 DEF U!Con, u, w
<1>12. CASE f.timestamp = i
  <2>1. m = i
    BY <1>3, <1>7, <1>12
  <2>2. \A v : v \in w.valores <=> v \in u.valores \cup {f.value}
    BY <1>4, <1>9, <1>12, <2>1
  <2>3. w.valores = u.valores \cup {f.value}
    BY <2>2
  <2>4. ~(f.timestamp > i)
    BY <1>3, <1>12
  <2>5. w = [u EXCEPT !.valores = @ \cup {f.value}]
    BY <1>8, <1>10, <2>1, <2>3
  <2> QED
    BY <1>1, <1>8, <1>12, <2>4, <2>5 DEF U!Con, u, w
<1>13. CASE f.timestamp < i
  <2>1. m = i /\ ~(f.timestamp > i) /\ f.timestamp # i
    BY <1>2, <1>3, <1>7, <1>13
  <2>2. \A v : v \in w.valores <=> v \in u.valores
    BY <1>4, <1>9, <2>1
  <2>3. w.valores = u.valores
    BY <2>2
  <2>4. w = u
    BY <1>8, <1>10, <2>1, <2>3
  <2> QED
    BY <1>1, <1>8, <2>1, <2>4 DEF U!Con, u, w
<1> QED
  BY <1>2, <1>3, <1>11, <1>12, <1>13

\* Some rows that resume the others.
LEMMA UltimasResumen ==
  ASSUME NEW S \in SUBSET Filas, IsFiniteSet(S), NEW R, Resume(R, S), NEW k
  PROVE  /\ Ultimas(R, k).instante = Ultimas(S, k).instante
         /\ Ultimas(R, k).valores \subseteq Ultimas(S, k).valores
         /\ Ultimas(S, k).valores # {} => Ultimas(R, k).valores # {}
<1>1. R \in SUBSET Filas /\ IsFiniteSet(R)
  BY FS_Subset DEF Resume
<1>2. PICK m \in Nat, i \in Nat : m = Instante(S, k) /\ i = Instante(R, k)
  BY <1>1, InstanteEs
<1>3. /\ \A g \in DeClave(R, k) : g.timestamp <= i
      /\ DeClave(R, k) # {} => \E g \in DeClave(R, k) : g.timestamp = i
      /\ DeClave(R, k) = {} => i = 0
  BY <1>1, <1>2, InstanteEs
<1>4. /\ \A g \in DeClave(S, k) : g.timestamp <= m
      /\ DeClave(S, k) # {} => \E g \in DeClave(S, k) : g.timestamp = m
      /\ DeClave(S, k) = {} => m = 0
  BY <1>2, InstanteEs
<1>5. /\ DeClave(R, k) \subseteq DeClave(S, k)
      /\ \A f \in DeClave(S, k) : \E g \in DeClave(R, k) : f.timestamp <= g.timestamp
      /\ \A f \in DeClave(S, k) : f.timestamp \in Nat
  BY FilasTipo DEF DeClave, Resume
<1>6. m = i
  <2>1. CASE DeClave(S, k) = {}
    BY <1>3, <1>4, <1>5, <2>1
  <2>2. CASE DeClave(S, k) # {}
    <3>1. PICK f \in DeClave(S, k) : f.timestamp = m
      BY <1>4, <2>2
    <3>2. PICK g \in DeClave(R, k) : f.timestamp <= g.timestamp
      BY <1>5
    <3>3. g.timestamp <= m /\ g.timestamp <= i /\ g.timestamp \in Nat
      BY <1>3, <1>4, <1>5
    <3>4. PICK h \in DeClave(R, k) : h.timestamp = i
      BY <1>3, <3>2
    <3>5. i <= m
      BY <1>4, <1>5, <3>4
    <3> QED
      BY <1>2, <3>1, <3>2, <3>3, <3>5
  <2> QED
    BY <2>1, <2>2
<1>7. Ultimas(R, k).instante = i /\ Ultimas(S, k).instante = m
  BY <1>1, <1>2, UltimasQuienes
<1>8. /\ \A v : v \in Ultimas(R, k).valores <=>
            \E g \in DeClave(R, k) : g.timestamp = i /\ g.value = v
      /\ \A v : v \in Ultimas(S, k).valores <=>
            \E g \in DeClave(S, k) : g.timestamp = m /\ g.value = v
  BY <1>1, <1>2, UltimasQuienes
<1>9. Ultimas(S, k).valores # {} => Ultimas(R, k).valores # {}
  <2> SUFFICES ASSUME Ultimas(S, k).valores # {} PROVE Ultimas(R, k).valores # {}
    OBVIOUS
  <2>1. DeClave(R, k) # {}
    BY <1>5, <1>8
  <2> QED
    BY <1>3, <1>8, <2>1
<1> QED
  BY <1>5, <1>6, <1>7, <1>8, <1>9

\* The steps of the abstract register, told by the rows of each table.
LEMMA UOlvida ==
  ASSUME TInv, (directorio \ Borrandose)' = directorio \ Borrandose,
         \A t \in directorio \ Borrandose : Resume(FilasDe(t)', FilasDe(t))
  PROVE  U!Next
<1>1. ASSUME NEW t \in directorio \ Borrandose, NEW k \in Claves
      PROVE  /\ Ultimas(FilasDe(t)', k).instante = Ultimas(FilasDe(t), k).instante
             /\ Ultimas(FilasDe(t)', k).valores \subseteq Ultimas(FilasDe(t), k).valores
             /\ Ultimas(FilasDe(t), k).valores # {} => Ultimas(FilasDe(t)', k).valores # {}
  <2>1. t \in Tablas
    BY DEF TInv, TiposTablas
  <2>2. FilasDe(t) \in SUBSET Filas /\ IsFiniteSet(FilasDe(t))
    BY <2>1, FilasDeTipo
  <2>3. PICK R, S : R = FilasDe(t)' /\ S = FilasDe(t)
    OBVIOUS
  <2> QED
    BY <2>2, <2>3, UltimasResumen
<1>2. \A t \in directorio \ Borrandose : t \in Tablas
  BY DEF TInv, TiposTablas
<1>3. \A t \in Tablas, k \in Claves : Ultimas(FilasDe(t), k)' = Ultimas(FilasDe(t)', k)
  BY DEF Ultimas, Instante
<1>4. U!Olvidar
  BY <1>1, <1>2, <1>3 DEF U!Olvidar
<1> QED
  BY <1>4 DEF U!Next

\* The rows of some tables that exist did not change.
LEMMA UConserva ==
  ASSUME NEW T \in SUBSET Tablas,
         \A t \in T \cap (directorio \ Borrandose) : FilasDe(t)' = FilasDe(t)
  PROVE  U!Conserva(T)
<1>1. \A t \in Tablas, k \in Claves : Ultimas(FilasDe(t), k)' = Ultimas(FilasDe(t)', k)
  BY DEF Ultimas, Instante
<1>2. \A t \in T \cap (directorio \ Borrandose), k \in Claves :
         Ultimas(FilasDe(t), k)' = Ultimas(FilasDe(t), k)
  BY <1>1
<1> QED
  BY <1>2 DEF U!Conserva

LEMMA UInserta ==
  ASSUME TInv, (directorio \ Borrandose)' = directorio \ Borrandose,
         NEW t \in Tablas, t \in directorio \ Borrandose, NEW f \in Filas,
         \A g : g \in FilasDe(t)' <=> g \in FilasDe(t) \/ g = f,
         \A d \in Tablas \ {t} : FilasDe(d)' = FilasDe(d)
  PROVE  U!Next
<1>1. U!Conserva(Tablas \ {t})
  BY UConserva
<1>2. FilasDe(t) \in SUBSET Filas /\ IsFiniteSet(FilasDe(t))
  BY FilasDeTipo
<1>3. PICK R, S : R = FilasDe(t) /\ S = FilasDe(t)'
  OBVIOUS
<1>4. /\ \A k : k # f.key => Ultimas(S, k) = Ultimas(R, k)
      /\ Ultimas(S, f.key) = U!Con(Ultimas(R, f.key), f.timestamp, f.value)
  <2>1. R \in SUBSET Filas /\ IsFiniteSet(R) /\ \A g : g \in S <=> g \in R \/ g = f
    BY <1>2, <1>3
  <2> QED
    BY <2>1, UltimasConUna
<1>5. \A k \in Claves : Ultimas(FilasDe(t), k)' = Ultimas(S, k) /\ Ultimas(FilasDe(t), k) = Ultimas(R, k)
  BY <1>3 DEF Ultimas, Instante
<1>6. f.key \in Claves /\ f.timestamp \in Instantes /\ f.value \in Valores
  BY DEF Filas
<1> DEFINE viejo == [k \in Claves |-> Ultimas(FilasDe(t), k)]
           nuevo == [k \in Claves |-> Ultimas(FilasDe(t), k)']
<1>7. nuevo = [viejo EXCEPT ![f.key] = U!Con(@, f.timestamp, f.value)]
  <2>1. PICK c : c = U!Con(Ultimas(R, f.key), f.timestamp, f.value)
    OBVIOUS
  <2>2. \A k \in Claves : nuevo[k] = IF k = f.key THEN c ELSE viejo[k]
    BY <1>4, <1>5, <2>1
  <2>3. nuevo = [viejo EXCEPT ![f.key] = c]
    BY <1>6, <2>2
  <2> QED
    BY <1>5, <1>6, <2>1, <2>3
<1>8. U!Insertar(t, f.key, f.timestamp, f.value)
  BY <1>1, <1>7 DEF U!Insertar
<1> QED
  BY <1>6, <1>8 DEF U!Next

LEMMA UCrea ==
  ASSUME NEW t \in Tablas, t \notin directorio \ Borrandose,
         (directorio \ Borrandose)' = (directorio \ Borrandose) \cup {t},
         FilasDe(t)' = {},
         \A d \in Tablas : d \in directorio \ Borrandose => FilasDe(d)' = FilasDe(d)
  PROVE  U!Next
<1>1. U!Conserva(Tablas)
  BY UConserva
<1>2. ASSUME NEW k \in Claves PROVE Ultimas(FilasDe(t), k)' = U!Ninguno
  <2>1. Ultimas(FilasDe(t), k)' = Ultimas({}, k)
    BY DEF Ultimas, Instante
  <2>2. Instante({}, k) = 0
    BY InstanteEs, FS_EmptySet DEF DeClave
  <2>3. {f.value : f \in {f \in {} : f.key = k /\ f.timestamp = Instante({}, k)}} = {}
    OBVIOUS
  <2> QED
    BY <2>1, <2>2, <2>3 DEF Ultimas, U!Ninguno
<1>3. U!Crear(t)
  BY <1>1, <1>2 DEF U!Crear
<1> QED
  BY <1>3 DEF U!Next

LEMMA UBorra ==
  ASSUME NEW t \in Tablas,
         (directorio \ Borrandose)' = (directorio \ Borrandose) \ {t},
         \A d \in Tablas \ {t} : FilasDe(d)' = FilasDe(d)
  PROVE  U!Next
<1>1. U!Conserva(Tablas \ {t})
  BY UConserva
<1>2. U!Borrar(t)
  BY <1>1 DEF U!Borrar
<1> QED
  BY <1>2 DEF U!Next

\* What the compaction holds before clean_blocks: nothing, and then rows that
\* resume those of the files, which are still there.
Leido ==
    comp # Nada =>
        /\ comp.fase \in {"lee", "limpia"} => De(comp.tabla, {"tmp"}) = {}
        /\ comp.fase = "lee" => comp.filas = <<>>
        /\ comp.fase = "limpia" => Resume(ToSet(comp.filas), EnDisco(comp.tabla))

RegistroInv == VivoInv /\ RestosInv /\ Leido

LEMMA LeidoIgual ==
  ASSUME Leido, comp' = comp,
         comp # Nada => archivos'[comp.tabla] = archivos[comp.tabla]
  PROVE  Leido'
<1> SUFFICES ASSUME comp # Nada PROVE Leido'
  BY DEF Leido
<1>1. De(comp.tabla, {"tmp"})' = De(comp.tabla, {"tmp"}) /\ EnDisco(comp.tabla)' = EnDisco(comp.tabla)
  BY DEF De, EnDisco
<1> QED
  BY <1>1 DEF Leido

\* After the renaming no .tmp is left.
LEMMA RenombraLee ==
  ASSUME TInv, NEW t \in Tablas, CompRenombra(t)
  PROVE  /\ Leido' /\ comp' # Nada /\ comp'.tabla = t /\ comp'.fase = "lee"
         /\ archivos' = [archivos EXCEPT ![t] = Renombrados(t)]
         /\ EsCarpeta(archivos[t]) /\ EsCarpeta(Renombrados(t))
<1>1. comp' = [tabla |-> t, fase |-> "lee", filas |-> <<>>, particiones |-> 0]
  BY DEF CompRenombra
<1>2. archivos' = [archivos EXCEPT ![t] = Renombrados(t)] /\ EsCarpeta(archivos[t])
  BY DEF CompRenombra, TInv, TiposArchivos
<1>3. archivos'[t] = Renombrados(t) /\ EsCarpeta(Renombrados(t))
  BY <1>2, CarpetaRenombra DEF TInv, TiposArchivos
<1>4. \A m \in DOMAIN Renombrados(t) : m[1] # "tmp"
  BY <1>2, <1>3, CarpetaRenombra DEF EsCarpeta
<1>5. De(t, {"tmp"})' = {}
  BY <1>3, <1>4 DEF De
<1>6. comp' \in Compactaciones
  BY <1>1 DEF Compactaciones
<1>7. comp' # Nada
  BY <1>6, NadaAssumption
<1> QED
  BY <1>1, <1>2, <1>3, <1>5, <1>7 DEF Leido

\* Without a .tmp the partitions and the .tmpc are all of the files.
LEMMA LeeResume ==
  ASSUME TInv, Leido, CompLee
  PROVE  /\ Leido' /\ comp' # Nada /\ comp'.tabla = comp.tabla /\ comp'.fase = "limpia"
         /\ archivos' = archivos
<1>1. Fase("lee") /\ archivos' = archivos
  BY DEF CompLee, disco
<1>2. PICK t \in Tablas : t = comp.tabla /\ comp \in Compactaciones /\ comp # Nada /\ comp.fase = "lee"
  BY <1>1, FaseEs
<1>3. EsCarpeta(archivos[t]) /\ De(t, {"tmp"}) = {}
  BY <1>2 DEF Leido, TInv, TiposArchivos
<1> DEFINE N == De(t, {"bin", "tmpc"})
<1>4. N = DOMAIN archivos[t]
  BY <1>3 DEF De, EsCarpeta, Nombres
<1>5. PICK l \in Leer(t, N) : comp' = [comp EXCEPT !.fase = "limpia", !.filas = UltimasFilas(l)]
  BY <1>2 DEF CompLee
<1>6. l \in Seq(Filas) /\ ToSet(l) = EnDisco(t)
  <2>1. IsFiniteSet(N) /\ \A n \in N : archivos[t][n] \in Seq(Filas)
    BY <1>3, <1>4 DEF EsCarpeta
  <2>2. EnDisco(t) = UNION {ToSet(archivos[t][n]) : n \in N}
    BY <1>4 DEF EnDisco
  <2> HIDE DEF N
  <2> QED
    BY <2>1, <2>2, LeerTodo
<1>7. UltimasFilas(l) \in Seq(Filas) /\ Resume(ToSet(UltimasFilas(l)), EnDisco(t))
  BY <1>6, UltimasSon
<1>8. comp'.tabla = t /\ comp'.fase = "limpia" /\ comp'.filas = UltimasFilas(l)
  BY <1>2, <1>5 DEF Compactaciones
<1>9. De(t, {"tmp"})' = {} /\ EnDisco(t)' = EnDisco(t)
  BY <1>1, <1>3 DEF De, EnDisco
<1>10. comp' \in Compactaciones
  BY <1>2, <1>5, <1>7 DEF Compactaciones
<1>11. comp' # Nada
  BY <1>10, NadaAssumption
<1> QED
  BY <1>1, <1>2, <1>7, <1>8, <1>9, <1>11 DEF Leido

LEMMA LeidoNext ==
  ASSUME SinFallas, VivoInv, Leido, [Next]_vars
  PROVE  Leido'
<1>0. TInv /\ (comp # Nada => comp.tabla \in Tablas /\ metadata[comp.tabla] # SinMetadata)
  BY DEF VivoInv, Compacta, TInv, TiposTablas, Compactaciones
<1>1. CASE comp' = Nada
  BY <1>1 DEF Leido
<1>2. CASE UNCHANGED <<comp, archivos>>
  BY <1>2, LeidoIgual
<1>3. ASSUME NEW c \in Clientes, Pedir(c)
      PROVE  UNCHANGED <<comp, archivos>> \/ comp' = Nada
  BY <1>3 DEF Pedir, Rechaza, InsertMira, SelectMira, DescribeUna, DescribeTodas, DropMira,
              CreateMira, InsertInvalido, DescribeInvalido, Morir, disco, vars
<1>4. ASSUME NEW c \in Clientes, Seguir(c)
      PROVE  Leido'
  <2>1. CASE DropBorra(c)
    BY <1>0, <1>1, <2>1, NadieAssumption DEF DropBorra, TInv, Turno
  <2>2. CASE CreateParticiones(c)
    <3>1. est[c] = "particiona" /\ comp' = comp
      BY <2>2 DEF CreateParticiones
    <3>2. comp # Nada => comp.tabla # pedido[c].tabla
      BY <1>0, <3>1, LoQueSabe DEF Conoce
    <3>3. comp # Nada => archivos'[comp.tabla] = archivos[comp.tabla]
      BY <1>0, <2>2, <3>2 DEF CreateParticiones, TInv, TiposArchivos
    <3> QED
      BY <3>1, <3>3, LeidoIgual
  <2> QED
    BY <1>1, <1>2, <1>4, <2>1, <2>2
       DEF Seguir, InsertGuarda, SelectLee, SelectMuere, DescribeMira, DescribeAbre,
           DescribeMuere, DropMetadata, DropTermina, CreateDir, CreateSinEspacio,
           CreateSinDir, CreateTermina, Morir, disco
<1>5. CASE Dump
  <2>1. ASSUME NEW t \in Tablas, DumpTabla(t)
        PROVE  comp' = Nada
    BY <1>0, <2>1 DEF DumpTabla, TInv, Turno
  <2> QED
    BY <1>1, <1>2, <1>5, <2>1 DEF Dump, DumpEmpieza, DumpMuere, DumpTermina, Morir, disco
<1>6. CASE Compactar
  <2>1. ASSUME NEW t \in Tablas, CompRenombra(t)
        PROVE  Leido'
    BY <1>0, <2>1, RenombraLee
  <2>2. CASE CompLee
    BY <1>0, <2>2, LeeResume
  <2>3. CASE CompLimpia \/ CompRecrea \/ CompGuarda
    <3>1. \E f : Fase(f) /\ f \in {"limpia", "recrea", "guarda"}
      BY <2>3 DEF CompLimpia, CompRecrea, CompGuarda
    <3>2. comp \in Compactaciones /\ comp.fase \in {"limpia", "recrea", "guarda"}
      BY <3>1, EnFase
    <3>3. comp'.fase \in {"recrea", "guarda"}
      BY <2>3, <3>2 DEF CompLimpia, CompRecrea, CompGuarda, Compactaciones, Fase
    <3> QED
      BY <3>3 DEF Leido
  <2>4. ~\E t \in Tablas : CompRenombraFalla(t)
    BY DEF CompRenombraFalla, Falla, SinFallas, VivoInv
  <2> QED
    BY <1>1, <1>2, <1>6, <2>1, <2>2, <2>3, <2>4
       DEF Compactar, CompSale, CompMuere, CompTermina, Morir, disco
<1>7. CASE Caida \/ Arrancar \/ UNCHANGED vars
  BY <1>1, <1>2, <1>7 DEF Caida, Arrancar, Morir, vars, disco
<1> QED
  BY <1>1, <1>2, <1>3, <1>4, <1>5, <1>6, <1>7 DEF Next

LEMMA UIgual ==
  ASSUME TInv, (directorio \ Borrandose)' = directorio \ Borrandose,
         \A t \in Tablas : FilasDe(t)' = FilasDe(t)
  PROVE  U!Next
<1>1. ASSUME NEW t \in directorio \ Borrandose PROVE Resume(FilasDe(t)', FilasDe(t))
  <2>1. t \in Tablas
    BY DEF TInv, TiposTablas
  <2>2. FilasDe(t) \in SUBSET Filas /\ FilasDe(t)' = FilasDe(t)
    BY <2>1, FilasDeTipo
  <2>3. \A f \in FilasDe(t) : f.timestamp <= f.timestamp
    BY <2>2, FilasTipo
  <2> QED
    BY <2>2, <2>3 DEF Resume
<1> QED
  BY <1>1, UOlvida

\* A DROP of the client has the mutex.
Borra(c) == est[c] \in {"remove", "rmdir"}

\* Only the holder of operation_mutex is removing a table.
LEMMA BorrandoseEs ==
  ASSUME TInv, NEW c \in Clientes
  PROVE  /\ operation_mutex = Nada => Borrandose = {}
         /\ Borra(c) => Borrandose = {pedido[c].tabla}
         /\ ~Borra(c) /\ ~Borra(c)' /\ LosDemas(c) => Borrandose' = Borrandose
         /\ operation_mutex = Nada /\ Borra(c)' /\ LosDemas(c)
               => Borrandose' = {pedido'[c].tabla}
         /\ Borra(c) /\ Borra(c)' /\ LosDemas(c) => Borrandose' = {pedido'[c].tabla}
         /\ Borra(c) /\ ~Borra(c)' /\ LosDemas(c) => Borrandose' = {}
<1>1. \A d \in Clientes : Borra(d) => operation_mutex = d /\ operation_mutex # Nada
  BY NadieAssumption DEF TInv, Turno, Borra
<1>2. LosDemas(c) => \A d \in Clientes \ {c} : (Borra(d)' <=> Borra(d)) /\ pedido'[d] = pedido[d]
  BY DEF LosDemas, Borra
<1>3. /\ \A x : x \in Borrandose <=> \E d \in Clientes : Borra(d) /\ x = pedido[d].tabla
      /\ \A x : x \in Borrandose' <=> \E d \in Clientes : Borra(d)' /\ x = pedido'[d].tabla
  BY DEF Borrandose, Borra
<1>4. operation_mutex = Nada => Borrandose = {}
  BY <1>1, <1>3
<1>5. Borra(c) => Borrandose = {pedido[c].tabla}
  BY <1>1, <1>3
<1>6. ASSUME ~Borra(c), ~Borra(c)', LosDemas(c)
      PROVE  Borrandose' = Borrandose
  <2>1. \A d \in Clientes : (Borra(d)' <=> Borra(d)) /\ (Borra(d) => pedido'[d] = pedido[d])
    BY <1>2, <1>6
  <2> QED
    BY <1>3, <2>1
<1>7. ASSUME operation_mutex = Nada \/ Borra(c), Borra(c)', LosDemas(c)
      PROVE  Borrandose' = {pedido'[c].tabla}
  <2>1. \A d \in Clientes : Borra(d)' <=> d = c
    BY <1>1, <1>2, <1>7
  <2> QED
    BY <1>3, <2>1
<1>8. ASSUME Borra(c), ~Borra(c)', LosDemas(c)
      PROVE  Borrandose' = {}
  <2>1. \A d \in Clientes : ~Borra(d)'
    BY <1>1, <1>2, <1>8
  <2> QED
    BY <1>3, <2>1
<1> QED
  BY <1>4, <1>5, <1>6, <1>7, <1>8

LEMMA RegistroPedir ==
  ASSUME SinFallas, VivoInv, VivoInv', NEW c \in Clientes, Pedir(c)
  PROVE  U!Next
<1>1. TInv /\ DOMAIN est = Clientes /\ DOMAIN pedido = Clientes
  BY DEF VivoInv, TInv, TiposClientes
<1>2. est[c] = "reposo" /\ ~Borra(c)' /\ UNCHANGED <<directorio, archivos, memtable, comp>>
      /\ LosDemas(c)
  <2>1. CASE Rechaza(c)
    BY <2>1 DEF Rechaza, Ocioso, vars, disco, clientes, LosDemas, Borra
  <2>2. CASE ~Rechaza(c)
    BY <1>1, <2>2
       DEF Pedir, InsertMira, SelectMira, DescribeUna, DescribeTodas, DropMira, CreateMira,
           SinFallas, Ocioso, disco, LosDemas, Borra
  <2> QED
    BY <2>1, <2>2
<1>3. Borrandose' = Borrandose
  BY <1>1, <1>2, BorrandoseEs DEF Borra
<1>4. \A d \in Tablas : FilasDe(d)' = FilasDe(d)
  BY <1>2 DEF FilasDe, EnDisco, EnComp
<1> QED
  BY <1>1, <1>2, <1>3, <1>4, UIgual

LEMMA RegistroSeguir ==
  ASSUME SinFallas, SinCruce, VivoInv, VivoInv', NEW c \in Clientes, Seguir(c)
  PROVE  U!Next
<1>1. TInv /\ DOMAIN est = Clientes /\ DOMAIN pedido = Clientes /\ vivo' /\ Sabe(c)
  BY DEF VivoInv, TInv, TiposClientes
<1>2. PedidoTipo(est[c], pedido[c])
  BY <1>1 DEF TInv, TiposClientes
<1>3. LosDemas(c)
  BY <1>1 DEF Seguir, InsertGuarda, SelectLee, SelectMuere, DescribeMira, DescribeAbre,
              DescribeMuere, DropBorra, DropMetadata, DropTermina, CreateDir, CreateParticiones,
              CreateSinEspacio, CreateSinDir, CreateTermina, Morir, LosDemas
<1>4. CASE InsertGuarda(c)
  <2>1. est[c] = "guarda" /\ est'[c] = "reposo"
    BY <1>1, <1>4 DEF InsertGuarda
  <2>2. PICK t \in Tablas, f \in Filas : t = pedido[c].tabla /\ f = pedido[c].fila
    BY <1>2, <2>1 DEF PedidoTipo
  <2>3. t \in directorio
    <3>1. metadata[t] # SinMetadata
      BY <2>1, <2>2, LoQueSabe DEF Conoce
    <3> QED
      BY <3>1 DEF VivoInv, Mesas, EnUso
  <2>4. /\ memtable[t] \in Seq(Filas) /\ memtable'[t] = Append(memtable[t], f)
        /\ \A d \in Tablas \ {t} : memtable'[d] = memtable[d]
        /\ UNCHANGED <<directorio, archivos, comp>>
    BY <1>1, <1>4, <2>2 DEF InsertGuarda, disco, TInv, TiposTablas
  <2>5. \A d : EnComp(d)' = EnComp(d) /\ EnDisco(d)' = EnDisco(d)
    BY <2>4 DEF EnComp, EnDisco
  <2>6. \A d \in Tablas \ {t} : FilasDe(d)' = FilasDe(d)
    BY <2>4, <2>5 DEF FilasDe
  <2>7. ToSet(memtable'[t]) = ToSet(memtable[t]) \cup {f}
    BY <2>4, AgregarElemento
  <2>8. \A g : g \in FilasDe(t)' <=> g \in FilasDe(t) \/ g = f
    BY <2>5, <2>7 DEF FilasDe
  <2>9. Borrandose = {} /\ Borrandose' = Borrandose
    BY <1>1, <1>3, <1>4, <2>1, BorrandoseEs DEF InsertGuarda, Borra
  <2> QED
    BY <1>1, <2>3, <2>4, <2>6, <2>8, <2>9, UInserta
<1>5. CASE SelectLee(c) \/ DescribeMira(c) \/ DescribeAbre(c) \/ CreateTermina(c)
  <2>1. est[c] \in {"lee", "describe", "abre", "cierra"}
        /\ est'[c] \in {"reposo", "describe", "abre", "nulo"}
        /\ UNCHANGED <<directorio, archivos, memtable, comp>>
    BY <1>1, <1>5 DEF SelectLee, DescribeMira, DescribeAbre, CreateTermina, disco
  <2>2. \A d \in Tablas : FilasDe(d)' = FilasDe(d)
    BY <2>1 DEF FilasDe, EnDisco, EnComp
  <2>3. Borrandose' = Borrandose
    BY <1>1, <1>3, <2>1, BorrandoseEs DEF Borra
  <2> QED
    BY <1>1, <2>1, <2>2, <2>3, UIgual
<1>6. CASE DropBorra(c)
  <2>1. est[c] = "borra" /\ est'[c] = "remove" /\ UNCHANGED <<directorio, pedido, comp>>
    BY <1>1, <1>6 DEF DropBorra
  <2>2. PICK t \in Tablas : t = pedido[c].tabla
    BY <1>2, <2>1 DEF PedidoTipo
  <2>3. \A d \in Tablas \ {t} : memtable'[d] = memtable[d] /\ archivos'[d] = archivos[d]
    BY <1>1, <1>6, <2>2 DEF DropBorra, TInv, TiposTablas, TiposArchivos
  <2>4. \A d \in Tablas \ {t} : FilasDe(d)' = FilasDe(d)
    BY <2>1, <2>3 DEF FilasDe, EnDisco, EnComp
  <2>5. Borrandose = {} /\ Borrandose' = {t}
    BY <1>1, <1>3, <1>6, <2>1, <2>2, BorrandoseEs DEF DropBorra, Borra
  <2> QED
    BY <2>1, <2>4, <2>5, UBorra
<1>7. CASE DropMetadata(c)
  <2>1. est[c] = "remove" /\ est'[c] = "rmdir"
        /\ UNCHANGED <<directorio, archivos, memtable, comp, pedido>>
    BY <1>1, <1>7 DEF DropMetadata
  <2>2. \A d \in Tablas : FilasDe(d)' = FilasDe(d)
    BY <2>1 DEF FilasDe, EnDisco, EnComp
  <2>3. Borrandose' = Borrandose
    BY <1>1, <1>3, <2>1, BorrandoseEs DEF Borra
  <2> QED
    BY <1>1, <2>1, <2>2, <2>3, UIgual
<1>8. CASE DropTermina(c)
  <2>1. est[c] = "rmdir" /\ est'[c] = "reposo" /\ UNCHANGED <<archivos, memtable, comp>>
    BY <1>1, <1>8 DEF DropTermina
  <2>2. PICK t \in Pide(c) : t = pedido[c].tabla /\ t \in Tablas /\ Conoce(c, t)
    BY <2>1, LoQueSabe
  <2>3. ~SigueAbierta(t)
    <3> SUFFICES ASSUME NEW d \in Clientes, est[d] = "cierra", pedido[d].tabla = t PROVE FALSE
      BY DEF SigueAbierta
    <3>1. t \in Pide(d) /\ d # c
      BY <2>1, <2>2 DEF Pide
    <3> QED
      BY <2>1, <2>2, <3>1 DEF SinCruce
  <2>4. directorio' = directorio \ {t}
    BY <1>8, <2>1, <2>2, <2>3 DEF DropTermina, Conoce
  <2>5. \A d \in Tablas : FilasDe(d)' = FilasDe(d)
    BY <2>1 DEF FilasDe, EnDisco, EnComp
  <2>6. Borrandose = {t} /\ Borrandose' = {}
    BY <1>1, <1>3, <2>1, <2>2, BorrandoseEs DEF Borra
  <2>7. (directorio \ Borrandose)' = directorio \ Borrandose
    BY <2>4, <2>6
  <2> QED
    BY <1>1, <2>5, <2>7, UIgual
<1>9. CASE CreateDir(c)
  <2>1. est[c] = "crea" /\ est'[c] = "particiona" /\ UNCHANGED <<archivos, memtable, comp>>
    BY <1>1, <1>9 DEF CreateDir
  <2>2. PICK t \in Pide(c) : t = pedido[c].tabla /\ t \in Tablas /\ t \notin directorio
    BY <2>1, LoQueSabe DEF Conoce
  <2>3. directorio' = directorio \cup {t}
    BY <1>9, <2>2 DEF CreateDir
  <2>4. metadata[t] = SinMetadata /\ archivos[t] = SinArchivos /\ memtable[t] = <<>>
    BY <2>2 DEF VivoInv, Mesas, SinUsar, EnUso
  <2>5. comp # Nada => comp.tabla # t
    BY <2>4 DEF VivoInv, Compacta
  <2>6. FilasDe(t) = {}
    <3>1. EnDisco(t) = {}
      BY <2>4, CarpetaVacia DEF EnDisco
    <3> QED
      BY <2>4, <2>5, <3>1, ListaVacia DEF FilasDe, EnComp
  <2>7. \A d \in Tablas : FilasDe(d)' = FilasDe(d)
    BY <2>1 DEF FilasDe, EnDisco, EnComp
  <2>8. t \notin Borrandose
    <3> SUFFICES ASSUME NEW d \in Clientes, Borra(d), pedido[d].tabla = t PROVE FALSE
      BY DEF Borrandose, Borra
    <3>1. t \in Pide(d) /\ d # c
      BY <2>1, <2>2 DEF Pide, Borra
    <3> QED
      BY <2>1, <2>2, <3>1 DEF SinCruce
  <2>9. Borrandose' = Borrandose
    BY <1>1, <1>3, <2>1, BorrandoseEs DEF Borra
  <2>10. (directorio \ Borrandose)' = (directorio \ Borrandose) \cup {t}
    BY <2>3, <2>8, <2>9
  <2>11. FilasDe(t)' = {}
    BY <2>2, <2>6, <2>7
  <2> QED
    BY <2>2, <2>7, <2>10, <2>11, UCrea
<1>10. CASE CreateParticiones(c)
  <2>1. est[c] = "particiona" /\ est'[c] = "cierra" /\ UNCHANGED <<directorio, metadata, memtable, comp, pedido>>
    BY <1>1, <1>10 DEF CreateParticiones
  <2>2. PICK t \in Pide(c) : t = pedido[c].tabla /\ t \in Tablas /\ Conoce(c, t)
    BY <2>1, LoQueSabe
  <2>3. archivos[t] = SinArchivos /\ metadata[t] = SinMetadata
    BY <2>1, <2>2 DEF Conoce
  <2>4. \A d \in Tablas \ {t} : archivos'[d] = archivos[d]
    BY <1>1, <1>10, <2>2 DEF CreateParticiones, TInv, TiposArchivos
  <2>5. EnDisco(t) = {}
    BY <2>3, CarpetaVacia DEF EnDisco
  <2>6. EnDisco(t)' = {}
    <3>1. \A n \in DOMAIN archivos'[t] : archivos'[t][n] = <<>>
      BY <2>1, <2>2, <2>3 DEF VivoInv, Mesas, SinUsar
    <3> QED
      BY <3>1, ListaVacia DEF EnDisco
  <2>7. \A d \in Tablas : EnDisco(d)' = EnDisco(d)
    BY <2>4, <2>5, <2>6 DEF EnDisco
  <2>8. \A d \in Tablas : FilasDe(d)' = FilasDe(d)
    BY <2>1, <2>7 DEF FilasDe, EnComp
  <2>9. Borrandose' = Borrandose
    BY <1>1, <1>3, <2>1, BorrandoseEs DEF Borra
  <2> QED
    BY <1>1, <2>1, <2>8, <2>9, UIgual
<1>11. CASE SelectMuere(c) \/ DescribeMuere(c)
  BY <1>1, <1>11 DEF SelectMuere, DescribeMuere, Morir
<1>12. CASE CreateSinEspacio(c)
  BY <1>12 DEF CreateSinEspacio, Falla, SinFallas, VivoInv
<1>13. CASE CreateSinDir(c)
  BY <1>13, LoQueSabe DEF CreateSinDir, Conoce
<1> QED
  BY <1>4, <1>5, <1>6, <1>7, <1>8, <1>9, <1>10, <1>11, <1>12, <1>13 DEF Seguir

\* A step of dump or of a compaction that leaves the rows of t, or some that
\* resume them.
LEMMA RegistroDeFondo ==
  ASSUME TInv, UNCHANGED <<directorio, est, pedido>>, NEW t \in Tablas,
         Resume(FilasDe(t)', FilasDe(t)),
         \A d \in Tablas \ {t} : FilasDe(d)' = FilasDe(d)
  PROVE  U!Next
<1>1. (directorio \ Borrandose)' = directorio \ Borrandose
  BY DEF Borrandose
<1>2. ASSUME NEW d \in directorio \ Borrandose PROVE Resume(FilasDe(d)', FilasDe(d))
  <2>1. d \in Tablas
    BY DEF TInv, TiposTablas
  <2>2. CASE d = t
    BY <2>2
  <2>3. CASE d # t
    <3>1. FilasDe(d) \in SUBSET Filas /\ FilasDe(d)' = FilasDe(d)
      BY <2>1, <2>3, FilasDeTipo
    <3>2. \A f \in FilasDe(d) : f.timestamp <= f.timestamp
      BY <3>1, FilasTipo
    <3> QED
      BY <3>1, <3>2 DEF Resume
  <2> QED
    BY <2>2, <2>3
<1> QED
  BY <1>1, <1>2, UOlvida

\* A step of theirs that moves the rows of t from one place to another.
LEMMA RegistroMueve ==
  ASSUME TInv, UNCHANGED <<directorio, est, pedido>>, NEW t \in Tablas,
         FilasDe(t)' = FilasDe(t),
         \A d \in Tablas \ {t} : FilasDe(d)' = FilasDe(d)
  PROVE  U!Next
<1>1. (directorio \ Borrandose)' = directorio \ Borrandose
  BY DEF Borrandose
<1> QED
  BY <1>1, UIgual

\* A step of theirs that touches no row.
LEMMA RegistroQuieto ==
  ASSUME TInv, UNCHANGED <<directorio, est, pedido, archivos, memtable, comp>>
  PROVE  U!Next
<1>1. (directorio \ Borrandose)' = directorio \ Borrandose
  BY DEF Borrandose
<1>2. \A t \in Tablas : FilasDe(t)' = FilasDe(t)
  BY DEF FilasDe, EnDisco, EnComp
<1> QED
  BY <1>1, <1>2, UIgual

LEMMA RegistroDump ==
  ASSUME SinFallas, VivoInv, VivoInv', Dump
  PROVE  U!Next
<1>1. TInv /\ vivo'
  BY DEF VivoInv
<1>2. CASE DumpEmpieza \/ DumpTermina
  BY <1>1, <1>2, RegistroQuieto DEF DumpEmpieza, DumpTermina, disco, clientes
<1>3. ASSUME NEW t \in Tablas, DumpTabla(t)
      PROVE  U!Next
  <2>1. /\ memtable[t] \in Seq(Filas) /\ EsCarpeta(archivos[t]) /\ DOMAIN archivos = Tablas
        /\ memtable \in [Tablas -> Seq(Filas)]
    BY <1>1 DEF TInv, TiposTablas, TiposArchivos
  <2>2. PICK n \in Nombres : n = NuevoTemporal(t) /\ n \notin DOMAIN archivos[t]
    BY <2>1, NuevoTemporalEs
  <2>3. ~Falla
    BY DEF Falla, SinFallas, VivoInv
  <2>4. archivos' = [archivos EXCEPT ![t] = ConUno(@, n, memtable[t])]
    BY <1>3, <2>2, <2>3 DEF DumpTabla, ConUno
  <2>5. /\ archivos'[t] = ConUno(archivos[t], n, memtable[t])
        /\ \A d \in Tablas \ {t} : archivos'[d] = archivos[d]
    BY <2>1, <2>4
  <2>6. PICK a, l : a = archivos[t] /\ l = memtable[t]
    OBVIOUS
  <2>7. DOMAIN ConUno(a, n, l) = DOMAIN a \cup {n}
    BY DEF ConUno, ConArchivos
  <2>8. \A x \in DOMAIN a \cup {n} : ConUno(a, n, l)[x] = IF x = n THEN l ELSE a[x]
    BY <2>7 DEF ConUno, ConArchivos
  <2>9. \A g : g \in EnDisco(t)' <=> g \in EnDisco(t) \/ g \in ToSet(memtable[t])
    <3> DEFINE b == ConUno(a, n, l)
    <3>1. archivos'[t] = b /\ n \notin DOMAIN a
      BY <2>2, <2>5, <2>6
    <3>2. \A x \in DOMAIN a : b[x] = a[x]
      BY <2>8, <3>1
    <3>3. b[n] = l
      BY <2>8
    <3> HIDE DEF b
    <3>4. \A g : (\E x \in DOMAIN b : g \in ToSet(b[x]))
                 <=> (\E x \in DOMAIN a : g \in ToSet(a[x])) \/ g \in ToSet(l)
      <4>1. DOMAIN b = DOMAIN a \cup {n}
        BY <2>7 DEF b
      <4> QED
        BY <3>2, <3>3, <4>1
    <3>5. \A g : g \in EnDisco(t)' <=> \E x \in DOMAIN b : g \in ToSet(b[x])
      BY <3>1 DEF EnDisco
    <3>6. \A g : g \in EnDisco(t) <=> \E x \in DOMAIN a : g \in ToSet(a[x])
      BY <2>6 DEF EnDisco
    <3> QED
      BY <2>6, <3>4, <3>5, <3>6
  <2>10. /\ UNCHANGED <<directorio, est, pedido, comp>>
         /\ memtable'[t] = <<>> /\ \A d \in Tablas \ {t} : memtable'[d] = memtable[d]
    BY <1>3, <2>1 DEF DumpTabla, clientes
  <2>11. \A d : EnComp(d)' = EnComp(d)
    BY <2>10 DEF EnComp
  <2>12. FilasDe(t)' = FilasDe(t)
    <3>1. ToSet(memtable'[t]) = {}
      BY <2>10, ListaVacia
    <3>2. \A g : g \in FilasDe(t)' <=> g \in FilasDe(t)
      BY <2>9, <2>11, <3>1 DEF FilasDe
    <3> QED
      BY <3>2
  <2>13. \A d \in Tablas \ {t} : FilasDe(d)' = FilasDe(d)
    BY <2>5, <2>10, <2>11 DEF FilasDe, EnDisco
  <2> QED
    BY <1>1, <2>10, <2>12, <2>13, RegistroMueve
<1>4. ASSUME NEW t \in Tablas, DumpMuere(t)
      PROVE  U!Next
  BY <1>1, <1>4 DEF DumpMuere, Morir
<1> QED
  BY <1>2, <1>3, <1>4 DEF Dump

LEMMA RegistroCompactar ==
  ASSUME SinFallas, RegistroInv, RegistroInv', Compactar
  PROVE  U!Next
<1>1. TInv /\ vivo' /\ VivoInv /\ Leido /\ ~Falla
  BY DEF RegistroInv, VivoInv, Falla, SinFallas
<1>2. ASSUME NEW t \in Tablas, CompSale(t)
      PROVE  U!Next
  BY <1>1, <1>2, RegistroQuieto DEF CompSale, disco, clientes
<1>3. ASSUME NEW t \in Tablas, CompRenombra(t)
      PROVE  U!Next
  <2> DEFINE r == Renombrados(t)
             a == archivos[t]
  <2>1. comp = Nada
    BY <1>1, <1>3, NadieAssumption DEF CompRenombra, TInv, Turno
  <2>2. EsCarpeta(a) /\ De(t, {"tmpc"}) = {}
    BY <1>1, <2>1 DEF TInv, TiposArchivos, RegistroInv, RestosInv, SinRestos
  <2>3. archivos'[t] = r /\ \A d \in Tablas \ {t} : archivos'[d] = archivos[d]
    BY <1>1, <1>3 DEF CompRenombra, TInv, TiposArchivos
  <2>4. UNCHANGED <<directorio, est, pedido, memtable>> /\ comp'.tabla = t /\ comp'.filas = <<>>
    BY <1>3 DEF CompRenombra, clientes
  <2>5. \A d : EnComp(d) = {} /\ EnComp(d)' = {}
    BY <2>1, <2>4, ListaVacia DEF EnComp
  <2>6. /\ EsCarpeta(r)
        /\ \A m \in Nombres :
              m \in DOMAIN r <=>
                 \/ m[1] = "bin" /\ m \in DOMAIN a
                 \/ m[1] = "tmpc" /\ (m \in DOMAIN a \/ <<"tmp", m[2]>> \in DOMAIN a)
        /\ \A m \in DOMAIN r :
              r[m] = IF m[1] = "tmpc" /\ <<"tmp", m[2]>> \in DOMAIN a
                     THEN a[<<"tmp", m[2]>>]
                     ELSE a[m]
    BY <2>2, CarpetaRenombra
  <2>7. \A m \in DOMAIN a : m[1] # "tmpc"
    BY <2>2 DEF De
  <2> HIDE DEF r
  <2>8. DOMAIN r \subseteq Nombres /\ DOMAIN a \subseteq Nombres
    BY <2>2, <2>6 DEF EsCarpeta
  <2>9. ASSUME NEW m \in DOMAIN r PROVE \E n \in DOMAIN a : r[m] = a[n]
    <3>1. CASE m[1] = "tmpc" /\ <<"tmp", m[2]>> \in DOMAIN a
      BY <2>6, <3>1
    <3>2. CASE ~(m[1] = "tmpc" /\ <<"tmp", m[2]>> \in DOMAIN a)
      BY <2>6, <2>8, <3>2
    <3> QED
      BY <3>1, <3>2
  <2>10. ASSUME NEW n \in DOMAIN a PROVE \E m \in DOMAIN r : r[m] = a[n]
    <3>1. CASE n[1] = "bin"
      <4>1. n \in DOMAIN r
        BY <2>6, <2>8, <3>1
      <4> QED
        BY <2>6, <3>1, <4>1
    <3>2. CASE n[1] # "bin"
      <4>1. n[1] = "tmp" /\ n = <<"tmp", n[2]>> /\ n[2] \in Nat
        BY <2>7, <2>8, <3>2 DEF Nombres
      <4>2. PICK k \in Nat : k = n[2]
        BY <4>1
      <4>3. <<"tmpc", k>> \in Nombres /\ <<"tmpc", k>>[1] = "tmpc" /\ <<"tmpc", k>>[2] = k
        BY <4>2 DEF Nombres
      <4>4. <<"tmp", k>> = n
        BY <4>1, <4>2
      <4>5. <<"tmpc", k>> \in DOMAIN r
        BY <2>6, <4>3, <4>4
      <4>6. r[<<"tmpc", k>>] = a[<<"tmp", k>>]
        BY <2>6, <4>3, <4>4, <4>5
      <4> QED
        BY <4>4, <4>5, <4>6
    <3> QED
      BY <3>1, <3>2
  <2>11. EnDisco(t)' = EnDisco(t)
    <3>1. \A g : (\E m \in DOMAIN r : g \in ToSet(r[m])) <=> \E n \in DOMAIN a : g \in ToSet(a[n])
      BY <2>9, <2>10
    <3>2. \A g : g \in EnDisco(t)' <=> \E m \in DOMAIN r : g \in ToSet(r[m])
      BY <2>3 DEF EnDisco
    <3>3. \A g : g \in EnDisco(t) <=> \E n \in DOMAIN a : g \in ToSet(a[n])
      BY DEF EnDisco
    <3>4. \A g : g \in EnDisco(t)' <=> g \in EnDisco(t)
      BY <3>1, <3>2, <3>3
    <3> QED
      BY <3>4
  <2>12. FilasDe(t)' = FilasDe(t)
    BY <2>4, <2>5, <2>11 DEF FilasDe
  <2>13. \A d \in Tablas \ {t} : FilasDe(d)' = FilasDe(d)
    BY <2>3, <2>4, <2>5 DEF FilasDe, EnDisco
  <2> QED
    BY <1>1, <2>4, <2>12, <2>13, RegistroMueve
<1>4. ASSUME NEW f, Fase(f)
      PROVE  /\ comp \in Compactaciones /\ comp # Nada /\ comp.fase = f
             /\ comp.tabla \in Tablas /\ comp.filas \in Seq(Filas)
             /\ \A d \in Tablas \ {comp.tabla} : EnComp(d) = {}
             /\ EnComp(comp.tabla) = ToSet(comp.filas)
  BY <1>1, <1>4, FaseEs DEF EnComp
<1>5. CASE CompLee
  <2>1. Fase("lee")
    BY <1>5 DEF CompLee
  <2>2. PICK t \in Tablas : t = comp.tabla
    BY <1>4, <2>1
  <2>3. EnComp(t) = {}
    BY <1>1, <1>4, <2>1, <2>2, ListaVacia DEF Leido
  <2>4. UNCHANGED <<directorio, est, pedido, memtable, archivos>>
    BY <1>5 DEF CompLee, disco, clientes
  <2>5. comp' # Nada => comp'.tabla = t /\ comp'.fase = "limpia"
    BY <1>4, <1>5, <2>1, <2>2 DEF CompLee, Compactaciones
  <2>6. Leido'
    BY DEF RegistroInv
  <2>7. EnComp(t)' \subseteq EnDisco(t)
    <3>1. CASE comp' = Nada
      BY <3>1 DEF EnComp
    <3>2. CASE comp' # Nada
      <4>1. comp'.tabla = t /\ Resume(ToSet(comp.filas), EnDisco(comp.tabla))'
        BY <2>5, <2>6, <3>2 DEF Leido
      <4>2. Resume(ToSet(comp'.filas), EnDisco(t))
        BY <2>4, <4>1 DEF EnDisco, Resume
      <4> QED
        BY <3>2, <4>1, <4>2 DEF EnComp, Resume
    <3> QED
      BY <3>1, <3>2
  <2>8. FilasDe(t)' = FilasDe(t)
    BY <2>3, <2>4, <2>7 DEF FilasDe, EnDisco
  <2>9. \A d \in Tablas \ {t} : EnComp(d) = {} /\ EnComp(d)' = {}
    BY <1>4, <2>1, <2>2, <2>5 DEF EnComp
  <2>10. \A d \in Tablas \ {t} : FilasDe(d)' = FilasDe(d)
    BY <2>4, <2>9 DEF FilasDe, EnDisco
  <2> QED
    BY <1>1, <2>4, <2>8, <2>10, RegistroMueve
<1>6. CASE CompLimpia
  <2>1. Fase("limpia")
    BY <1>6 DEF CompLimpia
  <2>2. PICK t \in Tablas : t = comp.tabla
    BY <1>4, <2>1
  <2>3. Resume(EnComp(t), EnDisco(t))
    BY <1>1, <1>4, <2>1, <2>2 DEF Leido
  <2>4. /\ UNCHANGED <<directorio, est, pedido, memtable>>
        /\ archivos'[t] = SinArchivos /\ \A d \in Tablas \ {t} : archivos'[d] = archivos[d]
    BY <1>1, <1>6, <2>2 DEF CompLimpia, clientes, TInv, TiposArchivos
  <2>5. comp'.tabla = t /\ comp'.filas = comp.filas /\ comp' # Nada
    <3>1. comp' \in Compactaciones /\ comp'.tabla = t /\ comp'.filas = comp.filas
      BY <1>1, <1>4, <1>6, <2>1, <2>2, ContarBins DEF CompLimpia, Compactaciones
    <3> QED
      BY <3>1, NadaAssumption
  <2>6. EnComp(t)' = EnComp(t) /\ \A d \in Tablas \ {t} : EnComp(d)' = EnComp(d)
    BY <1>4, <2>1, <2>2, <2>5 DEF EnComp
  <2>7. EnDisco(t)' = {}
    BY <2>4, CarpetaVacia DEF EnDisco
  <2>8. FilasDe(t) \in SUBSET Filas
    BY <1>1, FilasDeTipo
  <2>9. Resume(FilasDe(t)', FilasDe(t))
    <3>1. PICK M, D, C : M = ToSet(memtable[t]) /\ D = EnDisco(t) /\ C = EnComp(t)
      OBVIOUS
    <3>2. FilasDe(t) = M \cup D \cup C
      BY <3>1 DEF FilasDe
    <3>3. FilasDe(t)' = M \cup C
      BY <2>4, <2>6, <2>7, <3>1 DEF FilasDe
    <3>4. \A f \in M \cup C : f.timestamp <= f.timestamp
      BY <2>8, <3>2, FilasTipo
    <3>5. Resume(C, D)
      BY <2>3, <3>1
    <3>6. Resume(M \cup C, M \cup D \cup C)
      BY <3>4, <3>5 DEF Resume
    <3> QED
      BY <3>2, <3>3, <3>6
  <2>10. \A d \in Tablas \ {t} : FilasDe(d)' = FilasDe(d)
    BY <2>4, <2>6 DEF FilasDe, EnDisco
  <2> QED
    BY <1>1, <2>4, <2>9, <2>10, RegistroDeFondo
<1>7. CASE CompRecrea
  <2>1. Fase("recrea")
    BY <1>7 DEF CompRecrea
  <2>2. PICK t \in Tablas : t = comp.tabla
    BY <1>4, <2>1
  <2>3. archivos[t] = SinArchivos /\ EsCarpeta(archivos[t]) /\ comp.particiones \in Nat
    BY <1>1, <1>4, <2>1, <2>2 DEF VivoInv, Compacta, TInv, TiposArchivos, Compactaciones
  <2>4. /\ UNCHANGED <<directorio, est, pedido, memtable>>
        /\ archivos'[t] = ConParticiones(t, comp.particiones)
        /\ \A d \in Tablas \ {t} : archivos'[d] = archivos[d]
    BY <1>1, <1>7, <2>2 DEF CompRecrea, clientes, TInv, TiposArchivos
  <2>5. comp'.tabla = t /\ comp'.filas = comp.filas /\ comp' # Nada
    <3>1. comp' \in Compactaciones /\ comp'.tabla = t /\ comp'.filas = comp.filas
      BY <1>4, <1>7, <2>1, <2>2 DEF CompRecrea, Compactaciones
    <3> QED
      BY <3>1, NadaAssumption
  <2>6. EnComp(t)' = EnComp(t) /\ \A d \in Tablas \ {t} : EnComp(d)' = EnComp(d)
    BY <1>4, <2>1, <2>2, <2>5 DEF EnComp
  <2>7. EnDisco(t) = {}
    BY <2>3, CarpetaVacia DEF EnDisco
  <2>8. EnDisco(t)' = {}
    <3>1. DOMAIN archivos[t] = {}
      BY <2>3, CarpetaVacia
    <3>2. PICK n \in Nat : n = comp.particiones
      BY <2>3
    <3>3. /\ DOMAIN ConParticiones(t, n) = Bins(n) \cup DOMAIN archivos[t]
          /\ \A x \in DOMAIN ConParticiones(t, n) :
                ConParticiones(t, n)[x] = IF x \in Bins(n) THEN <<>> ELSE archivos[t][x]
      BY <2>3, CarpetaParticiones
    <3>4. \A x \in DOMAIN archivos'[t] : archivos'[t][x] = <<>>
      BY <2>4, <3>1, <3>2, <3>3
    <3> QED
      BY <3>4, ListaVacia DEF EnDisco
  <2>9. FilasDe(t)' = FilasDe(t)
    BY <2>4, <2>6, <2>7, <2>8 DEF FilasDe
  <2>10. \A d \in Tablas \ {t} : FilasDe(d)' = FilasDe(d)
    BY <2>4, <2>6 DEF FilasDe, EnDisco
  <2> QED
    BY <1>1, <2>4, <2>9, <2>10, RegistroMueve
<1>8. CASE CompGuarda
  <2>1. Fase("guarda") /\ comp.filas # <<>>
    BY <1>8 DEF CompGuarda
  <2>2. PICK t \in Tablas : t = comp.tabla
    BY <1>4, <2>1
  <2>3. comp.filas \in Seq(Filas) /\ comp \in Compactaciones /\ EsCarpeta(archivos[t])
    BY <1>1, <1>4, <2>1 DEF TInv, TiposArchivos
  <2>4. PICK f \in Filas : f = Head(comp.filas)
    BY <2>1, <2>3, HeadTailProperties, EmptySeq
  <2>5. Hallada(t, f.key)
    BY <1>8, <2>2, <2>4 DEF CompGuarda
  <2>6. PICK p \in DOMAIN archivos[t] : p = Particion(t, f.key)
    BY <2>5 DEF Hallada
  <2>7. /\ UNCHANGED <<directorio, est, pedido, memtable>>
        /\ archivos' = [archivos EXCEPT ![t][p] = Append(@, f)]
        /\ comp' = [comp EXCEPT !.filas = Tail(@)]
    BY <1>1, <1>8, <2>2, <2>4, <2>6 DEF CompGuarda, Destino, clientes
  <2>8. archivos[t][p] \in Seq(Filas)
    BY <2>3 DEF EsCarpeta
  <2>9. /\ archivos'[t] = [archivos[t] EXCEPT ![p] = Append(archivos[t][p], f)]
        /\ \A d \in Tablas \ {t} : archivos'[d] = archivos[d]
    BY <1>1, <2>7 DEF TInv, TiposArchivos
  <2>10. /\ DOMAIN archivos'[t] = DOMAIN archivos[t]
         /\ archivos'[t][p] = Append(archivos[t][p], f)
         /\ \A x \in DOMAIN archivos[t] \ {p} : archivos'[t][x] = archivos[t][x]
    BY <2>9
  <2>11. ToSet(archivos'[t][p]) = ToSet(archivos[t][p]) \cup {f}
    BY <2>8, <2>10, AgregarElemento
  <2>12. \A g : g \in EnDisco(t)' <=> g \in EnDisco(t) \/ g = f
    <3>1. \A g : g \in EnDisco(t)' <=> \E x \in DOMAIN archivos[t] : g \in ToSet(archivos'[t][x])
      BY <2>10 DEF EnDisco
    <3>2. \A g : g \in EnDisco(t) <=> \E x \in DOMAIN archivos[t] : g \in ToSet(archivos[t][x])
      BY DEF EnDisco
    <3> QED
      BY <2>10, <2>11, <3>1, <3>2
  <2>13. comp'.tabla = t /\ comp'.filas = Tail(comp.filas) /\ comp' # Nada
    <3>1. Tail(comp.filas) \in Seq(Filas)
      BY <2>1, <2>3, HeadTailProperties, EmptySeq
    <3>2. comp' \in Compactaciones /\ comp'.tabla = t /\ comp'.filas = Tail(comp.filas)
      BY <2>2, <2>3, <2>7, <3>1 DEF Compactaciones
    <3> QED
      BY <3>2, NadaAssumption
  <2>14. EnComp(t) = {f} \cup EnComp(t)'
    <3>1. EnComp(t) = ToSet(comp.filas) /\ EnComp(t)' = ToSet(Tail(comp.filas))
      BY <1>4, <2>1, <2>2, <2>13 DEF EnComp
    <3>2. EsLista(comp.filas)
      BY <2>3 DEF EsLista, ToSet
    <3>3. ToSet(comp.filas) = {f} \cup ToSet(Tail(comp.filas))
      BY <2>1, <2>4, <3>2, QuitarCabeza
    <3> QED
      BY <3>1, <3>3
  <2>15. FilasDe(t)' = FilasDe(t)
    <3>1. \A g : g \in FilasDe(t)' <=> g \in FilasDe(t)
      BY <2>7, <2>12, <2>14 DEF FilasDe
    <3> QED
      BY <3>1
  <2>16. \A d \in Tablas \ {t} : EnComp(d) = {} /\ EnComp(d)' = {}
    BY <1>4, <2>1, <2>2, <2>13 DEF EnComp
  <2>17. \A d \in Tablas \ {t} : FilasDe(d)' = FilasDe(d)
    BY <2>7, <2>9, <2>16 DEF FilasDe, EnDisco
  <2> QED
    BY <1>1, <2>7, <2>15, <2>17, RegistroMueve
<1>9. CASE CompMuere
  BY <1>1, <1>9 DEF CompMuere, Morir
<1>10. CASE CompTermina
  <2>1. Fase("guarda") /\ comp.filas = <<>> /\ comp' = Nada
    BY <1>10 DEF CompTermina
  <2>2. PICK t \in Tablas : t = comp.tabla
    BY <1>4, <2>1
  <2>3. \A d \in Tablas : EnComp(d) = {} /\ EnComp(d)' = {}
    BY <1>4, <2>1, ListaVacia DEF EnComp
  <2>4. UNCHANGED <<directorio, est, pedido, memtable, archivos>>
    BY <1>10 DEF CompTermina, disco, clientes
  <2>5. \A d \in Tablas : FilasDe(d)' = FilasDe(d)
    BY <2>3, <2>4 DEF FilasDe, EnDisco
  <2> QED
    BY <1>1, <2>2, <2>4, <2>5, RegistroMueve
<1>11. ~\E t \in Tablas : CompRenombraFalla(t)
  BY DEF CompRenombraFalla, Falla, SinFallas, RegistroInv, VivoInv
<1> QED
  BY <1>2, <1>3, <1>5, <1>6, <1>7, <1>8, <1>9, <1>10, <1>11 DEF Compactar

LEMMA RegistroInit == SinFallas /\ Init => RegistroInv /\ U!Init
<1> SUFFICES ASSUME SinFallas, Init PROVE RegistroInv /\ U!Init
  OBVIOUS
<1>1. RegistroInv
  BY VivoInit, RestosInit DEF RegistroInv, Leido, Init
<1>2. ASSUME NEW t \in Tablas PROVE FilasDe(t) = {}
  <2>1. /\ memtable[t] = <<>> /\ comp = Nada
        /\ archivos[t] = [p \in Bins(metadata[t]) |-> <<>>]
    BY DEF Init, Bins
  <2>2. \A n \in DOMAIN archivos[t] : archivos[t][n] = <<>>
    BY <2>1
  <2>3. EnDisco(t) = {}
    BY <2>2, ListaVacia DEF EnDisco
  <2> QED
    BY <2>1, <2>3, ListaVacia DEF FilasDe, EnComp
<1>3. ASSUME NEW t \in Tablas, NEW k \in Claves PROVE Ultimas(FilasDe(t), k) = U!Ninguno
  <2>1. Ultimas(FilasDe(t), k) = Ultimas({}, k)
    BY <1>2
  <2>2. Instante({}, k) = 0
    BY InstanteEs, FS_EmptySet DEF DeClave
  <2>3. {f.value : f \in {f \in {} : f.key = k /\ f.timestamp = Instante({}, k)}} = {}
    OBVIOUS
  <2> QED
    BY <2>1, <2>2, <2>3 DEF Ultimas, U!Ninguno
<1>4. directorio \subseteq Tablas
  BY ExistentesAssumption DEF Init
<1>5. U!Init
  BY <1>3, <1>4 DEF U!Init
<1> QED
  BY <1>1, <1>5

LEMMA RegistroNext == SinFallas /\ SinCruce /\ SinCruce' /\ RegistroInv /\ [Next]_vars => RegistroInv'
<1> SUFFICES ASSUME SinFallas, SinCruce, SinCruce', RegistroInv, [Next]_vars
             PROVE  RegistroInv'
  OBVIOUS
<1>1. VivoInv' /\ vivo /\ vivo'
  BY VivoNext DEF RegistroInv, VivoInv
<1>4. ~\E t \in Tablas : CompRenombraFalla(t)
  BY DEF CompRenombraFalla, Falla, SinFallas, RegistroInv, VivoInv
<1>2. RestosInv'
  BY <1>1, <1>4, RestosNext DEF RegistroInv, SinRenombreFallido
<1>3. Leido'
  BY LeidoNext DEF RegistroInv
<1> QED
  BY <1>1, <1>2, <1>3 DEF RegistroInv

\* Each step of LFS is a step of the register, or changes nothing of it.
LEMMA RegistroPaso ==
  ASSUME SinFallas, SinCruce, RegistroInv, RegistroInv', [Next]_vars
  PROVE  U!Next
<1>1. TInv /\ VivoInv /\ VivoInv'
  BY DEF RegistroInv, VivoInv
<1>2. CASE UNCHANGED vars
  BY <1>1, <1>2, RegistroQuieto DEF vars, disco, clientes
<1>3. ~Caida /\ ~Arrancar
  BY <1>1 DEF Caida, Arrancar, SinFallas, VivoInv
<1> QED
  BY <1>1, <1>2, <1>3, RegistroPedir, RegistroSeguir, RegistroDump, RegistroCompactar DEF Next

\* With blocks for every file and no rename failing, and if no request meets the
\* CREATE or the DROP of its table, the rows that a SELECT could return are those
\* of the register that keeps the row of the greatest timestamp of each key: dump
\* and compaction move them between memtable, .tmp, .tmpc, the memory of
\* compactate and .bin, and neither lose one nor hide it behind an older one, in
\* whatever order they interleave with the requests of any number of clients.
THEOREM EsElRegistro == SinFallas /\ Spec /\ []SinCruce => EsUltimoGana
<1> DEFINE Inv == SinFallas /\ RegistroInv
<1>1. SinFallas /\ Init => Inv /\ U!Init
  BY RegistroInit
<1>2. Inv /\ SinCruce /\ SinCruce' /\ [Next]_vars => Inv'
  BY RegistroNext DEF SinFallas
<1>3. Inv /\ Inv' /\ SinCruce /\ [Next]_vars => U!Next
  BY RegistroPaso
<1> HIDE DEF Inv
<1> QED
  BY <1>1, <1>2, <1>3, PTL DEF Spec, EsUltimoGana, U!Spec

-----------------------------------------------------------------------------
(* What a stop takes with it.                                              *)
(*                                                                         *)
(* Here any number of clients ask for anything, and LFS stops and starts   *)
(* again at any moment.  The files of a table change in few places: a dump *)
(* adds one, a compaction renames, reads, removes and writes them again    *)
(* while it holds operation_mutex, and crearParticiones truncates the      *)
(* partitions it finds.  A compaction truncates them when they are empty;  *)
(* a CREATE, which takes no lock, when there is none, as long as no other  *)
(* CREATE of the table is between stat and crearParticiones: with two of   *)
(* them the second one truncates what a compaction saved after the first.  *)

\* The rows of some files, and those of table t in a compaction m.
FilasEnArchivos(a) == UNION {ToSet(a[n]) : n \in DOMAIN a}
FilasEnMano(m, t) == IF m # Nada /\ m.tabla = t THEN ToSet(m.filas) ELSE {}

HayBins(a) == \E n \in DOMAIN a : n[1] = "bin"

\* A table without a directory has no files, and none is being compacted.
TodoEnDirectorio ==
    /\ \A t \in Tablas \ directorio : archivos[t] = SinArchivos
    /\ comp # Nada => comp.tabla \in directorio

\* Where a CREATE is between stat and crearParticiones.
Abriendo == {"crea", "particiona"}

\* A CREATE finds no partitions, and a compaction that started before it made
\* its own has none to make either.
CreateSinBins ==
    \A c \in Clientes : est[c] \in Abriendo =>
        /\ ~HayBins(archivos[pedido[c].tabla])
        /\ comp # Nada /\ comp.fase \in {"recrea", "guarda"} /\ comp.tabla = pedido[c].tabla
              => comp.particiones = 0

RecreaSinFilas ==
    comp # Nada /\ comp.fase = "recrea" => FilasEnArchivos(archivos[comp.tabla]) = {}

VentanaInv == TInv /\ Leido /\ TodoEnDirectorio /\ CreateSinBins /\ RecreaSinFilas

LEMMA FilasSon ==
  /\ \A t : EnDisco(t) = FilasEnArchivos(archivos[t]) /\ EnDisco(t)' = FilasEnArchivos(archivos'[t])
  /\ \A t : EnComp(t) = FilasEnMano(comp, t) /\ EnComp(t)' = FilasEnMano(comp', t)
  BY DEF EnDisco, EnComp, FilasEnArchivos, FilasEnMano

LEMMA FilasFinitas ==
  ASSUME NEW a, EsCarpeta(a), NEW m \in {Nada} \cup Compactaciones, NEW t
  PROVE  /\ FilasEnArchivos(a) \cup FilasEnMano(m, t) \in SUBSET Filas
         /\ IsFiniteSet(FilasEnArchivos(a) \cup FilasEnMano(m, t))
<1>1. FilasEnArchivos(a) \in SUBSET Filas /\ IsFiniteSet(FilasEnArchivos(a))
  <2> DEFINE N == DOMAIN a
             C == {ToSet(a[n]) : n \in N}
             f == [n \in N |-> ToSet(a[n])]
  <2>1. \A n \in N : ToSet(a[n]) \in SUBSET Filas /\ IsFiniteSet(ToSet(a[n]))
    BY FilasTipo, ListaFinita DEF EsCarpeta
  <2>2. IsFiniteSet(N) /\ f \in Surjection(N, C)
    BY DEF EsCarpeta, Surjection
  <2>3. IsFiniteSet(C) /\ \A T \in C : IsFiniteSet(T)
    BY <2>1, <2>2, FS_Surjection
  <2>4. IsFiniteSet(UNION C)
    <3> HIDE DEF C
    <3> QED
      BY <2>3, FS_UNION
  <2> QED
    BY <2>1, <2>4 DEF FilasEnArchivos
<1>2. FilasEnMano(m, t) \in SUBSET Filas /\ IsFiniteSet(FilasEnMano(m, t))
  <2>1. CASE m # Nada
    <3>1. m.filas \in Seq(Filas)
      BY <2>1 DEF Compactaciones
    <3> QED
      BY <3>1, FilasTipo, ListaFinita, FS_EmptySet DEF FilasEnMano
  <2>2. CASE m = Nada
    BY <2>2, FS_EmptySet DEF FilasEnMano
  <2> QED
    BY <2>1, <2>2
<1> QED
  BY <1>1, <1>2, FS_Union

\* For each row of R there is one of its key in S that is as recent.
Cubre(R, S) == \A f \in R : \E g \in S : g.key = f.key /\ f.timestamp <= g.timestamp

LEMMA CubreInstante ==
  ASSUME NEW R \in SUBSET Filas, IsFiniteSet(R), NEW S \in SUBSET Filas, IsFiniteSet(S),
         Cubre(R, S), NEW k
  PROVE  Instante(R, k) <= Instante(S, k)
<1>1. PICK m \in Nat, i \in Nat : m = Instante(S, k) /\ i = Instante(R, k)
  BY InstanteEs
<1>2. /\ DeClave(R, k) # {} => \E g \in DeClave(R, k) : g.timestamp = i
      /\ DeClave(R, k) = {} => i = 0
  BY <1>1, InstanteEs
<1>3. \A g \in DeClave(S, k) : g.timestamp <= m /\ g.timestamp \in Nat
  BY <1>1, InstanteEs, FilasTipo DEF DeClave
<1>4. CASE DeClave(R, k) = {}
  BY <1>1, <1>2, <1>4
<1>5. CASE DeClave(R, k) # {}
  <2>1. PICK f \in DeClave(R, k) : f.timestamp = i
    BY <1>2, <1>5
  <2>2. PICK g \in DeClave(S, k) : f.timestamp <= g.timestamp
    BY <2>1 DEF Cubre, DeClave
  <2>3. g.timestamp <= m /\ g.timestamp \in Nat
    BY <1>3, <2>2
  <2> QED
    BY <1>1, <2>1, <2>2, <2>3
<1> QED
  BY <1>4, <1>5

\* crearParticiones loses no row where it finds no partition, or an empty one.
LEMMA ParticionesVacias ==
  ASSUME NEW t, EsCarpeta(archivos[t]), NEW n \in Nat,
         \A x \in DOMAIN archivos[t] : x \in Bins(n) => ToSet(archivos[t][x]) = {}
  PROVE  /\ FilasEnArchivos(ConParticiones(t, n)) = FilasEnArchivos(archivos[t])
         /\ \A x \in DOMAIN ConParticiones(t, n) : x[1] = "bin" \/ x \in DOMAIN archivos[t]
<1> DEFINE c == ConParticiones(t, n)
           a == archivos[t]
<1>1. /\ DOMAIN c = Bins(n) \cup DOMAIN a
      /\ \A x \in DOMAIN c : c[x] = IF x \in Bins(n) THEN <<>> ELSE a[x]
  BY CarpetaParticiones
<1>2. \A x \in Bins(n) : x[1] = "bin"
  BY DEF Bins
<1>3. ToSet(<<>>) = {}
  BY DEF ToSet
<1> HIDE DEF c
<1>4. \A x \in DOMAIN c : ToSet(c[x]) = IF x \in DOMAIN a THEN ToSet(a[x]) ELSE {}
  BY <1>1, <1>3
<1>5. FilasEnArchivos(c) = FilasEnArchivos(a)
  <2>1. ASSUME NEW f PROVE f \in FilasEnArchivos(c) <=> f \in FilasEnArchivos(a)
    <3>1. f \in FilasEnArchivos(c) <=> \E x \in DOMAIN c : f \in ToSet(c[x])
      BY DEF FilasEnArchivos
    <3>2. f \in FilasEnArchivos(a) <=> \E x \in DOMAIN a : f \in ToSet(a[x])
      BY DEF FilasEnArchivos
    <3> QED
      BY <1>1, <1>4, <3>1, <3>2
  <2> QED
    BY <2>1
<1> QED
  BY <1>1, <1>2, <1>5 DEF c

LEMMA VentanaInit == Init => VentanaInv
<1> SUFFICES ASSUME Init PROVE VentanaInv
  OBVIOUS
<1>1. \A t \in Tablas \ directorio : archivos[t] = SinArchivos
  <2> SUFFICES ASSUME NEW t \in Tablas \ directorio PROVE archivos[t] = SinArchivos
    OBVIOUS
  <2>1. metadata[t] = -1
    BY DEF Init, SinMetadata
  <2>2. EsCarpeta(archivos[t])
    BY TInit DEF TInv, TiposArchivos
  <2>3. DOMAIN archivos[t] = {<<"bin", i>> : i \in 0 .. metadata[t] - 1}
    BY DEF Init
  <2>4. DOMAIN archivos[t] = {}
    BY <2>1, <2>3
  <2> QED
    BY <2>2, <2>4, CarpetaVacia
<1> QED
  BY <1>1, TInit
     DEF Init, VentanaInv, Leido, TodoEnDirectorio, CreateSinBins, RecreaSinFilas, Abriendo

\* Nothing is being compacted any more.
LEMMA VentanaSinComp ==
  ASSUME TInv', comp' = Nada, \A t \in Tablas \ directorio' : archivos'[t] = SinArchivos,
         \A c \in Clientes : est'[c] \in Abriendo => ~HayBins(archivos'[pedido'[c].tabla])
  PROVE  VentanaInv'
  BY DEF VentanaInv, Leido, TodoEnDirectorio, CreateSinBins, RecreaSinFilas

\* The compaction waits while a client takes a step that adds no rows.
LEMMA VentanaQuieta ==
  ASSUME VentanaInv, TInv', comp' = comp, directorio \subseteq directorio',
         \A t \in Tablas : FilasEnArchivos(archivos'[t]) = FilasEnArchivos(archivos[t]),
         \A t \in Tablas : \A n \in DOMAIN archivos'[t] : n[1] = "bin" \/ n \in DOMAIN archivos[t],
         \A t \in Tablas \ directorio' : archivos'[t] = SinArchivos,
         \A c \in Clientes : est'[c] \in Abriendo =>
            /\ ~HayBins(archivos'[pedido'[c].tabla])
            /\ comp # Nada /\ comp.tabla = pedido'[c].tabla
                  => est[c] \in Abriendo /\ pedido[c].tabla = pedido'[c].tabla
  PROVE  VentanaInv'
<1>1. comp # Nada => comp.tabla \in Tablas /\ comp.tabla \in directorio
  BY DEF VentanaInv, TInv, TiposTablas, Compactaciones, TodoEnDirectorio
<1>2. TodoEnDirectorio'
  BY <1>1 DEF TodoEnDirectorio
<1>3. CreateSinBins'
  <2> SUFFICES ASSUME NEW c \in Clientes, est'[c] \in Abriendo,
                      comp # Nada, comp.fase \in {"recrea", "guarda"},
                      comp.tabla = pedido'[c].tabla
               PROVE  comp.particiones = 0
    BY DEF CreateSinBins
  <2>1. est[c] \in Abriendo /\ pedido[c].tabla = comp.tabla
    OBVIOUS
  <2> QED
    BY <2>1 DEF VentanaInv, CreateSinBins
<1>4. RecreaSinFilas'
  BY <1>1 DEF VentanaInv, RecreaSinFilas
<1>5. Leido'
  <2> SUFFICES ASSUME comp # Nada PROVE Leido'
    BY DEF Leido
  <2>1. EnDisco(comp.tabla)' = EnDisco(comp.tabla)
    BY <1>1, FilasSon
  <2>2. De(comp.tabla, {"tmp"}) = {} => De(comp.tabla, {"tmp"})' = {}
    BY <1>1 DEF De
  <2> QED
    BY <2>1, <2>2 DEF VentanaInv, Leido
<1> QED
  BY <1>2, <1>3, <1>4, <1>5 DEF VentanaInv

\* The files stay as they are, and no client begins to make partitions.
LEMMA VentanaIgual ==
  ASSUME VentanaInv, TInv', comp' \in {comp, Nada}, archivos' = archivos,
         directorio' = directorio,
         \A c \in Clientes : est'[c] \in Abriendo
                                => est[c] \in Abriendo /\ pedido'[c] = pedido[c]
  PROVE  VentanaInv'
<1>1. \A t \in Tablas \ directorio' : archivos'[t] = SinArchivos
  BY DEF VentanaInv, TodoEnDirectorio
<1>2. \A c \in Clientes : est'[c] \in Abriendo => ~HayBins(archivos'[pedido'[c].tabla])
  BY DEF VentanaInv, CreateSinBins
<1>3. CASE comp' = Nada
  BY <1>1, <1>2, <1>3, VentanaSinComp
<1>4. CASE comp' = comp
  BY <1>1, <1>2, <1>4, VentanaQuieta
<1> QED
  BY <1>3, <1>4

LEMMA VentanaPedir ==
  ASSUME VentanaInv, TInv', NEW c \in Clientes, Pedir(c)
  PROVE  VentanaInv'
<1>0. TiposClientes /\ \A t \in Tablas \ directorio : archivos[t] = SinArchivos
  BY DEF VentanaInv, TInv, TodoEnDirectorio
<1>1. CASE Rechaza(c)
  BY <1>1, VentanaIgual DEF Rechaza, vars, disco, clientes
<1>2. ASSUME NEW e \in {"reposo", "guarda", "lee", "describe", "abre", "borra"}, NEW p,
             Espera(c, e, p), UNCHANGED <<comp, archivos, directorio>>
      PROVE  VentanaInv'
  <2>1. \A d \in Clientes : est'[d] \in Abriendo
                               => est[d] \in Abriendo /\ pedido'[d] = pedido[d]
    BY <1>0, <1>2 DEF TiposClientes, Espera, Abriendo
  <2> QED
    BY <1>2, <2>1, VentanaIgual
<1>3. ASSUME NEW t \in Tablas, \/ \E f \in Filas : InsertMira(c, t, f)
                               \/ \E k \in Claves : SelectMira(c, t, k)
                               \/ DescribeUna(c, t)
                               \/ DropMira(c, t)
      PROVE  VentanaInv'
  <2>1. \E e \in {"guarda", "lee", "abre", "borra"} : \E p : Espera(c, e, p)
    BY <1>3, ZenonT(30) DEF InsertMira, SelectMira, DescribeUna, DropMira
  <2>2. UNCHANGED <<comp, archivos, directorio>>
    BY <1>3 DEF InsertMira, SelectMira, DescribeUna, DropMira, disco
  <2> QED
    BY <1>2, <2>1, <2>2
<1>4. CASE DescribeTodas(c)
  <2>1. \E e \in {"reposo", "describe"} : \E p : Espera(c, e, p)
    BY <1>4 DEF DescribeTodas, Sigue, Responde
  <2>2. UNCHANGED <<comp, archivos, directorio>>
    BY <1>4 DEF DescribeTodas, disco
  <2> QED
    BY <1>2, <2>1, <2>2
<1>5. CASE InsertInvalido(c) \/ DescribeInvalido(c)
  BY <1>5, VentanaIgual DEF InsertInvalido, DescribeInvalido, Morir, disco, Abriendo
<1>6. ASSUME NEW t \in Tablas, NEW n \in Particiones, CreateMira(c, t, n)
      PROVE  VentanaInv'
  <2>1. /\ t \notin directorio /\ directorio' = directorio
        /\ comp' = comp /\ archivos' = archivos
        /\ est' = [est EXCEPT ![c] = "crea"]
        /\ pedido' = [pedido EXCEPT ![c] = [tabla |-> t, particiones |-> n]]
    BY <1>6 DEF CreateMira, Espera, disco
  <2>2. comp # Nada => comp.tabla # t
    BY <2>1 DEF VentanaInv, TodoEnDirectorio
  <2>3. pedido'[c].tabla = t /\ ~HayBins(archivos[t])
    BY <1>0, <2>1, CarpetaVacia DEF HayBins, TiposClientes
  <2>4. \A d \in Clientes \ {c} : est'[d] = est[d] /\ pedido'[d] = pedido[d]
    BY <1>0, <2>1 DEF TiposClientes
  <2>5. \A d \in Clientes : est'[d] \in Abriendo =>
            /\ ~HayBins(archivos'[pedido'[d].tabla])
            /\ comp # Nada /\ comp.tabla = pedido'[d].tabla
                  => est[d] \in Abriendo /\ pedido[d].tabla = pedido'[d].tabla
    BY <2>1, <2>2, <2>3, <2>4 DEF VentanaInv, CreateSinBins
  <2> QED
    BY <1>0, <2>1, <2>5, VentanaQuieta
<1> QED
  BY <1>1, <1>3, <1>4, <1>5, <1>6 DEF Pedir

LEMMA VentanaSeguir ==
  ASSUME VentanaInv, SinSolape, TInv', NEW c \in Clientes, Seguir(c)
  PROVE  VentanaInv'
<1>0. TiposClientes /\ TiposArchivos /\ Turno
  BY DEF VentanaInv, TInv
<1>1. /\ \A t \in Tablas \ directorio : archivos[t] = SinArchivos
      /\ \A d \in Clientes : est[d] \in Abriendo => ~HayBins(archivos[pedido[d].tabla])
  BY DEF VentanaInv, TodoEnDirectorio, CreateSinBins
<1>2. CASE \/ InsertGuarda(c) \/ SelectLee(c) \/ DescribeMira(c) \/ DescribeAbre(c)
           \/ DropMetadata(c) \/ CreateSinEspacio(c) \/ CreateTermina(c)
           \/ (CreateSinDir(c) /\ Responde(c) /\ comp' = comp)
  <2>1. PICK e \in {"reposo", "describe", "abre", "nulo", "rmdir", "borra"} :
           est' = [est EXCEPT ![c] = e]
    BY <1>2 DEF InsertGuarda, SelectLee, DescribeMira, DescribeAbre, DropMetadata,
                CreateSinEspacio, CreateTermina, Sigue, Responde, Espera
  <2>2. \A d \in Clientes \ {c} : pedido'[d] = pedido[d]
    BY <1>0, <1>2
       DEF TiposClientes, InsertGuarda, SelectLee, DescribeMira, DescribeAbre,
           DropMetadata, CreateSinEspacio, CreateTermina, Sigue, Responde, Espera
  <2>3. UNCHANGED <<comp, archivos, directorio>>
    BY <1>2 DEF InsertGuarda, SelectLee, DescribeMira, DescribeAbre, DropMetadata,
                CreateSinEspacio, CreateTermina, CreateSinDir, disco
  <2>4. \A d \in Clientes : est'[d] \in Abriendo
                               => est[d] \in Abriendo /\ pedido'[d] = pedido[d]
    BY <1>0, <2>1, <2>2 DEF TiposClientes, Abriendo
  <2> QED
    BY <2>3, <2>4, VentanaIgual
<1>3. CASE SelectMuere(c) \/ DescribeMuere(c) \/ (CreateSinDir(c) /\ Morir)
  BY <1>3, VentanaIgual DEF SelectMuere, DescribeMuere, CreateSinDir, Morir, disco, Abriendo
<1>4. CASE DropBorra(c)
  <2>1. comp = Nada /\ comp' = Nada
    BY <1>0, <1>4, NadieAssumption DEF DropBorra, Turno
  <2>2. /\ archivos' = [archivos EXCEPT ![pedido[c].tabla] = SinArchivos]
        /\ est' = [est EXCEPT ![c] = "remove"] /\ pedido' = pedido /\ directorio' = directorio
    BY <1>4 DEF DropBorra
  <2>3. \A t \in Tablas : archivos'[t] = IF t = pedido[c].tabla THEN SinArchivos ELSE archivos[t]
    BY <1>0, <2>2 DEF TiposArchivos
  <2>4. ~HayBins(SinArchivos)
    BY CarpetaVacia DEF HayBins
  <2>5. ASSUME NEW d \in Clientes, est'[d] \in Abriendo
        PROVE  ~HayBins(archivos'[pedido'[d].tabla])
    <3>1. est[d] \in Abriendo
      BY <1>0, <2>2, <2>5 DEF TiposClientes, Abriendo
    <3>2. pedido[d].tabla \in Tablas
      BY <1>0, <3>1 DEF TiposClientes, PedidoTipo, Abriendo
    <3> QED
      BY <1>1, <2>2, <2>3, <2>4, <3>1, <3>2
  <2> QED
    BY <1>1, <2>1, <2>2, <2>3, <2>5, VentanaSinComp
<1>5. CASE DropTermina(c)
  <2>1. comp = Nada /\ comp' = Nada
    BY <1>0, <1>5, NadieAssumption DEF DropTermina, Turno
  <2>2. /\ archivos' = archivos /\ est' = [est EXCEPT ![c] = "reposo"]
        /\ pedido' = [pedido EXCEPT ![c] = Nada]
        /\ \/ directorio' = directorio
           \/ /\ directorio' = directorio \ {pedido[c].tabla}
              /\ archivos[pedido[c].tabla] = SinArchivos
    BY <1>5 DEF DropTermina, Responde, Espera
  <2>3. \A d \in Clientes : est'[d] \in Abriendo => est[d] \in Abriendo /\ pedido'[d] = pedido[d]
    BY <1>0, <2>2 DEF TiposClientes, Abriendo
  <2>4. \A t \in Tablas \ directorio' : archivos'[t] = SinArchivos
    BY <1>1, <2>2
  <2> QED
    BY <1>1, <2>1, <2>2, <2>3, <2>4, VentanaSinComp
<1>6. CASE CreateParticiones(c)
  <2> DEFINE t == pedido[c].tabla
             n == pedido[c].particiones
  <2>1. t \in Tablas /\ n \in Nat /\ est[c] \in Abriendo /\ t \in directorio
    BY <1>0, <1>6, ParticionesAssumption
       DEF CreateParticiones, TiposClientes, PedidoTipo, Abriendo
  <2>2. EsCarpeta(archivos[t]) /\ ~HayBins(archivos[t])
    BY <1>0, <1>1, <2>1 DEF TiposArchivos
  <2>3. \A x \in DOMAIN archivos[t] : x \in Bins(n) => ToSet(archivos[t][x]) = {}
    BY <2>2 DEF HayBins, Bins
  <2>4. /\ archivos' = [archivos EXCEPT ![t] = ConParticiones(t, n)]
        /\ est' = [est EXCEPT ![c] = "cierra"] /\ pedido' = pedido
        /\ directorio' = directorio /\ comp' = comp
    BY <1>6 DEF CreateParticiones
  <2>5. ASSUME NEW d \in Clientes, est'[d] \in Abriendo
        PROVE  d # c /\ est[d] \in Abriendo /\ pedido[d].tabla \in Tablas /\ pedido[d].tabla # t
    <3>1. d # c /\ est[d] \in Abriendo
      BY <1>0, <2>4, <2>5 DEF TiposClientes, Abriendo
    <3> QED
      BY <1>0, <2>1, <3>1 DEF SinSolape, TiposClientes, PedidoTipo, Abriendo
  <2> HIDE DEF t, n
  <2>6. /\ FilasEnArchivos(ConParticiones(t, n)) = FilasEnArchivos(archivos[t])
        /\ \A x \in DOMAIN ConParticiones(t, n) : x[1] = "bin" \/ x \in DOMAIN archivos[t]
    BY <2>1, <2>2, <2>3, ParticionesVacias
  <2>7. \A u \in Tablas : archivos'[u] = IF u = t THEN ConParticiones(t, n) ELSE archivos[u]
    BY <1>0, <2>4 DEF TiposArchivos
  <2>8. \A d \in Clientes : est'[d] \in Abriendo =>
            ~HayBins(archivos'[pedido'[d].tabla]) /\ est[d] \in Abriendo
    BY <1>1, <2>4, <2>5, <2>7
  <2>9. \A u \in Tablas \ directorio' : archivos'[u] = SinArchivos
    BY <1>1, <2>1, <2>4, <2>7
  <2>10. /\ \A u \in Tablas : FilasEnArchivos(archivos'[u]) = FilasEnArchivos(archivos[u])
         /\ \A u \in Tablas : \A x \in DOMAIN archivos'[u] : x[1] = "bin" \/ x \in DOMAIN archivos[u]
    BY <2>6, <2>7
  <2> QED
    BY <2>4, <2>8, <2>9, <2>10, VentanaQuieta
<1>7. CASE CreateDir(c)
  <2> DEFINE t == pedido[c].tabla
  <2>1. /\ est[c] = "crea" /\ est' = [est EXCEPT ![c] = "particiona"] /\ pedido' = pedido
        /\ directorio' = directorio \cup {t}
        /\ archivos' = archivos /\ comp' = comp
    BY <1>7 DEF CreateDir
  <2> HIDE DEF t
  <2>2. \A d \in Clientes : est'[d] \in Abriendo => est[d] \in Abriendo
    BY <1>0, <2>1 DEF TiposClientes, Abriendo
  <2>3. \A d \in Clientes : est'[d] \in Abriendo =>
            /\ ~HayBins(archivos'[pedido'[d].tabla])
            /\ est[d] \in Abriendo /\ pedido[d].tabla = pedido'[d].tabla
    BY <1>1, <2>1, <2>2
  <2>4. directorio \subseteq directorio' /\ \A u \in Tablas \ directorio' : archivos'[u] = SinArchivos
    BY <1>1, <2>1
  <2> QED
    BY <2>1, <2>3, <2>4, VentanaQuieta
<1>8. CreateSinDir(c) => Morir \/ (Responde(c) /\ comp' = comp)
  BY DEF CreateSinDir
<1> QED
  BY <1>2, <1>3, <1>4, <1>5, <1>6, <1>7, <1>8 DEF Seguir

LEMMA VentanaDump ==
  ASSUME VentanaInv, TInv', Dump
  PROVE  VentanaInv'
<1>0. TiposClientes /\ TiposArchivos /\ TiposTablas /\ Turno
  BY DEF VentanaInv, TInv
<1>1. ASSUME NEW t \in Tablas, DumpTabla(t)
      PROVE  VentanaInv'
  <2> DEFINE n == NuevoTemporal(t)
  <2>1. comp = Nada /\ comp' = Nada
    BY <1>0, <1>1 DEF DumpTabla, Turno
  <2>2. n \in Nombres /\ n[1] = "tmp" /\ memtable[t] \in Seq(Filas) /\ EsCarpeta(archivos[t])
    BY <1>0, NuevoTemporalEs DEF TiposArchivos, TiposTablas
  <2>3. \/ archivos' = archivos
        \/ t \in directorio /\ \E l \in Seq(Filas) :
              archivos' = [archivos EXCEPT ![t] = ConUno(archivos[t], n, l)]
    BY <1>0, <1>1, DumpAgrega DEF VentanaInv
  <2>4. \A l \in Seq(Filas) : DOMAIN ConUno(archivos[t], n, l) = DOMAIN archivos[t] \cup {n}
    BY <2>2, CarpetaAgrega
  <2> HIDE DEF n
  <2>5. /\ \A u \in Tablas : HayBins(archivos'[u]) => HayBins(archivos[u])
        /\ \A u \in Tablas \ directorio : archivos'[u] = archivos[u]
    BY <1>0, <2>2, <2>3, <2>4 DEF HayBins, TiposArchivos
  <2>6. directorio' = directorio /\ est' = est /\ pedido' = pedido
    BY <1>1 DEF DumpTabla, clientes
  <2>7. \A d \in Clientes : est[d] \in Abriendo => pedido[d].tabla \in Tablas
    BY <1>0 DEF TiposClientes, PedidoTipo, Abriendo
  <2> QED
    BY <2>1, <2>5, <2>6, <2>7, VentanaSinComp DEF VentanaInv, TodoEnDirectorio, CreateSinBins
<1>2. ASSUME NEW t \in Tablas, DumpMuere(t)
      PROVE  VentanaInv'
  BY <1>2, VentanaIgual DEF DumpMuere, Morir, disco, Abriendo
<1>3. CASE DumpEmpieza \/ DumpTermina
  BY <1>3, VentanaIgual DEF DumpEmpieza, DumpTermina, disco, clientes
<1> QED
  BY <1>1, <1>2, <1>3 DEF Dump

LEMMA VentanaCompactar ==
  ASSUME VentanaInv, TInv', Compactar
  PROVE  VentanaInv'
<1>0. TInv /\ TiposClientes /\ TiposArchivos
  BY DEF VentanaInv, TInv
<1>1. /\ \A t \in Tablas \ directorio : archivos[t] = SinArchivos
      /\ \A d \in Clientes : est[d] \in Abriendo =>
            pedido[d].tabla \in Tablas /\ ~HayBins(archivos[pedido[d].tabla])
  BY <1>0 DEF VentanaInv, TodoEnDirectorio, CreateSinBins, TiposClientes, PedidoTipo, Abriendo
<1>2. ASSUME NEW f, Fase(f)
      PROVE  /\ comp \in Compactaciones /\ comp # Nada /\ comp.fase = f
             /\ comp.tabla \in Tablas /\ comp.tabla \in directorio
             /\ comp.filas \in Seq(Filas) /\ comp.particiones \in Nat
  BY <1>0, <1>2, FaseEs DEF VentanaInv, TodoEnDirectorio
<1>3. ASSUME NEW t \in Tablas, CompSale(t)
      PROVE  VentanaInv'
  BY <1>3, VentanaIgual DEF CompSale, disco, clientes
<1>4. ASSUME NEW t \in Tablas, CompRenombra(t)
      PROVE  VentanaInv'
  <2>1. /\ Leido' /\ comp'.tabla = t /\ comp'.fase = "lee"
        /\ archivos' = [archivos EXCEPT ![t] = Renombrados(t)]
        /\ EsCarpeta(archivos[t]) /\ EsCarpeta(Renombrados(t))
    BY <1>0, <1>4, RenombraLee
  <2>2. t \in directorio
    BY <1>1, <1>4, CarpetaVacia DEF CompRenombra, De
  <2>3. HayBins(Renombrados(t)) => HayBins(archivos[t])
    BY <2>1, CarpetaRenombra DEF HayBins, EsCarpeta
  <2>4. est' = est /\ pedido' = pedido /\ directorio' = directorio
    BY <1>4 DEF CompRenombra, clientes
  <2>5. \A u \in Tablas : archivos'[u] = IF u = t THEN Renombrados(t) ELSE archivos[u]
    BY <1>0, <2>1 DEF TiposArchivos
  <2>6. TodoEnDirectorio'
    BY <1>1, <2>1, <2>2, <2>4, <2>5 DEF TodoEnDirectorio
  <2>7. CreateSinBins'
    BY <1>1, <2>1, <2>3, <2>4, <2>5 DEF CreateSinBins
  <2> QED
    BY <2>1, <2>6, <2>7 DEF VentanaInv, RecreaSinFilas
<1>5. CASE CompLee
  <2>1. Leido' /\ comp'.tabla = comp.tabla /\ comp'.fase = "limpia" /\ archivos' = archivos
    BY <1>0, <1>5, LeeResume DEF VentanaInv
  <2>2. est' = est /\ pedido' = pedido /\ directorio' = directorio
    BY <1>5 DEF CompLee, clientes, disco
  <2>3. comp.tabla \in directorio
    BY <1>2, <1>5 DEF CompLee
  <2> QED
    BY <1>1, <2>1, <2>2, <2>3
       DEF VentanaInv, TodoEnDirectorio, CreateSinBins, RecreaSinFilas
<1>6. CASE CompLimpia
  <2> DEFINE t == comp.tabla
             n == Cardinality(De(t, {"bin"}))
  <2>1. comp \in Compactaciones /\ t \in Tablas /\ t \in directorio
    BY <1>2, <1>6 DEF CompLimpia
  <2>2. /\ archivos' = [archivos EXCEPT ![t] = SinArchivos]
        /\ comp' = [comp EXCEPT !.fase = "recrea", !.particiones = n]
        /\ est' = est /\ pedido' = pedido /\ directorio' = directorio
    BY <1>6 DEF CompLimpia, clientes
  <2>3. comp'.tabla = t /\ comp'.fase = "recrea" /\ comp'.particiones = n
    BY <2>1, <2>2 DEF Compactaciones
  <2>4. \A u \in Tablas : archivos'[u] = IF u = t THEN SinArchivos ELSE archivos[u]
    BY <1>0, <2>2 DEF TiposArchivos
  <2>5. ~HayBins(SinArchivos) /\ FilasEnArchivos(SinArchivos) = {}
    BY CarpetaVacia DEF HayBins, FilasEnArchivos
  <2>6. ~HayBins(archivos[t]) => n = 0
    <3>1. ~HayBins(archivos[t]) => De(t, {"bin"}) = {}
      BY DEF HayBins, De
    <3> QED
      BY <3>1, FS_EmptySet
  <2> HIDE DEF t, n
  <2>7. TodoEnDirectorio'
    BY <1>1, <2>1, <2>2, <2>3, <2>4 DEF TodoEnDirectorio
  <2>8. CreateSinBins'
    BY <1>1, <2>2, <2>3, <2>4, <2>5, <2>6 DEF CreateSinBins
  <2>9. RecreaSinFilas'
    BY <2>1, <2>3, <2>4, <2>5 DEF RecreaSinFilas
  <2>10. Leido'
    BY <2>3 DEF Leido
  <2> QED
    BY <2>7, <2>8, <2>9, <2>10 DEF VentanaInv
<1>7. CASE CompRecrea
  <2> DEFINE t == comp.tabla
             n == comp.particiones
  <2>1. comp \in Compactaciones /\ t \in Tablas /\ t \in directorio /\ n \in Nat
        /\ comp # Nada /\ comp.fase = "recrea"
    BY <1>2, <1>7 DEF CompRecrea
  <2>2. /\ archivos' = [archivos EXCEPT ![t] = ConParticiones(t, n)]
        /\ comp' = [comp EXCEPT !.fase = "guarda"]
        /\ est' = est /\ pedido' = pedido /\ directorio' = directorio
    BY <1>7 DEF CompRecrea, clientes
  <2>3. comp'.tabla = t /\ comp'.fase = "guarda" /\ comp'.particiones = n
    BY <2>1, <2>2 DEF Compactaciones
  <2>4. \A u \in Tablas : archivos'[u] = IF u = t THEN ConParticiones(t, n) ELSE archivos[u]
    BY <1>0, <2>2 DEF TiposArchivos
  <2>5. EsCarpeta(archivos[t])
    BY <1>0, <2>1 DEF TiposArchivos
  <2>6. \A d \in Clientes : est[d] \in Abriendo /\ pedido[d].tabla = t => n = 0
    BY <2>1 DEF VentanaInv, CreateSinBins
  <2> HIDE DEF t, n
  <2>7. n = 0 => DOMAIN ConParticiones(t, n) = DOMAIN archivos[t]
    <3>1. DOMAIN ConParticiones(t, n) = Bins(n) \cup DOMAIN archivos[t]
      BY <2>1, <2>5, CarpetaParticiones
    <3>2. n = 0 => Bins(n) = {}
      BY DEF Bins
    <3> QED
      BY <3>1, <3>2
  <2>8. n = 0 => (HayBins(ConParticiones(t, n)) => HayBins(archivos[t]))
    BY <2>7 DEF HayBins
  <2>9. TodoEnDirectorio'
    BY <1>1, <2>1, <2>2, <2>3, <2>4 DEF TodoEnDirectorio
  <2>10. CreateSinBins'
    BY <1>1, <2>2, <2>3, <2>4, <2>6, <2>8 DEF CreateSinBins
  <2>11. RecreaSinFilas' /\ Leido'
    BY <2>3 DEF RecreaSinFilas, Leido
  <2> QED
    BY <2>9, <2>10, <2>11 DEF VentanaInv
<1>8. CASE CompGuarda
  <2>1. comp \in Compactaciones /\ comp # Nada /\ comp.fase = "guarda"
        /\ comp.tabla \in Tablas /\ comp.tabla \in directorio
    BY <1>2, <1>8 DEF CompGuarda
  <2>2. /\ comp' = [comp EXCEPT !.filas = Tail(comp.filas)]
        /\ est' = est /\ pedido' = pedido /\ directorio' = directorio
    BY <1>8, <2>1 DEF CompGuarda, clientes, Compactaciones
  <2>3. /\ comp'.tabla = comp.tabla /\ comp'.fase = "guarda"
        /\ comp'.particiones = comp.particiones
    BY <2>1, <2>2 DEF Compactaciones
  <2>4. /\ \A u \in Tablas : DOMAIN archivos'[u] = DOMAIN archivos[u]
        /\ \A u \in Tablas \ {comp.tabla} : archivos'[u] = archivos[u]
    BY <1>0, <1>8, <2>1 DEF CompGuarda, TiposArchivos
  <2>5. \A u \in Tablas : HayBins(archivos'[u]) <=> HayBins(archivos[u])
    BY <2>4 DEF HayBins
  <2>6. TodoEnDirectorio'
    BY <1>1, <2>1, <2>2, <2>3, <2>4 DEF TodoEnDirectorio
  <2>7. CreateSinBins'
    BY <1>1, <2>1, <2>2, <2>3, <2>5 DEF VentanaInv, CreateSinBins
  <2>8. RecreaSinFilas' /\ Leido'
    BY <2>3 DEF RecreaSinFilas, Leido
  <2> QED
    BY <2>6, <2>7, <2>8 DEF VentanaInv
<1>9. CASE CompMuere
  <2>1. comp.tabla \in directorio /\ comp' = Nada /\ directorio' = directorio
        /\ \A d \in Clientes : est'[d] \notin Abriendo
    BY <1>2, <1>9 DEF CompMuere, Morir, Abriendo
  <2>2. \A u \in Tablas \ {comp.tabla} : archivos'[u] = archivos[u]
    BY <1>0, <1>9 DEF CompMuere, TiposArchivos
  <2> QED
    BY <1>1, <2>1, <2>2, VentanaSinComp
<1>10. CASE CompTermina
  BY <1>10, VentanaIgual DEF CompTermina, disco, clientes
<1>11. ASSUME NEW t \in Tablas, CompRenombraFalla(t)
       PROVE  VentanaInv'
  <2>1. PICK M \in SUBSET De(t, {"tmp"}) :
           M # De(t, {"tmp"}) /\ archivos' = [archivos EXCEPT ![t] = RenombradosDe(t, M)]
    BY <1>11 DEF CompRenombraFalla
  <2>2. comp = Nada /\ comp' = Nada
    BY <1>0, <1>11, NadieAssumption DEF CompRenombraFalla, TInv, Turno
  <2>3. est' = est /\ pedido' = pedido /\ directorio' = directorio
    BY <1>11 DEF CompRenombraFalla, clientes
  <2>4. EsCarpeta(archivos[t])
    BY <1>0 DEF TiposArchivos
  <2>5. t \in directorio
    BY <1>1, <2>1, CarpetaVacia DEF De
  <2>6. HayBins(RenombradosDe(t, M)) => HayBins(archivos[t])
    BY <2>4, BinsQuietos, CarpetaRenombraDe DEF HayBins, EsCarpeta
  <2>7. \A u \in Tablas : archivos'[u] = IF u = t THEN RenombradosDe(t, M) ELSE archivos[u]
    BY <1>0, <2>1 DEF TiposArchivos
  <2>8. \A u \in Tablas \ directorio' : archivos'[u] = SinArchivos
    BY <1>1, <2>3, <2>5, <2>7
  <2>9. \A d \in Clientes : est'[d] \in Abriendo => ~HayBins(archivos'[pedido'[d].tabla])
    BY <1>1, <2>3, <2>6, <2>7
  <2> QED
    BY <2>2, <2>8, <2>9, VentanaSinComp
<1> QED
  BY <1>3, <1>4, <1>5, <1>6, <1>7, <1>8, <1>9, <1>10, <1>11 DEF Compactar

LEMMA VentanaNext ==
  ASSUME VentanaInv, SinSolape, [Next]_vars
  PROVE  VentanaInv'
<1>1. TInv'
  BY TNext DEF VentanaInv
<1>2. CASE UNCHANGED vars
  BY <1>1, <1>2, VentanaIgual DEF vars, disco, clientes
<1>3. CASE Caida \/ Arrancar
  BY <1>1, <1>3, VentanaIgual DEF Caida, Arrancar, Morir, disco, clientes, Abriendo
<1> QED
  BY <1>1, <1>2, <1>3, VentanaPedir, VentanaSeguir, VentanaDump, VentanaCompactar DEF Next

\* What a table keeps outside of the memtable.
Guardadas(a, m, t) == FilasEnArchivos(a) \cup FilasEnMano(m, t)

\* The step takes no row of t for which a stop, a DROP or a failure would be to blame.
SinCulpable(t) ==
    /\ ~\E c \in Clientes : DropBorra(c) /\ pedido[c].tabla = t
    /\ fallas' = fallas
    /\ ~(EnVentana(t) /\ ~vivo')
    /\ ~PisaTmpc(t)

LEMMA GuardadasTipo ==
  ASSUME TInv, NEW t \in Tablas
  PROVE  Guardadas(archivos[t], comp, t) \in SUBSET Filas
  BY FilasFinitas DEF TInv, TiposArchivos, TiposTablas, Guardadas

LEMMA CubreMas ==
  ASSUME NEW R \in SUBSET Filas, NEW S, R \subseteq S
  PROVE  Cubre(R, S)
  BY FilasTipo DEF Cubre

LEMMA CubreTodo ==
  ASSUME TInv, NEW t \in Tablas, FilasEnArchivos(archivos[t]) \subseteq FilasEnArchivos(archivos'[t]),
         \/ FilasEnMano(comp, t) \subseteq FilasEnMano(comp', t)
         \/ FilasEnMano(comp, t) \subseteq FilasEnArchivos(archivos'[t])
  PROVE  Cubre(Guardadas(archivos[t], comp, t), Guardadas(archivos'[t], comp', t))
<1>1. Guardadas(archivos[t], comp, t) \subseteq Guardadas(archivos'[t], comp', t)
  BY DEF Guardadas
<1> QED
  BY <1>1, GuardadasTipo, CubreMas

\* LFS stops, and not while the rows of t are only in memory.
LEMMA CubreMuere ==
  ASSUME VentanaInv, NEW t \in Tablas, archivos'[t] = archivos[t], comp' = Nada, ~EnVentana(t)
  PROVE  Cubre(Guardadas(archivos[t], comp, t), Guardadas(archivos'[t], comp', t))
<1>1. FilasEnMano(comp, t) \subseteq FilasEnArchivos(archivos[t])
  <2>1. CASE comp # Nada /\ comp.tabla = t
    <3>1. comp.fase \in {"lee", "limpia"}
      BY <2>1 DEF EnVentana, VentanaInv, TInv, TiposTablas, Compactaciones
    <3>2. FilasEnMano(comp, t) = ToSet(comp.filas)
      BY <2>1 DEF FilasEnMano
    <3>3. CASE comp.fase = "lee"
      BY <2>1, <3>2, <3>3 DEF VentanaInv, Leido, ToSet
    <3>4. CASE comp.fase = "limpia"
      BY <2>1, <3>2, <3>4, FilasSon DEF VentanaInv, Leido, Resume
    <3> QED
      BY <3>1, <3>3, <3>4
  <2>2. CASE ~(comp # Nada /\ comp.tabla = t)
    BY <2>2 DEF FilasEnMano
  <2> QED
    BY <2>1, <2>2
<1> QED
  BY <1>1, CubreTodo DEF VentanaInv

LEMMA CubreSeguir ==
  ASSUME VentanaInv, NEW c \in Clientes, Seguir(c), NEW t \in Tablas, SinCulpable(t)
  PROVE  Cubre(Guardadas(archivos[t], comp, t), Guardadas(archivos'[t], comp', t))
<1>0. TInv /\ TiposArchivos /\ TiposClientes
  BY DEF VentanaInv, TInv
<1>1. CASE archivos'[t] = archivos[t] /\ comp' = comp
  BY <1>0, <1>1, CubreTodo
<1>2. CASE DropBorra(c)
  <2>1. pedido[c].tabla # t
    BY <1>2 DEF SinCulpable
  <2> QED
    BY <1>0, <1>1, <1>2, <2>1 DEF DropBorra, TiposArchivos
<1>3. CASE CreateParticiones(c)
  <2> DEFINE n == pedido[c].particiones
  <2>1. n \in Nat /\ est[c] \in Abriendo /\ comp' = comp
        /\ archivos' = [archivos EXCEPT ![pedido[c].tabla] = ConParticiones(pedido[c].tabla, n)]
    BY <1>0, <1>3, ParticionesAssumption
       DEF CreateParticiones, TiposClientes, PedidoTipo, Abriendo
  <2> HIDE DEF n
  <2>2. CASE pedido[c].tabla = t
    <3>1. EsCarpeta(archivos[t]) /\ ~HayBins(archivos[t])
      BY <1>0, <2>1, <2>2 DEF TiposArchivos, VentanaInv, CreateSinBins
    <3>2. \A x \in DOMAIN archivos[t] : x \in Bins(n) => ToSet(archivos[t][x]) = {}
      BY <3>1 DEF HayBins, Bins
    <3>3. FilasEnArchivos(ConParticiones(t, n)) = FilasEnArchivos(archivos[t])
      BY <2>1, <3>1, <3>2, ParticionesVacias
    <3>4. archivos'[t] = ConParticiones(t, n)
      BY <1>0, <2>1, <2>2 DEF TiposArchivos
    <3> QED
      BY <1>0, <2>1, <3>3, <3>4, CubreTodo
  <2>3. CASE pedido[c].tabla # t
    BY <1>0, <1>1, <2>1, <2>3 DEF TiposArchivos
  <2> QED
    BY <2>2, <2>3
<1>4. CASE archivos' = archivos /\ Morir
  BY <1>4, CubreMuere DEF Morir, SinCulpable
<1> QED
  BY <1>1, <1>2, <1>3, <1>4
     DEF Seguir, InsertGuarda, SelectLee, SelectMuere, DescribeMira, DescribeAbre,
         DescribeMuere, DropMetadata, DropTermina, CreateDir, CreateSinEspacio,
         CreateSinDir, CreateTermina, disco

LEMMA CubreDump ==
  ASSUME VentanaInv, Dump, NEW t \in Tablas, SinCulpable(t)
  PROVE  Cubre(Guardadas(archivos[t], comp, t), Guardadas(archivos'[t], comp', t))
<1>0. TInv /\ TiposArchivos /\ TiposTablas
  BY DEF VentanaInv, TInv
<1>1. CASE archivos'[t] = archivos[t] /\ comp' = comp
  BY <1>0, <1>1, CubreTodo
<1>2. ASSUME NEW u \in Tablas, DumpTabla(u)
      PROVE  Cubre(Guardadas(archivos[t], comp, t), Guardadas(archivos'[t], comp', t))
  <2> DEFINE n == NuevoTemporal(t)
  <2>1. comp' = comp
    BY <1>2 DEF DumpTabla
  <2>2. CASE archivos'[t] = archivos[t]
    BY <1>1, <2>1, <2>2
  <2>3. ASSUME archivos'[t] # archivos[t]
        PROVE  \E l \in Seq(Filas) : archivos'[t] = ConUno(archivos[t], n, l)
    <3>1. u = t
      BY <1>0, <1>2, <2>3 DEF DumpTabla, TiposArchivos
    <3> QED
      BY <1>0, <1>2, <2>3, <3>1, DumpAgrega DEF TiposArchivos
  <2>4. CASE archivos'[t] # archivos[t]
    <3>1. PICK l \in Seq(Filas) : archivos'[t] = ConUno(archivos[t], n, l)
      BY <2>3, <2>4
    <3>2. EsCarpeta(archivos[t]) /\ n \in Nombres /\ n \notin DOMAIN archivos[t]
      BY <1>0, NuevoTemporalEs DEF TiposArchivos
    <3> HIDE DEF n
    <3>3. /\ DOMAIN archivos'[t] = DOMAIN archivos[t] \cup {n}
          /\ \A x \in DOMAIN archivos[t] : archivos'[t][x] = archivos[t][x]
      <4>1. ConUno(archivos[t], n, l) = [x \in DOMAIN archivos[t] \cup {n} |->
                                           IF x = n THEN l ELSE archivos[t][x]]
        BY DEF ConUno, ConArchivos
      <4> QED
        BY <3>1, <3>2, <4>1
    <3>4. FilasEnArchivos(archivos[t]) \subseteq FilasEnArchivos(archivos'[t])
      BY <3>3 DEF FilasEnArchivos
    <3> QED
      BY <1>0, <2>1, <3>4, CubreTodo
  <2> QED
    BY <2>2, <2>4
<1>3. CASE archivos' = archivos /\ Morir
  BY <1>3, CubreMuere DEF Morir, SinCulpable
<1> QED
  BY <1>1, <1>2, <1>3 DEF Dump, DumpEmpieza, DumpMuere, DumpTermina, disco

LEMMA CabezaYCola ==
  ASSUME NEW l \in Seq(Filas), l # <<>>
  PROVE  /\ Head(l) \in Filas /\ Tail(l) \in Seq(Filas)
         /\ ToSet(l) = {Head(l)} \cup ToSet(Tail(l))
<1>1. Len(l) \in Nat \ {0} /\ DOMAIN l = 1 .. Len(l) /\ Head(l) = l[1] /\ l[1] \in Filas
  BY EmptySeq, HeadTailProperties
<1>2. /\ Tail(l) \in Seq(Filas) /\ DOMAIN Tail(l) = 1 .. Len(l) - 1
      /\ \A i \in 1 .. Len(l) - 1 : Tail(l)[i] = l[i + 1]
  BY <1>1, HeadTailProperties
<1>3. ToSet(l) \subseteq {Head(l)} \cup ToSet(Tail(l))
  <2> SUFFICES ASSUME NEW i \in 1 .. Len(l), i # 1 PROVE l[i] \in ToSet(Tail(l))
    BY <1>1 DEF ToSet
  <2>1. i - 1 \in 1 .. Len(l) - 1 /\ (i - 1) + 1 = i
    BY <1>1
  <2>2. Tail(l)[i - 1] = l[i]
    BY <1>2, <2>1
  <2> QED
    BY <1>2, <2>1, <2>2 DEF ToSet
<1>4. {Head(l)} \cup ToSet(Tail(l)) \subseteq ToSet(l)
  <2>1. \A i \in 1 .. Len(l) - 1 : i + 1 \in 1 .. Len(l)
    BY <1>1
  <2>2. 1 \in 1 .. Len(l)
    BY <1>1
  <2> QED
    BY <1>1, <1>2, <2>1, <2>2 DEF ToSet
<1> QED
  BY <1>1, <1>2, <1>3, <1>4

LEMMA CubreCompactar ==
  ASSUME VentanaInv, fallas \in Nat, Compactar, NEW t \in Tablas, SinCulpable(t)
  PROVE  Cubre(Guardadas(archivos[t], comp, t), Guardadas(archivos'[t], comp', t))
<1>0. TInv /\ TiposArchivos /\ Leido
  BY DEF VentanaInv, TInv
<1>1. CASE archivos'[t] = archivos[t] /\ FilasEnMano(comp, t) \subseteq FilasEnMano(comp', t)
  BY <1>0, <1>1, CubreTodo
<1>2. ASSUME NEW f, Fase(f)
      PROVE  /\ comp \in Compactaciones /\ comp # Nada /\ comp.fase = f
             /\ comp.tabla \in Tablas /\ comp.filas \in Seq(Filas) /\ comp.particiones \in Nat
  BY <1>0, <1>2, FaseEs
<1>3. ASSUME NEW u \in Tablas, CompSale(u)
      PROVE  Cubre(Guardadas(archivos[t], comp, t), Guardadas(archivos'[t], comp', t))
  BY <1>1, <1>3 DEF CompSale, disco
<1>4. ASSUME NEW u \in Tablas, CompRenombra(u)
      PROVE  Cubre(Guardadas(archivos[t], comp, t), Guardadas(archivos'[t], comp', t))
  <2>1. FilasEnMano(comp, t) = {}
    BY <1>0, <1>4, NadieAssumption DEF CompRenombra, TInv, Turno, FilasEnMano
  <2>2. archivos' = [archivos EXCEPT ![u] = Renombrados(u)]
    BY <1>4 DEF CompRenombra
  <2>3. CASE u # t
    BY <1>0, <1>1, <2>1, <2>2, <2>3 DEF TiposArchivos
  <2>4. CASE u = t
    <3>1. archivos'[t] = Renombrados(t) /\ EsCarpeta(archivos[t])
      BY <1>0, <2>2, <2>4 DEF TiposArchivos
    <3>2. \A n \in De(t, {"tmp"}) : <<"tmpc", n[2]>> \notin De(t, {"tmpc"})
      BY <1>4, <2>4 DEF SinCulpable, PisaTmpc
    <3>3. ASSUME NEW n \in DOMAIN archivos[t]
          PROVE  \E m \in DOMAIN Renombrados(t) : Renombrados(t)[m] = archivos[t][n]
      <4>1. n \in Nombres
        BY <3>1 DEF EsCarpeta
      <4>2. CASE n[1] = "bin"
        BY <3>1, <4>1, <4>2, CarpetaRenombra
      <4>3. CASE n[1] = "tmp"
        <5>1. n = <<"tmp", n[2]>> /\ <<"tmpc", n[2]>> \in Nombres
          BY <4>1, <4>3 DEF Nombres
        <5>2. PICK m \in Nombres : m = <<"tmpc", n[2]>> /\ m[1] = "tmpc" /\ m[2] = n[2]
          BY <5>1
        <5>3. <<"tmp", m[2]>> = n
          BY <5>1, <5>2
        <5>4. m \in DOMAIN Renombrados(t)
          BY <3>1, <5>2, <5>3, CarpetaRenombra
        <5>5. Renombrados(t)[m] = archivos[t][<<"tmp", m[2]>>]
          BY <3>1, <5>2, <5>3, <5>4, CarpetaRenombra
        <5> QED
          BY <5>3, <5>4, <5>5
      <4>4. CASE n[1] = "tmpc"
        <5>1. n = <<"tmpc", n[2]>> /\ n \in De(t, {"tmpc"})
          BY <4>1, <4>4 DEF Nombres, De
        <5>2. ASSUME <<"tmp", n[2]>> \in DOMAIN archivos[t] PROVE FALSE
          <6>1. <<"tmp", n[2]>> \in De(t, {"tmp"})
            BY <5>2 DEF De
          <6> QED
            BY <3>2, <5>1, <6>1
        <5>3. n \in DOMAIN Renombrados(t)
          BY <3>1, <4>1, <4>4, CarpetaRenombra
        <5>4. Renombrados(t)[n] = archivos[t][n]
          BY <3>1, <4>4, <5>2, <5>3, CarpetaRenombra
        <5> QED
          BY <5>3, <5>4
      <4> QED
        BY <4>1, <4>2, <4>3, <4>4 DEF Nombres
    <3>4. FilasEnArchivos(archivos[t]) \subseteq FilasEnArchivos(archivos'[t])
      <4> SUFFICES ASSUME NEW f \in FilasEnArchivos(archivos[t])
                   PROVE  f \in FilasEnArchivos(archivos'[t])
        OBVIOUS
      <4>1. PICK n \in DOMAIN archivos[t] : f \in ToSet(archivos[t][n])
        BY DEF FilasEnArchivos
      <4>2. PICK m \in DOMAIN Renombrados(t) : Renombrados(t)[m] = archivos[t][n]
        BY <3>3
      <4> QED
        BY <3>1, <4>1, <4>2 DEF FilasEnArchivos
    <3> QED
      BY <1>0, <2>1, <3>4, CubreTodo
  <2> QED
    BY <2>3, <2>4
<1>5. CASE CompLee
  <2>1. Fase("lee") /\ comp.filas = <<>>
    BY <1>0, <1>2, <1>5 DEF CompLee, Leido
  <2>2. FilasEnMano(comp, t) = {}
    BY <2>1 DEF FilasEnMano, ToSet
  <2> QED
    BY <1>1, <1>5, <2>2 DEF CompLee, disco
<1>6. CASE CompLimpia
  <2>1. /\ comp \in Compactaciones /\ comp # Nada /\ comp.fase = "limpia"
        /\ comp' = [comp EXCEPT !.fase = "recrea",
                               !.particiones = Cardinality(De(comp.tabla, {"bin"}))]
        /\ archivos' = [archivos EXCEPT ![comp.tabla] = SinArchivos]
    BY <1>2, <1>6 DEF CompLimpia
  <2>2. comp' \in Compactaciones /\ comp'.tabla = comp.tabla /\ comp'.filas = comp.filas
    <3>1. Cardinality(De(comp.tabla, {"bin"})) \in Nat
      BY <1>0, <1>2, <1>6, ContarBins DEF CompLimpia
    <3> QED
      BY <2>1, <3>1 DEF Compactaciones
  <2>3. FilasEnMano(comp', t) = FilasEnMano(comp, t)
    BY <2>1, <2>2, NadaAssumption DEF FilasEnMano
  <2>4. CASE comp.tabla # t
    BY <1>0, <1>1, <2>1, <2>3, <2>4 DEF TiposArchivos
  <2>5. CASE comp.tabla = t
    <3>1. FilasEnMano(comp, t) = ToSet(comp.filas)
      BY <2>1, <2>5 DEF FilasEnMano
    <3>2. Resume(ToSet(comp.filas), FilasEnArchivos(archivos[t]))
      BY <1>0, <2>1, <2>5, FilasSon DEF Leido
    <3>3. Cubre(FilasEnArchivos(archivos[t]), ToSet(comp.filas))
      BY <3>2 DEF Resume, Cubre
    <3>4. FilasEnMano(comp, t) \in SUBSET Filas
      BY <1>0, GuardadasTipo DEF Guardadas
    <3>5. Cubre(ToSet(comp.filas), ToSet(comp.filas))
      BY <3>1, <3>4, CubreMas
    <3> QED
      BY <2>3, <3>1, <3>3, <3>5 DEF Cubre, Guardadas
  <2> QED
    BY <2>4, <2>5
<1>7. CASE CompRecrea
  <2>1. /\ comp \in Compactaciones /\ comp # Nada /\ comp.fase = "recrea"
        /\ comp.tabla \in Tablas /\ comp.particiones \in Nat
        /\ comp' = [comp EXCEPT !.fase = "guarda"]
        /\ archivos' = [archivos EXCEPT ![comp.tabla] =
                                            ConParticiones(comp.tabla, comp.particiones)]
    BY <1>2, <1>7 DEF CompRecrea
  <2>2. comp' \in Compactaciones /\ comp'.tabla = comp.tabla /\ comp'.filas = comp.filas
    BY <2>1 DEF Compactaciones
  <2>3. FilasEnMano(comp', t) = FilasEnMano(comp, t)
    BY <2>1, <2>2, NadaAssumption DEF FilasEnMano
  <2>4. CASE comp.tabla # t
    BY <1>0, <1>1, <2>1, <2>3, <2>4 DEF TiposArchivos
  <2>5. CASE comp.tabla = t
    <3>1. FilasEnArchivos(archivos[t]) = {}
      BY <2>1, <2>5 DEF VentanaInv, RecreaSinFilas
    <3> QED
      BY <1>0, <2>3, <3>1, CubreTodo
  <2> QED
    BY <2>4, <2>5
<1>8. CASE CompGuarda
  <2> DEFINE f == Head(comp.filas)
             n == Destino(comp.tabla, f.key)
  <2>1. /\ comp \in Compactaciones /\ comp # Nada /\ comp.fase = "guarda"
        /\ comp.tabla \in Tablas /\ comp.filas \in Seq(Filas) /\ comp.filas # <<>>
        /\ comp' = [comp EXCEPT !.filas = Tail(comp.filas)]
        /\ n \in DOMAIN archivos[comp.tabla]
    BY <1>2, <1>8 DEF CompGuarda, Hallada, Destino, Compactaciones
  <2>2. archivos' = [archivos EXCEPT ![comp.tabla][n] = Append(@, f)]
    BY <1>8 DEF CompGuarda, Falla, SinCulpable
  <2>3. f \in Filas /\ Tail(comp.filas) \in Seq(Filas)
        /\ ToSet(comp.filas) = {f} \cup ToSet(Tail(comp.filas))
    BY <2>1, CabezaYCola
  <2>4. comp' \in Compactaciones /\ comp'.tabla = comp.tabla /\ comp'.filas = Tail(comp.filas)
    BY <2>1, <2>3 DEF Compactaciones
  <2> HIDE DEF f, n
  <2>5. CASE comp.tabla # t
    <3>1. FilasEnMano(comp, t) = {} /\ archivos'[t] = archivos[t]
      BY <1>0, <2>1, <2>2, <2>5 DEF TiposArchivos, FilasEnMano
    <3> QED
      BY <1>1, <3>1
  <2>6. CASE comp.tabla = t
    <3>1. archivos'[t] = [archivos[t] EXCEPT ![n] = Append(archivos[t][n], f)]
      BY <1>0, <2>1, <2>2, <2>6 DEF TiposArchivos
    <3>2. archivos[t][n] \in Seq(Filas)
      BY <1>0, <2>1, <2>6 DEF TiposArchivos, EsCarpeta
    <3>3. ToSet(Append(archivos[t][n], f)) = ToSet(archivos[t][n]) \cup {f}
      BY <2>3, <3>2, ToSetAgrega
    <3>4. /\ DOMAIN archivos'[t] = DOMAIN archivos[t]
          /\ archivos'[t][n] = Append(archivos[t][n], f)
          /\ \A m \in DOMAIN archivos[t] \ {n} : archivos'[t][m] = archivos[t][m]
      BY <2>1, <2>6, <3>1
    <3>5. FilasEnArchivos(archivos[t]) \cup {f} \subseteq FilasEnArchivos(archivos'[t])
      <4>1. n \in DOMAIN archivos[t]
        BY <2>1, <2>6
      <4>2. \A m \in DOMAIN archivos[t] : ToSet(archivos[t][m]) \subseteq ToSet(archivos'[t][m])
        BY <3>3, <3>4
      <4>3. FilasEnArchivos(archivos[t]) \subseteq FilasEnArchivos(archivos'[t])
        BY <3>4, <4>2 DEF FilasEnArchivos
      <4>4. f \in FilasEnArchivos(archivos'[t])
        BY <3>3, <3>4, <4>1 DEF FilasEnArchivos
      <4> QED
        BY <4>3, <4>4
    <3>6. FilasEnMano(comp, t) = {f} \cup FilasEnMano(comp', t)
      BY <2>1, <2>3, <2>4, <2>6, NadaAssumption DEF FilasEnMano
    <3>7. Guardadas(archivos[t], comp, t) \subseteq Guardadas(archivos'[t], comp', t)
      BY <3>5, <3>6 DEF Guardadas
    <3> QED
      BY <1>0, <3>7, GuardadasTipo, CubreMas
  <2> QED
    BY <2>5, <2>6
<1>9. CASE CompMuere
  <2>1. comp # Nada /\ comp.fase \in {"recrea", "guarda"} /\ comp.tabla \in Tablas
    BY <1>2, <1>9 DEF CompMuere
  <2>2. ~vivo'
    BY <1>9 DEF CompMuere, Morir
  <2>3. comp.tabla # t
    BY <2>1, <2>2 DEF SinCulpable, EnVentana
  <2>4. archivos'[t] = archivos[t]
    BY <1>0, <1>9, <2>3 DEF CompMuere, TiposArchivos
  <2>5. FilasEnMano(comp, t) = {}
    BY <2>3 DEF FilasEnMano
  <2> QED
    BY <1>1, <2>4, <2>5
<1>10. CASE CompTermina
  <2>1. comp.filas = <<>> /\ archivos' = archivos
    BY <1>10 DEF CompTermina, disco
  <2>2. FilasEnMano(comp, t) = {}
    BY <2>1 DEF FilasEnMano, ToSet
  <2> QED
    BY <1>1, <2>1, <2>2
<1>11. ~\E u \in Tablas : CompRenombraFalla(u)
  BY DEF CompRenombraFalla, Falla, SinCulpable
<1> QED
  BY <1>3, <1>4, <1>5, <1>6, <1>7, <1>8, <1>9, <1>10, <1>11 DEF Compactar

LEMMA CubreNext ==
  ASSUME VentanaInv, fallas \in Nat, [Next]_vars, NEW t \in Tablas, SinCulpable(t)
  PROVE  Cubre(Guardadas(archivos[t], comp, t), Guardadas(archivos'[t], comp', t))
<1>1. CASE archivos' = archivos /\ comp' = comp
  BY <1>1, CubreTodo DEF VentanaInv
<1>2. CASE archivos' = archivos /\ Morir
  BY <1>2, CubreMuere DEF Morir, SinCulpable
<1>3. ASSUME NEW c \in Clientes, Pedir(c)
      PROVE  archivos' = archivos /\ (comp' = comp \/ Morir)
  BY <1>3 DEF Pedir, Rechaza, InsertMira, SelectMira, DescribeUna, DescribeTodas, DropMira,
              CreateMira, InsertInvalido, DescribeInvalido, disco, vars
<1>4. CASE Caida \/ Arrancar \/ UNCHANGED vars
  BY <1>1, <1>2, <1>4 DEF Caida, Arrancar, vars, disco
<1> QED
  BY <1>1, <1>2, <1>3, <1>4, CubreSeguir, CubreDump, CubreCompactar DEF Next

\* No step takes the last instant of a key back, unless someone is to blame.
LEMMA VentanaPaso ==
  ASSUME VentanaInv, fallas \in Nat, [Next]_vars, NEW t \in Tablas, SinCulpable(t)
  PROVE  \A k \in Claves : Instante(EnDisco(t) \cup EnComp(t), k)
                             <= Instante(EnDisco(t) \cup EnComp(t), k)'
<1>1. TInv /\ TInv'
  BY TNext DEF VentanaInv
<1>2. /\ EsCarpeta(archivos[t]) /\ comp \in {Nada} \cup Compactaciones
      /\ EsCarpeta(archivos'[t]) /\ comp' \in {Nada} \cup Compactaciones
  BY <1>1 DEF TInv, TiposArchivos, TiposTablas
<1> DEFINE R == Guardadas(archivos[t], comp, t)
           S == Guardadas(archivos'[t], comp', t)
<1>3. R \in SUBSET Filas /\ IsFiniteSet(R) /\ S \in SUBSET Filas /\ IsFiniteSet(S)
  BY <1>2, FilasFinitas DEF Guardadas
<1>4. Cubre(R, S)
  BY CubreNext
<1>5. EnDisco(t) \cup EnComp(t) = R /\ (EnDisco(t) \cup EnComp(t))' = S
  BY FilasSon DEF Guardadas
<1> HIDE DEF R, S
<1>6. ASSUME NEW k \in Claves PROVE Instante(R, k) <= Instante(S, k)
  BY <1>3, <1>4, CubreInstante
<1>7. \A k \in Claves : /\ Instante(EnDisco(t) \cup EnComp(t), k) = Instante(R, k)
                        /\ Instante(EnDisco(t) \cup EnComp(t), k)' = Instante(S, k)
  BY <1>5
<1> QED
  BY <1>6, <1>7

\* As long as no two CREATEs of a table overlap, what a dump saved is only lost
\* by a DROP, a missing block or a failing rename, a stop while compaction has the
\* rows in memory, or a .tmpc that an earlier stop or failing rename left and
\* compaction replaces: whatever clients, dumps, compactions, stops and starts
\* there are.
THEOREM SoloSePierdeAhi == Spec /\ []SinSolape => SoloSePierdeEnVentana
<1> DEFINE Paso == \A t \in Tablas :
          \/ \A k \in Claves :
                Instante(EnDisco(t) \cup EnComp(t), k)
                  <= Instante(EnDisco(t) \cup EnComp(t), k)'
          \/ \E c \in Clientes : DropBorra(c) /\ pedido[c].tabla = t
          \/ fallas' # fallas
          \/ EnVentana(t) /\ ~vivo'
          \/ PisaTmpc(t)
<1>1. VentanaInv /\ fallas \in Nat /\ [Next]_vars => [Paso]_vars
  <2> SUFFICES ASSUME VentanaInv, fallas \in Nat, [Next]_vars, NEW t \in Tablas, SinCulpable(t)
               PROVE  \A k \in Claves : Instante(EnDisco(t) \cup EnComp(t), k)
                                          <= Instante(EnDisco(t) \cup EnComp(t), k)'
    BY DEF SinCulpable
  <2> QED
    BY VentanaPaso
<1>2. Init => VentanaInv /\ fallas \in Nat
  BY VentanaInit DEF Init
<1>3. VentanaInv /\ fallas \in Nat /\ SinSolape /\ [Next]_vars => (VentanaInv /\ fallas \in Nat)'
  <2> SUFFICES ASSUME VentanaInv, fallas \in Nat, SinSolape, [Next]_vars PROVE (fallas \in Nat)'
    BY VentanaNext
  <2>1. fallas' \in {fallas, fallas + 1}
    <3>1. ASSUME NEW c \in Clientes, Pedir(c) PROVE fallas' = fallas
      BY <3>1 DEF Pedir, Rechaza, InsertMira, SelectMira, DescribeUna, DescribeTodas, DropMira,
                  CreateMira, InsertInvalido, DescribeInvalido, vars, cotas
    <3>2. ASSUME NEW c \in Clientes, Seguir(c) PROVE fallas' \in {fallas, fallas + 1}
      BY <3>2 DEF Seguir, InsertGuarda, SelectLee, SelectMuere, DescribeMira, DescribeAbre,
                  DescribeMuere, DropBorra, DropMetadata, DropTermina, CreateDir,
                  CreateParticiones, CreateSinEspacio, CreateSinDir, CreateTermina, Falla, cotas
    <3>3. CASE Dump
      <4>1. ASSUME NEW t \in Tablas, DumpTabla(t) PROVE fallas' \in {fallas, fallas + 1}
        BY <4>1 DEF DumpTabla, Falla
      <4> QED
        BY <3>3, <4>1 DEF Dump, DumpEmpieza, DumpMuere, DumpTermina, cotas
    <3>4. CASE Compactar
      BY <3>4 DEF Compactar, CompSale, CompRenombra, CompRenombraFalla, CompLee, CompLimpia,
                  CompRecrea, CompGuarda, CompMuere, CompTermina, Falla, cotas
    <3>5. CASE Caida \/ Arrancar \/ UNCHANGED vars
      BY <3>5 DEF Caida, Arrancar, vars, cotas
    <3> QED
      BY <3>1, <3>2, <3>3, <3>4, <3>5 DEF Next
  <2> QED
    BY <2>1
<1> HIDE DEF Paso
<1>4. Spec /\ []SinSolape => [][Paso]_vars
  BY <1>1, <1>2, <1>3, PTL DEF Spec
<1> QED
  BY <1>4 DEF SoloSePierdeEnVentana, Paso
=============================================================================
