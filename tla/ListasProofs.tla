----------------------------- MODULE ListasProofs -----------------------------
(***************************************************************************)
(* Facts about lists that the proofs of several components need: what      *)
(* list_remove and list_remove_by_condition of the commons library do, and *)
(* what a fold gives for a list with one element more, or one less.        *)
(***************************************************************************)
EXTENDS Integers, SequencesExt, SequenceTheorems, WellFoundedInduction, TLAPS

-----------------------------------------------------------------------------
(* Sets of numbers *)

LEMMA HayMinimo ==
  ASSUME NEW S \in SUBSET Nat, S # {}
  PROVE  \E x \in S : \A y \in S : x <= y
<1> DEFINE R == OpToRel(<, Nat)
<1>1. \A x, y \in Nat : y < x => <<y, x>> \in R
  BY DEF OpToRel
<1>2. IsWellFoundedOn(R, Nat)
  BY NatLessThanWellFounded
<1> HIDE DEF R
<1>3. PICK x \in S : \A y \in S : <<y, x>> \notin R
  BY <1>2, WFMin
<1>4. ASSUME NEW y \in S PROVE x <= y
  <2>1. x \in Nat /\ y \in Nat
    OBVIOUS
  <2>2. ~(y < x)
    BY <1>1, <1>3, <2>1
  <2> QED
    BY <2>1, <2>2
<1> QED
  BY <1>4

-----------------------------------------------------------------------------
(* Taking elements out of a list *)

LEMMA QuitarPosicion ==
  ASSUME NEW S, NEW l \in Seq(S), NEW m \in 1 .. Len(l)
  PROVE  /\ RemoveAt(l, m) \in Seq(S)
         /\ Len(RemoveAt(l, m)) = Len(l) - 1
         /\ \A x \in 1 .. Len(l) - 1 :
               RemoveAt(l, m)[x] = IF x < m THEN l[x] ELSE l[x + 1]
<1> DEFINE a == SubSeq(l, 1, m - 1)
           b == SubSeq(l, m + 1, Len(l))
<1>1. /\ a \in Seq(S) /\ Len(a) = m - 1
      /\ \A x \in 1 .. m - 1 : a[x] = l[x]
  BY SubSeqProperties
<1>2. /\ b \in Seq(S) /\ Len(b) = Len(l) - m
      /\ \A x \in 1 .. Len(l) - m : b[x] = l[m + x]
  BY SubSeqProperties
<1> HIDE DEF a, b
<1>3. /\ a \o b \in Seq(S)
      /\ Len(a \o b) = Len(l) - 1
      /\ \A x \in 1 .. Len(l) - 1 : (a \o b)[x] = IF x <= m - 1 THEN a[x] ELSE b[x - (m - 1)]
  <2>1. Len(a) + Len(b) = Len(l) - 1
    BY <1>1, <1>2
  <2>2. /\ a \o b \in Seq(S)
        /\ Len(a \o b) = Len(a) + Len(b)
        /\ \A x \in 1 .. Len(a) + Len(b) :
              (a \o b)[x] = IF x <= Len(a) THEN a[x] ELSE b[x - Len(a)]
    BY <1>1, <1>2, ConcatProperties
  <2> QED
    BY <1>1, <2>1, <2>2
<1>4. ASSUME NEW x \in 1 .. Len(l) - 1
      PROVE  (a \o b)[x] = IF x < m THEN l[x] ELSE l[x + 1]
  BY <1>1, <1>2, <1>3
<1> QED
  BY <1>3, <1>4 DEF RemoveAt, a, b

\* RemoveFirst takes out one position of the element, if there is one.
LEMMA QuitarPrimero ==
  ASSUME NEW S, NEW l \in Seq(S), NEW e \in ToSet(l)
  PROVE  \E m \in 1 .. Len(l) : l[m] = e /\ RemoveFirst(l, e) = RemoveAt(l, m)
<1> DEFINE I == {i \in 1 .. Len(l) : l[i] = e}
<1>1. I # {} /\ I \in SUBSET Nat
  BY DEF ToSet
<1>2. Min(I) \in I
  BY <1>1, HayMinimo DEF Min
<1>3. RemoveFirst(l, e) = RemoveAt(l, Min(I))
  BY <1>1 DEF RemoveFirst, SelectInSeq
<1> QED
  BY <1>2, <1>3

\* Nothing else goes with it, and nothing of it is left if the list held it once.
LEMMA QuitarElemento ==
  ASSUME NEW S, NEW l \in Seq(S), NEW e \in ToSet(l)
  PROVE  /\ RemoveFirst(l, e) \in Seq(S)
         /\ ToSet(RemoveFirst(l, e)) \subseteq ToSet(l)
         /\ ToSet(l) \ {e} \subseteq ToSet(RemoveFirst(l, e))
         /\ IsInjective(l) => /\ IsInjective(RemoveFirst(l, e))
                              /\ e \notin ToSet(RemoveFirst(l, e))
<1>1. PICK m \in 1 .. Len(l) : l[m] = e /\ RemoveFirst(l, e) = RemoveAt(l, m)
  BY QuitarPrimero
<1> DEFINE r == RemoveAt(l, m)
           Antes(x) == IF x < m THEN x ELSE x + 1
<1>2. /\ r \in Seq(S) /\ Len(r) = Len(l) - 1
      /\ \A x \in 1 .. Len(l) - 1 : r[x] = l[Antes(x)]
  BY QuitarPosicion
<1> HIDE DEF r
<1>3. DOMAIN r = 1 .. Len(l) - 1 /\ DOMAIN l = 1 .. Len(l) /\ Len(l) \in Nat
  BY <1>2
<1>4. /\ \A x \in 1 .. Len(l) - 1 : Antes(x) \in 1 .. Len(l) \ {m}
      /\ \A x, y \in 1 .. Len(l) - 1 : Antes(x) = Antes(y) => x = y
  BY <1>3
<1>5. \A y \in 1 .. Len(l) \ {m} : \E x \in 1 .. Len(l) - 1 : Antes(x) = y
  <2> TAKE y \in 1 .. Len(l) \ {m}
  <2> WITNESS (IF y < m THEN y ELSE y - 1) \in 1 .. Len(l) - 1
  <2> QED
    BY <1>3
<1>6. ToSet(r) \subseteq ToSet(l)
  BY <1>2, <1>3, <1>4 DEF ToSet
<1>7. ToSet(l) \ {e} \subseteq ToSet(r)
  <2> SUFFICES ASSUME NEW y \in 1 .. Len(l), l[y] # e
               PROVE  l[y] \in ToSet(r)
    BY <1>3 DEF ToSet
  <2>1. PICK x \in 1 .. Len(l) - 1 : Antes(x) = y
    BY <1>1, <1>5
  <2> QED
    BY <1>2, <1>3, <2>1 DEF ToSet
<1>8. ASSUME IsInjective(l)
      PROVE  IsInjective(r) /\ e \notin ToSet(r)
  <2> HIDE DEF Antes
  <2>1. \A x, y \in 1 .. Len(l) : l[x] = l[y] => x = y
    BY <1>3, <1>8 DEF IsInjective
  <2>2. IsInjective(r)
    BY SMTT(20), <1>2, <1>3, <1>4, <2>1 DEF IsInjective
  <2>3. \A x \in 1 .. Len(l) - 1 : r[x] # e
    BY <1>1, <1>2, <1>4, <2>1
  <2> QED
    BY <1>3, <2>2, <2>3 DEF ToSet
<1> QED
  BY <1>1, <1>2, <1>6, <1>7, <1>8 DEF r

\* A list of any elements.
EsLista(l) == l \in Seq(ToSet(l))

LEMMA ListaVacia == EsLista(<<>>) /\ ToSet(<<>>) = {}
  BY DEF EsLista, ToSet

\* A list with one more element, at its beginning or at its end.
LEMMA AgregarElemento ==
  ASSUME NEW S, NEW l \in Seq(S), NEW e
  PROVE  /\ ToSet(Append(l, e)) = ToSet(l) \cup {e}
         /\ ToSet(<<e>> \o l) = ToSet(l) \cup {e}
         /\ EsLista(<<e>> \o l)
         /\ IsInjective(l) /\ e \notin ToSet(l) => IsInjective(Append(l, e))
<1> DEFINE a == Append(l, e)
           b == <<e>> \o l
           T == S \cup {e}
<1>1. l \in Seq(T) /\ <<e>> \in Seq(T) /\ Len(<<e>>) = 1 /\ <<e>>[1] = e
  BY SeqMonotonic
<1>2. /\ a \in Seq(T) /\ Len(a) = Len(l) + 1 /\ a[Len(l) + 1] = e
      /\ \A i \in 1 .. Len(l) : a[i] = l[i]
  BY <1>1, AppendProperties
<1>3. /\ b \in Seq(T) /\ Len(b) = Len(l) + 1
      /\ \A i \in 1 .. Len(l) + 1 : b[i] = IF i <= 1 THEN e ELSE l[i - 1]
  BY <1>1, ConcatProperties
<1> HIDE DEF a, b, T
<1>4. /\ DOMAIN a = 1 .. Len(l) + 1 /\ DOMAIN b = 1 .. Len(l) + 1
      /\ DOMAIN l = 1 .. Len(l) /\ Len(l) \in Nat
  BY <1>2, <1>3
<1>5. ToSet(a) = ToSet(l) \cup {e}
  BY <1>2, <1>4 DEF ToSet
<1>6. ToSet(b) = ToSet(l) \cup {e}
  <2>1. \A i \in 1 .. Len(l) : i + 1 \in 1 .. Len(l) + 1 /\ b[i + 1] = l[i]
    BY <1>3, <1>4
  <2>2. 1 \in 1 .. Len(l) + 1 /\ b[1] = e
    BY <1>3, <1>4
  <2>3. \A i \in 1 .. Len(l) + 1 :
           b[i] = e \/ (i - 1 \in 1 .. Len(l) /\ b[i] = l[i - 1])
    BY <1>3, <1>4
  <2>4. ToSet(b) \subseteq ToSet(l) \cup {e}
    BY <1>4, <2>3 DEF ToSet
  <2>5. ToSet(l) \subseteq ToSet(b)
    BY <1>4, <2>1 DEF ToSet
  <2>6. e \in ToSet(b)
    BY <1>4, <2>2 DEF ToSet
  <2> QED
    BY <2>4, <2>5, <2>6
<1>7. EsLista(b)
  BY <1>3, <1>4 DEF EsLista, ToSet
<1>8. IsInjective(l) /\ e \notin ToSet(l) => IsInjective(a)
  BY <1>2, <1>4 DEF IsInjective, ToSet
<1> QED
  BY <1>5, <1>6, <1>7, <1>8 DEF a, b

\* A list without its first element.
LEMMA QuitarCabeza ==
  ASSUME NEW l, EsLista(l), l # <<>>
  PROVE  /\ EsLista(Tail(l))
         /\ ToSet(l) = {Head(l)} \cup ToSet(Tail(l))
<1> DEFINE t == Tail(l)
<1>1. /\ l \in Seq(ToSet(l)) /\ t \in Seq(ToSet(l)) /\ Len(t) = Len(l) - 1
      /\ \A i \in 1 .. Len(t) : t[i] = l[i + 1]
      /\ Head(l) = l[1] /\ Len(l) \in Nat /\ Len(l) > 0
  BY HeadTailProperties, EmptySeq DEF EsLista
<1> HIDE DEF t
<1>2. DOMAIN l = 1 .. Len(l) /\ DOMAIN t = 1 .. Len(l) - 1
  BY <1>1
<1>3. EsLista(t)
  <2>1. \A i \in 1 .. Len(t) : t[i] \in ToSet(t)
    BY <1>1, <1>2 DEF ToSet
  <2> QED
    BY <1>1, <2>1 DEF EsLista
<1>4. \A i \in 1 .. Len(l) :
         i = 1 \/ (i - 1 \in 1 .. Len(l) - 1 /\ l[i] = t[i - 1])
  BY <1>1
<1>5. \A i \in 1 .. Len(l) - 1 : i + 1 \in 1 .. Len(l)
  BY <1>1
<1>6. 1 \in 1 .. Len(l)
  BY <1>1
<1>7. ToSet(l) = {Head(l)} \cup ToSet(t)
  <2>1. ToSet(l) \subseteq {Head(l)} \cup ToSet(t)
    <3> SUFFICES ASSUME NEW i \in 1 .. Len(l)
                 PROVE  l[i] \in {Head(l)} \cup ToSet(t)
      BY <1>2 DEF ToSet
    <3>1. CASE i = 1
      BY <1>1, <3>1
    <3>2. CASE i - 1 \in 1 .. Len(l) - 1 /\ l[i] = t[i - 1]
      BY <1>2, <3>2 DEF ToSet
    <3> QED
      BY <1>4, <3>1, <3>2
  <2>2. ToSet(t) \subseteq ToSet(l)
    BY <1>1, <1>2, <1>5 DEF ToSet
  <2>3. Head(l) \in ToSet(l)
    BY <1>1, <1>2, <1>6 DEF ToSet
  <2> QED
    BY <2>1, <2>2, <2>3
<1> QED
  BY <1>3, <1>7 DEF t

-----------------------------------------------------------------------------
(* Folds.  A list is folded in steps, each from the one before: the steps are *)
(* a function of how many elements were taken.  The operation of the fold is  *)
(* here a function g on pairs of a set of values and a set of elements.       *)

Pasos(V, g, b, s, f) ==
    /\ f \in [0 .. Len(s) -> V]
    /\ f[0] = b
    /\ \A i \in 1 .. Len(s) : f[i] = g[<<f[i - 1], s[i]>>]

\* What the fold of the library chooses: the value at each set of positions.
EsPliegue(V, g, b, s, k, it) ==
    /\ it \in [SUBSET (1 .. k) -> V]
    /\ \A S \in SUBSET (1 .. k) :
          it[S] = IF S = {} THEN b ELSE g[<<it[S \ {Max(S)}], s[Max(S)]>>]

LEMMA MaximoHay ==
  ASSUME NEW k \in Nat, NEW S \in SUBSET (1 .. k), S # {}
  PROVE  Max(S) \in S /\ \A x \in S : x <= Max(S)
<1> DEFINE C == {x \in 0 .. k : \A y \in S : y <= x}
<1>1. k \in C /\ C \in SUBSET Nat
  OBVIOUS
<1> HIDE DEF C
<1>2. PICK c \in C : \A x \in C : c <= x
  BY <1>1, HayMinimo
<1>3. c \in 0 .. k /\ \A y \in S : y <= c /\ y \in 1 .. k
  BY <1>2 DEF C
<1>4. c \in S
  <2> SUFFICES ASSUME c \notin S PROVE FALSE
    OBVIOUS
  <2>1. PICK y \in S : TRUE
    OBVIOUS
  <2>2. c # 0
    BY <1>3, <2>1
  <2>3. c - 1 \in 0 .. k /\ \A x \in S : x <= c - 1
    BY <1>3, <2>2
  <2>4. c - 1 \in C
    BY <2>3 DEF C
  <2> QED
    BY <1>2, <1>3, <2>4
<1>5. \E x \in S : \A y \in S : x >= y
  BY <1>3, <1>4
<1>6. Max(S) \in S /\ \A y \in S : Max(S) >= y
  BY <1>5 DEF Max
<1> QED
  BY <1>6

LEMMA MaximoEs ==
  ASSUME NEW k \in Nat, NEW S \in SUBSET (1 .. k), NEW x \in S, \A y \in S : y <= x
  PROVE  Max(S) = x
<1>1. Max(S) \in S /\ x <= Max(S)
  BY MaximoHay
<1> DEFINE m == Max(S)
<1>2. m \in S /\ x <= m
  BY <1>1
<1> HIDE DEF m
<1>3. m <= x /\ m \in Nat /\ x \in Nat
  BY <1>2
<1> QED
  BY <1>2, <1>3 DEF m

LEMMA PliegueExiste ==
  ASSUME NEW V, NEW M, NEW g \in [V \X M -> V], NEW b \in V, NEW s \in Seq(M)
  PROVE  \E it : EsPliegue(V, g, b, s, Len(s), it)
<1> DEFINE P(k) == \E it : EsPliegue(V, g, b, s, k, it)
           Faltan == {k \in 0 .. Len(s) : ~P(k)}
<1>1. P(0)
  <2> DEFINE it == [S \in SUBSET (1 .. 0) |-> b]
  <2>1. \A S \in SUBSET (1 .. 0) : S = {}
    OBVIOUS
  <2>2. it \in [SUBSET (1 .. 0) -> V] /\ \A S \in SUBSET (1 .. 0) : it[S] = b
    OBVIOUS
  <2> HIDE DEF it
  <2>3. EsPliegue(V, g, b, s, 0, it)
    BY <2>1, <2>2 DEF EsPliegue
  <2> QED
    BY <2>3
<1>2. ASSUME NEW k \in 1 .. Len(s), P(k - 1)
      PROVE  P(k)
  <2>1. PICK a : EsPliegue(V, g, b, s, k - 1, a)
    BY <1>2
  <2> DEFINE it == [S \in SUBSET (1 .. k) |->
                       IF k \in S THEN g[<<a[S \ {k}], s[k]>>] ELSE a[S]]
  <2>2. s[k] \in M /\ k \in Nat /\ k - 1 \in Nat
    OBVIOUS
  <2>3. \A S \in SUBSET (1 .. k) :
           /\ S \ {k} \in SUBSET (1 .. k - 1)
           /\ k \notin S => S \in SUBSET (1 .. k - 1)
    OBVIOUS
  <2>4. \A S \in SUBSET (1 .. k - 1) : a[S] \in V /\ S \in SUBSET (1 .. k) /\ k \notin S
    BY <2>1 DEF EsPliegue
  <2>5. it \in [SUBSET (1 .. k) -> V]
    BY <2>2, <2>3, <2>4
  <2>6. \A S \in SUBSET (1 .. k - 1) : it[S] = a[S]
    BY <2>4
  <2>7. \A S \in SUBSET (1 .. k) : k \in S => it[S] = g[<<a[S \ {k}], s[k]>>]
    OBVIOUS
  <2> HIDE DEF it
  <2>8. ASSUME NEW S \in SUBSET (1 .. k)
        PROVE  it[S] = IF S = {} THEN b ELSE g[<<it[S \ {Max(S)}], s[Max(S)]>>]
    <3>1. CASE k \in S
      <4>1. Max(S) = k
        <5>1. \A y \in S : y <= k
          BY <2>2
        <5> QED
          BY <2>2, <3>1, <5>1, MaximoEs
      <4>2. S \ {k} \in SUBSET (1 .. k - 1) /\ it[S \ {k}] = a[S \ {k}]
        BY <2>3, <2>6
      <4> QED
        BY <2>7, <3>1, <4>1, <4>2
    <3>2. CASE k \notin S /\ S = {}
      BY <2>1, <2>3, <2>6, <3>2 DEF EsPliegue
    <3>3. CASE k \notin S /\ S # {}
      <4>1. S \in SUBSET (1 .. k - 1) /\ S \ {Max(S)} \in SUBSET (1 .. k - 1)
        BY <2>3, <3>3
      <4>2. a[S] = g[<<a[S \ {Max(S)}], s[Max(S)]>>]
        BY <2>1, <3>3, <4>1 DEF EsPliegue
      <4> QED
        BY <2>6, <3>3, <4>1, <4>2
    <3> QED
      BY <3>1, <3>2, <3>3
  <2>9. EsPliegue(V, g, b, s, k, it)
    BY <2>5, <2>8 DEF EsPliegue
  <2> QED
    BY <2>9
<1> HIDE DEF P
<1>3. Faltan = {}
  <2> SUFFICES ASSUME Faltan # {} PROVE FALSE
    OBVIOUS
  <2>1. Faltan \in SUBSET Nat
    OBVIOUS
  <2>2. PICK k \in Faltan : \A x \in Faltan : k <= x
    BY <2>1, HayMinimo
  <2>3. k # 0
    BY <1>1, <2>2
  <2>4. k \in 1 .. Len(s) /\ k - 1 \in 0 .. Len(s) /\ k - 1 \notin Faltan
    BY <2>2, <2>3
  <2>5. P(k - 1)
    BY <2>4
  <2> QED
    BY <1>2, <2>2, <2>4, <2>5
<1>4. Len(s) \in 0 .. Len(s)
  OBVIOUS
<1>5. P(Len(s))
  BY <1>3, <1>4
<1> QED
  BY <1>5 DEF P

\* The values at the beginnings of the list are its steps, and the last of them
\* is the value of the fold.
LEMMA PasosDelPliegue ==
  ASSUME NEW V, NEW M, NEW g, NEW b, NEW s \in Seq(M), NEW it,
         EsPliegue(V, g, b, s, Len(s), it)
  PROVE  \E f : Pasos(V, g, b, s, f) /\ f[Len(s)] = it[DOMAIN s]
<1> DEFINE n == Len(s)
           f == [i \in 0 .. n |-> it[1 .. i]]
<1>1. n \in Nat /\ DOMAIN s = 1 .. n
  OBVIOUS
<1>2. \A i \in 0 .. n : 1 .. i \in SUBSET (1 .. n)
  BY <1>1
<1> HIDE DEF n
<1>3. f \in [0 .. n -> V]
  BY <1>2 DEF EsPliegue, n
<1>4. 1 .. 0 = {} /\ 0 \in 0 .. n
  BY <1>1
<1>5. it[{}] = b
  BY <1>4, <1>2 DEF EsPliegue, n
<1>6. f[0] = b
  BY <1>4, <1>5
<1>7. ASSUME NEW i \in 1 .. n
      PROVE  f[i] = g[<<f[i - 1], s[i]>>]
  <2>1. /\ i \in 1 .. i /\ 1 .. i # {} /\ i \in 0 .. n /\ i - 1 \in 0 .. n
        /\ 1 .. i \in SUBSET (1 .. n)
    <3>1. i \in 0 .. n /\ i - 1 \in 0 .. n /\ i \in 1 .. i
      BY <1>1
    <3>2. 1 .. i # {}
      BY <3>1
    <3> QED
      BY <1>2, <3>1, <3>2
  <2>4. (1 .. i) \ {i} = 1 .. i - 1
    BY <1>1
  <2>2. Max(1 .. i) = i
    <3>1. \A y \in 1 .. i : y <= i
      BY <1>1
    <3> QED
      BY <1>1, <2>1, <3>1, MaximoEs
  <2>3. it[1 .. i] = g[<<it[(1 .. i) \ {Max(1 .. i)}], s[Max(1 .. i)]>>]
    BY <2>1 DEF EsPliegue, n
  <2> QED
    BY <2>1, <2>2, <2>3, <2>4
<1>8. f[n] = it[DOMAIN s]
  BY <1>1
<1> HIDE DEF f
<1>9. Pasos(V, g, b, s, f)
  BY <1>3, <1>6, <1>7 DEF Pasos, n
<1> QED
  BY <1>8, <1>9 DEF n

\* Two of them with the same rule are the same.
MismaRegla(n, a, c) ==
    /\ a[{}] = c[{}]
    /\ \A S \in SUBSET (1 .. n) :
          S # {} /\ a[S \ {Max(S)}] = c[S \ {Max(S)}] => a[S] = c[S]

LEMMA PliegueUnico ==
  ASSUME NEW n \in Nat, NEW a, NEW c, MismaRegla(n, a, c)
  PROVE  a[1 .. n] = c[1 .. n]
<1> USE DEF MismaRegla
<1> DEFINE Distintos == {k \in 0 .. n : \E T \in SUBSET (1 .. k) : a[T] # c[T]}
<1>1. Distintos = {}
  <2> SUFFICES ASSUME Distintos # {} PROVE FALSE
    OBVIOUS
  <2>1. Distintos \in SUBSET Nat
    OBVIOUS
  <2>2. PICK k \in Distintos : \A x \in Distintos : k <= x
    BY <2>1, HayMinimo
  <2>3. PICK T \in SUBSET (1 .. k) : a[T] # c[T]
    BY <2>2
  <2>4. k \in 0 .. n /\ T \in SUBSET (1 .. n) /\ T # {}
    <3>1. k \in 0 .. n
      BY <2>2
    <3>2. \A x \in 1 .. k : x \in 1 .. n
      BY <3>1
    <3> QED
      BY <2>3, <3>1, <3>2
  <2> DEFINE m == Max(T)
  <2>5. m \in T /\ \A x \in T : x <= m
    BY <2>3, <2>4, MaximoHay
  <2>6. a[T \ {m}] # c[T \ {m}]
    BY <2>3, <2>4
  <2> HIDE DEF m
  <2>7. m \in 1 .. k /\ m - 1 \in 0 .. n
    BY <2>3, <2>4, <2>5
  <2>8. ASSUME NEW x \in T \ {m}
        PROVE  x \in 1 .. m - 1
    <3>1. x \in 1 .. k /\ x <= m /\ x # m
      BY <2>3, <2>5
    <3> QED
      BY <2>4, <2>7, <3>1
  <2>9. m - 1 \in Distintos
    BY <2>6, <2>7, <2>8
  <2>10. k <= m - 1 /\ m <= k /\ k \in Nat /\ m \in Nat
    BY <2>2, <2>4, <2>7, <2>9
  <2> QED
    BY <2>10
<1>2. n \in 0 .. n
  OBVIOUS
<1> QED
  BY <1>1, <1>2

LEMMA PasosHay ==
  ASSUME NEW V, NEW M, NEW g \in [V \X M -> V], NEW b \in V, NEW s \in Seq(M)
  PROVE  \E f : Pasos(V, g, b, s, f)
  BY PliegueExiste, PasosDelPliegue

\* Lists that agree on their first elements have the same first steps.
LEMMA PasosIguales ==
  ASSUME NEW V, NEW g, NEW b, NEW s, NEW z, NEW f, NEW e,
         Len(s) \in Nat, Len(z) \in Nat, Len(s) <= Len(z),
         \A i \in 1 .. Len(s) : s[i] = z[i],
         Pasos(V, g, b, s, f), Pasos(V, g, b, z, e),
         NEW k \in 0 .. Len(s)
  PROVE  f[k] = e[k]
<1> DEFINE Distintos == {i \in 0 .. Len(s) : f[i] # e[i]}
<1>1. Distintos = {}
  <2> SUFFICES ASSUME Distintos # {} PROVE FALSE
    OBVIOUS
  <2>1. Distintos \in SUBSET Nat
    OBVIOUS
  <2>2. PICK i \in Distintos : \A x \in Distintos : i <= x
    BY <2>1, HayMinimo
  <2>3. i # 0
    BY <2>2 DEF Pasos
  <2>4. i \in 1 .. Len(s) /\ i \in 1 .. Len(z) /\ i - 1 \in 0 .. Len(s)
    BY <2>2, <2>3
  <2>5. f[i - 1] = e[i - 1]
    BY <2>2, <2>4
  <2> QED
    BY <2>2, <2>4, <2>5 DEF Pasos
<1> QED
  BY <1>1

\* The value of a fold.
Plegado(V, g, b, s) == (CHOOSE f : Pasos(V, g, b, s, f))[Len(s)]

LEMMA PlegadoEs ==
  ASSUME NEW V, NEW M, NEW b \in V, NEW g, NEW s \in Seq(M), NEW f,
         Pasos(V, g, b, s, f)
  PROVE  Plegado(V, g, b, s) = f[Len(s)] /\ f[Len(s)] \in V
<1> DEFINE e == CHOOSE x : Pasos(V, g, b, s, x)
<1>1. Pasos(V, g, b, s, e)
  OBVIOUS
<1> HIDE DEF e
<1>2. Len(s) \in Nat /\ Len(s) \in 0 .. Len(s)
  OBVIOUS
<1>3. e[Len(s)] = f[Len(s)]
  BY <1>1, <1>2, PasosIguales
<1>4. f[Len(s)] \in V
  BY <1>2 DEF Pasos
<1> QED
  BY <1>3, <1>4 DEF Plegado, e

LEMMA PlegadoEnV ==
  ASSUME NEW V, NEW M, NEW g \in [V \X M -> V], NEW b \in V, NEW s \in Seq(M)
  PROVE  Plegado(V, g, b, s) \in V
<1>1. PICK f : Pasos(V, g, b, s, f)
  BY PasosHay
<1> QED
  BY <1>1, PlegadoEs

LEMMA PlegadoVacio ==
  ASSUME NEW V, NEW M, NEW g \in [V \X M -> V], NEW b \in V
  PROVE  Plegado(V, g, b, <<>>) = b
<1>1. <<>> \in Seq(M) /\ Len(<<>>) = 0
  OBVIOUS
<1>2. PICK f : Pasos(V, g, b, <<>>, f)
  BY <1>1, PasosHay
<1> DEFINE z == <<>>
<1>3. z \in Seq(M) /\ Pasos(V, g, b, z, f)
  BY <1>1, <1>2
<1> HIDE DEF z
<1>4. Plegado(V, g, b, z) = f[Len(z)]
  BY <1>3, PlegadoEs
<1> QED
  BY <1>1, <1>3, <1>4 DEF Pasos, z

\* The rule of a fold, and how a list is made of others: as operators, for the
\* provers find no instance of a lemma by a term they have a theory of.
EsRegla(V, M, g) == g \in [V \X M -> V]
Lleva(g, b, x)   == g[<<b, x>>]
EsAgregar(z, s, x) == z = Append(s, x)
EsJuntar(z, s, r)  == z = s \o r
EsQuitar(z, s, x)  == z = Tail(s) /\ x = Head(s)

\* One element more, at the end.
LEMMA PlegadoAgrega ==
  ASSUME NEW V, NEW M, NEW g, EsRegla(V, M, g), NEW b \in V, NEW s \in Seq(M),
         NEW x \in M, NEW z, EsAgregar(z, s, x)
  PROVE  Plegado(V, g, b, z) = Lleva(g, Plegado(V, g, b, s), x)
<1> USE DEF EsRegla, Lleva
<1>0. z = Append(s, x)
  BY DEF EsAgregar
<1>1. /\ z \in Seq(M) /\ Len(z) = Len(s) + 1 /\ z[Len(s) + 1] = x
      /\ \A i \in 1 .. Len(s) : z[i] = s[i]
      /\ Len(s) \in Nat
  BY <1>0, AppendProperties
<1>2. PICK f : Pasos(V, g, b, s, f)
  BY PasosHay
<1>3. PICK e : Pasos(V, g, b, z, e)
  BY <1>1, PasosHay
<1>4. e[Len(s)] = f[Len(s)]
  <2>1. Len(s) \in 0 .. Len(s)
    BY <1>1
  <2> QED
    BY <1>1, <1>2, <1>3, <2>1, PasosIguales
<1>5. e[Len(z)] = g[<<e[Len(s)], x>>]
  <2>1. Len(z) \in 1 .. Len(z) /\ Len(z) - 1 = Len(s)
    BY <1>1
  <2> QED
    BY <1>1, <1>3, <2>1 DEF Pasos
<1>6. Plegado(V, g, b, s) = f[Len(s)]
  BY <1>2, PlegadoEs
<1>7. z \in Seq(M)
  BY <1>1
<1>8. Plegado(V, g, b, z) = e[Len(z)]
  BY <1>3, <1>7, PlegadoEs
<1> QED
  BY <1>4, <1>5, <1>6, <1>8

\* The first element taken by itself.
LEMMA PlegadoCabeza ==
  ASSUME NEW V, NEW M, NEW g, EsRegla(V, M, g), NEW b \in V, NEW s \in Seq(M), s # <<>>,
         NEW z, NEW x, EsQuitar(z, s, x)
  PROVE  Plegado(V, g, b, s) = Plegado(V, g, Lleva(g, b, x), z)
<1> USE DEF EsRegla, Lleva
<1> DEFINE c == g[<<b, x>>]
<1>0. z = Tail(s) /\ x = Head(s)
  BY DEF EsQuitar
<1>1. /\ z \in Seq(M) /\ Len(z) = Len(s) - 1 /\ x = s[1] /\ x \in M
      /\ \A i \in 1 .. Len(z) : z[i] = s[i + 1]
      /\ Len(s) \in Nat /\ Len(s) > 0 /\ Len(z) \in Nat
  BY <1>0, HeadTailProperties, EmptySeq
<1>2. c \in V
  BY <1>1
<1>3. PICK f : Pasos(V, g, b, s, f)
  BY PasosHay
<1> DEFINE e == [i \in 0 .. Len(z) |-> f[i + 1]]
<1>4. e \in [0 .. Len(z) -> V]
  BY <1>1, <1>3 DEF Pasos
<1>5. e[0] = c
  <2>1. 1 \in 1 .. Len(s) /\ 0 \in 0 .. Len(z)
    BY <1>1
  <2>2. f[1] = g[<<f[1 - 1], s[1]>>] /\ f[0] = b
    BY <1>3, <2>1 DEF Pasos
  <2>3. f[1] = g[<<f[0], s[1]>>]
    BY <2>2
  <2>4. e[0] = f[1]
    BY <2>1
  <2>5. s[1] = x
    BY <1>1
  <2> QED
    BY <2>2, <2>3, <2>4, <2>5
<1>6. ASSUME NEW i \in 1 .. Len(z)
      PROVE  e[i] = g[<<e[i - 1], z[i]>>]
  <2>1. i \in 0 .. Len(z) /\ i - 1 \in 0 .. Len(z) /\ i + 1 \in 1 .. Len(s)
    BY <1>1
  <2>2. f[i + 1] = g[<<f[(i + 1) - 1], s[i + 1]>>]
    BY <1>3, <2>1 DEF Pasos
  <2>3. (i + 1) - 1 = (i - 1) + 1
    BY <1>1
  <2> QED
    BY <1>1, <2>1, <2>2, <2>3
<1>7. e[Len(z)] = f[Len(s)]
  BY <1>1
<1> HIDE DEF e, c
<1>8. Pasos(V, g, c, z, e)
  BY <1>4, <1>5, <1>6 DEF Pasos
<1>9. Plegado(V, g, c, z) = e[Len(z)]
  BY <1>1, <1>2, <1>8, PlegadoEs
<1>10. Plegado(V, g, b, s) = f[Len(s)]
  BY <1>3, PlegadoEs
<1> QED
  BY <1>7, <1>9, <1>10 DEF c

\* One list after another.
LEMMA PlegadoJunta ==
  ASSUME NEW V, NEW M, NEW g, EsRegla(V, M, g), NEW b \in V,
         NEW s \in Seq(M), NEW z \in Seq(M), NEW j, EsJuntar(j, s, z)
  PROVE  Plegado(V, g, b, j) = Plegado(V, g, Plegado(V, g, b, s), z)
<1> USE DEF EsRegla, Lleva
<1> DEFINE c == Plegado(V, g, b, s)
<1>0. j = s \o z
  BY DEF EsJuntar
<1>1. /\ j \in Seq(M) /\ Len(j) = Len(s) + Len(z)
      /\ Len(s) \in Nat /\ Len(z) \in Nat
      /\ \A i \in 1 .. Len(s) + Len(z) :
            j[i] = IF i <= Len(s) THEN s[i] ELSE z[i - Len(s)]
  BY <1>0, ConcatProperties
<1>2. PICK f : Pasos(V, g, b, s, f)
  BY PasosHay
<1>3. PICK e : Pasos(V, g, b, j, e)
  BY <1>1, PasosHay
<1>4. e[Len(s)] = c
  <2>1. /\ Len(s) \in 0 .. Len(s) /\ Len(s) <= Len(j)
        /\ Len(s) \in Nat /\ Len(j) \in Nat
    BY <1>1
  <2>2. \A i \in 1 .. Len(s) : s[i] = j[i]
    BY <1>1
  <2>3. e[Len(s)] = f[Len(s)]
    BY <1>2, <1>3, <2>1, <2>2, PasosIguales
  <2> QED
    BY <1>2, <2>3, PlegadoEs
<1>5. c \in V
  BY PlegadoEnV
<1> DEFINE d == [i \in 0 .. Len(z) |-> e[i + Len(s)]]
<1>6. d \in [0 .. Len(z) -> V]
  BY <1>1, <1>3 DEF Pasos
<1>7. d[0] = c
  BY <1>1, <1>4
<1>8. ASSUME NEW i \in 1 .. Len(z)
      PROVE  d[i] = g[<<d[i - 1], z[i]>>]
  <2>1. /\ i \in 0 .. Len(z) /\ i - 1 \in 0 .. Len(z) /\ i + Len(s) \in 1 .. Len(j)
        /\ ~(i + Len(s) <= Len(s)) /\ (i + Len(s)) - Len(s) = i
        /\ (i + Len(s)) - 1 = (i - 1) + Len(s)
    BY <1>1
  <2>2. e[i + Len(s)] = g[<<e[(i + Len(s)) - 1], j[i + Len(s)]>>]
    BY <1>3, <2>1 DEF Pasos
  <2>3. j[i + Len(s)] = z[i]
    BY <1>1, <2>1
  <2> QED
    BY <2>1, <2>2, <2>3
<1>9. d[Len(z)] = e[Len(j)]
  BY <1>1
<1> HIDE DEF d, c
<1>10. Pasos(V, g, c, z, d)
  BY <1>6, <1>7, <1>8 DEF Pasos
<1>11. Plegado(V, g, c, z) = d[Len(z)]
  BY <1>5, <1>10, PlegadoEs
<1>12. Plegado(V, g, b, j) = e[Len(j)]
  <2>1. j \in Seq(M)
    BY <1>1
  <2> QED
    BY <1>3, <2>1, PlegadoEs
<1> QED
  BY <1>9, <1>11, <1>12 DEF c

-----------------------------------------------------------------------------
(* Lists joined one after another *)

\* One list after another holds the elements of both.
LEMMA JuntarElementos ==
  ASSUME NEW S, NEW a \in Seq(S), NEW b \in Seq(S)
  PROVE  /\ a \o b \in Seq(S)
         /\ ToSet(a \o b) = ToSet(a) \cup ToSet(b)
<1> DEFINE j == a \o b
<1>1. /\ j \in Seq(S) /\ Len(j) = Len(a) + Len(b)
      /\ \A i \in 1 .. Len(a) + Len(b) : j[i] = IF i <= Len(a) THEN a[i] ELSE b[i - Len(a)]
      /\ Len(a) \in Nat /\ Len(b) \in Nat
  BY ConcatProperties
<1>2. DOMAIN a = 1 .. Len(a) /\ DOMAIN b = 1 .. Len(b) /\ DOMAIN j = 1 .. Len(a) + Len(b)
  BY <1>1
<1> HIDE DEF j
<1>3. ASSUME NEW i \in 1 .. Len(a) + Len(b) PROVE j[i] \in ToSet(a) \cup ToSet(b)
  <2>1. i <= Len(a) => i \in 1 .. Len(a)
    BY <1>1
  <2>2. ~(i <= Len(a)) => i - Len(a) \in 1 .. Len(b)
    BY <1>1
  <2> QED
    BY <1>1, <1>2, <2>1, <2>2 DEF ToSet
<1>4. ASSUME NEW i \in 1 .. Len(a) PROVE a[i] \in ToSet(j)
  <2>1. i \in 1 .. Len(a) + Len(b) /\ i <= Len(a)
    BY <1>1
  <2> QED
    BY <1>1, <1>2, <2>1 DEF ToSet
<1>5. ASSUME NEW i \in 1 .. Len(b) PROVE b[i] \in ToSet(j)
  <2>1. /\ i + Len(a) \in 1 .. Len(a) + Len(b) /\ ~(i + Len(a) <= Len(a))
        /\ (i + Len(a)) - Len(a) = i
    BY <1>1
  <2>2. j[i + Len(a)] = b[i]
    BY <1>1, <2>1
  <2> QED
    BY <1>2, <2>1, <2>2 DEF ToSet
<1>6. ToSet(j) \subseteq ToSet(a) \cup ToSet(b)
  BY <1>2, <1>3 DEF ToSet
<1>7. ToSet(a) \subseteq ToSet(j) /\ ToSet(b) \subseteq ToSet(j)
  BY <1>2, <1>4, <1>5 DEF ToSet
<1> QED
  BY <1>1, <1>6, <1>7 DEF j

Concatena(S) == [p \in Seq(S) \X Seq(S) |-> p[1] \o p[2]]

LEMMA ConcatenaRegla ==
  ASSUME NEW S
  PROVE  /\ Concatena(S) \in [Seq(S) \X Seq(S) -> Seq(S)]
         /\ \A a, b \in Seq(S) : Concatena(S)[<<a, b>>] = a \o b
<1>1. \A a, b \in Seq(S) : a \o b \in Seq(S)
  BY ConcatProperties
<1> QED
  BY <1>1 DEF Concatena

\* FlattenSeq is what the steps of the fold of \o give.
LEMMA AplanaPasos ==
  ASSUME NEW S, NEW s \in Seq(Seq(S))
  PROVE  \E f : Pasos(Seq(S), Concatena(S), <<>>, s, f) /\ FlattenSeq(s) = f[Len(s)]
<1> DEFINE V == Seq(S)
           g == Concatena(S)
           n == Len(s)
<1>1. <<>> \in V /\ n \in Nat
  OBVIOUS
<1>2. PICK f : Pasos(V, g, <<>>, s, f)
  BY <1>1, PasosHay, ConcatenaRegla
<1>3. \A i \in 1 .. n : s[i] \in V
  OBVIOUS
<1>4. CASE n = 0
  <2>1. s = <<>> /\ FlattenSeq(s) = s
    BY <1>4 DEF FlattenSeq
  <2>2. f[n] = <<>>
    BY <1>2, <1>4 DEF Pasos
  <2> QED
    BY <1>2, <2>1, <2>2
<1>5. CASE n # 0
  <2> DEFINE Es(h) == h = [i \in 1 .. n |-> IF i = 1 THEN s[i] ELSE h[i - 1] \o s[i]]
             d == [i \in 1 .. n |-> f[i]]
             c == CHOOSE h : Es(h)
  <2>1. FlattenSeq(s) = c[n]
    BY <1>5 DEF FlattenSeq
  <2>2. \A i \in 0 .. n : f[i] \in V
    BY <1>2 DEF Pasos
  <2>3. \A i \in 1 .. n : i - 1 \in 0 .. n /\ (i # 1 => i - 1 \in 1 .. n)
    BY <1>1
  <2> HIDE DEF V, g, n
  <2>4. ASSUME NEW i \in 1 .. n PROVE f[i] = f[i - 1] \o s[i]
    <3>1. f[i - 1] \in Seq(S) /\ s[i] \in Seq(S)
      BY <1>3, <2>2, <2>3 DEF V
    <3>2. f[i] = Concatena(S)[<<f[i - 1], s[i]>>]
      BY <1>2 DEF Pasos, g, n
    <3> QED
      BY <3>1, <3>2, ConcatenaRegla
  <2>5. 1 \in 1 .. n /\ f[1] = s[1]
    <3>1. 1 \in 1 .. n
      BY <1>1, <1>5
    <3>2. f[0] = <<>> /\ s[1] \in Seq(S)
      BY <1>2, <1>3, <3>1 DEF Pasos, V, n
    <3>3. <<>> \o s[1] = s[1]
      BY <3>2
    <3>4. f[1] = f[0] \o s[1]
      <4>1. PICK i \in 1 .. n : i = 1
        BY <3>1
      <4>2. f[i] = f[i - 1] \o s[i]
        BY <2>4
      <4>3. i - 1 = 0
        BY <4>1
      <4> QED
        BY <4>1, <4>2, <4>3
    <3> QED
      BY <3>1, <3>2, <3>3, <3>4
  <2>6. Es(d)
    BY <2>3, <2>4, <2>5
  <2>7. Es(c)
    BY <2>6
  <2>8. \A i \in 1 .. n : c[i] = IF i = 1 THEN s[i] ELSE c[i - 1] \o s[i]
    BY <2>7
  <2> HIDE DEF Es, c
  <2> DEFINE Distintos == {i \in 1 .. n : c[i] # f[i]}
  <2>9. Distintos = {}
    <3> SUFFICES ASSUME Distintos # {} PROVE FALSE
      OBVIOUS
    <3>1. Distintos \in SUBSET Nat
      BY <1>1
    <3>2. PICK i \in Distintos : \A x \in Distintos : i <= x
      BY <3>1, HayMinimo
    <3>3. i \in 1 .. n /\ i # 1 /\ c[i] # f[i] /\ ~(i <= i - 1)
      BY <1>1, <2>5, <2>8, <3>2
    <3>4. i - 1 \in 1 .. n /\ c[i - 1] = f[i - 1]
      BY <2>3, <3>2, <3>3
    <3> QED
      BY <2>4, <2>8, <3>3, <3>4
  <2>10. n \in 1 .. n
    BY <1>1, <1>5
  <2> QED
    BY <1>2, <2>1, <2>9, <2>10 DEF V, g, n
<1> QED
  BY <1>4, <1>5

\* It holds what the lists hold.
LEMMA AplanaElementos ==
  ASSUME NEW S, NEW s \in Seq(Seq(S))
  PROVE  /\ FlattenSeq(s) \in Seq(S)
         /\ ToSet(FlattenSeq(s)) = UNION {ToSet(s[i]) : i \in 1 .. Len(s)}
<1> DEFINE V == Seq(S)
           n == Len(s)
           De(i) == UNION {ToSet(s[j]) : j \in 1 .. i}
<1>1. n \in Nat /\ \A i \in 1 .. n : s[i] \in V
  OBVIOUS
<1>2. PICK f : Pasos(V, Concatena(S), <<>>, s, f) /\ FlattenSeq(s) = f[n]
  BY AplanaPasos
<1>3. \A i \in 0 .. n : f[i] \in V
  BY <1>2 DEF Pasos
<1>4. f[0] = <<>>
  BY <1>2 DEF Pasos
<1>5. ASSUME NEW i \in 1 .. n
      PROVE  f[i] = f[i - 1] \o s[i] /\ i - 1 \in 0 .. n
  <2>1. i - 1 \in 0 .. n
    BY <1>1
  <2> QED
    BY <1>1, <1>2, <1>3, <2>1, ConcatenaRegla DEF Pasos
<1> HIDE DEF n
<1> DEFINE Malos == {i \in 0 .. n : ToSet(f[i]) # De(i)}
<1>6. Malos = {}
  <2> SUFFICES ASSUME Malos # {} PROVE FALSE
    OBVIOUS
  <2>1. Malos \in SUBSET Nat
    BY <1>1
  <2>2. PICK i \in Malos : \A x \in Malos : i <= x
    BY <2>1, HayMinimo
  <2>3. i # 0
    <3>1. ToSet(<<>>) = {} /\ De(0) = {}
      BY DEF ToSet
    <3> QED
      BY <1>4, <2>2, <3>1
  <2>4. i \in 1 .. n /\ ~(i <= i - 1)
    BY <1>1, <2>2, <2>3
  <2>5. ToSet(f[i - 1]) = De(i - 1)
    BY <1>5, <2>2, <2>4
  <2>6. De(i) = De(i - 1) \cup ToSet(s[i])
    <3>1. 1 .. i = (1 .. i - 1) \cup {i}
      BY <2>4
    <3> QED
      BY <3>1
  <2>7. ToSet(f[i - 1] \o s[i]) = ToSet(f[i - 1]) \cup ToSet(s[i])
    <3>1. f[i - 1] \in Seq(S) /\ s[i] \in Seq(S)
      BY <1>1, <1>3, <1>5, <2>4
    <3> QED
      BY <3>1, JuntarElementos
  <2> QED
    BY <1>5, <2>2, <2>4, <2>5, <2>6, <2>7
<1>7. n \in 0 .. n
  BY <1>1
<1> QED
  BY <1>2, <1>3, <1>6, <1>7 DEF n

\* A finite set of numbers has a greatest one.
LEMMA MaximoFinito ==
  ASSUME NEW S \in SUBSET Nat, IsFiniteSet(S), S # {}
  PROVE  Max(S) \in S /\ \A x \in S : x <= Max(S)
<1>1. PICK s \in Seq(S) : \A x \in S : \E i \in 1 .. Len(s) : s[i] = x
  BY DEF IsFiniteSet
<1> DEFINE n == Len(s)
           Cota(k) == \E b \in Nat : \A i \in 1 .. k : s[i] <= b
           Malos == {k \in 0 .. n : ~Cota(k)}
<1>2. n \in Nat /\ \A i \in 1 .. n : s[i] \in S /\ s[i] \in Nat
  <2>1. n \in Nat /\ \A i \in 1 .. n : s[i] \in S
    OBVIOUS
  <2> QED
    BY <2>1
<1> HIDE DEF n
<1>3. \A x, y, z \in Nat : x <= y /\ y <= z => x <= z
  OBVIOUS
<1>4. Malos = {}
  <2> SUFFICES ASSUME Malos # {} PROVE FALSE
    OBVIOUS
  <2>1. Malos \in SUBSET Nat
    BY <1>2
  <2>2. PICK k \in Malos : \A x \in Malos : k <= x
    BY <2>1, HayMinimo
  <2>3. k # 0
    <3>1. 0 \in Nat /\ \A i \in 1 .. 0 : s[i] <= 0
      OBVIOUS
    <3>2. Cota(0)
      BY <3>1
    <3> QED
      BY <2>2, <3>2
  <2>4. k \in 1 .. n /\ k - 1 \in 0 .. n /\ ~(k <= k - 1)
    BY <1>2, <2>2, <2>3
  <2>5. PICK b \in Nat : \A i \in 1 .. k - 1 : s[i] <= b
    BY <2>2, <2>4
  <2>6. PICK c \in Nat : b <= c /\ s[k] <= c
    <3>1. PICK x \in Nat : x = s[k]
      BY <1>2, <2>4
    <3>2. b <= b + x /\ x <= b + x /\ b + x \in Nat
      OBVIOUS
    <3> QED
      BY <3>1, <3>2
  <2>7. \A i \in 1 .. k : s[i] <= c
    <3> TAKE i \in 1 .. k
    <3>1. CASE i = k
      BY <2>6, <3>1
    <3>2. CASE i # k
      <4>1. i \in 1 .. k - 1 /\ i \in 1 .. n
        BY <1>2, <2>4, <3>2
      <4>2. PICK x \in Nat : x = s[i] /\ x <= b
        BY <1>2, <2>5, <4>1
      <4>3. b \in Nat /\ c \in Nat /\ b <= c
        BY <2>5, <2>6
      <4>4. x <= c
        BY <1>3, <4>2, <4>3, Zenon
      <4> QED
        BY <4>2, <4>4
    <3> QED
      BY <3>1, <3>2
  <2>8. Cota(k)
    BY <2>6, <2>7
  <2> QED
    BY <2>2, <2>8
<1>5. Cota(n)
  <2>1. n \in 0 .. n
    BY <1>2
  <2> QED
    BY <1>4, <2>1
<1>6. PICK b \in Nat : \A i \in 1 .. n : s[i] <= b
  BY <1>5
<1> DEFINE C == {x \in Nat : \A y \in S : y <= x}
<1>7. b \in C /\ C \in SUBSET Nat
  BY <1>1, <1>6 DEF n
<1>8. PICK c \in C : \A x \in C : c <= x
  BY <1>7, HayMinimo
<1>9. c \in S
  <2> SUFFICES ASSUME c \notin S PROVE FALSE
    OBVIOUS
  <2>1. \A y \in S : y \in Nat /\ y <= c /\ y # c
    BY <1>8
  <2>2. c # 0
    <3>1. PICK y : y \in S
      OBVIOUS
    <3> QED
      BY <2>1, <3>1
  <2>3. c - 1 \in C /\ ~(c <= c - 1)
    BY <1>8, <2>1, <2>2
  <2> QED
    BY <1>8, <2>3
<1>10. \A y \in S : y <= c
  BY <1>8
<1> QED
  BY <1>9, <1>10 DEF Max

\* Of m elements in pieces of d, those of the first k pieces.
FinDelTrozo(d, m, k) == IF d * k <= m THEN d * k ELSE m

\* x is the piece k of those that make z.
EsTrozo(x, z, d, k) ==
    /\ Len(x) = FinDelTrozo(d, Len(z), k) - d * (k - 1)
    /\ \A o \in 1 .. Len(x) : x[o] = z[d * (k - 1) + o]

\* The pieces of d elements that make z, the last one shorter, give z again.
LEMMA AplanaTrozos ==
  ASSUME NEW S, NEW z \in Seq(S), NEW d \in Nat \ {0}, NEW s \in Seq(Seq(S)),
         Len(z) <= d * Len(s), d * Len(s) < Len(z) + d,
         \A k \in 1 .. Len(s) : EsTrozo(s[k], z, d, k)
  PROVE  FlattenSeq(s) = z
<1> DEFINE m == Len(z)
           n == Len(s)
           c(k) == d * k
<1>1. n \in Nat /\ m \in Nat /\ \A k \in 1 .. n : s[k] \in Seq(S)
  OBVIOUS
<1>2. /\ m <= c(n) /\ c(n) < m + d
      /\ \A k \in 1 .. n :
            /\ Len(s[k]) = (IF c(k) <= m THEN c(k) ELSE m) - c(k - 1)
            /\ \A o \in 1 .. Len(s[k]) : s[k][o] = z[c(k - 1) + o]
  BY DEF FinDelTrozo, EsTrozo
<1>3. ASSUME NEW k \in 1 .. n
      PROVE  c(k - 1) \in Nat /\ c(k) = c(k - 1) + d /\ c(k - 1) < m /\ k - 1 \in 0 .. n
  <2>1. k \in Nat /\ k - 1 \in Nat /\ k <= n /\ k - 1 \in 0 .. n
    BY <1>1
  <2>2. d * (k - 1) \in Nat /\ d * k = d * (k - 1) + d
    <3>1. PICK q \in Nat : q = k - 1 /\ k = q + 1
      BY <2>1
    <3>2. d * q \in Nat /\ d * (q + 1) = d * q + d
      OBVIOUS
    <3> QED
      BY <3>1, <3>2
  <2>3. d * k <= d * n /\ d * n \in Nat /\ d * k \in Nat
    <3>1. PICK q \in Nat : n = k + q
      <4>1. n - k \in Nat /\ n = k + (n - k)
        BY <1>1, <2>1
      <4> QED
        BY <4>1
    <3>2. d * (k + q) = d * k + d * q /\ d * q \in Nat /\ d * k \in Nat
      BY <2>1
    <3> QED
      BY <3>1, <3>2
  <2> QED
    BY <1>1, <1>2, <2>1, <2>2, <2>3
<1>4. c(0) = 0
  OBVIOUS
<1>5. PICK f : Pasos(Seq(S), Concatena(S), <<>>, s, f) /\ FlattenSeq(s) = f[n]
  BY AplanaPasos
<1> HIDE DEF n, m, c
<1>6. \A i \in 0 .. n : f[i] \in Seq(S)
  BY <1>5 DEF Pasos, n
<1>7. f[0] = <<>>
  BY <1>5 DEF Pasos
<1>8. ASSUME NEW k \in 1 .. n PROVE f[k] = f[k - 1] \o s[k]
  BY <1>1, <1>3, <1>5, <1>6, ConcatenaRegla DEF Pasos, n
<1> DEFINE Bien(k) == /\ Len(f[k]) = IF c(k) <= m THEN c(k) ELSE m
                      /\ \A i \in 1 .. Len(f[k]) : f[k][i] = z[i]
           Malos == {k \in 0 .. n : ~Bien(k)}
<1>9. ASSUME NEW k \in 1 .. n, Bien(k - 1) PROVE Bien(k)
  <2>1. PICK a \in Seq(S) : a = f[k - 1]
    BY <1>3, <1>6
  <2>2. PICK b \in Seq(S) : b = s[k]
    BY <1>1
  <2>3. PICK p \in Nat : p = c(k - 1) /\ c(k) = p + d /\ p < m
    BY <1>3
  <2>4. /\ Len(a) = p /\ \A i \in 1 .. Len(a) : a[i] = z[i]
    BY <1>1, <1>9, <2>1, <2>3
  <2>5. /\ Len(b) = (IF p + d <= m THEN p + d ELSE m) - p
        /\ \A o \in 1 .. Len(b) : b[o] = z[p + o]
    BY <1>2, <2>2, <2>3
  <2>6. /\ Len(a \o b) = Len(a) + Len(b)
        /\ \A i \in 1 .. Len(a) + Len(b) :
              (a \o b)[i] = IF i <= Len(a) THEN a[i] ELSE b[i - Len(a)]
        /\ Len(b) \in Nat
    BY ConcatProperties
  <2>7. f[k] = a \o b
    BY <1>8, <2>1, <2>2
  <2> DEFINE j == a \o b
  <2> HIDE DEF j
  <2>8. Len(j) = IF p + d <= m THEN p + d ELSE m
    BY <1>1, <2>4, <2>5, <2>6 DEF j
  <2>9. ASSUME NEW i \in 1 .. Len(j) PROVE j[i] = z[i]
    <3>1. i \in 1 .. Len(a) + Len(b) /\ j[i] = IF i <= Len(a) THEN a[i] ELSE b[i - Len(a)]
      BY <2>6 DEF j
    <3>2. CASE i <= Len(a)
      <4>1. i \in 1 .. Len(a)
        BY <2>4, <3>1, <3>2
      <4> QED
        BY <2>4, <3>1, <3>2, <4>1
    <3>3. CASE ~(i <= Len(a))
      <4>1. i - p \in 1 .. Len(b) /\ p + (i - p) = i
        BY <2>4, <2>6, <3>1, <3>3
      <4> QED
        BY <2>4, <2>5, <3>1, <3>3, <4>1
    <3> QED
      BY <3>2, <3>3
  <2> QED
    BY <2>3, <2>7, <2>8, <2>9 DEF j
<1>10. Bien(0)
  BY <1>1, <1>4, <1>7
<1> HIDE DEF Bien
<1>11. Malos = {}
  <2> SUFFICES ASSUME Malos # {} PROVE FALSE
    OBVIOUS
  <2>1. Malos \in SUBSET Nat
    BY <1>1
  <2>2. PICK k \in Malos : \A x \in Malos : k <= x
    BY <2>1, HayMinimo
  <2>3. k \in 1 .. n /\ ~(k <= k - 1)
    BY <1>1, <1>10, <2>2
  <2>4. Bien(k - 1)
    BY <1>3, <2>2, <2>3
  <2> QED
    BY <1>9, <2>2, <2>3, <2>4
<1>12. Bien(n) /\ f[n] \in Seq(S)
  <2>1. n \in 0 .. n
    BY <1>1
  <2> QED
    BY <1>6, <1>11, <2>1
<1>13. Len(f[n]) = m /\ \A i \in 1 .. m : f[n][i] = z[i]
  <2>1. c(n) <= m => c(n) = m
    <3>1. c(n) \in Nat
      BY <1>1 DEF c
    <3> QED
      BY <1>1, <1>2, <3>1
  <2> QED
    BY <1>12, <2>1 DEF Bien
<1>14. f[n] = z
  <2>1. PICK a \in Seq(S) : a = f[n]
    BY <1>12
  <2>2. Len(a) = Len(z) /\ \A i \in 1 .. Len(a) : a[i] = z[i]
    BY <1>13, <2>1 DEF m
  <2> QED
    BY <2>1, <2>2, SeqEqual
<1> QED
  BY <1>5, <1>14
=============================================================================
