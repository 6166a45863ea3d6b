------------------------------- MODULE Gossip -------------------------------
(***************************************************************************)
(* The gossiping of the memories (MEMORIA/src/memoria.c) and what the      *)
(* Kernel learns from it (KERNEL/src/kernel.c).                            *)
(*                                                                         *)
(* Every memory keeps tabla_memorias: itself, the SEEDS of its config and  *)
(* the memories it hears of.  Its thread hilo_gossiping goes through the   *)
(* table and swaps lists with each entry; the other side is served by one  *)
(* thread per connection (atender_request).  What runs under               *)
(* mutex_memorias is one step.  The gossiping thread walks and writes the  *)
(* entries WITHOUT the mutex: its assignments are steps of their own.      *)
(*                                                                         *)
(* A memory may die and be started again.  An entry's socket is the life   *)
(* of the process it was opened to, 0 for socket = -1.  A list on the wire *)
(* is the set of its memories; the order they are added in is left open.   *)
(***************************************************************************)
EXTENDS Integers, FiniteSets, Sequences

CONSTANTS
    Memorias,     \* the processes: address and MEMORY_NUMBER of each are itself
    Seeds,        \* the addresses IP_SEEDS and PUERTO_SEEDS of each config
    Inicial,      \* the memory of the Kernel's config
    SinNumero,    \* numero_memoria = -1
    Basura,       \* a number nobody sent: an int that was never written
    Mortales,     \* bound: the memories that may die
    MaxVidas      \* bound: how many times a memory is started

ASSUME SeedsAssumption == Seeds \in [Memorias -> Seq(Memorias)]
ASSUME InicialAssumption == Inicial \in Memorias
ASSUME NumerosAssumption ==
    SinNumero # Basura /\ {SinNumero, Basura} \cap Memorias = {}
ASSUME VidasAssumption == MaxVidas \in Nat \ {0}

Hilos == Memorias \X {"gossip", "conexion"}
G(m) == <<m, "gossip">>       \* hilo_gossiping of m
C(m) == <<m, "conexion">>     \* the thread of m's peer that serves m's exchange

VARIABLES
    viva,      \* is the process running?
    vida,      \* how many times it was started
    tabla,     \* tabla_memorias
    pc,        \* where each thread is: a gossiping thread and the one that serves it
    lugar,     \* the entry hilo_gossiping is at
    sigue,     \* there was another one when list_iterate came to it
    numero,    \* its local socketSeed and numero_memoria_seed
    destino,   \* the peer whose thread serves the exchange
    lista,     \* the list of memories on its way to or from that thread
    pool,      \* l_memorias of the Kernel
    cortado    \* history: a number was taken from a recv that brought none

vars == <<viva, vida, tabla, pc, lugar, sigue, numero, destino, lista, pool, cortado>>

Numeros == Memorias \cup {SinNumero, Basura}
Conocida == [num : Numeros, dir : Memorias]
Entrada == [num : Numeros, dir : Memorias, activa : BOOLEAN, socket : Int]

-----------------------------------------------------------------------------
(* The table *)

\* iniciar_tabla_memorias: itself, then the seeds, not active and unnumbered.
TablaInicial(m) ==
    [i \in 1 .. 1 + Len(Seeds[m]) |->
        IF i = 1
        THEN [num |-> m, dir |-> m, activa |-> TRUE, socket |-> 0]
        ELSE [num |-> SinNumero, dir |-> Seeds[m][i - 1], activa |-> FALSE, socket |-> 0]]

\* get_memorias_activas, as serializar_memorias sends it: number, ip and port.
MemoriasActivas(t) ==
    {[num |-> t[i].num, dir |-> t[i].dir] : i \in {j \in DOMAIN t : t[j].activa}}

\* Mutant: list_find is left out.
AgregadasSinBuscar(t, l) ==
    {t \o [i \in 1 .. Cardinality(l) |-> [num |-> s[i].num, dir |-> s[i].dir,
                                        activa |-> TRUE, socket |-> 0]] :
        s \in {s \in [1 .. Cardinality(l) -> l] : {s[i] : i \in DOMAIN s} = l}}

\* agregar_memorias_gossiping: the tables that t may become, with one entry
\* more for each number of the list that list_find does not find.
Agregadas(t, l) ==
    LET faltan == {c.num : c \in l} \ {t[i].num : i \in DOMAIN t}
        Agrega(s) == t \o [i \in DOMAIN s |-> [num |-> s[i].num, dir |-> s[i].dir,
                                              activa |-> TRUE, socket |-> 0]]
    IN  {Agrega(s) : s \in
            {s \in [1 .. Cardinality(faltan) -> {c \in l : c.num \in faltan}] :
                /\ {s[i].num : i \in DOMAIN s} = faltan
                /\ \A i, j \in DOMAIN s : s[i].num = s[j].num => i = j}}

\* The value of a socket the peer has reset: the next send on it fails.
Rota == -1

\* Is the connection to the process that runs now at that address?
Vigente(d, s) == viva[d] /\ s = vida[d]

Actual(m) == tabla[m][lugar[m]]

Init ==
    /\ viva = [m \in Memorias |-> FALSE]
    /\ vida = [m \in Memorias |-> 0]
    /\ tabla = [m \in Memorias |-> TablaInicial(m)]
    /\ pc = [h \in Hilos |-> "libre"]
    /\ lugar = [m \in Memorias |-> 1]
    /\ sigue = [m \in Memorias |-> FALSE]
    /\ numero = [m \in Memorias |-> SinNumero]
    /\ destino = [m \in Memorias |-> m]
    /\ lista = [m \in Memorias |-> {}]
    /\ pool = {[num |-> Inicial, dir |-> Inicial]}
    /\ cortado = FALSE

-----------------------------------------------------------------------------
(* gossiping(): the walk over the table *)

\* Mutant: the walk goes one entry past the end.
SiguienteDeMas(m, largo, libres) ==
    /\ lugar' = [lugar EXCEPT ![m] = IF sigue[m] THEN @ + 1 ELSE 1]
    /\ sigue' = [sigue EXCEPT ![m] = @ /\ lugar[m] <= largo]
    /\ pc' = [h \in Hilos |->
                IF h = G(m) THEN IF sigue[m] THEN "recorre" ELSE "libre"
                ELSE IF h \in libres THEN "libre" ELSE pc[h]]

\* An entry is done with.  list_iterate takes the next one before it calls
\* gossiping_seed: what is added during the exchange with the last entry is
\* walked in the next round, what is added before it in this one.
Siguiente(m, largo, libres) ==
    /\ lugar' = [lugar EXCEPT ![m] = IF sigue[m] THEN @ + 1 ELSE 1]
    /\ sigue' = [sigue EXCEPT ![m] = @ /\ lugar[m] + 1 < largo]
    /\ pc' = [h \in Hilos |->
                IF h = G(m) THEN IF sigue[m] THEN "recorre" ELSE "libre"
                ELSE IF h \in libres THEN "libre" ELSE pc[h]]

\* The first entry is its own and nothing is done with it.
EmpiezaRonda(m) ==
    /\ viva[m] /\ pc[G(m)] = "libre" /\ Len(tabla[m]) > 1
    /\ pc' = [pc EXCEPT ![G(m)] = "recorre"]
    /\ lugar' = [lugar EXCEPT ![m] = 2]
    /\ sigue' = [sigue EXCEPT ![m] = Len(tabla[m]) > 2]
    /\ UNCHANGED <<viva, vida, tabla, numero, destino, lista, pool, cortado>>

\* The entry of its own number.
Saltea(m) ==
    /\ viva[m] /\ pc[G(m)] = "recorre" /\ Actual(m).num = m
    /\ Siguiente(m, Len(tabla[m]), {})
    /\ UNCHANGED <<viva, vida, tabla, numero, destino, lista, pool, cortado>>

\* socket_connect_to_server fails: the entry stays as active as it was.
Rechazada(m) ==
    /\ viva[m] /\ pc[G(m)] = "recorre" /\ Actual(m).num # m
    /\ ~Actual(m).activa \/ Actual(m).socket = 0
    /\ ~viva[Actual(m).dir]
    /\ tabla' = [tabla EXCEPT ![m][lugar[m]].socket = 0]
    /\ Siguiente(m, Len(tabla[m]), {})
    /\ UNCHANGED <<viva, vida, numero, destino, lista, pool, cortado>>

\* It connects; a seed that was never reached is first asked for its number.
Conecta(m) ==
    /\ viva[m] /\ pc[G(m)] = "recorre" /\ Actual(m).num # m
    /\ ~Actual(m).activa \/ Actual(m).socket = 0
    /\ viva[Actual(m).dir]
    /\ tabla' = [tabla EXCEPT ![m][lugar[m]].socket = vida[Actual(m).dir]]
    /\ pc' = [pc EXCEPT ![G(m)] = IF Actual(m).activa THEN "envia" ELSE "saluda"]
    /\ UNCHANGED <<viva, vida, lugar, sigue, numero, destino, lista, pool, cortado>>

\* Mutant: the entry takes the number of the memory that asks.
SaludaConElPropio(m) ==
    /\ viva[m] /\ pc[G(m)] = "saluda"
    /\ numero' = [numero EXCEPT ![m] = m]
    /\ tabla' = [tabla EXCEPT ![m][lugar[m]].activa = TRUE]
    /\ pc' = [pc EXCEPT ![G(m)] = "numera"]
    /\ UNCHANGED <<viva, vida, lugar, sigue, destino, lista, pool, cortado>>

\* CONEXION: the answer's recv is not checked; if the peer died the number is
\* whatever the stack had.  The entry is made active before it has its number.
Saluda(m) ==
    /\ viva[m] /\ pc[G(m)] = "saluda"
    /\ LET d == Actual(m).dir
           llega == Vigente(d, Actual(m).socket)
       IN  /\ \E n \in IF llega THEN {d} ELSE Numeros : numero' = [numero EXCEPT ![m] = n]
           /\ cortado' = (cortado \/ ~llega)
    /\ tabla' = [tabla EXCEPT ![m][lugar[m]].activa = TRUE]
    /\ pc' = [pc EXCEPT ![G(m)] = "numera"]
    /\ UNCHANGED <<viva, vida, lugar, sigue, destino, lista, pool>>

Numera(m) ==
    /\ viva[m] /\ pc[G(m)] = "numera"
    /\ tabla' = [tabla EXCEPT ![m][lugar[m]].num = numero[m]]
    /\ numero' = [numero EXCEPT ![m] = SinNumero]
    /\ pc' = [pc EXCEPT ![G(m)] = "envia"]
    /\ UNCHANGED <<viva, vida, lugar, sigue, destino, lista, pool, cortado>>

\* Once connected, or with the socket it already had, it sends its active
\* memories.  To a peer that died, the first send may still go out.
Envia(m) ==
    /\ viva[m]
    /\ \/ pc[G(m)] = "envia"
       \/ /\ pc[G(m)] = "recorre" /\ Actual(m).num # m
          /\ Actual(m).activa /\ Actual(m).socket # 0
    /\ LET d == Actual(m).dir
       IN  IF Vigente(d, Actual(m).socket)
           THEN /\ pc' = [pc EXCEPT ![G(m)] = "espera", ![C(m)] = "pedido"]
                /\ destino' = [destino EXCEPT ![m] = d]
                /\ lista' = [lista EXCEPT ![m] = MemoriasActivas(tabla[m])]
           ELSE /\ pc' = [pc EXCEPT ![G(m)] = "espera"]
                /\ UNCHANGED <<destino, lista>>
    /\ UNCHANGED <<viva, vida, tabla, lugar, sigue, numero, pool, cortado>>

\* The answer: the list to add.
Recibe(m) ==
    /\ viva[m] /\ pc[G(m)] = "espera" /\ pc[C(m)] = "respondido"
    /\ \E t \in Agregadas(tabla[m], lista[m]) :
          /\ tabla' = [tabla EXCEPT ![m] = t]
          /\ Siguiente(m, Len(t), {C(m)})
    /\ lista' = [lista EXCEPT ![m] = {}]
    /\ UNCHANGED <<viva, vida, numero, destino, pool, cortado>>

\* A send or a recv returned -1: the socket is closed and tried again in the
\* next round.
Cierra(m) ==
    /\ viva[m] /\ pc[G(m)] = "espera" /\ pc[C(m)] = "libre"
    /\ tabla' = [tabla EXCEPT ![m][lugar[m]].socket = 0]
    /\ Siguiente(m, Len(tabla[m]), {})
    /\ UNCHANGED <<viva, vida, numero, destino, lista, pool, cortado>>

\* recv returned 0, which is not checked: header and table are whatever memory
\* had, here an empty table (see Cae for the other outcome).
RecibeNada(m) ==
    /\ viva[m] /\ pc[G(m)] = "espera" /\ pc[C(m)] = "libre"
    /\ Actual(m).socket # Rota
    /\ tabla' = [tabla EXCEPT ![m][lugar[m]].socket = Rota]
    /\ Siguiente(m, Len(tabla[m]), {})
    /\ UNCHANGED <<viva, vida, numero, destino, lista, pool, cortado>>

-----------------------------------------------------------------------------
(* atender_request: GOSSIPING of a memory, and agregar_memorias_gossiping *)

\* Mutant: the thread answers with its table and does not add to it.
AtiendeSinAgregar(m) ==
    /\ pc[C(m)] = "pedido"
    /\ pc' = [pc EXCEPT ![C(m)] = "responde"]
    /\ lista' = [lista EXCEPT ![m] = {}]
    /\ UNCHANGED <<viva, vida, tabla, lugar, sigue, numero, destino, pool, cortado>>

Atiende(m) ==
    /\ pc[C(m)] = "pedido"
    /\ \E t \in Agregadas(tabla[destino[m]], lista[m]) :
          tabla' = [tabla EXCEPT ![destino[m]] = t]
    /\ pc' = [pc EXCEPT ![C(m)] = "responde"]
    /\ lista' = [lista EXCEPT ![m] = {}]
    /\ UNCHANGED <<viva, vida, lugar, sigue, numero, destino, pool, cortado>>

\* Mutant: the answer waits until the memory's own round is over, as with one
\* thread for both.
RespondeEnOrden(m) ==
    /\ pc[C(m)] = "responde" /\ pc[G(destino[m])] = "libre"
    /\ pc' = [pc EXCEPT ![C(m)] = IF viva[m] THEN "respondido" ELSE "libre"]
    /\ lista' = [lista EXCEPT ![m] =
                    IF viva[m] THEN MemoriasActivas(tabla[destino[m]]) ELSE @]
    /\ UNCHANGED <<viva, vida, tabla, lugar, sigue, numero, destino, pool, cortado>>

\* It answers with its own active memories, if somebody is there to hear.
Responde(m) ==
    /\ pc[C(m)] = "responde"
    /\ IF viva[m]
       THEN /\ pc' = [pc EXCEPT ![C(m)] = "respondido"]
            /\ lista' = [lista EXCEPT ![m] = MemoriasActivas(tabla[destino[m]])]
       ELSE /\ pc' = [pc EXCEPT ![C(m)] = "libre"]
            /\ UNCHANGED lista
    /\ UNCHANGED <<viva, vida, tabla, lugar, sigue, numero, destino, pool, cortado>>

-----------------------------------------------------------------------------
(* The Kernel, and the death of a memory *)

\* gossiping() of the Kernel: it asks a memory of its pool for its table and
\* adds the numbers it has not, one at a time.
KernelAgrega ==
    /\ \E c \in pool :
          /\ viva[c.dir]
          /\ \E a \in MemoriasActivas(tabla[c.dir]) :
                /\ \A p \in pool : p.num # a.num
                /\ pool' = pool \cup {a}
    /\ UNCHANGED <<viva, vida, tabla, pc, lugar, sigue, numero, destino, lista, cortado>>

\* The threads that die with m: its own, those that serve others, and the
\* answer it would have read.
MueraCon(m) ==
    {G(m)} \cup {C(x) : x \in {y \in Memorias :
        destino[y] = m /\ pc[C(y)] \in {"pedido", "responde"}}}
      \cup {C(x) : x \in {y \in {m} : pc[C(y)] = "respondido"}}

\* A memory is killed, or a recv of 0 bytes makes it read a table that is not
\* there.
Cae(m) ==
    /\ viva[m]
    /\ m \in Mortales
    /\ viva' = [viva EXCEPT ![m] = FALSE]
    /\ tabla' = [tabla EXCEPT ![m] = TablaInicial(m)]
    /\ pc' = [h \in Hilos |-> IF h \in MueraCon(m) THEN "libre" ELSE pc[h]]
    /\ lugar' = [lugar EXCEPT ![m] = 1]
    /\ sigue' = [sigue EXCEPT ![m] = FALSE]
    /\ numero' = [numero EXCEPT ![m] = SinNumero]
    /\ lista' = [x \in Memorias |-> IF C(x) \in MueraCon(m) THEN {} ELSE lista[x]]
    /\ UNCHANGED <<vida, destino, pool, cortado>>

\* It is started, or started again once what it had asked before is over.
Arranca(m) ==
    /\ ~viva[m] /\ vida[m] < MaxVidas /\ pc[C(m)] = "libre"
    /\ viva' = [viva EXCEPT ![m] = TRUE]
    /\ vida' = [vida EXCEPT ![m] = @ + 1]
    /\ UNCHANGED <<tabla, pc, lugar, sigue, numero, destino, lista, pool, cortado>>

-----------------------------------------------------------------------------
PasoGossip(m) ==
    \/ EmpiezaRonda(m) \/ Saltea(m) \/ Rechazada(m) \/ Conecta(m) \/ Saluda(m)
    \/ Numera(m) \/ Envia(m) \/ Recibe(m) \/ Cierra(m) \/ RecibeNada(m)

PasoConexion(m) == Atiende(m) \/ Responde(m)

Next ==
    \/ \E m \in Memorias : PasoGossip(m) \/ PasoConexion(m) \/ Cae(m) \/ Arranca(m)
    \/ KernelAgrega

\* Threads run, and the Kernel's goes on asking.  Nobody has to start a memory
\* again.
Fairness ==
    /\ \A m \in Memorias : WF_vars(PasoGossip(m)) /\ WF_vars(PasoConexion(m))
    /\ WF_vars(KernelAgrega)

Spec == Init /\ [][Next]_vars
FairSpec == Spec /\ Fairness

-----------------------------------------------------------------------------
(* Properties *)

TypeOK ==
    /\ viva \in [Memorias -> BOOLEAN]
    /\ vida \in [Memorias -> Nat]
    /\ tabla \in [Memorias -> Seq(Entrada)]
    /\ pc \in [Hilos -> {"libre", "recorre", "saluda", "numera", "envia", "espera",
                         "pedido", "responde", "respondido"}]
    /\ lugar \in [Memorias -> Nat]
    /\ sigue \in [Memorias -> BOOLEAN]
    /\ \A m \in Memorias : lugar[m] \in DOMAIN tabla[m]
    /\ numero \in [Memorias -> Numeros]
    /\ destino \in [Memorias -> Memorias]
    /\ lista \in [Memorias -> SUBSET Conocida]
    /\ pool \subseteq Conocida
    /\ cortado \in BOOLEAN

\* The entries that were never without a number: its own and what it was told.
Numeradas(m) == {i \in DOMAIN tabla[m] : i = 1 \/ i > 1 + Len(Seeds[m])}

\* A memory is in a table once, whichever connections tell of it at the same
\* time and whatever the gossiping thread writes meanwhile.  Only a seed may be
\* a second entry: its number is asked when others may have told of it already.
SinDuplicadas ==
    \A m \in Memorias : \A i, j \in Numeradas(m) :
        tabla[m][i].num = tabla[m][j].num => i = j

\* Unless a memory died in the middle of a handshake, whose recv is not checked
\* (memoria.c:1185), no table and not the Kernel's pool give a memory's number
\* the address of another: at worst an entry that was read between its two
\* assignments (memoria.c:1188) goes from table to table as memory -1.
NumeroDeSuDireccion ==
    \/ cortado
    \/ \A m \in Memorias : \A c \in MemoriasActivas(tabla[m]) \cup pool :
          c.num \in {c.dir, SinNumero}

Reales(t) == {c \in MemoriasActivas(t) : c.num = c.dir}

Acuerdo(m, d) ==
    viva[m] /\ viva[d] =>
        /\ {m, d} \subseteq {c.num : c \in Reales(tabla[m])}
        /\ Reales(tabla[m]) = Reales(tabla[d])

\* From some moment on, a memory and each seed of its config know each other and
\* everyone the other knows, as long as both run, and the Kernel has in its pool
\* everyone that a running memory of its pool knows: whatever the order they were
\* started in, the deaths of others, and the entries without a number.
Converge ==
    <>[](\/ cortado
         \/ /\ \A m \in Memorias : \A i \in 1 .. Len(Seeds[m]) : Acuerdo(m, Seeds[m][i])
            /\ \A c \in pool : viva[c.dir] => Reales(tabla[c.dir]) \subseteq pool)

\* A round always ends: two memories that ask each other at the same time do not
\* wait for each other, and a peer that dies does not keep its asker.
RondaTermina ==
    \A m \in Memorias : []<>(pc[G(m)] = "libre")
=============================================================================
