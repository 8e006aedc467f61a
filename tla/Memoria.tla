------------------------------ MODULE Memoria ------------------------------
(***************************************************************************)
(* The Memoria module: its table of partitions and its table of processes, *)
(* the requests of the kernel that change them (create a process, finish a *)
(* process, dump a process) and the writes of the CPU.                     *)
(*                                                                         *)
(* Memoria runs a thread for each connection.  The kernel opens one for    *)
(* each request, so two requests may run at once; the kernel creates one   *)
(* process at a time (it holds mutex_pcb until the answer arrives).  The   *)
(* creation of a process is two steps (search, assign), its end one step   *)
(* for each traversal of a table, so that other requests may come between. *)
(* A step that follows a pointer to a partition already freed has an       *)
(* undefined effect: the process is left with an arbitrary base and limit  *)
(* and nothing more of that run is explored.                               *)
(***************************************************************************)
EXTENDS Integers, Sequences, FiniteSets

CONSTANTS
  Pids,                \* processes the kernel asks for
  ESQUEMA,             \* "FIJAS" or "DINAMICAS"
  ALGORITMO_BUSQUEDA,  \* "FIRST", "BEST" or "WORST"
  PARTICIONES,         \* sizes of the fixed partitions
  TAM_MEMORIA,         \* bytes of user memory
  Tamanios,            \* sizes the processes ask for
  Direcciones,         \* bound: logical addresses the programs write to
  Nada,                \* NULL
  EnSerie,             \* TRUE: each request of the kernel waits for the previous
  VuelcaVacio          \* TRUE: a process that never wrote may be dumped

ASSUME EsquemaAssumption   == ESQUEMA \in {"FIJAS", "DINAMICAS"}
ASSUME AlgoritmoAssumption == ALGORITMO_BUSQUEDA \in {"FIRST", "BEST", "WORST"}
ASSUME TamaniosAssumption  == /\ TAM_MEMORIA \in Nat \ {0}
                              /\ Tamanios \subseteq Nat \ {0}
                              /\ PARTICIONES \in Seq(Nat \ {0})
                              /\ Direcciones \subseteq Nat
ASSUME PedidosAssumption   == EnSerie \in BOOLEAN /\ VuelcaVacio \in BOOLEAN

\* t_particion, t_proceso, and a creation under way.
Bloque   == [particion_id : Nat, base : Nat, limite : Int, tamanio : Nat \ {0},
             ocupada : BOOLEAN, proceso : Pids \cup {Nada}]
Registro == [base : Nat, limite : Int, particion : Nat, mayor : Int]
Pedido   == [pid : Pids, tamanio : Tamanios, particion : Nat]

ASSUME NadaAssumption == Nada \notin Pids \cup Registro \cup Pedido

VARIABLES
  particiones,   \* lista_particiones, in the order of the list
  particionID,   \* id of the next partition
  procesos,      \* lista_procesos_recibidos, by pid; Nada if absent
  creacion,      \* the creation under way, Nada if none
  fase,          \* what the kernel has asked for each process, and the step of its end
  volcado,       \* what the last step sent to Filesystem; Nada if nothing
  indefinido     \* a pointer to a freed partition, or to no process, was followed

vars == <<particiones, particionID, procesos, creacion, fase, volcado, indefinido>>

Particion(id, base, tam) ==
  [particion_id |-> id, base |-> base, limite |-> base + tam - 1, tamanio |-> tam,
   ocupada |-> FALSE, proceso |-> Nada]

\* Sum of the first n sizes of PARTICIONES: the base of the next.
suma[n \in 0 .. Len(PARTICIONES)] == IF n = 0 THEN 0 ELSE suma[n - 1] + PARTICIONES[n]

ParticionesIniciales ==
  IF ESQUEMA = "FIJAS"
  THEN [i \in 1 .. Len(PARTICIONES) |-> Particion(i - 1, suma[i - 1], PARTICIONES[i])]
  ELSE <<Particion(0, 0, TAM_MEMORIA)>>

Init ==
  /\ particiones = ParticionesIniciales
  /\ particionID = 1
  /\ procesos = [p \in Pids |-> Nada]
  /\ creacion = Nada
  /\ fase = [p \in Pids |-> "nuevo"]
  /\ volcado = Nada
  /\ indefinido = FALSE
-----------------------------------------------------------------------------
Sirve(s, i, tam) == ~s[i].ocupada /\ s[i].tamanio >= tam

\* A hole that replaces the one the search has kept so far.
Mejor(s, i, j) ==
  \/ ALGORITMO_BUSQUEDA = "WORST" /\ s[i].tamanio > s[j].tamanio
  \/ ALGORITMO_BUSQUEDA = "BEST"  /\ s[i].tamanio < s[j].tamanio

\* Of two holes that serve, the one the search keeps: the better one, the first
\* of the list if neither is better.
Preferida(s, i, j) == Mejor(s, i, j) \/ (~Mejor(s, j, i) /\ i <= j)

\* obtener_particion_a_asignar: its index, no index if it returns NULL.
Asignable(s, tam) ==
  {i \in DOMAIN s : Sirve(s, i, tam) /\ \A j \in DOMAIN s : Sirve(s, j, tam) => Preferida(s, i, j)}

ConId(id) == {i \in DOMAIN particiones : particiones[i].particion_id = id}

Finalizando(p) == fase[p] \in {"liberar", "quitar", "ordenar", "unificar"}
Desocupada == creacion = Nada /\ \A p \in Pids : ~Finalizando(p)
Llega == ~indefinido /\ (EnSerie => Desocupada)

\* atender_creacion_proceso, the search.  ERROR if there is no hole; the kernel
\* keeps the process in NEW and asks again later.
BuscarHueco(p, tam) ==
  /\ Llega /\ creacion = Nada
  /\ fase[p] \in {"nuevo", "rechazado"}
  /\ LET elegida == Asignable(particiones, tam) IN
     \/ /\ elegida = {}
        /\ fase' = [fase EXCEPT ![p] = "rechazado"]
        /\ UNCHANGED creacion
     \/ \E i \in elegida :
        /\ creacion' = [pid |-> p, tamanio |-> tam, particion |-> particiones[i].particion_id]
        /\ UNCHANGED fase
  /\ volcado' = Nada
  /\ UNCHANGED <<particiones, particionID, procesos, indefinido>>

\* What both functions record of the process.
Proceso(x, tam) ==
  [base |-> x.base, limite |-> x.base + tam - 1, particion |-> x.particion_id, mayor |-> -1]

Ocupar(x, p) == [x EXCEPT !.ocupada = TRUE, !.proceso = p]

\* The assigned partition after its remainder becomes a partition of its own.
Recortar(x, tam) == [x EXCEPT !.tamanio = tam, !.limite = x.base + tam - 1]

\* Mutants: the remainder starts one byte early, or one byte late.
RestoPisado(x, tam) == Particion(particionID, x.base + tam - 1, x.tamanio - tam + 1)
RestoCorto(x, tam)  == Particion(particionID, x.base + tam + 1, x.tamanio - tam - 1)

\* The remainder, appended to the list.
Resto(x, tam) == Particion(particionID, x.base + tam, x.tamanio - tam)

\* crear_proceso_esquema_fijo, crear_proceso_esquema_dinamico, and the answer OK.
CrearEn(i) ==
  LET x == particiones[i]
      p == creacion.pid
      tam == IF ESQUEMA = "FIJAS" THEN x.tamanio ELSE creacion.tamanio
  IN /\ procesos' = [procesos EXCEPT ![p] = Proceso(x, tam)]
     /\ IF x.tamanio > tam
        THEN /\ particiones' = Append([particiones EXCEPT ![i] = Ocupar(Recortar(x, tam), p)], Resto(x, tam))
             /\ particionID' = particionID + 1
        ELSE /\ particiones' = [particiones EXCEPT ![i] = Ocupar(x, p)]
             /\ UNCHANGED particionID
     /\ UNCHANGED indefinido

\* The partition was freed after the search: undefined.
CrearLiberada ==
  /\ ConId(creacion.particion) = {}
  /\ \E b \in 0 .. TAM_MEMORIA - 1, l \in 0 .. TAM_MEMORIA - 1 :
       procesos' = [procesos EXCEPT ![creacion.pid] =
         [base |-> b, limite |-> l, particion |-> creacion.particion, mayor |-> -1]]
  /\ indefinido' = TRUE
  /\ UNCHANGED <<particiones, particionID>>

CrearProceso ==
  /\ ~indefinido /\ creacion # Nada
  /\ CrearLiberada \/ \E i \in ConId(creacion.particion) : CrearEn(i)
  /\ fase' = [fase EXCEPT ![creacion.pid] = "vivo"]
  /\ creacion' = Nada
  /\ volcado' = Nada
-----------------------------------------------------------------------------
\* atender_finalizacion_proceso: the searches of the process and its partition,
\* which are followed without asking whether they found anything.
PedirFinalizacion(p) ==
  /\ Llega /\ fase[p] = "vivo"
  /\ fase' = [fase EXCEPT ![p] = "liberar"]
  /\ indefinido' = (ConId(procesos[p].particion) = {})
  /\ volcado' = Nada
  /\ UNCHANGED <<particiones, particionID, procesos, creacion>>

Desocupar(x) == [x EXCEPT !.ocupada = FALSE, !.proceso = Nada]

\* finalizar_proceso: the partition.
LiberarParticion(p) ==
  /\ ~indefinido /\ fase[p] = "liberar"
  /\ \E i \in ConId(procesos[p].particion) :
       particiones' = [particiones EXCEPT ![i] = Desocupar(@)]
  /\ fase' = [fase EXCEPT ![p] = "quitar"]
  /\ volcado' = Nada
  /\ UNCHANGED <<particionID, procesos, creacion, indefinido>>

\* finalizar_proceso: the list of processes.  Only dynamic partitions are joined.
QuitarProceso(p) ==
  /\ ~indefinido /\ fase[p] = "quitar"
  /\ procesos' = [procesos EXCEPT ![p] = Nada]
  /\ fase' = [fase EXCEPT ![p] = IF ESQUEMA = "DINAMICAS" THEN "ordenar" ELSE "finalizado"]
  /\ volcado' = Nada
  /\ UNCHANGED <<particiones, particionID, creacion, indefinido>>

\* Mutant: the list is left as it was.
OrdenDeLista(s, f) == \A i \in DOMAIN s : f[i] = i

\* The list s reordered by f is in the order of the bases.
OrdenPorBase(s, f) == \A i, j \in DOMAIN s : i < j => s[f[i]].base < s[f[j]].base

\* The orders of a list of n elements.
Ordenes(n) == {f \in [1 .. n -> 1 .. n] : \A i \in 1 .. n : \E j \in 1 .. n : f[j] = i}

\* ordenar_particiones_por_base, which mostrarParticiones calls.
Ordenar ==
  \E f \in Ordenes(Len(particiones)) :
    /\ OrdenPorBase(particiones, f)
    /\ particiones' = [i \in DOMAIN particiones |-> particiones[f[i]]]

\* mostrarParticiones, before the pairs are looked at.
OrdenarParticiones(p) ==
  /\ ~indefinido /\ fase[p] = "ordenar"
  /\ Ordenar
  /\ fase' = [fase EXCEPT ![p] = "unificar"]
  /\ volcado' = Nada
  /\ UNCHANGED <<particionID, procesos, creacion, indefinido>>

\* Mutant: whether the neighbour is taken is not looked at.
UnibleSinVecina(s, i) == ~s[i].ocupada /\ s[i].limite + 1 = s[i + 1].base

\* Elements i and i + 1 of the list are two contiguous holes.
Unible(s, i) == ~s[i].ocupada /\ ~s[i + 1].ocupada /\ s[i].limite + 1 = s[i + 1].base

\* Element i absorbs element i + 1, which leaves the list.
Unidas(s, i) ==
  [k \in 1 .. Len(s) - 1 |->
     IF k < i THEN s[k]
     ELSE IF k = i THEN [s[i] EXCEPT !.tamanio = @ + s[i + 1].tamanio, !.limite = s[i + 1].limite]
     ELSE s[k + 1]]

Unibles == {i \in 1 .. Len(particiones) - 1 : Unible(particiones, i)}

\* unificar_particiones_libres_contiguas: one round, which joins the first pair.
UnificarParticiones(p) ==
  /\ ~indefinido /\ fase[p] = "unificar"
  /\ \E i \in Unibles : /\ \A j \in Unibles : i <= j
                        /\ particiones' = Unidas(particiones, i)
  /\ volcado' = Nada
  /\ UNCHANGED <<particionID, procesos, creacion, fase, indefinido>>

\* The last round, which joins nothing, mostrarParticiones and the answer OK.
FinalizarProceso(p) ==
  /\ ~indefinido /\ fase[p] = "unificar" /\ Unibles = {}
  /\ Ordenar
  /\ fase' = [fase EXCEPT ![p] = "finalizado"]
  /\ volcado' = Nada
  /\ UNCHANGED <<particionID, procesos, creacion, indefinido>>
-----------------------------------------------------------------------------
\* Mutant: the last byte of the partition is one past it.
TraducibleDeMas(x, dir) == dir <= x.limite - x.base + 1

\* MMU: the logical address is translated only below limite - base.
Traducible(x, dir) == dir < x.limite - x.base

\* atender_escritura, for an address the MMU of the CPU translates.
EscribirMemoria(p, dir) ==
  /\ ~indefinido /\ fase[p] = "vivo"
  /\ Traducible(procesos[p], dir)
  /\ LET fisica == procesos[p].base + dir IN
     procesos' = [procesos EXCEPT ![p].mayor = IF fisica > @ THEN fisica ELSE @]
  /\ volcado' = Nada
  /\ UNCHANGED <<particiones, particionID, creacion, fase, indefinido>>

ConLimites(x) ==
  {i \in DOMAIN particiones : particiones[i].base = x.base /\ particiones[i].limite = x.limite}

\* Bytes sent: from the base of the partition to the highest address written.  The
\* difference is negative if nothing was written, and a huge size_t: malloc
\* returns NULL and memcpy ends Memoria.
Escrito(x, y) == x.mayor - y.base + 1

\* enviar_memory_dump_filesystem: the message to the Filesystem, whose answer is the
\* answer of the dump.
EnviadoAFilesystem(p, x, b) ==
  [pid |-> p, desde |-> b.base, cantidad |-> Escrito(x, b), tamanio |-> b.tamanio]

\* atender_dump_memory.
VolcarMemoria(p) ==
  /\ Llega /\ fase[p] = "vivo"
  /\ VuelcaVacio \/ procesos[p].mayor # -1
  /\ LET x == procesos[p] IN
     \/ /\ \A i \in ConLimites(x) : Escrito(x, particiones[i]) < 0
        /\ indefinido' = TRUE /\ volcado' = Nada
     \/ \E i \in ConLimites(x) :
        /\ \A j \in ConLimites(x) : i <= j
        /\ Escrito(x, particiones[i]) >= 0
        /\ volcado' = EnviadoAFilesystem(p, x, particiones[i])
        /\ UNCHANGED indefinido
  /\ UNCHANGED <<particiones, particionID, procesos, creacion, fase>>

Finalizacion(p) ==
  \/ LiberarParticion(p) \/ QuitarProceso(p)
  \/ OrdenarParticiones(p) \/ UnificarParticiones(p) \/ FinalizarProceso(p)

Next ==
  \/ \E p \in Pids, tam \in Tamanios : BuscarHueco(p, tam)
  \/ CrearProceso
  \/ \E p \in Pids : PedirFinalizacion(p)
  \/ \E p \in Pids : Finalizacion(p)
  \/ \E p \in Pids, dir \in Direcciones : EscribirMemoria(p, dir)
  \/ \E p \in Pids : VolcarMemoria(p)

\* The thread of each connection goes on running.
Fairness == WF_vars(CrearProceso) /\ \A p \in Pids : WF_vars(Finalizacion(p))

Spec == Init /\ [][Next]_vars /\ Fairness
-----------------------------------------------------------------------------
\* Types of the tables of Memoria.
TypeOK ==
  /\ particiones \in Seq(Bloque)
  /\ particionID \in Nat
  /\ procesos \in [Pids -> Registro \cup {Nada}]
  /\ creacion \in Pedido \cup {Nada}
  /\ fase \in [Pids -> {"nuevo", "rechazado", "vivo", "liberar", "quitar", "ordenar",
                        "unificar", "finalizado"}]
  /\ volcado \in [pid : Pids, desde : Nat, cantidad : Nat, tamanio : Nat] \cup {Nada}
  /\ indefinido \in BOOLEAN

Contiene(x, a) == x.base <= a /\ a <= x.limite

\* No byte of user memory belongs to two partitions, whatever the order in which
\* processes come and go: the splits of crear_proceso_esquema_dinamico and the
\* joins of unificar_particiones_libres_contiguas never make two overlap.
ParticionesDisjuntas ==
  \A i, j \in DOMAIN particiones :
    i # j => \/ particiones[i].limite < particiones[j].base
             \/ particiones[j].limite < particiones[i].base

\* With dynamic partitions no byte is lost: each address of user memory stays in
\* some partition after any number of splits and joins.
MemoriaCubierta ==
  ESQUEMA = "DINAMICAS" =>
    \A a \in 0 .. TAM_MEMORIA - 1 : \E i \in DOMAIN particiones : Contiene(particiones[i], a)

\* With dynamic partitions a process is turned away only if no run of free
\* addresses is as long as it asks for: between requests no run of free bytes is
\* longer than every hole of the table.
HuecosAprovechables ==
  ESQUEMA = "DINAMICAS" /\ Desocupada =>
    \A a \in 0 .. TAM_MEMORIA - 1, tam \in Tamanios :
      /\ a + tam <= TAM_MEMORIA
      /\ \A b \in a .. a + tam - 1, i \in DOMAIN particiones :
           Contiene(particiones[i], b) => ~particiones[i].ocupada
      => Asignable(particiones, tam) # {}

\* The partition that records p as its process, with the very limits of p.
ParticionDe(p) == {i \in DOMAIN particiones :
  /\ particiones[i].ocupada /\ particiones[i].proceso = p
  /\ particiones[i].particion_id = procesos[p].particion
  /\ particiones[i].base = procesos[p].base /\ particiones[i].limite = procesos[p].limite}

\* Each process has its memory and its dump is of that: a process the kernel was
\* told is created has the partition atender_dump_memory looks up by its limits, a
\* taken partition has such a process, so none is leaked, and a dump sends bytes of
\* the dumped process only.  No request follows a null or freed pointer.
VolcadoPropio ==
  /\ ~indefinido
  /\ \A p \in Pids : fase[p] = "vivo" => ParticionDe(p) # {}
  /\ \A i \in DOMAIN particiones : particiones[i].ocupada =>
       \E p \in Pids : fase[p] \in {"vivo", "liberar"} /\ procesos[p].particion = particiones[i].particion_id
  /\ volcado # Nada =>
       LET x == procesos[volcado.pid] IN
       /\ volcado.desde = x.base
       /\ volcado.desde + volcado.cantidad - 1 <= x.limite
       /\ volcado.cantidad <= volcado.tamanio

\* Every end of a process the kernel asks for is answered: the rounds of
\* unificar_particiones_libres_contiguas come to an end.
FinalizacionRespondida == \A p \in Pids : Finalizando(p) ~> fase[p] = "finalizado"
=============================================================================
