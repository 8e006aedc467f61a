------------------------------ MODULE Admision ------------------------------
(***************************************************************************)
(* The admission of processes by the long-term scheduler, composed with    *)
(* the Memoria module: crear_proceso in the dispatch handler,              *)
(* finalizar_proceso and its replanificar_creacion_proceso in a detached   *)
(* thread for each process that ends, and the requests of both to Memoria. *)
(*                                                                         *)
(* NEW keeps a process until Memoria accepts it.  The handler asks for a   *)
(* process it has just added, a finalizer for the first of NEW, and        *)
(* nothing keeps them apart: UnoPorVez makes them wait for each other.     *)
(* Without it two creations of the same process may reach Memoria; the     *)
(* model goes no further than the second request.                          *)
(***************************************************************************)
EXTENDS Integers, Sequences, SequencesExt, FiniteSets

CONSTANTS
  MaxProcesos,   \* bound: processes the programs create
  Tamanios, ESQUEMA, ALGORITMO_BUSQUEDA, PARTICIONES, TAM_MEMORIA, Nada,   \* of Memoria
  UnoPorVez      \* TRUE: one thread at a time asks Memoria for a process, which ends after it was admitted

Nadie == 0
Pids  == 1 .. MaxProcesos

ASSUME ProcesosAssumption == MaxProcesos \in Nat \ {0} /\ UnoPorVez \in BOOLEAN

\* The threads: the handler, and the finalizer of each process.
Manejador == 0
Tareas    == {Manejador} \cup Pids

VARIABLES
  nuevos,      \* lista_pcb_new
  vacia,       \* history: NEW was empty before the last PCB was added
  enMemoria,   \* lista_pcb_enMemoria
  salidos,     \* lista_pcb_exit
  creados,     \* process_id
  tamanio,     \* tamanio of each PCB
  hilos,       \* siguiente_tid of each PCB
  tarea,       \* step of each thread and the process it asks Memoria for
  rta,         \* rta_creacion_proceso
  caido,       \* the kernel ended: a thread was created in a process Memoria does not have
  particiones, particionID, procesos, creacion, fase, volcado, indefinido  \* of Memoria

\* Memoria, whose processes are left as they were created: nothing is written or dumped.
M == INSTANCE Memoria WITH Direcciones <- {}, EnSerie <- FALSE, VuelcaVacio <- FALSE

\* What Memoria asks of its constants.
ASSUME MemoriaAssumption ==
  /\ ESQUEMA \in {"FIJAS", "DINAMICAS"} /\ ALGORITMO_BUSQUEDA \in {"FIRST", "BEST", "WORST"}
  /\ TAM_MEMORIA \in Nat \ {0} /\ Tamanios \subseteq Nat \ {0} /\ PARTICIONES \in Seq(Nat \ {0})
  /\ Nada \notin Pids \cup M!Registro \cup M!Pedido

memoria == <<particiones, particionID, procesos, creacion, fase, volcado, indefinido>>
listas  == <<nuevos, vacia, enMemoria, salidos>>
vars == <<listas, creados, tamanio, hilos, tarea, rta, caido, memoria>>

En(p, q) == [paso |-> p, pid |-> q]
Libre == En("libre", Nadie)

Init ==
  /\ nuevos = <<>> /\ vacia = TRUE /\ enMemoria = <<>> /\ salidos = <<>>
  /\ creados = 0
  /\ tamanio = [p \in Pids |-> 0] /\ hilos = [p \in Pids |-> 0]
  /\ tarea = [t \in Tareas |-> Libre]
  /\ rta = "ninguna" /\ caido = FALSE
  /\ M!Init

Va(t, p, q) == tarea' = [tarea EXCEPT ![t] = En(p, q)]
Esta(t, p)  == ~caido /\ tarea[t].paso = p

\* The steps from looking at NEW to the end of the admission.
PasosPedir == {"contar", "mirar", "pedir", "esperar", "leer", "crearHilo", "sacar", "agregar"}
NadiePide(t) == UnoPorVez => \A u \in Tareas \ {t} : tarea[u].paso \notin PasosPedir
-----------------------------------------------------------------------------
(* crear_proceso.                                                          *)

\* crear_pcb.
CrearPcb ==
  /\ Esta(Manejador, "libre") /\ NadiePide(Manejador) /\ creados < MaxProcesos
  /\ LET p == creados + 1 IN
       /\ creados' = p
       /\ \E n \in Tamanios : tamanio' = [tamanio EXCEPT ![p] = n]
       /\ nuevos' = Append(nuevos, p)
       /\ vacia' = (nuevos = <<>>)
       /\ Va(Manejador, "contar", p)
  /\ UNCHANGED <<enMemoria, salidos, hilos, rta, caido, memoria>>

\* What crear_proceso takes for "NEW was empty before this PCB".
EstabaVacia == Len(nuevos) = 1

\* Its size is read after the PCB was added, without the lock of NEW.
Contar ==
  /\ Esta(Manejador, "contar")
  /\ IF EstabaVacia THEN Va(Manejador, "pedir", tarea[Manejador].pid)
                    ELSE tarea' = [tarea EXCEPT ![Manejador] = Libre]
  /\ UNCHANGED <<listas, creados, tamanio, hilos, rta, caido, memoria>>
-----------------------------------------------------------------------------
(* preguntar_a_memoria_para_inicializacion, by thread t.                   *)

\* enviar_y_recibir_peticion_creacion_proceso: the request reaches Memoria.
Pedir(t) ==
  /\ Esta(t, "pedir")
  /\ M!BuscarHueco(tarea[t].pid, tamanio[tarea[t].pid])
  /\ Va(t, "esperar", tarea[t].pid)
  /\ UNCHANGED <<listas, creados, tamanio, hilos, rta, caido>>

EnCurso(p) == creacion # Nada /\ creacion.pid = p

\* atender_kernel_memoria: the answer goes to the string all of them share.
Recibir(t) ==
  LET p == tarea[t].pid IN
  /\ Esta(t, "esperar")
  /\ ~EnCurso(p)
  /\ rta' = IF fase[p] = "rechazado" THEN "ERROR" ELSE "OK"
  /\ Va(t, "leer", p)
  /\ UNCHANGED <<listas, creados, tamanio, hilos, caido, memoria>>

\* Mutant: the finalizer asks until it is accepted.
SigueSiempre(t) == t # Manejador

\* Whether t asks for another process after ERROR: replanificar ends, and so does
\* crear_proceso.
SigueTrasError(t) == FALSE

\* Mutant: a finalizer asks for one process only.
SiguienteUna(t) == IF t = Manejador THEN "libre" ELSE "quitar"

\* The step of t after an admission: a finalizer looks at NEW again.
Siguiente(t) == IF t = Manejador THEN "libre" ELSE "mirar"

Leer(t) ==
  /\ Esta(t, "leer")
  /\ \/ rta = "OK" /\ Va(t, "crearHilo", tarea[t].pid)
     \/ rta # "OK" /\ Va(t, IF t = Manejador THEN "libre" ELSE IF SigueTrasError(t) THEN "mirar" ELSE "quitar",
                         Nadie)
  /\ UNCHANGED <<listas, creados, tamanio, hilos, rta, caido, memoria>>

\* crear_tcb: Memoria refuses a thread of a process it does not have, and the
\* kernel exits.
CrearHilo(t) ==
  LET p == tarea[t].pid IN
  /\ Esta(t, "crearHilo")
  /\ hilos' = [hilos EXCEPT ![p] = @ + 1]
  /\ caido' = (procesos[p] = Nada)
  /\ Va(t, "sacar", p)
  /\ UNCHANGED <<listas, creados, tamanio, rta, memoria>>

\* Mutant: the PCB stays in NEW.
NuevosSinSacar(p) == nuevos

NuevosSin(p) == RemoveFirst(nuevos, p)

SacarDeNew(t) ==
  /\ Esta(t, "sacar")
  /\ nuevos' = NuevosSin(tarea[t].pid)
  /\ Va(t, "agregar", tarea[t].pid)
  /\ UNCHANGED <<vacia, enMemoria, salidos, creados, tamanio, hilos, rta, caido, memoria>>

AgregarEnMemoria(t) ==
  /\ Esta(t, "agregar")
  /\ enMemoria' = Append(enMemoria, tarea[t].pid)
  /\ Va(t, Siguiente(t), Nadie)
  /\ UNCHANGED <<nuevos, vacia, salidos, creados, tamanio, hilos, rta, caido, memoria>>
-----------------------------------------------------------------------------
(* finalizar_proceso, by the finalizer of p.                               *)

\* Thread 0 of p asks for PROCESS_EXIT, or its dump is refused.  The process may
\* be in no list yet.
PedirFin(p) ==
  /\ Esta(p, "libre") /\ hilos[p] > 0 /\ p \notin Range(salidos)
  /\ UnoPorVez => p \in Range(enMemoria)
  /\ Va(p, IF p \in Range(enMemoria) \cup Range(nuevos) THEN "avisar" ELSE "perdido", Nadie)
  /\ UNCHANGED <<listas, creados, tamanio, hilos, rta, caido, memoria>>

\* avisar_a_memoria_para_liberar_estructuras_proceso.
AvisarFin(p) ==
  /\ Esta(p, "avisar")
  /\ M!PedirFinalizacion(p)
  /\ Va(p, "liberando", Nadie)
  /\ UNCHANGED <<listas, creados, tamanio, hilos, rta, caido>>

\* Its answer, flag_proceso_finalizado and eliminar_hilos.
RecibirFin(p) ==
  /\ Esta(p, "liberando") /\ fase[p] = "finalizado"
  /\ Va(p, "replanificar", Nadie)
  /\ UNCHANGED <<listas, creados, tamanio, hilos, rta, caido, memoria>>

\* replanificar_creacion_proceso begins.
Replanificar(p) ==
  /\ Esta(p, "replanificar") /\ NadiePide(p)
  /\ Va(p, "mirar", Nadie)
  /\ UNCHANGED <<listas, creados, tamanio, hilos, rta, caido, memoria>>

\* Mutant: the last of NEW.
UltimoNuevo == {nuevos[i] : i \in DOMAIN nuevos \cap {Len(nuevos)}}

\* The process a finalizer asks for: the first of NEW, which stays there.
PrimerNuevo == {nuevos[i] : i \in DOMAIN nuevos \cap {1}}

MirarNew(p) ==
  /\ Esta(p, "mirar")
  /\ \/ PrimerNuevo = {} /\ Va(p, "quitar", Nadie)
     \/ \E q \in PrimerNuevo : Va(p, "pedir", q)
  /\ UNCHANGED <<listas, creados, tamanio, hilos, rta, caido, memoria>>

\* The process leaves lista_pcb_enMemoria...
QuitarDeMemoria(p) ==
  /\ Esta(p, "quitar")
  /\ enMemoria' = RemoveFirst(enMemoria, p)
  /\ Va(p, "salir", Nadie)
  /\ UNCHANGED <<nuevos, vacia, salidos, creados, tamanio, hilos, rta, caido, memoria>>

\* ... and goes to lista_pcb_exit.
AgregarASalidos(p) ==
  /\ Esta(p, "salir")
  /\ salidos' = Append(salidos, p)
  /\ tarea' = [tarea EXCEPT ![p] = Libre]
  /\ UNCHANGED <<nuevos, vacia, enMemoria, creados, tamanio, hilos, rta, caido, memoria>>
-----------------------------------------------------------------------------
\* The steps of Memoria that no step of the kernel takes: the second half of a
\* creation and the end of a process.
MemoriaSigue ==
  /\ ~caido
  /\ M!CrearProceso \/ \E p \in Pids : M!Finalizacion(p)
  /\ UNCHANGED <<listas, creados, tamanio, hilos, tarea, rta, caido>>

Preguntar(t) ==
  Pedir(t) \/ Recibir(t) \/ Leer(t) \/ CrearHilo(t) \/ SacarDeNew(t) \/ AgregarEnMemoria(t)

Finalizar(p) ==
  AvisarFin(p) \/ RecibirFin(p) \/ Replanificar(p) \/ MirarNew(p) \/ QuitarDeMemoria(p) \/ AgregarASalidos(p)

Next ==
  \/ CrearPcb \/ Contar
  \/ \E t \in Tareas : Preguntar(t)
  \/ \E p \in Pids : PedirFin(p) \/ Finalizar(p)
  \/ MemoriaSigue

Spec == Init /\ [][Next]_vars

\* The threads of the kernel and of Memoria go on; the programs owe nothing.
Equidad ==
  /\ WF_vars(Contar)
  /\ \A t \in Tareas : WF_vars(Preguntar(t))
  /\ \A p \in Pids : WF_vars(Finalizar(p))
  /\ WF_vars(MemoriaSigue)

SpecJusta == Spec /\ Equidad
-----------------------------------------------------------------------------
\* No thread is between an admission and the lists, nor between two lists.
Quieto(p) ==
  /\ \A t \in Tareas : tarea[t].pid # p
  /\ p \in Pids => tarea[p] = Libre

\* No process is ever in two of the three lists, nor twice in one, and kernel and
\* Memoria agree on every process nobody is handling: it is in a list, and Memoria
\* has a partition for it just while that is lista_pcb_enMemoria, with thread 0
\* created once.
MemoriaDeAcuerdo ==
  LET todos == nuevos \o enMemoria \o salidos IN
  /\ ~caido /\ ~indefinido
  /\ IsInjective(todos)
  /\ \A p \in 1 .. creados : Quieto(p) =>
       /\ p \in Range(todos)
       /\ p \in Range(enMemoria) <=> procesos[p] # Nada
       /\ p \in Range(nuevos) <=> hilos[p] = 0
       /\ p \in Range(enMemoria) <=> \E i \in DOMAIN particiones : particiones[i].ocupada /\ particiones[i].proceso = p

\* Processes are admitted in the order of their creation, by the handler or by any
\* finalizer: none enters lista_pcb_enMemoria while an earlier one is in NEW.
OrdenDeLlegada ==
  [][\A p \in Range(enMemoria') \ Range(enMemoria), q \in Pids :
       q < p => q \notin Range(nuevos)]_vars

\* Nobody waits in NEW for nothing: when no thread is at work and Memoria is idle,
\* the first of NEW does not fit in any partition that is free.
NadieEsperaDeMas ==
  (\A t \in Tareas : tarea[t] = Libre) /\ M!Desocupada =>
    \A p \in PrimerNuevo : M!Asignable(particiones, tamanio[p]) = {}

\* A finalizer that asked Memoria to free its process ends, with the process in
\* EXIT: replanificar_creacion_proceso does not go on for ever.
FinalizadoSale == \A p \in Pids : tarea[p].paso = "liberando" ~> p \in Range(salidos)

\* What the comment of crear_proceso says of its test: the handler asks Memoria for
\* a process only if NEW was empty before the process was added to it.
PideSiEstabaVacia == tarea[Manejador].paso = "pedir" => vacia
=============================================================================
