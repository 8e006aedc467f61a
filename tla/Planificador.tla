---------------------------- MODULE Planificador ----------------------------
(***************************************************************************)
(* The kernel: the long-term and the short-term scheduler, the handler of  *)
(* the CPU's dispatch connection, the mutexes, joins and dumps of the      *)
(* threads, together with the part of the CPU and of the Memoria module    *)
(* the kernel's decisions depend on.                                       *)
(*                                                                         *)
(* The kernel runs one handler thread for the dispatch connection (called  *)
(* Dispatch here) and detached threads for each finalizar_proceso, each    *)
(* atender_dump_memory and each scheduling pass that crear_tcb asks for.   *)
(* A handler that only moves threads between lists is one step; the        *)
(* functions that wait for Memoria or for a lock other threads take        *)
(* (finalizar_hilo, finalizar_proceso, atender_dump_memory) advance one    *)
(* step at a time, so the others interleave with them.                     *)
(***************************************************************************)
EXTENDS CortoPlazo, FiniteSets

CONSTANTS
  MaxPid,         \* bound: pids are 0 .. MaxPid
  MaxTid,         \* bound: each process creates tids 0 .. MaxTid at most
  Recursos,       \* names of mutexes
  Prioridades,    \* priorities a thread may be created with
  Particiones,    \* partitions of Memoria, one process in each
  Instrucciones,  \* the syscalls the programs use
  Fallos,         \* TRUE: any thread may also end in a segmentation fault
  DumpFalla,      \* TRUE: the filesystem may answer ERROR to a dump
  Disciplina      \* TRUE: programs respect Correcto, defined below

ConRespuesta == {"THREAD_CREATE", "THREAD_JOIN", "THREAD_CANCEL", "MUTEX_CREATE",
                 "MUTEX_LOCK", "MUTEX_UNLOCK", "PROCESS_CREATE"}
SinRespuesta == {"DUMP_MEMORY", "THREAD_EXIT", "PROCESS_EXIT"}

\* Syscalls after whose answer the CPU gives the thread back to the kernel.
ConDesalojo == {"THREAD_CREATE", "MUTEX_CREATE", "PROCESS_CREATE"}

ASSUME CotasAssumption       == MaxPid \in Nat /\ MaxTid \in Nat
ASSUME RecursosAssumption    == Recursos \subseteq Nat
ASSUME PrioridadesAssumption == Prioridades \subseteq Nat /\ 0 \in Prioridades
ASSUME MemoriaAssumption     == Particiones \in Nat \ {0}
ASSUME ProgramasAssumption   == /\ Instrucciones \subseteq ConRespuesta \cup SinRespuesta
                                /\ Fallos \in BOOLEAN /\ DumpFalla \in BOOLEAN
                                /\ Disciplina \in BOOLEAN

Pids   == 0 .. MaxPid
Tids   == 0 .. MaxTid
Hilos  == Pids \X Tids
Mutexes == Pids \X Recursos

Dispatch   == -1
Ejecutores == Pids \cup {Dispatch}   \* who may be running finalizar_hilo

VARIABLES
  \* thread lists and attributes of the TCBs
  ready, exec, blocked, salidos, prioridad, asignados, esperanJoin,
  \* PCBs
  pcbNew, pcbMem, pcbExit, siguientePid, siguienteTid, listaIds, finalizado,
  \* mutexes of the processes
  mutexes, duenio, bloqueadosMutex,
  \* detached threads and functions under way
  pcpPend, fh, finPend, fin, dump, rtaDump, idLiberado,
  \* Memoria: processes with a partition, threads with a context
  memProc, memHilos, dumpMem,
  \* messages and CPU
  aKernel, aCpu, cpu, contexto,
  \* the module that has crashed
  caido

vListas   == <<ready, exec, blocked, salidos>>
vTcb      == <<prioridad, asignados, esperanJoin>>
vPcb      == <<pcbNew, pcbMem, pcbExit, siguientePid, siguienteTid, listaIds, finalizado>>
vMutex    == <<mutexes, duenio, bloqueadosMutex>>
vFin      == <<finPend, fin>>
vDump     == <<dump, rtaDump, idLiberado>>
vMemoria  == <<memProc, memHilos, dumpMem>>
vCpu      == <<cpu, contexto>>
vars == <<vListas, vTcb, vPcb, vMutex, pcpPend, fh, vFin, vDump, vMemoria,
          aKernel, aCpu, vCpu, caido>>
-----------------------------------------------------------------------------
Pedido(h, i, a) == [op |-> "INSTRUCCION", hilo |-> h, instr |-> i, arg |-> a]
Desalojo(h)     == [op |-> "DESALOJO", hilo |-> h, instr |-> "NADA", arg |-> 0]

FhNada  == [fase |-> "nada", hilo |-> Nadie, mutexes |-> <<>>, joins |-> <<>>, rta |-> FALSE]
FinNada == [fase |-> "nada", i |-> 1, cero |-> FALSE]

\* The lists as the record the short-term scheduler works on, and back.
Colas == [ready |-> ready, exec |-> exec, aCpu |-> aCpu]
Quedan(p) == ready' = p.ready /\ exec' = p.exec /\ aCpu' = p.aCpu

\* Mutant: BLOCKED is not searched.
ExisteSinBlocked(h) == h \in ToSet(ready) \cup ToSet(exec)

\* existe_hilo: the thread is in READY, EXEC or BLOCKED.
Existe(h) == h \in ToSet(ready) \cup ToSet(exec) \cup blocked

\* Mutant: the CPU is not given to the next.
BloquearSinPcp(p, h) ==
  IF h \in ToSet(exec)
  THEN Quedan(SacarDeExec(p, h)) /\ blocked' = blocked \cup {h}
  ELSE Quedan(p) /\ UNCHANGED blocked

\* bloquear_hilo_en_ejecucion: from EXEC to BLOCKED, and the CPU to the next;
\* nothing if the thread is not in EXEC.
Bloquear(p, h) ==
  IF h \in ToSet(exec)
  THEN Quedan(Pcp(SacarDeExec(p, h), prioridad)) /\ blocked' = blocked \cup {h}
  ELSE Quedan(p) /\ UNCHANGED blocked

\* Mutants: a thread that is not in BLOCKED is enqueued too;
\* the thread is not enqueued.
DesbloquearSinBuscar(p, h) == Pcp(Encolar(p, h), prioridad)
DesbloquearSinEncolar(p, h) == p

\* desbloquear_hilo: from BLOCKED to READY; nothing if the thread is not there.
Desbloquear(p, h) == IF h \in blocked THEN Pcp(Encolar(p, h), prioridad) ELSE p

ResponderNunca(p, rta)   == p

\* The answer of a THREAD_CANCEL or of a MUTEX_UNLOCK.
Responder(p, rta) == IF rta THEN Enviar(p, Rta("OK")) ELSE p

\* After id_hilo is freed (idLiberado) the code that still holds the TCB reads
\* freed memory: any thread's id, or none.
IdLeido(h) == IF h \in idLiberado THEN Hilos \cup {Nadie} ELSE {h}

\* mutex_pcb is held by eliminar_hilos; the handler waits for it.
PcbTomado(p) == fin[p].fase = "hilos" \/ (fin[p].fase = "cero" /\ fh[p].fase # "nada")

EnMarcha == caido = "nadie"

Crash(m) == caido' = m
-----------------------------------------------------------------------------
\* The state crear_proceso_inicial leaves: process 0 in memory, its thread 0 in
\* READY and a scheduling pass under way.
Init ==
  /\ ready = <<<<0, 0>>>> /\ exec = <<>> /\ blocked = {} /\ salidos = {}
  /\ prioridad = [h \in Hilos |-> 0]
  /\ asignados = [h \in Hilos |-> <<>>]
  /\ esperanJoin = [h \in Hilos |-> <<>>]
  /\ pcbNew = <<>> /\ pcbMem = {0} /\ pcbExit = {}
  /\ siguientePid = 1
  /\ siguienteTid = [p \in Pids |-> IF p = 0 THEN 1 ELSE 0]
  /\ listaIds = [p \in Pids |-> <<<<p, 0>>>>]   \* crear_pcb gives every process its id 0
  /\ finalizado = [p \in Pids |-> FALSE]
  /\ mutexes = {}
  /\ duenio = [m \in Mutexes |-> Nadie]
  /\ bloqueadosMutex = [m \in Mutexes |-> <<>>]
  /\ pcpPend = 1
  /\ fh = [e \in Ejecutores |-> FhNada]
  /\ finPend = [p \in Pids |-> 0]
  /\ fin = [p \in Pids |-> FinNada]
  /\ dump = [h \in Hilos |-> "nada"]
  /\ rtaDump = "NADA"
  /\ idLiberado = {}
  /\ memProc = {0} /\ memHilos = {<<0, 0>>} /\ dumpMem = {}
  /\ aKernel = <<>> /\ aCpu = <<>>
  /\ cpu = "libre" /\ contexto = Nadie
  /\ caido = "nadie"
-----------------------------------------------------------------------------
(***************************************************************************)
(* crear_tcb for process p: the next tid, its context in Memoria, the end  *)
(* of READY, and a detached scheduling pass.                               *)
(***************************************************************************)
CrearTcb(p, pr, colas) ==
  LET h == <<p, siguienteTid[p]>>
  IN  /\ siguienteTid' = [siguienteTid EXCEPT ![p] = @ + 1]
      /\ listaIds' = [listaIds EXCEPT ![p] = IF siguienteTid[p] = 0 THEN @ ELSE Append(@, h)]
      /\ prioridad' = [prioridad EXCEPT ![h] = pr]
      /\ memHilos' = memHilos \cup {h}
      /\ Quedan(Encolar(colas, h))
      /\ pcpPend' = pcpPend + 1

\* preguntar_a_memoria_para_inicializacion: Memoria has a free partition.
HayParticion == Cardinality(memProc) < Particiones
-----------------------------------------------------------------------------
(***************************************************************************)
(* finalizar_hilo, of a thread in READY, EXEC or BLOCKED; nothing for any  *)
(* other.  The thread leaves its list and Memoria frees its                *)
(* context (FhInicio); then, under mutex_rta_finalizacion_hilo, it leaves  *)
(* the waiters of the mutexes it holds (FhTomar), each of its mutexes goes *)
(* to the next waiter (FhMutex), it enters EXIT and leaves its process     *)
(* (FhSalir), the threads that join it wake up (FhJoin), its id is freed   *)
(* and a scheduling pass ends the function (FhFin).                        *)
(***************************************************************************)
FhInicio(e, h, rta) ==
  IF Existe(h)
  THEN /\ Quedan(IF h \in ToSet(ready) THEN [Colas EXCEPT !.ready = RemoveFirst(@, h)]
                 ELSE SacarDeExec(Colas, h))
       /\ blocked' = blocked \ {h}
       /\ memHilos' = memHilos \ {h}
       /\ fh' = [fh EXCEPT ![e] = [fase |-> "pedido", hilo |-> h, mutexes |-> asignados[h],
                                   joins |-> esperanJoin[h], rta |-> rta]]
  ELSE Quedan(Responder(Colas, rta)) /\ UNCHANGED <<blocked, memHilos, fh>>

\* Mutant: the last waiter of a mutex.
HerederoUltimo(m) == Last(bloqueadosMutex[m])

\* The waiter that gets the mutex: the first.
Heredero(m) == Head(bloqueadosMutex[m])

\* protocolo_liberacion_recurso: the mutex is free, or goes to its first waiter,
\* who wakes up; buscar_tcb_por_tid finds no TCB if that waiter is finished.
\* asig: the mutexes each thread holds before; rta: answer the CPU.
Protocolo(m, asig, rta) ==
  IF bloqueadosMutex[m] = <<>>
  THEN /\ duenio' = [duenio EXCEPT ![m] = Nadie]
       /\ asignados' = asig
       /\ Quedan(Responder(Colas, rta))
       /\ UNCHANGED <<bloqueadosMutex, blocked, caido>>
  ELSE LET w == Heredero(m)
       IN  /\ bloqueadosMutex' = [bloqueadosMutex EXCEPT ![m] = Tail(@)]
           /\ blocked' = blocked \ {w}
           /\ Quedan(Responder(Desbloquear(Colas, w), rta))
           /\ IF Existe(w)
              THEN /\ asignados' = [asig EXCEPT ![w] = Append(@, m)]
                   /\ duenio' = [duenio EXCEPT ![m] = w]
                   /\ UNCHANGED caido
              ELSE Crash("kernel") /\ UNCHANGED <<asignados, duenio>>

FhTomar(e) ==
  /\ EnMarcha /\ fh[e].fase = "pedido"
  /\ \A o \in Ejecutores : fh[o].fase \notin {"mutexes", "joins"}
  /\ fh' = [fh EXCEPT ![e].fase = "mutexes"]
  /\ bloqueadosMutex' = [m \in Mutexes |->
       IF m \in ToSet(fh[e].mutexes) THEN RemoveFirst(bloqueadosMutex[m], fh[e].hilo)
                                     ELSE bloqueadosMutex[m]]
  /\ UNCHANGED <<vListas, vTcb, vPcb, mutexes, duenio, pcpPend, vFin, vDump, vMemoria,
                 aKernel, aCpu, vCpu, caido>>

\* Mutant: only the first of its mutexes is released.
FhMutexUnoSolo(e) ==
  /\ EnMarcha /\ fh[e].fase = "mutexes" /\ fh[e].mutexes # <<>>
  /\ fh' = [fh EXCEPT ![e].mutexes = <<>>]
  /\ Protocolo(Head(fh[e].mutexes), asignados, FALSE)
  /\ UNCHANGED <<salidos, prioridad, esperanJoin, vPcb, mutexes, pcpPend, vFin, vDump,
                 vMemoria, aKernel, vCpu>>

FhMutex(e) ==
  /\ EnMarcha /\ fh[e].fase = "mutexes" /\ fh[e].mutexes # <<>>
  /\ fh' = [fh EXCEPT ![e].mutexes = Tail(@)]
  /\ Protocolo(Head(fh[e].mutexes), asignados, FALSE)
  /\ UNCHANGED <<salidos, prioridad, esperanJoin, vPcb, mutexes, pcpPend, vFin, vDump,
                 vMemoria, aKernel, vCpu>>

FhSalir(e) ==
  /\ EnMarcha /\ fh[e].fase = "mutexes" /\ fh[e].mutexes = <<>>
  /\ fh' = [fh EXCEPT ![e].fase = "joins"]
  /\ LET h == fh[e].hilo
     IN  /\ salidos' = salidos \cup {h}
         /\ listaIds' = IF h[1] \in pcbMem \cup ToSet(pcbNew)
                        THEN [listaIds EXCEPT ![h[1]] = RemoveFirst(@, h)] ELSE listaIds
  /\ UNCHANGED <<ready, exec, blocked, vTcb, pcbNew, pcbMem, pcbExit, siguientePid,
                 siguienteTid, finalizado, vMutex, pcpPend, vFin, vDump, vMemoria,
                 aKernel, aCpu, vCpu, caido>>

\* Mutant: only the first of the threads that join it wakes up.
FhJoinUnoSolo(e) ==
  /\ EnMarcha /\ fh[e].fase = "joins" /\ fh[e].joins # <<>>
  /\ fh' = [fh EXCEPT ![e].joins = <<>>]
  /\ blocked' = blocked \ {Head(fh[e].joins)}
  /\ Quedan(Desbloquear(Colas, Head(fh[e].joins)))
  /\ UNCHANGED <<salidos, vTcb, vPcb, vMutex, pcpPend, vFin, vDump, vMemoria,
                 aKernel, vCpu, caido>>

\* Mutant: the threads that join it are forgotten.
FhJoinOlvidado(e) ==
  /\ EnMarcha /\ fh[e].fase = "joins" /\ fh[e].joins # <<>>
  /\ fh' = [fh EXCEPT ![e].joins = Tail(@)]
  /\ UNCHANGED <<vListas, vTcb, vPcb, vMutex, pcpPend, vFin, vDump, vMemoria,
                 aKernel, aCpu, vCpu, caido>>

FhJoin(e) ==
  /\ EnMarcha /\ fh[e].fase = "joins" /\ fh[e].joins # <<>>
  /\ fh' = [fh EXCEPT ![e].joins = Tail(@)]
  /\ blocked' = blocked \ {Head(fh[e].joins)}
  /\ Quedan(Desbloquear(Colas, Head(fh[e].joins)))
  /\ UNCHANGED <<salidos, vTcb, vPcb, vMutex, pcpPend, vFin, vDump, vMemoria,
                 aKernel, vCpu, caido>>

\* Mutant: mutex_rta_finalizacion_hilo is not unlocked.
FhFinSinSoltar(e) ==
  /\ EnMarcha /\ fh[e].fase = "joins" /\ fh[e].joins = <<>>
  /\ Quedan(Responder(Pcp(Colas, prioridad), fh[e].rta))
  /\ idLiberado' = IF fh[e].rta THEN idLiberado ELSE idLiberado \cup {fh[e].hilo}
  /\ UNCHANGED <<blocked, salidos, vTcb, vPcb, vMutex, pcpPend, fh, vFin, dump, rtaDump,
                 vMemoria, aKernel, vCpu, caido>>

\* safe_free(id_hilo) frees the TCB's own id, except for a THREAD_CANCEL,
\* whose handler passes a copy and answers the CPU.
FhFin(e) ==
  /\ EnMarcha /\ fh[e].fase = "joins" /\ fh[e].joins = <<>>
  /\ Quedan(Responder(Pcp(Colas, prioridad), fh[e].rta))
  /\ idLiberado' = IF fh[e].rta THEN idLiberado ELSE idLiberado \cup {fh[e].hilo}
  /\ fh' = [fh EXCEPT ![e] = FhNada]
  /\ UNCHANGED <<blocked, salidos, vTcb, vPcb, vMutex, pcpPend, vFin, dump, rtaDump,
                 vMemoria, aKernel, vCpu, caido>>

\* Mutant: a pass nobody asked for.
PcpSueltoSinPedido ==
  /\ EnMarcha
  /\ pcpPend' = pcpPend - 1
  /\ Quedan(Pcp(Colas, prioridad))
  /\ UNCHANGED <<blocked, salidos, vTcb, vPcb, vMutex, fh, vFin, vDump, vMemoria,
                 aKernel, vCpu, caido>>

\* The detached pcp_planificador_corto_plazo of crear_tcb.
PcpSuelto ==
  /\ EnMarcha /\ pcpPend > 0
  /\ pcpPend' = pcpPend - 1
  /\ Quedan(Pcp(Colas, prioridad))
  /\ UNCHANGED <<blocked, salidos, vTcb, vPcb, vMutex, fh, vFin, vDump, vMemoria,
                 aKernel, vCpu, caido>>
-----------------------------------------------------------------------------
(***************************************************************************)
(* ATENDER_INSTRUCCION_CPU.  The dispatch handler, free, takes a request,  *)
(* looks for the thread in EXEC, waits for mutex_pcb (EsperaPcb, which     *)
(* notes in the request whether the thread was there) and serves it.       *)
(***************************************************************************)
Pedida  == Head(aKernel)
H       == Pedida.hilo
P       == Pedida.hilo[1]

HayPedido ==
  /\ EnMarcha /\ fh[Dispatch].fase = "nada"
  /\ aKernel # <<>> /\ Pedida.op # "DESALOJO"

\* obtener_hilo_desalojado found the thread in EXEC.
Hallado == Pedida.op = "HALLADO" \/ (Pedida.op = "INSTRUCCION" /\ H \in ToSet(exec))

EsperaPcb ==
  /\ HayPedido /\ Pedida.op = "INSTRUCCION" /\ PcbTomado(P)
  /\ aKernel' = [aKernel EXCEPT ![1].op = IF Hallado THEN "HALLADO" ELSE "PERDIDO"]
  /\ UNCHANGED <<vListas, vTcb, vPcb, vMutex, pcpPend, fh, vFin, vDump, vMemoria, aCpu,
                 vCpu, caido>>

LlegaPedido ==
  /\ HayPedido /\ ~PcbTomado(P)
  /\ aKernel' = Tail(aKernel)

Llega(i) == LlegaPedido /\ Pedida.instr = i /\ Hallado

\* TCB_INVALIDO: the thread is not in EXEC, and nobody answers.  A dump reads
\* the TCB before the test for NULL.
AtiendeInvalido ==
  /\ LlegaPedido /\ ~Hallado
  /\ IF Pedida.instr = "DUMP_MEMORY" THEN Crash("kernel") ELSE UNCHANGED caido
  /\ UNCHANGED <<vListas, vTcb, vPcb, vMutex, pcpPend, fh, vFin, vDump, vMemoria, aCpu, vCpu>>

\* A second PROCESS_EXIT of a process already being finalized is dropped.
AtiendeExitRepetido ==
  /\ Llega("PROCESS_EXIT") /\ finalizado[P]
  /\ UNCHANGED <<vListas, vTcb, vPcb, vMutex, pcpPend, fh, vFin, vDump, vMemoria, aCpu,
                 vCpu, caido>>

\* Only thread 0 starts finalizar_proceso; for another, nothing happens.
AtiendeProcessExit ==
  /\ Llega("PROCESS_EXIT") /\ ~finalizado[P]
  /\ finPend' = IF H[2] = 0 THEN [finPend EXCEPT ![P] = @ + 1] ELSE finPend
  /\ UNCHANGED <<vListas, vTcb, vPcb, vMutex, pcpPend, fh, fin, vDump, vMemoria, aCpu,
                 vCpu, caido>>

\* crear_proceso: a process that finds NEW empty asks Memoria at once.
AtiendeProcessCreate ==
  /\ Llega("PROCESS_CREATE") /\ siguientePid <= MaxPid
  /\ siguientePid' = siguientePid + 1
  /\ LET q == siguientePid
     IN  IF pcbNew = <<>> /\ HayParticion
         THEN /\ CrearTcb(q, Pedida.arg, Enviar(Colas, Rta("OK")))
              /\ pcbMem' = pcbMem \cup {q} /\ memProc' = memProc \cup {q}
              /\ UNCHANGED pcbNew
         ELSE /\ pcbNew' = Append(pcbNew, q)
              /\ prioridad' = [prioridad EXCEPT ![<<q, 0>>] = Pedida.arg]
              /\ Quedan(Enviar(Colas, Rta("OK")))
              /\ UNCHANGED <<pcbMem, memProc, memHilos, siguienteTid, listaIds, pcpPend>>
  /\ UNCHANGED <<blocked, salidos, asignados, esperanJoin, pcbExit, finalizado, vMutex, fh,
                 vFin, vDump, dumpMem, vCpu, caido>>

\* Without the PCB in memory nobody answers; and the kernel exits when Memoria
\* has no process to add the thread to.
AtiendeThreadCreate ==
  /\ Llega("THREAD_CREATE") /\ siguienteTid[P] <= MaxTid
  /\ IF P \in pcbMem /\ P \in memProc
     THEN CrearTcb(P, Pedida.arg, Enviar(Colas, Rta("OK"))) /\ UNCHANGED caido
     ELSE /\ UNCHANGED <<siguienteTid, listaIds, prioridad, memHilos, ready, exec, aCpu, pcpPend>>
          /\ IF P \in pcbMem THEN Crash("kernel") ELSE UNCHANGED caido
  /\ UNCHANGED <<blocked, salidos, asignados, esperanJoin, pcbNew, pcbMem, pcbExit,
                 siguientePid, finalizado, vMutex, fh, vFin, vDump, memProc, dumpMem, vCpu>>

AtiendeThreadJoin ==
  /\ Llega("THREAD_JOIN")
  /\ LET t == <<P, Pedida.arg>>
     IN  IF Existe(t)
         THEN /\ Bloquear(Enviar(Colas, Rta("DESALOJO")), H)
              /\ \E v \in IdLeido(H) : esperanJoin' = [esperanJoin EXCEPT ![t] = Append(@, v)]
         ELSE Quedan(Enviar(Colas, Rta("OK"))) /\ UNCHANGED <<blocked, esperanJoin>>
  /\ UNCHANGED <<salidos, prioridad, asignados, vPcb, vMutex, pcpPend, fh, vFin, vDump,
                 vMemoria, vCpu, caido>>

AtiendeThreadCancel ==
  /\ Llega("THREAD_CANCEL")
  /\ FhInicio(Dispatch, <<P, Pedida.arg>>, TRUE)
  /\ UNCHANGED <<salidos, vTcb, vPcb, vMutex, pcpPend, vFin, vDump, memProc, dumpMem,
                 vCpu, caido>>

AtiendeThreadExit ==
  /\ Llega("THREAD_EXIT")
  /\ \E v \in IdLeido(H) : FhInicio(Dispatch, v, FALSE)
  /\ UNCHANGED <<salidos, vTcb, vPcb, vMutex, pcpPend, vFin, vDump, memProc, dumpMem,
                 vCpu, caido>>

\* The mutex handlers look for the PCB among those in memory, and read it.
AtiendeMutexSinPcb ==
  /\ \E i \in {"MUTEX_CREATE", "MUTEX_LOCK", "MUTEX_UNLOCK"} : Llega(i)
  /\ P \notin pcbMem
  /\ Crash("kernel")
  /\ UNCHANGED <<vListas, vTcb, vPcb, vMutex, pcpPend, fh, vFin, vDump, vMemoria, aCpu, vCpu>>

AtiendeMutexCreate ==
  /\ Llega("MUTEX_CREATE") /\ P \in pcbMem
  /\ mutexes' = mutexes \cup {<<P, Pedida.arg>>}
  /\ Quedan(Enviar(Colas, Rta("OK")))
  /\ UNCHANGED <<blocked, salidos, vTcb, vPcb, duenio, bloqueadosMutex, pcpPend, fh, vFin,
                 vDump, vMemoria, vCpu, caido>>

\* A request for a mutex that does not exist finalizes the thread, without an answer.
AtiendeMutexInexistente ==
  /\ \E i \in {"MUTEX_LOCK", "MUTEX_UNLOCK"} : Llega(i)
  /\ P \in pcbMem /\ <<P, Pedida.arg>> \notin mutexes
  /\ \E v \in IdLeido(H) : FhInicio(Dispatch, v, FALSE)
  /\ UNCHANGED <<salidos, vTcb, vPcb, vMutex, pcpPend, vFin, vDump, memProc, dumpMem,
                 vCpu, caido>>

AtiendeMutexLock ==
  /\ Llega("MUTEX_LOCK") /\ P \in pcbMem
  /\ LET m == <<P, Pedida.arg>>
     IN  /\ m \in mutexes
         /\ IF duenio[m] # Nadie
            THEN /\ Bloquear(Enviar(Colas, Rta("DESALOJO")), H)
                 /\ \E v \in IdLeido(H) :
                      bloqueadosMutex' = [bloqueadosMutex EXCEPT ![m] = Append(@, v)]
                 /\ UNCHANGED <<asignados, duenio>>
            ELSE /\ Quedan(Enviar(Colas, Rta("OK")))
                 /\ asignados' = [asignados EXCEPT ![H] = Append(@, m)]
                 /\ duenio' = [duenio EXCEPT ![m] = H]
                 /\ UNCHANGED <<blocked, bloqueadosMutex>>
  /\ UNCHANGED <<salidos, prioridad, esperanJoin, vPcb, mutexes, pcpPend, fh, vFin, vDump,
                 vMemoria, vCpu, caido>>

\* Mutant: the mutex stays among those of the thread.
SinRecursoIgual(h, m) == asignados

\* remover_recurso_asignado
SinRecurso(h, m) == [asignados EXCEPT ![h] = RemoveFirst(@, m)]

AtiendeMutexUnlock ==
  /\ Llega("MUTEX_UNLOCK") /\ P \in pcbMem
  /\ LET m == <<P, Pedida.arg>>
     IN  /\ m \in mutexes
         /\ IF duenio[m] = H
            THEN Protocolo(m, SinRecurso(H, m), TRUE)
            ELSE /\ Quedan(Enviar(Colas, Rta("OK")))
                 /\ UNCHANGED <<blocked, asignados, duenio, bloqueadosMutex, caido>>
  /\ UNCHANGED <<salidos, prioridad, esperanJoin, vPcb, mutexes, pcpPend, fh, vFin, vDump,
                 vMemoria, vCpu>>

\* The thread stays in EXEC until the detached atender_dump_memory blocks it.
AtiendeDump ==
  /\ Llega("DUMP_MEMORY")
  /\ dump' = [dump EXCEPT ![H] = "bloquear"]
  /\ Quedan(Pcp(Colas, prioridad))
  /\ UNCHANGED <<blocked, salidos, vTcb, vPcb, vMutex, pcpPend, fh, vFin, rtaDump, idLiberado,
                 vMemoria, vCpu, caido>>

\* ATENDER_DESALOJO_HILO_CPU: back to the end of READY, if still in EXEC.
AtiendeDesalojo ==
  /\ EnMarcha /\ fh[Dispatch].fase = "nada"
  /\ aKernel # <<>> /\ Pedida.op = "DESALOJO"
  /\ aKernel' = Tail(aKernel)
  /\ Quedan(IF H \in ToSet(exec) THEN Pcp(Encolar(SacarDeExec(Colas, H), H), prioridad)
                                 ELSE Colas)
  /\ UNCHANGED <<blocked, salidos, vTcb, vPcb, vMutex, pcpPend, fh, vFin, vDump, vMemoria,
                 vCpu, caido>>
-----------------------------------------------------------------------------
(***************************************************************************)
(* atender_dump_memory, which keeps reading the id of its thread.          *)
(***************************************************************************)
DumpBloquear(h) ==
  /\ EnMarcha /\ dump[h] = "bloquear"
  /\ dump' = [dump EXCEPT ![h] = "pedido"]
  /\ \E v \in IdLeido(h) : Bloquear(Colas, v)
  /\ dumpMem' = dumpMem \cup {h}
  /\ UNCHANGED <<salidos, vTcb, vPcb, vMutex, pcpPend, fh, vFin, rtaDump, idLiberado, memProc,
                 memHilos, aKernel, vCpu, caido>>

\* Memoria reads the process's partition and stores it in the filesystem; the
\* answer goes to rta_dumpeo, one for all the dumps of the kernel.
DumpResponder(h) ==
  /\ EnMarcha /\ h \in dumpMem
  /\ dumpMem' = dumpMem \ {h}
  /\ \E v \in IdLeido(h) :
       IF v[1] \in memProc
       THEN /\ \E r \in IF DumpFalla THEN {"OK", "ERROR"} ELSE {"OK"} : rtaDump' = r
            /\ dump' = [dump EXCEPT ![h] = "respondido"]
            /\ UNCHANGED caido
       ELSE Crash("memoria") /\ UNCHANGED <<rtaDump, dump>>
  /\ UNCHANGED <<vListas, vTcb, vPcb, vMutex, pcpPend, fh, vFin, idLiberado, memProc, memHilos,
                 aKernel, aCpu, vCpu>>

DumpConcluir(h) ==
  /\ EnMarcha /\ dump[h] = "respondido"
  /\ dump' = [dump EXCEPT ![h] = "nada"]
  /\ \E v \in IdLeido(h) :
       IF rtaDump = "OK"
       THEN /\ Quedan(Desbloquear(Colas, v)) /\ blocked' = blocked \ {v}
            /\ UNCHANGED finPend
       ELSE /\ finPend' = IF v \in Hilos THEN [finPend EXCEPT ![v[1]] = @ + 1] ELSE finPend
            /\ Quedan(Colas) /\ UNCHANGED blocked
  /\ UNCHANGED <<salidos, vTcb, vPcb, vMutex, pcpPend, fh, fin, rtaDump, idLiberado, vMemoria,
                 aKernel, vCpu, caido>>
-----------------------------------------------------------------------------
(***************************************************************************)
(* finalizar_proceso(p): Memoria frees the process (it has none to free if *)
(* another finalizer came first), eliminar_hilos finalizes the threads by  *)
(* index over a list that each of them shortens and then thread 0, the     *)
(* processes in NEW are tried again and the PCB goes to EXIT.              *)
(***************************************************************************)
FinMemoria(p) ==
  /\ EnMarcha /\ finPend[p] > 0
  /\ finPend' = [finPend EXCEPT ![p] = @ - 1]
  /\ IF p \in pcbExit
     THEN UNCHANGED <<memProc, finalizado, fin, caido>>
     ELSE IF p \in memProc
     THEN /\ memProc' = memProc \ {p}
          /\ finalizado' = [finalizado EXCEPT ![p] = TRUE]
          /\ fin' = [fin EXCEPT ![p].fase = "tomar"]
          /\ UNCHANGED caido
     ELSE Crash("memoria") /\ UNCHANGED <<memProc, finalizado, fin>>
  /\ UNCHANGED <<vListas, vTcb, pcbNew, pcbMem, pcbExit, siguientePid, siguienteTid, listaIds,
                 vMutex, pcpPend, fh, vDump, memHilos, dumpMem, aKernel, aCpu, vCpu>>

\* Mutant: the walk begins after the first thread left.
FinTomarDesdeElSegundo(p) ==
  /\ EnMarcha /\ fin[p].fase = "tomar"
  /\ fin' = [fin EXCEPT ![p] = [fase |-> "hilos", i |-> 2,
                                cero |-> <<p, 0>> \in ToSet(listaIds[p])]]
  /\ listaIds' = [listaIds EXCEPT ![p] = RemoveFirst(@, <<p, 0>>)]
  /\ UNCHANGED <<vListas, vTcb, pcbNew, pcbMem, pcbExit, siguientePid, siguienteTid, finalizado,
                 vMutex, pcpPend, fh, finPend, vDump, vMemoria, aKernel, aCpu, vCpu, caido>>

FinTomar(p) ==
  /\ EnMarcha /\ fin[p].fase = "tomar"
  /\ fin' = [fin EXCEPT ![p] = [fase |-> "hilos", i |-> 1,
                                cero |-> <<p, 0>> \in ToSet(listaIds[p])]]
  /\ listaIds' = [listaIds EXCEPT ![p] = RemoveFirst(@, <<p, 0>>)]
  /\ UNCHANGED <<vListas, vTcb, pcbNew, pcbMem, pcbExit, siguientePid, siguienteTid, finalizado,
                 vMutex, pcpPend, fh, finPend, vDump, vMemoria, aKernel, aCpu, vCpu, caido>>

FinHilo(p) ==
  /\ EnMarcha /\ fin[p].fase = "hilos" /\ fh[p].fase = "nada"
  /\ fin[p].i <= Len(listaIds[p])
  /\ fin' = [fin EXCEPT ![p].i = @ + 1]
  /\ FhInicio(p, listaIds[p][fin[p].i], FALSE)
  /\ UNCHANGED <<salidos, vTcb, vPcb, vMutex, pcpPend, finPend, vDump, memProc, dumpMem, aKernel,
                 vCpu, caido>>

FinCero(p) ==
  /\ EnMarcha /\ fin[p].fase = "hilos" /\ fh[p].fase = "nada"
  /\ fin[p].i > Len(listaIds[p])
  /\ fin' = [fin EXCEPT ![p].fase = "cero"]
  /\ IF fin[p].cero
     THEN FhInicio(p, <<p, 0>>, FALSE) /\ UNCHANGED caido
     ELSE Crash("kernel") /\ Quedan(Colas) /\ UNCHANGED <<blocked, memHilos, fh>>
  /\ UNCHANGED <<salidos, vTcb, vPcb, vMutex, pcpPend, finPend, vDump, memProc, dumpMem, aKernel,
                 vCpu>>

\* One turn of replanificar_creacion_proceso: the first process in NEW enters.
FinReplanificar(p) ==
  /\ EnMarcha /\ fin[p].fase = "cero" /\ fh[p].fase = "nada"
  /\ pcbNew # <<>> /\ HayParticion
  /\ LET q == Head(pcbNew)
     IN  /\ CrearTcb(q, prioridad[<<q, 0>>], Colas)
         /\ pcbNew' = Tail(pcbNew)
         /\ pcbMem' = pcbMem \cup {q} /\ memProc' = memProc \cup {q}
  /\ UNCHANGED <<blocked, salidos, asignados, esperanJoin, pcbExit, siguientePid, finalizado,
                 vMutex, fh, vFin, vDump, dumpMem, aKernel, vCpu, caido>>

FinSalir(p) ==
  /\ EnMarcha /\ fin[p].fase = "cero" /\ fh[p].fase = "nada"
  /\ pcbNew = <<>> \/ ~HayParticion
  /\ fin' = [fin EXCEPT ![p] = FinNada]
  /\ pcbMem' = pcbMem \ {p} /\ pcbExit' = pcbExit \cup {p}
  /\ UNCHANGED <<vListas, vTcb, pcbNew, siguientePid, siguienteTid, listaIds, finalizado, vMutex,
                 pcpPend, fh, finPend, vDump, vMemoria, aKernel, aCpu, vCpu, caido>>
-----------------------------------------------------------------------------
(***************************************************************************)
(* The CPU.  EJECUTAR waits, in the thread that also reads the answers,    *)
(* until the previous thread has left (sem_hilo_en_ejecucion_desalojado).  *)
(***************************************************************************)
EsperaRta == {"espera", "esperaDesalojo"}   \* the second gives the thread back

\* What a program that follows the rules of the test scripts asks for: it uses
\* mutexes that exist, cancels neither itself nor a thread that waits for a
\* mutex or a dump, and only its thread 0 ends the process, after all the others.
Correcto(h, i, a) ==
  CASE i \in {"MUTEX_LOCK", "MUTEX_UNLOCK"} -> <<h[1], a>> \in mutexes
    [] i = "THREAD_CANCEL" -> /\ a # h[2] /\ dump[<<h[1], a>>] = "nada"
                              /\ \A m \in Mutexes : <<h[1], a>> \notin ToSet(bloqueadosMutex[m])
    [] i = "THREAD_EXIT"   -> h[2] # 0
    [] i = "PROCESS_EXIT"  -> h[2] = 0 /\ \A t \in 1 .. siguienteTid[h[1]] - 1 : <<h[1], t>> \in salidos
    [] OTHER -> TRUE

\* The arguments the bounds allow.
Argumentos(h, i) ==
  CASE i = "THREAD_CREATE"  -> IF siguienteTid[h[1]] <= MaxTid THEN Prioridades ELSE {}
    [] i = "PROCESS_CREATE" -> IF siguientePid <= MaxPid THEN Prioridades ELSE {}
    [] i \in {"THREAD_JOIN", "THREAD_CANCEL"} -> Tids
    [] i \in {"MUTEX_CREATE", "MUTEX_LOCK", "MUTEX_UNLOCK"} -> Recursos
    [] OTHER -> {0}

CpuRecibeEjecutar ==
  /\ EnMarcha /\ cpu = "libre"
  /\ aCpu # <<>> /\ Head(aCpu).op = "EJECUTAR"
  /\ aCpu' = Tail(aCpu)
  /\ LET h == Head(aCpu).hilo
     IN  IF h \in memHilos /\ h[1] \in memProc
         THEN cpu' = "corriendo" /\ contexto' = h /\ UNCHANGED aKernel
         ELSE /\ aKernel' = Append(aKernel, Pedido(contexto, "THREAD_EXIT", 0))
              /\ UNCHANGED vCpu
  /\ UNCHANGED <<vListas, vTcb, vPcb, vMutex, pcpPend, fh, vFin, vDump, vMemoria, caido>>

\* The running thread asks for a syscall.
CpuSyscall(i) ==
  /\ EnMarcha /\ cpu = "corriendo" /\ contexto \in memHilos
  /\ \E a \in Argumentos(contexto, i) :
       /\ Disciplina => Correcto(contexto, i, a)
       /\ aKernel' = Append(aKernel, Pedido(contexto, i, a))
  /\ cpu' = CASE i \in ConDesalojo -> "esperaDesalojo"
              [] i \in ConRespuesta \ ConDesalojo -> "espera"
              [] i = "DUMP_MEMORY" -> "guardando"
              [] OTHER -> "libre"
  /\ UNCHANGED <<vListas, vTcb, vPcb, vMutex, pcpPend, fh, vFin, vDump, vMemoria, aCpu,
                 contexto, caido>>

\* An access outside the partition: the CPU asks for PROCESS_EXIT.
CpuSegmentationFault ==
  /\ EnMarcha /\ Fallos /\ cpu = "corriendo" /\ contexto \in memHilos
  /\ aKernel' = Append(aKernel, Pedido(contexto, "PROCESS_EXIT", 0))
  /\ cpu' = "libre"
  /\ UNCHANGED <<vListas, vTcb, vPcb, vMutex, pcpPend, fh, vFin, vDump, vMemoria, aCpu,
                 contexto, caido>>

\* After an answer the context is saved in Memoria, which never confirms if the
\* thread is gone; then the CPU goes on, or gives the thread up.
CpuRecibeRta ==
  /\ EnMarcha /\ cpu \in EsperaRta
  /\ aCpu # <<>> /\ Head(aCpu).op = "RTA"
  /\ aCpu' = Tail(aCpu)
  /\ LET sigue == cpu = "espera" /\ Head(aCpu).rta = "OK"
     IN  /\ cpu' = IF contexto \notin memHilos THEN "colgada"
                   ELSE IF sigue THEN "corriendo" ELSE "libre"
         /\ aKernel' = IF contexto \in memHilos /\ cpu = "esperaDesalojo"
                       THEN Append(aKernel, Desalojo(contexto)) ELSE aKernel
  /\ UNCHANGED <<vListas, vTcb, vPcb, vMutex, pcpPend, fh, vFin, vDump, vMemoria, contexto, caido>>

CpuGuarda ==
  /\ EnMarcha /\ cpu = "guardando"
  /\ cpu' = IF contexto \in memHilos THEN "libre" ELSE "colgada"
  /\ UNCHANGED <<vListas, vTcb, vPcb, vMutex, pcpPend, fh, vFin, vDump, vMemoria, aKernel, aCpu,
                 contexto, caido>>

\* Memoria has no instruction for the thread: decode never lets execute start.
CpuSinHilo ==
  /\ EnMarcha /\ cpu = "corriendo" /\ contexto \notin memHilos
  /\ cpu' = "colgada"
  /\ UNCHANGED <<vListas, vTcb, vPcb, vMutex, pcpPend, fh, vFin, vDump, vMemoria, aKernel, aCpu,
                 contexto, caido>>
-----------------------------------------------------------------------------
FinalizarHilo(e) == FhTomar(e) \/ FhMutex(e) \/ FhSalir(e) \/ FhJoin(e) \/ FhFin(e)

Atiende ==
  \/ EsperaPcb \/ AtiendeInvalido \/ AtiendeExitRepetido \/ AtiendeProcessExit
  \/ AtiendeProcessCreate \/ AtiendeThreadCreate \/ AtiendeThreadJoin
  \/ AtiendeThreadCancel \/ AtiendeThreadExit
  \/ AtiendeMutexSinPcb \/ AtiendeMutexCreate \/ AtiendeMutexInexistente
  \/ AtiendeMutexLock \/ AtiendeMutexUnlock
  \/ AtiendeDump \/ AtiendeDesalojo

DumpMemory(h) == DumpBloquear(h) \/ DumpResponder(h) \/ DumpConcluir(h)

FinalizarProceso(p) ==
  FinMemoria(p) \/ FinTomar(p) \/ FinHilo(p) \/ FinCero(p) \/ FinReplanificar(p) \/ FinSalir(p)

Cpu == CpuRecibeEjecutar \/ CpuRecibeRta \/ CpuGuarda \/ CpuSinHilo

Programa == (\E i \in Instrucciones : CpuSyscall(i)) \/ CpuSegmentationFault

Next ==
  \/ PcpSuelto \/ Atiende \/ Cpu \/ Programa
  \/ \E e \in Ejecutores : FinalizarHilo(e)
  \/ \E h \in Hilos : DumpMemory(h)
  \/ \E p \in Pids : FinalizarProceso(p)

Spec == Init /\ [][Next]_vars

\* The scheduling the operating system gives the threads of the kernel, of the
\* CPU and of Memoria; a program may run for ever without a syscall.
Equidad ==
  /\ WF_vars(PcpSuelto) /\ WF_vars(Atiende) /\ WF_vars(Cpu)
  /\ \A e \in Ejecutores : WF_vars(FinalizarHilo(e))
  /\ \A h \in Hilos : WF_vars(DumpMemory(h))
  /\ \A p \in Pids : WF_vars(FinalizarProceso(p))

SpecJusta == Spec /\ Equidad
-----------------------------------------------------------------------------
\* The messages: a request has the argument its syscall takes, and a request
\* marked HALLADO comes from a thread.
MensajesCpu == [op : {"EJECUTAR", "RTA"}, hilo : Hilos \cup {Nadie}, rta : {"NADA", "OK", "DESALOJO"}]

MensajesKernel ==
  {m \in [op : {"INSTRUCCION", "HALLADO", "PERDIDO", "DESALOJO"}, hilo : Hilos \cup {Nadie},
          instr : ConRespuesta \cup SinRespuesta \cup {"NADA"}, arg : Nat] :
     /\ m.instr \in {"THREAD_CREATE", "PROCESS_CREATE"} => m.arg \in Prioridades
     /\ m.instr \in {"THREAD_JOIN", "THREAD_CANCEL"} => m.arg \in Tids
     /\ m.instr \in {"MUTEX_CREATE", "MUTEX_LOCK", "MUTEX_UNLOCK"} => m.arg \in Recursos
     /\ m.op = "HALLADO" => m.hilo \in Hilos}

\* The state of a finalizar_hilo, which has a thread while it runs.
FinalizacionesHilo ==
  {r \in [fase : {"nada", "pedido", "mutexes", "joins"}, hilo : Hilos \cup {Nadie},
          mutexes : Seq(Mutexes), joins : Seq(Hilos \cup {Nadie}), rta : BOOLEAN] :
     r.fase # "nada" => r.hilo \in Hilos}

TipoListas ==
  /\ ready \in Seq(Hilos) /\ exec \in Seq(Hilos) /\ aCpu \in Seq(MensajesCpu)
  /\ blocked \subseteq Hilos /\ salidos \subseteq Hilos

TipoTcb ==
  /\ prioridad \in [Hilos -> Prioridades]
  /\ asignados \in [Hilos -> Seq(Mutexes)]
  /\ esperanJoin \in [Hilos -> Seq(Hilos \cup {Nadie})]

TipoPcb ==
  /\ pcbNew \in Seq(Pids) /\ pcbMem \subseteq Pids /\ pcbExit \subseteq Pids
  /\ siguientePid \in 0 .. MaxPid + 1
  /\ siguienteTid \in [Pids -> 0 .. MaxTid + 1]
  /\ listaIds \in [Pids -> Seq(Hilos)]
  /\ finalizado \in [Pids -> BOOLEAN]

TipoMutex ==
  /\ mutexes \subseteq Mutexes
  /\ duenio \in [Mutexes -> Hilos \cup {Nadie}]
  /\ bloqueadosMutex \in [Mutexes -> Seq(Hilos \cup {Nadie})]

TipoFin ==
  /\ pcpPend \in Nat
  /\ fh \in [Ejecutores -> FinalizacionesHilo]
  /\ finPend \in [Pids -> Nat]
  /\ fin \in [Pids -> [fase : {"nada", "tomar", "hilos", "cero"}, i : Nat \ {0}, cero : BOOLEAN]]

TipoDump ==
  /\ dump \in [Hilos -> {"nada", "bloquear", "pedido", "respondido"}]
  /\ rtaDump \in {"NADA", "OK", "ERROR"}
  /\ idLiberado \subseteq Hilos

TipoCpu ==
  /\ memProc \subseteq Pids /\ memHilos \subseteq Hilos /\ dumpMem \subseteq Hilos
  /\ aKernel \in Seq(MensajesKernel)
  /\ cpu \in {"libre", "corriendo", "espera", "esperaDesalojo", "guardando", "colgada"}
  /\ contexto \in Hilos \cup {Nadie}
  /\ caido \in {"nadie", "kernel", "memoria"}

\* Type of every variable.
TypeOK == TipoListas /\ TipoTcb /\ TipoPcb /\ TipoMutex /\ TipoFin /\ TipoDump /\ TipoCpu

(* A process that waits in NEW or was not created has no thread yet and is not
   in memory, and no process is in NEW twice: what keeps crear_tcb, which takes
   the next tid of the process, within its tids when NEW is emptied. *)
NuevosSinHilos ==
  /\ IsInjective(pcbNew)
  /\ \A q \in ToSet(pcbNew) : q < siguientePid
  /\ \A q \in pcbMem : q < siguientePid /\ q \notin ToSet(pcbNew)
  /\ \A q \in Pids : (q >= siguientePid \/ q \in ToSet(pcbNew)) => siguienteTid[q] = 0
-----------------------------------------------------------------------------
Creados == {h \in Hilos : h[2] < siguienteTid[h[1]]}

\* Threads taken from their list by finalizar_hilo and not yet in EXIT.
Saliendo(e) == IF fh[e].fase \in {"pedido", "mutexes"} THEN {fh[e].hilo} ELSE {}
Salientes   == UNION {Saliendo(e) : e \in Ejecutores}

Listas == <<ToSet(ready), ToSet(exec), blocked, salidos>>

(* Every thread created is in exactly one place: once in READY, in EXEC, in
   BLOCKED, in EXIT or in the hands of one finalizar_hilo.  The lists are
   changed by the handler and by the detached threads of the kernel, each
   removing from one list and adding to another. *)
UnHiloUnLugar ==
  /\ IsInjective(ready) /\ IsInjective(exec)
  /\ \A h \in Hilos :
       Cardinality({i \in 1 .. 4 : h \in Listas[i]}) + Cardinality({e \in Ejecutores : h \in Saliendo(e)})
         = IF h \in Creados THEN 1 ELSE 0

\* The CPU takes one thread at a time: EXEC never holds two.
UnoEnExec == Len(exec) <= 1

(* Work conservation: with threads in READY and nobody in EXEC, somebody is
   still going to call pcp_planificador_corto_plazo: a detached pass of
   crear_tcb, or a finalizar_hilo that has not ended. *)
TrabajoConservado ==
  (EnMarcha /\ ready # <<>> /\ exec = <<>>) =>
    (pcpPend > 0 \/ \E e \in Ejecutores : fh[e].fase # "nada")

\* The thread is alive, or its finalizar_hilo still has x to hand over.
ViveOEntrega(h, resto(_), x) ==
  Existe(h) \/ \E e \in Ejecutores : fh[e].hilo = h /\ x \in ToSet(resto(fh[e]))

EsperaMutex(h) ==
  \E m \in Mutexes : /\ h \in ToSet(bloqueadosMutex[m])
                     /\ duenio[m] # Nadie
                     /\ ViveOEntrega(duenio[m], LAMBDA r : r.mutexes, m)
EsperaJoin(h) ==
  \E t \in Hilos : /\ h \in ToSet(esperanJoin[t])
                   /\ ViveOEntrega(t, LAMBDA r : r.joins, h)
EsperaDump(h) == dump[h] # "nada" \/ finPend[h[1]] > 0 \/ finalizado[h[1]]

(* No wake-up is lost: a thread in BLOCKED waits for a mutex whose owner can
   still release it, for the end of a thread that can still end, or for a
   dump whose answer has not been handled (a refused dump ends the process). *)
BloqueadoConMotivo ==
  EnMarcha => \A h \in blocked : EsperaMutex(h) \/ EsperaJoin(h) \/ EsperaDump(h)

(* The owner written in a mutex and the list of mutexes of the thread agree:
   the owner has it in lista_mutex_asignados once, nobody else has it; and a
   thread in the waiting list of a mutex neither runs nor may be chosen to.
   The handler and the finalizers change the three under different locks. *)
DuenioConsistente ==
  EnMarcha => \A m \in Mutexes :
    /\ \A h \in Hilos :
         (Existe(h) \/ \E e \in Ejecutores : fh[e].hilo = h /\ m \in ToSet(fh[e].mutexes)) =>
           (duenio[m] = h) = (Cardinality({i \in DOMAIN asignados[h] : asignados[h][i] = m}) = 1)
    /\ \A h \in ToSet(bloqueadosMutex[m]) : h \notin ToSet(ready) \cup ToSet(exec)

(* Memoria has the context of every thread the kernel may dispatch, so that
   finalizar_hilo is never answered ERROR. *)
ContextoEnMemoria == EnMarcha => \A h \in Hilos : Existe(h) => h \in memHilos

\* Answers and requests to be answered.
Respuestas ==
  Cardinality({i \in DOMAIN aCpu : aCpu[i].op = "RTA"})
  + Cardinality({i \in DOMAIN aKernel : aKernel[i].instr \in ConRespuesta})
  + Cardinality({e \in Ejecutores : fh[e].rta})

\* h is on its way to the CPU, runs there, has a message on its way to the kernel,
\* or waits for the task that takes it out of EXEC.
Atendido(h) ==
  \/ Ejecutar(h) \in ToSet(aCpu)
  \/ contexto = h /\ cpu \in {"corriendo"} \cup EsperaRta
  \/ \E i \in DOMAIN aKernel : aKernel[i].hilo = h
  \/ dump[h] = "bloquear"
  \/ finPend[h[1]] > 0 \/ fin[h[1]].fase # "nada"

(* The CPU and the kernel agree, whatever is on its way between them: the CPU
   runs the thread in EXEC, a thread in EXEC is never forgotten, and no answer
   arrives that the CPU does not wait for. *)
CpuFiel ==
  /\ Respuestas <= (IF cpu \in EsperaRta THEN 1 ELSE 0)
  /\ EnMarcha /\ cpu = "corriendo" => exec = <<contexto>>
  /\ EnMarcha => \A h \in ToSet(exec) : Atendido(h)

(* Nothing crashes, and the CPU does not hang: neither in a program nor waiting
   for an answer behind an EJECUTAR it cannot take. *)
SinCaidas ==
  /\ EnMarcha /\ cpu # "colgada"
  /\ ~(cpu \in EsperaRta /\ aCpu # <<>> /\ Head(aCpu).op = "EJECUTAR")

(* Threads 0 and 1 of a process have ended when its PCB goes to EXIT, though
   eliminar_hilos walks by index a list that every thread it ends shortens,
   and the handler or a second finalizer may end threads of it meanwhile. *)
CeroYUnoTerminan == EnMarcha => \A p \in pcbExit : \A t \in {0, 1} : ~Existe(<<p, t>>)

(* After finalizar_proceso no thread of the process is left: what the
   statement asks of PROCESS_EXIT, and what the walk by index, which skips a
   thread after each one it ends, does not do (planificador_largo_plazo.c:185). *)
ProcesoSinHilos == EnMarcha => \A p \in pcbExit : \A t \in Tids : ~Existe(<<p, t>>)
-----------------------------------------------------------------------------
\* What the algorithm compares.
Clave(h) == IF Algoritmo = "FIFO" THEN 0 ELSE prioridad[h]

\* h is before o in READY, where o may have just arrived.
Antes(h, o) ==
  \E i \in DOMAIN ready : /\ ready[i] = h
                          /\ \A j \in DOMAIN ready : ready[j] = o => i < j

(* A thread sent to the CPU is the best of those in READY: no other has a
   lower number, and none with the same number was before it.  A detached
   scheduling pass can run between any two operations, and an operation can
   enqueue and dispatch at once. *)
DespachoDelMejor ==
  [][\A h \in Hilos : Ejecutar(h) \in ToSet(aCpu') \ ToSet(aCpu) =>
       \A o \in ToSet(ready') :
         \/ Clave(h)' < Clave(o)'
         \/ Clave(h)' = Clave(o)' /\ Antes(h, o)]_vars

(* The first waiter of a mutex leaves the waiting list only to become its
   owner, awake (mutex.c:120); or because it waited for a mutex of its own and
   was finalized. *)
MutexAlPrimero ==
  [][\A m \in Mutexes :
       LET w == Head(bloqueadosMutex[m])
       IN  (/\ bloqueadosMutex[m] # <<>> /\ duenio[m] # w
            /\ bloqueadosMutex'[m] = Tail(bloqueadosMutex[m]))
           => duenio'[m] = w /\ w \in ToSet(ready') \cup ToSet(exec')]_vars

\* A finalizer was asked for p and p is not in EXIT.
AMedias(p) == (finPend[p] > 0 \/ fin[p].fase # "nada") /\ p \notin pcbExit

(* No process stays half finalized, whatever other finalizers of the same
   process, dumps and the handler do meanwhile, unless a module dies. *)
FinalizadorTermina ==
  (\E p \in Pids : AMedias(p)) ~> (~EnMarcha \/ \A p \in Pids : ~AMedias(p))

(* Every request the CPU waits for is answered. *)
RespuestaLlega == cpu \in EsperaRta ~> cpu \notin EsperaRta

(* The first waiter of a mutex whose owner ends gets the mutex. *)
HeredaMutex ==
  \A m \in Mutexes, h \in Hilos :
    (/\ bloqueadosMutex[m] # <<>> /\ Head(bloqueadosMutex[m]) = h
     /\ duenio[m] \in salidos \cup Salientes) ~> duenio[m] = h

(* Whoever joins a thread that ends wakes up. *)
JoinDespierta ==
  \A e \in Ejecutores, h \in Hilos :
    (fh[e].fase # "nada" /\ h \in ToSet(fh[e].joins)) ~> h \notin blocked

(* A thread that dumped its memory comes back to READY or to the CPU. *)
DumpVuelve ==
  \A h \in Hilos :
    dump[h] # "nada" ~> (dump[h] = "nada" /\ h \in ToSet(ready) \cup ToSet(exec))
=============================================================================
