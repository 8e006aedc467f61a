----------------------------- MODULE Multinivel -----------------------------
(***************************************************************************)
(* The kernel with CMN (multilevel queues with round robin), its quantum   *)
(* and its IO queue, composed with the CPU and its handler of              *)
(* interruptions.                                                          *)
(*                                                                         *)
(* Threads of the kernel: hebra 0 is the dispatch handler; the others are  *)
(* detached, one for each scheduling pass that crear_tcb asks for and one  *)
(* for each atender_io.  All of them run pcp_planificador_corto_plazo: the *)
(* queues are looked at one by one until one has somebody; with EXEC       *)
(* locked they are walked again, all of them, and the best that had        *)
(* somebody gives its first thread; the thread is sent and its timer       *)
(* armed.  Each look takes the lock of one queue only, and so does an      *)
(* arrival.                                                                *)
(*                                                                         *)
(* Verificadores are only compared for equality with the last one, so a    *)
(* timer is one of three: not started yet (armados), asleep for the last   *)
(* dispatch (dormidos), or stale, which has no effect and is forgotten.    *)
(***************************************************************************)
EXTENDS Integers, Sequences, SequencesExt, FiniteSetsExt

CONSTANTS
  Hilos,               \* threads, numbered from 1 in the order of their creation
  Prioridad,           \* the priority of each thread: its queue
  Instrucciones,       \* syscalls the programs use
  MaxHebras,           \* bound: detached threads of the kernel at once
  MaxTemporizadores,   \* bound: timers of a thread that have not started, timers asleep, interruptions on their way
  MaxMensajes,         \* bound of each direction of the dispatch connection
  MaxCola,             \* bound of the queue an evicted thread goes to
  MaxContextos,        \* bound of the semaphore llego_contexto_una_vez
  EnTiempo,            \* TRUE: a quantum is longer than a dispatch, an interruption shorter than an instruction
  EnSerieIO            \* TRUE: a sleep does not end, nor an IO starts, while another is about to look at the IO queue

Nadie == 0

ASSUME HilosAssumption == /\ IsFiniteSet(Hilos) /\ Hilos = 1 .. Cardinality(Hilos) /\ Hilos # {}
                          /\ Prioridad \in [Hilos -> Nat]
ASSUME InstruccionesAssumption ==
  Instrucciones \subseteq {"IO", "THREAD_CREATE", "MUTEX_UNLOCK", "THREAD_EXIT"}
ASSUME CotasAssumption == /\ MaxHebras \in Nat \ {0} /\ MaxTemporizadores \in Nat \ {0}
                          /\ MaxContextos \in Nat \ {0} /\ MaxMensajes \in Nat \ {0} /\ MaxCola \in Nat \ {0}
                          /\ EnTiempo \in BOOLEAN /\ EnSerieIO \in BOOLEAN

Prioridades == {Prioridad[h] : h \in Hilos}
Hebras == 0 .. MaxHebras

VARIABLES
  colas,      \* lista_cola_multinivel: the READY list of each priority
  exec,       \* lista_tcb_exec
  blocked,    \* lista_tcb_blocked
  salidos,    \* lista_tcb_exit
  creados,    \* threads crear_tcb has made
  hebras,     \* the threads of the kernel
  esperaban,  \* history: the threads in READY when the pass that has EXEC locked locked it
  flag,       \* flag_cancelar_quantum of each TCB
  ultimo,     \* the thread dispatched with the last verificador
  alDia,      \* its TCB holds that verificador
  armados,    \* timers of each thread that have not read its verificador
  dormidos,   \* timers asleep with the last verificador
  vencidos,   \* enviar_interrupcion_quantum: the threads whose timers posted it
  gestor,     \* the TCB gestionar_interrupt_quantum holds
  colaIO,     \* lista_en_espera_de_io
  aCpu, aKernel, aInterrupt,  \* the connections
  cpu,        \* step of the CPU and its thread
  contexto,   \* thread of un_contexto
  llego,      \* llego_contexto_una_vez
  acepta,     \* manejar_interrupcion found that the interruption is for un_contexto
  interrupt,  \* interrupt_flag
  caido       \* the kernel followed a null or freed pointer

kernel == <<colas, exec, blocked, salidos, creados>>
reloj  == <<flag, ultimo, alDia, armados, dormidos>>
avisos == <<vencidos, gestor, aInterrupt, llego, acepta>>
cpuVars == <<cpu, contexto, interrupt>>
vars == <<kernel, hebras, esperaban, reloj, avisos, colaIO, aCpu, aKernel, cpuVars, caido>>

\* faltan: the queues its walk has not looked at; vistas: those that had somebody.
Hebra(p, h, l) == [paso |-> p, hilo |-> h, toma |-> Nadie, luego |-> l, colgado |-> FALSE,
                   faltan |-> Prioridades, vistas |-> {}]
Inactiva == Hebra("libre", Nadie, "libre")

Init ==
  /\ colas = [p \in Prioridades |-> IF p = Prioridad[1] THEN <<1>> ELSE <<>>]
  /\ exec = <<>> /\ blocked = <<>> /\ salidos = {} /\ creados = {1}
  /\ hebras = [i \in Hebras |-> IF i = 1 THEN Hebra("mirar", Nadie, "libre") ELSE Inactiva]
  /\ esperaban = {}
  /\ flag = [h \in Hilos |-> TRUE]
  /\ ultimo = Nadie /\ alDia = FALSE
  /\ armados = [h \in Hilos |-> 0] /\ dormidos = 0
  /\ vencidos = <<>> /\ gestor = Nadie /\ aInterrupt = <<>> /\ llego = 0 /\ acepta = FALSE
  /\ colaIO = <<>>
  /\ aCpu = <<>> /\ aKernel = <<>>
  /\ cpu = [paso |-> "libre", hilo |-> Nadie, op |-> "NADA"]
  /\ contexto = Nadie /\ interrupt = FALSE
  /\ caido = FALSE

Mensaje(op, h) == [op |-> op, hilo |-> h]

\* The least free detached thread, none if all are busy.
Libres == {i \in Hebras \ {0} : hebras[i].paso = "libre"}
Nueva  == IF Libres = {} THEN {} ELSE {Min(Libres)}
-----------------------------------------------------------------------------
(* pcp_planificador_corto_plazo with CMN, by hebra i.                      *)

\* Mutant: the queue has somebody only if it has two.
TieneHilosDeMas(p) == Len(colas[p]) > 1

\* One look at a queue, under its lock.
TieneHilos(p) == colas[p] # <<>>

\* The order of lista_cola_multinivel: a queue is created with its first thread.
Proxima(ps) == Prioridad[Min({h \in Hilos : Prioridad[h] \in ps})]

\* mutex_lista_cola_multinivel is held by the pass that is in the middle of its look.
EnMedio(i) == hebras[i].paso = "mirar" /\ hebras[i].faltan # Prioridades

\* mutex_lista_tcb_exec is held by the pass that walks the queues to take a thread.
Recorre(i) == hebras[i].paso \in {"recorrer", "sacar"}

ExecSuelto == \A i \in Hebras : ~Recorre(i)

\* todas_las_colas_estan_vacias: the first queue with somebody ends it.
PcpMirar(i) ==
  LET faltan == hebras[i].faltan
      p == Proxima(faltan)
  IN
  /\ ~caido /\ hebras[i].paso = "mirar"
  /\ \A j \in Hebras \ {i} : ~EnMedio(j)
  /\ \/ /\ TieneHilos(p)
        /\ hebras' = [hebras EXCEPT ![i].paso = "tomar", ![i].faltan = Prioridades]
     \/ /\ ~TieneHilos(p) /\ faltan = {p}
        /\ hebras' = [hebras EXCEPT ![i].paso = hebras[i].luego, ![i].faltan = Prioridades]
     \/ /\ ~TieneHilos(p) /\ faltan # {p}
        /\ hebras' = [hebras EXCEPT ![i].faltan = faltan \ {p}]
  /\ UNCHANGED <<kernel, esperaban, reloj, avisos, colaIO, aCpu, aKernel, cpuVars, caido>>

\* Mutant: the size of EXEC is not looked at.
ExecLibreSiempre == TRUE

ExecLibre == exec = <<>>

EnReady(h) == h \in Range(colas[Prioridad[h]])

\* atender_CMN locks EXEC and keeps it locked only if nobody is there.
PcpTomar(i) ==
  /\ ~caido /\ hebras[i].paso = "tomar" /\ ExecSuelto
  /\ \/ /\ ~ExecLibre
        /\ hebras' = [hebras EXCEPT ![i].paso = hebras[i].luego]
        /\ UNCHANGED esperaban
     \/ /\ ExecLibre
        /\ hebras' = [hebras EXCEPT ![i].paso = "recorrer"]
        /\ esperaban' = {h \in Hilos : EnReady(h)}
  /\ UNCHANGED <<kernel, reloj, avisos, colaIO, aCpu, aKernel, cpuVars, caido>>

\* The filter of obtener_siguiente_tcb_a_ejecutar_en_CMN, one queue.
PcpRecorrer(i) ==
  LET p == Proxima(hebras[i].faltan)
      resto == hebras[i].faltan \ {p}
  IN
  /\ ~caido /\ hebras[i].paso = "recorrer"
  /\ hebras' = [hebras EXCEPT
       ![i].vistas = IF TieneHilos(p) THEN @ \cup {p} ELSE @,
       ![i].faltan = IF resto = {} THEN Prioridades ELSE resto,
       ![i].paso = IF resto = {} THEN "sacar" ELSE "recorrer"]
  /\ UNCHANGED <<kernel, esperaban, reloj, avisos, colaIO, aCpu, aKernel, cpuVars, caido>>

\* Mutant: the queue of the greatest number.
PeorCola(ps) == Max(ps)

\* The queue of the least number, of those that had somebody when they were looked at.
MejorCola(ps) == Min(ps)

\* It takes the first of that queue, whatever has come to the others meanwhile.  If
\* none had anybody, list_add(lista_tcb_exec, NULL) is followed through NULL.
PcpSacar(i) ==
  LET vistas == hebras[i].vistas IN
  /\ ~caido /\ hebras[i].paso = "sacar"
  /\ esperaban' = {}
  /\ \/ /\ vistas = {}
        /\ caido' = TRUE
        /\ UNCHANGED <<colas, exec, hebras>>
     \/ /\ vistas # {}
        /\ LET p == MejorCola(vistas) IN
             /\ exec' = Append(exec, Head(colas[p]))
             /\ colas' = [colas EXCEPT ![p] = Tail(@)]
             /\ hebras' = [hebras EXCEPT ![i].paso = "enviar", ![i].toma = Head(colas[p]), ![i].vistas = {}]
        /\ UNCHANGED caido
  /\ UNCHANGED <<blocked, salidos, creados, reloj, avisos, colaIO, aCpu, aKernel, cpuVars>>

\* generar_verificador and enviar_tcb_CPU_dispatch: the timers asleep are stale now.
PcpEnviar(i) ==
  /\ ~caido /\ hebras[i].paso = "enviar" /\ Len(aCpu) < MaxMensajes
  /\ ultimo' = hebras[i].toma /\ alDia' = TRUE /\ dormidos' = 0
  /\ aCpu' = Append(aCpu, Mensaje("EJECUTAR", hebras[i].toma))
  /\ hebras' = [hebras EXCEPT ![i].paso = "armar"]
  /\ UNCHANGED <<esperaban, kernel, flag, armados, avisos, colaIO, aKernel, cpuVars, caido>>

\* The end of atender_CMN, after the thread was sent: flag_cancelar_quantum and
\* the detached _programar_interrupcion_por_quantum.
PcpArmar(i) ==
  LET h == hebras[i].toma IN
  /\ ~caido /\ hebras[i].paso = "armar"
  /\ armados[h] < MaxTemporizadores
  /\ flag' = [flag EXCEPT ![h] = FALSE]
  /\ armados' = [armados EXCEPT ![h] = @ + 1]
  /\ hebras' = [hebras EXCEPT ![i].paso = hebras[i].luego, ![i].toma = Nadie]
  /\ UNCHANGED <<esperaban, kernel, ultimo, alDia, dormidos, avisos, colaIO, aCpu, aKernel, cpuVars, caido>>
-----------------------------------------------------------------------------
(* The timers and gestionar_interrupt_quantum.                             *)

\* _programar_interrupcion_por_quantum starts: it reads the verificador of its TCB.
TemporizadorEmpieza(h) ==
  /\ ~caido /\ armados[h] > 0 /\ dormidos < MaxTemporizadores
  /\ armados' = [armados EXCEPT ![h] = @ - 1]
  /\ dormidos' = IF h = ultimo /\ alDia THEN dormidos + 1 ELSE dormidos
  /\ UNCHANGED <<kernel, hebras, esperaban, flag, ultimo, alDia, avisos, colaIO, aCpu, aKernel, cpuVars, caido>>

EnCamino == Len(vencidos) + Len(aInterrupt)

\* Nothing of an earlier quantum is under way, nor a pass that has looked at the
\* queues already.
Quieto ==
  /\ EnCamino = 0 /\ gestor = Nadie /\ ~acepta /\ ~interrupt
  /\ \A h \in Hilos : armados[h] = 0
  /\ \A i \in Hebras : hebras[i].toma = Nadie /\ hebras[i].paso # "tomar" /\ ~Recorre(i)

\* It wakes up and its verificador is still the last one: the interruption is
\* asked for unless somebody cancelled the quantum of the TCB.
TemporizadorVence ==
  /\ ~caido /\ dormidos > 0
  /\ EnTiempo => Quieto /\ cpu.paso = "corre" /\ cpu.hilo = ultimo
  /\ EnCamino < MaxTemporizadores
  /\ dormidos' = dormidos - 1
  /\ vencidos' = IF flag[ultimo] THEN vencidos ELSE Append(vencidos, ultimo)
  /\ UNCHANGED <<kernel, hebras, esperaban, flag, ultimo, alDia, armados, gestor, aInterrupt, llego, acepta,
                 colaIO, aCpu, aKernel, cpuVars, caido>>

\* gestionar_interrupt_quantum: the thread in EXEC, whoever it is; with nobody
\* there list_get returns NULL, and only the list itself is compared with NULL.
GestorToma ==
  /\ ~caido /\ gestor = Nadie /\ vencidos # <<>> /\ ExecSuelto
  /\ IF exec = <<>>
     THEN caido' = TRUE /\ UNCHANGED <<gestor, vencidos>>
     ELSE gestor' = exec[1] /\ vencidos' = Tail(vencidos) /\ UNCHANGED caido
  /\ UNCHANGED <<kernel, hebras, esperaban, reloj, aInterrupt, llego, acepta, colaIO, aCpu, aKernel, cpuVars>>

\* It sends FORZAR_DESALOJO without the lock: of a thread that has ended since,
\* the id was freed and is any.
GestorEnvia ==
  /\ ~caido /\ gestor # Nadie
  /\ \E h \in IF gestor \in salidos THEN Hilos \cup {Nadie} ELSE {gestor} :
       aInterrupt' = Append(aInterrupt, h)
  /\ gestor' = Nadie
  /\ UNCHANGED <<kernel, hebras, esperaban, reloj, vencidos, llego, acepta, colaIO, aCpu, aKernel, cpuVars, caido>>
-----------------------------------------------------------------------------
(* The dispatch handler, hebra 0.                                          *)

\* obtener_hilo_desalojado searches EXEC under its lock.
Atiende(op, h) ==
  /\ ~caido /\ hebras[0].paso = "libre" /\ ExecSuelto
  /\ aKernel # <<>> /\ Head(aKernel) = Mensaje(op, h)
  /\ aKernel' = Tail(aKernel)

EnExec(h) == h \in Range(exec)

\* obtener_hilo_desalojado writes the verificador of the message in the TCB: that
\* of the dispatch the CPU has, older if EXEC had h sent again.
AlDia(h) == alDia /\ ~(h = ultimo /\ Mensaje("EJECUTAR", h) \in Range(aCpu))

CancelarQuantum(h) == [flag EXCEPT ![h] = TRUE]

\* Requests of a thread that is not in EXEC: nothing, but for an IO, whose
\* quantum is cancelled through the NULL that the search returned.
AtiendeInvalido(op, h) ==
  /\ Atiende(op, h) /\ ~EnExec(h)
  /\ caido' = (op = "IO")
  /\ UNCHANGED <<kernel, hebras, esperaban, reloj, avisos, colaIO, aCpu, cpuVars>>

\* IO: atender_io in a thread of its own.
AtiendeIO(h) ==
  /\ Atiende("IO", h) /\ EnExec(h)
  /\ flag' = CancelarQuantum(h) /\ alDia' = AlDia(h)
  /\ \E i \in Nueva : hebras' = [hebras EXCEPT ![i] = Hebra("agregar", h, "libre")]
  /\ UNCHANGED <<esperaban, kernel, ultimo, armados, dormidos, avisos, colaIO, aCpu, cpuVars, caido>>

Encolar(c, h) == [c EXCEPT ![Prioridad[h]] = Append(@, h)]

\* crear_colamultinivel adds a queue under mutex_lista_cola_multinivel.
ColaLista(h) == \/ \E g \in creados : Prioridad[g] = Prioridad[h]
                \/ \A i \in Hebras : ~EnMedio(i)

\* THREAD_CREATE: crear_tcb makes the queue, if there is none, and enqueues the
\* thread, asks for a pass, and the answer follows.
AtiendeThreadCreate(h) ==
  /\ Atiende("THREAD_CREATE", h) /\ EnExec(h)
  /\ flag' = CancelarQuantum(h) /\ alDia' = AlDia(h)
  /\ LET nuevo == Min(Hilos \ creados) IN
       /\ ColaLista(nuevo)
       /\ creados' = creados \cup {nuevo}
       /\ colas' = Encolar(colas, nuevo)
  /\ \E i \in Nueva : hebras' = [hebras EXCEPT ![i] = Hebra("mirar", Nadie, "libre")]
  /\ aCpu' = Append(aCpu, Mensaje("RTA", Nadie))
  /\ UNCHANGED <<esperaban, exec, blocked, salidos, ultimo, armados, dormidos, avisos, colaIO, cpuVars, caido>>

\* MUTEX_UNLOCK, and each request after which the thread goes on: its quantum is
\* cancelled all the same.
AtiendeMutexUnlock(h) ==
  /\ Atiende("MUTEX_UNLOCK", h) /\ EnExec(h)
  /\ flag' = CancelarQuantum(h) /\ alDia' = AlDia(h)
  /\ aCpu' = Append(aCpu, Mensaje("RTA", Nadie))
  /\ UNCHANGED <<kernel, hebras, esperaban, ultimo, armados, dormidos, avisos, colaIO, cpuVars, caido>>

\* THREAD_EXIT: finalizar_hilo, and the pass it ends with.
AtiendeThreadExit(h) ==
  /\ Atiende("THREAD_EXIT", h) /\ EnExec(h)
  /\ flag' = CancelarQuantum(h) /\ alDia' = AlDia(h)
  /\ exec' = RemoveFirst(exec, h)
  /\ salidos' = salidos \cup {h}
  /\ hebras' = [hebras EXCEPT ![0] = Hebra("mirar", Nadie, "libre")]
  /\ UNCHANGED <<esperaban, colas, blocked, creados, ultimo, armados, dormidos, avisos, colaIO, aCpu, cpuVars, caido>>

\* ATENDER_DESALOJO_HILO_CPU: the search of the thread in EXEC.
AtiendeDesalojo(h) ==
  /\ Atiende("DESALOJO", h) /\ EnExec(h)
  /\ flag' = CancelarQuantum(h) /\ alDia' = AlDia(h)
  /\ hebras' = [hebras EXCEPT ![0] = Hebra("desalojar", h, "libre")]
  /\ UNCHANGED <<esperaban, kernel, ultimo, armados, dormidos, avisos, colaIO, aCpu, cpuVars, caido>>

\* Mutant: the thread goes first in its queue.
AlFrente(c, h) == [c EXCEPT ![Prioridad[h]] = <<h>> \o @]

\* The queues after an eviction.
Desalojado(c, h) == Encolar(c, h)

\* atender_desalojo: out of EXEC, if it is still there...
Desalojar ==
  /\ ~caido /\ hebras[0].paso = "desalojar" /\ ExecSuelto
  /\ Len(colas[Prioridad[hebras[0].hilo]]) < MaxCola
  /\ exec' = RemoveFirst(exec, hebras[0].hilo)
  /\ hebras' = [hebras EXCEPT ![0].paso = "reubicar"]
  /\ UNCHANGED <<esperaban, colas, blocked, salidos, creados, reloj, avisos, colaIO, aCpu, aKernel,
                 cpuVars, caido>>

\* ... and, with EXEC unlocked, to its queue anyhow.
Reubicar ==
  LET h == hebras[0].hilo IN
  /\ ~caido /\ hebras[0].paso = "reubicar"
  /\ colas' = Desalojado(colas, h)
  /\ hebras' = [hebras EXCEPT ![0] = Hebra("mirar", Nadie, "libre")]
  /\ UNCHANGED <<esperaban, exec, blocked, salidos, creados, reloj, avisos, colaIO, aCpu, aKernel,
                 cpuVars, caido>>
-----------------------------------------------------------------------------
(* atender_io and manejar_sleep, by a detached hebra i.                    *)

PasosPcp == {"mirar", "tomar", "recorrer", "sacar", "enviar", "armar"}
PasosIO  == {"agregar", "bloquear", "mirarIO", "dormir", "despertar", "seguir"}

\* Between adding to the queue and looking at its size, or between removing from
\* it and looking whether somebody is left.
PorMirar(i) ==
  \/ hebras[i].paso \in {"bloquear", "mirarIO", "despertar", "seguir"}
  \/ hebras[i].paso \in PasosPcp /\ hebras[i].luego \in {"mirarIO", "seguir"}

PorAgregar(i) == hebras[i].paso = "agregar"

IoAgregar(i) ==
  /\ ~caido /\ hebras[i].paso = "agregar"
  /\ colaIO' = Append(colaIO, hebras[i].hilo)
  /\ hebras' = [hebras EXCEPT ![i].paso = "bloquear"]
  /\ UNCHANGED <<esperaban, kernel, reloj, avisos, aCpu, aKernel, cpuVars, caido>>

\* bloquear_hilo_en_ejecucion: nothing if the thread is not in EXEC any more.
IoBloquear(i) ==
  LET h == hebras[i].hilo IN
  /\ ~caido /\ hebras[i].paso = "bloquear" /\ ExecSuelto
  /\ IF EnExec(h)
     THEN /\ exec' = RemoveFirst(exec, h)
          /\ blocked' = Append(blocked, h)
          /\ flag' = [flag EXCEPT ![h] = TRUE]
          /\ hebras' = [hebras EXCEPT ![i].paso = "mirar", ![i].luego = "mirarIO"]
     ELSE /\ hebras' = [hebras EXCEPT ![i].paso = "mirarIO"]
          /\ UNCHANGED <<exec, blocked, flag>>
  /\ UNCHANGED <<esperaban, colas, salidos, creados, ultimo, alDia, armados, dormidos, avisos, colaIO,
                 aCpu, aKernel, cpuVars, caido>>

\* Mutant: every request sleeps at once.
SoloEnColaSiempre == TRUE

\* The size that makes atender_io handle its own request.
SoloEnCola == Len(colaIO) = 1

IoMirar(i) ==
  /\ ~caido /\ hebras[i].paso = "mirarIO"
  /\ hebras' = [hebras EXCEPT ![i] = IF SoloEnCola THEN Hebra("dormir", @.hilo, "libre") ELSE Inactiva]
  /\ UNCHANGED <<esperaban, kernel, reloj, avisos, colaIO, aCpu, aKernel, cpuVars, caido>>

\* manejar_sleep, after usleep: the first of the queue is taken out.
IoDormir(i) ==
  /\ ~caido /\ hebras[i].paso = "dormir"
  /\ EnSerieIO => /\ \A j \in Hebras : ~PorMirar(j) /\ ~PorAgregar(j)
                  /\ \A h \in Hilos : Mensaje("IO", h) \notin Range(aKernel)
  /\ colaIO' = IF colaIO = <<>> THEN colaIO ELSE Tail(colaIO)
  /\ hebras' = [hebras EXCEPT ![i].paso = "despertar"]
  /\ UNCHANGED <<esperaban, kernel, reloj, avisos, aCpu, aKernel, cpuVars, caido>>

MismoSleep(i) == {j \in Hebras \ {0, i} : /\ hebras[j].hilo = hebras[i].hilo
                                          /\ hebras[j].paso \in {"dormir", "despertar"}}

\* desbloquear_hilo and the free of the request, which the thread that read it too
\* (colgado) frees again.
IoDespertar(i) ==
  LET h == hebras[i].hilo
      sueltas == [j \in Hebras |-> IF j \in MismoSleep(i) THEN [hebras[j] EXCEPT !.colgado = TRUE]
                                                          ELSE hebras[j]]
  IN
  /\ ~caido /\ hebras[i].paso = "despertar"
  /\ caido' = hebras[i].colgado
  /\ IF h \in Range(blocked)
     THEN /\ blocked' = RemoveFirst(blocked, h)
          /\ colas' = Encolar(colas, h)
          /\ hebras' = [sueltas EXCEPT ![i].paso = "mirar", ![i].luego = "seguir"]
     ELSE /\ hebras' = [sueltas EXCEPT ![i].paso = "seguir"]
          /\ UNCHANGED <<blocked, colas>>
  /\ UNCHANGED <<esperaban, exec, salidos, creados, reloj, avisos, colaIO, aCpu, aKernel, cpuVars>>

\* Mutant: the first of the queue is taken though the queue is empty.
SiguienteIOSinMirar == Hebra("mirar", IF colaIO = <<>> THEN Nadie ELSE Head(colaIO), "dormir")

\* Mutant: the thread ends and the queue waits for nobody.
SiguienteIONadie == Inactiva

\* The first of the queue, if any, after another pass.
SiguienteIO == IF colaIO = <<>> THEN Inactiva ELSE Hebra("mirar", Head(colaIO), "dormir")

IoSeguir(i) ==
  /\ ~caido /\ hebras[i].paso = "seguir"
  /\ hebras' = [hebras EXCEPT ![i] = SiguienteIO]
  /\ UNCHANGED <<esperaban, kernel, reloj, avisos, colaIO, aCpu, aKernel, cpuVars, caido>>
-----------------------------------------------------------------------------
(* The CPU.                                                                *)

Cpu(p, h, op) == [paso |-> p, hilo |-> h, op |-> op]

\* atender_cpu_kernel_dispatch: an EJECUTAR waits until the last thread has left.
CpuRecibe ==
  /\ ~caido /\ cpu.paso = "libre"
  /\ aCpu # <<>> /\ Head(aCpu).op = "EJECUTAR"
  /\ cpu' = Cpu("pide", Head(aCpu).hilo, "NADA")
  /\ aCpu' = Tail(aCpu)
  /\ UNCHANGED <<kernel, hebras, esperaban, reloj, avisos, colaIO, aKernel, contexto, interrupt, caido>>

\* Memoria sends the context.
CpuContexto ==
  /\ ~caido /\ cpu.paso = "pide" /\ cpu.hilo \notin salidos
  /\ contexto' = cpu.hilo
  /\ llego' = IF llego < MaxContextos THEN llego + 1 ELSE llego
  /\ cpu' = [cpu EXCEPT !.paso = "corre"]
  /\ UNCHANGED <<kernel, hebras, esperaban, reloj, vencidos, gestor, aInterrupt, acepta, colaIO, aCpu, aKernel,
                 interrupt, caido>>

\* Memoria has none: a THREAD_EXIT with the ids of the context before.
CpuSinContexto ==
  /\ ~caido /\ cpu.paso = "pide" /\ cpu.hilo \in salidos
  /\ Len(aKernel) < MaxMensajes
  /\ aKernel' = Append(aKernel, Mensaje("THREAD_EXIT", contexto))
  /\ cpu' = [cpu EXCEPT !.paso = "suelta"]
  /\ UNCHANGED <<kernel, hebras, esperaban, reloj, avisos, colaIO, aCpu, contexto, interrupt, caido>>

Pide(op) ==
  /\ ~caido /\ cpu.paso = "corre" /\ op \in Instrucciones
  /\ Len(aKernel) < MaxMensajes
  /\ EnTiempo => Quieto
  /\ aKernel' = Append(aKernel, Mensaje(op, contexto))
  /\ UNCHANGED <<kernel, hebras, esperaban, reloj, avisos, colaIO, aCpu, contexto, interrupt, caido>>

\* execute, IO: the cycle ends with hay_bloqueo.
CpuIO ==
  /\ EnSerieIO => \A i \in Hebras : ~PorMirar(i) /\ ~PorAgregar(i)
  /\ Pide("IO")
  /\ cpu' = [cpu EXCEPT !.paso = "ciclo", !.op = "IO"]

\* execute, THREAD_CREATE: it waits for the answer.  MUTEX_CREATE and
\* PROCESS_CREATE do the same.
CpuThreadCreate ==
  /\ Pide("THREAD_CREATE") /\ Hilos \ creados # {}
  /\ cpu' = [cpu EXCEPT !.paso = "espera", !.op = "THREAD_CREATE"]

\* execute, MUTEX_UNLOCK: it waits for the answer and goes on.  So do a
\* MUTEX_LOCK that is granted, a THREAD_JOIN of nobody and a THREAD_CANCEL.
CpuMutexUnlock == Pide("MUTEX_UNLOCK") /\ cpu' = [cpu EXCEPT !.paso = "espera", !.op = "MUTEX_UNLOCK"]

\* execute, THREAD_EXIT, and what atender_hilo_kernel sends after the loop.
CpuThreadExit == Pide("THREAD_EXIT") /\ cpu' = [cpu EXCEPT !.paso = "suelta"]

\* The requests after whose answer execute sets interrupt_flag.
Cede(op) == op = "THREAD_CREATE"

CpuRecibeRta ==
  /\ ~caido /\ cpu.paso = "espera"
  /\ aCpu # <<>> /\ Head(aCpu).op = "RTA"
  /\ aCpu' = Tail(aCpu)
  /\ interrupt' = (interrupt \/ Cede(cpu.op))
  /\ cpu' = [cpu EXCEPT !.paso = "ciclo"]
  /\ UNCHANGED <<kernel, hebras, esperaban, reloj, avisos, colaIO, aKernel, contexto, caido>>

\* The end of a cycle: an instruction without a syscall, or a syscall that was
\* answered.  interrupt_flag sends the thread back, also the one whose IO has just
\* been asked for.
CpuDesaloja ==
  /\ ~caido /\ cpu.paso \in {"corre", "ciclo"} /\ interrupt
  /\ Len(aKernel) < MaxMensajes
  /\ aKernel' = Append(aKernel, Mensaje("DESALOJO", contexto))
  /\ cpu' = [cpu EXCEPT !.paso = "suelta"]
  /\ UNCHANGED <<kernel, hebras, esperaban, reloj, avisos, colaIO, aCpu, contexto, interrupt, caido>>

CpuSigue ==
  /\ ~caido /\ cpu.paso = "ciclo" /\ ~interrupt
  /\ cpu' = [cpu EXCEPT !.paso = IF cpu.op = "IO" THEN "suelta" ELSE "corre", !.op = "NADA"]
  /\ UNCHANGED <<kernel, hebras, esperaban, reloj, avisos, colaIO, aCpu, aKernel, contexto, interrupt, caido>>

\* The end of atender_hilo_kernel: the flags are reset and the next EJECUTAR enters.
CpuSuelta ==
  /\ ~caido /\ cpu.paso = "suelta"
  /\ interrupt' = FALSE
  /\ cpu' = Cpu("libre", Nadie, "NADA")
  /\ UNCHANGED <<kernel, hebras, esperaban, reloj, avisos, colaIO, aCpu, aKernel, contexto, caido>>

\* manejar_interrupcion: the interruption is compared with the context...
InterrupcionLlega ==
  /\ ~caido /\ ~acepta /\ aInterrupt # <<>> /\ llego > 0
  /\ llego' = llego - 1
  /\ acepta' = (Head(aInterrupt) = contexto)
  /\ aInterrupt' = Tail(aInterrupt)
  /\ UNCHANGED <<kernel, hebras, esperaban, reloj, vencidos, gestor, colaIO, aCpu, aKernel, cpuVars, caido>>

\* ... and the flag is set afterwards, whoever has the CPU then.
InterrupcionMarca ==
  /\ ~caido /\ acepta
  /\ acepta' = FALSE
  /\ interrupt' = TRUE
  /\ UNCHANGED <<kernel, hebras, esperaban, reloj, vencidos, gestor, aInterrupt, llego, colaIO, aCpu, aKernel,
                 cpu, contexto, caido>>
-----------------------------------------------------------------------------
Pcp(i) == \/ PcpMirar(i) \/ PcpTomar(i) \/ PcpRecorrer(i) \/ PcpSacar(i)
          \/ PcpEnviar(i) \/ PcpArmar(i)

Peticiones == {"IO", "THREAD_CREATE", "MUTEX_UNLOCK", "THREAD_EXIT", "DESALOJO"}

AtiendeAlgo ==
  \/ \E h \in Hilos : \/ AtiendeIO(h) \/ AtiendeThreadCreate(h) \/ AtiendeMutexUnlock(h)
                      \/ AtiendeThreadExit(h) \/ AtiendeDesalojo(h)
                      \/ \E op \in Peticiones : AtiendeInvalido(op, h)
  \/ Desalojar \/ Reubicar

Io(i) == IoAgregar(i) \/ IoBloquear(i) \/ IoMirar(i) \/ IoDormir(i) \/ IoDespertar(i) \/ IoSeguir(i)

Gestor == GestorToma \/ GestorEnvia

\* What the CPU does without the program asking for anything.
CpuAvanza ==
  CpuRecibe \/ CpuContexto \/ CpuSinContexto \/ CpuRecibeRta \/ CpuDesaloja \/ CpuSigue \/ CpuSuelta

CpuSyscall == CpuIO \/ CpuThreadCreate \/ CpuMutexUnlock \/ CpuThreadExit

Interrupcion == InterrupcionLlega \/ InterrupcionMarca

Next ==
  \/ \E i \in Hebras : Pcp(i) \/ Io(i)
  \/ \E h \in Hilos : TemporizadorEmpieza(h)
  \/ TemporizadorVence
  \/ Gestor
  \/ AtiendeAlgo
  \/ CpuAvanza
  \/ CpuSyscall
  \/ Interrupcion

Spec == Init /\ [][Next]_vars

\* Each thread of the kernel and of the CPU goes on running, and usleep returns.
\* The programs owe nothing: a thread may compute for ever.
Equidad ==
  /\ \A i \in Hebras : SF_vars(Pcp(i) \/ Io(i))
  /\ WF_vars(\E h \in Hilos : TemporizadorEmpieza(h))
  /\ WF_vars(TemporizadorVence)
  /\ WF_vars(Gestor)
  /\ WF_vars(AtiendeAlgo)
  /\ WF_vars(CpuAvanza)
  /\ WF_vars(Interrupcion)

SpecJusta == Spec /\ Equidad
-----------------------------------------------------------------------------
\* Types of the lists, the threads of the kernel, the timers and the CPU.
TypeOK ==
  /\ \A p \in Prioridades : Range(colas[p]) \subseteq Hilos
  /\ Range(exec) \subseteq Hilos /\ Range(blocked) \subseteq Hilos /\ Range(colaIO) \subseteq Hilos
  /\ salidos \subseteq Hilos /\ creados \subseteq Hilos /\ esperaban \subseteq Hilos
  /\ \A i \in Hebras :
       /\ hebras[i].paso \in PasosPcp \cup PasosIO \cup {"libre", "desalojar", "reubicar"}
       /\ hebras[i].hilo \in Hilos \cup (IF hebras[i].paso \in PasosIO THEN {} ELSE {Nadie})
       /\ hebras[i].toma \in Hilos \cup {Nadie}
       /\ hebras[i].faltan \subseteq Prioridades /\ hebras[i].vistas \subseteq Prioridades
  /\ flag \in [Hilos -> BOOLEAN] /\ armados \in [Hilos -> 0 .. MaxTemporizadores]
  /\ dormidos \in Nat /\ ultimo \in Hilos \cup {Nadie} /\ gestor \in Hilos \cup {Nadie}
  /\ cpu.paso \in {"libre", "pide", "corre", "espera", "ciclo", "suelta"}
  /\ llego \in 0 .. MaxContextos

\* No pass is lost: with a thread in some queue and nobody in EXEC, somebody is on
\* its way to take one, whoever emptied EXEC or filled the queue, and whoever
\* found EXEC taken, or the queues empty when it looked at them, a moment before.
TrabajoConservado ==
  (\E h \in Hilos : EnReady(h)) /\ exec = <<>> /\ ~caido =>
    \E i \in Hebras : hebras[i].paso \in {"mirar", "tomar", "recorrer", "sacar", "desalojar", "reubicar"}

\* g is in the queue of h and no h is before it.
DelanteDe(g, h) ==
  \E m \in DOMAIN colas[Prioridad[h]] : /\ colas[Prioridad[h]][m] = g
                                        /\ h \notin Range(SubSeq(colas[Prioridad[h]], 1, m))

\* g goes to EXEC while h waits, and was not before it in its queue.
PasaA(g, h) == h # g /\ EnReady(h) /\ EnReady(h)' /\ ~EnExec(g) /\ EnExec(g)' /\ ~DelanteDe(g, h)

\* The walk of the queues under the lock of EXEC misses only who came during it: a
\* thread that was in READY when the pass locked EXEC is not overtaken by one of a
\* queue of more number, nor is any thread by one behind it in its own queue.
SinAdelantosDesdeElPase ==
  [][\A h, g \in Hilos :
       PasaA(g, h) => \/ Prioridad[g] < Prioridad[h]
                      \/ Prioridad[g] > Prioridad[h] /\ h \notin esperaban]_vars

\* What the multilevel queues are for: while a thread waits, nobody that came to its
\* queue after it, nor of a queue of more number, goes to EXEC. The code does not keep
\* it: the walk of a pass is older than its choice (README, section 5).
SinAdelantos == [][\A h, g \in Hilos : PasaA(g, h) => Prioridad[g] < Prioridad[h]]_vars

\* With interruptions on time, the thread that computes in the CPU is the one in
\* EXEC: neither a quantum nor an IO leaves another there.
EjecucionFiel == cpu.paso = "corre" => exec = <<cpu.hilo>> /\ contexto = cpu.hilo

\* One request of the IO queue is slept at a time, the first; a queue that is not
\* empty has somebody that sleeps or is about to look at it; and no timer,
\* interruption or IO makes the kernel follow a null or freed pointer.
UnSueno ==
  LET duermen == {i \in Hebras : \/ hebras[i].paso = "dormir"
                                 \/ hebras[i].paso \in PasosPcp /\ hebras[i].luego = "dormir"}
  IN  /\ ~caido
      /\ \A i, j \in duermen : i = j
      /\ \A i \in duermen : colaIO # <<>> /\ Head(colaIO) = hebras[i].hilo
      /\ colaIO # <<>> => duermen # {} \/ \E i \in Hebras : PorMirar(i)

\* Round robin: a thread that waits in the first queue gets its turn, though the
\* one that runs computes for ever.
TurnoLlega ==
  \A h \in Hilos : Prioridad[h] = Min(Prioridades) => (EnReady(h) ~> EnExec(h))

\* A thread that asked for an IO comes back to READY.
IoVuelve == \A h \in Hilos : h \in Range(colaIO) ~> EnReady(h)
=============================================================================
