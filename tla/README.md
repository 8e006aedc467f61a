# Verification of the kernel, CPU, Memoria and Filesystem modules

TLA+ modules, TLC configurations and TLAPS proofs for the operating system simulator in `src/`: four
C programs (kernel, CPU, Memoria, Filesystem) that talk over TCP and run the threads of user processes.
The modules are translated from the C source; the `map` of `PROJECT.json` gives, for each definition,
the lines it stands for.

## 1. Inventory

| Component | State | Operations | Talks to |
|---|---|---|---|
| Short-term scheduler (`planificador_corto_plazo.c`, `cola_multinivel.c`) | READY, EXEC, multilevel queues | scheduling pass, block, unblock, quantum timer | CPU (EJECUTAR, interruption) |
| Long-term scheduler (`planificador_largo_plazo.c`, `pcb.c`) | NEW, in memory, EXIT; next pid, next tid | create and finalize processes and threads, replan NEW | Memoria |
| Dispatch handler (`kernel_cpu_dispatch.c`) | the request it serves | one case per syscall; eviction | CPU, both schedulers |
| Mutexes and joins (`mutex.c`, `tcb.c`) | owner, waiting list, mutexes of a thread, threads that join it | lock, unlock, hand over, join | schedulers |
| Dumps (`atender_dump_memory`) | the last answer, shared by all | block, ask Memoria, wake up or end the process | Memoria, Filesystem |
| IO (`atender_io`, `manejar_sleep`) | queue of sleeps | enqueue, sleep, wake up, take the next | schedulers |
| CPU (`cpu_kernel_dispatch.c`, `ciclo_instruccion.c`, `mmu.c`) | context, flags, semaphores | take a thread, fetch, decode, execute, wait for answers, save the context, interruptions | kernel, Memoria |
| Memoria, kernel side (`memoria_kernel.c`, `proceso.c`, `hilo.c`) | processes, contexts of threads | create and free processes and threads, dump | kernel, Filesystem |
| Memoria, partitions (`particion.c`) | ordered list of partitions | first, best, worst fit; split; merge | |
| Memoria, user space (`espacio_usuario.c`, `memoria_cpu.c`) | bytes | read, write, instructions and contexts for the CPU | CPU |
| Filesystem (`bloques.c`, `bitmap.c`, `fcb.c`) | bitmap, blocks, metadata | count free blocks, allocate, write the dump | Memoria |
| `utils/shared.c`, configuration, logs | sockets, buffers | serialization | all |

The kernel is where the difficulty is. One thread serves the requests of the CPU in order; every
`finalizar_proceso`, every dump, every IO and every scheduling pass that `crear_tcb` asks for runs in a
detached thread of its own. They share six lists of threads and processes, one pointer per kind of
answer of Memoria, and the id of a thread, which `finalizar_hilo` frees. There is no crash recovery:
a module that dies takes the system down. Nothing is lost or reordered on a connection, and no request
is retried; the only timeout is the quantum. Only the Filesystem keeps anything between two runs: its
bitmap, its blocks and the metadata files.

The CPU has two threads, one per connection, that share the context and the flag of the interruption;
Memoria and the Filesystem serve each request of the other modules in a thread of its own.

What makes each part correct:

* schedulers: a thread is in one place; EXEC holds one; the best of READY runs; no pass is lost;
* syscalls: each request is answered once, before the CPU is given something else;
* mutexes and joins: owner and lists agree, hand-over in order, no wake-up lost, also when the owner
  dies while somebody waits;
* ends of processes: every finalizer ends, no thread survives its process (the code leaves some
  behind: `sobreviviente`), no process is initialised twice or forgotten in NEW;
* Memoria: partitions do not overlap, free neighbours are merged, a process has one partition;
* quantum and IO: the timers of earlier dispatches do no harm, a turn comes to every thread of the first
  queue, one sleep at a time and none forgotten;
* CPU: whatever is interrupted, blocked or dispatched again, each thread runs its program as if alone;
* Filesystem: a block belongs to one file; a dump that does not fit takes none; what was answered OK can
  be read after any restart.

`PROJECT.json` lists under `hazards` the lines where each of these can go wrong.

## 2. Modules

| Module | What it is |
|---|---|
| `CortoPlazo` | The scheduling pass, enqueueing, sending to the CPU, as operators on a record of lists. Parameter: `Algoritmo`. |
| `Planificador` | The kernel (dispatch handler, long-term scheduler, mutexes, joins, dumps) composed with what it sees of the CPU and of Memoria. A state machine. |
| `Multinivel` | The kernel with CMN: multilevel queues, quantum timers, interruptions, the IO queue, composed with the CPU's two connections. A state machine. |
| `Admision` | Creation of processes, NEW and its replanning, in the handler and in the finalizers, composed with `Memoria` (`M == INSTANCE Memoria`). A state machine. |
| `Memoria` | The Memoria module: partitions, processes, the kernel's requests about processes, the writes of the CPU. A state machine of its own. |
| `Cpu` | The CPU module: dispatch and interrupt connections, instruction cycle, MMU, composed with the contexts and the user space of Memoria. A state machine. |
| `Maquina` | The abstract specification `Cpu` implements: a machine of its own for each thread. |
| `Palabras` | The words of the registers and their bytes, for `Cpu` and `Maquina`. Parameters: the bytes of a word, the values of a byte. |
| `Bloques` | The Filesystem module: bitmap, blocks, and the dumps that use them, with restarts. A state machine of its own. |
| `MC...` | Each of the state machines for TLC. |
| `SecuenciasProofs` | Lemmas about sequences, minima and counts that several proofs use. |
| `PlanificadorProofs`, `OrdenProofs`, `MultinivelProofs`, `AdmisionProofs`, `MemoriaProofs`, `BloquesProofs`, `CpuProofs` | Lemmas and theorems about each state machine; `OrdenProofs` goes on from `PlanificadorProofs`. |

`Planificador` sees of Memoria which processes have a partition and which threads a context, and creates
a process in one step: the steps of a creation, with the answers of Memoria, are the matter of `Admision`,
which leaves out what threads do. `Multinivel` takes the algorithm `Planificador` does not have, and what
hangs from it: quantum and IO. `Memoria` and `Bloques` take the kernel and Memoria as sources of requests.

### How `Planificador` corresponds to the code

* **Actors.** The dispatch handler (`Atiende*`), one finalizer per process (`Fin*`), one dump per thread
  (`Dump*`), the detached scheduling passes (`PcpSuelto`, counted by `pcpPend`), the CPU (`Cpu*`). A
  finalizer or the handler inside `finalizar_hilo` advances by the `Fh*` actions; `fh[e]` is its local
  state and `FhTomar` takes `mutex_rta_finalizacion_hilo`.
* **State.** `ready exec blocked salidos` are the four thread lists; `prioridad asignados esperanJoin`
  the fields of the TCBs; `pcb*`, `siguienteTid`, `listaIds`, `finalizado` the PCBs; `mutexes duenio
  bloqueadosMutex` the mutexes; `aCpu` and `aKernel` the two directions of the dispatch connection;
  `memProc memHilos dumpMem` what Memoria knows; `caido` the module that crashed, after which nothing
  moves.
* **Steps.** A case of the handler that only moves threads between lists is one step: the handler is
  one thread, and the only other actor that touches the same thread is a finalizer of the same process.
  For that one the model keeps the order that matters: the handler looks its thread up in EXEC, then
  waits for the PCB's mutex, and goes on with what it found (`EsperaPcb`, requests marked HALLADO or
  PERDIDO). Everything that waits for Memoria or for a lock others hold is split.
* **Freed ids.** `finalizar_hilo` frees `id_hilo`, except the copy a THREAD_CANCEL passes. Whoever
  still reads it reads anything: `IdLeido` is any thread's id or none.
* **Answers.** A CPU that waits (`espera`, `esperaDesalojo`) reads the dispatch connection in order; an
  EJECUTAR at the head is not taken until the previous thread has left, so the answer behind it is not
  read either.
* **Programs.** Any syscall with any argument at any time (`CpuSyscall`), and faults when `Fallos`.
  `Disciplina` restricts programs to `Correcto`: existing mutexes, no cancelling of oneself or of
  a thread that waits for a mutex or a dump, thread 0 ends the process, last.

### How `Memoria` corresponds to the code

* **Requests.** Each request of the kernel is a connection and a thread. `BuscarHueco` and `CrearProceso`
  are the two halves of `atender_creacion_proceso` (the pointer it keeps in between is the id in
  `creacion`); `PedirFinalizacion`, `LiberarParticion`, `QuitarProceso`, `OrdenarParticiones`, the rounds
  `UnificarParticiones` and `FinalizarProceso` are `atender_finalizacion_proceso`, one step per traversal
  of a list; `fase` is the step of each process. The kernel creates one process at a time (it holds
  `mutex_pcb` until the answer).
* **The list.** `particiones` is `lista_particiones` with its order, which the code depends on: a split
  appends, `mostrarParticiones` sorts, the merge looks at neighbours in the list.
* **User space.** Of its bytes only `mayor_direccion_fisica_escrita` is kept; `volcado` is what the last
  dump sent. `EscribirMemoria` is a write of the CPU, with the bounds check of its MMU.
* **Undefined behaviour.** `CrearLiberada` follows a freed pointer: the process gets any base and limit.
  A dump of a negative size ends the module. Both set `indefinido`, after which nothing is explored.
* **EnSerie** lets a request of the kernel in only when the previous one is over. The code does not
  guarantee it (section 5 says what happens without); with it `dinamicas` asks about the algorithm
  itself. `Admision` uses the module without it, on fixed partitions.

### How `Multinivel` corresponds to the code

* **Actors.** `hebras` are the threads of the kernel: 0 the dispatch handler, the others detached (a pass
  of `crear_tcb`, an `atender_io`). An IO is the block, the enqueueing, the look at the size,
  the sleep and the wake-up. `Gestor` is `gestionar_interrupt_quantum`, which reads EXEC when it is woken.
* **A pass** has a step per critical section. `PcpMirar` looks at one queue (`todas_las_colas_estan_vacias`),
  and the pass goes on at the first that has somebody. `PcpTomar` locks EXEC and keeps it only if it is empty. `PcpRecorrer` looks
  at one queue (the filter of `obtener_siguiente_tcb_a_ejecutar_en_CMN`), and goes through all of them. `PcpSacar` takes the first
  of the best of those that had somebody, or NULL, and unlocks EXEC; `PcpEnviar` sends it, `PcpArmar` arms its timer.
  An arrival takes the lock of its own queue only, so it may come between any two of these steps.
  `EnMedio` is who holds `mutex_lista_cola_multinivel`, which a new queue waits for; `Recorre` who holds the lock of EXEC, which
  other passes, the handler (`Atiende`), the eviction, the blocking of an IO and the manager wait for.
  An eviction is two steps, out of EXEC (`Desalojar`) and into its queue (`Reubicar`). `esperaban` is a history variable: who
  was in READY when the pass that has EXEC locked it.
* **Timers.** A timer reads the verificador of its TCB when it starts, not when it is armed; `flag` is
  `flag_cancelar_quantum`, one per TCB, which a later dispatch resets under a timer that still sleeps. As
  verificadores are only compared for equality with the last, a timer is not started, asleep with the last
  one, or stale.
* **CPU.** `CpuRecibe` takes an EJECUTAR, `CpuContexto` posts `llego_contexto_una_vez`, an interruption is
  compared with the context (`InterrupcionLlega`) and marks the flag in another step (`InterrupcionMarca`),
  and the cycle reads the flag twice (`CpuDesaloja`, `CpuSigue`).
* **Hypotheses.** `EnTiempo`: a quantum outlasts a dispatch and an interruption is compared and marked within an
  instruction; without it the interruption manager follows a null pointer or evicts somebody else (section 5),
  and `quantum` runs that way. `EnSerieIO`: nobody starts an IO, nor does a sleep end, while another thread is between its
  addition to the queue and its look at the size.

### How `Admision` corresponds to the code

* **Actors.** The handler in `crear_proceso` and one finalizer per process, each with the step and the
  process it works on (`tarea`); the steps of Memoria are those of `Memoria`, with its table of partitions.
* **State.** The three lists of PCBs with their order, the size and the next tid of each PCB, and the one
  variable `rta_creacion_proceso` that all receive the answer in. `vacia` is a history variable: what NEW was
  before the handler added to it.
* **UnoPorVez** keeps a handler and a finalizer, or two finalizers, from asking Memoria at once, and a
  process from ending before its admission is over. The code does not guarantee it: without it both may ask
  for the same process, and the model stops at the second request (`creacion`).

### How `Cpu` and `Maquina` correspond to the code

* **Cpu.** `paso` is where `atender_hilo_kernel` stands between its semaphores; `contexto` is `un_contexto`;
  `ocupada` joins `instancia_ocupada` and `existe_hilo_a_joinear`. A request to Memoria and its answer are one step,
  as the CPU waits in between. An interruption is compared with the context (`coincide`) in one step and sets
  the flag in another, at any time. Bytes have `VALORES` values and registers `BYTES` bytes, and arithmetic wraps. A write
  puts the bytes of the word one by one, the least first; a read gives the word that has the bytes read, as `memcpy` does.
  That the partitions of the processes do not overlap is an assumption (`ParticionesAssumption`), which
  `MemoriaSinSolapes` proves of the Memoria that hands them out.
* **The kernel** dispatches a thread when EXEC is empty and answers as it likes. One hypothesis: a thread that
  blocked itself (IO, dump) is not dispatched again before the CPU let it go, which a sleep or a dump shorter
  than a message to Memoria would break. One interruption at a time is on its way.
* **Maquina** runs a whole instruction per step, on registers and a memory that nobody else touches; an
  instruction finds the PC already on the next one, as every case of `execute` begins with `PC += 1`. The
  mapping: the registers of a thread are those in `un_contexto` from the moment the CPU loads them until it
  saves them, and those Memoria keeps otherwise; the memory of a process is the part of the user space between
  its base and its limit; a thread has ended when its exit or its fault was sent to the kernel. PROCESS_EXIT ends, as the CPU sees it, only
  the thread that asks.

### How `Bloques` corresponds to the code

A dump is the sequence `LlegaVolcado` (count the free blocks), `BuscarBit` and `MarcarBit` for each data
block and for the index block, `GuardarMetadata`, `EscribirIndice`, `LeerIndice`, `EscribirDato` for each
data block, `ResponderOk`: one step per critical section of `mutex_bitmap` or `mutex_bloquesEnMemoria`.
A block holds who wrote it and which part of what; `Porcion` is the arithmetic that decides what each
data block gets. `Reiniciar` ends the program at any point and starts it again with the mapped files as
they were. `EnSerie` is as in `Memoria`: Memoria opens a connection per dump and nothing puts them in a row.

### What the models leave out

* **Locks by value.** `mutex_lista` functions receive the lock of a list by value, so each call locks a
  copy, and `obtener_fcb` releases `mutex_lista_fcb` twice. Lists change atomically in the models: what two threads
  inside one list operation do to its nodes, and a copy taken while the lock is held, are not modelled.
  Nor is the list of FCBs: a dump finds its own.
* **Threads and Memoria.** `Planificador` creates a process in one step. Memoria answers ERROR to the end of
  a thread only if it does not know it, which `ContextoEnMemoria` shows not to happen; if it refuses a new thread
  the kernel exits, as in `kernel_memoria.c`. Answers other than those of dumps and creations are received by the
  thread that asked, as every request opens a connection of its own.
* **Memoria.** Processes of size 0 are left out by assumption (a hole of size 0 would then share its base
  with a partition, and the order of the sort is the list's), and so are the races inside of one traversal
  (`list_remove` of `lista_procesos_recibidos` without its mutex).
* **Cpu.** Programs end with an exit, do not read 0xFFFFFFFF nor reach the last three bytes of their
  partition, and dispatched threads exist in Memoria; section 5 says what the code does otherwise. The
  arguments of syscalls and the reading of the program's file are left out.
* **Bloques.** Names of files do not repeat (they carry the time), opening and saving the metadata file never
  fails, and the fractions of `modf` are exact.
* **Not modelled.** Sockets, packets and serialization (`utils/shared.c`: messages are values), configuration,
  logs, the start and the end of the modules: I/O and tables whose results are constants of the models.

## 3. Runs

All with 2 workers and no symmetry. `CHECK_DEADLOCK FALSE` everywhere: the system stops when all threads
have ended, or a module has died.

| Run | Instance | What it shows |
|---|---|---|
| `hilos` | `Planificador`, FIFO, 1 process, 3 threads, 1 mutex, undisciplined programs; 812 829 states | types; every thread in one place (`UnHiloUnLugar`); no lost pass (`TrabajoConservado`); nobody sleeps without somebody to wake it (`BloqueadoConMotivo`); owner, waiting lists and the mutexes of each thread agree (`DuenioConsistente`); CPU and kernel agree on who runs, nobody is forgotten in EXEC, one answer per request (`CpuFiel`) |
| `procesos` | `Planificador`, FIFO, 2 processes of 2 threads, 1 partition, faults, refused dumps, requests for what does not exist; fairness; 609 866 states | Memoria knows every thread that may run (`ContextoEnMemoria`); whatever `eliminar_hilos` skips, threads 0 and 1 end with their process (`CeroYUnoTerminan`); no process stays half finalized, also when several finalizers of it compete (`FinalizadorTermina`) |
| `disciplina` | `Planificador`, PRIORIDADES, 3 threads, all syscalls but PROCESS_CREATE, disciplined programs; 1 582 340 states | nothing crashes or hangs (`SinCaidas`), the mutex goes to its first waiter (`MutexAlPrimero`) |
| `progreso` | `Planificador`, PRIORIDADES, 2 threads of 2 priorities, 2 mutexes, disciplined; fairness; 115 239 states | the best of READY is dispatched (`DespachoDelMejor`); every request is answered, heirs get their mutex, joiners and dumpers come back (`RespuestaLlega`, `HeredaMutex`, `JoinDespierta`, `DumpVuelve`) |
| `quantum` | `Multinivel`, 2 threads of one queue, quanta and interruptions at any time; 7.14 million states | types; no pass is lost, whoever emptied EXEC (`TrabajoConservado`) |
| `turnos` | `Multinivel`, 3 threads in 2 queues, quanta on time, IO in series; fairness; 123 245 states | the CPU computes for the thread in EXEC (`EjecucionFiel`); one sleep at a time, none forgotten, no bad pointer (`UnSueno`); nobody that was in READY when the pass locked EXEC is overtaken (`SinAdelantosDesdeElPase`); a turn comes though the others compute for ever (`TurnoLlega`); every IO comes back (`IoVuelve`) |
| `admision` | `Admision`, 4 processes of 2 sizes, 2 fixed partitions, one conversation with Memoria at a time; fairness; 357 787 states | the lists and Memoria's table agree (`MemoriaDeAcuerdo`); nobody waits beside a partition it fits in (`NadieEsperaDeMas`); admission in order (`OrdenDeLlegada`); replanning ends (`FinalizadoSale`) |
| `dinamicas` | `Memoria`, 4 processes of 3 or 5 bytes in 12, best fit, in series; fairness; 67 940 states | partitions neither overlap nor lose a byte (`ParticionesDisjuntas`, `MemoriaCubierta`); nobody is refused while enough contiguous bytes are free (`HuecosAprovechables`); each process has its partition and a dump sends its bytes, through no bad pointer (`VolcadoPropio`); the merge ends (`FinalizacionRespondida`) |
| `reinicios` | `Bloques`, 3 dumps of 1 or 2 blocks in 8, one at a time, restarts at any point; fairness; 347 176 states | a block has one owner and one use (`BloquesExclusivos`); what was answered OK stays readable and nothing is written elsewhere (`ArchivoLegible`); the bitmap has the blocks taken and no other (`BitmapFiel`); a dump that is let in is answered (`VolcadoRespondido`) |
| `programas` | `Cpu`, 3 threads of 2 processes with programs of every kind of instruction, evicted and interrupted anywhere; fairness; 556 272 states | the CPU implements a machine per thread (`ComoSiEstuvieraSolo == Maq!Spec`); every thread dispatched leaves the CPU (`HiloVuelve`) |
| `creacion` | violation | the handler asks for a process though NEW was not empty before it |
| `sobreviviente` | violation, undisciplined programs | thread 2 of a process that asked for PROCESS_EXIT is still alive when its PCB goes to EXIT (`ProcesoSinHilos`) |

**Bounds.** `MaxPid`, `MaxTid`: pids and tids that can be created; a request that would pass them is not
made. Three threads are the least with which one waits, one owns and one cancels, and the least with
which `eliminar_hilos` skips one. Two processes and one partition make one wait in NEW and enter it when
the other ends. Two mutexes in `progreso` allow an owner that dies with two of them. The lists, the messages
and the pending passes are bounded by the threads. `Recursos`, `Prioridades`: names and priorities programs use.

`MaxHebras`, `MaxTemporizadores`, `MaxMensajes`, `MaxCola`, `MaxContextos` bound in `Multinivel` the detached threads,
the timers and interruptions under way, the messages, the queue an evicted thread goes to and the semaphore: a step
that would pass one waits. With one timer asleep and one not started per thread, an old timer, a new one and an
interruption already meet. The bounds are never what stops a thread for ever: `turnos` would see it.

`MaxProcesos`: four make two wait in NEW behind two that run, of sizes such that the first of NEW fits neither
partition while a later one would. Four processes of two sizes are in `dinamicas` enough for a hole between two taken partitions,
one on each side of a process that ends (a merge with both), and a process that is refused and asks again.
`TAM_MEMORIA` of twelve bytes holds three of them. In `Bloques`, two sizes of files with full, part-filled and
unused blocks, and eight blocks, which two files of two data blocks leave too few for a third.

`programas` has `BYTES = 4` bytes of `VALORES = 2` values, so that a word has the width that the code uses
in addresses and sums still wrap; partitions of eight bytes hold two words.

**Fairness** (`Equidad` in each module; `WF_vars(Ciclo)` in `Cpu`): weak fairness of each actor, that is of each
thread of the four programs: the operating system runs every thread that can go on, and `usleep`,
`sem_wait` and `recv` return. The locks are modelled as enabledness and each is held for one step or by
an actor with fairness of its own. The kernel threads of `Multinivel` have strong fairness: the one that waits for
the lock of EXEC or of the list of queues, which others take and release again and again, gets it some time. Programs have no fairness: a thread may compute for ever without
a syscall, except in `programas`, where each instruction ends and the programs are finite. In `Multinivel` the only fairness towards threads is that of the timers, the
interruption manager and the passes: `TurnoLlega` rests on the quantum. `progreso` assumes `Disciplina`,
as undisciplined programs can block the CPU (section 5).

Every property of a passing run is violated by at least one mutant, a plausible slip in the code it is
about; the mutants stand beside the definitions they change.

## 4. Proofs

Each theorem holds for every value of the constants; the assumptions of the modules only say that the
bounds are naturals and the sets are finite sets of the right kind, and in `Cpu` that the partitions do not overlap. Where a theorem has a hypothesis
of its own, the last column has it, and section 5 the state that breaks the property without it.

| Module | Theorem | States | Hypothesis |
|---|---|---|---|
| `PlanificadorProofs` | `TiposCorrectos` | `[]TypeOK` | |
| | `NuevosEsperan` | `[]NuevosSinHilos` | |
| | `UnoSoloCorre` | `[]UnoEnExec` | |
| | `PlanificadorConserva` | `[]TrabajoConservado` | |
| | `CadaHiloEnSuLugar` | `[]UnHiloUnLugar` | |
| | `ContextoSiempre` | `[]ContextoEnMemoria` | |
| | `DespachaElMejor` | `DespachoDelMejor` | |
| | `CeroYUnoAcaban` | `[]CeroYUnoTerminan` | |
| `OrdenProofs` | `NadieOlvidado` | `[]BloqueadoConMotivo` | `FinLimpio` |
| | `MutexesCoherentes` | `[]DuenioConsistente` | `FinLimpio` |
| | `CpuYKernelDeAcuerdo` | `[]CpuFiel` | `FinLimpio` |
| | `DisciplinaSinCaidas` | `[]SinCaidas` | `FinLimpio`, `Disciplina` |
| | `MutexPasaAlPrimero` | `MutexAlPrimero` | `FinLimpio`, `Disciplina` |
| `MultinivelProofs` | `TiposDelMultinivel` | `[]TypeOK` | |
| | `NingunaPasadaSePierde` | `[]TrabajoConservado` | |
| | `NadieAdelanta` | `SinAdelantosDesdeElPase` | |
| | `ElQueComputaEstaEnExec` | `[]EjecucionFiel` | `EnTiempo` |
| | `SeDuermeDeAUno` | `[]UnSueno` | `EnTiempo`, `EnSerieIO` |
| `AdmisionProofs` | `AdmisionEnOrden` | `OrdenDeLlegada` | `UnoPorVez` |
| | `NadieEsperaEnVano` | `[]NadieEsperaDeMas` | `UnoPorVez` |
| | `KernelYMemoriaDeAcuerdo` | `[]MemoriaDeAcuerdo` | `UnoPorVez`, fixed partitions |
| `MemoriaProofs` | `TiposMemoria` | `[]TypeOK` | |
| | `MemoriaSinSolapes` | `[]ParticionesDisjuntas` | |
| | `MemoriaSinPerdidas` | `[]MemoriaCubierta` | |
| | `CadaProcesoConLoSuyo` | `[]VolcadoPropio` | fixed partitions or `EnSerie`, `~VuelcaVacio` |
| | `HuecosSinFragmentar` | `[]HuecosAprovechables` | dynamic partitions, `EnSerie` |
| `BloquesProofs` | `TiposBloques` | `[]TypeOK` | |
| | `BitmapExacto` | `[]BitmapFiel` | |
| | `BloquesSinCompartir` | `[]BloquesExclusivos` | `EnSerie` |
| | `VolcadosLegibles` | `[]ArchivoLegible` | `EnSerie`, `Cabe` |
| `CpuProofs` | `UnaMaquinaPorHilo` | `ComoSiEstuvieraSolo` | `[]AccesosEnteros` |
| | `NadieTocaLoAjeno` | `[][RegistrosDe(h) and Terminado(h) change only in a step of "ciclo" for h]_vars` | |

`UnoPorVez` and `EnSerie` say that one conversation is under way at a time: the kernel has one connection
per request and nothing in it orders them, so they are assumptions about the load, not about the code.
`EnTiempo` and `EnSerieIO` are about speed (section 2): quanta are longer than a dispatch and an IO than the
few instructions between the queue and its size; nothing in the code makes them so.
`VuelcaVacio` allows the dump of a process that never wrote. `Cabe` says that the bitmap has whole bytes
and that the index of a file fits in its block. `AccesosEnteros` says of the programs that no access starts inside of the
partition and ends outside of it, and that no word of all ones is read.
`FinLimpio` says that no process ends while another of its threads is alive: no thread faults (`Fallos`), no dump
is refused (`DumpFalla`), and PROCESS_EXIT is asked for only where programs are disciplined, by thread 0, last.
It is about programs, and `hilos` (where they do anything with mutexes, joins and cancels) and `disciplina` satisfy it.

**Kernel.** The first four theorems of `PlanificadorProofs` follow from one inductive invariant, `IInv`, their
conjunction. The types are not inductive alone: replanning calls `crear_tcb` without asking whether the
process has tids left, so the type of `siguienteTid` (and that of READY) needs that a process in NEW has no
thread, is there once and is not also in memory, which is `NuevosSinHilos`. `UnoEnExec` and
`TrabajoConservado` are inductive given the types: each operation on the lists leaves at most one thread in
EXEC, and leaves READY waiting with EXEC empty (`Vacante`) only if it was so before or the step is that of a
`finalizar_hilo`, whose last step is a pass. Two lemmas say what the scheduler is: the thread chosen is one
of READY with the least number (`ElegidoMinimo`), and a pass leaves no vacancy and touches EXEC only when it
was empty (`PcpCorrecto`).

`Lugares` is inductive given `IInv`: READY, EXEC, BLOCKED, EXIT and what each
`finalizar_hilo` holds share no thread and have between them the threads created; no list has one twice; and
those alive have a context. `UnHiloUnLugar` counts the places of one thread and cannot be carried from step
to step as it stands, as it says nothing of a thread that is twice in one list. Each operation is shown to
move a thread from one place to another, and every other actor keeps what it held (the frame lemmas).
`DespachaElMejor` goes over the steps that send a thread to the CPU: an operation may answer, unblock,
enqueue and dispatch at once, and the thread it sends is compared with those READY has afterwards.

`CeroYUnoAcaban` is about the walk of `eliminar_hilos`, an index against a list that each `finalizar_hilo` shortens,
its own, the handler's and those of other finalizers. Its invariant, `Enlistados`, says where thread 1 is as long as it
lives: first in the list of its process but for thread 0 (`UnoPrimero`), as ids enter it in order and at the end; first
when `FinTomar` has taken thread 0 out; and the index still at 1 as long as it is there, so `FinHilo` takes it. What lets a
step be followed is that a thread out of the lists does not come back (`AcabadosQuedan`, `NadieVuelve`) and that the
process being ended is out of Memoria, so nobody adds to its list
(`PcbsEnSuLugar`). Thread 2 has no such place: when the index passes it depends on who shortens the list, and `sobreviviente`
shows it skipped. It needs no hypothesis, as a process in EXIT is one whose walk did not crash.

**Mutexes, joins, and whose turn it is.** The first three theorems of `OrdenProofs` are about one invariant, `Ordenados`
(`OrdenSiempre`), inductive given the ones above. None of the three properties is inductive, and none can be proved
without the others: whether a thread in BLOCKED has somebody to wake it depends on the owners of the mutexes, these on
who is being finalized, that on which requests can be under way, and the requests on what the CPU waits for.
`Turno` says whose turn it is between the CPU and the kernel, in eight cases: the CPU is free and the next thread is
on its way (`Libre`), a request without answer is (`Pidio`), it runs (`Corriendo`), it waits with its request under way
(`Pidiendo`), with the answer (`Respondido`), with the order to leave (`Cedido`), while another thread is cancelled
(`Cancelando`), or for a thread that no longer lives (`SinHilo`); each case says what is in EXEC, in both directions
of the connection and whether THREAD_CANCEL still owes an answer, and each action goes from a case to another.
`Orden` has seven parts:

* `Finalizados`, `Ids`, `Procesos`: what the PCBs, their lists of ids, the freed ids and the finalizers agree on. A process that is
  being ended has no thread alive but thread 0, which does not run, and whoever reads an id reads one that is not
  freed; this is where `FinLimpio` enters, and what lets every `IdLeido` be the id itself;
* `EnFila`: nobody waits in two queues, of mutexes, of joins of threads alive, or of those a `finalizar_hilo` has
  still to wake up (`Fila` is the family of all of them, and moving between them has lemmas of its own, for
  `SinComunes`); without it, a thread woken up by one would still be waited for by another;
* `Detenidos`, `Dumps`: BLOCKED is those alive that are in a queue or dump, and never both; a thread that has
  asked for a dump stays in EXEC with nothing else under way until the dump blocks it;
* `Duenios`: the mutexes a living thread has in its list are those it owns; between the removal of a thread from
  the lists and the hand-over of its last mutex, what `finalizar_hilo` still holds are those it owns;
  and a mutex with somebody waiting has an owner, alive or about to release it.

The theorems with `Disciplina` have a second invariant on top, `Disciplinados`: nothing has crashed, the CPU waits
only for answers to a thread alive, those that wait for a mutex or a dump are alive, and the request under way was
correct, and still is when it is served. The last is the point: `Correcto` is a condition on the moment a program asks,
and the handler reads the request later, when finalizers, dumps and passes may have moved; the proof shows that none
of them makes a mutex disappear, or puts a thread that is going to be cancelled in the queue of a mutex or in a dump.
With that `SinHilo` and its crossed answers (`SinCaidas`) are out of reach, and a waiter leaves its queue only by a
hand-over (`QuienesTocan`, `ProtocoloHereda`), as nobody who waits is finalized (`MutexAlPrimero`).

**CMN.** The invariant of `MultinivelProofs` has, besides the types, that each queue only has threads of its
priority (without which a pass that takes the first of the best queue could overtake somebody); that the
detached threads, timers and interruptions have the ids their step needs;
and `Contestar`: a request with an answer is under way only while the CPU waits for it, alone, and a
THREAD_CREATE only while a thread is left to create. The last is what types need: the new thread is the
least one not created, which is one only if there is such a thread. `NingunaPasadaSePierde` is
no longer a matter of one moment, since a pass looks at the queues one by one and may leave one behind that is filled right after: the
invariant says that whoever fills a queue or empties EXEC has a pass of its own to come, so that if a pass is past a queue with
somebody another one will look (`PasadaPorVenir`). `NadieAdelanta` follows from who can put a thread in EXEC (`SoloUnaPasada`), a pass,
which takes the first of a queue, and from `Recorridos`: one pass walks at a time and nobody takes threads out
of queues meanwhile, so a queue that had somebody still has; those of `esperaban` are
still in theirs, and the queue of each has been seen with somebody or is yet to be looked at (`PorVer`). Hence the best queue
seen is at least as good as that of any of them.

`EjecucionFiel` looks at one moment of a turn, and its invariant, `EInv`, at the whole of it. `Turnos` gives the
thread in EXEC one stage: taken and not sent, sent, in the CPU, given back, or about to be taken out; the stage
says at once what is in both directions of the connection, what the CPU is doing and which threads of the kernel
have something to do with it, and with EXEC empty none of these has. Each step moves the thread to the next stage
or keeps it (`TurnosIgual`). `UnAviso` says that one interruption at most is on its way, for the thread that
computes, and it needs that this one is still in EXEC when the manager wakes and has not ended when it sends
(`UnLugar`; an evicted thread is in no list between `Desalojar` and `Reubicar`, `EnMano`). `PasadaConAlguien` is about the pass that looked at the queues and has not locked EXEC: if the queues
are empty by then EXEC is taken, by somebody who has not asked for anything. That is what keeps `atender_CMN` from
adding NULL, which `SeDuermeDeAUno` needs. `SuenoEnOrden` adds the IO queue: at most one thread of the kernel is
between it and its size, the one that sleeps has the first request, and one that added the last and finds it alone
is the next to sleep.

**Admission.** `OInv` says that NEW is in the order of creation, that one thread at a time asks for a process
(`UnoPide`), and that it asks for the first of NEW and adds one older than all of NEW (`PidePrimero`). The
process is taken out of NEW at once by position, several messages after it was looked at, so order rests on
NEW having the same first element all that time.

`MemoriaDeAcuerdo` speaks of two modules, so its proof uses that of the other: `AdmisionProofs` instantiates
`MemoriaProofs`, `PasoDeMemoria` shows that each step of the kernel is a step of Memoria or leaves it alone, and
`TInv`, and with fixed partitions the owners of `SInv`, hold in the composition. The invariant of the kernel, `PInv`,
gives each process a stage (`Etapa`: not created, in NEW, entering, inside, leaving, out), which says at once what list
has it, how many threads were created in it, what step its finalizer is at and how far Memoria has gone with it;
and each thread what it knows of the process it asks for (`TareaBien`), so that the answer it reads is that of its
own request. Neither part is inductive without the other: a finalizer that asks changes what is known of the
process of another. At rest a stage leaves only what the property says. With dynamic partitions the proof stops at `SInv`: the search of one
conversation and the merge of another may overlap, as the end of a process is not part of the one `UnoPorVez` speaks
of, and the model ends there (`indefinido`, section 5). `NadieEsperaDeMas` does not need it and holds with both
schemes: `NInv` says that while the first of NEW fits in a free partition somebody is still to look at NEW
(`Atiende`), and that the handler, which does not look again, asks only for a process that is alone in NEW. A refusal
is true when it is given because a search that sees a hole finds one (`AlgunaAsignable`), and a partition is freed
later only by a finalizer that looks at NEW afterwards.

**Memoria.** The first three theorems follow from `TInv`: types, that the limit of a partition is the one its
base and size give (`Forma`, without which a merge, which adds sizes and copies limits, preserves nothing),
that a living process is in the table (`Presentes`), and the two properties. A table is changed in four
ways, each with its lemma: split (`TablaPartida`), joined pair (`TablaUnida`), sorted (`TablaOrdenada`),
marked (`TablaMarcada`). `VolcadoPropio` needs that ids are never given twice, also after a split and a merge
(`IdsDe`), that from the search of a partition to the answer it stays there and free (`Reservada`), that
owners and partitions match in both directions (`Duenios`), and what a write and a dump see of them
(`Escritura`, `Envio`). Sort and merge move partitions, so the invariant speaks of partitions by id and limits,
never by position (`Reducida`). `HuecosAprovechables` needs that free neighbours that touch exist only while a process is being
ended (`SinPegadas`) and that during the rounds of the merge the table is in the order of the bases
(`PorBase`), as the merge only compares consecutive entries; then a run of free bytes lies in one partition,
and a search that sees one big enough finds one (`AlgunaAsignable`). It holds also with `VuelcaVacio`: once
Memoria has died nothing moves. The bases of fixed partitions are the sums of a recursive function; `Induccion` in
`SecuenciasProofs`, which states induction for a set of naturals (the library's theorem takes an operator, which the
provers cannot instantiate), gives that it is one of naturals that grow (`Sumas`), so the partitions read from the
configuration do not overlap. None of them is ever split or joined, so there `VolcadoPropio` needs no order of the requests.

**Filesystem.** `BInv`: types, `BitmapFiel`, that a dump which did not come in has no blocks, and that the
index block is the last one taken (or setting its bit would forget an earlier one). `SInv`, for dumps in
series: at most one is under way, and the bit it found is still free (`SigueLibre`, which two dumps at once
break), so that by `BitmapFiel` no file has the block. `PrimerLibreEsLibre` shows that the search returns a
free bit, by well-foundedness of the naturals. `LInv`, for `ArchivoLegible`, adds that a dump let in has enough
free blocks for all it still has to take (`Alcanzan`, a count: the check of the space and the taking are
different critical sections, and a search that found none would leave the file with a bit of nothing), that it
has all of them when it starts to write (`Tomados`), and what is already on disk in each phase (`Grabado`),
which a later dump keeps because its blocks are others and an index that fits ends in its own block.

**CPU.** `UnaMaquinaPorHilo` is the whole refinement: `Cpu` starts where `Maquina` does and each step of `Cpu` is
one instruction of the machine of the thread in `un_contexto`, or nothing that a thread can see. The registers
of a thread are in two places, `un_contexto` and Memoria, and the invariant `CInv` says which one counts: besides the types, that a thread
whose exit was sent is not dispatched again (`UnaVez`), and that by the time the CPU lets a thread go, on each of the four ways
out of the loop, the context that Memoria has is the last one (`SeGuarda`, with `Guardado`); this is where a missing
`actualizar_contexto` would show. Then one lemma for all the steps a thread does not see (`PasosInvisibles`) and one for each kind
of instruction. Reads and writes need that a word is its bytes: that any bytes are those of a word
(`HayPalabra`) and of one only (`DivisionUnica`), for any width, from division and the powers of `VALORES`.
These are a recursive function, and what is proved of it is proved by induction on the set of naturals that
have the property (`Induccion`), which follows from the well-foundedness of the order and takes no operator as
parameter. The other processes' memory stays as it was because an access that passes the MMU ends inside of the
partition (`AccesosEnteros`) and partitions do not overlap. `AccesosEnteros` is true of all states of the
instance of `programas`; section 5 says what the code does otherwise. `NadieTocaLoAjeno`
needs neither: whatever programs do to memory, no thread's registers are touched but by its own instructions.

**Only model-checked.** The properties under fairness, as liveness and ENABLED are beyond the prover: `FinalizadorTermina`,
`RespuestaLlega`, `HeredaMutex`, `JoinDespierta`, `DumpVuelve`, `TurnoLlega`, `IoVuelve`, `FinalizadoSale`,
`FinalizacionRespondida`, `VolcadoRespondido`, `HiloVuelve`. Every invariant and every action property of the passing
runs is stated by a theorem.

## 5. Where the code and its documentation disagree, and other surprises

The two violation runs, with the lines and the quotations, are the `findings` of `PROJECT.json` ("the statement" is
`src/The Last of C .pdf`). The modules show more, with another value of a constant and a property of a passing run, or
a stronger one:

| Instance | Property that fails | Why |
|---|---|---|
| `hilos` with PROCESS_EXIT and DUMP_MEMORY | `DuenioConsistente` | a dump that ends after its thread was finalized reads the id `finalizar_hilo` freed (`planificador_largo_plazo.c:88`) and may wake a thread that waits for a mutex |
| `hilos` with `Fallos = TRUE` | `CpuFiel` | a segmentation fault of a thread other than 0 is only logged (`kernel_cpu_dispatch.c:121`): EXEC stays taken and the CPU idle. The statement, page 13: "Al recibir el TID del hilo en ejecución con motivo de Segmentation Fault, se procederá a finalizar el proceso" |
| `disciplina` with `Disciplina = FALSE` | `MutexAlPrimero` | a cancelled waiter is still in `lista_bloqueados`, and the unlock follows the NULL of its lookup (`mutex.c:131`), against the comment at `mutex.c:120`: "SI HAY OTRO TCB QUE HAYA PEDIDO EL RECURSO, SE LO ASIGNO AL PRIMERO" |
| `disciplina` with `Disciplina = FALSE`, THREAD_CREATE and MUTEX_LOCK | `SinCaidas` | a lock of a mutex that does not exist is never answered (`kernel_cpu_dispatch.c:238`) and the CPU waits behind the next EJECUTAR |
| `turnos` with MUTEX_UNLOCK | `TurnoLlega` | each MUTEX_UNLOCK cancels the quantum of the thread that runs (`kernel_cpu_dispatch.c:69-73`) and no timer replaces it: one that goes on unlocking is never evicted, against round robin (`src/README.md:15`) and the comment at `planificador_corto_plazo.c:179` |
| `turnos` | `SinAdelantos`, stronger than `SinAdelantosDesdeElPase` | the queues are seen one by one (`cola_multinivel.c:57-65`) and the first of the best seen leaves later (93-95), while an arrival takes only the lock of its queue (`servicios_kernel.c:85-89`): one that comes to a better queue already seen empty is overtaken. The statement, page 11: "El algoritmo entre colas es de prioridades sin desalojo" |
| `turnos` with `EnTiempo = FALSE` | `EjecucionFiel`, `UnSueno` | the interruption manager reads EXEC when it wakes (`kernel_cpu_interrupt.c:10-14`): empty, or another thread |
| `turnos` with `EnSerieIO = FALSE` | `UnSueno` | two requests both see two in the queue, and nobody sleeps (`kernel_cpu_dispatch.c:364`) |
| `admision` with `UnoPorVez = FALSE` | `MemoriaDeAcuerdo` | the answer to a creation is received in one variable (`pcb.c:55`), and two threads ask for the same process |
| `dinamicas` with `EnSerie = FALSE` | `VolcadoPropio` | a process is created in a hole that the end of another joins and frees after the search (`particion.c:163`) |
| `dinamicas` with `VuelcaVacio = TRUE` | `VolcadoPropio` | the dump of a process that never wrote, in a partition with base above 0, asks for a negative size (`memoria_kernel.c:178`): malloc returns NULL and memcpy ends Memoria |
| `reinicios` with `EnSerie = FALSE` | `BloquesExclusivos` | looking for a free bit and setting it are two critical sections (`bloques.c:45`) |
| `reinicios` with `BLOCK_COUNT = 7` | `ArchivoLegible` | the eighth bit of the bitmap is free and is handed out, and there is no such block (`bitmap.c:38`) |
| `reinicios` with files of more than `BLOCK_SIZE / 4` blocks | `ArchivoLegible` | the index is longer than its block and overwrites the next (`bloques.c:111`) |

These follow from the definitions:

* a dump ends at the first byte of the last value written (`Escrito`), and a message of a whole number of
  blocks makes every block left over receive bytes from past its end (`Porcion`, "basura");
* an IO or another syscall that meets an interruption sends both the request and a DESALOJO
  (`cpu_kernel_dispatch.c:257`): the kernel puts the thread in READY anyway;
* between `crear_tcb` and the addition to `lista_pcb_enMemoria` (`pcb.c:61-77`) a process already runs: if
  it ends at once its finalizer does not find it;
* a READ_MEM of the value 0xFFFFFFFF is taken for a fault (`ciclo_instruccion.c:149`), and an access that
  starts inside of the partition and ends outside of it is let through (`mmu.c:11`);
* a program that runs past its last instruction leaves the CPU waiting (`ciclo_instruccion.c:22-26`);
* when Memoria has no context for a thread the CPU asks for the exit of the previous one
  (`cpu_memoria.c:16`), and when it refuses to save one the CPU waits for ever (`cpu_memoria.c:36-44`).

## 6. Plan

In this order:

1. `CerrojosPorValor`: the list operations with their locks, copied by value; the double release of
   `mutex_lista_fcb`, with the list of FCBs.
2. An abstract `Asignador` (bytes of memory belong to a process or are free) implemented by `Memoria`,
   and an abstract scheduler (a thread is READY, RUNNING, BLOCKED or ENDED) implemented by `Planificador`
   and by `Multinivel`.
