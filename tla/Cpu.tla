-------------------------------- MODULE Cpu --------------------------------
(***************************************************************************)
(* The CPU module: the dispatch connection (atender_hilo_kernel and the    *)
(* instruction cycle), the interrupt connection, and its requests to       *)
(* Memoria (contexts, instructions, user space).                           *)
(*                                                                         *)
(* The kernel is what the CPU sees of it: it dispatches a thread when it   *)
(* has none in EXEC, answers the syscalls and may interrupt any thread at  *)
(* any time; a thread comes back to it once for each dispatch.  A request  *)
(* to Memoria and its answer are one step: the CPU waits for it.           *)
(*                                                                         *)
(* PC past the last instruction stops the cycle for ever (fetch sends      *)
(* nothing, sem_fetch is never posted), and so does an access past the end *)
(* of user memory, which is undefined.                                     *)
(***************************************************************************)
EXTENDS Palabras, Sequences

CONSTANTS
  Hilos, Pids, Proceso, Programa,   \* as in Maquina
  Base, Limite,   \* of the partition of each process
  TAM_MEMORIA,    \* bytes of user memory
  Nadie           \* no thread

ASSUME CpuAssumption ==
  /\ Nadie \notin Hilos
  /\ Proceso \in [Hilos -> Pids]
  /\ TAM_MEMORIA \in Nat
  /\ Base \in [Pids -> Nat] /\ Limite \in [Pids -> 0 .. TAM_MEMORIA - 1]

\* The partitions of two processes have no byte in common (Memoria).
ASSUME ParticionesAssumption ==
  /\ \A p \in Pids : Base[p] <= Limite[p]
  /\ \A p, q \in Pids : p # q => Limite[p] < Base[q] \/ Limite[q] < Base[p]

Registros == {"PC", "AX", "BX", "CX", "DX", "EX", "FX", "GX", "HX"}
MenosUno  == Modulo - 1

\* The operations, the registers and the number of the instructions; those an
\* operation does not take are any.
Llamadas  == {"IO", "DUMP_MEMORY", "MUTEX_CREATE", "MUTEX_LOCK", "MUTEX_UNLOCK", "PROCESS_CREATE",
              "PROCESS_EXIT", "THREAD_CREATE", "THREAD_JOIN", "THREAD_CANCEL", "THREAD_EXIT"}
Calculos    == {"SET", "SUM", "SUB", "JNZ", "LOG"}
Operaciones == Llamadas \cup Calculos \cup {"READ_MEM", "WRITE_MEM"}

ASSUME ProgramaAssumption ==
  Programa \in [Hilos -> Seq([op : Operaciones, r : Registros, s : Registros, n : Nat])]

VARIABLES
  registros,       \* Memoria: registers of each t_hilo
  espacio,         \* Memoria: espacio_usuario
  contexto,        \* un_contexto: its thread and its registers
  paso,            \* step of atender_hilo_kernel; "libre": sem_hilo_en_ejecucion_desalojado
  instruccion,     \* nombre_instruccion_enum
  hayExit,         \* hay_exit
  ocupada,         \* instancia_ocupada or existe_hilo_a_joinear
  interruptFlag,   \* interrupt_flag
  interrupcion,    \* thread of the interruption on its way
  coincide,        \* the interruption is of un_contexto, and the flag not set yet
  exec,            \* kernel: EXEC
  pedido,          \* EJECUTAR on its way
  terminados       \* threads that ended

memoria == <<registros, espacio>>
cpu     == <<contexto, paso, instruccion, hayExit, ocupada>>
kernel  == <<exec, pedido, terminados>>
interrupciones == <<interruptFlag, interrupcion, coincide>>
vars == <<memoria, cpu, kernel, interrupciones>>

Init ==
  /\ registros = [h \in Hilos |-> [r \in Registros |-> 0]]
  /\ espacio = [a \in 0 .. TAM_MEMORIA - 1 |-> 0]
  /\ contexto = [hilo |-> Nadie, r |-> [r \in Registros |-> 0]]
  /\ paso = "libre" /\ instruccion = "ninguna"
  /\ hayExit = FALSE /\ ocupada = FALSE
  /\ interruptFlag = FALSE /\ interrupcion = Nadie /\ coincide = FALSE
  /\ exec = Nadie /\ pedido = Nadie /\ terminados = {}
-----------------------------------------------------------------------------
(* The kernel and the interrupt connection.                                *)

\* enviar_tcb_CPU_dispatch: the CPU may still be at the end of the previous cycle.
\* A thread that blocked itself is not back before the CPU let it go (the sleep or
\* the dump outlasts a message to Memoria).
Ejecutar(h) ==
  /\ exec = Nadie /\ pedido = Nadie /\ h \notin terminados
  /\ contexto.hilo = h => paso \in {"libre", "liberar"}
  /\ exec' = h /\ pedido' = h
  /\ UNCHANGED <<memoria, cpu, terminados, interrupciones>>

\* The kernel takes h out of EXEC: bloquear_hilo_en_ejecucion, atender_desalojo.
Devuelve(h) == exec' = IF exec = h THEN Nadie ELSE exec

\* gestionar_interrupt_quantum: of any thread, at any time after the first context
\* (llego_contexto_una_vez).  They are handled one at a time.
Interrumpir(h) ==
  /\ interrupcion = Nadie /\ contexto.hilo # Nadie
  /\ interrupcion' = h
  /\ UNCHANGED <<memoria, cpu, kernel, interruptFlag, coincide>>

\* manejar_interrupcion: it is compared with the context...
CompararInterrupcion ==
  /\ interrupcion # Nadie /\ ~coincide
  /\ coincide' = (interrupcion = contexto.hilo)
  /\ interrupcion' = IF coincide' THEN interrupcion ELSE Nadie
  /\ UNCHANGED <<memoria, cpu, kernel, interruptFlag>>

\* ... and the flag is set afterwards, whichever the context is then.
MarcarInterrupcion ==
  /\ coincide
  /\ interruptFlag' = TRUE /\ interrupcion' = Nadie /\ coincide' = FALSE
  /\ UNCHANGED <<memoria, cpu, kernel>>
-----------------------------------------------------------------------------
(* atender_hilo_kernel.                                                    *)

\* Mutant: the context is asked for before the previous thread is out.
LibreSiempre == paso \in {"libre", "actualizar"}

CpuLibre == paso = "libre"

\* atender_peticion_contexto: what Memoria sends.
ContextoDe(h) == [hilo |-> h, r |-> registros[h]]

\* The semaphore, the request of the context and its arrival.
AtenderHilo ==
  /\ pedido # Nadie /\ CpuLibre
  /\ contexto' = ContextoDe(pedido)
  /\ pedido' = Nadie /\ paso' = "ciclo"
  /\ UNCHANGED <<memoria, instruccion, hayExit, ocupada, exec, terminados, interrupciones>>

PC      == contexto.r["PC"]
MaximoPC == Len(Programa[contexto.hilo]) - 1
Actual  == Programa[contexto.hilo][PC + 1]

\* fetch and decode: the instruction at PC, if there is one.
Busca(ops) == paso = "ciclo" /\ PC <= MaximoPC /\ Actual.op \in ops

\* Every case of execute begins with PC += 1.
Siguiente(r) == [r EXCEPT !["PC"] = @ + 1]

Bloquean  == {"IO", "DUMP_MEMORY"}
Terminan  == {"PROCESS_EXIT", "THREAD_EXIT"}
Desalojan == {"MUTEX_CREATE", "PROCESS_CREATE", "THREAD_CREATE"}

\* The registers after a SET, SUM, SUB, JNZ or LOG.
Calculado ==
  LET x == Actual
      R == Siguiente(contexto.r) IN
  IF x.op = "SET" THEN [R EXCEPT ![x.r] = x.n % Modulo]
  ELSE IF x.op = "SUM" THEN [R EXCEPT ![x.r] = (@ + R[x.s]) % Modulo]
  ELSE IF x.op = "SUB" THEN [R EXCEPT ![x.r] = (@ - R[x.s]) % Modulo]
  ELSE IF x.op = "JNZ" /\ R[x.r] # 0 THEN [R EXCEPT !["PC"] = x.n]
  ELSE R

Calcular ==
  /\ Busca(Calculos)
  /\ contexto' = [contexto EXCEPT !.r = Calculado]
  /\ instruccion' = Actual.op /\ paso' = "controlar"
  /\ UNCHANGED <<memoria, hayExit, ocupada, kernel, interrupciones>>

\* MMU: the physical address of d, none if it returns -1.
MMU(d) ==
  LET p == Proceso[contexto.hilo] IN
  {a \in {Base[p] + d} : d < Limite[p] - Base[p]}

EnEspacio(a) == a + BYTES <= TAM_MEMORIA

\* leer_uint32_de_dir_fisica: the word at address a of user memory.
Palabra(a) == CHOOSE v \in PalabrasEn(espacio, a) : TRUE

\* READ_MEM and WRITE_MEM: the logical address.
DirLogica == Siguiente(contexto.r)[IF Actual.op = "READ_MEM" THEN Actual.s ELSE Actual.r]

\* A word of all ones is taken for the -1 of solicitar_memoria.
ErrorDeAcceso ==
  \/ MMU(DirLogica) = {}
  \/ Actual.op = "READ_MEM" /\ \E a \in MMU(DirLogica) : EnEspacio(a) /\ Palabra(a) = MenosUno

\* atender_SEGMENTATION_FAULT: the context is saved, the process is to end.
SegmentationFault ==
  /\ Busca({"READ_MEM", "WRITE_MEM"}) /\ ErrorDeAcceso
  /\ contexto' = [contexto EXCEPT !.r = Siguiente(@)]
  /\ registros' = [registros EXCEPT ![contexto.hilo] = contexto'.r]
  /\ hayExit' = TRUE
  /\ instruccion' = Actual.op /\ paso' = "controlar"
  /\ UNCHANGED <<espacio, ocupada, kernel, interrupciones>>

LeerMemoria ==
  /\ Busca({"READ_MEM"}) /\ ~ErrorDeAcceso
  /\ \E a \in MMU(DirLogica) :
       /\ EnEspacio(a)
       /\ contexto' = [contexto EXCEPT !.r = [Siguiente(@) EXCEPT ![Actual.r] = Palabra(a)]]
  /\ instruccion' = Actual.op /\ paso' = "controlar"
  /\ UNCHANGED <<memoria, hayExit, ocupada, kernel, interrupciones>>

\* escribir_uint32_en_dir_fisica.
ConPalabra(a, v) ==
  [b \in DOMAIN espacio |-> IF b \in a .. a + BYTES - 1 THEN Byte(v, b - a) ELSE espacio[b]]

EscribirMemoria ==
  /\ Busca({"WRITE_MEM"}) /\ ~ErrorDeAcceso
  /\ contexto' = [contexto EXCEPT !.r = Siguiente(@)]
  /\ \E a \in MMU(DirLogica) :
       /\ EnEspacio(a)
       /\ espacio' = ConPalabra(a, contexto'.r[Actual.s])
  /\ instruccion' = Actual.op /\ paso' = "controlar"
  /\ UNCHANGED <<registros, hayExit, ocupada, kernel, interrupciones>>

\* A syscall is sent to the kernel; those that end the thread only raise hay_exit.
\* The context is saved afterwards.
Llamar ==
  /\ Busca(Llamadas)
  /\ contexto' = [contexto EXCEPT !.r = Siguiente(@)]
  /\ instruccion' = Actual.op
  /\ hayExit' = (Actual.op \in Terminan)
  /\ IF Actual.op \in Bloquean THEN Devuelve(contexto.hilo) ELSE UNCHANGED exec
  /\ paso' = IF Actual.op \in Bloquean \cup Terminan THEN "actualizar" ELSE "respuesta"
  /\ UNCHANGED <<memoria, ocupada, pedido, terminados, interrupciones>>

\* The answer: after a creation the thread has to leave; a lock or a join may be
\* answered DESALOJO, when the kernel has blocked the thread.
RecibirRespuesta ==
  /\ paso = "respuesta"
  /\ \/ /\ instruccion \in {"MUTEX_LOCK", "THREAD_JOIN"}
        /\ ocupada' = TRUE /\ Devuelve(contexto.hilo)
        /\ UNCHANGED interruptFlag
     \/ /\ interruptFlag' = (interruptFlag \/ instruccion \in Desalojan)
        /\ UNCHANGED <<ocupada, exec>>
  /\ paso' = "actualizar"
  /\ UNCHANGED <<memoria, contexto, instruccion, hayExit, pedido, terminados, interrupcion, coincide>>

Guardar == registros' = [registros EXCEPT ![contexto.hilo] = contexto.r]

\* actualizar_contexto, after a syscall.
ActualizarContexto ==
  /\ paso = "actualizar"
  /\ Guardar
  /\ paso' = "controlar"
  /\ UNCHANGED <<espacio, contexto, instruccion, hayExit, ocupada, kernel, interrupciones>>

\* Mutant: the loop goes on after an exit.
SaleSinExit == ocupada \/ instruccion \in Bloquean \/ interruptFlag

\* The breaks of the loop of atender_hilo_kernel.
Sale == hayExit \/ ocupada \/ instruccion \in Bloquean \/ interruptFlag

Controlar ==
  /\ paso = "controlar"
  /\ paso' = IF Sale THEN "desalojar" ELSE "ciclo"
  /\ UNCHANGED <<memoria, contexto, instruccion, hayExit, ocupada, kernel, interrupciones>>

\* After a syscall the context was saved already.
GuardarSiHaceFalta == IF instruccion \in Llamadas THEN UNCHANGED registros ELSE Guardar

\* After the loop: the eviction of an interrupted thread, or the exit.
Desalojar ==
  /\ paso = "desalojar"
  /\ \/ /\ ~hayExit /\ interruptFlag
        /\ GuardarSiHaceFalta
        /\ Devuelve(contexto.hilo)
        /\ UNCHANGED terminados
     \/ /\ ~hayExit /\ ~interruptFlag
        /\ UNCHANGED <<registros, exec, terminados>>
     \/ /\ hayExit
        /\ Devuelve(contexto.hilo) /\ terminados' = terminados \cup {contexto.hilo}
        /\ UNCHANGED registros
  /\ paso' = "liberar"
  /\ UNCHANGED <<espacio, contexto, instruccion, hayExit, ocupada, pedido, interrupciones>>

\* The flags are reset, and the semaphore lets the next thread in.
Liberar ==
  /\ paso = "liberar"
  /\ hayExit' = FALSE /\ ocupada' = FALSE /\ interruptFlag' = FALSE
  /\ paso' = "libre"
  /\ UNCHANGED <<memoria, contexto, instruccion, kernel, interrupcion, coincide>>

Ciclo ==
  \/ AtenderHilo
  \/ Calcular \/ SegmentationFault \/ LeerMemoria \/ EscribirMemoria \/ Llamar
  \/ RecibirRespuesta \/ ActualizarContexto \/ Controlar \/ Desalojar \/ Liberar

Next ==
  \/ \E h \in Hilos : Ejecutar(h) \/ Interrumpir(h)
  \/ CompararInterrupcion \/ MarcarInterrupcion
  \/ Ciclo

\* The threads of the CPU go on, Memoria and the kernel answer.
Spec == Init /\ [][Next]_vars /\ WF_vars(Ciclo)
-----------------------------------------------------------------------------
\* The registers of a thread are in un_contexto from the arrival of its context to
\* the end of its cycle, and in Memoria otherwise.
EnCpu(h) == contexto.hilo = h /\ paso # "libre"

RegistrosDe(h) == IF EnCpu(h) THEN contexto.r ELSE registros[h]
Tamanios == [p \in Pids |-> Limite[p] - Base[p] + 1]
Terminado(h) == h \in terminados \/ (EnCpu(h) /\ hayExit)

Maq == INSTANCE Maquina WITH
  Tamanio    <- Tamanios,
  registros  <- [h \in Hilos |-> RegistrosDe(h)],
  memoria    <- [p \in Pids |-> [d \in 0 .. Limite[p] - Base[p] |-> espacio[Base[p] + d]]],
  terminados <- {h \in Hilos : Terminado(h)}

\* Each thread runs as on a machine of its own: whenever it is interrupted, blocked
\* or dispatched again, no instruction is lost or run twice, no register is another
\* thread's, and only its own process's memory is read or written.
ComoSiEstuvieraSolo == Maq!Spec

\* Every thread that is dispatched leaves the CPU, and the kernel hears of it.
HiloVuelve == \A h \in Hilos : exec = h ~> exec # h
=============================================================================
