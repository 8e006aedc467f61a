----------------------------- MODULE OrdenProofs -----------------------------
(***************************************************************************)
(* Theorems about Planificador when processes end in order: no process     *)
(* ends while another of its threads is alive (FinLimpio).  One inductive  *)
(* invariant, Ordenados, relates the lists of the kernel, the queues of    *)
(* the mutexes and of the joins, the dumps, the finalizers and whose turn  *)
(* it is between the CPU and the kernel.  From it: a thread in BLOCKED     *)
(* waits for something that can still happen, owners and mutexes agree,    *)
(* and the CPU and the kernel agree.  With disciplined programs, moreover, *)
(* nothing crashes or hangs and a mutex goes to the first that waits.      *)
(***************************************************************************)
EXTENDS PlanificadorProofs

\* No process ends while another of its threads is alive: nobody asks for
\* PROCESS_EXIT out of turn, and neither a fault nor a refused dump does.
FinLimpio ==
  /\ Fallos = FALSE /\ DumpFalla = FALSE
  /\ "PROCESS_EXIT" \in Instrucciones => Disciplina = TRUE
-----------------------------------------------------------------------------
(***************************************************************************)
(* Families of queues in which nobody is twice.                            *)
(***************************************************************************)
SinComunes(K, F) ==
  /\ \A k \in K : IsInjective(F[k])
  /\ \A k, l \in K : k # l => ToSet(F[k]) \cap ToSet(F[l]) = {}

Reunion(K, F) == UNION {ToSet(F[k]) : k \in K}

\* The head of a sequence without repetitions is not in its tail.
LEMMA TailElementos ==
  ASSUME NEW S, NEW s \in Seq(S), s # <<>>, IsInjective(s)
  PROVE  /\ Tail(s) \in Seq(S) /\ IsInjective(Tail(s))
         /\ ToSet(Tail(s)) = ToSet(s) \ {Head(s)}
<1>1. s[1] = Head(s) /\ Tail(s) \in Seq(S)
  BY HeadTailProperties
<1>2. RemoveFirst(s, s[1]) = Tail(s)
  BY RemoveFirstCabeza
<1>3. QED
  BY <1>1, <1>2, RemoveFirstElementos

\* The head of a queue of the family leaves it.
LEMMA FamiliaSaca ==
  ASSUME NEW K, NEW F, NEW G, NEW j \in K, NEW w \in ToSet(F[j]), SinComunes(K, F),
         IsInjective(G[j]), ToSet(G[j]) = ToSet(F[j]) \ {w}, \A k \in K : k # j => G[k] = F[k]
  PROVE  SinComunes(K, G) /\ Reunion(K, G) = Reunion(K, F) \ {w}
<1>3. \A k \in K : ToSet(G[k]) = ToSet(F[k]) \ {w}
  <2>1. SUFFICES ASSUME NEW k \in K PROVE ToSet(G[k]) = ToSet(F[k]) \ {w}
    OBVIOUS
  <2>2. CASE k = j
    BY <2>2
  <2>3. CASE k # j
    BY <2>3 DEF SinComunes
  <2>4. QED
    BY <2>2, <2>3
<1>4. \A k \in K : IsInjective(G[k])
  BY DEF SinComunes
<1>5. SinComunes(K, G)
  BY <1>3, <1>4 DEF SinComunes
<1>6. Reunion(K, G) = Reunion(K, F) \ {w}
  <2>1. \A x : x \in Reunion(K, G) <=> \E k \in K : x \in ToSet(F[k]) \ {w}
    BY <1>3 DEF Reunion
  <2>2. QED
    BY <2>1 DEF Reunion
<1>7. QED
  BY <1>5, <1>6

\* Somebody who was in none enters a queue.
LEMMA FamiliaAgrega ==
  ASSUME NEW K, NEW F, NEW G, NEW S, NEW j \in K, F[j] \in Seq(S), NEW h \in S, SinComunes(K, F),
         h \notin Reunion(K, F), \A k \in K : G[k] = IF k = j THEN Append(F[j], h) ELSE F[k]
  PROVE  SinComunes(K, G) /\ Reunion(K, G) = Reunion(K, F) \cup {h}
<1>1. \A k \in K : h \notin ToSet(F[k])
  BY DEF Reunion
<1>2. ToSet(Append(F[j], h)) = ToSet(F[j]) \cup {h} /\ IsInjective(Append(F[j], h))
  BY <1>1, AppendElementos DEF SinComunes
<1>3. \A k \in K : ToSet(G[k]) = IF k = j THEN ToSet(F[j]) \cup {h} ELSE ToSet(F[k])
  BY <1>2
<1>4. \A k \in K : IsInjective(G[k])
  BY <1>2 DEF SinComunes
<1>5. SinComunes(K, G)
  BY <1>1, <1>3, <1>4 DEF SinComunes
<1>6. Reunion(K, G) = Reunion(K, F) \cup {h}
  BY <1>3 DEF Reunion
<1>7. QED
  BY <1>5, <1>6

\* A queue changes its name.
LEMMA FamiliaPasa ==
  ASSUME NEW K, NEW F, NEW G, NEW i \in K, NEW j \in K, i # j, F[j] = <<>>, SinComunes(K, F),
         \A k \in K : G[k] = IF k = j THEN F[i] ELSE IF k = i THEN <<>> ELSE F[k]
  PROVE  SinComunes(K, G) /\ Reunion(K, G) = Reunion(K, F)
<1>1. ToSet(<<>>) = {} /\ IsInjective(<<>>)
  BY VacioElementos
<1>2. \A k \in K : /\ IsInjective(G[k])
                   /\ ToSet(G[k]) = IF k = j THEN ToSet(F[i]) ELSE IF k = i THEN {} ELSE ToSet(F[k])
  BY <1>1 DEF SinComunes
<1>3. SinComunes(K, G)
  BY <1>2 DEF SinComunes
<1>4. Reunion(K, G) = Reunion(K, F)
  <2>1. ASSUME NEW x \in Reunion(K, G) PROVE x \in Reunion(K, F)
    BY <1>2 DEF Reunion
  <2>2. ASSUME NEW x \in Reunion(K, F) PROVE x \in Reunion(K, G)
    <3>1. PICK k \in K : x \in ToSet(F[k])
      BY DEF Reunion
    <3>2. x \in ToSet(G[IF k = i THEN j ELSE k])
      BY <1>1, <1>2, <3>1
    <3>3. QED
      BY <3>2 DEF Reunion
  <2>3. QED
    BY <2>1, <2>2
<1>5. QED
  BY <1>3, <1>4

\* One and the same leaves some of the queues.
LEMMA FamiliaQuita ==
  ASSUME NEW K, NEW F, NEW G, NEW S, NEW h, SinComunes(K, F), \A k \in K : F[k] \in Seq(S),
         \A k \in K : G[k] = F[k] \/ G[k] = RemoveFirst(F[k], h)
  PROVE  SinComunes(K, G) /\ Reunion(K, G) \subseteq Reunion(K, F)
         /\ Reunion(K, F) \ {h} \subseteq Reunion(K, G)
<1>1. \A k \in K : /\ IsInjective(G[k]) /\ ToSet(G[k]) \subseteq ToSet(F[k])
                   /\ ToSet(F[k]) \ {h} \subseteq ToSet(G[k])
  BY RemoveFirstElementos DEF SinComunes
<1>2. SinComunes(K, G)
  BY <1>1 DEF SinComunes
<1>3. Reunion(K, G) \subseteq Reunion(K, F) /\ Reunion(K, F) \ {h} \subseteq Reunion(K, G)
  BY <1>1 DEF Reunion
<1>4. QED
  BY <1>2, <1>3

\* The same queues.
LEMMA FamiliaIgual ==
  ASSUME NEW K, NEW F, NEW G, SinComunes(K, F), \A k \in K : G[k] = F[k]
  PROVE  SinComunes(K, G) /\ Reunion(K, G) = Reunion(K, F)
  BY DEF SinComunes, Reunion
-----------------------------------------------------------------------------
(***************************************************************************)
(* The inductive invariant, part by part.                                  *)
(***************************************************************************)
(* Memoria holds the contexts of the threads alive and no other; a
   finalizar_hilo that frees an id has put its thread in EXIT, and only the
   handler answers. *)
Finalizados ==
  /\ memHilos \subseteq Vivos
  /\ idLiberado \subseteq salidos
  /\ \A e \in Ejecutores :
       /\ fh[e].fase = "nada" => fh[e] = FhNada
       /\ fh[e].fase = "joins" => fh[e].hilo \in salidos /\ fh[e].mutexes = <<>>
       /\ e # Dispatch => fh[e].rta = FALSE

\* A finalizar_proceso that has not reached thread 0 yet, or at all.
PorTerminar(p) == finPend[p] > 0 \/ fin[p].fase \in {"tomar", "hilos"}
Terminando(p)  == PorTerminar(p) \/ fin[p].fase = "cero"

\* Every thread of p but thread 0 is in EXIT.
Solo(p) == \A h \in Vivos \cup Salientes : h[1] = p => h[2] = 0

\* Thread 0 of p is in EXEC, asleep in the CPU, with no message under way.
Apagada(p) ==
  exec = <<<<p, 0>>>> /\ cpu = "libre" /\ aKernel = <<>> /\ aCpu = <<>> /\ dump[<<p, 0>>] = "nada"

(* The list of ids of a process has none twice, only its own, and that of
   thread 0 until it ends or its finalizar_proceso takes it. *)
Ids ==
  \A p \in Pids :
    /\ IsInjective(listaIds[p])
    /\ \A h \in ToSet(listaIds[p]) : h[1] = p /\ (h[2] = 0 \/ h \in Creados)
    /\ \/ <<p, 0>> \in ToSet(listaIds[p]) \/ <<p, 0>> \in salidos
       \/ fin[p].fase \in {"hilos", "cero"} \/ p \in pcbExit

(* The process of a thread alive is in memory, and one being finalized has no
   thread alive but thread 0, which does not run. *)
Procesos ==
  /\ \A h \in Vivos : /\ h[1] \in pcbMem
                      /\ h[1] \in memProc \/ fin[h[1]].fase \in {"tomar", "hilos"}
                      /\ finalizado[h[1]] => PorTerminar(h[1])
  /\ \A p \in pcbExit : p \notin pcbMem /\ p \notin ToSet(pcbNew) /\ p < siguientePid
  /\ \A p \in Pids :
       /\ Terminando(p) => Solo(p) /\ p \in pcbMem
       /\ finalizado[p] => p \in pcbMem \cup pcbExit
       /\ PorTerminar(p) => Apagada(p)
       /\ finPend[p] = 0 \/ (finPend[p] = 1 /\ fin[p].fase = "nada")
       /\ fin[p].fase = "cero" => \A h \in Vivos : h[1] # p
       /\ fin[p].fase = "hilos" => fin[p].cero /\ <<p, 0>> \notin ToSet(listaIds[p])
  /\ \A e \in Ejecutores : fh[e].fase # "nada" =>
       /\ e # Dispatch => fh[e].hilo = <<e, 0>> /\ fin[e].fase = "cero"
       /\ Terminando(fh[e].hilo[1]) => e = fh[e].hilo[1]

\* The queues a thread may wait in: of a mutex, of those that join a thread
\* alive, and of those a finalizar_hilo has still to wake up.
Filas == ({"mutex"} \X Mutexes) \cup ({"join"} \X Hilos) \cup ({"fin"} \X Ejecutores)
Fila ==
  [k \in Filas |->
     IF k[1] = "mutex" THEN bloqueadosMutex[k[2]]
     ELSE IF k[1] = "fin" THEN fh[k[2]].joins
     ELSE IF k[2] \in Vivos THEN esperanJoin[k[2]] ELSE <<>>]

\* Threads in some queue, alive or not.
Esperando == Reunion(Filas, Fila)

\* Nobody is in two queues; a thread not created yet has none and is in none.
EnFila ==
  /\ SinComunes(Filas, Fila)
  /\ Esperando \subseteq Creados
  /\ \A h \in Hilos : h \notin Creados => esperanJoin[h] = <<>> /\ asignados[h] = <<>>
  /\ \A e \in Ejecutores :
       fh[e].fase # "nada" => ToSet(fh[e].joins) \subseteq ToSet(esperanJoin[fh[e].hilo])

\* The threads in BLOCKED are those alive that are in a queue or wait for a dump.
Detenidos ==
  /\ Vivos \cap Esperando \subseteq blocked
  /\ \A h \in Esperando : dump[h] = "nada"
  /\ \A h \in blocked : h \in Esperando \/ dump[h] # "nada"

(* A thread that dumps is in EXEC, with nothing under way, until its dump blocks
   it, and then in BLOCKED; if it is cancelled its id is not freed. *)
Dumps ==
  /\ \A h \in Hilos : dump[h] # "nada" =>
       /\ h \in Creados /\ h \notin idLiberado
       /\ \A e \in Ejecutores : fh[e].fase # "nada" /\ fh[e].hilo = h => fh[e].rta
       /\ dump[h] = "bloquear" => exec = <<h>> /\ aCpu = <<>> /\ aKernel = <<>>
       /\ dump[h] # "bloquear" /\ h \in Vivos => h \in blocked
  /\ \A h \in dumpMem : dump[h] = "pedido"
  /\ rtaDump # "ERROR" /\ \A h \in Hilos : dump[h] = "respondido" => rtaDump = "OK"

\* The mutexes of h, by what is written in them.
Propios(h) == {m \in Mutexes : duenio[m] = h}

(* The owners of the mutexes and the lists of the threads agree, and a mutex with
   waiters has an owner, alive or about to release it. *)
Duenios ==
  /\ \A h \in Vivos : IsInjective(asignados[h]) /\ ToSet(asignados[h]) = Propios(h)
  /\ \A e \in Ejecutores : fh[e].fase # "nada" =>
       /\ IsInjective(fh[e].mutexes) /\ IsInjective(asignados[fh[e].hilo])
       /\ ToSet(fh[e].mutexes) = Propios(fh[e].hilo)
       /\ Propios(fh[e].hilo) \subseteq ToSet(asignados[fh[e].hilo])
  /\ \A m \in Mutexes :
       /\ duenio[m] \in Vivos \cup Salientes \cup {Nadie}
       /\ bloqueadosMutex[m] # <<>> => duenio[m] # Nadie
-----------------------------------------------------------------------------
(***************************************************************************)
(* Whose turn it is: the states of the CPU and of the messages between it  *)
(* and the kernel.                                                         *)
(***************************************************************************)
\* A THREAD_CANCEL has its answer pending.
Cancela == fh[Dispatch].rta

\* The thread of the CPU's context is in EXEC and is not dumping.
EnJuego == exec = <<contexto>> /\ dump[contexto] = "nada"

\* After the messages of resto, the CPU receives the thread in EXEC, if any.
Enviado(resto) ==
  \/ exec = <<>> /\ aCpu = resto
  \/ \E h \in Hilos : exec = <<h>> /\ aCpu = Append(resto, Ejecutar(h)) /\ dump[h] = "nada"

\* A task of the kernel has to take h out of EXEC.
Retenido(h) == dump[h] = "bloquear" \/ (h[2] = 0 /\ PorTerminar(h[1]))

\* The CPU has given its thread back, and the next one is under way if there is any.
Libre ==
  /\ cpu \in {"libre", "guardando"} /\ aKernel = <<>> /\ ~Cancela
  /\ cpu = "guardando" => contexto \in Vivos
  /\ Enviado(<<>>) \/ \E h \in Hilos : exec = <<h>> /\ aCpu = <<>> /\ Retenido(h)

\* The thread has asked for a syscall without answer, or has to leave the CPU.
Pidio ==
  /\ cpu \in {"libre", "guardando"} /\ EnJuego /\ aCpu = <<>> /\ ~Cancela
  /\ aKernel = <<Pedida>> /\ Pedida.op \in {"INSTRUCCION", "DESALOJO"} /\ H = contexto
  /\ Pedida.instr \in SinRespuesta \cup {"NADA"}
  /\ Pedida.op = "DESALOJO" <=> Pedida.instr = "NADA"
  /\ Pedida.instr = "PROCESS_EXIT" => H[2] = 0 /\ Solo(P)
  /\ cpu = "guardando" => Pedida.instr = "DUMP_MEMORY"

Corriendo == cpu = "corriendo" /\ aKernel = <<>> /\ EnJuego /\ aCpu = <<>> /\ ~Cancela

\* The thread has asked for a syscall with an answer.
Pidiendo ==
  /\ cpu \in EsperaRta /\ EnJuego /\ aCpu = <<>> /\ ~Cancela
  /\ aKernel = <<Pedida>> /\ Pedida.op = "INSTRUCCION" /\ H = contexto
  /\ Pedida.instr \in ConRespuesta
  /\ cpu = "esperaDesalojo" <=> Pedida.instr \in ConDesalojo

\* The answer is under way: the thread goes on, or another takes its place.
Respondido == cpu \in EsperaRta /\ aKernel = <<>> /\ ~Cancela /\ EnJuego /\ aCpu = <<Rta("OK")>>
Cedido ==
  /\ cpu = "espera" /\ aKernel = <<>> /\ ~Cancela
  /\ contexto \in Vivos /\ Enviado(<<Rta("DESALOJO")>>)

\* The handler finalizes a thread other than the one that waits for it.
Cancelando == cpu = "espera" /\ aKernel = <<>> /\ EnJuego /\ aCpu = <<>> /\ Cancela

\* The thread of the CPU is finalized with the CPU waiting for an answer.
SinHilo ==
  /\ cpu \in {"espera", "colgada"} /\ aKernel = <<>>
  /\ contexto \in Creados \ Vivos
  /\ Cancela => cpu = "espera"
  /\ \/ Enviado(<<>>)
     \/ /\ ~Cancela /\ cpu = "espera"
        /\ \/ Enviado(<<Rta("OK")>>)
           \/ \E h \in Hilos : exec = <<h>> /\ aCpu = <<Ejecutar(h), Rta("OK")>> /\ dump[h] = "nada"

Turno == Libre \/ Pidio \/ Corriendo \/ Pidiendo \/ Respondido \/ Cedido \/ Cancelando \/ SinHilo

(* The inductive invariant of the kernel and the CPU when no process ends while
   another of its threads is alive. *)
Orden == Finalizados /\ Ids /\ Procesos /\ EnFila /\ Detenidos /\ Dumps /\ Duenios

Ordenados == Turno /\ (EnMarcha => Orden)

\* What is known of a state that takes a step.
Sano == TypeOK /\ UnoEnExec /\ Lugares /\ Orden /\ Turno /\ EnMarcha
-----------------------------------------------------------------------------
(***************************************************************************)
(* Who is alive.                                                           *)
(***************************************************************************)
\* The lists, by who was created and who has ended.
LEMMA VivosSon ==
  ASSUME Lugares
  PROVE  /\ Vivos = Creados \ (salidos \cup Salientes)
         /\ Vivos = Activos(Colas) \cup blocked /\ Activos(Colas) \cap blocked = {}
         /\ ToSet(exec) \subseteq Activos(Colas) /\ ToSet(ready) \subseteq Activos(Colas)
         /\ Vivos \subseteq Creados /\ Creados \subseteq Hilos
         /\ \A e \in Ejecutores : Saliendo(e) \subseteq Creados \ (Vivos \cup salidos)
<1>1. Vivos \cup salidos \cup Salientes = Creados /\ Vivos \cap salidos = {}
  BY DEF Lugares
<1>2. Vivos \cap Salientes = {}
  BY DEF Lugares, Salientes
<1>3. \A e \in Ejecutores : Saliendo(e) \subseteq Salientes
  BY DEF Salientes
<1>4. Creados \subseteq Hilos
  BY DEF Creados
<1>5. \A e \in Ejecutores : Saliendo(e) \cap (Vivos \cup salidos) = {}
  BY DEF Lugares
<1>6. Activos(Colas) \cap blocked = {}
  BY DEF Lugares
<1>7. ToSet(exec) \subseteq Activos(Colas) /\ ToSet(ready) \subseteq Activos(Colas)
  BY DEF Activos, Colas
<1>8. QED
  BY <1>1, <1>2, <1>3, <1>4, <1>5, <1>6, <1>7 DEF Vivos

\* The same, in the next state.
LEMMA VivosSonDespues ==
  ASSUME Lugares'
  PROVE  /\ Vivos' = Creados' \ (salidos' \cup Salientes')
         /\ Vivos' = Activos(Colas') \cup blocked' /\ Activos(Colas') \cap blocked' = {}
         /\ ToSet(exec') \subseteq Activos(Colas') /\ ToSet(ready') \subseteq Activos(Colas')
         /\ Vivos' \subseteq Creados' /\ Creados' \subseteq Hilos
<1>1. Vivos' \cup salidos' \cup Salientes' = Creados' /\ Vivos' \cap salidos' = {}
  BY DEF Lugares
<1>2. Vivos' \cap Salientes' = {}
  BY DEF Lugares, Salientes
<1>4. Creados' \subseteq Hilos
  BY DEF Creados
<1>6. Activos(Colas') \cap blocked' = {}
  BY DEF Lugares
<1>7. ToSet(exec') \subseteq Activos(Colas') /\ ToSet(ready') \subseteq Activos(Colas')
  BY DEF Activos, Colas
<1>8. QED
  BY <1>1, <1>2, <1>4, <1>6, <1>7 DEF Vivos

\* A step that creates and ends nobody.
LEMMA MismaGente ==
  ASSUME Lugares, Lugares', siguienteTid' = siguienteTid, salidos' = salidos,
         \A e \in Ejecutores : Saliendo(e)' = Saliendo(e)
  PROVE  Vivos' = Vivos /\ Creados' = Creados /\ Salientes' = Salientes
<1>1. Creados' = Creados /\ Salientes' = Salientes
  BY DEF Creados, Salientes
<1>2. QED
  BY <1>1, VivosSon, VivosSonDespues

\* Threads neither move, nor are created, nor change finalizar_hilo.
LEMMA MismaGenteFh ==
  ASSUME Lugares, Lugares', siguienteTid' = siguienteTid, salidos' = salidos, fh' = fh
  PROVE  Vivos' = Vivos /\ Creados' = Creados /\ Salientes' = Salientes
  BY MismaGente, MismosSalientes

\* A finalizar_hilo takes a thread alive.
LEMMA UnoMenos ==
  ASSUME TypeOK, Lugares, Lugares', siguienteTid' = siguienteTid, salidos' = salidos,
         NEW e \in Ejecutores, NEW h \in Vivos, NEW r, r.hilo = h, r.fase = "pedido",
         fh[e].fase = "nada", fh' = [fh EXCEPT ![e] = r]
  PROVE  /\ Vivos' = Vivos \ {h} /\ Creados' = Creados /\ Salientes' = Salientes \cup {h}
<1>1. /\ Saliendo(e) = {} /\ Saliendo(e)' = {h}
      /\ \A o \in Ejecutores : o # e => Saliendo(o)' = Saliendo(o)
  BY DEF Saliendo, TypeOK, TipoFin
<1>2. Salientes' = Salientes \cup {h}
  BY <1>1 DEF Salientes
<1>3. Creados' = Creados
  BY DEF Creados
<1>4. QED
  BY <1>2, <1>3, VivosSon, VivosSonDespues

\* crear_tcb adds the next thread of the process.
LEMMA UnoMas ==
  ASSUME TypeOK, Lugares, Lugares', NEW q \in Pids, siguienteTid[q] <= MaxTid,
         siguienteTid' = [siguienteTid EXCEPT ![q] = @ + 1], salidos' = salidos, fh' = fh
  PROVE  /\ <<q, siguienteTid[q]>> \in Hilos \ Creados
         /\ Creados' = Creados \cup {<<q, siguienteTid[q]>>}
         /\ Vivos' = Vivos \cup {<<q, siguienteTid[q]>>}
         /\ Salientes' = Salientes
<1> DEFINE h == <<q, siguienteTid[q]>>
<1>1. siguienteTid[q] \in Nat /\ h \in Hilos
  BY ConstantesTipo DEF TypeOK, TipoPcb, Hilos, Tids
<1>2. h \notin Creados
  BY <1>1 DEF Creados
<1>3. Creados' = Creados \cup {h}
  <2>1. \A o \in Pids : siguienteTid[o] \in Nat /\ siguienteTid[o] \in Int
    BY DEF TypeOK, TipoPcb
  <2>2. \A o \in Pids : siguienteTid'[o] = IF o = q THEN siguienteTid[q] + 1 ELSE siguienteTid[o]
    BY DEF TypeOK, TipoPcb
  <2>3. \A t \in Tids : t < siguienteTid[q] + 1 <=> (t < siguienteTid[q] \/ t = siguienteTid[q])
    BY <2>1, ConstantesTipo
  <2>4. ASSUME NEW o \in Pids, NEW t \in Tids
        PROVE  <<o, t>> \in Creados' <=> (<<o, t>> \in Creados \/ <<o, t>> = h)
    BY <1>1, <2>2, <2>3 DEF Creados, Hilos
  <2>5. \A x \in Hilos : x \in Creados' <=> (x \in Creados \/ x = h)
    BY <2>4 DEF Hilos
  <2>6. Creados \subseteq Hilos /\ Creados' \subseteq Hilos
    BY DEF Creados
  <2>7. QED
    BY <1>1, <2>5, <2>6
<1>4. Salientes' = Salientes
  BY MismosSalientes DEF Salientes
<1>5. h \notin salidos /\ h \notin Salientes
  BY <1>2 DEF Lugares
<1> HIDE DEF h
<1>6. Vivos' = Vivos \cup {h}
  BY <1>3, <1>4, <1>5, VivosSon, VivosSonDespues
<1>7. QED
  BY <1>1, <1>2, <1>3, <1>4, <1>6 DEF h
-----------------------------------------------------------------------------
(***************************************************************************)
(* The queues of the threads.                                              *)
(***************************************************************************)
LEMMA FilaEs ==
  ASSUME TypeOK
  PROVE  /\ \A m \in Mutexes : <<"mutex", m>> \in Filas /\ Fila[<<"mutex", m>>] = bloqueadosMutex[m]
         /\ \A h \in Hilos : /\ <<"join", h>> \in Filas
                             /\ Fila[<<"join", h>>] = IF h \in Vivos THEN esperanJoin[h] ELSE <<>>
         /\ \A e \in Ejecutores : <<"fin", e>> \in Filas /\ Fila[<<"fin", e>>] = fh[e].joins
         /\ \A k \in Filas : \/ \E m \in Mutexes : k = <<"mutex", m>>
                             \/ \E h \in Hilos : k = <<"join", h>>
                             \/ \E e \in Ejecutores : k = <<"fin", e>>
         /\ \A k \in Filas : Fila[k] \in Seq(Hilos \cup {Nadie})
<1>1. /\ \A m \in Mutexes : <<"mutex", m>> \in Filas /\ Fila[<<"mutex", m>>] = bloqueadosMutex[m]
      /\ \A h \in Hilos : /\ <<"join", h>> \in Filas
                          /\ Fila[<<"join", h>>] = IF h \in Vivos THEN esperanJoin[h] ELSE <<>>
      /\ \A e \in Ejecutores : <<"fin", e>> \in Filas /\ Fila[<<"fin", e>>] = fh[e].joins
  BY DEF Filas, Fila
<1>2. \A k \in Filas : \/ \E m \in Mutexes : k = <<"mutex", m>>
                       \/ \E h \in Hilos : k = <<"join", h>>
                       \/ \E e \in Ejecutores : k = <<"fin", e>>
  BY DEF Filas
<1>3. /\ \A m \in Mutexes : bloqueadosMutex[m] \in Seq(Hilos \cup {Nadie})
      /\ \A h \in Hilos : esperanJoin[h] \in Seq(Hilos \cup {Nadie})
      /\ \A e \in Ejecutores : fh[e].joins \in Seq(Hilos \cup {Nadie})
  BY DEF TypeOK, TipoMutex, TipoTcb, TipoFin, FinalizacionesHilo
<1>4. <<>> \in Seq(Hilos \cup {Nadie})
  OBVIOUS
<1>5. ASSUME NEW k \in Filas PROVE Fila[k] \in Seq(Hilos \cup {Nadie})
  <2>1. CASE \E m \in Mutexes : k = <<"mutex", m>>
    <3>1. PICK m \in Mutexes : k = <<"mutex", m>>
      BY <2>1
    <3>2. Fila[k] = bloqueadosMutex[m]
      BY ONLY <1>1, <3>1
    <3>3. QED
      BY ONLY <1>3, <3>1, <3>2
  <2>2. CASE \E h \in Hilos : k = <<"join", h>>
    <3>1. PICK h \in Hilos : k = <<"join", h>>
      BY <2>2
    <3>2. Fila[k] \in {esperanJoin[h], <<>>}
      BY ONLY <1>1, <3>1
    <3>3. QED
      BY ONLY <1>3, <1>4, <3>1, <3>2
  <2>3. CASE \E e \in Ejecutores : k = <<"fin", e>>
    <3>1. PICK e \in Ejecutores : k = <<"fin", e>>
      BY <2>3
    <3>2. Fila[k] = fh[e].joins
      BY ONLY <1>1, <3>1
    <3>3. QED
      BY ONLY <1>3, <3>1, <3>2
  <2>4. QED
    BY <1>2, <2>1, <2>2, <2>3
<1>6. QED
  BY <1>1, <1>2, <1>5

\* The same, in the next state.
LEMMA FilaEsDespues ==
  /\ \A m \in Mutexes : Fila'[<<"mutex", m>>] = bloqueadosMutex'[m]
  /\ \A h \in Hilos : Fila'[<<"join", h>>] = IF h \in Vivos' THEN esperanJoin'[h] ELSE <<>>
  /\ \A e \in Ejecutores : Fila'[<<"fin", e>>] = fh'[e].joins
  BY DEF Filas, Fila

\* No queue changes.
LEMMA FilasIgual ==
  ASSUME TypeOK, EnFila, \A h \in Hilos : Fila'[<<"join", h>>] = Fila[<<"join", h>>],
         bloqueadosMutex' = bloqueadosMutex, \A e \in Ejecutores : fh'[e].joins = fh[e].joins
  PROVE  SinComunes(Filas, Fila') /\ Esperando' = Esperando
<1>1. \A k \in Filas : Fila'[k] = Fila[k]
  BY FilaEs, FilaEsDespues
<1>2. SinComunes(Filas, Fila)
  BY DEF EnFila
<1>3. QED
  BY <1>1, <1>2, FamiliaIgual DEF Esperando

\* The queues of those that join a thread, when nobody is born and nobody ends.
LEMMA JoinsIguales ==
  ASSUME TypeOK, Vivos' = Vivos, esperanJoin' = esperanJoin
  PROVE  \A h \in Hilos : Fila'[<<"join", h>>] = Fila[<<"join", h>>]
  BY FilaEs, FilaEsDespues

\* One of a queue leaves it.
LEMMA FilaSaca ==
  ASSUME NEW j, j \in Filas, NEW w, w \in ToSet(Fila[j]), SinComunes(Filas, Fila), IsInjective(Fila'[j]),
         ToSet(Fila'[j]) = ToSet(Fila[j]) \ {w}, \A k \in Filas : k # j => Fila'[k] = Fila[k]
  PROVE  SinComunes(Filas, Fila') /\ Reunion(Filas, Fila') = Reunion(Filas, Fila) \ {w}
  BY FamiliaSaca

\* The first waiter of a mutex leaves.
LEMMA FilasMutex ==
  ASSUME TypeOK, EnFila, NEW m \in Mutexes, bloqueadosMutex[m] # <<>>,
         bloqueadosMutex' = [bloqueadosMutex EXCEPT ![m] = Tail(@)],
         \A h \in Hilos : Fila'[<<"join", h>>] = Fila[<<"join", h>>],
         \A e \in Ejecutores : fh'[e].joins = fh[e].joins
  PROVE  /\ SinComunes(Filas, Fila') /\ Esperando' = Esperando \ {Head(bloqueadosMutex[m])}
         /\ Head(bloqueadosMutex[m]) \in Esperando
<1> DEFINE j == <<"mutex", m>>
<1>1. j \in Filas /\ Fila[j] = bloqueadosMutex[m] /\ Fila[j] \in Seq(Hilos \cup {Nadie})
  BY FilaEs
<1>2. \A n \in Mutexes : bloqueadosMutex'[n] = IF n = m THEN Tail(bloqueadosMutex[m]) ELSE bloqueadosMutex[n]
  BY DEF TypeOK, TipoMutex
<1>3. \A k \in Filas : Fila'[k] = IF k = j THEN Tail(Fila[j]) ELSE Fila[k]
  BY <1>1, <1>2, FilaEs, FilaEsDespues
<1>4. SinComunes(Filas, Fila) /\ Fila[j] # <<>>
  BY <1>1 DEF EnFila
<1> HIDE DEF j
<1>8. /\ Head(Fila[j]) \in ToSet(Fila[j]) /\ IsInjective(Fila'[j])
      /\ ToSet(Fila'[j]) = ToSet(Fila[j]) \ {Head(Fila[j])}
  BY <1>1, <1>3, <1>4, ToSetTipo, TailElementos DEF SinComunes
<1>5. SinComunes(Filas, Fila') /\ Reunion(Filas, Fila') = Reunion(Filas, Fila) \ {Head(Fila[j])}
  BY <1>1, <1>3, <1>4, <1>8, FilaSaca
<1>6. Head(Fila[j]) \in ToSet(Fila[j])
  BY <1>1, ToSetTipo
<1>7. QED
  BY <1>1, <1>5, <1>6 DEF Esperando, Reunion

\* The first of those a finalizar_hilo has to wake up leaves.
LEMMA FilasFin ==
  ASSUME TypeOK, EnFila, NEW e \in Ejecutores, fh[e].joins # <<>>,
         fh' = [fh EXCEPT ![e].joins = Tail(@)], bloqueadosMutex' = bloqueadosMutex,
         \A h \in Hilos : Fila'[<<"join", h>>] = Fila[<<"join", h>>]
  PROVE  /\ SinComunes(Filas, Fila') /\ Esperando' = Esperando \ {Head(fh[e].joins)}
         /\ Head(fh[e].joins) \in Esperando
<1> DEFINE j == <<"fin", e>>
<1>1. j \in Filas /\ Fila[j] = fh[e].joins /\ Fila[j] \in Seq(Hilos \cup {Nadie})
  BY FilaEs
<1>2. \A o \in Ejecutores : fh'[o].joins = IF o = e THEN Tail(fh[e].joins) ELSE fh[o].joins
  BY DEF TypeOK, TipoFin, FinalizacionesHilo
<1>3. \A k \in Filas : Fila'[k] = IF k = j THEN Tail(Fila[j]) ELSE Fila[k]
  BY <1>1, <1>2, FilaEs, FilaEsDespues
<1>4. SinComunes(Filas, Fila) /\ Fila[j] # <<>>
  BY <1>1 DEF EnFila
<1> HIDE DEF j
<1>8. /\ Head(Fila[j]) \in ToSet(Fila[j]) /\ IsInjective(Fila'[j])
      /\ ToSet(Fila'[j]) = ToSet(Fila[j]) \ {Head(Fila[j])}
  BY <1>1, <1>3, <1>4, ToSetTipo, TailElementos DEF SinComunes
<1>5. SinComunes(Filas, Fila') /\ Reunion(Filas, Fila') = Reunion(Filas, Fila) \ {Head(Fila[j])}
  BY <1>1, <1>3, <1>4, <1>8, FilaSaca
<1>6. Head(Fila[j]) \in ToSet(Fila[j])
  BY <1>1, ToSetTipo
<1>7. QED
  BY <1>1, <1>5, <1>6 DEF Esperando, Reunion

\* A thread starts to wait for a mutex.
LEMMA FilasEntraMutex ==
  ASSUME TypeOK, EnFila, NEW m \in Mutexes, NEW w \in Hilos, w \notin Esperando,
         bloqueadosMutex' = [bloqueadosMutex EXCEPT ![m] = Append(@, w)],
         \A h \in Hilos : Fila'[<<"join", h>>] = Fila[<<"join", h>>],
         fh' = fh
  PROVE  SinComunes(Filas, Fila') /\ Esperando' = Esperando \cup {w}
<1> DEFINE j == <<"mutex", m>>
<1>1. j \in Filas /\ Fila[j] = bloqueadosMutex[m] /\ Fila[j] \in Seq(Hilos \cup {Nadie})
  BY FilaEs
<1>2. \A n \in Mutexes : bloqueadosMutex'[n] = IF n = m THEN Append(bloqueadosMutex[m], w)
                                                        ELSE bloqueadosMutex[n]
  BY DEF TypeOK, TipoMutex
<1>3. \A k \in Filas : Fila'[k] = IF k = j THEN Append(Fila[j], w) ELSE Fila[k]
  BY <1>1, <1>2, FilaEs, FilaEsDespues
<1>4. SinComunes(Filas, Fila) /\ w \notin Reunion(Filas, Fila)
  BY DEF EnFila, Esperando
<1> DEFINE S == Hilos \cup {Nadie}
<1>5. w \in S /\ j \in Filas /\ Fila[j] \in Seq(S)
  BY <1>1
<1> HIDE DEF j, S
<1>6. SinComunes(Filas, Fila') /\ Reunion(Filas, Fila') = Reunion(Filas, Fila) \cup {w}
  BY ONLY <1>3, <1>4, <1>5, FamiliaAgrega
<1>7. QED
  BY <1>6 DEF Esperando

\* A thread joins another, alive.
LEMMA FilasEntraJoin ==
  ASSUME TypeOK, EnFila, NEW t \in Vivos, t \in Hilos, NEW w \in Hilos, w \notin Esperando,
         esperanJoin' = [esperanJoin EXCEPT ![t] = Append(@, w)], Vivos' = Vivos,
         bloqueadosMutex' = bloqueadosMutex, fh' = fh
  PROVE  SinComunes(Filas, Fila') /\ Esperando' = Esperando \cup {w}
<1> DEFINE j == <<"join", t>>
<1>1. j \in Filas /\ Fila[j] = esperanJoin[t] /\ Fila[j] \in Seq(Hilos \cup {Nadie})
  BY FilaEs
<1>2. \A h \in Hilos : esperanJoin'[h] = IF h = t THEN Append(esperanJoin[t], w) ELSE esperanJoin[h]
  BY DEF TypeOK, TipoTcb
<1>3. \A k \in Filas : Fila'[k] = IF k = j THEN Append(Fila[j], w) ELSE Fila[k]
  BY <1>1, <1>2, FilaEs, FilaEsDespues
<1>4. SinComunes(Filas, Fila) /\ w \notin Reunion(Filas, Fila)
  BY DEF EnFila, Esperando
<1> DEFINE S == Hilos \cup {Nadie}
<1>5. w \in S /\ j \in Filas /\ Fila[j] \in Seq(S)
  BY <1>1
<1> HIDE DEF j, S
<1>6. SinComunes(Filas, Fila') /\ Reunion(Filas, Fila') = Reunion(Filas, Fila) \cup {w}
  BY ONLY <1>3, <1>4, <1>5, FamiliaAgrega
<1>7. QED
  BY <1>6 DEF Esperando

\* A finalizar_hilo takes a thread, with those that join it.
LEMMA FilasInicio ==
  ASSUME TypeOK, EnFila, Finalizados, NEW e \in Ejecutores, fh[e].fase = "nada", NEW h \in Vivos,
         h \in Hilos, NEW r, r.joins = esperanJoin[h], fh' = [fh EXCEPT ![e] = r],
         esperanJoin' = esperanJoin, bloqueadosMutex' = bloqueadosMutex, Vivos' = Vivos \ {h}
  PROVE  SinComunes(Filas, Fila') /\ Esperando' = Esperando
<1> DEFINE i == <<"join", h>>
           j == <<"fin", e>>
<1>1. fh[e].joins = <<>>
  BY DEF Finalizados, FhNada
<1>2. i \in Filas /\ j \in Filas /\ i # j /\ Fila[j] = <<>> /\ Fila[i] = esperanJoin[h]
  BY <1>1, FilaEs
<1>3. \A o \in Ejecutores : fh'[o].joins = IF o = e THEN esperanJoin[h] ELSE fh[o].joins
  BY DEF TypeOK, TipoFin
<1>4. \A k \in Filas : Fila'[k] = IF k = j THEN Fila[i] ELSE IF k = i THEN <<>> ELSE Fila[k]
  BY <1>2, <1>3, FilaEs, FilaEsDespues
<1>5. SinComunes(Filas, Fila)
  BY DEF EnFila
<1> HIDE DEF i, j
<1>6. SinComunes(Filas, Fila') /\ Reunion(Filas, Fila') = Reunion(Filas, Fila)
  BY <1>2, <1>4, <1>5, FamiliaPasa
<1>7. QED
  BY <1>6 DEF Esperando

\* A thread being finalized leaves the waiters of mutexes.
LEMMA FilasTomar ==
  ASSUME TypeOK, EnFila, NEW w, NEW M,
         bloqueadosMutex' = [m \in Mutexes |-> IF m \in M THEN RemoveFirst(bloqueadosMutex[m], w)
                                                           ELSE bloqueadosMutex[m]],
         \A h \in Hilos : Fila'[<<"join", h>>] = Fila[<<"join", h>>],
         \A o \in Ejecutores : fh'[o].joins = fh[o].joins
  PROVE  SinComunes(Filas, Fila') /\ Esperando' \subseteq Esperando
         /\ Esperando \ {w} \subseteq Esperando'
<1>1. \A k \in Filas : Fila'[k] = Fila[k] \/ Fila'[k] = RemoveFirst(Fila[k], w)
  BY FilaEs, FilaEsDespues
<1>2. SinComunes(Filas, Fila) /\ \A k \in Filas : Fila[k] \in Seq(Hilos \cup {Nadie})
  BY FilaEs DEF EnFila
<1>3. /\ SinComunes(Filas, Fila') /\ Reunion(Filas, Fila') \subseteq Reunion(Filas, Fila)
      /\ Reunion(Filas, Fila) \ {w} \subseteq Reunion(Filas, Fila')
  BY <1>1, <1>2, FamiliaQuita
<1>4. QED
  BY <1>3 DEF Esperando
-----------------------------------------------------------------------------
(***************************************************************************)
(* Short sequences.                                                        *)
(***************************************************************************)
LEMMA Cortas ==
  ASSUME NEW x, NEW y
  PROVE  /\ <<x>> # <<>> /\ Head(<<x>>) = x /\ Tail(<<x>>) = <<>> /\ ToSet(<<x>>) = {x}
         /\ Append(<<>>, x) = <<x>> /\ Append(<<x>>, y) = <<x, y>>
         /\ <<x, y>> # <<>> /\ Head(<<x, y>>) = x /\ Tail(<<x, y>>) = <<y>>
         /\ RemoveFirst(<<x>>, x) = <<>>
         /\ <<x>> = <<y>> => x = y
<1>1. <<x>> # <<>> /\ Head(<<x>>) = x
  OBVIOUS
<1>9. Append(<<>>, x) = <<x>>
  OBVIOUS
<1>10. Append(<<x>>, y) = <<x, y>>
  <2> DEFINE S == {x, y}
             t == Append(<<x>>, y)
  <2>1. <<x>> \in Seq(S) /\ Len(<<x>>) = 1 /\ <<x>>[1] = x /\ y \in S
    OBVIOUS
  <2> HIDE DEF S
  <2>2. t \in Seq(S) /\ Len(t) = 2 /\ t[1] = x /\ t[2] = y
    BY <2>1, AppendProperties
  <2> HIDE DEF t
  <2>3. t = <<t[1], t[2]>>
    BY <2>2
  <2>4. QED
    BY <2>2, <2>3 DEF t
<1>5. Tail(<<x>>) = <<>>
  OBVIOUS
<1>6. <<x, y>> # <<>> /\ Head(<<x, y>>) = x
  OBVIOUS
<1>7. Tail(<<x, y>>) = <<y>>
  OBVIOUS
<1>8. <<x>> = <<y>> => x = y
  OBVIOUS
<1>2. ToSet(<<x>>) = {x}
  BY DEF ToSet
<1>3. RemoveFirst(<<x>>, x) = <<>>
  <2>1. <<x>> \in Seq({x}) /\ <<x>> # <<>> /\ <<x>>[1] = x
    OBVIOUS
  <2>2. RemoveFirst(<<x>>, <<x>>[1]) = Tail(<<x>>)
    BY <2>1, RemoveFirstCabeza
  <2>3. QED
    BY <1>5, <2>1, <2>2
<1>4. QED
  BY <1>1, <1>2, <1>3, <1>5, <1>6, <1>7, <1>8, <1>9, <1>10

\* EXEC is empty or holds one thread.
LEMMA ExecEs ==
  ASSUME TypeOK, UnoEnExec
  PROVE  exec = <<>> \/ \E h \in Hilos : exec = <<h>> /\ ToSet(exec) = {h}
<1>1. exec \in Seq(Hilos) /\ (Len(exec) = 0 \/ Len(exec) = 1)
  <2>1. exec \in Seq(Hilos) /\ Len(exec) <= 1
    BY DEF TypeOK, TipoListas, UnoEnExec
  <2>2. Len(exec) \in Nat
    BY ONLY <2>1, LenProperties
  <2>3. PICK n \in Nat : n = Len(exec)
    BY ONLY <2>2
  <2>4. n <= 1
    BY ONLY <2>1, <2>3
  <2>5. n = 0 \/ n = 1
    BY ONLY <2>4, n \in Nat
  <2>6. QED
    BY ONLY <2>1, <2>3, <2>5
<1>2. CASE Len(exec) = 0
  BY <1>1, <1>2, EmptySeq
<1>3. CASE Len(exec) = 1
  <2>1. PICK h \in Hilos : h = exec[1]
    BY ONLY <1>1, <1>3, ElementOfSeq
  <2>2. exec = <<h>>
    BY ONLY <1>1, <1>3, <2>1, SeqEqual
  <2>3. QED
    BY ONLY <2>1, <2>2, Cortas
<1>4. QED
  BY <1>1, <1>2, <1>3
-----------------------------------------------------------------------------
(***************************************************************************)
(* What the short-term scheduler does to EXEC and to the CPU.              *)
(***************************************************************************)
\* Nothing; or, with nobody in EXEC, a thread is sent to the CPU.
Despacha(p, q) ==
  \/ q.exec = p.exec /\ q.aCpu = p.aCpu
  \/ p.exec = <<>> /\ \E h \in Hilos : q.exec = <<h>> /\ q.aCpu = Append(p.aCpu, Ejecutar(h))

\* EXEC and the messages to the CPU as a scheduling pass leaves them.
Sigue ==
  \/ exec' = exec /\ aCpu' = aCpu
  \/ exec = <<>> /\ \E h \in Hilos : exec' = <<h>> /\ aCpu' = Append(aCpu, Ejecutar(h))

\* A scheduling pass dispatches only with EXEC empty.
LEMMA PcpSigue ==
  ASSUME NEW p \in ColasDe(Hilos, MensajesCpu), TipoTcb
  PROVE  Despacha(p, Pcp(p, prioridad))
<1>1. CASE p.exec = <<>> /\ p.ready # <<>>
  <2> DEFINE i == Elegido(p.ready, prioridad)
  <2>1. p.ready \in Seq(Hilos) /\ i \in 1 .. Len(p.ready)
    BY <1>1, ElegidoMinimo, PrioridadTipo DEF ColasDe
  <2>2. p.ready[i] \in Hilos
    BY <2>1, ElementOfSeq
  <2>3. /\ Pcp(p, prioridad).exec = Append(<<>>, p.ready[i])
        /\ Pcp(p, prioridad).aCpu = Append(p.aCpu, Ejecutar(p.ready[i]))
    BY <1>1 DEF Pcp
  <2> HIDE DEF i
  <2>4. QED
    BY <1>1, <2>2, <2>3, Cortas DEF Despacha
<1>2. CASE ~(p.exec = <<>> /\ p.ready # <<>>)
  BY <1>2 DEF Pcp, Despacha
<1>3. QED
  BY <1>1, <1>2

\* So does the wake-up of a thread.
LEMMA DesbloquearSigue ==
  ASSUME NEW p \in ColasDe(Hilos, MensajesCpu), TipoTcb, TipoListas, NEW w
  PROVE  Despacha(p, Desbloquear(p, w))
<1>1. CASE w \in blocked
  <2> DEFINE n == Encolar(p, w)
  <2>1. n \in ColasDe(Hilos, MensajesCpu) /\ n.exec = p.exec
    BY <1>1, EncolarEnviarCorrecto DEF TipoListas
  <2>2. n.aCpu = p.aCpu
    BY DEF Encolar, ColasDe
  <2> HIDE DEF n
  <2>3. Despacha(n, Pcp(n, prioridad))
    BY <2>1, PcpSigue
  <2>4. Desbloquear(p, w) = Pcp(n, prioridad)
    BY <1>1 DEF Desbloquear, n
  <2>5. QED
    BY <2>1, <2>2, <2>3, <2>4 DEF Despacha
<1>2. CASE w \notin blocked
  BY <1>2 DEF Desbloquear, Despacha
<1>3. QED
  BY <1>1, <1>2

\* What the lists record of it holds of the variables.
LEMMA SigueDeColas ==
  ASSUME NEW q, Despacha(Colas, q), Quedan(q)
  PROVE  Sigue
  BY DEF Despacha, Quedan, Colas, Sigue

\* Whoever has just been sent to the CPU is not dumping.
LEMMA DespachadoSinDump ==
  ASSUME Dumps', Lugares', NEW h \in Hilos, exec' = <<h>>, aCpu' # <<>>
  PROVE  dump'[h] = "nada"
<1>1. h \in ToSet(exec')
  BY Cortas
<1>2. h \in Vivos' /\ h \notin blocked'
  BY <1>1, VivosSonDespues
<1>3. QED
  BY <1>2 DEF Dumps
-----------------------------------------------------------------------------
(***************************************************************************)
(* Steps that touch little of the invariant.                               *)
(***************************************************************************)
\* A message under way, after a scheduling pass.
LEMMA EnviadoSigue ==
  ASSUME NEW resto, Enviado(resto), Sigue,
         \A h \in Hilos : dump[h] = "nada" => dump'[h] = "nada",
         \A h \in Hilos : exec' # exec /\ exec' = <<h>> => dump'[h] = "nada"
  PROVE  Enviado(resto)'
<1>1. CASE exec' = exec /\ aCpu' = aCpu
  BY <1>1 DEF Enviado
<1>2. CASE exec = <<>> /\ \E h \in Hilos : exec' = <<h>> /\ aCpu' = Append(aCpu, Ejecutar(h))
  <2>1. aCpu = resto
    BY <1>2, Cortas DEF Enviado
  <2>2. PICK h \in Hilos : exec' = <<h>> /\ aCpu' = Append(resto, Ejecutar(h))
    BY <1>2, <2>1
  <2>3. dump'[h] = "nada"
    BY <1>2, <2>2, Cortas
  <2>4. QED
    BY <2>2, <2>3 DEF Enviado
<1>3. QED
  BY <1>1, <1>2 DEF Sigue

(* A step that leaves the CPU, its context and the requests, and touches EXEC
   and the messages to the CPU as a scheduling pass does. *)
LEMMA TurnoSigue ==
  ASSUME TypeOK, Turno, UNCHANGED <<cpu, contexto, aKernel>>, Sigue,
         fh'[Dispatch].rta = fh[Dispatch].rta,
         \A h \in Hilos : dump[h] \in {"nada", "bloquear"} => dump'[h] = dump[h],
         \A h \in Hilos : exec' # exec /\ exec' = <<h>> => dump'[h] = "nada",
         contexto \in Vivos => contexto \in Vivos', contexto \in Creados \ Vivos => contexto \in Creados' \ Vivos',
         \A p \in Pids : PorTerminar(p)' <=> PorTerminar(p),
         \A p \in Pids : Solo(p) => Solo(p)'
  PROVE  Turno'
<1>1. Cancela' = Cancela
  BY DEF Cancela
<1>2. ASSUME NEW resto, Enviado(resto) PROVE Enviado(resto)'
  BY <1>2, EnviadoSigue
<1>3. ASSUME NEW h \in Hilos, exec = <<h>>
      PROVE  exec' = exec /\ aCpu' = aCpu
  BY <1>3, Cortas DEF Sigue
<1>4. \A h \in Hilos : Retenido(h) => Retenido(h)'
  <2>1. \A h \in Hilos : h[1] \in Pids
    BY DEF Hilos
  <2>2. QED
    BY <2>1 DEF Retenido
<1>5. ASSUME EnJuego PROVE EnJuego' /\ exec' = exec /\ aCpu' = aCpu
  <2>1. exec = <<contexto>> /\ contexto \in Hilos
    BY <1>5, Cortas DEF EnJuego, TypeOK, TipoListas
  <2>2. QED
    BY <1>3, <1>5, <2>1 DEF EnJuego
<1>6. CASE Libre
  <2>1. Enviado(<<>>)' \/ \E h \in Hilos : exec' = <<h>> /\ aCpu' = <<>> /\ Retenido(h)'
    BY <1>2, <1>3, <1>4, <1>6 DEF Libre
  <2>2. Libre'
    BY <1>1, <1>6, <2>1 DEF Libre
  <2>3. QED
    BY <2>2 DEF Turno
<1>7. CASE Pidio
  <2>1. H \in Hilos /\ P \in Pids
    BY <1>7 DEF Pidio, EnJuego, Hilos, TypeOK, TipoListas, P, H
  <2>2. Pidio'
    BY <1>1, <1>5, <1>7, <2>1 DEF Pidio, Pedida, H, P
  <2>3. QED
    BY <2>2 DEF Turno
<1>8. CASE Corriendo
  <2>1. Corriendo'
    BY <1>1, <1>5, <1>8 DEF Corriendo
  <2>2. QED
    BY <2>1 DEF Turno
<1>9. CASE Pidiendo
  <2>1. Pidiendo'
    BY <1>1, <1>5, <1>9 DEF Pidiendo, Pedida, H
  <2>2. QED
    BY <2>1 DEF Turno
<1>10. CASE Respondido
  <2>1. Respondido'
    BY <1>1, <1>5, <1>10 DEF Respondido
  <2>2. QED
    BY <2>1 DEF Turno
<1>11. CASE Cedido
  <2>1. Cedido'
    BY <1>1, <1>2, <1>11 DEF Cedido
  <2>2. QED
    BY <2>1 DEF Turno
<1>12. CASE Cancelando
  <2>1. Cancelando'
    BY <1>1, <1>5, <1>12 DEF Cancelando
  <2>2. QED
    BY <2>1 DEF Turno
<1>13. CASE SinHilo
  <2>1. \/ Enviado(<<>>)'
        \/ /\ ~Cancela /\ cpu = "espera"
           /\ \/ Enviado(<<Rta("OK")>>)'
              \/ \E h \in Hilos : exec' = <<h>> /\ aCpu' = <<Ejecutar(h), Rta("OK")>> /\ dump'[h] = "nada"
    BY <1>2, <1>3, <1>13 DEF SinHilo
  <2>2. SinHilo'
    BY <1>1, <1>13, <2>1 DEF SinHilo
  <2>3. QED
    BY <2>2 DEF Turno
<1>14. QED
  BY <1>6, <1>7, <1>8, <1>9, <1>10, <1>11, <1>12, <1>13 DEF Turno

(* The clauses about processes, when no list of the kernel gains anybody: a
   finalizar_hilo that starts is the handler's, of a process not being finalized. *)
LEMMA ProcesosIgual ==
  ASSUME Procesos, UNCHANGED <<pcbMem, pcbExit, pcbNew, siguientePid, memProc, finalizado, finPend, fin>>,
         \A p \in Pids : ToSet(listaIds'[p]) \subseteq ToSet(listaIds[p]),
         Vivos' \subseteq Vivos, Salientes' \subseteq Vivos \cup Salientes, Vivos \subseteq Hilos,
         \A e \in Ejecutores : fh'[e].fase # "nada" =>
           \/ fh[e].fase # "nada" /\ fh'[e].hilo = fh[e].hilo
           \/ e = Dispatch /\ ~Terminando(fh'[e].hilo[1]),
         \A p \in Pids : PorTerminar(p) => Apagada(p)'
  PROVE  Procesos'
<1>1. \A h \in Hilos : h[1] \in Pids
  BY DEF Hilos
<1>2. \A p : (PorTerminar(p)' <=> PorTerminar(p)) /\ (Terminando(p)' <=> Terminando(p))
  BY DEF PorTerminar, Terminando
<1>3. \A p : Solo(p) => Solo(p)'
  BY DEF Solo
<1>4. \A h \in Vivos' : /\ h[1] \in pcbMem'
                        /\ h[1] \in memProc' \/ fin'[h[1]].fase \in {"tomar", "hilos"}
                        /\ finalizado'[h[1]] => PorTerminar(h[1])'
  BY <1>2 DEF Procesos
<1>5. \A p \in pcbExit' : p \notin pcbMem' /\ p \notin ToSet(pcbNew') /\ p < siguientePid'
  BY DEF Procesos
<1>6. \A p \in Pids :
       /\ Terminando(p)' => Solo(p)' /\ p \in pcbMem'
       /\ finalizado'[p] => p \in pcbMem' \cup pcbExit'
       /\ PorTerminar(p)' => Apagada(p)'
       /\ finPend'[p] = 0 \/ (finPend'[p] = 1 /\ fin'[p].fase = "nada")
       /\ fin'[p].fase = "cero" => \A h \in Vivos' : h[1] # p
       /\ fin'[p].fase = "hilos" => fin'[p].cero /\ <<p, 0>> \notin ToSet(listaIds'[p])
  BY <1>2, <1>3 DEF Procesos
<1>7. \A e \in Ejecutores : fh'[e].fase # "nada" =>
       /\ e # Dispatch => fh'[e].hilo = <<e, 0>> /\ fin'[e].fase = "cero"
       /\ \A p : p = fh'[e].hilo[1] /\ Terminando(p)' => e = p
  BY <1>2 DEF Procesos
<1>8. QED
  BY <1>4, <1>5, <1>6, <1>7 DEF Procesos

\* The clauses about dumps, when nobody asks for one and none goes on.
LEMMA DumpsIgual ==
  ASSUME Dumps, UNCHANGED <<dump, dumpMem, rtaDump>>, Creados \subseteq Creados',
         \A h \in Hilos : dump[h] # "nada" /\ h \notin idLiberado => h \notin idLiberado',
         \A e \in Ejecutores : fh'[e].fase # "nada" /\ dump[fh'[e].hilo] # "nada" =>
           \/ fh'[e].rta
           \/ fh[e].fase # "nada" /\ fh'[e].hilo = fh[e].hilo /\ fh'[e].rta = fh[e].rta,
         \A h \in Hilos : dump[h] = "bloquear" => exec' = <<h>> /\ aCpu' = <<>> /\ aKernel' = <<>>,
         \A h \in Hilos : dump[h] \notin {"nada", "bloquear"} /\ h \in Vivos' => h \in blocked'
  PROVE  Dumps'
<1>1. \A h \in Hilos : dump[h] # "nada" => \A e \in Ejecutores : fh'[e].fase # "nada" /\ fh'[e].hilo = h => fh'[e].rta
  BY DEF Dumps
<1>2. QED
  BY <1>1 DEF Dumps

\* A step that touches no more than READY, EXEC, the CPU and the messages.
LEMMA OrdenIgual ==
  ASSUME Sano, TypeOK', Lugares',
         UNCHANGED <<blocked, salidos, asignados, esperanJoin, pcbNew, pcbMem, pcbExit, siguientePid,
                     siguienteTid, listaIds, finalizado, duenio, bloqueadosMutex, fh, finPend, fin,
                     dump, rtaDump, idLiberado, memProc, memHilos, dumpMem>>,
         \A p \in Pids : PorTerminar(p) => Apagada(p)',
         \A h \in Hilos : dump[h] = "bloquear" => exec' = <<h>> /\ aCpu' = <<>> /\ aKernel' = <<>>
  PROVE  /\ Orden'
         /\ Vivos' = Vivos /\ Creados' = Creados /\ Salientes' = Salientes
         /\ \A p \in Pids : PorTerminar(p)' <=> PorTerminar(p)
         /\ \A p \in Pids : Solo(p) => Solo(p)'
<1>1. Lugares /\ TypeOK
  BY DEF Sano
<1>2. Vivos' = Vivos /\ Creados' = Creados /\ Salientes' = Salientes /\ Vivos \subseteq Hilos
  BY <1>1, MismaGenteFh, VivosSon
<1>3. Finalizados'
  BY <1>2 DEF Sano, Orden, Finalizados
<1>4. Ids'
  BY <1>2 DEF Sano, Orden, Ids
<1>5. Procesos'
  BY <1>2, ProcesosIgual DEF Sano, Orden
<1>6. EnFila' /\ Esperando' = Esperando
  <2>1. EnFila
    BY DEF Sano, Orden
  <2>2. SinComunes(Filas, Fila') /\ Esperando' = Esperando
    BY <1>1, <1>2, <2>1, JoinsIguales, FilasIgual
  <2>3. SinComunes(Filas, Fila)'
    BY <2>2 DEF Filas
  <2>4. QED
    BY <1>2, <2>1, <2>2, <2>3 DEF EnFila
<1>7. Detenidos'
  BY <1>2, <1>6 DEF Sano, Orden, Detenidos
<1>8. Dumps'
  <2>1. \A h \in Hilos : dump[h] \notin {"nada", "bloquear"} /\ h \in Vivos' => h \in blocked'
    BY <1>2 DEF Sano, Orden, Dumps
  <2>2. QED
    BY <1>2, <2>1, DumpsIgual DEF Sano, Orden
<1>9. Duenios'
  BY <1>2 DEF Sano, Orden, Duenios, Propios
<1>10. \A p \in Pids : (PorTerminar(p)' <=> PorTerminar(p)) /\ (Solo(p) => Solo(p)')
  BY <1>2 DEF PorTerminar, Solo
<1>11. QED
  BY <1>2, <1>3, <1>4, <1>5, <1>6, <1>7, <1>8, <1>9, <1>10 DEF Orden

\* With the CPU at work, or a message under way, no thread in EXEC waits for a task.
LEMMA Ocupado ==
  ASSUME Sano, ~Libre \/ aCpu # <<>> \/ aKernel # <<>>
  PROVE  /\ \A p \in Pids : ~PorTerminar(p)
         /\ \A h \in Hilos : dump[h] # "bloquear"
<1>1. ASSUME NEW p \in Pids, PorTerminar(p) PROVE FALSE
  <2>1. Apagada(p)
    BY <1>1 DEF Sano, Orden, Procesos
  <2>2. exec = <<<<p, 0>>>> /\ cpu = "libre" /\ aKernel = <<>> /\ aCpu = <<>>
    BY <2>1 DEF Apagada
  <2>3. ~Libre
    BY <2>2
  <2>4. QED
    BY <2>2, <2>3, Cortas DEF Sano, Turno, Pidio, Corriendo, Pidiendo, Respondido, Cedido, Cancelando,
       SinHilo, EsperaRta
<1>2. ASSUME NEW h \in Hilos, dump[h] = "bloquear" PROVE FALSE
  <2>1. exec = <<h>> /\ aCpu = <<>> /\ aKernel = <<>>
    BY <1>2 DEF Sano, Orden, Dumps
  <2>2. ~Libre /\ ~EnJuego
    BY <1>2, <2>1, Cortas DEF EnJuego
  <2>3. \A m : ~Enviado(<<m>>)
    <3>1. \A o : <<o>> # <<>> /\ Append(<<>>, o) = <<o>>
      BY Cortas
    <3>2. ASSUME NEW m, Enviado(<<m>>) PROVE FALSE
      <4>1. \E o : aCpu = Append(<<m>>, o)
        BY <2>1, <3>1, <3>2 DEF Enviado
      <4>2. QED
        BY <2>1, <4>1, Cortas
    <3>3. QED
      BY <3>2
  <2>4. ~Enviado(<<>>)
    BY <2>1, Cortas DEF Enviado
  <2>5. QED
    BY <2>1, <2>2, <2>3, <2>4, Cortas DEF Sano, Turno, Pidio, Corriendo, Pidiendo, Respondido, Cedido,
       Cancelando, SinHilo, EsperaRta
<1>3. QED
  BY <1>1, <1>2

\* What the CPU is going to receive.
LEMMA EnviadoEs ==
  ASSUME NEW m
  PROVE  /\ Enviado(<<>>) <=> \/ exec = <<>> /\ aCpu = <<>>
                              \/ \E h \in Hilos : exec = <<h>> /\ aCpu = <<Ejecutar(h)>> /\ dump[h] = "nada"
         /\ Enviado(<<m>>) <=> \/ exec = <<>> /\ aCpu = <<m>>
                               \/ \E h \in Hilos : exec = <<h>> /\ aCpu = <<m, Ejecutar(h)>> /\ dump[h] = "nada"
<1>1. \A h : Append(<<>>, Ejecutar(h)) = <<Ejecutar(h)>> /\ Append(<<m>>, Ejecutar(h)) = <<m, Ejecutar(h)>>
  BY Cortas
<1>2. QED
  BY <1>1 DEF Enviado
-----------------------------------------------------------------------------
(***************************************************************************)
(* The detached passes and the CPU.                                        *)
(***************************************************************************)
\* Who waits for a task keeps EXEC while the scheduler only adds to it.
LEMMA QuietoSigue ==
  ASSUME Sano, Sigue, UNCHANGED <<cpu, aKernel>>,
         \A h \in Hilos : dump[h] = "nada" => dump'[h] = "nada"
  PROVE  /\ \A p \in Pids : PorTerminar(p) => Apagada(p)'
         /\ \A h \in Hilos : dump[h] = "bloquear" => exec' = <<h>> /\ aCpu' = <<>> /\ aKernel' = <<>>
<1>1. \A x : <<x>> # <<>>
  OBVIOUS
<1>2. ASSUME NEW p \in Pids, PorTerminar(p) PROVE Apagada(p)'
  <2>1. Apagada(p)
    BY <1>2 DEF Sano, Orden, Procesos
  <2>2. <<p, 0>> \in Hilos
    BY ConstantesTipo DEF Hilos
  <2>3. QED
    BY <1>1, <2>1, <2>2 DEF Apagada, Sigue
<1>3. \A h \in Hilos : dump[h] = "bloquear" => exec' = <<h>> /\ aCpu' = <<>> /\ aKernel' = <<>>
  BY <1>1 DEF Sano, Orden, Dumps, Sigue
<1>4. QED
  BY <1>2, <1>3

\* A detached scheduling pass.
LEMMA PcpSueltoOrden ==
  ASSUME Sano, TypeOK', Lugares', PcpSuelto
  PROVE  Ordenados'
<1>1. Sigue
  <2>1. Despacha(Colas, Pcp(Colas, prioridad))
    BY ColasTipo, PcpSigue DEF Sano, TypeOK
  <2>2. Quedan(Pcp(Colas, prioridad))
    BY DEF PcpSuelto
  <2>3. QED
    BY <2>1, <2>2, SigueDeColas
<1>2. /\ UNCHANGED <<cpu, contexto, aKernel, caido, fh, dump>>
      /\ UNCHANGED <<blocked, salidos, asignados, esperanJoin, pcbNew, pcbMem, pcbExit, siguientePid,
                     siguienteTid, listaIds, finalizado, duenio, bloqueadosMutex, fh, finPend, fin,
                     dump, rtaDump, idLiberado, memProc, memHilos, dumpMem>>
  BY DEF PcpSuelto, vCpu, vTcb, vPcb, vMutex, vFin, vDump, vMemoria
<1>3. /\ \A p \in Pids : PorTerminar(p) => Apagada(p)'
      /\ \A h \in Hilos : dump[h] = "bloquear" => exec' = <<h>> /\ aCpu' = <<>> /\ aKernel' = <<>>
  BY <1>1, <1>2, QuietoSigue
<1>4. /\ Orden'
      /\ Vivos' = Vivos /\ Creados' = Creados /\ Salientes' = Salientes
      /\ \A p \in Pids : PorTerminar(p)' <=> PorTerminar(p)
      /\ \A p \in Pids : Solo(p) => Solo(p)'
  BY <1>2, <1>3, OrdenIgual
<1>5. ASSUME NEW h \in Hilos, exec' # exec, exec' = <<h>> PROVE dump'[h] = "nada"
  <2>1. aCpu' # <<>>
    <3>1. aCpu \in Seq(MensajesCpu) /\ Ejecutar(h) \in MensajesCpu /\ \A g \in Hilos : Ejecutar(g) \in MensajesCpu
      BY MensajesCpuTipo DEF Sano, TypeOK, TipoListas
    <3>2. \A g \in Hilos : Append(aCpu, Ejecutar(g)) # <<>>
      BY <3>1, AppendSeq
    <3>3. QED
      BY <1>1, <1>5, <3>2 DEF Sigue
  <2>2. QED
    BY <1>4, <1>5, <2>1, DespachadoSinDump DEF Orden
<1>6. Turno'
  BY <1>1, <1>2, <1>4, <1>5, TurnoSigue DEF Sano
<1>7. QED
  BY <1>4, <1>6 DEF Ordenados

\* The thread of the CPU, in EXEC, is alive and in Memoria.
LEMMA EnJuegoVive ==
  ASSUME Sano, EnJuego
  PROVE  contexto \in Hilos /\ contexto \in Vivos /\ contexto \in memHilos /\ contexto \notin blocked
<1>1. contexto \in ToSet(exec) /\ ToSet(exec) \subseteq Vivos /\ Vivos \subseteq Hilos /\ Vivos \subseteq memHilos
  BY Cortas, VivosSon DEF EnJuego, Sano, Lugares
<1>2. contexto \notin blocked
  BY <1>1, VivosSon DEF Sano, EnJuego
<1>3. QED
  BY <1>1, <1>2

\* What the steps of the CPU leave.
LEMMA CpuOrden ==
  ASSUME Sano, TypeOK', Lugares', ~Libre \/ aCpu # <<>>,
         UNCHANGED <<vListas, vTcb, vPcb, vMutex, pcpPend, fh, vFin, vDump, vMemoria, caido>>
  PROVE  /\ Orden'
         /\ Vivos' = Vivos /\ Creados' = Creados /\ Salientes' = Salientes
         /\ \A p \in Pids : PorTerminar(p)' <=> PorTerminar(p)
         /\ \A p \in Pids : Solo(p) => Solo(p)'
         /\ UNCHANGED <<exec, dump, fh>>
<1>1. UNCHANGED <<exec, blocked, salidos, asignados, esperanJoin, pcbNew, pcbMem, pcbExit, siguientePid,
                  siguienteTid, listaIds, finalizado, duenio, bloqueadosMutex, fh, finPend, fin,
                  dump, rtaDump, idLiberado, memProc, memHilos, dumpMem>>
  BY DEF vListas, vTcb, vPcb, vMutex, vFin, vDump, vMemoria
<1>2. /\ \A p \in Pids : ~PorTerminar(p)
      /\ \A h \in Hilos : dump[h] # "bloquear"
  BY Ocupado
<1>3. QED
  BY <1>1, <1>2, OrdenIgual

\* The CPU takes the thread it is given.
LEMMA CpuRecibeEjecutarOrden ==
  ASSUME Sano, TypeOK', Lugares', CpuRecibeEjecutar
  PROVE  Ordenados'
<1>1. /\ cpu = "libre" /\ aCpu # <<>> /\ Head(aCpu).op = "EJECUTAR" /\ aCpu' = Tail(aCpu)
      /\ UNCHANGED <<vListas, vTcb, vPcb, vMutex, pcpPend, fh, vFin, vDump, vMemoria, caido>>
  BY DEF CpuRecibeEjecutar
<1>2. Libre
  BY <1>1 DEF Sano, Turno, Pidio, Corriendo, Pidiendo, Respondido, Cedido, Cancelando, SinHilo, EsperaRta
<1>3. PICK h \in Hilos : exec = <<h>> /\ aCpu = <<Ejecutar(h)>> /\ dump[h] = "nada"
  BY <1>1, <1>2, Cortas DEF Libre, Enviado
<1>4. h \in Vivos /\ h \in memHilos
  BY <1>3, Cortas, VivosSon DEF Sano, Lugares
<1>5. h[1] \in memProc
  <2>1. h[1] \in Pids
    BY DEF Hilos
  <2>2. ~PorTerminar(h[1])
    BY <1>1, <2>1, Ocupado
  <2>3. QED
    BY <1>4, <2>2 DEF PorTerminar, Sano, Orden, Procesos
<1>6. cpu' = "corriendo" /\ contexto' = h /\ aKernel' = aKernel /\ aCpu' = <<>>
  <2>1. Head(aCpu) = Ejecutar(h) /\ Tail(aCpu) = <<>>
    BY <1>3, Cortas
  <2>2. Head(aCpu).hilo = h
    BY <2>1 DEF Ejecutar
  <2>3. QED
    BY <1>1, <1>4, <1>5, <2>1, <2>2 DEF CpuRecibeEjecutar
<1>7. Orden' /\ UNCHANGED <<exec, dump, fh>>
  BY <1>1, CpuOrden
<1>8. Corriendo'
  BY <1>2, <1>3, <1>6, <1>7 DEF Libre, Corriendo, EnJuego, Cancela
<1>9. QED
  BY <1>7, <1>8 DEF Ordenados, Turno

\* With cpu at work the thread runs.
LEMMA CpuCorre ==
  ASSUME Sano, cpu = "corriendo"
  PROVE  Corriendo /\ contexto \in Hilos /\ contexto \in Vivos /\ contexto \in memHilos /\ ~Libre
<1>1. Corriendo /\ ~Libre
  BY DEF Sano, Turno, Libre, Pidio, Corriendo, Pidiendo, Respondido, Cedido, Cancelando, SinHilo, EsperaRta
<1>2. QED
  BY <1>1, EnJuegoVive DEF Corriendo

\* The running thread asks for a syscall.
LEMMA CpuSyscallOrden ==
  ASSUME FinLimpio, Sano, TypeOK', Lugares', NEW i \in Instrucciones, CpuSyscall(i)
  PROVE  Ordenados'
<1>1. /\ cpu = "corriendo"
      /\ UNCHANGED <<vListas, vTcb, vPcb, vMutex, pcpPend, fh, vFin, vDump, vMemoria, aCpu, contexto, caido>>
  BY DEF CpuSyscall
<1>2. PICK a \in Argumentos(contexto, i) :
        (Disciplina => Correcto(contexto, i, a)) /\ aKernel' = Append(aKernel, Pedido(contexto, i, a))
  BY DEF CpuSyscall
<1>3. cpu' = CASE i \in ConDesalojo -> "esperaDesalojo"
               [] i \in ConRespuesta \ ConDesalojo -> "espera"
               [] i = "DUMP_MEMORY" -> "guardando"
               [] OTHER -> "libre"
  BY DEF CpuSyscall
<1>4. Corriendo /\ contexto \in Hilos /\ contexto \in Vivos /\ ~Libre
  BY <1>1, CpuCorre
<1>5. aKernel' = <<Pedido(contexto, i, a)>>
  BY <1>2, <1>4, Cortas DEF Corriendo
<1>6. Pedida' = Pedido(contexto, i, a) /\ H' = contexto /\ P' = contexto[1]
  <2>1. Head(aKernel') = Pedido(contexto, i, a)
    BY <1>5, Cortas
  <2>2. Pedido(contexto, i, a).hilo = contexto
    BY DEF Pedido
  <2>3. QED
    BY <2>1, <2>2 DEF Pedida, H, P
<1>7. Pedido(contexto, i, a).op = "INSTRUCCION" /\ Pedido(contexto, i, a).instr = i
  BY DEF Pedido
<1>8. /\ Orden' /\ Vivos' = Vivos /\ Salientes' = Salientes
      /\ UNCHANGED <<exec, dump, fh>>
  BY <1>1, <1>4, CpuOrden
<1>9. EnJuego' /\ aCpu' = <<>> /\ ~Cancela'
  BY <1>1, <1>4, <1>8 DEF Corriendo, EnJuego, Cancela
<1>10. i \in ConRespuesta \cup SinRespuesta
  BY ProgramasAssumption
<1>11. CASE i \in ConRespuesta
  <2>1. /\ cpu' \in EsperaRta
        /\ cpu' = "esperaDesalojo" <=> i \in ConDesalojo
    BY <1>3, <1>11 DEF ConRespuesta, ConDesalojo, EsperaRta
  <2>2. Pidiendo'
    BY <1>1, <1>5, <1>6, <1>7, <1>9, <1>11, <2>1 DEF Pidiendo
  <2>3. QED
    BY <1>8, <2>2 DEF Ordenados, Turno
<1>12. CASE i \in SinRespuesta
  <2>1. /\ cpu' \in {"libre", "guardando"} /\ i # "NADA"
        /\ cpu' = "guardando" => i = "DUMP_MEMORY"
    BY <1>3, <1>12 DEF SinRespuesta, ConRespuesta, ConDesalojo
  <2>2. ASSUME i = "PROCESS_EXIT" PROVE contexto[2] = 0 /\ Solo(contexto[1])'
    <3>1. Correcto(contexto, i, a)
      BY <1>2, <2>2 DEF FinLimpio
    <3>2. contexto[2] = 0 /\ \A t \in 1 .. siguienteTid[contexto[1]] - 1 : <<contexto[1], t>> \in salidos
      BY <2>2, <3>1 DEF Correcto
    <3>3. ASSUME NEW h \in Vivos \cup Salientes, h[1] = contexto[1], h[2] # 0 PROVE FALSE
      <4>1. h \in Creados /\ h \notin salidos
        BY VivosSon DEF Sano, Lugares, Salientes
      <4>2. h[2] \in Nat /\ h = <<h[1], h[2]>> /\ h[1] \in Pids
        <5>1. PICK q \in Pids, t \in Tids : h = <<q, t>>
          BY <4>1 DEF Creados, Hilos
        <5>2. QED
          BY <5>1, ConstantesTipo
      <4>3. siguienteTid[h[1]] \in Nat /\ h[2] < siguienteTid[h[1]]
        BY <4>1, <4>2, ConstantesTipo DEF Sano, TypeOK, TipoPcb, Creados
      <4>4. h[2] \in 1 .. siguienteTid[contexto[1]] - 1
        BY <3>3, <4>2, <4>3
      <4>5. QED
        BY <3>2, <3>3, <4>1, <4>2, <4>4
    <3>4. QED
      BY <1>1, <1>8, <3>2, <3>3 DEF Solo
  <2>3. Pidio'
    BY <1>1, <1>5, <1>6, <1>7, <1>9, <1>12, <2>1, <2>2 DEF Pidio
  <2>4. QED
    BY <1>8, <2>3 DEF Ordenados, Turno
<1>13. QED
  BY <1>10, <1>11, <1>12

\* The thread whose context is in Memoria is the one alive.
LEMMA MemoriaVive ==
  ASSUME Sano
  PROVE  contexto \in memHilos <=> contexto \in Vivos
  BY DEF Sano, Lugares, Orden, Finalizados

\* The CPU takes the answer it waits for.
LEMMA CpuRecibeRtaOrden ==
  ASSUME Sano, TypeOK', Lugares', CpuRecibeRta
  PROVE  Ordenados'
<1>1. /\ cpu \in EsperaRta /\ aCpu # <<>> /\ Head(aCpu).op = "RTA" /\ aCpu' = Tail(aCpu)
      /\ UNCHANGED <<vListas, vTcb, vPcb, vMutex, pcpPend, fh, vFin, vDump, vMemoria, contexto, caido>>
  BY DEF CpuRecibeRta
<1>2. /\ cpu' = IF contexto \notin Vivos THEN "colgada"
                ELSE IF cpu = "espera" /\ Head(aCpu).rta = "OK" THEN "corriendo" ELSE "libre"
      /\ aKernel' = IF contexto \in Vivos /\ cpu = "esperaDesalojo"
                    THEN Append(aKernel, Desalojo(contexto)) ELSE aKernel
  BY MemoriaVive DEF CpuRecibeRta
<1>3. /\ Orden' /\ Vivos' = Vivos /\ Creados' = Creados
      /\ UNCHANGED <<exec, dump, fh>>
  BY <1>1, CpuOrden
<1>4. cpu \in {"espera", "esperaDesalojo"} /\ cpu \notin {"libre", "guardando", "corriendo", "colgada"}
  BY <1>1 DEF EsperaRta
<1>5. \A r : Rta(r).op = "RTA" /\ Rta(r).rta = r
  BY DEF Rta
<1>6. \A h : Ejecutar(h).op = "EJECUTAR"
  BY DEF Ejecutar
<1>7. Cancela' = Cancela
  BY <1>3 DEF Cancela
<1>8. CASE Respondido
  <2>1. aKernel = <<>> /\ ~Cancela /\ EnJuego /\ aCpu = <<Rta("OK")>> /\ contexto \in Vivos
    BY <1>8, EnJuegoVive DEF Respondido
  <2>2. aCpu' = <<>> /\ Head(aCpu).rta = "OK"
    BY <1>1, <1>5, <2>1, Cortas
  <2>3. EnJuego'
    BY <1>1, <1>3, <2>1 DEF EnJuego
  <2>4. CASE cpu = "espera"
    <3>1. Corriendo'
      BY <1>2, <1>7, <2>1, <2>2, <2>3, <2>4 DEF Corriendo
    <3>2. QED
      BY <1>3, <3>1 DEF Ordenados, Turno
  <2>5. CASE cpu = "esperaDesalojo"
    <3>1. cpu' = "libre" /\ aKernel' = <<Desalojo(contexto)>>
      BY <1>2, <2>1, <2>5, Cortas
    <3>2. Pedida' = Desalojo(contexto)
      BY <3>1, Cortas DEF Pedida
    <3>3. Pedida'.op = "DESALOJO" /\ Pedida'.instr = "NADA" /\ H' = contexto'
      BY <1>1, <3>2 DEF Desalojo, H
    <3>4. Pidio'
      BY <1>7, <2>1, <2>2, <2>3, <3>1, <3>2, <3>3 DEF Pidio
    <3>5. QED
      BY <1>3, <3>4 DEF Ordenados, Turno
  <2>6. QED
    BY <1>4, <2>4, <2>5
<1>9. CASE Cedido
  <2>1. aKernel = <<>> /\ ~Cancela /\ contexto \in Vivos /\ cpu = "espera" /\ Enviado(<<Rta("DESALOJO")>>)
    BY <1>9 DEF Cedido
  <2>2. /\ Head(aCpu) = Rta("DESALOJO")
        /\ \/ exec = <<>> /\ aCpu' = <<>>
           \/ \E h \in Hilos : exec = <<h>> /\ aCpu' = <<Ejecutar(h)>> /\ dump[h] = "nada"
    <3>1. \/ exec = <<>> /\ aCpu = <<Rta("DESALOJO")>>
          \/ \E h \in Hilos : exec = <<h>> /\ aCpu = <<Rta("DESALOJO"), Ejecutar(h)>> /\ dump[h] = "nada"
      BY <2>1, EnviadoEs
    <3>2. CASE exec = <<>> /\ aCpu = <<Rta("DESALOJO")>>
      BY <1>1, <3>2, Cortas
    <3>3. ASSUME NEW h \in Hilos, aCpu = <<Rta("DESALOJO"), Ejecutar(h)>>
          PROVE  Head(aCpu) = Rta("DESALOJO") /\ aCpu' = <<Ejecutar(h)>>
      BY <1>1, <3>3, Cortas
    <3>4. QED
      BY <3>1, <3>2, <3>3
  <2>3. cpu' = "libre" /\ aKernel' = <<>>
    <3>1. Head(aCpu).rta # "OK"
      BY <1>5, <2>2
    <3>2. QED
      BY <1>2, <2>1, <3>1
  <2>4. Enviado(<<>>)'
    BY <1>3, <2>2, Cortas DEF Enviado
  <2>5. Libre'
    BY <1>7, <2>1, <2>3, <2>4 DEF Libre
  <2>6. QED
    BY <1>3, <2>5 DEF Ordenados, Turno
<1>10. CASE SinHilo
  <2>1. /\ aKernel = <<>> /\ contexto \in Creados /\ contexto \notin Vivos /\ cpu = "espera"
        /\ \/ Enviado(<<>>)
           \/ /\ ~Cancela
              /\ \/ Enviado(<<Rta("OK")>>)
                 \/ \E h \in Hilos : exec = <<h>> /\ aCpu = <<Ejecutar(h), Rta("OK")>>
    BY <1>4, <1>10 DEF SinHilo
  <2>2. ~Enviado(<<>>)
    BY <1>1, <1>6, Cortas DEF Enviado
  <2>3. ~\E h \in Hilos : exec = <<h>> /\ aCpu = <<Ejecutar(h), Rta("OK")>>
    BY <1>1, <1>6, Cortas
  <2>4. ~Cancela /\ Enviado(<<Rta("OK")>>)
    BY <2>1, <2>2, <2>3
  <2>5. \/ exec = <<>> /\ aCpu' = <<>>
        \/ \E h \in Hilos : exec = <<h>> /\ aCpu' = <<Ejecutar(h)>> /\ dump[h] = "nada"
    <3>1. \/ exec = <<>> /\ aCpu = <<Rta("OK")>>
          \/ \E h \in Hilos : exec = <<h>> /\ aCpu = <<Rta("OK"), Ejecutar(h)>> /\ dump[h] = "nada"
      BY <2>4, EnviadoEs
    <3>2. CASE exec = <<>> /\ aCpu = <<Rta("OK")>>
      BY <1>1, <3>2, Cortas
    <3>3. ASSUME NEW h \in Hilos, aCpu = <<Rta("OK"), Ejecutar(h)>>
          PROVE  Head(aCpu) = Rta("OK") /\ aCpu' = <<Ejecutar(h)>>
      BY <1>1, <3>3, Cortas
    <3>4. QED
      BY <3>1, <3>2, <3>3
  <2>6. Enviado(<<>>)'
    BY <1>3, <2>5, Cortas DEF Enviado
  <2>7. SinHilo'
    BY <1>1, <1>2, <1>3, <1>7, <2>1, <2>4, <2>6 DEF SinHilo
  <2>8. QED
    BY <1>3, <2>7 DEF Ordenados, Turno
<1>11. QED
  BY <1>1, <1>4, <1>8, <1>9, <1>10 DEF Sano, Turno, Libre, Pidio, Corriendo, Pidiendo, Cancelando

\* The context saved before a dump.
LEMMA CpuGuardaOrden ==
  ASSUME Sano, TypeOK', Lugares', CpuGuarda
  PROVE  Ordenados'
<1>1. /\ cpu = "guardando"
      /\ UNCHANGED <<vListas, vTcb, vPcb, vMutex, pcpPend, fh, vFin, vDump, vMemoria, aKernel, aCpu, contexto, caido>>
  BY DEF CpuGuarda
<1>2. UNCHANGED <<exec, blocked, salidos, asignados, esperanJoin, pcbNew, pcbMem, pcbExit, siguientePid,
                  siguienteTid, listaIds, finalizado, duenio, bloqueadosMutex, fh, finPend, fin,
                  dump, rtaDump, idLiberado, memProc, memHilos, dumpMem>>
  BY <1>1 DEF vListas, vTcb, vPcb, vMutex, vFin, vDump, vMemoria
<1>3. \A p \in Pids : ~PorTerminar(p)
  BY <1>1 DEF Sano, Orden, Procesos, Apagada
<1>4. /\ Orden'
      /\ Vivos' = Vivos /\ Creados' = Creados /\ Salientes' = Salientes
      /\ \A p \in Pids : PorTerminar(p)' <=> PorTerminar(p)
      /\ \A p \in Pids : Solo(p) => Solo(p)'
  <2>1. \A h \in Hilos : dump[h] = "bloquear" => exec' = <<h>> /\ aCpu' = <<>> /\ aKernel' = <<>>
    BY <1>1, <1>2 DEF Sano, Orden, Dumps
  <2>2. QED
    BY <1>2, <1>3, <2>1, OrdenIgual
<1>5. Libre \/ Pidio
  BY <1>1 DEF Sano, Turno, Corriendo, Pidiendo, Respondido, Cedido, Cancelando, SinHilo, EsperaRta
<1>6. contexto \in Vivos
  BY <1>1, <1>5, EnJuegoVive DEF Libre, Pidio
<1>7. cpu' = "libre"
  BY <1>6, MemoriaVive DEF CpuGuarda
<1>8. CASE Libre
  <2>1. Enviado(<<>>)' \/ \E h \in Hilos : exec' = <<h>> /\ aCpu' = <<>> /\ Retenido(h)'
    <3>1. \A h \in Hilos : Retenido(h) => Retenido(h)'
      BY <1>2 DEF Retenido, PorTerminar
    <3>2. Enviado(<<>>) => Enviado(<<>>)'
      BY <1>1, <1>2 DEF Enviado
    <3>3. QED
      BY <1>1, <1>2, <1>8, <3>1, <3>2 DEF Libre
  <2>2. Libre'
    BY <1>1, <1>2, <1>7, <1>8, <2>1 DEF Libre, Cancela
  <2>3. QED
    BY <1>4, <2>2 DEF Ordenados, Turno
<1>9. CASE Pidio
  <2>1. P \in Pids
    BY <1>9, EnJuegoVive DEF Pidio, Hilos, P, H
  <2>2. Pidio'
    BY <1>1, <1>2, <1>4, <1>7, <1>9, <2>1 DEF Pidio, EnJuego, Cancela, Pedida, H, P
  <2>3. QED
    BY <1>4, <2>2 DEF Ordenados, Turno
<1>10. QED
  BY <1>5, <1>8, <1>9

\* The programs and the CPU.
LEMMA CpuPasoOrden ==
  ASSUME FinLimpio, Sano, TypeOK', Lugares', Cpu \/ Programa
  PROVE  Ordenados'
<1>1. ~CpuSinHilo
  BY CpuCorre DEF CpuSinHilo
<1>2. ~CpuSegmentationFault
  BY DEF CpuSegmentationFault, FinLimpio
<1>3. QED
  BY <1>1, <1>2, CpuRecibeEjecutarOrden, CpuRecibeRtaOrden, CpuGuardaOrden, CpuSyscallOrden DEF Cpu, Programa
-----------------------------------------------------------------------------
(***************************************************************************)
(* finalizar_hilo.                                                         *)
(***************************************************************************)
\* Whoever the scheduler has just chosen is not dumping.
LEMMA DespachadoNuevo ==
  ASSUME Sano, Sigue, Dumps', Lugares'
  PROVE  \A h \in Hilos : exec' # exec /\ exec' = <<h>> => dump'[h] = "nada"
<1>1. SUFFICES ASSUME NEW h \in Hilos, exec' # exec, exec' = <<h>> PROVE dump'[h] = "nada"
  OBVIOUS
<1>2. aCpu \in Seq(MensajesCpu) /\ \A g \in Hilos : Ejecutar(g) \in MensajesCpu
  BY MensajesCpuTipo DEF Sano, TypeOK, TipoListas
<1>3. \A g \in Hilos : Append(aCpu, Ejecutar(g)) # <<>>
  BY <1>2, AppendSeq
<1>4. aCpu' # <<>>
  BY <1>1, <1>3 DEF Sigue
<1>5. QED
  BY <1>1, <1>4, DespachadoSinDump

\* The turn, after a step of a task that only may make the scheduler choose.
LEMMA FondoTurno ==
  ASSUME Sano, Lugares', exec' = exec \/ Dumps', Sigue, UNCHANGED <<cpu, contexto, aKernel, finPend>>,
         \A p \in Pids : fin'[p].fase = fin[p].fase,
         \A h \in Hilos : dump[h] \in {"nada", "bloquear"} => dump'[h] = dump[h],
         fh'[Dispatch].rta = fh[Dispatch].rta,
         Vivos' = Vivos, Creados \subseteq Creados', Salientes' \subseteq Salientes
  PROVE  Turno'
<1>1. \A h \in Hilos : exec' # exec /\ exec' = <<h>> => dump'[h] = "nada"
  BY DespachadoNuevo
<1>2. \A p \in Pids : PorTerminar(p)' <=> PorTerminar(p)
  BY DEF PorTerminar
<1>3. \A p \in Pids : Solo(p) => Solo(p)'
  BY DEF Solo
<1>4. QED
  BY <1>1, <1>2, <1>3, TurnoSigue DEF Sano

\* What the step of a finalizar_hilo leaves of its record.
LEMMA FhCampos ==
  ASSUME TypeOK, NEW e \in Ejecutores, NEW x
  PROVE  /\ fh' = [fh EXCEPT ![e].fase = x] =>
              /\ \A o \in Ejecutores : o # e => fh'[o] = fh[o]
              /\ fh'[e].fase = x /\ fh'[e].hilo = fh[e].hilo /\ fh'[e].mutexes = fh[e].mutexes
              /\ fh'[e].joins = fh[e].joins /\ fh'[e].rta = fh[e].rta
         /\ fh' = [fh EXCEPT ![e].mutexes = x] =>
              /\ \A o \in Ejecutores : o # e => fh'[o] = fh[o]
              /\ fh'[e].fase = fh[e].fase /\ fh'[e].hilo = fh[e].hilo /\ fh'[e].mutexes = x
              /\ fh'[e].joins = fh[e].joins /\ fh'[e].rta = fh[e].rta
         /\ fh' = [fh EXCEPT ![e].joins = x] =>
              /\ \A o \in Ejecutores : o # e => fh'[o] = fh[o]
              /\ fh'[e].fase = fh[e].fase /\ fh'[e].hilo = fh[e].hilo /\ fh'[e].mutexes = fh[e].mutexes
              /\ fh'[e].joins = x /\ fh'[e].rta = fh[e].rta
  BY DEF TypeOK, TipoFin, FinalizacionesHilo

\* The types of the record of a finalizar_hilo, and who runs it.
LEMMA FhEs ==
  ASSUME Sano, NEW e \in Ejecutores
  PROVE  /\ fh[e] \in FinalizacionesHilo
         /\ fh[e].fase \in {"nada", "pedido", "mutexes", "joins"}
         /\ fh[e].mutexes \in Seq(Mutexes) /\ fh[e].joins \in Seq(Hilos \cup {Nadie})
         /\ fh[e].fase # "nada" => fh[e].hilo \in Hilos /\ fh[e].hilo \notin Vivos /\ fh[e].hilo \in Creados
         /\ fh[e].fase \in {"pedido", "mutexes"} =>
              \A o \in Ejecutores : o # e /\ fh[o].fase # "nada" => fh[o].hilo # fh[e].hilo
<1>1. /\ fh[e] \in FinalizacionesHilo
      /\ fh[e].fase \in {"nada", "pedido", "mutexes", "joins"}
      /\ fh[e].mutexes \in Seq(Mutexes) /\ fh[e].joins \in Seq(Hilos \cup {Nadie})
      /\ fh[e].fase # "nada" => fh[e].hilo \in Hilos
      /\ \A o \in Ejecutores : fh[o].fase \in {"nada", "pedido", "mutexes", "joins"}
  BY DEF Sano, TypeOK, TipoFin, FinalizacionesHilo
<1>2. \A o \in Ejecutores : fh[o].fase = "joins" => fh[o].hilo \in salidos
  BY DEF Sano, Orden, Finalizados
<1>3. \A o \in Ejecutores : fh[o].fase \in {"pedido", "mutexes"} =>
        Saliendo(o) = {fh[o].hilo} /\ fh[o].hilo \notin Vivos /\ fh[o].hilo \notin salidos
  BY DEF Saliendo, Sano, Lugares
<1>4. Vivos \cap salidos = {} /\ Vivos \cup salidos \cup Salientes = Creados
  BY DEF Sano, Lugares
<1>5. fh[e].fase # "nada" => fh[e].hilo \notin Vivos /\ fh[e].hilo \in Creados
  BY <1>1, <1>2, <1>3, <1>4 DEF Salientes
<1>6. ASSUME fh[e].fase \in {"pedido", "mutexes"}, NEW o \in Ejecutores, o # e, fh[o].fase # "nada"
      PROVE  fh[o].hilo # fh[e].hilo
  <2>1. CASE fh[o].fase = "joins"
    BY <1>2, <1>3, <1>6, <2>1
  <2>2. CASE fh[o].fase # "joins"
    BY <1>1, <1>3, <1>6, <2>2 DEF Sano, Lugares
  <2>3. QED
    BY <2>1, <2>2
<1>7. QED
  BY <1>1, <1>5, <1>6

\* finalizar_hilo takes the thread out of the queues of its mutexes.
LEMMA FhTomarOrden ==
  ASSUME Sano, TypeOK', Lugares', NEW e \in Ejecutores, FhTomar(e)
  PROVE  Ordenados'
<1> DEFINE h0 == fh[e].hilo
<1>1. /\ fh[e].fase = "pedido" /\ fh' = [fh EXCEPT ![e].fase = "mutexes"]
      /\ bloqueadosMutex' = [m \in Mutexes |->
           IF m \in ToSet(fh[e].mutexes) THEN RemoveFirst(bloqueadosMutex[m], fh[e].hilo)
                                         ELSE bloqueadosMutex[m]]
      /\ UNCHANGED <<ready, exec, blocked, salidos, asignados, esperanJoin, pcbNew, pcbMem, pcbExit,
                     siguientePid, siguienteTid, listaIds, finalizado, duenio, finPend, fin, dump,
                     rtaDump, idLiberado, memProc, memHilos, dumpMem, aKernel, aCpu, cpu, contexto, caido>>
  BY DEF FhTomar, vListas, vTcb, vPcb, vFin, vDump, vMemoria, vCpu
<1>2. /\ \A o \in Ejecutores : o # e => fh'[o] = fh[o]
      /\ fh'[e].fase = "mutexes" /\ fh'[e].hilo = h0 /\ fh'[e].mutexes = fh[e].mutexes
      /\ fh'[e].joins = fh[e].joins /\ fh'[e].rta = fh[e].rta
  BY <1>1, FhCampos DEF Sano
<1>3. Vivos' = Vivos /\ Creados' = Creados /\ Salientes' = Salientes
  <2>1. \A o \in Ejecutores : Saliendo(o)' = Saliendo(o)
    BY <1>1, <1>2 DEF Saliendo
  <2>2. QED
    BY <1>1, <2>1, MismaGente DEF Sano
<1>4. /\ \A p \in Pids : PorTerminar(p) => Apagada(p)'
      /\ \A h \in Hilos : dump[h] = "bloquear" => exec' = <<h>> /\ aCpu' = <<>> /\ aKernel' = <<>>
  BY <1>1, QuietoSigue DEF Sigue
<1>5. Finalizados'
  BY <1>1, <1>2, <1>3 DEF Sano, Orden, Finalizados
<1>6. Ids'
  BY <1>1, <1>2, <1>3 DEF Sano, Orden, Ids
<1>7. Procesos'
  BY <1>1, <1>2, <1>3, <1>4, ProcesosIgual, VivosSon DEF Sano, Orden
<1>8. EnFila' /\ Esperando' \subseteq Esperando /\ Esperando \ {h0} \subseteq Esperando'
  <2>1. TypeOK /\ EnFila
    BY DEF Sano, Orden
  <2>2. \A o \in Ejecutores : fh'[o].joins = fh[o].joins
    BY <1>2
  <2>3. \A h \in Hilos : Fila'[<<"join", h>>] = Fila[<<"join", h>>]
    BY <1>1, <1>3, <2>1, JoinsIguales
  <2>4. /\ SinComunes(Filas, Fila') /\ Esperando' \subseteq Esperando
        /\ Esperando \ {h0} \subseteq Esperando'
    BY <1>1, <2>1, <2>2, <2>3, FilasTomar
  <2>5. SinComunes(Filas, Fila)'
    BY <2>4 DEF Filas
  <2>6. \A o \in Ejecutores : fh'[o].fase # "nada" => fh[o].fase # "nada" /\ fh'[o].hilo = fh[o].hilo
    BY <1>1, <1>2
  <2>7. QED
    BY <1>1, <1>3, <2>1, <2>2, <2>4, <2>5, <2>6 DEF EnFila
<1>9. h0 \notin blocked
  BY <1>1, FhEs, VivosSon DEF Sano
<1>10. Detenidos'
  BY <1>1, <1>3, <1>8, <1>9 DEF Sano, Orden, Detenidos
<1>11. Dumps'
  <2>1. \A h \in Hilos : dump[h] \notin {"nada", "bloquear"} /\ h \in Vivos' => h \in blocked'
    BY <1>1, <1>3 DEF Sano, Orden, Dumps
  <2>2. QED
    BY <1>1, <1>2, <1>3, <1>4, <2>1, DumpsIgual DEF Sano, Orden
<1>12. Duenios'
  <2>1. \A m \in Mutexes : bloqueadosMutex'[m] # <<>> => bloqueadosMutex[m] # <<>>
    BY <1>1, RemoveFirstSeq DEF Sano, TypeOK, TipoMutex
  <2>2. \A h : Propios(h)' = Propios(h)
    BY <1>1 DEF Propios
  <2>3. \A o \in Ejecutores : fh'[o].fase # "nada" =>
          fh[o].fase # "nada" /\ fh'[o].hilo = fh[o].hilo /\ fh'[o].mutexes = fh[o].mutexes
    BY <1>1, <1>2
  <2>4. QED
    BY <1>1, <1>3, <2>1, <2>3 DEF Sano, Orden, Duenios, Propios
<1>13. Turno'
  BY <1>1, <1>2, <1>3, <1>11, FondoTurno DEF Sigue
<1>14. QED
  BY <1>5, <1>6, <1>7, <1>8, <1>10, <1>11, <1>12, <1>13 DEF Ordenados, Orden

(* protocolo_liberacion_recurso without an answer: what it leaves of the lists,
   and that only a waiter alive lets the kernel go on. *)
LEMMA ProtocoloSuelto ==
  ASSUME Sano, NEW m \in Mutexes, NEW asig, Protocolo(m, asig, FALSE)
  PROVE  /\ Sigue
         /\ bloqueadosMutex[m] = <<>> =>
              /\ duenio' = [duenio EXCEPT ![m] = Nadie] /\ asignados' = asig
              /\ UNCHANGED <<exec, aCpu, bloqueadosMutex, blocked, caido>>
         /\ bloqueadosMutex[m] # <<>> =>
              /\ bloqueadosMutex' = [bloqueadosMutex EXCEPT ![m] = Tail(@)]
              /\ blocked' = blocked \ {Heredero(m)}
              /\ Heredero(m) \in Vivos =>
                   /\ asignados' = [asig EXCEPT ![Heredero(m)] = Append(@, m)]
                   /\ duenio' = [duenio EXCEPT ![m] = Heredero(m)]
                   /\ caido' = caido
              /\ Heredero(m) \notin Vivos =>
                   caido' = "kernel" /\ exec' = exec /\ aCpu' = aCpu
<1>1. CASE bloqueadosMutex[m] = <<>>
  <2>1. /\ duenio' = [duenio EXCEPT ![m] = Nadie] /\ asignados' = asig
        /\ Quedan(Responder(Colas, FALSE)) /\ UNCHANGED <<bloqueadosMutex, blocked, caido>>
    BY <1>1 DEF Protocolo
  <2>2. exec' = exec /\ aCpu' = aCpu
    BY <2>1 DEF Quedan, Responder, Colas
  <2>3. QED
    BY <1>1, <2>1, <2>2 DEF Sigue
<1>2. CASE bloqueadosMutex[m] # <<>>
  <2> DEFINE w == Heredero(m)
             q == Desbloquear(Colas, w)
  <2>1. /\ bloqueadosMutex' = [bloqueadosMutex EXCEPT ![m] = Tail(@)]
        /\ blocked' = blocked \ {w}
        /\ Quedan(Responder(q, FALSE))
        /\ Existe(w) => /\ asignados' = [asig EXCEPT ![w] = Append(@, m)]
                        /\ duenio' = [duenio EXCEPT ![m] = w] /\ caido' = caido
        /\ ~Existe(w) => caido' = "kernel"
    BY <1>2 DEF Protocolo, Crash
  <2>2. Quedan(q)
    BY <2>1 DEF Responder
  <2>3. Existe(w) <=> w \in Vivos
    BY VivosExisten
  <2>4. Despacha(Colas, q)
    BY ColasTipo, DesbloquearSigue DEF Sano, TypeOK
  <2>5. w \notin Vivos => q = Colas
    BY VivosSon DEF Sano, Desbloquear
  <2> HIDE DEF w, q
  <2>6. Sigue
    BY <2>2, <2>4, SigueDeColas
  <2>7. w \notin Vivos => exec' = exec /\ aCpu' = aCpu
    BY <2>2, <2>5 DEF Quedan, Colas
  <2>8. QED
    BY <1>2, <2>1, <2>3, <2>6, <2>7 DEF w
<1>3. QED
  BY <1>1, <1>2

\* The owner of the first mutex to be released is the thread that ends.
LEMMA PrimerMutex ==
  ASSUME Sano, NEW e \in Ejecutores, fh[e].fase = "mutexes", fh[e].mutexes # <<>>
  PROVE  /\ Head(fh[e].mutexes) \in Mutexes /\ duenio[Head(fh[e].mutexes)] = fh[e].hilo
         /\ IsInjective(Tail(fh[e].mutexes))
         /\ ToSet(Tail(fh[e].mutexes)) = Propios(fh[e].hilo) \ {Head(fh[e].mutexes)}
<1>1. fh[e].mutexes \in Seq(Mutexes) /\ IsInjective(fh[e].mutexes) /\ ToSet(fh[e].mutexes) = Propios(fh[e].hilo)
  BY FhEs DEF Sano, Orden, Duenios
<1>2. Head(fh[e].mutexes) \in ToSet(fh[e].mutexes)
  BY <1>1, ToSetTipo
<1>3. IsInjective(Tail(fh[e].mutexes)) /\ ToSet(Tail(fh[e].mutexes)) = ToSet(fh[e].mutexes) \ {Head(fh[e].mutexes)}
  BY <1>1, TailElementos
<1>4. QED
  BY <1>1, <1>2, <1>3 DEF Propios

\* One mutex of the thread that ends is free, or goes to its first waiter.
LEMMA FhMutexDuenios ==
  ASSUME Sano, Vivos' = Vivos, Salientes' = Salientes, NEW e \in Ejecutores,
         fh[e].fase = "mutexes", fh[e].mutexes # <<>>,
         fh' = [fh EXCEPT ![e].mutexes = Tail(@)],
         NEW m, m = Head(fh[e].mutexes), NEW w, w = Head(bloqueadosMutex[m]),
         \/ /\ bloqueadosMutex[m] = <<>> /\ duenio' = [duenio EXCEPT ![m] = Nadie]
            /\ asignados' = asignados /\ bloqueadosMutex' = bloqueadosMutex
         \/ /\ bloqueadosMutex[m] # <<>> /\ w \in Vivos
            /\ duenio' = [duenio EXCEPT ![m] = w] /\ asignados' = [asignados EXCEPT ![w] = Append(@, m)]
            /\ bloqueadosMutex' = [bloqueadosMutex EXCEPT ![m] = Tail(@)]
  PROVE  Duenios'
<1> DEFINE h0 == fh[e].hilo
<1>1. /\ m \in Mutexes /\ duenio[m] = h0 /\ IsInjective(Tail(fh[e].mutexes))
      /\ ToSet(Tail(fh[e].mutexes)) = Propios(h0) \ {m}
  BY PrimerMutex
<1>2. /\ h0 \in Hilos /\ h0 \notin Vivos /\ Vivos \subseteq Hilos
      /\ \A o \in Ejecutores : fh[o].fase # "nada" => fh[o].hilo \notin Vivos /\ fh[o].hilo \in Hilos
      /\ \A o \in Ejecutores : o # e /\ fh[o].fase # "nada" => fh[o].hilo # h0
  BY FhEs, VivosSon DEF Sano
<1>3. /\ \A o \in Ejecutores : o # e => fh'[o] = fh[o]
      /\ fh'[e].fase = "mutexes" /\ fh'[e].hilo = h0 /\ fh'[e].mutexes = Tail(fh[e].mutexes)
  <2>1. TypeOK /\ e \in Ejecutores /\ fh[e].fase = "mutexes"
    BY DEF Sano
  <2>2. PICK x : x = Tail(fh[e].mutexes)
    OBVIOUS
  <2>3. fh' = [fh EXCEPT ![e].mutexes = x]
    BY <2>2
  <2>4. QED
    BY ONLY <2>1, <2>2, <2>3, FhCampos
<1>4. Nadie \notin Hilos
  BY NadieNoEsHilo
<1>5. /\ \A h \in Vivos : IsInjective(asignados[h]) /\ ToSet(asignados[h]) = Propios(h)
      /\ \A o \in Ejecutores : fh[o].fase # "nada" =>
           /\ IsInjective(fh[o].mutexes) /\ IsInjective(asignados[fh[o].hilo])
           /\ ToSet(fh[o].mutexes) = Propios(fh[o].hilo)
           /\ Propios(fh[o].hilo) \subseteq ToSet(asignados[fh[o].hilo])
      /\ \A n \in Mutexes : /\ duenio[n] \in Vivos \cup Salientes \cup {Nadie}
                            /\ bloqueadosMutex[n] # <<>> => duenio[n] # Nadie
  BY DEF Sano, Orden, Duenios
<1> DEFINE d == IF bloqueadosMutex[m] = <<>> THEN Nadie ELSE w
<1>6. \A n \in Mutexes : duenio'[n] = IF n = m THEN d ELSE duenio[n]
  BY <1>1 DEF Sano, TypeOK, TipoMutex
<1>7. d = Nadie \/ (d \in Vivos /\ d = w /\ bloqueadosMutex[m] # <<>>)
  OBVIOUS
<1>8. bloqueadosMutex[m] = <<>> => d = Nadie
  OBVIOUS
<1>9. \A n \in Mutexes : n # m => bloqueadosMutex'[n] = bloqueadosMutex[n]
  BY DEF Sano, TypeOK, TipoMutex
<1>10. bloqueadosMutex[m] = <<>> => bloqueadosMutex'[m] = <<>>
  OBVIOUS
<1>11. \A h \in Hilos : asignados'[h] = IF h = d THEN Append(asignados[h], m) ELSE asignados[h]
  <2>1. asignados \in [Hilos -> Seq(Mutexes)]
    BY DEF Sano, TypeOK, TipoTcb
  <2>2. \/ d = Nadie /\ asignados' = asignados
        \/ d \in Hilos /\ asignados' = [asignados EXCEPT ![d] = Append(@, m)]
    BY <1>2
  <2> HIDE DEF d
  <2>3. QED
    BY ONLY <1>4, <2>1, <2>2
<1> HIDE DEF d, h0
<1>12. \A h \in Hilos : Propios(h)' = IF h = d THEN Propios(h) \cup {m} ELSE IF h = h0 THEN Propios(h) \ {m}
                                      ELSE Propios(h)
  BY <1>1, <1>2, <1>4, <1>6, <1>7 DEF Propios
<1>13. \A h \in Hilos : asignados[h] \in Seq(Mutexes)
  BY DEF Sano, TypeOK, TipoTcb
<1>14. \A h \in Vivos' : IsInjective(asignados'[h]) /\ ToSet(asignados'[h]) = Propios(h)'
  <2>1. SUFFICES ASSUME NEW h \in Vivos PROVE IsInjective(asignados'[h]) /\ ToSet(asignados'[h]) = Propios(h)'
    OBVIOUS
  <2>2. h \in Hilos /\ h # h0
    BY <1>2
  <2>3. CASE h # d
    BY <1>5, <1>11, <1>12, <2>2, <2>3
  <2>4. CASE h = d
    <3>1. IsInjective(asignados[h]) /\ ToSet(asignados[h]) = Propios(h) /\ m \in Mutexes /\ duenio[m] = h0
      BY <1>1, <1>5
    <3>2. m \notin Propios(h)
      BY <2>2, <3>1 DEF Propios
    <3>3. asignados[h] \in Seq(Mutexes)
      BY <1>13, <2>2
    <3>4. IsInjective(Append(asignados[h], m)) /\ ToSet(Append(asignados[h], m)) = ToSet(asignados[h]) \cup {m}
      BY ONLY <3>1, <3>2, <3>3, AppendElementos
    <3>5. asignados'[h] = Append(asignados[h], m) /\ Propios(h)' = Propios(h) \cup {m}
      BY <1>11, <1>12, <2>2, <2>4
    <3>6. QED
      BY ONLY <3>1, <3>4, <3>5
  <2>5. QED
    BY <2>3, <2>4
<1>15. \A o \in Ejecutores : fh'[o].fase # "nada" =>
         /\ IsInjective(fh'[o].mutexes) /\ IsInjective(asignados'[fh'[o].hilo])
         /\ ToSet(fh'[o].mutexes) = Propios(fh[o].hilo)'
         /\ Propios(fh[o].hilo)' \subseteq ToSet(asignados'[fh'[o].hilo])
         /\ fh'[o].hilo = fh[o].hilo
  <2>1. SUFFICES ASSUME NEW o \in Ejecutores, fh'[o].fase # "nada", NEW h, h = fh[o].hilo
                 PROVE  /\ IsInjective(fh'[o].mutexes) /\ IsInjective(asignados'[h])
                        /\ ToSet(fh'[o].mutexes) = Propios(h)'
                        /\ Propios(h)' \subseteq ToSet(asignados'[h])
                        /\ fh'[o].hilo = h
    BY DEF Propios
  <2>7. fh[o].fase # "nada" /\ fh'[o].hilo = h
    BY <1>3, <2>1 DEF h0
  <2>2. fh[o].fase # "nada" /\ h \in Hilos /\ h # d /\ fh'[o].hilo = h
    <3>1. h \in Hilos /\ h \notin Vivos
      BY <1>2, <2>1, <2>7
    <3>2. QED
      BY ONLY <1>4, <1>7, <2>7, <3>1
  <2>3. asignados'[h] = asignados[h]
    BY <1>11, <2>2
  <2>4. CASE o = e
    <3>1. h = h0 /\ Propios(h)' = Propios(h0) \ {m} /\ fh'[o].mutexes = Tail(fh[e].mutexes)
      BY <1>3, <1>12, <2>1, <2>2, <2>4 DEF h0
    <3>2. /\ IsInjective(Tail(fh[e].mutexes)) /\ ToSet(Tail(fh[e].mutexes)) = Propios(h0) \ {m}
          /\ IsInjective(asignados[h]) /\ Propios(h) \subseteq ToSet(asignados[h])
      BY ONLY <1>1, <1>5, <2>1, <2>2
    <3>3. QED
      BY ONLY <2>2, <2>3, <2>4, <3>1, <3>2
  <2>5. CASE o # e
    <3>1. h # h0 /\ Propios(h)' = Propios(h) /\ fh'[o].mutexes = fh[o].mutexes
      BY <1>2, <1>3, <1>12, <2>1, <2>2, <2>5
    <3>2. /\ IsInjective(fh[o].mutexes) /\ IsInjective(asignados[h])
          /\ ToSet(fh[o].mutexes) = Propios(h) /\ Propios(h) \subseteq ToSet(asignados[h])
      BY ONLY <1>5, <2>1, <2>2
    <3>3. QED
      BY ONLY <2>2, <2>3, <3>1, <3>2
  <2>6. QED
    BY <2>4, <2>5
<1>16. \A n \in Mutexes : /\ duenio'[n] \in Vivos' \cup Salientes' \cup {Nadie}
                          /\ bloqueadosMutex'[n] # <<>> => duenio'[n] # Nadie
  <2>1. SUFFICES ASSUME NEW n \in Mutexes
                 PROVE  /\ duenio'[n] \in Vivos \cup Salientes \cup {Nadie}
                        /\ bloqueadosMutex'[n] # <<>> => duenio'[n] # Nadie
    OBVIOUS
  <2>2. CASE n = m
    BY <1>2, <1>4, <1>6, <1>7, <1>10, <2>2 DEF d
  <2>3. CASE n # m
    BY <1>5, <1>6, <1>9, <2>3
  <2>4. QED
    BY <2>2, <2>3
<1>17. QED
  BY <1>14, <1>15, <1>16 DEF Duenios, Propios

\* finalizar_hilo releases a mutex.
LEMMA FhMutexOrden ==
  ASSUME Sano, TypeOK', Lugares', NEW e \in Ejecutores, FhMutex(e)
  PROVE  Ordenados'
<1> DEFINE h0 == fh[e].hilo
           m == Head(fh[e].mutexes)
           w == Head(bloqueadosMutex[m])
<1>1. /\ fh[e].fase = "mutexes" /\ fh[e].mutexes # <<>> /\ fh' = [fh EXCEPT ![e].mutexes = Tail(@)]
      /\ Protocolo(m, asignados, FALSE)
      /\ UNCHANGED <<salidos, esperanJoin, pcbNew, pcbMem, pcbExit,
                     siguientePid, siguienteTid, listaIds, finalizado, finPend, fin, dump,
                     rtaDump, idLiberado, memProc, memHilos, dumpMem, aKernel, cpu, contexto>>
  BY DEF FhMutex, vPcb, vFin, vDump, vMemoria, vCpu
<1>2. /\ \A o \in Ejecutores : o # e => fh'[o] = fh[o]
      /\ fh'[e].fase = "mutexes" /\ fh'[e].hilo = h0
      /\ fh'[e].joins = fh[e].joins /\ fh'[e].rta = fh[e].rta
  BY <1>1, FhCampos DEF Sano
<1>3. Vivos' = Vivos /\ Creados' = Creados /\ Salientes' = Salientes
  <2>1. \A o \in Ejecutores : Saliendo(o)' = Saliendo(o)
    BY <1>1, <1>2 DEF Saliendo
  <2>2. QED
    BY <1>1, <2>1, MismaGente DEF Sano
<1>4. m \in Mutexes
  BY <1>1, PrimerMutex
<1>5. /\ Sigue
      /\ bloqueadosMutex[m] = <<>> =>
           /\ duenio' = [duenio EXCEPT ![m] = Nadie] /\ asignados' = asignados
           /\ UNCHANGED <<exec, aCpu, bloqueadosMutex, blocked, caido>>
      /\ bloqueadosMutex[m] # <<>> =>
           /\ bloqueadosMutex' = [bloqueadosMutex EXCEPT ![m] = Tail(@)]
           /\ blocked' = blocked \ {w}
           /\ w \in Vivos =>
                /\ asignados' = [asignados EXCEPT ![w] = Append(@, m)]
                /\ duenio' = [duenio EXCEPT ![m] = w]
                /\ caido' = caido
           /\ w \notin Vivos =>
                caido' = "kernel" /\ exec' = exec /\ aCpu' = aCpu
  BY <1>1, <1>4, ProtocoloSuelto DEF Heredero
<1>6. /\ \A p \in Pids : PorTerminar(p) => Apagada(p)'
      /\ \A h \in Hilos : dump[h] = "bloquear" => exec' = <<h>> /\ aCpu' = <<>> /\ aKernel' = <<>>
  BY <1>1, <1>5, QuietoSigue
<1> HIDE DEF m, w
<1>7. CASE bloqueadosMutex[m] # <<>> /\ w \notin Vivos
  <2>1. exec' = exec /\ ~EnMarcha'
    BY <1>5, <1>7 DEF EnMarcha
  <2>2. Turno'
    BY <1>1, <1>2, <1>3, <1>5, <2>1, FondoTurno
  <2>3. QED
    BY <2>1, <2>2 DEF Ordenados
<1>8. CASE bloqueadosMutex[m] = <<>> \/ w \in Vivos
  <2>1. Finalizados'
    BY <1>1, <1>2, <1>3 DEF Sano, Orden, Finalizados
  <2>2. Ids'
    BY <1>1, <1>2, <1>3 DEF Sano, Orden, Ids
  <2>3. Procesos'
    BY <1>1, <1>2, <1>3, <1>6, ProcesosIgual, VivosSon DEF Sano, Orden
  <2>4. /\ SinComunes(Filas, Fila')
        /\ bloqueadosMutex[m] = <<>> => Esperando' = Esperando
        /\ bloqueadosMutex[m] # <<>> => Esperando' = Esperando \ {w} /\ w \in Esperando
    <3>1. TypeOK /\ EnFila
      BY DEF Sano, Orden
    <3>2. \A o \in Ejecutores : fh'[o].joins = fh[o].joins
      BY <1>2
    <3>3. \A h \in Hilos : Fila'[<<"join", h>>] = Fila[<<"join", h>>]
      BY <1>1, <1>3, <3>1, JoinsIguales
    <3>4. CASE bloqueadosMutex[m] = <<>>
      <4>1. bloqueadosMutex' = bloqueadosMutex
        BY <1>5, <3>4
      <4>2. QED
        BY <3>1, <3>2, <3>3, <3>4, <4>1, FilasIgual
    <3>5. CASE bloqueadosMutex[m] # <<>>
      <4>1. bloqueadosMutex' = [bloqueadosMutex EXCEPT ![m] = Tail(@)]
        BY <1>5, <3>5
      <4>2. /\ SinComunes(Filas, Fila') /\ Esperando' = Esperando \ {Head(bloqueadosMutex[m])}
            /\ Head(bloqueadosMutex[m]) \in Esperando
        BY <1>4, <3>1, <3>2, <3>3, <3>5, <4>1, FilasMutex
      <4>3. QED
        BY <3>5, <4>2 DEF w
    <3>6. QED
      BY <3>4, <3>5
  <2>5. EnFila'
    <3>1. SinComunes(Filas, Fila)'
      BY <2>4 DEF Filas
    <3>2. Esperando' \subseteq Creados'
      BY <1>3, <2>4 DEF Sano, Orden, EnFila
    <3>3. \A h \in Hilos : h \notin Creados => asignados'[h] = asignados[h]
      <4>1. Vivos \subseteq Creados
        BY VivosSon DEF Sano
      <4>2. QED
        BY <1>5, <1>8, <4>1 DEF Sano, TypeOK, TipoTcb
    <3>4. \A h \in Hilos : h \notin Creados' => esperanJoin'[h] = <<>> /\ asignados'[h] = <<>>
      BY <1>1, <1>3, <3>3 DEF Sano, Orden, EnFila
    <3>5. \A o \in Ejecutores :
            fh'[o].fase # "nada" => ToSet(fh'[o].joins) \subseteq ToSet(esperanJoin'[fh'[o].hilo])
      BY <1>1, <1>2 DEF Sano, Orden, EnFila
    <3>6. QED
      BY <3>1, <3>2, <3>4, <3>5 DEF EnFila
  <2>6. blocked' \subseteq blocked /\ \A h \in blocked : h \notin blocked' => h \in Esperando \ Esperando'
    BY <1>5, <2>4
  <2>7. Detenidos'
    <3>1. \/ blocked' = blocked /\ Esperando' = Esperando
          \/ blocked' = blocked \ {w} /\ Esperando' = Esperando \ {w}
      BY <1>5, <2>4
    <3>2. QED
      BY <1>1, <1>3, <3>1 DEF Sano, Orden, Detenidos
  <2>8. Dumps'
    <3>1. \A h \in Hilos : dump[h] \notin {"nada", "bloquear"} /\ h \in Vivos' => h \in blocked'
      BY <1>3, <2>6 DEF Sano, Orden, Dumps, Detenidos
    <3>2. QED
      BY <1>1, <1>2, <1>3, <1>6, <3>1, DumpsIgual DEF Sano, Orden
  <2>9. Duenios'
    <3>1. \/ /\ bloqueadosMutex[m] = <<>> /\ duenio' = [duenio EXCEPT ![m] = Nadie]
             /\ asignados' = asignados /\ bloqueadosMutex' = bloqueadosMutex
          \/ /\ bloqueadosMutex[m] # <<>> /\ w \in Vivos
             /\ duenio' = [duenio EXCEPT ![m] = w] /\ asignados' = [asignados EXCEPT ![w] = Append(@, m)]
             /\ bloqueadosMutex' = [bloqueadosMutex EXCEPT ![m] = Tail(@)]
      BY <1>5, <1>8, Zenon
    <3>2. m = Head(fh[e].mutexes) /\ w = Head(bloqueadosMutex[m])
      BY DEF m, w
    <3>3. QED
      BY <1>1, <1>3, <3>1, <3>2, FhMutexDuenios
  <2>10. Turno'
    BY <1>1, <1>2, <1>3, <1>5, <2>8, FondoTurno
  <2>11. QED
    BY <2>1, <2>2, <2>3, <2>5, <2>7, <2>8, <2>9, <2>10 DEF Ordenados, Orden
<1>9. QED
  BY <1>7, <1>8

\* The thread enters EXIT and leaves its process.
LEMMA FhSalirOrden ==
  ASSUME Sano, TypeOK', Lugares', NEW e \in Ejecutores, FhSalir(e)
  PROVE  Ordenados'
<1> DEFINE h0 == fh[e].hilo
<1>1. /\ fh[e].fase = "mutexes" /\ fh[e].mutexes = <<>> /\ fh' = [fh EXCEPT ![e].fase = "joins"]
      /\ salidos' = salidos \cup {h0}
      /\ listaIds' = IF h0[1] \in pcbMem \cup ToSet(pcbNew)
                     THEN [listaIds EXCEPT ![h0[1]] = RemoveFirst(@, h0)] ELSE listaIds
      /\ UNCHANGED <<ready, exec, blocked, asignados, esperanJoin, pcbNew, pcbMem, pcbExit, duenio, bloqueadosMutex,
                     siguientePid, siguienteTid, finalizado, finPend, fin, dump,
                     rtaDump, idLiberado, memProc, memHilos, dumpMem, aKernel, aCpu, cpu, contexto, caido>>
  BY DEF FhSalir, vTcb, vMutex, vFin, vDump, vMemoria, vCpu
<1>2. /\ \A o \in Ejecutores : o # e => fh'[o] = fh[o]
      /\ fh'[e].fase = "joins" /\ fh'[e].hilo = h0 /\ fh'[e].mutexes = fh[e].mutexes
      /\ fh'[e].joins = fh[e].joins /\ fh'[e].rta = fh[e].rta
  BY <1>1, FhCampos DEF Sano
<1>15. h0 \in Hilos /\ h0 \notin Vivos
  BY <1>1, FhEs
<1>3. Vivos' = Vivos /\ Creados' = Creados /\ Salientes' \subseteq Salientes /\ Salientes = Salientes' \cup {h0}
  <2>1. /\ \A o \in Ejecutores : o # e => Saliendo(o)' = Saliendo(o)
        /\ Saliendo(e)' = {} /\ Saliendo(e) = {h0}
    BY <1>1, <1>2 DEF Saliendo
  <2>2. Salientes = Salientes' \cup {h0}
    BY <2>1 DEF Salientes
  <2>3. Creados' = Creados
    BY <1>1 DEF Creados
  <2>4. QED
    BY <1>1, <2>2, <2>3, VivosSon, VivosSonDespues DEF Sano
<1> HIDE DEF h0
<1>4. /\ \A p \in Pids : PorTerminar(p) => Apagada(p)'
      /\ \A h \in Hilos : dump[h] = "bloquear" => exec' = <<h>> /\ aCpu' = <<>> /\ aKernel' = <<>>
  BY <1>1, QuietoSigue DEF Sigue
<1>5. Finalizados'
  BY <1>1, <1>2, <1>3 DEF Sano, Orden, Finalizados
<1>16. \A p \in Pids : /\ IsInjective(listaIds'[p]) /\ ToSet(listaIds'[p]) \subseteq ToSet(listaIds[p])
                       /\ ToSet(listaIds[p]) \subseteq ToSet(listaIds'[p]) \cup {h0}
  <2>1. \A p \in Pids : listaIds[p] \in Seq(Hilos) /\ IsInjective(listaIds[p])
    BY DEF Sano, TypeOK, TipoPcb, Orden, Ids
  <2>2. \A p \in Pids : listaIds'[p] = listaIds[p] \/ listaIds'[p] = RemoveFirst(listaIds[p], h0)
    BY <1>1 DEF Sano, TypeOK, TipoPcb
  <2>3. QED
    BY <2>1, <2>2, RemoveFirstElementos
<1>6. Ids'
  BY <1>1, <1>3, <1>16 DEF Sano, Orden, Ids
<1>7. Procesos'
  <2>1. \A o \in Ejecutores : fh'[o].fase # "nada" => fh[o].fase # "nada" /\ fh'[o].hilo = fh[o].hilo
    BY <1>1, <1>2 DEF h0
  <2>2. Vivos' \subseteq Vivos /\ Salientes' \subseteq Vivos \cup Salientes /\ Vivos \subseteq Hilos
    BY <1>3, VivosSon DEF Sano
  <2>3. UNCHANGED <<pcbMem, pcbExit, pcbNew, siguientePid, memProc, finalizado, finPend, fin>>
    BY <1>1
  <2>4. Procesos
    BY DEF Sano, Orden
  <2>5. QED
    BY ONLY <1>4, <1>16, <2>1, <2>2, <2>3, <2>4, ProcesosIgual
<1>8. EnFila' /\ Esperando' = Esperando
  <2>1. TypeOK /\ EnFila
    BY DEF Sano, Orden
  <2>2. \A o \in Ejecutores : fh'[o].joins = fh[o].joins
    BY <1>2
  <2>3. \A h \in Hilos : Fila'[<<"join", h>>] = Fila[<<"join", h>>]
    BY <1>1, <1>3, <2>1, JoinsIguales
  <2>4. SinComunes(Filas, Fila') /\ Esperando' = Esperando
    BY <1>1, <2>1, <2>2, <2>3, FilasIgual
  <2>5. SinComunes(Filas, Fila)'
    BY <2>4 DEF Filas
  <2>6. \A o \in Ejecutores : fh'[o].fase # "nada" => fh[o].fase # "nada" /\ fh'[o].hilo = fh[o].hilo
    BY <1>1, <1>2 DEF h0
  <2>7. QED
    BY <1>1, <1>3, <2>1, <2>2, <2>4, <2>5, <2>6 DEF EnFila
<1>10. Detenidos'
  BY <1>1, <1>3, <1>8 DEF Sano, Orden, Detenidos
<1>11. Dumps'
  <2>1. \A h \in Hilos : dump[h] \notin {"nada", "bloquear"} /\ h \in Vivos' => h \in blocked'
    BY <1>1, <1>3 DEF Sano, Orden, Dumps
  <2>2. QED
    BY <1>1, <1>2, <1>3, <1>4, <2>1, DumpsIgual DEF Sano, Orden, h0
<1>12. Duenios'
  <2>1. Propios(h0) = {}
    BY <1>1, VacioElementos DEF Sano, Orden, Duenios, h0
  <2>2. \A m \in Mutexes : duenio[m] # h0
    BY <2>1 DEF Propios
  <2>3. \A m \in Mutexes : duenio'[m] \in Vivos' \cup Salientes' \cup {Nadie}
    BY <1>1, <1>3, <2>2 DEF Sano, Orden, Duenios
  <2>4. \A o \in Ejecutores : fh'[o].fase # "nada" =>
          fh[o].fase # "nada" /\ fh'[o].hilo = fh[o].hilo /\ fh'[o].mutexes = fh[o].mutexes
    BY <1>1, <1>2 DEF h0
  <2>5. QED
    BY <1>1, <1>3, <2>3, <2>4 DEF Sano, Orden, Duenios, Propios
<1>13. Turno'
  BY <1>1, <1>2, <1>3, <1>11, FondoTurno DEF Sigue
<1>14. QED
  BY <1>5, <1>6, <1>7, <1>8, <1>10, <1>11, <1>12, <1>13 DEF Ordenados, Orden

\* One of those that join the thread wakes up.
LEMMA FhJoinOrden ==
  ASSUME Sano, TypeOK', Lugares', NEW e \in Ejecutores, FhJoin(e)
  PROVE  Ordenados'
<1> DEFINE h0 == fh[e].hilo
           w == Head(fh[e].joins)
<1>1. /\ fh[e].fase = "joins" /\ fh[e].joins # <<>> /\ fh' = [fh EXCEPT ![e].joins = Tail(@)]
      /\ blocked' = blocked \ {w} /\ Quedan(Desbloquear(Colas, w))
      /\ UNCHANGED <<salidos, asignados, esperanJoin, pcbNew, pcbMem, pcbExit, duenio, bloqueadosMutex,
                     siguientePid, siguienteTid, listaIds, finalizado, finPend, fin, dump,
                     rtaDump, idLiberado, memProc, memHilos, dumpMem, aKernel, cpu, contexto, caido>>
  BY DEF FhJoin, vTcb, vPcb, vMutex, vFin, vDump, vMemoria, vCpu
<1>2. /\ \A o \in Ejecutores : o # e => fh'[o] = fh[o]
      /\ fh'[e].fase = "joins" /\ fh'[e].hilo = h0 /\ fh'[e].mutexes = fh[e].mutexes
      /\ fh'[e].joins = Tail(fh[e].joins) /\ fh'[e].rta = fh[e].rta
  <2> DEFINE x == Tail(fh[e].joins)
  <2>1. fh' = [fh EXCEPT ![e].joins = x] /\ TypeOK /\ fh[e].fase = "joins"
    BY <1>1 DEF Sano
  <2> HIDE DEF x
  <2>2. /\ \A o \in Ejecutores : o # e => fh'[o] = fh[o]
        /\ fh'[e].fase = fh[e].fase /\ fh'[e].hilo = fh[e].hilo /\ fh'[e].mutexes = fh[e].mutexes
        /\ fh'[e].joins = x /\ fh'[e].rta = fh[e].rta
    BY <2>1, FhCampos
  <2>3. QED
    BY <2>1, <2>2 DEF x
<1>3. Vivos' = Vivos /\ Creados' = Creados /\ Salientes' = Salientes
  <2>1. \A o \in Ejecutores : Saliendo(o)' = Saliendo(o)
    BY <1>1, <1>2 DEF Saliendo
  <2>2. QED
    BY <1>1, <2>1, MismaGente DEF Sano
<1>4. Sigue
  BY <1>1, ColasTipo, DesbloquearSigue, SigueDeColas DEF Sano, TypeOK
<1>5. \A o \in Ejecutores : fh'[o].fase = fh[o].fase /\ fh'[o].hilo = fh[o].hilo
                            /\ fh'[o].mutexes = fh[o].mutexes /\ fh'[o].rta = fh[o].rta
  BY <1>1, <1>2
<1>6. /\ \A p \in Pids : PorTerminar(p) => Apagada(p)'
      /\ \A h \in Hilos : dump[h] = "bloquear" => exec' = <<h>> /\ aCpu' = <<>> /\ aKernel' = <<>>
  BY <1>1, <1>4, QuietoSigue
<1>7. /\ SinComunes(Filas, Fila') /\ Esperando' = Esperando \ {w} /\ w \in Esperando
  <2>1. TypeOK /\ EnFila
    BY DEF Sano, Orden
  <2>2. \A h \in Hilos : Fila'[<<"join", h>>] = Fila[<<"join", h>>]
    BY <1>1, <1>3, <2>1, JoinsIguales
  <2>3. QED
    BY <1>1, <2>1, <2>2, FilasFin
<1>8. ToSet(Tail(fh[e].joins)) \subseteq ToSet(fh[e].joins)
  <2>1. IsInjective(fh[e].joins)
    BY FilaEs DEF Sano, Orden, EnFila, SinComunes
  <2>2. QED
    BY <1>1, <2>1, FhEs, TailElementos
<1> HIDE DEF w, h0
<1>9. Finalizados'
  BY <1>1, <1>2, <1>3, <1>5 DEF Sano, Orden, Finalizados
<1>10. Ids'
  BY <1>1, <1>3 DEF Sano, Orden, Ids
<1>11. Procesos'
  BY <1>1, <1>3, <1>5, <1>6, ProcesosIgual, VivosSon DEF Sano, Orden
<1>12. EnFila'
  <2>1. SinComunes(Filas, Fila)'
    BY <1>7 DEF Filas
  <2>2. Esperando' \subseteq Creados'
    BY <1>3, <1>7 DEF Sano, Orden, EnFila
  <2>3. \A h \in Hilos : h \notin Creados' => esperanJoin'[h] = <<>> /\ asignados'[h] = <<>>
    BY <1>1, <1>3 DEF Sano, Orden, EnFila
  <2>4. \A o \in Ejecutores : ToSet(fh'[o].joins) \subseteq ToSet(fh[o].joins)
    BY <1>2, <1>8
  <2>5. \A o \in Ejecutores :
          fh'[o].fase # "nada" => ToSet(fh'[o].joins) \subseteq ToSet(esperanJoin'[fh'[o].hilo])
    BY <1>1, <1>5, <2>4 DEF Sano, Orden, EnFila
  <2>6. QED
    BY <2>1, <2>2, <2>3, <2>5 DEF EnFila
<1>13. Detenidos'
  BY <1>1, <1>3, <1>7 DEF Sano, Orden, Detenidos
<1>14. Dumps'
  <2>1. \A h \in Hilos : dump[h] \notin {"nada", "bloquear"} /\ h \in Vivos' => h \in blocked'
    BY <1>1, <1>3, <1>7 DEF Sano, Orden, Dumps, Detenidos
  <2>2. QED
    BY <1>1, <1>3, <1>5, <1>6, <2>1, DumpsIgual DEF Sano, Orden
<1>15. Duenios'
  BY <1>1, <1>3, <1>5 DEF Sano, Orden, Duenios, Propios
<1>16. Turno'
  <2>1. Dispatch \in Ejecutores
    BY DEF Ejecutores
  <2>2. QED
    BY <1>1, <1>3, <1>4, <1>5, <1>14, <2>1, FondoTurno
<1>17. QED
  BY <1>9, <1>10, <1>11, <1>12, <1>13, <1>14, <1>15, <1>16 DEF Ordenados, Orden

\* The answer, after whatever the scheduler does.
LEMMA Contesta ==
  ASSUME NEW q \in ColasDe(Hilos, MensajesCpu), NEW r \in {"OK", "DESALOJO"}
  PROVE  /\ Enviar(q, Rta(r)).exec = q.exec /\ Enviar(q, Rta(r)).aCpu = Append(q.aCpu, Rta(r))
         /\ Enviar(q, Rta(r)).ready = q.ready
         /\ Responder(q, TRUE) = Enviar(q, Rta("OK")) /\ Responder(q, FALSE) = q
  BY DEF ColasDe, Enviar, Responder

\* finalizar_hilo ends with a scheduling pass and, for the handler, an answer.
LEMMA FhFinOrden ==
  ASSUME Sano, TypeOK', Lugares', NEW e \in Ejecutores, FhFin(e)
  PROVE  Ordenados'
<1> DEFINE h0 == fh[e].hilo
           q == Pcp(Colas, prioridad)
<1>1. /\ fh[e].fase = "joins" /\ fh[e].joins = <<>> /\ fh' = [fh EXCEPT ![e] = FhNada]
      /\ Quedan(Responder(q, fh[e].rta))
      /\ idLiberado' = IF fh[e].rta THEN idLiberado ELSE idLiberado \cup {h0}
      /\ UNCHANGED <<blocked, salidos, asignados, esperanJoin, pcbNew, pcbMem, pcbExit, duenio, bloqueadosMutex,
                     siguientePid, siguienteTid, listaIds, finalizado, finPend, fin, dump,
                     rtaDump, memProc, memHilos, dumpMem, aKernel, cpu, contexto, caido>>
  BY DEF FhFin, vTcb, vPcb, vMutex, vFin, vMemoria, vCpu
<1>2. /\ \A o \in Ejecutores : o # e => fh'[o] = fh[o]
      /\ fh'[e] = FhNada /\ fh'[e].fase = "nada" /\ fh'[e].joins = <<>> /\ fh'[e].rta = FALSE
  BY <1>1 DEF FhNada, Sano, TypeOK, TipoFin
<1>3. Vivos' = Vivos /\ Creados' = Creados /\ Salientes' = Salientes
  <2>1. \A o \in Ejecutores : Saliendo(o)' = Saliendo(o)
    BY <1>1, <1>2 DEF Saliendo
  <2>2. QED
    BY <1>1, <2>1, MismaGente DEF Sano
<1>4. q \in ColasDe(Hilos, MensajesCpu) /\ Despacha(Colas, q)
  BY ColasTipo, PcpTipo, PcpSigue DEF Sano, TypeOK
<1> HIDE DEF q
<1>5. /\ ~fh[e].rta => Sigue
      /\ fh[e].rta => exec' = q.exec /\ aCpu' = Append(q.aCpu, Rta("OK"))
  <2>1. fh[e].rta \in BOOLEAN
    BY DEF Sano, TypeOK, TipoFin, FinalizacionesHilo
  <2>2. CASE fh[e].rta = FALSE
    BY <1>1, <1>4, <2>2, Contesta, SigueDeColas
  <2>3. CASE fh[e].rta = TRUE
    BY <1>1, <1>4, <2>3, Contesta DEF Quedan
  <2>4. QED
    BY <2>1, <2>2, <2>3
<1>6. h0 \in salidos /\ h0 \in Hilos /\ \A o \in Ejecutores : fh'[o].fase # "nada" => o # e
  BY <1>1, <1>2, FhEs DEF Sano, Orden, Finalizados
<1>7. fh[e].rta => e = Dispatch /\ Cancela
  BY DEF Sano, Orden, Finalizados, Cancela
<1> HIDE DEF h0
<1>8. /\ \A p \in Pids : PorTerminar(p) => Apagada(p)'
      /\ \A h \in Hilos : dump[h] = "bloquear" => exec' = <<h>> /\ aCpu' = <<>> /\ aKernel' = <<>>
  <2>1. CASE ~fh[e].rta
    BY <1>1, <1>5, <2>1, QuietoSigue
  <2>2. CASE fh[e].rta
    BY <1>7, <2>2, Ocupado DEF Libre
  <2>3. QED
    BY <2>1, <2>2
<1>9. Finalizados'
  BY <1>1, <1>2, <1>3, <1>6 DEF Sano, Orden, Finalizados
<1>10. Ids'
  BY <1>1, <1>3 DEF Sano, Orden, Ids
<1>11. Procesos'
  BY <1>1, <1>2, <1>3, <1>6, <1>8, ProcesosIgual, VivosSon DEF Sano, Orden
<1>12. EnFila' /\ Esperando' = Esperando
  <2>1. TypeOK /\ EnFila
    BY DEF Sano, Orden
  <2>2. \A o \in Ejecutores : fh'[o].joins = fh[o].joins
    BY <1>1, <1>2
  <2>3. \A h \in Hilos : Fila'[<<"join", h>>] = Fila[<<"join", h>>]
    BY <1>1, <1>3, <2>1, JoinsIguales
  <2>4. SinComunes(Filas, Fila') /\ Esperando' = Esperando
    BY <1>1, <2>1, <2>2, <2>3, FilasIgual
  <2>5. SinComunes(Filas, Fila)'
    BY <2>4 DEF Filas
  <2>6. QED
    BY <1>1, <1>2, <1>3, <1>6, <2>1, <2>2, <2>4, <2>5 DEF EnFila
<1>13. Detenidos'
  BY <1>1, <1>3, <1>12 DEF Sano, Orden, Detenidos
<1>14. Dumps'
  <2>1. \A h \in Hilos : dump[h] \notin {"nada", "bloquear"} /\ h \in Vivos' => h \in blocked'
    BY <1>1, <1>3 DEF Sano, Orden, Dumps
  <2>2. ~fh[e].rta => dump[h0] = "nada"
    BY <1>1, <1>6 DEF Sano, Orden, Dumps, h0
  <2>3. \A h \in Hilos : dump[h] # "nada" /\ h \notin idLiberado => h \notin idLiberado'
    BY <1>1, <2>2
  <2>4. QED
    BY <1>1, <1>2, <1>3, <1>6, <1>8, <2>1, <2>3, DumpsIgual DEF Sano, Orden
<1>15. Duenios'
  BY <1>1, <1>2, <1>3, <1>6 DEF Sano, Orden, Duenios, Propios
<1>16. Turno'
  <2>1. Dispatch \in Ejecutores
    BY DEF Ejecutores
  <2>2. CASE ~fh[e].rta
    <3>1. fh'[Dispatch].rta = fh[Dispatch].rta
      <4>1. fh[e].rta \in BOOLEAN
        BY DEF Sano, TypeOK, TipoFin, FinalizacionesHilo
      <4>2. QED
        BY <1>2, <2>1, <2>2, <4>1
    <3>2. QED
      BY <1>1, <1>3, <1>5, <1>14, <2>2, <3>1, FondoTurno
  <2>3. CASE fh[e].rta
    <3>1. e = Dispatch /\ Cancela /\ ~Cancela'
      BY <1>2, <1>7, <2>3 DEF Cancela
    <3>2. exec' = q.exec /\ aCpu' = Append(q.aCpu, Rta("OK"))
      BY <1>5, <2>3
    <3>3. \/ q.exec = exec /\ q.aCpu = aCpu
          \/ exec = <<>> /\ \E h \in Hilos : q.exec = <<h>> /\ q.aCpu = Append(aCpu, Ejecutar(h))
      BY <1>4 DEF Despacha, Colas
    <3>4. CASE Cancelando
      <4>1. exec = <<contexto>> /\ aCpu = <<>> /\ exec # <<>>
        BY <3>4, Cortas DEF Cancelando, EnJuego
      <4>2. exec' = exec /\ aCpu' = <<Rta("OK")>>
        BY <3>2, <3>3, <4>1, Cortas
      <4>3. Respondido'
        BY <1>1, <3>1, <3>4, <4>2 DEF Respondido, Cancelando, EnJuego, EsperaRta
      <4>4. QED
        BY <4>3 DEF Turno
    <3>5. CASE SinHilo
      <4>1. cpu = "espera" /\ Enviado(<<>>) /\ aKernel = <<>> /\ contexto \in Creados \ Vivos
        BY <3>1, <3>5 DEF SinHilo
      <4>5. \A h : Append(<<>>, Ejecutar(h)) = <<Ejecutar(h)>>
                  /\ Append(<<Ejecutar(h)>>, Rta("OK")) = <<Ejecutar(h), Rta("OK")>>
                  /\ <<Ejecutar(h), Rta("OK")>> # <<>>
        BY Cortas
      <4>2. \/ Enviado(<<Rta("OK")>>)'
            \/ \E h \in Hilos : exec' = <<h>> /\ aCpu' = <<Ejecutar(h), Rta("OK")>> /\ dump'[h] = "nada"
        <5>1. CASE exec = <<>> /\ aCpu = <<>> /\ q.exec = exec /\ q.aCpu = aCpu
          BY <3>2, <5>1, Cortas DEF Enviado
        <5>2. CASE exec = <<>> /\ aCpu = <<>>
                   /\ \E h \in Hilos : q.exec = <<h>> /\ q.aCpu = Append(aCpu, Ejecutar(h))
          <6>1. PICK h \in Hilos : q.exec = <<h>> /\ q.aCpu = Append(aCpu, Ejecutar(h))
            BY <5>2
          <6>2. exec' = <<h>> /\ aCpu' = <<Ejecutar(h), Rta("OK")>> /\ aCpu' # <<>>
            BY <3>2, <4>5, <5>2, <6>1
          <6>3. dump'[h] = "nada"
            BY <1>14, <6>2, DespachadoSinDump
          <6>4. QED
            BY <6>2, <6>3
        <5>3. CASE \E h \in Hilos : exec = <<h>> /\ aCpu = <<Ejecutar(h)>> /\ dump[h] = "nada"
          <6>1. PICK h \in Hilos : exec = <<h>> /\ aCpu = <<Ejecutar(h)>> /\ dump[h] = "nada"
            BY <5>3
          <6>2. exec # <<>>
            BY <6>1, Cortas
          <6>3. exec' = <<h>> /\ aCpu' = <<Ejecutar(h), Rta("OK")>>
            BY <3>2, <3>3, <4>5, <6>1, <6>2
          <6>4. QED
            BY <1>1, <6>1, <6>3
        <5>4. QED
          BY <3>3, <4>1, <5>1, <5>2, <5>3, EnviadoEs
      <4>3. SinHilo'
        BY <1>1, <1>3, <3>1, <4>1, <4>2 DEF SinHilo
      <4>4. QED
        BY <4>3 DEF Turno
    <3>6. QED
      BY <3>1, <3>4, <3>5 DEF Sano, Turno, Libre, Pidio, Corriendo, Pidiendo, Respondido, Cedido
  <2>4. QED
    BY <2>2, <2>3
<1>17. QED
  BY <1>9, <1>10, <1>11, <1>12, <1>13, <1>14, <1>15, <1>16 DEF Ordenados, Orden

\* A step of finalizar_hilo.
LEMMA FinalizarHiloOrden ==
  ASSUME Sano, TypeOK', Lugares', NEW e \in Ejecutores, FinalizarHilo(e)
  PROVE  Ordenados'
  BY FhTomarOrden, FhMutexOrden, FhSalirOrden, FhJoinOrden, FhFinOrden DEF FinalizarHilo
-----------------------------------------------------------------------------
(***************************************************************************)
(* atender_dump_memory.                                                    *)
(***************************************************************************)
\* A step that touches no more than READY, EXEC, BLOCKED, the messages and the dumps.
LEMMA MenosDumps ==
  ASSUME Sano, TypeOK', Lugares',
         UNCHANGED <<salidos, asignados, esperanJoin, pcbNew, pcbMem, pcbExit, siguientePid,
                     siguienteTid, listaIds, finalizado, duenio, bloqueadosMutex, fh, finPend, fin,
                     idLiberado, memProc, memHilos>>,
         \A p \in Pids : PorTerminar(p) => Apagada(p)'
  PROVE  /\ Finalizados' /\ Ids' /\ Procesos' /\ EnFila' /\ Duenios' /\ Esperando' = Esperando
         /\ Vivos' = Vivos /\ Creados' = Creados /\ Salientes' = Salientes
<1>1. Lugares /\ TypeOK
  BY DEF Sano
<1>2. Vivos' = Vivos /\ Creados' = Creados /\ Salientes' = Salientes /\ Vivos \subseteq Hilos
  BY <1>1, MismaGenteFh, VivosSon
<1>3. Finalizados'
  BY <1>2 DEF Sano, Orden, Finalizados
<1>4. Ids'
  BY <1>2 DEF Sano, Orden, Ids
<1>5. Procesos'
  BY <1>2, ProcesosIgual DEF Sano, Orden
<1>6. EnFila' /\ Esperando' = Esperando
  <2>1. EnFila
    BY DEF Sano, Orden
  <2>2. SinComunes(Filas, Fila') /\ Esperando' = Esperando
    BY <1>1, <1>2, <2>1, JoinsIguales, FilasIgual
  <2>3. SinComunes(Filas, Fila)'
    BY <2>2 DEF Filas
  <2>4. QED
    BY <1>2, <2>1, <2>2, <2>3 DEF EnFila
<1>7. Duenios'
  BY <1>2 DEF Sano, Orden, Duenios, Propios
<1>8. QED
  BY <1>2, <1>3, <1>4, <1>5, <1>6, <1>7

\* A thread that dumps is known by its own id, and waits in no queue.
LEMMA QuienVuelca ==
  ASSUME Sano, NEW h \in Hilos, dump[h] # "nada"
  PROVE  IdLeido(h) = {h} /\ h \in Creados /\ h \notin Esperando
  BY DEF Sano, Orden, Dumps, Detenidos, IdLeido

\* Those in BLOCKED, and those in the queues, are threads.
LEMMA DetenidosSon ==
  ASSUME Sano
  PROVE  blocked \subseteq Hilos /\ Esperando \subseteq Hilos
  BY VivosSon DEF Sano, TypeOK, TipoListas, Orden, EnFila

\* A thread out of EXEC, and the next one into it.
LEMMA SacaYSigue ==
  ASSUME TypeOK, NEW q \in ColasDe(Hilos, MensajesCpu), NEW h \in Hilos, q.exec = <<h>>,
         Quedan(Pcp(SacarDeExec(q, h), prioridad))
  PROVE  \/ exec' = <<>> /\ aCpu' = q.aCpu
         \/ \E g \in Hilos : exec' = <<g>> /\ aCpu' = Append(q.aCpu, Ejecutar(g))
<1> DEFINE s == SacarDeExec(q, h)
<1>1. s \in ColasDe(Hilos, MensajesCpu)
  BY SacarCorrecto
<1>2. s.exec = <<>> /\ s.aCpu = q.aCpu
  BY Cortas DEF SacarDeExec, ColasDe
<1> HIDE DEF s
<1>3. Despacha(s, Pcp(s, prioridad))
  BY <1>1, PcpSigue DEF TypeOK
<1>4. exec' = Pcp(s, prioridad).exec /\ aCpu' = Pcp(s, prioridad).aCpu
  BY DEF Quedan, s
<1>5. QED
  BY <1>2, <1>3, <1>4 DEF Despacha

\* The dump blocks its thread.
LEMMA DumpBloquearOrden ==
  ASSUME Sano, TypeOK', Lugares', NEW h \in Hilos, DumpBloquear(h)
  PROVE  Ordenados'
<1>1. /\ dump[h] = "bloquear" /\ dump' = [dump EXCEPT ![h] = "pedido"]
      /\ dumpMem' = dumpMem \cup {h}
      /\ \E v \in IdLeido(h) : Bloquear(Colas, v)
      /\ UNCHANGED <<salidos, asignados, esperanJoin, pcbNew, pcbMem, pcbExit, siguientePid,
                     siguienteTid, listaIds, finalizado, duenio, bloqueadosMutex, fh, finPend, fin,
                     idLiberado, memProc, memHilos, rtaDump, aKernel, cpu, contexto, caido>>
  BY DEF DumpBloquear, vTcb, vPcb, vMutex, vFin, vCpu
<1>2. IdLeido(h) = {h} /\ h \in Creados /\ h \notin Esperando
  BY <1>1, QuienVuelca
<1>3. exec = <<h>> /\ aCpu = <<>> /\ aKernel = <<>>
  BY <1>1 DEF Sano, Orden, Dumps
<1>4. Libre
  BY <1>1, Ocupado
<1>5. blocked' = blocked \cup {h} /\ Quedan(Pcp(SacarDeExec(Colas, h), prioridad))
  <2>1. h \in ToSet(exec) /\ Bloquear(Colas, h)
    BY <1>1, <1>2, <1>3, Cortas
  <2>2. QED
    BY <2>1 DEF Bloquear
<1>6. Colas.exec = exec /\ Colas.aCpu = aCpu
  BY DEF Colas
<1>7. \/ exec' = <<>> /\ aCpu' = <<>>
      \/ \E g \in Hilos : exec' = <<g>> /\ aCpu' = <<Ejecutar(g)>>
  <2>1. \/ exec' = <<>> /\ aCpu' = <<>>
        \/ \E g \in Hilos : exec' = <<g>> /\ aCpu' = Append(<<>>, Ejecutar(g))
    BY <1>3, <1>5, <1>6, ColasTipo, SacaYSigue DEF Sano, TypeOK
  <2>2. QED
    BY <2>1, Cortas
<1>8. \A g \in Hilos : dump'[g] = IF g = h THEN "pedido" ELSE dump[g]
  BY <1>1 DEF Sano, TypeOK, TipoDump
<1>9. \A p \in Pids : ~PorTerminar(p)
  <2>1. \A p \in Pids : PorTerminar(p) => exec = <<<<p, 0>>>> /\ dump[<<p, 0>>] = "nada"
    BY DEF Sano, Orden, Procesos, Apagada
  <2>2. QED
    BY <1>1, <1>3, <2>1, Cortas
<1>10. /\ Finalizados' /\ Ids' /\ Procesos' /\ EnFila' /\ Duenios' /\ Esperando' = Esperando
       /\ Vivos' = Vivos /\ Creados' = Creados
  BY <1>1, <1>9, MenosDumps
<1>11. Detenidos'
  BY <1>2, <1>5, <1>8, <1>10, DetenidosSon DEF Sano, Orden, Detenidos
<1>12. \A g \in Hilos : dump'[g] # "bloquear"
  <2>1. \A g \in Hilos : dump[g] = "bloquear" => exec = <<g>>
    BY DEF Sano, Orden, Dumps
  <2>2. QED
    BY <1>3, <1>8, <2>1, Cortas
<1>13. Dumps'
  BY <1>1, <1>2, <1>5, <1>8, <1>10, <1>12 DEF Sano, Orden, Dumps
<1>14. Enviado(<<>>)'
  <2>1. CASE exec' = <<>> /\ aCpu' = <<>>
    BY <2>1 DEF Enviado
  <2>2. CASE \E g \in Hilos : exec' = <<g>> /\ aCpu' = <<Ejecutar(g)>>
    <3>1. PICK g \in Hilos : exec' = <<g>> /\ aCpu' = <<Ejecutar(g)>>
      BY <2>2
    <3>2. aCpu' # <<>> /\ Append(<<>>, Ejecutar(g)) = <<Ejecutar(g)>>
      BY <3>1, Cortas
    <3>3. dump'[g] = "nada"
      BY <1>13, <3>1, <3>2, DespachadoSinDump
    <3>4. QED
      BY <3>1, <3>2, <3>3 DEF Enviado
  <2>3. QED
    BY <1>7, <2>1, <2>2
<1>15. Libre'
  BY <1>1, <1>4, <1>10, <1>14 DEF Libre, Cancela
<1>16. QED
  BY <1>10, <1>11, <1>13, <1>15 DEF Ordenados, Orden, Turno

\* Memoria answers a dump.
LEMMA DumpResponderOrden ==
  ASSUME FinLimpio, Sano, TypeOK', Lugares', NEW h \in Hilos, DumpResponder(h)
  PROVE  Ordenados'
<1>1. /\ h \in dumpMem /\ dumpMem' = dumpMem \ {h}
      /\ \E v \in IdLeido(h) :
           IF v[1] \in memProc
           THEN /\ \E r \in IF DumpFalla THEN {"OK", "ERROR"} ELSE {"OK"} : rtaDump' = r
                /\ dump' = [dump EXCEPT ![h] = "respondido"]
                /\ UNCHANGED caido
           ELSE Crash("memoria") /\ UNCHANGED <<rtaDump, dump>>
      /\ UNCHANGED <<salidos, asignados, esperanJoin, pcbNew, pcbMem, pcbExit, siguientePid,
                     siguienteTid, listaIds, finalizado, duenio, bloqueadosMutex, fh, finPend, fin,
                     idLiberado, memProc, memHilos, exec, blocked, aCpu, aKernel, cpu, contexto>>
  BY DEF DumpResponder, vListas, vTcb, vPcb, vMutex, vFin, vCpu
<1>2. dump[h] = "pedido"
  BY <1>1 DEF Sano, Orden, Dumps
<1>3. IdLeido(h) = {h} /\ h \in Creados
  BY <1>2, QuienVuelca
<1>4. Sigue
  BY <1>1 DEF Sigue
<1>5. \/ rtaDump' = "OK" /\ dump' = [dump EXCEPT ![h] = "respondido"] /\ caido' = caido
      \/ caido' = "memoria" /\ dump' = dump
  BY <1>1, <1>3 DEF FinLimpio, Crash
<1>6. \A g \in Hilos : dump'[g] = dump[g] \/ (g = h /\ dump'[g] = "respondido" /\ rtaDump' = "OK")
  BY <1>5 DEF Sano, TypeOK, TipoDump
<1>7. \A g \in Hilos : dump[g] \in {"nada", "bloquear"} => dump'[g] = dump[g]
  BY <1>2, <1>6
<1>8. /\ \A p \in Pids : PorTerminar(p) => Apagada(p)'
      /\ \A g \in Hilos : dump[g] = "bloquear" => exec' = <<g>> /\ aCpu' = <<>> /\ aKernel' = <<>>
  BY <1>1, <1>4, <1>7, QuietoSigue
<1>9. /\ Finalizados' /\ Ids' /\ Procesos' /\ EnFila' /\ Duenios' /\ Esperando' = Esperando
      /\ Vivos' = Vivos /\ Creados' = Creados /\ Salientes' = Salientes
  BY <1>1, <1>8, MenosDumps
<1>10. Turno'
  BY <1>1, <1>4, <1>7, <1>9, FondoTurno
<1>11. CASE caido' = "memoria"
  BY <1>10, <1>11 DEF Ordenados, EnMarcha
<1>12. CASE rtaDump' = "OK" /\ dump' = [dump EXCEPT ![h] = "respondido"]
  <2>1. \A g \in Hilos : dump'[g] = IF g = h THEN "respondido" ELSE dump[g]
    BY <1>12 DEF Sano, TypeOK, TipoDump
  <2>2. Detenidos'
    BY <1>1, <1>2, <1>9, <2>1, DetenidosSon DEF Sano, Orden, Detenidos
  <2>3. Dumps'
    BY <1>1, <1>2, <1>3, <1>9, <1>12, <2>1 DEF Sano, Orden, Dumps
  <2>4. QED
    BY <1>9, <1>10, <2>2, <2>3 DEF Ordenados, Orden
<1>13. QED
  BY <1>5, <1>11, <1>12

\* The thread comes back from its dump.
LEMMA DumpConcluirOrden ==
  ASSUME Sano, TypeOK', Lugares', NEW h \in Hilos, DumpConcluir(h)
  PROVE  Ordenados'
<1>1. /\ dump[h] = "respondido" /\ dump' = [dump EXCEPT ![h] = "nada"]
      /\ \E v \in IdLeido(h) :
           IF rtaDump = "OK"
           THEN /\ Quedan(Desbloquear(Colas, v)) /\ blocked' = blocked \ {v}
                /\ UNCHANGED finPend
           ELSE /\ finPend' = IF v \in Hilos THEN [finPend EXCEPT ![v[1]] = @ + 1] ELSE finPend
                /\ Quedan(Colas) /\ UNCHANGED blocked
      /\ UNCHANGED <<salidos, asignados, esperanJoin, pcbNew, pcbMem, pcbExit, siguientePid,
                     siguienteTid, listaIds, finalizado, duenio, bloqueadosMutex, fh, fin, rtaDump,
                     idLiberado, memProc, memHilos, dumpMem, aKernel, cpu, contexto, caido>>
  BY DEF DumpConcluir, vTcb, vPcb, vMutex, vMemoria, vCpu
<1>2. rtaDump = "OK" /\ h \notin dumpMem
  BY <1>1 DEF Sano, Orden, Dumps
<1>3. IdLeido(h) = {h} /\ h \in Creados /\ h \notin Esperando
  BY <1>1, QuienVuelca
<1>4. Quedan(Desbloquear(Colas, h)) /\ blocked' = blocked \ {h} /\ finPend' = finPend
  BY <1>1, <1>2, <1>3
<1>5. Sigue
  BY <1>4, ColasTipo, DesbloquearSigue, SigueDeColas DEF Sano, TypeOK
<1>6. \A g \in Hilos : dump'[g] = IF g = h THEN "nada" ELSE dump[g]
  BY <1>1 DEF Sano, TypeOK, TipoDump
<1>7. \A g \in Hilos : dump[g] \in {"nada", "bloquear"} => dump'[g] = dump[g]
  BY <1>1, <1>6
<1>8. /\ \A p \in Pids : PorTerminar(p) => Apagada(p)'
      /\ \A g \in Hilos : dump[g] = "bloquear" => exec' = <<g>> /\ aCpu' = <<>> /\ aKernel' = <<>>
  BY <1>1, <1>5, <1>7, QuietoSigue
<1>9. /\ Finalizados' /\ Ids' /\ Procesos' /\ EnFila' /\ Duenios' /\ Esperando' = Esperando
      /\ Vivos' = Vivos /\ Creados' = Creados /\ Salientes' = Salientes
  BY <1>1, <1>4, <1>8, MenosDumps
<1>10. Detenidos'
  BY <1>3, <1>4, <1>6, <1>9, DetenidosSon DEF Sano, Orden, Detenidos
<1>11. Dumps'
  BY <1>1, <1>2, <1>4, <1>6, <1>8, <1>9 DEF Sano, Orden, Dumps
<1>12. Turno'
  BY <1>1, <1>4, <1>5, <1>7, <1>9, <1>11, FondoTurno
<1>13. QED
  BY <1>9, <1>10, <1>11, <1>12 DEF Ordenados, Orden

\* A step of atender_dump_memory.
LEMMA DumpMemoryOrden ==
  ASSUME FinLimpio, Sano, TypeOK', Lugares', NEW h \in Hilos, DumpMemory(h)
  PROVE  Ordenados'
  BY DumpBloquearOrden, DumpResponderOrden, DumpConcluirOrden DEF DumpMemory
-----------------------------------------------------------------------------
(***************************************************************************)
(* finalizar_proceso.                                                      *)
(***************************************************************************)
\* A step that touches only the processes and the finalizers of processes.
LEMMA FinComun ==
  ASSUME Sano, TypeOK', Lugares',
         UNCHANGED <<exec, blocked, salidos, asignados, esperanJoin, siguienteTid, duenio, bloqueadosMutex,
                     fh, dump, rtaDump, idLiberado, memHilos, dumpMem, aKernel, aCpu, cpu, contexto>>,
         \A p \in Pids : PorTerminar(p)' <=> PorTerminar(p)
  PROVE  /\ Finalizados' /\ EnFila' /\ Detenidos' /\ Dumps' /\ Duenios' /\ Turno'
         /\ Vivos' = Vivos /\ Creados' = Creados /\ Salientes' = Salientes
<1>1. Lugares /\ TypeOK
  BY DEF Sano
<1>2. Vivos' = Vivos /\ Creados' = Creados /\ Salientes' = Salientes
  BY <1>1, MismaGenteFh
<1>3. Finalizados'
  BY <1>2 DEF Sano, Orden, Finalizados
<1>6. EnFila' /\ Esperando' = Esperando
  <2>1. EnFila
    BY DEF Sano, Orden
  <2>2. SinComunes(Filas, Fila') /\ Esperando' = Esperando
    BY <1>1, <1>2, <2>1, JoinsIguales, FilasIgual
  <2>3. SinComunes(Filas, Fila)'
    BY <2>2 DEF Filas
  <2>4. QED
    BY <1>2, <2>1, <2>2, <2>3 DEF EnFila
<1>7. Detenidos'
  BY <1>2, <1>6 DEF Sano, Orden, Detenidos
<1>8. Dumps'
  BY <1>2 DEF Sano, Orden, Dumps
<1>9. Duenios'
  BY <1>2 DEF Sano, Orden, Duenios, Propios
<1>10. Turno'
  <2>1. Sigue
    BY DEF Sigue
  <2>2. \A p \in Pids : Solo(p) => Solo(p)'
    BY <1>2 DEF Solo
  <2>3. QED
    BY <1>2, <2>1, <2>2, TurnoSigue DEF Sano
<1>11. QED
  BY <1>2, <1>3, <1>6, <1>7, <1>8, <1>9, <1>10

\* The thread 0 of a process to be finalized is alive, in EXEC, and nobody dumps from there.
LEMMA CeroEspera ==
  ASSUME Sano, NEW p \in Pids, PorTerminar(p)
  PROVE  /\ Apagada(p) /\ Solo(p) /\ p \in pcbMem /\ p \notin pcbExit
         /\ <<p, 0>> \in Hilos /\ <<p, 0>> \in Vivos /\ <<p, 0>> \notin salidos
         /\ \A q \in Pids : PorTerminar(q) => q = p
         /\ \A h \in Hilos : dump[h] # "bloquear"
         /\ Libre
<1>1. Apagada(p) /\ Solo(p) /\ p \in pcbMem /\ p \notin pcbExit
  BY DEF Sano, Orden, Procesos, Terminando
<1>2. exec = <<<<p, 0>>>> /\ dump[<<p, 0>>] = "nada"
  BY <1>1 DEF Apagada
<1>3. <<p, 0>> \in Hilos
  BY ConstantesTipo DEF Hilos
<1>4. <<p, 0>> \in Vivos
  BY <1>2, Cortas, VivosSon DEF Sano
<1>5. <<p, 0>> \notin salidos
  BY <1>4, VivosSon DEF Sano
<1>6. ASSUME NEW q \in Pids, PorTerminar(q) PROVE q = p
  <2>1. exec = <<<<q, 0>>>>
    BY <1>6 DEF Sano, Orden, Procesos, Apagada
  <2>2. <<p, 0>> = <<q, 0>>
    BY <1>2, <2>1, Cortas
  <2>3. QED
    BY <2>2
<1>7. ASSUME NEW h \in Hilos, dump[h] = "bloquear" PROVE FALSE
  <2>1. exec = <<h>>
    BY <1>7 DEF Sano, Orden, Dumps
  <2>2. h = <<p, 0>>
    BY <1>2, <2>1, Cortas
  <2>3. QED
    BY <1>2, <1>7, <2>2
<1>8. Libre
  BY Ocupado
<1>9. QED
  BY <1>1, <1>3, <1>4, <1>5, <1>6, <1>7, <1>8

\* Memoria frees the process, all of whose threads but thread 0 are in EXIT.
LEMMA FinMemoriaOrden ==
  ASSUME Sano, TypeOK', Lugares', NEW p \in Pids, FinMemoria(p)
  PROVE  Ordenados'
<1>1. /\ finPend[p] > 0 /\ finPend' = [finPend EXCEPT ![p] = @ - 1]
      /\ IF p \in pcbExit
         THEN UNCHANGED <<memProc, finalizado, fin, caido>>
         ELSE IF p \in memProc
         THEN /\ memProc' = memProc \ {p}
              /\ finalizado' = [finalizado EXCEPT ![p] = TRUE]
              /\ fin' = [fin EXCEPT ![p].fase = "tomar"]
              /\ UNCHANGED caido
         ELSE Crash("memoria") /\ UNCHANGED <<memProc, finalizado, fin>>
      /\ UNCHANGED <<exec, blocked, salidos, asignados, esperanJoin, siguienteTid, duenio, bloqueadosMutex,
                     fh, dump, rtaDump, idLiberado, memHilos, dumpMem, aKernel, aCpu, cpu, contexto,
                     pcbNew, pcbMem, pcbExit, siguientePid, listaIds>>
  BY DEF FinMemoria, vListas, vTcb, vMutex, vDump, vCpu
<1>2. PorTerminar(p)
  BY <1>1 DEF PorTerminar
<1>3. /\ Apagada(p) /\ Solo(p) /\ p \in pcbMem /\ p \notin pcbExit /\ <<p, 0>> \in Vivos
      /\ \A q \in Pids : PorTerminar(q) => q = p
  BY <1>2, CeroEspera
<1>4. finPend[p] = 1 /\ fin[p].fase = "nada"
  <2>1. finPend[p] = 0 \/ (finPend[p] = 1 /\ fin[p].fase = "nada")
    BY DEF Sano, Orden, Procesos
  <2>2. QED
    BY <1>1, <2>1
<1>5. p \in memProc
  <2>1. <<p, 0>>[1] = p
    OBVIOUS
  <2>2. p \in memProc \/ fin[p].fase \in {"tomar", "hilos"}
    BY <1>3, <2>1 DEF Sano, Orden, Procesos
  <2>3. QED
    BY <1>4, <2>2
<1>6. /\ memProc' = memProc \ {p} /\ finalizado' = [finalizado EXCEPT ![p] = TRUE]
      /\ fin' = [fin EXCEPT ![p].fase = "tomar"] /\ caido' = caido
  BY <1>1, <1>3, <1>5
<1>7. /\ \A q \in Pids : /\ finPend'[q] = IF q = p THEN 0 ELSE finPend[q]
                         /\ finalizado'[q] = IF q = p THEN TRUE ELSE finalizado[q]
                         /\ q # p => fin'[q] = fin[q]
      /\ fin'[p].fase = "tomar"
  BY <1>1, <1>4, <1>6 DEF Sano, TypeOK, TipoFin, TipoPcb
<1>8. \A q \in Pids : (PorTerminar(q)' <=> PorTerminar(q)) /\ (Terminando(q)' <=> Terminando(q))
  BY <1>2, <1>7 DEF PorTerminar, Terminando
<1>9. /\ Finalizados' /\ EnFila' /\ Detenidos' /\ Dumps' /\ Duenios' /\ Turno'
      /\ Vivos' = Vivos /\ Creados' = Creados /\ Salientes' = Salientes
  BY <1>1, <1>8, FinComun
<1>10. Ids'
  <2>1. \A q \in Pids : fin[q].fase \in {"hilos", "cero"} => fin'[q].fase \in {"hilos", "cero"}
    BY <1>4, <1>7
  <2>2. QED
    BY <1>1, <1>9, <2>1 DEF Sano, Orden, Ids
<1>11. Procesos'
  <2>1. \A h \in Vivos : h[1] \in Pids
    BY VivosSon DEF Sano, Hilos
  <2>2. \A h \in Vivos' : /\ h[1] \in pcbMem'
                          /\ h[1] \in memProc' \/ fin'[h[1]].fase \in {"tomar", "hilos"}
                          /\ finalizado'[h[1]] => PorTerminar(h[1])'
    BY <1>1, <1>2, <1>6, <1>7, <1>8, <1>9, <2>1 DEF Sano, Orden, Procesos
  <2>3. \A q \in Pids : Apagada(q) => Apagada(q)'
    BY <1>1 DEF Apagada
  <2>4. \A q \in Pids : Solo(q) => Solo(q)'
    BY <1>9 DEF Solo
  <2>5. \A q \in Pids :
          /\ Terminando(q)' => Solo(q)' /\ q \in pcbMem'
          /\ finalizado'[q] => q \in pcbMem' \cup pcbExit'
          /\ PorTerminar(q)' => Apagada(q)'
          /\ finPend'[q] = 0 \/ (finPend'[q] = 1 /\ fin'[q].fase = "nada")
          /\ fin'[q].fase = "cero" => \A h \in Vivos' : h[1] # q
          /\ fin'[q].fase = "hilos" => fin'[q].cero /\ <<q, 0>> \notin ToSet(listaIds'[q])
    <3>1. \A q \in Pids :
            /\ Terminando(q) => Solo(q) /\ q \in pcbMem
            /\ finalizado[q] => q \in pcbMem \cup pcbExit
            /\ PorTerminar(q) => Apagada(q)
            /\ finPend[q] = 0 \/ (finPend[q] = 1 /\ fin[q].fase = "nada")
            /\ fin[q].fase = "cero" => \A h \in Vivos : h[1] # q
            /\ fin[q].fase = "hilos" => fin[q].cero /\ <<q, 0>> \notin ToSet(listaIds[q])
      BY DEF Sano, Orden, Procesos
    <3>2. SUFFICES ASSUME NEW q \in Pids
                   PROVE  /\ Terminando(q)' => Solo(q)' /\ q \in pcbMem'
                          /\ finalizado'[q] => q \in pcbMem' \cup pcbExit'
                          /\ PorTerminar(q)' => Apagada(q)'
                          /\ finPend'[q] = 0 \/ (finPend'[q] = 1 /\ fin'[q].fase = "nada")
                          /\ fin'[q].fase = "cero" => \A h \in Vivos' : h[1] # q
                          /\ fin'[q].fase = "hilos" => fin'[q].cero /\ <<q, 0>> \notin ToSet(listaIds'[q])
      BY Zenon
    <3>3. /\ Terminando(q)' => Solo(q)' /\ q \in pcbMem'
          /\ PorTerminar(q)' => Apagada(q)'
      BY <1>1, <1>8, <2>3, <2>4, <3>1
    <3>4. CASE q = p
      BY <1>1, <1>3, <1>7, <3>3, <3>4
    <3>5. CASE q # p
      <4>1. /\ finPend'[q] = finPend[q] /\ finalizado'[q] = finalizado[q] /\ fin'[q] = fin[q]
            /\ pcbMem' = pcbMem /\ pcbExit' = pcbExit /\ listaIds' = listaIds /\ Vivos' = Vivos
        BY <1>1, <1>7, <1>9, <3>5
      <4>2. /\ finalizado[q] => q \in pcbMem \cup pcbExit
            /\ finPend[q] = 0 \/ (finPend[q] = 1 /\ fin[q].fase = "nada")
            /\ fin[q].fase = "cero" => \A h \in Vivos : h[1] # q
            /\ fin[q].fase = "hilos" => fin[q].cero /\ <<q, 0>> \notin ToSet(listaIds[q])
        BY ONLY <3>1, q \in Pids
      <4>3. QED
        BY ONLY <3>3, <4>1, <4>2
    <3>6. QED
      BY <3>4, <3>5
  <2>6. \A e \in Ejecutores : fh'[e].fase # "nada" =>
          /\ e # Dispatch => fh'[e].hilo = <<e, 0>> /\ fin'[e].fase = "cero"
          /\ \A q : q = fh'[e].hilo[1] /\ Terminando(q)' => e = q
    <3>1. \A e \in Ejecutores : e # Dispatch => e \in Pids
      BY DEF Ejecutores
    <3>2. \A e \in Ejecutores : fh[e].fase # "nada" => fh[e].hilo[1] \in Pids
      BY FhEs DEF Hilos
    <3>3. \A e \in Ejecutores : fh[e].fase # "nada" =>
            /\ e # Dispatch => fh[e].hilo = <<e, 0>> /\ fin[e].fase = "cero"
            /\ \A q : q = fh[e].hilo[1] /\ Terminando(q) => e = q
      BY DEF Sano, Orden, Procesos
    <3>4. \A e \in Ejecutores : fin[e].fase = "cero" /\ e # Dispatch => fin'[e].fase = "cero"
      BY <1>4, <1>7, <3>1
    <3>5. QED
      BY <1>1, <1>8, <3>2, <3>3, <3>4
  <2>7. \A q \in pcbExit' : q \notin pcbMem' /\ q \notin ToSet(pcbNew') /\ q < siguientePid'
    BY <1>1 DEF Sano, Orden, Procesos
  <2>8. QED
    BY <2>2, <2>5, <2>6, <2>7 DEF Procesos
<1>12. QED
  BY <1>9, <1>10, <1>11 DEF Ordenados, Orden

\* eliminar_hilos goes on with the threads of p other than thread 0.
LEMMA HilosOrden ==
  ASSUME Sano, TypeOK', Lugares', NEW p \in Pids, fin[p].fase \in {"tomar", "hilos"},
         UNCHANGED <<exec, blocked, salidos, asignados, esperanJoin, siguienteTid, duenio, bloqueadosMutex,
                     fh, dump, rtaDump, idLiberado, memHilos, dumpMem, aKernel, aCpu, cpu, contexto,
                     pcbNew, pcbMem, pcbExit, siguientePid, finPend, finalizado, memProc>>,
         fin'[p].fase = "hilos", fin'[p].cero, <<p, 0>> \notin ToSet(listaIds'[p]),
         \A q \in Pids : q # p => fin'[q] = fin[q] /\ listaIds'[q] = listaIds[q],
         IsInjective(listaIds'[p]), ToSet(listaIds'[p]) \subseteq ToSet(listaIds[p])
  PROVE  Ordenados'
<1>1. PorTerminar(p)
  BY DEF PorTerminar
<1>2. \A q \in Pids : (PorTerminar(q)' <=> PorTerminar(q)) /\ (Terminando(q)' <=> Terminando(q))
  BY <1>1 DEF PorTerminar, Terminando
<1>3. /\ Finalizados' /\ EnFila' /\ Detenidos' /\ Dumps' /\ Duenios' /\ Turno'
      /\ Vivos' = Vivos /\ Creados' = Creados /\ Salientes' = Salientes
  BY <1>2, FinComun
<1>4. Ids'
  BY <1>3 DEF Sano, Orden, Ids
<1>5. Procesos'
  <2>1. \A h \in Vivos : h[1] \in Pids
    BY VivosSon DEF Sano, Hilos
  <2>2. \A h \in Vivos' : /\ h[1] \in pcbMem'
                          /\ h[1] \in memProc' \/ fin'[h[1]].fase \in {"tomar", "hilos"}
                          /\ finalizado'[h[1]] => PorTerminar(h[1])'
    <3>1. \A q \in Pids : fin[q].fase \in {"tomar", "hilos"} => fin'[q].fase \in {"tomar", "hilos"}
      OBVIOUS
    <3>2. QED
      BY <1>2, <1>3, <2>1, <3>1 DEF Sano, Orden, Procesos
  <2>3. \A q \in Pids : Apagada(q) => Apagada(q)'
    BY DEF Apagada
  <2>4. \A q \in Pids : Solo(q) => Solo(q)'
    BY <1>3 DEF Solo
  <2>5. \A q \in Pids :
          /\ Terminando(q)' => Solo(q)' /\ q \in pcbMem'
          /\ finalizado'[q] => q \in pcbMem' \cup pcbExit'
          /\ PorTerminar(q)' => Apagada(q)'
          /\ finPend'[q] = 0 \/ (finPend'[q] = 1 /\ fin'[q].fase = "nada")
          /\ fin'[q].fase = "cero" => \A h \in Vivos' : h[1] # q
          /\ fin'[q].fase = "hilos" => fin'[q].cero /\ <<q, 0>> \notin ToSet(listaIds'[q])
    <3>1. \A q \in Pids :
            /\ Terminando(q) => Solo(q) /\ q \in pcbMem
            /\ finalizado[q] => q \in pcbMem \cup pcbExit
            /\ PorTerminar(q) => Apagada(q)
            /\ finPend[q] = 0 \/ (finPend[q] = 1 /\ fin[q].fase = "nada")
            /\ fin[q].fase = "cero" => \A h \in Vivos : h[1] # q
            /\ fin[q].fase = "hilos" => fin[q].cero /\ <<q, 0>> \notin ToSet(listaIds[q])
      BY DEF Sano, Orden, Procesos
    <3>2. SUFFICES ASSUME NEW q \in Pids
                   PROVE  /\ Terminando(q)' => Solo(q)' /\ q \in pcbMem'
                          /\ finalizado'[q] => q \in pcbMem' \cup pcbExit'
                          /\ PorTerminar(q)' => Apagada(q)'
                          /\ finPend'[q] = 0 \/ (finPend'[q] = 1 /\ fin'[q].fase = "nada")
                          /\ fin'[q].fase = "cero" => \A h \in Vivos' : h[1] # q
                          /\ fin'[q].fase = "hilos" => fin'[q].cero /\ <<q, 0>> \notin ToSet(listaIds'[q])
      BY Zenon
    <3>3. /\ Terminando(q)' => Solo(q)' /\ q \in pcbMem'
          /\ PorTerminar(q)' => Apagada(q)'
      BY <1>2, <2>3, <2>4, <3>1
    <3>4. CASE q = p
      BY <3>1, <3>3, <3>4
    <3>5. CASE q # p
      BY <1>3, <3>1, <3>3, <3>5
    <3>6. QED
      BY <3>4, <3>5
  <2>6. \A e \in Ejecutores : fh'[e].fase # "nada" =>
          /\ e # Dispatch => fh'[e].hilo = <<e, 0>> /\ fin'[e].fase = "cero"
          /\ \A q : q = fh'[e].hilo[1] /\ Terminando(q)' => e = q
    <3>1. \A e \in Ejecutores : e # Dispatch => e \in Pids
      BY DEF Ejecutores
    <3>2. \A e \in Ejecutores : fh[e].fase # "nada" => fh[e].hilo[1] \in Pids
      BY FhEs DEF Hilos
    <3>3. \A e \in Ejecutores : fh[e].fase # "nada" =>
            /\ e # Dispatch => fh[e].hilo = <<e, 0>> /\ fin[e].fase = "cero"
            /\ \A q : q = fh[e].hilo[1] /\ Terminando(q) => e = q
      BY DEF Sano, Orden, Procesos
    <3>4. \A e \in Ejecutores : fin[e].fase = "cero" /\ e # Dispatch => fin'[e].fase = "cero"
      BY <3>1
    <3>5. QED
      BY <1>2, <3>2, <3>3, <3>4
  <2>7. \A q \in pcbExit' : q \notin pcbMem' /\ q \notin ToSet(pcbNew') /\ q < siguientePid'
    BY DEF Sano, Orden, Procesos
  <2>8. QED
    BY <2>2, <2>5, <2>6, <2>7 DEF Procesos
<1>6. QED
  BY <1>3, <1>4, <1>5 DEF Ordenados, Orden

\* finalizar_proceso takes thread 0 out of the list of ids.
LEMMA FinTomarOrden ==
  ASSUME Sano, TypeOK', Lugares', NEW p \in Pids, FinTomar(p)
  PROVE  Ordenados'
<1>1. /\ fin[p].fase = "tomar"
      /\ fin' = [fin EXCEPT ![p] = [fase |-> "hilos", i |-> 1, cero |-> <<p, 0>> \in ToSet(listaIds[p])]]
      /\ listaIds' = [listaIds EXCEPT ![p] = RemoveFirst(@, <<p, 0>>)]
      /\ UNCHANGED <<exec, blocked, salidos, asignados, esperanJoin, siguienteTid, duenio, bloqueadosMutex,
                     fh, dump, rtaDump, idLiberado, memHilos, dumpMem, aKernel, aCpu, cpu, contexto,
                     pcbNew, pcbMem, pcbExit, siguientePid, finPend, finalizado, memProc>>
  BY DEF FinTomar, vListas, vTcb, vMutex, vDump, vMemoria, vCpu
<1>2. <<p, 0>> \in ToSet(listaIds[p])
  <2>1. <<p, 0>> \notin salidos /\ p \notin pcbExit
    BY <1>1, CeroEspera DEF PorTerminar
  <2>2. QED
    BY <1>1, <2>1 DEF Sano, Orden, Ids
<1>3. /\ fin'[p].fase = "hilos" /\ fin'[p].cero
      /\ listaIds'[p] = RemoveFirst(listaIds[p], <<p, 0>>)
      /\ \A q \in Pids : q # p => fin'[q] = fin[q] /\ listaIds'[q] = listaIds[q]
  BY <1>1, <1>2 DEF Sano, TypeOK, TipoFin, TipoPcb
<1>4. IsInjective(listaIds[p]) /\ listaIds[p] \in Seq(Hilos)
  BY DEF Sano, TypeOK, TipoPcb, Orden, Ids
<1>5. IsInjective(listaIds'[p]) /\ ToSet(listaIds'[p]) = ToSet(listaIds[p]) \ {<<p, 0>>}
  BY <1>3, <1>4, RemoveFirstElementos
<1>6. QED
  BY <1>1, <1>3, <1>5, HilosOrden

\* finalizar_hilo of a thread that is not alive does nothing.
LEMMA InicioDeNadie ==
  ASSUME NEW e, NEW h, h \notin Vivos, FhInicio(e, h, FALSE)
  PROVE  UNCHANGED <<ready, exec, aCpu, blocked, memHilos, fh>>
<1>1. ~Existe(h)
  BY VivosExisten
<1>2. Quedan(Colas) /\ UNCHANGED <<blocked, memHilos, fh>>
  BY <1>1 DEF FhInicio, Responder
<1>3. QED
  BY <1>2 DEF Quedan, Colas

\* finalizar_proceso walks the list of ids, whose threads are in EXIT.
LEMMA FinHiloOrden ==
  ASSUME Sano, TypeOK', Lugares', NEW p \in Pids, FinHilo(p)
  PROVE  Ordenados'
<1> DEFINE i == fin[p].i
           h == listaIds[p][i]
<1>1. /\ fin[p].fase = "hilos" /\ fin' = [fin EXCEPT ![p].i = @ + 1] /\ i <= Len(listaIds[p])
      /\ FhInicio(p, h, FALSE)
      /\ UNCHANGED <<salidos, asignados, esperanJoin, siguienteTid, duenio, bloqueadosMutex,
                     dump, rtaDump, idLiberado, dumpMem, aKernel, cpu, contexto,
                     pcbNew, pcbMem, pcbExit, siguientePid, listaIds, finPend, finalizado, memProc>>
  BY DEF FinHilo, vTcb, vPcb, vMutex, vDump, vCpu
<1>2. listaIds[p] \in Seq(Hilos) /\ IsInjective(listaIds[p]) /\ i \in Nat \ {0}
  BY DEF Sano, TypeOK, TipoPcb, TipoFin, Orden, Ids
<1>3. h \in ToSet(listaIds[p]) /\ h \in Hilos
  BY <1>1, <1>2, Posiciones
<1>4. h[1] = p /\ h # <<p, 0>>
  <2>1. <<p, 0>> \notin ToSet(listaIds[p])
    BY <1>1 DEF Sano, Orden, Procesos
  <2>2. h[1] = p
    BY <1>3 DEF Sano, Orden, Ids
  <2>3. QED
    BY <1>3, <2>1, <2>2
<1>5. h \notin Vivos
  <2>1. Solo(p)
    BY <1>1, CeroEspera DEF PorTerminar
  <2>2. h = <<h[1], h[2]>>
    BY <1>3 DEF Hilos
  <2>3. QED
    BY <1>4, <2>1, <2>2 DEF Solo
<1> HIDE DEF h
<1>6. UNCHANGED <<exec, aCpu, blocked, memHilos, fh>>
  BY <1>1, <1>5, InicioDeNadie
<1>7. /\ fin'[p].fase = "hilos" /\ fin'[p].cero = fin[p].cero
      /\ \A q \in Pids : q # p => fin'[q] = fin[q] /\ listaIds'[q] = listaIds[q]
  BY <1>1 DEF Sano, TypeOK, TipoFin
<1>8. fin[p].cero /\ <<p, 0>> \notin ToSet(listaIds[p])
  BY <1>1 DEF Sano, Orden, Procesos
<1>9. QED
  BY <1>1, <1>2, <1>6, <1>7, <1>8, HilosOrden

\* A list without e stays as it is when e is taken from it.
LEMMA RemoveFirstAjeno ==
  ASSUME NEW S, NEW s \in Seq(S), NEW x, x \notin ToSet(s)
  PROVE  RemoveFirst(s, x) = s
<1>1. ~\E i \in 1 .. Len(s) : s[i] = x
  BY Posiciones
<1>2. QED
  BY <1>1 DEF RemoveFirst

\* What finalizar_hilo does to EXEC when it takes a thread alive.
LEMMA InicioEfecto ==
  ASSUME TypeOK, UnoEnExec, Lugares, NEW e, NEW h \in Vivos, NEW rta, FhInicio(e, h, rta)
  PROVE  /\ aCpu' = aCpu /\ blocked' = blocked \ {h} /\ memHilos' = memHilos \ {h}
         /\ fh' = [fh EXCEPT ![e] = [fase |-> "pedido", hilo |-> h, mutexes |-> asignados[h],
                                     joins |-> esperanJoin[h], rta |-> rta]]
         /\ exec = <<h>> => exec' = <<>>
         /\ exec # <<h>> => exec' = exec
<1>1. Existe(h)
  BY VivosExisten
<1>2. /\ Quedan(IF h \in ToSet(ready) THEN [Colas EXCEPT !.ready = RemoveFirst(@, h)]
                ELSE SacarDeExec(Colas, h))
      /\ blocked' = blocked \ {h} /\ memHilos' = memHilos \ {h}
      /\ fh' = [fh EXCEPT ![e] = [fase |-> "pedido", hilo |-> h, mutexes |-> asignados[h],
                                  joins |-> esperanJoin[h], rta |-> rta]]
  BY <1>1 DEF FhInicio
<1>3. aCpu' = aCpu /\ exec' = IF h \in ToSet(ready) THEN exec ELSE RemoveFirst(exec, h)
  BY <1>2 DEF Quedan, Colas, SacarDeExec
<1>4. h \in ToSet(exec) => h \notin ToSet(ready)
  BY DEF Lugares, SinRepetidos, Colas
<1>5. CASE exec = <<h>>
  <2>1. h \in ToSet(exec) /\ RemoveFirst(exec, h) = <<>>
    BY <1>5, Cortas
  <2>2. QED
    BY <1>2, <1>3, <1>4, <1>5, <2>1
<1>6. CASE exec # <<h>>
  <2>1. h \notin ToSet(exec)
    BY <1>6, ExecEs, VacioElementos
  <2>2. RemoveFirst(exec, h) = exec
    BY <2>1, RemoveFirstAjeno DEF TypeOK, TipoListas
  <2>3. QED
    BY <1>2, <1>3, <1>6, <2>2
<1>7. QED
  BY <1>5, <1>6

(* finalizar_hilo takes a thread alive: the clauses that do not look at the
   processes. *)
LEMMA InicioOrden ==
  ASSUME Sano, TypeOK', Lugares', NEW e \in Ejecutores, fh[e].fase = "nada", NEW h \in Vivos,
         NEW rta \in BOOLEAN, FhInicio(e, h, rta), e # Dispatch => rta = FALSE,
         dump[h] # "nada" => rta, \A g \in Hilos : dump[g] # "bloquear",
         UNCHANGED <<salidos, asignados, esperanJoin, pcbExit, siguienteTid, listaIds, duenio,
                     bloqueadosMutex, dump, rtaDump, idLiberado, dumpMem>>,
         \A p \in Pids : fin[p].fase \in {"hilos", "cero"} => fin'[p].fase \in {"hilos", "cero"}
  PROVE  /\ Finalizados' /\ Ids' /\ EnFila' /\ Detenidos' /\ Dumps' /\ Duenios'
         /\ Vivos' = Vivos \ {h} /\ Creados' = Creados /\ Salientes' = Salientes \cup {h}
         /\ \A o \in Ejecutores : o # e => fh'[o] = fh[o]
         /\ fh'[e].fase = "pedido" /\ fh'[e].hilo = h /\ fh'[e].rta = rta
<1> DEFINE r == [fase |-> "pedido", hilo |-> h, mutexes |-> asignados[h], joins |-> esperanJoin[h], rta |-> rta]
<1>1. /\ aCpu' = aCpu /\ blocked' = blocked \ {h} /\ memHilos' = memHilos \ {h}
      /\ fh' = [fh EXCEPT ![e] = r]
  BY InicioEfecto DEF Sano
<1>2. /\ r.fase = "pedido" /\ r.hilo = h /\ r.mutexes = asignados[h] /\ r.joins = esperanJoin[h] /\ r.rta = rta
  OBVIOUS
<1> HIDE DEF r
<1>3. /\ \A o \in Ejecutores : o # e => fh'[o] = fh[o]
      /\ fh'[e] = r
  BY <1>1 DEF Sano, TypeOK, TipoFin
<1>4. h \in Hilos /\ h \notin salidos /\ h \in Creados /\ Vivos \subseteq Hilos
  BY VivosSon DEF Sano
<1>5. Vivos' = Vivos \ {h} /\ Creados' = Creados /\ Salientes' = Salientes \cup {h}
  <2>1. TypeOK /\ Lugares
    BY DEF Sano
  <2>2. QED
    BY <1>1, <1>2, <2>1, UnoMenos
<1>6. Finalizados'
  <2>1. memHilos' \subseteq Vivos' /\ idLiberado' \subseteq salidos'
    BY <1>1, <1>5 DEF Sano, Orden, Finalizados
  <2>2. \A o \in Ejecutores :
          /\ fh'[o].fase = "nada" => fh'[o] = FhNada
          /\ fh'[o].fase = "joins" => fh'[o].hilo \in salidos' /\ fh'[o].mutexes = <<>>
          /\ o # Dispatch => fh'[o].rta = FALSE
    BY <1>2, <1>3 DEF Sano, Orden, Finalizados
  <2>3. QED
    BY <2>1, <2>2 DEF Finalizados
<1>7. Ids'
  BY <1>5 DEF Sano, Orden, Ids
<1>8. EnFila' /\ Esperando' = Esperando
  <2>1. TypeOK /\ EnFila /\ Finalizados
    BY DEF Sano, Orden
  <2>2. SinComunes(Filas, Fila') /\ Esperando' = Esperando
    BY <1>1, <1>2, <1>4, <1>5, <2>1, FilasInicio
  <2>3. SinComunes(Filas, Fila)'
    BY <2>2 DEF Filas
  <2>4. \A o \in Ejecutores :
          fh'[o].fase # "nada" => ToSet(fh'[o].joins) \subseteq ToSet(esperanJoin'[fh'[o].hilo])
    BY <1>2, <1>3, <2>1 DEF EnFila
  <2>5. QED
    BY <1>5, <2>1, <2>2, <2>3, <2>4 DEF EnFila
<1>9. Detenidos'
  BY <1>1, <1>5, <1>8 DEF Sano, Orden, Detenidos
<1>10. Dumps'
  <2>1. \A g \in Hilos : dump[g] \notin {"nada", "bloquear"} /\ g \in Vivos' => g \in blocked'
    BY <1>1, <1>5 DEF Sano, Orden, Dumps
  <2>2. \A o \in Ejecutores : fh'[o].fase # "nada" /\ dump[fh'[o].hilo] # "nada" =>
           \/ fh'[o].rta
           \/ fh[o].fase # "nada" /\ fh'[o].hilo = fh[o].hilo /\ fh'[o].rta = fh[o].rta
    BY <1>2, <1>3
  <2>3. QED
    BY <1>5, <2>1, <2>2, DumpsIgual DEF Sano, Orden
<1>11. Duenios'
  <2>1. /\ \A g \in Vivos : IsInjective(asignados[g]) /\ ToSet(asignados[g]) = Propios(g)
        /\ \A o \in Ejecutores : fh[o].fase # "nada" =>
             /\ IsInjective(fh[o].mutexes) /\ IsInjective(asignados[fh[o].hilo])
             /\ ToSet(fh[o].mutexes) = Propios(fh[o].hilo)
             /\ Propios(fh[o].hilo) \subseteq ToSet(asignados[fh[o].hilo])
        /\ \A m \in Mutexes :
             /\ duenio[m] \in Vivos \cup Salientes \cup {Nadie}
             /\ bloqueadosMutex[m] # <<>> => duenio[m] # Nadie
    BY DEF Sano, Orden, Duenios
  <2>2. \A g : Propios(g)' = Propios(g)
    BY DEF Propios
  <2>3. \A o \in Ejecutores : fh'[o].fase # "nada" =>
             /\ IsInjective(fh'[o].mutexes) /\ IsInjective(asignados'[fh'[o].hilo])
             /\ \A g : g = fh'[o].hilo => /\ ToSet(fh'[o].mutexes) = Propios(g)'
                                          /\ Propios(g)' \subseteq ToSet(asignados'[g])
    BY <1>2, <1>3, <2>1, <2>2
  <2>4. \A m \in Mutexes :
             /\ duenio'[m] \in Vivos' \cup Salientes' \cup {Nadie}
             /\ bloqueadosMutex'[m] # <<>> => duenio'[m] # Nadie
    BY <1>5, <2>1
  <2>5. \A g \in Vivos' : IsInjective(asignados'[g]) /\ ToSet(asignados'[g]) = Propios(g)'
    BY <1>5, <2>1, <2>2
  <2>6. QED
    BY <2>3, <2>4, <2>5 DEF Duenios, Propios
<1>12. QED
  BY <1>2, <1>3, <1>5, <1>6, <1>7, <1>8, <1>9, <1>10, <1>11

\* finalizar_proceso finalizes thread 0.
LEMMA FinCeroOrden ==
  ASSUME Sano, TypeOK', Lugares', NEW p \in Pids, FinCero(p)
  PROVE  Ordenados'
<1> DEFINE h == <<p, 0>>
<1>1. /\ fin[p].fase = "hilos" /\ fh[p].fase = "nada" /\ fin' = [fin EXCEPT ![p].fase = "cero"]
      /\ IF fin[p].cero THEN FhInicio(p, h, FALSE) /\ UNCHANGED caido
         ELSE Crash("kernel") /\ Quedan(Colas) /\ UNCHANGED <<blocked, memHilos, fh>>
      /\ UNCHANGED <<salidos, asignados, esperanJoin, siguienteTid, duenio, bloqueadosMutex,
                     dump, rtaDump, idLiberado, dumpMem, aKernel, cpu, contexto,
                     pcbNew, pcbMem, pcbExit, siguientePid, listaIds, finPend, finalizado, memProc>>
  BY DEF FinCero, vTcb, vPcb, vMutex, vDump, vCpu
<1>2. PorTerminar(p)
  BY <1>1 DEF PorTerminar
<1>3. /\ Apagada(p) /\ Solo(p) /\ p \in pcbMem /\ h \in Vivos
      /\ \A q \in Pids : PorTerminar(q) => q = p
      /\ \A g \in Hilos : dump[g] # "bloquear"
      /\ Libre
  BY <1>2, CeroEspera
<1>4. p \in Ejecutores /\ p # Dispatch
  BY ConstantesTipo DEF Ejecutores, Dispatch
<1>5. FhInicio(p, h, FALSE) /\ caido' = caido
  BY <1>1 DEF Sano, Orden, Procesos
<1>6. exec = <<h>> /\ cpu = "libre" /\ aKernel = <<>> /\ aCpu = <<>> /\ dump[h] = "nada"
  BY <1>3 DEF Apagada
<1>7. exec' = <<>> /\ aCpu' = <<>>
  BY <1>3, <1>5, <1>6, InicioEfecto DEF Sano
<1>8. fin'[p].fase = "cero" /\ \A q \in Pids : q # p => fin'[q] = fin[q]
  BY <1>1 DEF Sano, TypeOK, TipoFin
<1>18. h[1] = p
  OBVIOUS
<1> HIDE DEF h
<1>9. /\ Finalizados' /\ Ids' /\ EnFila' /\ Detenidos' /\ Dumps' /\ Duenios'
      /\ Vivos' = Vivos \ {h} /\ Creados' = Creados /\ Salientes' = Salientes \cup {h}
      /\ \A o \in Ejecutores : o # p => fh'[o] = fh[o]
      /\ fh'[p].fase = "pedido" /\ fh'[p].hilo = h /\ fh'[p].rta = FALSE
  <2>1. \A q \in Pids : fin[q].fase \in {"hilos", "cero"} => fin'[q].fase \in {"hilos", "cero"}
    BY <1>8
  <2>2. QED
    BY <1>1, <1>3, <1>4, <1>5, <1>6, <2>1, InicioOrden
<1>10. finPend[p] = 0
  <2>1. finPend[p] = 0 \/ (finPend[p] = 1 /\ fin[p].fase = "nada")
    BY DEF Sano, Orden, Procesos
  <2>2. QED
    BY <1>1, <2>1
<1>11. /\ \A q \in Pids : ~PorTerminar(q)'
       /\ \A q \in Pids : Terminando(q)' <=> Terminando(q)
  <2>1. ~PorTerminar(p)' /\ Terminando(p) /\ Terminando(p)'
    BY <1>1, <1>2, <1>8, <1>10 DEF PorTerminar, Terminando
  <2>2. \A q \in Pids : q # p => (PorTerminar(q)' <=> PorTerminar(q)) /\ (Terminando(q)' <=> Terminando(q))
    BY <1>1, <1>8 DEF PorTerminar, Terminando
  <2>3. QED
    BY <1>3, <2>1, <2>2
<1>12. \A g \in Vivos' : g \in Vivos /\ g[1] \in Pids /\ g[1] # p
  <2>1. SUFFICES ASSUME NEW g \in Vivos' PROVE g \in Vivos /\ g[1] \in Pids /\ g[1] # p
    OBVIOUS
  <2>2. g \in Vivos /\ g # h
    BY <1>9
  <2>3. g[1] \in Pids /\ g = <<g[1], g[2]>>
    BY <2>2, VivosSon DEF Sano, Hilos
  <2>4. QED
    BY <1>3, <2>2, <2>3 DEF Solo, h
<1>13. Procesos'
  <2>2. \A g \in Vivos' : /\ g[1] \in pcbMem'
                          /\ g[1] \in memProc' \/ fin'[g[1]].fase \in {"tomar", "hilos"}
                          /\ finalizado'[g[1]] => PorTerminar(g[1])'
    <3>1. \A g \in Vivos : /\ g[1] \in pcbMem
                           /\ g[1] \in memProc \/ fin[g[1]].fase \in {"tomar", "hilos"}
                           /\ finalizado[g[1]] => PorTerminar(g[1])
      BY DEF Sano, Orden, Procesos
    <3>2. QED
      BY <1>1, <1>3, <1>8, <1>12, <3>1
  <2>4. \A q \in Pids : Solo(q) => Solo(q)'
    BY <1>3, <1>9 DEF Solo
  <2>5. \A q \in Pids :
          /\ Terminando(q)' => Solo(q)' /\ q \in pcbMem'
          /\ finalizado'[q] => q \in pcbMem' \cup pcbExit'
          /\ PorTerminar(q)' => Apagada(q)'
          /\ finPend'[q] = 0 \/ (finPend'[q] = 1 /\ fin'[q].fase = "nada")
          /\ fin'[q].fase = "cero" => \A g \in Vivos' : g[1] # q
          /\ fin'[q].fase = "hilos" => fin'[q].cero /\ <<q, 0>> \notin ToSet(listaIds'[q])
    <3>1. \A q \in Pids :
            /\ Terminando(q) => Solo(q) /\ q \in pcbMem
            /\ finalizado[q] => q \in pcbMem \cup pcbExit
            /\ finPend[q] = 0 \/ (finPend[q] = 1 /\ fin[q].fase = "nada")
            /\ fin[q].fase = "cero" => \A g \in Vivos : g[1] # q
            /\ fin[q].fase = "hilos" => fin[q].cero /\ <<q, 0>> \notin ToSet(listaIds[q])
      BY DEF Sano, Orden, Procesos
    <3>2. SUFFICES ASSUME NEW q \in Pids
                   PROVE  /\ Terminando(q)' => Solo(q)' /\ q \in pcbMem'
                          /\ finalizado'[q] => q \in pcbMem' \cup pcbExit'
                          /\ PorTerminar(q)' => Apagada(q)'
                          /\ finPend'[q] = 0 \/ (finPend'[q] = 1 /\ fin'[q].fase = "nada")
                          /\ fin'[q].fase = "cero" => \A g \in Vivos' : g[1] # q
                          /\ fin'[q].fase = "hilos" => fin'[q].cero /\ <<q, 0>> \notin ToSet(listaIds'[q])
      BY Zenon
    <3>3. /\ Terminando(q)' => Solo(q)' /\ q \in pcbMem'
          /\ PorTerminar(q)' => Apagada(q)'
      BY <1>1, <1>11, <2>4, <3>1
    <3>4. CASE q = p
      BY <1>1, <1>3, <1>8, <1>10, <1>12, <3>1, <3>3, <3>4
    <3>5. CASE q # p
      BY <1>1, <1>8, <1>12, <3>1, <3>3, <3>5
    <3>6. QED
      BY <3>4, <3>5
  <2>6. \A e \in Ejecutores : fh'[e].fase # "nada" =>
          /\ e # Dispatch => fh'[e].hilo = <<e, 0>> /\ fin'[e].fase = "cero"
          /\ \A q : q = fh'[e].hilo[1] /\ Terminando(q)' => e = q
    <3>1. \A e \in Ejecutores : e # Dispatch => e \in Pids
      BY DEF Ejecutores
    <3>2. \A e \in Ejecutores : fh[e].fase # "nada" => fh[e].hilo[1] \in Pids
      BY FhEs DEF Hilos
    <3>3. \A e \in Ejecutores : fh[e].fase # "nada" =>
            /\ e # Dispatch => fh[e].hilo = <<e, 0>> /\ fin[e].fase = "cero"
            /\ \A q : q = fh[e].hilo[1] /\ Terminando(q) => e = q
      BY DEF Sano, Orden, Procesos
    <3>4. \A e \in Ejecutores : fin[e].fase = "cero" /\ e # Dispatch => fin'[e].fase = "cero"
      BY <1>8, <3>1
    <3>5. SUFFICES ASSUME NEW e \in Ejecutores, fh'[e].fase # "nada"
                   PROVE  /\ e # Dispatch => fh'[e].hilo = <<e, 0>> /\ fin'[e].fase = "cero"
                          /\ \A q : q = fh'[e].hilo[1] /\ Terminando(q)' => e = q
      BY Zenon
    <3>6. CASE e = p
      BY <1>8, <1>9, <1>18, <3>6 DEF h
    <3>7. CASE e # p
      BY <1>9, <1>11, <3>2, <3>3, <3>4, <3>5, <3>7
    <3>8. QED
      BY <3>6, <3>7
  <2>7. \A q \in pcbExit' : q \notin pcbMem' /\ q \notin ToSet(pcbNew') /\ q < siguientePid'
    BY <1>1 DEF Sano, Orden, Procesos
  <2>8. QED
    BY <2>2, <2>5, <2>6, <2>7 DEF Procesos
<1>14. Libre'
  <2>1. Enviado(<<>>)'
    BY <1>7 DEF Enviado
  <2>2. Dispatch \in Ejecutores
    BY DEF Ejecutores
  <2>3. ~Cancela'
    BY <1>3, <1>4, <1>9, <2>2 DEF Cancela, Libre
  <2>4. QED
    BY <1>1, <1>6, <2>1, <2>3 DEF Libre
<1>15. QED
  BY <1>9, <1>13, <1>14 DEF Ordenados, Orden, Turno

(* crear_tcb of a thread of a process in memory that is not being finalized, or
   of one that enters memory. *)
LEMMA CrearOrden ==
  ASSUME Sano, TypeOK', Lugares', NEW q \in Pids, siguienteTid[q] <= MaxTid,
         NEW h, h = <<q, siguienteTid[q]>>,
         siguienteTid' = [siguienteTid EXCEPT ![q] = @ + 1],
         listaIds' = [listaIds EXCEPT ![q] = IF siguienteTid[q] = 0 THEN @ ELSE Append(@, h)],
         memHilos' = memHilos \cup {h}, memProc' = memProc \cup {q}, pcbMem' = pcbMem \cup {q},
         UNCHANGED <<blocked, salidos, asignados, esperanJoin, pcbExit, finalizado, duenio, bloqueadosMutex,
                     fh, finPend, fin, dump, rtaDump, idLiberado, dumpMem>>,
         \A p \in pcbExit : p \notin ToSet(pcbNew') /\ p < siguientePid',
         q \notin pcbExit, ~finalizado[q], ~Terminando(q),
         \A p \in Pids : PorTerminar(p) => Apagada(p)',
         \A g \in Hilos : dump[g] = "bloquear" => exec' = <<g>> /\ aCpu' = <<>> /\ aKernel' = <<>>
  PROVE  /\ Orden'
         /\ h \in Hilos \ Creados
         /\ Vivos' = Vivos \cup {h} /\ Creados' = Creados \cup {h} /\ Salientes' = Salientes
<1>1. Lugares /\ TypeOK
  BY DEF Sano
<1>2. h \in Hilos \ Creados /\ Vivos' = Vivos \cup {h} /\ Creados' = Creados \cup {h} /\ Salientes' = Salientes
  BY <1>1, UnoMas
<1>3. /\ h[1] = q /\ siguienteTid[q] = h[2] /\ siguienteTid[q] \in Nat
      /\ Vivos \subseteq Creados /\ Salientes \subseteq Creados /\ salidos \subseteq Creados /\ Creados \subseteq Hilos
  BY <1>1, VivosSon, ConstantesTipo DEF TypeOK, TipoPcb, Lugares
<1>4. Finalizados'
  BY <1>2 DEF Sano, Orden, Finalizados
<1>5. \A p \in Pids : /\ IsInjective(listaIds'[p]) /\ ToSet(listaIds[p]) \subseteq ToSet(listaIds'[p])
                      /\ ToSet(listaIds'[p]) \subseteq ToSet(listaIds[p]) \cup (IF p = q THEN {h} ELSE {})
  <2>1. \A p \in Pids : /\ listaIds[p] \in Seq(Hilos) /\ IsInjective(listaIds[p])
                        /\ \A g \in ToSet(listaIds[p]) : g[1] = p /\ (g[2] = 0 \/ g \in Creados)
    BY DEF Sano, TypeOK, TipoPcb, Orden, Ids
  <2>2. \A p \in Pids : listaIds'[p] = IF p = q /\ siguienteTid[q] # 0 THEN Append(listaIds[p], h) ELSE listaIds[p]
    BY <1>1 DEF TypeOK, TipoPcb
  <2>3. h[2] # 0 => h \notin ToSet(listaIds[q])
    BY <1>2, <2>1
  <2>4. IsInjective(listaIds[q]) /\ listaIds[q] \in Seq(Hilos) /\ h \in Hilos
    BY <1>2, <2>1
  <2>5. h[2] # 0 => IsInjective(Append(listaIds[q], h))
    BY <2>3, <2>4, AppendElementos
  <2>6. ToSet(Append(listaIds[q], h)) = ToSet(listaIds[q]) \cup {h}
    BY <2>4, AppendElementos
  <2>7. SUFFICES ASSUME NEW p \in Pids
                 PROVE  /\ IsInjective(listaIds'[p]) /\ ToSet(listaIds[p]) \subseteq ToSet(listaIds'[p])
                        /\ ToSet(listaIds'[p]) \subseteq ToSet(listaIds[p]) \cup (IF p = q THEN {h} ELSE {})
    OBVIOUS
  <2>8. CASE p = q /\ siguienteTid[q] # 0
    BY <1>3, <2>2, <2>5, <2>6, <2>8
  <2>9. CASE ~(p = q /\ siguienteTid[q] # 0)
    BY <2>1, <2>2, <2>9
  <2>10. QED
    BY <2>8, <2>9
<1>6. Ids'
  <2>1. ASSUME NEW p \in Pids
        PROVE  /\ IsInjective(listaIds'[p])
               /\ \A g \in ToSet(listaIds'[p]) : g[1] = p /\ (g[2] = 0 \/ g \in Creados')
               /\ \/ <<p, 0>> \in ToSet(listaIds'[p]) \/ <<p, 0>> \in salidos'
                  \/ fin'[p].fase \in {"hilos", "cero"} \/ p \in pcbExit'
    <3>1. /\ \A g \in ToSet(listaIds[p]) : g[1] = p /\ (g[2] = 0 \/ g \in Creados)
          /\ \/ <<p, 0>> \in ToSet(listaIds[p]) \/ <<p, 0>> \in salidos
             \/ fin[p].fase \in {"hilos", "cero"} \/ p \in pcbExit
      BY DEF Sano, Orden, Ids
    <3>2. /\ IsInjective(listaIds'[p]) /\ ToSet(listaIds[p]) \subseteq ToSet(listaIds'[p])
          /\ ToSet(listaIds'[p]) \subseteq ToSet(listaIds[p]) \cup (IF p = q THEN {h} ELSE {})
      BY ONLY <1>5, p \in Pids
    <3>3. h[1] = q /\ Creados' = Creados \cup {h}
      BY <1>2, <1>3
    <3>4. salidos' = salidos /\ fin' = fin /\ pcbExit' = pcbExit
      OBVIOUS
    <3>5. QED
      BY ONLY <3>1, <3>2, <3>3, <3>4
  <2>2. QED
    BY ONLY <2>1 DEF Ids
<1>7. \A p : (PorTerminar(p)' <=> PorTerminar(p)) /\ (Terminando(p)' <=> Terminando(p))
  BY DEF PorTerminar, Terminando
<1>8. Procesos'
  <2>1. \A g \in Vivos' : /\ g[1] \in pcbMem'
                          /\ g[1] \in memProc' \/ fin'[g[1]].fase \in {"tomar", "hilos"}
                          /\ finalizado'[g[1]] => PorTerminar(g[1])'
    BY <1>2, <1>3, <1>7 DEF Sano, Orden, Procesos
  <2>2. \A p \in Pids : Terminando(p) => p # q
    OBVIOUS
  <2>3. \A p \in Pids : Terminando(p) => Solo(p)'
    <3>1. \A p \in Pids : Terminando(p) => Solo(p)
      BY DEF Sano, Orden, Procesos
    <3>2. QED
      BY <1>2, <1>3, <2>2, <3>1 DEF Solo
  <2>4. \A p \in Pids :
          /\ Terminando(p)' => Solo(p)' /\ p \in pcbMem'
          /\ finalizado'[p] => p \in pcbMem' \cup pcbExit'
          /\ PorTerminar(p)' => Apagada(p)'
          /\ finPend'[p] = 0 \/ (finPend'[p] = 1 /\ fin'[p].fase = "nada")
          /\ fin'[p].fase = "cero" => \A g \in Vivos' : g[1] # p
          /\ fin'[p].fase = "hilos" => fin'[p].cero /\ <<p, 0>> \notin ToSet(listaIds'[p])
    <3>1. \A p \in Pids :
            /\ Terminando(p) => p \in pcbMem
            /\ finalizado[p] => p \in pcbMem \cup pcbExit
            /\ finPend[p] = 0 \/ (finPend[p] = 1 /\ fin[p].fase = "nada")
            /\ fin[p].fase = "cero" => \A g \in Vivos : g[1] # p
            /\ fin[p].fase = "hilos" => fin[p].cero /\ <<p, 0>> \notin ToSet(listaIds[p])
      BY DEF Sano, Orden, Procesos
    <3>2. SUFFICES ASSUME NEW p \in Pids
                   PROVE  /\ Terminando(p)' => Solo(p)' /\ p \in pcbMem'
                          /\ finalizado'[p] => p \in pcbMem' \cup pcbExit'
                          /\ PorTerminar(p)' => Apagada(p)'
                          /\ finPend'[p] = 0 \/ (finPend'[p] = 1 /\ fin'[p].fase = "nada")
                          /\ fin'[p].fase = "cero" => \A g \in Vivos' : g[1] # p
                          /\ fin'[p].fase = "hilos" => fin'[p].cero /\ <<p, 0>> \notin ToSet(listaIds'[p])
      BY Zenon
    <3>3. /\ Terminando(p)' => Solo(p)' /\ p \in pcbMem'
          /\ PorTerminar(p)' => Apagada(p)'
          /\ finalizado'[p] => p \in pcbMem' \cup pcbExit'
          /\ finPend'[p] = 0 \/ (finPend'[p] = 1 /\ fin'[p].fase = "nada")
      BY <1>7, <2>3, <3>1
    <3>4. fin[p].fase = "cero" \/ fin[p].fase = "hilos" => p # q
      BY DEF Terminando, PorTerminar
    <3>5. fin'[p].fase = "cero" => \A g \in Vivos' : g[1] # p
      BY <1>2, <1>3, <3>1, <3>4
    <3>6. fin'[p].fase = "hilos" => fin'[p].cero /\ <<p, 0>> \notin ToSet(listaIds'[p])
      BY <1>5, <3>1, <3>4
    <3>7. QED
      BY <3>3, <3>5, <3>6
  <2>5. \A e \in Ejecutores : fh'[e].fase # "nada" =>
          /\ e # Dispatch => fh'[e].hilo = <<e, 0>> /\ fin'[e].fase = "cero"
          /\ \A p : p = fh'[e].hilo[1] /\ Terminando(p)' => e = p
    BY <1>7 DEF Sano, Orden, Procesos
  <2>6. \A p \in pcbExit' : p \notin pcbMem' /\ p \notin ToSet(pcbNew') /\ p < siguientePid'
    BY DEF Sano, Orden, Procesos
  <2>7. QED
    BY <2>1, <2>4, <2>5, <2>6 DEF Procesos
<1>9. /\ esperanJoin[h] = <<>> /\ asignados[h] = <<>> /\ h \notin Esperando
  BY <1>2 DEF Sano, Orden, EnFila
<1>10. EnFila' /\ Esperando' = Esperando
  <2>1. TypeOK /\ EnFila
    BY DEF Sano, Orden
  <2>2. \A g \in Hilos : Fila'[<<"join", g>>] = Fila[<<"join", g>>]
    <3>1. \A g \in Hilos : Fila[<<"join", g>>] = IF g \in Vivos THEN esperanJoin[g] ELSE <<>>
      BY <2>1, FilaEs
    <3>2. \A g \in Hilos : Fila'[<<"join", g>>] = IF g \in Vivos' THEN esperanJoin'[g] ELSE <<>>
      BY FilaEsDespues
    <3>3. QED
      BY <1>2, <1>9, <3>1, <3>2
  <2>3. SinComunes(Filas, Fila') /\ Esperando' = Esperando
    BY <2>1, <2>2, FilasIgual
  <2>4. SinComunes(Filas, Fila)'
    BY <2>3 DEF Filas
  <2>5. QED
    BY <1>2, <2>1, <2>3, <2>4 DEF EnFila
<1>11. Detenidos'
  BY <1>2, <1>9, <1>10 DEF Sano, Orden, Detenidos
<1>12. Dumps'
  <2>1. dump[h] = "nada"
    BY <1>2 DEF Sano, Orden, Dumps
  <2>2. \A g \in Hilos : dump[g] \notin {"nada", "bloquear"} /\ g \in Vivos' => g \in blocked'
    BY <1>2, <2>1 DEF Sano, Orden, Dumps
  <2>3. QED
    BY <1>2, <2>2, DumpsIgual DEF Sano, Orden
<1>13. Duenios'
  <2>1. \A m \in Mutexes : duenio[m] # h
    <3>1. h # Nadie /\ h \notin Vivos /\ h \notin Salientes
      BY <1>2, <1>3, NadieNoEsHilo
    <3>2. QED
      BY <3>1 DEF Sano, Orden, Duenios
  <2>2. Propios(h) = {} /\ IsInjective(asignados[h]) /\ ToSet(asignados[h]) = {}
    BY <1>9, <2>1, VacioElementos DEF Propios
  <2>3. QED
    BY <1>2, <2>2 DEF Sano, Orden, Duenios, Propios
<1>14. QED
  BY <1>2, <1>4, <1>6, <1>8, <1>10, <1>11, <1>12, <1>13 DEF Orden

\* A process that waited in NEW enters memory.
LEMMA FinReplanificarOrden ==
  ASSUME IInv, Sano, TypeOK', Lugares', NEW p \in Pids, FinReplanificar(p)
  PROVE  Ordenados'
<1> DEFINE q == Head(pcbNew)
           h == <<q, siguienteTid[q]>>
<1>1. /\ fin[p].fase = "cero" /\ pcbNew # <<>>
      /\ CrearTcb(q, prioridad[<<q, 0>>], Colas)
      /\ pcbNew' = Tail(pcbNew) /\ pcbMem' = pcbMem \cup {q} /\ memProc' = memProc \cup {q}
      /\ UNCHANGED <<blocked, salidos, asignados, esperanJoin, pcbExit, siguientePid, finalizado,
                     duenio, bloqueadosMutex, fh, finPend, fin, dump, rtaDump, idLiberado, dumpMem,
                     aKernel, cpu, contexto, caido>>
  BY DEF FinReplanificar, vMutex, vFin, vDump, vCpu
<1>2. /\ q \in Pids /\ siguienteTid[q] = 0 /\ ToSet(Tail(pcbNew)) = ToSet(pcbNew) \ {q} /\ q \in ToSet(pcbNew)
  BY <1>1, PrimeroDeNew, ToSetTipo DEF IInv, TypeOK, TipoPcb
<1>3. /\ siguienteTid' = [siguienteTid EXCEPT ![q] = @ + 1]
      /\ listaIds' = [listaIds EXCEPT ![q] = IF siguienteTid[q] = 0 THEN @ ELSE Append(@, h)]
      /\ memHilos' = memHilos \cup {h}
      /\ exec' = exec /\ aCpu' = aCpu
  BY <1>1 DEF CrearTcb, Quedan, Encolar, Colas
<1>4. q \notin pcbMem /\ q \notin pcbExit
  BY <1>2 DEF IInv, NuevosSinHilos, Sano, Orden, Procesos
<1>5. ~finalizado[q] /\ ~Terminando(q)
  BY <1>2, <1>4 DEF Sano, Orden, Procesos
<1>6. siguienteTid[q] <= MaxTid
  BY <1>2, ConstantesTipo
<1> DEFINE hh == h
<1>7. \A x \in pcbExit : x \notin ToSet(pcbNew') /\ x < siguientePid'
  BY <1>1, <1>2 DEF Sano, Orden, Procesos
<1> HIDE DEF h, q
<1>8. /\ \A x \in Pids : PorTerminar(x) => Apagada(x)'
      /\ \A g \in Hilos : dump[g] = "bloquear" => exec' = <<g>> /\ aCpu' = <<>> /\ aKernel' = <<>>
  BY <1>1, <1>3, QuietoSigue DEF Sigue
<1>9. /\ Orden' /\ h \in Hilos \ Creados
      /\ Vivos' = Vivos \cup {h} /\ Creados' = Creados \cup {h} /\ Salientes' = Salientes
  BY <1>1, <1>2, <1>3, <1>4, <1>5, <1>6, <1>7, <1>8, CrearOrden DEF h
<1>10. Turno'
  <2>1. Sigue
    BY <1>3 DEF Sigue
  <2>2. contexto \in Vivos => contexto \in Vivos'
    BY <1>9
  <2>3. contexto \in Creados \ Vivos => contexto \in Creados' \ Vivos'
    BY <1>9
  <2>4. h[1] = q /\ h[2] = 0
    BY <1>2 DEF h
  <2>5. \A x \in Pids : Solo(x) => Solo(x)'
    BY <1>9, <2>4 DEF Solo
  <2>6. \A x \in Pids : PorTerminar(x)' <=> PorTerminar(x)
    BY <1>1 DEF PorTerminar
  <2>7. UNCHANGED <<cpu, contexto, aKernel>> /\ fh' = fh /\ dump' = dump /\ exec' = exec
    BY <1>1, <1>3
  <2>8. TypeOK /\ Turno
    BY DEF Sano
  <2>9. QED
    BY <2>1, <2>2, <2>3, <2>5, <2>6, <2>7, <2>8, TurnoSigue
<1>11. QED
  BY <1>9, <1>10 DEF Ordenados

\* The PCB goes to EXIT.
LEMMA FinSalirOrden ==
  ASSUME IInv, Sano, TypeOK', Lugares', NEW p \in Pids, FinSalir(p)
  PROVE  Ordenados'
<1>1. /\ fin[p].fase = "cero" /\ fh[p].fase = "nada" /\ fin' = [fin EXCEPT ![p] = FinNada]
      /\ pcbMem' = pcbMem \ {p} /\ pcbExit' = pcbExit \cup {p}
      /\ UNCHANGED <<exec, blocked, salidos, asignados, esperanJoin, siguienteTid, duenio, bloqueadosMutex,
                     fh, dump, rtaDump, idLiberado, memHilos, dumpMem, aKernel, aCpu, cpu, contexto,
                     pcbNew, siguientePid, listaIds, finPend, finalizado, memProc>>
  BY DEF FinSalir, vListas, vTcb, vMutex, vDump, vMemoria, vCpu
<1>2. /\ \A q \in Pids : q # p => fin'[q] = fin[q]
      /\ fin'[p].fase = "nada"
  BY <1>1 DEF Sano, TypeOK, TipoFin, FinNada
<1>3. finPend[p] = 0
  <2>1. finPend[p] = 0 \/ (finPend[p] = 1 /\ fin[p].fase = "nada")
    BY DEF Sano, Orden, Procesos
  <2>2. QED
    BY <1>1, <2>1
<1>4. Terminando(p) /\ ~PorTerminar(p) /\ ~PorTerminar(p)' /\ ~Terminando(p)'
  BY <1>1, <1>2, <1>3 DEF PorTerminar, Terminando
<1>5. \A q \in Pids : q # p => (PorTerminar(q)' <=> PorTerminar(q)) /\ (Terminando(q)' <=> Terminando(q))
  BY <1>1, <1>2 DEF PorTerminar, Terminando
<1>6. /\ Finalizados' /\ EnFila' /\ Detenidos' /\ Dumps' /\ Duenios' /\ Turno'
      /\ Vivos' = Vivos /\ Creados' = Creados /\ Salientes' = Salientes
  <2>1. \A q \in Pids : PorTerminar(q)' <=> PorTerminar(q)
    BY <1>4, <1>5
  <2>2. QED
    BY <1>1, <2>1, FinComun
<1>7. Ids'
  <2>1. \A q \in Pids : \/ q \in pcbExit'
                        \/ fin[q].fase \in {"hilos", "cero"} => fin'[q].fase \in {"hilos", "cero"}
    BY <1>1, <1>2
  <2>2. QED
    BY <1>1, <1>6, <2>1 DEF Sano, Orden, Ids
<1>8. p \in pcbMem /\ p < siguientePid /\ p \notin ToSet(pcbNew)
  BY <1>4 DEF Sano, Orden, Procesos, IInv, NuevosSinHilos
<1>9. Procesos'
  <2>1. \A h \in Vivos : h[1] \in Pids /\ h[1] # p
    <3>1. \A h \in Vivos : h[1] \in Pids
      BY VivosSon DEF Sano, Hilos
    <3>2. \A h \in Vivos : h[1] # p
      BY <1>1 DEF Sano, Orden, Procesos
    <3>3. QED
      BY <3>1, <3>2
  <2>2. \A h \in Vivos' : /\ h[1] \in pcbMem'
                          /\ h[1] \in memProc' \/ fin'[h[1]].fase \in {"tomar", "hilos"}
                          /\ finalizado'[h[1]] => PorTerminar(h[1])'
    <3>1. \A h \in Vivos : /\ h[1] \in pcbMem
                           /\ h[1] \in memProc \/ fin[h[1]].fase \in {"tomar", "hilos"}
                           /\ finalizado[h[1]] => PorTerminar(h[1])
      BY DEF Sano, Orden, Procesos
    <3>2. QED
      BY <1>1, <1>2, <1>5, <1>6, <2>1, <3>1
  <2>3. \A q \in Pids : Apagada(q) => Apagada(q)'
    BY <1>1 DEF Apagada
  <2>4. \A q \in Pids : Solo(q) => Solo(q)'
    BY <1>6 DEF Solo
  <2>5. \A q \in Pids :
          /\ Terminando(q)' => Solo(q)' /\ q \in pcbMem'
          /\ finalizado'[q] => q \in pcbMem' \cup pcbExit'
          /\ PorTerminar(q)' => Apagada(q)'
          /\ finPend'[q] = 0 \/ (finPend'[q] = 1 /\ fin'[q].fase = "nada")
          /\ fin'[q].fase = "cero" => \A h \in Vivos' : h[1] # q
          /\ fin'[q].fase = "hilos" => fin'[q].cero /\ <<q, 0>> \notin ToSet(listaIds'[q])
    <3>1. \A q \in Pids :
            /\ Terminando(q) => Solo(q) /\ q \in pcbMem
            /\ finalizado[q] => q \in pcbMem \cup pcbExit
            /\ PorTerminar(q) => Apagada(q)
            /\ finPend[q] = 0 \/ (finPend[q] = 1 /\ fin[q].fase = "nada")
            /\ fin[q].fase = "cero" => \A h \in Vivos : h[1] # q
            /\ fin[q].fase = "hilos" => fin[q].cero /\ <<q, 0>> \notin ToSet(listaIds[q])
      BY DEF Sano, Orden, Procesos
    <3>2. SUFFICES ASSUME NEW q \in Pids
                   PROVE  /\ Terminando(q)' => Solo(q)' /\ q \in pcbMem'
                          /\ finalizado'[q] => q \in pcbMem' \cup pcbExit'
                          /\ PorTerminar(q)' => Apagada(q)'
                          /\ finPend'[q] = 0 \/ (finPend'[q] = 1 /\ fin'[q].fase = "nada")
                          /\ fin'[q].fase = "cero" => \A h \in Vivos' : h[1] # q
                          /\ fin'[q].fase = "hilos" => fin'[q].cero /\ <<q, 0>> \notin ToSet(listaIds'[q])
      BY Zenon
    <3>3. finPend'[q] = finPend[q] /\ finalizado'[q] = finalizado[q] /\ listaIds'[q] = listaIds[q]
      BY <1>1
    <3>4. CASE q = p
      BY <1>1, <1>2, <1>3, <1>4, <3>3, <3>4
    <3>5. CASE q # p
      <4>1. /\ Terminando(q)' => Solo(q)' /\ q \in pcbMem'
            /\ PorTerminar(q)' => Apagada(q)'
        BY <1>1, <1>5, <2>3, <2>4, <3>1, <3>5
      <4>2. fin'[q].fase = "cero" => \A h \in Vivos' : h[1] # q
        BY <1>2, <1>6, <3>1, <3>5
      <4>3. QED
        BY <1>1, <1>2, <3>1, <3>3, <3>5, <4>1, <4>2
    <3>6. QED
      BY <3>4, <3>5
  <2>6. \A e \in Ejecutores : fh'[e].fase # "nada" =>
          /\ e # Dispatch => fh'[e].hilo = <<e, 0>> /\ fin'[e].fase = "cero"
          /\ \A q : q = fh'[e].hilo[1] /\ Terminando(q)' => e = q
    <3>1. \A e \in Ejecutores : e # Dispatch => e \in Pids
      BY DEF Ejecutores
    <3>2. \A e \in Ejecutores : fh[e].fase # "nada" => fh[e].hilo[1] \in Pids
      BY FhEs DEF Hilos
    <3>3. \A e \in Ejecutores : fh[e].fase # "nada" =>
            /\ e # Dispatch => fh[e].hilo = <<e, 0>> /\ fin[e].fase = "cero"
            /\ \A q : q = fh[e].hilo[1] /\ Terminando(q) => e = q
      BY DEF Sano, Orden, Procesos
    <3>4. \A q \in Pids : Terminando(q)' => Terminando(q)
      BY <1>4, <1>5
    <3>5. \A e \in Ejecutores : fh[e].fase # "nada" => e # p
      BY <1>1
    <3>6. QED
      BY <1>1, <1>2, <3>1, <3>2, <3>3, <3>4, <3>5
  <2>7. \A q \in pcbExit' : q \notin pcbMem' /\ q \notin ToSet(pcbNew') /\ q < siguientePid'
    BY <1>1, <1>8 DEF Sano, Orden, Procesos
  <2>8. QED
    BY <2>2, <2>5, <2>6, <2>7 DEF Procesos
<1>10. QED
  BY <1>6, <1>7, <1>9 DEF Ordenados, Orden

\* Every step of finalizar_proceso.
LEMMA FinalizarProcesoOrden ==
  ASSUME IInv, Sano, TypeOK', Lugares', NEW p \in Pids, FinalizarProceso(p)
  PROVE  Ordenados'
  BY FinMemoriaOrden, FinTomarOrden, FinHiloOrden, FinCeroOrden, FinReplanificarOrden, FinSalirOrden
     DEF FinalizarProceso
-----------------------------------------------------------------------------
(***************************************************************************)
(* The handler.                                                            *)
(***************************************************************************)
(* A request comes from the thread in EXEC, alive, with nothing else under way
   and whose process nobody ends. *)
LEMMA Atendible ==
  ASSUME Sano, aKernel # <<>>
  PROVE  /\ Pidio \/ Pidiendo
         /\ Tail(aKernel) = <<>> /\ H = contexto /\ exec = <<H>> /\ aCpu = <<>> /\ ~Cancela
         /\ Pedida.op \in {"INSTRUCCION", "DESALOJO"} /\ Pedida \in MensajesKernel
         /\ H \in Hilos /\ P \in Pids /\ H \in Vivos /\ H \in Creados /\ H \notin blocked
         /\ H \notin Esperando /\ H \notin salidos
         /\ dump[H] = "nada" /\ IdLeido(H) = {H}
         /\ \A p \in Pids : ~PorTerminar(p)
         /\ \A h \in Hilos : dump[h] # "bloquear"
         /\ ~Terminando(P) /\ P \in pcbMem /\ P \in memProc /\ ~finalizado[P]
<1>1. Pidio \/ Pidiendo
  BY DEF Sano, Turno, Libre, Pidio, Corriendo, Pidiendo, Respondido, Cedido, Cancelando, SinHilo
<1>2. /\ EnJuego /\ aCpu = <<>> /\ ~Cancela /\ aKernel = <<Pedida>> /\ H = contexto
      /\ Pedida.op \in {"INSTRUCCION", "DESALOJO"}
  BY <1>1 DEF Pidio, Pidiendo
<1>3. Tail(aKernel) = <<>>
  BY <1>2, Cortas
<1>4. exec = <<H>> /\ dump[H] = "nada" /\ H \in Hilos /\ H \in Vivos /\ H \notin blocked
  BY <1>2, EnJuegoVive DEF EnJuego
<1>5. P \in Pids /\ H[1] = P
  BY <1>4 DEF Hilos, P, H
<1>6. H \in Creados /\ H \notin salidos
  BY <1>4, VivosSon DEF Sano
<1>7. H \notin Esperando
  BY <1>4 DEF Sano, Orden, Detenidos
<1>8. IdLeido(H) = {H}
  BY <1>6 DEF Sano, Orden, Finalizados, IdLeido
<1>9. /\ \A p \in Pids : ~PorTerminar(p)
      /\ \A h \in Hilos : dump[h] # "bloquear"
  BY Ocupado
<1>10. /\ P \in pcbMem
       /\ P \in memProc \/ fin[P].fase \in {"tomar", "hilos"}
       /\ finalizado[P] => PorTerminar(P)
       /\ fin[P].fase # "cero"
  BY <1>4, <1>5 DEF Sano, Orden, Procesos
<1>11. ~Terminando(P) /\ P \in memProc /\ ~finalizado[P] /\ P \in pcbMem
  <2>1. P \in pcbMem
    BY <1>4, <1>5 DEF Sano, Orden, Procesos
  <2>2. QED
    BY <1>5, <1>9, <1>10, <2>1 DEF Terminando, PorTerminar
<1>12. Pedida \in MensajesKernel
  BY PedidaTipo DEF Sano
<1>13. QED
  BY <1>1, <1>2, <1>3, <1>4, <1>5, <1>6, <1>7, <1>8, <1>9, <1>11, <1>12

(* The handler finds the thread in EXEC, its process in memory and mutex_pcb
   free, so none of its error paths is taken. *)
LEMMA AtendidoSinError ==
  ASSUME Sano
  PROVE  ~EsperaPcb /\ ~AtiendeInvalido /\ ~AtiendeExitRepetido /\ ~AtiendeMutexSinPcb
<1>1. ASSUME HayPedido
      PROVE  ~PcbTomado(P) /\ Hallado /\ P \in pcbMem /\ ~finalizado[P]
  <2>1. aKernel # <<>> /\ Pedida.op # "DESALOJO"
    BY <1>1 DEF HayPedido
  <2>2. /\ exec = <<H>> /\ Pedida.op = "INSTRUCCION" /\ ~Terminando(P) /\ P \in pcbMem /\ ~finalizado[P]
    BY <2>1, Atendible
  <2>3. H \in ToSet(exec)
    BY <2>2, Cortas
  <2>4. QED
    BY <2>2, <2>3 DEF PcbTomado, Terminando, PorTerminar, Hallado
<1>2. QED
  BY <1>1 DEF EsperaPcb, AtiendeInvalido, AtiendeExitRepetido, AtiendeMutexSinPcb, Llega, LlegaPedido

\* The handler takes the only request there is.
LEMMA LlegaDe ==
  ASSUME Sano, NEW i, Llega(i)
  PROVE  aKernel # <<>> /\ aKernel' = <<>> /\ Pedida.instr = i /\ fh[Dispatch].fase = "nada" /\ Dispatch \in Ejecutores
         /\ Pedida.op = "INSTRUCCION"
<1>1. aKernel # <<>> /\ aKernel' = Tail(aKernel) /\ Pedida.instr = i /\ fh[Dispatch].fase = "nada"
      /\ Pedida.op # "DESALOJO"
  BY DEF Llega, LlegaPedido, HayPedido
<1>2. QED
  BY <1>1, Atendible DEF Ejecutores

\* A thread that asked for an answer is told to go on.
LEMMA RespondeOk ==
  ASSUME Sano, aKernel # <<>>, Pedida.instr \in ConRespuesta, aKernel' = <<>>,
         exec' = exec, aCpu' = <<Rta("OK")>>, UNCHANGED <<cpu, contexto, dump>>,
         fh'[Dispatch].rta = fh[Dispatch].rta
  PROVE  Respondido' /\ Turno'
<1>1. Pidiendo
  BY Atendible DEF Pidio, SinRespuesta, ConRespuesta
<1>2. QED
  BY <1>1 DEF Pidiendo, Respondido, Turno, EnJuego, Cancela

\* With a single request and nobody dumping or ending, nothing holds EXEC back.
LEMMA NadaRetiene ==
  ASSUME Sano, aKernel # <<>>, dump' = dump
  PROVE  /\ \A p \in Pids : PorTerminar(p) => Apagada(p)'
         /\ \A h \in Hilos : dump[h] = "bloquear" => exec' = <<h>> /\ aCpu' = <<>> /\ aKernel' = <<>>
  BY Atendible

\* MUTEX_CREATE.
LEMMA MutexCreateOrden ==
  ASSUME Sano, TypeOK', Lugares', AtiendeMutexCreate
  PROVE  Ordenados'
<1>1. /\ Llega("MUTEX_CREATE") /\ Quedan(Enviar(Colas, Rta("OK")))
      /\ UNCHANGED <<blocked, salidos, asignados, esperanJoin, pcbNew, pcbMem, pcbExit, siguientePid,
                     siguienteTid, listaIds, finalizado, duenio, bloqueadosMutex, fh, finPend, fin,
                     dump, rtaDump, idLiberado, memProc, memHilos, dumpMem, cpu, contexto>>
  BY DEF AtiendeMutexCreate, vTcb, vPcb, vFin, vDump, vMemoria, vCpu
<1>2. aKernel # <<>> /\ aKernel' = <<>> /\ Pedida.instr = "MUTEX_CREATE"
  BY <1>1, LlegaDe
<1>3. aCpu = <<>>
  BY <1>2, Atendible
<1>4. exec' = exec /\ aCpu' = <<Rta("OK")>>
  BY <1>1, <1>3, ColasTipo, Contesta, Cortas DEF Quedan, Colas, Sano, TypeOK
<1>5. Orden'
  BY <1>1, <1>2, NadaRetiene, OrdenIgual
<1>6. Turno'
  BY <1>1, <1>2, <1>4, RespondeOk DEF ConRespuesta
<1>7. QED
  BY <1>5, <1>6 DEF Ordenados

(* The handler finalizes a thread alive of a process that nobody ends. *)
LEMMA InicioDispatch ==
  ASSUME Sano, TypeOK', Lugares', aKernel # <<>>, fh[Dispatch].fase = "nada", NEW h \in Vivos,
         NEW rta \in BOOLEAN, FhInicio(Dispatch, h, rta), dump[h] # "nada" => rta, ~Terminando(h[1]),
         UNCHANGED <<salidos, asignados, esperanJoin, pcbNew, pcbMem, pcbExit, siguientePid, siguienteTid,
                     listaIds, finalizado, duenio, bloqueadosMutex, finPend, fin, dump, rtaDump,
                     idLiberado, memProc, dumpMem>>
  PROVE  /\ Orden'
         /\ Vivos' = Vivos \ {h} /\ Creados' = Creados /\ fh'[Dispatch].rta = rta
         /\ aCpu' = <<>> /\ exec' = IF h = H THEN <<>> ELSE exec
<1>1. Dispatch \in Ejecutores
  BY DEF Ejecutores
<1>2. /\ \A g \in Hilos : dump[g] # "bloquear"
      /\ exec = <<H>> /\ aCpu = <<>>
  BY Atendible
<1>3. /\ Finalizados' /\ Ids' /\ EnFila' /\ Detenidos' /\ Dumps' /\ Duenios'
      /\ Vivos' = Vivos \ {h} /\ Creados' = Creados /\ Salientes' = Salientes \cup {h}
      /\ \A o \in Ejecutores : o # Dispatch => fh'[o] = fh[o]
      /\ fh'[Dispatch].fase = "pedido" /\ fh'[Dispatch].hilo = h /\ fh'[Dispatch].rta = rta
  <2>1. \A p \in Pids : fin[p].fase \in {"hilos", "cero"} => fin'[p].fase \in {"hilos", "cero"}
    OBVIOUS
  <2>2. UNCHANGED <<salidos, asignados, esperanJoin, pcbExit, siguienteTid, listaIds, duenio,
                    bloqueadosMutex, dump, rtaDump, idLiberado, dumpMem>>
    OBVIOUS
  <2>3. CASE rta = TRUE
    <3>1. FhInicio(Dispatch, h, TRUE)
      BY <2>3
    <3>2. QED
      BY ONLY Sano, TypeOK', Lugares', fh[Dispatch].fase = "nada", h \in Vivos,
         <1>1, <1>2, <2>1, <2>2, <2>3, <3>1, InicioOrden
  <2>4. CASE rta = FALSE
    <3>1. FhInicio(Dispatch, h, FALSE) /\ dump[h] = "nada"
      BY <2>4
    <3>2. QED
      BY ONLY Sano, TypeOK', Lugares', fh[Dispatch].fase = "nada", h \in Vivos,
         <1>1, <1>2, <2>1, <2>2, <2>4, <3>1, InicioOrden
  <2>5. QED
    BY <2>3, <2>4
<1>4. Vivos \subseteq Hilos
  BY VivosSon DEF Sano
<1>5. \A e \in Ejecutores : fh'[e].fase # "nada" =>
        \/ fh[e].fase # "nada" /\ fh'[e].hilo = fh[e].hilo
        \/ e = Dispatch /\ ~Terminando(fh'[e].hilo[1])
  BY <1>3
<1>6. \A p \in Pids : PorTerminar(p) => Apagada(p)'
  BY Atendible
<1>7. Procesos'
  <2>1. Procesos
    BY DEF Sano, Orden
  <2>2. Vivos' \subseteq Vivos /\ Salientes' \subseteq Vivos \cup Salientes
    BY <1>3
  <2>3. \A p \in Pids : ToSet(listaIds'[p]) \subseteq ToSet(listaIds[p])
    OBVIOUS
  <2>4. QED
    BY <1>4, <1>5, <1>6, <2>1, <2>2, <2>3, ProcesosIgual
<1>8. aCpu' = aCpu /\ (exec = <<h>> => exec' = <<>>) /\ (exec # <<h>> => exec' = exec)
  BY InicioEfecto DEF Sano
<1>9. exec' = IF h = H THEN <<>> ELSE exec
  BY <1>2, <1>8, Cortas
<1>10. QED
  BY <1>2, <1>3, <1>7, <1>8, <1>9 DEF Orden

\* THREAD_EXIT: the handler finalizes the thread in EXEC.
LEMMA ThreadExitOrden ==
  ASSUME Sano, TypeOK', Lugares', AtiendeThreadExit
  PROVE  Ordenados'
<1>1. /\ Llega("THREAD_EXIT") /\ \E v \in IdLeido(H) : FhInicio(Dispatch, v, FALSE)
      /\ UNCHANGED <<salidos, asignados, esperanJoin, pcbNew, pcbMem, pcbExit, siguientePid, siguienteTid,
                     listaIds, finalizado, duenio, bloqueadosMutex, finPend, fin, dump, rtaDump,
                     idLiberado, memProc, dumpMem, cpu, contexto>>
  BY DEF AtiendeThreadExit, vTcb, vPcb, vMutex, vFin, vDump, vCpu
<1>2. aKernel # <<>> /\ aKernel' = <<>> /\ Pedida.instr = "THREAD_EXIT" /\ fh[Dispatch].fase = "nada"
  BY <1>1, LlegaDe
<1>3. /\ H \in Vivos /\ IdLeido(H) = {H} /\ dump[H] = "nada" /\ ~Terminando(P) /\ (Pidio \/ Pidiendo)
  BY <1>2, Atendible
<1>4. FhInicio(Dispatch, H, FALSE) /\ ~Terminando(H[1])
  BY <1>1, <1>3 DEF P, H
<1>5. Orden' /\ fh'[Dispatch].rta = FALSE /\ aCpu' = <<>> /\ exec' = <<>>
  BY <1>1, <1>2, <1>3, <1>4, InicioDispatch
<1>6. cpu = "libre"
  BY <1>2, <1>3 DEF Pidio, Pidiendo, ConRespuesta
<1>7. Libre'
  BY <1>1, <1>2, <1>5, <1>6, EnviadoEs DEF Libre, Cancela, Enviado
<1>8. QED
  BY <1>5, <1>7 DEF Ordenados, Turno

\* A mutex that does not exist finalizes the thread that asks for it.
LEMMA MutexInexistenteOrden ==
  ASSUME Sano, TypeOK', Lugares', AtiendeMutexInexistente
  PROVE  Ordenados'
<1>1. /\ \E i \in {"MUTEX_LOCK", "MUTEX_UNLOCK"} : Llega(i)
      /\ \E v \in IdLeido(H) : FhInicio(Dispatch, v, FALSE)
      /\ UNCHANGED <<salidos, asignados, esperanJoin, pcbNew, pcbMem, pcbExit, siguientePid, siguienteTid,
                     listaIds, finalizado, duenio, bloqueadosMutex, finPend, fin, dump, rtaDump,
                     idLiberado, memProc, dumpMem, cpu, contexto>>
  BY DEF AtiendeMutexInexistente, vTcb, vPcb, vMutex, vFin, vDump, vCpu
<1>2. /\ aKernel # <<>> /\ aKernel' = <<>> /\ Pedida.instr \in {"MUTEX_LOCK", "MUTEX_UNLOCK"}
      /\ fh[Dispatch].fase = "nada"
  BY <1>1, LlegaDe
<1>3. /\ H \in Vivos /\ H \in Creados /\ IdLeido(H) = {H} /\ dump[H] = "nada" /\ ~Terminando(P)
      /\ (Pidio \/ Pidiendo) /\ H = contexto
  BY <1>2, Atendible
<1>4. FhInicio(Dispatch, H, FALSE) /\ ~Terminando(H[1])
  BY <1>1, <1>3 DEF P, H
<1>5. /\ Orden' /\ fh'[Dispatch].rta = FALSE /\ aCpu' = <<>> /\ exec' = <<>>
      /\ Vivos' = Vivos \ {H} /\ Creados' = Creados
  BY <1>1, <1>2, <1>3, <1>4, InicioDispatch
<1>6. cpu = "espera"
  BY <1>2, <1>3 DEF Pidio, Pidiendo, SinRespuesta, ConDesalojo, EsperaRta
<1>7. SinHilo'
  <2>1. contexto' \in Creados' \ Vivos'
    BY <1>1, <1>3, <1>5
  <2>2. Enviado(<<>>)' /\ ~Cancela'
    BY <1>5 DEF Enviado, Cancela
  <2>3. QED
    BY <1>1, <1>2, <1>6, <2>1, <2>2 DEF SinHilo
<1>8. QED
  BY <1>5, <1>7 DEF Ordenados, Turno

\* THREAD_CANCEL: the handler finalizes another thread, or the one that asks.
LEMMA ThreadCancelOrden ==
  ASSUME Sano, TypeOK', Lugares', AtiendeThreadCancel
  PROVE  Ordenados'
<1> DEFINE t == <<P, Pedida.arg>>
<1>1. /\ Llega("THREAD_CANCEL") /\ FhInicio(Dispatch, t, TRUE)
      /\ UNCHANGED <<salidos, asignados, esperanJoin, pcbNew, pcbMem, pcbExit, siguientePid, siguienteTid,
                     listaIds, finalizado, duenio, bloqueadosMutex, finPend, fin, dump, rtaDump,
                     idLiberado, memProc, dumpMem, cpu, contexto>>
  BY DEF AtiendeThreadCancel, vTcb, vPcb, vMutex, vFin, vDump, vCpu
<1>2. /\ aKernel # <<>> /\ aKernel' = <<>> /\ Pedida.instr = "THREAD_CANCEL"
      /\ fh[Dispatch].fase = "nada"
  BY <1>1, LlegaDe
<1>3. /\ H \in Vivos /\ H \in Creados /\ dump[H] = "nada" /\ ~Terminando(P) /\ aCpu = <<>>
      /\ (Pidio \/ Pidiendo) /\ H = contexto /\ exec = <<H>>
  BY <1>2, Atendible
<1>4. ~Terminando(t[1])
  BY <1>3
<1>5. cpu = "espera"
  BY <1>2, <1>3 DEF Pidio, Pidiendo, SinRespuesta, ConDesalojo, EsperaRta
<1> HIDE DEF t
<1>6. CASE t \in Vivos
  <2>1. /\ Orden' /\ fh'[Dispatch].rta = TRUE /\ aCpu' = <<>> /\ exec' = IF t = H THEN <<>> ELSE exec
        /\ Vivos' = Vivos \ {t} /\ Creados' = Creados
    BY <1>1, <1>2, <1>4, <1>6, InicioDispatch
  <2>2. CASE t = H
    <3>1. contexto' \in Creados' \ Vivos'
      BY <1>1, <1>3, <2>1, <2>2
    <3>2. Enviado(<<>>)'
      BY <2>1, <2>2 DEF Enviado
    <3>3. SinHilo'
      BY <1>1, <1>2, <1>5, <3>1, <3>2 DEF SinHilo
    <3>4. QED
      BY <2>1, <3>3 DEF Ordenados, Turno
  <2>3. CASE t # H
    <3>1. EnJuego'
      BY <1>1, <1>3, <2>1, <2>3 DEF EnJuego
    <3>2. Cancelando'
      BY <1>1, <1>2, <1>5, <2>1, <3>1 DEF Cancelando, Cancela
    <3>3. QED
      BY <2>1, <3>2 DEF Ordenados, Turno
  <2>4. QED
    BY <2>2, <2>3
<1>7. CASE t \notin Vivos
  <2>1. ~Existe(t)
    BY <1>7, VivosExisten
  <2>2. Quedan(Responder(Colas, TRUE)) /\ UNCHANGED <<blocked, memHilos, fh>>
    BY <1>1, <2>1 DEF FhInicio
  <2>3. exec' = exec /\ aCpu' = <<Rta("OK")>>
    BY <1>3, <2>2, ColasTipo, Contesta, Cortas DEF Quedan, Colas, Sano, TypeOK
  <2>4. Orden'
    BY <1>1, <1>2, <2>2, NadaRetiene, OrdenIgual
  <2>5. Turno'
    BY <1>1, <1>2, <2>2, <2>3, RespondeOk DEF ConRespuesta
  <2>6. QED
    BY <2>4, <2>5 DEF Ordenados
<1>8. QED
  BY <1>6, <1>7

\* The request of the end of a process comes from its thread 0, the last one.
LEMMA ProcessExitOrden ==
  ASSUME Sano, TypeOK', Lugares', AtiendeProcessExit
  PROVE  Ordenados'
<1>1. /\ Llega("PROCESS_EXIT") /\ finPend' = IF H[2] = 0 THEN [finPend EXCEPT ![P] = @ + 1] ELSE finPend
      /\ UNCHANGED <<exec, blocked, salidos, asignados, esperanJoin, siguienteTid, duenio, bloqueadosMutex,
                     fh, dump, rtaDump, idLiberado, memHilos, dumpMem, aCpu, cpu, contexto,
                     pcbNew, pcbMem, pcbExit, siguientePid, listaIds, finalizado, memProc, fin>>
  BY DEF AtiendeProcessExit, vListas, vTcb, vPcb, vMutex, vDump, vMemoria, vCpu
<1>2. /\ aKernel # <<>> /\ aKernel' = <<>> /\ Pedida.instr = "PROCESS_EXIT" /\ fh[Dispatch].fase = "nada"
      /\ Dispatch \in Ejecutores
  BY <1>1, LlegaDe
<1>3. /\ Pidio \/ Pidiendo
      /\ exec = <<H>> /\ aCpu = <<>> /\ ~Cancela /\ H \in Hilos /\ P \in Pids /\ dump[H] = "nada"
      /\ \A p \in Pids : ~PorTerminar(p)
      /\ \A h \in Hilos : dump[h] # "bloquear"
      /\ ~Terminando(P) /\ P \in pcbMem /\ ~finalizado[P]
  BY <1>2, Atendible
<1>4. cpu = "libre" /\ H[2] = 0 /\ Solo(P)
  BY <1>2, <1>3 DEF Pidio, Pidiendo, ConRespuesta
<1>5. H = <<P, 0>>
  BY <1>3, <1>4 DEF Hilos, P, H
<1>6. finPend[P] = 0 /\ fin[P].fase = "nada"
  BY <1>3 DEF Terminando, PorTerminar, Sano, TypeOK, TipoFin
<1>7. finPend'[P] = 1 /\ \A q \in Pids : q # P => finPend'[q] = finPend[q]
  BY <1>1, <1>3, <1>4, <1>6 DEF Sano, TypeOK, TipoFin
<1>8. PICK p \in Pids : p = P
  BY <1>3
<1>20. PICK h0 \in Hilos : h0 = H
  BY <1>3
<1>9. /\ PorTerminar(p)' /\ \A q \in Pids : PorTerminar(q)' => q = p
      /\ \A q \in Pids : q # p => (Terminando(q)' <=> Terminando(q))
  <2>1. \A q \in Pids : q # p => (PorTerminar(q)' <=> PorTerminar(q))
    BY <1>1, <1>7, <1>8 DEF PorTerminar
  <2>2. PorTerminar(p)'
    BY <1>7, <1>8 DEF PorTerminar
  <2>3. QED
    BY <1>1, <1>3, <2>1, <2>2 DEF Terminando
<1>10. Lugares /\ TypeOK
  BY DEF Sano
<1>11. Vivos' = Vivos /\ Creados' = Creados /\ Salientes' = Salientes
  BY <1>1, <1>10, MismaGenteFh
<1>12. Finalizados' /\ Ids' /\ Duenios'
  BY <1>1, <1>11 DEF Sano, Orden, Finalizados, Ids, Duenios, Propios
<1>13. EnFila' /\ Esperando' = Esperando
  <2>1. EnFila
    BY DEF Sano, Orden
  <2>2. SinComunes(Filas, Fila') /\ Esperando' = Esperando
    BY <1>1, <1>10, <1>11, <2>1, JoinsIguales, FilasIgual
  <2>3. SinComunes(Filas, Fila)'
    BY <2>2 DEF Filas
  <2>4. QED
    BY <1>1, <1>11, <2>1, <2>2, <2>3 DEF EnFila
<1>14. Detenidos'
  BY <1>1, <1>11, <1>13 DEF Sano, Orden, Detenidos
<1>15. Dumps'
  BY <1>1, <1>3, <1>11 DEF Sano, Orden, Dumps
<1>16. Apagada(p)'
  BY <1>1, <1>2, <1>3, <1>4, <1>5, <1>8 DEF Apagada
<1>17. Procesos'
  <2>1. \A h \in Vivos : h[1] \in Pids
    BY VivosSon DEF Sano, Hilos
  <2>2. \A h \in Vivos' : /\ h[1] \in pcbMem'
                          /\ h[1] \in memProc' \/ fin'[h[1]].fase \in {"tomar", "hilos"}
                          /\ finalizado'[h[1]] => PorTerminar(h[1])'
    <3>1. \A h \in Vivos : /\ h[1] \in pcbMem
                           /\ h[1] \in memProc \/ fin[h[1]].fase \in {"tomar", "hilos"}
                           /\ finalizado[h[1]] => PorTerminar(h[1])
      BY DEF Sano, Orden, Procesos
    <3>2. QED
      BY <1>1, <1>3, <1>11, <2>1, <3>1
  <2>3. \A q \in Pids : Solo(q) => Solo(q)'
    BY <1>11 DEF Solo
  <2>4. Solo(p)'
    BY <1>4, <1>8, <2>3
  <2>5. \A q \in Pids :
          /\ Terminando(q)' => Solo(q)' /\ q \in pcbMem'
          /\ finalizado'[q] => q \in pcbMem' \cup pcbExit'
          /\ PorTerminar(q)' => Apagada(q)'
          /\ finPend'[q] = 0 \/ (finPend'[q] = 1 /\ fin'[q].fase = "nada")
          /\ fin'[q].fase = "cero" => \A h \in Vivos' : h[1] # q
          /\ fin'[q].fase = "hilos" => fin'[q].cero /\ <<q, 0>> \notin ToSet(listaIds'[q])
    <3>1. \A q \in Pids :
            /\ Terminando(q) => Solo(q) /\ q \in pcbMem
            /\ finalizado[q] => q \in pcbMem \cup pcbExit
            /\ finPend[q] = 0 \/ (finPend[q] = 1 /\ fin[q].fase = "nada")
            /\ fin[q].fase = "cero" => \A h \in Vivos : h[1] # q
            /\ fin[q].fase = "hilos" => fin[q].cero /\ <<q, 0>> \notin ToSet(listaIds[q])
      BY DEF Sano, Orden, Procesos
    <3>2. SUFFICES ASSUME NEW q \in Pids
                   PROVE  /\ Terminando(q)' => Solo(q)' /\ q \in pcbMem'
                          /\ finalizado'[q] => q \in pcbMem' \cup pcbExit'
                          /\ PorTerminar(q)' => Apagada(q)'
                          /\ finPend'[q] = 0 \/ (finPend'[q] = 1 /\ fin'[q].fase = "nada")
                          /\ fin'[q].fase = "cero" => \A h \in Vivos' : h[1] # q
                          /\ fin'[q].fase = "hilos" => fin'[q].cero /\ <<q, 0>> \notin ToSet(listaIds'[q])
      BY Zenon
    <3>3. fin' = fin /\ listaIds' = listaIds /\ finalizado' = finalizado /\ pcbMem' = pcbMem /\ pcbExit' = pcbExit
      BY <1>1
    <3>4. CASE q = p
      BY <1>3, <1>6, <1>7, <1>8, <1>16, <2>4, <3>1, <3>3, <3>4
    <3>5. CASE q # p
      BY <1>7, <1>8, <1>9, <1>11, <2>3, <3>1, <3>3, <3>5
    <3>6. QED
      BY <3>4, <3>5
  <2>6. \A e \in Ejecutores : fh'[e].fase # "nada" =>
          /\ e # Dispatch => fh'[e].hilo = <<e, 0>> /\ fin'[e].fase = "cero"
          /\ \A q : q = fh'[e].hilo[1] /\ Terminando(q)' => e = q
    <3>1. \A e \in Ejecutores : fh[e].fase # "nada" => fh[e].hilo[1] \in Pids /\ e # Dispatch
      BY <1>2, FhEs DEF Hilos
    <3>2. \A e \in Ejecutores : fh[e].fase # "nada" =>
            /\ e # Dispatch => fh[e].hilo = <<e, 0>> /\ fin[e].fase = "cero"
            /\ \A q : q = fh[e].hilo[1] /\ Terminando(q) => e = q
      BY DEF Sano, Orden, Procesos
    <3>3. QED
      BY <1>1, <3>1, <3>2
  <2>7. \A q \in pcbExit' : q \notin pcbMem' /\ q \notin ToSet(pcbNew') /\ q < siguientePid'
    BY <1>1 DEF Sano, Orden, Procesos
  <2>8. QED
    BY <2>2, <2>5, <2>6, <2>7 DEF Procesos
<1>18. Libre'
  <2>1. Retenido(h0)'
    <3>1. h0[2] = 0 /\ h0[1] = p
      BY <1>4, <1>5, <1>8, <1>20
    <3>2. QED
      BY <1>9, <3>1 DEF Retenido
  <2>2. exec' = <<h0>> /\ aCpu' = <<>>
    BY <1>1, <1>3, <1>20
  <2>3. QED
    BY <1>1, <1>2, <1>3, <1>4, <2>1, <2>2 DEF Libre, Cancela
<1>19. QED
  BY <1>12, <1>13, <1>14, <1>15, <1>17, <1>18 DEF Ordenados, Orden, Turno

\* The thread that dumps stays in EXEC until atender_dump_memory blocks it.
LEMMA AtiendeDumpOrden ==
  ASSUME Sano, TypeOK', Lugares', AtiendeDump
  PROVE  Ordenados'
<1>1. /\ Llega("DUMP_MEMORY") /\ dump' = [dump EXCEPT ![H] = "bloquear"]
      /\ Quedan(Pcp(Colas, prioridad))
      /\ UNCHANGED <<blocked, salidos, asignados, esperanJoin, pcbNew, pcbMem, pcbExit, siguientePid,
                     siguienteTid, listaIds, finalizado, duenio, bloqueadosMutex, fh, finPend, fin,
                     rtaDump, idLiberado, memProc, memHilos, dumpMem, cpu, contexto>>
  BY DEF AtiendeDump, vTcb, vPcb, vMutex, vFin, vMemoria, vCpu
<1>2. /\ aKernel # <<>> /\ aKernel' = <<>> /\ Pedida.instr = "DUMP_MEMORY"
  BY <1>1, LlegaDe
<1>3. /\ Pidio \/ Pidiendo
      /\ exec = <<H>> /\ aCpu = <<>> /\ ~Cancela /\ H \in Hilos /\ dump[H] = "nada" /\ H = contexto
      /\ \A p \in Pids : ~PorTerminar(p)
      /\ \A h \in Hilos : dump[h] # "bloquear"
      /\ H \in Vivos /\ H \in Creados /\ H \notin salidos /\ H \notin Esperando
  BY <1>2, Atendible
<1>4. PICK h0 \in Hilos : h0 = H
  BY <1>3
<1>5. exec' = <<h0>> /\ aCpu' = <<>>
  <2>1. Sigue
    BY <1>1, ColasTipo, PcpSigue, SigueDeColas DEF Sano, TypeOK
  <2>2. QED
    BY <1>3, <1>4, <2>1, Cortas DEF Sigue
<1>6. dump'[h0] = "bloquear" /\ \A h \in Hilos : h # h0 => dump'[h] = dump[h]
  BY <1>1, <1>4 DEF Sano, TypeOK, TipoDump
<1>7. /\ Finalizados' /\ Ids' /\ Procesos' /\ EnFila' /\ Duenios' /\ Esperando' = Esperando
      /\ Vivos' = Vivos /\ Creados' = Creados
  BY <1>1, <1>3, MenosDumps
<1>8. Detenidos'
  <2>1. \A h \in Esperando : dump'[h] = "nada"
    BY <1>3, <1>4, <1>6, DetenidosSon DEF Sano, Orden, Detenidos
  <2>2. \A h \in blocked : h \in Esperando \/ dump'[h] # "nada"
    BY <1>6, DetenidosSon DEF Sano, Orden, Detenidos
  <2>3. QED
    BY <1>1, <1>7, <2>1, <2>2 DEF Sano, Orden, Detenidos
<1>9. Dumps'
  <2>1. h0 \in Creados /\ h0 \notin idLiberado
    BY <1>3, <1>4 DEF Sano, Orden, Finalizados
  <2>2. \A e \in Ejecutores : fh[e].fase # "nada" => fh[e].hilo # h0
    BY <1>3, <1>4, FhEs
  <2>3. \A h \in Hilos : h # h0 /\ dump[h] # "nada" =>
          /\ h \in Creados /\ h \notin idLiberado
          /\ \A e \in Ejecutores : fh[e].fase # "nada" /\ fh[e].hilo = h => fh[e].rta
          /\ h \in Vivos => h \in blocked
    BY <1>3 DEF Sano, Orden, Dumps
  <2>4. \A h \in dumpMem : dump[h] = "pedido" /\ h \in Hilos /\ h # h0
    BY <1>3, <1>4 DEF Sano, Orden, Dumps, TypeOK, TipoCpu
  <2>5. \A h \in dumpMem : dump'[h] = "pedido"
    BY <1>6, <2>4
  <2>6. rtaDump # "ERROR" /\ \A h \in Hilos : dump[h] = "respondido" => rtaDump = "OK"
    BY DEF Sano, Orden, Dumps
  <2>7. rtaDump # "ERROR" /\ \A h \in Hilos : dump'[h] = "respondido" => rtaDump = "OK"
    BY <1>6, <2>6
  <2>8. \A h \in Hilos : dump'[h] # "nada" =>
          /\ h \in Creados' /\ h \notin idLiberado'
          /\ \A e \in Ejecutores : fh'[e].fase # "nada" /\ fh'[e].hilo = h => fh'[e].rta
          /\ dump'[h] = "bloquear" => exec' = <<h>> /\ aCpu' = <<>> /\ aKernel' = <<>>
          /\ dump'[h] # "bloquear" /\ h \in Vivos' => h \in blocked'
    <3>1. SUFFICES ASSUME NEW h \in Hilos, dump'[h] # "nada"
                   PROVE  /\ h \in Creados' /\ h \notin idLiberado'
                          /\ \A e \in Ejecutores : fh'[e].fase # "nada" /\ fh'[e].hilo = h => fh'[e].rta
                          /\ dump'[h] = "bloquear" => exec' = <<h>> /\ aCpu' = <<>> /\ aKernel' = <<>>
                          /\ dump'[h] # "bloquear" /\ h \in Vivos' => h \in blocked'
      BY Zenon
    <3>2. CASE h = h0
      BY <1>1, <1>2, <1>5, <1>6, <1>7, <2>1, <2>2, <3>2
    <3>3. CASE h # h0
      BY <1>1, <1>3, <1>6, <1>7, <2>3, <3>1, <3>3
    <3>4. QED
      BY <3>2, <3>3
  <2>9. QED
    BY <1>1, <2>5, <2>7, <2>8 DEF Dumps
<1>10. Libre'
  <2>1. Retenido(h0)'
    BY <1>6 DEF Retenido
  <2>2. cpu \in {"libre", "guardando"}
    BY <1>2, <1>3 DEF Pidio, Pidiendo, ConRespuesta
  <2>3. contexto \in Vivos'
    BY <1>3, <1>7
  <2>4. QED
    BY <1>1, <1>2, <1>3, <1>5, <2>1, <2>2, <2>3 DEF Libre, Cancela
<1>11. QED
  BY <1>7, <1>8, <1>9, <1>10 DEF Ordenados, Orden, Turno

\* The thread given back goes to the end of READY.
LEMMA AtiendeDesalojoOrden ==
  ASSUME Sano, TypeOK', Lugares', AtiendeDesalojo
  PROVE  Ordenados'
<1> DEFINE s == SacarDeExec(Colas, H)
           n == Encolar(s, H)
<1>1. /\ aKernel # <<>> /\ Pedida.op = "DESALOJO" /\ aKernel' = Tail(aKernel)
      /\ Quedan(IF H \in ToSet(exec) THEN Pcp(n, prioridad) ELSE Colas)
      /\ UNCHANGED <<blocked, salidos, asignados, esperanJoin, pcbNew, pcbMem, pcbExit, siguientePid,
                     siguienteTid, listaIds, finalizado, duenio, bloqueadosMutex, fh, finPend, fin,
                     dump, rtaDump, idLiberado, memProc, memHilos, dumpMem, cpu, contexto>>
  BY DEF AtiendeDesalojo, vTcb, vPcb, vMutex, vFin, vDump, vMemoria, vCpu
<1>2. /\ Pidio \/ Pidiendo
      /\ exec = <<H>> /\ aCpu = <<>> /\ ~Cancela /\ H \in Hilos /\ Tail(aKernel) = <<>>
  BY <1>1, Atendible
<1>3. Colas \in ColasDe(Hilos, MensajesCpu) /\ Colas.exec = <<H>> /\ Colas.aCpu = <<>>
  BY <1>2, ColasTipo DEF Sano, TypeOK, Colas
<1>4. s \in ColasDe(Hilos, MensajesCpu) /\ s.exec = <<>> /\ s.aCpu = <<>>
  <2>1. s \in ColasDe(Hilos, MensajesCpu)
    BY <1>3, SacarCorrecto
  <2>2. s.exec = RemoveFirst(Colas.exec, H) /\ s.aCpu = Colas.aCpu
    BY <1>3 DEF SacarDeExec, ColasDe
  <2>3. QED
    BY <1>3, <2>1, <2>2, Cortas
<1> HIDE DEF s
<1>5. n \in ColasDe(Hilos, MensajesCpu) /\ n.exec = <<>> /\ n.aCpu = <<>>
  <2>1. n \in ColasDe(Hilos, MensajesCpu) /\ n.exec = s.exec
    BY <1>2, <1>4, EncolarEnviarCorrecto
  <2>2. n.aCpu = s.aCpu
    BY <1>4 DEF Encolar, ColasDe
  <2>3. QED
    BY <1>4, <2>1, <2>2
<1> HIDE DEF n
<1>6. Quedan(Pcp(n, prioridad))
  <2>1. H \in ToSet(exec)
    BY <1>2, Cortas
  <2>2. QED
    BY <1>1, <2>1
<1>7. Despacha(n, Pcp(n, prioridad))
  BY <1>5, PcpSigue DEF Sano, TypeOK
<1>8. \/ exec' = <<>> /\ aCpu' = <<>>
      \/ \E h \in Hilos : exec' = <<h>> /\ aCpu' = <<Ejecutar(h)>>
  BY <1>5, <1>6, <1>7, Cortas DEF Despacha, Quedan
<1>9. Orden'
  BY <1>1, NadaRetiene, OrdenIgual
<1>10. Enviado(<<>>)'
  <2>1. \A h \in Hilos : exec' = <<h>> /\ aCpu' = <<Ejecutar(h)>> => dump'[h] = "nada"
    BY <1>9, DespachadoSinDump, Cortas DEF Orden
  <2>2. \A h : Append(<<>>, Ejecutar(h)) = <<Ejecutar(h)>>
    BY Cortas
  <2>3. QED
    BY <1>8, <2>1, <2>2 DEF Enviado
<1>11. cpu = "libre"
  BY <1>1, <1>2 DEF Pidio, Pidiendo
<1>12. Libre'
  BY <1>1, <1>2, <1>10, <1>11 DEF Libre, Cancela
<1>13. QED
  BY <1>9, <1>12 DEF Ordenados, Turno

(* The thread that asks is blocked, in a queue, and the CPU is told to give it
   up. *)
LEMMA CedeOrden ==
  ASSUME Sano, TypeOK', Lugares', aKernel # <<>>, aKernel' = <<>>,
         Pedida.instr \in {"THREAD_JOIN", "MUTEX_LOCK"},
         Bloquear(Enviar(Colas, Rta("DESALOJO")), H),
         UNCHANGED <<salidos, asignados, pcbNew, pcbMem, pcbExit, siguientePid, siguienteTid, listaIds,
                     finalizado, duenio, fh, finPend, fin, dump, rtaDump, idLiberado, memProc, memHilos,
                     dumpMem, cpu, contexto>>,
         SinComunes(Filas, Fila'), Esperando' = Esperando \cup {H},
         \A h \in Hilos : h \notin Creados => esperanJoin'[h] = <<>>,
         \A e \in Ejecutores : fh[e].fase # "nada" =>
           ToSet(esperanJoin[fh[e].hilo]) \subseteq ToSet(esperanJoin'[fh[e].hilo]),
         \A m \in Mutexes : bloqueadosMutex'[m] # <<>> => duenio[m] # Nadie
  PROVE  Ordenados'
<1> DEFINE q == Enviar(Colas, Rta("DESALOJO"))
<1>1. /\ Pidio \/ Pidiendo
      /\ exec = <<H>> /\ aCpu = <<>> /\ ~Cancela /\ H \in Hilos /\ H = contexto /\ H \in Vivos
      /\ H \in Creados /\ dump[H] = "nada"
      /\ \A h \in Hilos : dump[h] # "bloquear"
      /\ \A p \in Pids : ~PorTerminar(p)
  BY Atendible
<1>2. q \in ColasDe(Hilos, MensajesCpu) /\ q.exec = <<H>> /\ q.aCpu = <<Rta("DESALOJO")>>
  <2>1. Colas \in ColasDe(Hilos, MensajesCpu) /\ Colas.exec = <<H>> /\ Colas.aCpu = <<>>
    BY <1>1, ColasTipo DEF Sano, TypeOK, Colas
  <2>2. q \in ColasDe(Hilos, MensajesCpu)
    BY <2>1, ResponderTipo
  <2>3. q.exec = Colas.exec /\ q.aCpu = Append(Colas.aCpu, Rta("DESALOJO"))
    BY <2>1, Contesta
  <2>4. QED
    BY <2>1, <2>2, <2>3, Cortas
<1> HIDE DEF q
<1>3. Quedan(Pcp(SacarDeExec(q, H), prioridad)) /\ blocked' = blocked \cup {H}
  <2>1. H \in ToSet(exec) /\ Bloquear(q, H)
    BY <1>1, Cortas DEF q
  <2>2. QED
    BY <2>1 DEF Bloquear
<1>4. \/ exec' = <<>> /\ aCpu' = <<Rta("DESALOJO")>>
      \/ \E h \in Hilos : exec' = <<h>> /\ aCpu' = Append(<<Rta("DESALOJO")>>, Ejecutar(h))
  BY <1>1, <1>2, <1>3, SacaYSigue DEF Sano
<1>5. Lugares /\ TypeOK
  BY DEF Sano
<1>6. Vivos' = Vivos /\ Creados' = Creados /\ Salientes' = Salientes /\ Vivos \subseteq Hilos
  BY <1>5, MismaGenteFh, VivosSon
<1>7. Finalizados' /\ Ids'
  BY <1>6 DEF Sano, Orden, Finalizados, Ids
<1>8. Procesos'
  BY <1>1, <1>6, ProcesosIgual DEF Sano, Orden
<1>9. EnFila'
  <2>1. SinComunes(Filas, Fila)'
    BY DEF Filas
  <2>2. EnFila /\ Esperando' \subseteq Creados'
    BY <1>1, <1>6 DEF Sano, Orden, EnFila
  <2>3. \A e \in Ejecutores : fh[e].fase # "nada" => ToSet(fh[e].joins) \subseteq ToSet(esperanJoin'[fh[e].hilo])
    BY <2>2 DEF EnFila
  <2>4. QED
    BY <1>6, <2>1, <2>2, <2>3 DEF EnFila
<1>10. Detenidos'
  BY <1>1, <1>3, <1>6 DEF Sano, Orden, Detenidos
<1>11. Dumps'
  BY <1>1, <1>3, <1>6, DumpsIgual DEF Sano, Orden, Dumps
<1>12. Duenios'
  BY <1>6 DEF Sano, Orden, Duenios, Propios
<1>13. Enviado(<<Rta("DESALOJO")>>)'
  <2>1. \A h : Append(<<Rta("DESALOJO")>>, Ejecutar(h)) # <<>>
    BY Cortas
  <2>2. \A h \in Hilos : exec' = <<h>> /\ aCpu' # <<>> => dump'[h] = "nada"
    BY <1>11, DespachadoSinDump
  <2>3. QED
    BY <1>4, <2>1, <2>2 DEF Enviado
<1>14. cpu = "espera"
  BY <1>1 DEF Pidio, Pidiendo, SinRespuesta, ConDesalojo, EsperaRta
<1>15. Cedido'
  BY <1>1, <1>6, <1>13, <1>14 DEF Cedido, Cancela
<1>16. QED
  BY <1>7, <1>8, <1>9, <1>10, <1>11, <1>12, <1>15 DEF Ordenados, Orden, Turno

\* THREAD_JOIN: the thread waits for another, if that one is alive.
LEMMA ThreadJoinOrden ==
  ASSUME Sano, TypeOK', Lugares', AtiendeThreadJoin
  PROVE  Ordenados'
<1> DEFINE t == <<P, Pedida.arg>>
<1>1. /\ Llega("THREAD_JOIN")
      /\ IF Existe(t)
         THEN /\ Bloquear(Enviar(Colas, Rta("DESALOJO")), H)
              /\ \E v \in IdLeido(H) : esperanJoin' = [esperanJoin EXCEPT ![t] = Append(@, v)]
         ELSE Quedan(Enviar(Colas, Rta("OK"))) /\ UNCHANGED <<blocked, esperanJoin>>
      /\ UNCHANGED <<salidos, asignados, pcbNew, pcbMem, pcbExit, siguientePid, siguienteTid, listaIds,
                     finalizado, duenio, bloqueadosMutex, fh, finPend, fin, dump, rtaDump, idLiberado,
                     memProc, memHilos, dumpMem, cpu, contexto>>
  BY DEF AtiendeThreadJoin, vPcb, vMutex, vFin, vDump, vMemoria, vCpu
<1> HIDE DEF t
<1>2. aKernel # <<>> /\ aKernel' = <<>> /\ Pedida.instr = "THREAD_JOIN"
  BY <1>1, LlegaDe
<1>3. aCpu = <<>> /\ IdLeido(H) = {H} /\ H \in Hilos /\ H \notin Esperando
  BY <1>2, Atendible
<1>4. CASE Existe(t)
  <2>1. t \in Vivos /\ t \in Hilos /\ t \in Creados
    BY <1>4, VivosExisten, VivosSon DEF Sano
  <2>2. Bloquear(Enviar(Colas, Rta("DESALOJO")), H) /\ esperanJoin' = [esperanJoin EXCEPT ![t] = Append(@, H)]
    BY <1>1, <1>3, <1>4
  <2>3. Lugares /\ TypeOK /\ EnFila
    BY DEF Sano, Orden
  <2>4. Vivos' = Vivos
    BY <1>1, <2>3, MismaGenteFh
  <2>5. SinComunes(Filas, Fila') /\ Esperando' = Esperando \cup {H}
    BY <1>1, <1>3, <2>1, <2>2, <2>3, <2>4, FilasEntraJoin
  <2>6. \A h \in Hilos : esperanJoin'[h] = IF h = t THEN Append(esperanJoin[t], H) ELSE esperanJoin[h]
    BY <2>2, <2>3 DEF TypeOK, TipoTcb
  <2>7. \A h \in Hilos : h \notin Creados => esperanJoin'[h] = <<>>
    BY <2>1, <2>3, <2>6 DEF EnFila
  <2>8. \A e \in Ejecutores : fh[e].fase # "nada" => esperanJoin'[fh[e].hilo] = esperanJoin[fh[e].hilo]
    BY <2>1, <2>6, FhEs
  <2>9. \A m \in Mutexes : bloqueadosMutex'[m] # <<>> => duenio[m] # Nadie
    BY <1>1 DEF Sano, Orden, Duenios
  <2>10. \A e \in Ejecutores : fh[e].fase # "nada" =>
           ToSet(esperanJoin[fh[e].hilo]) \subseteq ToSet(esperanJoin'[fh[e].hilo])
    BY <2>8
  <2>11. QED
    BY <1>1, <1>2, <2>2, <2>5, <2>7, <2>9, <2>10, CedeOrden
<1>5. CASE ~Existe(t)
  <2>1. Quedan(Enviar(Colas, Rta("OK"))) /\ UNCHANGED <<blocked, esperanJoin>>
    BY <1>1, <1>5
  <2>2. exec' = exec /\ aCpu' = <<Rta("OK")>>
    BY <1>3, <2>1, ColasTipo, Contesta, Cortas DEF Quedan, Colas, Sano, TypeOK
  <2>3. Orden'
    BY <1>1, <1>2, <2>1, NadaRetiene, OrdenIgual
  <2>4. Turno'
    BY <1>1, <1>2, <2>2, RespondeOk DEF ConRespuesta
  <2>5. QED
    BY <2>3, <2>4 DEF Ordenados
<1>6. QED
  BY <1>4, <1>5

\* A mutex changes hands, between threads alive or none.
LEMMA CambiaDuenio ==
  ASSUME Sano, Vivos' = Vivos, Salientes' = Salientes, fh' = fh, NEW m \in Mutexes,
         duenio[m] \in Vivos \cup {Nadie}, NEW d \in Vivos \cup {Nadie}, d # duenio[m],
         duenio' = [duenio EXCEPT ![m] = d],
         \A h \in Hilos : asignados'[h] = IF h = duenio[m] THEN RemoveFirst(asignados[h], m)
                                          ELSE IF h = d THEN Append(asignados[h], m) ELSE asignados[h],
         \A n \in Mutexes : bloqueadosMutex'[n] # <<>> =>
           bloqueadosMutex[n] # <<>> /\ (n = m => d # Nadie)
  PROVE  Duenios'
<1> DEFINE a == duenio[m]
<1>1. Vivos \subseteq Hilos
  BY VivosSon DEF Sano
<1>2. \A n \in Mutexes : duenio'[n] = IF n = m THEN d ELSE duenio[n]
  BY DEF Sano, TypeOK, TipoMutex
<1>3. \A h : Propios(h)' = IF h = d THEN Propios(h) \cup {m} ELSE Propios(h) \ {m}
  BY <1>2 DEF Propios
<1>4. \A h \in Vivos : /\ asignados[h] \in Seq(Mutexes) /\ IsInjective(asignados[h])
                       /\ ToSet(asignados[h]) = Propios(h)
  BY <1>1 DEF Sano, TypeOK, TipoTcb, Orden, Duenios
<1>5. \A h : h # a => m \notin Propios(h)
  BY DEF Propios
<1>6. \A h \in Vivos : IsInjective(asignados'[h]) /\ ToSet(asignados'[h]) = Propios(h)'
  <2>1. SUFFICES ASSUME NEW h \in Vivos
                 PROVE  IsInjective(asignados'[h]) /\ ToSet(asignados'[h]) = Propios(h)'
    OBVIOUS
  <2>2. asignados[h] \in Seq(Mutexes) /\ IsInjective(asignados[h]) /\ ToSet(asignados[h]) = Propios(h)
    BY <1>4
  <2>3. CASE h = a
    <3>1. asignados'[h] = RemoveFirst(asignados[h], m)
      BY <1>1, <2>3
    <3>2. IsInjective(asignados'[h]) /\ ToSet(asignados'[h]) = ToSet(asignados[h]) \ {m}
      BY <2>2, <3>1, RemoveFirstElementos
    <3>3. Propios(h)' = Propios(h) \ {m}
      BY <1>3, <2>3
    <3>4. QED
      BY <2>2, <3>2, <3>3
  <2>4. CASE h = d
    <3>1. asignados'[h] = Append(asignados[h], m) /\ m \notin ToSet(asignados[h])
      BY <1>1, <1>5, <2>2, <2>4
    <3>2. IsInjective(asignados'[h]) /\ ToSet(asignados'[h]) = ToSet(asignados[h]) \cup {m}
      BY <2>2, <3>1, AppendElementos
    <3>3. Propios(h)' = Propios(h) \cup {m}
      BY <1>3, <2>4
    <3>4. QED
      BY <2>2, <3>2, <3>3
  <2>5. CASE h # a /\ h # d
    <3>1. asignados'[h] = asignados[h]
      BY <1>1, <2>5
    <3>2. Propios(h)' = Propios(h)
      BY <1>3, <1>5, <2>5
    <3>3. QED
      BY <2>2, <3>1, <3>2
  <2>6. QED
    BY <2>3, <2>4, <2>5
<1>7. \A e \in Ejecutores : fh[e].fase # "nada" =>
        /\ IsInjective(fh[e].mutexes) /\ IsInjective(asignados'[fh[e].hilo])
        /\ \A h : h = fh[e].hilo => /\ ToSet(fh[e].mutexes) = Propios(h)'
                                    /\ Propios(h)' \subseteq ToSet(asignados'[h])
  <2>1. SUFFICES ASSUME NEW e \in Ejecutores, fh[e].fase # "nada", NEW h, h = fh[e].hilo
                 PROVE  /\ IsInjective(fh[e].mutexes) /\ IsInjective(asignados'[h])
                        /\ ToSet(fh[e].mutexes) = Propios(h)'
                        /\ Propios(h)' \subseteq ToSet(asignados'[h])
    OBVIOUS
  <2>2. h \in Hilos /\ h \notin Vivos /\ h # Nadie
    BY <2>1, FhEs, NadieNoEsHilo
  <2>3. h # a /\ h # d
    BY <2>2
  <2>4. asignados'[h] = asignados[h] /\ Propios(h)' = Propios(h)
    BY <1>3, <1>5, <2>2, <2>3
  <2>5. QED
    BY <2>1, <2>4 DEF Sano, Orden, Duenios
<1>8. \A n \in Mutexes : /\ duenio'[n] \in Vivos \cup Salientes \cup {Nadie}
                         /\ bloqueadosMutex'[n] # <<>> => duenio'[n] # Nadie
  BY <1>2 DEF Sano, Orden, Duenios
<1>9. QED
  BY <1>6, <1>7, <1>8 DEF Duenios

(* A mutex changes hands at the request of a thread: those of B, one or none,
   leave its waiters. *)
LEMMA MutexResto ==
  ASSUME Sano, TypeOK', Lugares', aKernel # <<>>,
         UNCHANGED <<salidos, esperanJoin, pcbNew, pcbMem, pcbExit, siguientePid, siguienteTid, listaIds,
                     finalizado, fh, finPend, fin, dump, rtaDump, idLiberado, memProc, memHilos, dumpMem>>,
         NEW B, \A h \in B : dump[h] = "nada", blocked' = blocked \ B, Esperando' = Esperando \ B,
         SinComunes(Filas, Fila'), \A h \in Hilos : h \notin Creados => asignados'[h] = <<>>
  PROVE  /\ Finalizados' /\ Ids' /\ Procesos' /\ EnFila' /\ Detenidos' /\ Dumps'
         /\ Vivos' = Vivos /\ Creados' = Creados /\ Salientes' = Salientes
<1>1. Lugares /\ TypeOK
  BY DEF Sano
<1>2. Vivos' = Vivos /\ Creados' = Creados /\ Salientes' = Salientes /\ Vivos \subseteq Hilos
  BY <1>1, MismaGenteFh, VivosSon
<1>3. Finalizados' /\ Ids'
  BY <1>2 DEF Sano, Orden, Finalizados, Ids
<1>4. /\ \A h \in Hilos : dump[h] # "bloquear"
      /\ \A p \in Pids : ~PorTerminar(p)
  BY Atendible
<1>5. Procesos'
  BY <1>2, <1>4, ProcesosIgual DEF Sano, Orden
<1>6. EnFila'
  <2>1. SinComunes(Filas, Fila)'
    BY DEF Filas
  <2>2. QED
    BY <1>2, <2>1 DEF Sano, Orden, EnFila
<1>7. Detenidos'
  BY <1>2 DEF Sano, Orden, Detenidos
<1>8. Dumps'
  BY <1>2, <1>4, DumpsIgual DEF Sano, Orden, Dumps
<1>9. QED
  BY <1>2, <1>3, <1>5, <1>6, <1>7, <1>8

\* MUTEX_LOCK: the thread waits for the mutex, or owns it.
LEMMA MutexLockOrden ==
  ASSUME Sano, TypeOK', Lugares', AtiendeMutexLock
  PROVE  Ordenados'
<1> DEFINE m0 == <<P, Pedida.arg>>
<1>1. /\ Llega("MUTEX_LOCK") /\ m0 \in mutexes
      /\ IF duenio[m0] # Nadie
         THEN /\ Bloquear(Enviar(Colas, Rta("DESALOJO")), H)
              /\ \E v \in IdLeido(H) : bloqueadosMutex' = [bloqueadosMutex EXCEPT ![m0] = Append(@, v)]
              /\ UNCHANGED <<asignados, duenio>>
         ELSE /\ Quedan(Enviar(Colas, Rta("OK")))
              /\ asignados' = [asignados EXCEPT ![H] = Append(@, m0)]
              /\ duenio' = [duenio EXCEPT ![m0] = H]
              /\ UNCHANGED <<blocked, bloqueadosMutex>>
      /\ UNCHANGED <<salidos, esperanJoin, pcbNew, pcbMem, pcbExit, siguientePid, siguienteTid, listaIds,
                     finalizado, fh, finPend, fin, dump, rtaDump, idLiberado, memProc, memHilos, dumpMem,
                     cpu, contexto>>
  BY DEF AtiendeMutexLock, vPcb, vFin, vDump, vMemoria, vCpu
<1>2. aKernel # <<>> /\ aKernel' = <<>> /\ Pedida.instr = "MUTEX_LOCK"
  BY <1>1, LlegaDe
<1>3. aCpu = <<>> /\ IdLeido(H) = {H} /\ H \in Hilos /\ H \notin Esperando /\ H \in Vivos /\ H \in Creados
  BY <1>2, Atendible
<1>4. PICK m \in Mutexes : m = m0
  BY <1>1 DEF Sano, TypeOK, TipoMutex
<1>5. PICK h0 \in Hilos : h0 = H
  BY <1>3
<1> HIDE DEF m0
<1>6. Lugares /\ TypeOK /\ EnFila
  BY DEF Sano, Orden
<1>7. Vivos' = Vivos /\ Salientes' = Salientes
  BY <1>1, <1>6, MismaGenteFh
<1>8. CASE duenio[m] # Nadie
  <2>1. /\ Bloquear(Enviar(Colas, Rta("DESALOJO")), H) /\ UNCHANGED <<asignados, duenio>>
        /\ bloqueadosMutex' = [bloqueadosMutex EXCEPT ![m] = Append(@, H)]
    BY <1>1, <1>3, <1>4, <1>8
  <2>2. \A h \in Hilos : Fila'[<<"join", h>>] = Fila[<<"join", h>>]
    BY <1>1, <1>6, <1>7, JoinsIguales
  <2>3. SinComunes(Filas, Fila') /\ Esperando' = Esperando \cup {H}
    BY <1>1, <1>3, <1>6, <2>1, <2>2, FilasEntraMutex
  <2>4. \A n \in Mutexes : n # m => bloqueadosMutex'[n] = bloqueadosMutex[n]
    BY <1>6, <2>1 DEF TypeOK, TipoMutex
  <2>5. \A n \in Mutexes : bloqueadosMutex'[n] # <<>> => duenio[n] # Nadie
    BY <1>8, <2>4 DEF Sano, Orden, Duenios
  <2>6. /\ \A h \in Hilos : h \notin Creados => esperanJoin'[h] = <<>>
        /\ \A e \in Ejecutores : fh[e].fase # "nada" =>
             ToSet(esperanJoin[fh[e].hilo]) \subseteq ToSet(esperanJoin'[fh[e].hilo])
    BY <1>1, <1>6 DEF EnFila
  <2>7. QED
    BY <1>1, <1>2, <2>1, <2>3, <2>5, <2>6, CedeOrden
<1>9. CASE duenio[m] = Nadie
  <2>1. /\ Quedan(Enviar(Colas, Rta("OK"))) /\ asignados' = [asignados EXCEPT ![h0] = Append(@, m)]
        /\ duenio' = [duenio EXCEPT ![m] = h0] /\ UNCHANGED <<blocked, bloqueadosMutex>>
    BY <1>1, <1>4, <1>5, <1>9
  <2>2. exec' = exec /\ aCpu' = <<Rta("OK")>>
    BY <1>3, <2>1, ColasTipo, Contesta, Cortas DEF Quedan, Colas, Sano, TypeOK
  <2>3. \A h \in Hilos : asignados'[h] = IF h = h0 THEN Append(asignados[h], m) ELSE asignados[h]
    BY <1>6, <2>1 DEF TypeOK, TipoTcb
  <2>4. \A h \in Hilos : h \notin Creados => asignados'[h] = <<>>
    BY <1>3, <1>5, <1>6, <2>3 DEF EnFila
  <2>5. SinComunes(Filas, Fila') /\ Esperando' = Esperando
    BY <1>1, <1>6, <1>7, <2>1, JoinsIguales, FilasIgual
  <2>6. /\ Finalizados' /\ Ids' /\ Procesos' /\ EnFila' /\ Detenidos' /\ Dumps'
    <3>1. PICK B : B = {}
      OBVIOUS
    <3>2. blocked' = blocked \ B /\ Esperando' = Esperando \ B /\ \A h \in B : dump[h] = "nada"
      BY <2>1, <2>5, <3>1
    <3>3. UNCHANGED <<salidos, esperanJoin, pcbNew, pcbMem, pcbExit, siguientePid, siguienteTid, listaIds,
                      finalizado, fh, finPend, fin, dump, rtaDump, idLiberado, memProc, memHilos, dumpMem>>
      BY <1>1
    <3>4. aKernel # <<>> /\ SinComunes(Filas, Fila')
      BY <1>2, <2>5
    <3>5. QED
      BY ONLY Sano, TypeOK', Lugares', <2>4, <3>2, <3>3, <3>4, MutexResto
  <2>7. Duenios'
    <3>1. h0 \in Vivos /\ h0 # Nadie
      BY <1>3, <1>5, NadieNoEsHilo
    <3>2. \A h \in Hilos : asignados'[h] = IF h = duenio[m] THEN RemoveFirst(asignados[h], m)
                                           ELSE IF h = h0 THEN Append(asignados[h], m) ELSE asignados[h]
      BY <1>9, <2>3, NadieNoEsHilo
    <3>3. \A n \in Mutexes : bloqueadosMutex'[n] # <<>> => bloqueadosMutex[n] # <<>> /\ (n = m => h0 # Nadie)
      BY <2>1, <3>1
    <3>4. duenio[m] = Nadie /\ h0 # Nadie /\ fh' = fh
      BY <1>1, <1>9, <3>1
    <3>5. QED
      BY ONLY Sano, <1>7, <2>1, <3>1, <3>2, <3>3, <3>4, CambiaDuenio
  <2>8. Turno'
    BY <1>1, <1>2, <2>2, RespondeOk DEF ConRespuesta
  <2>9. QED
    BY <2>6, <2>7, <2>8 DEF Ordenados, Orden
<1>10. QED
  BY <1>8, <1>9

\* MUTEX_UNLOCK: the mutex is free, or goes to its first waiter.
LEMMA MutexUnlockOrden ==
  ASSUME Sano, TypeOK', Lugares', AtiendeMutexUnlock
  PROVE  Ordenados'
<1> DEFINE m0 == <<P, Pedida.arg>>
<1>1. /\ Llega("MUTEX_UNLOCK") /\ m0 \in mutexes
      /\ IF duenio[m0] = H
         THEN Protocolo(m0, SinRecurso(H, m0), TRUE)
         ELSE /\ Quedan(Enviar(Colas, Rta("OK")))
              /\ UNCHANGED <<blocked, asignados, duenio, bloqueadosMutex, caido>>
      /\ UNCHANGED <<salidos, esperanJoin, pcbNew, pcbMem, pcbExit, siguientePid, siguienteTid, listaIds,
                     finalizado, fh, finPend, fin, dump, rtaDump, idLiberado, memProc, memHilos, dumpMem,
                     cpu, contexto>>
  BY DEF AtiendeMutexUnlock, vPcb, vFin, vDump, vMemoria, vCpu
<1>2. aKernel # <<>> /\ aKernel' = <<>> /\ Pedida.instr = "MUTEX_UNLOCK"
  BY <1>1, LlegaDe
<1>3. aCpu = <<>> /\ exec = <<H>> /\ H \in Hilos /\ H \notin Esperando /\ H \in Vivos /\ H \in Creados
  BY <1>2, Atendible
<1>4. PICK m \in Mutexes : m = m0
  BY <1>1 DEF Sano, TypeOK, TipoMutex
<1>5. PICK h0 \in Hilos : h0 = H
  BY <1>3
<1> HIDE DEF m0
<1>6. Lugares /\ TypeOK /\ EnFila
  BY DEF Sano, Orden
<1>7. Vivos' = Vivos /\ Salientes' = Salientes /\ Vivos \subseteq Hilos
  BY <1>1, <1>6, MismaGenteFh, VivosSon
<1>8. CASE duenio[m] # h0
  <2>1. Quedan(Enviar(Colas, Rta("OK"))) /\ UNCHANGED <<blocked, asignados, duenio, bloqueadosMutex>>
    BY <1>1, <1>4, <1>5, <1>8
  <2>2. exec' = exec /\ aCpu' = <<Rta("OK")>>
    BY <1>3, <2>1, ColasTipo, Contesta, Cortas DEF Quedan, Colas, Sano, TypeOK
  <2>3. Orden'
    BY <1>1, <1>2, <2>1, NadaRetiene, OrdenIgual
  <2>4. Turno'
    BY <1>1, <1>2, <2>2, RespondeOk DEF ConRespuesta
  <2>5. QED
    BY <2>3, <2>4 DEF Ordenados
<1>9. CASE duenio[m] = h0
  <2> DEFINE asig == [asignados EXCEPT ![h0] = RemoveFirst(@, m)]
             w == Head(bloqueadosMutex[m])
  <2>1. Protocolo(m, asig, TRUE)
    BY <1>1, <1>4, <1>5, <1>9 DEF SinRecurso
  <2>2. \A h \in Hilos : asig[h] = IF h = h0 THEN RemoveFirst(asignados[h], m) ELSE asignados[h]
    BY <1>6 DEF TypeOK, TipoTcb
  <2>3. asig \in [Hilos -> Seq(Mutexes)]
    <3>1. \A h \in Hilos : asignados[h] \in Seq(Mutexes)
      BY <1>6 DEF TypeOK, TipoTcb
    <3>2. RemoveFirst(asignados[h0], m) \in Seq(Mutexes)
      BY <3>1, RemoveFirstSeq
    <3>3. QED
      BY <1>6, <3>2 DEF TypeOK, TipoTcb
  <2>4. h0 \in Vivos /\ h0 # Nadie /\ h0 \in Creados /\ h0 \notin Esperando
    BY <1>3, <1>5, NadieNoEsHilo
  <2> HIDE DEF asig
  <2>5. CASE bloqueadosMutex[m] = <<>>
    <3>1. /\ duenio' = [duenio EXCEPT ![m] = Nadie] /\ asignados' = asig
          /\ Quedan(Responder(Colas, TRUE)) /\ UNCHANGED <<bloqueadosMutex, blocked>>
      BY <2>1, <2>5 DEF Protocolo
    <3>2. exec' = exec /\ aCpu' = <<Rta("OK")>>
      BY <1>3, <3>1, ColasTipo, Contesta, Cortas DEF Quedan, Colas, Sano, TypeOK
    <3>3. \A h \in Hilos : h \notin Creados => asignados'[h] = <<>>
      BY <1>6, <2>2, <2>4, <3>1 DEF EnFila
    <3>4. SinComunes(Filas, Fila') /\ Esperando' = Esperando
      BY <1>1, <1>6, <1>7, <3>1, JoinsIguales, FilasIgual
    <3>5. Finalizados' /\ Ids' /\ Procesos' /\ EnFila' /\ Detenidos' /\ Dumps'
      <4>1. blocked' = blocked \ {} /\ Esperando' = Esperando \ {} /\ \A h \in {} : dump[h] = "nada"
        BY <3>1, <3>4
      <4>2. QED
        BY <1>1, <1>2, <3>3, <3>4, <4>1, MutexResto
    <3>6. Duenios'
      <4>1. \A h \in Hilos : asignados'[h] = IF h = duenio[m] THEN RemoveFirst(asignados[h], m)
                                             ELSE IF h = Nadie THEN Append(asignados[h], m) ELSE asignados[h]
        BY <1>9, <2>2, <3>1, NadieNoEsHilo
      <4>2. \A n \in Mutexes : bloqueadosMutex'[n] # <<>> =>
              bloqueadosMutex[n] # <<>> /\ (n = m => Nadie # Nadie)
        BY <2>5, <3>1
      <4>3. fh' = fh /\ Nadie \in Vivos \cup {Nadie} /\ duenio' = [duenio EXCEPT ![m] = Nadie]
        BY <1>1, <3>1
      <4>4. duenio[m] \in Vivos /\ duenio[m] # Nadie
        BY <1>9, <2>4
      <4>5. QED
        BY ONLY Sano, <1>7, <4>1, <4>2, <4>3, <4>4, CambiaDuenio
    <3>7. Turno'
      BY <1>1, <1>2, <3>2, RespondeOk DEF ConRespuesta
    <3>8. QED
      BY <3>5, <3>6, <3>7 DEF Ordenados, Orden
  <2>6. CASE bloqueadosMutex[m] # <<>>
    <3>1. /\ bloqueadosMutex' = [bloqueadosMutex EXCEPT ![m] = Tail(@)] /\ blocked' = blocked \ {w}
          /\ Quedan(Responder(Desbloquear(Colas, w), TRUE))
          /\ IF Existe(w)
             THEN /\ asignados' = [asig EXCEPT ![w] = Append(@, m)]
                  /\ duenio' = [duenio EXCEPT ![m] = w] /\ UNCHANGED caido
             ELSE Crash("kernel") /\ UNCHANGED <<asignados, duenio>>
      BY <2>1, <2>6 DEF Protocolo, Heredero
    <3>2. SinComunes(Filas, Fila') /\ Esperando' = Esperando \ {w} /\ w \in Esperando
      <4>1. \A h \in Hilos : Fila'[<<"join", h>>] = Fila[<<"join", h>>]
        BY <1>1, <1>6, <1>7, JoinsIguales
      <4>2. \A e \in Ejecutores : fh'[e].joins = fh[e].joins
        BY <1>1
      <4>3. QED
        BY <1>6, <2>6, <3>1, <4>1, <4>2, FilasMutex
    <3> HIDE DEF w
    <3>3. w # h0 /\ w \in Hilos /\ dump[w] = "nada"
      BY <2>4, <3>2, DetenidosSon DEF Sano, Orden, Detenidos
    <3>4. exec' = exec /\ aCpu' = <<Rta("OK")>>
      <4> DEFINE q == Desbloquear(Colas, w)
      <4>1. Colas \in ColasDe(Hilos, MensajesCpu) /\ Colas.exec = exec /\ Colas.aCpu = <<>>
        BY <1>3, <1>6, ColasTipo DEF TypeOK, Colas
      <4>2. q \in ColasDe(Hilos, MensajesCpu) /\ Despacha(Colas, q)
        BY <1>6, <4>1, DesbloquearTipo, DesbloquearSigue DEF TypeOK
      <4> HIDE DEF q
      <4>3. exec # <<>>
        BY <1>3, Cortas
      <4>4. q.exec = exec /\ q.aCpu = <<>>
        BY <4>1, <4>2, <4>3 DEF Despacha
      <4>5. Quedan(Responder(q, TRUE))
        BY <3>1 DEF q
      <4>6. Responder(q, TRUE).exec = q.exec /\ Responder(q, TRUE).aCpu = Append(q.aCpu, Rta("OK"))
        BY <4>2, Contesta
      <4>7. QED
        BY <4>4, <4>5, <4>6, Cortas DEF Quedan
    <3>5. Turno'
      BY <1>1, <1>2, <3>4, RespondeOk DEF ConRespuesta
    <3>6. CASE w \in Vivos
      <4>1. /\ asignados' = [asig EXCEPT ![w] = Append(@, m)]
            /\ duenio' = [duenio EXCEPT ![m] = w]
        BY <3>1, <3>6, VivosExisten
      <4>2. \A h \in Hilos : asignados'[h] = IF h = duenio[m] THEN RemoveFirst(asignados[h], m)
                                             ELSE IF h = w THEN Append(asignados[h], m) ELSE asignados[h]
        <5>1. \A h \in Hilos : asignados'[h] = IF h = w THEN Append(asig[w], m) ELSE asig[h]
          BY <2>3, <4>1
        <5>2. QED
          BY <1>9, <2>2, <3>3, <5>1
      <4>3. w \in Creados
        BY <3>6, VivosSon DEF Sano
      <4>4. \A h \in Hilos : h \notin Creados => asignados'[h] = <<>>
        BY <1>6, <1>9, <2>4, <4>2, <4>3 DEF EnFila
      <4>5. Finalizados' /\ Ids' /\ Procesos' /\ EnFila' /\ Detenidos' /\ Dumps'
        BY <1>1, <1>2, <3>1, <3>2, <3>3, <4>4, MutexResto
      <4>6. \A n \in Mutexes : bloqueadosMutex'[n] # <<>> => bloqueadosMutex[n] # <<>> /\ (n = m => w # Nadie)
        BY <1>6, <2>6, <3>1, <3>3, NadieNoEsHilo DEF TypeOK, TipoMutex
      <4>7. Duenios'
        <5>1. fh' = fh
          BY <1>1
        <5>2. QED
          BY ONLY Sano, <1>7, <1>9, <2>4, <3>3, <3>6, <4>1, <4>2, <4>6, <5>1, CambiaDuenio
      <4>8. QED
        BY <3>5, <4>5, <4>7 DEF Ordenados, Orden
    <3>7. CASE w \notin Vivos
      <4>1. caido' = "kernel"
        BY <3>1, <3>7, VivosExisten DEF Crash
      <4>2. ~EnMarcha'
        BY <4>1 DEF EnMarcha
      <4>3. QED
        BY <3>5, <4>2 DEF Ordenados
    <3>8. QED
      BY <3>6, <3>7
  <2>7. QED
    BY <2>5, <2>6
<1>10. QED
  BY <1>8, <1>9

\* THREAD_CREATE: a new thread of the process that asks, which is in memory.
LEMMA ThreadCreateOrden ==
  ASSUME IInv, Sano, TypeOK', Lugares', AtiendeThreadCreate
  PROVE  Ordenados'
<1>1. /\ Llega("THREAD_CREATE") /\ siguienteTid[P] <= MaxTid
      /\ IF P \in pcbMem /\ P \in memProc
         THEN CrearTcb(P, Pedida.arg, Enviar(Colas, Rta("OK"))) /\ UNCHANGED caido
         ELSE /\ UNCHANGED <<siguienteTid, listaIds, prioridad, memHilos, ready, exec, aCpu, pcpPend>>
              /\ IF P \in pcbMem THEN Crash("kernel") ELSE UNCHANGED caido
      /\ UNCHANGED <<blocked, salidos, asignados, esperanJoin, pcbNew, pcbMem, pcbExit, siguientePid,
                     finalizado, duenio, bloqueadosMutex, fh, finPend, fin, dump, rtaDump, idLiberado,
                     memProc, dumpMem, cpu, contexto>>
  BY DEF AtiendeThreadCreate, vMutex, vFin, vDump, vCpu
<1>2. aKernel # <<>> /\ aKernel' = <<>> /\ Pedida.instr = "THREAD_CREATE"
  BY <1>1, LlegaDe
<1>3. aCpu = <<>> /\ P \in Pids /\ P \in pcbMem /\ P \in memProc /\ ~Terminando(P) /\ ~finalizado[P]
  BY <1>2, Atendible
<1>4. PICK q \in Pids : q = P
  BY <1>3
<1> DEFINE h == <<q, siguienteTid[q]>>
<1>5. CrearTcb(q, Pedida.arg, Enviar(Colas, Rta("OK")))
  BY <1>1, <1>3, <1>4
<1>6. /\ siguienteTid' = [siguienteTid EXCEPT ![q] = @ + 1]
      /\ listaIds' = [listaIds EXCEPT ![q] = IF siguienteTid[q] = 0 THEN @ ELSE Append(@, h)]
      /\ memHilos' = memHilos \cup {h}
      /\ Quedan(Encolar(Enviar(Colas, Rta("OK")), h))
  BY <1>5 DEF CrearTcb
<1>7. exec' = exec /\ aCpu' = <<Rta("OK")>>
  <2> DEFINE r == Enviar(Colas, Rta("OK"))
  <2>1. r \in ColasDe(Hilos, MensajesCpu) /\ r.exec = exec /\ r.aCpu = <<Rta("OK")>>
    BY <1>3, ColasTipo, ResponderTipo, Contesta, Cortas DEF Colas, Sano, TypeOK
  <2>2. Quedan(Encolar(r, h))
    BY <1>6
  <2> HIDE DEF r
  <2>3. Encolar(r, h).exec = r.exec /\ Encolar(r, h).aCpu = r.aCpu
    BY <2>1 DEF Encolar, ColasDe
  <2>4. QED
    BY <2>1, <2>2, <2>3 DEF Quedan
<1>8. q \in pcbMem /\ q \in memProc /\ ~Terminando(q) /\ ~finalizado[q] /\ siguienteTid[q] <= MaxTid
  BY <1>1, <1>3, <1>4
<1>9. q \notin pcbExit /\ \A x \in pcbExit : x \notin ToSet(pcbNew') /\ x < siguientePid'
  BY <1>1, <1>8 DEF Sano, Orden, Procesos
<1>10. memProc' = memProc \cup {q} /\ pcbMem' = pcbMem \cup {q}
  BY <1>1, <1>8
<1>11. /\ \A p \in Pids : PorTerminar(p) => Apagada(p)'
       /\ \A g \in Hilos : dump[g] = "bloquear" => exec' = <<g>> /\ aCpu' = <<>> /\ aKernel' = <<>>
  BY <1>1, <1>2, NadaRetiene
<1>12. UNCHANGED <<blocked, salidos, asignados, esperanJoin, pcbExit, finalizado, duenio, bloqueadosMutex,
                   fh, finPend, fin, dump, rtaDump, idLiberado, dumpMem>>
  BY <1>1
<1> HIDE DEF h
<1>13. h = <<q, siguienteTid[q]>>
  BY DEF h
<1>14. Orden'
  BY ONLY Sano, TypeOK', Lugares', <1>6, <1>8, <1>9, <1>10, <1>11, <1>12, <1>13, CrearOrden
<1>15. Turno'
  BY <1>1, <1>2, <1>7, RespondeOk DEF ConRespuesta
<1>16. QED
  BY <1>14, <1>15 DEF Ordenados

\* PROCESS_CREATE: the new process enters memory with its thread 0, or waits in NEW.
LEMMA ProcessCreateOrden ==
  ASSUME IInv, Sano, TypeOK', Lugares', AtiendeProcessCreate
  PROVE  Ordenados'
<1> DEFINE h == <<siguientePid, siguienteTid[siguientePid]>>
<1>1. /\ Llega("PROCESS_CREATE") /\ siguientePid <= MaxPid /\ siguientePid' = siguientePid + 1
      /\ \/ /\ CrearTcb(siguientePid, Pedida.arg, Enviar(Colas, Rta("OK")))
            /\ pcbMem' = pcbMem \cup {siguientePid} /\ memProc' = memProc \cup {siguientePid}
            /\ UNCHANGED pcbNew
         \/ /\ pcbNew' = Append(pcbNew, siguientePid)
            /\ Quedan(Enviar(Colas, Rta("OK")))
            /\ UNCHANGED <<pcbMem, memProc, memHilos, siguienteTid, listaIds>>
      /\ UNCHANGED <<blocked, salidos, asignados, esperanJoin, pcbExit, finalizado, duenio, bloqueadosMutex,
                     fh, finPend, fin, dump, rtaDump, idLiberado, dumpMem, cpu, contexto>>
  BY DEF AtiendeProcessCreate, vMutex, vFin, vDump, vCpu
<1>2. aKernel # <<>> /\ aKernel' = <<>> /\ Pedida.instr = "PROCESS_CREATE"
  BY <1>1, LlegaDe
<1>3. aCpu = <<>>
  BY <1>2, Atendible
<1>4. PICK q \in Pids : q = siguientePid
  BY <1>1, ConstantesTipo DEF Sano, TypeOK, TipoPcb, Pids
<1>5. /\ q \notin pcbMem /\ q \notin pcbExit /\ q \notin ToSet(pcbNew)
      /\ siguienteTid[q] = 0 /\ q < siguientePid' /\ q \in Nat
      /\ \A x \in pcbExit : x \notin ToSet(pcbNew) /\ x # q /\ x < siguientePid'
  <2>1. /\ \A x \in ToSet(pcbNew) : x < siguientePid
        /\ \A x \in pcbMem : x < siguientePid
        /\ q >= siguientePid => siguienteTid[q] = 0
    BY <1>4 DEF IInv, NuevosSinHilos
  <2>2. \A x \in pcbExit : x \notin ToSet(pcbNew) /\ x < siguientePid /\ x \in Nat
    BY ConstantesTipo DEF Sano, TypeOK, TipoPcb, Orden, Procesos
  <2>3. siguientePid \in Nat /\ q \in Nat
    BY <1>4, ConstantesTipo
  <2>4. QED
    BY <1>1, <1>4, <2>1, <2>2, <2>3
<1>6. ~finalizado[q] /\ ~Terminando(q)
  BY <1>5 DEF Sano, Orden, Procesos
<1>7. /\ \A p \in Pids : PorTerminar(p) => Apagada(p)'
      /\ \A g \in Hilos : dump[g] = "bloquear" => exec' = <<g>> /\ aCpu' = <<>> /\ aKernel' = <<>>
  BY <1>1, <1>2, NadaRetiene
<1>8. UNCHANGED <<blocked, salidos, asignados, esperanJoin, pcbExit, finalizado, duenio, bloqueadosMutex,
                  fh, finPend, fin, dump, rtaDump, idLiberado, dumpMem>>
  BY <1>1
<1>9. CASE /\ CrearTcb(siguientePid, Pedida.arg, Enviar(Colas, Rta("OK")))
           /\ pcbMem' = pcbMem \cup {siguientePid} /\ memProc' = memProc \cup {siguientePid}
           /\ UNCHANGED pcbNew
  <2>1. CrearTcb(q, Pedida.arg, Enviar(Colas, Rta("OK"))) /\ h = <<q, siguienteTid[q]>>
    BY <1>4, <1>9
  <2> HIDE DEF h
  <2>2. /\ siguienteTid' = [siguienteTid EXCEPT ![q] = @ + 1]
        /\ listaIds' = [listaIds EXCEPT ![q] = IF siguienteTid[q] = 0 THEN @ ELSE Append(@, h)]
        /\ memHilos' = memHilos \cup {h}
        /\ Quedan(Encolar(Enviar(Colas, Rta("OK")), h))
    BY <2>1 DEF CrearTcb
  <2>3. exec' = exec /\ aCpu' = <<Rta("OK")>>
    <3> DEFINE r == Enviar(Colas, Rta("OK"))
    <3>1. r \in ColasDe(Hilos, MensajesCpu) /\ r.exec = exec /\ r.aCpu = <<Rta("OK")>>
      BY <1>3, ColasTipo, ResponderTipo, Contesta, Cortas DEF Colas, Sano, TypeOK
    <3>2. Quedan(Encolar(r, h))
      BY <2>2
    <3> HIDE DEF r
    <3>3. Encolar(r, h).exec = r.exec /\ Encolar(r, h).aCpu = r.aCpu
      BY <3>1 DEF Encolar, ColasDe
    <3>4. QED
      BY <3>1, <3>2, <3>3 DEF Quedan
  <2>4. q \notin pcbExit /\ \A x \in pcbExit : x \notin ToSet(pcbNew') /\ x < siguientePid'
    BY <1>5, <1>9
  <2>5. memProc' = memProc \cup {q} /\ pcbMem' = pcbMem \cup {q} /\ siguienteTid[q] <= MaxTid
    BY <1>4, <1>5, <1>9, ConstantesTipo
  <2>6. Orden'
    BY ONLY Sano, TypeOK', Lugares', <1>6, <1>7, <1>8, <2>1, <2>2, <2>4, <2>5, CrearOrden
  <2>7. Turno'
    BY <1>1, <1>2, <2>3, RespondeOk DEF ConRespuesta
  <2>8. QED
    BY <2>6, <2>7 DEF Ordenados
<1>10. CASE /\ pcbNew' = Append(pcbNew, siguientePid)
            /\ Quedan(Enviar(Colas, Rta("OK")))
            /\ UNCHANGED <<pcbMem, memProc, memHilos, siguienteTid, listaIds>>
  <2>1. exec' = exec /\ aCpu' = <<Rta("OK")>>
    BY <1>3, <1>10, ColasTipo, Contesta, Cortas DEF Quedan, Colas, Sano, TypeOK
  <2>2. Lugares /\ TypeOK
    BY DEF Sano
  <2>3. Vivos' = Vivos /\ Creados' = Creados /\ Salientes' = Salientes
    BY <1>1, <1>10, <2>2, MismaGenteFh
  <2>4. Finalizados' /\ Ids'
    BY <1>8, <1>10, <2>3 DEF Sano, Orden, Finalizados, Ids
  <2>5. Procesos'
    <3>1. ToSet(pcbNew') = ToSet(pcbNew) \cup {q}
      BY <1>4, <1>10, AppendElementos DEF Sano, TypeOK, TipoPcb
    <3>2. \A x \in pcbExit' : x \notin pcbMem' /\ x \notin ToSet(pcbNew') /\ x < siguientePid'
      BY <1>5, <1>8, <1>10, <3>1 DEF Sano, Orden, Procesos
    <3>3. \A g \in Vivos' : /\ g[1] \in pcbMem'
                            /\ g[1] \in memProc' \/ fin'[g[1]].fase \in {"tomar", "hilos"}
                            /\ finalizado'[g[1]] => PorTerminar(g[1])'
      BY <1>8, <1>10, <2>3 DEF Sano, Orden, Procesos, PorTerminar
    <3>4. \A p : (PorTerminar(p)' <=> PorTerminar(p)) /\ (Terminando(p)' <=> Terminando(p))
                 /\ (Solo(p)' <=> Solo(p))
      BY <1>8, <2>3 DEF PorTerminar, Terminando, Solo
    <3>5. \A p \in Pids :
            /\ Terminando(p) => Solo(p) /\ p \in pcbMem
            /\ finalizado[p] => p \in pcbMem \cup pcbExit
            /\ finPend[p] = 0 \/ (finPend[p] = 1 /\ fin[p].fase = "nada")
            /\ fin[p].fase = "cero" => \A g \in Vivos : g[1] # p
            /\ fin[p].fase = "hilos" => fin[p].cero /\ <<p, 0>> \notin ToSet(listaIds[p])
      BY DEF Sano, Orden, Procesos
    <3>6. \A p \in Pids :
            /\ Terminando(p)' => Solo(p)' /\ p \in pcbMem'
            /\ finalizado'[p] => p \in pcbMem' \cup pcbExit'
            /\ PorTerminar(p)' => Apagada(p)'
            /\ finPend'[p] = 0 \/ (finPend'[p] = 1 /\ fin'[p].fase = "nada")
            /\ fin'[p].fase = "cero" => \A g \in Vivos' : g[1] # p
            /\ fin'[p].fase = "hilos" => fin'[p].cero /\ <<p, 0>> \notin ToSet(listaIds'[p])
      BY <1>7, <1>8, <1>10, <2>3, <3>4, <3>5
    <3>7. \A e \in Ejecutores : fh'[e].fase # "nada" =>
            /\ e # Dispatch => fh'[e].hilo = <<e, 0>> /\ fin'[e].fase = "cero"
            /\ \A p : p = fh'[e].hilo[1] /\ Terminando(p)' => e = p
      BY <1>8, <3>4 DEF Sano, Orden, Procesos
    <3>8. QED
      BY <3>2, <3>3, <3>6, <3>7 DEF Procesos
  <2>6. EnFila' /\ Esperando' = Esperando
    <3>1. TypeOK /\ EnFila
      BY DEF Sano, Orden
    <3>2. \A g \in Hilos : Fila'[<<"join", g>>] = Fila[<<"join", g>>]
      BY <1>8, <2>2, <2>3, JoinsIguales
    <3>3. SinComunes(Filas, Fila') /\ Esperando' = Esperando
      BY <1>8, <3>1, <3>2, FilasIgual
    <3>4. SinComunes(Filas, Fila)'
      BY <3>3 DEF Filas
    <3>5. QED
      BY <1>8, <2>3, <3>1, <3>3, <3>4 DEF EnFila
  <2>7. Detenidos'
    BY <1>8, <2>3, <2>6 DEF Sano, Orden, Detenidos
  <2>8. Dumps'
    <3>1. \A g \in Hilos : dump[g] \notin {"nada", "bloquear"} /\ g \in Vivos' => g \in blocked'
      BY <1>8, <2>3 DEF Sano, Orden, Dumps
    <3>2. QED
      BY <1>7, <1>8, <2>3, <3>1, DumpsIgual DEF Sano, Orden
  <2>9. Duenios'
    BY <1>8, <2>3 DEF Sano, Orden, Duenios, Propios
  <2>10. Turno'
    BY <1>1, <1>2, <2>1, RespondeOk DEF ConRespuesta
  <2>11. QED
    BY <2>4, <2>5, <2>6, <2>7, <2>8, <2>9, <2>10 DEF Ordenados, Orden
<1>11. QED
  BY <1>1, <1>9, <1>10

\* Whatever the handler of the dispatch connection serves.
LEMMA AtiendeOrden ==
  ASSUME IInv, Sano, TypeOK', Lugares', Atiende
  PROVE  Ordenados'
<1>1. ~EsperaPcb /\ ~AtiendeInvalido /\ ~AtiendeExitRepetido /\ ~AtiendeMutexSinPcb
  BY AtendidoSinError
<1>2. \/ AtiendeProcessExit \/ AtiendeProcessCreate \/ AtiendeThreadCreate \/ AtiendeThreadJoin
      \/ AtiendeThreadCancel \/ AtiendeThreadExit \/ AtiendeMutexCreate \/ AtiendeMutexInexistente
      \/ AtiendeMutexLock \/ AtiendeMutexUnlock \/ AtiendeDump \/ AtiendeDesalojo
  BY <1>1 DEF Atiende
<1>3. QED
  BY <1>2, ProcessExitOrden, ProcessCreateOrden, ThreadCreateOrden, ThreadJoinOrden, ThreadCancelOrden,
     ThreadExitOrden, MutexCreateOrden, MutexInexistenteOrden, MutexLockOrden, MutexUnlockOrden,
     AtiendeDumpOrden, AtiendeDesalojoOrden

\* Nothing moves after a crash.
LEMMA SoloEnMarcha ==
  ASSUME Next
  PROVE  EnMarcha
<1>1. Atiende => EnMarcha
  BY DEF Atiende, EsperaPcb, AtiendeInvalido, AtiendeExitRepetido, AtiendeProcessExit, AtiendeProcessCreate,
         AtiendeThreadCreate, AtiendeThreadJoin, AtiendeThreadCancel, AtiendeThreadExit, AtiendeMutexSinPcb,
         AtiendeMutexCreate, AtiendeMutexInexistente, AtiendeMutexLock, AtiendeMutexUnlock, AtiendeDump,
         AtiendeDesalojo, Llega, LlegaPedido, HayPedido
<1>2. Cpu \/ Programa => EnMarcha
  BY DEF Cpu, Programa, CpuRecibeEjecutar, CpuRecibeRta, CpuGuarda, CpuSinHilo, CpuSyscall, CpuSegmentationFault
<1>3. ASSUME NEW e \in Ejecutores, FinalizarHilo(e) PROVE EnMarcha
  BY <1>3 DEF FinalizarHilo, FhTomar, FhMutex, FhSalir, FhJoin, FhFin
<1>4. ASSUME NEW h \in Hilos, DumpMemory(h) PROVE EnMarcha
  BY <1>4 DEF DumpMemory, DumpBloquear, DumpResponder, DumpConcluir
<1>5. ASSUME NEW p \in Pids, FinalizarProceso(p) PROVE EnMarcha
  BY <1>5 DEF FinalizarProceso, FinMemoria, FinTomar, FinHilo, FinCero, FinReplanificar, FinSalir
<1>6. QED
  BY <1>1, <1>2, <1>3, <1>4, <1>5 DEF Next, PcpSuelto

\* Init gives thread 0 of process 0 a context and nothing else to anybody.
LEMMA InicioOrdenados ==
  ASSUME Init
  PROVE  Ordenados
<1> USE ConstantesTipo DEF Init
<1>1. <<0, 0>> \in Hilos /\ Dispatch \in Ejecutores /\ Nadie \notin Hilos
  BY NadieNoEsHilo DEF Hilos, Ejecutores
<1>2. IInv /\ Lugares
  BY InicioCumple, InicioLugares
<1>3. ToSet(<<<<0, 0>>>>) = {<<0, 0>>} /\ \A x : ToSet(<<>>) = {} /\ IsInjective(<<>>)
  BY DEF ToSet, IsInjective
<1>4. Vivos = {<<0, 0>>} /\ Salientes = {} /\ Creados = {<<0, 0>>}
  <2>1. Vivos = {<<0, 0>>}
    BY <1>3, VivosExisten
  <2>2. Salientes = {}
    BY DEF Salientes, Saliendo, FhNada
  <2>3. QED
    BY <1>2, <2>1, <2>2 DEF Lugares
<1>5. Finalizados
  BY <1>4 DEF Finalizados, FhNada
<1>6. \A p : p \in Pids => ~PorTerminar(p) /\ ~Terminando(p)
  BY DEF PorTerminar, Terminando, FinNada
<1>7. Ids
  <2>1. \A p \in Pids : IsInjective(<<<<p, 0>>>>) /\ ToSet(<<<<p, 0>>>>) = {<<p, 0>>}
    BY DEF ToSet, IsInjective
  <2>2. \A p \in Pids : listaIds[p] = <<<<p, 0>>>>
    OBVIOUS
  <2>3. ASSUME NEW p \in Pids
        PROVE  /\ IsInjective(listaIds[p]) /\ <<p, 0>> \in ToSet(listaIds[p])
               /\ \A h \in ToSet(listaIds[p]) : h[1] = p /\ h[2] = 0
    <3>1. PICK l : l = listaIds[p]
      OBVIOUS
    <3>2. l = <<<<p, 0>>>>
      BY ONLY <2>2, <3>1, p \in Pids
    <3>3. IsInjective(l) /\ ToSet(l) = {<<p, 0>>}
      BY ONLY <2>1, <3>2, p \in Pids
    <3>4. QED
      BY ONLY <3>1, <3>3
  <2>4. QED
    BY ONLY <2>3 DEF Ids
<1>8. Procesos
  BY <1>4, <1>6 DEF Procesos, FhNada, FinNada
<1>9. \A k \in Filas : Fila[k] = <<>>
  BY DEF Filas, Fila, FhNada
<1>10. EnFila /\ Esperando = {}
  BY <1>3, <1>9 DEF EnFila, Esperando, SinComunes, Reunion, FhNada
<1>11. Detenidos
  BY <1>10 DEF Detenidos
<1>12. Dumps
  BY DEF Dumps
<1>13. Duenios
  <2>1. \A h \in Hilos : Propios(h) = {}
    BY <1>1 DEF Propios
  <2>2. QED
    BY <1>1, <1>3, <1>4, <2>1 DEF Duenios, FhNada
<1>14. Turno
  BY <1>1 DEF Turno, Libre, Cancela, FhNada, Enviado
<1>15. QED
  BY <1>5, <1>7, <1>8, <1>10, <1>11, <1>12, <1>13, <1>14 DEF Ordenados, Orden

\* No step of a kernel that ends its processes in order breaks the order.
LEMMA PasoOrdenados ==
  ASSUME FinLimpio, IInv, Lugares, Ordenados, [Next]_vars
  PROVE  Ordenados'
<1>1. TypeOK' /\ Lugares'
  BY PasoPreserva, PasoLugares DEF IInv
<1>2. CASE Next
  <2>1. Sano
    BY <1>2, SoloEnMarcha DEF Sano, Ordenados, IInv
  <2>2. CASE Atiende
    BY <1>1, <2>1, <2>2, AtiendeOrden
  <2>3. CASE Cpu \/ Programa
    BY <1>1, <2>1, <2>3, CpuPasoOrden
  <2>4. CASE PcpSuelto
    BY <1>1, <2>1, <2>4, PcpSueltoOrden
  <2>5. ASSUME NEW e \in Ejecutores, FinalizarHilo(e) PROVE Ordenados'
    BY <1>1, <2>1, <2>5, FinalizarHiloOrden
  <2>6. ASSUME NEW h \in Hilos, DumpMemory(h) PROVE Ordenados'
    BY <1>1, <2>1, <2>6, DumpMemoryOrden
  <2>7. ASSUME NEW p \in Pids, FinalizarProceso(p) PROVE Ordenados'
    BY <1>1, <2>1, <2>7, FinalizarProcesoOrden
  <2>8. QED
    BY ONLY <1>2, <2>2, <2>3, <2>4, <2>5, <2>6, <2>7 DEF Next
<1>3. CASE UNCHANGED vars
  <2> USE DEF vars, vListas, vTcb, vPcb, vMutex, vFin, vDump, vMemoria, vCpu
  <2>1. UNCHANGED <<ready, exec, blocked, salidos, asignados, esperanJoin, pcbNew, pcbMem, pcbExit,
                    siguientePid, siguienteTid, listaIds, finalizado, duenio, bloqueadosMutex, fh, finPend,
                    fin, dump, rtaDump, idLiberado, memProc, memHilos, dumpMem, aKernel, aCpu, cpu,
                    contexto, caido>>
    BY <1>3
  <2>2. Vivos' = Vivos /\ Salientes' = Salientes /\ Creados' = Creados
    BY <2>1 DEF Vivos, Activos, Colas, Salientes, Saliendo, Creados
  <2>3. Turno'
    BY <2>1, <2>2 DEF Ordenados, Turno, Libre, Pidio, Corriendo, Pidiendo, Respondido, Cedido, Cancelando,
          SinHilo, Cancela, EnJuego, Enviado, Retenido, PorTerminar, Pedida, H, P, Solo
  <2>4. Orden' <=> Orden
    BY <2>1, <2>2 DEF Orden, Finalizados, Ids, Procesos, EnFila, Detenidos, Dumps, Duenios, PorTerminar,
          Terminando, Solo, Apagada, Filas, Fila, Esperando, Propios
  <2>5. QED
    BY <2>1, <2>3, <2>4 DEF Ordenados, EnMarcha
<1>4. QED
  BY <1>2, <1>3

(* When programs end their processes in order, after their other threads, the
   lists of the kernel, the queues, the mutexes, the dumps and the CPU agree in
   every reachable state. *)
THEOREM OrdenSiempre == ASSUME FinLimpio PROVE Spec => [](IInv /\ Lugares /\ Ordenados)
<1>1. Init => IInv /\ Lugares /\ Ordenados
  BY InicioCumple, InicioLugares, InicioOrdenados
<1>2. (IInv /\ Lugares /\ Ordenados) /\ [Next]_vars => (IInv /\ Lugares /\ Ordenados)'
  BY PasoPreserva, PasoLugares, PasoOrdenados DEF IInv
<1>3. QED
  BY <1>1, <1>2, PTL DEF Spec

(***************************************************************************)
(* What the order gives.                                                   *)
(***************************************************************************)
\* A sequence that repeats nothing has an element once or not at all.
LEMMA UnaVez ==
  ASSUME NEW S, NEW s \in Seq(S), IsInjective(s), NEW x
  PROVE  (x \in ToSet(s)) <=> (Cardinality({i \in DOMAIN s : s[i] = x}) = 1)
<1> DEFINE I == {i \in DOMAIN s : s[i] = x}
<1>1. CASE x \in ToSet(s)
  <2>1. PICK i \in DOMAIN s : s[i] = x
    BY <1>1 DEF ToSet
  <2>2. I = {i}
    BY <2>1 DEF IsInjective
  <2>3. QED
    BY <1>1, <2>2, FS_Singleton
<1>2. CASE x \notin ToSet(s)
  <2>1. I = {}
    BY <1>2 DEF ToSet
  <2>2. QED
    BY <1>2, <2>1, FS_EmptySet
<1>3. QED
  BY <1>1, <1>2

(* No wake-up is lost while processes end in order: a thread in BLOCKED waits
   for a mutex whose owner can still release it, for the end of a thread that
   can still end or for a dump, however the handler, the finalizers and the
   dumps interleave. *)
THEOREM NadieOlvidado == ASSUME FinLimpio PROVE Spec => []BloqueadoConMotivo
<1>1. ASSUME IInv, Lugares, Ordenados PROVE BloqueadoConMotivo
  <2>1. SUFFICES ASSUME EnMarcha, NEW h \in blocked
                 PROVE  EsperaMutex(h) \/ EsperaJoin(h) \/ EsperaDump(h)
    BY DEF BloqueadoConMotivo
  <2>2. Orden /\ TypeOK
    BY <1>1, <2>1 DEF Ordenados, IInv
  <2>3. CASE dump[h] # "nada"
    BY <2>3 DEF EsperaDump
  <2>4. CASE h \in Esperando
    <3>1. PICK k \in Filas : h \in ToSet(Fila[k])
      BY <2>4 DEF Esperando, Reunion
    <3>2. ASSUME NEW m \in Mutexes, k = <<"mutex", m>> PROVE EsperaMutex(h)
      <4>1. h \in ToSet(bloqueadosMutex[m]) /\ bloqueadosMutex[m] # <<>>
        BY <2>2, <3>1, <3>2, FilaEs, VacioElementos
      <4>2. duenio[m] # Nadie /\ duenio[m] \in Vivos \cup Salientes
        BY <2>2, <4>1 DEF Orden, Duenios
      <4>3. CASE duenio[m] \in Vivos
        <5>1. Existe(duenio[m])
          BY <4>3, VivosExisten
        <5>2. QED
          BY <4>1, <4>2, <5>1 DEF EsperaMutex, ViveOEntrega
      <4>4. CASE duenio[m] \in Salientes
        <5>1. PICK e \in Ejecutores : fh[e].fase # "nada" /\ fh[e].hilo = duenio[m]
          BY <4>4 DEF Salientes, Saliendo
        <5>2. m \in ToSet(fh[e].mutexes)
          BY <2>2, <5>1 DEF Orden, Duenios, Propios
        <5>3. QED
          BY <4>1, <4>2, <5>1, <5>2 DEF EsperaMutex, ViveOEntrega
      <4>5. QED
        BY <4>2, <4>3, <4>4
    <3>3. ASSUME NEW t \in Hilos, k = <<"join", t>> PROVE EsperaJoin(h)
      <4>1. t \in Vivos /\ h \in ToSet(esperanJoin[t])
        BY <2>2, <3>1, <3>3, FilaEs, VacioElementos
      <4>2. Existe(t)
        BY <4>1, VivosExisten
      <4>3. QED
        BY <4>1, <4>2 DEF EsperaJoin, ViveOEntrega
    <3>4. ASSUME NEW e \in Ejecutores, k = <<"fin", e>> PROVE EsperaJoin(h)
      <4>1. h \in ToSet(fh[e].joins)
        BY <2>2, <3>1, <3>4, FilaEs
      <4>2. fh[e].fase # "nada"
        BY <2>2, <4>1, VacioElementos DEF Orden, Finalizados, FhNada
      <4>3. fh[e].hilo \in Hilos /\ h \in ToSet(esperanJoin[fh[e].hilo])
        BY <2>2, <4>1, <4>2 DEF Orden, EnFila, TypeOK, TipoFin, FinalizacionesHilo
      <4>4. QED
        BY <4>1, <4>3 DEF EsperaJoin, ViveOEntrega
    <3>5. QED
      BY <3>2, <3>3, <3>4 DEF Filas
  <2>5. QED
    BY <2>2, <2>3, <2>4 DEF Orden, Detenidos
<1>2. QED
  BY <1>1, OrdenSiempre, PTL

(* The owner written in a mutex and the list of mutexes of the thread agree,
   and who waits for a mutex does not run, though mutex.c and finalizar_hilo
   change them under different locks. *)
THEOREM MutexesCoherentes == ASSUME FinLimpio PROVE Spec => []DuenioConsistente
<1>1. ASSUME IInv, Lugares, Ordenados PROVE DuenioConsistente
  <2>1. SUFFICES ASSUME EnMarcha, NEW m \in Mutexes
                 PROVE  /\ \A h \in Hilos :
                            (Existe(h) \/ \E e \in Ejecutores : fh[e].hilo = h /\ m \in ToSet(fh[e].mutexes)) =>
                              (duenio[m] = h) = (Cardinality({i \in DOMAIN asignados[h] : asignados[h][i] = m}) = 1)
                        /\ \A h \in ToSet(bloqueadosMutex[m]) : h \notin ToSet(ready) \cup ToSet(exec)
    BY DEF DuenioConsistente
  <2>2. Orden /\ TypeOK
    BY <1>1, <2>1 DEF Ordenados, IInv
  <2>3. ASSUME NEW h \in Hilos,
               Existe(h) \/ \E e \in Ejecutores : fh[e].hilo = h /\ m \in ToSet(fh[e].mutexes)
        PROVE  (duenio[m] = h) = (Cardinality({i \in DOMAIN asignados[h] : asignados[h][i] = m}) = 1)
    <3>1. asignados[h] \in Seq(Mutexes)
      BY <2>2 DEF TypeOK, TipoTcb
    <3>2. IsInjective(asignados[h]) /\ (duenio[m] = h <=> m \in ToSet(asignados[h]))
      <4>1. CASE Existe(h)
        BY <2>2, <4>1, VivosExisten DEF Orden, Duenios, Propios
      <4>2. ASSUME NEW e \in Ejecutores, fh[e].hilo = h, m \in ToSet(fh[e].mutexes)
            PROVE  IsInjective(asignados[h]) /\ (duenio[m] = h <=> m \in ToSet(asignados[h]))
        <5>1. fh[e].fase # "nada"
          BY <2>2, <4>2, VacioElementos DEF Orden, Finalizados, FhNada
        <5>2. QED
          BY <2>2, <4>2, <5>1 DEF Orden, Duenios, Propios
      <4>3. QED
        BY <2>3, <4>1, <4>2
    <3>3. (m \in ToSet(asignados[h])) <=> (Cardinality({i \in DOMAIN asignados[h] : asignados[h][i] = m}) = 1)
      BY <3>1, <3>2, UnaVez
    <3>4. QED
      BY <3>2, <3>3
  <2>4. ASSUME NEW h \in ToSet(bloqueadosMutex[m]) PROVE h \notin ToSet(ready) \cup ToSet(exec)
    <3>1. <<"mutex", m>> \in Filas /\ Fila[<<"mutex", m>>] = bloqueadosMutex[m]
      BY <2>2, FilaEs DEF Filas
    <3>2. h \in Esperando
      BY <3>1 DEF Esperando, Reunion
    <3>3. h \in Vivos => h \in blocked
      BY <2>2, <3>2 DEF Orden, Detenidos
    <3>4. QED
      BY <1>1, <3>3, VivosExisten DEF Lugares, Activos, Colas
  <2>5. QED
    BY <2>3, <2>4
<1>2. QED
  BY <1>1, OrdenSiempre, PTL

\* Only the handler of the dispatch connection owes an answer.
SoloDispatchResponde == \A e \in Ejecutores : e # Dispatch => fh[e].rta = FALSE

\* A finalizar_hilo that starts owes an answer only if the handler started it.
LEMMA FhInicioCalla ==
  ASSUME TypeOK, SoloDispatchResponde, NEW e \in Ejecutores, NEW h, NEW rta, FhInicio(e, h, rta),
         e # Dispatch => rta = FALSE
  PROVE  SoloDispatchResponde'
<1>1. fh \in [Ejecutores -> FinalizacionesHilo]
  BY DEF TypeOK, TipoFin
<1>2. CASE fh' = fh
  BY <1>2 DEF SoloDispatchResponde
<1>3. CASE fh' = [fh EXCEPT ![e] = [fase |-> "pedido", hilo |-> h, mutexes |-> asignados[h],
                                    joins |-> esperanJoin[h], rta |-> rta]]
  BY <1>1, <1>3 DEF SoloDispatchResponde
<1>4. QED
  BY <1>2, <1>3 DEF FhInicio

\* A finalizar_hilo called by a finalizar_proceso answers nobody.
LEMMA FinalizadoresCallan ==
  ASSUME TypeOK, SoloDispatchResponde, [Next]_vars
  PROVE  SoloDispatchResponde'
<1>1. fh \in [Ejecutores -> FinalizacionesHilo]
  BY DEF TypeOK, TipoFin
<1>2. CASE fh' = fh
  BY <1>2 DEF SoloDispatchResponde
<1>3. ASSUME NEW e \in Ejecutores, FinalizarHilo(e) PROVE SoloDispatchResponde'
  <2>1. CASE FhTomar(e)
    BY <1>1, <2>1 DEF FhTomar, SoloDispatchResponde
  <2>2. CASE FhMutex(e)
    BY <1>1, <2>2 DEF FhMutex, SoloDispatchResponde
  <2>3. CASE FhSalir(e)
    BY <1>1, <2>3 DEF FhSalir, SoloDispatchResponde
  <2>4. CASE FhJoin(e)
    BY <1>1, <2>4 DEF FhJoin, SoloDispatchResponde
  <2>5. CASE FhFin(e)
    BY <1>1, <2>5 DEF FhFin, FhNada, SoloDispatchResponde
  <2>6. QED
    BY <1>3, <2>1, <2>2, <2>3, <2>4, <2>5 DEF FinalizarHilo
<1>4. ASSUME NEW h \in Hilos, DumpMemory(h) PROVE fh' = fh
  BY <1>4 DEF DumpMemory, DumpBloquear, DumpResponder, DumpConcluir
<1>5. ASSUME NEW p \in Pids, FinalizarProceso(p) PROVE SoloDispatchResponde'
  <2>1. p \in Ejecutores
    BY DEF Ejecutores
  <2>2. CASE FinHilo(p)
    BY <2>1, <2>2, FhInicioCalla DEF FinHilo
  <2>3. CASE FinCero(p)
    <3>1. fh' = fh \/ FhInicio(p, <<p, 0>>, FALSE)
      BY <2>3 DEF FinCero
    <3>2. QED
      BY <1>2, <2>1, <3>1, FhInicioCalla
  <2>4. CASE FinMemoria(p) \/ FinTomar(p) \/ FinReplanificar(p) \/ FinSalir(p)
    BY <1>2, <2>4 DEF FinMemoria, FinTomar, FinReplanificar, FinSalir
  <2>5. QED
    BY <1>5, <2>2, <2>3, <2>4 DEF FinalizarProceso
<1>6. CASE Atiende
  <2>1. Dispatch \in Ejecutores
    BY DEF Ejecutores
  <2>2. CASE AtiendeThreadCancel
    BY <2>1, <2>2, FhInicioCalla DEF AtiendeThreadCancel
  <2>3. CASE AtiendeThreadExit \/ AtiendeMutexInexistente
    <3>1. PICK v : FhInicio(Dispatch, v, FALSE)
      BY <2>3 DEF AtiendeThreadExit, AtiendeMutexInexistente
    <3>2. QED
      BY <2>1, <3>1, FhInicioCalla
  <2>4. CASE ~(AtiendeThreadCancel \/ AtiendeThreadExit \/ AtiendeMutexInexistente)
    BY <1>2, <1>6, <2>4 DEF Atiende, EsperaPcb, AtiendeInvalido, AtiendeExitRepetido, AtiendeProcessExit,
       AtiendeProcessCreate, AtiendeThreadCreate, AtiendeThreadJoin, AtiendeMutexSinPcb, AtiendeMutexCreate,
       AtiendeMutexLock, AtiendeMutexUnlock, AtiendeDump, AtiendeDesalojo
  <2>5. QED
    BY <2>2, <2>3, <2>4
<1>7. CASE PcpSuelto \/ Cpu \/ Programa \/ UNCHANGED vars
  BY <1>2, <1>7 DEF PcpSuelto, Cpu, Programa, CpuRecibeEjecutar, CpuRecibeRta, CpuGuarda, CpuSinHilo,
     CpuSyscall, CpuSegmentationFault, vars
<1>8. QED
  BY ONLY [Next]_vars, <1>2, <1>3, <1>4, <1>5, <1>6, <1>7 DEF Next

\* How many answers there are in a queue to the CPU of at most one message, and of two.
LEMMA CuentaRta ==
  ASSUME NEW x
  PROVE  /\ Cardinality({i \in DOMAIN <<>> : <<>>[i].op = "RTA"}) = 0
         /\ Cardinality({i \in DOMAIN <<x>> : <<x>>[i].op = "RTA"}) = IF x.op = "RTA" THEN 1 ELSE 0
<1>1. {i \in DOMAIN <<>> : <<>>[i].op = "RTA"} = {}
  OBVIOUS
<1>2. {i \in DOMAIN <<x>> : <<x>>[i].op = "RTA"} = IF x.op = "RTA" THEN {1} ELSE {}
  OBVIOUS
<1>3. Cardinality({}) = 0 /\ Cardinality({1}) = 1
  BY FS_EmptySet, FS_Singleton
<1>4. QED
  BY <1>1, <1>2, <1>3

\* The same of two messages, one of them an answer.
LEMMA CuentaDosRta ==
  ASSUME NEW x, NEW y, (x.op = "RTA") # (y.op = "RTA")
  PROVE  Cardinality({i \in DOMAIN <<x, y>> : <<x, y>>[i].op = "RTA"}) = 1
<1>1. \E k : {i \in DOMAIN <<x, y>> : <<x, y>>[i].op = "RTA"} = {k}
  <2>1. CASE x.op = "RTA"
    <3>1. {i \in DOMAIN <<x, y>> : <<x, y>>[i].op = "RTA"} = {1}
      BY <2>1
    <3>2. QED
      BY <3>1
  <2>2. CASE x.op # "RTA"
    <3>1. {i \in DOMAIN <<x, y>> : <<x, y>>[i].op = "RTA"} = {2}
      BY <2>2
    <3>2. QED
      BY <3>1
  <2>3. QED
    BY <2>1, <2>2
<1>2. QED
  BY <1>1, FS_Singleton

\* How many requests with an answer there are in a queue of at most one.
LEMMA CuentaPedidos ==
  ASSUME NEW x
  PROVE  /\ Cardinality({i \in DOMAIN <<>> : <<>>[i].instr \in ConRespuesta}) = 0
         /\ Cardinality({i \in DOMAIN <<x>> : <<x>>[i].instr \in ConRespuesta}) =
              IF x.instr \in ConRespuesta THEN 1 ELSE 0
<1>1. {i \in DOMAIN <<>> : <<>>[i].instr \in ConRespuesta} = {}
  OBVIOUS
<1>2. {i \in DOMAIN <<x>> : <<x>>[i].instr \in ConRespuesta} = IF x.instr \in ConRespuesta THEN {1} ELSE {}
  OBVIOUS
<1>3. Cardinality({}) = 0 /\ Cardinality({1}) = 1
  BY FS_EmptySet, FS_Singleton
<1>4. QED
  BY <1>1, <1>2, <1>3

\* The answers on the way to the CPU, those it asks for and those the handler owes.
EnCamino    == Cardinality({i \in DOMAIN aCpu : aCpu[i].op = "RTA"})
EnPedido    == Cardinality({i \in DOMAIN aKernel : aKernel[i].instr \in ConRespuesta})
EnDeuda     == Cardinality({e \in Ejecutores : fh[e].rta})

(* The three by whose turn it is: at most one is not zero, and then it is one
   and the CPU waits for it. *)
LEMMA UnaRespuesta ==
  ASSUME TypeOK, SoloDispatchResponde, Turno
  PROVE  EnCamino + EnPedido + EnDeuda <= IF cpu \in EsperaRta THEN 1 ELSE 0
<1>1. EnDeuda = IF Cancela THEN 1 ELSE 0
  <2>1. Dispatch \in Ejecutores /\ \A e \in Ejecutores : fh[e].rta \in BOOLEAN
    BY DEF Ejecutores, TypeOK, TipoFin, FinalizacionesHilo
  <2>2. {e \in Ejecutores : fh[e].rta} = IF Cancela THEN {Dispatch} ELSE {}
    BY <2>1 DEF SoloDispatchResponde, Cancela
  <2>3. QED
    BY <2>2, FS_EmptySet, FS_Singleton DEF EnDeuda
<1>2. aKernel = <<>> => EnPedido = 0
  BY CuentaPedidos DEF EnPedido
<1>3. aKernel = <<Pedida>> => EnPedido = IF Pedida.instr \in ConRespuesta THEN 1 ELSE 0
  BY CuentaPedidos DEF EnPedido
<1>4. /\ aCpu = <<>> => EnCamino = 0
      /\ \A r : aCpu = <<Rta(r)>> => EnCamino = 1
      /\ \A h : aCpu = <<Ejecutar(h)>> => EnCamino = 0
      /\ \A r, h : aCpu = <<Rta(r), Ejecutar(h)>> \/ aCpu = <<Ejecutar(h), Rta(r)>> => EnCamino = 1
  <2>1. \A r, h : Rta(r).op = "RTA" /\ Ejecutar(h).op # "RTA"
    BY DEF Rta, Ejecutar
  <2>2. aCpu = <<>> => EnCamino = 0
    BY CuentaRta DEF EnCamino
  <2>3. ASSUME NEW x, aCpu = <<x>> PROVE EnCamino = IF x.op = "RTA" THEN 1 ELSE 0
    <3>1. Cardinality({i \in DOMAIN <<x>> : <<x>>[i].op = "RTA"}) = IF x.op = "RTA" THEN 1 ELSE 0
      BY CuentaRta
    <3>2. EnCamino = Cardinality({i \in DOMAIN <<x>> : <<x>>[i].op = "RTA"})
      BY ONLY aCpu = <<x>> DEF EnCamino
    <3>3. QED
      BY <3>1, <3>2
  <2>4. ASSUME NEW x, NEW y, aCpu = <<x, y>>, (x.op = "RTA") # (y.op = "RTA") PROVE EnCamino = 1
    <3>1. Cardinality({i \in DOMAIN <<x, y>> : <<x, y>>[i].op = "RTA"}) = 1
      BY ONLY (x.op = "RTA") # (y.op = "RTA"), CuentaDosRta
    <3>2. EnCamino = Cardinality({i \in DOMAIN <<x, y>> : <<x, y>>[i].op = "RTA"})
      BY ONLY aCpu = <<x, y>> DEF EnCamino
    <3>3. QED
      BY <3>1, <3>2
  <2>5. QED
    BY ONLY <2>1, <2>2, <2>3, <2>4
<1>5. /\ Enviado(<<>>) => EnCamino = 0
      /\ \A r : Enviado(<<Rta(r)>>) => EnCamino = 1
  BY <1>4, EnviadoEs
<1>6. CASE Libre
  BY <1>1, <1>2, <1>4, <1>5, <1>6 DEF Libre
<1>7. CASE Pidio
  BY <1>1, <1>3, <1>4, <1>7 DEF Pidio, SinRespuesta, ConRespuesta
<1>8. CASE Corriendo
  BY <1>1, <1>2, <1>4, <1>8 DEF Corriendo
<1>9. CASE Pidiendo
  BY <1>1, <1>3, <1>4, <1>9 DEF Pidiendo
<1>10. CASE Respondido
  BY <1>1, <1>2, <1>4, <1>10 DEF Respondido
<1>11. CASE Cedido
  BY <1>1, <1>2, <1>5, <1>11 DEF Cedido, EsperaRta
<1>12. CASE Cancelando
  BY <1>1, <1>2, <1>4, <1>12 DEF Cancelando, EsperaRta
<1>13. CASE SinHilo
  <2>1. CASE Enviado(<<>>)
    BY <1>1, <1>2, <1>5, <1>13, <2>1 DEF SinHilo, EsperaRta
  <2>2. CASE ~Cancela /\ cpu = "espera" /\ EnCamino = 1
    BY <1>1, <1>2, <2>2, <1>13 DEF SinHilo, EsperaRta
  <2>3. QED
    BY <1>4, <1>5, <1>13, <2>1, <2>2 DEF SinHilo
<1>14. QED
  BY <1>6, <1>7, <1>8, <1>9, <1>10, <1>11, <1>12, <1>13 DEF Turno

\* The thread in EXEC is not forgotten, by whose turn it is.
LEMMA NadieEnExecOlvidado ==
  ASSUME TypeOK, Turno
  PROVE  /\ cpu = "corriendo" => exec = <<contexto>>
         /\ \A h \in ToSet(exec) : Atendido(h)
<1>1. /\ ToSet(<<>>) = {} /\ \A x : ToSet(<<x>>) = {x}
      /\ \A x, y : x \in ToSet(<<x, y>>) /\ y \in ToSet(<<x, y>>)
  BY Cortas, VacioElementos DEF ToSet
<1>2. cpu = "corriendo" => exec = <<contexto>>
  BY DEF Turno, Libre, Pidio, Corriendo, Pidiendo, Respondido, Cedido, Cancelando, SinHilo, EnJuego, EsperaRta
<1>3. SUFFICES ASSUME NEW h \in ToSet(exec) PROVE Atendido(h)
  BY <1>2
<1>4. ASSUME Enviado(<<>>) \/ \E r : Enviado(<<Rta(r)>>) PROVE Atendido(h)
  <2>1. \E r : \/ exec = <<>>
                \/ \E g \in Hilos : exec = <<g>> /\ (aCpu = <<Ejecutar(g)>> \/ aCpu = <<Rta(r), Ejecutar(g)>>)
    BY <1>4, EnviadoEs
  <2>2. PICK g \in Hilos : exec = <<g>> /\ Ejecutar(g) \in ToSet(aCpu)
    BY <1>1, <2>1
  <2>3. QED
    BY <1>1, <2>2 DEF Atendido
<1>5. ASSUME EnJuego, cpu \in {"corriendo"} \cup EsperaRta PROVE Atendido(h)
  BY <1>1, <1>5 DEF EnJuego, Atendido
<1>6. CASE Libre
  <2>1. ASSUME NEW g \in Hilos, exec = <<g>>, Retenido(g) PROVE Atendido(h)
    BY <1>1, <2>1 DEF Retenido, PorTerminar, Atendido
  <2>2. QED
    BY <1>4, <1>6, <2>1 DEF Libre
<1>7. CASE Pidio
  <2>1. exec = <<H>> /\ aKernel = <<Pedida>>
    BY <1>7 DEF Pidio, EnJuego
  <2>2. 1 \in DOMAIN aKernel /\ aKernel[1].hilo = H
    BY <2>1 DEF H
  <2>3. QED
    BY <1>1, <2>1, <2>2 DEF Atendido
<1>8. CASE Corriendo \/ Pidiendo \/ Respondido \/ Cancelando
  BY <1>5, <1>8 DEF Corriendo, Pidiendo, Respondido, Cancelando, EsperaRta
<1>9. CASE Cedido
  BY <1>4, <1>9 DEF Cedido
<1>10. CASE SinHilo
  <2>1. ASSUME NEW g \in Hilos, exec = <<g>>, aCpu = <<Ejecutar(g), Rta("OK")>> PROVE Atendido(h)
    BY <1>1, <2>1 DEF Atendido
  <2>2. QED
    BY <1>4, <1>10, <2>1 DEF SinHilo
<1>11. QED
  BY <1>6, <1>7, <1>8, <1>9, <1>10 DEF Turno

(* The CPU and the kernel agree, whatever is on its way between them: the CPU
   runs the thread in EXEC, a thread in EXEC is never forgotten, and no answer
   arrives that the CPU does not wait for. *)
THEOREM CpuYKernelDeAcuerdo == ASSUME FinLimpio PROVE Spec => []CpuFiel
<1>1. Init => SoloDispatchResponde
  BY DEF Init, SoloDispatchResponde, FhNada
<1>2. IInv /\ SoloDispatchResponde /\ [Next]_vars => SoloDispatchResponde'
  BY FinalizadoresCallan DEF IInv
<1>3. IInv /\ Ordenados /\ SoloDispatchResponde => CpuFiel
  <2>1. SUFFICES ASSUME TypeOK, Turno, SoloDispatchResponde PROVE CpuFiel
    BY DEF IInv, Ordenados
  <2>2. Respuestas = EnCamino + EnPedido + EnDeuda
    BY DEF Respuestas, EnCamino, EnPedido, EnDeuda
  <2>3. QED
    BY <2>1, <2>2, UnaRespuesta, NadieEnExecOlvidado DEF CpuFiel
<1>4. QED
  BY <1>1, <1>2, <1>3, InvarianteSiempre, OrdenSiempre, PTL DEF Spec
-----------------------------------------------------------------------------
(***************************************************************************)
(* Programs that follow the rules.                                         *)
(***************************************************************************)
\* The request under way uses a mutex that exists, and cancels another thread,
\* one that waits neither for a mutex nor for a dump.
PedidoCorrecto ==
  /\ Pedida.instr \in {"MUTEX_LOCK", "MUTEX_UNLOCK"} => <<P, Pedida.arg>> \in mutexes
  /\ Pedida.instr = "THREAD_CANCEL" =>
       /\ <<P, Pedida.arg>> # H /\ dump[<<P, Pedida.arg>>] = "nada"
       /\ \A m \in Mutexes : <<P, Pedida.arg>> \notin ToSet(bloqueadosMutex[m])

(* With disciplined programs nothing has crashed, the CPU waits only for answers
   to a thread alive, and nobody ends while waiting for a mutex or a dump. *)
Disciplinados ==
  /\ EnMarcha /\ cpu # "colgada"
  /\ cpu \in EsperaRta => contexto \in Vivos
  /\ \A m \in Mutexes : ToSet(bloqueadosMutex[m]) \subseteq Vivos
  /\ \A h \in Hilos : dump[h] # "nada" => h \in Vivos
  /\ aKernel # <<>> => PedidoCorrecto

\* A step that at most takes from their lists the threads of X, which wait for nothing.
LEMMA SigueDisciplinado ==
  ASSUME Sano, Disciplinados, Lugares', NEW X,
         salidos' \cup Salientes' \subseteq salidos \cup Salientes \cup X, Creados \subseteq Creados',
         \A h \in X : dump[h] = "nada" /\ \A m \in Mutexes : h \notin ToSet(bloqueadosMutex[m]),
         caido' = caido, cpu' # "colgada", cpu' \in EsperaRta => contexto' \in Vivos \ X,
         \A m \in Mutexes : ToSet(bloqueadosMutex'[m]) \subseteq ToSet(bloqueadosMutex[m]),
         \A h \in Hilos : dump'[h] # "nada" => dump[h] # "nada",
         mutexes \subseteq mutexes',
         \/ aKernel' = aKernel
         \/ aKernel' = <<>>
         \/ aKernel' # <<>> /\ PedidoCorrecto'
  PROVE  Disciplinados'
<1>1. Vivos \ X \subseteq Vivos'
  BY VivosSon, VivosSonDespues DEF Sano
<1>2. \A m \in Mutexes : ToSet(bloqueadosMutex'[m]) \subseteq Vivos'
  BY <1>1 DEF Disciplinados
<1>3. \A h \in Hilos : dump'[h] # "nada" => h \in Vivos'
  BY <1>1 DEF Disciplinados
<1>4. aKernel' # <<>> => PedidoCorrecto'
  <2>1. CASE aKernel' = aKernel /\ aKernel # <<>>
    <3>1. PedidoCorrecto /\ Pedida \in MensajesKernel /\ P \in Pids
      BY <2>1, Atendible DEF Disciplinados
    <3>2. Pedida' = Pedida /\ P' = P /\ H' = H
      BY <2>1 DEF Pedida, P, H
    <3>3. Pedida.instr = "THREAD_CANCEL" => <<P, Pedida.arg>> \in Hilos
      BY <3>1 DEF MensajesKernel, Hilos
    <3>4. QED
      BY <3>1, <3>2, <3>3 DEF PedidoCorrecto
  <2>2. QED
    BY <2>1
<1>5. QED
  BY <1>1, <1>2, <1>3, <1>4 DEF Disciplinados, EnMarcha

\* A step in which nobody ends and the CPU does nothing.
LEMMA IgualDisciplinado ==
  ASSUME Sano, Disciplinados, Lugares', UNCHANGED <<salidos, fh, caido, cpu, contexto>>,
         Creados \subseteq Creados',
         \A m \in Mutexes : ToSet(bloqueadosMutex'[m]) \subseteq ToSet(bloqueadosMutex[m]),
         \A h \in Hilos : dump'[h] # "nada" => dump[h] # "nada",
         mutexes \subseteq mutexes', aKernel' \in {aKernel, <<>>}
  PROVE  Disciplinados'
<1>1. Salientes' = Salientes
  BY DEF Salientes, Saliendo
<1>2. PICK X : X = {}
  OBVIOUS
<1>3. /\ salidos' \cup Salientes' \subseteq salidos \cup Salientes \cup X
      /\ \A h \in X : dump[h] = "nada" /\ \A m \in Mutexes : h \notin ToSet(bloqueadosMutex[m])
  BY <1>1, <1>2
<1>4. cpu' # "colgada" /\ (cpu' \in EsperaRta => contexto' \in Vivos \ X)
  BY <1>2 DEF Disciplinados
<1>5. aKernel' = aKernel \/ aKernel' = <<>>
  OBVIOUS
<1>6. Creados \subseteq Creados' /\ caido' = caido /\ mutexes \subseteq mutexes'
  OBVIOUS
<1>7. /\ \A m \in Mutexes : ToSet(bloqueadosMutex'[m]) \subseteq ToSet(bloqueadosMutex[m])
      /\ \A h \in Hilos : dump'[h] # "nada" => dump[h] # "nada"
  OBVIOUS
<1>8. QED
  BY ONLY Sano, Disciplinados, Lugares', <1>3, <1>4, <1>5, <1>6, <1>7, SigueDisciplinado

\* A finalizar_hilo starts: its thread, if alive, waits for no mutex nor dump, and
\* the CPU waits for another.
LEMMA InicioDisciplinado ==
  ASSUME Sano, Disciplinados, Lugares', NEW e \in Ejecutores, fh[e].fase = "nada", NEW h, NEW rta,
         FhInicio(e, h, rta),
         UNCHANGED <<salidos, siguienteTid, caido, cpu, contexto, mutexes, dump, bloqueadosMutex>>,
         aKernel' \in {aKernel, <<>>},
         h \in Vivos => /\ dump[h] = "nada" /\ \A m \in Mutexes : h \notin ToSet(bloqueadosMutex[m])
                        /\ cpu \in EsperaRta => contexto # h
  PROVE  Disciplinados'
<1>1. Creados' = Creados
  BY DEF Creados
<1>2. CASE h \in Vivos
  <2>1. fh' = [fh EXCEPT ![e] = [fase |-> "pedido", hilo |-> h, mutexes |-> asignados[h],
                                 joins |-> esperanJoin[h], rta |-> rta]]
    BY <1>2, VivosExisten DEF FhInicio
  <2>2. \A o \in Ejecutores : Saliendo(o)' \subseteq Saliendo(o) \cup {h}
    BY <2>1 DEF Saliendo, Sano, TypeOK, TipoFin
  <2>3. salidos' \cup Salientes' \subseteq salidos \cup Salientes \cup {h}
    BY <2>2 DEF Salientes
  <2>4. \A g \in {h} : dump[g] = "nada" /\ \A m \in Mutexes : g \notin ToSet(bloqueadosMutex[m])
    BY <1>2
  <2>5. cpu' # "colgada" /\ (cpu' \in EsperaRta => contexto' \in Vivos \ {h})
    BY <1>2 DEF Disciplinados
  <2>6. /\ Creados \subseteq Creados' /\ caido' = caido /\ mutexes \subseteq mutexes'
        /\ \A m \in Mutexes : ToSet(bloqueadosMutex'[m]) \subseteq ToSet(bloqueadosMutex[m])
        /\ \A g \in Hilos : dump'[g] # "nada" => dump[g] # "nada"
        /\ aKernel' = aKernel \/ aKernel' = <<>>
    BY <1>1
  <2>7. QED
    BY ONLY Sano, Disciplinados, Lugares', <2>3, <2>4, <2>5, <2>6, SigueDisciplinado
<1>3. CASE h \notin Vivos
  <2>1. fh' = fh
    BY <1>3, VivosExisten DEF FhInicio
  <2>2. QED
    BY <1>1, <2>1, IgualDisciplinado
<1>4. QED
  BY <1>2, <1>3

\* The first waiter of a mutex is alive, in BLOCKED.
LEMMA HerederoVive ==
  ASSUME Sano, Disciplinados, NEW m \in Mutexes, bloqueadosMutex[m] # <<>>
  PROVE  /\ Head(bloqueadosMutex[m]) \in Vivos /\ Head(bloqueadosMutex[m]) \in blocked
         /\ ToSet(Tail(bloqueadosMutex[m])) \subseteq ToSet(bloqueadosMutex[m])
         /\ Tail(bloqueadosMutex[m]) # bloqueadosMutex[m]
<1> DEFINE s == bloqueadosMutex[m]
<1>1. s \in Seq(Hilos \cup {Nadie}) /\ s # <<>> /\ IsInjective(s)
  BY FilaEs DEF Sano, TypeOK, TipoMutex, Orden, EnFila, SinComunes
<1>2. /\ Head(s) \in ToSet(s) /\ Head(s) \notin ToSet(Tail(s))
      /\ ToSet(Tail(s)) = ToSet(s) \ {Head(s)}
  <2>1. Head(s) = s[1] /\ 1 \in DOMAIN s
    BY <1>1
  <2>2. QED
    BY <1>1, <2>1, TailElementos DEF ToSet
<1>3. ToSet(s) \subseteq Vivos
  BY DEF Disciplinados
<1>4. ToSet(s) \subseteq Esperando
  <2>1. <<"mutex", m>> \in Filas /\ Fila[<<"mutex", m>>] = s
    BY FilaEs DEF Sano
  <2> HIDE DEF s
  <2>2. QED
    BY <2>1 DEF Esperando, Reunion
<1>5. QED
  BY <1>1, <1>2, <1>3, <1>4 DEF Sano, Orden, Detenidos

\* protocolo_liberacion_recurso finds the waiter it wakes up.
LEMMA ProtocoloDisciplinado ==
  ASSUME Sano, Disciplinados, NEW m \in Mutexes, NEW asig, NEW rta, Protocolo(m, asig, rta)
  PROVE  /\ caido' = caido
         /\ \A n \in Mutexes : ToSet(bloqueadosMutex'[n]) \subseteq ToSet(bloqueadosMutex[n])
<1>1. CASE bloqueadosMutex[m] = <<>>
  BY <1>1 DEF Protocolo
<1>2. CASE bloqueadosMutex[m] # <<>>
  <2>1. /\ bloqueadosMutex' = [bloqueadosMutex EXCEPT ![m] = Tail(@)]
        /\ Existe(Heredero(m)) => caido' = caido
    BY <1>2 DEF Protocolo
  <2>2. /\ Existe(Heredero(m)) /\ ToSet(Tail(bloqueadosMutex[m])) \subseteq ToSet(bloqueadosMutex[m])
    BY <1>2, HerederoVive, VivosExisten DEF Heredero
  <2>3. QED
    BY <2>1, <2>2 DEF Sano, TypeOK, TipoMutex
<1>3. QED
  BY <1>1, <1>2

\* A step in which nobody ends.
LEMMA SigueVivo ==
  ASSUME Sano, Disciplinados, Lugares', salidos' \cup Salientes' \subseteq salidos \cup Salientes,
         Creados \subseteq Creados', caido' = caido,
         cpu' # "colgada", cpu' \in EsperaRta => contexto' \in Vivos,
         \A m \in Mutexes : ToSet(bloqueadosMutex'[m]) \subseteq ToSet(bloqueadosMutex[m]),
         \A h \in Hilos : dump'[h] # "nada" => dump[h] # "nada",
         mutexes \subseteq mutexes',
         \/ aKernel' = aKernel
         \/ aKernel' = <<>>
         \/ aKernel' # <<>> /\ PedidoCorrecto'
  PROVE  Disciplinados'
<1>1. PICK X : X = {}
  OBVIOUS
<1>2. /\ salidos' \cup Salientes' \subseteq salidos \cup Salientes \cup X
      /\ \A h \in X : dump[h] = "nada" /\ \A m \in Mutexes : h \notin ToSet(bloqueadosMutex[m])
  BY <1>1
<1>3. cpu' # "colgada" /\ (cpu' \in EsperaRta => contexto' \in Vivos \ X)
  BY <1>1
<1>4. \/ aKernel' = aKernel
      \/ aKernel' = <<>>
      \/ aKernel' # <<>> /\ PedidoCorrecto'
  OBVIOUS
<1>5. Creados \subseteq Creados' /\ caido' = caido /\ mutexes \subseteq mutexes'
  OBVIOUS
<1>6. /\ \A m \in Mutexes : ToSet(bloqueadosMutex'[m]) \subseteq ToSet(bloqueadosMutex[m])
      /\ \A h \in Hilos : dump'[h] # "nada" => dump[h] # "nada"
  OBVIOUS
<1>7. QED
  BY ONLY Sano, Disciplinados, Lugares', <1>2, <1>3, <1>4, <1>5, <1>6, SigueDisciplinado

\* A step of the CPU or of its program.
LEMMA CpuDisciplinado ==
  ASSUME Sano, Disciplinados, Lugares',
         UNCHANGED <<vListas, vTcb, vPcb, vMutex, pcpPend, fh, vFin, vDump, vMemoria, caido>>,
         cpu' # "colgada", cpu' \in EsperaRta => contexto' \in Vivos,
         \/ aKernel' = aKernel
         \/ aKernel' # <<>> /\ PedidoCorrecto'
  PROVE  Disciplinados'
<1>1. UNCHANGED <<salidos, siguienteTid, fh, bloqueadosMutex, dump, mutexes, caido>>
  BY DEF vListas, vPcb, vMutex, vDump
<1>2. Salientes' = Salientes /\ Creados' = Creados
  BY <1>1 DEF Salientes, Saliendo, Creados
<1>3. QED
  BY <1>1, <1>2, SigueVivo

\* EJECUTAR finds the context of its thread in Memoria.
LEMMA CpuRecibeEjecutarDisciplinado ==
  ASSUME Sano, Disciplinados, Lugares', CpuRecibeEjecutar
  PROVE  Disciplinados'
<1>1. cpu = "libre" /\ aCpu # <<>> /\ Head(aCpu).op = "EJECUTAR"
  BY DEF CpuRecibeEjecutar
<1>2. Libre
  BY <1>1, Cortas DEF Sano, Turno, Libre, Pidio, Corriendo, Pidiendo, Respondido, Cedido, Cancelando, SinHilo,
     EsperaRta
<1>3. PICK h \in Hilos : exec = <<h>> /\ aCpu = <<Ejecutar(h)>>
  BY <1>1, <1>2, EnviadoEs DEF Libre
<1>4. Head(aCpu).hilo = h
  BY <1>3, Cortas DEF Ejecutar
<1>5. h \in Vivos
  BY <1>3, VivosExisten, Cortas
<1>6. h \in memHilos
  BY <1>5 DEF Sano, Lugares
<1>7. h[1] \in memProc
  <2>1. h[1] \in memProc \/ fin[h[1]].fase \in {"tomar", "hilos"}
    BY <1>5 DEF Sano, Orden, Procesos
  <2>2. ~PorTerminar(h[1])
    BY <1>1, Ocupado DEF Hilos
  <2>3. QED
    BY <2>1, <2>2 DEF PorTerminar
<1>8. cpu' = "corriendo" /\ UNCHANGED aKernel
  BY <1>4, <1>6, <1>7 DEF CpuRecibeEjecutar
<1>9. UNCHANGED <<vListas, vTcb, vPcb, vMutex, pcpPend, fh, vFin, vDump, vMemoria, caido>>
  BY DEF CpuRecibeEjecutar
<1>10. QED
  BY <1>8, <1>9, CpuDisciplinado DEF EsperaRta

\* The answer arrives to a CPU whose thread is alive: its context is saved.
LEMMA CpuRecibeRtaDisciplinado ==
  ASSUME Sano, Disciplinados, Lugares', CpuRecibeRta
  PROVE  Disciplinados'
<1>1. /\ cpu \in EsperaRta /\ aCpu # <<>> /\ contexto' = contexto
      /\ contexto \in memHilos => cpu' \in {"corriendo", "libre"}
      /\ aKernel' = IF contexto \in memHilos /\ cpu = "esperaDesalojo"
                    THEN Append(aKernel, Desalojo(contexto)) ELSE aKernel
      /\ UNCHANGED <<vListas, vTcb, vPcb, vMutex, pcpPend, fh, vFin, vDump, vMemoria, caido>>
  BY DEF CpuRecibeRta
<1>2. contexto \in Vivos /\ contexto \in memHilos
  BY <1>1, MemoriaVive DEF Disciplinados
<1>3. cpu' # "colgada" /\ ~(cpu' \in EsperaRta)
  BY <1>1, <1>2 DEF EsperaRta
<1>4. aKernel = <<>>
  BY <1>1 DEF Sano, Turno, Libre, Pidio, Corriendo, Pidiendo, Respondido, Cedido, Cancelando, SinHilo, EsperaRta
<1>5. aKernel' = aKernel \/ (aKernel' # <<>> /\ PedidoCorrecto')
  <2>1. CASE aKernel' = Append(aKernel, Desalojo(contexto))
    <3>1. aKernel' = <<Desalojo(contexto)>>
      BY <1>4, <2>1, Cortas
    <3>2. aKernel' # <<>> /\ Head(aKernel') = Desalojo(contexto)
      BY <3>1, Cortas
    <3>3. Pedida'.instr = "NADA"
      BY <3>2 DEF Pedida, Desalojo
    <3>4. QED
      BY <3>2, <3>3 DEF PedidoCorrecto
  <2>2. QED
    BY <1>1, <2>1
<1>6. QED
  BY <1>1, <1>3, <1>5, CpuDisciplinado

\* A thread that dumps is alive when the CPU saves its context.
LEMMA CpuGuardaDisciplinado ==
  ASSUME Sano, Disciplinados, Lugares', CpuGuarda
  PROVE  Disciplinados'
<1>1. /\ cpu = "guardando" /\ cpu' = IF contexto \in memHilos THEN "libre" ELSE "colgada"
      /\ UNCHANGED <<vListas, vTcb, vPcb, vMutex, pcpPend, fh, vFin, vDump, vMemoria, caido, aKernel>>
  BY DEF CpuGuarda
<1>2. Libre \/ Pidio
  BY <1>1 DEF Sano, Turno, Libre, Pidio, Corriendo, Pidiendo, Respondido, Cedido, Cancelando, SinHilo, EsperaRta
<1>3. contexto \in Vivos
  BY <1>1, <1>2, EnJuegoVive DEF Libre, Pidio
<1>4. cpu' = "libre"
  BY <1>1, <1>3, MemoriaVive
<1>5. QED
  BY <1>1, <1>4, CpuDisciplinado DEF EsperaRta

\* A disciplined program asks for what the kernel can do.
LEMMA CpuSyscallDisciplinado ==
  ASSUME Disciplina = TRUE, Sano, Disciplinados, Lugares', NEW i \in Instrucciones, CpuSyscall(i)
  PROVE  Disciplinados'
<1>1. PICK a \in Argumentos(contexto, i) :
        Correcto(contexto, i, a) /\ aKernel' = Append(aKernel, Pedido(contexto, i, a))
  BY DEF CpuSyscall
<1>2. /\ cpu = "corriendo"
      /\ cpu' = CASE i \in ConDesalojo -> "esperaDesalojo"
                  [] i \in ConRespuesta \ ConDesalojo -> "espera"
                  [] i = "DUMP_MEMORY" -> "guardando"
                  [] OTHER -> "libre"
      /\ UNCHANGED <<vListas, vTcb, vPcb, vMutex, pcpPend, fh, vFin, vDump, vMemoria, caido, contexto>>
  BY DEF CpuSyscall
<1>3. aKernel = <<>> /\ contexto \in Vivos /\ contexto \in Hilos
  BY <1>2, CpuCorre DEF Corriendo
<1>4. aKernel' = <<Pedido(contexto, i, a)>>
  BY <1>1, <1>3, Cortas
<1>5. aKernel' # <<>> /\ Head(aKernel') = Pedido(contexto, i, a)
  BY <1>4, Cortas
<1>6. Pedida'.instr = i /\ Pedida'.arg = a /\ H' = contexto /\ P' = contexto[1]
  BY <1>5 DEF Pedida, H, P, Pedido
<1>7. UNCHANGED <<bloqueadosMutex, dump, mutexes>>
  BY <1>2 DEF vMutex, vDump
<1>8. PedidoCorrecto'
  <2>1. ASSUME i \in {"MUTEX_LOCK", "MUTEX_UNLOCK"}
        PROVE  <<contexto[1], a>> \in mutexes
    BY <1>1, <2>1 DEF Correcto
  <2>2. ASSUME i = "THREAD_CANCEL"
        PROVE  /\ <<contexto[1], a>> # contexto /\ dump[<<contexto[1], a>>] = "nada"
               /\ \A m \in Mutexes : <<contexto[1], a>> \notin ToSet(bloqueadosMutex[m])
    <3>1. /\ a # contexto[2] /\ dump[<<contexto[1], a>>] = "nada"
          /\ \A m \in Mutexes : <<contexto[1], a>> \notin ToSet(bloqueadosMutex[m])
      BY <1>1, <2>2 DEF Correcto
    <3>2. QED
      BY <1>3, <3>1 DEF Hilos
  <2>3. QED
    BY <1>6, <1>7, <2>1, <2>2 DEF PedidoCorrecto
<1>9. cpu' # "colgada"
  BY <1>2
<1>10. QED
  BY <1>2, <1>3, <1>5, <1>8, <1>9, CpuDisciplinado

\* The CPU and its program.
LEMMA CpuPasoDisciplinado ==
  ASSUME FinLimpio, Disciplina = TRUE, Sano, Disciplinados, Lugares', Cpu \/ Programa
  PROVE  Disciplinados'
<1>1. ~CpuSinHilo
  BY CpuCorre DEF CpuSinHilo
<1>2. ~CpuSegmentationFault
  BY DEF CpuSegmentationFault, FinLimpio
<1>3. QED
  BY <1>1, <1>2, CpuRecibeEjecutarDisciplinado, CpuRecibeRtaDisciplinado, CpuGuardaDisciplinado,
     CpuSyscallDisciplinado DEF Cpu, Programa

\* One more thread for a process.
LEMMA MasTids ==
  ASSUME TypeOK, NEW q, siguienteTid' = [siguienteTid EXCEPT ![q] = @ + 1]
  PROVE  Creados \subseteq Creados'
<1>1. siguienteTid \in [Pids -> 0 .. MaxTid + 1] /\ MaxTid \in Nat
  BY CotasAssumption DEF TypeOK, TipoPcb
<1>2. \A p \in Pids : siguienteTid[p] <= siguienteTid'[p]
  BY <1>1
<1>3. \A h \in Hilos : h[1] \in Pids /\ h[2] \in Nat
  BY CotasAssumption DEF Hilos, Tids
<1>4. QED
  BY <1>1, <1>2, <1>3 DEF Creados

\* finalizar_hilo takes its thread, that nobody waits with, to EXIT.
LEMMA FinalizarHiloDisciplinado ==
  ASSUME Sano, Disciplinados, Lugares', NEW e \in Ejecutores, FinalizarHilo(e)
  PROVE  Disciplinados'
<1>1. /\ UNCHANGED <<siguienteTid, dump, mutexes, aKernel, cpu, contexto>>
      /\ \A o \in Ejecutores : o # e => fh'[o] = fh[o]
      /\ \/ /\ salidos' = salidos /\ (fh'[e].fase = "nada" \/ fh'[e].hilo = fh[e].hilo)
            /\ fh'[e].fase \in {"pedido", "mutexes"} => fh[e].fase \in {"pedido", "mutexes"}
         \/ salidos' = salidos \cup {fh[e].hilo} /\ fh[e].fase = "mutexes" /\ fh'[e].fase = "joins"
  <2> USE DEF vPcb, vDump, vCpu, vListas, vMutex
  <2>1. CASE FhTomar(e)
    BY <2>1, FhCampos DEF FhTomar, Sano
  <2>2. CASE FhMutex(e)
    BY <2>2, FhCampos DEF FhMutex, Sano
  <2>3. CASE FhSalir(e)
    BY <2>3, FhCampos DEF FhSalir, Sano
  <2>4. CASE FhJoin(e)
    BY <2>4, FhCampos DEF FhJoin, Sano
  <2>5. CASE FhFin(e)
    <3>1. fh' = [fh EXCEPT ![e] = FhNada] /\ salidos' = salidos
      BY <2>5 DEF FhFin
    <3>2. fh'[e].fase = "nada" /\ \A o \in Ejecutores : o # e => fh'[o] = fh[o]
      BY <3>1 DEF Sano, TypeOK, TipoFin, FhNada
    <3>3. UNCHANGED <<siguienteTid, dump, mutexes, aKernel, cpu, contexto>>
      BY <2>5 DEF FhFin
    <3>4. QED
      BY <3>1, <3>2, <3>3
  <2>6. QED
    BY <2>1, <2>2, <2>3, <2>4, <2>5 DEF FinalizarHilo
<1>2. salidos' \cup Salientes' \subseteq salidos \cup Salientes
  <2>1. \A o \in Ejecutores : Saliendo(o)' \subseteq Saliendo(o)
    BY <1>1 DEF Saliendo
  <2>2. fh[e].fase = "mutexes" => fh[e].hilo \in Salientes
    BY DEF Saliendo, Salientes
  <2>3. Salientes' \subseteq Salientes
    BY <2>1 DEF Salientes
  <2>4. QED
    BY <1>1, <2>2, <2>3
<1>3. /\ caido' = caido
      /\ \A m \in Mutexes : ToSet(bloqueadosMutex'[m]) \subseteq ToSet(bloqueadosMutex[m])
  <2>1. CASE FhTomar(e)
    <3>1. /\ fh[e].fase = "pedido" /\ caido' = caido
          /\ bloqueadosMutex' = [m \in Mutexes |->
               IF m \in ToSet(fh[e].mutexes) THEN RemoveFirst(bloqueadosMutex[m], fh[e].hilo)
                                             ELSE bloqueadosMutex[m]]
      BY <2>1 DEF FhTomar
    <3>2. fh[e].hilo \notin Vivos
      BY <3>1, FhEs
    <3>3. ASSUME NEW m \in Mutexes PROVE RemoveFirst(bloqueadosMutex[m], fh[e].hilo) = bloqueadosMutex[m]
      <4>1. bloqueadosMutex[m] \in Seq(Hilos \cup {Nadie}) /\ fh[e].hilo \notin ToSet(bloqueadosMutex[m])
        BY <3>2 DEF Sano, TypeOK, TipoMutex, Disciplinados
      <4>2. QED
        BY ONLY <4>1, RemoveFirstAjeno
    <3>4. QED
      BY <3>1, <3>3
  <2>2. CASE FhMutex(e)
    <3>1. fh[e].fase = "mutexes" /\ fh[e].mutexes # <<>> /\ Protocolo(Head(fh[e].mutexes), asignados, FALSE)
      BY <2>2 DEF FhMutex
    <3>2. PICK m \in Mutexes : m = Head(fh[e].mutexes)
      BY <3>1, PrimerMutex
    <3>3. QED
      BY <3>1, <3>2, ProtocoloDisciplinado
  <2>3. CASE FhSalir(e) \/ FhJoin(e) \/ FhFin(e)
    BY <2>3 DEF FhSalir, FhJoin, FhFin, vMutex
  <2>4. QED
    BY <2>1, <2>2, <2>3 DEF FinalizarHilo
<1>4. Creados' = Creados
  BY <1>1 DEF Creados
<1>5. cpu' # "colgada" /\ (cpu' \in EsperaRta => contexto' \in Vivos)
  BY <1>1 DEF Disciplinados
<1>6. QED
  BY <1>1, <1>2, <1>3, <1>4, <1>5, SigueVivo

\* A dump of a thread alive finds its process in Memoria.
LEMMA DumpMemoryDisciplinado ==
  ASSUME Sano, Disciplinados, Lugares', NEW h \in Hilos, DumpMemory(h)
  PROVE  Disciplinados'
<1>1. /\ UNCHANGED <<salidos, siguienteTid, fh, cpu, contexto, bloqueadosMutex, mutexes, aKernel>>
      /\ \A g \in Hilos : dump'[g] # "nada" => dump[g] # "nada"
  <2> USE DEF vListas, vPcb, vMutex, vCpu, Sano, TypeOK, TipoDump, Orden, Dumps
  <2>1. CASE DumpBloquear(h)
    BY <2>1 DEF DumpBloquear
  <2>2. CASE DumpResponder(h)
    BY <2>2 DEF DumpResponder
  <2>3. CASE DumpConcluir(h)
    BY <2>3 DEF DumpConcluir
  <2>4. QED
    BY <2>1, <2>2, <2>3 DEF DumpMemory
<1>2. caido' = caido
  <2>1. CASE DumpResponder(h)
    <3>1. /\ h \in dumpMem
          /\ \E v \in IdLeido(h) : IF v[1] \in memProc THEN UNCHANGED caido ELSE Crash("memoria")
      BY <2>1 DEF DumpResponder
    <3>2. dump[h] = "pedido"
      BY <3>1 DEF Sano, Orden, Dumps
    <3>3. IdLeido(h) = {h} /\ h \in Vivos
      BY <3>2, QuienVuelca DEF Disciplinados
    <3>4. h[1] \in Pids /\ h[2] \in Tids /\ h = <<h[1], h[2]>>
      BY DEF Hilos
    <3>5. h[1] \in memProc \/ fin[h[1]].fase \in {"tomar", "hilos"}
      BY <3>3 DEF Sano, Orden, Procesos
    <3>6. ~PorTerminar(h[1])
      <4>1. SUFFICES ASSUME PorTerminar(h[1]) PROVE FALSE
        OBVIOUS
      <4>2. PICK p \in Pids : p = h[1]
        BY <3>4
      <4>3. Solo(p) /\ dump[<<p, 0>>] = "nada"
        BY <4>1, <4>2, CeroEspera DEF Apagada
      <4>4. h[2] = 0
        BY <3>3, <4>2, <4>3 DEF Solo
      <4>5. QED
        BY <3>2, <3>4, <4>2, <4>3, <4>4
    <3>7. h[1] \in memProc
      BY <3>5, <3>6 DEF PorTerminar
    <3>8. QED
      BY <3>1, <3>3, <3>7
  <2>2. CASE DumpBloquear(h) \/ DumpConcluir(h)
    BY <2>2 DEF DumpBloquear, DumpConcluir
  <2>3. QED
    BY <2>1, <2>2 DEF DumpMemory
<1>3. Creados' = Creados
  BY <1>1 DEF Creados
<1>4. QED
  BY <1>1, <1>2, <1>3, IgualDisciplinado

\* finalizar_proceso finds its process in Memoria, and thread 0 asleep.
LEMMA FinalizarProcesoDisciplinado ==
  ASSUME IInv, Sano, Disciplinados, Lugares', NEW p \in Pids, FinalizarProceso(p)
  PROVE  Disciplinados'
<1> USE DEF vListas, vPcb, vMutex, vDump, vCpu
<1>1. CASE FinMemoria(p)
  <2>1. finPend[p] > 0
    BY <1>1 DEF FinMemoria
  <2>2. p \notin pcbExit /\ <<p, 0>> \in Vivos
    BY <2>1, CeroEspera DEF PorTerminar
  <2>3. fin[p].fase = "nada"
    <3>1. finPend[p] = 0 \/ (finPend[p] = 1 /\ fin[p].fase = "nada")
      BY DEF Sano, Orden, Procesos
    <3>2. QED
      BY <2>1, <3>1
  <2>4. p \in memProc
    <3>1. <<p, 0>>[1] = p
      OBVIOUS
    <3>2. p \in memProc \/ fin[p].fase \in {"tomar", "hilos"}
      BY <2>2, <3>1 DEF Sano, Orden, Procesos
    <3>3. QED
      BY <2>3, <3>2
  <2>5. UNCHANGED <<salidos, siguienteTid, fh, caido, cpu, contexto, bloqueadosMutex, dump, mutexes, aKernel>>
    BY <1>1, <2>2, <2>4 DEF FinMemoria
  <2>6. Creados' = Creados
    BY <2>5 DEF Creados
  <2>7. QED
    BY <2>5, <2>6, IgualDisciplinado
<1>2. CASE FinTomar(p) \/ FinSalir(p)
  <2>1. UNCHANGED <<salidos, siguienteTid, fh, caido, cpu, contexto, bloqueadosMutex, dump, mutexes, aKernel>>
    BY <1>2 DEF FinTomar, FinSalir
  <2>2. Creados' = Creados
    BY <2>1 DEF Creados
  <2>3. QED
    BY <2>1, <2>2, IgualDisciplinado
<1>3. CASE FinHilo(p)
  <2> DEFINE i == fin[p].i
             h == listaIds[p][i]
  <2>1. /\ fin[p].fase = "hilos" /\ i <= Len(listaIds[p]) /\ FhInicio(p, h, FALSE)
        /\ UNCHANGED <<salidos, siguienteTid, caido, cpu, contexto, bloqueadosMutex, dump, mutexes, aKernel>>
    BY <1>3 DEF FinHilo
  <2>2. listaIds[p] \in Seq(Hilos) /\ i \in Nat \ {0}
    BY DEF Sano, TypeOK, TipoPcb, TipoFin
  <2>3. h \in ToSet(listaIds[p]) /\ h \in Hilos
    BY <2>1, <2>2, Posiciones
  <2>4. h[1] = p /\ h # <<p, 0>>
    <3>1. <<p, 0>> \notin ToSet(listaIds[p])
      BY <2>1 DEF Sano, Orden, Procesos
    <3>2. h[1] = p
      BY <2>3 DEF Sano, Orden, Ids
    <3>3. QED
      BY <2>3, <3>1, <3>2
  <2>5. h \notin Vivos
    <3>1. Solo(p)
      BY <2>1, CeroEspera DEF PorTerminar
    <3>2. h = <<h[1], h[2]>>
      BY <2>3 DEF Hilos
    <3>3. QED
      BY <2>4, <3>1, <3>2 DEF Solo
  <2> HIDE DEF h
  <2>6. fh' = fh
    BY <2>1, <2>5, InicioDeNadie
  <2>7. Creados' = Creados
    BY <2>1 DEF Creados
  <2>8. QED
    BY <2>1, <2>6, <2>7, IgualDisciplinado
<1>4. CASE FinCero(p)
  <2> DEFINE h == <<p, 0>>
  <2>1. fin[p].fase = "hilos" /\ fh[p].fase = "nada"
    BY <1>4 DEF FinCero
  <2>2. fin[p].cero
    BY <2>1 DEF Sano, Orden, Procesos
  <2>3. /\ FhInicio(p, h, FALSE)
        /\ UNCHANGED <<salidos, siguienteTid, caido, cpu, contexto, mutexes, dump, bloqueadosMutex, aKernel>>
    BY <1>4, <2>2 DEF FinCero
  <2>4. cpu = "libre" /\ exec = <<h>> /\ dump[h] = "nada"
    BY <2>1, CeroEspera DEF PorTerminar, Apagada
  <2>5. h \in Vivos /\ h \notin blocked
    <3>1. h \in ToSet(exec)
      BY <2>4, Cortas
    <3>2. Activos(Colas) \cap blocked = {}
      BY DEF Sano, Lugares
    <3>3. QED
      BY <3>1, <3>2, VivosExisten DEF Activos, Colas
  <2>6. \A m \in Mutexes : h \notin ToSet(bloqueadosMutex[m])
    <3>1. h \notin Esperando
      BY <2>5 DEF Sano, Orden, Detenidos
    <3> HIDE DEF h
    <3>2. QED
      BY <3>1, FilaEs DEF Sano, Esperando, Reunion
  <2>7. p \in Ejecutores
    BY DEF Ejecutores
  <2> HIDE DEF h
  <2>8. cpu \notin EsperaRta
    BY <2>4 DEF EsperaRta
  <2>9. QED
    BY <2>1, <2>3, <2>4, <2>6, <2>7, <2>8, InicioDisciplinado
<1>5. CASE FinReplanificar(p)
  <2>1. /\ UNCHANGED <<salidos, fh, caido, cpu, contexto, bloqueadosMutex, dump, mutexes, aKernel>>
        /\ pcbNew # <<>>
        /\ siguienteTid' = [siguienteTid EXCEPT ![Head(pcbNew)] = @ + 1]
    BY <1>5 DEF FinReplanificar, CrearTcb
  <2>2. Creados \subseteq Creados'
    BY <2>1, MasTids DEF Sano
  <2>3. QED
    BY <2>1, <2>2, IgualDisciplinado
<1>6. QED
  BY <1>1, <1>2, <1>3, <1>4, <1>5 DEF FinalizarProceso

\* A finalizar_hilo of the handler: of a thread the CPU waits with, or of none.
LEMMA InicioDispatchDisciplinado ==
  ASSUME Sano, Disciplinados, Lugares', aKernel' = <<>>, fh[Dispatch].fase = "nada", NEW h, NEW rta,
         FhInicio(Dispatch, h, rta),
         UNCHANGED <<salidos, siguienteTid, caido, cpu, contexto, mutexes, dump, bloqueadosMutex>>,
         h \in Vivos => /\ dump[h] = "nada" /\ \A m \in Mutexes : h \notin ToSet(bloqueadosMutex[m])
                        /\ cpu \in EsperaRta => contexto # h
  PROVE  Disciplinados'
<1>1. Dispatch \in Ejecutores /\ aKernel' \in {aKernel, <<>>}
  BY DEF Ejecutores
<1>2. QED
  BY <1>1, InicioDisciplinado

\* The queue of a mutex, and who is in some queue.
LEMMA FueraDeMutex ==
  ASSUME Sano, NEW h, h \notin Esperando
  PROVE  \A m \in Mutexes : h \notin ToSet(bloqueadosMutex[m])
  BY FilaEs DEF Sano, Esperando, Reunion

\* THREAD_EXIT, whose thread the CPU does not wait with, and THREAD_CANCEL.
LEMMA AtiendeFinesDisciplinado ==
  ASSUME Sano, Disciplinados, Lugares', AtiendeThreadExit \/ AtiendeThreadCancel
  PROVE  Disciplinados'
<1>1. UNCHANGED <<salidos, siguienteTid, caido, cpu, contexto, mutexes, dump, bloqueadosMutex>>
  BY DEF AtiendeThreadExit, AtiendeThreadCancel, vPcb, vMutex, vDump, vCpu
<1>2. CASE AtiendeThreadExit
  <2>1. Llega("THREAD_EXIT") /\ \E v \in IdLeido(H) : FhInicio(Dispatch, v, FALSE)
    BY <1>2 DEF AtiendeThreadExit
  <2>2. aKernel # <<>> /\ aKernel' = <<>> /\ Pedida.instr = "THREAD_EXIT" /\ fh[Dispatch].fase = "nada"
    BY <2>1, LlegaDe
  <2>3. IdLeido(H) = {H} /\ dump[H] = "nada" /\ H \notin Esperando
    BY <2>2, Atendible
  <2>4. cpu \notin EsperaRta
    BY <2>2, Atendible DEF Pidio, Pidiendo, EsperaRta, ConRespuesta
  <2>5. PICK h \in Hilos : h = H
    BY <2>2, Atendible
  <2>6. FhInicio(Dispatch, h, FALSE)
    BY <2>1, <2>3, <2>5
  <2>7. dump[h] = "nada" /\ \A m \in Mutexes : h \notin ToSet(bloqueadosMutex[m])
    BY <2>3, <2>5, FueraDeMutex
  <2>8. QED
    BY <1>1, <2>2, <2>4, <2>6, <2>7, InicioDispatchDisciplinado
<1>3. CASE AtiendeThreadCancel
  <2>1. Llega("THREAD_CANCEL") /\ FhInicio(Dispatch, <<P, Pedida.arg>>, TRUE)
    BY <1>3 DEF AtiendeThreadCancel
  <2>2. aKernel # <<>> /\ aKernel' = <<>> /\ Pedida.instr = "THREAD_CANCEL" /\ fh[Dispatch].fase = "nada"
    BY <2>1, LlegaDe
  <2>3. H = contexto
    BY <2>2, Atendible
  <2>4. /\ <<P, Pedida.arg>> # H /\ dump[<<P, Pedida.arg>>] = "nada"
        /\ \A m \in Mutexes : <<P, Pedida.arg>> \notin ToSet(bloqueadosMutex[m])
    BY <2>2 DEF Disciplinados, PedidoCorrecto
  <2>5. PICK h : h = <<P, Pedida.arg>>
    OBVIOUS
  <2>6. FhInicio(Dispatch, h, TRUE) /\ h # contexto /\ dump[h] = "nada"
        /\ \A m \in Mutexes : h \notin ToSet(bloqueadosMutex[m])
    BY <2>1, <2>3, <2>4, <2>5
  <2>7. QED
    BY <1>1, <2>2, <2>6, InicioDispatchDisciplinado
<1>4. QED
  BY <1>2, <1>3

\* MUTEX_LOCK, where the thread that asks may wait, and MUTEX_UNLOCK.
LEMMA AtiendeMutexDisciplinado ==
  ASSUME Sano, Disciplinados, Lugares', AtiendeMutexLock \/ AtiendeMutexUnlock
  PROVE  Disciplinados'
<1>1. /\ UNCHANGED <<salidos, siguienteTid, fh, cpu, contexto, mutexes, dump>>
      /\ AtiendeMutexLock => caido' = caido
  BY DEF AtiendeMutexLock, AtiendeMutexUnlock, vPcb, vDump, vCpu
<1>2. Creados' = Creados
  BY <1>1 DEF Creados
<1>3. aKernel # <<>> /\ aKernel' = <<>>
  BY LlegaDe DEF AtiendeMutexLock, AtiendeMutexUnlock
<1>4. IdLeido(H) = {H} /\ H \in Vivos /\ H \in Hilos /\ P \in Pids /\ Pedida \in MensajesKernel
  BY <1>3, Atendible
<1>5. CASE AtiendeMutexUnlock
  <2>1. /\ <<P, Pedida.arg>> \in mutexes
        /\ \/ Protocolo(<<P, Pedida.arg>>, SinRecurso(H, <<P, Pedida.arg>>), TRUE)
           \/ UNCHANGED <<bloqueadosMutex, caido>>
    BY <1>5 DEF AtiendeMutexUnlock
  <2>2. PICK m \in Mutexes : m = <<P, Pedida.arg>>
    BY <2>1 DEF Sano, TypeOK, TipoMutex
  <2>3. PICK asig : asig = SinRecurso(H, <<P, Pedida.arg>>)
    OBVIOUS
  <2>4. Protocolo(m, asig, TRUE) \/ UNCHANGED <<bloqueadosMutex, caido>>
    BY <2>1, <2>2, <2>3
  <2>5. /\ caido' = caido
        /\ \A n \in Mutexes : ToSet(bloqueadosMutex'[n]) \subseteq ToSet(bloqueadosMutex[n])
    BY <2>4, ProtocoloDisciplinado
  <2>6. QED
    BY <1>1, <1>2, <1>3, <2>5, IgualDisciplinado
<1>6. CASE AtiendeMutexLock
  <2>1. /\ <<P, Pedida.arg>> \in mutexes
        /\ \/ \E v \in IdLeido(H) :
                bloqueadosMutex' = [bloqueadosMutex EXCEPT ![<<P, Pedida.arg>>] = Append(@, v)]
           \/ bloqueadosMutex' = bloqueadosMutex
    BY <1>6 DEF AtiendeMutexLock
  <2>2. PICK m \in Mutexes : m = <<P, Pedida.arg>>
    BY <2>1 DEF Sano, TypeOK, TipoMutex
  <2>3. PICK h \in Hilos : h = H
    BY <1>4
  <2>4. \/ bloqueadosMutex' = [bloqueadosMutex EXCEPT ![m] = Append(@, h)]
        \/ bloqueadosMutex' = bloqueadosMutex
    BY <1>4, <2>1, <2>2, <2>3
  <2>5. Salientes' = Salientes
    BY <1>1 DEF Salientes, Saliendo
  <2>6. Vivos' = Vivos
    BY <1>1, <1>2, <2>5, VivosSon, VivosSonDespues DEF Sano
  <2>7. \A n \in Mutexes : ToSet(bloqueadosMutex'[n]) \subseteq ToSet(bloqueadosMutex[n]) \cup {h}
    <3>1. CASE bloqueadosMutex' = bloqueadosMutex
      BY <3>1
    <3>2. CASE bloqueadosMutex' = [bloqueadosMutex EXCEPT ![m] = Append(@, h)]
      <4>1. bloqueadosMutex[m] \in Seq(Hilos \cup {Nadie}) /\ h \in Hilos \cup {Nadie}
        BY DEF Sano, TypeOK, TipoMutex
      <4>2. ToSet(Append(bloqueadosMutex[m], h)) = ToSet(bloqueadosMutex[m]) \cup {h}
        BY ONLY <4>1, AppendElementos
      <4>3. QED
        BY <3>2, <4>2 DEF Sano, TypeOK, TipoMutex
    <3>3. QED
      BY <2>4, <3>1, <3>2
  <2>8. \A n \in Mutexes : ToSet(bloqueadosMutex'[n]) \subseteq Vivos'
    BY <1>4, <2>3, <2>6, <2>7 DEF Disciplinados
  <2>9. QED
    BY <1>1, <1>3, <1>6, <2>6, <2>8 DEF Disciplinados, EnMarcha
<1>7. QED
  BY <1>5, <1>6

\* DUMP_MEMORY of a thread alive.
LEMMA AtiendeDumpDisciplinado ==
  ASSUME Sano, Disciplinados, Lugares', AtiendeDump
  PROVE  Disciplinados'
<1>1. /\ Llega("DUMP_MEMORY") /\ dump' = [dump EXCEPT ![H] = "bloquear"]
      /\ UNCHANGED <<salidos, siguienteTid, fh, cpu, contexto, mutexes, bloqueadosMutex, caido>>
  BY DEF AtiendeDump, vPcb, vMutex, vCpu
<1>2. aKernel # <<>> /\ aKernel' = <<>>
  BY <1>1, LlegaDe
<1>3. PICK h \in Hilos : h = H /\ h \in Vivos
  BY <1>2, Atendible
<1>4. dump' = [dump EXCEPT ![h] = "bloquear"]
  BY <1>1, <1>3
<1>5. Vivos' = Vivos
  <2>1. Salientes' = Salientes /\ Creados' = Creados
    BY <1>1 DEF Salientes, Saliendo, Creados
  <2>2. QED
    BY <1>1, <2>1, VivosSon, VivosSonDespues DEF Sano
<1>6. \A g \in Hilos : dump'[g] # "nada" => g \in Vivos'
  BY <1>3, <1>4, <1>5 DEF Disciplinados, Sano, TypeOK, TipoDump
<1>7. QED
  BY <1>1, <1>2, <1>5, <1>6 DEF Disciplinados, EnMarcha

\* Requests that end nobody and wait for no mutex.
LEMMA AtiendeRestoDisciplinado ==
  ASSUME Sano, Disciplinados, Lugares',
         \/ AtiendeProcessExit \/ AtiendeProcessCreate \/ AtiendeThreadCreate \/ AtiendeThreadJoin
         \/ AtiendeMutexCreate \/ AtiendeDesalojo
  PROVE  Disciplinados'
<1> USE DEF vListas, vPcb, vMutex, vDump, vCpu
<1>1. aKernel' = <<>>
  <2>1. CASE AtiendeDesalojo
    <3>1. aKernel # <<>> /\ aKernel' = Tail(aKernel)
      BY <2>1 DEF AtiendeDesalojo
    <3>2. QED
      BY <3>1, Atendible
  <2>2. QED
    BY <2>1, LlegaDe DEF AtiendeProcessExit, AtiendeProcessCreate, AtiendeThreadCreate, AtiendeThreadJoin,
       AtiendeMutexCreate
<1>2. /\ UNCHANGED <<salidos, fh, cpu, contexto, bloqueadosMutex, dump>>
      /\ mutexes \subseteq mutexes'
      /\ AtiendeThreadCreate \/ caido' = caido
  BY DEF AtiendeProcessExit, AtiendeProcessCreate, AtiendeThreadCreate, AtiendeThreadJoin, AtiendeMutexCreate,
         AtiendeDesalojo
<1>3. AtiendeThreadCreate => caido' = caido
  <2>1. SUFFICES ASSUME AtiendeThreadCreate PROVE caido' = caido
    OBVIOUS
  <2>2. aKernel # <<>>
    BY <2>1, LlegaDe DEF AtiendeThreadCreate
  <2>3. P \in pcbMem /\ P \in memProc
    BY <2>2, Atendible
  <2>4. QED
    BY <2>1, <2>3 DEF AtiendeThreadCreate
<1>4. Creados \subseteq Creados'
  <2>1. \/ siguienteTid' = siguienteTid
        \/ siguienteTid' = [siguienteTid EXCEPT ![siguientePid] = @ + 1]
        \/ siguienteTid' = [siguienteTid EXCEPT ![P] = @ + 1]
    BY DEF AtiendeProcessExit, AtiendeProcessCreate, AtiendeThreadCreate, AtiendeThreadJoin, AtiendeMutexCreate,
           AtiendeDesalojo, CrearTcb
  <2>2. PICK q, r : q = siguientePid /\ r = P
    OBVIOUS
  <2>3. \/ siguienteTid' = siguienteTid
        \/ siguienteTid' = [siguienteTid EXCEPT ![q] = @ + 1]
        \/ siguienteTid' = [siguienteTid EXCEPT ![r] = @ + 1]
    BY <2>1, <2>2
  <2>4. CASE siguienteTid' = siguienteTid
    BY <2>4 DEF Creados
  <2>5. QED
    BY <2>3, <2>4, MasTids DEF Sano
<1>5. QED
  BY <1>1, <1>2, <1>3, <1>4, IgualDisciplinado

\* What the handler of the dispatch connection serves to disciplined programs.
LEMMA AtiendeDisciplinado ==
  ASSUME Sano, Disciplinados, Lugares', Atiende
  PROVE  Disciplinados'
<1>1. ~EsperaPcb /\ ~AtiendeInvalido /\ ~AtiendeExitRepetido /\ ~AtiendeMutexSinPcb
  BY AtendidoSinError
<1>2. ~AtiendeMutexInexistente
  <2>1. SUFFICES ASSUME AtiendeMutexInexistente PROVE FALSE
    OBVIOUS
  <2>2. aKernel # <<>> /\ Pedida.instr \in {"MUTEX_LOCK", "MUTEX_UNLOCK"}
    BY <2>1, LlegaDe DEF AtiendeMutexInexistente
  <2>3. QED
    BY <2>1, <2>2 DEF AtiendeMutexInexistente, Disciplinados, PedidoCorrecto
<1>3. QED
  BY <1>1, <1>2, AtiendeFinesDisciplinado, AtiendeMutexDisciplinado, AtiendeDumpDisciplinado,
     AtiendeRestoDisciplinado DEF Atiende

\* The detached scheduling pass.
LEMMA PcpSueltoDisciplinado ==
  ASSUME Sano, Disciplinados, Lugares', PcpSuelto
  PROVE  Disciplinados'
<1>1. UNCHANGED <<salidos, siguienteTid, fh, caido, cpu, contexto, bloqueadosMutex, dump, mutexes, aKernel>>
  BY DEF PcpSuelto, vPcb, vMutex, vDump, vCpu
<1>2. Creados' = Creados
  BY <1>1 DEF Creados
<1>3. QED
  BY <1>1, <1>2, IgualDisciplinado

\* No step of disciplined programs crashes anything or leaves the CPU without its thread.
LEMMA PasoDisciplinado ==
  ASSUME FinLimpio, Disciplina = TRUE, IInv, Lugares, Ordenados, Disciplinados, [Next]_vars
  PROVE  Disciplinados'
<1>1. Lugares'
  BY PasoLugares DEF IInv
<1>2. CASE Next
  <2>1. Sano
    BY <1>2, SoloEnMarcha DEF Sano, Ordenados, IInv
  <2>2. CASE Atiende
    BY <1>1, <2>1, <2>2, AtiendeDisciplinado
  <2>3. CASE Cpu \/ Programa
    BY <1>1, <2>1, <2>3, CpuPasoDisciplinado
  <2>4. CASE PcpSuelto
    BY <1>1, <2>1, <2>4, PcpSueltoDisciplinado
  <2>5. ASSUME NEW e \in Ejecutores, FinalizarHilo(e) PROVE Disciplinados'
    BY <1>1, <2>1, <2>5, FinalizarHiloDisciplinado
  <2>6. ASSUME NEW h \in Hilos, DumpMemory(h) PROVE Disciplinados'
    BY <1>1, <2>1, <2>6, DumpMemoryDisciplinado
  <2>7. ASSUME NEW p \in Pids, FinalizarProceso(p) PROVE Disciplinados'
    BY <1>1, <2>1, <2>7, FinalizarProcesoDisciplinado
  <2>8. QED
    BY ONLY <1>2, <2>2, <2>3, <2>4, <2>5, <2>6, <2>7 DEF Next
<1>3. CASE UNCHANGED vars
  <2>1. UNCHANGED <<ready, exec, blocked, caido, cpu, contexto, bloqueadosMutex, dump, mutexes, aKernel>>
    BY <1>3 DEF vars, vListas, vMutex, vDump, vCpu
  <2>2. Vivos' = Vivos
    BY <2>1, VivosExisten DEF Vivos, Activos, Colas
  <2>3. QED
    BY <2>1, <2>2 DEF Disciplinados, EnMarcha, PedidoCorrecto, Pedida, H, P
<1>4. QED
  BY <1>2, <1>3

\* Nobody waits at the start.
LEMMA InicioDisciplinados ==
  ASSUME Init
  PROVE  Disciplinados
<1>1. /\ EnMarcha /\ cpu = "libre" /\ aKernel = <<>>
      /\ \A m \in Mutexes : bloqueadosMutex[m] = <<>>
      /\ \A h \in Hilos : dump[h] = "nada"
  BY DEF Init, EnMarcha
<1>2. ToSet(<<>>) = {}
  BY DEF ToSet
<1>3. QED
  BY <1>1, <1>2 DEF Disciplinados, EsperaRta

(* The kernel never crashes with disciplined programs, which end their processes
   in order, use mutexes that exist and cancel no thread that waits; nor does the
   CPU hang, with a program or behind an EJECUTAR it cannot take. *)
THEOREM DisciplinaSinCaidas == ASSUME FinLimpio, Disciplina = TRUE PROVE Spec => []SinCaidas
<1>1. Init => IInv /\ Lugares /\ Ordenados /\ Disciplinados
  BY InicioCumple, InicioLugares, InicioOrdenados, InicioDisciplinados
<1>2. (IInv /\ Lugares /\ Ordenados /\ Disciplinados) /\ [Next]_vars
        => (IInv /\ Lugares /\ Ordenados /\ Disciplinados)'
  BY PasoPreserva, PasoLugares, PasoOrdenados, PasoDisciplinado DEF IInv
<1>3. IInv /\ Lugares /\ Ordenados /\ Disciplinados => SinCaidas
  <2> SUFFICES ASSUME Turno, Disciplinados, cpu \in EsperaRta, aCpu # <<>>, Head(aCpu).op = "EJECUTAR"
               PROVE  FALSE
    BY DEF Ordenados, SinCaidas, Disciplinados
  <2>1. \A r : Head(<<Rta(r)>>).op = "RTA" /\ \A h : Head(<<Rta(r), Ejecutar(h)>>).op = "RTA"
    BY Cortas DEF Rta
  <2>2. ~SinHilo
    BY DEF SinHilo, Disciplinados
  <2>3. ~Cedido
    BY <2>1, EnviadoEs DEF Cedido
  <2>4. ~Respondido
    BY <2>1 DEF Respondido
  <2>5. QED
    BY <2>2, <2>3, <2>4 DEF Turno, Libre, Pidio, Corriendo, Pidiendo, Cancelando, EsperaRta
<1>4. QED
  BY <1>1, <1>2, <1>3, PTL DEF Spec

\* What a step may do to the waiters of a mutex, while its first one does not own it.
HeredaElPrimero ==
  \A m \in Mutexes :
    LET w == Head(bloqueadosMutex[m])
    IN  (/\ bloqueadosMutex[m] # <<>> /\ duenio[m] # w
         /\ bloqueadosMutex'[m] = Tail(bloqueadosMutex[m]))
        => duenio'[m] = w /\ w \in ToSet(ready') \cup ToSet(exec')

\* The queues that do not change, or grow, are not about anybody leaving.
LEMMA NadieHereda ==
  ASSUME Sano, Disciplinados, NEW m \in Mutexes, bloqueadosMutex[m] # <<>>
  PROVE  /\ bloqueadosMutex[m] # Tail(bloqueadosMutex[m])
         /\ \A v \in Hilos : Append(bloqueadosMutex[m], v) # Tail(bloqueadosMutex[m])
<1> DEFINE s == bloqueadosMutex[m]
<1>1. s \in Seq(Hilos \cup {Nadie}) /\ s # <<>>
  BY DEF Sano, TypeOK, TipoMutex
<1> HIDE DEF s
<1>2. Len(s) \in Nat /\ Len(Tail(s)) = Len(s) - 1
  BY <1>1
<1>3. ASSUME NEW v \in Hilos PROVE Append(s, v) # Tail(s)
  <2>1. Len(Append(s, v)) = Len(s) + 1
    BY <1>1
  <2>2. Len(Append(s, v)) # Len(Tail(s))
    BY <1>2, <2>1
  <2>3. QED
    BY <2>2
<1>4. Len(s) # Len(Tail(s))
  BY <1>2
<1>5. s # Tail(s)
  BY <1>4
<1>6. QED
  BY <1>3, <1>5 DEF s

\* protocolo_liberacion_recurso gives the mutex to the first waiter, awake.
LEMMA ProtocoloHereda ==
  ASSUME Sano, Disciplinados, NEW m \in Mutexes, NEW asig, NEW rta \in BOOLEAN, Protocolo(m, asig, rta),
         salidos' = salidos
  PROVE  HeredaElPrimero
<1>1. CASE bloqueadosMutex[m] = <<>>
  <2>1. bloqueadosMutex' = bloqueadosMutex
    BY <1>1 DEF Protocolo
  <2>2. QED
    BY <2>1, NadieHereda DEF HeredaElPrimero
<1>2. CASE bloqueadosMutex[m] # <<>>
  <2>1. PICK w \in Hilos : w = Heredero(m) /\ w \in Vivos /\ w \in blocked
    BY <1>2, HerederoVive, VivosSon DEF Sano, Heredero
  <2>2. /\ bloqueadosMutex' = [bloqueadosMutex EXCEPT ![m] = Tail(@)]
        /\ blocked' = blocked \ {w} /\ duenio' = [duenio EXCEPT ![m] = w]
    BY <1>2, <2>1, VivosExisten DEF Protocolo
  <2>3. duenio'[m] = w
    BY <2>2 DEF Sano, TypeOK, TipoMutex
  <2>4. MismosVivos
    BY ProtocoloElementos DEF Sano
  <2>5. w \in Activos(Colas') \cup blocked'
    BY <2>1, <2>4 DEF MismosVivos
  <2>6. w \in ToSet(ready') \cup ToSet(exec')
    BY <2>2, <2>5 DEF Activos, Colas
  <2>7. \A n \in Mutexes : n # m => bloqueadosMutex'[n] = bloqueadosMutex[n]
    BY <2>2 DEF Sano, TypeOK, TipoMutex
  <2>8. QED
    BY <2>1, <2>3, <2>6, <2>7, NadieHereda DEF HeredaElPrimero, Heredero
<1>3. QED
  BY <1>1, <1>2

\* The steps that change who waits for a mutex.
LEMMA QuienesTocan ==
  ASSUME Next
  PROVE  \/ bloqueadosMutex' = bloqueadosMutex
         \/ \E e \in Ejecutores : FhTomar(e) \/ FhMutex(e)
         \/ AtiendeMutexLock \/ AtiendeMutexUnlock
<1> USE DEF vMutex
<1>1. CASE Atiende
  BY <1>1 DEF Atiende, EsperaPcb, AtiendeInvalido, AtiendeExitRepetido, AtiendeProcessExit, AtiendeProcessCreate,
         AtiendeThreadCreate, AtiendeThreadJoin, AtiendeThreadCancel, AtiendeThreadExit, AtiendeMutexSinPcb,
         AtiendeMutexCreate, AtiendeMutexInexistente, AtiendeDump, AtiendeDesalojo
<1>2. CASE Cpu \/ Programa
  BY <1>2 DEF Cpu, Programa, CpuRecibeEjecutar, CpuRecibeRta, CpuGuarda, CpuSinHilo, CpuSyscall,
              CpuSegmentationFault
<1>3. CASE \E e \in Ejecutores : FinalizarHilo(e)
  BY <1>3 DEF FinalizarHilo, FhSalir, FhJoin, FhFin
<1>4. CASE \E h \in Hilos : DumpMemory(h)
  BY <1>4 DEF DumpMemory, DumpBloquear, DumpResponder, DumpConcluir
<1>5. CASE \E p \in Pids : FinalizarProceso(p)
  BY <1>5 DEF FinalizarProceso, FinMemoria, FinTomar, FinHilo, FinCero, FinReplanificar, FinSalir
<1>6. CASE PcpSuelto
  BY <1>6 DEF PcpSuelto
<1>7. QED
  BY <1>1, <1>2, <1>3, <1>4, <1>5, <1>6 DEF Next

(* With disciplined programs, which cancel nobody that waits, the first waiter of
   a mutex leaves its queue only to own it, in READY or in EXEC. *)
THEOREM MutexPasaAlPrimero == ASSUME FinLimpio, Disciplina = TRUE PROVE Spec => MutexAlPrimero
<1>1. Init => IInv /\ Lugares /\ Ordenados /\ Disciplinados
  BY InicioCumple, InicioLugares, InicioOrdenados, InicioDisciplinados
<1>2. (IInv /\ Lugares /\ Ordenados /\ Disciplinados) /\ [Next]_vars
        => (IInv /\ Lugares /\ Ordenados /\ Disciplinados)'
  BY PasoPreserva, PasoLugares, PasoOrdenados, PasoDisciplinado DEF IInv
<1>3. IInv /\ Lugares /\ Ordenados /\ Disciplinados /\ [Next]_vars => [HeredaElPrimero]_vars
  <2> SUFFICES ASSUME IInv, Lugares, Ordenados, Disciplinados, Next PROVE HeredaElPrimero
    OBVIOUS
  <2>1. Sano
    BY SoloEnMarcha DEF Sano, Ordenados, IInv
  <2>2. CASE bloqueadosMutex' = bloqueadosMutex
    BY <2>1, <2>2, NadieHereda DEF HeredaElPrimero
  <2>3. ASSUME NEW e \in Ejecutores, FhTomar(e) PROVE HeredaElPrimero
    <3>1. /\ fh[e].fase = "pedido"
          /\ bloqueadosMutex' = [m \in Mutexes |->
               IF m \in ToSet(fh[e].mutexes) THEN RemoveFirst(bloqueadosMutex[m], fh[e].hilo)
                                             ELSE bloqueadosMutex[m]]
      BY <2>3 DEF FhTomar
    <3>2. fh[e].hilo \notin Vivos
      BY <2>1, <3>1, FhEs
    <3>3. ASSUME NEW m \in Mutexes PROVE RemoveFirst(bloqueadosMutex[m], fh[e].hilo) = bloqueadosMutex[m]
      <4>1. bloqueadosMutex[m] \in Seq(Hilos \cup {Nadie}) /\ fh[e].hilo \notin ToSet(bloqueadosMutex[m])
        BY <2>1, <3>2 DEF Sano, TypeOK, TipoMutex, Disciplinados
      <4>2. QED
        BY ONLY <4>1, RemoveFirstAjeno
    <3>4. QED
      BY <2>1, <3>1, <3>3, NadieHereda DEF HeredaElPrimero
  <2>4. ASSUME NEW e \in Ejecutores, FhMutex(e) PROVE HeredaElPrimero
    <3>1. /\ fh[e].fase = "mutexes" /\ fh[e].mutexes # <<>> /\ salidos' = salidos
          /\ Protocolo(Head(fh[e].mutexes), asignados, FALSE)
      BY <2>4 DEF FhMutex
    <3>2. PICK m \in Mutexes : m = Head(fh[e].mutexes)
      BY <2>1, <3>1, PrimerMutex
    <3>3. QED
      BY <2>1, <3>1, <3>2, ProtocoloHereda
  <2>5. CASE AtiendeMutexUnlock
    <3>1. /\ <<P, Pedida.arg>> \in mutexes /\ salidos' = salidos
          /\ \/ Protocolo(<<P, Pedida.arg>>, SinRecurso(H, <<P, Pedida.arg>>), TRUE)
             \/ bloqueadosMutex' = bloqueadosMutex
      BY <2>5 DEF AtiendeMutexUnlock
    <3>2. PICK m \in Mutexes : m = <<P, Pedida.arg>>
      BY <2>1, <3>1 DEF Sano, TypeOK, TipoMutex
    <3>3. PICK asig : asig = SinRecurso(H, <<P, Pedida.arg>>)
      OBVIOUS
    <3>4. Protocolo(m, asig, TRUE) \/ bloqueadosMutex' = bloqueadosMutex
      BY <3>1, <3>2, <3>3
    <3>5. QED
      BY <2>1, <2>2, <3>1, <3>4, ProtocoloHereda
  <2>6. CASE AtiendeMutexLock
    <3>1. aKernel # <<>>
      BY <2>1, <2>6, LlegaDe DEF AtiendeMutexLock
    <3>2. IdLeido(H) = {H} /\ H \in Hilos
      BY <2>1, <3>1, Atendible
    <3>3. PICK h \in Hilos : h = H
      BY <3>2
    <3>4. <<P, Pedida.arg>> \in Mutexes
      BY <2>1, <2>6 DEF AtiendeMutexLock, Sano, TypeOK, TipoMutex
    <3>5. PICK n \in Mutexes : n = <<P, Pedida.arg>>
      BY <3>4
    <3>6. \/ bloqueadosMutex' = [bloqueadosMutex EXCEPT ![n] = Append(@, h)]
          \/ bloqueadosMutex' = bloqueadosMutex
      BY <2>6, <3>2, <3>3, <3>5 DEF AtiendeMutexLock
    <3>7. \A m \in Mutexes : bloqueadosMutex'[m] \in {bloqueadosMutex[m], Append(bloqueadosMutex[m], h)}
      BY <2>1, <3>6 DEF Sano, TypeOK, TipoMutex
    <3>8. QED
      BY <2>1, <3>7, NadieHereda DEF HeredaElPrimero
  <2>7. QED
    BY ONLY <2>2, <2>3, <2>4, <2>5, <2>6, QuienesTocan, Next
<1>4. QED
  BY <1>1, <1>2, <1>3, PTL DEF Spec, MutexAlPrimero, HeredaElPrimero
=============================================================================
