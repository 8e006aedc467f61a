-------------------------- MODULE MultinivelProofs --------------------------
(***************************************************************************)
(* Theorems about Multinivel, for any number of threads, priorities,       *)
(* detached threads, timers and messages, whether or not interruptions     *)
(* arrive on time: the variables keep their types, no scheduling pass of   *)
(* the multilevel queues is lost, and nobody is overtaken in them by the   *)
(* pass that found it waiting when it locked EXEC.  With interruptions on  *)
(* time, the thread that computes is the one in EXEC, and with one IO at a *)
(* time between the queue and its size, one is slept at a time and the     *)
(* kernel does not fall.                                                   *)
(***************************************************************************)
EXTENDS Multinivel, SecuenciasProofs, FiniteSetTheorems

-----------------------------------------------------------------------------
(* The inductive invariant. *)

DeCola(p) == {h \in Hilos : Prioridad[h] = p}

\* The lists of the kernel.  Each thread waits in the queue of its priority.
Listas ==
  /\ colas \in [Prioridades -> Seq(Hilos)]
  /\ \A p \in Prioridades : colas[p] \in Seq(DeCola(p))
  /\ exec \in Seq(Hilos) /\ blocked \in Seq(Hilos) /\ colaIO \in Seq(Hilos)
  /\ salidos \subseteq Hilos /\ creados \subseteq Hilos

Pasos == PasosPcp \cup PasosIO \cup {"libre", "desalojar", "reubicar"}

Registro == [paso : Pasos, hilo : Hilos \cup {Nadie}, toma : Hilos \cup {Nadie},
             luego : {"libre", "mirarIO", "seguir", "dormir"}, colgado : BOOLEAN,
             faltan : SUBSET Prioridades, vistas : SUBSET Prioridades]

\* What a thread of the kernel has to know of at the step it is at, and after the
\* pass it is in; out of its walks it has every queue before it.
Sabe(r) ==
  /\ r.paso \in PasosIO \cup {"desalojar", "reubicar"} => r.hilo \in Hilos
  /\ r.paso \in PasosPcp /\ r.luego # "libre" => r.hilo \in Hilos
  /\ r.paso \in {"enviar", "armar"} => r.toma \in Hilos
  /\ r.faltan # {} /\ (r.paso \notin {"mirar", "recorrer"} => r.faltan = Prioridades)
  /\ r.paso \notin {"recorrer", "sacar"} => r.vistas = {}

HilosDelKernel == hebras \in [Hebras -> Registro] /\ \A i \in Hebras : Sabe(hebras[i])

\* A timer asleep is of somebody.
Relojes ==
  /\ flag \in [Hilos -> BOOLEAN] /\ armados \in [Hilos -> 0 .. MaxTemporizadores]
  /\ ultimo \in Hilos \cup {Nadie} /\ alDia \in BOOLEAN
  /\ dormidos \in Nat /\ (dormidos > 0 => ultimo \in Hilos)

Interrupciones ==
  /\ vencidos \in Seq(Hilos) /\ gestor \in Hilos \cup {Nadie}
  /\ aInterrupt \in Seq(Hilos \cup {Nadie})
  /\ llego \in 0 .. MaxContextos /\ acepta \in BOOLEAN /\ interrupt \in BOOLEAN

MensajesCpu == [op : {"EJECUTAR"}, hilo : Hilos] \cup [op : {"RTA"}, hilo : {Nadie}]
MensajesKernel == [op : Peticiones, hilo : Hilos \cup {Nadie}]

Conexion ==
  /\ aCpu \in Seq(MensajesCpu) /\ aKernel \in Seq(MensajesKernel)
  /\ cpu \in [paso : {"libre", "pide", "corre", "espera", "ciclo", "suelta"},
              hilo : Hilos \cup {Nadie}, op : {"NADA", "IO", "THREAD_CREATE", "MUTEX_UNLOCK"}]
  /\ cpu.paso # "libre" => cpu.hilo \in Hilos
  /\ contexto \in Hilos \cup {Nadie} /\ caido \in BOOLEAN

\* The messages of s with an operation of O: none, at most one.
Sin(s, O) == \A k \in 1 .. Len(s) : s[k].op \notin O
Uno(s, O) == \A k, j \in 1 .. Len(s) : s[k].op \in O /\ s[j].op \in O => k = j

Creacion == {"THREAD_CREATE"}
ConRta == {"THREAD_CREATE", "MUTEX_UNLOCK"}
Rta == {"RTA"}

\* A request with an answer is under way only while the CPU waits for it, alone and
\* not answered yet; and a thread is left to create for each THREAD_CREATE.
Contestar ==
  /\ Uno(aKernel, ConRta) /\ Uno(aCpu, Rta)
  /\ Sin(aKernel, ConRta) \/ Sin(aCpu, Rta)
  /\ cpu.paso # "espera" => Sin(aKernel, ConRta) /\ Sin(aCpu, Rta)
  /\ creados = Hilos => Sin(aKernel, Creacion)

\* A thread of the kernel, r, that is to look at queue p, or has found a queue with
\* somebody and nobody in EXEC.
Acude(r, p) == \/ r.paso \in {"tomar", "recorrer", "sacar", "desalojar", "reubicar"}
               \/ r.paso = "mirar" /\ p \in r.faltan

\* With nobody in EXEC, each queue with somebody has one.
PasadaPorVenir ==
  exec = <<>> /\ ~caido =>
    \A p \in Prioridades : TieneHilos(p) => \E i \in Hebras : Acude(hebras[i], p)

\* The queues that the walk of hebra i has before it, or has found with somebody.
PorVer(i) == hebras[i].vistas \cup (IF hebras[i].paso = "recorrer" THEN hebras[i].faltan ELSE {})

\* One pass walks the queues to take a thread, while EXEC stays empty: the queues it
\* found with somebody still have, and so has it before it, or has found, the queue of
\* each thread that was waiting.
Recorridos ==
  /\ esperaban \subseteq Hilos
  /\ \A i, j \in Hebras : Recorre(i) /\ Recorre(j) => i = j
  /\ \A i \in Hebras : Recorre(i) =>
       /\ exec = <<>>
       /\ \A p \in hebras[i].vistas : TieneHilos(p)
       /\ \A h \in esperaban : EnReady(h) /\ Prioridad[h] \in PorVer(i)

IInv == /\ Listas /\ HilosDelKernel /\ Relojes /\ Interrupciones /\ Conexion
        /\ Contestar /\ PasadaPorVenir /\ Recorridos

-----------------------------------------------------------------------------
(* Lemmas about the sequences of messages and the sets of the model. *)

\* A message sent.
LEMMA Enviado ==
  ASSUME NEW S, NEW s \in Seq(S), NEW m \in S, NEW O
  PROVE  /\ Sin(s, O) /\ m.op \notin O => Sin(Append(s, m), O)
         /\ Sin(s, O) => Uno(Append(s, m), O)
         /\ Uno(s, O) /\ m.op \notin O => Uno(Append(s, m), O)
<1> DEFINE t == Append(s, m)
<1>1. /\ Len(s) \in Nat /\ Len(t) = Len(s) + 1 /\ t[Len(s) + 1] = m
      /\ \A k \in 1 .. Len(s) : t[k] = s[k]
  BY AppendProperties, LenProperties
<1> HIDE DEF t
<1>2. Sin(s, O) /\ m.op \notin O => Sin(t, O)
  BY <1>1 DEF Sin
<1>3. Sin(s, O) => Uno(t, O)
  BY <1>1 DEF Sin, Uno
<1>4. Uno(s, O) /\ m.op \notin O => Uno(t, O)
  BY <1>1 DEF Uno
<1>5. QED
  BY <1>2, <1>3, <1>4 DEF t

\* A message received: no other is left if there was at most one and it is this.
LEMMA Recibido ==
  ASSUME NEW S, NEW s \in Seq(S), s # <<>>, NEW O
  PROVE  /\ Head(s) \in S /\ Tail(s) \in Seq(S)
         /\ Sin(s, O) => Sin(Tail(s), O) /\ Head(s).op \notin O
         /\ Uno(s, O) => Uno(Tail(s), O)
         /\ Uno(s, O) /\ Head(s).op \in O => Sin(Tail(s), O)
<1> DEFINE t == Tail(s)
<1>1. /\ Len(s) \in Nat /\ Len(s) > 0 /\ Head(s) \in S /\ t \in Seq(S) /\ Len(t) = Len(s) - 1
      /\ \A k \in 1 .. Len(t) : t[k] = s[k + 1]
  BY HeadTailProperties, LenProperties, EmptySeq
<1>2. Head(s) = s[1] /\ 1 \in 1 .. Len(s) /\ \A k \in 1 .. Len(t) : k + 1 \in 1 .. Len(s)
  BY <1>1
<1> HIDE DEF t
<1>3. Sin(s, O) => Sin(t, O) /\ Head(s).op \notin O
  BY <1>1, <1>2 DEF Sin
<1>4. ASSUME Uno(s, O) PROVE Uno(t, O)
  <2>1. SUFFICES ASSUME NEW k \in 1 .. Len(t), NEW j \in 1 .. Len(t), t[k].op \in O, t[j].op \in O
                 PROVE  k = j
    BY DEF Uno
  <2>2. t[k] = s[k + 1] /\ t[j] = s[j + 1] /\ k + 1 \in 1 .. Len(s) /\ j + 1 \in 1 .. Len(s)
    BY <1>1, <1>2
  <2>3. k + 1 = j + 1
    BY <1>4, <2>1, <2>2 DEF Uno
  <2>4. QED
    BY <2>3
<1>5. ASSUME Uno(s, O), Head(s).op \in O PROVE Sin(t, O)
  <2>1. SUFFICES ASSUME NEW k \in 1 .. Len(t), t[k].op \in O PROVE FALSE
    BY DEF Sin
  <2>2. k + 1 = 1
    BY <1>1, <1>2, <1>5, <2>1 DEF Uno
  <2>3. QED
    BY <1>1, <2>2
<1>6. QED
  BY <1>1, <1>3, <1>4, <1>5 DEF t

\* Rta and ConRta: none is at most one, and a creation is one of them.
LEMMA SinUno ==
  ASSUME NEW s
  PROVE  /\ \A O : Sin(s, O) => Uno(s, O)
         /\ Sin(s, ConRta) => Sin(s, Creacion)
  BY DEF Sin, Uno, ConRta, Creacion

\* The numbers of the threads, the priorities and the detached threads are naturals.
LEMMA Numeros ==
  /\ Hilos \subseteq Nat /\ 1 \in Hilos /\ Nadie \notin Hilos
  /\ Prioridades \subseteq Nat /\ \A h \in Hilos : Prioridad[h] \in Prioridades
  /\ Hebras \subseteq Nat /\ 0 \in Hebras /\ 1 \in Hebras
<1>1. Cardinality(Hilos) \in Nat
  BY HilosAssumption, FS_CardinalityType
<1>2. Hilos \subseteq Nat /\ 1 \in Hilos /\ Nadie \notin Hilos
  BY <1>1, HilosAssumption DEF Nadie
<1>3. QED
  BY <1>2, HilosAssumption, CotasAssumption DEF Prioridades, Hebras

\* The detached thread that crear_tcb or an IO starts was free.
LEMMA NuevaLibre ==
  ASSUME NEW i \in Nueva
  PROVE  i \in Hebras /\ i # 0 /\ hebras[i].paso = "libre"
<1>1. Libres # {} /\ i = Min(Libres) /\ Libres \in SUBSET Nat
  BY Numeros DEF Nueva, Libres
<1>2. i \in Libres
  BY <1>1, MinPertenece
<1>3. QED
  BY <1>2 DEF Libres

\* The next queue of a walk is one of those left.
LEMMA LaProxima ==
  ASSUME NEW ps \in SUBSET Prioridades, ps # {}
  PROVE  Proxima(ps) \in ps
<1> DEFINE S == {h \in Hilos : Prioridad[h] \in ps}
<1>1. S \in SUBSET Nat /\ S # {}
  BY Numeros DEF Prioridades
<1>2. Min(S) \in S
  BY <1>1, MinPertenece
<1>3. QED
  BY <1>2 DEF Proxima

\* Of the queues found with somebody, none has a lower number than the chosen.
LEMMA LaMejor ==
  ASSUME NEW ps \in SUBSET Prioridades, ps # {}
  PROVE  MejorCola(ps) \in ps /\ \A q \in ps : MejorCola(ps) <= q
<1>1. ps \in SUBSET Nat
  BY Numeros
<1>2. QED
  BY <1>1, MinPertenece DEF MejorCola

\* A thread is chosen, of the priority of its queue.
LEMMA Elegible ==
  ASSUME Listas, NEW p \in Prioridades, TieneHilos(p)
  PROVE  /\ Head(colas[p]) \in Hilos /\ Prioridad[Head(colas[p])] = p
         /\ Tail(colas[p]) \in Seq(Hilos) /\ Tail(colas[p]) \in Seq(DeCola(p))
<1>1. colas[p] \in Seq(Hilos) /\ colas[p] \in Seq(DeCola(p)) /\ colas[p] # <<>>
  BY DEF Listas, TieneHilos
<1>2. QED
  BY <1>1, HeadTailProperties DEF DeCola

\* What a pass takes, if it takes somebody: the first of the best queue it found.
LEMMA Sacado ==
  ASSUME IInv, NEW i \in Hebras, PcpSacar(i), ~UNCHANGED exec
  PROVE  LET p == MejorCola(hebras[i].vistas) IN
           /\ p \in Prioridades /\ TieneHilos(p) /\ p \in hebras[i].vistas
           /\ \A q \in hebras[i].vistas : p <= q
           /\ exec = <<>> /\ exec' = Append(exec, Head(colas[p]))
           /\ colas' = [colas EXCEPT ![p] = Tail(@)]
           /\ hebras' = [hebras EXCEPT ![i].paso = "enviar", ![i].toma = Head(colas[p]), ![i].vistas = {}]
           /\ ~caido'
<1> DEFINE p == MejorCola(hebras[i].vistas)
<1>1. /\ hebras[i].vistas # {} /\ hebras[i].paso = "sacar" /\ ~caido /\ UNCHANGED caido
      /\ exec' = Append(exec, Head(colas[p]))
      /\ colas' = [colas EXCEPT ![p] = Tail(@)]
      /\ hebras' = [hebras EXCEPT ![i].paso = "enviar", ![i].toma = Head(colas[p]), ![i].vistas = {}]
  BY DEF PcpSacar
<1>2. hebras[i].vistas \in SUBSET Prioridades
  BY DEF IInv, HilosDelKernel, Registro
<1>3. exec = <<>> /\ \A q \in hebras[i].vistas : TieneHilos(q)
  BY <1>1 DEF IInv, Recorridos, Recorre
<1>4. p \in hebras[i].vistas /\ \A q \in hebras[i].vistas : p <= q
  BY <1>1, <1>2, LaMejor
<1>5. QED
  BY <1>1, <1>2, <1>3, <1>4

\* A pass that found somebody takes somebody.
LEMMA SacaAlguien ==
  ASSUME IInv, NEW i \in Hebras, PcpSacar(i), UNCHANGED exec
  PROVE  hebras[i].vistas = {} /\ caido' = TRUE /\ UNCHANGED <<colas, hebras>>
<1>1. SUFFICES ASSUME hebras[i].vistas # {} PROVE FALSE
  BY DEF PcpSacar
<1> DEFINE p == MejorCola(hebras[i].vistas)
<1>2. exec' = Append(exec, Head(colas[p]))
  BY <1>1 DEF PcpSacar
<1>3. hebras[i].vistas \in SUBSET Prioridades /\ hebras[i].paso = "sacar"
  BY DEF IInv, HilosDelKernel, Registro, PcpSacar
<1>4. p \in Prioridades /\ TieneHilos(p) /\ exec = <<>>
  BY <1>1, <1>3, LaMejor DEF IInv, Recorridos, Recorre
<1>5. exec \in Seq(Hilos) /\ Head(colas[p]) \in Hilos
  BY <1>4, Elegible DEF IInv, Listas
<1>6. QED
  BY <1>2, <1>4, <1>5, AppendSeq

\* A thread put in its queue.
LEMMA Encolado ==
  ASSUME Listas, NEW h \in Hilos
  PROVE  /\ Encolar(colas, h) \in [Prioridades -> Seq(Hilos)]
         /\ \A p \in Prioridades : Encolar(colas, h)[p] \in Seq(DeCola(p))
<1>1. /\ Prioridad[h] \in Prioridades /\ h \in DeCola(Prioridad[h])
      /\ colas \in [Prioridades -> Seq(Hilos)] /\ \A p \in Prioridades : colas[p] \in Seq(DeCola(p))
  BY Numeros DEF Listas, DeCola
<1>2. /\ Append(colas[Prioridad[h]], h) \in Seq(Hilos)
      /\ Append(colas[Prioridad[h]], h) \in Seq(DeCola(Prioridad[h]))
  BY <1>1, AppendProperties
<1>3. QED
  BY <1>1, <1>2 DEF Encolar

\* A THREAD_CREATE has a thread to create.
LEMMA PorCrear ==
  ASSUME IInv, NEW h \in Hilos, AtiendeThreadCreate(h)
  PROVE  Min(Hilos \ creados) \in Hilos \ creados
<1>1. aKernel # <<>> /\ Head(aKernel).op \in Creacion
  BY DEF AtiendeThreadCreate, Atiende, Mensaje, Creacion
<1>2. ~Sin(aKernel, Creacion)
  BY <1>1, Recibido DEF IInv, Conexion
<1>3. Hilos \ creados # {} /\ Hilos \ creados \in SUBSET Nat
  BY <1>2, Numeros DEF IInv, Contestar, Listas
<1>4. QED
  BY <1>3, MinPertenece

-----------------------------------------------------------------------------
(* Each part of the invariant is kept: one step for each action that can       *)
(* disturb it, and one for all those that leave its variables alone.           *)

LEMMA PasoListas ==
  ASSUME IInv, Next
  PROVE  Listas'
<1>1. ASSUME UNCHANGED <<kernel, colaIO>> PROVE Listas'
  BY <1>1 DEF IInv, Listas, kernel
<1>2. ASSUME NEW i \in Hebras, PcpSacar(i) PROVE Listas'
  <2>1. CASE UNCHANGED exec
    <3>1. UNCHANGED colas
      BY <1>2, <2>1, SacaAlguien
    <3>2. QED
      BY <1>2, <2>1, <3>1 DEF PcpSacar, IInv, Listas
  <2>2. CASE ~UNCHANGED exec
    <3> DEFINE p == MejorCola(hebras[i].vistas)
    <3>1. /\ p \in Prioridades /\ TieneHilos(p)
          /\ exec' = Append(exec, Head(colas[p])) /\ colas' = [colas EXCEPT ![p] = Tail(@)]
      BY <1>2, <2>2, Sacado
    <3> HIDE DEF p
    <3>2. /\ Head(colas[p]) \in Hilos
          /\ Tail(colas[p]) \in Seq(Hilos) /\ Tail(colas[p]) \in Seq(DeCola(p))
      BY <3>1, Elegible DEF IInv
    <3>3. exec' \in Seq(Hilos)
      BY <3>1, <3>2, AppendProperties DEF IInv, Listas
    <3>4. QED
      BY <1>2, <3>1, <3>2, <3>3 DEF PcpSacar, IInv, Listas
  <2>3. QED
    BY <2>1, <2>2
<1>3. ASSUME NEW h \in Hilos, AtiendeThreadCreate(h) PROVE Listas'
  <2>1. Min(Hilos \ creados) \in Hilos
    BY <1>3, PorCrear
  <2>2. QED
    BY <1>3, <2>1, Encolado DEF AtiendeThreadCreate, IInv, Listas
<1>4. ASSUME NEW h \in Hilos, AtiendeThreadExit(h) PROVE Listas'
  BY <1>4, RemoveFirstSeq DEF AtiendeThreadExit, IInv, Listas
<1>5. CASE Desalojar \/ Reubicar
  <2>1. hebras[0].hilo \in Hilos
    BY <1>5, Numeros DEF Desalojar, Reubicar, IInv, HilosDelKernel, Sabe
  <2>2. CASE Desalojar
    BY <2>1, <2>2, RemoveFirstSeq DEF Desalojar, IInv, Listas
  <2>3. CASE Reubicar
    BY <2>1, <2>3, Encolado DEF Reubicar, Desalojado, IInv, Listas
  <2>4. QED
    BY <1>5, <2>2, <2>3
<1>6. ASSUME NEW i \in Hebras, IoAgregar(i) PROVE Listas'
  <2>1. hebras[i].hilo \in Hilos
    BY <1>6 DEF IoAgregar, PasosIO, IInv, HilosDelKernel, Sabe
  <2>2. QED
    BY <1>6, <2>1, AppendProperties DEF IoAgregar, kernel, IInv, Listas
<1>7. ASSUME NEW i \in Hebras, IoBloquear(i) PROVE Listas'
  <2>1. hebras[i].hilo \in Hilos
    BY <1>7 DEF IoBloquear, PasosIO, IInv, HilosDelKernel, Sabe
  <2>2. /\ RemoveFirst(exec, hebras[i].hilo) \in Seq(Hilos)
        /\ Append(blocked, hebras[i].hilo) \in Seq(Hilos)
    BY <2>1, AppendProperties, RemoveFirstSeq DEF IInv, Listas
  <2>3. QED
    BY <1>7, <2>2 DEF IoBloquear, IInv, Listas
<1>8. ASSUME NEW i \in Hebras, IoDormir(i) PROVE Listas'
  BY <1>8, HeadTailProperties DEF IoDormir, kernel, IInv, Listas
<1>9. ASSUME NEW i \in Hebras, IoDespertar(i) PROVE Listas'
  <2>1. hebras[i].hilo \in Hilos
    BY <1>9 DEF IoDespertar, PasosIO, IInv, HilosDelKernel, Sabe
  <2>2. QED
    BY <1>9, <2>1, Encolado, RemoveFirstSeq DEF IoDespertar, IInv, Listas
<1>10. ASSUME NEW i \in Hebras,
              \/ PcpMirar(i) \/ PcpTomar(i) \/ PcpRecorrer(i) \/ PcpEnviar(i) \/ PcpArmar(i)
              \/ IoMirar(i) \/ IoSeguir(i)
       PROVE  UNCHANGED <<kernel, colaIO>>
  BY <1>10 DEF PcpMirar, PcpTomar, PcpRecorrer, PcpEnviar, PcpArmar, IoMirar, IoSeguir
<1>11. ASSUME NEW h \in Hilos,
              \/ TemporizadorEmpieza(h) \/ AtiendeIO(h) \/ AtiendeMutexUnlock(h) \/ AtiendeDesalojo(h)
              \/ \E op \in Peticiones : AtiendeInvalido(op, h)
       PROVE  UNCHANGED <<kernel, colaIO>>
  BY <1>11 DEF TemporizadorEmpieza, AtiendeIO, AtiendeMutexUnlock, AtiendeDesalojo, AtiendeInvalido
<1>12. ASSUME TemporizadorVence \/ Gestor \/ CpuAvanza \/ CpuSyscall \/ Interrupcion
       PROVE  UNCHANGED <<kernel, colaIO>>
  BY <1>12 DEF TemporizadorVence, Gestor, GestorToma, GestorEnvia, CpuAvanza, CpuRecibe, CpuContexto,
     CpuSinContexto, CpuRecibeRta, CpuDesaloja, CpuSigue, CpuSuelta, CpuSyscall, CpuIO, CpuThreadCreate,
     CpuMutexUnlock, CpuThreadExit, Pide, Interrupcion, InterrupcionLlega, InterrupcionMarca
<1>13. QED
  BY <1>1, <1>2, <1>3, <1>4, <1>5, <1>6, <1>7, <1>8, <1>9, <1>10, <1>11, <1>12
     DEF Next, Pcp, Io, AtiendeAlgo

\* One thread of the kernel takes a step.
LEMMA UnaHebra ==
  ASSUME HilosDelKernel, NEW i \in Hebras, NEW r \in Registro, Sabe(r),
         hebras' = [hebras EXCEPT ![i] = r]
  PROVE  HilosDelKernel'
<1>1. hebras' \in [Hebras -> Registro]
  BY DEF HilosDelKernel
<1>2. \A j \in Hebras : Sabe(hebras'[j])
  BY DEF HilosDelKernel
<1>3. QED
  BY <1>1, <1>2 DEF HilosDelKernel, Sabe

LEMMA HebraNueva ==
  ASSUME NEW p \in Pasos, NEW h \in Hilos \cup {Nadie}, p \notin {"enviar", "armar"}, h \in Hilos \/ p \in PasosPcp \cup {"libre"}
  PROVE  Hebra(p, h, "libre") \in Registro /\ Sabe(Hebra(p, h, "libre"))
<1>1. Hebra(p, h, "libre") \in Registro
  BY DEF Hebra, Registro
<1>2. Sabe(Hebra(p, h, "libre"))
  BY Numeros DEF Hebra, Sabe, Pasos, PasosPcp, PasosIO
<1>3. QED
  BY <1>1, <1>2

LEMMA PasoHilosDelKernel ==
  ASSUME IInv, Next
  PROVE  HilosDelKernel'
<1> USE DEF Pasos, PasosPcp, PasosIO
<1>0. /\ HilosDelKernel /\ Listas
      /\ \A i \in Hebras : hebras[i] \in Registro /\ Sabe(hebras[i])
  BY DEF IInv, HilosDelKernel
<1>1. ASSUME UNCHANGED hebras PROVE HilosDelKernel'
  BY <1>0, <1>1 DEF HilosDelKernel, Sabe
<1>2. ASSUME NEW i \in Hebras, PcpMirar(i) PROVE HilosDelKernel'
  <2> DEFINE p == Proxima(hebras[i].faltan)
             r == [hebras[i] EXCEPT !.paso = "tomar", !.faltan = Prioridades]
             t == [hebras[i] EXCEPT !.paso = hebras[i].luego, !.faltan = Prioridades]
             u == [hebras[i] EXCEPT !.faltan = hebras[i].faltan \ {p}]
  <2>1. hebras[i].paso = "mirar" /\ hebras[i] \in Registro /\ Sabe(hebras[i])
    BY <1>0, <1>2 DEF PcpMirar
  <2>2. \/ hebras' = [hebras EXCEPT ![i] = r] \/ hebras' = [hebras EXCEPT ![i] = t]
        \/ hebras' = [hebras EXCEPT ![i] = u] /\ hebras[i].faltan # {p}
    BY <1>0, <1>2 DEF PcpMirar, HilosDelKernel, Registro
  <2>3. r \in Registro /\ Sabe(r) /\ t \in Registro /\ Sabe(t)
    <3>1. Prioridades # {}
      BY Numeros
    <3>2. QED
      BY <2>1, <3>1 DEF Registro, Sabe
  <2>4. ASSUME hebras[i].faltan # {p} PROVE u \in Registro /\ Sabe(u)
    <3>1. hebras[i].faltan \ {p} # {}
      BY <2>1, <2>4 DEF Sabe
    <3>2. QED
      BY <2>1, <3>1 DEF Registro, Sabe
  <2> HIDE DEF r, t, u
  <2>5. QED
    BY <1>0, <2>2, <2>3, <2>4, UnaHebra
<1>3. ASSUME NEW i \in Hebras, PcpTomar(i) \/ PcpRecorrer(i) \/ PcpSacar(i) PROVE HilosDelKernel'
  <2>0. hebras[i] \in Registro /\ Sabe(hebras[i]) /\ Prioridades # {}
    BY <1>0, Numeros
  <2>1. CASE PcpTomar(i)
    <3> DEFINE r == [hebras[i] EXCEPT !.paso = hebras[i].luego]
               t == [hebras[i] EXCEPT !.paso = "recorrer"]
    <3>1. /\ hebras[i].paso = "tomar"
          /\ hebras' = [hebras EXCEPT ![i] = r] \/ hebras' = [hebras EXCEPT ![i] = t]
      BY <2>1 DEF PcpTomar
    <3>2. r \in Registro /\ Sabe(r) /\ t \in Registro /\ Sabe(t)
      BY <2>0, <3>1 DEF Registro, Sabe
    <3> HIDE DEF r, t
    <3>3. QED
      BY <1>0, <3>1, <3>2, UnaHebra
  <2>2. CASE PcpRecorrer(i)
    <3> DEFINE p     == Proxima(hebras[i].faltan)
               resto == hebras[i].faltan \ {p}
               vs    == IF TieneHilos(p) THEN hebras[i].vistas \cup {p} ELSE hebras[i].vistas
               r     == [hebras[i] EXCEPT !.vistas = vs, !.faltan = Prioridades, !.paso = "sacar"]
               t     == [hebras[i] EXCEPT !.vistas = vs, !.faltan = resto, !.paso = "recorrer"]
    <3>1. /\ hebras[i].paso = "recorrer"
          /\ \/ resto = {} /\ hebras' = [hebras EXCEPT ![i] = r]
             \/ resto # {} /\ hebras' = [hebras EXCEPT ![i] = t]
      BY <1>0, <2>2 DEF PcpRecorrer, HilosDelKernel, Registro
    <3>2. p \in Prioridades
      BY <2>0, LaProxima DEF Registro, Sabe
    <3>3. vs \in SUBSET Prioridades /\ resto \in SUBSET Prioridades
      BY <2>0, <3>2 DEF Registro
    <3> HIDE DEF vs, resto, p
    <3>4. r \in Registro /\ Sabe(r)
      BY <2>0, <3>1, <3>3 DEF Registro, Sabe
    <3>5. ASSUME resto # {} PROVE t \in Registro /\ Sabe(t)
      BY <2>0, <3>1, <3>3, <3>5 DEF Registro, Sabe
    <3> HIDE DEF r, t
    <3>6. QED
      BY <1>0, <3>1, <3>4, <3>5, UnaHebra
  <2>3. CASE PcpSacar(i)
    <3>1. CASE UNCHANGED hebras
      BY <1>1, <3>1
    <3>2. CASE ~UNCHANGED hebras
      <4> DEFINE g == Head(colas[MejorCola(hebras[i].vistas)])
                 r == [hebras[i] EXCEPT !.paso = "enviar", !.toma = g, !.vistas = {}]
      <4>1. /\ hebras[i].paso = "sacar" /\ hebras[i].vistas # {}
            /\ hebras' = [hebras EXCEPT ![i] = r]
        BY <1>0, <2>3, <3>2 DEF PcpSacar, HilosDelKernel, Registro
      <4>2. \A q \in hebras[i].vistas : TieneHilos(q)
        BY <4>1 DEF IInv, Recorridos, Recorre
      <4>3. hebras[i].vistas \in SUBSET Prioridades
        BY <2>0 DEF Registro
      <4>4. g \in Hilos
        BY <1>0, <4>1, <4>2, <4>3, LaMejor, Elegible
      <4> HIDE DEF g
      <4>5. r \in Registro /\ Sabe(r)
        BY <2>0, <4>1, <4>4 DEF Registro, Sabe
      <4> HIDE DEF r
      <4>6. QED
        BY <1>0, <4>1, <4>5, UnaHebra
    <3>3. QED
      BY <3>1, <3>2
  <2>4. QED
    BY <1>3, <2>1, <2>2, <2>3
<1>4. ASSUME NEW i \in Hebras, PcpEnviar(i) PROVE HilosDelKernel'
  <2> DEFINE r == [hebras[i] EXCEPT !.paso = "armar"]
  <2>1. hebras[i].paso = "enviar" /\ hebras' = [hebras EXCEPT ![i] = r]
    BY <1>4 DEF PcpEnviar
  <2>2. r \in Registro /\ Sabe(r)
    BY <1>0, <2>1 DEF Registro, Sabe
  <2>3. QED
    BY <1>0, <2>1, <2>2, UnaHebra
<1>5. ASSUME NEW i \in Hebras, PcpArmar(i) PROVE HilosDelKernel'
  <2> DEFINE r == [hebras[i] EXCEPT !.paso = hebras[i].luego, !.toma = Nadie]
  <2>1. hebras[i].paso = "armar" /\ hebras' = [hebras EXCEPT ![i] = r]
    BY <1>0, <1>5 DEF PcpArmar, HilosDelKernel, Registro
  <2>2. r \in Registro /\ Sabe(r)
    BY <1>0, <2>1 DEF Registro, Sabe
  <2>3. QED
    BY <1>0, <2>1, <2>2, UnaHebra
<1>6. ASSUME NEW h \in Hilos, AtiendeIO(h) \/ AtiendeThreadCreate(h) PROVE HilosDelKernel'
  <2>1. /\ Hebra("agregar", h, "libre") \in Registro /\ Sabe(Hebra("agregar", h, "libre"))
        /\ Hebra("mirar", Nadie, "libre") \in Registro /\ Sabe(Hebra("mirar", Nadie, "libre"))
    BY HebraNueva
  <2>2. QED
    BY <1>0, <1>6, <2>1, NuevaLibre, UnaHebra DEF AtiendeIO, AtiendeThreadCreate
<1>7. ASSUME NEW h \in Hilos, AtiendeThreadExit(h) \/ AtiendeDesalojo(h) PROVE HilosDelKernel'
  <2>1. /\ Hebra("desalojar", h, "libre") \in Registro /\ Sabe(Hebra("desalojar", h, "libre"))
        /\ Hebra("mirar", Nadie, "libre") \in Registro /\ Sabe(Hebra("mirar", Nadie, "libre"))
    BY HebraNueva
  <2>2. QED
    BY <1>0, <1>7, <2>1, Numeros, UnaHebra DEF AtiendeThreadExit, AtiendeDesalojo
<1>8. ASSUME NEW i \in Hebras, IoAgregar(i) PROVE HilosDelKernel'
  <2> DEFINE r == [hebras[i] EXCEPT !.paso = "bloquear"]
  <2>1. hebras[i].paso = "agregar" /\ hebras' = [hebras EXCEPT ![i] = r]
    BY <1>8 DEF IoAgregar
  <2>2. r \in Registro /\ Sabe(r)
    BY <1>0, <2>1 DEF Registro, Sabe
  <2>3. QED
    BY <1>0, <2>1, <2>2, UnaHebra
<1>9. ASSUME NEW i \in Hebras, IoBloquear(i) PROVE HilosDelKernel'
  <2> DEFINE r == [hebras[i] EXCEPT !.paso = "mirar", !.luego = "mirarIO"]
             t == [hebras[i] EXCEPT !.paso = "mirarIO"]
  <2>1. /\ hebras[i].paso = "bloquear"
        /\ hebras' = [hebras EXCEPT ![i] = r] \/ hebras' = [hebras EXCEPT ![i] = t]
    BY <1>0, <1>9 DEF IoBloquear, HilosDelKernel, Registro
  <2>2. r \in Registro /\ Sabe(r) /\ t \in Registro /\ Sabe(t)
    BY <1>0, <2>1 DEF Registro, Sabe
  <2>3. QED
    BY <1>0, <2>1, <2>2, UnaHebra
<1>10. ASSUME NEW i \in Hebras, IoMirar(i) PROVE HilosDelKernel'
  <2>1. hebras[i].hilo \in Hilos
    BY <1>0, <1>10 DEF IoMirar, Sabe
  <2>2. /\ Hebra("dormir", hebras[i].hilo, "libre") \in Registro
        /\ Sabe(Hebra("dormir", hebras[i].hilo, "libre"))
        /\ Inactiva \in Registro /\ Sabe(Inactiva)
    BY <2>1, HebraNueva DEF Inactiva
  <2>3. QED
    BY <1>0, <1>10, <2>2, UnaHebra DEF IoMirar
<1>11. ASSUME NEW i \in Hebras, IoDormir(i) PROVE HilosDelKernel'
  <2> DEFINE r == [hebras[i] EXCEPT !.paso = "despertar"]
  <2>1. hebras[i].paso = "dormir" /\ hebras' = [hebras EXCEPT ![i] = r]
    BY <1>11 DEF IoDormir
  <2>2. r \in Registro /\ Sabe(r)
    BY <1>0, <2>1 DEF Registro, Sabe
  <2>3. QED
    BY <1>0, <2>1, <2>2, UnaHebra
<1>12. ASSUME NEW i \in Hebras, IoDespertar(i) PROVE HilosDelKernel'
  <2> DEFINE sueltas == [j \in Hebras |-> IF j \in MismoSleep(i)
                                          THEN [hebras[j] EXCEPT !.colgado = TRUE] ELSE hebras[j]]
             r == [sueltas[i] EXCEPT !.paso = "mirar", !.luego = "seguir"]
             t == [sueltas[i] EXCEPT !.paso = "seguir"]
  <2>0. hebras[i].paso = "despertar" /\ sueltas[i] = hebras[i]
    BY <1>12 DEF IoDespertar, MismoSleep
  <2>1. sueltas \in [Hebras -> Registro] /\ \A j \in Hebras : Sabe(sueltas[j])
    <3>1. ASSUME NEW g \in Registro, Sabe(g)
          PROVE  [g EXCEPT !.colgado = TRUE] \in Registro /\ Sabe([g EXCEPT !.colgado = TRUE])
      BY ONLY <3>1 DEF Registro, Sabe
    <3>2. \A j \in Hebras : hebras[j] \in Registro /\ Sabe(hebras[j])
      BY <1>0
    <3>3. QED
      BY ONLY <3>1, <3>2
  <2>2. r \in Registro /\ Sabe(r) /\ t \in Registro /\ Sabe(t)
    <3>1. ASSUME NEW g \in Registro, Sabe(g), g.paso = "despertar"
          PROVE  /\ [g EXCEPT !.paso = "mirar", !.luego = "seguir"] \in Registro
                 /\ Sabe([g EXCEPT !.paso = "mirar", !.luego = "seguir"])
                 /\ [g EXCEPT !.paso = "seguir"] \in Registro /\ Sabe([g EXCEPT !.paso = "seguir"])
      BY ONLY <3>1 DEF Registro, Sabe, Pasos, PasosPcp, PasosIO
    <3>2. hebras[i] \in Registro /\ Sabe(hebras[i])
      BY <1>0
    <3>3. QED
      BY ONLY <2>0, <3>1, <3>2
  <2>3. \/ hebras' = [sueltas EXCEPT ![i].paso = "mirar", ![i].luego = "seguir"]
        \/ hebras' = [sueltas EXCEPT ![i].paso = "seguir"]
    BY <1>12 DEF IoDespertar
  <2> HIDE DEF sueltas
  <2>4. hebras' = [sueltas EXCEPT ![i] = r] \/ hebras' = [sueltas EXCEPT ![i] = t]
    BY <2>1, <2>3 DEF Registro
  <2> HIDE DEF r, t
  <2>5. hebras' \in [Hebras -> Registro] /\ \A j \in Hebras : Sabe(hebras'[j])
    BY <2>1, <2>2, <2>4
  <2>6. QED
    BY <2>5 DEF HilosDelKernel, Sabe
<1>13. ASSUME NEW i \in Hebras, IoSeguir(i) PROVE HilosDelKernel'
  <2>1. Inactiva \in Registro /\ Sabe(Inactiva)
    BY HebraNueva DEF Inactiva
  <2>2. ASSUME colaIO # <<>>
        PROVE  Hebra("mirar", Head(colaIO), "dormir") \in Registro /\ Sabe(Hebra("mirar", Head(colaIO), "dormir"))
    <3>1. Head(colaIO) \in Hilos
      BY <1>0, <2>2, HeadTailProperties DEF Listas
    <3>2. \A h \in Hilos : Hebra("mirar", h, "dormir") \in Registro /\ Sabe(Hebra("mirar", h, "dormir"))
      BY Numeros DEF Hebra, Registro, Sabe
    <3>3. QED
      BY <3>1, <3>2, Zenon
  <2>3. SiguienteIO \in Registro /\ Sabe(SiguienteIO)
    BY <2>1, <2>2 DEF SiguienteIO
  <2>4. QED
    BY <1>0, <1>13, <2>3, UnaHebra DEF IoSeguir
<1>14. ASSUME NEW h \in Hilos, \/ TemporizadorEmpieza(h) \/ AtiendeMutexUnlock(h)
                               \/ \E op \in Peticiones : AtiendeInvalido(op, h)
       PROVE  UNCHANGED hebras
  BY <1>14 DEF TemporizadorEmpieza, AtiendeMutexUnlock, AtiendeInvalido
<1>15. ASSUME TemporizadorVence \/ Gestor \/ CpuAvanza \/ CpuSyscall \/ Interrupcion
       PROVE  UNCHANGED hebras
  BY <1>15 DEF TemporizadorVence, Gestor, GestorToma, GestorEnvia, CpuAvanza, CpuRecibe, CpuContexto,
     CpuSinContexto, CpuRecibeRta, CpuDesaloja, CpuSigue, CpuSuelta, CpuSyscall, CpuIO, CpuThreadCreate,
     CpuMutexUnlock, CpuThreadExit, Pide, Interrupcion, InterrupcionLlega, InterrupcionMarca
<1>16. CASE Desalojar \/ Reubicar
  <2> DEFINE r == [hebras[0] EXCEPT !.paso = "reubicar"]
  <2>1. Hebra("mirar", Nadie, "libre") \in Registro /\ Sabe(Hebra("mirar", Nadie, "libre"))
    BY HebraNueva
  <2>2. CASE Desalojar
    <3>1. hebras[0].paso = "desalojar" /\ hebras' = [hebras EXCEPT ![0] = r] /\ 0 \in Hebras
      BY <2>2, Numeros DEF Desalojar
    <3>2. r \in Registro /\ Sabe(r)
      BY <1>0, <3>1 DEF Registro, Sabe
    <3> HIDE DEF r
    <3>3. QED
      BY <1>0, <3>1, <3>2, UnaHebra
  <2>3. CASE Reubicar
    BY <1>0, <2>1, <2>3, Numeros, UnaHebra DEF Reubicar
  <2>4. QED
    BY <1>16, <2>2, <2>3
<1>17. QED
  BY <1>1, <1>2, <1>3, <1>4, <1>5, <1>6, <1>7, <1>8, <1>9, <1>10, <1>11, <1>12, <1>13, <1>14, <1>15, <1>16
     DEF Next, Pcp, Io, AtiendeAlgo

LEMMA PasoRelojes ==
  ASSUME IInv, Next
  PROVE  Relojes'
<1>0. Relojes /\ HilosDelKernel
  BY DEF IInv
<1>1. ASSUME UNCHANGED reloj PROVE Relojes'
  BY <1>0, <1>1 DEF Relojes, reloj
<1>2. ASSUME NEW i \in Hebras, PcpEnviar(i) PROVE Relojes'
  <2>1. hebras[i].toma \in Hilos
    BY <1>0, <1>2 DEF PcpEnviar, HilosDelKernel, Sabe
  <2>2. QED
    BY <1>0, <1>2, <2>1 DEF PcpEnviar, Relojes
<1>3. ASSUME NEW i \in Hebras, PcpArmar(i) PROVE Relojes'
  <2>1. hebras[i].toma \in Hilos
    BY <1>0, <1>3 DEF PcpArmar, HilosDelKernel, Sabe
  <2>2. armados[hebras[i].toma] + 1 \in 0 .. MaxTemporizadores
    BY <1>0, <1>3, <2>1, CotasAssumption DEF PcpArmar, Relojes
  <2>3. QED
    BY <1>0, <1>3, <2>1, <2>2 DEF PcpArmar, Relojes
<1>4. ASSUME NEW h \in Hilos, TemporizadorEmpieza(h) PROVE Relojes'
  <2>1. armados[h] - 1 \in 0 .. MaxTemporizadores
    BY <1>0, <1>4, CotasAssumption DEF TemporizadorEmpieza, Relojes
  <2>2. QED
    BY <1>0, <1>4, <2>1 DEF TemporizadorEmpieza, Relojes
<1>5. ASSUME TemporizadorVence PROVE Relojes'
  BY <1>0, <1>5 DEF TemporizadorVence, Relojes
<1>6. ASSUME NEW h \in Hilos, \/ AtiendeIO(h) \/ AtiendeThreadCreate(h) \/ AtiendeMutexUnlock(h)
                              \/ AtiendeThreadExit(h) \/ AtiendeDesalojo(h)
      PROVE  Relojes'
  <2>1. /\ flag' = CancelarQuantum(h) /\ alDia' = AlDia(h)
        /\ UNCHANGED <<ultimo, armados, dormidos>>
    BY <1>6 DEF AtiendeIO, AtiendeThreadCreate, AtiendeMutexUnlock, AtiendeThreadExit, AtiendeDesalojo
  <2>2. CancelarQuantum(h) \in [Hilos -> BOOLEAN] /\ AlDia(h) \in BOOLEAN
    BY <1>0 DEF CancelarQuantum, AlDia, Relojes
  <2>3. QED
    BY <1>0, <2>1, <2>2 DEF Relojes
<1>7. ASSUME NEW i \in Hebras, IoBloquear(i) PROVE Relojes'
  BY <1>0, <1>7 DEF IoBloquear, Relojes
<1>8. ASSUME NEW i \in Hebras, \/ PcpMirar(i) \/ PcpTomar(i) \/ PcpRecorrer(i) \/ PcpSacar(i)
                               \/ IoAgregar(i) \/ IoMirar(i) \/ IoDormir(i) \/ IoDespertar(i) \/ IoSeguir(i)
      PROVE  UNCHANGED reloj
  BY <1>8 DEF PcpMirar, PcpTomar, PcpRecorrer, PcpSacar, IoAgregar, IoMirar, IoDormir, IoDespertar, IoSeguir
<1>9. ASSUME NEW h \in Hilos, \E op \in Peticiones : AtiendeInvalido(op, h)
      PROVE  UNCHANGED reloj
  BY <1>9 DEF AtiendeInvalido
<1>10. ASSUME Gestor \/ CpuAvanza \/ CpuSyscall \/ Interrupcion
       PROVE  UNCHANGED reloj
  BY <1>10 DEF Gestor, GestorToma, GestorEnvia, CpuAvanza, CpuRecibe, CpuContexto,
     CpuSinContexto, CpuRecibeRta, CpuDesaloja, CpuSigue, CpuSuelta, CpuSyscall, CpuIO, CpuThreadCreate,
     CpuMutexUnlock, CpuThreadExit, Pide, Interrupcion, InterrupcionLlega, InterrupcionMarca
<1>11. Desalojar \/ Reubicar => UNCHANGED reloj
  BY DEF Desalojar, Reubicar
<1>12. QED
  BY <1>1, <1>2, <1>3, <1>4, <1>5, <1>6, <1>7, <1>8, <1>9, <1>10, <1>11
     DEF Next, Pcp, Io, AtiendeAlgo

LEMMA PasoInterrupciones ==
  ASSUME IInv, Next
  PROVE  Interrupciones'
<1>0. Interrupciones /\ Relojes /\ Listas /\ Conexion
  BY DEF IInv
<1>1. ASSUME UNCHANGED <<avisos, interrupt>> PROVE Interrupciones'
  BY <1>0, <1>1 DEF Interrupciones, avisos
<1>2. ASSUME TemporizadorVence PROVE Interrupciones'
  <2>1. ultimo \in Hilos
    BY <1>0, <1>2 DEF TemporizadorVence, Relojes
  <2>2. Append(vencidos, ultimo) \in Seq(Hilos)
    BY <1>0, <2>1, AppendProperties DEF Interrupciones
  <2>3. QED
    BY <1>0, <1>2, <2>2 DEF TemporizadorVence, cpuVars, Interrupciones
<1>3. ASSUME GestorToma PROVE Interrupciones'
  <2>1. exec # <<>> => exec[1] \in Hilos
    BY <1>0, HeadTailProperties, EmptySeq, LenProperties, ElementOfSeq DEF Listas
  <2>2. Tail(vencidos) \in Seq(Hilos)
    BY <1>0, <1>3, HeadTailProperties DEF GestorToma, Interrupciones
  <2>3. QED
    BY <1>0, <1>3, <2>1, <2>2 DEF GestorToma, cpuVars, Interrupciones
<1>4. ASSUME GestorEnvia PROVE Interrupciones'
  <2>1. PICK h \in Hilos \cup {Nadie} : aInterrupt' = Append(aInterrupt, h)
    BY <1>0, <1>4 DEF GestorEnvia, Interrupciones
  <2>2. aInterrupt' \in Seq(Hilos \cup {Nadie})
    BY <1>0, <2>1, AppendProperties DEF Interrupciones
  <2>3. QED
    BY <1>0, <1>4, <2>2 DEF GestorEnvia, cpuVars, Interrupciones
<1>5. ASSUME CpuContexto PROVE Interrupciones'
  BY <1>0, <1>5, CotasAssumption DEF CpuContexto, Interrupciones
<1>6. ASSUME CpuRecibeRta PROVE Interrupciones'
  BY <1>0, <1>6 DEF CpuRecibeRta, avisos, Interrupciones
<1>7. ASSUME CpuSuelta PROVE Interrupciones'
  BY <1>0, <1>7 DEF CpuSuelta, avisos, Interrupciones
<1>8. ASSUME InterrupcionLlega PROVE Interrupciones'
  <2>1. Tail(aInterrupt) \in Seq(Hilos \cup {Nadie})
    BY <1>0, <1>8, HeadTailProperties DEF InterrupcionLlega, Interrupciones
  <2>2. llego - 1 \in 0 .. MaxContextos
    BY <1>0, <1>8, CotasAssumption DEF InterrupcionLlega, Interrupciones
  <2>3. QED
    BY <1>0, <1>8, <2>1, <2>2 DEF InterrupcionLlega, cpuVars, Interrupciones
<1>9. ASSUME InterrupcionMarca PROVE Interrupciones'
  BY <1>0, <1>9 DEF InterrupcionMarca, Interrupciones
<1>10. ASSUME NEW i \in Hebras, Pcp(i) \/ Io(i)
       PROVE  UNCHANGED <<avisos, interrupt>>
  BY <1>10 DEF Pcp, Io, PcpMirar, PcpTomar, PcpRecorrer, PcpSacar, PcpEnviar, PcpArmar, IoAgregar, IoBloquear,
     IoMirar, IoDormir, IoDespertar, IoSeguir, cpuVars
<1>11. ASSUME NEW h \in Hilos, TemporizadorEmpieza(h) PROVE UNCHANGED <<avisos, interrupt>>
  BY <1>11 DEF TemporizadorEmpieza, cpuVars
<1>12. ASSUME AtiendeAlgo PROVE UNCHANGED <<avisos, interrupt>>
  BY <1>12 DEF AtiendeAlgo, AtiendeIO, AtiendeThreadCreate, AtiendeMutexUnlock, AtiendeThreadExit,
     AtiendeDesalojo, AtiendeInvalido, Desalojar, Reubicar, cpuVars
<1>13. ASSUME CpuRecibe \/ CpuSinContexto \/ CpuDesaloja \/ CpuSigue \/ CpuSyscall
       PROVE  UNCHANGED <<avisos, interrupt>>
  BY <1>13 DEF CpuRecibe, CpuSinContexto, CpuDesaloja, CpuSigue, CpuSyscall, CpuIO, CpuThreadCreate,
     CpuMutexUnlock, CpuThreadExit, Pide
<1>14. QED
  BY <1>1, <1>2, <1>3, <1>4, <1>5, <1>6, <1>7, <1>8, <1>9, <1>10, <1>11, <1>12, <1>13
     DEF Next, Gestor, CpuAvanza, Interrupcion

\* The messages each side sends.
LEMMA Mensajes ==
  /\ \A h \in Hilos : Mensaje("EJECUTAR", h) \in MensajesCpu
  /\ Mensaje("RTA", Nadie) \in MensajesCpu
  /\ \A op \in Peticiones, h \in Hilos \cup {Nadie} : Mensaje(op, h) \in MensajesKernel
  /\ \A op, h : Mensaje(op, h).op = op /\ Mensaje(op, h).hilo = h
  BY DEF Mensaje, MensajesCpu, MensajesKernel

LEMMA PasoConexion ==
  ASSUME IInv, Next
  PROVE  Conexion'
<1>0. Conexion /\ HilosDelKernel /\ Instrucciones \subseteq Peticiones
  BY InstruccionesAssumption DEF IInv, Peticiones
<1>1. ASSUME UNCHANGED <<aCpu, aKernel, cpu, contexto, caido>> PROVE Conexion'
  BY <1>0, <1>1 DEF Conexion
<1>2. ASSUME UNCHANGED <<aCpu, aKernel, cpu, contexto>>, caido' \in BOOLEAN PROVE Conexion'
  BY <1>0, <1>2 DEF Conexion
<1>3. ASSUME NEW i \in Hebras, PcpSacar(i) \/ IoDespertar(i)
      PROVE  UNCHANGED <<aCpu, aKernel, cpu, contexto>> /\ caido' \in BOOLEAN
  BY <1>0, <1>3 DEF PcpSacar, IoDespertar, cpuVars, Conexion, HilosDelKernel, Registro
<1>4. ASSUME GestorToma PROVE UNCHANGED <<aCpu, aKernel, cpu, contexto>> /\ caido' \in BOOLEAN
  BY <1>0, <1>4 DEF GestorToma, cpuVars, Conexion
<1>5. ASSUME NEW i \in Hebras, PcpEnviar(i) PROVE Conexion'
  <2>1. hebras[i].toma \in Hilos
    BY <1>0, <1>5 DEF PcpEnviar, HilosDelKernel, Sabe
  <2>2. aCpu' \in Seq(MensajesCpu)
    BY <1>0, <1>5, <2>1, Mensajes, AppendProperties DEF PcpEnviar, Conexion
  <2>3. QED
    BY <1>0, <1>5, <2>2 DEF PcpEnviar, cpuVars, Conexion
<1>6. ASSUME NEW h \in Hilos, NEW op \in Peticiones, Atiende(op, h) PROVE aKernel' \in Seq(MensajesKernel)
  BY <1>0, <1>6, HeadTailProperties DEF Atiende, Conexion
<1>7. ASSUME NEW h \in Hilos, AtiendeIO(h) \/ AtiendeThreadExit(h) \/ AtiendeDesalojo(h) PROVE Conexion'
  BY <1>0, <1>6, <1>7 DEF AtiendeIO, AtiendeThreadExit, AtiendeDesalojo, cpuVars, Conexion, Peticiones
<1>8. ASSUME NEW h \in Hilos, AtiendeThreadCreate(h) \/ AtiendeMutexUnlock(h) PROVE Conexion'
  <2>1. aCpu' \in Seq(MensajesCpu)
    <3>1. aCpu' = Append(aCpu, Mensaje("RTA", Nadie))
      BY <1>8 DEF AtiendeThreadCreate, AtiendeMutexUnlock
    <3>2. QED
      BY <1>0, <3>1, Mensajes, AppendProperties DEF Conexion
  <2>2. QED
    BY <1>0, <1>6, <1>8, <2>1 DEF AtiendeThreadCreate, AtiendeMutexUnlock, cpuVars, Conexion, Peticiones
<1>9. ASSUME NEW h \in Hilos, NEW op \in Peticiones, AtiendeInvalido(op, h) PROVE Conexion'
  BY <1>0, <1>6, <1>9 DEF AtiendeInvalido, cpuVars, Conexion
<1>10. ASSUME CpuRecibe PROVE Conexion'
  <2>1. Head(aCpu) \in MensajesCpu /\ aCpu' \in Seq(MensajesCpu)
    BY <1>0, <1>10, HeadTailProperties DEF CpuRecibe, Conexion
  <2>2. Head(aCpu).hilo \in Hilos
    BY <1>10, <2>1 DEF CpuRecibe, MensajesCpu
  <2>3. QED
    BY <1>0, <1>10, <2>1, <2>2 DEF CpuRecibe, Cpu, Conexion
<1>11. ASSUME CpuContexto PROVE Conexion'
  BY <1>0, <1>11 DEF CpuContexto, Conexion
<1>12. ASSUME NEW op \in Peticiones, aKernel' = Append(aKernel, Mensaje(op, contexto))
       PROVE  aKernel' \in Seq(MensajesKernel)
  BY <1>0, <1>12, Mensajes, AppendProperties DEF Conexion
<1>13. ASSUME CpuSinContexto \/ CpuDesaloja PROVE Conexion'
  BY <1>0, <1>12, <1>13 DEF CpuSinContexto, CpuDesaloja, Peticiones, Conexion
<1>14. ASSUME CpuSyscall PROVE Conexion'
  BY <1>0, <1>12, <1>14 DEF CpuSyscall, CpuIO, CpuThreadCreate, CpuMutexUnlock, CpuThreadExit, Pide, Conexion
<1>15. ASSUME CpuRecibeRta PROVE Conexion'
  <2>1. aCpu' \in Seq(MensajesCpu)
    BY <1>0, <1>15, HeadTailProperties DEF CpuRecibeRta, Conexion
  <2>2. QED
    BY <1>0, <1>15, <2>1 DEF CpuRecibeRta, Conexion
<1>16. ASSUME CpuSigue \/ CpuSuelta PROVE Conexion'
  <2>1. CASE CpuSigue
    BY <1>0, <2>1 DEF CpuSigue, Conexion
  <2>2. CASE CpuSuelta
    BY <1>0, <2>2 DEF CpuSuelta, Cpu, Conexion
  <2>3. QED
    BY <1>16, <2>1, <2>2
<1>17. ASSUME NEW i \in Hebras, PcpMirar(i) \/ PcpTomar(i) \/ PcpRecorrer(i) \/ PcpArmar(i)
       PROVE  UNCHANGED <<aCpu, aKernel, cpu, contexto, caido>>
  BY <1>17 DEF PcpMirar, PcpTomar, PcpRecorrer, PcpArmar, cpuVars
<1>18. ASSUME NEW i \in Hebras, IoAgregar(i) \/ IoBloquear(i) \/ IoMirar(i) \/ IoDormir(i) \/ IoSeguir(i)
       PROVE  UNCHANGED <<aCpu, aKernel, cpu, contexto, caido>>
  BY <1>18 DEF IoAgregar, IoBloquear, IoMirar, IoDormir, IoSeguir, cpuVars
<1>19. ASSUME NEW h \in Hilos, TemporizadorEmpieza(h) PROVE UNCHANGED <<aCpu, aKernel, cpu, contexto, caido>>
  BY <1>19 DEF TemporizadorEmpieza, cpuVars
<1>20. ASSUME TemporizadorVence \/ GestorEnvia \/ Desalojar \/ Reubicar \/ Interrupcion
       PROVE  UNCHANGED <<aCpu, aKernel, cpu, contexto, caido>>
  BY <1>20 DEF TemporizadorVence, GestorEnvia, Desalojar, Reubicar, Interrupcion, InterrupcionLlega,
     InterrupcionMarca, cpuVars
<1>21. QED
  BY <1>1, <1>2, <1>3, <1>4, <1>5, <1>7, <1>8, <1>9, <1>10, <1>11, <1>13, <1>14, <1>15, <1>16, <1>17,
     <1>18, <1>19, <1>20
     DEF Next, Pcp, Io, Gestor, AtiendeAlgo, CpuAvanza

\* The requests and the answers are messages of their own.
LEMMA Distintas ==
  /\ ConRta \subseteq Peticiones /\ "EJECUTAR" \notin Rta /\ "RTA" \in Rta
  /\ \A op \in {"IO", "THREAD_EXIT", "DESALOJO"} : op \notin ConRta /\ op \notin Creacion
  BY DEF ConRta, Peticiones, Rta, Creacion

LEMMA PasoContestar ==
  ASSUME IInv, Next
  PROVE  Contestar'
<1> USE DEF Contestar
<1>0. /\ Contestar /\ aKernel \in Seq(MensajesKernel) /\ aCpu \in Seq(MensajesCpu)
      /\ HilosDelKernel /\ Listas
      /\ \A op, h : Mensaje(op, h).op = op
  BY Mensajes DEF IInv, Conexion
<1>1. ASSUME UNCHANGED <<aCpu, aKernel, cpu, creados>> PROVE Contestar'
  BY <1>0, <1>1 DEF Sin, Uno
<1>2. ASSUME NEW i \in Hebras, PcpEnviar(i) PROVE Contestar'
  <2>1. hebras[i].toma \in Hilos
    BY <1>0, <1>2 DEF PcpEnviar, HilosDelKernel, Sabe
  <2>2. PICK m \in MensajesCpu : aCpu' = Append(aCpu, m) /\ m.op = "EJECUTAR"
    BY <1>0, <1>2, <2>1, Mensajes DEF PcpEnviar
  <2>3. (Sin(aCpu, Rta) => Sin(aCpu, Rta)') /\ Uno(aCpu, Rta)'
    BY <1>0, <2>2, Enviado, Distintas DEF Sin, Uno
  <2>4. UNCHANGED <<aKernel, cpu, creados>>
    BY <1>2 DEF PcpEnviar, kernel, cpuVars
  <2>5. QED
    BY <1>0, <2>3, <2>4 DEF Sin, Uno
\* A request without an answer, or of a thread that is not in EXEC, is taken.
<1>3. ASSUME NEW h \in Hilos, NEW op \in Peticiones, Atiende(op, h)
      PROVE  /\ Uno(aKernel, ConRta)'
             /\ Sin(aKernel, ConRta) => Sin(aKernel, ConRta)' /\ op \notin ConRta
             /\ Sin(aKernel, Creacion) => Sin(aKernel, Creacion)'
             /\ op \in ConRta => Sin(aKernel, ConRta)'
  <2>1. aKernel # <<>> /\ Head(aKernel).op = op /\ aKernel' = Tail(aKernel)
    BY <1>0, <1>3 DEF Atiende
  <2>2. /\ Uno(Tail(aKernel), ConRta)
        /\ Sin(aKernel, ConRta) => Sin(Tail(aKernel), ConRta) /\ op \notin ConRta
        /\ Sin(aKernel, Creacion) => Sin(Tail(aKernel), Creacion)
        /\ op \in ConRta => Sin(Tail(aKernel), ConRta)
    BY <1>0, <2>1, Recibido
  <2>3. QED
    BY <2>1, <2>2 DEF Sin, Uno
<1>4. ASSUME NEW h \in Hilos, NEW op \in Peticiones, Atiende(op, h), UNCHANGED <<aCpu, cpu, creados>>
      PROVE  Contestar'
  <2>1. (Sin(aCpu, Rta) <=> Sin(aCpu, Rta)') /\ Uno(aCpu, Rta)'
    BY <1>0, <1>4 DEF Sin, Uno
  <2>2. QED
    BY <1>0, <1>3, <1>4, <2>1, Zenon
<1>5. ASSUME NEW h \in Hilos, AtiendeIO(h) \/ AtiendeThreadExit(h) \/ AtiendeDesalojo(h) PROVE Contestar'
  BY <1>4, <1>5 DEF AtiendeIO, AtiendeThreadExit, AtiendeDesalojo, kernel, cpuVars, Peticiones
<1>6. ASSUME NEW h \in Hilos, NEW op \in Peticiones, AtiendeInvalido(op, h) PROVE Contestar'
  BY <1>4, <1>6 DEF AtiendeInvalido, kernel, cpuVars
<1>7. ASSUME NEW h \in Hilos, AtiendeThreadCreate(h) \/ AtiendeMutexUnlock(h) PROVE Contestar'
  <2>1. PICK op \in ConRta : Atiende(op, h)
    BY <1>7 DEF AtiendeThreadCreate, AtiendeMutexUnlock, ConRta
  <2>2. Sin(aKernel, ConRta)' /\ Uno(aKernel, ConRta)' /\ ~Sin(aKernel, ConRta)
    BY <1>3, <2>1, Distintas
  <2>3. cpu.paso = "espera" /\ Sin(aCpu, Rta)
    BY <1>0, <2>2
  <2>4. PICK m \in MensajesCpu : aCpu' = Append(aCpu, m)
    BY <1>7, Mensajes DEF AtiendeThreadCreate, AtiendeMutexUnlock
  <2>5. Uno(aCpu, Rta)'
    BY <1>0, <2>3, <2>4, Enviado DEF Uno
  <2>6. UNCHANGED cpu
    BY <1>7 DEF AtiendeThreadCreate, AtiendeMutexUnlock, cpuVars
  <2>7. Sin(aKernel, Creacion)'
    BY <2>2 DEF Sin, ConRta, Creacion
  <2>8. QED
    BY <2>2, <2>3, <2>5, <2>6, <2>7
<1>8. ASSUME CpuRecibe PROVE Contestar'
  <2>1. Sin(aKernel, ConRta) /\ Sin(aCpu, Rta)
    BY <1>0, <1>8 DEF CpuRecibe
  <2>2. Sin(aCpu, Rta)'
    BY <1>0, <1>8, <2>1, Recibido DEF CpuRecibe, Sin
  <2>3. QED
    BY <1>0, <1>8, <2>1, <2>2, SinUno DEF CpuRecibe, kernel, Sin, Uno
<1>9. ASSUME CpuContexto \/ CpuSuelta \/ CpuSigue PROVE Contestar'
  <2>1. Sin(aKernel, ConRta) /\ Sin(aCpu, Rta) /\ UNCHANGED <<aCpu, aKernel, creados>>
    BY <1>0, <1>9 DEF CpuContexto, CpuSuelta, CpuSigue, kernel
  <2>2. QED
    BY <1>0, <2>1 DEF Sin, Uno
\* A request without an answer is sent.
<1>10. ASSUME NEW op \in {"IO", "THREAD_EXIT", "DESALOJO"}, cpu.paso # "espera",
              aKernel' = Append(aKernel, Mensaje(op, contexto)), UNCHANGED <<aCpu, creados>>
       PROVE  Contestar'
  <2>1. PICK m \in MensajesKernel : aKernel' = Append(aKernel, m) /\ m.op = op
    BY <1>0, <1>10, Mensajes DEF IInv, Conexion, Peticiones
  <2>2. Sin(aKernel, ConRta) /\ Sin(aCpu, Rta) /\ Sin(aKernel, Creacion)
    BY <1>0, <1>10, SinUno
  <2>3. Sin(aKernel', ConRta) /\ Sin(aKernel', Creacion)
    BY <1>0, <2>1, <2>2, Enviado, Distintas
  <2>4. QED
    BY <1>10, <2>2, <2>3, SinUno DEF Sin, Uno
<1>11. ASSUME CpuSinContexto \/ CpuDesaloja \/ CpuIO \/ CpuThreadExit PROVE Contestar'
  BY <1>10, <1>11 DEF CpuSinContexto, CpuDesaloja, CpuIO, CpuThreadExit, Pide, kernel
<1>12. ASSUME CpuThreadCreate \/ CpuMutexUnlock PROVE Contestar'
  <2>1. PICK op \in ConRta : /\ aKernel' = Append(aKernel, Mensaje(op, contexto))
                             /\ op \in Creacion => creados # Hilos
    BY <1>12 DEF CpuThreadCreate, CpuMutexUnlock, Pide, ConRta, Creacion
  <2>2. PICK m \in MensajesKernel : aKernel' = Append(aKernel, m) /\ m.op = op
    BY <1>0, <2>1, Mensajes, Distintas DEF IInv, Conexion
  <2>3. Sin(aKernel, ConRta) /\ Sin(aCpu, Rta) /\ Sin(aKernel, Creacion)
    BY <1>0, <1>12, SinUno DEF CpuThreadCreate, CpuMutexUnlock, Pide
  <2>4. /\ cpu'.paso = "espera" /\ UNCHANGED <<aCpu, creados>>
    BY <1>12 DEF CpuThreadCreate, CpuMutexUnlock, Pide, kernel, IInv, Conexion
  <2>5. Uno(aKernel', ConRta) /\ (op \notin Creacion => Sin(aKernel', Creacion))
    BY <1>0, <2>2, <2>3, Enviado
  <2>6. QED
    BY <2>1, <2>3, <2>4, <2>5, SinUno DEF Sin, Uno
<1>13. ASSUME CpuRecibeRta PROVE Contestar'
  <2>1. aCpu # <<>> /\ Head(aCpu).op \in Rta /\ aCpu' = Tail(aCpu) /\ UNCHANGED <<aKernel, creados>>
    BY <1>13, Distintas DEF CpuRecibeRta, kernel
  <2>2. ~Sin(aCpu, Rta) /\ Sin(aCpu', Rta)
    BY <1>0, <2>1, Recibido
  <2>3. Sin(aKernel, ConRta)
    BY <1>0, <2>2
  <2>4. QED
    BY <1>0, <2>1, <2>2, <2>3, SinUno DEF Sin, Uno
<1>14. ASSUME NEW i \in Hebras, PcpMirar(i) \/ PcpTomar(i) \/ PcpRecorrer(i) \/ PcpSacar(i) \/ PcpArmar(i)
       PROVE  UNCHANGED <<aCpu, aKernel, cpu, creados>>
  BY <1>14 DEF PcpMirar, PcpTomar, PcpRecorrer, PcpSacar, PcpArmar, kernel, cpuVars
<1>15. ASSUME NEW i \in Hebras, Io(i) PROVE UNCHANGED <<aCpu, aKernel, cpu, creados>>
  BY <1>15 DEF Io, IoAgregar, IoBloquear, IoMirar, IoDormir, IoDespertar, IoSeguir, kernel, cpuVars
<1>16. ASSUME NEW h \in Hilos, TemporizadorEmpieza(h) PROVE UNCHANGED <<aCpu, aKernel, cpu, creados>>
  BY <1>16 DEF TemporizadorEmpieza, kernel, cpuVars
<1>17. ASSUME TemporizadorVence \/ Gestor \/ Desalojar \/ Reubicar \/ Interrupcion
       PROVE  UNCHANGED <<aCpu, aKernel, cpu, creados>>
  BY <1>17 DEF TemporizadorVence, Gestor, GestorToma, GestorEnvia, Desalojar, Reubicar, Interrupcion,
     InterrupcionLlega, InterrupcionMarca, kernel, cpuVars
<1>18. QED
  BY <1>1, <1>2, <1>5, <1>6, <1>7, <1>8, <1>9, <1>11, <1>12, <1>13, <1>14, <1>15, <1>16, <1>17
     DEF Next, Pcp, AtiendeAlgo, CpuAvanza, CpuSyscall

LEMMA PasoPasadaPorVenir ==
  ASSUME IInv, Next
  PROVE  PasadaPorVenir'
<1> DEFINE Avisa(r) == \/ r.paso \in {"tomar", "recorrer", "sacar", "desalojar", "reubicar"}
                       \/ r.paso = "mirar" /\ r.faltan = Prioridades
<1>0. PasadaPorVenir /\ Listas /\ hebras \in [Hebras -> Registro] /\ \A i \in Hebras : Sabe(hebras[i])
  BY DEF IInv, HilosDelKernel
<1>1. ASSUME UNCHANGED <<colas, exec, hebras>>, ~caido PROVE PasadaPorVenir'
  BY <1>0, <1>1 DEF PasadaPorVenir, TieneHilos
<1>2. ASSUME NEW i \in Hebras, Avisa(hebras'[i]) PROVE PasadaPorVenir'
  <2>1. \A p \in Prioridades : Acude(hebras'[i], p)
    BY <1>2 DEF Acude
  <2>2. QED
    BY <2>1 DEF PasadaPorVenir
<1>3. ASSUME exec' # <<>> \/ caido' = TRUE PROVE PasadaPorVenir'
  BY <1>3 DEF PasadaPorVenir
\* A thread that was not to look at the queues takes a step.
<1>4. ASSUME UNCHANGED <<colas, exec>>, ~caido, NEW i \in Hebras,
             hebras[i].paso \notin {"mirar", "tomar", "recorrer", "sacar", "desalojar", "reubicar"},
             \A j \in Hebras \ {i} : /\ hebras'[j].paso = hebras[j].paso
                                     /\ hebras'[j].faltan = hebras[j].faltan
      PROVE  PasadaPorVenir'
  <2>1. SUFFICES ASSUME exec = <<>>, NEW p \in Prioridades, TieneHilos(p)
                 PROVE  \E j \in Hebras : Acude(hebras'[j], p)
    BY <1>4 DEF PasadaPorVenir, TieneHilos
  <2>2. PICK j \in Hebras : Acude(hebras[j], p)
    BY <1>0, <1>4, <2>1 DEF PasadaPorVenir
  <2>3. j # i
    BY <1>4, <2>2 DEF Acude
  <2>4. QED
    BY <1>4, <2>2, <2>3 DEF Acude
\* A look at a queue without anybody.
<1>5. ASSUME NEW i \in Hebras, PcpMirar(i) PROVE PasadaPorVenir'
  <2> DEFINE q == Proxima(hebras[i].faltan)
  <2>1. CASE TieneHilos(q)
    <3>1. hebras'[i].paso = "tomar"
      BY <1>0, <1>5, <2>1 DEF PcpMirar, Registro
    <3>2. QED
      BY <1>2, <3>1
  <2>2. CASE ~TieneHilos(q)
    <3>1. SUFFICES ASSUME exec = <<>>, NEW p \in Prioridades, TieneHilos(p)
                   PROVE  \E j \in Hebras : Acude(hebras'[j], p)
      BY <1>5 DEF PcpMirar, kernel, PasadaPorVenir, TieneHilos
    <3>2. PICK j \in Hebras : Acude(hebras[j], p)
      BY <1>0, <1>5, <3>1 DEF PasadaPorVenir, PcpMirar
    <3>3. CASE j # i
      <4>1. hebras'[j] = hebras[j]
        BY <1>0, <1>5, <3>3 DEF PcpMirar
      <4>2. QED
        BY <3>2, <4>1
    <3>4. CASE j = i
      <4>1. p \in hebras[i].faltan /\ p # q
        BY <1>5, <2>2, <3>1, <3>2, <3>4 DEF Acude, PcpMirar
      <4> DEFINE resto == hebras[i].faltan \ {q}
      <4>2. hebras' = [hebras EXCEPT ![i].faltan = resto] /\ p \in resto /\ hebras[i].paso = "mirar"
        BY <1>5, <2>2, <4>1 DEF PcpMirar
      <4> HIDE DEF resto
      <4>3. hebras'[i].paso = "mirar" /\ hebras'[i].faltan = resto
        BY <1>0, <4>2 DEF Registro
      <4>4. QED
        BY <4>2, <4>3 DEF Acude
    <3>5. QED
      BY <3>3, <3>4
  <2>3. QED
    BY <2>1, <2>2
<1>6. ASSUME NEW i \in Hebras, PcpTomar(i) \/ PcpRecorrer(i) PROVE PasadaPorVenir'
  <2>1. CASE PcpTomar(i) /\ ~ExecLibre
    BY <1>3, <2>1 DEF PcpTomar, kernel, ExecLibre
  <2>2. CASE PcpTomar(i) /\ ExecLibre
    <3>1. hebras'[i].paso = "recorrer"
      BY <1>0, <2>2 DEF PcpTomar, Registro
    <3>2. QED
      BY <1>2, <3>1
  <2>3. CASE PcpRecorrer(i)
    <3>1. hebras'[i].paso \in {"recorrer", "sacar"}
      BY <1>0, <2>3 DEF PcpRecorrer, Registro
    <3>2. QED
      BY <1>2, <3>1
  <2>4. QED
    BY <1>6, <2>1, <2>2, <2>3
<1>7. ASSUME NEW i \in Hebras, PcpSacar(i) PROVE PasadaPorVenir'
  <2>1. CASE UNCHANGED exec
    BY <1>3, <1>7, <2>1, SacaAlguien
  <2>2. CASE ~UNCHANGED exec
    <3> DEFINE p == MejorCola(hebras[i].vistas)
    <3>1. p \in Prioridades /\ TieneHilos(p) /\ exec' = Append(exec, Head(colas[p]))
      BY <1>7, <2>2, Sacado
    <3>2. Head(colas[p]) \in Hilos
      BY <1>0, <3>1, Elegible
    <3>3. exec' # <<>>
      BY <1>0, <3>1, <3>2, AppendSeq DEF Listas
    <3>4. QED
      BY <1>3, <3>3
  <2>3. QED
    BY <2>1, <2>2
<1>8. ASSUME NEW i \in Hebras, PcpEnviar(i) \/ PcpArmar(i) \/ IoAgregar(i) \/ IoMirar(i) \/ IoDormir(i) \/ IoSeguir(i)
      PROVE  PasadaPorVenir'
  <2>1. /\ hebras[i].paso \in {"enviar", "armar", "agregar", "mirarIO", "dormir", "seguir"}
        /\ ~caido /\ UNCHANGED <<colas, exec>>
    BY <1>8 DEF PcpEnviar, PcpArmar, IoAgregar, IoMirar, IoDormir, IoSeguir, kernel
  <2>2. \A j \in Hebras \ {i} : hebras'[j] = hebras[j]
    BY <1>0, <1>8 DEF PcpEnviar, PcpArmar, IoAgregar, IoMirar, IoDormir, IoSeguir
  <2>3. QED
    BY <1>4, <2>1, <2>2
<1>9. ASSUME NEW h \in Hilos, AtiendeIO(h) PROVE PasadaPorVenir'
  <2>1. PICK i \in Nueva : hebras' = [hebras EXCEPT ![i] = Hebra("agregar", h, "libre")]
    BY <1>9 DEF AtiendeIO
  <2>2. i \in Hebras /\ hebras[i].paso = "libre"
    BY NuevaLibre
  <2>3. ~caido /\ UNCHANGED <<colas, exec>>
    BY <1>9 DEF AtiendeIO, Atiende, kernel
  <2>4. \A j \in Hebras \ {i} : hebras'[j] = hebras[j]
    BY <1>0, <2>1
  <2>5. QED
    BY <1>4, <2>2, <2>3, <2>4
<1>10. ASSUME NEW h \in Hilos, AtiendeThreadCreate(h) PROVE PasadaPorVenir'
  <2>1. PICK i \in Nueva : hebras' = [hebras EXCEPT ![i] = Hebra("mirar", Nadie, "libre")]
    BY <1>10 DEF AtiendeThreadCreate
  <2>2. i \in Hebras /\ Avisa(hebras'[i])
    BY <1>0, <2>1, NuevaLibre DEF Hebra
  <2>3. QED
    BY <1>2, <2>2
<1>11. ASSUME \/ \E h \in Hilos : AtiendeThreadExit(h) \/ AtiendeDesalojo(h)
              \/ Desalojar \/ Reubicar
       PROVE  PasadaPorVenir'
  <2>1. Avisa(hebras'[0])
    BY <1>0, <1>11, Numeros DEF AtiendeThreadExit, AtiendeDesalojo, Desalojar, Reubicar, Hebra, Registro
  <2>2. QED
    BY <1>2, <2>1, Numeros
<1>12. ASSUME NEW i \in Hebras, IoBloquear(i) PROVE PasadaPorVenir'
  <2>1. CASE EnExec(hebras[i].hilo)
    <3>1. hebras[i].faltan = Prioridades
      BY <1>0, <1>12 DEF IoBloquear, Sabe
    <3>2. hebras'[i].paso = "mirar" /\ hebras'[i].faltan = Prioridades
      BY <1>0, <1>12, <2>1, <3>1 DEF IoBloquear, Registro
    <3>3. QED
      BY <1>2, <3>2
  <2>2. CASE ~EnExec(hebras[i].hilo)
    <3>1. hebras[i].paso = "bloquear" /\ ~caido /\ UNCHANGED <<colas, exec>>
      BY <1>12, <2>2 DEF IoBloquear
    <3>2. \A j \in Hebras \ {i} : hebras'[j] = hebras[j]
      BY <1>0, <1>12, <2>2 DEF IoBloquear
    <3>3. QED
      BY <1>4, <3>1, <3>2
  <2>3. QED
    BY <2>1, <2>2
<1>13. ASSUME NEW i \in Hebras, IoDespertar(i) PROVE PasadaPorVenir'
  <2> DEFINE sueltas == [j \in Hebras |-> IF j \in MismoSleep(i)
                                          THEN [hebras[j] EXCEPT !.colgado = TRUE] ELSE hebras[j]]
  <2>1. /\ sueltas \in [Hebras -> Registro]
        /\ \A j \in Hebras : sueltas[j].paso = hebras[j].paso /\ sueltas[j].faltan = hebras[j].faltan
    BY <1>0 DEF Registro
  <2>2. CASE hebras[i].hilo \in Range(blocked)
    <3>1. /\ hebras' = [sueltas EXCEPT ![i].paso = "mirar", ![i].luego = "seguir"]
          /\ hebras[i].paso = "despertar"
      BY <1>13, <2>2 DEF IoDespertar
    <3> HIDE DEF sueltas
    <3>2. hebras'[i].paso = "mirar" /\ hebras'[i].faltan = hebras[i].faltan
      BY <2>1, <3>1 DEF Registro
    <3>3. hebras[i].faltan = Prioridades
      BY <1>0, <3>1 DEF Sabe
    <3>4. QED
      BY <1>2, <3>2, <3>3
  <2>3. CASE hebras[i].hilo \notin Range(blocked)
    <3>1. /\ hebras' = [sueltas EXCEPT ![i].paso = "seguir"]
          /\ hebras[i].paso = "despertar" /\ ~caido /\ UNCHANGED <<colas, exec>>
      BY <1>13, <2>3 DEF IoDespertar
    <3> HIDE DEF sueltas
    <3>2. \A j \in Hebras \ {i} : hebras'[j].paso = hebras[j].paso /\ hebras'[j].faltan = hebras[j].faltan
      BY <2>1, <3>1
    <3>3. QED
      BY <1>4, <3>1, <3>2
  <2>4. QED
    BY <2>2, <2>3
<1>14. ASSUME NEW h \in Hilos, \/ TemporizadorEmpieza(h) \/ AtiendeMutexUnlock(h)
                               \/ \E op \in Peticiones : AtiendeInvalido(op, h)
       PROVE  PasadaPorVenir'
  BY <1>1, <1>14 DEF TemporizadorEmpieza, AtiendeMutexUnlock, AtiendeInvalido, Atiende, kernel
<1>15. ASSUME TemporizadorVence \/ Gestor \/ Interrupcion PROVE PasadaPorVenir'
  BY <1>1, <1>15 DEF TemporizadorVence, Gestor, GestorToma, GestorEnvia, Interrupcion, InterrupcionLlega,
     InterrupcionMarca, kernel
<1>16. ASSUME CpuAvanza \/ CpuSyscall PROVE PasadaPorVenir'
  BY <1>1, <1>16 DEF CpuAvanza, CpuRecibe, CpuContexto, CpuSinContexto, CpuRecibeRta, CpuDesaloja,
     CpuSigue, CpuSuelta, CpuSyscall, CpuIO, CpuThreadCreate, CpuMutexUnlock, CpuThreadExit, Pide, kernel
<1>17. QED
  BY <1>5, <1>6, <1>7, <1>8, <1>9, <1>10, <1>11, <1>12, <1>13, <1>14, <1>15, <1>16
     DEF Next, Pcp, Io, AtiendeAlgo

\* A queue gets a thread: the others keep theirs, and everybody that waited waits.
LEMMA ColasCrecen ==
  ASSUME Listas, NEW h \in Hilos, colas' = Encolar(colas, h)
  PROVE  /\ \A p \in Prioridades : TieneHilos(p) => TieneHilos(p)'
         /\ \A g \in Hilos : EnReady(g) => EnReady(g)'
<1> DEFINE q == Prioridad[h]   c == Append(colas[q], h)
<1>1. /\ colas \in [Prioridades -> Seq(Hilos)] /\ q \in Prioridades
      /\ \A g \in Hilos : Prioridad[g] \in Prioridades
  BY Numeros DEF Listas
<1>2. c # <<>> /\ Range(colas[q]) \subseteq Range(c)
  BY <1>1, AppendSeq, AgregaUno
<1> HIDE DEF c
<1>3. colas' = [colas EXCEPT ![q] = c]
  BY DEF Encolar, c
<1> HIDE DEF q
<1>4. \A p \in Prioridades : colas'[p] = IF p = q THEN c ELSE colas[p]
  BY <1>1, <1>3
<1>5. QED
  BY <1>1, <1>2, <1>4 DEF TieneHilos, EnReady

LEMMA PasoRecorridos ==
  ASSUME IInv, Next
  PROVE  Recorridos'
<1>0. /\ Recorridos /\ Listas /\ hebras \in [Hebras -> Registro] /\ \A i \in Hebras : Sabe(hebras[i])
      /\ esperaban \subseteq Hilos
  BY DEF IInv, HilosDelKernel, Recorridos
\* The walk that is under way, if any, goes on as it was, and the queues only grow.
<1>1. ASSUME UNCHANGED esperaban,
             \A j \in Hebras : Recorre(j)' => /\ hebras'[j].paso = hebras[j].paso
                                              /\ hebras'[j].faltan = hebras[j].faltan
                                              /\ hebras'[j].vistas = hebras[j].vistas
                                              /\ UNCHANGED exec,
             \A p \in Prioridades : TieneHilos(p) => TieneHilos(p)',
             \A h \in Hilos : EnReady(h) => EnReady(h)'
      PROVE  Recorridos'
  <2>1. \A j \in Hebras : Recorre(j)' => Recorre(j) /\ PorVer(j)' = PorVer(j)
    BY <1>1 DEF Recorre, PorVer
  <2>2. \A j \in Hebras : hebras[j].vistas \subseteq Prioridades
    BY <1>0 DEF Registro
  <2>3. \A i, j \in Hebras : Recorre(i)' /\ Recorre(j)' => i = j
    BY <1>0, <2>1 DEF Recorridos
  <2>4. ASSUME NEW i \in Hebras, Recorre(i)'
        PROVE  /\ exec' = <<>> /\ \A p \in hebras'[i].vistas : TieneHilos(p)'
               /\ \A h \in esperaban' : EnReady(h)' /\ Prioridad[h] \in PorVer(i)'
    <3>1. /\ Recorre(i) /\ exec = <<>> /\ \A p \in hebras[i].vistas : TieneHilos(p)
          /\ \A h \in esperaban : EnReady(h) /\ Prioridad[h] \in PorVer(i)
      BY <1>0, <2>1, <2>4 DEF Recorridos
    <3>2. exec' = <<>> /\ hebras'[i].vistas = hebras[i].vistas /\ PorVer(i)' = PorVer(i)
      BY <1>1, <2>1, <2>4, <3>1
    <3>3. QED
      BY <1>0, <1>1, <2>2, <3>1, <3>2
  <2>5. QED
    BY <1>0, <1>1, <2>3, <2>4 DEF Recorridos
<1>2. ASSUME esperaban' \subseteq Hilos, \A j \in Hebras : ~Recorre(j)' PROVE Recorridos'
  BY <1>2 DEF Recorridos
\* The queues and EXEC are left alone.
<1>3. ASSUME UNCHANGED <<esperaban, colas, exec>>,
             \A j \in Hebras : hebras'[j] = hebras[j] \/ ~Recorre(j)'
      PROVE  Recorridos'
  BY <1>1, <1>3 DEF TieneHilos, EnReady
\* EXEC is locked by another than a walk.
<1>4. ASSUME UNCHANGED esperaban, ExecSuelto, \A j \in Hebras : hebras'[j] = hebras[j] \/ ~Recorre(j)'
      PROVE  Recorridos'
  <2>1. \A j \in Hebras : ~Recorre(j)'
    BY <1>4 DEF ExecSuelto, Recorre
  <2>2. QED
    BY <1>0, <1>2, <1>4, <2>1
<1>5. ASSUME NEW i \in Hebras, PcpMirar(i) \/ PcpEnviar(i) \/ PcpArmar(i) \/ IoAgregar(i) \/ IoMirar(i) \/ IoDormir(i)
      PROVE  Recorridos'
  <2>1. UNCHANGED <<esperaban, colas, exec>> /\ \A j \in Hebras \ {i} : hebras'[j] = hebras[j]
    BY <1>0, <1>5 DEF PcpMirar, PcpEnviar, PcpArmar, IoAgregar, IoMirar, IoDormir, kernel
  <2>2. ~Recorre(i)'
    <3>1. hebras[i] \in Registro
      BY <1>0
    <3>2. hebras'[i].paso \notin {"recorrer", "sacar"}
      BY <1>0, <1>5, <3>1 DEF PcpMirar, PcpEnviar, PcpArmar, IoAgregar, IoMirar, IoDormir, Registro, Hebra, Inactiva
    <3>3. QED
      BY <3>2 DEF Recorre
  <2>3. QED
    BY <1>3, <2>1, <2>2
<1>6. ASSUME NEW i \in Hebras, PcpTomar(i) PROVE Recorridos'
  <2>1. CASE ~ExecLibre
    <3>1. /\ UNCHANGED <<esperaban, colas, exec>> /\ hebras' = [hebras EXCEPT ![i].paso = hebras[i].luego]
      BY <1>6, <2>1 DEF PcpTomar, kernel
    <3>2. hebras'[i].paso \notin {"recorrer", "sacar"} /\ \A j \in Hebras \ {i} : hebras'[j] = hebras[j]
      BY <1>0, <3>1 DEF Registro
    <3>3. QED
      BY <1>3, <3>1, <3>2 DEF Recorre
  <2>2. CASE ExecLibre
    <3>1. /\ hebras' = [hebras EXCEPT ![i].paso = "recorrer"] /\ hebras[i].paso = "tomar"
          /\ esperaban' = {h \in Hilos : EnReady(h)} /\ UNCHANGED <<colas, exec>> /\ exec = <<>>
          /\ \A j \in Hebras : ~Recorre(j)
      BY <1>6, <2>2 DEF PcpTomar, kernel, ExecLibre, ExecSuelto
    <3>2. /\ hebras'[i].paso = "recorrer" /\ hebras'[i].faltan = Prioridades /\ hebras'[i].vistas = {}
          /\ \A j \in Hebras \ {i} : hebras'[j] = hebras[j]
      BY <1>0, <3>1 DEF Registro, Sabe
    <3>3. \A j \in Hebras : Recorre(j)' => j = i
      BY <3>1, <3>2 DEF Recorre
    <3>4. PorVer(i)' = Prioridades
      BY <3>2 DEF PorVer
    <3>5. \A h \in esperaban' : h \in Hilos /\ EnReady(h)' /\ Prioridad[h] \in Prioridades
      BY <3>1, Numeros DEF EnReady
    <3>6. QED
      BY <3>1, <3>2, <3>3, <3>4, <3>5 DEF Recorridos
  <2>3. QED
    BY <2>1, <2>2
<1>7. ASSUME NEW i \in Hebras, PcpRecorrer(i) PROVE Recorridos'
  <2> DEFINE p     == Proxima(hebras[i].faltan)
             resto == hebras[i].faltan \ {p}
             vs    == IF TieneHilos(p) THEN hebras[i].vistas \cup {p} ELSE hebras[i].vistas
  <2>1. /\ hebras' = [hebras EXCEPT ![i].vistas = vs, ![i].faltan = IF resto = {} THEN Prioridades ELSE resto,
                                    ![i].paso = IF resto = {} THEN "sacar" ELSE "recorrer"]
        /\ UNCHANGED <<esperaban, colas, exec>> /\ hebras[i].paso = "recorrer" /\ Recorre(i)
    BY <1>7 DEF PcpRecorrer, kernel, Recorre
  <2>2. /\ exec = <<>> /\ \A j \in Hebras : Recorre(j) => j = i
        /\ \A q \in hebras[i].vistas : TieneHilos(q)
        /\ \A h \in esperaban : EnReady(h) /\ Prioridad[h] \in hebras[i].vistas \cup hebras[i].faltan
    BY <1>0, <2>1 DEF Recorridos, PorVer
  <2>3. \A q \in vs : TieneHilos(q)
    BY <2>2
  <2>4. ASSUME NEW h \in esperaban PROVE Prioridad[h] \in vs \cup resto
    <3>1. h \in Hilos /\ Prioridad[h] \in Prioridades /\ h \in Range(colas[Prioridad[h]])
      BY <1>0, <2>2, Numeros DEF EnReady
    <3>2. TieneHilos(Prioridad[h])
      BY <1>0, <3>1, RangoDeSeq DEF Listas, TieneHilos
    <3>3. QED
      BY <2>2, <3>2
  <2> HIDE DEF vs, resto, p
  <2>5. /\ hebras'[i].vistas = vs /\ \A j \in Hebras \ {i} : hebras'[j] = hebras[j]
        /\ hebras'[i].paso = IF resto = {} THEN "sacar" ELSE "recorrer"
        /\ hebras'[i].faltan = IF resto = {} THEN Prioridades ELSE resto
    BY <1>0, <2>1 DEF Registro
  <2>6. vs \cup resto \subseteq PorVer(i)'
    BY <2>5 DEF PorVer
  <2>7. \A j \in Hebras : Recorre(j)' => j = i
    BY <2>2, <2>5 DEF Recorre
  <2>8. \A h \in esperaban' : EnReady(h)' /\ Prioridad[h] \in PorVer(i)'
    BY <2>1, <2>2, <2>4, <2>6 DEF EnReady
  <2>9. \A q \in hebras'[i].vistas : TieneHilos(q)'
    BY <2>1, <2>3, <2>5 DEF TieneHilos
  <2>10. QED
    BY <1>0, <2>1, <2>2, <2>7, <2>8, <2>9 DEF Recorridos
<1>8. ASSUME NEW i \in Hebras, PcpSacar(i) PROVE Recorridos'
  <2>1. Recorre(i) /\ esperaban' = {} /\ exec = <<>> /\ \A j \in Hebras : Recorre(j) => j = i
    BY <1>0, <1>8 DEF PcpSacar, Recorre, Recorridos
  <2>2. CASE hebras[i].vistas = {}
    <3>1. UNCHANGED <<colas, exec, hebras>>
      BY <1>8, <2>2 DEF PcpSacar
    <3>2. QED
      BY <1>0, <2>1, <2>2, <3>1 DEF Recorridos, Recorre
  <2>3. CASE hebras[i].vistas # {}
    <3>1. hebras'[i].paso = "enviar" /\ \A j \in Hebras \ {i} : hebras'[j] = hebras[j]
      BY <1>0, <1>8, <2>3 DEF PcpSacar, Registro
    <3>2. QED
      BY <1>2, <2>1, <3>1 DEF Recorre
  <2>4. QED
    BY <2>2, <2>3
<1>9. ASSUME NEW i \in Hebras, IoSeguir(i) PROVE Recorridos'
  <2>1. UNCHANGED <<esperaban, colas, exec>> /\ hebras' = [hebras EXCEPT ![i] = SiguienteIO]
    BY <1>9 DEF IoSeguir, kernel
  <2>2. SiguienteIO.paso \notin {"recorrer", "sacar"}
    BY DEF SiguienteIO, Hebra, Inactiva
  <2>3. QED
    BY <1>0, <1>3, <2>1, <2>2 DEF Recorre
<1>10. ASSUME NEW i \in Hebras, IoBloquear(i) PROVE Recorridos'
  <2>1. ExecSuelto /\ UNCHANGED esperaban /\ \A j \in Hebras \ {i} : hebras'[j] = hebras[j]
    BY <1>0, <1>10 DEF IoBloquear
  <2>2. hebras'[i].paso \notin {"recorrer", "sacar"}
    BY <1>0, <1>10 DEF IoBloquear, Registro
  <2>3. QED
    BY <1>4, <2>1, <2>2 DEF Recorre
<1>11. ASSUME NEW i \in Hebras, IoDespertar(i) PROVE Recorridos'
  <2> DEFINE sueltas == [j \in Hebras |-> IF j \in MismoSleep(i)
                                          THEN [hebras[j] EXCEPT !.colgado = TRUE] ELSE hebras[j]]
  <2>1. /\ sueltas \in [Hebras -> Registro]
        /\ \A j \in Hebras : /\ sueltas[j].paso = hebras[j].paso /\ sueltas[j].faltan = hebras[j].faltan
                             /\ sueltas[j].vistas = hebras[j].vistas
    BY <1>0 DEF Registro
  <2>2. /\ \/ hebras' = [sueltas EXCEPT ![i].paso = "mirar", ![i].luego = "seguir"]
           \/ hebras' = [sueltas EXCEPT ![i].paso = "seguir"]
        /\ UNCHANGED <<esperaban, exec>> /\ hebras[i].hilo \in Hilos
        /\ colas' = Encolar(colas, hebras[i].hilo) \/ UNCHANGED colas
    BY <1>0, <1>11 DEF IoDespertar, Sabe, PasosIO
  <2> HIDE DEF sueltas
  <2>3. hebras'[i].paso \in {"mirar", "seguir"} /\ \A j \in Hebras \ {i} : hebras'[j] = sueltas[j]
    BY <2>1, <2>2 DEF Registro
  <2>4. \A j \in Hebras : Recorre(j)' => j # i
    BY <2>3 DEF Recorre
  <2>5. /\ \A p \in Prioridades : TieneHilos(p) => TieneHilos(p)'
        /\ \A h \in Hilos : EnReady(h) => EnReady(h)'
    <3>1. CASE UNCHANGED colas
      BY <3>1 DEF TieneHilos, EnReady
    <3>2. CASE colas' = Encolar(colas, hebras[i].hilo)
      BY <1>0, <2>2, <3>2, ColasCrecen
    <3>3. QED
      BY <2>2, <3>1, <3>2
  <2>6. QED
    BY <1>1, <2>1, <2>2, <2>3, <2>4, <2>5
<1>12. ASSUME NEW h \in Hilos, AtiendeIO(h) \/ AtiendeThreadCreate(h) PROVE Recorridos'
  <2>1. PICK i \in Nueva : \/ hebras' = [hebras EXCEPT ![i] = Hebra("agregar", h, "libre")]
                           \/ hebras' = [hebras EXCEPT ![i] = Hebra("mirar", Nadie, "libre")]
    BY <1>12 DEF AtiendeIO, AtiendeThreadCreate
  <2>2. i \in Hebras
    BY NuevaLibre
  <2>3. ~Recorre(i)' /\ \A j \in Hebras \ {i} : hebras'[j] = hebras[j]
    BY <1>0, <2>1, <2>2 DEF Hebra, Recorre
  <2>4. ExecSuelto /\ UNCHANGED esperaban
    BY <1>12 DEF AtiendeIO, AtiendeThreadCreate, Atiende
  <2>5. QED
    BY <1>4, <2>3, <2>4
<1>13. ASSUME (\E h \in Hilos : AtiendeThreadExit(h) \/ AtiendeDesalojo(h)) \/ Desalojar PROVE Recorridos'
  <2>1. ExecSuelto /\ UNCHANGED esperaban
    BY <1>13 DEF AtiendeThreadExit, AtiendeDesalojo, Desalojar, Atiende
  <2>2. hebras'[0].paso \notin {"recorrer", "sacar"} /\ \A j \in Hebras \ {0} : hebras'[j] = hebras[j]
    BY <1>0, <1>13, Numeros DEF AtiendeThreadExit, AtiendeDesalojo, Desalojar, Hebra, Registro
  <2>3. QED
    BY <1>4, <2>1, <2>2 DEF Recorre
<1>14. ASSUME Reubicar PROVE Recorridos'
  <2>1. /\ hebras[0].hilo \in Hilos /\ colas' = Encolar(colas, hebras[0].hilo)
        /\ UNCHANGED <<esperaban, exec>>
    BY <1>0, <1>14, Numeros DEF Reubicar, Desalojado, Sabe
  <2>2. hebras'[0].paso = "mirar" /\ \A j \in Hebras \ {0} : hebras'[j] = hebras[j]
    BY <1>0, <1>14, Numeros DEF Reubicar, Hebra
  <2>3. \A j \in Hebras : Recorre(j)' => j # 0
    BY <2>2 DEF Recorre
  <2>4. QED
    BY <1>0, <1>1, <2>1, <2>2, <2>3, ColasCrecen
<1>15. ASSUME NEW h \in Hilos, \/ TemporizadorEmpieza(h) \/ AtiendeMutexUnlock(h)
                               \/ \E op \in Peticiones : AtiendeInvalido(op, h)
       PROVE  UNCHANGED <<esperaban, colas, exec, hebras>>
  BY <1>15 DEF TemporizadorEmpieza, AtiendeMutexUnlock, AtiendeInvalido, kernel
<1>16. ASSUME TemporizadorVence \/ Gestor \/ Interrupcion PROVE UNCHANGED <<esperaban, colas, exec, hebras>>
  BY <1>16 DEF TemporizadorVence, Gestor, GestorToma, GestorEnvia, Interrupcion, InterrupcionLlega,
     InterrupcionMarca, kernel
<1>17. ASSUME CpuAvanza \/ CpuSyscall PROVE UNCHANGED <<esperaban, colas, exec, hebras>>
  BY <1>17 DEF CpuAvanza, CpuRecibe, CpuContexto, CpuSinContexto, CpuRecibeRta, CpuDesaloja,
     CpuSigue, CpuSuelta, CpuSyscall, CpuIO, CpuThreadCreate, CpuMutexUnlock, CpuThreadExit, Pide, kernel
<1>18. ASSUME UNCHANGED <<esperaban, colas, exec, hebras>> PROVE Recorridos'
  BY <1>3, <1>18
<1>19. QED
  BY <1>5, <1>6, <1>7, <1>8, <1>9, <1>10, <1>11, <1>12, <1>13, <1>14, <1>15, <1>16, <1>17, <1>18
     DEF Next, Pcp, Io, AtiendeAlgo

-----------------------------------------------------------------------------
LEMMA Inicial ==
  ASSUME Init
  PROVE  IInv
<1> USE DEF Init, Nadie
<1>0. /\ Prioridad[1] \in Prioridades /\ <<1>> \in Seq(Hilos) /\ <<1>> \in Seq(DeCola(Prioridad[1]))
      /\ \A S : <<>> \in Seq(S)
  BY Numeros DEF DeCola
<1>1. Listas
  BY <1>0, Numeros DEF Listas
<1>2. HilosDelKernel
  <2>1. /\ Hebra("mirar", Nadie, "libre") \in Registro /\ Sabe(Hebra("mirar", Nadie, "libre"))
        /\ Inactiva \in Registro /\ Sabe(Inactiva)
    BY HebraNueva DEF Inactiva, Pasos, PasosPcp
  <2>2. QED
    BY <2>1 DEF HilosDelKernel
<1>3. Relojes /\ Interrupciones /\ Conexion
  <2>0. 0 \in 0 .. MaxTemporizadores /\ 0 \in 0 .. MaxContextos
    BY CotasAssumption
  <2>1. Relojes
    <3>1. flag \in [Hilos -> BOOLEAN] /\ armados \in [Hilos -> 0 .. MaxTemporizadores]
      BY <2>0
    <3>2. ultimo \in Hilos \cup {Nadie} /\ alDia \in BOOLEAN
      BY Zenon
    <3>3. dormidos = 0
      BY Zenon
    <3>4. dormidos \in Nat /\ ~(dormidos > 0)
      <4> HIDE DEF Init
      <4>1. QED
        BY <3>3
    <3>5. QED
      BY <3>1, <3>2, <3>4 DEF Relojes
  <2>2. Interrupciones
    BY <1>0, <2>0 DEF Interrupciones
  <2>3. Conexion
    BY <1>0 DEF Conexion
  <2>4. QED
    BY <2>1, <2>2, <2>3
<1>4. Contestar
  <2>1. Len(<<>>) = 0 /\ 1 .. 0 = {}
    BY EmptySeq
  <2>2. \A O : Sin(<<>>, O)
    BY <2>1, Zenon DEF Sin
  <2>3. QED
    BY <2>2, SinUno DEF Contestar
<1>5. PasadaPorVenir
  <2>1. 1 \in Hebras /\ hebras[1].paso = "mirar" /\ hebras[1].faltan = Prioridades
    BY Numeros DEF Hebra
  <2>2. QED
    BY <2>1 DEF PasadaPorVenir, Acude
<1>6. Recorridos
  <2>1. \A i \in Hebras : hebras[i].paso \in {"mirar", "libre"}
    BY DEF Hebra, Inactiva
  <2>2. QED
    BY <2>1 DEF Recorridos, Recorre
<1>7. QED
  BY <1>1, <1>2, <1>3, <1>4, <1>5, <1>6 DEF IInv

LEMMA Paso ==
  ASSUME IInv, [Next]_vars
  PROVE  IInv'
<1>1. CASE Next
  BY <1>1, PasoListas, PasoHilosDelKernel, PasoRelojes, PasoInterrupciones, PasoConexion, PasoContestar,
     PasoPasadaPorVenir, PasoRecorridos DEF IInv
<1>2. CASE UNCHANGED vars
  <2> USE <1>2 DEF vars, kernel, reloj, avisos, cpuVars
  <2>1. Listas' /\ HilosDelKernel'
    BY DEF IInv, Listas, HilosDelKernel, Sabe
  <2>2. Relojes' /\ Interrupciones' /\ Conexion'
    BY DEF IInv, Relojes, Interrupciones, Conexion
  <2>3. Contestar'
    BY DEF IInv, Contestar, Sin, Uno
  <2>4. PasadaPorVenir'
    BY DEF IInv, PasadaPorVenir, TieneHilos
  <2>5. Recorridos'
    BY DEF IInv, Recorridos, Recorre, PorVer, TieneHilos, EnReady
  <2>6. QED
    BY <2>1, <2>2, <2>3, <2>4, <2>5 DEF IInv
<1>3. QED
  BY <1>1, <1>2

LEMMA IInvSiempre == Spec => []IInv
  BY Inicial, Paso, PTL DEF Spec

-----------------------------------------------------------------------------
(* The theorems. *)

\* The variables of the kernel with CMN, of its timers, of its IO queue and of the CPU
\* keep their types, for any number of threads, queues and detached threads: a pass
\* never takes a thread that is none, a request of IO is always of a thread, and the
\* THREAD_CREATE the kernel attends has a thread to create.
THEOREM TiposDelMultinivel == Spec => []TypeOK
<1>1. IInv => TypeOK
  <2>1. ASSUME Listas
        PROVE  /\ \A p \in Prioridades : Range(colas[p]) \subseteq Hilos
               /\ Range(exec) \subseteq Hilos /\ Range(blocked) \subseteq Hilos /\ Range(colaIO) \subseteq Hilos
    BY <2>1, RangoDeSeq DEF Listas
  <2>2. ASSUME HilosDelKernel
        PROVE  \A i \in Hebras :
                 /\ hebras[i].paso \in PasosPcp \cup PasosIO \cup {"libre", "desalojar", "reubicar"}
                 /\ hebras[i].hilo \in Hilos \cup (IF hebras[i].paso \in PasosIO THEN {} ELSE {Nadie})
                 /\ hebras[i].toma \in Hilos \cup {Nadie}
                 /\ hebras[i].faltan \subseteq Prioridades /\ hebras[i].vistas \subseteq Prioridades
    BY <2>2 DEF HilosDelKernel, Registro, Pasos, Sabe
  <2>3. QED
    BY <2>1, <2>2 DEF IInv, Listas, Relojes, Interrupciones, Conexion, Recorridos, TypeOK
<1>2. QED
  BY <1>1, IInvSiempre, PTL

\* Whatever interleaving of the dispatch handler, the detached passes, the requests of
\* IO and the quantum, one look at one queue at a time: with EXEC empty and a thread in
\* a queue, some thread of the kernel is about to look at the queues or has found
\* somebody (todas_las_colas_estan_vacias, atender_CMN and their callers).
THEOREM NingunaPasadaSePierde == Spec => []TrabajoConservado
<1>1. ASSUME IInv PROVE TrabajoConservado
  <2>1. SUFFICES ASSUME NEW h \in Hilos, EnReady(h), exec = <<>>, ~caido
                 PROVE  \E i \in Hebras :
                          hebras[i].paso \in {"mirar", "tomar", "recorrer", "sacar", "desalojar", "reubicar"}
    BY DEF TrabajoConservado
  <2>2. Prioridad[h] \in Prioridades /\ TieneHilos(Prioridad[h])
    BY <1>1, <2>1, Numeros, RangoDeSeq DEF IInv, Listas, EnReady, TieneHilos
  <2>3. QED
    BY <1>1, <2>1, <2>2 DEF IInv, PasadaPorVenir, Acude
<1>2. QED
  BY <1>1, IInvSiempre, PTL

\* What SinAdelantosDesdeElPase promises to h of a thread g that goes to EXEC.
Adelanta(h, g) == \/ Prioridad[g] < Prioridad[h]
                  \/ Prioridad[g] > Prioridad[h] /\ h \notin esperaban

\* The first of a queue is before each other one that waits in it.
LEMMA LaCabeza ==
  ASSUME Listas, NEW p \in Prioridades, TieneHilos(p), NEW h \in Hilos, Prioridad[h] = p, h # Head(colas[p])
  PROVE  DelanteDe(Head(colas[p]), h)
<1> DEFINE g == Head(colas[p])   c == colas[p]
<1>1. g \in Hilos /\ c \in Seq(Hilos) /\ c # <<>>
  BY Elegible DEF Listas, TieneHilos
<1>2. Len(c) \in Nat /\ Len(c) >= 1 /\ DOMAIN c = 1 .. Len(c) /\ c[1] = g
  BY <1>1, LenProperties, EmptySeq, HeadTailProperties
<1>3. 1 \in DOMAIN c
  BY <1>2
<1>4. h \notin Range(SubSeq(c, 1, 1))
  <2>1. /\ SubSeq(c, 1, 1) \in Seq(Hilos) /\ Len(SubSeq(c, 1, 1)) = 1
        /\ SubSeq(c, 1, 1)[1] = g
    BY <1>1, <1>2, SubSeqProperties
  <2>2. DOMAIN SubSeq(c, 1, 1) = 1 .. 1
    BY <2>1, LenProperties
  <2>3. QED
    BY <2>1, <2>2 DEF Range
<1>5. QED
  BY <1>2, <1>3, <1>4 DEF DelanteDe

\* EXEC gets a new thread only from a pass that has walked the queues (atender_CMN).
LEMMA SoloUnaPasada ==
  ASSUME IInv, [Next]_vars, NEW g \in Hilos, ~EnExec(g), EnExec(g)'
  PROVE  \E i \in Hebras : PcpSacar(i) /\ ~UNCHANGED exec
<1>0. exec \in Seq(Hilos)
  BY DEF IInv, Listas
<1>1. ASSUME UNCHANGED exec PROVE FALSE
  BY <1>1 DEF EnExec
<1>2. ASSUME NEW h, exec' = RemoveFirst(exec, h) PROVE FALSE
  BY <1>0, <1>2, RangoDespues DEF EnExec
<1>3. ASSUME NEW i \in Hebras, Io(i) PROVE FALSE
  BY <1>1, <1>2, <1>3 DEF Io, IoAgregar, IoBloquear, IoMirar, IoDormir, IoDespertar, IoSeguir, kernel
<1>4. ASSUME NEW i \in Hebras, PcpMirar(i) \/ PcpTomar(i) \/ PcpRecorrer(i) \/ PcpEnviar(i) \/ PcpArmar(i) PROVE FALSE
  BY <1>1, <1>4 DEF PcpMirar, PcpTomar, PcpRecorrer, PcpEnviar, PcpArmar, kernel
<1>5. ASSUME AtiendeAlgo PROVE FALSE
  BY <1>1, <1>2, <1>5 DEF AtiendeAlgo, AtiendeIO, AtiendeThreadCreate, AtiendeMutexUnlock, AtiendeThreadExit,
     AtiendeDesalojo, AtiendeInvalido, Desalojar, Reubicar, kernel
<1>6. ASSUME NEW h \in Hilos, TemporizadorEmpieza(h) PROVE FALSE
  BY <1>1, <1>6 DEF TemporizadorEmpieza, kernel
<1>7. ASSUME TemporizadorVence \/ Gestor \/ CpuAvanza \/ CpuSyscall \/ Interrupcion PROVE FALSE
  BY <1>1, <1>7 DEF TemporizadorVence, Gestor, GestorToma, GestorEnvia, CpuAvanza, CpuRecibe, CpuContexto,
     CpuSinContexto, CpuRecibeRta, CpuDesaloja, CpuSigue, CpuSuelta, CpuSyscall, CpuIO, CpuThreadCreate,
     CpuMutexUnlock, CpuThreadExit, Pide, Interrupcion, InterrupcionLlega, InterrupcionMarca, kernel
<1>8. CASE UNCHANGED vars
  BY <1>1, <1>8 DEF vars, kernel
<1>9. QED
  BY <1>1, <1>3, <1>4, <1>5, <1>6, <1>7, <1>8 DEF Next, Pcp

\* It is the first of the best queue that had somebody when the pass looked at it; and
\* the walk has seen the queue of each thread that waited when EXEC was locked.
LEMMA LaPasadaElige ==
  ASSUME IInv, [Next]_vars, NEW h \in Hilos, NEW g \in Hilos, PasaA(g, h)
  PROVE  Adelanta(h, g)
<1>1. h # g /\ EnReady(h) /\ ~EnExec(g) /\ EnExec(g)' /\ ~DelanteDe(g, h)
  BY DEF PasaA
<1>2. PICK i \in Hebras : PcpSacar(i) /\ ~UNCHANGED exec
  BY <1>1, SoloUnaPasada
<1> DEFINE p == MejorCola(hebras[i].vistas)
<1>3. /\ p \in Prioridades /\ TieneHilos(p) /\ p \in hebras[i].vistas
      /\ \A q \in hebras[i].vistas : p <= q
      /\ exec' = Append(exec, Head(colas[p]))
  BY <1>2, Sacado
<1> HIDE DEF p
<1>4. Listas /\ exec \in Seq(Hilos) /\ Head(colas[p]) \in Hilos /\ Prioridad[Head(colas[p])] = p
  BY <1>3, Elegible DEF IInv, Listas
<1>5. g = Head(colas[p])
  <2>1. g \in Range(exec) \cup {Head(colas[p])}
    BY <1>1, <1>3, <1>4, RangoDespues DEF EnExec
  <2>2. QED
    BY <1>1, <2>1 DEF EnExec
<1>6. p \in Nat /\ Prioridad[h] \in Nat /\ Prioridad[g] = p
  BY <1>3, <1>4, <1>5, Numeros
<1>7. Prioridad[h] # p
  BY <1>1, <1>3, <1>4, <1>5, LaCabeza
<1>8. ASSUME p > Prioridad[h] PROVE h \notin esperaban
  <2>1. Recorre(i) /\ hebras[i].paso = "sacar"
    BY <1>2 DEF PcpSacar, Recorre
  <2>2. h \in esperaban => Prioridad[h] \in hebras[i].vistas
    BY <2>1 DEF IInv, Recorridos, PorVer
  <2>3. QED
    BY <1>3, <1>6, <1>8, <2>2
<1>9. QED
  BY <1>6, <1>7, <1>8 DEF Adelanta

\* Though each queue is looked at under its own lock and the chosen one gives its first
\* thread later (obtener_siguiente_tcb_a_ejecutar_en_CMN), a pass lets nobody overtake
\* those that waited when it locked EXEC, nor anybody within a queue, for any number of
\* threads, queues and passes at once.  A thread that came later to a queue already seen
\* empty may be overtaken by one of a worse queue.
THEOREM NadieAdelanta == Spec => SinAdelantosDesdeElPase
<1> DEFINE Turno == \A h, g \in Hilos : PasaA(g, h) => Adelanta(h, g)
<1>1. IInv /\ [Next]_vars => Turno
  BY LaPasadaElige
<1>2. Turno => [\A h, g \in Hilos :
                  PasaA(g, h) => \/ Prioridad[g] < Prioridad[h]
                                 \/ Prioridad[g] > Prioridad[h] /\ h \notin esperaban]_vars
  BY DEF Adelanta
<1> HIDE DEF Turno
<1>3. QED
  BY <1>1, <1>2, IInvSiempre, PTL DEF Spec, SinAdelantosDesdeElPase
-----------------------------------------------------------------------------
(***************************************************************************)
(* Interruptions on time: where the thread in EXEC is, from the pass that  *)
(* took it to the step that takes it out.                                  *)
(***************************************************************************)
\* A thread of the kernel about to take one out of EXEC, after its last request.
Recoge(i) == hebras[i].paso \in {"agregar", "bloquear", "desalojar"}

NadieRecoge == \A i \in Hebras : ~Recoge(i)
NadieEnvia  == \A i \in Hebras : hebras[i].paso # "enviar"
SinMensajes == aCpu = <<>> /\ aKernel = <<>>

\* The CPU has no thread, or has sent the last request of the one it had.
CpuFuera == \/ cpu.paso \in {"libre", "suelta"}
            \/ cpu.paso = "ciclo" /\ cpu.op = "IO" /\ ~interrupt

Vacio == exec = <<>> /\ SinMensajes /\ CpuFuera /\ NadieEnvia /\ NadieRecoge

\* A pass has taken it and is about to send it.
Tomado(h) ==
  /\ SinMensajes /\ CpuFuera /\ NadieRecoge
  /\ \E i \in Hebras : /\ hebras[i].paso = "enviar" /\ hebras[i].toma = h
                       /\ \A j \in Hebras \ {i} : hebras[j].paso # "enviar"

Mandado(h) == aCpu = <<Mensaje("EJECUTAR", h)>> /\ aKernel = <<>> /\ CpuFuera /\ NadieEnvia /\ NadieRecoge

\* The requests after which a thread goes on.
Espera(h) ==
  \/ aKernel = <<>> /\ aCpu = <<Mensaje("RTA", Nadie)>>
  \/ aCpu = <<>> /\ \E op \in {"THREAD_CREATE", "MUTEX_UNLOCK"} : aKernel = <<Mensaje(op, h)>>

EnCpu(h) ==
  /\ cpu.hilo = h /\ NadieEnvia /\ NadieRecoge
  /\ \/ cpu.paso = "pide" /\ SinMensajes
     \/ cpu.paso = "corre" /\ SinMensajes /\ contexto = h
     \/ cpu.paso = "espera" /\ cpu.op # "IO" /\ Espera(h) /\ contexto = h
     \/ cpu.paso = "ciclo" /\ cpu.op # "IO" /\ SinMensajes /\ contexto = h

\* The requests with which it leaves.
Devuelto(h) ==
  /\ aCpu = <<>> /\ \E op \in {"IO", "THREAD_EXIT", "DESALOJO"} : aKernel = <<Mensaje(op, h)>>
  /\ CpuFuera /\ NadieEnvia /\ NadieRecoge

Recogido(h) ==
  /\ SinMensajes /\ CpuFuera /\ NadieEnvia
  /\ \E i \in Hebras : Recoge(i) /\ hebras[i].hilo = h /\ \A j \in Hebras \ {i} : ~Recoge(j)

Turno(h) == Tomado(h) \/ Mandado(h) \/ EnCpu(h) \/ Devuelto(h) \/ Recogido(h)

Turnos == Vacio \/ \E h \in Hilos : exec = <<h>> /\ Turno(h)

\* No interruption is on its way.
SinAviso == vencidos = <<>> /\ gestor = Nadie /\ aInterrupt = <<>> /\ ~acepta

\* At most one is, for the thread that computes, until it is in interrupt_flag.
UnAviso ==
  /\ interrupt => cpu.paso \in {"corre", "suelta"} \/ (cpu.paso = "ciclo" /\ cpu.op # "IO")
  /\ \/ SinAviso
     \/ /\ cpu.paso = "corre" /\ ~interrupt
        /\ \/ vencidos = <<cpu.hilo>> /\ gestor = Nadie /\ aInterrupt = <<>> /\ ~acepta
           \/ vencidos = <<>> /\ gestor = cpu.hilo /\ aInterrupt = <<>> /\ ~acepta
           \/ vencidos = <<>> /\ gestor = Nadie /\ aInterrupt = <<cpu.hilo>> /\ ~acepta
           \/ vencidos = <<>> /\ gestor = Nadie /\ aInterrupt = <<>> /\ acepta

\* The thread in EXEC has not asked for anything, nor has its quantum ended.
Empieza ==
  /\ exec # <<>> /\ aKernel = <<>> /\ NadieRecoge
  /\ cpu.paso # "espera" /\ (cpu.paso = "ciclo" => cpu.op = "IO")
  /\ cpu.paso = "corre" => SinAviso /\ ~interrupt

\* A pass that looked at the queues finds somebody, or EXEC taken; and somebody was
\* waiting when one locked EXEC to walk them.
Alguien == \E p \in Prioridades : TieneHilos(p)

TomaConAlguien == (\E i \in Hebras : hebras[i].paso = "tomar") /\ ~Alguien => Empieza

RecorreConAlguien == \A i \in Hebras : Recorre(i) => esperaban # {}

PasadaConAlguien == TomaConAlguien /\ RecorreConAlguien

\* The thread that atender_desalojo took out of EXEC and is to put in its queue.
EnMano(h) == hebras[0].paso = "reubicar" /\ hebras[0].hilo = h

\* No thread is in two places, nor twice in one.
UnLugar ==
  \A h \in Hilos :
    /\ h \in Range(exec) => ~EnReady(h) /\ h \notin Range(blocked) /\ h \notin salidos
    /\ EnReady(h) => h \notin Range(blocked) /\ h \notin salidos
    /\ h \in Range(blocked) => h \notin salidos
    /\ h \notin creados => ~EnReady(h) /\ h \notin Range(exec) /\ h \notin Range(blocked) /\ h \notin salidos
    /\ EnMano(h) => /\ h \in creados /\ ~EnReady(h)
                    /\ h \notin Range(exec) /\ h \notin Range(blocked) /\ h \notin salidos
    /\ IsInjective(colas[Prioridad[h]]) /\ IsInjective(blocked)

EInv == Turnos /\ UnAviso /\ PasadaConAlguien /\ UnLugar
-----------------------------------------------------------------------------
(* Where the thread in EXEC is. *)

\* Lists of one element.
LEMMA Unico ==
  /\ \A h : /\ <<h>> # <<>> /\ <<h>>[1] = h /\ Head(<<h>>) = h /\ Tail(<<h>>) = <<>>
            /\ Append(<<>>, h) = <<h>> /\ Len(<<h>>) = 1 /\ Range(<<h>>) = {h}
  /\ \A h, g : <<h>> = <<g>> => h = g
  /\ Len(<<>>) = 0 /\ Range(<<>>) = {}
<1>1. \A h : /\ <<h>> # <<>> /\ <<h>>[1] = h /\ Head(<<h>>) = h /\ Tail(<<h>>) = <<>>
             /\ Append(<<>>, h) = <<h>> /\ Len(<<h>>) = 1 /\ Range(<<h>>) = {h}
  <2> TAKE h
  <2>1. <<h>> # <<>> /\ <<h>>[1] = h /\ Head(<<h>>) = h /\ Len(<<h>>) = 1 /\ Append(<<>>, h) = <<h>>
    OBVIOUS
  <2>2. Tail(<<h>>) = <<>>
    OBVIOUS
  <2>3. Range(<<h>>) = {h}
    BY DEF Range
  <2>4. QED
    BY <2>1, <2>2, <2>3
<1>2. \A h, g : <<h>> = <<g>> => h = g
  OBVIOUS
<1>3. Len(<<>>) = 0 /\ Range(<<>>) = {}
  BY DEF Range
<1>4. QED
  BY <1>1, <1>2, <1>3

\* The only occurrence is removed.
LEMMA QuitaUnico ==
  ASSUME NEW h \in Hilos
  PROVE  RemoveFirst(<<h>>, h) = <<>>
<1>1. <<h>> \in Seq(Hilos) /\ <<h>> # <<>>
  OBVIOUS
<1>2. RemoveFirst(<<h>>, <<h>>[1]) = Tail(<<h>>)
  BY <1>1, RemoveFirstCabeza
<1>3. QED
  BY <1>2, Unico, Zenon

\* What the step of each part says of the place of the thread in EXEC.
LEMMA Etapas ==
  ASSUME Turnos
  PROVE  /\ exec = <<>> => Vacio
         /\ \A i \in Hebras : hebras[i].paso = "enviar" => exec = <<hebras[i].toma>> /\ Tomado(hebras[i].toma)
         /\ \A i \in Hebras : Recoge(i) => exec = <<hebras[i].hilo>> /\ Recogido(hebras[i].hilo)
         /\ aCpu # <<>> /\ Head(aCpu).op = "EJECUTAR" => \E h \in Hilos : exec = <<h>> /\ Mandado(h)
         /\ aKernel # <<>> => \E h \in Hilos : exec = <<h>> /\ (EnCpu(h) \/ Devuelto(h))
         /\ ~CpuFuera => \E h \in Hilos : exec = <<h>> /\ EnCpu(h)
<1>1. exec = <<>> => Vacio
  BY Unico DEF Turnos
<1>2. ASSUME NEW i \in Hebras, hebras[i].paso = "enviar"
      PROVE  exec = <<hebras[i].toma>> /\ Tomado(hebras[i].toma)
  <2>1. ~NadieEnvia
    BY <1>2 DEF NadieEnvia
  <2>2. PICK h \in Hilos : exec = <<h>> /\ Turno(h)
    BY <2>1 DEF Turnos, Vacio
  <2>3. Tomado(h)
    BY <2>1, <2>2 DEF Turno, Mandado, EnCpu, Devuelto, Recogido
  <2>4. hebras[i].toma = h
    BY <1>2, <2>3 DEF Tomado
  <2>5. QED
    BY <2>2, <2>3, <2>4
<1>3. ASSUME NEW i \in Hebras, Recoge(i)
      PROVE  exec = <<hebras[i].hilo>> /\ Recogido(hebras[i].hilo)
  <2>1. ~NadieRecoge
    BY <1>3 DEF NadieRecoge
  <2>2. PICK h \in Hilos : exec = <<h>> /\ Turno(h)
    BY <2>1 DEF Turnos, Vacio
  <2>3. Recogido(h)
    BY <2>1, <2>2 DEF Turno, Mandado, EnCpu, Devuelto, Tomado
  <2>4. hebras[i].hilo = h
    BY <1>3, <2>3 DEF Recogido
  <2>5. QED
    BY <2>2, <2>3, <2>4
<1>4. ASSUME aCpu # <<>>, Head(aCpu).op = "EJECUTAR"
      PROVE  \E h \in Hilos : exec = <<h>> /\ Mandado(h)
  <2>1. ~SinMensajes
    BY <1>4 DEF SinMensajes
  <2>2. PICK h \in Hilos : exec = <<h>> /\ Turno(h)
    BY <2>1 DEF Turnos, Vacio
  <2>3. aCpu # <<Mensaje("RTA", Nadie)>>
    BY <1>4, Unico DEF Mensaje
  <2>4. Mandado(h)
    BY <1>4, <2>1, <2>2, <2>3 DEF Turno, Tomado, EnCpu, Espera, Devuelto, Recogido
  <2>5. QED
    BY <2>2, <2>4
<1>5. ASSUME aKernel # <<>>
      PROVE  \E h \in Hilos : exec = <<h>> /\ (EnCpu(h) \/ Devuelto(h))
  <2>1. ~SinMensajes
    BY <1>5 DEF SinMensajes
  <2>2. PICK h \in Hilos : exec = <<h>> /\ Turno(h)
    BY <2>1 DEF Turnos, Vacio
  <2>3. QED
    BY <1>5, <2>1, <2>2 DEF Turno, Tomado, Mandado, Recogido
<1>6. ASSUME ~CpuFuera PROVE \E h \in Hilos : exec = <<h>> /\ EnCpu(h)
  BY <1>6 DEF Turnos, Vacio, Turno, Tomado, Mandado, Devuelto, Recogido
<1>7. QED
  BY <1>1, <1>2, <1>3, <1>4, <1>5, <1>6

\* The thread computes or asks only from the CPU.
LEMMA SiEnCpu ==
  ASSUME NEW h, EnCpu(h)
  PROVE  ~CpuFuera
  BY DEF EnCpu, CpuFuera

\* A thread of the kernel that goes on with what it has to do with the thread in EXEC.
MismaHebra(i) ==
  /\ hebras'[i].paso = "enviar" <=> hebras[i].paso = "enviar"
  /\ hebras[i].paso = "enviar" => hebras'[i].toma = hebras[i].toma
  /\ hebras'[i].paso \in {"agregar", "bloquear", "desalojar"} <=> Recoge(i)
  /\ Recoge(i) => hebras'[i].hilo = hebras[i].hilo

\* Steps that leave the thread in EXEC where it is.
LEMMA TurnosIgual ==
  ASSUME Turnos, \A i \in Hebras : MismaHebra(i), UNCHANGED <<exec, aCpu, aKernel>>,
         \/ UNCHANGED <<cpu, contexto>> /\ (CpuFuera => CpuFuera')
         \/ CpuFuera /\ CpuFuera'
  PROVE  Turnos'
<1>1. /\ NadieEnvia' <=> NadieEnvia
      /\ NadieRecoge' <=> NadieRecoge
      /\ SinMensajes' <=> SinMensajes
      /\ CpuFuera => CpuFuera'
  BY DEF NadieEnvia, NadieRecoge, Recoge, MismaHebra, SinMensajes
<1>2. CASE Vacio
  BY <1>1, <1>2 DEF Vacio, Turnos
<1>3. ASSUME NEW h \in Hilos, exec = <<h>>, Turno(h) PROVE Turnos'
  <2>1. CASE Tomado(h)
    <3>1. Tomado(h)'
      BY <1>1, <2>1 DEF Tomado, MismaHebra
    <3>2. QED
      BY <1>3, <3>1 DEF Turnos, Turno
  <2>2. CASE Mandado(h)
    <3>1. Mandado(h)'
      BY <1>1, <2>2 DEF Mandado
    <3>2. QED
      BY <1>3, <3>1 DEF Turnos, Turno
  <2>3. CASE EnCpu(h)
    <3>1. UNCHANGED <<cpu, contexto>>
      BY <2>3, SiEnCpu
    <3>2. EnCpu(h)'
      BY <1>1, <2>3, <3>1 DEF EnCpu, Espera, SinMensajes
    <3>3. QED
      BY <1>3, <3>2 DEF Turnos, Turno
  <2>4. CASE Devuelto(h)
    <3>1. Devuelto(h)'
      BY <1>1, <2>4 DEF Devuelto
    <3>2. QED
      BY <1>3, <3>1 DEF Turnos, Turno
  <2>5. CASE Recogido(h)
    <3>1. Recogido(h)'
      BY <1>1, <2>5 DEF Recogido, Recoge, MismaHebra
    <3>2. QED
      BY <1>3, <3>1 DEF Turnos, Turno
  <2>6. QED
    BY <1>3, <2>1, <2>2, <2>3, <2>4, <2>5 DEF Turno
<1>4. QED
  BY <1>2, <1>3 DEF Turnos

\* A step of a thread of the kernel that is not about to send, nor to take out of EXEC.
Otra(r) == r.paso \notin {"enviar", "agregar", "bloquear", "desalojar"}

\* Threads of the kernel of which nothing depends here.
LEMMA MismasHebras ==
  ASSUME \A j \in Hebras : hebras'[j] = hebras[j] \/ (Otra(hebras[j]) /\ Otra(hebras'[j]))
  PROVE  \A j \in Hebras : MismaHebra(j)
BY DEF Otra, MismaHebra, Recoge

\* The steps that only concern the scheduling pass, its timers and the interruption.
LEMMA TurnosDelKernel ==
  ASSUME IInv, EInv,
         \/ \E i \in Hebras : \/ PcpMirar(i) \/ PcpTomar(i) \/ PcpRecorrer(i) \/ (PcpSacar(i) /\ UNCHANGED exec)
                              \/ PcpArmar(i)
                              \/ IoAgregar(i) \/ IoMirar(i) \/ IoDormir(i) \/ IoSeguir(i) \/ IoDespertar(i)
         \/ \E h \in Hilos : TemporizadorEmpieza(h)
         \/ Reubicar \/ TemporizadorVence \/ Gestor \/ Interrupcion
  PROVE  Turnos'
<1> USE DEF PasosPcp, PasosIO
<1>0. Turnos /\ UnAviso /\ hebras \in [Hebras -> Registro]
  BY DEF EInv, IInv, HilosDelKernel
<1>1. ASSUME NEW i \in Hebras, NEW r, hebras' = [hebras EXCEPT ![i] = r], Otra(r), Otra(hebras[i])
      PROVE  \A j \in Hebras : MismaHebra(j)
  <2>1. \A j \in Hebras : hebras'[j] = hebras[j] \/ (Otra(hebras[j]) /\ Otra(hebras'[j]))
    BY <1>0, <1>1
  <2>2. QED
    BY <2>1, MismasHebras
<1>1a. ASSUME NEW i \in Hebras, \A j \in Hebras \ {i} : hebras'[j] = hebras[j],
              Otra(hebras[i]), Otra(hebras'[i])
       PROVE  \A j \in Hebras : MismaHebra(j)
  BY <1>1a, MismasHebras
<1>2. \A i \in Hebras : hebras[i].luego \notin {"tomar", "enviar", "agregar", "bloquear", "desalojar"}
  BY <1>0 DEF Registro
<1>3. ASSUME UNCHANGED <<exec, aCpu, aKernel, cpuVars>>, \A i \in Hebras : MismaHebra(i)
      PROVE  Turnos'
  <2>1. UNCHANGED <<cpu, contexto>> /\ CpuFuera' = CpuFuera
    BY <1>3 DEF cpuVars, CpuFuera
  <2>2. QED
    BY <1>0, <1>3, <2>1, TurnosIgual
<1>4. ASSUME NEW i \in Hebras, PcpMirar(i) \/ PcpTomar(i) \/ PcpRecorrer(i) PROVE Turnos'
  <2>1. /\ UNCHANGED <<exec, aCpu, aKernel, cpuVars>> /\ \A j \in Hebras \ {i} : hebras'[j] = hebras[j]
        /\ hebras[i].paso \in {"mirar", "tomar", "recorrer"}
    BY <1>0, <1>4 DEF PcpMirar, PcpTomar, PcpRecorrer, kernel
  <2>2. hebras'[i].paso \in {hebras[i].luego, "mirar", "tomar", "recorrer", "sacar"}
    <3>1. hebras[i] \in Registro
      BY <1>0
    <3>2. CASE PcpMirar(i)
      BY <1>0, <3>1, <3>2 DEF PcpMirar, Registro
    <3>3. CASE PcpTomar(i)
      BY <1>0, <3>1, <3>3 DEF PcpTomar, Registro
    <3>4. CASE PcpRecorrer(i)
      BY <1>0, <3>1, <3>4 DEF PcpRecorrer, Registro
    <3>5. QED
      BY <1>4, <3>2, <3>3, <3>4
  <2>3. Otra(hebras[i]) /\ Otra(hebras'[i])
    BY <1>2, <2>1, <2>2 DEF Otra
  <2>4. QED
    BY <1>1a, <1>3, <2>1, <2>3
<1>5. ASSUME NEW i \in Hebras, PcpArmar(i) PROVE Turnos'
  <2> DEFINE r == [hebras[i] EXCEPT !.paso = hebras[i].luego, !.toma = Nadie]
  <2>1. hebras[i].paso = "armar" /\ hebras' = [hebras EXCEPT ![i] = r]
    BY <1>0, <1>5 DEF PcpArmar, Registro
  <2>2. Otra(r) /\ Otra(hebras[i])
    BY <1>0, <1>2, <1>5, <2>1 DEF Otra, Registro
  <2>3. QED
    BY <1>1, <1>3, <1>5, <2>1, <2>2 DEF PcpArmar, kernel
<1>6. ASSUME NEW i \in Hebras, PcpSacar(i), UNCHANGED exec PROVE Turnos'
  <2>1. UNCHANGED <<hebras, exec, aCpu, aKernel, cpuVars>>
    BY <1>6, SacaAlguien DEF PcpSacar
  <2>2. QED
    BY <1>3, <2>1, MismasHebras
<1>7. ASSUME NEW i \in Hebras, IoAgregar(i) PROVE Turnos'
  <2>1. hebras[i].paso = "agregar" /\ hebras' = [hebras EXCEPT ![i].paso = "bloquear"]
    BY <1>7 DEF IoAgregar
  <2>2. \A j \in Hebras : MismaHebra(j)
    BY <1>0, <2>1 DEF MismaHebra, Recoge, Registro
  <2>3. QED
    BY <1>3, <1>7, <2>2 DEF IoAgregar, kernel
<1>8. ASSUME NEW i \in Hebras, IoMirar(i) PROVE Turnos'
  <2>1. /\ hebras[i].paso = "mirarIO"
        /\ \/ hebras' = [hebras EXCEPT ![i] = Hebra("dormir", hebras[i].hilo, "libre")]
           \/ hebras' = [hebras EXCEPT ![i] = Inactiva]
    BY <1>8 DEF IoMirar
  <2>2. Otra(Hebra("dormir", hebras[i].hilo, "libre")) /\ Otra(Inactiva) /\ Otra(hebras[i])
    BY <2>1 DEF Otra, Hebra, Inactiva
  <2>3. QED
    BY <1>1, <1>3, <1>8, <2>1, <2>2 DEF IoMirar, kernel
<1>9. ASSUME NEW i \in Hebras, IoDormir(i) PROVE Turnos'
  <2> DEFINE r == [hebras[i] EXCEPT !.paso = "despertar"]
  <2>1. hebras[i].paso = "dormir" /\ hebras' = [hebras EXCEPT ![i] = r]
    BY <1>9 DEF IoDormir
  <2>2. Otra(r) /\ Otra(hebras[i])
    BY <1>0, <2>1 DEF Otra, Registro
  <2>3. QED
    BY <1>1, <1>3, <1>9, <2>1, <2>2 DEF IoDormir, kernel
<1>10. ASSUME NEW i \in Hebras, IoSeguir(i) PROVE Turnos'
  <2>1. hebras[i].paso = "seguir" /\ hebras' = [hebras EXCEPT ![i] = SiguienteIO]
    BY <1>10 DEF IoSeguir
  <2>2. Otra(SiguienteIO) /\ Otra(hebras[i])
    BY <2>1 DEF Otra, SiguienteIO, Hebra, Inactiva
  <2>3. QED
    BY <1>1, <1>3, <1>10, <2>1, <2>2 DEF IoSeguir, kernel
<1>11. ASSUME NEW i \in Hebras, IoDespertar(i) PROVE Turnos'
  <2> DEFINE sueltas == [j \in Hebras |-> IF j \in MismoSleep(i)
                                          THEN [hebras[j] EXCEPT !.colgado = TRUE] ELSE hebras[j]]
  <2>1. /\ sueltas \in [Hebras -> Registro] /\ sueltas[i] = hebras[i]
        /\ \A j \in Hebras : sueltas[j] = hebras[j] \/ (Otra(hebras[j]) /\ Otra(sueltas[j]))
    <3>1. ASSUME NEW g \in Registro
          PROVE  /\ [g EXCEPT !.colgado = TRUE] \in Registro
                 /\ Otra(g) => Otra([g EXCEPT !.colgado = TRUE])
      BY ONLY <3>1 DEF Registro, Otra
    <3>2. \A j \in Hebras : hebras[j] \in Registro
      BY <1>0
    <3>3. i \notin MismoSleep(i) /\ \A j \in MismoSleep(i) : Otra(hebras[j])
      BY DEF MismoSleep, Otra
    <3>4. QED
      BY ONLY <3>1, <3>2, <3>3, i \in Hebras
  <2>2. /\ hebras[i].paso = "despertar"
        /\ \/ hebras' = [sueltas EXCEPT ![i].paso = "mirar", ![i].luego = "seguir"]
           \/ hebras' = [sueltas EXCEPT ![i].paso = "seguir"]
    BY <1>11 DEF IoDespertar
  <2> HIDE DEF sueltas
  <2>3. /\ \A j \in Hebras \ {i} : hebras'[j] = sueltas[j]
        /\ hebras'[i].paso \in {"mirar", "seguir"}
    BY <2>1, <2>2 DEF Registro
  <2>4. \A j \in Hebras : hebras'[j] = hebras[j] \/ (Otra(hebras[j]) /\ Otra(hebras'[j]))
    BY <2>1, <2>2, <2>3 DEF Otra
  <2>5. UNCHANGED <<exec, aCpu, aKernel, cpuVars>>
    BY <1>11 DEF IoDespertar
  <2>6. QED
    BY <1>3, <2>4, <2>5, MismasHebras
<1>12. ASSUME UNCHANGED hebras PROVE \A j \in Hebras : MismaHebra(j)
  BY <1>12, MismasHebras
<1>13. ASSUME \/ \E h \in Hilos : TemporizadorEmpieza(h)
              \/ TemporizadorVence \/ Gestor \/ InterrupcionLlega
       PROVE  Turnos'
  <2>1. UNCHANGED <<hebras, exec, aCpu, aKernel, cpuVars>>
    BY <1>13 DEF TemporizadorEmpieza, TemporizadorVence, Gestor, GestorToma, GestorEnvia, InterrupcionLlega, kernel
  <2>2. QED
    BY <1>3, <1>12, <2>1
<1>14. ASSUME InterrupcionMarca PROVE Turnos'
  <2>1. UNCHANGED <<hebras, exec, aCpu, aKernel, cpu, contexto>> /\ acepta
    BY <1>14 DEF InterrupcionMarca, kernel
  <2>2. ~CpuFuera
    BY <1>0, <2>1 DEF UnAviso, SinAviso, CpuFuera
  <2>3. QED
    BY <1>0, <1>12, <2>1, <2>2, TurnosIgual
<1>15. ASSUME Reubicar PROVE Turnos'
  <2>1. /\ hebras[0].paso = "reubicar" /\ hebras' = [hebras EXCEPT ![0] = Hebra("mirar", Nadie, "libre")]
        /\ UNCHANGED <<exec, aCpu, aKernel, cpuVars>> /\ 0 \in Hebras
    BY <1>15, Numeros DEF Reubicar
  <2>2. Otra(hebras[0]) /\ Otra(Hebra("mirar", Nadie, "libre"))
    BY <2>1 DEF Otra, Hebra
  <2>3. QED
    BY <1>1, <1>3, <2>1, <2>2
<1>16. QED
  BY <1>4, <1>5, <1>6, <1>7, <1>8, <1>9, <1>10, <1>11, <1>13, <1>14, <1>15 DEF Interrupcion

\* The steps that take a thread to EXEC, send it, and take it out.
LEMMA TurnosDePasada ==
  ASSUME IInv, EInv,
         \/ \E i \in Hebras : (PcpSacar(i) /\ ~UNCHANGED exec) \/ PcpEnviar(i) \/ IoBloquear(i)
         \/ Desalojar
  PROVE  Turnos'
<1>0. Turnos /\ hebras \in [Hebras -> Registro] /\ Listas /\ HilosDelKernel
  BY DEF EInv, IInv, HilosDelKernel
<1>1. ASSUME NEW i \in Hebras, PcpSacar(i), ~UNCHANGED exec PROVE Turnos'
  <2> DEFINE p == MejorCola(hebras[i].vistas)
  <2>1. /\ p \in Prioridades /\ TieneHilos(p) /\ exec = <<>> /\ exec' = Append(exec, Head(colas[p]))
        /\ hebras' = [hebras EXCEPT ![i].paso = "enviar", ![i].toma = Head(colas[p]), ![i].vistas = {}]
    BY <1>1, Sacado
  <2> HIDE DEF p
  <2>2. PICK h \in Hilos : h = Head(colas[p])
    BY <1>0, <2>1, Elegible
  <2>3. Vacio /\ exec' = <<h>> /\ UNCHANGED <<aCpu, aKernel, cpuVars>>
    BY <1>0, <1>1, <2>1, <2>2, Unico, Etapas DEF PcpSacar
  <2>4. /\ \A j \in Hebras \ {i} : hebras'[j] = hebras[j]
        /\ hebras'[i].paso = "enviar" /\ hebras'[i].toma = h
    BY <1>0, <2>1, <2>2 DEF Registro
  <2>5. NadieRecoge'
    BY <2>3, <2>4 DEF Vacio, NadieRecoge, Recoge
  <2>6. SinMensajes' /\ CpuFuera'
    BY <2>3 DEF Vacio, SinMensajes, CpuFuera, cpuVars
  <2>7. \A j \in Hebras \ {i} : hebras'[j].paso # "enviar"
    BY <2>3, <2>4 DEF Vacio, NadieEnvia
  <2>8. Tomado(h)'
    BY <2>4, <2>5, <2>6, <2>7 DEF Tomado
  <2>9. QED
    BY <2>3, <2>8 DEF Turnos, Turno
<1>2. ASSUME NEW i \in Hebras, PcpEnviar(i) PROVE Turnos'
  <2>1. /\ hebras[i].paso = "enviar" /\ hebras' = [hebras EXCEPT ![i].paso = "armar"]
        /\ aCpu' = Append(aCpu, Mensaje("EJECUTAR", hebras[i].toma))
        /\ UNCHANGED <<exec, aKernel, cpuVars>>
    BY <1>2 DEF PcpEnviar, kernel
  <2>2. PICK h \in Hilos : h = hebras[i].toma
    BY <1>0, <2>1 DEF HilosDelKernel, Sabe
  <2>3. exec = <<h>> /\ Tomado(h)
    BY <1>0, <2>1, <2>2, Etapas
  <2>4. hebras'[i].paso = "armar" /\ \A j \in Hebras \ {i} : hebras'[j] = hebras[j]
    BY <1>0, <2>1 DEF Registro
  <2>5. NadieEnvia' /\ NadieRecoge'
    <3>1. \A j \in Hebras \ {i} : hebras[j].paso # "enviar"
      BY <2>1, <2>3 DEF Tomado
    <3>2. NadieEnvia'
      BY <2>4, <3>1 DEF NadieEnvia
    <3>3. NadieRecoge'
      BY <2>3, <2>4 DEF Tomado, NadieRecoge, Recoge
    <3>4. QED
      BY <3>2, <3>3
  <2>6. aCpu' = <<Mensaje("EJECUTAR", h)>> /\ aKernel' = <<>>
    BY <2>1, <2>2, <2>3, Unico DEF Tomado, SinMensajes
  <2>7. CpuFuera'
    BY <2>1, <2>3 DEF Tomado, CpuFuera, cpuVars
  <2>8. Mandado(h)'
    BY <2>5, <2>6, <2>7 DEF Mandado, Mensaje
  <2>9. exec' = <<h>>
    BY <2>1, <2>3
  <2>10. QED
    BY <2>8, <2>9 DEF Turnos, Turno
\* Out of EXEC.
<1>3. ASSUME NEW i \in Hebras, Recoge(i), NEW p \in {"mirar", "mirarIO", "reubicar"},
             hebras'[i].paso = p, \A j \in Hebras \ {i} : hebras'[j] = hebras[j],
             exec' = RemoveFirst(exec, hebras[i].hilo), UNCHANGED <<aCpu, aKernel, cpuVars>>
      PROVE  Turnos'
  <2>1. PICK h \in Hilos : h = hebras[i].hilo
    BY <1>0, <1>3 DEF HilosDelKernel, Sabe, Recoge, PasosIO
  <2>2. exec = <<h>> /\ Recogido(h)
    BY <1>0, <1>3, <2>1, Etapas
  <2>3. exec' = <<>>
    BY <1>3, <2>1, <2>2, QuitaUnico
  <2>4. NadieEnvia'
    BY <1>3, <2>2 DEF Recogido, NadieEnvia
  <2>5. NadieRecoge'
    BY <1>3, <2>2 DEF Recogido, NadieRecoge, Recoge
  <2>6. SinMensajes' /\ CpuFuera'
    BY <1>3, <2>2 DEF Recogido, SinMensajes, CpuFuera, cpuVars
  <2>7. QED
    BY <2>3, <2>4, <2>5, <2>6 DEF Turnos, Vacio
<1>4. ASSUME NEW i \in Hebras, IoBloquear(i) PROVE Turnos'
  <2>1. hebras[i].paso = "bloquear" /\ UNCHANGED <<aCpu, aKernel, cpuVars>>
    BY <1>4 DEF IoBloquear
  <2>2. Recoge(i)
    BY <2>1 DEF Recoge
  <2>3. exec = <<hebras[i].hilo>>
    BY <1>0, <2>2, Etapas
  <2>4. EnExec(hebras[i].hilo)
    BY <2>3, Unico DEF EnExec
  <2>5. /\ exec' = RemoveFirst(exec, hebras[i].hilo)
        /\ hebras' = [hebras EXCEPT ![i].paso = "mirar", ![i].luego = "mirarIO"]
    BY <1>4, <2>4 DEF IoBloquear
  <2>6. hebras'[i].paso = "mirar" /\ \A j \in Hebras \ {i} : hebras'[j] = hebras[j]
    BY <1>0, <2>5 DEF Registro
  <2>7. QED
    BY <1>3, <2>1, <2>2, <2>5, <2>6
<1>5. ASSUME Desalojar PROVE Turnos'
  <2>1. /\ hebras[0].paso = "desalojar" /\ exec' = RemoveFirst(exec, hebras[0].hilo)
        /\ hebras' = [hebras EXCEPT ![0].paso = "reubicar"]
        /\ UNCHANGED <<aCpu, aKernel, cpuVars>>
    BY <1>5 DEF Desalojar
  <2>2. 0 \in Hebras /\ Recoge(0)
    BY <2>1, Numeros DEF Recoge
  <2>3. hebras'[0].paso = "reubicar" /\ \A j \in Hebras \ {0} : hebras'[j] = hebras[j]
    BY <1>0, <2>1, <2>2 DEF Registro
  <2>4. QED
    BY <1>3, <2>1, <2>2, <2>3
<1>6. QED
  BY <1>1, <1>2, <1>4, <1>5

\* What the kernel attends: a request with an answer, or one with which the thread leaves.
LEMMA TurnosDeAtiende ==
  ASSUME IInv, EInv, NEW h \in Hilos, NEW op \in Peticiones, Atiende(op, h)
  PROVE  /\ exec = <<h>> /\ EnExec(h) /\ aKernel' = <<>> /\ aCpu = <<>>
         /\ op \in ConRta => EnCpu(h) /\ cpu.paso = "espera" /\ cpu.op # "IO"
         /\ op \notin ConRta => Devuelto(h)
<1>1. Turnos /\ aKernel # <<>> /\ Head(aKernel) = Mensaje(op, h) /\ aKernel' = Tail(aKernel)
  BY DEF EInv, Atiende
<1>2. PICK g \in Hilos : exec = <<g>> /\ (EnCpu(g) \/ Devuelto(g))
  BY <1>1, Etapas
<1>3. ASSUME NEW o, aKernel = <<Mensaje(o, g)>> PROVE o = op /\ g = h /\ aKernel' = <<>>
  <2>1. Mensaje(o, g) = Mensaje(op, h) /\ aKernel' = <<>>
    BY <1>1, <1>3, Unico
  <2>2. QED
    BY <2>1 DEF Mensaje
<1>4. CASE EnCpu(g)
  <2>1. cpu.paso = "espera" /\ cpu.op # "IO" /\ Espera(g)
    BY <1>1, <1>2, <1>4 DEF EnCpu, SinMensajes
  <2>2. PICK o \in {"THREAD_CREATE", "MUTEX_UNLOCK"} : aKernel = <<Mensaje(o, g)>> /\ aCpu = <<>>
    BY <1>1, <2>1 DEF Espera
  <2>3. o = op /\ g = h /\ aKernel' = <<>>
    BY <1>3, <2>2
  <2>4. QED
    BY <1>2, <1>4, <2>1, <2>2, <2>3, Unico DEF ConRta, EnExec
<1>5. CASE Devuelto(g)
  <2>1. PICK o \in {"IO", "THREAD_EXIT", "DESALOJO"} : aKernel = <<Mensaje(o, g)>> /\ aCpu = <<>>
    BY <1>5 DEF Devuelto
  <2>2. o = op /\ g = h /\ aKernel' = <<>>
    BY <1>3, <2>1
  <2>3. QED
    BY <1>2, <1>5, <2>1, <2>2, Unico DEF ConRta, EnExec
<1>6. QED
  BY <1>2, <1>4, <1>5

\* The steps of the dispatch handler.
LEMMA TurnosDeAtenderAlgo ==
  ASSUME IInv, EInv, AtiendeAlgo
  PROVE  Turnos'
<1> USE DEF Peticiones, ConRta
<1>0. Turnos /\ hebras \in [Hebras -> Registro]
  BY DEF EInv, IInv, HilosDelKernel
\* The thread goes on.
<1>1. ASSUME NEW h \in Hilos, NEW op \in {"THREAD_CREATE", "MUTEX_UNLOCK"}, Atiende(op, h),
             aCpu' = Append(aCpu, Mensaje("RTA", Nadie)), UNCHANGED <<exec, cpuVars>>,
             \A i \in Hebras : hebras'[i] = hebras[i] \/ (Otra(hebras[i]) /\ Otra(hebras'[i]))
      PROVE  Turnos'
  <2>1. /\ exec = <<h>> /\ aKernel' = <<>> /\ aCpu = <<>>
        /\ EnCpu(h) /\ cpu.paso = "espera" /\ cpu.op # "IO"
    BY <1>1, TurnosDeAtiende
  <2>2. aCpu' = <<Mensaje("RTA", Nadie)>>
    BY <1>1, <2>1, Unico
  <2>3. \A i \in Hebras : MismaHebra(i)
    BY <1>1, MismasHebras
  <2>4. NadieEnvia' /\ NadieRecoge'
    BY <2>1, <2>3 DEF EnCpu, NadieEnvia, NadieRecoge, Recoge, MismaHebra
  <2>5. Espera(h)'
    BY <2>1, <2>2 DEF Espera, Mensaje, Nadie
  <2>6. EnCpu(h)'
    BY <1>1, <2>1, <2>4, <2>5 DEF EnCpu, cpuVars
  <2>7. exec' = <<h>>
    BY <1>1, <2>1
  <2>8. QED
    BY <2>6, <2>7 DEF Turnos, Turno
\* The thread leaves, and a thread of the kernel is to take it out of EXEC.
<1>2. ASSUME NEW h \in Hilos, NEW op \in {"IO", "DESALOJO"}, Atiende(op, h), UNCHANGED <<exec, aCpu, cpuVars>>,
             NEW i \in Hebras, NEW p \in {"agregar", "desalojar"}, hebras' = [hebras EXCEPT ![i] = Hebra(p, h, "libre")]
      PROVE  Turnos'
  <2>1. exec = <<h>> /\ aKernel' = <<>> /\ aCpu = <<>> /\ Devuelto(h)
    BY <1>2, TurnosDeAtiende
  <2>2. /\ hebras'[i].paso = p /\ hebras'[i].hilo = h
        /\ \A j \in Hebras \ {i} : hebras'[j] = hebras[j]
    BY <1>0, <1>2 DEF Hebra
  <2>3. NadieEnvia'
    BY <2>1, <2>2 DEF Devuelto, NadieEnvia
  <2>4. Recoge(i)' /\ \A j \in Hebras \ {i} : ~Recoge(j)'
    BY <2>1, <2>2 DEF Devuelto, NadieRecoge, Recoge
  <2>5. SinMensajes' /\ CpuFuera'
    BY <1>2, <2>1 DEF Devuelto, SinMensajes, CpuFuera, cpuVars
  <2>6. Recogido(h)'
    BY <2>2, <2>3, <2>4, <2>5 DEF Recogido
  <2>7. exec' = <<h>>
    BY <1>2, <2>1
  <2>8. QED
    BY <2>6, <2>7 DEF Turnos, Turno
<1>3. ASSUME NEW h \in Hilos, AtiendeIO(h) PROVE Turnos'
  <2>1. PICK i \in Nueva : hebras' = [hebras EXCEPT ![i] = Hebra("agregar", h, "libre")]
    BY <1>3 DEF AtiendeIO
  <2>2. i \in Hebras
    BY NuevaLibre
  <2>3. Atiende("IO", h) /\ UNCHANGED <<exec, aCpu, cpuVars>>
    BY <1>3 DEF AtiendeIO, kernel
  <2>4. QED
    BY <1>2, <2>1, <2>2, <2>3
<1>4. ASSUME NEW h \in Hilos, AtiendeDesalojo(h) PROVE Turnos'
  <2>1. hebras' = [hebras EXCEPT ![0] = Hebra("desalojar", h, "libre")] /\ 0 \in Hebras
    BY <1>4, Numeros DEF AtiendeDesalojo
  <2>2. Atiende("DESALOJO", h) /\ UNCHANGED <<exec, aCpu, cpuVars>>
    BY <1>4 DEF AtiendeDesalojo, kernel
  <2>3. QED
    BY <1>2, <2>1, <2>2
<1>5. ASSUME NEW h \in Hilos, AtiendeThreadCreate(h) PROVE Turnos'
  <2>1. PICK i \in Nueva : hebras' = [hebras EXCEPT ![i] = Hebra("mirar", Nadie, "libre")]
    BY <1>5 DEF AtiendeThreadCreate
  <2>2. i \in Hebras /\ hebras[i].paso = "libre"
    BY NuevaLibre
  <2>3. \A j \in Hebras : hebras'[j] = hebras[j] \/ (Otra(hebras[j]) /\ Otra(hebras'[j]))
    BY <1>0, <2>1, <2>2 DEF Otra, Hebra
  <2>4. /\ Atiende("THREAD_CREATE", h) /\ UNCHANGED <<exec, cpuVars>>
        /\ aCpu' = Append(aCpu, Mensaje("RTA", Nadie))
    BY <1>5 DEF AtiendeThreadCreate
  <2>5. QED
    BY <1>1, <2>3, <2>4
<1>6. ASSUME NEW h \in Hilos, AtiendeMutexUnlock(h) PROVE Turnos'
  <2>1. /\ Atiende("MUTEX_UNLOCK", h) /\ UNCHANGED <<exec, cpuVars, hebras>>
        /\ aCpu' = Append(aCpu, Mensaje("RTA", Nadie))
    BY <1>6 DEF AtiendeMutexUnlock, kernel
  <2>2. QED
    BY <1>1, <2>1
<1>7. ASSUME NEW h \in Hilos, AtiendeThreadExit(h) PROVE Turnos'
  <2>1. /\ Atiende("THREAD_EXIT", h) /\ exec' = RemoveFirst(exec, h) /\ UNCHANGED <<aCpu, cpuVars>>
        /\ hebras' = [hebras EXCEPT ![0] = Hebra("mirar", Nadie, "libre")] /\ 0 \in Hebras
    BY <1>7, Numeros DEF AtiendeThreadExit
  <2>2. exec = <<h>> /\ aKernel' = <<>> /\ aCpu = <<>> /\ Devuelto(h)
    BY <2>1, TurnosDeAtiende
  <2>3. exec' = <<>>
    BY <2>1, <2>2, QuitaUnico
  <2>4. hebras'[0].paso = "mirar" /\ \A j \in Hebras \ {0} : hebras'[j] = hebras[j]
    BY <1>0, <2>1 DEF Hebra
  <2>5. NadieEnvia' /\ NadieRecoge'
    BY <2>2, <2>4 DEF Devuelto, NadieEnvia, NadieRecoge, Recoge
  <2>6. SinMensajes' /\ CpuFuera'
    BY <2>1, <2>2 DEF Devuelto, SinMensajes, CpuFuera, cpuVars
  <2>7. QED
    BY <2>3, <2>5, <2>6 DEF Turnos, Vacio
<1>8. ASSUME NEW h \in Hilos, NEW op \in Peticiones, AtiendeInvalido(op, h) PROVE FALSE
  BY <1>8, TurnosDeAtiende DEF AtiendeInvalido
<1>9. QED
  BY <1>3, <1>4, <1>5, <1>6, <1>7, <1>8, TurnosDePasada, TurnosDelKernel DEF AtiendeAlgo

\* The steps of the CPU.
LEMMA TurnosDeCpu ==
  ASSUME IInv, EInv, EnTiempo = TRUE, CpuAvanza \/ CpuSyscall
  PROVE  Turnos'
<1>0. Turnos /\ UnAviso /\ UnLugar /\ Conexion
  BY DEF EInv, IInv
<1>1. UNCHANGED <<exec, hebras>>
  BY DEF CpuAvanza, CpuRecibe, CpuContexto, CpuSinContexto, CpuRecibeRta, CpuDesaloja, CpuSigue, CpuSuelta,
     CpuSyscall, CpuIO, CpuThreadCreate, CpuMutexUnlock, CpuThreadExit, Pide, kernel
<1>2. (NadieEnvia => NadieEnvia') /\ (NadieRecoge => NadieRecoge') /\ \A i \in Hebras : MismaHebra(i)
  BY <1>1 DEF NadieEnvia, NadieRecoge, Recoge, MismaHebra
<1>3. ASSUME NEW h \in Hilos, exec = <<h>>, Turno(h)' PROVE Turnos'
  BY <1>1, <1>3 DEF Turnos
<1>4. CASE CpuRecibe
  <2>1. /\ aCpu # <<>> /\ Head(aCpu).op = "EJECUTAR" /\ cpu' = Cpu("pide", Head(aCpu).hilo, "NADA")
        /\ aCpu' = Tail(aCpu) /\ UNCHANGED aKernel
    BY <1>4 DEF CpuRecibe
  <2>2. PICK h \in Hilos : exec = <<h>> /\ Mandado(h)
    BY <1>0, <2>1, Etapas
  <2>3. Head(aCpu) = Mensaje("EJECUTAR", h) /\ aCpu' = <<>> /\ aKernel' = <<>>
    BY <2>1, <2>2, Unico DEF Mandado
  <2>4. EnCpu(h)'
    BY <1>2, <2>1, <2>2, <2>3 DEF EnCpu, Mandado, SinMensajes, Cpu, Mensaje
  <2>5. QED
    BY <1>3, <2>2, <2>4 DEF Turno
<1>5. CASE CpuContexto
  <2>1. /\ cpu.paso = "pide" /\ contexto' = cpu.hilo /\ cpu' = [cpu EXCEPT !.paso = "corre"]
        /\ UNCHANGED <<aCpu, aKernel>>
    BY <1>5 DEF CpuContexto
  <2>2. PICK h \in Hilos : exec = <<h>> /\ EnCpu(h)
    BY <1>0, <2>1, Etapas DEF CpuFuera
  <2>3. EnCpu(h)'
    BY <1>0, <1>2, <2>1, <2>2 DEF EnCpu, SinMensajes, Conexion
  <2>4. QED
    BY <1>3, <2>2, <2>3 DEF Turno
<1>6. CASE CpuSinContexto
  <2>1. cpu.paso = "pide" /\ cpu.hilo \in salidos
    BY <1>6 DEF CpuSinContexto
  <2>2. PICK h \in Hilos : exec = <<h>> /\ EnCpu(h)
    BY <1>0, <2>1, Etapas DEF CpuFuera
  <2>3. h \in Range(exec) /\ h \in salidos
    BY <2>1, <2>2, Unico DEF EnCpu
  <2>4. QED
    BY <1>0, <2>3 DEF UnLugar
<1>7. CASE CpuRecibeRta
  <2>1. /\ cpu.paso = "espera" /\ aCpu # <<>> /\ aCpu' = Tail(aCpu)
        /\ cpu' = [cpu EXCEPT !.paso = "ciclo"] /\ UNCHANGED <<aKernel, contexto>>
    BY <1>7 DEF CpuRecibeRta
  <2>2. PICK h \in Hilos : exec = <<h>> /\ EnCpu(h)
    BY <1>0, <2>1, Etapas DEF CpuFuera
  <2>3. aKernel = <<>> /\ aCpu = <<Mensaje("RTA", Nadie)>> /\ cpu.op # "IO" /\ contexto = h
    BY <2>1, <2>2 DEF EnCpu, Espera
  <2>4. SinMensajes'
    BY <2>1, <2>3, Unico DEF SinMensajes
  <2>5. EnCpu(h)'
    BY <1>0, <1>2, <2>1, <2>2, <2>3, <2>4 DEF EnCpu, Conexion
  <2>6. QED
    BY <1>3, <2>2, <2>5 DEF Turno
\* The thread computes and sends a request.
<1>8. ASSUME cpu.paso = "corre" \/ (cpu.paso = "ciclo" /\ interrupt)
      PROVE  \E h \in Hilos : exec = <<h>> /\ EnCpu(h) /\ SinMensajes /\ contexto = h
  <2>1. ~CpuFuera
    BY <1>8 DEF CpuFuera
  <2>2. PICK h \in Hilos : exec = <<h>> /\ EnCpu(h)
    BY <1>0, <2>1, Etapas
  <2>3. QED
    BY <1>8, <2>2 DEF EnCpu
<1>9. ASSUME NEW h \in Hilos, exec = <<h>>, EnCpu(h), SinMensajes, contexto = h, UNCHANGED aCpu,
             NEW op \in {"IO", "THREAD_EXIT", "DESALOJO"}, aKernel' = Append(aKernel, Mensaje(op, contexto)),
             CpuFuera'
      PROVE  Turnos'
  <2>1. aKernel' = <<Mensaje(op, h)>> /\ aCpu' = <<>>
    BY <1>9, Unico DEF SinMensajes
  <2>2. NadieEnvia' /\ NadieRecoge'
    BY <1>2, <1>9 DEF EnCpu
  <2>3. Devuelto(h)'
    BY <1>9, <2>1, <2>2 DEF Devuelto, Mensaje
  <2>4. QED
    BY <1>3, <1>9, <2>3 DEF Turno
<1>10. CASE CpuDesaloja
  <2>1. /\ cpu.paso = "corre" \/ (cpu.paso = "ciclo" /\ interrupt)
        /\ aKernel' = Append(aKernel, Mensaje("DESALOJO", contexto)) /\ UNCHANGED aCpu
        /\ cpu' = [cpu EXCEPT !.paso = "suelta"]
    BY <1>10 DEF CpuDesaloja
  <2>2. CpuFuera'
    BY <1>0, <2>1 DEF CpuFuera, Conexion
  <2>3. QED
    BY <1>8, <1>9, <2>1, <2>2
<1>11. CASE CpuThreadExit
  <2>1. /\ cpu.paso = "corre" /\ aKernel' = Append(aKernel, Mensaje("THREAD_EXIT", contexto))
        /\ UNCHANGED aCpu /\ cpu' = [cpu EXCEPT !.paso = "suelta"]
    BY <1>11 DEF CpuThreadExit, Pide
  <2>2. CpuFuera'
    BY <1>0, <2>1 DEF CpuFuera, Conexion
  <2>3. QED
    BY <1>8, <1>9, <2>1, <2>2
<1>12. CASE CpuIO
  <2>1. /\ cpu.paso = "corre" /\ aKernel' = Append(aKernel, Mensaje("IO", contexto))
        /\ UNCHANGED <<aCpu, interrupt>> /\ cpu' = [cpu EXCEPT !.paso = "ciclo", !.op = "IO"]
        /\ ~interrupt
    BY <1>12 DEF CpuIO, Pide, Quieto
  <2>2. CpuFuera'
    BY <1>0, <2>1 DEF CpuFuera, Conexion
  <2>3. QED
    BY <1>8, <1>9, <2>1, <2>2
<1>13. ASSUME CpuThreadCreate \/ CpuMutexUnlock PROVE Turnos'
  <2>1. PICK op \in {"THREAD_CREATE", "MUTEX_UNLOCK"} :
          /\ cpu.paso = "corre" /\ aKernel' = Append(aKernel, Mensaje(op, contexto))
          /\ UNCHANGED <<aCpu, contexto>> /\ cpu' = [cpu EXCEPT !.paso = "espera", !.op = op]
    BY <1>13 DEF CpuThreadCreate, CpuMutexUnlock, Pide
  <2>2. PICK h \in Hilos : exec = <<h>> /\ EnCpu(h) /\ SinMensajes /\ contexto = h
    BY <1>8, <2>1
  <2>3. aKernel' = <<Mensaje(op, h)>> /\ aCpu' = <<>>
    BY <2>1, <2>2, Unico DEF SinMensajes
  <2>4. Espera(h)'
    BY <2>3 DEF Espera, Mensaje
  <2>5. cpu'.paso = "espera" /\ cpu'.op # "IO" /\ cpu'.hilo = h /\ contexto' = h
    BY <1>0, <2>1, <2>2 DEF EnCpu, Conexion
  <2>6. EnCpu(h)'
    BY <1>2, <2>2, <2>4, <2>5 DEF EnCpu
  <2>7. QED
    BY <1>3, <2>2, <2>6 DEF Turno
<1>14. CASE CpuSigue
  <2>1. /\ cpu.paso = "ciclo" /\ ~interrupt /\ UNCHANGED <<aCpu, aKernel, contexto, interrupt>>
        /\ cpu' = [cpu EXCEPT !.paso = IF cpu.op = "IO" THEN "suelta" ELSE "corre", !.op = "NADA"]
    BY <1>14 DEF CpuSigue
  <2>2. CASE cpu.op = "IO"
    <3>1. CpuFuera /\ CpuFuera'
      BY <1>0, <2>1, <2>2 DEF CpuFuera, Conexion
    <3>2. QED
      BY <1>0, <1>1, <1>2, <2>1, <3>1, TurnosIgual
  <2>3. CASE cpu.op # "IO"
    <3>1. PICK h \in Hilos : exec = <<h>> /\ EnCpu(h)
      BY <1>0, <2>1, <2>3, Etapas DEF CpuFuera
    <3>2. SinMensajes' /\ contexto' = h
      BY <2>1, <3>1 DEF EnCpu, SinMensajes
    <3>3. cpu'.paso = "corre" /\ cpu'.hilo = h
      BY <1>0, <2>1, <2>3, <3>1 DEF EnCpu, Conexion
    <3>4. EnCpu(h)'
      BY <1>2, <3>1, <3>2, <3>3 DEF EnCpu
    <3>5. QED
      BY <1>3, <3>1, <3>4 DEF Turno
  <2>4. QED
    BY <2>2, <2>3
<1>15. CASE CpuSuelta
  <2>1. cpu.paso = "suelta" /\ cpu' = Cpu("libre", Nadie, "NADA") /\ UNCHANGED <<aCpu, aKernel>>
    BY <1>15 DEF CpuSuelta
  <2>2. CpuFuera /\ CpuFuera'
    BY <2>1 DEF CpuFuera, Cpu
  <2>3. QED
    BY <1>0, <1>1, <1>2, <2>1, <2>2, TurnosIgual
<1>16. QED
  BY <1>4, <1>5, <1>6, <1>7, <1>10, <1>11, <1>12, <1>13, <1>14, <1>15 DEF CpuAvanza, CpuSyscall

\* Turnos is kept by each step.
LEMMA PasoTurnos ==
  ASSUME IInv, EInv, EnTiempo = TRUE, Next
  PROVE  Turnos'
BY TurnosDelKernel, TurnosDePasada, TurnosDeAtenderAlgo, TurnosDeCpu DEF Next, Pcp, Io

\* The CPU asks for the context of the thread in EXEC, which has one; and the thread
\* that computes there is that one.
LEMMA Computa ==
  ASSUME IInv, EInv
  PROVE  /\ ~CpuSinContexto
         /\ cpu.paso = "corre" => \E h \in Hilos : /\ exec = <<h>> /\ cpu.hilo = h /\ contexto = h
                                                   /\ h \notin salidos /\ EnCpu(h)
<1>0. Turnos /\ UnLugar
  BY DEF EInv
<1>1. ASSUME cpu.paso \in {"pide", "corre"}
      PROVE  \E h \in Hilos : exec = <<h>> /\ cpu.hilo = h /\ h \notin salidos /\ EnCpu(h)
  <2>1. PICK h \in Hilos : exec = <<h>> /\ EnCpu(h)
    BY <1>0, <1>1, Etapas DEF CpuFuera
  <2>2. h \in Range(exec)
    BY <2>1, Unico
  <2>3. QED
    BY <1>0, <2>1, <2>2 DEF UnLugar, EnCpu
<1>2. ~CpuSinContexto
  BY <1>1 DEF CpuSinContexto
<1>3. QED
  BY <1>1, <1>2 DEF EnCpu

\* An interruption finds in the CPU the thread it was asked for.
LEMMA PasoUnAviso ==
  ASSUME IInv, EInv, EnTiempo = TRUE, Next
  PROVE  UnAviso'
<1>0. UnAviso /\ Turnos /\ Interrupciones /\ Conexion
  BY DEF EInv, IInv
<1>1. ASSUME UNCHANGED <<vencidos, gestor, aInterrupt, acepta, cpu, interrupt>> PROVE UnAviso'
  BY <1>0, <1>1 DEF UnAviso, SinAviso
<1>2. ASSUME SinAviso, UNCHANGED <<vencidos, gestor, aInterrupt, acepta>> PROVE SinAviso'
  BY <1>2 DEF SinAviso
<1>3. Quieto => SinAviso /\ ~interrupt
  <2>1. Len(vencidos) \in Nat /\ Len(aInterrupt) \in Nat
    BY <1>0, LenProperties DEF Interrupciones
  <2>2. EnCamino = 0 => vencidos = <<>> /\ aInterrupt = <<>>
    BY <1>0, <2>1, EmptySeq DEF EnCamino, Interrupciones
  <2>3. QED
    BY <2>2 DEF Quieto, SinAviso
<1>4. CASE TemporizadorVence
  <2>1. /\ Quieto /\ cpu.paso = "corre" /\ cpu.hilo = ultimo
        /\ vencidos' = vencidos \/ vencidos' = Append(vencidos, ultimo)
        /\ UNCHANGED <<gestor, aInterrupt, acepta, cpu, interrupt>>
    BY <1>4 DEF TemporizadorVence, cpuVars
  <2>2. vencidos' = <<>> \/ vencidos' = <<cpu.hilo>>
    BY <1>3, <2>1, Unico DEF SinAviso
  <2>3. QED
    BY <1>3, <2>1, <2>2 DEF UnAviso, SinAviso
<1>5. CASE GestorToma
  <2>1. vencidos # <<>> /\ UNCHANGED <<aInterrupt, acepta, cpu, interrupt>>
    BY <1>5 DEF GestorToma, cpuVars
  <2>2. /\ cpu.paso = "corre" /\ ~interrupt
        /\ vencidos = <<cpu.hilo>> /\ gestor = Nadie /\ aInterrupt = <<>> /\ ~acepta
    BY <1>0, <2>1 DEF UnAviso, SinAviso
  <2>3. exec = <<cpu.hilo>>
    BY <2>2, Computa
  <2>4. gestor' = cpu.hilo /\ vencidos' = <<>>
    BY <1>5, <2>2, <2>3, Unico DEF GestorToma
  <2>5. QED
    BY <2>1, <2>2, <2>4 DEF UnAviso
<1>6. CASE GestorEnvia
  <2>1. gestor # Nadie /\ gestor' = Nadie /\ UNCHANGED <<vencidos, acepta, cpu, interrupt>>
    BY <1>6 DEF GestorEnvia, cpuVars
  <2>2. /\ cpu.paso = "corre" /\ ~interrupt
        /\ vencidos = <<>> /\ gestor = cpu.hilo /\ aInterrupt = <<>> /\ ~acepta
    BY <1>0, <2>1 DEF UnAviso, SinAviso
  <2>3. gestor \notin salidos
    BY <2>2, Computa
  <2>4. aInterrupt' = Append(aInterrupt, gestor)
    BY <1>6, <2>3 DEF GestorEnvia
  <2>5. aInterrupt' = <<cpu.hilo>>
    BY <2>2, <2>4, Unico
  <2>6. QED
    BY <2>1, <2>2, <2>5 DEF UnAviso
<1>7. CASE InterrupcionLlega
  <2>1. /\ aInterrupt # <<>> /\ acepta' = (Head(aInterrupt) = contexto) /\ aInterrupt' = Tail(aInterrupt)
        /\ UNCHANGED <<vencidos, gestor, cpu, interrupt>>
    BY <1>7 DEF InterrupcionLlega, cpuVars
  <2>2. /\ cpu.paso = "corre" /\ ~interrupt
        /\ vencidos = <<>> /\ gestor = Nadie /\ aInterrupt = <<cpu.hilo>> /\ ~acepta
    BY <1>0, <2>1 DEF UnAviso, SinAviso
  <2>3. contexto = cpu.hilo
    BY <2>2, Computa
  <2>4. Head(aInterrupt) = contexto /\ aInterrupt' = <<>>
    BY <2>1, <2>2, <2>3, Unico
  <2>5. acepta'
    BY <2>1, <2>4
  <2>6. QED
    BY <2>1, <2>2, <2>4, <2>5 DEF UnAviso
<1>8. CASE InterrupcionMarca
  <2>1. /\ acepta /\ acepta' = FALSE /\ interrupt' = TRUE
        /\ UNCHANGED <<vencidos, gestor, aInterrupt, cpu>>
    BY <1>8 DEF InterrupcionMarca
  <2>2. /\ cpu.paso = "corre" /\ vencidos = <<>> /\ gestor = Nadie /\ aInterrupt = <<>>
    BY <1>0, <2>1 DEF UnAviso, SinAviso
  <2>3. QED
    BY <2>1, <2>2 DEF UnAviso, SinAviso
<1>9. ASSUME CpuAvanza PROVE UnAviso'
  <2>1. UNCHANGED <<vencidos, gestor, aInterrupt, acepta>>
    BY <1>9 DEF CpuAvanza, CpuRecibe, CpuContexto, CpuSinContexto, CpuRecibeRta, CpuDesaloja, CpuSigue, CpuSuelta,
       avisos
  <2>2. cpu.paso # "corre" \/ interrupt => SinAviso'
    BY <1>0, <1>2, <2>1 DEF UnAviso
  <2>3. CASE CpuRecibe
    BY <1>0, <2>2, <2>3 DEF CpuRecibe, UnAviso, Cpu
  <2>4. CASE CpuContexto
    BY <1>0, <2>2, <2>4 DEF CpuContexto, UnAviso
  <2>5. CASE CpuSinContexto
    BY <2>5, Computa
  <2>6. CASE CpuRecibeRta
    <3>1. cpu.paso = "espera" /\ cpu' = [cpu EXCEPT !.paso = "ciclo"]
      BY <2>6 DEF CpuRecibeRta
    <3>2. cpu.op # "IO"
      BY <1>0, <3>1, Etapas DEF CpuFuera, EnCpu
    <3>3. QED
      BY <1>0, <2>2, <3>1, <3>2 DEF UnAviso, Conexion
  <2>7. CASE CpuDesaloja
    BY <1>0, <2>2, <2>7 DEF CpuDesaloja, UnAviso, Conexion
  <2>8. CASE CpuSigue
    BY <1>0, <2>2, <2>8 DEF CpuSigue, UnAviso
  <2>9. CASE CpuSuelta
    BY <1>0, <2>2, <2>9 DEF CpuSuelta, UnAviso
  <2>10. QED
    BY <1>9, <2>3, <2>4, <2>5, <2>6, <2>7, <2>8, <2>9 DEF CpuAvanza
<1>10. ASSUME CpuSyscall PROVE UnAviso'
  <2>1. Quieto /\ UNCHANGED <<vencidos, gestor, aInterrupt, acepta, interrupt>>
    BY <1>10 DEF CpuSyscall, CpuIO, CpuThreadCreate, CpuMutexUnlock, CpuThreadExit, Pide, avisos
  <2>2. QED
    BY <1>2, <1>3, <2>1 DEF UnAviso
<1>11. ASSUME NEW i \in Hebras, Pcp(i) \/ Io(i) PROVE UnAviso'
  BY <1>1, <1>11 DEF Pcp, PcpMirar, PcpTomar, PcpRecorrer, PcpSacar, PcpEnviar, PcpArmar, Io, IoAgregar,
     IoBloquear, IoMirar, IoDormir, IoDespertar, IoSeguir, avisos, cpuVars
<1>12. ASSUME AtiendeAlgo PROVE UnAviso'
  BY <1>1, <1>12 DEF AtiendeAlgo, AtiendeIO, AtiendeThreadCreate, AtiendeMutexUnlock, AtiendeThreadExit,
     AtiendeDesalojo, AtiendeInvalido, Desalojar, Reubicar, avisos, cpuVars
<1>13. ASSUME NEW h \in Hilos, TemporizadorEmpieza(h) PROVE UnAviso'
  BY <1>1, <1>13 DEF TemporizadorEmpieza, avisos, cpuVars
<1>14. QED
  BY <1>4, <1>5, <1>6, <1>7, <1>8, <1>9, <1>10, <1>11, <1>12, <1>13 DEF Next, Gestor, Interrupcion

\* Steps after which no more threads are about to take one, nor fewer wait in the
\* queues.
LEMMA PasadaIgual ==
  ASSUME TomaConAlguien, \A i \in Hebras : hebras'[i].paso = "tomar" => hebras[i].paso = "tomar",
         Alguien => Alguien',
         Empieza => Empieza'
  PROVE  TomaConAlguien'
BY DEF TomaConAlguien

\* A queue to which a thread goes.
LEMMA ColaMayor ==
  ASSUME Listas, NEW h \in Hilos, colas' = Encolar(colas, h)
  PROVE  Alguien'
<1>1. Prioridad[h] \in Prioridades /\ colas[Prioridad[h]] \in Seq(Hilos)
  BY Numeros DEF Listas
<1>2. colas'[Prioridad[h]] = Append(colas[Prioridad[h]], h)
  BY <1>1 DEF Encolar, Listas
<1>3. colas'[Prioridad[h]] # <<>>
  BY <1>1, <1>2, AppendSeq
<1>4. QED
  BY <1>1, <1>3 DEF Alguien, TieneHilos

\* A pass between its look at the queues and the lock of EXEC.
LEMMA PasoTomaConAlguien ==
  ASSUME IInv, EInv, EnTiempo = TRUE, Next
  PROVE  TomaConAlguien'
<1> USE DEF PasosPcp, PasosIO
<1>0. /\ TomaConAlguien /\ Turnos /\ UnAviso /\ Listas /\ HilosDelKernel /\ Conexion
      /\ hebras \in [Hebras -> Registro]
  BY DEF EInv, PasadaConAlguien, IInv, HilosDelKernel
<1>1. UNCHANGED colas => Alguien' = Alguien
  BY DEF Alguien, TieneHilos
<1>2. ASSUME UNCHANGED <<exec, aKernel, cpu, interrupt, vencidos, gestor, aInterrupt, acepta>>,
             \A i \in Hebras : Recoge(i)' => Recoge(i)
      PROVE  Empieza => Empieza'
  BY <1>2 DEF Empieza, NadieRecoge, SinAviso
\* A thread of the kernel takes a step.
<1>3. ASSUME NEW i \in Hebras, hebras'[i].paso # "tomar", ~Recoge(i)',
             \A j \in Hebras \ {i} : hebras'[j].paso = hebras[j].paso
      PROVE  /\ \A j \in Hebras : hebras'[j].paso = "tomar" => hebras[j].paso = "tomar"
             /\ \A j \in Hebras : Recoge(j)' => Recoge(j)
  BY <1>3 DEF Recoge
<1>4. ASSUME NEW i \in Hebras, PcpMirar(i) PROVE TomaConAlguien'
  <2> DEFINE q == Proxima(hebras[i].faltan)
  <2>1. UNCHANGED <<kernel, aKernel, cpuVars, avisos>> /\ q \in Prioridades
    BY <1>0, <1>4, LaProxima DEF PcpMirar, HilosDelKernel, Registro, Sabe
  <2>2. CASE TieneHilos(q)
    <3>1. Alguien'
      BY <1>1, <2>1, <2>2 DEF Alguien, kernel
    <3>2. QED
      BY <3>1 DEF TomaConAlguien
  <2>3. CASE ~TieneHilos(q)
    <3>1. hebras'[i].paso \in {hebras[i].luego, "mirar"} /\ \A j \in Hebras \ {i} : hebras'[j] = hebras[j]
      BY <1>0, <1>4, <2>3 DEF PcpMirar, Registro
    <3>2. hebras'[i].paso # "tomar" /\ ~Recoge(i)'
      BY <1>0, <3>1 DEF Recoge, Registro
    <3>3. QED
      BY <1>0, <1>1, <1>2, <1>3, <2>1, <3>1, <3>2, PasadaIgual DEF kernel, cpuVars, avisos
  <2>4. QED
    BY <2>2, <2>3
<1>5. ASSUME NEW i \in Hebras, PcpSacar(i) PROVE TomaConAlguien'
  <2>1. UNCHANGED <<aKernel, cpuVars, avisos>>
    BY <1>5 DEF PcpSacar
  <2>2. CASE UNCHANGED exec
    <3>1. UNCHANGED <<colas, hebras>>
      BY <1>5, <2>2, SacaAlguien
    <3>2. QED
      BY <1>0, <1>1, <1>2, <2>1, <2>2, <3>1, PasadaIgual DEF cpuVars, avisos, Recoge
  <2>3. CASE ~UNCHANGED exec
    <3> DEFINE p == MejorCola(hebras[i].vistas)
    <3>1. /\ exec = <<>> /\ exec' = Append(exec, Head(colas[p]))
          /\ hebras' = [hebras EXCEPT ![i].paso = "enviar", ![i].toma = Head(colas[p]), ![i].vistas = {}]
      BY <1>5, <2>3, Sacado
    <3> HIDE DEF p
    <3>2. exec' # <<>> /\ Vacio
      BY <1>0, <3>1, Unico, Etapas
    <3>3. aKernel' = <<>> /\ cpu' = cpu /\ CpuFuera
      BY <2>1, <3>2 DEF Vacio, SinMensajes, cpuVars
    <3>4. hebras'[i].paso = "enviar" /\ \A j \in Hebras \ {i} : hebras'[j] = hebras[j]
      BY <1>0, <3>1 DEF Registro
    <3>5. NadieRecoge'
      BY <3>2, <3>4 DEF Vacio, NadieRecoge, Recoge
    <3>6. Empieza'
      BY <3>2, <3>3, <3>5 DEF Empieza, CpuFuera
    <3>7. QED
      BY <3>6 DEF TomaConAlguien
  <2>4. QED
    BY <2>2, <2>3
<1>6. ASSUME NEW i \in Hebras, \/ PcpTomar(i) \/ PcpRecorrer(i) \/ PcpEnviar(i) \/ PcpArmar(i)
                               \/ IoMirar(i) \/ IoDormir(i) \/ IoSeguir(i)
      PROVE  TomaConAlguien'
  <2>1. UNCHANGED <<kernel, aKernel, cpuVars, avisos>>
    BY <1>6 DEF PcpTomar, PcpRecorrer, PcpEnviar, PcpArmar, IoMirar, IoDormir, IoSeguir
  <2>2. hebras'[i].paso # "tomar" /\ ~Recoge(i)' /\ \A j \in Hebras \ {i} : hebras'[j].paso = hebras[j].paso
    <3>1. hebras[i] \in Registro
      BY <1>0
    <3>2. CASE PcpTomar(i) \/ PcpRecorrer(i)
      <4>1. /\ hebras'[i].paso \in {hebras[i].luego, "recorrer", "sacar"}
            /\ \A j \in Hebras \ {i} : hebras'[j] = hebras[j]
        <5>1. CASE PcpTomar(i)
          <6>1. \/ hebras' = [hebras EXCEPT ![i].paso = hebras[i].luego]
                \/ hebras' = [hebras EXCEPT ![i].paso = "recorrer"]
            BY <5>1 DEF PcpTomar
          <6>2. QED
            BY <1>0, <3>1, <6>1 DEF Registro
        <5>2. CASE PcpRecorrer(i)
          BY <1>0, <3>1, <5>2 DEF PcpRecorrer, Registro
        <5>3. QED
          BY <3>2, <5>1, <5>2
      <4>2. hebras[i].luego \in {"libre", "mirarIO", "seguir", "dormir"}
        BY <3>1 DEF Registro
      <4>3. QED
        BY <4>1, <4>2 DEF Recoge
    <3>3. CASE PcpEnviar(i) \/ PcpArmar(i)
      BY <1>0, <3>1, <3>3 DEF PcpEnviar, PcpArmar, Recoge, Registro
    <3>4. CASE IoMirar(i) \/ IoDormir(i) \/ IoSeguir(i)
      BY <1>0, <3>1, <3>4 DEF IoMirar, IoDormir, IoSeguir, SiguienteIO, Hebra, Inactiva, Recoge, Registro
    <3>5. QED
      BY <1>6, <3>2, <3>3, <3>4
  <2>3. QED
    BY <1>0, <1>1, <1>2, <1>3, <2>1, <2>2, PasadaIgual DEF kernel, cpuVars, avisos
<1>7. ASSUME NEW i \in Hebras, IoDespertar(i) PROVE TomaConAlguien'
  <2> DEFINE sueltas == [j \in Hebras |-> IF j \in MismoSleep(i)
                                          THEN [hebras[j] EXCEPT !.colgado = TRUE] ELSE hebras[j]]
  <2>1. /\ sueltas \in [Hebras -> Registro]
        /\ \A j \in Hebras : sueltas[j].paso = hebras[j].paso
    BY <1>0 DEF Registro
  <2>2. \/ hebras' = [sueltas EXCEPT ![i].paso = "mirar", ![i].luego = "seguir"]
        \/ hebras' = [sueltas EXCEPT ![i].paso = "seguir"]
    BY <1>7 DEF IoDespertar
  <2> HIDE DEF sueltas
  <2>3. hebras'[i].paso # "tomar" /\ ~Recoge(i)' /\ \A j \in Hebras \ {i} : hebras'[j].paso = hebras[j].paso
    BY <2>1, <2>2 DEF Recoge, Registro
  <2>4. UNCHANGED <<exec, aKernel, cpuVars, avisos>>
    BY <1>7 DEF IoDespertar
  <2>5. hebras[i].hilo \in Hilos
    BY <1>0, <1>7 DEF IoDespertar, HilosDelKernel, Sabe
  <2>6. Alguien => Alguien'
    BY <1>0, <1>1, <1>7, <2>5, ColaMayor DEF IoDespertar
  <2>7. QED
    BY <1>0, <1>2, <1>3, <2>3, <2>4, <2>6, PasadaIgual DEF cpuVars, avisos
\* The thread in EXEC has asked for something already.
<1>8. ASSUME NEW i \in Hebras, Recoge(i) PROVE ~Empieza
  BY <1>8 DEF Empieza, NadieRecoge
<1>9. ASSUME NEW i \in Hebras, IoAgregar(i) \/ IoBloquear(i) PROVE TomaConAlguien'
  <2>1. Recoge(i) /\ UNCHANGED colas
    BY <1>9 DEF IoAgregar, IoBloquear, kernel, Recoge
  <2>2. \A j \in Hebras : hebras'[j].paso = "tomar" => hebras[j].paso = "tomar"
    BY <1>0, <1>9 DEF IoAgregar, IoBloquear, Registro
  <2>3. QED
    BY <1>0, <1>1, <1>8, <2>1, <2>2, PasadaIgual
<1>10. CASE Desalojar
  <2>1. 0 \in Hebras /\ Recoge(0) /\ UNCHANGED colas
    BY <1>10, Numeros DEF Desalojar, Recoge
  <2>2. \A j \in Hebras : hebras'[j].paso = "tomar" => hebras[j].paso = "tomar"
    BY <1>0, <1>10, <2>1 DEF Desalojar, Registro
  <2>3. QED
    BY <1>0, <1>1, <1>8, <2>1, <2>2, PasadaIgual
<1>11. CASE Reubicar
  <2>1. hebras[0].hilo \in Hilos /\ colas' = Encolar(colas, hebras[0].hilo)
    BY <1>0, <1>11, Numeros DEF Reubicar, Desalojado, HilosDelKernel, Sabe
  <2>2. Alguien'
    BY <1>0, <2>1, ColaMayor
  <2>3. QED
    BY <2>2 DEF TomaConAlguien
<1>12. ASSUME NEW h \in Hilos, \/ AtiendeIO(h) \/ AtiendeMutexUnlock(h) \/ AtiendeThreadExit(h)
                               \/ AtiendeDesalojo(h) \/ \E op \in Peticiones : AtiendeInvalido(op, h)
       PROVE  TomaConAlguien'
  <2>1. ~Empieza /\ UNCHANGED colas
    BY <1>12 DEF AtiendeIO, AtiendeMutexUnlock, AtiendeThreadExit, AtiendeDesalojo, AtiendeInvalido,
       Atiende, kernel, Empieza
  <2>2. \A j \in Hebras : hebras'[j].paso = "tomar" => hebras[j].paso = "tomar"
    BY <1>0, <1>12, NuevaLibre DEF AtiendeIO, AtiendeMutexUnlock, AtiendeThreadExit, AtiendeDesalojo,
       AtiendeInvalido, Hebra
  <2>3. QED
    BY <1>0, <1>1, <2>1, <2>2, PasadaIgual
<1>13. ASSUME NEW h \in Hilos, AtiendeThreadCreate(h) PROVE TomaConAlguien'
  <2>1. PICK nuevo : nuevo = Min(Hilos \ creados) /\ colas' = Encolar(colas, nuevo)
    BY <1>13 DEF AtiendeThreadCreate
  <2>2. nuevo \in Hilos
    BY <1>13, <2>1, PorCrear
  <2>3. Alguien'
    BY <1>0, <2>1, <2>2, ColaMayor
  <2>4. QED
    BY <2>3 DEF TomaConAlguien
<1>14. ASSUME NEW h \in Hilos, TemporizadorEmpieza(h) PROVE TomaConAlguien'
  <2>1. UNCHANGED <<kernel, hebras, aKernel, cpuVars, avisos>>
    BY <1>14 DEF TemporizadorEmpieza
  <2>2. QED
    BY <1>0, <1>1, <1>2, <2>1, PasadaIgual DEF kernel, cpuVars, avisos, Recoge
\* With a pass that has looked at the queues, the quantum does not end.
<1>15. ASSUME TemporizadorVence \/ CpuSyscall PROVE TomaConAlguien'
  <2>1. Quieto /\ UNCHANGED hebras
    BY <1>15 DEF TemporizadorVence, CpuSyscall, CpuIO, CpuThreadCreate, CpuMutexUnlock, CpuThreadExit, Pide
  <2>2. QED
    BY <2>1 DEF Quieto, TomaConAlguien
<1>16. ASSUME Gestor \/ Interrupcion PROVE TomaConAlguien'
  <2>1. UNCHANGED <<colas, hebras>>
    BY <1>16 DEF Gestor, GestorToma, GestorEnvia, Interrupcion, InterrupcionLlega, InterrupcionMarca, kernel
  <2>2. ~SinAviso
    BY <1>16 DEF Gestor, GestorToma, GestorEnvia, Interrupcion, InterrupcionLlega, InterrupcionMarca, SinAviso
  <2>3. ~Empieza
    BY <1>0, <2>2 DEF UnAviso, Empieza
  <2>4. QED
    BY <1>0, <1>1, <2>1, <2>3, PasadaIgual
<1>17. ASSUME CpuAvanza PROVE TomaConAlguien'
  <2>1. UNCHANGED <<kernel, hebras, vencidos, gestor, aInterrupt, acepta>>
    BY <1>17 DEF CpuAvanza, CpuRecibe, CpuContexto, CpuSinContexto, CpuRecibeRta, CpuDesaloja, CpuSigue, CpuSuelta,
       avisos
  <2>2. ASSUME Empieza, aKernel' = <<>>, cpu'.paso # "espera", cpu'.paso = "ciclo" => cpu'.op = "IO",
               cpu'.paso = "corre" => SinAviso /\ ~interrupt'
        PROVE  Empieza'
    BY <2>1, <2>2 DEF Empieza, NadieRecoge, Recoge, SinAviso, kernel
  <2>3. CpuRecibe => (Empieza => Empieza')
    BY <2>2 DEF CpuRecibe, Cpu, Empieza
  <2>4. CpuContexto => (Empieza => Empieza')
    BY <1>0, <2>2 DEF CpuContexto, Empieza, UnAviso
  <2>5. ~CpuSinContexto
    BY Computa
  <2>6. CpuRecibeRta => ~Empieza
    BY DEF CpuRecibeRta, Empieza
  <2>7. CpuDesaloja => ~Empieza
    BY <1>0 DEF CpuDesaloja, Empieza, UnAviso
  <2>8. CpuSigue => (Empieza => Empieza')
    BY <1>0, <2>2 DEF CpuSigue, Empieza, Conexion
  <2>9. CpuSuelta => (Empieza => Empieza')
    BY <2>2 DEF CpuSuelta, Cpu, Empieza
  <2>10. Empieza => Empieza'
    BY <1>17, <2>3, <2>4, <2>5, <2>6, <2>7, <2>8, <2>9 DEF CpuAvanza
  <2>11. QED
    BY <1>0, <1>1, <2>1, <2>10, PasadaIgual DEF kernel
<1>18. QED
  BY <1>4, <1>5, <1>6, <1>7, <1>9, <1>10, <1>11, <1>12, <1>13, <1>14, <1>15, <1>16, <1>17
     DEF Next, Pcp, Io, AtiendeAlgo

\* A walk starts when a pass locks EXEC and ends when it takes a thread; no other step
\* starts one or touches what it has to remember.
LEMMA OtrosNoRecorren ==
  ASSUME IInv, Next, \A i \in Hebras : ~PcpTomar(i) /\ ~PcpSacar(i)
  PROVE  UNCHANGED esperaban /\ \A j \in Hebras : Recorre(j)' => Recorre(j)
<1> DEFINE Nada == UNCHANGED esperaban /\ \A j \in Hebras : Recorre(j)' => Recorre(j)
<1>0. /\ hebras \in [Hebras -> Registro] /\ 0 \in Hebras
  BY Numeros DEF IInv, HilosDelKernel
<1>1. ASSUME UNCHANGED <<hebras, esperaban>> PROVE Nada
  BY <1>1 DEF Recorre
<1>2. ASSUME NEW i \in Hebras, \A j \in Hebras \ {i} : hebras'[j].paso = hebras[j].paso,
             hebras'[i].paso \notin {"recorrer", "sacar"}, UNCHANGED esperaban
      PROVE  Nada
  BY <1>2 DEF Recorre
<1> HIDE DEF Nada
<1>3. ASSUME NEW i \in Hebras, \/ PcpMirar(i) \/ PcpEnviar(i) \/ PcpArmar(i)
      PROVE  Nada
  <2>1. UNCHANGED esperaban /\ \A j \in Hebras \ {i} : hebras'[j] = hebras[j]
    BY <1>0, <1>3 DEF PcpMirar, PcpEnviar, PcpArmar
  <2>2. hebras[i] \in Registro
    BY <1>0
  <2>3. hebras'[i].paso \notin {"recorrer", "sacar"}
    BY <1>0, <1>3, <2>2 DEF PcpMirar, PcpEnviar, PcpArmar, Registro
  <2>4. QED
    BY <1>2, <2>1, <2>3
<1>4. ASSUME NEW i \in Hebras, PcpRecorrer(i) PROVE Nada
  <2>1. UNCHANGED esperaban /\ Recorre(i) /\ \A j \in Hebras \ {i} : hebras'[j] = hebras[j]
    BY <1>0, <1>4 DEF PcpRecorrer, Recorre
  <2>2. QED
    BY <2>1 DEF Nada, Recorre
<1>5. ASSUME NEW i \in Hebras, IoAgregar(i) \/ IoBloquear(i) \/ IoMirar(i) \/ IoDormir(i) \/ IoSeguir(i)
      PROVE  Nada
  <2>1. UNCHANGED esperaban /\ \A j \in Hebras \ {i} : hebras'[j] = hebras[j]
    BY <1>0, <1>5 DEF IoAgregar, IoBloquear, IoMirar, IoDormir, IoSeguir
  <2>2. hebras[i] \in Registro
    BY <1>0
  <2>3. hebras'[i].paso \notin {"recorrer", "sacar"}
    BY <1>0, <1>5, <2>2 DEF IoAgregar, IoBloquear, IoMirar, IoDormir, IoSeguir, SiguienteIO, Hebra, Inactiva, Registro
  <2>4. QED
    BY <1>2, <2>1, <2>3
<1>6. ASSUME NEW i \in Hebras, IoDespertar(i) PROVE Nada
  <2> DEFINE sueltas == [j \in Hebras |-> IF j \in MismoSleep(i)
                                          THEN [hebras[j] EXCEPT !.colgado = TRUE] ELSE hebras[j]]
  <2>1. /\ sueltas \in [Hebras -> Registro]
        /\ \A j \in Hebras : sueltas[j].paso = hebras[j].paso
    BY <1>0 DEF Registro
  <2>2. /\ \/ hebras' = [sueltas EXCEPT ![i].paso = "mirar", ![i].luego = "seguir"]
           \/ hebras' = [sueltas EXCEPT ![i].paso = "seguir"]
        /\ UNCHANGED esperaban
    BY <1>6 DEF IoDespertar
  <2> HIDE DEF sueltas
  <2>3. hebras'[i].paso \in {"mirar", "seguir"} /\ \A j \in Hebras \ {i} : hebras'[j].paso = hebras[j].paso
    BY <2>1, <2>2 DEF Registro
  <2>4. QED
    BY <1>2, <2>2, <2>3
<1>7. ASSUME NEW h \in Hilos, AtiendeIO(h) \/ AtiendeThreadCreate(h) PROVE Nada
  <2>1. PICK i \in Nueva : \/ hebras' = [hebras EXCEPT ![i] = Hebra("agregar", h, "libre")]
                           \/ hebras' = [hebras EXCEPT ![i] = Hebra("mirar", Nadie, "libre")]
    BY <1>7 DEF AtiendeIO, AtiendeThreadCreate
  <2>2. i \in Hebras /\ UNCHANGED esperaban
    BY <1>7, NuevaLibre DEF AtiendeIO, AtiendeThreadCreate
  <2>3. hebras'[i].paso \notin {"recorrer", "sacar"} /\ \A j \in Hebras \ {i} : hebras'[j] = hebras[j]
    BY <1>0, <2>1, <2>2 DEF Hebra
  <2>4. QED
    BY <1>2, <2>2, <2>3
<1>8. ASSUME (\E h \in Hilos : AtiendeThreadExit(h) \/ AtiendeDesalojo(h)) \/ Desalojar \/ Reubicar PROVE Nada
  <2>1. hebras'[0].paso \notin {"recorrer", "sacar"} /\ \A j \in Hebras \ {0} : hebras'[j] = hebras[j]
    BY <1>0, <1>8 DEF AtiendeThreadExit, AtiendeDesalojo, Desalojar, Reubicar, Hebra, Registro
  <2>2. UNCHANGED esperaban
    BY <1>8 DEF AtiendeThreadExit, AtiendeDesalojo, Desalojar, Reubicar
  <2>3. QED
    BY <1>0, <1>2, <2>1, <2>2
<1>9. ASSUME NEW h \in Hilos, \/ TemporizadorEmpieza(h) \/ AtiendeMutexUnlock(h)
                              \/ \E op \in Peticiones : AtiendeInvalido(op, h)
      PROVE  Nada
  BY <1>1, <1>9 DEF TemporizadorEmpieza, AtiendeMutexUnlock, AtiendeInvalido
<1>10. ASSUME TemporizadorVence \/ Gestor \/ CpuAvanza \/ CpuSyscall \/ Interrupcion PROVE Nada
  BY <1>1, <1>10 DEF TemporizadorVence, Gestor, GestorToma, GestorEnvia, CpuAvanza, CpuRecibe, CpuContexto,
     CpuSinContexto, CpuRecibeRta, CpuDesaloja, CpuSigue, CpuSuelta, CpuSyscall, CpuIO, CpuThreadCreate,
     CpuMutexUnlock, CpuThreadExit, Pide, Interrupcion, InterrupcionLlega, InterrupcionMarca
<1>11. Nada
  BY <1>3, <1>4, <1>5, <1>6, <1>7, <1>8, <1>9, <1>10 DEF Next, Pcp, Io, AtiendeAlgo
<1>12. QED
  BY <1>11 DEF Nada

\* With EXEC empty, the pass that locks it does so for somebody that waits.
LEMMA PasoRecorreConAlguien ==
  ASSUME IInv, EInv, Next
  PROVE  RecorreConAlguien'
<1>0. /\ RecorreConAlguien /\ TomaConAlguien /\ Recorridos /\ Listas /\ hebras \in [Hebras -> Registro]
  BY DEF EInv, PasadaConAlguien, IInv, HilosDelKernel
<1>1. ASSUME NEW i \in Hebras, PcpTomar(i) PROVE RecorreConAlguien'
  <2>1. CASE ~ExecLibre
    <3>1. UNCHANGED esperaban /\ hebras' = [hebras EXCEPT ![i].paso = hebras[i].luego]
      BY <1>1, <2>1 DEF PcpTomar
    <3>2. \A j \in Hebras : Recorre(j)' => Recorre(j)
      BY <1>0, <3>1 DEF Recorre, Registro
    <3>3. QED
      BY <1>0, <3>1, <3>2 DEF RecorreConAlguien
  <2>2. CASE ExecLibre
    <3>1. exec = <<>> /\ hebras[i].paso = "tomar" /\ esperaban' = {h \in Hilos : EnReady(h)}
      BY <1>1, <2>2 DEF PcpTomar, ExecLibre
    <3>2. PICK p \in Prioridades : TieneHilos(p)
      BY <1>0, <3>1 DEF TomaConAlguien, Empieza, Alguien
    <3>3. PICK h \in Hilos : h = Head(colas[p]) /\ Prioridad[h] = p
      BY <1>0, <3>2, Elegible
    <3>4. colas[p] \in Seq(Hilos) /\ colas[p] # <<>>
      BY <1>0, <3>2 DEF Listas, TieneHilos
    <3>5. 1 \in DOMAIN colas[p] /\ colas[p][1] = h
      BY <3>3, <3>4, LenProperties, EmptySeq, HeadTailProperties
    <3>6. EnReady(h)
      BY <3>3, <3>5 DEF EnReady, Range
    <3>7. QED
      BY <3>1, <3>6 DEF RecorreConAlguien
  <2>3. QED
    BY <2>1, <2>2
<1>2. ASSUME NEW i \in Hebras, PcpSacar(i) PROVE RecorreConAlguien'
  <2>1. Recorre(i) /\ hebras[i].paso = "sacar" /\ \A j \in Hebras : Recorre(j) => j = i
    BY <1>0, <1>2 DEF PcpSacar, Recorre, Recorridos
  <2>2. hebras[i].vistas # {}
    BY <1>0, <2>1 DEF RecorreConAlguien, Recorridos, PorVer
  <2>3. hebras'[i].paso = "enviar" /\ \A j \in Hebras \ {i} : hebras'[j] = hebras[j]
    BY <1>0, <1>2, <2>2 DEF PcpSacar, Registro
  <2>4. QED
    BY <2>1, <2>3 DEF RecorreConAlguien, Recorre
<1>3. ASSUME \A i \in Hebras : ~PcpTomar(i) /\ ~PcpSacar(i) PROVE RecorreConAlguien'
  BY <1>0, <1>3, OtrosNoRecorren DEF RecorreConAlguien
<1>4. QED
  BY <1>1, <1>2, <1>3

\* UnLugar of one thread.
Lugar(h) ==
  /\ h \in Range(exec) => ~EnReady(h) /\ h \notin Range(blocked) /\ h \notin salidos
  /\ EnReady(h) => h \notin Range(blocked) /\ h \notin salidos
  /\ h \in Range(blocked) => h \notin salidos
  /\ h \notin creados => ~EnReady(h) /\ h \notin Range(exec) /\ h \notin Range(blocked) /\ h \notin salidos
  /\ EnMano(h) => /\ h \in creados /\ ~EnReady(h)
                  /\ h \notin Range(exec) /\ h \notin Range(blocked) /\ h \notin salidos

\* A thread goes to its queue: nothing changes for the others.
LEMMA AlFinal ==
  ASSUME Listas, NEW g \in Hilos, colas' = Encolar(colas, g)
  PROVE  /\ \A h \in Hilos : EnReady(h)' <=> EnReady(h) \/ h = g
         /\ (\A h \in Hilos : IsInjective(colas[Prioridad[h]])) /\ ~EnReady(g) =>
              \A h \in Hilos : IsInjective(colas'[Prioridad[h]])
<1>1. /\ \A h \in Hilos : Prioridad[h] \in Prioridades /\ colas[Prioridad[h]] \in Seq(Hilos)
      /\ DOMAIN colas = Prioridades
  BY Numeros DEF Listas
<1>2. /\ colas'[Prioridad[g]] = Append(colas[Prioridad[g]], g)
      /\ \A p \in Prioridades : p # Prioridad[g] => colas'[p] = colas[p]
  BY <1>1 DEF Encolar
<1>3. /\ Range(colas'[Prioridad[g]]) = Range(colas[Prioridad[g]]) \cup {g}
      /\ IsInjective(colas[Prioridad[g]]) /\ g \notin Range(colas[Prioridad[g]]) =>
           IsInjective(colas'[Prioridad[g]])
  BY <1>1, <1>2, AgregaUno
<1>4. \A h \in Hilos : EnReady(h)' <=> EnReady(h) \/ h = g
  <2> TAKE h \in Hilos
  <2>1. CASE Prioridad[h] = Prioridad[g]
    BY <1>3, <2>1 DEF EnReady
  <2>2. CASE Prioridad[h] # Prioridad[g]
    BY <1>1, <1>2, <2>2 DEF EnReady
  <2>3. QED
    BY <2>1, <2>2
<1>5. ASSUME \A h \in Hilos : IsInjective(colas[Prioridad[h]]), ~EnReady(g), NEW h \in Hilos
      PROVE  IsInjective(colas'[Prioridad[h]])
  <2>1. CASE Prioridad[h] = Prioridad[g]
    BY <1>3, <1>5, <2>1 DEF EnReady
  <2>2. CASE Prioridad[h] # Prioridad[g]
    BY <1>1, <1>2, <1>5, <2>2
  <2>3. QED
    BY <2>1, <2>2
<1>6. QED
  BY <1>4, <1>5

\* The first of a queue is taken: it was there once.
LEMMA DelFrente ==
  ASSUME Listas, \A h \in Hilos : IsInjective(colas[Prioridad[h]]),
         NEW p \in Prioridades, TieneHilos(p), colas' = [colas EXCEPT ![p] = Tail(@)]
  PROVE  /\ EnReady(Head(colas[p]))
         /\ \A h \in Hilos : EnReady(h)' <=> EnReady(h) /\ h # Head(colas[p])
         /\ \A h \in Hilos : IsInjective(colas'[Prioridad[h]])
<1>1. PICK g \in Hilos : g = Head(colas[p]) /\ Prioridad[g] = p
  BY Elegible
<1>2. /\ colas[p] # <<>> /\ colas[p] \in Seq(Hilos) /\ IsInjective(colas[p])
      /\ DOMAIN colas = Prioridades
  BY <1>1 DEF Listas, TieneHilos
<1>3. colas[p][1] = g
  BY <1>1, <1>2, HeadTailProperties
<1>4. colas'[p] = RemoveFirst(colas[p], g) /\ \A q \in Prioridades : q # p => colas'[q] = colas[q]
  <2>1. RemoveFirst(colas[p], colas[p][1]) = Tail(colas[p])
    BY <1>2, RemoveFirstCabeza
  <2>2. colas'[p] = Tail(colas[p]) /\ \A q \in Prioridades : q # p => colas'[q] = colas[q]
    BY <1>2
  <2>3. QED
    BY <1>3, <2>1, <2>2
<1>5. Range(colas'[p]) = Range(colas[p]) \ {g} /\ IsInjective(colas'[p])
  <2>1. Range(RemoveFirst(colas[p], g)) = Range(colas[p]) \ {g} /\ IsInjective(RemoveFirst(colas[p], g))
    BY <1>2, SacaUno
  <2>2. QED
    BY <1>4, <2>1
<1>6. g \in Range(colas[p])
  <2>1. 1 \in DOMAIN colas[p]
    BY <1>2, LenProperties, EmptySeq
  <2>2. QED
    BY <1>3, <2>1 DEF Range
<1>7. \A h \in Hilos : EnReady(h)' <=> EnReady(h) /\ h # g
  <2> TAKE h \in Hilos
  <2>1. CASE Prioridad[h] = p
    BY <1>5, <2>1 DEF EnReady
  <2>2. CASE Prioridad[h] # p
    BY <1>1, <1>4, <2>2, Numeros DEF EnReady
  <2>3. QED
    BY <2>1, <2>2
<1>8. ASSUME NEW h \in Hilos PROVE IsInjective(colas'[Prioridad[h]])
  <2>1. CASE Prioridad[h] = p
    BY <1>5, <2>1
  <2>2. CASE Prioridad[h] # p
    BY <1>4, <2>2, Numeros
  <2>3. QED
    BY <2>1, <2>2
<1>9. QED
  BY <1>1, <1>6, <1>7, <1>8 DEF EnReady

\* A thread of the kernel in a pass goes on with it, or with what it has to do after it.
LEMMA SigueSuPasada ==
  ASSUME IInv, NEW i \in Hebras, Pcp(i), ~UNCHANGED hebras
  PROVE  /\ \A j \in Hebras \ {i} : hebras'[j] = hebras[j]
         /\ hebras'[i].paso \in PasosPcp \cup {hebras[i].luego}
         /\ hebras'[i].luego = hebras[i].luego /\ hebras'[i].hilo = hebras[i].hilo
         /\ hebras'[i].colgado = hebras[i].colgado
<1> DEFINE Sigue == /\ \A j \in Hebras \ {i} : hebras'[j] = hebras[j]
                    /\ hebras'[i].paso \in PasosPcp \cup {hebras[i].luego}
                    /\ hebras'[i].luego = hebras[i].luego /\ hebras'[i].hilo = hebras[i].hilo
                    /\ hebras'[i].colgado = hebras[i].colgado
<1>0. hebras \in [Hebras -> Registro]
  BY DEF IInv, HilosDelKernel
<1>1. ASSUME NEW p, NEW f, p \in PasosPcp \cup {hebras[i].luego},
             hebras' = [hebras EXCEPT ![i].paso = p, ![i].faltan = f]
      PROVE  Sigue
  BY <1>0, <1>1 DEF Registro
<1>2. ASSUME NEW p, NEW t, NEW v, p \in PasosPcp \cup {hebras[i].luego},
             hebras' = [hebras EXCEPT ![i].paso = p, ![i].toma = t, ![i].vistas = v]
      PROVE  Sigue
  BY <1>0, <1>2 DEF Registro
<1>3. ASSUME NEW p, p \in PasosPcp \cup {hebras[i].luego}, hebras' = [hebras EXCEPT ![i].paso = p]
      PROVE  Sigue
  BY <1>0, <1>3 DEF Registro
<1>4. ASSUME NEW p, p \in PasosPcp \cup {hebras[i].luego}, NEW t,
             hebras' = [hebras EXCEPT ![i].paso = p, ![i].toma = t]
      PROVE  Sigue
  BY <1>0, <1>4 DEF Registro
<1>5. ASSUME NEW f, hebras' = [hebras EXCEPT ![i].faltan = f], hebras[i].paso \in PasosPcp
      PROVE  Sigue
  BY <1>0, <1>5 DEF Registro
<1>6. SUFFICES Sigue
  OBVIOUS
<1> HIDE DEF Sigue
<1> USE DEF PasosPcp
<1>7. CASE PcpMirar(i)
  <2>1. PICK f : \/ hebras' = [hebras EXCEPT ![i].paso = "tomar", ![i].faltan = f]
                \/ hebras' = [hebras EXCEPT ![i].paso = hebras[i].luego, ![i].faltan = f]
                \/ hebras' = [hebras EXCEPT ![i].faltan = f]
    BY <1>7 DEF PcpMirar
  <2>2. hebras[i].paso = "mirar"
    BY <1>7 DEF PcpMirar
  <2>3. QED
    BY <1>1, <1>5, <2>1, <2>2
<1>8. CASE PcpTomar(i)
  <2>1. \/ hebras' = [hebras EXCEPT ![i].paso = hebras[i].luego]
        \/ hebras' = [hebras EXCEPT ![i].paso = "recorrer"]
    BY <1>8 DEF PcpTomar
  <2>2. QED
    BY <1>3, <2>1
<1>9. CASE PcpRecorrer(i)
  <2>1. PICK v, f, p : /\ hebras' = [hebras EXCEPT ![i].vistas = v, ![i].faltan = f, ![i].paso = p]
                       /\ p \in {"sacar", "recorrer"}
    BY <1>9 DEF PcpRecorrer
  <2>2. QED
    BY <1>0, <2>1 DEF Registro, Sigue
<1>10. CASE PcpSacar(i)
  <2>1. ~UNCHANGED exec
    BY <1>10, SacaAlguien
  <2>2. PICK t : hebras' = [hebras EXCEPT ![i].paso = "enviar", ![i].toma = t, ![i].vistas = {}]
    BY <1>10, <2>1, Sacado
  <2>3. QED
    BY <1>2, <2>2
<1>11. CASE PcpEnviar(i)
  <2>1. hebras' = [hebras EXCEPT ![i].paso = "armar"]
    BY <1>11 DEF PcpEnviar
  <2>2. QED
    BY <1>3, <2>1
<1>12. CASE PcpArmar(i)
  <2>1. hebras' = [hebras EXCEPT ![i].paso = hebras[i].luego, ![i].toma = Nadie]
    BY <1>12 DEF PcpArmar
  <2>2. QED
    BY <1>4, <2>1
<1>13. QED
  BY <1>7, <1>8, <1>9, <1>10, <1>11, <1>12 DEF Pcp

\* Only an eviction takes a thread in hand, and only Reubicar puts it down.
LEMMA SoloDesalojar ==
  ASSUME IInv, Next, NEW h, EnMano(h)', ~Desalojar
  PROVE  EnMano(h) /\ ~Reubicar
<1>0. hebras \in [Hebras -> Registro] /\ 0 \in Hebras
  BY Numeros DEF IInv, HilosDelKernel
<1>1. ASSUME NEW i \in Hebras, hebras'[i].paso # "reubicar", \A j \in Hebras \ {i} : hebras'[j] = hebras[j]
      PROVE  EnMano(h)
  BY <1>0, <1>1 DEF EnMano
<1>2. ASSUME UNCHANGED hebras PROVE EnMano(h)
  BY <1>2 DEF EnMano
<1>3. ~Reubicar
  BY <1>0 DEF Reubicar, Hebra, EnMano
<1>4. ASSUME NEW i \in Hebras, Pcp(i) PROVE EnMano(h)
  <2>1. hebras[i].luego # "reubicar"
    BY <1>0 DEF Registro
  <2>2. CASE UNCHANGED hebras
    BY <1>2, <2>2
  <2>3. CASE ~UNCHANGED hebras
    <3>1. hebras'[i].paso # "reubicar" /\ \A j \in Hebras \ {i} : hebras'[j] = hebras[j]
      BY <1>4, <2>1, <2>3, SigueSuPasada DEF PasosPcp
    <3>2. QED
      BY <1>1, <3>1
  <2>4. QED
    BY <2>2, <2>3
<1>5. ASSUME NEW i \in Hebras, IoAgregar(i) \/ IoBloquear(i) \/ IoMirar(i) \/ IoDormir(i) \/ IoSeguir(i)
      PROVE  EnMano(h)
  <2>1. \A j \in Hebras \ {i} : hebras'[j] = hebras[j]
    BY <1>0, <1>5 DEF IoAgregar, IoBloquear, IoMirar, IoDormir, IoSeguir
  <2>2. hebras[i] \in Registro
    BY <1>0
  <2>3. hebras'[i].paso # "reubicar"
    BY <1>0, <1>5, <2>2 DEF IoAgregar, IoBloquear, IoMirar, IoDormir, IoSeguir, SiguienteIO, Hebra, Inactiva, Registro
  <2>4. QED
    BY <1>1, <2>1, <2>3
<1>6. ASSUME NEW i \in Hebras, IoDespertar(i) PROVE EnMano(h)
  <2> DEFINE sueltas == [j \in Hebras |-> IF j \in MismoSleep(i)
                                          THEN [hebras[j] EXCEPT !.colgado = TRUE] ELSE hebras[j]]
  <2>1. /\ sueltas \in [Hebras -> Registro]
        /\ \A j \in Hebras : sueltas[j].paso = hebras[j].paso /\ sueltas[j].hilo = hebras[j].hilo
    BY <1>0 DEF Registro
  <2>2. \/ hebras' = [sueltas EXCEPT ![i].paso = "mirar", ![i].luego = "seguir"]
        \/ hebras' = [sueltas EXCEPT ![i].paso = "seguir"]
    BY <1>6 DEF IoDespertar
  <2> HIDE DEF sueltas
  <2>3. hebras'[i].paso # "reubicar"
    BY <2>1, <2>2 DEF Registro
  <2>4. 0 # i => hebras'[0].paso = hebras[0].paso /\ hebras'[0].hilo = hebras[0].hilo
    BY <1>0, <2>1, <2>2
  <2>5. QED
    BY <2>3, <2>4 DEF EnMano
<1>7. ASSUME NEW g \in Hilos, AtiendeIO(g) \/ AtiendeThreadCreate(g) PROVE EnMano(h)
  <2>1. PICK i \in Nueva : \/ hebras' = [hebras EXCEPT ![i] = Hebra("agregar", g, "libre")]
                           \/ hebras' = [hebras EXCEPT ![i] = Hebra("mirar", Nadie, "libre")]
    BY <1>7 DEF AtiendeIO, AtiendeThreadCreate
  <2>2. i \in Hebras
    BY NuevaLibre
  <2>3. hebras'[i].paso # "reubicar" /\ \A j \in Hebras \ {i} : hebras'[j] = hebras[j]
    BY <1>0, <2>1, <2>2 DEF Hebra
  <2>4. QED
    BY <1>1, <2>2, <2>3
<1>8. ASSUME NEW g \in Hilos, AtiendeThreadExit(g) \/ AtiendeDesalojo(g) PROVE EnMano(h)
  <2>1. hebras'[0].paso # "reubicar"
    BY <1>0, <1>8 DEF AtiendeThreadExit, AtiendeDesalojo, Hebra, Registro
  <2>2. QED
    BY <2>1 DEF EnMano
<1>9. ASSUME NEW g \in Hilos, \/ TemporizadorEmpieza(g) \/ AtiendeMutexUnlock(g)
                              \/ \E op \in Peticiones : AtiendeInvalido(op, g)
      PROVE  EnMano(h)
  BY <1>2, <1>9 DEF TemporizadorEmpieza, AtiendeMutexUnlock, AtiendeInvalido
<1>10. ASSUME TemporizadorVence \/ Gestor \/ CpuAvanza \/ CpuSyscall \/ Interrupcion PROVE EnMano(h)
  BY <1>2, <1>10 DEF TemporizadorVence, Gestor, GestorToma, GestorEnvia, CpuAvanza, CpuRecibe, CpuContexto,
     CpuSinContexto, CpuRecibeRta, CpuDesaloja, CpuSigue, CpuSuelta, CpuSyscall, CpuIO, CpuThreadCreate,
     CpuMutexUnlock, CpuThreadExit, Pide, Interrupcion, InterrupcionLlega, InterrupcionMarca
<1>11. EnMano(h)
  BY <1>3, <1>4, <1>5, <1>6, <1>7, <1>8, <1>9, <1>10 DEF Next, Io, AtiendeAlgo
<1>12. QED
  BY <1>3, <1>11

\* UnLugar is kept: a thread goes from a list to another one.
LEMMA PasoUnLugar ==
  ASSUME IInv, EInv, Next
  PROVE  UnLugar'
<1>0. UnLugar /\ Turnos /\ Listas /\ HilosDelKernel
  BY DEF EInv, IInv
<1> DEFINE Distintos == IsInjective(blocked) /\ \A h \in Hilos : IsInjective(colas[Prioridad[h]])
<1>1. 1 \in Hilos /\ Distintos /\ \A h \in Hilos : Lugar(h)
  BY <1>0, Numeros DEF UnLugar, Lugar
<1>2. Distintos' /\ (\A h \in Hilos : Lugar(h)') => UnLugar'
  BY DEF UnLugar, Lugar
<1>3. ASSUME UNCHANGED colas PROVE \A h \in Hilos : EnReady(h)' <=> EnReady(h)
  BY <1>3 DEF EnReady
\* Out of EXEC: the thread that is there.
<1>4. ASSUME NEW i \in Hebras, Recoge(i)
      PROVE  /\ hebras[i].hilo \in Hilos /\ exec = <<hebras[i].hilo>> /\ Range(exec) = {hebras[i].hilo}
             /\ RemoveFirst(exec, hebras[i].hilo) = <<>>
  <2>1. hebras[i].hilo \in Hilos
    BY <1>0, <1>4 DEF HilosDelKernel, Sabe, Recoge, PasosIO
  <2>2. exec = <<hebras[i].hilo>>
    BY <1>0, <1>4, Etapas
  <2>3. QED
    BY <2>1, <2>2, QuitaUnico, Unico
<1>5. CASE Desalojar
  <2>1. 0 \in Hebras /\ Recoge(0)
    BY <1>5, Numeros DEF Desalojar, Recoge
  <2>2. PICK g \in Hilos : g = hebras[0].hilo /\ Range(exec) = {g} /\ RemoveFirst(exec, g) = <<>>
    BY <1>4, <2>1
  <2>3. Range(exec') = {} /\ UNCHANGED <<colas, blocked, salidos, creados>>
    BY <1>5, <2>2, Unico DEF Desalojar
  <2>4. ~EnReady(g) /\ g \notin Range(blocked) /\ g \notin salidos /\ g \in creados
    BY <1>1, <2>2 DEF Lugar
  <2>5. hebras'[0].hilo = g
    BY <1>0, <1>5, <2>1, <2>2 DEF Desalojar, HilosDelKernel, Registro
  <2>6. \A f \in Hilos : EnMano(f)' => f = g
    BY <2>5 DEF EnMano
  <2>7. \A f \in Hilos : Lugar(f)'
    BY <1>1, <1>3, <2>3, <2>4, <2>6 DEF Lugar
  <2>8. QED
    BY <1>1, <1>2, <2>3, <2>7
<1>6. SUFFICES ASSUME ~Desalojar PROVE UnLugar'
  BY <1>5
<1>7. ASSUME NEW h \in Hilos PROVE EnMano(h)' => EnMano(h) /\ ~Reubicar
  BY <1>6, SoloDesalojar
<1>8. ASSUME UNCHANGED kernel PROVE UnLugar'
  <2>1. \A h \in Hilos : Lugar(h)'
    BY <1>1, <1>8, <1>3, <1>7 DEF Lugar, kernel
  <2>2. Distintos'
    BY <1>1, <1>8 DEF kernel
  <2>3. QED
    BY <1>2, <2>1, <2>2
<1>9. ASSUME NEW i \in Hebras, PcpSacar(i) PROVE UnLugar'
  <2>0. UNCHANGED <<blocked, salidos, creados>>
    BY <1>9 DEF PcpSacar
  <2>1. CASE UNCHANGED exec
    <3>1. UNCHANGED colas
      BY <1>9, <2>1, SacaAlguien
    <3>2. QED
      BY <1>8, <2>0, <2>1, <3>1 DEF kernel
  <2>2. CASE ~UNCHANGED exec
    <3> DEFINE p == MejorCola(hebras[i].vistas)
    <3>1. /\ exec = <<>> /\ p \in Prioridades /\ TieneHilos(p)
          /\ exec' = Append(exec, Head(colas[p])) /\ colas' = [colas EXCEPT ![p] = Tail(@)]
      BY <1>9, <2>2, Sacado
    <3> HIDE DEF p
    <3>2. PICK g \in Hilos : g = Head(colas[p])
      BY <1>0, <3>1, Elegible
    <3>3. /\ EnReady(g) /\ \A h \in Hilos : EnReady(h)' <=> EnReady(h) /\ h # g
          /\ \A h \in Hilos : IsInjective(colas'[Prioridad[h]])
      BY <1>0, <1>1, <3>1, <3>2, DelFrente
    <3>4. Range(exec') = {g}
      BY <3>1, <3>2, Unico
    <3>5. \A h \in Hilos : Lugar(h)'
      BY <1>1, <1>7, <2>0, <3>3, <3>4 DEF Lugar
    <3>6. QED
      BY <1>1, <1>2, <2>0, <3>3, <3>5
  <2>3. QED
    BY <2>1, <2>2
<1>10. ASSUME NEW h \in Hilos, AtiendeThreadCreate(h) PROVE UnLugar'
  <2>1. PICK g : g = Min(Hilos \ creados)
    OBVIOUS
  <2>2. g \in Hilos /\ g \notin creados
    BY <1>10, <2>1, PorCrear
  <2>3. creados' = creados \cup {g} /\ colas' = Encolar(colas, g) /\ UNCHANGED <<exec, blocked, salidos>>
    BY <1>10, <2>1 DEF AtiendeThreadCreate
  <2>4. ~EnReady(g) /\ g \notin Range(exec) /\ g \notin Range(blocked) /\ g \notin salidos /\ ~EnMano(g)
    BY <1>1, <2>2 DEF Lugar
  <2>5. /\ \A f \in Hilos : EnReady(f)' <=> EnReady(f) \/ f = g
        /\ \A f \in Hilos : IsInjective(colas'[Prioridad[f]])
    BY <1>0, <1>1, <2>2, <2>3, <2>4, AlFinal
  <2>6. \A f \in Hilos : Lugar(f)'
    BY <1>1, <1>7, <2>2, <2>3, <2>4, <2>5 DEF Lugar
  <2>7. QED
    BY <1>1, <1>2, <2>3, <2>5, <2>6
<1>11. ASSUME NEW h \in Hilos, AtiendeThreadExit(h) PROVE UnLugar'
  <2>1. /\ Atiende("THREAD_EXIT", h) /\ exec' = RemoveFirst(exec, h) /\ salidos' = salidos \cup {h}
        /\ UNCHANGED <<colas, blocked, creados>>
    BY <1>11 DEF AtiendeThreadExit
  <2>2. exec = <<h>>
    BY <2>1, TurnosDeAtiende DEF Peticiones
  <2>3. Range(exec) = {h} /\ Range(exec') = {}
    BY <2>1, <2>2, QuitaUnico, Unico
  <2>4. \A f \in Hilos : ~EnMano(f)
    BY <2>1 DEF Atiende, EnMano
  <2>5. \A f \in Hilos : Lugar(f)'
    BY <1>1, <1>3, <1>7, <2>1, <2>3, <2>4 DEF Lugar
  <2>6. QED
    BY <1>1, <1>2, <2>1, <2>5
<1>12. CASE Reubicar
  <2>1. PICK g \in Hilos : g = hebras[0].hilo
    BY <1>0, <1>12, Numeros DEF Reubicar, HilosDelKernel, Sabe
  <2>2. EnMano(g)
    BY <1>12, <2>1 DEF Reubicar, EnMano
  <2>3. colas' = Encolar(colas, g) /\ UNCHANGED <<exec, blocked, salidos, creados>>
    BY <1>12, <2>1 DEF Reubicar, Desalojado
  <2>4. ~EnReady(g) /\ g \notin Range(exec) /\ g \notin Range(blocked) /\ g \notin salidos /\ g \in creados
    BY <1>1, <2>2 DEF Lugar
  <2>5. /\ \A f \in Hilos : EnReady(f)' <=> EnReady(f) \/ f = g
        /\ \A f \in Hilos : IsInjective(colas'[Prioridad[f]])
    BY <1>0, <1>1, <2>3, <2>4, AlFinal
  <2>6. \A f \in Hilos : ~EnMano(f)'
    BY <1>12, <1>7, <2>2
  <2>7. \A f \in Hilos : Lugar(f)'
    BY <1>1, <2>3, <2>4, <2>5, <2>6 DEF Lugar
  <2>8. QED
    BY <1>1, <1>2, <2>3, <2>5, <2>7
<1>13. ASSUME NEW i \in Hebras, IoBloquear(i) PROVE UnLugar'
  <2>1. Recoge(i)
    BY <1>13 DEF IoBloquear, Recoge
  <2>2. PICK g \in Hilos : g = hebras[i].hilo /\ Range(exec) = {g} /\ RemoveFirst(exec, g) = <<>>
    BY <1>4, <2>1
  <2>3. EnExec(g)
    BY <2>2 DEF EnExec
  <2>4. /\ Range(exec') = {} /\ blocked' = Append(blocked, g) /\ UNCHANGED <<colas, salidos, creados>>
    BY <1>13, <2>2, <2>3, Unico DEF IoBloquear
  <2>5. ~EnReady(g) /\ g \notin Range(blocked) /\ g \notin salidos /\ g \in creados
    BY <1>1, <2>2 DEF Lugar
  <2>6. Range(blocked') = Range(blocked) \cup {g} /\ IsInjective(blocked')
    BY <1>0, <1>1, <2>4, <2>5, AgregaUno DEF Listas
  <2>7. ~EnMano(g)
    BY <1>1, <2>2 DEF Lugar
  <2>8. \A f \in Hilos : Lugar(f)'
    BY <1>1, <1>3, <1>7, <2>4, <2>5, <2>6, <2>7 DEF Lugar
  <2>9. QED
    BY <1>1, <1>2, <2>4, <2>6, <2>8
<1>14. ASSUME NEW i \in Hebras, IoDespertar(i) PROVE UnLugar'
  <2>1. PICK g \in Hilos : g = hebras[i].hilo
    BY <1>0, <1>14 DEF IoDespertar, HilosDelKernel, Sabe, PasosIO
  <2>2. CASE g \in Range(blocked)
    <3>1. blocked' = RemoveFirst(blocked, g) /\ colas' = Encolar(colas, g) /\ UNCHANGED <<exec, salidos, creados>>
      BY <1>14, <2>1, <2>2 DEF IoDespertar
    <3>2. ~EnReady(g) /\ g \notin Range(exec) /\ g \notin salidos /\ g \in creados /\ ~EnMano(g)
      BY <1>1, <2>2 DEF Lugar
    <3>3. /\ \A f \in Hilos : EnReady(f)' <=> EnReady(f) \/ f = g
          /\ \A f \in Hilos : IsInjective(colas'[Prioridad[f]])
      BY <1>0, <1>1, <3>1, <3>2, AlFinal
    <3>4. Range(blocked') = Range(blocked) \ {g} /\ IsInjective(blocked')
      BY <1>0, <1>1, <3>1, SacaUno DEF Listas
    <3>5. \A f \in Hilos : Lugar(f)'
      BY <1>1, <1>7, <3>1, <3>2, <3>3, <3>4 DEF Lugar
    <3>6. QED
      BY <1>2, <3>3, <3>4, <3>5
  <2>3. CASE g \notin Range(blocked)
    BY <1>8, <1>14, <2>1, <2>3 DEF IoDespertar, kernel
  <2>4. QED
    BY <2>2, <2>3
<1>15. ASSUME NEW i \in Hebras, \/ PcpMirar(i) \/ PcpTomar(i) \/ PcpRecorrer(i) \/ PcpEnviar(i) \/ PcpArmar(i)
                                \/ IoAgregar(i) \/ IoMirar(i) \/ IoDormir(i) \/ IoSeguir(i)
       PROVE  UNCHANGED kernel
  BY <1>15 DEF PcpMirar, PcpTomar, PcpRecorrer, PcpEnviar, PcpArmar, IoAgregar, IoMirar, IoDormir, IoSeguir
<1>16. ASSUME NEW h \in Hilos,
              \/ TemporizadorEmpieza(h) \/ AtiendeIO(h) \/ AtiendeMutexUnlock(h) \/ AtiendeDesalojo(h)
              \/ \E op \in Peticiones : AtiendeInvalido(op, h)
       PROVE  UNCHANGED kernel
  BY <1>16 DEF TemporizadorEmpieza, AtiendeIO, AtiendeMutexUnlock, AtiendeDesalojo, AtiendeInvalido
<1>17. ASSUME TemporizadorVence \/ Gestor \/ CpuAvanza \/ CpuSyscall \/ Interrupcion
       PROVE  UNCHANGED kernel
  BY <1>17 DEF TemporizadorVence, Gestor, GestorToma, GestorEnvia, CpuAvanza, CpuRecibe, CpuContexto,
     CpuSinContexto, CpuRecibeRta, CpuDesaloja, CpuSigue, CpuSuelta, CpuSyscall, CpuIO, CpuThreadCreate,
     CpuMutexUnlock, CpuThreadExit, Pide, Interrupcion, InterrupcionLlega, InterrupcionMarca
<1>18. QED
  BY <1>6, <1>8, <1>9, <1>10, <1>11, <1>13, <1>14, <1>12, <1>15, <1>16, <1>17 DEF Next, Pcp, Io, AtiendeAlgo

\* EInv holds at the start, with the first pass about to look.
LEMMA EInicial ==
  ASSUME Init
  PROVE  EInv
<1>1. Turnos
  <2>1. NadieEnvia /\ NadieRecoge
    BY DEF Init, NadieEnvia, NadieRecoge, Recoge, Hebra, Inactiva
  <2>2. SinMensajes /\ CpuFuera /\ exec = <<>>
    BY DEF Init, SinMensajes, CpuFuera
  <2>3. QED
    BY <2>1, <2>2 DEF Turnos, Vacio
<1>2. UnAviso
  BY DEF Init, UnAviso, SinAviso
<1>3. PasadaConAlguien
  BY DEF Init, PasadaConAlguien, TomaConAlguien, RecorreConAlguien, Recorre, Hebra, Inactiva
<1>4. UnLugar
  <2>1. <<>> \in Seq(Hilos) /\ Range(<<>>) = {} /\ IsInjective(<<>>) /\ Range(<<1>>) = {1} /\ IsInjective(<<1>>)
    BY Unico, VacioElementos DEF IsInjective
  <2>2. exec = <<>> /\ blocked = <<>> /\ salidos = {} /\ creados = {1}
    BY DEF Init
  <2>3. \A h \in Hilos : colas[Prioridad[h]] = <<>> \/ colas[Prioridad[h]] = <<1>>
    BY Numeros DEF Init
  <2>4. \A h \in Hilos : IsInjective(colas[Prioridad[h]]) /\ (EnReady(h) => h = 1)
    BY <2>1, <2>3 DEF EnReady
  <2>5. \A h \in Hilos : ~EnMano(h)
    BY Numeros DEF Init, EnMano, Hebra, Inactiva
  <2>6. QED
    BY <2>1, <2>2, <2>4, <2>5 DEF UnLugar
<1>5. QED
  BY <1>1, <1>2, <1>3, <1>4 DEF EInv

\* EInv is kept with interruptions on time.
LEMMA EPaso ==
  ASSUME IInv, EInv, EnTiempo = TRUE, [Next]_vars
  PROVE  EInv'
<1>1. CASE Next
  BY <1>1, PasoTurnos, PasoUnAviso, PasoTomaConAlguien, PasoRecorreConAlguien, PasoUnLugar
     DEF EInv, PasadaConAlguien
<1>2. CASE UNCHANGED vars
  <2> USE <1>2 DEF vars, kernel, reloj, avisos, cpuVars
  <2>1. Turnos'
    BY MismasHebras, TurnosIgual DEF EInv, CpuFuera
  <2>2. UnAviso'
    BY DEF EInv, UnAviso, SinAviso
  <2>3. PasadaConAlguien'
    <3>1. Alguien' = Alguien /\ (Empieza => Empieza')
      BY DEF Alguien, TieneHilos, Empieza, NadieRecoge, Recoge, SinAviso
    <3>2. TomaConAlguien'
      BY <3>1, PasadaIgual DEF EInv, PasadaConAlguien
    <3>3. RecorreConAlguien'
      BY DEF EInv, PasadaConAlguien, RecorreConAlguien, Recorre
    <3>4. QED
      BY <3>2, <3>3 DEF PasadaConAlguien
  <2>4. UnLugar'
    BY DEF EInv, UnLugar, EnReady, EnMano
  <2>5. QED
    BY <2>1, <2>2, <2>3, <2>4 DEF EInv
<1>3. QED
  BY <1>1, <1>2

\* With interruptions that arrive before the next instruction and quanta longer than a
\* dispatch, the thread that computes in the CPU is the one the kernel has in EXEC, and
\* its context is there: no quantum, IO, exit or creation, in whatever order they are
\* attended, leaves another one running, for any number of threads and queues.
THEOREM ElQueComputaEstaEnExec ==
  ASSUME EnTiempo = TRUE
  PROVE  Spec => []EjecucionFiel
<1>1. Init => IInv /\ EInv
  BY Inicial, EInicial
<1>2. (IInv /\ EInv) /\ [Next]_vars => (IInv /\ EInv)'
  BY Paso, EPaso
<1>3. IInv /\ EInv => EjecucionFiel
  BY Computa DEF EjecucionFiel
<1>4. QED
  BY <1>1, <1>2, <1>3, PTL DEF Spec

-----------------------------------------------------------------------------
(* One IO at a time. *)

EnSeccion(i) == PorAgregar(i) \/ PorMirar(i)

\* It added its request to the queue, and is to look whether it is alone there.
PorMirarSuya(i) == \/ hebras[i].paso \in {"bloquear", "mirarIO"}
                   \/ hebras[i].paso \in PasosPcp /\ hebras[i].luego = "mirarIO"

\* It slept, and is to look whether somebody is left.
PorSeguir(i) == \/ hebras[i].paso \in {"despertar", "seguir"}
                \/ hebras[i].paso \in PasosPcp /\ hebras[i].luego = "seguir"

Duerme(i) == hebras[i].paso = "dormir" \/ (hebras[i].paso \in PasosPcp /\ hebras[i].luego = "dormir")

NadieDuerme == \A i \in Hebras : ~Duerme(i)

SuenoEnOrden ==
  /\ ~caido /\ \A i \in Hebras : ~hebras[i].colgado
  /\ \A i, j \in Hebras : EnSeccion(i) /\ EnSeccion(j) => i = j
  /\ \A i \in Hebras : EnSeccion(i) => \A h \in Hilos : Mensaje("IO", h) \notin Range(aKernel)
  /\ \A i, j \in Hebras : Duerme(i) /\ Duerme(j) => i = j
  /\ \A i \in Hebras : Duerme(i) => colaIO # <<>> /\ Head(colaIO) = hebras[i].hilo
  /\ colaIO # <<>> => ~NadieDuerme \/ \E i \in Hebras : PorMirar(i)
  /\ \A i \in Hebras : PorMirarSuya(i) =>
       /\ colaIO # <<>> /\ colaIO[Len(colaIO)] = hebras[i].hilo
       /\ Len(colaIO) = 1 <=> NadieDuerme
  /\ \A i \in Hebras : PorSeguir(i) => NadieDuerme

\* A thread of the kernel that goes on with what it has to do with the IO queue.
MismaParte(i) ==
  /\ PorAgregar(i)' <=> PorAgregar(i)
  /\ PorMirarSuya(i)' <=> PorMirarSuya(i)
  /\ PorSeguir(i)' <=> PorSeguir(i)
  /\ Duerme(i)' <=> Duerme(i)
  /\ PorAgregar(i) \/ PorMirarSuya(i) \/ PorSeguir(i) \/ Duerme(i) => hebras'[i].hilo = hebras[i].hilo

\* It has nothing to do with it.
Ajena(r) ==
  /\ r.paso \notin PasosIO /\ (r.paso \in PasosPcp => r.luego = "libre")

\* Which parts the sections are made of.
LEMMA Partes ==
  ASSUME NEW i \in Hebras
  PROVE  /\ hebras'[i] = hebras[i] => MismaParte(i)
         /\ Ajena(hebras[i]) /\ Ajena(hebras'[i]) => MismaParte(i)
         /\ PorMirar(i) <=> PorMirarSuya(i) \/ PorSeguir(i)
         /\ PorMirar(i)' <=> (PorMirarSuya(i) \/ PorSeguir(i))'
         /\ EnSeccion(i) <=> PorAgregar(i) \/ PorMirarSuya(i) \/ PorSeguir(i)
         /\ EnSeccion(i)' <=> (PorAgregar(i) \/ PorMirarSuya(i) \/ PorSeguir(i))'
<1> USE DEF PorAgregar, PorMirarSuya, PorSeguir, Duerme, PasosPcp, PasosIO
<1>1. hebras'[i] = hebras[i] => MismaParte(i)
  BY DEF MismaParte
<1>2. Ajena(hebras[i]) /\ Ajena(hebras'[i]) => MismaParte(i)
  BY DEF MismaParte, Ajena
<1>3. /\ PorMirar(i) <=> PorMirarSuya(i) \/ PorSeguir(i)
      /\ PorMirar(i)' <=> (PorMirarSuya(i) \/ PorSeguir(i))'
  BY DEF PorMirar
<1>4. QED
  BY <1>1, <1>2, <1>3 DEF EnSeccion

\* Steps that leave the IO queue alone and ask for no IO.
LEMMA SuenoIgual ==
  ASSUME SuenoEnOrden, ~caido', colaIO' = colaIO,
         \A i \in Hebras : MismaParte(i) /\ ~hebras'[i].colgado,
         \A h \in Hilos : Mensaje("IO", h) \in Range(aKernel') => Mensaje("IO", h) \in Range(aKernel)
  PROVE  SuenoEnOrden'
<1>1. \A i \in Hebras : (EnSeccion(i)' <=> EnSeccion(i)) /\ (PorMirar(i)' <=> PorMirar(i))
  BY Partes DEF MismaParte
<1>2. NadieDuerme' <=> NadieDuerme
  BY DEF NadieDuerme, MismaParte
<1>3. \A i, j \in Hebras : EnSeccion(i)' /\ EnSeccion(j)' => i = j
  BY <1>1 DEF SuenoEnOrden
<1>4. \A i \in Hebras : EnSeccion(i)' => \A h \in Hilos : Mensaje("IO", h) \notin Range(aKernel')
  BY <1>1 DEF SuenoEnOrden
<1>5. \A i, j \in Hebras : Duerme(i)' /\ Duerme(j)' => i = j
  BY DEF SuenoEnOrden, MismaParte
<1>6. \A i \in Hebras : Duerme(i)' => colaIO' # <<>> /\ Head(colaIO') = hebras'[i].hilo
  BY DEF SuenoEnOrden, MismaParte
<1>7. colaIO' # <<>> => ~NadieDuerme' \/ \E i \in Hebras : PorMirar(i)'
  BY <1>1, <1>2 DEF SuenoEnOrden
<1>8. \A i \in Hebras : PorMirarSuya(i)' =>
        /\ colaIO' # <<>> /\ colaIO'[Len(colaIO')] = hebras'[i].hilo
        /\ Len(colaIO') = 1 <=> NadieDuerme'
  BY <1>2 DEF SuenoEnOrden, MismaParte
<1>9. \A i \in Hebras : PorSeguir(i)' => NadieDuerme'
  BY <1>2 DEF SuenoEnOrden, MismaParte
<1>10. QED
  BY <1>3, <1>4, <1>5, <1>6, <1>7, <1>8, <1>9, Zenon DEF SuenoEnOrden, Mensaje

\* No pass finds the queues empty, and no interruption comes to nobody.
LEMMA NadieCae ==
  ASSUME IInv, EInv, SuenoEnOrden, EnTiempo = TRUE, Next
  PROVE  ~caido'
<1>0. ~caido /\ Turnos /\ UnAviso /\ PasadaConAlguien
  BY DEF SuenoEnOrden, EInv
\* Whoever was waiting when the pass locked EXEC was in a queue it found with somebody.
<1>1. ASSUME NEW i \in Hebras, PcpSacar(i) PROVE ~caido'
  <2>1. Recorre(i) /\ hebras[i].paso = "sacar"
    BY <1>1 DEF PcpSacar, Recorre
  <2>2. PICK h \in esperaban : Prioridad[h] \in PorVer(i)
    BY <1>0, <2>1 DEF PasadaConAlguien, RecorreConAlguien, IInv, Recorridos
  <2>3. hebras[i].vistas # {}
    BY <2>1, <2>2 DEF PorVer
  <2>4. QED
    BY <1>0, <1>1, <2>3 DEF PcpSacar
<1>2. ASSUME GestorToma PROVE ~caido'
  <2>1. cpu.paso = "corre"
    BY <1>0, <1>2 DEF GestorToma, UnAviso, SinAviso
  <2>2. exec # <<>>
    BY <2>1, Computa, Unico
  <2>3. QED
    BY <1>0, <1>2, <2>2 DEF GestorToma
<1>3. ASSUME NEW h \in Hilos, NEW op \in Peticiones, AtiendeInvalido(op, h) PROVE FALSE
  BY <1>3, TurnosDeAtiende DEF AtiendeInvalido
<1>4. ASSUME NEW i \in Hebras, IoDespertar(i) PROVE ~caido'
  BY <1>4 DEF IoDespertar, SuenoEnOrden
<1>5. ASSUME NEW i \in Hebras, \/ PcpMirar(i) \/ PcpTomar(i) \/ PcpRecorrer(i) \/ PcpEnviar(i) \/ PcpArmar(i)
                               \/ IoAgregar(i) \/ IoBloquear(i) \/ IoMirar(i) \/ IoDormir(i) \/ IoSeguir(i)
      PROVE  ~caido'
  BY <1>0, <1>5 DEF PcpMirar, PcpTomar, PcpRecorrer, PcpEnviar, PcpArmar, IoAgregar, IoBloquear, IoMirar, IoDormir, IoSeguir
<1>6. ASSUME NEW h \in Hilos,
             \/ TemporizadorEmpieza(h) \/ AtiendeIO(h) \/ AtiendeThreadCreate(h) \/ AtiendeMutexUnlock(h)
             \/ AtiendeThreadExit(h) \/ AtiendeDesalojo(h) \/ Desalojar \/ Reubicar
      PROVE  ~caido'
  BY <1>0, <1>6 DEF TemporizadorEmpieza, AtiendeIO, AtiendeThreadCreate, AtiendeMutexUnlock, AtiendeThreadExit,
     AtiendeDesalojo, Desalojar, Reubicar
<1>7. ASSUME TemporizadorVence \/ GestorEnvia \/ CpuAvanza \/ CpuSyscall \/ Interrupcion PROVE ~caido'
  BY <1>0, <1>7 DEF TemporizadorVence, GestorEnvia, CpuAvanza, CpuRecibe, CpuContexto,
     CpuSinContexto, CpuRecibeRta, CpuDesaloja, CpuSigue, CpuSuelta, CpuSyscall, CpuIO, CpuThreadCreate,
     CpuMutexUnlock, CpuThreadExit, Pide, Interrupcion, InterrupcionLlega, InterrupcionMarca
<1>8. QED
  BY <1>1, <1>2, <1>3, <1>4, <1>5, <1>6, <1>7, Numeros DEF Next, Pcp, Io, Gestor, AtiendeAlgo

\* What a step that changes one thread of the kernel has to show of it; the others
\* keep their parts.
LEMMA UnaParte ==
  ASSUME SuenoEnOrden, NEW i \in Hebras, ~hebras'[i].colgado,
         \A j \in Hebras \ {i} : hebras'[j] = hebras[j]
  PROVE  /\ \A j \in Hebras \ {i} : MismaParte(j)
         /\ \A j \in Hebras \ {i} : (EnSeccion(j)' <=> EnSeccion(j)) /\ (PorMirar(j)' <=> PorMirar(j))
         /\ \A j \in Hebras : ~hebras'[j].colgado
         /\ EnSeccion(i) =>
              \A j \in Hebras \ {i} : ~EnSeccion(j) /\ ~EnSeccion(j)' /\ ~PorMirarSuya(j)' /\ ~PorSeguir(j)'
<1>1. \A j \in Hebras \ {i} : MismaParte(j)
  BY Partes
<1>2. \A j \in Hebras \ {i} : (EnSeccion(j)' <=> EnSeccion(j)) /\ (PorMirar(j)' <=> PorMirar(j))
  BY <1>1, Partes DEF MismaParte
<1>3. \A j \in Hebras : ~hebras'[j].colgado
  BY DEF SuenoEnOrden
<1>4. ASSUME EnSeccion(i), NEW j \in Hebras \ {i} PROVE ~EnSeccion(j)
  BY <1>4 DEF SuenoEnOrden
<1>5. QED
  BY <1>1, <1>2, <1>3, <1>4, Partes

\* The steps of atender_io and manejar_sleep that change what is slept.
LEMMA SuenoDeIo ==
  ASSUME IInv, SuenoEnOrden, EnSerieIO = TRUE, NEW i \in Hebras,
         IoAgregar(i) \/ IoMirar(i) \/ IoDormir(i) \/ IoSeguir(i)
  PROVE  SuenoEnOrden'
<1> USE DEF PorAgregar, PorMirarSuya, PorSeguir, Duerme, PasosPcp, PasosIO
<1>0. /\ ~caido' /\ UNCHANGED aKernel /\ hebras \in [Hebras -> Registro] /\ ~hebras[i].colgado
      /\ colaIO \in Seq(Hilos) /\ hebras[i].hilo \in Hilos
  BY DEF IoAgregar, IoMirar, IoDormir, IoSeguir, SuenoEnOrden, IInv, HilosDelKernel, Listas, Sabe
<1>1. Len(colaIO) \in Nat /\ (colaIO = <<>> <=> Len(colaIO) = 0)
  BY <1>0, LenProperties, EmptySeq
<1>2. ASSUME ~hebras'[i].colgado, \A j \in Hebras \ {i} : hebras'[j] = hebras[j], EnSeccion(i),
             Duerme(i)' => /\ NadieDuerme /\ colaIO' # <<>> /\ Head(colaIO') = hebras'[i].hilo,
             \A j \in Hebras \ {i} : Duerme(j) => colaIO' # <<>> /\ Head(colaIO') = Head(colaIO),
             colaIO' # <<>> => ~NadieDuerme \/ Duerme(i)' \/ PorMirar(i)',
             PorMirarSuya(i)' => /\ colaIO' # <<>> /\ colaIO'[Len(colaIO')] = hebras'[i].hilo
                                 /\ Len(colaIO') = 1 <=> NadieDuerme,
             PorSeguir(i)' => NadieDuerme, ~Duerme(i), ~PorAgregar(i)',
             PorMirarSuya(i)' \/ PorSeguir(i)' => ~Duerme(i)'
      PROVE  SuenoEnOrden'
  <2>1. /\ \A j \in Hebras \ {i} : MismaParte(j)
        /\ \A j \in Hebras : ~hebras'[j].colgado
        /\ \A j \in Hebras \ {i} : ~EnSeccion(j)' /\ ~PorMirarSuya(j)' /\ ~PorSeguir(j)'
    BY <1>2, UnaParte
  <2>2. \A j \in Hebras \ {i} : Duerme(j)' <=> Duerme(j)
    BY <2>1 DEF MismaParte
  <2> HIDE DEF PorAgregar, PorMirarSuya, PorSeguir, Duerme
  <2>3. ~Duerme(i)' => (NadieDuerme' <=> NadieDuerme)
    BY <1>2, <2>2 DEF NadieDuerme
  <2>4. Duerme(i)' => ~NadieDuerme'
    BY DEF NadieDuerme
  <2>5. \A j, k \in Hebras : EnSeccion(j)' /\ EnSeccion(k)' => j = k
    BY <2>1
  <2>6. \A j \in Hebras : EnSeccion(j)' => \A h \in Hilos : Mensaje("IO", h)' \notin Range(aKernel')
    BY <1>0, <1>2 DEF SuenoEnOrden, Mensaje
  <2>7. \A j, k \in Hebras : Duerme(j)' /\ Duerme(k)' => j = k
    BY <1>2, <2>2 DEF SuenoEnOrden, NadieDuerme
  <2>8. \A j \in Hebras : Duerme(j)' => colaIO' # <<>> /\ Head(colaIO') = hebras'[j].hilo
    <3>1. SUFFICES ASSUME NEW j \in Hebras \ {i}, Duerme(j)'
                   PROVE  colaIO' # <<>> /\ Head(colaIO') = hebras'[j].hilo
      BY <1>2
    <3>2. Duerme(j) /\ hebras'[j] = hebras[j]
      BY <1>2, <2>2, <3>1
    <3>3. QED
      BY <1>2, <3>2 DEF SuenoEnOrden
  <2>9. colaIO' # <<>> => ~NadieDuerme' \/ \E j \in Hebras : PorMirar(j)'
    BY <1>2, <2>3, <2>4
  <2>10. \A j \in Hebras : PorMirarSuya(j)' =>
           /\ colaIO' # <<>> /\ colaIO'[Len(colaIO')] = hebras'[j].hilo
           /\ Len(colaIO') = 1 <=> NadieDuerme'
    BY <1>2, <2>1, <2>3
  <2>11. \A j \in Hebras : PorSeguir(j)' => NadieDuerme'
    BY <1>2, <2>1, <2>3
  <2>12. QED
    BY <1>0, <2>1, <2>5, <2>6, <2>7, <2>8, <2>9, <2>10, <2>11, Zenon DEF SuenoEnOrden
<1>3. EnSeccion(i) => \A j \in Hebras \ {i} : ~PorMirar(j)
  BY Partes DEF SuenoEnOrden, EnSeccion
<1>4. CASE IoAgregar(i)
  <2>1. /\ hebras[i].paso = "agregar" /\ colaIO' = Append(colaIO, hebras[i].hilo)
        /\ hebras' = [hebras EXCEPT ![i].paso = "bloquear"]
    BY <1>4 DEF IoAgregar
  <2>2. /\ hebras'[i].paso = "bloquear" /\ hebras'[i].hilo = hebras[i].hilo /\ ~hebras'[i].colgado
        /\ \A j \in Hebras \ {i} : hebras'[j] = hebras[j]
    BY <1>0, <2>1 DEF Registro
  <2>3. EnSeccion(i) /\ ~PorMirar(i) /\ ~Duerme(i) /\ PorMirarSuya(i)' /\ PorMirar(i)' /\ ~Duerme(i)' /\ ~PorAgregar(i)'
        /\ ~PorSeguir(i)'
    BY <2>1, <2>2 DEF EnSeccion, PorMirar
  <2>4. /\ colaIO' # <<>> /\ Len(colaIO') = Len(colaIO) + 1 /\ colaIO'[Len(colaIO')] = hebras[i].hilo
        /\ colaIO # <<>> => Head(colaIO') = Head(colaIO)
    BY <1>0, <1>1, <2>1
  <2> HIDE DEF PorAgregar, PorMirarSuya, PorSeguir, Duerme
  <2>5. NadieDuerme <=> colaIO = <<>>
    BY <1>3, <2>3 DEF SuenoEnOrden, NadieDuerme
  <2>6. Len(colaIO') = 1 <=> NadieDuerme
    BY <1>1, <2>4, <2>5
  <2>7. \A j \in Hebras \ {i} : Duerme(j) => Head(colaIO') = Head(colaIO)
    BY <2>4 DEF SuenoEnOrden
  <2>8. QED
    BY <1>2, <2>2, <2>3, <2>4, <2>6, <2>7
<1>5. CASE IoMirar(i)
  <2>1. /\ hebras[i].paso = "mirarIO" /\ colaIO' = colaIO
        /\ hebras' = [hebras EXCEPT ![i] = IF SoloEnCola THEN Hebra("dormir", @.hilo, "libre") ELSE Inactiva]
    BY <1>5 DEF IoMirar
  <2>2. EnSeccion(i) /\ ~Duerme(i) /\ PorMirarSuya(i) /\ \A j \in Hebras \ {i} : hebras'[j] = hebras[j]
    BY <1>0, <2>1 DEF EnSeccion, PorMirar
  <2>3. colaIO # <<>> /\ colaIO[Len(colaIO)] = hebras[i].hilo /\ (Len(colaIO) = 1 <=> NadieDuerme)
    BY <2>2 DEF SuenoEnOrden
  <2>4. CASE SoloEnCola
    <3>1. hebras'[i] = Hebra("dormir", hebras[i].hilo, "libre")
      BY <1>0, <2>1, <2>4
    <3>2. /\ ~hebras'[i].colgado /\ Duerme(i)' /\ ~PorMirarSuya(i)' /\ ~PorSeguir(i)' /\ ~PorAgregar(i)'
          /\ hebras'[i].hilo = hebras[i].hilo
      BY <3>1 DEF Hebra
    <3>3. NadieDuerme /\ Head(colaIO) = hebras[i].hilo
      BY <1>0, <2>3, <2>4 DEF SoloEnCola
    <3> HIDE DEF PorAgregar, PorMirarSuya, PorSeguir, Duerme
    <3>4. QED
      BY <1>2, <2>1, <2>2, <2>3, <3>2, <3>3
  <2>5. CASE ~SoloEnCola
    <3>1. hebras'[i] = Inactiva
      BY <1>0, <2>1, <2>5
    <3>2. ~hebras'[i].colgado /\ ~Duerme(i)' /\ ~PorMirarSuya(i)' /\ ~PorSeguir(i)' /\ ~PorAgregar(i)'
      BY <3>1 DEF Hebra, Inactiva
    <3>3. ~NadieDuerme
      BY <2>3, <2>5 DEF SoloEnCola
    <3> HIDE DEF PorAgregar, PorMirarSuya, PorSeguir, Duerme
    <3>4. QED
      BY <1>2, <2>1, <2>2, <2>3, <3>2, <3>3
  <2>6. QED
    BY <2>4, <2>5
<1>6. CASE IoSeguir(i)
  <2>1. hebras[i].paso = "seguir" /\ colaIO' = colaIO /\ hebras' = [hebras EXCEPT ![i] = SiguienteIO]
    BY <1>6 DEF IoSeguir
  <2>2. /\ EnSeccion(i) /\ ~Duerme(i) /\ PorSeguir(i) /\ hebras'[i] = SiguienteIO
        /\ \A j \in Hebras \ {i} : hebras'[j] = hebras[j]
    BY <1>0, <2>1 DEF EnSeccion, PorMirar
  <2>3. NadieDuerme
    BY <2>2 DEF SuenoEnOrden
  <2>4. /\ ~hebras'[i].colgado /\ ~PorMirarSuya(i)' /\ ~PorSeguir(i)' /\ ~PorAgregar(i)'
        /\ Duerme(i)' <=> colaIO # <<>>
        /\ colaIO # <<>> => hebras'[i].hilo = Head(colaIO)
    BY <2>2 DEF SiguienteIO, Hebra, Inactiva
  <2> HIDE DEF PorAgregar, PorMirarSuya, PorSeguir, Duerme
  <2>5. QED
    BY <1>2, <2>1, <2>2, <2>3, <2>4 DEF NadieDuerme
<1>7. CASE IoDormir(i)
  <2>1. /\ hebras[i].paso = "dormir" /\ hebras' = [hebras EXCEPT ![i].paso = "despertar"]
        /\ \A j \in Hebras : ~PorMirar(j) /\ ~PorAgregar(j)
        /\ \A h \in Hilos : Mensaje("IO", h) \notin Range(aKernel)
    BY <1>7 DEF IoDormir
  <2>2. /\ hebras'[i].paso = "despertar" /\ ~hebras'[i].colgado /\ Duerme(i)
        /\ \A j \in Hebras \ {i} : hebras'[j] = hebras[j]
    BY <1>0, <2>1 DEF Registro
  <2>3. PorSeguir(i)' /\ PorMirar(i)' /\ ~Duerme(i)' /\ ~PorMirarSuya(i)'
    BY <2>2 DEF PorMirar
  <2> HIDE DEF PorAgregar, PorMirarSuya, PorSeguir, Duerme
  <2>4. /\ \A j \in Hebras \ {i} : MismaParte(j) /\ ~EnSeccion(j)'
        /\ \A j \in Hebras : ~hebras'[j].colgado
    BY <2>1, <2>2, UnaParte DEF EnSeccion
  <2>5. \A j \in Hebras \ {i} : ~PorMirarSuya(j)' /\ ~PorSeguir(j)'
    BY <2>4, Partes
  <2>6. \A j \in Hebras : ~Duerme(j)'
    BY <2>2, <2>3, <2>4 DEF SuenoEnOrden, MismaParte
  <2>7. NadieDuerme'
    BY <2>6 DEF NadieDuerme
  <2>8. \A j, k \in Hebras : EnSeccion(j)' /\ EnSeccion(k)' => j = k
    BY <2>4
  <2>9. \A j \in Hebras : EnSeccion(j)' => \A h \in Hilos : Mensaje("IO", h)' \notin Range(aKernel')
    BY <1>0, <2>1 DEF Mensaje
  <2>10. QED
    BY <1>0, <2>3, <2>4, <2>5, <2>6, <2>7, <2>8, <2>9, Zenon DEF SuenoEnOrden
<1>8. QED
  BY <1>4, <1>5, <1>6, <1>7

\* The requests of the kernel after one is sent.
LEMMA OtroPedido ==
  ASSUME IInv, NEW op \in Peticiones, op # "IO",
         aKernel' = Append(aKernel, Mensaje(op, contexto))
  PROVE  \A h \in Hilos : Mensaje("IO", h) \in Range(aKernel') => Mensaje("IO", h) \in Range(aKernel)
<1>1. aKernel \in Seq(MensajesKernel) /\ Mensaje(op, contexto) \in MensajesKernel
  BY DEF IInv, Conexion, Mensaje, MensajesKernel
<1>2. Range(aKernel') = Range(aKernel) \cup {Mensaje(op, contexto)}
  BY <1>1, AgregaUno
<1>3. \A h \in Hilos : Mensaje("IO", h) # Mensaje(op, contexto)
  BY DEF Mensaje
<1>4. QED
  BY <1>2, <1>3

\* An IO is asked for, and attended.
LEMMA SuenoDePedido ==
  ASSUME IInv, EInv, SuenoEnOrden, EnSerieIO = TRUE,
         CpuIO \/ \E h \in Hilos : AtiendeIO(h)
  PROVE  SuenoEnOrden'
<1>0. hebras \in [Hebras -> Registro]
  BY DEF IInv, HilosDelKernel
<1>1. ~caido' /\ UNCHANGED colaIO
  BY DEF CpuIO, Pide, AtiendeIO, SuenoEnOrden
<1>2. CASE CpuIO
  <2>1. UNCHANGED hebras /\ \A i \in Hebras : ~EnSeccion(i)
    BY <1>2 DEF CpuIO, Pide, EnSeccion
  <2>2. \A i \in Hebras : MismaParte(i) /\ ~EnSeccion(i)' /\ ~hebras'[i].colgado
    BY <2>1, Partes DEF MismaParte, SuenoEnOrden
  <2>3. \A i \in Hebras : (PorMirar(i)' <=> PorMirar(i)) /\ ~PorMirarSuya(i)' /\ ~PorSeguir(i)'
    BY <2>1, <2>2, Partes DEF MismaParte
  <2>4. NadieDuerme' <=> NadieDuerme
    BY <2>2 DEF NadieDuerme, MismaParte
  <2>5. \A i, j \in Hebras : Duerme(i)' /\ Duerme(j)' => i = j
    BY <2>2 DEF SuenoEnOrden, MismaParte
  <2>6. \A i \in Hebras : Duerme(i)' => colaIO' # <<>> /\ Head(colaIO') = hebras'[i].hilo
    BY <1>1, <2>1, <2>2 DEF SuenoEnOrden, MismaParte
  <2>7. colaIO' # <<>> => ~NadieDuerme' \/ \E i \in Hebras : PorMirar(i)'
    BY <1>1, <2>3, <2>4 DEF SuenoEnOrden
  <2>8. QED
    BY <1>1, <2>2, <2>3, <2>5, <2>6, <2>7, Zenon DEF SuenoEnOrden
<1>3. ASSUME NEW h \in Hilos, AtiendeIO(h) PROVE SuenoEnOrden'
  <2>1. PICK i \in Nueva : hebras' = [hebras EXCEPT ![i] = Hebra("agregar", h, "libre")]
    BY <1>3 DEF AtiendeIO
  <2>2. i \in Hebras /\ hebras[i].paso = "libre"
    BY NuevaLibre
  <2>3. /\ hebras'[i].paso = "agregar" /\ ~hebras'[i].colgado
        /\ \A j \in Hebras \ {i} : hebras'[j] = hebras[j]
    BY <1>0, <2>1, <2>2 DEF Hebra
  <2>4. /\ Atiende("IO", h) /\ aKernel' = <<>>
    BY <1>3, TurnosDeAtiende DEF AtiendeIO, Peticiones
  <2>5. \A j \in Hebras : ~EnSeccion(j)
    <3>1. aKernel \in Seq(MensajesKernel) /\ aKernel # <<>> /\ Head(aKernel) = Mensaje("IO", h)
      BY <2>4 DEF Atiende, IInv, Conexion
    <3>2. Mensaje("IO", h) \in Range(aKernel)
      <4>1. 1 \in DOMAIN aKernel /\ aKernel[1] = Mensaje("IO", h)
        BY <3>1, LenProperties, EmptySeq, HeadTailProperties
      <4>2. QED
        BY <4>1 DEF Range
    <3>3. QED
      BY <3>2 DEF SuenoEnOrden
  <2>6. /\ ~Duerme(i) /\ ~Duerme(i)' /\ ~PorMirarSuya(i)' /\ ~PorSeguir(i)'
    BY <2>2, <2>3 DEF Duerme, PorMirarSuya, PorSeguir, PasosPcp
  <2>7. /\ \A j \in Hebras \ {i} : MismaParte(j) /\ ~EnSeccion(j)' /\ ~PorMirarSuya(j)' /\ ~PorSeguir(j)'
        /\ \A j \in Hebras : ~hebras'[j].colgado
    BY <2>2, <2>3, <2>5, UnaParte, Partes
  <2>8. \A j \in Hebras : (Duerme(j)' <=> Duerme(j)) /\ (Duerme(j) => hebras'[j].hilo = hebras[j].hilo)
    BY <2>3, <2>6, <2>7 DEF MismaParte
  <2>9. NadieDuerme' <=> NadieDuerme
    BY <2>8 DEF NadieDuerme
  <2>10. \A j, k \in Hebras : EnSeccion(j)' /\ EnSeccion(k)' => j = k
    BY <2>7
  <2>11. \A j, k \in Hebras : Duerme(j)' /\ Duerme(k)' => j = k
    BY <2>8 DEF SuenoEnOrden
  <2>12. \A j \in Hebras : Duerme(j)' => colaIO' # <<>> /\ Head(colaIO') = hebras'[j].hilo
    BY <1>1, <2>8 DEF SuenoEnOrden
  <2>13. colaIO' # <<>> => ~NadieDuerme'
    BY <1>1, <2>5, <2>9 DEF SuenoEnOrden, EnSeccion
  <2>14. \A j \in Hebras : ~PorMirarSuya(j)' /\ ~PorSeguir(j)'
    BY <2>6, <2>7
  <2>15. \A f \in Hilos : Mensaje("IO", f)' \notin Range(aKernel')
    BY <2>4, Unico
  <2>16. QED
    BY <1>1, <2>7, <2>10, <2>11, <2>12, <2>13, <2>14, <2>15, Zenon DEF SuenoEnOrden
<1>4. QED
  BY <1>2, <1>3

\* SuenoEnOrden is kept by each step.
LEMMA PasoSueno ==
  ASSUME IInv, EInv, SuenoEnOrden, EnTiempo = TRUE, EnSerieIO = TRUE, Next
  PROVE  SuenoEnOrden'
<1> USE DEF PasosPcp, PasosIO
<1>0. /\ ~caido' /\ hebras \in [Hebras -> Registro] /\ 0 \in Hebras
      /\ \A i \in Hebras : ~hebras[i].colgado
  BY NadieCae, Numeros DEF IInv, HilosDelKernel, SuenoEnOrden
<1>1. ASSUME colaIO' = colaIO, \A i \in Hebras : MismaParte(i) /\ ~hebras'[i].colgado, aKernel' = aKernel
      PROVE  SuenoEnOrden'
  BY <1>0, <1>1, SuenoIgual
\* One thread of the kernel goes on with its part.
<1>2. ASSUME NEW i \in Hebras, MismaParte(i), ~hebras'[i].colgado, \A j \in Hebras \ {i} : hebras'[j] = hebras[j]
      PROVE  \A j \in Hebras : MismaParte(j) /\ ~hebras'[j].colgado
  BY <1>2, UnaParte
<1>3. ASSUME NEW i \in Hebras, Pcp(i) PROVE SuenoEnOrden'
  <2>1. UNCHANGED <<colaIO, aKernel>> /\ hebras[i].paso \in PasosPcp
    BY <1>3 DEF Pcp, PcpMirar, PcpTomar, PcpRecorrer, PcpSacar, PcpEnviar, PcpArmar
  <2>2. CASE UNCHANGED hebras
    BY <1>0, <1>1, <2>1, <2>2, Partes
  <2>3. CASE ~UNCHANGED hebras
    <3>1. /\ \A j \in Hebras \ {i} : hebras'[j] = hebras[j]
          /\ hebras'[i].paso \in PasosPcp \cup {hebras[i].luego}
          /\ hebras'[i].luego = hebras[i].luego /\ hebras'[i].hilo = hebras[i].hilo
          /\ hebras'[i].colgado = hebras[i].colgado
      BY <1>3, <2>3, SigueSuPasada
    <3>2. hebras[i].luego \in {"libre", "mirarIO", "seguir", "dormir"}
      BY <1>0 DEF Registro
    <3>3. MismaParte(i)
      BY <2>1, <3>1, <3>2 DEF MismaParte, PorAgregar, PorMirarSuya, PorSeguir, Duerme
    <3>4. QED
      BY <1>0, <1>1, <1>2, <2>1, <3>1, <3>3
  <2>4. QED
    BY <2>2, <2>3
<1>4. ASSUME NEW i \in Hebras, IoBloquear(i) PROVE SuenoEnOrden'
  <2>1. /\ hebras[i].paso = "bloquear" /\ UNCHANGED <<colaIO, aKernel>>
        /\ \/ hebras' = [hebras EXCEPT ![i].paso = "mirar", ![i].luego = "mirarIO"]
           \/ hebras' = [hebras EXCEPT ![i].paso = "mirarIO"]
    BY <1>4 DEF IoBloquear
  <2>2. /\ \A j \in Hebras \ {i} : hebras'[j] = hebras[j]
        /\ hebras'[i].paso = "mirarIO" \/ (hebras'[i].paso = "mirar" /\ hebras'[i].luego = "mirarIO")
        /\ hebras'[i].hilo = hebras[i].hilo /\ hebras'[i].colgado = hebras[i].colgado
    BY <1>0, <2>1 DEF Registro
  <2>3. MismaParte(i)
    BY <2>1, <2>2 DEF MismaParte, PorAgregar, PorMirarSuya, PorSeguir, Duerme
  <2>4. QED
    BY <1>0, <1>1, <1>2, <2>1, <2>2, <2>3
<1>5. ASSUME NEW i \in Hebras, IoDespertar(i) PROVE SuenoEnOrden'
  <2> DEFINE sueltas == [j \in Hebras |-> IF j \in MismoSleep(i)
                                          THEN [hebras[j] EXCEPT !.colgado = TRUE] ELSE hebras[j]]
  <2>1. /\ hebras[i].paso = "despertar" /\ UNCHANGED <<colaIO, aKernel>>
        /\ \/ hebras' = [sueltas EXCEPT ![i].paso = "mirar", ![i].luego = "seguir"]
           \/ hebras' = [sueltas EXCEPT ![i].paso = "seguir"]
    BY <1>5 DEF IoDespertar
  <2>2. PorSeguir(i) /\ EnSeccion(i)
    BY <2>1 DEF PorSeguir, EnSeccion, PorMirar
  \* Nobody else sleeps the same request.
  <2>3. MismoSleep(i) = {}
    <3>1. SUFFICES ASSUME NEW j \in Hebras \ {i}, hebras[j].paso \in {"dormir", "despertar"} PROVE FALSE
      BY DEF MismoSleep
    <3>2. Duerme(j) \/ EnSeccion(j)
      BY <3>1 DEF Duerme, EnSeccion, PorMirar
    <3>3. QED
      BY <2>2, <3>2 DEF SuenoEnOrden, NadieDuerme
  <2>4. sueltas = hebras
    BY <1>0, <2>3
  <2> HIDE DEF sueltas
  <2>5. /\ \A j \in Hebras \ {i} : hebras'[j] = hebras[j]
        /\ hebras'[i].paso = "seguir" \/ (hebras'[i].paso = "mirar" /\ hebras'[i].luego = "seguir")
        /\ hebras'[i].hilo = hebras[i].hilo /\ hebras'[i].colgado = hebras[i].colgado
    BY <1>0, <2>1, <2>4 DEF Registro
  <2>6. MismaParte(i)
    BY <2>1, <2>5 DEF MismaParte, PorAgregar, PorMirarSuya, PorSeguir, Duerme
  <2>7. QED
    BY <1>0, <1>1, <1>2, <2>1, <2>5, <2>6
\* What the dispatch handler attends: no IO is left.
<1>6. ASSUME NEW h \in Hilos, \/ AtiendeThreadCreate(h) \/ AtiendeMutexUnlock(h) \/ AtiendeThreadExit(h)
                              \/ AtiendeDesalojo(h)
      PROVE  SuenoEnOrden'
  <2>1. aKernel' = <<>> /\ UNCHANGED colaIO
    BY <1>6, TurnosDeAtiende DEF AtiendeThreadCreate, AtiendeMutexUnlock, AtiendeThreadExit, AtiendeDesalojo, Peticiones
  <2>2. \A i \in Hebras : hebras'[i] = hebras[i] \/ (Ajena(hebras[i]) /\ Ajena(hebras'[i]) /\ ~hebras'[i].colgado)
    <3>1. CASE AtiendeThreadCreate(h)
      <4>1. PICK i \in Nueva : hebras' = [hebras EXCEPT ![i] = Hebra("mirar", Nadie, "libre")]
        BY <3>1 DEF AtiendeThreadCreate
      <4>2. i \in Hebras /\ hebras[i].paso = "libre"
        BY NuevaLibre
      <4>3. QED
        BY <1>0, <4>1, <4>2 DEF Ajena, Hebra
    <3>2. CASE AtiendeMutexUnlock(h)
      BY <3>2 DEF AtiendeMutexUnlock
    <3>3. CASE AtiendeThreadExit(h) \/ AtiendeDesalojo(h)
      BY <1>0, <3>3 DEF AtiendeThreadExit, AtiendeDesalojo, Atiende, Ajena, Hebra
    <3>4. QED
      BY <1>6, <3>1, <3>2, <3>3
  <2>3. \A i \in Hebras : MismaParte(i) /\ ~hebras'[i].colgado
    BY <1>0, <2>2, Partes
  <2>4. \A f \in Hilos : Mensaje("IO", f) \notin Range(aKernel')
    BY <2>1, Unico
  <2>5. QED
    BY <1>0, <2>1, <2>3, <2>4, SuenoIgual
<1>7. CASE Desalojar \/ Reubicar
  <2>1. /\ hebras[0].paso \in {"desalojar", "reubicar"} /\ UNCHANGED <<colaIO, aKernel>>
        /\ \/ hebras' = [hebras EXCEPT ![0].paso = "reubicar"]
           \/ hebras' = [hebras EXCEPT ![0] = Hebra("mirar", Nadie, "libre")]
    BY <1>7 DEF Desalojar, Reubicar
  <2>2. /\ \A j \in Hebras \ {0} : hebras'[j] = hebras[j]
        /\ Ajena(hebras[0]) /\ Ajena(hebras'[0]) /\ ~hebras'[0].colgado
    BY <1>0, <2>1 DEF Ajena, Hebra, Registro
  <2>3. MismaParte(0)
    BY <1>0, <2>2, Partes
  <2>4. QED
    BY <1>0, <1>1, <1>2, <2>1, <2>2, <2>3
<1>8. ASSUME NEW h \in Hilos, NEW op \in Peticiones, AtiendeInvalido(op, h) PROVE FALSE
  BY <1>8, TurnosDeAtiende DEF AtiendeInvalido
<1>9. ASSUME UNCHANGED hebras PROVE \A i \in Hebras : MismaParte(i) /\ ~hebras'[i].colgado
  BY <1>0, <1>9, Partes
<1>10. ASSUME (\E h \in Hilos : TemporizadorEmpieza(h)) \/ TemporizadorVence \/ Gestor \/ Interrupcion
       PROVE  SuenoEnOrden'
  BY <1>1, <1>9, <1>10 DEF TemporizadorEmpieza, TemporizadorVence, Gestor, GestorToma, GestorEnvia,
     Interrupcion, InterrupcionLlega, InterrupcionMarca
<1>11. ASSUME CpuRecibe \/ CpuContexto \/ CpuRecibeRta \/ CpuSigue \/ CpuSuelta PROVE SuenoEnOrden'
  BY <1>1, <1>9, <1>11 DEF CpuRecibe, CpuContexto, CpuRecibeRta, CpuSigue, CpuSuelta
<1>12. ASSUME CpuSinContexto \/ CpuDesaloja \/ CpuThreadCreate \/ CpuMutexUnlock \/ CpuThreadExit
       PROVE  SuenoEnOrden'
  <2>1. PICK op \in {"THREAD_EXIT", "DESALOJO", "THREAD_CREATE", "MUTEX_UNLOCK"} :
          aKernel' = Append(aKernel, Mensaje(op, contexto))
    BY <1>12 DEF CpuSinContexto, CpuDesaloja, CpuThreadCreate, CpuMutexUnlock, CpuThreadExit, Pide
  <2>2. UNCHANGED <<hebras, colaIO>>
    BY <1>12 DEF CpuSinContexto, CpuDesaloja, CpuThreadCreate, CpuMutexUnlock, CpuThreadExit, Pide
  <2>3. \A h \in Hilos : Mensaje("IO", h) \in Range(aKernel') => Mensaje("IO", h) \in Range(aKernel)
    BY <2>1, OtroPedido DEF Peticiones
  <2>4. QED
    BY <1>0, <1>9, <2>2, <2>3, SuenoIgual
<1>13. QED
  BY <1>3, <1>4, <1>5, <1>6, <1>7, <1>8, <1>10, <1>11, <1>12, SuenoDeIo, SuenoDePedido
     DEF Next, Io, AtiendeAlgo, CpuAvanza, CpuSyscall

\* SuenoEnOrden holds at the start: no IO has been asked for.
LEMMA SuenoInicial ==
  ASSUME Init
  PROVE  SuenoEnOrden
<1>1. /\ ~caido /\ colaIO = <<>> /\ aKernel = <<>>
      /\ \A i \in Hebras : ~hebras[i].colgado /\ Ajena(hebras[i])
  BY DEF Init, Hebra, Inactiva, Ajena, PasosPcp, PasosIO
<1>2. \A i \in Hebras : ~PorAgregar(i) /\ ~PorMirarSuya(i) /\ ~PorSeguir(i) /\ ~Duerme(i)
  BY <1>1 DEF Ajena, PorAgregar, PorMirarSuya, PorSeguir, Duerme, PasosPcp, PasosIO
<1>3. \A i \in Hebras : ~EnSeccion(i)
  BY <1>2, Partes
<1>4. QED
  BY <1>1, <1>2, <1>3 DEF SuenoEnOrden

\* A sleep that does not end, nor an IO that starts, while another thread of the kernel
\* is between the queue and its size (atender_io, manejar_sleep), and interruptions on
\* time: one request is slept at a time, the first; the requests that wait have somebody
\* that sleeps or is about to look; and the kernel follows no null or freed pointer, for
\* any number of threads, queues and detached threads.
THEOREM SeDuermeDeAUno ==
  ASSUME EnTiempo = TRUE, EnSerieIO = TRUE
  PROVE  Spec => []UnSueno
<1> DEFINE Todo == IInv /\ EInv /\ SuenoEnOrden
<1>1. Init => Todo
  BY Inicial, EInicial, SuenoInicial
<1>2. Todo /\ [Next]_vars => Todo'
  <2>1. ASSUME SuenoEnOrden, UNCHANGED vars PROVE SuenoEnOrden'
    <3>1. UNCHANGED <<hebras, colaIO, aKernel, caido>>
      BY <2>1 DEF vars
    <3>2. \A i \in Hebras : MismaParte(i) /\ ~hebras'[i].colgado
      BY <2>1, <3>1, Partes DEF SuenoEnOrden
    <3>3. QED
      BY <2>1, <3>1, <3>2, SuenoIgual DEF SuenoEnOrden
  <2>2. QED
    BY <2>1, Paso, EPaso, PasoSueno
<1>3. Todo => UnSueno
  BY DEF SuenoEnOrden, UnSueno, Duerme, NadieDuerme
<1>4. QED
  BY <1>1, <1>2, <1>3, PTL DEF Spec
=============================================================================
