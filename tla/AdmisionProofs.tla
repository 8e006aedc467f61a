--------------------------- MODULE AdmisionProofs ---------------------------
(***************************************************************************)
(* Theorems about Admision when one thread at a time asks Memoria for a    *)
(* process (UnoPorVez), for any number of processes, any partitions and any*)
(* search: processes are admitted in the order of their creation, nobody   *)
(* waits in NEW for a partition that is free, and, with fixed partitions,  *)
(* the kernel and Memoria agree on every process nobody is handling.       *)
(* The tables of Memoria are those MemoriaProofs proves about.             *)
(***************************************************************************)
EXTENDS Admision, SecuenciasProofs

-----------------------------------------------------------------------------
(* The inductive invariant of the order in NEW. *)

Pasos == PasosPedir \cup {"libre", "avisar", "perdido", "liberando", "replanificar", "quitar", "salir"}

\* The lists are of processes, and each thread is at a step with a process or none.
Tipos ==
  /\ nuevos \in Seq(Pids) /\ enMemoria \in Seq(Pids) /\ creados \in 0 .. MaxProcesos
  /\ tarea \in [Tareas -> [paso : Pasos, pid : Pids \cup {Nadie}]]

\* NEW is in the order of creation.
EnOrden ==
  /\ \A i, j \in 1 .. Len(nuevos) : i < j => nuevos[i] < nuevos[j]
  /\ \A i \in 1 .. Len(nuevos) : nuevos[i] <= creados

UnoPide == \A t, u \in Tareas : tarea[t].paso \in PasosPedir /\ tarea[u].paso \in PasosPedir => t = u

\* From the request until it leaves NEW, the process a thread asks for is the first of NEW.
PasosPrimero == {"pedir", "esperar", "leer", "crearHilo", "sacar"}

\* Who asks for a process knows where it is: the one just created is the last of NEW, one
\* that was admitted is before all of NEW.
PidePrimero ==
  \A t \in Tareas :
    /\ tarea[t].paso = "contar" =>
         t = Manejador /\ nuevos # <<>> /\ tarea[t].pid = nuevos[Len(nuevos)]
    /\ tarea[t].paso \in PasosPrimero => nuevos # <<>> /\ tarea[t].pid = nuevos[1]
    /\ tarea[t].paso = "agregar" =>
         tarea[t].pid \in Pids /\ \A i \in 1 .. Len(nuevos) : tarea[t].pid < nuevos[i]

OInv == Tipos /\ EnOrden /\ UnoPide /\ PidePrimero

-----------------------------------------------------------------------------
\* Pids are naturals, and the handler is not one of the finalizers.
LEMMA NumerosDePids == Pids \subseteq Nat \ {0} /\ Nadie \notin Pids /\ Manejador \notin Pids /\ Manejador \in Tareas
  BY ProcesosAssumption DEF Pids, Nadie, Manejador, Tareas

\* The variables of NEW, and the first and the last of it.
LEMMA LosDeNew ==
  ASSUME Tipos
  PROVE  /\ Len(nuevos) \in Nat /\ DOMAIN nuevos = 1 .. Len(nuevos)
         /\ \A i \in 1 .. Len(nuevos) : nuevos[i] \in Pids /\ nuevos[i] \in Nat
         /\ nuevos # <<>> => 1 \in 1 .. Len(nuevos) /\ Len(nuevos) \in 1 .. Len(nuevos)
<1>1. nuevos \in Seq(Pids)
  BY DEF Tipos
<1>2. Len(nuevos) \in Nat /\ DOMAIN nuevos = 1 .. Len(nuevos)
  BY <1>1, LenProperties
<1>3. \A i \in 1 .. Len(nuevos) : nuevos[i] \in Pids
  BY <1>1, ElementOfSeq
<1>4. nuevos # <<>> => Len(nuevos) \in Nat \ {0}
  BY <1>1, EmptySeq
<1>5. nuevos # <<>> => 1 \in 1 .. Len(nuevos) /\ Len(nuevos) \in 1 .. Len(nuevos)
  BY <1>4
<1>6. QED
  BY <1>2, <1>3, <1>5, NumerosDePids

\* A thread takes a step that leaves NEW alone, other than CrearPcb and SacarDeNew.
LEMMA Avanza ==
  ASSUME OInv, NEW t \in Tareas, NEW p \in Pasos \ {"contar", "agregar"}, NEW q \in Pids \cup {Nadie},
         tarea' = [tarea EXCEPT ![t] = En(p, q)], UNCHANGED <<nuevos, creados>>, enMemoria' \in Seq(Pids),
         p \in PasosPedir => \/ tarea[t].paso \in PasosPedir
                             \/ \A u \in Tareas \ {t} : tarea[u].paso \notin PasosPedir,
         p \in PasosPrimero => nuevos # <<>> /\ q = nuevos[1]
  PROVE  OInv'
<1>1. Tipos'
  BY DEF OInv, Tipos, En
<1>2. tarea'[t] = En(p, q) /\ \A u \in Tareas \ {t} : tarea'[u] = tarea[u]
  BY DEF OInv, Tipos
<1>3. EnOrden'
  BY DEF OInv, EnOrden
<1>4. UnoPide'
  BY <1>2 DEF OInv, UnoPide, En
<1>5. PidePrimero'
  BY <1>2 DEF OInv, PidePrimero, En
<1>6. QED
  BY <1>1, <1>3, <1>4, <1>5 DEF OInv

\* crear_pcb: the new process is greater than those in NEW.
LEMMA PasoCrearPcb ==
  ASSUME UnoPorVez, OInv, CrearPcb
  PROVE  OInv'
<1> DEFINE p == creados + 1
<1>1. /\ nuevos \in Seq(Pids) /\ creados \in 0 .. MaxProcesos /\ creados < MaxProcesos
      /\ creados' = p /\ nuevos' = Append(nuevos, p) /\ UNCHANGED enMemoria
      /\ tarea' = [tarea EXCEPT ![Manejador] = En("contar", p)]
      /\ \A u \in Tareas \ {Manejador} : tarea[u].paso \notin PasosPedir
  BY DEF CrearPcb, Va, NadiePide, OInv, Tipos
<1>2. p \in Pids /\ p \in 0 .. MaxProcesos /\ creados < p /\ creados \in Nat /\ p \in Nat
  BY <1>1, ProcesosAssumption DEF Pids
<1> HIDE DEF p
<1>3. /\ nuevos' \in Seq(Pids) /\ Len(nuevos') = Len(nuevos) + 1 /\ nuevos'[Len(nuevos) + 1] = p
      /\ \A i \in 1 .. Len(nuevos) : nuevos'[i] = nuevos[i]
      /\ nuevos' # <<>>
  BY <1>1, <1>2, AppendProperties
<1>4. /\ Len(nuevos) \in Nat
      /\ \A i \in 1 .. Len(nuevos) : nuevos[i] \in Nat /\ nuevos[i] <= creados
  BY LosDeNew DEF OInv, EnOrden
<1>5. Tipos'
  BY <1>1, <1>2, <1>3, NumerosDePids DEF OInv, Tipos, En, Pasos, PasosPedir
<1>6. EnOrden'
  BY <1>1, <1>2, <1>3, <1>4 DEF OInv, EnOrden
<1>7. tarea'[Manejador] = En("contar", p) /\ \A u \in Tareas \ {Manejador} : tarea'[u] = tarea[u]
  BY <1>1, NumerosDePids DEF OInv, Tipos
<1>8. UnoPide'
  BY <1>1, <1>7 DEF UnoPide
<1>9. PidePrimero'
  <2>1. SUFFICES ASSUME NEW u \in Tareas, tarea'[u].paso \in PasosPedir
                 PROVE  u = Manejador
    BY <1>3, <1>7 DEF PidePrimero, En, PasosPedir, PasosPrimero
  <2>2. QED
    BY <1>1, <1>7, <2>1
<1>10. QED
  BY <1>5, <1>6, <1>8, <1>9 DEF OInv

\* The process admitted leaves NEW: it was the first.
LEMMA PasoSacarDeNew ==
  ASSUME OInv, NEW t \in Tareas, SacarDeNew(t)
  PROVE  OInv'
<1> DEFINE p == tarea[t].pid
<1>1. /\ nuevos \in Seq(Pids) /\ tarea[t].paso = "sacar" /\ nuevos' = RemoveFirst(nuevos, p)
      /\ tarea' = [tarea EXCEPT ![t] = En("agregar", p)] /\ UNCHANGED <<enMemoria, creados>>
  BY DEF SacarDeNew, Esta, Va, NuevosSin, OInv, Tipos
<1>2. nuevos # <<>> /\ p = nuevos[1]
  BY <1>1 DEF OInv, PidePrimero, PasosPrimero
<1>3. p \in Pids /\ p \in Nat
  BY <1>2, LosDeNew DEF OInv
<1> HIDE DEF p
<1>4. nuevos' = Tail(nuevos)
  BY <1>1, <1>2, RemoveFirstCabeza
<1>5. /\ nuevos' \in Seq(Pids) /\ Len(nuevos') = Len(nuevos) - 1
      /\ \A i \in 1 .. Len(nuevos') : nuevos'[i] = nuevos[i + 1]
  <2>1. nuevos \in Seq(Pids) /\ nuevos # <<>>
    BY <1>1, <1>2
  <2>2. /\ Tail(nuevos) \in Seq(Pids) /\ Len(Tail(nuevos)) = Len(nuevos) - 1
        /\ \A i \in 1 .. Len(Tail(nuevos)) : Tail(nuevos)[i] = nuevos[i + 1]
    BY ONLY <2>1, HeadTailProperties
  <2>3. QED
    BY ONLY <1>4, <2>2
<1>6. /\ Len(nuevos) \in Nat /\ 1 \in 1 .. Len(nuevos)
      /\ \A i \in 1 .. Len(nuevos') : i + 1 \in 1 .. Len(nuevos) /\ 1 < i + 1
  BY <1>2, <1>5, LosDeNew DEF OInv
<1>7. \A i, j \in 1 .. Len(nuevos) : i < j => nuevos[i] < nuevos[j]
  BY DEF OInv, EnOrden
<1>8. \A i \in 1 .. Len(nuevos') : p < nuevos'[i]
  BY <1>2, <1>5, <1>6, <1>7
<1>9. EnOrden'
  <2>1. ASSUME NEW i \in 1 .. Len(nuevos'), NEW j \in 1 .. Len(nuevos'), i < j
        PROVE  nuevos'[i] < nuevos'[j]
    <3>1. i + 1 < j + 1
      BY <2>1, <1>6
    <3>2. QED
      BY <1>5, <1>6, <1>7, <3>1
  <2>2. \A i \in 1 .. Len(nuevos') : nuevos'[i] <= creados'
    BY <1>1, <1>5, <1>6 DEF OInv, EnOrden
  <2>3. QED
    BY <2>1, <2>2 DEF EnOrden
<1>10. Tipos'
  BY <1>1, <1>3, <1>5 DEF OInv, Tipos, En, Pasos, PasosPedir
<1>11. tarea'[t] = En("agregar", p) /\ \A u \in Tareas \ {t} : tarea'[u] = tarea[u] /\ tarea[u].paso \notin PasosPedir
  BY <1>1 DEF OInv, Tipos, UnoPide, PasosPedir
<1>12. UnoPide' /\ PidePrimero'
  BY <1>3, <1>8, <1>11 DEF UnoPide, PidePrimero, En, PasosPedir, PasosPrimero
<1>13. QED
  BY <1>9, <1>10, <1>12 DEF OInv

\* Every step keeps the order in NEW.
LEMMA PasoOrden ==
  ASSUME UnoPorVez, OInv, [Next]_vars
  PROVE  OInv'
<1> USE DEF Pasos, PasosPedir, PasosPrimero, Va
<1>0. /\ tarea \in [Tareas -> [paso : Pasos, pid : Pids \cup {Nadie}]]
      /\ enMemoria \in Seq(Pids)
      /\ \A t \in Tareas : tarea[t].pid \in Pids \cup {Nadie}
      /\ Pids \subseteq Tareas
  BY DEF OInv, Tipos, Tareas
<1>1. CASE Contar
  <2>1. /\ tarea[Manejador].paso = "contar" /\ UNCHANGED <<nuevos, creados, enMemoria>>
        /\ \/ EstabaVacia /\ tarea' = [tarea EXCEPT ![Manejador] = En("pedir", tarea[Manejador].pid)]
           \/ tarea' = [tarea EXCEPT ![Manejador] = En("libre", Nadie)]
    BY <1>1 DEF Contar, Esta, listas, Libre
  <2>2. nuevos # <<>> /\ tarea[Manejador].pid = nuevos[Len(nuevos)]
    BY <2>1, NumerosDePids DEF OInv, PidePrimero
  <2>3. EstabaVacia => tarea[Manejador].pid = nuevos[1]
    BY <2>2 DEF EstabaVacia
  <2>4. CASE tarea' = [tarea EXCEPT ![Manejador] = En("libre", Nadie)]
    BY <1>0, <2>1, <2>4, Avanza, NumerosDePids
  <2>5. CASE EstabaVacia /\ tarea' = [tarea EXCEPT ![Manejador] = En("pedir", tarea[Manejador].pid)]
    <3>1. tarea[Manejador].pid \in Pids \cup {Nadie} /\ Manejador \in Tareas
      BY <1>0, NumerosDePids
    <3>2. QED
      BY <1>0, <2>1, <2>2, <2>3, <2>5, <3>1, Avanza
  <2>6. QED
    BY <2>1, <2>4, <2>5
\* The steps of a thread that already asks for a process.
<1>2. ASSUME NEW t \in Tareas, Preguntar(t), ~SacarDeNew(t) PROVE OInv'
  <2>1. tarea[t].paso \in PasosPrimero => nuevos # <<>> /\ tarea[t].pid = nuevos[1]
    BY DEF OInv, PidePrimero
  <2>2. CASE Pedir(t)
    BY <1>0, <2>1, <2>2, Avanza DEF Pedir, Esta, listas
  <2>3. CASE Recibir(t)
    BY <1>0, <2>1, <2>3, Avanza DEF Recibir, Esta, listas
  <2>4. CASE Leer(t)
    BY <1>0, <2>1, <2>4, Avanza DEF Leer, Esta, SigueTrasError, listas
  <2>5. CASE CrearHilo(t)
    BY <1>0, <2>1, <2>5, Avanza DEF CrearHilo, Esta, listas
  <2>6. CASE AgregarEnMemoria(t)
    <3>1. tarea[t].pid \in Pids /\ tarea[t].paso = "agregar"
      BY <2>6 DEF AgregarEnMemoria, Esta, OInv, PidePrimero
    <3>2. enMemoria' \in Seq(Pids)
      BY <1>0, <2>6, <3>1, AppendProperties DEF AgregarEnMemoria
    <3>3. QED
      BY <1>0, <2>6, <3>1, <3>2, Avanza DEF AgregarEnMemoria, Siguiente
  <2>7. QED
    BY <1>2, <2>2, <2>3, <2>4, <2>5, <2>6 DEF Preguntar
\* The steps of a finalizer.
<1>3. ASSUME NEW p \in Pids, PedirFin(p) \/ AvisarFin(p) \/ RecibirFin(p) \/ AgregarASalidos(p) PROVE OInv'
  <2>1. /\ UNCHANGED <<nuevos, creados, enMemoria>>
        /\ \E k \in {"avisar", "perdido", "liberando", "replanificar", "libre"} :
             tarea' = [tarea EXCEPT ![p] = En(k, Nadie)]
    BY <1>3 DEF PedirFin, AvisarFin, RecibirFin, AgregarASalidos, Libre, listas
  <2>2. QED
    BY <1>0, <2>1, Avanza
<1>4. ASSUME NEW p \in Pids, QuitarDeMemoria(p) PROVE OInv'
  <2>1. enMemoria' \in Seq(Pids)
    BY <1>0, <1>4, RemoveFirstSeq DEF QuitarDeMemoria
  <2>2. QED
    BY <1>0, <1>4, <2>1, Avanza DEF QuitarDeMemoria
<1>5. ASSUME NEW p \in Pids, Replanificar(p) PROVE OInv'
  BY <1>0, <1>5, Avanza DEF Replanificar, NadiePide, listas
<1>6. ASSUME NEW p \in Pids, MirarNew(p) PROVE OInv'
  <2>1. tarea[p].paso = "mirar" /\ UNCHANGED <<nuevos, creados, enMemoria>>
    BY <1>6 DEF MirarNew, Esta, listas
  <2>2. CASE Va(p, "quitar", Nadie)
    BY <1>0, <2>1, <2>2, Avanza
  <2>3. ASSUME NEW q \in PrimerNuevo, Va(p, "pedir", q) PROVE OInv'
    <3>1. 1 \in DOMAIN nuevos /\ q = nuevos[1]
      BY DEF PrimerNuevo
    <3>2. q \in Pids /\ nuevos # <<>>
      BY <3>1, LosDeNew DEF OInv
    <3>3. QED
      BY <1>0, <2>1, <2>3, <3>1, <3>2, Avanza
  <2>4. QED
    BY <1>6, <2>2, <2>3 DEF MirarNew
<1>7. CASE MemoriaSigue \/ UNCHANGED vars
  BY <1>7 DEF MemoriaSigue, vars, listas, OInv, Tipos, EnOrden, UnoPide, PidePrimero
<1>8. QED
  BY <1>1, <1>2, <1>3, <1>4, <1>5, <1>6, <1>7, PasoCrearPcb, PasoSacarDeNew DEF Next, Finalizar

\* At the start NEW is empty.
LEMMA OrdenInicial ==
  ASSUME Init
  PROVE  OInv
<1> USE DEF Init
<1>1. Tipos
  BY EmptySeq, ProcesosAssumption DEF Tipos, Libre, En, Pasos
<1>2. Len(nuevos) = 0
  BY EmptySeq
<1>3. 1 .. 0 = {}
  OBVIOUS
<1>4. EnOrden
  BY <1>2, <1>3, Zenon DEF EnOrden
<1>5. UnoPide /\ PidePrimero
  BY DEF UnoPide, PidePrimero, Libre, En, PasosPedir, PasosPrimero
<1>6. QED
  BY <1>1, <1>4, <1>5 DEF OInv

\* NEW is in the order of creation in every state.
LEMMA OrdenSiempre ==
  ASSUME UnoPorVez
  PROVE  Spec => []OInv
  BY OrdenInicial, PasoOrden, PTL DEF Spec

-----------------------------------------------------------------------------
\* Whoever admits them, the handler (crear_proceso) or the replanning of a finalizer
\* (replanificar_creacion_proceso), and whatever Memoria refuses or the programs end in
\* between: no process enters lista_pcb_enMemoria while an earlier one is in NEW, as long
\* as one thread at a time asks.
THEOREM AdmisionEnOrden ==
  ASSUME UnoPorVez
  PROVE  Spec => OrdenDeLlegada
<1> DEFINE Entra == \A p \in Range(enMemoria') \ Range(enMemoria), q \in Pids :
                       q < p => q \notin Range(nuevos)
<1>1. ASSUME OInv, Next PROVE Entra
  <2>0. enMemoria \in Seq(Pids)
    BY <1>1 DEF OInv, Tipos
  <2>1. ASSUME NEW t \in Tareas, AgregarEnMemoria(t) PROVE Entra
    <3>1. /\ enMemoria' = Append(enMemoria, tarea[t].pid) /\ tarea[t].pid \in Pids
          /\ \A i \in 1 .. Len(nuevos) : tarea[t].pid < nuevos[i]
      BY <1>1, <2>1 DEF AgregarEnMemoria, Esta, OInv, PidePrimero
    <3>2. \A p \in Range(enMemoria') \ Range(enMemoria) : p = tarea[t].pid
      BY <2>0, <3>1, RangoDespues
    <3>3. ASSUME NEW q \in Pids, q < tarea[t].pid PROVE q \notin Range(nuevos)
      <4>1. tarea[t].pid \in Nat /\ q \in Nat
        BY <3>1, NumerosDePids
      <4>2. DOMAIN nuevos = 1 .. Len(nuevos) /\ \A i \in 1 .. Len(nuevos) : nuevos[i] \in Nat
        BY <1>1, LosDeNew DEF OInv
      <4>3. \A i \in DOMAIN nuevos : nuevos[i] # q
        BY <3>1, <3>3, <4>1, <4>2
      <4>4. QED
        BY <4>3 DEF Range
    <3>4. QED
      BY <3>2, <3>3
  <2>2. ASSUME NEW p \in Pids, QuitarDeMemoria(p) PROVE Entra
    <3>1. Range(enMemoria') \subseteq Range(enMemoria)
      BY <2>0, <2>2, RangoDespues DEF QuitarDeMemoria
    <3>2. QED
      BY <3>1
  <2>3. ASSUME NEW t \in Tareas, Preguntar(t), ~AgregarEnMemoria(t) PROVE UNCHANGED enMemoria
    BY <2>3 DEF Preguntar, Pedir, Recibir, Leer, CrearHilo, SacarDeNew, listas
  <2>4. ASSUME NEW p \in Pids, PedirFin(p) \/ Finalizar(p), ~QuitarDeMemoria(p) PROVE UNCHANGED enMemoria
    BY <2>4 DEF PedirFin, Finalizar, AvisarFin, RecibirFin, Replanificar, MirarNew, AgregarASalidos, listas
  <2>5. ASSUME CrearPcb \/ Contar \/ MemoriaSigue PROVE UNCHANGED enMemoria
    BY <2>5 DEF CrearPcb, Contar, MemoriaSigue, listas
  <2>6. UNCHANGED enMemoria => Entra
    OBVIOUS
  <2>7. QED
    BY <1>1, <2>1, <2>2, <2>3, <2>4, <2>5, <2>6 DEF Next
<1>2. OInv /\ [Next]_vars => [Entra]_vars
  BY <1>1
<1>3. QED
  BY <1>2, OrdenSiempre, PTL DEF Spec, OrdenDeLlegada

-----------------------------------------------------------------------------
(***************************************************************************)
(* What Memoria is to the kernel: each step of the composition is a step   *)
(* of Memoria, or leaves it alone.                                         *)
(***************************************************************************)
MP == INSTANCE MemoriaProofs WITH Direcciones <- {}, EnSerie <- FALSE, VuelcaVacio <- FALSE

\* MemoriaAssumption is what MemoriaProofs asks of the constants.
LEMMA SupuestosDeMemoria ==
  /\ MP!EsquemaAssumption /\ MP!AlgoritmoAssumption /\ MP!TamaniosAssumption
  /\ MP!PedidosAssumption /\ MP!NadaAssumption
<1>1. MP!Registro = M!Registro /\ MP!Pedido = M!Pedido
  BY DEF MP!Registro, M!Registro, MP!Pedido, M!Pedido
<1>2. QED
  BY <1>1, MemoriaAssumption DEF MP!EsquemaAssumption, MP!AlgoritmoAssumption, MP!TamaniosAssumption,
       MP!PedidosAssumption, MP!NadaAssumption

\* The sizes of the processes created.
TiposKernel ==
  /\ tamanio \in [Pids -> Tamanios \cup {0}] /\ \A p \in 1 .. creados : tamanio[p] \in Tamanios
  /\ hilos \in [Pids -> Nat] /\ salidos \in Seq(Pids)

\* The requests of the kernel reach Memoria with a process and its size.
LEMMA PasoDeMemoria ==
  ASSUME OInv, TiposKernel, [Next]_vars
  PROVE  MP!Next \/ UNCHANGED memoria
<1>1. ASSUME NEW t \in Tareas, Pedir(t) PROVE MP!Next
  <2>1. tarea[t].pid = nuevos[1] /\ nuevos # <<>>
    BY <1>1 DEF Pedir, Esta, OInv, PidePrimero, PasosPrimero
  <2>2. tarea[t].pid \in Pids /\ tarea[t].pid \in 1 .. creados
    BY <2>1, LosDeNew, ProcesosAssumption DEF OInv, EnOrden, Tipos, Pids
  <2>3. tamanio[tarea[t].pid] \in Tamanios
    BY <2>2 DEF TiposKernel
  <2>4. M!BuscarHueco(tarea[t].pid, tamanio[tarea[t].pid])
    BY <1>1 DEF Pedir
  <2>5. MP!BuscarHueco(tarea[t].pid, tamanio[tarea[t].pid])
    BY <2>4 DEF M!BuscarHueco, M!Llega, M!Desocupada, M!Finalizando, M!Asignable, M!Sirve, M!Preferida, M!Mejor,
       MP!BuscarHueco, MP!Llega, MP!Desocupada, MP!Finalizando, MP!Asignable, MP!Sirve, MP!Preferida, MP!Mejor
  <2>6. QED
    BY <2>2, <2>3, <2>5 DEF MP!Next
<1>2. ASSUME NEW p \in Pids, AvisarFin(p) PROVE MP!Next
  <2>1. M!PedirFinalizacion(p)
    BY <1>2 DEF AvisarFin
  <2>2. MP!PedirFinalizacion(p)
    BY <2>1 DEF M!PedirFinalizacion, M!Llega, M!Desocupada, M!Finalizando, M!ConId,
       MP!PedirFinalizacion, MP!Llega, MP!Desocupada, MP!Finalizando, MP!ConId
  <2>3. QED
    BY <2>2 DEF MP!Next
<1>3. ASSUME MemoriaSigue PROVE MP!Next
  <2>1. CASE M!CrearProceso
    <3>1. MP!CrearProceso
      BY <2>1 DEF M!CrearProceso, M!CrearLiberada, M!CrearEn, M!ConId, M!Proceso, M!Ocupar, M!Recortar, M!Resto, M!Particion,
         MP!CrearProceso, MP!CrearLiberada, MP!CrearEn, MP!ConId, MP!Proceso, MP!Ocupar, MP!Recortar, MP!Resto, MP!Particion
    <3>2. QED
      BY <3>1 DEF MP!Next
  <2>2. ASSUME NEW p \in Pids, M!Finalizacion(p) PROVE MP!Next
    <3>1. M!Ordenar <=> MP!Ordenar
      BY DEF M!Ordenar, M!Ordenes, M!OrdenPorBase, MP!Ordenar, MP!Ordenes, MP!OrdenPorBase
    <3>2. M!Unibles = MP!Unibles
      BY DEF M!Unibles, M!Unible, MP!Unibles, MP!Unible
    <3>3. \A i : M!Unidas(particiones, i) = MP!Unidas(particiones, i)
      BY DEF M!Unidas, MP!Unidas
    <3>4. M!LiberarParticion(p) => MP!LiberarParticion(p)
      BY DEF M!LiberarParticion, M!ConId, M!Desocupar, MP!LiberarParticion, MP!ConId, MP!Desocupar
    <3>5. M!QuitarProceso(p) => MP!QuitarProceso(p)
      BY DEF M!QuitarProceso, MP!QuitarProceso
    <3>6. M!OrdenarParticiones(p) => MP!OrdenarParticiones(p)
      BY <3>1 DEF M!OrdenarParticiones, MP!OrdenarParticiones
    <3>7. M!UnificarParticiones(p) => MP!UnificarParticiones(p)
      BY <3>2, <3>3 DEF M!UnificarParticiones, MP!UnificarParticiones
    <3>8. M!FinalizarProceso(p) => MP!FinalizarProceso(p)
      BY <3>1, <3>2 DEF M!FinalizarProceso, MP!FinalizarProceso
    <3>9. MP!Finalizacion(p)
      BY <2>2, <3>4, <3>5, <3>6, <3>7, <3>8 DEF M!Finalizacion, MP!Finalizacion
    <3>10. QED
      BY <3>9 DEF MP!Next
  <2>3. QED
    BY <1>3, <2>1, <2>2 DEF MemoriaSigue
<1>4. ASSUME NEW t \in Tareas, Preguntar(t), ~Pedir(t) PROVE UNCHANGED memoria
  BY <1>4 DEF Preguntar, Recibir, Leer, CrearHilo, SacarDeNew, AgregarEnMemoria
<1>5. ASSUME NEW p \in Pids, PedirFin(p) \/ Finalizar(p), ~AvisarFin(p) PROVE UNCHANGED memoria
  BY <1>5 DEF PedirFin, Finalizar, RecibirFin, Replanificar, MirarNew, QuitarDeMemoria, AgregarASalidos
<1>6. ASSUME CrearPcb \/ Contar \/ UNCHANGED vars PROVE UNCHANGED memoria
  BY <1>6 DEF CrearPcb, Contar, vars
<1>7. QED
  BY <1>1, <1>2, <1>3, <1>4, <1>5, <1>6 DEF Next

\* Whatever the kernel asks, Memoria keeps its tables.
LEMMA MemoriaSigueBien ==
  ASSUME OInv, TiposKernel, [Next]_vars, MP!TInv
  PROVE  MP!TInv'
<1>1. [MP!Next]_(MP!vars)
  BY PasoDeMemoria DEF memoria, MP!vars
<1>2. QED
  BY <1>1, SupuestosDeMemoria, MP!PasoInvariante

\* With fixed partitions Memoria also keeps the owners of its partitions.
LEMMA MemoriaSigueConDuenios ==
  ASSUME ESQUEMA = "FIJAS", OInv, TiposKernel, [Next]_vars, MP!TInv, MP!SInv
  PROVE  MP!SInv'
<1>1. MP!Next \/ UNCHANGED MP!vars
  BY PasoDeMemoria DEF memoria, MP!vars
<1>2. MP!Ordenadas
  BY DEF MP!Ordenadas
<1>3. QED
  BY <1>1, <1>2, SupuestosDeMemoria, MP!SeriePaso, MP!SerieQuieta

\* Memoria starts with the tables MemoriaProofs starts from.
LEMMA MemoriaInicia ==
  ASSUME Init
  PROVE  MP!TInv /\ MP!SInv
<1>1. MP!Init
  <2>1. MP!suma = M!suma
    BY DEF MP!suma, M!suma
  <2>2. QED
    BY <2>1 DEF Init, M!Init, MP!Init, M!ParticionesIniciales, MP!ParticionesIniciales, M!Particion, MP!Particion
<1>2. QED
  BY <1>1, SupuestosDeMemoria, MP!InicioTabla, MP!SerieInicia

-----------------------------------------------------------------------------
(***************************************************************************)
(* The stage each process is at: which list has it, how many threads were  *)
(* created in it, what Memoria has been asked for it and who handles it.   *)
(***************************************************************************)
\* The steps of a thread that asks for a process, with the process.
PasosConPid == PasosPedir \ {"mirar"}

SinAtender == {"nuevo", "rechazado"}

\* What a thread at each step knows of the process it asks for.
TareaBien(t) ==
  LET p == tarea[t].pid
      k == tarea[t].paso
  IN /\ k # "perdido"
     /\ k \in PasosConPid <=> p # Nadie
     /\ k \in {"contar", "pedir"} => fase[p] \in SinAtender /\ creacion = Nada
     /\ k = "esperar" => \/ EnCurso(p) /\ fase[p] \in SinAtender
                         \/ creacion = Nada /\ fase[p] \in {"rechazado", "vivo"}
     /\ k = "leer" => \/ rta = "OK" /\ fase[p] = "vivo"
                      \/ rta = "ERROR" /\ fase[p] = "rechazado"
     /\ k \in {"contar", "pedir", "esperar", "leer", "crearHilo"} => hilos[p] = 0
     /\ k \in {"crearHilo", "sacar", "agregar"} => fase[p] = "vivo"
     /\ k \in {"sacar", "agregar"} => hilos[p] = 1
     /\ t = Manejador => k \in PasosConPid \cup {"libre"}

Pedida(p) == \E t \in Tareas : tarea[t].pid = p

\* The process is not created yet.
SinCrear(p) ==
  /\ creados < p /\ p \notin Range(nuevos) /\ p \notin Range(enMemoria) /\ p \notin Range(salidos)
  /\ tarea[p] = Libre /\ ~Pedida(p) /\ hilos[p] = 0 /\ fase[p] = "nuevo"

\* It is in NEW: as it was created, unless somebody asks for it.
EnNew(p) ==
  /\ p <= creados /\ p \in Range(nuevos) /\ p \notin Range(enMemoria) /\ p \notin Range(salidos)
  /\ tarea[p] = Libre
  /\ Pedida(p) \/ (hilos[p] = 0 /\ fase[p] \in SinAtender)

\* It was taken out of NEW and goes to lista_pcb_enMemoria.
Entrando(p) ==
  /\ p <= creados /\ p \notin Range(nuevos) /\ p \notin Range(enMemoria) /\ p \notin Range(salidos)
  /\ tarea[p] = Libre
  /\ \E t \in Tareas : tarea[t] = En("agregar", p)

\* How far Memoria has gone with it, by the step of its finalizer.
FaseDe(p) ==
  /\ tarea[p].paso \in {"libre", "avisar"} => fase[p] = "vivo"
  /\ tarea[p].paso = "liberando" => fase[p] \in {"liberar", "quitar", "ordenar", "unificar", "finalizado"}
  /\ tarea[p].paso \notin {"libre", "avisar", "liberando"} => fase[p] = "finalizado"

Dentro(p) ==
  /\ p <= creados /\ p \notin Range(nuevos) /\ p \in Range(enMemoria) /\ p \notin Range(salidos)
  /\ tarea[p].paso # "salir" /\ ~Pedida(p) /\ hilos[p] = 1 /\ FaseDe(p)

\* It was taken out of lista_pcb_enMemoria and goes to lista_pcb_exit.
Saliendo(p) ==
  /\ p <= creados /\ p \notin Range(nuevos) /\ p \notin Range(enMemoria) /\ p \notin Range(salidos)
  /\ tarea[p].paso = "salir" /\ ~Pedida(p) /\ hilos[p] = 1 /\ fase[p] = "finalizado"

Fuera(p) ==
  /\ p <= creados /\ p \notin Range(nuevos) /\ p \notin Range(enMemoria) /\ p \in Range(salidos)
  /\ tarea[p] = Libre /\ ~Pedida(p) /\ hilos[p] = 1 /\ fase[p] = "finalizado"

Etapa(p) == SinCrear(p) \/ EnNew(p) \/ Entrando(p) \/ Dentro(p) \/ Saliendo(p) \/ Fuera(p)

\* Somebody waits for the creation Memoria has under way.
CreacionEsperada == creacion # Nada => \E t \in Tareas : tarea[t] = En("esperar", creacion.pid)

PInv == /\ \A t \in Tareas : TareaBien(t)
        /\ \A p \in Pids : Etapa(p)
        /\ CreacionEsperada
        /\ IsInjective(enMemoria) /\ IsInjective(salidos)
        /\ ~caido

\* The numbers and the records the steps below speak of.
Fases == {"nuevo", "rechazado", "vivo", "liberar", "quitar", "ordenar", "unificar", "finalizado"}

\* The types of the tables of Memoria that the stages speak of.
LEMMA TiposDeMemoria ==
  ASSUME MP!TInv
  PROVE  /\ fase \in [Pids -> Fases]
         /\ creacion # Nada => creacion.pid \in Pids
         /\ \A p \in Pids : fase[p] = "vivo" => procesos[p] # Nada
  BY DEF MP!TInv, MP!TypeOK, MP!Presentes, MP!Pedido, Fases

\* The types of the threads.
LEMMA TiposDeTareas ==
  ASSUME OInv
  PROVE  /\ \A t \in Tareas : /\ tarea[t] = En(tarea[t].paso, tarea[t].pid)
                              /\ tarea[t].pid \in Pids \cup {Nadie} /\ tarea[t].paso \in Pasos
         /\ Pids \subseteq Tareas /\ Manejador \in Tareas /\ Manejador \notin Pids /\ Nadie \notin Pids
         /\ tarea \in [Tareas -> [paso : Pasos, pid : Pids \cup {Nadie}]]
<1>1. tarea \in [Tareas -> [paso : Pasos, pid : Pids \cup {Nadie}]]
  BY DEF OInv, Tipos
<1>2. QED
  BY <1>1, NumerosDePids DEF En, Tareas

\* Only one thread has a process.
LEMMA UnoConPid ==
  ASSUME OInv, PInv, NEW t \in Tareas, NEW u \in Tareas, t # u,
         tarea[t].paso \in PasosPedir \/ tarea[t].pid # Nadie
  PROVE  tarea[u].paso \notin PasosPedir /\ tarea[u].pid = Nadie
  BY DEF OInv, UnoPide, PInv, TareaBien, PasosConPid

\* The process a thread asks for is in NEW until it is taken out.
LEMMA PideDeNew ==
  ASSUME OInv, PInv, NEW t \in Tareas, tarea[t].paso \in PasosConPid
  PROVE  /\ tarea[t].pid \in Pids
         /\ tarea[t].paso # "agregar" => EnNew(tarea[t].pid)
         /\ tarea[t].paso = "agregar" => Entrando(tarea[t].pid)
<1> DEFINE p == tarea[t].pid
<1>1. p \in Pids /\ p \in Nat
  BY TiposDeTareas, NumerosDePids DEF PInv, TareaBien
<1>2. Pedida(p)
  BY DEF Pedida
<1>3. tarea[t].paso # "agregar" => p \in Range(nuevos)
  <2>1. SUFFICES ASSUME tarea[t].paso # "agregar" PROVE p \in Range(nuevos)
    OBVIOUS
  <2>2. tarea[t].paso \in PasosPrimero \cup {"contar"}
    BY <2>1 DEF PasosConPid, PasosPedir, PasosPrimero
  <2>3. p = nuevos[1] \/ p = nuevos[Len(nuevos)]
    BY <2>2 DEF OInv, PidePrimero
  <2>4. nuevos # <<>>
    BY <2>2 DEF OInv, PidePrimero
  <2>5. 1 \in DOMAIN nuevos /\ Len(nuevos) \in DOMAIN nuevos
    BY <2>4, LosDeNew DEF OInv
  <2>6. QED
    BY <2>3, <2>5 DEF Range
<1>4. ASSUME tarea[t].paso = "agregar" PROVE Entrando(p)
  <2>1. p \notin Range(nuevos)
    <3>1. DOMAIN nuevos = 1 .. Len(nuevos) /\ \A i \in 1 .. Len(nuevos) : nuevos[i] \in Nat /\ p < nuevos[i]
      BY <1>4, LosDeNew DEF OInv, PidePrimero
    <3>2. QED
      BY <1>1, <3>1 DEF Range
  <2>2. QED
    BY <1>1, <1>2, <2>1 DEF PInv, Etapa, SinCrear, EnNew, Dentro, Saliendo, Fuera
<1>5. Etapa(p) /\ (tarea[t].paso # "agregar" => EnNew(p))
  BY <1>1, <1>2, <1>3 DEF PInv, Etapa, SinCrear, EnNew, Entrando, Dentro, Saliendo, Fuera
<1>6. QED
  BY <1>1, <1>4, <1>5

\* A finalizer at work is that of a process in lista_pcb_enMemoria, until it is taken out.
LEMMA FinalizaDentro ==
  ASSUME PInv, NEW p \in Pids, tarea[p].paso # "libre"
  PROVE  /\ tarea[p].paso # "salir" => Dentro(p)
         /\ tarea[p].paso = "salir" => Saliendo(p)
<1>1. tarea[p] # Libre
  BY DEF Libre, En
<1>2. QED
  BY <1>1 DEF PInv, Etapa, SinCrear, EnNew, Entrando, Dentro, Saliendo, Fuera

\* The lists say the same of x before and after the step.
MismasListas(x) ==
  /\ creados < x <=> creados' < x
  /\ x <= creados <=> x <= creados'
  /\ x \in Range(nuevos) <=> x \in Range(nuevos')
  /\ x \in Range(enMemoria) <=> x \in Range(enMemoria')
  /\ x \in Range(salidos) <=> x \in Range(salidos')

\* A step of t leaves alone a process that is neither that of t nor one it asks for.
LEMMA OtroProceso ==
  ASSUME OInv, PInv, NEW t \in Tareas, NEW k, NEW q, tarea' = [tarea EXCEPT ![t] = En(k, q)],
         NEW x \in Pids, x # t, x # tarea[t].pid, x # q,
         MismasListas(x), hilos'[x] = hilos[x], fase'[x] = fase[x]
  PROVE  Etapa(x)'
<1>1. /\ tarea'[t] = En(k, q) /\ \A u \in Tareas \ {t} : tarea'[u] = tarea[u]
      /\ x \in Tareas
  BY TiposDeTareas
<1>2. tarea'[x] = tarea[x]
  BY <1>1
<1>3. tarea'[t].pid # x
  BY <1>1 DEF En
<1>4. (\E u \in Tareas : tarea'[u].pid = x) <=> (\E u \in Tareas : tarea[u].pid = x)
  BY <1>1, <1>3
<1>5. (\E u \in Tareas : tarea'[u] = En("agregar", x)) <=> (\E u \in Tareas : tarea[u] = En("agregar", x))
  <2>1. En("agregar", x).pid = x
    BY DEF En
  <2>2. tarea'[t] # En("agregar", x) /\ tarea[t] # En("agregar", x)
    BY <1>3, <2>1
  <2>3. QED
    BY <1>1, <2>2
<1>6. Etapa(x)
  BY DEF PInv
<1>7. SinCrear(x) => SinCrear(x)'
  BY <1>2, <1>4 DEF SinCrear, Pedida, MismasListas
<1>8. EnNew(x) => EnNew(x)'
  BY <1>2, <1>4 DEF EnNew, Pedida, MismasListas
<1>9. Entrando(x) => Entrando(x)'
  BY <1>2, <1>5 DEF Entrando, MismasListas
<1>10. Dentro(x) => Dentro(x)'
  BY <1>2, <1>4 DEF Dentro, FaseDe, Pedida, MismasListas
<1>11. Saliendo(x) => Saliendo(x)'
  BY <1>2, <1>4 DEF Saliendo, Pedida, MismasListas
<1>12. Fuera(x) => Fuera(x)'
  BY <1>2, <1>4 DEF Fuera, Pedida, MismasListas
<1>13. QED
  BY <1>6, <1>7, <1>8, <1>9, <1>10, <1>11, <1>12 DEF Etapa

\* A thread that asks for no process knows of none.
LEMMA OtraTarea ==
  ASSUME PInv, NEW u \in Tareas, tarea'[u] = tarea[u], tarea[u].paso \notin PasosConPid
  PROVE  TareaBien(u)'
<1>1. tarea[u].paso \notin {"contar", "pedir", "esperar", "leer", "crearHilo", "sacar", "agregar"}
  BY DEF PasosConPid, PasosPedir
<1>2. TareaBien(u)
  BY DEF PInv
<1>3. QED
  BY <1>1, <1>2 DEF TareaBien

\* The lists as they were.
LEMMA ListasIguales ==
  ASSUME NEW x, UNCHANGED <<creados, listas>>
  PROVE  MismasListas(x)
  BY DEF MismasListas, listas

\* A step of the only thread that asks for a process: it remains to look at that thread, at
\* the process it asks for and at its own.
LEMMA PideUno ==
  ASSUME OInv, PInv, NEW t \in Tareas, NEW k, NEW q, tarea' = [tarea EXCEPT ![t] = En(k, q)],
         \A u \in Tareas \ {t} : tarea[u].paso \notin PasosPedir,
         TareaBien(t)',
         \A x \in Pids : x = t \/ x = tarea[t].pid \/ x = q => Etapa(x)',
         \A x \in Pids : x # t /\ x # tarea[t].pid /\ x # q =>
           MismasListas(x) /\ hilos'[x] = hilos[x] /\ fase'[x] = fase[x]
  PROVE  (\A u \in Tareas : TareaBien(u)') /\ (\A x \in Pids : Etapa(x)')
<1>1. \A u \in Tareas \ {t} : TareaBien(u)'
  BY OtraTarea, TiposDeTareas DEF PasosConPid
<1>2. \A x \in Pids : Etapa(x)'
  BY OtroProceso
<1>3. QED
  BY <1>1, <1>2

\* The finalizer of t goes on while t is in lista_pcb_enMemoria.
LEMMA SigueDentro ==
  ASSUME OInv, NEW t \in Pids, Dentro(t), NEW k, NEW q, tarea' = [tarea EXCEPT ![t] = En(k, q)],
         k # "salir", q # t, MismasListas(t), hilos'[t] = hilos[t],
         k \in {"libre", "avisar"} => fase'[t] = "vivo",
         k = "liberando" => fase'[t] \in {"liberar", "quitar", "ordenar", "unificar", "finalizado"},
         k \notin {"libre", "avisar", "liberando"} => fase'[t] = "finalizado"
  PROVE  Dentro(t)'
<1>1. /\ tarea'[t] = En(k, q) /\ \A u \in Tareas \ {t} : tarea'[u] = tarea[u]
      /\ t \in Tareas
  BY TiposDeTareas
<1>2. tarea'[t].paso = k /\ tarea'[t].pid = q
  BY <1>1 DEF En
<1>3. ~Pedida(t)'
  BY <1>1, <1>2 DEF Dentro, Pedida
<1>4. QED
  BY <1>2, <1>3 DEF Dentro, FaseDe, MismasListas

\* The thread t, which asks for p, takes a step.
LEMMA PasoPide ==
  ASSUME OInv, PInv, NEW t \in Tareas, tarea[t].paso \in PasosConPid, NEW p \in Pids, tarea[t].pid = p,
         NEW k, NEW q \in {p, Nadie},
         tarea' = [tarea EXCEPT ![t] = En(k, q)],
         k \in PasosPedir \cup {"quitar"} \/ (t = Manejador /\ k = "libre"),
         TareaBien(t)', Etapa(p)',
         \A x \in Pids : x # p =>
           MismasListas(x) /\ hilos'[x] = hilos[x] /\ fase'[x] = fase[x]
  PROVE  (\A u \in Tareas : TareaBien(u)') /\ (\A x \in Pids : Etapa(x)')
<1>1. Nadie \notin Pids /\ Manejador \notin Pids
  BY TiposDeTareas
<1>2. \A u \in Tareas \ {t} : tarea[u].paso \notin PasosPedir
  BY DEF OInv, UnoPide, PasosConPid
<1>3. ASSUME t \in Pids PROVE Etapa(t)'
  <2>1. tarea[t].paso \notin {"libre", "salir", "avisar", "liberando"}
    BY DEF PasosConPid, PasosPedir
  <2>2. Dentro(t)
    BY <1>3, <2>1, FinalizaDentro
  <2>3. p # t
    BY <1>1, <2>2 DEF Dentro, Pedida
  <2>4. fase[t] = "finalizado"
    BY <2>1, <2>2 DEF Dentro, FaseDe
  <2>5. k \notin {"libre", "salir", "avisar", "liberando"}
    BY <1>1, <1>3 DEF PasosPedir
  <2>6. q # t
    BY <1>1, <1>3, <2>3
  <2>7. Dentro(t)'
    BY <1>3, <2>2, <2>3, <2>4, <2>5, <2>6, SigueDentro
  <2>8. QED
    BY <2>7 DEF Etapa
<1>4. \A x \in Pids : x = t \/ x = p \/ x = q => Etapa(x)'
  <2>1. TAKE x \in Pids
  <2>2. x = t => Etapa(x)'
    BY <1>3, Zenon
  <2>3. x = p => Etapa(x)'
    BY Zenon
  <2>4. x # Nadie
    BY <1>1
  <2>5. QED
    BY <2>2, <2>3, <2>4
<1>5. QED
  BY <1>2, <1>4, PideUno

\* A step that leaves t asking for the same process, which stays in NEW.
LEMMA SigueEnNew ==
  ASSUME OInv, NEW t \in Tareas, NEW p \in Pids, EnNew(p), t # p, NEW k, tarea' = [tarea EXCEPT ![t] = En(k, p)],
         MismasListas(p)
  PROVE  Etapa(p)'
<1>1. tarea'[t] = En(k, p) /\ tarea'[p] = tarea[p]
  BY TiposDeTareas
<1>2. Pedida(p)'
  BY <1>1 DEF Pedida, En
<1>3. EnNew(p)'
  BY <1>1, <1>2 DEF EnNew, MismasListas
<1>4. QED
  BY <1>3 DEF Etapa

\* Nobody waits for a creation but the one that asks.
LEMMA SinCreacion ==
  ASSUME OInv, PInv, NEW t \in Tareas, tarea[t].paso # "esperar",
         \A u \in Tareas \ {t} : tarea[u].paso \notin PasosPedir
  PROVE  creacion = Nada
<1>1. SUFFICES ASSUME NEW u \in Tareas, tarea[u] = En("esperar", creacion.pid) PROVE FALSE
  BY DEF PInv, CreacionEsperada
<1>2. tarea[u].paso = "esperar"
  BY <1>1 DEF En
<1>3. QED
  BY <1>2 DEF PasosPedir

\* The process asked for is not that of the thread that asks.
LEMMA PideAOtro ==
  ASSUME OInv, PInv, NEW t \in Tareas, tarea[t].paso \in PasosConPid
  PROVE  t # tarea[t].pid /\ tarea[tarea[t].pid] = Libre /\ tarea[t] # Libre
<1>1. tarea[tarea[t].pid] = Libre
  BY PideDeNew DEF EnNew, Entrando
<1>2. tarea[t] # Libre
  BY DEF Libre, En, PasosConPid, PasosPedir
<1>3. QED
  BY <1>1, <1>2

\* The handler asks for the process it added, or leaves it in NEW.
LEMMA PasoContar ==
  ASSUME OInv, PInv, Contar
  PROVE  PInv'
<1> DEFINE t == Manejador
<1>0. PICK p \in Pids : p = tarea[t].pid
  BY NumerosDePids, PideDeNew DEF Contar, Esta, PasosConPid, PasosPedir
<1>1. /\ tarea[t].paso = "contar" /\ t \in Tareas /\ tarea[t].paso \in PasosConPid
      /\ UNCHANGED <<listas, creados, hilos, fase, creacion, rta, caido>>
      /\ UNCHANGED <<enMemoria, salidos>>
      /\ \E k \in {"pedir", "libre"} : tarea' = [tarea EXCEPT ![t] = En(k, IF k = "pedir" THEN p ELSE Nadie)]
  BY <1>0, NumerosDePids DEF Contar, Esta, Va, Libre, memoria, PasosConPid, PasosPedir, listas
<1>2. p \in Pids /\ EnNew(p) /\ t # p /\ p # Nadie
  BY <1>0, <1>1, PideDeNew, PideAOtro, TiposDeTareas
<1>3. fase[p] \in SinAtender /\ creacion = Nada /\ hilos[p] = 0
  BY <1>0, <1>1 DEF PInv, TareaBien
<1>4. PICK k \in {"pedir", "libre"} : tarea' = [tarea EXCEPT ![t] = En(k, IF k = "pedir" THEN p ELSE Nadie)]
  BY <1>1
<1> DEFINE q == IF k = "pedir" THEN p ELSE Nadie
<1>5. tarea'[t].paso = k /\ tarea'[t].pid = q /\ tarea'[p] = tarea[p]
  BY <1>1, <1>2, <1>4, TiposDeTareas DEF En
<1> HIDE DEF t
<1>6. TareaBien(t)'
  BY <1>1, <1>2, <1>3, <1>5 DEF TareaBien, PasosConPid, PasosPedir
<1>7. Etapa(p)'
  <2>1. MismasListas(p)
    BY <1>1, ListasIguales
  <2>2. EnNew(p)'
    <3>1. k = "pedir" => Pedida(p)'
      <4>1. k = "pedir" => tarea'[t].pid = p
        BY <1>5
      <4>2. QED
        BY <1>1, <4>1 DEF Pedida
    <3>2. hilos'[p] = 0 /\ fase'[p] \in SinAtender /\ tarea'[p] = Libre
      BY <1>1, <1>2, <1>3, <1>5 DEF EnNew
    <3>3. QED
      BY <1>2, <2>1, <3>1, <3>2 DEF EnNew, MismasListas
  <2>3. QED
    BY <2>2 DEF Etapa
<1>8. k \in PasosPedir \cup {"quitar"} \/ (t = Manejador /\ k = "libre")
  BY DEF PasosPedir, t
<1>9. \A x \in Pids : MismasListas(x) /\ hilos'[x] = hilos[x] /\ fase'[x] = fase[x]
  BY <1>1, ListasIguales
<1>10. (\A u \in Tareas : TareaBien(u)') /\ (\A x \in Pids : Etapa(x)')
  BY <1>0, <1>1, <1>4, <1>6, <1>7, <1>8, <1>9, PasoPide
<1>11. QED
  BY <1>1, <1>3, <1>10 DEF PInv, CreacionEsperada

\* What the thread t, which asks for p, starts from.
LEMMA AlPedir ==
  ASSUME OInv, PInv, NEW t \in Tareas, tarea[t].paso \in PasosConPid
  PROVE  \E p \in Pids : /\ p = tarea[t].pid /\ t # p /\ p # Nadie
                         /\ tarea[t].paso # "agregar" => EnNew(p)
                         /\ tarea[t].paso = "agregar" => Entrando(p)
  BY PideDeNew, PideAOtro, TiposDeTareas

\* Only the one that asks has a creation under way.
LEMMA CreacionDeUno ==
  ASSUME OInv, PInv, NEW t \in Tareas, tarea[t].paso \in PasosPedir
  PROVE  /\ tarea[t].paso # "esperar" => creacion = Nada
         /\ creacion # Nada => creacion.pid = tarea[t].pid
<1>1. \A u \in Tareas \ {t} : tarea[u].paso \notin PasosPedir
  BY DEF OInv, UnoPide
<1>2. ASSUME creacion # Nada PROVE tarea[t] = En("esperar", creacion.pid)
  <2>1. PICK u \in Tareas : tarea[u] = En("esperar", creacion.pid)
    BY <1>2 DEF PInv, CreacionEsperada
  <2>2. tarea[u].paso = "esperar"
    BY <2>1 DEF En
  <2>3. u = t
    BY <1>1, <2>2 DEF PasosPedir
  <2>4. QED
    BY <2>1, <2>3
<1>3. QED
  BY <1>2 DEF En

\* Memoria starts a creation, or refuses it.
LEMMA PasoPedir ==
  ASSUME OInv, PInv, TiposKernel, MP!TInv, NEW t \in Tareas, Pedir(t)
  PROVE  PInv'
<1>1. /\ tarea[t].paso = "pedir" /\ tarea[t].paso \in PasosConPid
      /\ UNCHANGED <<nuevos, vacia, enMemoria, salidos, listas, creados, hilos, rta, caido>>
  BY DEF Pedir, Esta, PasosConPid, PasosPedir, listas
<1>2. PICK p \in Pids : p = tarea[t].pid /\ EnNew(p) /\ t # p /\ p # Nadie
  BY <1>1, AlPedir
<1>3. /\ tarea' = [tarea EXCEPT ![t] = En("esperar", p)]
      /\ M!BuscarHueco(p, tamanio[p])
  BY <1>2 DEF Pedir, Va
<1>4. fase[p] \in SinAtender /\ creacion = Nada /\ hilos[p] = 0
  BY <1>1, <1>2 DEF PInv, TareaBien
<1>5. /\ tarea'[t] = En("esperar", p) /\ tarea'[t].paso = "esperar" /\ tarea'[t].pid = p
  BY <1>3, TiposDeTareas DEF En
<1>6. \/ fase' = [fase EXCEPT ![p] = "rechazado"] /\ UNCHANGED creacion
      \/ /\ UNCHANGED fase
         /\ \E i \in DOMAIN particiones :
              creacion' = [pid |-> p, tamanio |-> tamanio[p], particion |-> particiones[i].particion_id]
  BY <1>3 DEF M!BuscarHueco, M!Asignable
<1>7. fase \in [Pids -> Fases]
  BY TiposDeMemoria
<1>8. \/ creacion' # Nada /\ creacion'.pid = p /\ fase'[p] \in SinAtender
      \/ creacion' = Nada /\ fase'[p] = "rechazado"
  <2>1. CASE fase' = [fase EXCEPT ![p] = "rechazado"] /\ UNCHANGED creacion
    BY <1>4, <1>7, <2>1
  <2>2. ASSUME UNCHANGED fase, NEW i \in DOMAIN particiones,
               creacion' = [pid |-> p, tamanio |-> tamanio[p], particion |-> particiones[i].particion_id]
        PROVE  creacion' # Nada /\ creacion'.pid = p /\ fase'[p] \in SinAtender
    <3>1. particiones[i] \in MP!Bloque
      BY ElementOfSeq, LenProperties DEF MP!TInv, MP!TypeOK
    <3>2. tamanio[p] \in Tamanios
      BY <1>2, NumerosDePids DEF TiposKernel, EnNew
    <3>3. creacion' \in MP!Pedido
      BY <2>2, <3>1, <3>2 DEF MP!Pedido, MP!Bloque
    <3>4. creacion' # Nada
      BY <3>3, SupuestosDeMemoria DEF MP!NadaAssumption
    <3>5. QED
      BY <1>4, <2>2, <3>4
  <2>3. QED
    BY <1>6, <2>1, <2>2
<1>9. TareaBien(t)'
  BY <1>1, <1>2, <1>4, <1>5, <1>8 DEF TareaBien, PasosConPid, PasosPedir, EnCurso
<1>10. Etapa(p)'
  BY <1>1, <1>2, <1>3, SigueEnNew, ListasIguales
<1>11. \A x \in Pids : x # p => MismasListas(x) /\ hilos'[x] = hilos[x] /\ fase'[x] = fase[x]
  BY <1>1, <1>6, <1>7, ListasIguales
<1>12. (\A u \in Tareas : TareaBien(u)') /\ (\A x \in Pids : Etapa(x)')
  BY <1>1, <1>2, <1>3, <1>9, <1>10, <1>11, PasoPide DEF PasosPedir
<1>13. CreacionEsperada'
  BY <1>5, <1>8 DEF CreacionEsperada
<1>14. QED
  BY <1>1, <1>12, <1>13 DEF PInv

\* The answer of Memoria.
LEMMA PasoRecibir ==
  ASSUME OInv, PInv, NEW t \in Tareas, Recibir(t)
  PROVE  PInv'
<1>1. /\ tarea[t].paso = "esperar" /\ tarea[t].paso \in PasosConPid /\ tarea[t].paso \in PasosPedir
      /\ UNCHANGED <<nuevos, vacia, enMemoria, salidos, listas, creados, hilos, fase, creacion, caido>>
  BY DEF Recibir, Esta, PasosConPid, PasosPedir, listas, memoria
<1>2. PICK p \in Pids : p = tarea[t].pid /\ EnNew(p) /\ t # p /\ p # Nadie
  BY <1>1, AlPedir
<1>3. /\ tarea' = [tarea EXCEPT ![t] = En("leer", p)]
      /\ ~EnCurso(p) /\ rta' = IF fase[p] = "rechazado" THEN "ERROR" ELSE "OK"
  BY <1>2 DEF Recibir, Va
<1>4. creacion = Nada /\ fase[p] \in {"rechazado", "vivo"} /\ hilos[p] = 0
  BY <1>1, <1>2, <1>3 DEF PInv, TareaBien
<1>5. tarea'[t].paso = "leer" /\ tarea'[t].pid = p
  BY <1>3, TiposDeTareas DEF En
<1>6. TareaBien(t)'
  BY <1>1, <1>2, <1>3, <1>4, <1>5 DEF TareaBien, PasosConPid, PasosPedir
<1>7. Etapa(p)'
  BY <1>1, <1>2, <1>3, SigueEnNew, ListasIguales
<1>8. \A x \in Pids : MismasListas(x) /\ hilos'[x] = hilos[x] /\ fase'[x] = fase[x]
  BY <1>1, ListasIguales
<1>9. (\A u \in Tareas : TareaBien(u)') /\ (\A x \in Pids : Etapa(x)')
  BY <1>1, <1>2, <1>3, <1>6, <1>7, <1>8, PasoPide DEF PasosPedir
<1>10. QED
  BY <1>1, <1>4, <1>9 DEF PInv, CreacionEsperada

\* The thread reads the answer to its own request.
LEMMA PasoLeer ==
  ASSUME OInv, PInv, NEW t \in Tareas, Leer(t)
  PROVE  PInv'
<1>1. /\ tarea[t].paso = "leer" /\ tarea[t].paso \in PasosConPid /\ tarea[t].paso \in PasosPedir
      /\ UNCHANGED <<nuevos, vacia, enMemoria, salidos, listas, creados, hilos, fase, creacion, caido>>
  BY DEF Leer, Esta, PasosConPid, PasosPedir, listas, memoria
<1>2. PICK p \in Pids : p = tarea[t].pid /\ EnNew(p) /\ t # p /\ p # Nadie
  BY <1>1, AlPedir
<1>3. \/ rta = "OK" /\ tarea' = [tarea EXCEPT ![t] = En("crearHilo", p)]
      \/ rta # "OK" /\ tarea' = [tarea EXCEPT ![t] = En(IF t = Manejador THEN "libre" ELSE "quitar", Nadie)]
  BY <1>2 DEF Leer, Va, SigueTrasError
<1>4. /\ creacion = Nada /\ hilos[p] = 0
      /\ rta = "OK" => fase[p] = "vivo"
      /\ rta # "OK" => fase[p] = "rechazado"
  BY <1>1, <1>2, CreacionDeUno DEF PInv, TareaBien
<1>5. \A x \in Pids : MismasListas(x) /\ hilos'[x] = hilos[x] /\ fase'[x] = fase[x]
  BY <1>1, ListasIguales
<1>6. SUFFICES (\A u \in Tareas : TareaBien(u)') /\ (\A x \in Pids : Etapa(x)')
  BY <1>1, <1>4 DEF PInv, CreacionEsperada
<1>7. CASE rta = "OK" /\ tarea' = [tarea EXCEPT ![t] = En("crearHilo", p)]
  <2>1. tarea'[t].paso = "crearHilo" /\ tarea'[t].pid = p
    BY <1>7, TiposDeTareas DEF En
  <2>2. TareaBien(t)'
    BY <1>1, <1>2, <1>4, <1>7, <2>1 DEF TareaBien, PasosConPid, PasosPedir
  <2>3. Etapa(p)'
    BY <1>2, <1>5, <1>7, SigueEnNew
  <2>4. QED
    BY <1>1, <1>2, <1>5, <1>7, <2>2, <2>3, PasoPide DEF PasosPedir
<1>8. CASE rta # "OK" /\ tarea' = [tarea EXCEPT ![t] = En(IF t = Manejador THEN "libre" ELSE "quitar", Nadie)]
  <2> DEFINE k == IF t = Manejador THEN "libre" ELSE "quitar"
  <2>1. tarea'[t].paso = k /\ tarea'[t].pid = Nadie /\ tarea'[p] = tarea[p]
    BY <1>2, <1>8, TiposDeTareas DEF En
  <2>2. TareaBien(t)'
    BY <2>1 DEF TareaBien, PasosConPid, PasosPedir
  <2>3. EnNew(p)'
    BY <1>2, <1>4, <1>5, <1>8, <2>1 DEF EnNew, MismasListas, SinAtender
  <2>4. k \in PasosPedir \cup {"quitar"} \/ (t = Manejador /\ k = "libre")
    OBVIOUS
  <2>5. QED
    BY <1>1, <1>2, <1>5, <1>8, <2>2, <2>3, <2>4, PasoPide DEF Etapa
<1>9. QED
  BY <1>3, <1>7, <1>8

\* crear_tcb: Memoria has the process.
LEMMA PasoCrearHilo ==
  ASSUME OInv, PInv, TiposKernel, MP!TInv, NEW t \in Tareas, CrearHilo(t)
  PROVE  PInv'
<1>1. /\ tarea[t].paso = "crearHilo" /\ tarea[t].paso \in PasosConPid /\ tarea[t].paso \in PasosPedir
      /\ UNCHANGED <<nuevos, vacia, enMemoria, salidos, listas, creados, fase, creacion, rta>>
  BY DEF CrearHilo, Esta, PasosConPid, PasosPedir, listas, memoria
<1>2. PICK p \in Pids : p = tarea[t].pid /\ EnNew(p) /\ t # p /\ p # Nadie
  BY <1>1, AlPedir
<1>3. /\ tarea' = [tarea EXCEPT ![t] = En("sacar", p)]
      /\ hilos' = [hilos EXCEPT ![p] = @ + 1] /\ caido' = (procesos[p] = Nada)
  BY <1>2 DEF CrearHilo, Va
<1>4. creacion = Nada /\ hilos[p] = 0 /\ fase[p] = "vivo"
  BY <1>1, <1>2, CreacionDeUno DEF PInv, TareaBien
<1>5. ~caido'
  BY <1>3, <1>4, TiposDeMemoria
<1>6. /\ tarea'[t].paso = "sacar" /\ tarea'[t].pid = p
      /\ hilos'[p] = 1 /\ \A x \in Pids \ {p} : hilos'[x] = hilos[x]
  BY <1>3, <1>4, TiposDeTareas DEF En, TiposKernel
<1>7. TareaBien(t)'
  BY <1>1, <1>2, <1>4, <1>6 DEF TareaBien, PasosConPid, PasosPedir
<1>8. Etapa(p)'
  BY <1>1, <1>2, <1>3, SigueEnNew, ListasIguales
<1>9. \A x \in Pids : x # p => MismasListas(x) /\ hilos'[x] = hilos[x] /\ fase'[x] = fase[x]
  BY <1>1, <1>6, ListasIguales
<1>10. (\A u \in Tareas : TareaBien(u)') /\ (\A x \in Pids : Etapa(x)')
  BY <1>1, <1>2, <1>3, <1>7, <1>8, <1>9, PasoPide DEF PasosPedir
<1>11. QED
  BY <1>1, <1>4, <1>5, <1>10 DEF PInv, CreacionEsperada

\* NEW, in the order of creation, has nobody twice.
LEMMA NewInyectiva ==
  ASSUME OInv
  PROVE  nuevos \in Seq(Pids) /\ IsInjective(nuevos)
<1>1. nuevos \in Seq(Pids)
  BY DEF OInv, Tipos
<1>2. DOMAIN nuevos = 1 .. Len(nuevos) /\ Len(nuevos) \in Nat /\ \A i \in 1 .. Len(nuevos) : nuevos[i] \in Nat
  BY LosDeNew DEF OInv
<1>3. ASSUME NEW i \in 1 .. Len(nuevos), NEW j \in 1 .. Len(nuevos), nuevos[i] = nuevos[j] PROVE i = j
  <2>1. ~(i < j) /\ ~(j < i)
    BY <1>2, <1>3 DEF OInv, EnOrden
  <2>2. QED
    BY <1>2, <2>1
<1>4. QED
  BY <1>1, <1>2, <1>3 DEF IsInjective

\* The process admitted leaves NEW: it is entering.
LEMMA PasoSacar ==
  ASSUME OInv, PInv, NEW t \in Tareas, SacarDeNew(t)
  PROVE  PInv'
<1>1. /\ tarea[t].paso = "sacar" /\ tarea[t].paso \in PasosConPid /\ tarea[t].paso \in PasosPedir
      /\ UNCHANGED <<enMemoria, salidos, creados, hilos, fase, creacion, rta, caido>>
  BY DEF SacarDeNew, Esta, PasosConPid, PasosPedir, memoria
<1>2. PICK p \in Pids : p = tarea[t].pid /\ EnNew(p) /\ t # p /\ p # Nadie
  BY <1>1, AlPedir
<1>3. /\ tarea' = [tarea EXCEPT ![t] = En("agregar", p)]
      /\ nuevos' = RemoveFirst(nuevos, p)
  BY <1>2 DEF SacarDeNew, Va, NuevosSin
<1>4. creacion = Nada /\ hilos[p] = 1 /\ fase[p] = "vivo"
  BY <1>1, <1>2, CreacionDeUno DEF PInv, TareaBien
<1>5. Range(nuevos') = Range(nuevos) \ {p}
  BY <1>3, NewInyectiva, SacaUno
<1>6. /\ tarea'[t] = En("agregar", p) /\ tarea'[t].paso = "agregar" /\ tarea'[t].pid = p
      /\ tarea'[p] = tarea[p]
  BY <1>2, <1>3, TiposDeTareas DEF En
<1>7. TareaBien(t)'
  BY <1>1, <1>2, <1>4, <1>6 DEF TareaBien, PasosConPid, PasosPedir
<1>8. Entrando(p)'
  BY <1>1, <1>2, <1>5, <1>6 DEF Entrando, EnNew
<1>9. \A x \in Pids : x # p => MismasListas(x) /\ hilos'[x] = hilos[x] /\ fase'[x] = fase[x]
  BY <1>1, <1>5 DEF MismasListas
<1>10. (\A u \in Tareas : TareaBien(u)') /\ (\A x \in Pids : Etapa(x)')
  BY <1>1, <1>2, <1>3, <1>7, <1>8, <1>9, PasoPide DEF PasosPedir, Etapa
<1>11. QED
  BY <1>1, <1>4, <1>10 DEF PInv, CreacionEsperada

\* The process admitted is in lista_pcb_enMemoria; nobody asks for it any more.
LEMMA PasoAgregar ==
  ASSUME OInv, PInv, NEW t \in Tareas, AgregarEnMemoria(t)
  PROVE  PInv'
<1>1. /\ tarea[t].paso = "agregar" /\ tarea[t].paso \in PasosConPid /\ tarea[t].paso \in PasosPedir
      /\ UNCHANGED <<nuevos, salidos, creados, hilos, fase, creacion, rta, caido>>
      /\ enMemoria \in Seq(Pids)
  BY DEF AgregarEnMemoria, Esta, PasosConPid, PasosPedir, memoria, OInv, Tipos
<1>2. PICK p \in Pids : p = tarea[t].pid /\ Entrando(p) /\ t # p /\ p # Nadie
  BY <1>1, AlPedir
<1> DEFINE k == IF t = Manejador THEN "libre" ELSE "mirar"
<1>3. /\ tarea' = [tarea EXCEPT ![t] = En(k, Nadie)]
      /\ enMemoria' = Append(enMemoria, p)
  BY <1>2 DEF AgregarEnMemoria, Va, Siguiente
<1>4. creacion = Nada /\ hilos[p] = 1 /\ fase[p] = "vivo"
  BY <1>1, <1>2, CreacionDeUno DEF PInv, TareaBien
<1>5. Range(enMemoria') = Range(enMemoria) \cup {p} /\ IsInjective(enMemoria')
  BY <1>1, <1>2, <1>3, AgregaUno DEF PInv, Entrando
<1>6. /\ tarea'[t].paso = k /\ tarea'[t].pid = Nadie /\ \A u \in Tareas \ {t} : tarea'[u] = tarea[u]
      /\ p \in Tareas
  BY <1>3, TiposDeTareas DEF En
<1>7. TareaBien(t)'
  BY <1>6 DEF TareaBien, PasosConPid, PasosPedir
<1>8. Dentro(p)'
  <2>1. tarea'[p] = Libre
    BY <1>2, <1>6 DEF Entrando
  <2>2. tarea'[p].paso = "libre"
    BY <2>1 DEF Libre, En
  <2>3. \A u \in Tareas \ {t} : tarea[u].pid = Nadie
    BY <1>1, UnoConPid
  <2>4. ~Pedida(p)'
    BY <1>2, <1>6, <2>3 DEF Pedida
  <2>5. QED
    BY <1>1, <1>2, <1>4, <1>5, <2>2, <2>4 DEF Dentro, FaseDe, Entrando
<1>9. \A x \in Pids : x # p => MismasListas(x) /\ hilos'[x] = hilos[x] /\ fase'[x] = fase[x]
  BY <1>1, <1>5 DEF MismasListas
<1>10. k \in PasosPedir \cup {"quitar"} \/ (t = Manejador /\ k = "libre")
  BY DEF PasosPedir
<1> HIDE DEF k
<1>11. (\A u \in Tareas : TareaBien(u)') /\ (\A x \in Pids : Etapa(x)')
  BY <1>1, <1>2, <1>3, <1>7, <1>8, <1>9, <1>10, PasoPide DEF Etapa
<1>12. QED
  BY <1>1, <1>4, <1>5, <1>11 DEF PInv, CreacionEsperada

\* A process is created: it was in no list, and nobody asks for another.
LEMMA PasoCrear ==
  ASSUME UnoPorVez, OInv, PInv, TiposKernel, CrearPcb
  PROVE  PInv'
<1> DEFINE t == Manejador
<1>1. /\ t \in Tareas /\ tarea[t].paso = "libre" /\ t \notin Pids /\ Nadie \notin Pids
      /\ \A u \in Tareas \ {t} : tarea[u].paso \notin PasosPedir
      /\ UNCHANGED <<enMemoria, salidos, hilos, fase, creacion, rta, caido>>
      /\ creados \in Nat /\ creados < MaxProcesos /\ MaxProcesos \in Nat
  BY NumerosDePids, ProcesosAssumption DEF CrearPcb, Esta, NadiePide, memoria, OInv, Tipos
<1>2. PICK p \in Pids : p = creados + 1
  BY <1>1 DEF Pids
<1>3. /\ tarea' = [tarea EXCEPT ![t] = En("contar", p)]
      /\ creados' = p /\ nuevos' = Append(nuevos, p)
  BY <1>2 DEF CrearPcb, Va
<1>4. SinCrear(p) /\ p # t
  BY <1>1, <1>2 DEF PInv, Etapa, EnNew, Entrando, Dentro, Saliendo, Fuera
<1>5. Range(nuevos') = Range(nuevos) \cup {p}
  BY <1>3, NewInyectiva, AgregaUno
<1>6. creacion = Nada
  BY <1>1, SinCreacion
<1>7. tarea'[t].paso = "contar" /\ tarea'[t].pid = p /\ tarea'[p] = tarea[p]
  BY <1>3, <1>4, TiposDeTareas DEF En
<1>8. tarea[t].pid = Nadie
  BY <1>1 DEF PInv, TareaBien, PasosConPid, PasosPedir
<1> HIDE DEF t
<1>9. TareaBien(t)'
  BY <1>1, <1>4, <1>6, <1>7 DEF TareaBien, PasosConPid, PasosPedir, SinCrear, SinAtender
<1>10. EnNew(p)'
  <2>1. Pedida(p)'
    BY <1>1, <1>7 DEF Pedida
  <2>2. QED
    BY <1>1, <1>2, <1>3, <1>4, <1>5, <1>7, <2>1 DEF EnNew, SinCrear
<1>11. \A x \in Pids : x # p => MismasListas(x) /\ hilos'[x] = hilos[x] /\ fase'[x] = fase[x]
  <2>1. \A x \in Pids : x # p => (creados < x <=> creados' < x) /\ (x <= creados <=> x <= creados')
    BY <1>1, <1>2, <1>3, NumerosDePids
  <2>2. QED
    BY <1>1, <1>5, <2>1 DEF MismasListas
<1>12. \A x \in Pids : x = t \/ x = tarea[t].pid \/ x = p => Etapa(x)'
  <2>1. \A x \in Pids : x = p => Etapa(x)'
    BY <1>10 DEF Etapa
  <2>2. QED
    BY <1>1, <1>8, <2>1
<1>13. (\A u \in Tareas : TareaBien(u)') /\ (\A x \in Pids : Etapa(x)')
  BY <1>1, <1>3, <1>9, <1>11, <1>12, PideUno
<1>14. QED
  BY <1>1, <1>6, <1>13 DEF PInv, CreacionEsperada

\* The finalizer of p takes a step without asking for a process: others may ask meanwhile.
LEMMA PasoFin ==
  ASSUME OInv, PInv, NEW p \in Pids, NEW k, tarea' = [tarea EXCEPT ![p] = En(k, Nadie)],
         tarea[p].paso \notin PasosConPid, k \notin PasosConPid, k # "perdido", ~Pedida(p),
         UNCHANGED <<hilos, rta, creacion, caido>>, IsInjective(enMemoria'), IsInjective(salidos'),
         \A x \in Pids : x # p => MismasListas(x) /\ fase'[x] = fase[x],
         Etapa(p)'
  PROVE  PInv'
<1>1. /\ p \in Tareas /\ p # Nadie /\ p # Manejador
      /\ tarea'[p].paso = k /\ tarea'[p].pid = Nadie /\ \A u \in Tareas \ {p} : tarea'[u] = tarea[u]
  BY TiposDeTareas DEF En
<1>2. tarea[p].pid = Nadie
  BY <1>1 DEF PInv, TareaBien
<1>3. ASSUME NEW x \in Pids, x # p PROVE Etapa(x)'
  <2>1. x # Nadie /\ x # tarea[p].pid
    BY <1>2, TiposDeTareas
  <2>2. MismasListas(x) /\ hilos'[x] = hilos[x] /\ fase'[x] = fase[x]
    BY <1>3
  <2>3. p \in Tareas
    BY <1>1
  <2>4. QED
    BY <1>3, <2>1, <2>2, <2>3, OtroProceso
<1>4. ASSUME NEW u \in Tareas, u # p PROVE TareaBien(u)'
  <2>1. CASE tarea[u].paso \notin PasosConPid
    BY <1>1, <1>4, <2>1, OtraTarea
  <2>2. CASE tarea[u].paso \in PasosConPid
    <3>1. PICK q \in Pids : q = tarea[u].pid
      BY <2>2, PideDeNew
    <3>2. q # p /\ fase'[q] = fase[q]
      BY <1>4, <3>1 DEF Pedida
    <3>3. TareaBien(u)
      BY DEF PInv
    <3>4. tarea'[u] = tarea[u] /\ tarea'[u].pid = q
      BY <1>1, <1>4, <3>1
    <3>5. QED
      BY <3>1, <3>2, <3>3, <3>4 DEF TareaBien, EnCurso
  <2>3. QED
    BY <2>1, <2>2
<1>5. TareaBien(p)'
  BY <1>1 DEF TareaBien, PasosConPid, PasosPedir
<1>6. CreacionEsperada'
  <2>1. SUFFICES ASSUME creacion # Nada PROVE \E u \in Tareas : tarea'[u] = En("esperar", creacion.pid)
    BY DEF CreacionEsperada
  <2>2. PICK u \in Tareas : tarea[u] = En("esperar", creacion.pid)
    BY <2>1 DEF PInv, CreacionEsperada
  <2>3. u # p
    BY <2>2 DEF En, PasosConPid, PasosPedir
  <2>4. QED
    BY <1>1, <2>2, <2>3
<1>7. QED
  BY <1>3, <1>4, <1>5, <1>6 DEF PInv

\* Only a process in lista_pcb_enMemoria is ended.
LEMMA PasoPedirFin ==
  ASSUME UnoPorVez, OInv, PInv, NEW p \in Pids, PedirFin(p)
  PROVE  PInv'
<1>1. /\ tarea[p].paso = "libre" /\ tarea[p].paso \notin PasosConPid /\ p \in Range(enMemoria)
      /\ tarea' = [tarea EXCEPT ![p] = En("avisar", Nadie)]
      /\ UNCHANGED <<nuevos, enMemoria, salidos, listas, creados, hilos, fase, creacion, rta, caido>>
  BY DEF PedirFin, Esta, Va, PasosConPid, PasosPedir, listas, memoria
<1>2. Dentro(p) /\ fase[p] = "vivo"
  BY <1>1 DEF PInv, Etapa, SinCrear, EnNew, Entrando, Dentro, Saliendo, Fuera, FaseDe
<1>3. ~Pedida(p) /\ p # Nadie
  BY <1>2, TiposDeTareas DEF Dentro
<1>4. \A x \in Pids : MismasListas(x)
  BY <1>1, ListasIguales
<1>5. Dentro(p)'
  BY <1>1, <1>2, <1>3, <1>4, SigueDentro
<1>6. QED
  BY <1>1, <1>3, <1>4, <1>5, PasoFin DEF PInv, Etapa, PasosConPid, PasosPedir

\* Memoria is asked to free the process.
LEMMA PasoAvisarFin ==
  ASSUME OInv, PInv, MP!TInv, NEW p \in Pids, AvisarFin(p)
  PROVE  PInv'
<1>1. /\ tarea[p].paso = "avisar" /\ tarea[p].paso \notin PasosConPid
      /\ tarea' = [tarea EXCEPT ![p] = En("liberando", Nadie)]
      /\ UNCHANGED <<nuevos, enMemoria, salidos, listas, creados, hilos, creacion, rta, caido>>
      /\ fase' = [fase EXCEPT ![p] = "liberar"]
  BY DEF AvisarFin, Esta, Va, PasosConPid, PasosPedir, listas, M!PedirFinalizacion
<1>2. Dentro(p) /\ ~Pedida(p) /\ p # Nadie
  BY <1>1, FinalizaDentro, TiposDeTareas DEF Dentro
<1>3. fase'[p] = "liberar" /\ \A x \in Pids : x # p => fase'[x] = fase[x]
  BY <1>1, TiposDeMemoria
<1>4. \A x \in Pids : MismasListas(x)
  BY <1>1, ListasIguales
<1>5. Dentro(p)'
  BY <1>1, <1>2, <1>3, <1>4, SigueDentro
<1>6. QED
  BY <1>1, <1>2, <1>3, <1>4, <1>5, PasoFin DEF PInv, Etapa, PasosConPid, PasosPedir

\* The steps that leave the lists and Memoria alone and ask for no process.
LEMMA PasoFinal ==
  ASSUME OInv, PInv, NEW p \in Pids,
         RecibirFin(p) \/ Replanificar(p) \/ (MirarNew(p) /\ Va(p, "quitar", Nadie))
  PROVE  PInv'
<1>1. PICK k \in {"replanificar", "mirar", "quitar"} : tarea' = [tarea EXCEPT ![p] = En(k, Nadie)]
  BY DEF RecibirFin, Replanificar, Va
<1>2. /\ tarea[p].paso \in {"liberando", "replanificar", "mirar"} /\ tarea[p].paso \notin PasosConPid
      /\ tarea[p].paso = "liberando" => fase[p] = "finalizado"
      /\ UNCHANGED <<nuevos, enMemoria, salidos, listas, creados, hilos, fase, creacion, rta, caido>>
  BY DEF RecibirFin, Replanificar, MirarNew, Esta, Va, PasosConPid, PasosPedir, listas, memoria
<1>3. Dentro(p) /\ ~Pedida(p) /\ p # Nadie
  BY <1>2, FinalizaDentro, TiposDeTareas DEF Dentro
<1>4. fase[p] = "finalizado"
  BY <1>2, <1>3 DEF Dentro, FaseDe
<1>5. \A x \in Pids : MismasListas(x)
  BY <1>2, ListasIguales
<1>6. Dentro(p)'
  BY <1>1, <1>2, <1>3, <1>4, <1>5, SigueDentro
<1>7. QED
  BY <1>1, <1>2, <1>3, <1>5, <1>6, PasoFin DEF PInv, Etapa, PasosConPid, PasosPedir

\* A finalizer asks for the first of NEW.
LEMMA PasoMirar ==
  ASSUME OInv, PInv, NEW p \in Pids, MirarNew(p)
  PROVE  PInv'
<1>1. /\ tarea[p].paso = "mirar" /\ tarea[p].paso \in PasosPedir
      /\ UNCHANGED <<nuevos, enMemoria, salidos, listas, creados, hilos, fase, creacion, rta, caido>>
  BY DEF MirarNew, Esta, PasosPedir, listas, memoria
<1>2. CASE Va(p, "quitar", Nadie)
  BY <1>2, PasoFinal
<1>3. ASSUME NEW q \in PrimerNuevo, Va(p, "pedir", q) PROVE PInv'
  <2>1. q \in Pids /\ q \in Range(nuevos)
    BY LosDeNew DEF PrimerNuevo, OInv, Range
  <2>2. Dentro(p) /\ fase[p] = "finalizado" /\ p \in Tareas /\ p # Manejador /\ q # Nadie
    BY <1>1, <2>1, FinalizaDentro, TiposDeTareas DEF Dentro, FaseDe
  <2>3. \A u \in Tareas \ {p} : tarea[u].paso \notin PasosPedir
    BY <1>1, <2>2 DEF OInv, UnoPide
  <2>4. creacion = Nada
    BY <1>1, <2>2, <2>3, SinCreacion
  <2>5. \A u \in Tareas : tarea[u].pid = Nadie
    <3>1. \A u \in Tareas : tarea[u].paso \notin PasosConPid
      BY <1>1, <2>3 DEF PasosConPid
    <3>2. QED
      BY <3>1 DEF PInv, TareaBien
  <2>6. EnNew(q) /\ hilos[q] = 0 /\ fase[q] \in SinAtender /\ q # p
    <3>1. EnNew(q)
      BY <2>1 DEF PInv, Etapa, SinCrear, Entrando, Dentro, Saliendo, Fuera
    <3>2. ~Pedida(q)
      BY <2>2, <2>5 DEF Pedida
    <3>3. QED
      BY <2>2, <3>1, <3>2 DEF EnNew, Dentro
  <2>7. \A x \in Pids : MismasListas(x)
    BY <1>1, ListasIguales
  <2>8. tarea' = [tarea EXCEPT ![p] = En("pedir", q)]
    BY <1>3 DEF Va
  <2>9. tarea'[p].paso = "pedir" /\ tarea'[p].pid = q
    BY <2>2, <2>8, TiposDeTareas DEF En
  <2>10. TareaBien(p)'
    BY <1>1, <2>2, <2>4, <2>6, <2>9 DEF TareaBien, PasosConPid, PasosPedir
  <2>11. Etapa(p)'
    <3>1. Dentro(p)'
      BY <1>1, <2>2, <2>6, <2>7, <2>8, SigueDentro
    <3>2. QED
      BY <3>1 DEF Etapa
  <2>12. Etapa(q)'
    BY <2>1, <2>2, <2>6, <2>7, <2>8, SigueEnNew
  <2>13. \A x \in Pids : x = p \/ x = tarea[p].pid \/ x = q => Etapa(x)'
    <3>1. \A x \in Pids : x = p => Etapa(x)'
      BY <2>11
    <3>2. \A x \in Pids : x = q => Etapa(x)'
      BY <2>12
    <3>3. tarea[p].pid \notin Pids
      BY <2>2, <2>5, TiposDeTareas
    <3>4. QED
      BY <3>1, <3>2, <3>3
  <2>14. (\A u \in Tareas : TareaBien(u)') /\ (\A x \in Pids : Etapa(x)')
    BY <1>1, <2>2, <2>3, <2>7, <2>8, <2>10, <2>13, PideUno
  <2>15. QED
    BY <1>1, <2>4, <2>14 DEF PInv, CreacionEsperada
<1>4. QED
  BY <1>2, <1>3 DEF MirarNew

\* The process ended leaves lista_pcb_enMemoria.
LEMMA PasoQuitar ==
  ASSUME OInv, PInv, NEW p \in Pids, QuitarDeMemoria(p)
  PROVE  PInv'
<1>1. /\ tarea[p].paso = "quitar" /\ tarea[p].paso \notin PasosConPid
      /\ tarea' = [tarea EXCEPT ![p] = En("salir", Nadie)] /\ enMemoria' = RemoveFirst(enMemoria, p)
      /\ UNCHANGED <<nuevos, salidos, creados, hilos, fase, creacion, rta, caido>>
      /\ enMemoria \in Seq(Pids)
  BY DEF QuitarDeMemoria, Esta, Va, PasosConPid, PasosPedir, memoria, OInv, Tipos
<1>2. Dentro(p) /\ fase[p] = "finalizado" /\ ~Pedida(p) /\ p # Nadie
  BY <1>1, FinalizaDentro, TiposDeTareas DEF Dentro, FaseDe
<1>3. Range(enMemoria') = Range(enMemoria) \ {p} /\ IsInjective(enMemoria')
  BY <1>1, SacaUno DEF PInv
<1>4. \A x \in Pids : x # p => MismasListas(x)
  BY <1>1, <1>3 DEF MismasListas
<1>5. /\ tarea'[p].paso = "salir" /\ tarea'[p].pid = Nadie
      /\ \A u \in Tareas \ {p} : tarea'[u] = tarea[u]
  BY <1>1, TiposDeTareas DEF En
<1>6. Saliendo(p)'
  <2>1. ~Pedida(p)'
    BY <1>2, <1>5 DEF Pedida
  <2>2. QED
    BY <1>1, <1>2, <1>3, <1>5, <2>1 DEF Saliendo, Dentro
<1>7. QED
  BY <1>1, <1>2, <1>3, <1>4, <1>6, PasoFin DEF PInv, Etapa, PasosConPid, PasosPedir

\* It goes to lista_pcb_exit.
LEMMA PasoSalir ==
  ASSUME OInv, PInv, TiposKernel, NEW p \in Pids, AgregarASalidos(p)
  PROVE  PInv'
<1>1. /\ tarea[p].paso = "salir" /\ tarea[p].paso \notin PasosConPid
      /\ tarea' = [tarea EXCEPT ![p] = En("libre", Nadie)] /\ salidos' = Append(salidos, p)
      /\ UNCHANGED <<nuevos, enMemoria, creados, hilos, fase, creacion, rta, caido>>
      /\ salidos \in Seq(Pids)
  BY DEF AgregarASalidos, Esta, Libre, PasosConPid, PasosPedir, memoria, TiposKernel
<1>2. Saliendo(p) /\ ~Pedida(p) /\ p # Nadie
  BY <1>1, FinalizaDentro, TiposDeTareas DEF Saliendo
<1>3. Range(salidos') = Range(salidos) \cup {p} /\ IsInjective(salidos')
  BY <1>1, <1>2, AgregaUno DEF PInv, Saliendo
<1>4. \A x \in Pids : x # p => MismasListas(x)
  BY <1>1, <1>3 DEF MismasListas
<1>5. /\ tarea'[p] = Libre /\ tarea'[p].pid = Nadie
      /\ \A u \in Tareas \ {p} : tarea'[u] = tarea[u]
  BY <1>1, TiposDeTareas DEF En, Libre
<1>6. Fuera(p)'
  <2>1. ~Pedida(p)'
    BY <1>2, <1>5 DEF Pedida
  <2>2. QED
    BY <1>1, <1>2, <1>3, <1>5, <2>1 DEF Saliendo, Fuera
<1>7. QED
  BY <1>1, <1>2, <1>3, <1>4, <1>6, PasoFin DEF PInv, Etapa, PasosConPid, PasosPedir

\* Memoria moves by itself: the kernel stands still.
LEMMA MismaEtapa ==
  ASSUME NEW x \in Pids, Etapa(x), UNCHANGED <<tarea, listas, creados, hilos>>, fase'[x] = fase[x]
  PROVE  Etapa(x)'
<1>1. UNCHANGED <<tarea, nuevos, enMemoria, salidos, creados, hilos>>
  BY DEF listas
<1>2. Pedida(x)' <=> Pedida(x)
  BY <1>1 DEF Pedida
<1>3. FaseDe(x)' <=> FaseDe(x)
  BY <1>1 DEF FaseDe
<1>4. QED
  BY <1>1, <1>2, <1>3 DEF Etapa, SinCrear, EnNew, Entrando, Dentro, Saliendo, Fuera

\* The process of the creation under way lives; whoever asked for it waits for the answer.
LEMMA PasoCreaMemoria ==
  ASSUME OInv, PInv, MP!TInv, MemoriaSigue, M!CrearProceso
  PROVE  PInv'
<1>1. /\ creacion # Nada /\ creacion' = Nada /\ fase' = [fase EXCEPT ![creacion.pid] = "vivo"]
      /\ UNCHANGED <<nuevos, enMemoria, salidos, tarea, listas, creados, hilos, rta, caido>>
  BY DEF MemoriaSigue, M!CrearProceso, listas
<1>2. PICK q \in Pids : q = creacion.pid
  BY <1>1, TiposDeMemoria
<1>3. fase'[q] = "vivo" /\ \A x \in Pids : x # q => fase'[x] = fase[x]
  BY <1>1, <1>2, TiposDeMemoria
<1>4. PICK u \in Tareas : tarea[u] = En("esperar", q)
  BY <1>1, <1>2 DEF PInv, CreacionEsperada
<1>5. tarea[u].paso = "esperar" /\ tarea[u].pid = q /\ tarea[u].paso \in PasosConPid /\ tarea[u].paso \in PasosPedir
  BY <1>4 DEF En, PasosConPid, PasosPedir
<1>6. EnNew(q)
  BY <1>5, PideDeNew
<1>7. ASSUME NEW x \in Pids PROVE Etapa(x)'
  <2>1. CASE x # q
    <3>1. Etapa(x) /\ fase'[x] = fase[x]
      BY <1>3, <2>1 DEF PInv
    <3>2. QED
      BY <1>1, <3>1, MismaEtapa
  <2>2. CASE x = q
    <3>1. Pedida(x)'
      BY <1>1, <1>5, <2>2 DEF Pedida
    <3>2. EnNew(x)'
      BY <1>1, <1>6, <2>2, <3>1 DEF EnNew
    <3>3. QED
      BY <3>2 DEF Etapa
  <2>3. QED
    BY <2>1, <2>2
<1>8. ASSUME NEW w \in Tareas PROVE TareaBien(w)'
  <2>1. CASE w = u
    <3>1. TareaBien(u) /\ tarea'[u] = tarea[u]
      BY <1>1 DEF PInv
    <3>2. QED
      BY <1>1, <1>3, <1>5, <2>1, <3>1 DEF TareaBien
  <2>2. CASE w # u
    <3>1. tarea[w].paso \notin PasosConPid /\ tarea'[w] = tarea[w]
      BY <1>1, <1>5, <2>2, UnoConPid DEF PasosConPid
    <3>2. QED
      BY <3>1, OtraTarea
  <2>3. QED
    BY <2>1, <2>2
<1>9. QED
  BY <1>1, <1>7, <1>8 DEF PInv, CreacionEsperada

\* The end of a process goes on: its finalizer waits for the answer.
LEMMA QuienLibera ==
  ASSUME OInv, PInv, NEW p \in Pids, fase[p] \in {"liberar", "quitar", "ordenar", "unificar"}
  PROVE  Dentro(p) /\ tarea[p].paso = "liberando"
<1>1. ~Pedida(p)
  <2>1. SUFFICES ASSUME NEW t \in Tareas, tarea[t].pid = p PROVE FALSE
    BY DEF Pedida
  <2>2. tarea[t].paso \in PasosConPid
    BY <2>1, TiposDeTareas DEF PInv, TareaBien
  <2>3. fase[p] \in {"nuevo", "rechazado", "vivo"}
    BY <2>1, <2>2 DEF PInv, TareaBien, PasosConPid, PasosPedir, SinAtender
  <2>4. QED
    BY <2>3
<1>2. ~Entrando(p)
  BY <1>1 DEF Entrando, Pedida, En
<1>3. Dentro(p)
  BY <1>1, <1>2 DEF PInv, Etapa, SinCrear, EnNew, Saliendo, Fuera, SinAtender
<1>4. QED
  BY <1>3 DEF Dentro, FaseDe

\* The steps of the end of p in Memoria, as the kernel sees them.
LEMMA EfectoFinalizacion ==
  ASSUME MP!TInv, NEW p \in Pids, M!Finalizacion(p)
  PROVE  /\ fase[p] \in {"liberar", "quitar", "ordenar", "unificar"}
         /\ fase'[p] \in {"quitar", "ordenar", "unificar", "finalizado"}
         /\ \A x \in Pids : x # p => fase'[x] = fase[x]
         /\ UNCHANGED creacion
<1>1. fase \in [Pids -> Fases]
  BY TiposDeMemoria
<1>2. QED
  BY <1>1 DEF M!Finalizacion, M!LiberarParticion, M!QuitarProceso, M!OrdenarParticiones, M!UnificarParticiones,
       M!FinalizarProceso

\* Memoria goes on with the end of a process.
LEMMA PasoTerminaMemoria ==
  ASSUME OInv, PInv, MP!TInv, MemoriaSigue, NEW p \in Pids, M!Finalizacion(p)
  PROVE  PInv'
<1>1. /\ fase[p] \in {"liberar", "quitar", "ordenar", "unificar"}
      /\ fase'[p] \in {"quitar", "ordenar", "unificar", "finalizado"}
      /\ \A x \in Pids : x # p => fase'[x] = fase[x]
      /\ UNCHANGED creacion
  BY EfectoFinalizacion
<1>2. UNCHANGED <<nuevos, enMemoria, salidos, tarea, listas, creados, hilos, rta, caido>>
  BY DEF MemoriaSigue, listas
<1>3. Dentro(p) /\ tarea[p].paso = "liberando" /\ ~Pedida(p)
  BY <1>1, QuienLibera DEF Dentro
<1>4. ASSUME NEW x \in Pids PROVE Etapa(x)'
  <2>1. CASE x # p
    <3>1. Etapa(x) /\ fase'[x] = fase[x]
      BY <1>1, <2>1 DEF PInv
    <3>2. QED
      BY <1>2, <3>1, MismaEtapa
  <2>2. CASE x = p
    <3>1. ~Pedida(x)'
      BY <1>2, <1>3, <2>2 DEF Pedida
    <3>2. Dentro(x)'
      BY <1>1, <1>2, <1>3, <2>2, <3>1 DEF Dentro, FaseDe
    <3>3. QED
      BY <3>2 DEF Etapa
  <2>3. QED
    BY <2>1, <2>2
<1>5. ASSUME NEW u \in Tareas PROVE TareaBien(u)'
  <2>1. CASE tarea[u].paso \notin PasosConPid
    BY <1>2, <2>1, OtraTarea
  <2>2. CASE tarea[u].paso \in PasosConPid
    <3>1. PICK q \in Pids : q = tarea[u].pid
      BY <2>2, PideDeNew
    <3>2. q # p /\ fase'[q] = fase[q]
      BY <1>1, <1>3, <3>1 DEF Pedida
    <3>3. TareaBien(u)
      BY DEF PInv
    <3>4. QED
      BY <1>1, <1>2, <3>1, <3>2, <3>3 DEF TareaBien, EnCurso
  <2>3. QED
    BY <2>1, <2>2
<1>6. QED
  BY <1>1, <1>2, <1>4, <1>5 DEF PInv, CreacionEsperada

\* Nothing moves.
LEMMA PasoQuieto ==
  ASSUME PInv, UNCHANGED vars
  PROVE  PInv'
<1>1. UNCHANGED <<nuevos, enMemoria, salidos, tarea, listas, creados, hilos, rta, caido, creacion, fase>>
  BY DEF vars, listas, memoria
<1>2. \A x \in Pids : Etapa(x)'
  BY <1>1, MismaEtapa DEF PInv
<1>3. \A u \in Tareas : TareaBien(u)'
  BY <1>1 DEF PInv, TareaBien, EnCurso
<1>4. QED
  BY <1>1, <1>2, <1>3 DEF PInv, CreacionEsperada

-----------------------------------------------------------------------------
\* Memoria has a process in its list only from its creation to its end.
RegistroMientrasVive == \A p \in Pids : procesos[p] # Nada => fase[p] \in {"vivo", "liberar", "quitar"}

\* Memoria records a process when it is created and removes it when it ends.
LEMMA PasoRegistro ==
  ASSUME OInv, TiposKernel, MP!TInv, RegistroMientrasVive, [Next]_vars
  PROVE  RegistroMientrasVive'
<1>1. /\ fase \in [Pids -> Fases] /\ procesos \in [Pids -> MP!Registro \cup {Nada}]
      /\ creacion # Nada => creacion.pid \in Pids
  BY TiposDeMemoria DEF MP!TInv, MP!TypeOK
<1>2. ASSUME NEW p \in Pids, NEW n, MP!BuscarHueco(p, n) PROVE RegistroMientrasVive'
  BY <1>1, <1>2 DEF MP!BuscarHueco, RegistroMientrasVive
<1>3. ASSUME MP!CrearProceso PROVE RegistroMientrasVive'
  <2>1. PICK q \in Pids : q = creacion.pid
    BY <1>1, <1>3 DEF MP!CrearProceso
  <2>2. fase'[q] = "vivo" /\ \A x \in Pids : x # q => fase'[x] = fase[x] /\ procesos'[x] = procesos[x]
    BY <1>1, <1>3, <2>1 DEF MP!CrearProceso, MP!CrearLiberada, MP!CrearEn
  <2>3. QED
    BY <2>2 DEF RegistroMientrasVive
<1>4. ASSUME NEW p \in Pids, MP!PedirFinalizacion(p) PROVE RegistroMientrasVive'
  BY <1>1, <1>4 DEF MP!PedirFinalizacion, RegistroMientrasVive
<1>5. ASSUME NEW p \in Pids, MP!Finalizacion(p) PROVE RegistroMientrasVive'
  BY <1>1, <1>5 DEF MP!Finalizacion, MP!LiberarParticion, MP!QuitarProceso, MP!OrdenarParticiones, MP!UnificarParticiones,
     MP!FinalizarProceso, RegistroMientrasVive
<1>6. ASSUME NEW p \in Pids, MP!VolcarMemoria(p) \/ \E dir \in {} : MP!EscribirMemoria(p, dir) PROVE RegistroMientrasVive'
  BY <1>1, <1>6 DEF MP!VolcarMemoria, RegistroMientrasVive
<1>7. CASE UNCHANGED memoria
  BY <1>7 DEF memoria, RegistroMientrasVive
<1>8. QED
  BY <1>2, <1>3, <1>4, <1>5, <1>6, <1>7, PasoDeMemoria DEF MP!Next

\* The sizes, the threads created and lista_pcb_exit keep their types.
LEMMA PasoTiposKernel ==
  ASSUME OInv, PInv, TiposKernel, [Next]_vars
  PROVE  TiposKernel'
<1>1. tarea \in [Tareas -> [paso : Pasos, pid : Pids \cup {Nadie}]] /\ creados \in Nat
  BY ProcesosAssumption DEF OInv, Tipos
<1>2. CASE CrearPcb
  <2>1. creados + 1 \in Pids /\ creados' = creados + 1 /\ UNCHANGED <<hilos, salidos>>
    BY <1>1, <1>2, ProcesosAssumption DEF CrearPcb, Pids, OInv, Tipos
  <2>2. PICK n \in Tamanios : tamanio' = [tamanio EXCEPT ![creados + 1] = n]
    BY <1>2 DEF CrearPcb
  <2>3. \A p \in 1 .. creados' : p \in Pids /\ (p \in 1 .. creados \/ p = creados + 1)
    BY <1>1, <2>1, ProcesosAssumption DEF Pids
  <2>4. QED
    BY <2>1, <2>2, <2>3 DEF TiposKernel
<1>3. ASSUME NEW t \in Tareas, CrearHilo(t) PROVE TiposKernel'
  <2>1. tarea[t].paso \in PasosConPid
    BY <1>3 DEF CrearHilo, Esta, PasosConPid, PasosPedir
  <2>2. UNCHANGED <<creados, tamanio, salidos>> /\ hilos' = [hilos EXCEPT ![tarea[t].pid] = @ + 1]
    BY <1>3 DEF CrearHilo, listas
  <2>3. hilos' \in [Pids -> Nat]
    BY <2>1, <2>2, PideDeNew DEF TiposKernel
  <2>4. QED
    BY <2>2, <2>3 DEF TiposKernel
<1>4. ASSUME NEW p \in Pids, AgregarASalidos(p) PROVE TiposKernel'
  BY <1>4, AppendProperties DEF AgregarASalidos, TiposKernel
<1>5. ASSUME NEW t \in Tareas, Preguntar(t), ~CrearHilo(t) PROVE UNCHANGED <<creados, tamanio, hilos, salidos>>
  BY <1>5 DEF Preguntar, Pedir, Recibir, Leer, SacarDeNew, AgregarEnMemoria, listas
<1>6. ASSUME NEW p \in Pids, PedirFin(p) \/ Finalizar(p), ~AgregarASalidos(p) PROVE UNCHANGED <<creados, tamanio, hilos, salidos>>
  BY <1>6 DEF PedirFin, Finalizar, AvisarFin, RecibirFin, Replanificar, MirarNew, QuitarDeMemoria, listas
<1>7. ASSUME Contar \/ MemoriaSigue \/ UNCHANGED vars PROVE UNCHANGED <<creados, tamanio, hilos, salidos>>
  BY <1>7 DEF Contar, MemoriaSigue, vars, listas
<1>8. CASE UNCHANGED <<creados, tamanio, hilos, salidos>>
  BY <1>8 DEF TiposKernel
<1>9. QED
  BY <1>2, <1>3, <1>4, <1>5, <1>6, <1>7, <1>8 DEF Next

\* Every step of the composition keeps the stage of every process.
LEMMA PasoProcesos ==
  ASSUME UnoPorVez, OInv, PInv, TiposKernel, MP!TInv, [Next]_vars
  PROVE  PInv'
<1>1. ASSUME NEW t \in Tareas, Preguntar(t) PROVE PInv'
  BY <1>1, PasoPedir, PasoRecibir, PasoLeer, PasoCrearHilo, PasoSacar, PasoAgregar DEF Preguntar
<1>2. ASSUME NEW p \in Pids, PedirFin(p) \/ Finalizar(p) PROVE PInv'
  BY <1>2, PasoPedirFin, PasoAvisarFin, PasoFinal, PasoMirar, PasoQuitar, PasoSalir DEF Finalizar
<1>3. CASE MemoriaSigue
  BY <1>3, PasoCreaMemoria, PasoTerminaMemoria DEF MemoriaSigue
<1>4. QED
  BY <1>1, <1>2, <1>3, PasoCrear, PasoContar, PasoQuieto DEF Next

\* At the start no process is created.
LEMMA ProcesosAlInicio ==
  ASSUME Init
  PROVE  PInv /\ TiposKernel /\ RegistroMientrasVive
<1>1. /\ nuevos = <<>> /\ enMemoria = <<>> /\ salidos = <<>> /\ creados = 0 /\ ~caido /\ creacion = Nada
      /\ tamanio = [p \in Pids |-> 0] /\ hilos = [p \in Pids |-> 0]
      /\ tarea = [t \in Tareas |-> Libre]
      /\ fase = [p \in Pids |-> "nuevo"] /\ procesos = [p \in Pids |-> Nada]
  BY DEF Init, M!Init
<1>2. Range(<<>>) = {} /\ IsInjective(<<>>)
  BY VacioElementos DEF Range, ToSet
<1>3. 1 .. 0 = {} /\ \A p \in Pids : 0 < p /\ p # Nadie
  BY NumerosDePids
<1>4. \A t \in Tareas : tarea[t].paso = "libre" /\ tarea[t].pid = Nadie
  BY <1>1 DEF Libre, En
<1>5. \A t \in Tareas : TareaBien(t)
  BY <1>4 DEF TareaBien, PasosConPid, PasosPedir
<1>6. \A p \in Pids : SinCrear(p)
  BY <1>1, <1>2, <1>3, <1>4 DEF SinCrear, Pedida, Tareas
<1>7. TiposKernel
  BY <1>1, <1>3, EmptySeq DEF TiposKernel
<1>8. QED
  BY <1>1, <1>2, <1>5, <1>6, <1>7 DEF PInv, Etapa, CreacionEsperada, RegistroMientrasVive

\* The kernel and the tables of Memoria, together.
KInv == OInv /\ PInv /\ TiposKernel /\ MP!TInv /\ RegistroMientrasVive

\* The invariants of the kernel and of Memoria rest on each other.
LEMMA PasoKInv ==
  ASSUME UnoPorVez, KInv, [Next]_vars
  PROVE  KInv'
  BY PasoOrden, PasoProcesos, PasoTiposKernel, MemoriaSigueBien, PasoRegistro DEF KInv

\* They hold in every state, with either scheme.
LEMMA KInvSiempre ==
  ASSUME UnoPorVez
  PROVE  Spec => []KInv
<1>1. Init => KInv
  BY OrdenInicial, ProcesosAlInicio, MemoriaInicia DEF KInv
<1>2. QED
  BY <1>1, PasoKInv, PTL DEF Spec

\* At rest the stage of a process says where it is and whether Memoria has it.
LEMMA AcuerdoDe ==
  ASSUME KInv, MP!SInv
  PROVE  MemoriaDeAcuerdo
<1> DEFINE todos == nuevos \o enMemoria \o salidos
<1>0. /\ nuevos \in Seq(Pids) /\ enMemoria \in Seq(Pids) /\ salidos \in Seq(Pids)
      /\ IsInjective(nuevos) /\ IsInjective(enMemoria) /\ IsInjective(salidos)
  BY NewInyectiva DEF KInv, OInv, Tipos, PInv, TiposKernel
<1>1. /\ Range(nuevos) \subseteq Pids /\ Range(enMemoria) \subseteq Pids /\ Range(salidos) \subseteq Pids
  BY <1>0, RangoDeSeq
<1>2. \A p \in Pids : Etapa(p)
  BY DEF KInv, PInv
<1>3. /\ Range(nuevos) \cap Range(enMemoria) = {}
      /\ (Range(nuevos) \cup Range(enMemoria)) \cap Range(salidos) = {}
  BY <1>1, <1>2 DEF Etapa, SinCrear, EnNew, Entrando, Dentro, Saliendo, Fuera
<1>4. Range(todos) = Range(nuevos) \cup Range(enMemoria) \cup Range(salidos) /\ IsInjective(todos)
  <2> DEFINE ambas == nuevos \o enMemoria
  <2>1. /\ ambas \in Seq(Pids) /\ IsInjective(ambas)
        /\ Range(ambas) = Range(nuevos) \cup Range(enMemoria)
    BY <1>0, <1>3, Concatenadas
  <2>2. todos = ambas \o salidos
    OBVIOUS
  <2> HIDE DEF todos, ambas
  <2>3. Range(ambas) \cap Range(salidos) = {}
    BY <1>3, <2>1
  <2>4. Range(ambas \o salidos) = Range(ambas) \cup Range(salidos) /\ IsInjective(ambas \o salidos)
    BY <1>0, <2>1, <2>3, Concatenadas
  <2>5. QED
    BY <2>1, <2>2, <2>4
<1>5. ASSUME NEW p \in 1 .. creados, Quieto(p)
      PROVE  /\ p \in Range(todos)
             /\ p \in Range(enMemoria) <=> procesos[p] # Nada
             /\ p \in Range(nuevos) <=> hilos[p] = 0
             /\ p \in Range(enMemoria) <=> \E i \in DOMAIN particiones : particiones[i].ocupada /\ particiones[i].proceso = p
  <2>1. p \in Pids /\ p <= creados /\ ~(creados < p)
    BY ProcesosAssumption DEF KInv, OInv, Tipos, Pids
  <2>2. ~Pedida(p) /\ tarea[p] = Libre /\ tarea[p].paso = "libre"
    BY <1>5, <2>1 DEF Quieto, Pedida, Libre, En
  <2>3. ~Entrando(p)
    BY <2>2 DEF Entrando, Pedida, En
  <2>4. EnNew(p) \/ Dentro(p) \/ Fuera(p)
    BY <1>2, <2>1, <2>2, <2>3 DEF Etapa, SinCrear, Saliendo
  <2>5. /\ p \in Range(nuevos) \/ p \in Range(enMemoria) \/ p \in Range(salidos)
        /\ p \in Range(enMemoria) <=> fase[p] = "vivo"
        /\ fase[p] \in {"nuevo", "rechazado", "vivo", "finalizado"}
        /\ p \in Range(nuevos) <=> hilos[p] = 0
    BY <2>2, <2>4 DEF EnNew, Dentro, Fuera, FaseDe, SinAtender
  <2>6. fase[p] = "vivo" <=> procesos[p] # Nada
    BY <2>1, <2>5, TiposDeMemoria DEF KInv, RegistroMientrasVive
  <2>7. fase[p] = "vivo" <=> \E i \in DOMAIN particiones : particiones[i].ocupada /\ particiones[i].proceso = p
    BY <2>1, <2>5 DEF MP!SInv, MP!Duenios, MP!EsDe, MP!ConMemoria
  <2>8. QED
    BY <1>4, <2>5, <2>6, <2>7
<1> HIDE DEF todos
<1>6. ~caido /\ ~indefinido
  BY DEF KInv, PInv, MP!SInv
<1>7. QED
  BY <1>4, <1>5, <1>6 DEF MemoriaDeAcuerdo, todos

\* The lists of the kernel and the tables of Memoria agree on every process nobody is
\* handling, and no process is in two lists or twice in one, for any number of processes
\* and any fixed partitions: from crear_pcb to lista_pcb_exit the kernel moves each process
\* only after Memoria has answered (enviar_y_recibir_peticion_creacion_proceso,
\* avisar_a_memoria_para_liberar_estructuras_proceso).
THEOREM KernelYMemoriaDeAcuerdo ==
  ASSUME UnoPorVez, ESQUEMA = "FIJAS"
  PROVE  Spec => []MemoriaDeAcuerdo
<1>1. Init => MP!SInv
  BY MemoriaInicia
<1>2. KInv /\ MP!SInv /\ [Next]_vars => MP!SInv'
  BY MemoriaSigueConDuenios DEF KInv
<1>3. KInv /\ MP!SInv => MemoriaDeAcuerdo
  BY AcuerdoDe
<1>4. QED
  BY <1>1, <1>2, <1>3, KInvSiempre, PTL DEF Spec

-----------------------------------------------------------------------------
(* Who will look at NEW while its first process fits in a free partition. *)

\* Thread t goes on to look at NEW, or its admission is under way and it will afterwards.
Atiende(t) ==
  LET p == tarea[t].pid
      k == tarea[t].paso
  IN \/ k \in {"liberando", "replanificar", "mirar", "pedir", "crearHilo", "sacar"}
     \/ k = "contar" /\ Len(nuevos) = 1
     \/ k = "esperar" /\ (EnCurso(p) \/ fase[p] = "vivo")
     \/ k = "leer" /\ rta = "OK"
     \/ k = "agregar" /\ t # Manejador

EntraElPrimero == nuevos # <<>> /\ \E i \in DOMAIN particiones : MP!Sirve(particiones, i, tamanio[nuevos[1]])

\* The handler, which does not look at NEW again, asks only for a process that is alone in it.
ManejadorSolo ==
  /\ tarea[Manejador].paso \in PasosPrimero => Len(nuevos) = 1
  /\ tarea[Manejador].paso = "agregar" => nuevos = <<>>

NInv == (EntraElPrimero => \E t \in Tareas : Atiende(t)) /\ ManejadorSolo

\* A thread that stands still goes on to look at NEW.
LEMMA SigueAtendiendo ==
  ASSUME NEW u \in Tareas, tarea'[u] = tarea[u],
         UNCHANGED <<nuevos, creacion, fase, rta>> \/ tarea[u].paso \notin PasosPedir
  PROVE  Atiende(u) => Atiende(u)'
  BY DEF Atiende, EnCurso, PasosPedir

\* A step of t that leaves NEW and the partitions alone: if t was to look at NEW, it still is.
LEMMA OtrosAtienden ==
  ASSUME OInv, NInv, NEW t \in Tareas, NEW k, NEW q, tarea' = [tarea EXCEPT ![t] = En(k, q)],
         UNCHANGED <<nuevos, particiones, tamanio>>,
         UNCHANGED <<creacion, fase, rta>> \/ \A u \in Tareas \ {t} : tarea[u].paso \notin PasosPedir,
         Atiende(t) => Atiende(t)' \/ nuevos = <<>>,
         t = Manejador => /\ k \in PasosPrimero => Len(nuevos) = 1
                          /\ k = "agregar" => nuevos = <<>>
  PROVE  NInv'
<1>1. /\ tarea'[t].paso = k /\ \A u \in Tareas \ {t} : tarea'[u] = tarea[u]
      /\ Manejador \in Tareas
  BY TiposDeTareas DEF En
<1>2. EntraElPrimero' => EntraElPrimero
  BY DEF EntraElPrimero
<1>3. ASSUME EntraElPrimero PROVE \E u \in Tareas : Atiende(u)'
  <2>1. PICK u \in Tareas : Atiende(u)
    BY <1>3 DEF NInv
  <2>2. CASE u = t
    BY <1>3, <2>1, <2>2 DEF EntraElPrimero
  <2>3. CASE u # t
    BY <1>1, <2>1, <2>3, SigueAtendiendo
  <2>4. QED
    BY <2>2, <2>3
<1>4. ManejadorSolo'
  BY <1>1 DEF NInv, ManejadorSolo
<1>5. QED
  BY <1>2, <1>3, <1>4 DEF NInv

\* A process is added: if NEW was empty the handler is to ask for it.
LEMMA NadieEsperaCrear ==
  ASSUME UnoPorVez, KInv, NInv, CrearPcb
  PROVE  NInv'
<1>1. /\ \A u \in Tareas \ {Manejador} : tarea[u].paso \notin PasosPedir
      /\ tarea[Manejador].paso = "libre" /\ creados < MaxProcesos
      /\ UNCHANGED <<particiones, creacion, fase, rta>>
      /\ nuevos \in Seq(Pids) /\ creados \in Nat /\ creados \in 0 .. MaxProcesos
  BY ProcesosAssumption DEF CrearPcb, Esta, NadiePide, memoria, KInv, OInv, Tipos
<1>2. PICK p \in Pids : p = creados + 1
  BY <1>1, ProcesosAssumption DEF Pids
<1>3. /\ nuevos' = Append(nuevos, p) /\ tarea' = [tarea EXCEPT ![Manejador] = En("contar", p)]
      /\ \E n \in Tamanios : tamanio' = [tamanio EXCEPT ![p] = n]
  BY <1>2 DEF CrearPcb, Va
<1>4. /\ tarea'[Manejador].paso = "contar" /\ \A u \in Tareas \ {Manejador} : tarea'[u] = tarea[u]
      /\ Manejador \in Tareas
  BY <1>3, TiposDeTareas DEF En, KInv
<1>5. ManejadorSolo'
  BY <1>4 DEF ManejadorSolo, PasosPrimero
<1>6. CASE nuevos = <<>>
  <2>1. Len(nuevos') = 1
    BY <1>1, <1>3, <1>6, AppendProperties, EmptySeq
  <2>2. Atiende(Manejador)'
    BY <1>4, <2>1 DEF Atiende
  <2>3. QED
    BY <1>4, <1>5, <2>2 DEF NInv
<1>7. CASE nuevos # <<>>
  <2>1. /\ nuevos[1] \in Pids /\ nuevos[1] \in Nat /\ nuevos[1] <= creados /\ nuevos'[1] = nuevos[1]
    BY <1>1, <1>2, <1>3, <1>7, LosDeNew, AppendProperties DEF KInv, OInv, EnOrden
  <2>2. nuevos[1] # p
    BY <1>1, <1>2, <2>1
  <2>3. tamanio'[nuevos[1]] = tamanio[nuevos[1]]
    BY <1>3, <2>1, <2>2 DEF KInv, TiposKernel
  <2>4. EntraElPrimero' => EntraElPrimero
    BY <1>1, <1>7, <2>1, <2>3 DEF EntraElPrimero
  <2>5. ASSUME NEW u \in Tareas, Atiende(u) PROVE Atiende(u)'
    <3>1. u # Manejador
      BY <1>1, <2>5 DEF Atiende
    <3>2. QED
      BY <1>1, <1>4, <2>5, <3>1, SigueAtendiendo
  <2>6. QED
    BY <1>5, <2>4, <2>5 DEF NInv
<1>8. QED
  BY <1>6, <1>7

\* The handler does not ask if another process is before: somebody else is to.
LEMMA NadieEsperaContar ==
  ASSUME KInv, NInv, Contar
  PROVE  NInv'
<1>1. /\ tarea[Manejador].paso = "contar" /\ Manejador \in Tareas
      /\ UNCHANGED <<nuevos, particiones, tamanio, creacion, fase, rta>>
      /\ \/ Len(nuevos) = 1 /\ tarea' = [tarea EXCEPT ![Manejador] = En("pedir", tarea[Manejador].pid)]
         \/ Len(nuevos) # 1 /\ tarea' = [tarea EXCEPT ![Manejador] = En("libre", Nadie)]
  BY NumerosDePids DEF Contar, Esta, EstabaVacia, Va, Libre, listas, memoria
<1>2. CASE Len(nuevos) = 1 /\ tarea' = [tarea EXCEPT ![Manejador] = En("pedir", tarea[Manejador].pid)]
  <2>1. tarea'[Manejador].paso = "pedir"
    BY <1>1, <1>2, TiposDeTareas DEF En, KInv
  <2>2. Atiende(Manejador)'
    BY <2>1 DEF Atiende
  <2>3. QED
    BY <1>1, <1>2, <2>2, OtrosAtienden DEF KInv
<1>3. CASE Len(nuevos) # 1 /\ tarea' = [tarea EXCEPT ![Manejador] = En("libre", Nadie)]
  <2>1. ~Atiende(Manejador)
    BY <1>1, <1>3 DEF Atiende
  <2>2. QED
    BY <1>1, <1>3, <2>1, OtrosAtienden DEF KInv, PasosPrimero
<1>4. QED
  BY <1>1, <1>2, <1>3

\* Memoria refuses a process only if no free partition is as large.
LEMMA NadieEsperaPedir ==
  ASSUME KInv, NInv, NEW t \in Tareas, Pedir(t)
  PROVE  NInv'
<1>1. /\ tarea[t].paso = "pedir" /\ tarea[t].paso \in PasosConPid /\ tarea[t].paso \in PasosPrimero
      /\ UNCHANGED <<nuevos, tamanio, rta, particiones>>
  BY DEF Pedir, Esta, PasosConPid, PasosPedir, PasosPrimero, listas, M!BuscarHueco
<1>2. PICK p \in Pids : p = tarea[t].pid
  BY <1>1, AlPedir DEF KInv
<1>3. tarea' = [tarea EXCEPT ![t] = En("esperar", p)] /\ M!BuscarHueco(p, tamanio[p])
  BY <1>2 DEF Pedir, Va
<1>4. tarea'[t].paso = "esperar" /\ tarea'[t].pid = p
  BY <1>3, TiposDeTareas DEF En, KInv
<1>5. nuevos # <<>> /\ p = nuevos[1]
  BY <1>1, <1>2 DEF KInv, OInv, PidePrimero
<1>6. \A u \in Tareas \ {t} : tarea[u].paso \notin PasosPedir
  BY <1>1 DEF KInv, OInv, UnoPide, PasosConPid
<1>7. t = Manejador => Len(nuevos) = 1
  BY <1>1 DEF NInv, ManejadorSolo
<1>8. CASE M!Asignable(particiones, tamanio[p]) = {}
  <2>1. MP!Asignable(particiones, tamanio[p]) = {}
    BY <1>8 DEF M!Asignable, M!Sirve, M!Preferida, M!Mejor, MP!Asignable, MP!Sirve, MP!Preferida, MP!Mejor
  <2>2. particiones \in Seq(MP!Bloque)
    BY DEF KInv, MP!TInv, MP!TypeOK
  <2>3. ~EntraElPrimero
    BY <1>5, <2>1, <2>2, SupuestosDeMemoria, MP!AlgunaAsignable DEF EntraElPrimero
  <2>4. ~EntraElPrimero'
    BY <1>1, <2>3 DEF EntraElPrimero
  <2>5. ManejadorSolo'
    <3>1. \A u \in Tareas \ {t} : tarea'[u] = tarea[u]
      BY <1>3, TiposDeTareas DEF KInv
    <3>2. QED
      BY <1>1, <1>4, <1>7, <3>1, NumerosDePids DEF NInv, ManejadorSolo
  <2>6. QED
    BY <2>4, <2>5 DEF NInv
<1>9. CASE M!Asignable(particiones, tamanio[p]) # {}
  <2>1. creacion' # Nada /\ creacion'.pid = p
    <3>1. PICK i \in DOMAIN particiones :
            creacion' = [pid |-> p, tamanio |-> tamanio[p], particion |-> particiones[i].particion_id]
      BY <1>3, <1>9 DEF M!BuscarHueco, M!Asignable
    <3>2. MP!TInv'
      <4>1. [Next]_vars
        BY DEF Next, Preguntar
      <4>2. QED
        BY <4>1, MemoriaSigueBien DEF KInv
    <3>3. creacion' \in MP!Pedido \cup {Nada} /\ Nada \notin Pids \cup MP!Registro \cup MP!Pedido
      BY <3>2, SupuestosDeMemoria DEF MP!TInv, MP!TypeOK, MP!NadaAssumption
    <3>4. particiones[i] \in MP!Bloque /\ tamanio[p] \in Tamanios
      <4>1. particiones \in Seq(MP!Bloque)
        BY DEF KInv, MP!TInv, MP!TypeOK
      <4>2. EnNew(p)
        BY <1>1, <1>2, PideDeNew DEF KInv
      <4>3. p \in 1 .. creados
        BY <4>2, NumerosDePids DEF EnNew, KInv, OInv, Tipos
      <4>4. QED
        BY <4>1, <4>3, ElementOfSeq, LenProperties DEF KInv, TiposKernel
    <3>5. creacion' \in MP!Pedido
      BY <3>1, <3>4 DEF MP!Pedido, MP!Bloque
    <3>6. QED
      BY <3>1, <3>3, <3>5
  <2>2. Atiende(t)'
    BY <1>4, <2>1 DEF Atiende, EnCurso
  <2>3. QED
    BY <1>1, <1>3, <1>6, <1>7, <2>2, OtrosAtienden DEF KInv
<1>10. QED
  BY <1>8, <1>9

\* The answer, and what is done with it.
LEMMA NadieEsperaAceptado ==
  ASSUME KInv, NInv, NEW t \in Tareas, Recibir(t) \/ Leer(t) \/ CrearHilo(t)
  PROVE  NInv'
<1>1. /\ tarea[t].paso \in {"esperar", "leer", "crearHilo"}
      /\ tarea[t].paso \in PasosConPid /\ tarea[t].paso \in PasosPrimero
      /\ UNCHANGED <<nuevos, tamanio, particiones, creacion, fase>>
  BY DEF Recibir, Leer, CrearHilo, Esta, PasosConPid, PasosPedir, PasosPrimero, listas, memoria
<1>2. PICK p \in Pids : p = tarea[t].pid
  BY <1>1, AlPedir DEF KInv
<1>3. \A u \in Tareas \ {t} : tarea[u].paso \notin PasosPedir
  BY <1>1 DEF KInv, OInv, UnoPide, PasosConPid
<1>4. t = Manejador => Len(nuevos) = 1
  BY <1>1 DEF NInv, ManejadorSolo
<1>5. TareaBien(t)
  BY DEF KInv, PInv
<1>6. CASE Recibir(t)
  <2>1. /\ tarea[t].paso = "esperar" /\ ~EnCurso(p) /\ rta' = IF fase[p] = "rechazado" THEN "ERROR" ELSE "OK"
        /\ tarea' = [tarea EXCEPT ![t] = En("leer", p)]
    BY <1>2, <1>6 DEF Recibir, Esta, Va
  <2>2. tarea'[t].paso = "leer" /\ tarea'[t].pid = p
    BY <2>1, TiposDeTareas DEF En, KInv
  <2>3. Atiende(t) => Atiende(t)'
    BY <1>2, <2>1, <2>2 DEF Atiende
  <2>4. QED
    BY <1>1, <1>3, <1>4, <2>1, <2>3, OtrosAtienden DEF KInv
<1>7. CASE Leer(t)
  <2>1. /\ tarea[t].paso = "leer" /\ UNCHANGED rta
        /\ \/ rta = "OK" /\ tarea' = [tarea EXCEPT ![t] = En("crearHilo", p)]
           \/ rta # "OK" /\ tarea' = [tarea EXCEPT ![t] = En(IF t = Manejador THEN "libre" ELSE "quitar", Nadie)]
    BY <1>2, <1>7 DEF Leer, Esta, Va, SigueTrasError
  <2>2. CASE rta = "OK" /\ tarea' = [tarea EXCEPT ![t] = En("crearHilo", p)]
    <3>1. tarea'[t].paso = "crearHilo"
      BY <2>2, TiposDeTareas DEF En, KInv
    <3>2. Atiende(t)'
      BY <3>1 DEF Atiende
    <3>3. QED
      BY <1>1, <1>3, <1>4, <2>2, <3>2, OtrosAtienden DEF KInv
  <2>3. CASE rta # "OK" /\ tarea' = [tarea EXCEPT ![t] = En(IF t = Manejador THEN "libre" ELSE "quitar", Nadie)]
    <3>1. ~Atiende(t)
      BY <2>1, <2>3 DEF Atiende
    <3>2. QED
      BY <1>1, <1>3, <1>4, <2>3, <3>1, OtrosAtienden DEF KInv
  <2>4. QED
    BY <2>1, <2>2, <2>3
<1>8. CASE CrearHilo(t)
  <2>1. tarea' = [tarea EXCEPT ![t] = En("sacar", p)]
    BY <1>2, <1>8 DEF CrearHilo, Va
  <2>2. tarea'[t].paso = "sacar"
    BY <2>1, TiposDeTareas DEF En, KInv
  <2>3. Atiende(t)'
    BY <2>2 DEF Atiende
  <2>4. QED
    BY <1>1, <1>3, <1>4, <2>1, <2>3, OtrosAtienden DEF KInv
<1>9. QED
  BY <1>6, <1>7, <1>8

\* The handler leaves NEW empty; a finalizer looks at it again.
LEMMA NadieEsperaSacar ==
  ASSUME KInv, NInv, NEW t \in Tareas, SacarDeNew(t)
  PROVE  NInv'
<1>1. /\ tarea[t].paso = "sacar" /\ tarea[t].paso \in PasosPrimero /\ tarea[t].paso \in PasosPedir
      /\ tarea' = [tarea EXCEPT ![t] = En("agregar", tarea[t].pid)]
      /\ nuevos' = RemoveFirst(nuevos, tarea[t].pid)
  BY DEF SacarDeNew, Esta, Va, NuevosSin, PasosPedir, PasosPrimero
<1>2. /\ tarea'[t].paso = "agregar" /\ \A u \in Tareas \ {t} : tarea'[u] = tarea[u]
      /\ Manejador \in Tareas
  BY <1>1, TiposDeTareas DEF En, KInv
<1>3. /\ nuevos # <<>> /\ tarea[t].pid = nuevos[1] /\ nuevos \in Seq(Pids)
  BY <1>1 DEF KInv, OInv, PidePrimero, Tipos
<1>4. CASE t = Manejador
  <2>1. Len(nuevos) = 1
    BY <1>1, <1>4 DEF NInv, ManejadorSolo
  <2>2. nuevos' = Tail(nuevos)
    BY <1>1, <1>3, RemoveFirstCabeza
  <2>3. nuevos' \in Seq(Pids) /\ Len(nuevos') = Len(nuevos) - 1
    BY <1>3, <2>2, HeadTailProperties
  <2>4. Len(nuevos') = 0
    BY <2>1, <2>3
  <2>5. nuevos' = <<>>
    BY <2>3, <2>4, EmptySeq
  <2>6. QED
    BY <1>2, <1>4, <2>5 DEF NInv, ManejadorSolo, EntraElPrimero, PasosPrimero
<1>5. CASE t # Manejador
  <2>1. Atiende(t)'
    BY <1>2, <1>5 DEF Atiende
  <2>2. tarea'[Manejador].paso \notin PasosPedir
    BY <1>1, <1>2, <1>5 DEF KInv, OInv, UnoPide
  <2>3. ManejadorSolo'
    BY <2>2 DEF ManejadorSolo, PasosPedir, PasosPrimero
  <2>4. QED
    BY <2>1, <2>3 DEF NInv
<1>6. QED
  BY <1>4, <1>5

\* After an admission a finalizer looks at NEW again; the handler leaves it empty.
LEMMA NadieEsperaAgregar ==
  ASSUME KInv, NInv, NEW t \in Tareas, AgregarEnMemoria(t)
  PROVE  NInv'
<1>1. /\ tarea[t].paso = "agregar" /\ UNCHANGED <<nuevos, tamanio, particiones, creacion, fase, rta>>
      /\ tarea' = [tarea EXCEPT ![t] = En(IF t = Manejador THEN "libre" ELSE "mirar", Nadie)]
  BY DEF AgregarEnMemoria, Esta, Va, Siguiente, memoria
<1>2. CASE t = Manejador
  <2>1. nuevos = <<>>
    BY <1>1, <1>2 DEF NInv, ManejadorSolo
  <2>2. QED
    BY <1>1, <1>2, <2>1, OtrosAtienden DEF KInv, PasosPrimero
<1>3. CASE t # Manejador
  <2>1. tarea' = [tarea EXCEPT ![t] = En("mirar", Nadie)]
    BY <1>1, <1>3
  <2>2. tarea'[t].paso = "mirar"
    BY <2>1, TiposDeTareas DEF En, KInv
  <2>3. Atiende(t)'
    BY <2>2 DEF Atiende
  <2>4. QED
    BY <1>1, <1>3, <2>1, <2>3, OtrosAtienden DEF KInv
<1>4. QED
  BY <1>2, <1>3

\* A finalizer looks at NEW after Memoria has freed its process, and goes on only if it is empty.
LEMMA NadieEsperaFin ==
  ASSUME UnoPorVez, KInv, NInv, NEW p \in Pids, PedirFin(p) \/ Finalizar(p)
  PROVE  NInv'
<1>0. p \in Tareas /\ p # Manejador /\ Manejador \in Tareas
  BY TiposDeTareas DEF KInv
<1>1. UNCHANGED <<nuevos, tamanio, particiones, creacion, rta>>
  BY DEF PedirFin, Finalizar, AvisarFin, RecibirFin, Replanificar, MirarNew, QuitarDeMemoria, AgregarASalidos,
     listas, memoria, M!PedirFinalizacion
<1>2. ASSUME ~AvisarFin(p) PROVE UNCHANGED fase
  BY <1>2 DEF PedirFin, Finalizar, RecibirFin, Replanificar, MirarNew, QuitarDeMemoria, AgregarASalidos, memoria
<1>3. CASE AvisarFin(p)
  <2>1. tarea' = [tarea EXCEPT ![p] = En("liberando", Nadie)] /\ tarea[p].paso = "avisar"
        /\ fase' = [fase EXCEPT ![p] = "liberar"]
    BY <1>3 DEF AvisarFin, Esta, Va, M!PedirFinalizacion
  <2>2. tarea'[p].paso = "liberando" /\ \A u \in Tareas \ {p} : tarea'[u] = tarea[u]
    BY <1>0, <2>1, TiposDeTareas DEF En, KInv
  <2>3. Atiende(p)'
    BY <2>2 DEF Atiende
  <2>4. ManejadorSolo'
    BY <1>0, <1>1, <2>2 DEF NInv, ManejadorSolo
  <2>5. QED
    BY <1>0, <2>3, <2>4 DEF NInv
<1>4. ASSUME NEW k \in {"replanificar", "mirar"}, tarea' = [tarea EXCEPT ![p] = En(k, Nadie)], UNCHANGED fase
      PROVE  NInv'
  <2>1. tarea'[p].paso = k
    BY <1>0, <1>4, TiposDeTareas DEF En, KInv
  <2>2. Atiende(p)'
    BY <2>1 DEF Atiende
  <2>3. QED
    BY <1>0, <1>1, <1>4, <2>2, OtrosAtienden DEF KInv
<1>5. ASSUME NEW q, tarea' = [tarea EXCEPT ![p] = En("pedir", q)], UNCHANGED fase
      PROVE  NInv'
  <2>1. tarea'[p].paso = "pedir"
    BY <1>0, <1>5, TiposDeTareas DEF En, KInv
  <2>2. Atiende(p)'
    BY <2>1 DEF Atiende
  <2>3. QED
    BY <1>0, <1>1, <1>5, <2>2, OtrosAtienden DEF KInv
<1>6. ASSUME NEW k, tarea' = [tarea EXCEPT ![p] = En(k, Nadie)], UNCHANGED fase, ~Atiende(p) \/ nuevos = <<>>
      PROVE  NInv'
  BY <1>0, <1>1, <1>6, OtrosAtienden DEF KInv
<1>7. CASE PedirFin(p)
  <2>1. /\ tarea[p].paso = "libre"
        /\ \E k \in {"avisar", "perdido"} : tarea' = [tarea EXCEPT ![p] = En(k, Nadie)]
    BY <1>7 DEF PedirFin, Esta, Va
  <2>2. ~Atiende(p) /\ ~AvisarFin(p)
    BY <2>1 DEF Atiende, AvisarFin, Esta
  <2>3. QED
    BY <1>2, <1>6, <2>1, <2>2
<1>8. CASE RecibirFin(p) \/ Replanificar(p)
  <2>1. /\ UNCHANGED fase
        /\ \E k \in {"replanificar", "mirar"} : tarea' = [tarea EXCEPT ![p] = En(k, Nadie)]
    BY <1>8 DEF RecibirFin, Replanificar, Va, memoria
  <2>2. QED
    BY <1>4, <2>1
<1>9. CASE MirarNew(p)
  <2>1. UNCHANGED fase
    BY <1>9 DEF MirarNew, memoria
  <2>2. \/ PrimerNuevo = {} /\ tarea' = [tarea EXCEPT ![p] = En("quitar", Nadie)]
        \/ \E q \in PrimerNuevo : tarea' = [tarea EXCEPT ![p] = En("pedir", q)]
    BY <1>9 DEF MirarNew, Va
  <2>3. PrimerNuevo = {} => nuevos = <<>>
    BY LosDeNew DEF PrimerNuevo, KInv, OInv
  <2>4. QED
    BY <1>5, <1>6, <2>1, <2>2, <2>3
<1>10. CASE QuitarDeMemoria(p) \/ AgregarASalidos(p)
  <2>1. /\ tarea[p].paso \in {"quitar", "salir"} /\ UNCHANGED fase
        /\ \E k \in {"salir", "libre"} : tarea' = [tarea EXCEPT ![p] = En(k, Nadie)]
    BY <1>10 DEF QuitarDeMemoria, AgregarASalidos, Esta, Va, Libre, memoria
  <2>2. ~Atiende(p)
    BY <2>1 DEF Atiende
  <2>3. QED
    BY <1>6, <2>1, <2>2
<1>11. QED
  BY <1>3, <1>7, <1>8, <1>9, <1>10 DEF Finalizar

\* While Memoria works, whoever asked for that work is to look at NEW.
LEMMA NadieEsperaMemoria ==
  ASSUME KInv, NInv, MemoriaSigue
  PROVE  NInv'
<1>1. UNCHANGED <<nuevos, tarea, rta, tamanio>>
  BY DEF MemoriaSigue, listas
<1>2. ManejadorSolo'
  BY <1>1 DEF NInv, ManejadorSolo
<1>3. CASE M!CrearProceso
  <2>1. creacion # Nada /\ fase' = [fase EXCEPT ![creacion.pid] = "vivo"]
    BY <1>3 DEF M!CrearProceso
  <2>2. PICK q \in Pids : q = creacion.pid
    BY <2>1, TiposDeMemoria DEF KInv
  <2>3. PICK u \in Tareas : tarea[u] = En("esperar", q)
    BY <2>1, <2>2 DEF KInv, PInv, CreacionEsperada
  <2>4. fase'[q] = "vivo"
    BY <2>1, <2>2, TiposDeMemoria DEF KInv
  <2>5. tarea'[u].paso = "esperar" /\ tarea'[u].pid = q
    BY <1>1, <2>3 DEF En
  <2>6. Atiende(u)'
    BY <2>4, <2>5 DEF Atiende
  <2>7. QED
    BY <1>2, <2>6 DEF NInv
<1>4. ASSUME NEW p \in Pids, M!Finalizacion(p) PROVE NInv'
  <2>1. fase[p] \in {"liberar", "quitar", "ordenar", "unificar"}
    BY <1>4, EfectoFinalizacion DEF KInv
  <2>2. tarea'[p].paso = "liberando" /\ p \in Tareas
    BY <1>1, <2>1, QuienLibera, TiposDeTareas DEF KInv
  <2>3. Atiende(p)'
    BY <2>2 DEF Atiende
  <2>4. QED
    BY <1>2, <2>2, <2>3 DEF NInv
<1>5. QED
  BY <1>3, <1>4 DEF MemoriaSigue

\* No step leaves the first of NEW waiting in front of a free partition with nobody to look.
LEMMA PasoNInv ==
  ASSUME UnoPorVez, KInv, NInv, [Next]_vars
  PROVE  NInv'
<1>1. ASSUME NEW t \in Tareas, Preguntar(t) PROVE NInv'
  BY <1>1, NadieEsperaPedir, NadieEsperaAceptado, NadieEsperaSacar, NadieEsperaAgregar DEF Preguntar
<1>2. CASE UNCHANGED vars
  BY <1>2 DEF vars, listas, memoria, NInv, ManejadorSolo, EntraElPrimero, Atiende, EnCurso
<1>3. QED
  BY <1>1, <1>2, NadieEsperaCrear, NadieEsperaContar, NadieEsperaFin, NadieEsperaMemoria DEF Next

\* When the kernel and Memoria are idle, the first of NEW does not fit in any free partition,
\* with either scheme and any search: each finalizer looks at NEW after Memoria has freed its
\* process, and goes on until NEW is empty or Memoria has refused one (replanificar_creacion_proceso);
\* the handler asks only for a process that is alone in NEW (crear_proceso).
THEOREM NadieEsperaEnVano ==
  ASSUME UnoPorVez
  PROVE  Spec => []NadieEsperaDeMas
<1>1. Init => NInv
  <2>1. SUFFICES ASSUME Init PROVE NInv
    OBVIOUS
  <2>2. nuevos = <<>> /\ tarea = [t \in Tareas |-> Libre] /\ Manejador \in Tareas
    BY <2>1, NumerosDePids DEF Init
  <2>3. QED
    BY <2>2 DEF NInv, EntraElPrimero, ManejadorSolo, Libre, En, PasosPrimero
<1>2. NInv => NadieEsperaDeMas
  <2>1. SUFFICES ASSUME NInv, \A t \in Tareas : tarea[t] = Libre, NEW p \in PrimerNuevo
                 PROVE  M!Asignable(particiones, tamanio[p]) = {}
    BY DEF NadieEsperaDeMas
  <2>2. \A t \in Tareas : ~Atiende(t)
    BY <2>1 DEF Atiende, Libre, En
  <2>3. p = nuevos[1] /\ nuevos # <<>>
    BY <2>1 DEF PrimerNuevo
  <2>4. \A i \in DOMAIN particiones : ~MP!Sirve(particiones, i, tamanio[p])
    BY <2>1, <2>2, <2>3 DEF NInv, EntraElPrimero
  <2>5. QED
    BY <2>4 DEF M!Asignable, M!Sirve, MP!Sirve
<1>3. QED
  BY <1>1, <1>2, KInvSiempre, PasoNInv, PTL DEF Spec
=============================================================================
