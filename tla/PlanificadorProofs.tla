------------------------- MODULE PlanificadorProofs -------------------------
(***************************************************************************)
(* Lemmas about the operators of the short-term scheduler (CortoPlazo),    *)
(* and theorems about Planificador, for any number of processes, threads,  *)
(* mutexes, priorities and partitions: the variables keep their types, a   *)
(* process in NEW has no thread, EXEC never holds two threads, no          *)
(* scheduling pass is lost, every thread is in one place with its context  *)
(* in Memoria, the best of READY is dispatched, and threads 0 and 1 of a   *)
(* process that is in EXIT have ended.                                     *)
(***************************************************************************)
EXTENDS Planificador, SecuenciasProofs, FiniteSetTheorems

-----------------------------------------------------------------------------
(***************************************************************************)
(* What the operators of the short-term scheduler return (CortoPlazo).     *)
(***************************************************************************)
\* The thread chosen is one of the READY list, and no other has a lower number
\* under PRIORIDADES.
LEMMA ElegidoMinimo ==
  ASSUME NEW S, NEW cola \in Seq(S), cola # <<>>, NEW numero \in [S -> Nat]
  PROVE  /\ Elegido(cola, numero) \in 1 .. Len(cola)
         /\ Algoritmo # "FIFO" => \A j \in 1 .. Len(cola) :
              numero[cola[Elegido(cola, numero)]] <= numero[cola[j]]
<1> DEFINE minimos == {i \in DOMAIN cola : \A j \in DOMAIN cola :
                            numero[cola[i]] <= numero[cola[j]]}
           Numeros == {numero[cola[i]] : i \in DOMAIN cola}
<1>1. /\ Len(cola) \in Nat \ {0} /\ DOMAIN cola = 1 .. Len(cola)
      /\ \A i \in DOMAIN cola : cola[i] \in S
  BY LenProperties, EmptySeq, ElementOfSeq
<1>2. Numeros \in SUBSET Nat /\ Numeros # {}
  BY <1>1
<1>3. Min(Numeros) \in Numeros /\ \A y \in Numeros : Min(Numeros) <= y
  BY <1>2, MinPertenece
<1>4. PICK i \in DOMAIN cola : numero[cola[i]] = Min(Numeros)
  BY <1>3
<1>5. \A j \in DOMAIN cola : numero[cola[i]] <= numero[cola[j]]
  BY <1>3, <1>4
<1>6. minimos \in SUBSET Nat /\ minimos # {}
  BY <1>1, <1>5
<1>7. Min(minimos) \in minimos
  BY <1>6, MinPertenece
<1>8. /\ Min(minimos) \in 1 .. Len(cola)
      /\ \A j \in 1 .. Len(cola) : numero[cola[Min(minimos)]] <= numero[cola[j]]
  BY <1>1, <1>7
<1>9. Elegido(cola, numero) = IF Algoritmo = "FIFO" THEN 1 ELSE Min(minimos)
  BY DEF Elegido
<1> HIDE DEF minimos
<1>10. 1 \in 1 .. Len(cola)
  BY <1>1
<1>11. QED
  BY <1>8, <1>9, <1>10, Zenon
-----------------------------------------------------------------------------
\* The record the scheduler works on, for threads S and messages M.
ColasDe(S, M) == [ready : Seq(S), exec : Seq(S), aCpu : Seq(M)]

(* A scheduling pass keeps the lists well typed and EXEC as it is if somebody
   is there; afterwards READY is empty or EXEC is not, and EXEC holds one thread
   more only if it was empty. *)
LEMMA PcpCorrecto ==
  ASSUME NEW S, NEW M, NEW p \in ColasDe(S, M), NEW numero \in [S -> Nat],
         \A h \in S : Ejecutar(h) \in M
  PROVE  /\ Pcp(p, numero) \in ColasDe(S, M)
         /\ Pcp(p, numero).ready = <<>> \/ Pcp(p, numero).exec # <<>>
         /\ Len(p.exec) <= 1 => Len(Pcp(p, numero).exec) <= 1
<1>1. CASE p.exec = <<>> /\ p.ready # <<>>
  <2> DEFINE i == Elegido(p.ready, numero)
  <2>1. p.ready \in Seq(S) /\ p.exec \in Seq(S) /\ p.aCpu \in Seq(M)
    BY DEF ColasDe
  <2>2. i \in 1 .. Len(p.ready)
    BY <1>1, <2>1, ElegidoMinimo
  <2>3. p.ready[i] \in S
    BY <2>1, <2>2, ElementOfSeq
  <2> HIDE DEF i
  <2>4. RemoveAt(p.ready, i) \in Seq(S)
    BY <2>1, <2>2, RemoveAtSeq
  <2>5. /\ Append(p.exec, p.ready[i]) \in Seq(S)
        /\ Append(p.exec, p.ready[i]) # <<>>
        /\ Len(Append(p.exec, p.ready[i])) = Len(p.exec) + 1
    BY <2>1, <2>3, AppendSeq, Zenon
  <2>6. Append(p.aCpu, Ejecutar(p.ready[i])) \in Seq(M)
    BY <2>1, <2>3, AppendSeq, Zenon
  <2>7. Len(p.exec) = 0
    BY <1>1, EmptySeq
  <2>8. Pcp(p, numero) = [ready |-> RemoveAt(p.ready, i),
                             exec  |-> Append(p.exec, p.ready[i]),
                             aCpu  |-> Append(p.aCpu, Ejecutar(p.ready[i]))]
    BY <1>1 DEF Pcp, i
  <2>9. QED
    BY <2>4, <2>5, <2>6, <2>7, <2>8 DEF ColasDe
<1>2. CASE ~(p.exec = <<>> /\ p.ready # <<>>)
  BY <1>2 DEF Pcp
<1>3. QED
  BY <1>1, <1>2

\* Enqueueing a thread and sending a message touch one list each.
LEMMA EncolarEnviarCorrecto ==
  ASSUME NEW S, NEW M, NEW p \in ColasDe(S, M)
  PROVE  /\ \A h \in S : /\ Encolar(p, h) \in ColasDe(S, M)
                          /\ Encolar(p, h).exec = p.exec
         /\ \A m \in M : /\ Enviar(p, m) \in ColasDe(S, M)
                          /\ Enviar(p, m).ready = p.ready
                          /\ Enviar(p, m).exec = p.exec
<1>1. \A h \in S : Append(p.ready, h) \in Seq(S)
  BY AppendProperties DEF ColasDe
<1>2. \A m \in M : Append(p.aCpu, m) \in Seq(M)
  BY AppendProperties DEF ColasDe
<1>3. QED
  BY <1>1, <1>2 DEF Encolar, Enviar, ColasDe

\* Taking a thread out of EXEC leaves the other lists.
LEMMA SacarCorrecto ==
  ASSUME NEW S, NEW M, NEW p \in ColasDe(S, M), NEW h
  PROVE  /\ SacarDeExec(p, h) \in ColasDe(S, M)
         /\ Len(SacarDeExec(p, h).exec) <= Len(p.exec)
         /\ SacarDeExec(p, h).ready = p.ready
<1>1. /\ RemoveFirst(p.exec, h) \in Seq(S)
      /\ Len(RemoveFirst(p.exec, h)) <= Len(p.exec)
  BY RemoveFirstSeq DEF ColasDe
<1>2. QED
  BY <1>1 DEF SacarDeExec, ColasDe
-----------------------------------------------------------------------------
(***************************************************************************)
(* Where the threads are: READY and EXEC have no thread twice and none in  *)
(* common.                                                                 *)
(***************************************************************************)
SinRepetidos(p) ==
  IsInjective(p.ready) /\ IsInjective(p.exec) /\ ToSet(p.ready) \cap ToSet(p.exec) = {}

Activos(p) == ToSet(p.ready) \cup ToSet(p.exec)

\* A scheduling pass moves a thread from READY to EXEC, or nothing.
LEMMA PcpElementos ==
  ASSUME NEW S, NEW M, NEW p \in ColasDe(S, M), NEW numero \in [S -> Nat], SinRepetidos(p)
  PROVE  /\ SinRepetidos(Pcp(p, numero))
         /\ Activos(Pcp(p, numero)) = Activos(p)
<1>1. CASE p.exec = <<>> /\ p.ready # <<>>
  <2> DEFINE i == Elegido(p.ready, numero)
             r == RemoveAt(p.ready, i)
             e == Append(p.exec, p.ready[i])
  <2>1. p.ready \in Seq(S) /\ p.exec \in Seq(S)
    BY DEF ColasDe
  <2>2. i \in 1 .. Len(p.ready)
    BY <1>1, <2>1, ElegidoMinimo
  <2>3. p.ready[i] \in S /\ p.ready[i] \in ToSet(p.ready)
    BY <2>1, <2>2, Posiciones
  <2> HIDE DEF i
  <2>4. ToSet(r) = ToSet(p.ready) \ {p.ready[i]} /\ IsInjective(r)
    BY <2>1, <2>2, RemoveAtElementos DEF SinRepetidos
  <2>5. ToSet(e) = ToSet(p.exec) \cup {p.ready[i]} /\ IsInjective(e)
    BY <2>1, <2>3, AppendElementos DEF SinRepetidos
  <2>6. Pcp(p, numero).ready = r /\ Pcp(p, numero).exec = e
    BY <1>1 DEF Pcp, i
  <2> HIDE DEF r, e
  <2>7. QED
    BY <2>3, <2>4, <2>5, <2>6 DEF SinRepetidos, Activos
<1>2. CASE ~(p.exec = <<>> /\ p.ready # <<>>)
  BY <1>2 DEF Pcp
<1>3. QED
  BY <1>1, <1>2

\* A thread that is in neither list enters READY.
LEMMA EncolarElementos ==
  ASSUME NEW S, NEW M, NEW p \in ColasDe(S, M), NEW h \in S,
         SinRepetidos(p), h \notin Activos(p)
  PROVE  /\ SinRepetidos(Encolar(p, h))
         /\ Activos(Encolar(p, h)) = Activos(p) \cup {h}
<1>1. p.ready \in Seq(S)
  BY DEF ColasDe
<1>2. /\ ToSet(Append(p.ready, h)) = ToSet(p.ready) \cup {h}
      /\ IsInjective(Append(p.ready, h))
  BY <1>1, AppendElementos DEF SinRepetidos, Activos
<1>3. Encolar(p, h).ready = Append(p.ready, h) /\ Encolar(p, h).exec = p.exec
  BY DEF Encolar, ColasDe
<1>4. QED
  BY <1>2, <1>3 DEF SinRepetidos, Activos

\* A thread leaves EXEC.
LEMMA SacarElementos ==
  ASSUME NEW S, NEW M, NEW p \in ColasDe(S, M), NEW h, SinRepetidos(p), h \notin ToSet(p.ready)
  PROVE  /\ SinRepetidos(SacarDeExec(p, h))
         /\ Activos(SacarDeExec(p, h)) = Activos(p) \ {h}
<1>1. p.exec \in Seq(S)
  BY DEF ColasDe
<1>2. /\ ToSet(RemoveFirst(p.exec, h)) = ToSet(p.exec) \ {h}
      /\ IsInjective(RemoveFirst(p.exec, h))
  BY <1>1, RemoveFirstElementos DEF SinRepetidos
<1>3. SacarDeExec(p, h).ready = p.ready /\ SacarDeExec(p, h).exec = RemoveFirst(p.exec, h)
  BY DEF SacarDeExec, ColasDe
<1> HIDE DEF SacarDeExec
<1>4. QED
  BY <1>2, <1>3 DEF SinRepetidos, Activos

\* A thread leaves READY.
LEMMA QuitarElementos ==
  ASSUME NEW S, NEW M, NEW p \in ColasDe(S, M), NEW h, SinRepetidos(p), h \notin ToSet(p.exec),
         NEW q, q.ready = RemoveFirst(p.ready, h), q.exec = p.exec
  PROVE  SinRepetidos(q) /\ Activos(q) = Activos(p) \ {h}
<1>1. p.ready \in Seq(S)
  BY DEF ColasDe
<1>2. /\ ToSet(RemoveFirst(p.ready, h)) = ToSet(p.ready) \ {h}
      /\ IsInjective(RemoveFirst(p.ready, h))
  BY <1>1, RemoveFirstElementos DEF SinRepetidos
<1>3. QED
  BY <1>2 DEF SinRepetidos, Activos
-----------------------------------------------------------------------------
(***************************************************************************)
(* Whom the algorithm prefers.                                             *)
(***************************************************************************)
\* The thread in place i of the list goes before the one in place j.
Precede(cola, numero, i, j) ==
  \/ Algoritmo = "FIFO" /\ i < j
  \/ /\ Algoritmo # "FIFO"
     /\ \/ numero[cola[i]] < numero[cola[j]]
        \/ numero[cola[i]] = numero[cola[j]] /\ i < j

LEMMA ElegidoPrecede ==
  ASSUME NEW S, NEW cola \in Seq(S), cola # <<>>, NEW numero \in [S -> Nat],
         NEW j \in 1 .. Len(cola), j # Elegido(cola, numero)
  PROVE  Precede(cola, numero, Elegido(cola, numero), j)
<1> DEFINE i == Elegido(cola, numero)
           minimos == {k \in DOMAIN cola : \A l \in DOMAIN cola :
                            numero[cola[k]] <= numero[cola[l]]}
<1>1. Len(cola) \in Nat /\ DOMAIN cola = 1 .. Len(cola) /\ \A k \in 1 .. Len(cola) : cola[k] \in S
  BY Posiciones
<1>2. i \in 1 .. Len(cola)
  BY ElegidoMinimo
<1>3. CASE Algoritmo = "FIFO"
  BY <1>1, <1>2, <1>3 DEF Elegido, Precede
<1>4. CASE Algoritmo # "FIFO"
  <2>1. \A l \in 1 .. Len(cola) : numero[cola[i]] <= numero[cola[l]]
    BY <1>4, ElegidoMinimo
  <2>2. i = Min(minimos)
    BY <1>4 DEF Elegido
  <2>3. i \in minimos /\ minimos \in SUBSET Nat
    BY <1>1, <1>2, <2>1
  <2>4. \A k \in minimos : i <= k
    BY <2>2, <2>3, MinPertenece, Zenon
  <2> HIDE DEF i
  <2>5. \A l \in 1 .. Len(cola) : numero[cola[l]] \in Nat
    BY <1>1
  <2>6. CASE numero[cola[i]] = numero[cola[j]]
    <3>1. j \in minimos
      BY <1>1, <2>1, <2>6
    <3>2. i <= j /\ i # j
      BY <2>4, <3>1 DEF i
    <3>3. i < j
      BY <1>2, <3>2
    <3>4. QED
      BY <1>4, <2>6, <3>3 DEF Precede, i
  <2>7. CASE numero[cola[i]] # numero[cola[j]]
    <3>1. numero[cola[i]] < numero[cola[j]]
      BY <1>2, <2>1, <2>5, <2>7
    <3>2. QED
      BY <1>4, <3>1 DEF Precede, i
  <2>8. QED
    BY <2>6, <2>7
<1>5. QED
  BY <1>3, <1>4

(* The only message a scheduling pass sends is the EJECUTAR of a thread of
   READY that goes before each of those it leaves there. *)
LEMMA PcpDespacha ==
  ASSUME NEW S, NEW M, NEW p \in ColasDe(S, M), NEW numero \in [S -> Nat],
         SinRepetidos(p), \A h \in S : Ejecutar(h) \in M
  PROVE  \/ Pcp(p, numero).aCpu = p.aCpu
         \/ \E i \in 1 .. Len(p.ready) :
              /\ ToSet(Pcp(p, numero).aCpu) = ToSet(p.aCpu) \cup {Ejecutar(p.ready[i])}
              /\ \A o \in ToSet(Pcp(p, numero).ready) : \E j \in 1 .. Len(p.ready) :
                   p.ready[j] = o /\ Precede(p.ready, numero, i, j)
<1>1. CASE p.exec = <<>> /\ p.ready # <<>>
  <2> DEFINE i == Elegido(p.ready, numero)
             q == Pcp(p, numero)
  <2>1. p.ready \in Seq(S) /\ p.exec \in Seq(S) /\ p.aCpu \in Seq(M)
    BY DEF ColasDe
  <2>2. i \in 1 .. Len(p.ready) /\ p.ready[i] \in S
    BY <1>1, <2>1, ElegidoMinimo, Posiciones
  <2>3. q.ready = RemoveAt(p.ready, i) /\ q.aCpu = Append(p.aCpu, Ejecutar(p.ready[i]))
    BY <1>1 DEF Pcp
  <2>4. \A j \in 1 .. Len(p.ready) : j # i => Precede(p.ready, numero, i, j)
    BY <1>1, <2>1, ElegidoPrecede
  <2> HIDE DEF q, i
  <2>5. ToSet(q.ready) = ToSet(p.ready) \ {p.ready[i]}
    BY <2>1, <2>2, <2>3, RemoveAtElementos DEF SinRepetidos
  <2>6. ToSet(q.aCpu) = ToSet(p.aCpu) \cup {Ejecutar(p.ready[i])}
    BY <2>1, <2>2, <2>3, AppendElementos
  <2>7. \A o \in ToSet(q.ready) : \E j \in 1 .. Len(p.ready) : p.ready[j] = o /\ j # i
    BY <2>1, <2>5, Posiciones
  <2>8. QED
    BY <2>2, <2>4, <2>6, <2>7 DEF q
<1>2. CASE ~(p.exec = <<>> /\ p.ready # <<>>)
  BY <1>2 DEF Pcp
<1>3. QED
  BY <1>1, <1>2

-----------------------------------------------------------------------------
(***************************************************************************)
(* Types of the values the actions build.                                  *)
(***************************************************************************)

\* The lists of the kernel are a record the short-term scheduler can work on.
LEMMA ColasTipo ==
  ASSUME TipoListas
  PROVE  Colas \in ColasDe(Hilos, MensajesCpu)
  BY DEF TipoListas, Colas, ColasDe

\* Priorities are naturals, and so are the arguments of every request.
LEMMA ConstantesTipo ==
  /\ Prioridades \subseteq Nat /\ 0 \in Prioridades /\ Recursos \subseteq Nat
  /\ Tids \subseteq Nat /\ 0 \in Tids /\ 0 \in Pids /\ Pids \subseteq Nat
  /\ MaxPid \in Nat /\ MaxTid \in Nat
  BY CotasAssumption, RecursosAssumption, PrioridadesAssumption DEF Tids, Pids

LEMMA PrioridadTipo ==
  ASSUME TipoTcb
  PROVE  prioridad \in [Hilos -> Nat]
  BY ConstantesTipo DEF TipoTcb

\* The messages the kernel sends are messages of the CPU.
LEMMA MensajesCpuTipo ==
  /\ \A h \in Hilos : Ejecutar(h) \in MensajesCpu
  /\ \A r \in {"OK", "DESALOJO"} : Rta(r) \in MensajesCpu
  BY DEF Ejecutar, Rta, MensajesCpu

LEMMA NadieNoEsHilo == Nadie \notin Hilos
  BY ConstantesTipo DEF Nadie, Hilos

\* What a list that Quedan leaves in place is: the lists of p.
LEMMA QuedanTipo ==
  ASSUME NEW p \in ColasDe(Hilos, MensajesCpu), Quedan(p),
         blocked' \subseteq Hilos, salidos' \subseteq Hilos
  PROVE  TipoListas' /\ Colas' = p
  BY DEF Quedan, ColasDe, TipoListas, Colas

\* Members of a sequence are in its set of elements, and it only has those.
LEMMA ToSetTipo ==
  ASSUME NEW S, NEW s \in Seq(S)
  PROVE  /\ ToSet(s) \subseteq S
         /\ s # <<>> => Head(s) \in ToSet(s) /\ Head(s) \in S /\ Tail(s) \in Seq(S)
<1>1. \A i \in 1 .. Len(s) : s[i] \in S
  BY ElementOfSeq
<1>2. ToSet(s) \subseteq S
  BY <1>1, LenProperties DEF ToSet
<1>3. ASSUME s # <<>>
      PROVE  Head(s) \in ToSet(s) /\ Head(s) \in S /\ Tail(s) \in Seq(S)
  <2>1. Head(s) = s[1] /\ Len(s) \in Nat \ {0} /\ DOMAIN s = 1 .. Len(s)
    BY <1>3, EmptySeq, LenProperties, HeadTailProperties
  <2>2. Head(s) \in ToSet(s)
    BY <2>1 DEF ToSet
  <2>3. QED
    BY <1>2, <1>3, <2>2, HeadTailProperties
<1>4. QED
  BY <1>2, <1>3

-----------------------------------------------------------------------------
(***************************************************************************)
(* The operations on the lists.  Vacante(p): there are threads in READY    *)
(* and nobody runs.  No operation leaves two threads in EXEC, and each     *)
(* leaves vacant only lists that were vacant already.                      *)
(***************************************************************************)
Vacante(p) == p.ready # <<>> /\ p.exec = <<>>

LEMMA PcpTipo ==
  ASSUME TipoTcb, NEW p \in ColasDe(Hilos, MensajesCpu)
  PROVE  /\ Pcp(p, prioridad) \in ColasDe(Hilos, MensajesCpu)
         /\ ~Vacante(Pcp(p, prioridad))
         /\ Len(p.exec) <= 1 => Len(Pcp(p, prioridad).exec) <= 1
  BY PcpCorrecto, PrioridadTipo, MensajesCpuTipo DEF Vacante

LEMMA ResponderTipo ==
  ASSUME NEW p \in ColasDe(Hilos, MensajesCpu), NEW r \in {"OK", "DESALOJO"}, NEW rta \in BOOLEAN
  PROVE  /\ Enviar(p, Rta(r)) \in ColasDe(Hilos, MensajesCpu)
         /\ Enviar(p, Rta(r)).ready = p.ready /\ Enviar(p, Rta(r)).exec = p.exec
         /\ Responder(p, rta) \in ColasDe(Hilos, MensajesCpu)
         /\ Responder(p, rta).ready = p.ready /\ Responder(p, rta).exec = p.exec
<1>1. Rta(r) \in MensajesCpu /\ Rta("OK") \in MensajesCpu
  BY MensajesCpuTipo
<1>2. /\ Enviar(p, Rta(r)) \in ColasDe(Hilos, MensajesCpu)
      /\ Enviar(p, Rta(r)).ready = p.ready /\ Enviar(p, Rta(r)).exec = p.exec
  BY <1>1, EncolarEnviarCorrecto
<1>3. /\ Enviar(p, Rta("OK")) \in ColasDe(Hilos, MensajesCpu)
      /\ Enviar(p, Rta("OK")).ready = p.ready /\ Enviar(p, Rta("OK")).exec = p.exec
  BY <1>1, EncolarEnviarCorrecto
<1>4. QED
  BY <1>2, <1>3 DEF Responder

LEMMA DesbloquearTipo ==
  ASSUME TipoListas, TipoTcb, NEW p \in ColasDe(Hilos, MensajesCpu), NEW h
  PROVE  /\ Desbloquear(p, h) \in ColasDe(Hilos, MensajesCpu)
         /\ Len(p.exec) <= 1 => Len(Desbloquear(p, h).exec) <= 1
         /\ Vacante(Desbloquear(p, h)) => Vacante(p)
<1>1. CASE h \in blocked
  <2>1. h \in Hilos
    BY <1>1 DEF TipoListas
  <2>2. Encolar(p, h) \in ColasDe(Hilos, MensajesCpu) /\ Encolar(p, h).exec = p.exec
    BY <2>1, EncolarEnviarCorrecto
  <2>3. Desbloquear(p, h) = Pcp(Encolar(p, h), prioridad)
    BY <1>1 DEF Desbloquear
  <2>4. QED
    BY <2>2, <2>3, PcpTipo
<1>2. CASE h \notin blocked
  BY <1>2 DEF Desbloquear
<1>3. QED
  BY <1>1, <1>2

LEMMA BloquearTipo ==
  ASSUME TipoListas, TipoTcb, NEW p \in ColasDe(Hilos, MensajesCpu), NEW h,
         Bloquear(p, h), salidos' = salidos
  PROVE  /\ TipoListas'
         /\ Len(p.exec) <= 1 => Len(exec') <= 1
         /\ Vacante(Colas') => Vacante(p)
<1>1. CASE h \in ToSet(exec)
  <2>1. h \in Hilos
    BY <1>1, ToSetTipo DEF TipoListas
  <2>2. /\ SacarDeExec(p, h) \in ColasDe(Hilos, MensajesCpu)
        /\ Len(SacarDeExec(p, h).exec) <= Len(p.exec)
    BY SacarCorrecto
  <2>3. Len(p.exec) <= 1 => Len(SacarDeExec(p, h).exec) <= 1
    <3>1. Len(p.exec) \in Nat /\ Len(SacarDeExec(p, h).exec) \in Nat
      BY <2>2, LenProperties DEF ColasDe
    <3>2. QED
      BY <2>2, <3>1
  <2> DEFINE q == Pcp(SacarDeExec(p, h), prioridad)
  <2>4. /\ q \in ColasDe(Hilos, MensajesCpu) /\ ~Vacante(q)
        /\ Len(p.exec) <= 1 => Len(q.exec) <= 1
    BY <2>2, <2>3, PcpTipo
  <2>5. Quedan(q) /\ blocked' = blocked \cup {h}
    BY <1>1 DEF Bloquear
  <2> HIDE DEF q
  <2>6. blocked' \subseteq Hilos /\ salidos' \subseteq Hilos
    BY <2>1, <2>5 DEF TipoListas
  <2>7. TipoListas' /\ Colas' = q /\ exec' = q.exec
    BY <2>4, <2>5, <2>6, QuedanTipo DEF Quedan
  <2>8. QED
    BY <2>4, <2>7
<1>2. CASE h \notin ToSet(exec)
  <2>1. Quedan(p) /\ blocked' = blocked
    BY <1>2 DEF Bloquear
  <2>2. TipoListas' /\ Colas' = p /\ exec' = p.exec
    BY <2>1, QuedanTipo DEF Quedan, TipoListas
  <2>3. QED
    BY <2>2
<1>3. QED
  BY <1>1, <1>2

\* The first step of finalizar_hilo.
LEMMA FhInicioTipo ==
  ASSUME TypeOK, NEW e \in Ejecutores, NEW h, NEW rta \in BOOLEAN,
         FhInicio(e, h, rta), salidos' = salidos
  PROVE  /\ TipoListas'
         /\ memHilos' \subseteq Hilos
         /\ fh' \in [Ejecutores -> FinalizacionesHilo]
         /\ Len(exec) <= 1 => Len(exec') <= 1
         /\ Vacante(Colas') => (Vacante(Colas) /\ fh' = fh) \/ fh'[e].fase # "nada"
<1> USE DEF TypeOK
<1>1. Colas \in ColasDe(Hilos, MensajesCpu)
  BY ColasTipo
<1>2. CASE Existe(h)
  <2>1. h \in Hilos
    BY <1>2, ToSetTipo DEF Existe, TipoListas
  <2> DEFINE p == IF h \in ToSet(ready) THEN [Colas EXCEPT !.ready = RemoveFirst(@, h)]
                  ELSE SacarDeExec(Colas, h)
             r == [fase |-> "pedido", hilo |-> h, mutexes |-> asignados[h],
                   joins |-> esperanJoin[h], rta |-> rta]
  <2>2. Quedan(p) /\ blocked' = blocked \ {h} /\ memHilos' = memHilos \ {h}
        /\ fh' = [fh EXCEPT ![e] = r]
    BY <1>2, Zenon DEF FhInicio
  <2>3. r \in FinalizacionesHilo
    BY <2>1 DEF FinalizacionesHilo, TipoTcb
  <2>4. p \in ColasDe(Hilos, MensajesCpu) /\ (Len(exec) <= 1 => Len(p.exec) <= 1)
    <3>1. RemoveFirst(ready, h) \in Seq(Hilos)
      BY RemoveFirstSeq DEF TipoListas
    <3>2. [Colas EXCEPT !.ready = RemoveFirst(@, h)] \in ColasDe(Hilos, MensajesCpu)
      BY <3>1, <1>1 DEF Colas, ColasDe
    <3>3. SacarDeExec(Colas, h) \in ColasDe(Hilos, MensajesCpu)
          /\ Len(SacarDeExec(Colas, h).exec) <= Len(Colas.exec)
      BY <1>1, SacarCorrecto
    <3>4. Len(exec) <= 1 => Len(SacarDeExec(Colas, h).exec) <= 1
      <4>1. Len(exec) \in Nat /\ Len(SacarDeExec(Colas, h).exec) \in Nat /\ Colas.exec = exec
        BY <3>3, LenProperties DEF ColasDe, TipoListas, Colas
      <4>2. QED
        BY <3>3, <4>1
    <3>5. [Colas EXCEPT !.ready = RemoveFirst(@, h)].exec = exec
      BY DEF Colas
    <3>6. QED
      BY <3>2, <3>3, <3>4, <3>5
  <2> HIDE DEF p, r
  <2>5. blocked' \subseteq Hilos /\ salidos' \subseteq Hilos /\ memHilos' \subseteq Hilos
    BY <2>2 DEF TipoListas, TipoCpu
  <2>6. TipoListas' /\ exec' = p.exec
    BY <2>2, <2>4, <2>5, QuedanTipo DEF Quedan
  <2>7. fh' \in [Ejecutores -> FinalizacionesHilo] /\ fh'[e] = r
    BY <2>2, <2>3 DEF TipoFin
  <2>8. r.fase = "pedido"
    BY DEF r
  <2>9. QED
    BY <2>4, <2>5, <2>6, <2>7, <2>8
<1>3. CASE ~Existe(h)
  <2>1. /\ Quedan(Responder(Colas, rta)) /\ blocked' = blocked /\ memHilos' = memHilos
        /\ fh' = fh
    BY <1>3 DEF FhInicio
  <2>2. /\ Responder(Colas, rta) \in ColasDe(Hilos, MensajesCpu)
        /\ Responder(Colas, rta).ready = ready /\ Responder(Colas, rta).exec = exec
    BY <1>1, ResponderTipo DEF Colas
  <2>3. blocked' \subseteq Hilos /\ salidos' \subseteq Hilos
    BY <2>1 DEF TipoListas
  <2>4. TipoListas' /\ Colas' = Responder(Colas, rta) /\ exec' = exec
    BY <2>1, <2>2, <2>3, QuedanTipo DEF Quedan
  <2>5. Vacante(Colas') => Vacante(Colas)
    BY <2>2, <2>4 DEF Vacante, Colas
  <2>6. QED
    BY <2>1, <2>4, <2>5 DEF TipoCpu, TipoFin
<1>4. QED
  BY <1>2, <1>3

\* protocolo_liberacion_recurso: crashes, or hands the mutex over.
LEMMA ProtocoloTipo ==
  ASSUME TypeOK, NEW m \in Mutexes, NEW asig \in [Hilos -> Seq(Mutexes)], NEW rta \in BOOLEAN,
         Protocolo(m, asig, rta), salidos' = salidos
  PROVE  /\ TipoListas'
         /\ asignados' \in [Hilos -> Seq(Mutexes)]
         /\ duenio' \in [Mutexes -> Hilos \cup {Nadie}]
         /\ bloqueadosMutex' \in [Mutexes -> Seq(Hilos \cup {Nadie})]
         /\ caido' \in {"nadie", "kernel", "memoria"}
         /\ Len(exec) <= 1 => Len(exec') <= 1
         /\ Vacante(Colas') => Vacante(Colas)
<1> USE DEF TypeOK
<1>1. Colas \in ColasDe(Hilos, MensajesCpu) /\ Colas.exec = exec
  BY ColasTipo DEF Colas
<1>2. CASE bloqueadosMutex[m] = <<>>
  <2>1. /\ duenio' = [duenio EXCEPT ![m] = Nadie] /\ asignados' = asig
        /\ Quedan(Responder(Colas, rta)) /\ bloqueadosMutex' = bloqueadosMutex
        /\ blocked' = blocked /\ caido' = caido
    BY <1>2 DEF Protocolo
  <2>2. /\ Responder(Colas, rta) \in ColasDe(Hilos, MensajesCpu)
        /\ Responder(Colas, rta).ready = Colas.ready /\ Responder(Colas, rta).exec = exec
    BY <1>1, ResponderTipo
  <2>3. blocked' \subseteq Hilos /\ salidos' \subseteq Hilos
    BY <2>1 DEF TipoListas
  <2>4. TipoListas' /\ Colas' = Responder(Colas, rta) /\ exec' = exec
    BY <2>1, <2>2, <2>3, QuedanTipo DEF Quedan
  <2>5. duenio' \in [Mutexes -> Hilos \cup {Nadie}]
    BY <2>1 DEF TipoMutex
  <2>6. Vacante(Colas') => Vacante(Colas)
    BY <1>1, <2>2, <2>4 DEF Vacante
  <2>7. QED
    BY <2>1, <2>4, <2>5, <2>6 DEF TipoMutex, TipoCpu
<1>3. CASE bloqueadosMutex[m] # <<>>
  <2> DEFINE w == Heredero(m)
             q == Desbloquear(Colas, w)
  <2>1. w \in Hilos \cup {Nadie} /\ Tail(bloqueadosMutex[m]) \in Seq(Hilos \cup {Nadie})
    <3>1. bloqueadosMutex[m] \in Seq(Hilos \cup {Nadie})
      BY DEF TipoMutex
    <3>2. QED
      BY <1>3, <3>1, ToSetTipo DEF Heredero
  <2>2. /\ bloqueadosMutex' = [bloqueadosMutex EXCEPT ![m] = Tail(bloqueadosMutex[m])]
        /\ blocked' = blocked \ {w} /\ Quedan(Responder(q, rta))
        /\ IF Existe(w)
           THEN /\ asignados' = [asig EXCEPT ![w] = Append(@, m)]
                /\ duenio' = [duenio EXCEPT ![m] = w]
                /\ caido' = caido
           ELSE caido' = "kernel" /\ asignados' = asignados /\ duenio' = duenio
    BY <1>3 DEF Protocolo, Crash
  <2>3. /\ q \in ColasDe(Hilos, MensajesCpu)
        /\ Len(exec) <= 1 => Len(q.exec) <= 1
        /\ Vacante(q) => Vacante(Colas)
    BY <1>1, DesbloquearTipo
  <2>4. Existe(w) => w \in Hilos
    BY ToSetTipo DEF Existe, TipoListas
  <2> HIDE DEF w, q
  <2>5. /\ Responder(q, rta) \in ColasDe(Hilos, MensajesCpu)
        /\ Responder(q, rta).ready = q.ready /\ Responder(q, rta).exec = q.exec
    BY <2>3, ResponderTipo
  <2>6. blocked' \subseteq Hilos /\ salidos' \subseteq Hilos
    BY <2>2 DEF TipoListas
  <2>7. TipoListas' /\ Colas' = Responder(q, rta) /\ exec' = q.exec
    BY <2>2, <2>5, <2>6, QuedanTipo DEF Quedan
  <2>8. bloqueadosMutex' \in [Mutexes -> Seq(Hilos \cup {Nadie})]
    BY <2>1, <2>2 DEF TipoMutex
  <2>9. /\ asignados' \in [Hilos -> Seq(Mutexes)]
        /\ duenio' \in [Mutexes -> Hilos \cup {Nadie}]
        /\ caido' \in {"nadie", "kernel", "memoria"}
    <3>1. CASE Existe(w)
      <4>1. Append(asig[w], m) \in Seq(Mutexes)
        BY <2>4, <3>1, AppendSeq
      <4>2. QED
        BY <2>2, <2>4, <3>1, <4>1 DEF TipoMutex, TipoCpu
    <3>2. CASE ~Existe(w)
      BY <2>2, <3>2 DEF TipoTcb, TipoMutex
    <3>3. QED
      BY <3>1, <3>2
  <2>10. Vacante(Colas') => Vacante(Colas)
    BY <2>3, <2>5, <2>7 DEF Vacante
  <2>11. QED
    BY <2>3, <2>7, <2>8, <2>9, <2>10
<1>4. QED
  BY <1>2, <1>3

\* crear_tcb, of a process that may still create a thread.
LEMMA CrearTcbTipo ==
  ASSUME TypeOK, NEW q \in Pids, siguienteTid[q] <= MaxTid, NEW pr \in Prioridades,
         NEW p \in ColasDe(Hilos, MensajesCpu), CrearTcb(q, pr, p),
         blocked' = blocked, salidos' = salidos
  PROVE  /\ TipoListas'
         /\ siguienteTid' \in [Pids -> 0 .. MaxTid + 1]
         /\ listaIds' \in [Pids -> Seq(Hilos)]
         /\ prioridad' \in [Hilos -> Prioridades]
         /\ memHilos' \subseteq Hilos
         /\ pcpPend' \in Nat \ {0}
         /\ exec' = p.exec
<1> USE DEF TypeOK
<1> DEFINE h == <<q, siguienteTid[q]>>
<1>1. siguienteTid[q] \in Nat /\ siguienteTid[q] + 1 \in 0 .. MaxTid + 1 /\ h \in Hilos
  BY ConstantesTipo DEF TipoPcb, Hilos, Tids
<1>2. /\ siguienteTid' = [siguienteTid EXCEPT ![q] = @ + 1]
      /\ listaIds' = [listaIds EXCEPT ![q] = IF siguienteTid[q] = 0 THEN @ ELSE Append(@, h)]
      /\ prioridad' = [prioridad EXCEPT ![h] = pr]
      /\ memHilos' = memHilos \cup {h}
      /\ Quedan(Encolar(p, h))
      /\ pcpPend' = pcpPend + 1
  BY DEF CrearTcb
<1> HIDE DEF h
<1>3. Encolar(p, h) \in ColasDe(Hilos, MensajesCpu) /\ Encolar(p, h).exec = p.exec
  BY <1>1, EncolarEnviarCorrecto
<1>4. TipoListas' /\ exec' = p.exec
  BY <1>2, <1>3, QuedanTipo DEF Quedan, TipoListas
<1>5. listaIds' \in [Pids -> Seq(Hilos)]
  <2>1. Append(listaIds[q], h) \in Seq(Hilos)
    BY <1>1, AppendSeq DEF TipoPcb
  <2>2. QED
    BY <1>2, <2>1 DEF TipoPcb
<1>6. siguienteTid' \in [Pids -> 0 .. MaxTid + 1]
  BY <1>1, <1>2 DEF TipoPcb
<1>7. /\ prioridad' \in [Hilos -> Prioridades]
      /\ memHilos' \subseteq Hilos /\ pcpPend' \in Nat \ {0}
  BY <1>1, <1>2 DEF TipoTcb, TipoCpu, TipoFin
<1>8. QED
  BY <1>4, <1>5, <1>6, <1>7

-----------------------------------------------------------------------------
(***************************************************************************)
(* The inductive invariant.  UnoEnExec and TrabajoConservado are inductive *)
(* once the types are known; the type of siguienteTid needs NuevosSinHilos *)
(* because a process leaves NEW without asking whether it has tids left.   *)
(***************************************************************************)
IInv == TypeOK /\ NuevosSinHilos /\ UnoEnExec /\ TrabajoConservado

\* A request the handler takes, and what is left.
LEMMA PedidaTipo ==
  ASSUME TypeOK, aKernel # <<>>
  PROVE  /\ Pedida \in MensajesKernel /\ Tail(aKernel) \in Seq(MensajesKernel)
         /\ Hallado => H \in Hilos /\ P \in Pids
         /\ H \in Hilos \cup {Nadie}
<1>1. aKernel \in Seq(MensajesKernel)
  BY DEF TypeOK, TipoCpu
<1>2. Pedida \in MensajesKernel /\ Tail(aKernel) \in Seq(MensajesKernel)
  BY <1>1, ToSetTipo DEF Pedida
<1>3. ASSUME Hallado PROVE H \in Hilos
  <2>1. ToSet(exec) \subseteq Hilos
    BY ToSetTipo DEF TypeOK, TipoListas
  <2>2. CASE Pedida.op = "HALLADO"
    BY <1>2, <2>2 DEF MensajesKernel, H, Pedida
  <2>3. CASE H \in ToSet(exec)
    BY <2>1, <2>3
  <2>4. QED
    BY <1>3, <2>2, <2>3 DEF Hallado
<1>4. H \in Hilos => P \in Pids
  BY DEF H, P, Hilos
<1>5. H \in Hilos \cup {Nadie}
  BY <1>2 DEF MensajesKernel, H, Pedida
<1>6. QED
  BY <1>2, <1>3, <1>4, <1>5

\* A request the CPU sends.
LEMMA PedidoTipo ==
  ASSUME TypeOK, NEW m \in MensajesKernel
  PROVE  Append(aKernel, m) \in Seq(MensajesKernel)
  BY AppendSeq DEF TypeOK, TipoCpu

LEMMA IdLeidoTipo ==
  ASSUME NEW h \in Hilos \cup {Nadie}
  PROVE  IdLeido(h) \subseteq Hilos \cup {Nadie}
  BY DEF IdLeido

\* A step that leaves the lists no vacancy they did not have, asks for as many
\* passes and ends no finalizar_hilo.
LEMMA PaseConservado ==
  ASSUME TrabajoConservado, EnMarcha, Vacante(Colas') => Vacante(Colas), pcpPend' = pcpPend,
         \A e \in Ejecutores : fh[e].fase # "nada" => fh'[e].fase # "nada"
  PROVE  TrabajoConservado'
  BY DEF TrabajoConservado, Vacante, Colas, EnMarcha

LEMMA SinVacante ==
  ASSUME ~Vacante(Colas')
  PROVE  TrabajoConservado'
  BY DEF TrabajoConservado, Vacante, Colas

\* The next record of a finalizar_hilo.
LEMMA FinalizacionTipo ==
  ASSUME TipoFin, NEW e \in Ejecutores, fh[e].fase # "nada", NEW r \in FinalizacionesHilo,
         fh' = [fh EXCEPT ![e] = r]
  PROVE  /\ fh' \in [Ejecutores -> FinalizacionesHilo]
         /\ fh'[e] = r
         /\ \A o \in Ejecutores : o # e => fh'[o] = fh[o]
  BY DEF TipoFin

LEMMA FaseTipo ==
  ASSUME NEW r \in FinalizacionesHilo, r.fase # "nada", NEW f \in {"mutexes", "joins"},
         NEW ms \in Seq(Mutexes), NEW js \in Seq(Hilos \cup {Nadie})
  PROVE  /\ r.hilo \in Hilos /\ r.rta \in BOOLEAN
         /\ r.mutexes \in Seq(Mutexes) /\ r.joins \in Seq(Hilos \cup {Nadie})
         /\ [r EXCEPT !.fase = f] \in FinalizacionesHilo /\ [r EXCEPT !.fase = f].fase = f
         /\ [r EXCEPT !.mutexes = ms] \in FinalizacionesHilo
         /\ [r EXCEPT !.mutexes = ms].fase = r.fase
         /\ [r EXCEPT !.joins = js] \in FinalizacionesHilo
         /\ [r EXCEPT !.joins = js].fase = r.fase
  BY DEF FinalizacionesHilo

\* A step of finalizar_hilo preserves the invariant.
LEMMA FinalizarHiloPreserva ==
  ASSUME IInv, NEW e \in Ejecutores, FinalizarHilo(e)
  PROVE  IInv'
<1> USE DEF IInv, TypeOK
<1>1. fh[e] \in FinalizacionesHilo /\ EnMarcha /\ fh[e].fase # "nada"
  BY DEF TipoFin, FinalizarHilo, FhTomar, FhMutex, FhSalir, FhJoin, FhFin
<1>2. CASE FhTomar(e)
  <2>1. bloqueadosMutex' \in [Mutexes -> Seq(Hilos \cup {Nadie})]
    BY <1>2, RemoveFirstSeq DEF FhTomar, TipoMutex
  <2> DEFINE r == [fh[e] EXCEPT !.fase = "mutexes"]
  <2>2. r \in FinalizacionesHilo /\ r.fase = "mutexes"
    BY <1>1, FaseTipo DEF FinalizacionesHilo
  <2>3. fh' = [fh EXCEPT ![e] = r]
    BY <1>2 DEF FhTomar
  <2> HIDE DEF r
  <2>4. /\ fh' \in [Ejecutores -> FinalizacionesHilo]
        /\ \A o \in Ejecutores : fh[o].fase # "nada" => fh'[o].fase # "nada"
    BY <1>1, <2>2, <2>3, FinalizacionTipo
  <2>5. QED
    BY <1>2, <2>1, <2>4 DEF FhTomar, vListas, vTcb, vPcb, vFin, vDump, vMemoria, vCpu,
       TipoListas, TipoTcb, TipoPcb, TipoMutex, TipoFin, TipoDump, TipoCpu, NuevosSinHilos,
       UnoEnExec, TrabajoConservado, EnMarcha
<1>3. CASE FhMutex(e)
  <2> DEFINE m == Head(fh[e].mutexes)
             r == [fh[e] EXCEPT !.mutexes = Tail(fh[e].mutexes)]
  <2>1. m \in Mutexes /\ Tail(fh[e].mutexes) \in Seq(Mutexes)
    BY <1>1, <1>3, FaseTipo, ToSetTipo DEF FhMutex, FinalizacionesHilo
  <2>2. r \in FinalizacionesHilo /\ r.fase = fh[e].fase
    BY <1>1, <2>1, FaseTipo DEF FinalizacionesHilo
  <2>3. fh' = [fh EXCEPT ![e] = r] /\ Protocolo(m, asignados, FALSE) /\ salidos' = salidos
    BY <1>3 DEF FhMutex
  <2> HIDE DEF r, m
  <2>4. /\ fh' \in [Ejecutores -> FinalizacionesHilo]
        /\ \A o \in Ejecutores : fh[o].fase # "nada" => fh'[o].fase # "nada"
    BY <1>1, <2>2, <2>3, FinalizacionTipo
  <2>5. /\ TipoListas'
        /\ asignados' \in [Hilos -> Seq(Mutexes)]
        /\ duenio' \in [Mutexes -> Hilos \cup {Nadie}]
        /\ bloqueadosMutex' \in [Mutexes -> Seq(Hilos \cup {Nadie})]
        /\ caido' \in {"nadie", "kernel", "memoria"}
        /\ Len(exec) <= 1 => Len(exec') <= 1
        /\ Vacante(Colas') => Vacante(Colas)
    BY <2>1, <2>3, ProtocoloTipo DEF TipoTcb
  <2>6. TrabajoConservado'
    BY <1>1, <1>3, <2>4, <2>5, PaseConservado DEF FhMutex
  <2>7. QED
    BY <1>3, <2>4, <2>5, <2>6 DEF FhMutex, vPcb, vFin, vDump, vMemoria, vCpu,
       TipoTcb, TipoPcb, TipoMutex, TipoFin, TipoDump, TipoCpu, NuevosSinHilos, UnoEnExec
<1>4. CASE FhSalir(e)
  <2> DEFINE r == [fh[e] EXCEPT !.fase = "joins"]
  <2>1. r \in FinalizacionesHilo /\ r.fase = "joins" /\ fh[e].hilo \in Hilos
    BY <1>1, FaseTipo DEF FinalizacionesHilo
  <2>2. fh' = [fh EXCEPT ![e] = r]
    BY <1>4 DEF FhSalir
  <2> HIDE DEF r
  <2>3. /\ fh' \in [Ejecutores -> FinalizacionesHilo]
        /\ \A o \in Ejecutores : fh[o].fase # "nada" => fh'[o].fase # "nada"
    BY <1>1, <2>1, <2>2, FinalizacionTipo
  <2>4. listaIds' \in [Pids -> Seq(Hilos)] /\ salidos' \subseteq Hilos
    BY <1>4, <2>1, RemoveFirstSeq DEF FhSalir, TipoPcb, TipoListas
  <2>5. QED
    BY <1>4, <2>3, <2>4 DEF FhSalir, vTcb, vMutex, vFin, vDump, vMemoria, vCpu,
       TipoListas, TipoTcb, TipoPcb, TipoMutex, TipoFin, TipoDump, TipoCpu, NuevosSinHilos,
       UnoEnExec, TrabajoConservado, EnMarcha
<1>5. CASE FhJoin(e)
  <2> DEFINE h == Head(fh[e].joins)
             r == [fh[e] EXCEPT !.joins = Tail(fh[e].joins)]
             q == Desbloquear(Colas, h)
  <2>1. Tail(fh[e].joins) \in Seq(Hilos \cup {Nadie})
    BY <1>1, <1>5, FaseTipo, ToSetTipo DEF FhJoin, FinalizacionesHilo
  <2>2. r \in FinalizacionesHilo /\ r.fase = fh[e].fase
    BY <1>1, <2>1, FaseTipo DEF FinalizacionesHilo
  <2>3. /\ fh' = [fh EXCEPT ![e] = r] /\ Quedan(q) /\ salidos' = salidos
        /\ blocked' = blocked \ {h}
    BY <1>5 DEF FhJoin
  <2>4. /\ q \in ColasDe(Hilos, MensajesCpu)
        /\ Len(exec) <= 1 => Len(q.exec) <= 1
        /\ Vacante(q) => Vacante(Colas)
    BY ColasTipo, DesbloquearTipo DEF Colas
  <2> HIDE DEF r, h, q
  <2>5. /\ fh' \in [Ejecutores -> FinalizacionesHilo]
        /\ \A o \in Ejecutores : fh[o].fase # "nada" => fh'[o].fase # "nada"
    BY <1>1, <2>2, <2>3, FinalizacionTipo
  <2>6. TipoListas' /\ Colas' = q /\ exec' = q.exec
    BY <2>3, <2>4, QuedanTipo DEF Quedan, TipoListas
  <2>7. TrabajoConservado'
    BY <1>1, <1>5, <2>4, <2>5, <2>6, PaseConservado DEF FhJoin
  <2>8. QED
    BY <1>5, <2>4, <2>5, <2>6, <2>7 DEF FhJoin, vTcb, vPcb, vMutex, vFin, vDump, vMemoria, vCpu,
       TipoTcb, TipoPcb, TipoMutex, TipoFin, TipoDump, TipoCpu, NuevosSinHilos, UnoEnExec
<1>6. CASE FhFin(e)
  <2> DEFINE p == Pcp(Colas, prioridad)
             q == Responder(p, fh[e].rta)
  <2>1. fh[e].rta \in BOOLEAN /\ fh[e].hilo \in Hilos /\ FhNada \in FinalizacionesHilo
    BY <1>1, EmptySeq DEF FinalizacionesHilo, FhNada
  <2>2. /\ p \in ColasDe(Hilos, MensajesCpu) /\ ~Vacante(p)
        /\ Len(exec) <= 1 => Len(p.exec) <= 1
    BY ColasTipo, PcpTipo DEF Colas
  <2>3. Quedan(q) /\ fh' = [fh EXCEPT ![e] = FhNada]
    BY <1>6 DEF FhFin
  <2> HIDE DEF p
  <2>4. q \in ColasDe(Hilos, MensajesCpu) /\ q.ready = p.ready /\ q.exec = p.exec
    BY <2>1, <2>2, ResponderTipo
  <2> HIDE DEF q
  <2>5. TipoListas' /\ Colas' = q /\ exec' = q.exec
    BY <1>6, <2>3, <2>4, QuedanTipo DEF Quedan, TipoListas, FhFin
  <2>6. TrabajoConservado'
    BY <2>2, <2>4, <2>5, SinVacante DEF Vacante
  <2>7. fh' \in [Ejecutores -> FinalizacionesHilo]
    BY <1>1, <2>1, <2>3, FinalizacionTipo
  <2>8. idLiberado' \subseteq Hilos
    BY <1>6, <2>1 DEF FhFin, TipoDump
  <2>9. QED
    BY <1>6, <2>2, <2>4, <2>5, <2>6, <2>7, <2>8 DEF FhFin, vTcb, vPcb, vMutex, vFin, vMemoria, vCpu,
       TipoTcb, TipoPcb, TipoMutex, TipoFin, TipoDump, TipoCpu, NuevosSinHilos, UnoEnExec
<1>7. QED
  BY <1>2, <1>3, <1>4, <1>5, <1>6 DEF FinalizarHilo

\* The detached scheduling pass preserves the invariant.
LEMMA PcpSueltoPreserva ==
  ASSUME IInv, PcpSuelto
  PROVE  IInv'
<1> USE DEF IInv, TypeOK
<1> DEFINE p == Pcp(Colas, prioridad)
<1>1. /\ p \in ColasDe(Hilos, MensajesCpu) /\ ~Vacante(p)
      /\ Len(exec) <= 1 => Len(p.exec) <= 1
  BY ColasTipo, PcpTipo DEF Colas
<1>2. Quedan(p) /\ pcpPend > 0 /\ pcpPend' = pcpPend - 1
  BY DEF PcpSuelto
<1> HIDE DEF p
<1>3. TipoListas' /\ Colas' = p /\ exec' = p.exec
  BY <1>1, <1>2, QuedanTipo DEF Quedan, TipoListas, PcpSuelto
<1>4. TrabajoConservado'
  BY <1>1, <1>3, SinVacante
<1>5. QED
  BY <1>1, <1>2, <1>3, <1>4 DEF PcpSuelto, vTcb, vPcb, vMutex, vFin, vDump, vMemoria, vCpu,
     TipoTcb, TipoPcb, TipoMutex, TipoFin, TipoDump, TipoCpu, NuevosSinHilos, UnoEnExec

\* A step of the CPU or of a program preserves the invariant: it only takes and
\* sends messages.
LEMMA CpuPreserva ==
  ASSUME IInv, Cpu \/ Programa
  PROVE  IInv'
<1> USE DEF IInv, TypeOK
<1>1. /\ UNCHANGED <<vListas, vTcb, vPcb, vMutex, pcpPend, fh, vFin, vDump, vMemoria, caido>>
      /\ aCpu' = aCpu \/ (aCpu # <<>> /\ aCpu' = Tail(aCpu))
  BY DEF Cpu, Programa, CpuRecibeEjecutar, CpuRecibeRta, CpuGuarda, CpuSinHilo, CpuSyscall,
         CpuSegmentationFault, vCpu
<1>2. aCpu' \in Seq(MensajesCpu) /\ (aCpu # <<>> => Head(aCpu) \in MensajesCpu)
  <2>1. aCpu \in Seq(MensajesCpu) /\ (aCpu' = aCpu \/ (aCpu # <<>> /\ aCpu' = Tail(aCpu)))
    BY <1>1 DEF TipoListas
  <2>2. aCpu # <<>> => Head(aCpu) \in MensajesCpu /\ Tail(aCpu) \in Seq(MensajesCpu)
    BY ONLY <2>1, HeadTailProperties
  <2>3. QED
    BY ONLY <2>1, <2>2
<1>3. ASSUME NEW c \in Hilos \cup {Nadie}, NEW i \in {"THREAD_EXIT", "PROCESS_EXIT"}
      PROVE  Append(aKernel, Pedido(c, i, 0)) \in Seq(MensajesKernel)
  <2>1. Pedido(c, i, 0) \in MensajesKernel
    BY ConstantesTipo DEF Pedido, MensajesKernel, ConRespuesta, SinRespuesta
  <2>2. QED
    BY <2>1, PedidoTipo
<1>4. /\ aKernel' \in Seq(MensajesKernel)
      /\ cpu' \in {"libre", "corriendo", "espera", "esperaDesalojo", "guardando", "colgada"}
      /\ contexto' \in Hilos \cup {Nadie}
  <2>1. CASE CpuRecibeEjecutar
    BY <1>2, <1>3, <2>1 DEF CpuRecibeEjecutar, TipoCpu, vCpu
  <2>2. CASE CpuRecibeRta
    <3>1. Desalojo(contexto) \in MensajesKernel
      BY DEF Desalojo, MensajesKernel, TipoCpu, ConRespuesta, SinRespuesta
    <3>2. Append(aKernel, Desalojo(contexto)) \in Seq(MensajesKernel)
      BY <3>1, PedidoTipo
    <3>3. QED
      BY <2>2, <3>2 DEF CpuRecibeRta, TipoCpu
  <2>3. CASE CpuGuarda \/ CpuSinHilo
    BY <2>3 DEF CpuGuarda, CpuSinHilo, TipoCpu
  <2>4. CASE CpuSegmentationFault
    BY <1>3, <2>4 DEF CpuSegmentationFault, TipoCpu
  <2>5. ASSUME NEW i \in Instrucciones, CpuSyscall(i)
        PROVE  /\ aKernel' \in Seq(MensajesKernel) /\ contexto' = contexto
               /\ cpu' \in {"libre", "corriendo", "espera", "esperaDesalojo", "guardando"}
    <3>1. PICK a \in Argumentos(contexto, i) : aKernel' = Append(aKernel, Pedido(contexto, i, a))
      BY <2>5 DEF CpuSyscall
    <3>2. i \in ConRespuesta \cup SinRespuesta
      BY ProgramasAssumption
    <3>3. Pedido(contexto, i, a) \in MensajesKernel
      BY <3>1, <3>2, ConstantesTipo
      DEF Pedido, MensajesKernel, TipoCpu, Argumentos, ConRespuesta, SinRespuesta
    <3>4. aKernel' \in Seq(MensajesKernel)
      BY <3>1, <3>3, PedidoTipo
    <3>5. QED
      BY <2>5, <3>4 DEF CpuSyscall
  <2>6. QED
    BY <2>1, <2>2, <2>3, <2>4, <2>5 DEF Cpu, Programa, TipoCpu
<1>5. QED
  BY <1>1, <1>2, <1>4 DEF vListas, vTcb, vPcb, vMutex, vFin, vDump, vMemoria,
     TipoListas, TipoTcb, TipoPcb, TipoMutex, TipoFin, TipoDump, TipoCpu, NuevosSinHilos,
     UnoEnExec, TrabajoConservado, EnMarcha

\* A step of atender_dump_memory preserves the invariant.
LEMMA DumpMemoryPreserva ==
  ASSUME IInv, NEW h \in Hilos, DumpMemory(h)
  PROVE  IInv'
<1> USE DEF IInv, TypeOK
<1>1. IdLeido(h) \subseteq Hilos \cup {Nadie} /\ Colas \in ColasDe(Hilos, MensajesCpu)
      /\ Colas.exec = exec
  BY IdLeidoTipo, ColasTipo DEF Colas
<1>2. CASE DumpBloquear(h)
  <2>1. PICK v \in IdLeido(h) : Bloquear(Colas, v)
    BY <1>2 DEF DumpBloquear
  <2>2. /\ TipoListas' /\ (Len(exec) <= 1 => Len(exec') <= 1)
        /\ Vacante(Colas') => Vacante(Colas)
    BY <1>1, <1>2, <2>1, BloquearTipo DEF DumpBloquear
  <2>3. TrabajoConservado'
    BY <1>2, <2>2, PaseConservado DEF DumpBloquear
  <2>4. QED
    BY <1>2, <2>2, <2>3 DEF DumpBloquear, vTcb, vPcb, vMutex, vFin, vCpu,
       TipoTcb, TipoPcb, TipoMutex, TipoFin, TipoDump, TipoCpu, NuevosSinHilos, UnoEnExec
<1>3. CASE DumpResponder(h)
  <2>1. /\ dumpMem' \subseteq Hilos /\ rtaDump' \in {"NADA", "OK", "ERROR"}
        /\ dump' \in [Hilos -> {"nada", "bloquear", "pedido", "respondido"}]
        /\ caido' \in {"nadie", "kernel", "memoria"}
    BY <1>3 DEF DumpResponder, TipoDump, TipoCpu, Crash
  <2>2. QED
    BY <1>3, <2>1 DEF DumpResponder, vListas, vTcb, vPcb, vMutex, vFin, vCpu, EnMarcha,
       TipoListas, TipoTcb, TipoPcb, TipoMutex, TipoFin, TipoDump, TipoCpu, NuevosSinHilos,
       UnoEnExec, TrabajoConservado
<1>4. CASE DumpConcluir(h)
  <2>1. PICK v \in IdLeido(h) :
          IF rtaDump = "OK"
          THEN /\ Quedan(Desbloquear(Colas, v)) /\ blocked' = blocked \ {v}
               /\ finPend' = finPend
          ELSE /\ finPend' = IF v \in Hilos THEN [finPend EXCEPT ![v[1]] = @ + 1] ELSE finPend
               /\ Quedan(Colas) /\ blocked' = blocked
    BY <1>4 DEF DumpConcluir
  <2> DEFINE q == IF rtaDump = "OK" THEN Desbloquear(Colas, v) ELSE Colas
  <2>2. Quedan(q) /\ blocked' \subseteq Hilos
    BY <2>1 DEF TipoListas
  <2>3. /\ q \in ColasDe(Hilos, MensajesCpu)
        /\ Len(exec) <= 1 => Len(q.exec) <= 1
        /\ Vacante(q) => Vacante(Colas)
    BY <1>1, DesbloquearTipo
  <2>4. finPend' \in [Pids -> Nat]
    BY <2>1 DEF TipoFin, Hilos
  <2> HIDE DEF q
  <2>5. TipoListas' /\ Colas' = q /\ exec' = q.exec
    BY <1>4, <2>2, <2>3, QuedanTipo DEF Quedan, TipoListas, DumpConcluir
  <2>6. TrabajoConservado'
    BY <1>4, <2>3, <2>5, PaseConservado DEF DumpConcluir
  <2>7. QED
    BY <1>4, <2>3, <2>4, <2>5, <2>6 DEF DumpConcluir, vTcb, vPcb, vMutex, vMemoria, vCpu,
       TipoTcb, TipoPcb, TipoMutex, TipoFin, TipoDump, TipoCpu, NuevosSinHilos, UnoEnExec
<1>5. QED
  BY <1>2, <1>3, <1>4 DEF DumpMemory

\* The first process in NEW: not in memory, with all its tids left.
LEMMA PrimeroDeNew ==
  ASSUME TypeOK, NuevosSinHilos, pcbNew # <<>>
  PROVE  LET q == Head(pcbNew)
         IN  /\ q \in Pids /\ q < siguientePid /\ siguienteTid[q] = 0
             /\ Tail(pcbNew) \in Seq(Pids) /\ IsInjective(Tail(pcbNew))
             /\ ToSet(Tail(pcbNew)) = ToSet(pcbNew) \ {q}
<1> DEFINE q == Head(pcbNew)
           t == Tail(pcbNew)
<1>1. pcbNew \in Seq(Pids)
  BY DEF TypeOK, TipoPcb
<1>2. q \in ToSet(pcbNew) /\ q \in Pids /\ t \in Seq(Pids)
  BY <1>1, ToSetTipo
<1>3. q < siguientePid /\ siguienteTid[q] = 0
  BY <1>2 DEF NuevosSinHilos
<1>4. /\ q = pcbNew[1] /\ Len(pcbNew) \in Nat \ {0} /\ Len(t) = Len(pcbNew) - 1
      /\ DOMAIN pcbNew = 1 .. Len(pcbNew) /\ DOMAIN t = 1 .. Len(t)
      /\ \A i \in 1 .. Len(t) : t[i] = pcbNew[i + 1]
  BY <1>1, <1>2, EmptySeq, LenProperties, HeadTailProperties
<1> HIDE DEF q, t
<1>5. \A i, j \in 1 .. Len(pcbNew) : pcbNew[i] = pcbNew[j] => i = j
  BY <1>4 DEF NuevosSinHilos, IsInjective
<1>6. IsInjective(t)
  BY <1>4, <1>5 DEF IsInjective
<1>7. ToSet(t) \subseteq ToSet(pcbNew) \ {q}
  BY <1>4, <1>5 DEF ToSet
<1>8. ASSUME NEW x \in ToSet(pcbNew), x # q
      PROVE  x \in ToSet(t)
  <2>1. PICK i \in 1 .. Len(pcbNew) : x = pcbNew[i]
    BY <1>4 DEF ToSet
  <2>2. i # 1 /\ i - 1 \in 1 .. Len(t) /\ t[i - 1] = x
    BY <1>4, <1>8, <2>1
  <2>3. QED
    BY <1>4, <2>2 DEF ToSet
<1>9. QED
  BY <1>2, <1>3, <1>6, <1>7, <1>8 DEF q, t

\* A step of finalizar_proceso preserves the invariant.
LEMMA FinalizarProcesoPreserva ==
  ASSUME IInv, NEW p \in Pids, FinalizarProceso(p)
  PROVE  IInv'
<1> USE DEF IInv, TypeOK
<1>1. Colas \in ColasDe(Hilos, MensajesCpu) /\ Colas.exec = exec /\ p \in Ejecutores
      /\ EnMarcha
  BY ColasTipo DEF Colas, Ejecutores, FinalizarProceso, FinMemoria, FinTomar, FinHilo, FinCero,
                   FinReplanificar, FinSalir
<1>2. CASE FinMemoria(p)
  <2>1. /\ memProc' \subseteq Pids
        /\ finalizado' \in [Pids -> BOOLEAN] /\ caido' \in {"nadie", "kernel", "memoria"}
    BY <1>2 DEF FinMemoria, TipoCpu, TipoPcb, Crash
  <2>2. finPend' \in [Pids -> Nat]
    <3>1. finPend[p] - 1 \in Nat /\ finPend' = [finPend EXCEPT ![p] = finPend[p] - 1]
      BY <1>2 DEF FinMemoria, TipoFin
    <3>2. QED
      BY <3>1 DEF TipoFin
  <2>3. fin' \in [Pids -> [fase : {"nada", "tomar", "hilos", "cero"}, i : Nat \ {0}, cero : BOOLEAN]]
    <3>1. fin' = fin \/ fin' = [fin EXCEPT ![p].fase = "tomar"]
      BY <1>2 DEF FinMemoria
    <3>2. QED
      BY <3>1 DEF TipoFin
  <2>4. QED
    BY <1>2, <2>1, <2>2, <2>3 DEF FinMemoria, vListas, vTcb, vMutex, vDump, vCpu, EnMarcha,
       TipoListas, TipoTcb, TipoPcb, TipoMutex, TipoFin, TipoDump, TipoCpu, NuevosSinHilos,
       UnoEnExec, TrabajoConservado
<1>3. CASE FinTomar(p)
  <2>1. listaIds' \in [Pids -> Seq(Hilos)]
    BY <1>3, RemoveFirstSeq DEF FinTomar, TipoPcb
  <2>2. fin' \in [Pids -> [fase : {"nada", "tomar", "hilos", "cero"}, i : Nat \ {0}, cero : BOOLEAN]]
    BY <1>3 DEF FinTomar, TipoFin
  <2>3. QED
    BY <1>3, <2>1, <2>2 DEF FinTomar, vListas, vTcb, vMutex, vDump, vMemoria, vCpu, EnMarcha,
       TipoListas, TipoTcb, TipoPcb, TipoMutex, TipoFin, TipoDump, TipoCpu, NuevosSinHilos,
       UnoEnExec, TrabajoConservado
<1>4. CASE FinHilo(p)
  <2>1. fin' \in [Pids -> [fase : {"nada", "tomar", "hilos", "cero"}, i : Nat \ {0}, cero : BOOLEAN]]
    <3>1. fin' = [fin EXCEPT ![p].i = fin[p].i + 1] /\ fin[p].i + 1 \in Nat \ {0}
      BY <1>4 DEF FinHilo, TipoFin
    <3>2. QED
      BY <3>1 DEF TipoFin
  <2>2. FhInicio(p, listaIds[p][fin[p].i], FALSE) /\ salidos' = salidos
    BY <1>4 DEF FinHilo
  <2>3. /\ TipoListas' /\ memHilos' \subseteq Hilos
        /\ fh' \in [Ejecutores -> FinalizacionesHilo]
        /\ Len(exec) <= 1 => Len(exec') <= 1
        /\ Vacante(Colas') => (Vacante(Colas) /\ fh' = fh) \/ fh'[p].fase # "nada"
    BY <1>1, <2>2, FhInicioTipo
  <2>4. TrabajoConservado'
    BY <1>1, <1>4, <2>3 DEF FinHilo, TrabajoConservado, Vacante, Colas, EnMarcha
  <2>5. QED
    BY <1>4, <2>1, <2>3, <2>4 DEF FinHilo, vTcb, vPcb, vMutex, vDump, vCpu,
       TipoTcb, TipoPcb, TipoMutex, TipoFin, TipoDump, TipoCpu, NuevosSinHilos, UnoEnExec
<1>5. CASE FinCero(p)
  <2>1. fin' \in [Pids -> [fase : {"nada", "tomar", "hilos", "cero"}, i : Nat \ {0}, cero : BOOLEAN]]
    BY <1>5 DEF FinCero, TipoFin
  <2>2. CASE fin[p].cero
    <3>1. FhInicio(p, <<p, 0>>, FALSE) /\ salidos' = salidos /\ caido' = caido
      BY <1>5, <2>2 DEF FinCero
    <3>2. /\ TipoListas' /\ memHilos' \subseteq Hilos
          /\ fh' \in [Ejecutores -> FinalizacionesHilo]
          /\ Len(exec) <= 1 => Len(exec') <= 1
          /\ Vacante(Colas') => (Vacante(Colas) /\ fh' = fh) \/ fh'[p].fase # "nada"
      BY <1>1, <3>1, FhInicioTipo
    <3>3. TrabajoConservado'
      BY <1>1, <1>5, <3>2 DEF FinCero, TrabajoConservado, Vacante, Colas, EnMarcha
    <3>4. QED
      BY <1>5, <2>1, <3>1, <3>2, <3>3 DEF FinCero, vTcb, vPcb, vMutex, vDump, vCpu,
         TipoTcb, TipoPcb, TipoMutex, TipoFin, TipoDump, TipoCpu, NuevosSinHilos, UnoEnExec
  <2>3. CASE ~fin[p].cero
    <3>1. caido' = "kernel" /\ Quedan(Colas) /\ blocked' = blocked /\ memHilos' = memHilos /\ fh' = fh
      BY <1>5, <2>3 DEF FinCero, Crash
    <3>2. ready' = ready /\ exec' = exec /\ aCpu' = aCpu
      BY <3>1 DEF Quedan, Colas
    <3>3. QED
      BY <1>5, <2>1, <3>1, <3>2 DEF FinCero, vTcb, vPcb, vMutex, vDump, vCpu, EnMarcha, TipoListas,
         TipoTcb, TipoPcb, TipoMutex, TipoFin, TipoDump, TipoCpu, NuevosSinHilos, UnoEnExec,
         TrabajoConservado
  <2>4. QED
    BY <2>2, <2>3
<1>6. CASE FinReplanificar(p)
  <2> DEFINE q == Head(pcbNew)
  <2>1. /\ q \in Pids /\ q < siguientePid /\ siguienteTid[q] = 0
        /\ Tail(pcbNew) \in Seq(Pids) /\ IsInjective(Tail(pcbNew))
        /\ ToSet(Tail(pcbNew)) = ToSet(pcbNew) \ {q}
    BY <1>6, PrimeroDeNew DEF FinReplanificar
  <2>2. siguienteTid[q] <= MaxTid
    BY <2>1, ConstantesTipo
  <2>3. /\ CrearTcb(q, prioridad[<<q, 0>>], Colas) /\ pcbNew' = Tail(pcbNew)
        /\ pcbMem' = pcbMem \cup {q} /\ memProc' = memProc \cup {q}
        /\ blocked' = blocked /\ salidos' = salidos /\ siguientePid' = siguientePid
    BY <1>6 DEF FinReplanificar
  <2>4. siguienteTid' = [siguienteTid EXCEPT ![q] = @ + 1]
    BY <2>3 DEF CrearTcb
  <2> HIDE DEF q
  <2>5. prioridad[<<q, 0>>] \in Prioridades
    BY <2>1, ConstantesTipo DEF TipoTcb, Hilos
  <2>6. /\ TipoListas'
        /\ siguienteTid' \in [Pids -> 0 .. MaxTid + 1]
        /\ listaIds' \in [Pids -> Seq(Hilos)]
        /\ prioridad' \in [Hilos -> Prioridades]
        /\ memHilos' \subseteq Hilos /\ pcpPend' \in Nat \ {0} /\ exec' = exec
    BY <1>1, <2>1, <2>2, <2>3, <2>5, CrearTcbTipo
  <2>7. NuevosSinHilos'
    <3>1. \A o \in Pids : o # q => siguienteTid'[o] = siguienteTid[o]
      BY <2>4 DEF TipoPcb
    <3>2. ToSet(pcbNew') = ToSet(pcbNew) \ {q} /\ IsInjective(pcbNew')
      BY <2>1, <2>3
    <3>3. ToSet(pcbNew) \subseteq Pids /\ Pids \subseteq Nat /\ siguientePid \in Nat
      BY ToSetTipo, ConstantesTipo DEF TipoPcb
    <3>4. QED
      BY <2>1, <2>3, <3>1, <3>2, <3>3 DEF NuevosSinHilos, TipoPcb
  <2>8. TrabajoConservado'
    BY <2>6 DEF TrabajoConservado
  <2>9. QED
    BY <1>6, <2>1, <2>3, <2>6, <2>7, <2>8 DEF FinReplanificar, vMutex, vFin, vDump, vCpu,
       TipoTcb, TipoPcb, TipoMutex, TipoFin, TipoDump, TipoCpu, UnoEnExec
<1>7. CASE FinSalir(p)
  <2>1. fin' \in [Pids -> [fase : {"nada", "tomar", "hilos", "cero"}, i : Nat \ {0}, cero : BOOLEAN]]
    BY <1>7 DEF FinSalir, TipoFin, FinNada
  <2>2. QED
    BY <1>7, <2>1 DEF FinSalir, vListas, vTcb, vMutex, vDump, vMemoria, vCpu, EnMarcha,
       TipoListas, TipoTcb, TipoPcb, TipoMutex, TipoFin, TipoDump, TipoCpu, NuevosSinHilos,
       UnoEnExec, TrabajoConservado
<1>8. QED
  BY <1>2, <1>3, <1>4, <1>5, <1>6, <1>7 DEF FinalizarProceso

\* What every action of the handler starts from.
LEMMA AtiendeComienzo ==
  ASSUME IInv, HayPedido
  PROVE  /\ Colas \in ColasDe(Hilos, MensajesCpu) /\ Colas.exec = exec
         /\ EnMarcha /\ Dispatch \in Ejecutores
         /\ Pedida \in MensajesKernel
         /\ LlegaPedido => aKernel' \in Seq(MensajesKernel)
         /\ Hallado => H \in Hilos /\ P \in Pids
         /\ H \in Hilos \cup {Nadie}
  BY ColasTipo, PedidaTipo DEF IInv, TypeOK, Colas, Ejecutores, HayPedido, LlegaPedido

\* The handler's actions on requests it drops, answers nobody or hands to a
\* finalizar_proceso: the lists stay as they are.
LEMMA AtiendeSinListasPreserva ==
  ASSUME IInv, EsperaPcb \/ AtiendeInvalido \/ AtiendeExitRepetido \/ AtiendeProcessExit
               \/ AtiendeMutexSinPcb
  PROVE  IInv'
<1> USE DEF IInv, TypeOK
<1>1. HayPedido
  BY DEF EsperaPcb, AtiendeInvalido, AtiendeExitRepetido, AtiendeProcessExit, AtiendeMutexSinPcb,
         Llega, LlegaPedido
<1>2. /\ UNCHANGED <<vListas, vTcb, vPcb, vMutex, pcpPend, fh, fin, vDump, vMemoria, aCpu, vCpu>>
      /\ caido' \in {"nadie", "kernel", "memoria"} /\ EnMarcha
  BY <1>1, AtiendeComienzo
  DEF EsperaPcb, AtiendeInvalido, AtiendeExitRepetido, AtiendeProcessExit, AtiendeMutexSinPcb,
      Crash, TipoCpu, vFin
<1>3. aKernel' \in Seq(MensajesKernel)
  <2>1. CASE EsperaPcb
    <3> DEFINE op == IF Hallado THEN "HALLADO" ELSE "PERDIDO"
               m == [Pedida EXCEPT !.op = op]
    <3>1. m \in MensajesKernel
      BY <1>1, AtiendeComienzo, Zenon DEF MensajesKernel, H
    <3>2. aKernel' = [aKernel EXCEPT ![1] = m]
      BY <2>1 DEF EsperaPcb, Pedida
    <3> HIDE DEF m
    <3>3. aKernel \in Seq(MensajesKernel) /\ aKernel # <<>>
      BY <1>1 DEF HayPedido, TipoCpu
    <3>4. 1 \in 1 .. Len(aKernel)
      BY <3>3, EmptySeq
    <3>5. QED
      BY <3>1, <3>2, <3>3, <3>4, ExceptSeq
  <2>2. CASE ~EsperaPcb
    BY <1>1, <2>2, AtiendeComienzo
    DEF AtiendeInvalido, AtiendeExitRepetido, AtiendeProcessExit, AtiendeMutexSinPcb, Llega
  <2>3. QED
    BY <2>1, <2>2
<1>4. finPend' \in [Pids -> Nat]
  <2>1. finPend' = finPend \/ finPend' = [finPend EXCEPT ![P] = @ + 1]
    BY DEF EsperaPcb, AtiendeInvalido, AtiendeExitRepetido, AtiendeProcessExit,
           AtiendeMutexSinPcb, vFin
  <2>2. QED
    BY <2>1 DEF TipoFin
<1>5. QED
  BY <1>2, <1>3, <1>4 DEF vListas, vTcb, vPcb, vMutex, vDump, vMemoria, vCpu, EnMarcha,
     TipoListas, TipoTcb, TipoPcb, TipoMutex, TipoFin, TipoDump, TipoCpu, NuevosSinHilos,
     UnoEnExec, TrabajoConservado

\* PROCESS_CREATE preserves the invariant.
LEMMA ProcessCreatePreserva ==
  ASSUME IInv, AtiendeProcessCreate
  PROVE  IInv'
<1> USE DEF IInv, TypeOK
<1> DEFINE q == siguientePid
           p == Enviar(Colas, Rta("OK"))
<1>1. HayPedido /\ Hallado /\ LlegaPedido /\ Pedida.instr = "PROCESS_CREATE"
  BY DEF AtiendeProcessCreate, Llega, LlegaPedido
<1>2. Pedida.arg \in Prioridades /\ EnMarcha
  BY <1>1, AtiendeComienzo DEF MensajesKernel
<1>3. q \in Pids /\ siguientePid' = q + 1 /\ q + 1 \in 0 .. MaxPid + 1
  BY ConstantesTipo DEF AtiendeProcessCreate, TipoPcb, Pids
<1>4. siguienteTid[q] = 0 /\ q \notin ToSet(pcbNew) /\ q \notin pcbMem
  BY <1>3, ConstantesTipo DEF NuevosSinHilos
<1>5. /\ p \in ColasDe(Hilos, MensajesCpu) /\ p.ready = Colas.ready /\ p.exec = exec
  BY <1>1, AtiendeComienzo, ResponderTipo
<1>6. CASE pcbNew = <<>> /\ HayParticion
  <2>1. /\ CrearTcb(q, Pedida.arg, p) /\ pcbMem' = pcbMem \cup {q}
        /\ memProc' = memProc \cup {q} /\ pcbNew' = pcbNew
        /\ blocked' = blocked /\ salidos' = salidos
    BY <1>6 DEF AtiendeProcessCreate
  <2>2. siguienteTid' = [siguienteTid EXCEPT ![q] = @ + 1]
    BY <2>1 DEF CrearTcb
  <2>3. siguienteTid[q] <= MaxTid
    BY <1>4, ConstantesTipo
  <2> HIDE DEF p
  <2>4. /\ TipoListas'
        /\ siguienteTid' \in [Pids -> 0 .. MaxTid + 1]
        /\ listaIds' \in [Pids -> Seq(Hilos)]
        /\ prioridad' \in [Hilos -> Prioridades]
        /\ memHilos' \subseteq Hilos /\ pcpPend' \in Nat \ {0} /\ exec' = exec
    BY <1>2, <1>3, <1>5, <2>1, <2>3, CrearTcbTipo
  <2>5. NuevosSinHilos'
    <3>1. \A o \in Pids : o # q => siguienteTid'[o] = siguienteTid[o]
      BY <2>2 DEF TipoPcb
    <3>2. ToSet(pcbNew') = {} /\ IsInjective(pcbNew') /\ Pids \subseteq Nat
      BY <1>6, <2>1, ConstantesTipo DEF NuevosSinHilos, ToSet
    <3>3. QED
      BY <1>3, <2>1, <3>1, <3>2 DEF NuevosSinHilos, TipoPcb
  <2>6. TrabajoConservado'
    BY <2>4 DEF TrabajoConservado
  <2>7. QED
    BY <1>1, <1>3, <2>1, <2>4, <2>5, <2>6, AtiendeComienzo
    DEF AtiendeProcessCreate, vMutex, vFin, vDump, vCpu, TipoTcb, TipoPcb, TipoMutex, TipoFin,
        TipoDump, TipoCpu, UnoEnExec
<1>7. CASE ~(pcbNew = <<>> /\ HayParticion)
  <2>1. /\ pcbNew' = Append(pcbNew, q)
        /\ prioridad' = [prioridad EXCEPT ![<<q, 0>>] = Pedida.arg]
        /\ Quedan(p) /\ blocked' = blocked /\ salidos' = salidos
        /\ UNCHANGED <<pcbMem, memProc, memHilos, siguienteTid, listaIds, pcpPend>>
    BY <1>7 DEF AtiendeProcessCreate
  <2> HIDE DEF p
  <2>2. TipoListas' /\ exec' = exec /\ Colas' = p
    BY <1>5, <2>1, QuedanTipo DEF Quedan, TipoListas
  <2>3. prioridad' \in [Hilos -> Prioridades]
    BY <1>2, <2>1 DEF TipoTcb
  <2>4. pcbNew' \in Seq(Pids)
    BY <1>3, <2>1, AppendSeq DEF TipoPcb
  <2>5. ToSet(pcbNew') = ToSet(pcbNew) \cup {q} /\ IsInjective(pcbNew')
    <3>1. /\ Len(pcbNew') = Len(pcbNew) + 1 /\ Len(pcbNew) \in Nat
          /\ DOMAIN pcbNew = 1 .. Len(pcbNew) /\ DOMAIN pcbNew' = 1 .. Len(pcbNew')
          /\ \A i \in 1 .. Len(pcbNew) : pcbNew'[i] = pcbNew[i]
          /\ pcbNew'[Len(pcbNew) + 1] = q
      BY <1>3, <2>1, <2>4, AppendProperties, LenProperties DEF TipoPcb
    <3>2. \A i \in 1 .. Len(pcbNew) : pcbNew[i] # q
      BY <1>4, <3>1 DEF ToSet
    <3> HIDE DEF q
    <3>3. \A i, j \in 1 .. Len(pcbNew) : pcbNew[i] = pcbNew[j] => i = j
      BY <3>1 DEF NuevosSinHilos, IsInjective
    <3>4. IsInjective(pcbNew')
      BY <3>1, <3>2, <3>3 DEF IsInjective
    <3>5. ToSet(pcbNew') = ToSet(pcbNew) \cup {q}
      BY <3>1 DEF ToSet
    <3>6. QED
      BY <3>4, <3>5
  <2>6. NuevosSinHilos'
    <3>1. ToSet(pcbNew) \subseteq Pids /\ Pids \subseteq Nat
      BY ToSetTipo, ConstantesTipo DEF TipoPcb
    <3>2. siguientePid \in Nat /\ siguientePid' = siguientePid + 1
      BY <1>3, ConstantesTipo
    <3>3. \A o \in ToSet(pcbNew') : o < siguientePid'
      <4>1. \A o \in ToSet(pcbNew) : o \in Nat /\ o < siguientePid
        BY <3>1 DEF NuevosSinHilos
      <4>2. QED
        BY <2>5, <3>2, <4>1
    <3>4. \A o \in pcbMem' : o < siguientePid' /\ o \notin ToSet(pcbNew')
      BY <1>4, <2>1, <2>5, <3>1, <3>2 DEF NuevosSinHilos, TipoPcb
    <3>5. \A o \in Pids : (o >= siguientePid' \/ o \in ToSet(pcbNew')) => siguienteTid'[o] = 0
      BY <1>4, <2>1, <2>5, <3>1, <3>2 DEF NuevosSinHilos, TipoPcb
    <3>6. QED
      BY <2>5, <3>3, <3>4, <3>5 DEF NuevosSinHilos
  <2>7. TrabajoConservado'
    <3>1. Vacante(Colas') => Vacante(Colas)
      BY <1>1, <1>5, <2>2, AtiendeComienzo DEF Vacante
    <3>2. QED
      BY <1>2, <2>1, <3>1, PaseConservado DEF AtiendeProcessCreate
  <2>8. QED
    BY <1>1, <1>3, <2>1, <2>2, <2>3, <2>4, <2>6, <2>7, AtiendeComienzo
    DEF AtiendeProcessCreate, vMutex, vFin, vDump, vCpu, TipoTcb, TipoPcb, TipoMutex, TipoFin,
        TipoDump, TipoCpu, UnoEnExec
<1>8. QED
  BY <1>6, <1>7

\* THREAD_CREATE preserves the invariant: the process is in memory, so it is
\* not in NEW and was created.
LEMMA ThreadCreatePreserva ==
  ASSUME IInv, AtiendeThreadCreate
  PROVE  IInv'
<1> USE DEF IInv, TypeOK
<1> DEFINE p == Enviar(Colas, Rta("OK"))
<1>1. HayPedido /\ Hallado /\ LlegaPedido /\ Pedida.instr = "THREAD_CREATE" /\ siguienteTid[P] <= MaxTid
  BY DEF AtiendeThreadCreate, Llega, LlegaPedido
<1>2. Pedida.arg \in Prioridades /\ EnMarcha /\ P \in Pids
  BY <1>1, AtiendeComienzo DEF MensajesKernel
<1>3. p \in ColasDe(Hilos, MensajesCpu) /\ p.exec = exec
  BY <1>1, AtiendeComienzo, ResponderTipo
<1>4. CASE P \in pcbMem /\ P \in memProc
  <2>1. /\ CrearTcb(P, Pedida.arg, p) /\ caido' = caido
        /\ blocked' = blocked /\ salidos' = salidos
    BY <1>4 DEF AtiendeThreadCreate
  <2>2. siguienteTid' = [siguienteTid EXCEPT ![P] = @ + 1]
    BY <2>1 DEF CrearTcb
  <2> HIDE DEF p
  <2>3. /\ TipoListas'
        /\ siguienteTid' \in [Pids -> 0 .. MaxTid + 1]
        /\ listaIds' \in [Pids -> Seq(Hilos)]
        /\ prioridad' \in [Hilos -> Prioridades]
        /\ memHilos' \subseteq Hilos /\ pcpPend' \in Nat \ {0} /\ exec' = exec
    BY <1>1, <1>2, <1>3, <2>1, CrearTcbTipo
  <2>4. NuevosSinHilos'
    <3>1. \A o \in Pids : o # P => siguienteTid'[o] = siguienteTid[o]
      BY <2>2 DEF TipoPcb
    <3>2. P < siguientePid /\ P \notin ToSet(pcbNew)
      BY <1>4 DEF NuevosSinHilos
    <3>3. UNCHANGED <<pcbNew, pcbMem, siguientePid>> /\ siguientePid \in Nat /\ Pids \subseteq Nat
      BY ConstantesTipo DEF AtiendeThreadCreate, TipoPcb
    <3>4. QED
      BY <1>2, <3>1, <3>2, <3>3 DEF NuevosSinHilos
  <2>5. TrabajoConservado'
    BY <2>3 DEF TrabajoConservado
  <2>6. TipoTcb' /\ TipoPcb' /\ TipoMutex' /\ TipoDump'
    BY <2>1, <2>3 DEF AtiendeThreadCreate, vMutex, vDump, TipoTcb, TipoPcb, TipoMutex, TipoDump
  <2>7. TipoFin' /\ TipoCpu'
    BY <1>1, <2>1, <2>3, AtiendeComienzo DEF AtiendeThreadCreate, vFin, vCpu, TipoFin, TipoCpu
  <2>8. UnoEnExec'
    BY <2>3 DEF UnoEnExec
  <2>9. QED
    BY <2>3, <2>4, <2>5, <2>6, <2>7, <2>8
<1>5. CASE ~(P \in pcbMem /\ P \in memProc)
  <2>1. /\ UNCHANGED <<siguienteTid, listaIds, prioridad, memHilos, ready, exec, aCpu, pcpPend>>
        /\ caido' \in {"nadie", "kernel", "memoria"}
    BY <1>5 DEF AtiendeThreadCreate, Crash, TipoCpu
  <2>2. TipoListas' /\ TipoTcb' /\ TipoPcb' /\ TipoMutex' /\ TipoDump'
    BY <2>1 DEF AtiendeThreadCreate, vMutex, vDump, TipoListas, TipoTcb, TipoPcb, TipoMutex, TipoDump
  <2>3. TipoFin' /\ TipoCpu'
    BY <1>1, <2>1, AtiendeComienzo DEF AtiendeThreadCreate, vFin, vCpu, TipoFin, TipoCpu
  <2>4. NuevosSinHilos' /\ UnoEnExec'
    BY <2>1 DEF AtiendeThreadCreate, NuevosSinHilos, UnoEnExec
  <2>5. TrabajoConservado'
    BY <1>2, <2>1 DEF AtiendeThreadCreate, TrabajoConservado, EnMarcha
  <2>6. QED
    BY <2>2, <2>3, <2>4, <2>5
<1>6. QED
  BY <1>4, <1>5

\* THREAD_JOIN preserves the invariant.
LEMMA ThreadJoinPreserva ==
  ASSUME IInv, AtiendeThreadJoin
  PROVE  IInv'
<1> USE DEF IInv, TypeOK
<1> DEFINE t == <<P, Pedida.arg>>
           p == Enviar(Colas, Rta(IF Existe(t) THEN "DESALOJO" ELSE "OK"))
<1>1. HayPedido /\ Hallado /\ LlegaPedido /\ Pedida.instr = "THREAD_JOIN"
  BY DEF AtiendeThreadJoin, Llega, LlegaPedido
<1>2. EnMarcha /\ P \in Pids /\ H \in Hilos /\ t \in Hilos
  BY <1>1, AtiendeComienzo DEF MensajesKernel, Hilos
<1>3. p \in ColasDe(Hilos, MensajesCpu) /\ p.ready = Colas.ready /\ p.exec = exec
  BY <1>1, AtiendeComienzo, ResponderTipo
<1>4. /\ TipoListas' /\ (Len(exec) <= 1 => Len(exec') <= 1)
      /\ Vacante(Colas') => Vacante(Colas)
      /\ esperanJoin' \in [Hilos -> Seq(Hilos \cup {Nadie})]
  <2>1. CASE Existe(t)
    <3>1. PICK v \in IdLeido(H) : esperanJoin' = [esperanJoin EXCEPT ![t] = Append(@, v)]
      BY <2>1 DEF AtiendeThreadJoin
    <3>2. Append(esperanJoin[t], v) \in Seq(Hilos \cup {Nadie})
      BY <1>2, IdLeidoTipo, AppendSeq DEF TipoTcb
    <3>3. Bloquear(p, H) /\ salidos' = salidos
      BY <2>1 DEF AtiendeThreadJoin
    <3>4. Colas.exec = exec
      BY DEF Colas
    <3> HIDE DEF p
    <3>5. /\ TipoListas' /\ (Len(exec) <= 1 => Len(exec') <= 1)
          /\ Vacante(Colas') => Vacante(p)
      BY <1>3, <3>3, BloquearTipo
    <3>6. QED
      BY <1>3, <3>1, <3>2, <3>4, <3>5 DEF TipoTcb, Vacante
  <2>2. CASE ~Existe(t)
    <3>1. Quedan(p) /\ blocked' = blocked /\ esperanJoin' = esperanJoin /\ salidos' = salidos
      BY <2>2 DEF AtiendeThreadJoin
    <3>2. Colas.exec = exec
      BY DEF Colas
    <3> HIDE DEF p
    <3>3. TipoListas' /\ Colas' = p /\ exec' = exec
      BY <1>3, <3>1, QuedanTipo DEF Quedan, TipoListas
    <3>4. QED
      BY <1>3, <3>1, <3>2, <3>3 DEF TipoTcb, Vacante
  <2>3. QED
    BY <2>1, <2>2
<1>5. TrabajoConservado'
  BY <1>2, <1>4, PaseConservado DEF AtiendeThreadJoin
<1>6. QED
  BY <1>1, <1>4, <1>5, AtiendeComienzo
  DEF AtiendeThreadJoin, vPcb, vMutex, vFin, vDump, vMemoria, vCpu, TipoTcb, TipoPcb, TipoMutex,
      TipoFin, TipoDump, TipoCpu, NuevosSinHilos, UnoEnExec

\* The requests that finalize a thread at once preserve the invariant.
LEMMA AtiendeFinalizacionPreserva ==
  ASSUME IInv, AtiendeThreadCancel \/ AtiendeThreadExit \/ AtiendeMutexInexistente
  PROVE  IInv'
<1> USE DEF IInv, TypeOK
<1>1. HayPedido /\ Hallado /\ LlegaPedido
  BY DEF AtiendeThreadCancel, AtiendeThreadExit, AtiendeMutexInexistente, Llega, LlegaPedido
<1>2. /\ UNCHANGED <<salidos, vTcb, vPcb, vMutex, pcpPend, vFin, vDump, memProc, dumpMem, vCpu, caido>>
      /\ \E h \in Hilos \cup {Nadie} \cup {<<P, Pedida.arg>>}, rta \in BOOLEAN :
           FhInicio(Dispatch, h, rta)
  <2>1. IdLeido(H) \subseteq Hilos \cup {Nadie}
    BY <1>1, AtiendeComienzo, IdLeidoTipo
  <2>2. QED
    BY <2>1 DEF AtiendeThreadCancel, AtiendeThreadExit, AtiendeMutexInexistente
<1>3. PICK h \in Hilos \cup {Nadie} \cup {<<P, Pedida.arg>>}, rta \in BOOLEAN :
        FhInicio(Dispatch, h, rta)
  BY <1>2
<1>4. /\ TipoListas' /\ memHilos' \subseteq Hilos
      /\ fh' \in [Ejecutores -> FinalizacionesHilo]
      /\ Len(exec) <= 1 => Len(exec') <= 1
      /\ Vacante(Colas') => (Vacante(Colas) /\ fh' = fh) \/ fh'[Dispatch].fase # "nada"
  BY <1>1, <1>2, <1>3, AtiendeComienzo, FhInicioTipo
<1>5. TrabajoConservado'
  BY <1>1, <1>2, <1>4, AtiendeComienzo DEF TrabajoConservado, Vacante, Colas, EnMarcha
<1>6. QED
  BY <1>1, <1>2, <1>4, <1>5, AtiendeComienzo
  DEF vTcb, vPcb, vMutex, vFin, vDump, vCpu, TipoTcb, TipoPcb, TipoMutex, TipoFin, TipoDump,
      TipoCpu, NuevosSinHilos, UnoEnExec

\* MUTEX_CREATE, MUTEX_LOCK and MUTEX_UNLOCK preserve the invariant.
LEMMA AtiendeMutexPreserva ==
  ASSUME IInv, AtiendeMutexCreate \/ AtiendeMutexLock \/ AtiendeMutexUnlock
  PROVE  IInv'
<1> USE DEF IInv, TypeOK
<1> DEFINE m == <<P, Pedida.arg>>
           ok == Enviar(Colas, Rta("OK"))
           des == Enviar(Colas, Rta("DESALOJO"))
<1>1. /\ HayPedido /\ Hallado /\ LlegaPedido
      /\ Pedida.instr \in {"MUTEX_CREATE", "MUTEX_LOCK", "MUTEX_UNLOCK"}
  BY DEF AtiendeMutexCreate, AtiendeMutexLock, AtiendeMutexUnlock, Llega, LlegaPedido
<1>2. EnMarcha /\ P \in Pids /\ H \in Hilos /\ m \in Mutexes /\ aKernel' \in Seq(MensajesKernel)
  BY <1>1, AtiendeComienzo DEF MensajesKernel, Mutexes
<1>3. /\ ok \in ColasDe(Hilos, MensajesCpu) /\ ok.ready = Colas.ready /\ ok.exec = exec
      /\ des \in ColasDe(Hilos, MensajesCpu) /\ des.ready = Colas.ready /\ des.exec = exec
      /\ Colas.exec = exec
  BY <1>1, AtiendeComienzo, ResponderTipo
\* An answer that changes no list.
<1>4. ASSUME Quedan(ok), blocked' = blocked, salidos' = salidos
      PROVE  /\ TipoListas' /\ (Len(exec) <= 1 => Len(exec') <= 1)
             /\ Vacante(Colas') => Vacante(Colas)
  <2> HIDE DEF ok
  <2>1. TipoListas' /\ Colas' = ok /\ exec' = exec
    BY <1>3, <1>4, QuedanTipo DEF Quedan, TipoListas
  <2>2. QED
    BY <1>3, <2>1 DEF Vacante
<1>5. CASE AtiendeMutexCreate
  <2>1. mutexes' \subseteq Mutexes
    BY <1>2, <1>5 DEF AtiendeMutexCreate, TipoMutex
  <2>2. /\ TipoListas' /\ (Len(exec) <= 1 => Len(exec') <= 1)
        /\ Vacante(Colas') => Vacante(Colas)
    BY <1>4, <1>5 DEF AtiendeMutexCreate
  <2>3. TrabajoConservado'
    BY <1>2, <1>5, <2>2, PaseConservado DEF AtiendeMutexCreate
  <2>4. QED
    BY <1>2, <1>5, <2>1, <2>2, <2>3
    DEF AtiendeMutexCreate, vTcb, vPcb, vFin, vDump, vMemoria, vCpu, TipoTcb, TipoPcb, TipoMutex,
        TipoFin, TipoDump, TipoCpu, NuevosSinHilos, UnoEnExec
<1>6. CASE AtiendeMutexLock
  <2>1. /\ TipoListas' /\ (Len(exec) <= 1 => Len(exec') <= 1)
        /\ Vacante(Colas') => Vacante(Colas)
        /\ asignados' \in [Hilos -> Seq(Mutexes)]
        /\ duenio' \in [Mutexes -> Hilos \cup {Nadie}]
        /\ bloqueadosMutex' \in [Mutexes -> Seq(Hilos \cup {Nadie})]
    <3>1. CASE duenio[m] # Nadie
      <4>1. PICK v \in IdLeido(H) : bloqueadosMutex' = [bloqueadosMutex EXCEPT ![m] = Append(@, v)]
        BY <1>6, <3>1 DEF AtiendeMutexLock
      <4>2. Append(bloqueadosMutex[m], v) \in Seq(Hilos \cup {Nadie})
        BY <1>2, IdLeidoTipo, AppendSeq DEF TipoMutex
      <4>3. Bloquear(des, H) /\ salidos' = salidos /\ asignados' = asignados /\ duenio' = duenio
        BY <1>6, <3>1 DEF AtiendeMutexLock
      <4> HIDE DEF des, m
      <4>4. /\ TipoListas' /\ (Len(exec) <= 1 => Len(exec') <= 1)
            /\ Vacante(Colas') => Vacante(des)
        BY <1>3, <4>3, BloquearTipo
      <4>5. QED
        BY <1>2, <1>3, <4>1, <4>2, <4>3, <4>4 DEF TipoTcb, TipoMutex, Vacante
    <3>2. CASE duenio[m] = Nadie
      <4>1. /\ Quedan(ok) /\ asignados' = [asignados EXCEPT ![H] = Append(@, m)]
            /\ duenio' = [duenio EXCEPT ![m] = H] /\ blocked' = blocked /\ salidos' = salidos
            /\ bloqueadosMutex' = bloqueadosMutex
        BY <1>6, <3>2 DEF AtiendeMutexLock
      <4> HIDE DEF ok, m
      <4>2. Append(asignados[H], m) \in Seq(Mutexes)
        BY <1>2, AppendSeq DEF TipoTcb
      <4>3. QED
        BY <1>2, <1>4, <4>1, <4>2 DEF TipoTcb, TipoMutex
    <3>3. QED
      BY <3>1, <3>2
  <2>2. TrabajoConservado'
    BY <1>2, <1>6, <2>1, PaseConservado DEF AtiendeMutexLock
  <2>3. QED
    BY <1>2, <1>6, <2>1, <2>2
    DEF AtiendeMutexLock, vPcb, vFin, vDump, vMemoria, vCpu, TipoTcb, TipoPcb, TipoMutex,
        TipoFin, TipoDump, TipoCpu, NuevosSinHilos, UnoEnExec
<1>7. CASE AtiendeMutexUnlock
  <2>1. /\ TipoListas' /\ (Len(exec) <= 1 => Len(exec') <= 1)
        /\ Vacante(Colas') => Vacante(Colas)
        /\ asignados' \in [Hilos -> Seq(Mutexes)]
        /\ duenio' \in [Mutexes -> Hilos \cup {Nadie}]
        /\ bloqueadosMutex' \in [Mutexes -> Seq(Hilos \cup {Nadie})]
        /\ caido' \in {"nadie", "kernel", "memoria"}
    <3>1. CASE duenio[m] = H
      <4>1. Protocolo(m, SinRecurso(H, m), TRUE) /\ salidos' = salidos
        BY <1>7, <3>1 DEF AtiendeMutexUnlock
      <4>2. SinRecurso(H, m) \in [Hilos -> Seq(Mutexes)]
        <5>1. RemoveFirst(asignados[H], m) \in Seq(Mutexes)
          BY <1>2, RemoveFirstSeq DEF TipoTcb
        <5>2. QED
          BY <1>2, <5>1 DEF SinRecurso, TipoTcb
      <4>3. QED
        BY <1>2, <4>1, <4>2, ProtocoloTipo
    <3>2. CASE duenio[m] # H
      <4>1. /\ Quedan(ok) /\ blocked' = blocked /\ salidos' = salidos
            /\ UNCHANGED <<asignados, duenio, bloqueadosMutex, caido>>
        BY <1>7, <3>2 DEF AtiendeMutexUnlock
      <4>2. QED
        BY <1>4, <4>1 DEF TipoTcb, TipoMutex, TipoCpu
    <3>3. QED
      BY <3>1, <3>2
  <2>2. TrabajoConservado'
    BY <1>2, <1>7, <2>1, PaseConservado DEF AtiendeMutexUnlock
  <2>3. QED
    BY <1>2, <1>7, <2>1, <2>2
    DEF AtiendeMutexUnlock, vPcb, vFin, vDump, vMemoria, vCpu, TipoTcb, TipoPcb, TipoMutex,
        TipoFin, TipoDump, TipoCpu, NuevosSinHilos, UnoEnExec
<1>8. QED
  BY <1>5, <1>6, <1>7

\* DUMP_MEMORY and the message of a thread that leaves the CPU preserve the
\* invariant.
LEMMA AtiendeDumpDesalojoPreserva ==
  ASSUME IInv, AtiendeDump \/ AtiendeDesalojo
  PROVE  IInv'
<1> USE DEF IInv, TypeOK
<1>1. Colas \in ColasDe(Hilos, MensajesCpu) /\ Colas.exec = exec /\ EnMarcha
  BY ColasTipo DEF Colas, AtiendeDump, AtiendeDesalojo, Llega, LlegaPedido, HayPedido
<1>2. CASE AtiendeDump
  <2> DEFINE p == Pcp(Colas, prioridad)
  <2>1. HayPedido /\ Hallado /\ LlegaPedido
    BY <1>2 DEF AtiendeDump, Llega, LlegaPedido
  <2>2. H \in Hilos /\ aKernel' \in Seq(MensajesKernel)
    BY <2>1, AtiendeComienzo
  <2>3. p \in ColasDe(Hilos, MensajesCpu) /\ ~Vacante(p) /\ (Len(exec) <= 1 => Len(p.exec) <= 1)
    BY <1>1, PcpTipo
  <2>4. Quedan(p) /\ dump' \in [Hilos -> {"nada", "bloquear", "pedido", "respondido"}]
    BY <1>2, <2>2 DEF AtiendeDump, TipoDump
  <2> HIDE DEF p
  <2>5. TipoListas' /\ Colas' = p /\ exec' = p.exec
    BY <1>2, <2>3, <2>4, QuedanTipo DEF Quedan, TipoListas, AtiendeDump
  <2>6. TrabajoConservado'
    BY <2>3, <2>5, SinVacante
  <2>7. QED
    BY <1>2, <2>2, <2>3, <2>4, <2>5, <2>6
    DEF AtiendeDump, vTcb, vPcb, vMutex, vFin, vMemoria, vCpu, TipoTcb, TipoPcb, TipoMutex,
        TipoFin, TipoDump, TipoCpu, NuevosSinHilos, UnoEnExec
<1>3. CASE AtiendeDesalojo
  <2> DEFINE s == SacarDeExec(Colas, H)
             p == IF H \in ToSet(exec) THEN Pcp(Encolar(s, H), prioridad) ELSE Colas
  <2>1. aKernel' \in Seq(MensajesKernel)
    BY <1>3, PedidaTipo DEF AtiendeDesalojo
  <2>2. /\ p \in ColasDe(Hilos, MensajesCpu) /\ (Len(exec) <= 1 => Len(p.exec) <= 1)
        /\ Vacante(p) => Vacante(Colas)
    <3>1. CASE H \in ToSet(exec)
      <4>1. H \in Hilos
        BY <3>1, ToSetTipo DEF TipoListas
      <4>2. s \in ColasDe(Hilos, MensajesCpu) /\ Len(s.exec) <= Len(exec)
        BY <1>1, SacarCorrecto
      <4>3. Len(s.exec) \in Nat /\ Len(exec) \in Nat
        BY <4>2, LenProperties DEF ColasDe, TipoListas
      <4> HIDE DEF s
      <4>4. Len(exec) <= 1 => Len(s.exec) <= 1
        BY <4>2, <4>3
      <4>5. Encolar(s, H) \in ColasDe(Hilos, MensajesCpu) /\ Encolar(s, H).exec = s.exec
        BY <4>1, <4>2, EncolarEnviarCorrecto
      <4>6. QED
        BY <3>1, <4>4, <4>5, PcpTipo
    <3>2. CASE H \notin ToSet(exec)
      BY <1>1, <3>2
    <3>3. QED
      BY <3>1, <3>2
  <2>3. Quedan(p)
    BY <1>3 DEF AtiendeDesalojo
  <2> HIDE DEF p
  <2>4. TipoListas' /\ Colas' = p /\ exec' = p.exec
    BY <1>3, <2>2, <2>3, QuedanTipo DEF Quedan, TipoListas, AtiendeDesalojo
  <2>5. TrabajoConservado'
    BY <1>1, <1>3, <2>2, <2>4, PaseConservado DEF AtiendeDesalojo
  <2>6. QED
    BY <1>3, <2>1, <2>2, <2>4, <2>5
    DEF AtiendeDesalojo, vTcb, vPcb, vMutex, vFin, vDump, vMemoria, vCpu, TipoTcb, TipoPcb,
        TipoMutex, TipoFin, TipoDump, TipoCpu, NuevosSinHilos, UnoEnExec
<1>4. QED
  BY <1>2, <1>3
-----------------------------------------------------------------------------
\* The initial state satisfies the invariant.
LEMMA InicioCumple == Init => IInv
<1> SUFFICES ASSUME Init PROVE IInv
  OBVIOUS
<1> USE ConstantesTipo DEF Init
<1>1. <<0, 0>> \in Hilos /\ Nadie \in Hilos \cup {Nadie}
  BY DEF Hilos
<1>2. TipoListas /\ TipoTcb /\ TipoMutex /\ TipoDump
  BY <1>1 DEF TipoListas, TipoTcb, TipoMutex, TipoDump
<1>3. TipoPcb
  <2>1. \A p \in Pids : <<p, 0>> \in Hilos
    BY DEF Hilos
  <2>2. QED
    BY <2>1 DEF TipoPcb, Pids
<1>4. TipoFin
  <2>1. FhNada \in FinalizacionesHilo
    BY DEF FhNada, FinalizacionesHilo
  <2>2. FinNada \in [fase : {"nada", "tomar", "hilos", "cero"}, i : Nat \ {0}, cero : BOOLEAN]
    BY DEF FinNada
  <2>3. QED
    BY <2>1, <2>2 DEF TipoFin
<1>5. TipoCpu
  BY <1>1 DEF TipoCpu
<1>6. NuevosSinHilos
  BY DEF NuevosSinHilos, IsInjective, ToSet, Pids
<1>7. UnoEnExec /\ TrabajoConservado
  BY DEF UnoEnExec, TrabajoConservado
<1>8. QED
  BY <1>2, <1>3, <1>4, <1>5, <1>6, <1>7 DEF IInv, TypeOK

\* Every step of the kernel, the CPU and Memoria preserves the invariant.
LEMMA PasoPreserva == IInv /\ [Next]_vars => IInv'
<1> SUFFICES ASSUME IInv, [Next]_vars PROVE IInv'
  OBVIOUS
<1>1. CASE Atiende
  BY <1>1, AtiendeSinListasPreserva, ProcessCreatePreserva, ThreadCreatePreserva,
     ThreadJoinPreserva, AtiendeFinalizacionPreserva, AtiendeMutexPreserva,
     AtiendeDumpDesalojoPreserva DEF Atiende
<1>2. CASE PcpSuelto
  BY <1>2, PcpSueltoPreserva
<1>3. CASE Cpu \/ Programa
  BY <1>3, CpuPreserva
<1>4. CASE \E e \in Ejecutores : FinalizarHilo(e)
  BY <1>4, FinalizarHiloPreserva
<1>5. CASE \E h \in Hilos : DumpMemory(h)
  BY <1>5, DumpMemoryPreserva
<1>6. CASE \E p \in Pids : FinalizarProceso(p)
  BY <1>6, FinalizarProcesoPreserva
<1>7. CASE UNCHANGED vars
  <2> USE <1>7 DEF vars, vListas, vTcb, vPcb, vMutex, vFin, vDump, vMemoria, vCpu, IInv, TypeOK
  <2>1. TipoListas' /\ TipoTcb' /\ TipoPcb' /\ TipoMutex'
    BY DEF TipoListas, TipoTcb, TipoPcb, TipoMutex
  <2>2. TipoFin' /\ TipoDump' /\ TipoCpu'
    BY DEF TipoFin, TipoDump, TipoCpu
  <2>3. NuevosSinHilos'
    BY DEF NuevosSinHilos
  <2>4. UnoEnExec' /\ TrabajoConservado'
    BY DEF UnoEnExec, TrabajoConservado, EnMarcha
  <2>5. QED
    BY <2>1, <2>2, <2>3, <2>4
<1>8. QED
  BY <1>1, <1>2, <1>3, <1>4, <1>5, <1>6, <1>7 DEF Next

LEMMA InvarianteSiempre == Spec => []IInv
BY InicioCumple, PasoPreserva, PTL DEF Spec

(* Whatever the handler, the detached threads and the CPU do, every variable
   keeps its type: no list of the kernel ever holds a thread that was not
   created within its process, and no request reaches a handler with an
   argument its syscall does not take. *)
THEOREM TiposCorrectos == Spec => []TypeOK
<1>1. IInv => TypeOK
  BY DEF IInv
<1>2. QED
  BY <1>1, InvarianteSiempre, PTL

(* A process that waits in NEW has no thread and no place in memory, and waits
   there once: planificador_largo_plazo.c initialises it once. *)
THEOREM NuevosEsperan == Spec => []NuevosSinHilos
<1>1. IInv => NuevosSinHilos
  BY DEF IInv
<1>2. QED
  BY <1>1, InvarianteSiempre, PTL

(* EXEC never holds two threads, though the detached scheduling passes, the
   handler and the finalizers all dispatch. *)
THEOREM UnoSoloCorre == Spec => []UnoEnExec
<1>1. IInv => UnoEnExec
  BY DEF IInv
<1>2. QED
  BY <1>1, InvarianteSiempre, PTL

(* No scheduling pass is lost: with threads in READY and nobody in EXEC,
   somebody is still going to call pcp_planificador_corto_plazo. *)
THEOREM PlanificadorConserva == Spec => []TrabajoConservado
<1>1. IInv => TrabajoConservado
  BY DEF IInv
<1>2. QED
  BY <1>1, InvarianteSiempre, PTL
-----------------------------------------------------------------------------
(***************************************************************************)
(* Where the threads are: every thread created is in exactly one place,    *)
(* Memoria has the context of each one that may be dispatched, and the     *)
(* thread sent to the CPU is the best of those in READY.                   *)
(***************************************************************************)
\* The threads existe_hilo finds.
Vivos == Activos(Colas) \cup blocked

(* The inductive invariant: READY, EXEC, BLOCKED, EXIT and the hands of the
   finalizar_hilo under way divide the threads created among them, and those
   alive have their context in Memoria.  With the types it is inductive. *)
Lugares ==
  /\ SinRepetidos(Colas)
  /\ Activos(Colas) \cap blocked = {}
  /\ Vivos \cap salidos = {}
  /\ \A e \in Ejecutores : Saliendo(e) \cap (Vivos \cup salidos) = {}
  /\ \A e, o \in Ejecutores : e # o => Saliendo(e) \cap Saliendo(o) = {}
  /\ Vivos \cup salidos \cup Salientes = Creados
  /\ Vivos \subseteq memHilos

LEMMA VivosExisten ==
  /\ Vivos = ToSet(ready) \cup ToSet(exec) \cup blocked
  /\ \A h : Existe(h) <=> h \in Vivos
  BY DEF Vivos, Activos, Colas, Existe

\* The step moves threads between READY, EXEC and BLOCKED, or none.
MismosVivos ==
  /\ SinRepetidos(Colas')
  /\ Activos(Colas') \cap blocked' = {}
  /\ Activos(Colas') \cup blocked' = Vivos

LEMMA MismosLugares ==
  ASSUME Lugares, MismosVivos, salidos' = salidos, siguienteTid' = siguienteTid,
         memHilos' = memHilos, \A e \in Ejecutores : Saliendo(e)' = Saliendo(e)
  PROVE  Lugares'
<1>1. Vivos' = Vivos
  BY DEF MismosVivos, Vivos
<1>2. Salientes' = Salientes /\ Creados' = Creados
  BY DEF Salientes, Creados
<1>3. QED
  BY <1>1, <1>2 DEF Lugares, MismosVivos

\* What Saliendo reads of a finalizar_hilo.
LEMMA MismosSalientes ==
  ASSUME fh' = fh
  PROVE  \A e \in Ejecutores : Saliendo(e)' = Saliendo(e)
  BY DEF Saliendo

\* Lists with the same threads.
LEMMA MismasListas ==
  ASSUME NEW p, NEW q, p.ready = q.ready, p.exec = q.exec, SinRepetidos(q)
  PROVE  SinRepetidos(p) /\ Activos(p) = Activos(q)
  BY DEF SinRepetidos, Activos

-----------------------------------------------------------------------------
(***************************************************************************)
(* The operations that move a thread between READY, EXEC and BLOCKED.      *)
(***************************************************************************)
LEMMA DesbloquearElementos ==
  ASSUME TipoListas, TipoTcb, NEW p \in ColasDe(Hilos, MensajesCpu), NEW h,
         SinRepetidos(p), Activos(p) \cap blocked = {}
  PROVE  /\ SinRepetidos(Desbloquear(p, h))
         /\ Activos(Desbloquear(p, h)) \cap (blocked \ {h}) = {}
         /\ Activos(Desbloquear(p, h)) \cup (blocked \ {h}) = Activos(p) \cup blocked
<1>1. CASE h \in blocked
  <2>1. h \in Hilos /\ h \notin Activos(p)
    BY <1>1 DEF TipoListas
  <2>2. /\ SinRepetidos(Encolar(p, h)) /\ Activos(Encolar(p, h)) = Activos(p) \cup {h}
        /\ Encolar(p, h) \in ColasDe(Hilos, MensajesCpu)
    BY <2>1, EncolarElementos, EncolarEnviarCorrecto
  <2>3. /\ SinRepetidos(Pcp(Encolar(p, h), prioridad))
        /\ Activos(Pcp(Encolar(p, h), prioridad)) = Activos(p) \cup {h}
    BY <2>2, PcpElementos, PrioridadTipo
  <2>4. QED
    BY <1>1, <2>1, <2>3 DEF Desbloquear
<1>2. CASE h \notin blocked
  BY <1>2 DEF Desbloquear
<1>3. QED
  BY <1>1, <1>2

LEMMA BloquearElementos ==
  ASSUME TypeOK, Lugares, NEW p \in ColasDe(Hilos, MensajesCpu),
         p.ready = ready, p.exec = exec, NEW h, Bloquear(p, h), salidos' = salidos
  PROVE  MismosVivos
<1> USE DEF TypeOK
<1>1. SinRepetidos(p) /\ Activos(p) = Activos(Colas)
  BY MismasListas DEF Lugares, Colas
<1>2. CASE h \in ToSet(exec)
  <2> DEFINE s == SacarDeExec(p, h)
             q == Pcp(s, prioridad)
  <2>1. h \in Hilos /\ h \notin ToSet(p.ready) /\ h \in Activos(Colas)
    BY <1>1, <1>2, ToSetTipo DEF TipoListas, SinRepetidos, Activos, Colas
  <2>2. /\ SinRepetidos(s) /\ Activos(s) = Activos(Colas) \ {h}
        /\ s \in ColasDe(Hilos, MensajesCpu)
    <3>1. SinRepetidos(s) /\ Activos(s) = Activos(p) \ {h}
      BY <1>1, <2>1, SacarElementos
    <3>2. QED
      BY <1>1, <3>1, SacarCorrecto, Zenon
  <2>3. /\ SinRepetidos(q) /\ Activos(q) = Activos(Colas) \ {h}
        /\ q \in ColasDe(Hilos, MensajesCpu)
    <3> HIDE DEF s
    <3>1. QED
      BY <2>2, PcpElementos, PcpTipo, PrioridadTipo
  <2>4. Quedan(q) /\ blocked' = blocked \cup {h}
    BY <1>2 DEF Bloquear
  <2> HIDE DEF q
  <2>5. Colas' = q
    BY <2>1, <2>3, <2>4, QuedanTipo DEF TipoListas
  <2>6. QED
    BY <2>1, <2>3, <2>4, <2>5 DEF MismosVivos, Lugares, Vivos
<1>3. CASE h \notin ToSet(exec)
  <2>1. Quedan(p) /\ blocked' = blocked
    BY <1>3 DEF Bloquear
  <2>2. Colas' = p
    BY <2>1, QuedanTipo DEF TipoListas
  <2>3. QED
    BY <1>1, <2>1, <2>2 DEF MismosVivos, Lugares, Vivos
<1>4. QED
  BY <1>2, <1>3

\* Lists with the same threads left in place.
LEMMA QuedanMismosVivos ==
  ASSUME TypeOK, Lugares, NEW q \in ColasDe(Hilos, MensajesCpu), Quedan(q),
         SinRepetidos(q), Activos(q) = Activos(Colas), blocked' = blocked, salidos' = salidos
  PROVE  MismosVivos
<1>1. Colas' = q
  BY QuedanTipo DEF TypeOK, TipoListas
<1>2. QED
  BY <1>1 DEF MismosVivos, Lugares, Vivos

\* protocolo_liberacion_recurso
LEMMA ProtocoloElementos ==
  ASSUME TypeOK, Lugares, NEW m \in Mutexes, NEW asig, NEW rta \in BOOLEAN,
         Protocolo(m, asig, rta), salidos' = salidos
  PROVE  MismosVivos
<1> USE DEF TypeOK
<1>1. Colas \in ColasDe(Hilos, MensajesCpu)
  BY ColasTipo
<1>2. CASE bloqueadosMutex[m] = <<>>
  <2>1. Quedan(Responder(Colas, rta)) /\ blocked' = blocked
    BY <1>2 DEF Protocolo
  <2>2. /\ Responder(Colas, rta) \in ColasDe(Hilos, MensajesCpu)
        /\ Responder(Colas, rta).ready = Colas.ready /\ Responder(Colas, rta).exec = Colas.exec
    BY <1>1, ResponderTipo
  <2>3. /\ SinRepetidos(Responder(Colas, rta))
        /\ Activos(Responder(Colas, rta)) = Activos(Colas)
    BY <2>2, MismasListas DEF Lugares
  <2>4. QED
    BY <2>1, <2>2, <2>3, QuedanMismosVivos
<1>3. CASE bloqueadosMutex[m] # <<>>
  <2> DEFINE w == Heredero(m)
             q == Desbloquear(Colas, w)
             r == Responder(q, rta)
  <2>1. Quedan(r) /\ blocked' = blocked \ {w}
    BY <1>3 DEF Protocolo
  <2>2. q \in ColasDe(Hilos, MensajesCpu)
    BY <1>1, DesbloquearTipo
  <2>3. /\ SinRepetidos(q) /\ Activos(q) \cap (blocked \ {w}) = {}
        /\ Activos(q) \cup (blocked \ {w}) = Vivos
    BY <1>1, DesbloquearElementos DEF Lugares, Vivos
  <2> HIDE DEF w, q
  <2>4. r \in ColasDe(Hilos, MensajesCpu) /\ r.ready = q.ready /\ r.exec = q.exec
    BY <2>2, ResponderTipo
  <2>5. SinRepetidos(r) /\ Activos(r) = Activos(q)
    BY <2>3, <2>4, MismasListas
  <2> HIDE DEF r
  <2>6. Colas' = r
    BY <2>1, <2>4, QuedanTipo DEF TipoListas
  <2>7. QED
    BY <2>1, <2>3, <2>5, <2>6 DEF MismosVivos
<1>4. QED
  BY <1>2, <1>3
-----------------------------------------------------------------------------
(***************************************************************************)
(* The operations that change who is alive.                                *)
(***************************************************************************)
\* The first step of finalizar_hilo, by an executor that has none under way:
\* the thread passes from its list to its hands.
LEMMA FhInicioElementos ==
  ASSUME TypeOK, Lugares, NEW e \in Ejecutores, fh[e].fase = "nada", NEW h, NEW rta \in BOOLEAN,
         FhInicio(e, h, rta), salidos' = salidos, siguienteTid' = siguienteTid
  PROVE  Lugares'
<1> USE DEF TypeOK
<1>1. Colas \in ColasDe(Hilos, MensajesCpu) /\ SinRepetidos(Colas)
  BY ColasTipo DEF Lugares
<1>2. CASE Existe(h)
  <2> DEFINE p == IF h \in ToSet(ready) THEN [Colas EXCEPT !.ready = RemoveFirst(@, h)]
                  ELSE SacarDeExec(Colas, h)
             r == [fase |-> "pedido", hilo |-> h, mutexes |-> asignados[h],
                   joins |-> esperanJoin[h], rta |-> rta]
  <2>1. h \in Vivos /\ h \in Hilos
    BY <1>2, ToSetTipo, VivosExisten DEF Existe, TipoListas
  <2>2. /\ Quedan(p) /\ blocked' = blocked \ {h} /\ memHilos' = memHilos \ {h}
        /\ fh' = [fh EXCEPT ![e] = r]
    BY <1>2, Zenon DEF FhInicio
  <2>3. SinRepetidos(p) /\ Activos(p) = Activos(Colas) \ {h}
    <3>1. Colas.ready = ready /\ Colas.exec = exec
      BY DEF Colas
    <3>2. h \notin ToSet(ready) \/ h \notin ToSet(exec)
      BY <1>1, <3>1 DEF SinRepetidos
    <3>3. CASE h \in ToSet(ready)
      <4>1. p.ready = RemoveFirst(Colas.ready, h) /\ p.exec = Colas.exec
        BY <3>1, <3>3 DEF Colas
      <4> HIDE DEF p
      <4>2. QED
        BY <1>1, <3>1, <3>2, <3>3, <4>1, QuitarElementos
    <3>4. CASE h \notin ToSet(ready)
      BY <1>1, <3>1, <3>4, SacarElementos
    <3>5. QED
      BY <3>3, <3>4
  <2>4. p \in ColasDe(Hilos, MensajesCpu)
    <3>1. RemoveFirst(ready, h) \in Seq(Hilos)
      BY RemoveFirstSeq DEF TipoListas
    <3>2. [Colas EXCEPT !.ready = RemoveFirst(@, h)] \in ColasDe(Hilos, MensajesCpu)
      BY <1>1, <3>1 DEF Colas, ColasDe
    <3>3. QED
      BY <1>1, <3>2, SacarCorrecto
  <2> HIDE DEF p
  <2>5. Colas' = p
    BY <2>2, <2>4, QuedanTipo DEF TipoListas
  <2>6. Vivos' = Vivos \ {h}
    BY <2>2, <2>3, <2>5 DEF Vivos
  <2>7. /\ Saliendo(e) = {} /\ Saliendo(e)' = {h}
        /\ \A o \in Ejecutores : o # e => Saliendo(o)' = Saliendo(o)
    BY <2>2 DEF Saliendo, TipoFin
  <2>8. Salientes' = Salientes \cup {h}
    BY <2>7 DEF Salientes
  <2>9. Creados' = Creados
    BY DEF Creados
  <2>10. \A o, q \in Ejecutores : o # q => Saliendo(o)' \cap Saliendo(q)' = {}
    BY <2>1, <2>7 DEF Lugares
  <2>11. \A o \in Ejecutores : Saliendo(o)' \cap (Vivos' \cup salidos') = {}
    BY <2>1, <2>6, <2>7 DEF Lugares
  <2>12. Vivos' \cup salidos' \cup Salientes' = Creados'
    BY <2>1, <2>6, <2>8, <2>9 DEF Lugares
  <2>13. SinRepetidos(Colas') /\ Activos(Colas') \cap blocked' = {}
    BY <2>2, <2>3, <2>5 DEF Lugares
  <2>14. Vivos' \cap salidos' = {} /\ Vivos' \subseteq memHilos'
    BY <2>2, <2>6 DEF Lugares
  <2>15. QED
    BY <2>10, <2>11, <2>12, <2>13, <2>14 DEF Lugares
<1>3. CASE ~Existe(h)
  <2> DEFINE q == Responder(Colas, rta)
  <2>1. Quedan(q) /\ blocked' = blocked /\ memHilos' = memHilos /\ fh' = fh
    BY <1>3 DEF FhInicio
  <2>2. q \in ColasDe(Hilos, MensajesCpu) /\ q.ready = Colas.ready /\ q.exec = Colas.exec
    BY <1>1, ResponderTipo
  <2> HIDE DEF q
  <2>3. MismosVivos
    BY <1>1, <2>1, <2>2, MismasListas, QuedanMismosVivos
  <2>4. QED
    BY <2>1, <2>3, MismosLugares, MismosSalientes
<1>4. QED
  BY <1>2, <1>3

\* crear_tcb: the next thread of the process enters READY.
LEMMA CrearTcbElementos ==
  ASSUME TypeOK, Lugares, NEW q \in Pids, siguienteTid[q] <= MaxTid, NEW pr,
         NEW p \in ColasDe(Hilos, MensajesCpu), p.ready = ready, p.exec = exec,
         CrearTcb(q, pr, p), blocked' = blocked, salidos' = salidos, fh' = fh
  PROVE  /\ Lugares'
         /\ ready' = Append(ready, <<q, siguienteTid[q]>>)
<1> USE DEF TypeOK
<1> DEFINE h == <<q, siguienteTid[q]>>
<1>1. siguienteTid[q] \in Nat /\ h \in Hilos
  BY ConstantesTipo DEF TipoPcb, Hilos, Tids
<1>2. /\ siguienteTid' = [siguienteTid EXCEPT ![q] = @ + 1]
      /\ memHilos' = memHilos \cup {h}
      /\ Quedan(Encolar(p, h))
  BY DEF CrearTcb
<1>3. h \notin Creados
  BY <1>1 DEF Creados
<1>4. Creados' = Creados \cup {h}
  <2>1. \A o \in Pids : siguienteTid[o] \in Nat /\ siguienteTid[o] \in Int
    BY DEF TipoPcb
  <2>2. \A o \in Pids : siguienteTid'[o] = IF o = q THEN siguienteTid[q] + 1 ELSE siguienteTid[o]
    BY <1>2 DEF TipoPcb
  <2>3. \A t \in Tids : t < siguienteTid[q] + 1 <=> (t < siguienteTid[q] \/ t = siguienteTid[q])
    BY <2>1, ConstantesTipo
  <2>4. ASSUME NEW o \in Pids, NEW t \in Tids
        PROVE  <<o, t>> \in Creados' <=> (<<o, t>> \in Creados \/ <<o, t>> = h)
    BY <1>1, <2>2, <2>3 DEF Creados, Hilos
  <2>5. \A x \in Hilos : x \in Creados' <=> (x \in Creados \/ x = h)
    BY <2>4 DEF Hilos
  <2>6. Creados \subseteq Hilos /\ Creados' \subseteq Hilos
    BY DEF Creados
  <2>7. QED
    BY <1>1, <2>5, <2>6
<1> HIDE DEF h
<1>5. h \notin Vivos /\ h \notin salidos /\ \A e \in Ejecutores : h \notin Saliendo(e)
  BY <1>3 DEF Lugares, Salientes
<1>6. SinRepetidos(p) /\ Activos(p) = Activos(Colas)
  BY MismasListas DEF Lugares, Colas
<1>7. /\ SinRepetidos(Encolar(p, h)) /\ Activos(Encolar(p, h)) = Activos(Colas) \cup {h}
      /\ Encolar(p, h) \in ColasDe(Hilos, MensajesCpu)
  <2>1. h \notin Activos(p)
    BY <1>5, <1>6 DEF Vivos
  <2>2. QED
    BY <1>1, <1>6, <2>1, EncolarElementos, EncolarEnviarCorrecto
<1>8. Colas' = Encolar(p, h)
  BY <1>2, <1>7, QuedanTipo DEF TipoListas
<1>9. Vivos' = Vivos \cup {h}
  BY <1>7, <1>8 DEF Vivos
<1>10. (\A e \in Ejecutores : Saliendo(e)' = Saliendo(e)) /\ Salientes' = Salientes
  BY MismosSalientes DEF Salientes
<1>11. SinRepetidos(Colas') /\ Activos(Colas') \cap blocked' = {}
  BY <1>5, <1>7, <1>8 DEF Lugares, Vivos
<1>12. Vivos' \cap salidos' = {} /\ Vivos' \subseteq memHilos'
  BY <1>2, <1>5, <1>9 DEF Lugares
<1>13. \A e \in Ejecutores : Saliendo(e)' \cap (Vivos' \cup salidos') = {}
  BY <1>5, <1>9, <1>10 DEF Lugares
<1>14. Vivos' \cup salidos' \cup Salientes' = Creados'
  BY <1>4, <1>9, <1>10 DEF Lugares
<1>15. Lugares'
  BY <1>10, <1>11, <1>12, <1>13, <1>14 DEF Lugares
<1>16. ready' = Append(ready, h)
  BY <1>2 DEF Quedan, Encolar, ColasDe
<1>17. QED
  BY <1>15, <1>16 DEF h
-----------------------------------------------------------------------------
(***************************************************************************)
(* The actions.                                                            *)
(***************************************************************************)
\* A step that touches no list of threads.
LEMMA SinMover ==
  ASSUME Lugares, UNCHANGED <<ready, exec, blocked>>
  PROVE  MismosVivos
<1>1. Colas'.ready = Colas.ready /\ Colas'.exec = Colas.exec
  BY DEF Colas
<1>2. SinRepetidos(Colas') /\ Activos(Colas') = Activos(Colas)
  BY <1>1, MismasListas DEF Lugares
<1>3. QED
  BY <1>2 DEF MismosVivos, Lugares, Vivos

LEMMA FinalizarHiloLugares ==
  ASSUME TypeOK, Lugares, NEW e \in Ejecutores, FinalizarHilo(e)
  PROVE  Lugares'
<1> USE DEF TypeOK
<1>1. fh[e] \in FinalizacionesHilo /\ fh[e].fase # "nada" /\ fh[e].hilo \in Hilos
  BY DEF TipoFin, FinalizarHilo, FhTomar, FhMutex, FhSalir, FhJoin, FhFin, FinalizacionesHilo
<1>2. Colas \in ColasDe(Hilos, MensajesCpu)
  BY ColasTipo
\* The steps that leave the hands of every executor as they are.
<1>3. ASSUME MismosVivos, salidos' = salidos, siguienteTid' = siguienteTid,
             memHilos' = memHilos, Saliendo(e)' = Saliendo(e),
             \A o \in Ejecutores : o # e => fh'[o] = fh[o]
      PROVE  Lugares'
  <2>1. \A o \in Ejecutores : Saliendo(o)' = Saliendo(o)
    BY <1>3 DEF Saliendo
  <2>2. QED
    BY <1>3, <2>1, MismosLugares
<1>4. CASE FhTomar(e)
  <2>1. fh' = [fh EXCEPT ![e].fase = "mutexes"] /\ fh[e].fase = "pedido"
    BY <1>4 DEF FhTomar
  <2>2. Saliendo(e)' = Saliendo(e) /\ \A o \in Ejecutores : o # e => fh'[o] = fh[o]
    BY <1>1, <2>1 DEF Saliendo, TipoFin, FinalizacionesHilo
  <2>3. QED
    BY <1>3, <1>4, <2>2, SinMover DEF FhTomar, vListas, vPcb, vMemoria
<1>5. CASE FhMutex(e)
  <2>1. fh' = [fh EXCEPT ![e].mutexes = Tail(@)] /\ fh[e].fase = "mutexes"
    BY <1>5 DEF FhMutex
  <2>2. Saliendo(e)' = Saliendo(e) /\ \A o \in Ejecutores : o # e => fh'[o] = fh[o]
    BY <1>1, <2>1 DEF Saliendo, TipoFin, FinalizacionesHilo
  <2>3. Head(fh[e].mutexes) \in Mutexes
    BY <1>1, <1>5, ToSetTipo DEF FhMutex, FinalizacionesHilo
  <2>4. MismosVivos
    BY <1>5, <2>3, ProtocoloElementos DEF FhMutex
  <2>5. QED
    BY <1>3, <1>5, <2>2, <2>4 DEF FhMutex, vPcb, vMemoria
<1>6. CASE FhSalir(e)
  <2> DEFINE h == fh[e].hilo
  <2>1. /\ fh' = [fh EXCEPT ![e].fase = "joins"] /\ fh[e].fase = "mutexes"
        /\ salidos' = salidos \cup {h} /\ UNCHANGED <<ready, exec, blocked, siguienteTid, memHilos>>
    BY <1>6 DEF FhSalir, vMemoria
  <2>2. /\ Saliendo(e) = {h} /\ Saliendo(e)' = {}
        /\ \A o \in Ejecutores : o # e => Saliendo(o)' = Saliendo(o)
    BY <1>1, <2>1 DEF Saliendo, TipoFin, FinalizacionesHilo
  <2>3. MismosVivos /\ Vivos' = Vivos
    BY <2>1, SinMover DEF MismosVivos, Vivos
  <2>4. Creados' = Creados
    BY <2>1 DEF Creados
  <2>5. Salientes' \cup {h} = Salientes
    BY <2>2 DEF Salientes
  <2> HIDE DEF h
  <2>6. h \notin Vivos /\ \A o \in Ejecutores : o # e => h \notin Saliendo(o)
    BY <2>2 DEF Lugares
  <2>7. Vivos' \cup salidos' \cup Salientes' = Creados'
    BY <2>1, <2>3, <2>4, <2>5 DEF Lugares
  <2>8. \A o \in Ejecutores : Saliendo(o)' \cap (Vivos' \cup salidos') = {}
    BY <2>1, <2>2, <2>3, <2>6 DEF Lugares
  <2>9. \A o, q \in Ejecutores : o # q => Saliendo(o)' \cap Saliendo(q)' = {}
    BY <2>2 DEF Lugares
  <2>10. Vivos' \cap salidos' = {} /\ Vivos' \subseteq memHilos'
    BY <2>1, <2>3, <2>6 DEF Lugares
  <2>11. QED
    BY <2>3, <2>7, <2>8, <2>9, <2>10 DEF Lugares, MismosVivos
<1>7. CASE FhJoin(e)
  <2> DEFINE h == Head(fh[e].joins)
             q == Desbloquear(Colas, h)
  <2>1. /\ fh' = [fh EXCEPT ![e].joins = Tail(@)] /\ fh[e].fase = "joins"
        /\ Quedan(q) /\ blocked' = blocked \ {h}
    BY <1>7 DEF FhJoin
  <2>2. Saliendo(e)' = Saliendo(e) /\ \A o \in Ejecutores : o # e => fh'[o] = fh[o]
    BY <1>1, <2>1 DEF Saliendo, TipoFin, FinalizacionesHilo
  <2>3. q \in ColasDe(Hilos, MensajesCpu)
    BY <1>2, DesbloquearTipo
  <2>4. /\ SinRepetidos(q) /\ Activos(q) \cap (blocked \ {h}) = {}
        /\ Activos(q) \cup (blocked \ {h}) = Vivos
    BY <1>2, DesbloquearElementos DEF Lugares, Vivos
  <2> HIDE DEF q, h
  <2>5. Colas' = q
    BY <1>7, <2>1, <2>3, QuedanTipo DEF TipoListas, FhJoin
  <2>6. MismosVivos
    BY <2>1, <2>4, <2>5 DEF MismosVivos
  <2>7. QED
    BY <1>3, <1>7, <2>2, <2>6 DEF FhJoin, vPcb, vMemoria
<1>8. CASE FhFin(e)
  <2> DEFINE p == Pcp(Colas, prioridad)
             q == Responder(p, fh[e].rta)
  <2>1. Quedan(q) /\ fh' = [fh EXCEPT ![e] = FhNada] /\ fh[e].fase = "joins"
    BY <1>8 DEF FhFin
  <2>2. Saliendo(e)' = Saliendo(e) /\ \A o \in Ejecutores : o # e => fh'[o] = fh[o]
    BY <1>1, <2>1 DEF Saliendo, TipoFin, FhNada
  <2>3. fh[e].rta \in BOOLEAN
    BY <1>1 DEF FinalizacionesHilo
  <2>4. /\ p \in ColasDe(Hilos, MensajesCpu)
        /\ SinRepetidos(p) /\ Activos(p) = Activos(Colas)
    BY <1>2, PcpTipo, PcpElementos, PrioridadTipo DEF Lugares
  <2> HIDE DEF p
  <2>5. q \in ColasDe(Hilos, MensajesCpu) /\ q.ready = p.ready /\ q.exec = p.exec
    BY <2>3, <2>4, ResponderTipo
  <2> HIDE DEF q
  <2>6. SinRepetidos(q) /\ Activos(q) = Activos(Colas)
    BY <2>4, <2>5, MismasListas
  <2>7. MismosVivos
    BY <1>8, <2>1, <2>5, <2>6, QuedanMismosVivos DEF FhFin
  <2>8. QED
    BY <1>3, <1>8, <2>2, <2>7 DEF FhFin, vPcb, vMemoria
<1>9. QED
  BY <1>4, <1>5, <1>6, <1>7, <1>8 DEF FinalizarHilo

LEMMA PcpSueltoLugares ==
  ASSUME TypeOK, Lugares, PcpSuelto
  PROVE  Lugares'
<1> USE DEF TypeOK
<1> DEFINE p == Pcp(Colas, prioridad)
<1>1. /\ p \in ColasDe(Hilos, MensajesCpu)
      /\ SinRepetidos(p) /\ Activos(p) = Activos(Colas)
  BY ColasTipo, PcpTipo, PcpElementos, PrioridadTipo DEF Lugares
<1>2. Quedan(p) /\ fh' = fh
  BY DEF PcpSuelto
<1> HIDE DEF p
<1>3. MismosVivos
  BY <1>1, <1>2, QuedanMismosVivos DEF PcpSuelto
<1>4. QED
  BY <1>2, <1>3, MismosLugares, MismosSalientes DEF PcpSuelto, vPcb, vMemoria

LEMMA CpuLugares ==
  ASSUME Lugares, Cpu \/ Programa
  PROVE  Lugares'
<1>1. UNCHANGED <<ready, exec, blocked, salidos, siguienteTid, memHilos, fh>>
  BY DEF Cpu, Programa, CpuRecibeEjecutar, CpuRecibeRta, CpuGuarda, CpuSinHilo, CpuSyscall,
         CpuSegmentationFault, vListas, vPcb, vMemoria
<1>2. QED
  BY <1>1, SinMover, MismosLugares, MismosSalientes

LEMMA DumpMemoryLugares ==
  ASSUME TypeOK, Lugares, NEW h \in Hilos, DumpMemory(h)
  PROVE  Lugares'
<1> USE DEF TypeOK
<1>1. /\ Colas \in ColasDe(Hilos, MensajesCpu) /\ Colas.ready = ready /\ Colas.exec = exec
      /\ UNCHANGED <<salidos, siguienteTid, memHilos, fh>>
  BY ColasTipo
  DEF Colas, DumpMemory, DumpBloquear, DumpResponder, DumpConcluir, vListas, vPcb, vMemoria
<1>2. CASE DumpBloquear(h)
  <2>1. PICK v \in IdLeido(h) : Bloquear(Colas, v)
    BY <1>2 DEF DumpBloquear
  <2>2. MismosVivos
    BY <1>1, <2>1, BloquearElementos
  <2>3. QED
    BY <1>1, <2>2, MismosLugares, MismosSalientes
<1>3. CASE DumpResponder(h)
  BY <1>1, <1>3, SinMover, MismosLugares, MismosSalientes DEF DumpResponder, vListas
<1>4. CASE DumpConcluir(h)
  <2>1. PICK v \in IdLeido(h) :
          IF rtaDump = "OK" THEN Quedan(Desbloquear(Colas, v)) /\ blocked' = blocked \ {v}
                            ELSE Quedan(Colas) /\ blocked' = blocked
    BY <1>4 DEF DumpConcluir
  <2>2. CASE rtaDump = "OK"
    <3> DEFINE q == Desbloquear(Colas, v)
    <3>1. q \in ColasDe(Hilos, MensajesCpu)
      BY <1>1, DesbloquearTipo
    <3>2. /\ SinRepetidos(q) /\ Activos(q) \cap (blocked \ {v}) = {}
          /\ Activos(q) \cup (blocked \ {v}) = Vivos
      BY <1>1, DesbloquearElementos DEF Lugares, Vivos
    <3>3. Quedan(q) /\ blocked' = blocked \ {v}
      BY <2>1, <2>2
    <3> HIDE DEF q
    <3>4. Colas' = q
      BY <1>1, <3>1, <3>3, QuedanTipo DEF TipoListas
    <3>5. MismosVivos
      BY <3>2, <3>3, <3>4 DEF MismosVivos
    <3>6. QED
      BY <1>1, <3>5, MismosLugares, MismosSalientes
  <2>3. CASE rtaDump # "OK"
    BY <1>1, <2>1, <2>3, SinMover, MismosLugares, MismosSalientes DEF Quedan
  <2>4. QED
    BY <2>2, <2>3
<1>5. QED
  BY <1>2, <1>3, <1>4 DEF DumpMemory

LEMMA FinalizarProcesoLugares ==
  ASSUME IInv, Lugares, NEW p \in Pids, FinalizarProceso(p)
  PROVE  Lugares'
<1> USE DEF IInv, TypeOK
<1>1. /\ p \in Ejecutores /\ Colas \in ColasDe(Hilos, MensajesCpu)
      /\ Colas.ready = ready /\ Colas.exec = exec
  BY ColasTipo DEF Ejecutores, Colas
<1>2. CASE FinMemoria(p) \/ FinTomar(p) \/ FinSalir(p)
  <2>1. UNCHANGED <<ready, exec, blocked, salidos, siguienteTid, memHilos, fh>>
    BY <1>2 DEF FinMemoria, FinTomar, FinSalir, vListas, vMemoria
  <2>2. QED
    BY <2>1, SinMover, MismosLugares, MismosSalientes
<1>3. CASE FinHilo(p)
  <2>1. /\ FhInicio(p, listaIds[p][fin[p].i], FALSE) /\ fh[p].fase = "nada"
        /\ salidos' = salidos /\ siguienteTid' = siguienteTid
    BY <1>3 DEF FinHilo, vPcb
  <2>2. QED
    BY <1>1, <2>1, FhInicioElementos
<1>4. CASE FinCero(p)
  <2>1. /\ fh[p].fase = "nada" /\ salidos' = salidos /\ siguienteTid' = siguienteTid
        /\ \/ FhInicio(p, <<p, 0>>, FALSE)
           \/ UNCHANGED <<ready, exec, blocked, memHilos, fh>>
    BY <1>4 DEF FinCero, vPcb, Quedan, Colas
  <2>2. CASE FhInicio(p, <<p, 0>>, FALSE)
    BY <1>1, <2>1, <2>2, FhInicioElementos
  <2>3. CASE UNCHANGED <<ready, exec, blocked, memHilos, fh>>
    BY <2>1, <2>3, SinMover, MismosLugares, MismosSalientes
  <2>4. QED
    BY <2>1, <2>2, <2>3
<1>5. CASE FinReplanificar(p)
  <2> DEFINE q == Head(pcbNew)
  <2>1. q \in Pids /\ siguienteTid[q] = 0
    BY <1>5, PrimeroDeNew DEF FinReplanificar
  <2>2. siguienteTid[q] <= MaxTid
    BY <2>1, ConstantesTipo
  <2>3. CrearTcb(q, prioridad[<<q, 0>>], Colas)
        /\ blocked' = blocked /\ salidos' = salidos /\ fh' = fh
    BY <1>5 DEF FinReplanificar
  <2> HIDE DEF q
  <2>4. QED
    BY <1>1, <2>1, <2>2, <2>3, CrearTcbElementos
<1>6. QED
  BY <1>2, <1>3, <1>4, <1>5 DEF FinalizarProceso

\* The handler's requests that create a thread.
LEMMA CrearLugares ==
  ASSUME IInv, Lugares, AtiendeProcessCreate \/ AtiendeThreadCreate
  PROVE  Lugares'
<1> USE DEF IInv, TypeOK
<1> DEFINE p == Enviar(Colas, Rta("OK"))
<1>1. HayPedido /\ Hallado /\ LlegaPedido
  BY DEF AtiendeProcessCreate, AtiendeThreadCreate, Llega, LlegaPedido
<1>2. /\ P \in Pids /\ p \in ColasDe(Hilos, MensajesCpu)
      /\ p.ready = ready /\ p.exec = exec
  <2>1. Colas.ready = ready
    BY DEF Colas
  <2>2. QED
    BY <1>1, <2>1, AtiendeComienzo, ResponderTipo
<1>3. blocked' = blocked /\ salidos' = salidos /\ fh' = fh
  BY DEF AtiendeProcessCreate, AtiendeThreadCreate
<1>4. CASE AtiendeProcessCreate
  <2>1. /\ siguientePid \in Pids /\ siguienteTid[siguientePid] = 0
    BY <1>4, ConstantesTipo DEF AtiendeProcessCreate, TipoPcb, Pids, NuevosSinHilos
  <2>2. CASE pcbNew = <<>> /\ HayParticion
    <3>1. CrearTcb(siguientePid, Pedida.arg, p)
      BY <1>4, <2>2 DEF AtiendeProcessCreate
    <3>2. siguienteTid[siguientePid] <= MaxTid
      BY <2>1, ConstantesTipo
    <3> HIDE DEF p
    <3>3. QED
      BY <1>2, <1>3, <2>1, <3>1, <3>2, CrearTcbElementos
  <2>3. CASE ~(pcbNew = <<>> /\ HayParticion)
    <3>1. Quedan(p) /\ memHilos' = memHilos /\ siguienteTid' = siguienteTid
      BY <1>4, <2>3 DEF AtiendeProcessCreate
    <3>2. UNCHANGED <<ready, exec, blocked>>
      BY <1>2, <1>3, <3>1 DEF Quedan
    <3>3. QED
      BY <1>3, <3>1, <3>2, SinMover, MismosLugares, MismosSalientes
  <2>4. QED
    BY <2>2, <2>3
<1>5. CASE AtiendeThreadCreate
  <2>1. CASE P \in pcbMem /\ P \in memProc
    <3>1. CrearTcb(P, Pedida.arg, p) /\ siguienteTid[P] <= MaxTid
      BY <1>5, <2>1 DEF AtiendeThreadCreate
    <3> HIDE DEF p
    <3>2. QED
      BY <1>2, <1>3, <3>1, CrearTcbElementos
  <2>2. CASE ~(P \in pcbMem /\ P \in memProc)
    <3>1. UNCHANGED <<siguienteTid, memHilos, ready, exec>>
      BY <1>5, <2>2 DEF AtiendeThreadCreate
    <3>2. QED
      BY <1>3, <3>1, SinMover, MismosLugares, MismosSalientes
  <2>3. QED
    BY <2>1, <2>2
<1>6. QED
  BY <1>4, <1>5

\* The handler's requests that finalize a thread.
LEMMA AtiendeFinalizacionLugares ==
  ASSUME IInv, Lugares, AtiendeThreadCancel \/ AtiendeThreadExit \/ AtiendeMutexInexistente
  PROVE  Lugares'
<1>1. HayPedido /\ fh[Dispatch].fase = "nada" /\ Dispatch \in Ejecutores
  BY DEF AtiendeThreadCancel, AtiendeThreadExit, AtiendeMutexInexistente, Llega, LlegaPedido,
         HayPedido, Ejecutores
<1>2. /\ salidos' = salidos /\ siguienteTid' = siguienteTid
      /\ \E h : \E rta \in BOOLEAN : FhInicio(Dispatch, h, rta)
  BY DEF AtiendeThreadCancel, AtiendeThreadExit, AtiendeMutexInexistente, vPcb
<1>3. QED
  BY <1>1, <1>2, FhInicioElementos DEF IInv

\* The other requests: nobody is created and nobody ends.
LEMMA AtiendeOtrosLugares ==
  ASSUME IInv, Lugares,
         \/ EsperaPcb \/ AtiendeInvalido \/ AtiendeExitRepetido \/ AtiendeProcessExit
         \/ AtiendeThreadJoin \/ AtiendeMutexSinPcb \/ AtiendeMutexCreate
         \/ AtiendeMutexLock \/ AtiendeMutexUnlock \/ AtiendeDump \/ AtiendeDesalojo
  PROVE  Lugares'
<1> USE DEF IInv, TypeOK
<1> DEFINE ok == Enviar(Colas, Rta("OK"))
           des == Enviar(Colas, Rta("DESALOJO"))
<1>1. UNCHANGED <<salidos, siguienteTid, memHilos, fh>>
  BY DEF EsperaPcb, AtiendeInvalido, AtiendeExitRepetido, AtiendeProcessExit, AtiendeThreadJoin,
         AtiendeMutexSinPcb, AtiendeMutexCreate, AtiendeMutexLock, AtiendeMutexUnlock,
         AtiendeDump, AtiendeDesalojo, vListas, vPcb, vMemoria
<1>2. SUFFICES MismosVivos
  BY <1>1, MismosLugares, MismosSalientes
<1>3. /\ Colas \in ColasDe(Hilos, MensajesCpu) /\ Colas.ready = ready /\ Colas.exec = exec
      /\ SinRepetidos(Colas)
  BY ColasTipo DEF Colas, Lugares
<1>4. /\ ok \in ColasDe(Hilos, MensajesCpu) /\ ok.ready = ready /\ ok.exec = exec
      /\ des \in ColasDe(Hilos, MensajesCpu) /\ des.ready = ready /\ des.exec = exec
  BY <1>3, ResponderTipo
<1>5. ASSUME Quedan(ok), blocked' = blocked PROVE MismosVivos
  BY <1>4, <1>5, SinMover DEF Quedan
<1>6. CASE EsperaPcb \/ AtiendeInvalido \/ AtiendeExitRepetido \/ AtiendeProcessExit
           \/ AtiendeMutexSinPcb \/ AtiendeMutexCreate
  BY <1>5, <1>6, SinMover
  DEF EsperaPcb, AtiendeInvalido, AtiendeExitRepetido, AtiendeProcessExit, AtiendeMutexSinPcb,
      AtiendeMutexCreate, vListas
<1>7. CASE AtiendeThreadJoin
  <2>1. Bloquear(des, H) \/ (Quedan(ok) /\ blocked' = blocked)
    BY <1>7 DEF AtiendeThreadJoin
  <2> HIDE DEF des, ok
  <2>2. QED
    BY <1>1, <1>4, <1>5, <2>1, BloquearElementos
<1>8. CASE AtiendeMutexLock
  <2>1. Bloquear(des, H) \/ (Quedan(ok) /\ blocked' = blocked)
    BY <1>8 DEF AtiendeMutexLock
  <2> HIDE DEF des, ok
  <2>2. QED
    BY <1>1, <1>4, <1>5, <2>1, BloquearElementos
<1>9. CASE AtiendeMutexUnlock
  <2> DEFINE m == <<P, Pedida.arg>>
  <2>1. (\E asig : Protocolo(m, asig, TRUE)) \/ (Quedan(ok) /\ blocked' = blocked)
    BY <1>9 DEF AtiendeMutexUnlock
  <2>2. m \in Mutexes
    BY <1>9 DEF AtiendeMutexUnlock, TipoMutex
  <2> HIDE DEF m, ok
  <2>3. QED
    BY <1>1, <1>5, <2>1, <2>2, ProtocoloElementos
<1>10. CASE AtiendeDump
  <2> DEFINE p == Pcp(Colas, prioridad)
  <2>1. /\ p \in ColasDe(Hilos, MensajesCpu)
        /\ SinRepetidos(p) /\ Activos(p) = Activos(Colas)
    BY <1>3, PcpTipo, PcpElementos, PrioridadTipo
  <2>2. Quedan(p) /\ blocked' = blocked
    BY <1>10 DEF AtiendeDump
  <2> HIDE DEF p
  <2>3. QED
    BY <1>1, <2>1, <2>2, QuedanMismosVivos
<1>11. CASE AtiendeDesalojo
  <2>1. blocked' = blocked
        /\ Quedan(IF H \in ToSet(exec) THEN Pcp(Encolar(SacarDeExec(Colas, H), H), prioridad)
                                       ELSE Colas)
    BY <1>11 DEF AtiendeDesalojo
  <2>2. CASE H \in ToSet(exec)
    <3> DEFINE s == SacarDeExec(Colas, H)
               n == Encolar(s, H)
               p == Pcp(n, prioridad)
    <3>1. H \in Hilos /\ H \notin ToSet(Colas.ready) /\ H \in Activos(Colas)
      BY <1>3, <2>2, ToSetTipo DEF TipoListas, SinRepetidos, Activos
    <3>2. SinRepetidos(s) /\ Activos(s) = Activos(Colas) \ {H}
      BY <1>3, <3>1, SacarElementos
    <3>3. s \in ColasDe(Hilos, MensajesCpu)
      BY <1>3, SacarCorrecto
    <3> HIDE DEF s
    <3>4. /\ SinRepetidos(n) /\ Activos(n) = Activos(s) \cup {H}
          /\ n \in ColasDe(Hilos, MensajesCpu)
      BY <3>1, <3>2, <3>3, EncolarElementos, EncolarEnviarCorrecto
    <3> HIDE DEF n
    <3>5. /\ SinRepetidos(p) /\ Activos(p) = Activos(n)
          /\ p \in ColasDe(Hilos, MensajesCpu)
      BY <3>4, PcpElementos, PcpTipo, PrioridadTipo
    <3>6. Activos(p) = Activos(Colas) /\ Quedan(p)
      BY <2>1, <2>2, <3>1, <3>2, <3>4, <3>5 DEF n, s
    <3> HIDE DEF p
    <3>7. QED
      BY <1>1, <2>1, <3>5, <3>6, QuedanMismosVivos
  <2>3. CASE H \notin ToSet(exec)
    BY <1>1, <1>3, <2>1, <2>3, QuedanMismosVivos
  <2>4. QED
    BY <2>2, <2>3
<1>12. QED
  BY <1>6, <1>7, <1>8, <1>9, <1>10, <1>11
-----------------------------------------------------------------------------
LEMMA InicioLugares == Init => Lugares
<1> SUFFICES ASSUME Init PROVE Lugares
  OBVIOUS
<1> USE ConstantesTipo DEF Init
<1>1. /\ Colas.ready = <<<<0, 0>>>> /\ Colas.exec = <<>>
      /\ ToSet(<<<<0, 0>>>>) = {<<0, 0>>} /\ IsInjective(<<<<0, 0>>>>)
  BY DEF Colas, ToSet, IsInjective
<1>2. SinRepetidos(Colas) /\ Vivos = {<<0, 0>>}
  BY <1>1, VacioElementos DEF SinRepetidos, Vivos, Activos
<1>3. \A e \in Ejecutores : Saliendo(e) = {}
  BY DEF Saliendo, FhNada
<1>4. Salientes = {}
  BY <1>3 DEF Salientes
<1>5. Creados = {<<0, 0>>}
  <2>1. \A h \in Hilos : h[1] \in Pids /\ h[2] \in Tids /\ h = <<h[1], h[2]>>
    BY DEF Hilos
  <2>2. \A t \in Tids : t < 1 <=> t = 0
    OBVIOUS
  <2>3. \A t \in Tids : ~(t < 0)
    BY DEF Tids
  <2>4. \A h \in Hilos : h[2] < siguienteTid[h[1]] <=> (h[1] = 0 /\ h[2] = 0)
    BY <2>1, <2>2, <2>3
  <2>5. <<0, 0>> \in Hilos
    BY DEF Hilos
  <2>6. QED
    BY <2>1, <2>4, <2>5 DEF Creados
<1>6. QED
  BY <1>2, <1>3, <1>4, <1>5 DEF Lugares

LEMMA PasoLugares == IInv /\ Lugares /\ [Next]_vars => Lugares'
<1> SUFFICES ASSUME IInv, Lugares, [Next]_vars PROVE Lugares'
  OBVIOUS
<1>1. CASE Atiende
  BY <1>1, CrearLugares, AtiendeFinalizacionLugares, AtiendeOtrosLugares DEF Atiende
<1>2. CASE PcpSuelto
  BY <1>2, PcpSueltoLugares DEF IInv
<1>3. CASE Cpu \/ Programa
  BY <1>3, CpuLugares
<1>4. CASE \E e \in Ejecutores : FinalizarHilo(e)
  BY <1>4, FinalizarHiloLugares DEF IInv
<1>5. CASE \E h \in Hilos : DumpMemory(h)
  BY <1>5, DumpMemoryLugares DEF IInv
<1>6. CASE \E p \in Pids : FinalizarProceso(p)
  BY <1>6, FinalizarProcesoLugares
<1>7. CASE UNCHANGED vars
  <2>1. UNCHANGED <<ready, exec, blocked, salidos, siguienteTid, memHilos, fh>>
    BY <1>7 DEF vars, vListas, vPcb, vMemoria
  <2>2. QED
    BY <2>1, SinMover, MismosLugares, MismosSalientes
<1>8. QED
  BY <1>1, <1>2, <1>3, <1>4, <1>5, <1>6, <1>7 DEF Next

LEMMA LugaresSiempre == Spec => [](IInv /\ Lugares)
<1>1. Init => Lugares
  BY InicioLugares
<1>2. IInv /\ Lugares /\ [Next]_vars => Lugares'
  BY PasoLugares
<1>3. QED
  BY <1>1, <1>2, InvarianteSiempre, PTL DEF Spec

(* Every thread created is in exactly one place, once: READY, EXEC, BLOCKED,
   EXIT or the hands of one finalizar_hilo, whatever programs do and however
   the handler, the dumps, the detached passes and the finalizers interleave. *)
THEOREM CadaHiloEnSuLugar == Spec => []UnHiloUnLugar
<1>1. ASSUME IInv, Lugares, NEW h \in Hilos
      PROVE  Cardinality({i \in 1 .. 4 : h \in Listas[i]})
               + Cardinality({e \in Ejecutores : h \in Saliendo(e)})
               = IF h \in Creados THEN 1 ELSE 0
  <2> DEFINE A == {i \in 1 .. 4 : h \in Listas[i]}
             B == {e \in Ejecutores : h \in Saliendo(e)}
  <2>1. /\ Listas[1] = ToSet(ready) /\ Listas[2] = ToSet(exec)
        /\ Listas[3] = blocked /\ Listas[4] = salidos /\ 1 .. 4 = {1, 2, 3, 4}
    BY DEF Listas
  <2>2. /\ A \subseteq {1, 2, 3, 4}
        /\ (1 \in A) = (h \in ToSet(ready)) /\ (2 \in A) = (h \in ToSet(exec))
        /\ (3 \in A) = (h \in blocked) /\ (4 \in A) = (h \in salidos)
    BY <2>1
  <2> HIDE DEF A
  <2>3. /\ ToSet(ready) \cap ToSet(exec) = {} /\ ToSet(ready) \cap blocked = {}
        /\ ToSet(exec) \cap blocked = {} /\ Vivos \cap salidos = {}
    BY <1>1 DEF Lugares, SinRepetidos, Activos, Colas
  <2>4. CASE h \in Vivos \cup salidos
    <3>1. h \in Creados /\ B = {}
      BY <1>1, <2>4 DEF Lugares
    <3>2. \E i : A = {i}
      <4>1. CASE h \in ToSet(ready)
        <5>1. A = {1}
          BY <2>2, <2>3, <4>1, VivosExisten
        <5>2. QED
          BY <5>1
      <4>2. CASE h \in ToSet(exec)
        <5>1. A = {2}
          BY <2>2, <2>3, <4>2, VivosExisten
        <5>2. QED
          BY <5>1
      <4>3. CASE h \in blocked
        <5>1. A = {3}
          BY <2>2, <2>3, <4>3, VivosExisten
        <5>2. QED
          BY <5>1
      <4>4. CASE h \in salidos
        <5>1. A = {4}
          BY <2>2, <2>3, <4>4, VivosExisten
        <5>2. QED
          BY <5>1
      <4>5. QED
        BY <2>4, <4>1, <4>2, <4>3, <4>4, VivosExisten
    <3> HIDE DEF B
    <3>3. Cardinality(A) = 1 /\ Cardinality(B) = 0
      BY <3>1, <3>2, FS_EmptySet, FS_Singleton
    <3>4. QED
      BY <3>1, <3>3 DEF A, B
  <2>5. CASE h \notin Vivos \cup salidos
    <3>1. A = {}
      BY <2>2, <2>5, VivosExisten
    <3>2. CASE h \in Creados
      <4>1. PICK e \in Ejecutores : h \in Saliendo(e)
        BY <1>1, <2>5, <3>2 DEF Lugares, Salientes
      <4>2. B = {e}
        BY <1>1, <4>1 DEF Lugares
      <4> HIDE DEF B
      <4>3. Cardinality(A) = 0 /\ Cardinality(B) = 1
        BY <3>1, <4>2, FS_EmptySet, FS_Singleton
      <4>4. QED
        BY <3>2, <4>3 DEF A, B
    <3>3. CASE h \notin Creados
      <4>1. B = {}
        BY <1>1, <3>3 DEF Lugares, Salientes
      <4> HIDE DEF B
      <4>2. Cardinality(A) = 0 /\ Cardinality(B) = 0
        BY <3>1, <4>1, FS_EmptySet
      <4>3. QED
        BY <3>3, <4>2 DEF A, B
    <3>4. QED
      BY <3>2, <3>3
  <2>6. QED
    BY <2>4, <2>5
<1>2. IInv /\ Lugares => UnHiloUnLugar
  BY <1>1 DEF UnHiloUnLugar, Lugares, SinRepetidos, Colas
<1>3. QED
  BY <1>2, LugaresSiempre, PTL

(* Memoria has the context of every thread the kernel may dispatch: crear_tcb
   asks for it before READY, and finalizar_hilo gives it back after its list. *)
THEOREM ContextoSiempre == Spec => []ContextoEnMemoria
<1>1. Lugares => ContextoEnMemoria
  BY VivosExisten DEF Lugares, ContextoEnMemoria
<1>2. QED
  BY <1>1, LugaresSiempre, PTL
-----------------------------------------------------------------------------
(***************************************************************************)
(* The thread sent to the CPU.  An operation may answer, unblock or take a *)
(* thread out of EXEC before it calls pcp_planificador_corto_plazo: the    *)
(* lists that call finds are READY, or READY and one more at its end.      *)
(***************************************************************************)
\* The messages of q that the CPU has not been sent yet carry no EJECUTAR.
SinDespacho(q) ==
  \A h \in Hilos : Ejecutar(h) \in ToSet(q.aCpu) => Ejecutar(h) \in ToSet(aCpu)

\* Those that do name a thread that goes before each of those in READY.
ConElMejor(q) ==
  \A h \in Hilos : Ejecutar(h) \in ToSet(q.aCpu) \ ToSet(aCpu) =>
    \A o \in ToSet(q.ready) : Clave(h) < Clave(o) \/ (Clave(h) = Clave(o) /\ Antes(h, o))

\* What DespachoDelMejor says of a step.
Despacho ==
  \A h \in Hilos : Ejecutar(h) \in ToSet(aCpu') \ ToSet(aCpu) =>
    \A o \in ToSet(ready') :
      \/ Clave(h)' < Clave(o)'
      \/ Clave(h)' = Clave(o)' /\ Antes(h, o)

LEMMA DespachoDeColas ==
  ASSUME NEW q, Quedan(q), ConElMejor(q), prioridad' = prioridad
  PROVE  Despacho
<1>1. \A h : Clave(h)' = Clave(h)
  BY DEF Clave
<1>2. aCpu' = q.aCpu /\ ready' = q.ready
  BY DEF Quedan
<1>3. QED
  BY <1>1, <1>2 DEF Despacho, ConElMejor

LEMMA DespachoDeNadie ==
  ASSUME \A h \in Hilos : Ejecutar(h) \in ToSet(aCpu') => Ejecutar(h) \in ToSet(aCpu)
  PROVE  Despacho
  BY DEF Despacho

LEMMA SinDespachoColas == SinDespacho(Colas)
  BY DEF SinDespacho, Colas

\* An answer is no EJECUTAR.
LEMMA EnviarDespacho ==
  ASSUME NEW q \in ColasDe(Hilos, MensajesCpu), NEW r \in {"OK", "DESALOJO"}
  PROVE  /\ SinDespacho(q) => SinDespacho(Enviar(q, Rta(r)))
         /\ ConElMejor(q) => ConElMejor(Enviar(q, Rta(r)))
<1>1. q.aCpu \in Seq(MensajesCpu) /\ Rta(r) \in MensajesCpu
  BY MensajesCpuTipo DEF ColasDe
<1>2. Enviar(q, Rta(r)).ready = q.ready /\ Enviar(q, Rta(r)).aCpu = Append(q.aCpu, Rta(r))
  BY DEF Enviar, ColasDe
<1>3. ToSet(Enviar(q, Rta(r)).aCpu) = ToSet(q.aCpu) \cup {Rta(r)}
  BY <1>1, <1>2, AppendElementos
<1>4. \A h : Ejecutar(h) # Rta(r)
  <2>1. \A h : Ejecutar(h).op = "EJECUTAR"
    BY DEF Ejecutar
  <2>2. Rta(r).op = "RTA"
    BY DEF Rta
  <2>3. QED
    BY <2>1, <2>2
<1>5. QED
  BY <1>2, <1>3, <1>4 DEF SinDespacho, ConElMejor

LEMMA ResponderDespacho ==
  ASSUME NEW q \in ColasDe(Hilos, MensajesCpu), NEW rta \in BOOLEAN
  PROVE  /\ SinDespacho(q) => SinDespacho(Responder(q, rta))
         /\ ConElMejor(q) => ConElMejor(Responder(q, rta))
  BY EnviarDespacho DEF Responder

LEMMA SinDespachoBasta ==
  ASSUME NEW q, SinDespacho(q)
  PROVE  ConElMejor(q)
  BY DEF SinDespacho, ConElMejor

\* The scheduling pass sends the best of READY.
LEMMA PcpDespacho ==
  ASSUME TypeOK, NEW q \in ColasDe(Hilos, MensajesCpu), SinRepetidos(q), SinDespacho(q),
         q.ready = ready \/ \E x \in Hilos : q.ready = Append(ready, x)
  PROVE  ConElMejor(Pcp(q, prioridad))
<1> USE DEF TypeOK
<1> DEFINE p == Pcp(q, prioridad)
<1>1. CASE p.aCpu = q.aCpu
  BY <1>1 DEF ConElMejor, SinDespacho
<1>2. ASSUME NEW i \in 1 .. Len(q.ready), ToSet(p.aCpu) = ToSet(q.aCpu) \cup {Ejecutar(q.ready[i])},
             \A o \in ToSet(p.ready) : \E j \in 1 .. Len(q.ready) :
                q.ready[j] = o /\ Precede(q.ready, prioridad, i, j)
      PROVE  ConElMejor(p)
  <2>1. q.ready \in Seq(Hilos) /\ ready \in Seq(Hilos)
    BY DEF ColasDe, TipoListas
  <2>2. /\ Len(q.ready) \in Nat /\ Len(ready) \in Nat
        /\ \A j \in 1 .. Len(q.ready) : q.ready[j] \in Hilos
        /\ DOMAIN ready = 1 .. Len(ready)
        /\ \A j, k \in 1 .. Len(q.ready) : q.ready[j] = q.ready[k] => j = k
    BY <2>1, Posiciones DEF SinRepetidos
  <2>3. /\ Len(q.ready) \in {Len(ready), Len(ready) + 1}
        /\ \A j \in 1 .. Len(ready) : j \in 1 .. Len(q.ready) /\ q.ready[j] = ready[j]
    <3>1. CASE q.ready = ready
      BY <2>2, <3>1
    <3>2. ASSUME NEW x \in Hilos, q.ready = Append(ready, x)
          PROVE  /\ Len(q.ready) = Len(ready) + 1
                 /\ \A j \in 1 .. Len(ready) : q.ready[j] = ready[j]
      BY <2>1, <3>2, AppendProperties
    <3>3. CASE \E x \in Hilos : q.ready = Append(ready, x)
      <4>1. Len(q.ready) = Len(ready) + 1 /\ \A j \in 1 .. Len(ready) : q.ready[j] = ready[j]
        BY <3>2, <3>3
      <4>2. QED
        BY <2>2, <4>1
    <3>4. QED
      BY <3>1, <3>3
  <2>4. ASSUME NEW h \in Hilos, Ejecutar(h) \in ToSet(p.aCpu), Ejecutar(h) \notin ToSet(aCpu)
        PROVE  h = q.ready[i]
    <3>1. Ejecutar(h) = Ejecutar(q.ready[i])
      BY <1>2, <2>4 DEF SinDespacho
    <3>2. Ejecutar(h).hilo = h /\ Ejecutar(q.ready[i]).hilo = q.ready[i]
      BY DEF Ejecutar
    <3>3. QED
      BY <3>1, <3>2
  <2>5. ASSUME NEW o \in ToSet(p.ready)
        PROVE  \/ Clave(q.ready[i]) < Clave(o)
               \/ Clave(q.ready[i]) = Clave(o) /\ Antes(q.ready[i], o)
    <3>1. PICK j \in 1 .. Len(q.ready) : q.ready[j] = o /\ Precede(q.ready, prioridad, i, j)
      BY <1>2, <2>5
    <3>2. \/ Clave(q.ready[i]) < Clave(o)
          \/ Clave(q.ready[i]) = Clave(o) /\ i < j
      BY <3>1 DEF Precede, Clave
    <3>3. ASSUME i < j PROVE Antes(q.ready[i], o)
      <4>1. i \in 1 .. Len(ready)
        BY <2>2, <2>3, <3>3
      <4>2. ready[i] = q.ready[i] /\ i \in DOMAIN ready
        BY <2>2, <2>3, <4>1
      <4>3. ASSUME NEW k \in DOMAIN ready, ready[k] = o PROVE i < k
        <5>1. k \in 1 .. Len(q.ready) /\ q.ready[k] = q.ready[j]
          BY <2>2, <2>3, <3>1, <4>3
        <5>2. k = j
          BY <2>2, <5>1
        <5>3. QED
          BY <3>3, <5>2
      <4>4. QED
        BY <4>2, <4>3 DEF Antes
    <3>4. QED
      BY <3>2, <3>3
  <2>6. QED
    BY <2>4, <2>5 DEF ConElMejor
<1>3. \A h \in Hilos : Ejecutar(h) \in MensajesCpu
  BY MensajesCpuTipo
<1>4. QED
  BY <1>1, <1>2, <1>3, PcpDespacha, PrioridadTipo

LEMMA DesbloquearDespacho ==
  ASSUME TypeOK, NEW p \in ColasDe(Hilos, MensajesCpu), NEW h,
         SinRepetidos(p), Activos(p) \cap blocked = {}, p.ready = ready, SinDespacho(p)
  PROVE  ConElMejor(Desbloquear(p, h))
<1> USE DEF TypeOK
<1>1. CASE h \in blocked
  <2> DEFINE n == Encolar(p, h)
  <2>1. h \in Hilos /\ h \notin Activos(p)
    BY <1>1 DEF TipoListas
  <2>2. SinRepetidos(n) /\ n \in ColasDe(Hilos, MensajesCpu)
    BY <2>1, EncolarElementos, EncolarEnviarCorrecto
  <2>3. n.ready = Append(ready, h) /\ n.aCpu = p.aCpu
    BY DEF Encolar, ColasDe
  <2>4. SinDespacho(n)
    BY <2>3 DEF SinDespacho
  <2> HIDE DEF n
  <2>5. ConElMejor(Pcp(n, prioridad))
    BY <2>1, <2>2, <2>3, <2>4, PcpDespacho
  <2>6. QED
    BY <1>1, <2>5 DEF Desbloquear, n
<1>2. CASE h \notin blocked
  BY <1>2, SinDespachoBasta DEF Desbloquear
<1>3. QED
  BY <1>1, <1>2

LEMMA BloquearDespacho ==
  ASSUME TypeOK, Lugares, NEW p \in ColasDe(Hilos, MensajesCpu),
         p.ready = ready, p.exec = exec, SinDespacho(p), NEW h, Bloquear(p, h),
         prioridad' = prioridad
  PROVE  Despacho
<1> USE DEF TypeOK
<1>1. SinRepetidos(p)
  BY MismasListas DEF Lugares, Colas
<1>2. CASE h \in ToSet(exec)
  <2> DEFINE s == SacarDeExec(p, h)
  <2>1. h \notin ToSet(p.ready)
    BY <1>1, <1>2 DEF SinRepetidos
  <2>2. SinRepetidos(s)
    BY <1>1, <2>1, SacarElementos
  <2>3. s \in ColasDe(Hilos, MensajesCpu) /\ s.ready = ready
    BY SacarCorrecto
  <2>4. s.aCpu = p.aCpu
    BY DEF SacarDeExec, ColasDe
  <2>5. SinDespacho(s)
    BY <2>4 DEF SinDespacho
  <2>6. Quedan(Pcp(s, prioridad))
    BY <1>2 DEF Bloquear
  <2> HIDE DEF s
  <2>7. QED
    BY <2>2, <2>3, <2>5, <2>6, PcpDespacho, DespachoDeColas
<1>3. CASE h \notin ToSet(exec)
  BY <1>3, SinDespachoBasta, DespachoDeColas DEF Bloquear
<1>4. QED
  BY <1>2, <1>3

LEMMA ProtocoloDespacho ==
  ASSUME TypeOK, Lugares, NEW m \in Mutexes, NEW asig, NEW rta \in BOOLEAN,
         Protocolo(m, asig, rta), prioridad' = prioridad
  PROVE  Despacho
<1> USE DEF TypeOK
<1>1. /\ Colas \in ColasDe(Hilos, MensajesCpu) /\ Colas.ready = ready /\ SinDespacho(Colas)
  BY ColasTipo, SinDespachoColas DEF Colas
<1>2. CASE bloqueadosMutex[m] = <<>>
  <2>1. Quedan(Responder(Colas, rta))
    BY <1>2 DEF Protocolo
  <2>2. ConElMejor(Responder(Colas, rta))
    BY <1>1, ResponderDespacho, SinDespachoBasta
  <2>3. QED
    BY <2>1, <2>2, DespachoDeColas
<1>3. CASE bloqueadosMutex[m] # <<>>
  <2> DEFINE q == Desbloquear(Colas, Heredero(m))
  <2>1. Quedan(Responder(q, rta))
    BY <1>3 DEF Protocolo
  <2>2. q \in ColasDe(Hilos, MensajesCpu) /\ ConElMejor(q)
    BY <1>1, DesbloquearTipo, DesbloquearDespacho DEF Lugares
  <2> HIDE DEF q
  <2>3. QED
    BY <2>1, <2>2, ResponderDespacho, DespachoDeColas
<1>4. QED
  BY <1>2, <1>3

\* Steps that leave the messages to the CPU as they are.
LEMMA MismosMensajes ==
  ASSUME aCpu' = aCpu
  PROVE  Despacho
  BY DespachoDeNadie

LEMMA FhInicioDespacho ==
  ASSUME TypeOK, NEW e, NEW h, NEW rta \in BOOLEAN, FhInicio(e, h, rta)
  PROVE  Despacho
<1> USE DEF TypeOK
<1>1. CASE Existe(h)
  <2>1. aCpu' = aCpu
    BY <1>1 DEF FhInicio, Quedan, Colas, SacarDeExec
  <2>2. QED
    BY <2>1, MismosMensajes
<1>2. CASE ~Existe(h)
  <2>1. aCpu' = Responder(Colas, rta).aCpu
    BY <1>2 DEF FhInicio, Quedan
  <2>2. SinDespacho(Responder(Colas, rta))
    BY ColasTipo, SinDespachoColas, ResponderDespacho
  <2>3. QED
    BY <2>1, <2>2, DespachoDeNadie DEF SinDespacho
<1>3. QED
  BY <1>1, <1>2

LEMMA CrearTcbDespacho ==
  ASSUME NEW p \in ColasDe(Hilos, MensajesCpu), SinDespacho(p), NEW q, NEW pr, CrearTcb(q, pr, p)
  PROVE  Despacho
<1>1. aCpu' = p.aCpu
  BY DEF CrearTcb, Quedan, Encolar, ColasDe
<1>2. QED
  BY <1>1, DespachoDeNadie DEF SinDespacho

\* A pass over READY as it is.
LEMMA PaseDespacho ==
  ASSUME TypeOK, Lugares, Quedan(Pcp(Colas, prioridad)), prioridad' = prioridad
  PROVE  Despacho
<1>1. ConElMejor(Pcp(Colas, prioridad))
  BY ColasTipo, SinDespachoColas, PcpDespacho DEF TypeOK, Lugares, Colas
<1>2. QED
  BY <1>1, DespachoDeColas

LEMMA CpuDespacho ==
  ASSUME TypeOK, Cpu \/ Programa
  PROVE  Despacho
<1>1. aCpu' = aCpu \/ (aCpu # <<>> /\ aCpu' = Tail(aCpu))
  BY DEF Cpu, Programa, CpuRecibeEjecutar, CpuRecibeRta, CpuGuarda, CpuSinHilo, CpuSyscall,
         CpuSegmentationFault
<1>2. CASE aCpu # <<>> /\ aCpu' = Tail(aCpu)
  <2>1. aCpu \in Seq(MensajesCpu)
    BY DEF TypeOK, TipoListas
  <2>2. /\ Tail(aCpu) \in Seq(MensajesCpu) /\ Len(Tail(aCpu)) = Len(aCpu) - 1 /\ Len(aCpu) \in Nat
        /\ \A i \in 1 .. Len(Tail(aCpu)) : Tail(aCpu)[i] = aCpu[i + 1]
    BY <1>2, <2>1, HeadTailProperties, Posiciones
  <2>3. \A i \in 1 .. Len(Tail(aCpu)) : i + 1 \in 1 .. Len(aCpu)
    BY <2>2
  <2>4. \A m : m \in ToSet(Tail(aCpu)) => m \in ToSet(aCpu)
    <3>1. \A m : m \in ToSet(Tail(aCpu)) <=> \E i \in 1 .. Len(Tail(aCpu)) : Tail(aCpu)[i] = m
      BY <2>2, Posiciones
    <3>2. \A m : m \in ToSet(aCpu) <=> \E i \in 1 .. Len(aCpu) : aCpu[i] = m
      BY <2>1, Posiciones
    <3>3. QED
      BY <2>2, <2>3, <3>1, <3>2
  <2>5. QED
    BY <1>2, <2>4, DespachoDeNadie
<1>3. QED
  BY <1>1, <1>2, MismosMensajes

LEMMA FinalizarHiloDespacho ==
  ASSUME TypeOK, Lugares, NEW e \in Ejecutores, FinalizarHilo(e)
  PROVE  Despacho
<1> USE DEF TypeOK
<1>1. fh[e] \in FinalizacionesHilo /\ fh[e].fase # "nada"
  BY DEF TipoFin, FinalizarHilo, FhTomar, FhMutex, FhSalir, FhJoin, FhFin
<1>2. Colas \in ColasDe(Hilos, MensajesCpu) /\ SinDespacho(Colas) /\ Colas.ready = ready
  BY ColasTipo, SinDespachoColas DEF Colas
<1>3. CASE FhTomar(e) \/ FhSalir(e)
  BY <1>3, MismosMensajes DEF FhTomar, FhSalir
<1>4. CASE FhMutex(e)
  <2>1. Head(fh[e].mutexes) \in Mutexes
    BY <1>1, <1>4, ToSetTipo DEF FhMutex, FinalizacionesHilo
  <2>2. QED
    BY <1>4, <2>1, ProtocoloDespacho DEF FhMutex
<1>5. CASE FhJoin(e)
  <2>1. ConElMejor(Desbloquear(Colas, Head(fh[e].joins)))
    BY <1>2, DesbloquearDespacho DEF Lugares
  <2>2. QED
    BY <1>5, <2>1, DespachoDeColas DEF FhJoin, vTcb
<1>6. CASE FhFin(e)
  <2> DEFINE p == Pcp(Colas, prioridad)
  <2>1. fh[e].rta \in BOOLEAN
    BY <1>1 DEF FinalizacionesHilo
  <2>2. p \in ColasDe(Hilos, MensajesCpu) /\ ConElMejor(p)
    BY <1>2, PcpTipo, PcpDespacho DEF Lugares
  <2>3. Quedan(Responder(p, fh[e].rta)) /\ prioridad' = prioridad
    BY <1>6 DEF FhFin, vTcb
  <2> HIDE DEF p
  <2>4. QED
    BY <2>1, <2>2, <2>3, ResponderDespacho, DespachoDeColas
<1>7. QED
  BY <1>3, <1>4, <1>5, <1>6 DEF FinalizarHilo

LEMMA DumpMemoryDespacho ==
  ASSUME TypeOK, Lugares, NEW h \in Hilos, DumpMemory(h)
  PROVE  Despacho
<1> USE DEF TypeOK
<1>1. /\ Colas \in ColasDe(Hilos, MensajesCpu) /\ SinDespacho(Colas)
      /\ Colas.ready = ready /\ Colas.exec = exec
  BY ColasTipo, SinDespachoColas DEF Colas
<1>2. prioridad' = prioridad
  BY DEF DumpMemory, DumpBloquear, DumpResponder, DumpConcluir, vTcb
<1>3. CASE DumpBloquear(h)
  <2>1. \E v \in IdLeido(h) : Bloquear(Colas, v)
    BY <1>3 DEF DumpBloquear
  <2>2. QED
    BY <1>1, <1>2, <2>1, BloquearDespacho
<1>4. CASE DumpResponder(h)
  BY <1>4, MismosMensajes DEF DumpResponder
<1>5. CASE DumpConcluir(h)
  <2>1. (\E v \in IdLeido(h) : Quedan(Desbloquear(Colas, v))) \/ Quedan(Colas)
    BY <1>5 DEF DumpConcluir
  <2>2. \A v : ConElMejor(Desbloquear(Colas, v))
    BY <1>1, DesbloquearDespacho DEF Lugares
  <2>3. ConElMejor(Colas)
    BY <1>1, SinDespachoBasta
  <2>4. QED
    BY <1>2, <2>1, <2>2, <2>3, DespachoDeColas
<1>6. QED
  BY <1>3, <1>4, <1>5 DEF DumpMemory

LEMMA FinalizarProcesoDespacho ==
  ASSUME TypeOK, NEW p \in Pids, FinalizarProceso(p)
  PROVE  Despacho
<1>1. Colas \in ColasDe(Hilos, MensajesCpu) /\ SinDespacho(Colas)
  BY ColasTipo, SinDespachoColas DEF TypeOK
<1>2. CASE FinMemoria(p) \/ FinTomar(p) \/ FinSalir(p)
  BY <1>2, MismosMensajes DEF FinMemoria, FinTomar, FinSalir
<1>3. CASE FinHilo(p)
  BY <1>3, FhInicioDespacho DEF FinHilo
<1>4. CASE FinCero(p)
  <2>1. FhInicio(p, <<p, 0>>, FALSE) \/ aCpu' = aCpu
    BY <1>4 DEF FinCero, Quedan, Colas
  <2>2. QED
    BY <2>1, FhInicioDespacho, MismosMensajes
<1>5. CASE FinReplanificar(p)
  BY <1>1, <1>5, CrearTcbDespacho DEF FinReplanificar
<1>6. QED
  BY <1>2, <1>3, <1>4, <1>5 DEF FinalizarProceso

LEMMA AtiendeDespacho ==
  ASSUME IInv, Lugares, Atiende
  PROVE  Despacho
<1> USE DEF IInv, TypeOK
<1> DEFINE ok == Enviar(Colas, Rta("OK"))
           des == Enviar(Colas, Rta("DESALOJO"))
<1>1. /\ Colas \in ColasDe(Hilos, MensajesCpu) /\ Colas.ready = ready /\ Colas.exec = exec
      /\ SinRepetidos(Colas) /\ SinDespacho(Colas)
  BY ColasTipo, SinDespachoColas DEF Colas, Lugares
<1>2. /\ ok \in ColasDe(Hilos, MensajesCpu) /\ SinDespacho(ok)
      /\ des \in ColasDe(Hilos, MensajesCpu) /\ des.ready = ready /\ des.exec = exec
      /\ SinDespacho(des)
  BY <1>1, ResponderTipo, EnviarDespacho
<1>3. ASSUME Quedan(ok) PROVE Despacho
  BY <1>2, <1>3, DespachoDeNadie DEF Quedan, SinDespacho
<1>4. CASE EsperaPcb \/ AtiendeInvalido \/ AtiendeExitRepetido \/ AtiendeProcessExit
           \/ AtiendeMutexSinPcb
  BY <1>4, MismosMensajes
  DEF EsperaPcb, AtiendeInvalido, AtiendeExitRepetido, AtiendeProcessExit, AtiendeMutexSinPcb
<1>5. CASE AtiendeProcessCreate
  <2>1. Quedan(ok) \/ \E q, pr : CrearTcb(q, pr, ok)
    BY <1>5, Zenon DEF AtiendeProcessCreate
  <2> HIDE DEF ok
  <2>2. QED
    BY <1>2, <1>3, <2>1, CrearTcbDespacho
<1>6. CASE AtiendeThreadCreate
  <2>1. aCpu' = aCpu \/ \E q, pr : CrearTcb(q, pr, ok)
    BY <1>6, Zenon DEF AtiendeThreadCreate
  <2> HIDE DEF ok
  <2>2. QED
    BY <1>2, <2>1, CrearTcbDespacho, MismosMensajes
<1>7. CASE AtiendeThreadCancel \/ AtiendeThreadExit \/ AtiendeMutexInexistente
  <2>1. \E h : \E rta \in BOOLEAN : FhInicio(Dispatch, h, rta)
    BY <1>7 DEF AtiendeThreadCancel, AtiendeThreadExit, AtiendeMutexInexistente
  <2>2. QED
    BY <2>1, FhInicioDespacho
<1>8. CASE AtiendeThreadJoin \/ AtiendeMutexLock
  <2>1. (Bloquear(des, H) \/ Quedan(ok)) /\ prioridad' = prioridad
    BY <1>8 DEF AtiendeThreadJoin, AtiendeMutexLock
  <2> HIDE DEF des, ok
  <2>2. QED
    BY <1>2, <1>3, <2>1, BloquearDespacho
<1>9. CASE AtiendeMutexCreate
  BY <1>3, <1>9 DEF AtiendeMutexCreate
<1>10. CASE AtiendeMutexUnlock
  <2> DEFINE m == <<P, Pedida.arg>>
  <2>1. ((\E asig : Protocolo(m, asig, TRUE)) \/ Quedan(ok)) /\ prioridad' = prioridad
    BY <1>10 DEF AtiendeMutexUnlock
  <2>2. m \in Mutexes
    BY <1>10 DEF AtiendeMutexUnlock, TipoMutex
  <2> HIDE DEF m, ok
  <2>3. QED
    BY <1>3, <2>1, <2>2, ProtocoloDespacho
<1>11. CASE AtiendeDump
  BY <1>11, PaseDespacho DEF AtiendeDump, vTcb
<1>12. CASE AtiendeDesalojo
  <2>1. prioridad' = prioridad
        /\ Quedan(IF H \in ToSet(exec) THEN Pcp(Encolar(SacarDeExec(Colas, H), H), prioridad)
                                       ELSE Colas)
    BY <1>12 DEF AtiendeDesalojo, vTcb
  <2>2. CASE H \in ToSet(exec)
    <3> DEFINE s == SacarDeExec(Colas, H)
               n == Encolar(s, H)
    <3>1. H \in Hilos /\ H \notin ToSet(Colas.ready)
      BY <1>1, <2>2, ToSetTipo DEF TipoListas, SinRepetidos
    <3>2. SinRepetidos(s) /\ Activos(s) = Activos(Colas) \ {H}
      BY <1>1, <3>1, SacarElementos
    <3>3. s \in ColasDe(Hilos, MensajesCpu) /\ s.ready = ready
      BY <1>1, SacarCorrecto
    <3>4. s.aCpu = Colas.aCpu
      BY DEF SacarDeExec, Colas
    <3> HIDE DEF s
    <3>5. SinRepetidos(n) /\ n \in ColasDe(Hilos, MensajesCpu)
      BY <3>1, <3>2, <3>3, EncolarElementos, EncolarEnviarCorrecto
    <3>6. n.ready = Append(ready, H) /\ n.aCpu = Colas.aCpu
      BY <3>3, <3>4 DEF Encolar, ColasDe
    <3> HIDE DEF n
    <3>7. SinDespacho(n)
      BY <1>1, <3>6 DEF SinDespacho
    <3>8. ConElMejor(Pcp(n, prioridad)) /\ Quedan(Pcp(n, prioridad))
      BY <2>1, <2>2, <3>1, <3>5, <3>6, <3>7, PcpDespacho DEF n, s
    <3>9. QED
      BY <2>1, <3>8, DespachoDeColas
  <2>3. CASE H \notin ToSet(exec)
    BY <1>1, <2>1, <2>3, SinDespachoBasta, DespachoDeColas
  <2>4. QED
    BY <2>2, <2>3
<1>13. QED
  BY <1>4, <1>5, <1>6, <1>7, <1>8, <1>9, <1>10, <1>11, <1>12 DEF Atiende

(* The thread sent to the CPU is the best of those in READY, and the first of
   them among equals, though an operation may enqueue and dispatch at once and
   a detached pass may run between any two. *)
THEOREM DespachaElMejor == Spec => DespachoDelMejor
<1>1. IInv /\ Lugares /\ [Next]_vars => [Despacho]_vars
  <2> SUFFICES ASSUME IInv, Lugares, Next PROVE Despacho
    OBVIOUS
  <2>1. CASE Atiende
    BY <2>1, AtiendeDespacho
  <2>2. CASE PcpSuelto
    BY <2>2, PaseDespacho DEF IInv, PcpSuelto, vTcb
  <2>3. CASE Cpu \/ Programa
    BY <2>3, CpuDespacho DEF IInv
  <2>4. CASE \E e \in Ejecutores : FinalizarHilo(e)
    BY <2>4, FinalizarHiloDespacho DEF IInv
  <2>5. CASE \E h \in Hilos : DumpMemory(h)
    BY <2>5, DumpMemoryDespacho DEF IInv
  <2>6. CASE \E p \in Pids : FinalizarProceso(p)
    BY <2>6, FinalizarProcesoDespacho DEF IInv
  <2>7. QED
    BY <2>1, <2>2, <2>3, <2>4, <2>5, <2>6 DEF Next
<1>2. QED
  BY <1>1, LugaresSiempre, PTL DEF Spec, DespachoDelMejor, Despacho

-----------------------------------------------------------------------------
(***************************************************************************)
(* What eliminar_hilos leaves.  It takes thread 0 out of the list of the   *)
(* process and walks the rest by an index, over a list that each thread it *)
(* ends, and each one the handler ends meanwhile, shortens.  Threads may   *)
(* be skipped; thread 1, the first of the list while it lives, is not.     *)
(***************************************************************************)
\* Removing e leaves what goes before e where it was.
LEMMA QuedaElPrimero ==
  ASSUME NEW S, NEW s \in Seq(S), NEW e, s # <<>>, s[1] # e
  PROVE  /\ RemoveFirst(s, e) # <<>> /\ RemoveFirst(s, e)[1] = s[1]
         /\ (Len(s) >= 2 /\ s[2] # e) => /\ Len(RemoveFirst(s, e)) >= 2
                                         /\ RemoveFirst(s, e)[2] = s[2]
<1> DEFINE I == {i \in 1 .. Len(s) : s[i] = e}
           r == RemoveFirst(s, e)
<1>1. Len(s) \in Nat \ {0} /\ 1 \in 1 .. Len(s)
  BY LenProperties, EmptySeq
<1>2. CASE I = {}
  <2>1. r = s
    BY <1>2 DEF RemoveFirst
  <2>2. QED
    BY <2>1
<1>3. CASE I # {}
  <2>1. Min(I) \in I
    <3>1. I \in SUBSET Nat
      BY <1>1
    <3>2. QED
      BY <1>3, <3>1, MinPertenece, Zenon
  <2> DEFINE k == Min(I)
  <2>2. r = RemoveAt(s, k)
    BY <1>3 DEF RemoveFirst, SelectInSeq
  <2>3. k \in 1 .. Len(s) /\ s[k] = e
    BY <2>1
  <2> HIDE DEF k, I, r
  <2>4. k >= 2 /\ Len(s) >= 2
    BY <1>1, <2>3
  <2>5. r \in Seq(S) /\ Len(r) = Len(s) - 1
    BY <2>2, <2>3, RemoveAtSeq
  <2>6. \A j \in 1 .. Len(r) : r[j] = IF j < k THEN s[j] ELSE s[j + 1]
    BY <2>2, <2>3, RemoveAtPosiciones
  <2>7. 1 \in 1 .. Len(r) /\ r[1] = s[1] /\ r # <<>>
    <3>1. Len(r) >= 1 /\ 1 \in 1 .. Len(r)
      BY <1>1, <2>4, <2>5
    <3>2. r # <<>>
      BY <3>1, EmptySeq
    <3>3. QED
      BY <2>3, <2>4, <2>6, <3>1, <3>2
  <2>8. s[2] # e => Len(r) >= 2 /\ r[2] = s[2]
    <3>1. SUFFICES ASSUME s[2] # e PROVE Len(r) >= 2 /\ r[2] = s[2]
      OBVIOUS
    <3>2. k # 2
      BY <2>3, <3>1
    <3>3. k >= 3 /\ Len(r) >= 2 /\ 2 \in 1 .. Len(r)
      BY <1>1, <2>3, <2>4, <2>5, <3>2
    <3>4. QED
      BY <2>3, <2>6, <3>3
  <2>9. QED
    BY <2>7, <2>8 DEF r
<1>4. QED
  BY <1>2, <1>3

\* Thread 1 of p is the first of the list s of ids, not counting thread 0.
UnoPrimero(p, s) ==
  /\ s # <<>>
  /\ s[1] = <<p, 1>> \/ (s[1] = <<p, 0>> /\ Len(s) >= 2 /\ s[2] = <<p, 1>>)

LEMMA UnoQueda ==
  ASSUME NEW p, NEW s \in Seq(Hilos), UnoPrimero(p, s), NEW h, h # <<p, 1>>
  PROVE  UnoPrimero(p, RemoveFirst(s, h))
<1> DEFINE r == RemoveFirst(s, h)
<1>1. s # <<>> /\ Len(s) \in Nat
  BY LenProperties DEF UnoPrimero
<1>2. CASE s[1] = h
  <2>1. h = <<p, 0>> /\ Len(s) >= 2 /\ s[2] = <<p, 1>>
    BY <1>2 DEF UnoPrimero
  <2>2. r = Tail(s)
    BY <1>1, <1>2, RemoveFirstCabeza
  <2>3. /\ Tail(s) \in Seq(Hilos) /\ Len(Tail(s)) = Len(s) - 1
        /\ \A k \in 1 .. Len(Tail(s)) : Tail(s)[k] = s[k + 1]
    BY <1>1, HeadTailProperties
  <2>4. Len(Tail(s)) >= 1 /\ Tail(s)[1] = <<p, 1>>
    <3>1. Len(Tail(s)) >= 1
      BY <1>1, <2>1, <2>3
    <3>2. 1 \in 1 .. Len(Tail(s))
      BY <1>1, <2>3, <3>1
    <3>3. Tail(s)[1] = s[2]
      BY <2>3, <3>2
    <3>4. QED
      BY <2>1, <3>1, <3>3
  <2>5. Tail(s) # <<>>
    <3> DEFINE t == Tail(s)
    <3>1. t \in Seq(Hilos) /\ Len(t) >= 1
      BY <2>3, <2>4
    <3> HIDE DEF t
    <3>2. t # <<>>
      BY <3>1, EmptySeq
    <3>3. QED
      BY <3>2 DEF t
  <2>6. QED
    BY <2>2, <2>4, <2>5 DEF UnoPrimero
<1>3. CASE s[1] # h
  <2>1. /\ r # <<>> /\ r[1] = s[1]
        /\ (Len(s) >= 2 /\ s[2] # h) => Len(r) >= 2 /\ r[2] = s[2]
    BY <1>1, <1>3, QuedaElPrimero
  <2> HIDE DEF r
  <2>2. UnoPrimero(p, r)
    BY <2>1 DEF UnoPrimero
  <2>3. QED
    BY <2>2 DEF r
<1>4. QED
  BY <1>2, <1>3

\* Without thread 0, thread 1 is the first.
LEMMA UnoAlFrente ==
  ASSUME NEW p, NEW s \in Seq(Hilos), UnoPrimero(p, s)
  PROVE  RemoveFirst(s, <<p, 0>>) # <<>> /\ RemoveFirst(s, <<p, 0>>)[1] = <<p, 1>>
<1>1. s # <<>> /\ Len(s) \in Nat
  BY LenProperties DEF UnoPrimero
<1>2. CASE s[1] = <<p, 0>>
  <2>1. Len(s) >= 2 /\ s[2] = <<p, 1>>
    BY <1>2 DEF UnoPrimero
  <2>2. RemoveFirst(s, <<p, 0>>) = Tail(s)
    BY <1>1, <1>2, RemoveFirstCabeza
  <2>3. /\ Tail(s) \in Seq(Hilos) /\ Len(Tail(s)) = Len(s) - 1
        /\ \A k \in 1 .. Len(Tail(s)) : Tail(s)[k] = s[k + 1]
    BY <1>1, HeadTailProperties
  <2>4. Len(Tail(s)) >= 1 /\ Tail(s)[1] = <<p, 1>>
    <3>1. Len(Tail(s)) >= 1
      BY <1>1, <2>1, <2>3
    <3>2. 1 \in 1 .. Len(Tail(s))
      BY <1>1, <2>3, <3>1
    <3>3. Tail(s)[1] = s[2]
      BY <2>3, <3>2
    <3>4. QED
      BY <2>1, <3>1, <3>3
  <2>5. Tail(s) # <<>>
    <3> DEFINE t == Tail(s)
    <3>1. t \in Seq(Hilos) /\ Len(t) >= 1
      BY <2>3, <2>4
    <3> HIDE DEF t
    <3>2. t # <<>>
      BY <3>1, EmptySeq
    <3>3. QED
      BY <3>2 DEF t
  <2>6. QED
    BY <2>2, <2>4, <2>5
<1>3. CASE s[1] # <<p, 0>>
  <2>1. s[1] = <<p, 1>>
    BY <1>3 DEF UnoPrimero
  <2>2. QED
    BY <1>1, <1>3, <2>1, QuedaElPrimero
<1>4. QED
  BY <1>2, <1>3

LEMMA UnoTrasAgregar ==
  ASSUME NEW p, NEW s \in Seq(Hilos), UnoPrimero(p, s), NEW h \in Hilos
  PROVE  UnoPrimero(p, Append(s, h))
<1>1. s # <<>> /\ Len(s) \in Nat \ {0}
  BY LenProperties, EmptySeq DEF UnoPrimero
<1>2. /\ Append(s, h) # <<>> /\ Len(Append(s, h)) = Len(s) + 1
      /\ \A i \in 1 .. Len(s) : Append(s, h)[i] = s[i]
  BY AppendSeq, AppendElementos
<1>3. Append(s, h)[1] = s[1] /\ Len(Append(s, h)) >= Len(s)
  BY <1>1, <1>2
<1>4. Len(s) >= 2 => Append(s, h)[2] = s[2] /\ Len(Append(s, h)) >= 2
  BY <1>1, <1>2
<1>5. QED
  BY <1>2, <1>3, <1>4 DEF UnoPrimero
-----------------------------------------------------------------------------
\* A process in EXIT is nowhere else, and one being finalized has left Memoria
\* and is still in memory for the kernel: nobody creates a thread for it.
PcbsEnSuLugar ==
  /\ pcbExit \cap pcbMem = {} /\ pcbExit \cap ToSet(pcbNew) = {}
  /\ \A p \in pcbExit : p < siguientePid
  /\ memProc \subseteq pcbMem
  /\ \A p \in Pids : fin[p].fase # "nada" => p \in pcbMem /\ p \notin memProc

(* The inductive invariant of the walk: as long as thread 1 lives it is the
   first of the list after thread 0; once thread 0 has been taken out, it is
   the one the index is at; after the walk and thread 0, both have ended. *)
Recorrida(p) ==
  /\ siguienteTid[p] <= 1 => listaIds[p] = <<>> \/ listaIds[p] = <<<<p, 0>>>>
  /\ (fin[p].fase \in {"nada", "tomar"} /\ p \notin pcbExit /\ <<p, 1>> \in Vivos) =>
       UnoPrimero(p, listaIds[p])
  /\ (fin[p].fase = "hilos" /\ <<p, 1>> \in Vivos) =>
       fin[p].i = 1 /\ listaIds[p] # <<>> /\ listaIds[p][1] = <<p, 1>>
  /\ (fin[p].fase = "cero" \/ p \in pcbExit) => <<p, 0>> \notin Vivos /\ <<p, 1>> \notin Vivos

Enlistados == EnMarcha => PcbsEnSuLugar /\ \A p \in Pids : Recorrida(p)

\* Threads a finalizar_hilo has taken from their list.
Acabados == salidos \cup Salientes

\* A thread that finalizar_hilo took from its list does not come back.
LEMMA AcabadosQuedan ==
  ASSUME TypeOK, Next
  PROVE  Acabados \subseteq Acabados'
<1> USE DEF TypeOK
<1>1. ASSUME salidos \subseteq salidos', \A e \in Ejecutores : Saliendo(e) \subseteq Acabados'
      PROVE  Acabados \subseteq Acabados'
  BY <1>1 DEF Acabados, Salientes
<1>2. CASE fh' = fh /\ salidos' = salidos
  BY <1>2, MismosSalientes DEF Acabados, Salientes
\* The start of a finalizar_hilo, by an executor that had none under way.
<1>3. ASSUME NEW e \in Ejecutores, fh[e].fase = "nada", salidos' = salidos,
             NEW h, NEW rta, FhInicio(e, h, rta)
      PROVE  Acabados \subseteq Acabados'
  <2>1. \A o \in Ejecutores : o # e => Saliendo(o)' = Saliendo(o)
    BY <1>3 DEF FhInicio, Saliendo, TipoFin
  <2>2. Saliendo(e) = {}
    BY <1>3 DEF Saliendo
  <2>3. QED
    BY <1>1, <1>3, <2>1, <2>2 DEF Acabados, Salientes
<1>4. ASSUME NEW e \in Ejecutores, FinalizarHilo(e) PROVE Acabados \subseteq Acabados'
  <2>1. fh[e] \in FinalizacionesHilo /\ \A o \in Ejecutores : o # e => fh'[o] = fh[o]
    BY <1>4 DEF TipoFin, FinalizarHilo, FhTomar, FhMutex, FhSalir, FhJoin, FhFin
  <2>2. \A o \in Ejecutores : o # e => Saliendo(o)' = Saliendo(o)
    BY <2>1 DEF Saliendo
  <2>3. CASE FhSalir(e)
    <3>1. salidos' = salidos \cup {fh[e].hilo}
      BY <2>3 DEF FhSalir
    <3>2. Saliendo(e) \subseteq salidos'
      BY <3>1 DEF Saliendo
    <3>3. QED
      BY <1>1, <2>2, <3>1, <3>2 DEF Acabados, Salientes
  <2>4. CASE ~FhSalir(e)
    <3>1. salidos' = salidos
      BY <1>4, <2>4 DEF FinalizarHilo, FhTomar, FhMutex, FhJoin, FhFin, vListas
    <3>2. Saliendo(e) \subseteq Saliendo(e)'
      <4>1. CASE FhTomar(e)
        <5>1. fh'[e].fase = "mutexes" /\ fh'[e].hilo = fh[e].hilo
          BY <2>1, <4>1 DEF FhTomar, TipoFin, FinalizacionesHilo
        <5>2. QED
          BY <5>1 DEF Saliendo
      <4>2. CASE FhMutex(e)
        <5>1. fh'[e].fase = "mutexes" /\ fh'[e].hilo = fh[e].hilo
          BY <2>1, <4>2 DEF FhMutex, TipoFin, FinalizacionesHilo
        <5>2. QED
          BY <5>1 DEF Saliendo
      <4>3. CASE FhJoin(e) \/ FhFin(e)
        <5>1. fh[e].fase = "joins"
          BY <4>3 DEF FhJoin, FhFin
        <5>2. QED
          BY <5>1 DEF Saliendo
      <4>4. QED
        BY <1>4, <2>4, <4>1, <4>2, <4>3 DEF FinalizarHilo
    <3>3. QED
      BY <1>1, <1>4, <2>2, <3>1, <3>2 DEF Acabados, Salientes
  <2>5. QED
    BY <2>3, <2>4
<1>5. CASE Atiende
  <2>1. CASE AtiendeThreadCancel \/ AtiendeThreadExit \/ AtiendeMutexInexistente
    <3>1. /\ fh[Dispatch].fase = "nada" /\ Dispatch \in Ejecutores /\ salidos' = salidos
          /\ \E h, rta : FhInicio(Dispatch, h, rta)
      BY <2>1 DEF AtiendeThreadCancel, AtiendeThreadExit, AtiendeMutexInexistente, Llega,
                  LlegaPedido, HayPedido, Ejecutores
    <3>2. QED
      BY <1>3, <3>1
  <2>2. CASE ~(AtiendeThreadCancel \/ AtiendeThreadExit \/ AtiendeMutexInexistente)
    <3>1. fh' = fh /\ salidos' = salidos
      BY <1>5, <2>2
      DEF Atiende, EsperaPcb, AtiendeInvalido, AtiendeExitRepetido, AtiendeProcessExit,
          AtiendeProcessCreate, AtiendeThreadCreate, AtiendeThreadJoin, AtiendeMutexSinPcb,
          AtiendeMutexCreate, AtiendeMutexLock, AtiendeMutexUnlock, AtiendeDump,
          AtiendeDesalojo, vListas
    <3>2. QED
      BY <1>2, <3>1
  <2>3. QED
    BY <2>1, <2>2
<1>6. CASE PcpSuelto \/ Cpu \/ Programa \/ \E h \in Hilos : DumpMemory(h)
  <2>1. fh' = fh /\ salidos' = salidos
    BY <1>6
    DEF PcpSuelto, Cpu, CpuRecibeEjecutar, CpuRecibeRta, CpuGuarda, CpuSinHilo, Programa,
        CpuSyscall, CpuSegmentationFault, DumpMemory, DumpBloquear, DumpResponder,
        DumpConcluir, vListas
  <2>2. QED
    BY <1>2, <2>1
<1>7. ASSUME NEW p \in Pids, FinalizarProceso(p) PROVE Acabados \subseteq Acabados'
  <2>1. p \in Ejecutores
    BY DEF Ejecutores
  <2>2. CASE FinHilo(p)
    BY <1>3, <2>1, <2>2 DEF FinHilo
  <2>3. CASE FinCero(p)
    <3>1. /\ fh[p].fase = "nada" /\ salidos' = salidos
          /\ fh' = fh \/ FhInicio(p, <<p, 0>>, FALSE)
      BY <2>3 DEF FinCero
    <3>2. QED
      BY <1>2, <1>3, <2>1, <3>1
  <2>4. CASE FinMemoria(p) \/ FinTomar(p) \/ FinReplanificar(p) \/ FinSalir(p)
    <3>1. fh' = fh /\ salidos' = salidos
      BY <2>4 DEF FinMemoria, FinTomar, FinReplanificar, FinSalir, vListas
    <3>2. QED
      BY <1>2, <3>1
  <2>5. QED
    BY <1>7, <2>2, <2>3, <2>4 DEF FinalizarProceso
<1>8. QED
  BY <1>4, <1>5, <1>6, <1>7 DEF Next

\* Without a new thread, nobody else is alive.
LEMMA NadieVuelve ==
  ASSUME Lugares, Lugares', Acabados \subseteq Acabados', siguienteTid' = siguienteTid
  PROVE  Vivos' \subseteq Vivos
<1>1. Creados' = Creados
  BY DEF Creados
<1>2. Vivos \cup Acabados = Creados
  BY DEF Lugares, Acabados
<1>3. Vivos' \subseteq Creados'
  BY DEF Lugares
<1>4. Vivos' \cap Acabados' = {}
  BY DEF Lugares, Acabados, Salientes
<1>5. QED
  BY <1>1, <1>2, <1>3, <1>4

\* crear_tcb brings the next thread of its process only.
LEMMA SoloElNuevo ==
  ASSUME TypeOK, Lugares, Lugares', Acabados \subseteq Acabados', NEW q \in Pids,
         siguienteTid' = [siguienteTid EXCEPT ![q] = @ + 1]
  PROVE  Vivos' \subseteq Vivos \cup {<<q, siguienteTid[q]>>}
<1>1. siguienteTid \in [Pids -> 0 .. MaxTid + 1]
  BY DEF TypeOK, TipoPcb
<1>2. Creados' \subseteq Creados \cup {<<q, siguienteTid[q]>>}
  <2>1. SUFFICES ASSUME NEW h \in Creados', h \notin Creados
                 PROVE  h = <<q, siguienteTid[q]>>
    OBVIOUS
  <2>2. h[1] \in Pids /\ h[2] \in Nat /\ h = <<h[1], h[2]>>
    BY <2>1, ConstantesTipo DEF Creados, Hilos, Tids
  <2>3. h[2] < siguienteTid'[h[1]] /\ ~(h[2] < siguienteTid[h[1]])
    BY <2>1 DEF Creados
  <2>4. siguienteTid[h[1]] \in Nat
    BY <1>1, <2>2
  <2>5. h[1] = q
    BY <1>1, <2>2, <2>3
  <2>6. siguienteTid'[q] = siguienteTid[q] + 1
    BY <1>1
  <2>7. h[2] = siguienteTid[q]
    BY <2>2, <2>3, <2>4, <2>5, <2>6
  <2>8. QED
    BY <2>2, <2>5, <2>7
<1>3. Vivos \cup Acabados = Creados
  BY DEF Lugares, Acabados
<1>4. Vivos' \subseteq Creados'
  BY DEF Lugares
<1>5. Vivos' \cap Acabados' = {}
  BY DEF Lugares, Acabados, Salientes
<1>6. QED
  BY <1>2, <1>3, <1>4, <1>5

\* Whoever finalizar_hilo is called for is not alive after its first step.
LEMMA FhInicioAcaba ==
  ASSUME TypeOK, Lugares', Vivos' \subseteq Vivos, NEW e \in Ejecutores, NEW h, NEW rta,
         FhInicio(e, h, rta)
  PROVE  h \notin Vivos'
<1>1. CASE Existe(h)
  <2>1. fh'[e].fase = "pedido" /\ fh'[e].hilo = h
    BY <1>1 DEF FhInicio, TypeOK, TipoFin
  <2>2. Saliendo(e)' = {h}
    BY <2>1 DEF Saliendo
  <2>3. QED
    BY <2>2 DEF Lugares
<1>2. CASE ~Existe(h)
  BY <1>2, VivosExisten
<1>3. QED
  BY <1>1, <1>2
-----------------------------------------------------------------------------
\* A step that leaves the PCBs and the walks as they are.
LEMMA SiguenEnlistados ==
  ASSUME Enlistados, EnMarcha, Vivos' \subseteq Vivos, fin' = fin, memProc' = memProc,
         pcbNew' = pcbNew, pcbMem' = pcbMem, pcbExit' = pcbExit, siguientePid' = siguientePid,
         siguienteTid' = siguienteTid, listaIds' = listaIds
  PROVE  Enlistados'
<1>1. PcbsEnSuLugar'
  BY DEF Enlistados, PcbsEnSuLugar
<1>2. ASSUME NEW p \in Pids PROVE Recorrida(p)'
  BY <1>2 DEF Enlistados, Recorrida
<1>3. QED
  BY <1>1, <1>2 DEF Enlistados

\* remover_id_hilo_de_lista, of a thread that is not alive.
LEMMA SaleDeLaLista ==
  ASSUME TypeOK, Enlistados, EnMarcha, Vivos' \subseteq Vivos, fin' = fin, memProc' = memProc,
         pcbNew' = pcbNew, pcbMem' = pcbMem, pcbExit' = pcbExit, siguientePid' = siguientePid,
         siguienteTid' = siguienteTid, NEW h \in Hilos, h \notin Vivos,
         listaIds' = listaIds \/ listaIds' = [listaIds EXCEPT ![h[1]] = RemoveFirst(@, h)]
  PROVE  Enlistados'
<1>1. PcbsEnSuLugar'
  BY DEF Enlistados, PcbsEnSuLugar
<1>2. ASSUME NEW p \in Pids PROVE Recorrida(p)'
  <2>1. Recorrida(p)
    BY <1>2 DEF Enlistados
  <2>2. listaIds[p] \in Seq(Hilos)
    BY DEF TypeOK, TipoPcb
  <2>3. CASE listaIds'[p] = listaIds[p]
    BY <2>1, <2>3 DEF Recorrida
  <2>4. CASE listaIds'[p] = RemoveFirst(listaIds[p], h)
    <3> DEFINE s == listaIds[p]
    <3>1. s = <<>> \/ s = <<<<p, 0>>>> => RemoveFirst(s, h) = <<>> \/ RemoveFirst(s, h) = <<<<p, 0>>>>
      <4>1. CASE s = <<>>
        BY <2>2, <4>1, RemoveFirstSeq
      <4>2. CASE s = <<<<p, 0>>>> /\ h = <<p, 0>>
        <5>1. s # <<>> /\ s[1] = h /\ Tail(s) = <<>>
          BY <4>2
        <5>2. QED
          BY <2>2, <5>1, RemoveFirstCabeza
      <4>3. CASE s = <<<<p, 0>>>> /\ h # <<p, 0>>
        <5>1. ~ \E i \in 1 .. Len(s) : s[i] = h
          BY <4>3
        <5>2. QED
          BY <4>3, <5>1 DEF RemoveFirst
      <4>4. QED
        BY <4>1, <4>2, <4>3
    <3>2. <<p, 1>> \in Vivos => h # <<p, 1>>
      OBVIOUS
    <3>3. <<p, 1>> \in Vivos /\ UnoPrimero(p, s) => UnoPrimero(p, RemoveFirst(s, h))
      BY <2>2, <3>2, UnoQueda
    <3>4. <<p, 1>> \in Vivos /\ s # <<>> /\ s[1] = <<p, 1>> =>
            RemoveFirst(s, h) # <<>> /\ RemoveFirst(s, h)[1] = <<p, 1>>
      BY <2>2, <3>2, QuedaElPrimero
    <3> HIDE DEF s
    <3>5. /\ siguienteTid[p] <= 1 => s = <<>> \/ s = <<<<p, 0>>>>
          /\ (fin[p].fase \in {"nada", "tomar"} /\ p \notin pcbExit /\ <<p, 1>> \in Vivos) =>
               UnoPrimero(p, s)
          /\ (fin[p].fase = "hilos" /\ <<p, 1>> \in Vivos) =>
               fin[p].i = 1 /\ s # <<>> /\ s[1] = <<p, 1>>
          /\ (fin[p].fase = "cero" \/ p \in pcbExit) =>
               <<p, 0>> \notin Vivos /\ <<p, 1>> \notin Vivos
      BY <2>1 DEF Recorrida, s
    <3>6. listaIds'[p] = RemoveFirst(s, h)
      BY <2>4 DEF s
    <3>7. QED
      BY <3>1, <3>3, <3>4, <3>5, <3>6 DEF Recorrida
  <2>5. listaIds'[p] = listaIds[p] \/ listaIds'[p] = RemoveFirst(listaIds[p], h)
    BY DEF TypeOK, TipoPcb
  <2>6. QED
    BY <2>3, <2>4, <2>5
<1>3. QED
  BY <1>1, <1>2 DEF Enlistados

LEMMA FinalizarHiloEnlistados ==
  ASSUME IInv, Lugares, Enlistados, NEW e \in Ejecutores, FinalizarHilo(e),
         Vivos' \subseteq Vivos
  PROVE  Enlistados'
<1> USE DEF IInv
<1>1. EnMarcha
  BY DEF FinalizarHilo, FhTomar, FhMutex, FhSalir, FhJoin, FhFin
<1>2. CASE FhSalir(e)
  <2> DEFINE h == fh[e].hilo
  <2>1. h \in Hilos /\ h \notin Vivos
    <3>1. fh[e] \in FinalizacionesHilo /\ fh[e].fase = "mutexes"
      BY <1>2 DEF FhSalir, TypeOK, TipoFin
    <3>2. h \in Hilos /\ Saliendo(e) = {h}
      BY <3>1 DEF FinalizacionesHilo, Saliendo
    <3>3. QED
      BY <3>2 DEF Lugares
  <2>2. /\ listaIds' = listaIds \/ listaIds' = [listaIds EXCEPT ![h[1]] = RemoveFirst(@, h)]
        /\ fin' = fin /\ memProc' = memProc
        /\ UNCHANGED <<pcbNew, pcbMem, pcbExit, siguientePid, siguienteTid>>
    BY <1>2 DEF FhSalir, vFin, vMemoria
  <2> HIDE DEF h
  <2>3. QED
    BY <1>1, <2>1, <2>2, SaleDeLaLista
<1>3. CASE FhTomar(e) \/ FhMutex(e) \/ FhJoin(e) \/ FhFin(e)
  <2>1. UNCHANGED <<fin, memProc, pcbNew, pcbMem, pcbExit, siguientePid, siguienteTid, listaIds>>
    BY <1>3 DEF FhTomar, FhMutex, FhJoin, FhFin, vPcb, vFin, vMemoria
  <2>2. QED
    BY <1>1, <2>1, SiguenEnlistados
<1>4. QED
  BY <1>2, <1>3 DEF FinalizarHilo

\* The steps of finalizar_proceso that create nobody.
LEMMA FinalizarProcesoEnlistados ==
  ASSUME IInv, Lugares, Lugares', Enlistados, NEW p \in Pids, Vivos' \subseteq Vivos,
         FinMemoria(p) \/ FinTomar(p) \/ FinHilo(p) \/ FinCero(p) \/ FinSalir(p)
  PROVE  Enlistados'
<1> USE DEF IInv
<1> DEFINE c == <<p, 0>>
           u == <<p, 1>>
<1>1. EnMarcha /\ p \in Ejecutores
  BY DEF FinMemoria, FinTomar, FinHilo, FinCero, FinSalir, Ejecutores
<1>2. PcbsEnSuLugar /\ \A q \in Pids : Recorrida(q)
  BY <1>1 DEF Enlistados
<1>3. /\ fin \in [Pids -> [fase : {"nada", "tomar", "hilos", "cero"}, i : Nat \ {0}, cero : BOOLEAN]]
      /\ listaIds \in [Pids -> Seq(Hilos)]
  BY DEF TypeOK, TipoFin, TipoPcb
<1>4. siguientePid' = siguientePid /\ siguienteTid' = siguienteTid /\ pcbNew' = pcbNew
  BY DEF FinMemoria, FinTomar, FinHilo, FinCero, FinSalir, vPcb
\* The processes the step is not about.
<1>5. ASSUME NEW q \in Pids, q # p, listaIds'[q] = listaIds[q], fin'[q] = fin[q],
             q \in pcbExit' <=> q \in pcbExit
      PROVE  Recorrida(q)'
  <2>1. Recorrida(q) /\ siguienteTid'[q] = siguienteTid[q]
    BY <1>2, <1>4
  <2>2. QED
    BY <1>5, <2>1 DEF Recorrida
<1>6. CASE FinMemoria(p)
  <2>1. /\ UNCHANGED <<pcbMem, pcbExit, listaIds>>
        /\ \/ fin' = fin /\ memProc' = memProc
           \/ p \in memProc /\ memProc' = memProc \ {p} /\ fin' = [fin EXCEPT ![p].fase = "tomar"]
    BY <1>6 DEF FinMemoria
  <2>2. CASE fin' = fin /\ memProc' = memProc
    BY <1>1, <1>4, <2>1, <2>2, SiguenEnlistados
  <2>3. CASE p \in memProc /\ memProc' = memProc \ {p} /\ fin' = [fin EXCEPT ![p].fase = "tomar"]
    <3>1. p \in pcbMem /\ p \notin pcbExit /\ fin[p].fase = "nada"
      BY <1>2, <2>3 DEF PcbsEnSuLugar
    <3>2. fin'[p].fase = "tomar" /\ \A q \in Pids : q # p => fin'[q] = fin[q]
      BY <1>3, <2>3
    <3>3. PcbsEnSuLugar'
      BY <1>2, <1>4, <2>1, <2>3, <3>1, <3>2 DEF PcbsEnSuLugar
    <3>4. Recorrida(p)'
      <4>1. Recorrida(p)
        BY <1>2
      <4>2. QED
        BY <1>4, <2>1, <3>1, <3>2, <4>1 DEF Recorrida
    <3>5. \A q \in Pids : Recorrida(q)'
      BY <1>5, <2>1, <3>2, <3>4
    <3>6. QED
      BY <3>3, <3>5 DEF Enlistados
  <2>4. QED
    BY <2>1, <2>2, <2>3
<1>7. CASE FinTomar(p)
  <2>1. /\ UNCHANGED <<pcbMem, pcbExit, memProc>> /\ fin[p].fase = "tomar"
        /\ fin'[p].fase = "hilos" /\ fin'[p].i = 1 /\ \A q \in Pids : q # p => fin'[q] = fin[q]
        /\ listaIds'[p] = RemoveFirst(listaIds[p], c)
        /\ \A q \in Pids : q # p => listaIds'[q] = listaIds[q]
    BY <1>3, <1>7 DEF FinTomar, vMemoria
  <2>2. p \in pcbMem /\ p \notin memProc /\ p \notin pcbExit
    BY <1>2, <2>1 DEF PcbsEnSuLugar
  <2>3. PcbsEnSuLugar'
    BY <1>2, <1>4, <2>1, <2>2 DEF PcbsEnSuLugar
  <2>4. listaIds[p] \in Seq(Hilos) /\ Recorrida(p)
    BY <1>2, <1>3
  <2>5. u \in Vivos => RemoveFirst(listaIds[p], c) # <<>> /\ RemoveFirst(listaIds[p], c)[1] = u
    BY <2>1, <2>2, <2>4, UnoAlFrente DEF Recorrida
  <2>6. siguienteTid[p] <= 1 => RemoveFirst(listaIds[p], c) = <<>>
    <3>1. CASE listaIds[p] = <<>>
      BY <2>4, <3>1, RemoveFirstSeq
    <3>2. CASE listaIds[p] = <<c>>
      <4>1. listaIds[p] # <<>> /\ listaIds[p][1] = c /\ Tail(listaIds[p]) = <<>>
        BY <3>2
      <4>2. QED
        BY <2>4, <4>1, RemoveFirstCabeza
    <3>3. QED
      BY <2>4, <3>1, <3>2 DEF Recorrida
  <2>7. Recorrida(p)'
    <3>1. siguienteTid'[p] <= 1 => listaIds'[p] = <<>>
      BY <1>4, <2>1, <2>6
    <3>2. u \in Vivos' => listaIds'[p] # <<>> /\ listaIds'[p][1] = u
      BY <2>1, <2>5
    <3>3. QED
      BY <2>1, <2>2, <3>1, <3>2 DEF Recorrida
  <2>8. \A q \in Pids : Recorrida(q)'
    BY <1>5, <2>1, <2>7
  <2>9. QED
    BY <2>3, <2>8 DEF Enlistados
<1>8. CASE FinHilo(p)
  <2> DEFINE h == listaIds[p][fin[p].i]
  <2>1. /\ UNCHANGED <<pcbMem, pcbExit, memProc, listaIds>> /\ fin[p].fase = "hilos"
        /\ fin'[p].fase = "hilos" /\ \A q \in Pids : q # p => fin'[q] = fin[q]
        /\ FhInicio(p, h, FALSE)
    BY <1>3, <1>8 DEF FinHilo, vPcb
  <2>2. h \notin Vivos'
    BY <1>1, <2>1, FhInicioAcaba
  <2>3. u \in Vivos => h = u
    BY <1>2, <2>1 DEF Recorrida
  <2>4. u \notin Vivos'
    BY <2>2, <2>3
  <2> HIDE DEF h
  <2>5. p \in pcbMem /\ p \notin memProc /\ p \notin pcbExit
    BY <1>2, <2>1 DEF PcbsEnSuLugar
  <2>6. PcbsEnSuLugar'
    BY <1>2, <1>4, <2>1, <2>5 DEF PcbsEnSuLugar
  <2>7. Recorrida(p)'
    <3>1. siguienteTid[p] <= 1 => listaIds[p] = <<>> \/ listaIds[p] = <<<<p, 0>>>>
      BY <1>2 DEF Recorrida
    <3>2. QED
      BY <1>4, <2>1, <2>4, <2>5, <3>1 DEF Recorrida
  <2>8. \A q \in Pids : Recorrida(q)'
    BY <1>5, <2>1, <2>7
  <2>9. QED
    BY <2>6, <2>8 DEF Enlistados
<1>9. CASE FinCero(p)
  <2>1. /\ UNCHANGED <<pcbMem, pcbExit, memProc, listaIds>> /\ fin[p].fase = "hilos"
        /\ fin[p].i > Len(listaIds[p])
        /\ fin'[p].fase = "cero" /\ \A q \in Pids : q # p => fin'[q] = fin[q]
        /\ FhInicio(p, c, FALSE) \/ caido' = "kernel"
    BY <1>3, <1>9 DEF FinCero, vPcb, Crash
  <2>2. CASE caido' = "kernel"
    BY <2>2 DEF Enlistados, EnMarcha
  <2>3. CASE FhInicio(p, c, FALSE)
    <3>1. c \notin Vivos'
      BY <1>1, <2>3, FhInicioAcaba
    <3>2. u \notin Vivos
      <4>1. SUFFICES ASSUME u \in Vivos PROVE FALSE
        OBVIOUS
      <4>2. fin[p].i = 1 /\ listaIds[p] # <<>>
        BY <1>2, <2>1, <4>1 DEF Recorrida
      <4>3. listaIds[p] \in Seq(Hilos) /\ Len(listaIds[p]) \in Nat \ {0}
        BY <1>3, <4>2, EmptySeq, LenProperties
      <4>4. QED
        BY <2>1, <4>2, <4>3
    <3>3. p \in pcbMem /\ p \notin memProc /\ p \notin pcbExit
      BY <1>2, <2>1 DEF PcbsEnSuLugar
    <3>4. PcbsEnSuLugar'
      BY <1>2, <1>4, <2>1, <3>3 DEF PcbsEnSuLugar
    <3>5. Recorrida(p)'
      <4>1. siguienteTid[p] <= 1 => listaIds[p] = <<>> \/ listaIds[p] = <<<<p, 0>>>>
        BY <1>2 DEF Recorrida
      <4>2. QED
        BY <1>4, <2>1, <3>1, <3>2, <3>3, <4>1 DEF Recorrida
    <3>6. \A q \in Pids : Recorrida(q)'
      BY <1>5, <2>1, <3>5
    <3>7. QED
      BY <3>4, <3>6 DEF Enlistados
  <2>4. QED
    BY <2>1, <2>2, <2>3
<1>10. CASE FinSalir(p)
  <2>1. /\ UNCHANGED <<memProc, listaIds>> /\ fin[p].fase = "cero"
        /\ fin'[p].fase = "nada" /\ \A q \in Pids : q # p => fin'[q] = fin[q]
        /\ pcbMem' = pcbMem \ {p} /\ pcbExit' = pcbExit \cup {p}
    BY <1>3, <1>10 DEF FinSalir, FinNada, vMemoria
  <2>2. p \in pcbMem /\ p \notin memProc
    BY <1>2, <2>1 DEF PcbsEnSuLugar
  <2>3. p < siguientePid /\ p \notin ToSet(pcbNew)
    BY <2>2 DEF NuevosSinHilos
  <2>4. PcbsEnSuLugar'
    <3>1. ToSet(pcbNew)' = ToSet(pcbNew)
      BY <1>4
    <3>2. QED
      BY <1>2, <1>4, <2>1, <2>2, <2>3, <3>1 DEF PcbsEnSuLugar
  <2>5. Recorrida(p)'
    <3>1. /\ siguienteTid[p] <= 1 => listaIds[p] = <<>> \/ listaIds[p] = <<<<p, 0>>>>
          /\ c \notin Vivos /\ u \notin Vivos
      BY <1>2, <2>1 DEF Recorrida
    <3>2. QED
      BY <1>4, <2>1, <3>1 DEF Recorrida
  <2>6. \A q \in Pids : Recorrida(q)'
    BY <1>5, <2>1, <2>5
  <2>7. QED
    BY <2>4, <2>6 DEF Enlistados
<1>11. QED
  BY <1>6, <1>7, <1>8, <1>9, <1>10

\* crear_tcb for a process nobody is finalizing, in EXIT or on its way there.
LEMMA CrearEnlista ==
  ASSUME TypeOK, Lugares, Lugares', Acabados \subseteq Acabados', NEW q \in Pids,
         siguienteTid[q] <= MaxTid, \A p \in Pids : Recorrida(p),
         NEW pr, NEW colas, CrearTcb(q, pr, colas),
         fin' = fin, pcbExit' = pcbExit, fin[q].fase = "nada", q \notin pcbExit
  PROVE  \A p \in Pids : Recorrida(p)'
<1> DEFINE t == siguienteTid[q]
           h == <<q, t>>
<1>1. /\ siguienteTid \in [Pids -> 0 .. MaxTid + 1] /\ listaIds \in [Pids -> Seq(Hilos)]
      /\ t \in Nat /\ h \in Hilos
  BY ConstantesTipo DEF TypeOK, TipoPcb, Hilos, Tids
<1>2. /\ siguienteTid' = [siguienteTid EXCEPT ![q] = @ + 1]
      /\ listaIds' = [listaIds EXCEPT ![q] = IF t = 0 THEN @ ELSE Append(@, h)]
  BY DEF CrearTcb
<1>3. Vivos' \subseteq Vivos \cup {h}
  BY <1>2, SoloElNuevo
<1>4. ASSUME NEW p \in Pids, p # q PROVE Recorrida(p)'
  <2>1. siguienteTid'[p] = siguienteTid[p] /\ listaIds'[p] = listaIds[p]
    BY <1>1, <1>2, <1>4
  <2>2. <<p, 0>> # h /\ <<p, 1>> # h
    BY <1>4
  <2> HIDE DEF h
  <2>3. (<<p, 0>> \in Vivos' => <<p, 0>> \in Vivos) /\ (<<p, 1>> \in Vivos' => <<p, 1>> \in Vivos)
    BY <1>3, <2>2
  <2>4. QED
    BY <2>1, <2>3 DEF Recorrida
<1>5. Recorrida(q)'
  <2>1. siguienteTid'[q] = t + 1 /\ listaIds'[q] = IF t = 0 THEN listaIds[q] ELSE Append(listaIds[q], h)
    BY <1>1, <1>2
  <2>2. /\ t <= 1 => listaIds[q] = <<>> \/ listaIds[q] = <<<<q, 0>>>>
        /\ <<q, 1>> \in Vivos => UnoPrimero(q, listaIds[q])
    BY DEF Recorrida
  <2>3. listaIds[q] \in Seq(Hilos)
    BY <1>1
  <2>4. CASE t = 0
    <3>1. <<q, 1>> # h
      BY <2>4
    <3>2. <<q, 1>> \in Vivos' => UnoPrimero(q, listaIds'[q])
      BY <1>3, <2>1, <2>2, <2>4, <3>1
    <3>3. QED
      BY <2>1, <2>2, <2>4, <3>2 DEF Recorrida
  <2>5. CASE t = 1
    <3>1. UnoPrimero(q, Append(listaIds[q], h))
      <4>1. CASE listaIds[q] = <<>>
        <5>1. Append(listaIds[q], h) = <<h>>
          BY <4>1
        <5>2. QED
          BY <2>5, <5>1 DEF UnoPrimero
      <4>2. CASE listaIds[q] = <<<<q, 0>>>>
        <5> DEFINE s == listaIds[q]
        <5>1. Len(s) = 1 /\ s[1] = <<q, 0>>
          BY <4>2
        <5> HIDE DEF s
        <5>2. /\ Append(s, h) # <<>> /\ Len(Append(s, h)) = 2 /\ Append(s, h)[2] = h
              /\ Append(s, h)[1] = s[1]
          <6>1. s \in Seq(Hilos) /\ 1 \in 1 .. Len(s)
            BY <1>1, <5>1 DEF s
          <6>2. h \in Hilos
            BY <1>1
          <6> HIDE DEF h
          <6>3. /\ Append(s, h) # <<>> /\ Len(Append(s, h)) = Len(s) + 1
                /\ Append(s, h)[Len(s) + 1] = h
            BY <6>1, <6>2, AppendSeq, AppendProperties
          <6>4. Append(s, h)[1] = s[1]
            BY <6>1, <6>2, AppendElementos
          <6>5. QED
            BY <5>1, <6>3, <6>4
        <5>3. h = <<q, 1>>
          BY <2>5
        <5> HIDE DEF h
        <5>4. UnoPrimero(q, Append(s, h))
          BY <5>1, <5>2, <5>3 DEF UnoPrimero
        <5>5. QED
          BY <5>4 DEF s
      <4>3. QED
        BY <2>2, <2>5, <4>1, <4>2
    <3>2. ~(siguienteTid'[q] <= 1) /\ listaIds'[q] = Append(listaIds[q], h)
      BY <2>1, <2>5
    <3>3. QED
      BY <3>1, <3>2 DEF Recorrida
  <2>6. CASE t >= 2
    <3>1. <<q, 1>> # h
      BY <2>6
    <3>2. <<q, 1>> \in Vivos' => UnoPrimero(q, listaIds[q])
      BY <1>3, <2>2, <3>1
    <3>3. <<q, 1>> \in Vivos' => UnoPrimero(q, Append(listaIds[q], h))
      BY <1>1, <2>3, <3>2, UnoTrasAgregar
    <3>4. ~(siguienteTid'[q] <= 1) /\ listaIds'[q] = Append(listaIds[q], h)
      BY <1>1, <2>1, <2>6
    <3>5. QED
      BY <3>3, <3>4 DEF Recorrida
  <2>7. QED
    BY <1>1, <2>4, <2>5, <2>6
<1>6. QED
  BY <1>4, <1>5

\* One turn of replanificar_creacion_proceso.
LEMMA FinReplanificarEnlistados ==
  ASSUME IInv, Lugares, Lugares', Enlistados, Acabados \subseteq Acabados', NEW p \in Pids,
         FinReplanificar(p)
  PROVE  Enlistados'
<1> USE DEF IInv
<1> DEFINE q == Head(pcbNew)
<1>1. /\ pcbNew # <<>> /\ pcbNew' = Tail(pcbNew)
      /\ pcbMem' = pcbMem \cup {q} /\ memProc' = memProc \cup {q}
      /\ CrearTcb(q, prioridad[<<q, 0>>], Colas)
      /\ UNCHANGED <<pcbExit, siguientePid, fin>>
  BY DEF FinReplanificar, vFin
<1>2. PcbsEnSuLugar /\ \A o \in Pids : Recorrida(o)
  BY DEF Enlistados, FinReplanificar
<1>3. /\ q \in Pids /\ siguienteTid[q] = 0 /\ siguienteTid[q] <= MaxTid
      /\ q \in ToSet(pcbNew) /\ ToSet(Tail(pcbNew)) = ToSet(pcbNew) \ {q}
  <2>1. /\ q \in Pids /\ siguienteTid[q] = 0 /\ ToSet(Tail(pcbNew)) = ToSet(pcbNew) \ {q}
    BY <1>1, PrimeroDeNew
  <2>2. q \in ToSet(pcbNew)
    BY <1>1, ToSetTipo DEF TypeOK, TipoPcb
  <2>3. QED
    BY <2>1, <2>2, ConstantesTipo
<1> HIDE DEF q
<1>4. q \notin pcbExit /\ q \notin pcbMem
  BY <1>2, <1>3 DEF PcbsEnSuLugar, NuevosSinHilos
<1>5. fin[q].fase = "nada"
  BY <1>2, <1>3, <1>4 DEF PcbsEnSuLugar
<1>6. PcbsEnSuLugar'
  <2>1. ToSet(pcbNew)' = ToSet(pcbNew) \ {q}
    BY <1>1, <1>3
  <2>2. QED
    BY <1>1, <1>2, <1>4, <1>5, <2>1 DEF PcbsEnSuLugar
<1>7. \A o \in Pids : Recorrida(o)'
  BY <1>1, <1>2, <1>3, <1>4, <1>5, CrearEnlista
<1>8. QED
  BY <1>6, <1>7 DEF Enlistados

\* crear_proceso, with a partition or without.
LEMMA ProcessCreateEnlistados ==
  ASSUME IInv, Lugares, Lugares', Enlistados, Acabados \subseteq Acabados', AtiendeProcessCreate
  PROVE  Enlistados'
<1> USE DEF IInv
<1> DEFINE q == siguientePid
           p == Enviar(Colas, Rta("OK"))
<1>1. /\ siguientePid <= MaxPid /\ siguientePid' = q + 1 /\ UNCHANGED <<pcbExit, fin>> /\ EnMarcha
  BY DEF AtiendeProcessCreate, vFin, Llega, LlegaPedido, HayPedido
<1>2. PcbsEnSuLugar /\ \A o \in Pids : Recorrida(o)
  BY <1>1 DEF Enlistados
<1>3. /\ q \in Pids /\ siguienteTid[q] = 0 /\ siguienteTid[q] <= MaxTid
      /\ q \notin pcbMem /\ q \notin pcbExit /\ q \in Nat
  <2>1. q \in Pids /\ q \in Nat
    BY <1>1, ConstantesTipo DEF TypeOK, TipoPcb, Pids
  <2>2. siguienteTid[q] = 0
    BY <2>1 DEF NuevosSinHilos
  <2>3. q \notin pcbMem /\ q \notin pcbExit
    BY <1>2, <2>1 DEF NuevosSinHilos, PcbsEnSuLugar
  <2>4. QED
    BY <2>1, <2>2, <2>3, ConstantesTipo
<1>4. fin[q].fase = "nada"
  BY <1>2, <1>3 DEF PcbsEnSuLugar
<1>5. \A o \in pcbExit : o < siguientePid'
  <2>1. pcbExit \subseteq Nat
    BY DEF TypeOK, TipoPcb, Pids
  <2>2. QED
    BY <1>1, <1>2, <1>3, <2>1 DEF PcbsEnSuLugar
<1>6. CASE pcbNew = <<>> /\ HayParticion
  <2>1. /\ pcbMem' = pcbMem \cup {q} /\ memProc' = memProc \cup {q} /\ pcbNew' = pcbNew
        /\ CrearTcb(q, Pedida.arg, p)
    BY <1>6 DEF AtiendeProcessCreate
  <2> HIDE DEF p, q
  <2>2. PcbsEnSuLugar'
    BY <1>1, <1>2, <1>3, <1>4, <1>5, <2>1 DEF PcbsEnSuLugar
  <2>3. \A o \in Pids : Recorrida(o)'
    BY <1>1, <1>2, <1>3, <1>4, <2>1, CrearEnlista
  <2>4. QED
    BY <2>2, <2>3 DEF Enlistados
<1>7. CASE ~(pcbNew = <<>> /\ HayParticion)
  <2>1. /\ UNCHANGED <<pcbMem, memProc, siguienteTid, listaIds>> /\ pcbNew' = Append(pcbNew, q)
    BY <1>7 DEF AtiendeProcessCreate
  <2>2. PcbsEnSuLugar'
    <3>1. ToSet(pcbNew)' = ToSet(pcbNew) \cup {q}
      BY <1>3, <2>1, AppendElementos DEF TypeOK, TipoPcb
    <3> HIDE DEF q
    <3>2. QED
      BY <1>1, <1>2, <1>3, <1>5, <2>1, <3>1 DEF PcbsEnSuLugar
  <2>3. Vivos' \subseteq Vivos
    BY <2>1, NadieVuelve
  <2>4. ASSUME NEW o \in Pids PROVE Recorrida(o)'
    BY <1>1, <1>2, <2>1, <2>3, <2>4 DEF Recorrida
  <2>5. QED
    BY <2>2, <2>4 DEF Enlistados
<1>8. QED
  BY <1>6, <1>7

\* THREAD_CREATE
LEMMA ThreadCreateEnlistados ==
  ASSUME IInv, Lugares, Lugares', Enlistados, Acabados \subseteq Acabados', AtiendeThreadCreate
  PROVE  Enlistados'
<1> USE DEF IInv
<1>1. /\ EnMarcha /\ siguienteTid[P] <= MaxTid
      /\ UNCHANGED <<pcbNew, pcbMem, pcbExit, siguientePid, memProc, fin>>
  BY DEF AtiendeThreadCreate, Llega, LlegaPedido, HayPedido, vFin
<1>2. PcbsEnSuLugar /\ \A o \in Pids : Recorrida(o)
  BY <1>1 DEF Enlistados
<1>3. CASE P \in pcbMem /\ P \in memProc
  <2>1. CrearTcb(P, Pedida.arg, Enviar(Colas, Rta("OK")))
    BY <1>3 DEF AtiendeThreadCreate
  <2>2. P \in Pids /\ P \notin pcbExit
    BY <1>2, <1>3 DEF PcbsEnSuLugar, TypeOK, TipoPcb
  <2>3. fin[P].fase = "nada"
    BY <1>2, <1>3, <2>2 DEF PcbsEnSuLugar
  <2>4. PcbsEnSuLugar'
    BY <1>1, <1>2 DEF PcbsEnSuLugar
  <2>5. \A o \in Pids : Recorrida(o)'
    BY <1>1, <1>2, <2>1, <2>2, <2>3, CrearEnlista
  <2>6. QED
    BY <2>4, <2>5 DEF Enlistados
<1>4. CASE ~(P \in pcbMem /\ P \in memProc)
  <2>1. UNCHANGED <<siguienteTid, listaIds>>
    BY <1>4 DEF AtiendeThreadCreate
  <2>2. Vivos' \subseteq Vivos
    BY <2>1, NadieVuelve
  <2>3. QED
    BY <1>1, <2>1, <2>2, SiguenEnlistados
<1>5. QED
  BY <1>3, <1>4
-----------------------------------------------------------------------------
LEMMA InicioEnlistados == Init => Enlistados
<1> SUFFICES ASSUME Init PROVE Enlistados
  OBVIOUS
<1>1. /\ pcbNew = <<>> /\ pcbMem = {0} /\ pcbExit = {} /\ siguientePid = 1 /\ memProc = {0}
      /\ siguienteTid = [p \in Pids |-> IF p = 0 THEN 1 ELSE 0]
      /\ listaIds = [p \in Pids |-> <<<<p, 0>>>>] /\ fin = [p \in Pids |-> FinNada]
  BY DEF Init
<1>2. Vivos = {<<0, 0>>}
  <2>1. ready = <<<<0, 0>>>> /\ exec = <<>> /\ blocked = {}
    BY DEF Init
  <2>2. \A x : ToSet(<<x>>) = {x}
    BY ONLY DEF ToSet
  <2>3. QED
    BY ONLY <2>1, <2>2, VivosExisten, VacioElementos
<1>3. PcbsEnSuLugar
  <2>1. \A p \in Pids : fin[p].fase = "nada"
    BY <1>1 DEF FinNada
  <2>2. pcbExit = {} /\ memProc \subseteq pcbMem
    BY <1>1
  <2>3. QED
    BY ONLY <2>1, <2>2 DEF PcbsEnSuLugar
<1>4. ASSUME NEW p \in Pids PROVE Recorrida(p)
  <2>1. fin[p].fase = "nada" /\ p \notin pcbExit /\ listaIds[p] = <<<<p, 0>>>>
    BY <1>1, <1>4 DEF FinNada
  <2>2. <<p, 1>> \notin Vivos
    BY <1>2
  <2>3. QED
    BY <2>1, <2>2 DEF Recorrida
<1>5. QED
  BY <1>3, <1>4 DEF Enlistados

LEMMA PasoEnlistados == IInv /\ Lugares /\ Enlistados /\ [Next]_vars => Enlistados'
<1> SUFFICES ASSUME IInv, Lugares, Enlistados, [Next]_vars PROVE Enlistados'
  OBVIOUS
<1>1. CASE UNCHANGED vars
  <2>1. UNCHANGED <<ready, exec, blocked, caido, pcbNew, pcbMem, pcbExit, siguientePid,
                    siguienteTid, listaIds, fin, memProc>>
    BY <1>1 DEF vars, vListas, vPcb, vFin, vMemoria
  <2>2. Vivos' = Vivos /\ (EnMarcha' <=> EnMarcha)
    BY <2>1 DEF Vivos, Activos, Colas, EnMarcha
  <2>3. CASE EnMarcha
    BY <2>1, <2>2, <2>3, SiguenEnlistados
  <2>4. CASE ~EnMarcha
    BY <2>2, <2>4 DEF Enlistados
  <2>5. QED
    BY <2>3, <2>4
<1>2. CASE Next
  <2>1. Lugares' /\ Acabados \subseteq Acabados'
    BY <1>2, PasoLugares, AcabadosQuedan DEF IInv
  <2>2. siguienteTid' = siguienteTid => Vivos' \subseteq Vivos
    BY <2>1, NadieVuelve
  <2>3. CASE AtiendeProcessCreate \/ AtiendeThreadCreate
    BY <2>1, <2>3, ProcessCreateEnlistados, ThreadCreateEnlistados
  <2>4. CASE Atiende /\ ~AtiendeProcessCreate /\ ~AtiendeThreadCreate
    <3>1. /\ EnMarcha
          /\ UNCHANGED <<fin, memProc, pcbNew, pcbMem, pcbExit, siguientePid, siguienteTid, listaIds>>
      BY <2>4
      DEF Atiende, EsperaPcb, AtiendeInvalido, AtiendeExitRepetido, AtiendeProcessExit,
          AtiendeThreadJoin, AtiendeThreadCancel, AtiendeThreadExit, AtiendeMutexSinPcb,
          AtiendeMutexCreate, AtiendeMutexInexistente, AtiendeMutexLock, AtiendeMutexUnlock,
          AtiendeDump, AtiendeDesalojo, Llega, LlegaPedido, HayPedido, vPcb, vFin, vMemoria
    <3>2. QED
      BY <2>2, <3>1, SiguenEnlistados
  <2>5. CASE PcpSuelto \/ Cpu \/ Programa \/ \E h \in Hilos : DumpMemory(h)
    <3>1. /\ EnMarcha
          /\ UNCHANGED <<fin, memProc, pcbNew, pcbMem, pcbExit, siguientePid, siguienteTid, listaIds>>
      BY <2>5
      DEF PcpSuelto, Cpu, CpuRecibeEjecutar, CpuRecibeRta, CpuGuarda, CpuSinHilo, Programa,
          CpuSyscall, CpuSegmentationFault, DumpMemory, DumpBloquear, DumpResponder,
          DumpConcluir, vPcb, vFin, vMemoria
    <3>2. QED
      BY <2>2, <3>1, SiguenEnlistados
  <2>6. ASSUME NEW e \in Ejecutores, FinalizarHilo(e) PROVE Enlistados'
    <3>1. siguienteTid' = siguienteTid
      BY <2>6 DEF FinalizarHilo, FhTomar, FhMutex, FhSalir, FhJoin, FhFin, vPcb
    <3>2. QED
      BY <2>2, <2>6, <3>1, FinalizarHiloEnlistados
  <2>7. ASSUME NEW p \in Pids, FinalizarProceso(p) PROVE Enlistados'
    <3>1. CASE FinReplanificar(p)
      BY <2>1, <3>1, FinReplanificarEnlistados
    <3>2. CASE FinMemoria(p) \/ FinTomar(p) \/ FinHilo(p) \/ FinCero(p) \/ FinSalir(p)
      <4>1. siguienteTid' = siguienteTid
        BY <3>2 DEF FinMemoria, FinTomar, FinHilo, FinCero, FinSalir, vPcb
      <4>2. QED
        BY <2>1, <2>2, <3>2, <4>1, FinalizarProcesoEnlistados
    <3>3. QED
      BY <2>7, <3>1, <3>2 DEF FinalizarProceso
  <2>8. QED
    BY <1>2, <2>3, <2>4, <2>5, <2>6, <2>7 DEF Next
<1>3. QED
  BY <1>1, <1>2

(* Threads 0 and 1 have ended when their process is in EXIT, though
   eliminar_hilos walks a list that shortens under it, the handler ends
   threads of the process meanwhile, dumps ask for a second finalizer of it
   and other processes take its place.  The later threads the walk may skip. *)
THEOREM CeroYUnoAcaban == Spec => []CeroYUnoTerminan
<1>1. ASSUME Enlistados, TypeOK PROVE CeroYUnoTerminan
  <2>1. SUFFICES ASSUME EnMarcha, NEW p \in pcbExit, NEW t \in {0, 1} PROVE ~Existe(<<p, t>>)
    BY DEF CeroYUnoTerminan
  <2>2. p \in Pids
    BY <1>1 DEF TypeOK, TipoPcb
  <2>3. <<p, 0>> \notin Vivos /\ <<p, 1>> \notin Vivos
    BY <1>1, <2>1, <2>2 DEF Enlistados, Recorrida
  <2>4. QED
    BY <2>3, VivosExisten
<1>2. Init => Enlistados
  BY InicioEnlistados
<1>3. IInv /\ Lugares /\ Enlistados /\ [Next]_vars => Enlistados'
  BY PasoEnlistados
<1>4. IInv /\ Enlistados => CeroYUnoTerminan
  BY <1>1 DEF IInv
<1>5. QED
  BY <1>2, <1>3, <1>4, LugaresSiempre, PTL DEF Spec
=============================================================================
