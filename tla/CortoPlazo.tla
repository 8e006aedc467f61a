----------------------------- MODULE CortoPlazo -----------------------------
(***************************************************************************)
(* The short-term scheduler of the kernel (planificador_corto_plazo.c) as  *)
(* operators on a record [ready, exec, aCpu]: the READY list, the EXEC     *)
(* list and the messages on their way to the CPU.  Every operation of the  *)
(* kernel that moves a thread ends in one of them.                         *)
(***************************************************************************)
EXTENDS Integers, Sequences, SequencesExt

CONSTANT
  Algoritmo   \* ALGORITMO_PLANIFICACION: "FIFO" or "PRIORIDADES"

ASSUME AlgoritmoAssumption == Algoritmo \in {"FIFO", "PRIORIDADES"}

Nadie == <<-1, -1>>   \* the thread id the code writes for "no thread"

Ejecutar(h) == [op |-> "EJECUTAR", hilo |-> h, rta |-> "NADA"]
Rta(r)      == [op |-> "RTA", hilo |-> Nadie, rta |-> r]

\* Mutant: among equals, the last one.
ElegidoUltimo(cola, prioridad) ==
  LET minimos == {i \in DOMAIN cola : \A j \in DOMAIN cola :
                       prioridad[cola[i]] <= prioridad[cola[j]]}
  IN  Max(minimos)

\* Position in a non-empty READY list of the thread to run next: the head, or
\* the earliest of those with the lowest number, the highest priority.
Elegido(cola, prioridad) ==
  IF Algoritmo = "FIFO"
  THEN 1
  ELSE LET minimos == {i \in DOMAIN cola : \A j \in DOMAIN cola :
                                 prioridad[cola[i]] <= prioridad[cola[j]]}
       IN  Min(minimos)

\* Mutant: nobody looks whether EXEC is empty.
PcpSinMirarExec(p, prioridad) ==
  IF p.ready # <<>>
  THEN LET i == Elegido(p.ready, prioridad)
       IN  [ready |-> RemoveAt(p.ready, i),
            exec  |-> Append(p.exec, p.ready[i]),
            aCpu  |-> Append(p.aCpu, Ejecutar(p.ready[i]))]
  ELSE p

\* pcp_planificador_corto_plazo: with nobody in EXEC and somebody in READY,
\* the chosen thread goes to EXEC and is sent to the CPU.
Pcp(p, prioridad) ==
  IF p.exec = <<>> /\ p.ready # <<>>
  THEN LET i == Elegido(p.ready, prioridad)
       IN  [ready |-> RemoveAt(p.ready, i),
            exec  |-> Append(p.exec, p.ready[i]),
            aCpu  |-> Append(p.aCpu, Ejecutar(p.ready[i]))]
  ELSE p

\* agregar_hilo_a_lista_ready
Encolar(p, h) == [p EXCEPT !.ready = Append(@, h)]

\* enviar_mensaje_a_CPU
Enviar(p, m) == [p EXCEPT !.aCpu = Append(@, m)]

\* Mutant: list_remove_element does not find it.
SacarSinQuitar(p, h) == p

\* The EXEC list without h (list_remove_element).
SacarDeExec(p, h) == [p EXCEPT !.exec = RemoveFirst(@, h)]
=============================================================================
