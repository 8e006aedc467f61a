------------------------------ MODULE Maquina ------------------------------
(***************************************************************************)
(* What a program may take for granted: each thread runs, one instruction  *)
(* after the other, on registers of its own and on the memory of its       *)
(* process, whatever the other threads do and however often it is evicted. *)
(* A step runs one whole instruction; an access outside of the process     *)
(* ends the thread.  The module Cpu implements this one.                   *)
(***************************************************************************)
EXTENDS Palabras, Sequences

CONSTANTS
  Hilos, Pids,
  Proceso,      \* process of each thread
  Programa,     \* instructions of each thread
  Tamanio       \* bytes of each process

VARIABLES
  registros,    \* registers of each thread
  memoria,      \* memory of each process, by logical address
  terminados    \* threads that ended

vars == <<registros, memoria, terminados>>

Registros == {"PC", "AX", "BX", "CX", "DX", "EX", "FX", "GX", "HX"}

Init ==
  /\ registros = [h \in Hilos |-> [r \in Registros |-> 0]]
  /\ memoria = [p \in Pids |-> [d \in 0 .. Tamanio[p] - 1 |-> 0]]
  /\ terminados = {}

Actual(h) == Programa[h][registros[h]["PC"] + 1]

\* The registers as the instruction sees them: PC is of the next one.
Operandos(h) == [registros[h] EXCEPT !["PC"] = @ + 1]

\* The thread goes to its next instruction, with v in register r.
Escribe(h, r, v) == registros' = [registros EXCEPT ![h]["PC"] = @ + 1, ![h][r] = v % Modulo]
Avanza(h)        == registros' = [registros EXCEPT ![h]["PC"] = @ + 1]

\* The addresses of the word at address d of process p.
Celdas(d) == d .. d + BYTES - 1
Dentro(p, d) == Celdas(d) \subseteq DOMAIN memoria[p]

Calcula(h) ==
  LET x == Actual(h)
      R == Operandos(h) IN
  /\ \/ x.op = "SET" /\ Escribe(h, x.r, x.n)
     \/ x.op = "SUM" /\ Escribe(h, x.r, R[x.r] + R[x.s])
     \/ x.op = "SUB" /\ Escribe(h, x.r, R[x.r] - R[x.s])
     \/ x.op = "JNZ" /\ R[x.r] # 0 /\ registros' = [registros EXCEPT ![h]["PC"] = x.n]
     \/ x.op = "JNZ" /\ R[x.r] = 0 /\ Avanza(h)
  /\ UNCHANGED <<memoria, terminados>>

Lee(h) ==
  LET x == Actual(h)
      d == Operandos(h)[x.s] IN
  /\ x.op = "READ_MEM" /\ Dentro(Proceso[h], d)
  /\ \E v \in PalabrasEn(memoria[Proceso[h]], d) : Escribe(h, x.r, v)
  /\ UNCHANGED <<memoria, terminados>>

GuardaEn(h) ==
  LET x == Actual(h)
      p == Proceso[h]
      d == Operandos(h)[x.r]
      v == Operandos(h)[x.s] IN
  /\ x.op = "WRITE_MEM" /\ Dentro(p, d)
  /\ memoria' = [memoria EXCEPT ![p] =
       [e \in DOMAIN @ |-> IF e \in Celdas(d) THEN Byte(v, e - d) ELSE @[e]]]
  /\ Avanza(h)
  /\ UNCHANGED terminados

\* An access outside of the process, and the two instructions that end.
Fin(h) ==
  LET x == Actual(h) IN
  /\ \/ x.op \in {"THREAD_EXIT", "PROCESS_EXIT"}
     \/ x.op = "READ_MEM" /\ ~Dentro(Proceso[h], Operandos(h)[x.s])
     \/ x.op = "WRITE_MEM" /\ ~Dentro(Proceso[h], Operandos(h)[x.r])
  /\ Avanza(h)
  /\ terminados' = terminados \cup {h}
  /\ UNCHANGED memoria

\* Any other instruction does nothing the thread can see.
Sigue(h) ==
  /\ Actual(h).op \notin {"SET", "SUM", "SUB", "JNZ", "READ_MEM", "WRITE_MEM", "THREAD_EXIT", "PROCESS_EXIT"}
  /\ Avanza(h)
  /\ UNCHANGED <<memoria, terminados>>

Paso(h) ==
  /\ h \notin terminados
  /\ Calcula(h) \/ Lee(h) \/ GuardaEn(h) \/ Fin(h) \/ Sigue(h)

Next == \E h \in Hilos : Paso(h)

Spec == Init /\ [][Next]_vars
=============================================================================
