------------------------------- MODULE MCCpu -------------------------------
EXTENDS Cpu

I(op, r, s, n) == [op |-> op, r |-> r, s |-> s, n |-> n]
S(op) == I(op, "AX", "AX", 0)

\* A loop that writes and reads back; a thread of the same process; one of
\* another process, which ends with a fault.
Lazo ==
  <<I("SET", "AX", "AX", 2), I("SET", "BX", "BX", 1), I("SET", "CX", "CX", 4),
    I("WRITE_MEM", "CX", "AX", 0), S("IO"), I("READ_MEM", "DX", "CX", 0),
    I("SUB", "AX", "BX", 0), I("JNZ", "AX", "AX", 3),
    S("MUTEX_LOCK"), I("SUM", "DX", "BX", 0), S("THREAD_EXIT")>>
Hermano ==
  <<I("SET", "AX", "AX", 14), I("WRITE_MEM", "CX", "AX", 0), S("THREAD_CREATE"),
    I("READ_MEM", "BX", "CX", 0), I("SUM", "BX", "AX", 0), S("LOG"), S("MUTEX_UNLOCK"), S("PROCESS_EXIT")>>
Ajeno ==
  <<I("SET", "AX", "AX", 4), I("READ_MEM", "BX", "AX", 0), I("SUB", "BX", "AX", 0),
    I("WRITE_MEM", "AX", "BX", 0), S("DUMP_MEMORY"), I("WRITE_MEM", "BX", "AX", 0), S("THREAD_EXIT")>>

Programas == <<Lazo, Hermano, Ajeno>>
Procesos  == <<1, 1, 2>>
Bases     == <<0, 8>>
Limites   == <<7, 15>>
=============================================================================
