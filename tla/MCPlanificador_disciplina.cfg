SPECIFICATION Spec
CONSTANTS
  Algoritmo = "PRIORIDADES"
  MaxPid = 0
  MaxTid = 2
  Recursos = {1}
  Prioridades = {0}
  Particiones = 1
  Instrucciones = {"THREAD_CREATE", "THREAD_JOIN", "THREAD_EXIT", "THREAD_CANCEL", "MUTEX_CREATE", "MUTEX_LOCK", "MUTEX_UNLOCK", "DUMP_MEMORY", "PROCESS_EXIT"}
  Fallos = FALSE
  DumpFalla = FALSE
  Disciplina = TRUE
INVARIANT SinCaidas
PROPERTY MutexAlPrimero
CHECK_DEADLOCK FALSE
