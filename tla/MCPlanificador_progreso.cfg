SPECIFICATION SpecJusta
CONSTANTS
  Algoritmo = "PRIORIDADES"
  MaxPid = 0
  MaxTid = 1
  Recursos = {1, 2}
  Prioridades = {0, 1}
  Particiones = 1
  Instrucciones = {"THREAD_CREATE", "THREAD_JOIN", "THREAD_CANCEL", "THREAD_EXIT", "MUTEX_CREATE", "MUTEX_LOCK", "MUTEX_UNLOCK", "DUMP_MEMORY", "PROCESS_EXIT"}
  Fallos = FALSE
  DumpFalla = FALSE
  Disciplina = TRUE
PROPERTIES RespuestaLlega HeredaMutex JoinDespierta DumpVuelve DespachoDelMejor
CHECK_DEADLOCK FALSE
