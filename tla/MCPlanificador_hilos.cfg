SPECIFICATION Spec
CONSTANTS
  Algoritmo = "FIFO"
  MaxPid = 0
  MaxTid = 2
  Recursos = {1}
  Prioridades = {0}
  Particiones = 1
  Instrucciones = {"THREAD_CREATE", "THREAD_JOIN", "THREAD_EXIT", "THREAD_CANCEL", "MUTEX_CREATE", "MUTEX_LOCK", "MUTEX_UNLOCK"}
  Fallos = FALSE
  DumpFalla = FALSE
  Disciplina = FALSE
INVARIANTS TypeOK UnHiloUnLugar TrabajoConservado BloqueadoConMotivo DuenioConsistente CpuFiel
CHECK_DEADLOCK FALSE
