SPECIFICATION Spec
CONSTANTS
  Algoritmo = "FIFO"
  MaxPid = 0
  MaxTid = 2
  Recursos = {1}
  Prioridades = {0}
  Particiones = 1
  Instrucciones = {"THREAD_CREATE", "PROCESS_EXIT"}
  Fallos = FALSE
  DumpFalla = FALSE
  Disciplina = FALSE
INVARIANT ProcesoSinHilos
CHECK_DEADLOCK FALSE
