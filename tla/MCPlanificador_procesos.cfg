SPECIFICATION SpecJusta
CONSTANTS
  Algoritmo = "FIFO"
  MaxPid = 1
  MaxTid = 1
  Recursos = {1}
  Prioridades = {0}
  Particiones = 1
  Instrucciones = {"PROCESS_CREATE", "DUMP_MEMORY", "THREAD_CREATE", "PROCESS_EXIT", "MUTEX_LOCK"}
  Fallos = TRUE
  DumpFalla = TRUE
  Disciplina = FALSE
INVARIANTS ContextoEnMemoria CeroYUnoTerminan
PROPERTY FinalizadorTermina
CHECK_DEADLOCK FALSE
