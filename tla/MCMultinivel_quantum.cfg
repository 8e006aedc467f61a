SPECIFICATION Spec
CONSTANTS
  Hilos = {1, 2}
  Prioridad <- Pareja
  Instrucciones = {"IO", "THREAD_CREATE", "MUTEX_UNLOCK", "THREAD_EXIT"}
  MaxHebras = 1
  MaxTemporizadores = 1
  MaxMensajes = 1
  MaxCola = 1
  MaxContextos = 1
  EnTiempo = FALSE
  EnSerieIO = FALSE
INVARIANTS TypeOK TrabajoConservado
CHECK_DEADLOCK FALSE
