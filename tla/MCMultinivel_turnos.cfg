SPECIFICATION SpecJusta
CONSTANTS
  Hilos = {1, 2, 3}
  Prioridad <- Mezcla
  Instrucciones = {"IO", "THREAD_CREATE"}
  MaxHebras = 2
  MaxTemporizadores = 1
  MaxMensajes = 1
  MaxCola = 3
  MaxContextos = 1
  EnTiempo = TRUE
  EnSerieIO = TRUE
INVARIANTS EjecucionFiel UnSueno
PROPERTIES SinAdelantosDesdeElPase TurnoLlega IoVuelve
CHECK_DEADLOCK FALSE
