SPECIFICATION Spec
CONSTANTS
  Hilos = {1, 2, 3}
  Pids = {1, 2}
  Proceso <- Procesos
  Programa <- Programas
  BYTES = 4
  VALORES = 2
  Base <- Bases
  Limite <- Limites
  TAM_MEMORIA = 16
  Nadie = Nadie
PROPERTIES ComoSiEstuvieraSolo HiloVuelve
CHECK_DEADLOCK FALSE
