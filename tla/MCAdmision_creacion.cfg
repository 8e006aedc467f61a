SPECIFICATION Spec
CONSTANTS
  MaxProcesos = 3
  Tamanios = {1, 2}
  ESQUEMA = "FIJAS"
  ALGORITMO_BUSQUEDA = "FIRST"
  PARTICIONES <- Partes
  TAM_MEMORIA = 3
  Nada = Nada
  UnoPorVez = FALSE
INVARIANT PideSiEstabaVacia
CHECK_DEADLOCK FALSE
