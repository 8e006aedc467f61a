SPECIFICATION SpecJusta
CONSTANTS
  MaxProcesos = 4
  Tamanios = {1, 2}
  ESQUEMA = "FIJAS"
  ALGORITMO_BUSQUEDA = "FIRST"
  PARTICIONES <- Partes
  TAM_MEMORIA = 3
  Nada = Nada
  UnoPorVez = TRUE
INVARIANTS MemoriaDeAcuerdo NadieEsperaDeMas
PROPERTIES OrdenDeLlegada FinalizadoSale
CHECK_DEADLOCK FALSE
