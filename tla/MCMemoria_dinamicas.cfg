SPECIFICATION Spec
CONSTANTS
  Pids = {p1, p2, p3, p4}
  Nada = Nada
  ESQUEMA = "DINAMICAS"
  ALGORITMO_BUSQUEDA = "BEST"
  PARTICIONES <- Ninguna
  TAM_MEMORIA = 12
  Tamanios = {3, 5}
  Direcciones = {3}
  EnSerie = TRUE
  VuelcaVacio = FALSE
INVARIANTS TypeOK ParticionesDisjuntas MemoriaCubierta HuecosAprovechables VolcadoPropio
PROPERTY FinalizacionRespondida
CHECK_DEADLOCK FALSE
