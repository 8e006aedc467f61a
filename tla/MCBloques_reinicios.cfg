SPECIFICATION Spec
CONSTANTS
  Volcados = {1, 2, 3}
  BLOCK_COUNT = 8
  BLOCK_SIZE = 8
  Tamanios = {8, 16}
  Mensajes = {8, 13}
  EnSerie = TRUE
  Reinicios = TRUE
INVARIANTS TypeOK BloquesExclusivos ArchivoLegible BitmapFiel
PROPERTY VolcadoRespondido
CHECK_DEADLOCK FALSE
