SPECIFICATION FairSpec
CONSTANTS
  Paginas <- PaginasMC
  MaxEnvios = 2
  MaxGiros = 1
  MaxFichas = 1
  MaxLecturas = 3
  Desviadas <- PaginasDesviadas
  Repetibles <- PaginasRepetibles
  Optimistas <- PaginasOptimistas
  Descuidadas <- PaginasDescuidadas
  Colgadas <- PaginasColgadas
INVARIANTS TypeOK ListaAlDia UnaFila 
PROPERTIES FichaPropia EsperaTermina BotonVuelve
CHECK_DEADLOCK FALSE
