SPECIFICATION Spec
CONSTANTS
  n1 = n1
  n2 = n2
  n3 = n3
  n4 = n4
  a1 = a1
  a2 = a2
  Ids <- CuatroNiveles
  Admins <- DosAdmins
  Entradas <- Cuerpos
  Ordenes <- AlReves
  Iniciales <- DeLaMigracion
  Configs <- DosRecargos
  Costos <- DosCostos
  MaxCambios = 1
  MaxPrendas = 2
PROPERTIES PrecioCongelado
CHECK_DEADLOCK FALSE
