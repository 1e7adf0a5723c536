SPECIFICATION FairSpec
CONSTANTS
  v1 = v1
  p1 = p1
  Skus = {v1, p1}
  ConVariante = {v1}
  Locs = {"deposito", "mendoza"}
  Clientes = {"ana"}
  NumCarts = 1
  Dueno <- UnDueno
  Cantidades = {1}
  Verificar = {FALSE}
  Pedidos <- SinPedidos
  Objetivos = {}
  ObjetivosOrden = {"listo_para_pago"}
  MaxItems = 2
  MaxRemitos = 1
  MaxOrdenes = 1
  MaxCantidad = 1
  MaxStock = 1
  Tope = 1
INVARIANTS
  IInv
PROPERTIES
  LibroDeReservas
  VencidaSeLibera
