SPECIFICATION Spec
CONSTANTS
  v1 = v1
  Skus = {v1}
  ConVariante = {v1}
  Locs = {"deposito", "mendoza"}
  Clientes = {"ana", "bea"}
  NumCarts = 2
  Dueno <- DosDuenos
  Cantidades = {1}
  Verificar = {FALSE}
  Pedidos <- PedidosDeDos
  Objetivos = {"edicion"}
  ObjetivosOrden = {}
  MaxItems = 2
  MaxRemitos = 1
  MaxOrdenes = 0
  MaxCantidad = 2
  MaxStock = 1
  Tope = 0
INVARIANTS
  IInv
PROPERTIES
  FilasSanas
  LibroDeReservas
