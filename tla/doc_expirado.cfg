SPECIFICATION Spec
CONSTANTS
  v1 = v1
  Skus = {v1}
  ConVariante = {v1}
  Locs = {"deposito", "mendoza"}
  Clientes = {"ana"}
  NumCarts = 1
  Dueno <- UnDueno
  Cantidades = {1}
  Verificar = {FALSE}
  Pedidos <- SinPedidos
  Objetivos = {"edicion"}
  ObjetivosOrden = {}
  MaxItems = 1
  MaxRemitos = 1
  MaxOrdenes = 1
  MaxCantidad = 1
  MaxStock = 1
  Tope = 1
INVARIANTS
  ExpiradoSinReservas
