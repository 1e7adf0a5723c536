SPECIFICATION Spec
CONSTANTS
  v1 = v1
  Skus = {v1}
  ConVariante = {v1}
  Locs = {"deposito", "mendoza"}
  Clientes = {"ana", "bea"}
  NumCarts = 2
  Dueno <- DosDuenos
  Cantidades = {1}
  Verificar = {FALSE}
  Pedidos <- SinPedidos
  Objetivos = {"edicion"}
  ObjetivosOrden = {}
  MaxItems = 2
  MaxRemitos = 1
  MaxOrdenes = 1
  MaxCantidad = 1
  MaxStock = 1
  Tope = 1
INVARIANTS
  NoVendeLoReservado
