SPECIFICATION Spec
CONSTANTS
  v1 = v1
  Skus = {v1}
  ConVariante = {v1}
  Locs = {"deposito", "mendoza"}
  Clientes = {"ana"}
  NumCarts = 1
  Dueno <- UnDueno
  Cantidades = {1}
  Verificar = {FALSE}
  Pedidos <- PedidosBasicos
  Objetivos = {"edicion"}
  ObjetivosOrden = {"pagado"}
  MaxItems = 2
  MaxRemitos = 1
  MaxOrdenes = 1
  MaxCantidad = 2
  MaxStock = 2
  Tope = 1
PROPERTIES
  PagarConsumeReservas
