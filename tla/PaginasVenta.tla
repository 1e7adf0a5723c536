---------------------------- MODULE PaginasVenta ----------------------------
(***************************************************************************)
(* The pages about orders and carts: the panel's sales, the seller's       *)
(* orders and carts, the client's cart and payment, reports and the home.  *)
(***************************************************************************)
EXTENDS Descripcion

LoadVenta(enciende) == Carga(enciende, {"apaga"}, {"apaga"})

-----------------------------------------------------------------------------
(* admin/ventas, with the hook useSales: a status is changed from a dialog  *)
(* that closes whatever happens, an order is assigned from its row.         *)

SalesLoad == LoadVenta("cada")
SalesChangeStatus == Envia("cambia", {"exito", "relee", "cierra"}, {"cierra"})
VentasAssign == Envia("cambia", {"exito", "relee"}, {})

Ventas ==
  FilasTapadas(Panel("ventas", SalesLoad, [confirma |-> "modal"],
    [changeStatus |-> En("confirma", Libre, SalesChangeStatus),
     assign |-> En(Fila, Libre, VentasAssign)]))

-----------------------------------------------------------------------------
(* vendedora/ordenes and vendedora/historial: lists.                        *)

OrdenesLoad == Carga("cada", {"apaga"}, {"vacia", "apaga"})
Ordenes == Tapada(Panel("vendedora/ordenes", OrdenesLoad, SinFichas, SinOps))

HistorialFetch == LoadVenta("cada")
Historial == Panel("vendedora/historial", HistorialFetch, SinFichas, SinOps)

-----------------------------------------------------------------------------
(* vendedora/carritos: the seller edits the cart of an order.  The quantity *)
(* is what the seller typed as soon as it is typed, and stays so when the   *)
(* server refuses it; the status of the order follows that of the cart in a *)
(* second request.                                                           *)

CarritosFetch == LoadVenta("cada")

CarritosUpdateAddress == Envia("cambia", {"cierra", "exito", "relee"}, {})
CarritosAddToCart == Envia("cambia", {"exito", "cierra", "relee"}, {})
CarritosUpdateQty == Antes({"local"}, Envia("cambia", {"relee"}, {}))
CarritosRemoveItem == Envia("cambia", {"exito", "relee"}, {})

\* To "listo_para_pago", which is the cart's status and then the order's ...
CarritosListo ==
  EnviaVarias(<<Pide("cambia", {}, {}), Pide("cambia", {}, {})>>,
    {"exito", "relee"}, {})

\* ... or to any other, which only the order is told.
CarritosSetStatus == Envia("cambia", {"exito", "relee"}, {})

CarritosFinalize == Envia("cambia", {"exito", "relee"}, {})
CarritosNoAgregar == Envia("cambia", {"exito", "relee"}, {})
CarritosConfirmaStock == Envia("cambia", {"exito", "cierra", "relee"}, {})

Carritos ==
  FilasTapadas(Panel("vendedora/carritos", CarritosFetch,
    [direccion |-> "modal", ubicaciones |-> "enlinea", busqueda |-> "fija"],
    [handleUpdateAddress |-> En("direccion", Libre, CarritosUpdateAddress),
     addToCart |-> En("busqueda", Libre, CarritosAddToCart),
     confirmaStock |-> En("ubicaciones", Libre, CarritosConfirmaStock),
     updateQty |-> En(Fila, Libre, CarritosUpdateQty),
     removeItem |-> En(Fila, Libre, CarritosRemoveItem),
     noAgregar |-> En(Fila, Libre, CarritosNoAgregar),
     listo |-> En(Fila, Libre, CarritosListo),
     setStatus |-> En(Fila, Libre, CarritosSetStatus),
     finalize |-> En(Fila, Libre, CarritosFinalize)]))

\* The remitos of the cart, shown among its lines.
RemitosCarritoFetch == LoadVenta("inicio")
RemitosCarrito == Tapada(Panel("RemitosCarrito", RemitosCarritoFetch, SinFichas, SinOps))

-----------------------------------------------------------------------------
(* The client's cart: useCart, the drawer and the page of a product share   *)
(* one copy of it.  A 401 to a request of the hook takes the token away and  *)
(* leaves for the login; any other refusal shows an error and nothing else, *)
(* as a failure of the network does.  A seller is asked for after looking   *)
(* for an address, and the button is disabled only from then on.            *)

\* handleAuthError: the page is left 1.5 s later, with nothing granted till then.
SegunAuthError(tipo, bien) ==
  [Envia(tipo, bien, {}) EXCEPT !.pasos = <<Pide(tipo, {"sale"}, {})>>]

CartFetch ==
  CargaSinToken({}, [Carga("nunca", {}, {}) EXCEPT !.rechazo = {"sale"}])

CartAdd == Envia("cambia", {"trae", "exito"}, {})
CartUpdateQuantityVariant == SegunAuthError("cambia", {"relee"})
CartRemove == SegunAuthError("cambia", {"relee"})
CartClear == SegunAuthError("cambia", {"relee"})

CartRequestSeller ==
  EnviaVarias(<<Pide("nota", {"libera"}, {"libera"}),
                Pide("cambia", {"libera"}, {"libera"})>>,
    {"relee", "resultado", "libera"}, {"libera"})

Carrito ==
  Panel("carrito", CartFetch, [solicitada |-> "resultado"],
    [handleAddToCart |-> En(Fila, Libre, CartAdd),
     updateQuantityVariant |-> En(Fila, Libre, CartUpdateQuantityVariant),
     removeFromCart |-> En(Fila, Libre, CartRemove),
     clearCart |-> En(Fila, Libre, CartClear),
     requestSeller |-> OcupaDesde(2, En(Fila, "requestingSeller", CartRequestSeller)),
     aceptar |-> En("solicitada", Libre, SoloHace({"cierra"}))])

-----------------------------------------------------------------------------
(* checkout: the server has no route for its only button.                   *)

CheckoutFetchCart == CargaSinToken({"sale", "apaga"}, LoadVenta("inicio"))
CheckoutConfirm ==
  SinRuta(Envia("cambia", {"exito", "sale", "libera"}, {"libera"}))

Checkout ==
  Tapada(Panel("checkout", CheckoutFetchCart, [pago |-> "fija"],
    [handleConfirmOrder |-> En("pago", "processing", CheckoutConfirm)]))

-----------------------------------------------------------------------------
(* admin/reportes: a period is chosen and both reports are asked for.       *)

ReportesLoad == LoadVenta("cada")

Reportes ==
  ConFiltro(FilasTapadas(Panel("reportes", ReportesLoad, SinFichas,
    [generar |-> En(Fila, Libre, SoloHace({"relee"}))])))

\* admin: the numbers of the day.  The products are taken without a look at
\* the answer, the rest is skipped when it fails.
DashboardLoad ==
  Publica([LoadVenta("cada") EXCEPT !.rechazo = {"vacia", "apaga"}])
Dashboard == Tapada(Panel("dashboard", DashboardLoad, SinFichas, SinOps))

-----------------------------------------------------------------------------
(* The home, and the bell with the notifications: it asks again every half  *)
(* a minute, and marks one as read on the screen before the server does.    *)

HomeSectionsDisplayLoad == Publica(LoadVenta("inicio"))
HomeSectionsDisplay ==
  Tapada(Panel("HomeSectionsDisplay", HomeSectionsDisplayLoad, SinFichas, SinOps))

HomeVideosLoad == Publica([Carga("nunca", {}, {}) EXCEPT !.caida = {"vacia"}])
HomeVideos == Panel("HomeVideos", HomeVideosLoad, SinFichas, SinOps)

NotificationsFetch ==
  CargaSinToken({"apaga"}, [LoadVenta("cada") EXCEPT !.rechazo = {"vacia", "apaga"}])

MarkAsRead ==
  SinToken({"local"}, Antes({"local"}, EnviaSinMirar("cambia", {})))

Notificaciones ==
  Panel("notificaciones", NotificationsFetch, SinFichas,
    [refresh |-> En(Fila, Libre, SoloHace({"relee"})),
     markAsRead |-> En(Fila, Libre, MarkAsRead)])

=============================================================================
