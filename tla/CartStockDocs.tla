--------------------------- MODULE CartStockDocs ---------------------------
(***************************************************************************)
(* What the documents and the comments of the repository say of carts and  *)
(* stock, stated over CartStock.  Each one is refuted by a run.            *)
(***************************************************************************)
EXTENDS CartStock

\* CASOS_PRUEBA.md, TC-022: the system prevents a sale without stock, so what
\* one cart was promised is not sold through another.
NoVendeLoReservado == \A p \in Pares : reserved[p] <= stock[p]

\* internal/order/handler.go, UpdateOrderStatus: an order that becomes "pagado"
\* uses the cart's logic to take stock, so its reservations are consumed.
PagarConsumeReservas ==
  [][\A c \in Carts :
       (carts[c].estado # "pagado" /\ carts'[c].estado = "pagado") =>
         \A i \in ConReserva(c) : i \in DOMAIN items' => items'[i].resv = 0]_vars

\* IMPLEMENTACION_EXPIRACION_CARRITOS.md: the stock of an expired cart is released
\* and available again.
ExpiradoSinReservas ==
  \A c \in Carts : carts[c].estado = "expirado" =>
    \A i \in ItemsDelCarrito(c) : ~Retiene(i)

=============================================================================
