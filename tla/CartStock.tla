----------------------------- MODULE CartStock -----------------------------
(***************************************************************************)
(* Carts, their items and the stock they reserve: the tables carts,        *)
(* cart_items, location_stocks, remitos_internos and orders, and every     *)
(* handler of the backend that writes the first four.  A handler is one    *)
(* atomic action here.                                                     *)
(*                                                                         *)
(* Abstractions.  A SKU stands for a (product_id, variant_id) pair; a SKU  *)
(* outside ConVariante has variant_id NULL, which "variant_id = ?" never   *)
(* matches.  A pair without a location_stocks row is a row with stock 0    *)
(* and reserved 0.  The caller of a request is anyone its permission test  *)
(* lets through.  Prices, order lines, notifications, audit rows and       *)
(* stock_movements are not state of this module.                           *)
(***************************************************************************)
EXTENDS Integers, Sequences, FiniteSets, FiniteSetsExt

CONSTANTS
  Skus,          \* what a cart line and a stock row name
  ConVariante,   \* the SKUs whose variant_id is not NULL
  Locs,          \* values of location_stocks.location
  Clientes,      \* users who own carts
  NumCarts,      \* bound: carts that may be created
  Dueno,         \* the owner of each cart id
  Cantidades,    \* quantities a request may name
  Verificar,     \* values of requires_stock_check a request may send
  Pedidos,       \* bodies of UpdateCartItem requests
  Objetivos,     \* states a PUT /cart/:id/status may name
  ObjetivosOrden,\* states a PUT /orders/:id/status may name
  MaxItems,      \* bound: cart_items rows ever created
  MaxRemitos,    \* bound: remitos ever created
  MaxOrdenes,    \* bound: orders ever created
  MaxCantidad,   \* bound: quantity of one cart line
  MaxStock,      \* bound: stock an administrator sets
  Tope           \* bound: what lines of negative quantity may add to the stock
                 \* of a row, or take from its reserved counter

VARIABLES
  stock,         \* location_stocks.stock
  reserved,      \* location_stocks.reserved
  carts,         \* the carts table
  items,         \* the live rows of cart_items, by id
  nextItem,      \* next id of cart_items
  remitos,       \* remitos_internos, in order of their number
  ordenes        \* orders that name a cart, by id

vars == <<stock, reserved, carts, items, nextItem, remitos, ordenes>>

Deposito == "deposito"
SinLoc == ""

Carts == 1..NumCarts
Pares == Skus \X Locs

Editables == {"pendiente", "edicion", "esperando_vendedora"}

Estados == Editables \cup
  {"listo_para_pago", "pagado", "enviado", "completado", "cancelado",
   "expirado", "finalizado", "creada", "procesando", "pendiente_pago",
   "pendiente_asignacion", "asignada", "finalizada"}

\* At most one element of S: a field a body may leave out.
Opcion(S) == {T \in SUBSET S : \A x, y \in T : x = y}

Cart == [estado : Estados \cup {"no_creado"},
         vence : {"nunca", "corriendo", "vencido"},  \* expires_at
         asignado : BOOLEAN]                          \* vendedor_id # 0
CartItem == [cart : Carts, sku : Skus, qty : Int, loc : Locs \cup {SinLoc},
             resv : Int, chk : BOOLEAN, conf : BOOLEAN]
Linea == [item : Nat, sku : Skus, cant : Nat]
Remito == [estado : {"pendiente", "recibido"}, cart : Carts,
           origen : Locs, lineas : SUBSET Linea]
Orden == [cart : Carts, status : Estados, asignada : BOOLEAN]
\* quantity has no lower limit here: AddToCart alone requires one above zero.
Pedido == [qty : Opcion(Int),                       \* {}: not in the body
           conf : Opcion(BOOLEAN), chk : Opcion(BOOLEAN),
           reservar : Opcion(Locs \cup {SinLoc}),
           rol : {"cliente", "vendedor", "admin"}]

ASSUME CartStockAssumption ==
  /\ ConVariante \subseteq Skus
  /\ Deposito \in Locs /\ SinLoc \notin Locs /\ IsFiniteSet(Locs)
  /\ NumCarts \in Nat /\ MaxItems \in Nat /\ MaxRemitos \in Nat
  /\ MaxOrdenes \in Nat /\ MaxCantidad \in Nat /\ MaxStock \in Nat
  /\ Tope \in Nat
  /\ Dueno \in [Carts -> Clientes]
  /\ Cantidades \subseteq Nat \ {0} /\ Verificar \subseteq BOOLEAN
  /\ Pedidos \subseteq Pedido
  /\ Objetivos \subseteq Estados \ {"listo_para_pago", "pagado"}
  /\ ObjetivosOrden \subseteq Estados

-----------------------------------------------------------------------------
(* Reading and changing one location_stocks row *)

\* Mutant: what other carts hold is not subtracted.
DisponibleFisico(res, p) == stock[p]

Disponible(res, p) == stock[p] - res[p]

Reservar(res, p, n) == [res EXCEPT ![p] = @ + n]

\* Mutant: the release is not clamped.
LiberarSinTope(res, p, n) == [res EXCEPT ![p] = @ - n]

\* A release that the counter does not cover leaves it at zero.
Liberar(res, p, n) == [res EXCEPT ![p] = IF @ >= n THEN @ - n ELSE 0]

\* checkStockAvailability: all locations together.
HayStock(res, s, q) ==
  s \in ConVariante =>
    MapThenSumSet(LAMBDA l : Disponible(res, <<s, l>>), Locs) >= q

-----------------------------------------------------------------------------
(* Reading cart items *)

ItemsDelCarrito(c) == {i \in DOMAIN items : items[i].cart = c}
ItemsDeSku(s) == {i \in DOMAIN items : items[i].sku = s}

\* Mutant of ItemsDe: a line without a location is not found.
ItemsUbicados(c, s) ==
  {i \in ItemsDelCarrito(c) \cap ItemsDeSku(s) : items[i].loc # SinLoc}

ItemsDe(c, s) == ItemsDelCarrito(c) \cap ItemsDeSku(s)

\* gorm's First: the row with the smallest primary key.
EsPrimero(i, S) == i \in S /\ \A j \in S : i <= j

Retiene(i) == items[i].resv > 0 /\ items[i].loc # SinLoc
Ubicacion(i) == <<items[i].sku, items[i].loc>>

\* Mutant: the quantity of the line stands for what it reserved.
RetenidoPorCantidad(S, p) ==
  IF \E i \in S : Retiene(i) /\ Ubicacion(i) = p
    THEN items[CHOOSE i \in S : Retiene(i) /\ Ubicacion(i) = p].qty
    ELSE 0

\* What the items S hold in the row p: at most one of them names that row.
Retenido(S, p) ==
  IF \E i \in S : Retiene(i) /\ Ubicacion(i) = p
    THEN items[CHOOSE i \in S : Retiene(i) /\ Ubicacion(i) = p].resv
    ELSE 0

\* Mutant: the lookup of the row never matches.
NingunoVisible(S) == {}

\* Items whose row "product_id = ? AND variant_id = ?" finds.
Visibles(S) == {i \in S : items[i].sku \in ConVariante}

\* Mutant: the lines go without giving back what they hold.
SinLiberar(S) == reserved

\* Rows that no line of S names are not written.
LiberarTodos(S) ==
  [p \in Pares |-> IF Retenido(Visibles(S), p) = 0 THEN reserved[p]
                   ELSE IF reserved[p] >= Retenido(Visibles(S), p)
                     THEN reserved[p] - Retenido(Visibles(S), p)
                     ELSE 0]

Confirmado(i) == ~items[i].chk \/ items[i].conf

Borrar(S) == [i \in DOMAIN items \ S |-> items[i]]

-----------------------------------------------------------------------------
(* Status maps between carts and orders *)

MapCartStatusToOrderStatus(e) ==
  CASE e = "esperando_vendedora" -> "procesando"
    [] e = "listo_para_pago"     -> "pendiente_pago"
    [] e = "pagado"              -> "pagado"
    [] e = "enviado"             -> "enviado"
    [] e = "completado"          -> "completado"
    [] e = "expirado"            -> "cancelado"
    [] OTHER                     -> "creada"

MapOrderStatusToCartStatus(o) ==
  IF o \in {"pendiente_asignacion", "pendiente"}
    THEN "esperando_vendedora" ELSE o

UpdateRelatedOrderStatus(c, e) ==
  ordenes' = [o \in DOMAIN ordenes |->
                IF ordenes[o].cart = c
                  THEN [ordenes[o] EXCEPT
                          !.status = MapCartStatusToOrderStatus(e)]
                  ELSE ordenes[o]]

OrdenesDe(c) == {o \in DOMAIN ordenes : ordenes[o].cart = c}

-----------------------------------------------------------------------------
(* Initial state: rows seeded by the administrator, no carts *)

CartNoCreado == [estado |-> "no_creado", vence |-> "nunca", asignado |-> FALSE]

Init ==
  /\ stock \in [Pares -> 0..MaxStock]
  /\ reserved = [p \in Pares |-> 0]
  /\ carts = [c \in Carts |-> CartNoCreado]
  /\ items = [i \in {} |-> 0]
  /\ nextItem = 1
  /\ remitos = <<>>
  /\ ordenes = <<>>

Creado(c) == carts[c].estado # "no_creado"

\* Ids of one owner's carts are handed out in order.
PuedeCrearse(c) ==
  /\ ~Creado(c)
  /\ \A d \in Carts : (d < c /\ Dueno[d] = Dueno[c]) => Creado(d)

CarritoNuevo(e) == [CartNoCreado EXCEPT !.estado = e]

\* The lookup of the client's active cart finds none.
SinCarritoActivo(c) ==
  \A d \in Carts :
    Dueno[d] = Dueno[c] => carts[d].estado \notin {"pendiente", "edicion"}

-----------------------------------------------------------------------------
(* GetCart, AddToCart *)

\* Reading the cart creates one when there is none.
GetCart(c) ==
  /\ PuedeCrearse(c) /\ SinCarritoActivo(c)
  /\ carts' = [carts EXCEPT ![c] = CarritoNuevo("pendiente")]
  /\ UNCHANGED <<stock, reserved, items, nextItem, remitos, ordenes>>

\* The cart is editable, or it is created because its owner has no active one.
\* A created cart stays even when the item is refused.
CarritoParaAgregar(c) ==
  \/ /\ carts[c].estado \in Editables
     /\ UNCHANGED carts
  \/ /\ PuedeCrearse(c) /\ SinCarritoActivo(c)
     /\ carts' = [carts EXCEPT ![c] = CarritoNuevo("edicion")]

\* The line exists: reserve the increment only when the request names the
\* line's own location.  The row is saved before the stock is looked at to
\* confirm the line, so the increment counts against itself.
SumarAItem(i, q, l, chk) ==
  LET it == items[i]
      reserva == l # SinLoc /\ l = it.loc
      res1 == IF reserva THEN Reservar(reserved, Ubicacion(i), q) ELSE reserved
  IN /\ it.qty + q <= MaxCantidad
     /\ reserva => Disponible(reserved, Ubicacion(i)) >= q
     /\ reserved' = res1
     /\ items' = [items EXCEPT ![i] =
          [it EXCEPT !.qty = @ + q,
                     !.resv = IF reserva THEN @ + q ELSE @,
                     !.chk = @ \/ chk,
                     !.conf = IF chk /\ ~HayStock(res1, it.sku, it.qty + q)
                                THEN FALSE ELSE TRUE]]
     /\ UNCHANGED nextItem

NuevoItem(c, s, q, l, chk) ==
  /\ nextItem <= MaxItems
  /\ q <= MaxCantidad
  /\ l # SinLoc => Disponible(reserved, <<s, l>>) >= q
  /\ reserved' = IF l # SinLoc THEN Reservar(reserved, <<s, l>>, q)
                               ELSE reserved
  /\ items' = [i \in DOMAIN items \cup {nextItem} |->
       IF i = nextItem
         THEN [cart |-> c, sku |-> s, qty |-> q, loc |-> l,
               resv |-> IF l # SinLoc THEN q ELSE 0,
               chk |-> chk, conf |-> ~chk]
         ELSE items[i]]
  /\ nextItem' = nextItem + 1

AltaRechazada(s, q, l) ==
  /\ l # SinLoc /\ Disponible(reserved, <<s, l>>) < q
  /\ UNCHANGED <<reserved, items, nextItem>>

AddToCart(c, s, q, l, chk) ==
  /\ CarritoParaAgregar(c)
  /\ \/ \E i \in ItemsDe(c, s) :
          EsPrimero(i, ItemsDe(c, s)) /\ SumarAItem(i, q, l, chk)
     \/ ItemsDe(c, s) = {} /\ NuevoItem(c, s, q, l, chk)
     \/ ItemsDe(c, s) = {} /\ AltaRechazada(s, q, l)
  /\ UNCHANGED <<stock, remitos, ordenes>>

-----------------------------------------------------------------------------
(* RemoveFromCart, ClearCart *)

\* The line is searched by SKU among all carts; only then is the cart compared.
RemoveFromCart(c, s) ==
  /\ carts[c].estado \in Editables \cup {"listo_para_pago"}
  /\ \E i \in ItemsDe(c, s) :
       /\ EsPrimero(i, ItemsDeSku(s))
       /\ reserved' = LiberarTodos({i})
       /\ items' = Borrar({i})
  /\ UNCHANGED <<stock, carts, nextItem, remitos, ordenes>>

\* The user's first cart, whatever its state.
ClearCart(c) ==
  /\ Creado(c)
  /\ \A d \in Carts : (Dueno[d] = Dueno[c] /\ Creado(d)) => c <= d
  /\ reserved' = LiberarTodos(ItemsDelCarrito(c))
  /\ items' = Borrar(ItemsDelCarrito(c))
  /\ UNCHANGED <<stock, carts, nextItem, remitos, ordenes>>

-----------------------------------------------------------------------------
(* UpdateCartItem: the row is saved in each phase, the item only at the end, *)
(* so a request refused late keeps what it did to the counters.              *)

\* The quantity the line is to have.
Pedida(it, r) == IF r.qty = {} THEN it.qty ELSE CHOOSE q \in r.qty : TRUE

Aumenta(it, q) == q > it.qty /\ it.loc # SinLoc
Reduce(it, q) == q < it.qty /\ it.resv > 0 /\ it.loc # SinLoc

\* Mutant: the increment is reserved without looking at the row.
CantidadSinControl(it, q) == FALSE

CantidadRechazada(it, q) ==
  Aumenta(it, q) /\ Disponible(reserved, <<it.sku, it.loc>>) < q - it.qty

ReservaTrasCantidad(it, q) ==
  IF Aumenta(it, q) THEN Reservar(reserved, <<it.sku, it.loc>>, q - it.qty)
  ELSE IF Reduce(it, q) THEN Liberar(reserved, <<it.sku, it.loc>>, it.qty - q)
  ELSE reserved

ItemTrasCantidad(it, q) ==
  [it EXCEPT !.qty = q,
             !.resv = IF Aumenta(it, q) THEN @ + (q - it.qty)
                      ELSE IF ~Reduce(it, q) THEN @
                      ELSE IF @ >= it.qty - q THEN @ - (it.qty - q) ELSE 0]

\* Leaving another location gives its reservation back first.
ReservaTrasMudanza(res, it, l) ==
  IF it.resv > 0 /\ it.loc # SinLoc /\ it.loc # l
    THEN Liberar(res, <<it.sku, it.loc>>, it.resv) ELSE res

\* stock_confirmed and requires_stock_check of the body.
ConBanderas(it, r) ==
  [it EXCEPT !.conf = IF r.chk = {FALSE} THEN FALSE
                      ELSE IF r.conf = {} THEN @ ELSE r.conf = {TRUE},
             !.chk = IF r.chk = {} THEN @ ELSE r.chk = {TRUE}]

\* A reservation is only looked at for a client who also sends
\* requires_stock_check.
PideReserva(r) == r.rol = "cliente" /\ r.chk # {} /\ r.reservar # {}

UpdateCartItem(c, s, r) ==
  /\ carts[c].estado \in Editables
  /\ s \in ConVariante
  /\ \E i \in ItemsDe(c, s) :
       LET q == Pedida(items[i], r)
           it1 == ItemTrasCantidad(items[i], q)
           res1 == ReservaTrasCantidad(items[i], q)
       IN /\ EsPrimero(i, ItemsDe(c, s))
          /\ ~CantidadRechazada(items[i], q)
          /\ \/ /\ r.conf # {} /\ r.rol = "cliente"
                /\ reserved' = res1
                /\ UNCHANGED items
             \/ /\ r.conf = {} \/ r.rol # "cliente"
                /\ ~PideReserva(r)
                /\ reserved' = res1
                /\ items' = [items EXCEPT ![i] = ConBanderas(it1, r)]
             \/ /\ r.conf = {} /\ PideReserva(r) /\ SinLoc \in r.reservar
                /\ reserved' = res1
                /\ UNCHANGED items
             \/ /\ r.conf = {} /\ PideReserva(r)
                /\ \E l \in r.reservar \ {SinLoc} :
                     LET res2 == ReservaTrasMudanza(res1, it1, l) IN
                     \/ /\ Disponible(res2, <<s, l>>) < it1.qty
                        /\ reserved' = res2
                        /\ UNCHANGED items
                     \/ /\ Disponible(res2, <<s, l>>) >= it1.qty
                        /\ res2[<<s, l>>] + it1.qty >= -Tope
                        /\ reserved' = Reservar(res2, <<s, l>>, it1.qty)
                        /\ items' = [items EXCEPT ![i] =
                             ConBanderas([it1 EXCEPT !.loc = l,
                                                     !.resv = it1.qty], r)]
  /\ UNCHANGED <<stock, carts, nextItem, remitos, ordenes>>

-----------------------------------------------------------------------------
(* UpdateCartStatus.  No branch looks at the present state of the cart. *)

SinReserva(c) == {i \in ItemsDelCarrito(c) : ~Retiene(i)}
ConReserva(c) == {i \in ItemsDelCarrito(c) : Retiene(i)}

\* Mutant of Asignaciones: the query ignores the quantities.
AsignacionesLibres(c) == [SinReserva(c) -> Locs]

\* The rows where the unreserved items find their whole quantity free.
Asignaciones(c) ==
  {f \in [SinReserva(c) -> Locs] :
     \A i \in SinReserva(c) :
       Disponible(reserved, <<items[i].sku, f[i]>>) >= items[i].qty}

\* Quantity the unreserved items take from the row p under the choice f.
Tomado(c, f, p) ==
  IF \E i \in SinReserva(c) : <<items[i].sku, f[i]>> = p
    THEN items[CHOOSE i \in SinReserva(c) : <<items[i].sku, f[i]>> = p].qty
    ELSE 0

\* Mutant of Origenes: the deposit is one of them.
OrigenesConDeposito(c, its) ==
  {its[i].loc : i \in {j \in ItemsDelCarrito(c) :
                         its[j].resv > 0 /\ its[j].loc # SinLoc}}

Origenes(c, its) ==
  {its[i].loc : i \in {j \in ItemsDelCarrito(c) :
                         its[j].resv > 0 /\ its[j].loc # SinLoc}} \ {Deposito}

\* One remito per origin, all with the number count + 1: a second one breaks
\* the unique index and the transaction with it.
GenerarRemitosInternos(c, its) ==
  /\ Cardinality(Origenes(c, its)) <= 1
  /\ IF Origenes(c, its) = {} THEN UNCHANGED remitos
     ELSE /\ Len(remitos) < MaxRemitos
          /\ \E o \in Origenes(c, its) :
               remitos' = Append(remitos,
                 [estado |-> "pendiente", cart |-> c, origen |-> o,
                  lineas |-> {[item |-> i, sku |-> its[i].sku,
                               cant |-> its[i].resv] :
                              i \in {j \in ItemsDelCarrito(c) :
                                       its[j].resv > 0 /\ its[j].loc = o}}])

ListoParaPago(c) ==
  /\ Creado(c)
  /\ \A i \in ConReserva(c) :
       /\ reserved[Ubicacion(i)] >= items[i].resv
       /\ Disponible(reserved, Ubicacion(i)) >= 0
  /\ \E f \in Asignaciones(c) :
       LET its == [i \in DOMAIN items |->
                     IF i \in SinReserva(c)
                       THEN [items[i] EXCEPT !.loc = f[i],
                                            !.resv = items[i].qty]
                       ELSE items[i]]
       IN /\ reserved' = [p \in Pares |-> reserved[p] + Tomado(c, f, p)]
          /\ \A p \in Pares : reserved'[p] >= -Tope
          /\ items' = its
          /\ GenerarRemitosInternos(c, its)
  /\ carts' = [carts EXCEPT ![c].estado = "listo_para_pago",
                            ![c].vence = "corriendo"]
  /\ UpdateRelatedOrderStatus(c, "listo_para_pago")
  /\ UNCHANGED <<stock, nextItem>>

Pagado(c) ==
  /\ Creado(c)
  /\ \A i \in ConReserva(c) :
       /\ reserved[Ubicacion(i)] >= items[i].resv
       /\ stock[Ubicacion(i)] >= items[i].resv
  /\ \E f \in Asignaciones(c) :
       stock' = [p \in Pares |->
                   stock[p] - Retenido(ConReserva(c), p) - Tomado(c, f, p)]
  /\ \A p \in Pares : stock'[p] <= stock[p] \/ stock'[p] <= Tope
  /\ reserved' = [p \in Pares |-> reserved[p] - Retenido(ConReserva(c), p)]
  /\ items' = [i \in DOMAIN items |->
                 IF i \in ConReserva(c) THEN [items[i] EXCEPT !.resv = 0]
                                        ELSE items[i]]
  /\ carts' = [carts EXCEPT ![c].estado = "pagado"]
  /\ UpdateRelatedOrderStatus(c, "pagado")
  /\ UNCHANGED <<nextItem, remitos>>

OtroEstado(c, e) ==
  /\ Creado(c)
  /\ carts' = [carts EXCEPT ![c].estado = e]
  /\ UpdateRelatedOrderStatus(c, e)
  /\ UNCHANGED <<stock, reserved, items, nextItem, remitos>>

-----------------------------------------------------------------------------
(* The expiration job *)

\* expires_at passes.
VenceReserva(c) ==
  /\ carts[c].vence = "corriendo"
  /\ carts' = [carts EXCEPT ![c].vence = "vencido"]
  /\ UNCHANGED <<stock, reserved, items, nextItem, remitos, ordenes>>

\* Items without a visible row are skipped.
ItemsTrasExpirar(c) ==
  LET libera == {i \in Visibles(ItemsDelCarrito(c)) : Retiene(i)}
  IN [i \in DOMAIN items |->
        IF i \in libera THEN [items[i] EXCEPT !.resv = 0, !.loc = SinLoc]
                        ELSE items[i]]

\* Mutant: the stock is released and the cart not marked.
ExpiraSinMarcar(c) ==
  /\ carts[c].estado = "listo_para_pago" /\ carts[c].vence = "vencido"
  /\ reserved' = LiberarTodos(ItemsDelCarrito(c))
  /\ items' = ItemsTrasExpirar(c)
  /\ UNCHANGED <<stock, carts, nextItem, remitos, ordenes>>

\* The order is not told.
ExpireCartReservations(c) ==
  /\ carts[c].estado = "listo_para_pago" /\ carts[c].vence = "vencido"
  /\ reserved' = LiberarTodos(ItemsDelCarrito(c))
  /\ items' = ItemsTrasExpirar(c)
  /\ carts' = [carts EXCEPT ![c].estado = "expirado"]
  /\ UNCHANGED <<stock, nextItem, remitos, ordenes>>

-----------------------------------------------------------------------------
(* Internal remitos *)

Cantidad(L, s) ==
  IF \E ln \in L : ln.sku = s THEN (CHOOSE ln \in L : ln.sku = s).cant ELSE 0

\* Mutant: the origin keeps what it sent.
TrasladoSinSalida(L, o, p) == IF p[2] = Deposito THEN Cantidad(L, p[1]) ELSE 0

\* What the lines L add to the row p when they move from o to the deposit.
Traslado(L, o, p) ==
  IF p[2] = o THEN -Cantidad(L, p[1])
  ELSE IF p[2] = Deposito THEN Cantidad(L, p[1]) ELSE 0

\* Only the reserved counter of the origin is tested, and the cart never.
ConfirmarRecepcionRemito(r) ==
  LET L == remitos[r].lineas
      o == remitos[r].origen
  IN /\ remitos[r].estado = "pendiente"
     /\ \A ln \in L : ln.sku \in ConVariante /\ reserved[ln.sku, o] >= ln.cant
     /\ stock' = [p \in Pares |-> stock[p] + Traslado(L, o, p)]
     /\ reserved' = [p \in Pares |-> reserved[p] + Traslado(L, o, p)]
     /\ items' = [i \in DOMAIN items |->
                    IF \E ln \in L : ln.item = i
                      THEN [items[i] EXCEPT !.loc = Deposito] ELSE items[i]]
     /\ remitos' = [remitos EXCEPT ![r].estado = "recibido"]
     /\ UNCHANGED <<carts, nextItem, ordenes>>

-----------------------------------------------------------------------------
(* Orders: request for a seller, assignment, status, checkout *)

\* A seller is active and the round robin assigns her, or none is.
SubmitCartForAssignment(c) ==
  /\ Creado(c)
  /\ \E i \in ItemsDelCarrito(c) : Confirmado(i)
  /\ Len(ordenes) < MaxOrdenes
  /\ \/ /\ ordenes' = Append(ordenes, [cart |-> c, status |-> "asignada",
                                       asignada |-> TRUE])
        /\ \E d \in Carts :
             /\ PuedeCrearse(d) /\ Dueno[d] = Dueno[c]
             /\ carts' = [carts EXCEPT ![c].estado = "esperando_vendedora",
                                       ![c].asignado = TRUE,
                                       ![d] = CarritoNuevo("pendiente")]
     \/ /\ ordenes' = Append(ordenes,
             [cart |-> c, status |-> "pendiente_asignacion",
              asignada |-> FALSE])
        /\ carts' = [carts EXCEPT ![c].estado = "esperando_vendedora"]
  /\ UNCHANGED <<stock, reserved, items, nextItem, remitos>>

\* The cart is not the order's: it is the client's first one that waits.
AsignarOrden(o) ==
  LET enEspera == {c \in Carts : /\ Dueno[c] = Dueno[ordenes[o].cart]
                                 /\ carts[c].estado = "esperando_vendedora"}
  IN /\ ordenes' = [ordenes EXCEPT ![o].status = "asignada",
                                   ![o].asignada = TRUE]
     /\ \/ enEspera = {} /\ UNCHANGED carts
        \/ \E c \in enEspera : /\ EsPrimero(c, enEspera)
                               /\ carts' = [carts EXCEPT ![c].asignado = TRUE]
     /\ UNCHANGED <<stock, reserved, items, nextItem, remitos>>

AssignOrderSelf(o) ==
  /\ ~ordenes[o].asignada /\ ordenes[o].status = "pendiente_asignacion"
  /\ AsignarOrden(o)

AssignOrderAdmin(o) == AsignarOrden(o)

\* "pagado" takes no stock here, unlike UpdateCartStatus.
UpdateOrderStatus(o, e) ==
  /\ ordenes' = [ordenes EXCEPT ![o].status = e]
  /\ carts' = [carts EXCEPT ![ordenes[o].cart].estado =
                 MapOrderStatusToCartStatus(e)]
  /\ UNCHANGED <<stock, reserved, items, nextItem, remitos>>

\* Every confirmed item is served from the deposit or marked pending; the cart
\* closes when at least one was served.  reserved is neither read nor written.
CheckoutCart(c) ==
  LET confirmados == {i \in ItemsDelCarrito(c) : Confirmado(i)}
      conStock == {i \in Visibles(confirmados) :
                     stock[items[i].sku, Deposito] >= items[i].qty}
      vendido(s) ==
        IF \E i \in conStock : items[i].sku = s
          THEN items[CHOOSE i \in conStock : items[i].sku = s].qty ELSE 0
  IN /\ carts[c].asignado
     /\ confirmados # {}
     /\ stock' = [p \in Pares |-> IF p[2] = Deposito
                                    THEN stock[p] - vendido(p[1]) ELSE stock[p]]
     /\ \A p \in Pares : stock'[p] <= stock[p] \/ stock'[p] <= Tope
     /\ \/ /\ conStock = {}
           /\ items' = [i \in DOMAIN items |->
                IF i \in confirmados
                  THEN [items[i] EXCEPT !.chk = TRUE, !.conf = FALSE,
                                        !.loc = SinLoc]
                  ELSE items[i]]
           /\ UNCHANGED <<carts, ordenes>>
        \/ /\ conStock # {}
           /\ items' = Borrar(ItemsDelCarrito(c))
           /\ carts' = [carts EXCEPT ![c].estado = "finalizado"]
           /\ \/ \E o \in OrdenesDe(c) :
                   /\ EsPrimero(o, OrdenesDe(c))
                   /\ ordenes' = [ordenes EXCEPT ![o].status = "finalizada"]
              \/ /\ OrdenesDe(c) = {} /\ Len(ordenes) < MaxOrdenes
                 /\ ordenes' = Append(ordenes,
                      [cart |-> c, status |-> "finalizada", asignada |-> TRUE])
     /\ UNCHANGED <<reserved, nextItem, remitos>>

-----------------------------------------------------------------------------
(* Stock administration.  The validator's "required" refuses the value 0. *)

SetVariantStock(s, l, n) ==
  /\ s \in ConVariante
  /\ n >= reserved[s, l]
  /\ stock' = [stock EXCEPT ![<<s, l>>] = n]
  /\ UNCHANGED <<reserved, carts, items, nextItem, remitos, ordenes>>

AddProductStocks(s, l, n) ==
  /\ n >= reserved[s, l]
  /\ stock' = [stock EXCEPT ![<<s, l>>] = n]
  /\ UNCHANGED <<reserved, carts, items, nextItem, remitos, ordenes>>

-----------------------------------------------------------------------------
PasoCarrito ==
  \E c \in Carts :
    \/ \E s \in Skus, q \in Cantidades, l \in Locs \cup {SinLoc},
          chk \in Verificar : AddToCart(c, s, q, l, chk)
    \/ \E s \in Skus : RemoveFromCart(c, s)
    \/ \E s \in Skus, r \in Pedidos : UpdateCartItem(c, s, r)
    \/ GetCart(c)
    \/ ClearCart(c)
    \/ ListoParaPago(c)
    \/ Pagado(c)
    \/ \E e \in Objetivos : OtroEstado(c, e)

PasoReserva ==
  \/ \E c \in Carts : VenceReserva(c) \/ ExpireCartReservations(c)
  \/ \E r \in DOMAIN remitos : ConfirmarRecepcionRemito(r)

PasoOrden ==
  \/ \E c \in Carts : SubmitCartForAssignment(c) \/ CheckoutCart(c)
  \/ \E o \in DOMAIN ordenes :
       \/ AssignOrderSelf(o)
       \/ AssignOrderAdmin(o)
       \/ \E e \in ObjetivosOrden : UpdateOrderStatus(o, e)

PasoAdmin ==
  \E s \in Skus, l \in Locs, n \in 1..MaxStock :
    SetVariantStock(s, l, n) \/ AddProductStocks(s, l, n)

Next == PasoCarrito \/ PasoReserva \/ PasoOrden \/ PasoAdmin

Spec == Init /\ [][Next]_vars

\* The job runs at a fixed interval for as long as the server does.
FairSpec == Spec /\ \A c \in Carts : WF_vars(ExpireCartReservations(c))

-----------------------------------------------------------------------------
(* Properties *)

\* Every row has the type of its table.
TypeOK ==
  /\ stock \in [Pares -> Int] /\ reserved \in [Pares -> Int]
  /\ carts \in [Carts -> Cart]
  /\ nextItem \in Nat \ {0}
  /\ DOMAIN items \subseteq 1..(nextItem - 1)
  /\ \A i \in DOMAIN items : items[i] \in CartItem
  /\ remitos \in Seq(Remito) /\ ordenes \in Seq(Orden)

\* A request never splits a line in two: the handlers look a line up by SKU, and
\* the loops over a cart change each stock row once.
UnItemPorSku ==
  \A i, j \in DOMAIN items :
    (items[i].cart = items[j].cart /\ items[i].sku = items[j].sku) => i = j

\* Remitos leave from a location other than the deposit.
OrigenesValidos ==
  \A r \in DOMAIN remitos : remitos[r].origen # Deposito

\* The inductive invariant: what the steps need of each other.
IInv == TypeOK /\ OrigenesValidos /\ UnItemPorSku

\* The lines that name the row p.
EnFila(its, p) == {i \in DOMAIN its : <<its[i].sku, its[i].loc>> = p}

\* Neither counter is negative, and away from the deposit what is reserved is
\* there, so that a remito can be served from its origin.
Sana(p) ==
  /\ stock[p] >= 0 /\ reserved[p] >= 0
  /\ p[2] # Deposito => reserved[p] <= stock[p]

\* The step makes or repeats, in the row p, the reservation of a line whose
\* quantity is below zero.
ReservaNegativa(p) ==
  /\ \E c \in Carts :
       \/ ListoParaPago(c)
       \/ \E s \in Skus, r \in Pedidos : PideReserva(r) /\ UpdateCartItem(c, s, r)
  /\ \E i \in EnFila(items', p) : items'[i].resv < 0

\* Payments, checkouts, receptions of remitos that arrive after their lines
\* changed, releases of more than a row still holds and the leftovers of refused
\* requests leave every row sound: no counter falls below zero and no location
\* but the deposit promises what it has not.  What breaks a row is the
\* reservation of a negative quantity, which UpdateCartItem accepts.
FilasSanas ==
  [][\A p \in Pares : Sana(p) => Sana(p)' \/ ReservaNegativa(p)]_vars

\* A row that covers its reservations stops doing so only in CheckoutCart,
\* which does not read the counter: every other handler, transfers and
\* administrator corrections included, keeps reserved <= stock.
SoloCheckoutSobrevende ==
  [][\A p \in Pares :
       (0 <= stock[p] /\ reserved[p] <= stock[p] /\ reserved'[p] > stock'[p])
          => \E c \in Carts : CheckoutCart(c)]_vars

\* The sum of a function to Int: its units above zero less those below.
Unidades(f) == UNION {{x} \X (1..f[x]) : x \in DOMAIN f}
Suma(f) == Cardinality(Unidades(f))
             - Cardinality(Unidades([x \in DOMAIN f |-> -f[x]]))

\* What the live lines say they hold in the row p, and what its counter has
\* beyond that: units nobody will give back, or that are promised twice.
EnItems(its, p) == Suma([i \in EnFila(its, p) |-> its[i].resv])
Brecha(res, its, p) == res[p] - EnItems(its, p)

\* The line stops naming its row: it is deleted or its location changes.
Deja(i) == i \in DOMAIN items' => items'[i].loc # items[i].loc

\* What it held is not given back, or not all of it: the query never finds a
\* NULL variant, a negative reservation is skipped, the counter has less, or the
\* handler is the checkout, which gives nothing back.
QuedaSinDevolver(i) ==
  \/ items[i].resv < 0
  \/ reserved[Ubicacion(i)] < items[i].resv
  \/ /\ items[i].resv # 0
     /\ items[i].sku \notin ConVariante \/ \E c \in Carts : CheckoutCart(c)

\* The quantity falls by more than the line, or the row, has reserved.
ReduceDeMas(i, q) ==
  /\ Reduce(items[i], q)
  /\ \/ items[i].resv < items[i].qty - q
     \/ reserved[Ubicacion(i)] < items[i].qty - q

\* A line that holds a reservation is reserved again in the same row.
ReservaDeNuevo(i, r) ==
  /\ PideReserva(r) /\ items[i].loc \in r.reservar
  /\ ItemTrasCantidad(items[i], Pedida(items[i], r)).resv # 0

\* The reception moves units for a line that no longer holds them at the origin.
RecepcionTardia(p) ==
  \E r \in DOMAIN remitos :
    /\ ConfirmarRecepcionRemito(r)
    /\ \E ln \in remitos[r].lineas :
         /\ ln.sku = p[1]
         /\ ln.item \in DOMAIN items =>
              \/ items[ln.item].resv # ln.cant
              \/ items[ln.item].loc # remitos[r].origen

\* The steps that may move the counter of p apart from its lines.
Descuadra(p) ==
  \/ RecepcionTardia(p)
  \/ \E i \in EnFila(items, p) :
       \/ Deja(i) /\ QuedaSinDevolver(i)
       \/ items[i].resv < 0 /\ ListoParaPago(items[i].cart)
       \/ \E r \in Pedidos :
            /\ UpdateCartItem(items[i].cart, items[i].sku, r)
            /\ \/ UNCHANGED items                        \* refused late
               \/ ReduceDeMas(i, Pedida(items[i], r))
               \/ ReservaDeNuevo(i, r)

\* What a row's counter has beyond what its lines hold changes in no step but
\* these: the reception of a remito whose line changed since, a line that leaves
\* the row without giving back what it held (in a checkout, without a variant,
\* more than the row has, or negative), a negative line readied again, and the
\* request on a line that is refused after its row was saved, lowers it by more
\* than is reserved, or reserves it twice.  In every other request, payment,
\* expiration, transfer and correction the counter follows the lines.
LibroDeReservas ==
  [][\A p \in Pares :
       Brecha(reserved', items', p) = Brecha(reserved, items, p)
         \/ Descuadra(p)]_vars

EnTotal(st, s) == Suma([l \in Locs |-> st[<<s, l>>]])

\* Units of a SKU appear or vanish only in a sale or an administrator's
\* correction; reservations, expiration and transfers move none.
SoloVentaOAjusteCambiaExistencias ==
  [][\A s \in Skus : EnTotal(stock', s) # EnTotal(stock, s) =>
       \/ \E c \in Carts : Pagado(c) \/ CheckoutCart(c)
       \/ PasoAdmin]_vars

\* A reservation whose time is over is given back, or the cart was readied
\* again or left that state by another hand.
VencidaSeLibera ==
  \A c \in Carts :
    (carts[c].estado = "listo_para_pago" /\ carts[c].vence = "vencido")
      ~> \/ carts[c].estado # "listo_para_pago"
         \/ carts[c].vence = "corriendo"

=============================================================================
