----------------------------- MODULE CartPricing -----------------------------
(***************************************************************************)
(* A line of a cart and the line of its order, whose price is computed     *)
(* from the levels and from the stored prices of PriceAdmin.               *)
(*                                                                         *)
(* The line is the only one of its cart, so its quantity is the total that *)
(* decides the level.  Stock is abstracted to whether it is there.         *)
(***************************************************************************)
EXTENDS PriceAdmin

CONSTANTS
  MaxPrendas \* bound: quantity of the line

ASSUME MaxPrendasAssumption == MaxPrendas \in Nat

VARIABLES
  conVariante, \* the line has a variant_id
  linea,       \* the line of the cart
  orden,       \* the order of the cart, and its line
  abierto      \* the cart can still be changed

carrito == <<conVariante, linea, orden, abierto>>
vars == <<precios, panel, carrito>>

SinLinea == [cant |-> 0, chk |-> FALSE, conf |-> FALSE]
SinItem == [cant |-> 0, precio |-> 0, base |-> 0]

IniciaCarrito ==
  /\ conVariante \in BOOLEAN
  /\ linea = SinLinea
  /\ orden = [hay |-> FALSE, item |-> SinItem]
  /\ abierto = TRUE

Init == IniciaPanel /\ IniciaCarrito

Mostrados(q) == PreciosMostrados(niveles, guardados, costo, q)
Cobrados(q) == PreciosCobrados(niveles, cfg, costo, q)

\* Mutant: no line of the order is ever found.
NingunItem == SinItem

\* The order line that the synchronisation finds for the cart line: it looks it up
\* by a key with the address of variant_id in it, which never matches.
ItemAnterior == IF conVariante THEN SinItem ELSE orden.item

\* syncCartItemsToOrder: the price is frozen when the cost has changed since, and is
\* the one of the cart otherwise.  An error is logged and the order stays as it was.
SincronizaCon(q) ==
  \/ UNCHANGED orden
  \/ /\ orden.hay
     /\ IF q = 0 THEN orden' = [orden EXCEPT !.item = SinItem]
        ELSE IF ItemAnterior # SinItem /\ ItemAnterior.base # costo
        THEN orden' = [orden EXCEPT !.item = [ItemAnterior EXCEPT !.cant = q]]
        ELSE \E p \in Mostrados(q) :
               orden' = [orden EXCEPT !.item = [cant |-> q, precio |-> p, base |-> costo]]

CambiaLinea(l) ==
  /\ abierto
  /\ linea' = l
  /\ SincronizaCon(l.cant)
  /\ UNCHANGED <<precios, panel, conVariante, abierto>>

\* A line is added, or added to; whether there is stock is asked when it has to be
\* checked and the line is there.
AddToCart(n, chk) ==
  /\ linea.cant + n <= MaxPrendas
  /\ \E hayStock \in BOOLEAN :
       CambiaLinea([cant |-> linea.cant + n, chk |-> linea.chk \/ chk,
                    conf |-> IF chk THEN linea.cant > 0 /\ hayStock ELSE TRUE])

\* The query for the line never finds one without a variant.
UpdateCartItem(n, conf, chk) ==
  /\ linea.cant > 0 /\ conVariante
  /\ CambiaLinea([cant |-> n, chk |-> IF chk = {} THEN linea.chk ELSE chk = {TRUE},
                  conf |-> IF chk = {FALSE} THEN FALSE
                           ELSE IF conf = {} THEN linea.conf ELSE conf = {TRUE}])

RemoveFromCart ==
  /\ linea.cant > 0
  /\ CambiaLinea(SinLinea)

\* The order is not told.
ClearCart ==
  /\ abierto /\ linea.cant > 0
  /\ linea' = SinLinea
  /\ UNCHANGED <<precios, panel, conVariante, orden, abierto>>

\* The lines that an order takes.
Confirmada == linea.cant > 0 /\ (linea.chk => linea.conf)

ItemCobrado(p) == [cant |-> linea.cant, precio |-> p, base |-> 0]

\* The price is put in the order; its line keeps no cost.  A second order of the same
\* cart is left out.
SubmitCartForAssignment ==
  /\ abierto /\ Confirmada /\ ~orden.hay
  /\ \E p \in Cobrados(linea.cant) : orden' = [hay |-> TRUE, item |-> ItemCobrado(p)]
  /\ UNCHANGED <<precios, panel, conVariante, linea, abierto>>

\* The lines of the order are replaced and the cart is done; without stock the line
\* has to be checked again.
CheckoutCart ==
  /\ abierto /\ Confirmada
  /\ \/ /\ \E p \in Cobrados(linea.cant) : orden' = [hay |-> TRUE, item |-> ItemCobrado(p)]
        /\ linea' = SinLinea
        /\ abierto' = FALSE
     \/ /\ linea' = [linea EXCEPT !.chk = TRUE, !.conf = FALSE]
        /\ UNCHANGED <<orden, abierto>>
  /\ UNCHANGED <<precios, panel, conVariante>>

Opcion == {{}, {TRUE}, {FALSE}}

PasoDelCarrito ==
  \/ \E n \in 1..MaxPrendas, chk \in BOOLEAN : AddToCart(n, chk)
  \/ \E n \in 1..MaxPrendas, conf, chk \in Opcion : UpdateCartItem(n, conf, chk)
  \/ RemoveFromCart \/ ClearCart
  \/ SubmitCartForAssignment \/ CheckoutCart

Next == (PasoDelPanel /\ UNCHANGED carrito) \/ PasoDelCarrito

Spec == Init /\ [][Next]_vars

-----------------------------------------------------------------------------
(* Properties                                                                *)

Cantidades == 0..MaxPrendas

Linea == [cant : Cantidades, chk : BOOLEAN, conf : BOOLEAN]
Item == [cant : Cantidades, precio : Nat, base : Costos \cup {0}]

TypeOK ==
  /\ EsTabla(niveles)
  /\ cfg \in Configs /\ costo \in Costos
  /\ guardados \in [Estandar -> Nat]
  /\ adm = [a \in Admins |-> adm[a]]
  /\ \A a \in Admins :
       IF Lee(adm[a]) THEN EsTabla(adm[a].tiers) /\ adm[a] \in Recalculo(adm[a].tiers)
       ELSE adm[a] \in Peticion
  /\ cambios \in 0..MaxCambios /\ solape \in BOOLEAN /\ alDia \in BOOLEAN
  /\ conVariante \in BOOLEAN /\ abierto \in BOOLEAN
  /\ linea \in Linea
  /\ orden \in [hay : BOOLEAN, item : Item]

PreciosAnunciados == \A q \in Cantidades : PrecioAnunciado(q)
PantallasComoServidor == \A q \in Cantidades : PantallaComoServidor(q)

\* A line without a variant whose recorded cost is not that of the product keeps its
\* price through every change of the levels, of the stored prices and of the cart,
\* until it is removed, the cost is back or the cart is checked out.
SinVarianteCongela ==
  [][\/ conVariante \/ ~abierto' \/ orden.item = SinItem \/ orden'.item = SinItem
     \/ orden.item.base = costo
     \/ orden'.item.precio = orden.item.precio]_vars

\* cart/handler.go, syncCartItemsToOrder: "YES price change: freeze old price".  A line
\* of an order that was priced at one cost keeps its price while the cost is another.
PrecioCongelado ==
  [][(/\ abierto' /\ orden.item.base \notin {0, costo} /\ orden'.item # SinItem)
     => orden'.item.precio = orden.item.precio]_vars

=============================================================================
