-------------------------- MODULE CartStock_proofs --------------------------
(***************************************************************************)
(* Proofs about CartStock, for every set of SKUs, locations, clients and   *)
(* requests and every value of the bounds.                                 *)
(***************************************************************************)
EXTENDS CartStock, SequenceTheorems, FiniteSetTheorems, TLAPS

(***************************************************************************)
(* Vocabulary of the proofs.                                               *)
(***************************************************************************)

\* A step gives a row no reservation it cannot cover.
Respalda ==
  \A p \in Pares :
    (0 <= stock[p] /\ reserved[p] <= stock[p]) => reserved'[p] <= stock'[p]

\* A step leaves a sound row sound, unless it reserves a negative quantity there.
Cuidada == \A p \in Pares : Sana(p) => Sana(p)' \/ ReservaNegativa(p)

\* What a step must leave in the two counters.
BuenasCuentas ==
  /\ stock' \in [Pares -> Int] /\ reserved' \in [Pares -> Int]
  /\ Respalda /\ Cuidada

\* The counters res, made from reserved while stock stays, break no row.
Cubre(res) ==
  /\ res \in [Pares -> Int]
  /\ \A p \in Pares :
       /\ (0 <= stock[p] /\ reserved[p] <= stock[p]) => res[p] <= stock[p]
       /\ reserved[p] >= 0 => res[p] >= 0

\* A step adds no line and moves none to another cart or SKU.
MismasLineas ==
  /\ DOMAIN items' \subseteq DOMAIN items
  /\ \A i \in DOMAIN items' : /\ items'[i] \in CartItem
                              /\ items'[i].cart = items[i].cart
                              /\ items'[i].sku = items[i].sku

\* The request r on the line i of the cart c, whose quantity is to be q: refused
\* late, written without a reservation, or reserved in a location.
EditaLinea(c, s, r, i, q) ==
  LET it1 == ItemTrasCantidad(items[i], q)
      res1 == ReservaTrasCantidad(items[i], q)
  IN /\ items[i].cart = c /\ items[i].sku = s
     /\ q = Pedida(items[i], r) /\ ~CantidadRechazada(items[i], q)
     /\ \/ /\ UNCHANGED items
           /\ \/ reserved' = res1
              \/ \E l \in Locs : reserved' = ReservaTrasMudanza(res1, it1, l)
        \/ /\ reserved' = res1
           /\ items' = [items EXCEPT ![i] = ConBanderas(it1, r)]
        \/ \E l \in Locs :
             LET res2 == ReservaTrasMudanza(res1, it1, l) IN
             /\ PideReserva(r) /\ l \in r.reservar
             /\ Disponible(res2, <<s, l>>) >= it1.qty
             /\ reserved' = Reservar(res2, <<s, l>>, it1.qty)
             /\ items' = [items EXCEPT ![i] =
                  ConBanderas([it1 EXCEPT !.loc = l, !.resv = it1.qty], r)]

(***************************************************************************)
(* What the operators on rows and lines return.                            *)
(***************************************************************************)

\* A reservation adds to one row only.
LEMMA ReservarFila ==
  ASSUME NEW res \in [Pares -> Int], NEW p \in Pares, NEW n \in Int
  PROVE  /\ Reservar(res, p, n) \in [Pares -> Int]
         /\ \A q \in Pares : Reservar(res, p, n)[q] =
                               IF q = p THEN res[p] + n ELSE res[q]
BY DEF Reservar

\* The counters as they are break no row.
LEMMA CubreReserved ==
  ASSUME TypeOK
  PROVE  Cubre(reserved)
BY DEF TypeOK, Cubre

\* Nor does a release break one.
LEMMA LiberarCubre ==
  ASSUME TypeOK, NEW res, Cubre(res), NEW p \in Pares, NEW n \in Nat
  PROVE  /\ Cubre(Liberar(res, p, n))
         /\ \A q \in Pares : Liberar(res, p, n)[q] =
              IF q # p THEN res[q] ELSE IF res[p] >= n THEN res[p] - n ELSE 0
<1> DEFINE lib == Liberar(res, p, n)
<1>1. res \in [Pares -> Int] /\ stock \in [Pares -> Int]
  BY DEF TypeOK, Cubre
<1>2. /\ lib \in [Pares -> Int]
      /\ \A q \in Pares : lib[q] =
           IF q # p THEN res[q] ELSE IF res[p] >= n THEN res[p] - n ELSE 0
  BY <1>1 DEF Liberar
<1> HIDE DEF lib
<1>3. Cubre(lib)
  BY <1>1, <1>2 DEF Cubre
<1> QED BY <1>2, <1>3 DEF lib

\* Nor does the reservation of what is free.
LEMMA ReservarCubre ==
  ASSUME TypeOK, NEW res, Cubre(res), NEW p \in Pares, NEW n \in Nat,
         Disponible(res, p) >= n
  PROVE  /\ Cubre(Reservar(res, p, n))
         /\ \A q \in Pares : Reservar(res, p, n)[q] =
                               IF q = p THEN res[p] + n ELSE res[q]
<1> DEFINE mas == Reservar(res, p, n)
<1>1. res \in [Pares -> Int] /\ stock \in [Pares -> Int]
  BY DEF TypeOK, Cubre
<1>2. /\ mas \in [Pares -> Int]
      /\ \A q \in Pares : mas[q] = IF q = p THEN res[p] + n ELSE res[q]
  BY <1>1, ReservarFila
<1>3. n <= stock[p] - res[p]
  BY <1>1 DEF Disponible
<1> HIDE DEF mas
<1>4. Cubre(mas)
  BY <1>1, <1>2, <1>3 DEF Cubre
<1> QED BY <1>2, <1>4 DEF mas

\* A step that leaves such counters, and the stock, leaves good ones.
LEMMA CubreBasta ==
  ASSUME TypeOK, NEW res, Cubre(res), reserved' = res, UNCHANGED stock
  PROVE  BuenasCuentas
<1>1. /\ stock \in [Pares -> Int] /\ reserved \in [Pares -> Int]
      /\ stock' = stock /\ reserved' \in [Pares -> Int]
  BY DEF TypeOK, Cubre
<1>2. Respalda
  BY DEF Cubre, Respalda
<1>3. ASSUME NEW p \in Pares, Sana(p)
      PROVE  Sana(p)'
  <2>1. stock[p] >= 0 /\ reserved[p] >= 0 /\ reserved'[p] >= 0
        /\ (p[2] # Deposito => reserved'[p] <= stock'[p])
    BY <1>3 DEF Sana, Cubre
  <2> QED BY <1>1, <2>1 DEF Sana
<1> QED BY <1>1, <1>2, <1>3 DEF BuenasCuentas, Cuidada

\* What a set of live lines holds in a row is a natural number.
LEMMA RetenidoNat ==
  ASSUME TypeOK, NEW S, S \subseteq DOMAIN items, NEW p
  PROVE  Retenido(S, p) \in Nat
<1>1. CASE \E i \in S : Retiene(i) /\ Ubicacion(i) = p
  <2> DEFINE i == CHOOSE i \in S : Retiene(i) /\ Ubicacion(i) = p
  <2>1. i \in S /\ Retiene(i) /\ Retenido(S, p) = items[i].resv
    BY <1>1 DEF Retenido
  <2> HIDE DEF i
  <2>2. items[i].resv \in Int
    BY <2>1 DEF TypeOK, CartItem
  <2> QED BY <2>1, <2>2 DEF Retiene
<1>2. CASE ~ \E i \in S : Retiene(i) /\ Ubicacion(i) = p
  BY <1>2 DEF Retenido
<1> QED BY <1>1, <1>2

\* Releasing a set of lines breaks no row.
LEMMA LiberarTodosCubre ==
  ASSUME TypeOK, NEW S, S \subseteq DOMAIN items
  PROVE  Cubre(LiberarTodos(S))
<1>1. \A p \in Pares : Retenido(Visibles(S), p) \in Nat
  BY RetenidoNat DEF Visibles
<1>2. reserved \in [Pares -> Int] /\ stock \in [Pares -> Int]
  BY DEF TypeOK
<1> QED BY <1>1, <1>2 DEF LiberarTodos, Cubre

\* What a choice of rows takes from a row is free there.
LEMMA TomadoLibre ==
  ASSUME TypeOK, NEW c, NEW f \in Asignaciones(c), NEW p \in Pares
  PROVE  /\ Tomado(c, f, p) \in Int
         /\ Tomado(c, f, p) # 0 => Tomado(c, f, p) <= stock[p] - reserved[p]
<1>1. CASE \E i \in SinReserva(c) : <<items[i].sku, f[i]>> = p
  <2> DEFINE i == CHOOSE i \in SinReserva(c) : <<items[i].sku, f[i]>> = p
  <2>1. i \in SinReserva(c) /\ <<items[i].sku, f[i]>> = p
    BY <1>1
  <2>2. Disponible(reserved, p) >= items[i].qty
    BY <2>1 DEF Asignaciones
  <2>3. items[i].qty \in Int
    BY <2>1 DEF TypeOK, CartItem, SinReserva, ItemsDelCarrito
  <2>4. Tomado(c, f, p) = items[i].qty
    BY <1>1 DEF Tomado
  <2> HIDE DEF i
  <2> QED BY <2>2, <2>3, <2>4 DEF Disponible, TypeOK
<1>2. CASE ~ \E i \in SinReserva(c) : <<items[i].sku, f[i]>> = p
  BY <1>2 DEF Tomado
<1> QED BY <1>1, <1>2

\* The lines of a remito name natural quantities.
LEMMA CantidadNat ==
  ASSUME NEW L, L \subseteq Linea, NEW s
  PROVE  Cantidad(L, s) \in Nat
<1>1. CASE \E ln \in L : ln.sku = s
  <2>1. (CHOOSE ln \in L : ln.sku = s) \in L
    BY <1>1
  <2> QED BY <1>1, <2>1 DEF Cantidad, Linea
<1>2. CASE ~ \E ln \in L : ln.sku = s
  BY <1>2 DEF Cantidad
<1> QED BY <1>1, <1>2

\* A function on 1..n is a sequence.
LEMMA FuncionEsSecuencia ==
  ASSUME NEW S, NEW n \in Nat, NEW f \in [1..n -> S]
  PROVE  f \in Seq(S)
BY SeqDef

\* An order whose status changes is an order.
LEMMA OrdenConStatus ==
  ASSUME NEW r \in Orden, NEW e \in Estados
  PROVE  [r EXCEPT !.status = e] \in Orden
BY DEF Orden

\* Telling the orders of a cart keeps them orders.
LEMMA OrdenesTipo ==
  ASSUME TypeOK, NEW c, NEW e, UpdateRelatedOrderStatus(c, e)
  PROVE  ordenes' \in Seq(Orden)
<1> DEFINE n == Len(ordenes)
<1>1. MapCartStatusToOrderStatus(e) \in Estados
  BY DEF MapCartStatusToOrderStatus, Estados
<1>2. n \in Nat /\ ordenes \in [1..n -> Orden]
  BY LenProperties DEF TypeOK
<1>3. \A o \in 1..n : ordenes'[o] \in Orden
  BY <1>1, <1>2, OrdenConStatus DEF UpdateRelatedOrderStatus
<1>4. ordenes' \in [1..n -> Orden]
  BY <1>2, <1>3 DEF UpdateRelatedOrderStatus
<1> QED BY <1>2, <1>4, FuncionEsSecuencia

\* A cart that changes state stays a cart.
LEMMA CartsTipo ==
  ASSUME TypeOK, NEW c \in Carts, NEW e \in Estados
  PROVE  [carts EXCEPT ![c].estado = e] \in [Carts -> Cart]
BY DEF TypeOK, Cart

\* Steps that keep the lines keep their types and their SKUs apart.
LEMMA MismasLineasBastan ==
  ASSUME IInv, MismasLineas, nextItem' = nextItem
  PROVE  /\ nextItem' \in Nat \ {0}
         /\ DOMAIN items' \subseteq 1..(nextItem' - 1)
         /\ \A i \in DOMAIN items' : items'[i] \in CartItem
         /\ UnItemPorSku'
BY DEF IInv, TypeOK, MismasLineas, UnItemPorSku

\* A step that writes no row leaves the counters good.
LEMMA CuentasIguales ==
  ASSUME IInv, UNCHANGED <<stock, reserved>>
  PROVE  BuenasCuentas
BY CubreReserved, CubreBasta DEF IInv

\* A step that writes no line keeps the lines.
LEMMA LineasIguales ==
  ASSUME IInv, UNCHANGED items
  PROVE  MismasLineas
BY DEF IInv, TypeOK, MismasLineas

(***************************************************************************)
(* AddToCart.                                                              *)
(***************************************************************************)

\* The cart an item is added to is found or created.
LEMMA CarritoParaAgregarTipo ==
  ASSUME TypeOK, NEW c \in Carts, CarritoParaAgregar(c)
  PROVE  carts' \in [Carts -> Cart]
<1>1. CarritoNuevo("edicion") \in Cart
  BY DEF CarritoNuevo, CartNoCreado, Cart, Estados, Editables
<1> QED BY <1>1 DEF CarritoParaAgregar, TypeOK

\* An increment is reserved only where it is free.
LEMMA SumarAItemConserva ==
  ASSUME IInv, NEW i \in DOMAIN items, NEW q \in Nat, NEW l \in Locs \cup {SinLoc},
         NEW chk \in BOOLEAN, SumarAItem(i, q, l, chk), UNCHANGED stock
  PROVE  BuenasCuentas /\ MismasLineas
<1> DEFINE it == items[i]
           reserva == l # SinLoc /\ l = it.loc
           p == Ubicacion(i)
           res1 == IF reserva THEN Reservar(reserved, Ubicacion(i), q)
                              ELSE reserved
           nuevo == [it EXCEPT !.qty = @ + q,
                               !.resv = IF reserva THEN @ + q ELSE @,
                               !.chk = @ \/ chk,
                               !.conf = IF chk /\ ~HayStock(res1, it.sku, it.qty + q)
                                          THEN FALSE ELSE TRUE]
<1>1. it \in CartItem
  BY DEF IInv, TypeOK
<1>2. BuenasCuentas
  <2>1. CASE reserva
    <3>1. p \in Pares
      BY <1>1, <2>1 DEF CartItem, Ubicacion, Pares
    <3>2. Disponible(reserved, p) >= q /\ reserved' = Reservar(reserved, p, q)
      BY <2>1 DEF SumarAItem
    <3> HIDE DEF p
    <3>3. Cubre(Reservar(reserved, p, q))
      BY <3>1, <3>2, CubreReserved, ReservarCubre DEF IInv
    <3> QED BY <3>2, <3>3, CubreBasta DEF IInv
  <2>2. CASE ~reserva
    <3>1. UNCHANGED reserved
      BY <2>2 DEF SumarAItem
    <3> QED BY <3>1, CuentasIguales
  <2> QED BY <2>1, <2>2
<1>3. MismasLineas
  <2>1. nuevo \in CartItem /\ nuevo.cart = it.cart /\ nuevo.sku = it.sku
    <3>1. it.qty + q \in Int /\ (IF reserva THEN it.resv + q ELSE it.resv) \in Int
      BY <1>1 DEF CartItem
    <3>2. (it.chk \/ chk) \in BOOLEAN
      BY <1>1
    <3> HIDE DEF reserva, res1
    <3> QED BY <1>1, <3>1, <3>2 DEF CartItem
  <2>2. items' = [items EXCEPT ![i] = nuevo]
    BY DEF SumarAItem
  <2> HIDE DEF nuevo
  <2> QED BY <2>1, <2>2 DEF IInv, TypeOK, MismasLineas
<1> QED BY <1>2, <1>3

\* A new line is the only one of its cart and SKU, and reserves what is free.
LEMMA NuevoItemConserva ==
  ASSUME IInv, NEW c \in Carts, NEW s \in Skus, NEW q \in Nat,
         NEW l \in Locs \cup {SinLoc}, NEW chk \in BOOLEAN,
         ItemsDe(c, s) = {}, NuevoItem(c, s, q, l, chk), UNCHANGED stock
  PROVE  /\ BuenasCuentas
         /\ nextItem' \in Nat \ {0}
         /\ DOMAIN items' \subseteq 1..(nextItem' - 1)
         /\ \A i \in DOMAIN items' : items'[i] \in CartItem
         /\ UnItemPorSku'
<1>1. BuenasCuentas
  <2>1. CASE l # SinLoc
    <3>1. <<s, l>> \in Pares /\ Disponible(reserved, <<s, l>>) >= q
          /\ reserved' = Reservar(reserved, <<s, l>>, q)
      BY <2>1 DEF NuevoItem, Pares
    <3>2. Cubre(Reservar(reserved, <<s, l>>, q))
      BY <3>1, CubreReserved, ReservarCubre DEF IInv
    <3> QED BY <3>1, <3>2, CubreBasta DEF IInv
  <2>2. CASE l = SinLoc
    <3>1. UNCHANGED reserved
      BY <2>2 DEF NuevoItem
    <3> QED BY <3>1, CuentasIguales
  <2> QED BY <2>1, <2>2
<1> DEFINE nuevo == [cart |-> c, sku |-> s, qty |-> q, loc |-> l,
                     resv |-> IF l # SinLoc THEN q ELSE 0,
                     chk |-> chk, conf |-> ~chk]
<1>2. nuevo \in CartItem
  BY DEF CartItem
<1>3. items' = [i \in DOMAIN items \cup {nextItem} |->
                  IF i = nextItem THEN nuevo ELSE items[i]]
      /\ nextItem' = nextItem + 1
  BY DEF NuevoItem
<1>4. nuevo.cart = c /\ nuevo.sku = s
  OBVIOUS
<1> HIDE DEF nuevo
<1>5. nextItem \in Nat \ {0} /\ DOMAIN items \subseteq 1..(nextItem - 1)
      /\ \A i \in DOMAIN items : items[i] \in CartItem
  BY DEF IInv, TypeOK
<1>6. \A i \in DOMAIN items' : items'[i] \in CartItem
  BY <1>2, <1>3, <1>5
<1>7. nextItem' \in Nat \ {0} /\ DOMAIN items' \subseteq 1..(nextItem' - 1)
  BY <1>3, <1>5
<1>8. UnItemPorSku'
  <2>1. \A i \in DOMAIN items : ~(items[i].cart = c /\ items[i].sku = s)
    BY DEF ItemsDe, ItemsDelCarrito, ItemsDeSku
  <2>2. UnItemPorSku
    BY DEF IInv
  <2> QED BY <1>3, <1>4, <2>1, <2>2 DEF UnItemPorSku
<1> QED BY <1>1, <1>6, <1>7, <1>8

(***************************************************************************)
(* RemoveFromCart, ClearCart, UpdateCartItem.                              *)
(***************************************************************************)

\* Deleting lines and releasing what they hold.
LEMMA BorrarConserva ==
  ASSUME IInv, NEW S, S \subseteq DOMAIN items,
         reserved' = LiberarTodos(S), items' = Borrar(S), UNCHANGED stock
  PROVE  BuenasCuentas /\ MismasLineas
<1>1. TypeOK
  BY DEF IInv
<1>2. BuenasCuentas
  BY <1>1, LiberarTodosCubre, CubreBasta
<1>3. MismasLineas
  BY <1>1 DEF TypeOK, MismasLineas, Borrar
<1> QED BY <1>2, <1>3

\* The quantity a request names, or the line has, is an integer.
LEMMA PedidaTipo ==
  ASSUME NEW it \in CartItem, NEW r \in Pedido
  PROVE  Pedida(it, r) \in Int
<1>1. CASE r.qty = {}
  BY <1>1 DEF Pedida, CartItem
<1>2. CASE r.qty # {}
  <2>1. r.qty \subseteq Int
    BY DEF Pedido, Opcion
  <2>2. (CHOOSE q \in r.qty : TRUE) \in r.qty
    BY <1>2
  <2> QED BY <1>2, <2>1, <2>2 DEF Pedida
<1> QED BY <1>1, <1>2

\* A line whose quantity changes stays a line of its cart, SKU and location.
LEMMA ItemTrasCantidadTipo ==
  ASSUME NEW it \in CartItem, NEW q \in Int
  PROVE  /\ ItemTrasCantidad(it, q) \in CartItem
         /\ ItemTrasCantidad(it, q).cart = it.cart
         /\ ItemTrasCantidad(it, q).sku = it.sku
         /\ ItemTrasCantidad(it, q).loc = it.loc
         /\ ItemTrasCantidad(it, q).qty = q
         /\ ItemTrasCantidad(it, q).resv =
              IF Aumenta(it, q) THEN it.resv + (q - it.qty)
              ELSE IF ~Reduce(it, q) THEN it.resv
              ELSE IF it.resv >= it.qty - q THEN it.resv - (it.qty - q) ELSE 0
<1> DEFINE m == IF Aumenta(it, q) THEN it.resv + (q - it.qty)
                ELSE IF ~Reduce(it, q) THEN it.resv
                ELSE IF it.resv >= it.qty - q THEN it.resv - (it.qty - q)
                ELSE 0
<1>1. it.qty \in Int /\ it.resv \in Int
  BY DEF CartItem
<1>2. m \in Int
  BY <1>1
<1>3. ItemTrasCantidad(it, q) = [it EXCEPT !.qty = q, !.resv = m]
  BY DEF ItemTrasCantidad
<1>4. ItemTrasCantidad(it, q).resv = m
  <2> HIDE DEF m
  <2> QED BY <1>3 DEF CartItem
<1>5. /\ ItemTrasCantidad(it, q) \in CartItem
      /\ ItemTrasCantidad(it, q).cart = it.cart
      /\ ItemTrasCantidad(it, q).sku = it.sku
      /\ ItemTrasCantidad(it, q).loc = it.loc
      /\ ItemTrasCantidad(it, q).qty = q
  <2> HIDE DEF m
  <2> QED BY <1>2, <1>3 DEF CartItem
<1> QED BY <1>4, <1>5

\* The flags of a request leave the rest of the line alone.
LEMMA ConBanderasTipo ==
  ASSUME NEW it \in CartItem, NEW r \in Pedido
  PROVE  /\ ConBanderas(it, r) \in CartItem
         /\ ConBanderas(it, r).cart = it.cart
         /\ ConBanderas(it, r).sku = it.sku
         /\ ConBanderas(it, r).loc = it.loc
         /\ ConBanderas(it, r).resv = it.resv
<1> DEFINE a == IF r.chk = {FALSE} THEN FALSE
                ELSE IF r.conf = {} THEN it.conf ELSE r.conf = {TRUE}
           b == IF r.chk = {} THEN it.chk ELSE r.chk = {TRUE}
<1>1. a \in BOOLEAN /\ b \in BOOLEAN
  BY DEF CartItem
<1>2. ConBanderas(it, r) = [it EXCEPT !.conf = a, !.chk = b]
  BY DEF ConBanderas
<1> HIDE DEF a, b
<1> QED BY <1>1, <1>2 DEF CartItem

\* The quantity phase writes the row the line names, and reserves only what is
\* free there.
LEMMA ReservaTrasCantidadFilas ==
  ASSUME TypeOK, NEW it \in CartItem, NEW q \in Int, ~CantidadRechazada(it, q)
  PROVE  /\ Cubre(ReservaTrasCantidad(it, q))
         /\ \A p \in Pares : ReservaTrasCantidad(it, q)[p] =
              IF p # <<it.sku, it.loc>> THEN reserved[p]
              ELSE IF Aumenta(it, q) THEN reserved[p] + (q - it.qty)
              ELSE IF ~Reduce(it, q) THEN reserved[p]
              ELSE IF reserved[p] >= it.qty - q THEN reserved[p] - (it.qty - q)
              ELSE 0
<1> DEFINE u == <<it.sku, it.loc>>
<1>1. Cubre(reserved) /\ stock \in [Pares -> Int] /\ reserved \in [Pares -> Int]
  BY CubreReserved DEF TypeOK
<1>2. it.qty \in Int
  BY DEF CartItem
<1>3. CASE Aumenta(it, q)
  <2>1. u \in Pares /\ q - it.qty \in Nat
    BY <1>2, <1>3 DEF Aumenta, CartItem, Pares
  <2>2. PICK d \in Nat : d = q - it.qty
    BY <2>1
  <2>3. Disponible(reserved, u) >= d
    BY <1>1, <1>2, <1>3, <2>1, <2>2 DEF CantidadRechazada, Disponible
  <2>4. ReservaTrasCantidad(it, q) = Reservar(reserved, u, d)
    BY <1>3, <2>2 DEF ReservaTrasCantidad
  <2>5. /\ Cubre(Reservar(reserved, u, d))
        /\ \A p \in Pares : Reservar(reserved, u, d)[p] =
                              IF p = u THEN reserved[u] + d ELSE reserved[p]
    <3> HIDE DEF u
    <3> QED BY <1>1, <2>1, <2>3, ReservarCubre
  <2> QED BY <1>3, <2>2, <2>4, <2>5
<1>4. CASE ~Aumenta(it, q) /\ Reduce(it, q)
  <2>1. u \in Pares /\ it.qty - q \in Nat
    BY <1>2, <1>4 DEF Reduce, CartItem, Pares
  <2>2. PICK d \in Nat : d = it.qty - q
    BY <2>1
  <2>3. ReservaTrasCantidad(it, q) = Liberar(reserved, u, d)
    BY <1>4, <2>2 DEF ReservaTrasCantidad
  <2>4. /\ Cubre(Liberar(reserved, u, d))
        /\ \A p \in Pares : Liberar(reserved, u, d)[p] =
             IF p # u THEN reserved[p]
             ELSE IF reserved[u] >= d THEN reserved[u] - d ELSE 0
    <3>1. u \in Pares /\ TypeOK /\ Cubre(reserved)
      BY <1>1, <2>1
    <3> HIDE DEF u
    <3> QED BY <3>1, LiberarCubre
  <2> QED BY <1>4, <2>2, <2>3, <2>4
<1>5. CASE ~Aumenta(it, q) /\ ~Reduce(it, q)
  <2>1. ReservaTrasCantidad(it, q) = reserved
    BY <1>5 DEF ReservaTrasCantidad
  <2> QED BY <1>1, <1>5, <2>1
<1> QED BY <1>3, <1>4, <1>5

\* Moving a line only gives back what it holds in the row it leaves.
LEMMA ReservaTrasMudanzaFilas ==
  ASSUME TypeOK, NEW res, Cubre(res), NEW it \in CartItem, NEW l
  PROVE  /\ Cubre(ReservaTrasMudanza(res, it, l))
         /\ \A p \in Pares : ReservaTrasMudanza(res, it, l)[p] =
              IF p # <<it.sku, it.loc>> \/ it.loc = l \/ ~(it.resv > 0) THEN res[p]
              ELSE IF res[p] >= it.resv THEN res[p] - it.resv ELSE 0
<1> DEFINE u == <<it.sku, it.loc>>
<1>1. CASE it.resv > 0 /\ it.loc # SinLoc /\ it.loc # l
  <2>1. u \in Pares /\ it.resv \in Nat
    BY <1>1 DEF CartItem, Pares
  <2>2. PICK d \in Nat : d = it.resv
    BY <2>1
  <2>3. ReservaTrasMudanza(res, it, l) = Liberar(res, u, d)
    BY <1>1, <2>2 DEF ReservaTrasMudanza
  <2>4. /\ Cubre(Liberar(res, u, d))
        /\ \A p \in Pares : Liberar(res, u, d)[p] =
             IF p # u THEN res[p] ELSE IF res[u] >= d THEN res[u] - d ELSE 0
    <3> HIDE DEF u
    <3> QED BY <2>1, LiberarCubre
  <2> QED BY <1>1, <2>2, <2>3, <2>4
<1>2. CASE ~(it.resv > 0 /\ it.loc # SinLoc /\ it.loc # l)
  <2>1. ReservaTrasMudanza(res, it, l) = res
    BY <1>2 DEF ReservaTrasMudanza
  <2>2. \A p \in Pares : p = u => it.loc # SinLoc
    BY CartStockAssumption DEF Pares
  <2> QED BY <1>2, <2>1, <2>2
<1> QED BY <1>1, <1>2

\* The outcomes of a request to change a line: refused late, written without a
\* reservation, or reserved in another location or the same.
LEMMA UpdateCartItemCasos ==
  ASSUME IInv, NEW c \in Carts, NEW s \in Skus, NEW r \in Pedidos,
         UpdateCartItem(c, s, r)
  PROVE  \E i \in DOMAIN items, q \in Int : EditaLinea(c, s, r, i, q)
<1>1. r \in Pedido
  BY CartStockAssumption
<1>2. PICK i \in ItemsDe(c, s) :
        LET q == Pedida(items[i], r)
            it1 == ItemTrasCantidad(items[i], q)
            res1 == ReservaTrasCantidad(items[i], q)
        IN /\ ~CantidadRechazada(items[i], q)
           /\ \/ reserved' = res1 /\ UNCHANGED items
              \/ /\ reserved' = res1
                 /\ items' = [items EXCEPT ![i] = ConBanderas(it1, r)]
              \/ \E l \in r.reservar \ {SinLoc} :
                   LET res2 == ReservaTrasMudanza(res1, it1, l) IN
                   \/ reserved' = res2 /\ UNCHANGED items
                   \/ /\ PideReserva(r)
                      /\ Disponible(res2, <<s, l>>) >= it1.qty
                      /\ reserved' = Reservar(res2, <<s, l>>, it1.qty)
                      /\ items' = [items EXCEPT ![i] =
                           ConBanderas([it1 EXCEPT !.loc = l,
                                                   !.resv = it1.qty], r)]
  BY DEF UpdateCartItem
<1>3. /\ i \in DOMAIN items /\ items[i].cart = c /\ items[i].sku = s
      /\ items[i] \in CartItem
  BY DEF ItemsDe, ItemsDelCarrito, ItemsDeSku, IInv, TypeOK
<1>4. PICK q \in Int : q = Pedida(items[i], r)
  BY <1>1, <1>3, PedidaTipo
<1>5. \A l \in r.reservar \ {SinLoc} : l \in Locs
  BY <1>1 DEF Pedido, Opcion
<1>6. EditaLinea(c, s, r, i, q)
  BY <1>2, <1>3, <1>4, <1>5 DEF EditaLinea
<1> QED BY <1>3, <1>6

\* A request to change a line reserves only what is free, less than nothing
\* included, and changes no other line.
LEMMA UpdateCartItemConserva ==
  ASSUME IInv, NEW c \in Carts, NEW s \in Skus, NEW r \in Pedidos,
         UpdateCartItem(c, s, r)
  PROVE  BuenasCuentas /\ MismasLineas
<1>0. PICK i \in DOMAIN items, q \in Int : EditaLinea(c, s, r, i, q)
  BY UpdateCartItemCasos
<1>1. /\ items[i].cart = c /\ items[i].sku = s
      /\ q = Pedida(items[i], r) /\ ~CantidadRechazada(items[i], q)
  BY <1>0 DEF EditaLinea
<1> DEFINE it1 == ItemTrasCantidad(items[i], q)
           res1 == ReservaTrasCantidad(items[i], q)
<1>2. items[i] \in CartItem /\ TypeOK /\ r \in Pedido
  BY CartStockAssumption DEF IInv, TypeOK
<1>3. it1 \in CartItem /\ it1.cart = items[i].cart /\ it1.sku = items[i].sku
  BY <1>2, ItemTrasCantidadTipo
<1>4. Cubre(res1)
  BY <1>1, <1>2, ReservaTrasCantidadFilas
<1>5. UNCHANGED stock
  BY DEF UpdateCartItem
<1>6. ASSUME NEW it \in CartItem, it.cart = items[i].cart, it.sku = items[i].sku,
             items' = [items EXCEPT ![i] = ConBanderas(it, r)]
      PROVE  /\ MismasLineas
             /\ items'[i].sku = it.sku /\ items'[i].loc = it.loc
             /\ items'[i].resv = it.resv
  <2> DEFINE nuevo == ConBanderas(it, r)
  <2>1. nuevo \in CartItem /\ nuevo.cart = items[i].cart
        /\ nuevo.sku = items[i].sku /\ nuevo.loc = it.loc /\ nuevo.resv = it.resv
    BY <1>2, <1>6, ConBanderasTipo
  <2>2. items' = [items EXCEPT ![i] = nuevo]
    BY <1>6
  <2> HIDE DEF nuevo
  <2> QED BY <1>2, <1>6, <2>1, <2>2 DEF IInv, TypeOK, MismasLineas
<1>7. CASE /\ UNCHANGED items
           /\ \/ reserved' = res1
              \/ \E l \in Locs : reserved' = ReservaTrasMudanza(res1, it1, l)
  <2>1. \A l \in Locs : Cubre(ReservaTrasMudanza(res1, it1, l))
    BY <1>2, <1>3, <1>4, ReservaTrasMudanzaFilas
  <2> HIDE DEF it1, res1
  <2> QED BY <1>2, <1>4, <1>5, <1>7, <2>1, CubreBasta, LineasIguales
<1>8. CASE /\ reserved' = res1
           /\ items' = [items EXCEPT ![i] = ConBanderas(it1, r)]
  <2> HIDE DEF it1, res1
  <2> QED BY <1>2, <1>3, <1>4, <1>5, <1>6, <1>8, CubreBasta
<1>9. ASSUME NEW l \in Locs, PideReserva(r), l \in r.reservar,
             Disponible(ReservaTrasMudanza(res1, it1, l), <<s, l>>) >= it1.qty,
             reserved' = Reservar(ReservaTrasMudanza(res1, it1, l),
                                  <<s, l>>, it1.qty),
             items' = [items EXCEPT ![i] =
               ConBanderas([it1 EXCEPT !.loc = l, !.resv = it1.qty], r)]
      PROVE  BuenasCuentas /\ MismasLineas
  <2> DEFINE res2 == ReservaTrasMudanza(res1, it1, l)
             it2 == [it1 EXCEPT !.loc = l, !.resv = it1.qty]
             u == <<s, l>>
  <2>1. Cubre(res2)
    BY <1>2, <1>3, <1>4, ReservaTrasMudanzaFilas
  <2>2. u \in Pares /\ it1.qty \in Int
    BY <1>3 DEF Pares, CartItem
  <2>3. /\ it2 \in CartItem /\ it2.cart = items[i].cart /\ it2.sku = items[i].sku
        /\ it2.loc = l /\ it2.resv = it1.qty
    BY <1>3, <2>2 DEF CartItem
  <2>4. PICK n \in Int : n = it1.qty
    BY <2>2
  <2>5. /\ Disponible(res2, u) >= n /\ reserved' = Reservar(res2, u, n)
        /\ items' = [items EXCEPT ![i] = ConBanderas(it2, r)]
    BY <1>9, <2>4
  <2> HIDE DEF it1, res1, res2, it2
  <2>6. MismasLineas /\ items'[i].sku = s /\ items'[i].loc = l /\ items'[i].resv = n
    BY <1>1, <1>6, <2>3, <2>4, <2>5
  <2>7. CASE n >= 0
    <3>1. Cubre(Reservar(res2, u, n))
      BY <1>2, <2>1, <2>2, <2>5, <2>7, ReservarCubre
    <3> QED BY <1>2, <1>5, <2>5, <2>6, <3>1, CubreBasta
  <2>8. CASE n < 0
    <3>1. /\ res2 \in [Pares -> Int] /\ stock \in [Pares -> Int]
          /\ reserved \in [Pares -> Int]
      BY <1>2, <2>1 DEF TypeOK, Cubre
    <3>2. /\ reserved' \in [Pares -> Int]
          /\ \A p \in Pares : reserved'[p] = IF p = u THEN res2[u] + n ELSE res2[p]
      <4> HIDE DEF u
      <4>1. u \in Pares /\ n \in Int /\ res2 \in [Pares -> Int]
        BY <2>2, <3>1
      <4> QED BY <2>5, <4>1, ReservarFila
    <3>3. stock' = stock /\ n <= stock[u] - res2[u]
      BY <1>5, <2>5 DEF Disponible
    <3>4. Respalda
      BY <2>1, <2>2, <3>1, <3>2, <3>3 DEF Respalda, Cubre
    <3>5. ReservaNegativa(u)
      <4>1. i \in EnFila(items', u) /\ items'[i].resv < 0
        <5>1. i \in DOMAIN items'
          BY <2>5
        <5> QED BY <2>6, <2>8, <5>1 DEF EnFila
      <4>2. \E d \in Carts : \E x \in Skus, y \in Pedidos :
              PideReserva(y) /\ UpdateCartItem(d, x, y)
        BY <1>9
      <4> QED BY <4>1, <4>2, Zenon DEF ReservaNegativa
    <3>6. ASSUME NEW p \in Pares, Sana(p), p # u
          PROVE  Sana(p)'
      <4>1. /\ stock[p] >= 0 /\ reserved[p] >= 0 /\ reserved'[p] = res2[p]
            /\ (p[2] # Deposito => reserved[p] <= stock[p])
        BY <3>2, <3>6 DEF Sana
      <4>2. res2[p] >= 0 /\ (p[2] # Deposito => res2[p] <= stock[p])
        BY <2>1, <4>1 DEF Cubre
      <4> QED BY <3>3, <4>1, <4>2 DEF Sana
    <3>7. Cuidada
      BY <3>5, <3>6 DEF Cuidada
    <3> QED BY <2>6, <3>1, <3>2, <3>3, <3>4, <3>7 DEF BuenasCuentas
  <2> QED BY <2>7, <2>8
<1> QED BY <1>0, <1>7, <1>8, <1>9 DEF EditaLinea

(***************************************************************************)
(* UpdateCartStatus.                                                       *)
(***************************************************************************)

\* Readying a cart reserves only what is free, writes the unreserved lines and
\* ships from locations other than the deposit.
LEMMA ListoParaPagoConserva ==
  ASSUME IInv, NEW c \in Carts, ListoParaPago(c)
  PROVE  /\ BuenasCuentas /\ MismasLineas
         /\ carts' \in [Carts -> Cart]
         /\ remitos' \in Seq(Remito) /\ OrigenesValidos'
<1> DEFINE nueva(f, i) == [items[i] EXCEPT !.loc = f[i], !.resv = items[i].qty]
           lineas(f) == [i \in DOMAIN items |->
                          IF i \in SinReserva(c) THEN nueva(f, i) ELSE items[i]]
<1>1. PICK f \in Asignaciones(c) :
        /\ reserved' = [p \in Pares |-> reserved[p] + Tomado(c, f, p)]
        /\ items' = lineas(f)
        /\ GenerarRemitosInternos(c, items')
  BY DEF ListoParaPago
<1>2. TypeOK
  BY DEF IInv
<1>3. UNCHANGED stock
  BY DEF ListoParaPago
<1>4. ASSUME NEW i \in SinReserva(c)
      PROVE  /\ nueva(f, i) \in CartItem
             /\ nueva(f, i).cart = items[i].cart
             /\ nueva(f, i).sku = items[i].sku
             /\ nueva(f, i).loc = f[i] /\ nueva(f, i).resv = items[i].qty
             /\ i \in DOMAIN items
  <2>1. items[i] \in CartItem /\ f[i] \in Locs /\ i \in DOMAIN items
    BY <1>2 DEF TypeOK, SinReserva, ItemsDelCarrito, Asignaciones
  <2>2. items[i].qty \in Int
    BY <2>1 DEF CartItem
  <2> QED BY <2>1, <2>2 DEF CartItem
<1>8. BuenasCuentas
  <2>1. \A p \in Pares :
          /\ Tomado(c, f, p) \in Int
          /\ Tomado(c, f, p) # 0 => Tomado(c, f, p) <= stock[p] - reserved[p]
    BY <1>2, TomadoLibre
  <2>2. \A p \in Pares : stock[p] \in Int /\ reserved[p] \in Int
    BY <1>2 DEF TypeOK
  <2>3. reserved' = [p \in Pares |-> reserved[p] + Tomado(c, f, p)]
    BY <1>1
  <2>4. \A i \in SinReserva(c) :
          /\ i \in DOMAIN items' /\ items'[i].sku = items[i].sku
          /\ items'[i].loc = f[i] /\ items'[i].resv = items[i].qty
    <3> HIDE DEF nueva
    <3> QED BY <1>1, <1>4
  <2> HIDE DEF lineas, nueva
  <2>5. reserved' \in [Pares -> Int] /\ stock' \in [Pares -> Int] /\ stock' = stock
    BY <1>2, <1>3, <2>1, <2>2, <2>3 DEF TypeOK
  <2>6. Respalda
    BY <2>1, <2>2, <2>3, <2>5 DEF Respalda
  <2>7. ASSUME NEW p \in Pares, Sana(p), Tomado(c, f, p) >= 0
        PROVE  Sana(p)'
    <3>1. reserved'[p] = reserved[p] + Tomado(c, f, p)
      BY <2>3
    <3> QED BY <2>1, <2>2, <2>5, <2>7, <3>1 DEF Sana
  <2>8. ASSUME NEW p \in Pares, Tomado(c, f, p) < 0
        PROVE  ReservaNegativa(p)
    <3>1. PICK i \in SinReserva(c) :
            <<items[i].sku, f[i]>> = p /\ items[i].qty = Tomado(c, f, p)
      <4>1. \E i \in SinReserva(c) : <<items[i].sku, f[i]>> = p
        BY <2>8 DEF Tomado
      <4> QED BY <4>1 DEF Tomado
    <3>2. i \in EnFila(items', p) /\ items'[i].resv < 0
      BY <2>4, <2>8, <3>1 DEF EnFila
    <3> QED BY <3>2, Zenon DEF ReservaNegativa
  <2>9. Cuidada
    BY <2>1, <2>7, <2>8 DEF Cuidada
  <2> QED BY <2>5, <2>6, <2>9 DEF BuenasCuentas
<1>5. MismasLineas
  <2> HIDE DEF nueva
  <2> QED BY <1>1, <1>2, <1>4 DEF TypeOK, MismasLineas
<1>6. carts' \in [Carts -> Cart]
  <2>1. carts' = [carts EXCEPT ![c].estado = "listo_para_pago",
                               ![c].vence = "corriendo"]
    BY DEF ListoParaPago
  <2>2. "listo_para_pago" \in Estados
    BY DEF Estados
  <2>3. [carts EXCEPT ![c].estado = "listo_para_pago"] \in [Carts -> Cart]
    BY <1>2, <2>2, CartsTipo
  <2> QED BY <2>1, <2>3 DEF Cart
<1>7. remitos' \in Seq(Remito) /\ OrigenesValidos'
  <2>1. CASE UNCHANGED remitos
    BY <1>2, <2>1 DEF TypeOK, IInv, OrigenesValidos
  <2>2. CASE \E o \in Origenes(c, items') :
               remitos' = Append(remitos,
                 [estado |-> "pendiente", cart |-> c, origen |-> o,
                  lineas |-> {[item |-> i, sku |-> items'[i].sku,
                               cant |-> items'[i].resv] :
                              i \in {j \in ItemsDelCarrito(c) :
                                       items'[j].resv > 0 /\ items'[j].loc = o}}])
    <3>1. PICK o \in Origenes(c, items') :
               remitos' = Append(remitos,
                 [estado |-> "pendiente", cart |-> c, origen |-> o,
                  lineas |-> {[item |-> i, sku |-> items'[i].sku,
                               cant |-> items'[i].resv] :
                              i \in {j \in ItemsDelCarrito(c) :
                                       items'[j].resv > 0 /\ items'[j].loc = o}}])
      BY <2>2
    <3> DEFINE L == {[item |-> i, sku |-> items'[i].sku,
                      cant |-> items'[i].resv] :
                       i \in {j \in ItemsDelCarrito(c) :
                                items'[j].resv > 0 /\ items'[j].loc = o}}
               rem == [estado |-> "pendiente", cart |-> c, origen |-> o,
                       lineas |-> L]
    <3>2. \A i \in ItemsDelCarrito(c) : i \in Nat /\ items'[i] \in CartItem
      <4> HIDE DEF nueva, L, rem
      <4>1. DOMAIN items' = DOMAIN items
        BY <1>1
      <4>2. \A i \in DOMAIN items : i \in Nat
        BY <1>2 DEF TypeOK
      <4>3. \A i \in DOMAIN items' : items'[i] \in CartItem
        BY <1>5 DEF MismasLineas
      <4> QED BY <4>1, <4>2, <4>3 DEF ItemsDelCarrito
    <3>3. L \in SUBSET Linea
      BY <3>2 DEF Linea, CartItem
    <3>4. o \in Locs /\ o # Deposito
      BY <3>2 DEF Origenes, CartItem
    <3> HIDE DEF L
    <3>5. rem \in Remito /\ rem.origen # Deposito
      BY <3>3, <3>4 DEF Remito
    <3>6. remitos' = Append(remitos, rem)
      BY <3>1 DEF L
    <3> HIDE DEF rem
    <3>7. remitos \in Seq(Remito) /\ \A r \in DOMAIN remitos :
                                       remitos[r].origen # Deposito
      BY <1>2 DEF TypeOK, IInv, OrigenesValidos
    <3> QED BY <3>5, <3>6, <3>7, AppendProperties, LenProperties
            DEF OrigenesValidos
  <2> QED BY <1>1, <2>1, <2>2 DEF GenerarRemitosInternos
<1> QED BY <1>5, <1>6, <1>7, <1>8

\* A reserved line holds in its row what the row has.
LEMMA RetenidoCubierto ==
  ASSUME TypeOK, NEW c, NEW p \in Pares,
         \A i \in ConReserva(c) : /\ reserved[Ubicacion(i)] >= items[i].resv
                                  /\ stock[Ubicacion(i)] >= items[i].resv
  PROVE  /\ Retenido(ConReserva(c), p) \in Nat
         /\ Retenido(ConReserva(c), p) # 0 =>
              /\ Retenido(ConReserva(c), p) <= reserved[p]
              /\ Retenido(ConReserva(c), p) <= stock[p]
<1>1. Retenido(ConReserva(c), p) \in Nat
  BY RetenidoNat DEF ConReserva, ItemsDelCarrito
<1>2. CASE \E i \in ConReserva(c) : Retiene(i) /\ Ubicacion(i) = p
  <2> DEFINE i == CHOOSE i \in ConReserva(c) : Retiene(i) /\ Ubicacion(i) = p
  <2>1. i \in ConReserva(c) /\ Retiene(i) /\ Ubicacion(i) = p
    BY <1>2
  <2>2. Retenido(ConReserva(c), p) = items[i].resv
    BY <1>2 DEF Retenido
  <2> HIDE DEF i
  <2> QED BY <1>1, <2>1, <2>2
<1>3. CASE ~ \E i \in ConReserva(c) : Retiene(i) /\ Ubicacion(i) = p
  <2>1. Retenido(ConReserva(c), p) = 0
    BY <1>3 DEF Retenido
  <2> QED BY <2>1
<1> QED BY <1>2, <1>3

\* Paying takes each line from its reservation or from what is free, never both
\* from the same units.
LEMMA PagadoConserva ==
  ASSUME IInv, NEW c \in Carts, Pagado(c)
  PROVE  BuenasCuentas /\ MismasLineas /\ carts' \in [Carts -> Cart]
<1> DEFINE R(p) == Retenido(ConReserva(c), p)
<1>1. PICK f \in Asignaciones(c) :
        stock' = [p \in Pares |-> stock[p] - R(p) - Tomado(c, f, p)]
  BY DEF Pagado
<1>2. /\ reserved' = [p \in Pares |-> reserved[p] - R(p)]
      /\ items' = [i \in DOMAIN items |->
                     IF i \in ConReserva(c) THEN [items[i] EXCEPT !.resv = 0]
                                            ELSE items[i]]
      /\ carts' = [carts EXCEPT ![c].estado = "pagado"]
  BY DEF Pagado
<1>3. TypeOK
  BY DEF IInv
<1>4. BuenasCuentas
  <2>1. \A p \in Pares :
          R(p) \in Nat /\ (R(p) # 0 => R(p) <= reserved[p] /\ R(p) <= stock[p])
    BY <1>3, RetenidoCubierto DEF Pagado
  <2>2. \A p \in Pares :
          /\ Tomado(c, f, p) \in Int
          /\ Tomado(c, f, p) # 0 => Tomado(c, f, p) <= stock[p] - reserved[p]
    BY <1>3, TomadoLibre
  <2>3. \A p \in Pares : stock[p] \in Int /\ reserved[p] \in Int
    BY <1>3 DEF TypeOK
  <2> HIDE DEF R
  <2>4. /\ \A p \in Pares : stock'[p] = stock[p] - R(p) - Tomado(c, f, p)
        /\ \A p \in Pares : reserved'[p] = reserved[p] - R(p)
    BY <1>1, <1>2
  <2>5. stock' \in [Pares -> Int] /\ reserved' \in [Pares -> Int]
    BY <1>1, <1>2, <2>1, <2>2, <2>3
  <2>6. Respalda
    BY <2>1, <2>2, <2>3, <2>4 DEF Respalda
  <2>7. ASSUME NEW p \in Pares, Sana(p)
        PROVE  Sana(p)'
    <3>1. PICK a \in Nat, b \in Int : a = R(p) /\ b = Tomado(c, f, p)
      BY <2>1, <2>2
    <3>2. /\ stock[p] \in Int /\ reserved[p] \in Int
          /\ stock[p] >= 0 /\ reserved[p] >= 0
          /\ (p[2] # Deposito => reserved[p] <= stock[p])
      BY <2>3, <2>7 DEF Sana
    <3>3. stock'[p] = stock[p] - a - b /\ reserved'[p] = reserved[p] - a
      BY <2>4, <3>1
    <3>4. /\ a # 0 => a <= reserved[p] /\ a <= stock[p]
          /\ b # 0 => b <= stock[p] - reserved[p]
      BY <2>1, <2>2, <3>1
    <3>5. stock'[p] >= 0 /\ reserved'[p] >= 0
      BY <3>2, <3>3, <3>4
    <3>6. reserved[p] <= stock[p] => reserved'[p] <= stock'[p]
      BY <3>2, <3>3, <3>4
    <3> QED BY <3>2, <3>5, <3>6 DEF Sana
  <2>8. Cuidada
    BY <2>7 DEF Cuidada
  <2> QED BY <2>5, <2>6, <2>8 DEF BuenasCuentas
<1>5. MismasLineas
  <2>1. \A i \in DOMAIN items :
          LET n == [items[i] EXCEPT !.resv = 0]
          IN n \in CartItem /\ n.cart = items[i].cart /\ n.sku = items[i].sku
    <3>1. \A x \in CartItem : LET n == [x EXCEPT !.resv = 0]
                             IN n \in CartItem /\ n.cart = x.cart /\ n.sku = x.sku
      BY DEF CartItem
    <3> QED BY <1>3, <3>1 DEF TypeOK
  <2> QED BY <1>2, <1>3, <2>1 DEF TypeOK, MismasLineas
<1>6. carts' \in [Carts -> Cart]
  BY <1>2, <1>3, CartsTipo DEF Estados
<1> QED BY <1>4, <1>5, <1>6

(***************************************************************************)
(* The expiration job and the remitos.                                     *)
(***************************************************************************)

\* Expiring a cart only gives back.
LEMMA ExpireCartReservationsConserva ==
  ASSUME IInv, NEW c \in Carts, ExpireCartReservations(c)
  PROVE  BuenasCuentas /\ MismasLineas /\ carts' \in [Carts -> Cart]
<1>1. TypeOK
  BY DEF IInv
<1>2. BuenasCuentas
  <2>1. ItemsDelCarrito(c) \subseteq DOMAIN items
    BY DEF ItemsDelCarrito
  <2>2. reserved' = LiberarTodos(ItemsDelCarrito(c)) /\ UNCHANGED stock
    BY DEF ExpireCartReservations
  <2> QED BY <1>1, <2>1, <2>2, LiberarTodosCubre, CubreBasta
<1>3. MismasLineas
  <2>1. \A i \in DOMAIN items :
          LET n == [items[i] EXCEPT !.resv = 0, !.loc = SinLoc]
          IN n \in CartItem /\ n.cart = items[i].cart /\ n.sku = items[i].sku
    <3>1. ASSUME NEW x \in CartItem, NEW l \in Locs \cup {SinLoc}, NEW m \in Int
          PROVE  LET n == [x EXCEPT !.resv = m, !.loc = l]
                 IN n \in CartItem /\ n.cart = x.cart /\ n.sku = x.sku
      BY DEF CartItem
    <3>2. 0 \in Int
      OBVIOUS
    <3> QED BY <1>1, <3>1, <3>2 DEF TypeOK
  <2>2. items' = ItemsTrasExpirar(c)
    BY DEF ExpireCartReservations
  <2> QED BY <1>1, <2>1, <2>2 DEF TypeOK, MismasLineas, ItemsTrasExpirar
<1>4. carts' \in [Carts -> Cart]
  <2>1. "expirado" \in Estados
    BY DEF Estados
  <2> QED BY <1>1, <2>1, CartsTipo DEF ExpireCartReservations
<1> QED BY <1>2, <1>3, <1>4

\* A remito is a record of its table; receiving it keeps it one.
LEMMA RemitosTipo ==
  ASSUME IInv, NEW r \in DOMAIN remitos,
         remitos' = [remitos EXCEPT ![r].estado = "recibido"]
  PROVE  remitos' \in Seq(Remito) /\ OrigenesValidos'
<1> DEFINE n == Len(remitos)
           nuevo == [remitos[r] EXCEPT !.estado = "recibido"]
<1>1. n \in Nat /\ remitos \in [1..n -> Remito] /\ r \in 1..n
  BY LenProperties DEF IInv, TypeOK
<1>2. remitos[r] \in Remito
  BY <1>1
<1>3. nuevo \in Remito /\ nuevo.origen = remitos[r].origen
  BY <1>2 DEF Remito
<1>4. remitos' = [remitos EXCEPT ![r] = nuevo]
  OBVIOUS
<1> HIDE DEF nuevo, n
<1>5. remitos' \in [1..n -> Remito]
  BY <1>1, <1>3, <1>4
<1>6. OrigenesValidos'
  BY <1>1, <1>3, <1>4 DEF IInv, OrigenesValidos
<1> QED BY <1>1, <1>5, <1>6, FuncionEsSecuencia

\* A reception takes from the origin what is reserved there, hence what is
\* there: the origin is not the deposit.
LEMMA ConfirmarRecepcionRemitoConserva ==
  ASSUME IInv, NEW r \in DOMAIN remitos, ConfirmarRecepcionRemito(r)
  PROVE  /\ BuenasCuentas /\ MismasLineas
         /\ remitos' \in Seq(Remito) /\ OrigenesValidos'
<1> DEFINE L == remitos[r].lineas
           o == remitos[r].origen
           T(p) == Traslado(L, o, p)
<1>1. remitos[r] \in Remito /\ o # Deposito
  BY ElementOfSeq, LenProperties DEF IInv, TypeOK, OrigenesValidos
<1>2. L \subseteq Linea /\ o \in Locs
  BY <1>1 DEF Remito
<1>3. TypeOK
  BY DEF IInv
<1>4. BuenasCuentas
  <2>1. \A s : Cantidad(L, s) \in Nat
    BY <1>2, CantidadNat
  <2>2. \A s \in Skus : Cantidad(L, s) # 0 => Cantidad(L, s) <= reserved[<<s, o>>]
    <3> SUFFICES ASSUME NEW s \in Skus, Cantidad(L, s) # 0
                 PROVE  Cantidad(L, s) <= reserved[<<s, o>>]
      OBVIOUS
    <3>1. \A ln \in L : ln.cant <= reserved[ln.sku, o] /\ ln.cant \in Nat
      <4>1. \A ln \in L : ln.cant \in Nat /\ ln.sku \in Skus
        BY <1>2 DEF Linea
      <4>2. \A ln \in L : reserved[ln.sku, o] >= ln.cant
        BY DEF ConfirmarRecepcionRemito
      <4>3. \A x \in Skus : <<x, o>> \in Pares
        BY <1>2 DEF Pares
      <4> HIDE DEF L, o
      <4> QED BY <1>3, <4>1, <4>2, <4>3 DEF TypeOK
    <3> HIDE DEF L, o
    <3>2. CASE \E ln \in L : ln.sku = s
      <4> DEFINE ln == CHOOSE ln \in L : ln.sku = s
      <4>1. ln \in L /\ ln.sku = s /\ Cantidad(L, s) = ln.cant
        BY <3>2 DEF Cantidad
      <4> HIDE DEF ln
      <4> QED BY <3>1, <4>1
    <3>3. CASE ~ \E ln \in L : ln.sku = s
      <4>1. Cantidad(L, s) = 0
        BY <3>3 DEF Cantidad
      <4> QED BY <4>1
    <3> QED BY <3>2, <3>3
  <2>3. /\ stock' = [p \in Pares |-> stock[p] + T(p)]
        /\ reserved' = [p \in Pares |-> reserved[p] + T(p)]
    BY DEF ConfirmarRecepcionRemito
  <2> HIDE DEF L, o
  <2>4. \A p \in Pares : T(p) \in Int
    <3>1. \A p \in Pares : p[1] \in Skus
      BY DEF Pares
    <3> QED BY <2>1, <3>1 DEF Traslado
  <2>5. \A p \in Pares : stock[p] \in Int /\ reserved[p] \in Int
    BY <1>3 DEF TypeOK
  <2>6. ASSUME NEW p \in Pares, Sana(p)
        PROVE  reserved[p] + T(p) >= 0 /\ stock[p] + T(p) >= 0
    <3>1. p[1] \in Skus /\ p[2] \in Locs /\ p = <<p[1], p[2]>>
      BY DEF Pares
    <3>2. /\ stock[p] \in Int /\ stock[p] >= 0
          /\ reserved[p] \in Int /\ reserved[p] >= 0
      BY <2>5, <2>6 DEF Sana
    <3>3. PICK n \in Nat : n = Cantidad(L, p[1])
      BY <2>1
    <3>4. CASE p[2] = o
      <4>1. T(p) = -n
        BY <3>3, <3>4 DEF Traslado
      <4>2. n # 0 => n <= reserved[p]
        BY <2>2, <3>1, <3>3, <3>4
      <4>3. reserved[p] <= stock[p]
        BY <1>1, <2>6, <3>4 DEF Sana
      <4> QED BY <3>2, <4>1, <4>2, <4>3
    <3>5. CASE p[2] # o
      <4>1. T(p) \in Nat
        BY <3>3, <3>5 DEF Traslado
      <4> QED BY <3>2, <4>1
    <3> QED BY <3>4, <3>5
  <2> HIDE DEF T
  <2>7. /\ stock' \in [Pares -> Int] /\ reserved' \in [Pares -> Int]
        /\ \A p \in Pares : stock'[p] = stock[p] + T(p) /\ reserved'[p] = reserved[p] + T(p)
    BY <2>3, <2>4, <2>5
  <2>8. Respalda
    BY <2>4, <2>5, <2>7 DEF Respalda
  <2>9. ASSUME NEW p \in Pares, Sana(p)
        PROVE  Sana(p)'
    <3>1. reserved[p] <= stock[p] => reserved'[p] <= stock'[p]
      BY <2>4, <2>5, <2>7
    <3> QED BY <2>6, <2>7, <2>9, <3>1 DEF Sana
  <2>10. Cuidada
    BY <2>9 DEF Cuidada
  <2> QED BY <2>7, <2>8, <2>10 DEF BuenasCuentas
<1>5. MismasLineas
  <2>1. \A i \in DOMAIN items :
          LET n == [items[i] EXCEPT !.loc = Deposito]
          IN n \in CartItem /\ n.cart = items[i].cart /\ n.sku = items[i].sku
    BY <1>3, CartStockAssumption DEF TypeOK, CartItem
  <2>2. items' = [i \in DOMAIN items |->
                    IF \E ln \in L : ln.item = i
                      THEN [items[i] EXCEPT !.loc = Deposito] ELSE items[i]]
    BY DEF ConfirmarRecepcionRemito
  <2> HIDE DEF L
  <2> QED BY <1>3, <2>1, <2>2 DEF TypeOK, MismasLineas
<1>6. remitos' \in Seq(Remito) /\ OrigenesValidos'
  BY RemitosTipo DEF ConfirmarRecepcionRemito
<1> QED BY <1>4, <1>5, <1>6

(***************************************************************************)
(* Orders and checkout.                                                    *)
(***************************************************************************)

\* A cart that is created or that waits for a seller is a cart, and the order
\* it becomes is an order.
LEMMA SubmitCartForAssignmentConserva ==
  ASSUME TypeOK, NEW c \in Carts, SubmitCartForAssignment(c)
  PROVE  carts' \in [Carts -> Cart] /\ ordenes' \in Seq(Orden)
<1> DEFINE o1 == [cart |-> c, status |-> "asignada", asignada |-> TRUE]
           o2 == [cart |-> c, status |-> "pendiente_asignacion",
                  asignada |-> FALSE]
<1>1. o1 \in Orden /\ o2 \in Orden
  BY DEF Orden, Estados
<1>2. ordenes' = Append(ordenes, o1) \/ ordenes' = Append(ordenes, o2)
  BY DEF SubmitCartForAssignment
<1>3. ordenes' \in Seq(Orden)
  <2>1. ordenes \in Seq(Orden)
    BY DEF TypeOK
  <2> HIDE DEF o1, o2
  <2> QED BY <1>1, <1>2, <2>1, AppendProperties
<1>4. "esperando_vendedora" \in Estados
  BY DEF Estados, Editables
<1>5. [carts EXCEPT ![c].estado = "esperando_vendedora"] \in [Carts -> Cart]
  BY <1>4, CartsTipo
<1>6. ASSUME NEW d \in Carts
      PROVE  [carts EXCEPT ![c].estado = "esperando_vendedora",
                           ![c].asignado = TRUE,
                           ![d] = CarritoNuevo("pendiente")]
               \in [Carts -> Cart]
  <2>1. CarritoNuevo("pendiente") \in Cart
    BY DEF CarritoNuevo, CartNoCreado, Cart, Estados, Editables
  <2>2. [carts EXCEPT ![c].estado = "esperando_vendedora",
                      ![c].asignado = TRUE] \in [Carts -> Cart]
    BY <1>5 DEF Cart
  <2> QED BY <2>1, <2>2
<1>7. carts' \in [Carts -> Cart]
  BY <1>5, <1>6 DEF SubmitCartForAssignment
<1> QED BY <1>3, <1>7

\* An assigned order is an order.
LEMMA AsignarOrdenConserva ==
  ASSUME TypeOK, NEW o \in DOMAIN ordenes, AsignarOrden(o)
  PROVE  carts' \in [Carts -> Cart] /\ ordenes' \in Seq(Orden)
<1>1. ordenes[o] \in Orden /\ o \in 1..Len(ordenes)
  BY ElementOfSeq, LenProperties DEF TypeOK
<1> DEFINE nueva == [ordenes[o] EXCEPT !.status = "asignada", !.asignada = TRUE]
<1>2. nueva \in Orden
  BY <1>1 DEF Orden, Estados
<1>3. ordenes' = [ordenes EXCEPT ![o] = nueva]
  BY DEF AsignarOrden
<1>4. ordenes' \in Seq(Orden)
  <2> HIDE DEF nueva
  <2> QED BY <1>1, <1>2, <1>3, ExceptSeq DEF TypeOK
<1>5. carts' \in [Carts -> Cart]
  <2>1. \A c \in Carts : [carts EXCEPT ![c].asignado = TRUE] \in [Carts -> Cart]
    BY DEF TypeOK, Cart
  <2>2. \/ UNCHANGED carts
        \/ \E c \in Carts : carts' = [carts EXCEPT ![c].asignado = TRUE]
    BY DEF AsignarOrden
  <2> QED BY <2>1, <2>2 DEF TypeOK
<1> QED BY <1>4, <1>5

\* An order whose status is named by a request is an order, and so its cart.
LEMMA UpdateOrderStatusConserva ==
  ASSUME TypeOK, NEW o \in DOMAIN ordenes, NEW e \in ObjetivosOrden,
         UpdateOrderStatus(o, e)
  PROVE  carts' \in [Carts -> Cart] /\ ordenes' \in Seq(Orden)
<1>1. ordenes[o] \in Orden /\ o \in 1..Len(ordenes)
  BY ElementOfSeq, LenProperties DEF TypeOK
<1>2. e \in Estados /\ MapOrderStatusToCartStatus(e) \in Estados
  BY CartStockAssumption DEF MapOrderStatusToCartStatus, Estados, Editables
<1>3. ordenes' \in Seq(Orden)
  <2>1. [ordenes[o] EXCEPT !.status = e] \in Orden
    BY <1>1, <1>2, OrdenConStatus
  <2>2. ordenes' = [ordenes EXCEPT ![o] = [ordenes[o] EXCEPT !.status = e]]
    BY DEF UpdateOrderStatus
  <2> QED BY <1>1, <2>1, <2>2, ExceptSeq DEF TypeOK
<1>4. carts' \in [Carts -> Cart]
  BY <1>1, <1>2, CartsTipo DEF UpdateOrderStatus, Orden
<1> QED BY <1>3, <1>4

\* A checkout sells from the deposit what the deposit has: it touches no other
\* location, but there the reservations may be left without stock.
LEMMA CheckoutCartConserva ==
  ASSUME IInv, NEW c \in Carts, CheckoutCart(c)
  PROVE  /\ stock' \in [Pares -> Int] /\ Cuidada
         /\ MismasLineas
         /\ carts' \in [Carts -> Cart] /\ ordenes' \in Seq(Orden)
<1> DEFINE confirmados == {i \in ItemsDelCarrito(c) : Confirmado(i)}
           conStock == {i \in Visibles(confirmados) :
                          stock[items[i].sku, Deposito] >= items[i].qty}
           vendido(s) ==
             IF \E i \in conStock : items[i].sku = s
               THEN items[CHOOSE i \in conStock : items[i].sku = s].qty ELSE 0
<1>1. TypeOK
  BY DEF IInv
<1>2. /\ stock' = [p \in Pares |-> IF p[2] = Deposito
                                     THEN stock[p] - vendido(p[1]) ELSE stock[p]]
      /\ UNCHANGED <<reserved, nextItem, remitos>>
  BY DEF CheckoutCart
<1>3. \A p \in Pares : /\ vendido(p[1]) \in Int
                       /\ (p[2] = Deposito /\ vendido(p[1]) # 0) =>
                            vendido(p[1]) <= stock[p]
  <2> SUFFICES ASSUME NEW p \in Pares
               PROVE  /\ vendido(p[1]) \in Int
                      /\ (p[2] = Deposito /\ vendido(p[1]) # 0) =>
                           vendido(p[1]) <= stock[p]
    OBVIOUS
  <2>1. p = <<p[1], p[2]>> /\ stock[p] \in Int
    BY <1>1 DEF Pares, TypeOK
  <2>2. CASE \E i \in conStock : items[i].sku = p[1]
    <3> DEFINE i == CHOOSE i \in conStock : items[i].sku = p[1]
    <3>1. i \in conStock /\ items[i].sku = p[1]
      BY <2>2
    <3>2. vendido(p[1]) = items[i].qty
      BY <2>2
    <3>3. i \in DOMAIN items /\ stock[<<items[i].sku, Deposito>>] >= items[i].qty
      BY <3>1 DEF Visibles, ItemsDelCarrito
    <3> HIDE DEF i, conStock, vendido
    <3>4. items[i].qty \in Int
      BY <1>1, <3>3 DEF TypeOK, CartItem
    <3>5. p[2] = Deposito => stock[p] >= items[i].qty
      BY <2>1, <3>1, <3>3, Zenon
    <3> QED BY <3>2, <3>4, <3>5
  <2>3. CASE ~ \E i \in conStock : items[i].sku = p[1]
    <3>1. vendido(p[1]) = 0
      BY <2>3
    <3> HIDE DEF vendido
    <3> QED BY <2>1, <3>1
  <2> QED BY <2>2, <2>3
<1>4. stock' \in [Pares -> Int] /\ Cuidada
  <2> HIDE DEF vendido
  <2>1. \A p \in Pares : stock[p] \in Int
    BY <1>1 DEF TypeOK
  <2>2. stock' \in [Pares -> Int]
    BY <1>2, <1>3, <2>1
  <2>3. ASSUME NEW p \in Pares, Sana(p)
        PROVE  Sana(p)'
    <3>1. stock[p] >= 0
      BY <2>3 DEF Sana
    <3>2. /\ stock'[p] >= 0 /\ reserved'[p] = reserved[p]
          /\ p[2] # Deposito => stock'[p] = stock[p]
      BY <1>2, <1>3, <2>1, <3>1
    <3> QED BY <2>3, <3>2 DEF Sana
  <2> QED BY <2>2, <2>3 DEF Cuidada
<1>5. MismasLineas
  <2>1. \A i \in DOMAIN items :
          LET n == [items[i] EXCEPT !.chk = TRUE, !.conf = FALSE, !.loc = SinLoc]
          IN n \in CartItem /\ n.cart = items[i].cart /\ n.sku = items[i].sku
    BY <1>1 DEF TypeOK, CartItem
  <2>2. \/ items' = [i \in DOMAIN items |->
                IF i \in confirmados
                  THEN [items[i] EXCEPT !.chk = TRUE, !.conf = FALSE,
                                        !.loc = SinLoc]
                  ELSE items[i]]
        \/ items' = Borrar(ItemsDelCarrito(c))
    BY DEF CheckoutCart
  <2> HIDE DEF confirmados
  <2> QED BY <1>1, <2>1, <2>2 DEF TypeOK, MismasLineas, Borrar
<1>6. carts' \in [Carts -> Cart]
  <2>1. UNCHANGED carts \/ carts' = [carts EXCEPT ![c].estado = "finalizado"]
    BY DEF CheckoutCart
  <2>2. "finalizado" \in Estados
    BY DEF Estados
  <2>3. [carts EXCEPT ![c].estado = "finalizado"] \in [Carts -> Cart]
    BY <1>1, <2>2, CartsTipo
  <2>4. carts \in [Carts -> Cart]
    BY <1>1 DEF TypeOK
  <2> QED BY <2>1, <2>3, <2>4
<1>7. ordenes' \in Seq(Orden)
  <2> DEFINE nueva == [cart |-> c, status |-> "finalizada", asignada |-> TRUE]
  <2>1. \/ UNCHANGED ordenes
        \/ \E o \in OrdenesDe(c) :
             ordenes' = [ordenes EXCEPT ![o].status = "finalizada"]
        \/ ordenes' = Append(ordenes, nueva)
    BY DEF CheckoutCart
  <2>2. nueva \in Orden /\ "finalizada" \in Estados
    BY DEF Orden, Estados
  <2> HIDE DEF nueva
  <2>3. ASSUME NEW o \in OrdenesDe(c),
               ordenes' = [ordenes EXCEPT ![o].status = "finalizada"]
        PROVE  ordenes' \in Seq(Orden)
    <3>1. o \in 1..Len(ordenes) /\ ordenes[o] \in Orden
      BY <1>1, ElementOfSeq, LenProperties DEF OrdenesDe, TypeOK
    <3>2. [ordenes[o] EXCEPT !.status = "finalizada"] \in Orden
      BY <2>2, <3>1, OrdenConStatus
    <3>3. ordenes' =
            [ordenes EXCEPT ![o] = [ordenes[o] EXCEPT !.status = "finalizada"]]
      BY <2>3
    <3>4. ordenes \in Seq(Orden)
      BY <1>1 DEF TypeOK
    <3> DEFINE v == [ordenes[o] EXCEPT !.status = "finalizada"]
    <3> HIDE DEF v
    <3>5. v \in Orden /\ ordenes' = [ordenes EXCEPT ![o] = v]
      BY <3>2, <3>3 DEF v
    <3> QED BY <3>1, <3>4, <3>5, ExceptSeq
  <2>4. ordenes \in Seq(Orden)
    BY <1>1 DEF TypeOK
  <2> QED BY <2>1, <2>2, <2>3, <2>4, AppendProperties
<1> QED BY <1>4, <1>5, <1>6, <1>7

(***************************************************************************)
(* Stock administration.                                                   *)
(***************************************************************************)

\* A correction is refused when it leaves less than what is reserved.
LEMMA AdminConserva ==
  ASSUME IInv, NEW p \in Pares, NEW n \in 1..MaxStock,
         n >= reserved[p], stock' = [stock EXCEPT ![p] = n], UNCHANGED reserved
  PROVE  BuenasCuentas
<1>1. n \in Nat
  BY CartStockAssumption
<1>2. stock \in [Pares -> Int] /\ reserved \in [Pares -> Int] /\ reserved' = reserved
  BY DEF IInv, TypeOK
<1>3. /\ stock' \in [Pares -> Int]
      /\ \A q \in Pares : stock'[q] = IF q = p THEN n ELSE stock[q]
  BY <1>1, <1>2
<1>4. Respalda
  BY <1>1, <1>2, <1>3 DEF Respalda
<1>5. Cuidada
  <2>1. ASSUME NEW q \in Pares, Sana(q)
        PROVE  Sana(q)'
    <3>1. CASE q = p
      BY <1>1, <1>2, <1>3, <2>1, <3>1 DEF Sana
    <3>2. CASE q # p
      BY <1>2, <1>3, <2>1, <3>2 DEF Sana
    <3> QED BY <3>1, <3>2
  <2> QED BY <2>1 DEF Cuidada
<1> QED BY <1>2, <1>3, <1>4, <1>5 DEF BuenasCuentas

(***************************************************************************)
(* The inductive step and the theorems.                                    *)
(***************************************************************************)

\* The parts of a step that keep the invariant, put together.
LEMMA Junta ==
  ASSUME IInv, BuenasCuentas, MismasLineas, UNCHANGED nextItem,
         carts' \in [Carts -> Cart], ordenes' \in Seq(Orden),
         remitos' \in Seq(Remito), OrigenesValidos'
  PROVE  IInv'
BY MismasLineasBastan DEF IInv, TypeOK, BuenasCuentas

\* The handlers of the cart keep the invariant and leave no row short.
LEMMA PasoCarritoConserva ==
  ASSUME IInv, PasoCarrito
  PROVE  IInv' /\ Respalda /\ Cuidada
<1>1. TypeOK /\ OrigenesValidos
  BY DEF IInv
<1>2. /\ carts \in [Carts -> Cart] /\ ordenes \in Seq(Orden)
      /\ remitos \in Seq(Remito)
  BY <1>1 DEF TypeOK
<1>3. UNCHANGED remitos => remitos' \in Seq(Remito) /\ OrigenesValidos'
  BY <1>1, <1>2 DEF OrigenesValidos
<1>4. BuenasCuentas => Respalda /\ Cuidada
  BY DEF BuenasCuentas
<1>5. PICK c \in Carts :
        \/ \E s \in Skus, q \in Cantidades, l \in Locs \cup {SinLoc},
              chk \in Verificar : AddToCart(c, s, q, l, chk)
        \/ \E s \in Skus : RemoveFromCart(c, s)
        \/ \E s \in Skus, r \in Pedidos : UpdateCartItem(c, s, r)
        \/ GetCart(c)
        \/ ClearCart(c)
        \/ ListoParaPago(c)
        \/ Pagado(c)
        \/ \E e \in Objetivos : OtroEstado(c, e)
  BY DEF PasoCarrito
<1>6. ASSUME NEW s \in Skus, NEW q \in Cantidades, NEW l \in Locs \cup {SinLoc},
             NEW chk \in Verificar, AddToCart(c, s, q, l, chk)
      PROVE  IInv' /\ Respalda /\ Cuidada
  <2>1. q \in Nat /\ chk \in BOOLEAN
    BY CartStockAssumption
  <2>2. carts' \in [Carts -> Cart]
    BY <1>1, <1>6, CarritoParaAgregarTipo DEF AddToCart
  <2>3. UNCHANGED <<stock, remitos, ordenes>>
    BY <1>6 DEF AddToCart
  <2>4. ASSUME NEW i \in ItemsDe(c, s), SumarAItem(i, q, l, chk)
        PROVE  IInv' /\ Respalda /\ Cuidada
    <3>1. i \in DOMAIN items
      BY DEF ItemsDe, ItemsDelCarrito
    <3>2. UNCHANGED nextItem
      BY <2>4 DEF SumarAItem
    <3> QED BY <1>2, <1>3, <1>4, <2>1, <2>2, <2>3, <2>4, <3>1, <3>2,
               SumarAItemConserva, Junta
  <2>5. CASE ItemsDe(c, s) = {} /\ NuevoItem(c, s, q, l, chk)
    <3>1. /\ BuenasCuentas
          /\ nextItem' \in Nat \ {0}
          /\ DOMAIN items' \subseteq 1..(nextItem' - 1)
          /\ \A i \in DOMAIN items' : items'[i] \in CartItem
          /\ UnItemPorSku'
      BY <2>1, <2>3, <2>5, NuevoItemConserva
    <3> QED BY <1>2, <1>3, <1>4, <2>2, <2>3, <3>1
            DEF IInv, TypeOK, BuenasCuentas
  <2>6. CASE AltaRechazada(s, q, l)
    <3>1. UNCHANGED <<stock, reserved, items, nextItem>>
      BY <2>3, <2>6 DEF AltaRechazada
    <3> QED BY <1>2, <1>3, <1>4, <2>2, <2>3, <3>1, CuentasIguales,
               LineasIguales, Junta
  <2> QED BY <1>6, <2>4, <2>5, <2>6 DEF AddToCart
<1>7. ASSUME NEW s \in Skus, RemoveFromCart(c, s)
      PROVE  IInv' /\ Respalda /\ Cuidada
  <2>1. PICK i \in ItemsDe(c, s) :
          reserved' = LiberarTodos({i}) /\ items' = Borrar({i})
    BY <1>7 DEF RemoveFromCart
  <2>2. {i} \subseteq DOMAIN items
    BY DEF ItemsDe, ItemsDelCarrito
  <2>3. UNCHANGED <<stock, carts, nextItem, remitos, ordenes>>
    BY <1>7 DEF RemoveFromCart
  <2>4. BuenasCuentas /\ MismasLineas
    BY <2>1, <2>2, <2>3, BorrarConserva
  <2> QED BY <1>2, <1>3, <1>4, <2>3, <2>4, Junta
<1>8. ASSUME NEW s \in Skus, NEW r \in Pedidos, UpdateCartItem(c, s, r)
      PROVE  IInv' /\ Respalda /\ Cuidada
  <2>1. UNCHANGED <<stock, carts, nextItem, remitos, ordenes>>
    BY <1>8 DEF UpdateCartItem
  <2>2. BuenasCuentas /\ MismasLineas
    BY <1>8, UpdateCartItemConserva
  <2> QED BY <1>2, <1>3, <1>4, <2>1, <2>2, Junta
<1>9. CASE GetCart(c)
  <2>1. CarritoNuevo("pendiente") \in Cart
    BY DEF CarritoNuevo, CartNoCreado, Cart, Estados, Editables
  <2>2. carts' \in [Carts -> Cart]
    BY <1>2, <1>9, <2>1 DEF GetCart
  <2>3. UNCHANGED <<stock, reserved, items, nextItem, remitos, ordenes>>
    BY <1>9 DEF GetCart
  <2> QED BY <1>2, <1>3, <1>4, <2>2, <2>3, CuentasIguales, LineasIguales, Junta
<1>10. CASE ClearCart(c)
  <2>1. ItemsDelCarrito(c) \subseteq DOMAIN items
    BY DEF ItemsDelCarrito
  <2>2. UNCHANGED <<stock, carts, nextItem, remitos, ordenes>>
    BY <1>10 DEF ClearCart
  <2>3. BuenasCuentas /\ MismasLineas
    BY <1>10, <2>1, <2>2, BorrarConserva DEF ClearCart
  <2> QED BY <1>2, <1>3, <1>4, <2>2, <2>3, Junta
<1>11. CASE ListoParaPago(c)
  <2>1. /\ BuenasCuentas /\ MismasLineas
        /\ carts' \in [Carts -> Cart]
        /\ remitos' \in Seq(Remito) /\ OrigenesValidos'
    BY <1>11, ListoParaPagoConserva
  <2>2. UNCHANGED nextItem
    BY <1>11 DEF ListoParaPago
  <2>3. ordenes' \in Seq(Orden)
    BY <1>1, <1>11, OrdenesTipo DEF ListoParaPago
  <2> QED BY <1>4, <2>1, <2>2, <2>3, Junta
<1>12. CASE Pagado(c)
  <2>1. BuenasCuentas /\ MismasLineas /\ carts' \in [Carts -> Cart]
    BY <1>12, PagadoConserva
  <2>2. UNCHANGED <<nextItem, remitos>>
    BY <1>12 DEF Pagado
  <2>3. ordenes' \in Seq(Orden)
    BY <1>1, <1>12, OrdenesTipo DEF Pagado
  <2> QED BY <1>3, <1>4, <2>1, <2>2, <2>3, Junta
<1>13. ASSUME NEW e \in Objetivos, OtroEstado(c, e)
       PROVE  IInv' /\ Respalda /\ Cuidada
  <2>1. e \in Estados
    BY CartStockAssumption
  <2>2. carts' \in [Carts -> Cart]
    BY <1>1, <1>13, <2>1, CartsTipo DEF OtroEstado
  <2>3. ordenes' \in Seq(Orden)
    BY <1>1, <1>13, OrdenesTipo DEF OtroEstado
  <2>4. UNCHANGED <<stock, reserved, items, nextItem, remitos>>
    BY <1>13 DEF OtroEstado
  <2> QED BY <1>3, <1>4, <2>2, <2>3, <2>4, CuentasIguales, LineasIguales, Junta
<1> QED BY <1>5, <1>6, <1>7, <1>8, <1>9, <1>10, <1>11, <1>12, <1>13

\* The expiration job and the reception of remitos keep the invariant and leave
\* no row short.
LEMMA PasoReservaConserva ==
  ASSUME IInv, PasoReserva
  PROVE  IInv' /\ Respalda /\ Cuidada
<1>1. TypeOK /\ OrigenesValidos
  BY DEF IInv
<1>2. /\ carts \in [Carts -> Cart] /\ ordenes \in Seq(Orden)
      /\ remitos \in Seq(Remito)
  BY <1>1 DEF TypeOK
<1>3. UNCHANGED remitos => remitos' \in Seq(Remito) /\ OrigenesValidos'
  BY <1>1, <1>2 DEF OrigenesValidos
<1>4. BuenasCuentas => Respalda /\ Cuidada
  BY DEF BuenasCuentas
<1>5. ASSUME NEW c \in Carts, VenceReserva(c)
      PROVE  IInv' /\ Respalda /\ Cuidada
  <2>1. carts' \in [Carts -> Cart]
    BY <1>2, <1>5 DEF VenceReserva, Cart
  <2>2. UNCHANGED <<stock, reserved, items, nextItem, remitos, ordenes>>
    BY <1>5 DEF VenceReserva
  <2> QED BY <1>2, <1>3, <1>4, <2>1, <2>2, CuentasIguales, LineasIguales, Junta
<1>6. ASSUME NEW c \in Carts, ExpireCartReservations(c)
      PROVE  IInv' /\ Respalda /\ Cuidada
  <2>1. BuenasCuentas /\ MismasLineas /\ carts' \in [Carts -> Cart]
    BY <1>6, ExpireCartReservationsConserva
  <2>2. UNCHANGED <<nextItem, remitos, ordenes>>
    BY <1>6 DEF ExpireCartReservations
  <2> QED BY <1>2, <1>3, <1>4, <2>1, <2>2, Junta
<1>7. ASSUME NEW r \in DOMAIN remitos, ConfirmarRecepcionRemito(r)
      PROVE  IInv' /\ Respalda /\ Cuidada
  <2>1. /\ BuenasCuentas /\ MismasLineas
        /\ remitos' \in Seq(Remito) /\ OrigenesValidos'
    BY <1>7, ConfirmarRecepcionRemitoConserva
  <2>2. UNCHANGED <<carts, nextItem, ordenes>>
    BY <1>7 DEF ConfirmarRecepcionRemito
  <2> QED BY <1>2, <1>4, <2>1, <2>2, Junta
<1> QED BY <1>5, <1>6, <1>7 DEF PasoReserva

\* The handlers of orders keep the invariant, and only a checkout may leave a
\* row short.
LEMMA PasoOrdenConserva ==
  ASSUME IInv, PasoOrden
  PROVE  IInv' /\ Cuidada /\ (Respalda \/ \E c \in Carts : CheckoutCart(c))
<1>1. TypeOK /\ OrigenesValidos
  BY DEF IInv
<1>2. remitos \in Seq(Remito)
  BY <1>1 DEF TypeOK
<1>3. UNCHANGED remitos => remitos' \in Seq(Remito) /\ OrigenesValidos'
  BY <1>1, <1>2 DEF OrigenesValidos
<1>4. BuenasCuentas => Respalda /\ Cuidada
  BY DEF BuenasCuentas
<1>5. ASSUME UNCHANGED <<stock, reserved, items, nextItem, remitos>>,
             carts' \in [Carts -> Cart], ordenes' \in Seq(Orden)
      PROVE  IInv' /\ Respalda /\ Cuidada
  BY <1>3, <1>4, <1>5, CuentasIguales, LineasIguales, Junta
<1>6. ASSUME NEW c \in Carts, SubmitCartForAssignment(c)
      PROVE  IInv' /\ Respalda /\ Cuidada
  BY <1>1, <1>5, <1>6, SubmitCartForAssignmentConserva
     DEF SubmitCartForAssignment
<1>7. ASSUME NEW c \in Carts, CheckoutCart(c)
      PROVE  IInv' /\ Cuidada
  <2>1. /\ stock' \in [Pares -> Int] /\ Cuidada
        /\ MismasLineas
        /\ carts' \in [Carts -> Cart] /\ ordenes' \in Seq(Orden)
    BY <1>7, CheckoutCartConserva
  <2>2. UNCHANGED <<reserved, nextItem, remitos>>
    BY <1>7 DEF CheckoutCart
  <2>3. reserved' \in [Pares -> Int]
    BY <1>1, <2>2 DEF TypeOK
  <2> QED BY <1>3, <2>1, <2>2, <2>3, MismasLineasBastan DEF IInv, TypeOK
<1>8. ASSUME NEW o \in DOMAIN ordenes, AsignarOrden(o)
      PROVE  IInv' /\ Respalda /\ Cuidada
  BY <1>1, <1>5, <1>8, AsignarOrdenConserva DEF AsignarOrden
<1>9. ASSUME NEW o \in DOMAIN ordenes, NEW e \in ObjetivosOrden,
             UpdateOrderStatus(o, e)
      PROVE  IInv' /\ Respalda /\ Cuidada
  BY <1>1, <1>5, <1>9, UpdateOrderStatusConserva DEF UpdateOrderStatus
<1> QED BY <1>6, <1>7, <1>8, <1>9
        DEF PasoOrden, AssignOrderSelf, AssignOrderAdmin

\* A correction of the administrator keeps the invariant and leaves no row
\* short.
LEMMA PasoAdminConserva ==
  ASSUME IInv, PasoAdmin
  PROVE  IInv' /\ Respalda /\ Cuidada
<1>1. PICK s \in Skus, l \in Locs, n \in 1..MaxStock :
        SetVariantStock(s, l, n) \/ AddProductStocks(s, l, n)
  BY DEF PasoAdmin
<1>2. <<s, l>> \in Pares
  BY DEF Pares
<1>3. /\ n >= reserved[<<s, l>>] /\ stock' = [stock EXCEPT ![<<s, l>>] = n]
      /\ UNCHANGED <<reserved, carts, items, nextItem, remitos, ordenes>>
  BY <1>1 DEF SetVariantStock, AddProductStocks
<1>4. BuenasCuentas
  BY <1>2, <1>3, AdminConserva
<1>5. /\ carts' \in [Carts -> Cart] /\ ordenes' \in Seq(Orden)
      /\ remitos' \in Seq(Remito) /\ OrigenesValidos'
  BY <1>3 DEF IInv, TypeOK, OrigenesValidos
<1> QED BY <1>3, <1>4, <1>5, LineasIguales, Junta DEF BuenasCuentas

\* The invariant holds before the first request.
LEMMA InitIInv == Init => IInv
<1> SUFFICES ASSUME Init PROVE IInv
  OBVIOUS
<1>1. CartNoCreado \in Cart
  BY DEF CartNoCreado, Cart
<1>2. TypeOK
  BY <1>1, CartStockAssumption, EmptySeq DEF Init, TypeOK
<1>3. OrigenesValidos /\ UnItemPorSku
  BY DEF Init, OrigenesValidos, UnItemPorSku
<1> QED BY <1>2, <1>3 DEF IInv

\* Every step keeps the invariant and cares for the sound rows, and a step other
\* than a checkout leaves no row with less stock than reservations that had
\* enough.
LEMMA PasoConserva ==
  ASSUME IInv, [Next]_vars
  PROVE  IInv' /\ Cuidada /\ (Respalda \/ \E c \in Carts : CheckoutCart(c))
<1>1. CASE Next
  BY <1>1, PasoCarritoConserva, PasoReservaConserva, PasoOrdenConserva,
     PasoAdminConserva DEF Next
<1>2. CASE UNCHANGED vars
  <2>1. IInv' /\ Respalda
    BY <1>2 DEF vars, IInv, TypeOK, OrigenesValidos, UnItemPorSku, Respalda
  <2>2. Cuidada
    BY <1>2 DEF vars, Cuidada, Sana
  <2> QED BY <2>1, <2>2
<1> QED BY <1>1, <1>2

\* In every reachable state of the carts, their lines, the location_stocks rows
\* and the remitos, whatever the requests and their order: the rows have their
\* types, remitos leave from a location other than the deposit, and a cart names
\* a SKU once.
THEOREM SpecIInv == Spec => []IInv
<1>1. Init => IInv
  BY InitIInv
<1>2. IInv /\ [Next]_vars => IInv'
  BY PasoConserva
<1> QED BY <1>1, <1>2, PTL DEF Spec

\* Whatever the requests, negative quantities included: a row whose counters are
\* not negative and, away from the deposit, whose stock covers what it promises
\* stays so in every step that does not reserve a negative quantity in it.
THEOREM SpecFilasSanas == Spec => FilasSanas
<1>1. IInv /\ [Next]_vars => [Cuidada]_vars
  BY PasoConserva
<1>2. Spec => [][Cuidada]_vars
  BY <1>1, SpecIInv, PTL DEF Spec
<1> QED BY <1>2 DEF Cuidada, FilasSanas

\* Only CheckoutCart, which reads stock and not reserved, can leave a row with
\* more reservations than stock.
THEOREM SpecSoloCheckoutSobrevende == Spec => SoloCheckoutSobrevende
<1> DEFINE A == \A p \in Pares :
                  (0 <= stock[p] /\ reserved[p] <= stock[p] /\ reserved'[p] > stock'[p])
                     => \E c \in Carts : CheckoutCart(c)
<1>1. IInv /\ [Next]_vars /\ IInv' => [A]_vars
  <2> SUFFICES ASSUME IInv, [Next]_vars, IInv'
               PROVE  A
    OBVIOUS
  <2>1. Respalda \/ \E c \in Carts : CheckoutCart(c)
    BY PasoConserva
  <2>2. ASSUME Respalda
        PROVE  A
    <3>1. \A p \in Pares : reserved'[p] \in Int /\ stock'[p] \in Int
      BY DEF IInv, TypeOK
    <3> QED BY <2>2, <3>1 DEF Respalda
  <2> HIDE DEF A
  <2>3. ASSUME \E c \in Carts : CheckoutCart(c)
        PROVE  A
    BY <2>3 DEF A
  <2> QED BY <2>1, <2>2, <2>3
<1> HIDE DEF A
<1>2. Spec => [][A]_vars
  BY <1>1, SpecIInv, PTL DEF Spec
<1> QED BY <1>2 DEF A, SoloCheckoutSobrevende

(***************************************************************************)
(* The sum of a function to Int.                                           *)
(***************************************************************************)

\* The units of a function are finitely many, and those of one argument can be
\* taken apart from the others.
LEMMA UnidadesFinitas ==
  ASSUME NEW S, IsFiniteSet(S), NEW f \in [S -> Int]
  PROVE  IsFiniteSet(Unidades(f)) /\ Cardinality(Unidades(f)) \in Nat
<1> DEFINE h == [x \in S |-> {x} \X (1..f[x])]
           T == {{x} \X (1..f[x]) : x \in S}
<1>1. h \in Surjection(S, T)
  BY DEF Surjection
<1>2. IsFiniteSet(T)
  BY <1>1, FS_Surjection
<1>3. ASSUME NEW x \in S
      PROVE  IsFiniteSet({x} \X (1..f[x]))
  <2>1. f[x] \in Int /\ IsFiniteSet({x})
    BY FS_Singleton
  <2>2. IsFiniteSet(1..f[x])
    BY <2>1, FS_Interval
  <2> QED BY <2>1, <2>2, FS_Product
<1>4. IsFiniteSet(UNION T)
  BY <1>2, <1>3, FS_UNION
<1> QED BY <1>4, FS_CardinalityType DEF Unidades

\* The units of one argument can be taken apart from the others.
LEMMA UnidadesSin ==
  ASSUME NEW S, IsFiniteSet(S), NEW f \in [S -> Int], NEW x \in S,
         NEW g, g = [y \in S \ {x} |-> f[y]]
  PROVE  /\ Cardinality(Unidades(g)) \in Nat
         /\ Cardinality(Unidades(f))
              = Cardinality(Unidades(g)) + (IF f[x] > 0 THEN f[x] ELSE 0)
<1> DEFINE R == S \ {x}
           X == {x} \X (1..f[x])
           n == IF f[x] > 0 THEN f[x] ELSE 0
<1>1. IsFiniteSet(R) /\ g \in [R -> Int]
  BY FS_RemoveElement
<1>2. IsFiniteSet(Unidades(g)) /\ Cardinality(Unidades(g)) \in Nat
  BY <1>1, UnidadesFinitas
<1>3. IsFiniteSet(X) /\ Cardinality(X) = n /\ n \in Nat
  <2>1. IsFiniteSet({x}) /\ Cardinality({x}) = 1
    BY FS_Singleton
  <2>2. IsFiniteSet(1..f[x]) /\ Cardinality(1..f[x]) = n
    <3>1. f[x] \in Int
      OBVIOUS
    <3>2. /\ IsFiniteSet(1..f[x])
          /\ Cardinality(1..f[x]) = IF 1 > f[x] THEN 0 ELSE f[x] - 1 + 1
      BY <3>1, FS_Interval
    <3> QED BY <3>1, <3>2
  <2>3. IsFiniteSet(X) /\ Cardinality(X) = 1 * Cardinality(1..f[x])
    BY <2>1, <2>2, FS_Product
  <2>4. n \in Nat
    OBVIOUS
  <2> HIDE DEF X, n
  <2> QED BY <2>2, <2>3, <2>4
<1>4. Unidades(f) = Unidades(g) \cup X
  BY DEF Unidades
<1>5. Unidades(g) \cap X = {}
  BY DEF Unidades
<1> HIDE DEF X, n
<1>6. Cardinality(Unidades(g) \cup X)
        = Cardinality(Unidades(g)) + Cardinality(X) - Cardinality(Unidades(g) \cap X)
  BY <1>2, <1>3, FS_Union
<1>7. Cardinality(Unidades(g) \cap X) = 0
  BY <1>5, FS_EmptySet
<1>8. Cardinality(Unidades(f)) = Cardinality(Unidades(g)) + n
  BY <1>2, <1>3, <1>4, <1>6, <1>7
<1> QED BY <1>2, <1>8 DEF n

\* A sum is an integer.
LEMMA SumaInt ==
  ASSUME NEW S, IsFiniteSet(S), NEW f \in [S -> Int]
  PROVE  Suma(f) \in Int
<1> DEFINE m == [x \in S |-> -f[x]]
<1>1. m \in [S -> Int] /\ m = [x \in DOMAIN f |-> -f[x]]
  OBVIOUS
<1> HIDE DEF m
<1>2. Cardinality(Unidades(f)) \in Nat /\ Cardinality(Unidades(m)) \in Nat
  BY <1>1, UnidadesFinitas
<1> QED BY <1>1, <1>2 DEF Suma

\* A summand can be taken apart from the others.
LEMMA SumaSin ==
  ASSUME NEW S, IsFiniteSet(S), NEW f \in [S -> Int], NEW x \in S
  PROVE  /\ Suma([y \in S \ {x} |-> f[y]]) \in Int
         /\ Suma(f) = Suma([y \in S \ {x} |-> f[y]]) + f[x]
<1> DEFINE g == [y \in S \ {x} |-> f[y]]
           fm == [y \in S |-> -f[y]]
           gm == [y \in S \ {x} |-> -f[y]]
<1>1. /\ fm \in [S -> Int] /\ fm = [y \in DOMAIN f |-> -f[y]]
      /\ gm = [y \in DOMAIN g |-> -g[y]] /\ gm = [y \in S \ {x} |-> fm[y]]
      /\ fm[x] = -f[x] /\ f[x] \in Int
  OBVIOUS
<1>2. g = [y \in S \ {x} |-> f[y]]
  OBVIOUS
<1> HIDE DEF g, fm, gm
<1>3. /\ Cardinality(Unidades(g)) \in Nat
      /\ Cardinality(Unidades(f))
           = Cardinality(Unidades(g)) + (IF f[x] > 0 THEN f[x] ELSE 0)
  <2>1. PICK h \in [S -> Int] : h = f
    OBVIOUS
  <2>2. g = [y \in S \ {x} |-> h[y]]
    BY <1>2, <2>1
  <2>3. /\ Cardinality(Unidades(g)) \in Nat
        /\ Cardinality(Unidades(h))
             = Cardinality(Unidades(g)) + (IF h[x] > 0 THEN h[x] ELSE 0)
    BY <2>2, UnidadesSin
  <2> QED BY <2>1, <2>3
<1>4. /\ Cardinality(Unidades(gm)) \in Nat
      /\ Cardinality(Unidades(fm))
           = Cardinality(Unidades(gm)) + (IF fm[x] > 0 THEN fm[x] ELSE 0)
  BY <1>1, UnidadesSin
<1>5. /\ Suma(f) = Cardinality(Unidades(f)) - Cardinality(Unidades(fm))
      /\ Suma(g) = Cardinality(Unidades(g)) - Cardinality(Unidades(gm))
  BY <1>1 DEF Suma
<1>6. Suma(g) \in Int /\ Suma(f) = Suma(g) + f[x]
  BY <1>1, <1>3, <1>4, <1>5
<1> QED BY <1>2, <1>6

(***************************************************************************)
(* What the lines hold in a row.                                           *)
(***************************************************************************)

\* What the line i holds in the row p.
Propio(its, i, p) == IF i \in EnFila(its, p) THEN its[i].resv ELSE 0

\* What the lines other than i hold there.
Ajeno(its, i, p) == Suma([j \in EnFila(its, p) \ {i} |-> its[j].resv])

\* What the lines hold in a row is what one of them holds and what the others do.
LEMMA EnItemsReparte ==
  ASSUME NEW its, IsFiniteSet(DOMAIN its), \A j \in DOMAIN its : its[j].resv \in Int,
         NEW i, NEW p
  PROVE  /\ Ajeno(its, i, p) \in Int /\ Propio(its, i, p) \in Int
         /\ EnItems(its, p) = Ajeno(its, i, p) + Propio(its, i, p)
<1> DEFINE S == EnFila(its, p)
           f == [j \in S |-> its[j].resv]
<1>1. S \subseteq DOMAIN its /\ IsFiniteSet(S) /\ f \in [S -> Int]
  <2>1. S \subseteq DOMAIN its
    BY DEF EnFila
  <2>2. IsFiniteSet(S)
    BY <2>1, FS_Subset
  <2> QED BY <2>1, <2>2
<1>2. EnItems(its, p) = Suma(f)
  BY DEF EnItems
<1>3. CASE i \in S
  <2>1. Ajeno(its, i, p) = Suma([j \in S \ {i} |-> f[j]])
    <3>1. [j \in S \ {i} |-> f[j]] = [j \in S \ {i} |-> its[j].resv]
      OBVIOUS
    <3> QED BY <3>1 DEF Ajeno
  <2>2. Propio(its, i, p) = f[i] /\ f[i] \in Int
    BY <1>1, <1>3 DEF Propio
  <2> HIDE DEF f, S
  <2>3. /\ Suma([j \in S \ {i} |-> f[j]]) \in Int
        /\ Suma(f) = Suma([j \in S \ {i} |-> f[j]]) + f[i]
    BY <1>1, <1>3, SumaSin
  <2> QED BY <1>2, <2>1, <2>2, <2>3
<1>4. CASE i \notin S
  <2>1. S \ {i} = S
    BY <1>4
  <2>2. Ajeno(its, i, p) = Suma(f) /\ Propio(its, i, p) = 0
    BY <1>4, <2>1 DEF Ajeno, Propio
  <2>3. Suma(f) \in Int
    BY <1>1, SumaInt
  <2> HIDE DEF f, S
  <2> QED BY <1>2, <2>2, <2>3
<1> QED BY <1>3, <1>4

\* The lines are finitely many.
LEMMA LineasFinitas ==
  ASSUME NEW its, NEW n \in Nat \ {0}, DOMAIN its \subseteq 1..(n - 1),
         \A i \in DOMAIN its : its[i] \in CartItem
  PROVE  IsFiniteSet(DOMAIN its) /\ \A i \in DOMAIN its : its[i].resv \in Int
<1>1. n - 1 \in Int
  OBVIOUS
<1>2. IsFiniteSet(1..(n - 1))
  BY <1>1, FS_Interval
<1>3. IsFiniteSet(DOMAIN its)
  BY <1>2, FS_Subset
<1>4. \A x \in CartItem : x.resv \in Int
  BY DEF CartItem
<1> QED BY <1>3, <1>4

\* In the row p nothing moves but what the line i holds, and the counter follows it.
Sigue(i, p) ==
  /\ \A j : j # i =>
       /\ j \in EnFila(items', p) <=> j \in EnFila(items, p)
       /\ j \in EnFila(items, p) => items'[j].resv = items[j].resv
  /\ reserved'[p] = reserved[p] - Propio(items, i, p) + Propio(items', i, p)

\* A counter that follows the lines keeps its distance from what they hold.
LEMMA SigueBrecha ==
  ASSUME TypeOK, TypeOK', NEW p \in Pares, NEW i, Sigue(i, p)
  PROVE  Brecha(reserved', items', p) = Brecha(reserved, items, p)
<1>1. /\ IsFiniteSet(DOMAIN items) /\ \A j \in DOMAIN items : items[j].resv \in Int
      /\ IsFiniteSet(DOMAIN items') /\ \A j \in DOMAIN items' : items'[j].resv \in Int
  BY LineasFinitas DEF TypeOK
<1>2. /\ EnItems(items, p) = Ajeno(items, i, p) + Propio(items, i, p)
      /\ Ajeno(items, i, p) \in Int /\ Propio(items, i, p) \in Int
  BY <1>1, EnItemsReparte
<1>3. /\ EnItems(items', p) = Ajeno(items', i, p) + Propio(items', i, p)
      /\ Propio(items', i, p) \in Int
  BY <1>1, EnItemsReparte
<1>4. Ajeno(items', i, p) = Ajeno(items, i, p)
  <2>1. EnFila(items', p) \ {i} = EnFila(items, p) \ {i}
    BY DEF Sigue
  <2>2. \A j \in EnFila(items, p) \ {i} : items'[j].resv = items[j].resv
    BY DEF Sigue
  <2>3. [j \in EnFila(items', p) \ {i} |-> items'[j].resv]
          = [j \in EnFila(items, p) \ {i} |-> items[j].resv]
    BY <2>1, <2>2
  <2> QED BY <2>3 DEF Ajeno
<1>5. reserved[p] \in Int
  BY DEF TypeOK
<1>6. reserved'[p] = reserved[p] - Propio(items, i, p) + Propio(items', i, p)
  BY DEF Sigue
<1>7. PICK a, b, d : a = Ajeno(items, i, p) /\ b = Propio(items, i, p)
                     /\ d = Propio(items', i, p)
  OBVIOUS
<1>8. /\ Brecha(reserved, items, p) = reserved[p] - (a + b)
      /\ Brecha(reserved', items', p) = (reserved[p] - b + d) - (a + d)
  BY <1>2, <1>3, <1>4, <1>6, <1>7 DEF Brecha
<1> QED BY <1>2, <1>3, <1>5, <1>7, <1>8

\* Lines and counters that stay as they are keep their distance.
LEMMA QuietoBrecha ==
  ASSUME UNCHANGED <<reserved, items>>, NEW p
  PROVE  Brecha(reserved', items', p) = Brecha(reserved, items, p)
OBVIOUS

\* What a line holds in a row is an integer.
LEMMA PropioInt ==
  ASSUME TypeOK, NEW i, NEW p
  PROVE  Propio(items, i, p) \in Int
BY DEF TypeOK, CartItem, Propio, EnFila

\* A line in the row names it.
LEMMA EnFilaUbicacion ==
  ASSUME NEW i, NEW p, i \in EnFila(items, p)
  PROVE  i \in DOMAIN items /\ Ubicacion(i) = p
BY DEF EnFila, Ubicacion

\* What a line that leaves the row p in a step outside Descuadra held there.
LEMMA DejaTodo ==
  ASSUME NEW p, ~Descuadra(p), NEW i \in EnFila(items, p), Deja(i)
  PROVE  /\ ~(items[i].resv < 0) /\ ~(reserved[p] < items[i].resv)
         /\ items[i].resv # 0 => /\ items[i].sku \in ConVariante
                                 /\ ~\E c \in Carts : CheckoutCart(c)
BY EnFilaUbicacion DEF Descuadra, QuedaSinDevolver

(***************************************************************************)
(* The counters follow the lines.                                          *)
(***************************************************************************)

\* Of the lines of a cart one at most is in a row, and Retenido is what it holds.
LEMMA RetenidoDeUna ==
  ASSUME IInv, NEW c, NEW S, S \subseteq ItemsDelCarrito(c), NEW p \in Pares, NEW i,
         \A j \in S : items[j].sku = p[1] => j = i
  PROVE  Retenido(S, p) = IF i \in S /\ Propio(items, i, p) > 0
                            THEN Propio(items, i, p) ELSE 0
<1>1. S \subseteq DOMAIN items
  BY DEF ItemsDelCarrito
<1>2. p[2] # SinLoc /\ p = <<p[1], p[2]>>
  BY CartStockAssumption DEF Pares
<1>3. \A j \in S : Ubicacion(j) = p => items[j].sku = p[1] /\ items[j].loc = p[2]
  BY <1>2 DEF Ubicacion
<1>4. \A j \in S : Ubicacion(j) = p => j = i
  BY <1>3
<1>5. CASE i \in S /\ Retiene(i) /\ Ubicacion(i) = p
  <2>1. (CHOOSE j \in S : Retiene(j) /\ Ubicacion(j) = p) = i
    BY <1>4, <1>5
  <2>2. Retenido(S, p) = items[i].resv
    BY <1>5, <2>1 DEF Retenido
  <2>3. Propio(items, i, p) = items[i].resv
    BY <1>1, <1>5 DEF Propio, EnFila, Ubicacion
  <2> QED BY <1>5, <2>2, <2>3 DEF Retiene
<1>6. CASE ~(i \in S /\ Retiene(i) /\ Ubicacion(i) = p)
  <2>1. Retenido(S, p) = 0
    BY <1>4, <1>6 DEF Retenido
  <2>2. ASSUME i \in S, Propio(items, i, p) > 0
        PROVE  FALSE
    <3>1. i \in EnFila(items, p) /\ items[i].resv > 0
      BY <2>2 DEF Propio
    <3>2. Ubicacion(i) = p
      BY <3>1, EnFilaUbicacion
    <3> QED BY <1>2, <1>3, <1>6, <2>2, <3>1, <3>2 DEF Retiene
  <2> QED BY <2>1, <2>2
<1> QED BY <1>5, <1>6

\* The line of a cart with the SKU of a row, if there is one.
LEMMA UnaDelSku ==
  ASSUME IInv, NEW c, NEW p
  PROVE  \E i : \A j \in ItemsDelCarrito(c) : items[j].sku = p[1] => j = i
<1>1. CASE \E i \in ItemsDelCarrito(c) : items[i].sku = p[1]
  BY <1>1 DEF IInv, UnItemPorSku, ItemsDelCarrito
<1>2. CASE \A i \in ItemsDelCarrito(c) : items[i].sku # p[1]
  BY <1>2
<1> QED BY <1>1, <1>2

\* Being in a row is having its SKU and its location.
LEMMA EnFilaDef ==
  ASSUME NEW its, NEW i, NEW p \in Pares
  PROVE  i \in EnFila(its, p) <=> i \in DOMAIN its /\ its[i].sku = p[1] /\ its[i].loc = p[2]
<1>1. p = <<p[1], p[2]>>
  BY DEF Pares
<1> QED BY <1>1 DEF EnFila

\* Deleting lines of a cart gives back what they hold in the row p, unless the
\* step is one that Descuadra names.
LEMMA BorrarSigue ==
  ASSUME IInv, NEW c, NEW S, S \subseteq ItemsDelCarrito(c),
         reserved' = LiberarTodos(S), items' = Borrar(S), NEW p \in Pares, ~Descuadra(p)
  PROVE  \E i : Sigue(i, p)
<1> DEFINE V == Visibles(S)
<1>1. PICK i : \A j \in ItemsDelCarrito(c) : items[j].sku = p[1] => j = i
  BY UnaDelSku
<1>2. V \subseteq S /\ \A j \in S : j \in V <=> items[j].sku \in ConVariante
  BY DEF Visibles
<1>3. PICK n : n = Propio(items, i, p)
  OBVIOUS
<1>4. n \in Int /\ reserved[p] \in Int
  BY <1>3, PropioInt DEF IInv, TypeOK
<1>5. Retenido(V, p) = IF i \in V /\ n > 0 THEN n ELSE 0
  BY <1>1, <1>2, <1>3, RetenidoDeUna
<1>6. reserved'[p] = IF Retenido(V, p) = 0 THEN reserved[p]
                     ELSE IF reserved[p] >= Retenido(V, p)
                       THEN reserved[p] - Retenido(V, p) ELSE 0
  BY DEF LiberarTodos
<1>7. DOMAIN items' = DOMAIN items \ S /\ \A j \in DOMAIN items' : items'[j] = items[j]
  BY DEF Borrar
<1>8. i \in S => n = 0 \/ (n > 0 /\ n <= reserved[p] /\ i \in V)
  <2>1. ASSUME i \in S, i \in EnFila(items, p)
        PROVE  n = 0 \/ (n > 0 /\ n <= reserved[p] /\ i \in V)
    <3>1. n = items[i].resv /\ Deja(i)
      BY <1>3, <1>7, <2>1 DEF Propio, Deja
    <3>2. /\ ~(items[i].resv < 0) /\ ~(reserved[p] < items[i].resv)
          /\ items[i].resv # 0 => items[i].sku \in ConVariante
      BY <2>1, <3>1, DejaTodo
    <3> HIDE DEF V
    <3> QED BY <1>2, <1>4, <2>1, <3>1, <3>2
  <2>2. CASE i \notin EnFila(items, p) /\ i \in S
    <3>1. n = 0
      BY <1>3, <2>2 DEF Propio
    <3> QED BY <3>1
  <2> QED BY <2>1, <2>2
<1> HIDE DEF V
<1>9. \A j : j # i =>
        /\ j \in EnFila(items', p) <=> j \in EnFila(items, p)
        /\ j \in EnFila(items, p) => items'[j].resv = items[j].resv
  <2>1. \A j \in S : j # i => j \notin EnFila(items, p)
    BY <1>1, EnFilaDef
  <2> QED BY <1>7, <2>1 DEF EnFila
<1>10. Propio(items', i, p) = IF i \in S THEN 0 ELSE n
  BY <1>3, <1>7 DEF Propio, EnFila
<1>11. reserved'[p] = reserved[p] - n + Propio(items', i, p)
  BY <1>2, <1>4, <1>5, <1>6, <1>8, <1>10
<1> QED BY <1>3, <1>9, <1>11 DEF Sigue

\* One line changes, in place or as a new one.
LEMMA UnaSigue ==
  ASSUME NEW i, \A j : j # i => /\ j \in DOMAIN items' <=> j \in DOMAIN items
                                /\ j \in DOMAIN items => items'[j] = items[j],
         NEW p,
         reserved'[p] = reserved[p] - Propio(items, i, p) + Propio(items', i, p)
  PROVE  Sigue(i, p)
BY DEF Sigue, EnFila

\* An increment is written to the line and to the row that it names.
LEMMA SumarAItemSigue ==
  ASSUME IInv, NEW i \in DOMAIN items, NEW q \in Nat, NEW l \in Locs \cup {SinLoc},
         NEW chk \in BOOLEAN, SumarAItem(i, q, l, chk)
  PROVE  \A p \in Pares : \E k : Sigue(k, p)
<1> DEFINE it == items[i]
           reserva == l # SinLoc /\ l = it.loc
           u == Ubicacion(i)
           n == IF reserva THEN it.resv + q ELSE it.resv
           res1 == IF reserva THEN Reservar(reserved, Ubicacion(i), q)
                              ELSE reserved
           nuevo == [it EXCEPT !.qty = @ + q,
                               !.resv = IF reserva THEN @ + q ELSE @,
                               !.chk = @ \/ chk,
                               !.conf = IF chk /\ ~HayStock(res1, it.sku, it.qty + q)
                                          THEN FALSE ELSE TRUE]
<1>1. it \in CartItem /\ it.resv \in Int /\ it.sku \in Skus
  <2>1. it \in CartItem
    BY DEF IInv, TypeOK
  <2> QED BY <2>1 DEF CartItem
<1>2. nuevo.sku = it.sku /\ nuevo.loc = it.loc /\ nuevo.resv = n
  BY <1>1 DEF CartItem
<1>3. /\ items' = [items EXCEPT ![i] = nuevo]
      /\ reserved' = IF reserva THEN Reservar(reserved, u, q) ELSE reserved
  BY DEF SumarAItem, Ubicacion
<1>4. reserved \in [Pares -> Int]
  BY DEF IInv, TypeOK
<1> HIDE DEF nuevo, res1
<1>5. \A j : j # i => /\ j \in DOMAIN items' <=> j \in DOMAIN items
                      /\ j \in DOMAIN items => items'[j] = items[j]
  BY <1>3
<1>6. \A p \in Pares : /\ Propio(items, i, p) = IF u = p THEN it.resv ELSE 0
                       /\ Propio(items', i, p) = IF u = p THEN n ELSE 0
  BY <1>2, <1>3 DEF Propio, EnFila, Ubicacion
<1>7. CASE reserva
  <2>1. u \in Pares
    BY <1>1, <1>7 DEF Ubicacion, Pares
  <2>2. reserved' = Reservar(reserved, u, q) /\ n = it.resv + q
    BY <1>3, <1>7
  <2> HIDE DEF u, n, it
  <2>3. \A p \in Pares : reserved'[p] = IF p = u THEN reserved[p] + q ELSE reserved[p]
    BY <1>4, <2>1, <2>2, ReservarFila
  <2>4. \A p \in Pares :
          reserved'[p] = reserved[p] - Propio(items, i, p) + Propio(items', i, p)
    BY <1>1, <1>4, <1>6, <2>2, <2>3
  <2>5. \A p \in Pares : Sigue(i, p)
    BY <1>5, <2>4, UnaSigue
  <2> QED BY <2>5
<1>8. CASE ~reserva
  <2>1. reserved' = reserved /\ n = it.resv
    BY <1>3, <1>8
  <2> HIDE DEF u, n, it
  <2>2. \A p \in Pares :
          reserved'[p] = reserved[p] - Propio(items, i, p) + Propio(items', i, p)
    BY <1>1, <1>4, <1>6, <2>1
  <2>3. \A p \in Pares : Sigue(i, p)
    BY <1>5, <2>2, UnaSigue
  <2> QED BY <2>3
<1> QED BY <1>7, <1>8

\* A new line holds what it reserved.
LEMMA NuevoItemSigue ==
  ASSUME IInv, NEW c \in Carts, NEW s \in Skus, NEW q \in Nat,
         NEW l \in Locs \cup {SinLoc}, NEW chk \in BOOLEAN, NuevoItem(c, s, q, l, chk)
  PROVE  \A p \in Pares : \E k : Sigue(k, p)
<1> DEFINE n == IF l # SinLoc THEN q ELSE 0
           nuevo == [cart |-> c, sku |-> s, qty |-> q, loc |-> l, resv |-> n,
                     chk |-> chk, conf |-> ~chk]
<1>1. /\ items' = [i \in DOMAIN items \cup {nextItem} |->
                     IF i = nextItem THEN nuevo ELSE items[i]]
      /\ reserved' = IF l # SinLoc THEN Reservar(reserved, <<s, l>>, q) ELSE reserved
  BY DEF NuevoItem
<1>2. nuevo.sku = s /\ nuevo.loc = l /\ nuevo.resv = n
  OBVIOUS
<1> HIDE DEF nuevo
<1>3. nextItem \notin DOMAIN items /\ reserved \in [Pares -> Int]
  BY DEF IInv, TypeOK
<1>4. \A j : j # nextItem => /\ j \in DOMAIN items' <=> j \in DOMAIN items
                             /\ j \in DOMAIN items => items'[j] = items[j]
  BY <1>1
<1>5. \A p \in Pares : /\ Propio(items, nextItem, p) = 0
                       /\ Propio(items', nextItem, p) = IF <<s, l>> = p THEN n ELSE 0
  BY <1>1, <1>2, <1>3 DEF Propio, EnFila
<1>6. CASE l # SinLoc
  <2> DEFINE u == <<s, l>>
  <2>1. u \in Pares /\ n = q /\ reserved' = Reservar(reserved, u, q)
    BY <1>1, <1>6 DEF Pares
  <2>2. \A p \in Pares : Propio(items', nextItem, p) = IF u = p THEN n ELSE 0
    BY <1>5
  <2> HIDE DEF u, n
  <2>3. \A p \in Pares : reserved'[p] = IF p = u THEN reserved[p] + q ELSE reserved[p]
    BY <1>3, <2>1, ReservarFila
  <2>4. \A p \in Pares :
          reserved'[p] = reserved[p] - Propio(items, nextItem, p) + Propio(items', nextItem, p)
    BY <1>3, <1>5, <2>1, <2>2, <2>3
  <2>5. \A p \in Pares : Sigue(nextItem, p)
    BY <1>4, <2>4, UnaSigue
  <2> QED BY <2>5
<1>7. CASE l = SinLoc
  <2>1. reserved' = reserved /\ n = 0
    BY <1>1, <1>7
  <2>2. \A p \in Pares :
          reserved'[p] = reserved[p] - Propio(items, nextItem, p) + Propio(items', nextItem, p)
    BY <1>3, <1>5, <2>1
  <2>3. \A p \in Pares : Sigue(nextItem, p)
    BY <1>4, <2>2, UnaSigue
  <2> QED BY <2>3
<1> QED BY <1>6, <1>7

\* A request to change a line writes the row it names, the one it leaves and the
\* one it is reserved in, as it writes the line.
LEMMA UpdateCartItemSigue ==
  ASSUME IInv, NEW c \in Carts, NEW s \in Skus, NEW r \in Pedidos,
         UpdateCartItem(c, s, r), NEW p \in Pares, ~Descuadra(p)
  PROVE  \E k : Sigue(k, p)
<1>0. PICK i \in DOMAIN items, q \in Int : EditaLinea(c, s, r, i, q)
  BY UpdateCartItemCasos
<1>1. /\ items[i].cart = c /\ items[i].sku = s
      /\ q = Pedida(items[i], r) /\ ~CantidadRechazada(items[i], q)
  BY <1>0 DEF EditaLinea
<1> DEFINE it == items[i]
           it1 == ItemTrasCantidad(it, q)
           res1 == ReservaTrasCantidad(it, q)
           u == <<it.sku, it.loc>>
<1>2. /\ it \in CartItem /\ TypeOK /\ r \in Pedido /\ it.qty \in Int
      /\ it.resv \in Int /\ reserved[p] \in Int
  BY CartStockAssumption DEF IInv, TypeOK, CartItem
<1>3. /\ it1 \in CartItem /\ it1.cart = it.cart /\ it1.sku = it.sku
      /\ it1.loc = it.loc /\ it1.qty = q
      /\ it1.resv = IF Aumenta(it, q) THEN it.resv + (q - it.qty)
                     ELSE IF ~Reduce(it, q) THEN it.resv
                     ELSE IF it.resv >= it.qty - q THEN it.resv - (it.qty - q) ELSE 0
  BY <1>2, ItemTrasCantidadTipo
<1>4. /\ Cubre(res1)
      /\ res1[p] = IF p # u THEN reserved[p]
                   ELSE IF Aumenta(it, q) THEN reserved[p] + (q - it.qty)
                   ELSE IF ~Reduce(it, q) THEN reserved[p]
                   ELSE IF reserved[p] >= it.qty - q THEN reserved[p] - (it.qty - q)
                   ELSE 0
  BY <1>1, <1>2, ReservaTrasCantidadFilas
<1>5. /\ i \in EnFila(items, p) <=> u = p
      /\ Propio(items, i, p) = IF u = p THEN it.resv ELSE 0
  BY DEF EnFila, Propio
<1>6. ASSUME u = p
      PROVE  ~UNCHANGED items /\ ~ReduceDeMas(i, q) /\ ~ReservaDeNuevo(i, r)
  <2>1. i \in EnFila(items, p)
    BY <1>5, <1>6
  <2>2. UpdateCartItem(items[i].cart, items[i].sku, r) /\ q = Pedida(items[i], r)
    BY <1>1
  <2> HIDE DEF it
  <2> QED BY <2>1, <2>2, Zenon DEF Descuadra
<1>7. ASSUME u = p
      PROVE  /\ it1.resv \in Int /\ res1[p] = reserved[p] - it.resv + it1.resv
             /\ it.resv >= 0 => it1.resv >= 0
  <2>1. Reduce(it, q) => ~(it.resv < it.qty - q) /\ ~(reserved[p] < it.qty - q)
    <3>1. Ubicacion(i) = p
      BY <1>7 DEF Ubicacion
    <3> QED BY <1>6, <1>7, <3>1 DEF ReduceDeMas
  <2>2. Aumenta(it, q) => q - it.qty > 0
    BY <1>2 DEF Aumenta
  <2> HIDE DEF it, it1, res1, u
  <2> QED BY <1>2, <1>3, <1>4, <1>7, <2>1, <2>2
<1>8. ASSUME NEW nuevo, items' = [items EXCEPT ![i] = nuevo], nuevo.sku = s,
             reserved'[p] = reserved[p] - Propio(items, i, p)
                              + (IF <<s, nuevo.loc>> = p THEN nuevo.resv ELSE 0)
      PROVE  Sigue(i, p)
  <2>1. \A j : j # i => /\ j \in DOMAIN items' <=> j \in DOMAIN items
                        /\ j \in DOMAIN items => items'[j] = items[j]
    BY <1>8
  <2>2. Propio(items', i, p) = IF <<s, nuevo.loc>> = p THEN nuevo.resv ELSE 0
    BY <1>8 DEF Propio, EnFila
  <2> QED BY <1>8, <2>1, <2>2, UnaSigue
<1>9. CASE /\ UNCHANGED items
           /\ \/ reserved' = res1
              \/ \E l \in Locs : reserved' = ReservaTrasMudanza(res1, it1, l)
  <2>1. u # p
    BY <1>6, <1>9
  <2>2. \A l \in Locs : ReservaTrasMudanza(res1, it1, l)[p] = res1[p]
    <3>1. p # <<it1.sku, it1.loc>>
      BY <1>3, <2>1
    <3> HIDE DEF it1, res1
    <3> QED BY <1>2, <1>3, <1>4, <3>1, ReservaTrasMudanzaFilas
  <2>3. reserved'[p] = reserved[p]
    <3> HIDE DEF it1, res1, u
    <3> QED BY <1>4, <1>9, <2>1, <2>2
  <2>4. Propio(items, i, p) = 0 /\ Propio(items', i, p) = 0
    BY <1>5, <1>9, <2>1
  <2>5. reserved'[p] = reserved[p] - Propio(items, i, p) + Propio(items', i, p)
    BY <1>2, <2>3, <2>4
  <2>6. \A j : j # i => /\ j \in DOMAIN items' <=> j \in DOMAIN items
                        /\ j \in DOMAIN items => items'[j] = items[j]
    BY <1>9
  <2>7. Sigue(i, p)
    BY <2>5, <2>6, UnaSigue
  <2> QED BY <2>7
<1>10. CASE /\ reserved' = res1
            /\ items' = [items EXCEPT ![i] = ConBanderas(it1, r)]
  <2>1. PICK nuevo : nuevo = ConBanderas(it1, r)
    OBVIOUS
  <2>2. nuevo.sku = s /\ nuevo.loc = it.loc /\ nuevo.resv = it1.resv
    <3> HIDE DEF it1
    <3> QED BY <1>1, <1>2, <1>3, <2>1, ConBanderasTipo
  <2>3. reserved'[p] = reserved[p] - Propio(items, i, p)
                         + (IF <<s, nuevo.loc>> = p THEN nuevo.resv ELSE 0)
    <3>1. CASE u = p
      <4>1. <<s, nuevo.loc>> = p
        BY <1>1, <2>2, <3>1
      <4> HIDE DEF it, it1, res1, u
      <4> QED BY <1>5, <1>7, <1>10, <2>2, <3>1, <4>1
    <3>2. CASE u # p
      <4>1. <<s, nuevo.loc>> # p
        BY <1>1, <2>2, <3>2
      <4> HIDE DEF it, it1, res1, u
      <4> QED BY <1>2, <1>4, <1>5, <1>10, <3>2, <4>1
    <3> QED BY <3>1, <3>2
  <2>4. Sigue(i, p)
    BY <1>8, <1>10, <2>1, <2>2, <2>3
  <2> QED BY <2>4
<1>11. ASSUME NEW l \in Locs, PideReserva(r), l \in r.reservar,
              reserved' = Reservar(ReservaTrasMudanza(res1, it1, l),
                                   <<s, l>>, it1.qty),
              items' = [items EXCEPT ![i] =
                ConBanderas([it1 EXCEPT !.loc = l, !.resv = it1.qty], r)]
       PROVE  \E k : Sigue(k, p)
  <2> DEFINE res2 == ReservaTrasMudanza(res1, it1, l)
             it2 == [it1 EXCEPT !.loc = l, !.resv = it1.qty]
             v == <<s, l>>
  <2>1. /\ it2 \in CartItem /\ it2.sku = s /\ it2.loc = l /\ it2.resv = q
    BY <1>1, <1>3 DEF CartItem
  <2>2. PICK nuevo : nuevo = ConBanderas(it2, r)
    OBVIOUS
  <2>3. nuevo.sku = s /\ nuevo.loc = l /\ nuevo.resv = q
    <3> HIDE DEF it2
    <3> QED BY <1>2, <2>1, <2>2, ConBanderasTipo
  <2>4. items' = [items EXCEPT ![i] = nuevo]
    BY <1>11, <2>2
  <2>5. /\ Cubre(res2)
        /\ res2[p] = IF p # u \/ it.loc = l \/ ~(it1.resv > 0) THEN res1[p]
                     ELSE IF res1[p] >= it1.resv THEN res1[p] - it1.resv ELSE 0
    <3>1. <<it1.sku, it1.loc>> = u
      BY <1>3
    <3> HIDE DEF it1, res1, u
    <3> QED BY <1>2, <1>3, <1>4, <3>1, ReservaTrasMudanzaFilas
  <2>6. reserved'[p] = IF p = v THEN res2[p] + q ELSE res2[p]
    <3>1. v \in Pares /\ res2 \in [Pares -> Int] /\ reserved' = Reservar(res2, v, q)
      BY <1>3, <1>11, <2>5 DEF Pares, Cubre
    <3> HIDE DEF v, res2
    <3> QED BY <3>1, ReservarFila
  <2>7. reserved'[p] = reserved[p] - Propio(items, i, p) + (IF v = p THEN q ELSE 0)
    <3>1. CASE u # p
      <4> HIDE DEF it, it1, res1, u, res2, v
      <4> QED BY <1>2, <1>4, <1>5, <2>5, <2>6, <3>1
    <3>2. CASE u = p /\ it.loc = l
      <4>1. v = p
        BY <1>1, <3>2
      <4>2. it1.resv = 0
        <5>1. ItemTrasCantidad(items[i], Pedida(items[i], r)).resv = 0
          BY <1>6, <1>11, <3>2 DEF ReservaDeNuevo
        <5> QED BY <1>1, <5>1
      <4> HIDE DEF it, it1, res1, u, res2, v
      <4> QED BY <1>2, <1>5, <1>7, <2>5, <2>6, <3>2, <4>1, <4>2
    <3>3. CASE u = p /\ it.loc # l
      <4>1. v # p
        BY <3>3
      <4>2. Deja(i)
        BY <2>3, <2>4, <3>3 DEF Deja
      <4>3. ~(it.resv < 0) /\ ~(reserved[p] < it.resv)
        BY <1>5, <3>3, <4>2, DejaTodo
      <4> HIDE DEF it, it1, res1, u, res2, v
      <4> QED BY <1>2, <1>5, <1>7, <2>5, <2>6, <3>3, <4>1, <4>3
    <3> QED BY <3>1, <3>2, <3>3
  <2>8. Sigue(i, p)
    BY <1>8, <2>3, <2>4, <2>7
  <2> QED BY <2>8
<1> QED BY <1>0, <1>9, <1>10, <1>11 DEF EditaLinea

\* Readying a cart: each line without a reservation takes its quantity in a row.
LEMMA ListoParaPagoSigue ==
  ASSUME IInv, NEW c \in Carts, ListoParaPago(c), NEW p \in Pares, ~Descuadra(p)
  PROVE  \E k : Sigue(k, p)
<1>1. PICK f \in Asignaciones(c) :
        /\ reserved' = [q \in Pares |-> reserved[q] + Tomado(c, f, q)]
        /\ items' = [i \in DOMAIN items |->
                       IF i \in SinReserva(c)
                         THEN [items[i] EXCEPT !.loc = f[i], !.resv = items[i].qty]
                         ELSE items[i]]
  BY DEF ListoParaPago
<1>2. PICK i : \A j \in ItemsDelCarrito(c) : items[j].sku = p[1] => j = i
  BY UnaDelSku
<1>3. /\ SinReserva(c) \subseteq ItemsDelCarrito(c) /\ SinReserva(c) \subseteq DOMAIN items
      /\ \A j \in DOMAIN items : items[j] \in CartItem /\ items[j].resv \in Int
                                 /\ items[j].qty \in Int
      /\ reserved[p] \in Int
  <2>1. \A x \in CartItem : x.resv \in Int /\ x.qty \in Int
    BY DEF CartItem
  <2> QED BY <2>1 DEF SinReserva, ItemsDelCarrito, IInv, TypeOK
<1>4. p = <<p[1], p[2]>> /\ p[2] # SinLoc
  BY CartStockAssumption DEF Pares
<1>10. \A j \in SinReserva(c) : j \in EnFila(items, p) => items[j].resv = 0
  <2>1. ASSUME NEW j \in SinReserva(c), j \in EnFila(items, p)
        PROVE  items[j].resv = 0
    <3>1. items[j].loc # SinLoc /\ ~Retiene(j) /\ items[j].cart = c
      BY <1>4, <2>1, EnFilaDef DEF SinReserva, ItemsDelCarrito
    <3>2. ~(items[j].resv < 0)
      BY <2>1, <3>1 DEF Descuadra
    <3> QED BY <1>3, <3>1, <3>2 DEF Retiene
  <2> QED BY <2>1
<1>5. \A j \in DOMAIN items :
        IF j \in SinReserva(c)
        THEN items'[j].sku = items[j].sku /\ items'[j].loc = f[j] /\ items'[j].resv = items[j].qty
        ELSE items'[j] = items[j]
  <2>1. ASSUME NEW x \in CartItem, NEW l
        PROVE  LET y == [x EXCEPT !.loc = l, !.resv = x.qty]
               IN y.sku = x.sku /\ y.loc = l /\ y.resv = x.qty
    BY DEF CartItem
  <2> QED BY <1>1, <1>3, <2>1
<1>6. DOMAIN items' = DOMAIN items
  BY <1>1
<1>7. \A j \in SinReserva(c) : j # i =>
        j \notin EnFila(items, p) /\ j \notin EnFila(items', p)
  BY <1>2, <1>3, <1>5, EnFilaDef
<1>8. \A j : j # i =>
        /\ j \in EnFila(items', p) <=> j \in EnFila(items, p)
        /\ j \in EnFila(items, p) => items'[j].resv = items[j].resv
  BY <1>5, <1>6, <1>7 DEF EnFila
<1>9. reserved'[p] = reserved[p] - Propio(items, i, p) + Propio(items', i, p)
  <2>1. reserved'[p] = reserved[p] + Tomado(c, f, p)
    BY <1>1
  <2>2. \A j \in SinReserva(c) : <<items[j].sku, f[j]>> = p => j = i
    BY <1>2, <1>3, <1>4
  <2>3. CASE i \in SinReserva(c) /\ <<items[i].sku, f[i]>> = p
    <3>1. (CHOOSE j \in SinReserva(c) : <<items[j].sku, f[j]>> = p) = i
      BY <2>2, <2>3
    <3>2. Tomado(c, f, p) = items[i].qty
      BY <2>3, <3>1 DEF Tomado
    <3>3. Propio(items', i, p) = items[i].qty
      BY <1>3, <1>5, <1>6, <2>3 DEF Propio, EnFila
    <3>4. Propio(items, i, p) = 0
      BY <1>10, <2>3 DEF Propio
    <3> QED BY <1>3, <2>1, <2>3, <3>2, <3>3, <3>4
  <2>4. CASE ~(i \in SinReserva(c) /\ <<items[i].sku, f[i]>> = p)
    <3>1. Tomado(c, f, p) = 0
      BY <2>2, <2>4 DEF Tomado
    <3>2. Propio(items, i, p) \in Int
      BY <1>3 DEF Propio, EnFila
    <3>3. Propio(items', i, p) = Propio(items, i, p)
      <4>1. CASE i \in SinReserva(c)
        <5>1. i \notin EnFila(items', p)
          BY <1>3, <1>5, <2>4, <4>1 DEF EnFila
        <5>2. i \in EnFila(items, p) => items[i].resv = 0
          BY <1>10, <4>1
        <5> QED BY <5>1, <5>2 DEF Propio
      <4>2. CASE i \notin SinReserva(c)
        BY <1>5, <1>6, <4>2 DEF Propio, EnFila
      <4> QED BY <4>1, <4>2
    <3> QED BY <1>3, <2>1, <3>1, <3>2, <3>3
  <2> QED BY <2>3, <2>4
<1> QED BY <1>8, <1>9 DEF Sigue

\* A set of lines of a cart stops holding, and the counter of p loses what they
\* held there.
LEMMA SueltaSigue ==
  ASSUME IInv, NEW c, NEW S, S \subseteq ItemsDelCarrito(c),
         DOMAIN items' = DOMAIN items,
         \A j \in DOMAIN items : ~(j \in S /\ Retiene(j)) => items'[j] = items[j],
         \A j \in S : Retiene(j) => items'[j].resv = 0 /\ items'[j].sku = items[j].sku,
         NEW p \in Pares, reserved'[p] = reserved[p] - Retenido(S, p)
  PROVE  \E k : Sigue(k, p)
<1>1. PICK i : \A j \in ItemsDelCarrito(c) : items[j].sku = p[1] => j = i
  BY UnaDelSku
<1>2. PICK n \in Int : n = Propio(items, i, p)
  BY PropioInt DEF IInv
<1>3. Retenido(S, p) = IF i \in S /\ n > 0 THEN n ELSE 0
  BY <1>1, <1>2, RetenidoDeUna
<1>4. S \subseteq DOMAIN items /\ reserved[p] \in Int
  BY DEF ItemsDelCarrito, IInv, TypeOK
<1>5. \A j \in S : Retiene(j) /\ j # i => j \notin EnFila(items, p) /\ j \notin EnFila(items', p)
  BY <1>1, <1>4, EnFilaDef
<1>6. \A j : j # i =>
        /\ j \in EnFila(items', p) <=> j \in EnFila(items, p)
        /\ j \in EnFila(items, p) => items'[j].resv = items[j].resv
  BY <1>5 DEF EnFila
<1>7. Propio(items', i, p) = IF i \in S /\ n > 0 THEN 0 ELSE n
  <2>1. CASE i \in S /\ Retiene(i)
    <3>1. Propio(items', i, p) = 0
      BY <2>1 DEF Propio
    <3>2. n > 0 \/ n = 0
      BY <1>2, <2>1 DEF Propio, Retiene
    <3> QED BY <2>1, <3>1, <3>2
  <2>2. CASE ~(i \in S /\ Retiene(i))
    <3>1. Propio(items', i, p) = n
      BY <1>2, <2>2 DEF Propio, EnFila
    <3>2. i \in S => ~(n > 0)
      <4>1. ASSUME i \in S, n > 0
            PROVE  FALSE
        <5>1. i \in EnFila(items, p) /\ items[i].resv > 0
          BY <1>2, <4>1 DEF Propio
        <5>2. items[i].loc # SinLoc
          BY <5>1, EnFilaDef, CartStockAssumption DEF Pares
        <5> QED BY <2>2, <4>1, <5>1, <5>2 DEF Retiene
      <4> QED BY <4>1
    <3> QED BY <3>1, <3>2
  <2> QED BY <2>1, <2>2
<1>8. reserved'[p] = reserved[p] - n + Propio(items', i, p)
  BY <1>3, <1>4, <1>7
<1> QED BY <1>2, <1>6, <1>8 DEF Sigue

\* Paying a cart.
LEMMA PagadoSigue ==
  ASSUME IInv, NEW c \in Carts, Pagado(c), NEW p \in Pares
  PROVE  \E k : Sigue(k, p)
<1> DEFINE S == ConReserva(c)
<1>1. S \subseteq ItemsDelCarrito(c) /\ \A j \in S : Retiene(j) /\ j \in DOMAIN items
  BY DEF ConReserva, ItemsDelCarrito
<1>2. /\ items' = [i \in DOMAIN items |-> IF i \in S THEN [items[i] EXCEPT !.resv = 0]
                                                     ELSE items[i]]
      /\ reserved'[p] = reserved[p] - Retenido(S, p)
  BY DEF Pagado
<1>3. \A j \in S : items'[j].resv = 0 /\ items'[j].sku = items[j].sku
  <2>1. \A j \in DOMAIN items : items[j] \in CartItem
    BY DEF IInv, TypeOK
  <2> QED BY <1>1, <1>2, <2>1 DEF CartItem
<1> HIDE DEF S
<1> QED BY <1>1, <1>2, <1>3, SueltaSigue

\* Expiring a cart: the lines with a visible row give back what they hold, as
\* far as the row has it.
LEMMA ExpireSigue ==
  ASSUME IInv, NEW c \in Carts, ExpireCartReservations(c), NEW p \in Pares,
         ~Descuadra(p)
  PROVE  \E k : Sigue(k, p)
<1> DEFINE S == Visibles(ItemsDelCarrito(c))
<1>1. S \subseteq ItemsDelCarrito(c) /\ S \subseteq DOMAIN items
  BY DEF Visibles, ItemsDelCarrito
<1>2. /\ items' = [i \in DOMAIN items |->
                     IF i \in {j \in S : Retiene(j)}
                       THEN [items[i] EXCEPT !.resv = 0, !.loc = SinLoc] ELSE items[i]]
      /\ reserved' = LiberarTodos(ItemsDelCarrito(c))
  BY DEF ExpireCartReservations, ItemsTrasExpirar
<1>3. \A j \in S : Retiene(j) => /\ items'[j].resv = 0 /\ items'[j].sku = items[j].sku
                                  /\ items'[j].loc = SinLoc
  <2>1. \A j \in DOMAIN items : items[j] \in CartItem
    BY DEF IInv, TypeOK
  <2> QED BY <1>1, <1>2, <2>1 DEF CartItem
<1>4. reserved'[p] = reserved[p] - Retenido(S, p)
  <2>1. PICK i : \A j \in ItemsDelCarrito(c) : items[j].sku = p[1] => j = i
    BY UnaDelSku
  <2>2. PICK n \in Int : n = Propio(items, i, p)
    BY PropioInt DEF IInv
  <2>3. Retenido(S, p) = IF i \in S /\ n > 0 THEN n ELSE 0
    BY <1>1, <2>1, <2>2, RetenidoDeUna
  <2>4. ASSUME i \in S, n > 0
        PROVE  n <= reserved[p]
    <3>1. i \in EnFila(items, p) /\ n = items[i].resv
      BY <2>2, <2>4 DEF Propio
    <3>2. items[i].loc # SinLoc /\ Retiene(i)
      <4>1. items[i].loc # SinLoc
        BY <3>1, EnFilaDef, CartStockAssumption DEF Pares
      <4> QED BY <2>4, <3>1, <4>1 DEF Retiene
    <3>3. Deja(i)
      <4> HIDE DEF S
      <4> QED BY <1>3, <2>4, <3>2 DEF Deja
    <3>4. ~(reserved[p] < items[i].resv)
      BY <3>1, <3>3, DejaTodo
    <3>5. reserved[p] \in Int
      BY DEF IInv, TypeOK
    <3> QED BY <3>1, <3>4, <3>5
  <2>5. reserved'[p] = IF Retenido(S, p) = 0 THEN reserved[p]
                       ELSE IF reserved[p] >= Retenido(S, p)
                         THEN reserved[p] - Retenido(S, p) ELSE 0
    BY <1>2 DEF LiberarTodos
  <2>6. reserved[p] \in Int
    BY DEF IInv, TypeOK
  <2> HIDE DEF S
  <2> QED BY <2>3, <2>4, <2>5, <2>6
<1> HIDE DEF S
<1> QED BY <1>1, <1>2, <1>3, <1>4, SueltaSigue

\* A checkout leaves the counters alone, and so the rows of the lines that hold
\* nothing.
LEMMA CheckoutSigue ==
  ASSUME IInv, NEW c \in Carts, CheckoutCart(c), NEW p \in Pares, ~Descuadra(p)
  PROVE  \E k : Sigue(k, p)
<1> DEFINE T == {i \in ItemsDelCarrito(c) : Confirmado(i)}
<1>1. PICK i : \A j \in ItemsDelCarrito(c) : items[j].sku = p[1] => j = i
  BY UnaDelSku
<1>2. /\ UNCHANGED reserved
      /\ \/ items' = [j \in DOMAIN items |->
                IF j \in T THEN [items[j] EXCEPT !.chk = TRUE, !.conf = FALSE,
                                                !.loc = SinLoc]
                ELSE items[j]]
         \/ items' = Borrar(ItemsDelCarrito(c))
  BY DEF CheckoutCart
<1>3. /\ T \subseteq ItemsDelCarrito(c) /\ p[2] # SinLoc
      /\ ItemsDelCarrito(c) \subseteq DOMAIN items
      /\ \A j \in DOMAIN items : items[j] \in CartItem
  BY CartStockAssumption DEF Pares, ItemsDelCarrito, IInv, TypeOK
<1>4. \A j \in DOMAIN items :
        \/ j \in DOMAIN items' /\ items'[j] = items[j]
        \/ j \in ItemsDelCarrito(c) /\ j \notin DOMAIN items'
        \/ /\ j \in ItemsDelCarrito(c) /\ j \in DOMAIN items'
           /\ items'[j].loc = SinLoc
  <2>1. CASE items' = Borrar(ItemsDelCarrito(c))
    BY <2>1 DEF Borrar
  <2>2. CASE items' = [j \in DOMAIN items |->
                IF j \in T THEN [items[j] EXCEPT !.chk = TRUE, !.conf = FALSE,
                                                !.loc = SinLoc]
                ELSE items[j]]
    <3>1. \A x \in CartItem :
            [x EXCEPT !.chk = TRUE, !.conf = FALSE, !.loc = SinLoc].loc = SinLoc
      BY DEF CartItem
    <3> HIDE DEF T
    <3> QED BY <1>3, <2>2, <3>1
  <2> QED BY <1>2, <2>1, <2>2
<1>5. DOMAIN items' \subseteq DOMAIN items
  BY <1>2 DEF Borrar
<1> HIDE DEF T
<1>6. \A j : j # i =>
        /\ j \in EnFila(items', p) <=> j \in EnFila(items, p)
        /\ j \in EnFila(items, p) => items'[j].resv = items[j].resv
  <2>1. \A j \in ItemsDelCarrito(c) : j # i => j \notin EnFila(items, p)
    BY <1>1, EnFilaDef
  <2> QED BY <1>3, <1>4, <1>5, <2>1, EnFilaDef DEF EnFila
<1>7. Propio(items', i, p) = Propio(items, i, p) /\ Propio(items, i, p) \in Int
  <2>1. Propio(items, i, p) \in Int
    BY PropioInt DEF IInv
  <2>2. CASE i \in DOMAIN items /\ i \in DOMAIN items' /\ items'[i] = items[i]
    BY <2>1, <2>2 DEF Propio, EnFila
  <2>3. CASE i \notin DOMAIN items
    BY <1>5, <2>1, <2>3 DEF Propio, EnFila
  <2>4. CASE i \in DOMAIN items /\ (i \notin DOMAIN items' \/ items'[i].loc = SinLoc)
    <3>1. i \notin EnFila(items', p)
      BY <1>3, <2>4, EnFilaDef
    <3>2. ASSUME i \in EnFila(items, p)
          PROVE  items[i].resv = 0
      <4>1. items[i].loc # SinLoc
        BY <1>3, <3>2, EnFilaDef
      <4>2. Deja(i)
        BY <2>4, <4>1 DEF Deja
      <4> QED BY <3>2, <4>2, DejaTodo
    <3> QED BY <3>1, <3>2 DEF Propio
  <2> QED BY <1>4, <2>2, <2>3, <2>4
<1>8. reserved'[p] = reserved[p] /\ reserved[p] \in Int
  BY <1>2 DEF IInv, TypeOK
<1> QED BY <1>6, <1>7, <1>8 DEF Sigue

(***************************************************************************)
(* The lines of the remitos.                                               *)
(***************************************************************************)

\* The lines L of a remito name cart lines that were created, with the SKU these
\* have as long as they live, and a SKU once.
LineasValidas(L) ==
  /\ \A ln \in L : /\ ln.item < nextItem
                   /\ ln.item \in DOMAIN items => items[ln.item].sku = ln.sku
  /\ \A ln, m \in L : ln.sku = m.sku => ln = m

LineasDeRemitos == \A r \in DOMAIN remitos : LineasValidas(remitos[r].lineas)

\* Lines that lived keep their SKU, and new ones get a new id.
LineasSiguen ==
  /\ nextItem' \in {nextItem, nextItem + 1}
  /\ \A i \in DOMAIN items' : i # nextItem =>
       i \in DOMAIN items /\ items'[i].sku = items[i].sku

\* The lines of a remito stay valid while the cart lines keep their SKU.
LEMMA LineasValidasQuedan ==
  ASSUME IInv, LineasSiguen, NEW L, L \subseteq Linea, LineasValidas(L)
  PROVE  LineasValidas(L)'
<1>1. nextItem \in Nat /\ \A ln \in L : ln.item \in Nat
  BY DEF IInv, TypeOK, Linea
<1>2. \A ln \in L : ln.item < nextItem' /\ ln.item # nextItem
  BY <1>1 DEF LineasSiguen, LineasValidas
<1> QED BY <1>2 DEF LineasSiguen, LineasValidas

\* A step that changes no line of a remito.
LEMMA RemitosIguales ==
  ASSUME IInv, LineasDeRemitos, LineasSiguen, DOMAIN remitos' = DOMAIN remitos,
         \A r \in DOMAIN remitos : remitos'[r].lineas = remitos[r].lineas
  PROVE  LineasDeRemitos'
<1> SUFFICES ASSUME NEW r \in DOMAIN remitos
             PROVE  LineasValidas(remitos[r].lineas)'
  BY DEF LineasDeRemitos
<1>1. PICK L : L = remitos[r].lineas
  OBVIOUS
<1>2. LineasValidas(L)
  BY <1>1 DEF LineasDeRemitos
<1>3. L \subseteq Linea
  <2>1. remitos[r] \in Remito
    BY ElementOfSeq, LenProperties DEF IInv, TypeOK
  <2> QED BY <1>1, <2>1 DEF Remito
<1>4. LineasValidas(L)'
  BY <1>2, <1>3, LineasValidasQuedan
<1>5. L = remitos'[r].lineas
  BY <1>1
<1> QED BY <1>4, <1>5 DEF LineasValidas

\* A step that adds no line and no remito.
LEMMA MismasLineasSiguen ==
  ASSUME IInv, MismasLineas, UNCHANGED nextItem
  PROVE  LineasSiguen
BY DEF MismasLineas, LineasSiguen

\* The remito of a readied cart names lines of that cart, which has a SKU once.
LEMMA ListoParaPagoLineas ==
  ASSUME IInv, LineasDeRemitos, NEW c \in Carts, ListoParaPago(c)
  PROVE  LineasDeRemitos'
<1>1. MismasLineas /\ UNCHANGED nextItem
  BY ListoParaPagoConserva DEF ListoParaPago
<1>2. LineasSiguen
  BY <1>1, MismasLineasSiguen
<1>3. GenerarRemitosInternos(c, items') /\ DOMAIN items' = DOMAIN items
  BY DEF ListoParaPago
<1>4. CASE UNCHANGED remitos
  BY <1>2, <1>4, RemitosIguales
<1>5. ASSUME NEW o \in Origenes(c, items'),
             remitos' = Append(remitos,
               [estado |-> "pendiente", cart |-> c, origen |-> o,
                lineas |-> {[item |-> i, sku |-> items'[i].sku,
                             cant |-> items'[i].resv] :
                            i \in {j \in ItemsDelCarrito(c) :
                                     items'[j].resv > 0 /\ items'[j].loc = o}}])
      PROVE  LineasDeRemitos'
  <2> DEFINE I == {j \in ItemsDelCarrito(c) : items'[j].resv > 0 /\ items'[j].loc = o}
             L == {[item |-> i, sku |-> items'[i].sku, cant |-> items'[i].resv] : i \in I}
             rem == [estado |-> "pendiente", cart |-> c, origen |-> o, lineas |-> L]
  <2>1. remitos' = Append(remitos, rem) /\ rem.lineas = L
    BY <1>5
  <2>2. \A i \in I : i \in DOMAIN items /\ items'[i].sku = items[i].sku /\ items[i].cart = c
    BY <1>1, <1>3 DEF ItemsDelCarrito, MismasLineas
  <2>3. \A i \in I : i < nextItem
    BY <2>2 DEF IInv, TypeOK
  <2>4. \A i, j \in I : items'[i].sku = items'[j].sku => i = j
    BY <2>2 DEF IInv, UnItemPorSku
  <2> HIDE DEF I
  <2>5. \A ln \in L : /\ ln.item \in I /\ ln.sku = items'[ln.item].sku
                      /\ ln = [item |-> ln.item, sku |-> items'[ln.item].sku,
                               cant |-> items'[ln.item].resv]
    <3>1. ASSUME NEW ln \in L
          PROVE  \E i \in I : ln = [item |-> i, sku |-> items'[i].sku, cant |-> items'[i].resv]
      OBVIOUS
    <3> QED BY <3>1
  <2>6. PICK M : M = L
    OBVIOUS
  <2>7. LineasValidas(M)'
    <3> HIDE DEF L
    <3>1. \A ln \in M : ln.item < nextItem' /\ items'[ln.item].sku = ln.sku
      BY <1>1, <2>3, <2>5, <2>6
    <3>2. ASSUME NEW ln \in M, NEW m \in M, ln.sku = m.sku
          PROVE  ln = m
      <4>1. ln.item = m.item
        BY <2>4, <2>5, <2>6, <3>2
      <4>2. /\ ln = [item |-> ln.item, sku |-> items'[ln.item].sku,
                     cant |-> items'[ln.item].resv]
            /\ m = [item |-> m.item, sku |-> items'[m.item].sku,
                    cant |-> items'[m.item].resv]
        BY <2>5, <2>6
      <4> QED BY <4>1, <4>2
    <3> QED BY <3>1, <3>2 DEF LineasValidas
  <2> HIDE DEF L, rem
  <2>8. remitos \in Seq(Remito)
    BY DEF IInv, TypeOK
  <2>9. /\ DOMAIN remitos' = DOMAIN remitos \cup {Len(remitos) + 1}
        /\ \A r \in DOMAIN remitos : remitos'[r] = remitos[r]
        /\ remitos'[Len(remitos) + 1] = rem
    BY <2>1, <2>8
  <2>10. ASSUME NEW r \in DOMAIN remitos
         PROVE  LineasValidas(remitos[r].lineas)'
    <3>1. PICK N : N = remitos[r].lineas
      OBVIOUS
    <3>2. LineasValidas(N)
      BY <3>1 DEF LineasDeRemitos
    <3>3. N \subseteq Linea
      <4>1. remitos[r] \in Remito
        BY <2>8, ElementOfSeq, LenProperties
      <4> QED BY <3>1, <4>1 DEF Remito
    <3>4. LineasValidas(N)'
      BY <1>2, <3>2, <3>3, LineasValidasQuedan
    <3>5. N = remitos'[r].lineas
      BY <2>9, <3>1
    <3> QED BY <3>4, <3>5 DEF LineasValidas
  <2>11. PICK n : n = Len(remitos) + 1
    OBVIOUS
  <2>12. remitos'[n].lineas = M
    BY <2>1, <2>6, <2>9, <2>11
  <2>13. LineasValidas(remitos[n].lineas)'
    BY <2>7, <2>12 DEF LineasValidas
  <2>14. ASSUME NEW r \in DOMAIN remitos'
         PROVE  LineasValidas(remitos[r].lineas)'
    BY <2>9, <2>10, <2>11, <2>13
  <2> QED BY <2>14 DEF LineasDeRemitos
<1> QED BY <1>3, <1>4, <1>5 DEF GenerarRemitosInternos

\* A step that leaves the remitos alone.
LEMMA RemitosQuietos ==
  ASSUME IInv, LineasDeRemitos, LineasSiguen, UNCHANGED remitos
  PROVE  LineasDeRemitos'
BY RemitosIguales

\* A step that leaves the cart lines alone.
LEMMA QuietasSiguen ==
  ASSUME IInv, UNCHANGED <<items, nextItem>>
  PROVE  LineasSiguen
BY DEF LineasSiguen

\* The handlers of a cart.
LEMMA PasoCarritoLineas ==
  ASSUME IInv, LineasDeRemitos, PasoCarrito
  PROVE  LineasDeRemitos'
<1>1. PICK c \in Carts :
        \/ \E s \in Skus, q \in Cantidades, l \in Locs \cup {SinLoc},
              chk \in Verificar : AddToCart(c, s, q, l, chk)
        \/ \E s \in Skus : RemoveFromCart(c, s)
        \/ \E s \in Skus, r \in Pedidos : UpdateCartItem(c, s, r)
        \/ GetCart(c)
        \/ ClearCart(c)
        \/ ListoParaPago(c)
        \/ Pagado(c)
        \/ \E e \in Objetivos : OtroEstado(c, e)
  BY DEF PasoCarrito
<1>2. ASSUME NEW s \in Skus, NEW q \in Cantidades, NEW l \in Locs \cup {SinLoc},
             NEW chk \in Verificar, AddToCart(c, s, q, l, chk)
      PROVE  LineasDeRemitos'
  <2>1. q \in Nat /\ chk \in BOOLEAN /\ UNCHANGED <<stock, remitos>>
    BY <1>2, CartStockAssumption DEF AddToCart
  <2>2. ASSUME NEW i \in ItemsDe(c, s), SumarAItem(i, q, l, chk)
        PROVE  LineasSiguen
    <3>1. i \in DOMAIN items /\ UNCHANGED nextItem
      BY <2>2 DEF ItemsDe, ItemsDelCarrito, SumarAItem
    <3> QED BY <2>1, <2>2, <3>1, SumarAItemConserva, MismasLineasSiguen
  <2>3. ASSUME NuevoItem(c, s, q, l, chk)
        PROVE  LineasSiguen
    BY <2>3 DEF NuevoItem, LineasSiguen
  <2>4. ASSUME AltaRechazada(s, q, l)
        PROVE  LineasSiguen
    BY <2>4, QuietasSiguen DEF AltaRechazada
  <2> QED BY <1>2, <2>1, <2>2, <2>3, <2>4, RemitosQuietos DEF AddToCart
<1>3. ASSUME NEW S, S \subseteq DOMAIN items, reserved' = LiberarTodos(S), items' = Borrar(S),
             UNCHANGED <<stock, nextItem, remitos>>
      PROVE  LineasDeRemitos'
  BY <1>3, BorrarConserva, MismasLineasSiguen, RemitosQuietos
<1>4. ASSUME NEW s \in Skus, RemoveFromCart(c, s)
      PROVE  LineasDeRemitos'
  <2>1. PICK i \in ItemsDe(c, s) : reserved' = LiberarTodos({i}) /\ items' = Borrar({i})
    BY <1>4 DEF RemoveFromCart
  <2>2. {i} \subseteq DOMAIN items /\ UNCHANGED <<stock, nextItem, remitos>>
    BY <1>4 DEF ItemsDe, ItemsDelCarrito, RemoveFromCart
  <2> QED BY <1>3, <2>1, <2>2
<1>5. CASE ClearCart(c)
  <2>1. ItemsDelCarrito(c) \subseteq DOMAIN items
    BY DEF ItemsDelCarrito
  <2> QED BY <1>3, <1>5, <2>1 DEF ClearCart
<1>6. ASSUME NEW s \in Skus, NEW r \in Pedidos, UpdateCartItem(c, s, r)
      PROVE  LineasDeRemitos'
  <2>1. MismasLineas
    BY <1>6, UpdateCartItemConserva
  <2>2. UNCHANGED <<nextItem, remitos>>
    BY <1>6 DEF UpdateCartItem
  <2> QED BY <2>1, <2>2, MismasLineasSiguen, RemitosQuietos
<1>7. CASE GetCart(c)
  BY <1>7, QuietasSiguen, RemitosQuietos DEF GetCart
<1>8. CASE ListoParaPago(c)
  BY <1>8, ListoParaPagoLineas
<1>9. CASE Pagado(c)
  <2>1. UNCHANGED <<nextItem, remitos>>
    BY <1>9 DEF Pagado
  <2> QED BY <1>9, <2>1, PagadoConserva, MismasLineasSiguen, RemitosQuietos
<1>10. ASSUME NEW e \in Objetivos, OtroEstado(c, e)
       PROVE  LineasDeRemitos'
  BY <1>10, QuietasSiguen, RemitosQuietos DEF OtroEstado
<1> QED BY <1>1, <1>2, <1>4, <1>5, <1>6, <1>7, <1>8, <1>9, <1>10

\* The other steps.
LEMMA OtrosPasosLineas ==
  ASSUME IInv, LineasDeRemitos, PasoReserva \/ PasoOrden \/ PasoAdmin \/ UNCHANGED vars
  PROVE  LineasDeRemitos'
<1>1. ASSUME NEW c \in Carts, VenceReserva(c)
      PROVE  LineasDeRemitos'
  BY <1>1, QuietasSiguen, RemitosQuietos DEF VenceReserva
<1>2. ASSUME NEW c \in Carts, ExpireCartReservations(c)
      PROVE  LineasDeRemitos'
  <2>1. UNCHANGED <<nextItem, remitos>>
    BY <1>2 DEF ExpireCartReservations
  <2> QED BY <1>2, <2>1, ExpireCartReservationsConserva, MismasLineasSiguen, RemitosQuietos
<1>3. ASSUME NEW r \in DOMAIN remitos, ConfirmarRecepcionRemito(r)
      PROVE  LineasDeRemitos'
  <2>1. /\ UNCHANGED nextItem
        /\ remitos' = [remitos EXCEPT ![r].estado = "recibido"]
    BY <1>3 DEF ConfirmarRecepcionRemito
  <2>2. LineasSiguen
    BY <1>3, <2>1, ConfirmarRecepcionRemitoConserva, MismasLineasSiguen
  <2>3. \A k \in DOMAIN remitos : remitos[k] \in Remito
    BY ElementOfSeq, LenProperties DEF IInv, TypeOK
  <2>4. \A x \in Remito : [x EXCEPT !.estado = "recibido"].lineas = x.lineas
    BY DEF Remito
  <2>5. /\ DOMAIN remitos' = DOMAIN remitos
        /\ \A k \in DOMAIN remitos : remitos'[k].lineas = remitos[k].lineas
    BY <2>1, <2>3, <2>4
  <2> QED BY <2>2, <2>5, RemitosIguales
<1>4. ASSUME NEW c \in Carts, SubmitCartForAssignment(c)
      PROVE  LineasDeRemitos'
  BY <1>4, QuietasSiguen, RemitosQuietos DEF SubmitCartForAssignment
<1>5. ASSUME NEW c \in Carts, CheckoutCart(c)
      PROVE  LineasDeRemitos'
  <2>1. UNCHANGED <<nextItem, remitos>>
    BY <1>5 DEF CheckoutCart
  <2> QED BY <1>5, <2>1, CheckoutCartConserva, MismasLineasSiguen, RemitosQuietos
<1>6. ASSUME NEW o \in DOMAIN ordenes,
             \/ AssignOrderSelf(o) \/ AssignOrderAdmin(o)
             \/ \E e \in ObjetivosOrden : UpdateOrderStatus(o, e)
      PROVE  LineasDeRemitos'
  BY <1>6, QuietasSiguen, RemitosQuietos
     DEF AssignOrderSelf, AssignOrderAdmin, AsignarOrden, UpdateOrderStatus
<1>7. CASE PasoAdmin
  BY <1>7, QuietasSiguen, RemitosQuietos DEF PasoAdmin, SetVariantStock, AddProductStocks
<1>8. CASE UNCHANGED vars
  BY <1>8, QuietasSiguen, RemitosQuietos DEF vars
<1> QED BY <1>1, <1>2, <1>3, <1>4, <1>5, <1>6, <1>7, <1>8 DEF PasoReserva, PasoOrden

\* Each line of a remito names a line of one cart and its SKU, which no request changes.
THEOREM SpecLineasDeRemitos == Spec => [](IInv /\ LineasDeRemitos)
<1>1. Init => IInv /\ LineasDeRemitos
  <2>1. Init => DOMAIN remitos = {}
    BY DEF Init
  <2> QED BY <2>1, InitIInv DEF LineasDeRemitos
<1>2. IInv /\ LineasDeRemitos /\ [Next]_vars => IInv' /\ LineasDeRemitos'
  BY PasoConserva, PasoCarritoLineas, OtrosPasosLineas DEF Next
<1> QED BY <1>1, <1>2, PTL DEF Spec

\* The reception of a remito whose line of the SKU did not change since it left:
\* it takes what the line holds from the origin to the deposit.
LEMMA ConfirmarSigue ==
  ASSUME IInv, LineasDeRemitos, NEW r \in DOMAIN remitos, ConfirmarRecepcionRemito(r),
         NEW p \in Pares, ~Descuadra(p)
  PROVE  \E k : Sigue(k, p)
<1>1. PICK L, o : L = remitos[r].lineas /\ o = remitos[r].origen
  OBVIOUS
<1>2. /\ reserved' = [q \in Pares |-> reserved[q] + Traslado(L, o, q)]
      /\ items' = [i \in DOMAIN items |->
                     IF \E ln \in L : ln.item = i
                       THEN [items[i] EXCEPT !.loc = Deposito] ELSE items[i]]
  BY <1>1 DEF ConfirmarRecepcionRemito
<1>3. LineasValidas(L) /\ o # Deposito
  BY <1>1 DEF LineasDeRemitos, IInv, OrigenesValidos
<1>4. /\ \A ln \in L : ln.sku = p[1] => /\ ln.item \in DOMAIN items
                                         /\ items[ln.item].resv = ln.cant
                                         /\ items[ln.item].loc = o
      /\ \A ln \in L : ln.item \in DOMAIN items => items[ln.item].sku = ln.sku
      /\ \A ln, m \in L : ln.sku = m.sku => ln = m
  <2>1. \A ln \in remitos[r].lineas :
          ln.sku = p[1] => /\ ln.item \in DOMAIN items
                           /\ items[ln.item].resv = ln.cant
                           /\ items[ln.item].loc = remitos[r].origen
    BY DEF Descuadra, RecepcionTardia
  <2> QED BY <1>1, <1>3, <2>1 DEF LineasValidas
<1>5. /\ DOMAIN items' = DOMAIN items /\ reserved[p] \in Int
      /\ \A i \in DOMAIN items : items[i].resv \in Int
      /\ \A i \in DOMAIN items :
           IF \E ln \in L : ln.item = i
           THEN /\ items'[i].sku = items[i].sku /\ items'[i].loc = Deposito
                /\ items'[i].resv = items[i].resv
           ELSE items'[i] = items[i]
  <2>1. ASSUME NEW x \in CartItem
        PROVE  LET y == [x EXCEPT !.loc = Deposito]
               IN y.sku = x.sku /\ y.loc = Deposito /\ y.resv = x.resv /\ x.resv \in Int
    BY DEF CartItem
  <2>2. \A i \in DOMAIN items : items[i] \in CartItem
    BY DEF IInv, TypeOK
  <2> QED BY <1>2, <2>1, <2>2 DEF IInv, TypeOK
<1>6. reserved'[p] = reserved[p] + Traslado(L, o, p)
  BY <1>2
<1>7. ASSUME NEW j, \A ln \in L : ln.sku = p[1] => ln.item # j
      PROVE  /\ j \in EnFila(items', p) <=> j \in EnFila(items, p)
             /\ j \in EnFila(items, p) => items'[j].resv = items[j].resv
  <2>1. CASE \E ln \in L : ln.item = j
    <3>1. j \in DOMAIN items => items[j].sku # p[1] /\ items'[j].sku # p[1]
      BY <1>4, <1>5, <1>7, <2>1
    <3> QED BY <1>5, <3>1, EnFilaDef
  <2>2. CASE ~\E ln \in L : ln.item = j
    BY <1>5, <2>2 DEF EnFila
  <2> QED BY <2>1, <2>2
<1>8. CASE \E ln \in L : ln.sku = p[1]
  <2>1. PICK ln \in L : ln.sku = p[1]
    BY <1>8
  <2>2. PICK k : k = ln.item
    OBVIOUS
  <2>3. \A m \in L : m.sku = p[1] => m.item = k
    BY <1>4, <2>1, <2>2
  <2>4. Cantidad(L, p[1]) = items[k].resv
    <3>1. (CHOOSE m \in L : m.sku = p[1]) = ln
      BY <1>4, <2>1
    <3> QED BY <1>4, <2>1, <2>2, <3>1 DEF Cantidad
  <2>5. Propio(items, k, p) = IF p[2] = o THEN items[k].resv ELSE 0
    BY <1>4, <2>1, <2>2, EnFilaDef DEF Propio
  <2>6. Propio(items', k, p) = IF p[2] = Deposito THEN items[k].resv ELSE 0
    <3>1. /\ k \in DOMAIN items' /\ items'[k].sku = p[1] /\ items'[k].loc = Deposito
          /\ items'[k].resv = items[k].resv
      BY <1>4, <1>5, <2>1, <2>2
    <3> QED BY <3>1, EnFilaDef DEF Propio
  <2>7. k \in DOMAIN items /\ items[k].resv \in Int
    BY <1>4, <1>5, <2>1, <2>2
  <2>8. reserved'[p] = reserved[p] - Propio(items, k, p) + Propio(items', k, p)
    BY <1>3, <1>5, <1>6, <2>4, <2>5, <2>6, <2>7 DEF Traslado
  <2>9. \A j : j # k =>
          /\ j \in EnFila(items', p) <=> j \in EnFila(items, p)
          /\ j \in EnFila(items, p) => items'[j].resv = items[j].resv
    BY <1>7, <2>3
  <2> QED BY <2>8, <2>9 DEF Sigue
<1>9. CASE ~\E ln \in L : ln.sku = p[1]
  <2>1. Cantidad(L, p[1]) = 0
    BY <1>9 DEF Cantidad
  <2>2. Traslado(L, o, p) = 0
    <3>1. \A n \in Nat : n <= 0 => -n = 0
      OBVIOUS
    <3>2. Cantidad(L, p[1]) \in Nat /\ Cantidad(L, p[1]) <= 0
      BY <2>1
    <3>3. -Cantidad(L, p[1]) = 0
      BY <3>1, <3>2
    <3> QED BY <2>1, <3>3, Zenon DEF Traslado
  <2>3. \A j : /\ j \in EnFila(items', p) <=> j \in EnFila(items, p)
               /\ j \in EnFila(items, p) => items'[j].resv = items[j].resv
    BY <1>7, <1>9
  <2>4. Propio(items', 0, p) = Propio(items, 0, p) /\ Propio(items, 0, p) \in Int
    BY <1>5, <2>3 DEF Propio, EnFila
  <2>5. reserved'[p] = reserved[p] - Propio(items, 0, p) + Propio(items', 0, p)
    BY <1>5, <1>6, <2>2, <2>4
  <2> QED BY <2>3, <2>5 DEF Sigue
<1> QED BY <1>8, <1>9

(***************************************************************************)
(* The ledger of the reservations.                                         *)
(***************************************************************************)

\* Outside Descuadra the handlers of a cart write a row as they write its lines.
LEMMA PasoCarritoSigue ==
  ASSUME IInv, PasoCarrito, NEW p \in Pares, ~Descuadra(p)
  PROVE  UNCHANGED <<reserved, items>> \/ \E k : Sigue(k, p)
<1>1. PICK c \in Carts :
        \/ \E s \in Skus, q \in Cantidades, l \in Locs \cup {SinLoc},
              chk \in Verificar : AddToCart(c, s, q, l, chk)
        \/ \E s \in Skus : RemoveFromCart(c, s)
        \/ \E s \in Skus, r \in Pedidos : UpdateCartItem(c, s, r)
        \/ GetCart(c)
        \/ ClearCart(c)
        \/ ListoParaPago(c)
        \/ Pagado(c)
        \/ \E e \in Objetivos : OtroEstado(c, e)
  BY DEF PasoCarrito
<1>2. ASSUME NEW s \in Skus, NEW q \in Cantidades, NEW l \in Locs \cup {SinLoc},
             NEW chk \in Verificar, AddToCart(c, s, q, l, chk)
      PROVE  UNCHANGED <<reserved, items>> \/ \E k : Sigue(k, p)
  <2>1. q \in Nat /\ chk \in BOOLEAN
    BY CartStockAssumption
  <2>2. ASSUME NEW i \in ItemsDe(c, s), SumarAItem(i, q, l, chk)
        PROVE  \E k : Sigue(k, p)
    <3>1. i \in DOMAIN items
      BY DEF ItemsDe, ItemsDelCarrito
    <3> QED BY <2>1, <2>2, <3>1, SumarAItemSigue
  <2>3. ASSUME NuevoItem(c, s, q, l, chk)
        PROVE  \E k : Sigue(k, p)
    BY <2>1, <2>3, NuevoItemSigue
  <2>4. ASSUME AltaRechazada(s, q, l)
        PROVE  UNCHANGED <<reserved, items>>
    BY <2>4 DEF AltaRechazada
  <2> QED BY <1>2, <2>2, <2>3, <2>4 DEF AddToCart
<1>3. ASSUME NEW s \in Skus, RemoveFromCart(c, s)
      PROVE  \E k : Sigue(k, p)
  <2>1. PICK i \in ItemsDe(c, s) : reserved' = LiberarTodos({i}) /\ items' = Borrar({i})
    BY <1>3 DEF RemoveFromCart
  <2>2. {i} \subseteq ItemsDelCarrito(c)
    BY DEF ItemsDe
  <2> QED BY <2>1, <2>2, BorrarSigue
<1>4. ASSUME NEW s \in Skus, NEW r \in Pedidos, UpdateCartItem(c, s, r)
      PROVE  \E k : Sigue(k, p)
  BY <1>4, UpdateCartItemSigue
<1>5. CASE GetCart(c)
  BY <1>5 DEF GetCart
<1>6. CASE ClearCart(c)
  BY <1>6, BorrarSigue DEF ClearCart
<1>7. CASE ListoParaPago(c)
  BY <1>7, ListoParaPagoSigue
<1>8. CASE Pagado(c)
  BY <1>8, PagadoSigue
<1>9. ASSUME NEW e \in Objetivos, OtroEstado(c, e)
      PROVE  UNCHANGED <<reserved, items>>
  BY <1>9 DEF OtroEstado
<1> QED BY <1>1, <1>2, <1>3, <1>4, <1>5, <1>6, <1>7, <1>8, <1>9

\* So do the job, the remitos, the orders and the administrator.
LEMMA OtrosPasosSiguen ==
  ASSUME IInv, LineasDeRemitos, PasoReserva \/ PasoOrden \/ PasoAdmin \/ UNCHANGED vars,
         NEW p \in Pares, ~Descuadra(p)
  PROVE  UNCHANGED <<reserved, items>> \/ \E k : Sigue(k, p)
<1>1. ASSUME NEW c \in Carts, VenceReserva(c)
      PROVE  UNCHANGED <<reserved, items>>
  BY <1>1 DEF VenceReserva
<1>2. ASSUME NEW c \in Carts, ExpireCartReservations(c)
      PROVE  \E k : Sigue(k, p)
  BY <1>2, ExpireSigue
<1>3. ASSUME NEW r \in DOMAIN remitos, ConfirmarRecepcionRemito(r)
      PROVE  \E k : Sigue(k, p)
  BY <1>3, ConfirmarSigue
<1>4. ASSUME NEW c \in Carts, SubmitCartForAssignment(c)
      PROVE  UNCHANGED <<reserved, items>>
  BY <1>4 DEF SubmitCartForAssignment
<1>5. ASSUME NEW c \in Carts, CheckoutCart(c)
      PROVE  \E k : Sigue(k, p)
  BY <1>5, CheckoutSigue
<1>6. ASSUME NEW o \in DOMAIN ordenes,
             \/ AssignOrderSelf(o) \/ AssignOrderAdmin(o)
             \/ \E e \in ObjetivosOrden : UpdateOrderStatus(o, e)
      PROVE  UNCHANGED <<reserved, items>>
  BY <1>6 DEF AssignOrderSelf, AssignOrderAdmin, AsignarOrden, UpdateOrderStatus
<1>7. CASE PasoAdmin
  BY <1>7 DEF PasoAdmin, SetVariantStock, AddProductStocks
<1>8. CASE UNCHANGED vars
  BY <1>8 DEF vars
<1> QED BY <1>1, <1>2, <1>3, <1>4, <1>5, <1>6, <1>7, <1>8 DEF PasoReserva, PasoOrden

\* What the counter of a row has beyond what its lines hold changes in no step
\* outside Descuadra.
THEOREM SpecLibroDeReservas == Spec => LibroDeReservas
<1> DEFINE A == \A p \in Pares :
                  Brecha(reserved', items', p) = Brecha(reserved, items, p)
                    \/ Descuadra(p)
<1>1. IInv /\ LineasDeRemitos /\ [Next]_vars => [A]_vars
  <2> SUFFICES ASSUME IInv, LineasDeRemitos, [Next]_vars,
                      NEW p \in Pares, ~Descuadra(p)
               PROVE  Brecha(reserved', items', p) = Brecha(reserved, items, p)
    OBVIOUS
  <2>1. TypeOK /\ TypeOK'
    BY PasoConserva DEF IInv
  <2>2. UNCHANGED <<reserved, items>> \/ \E k : Sigue(k, p)
    BY PasoCarritoSigue, OtrosPasosSiguen DEF Next
  <2> QED BY <2>1, <2>2, SigueBrecha, QuietoBrecha
<1> HIDE DEF A
<1>2. Spec => [][A]_vars
  BY <1>1, SpecLineasDeRemitos, PTL DEF Spec
<1> QED BY <1>2 DEF A, LibroDeReservas

(***************************************************************************)
(* The units of a SKU.                                                     *)
(***************************************************************************)

\* Two summands may exchange units.
LEMMA SumaTraslado ==
  ASSUME NEW S, IsFiniteSet(S), NEW f \in [S -> Int], NEW g \in [S -> Int],
         NEW a \in S, NEW b \in S, a # b, g[a] + g[b] = f[a] + f[b],
         \A x \in S \ {a, b} : g[x] = f[x]
  PROVE  Suma(g) = Suma(f)
<1> DEFINE R == S \ {a}
<1>1. IsFiniteSet(R) /\ b \in R
  BY FS_RemoveElement
<1>2. ASSUME NEW h \in [S -> Int]
      PROVE  LET resto == Suma([x \in S \ {a, b} |-> h[x]])
             IN resto \in Int /\ Suma(h) = resto + h[a] + h[b]
  <2> DEFINE k == [x \in R |-> h[x]]
             m == [x \in R \ {b} |-> k[x]]
  <2>1. Suma(k) \in Int /\ Suma(h) = Suma(k) + h[a]
    BY SumaSin
  <2>2. k \in [R -> Int] /\ k[b] = h[b]
    BY <1>1
  <2>3. m = [x \in S \ {a, b} |-> h[x]]
    <3>1. R \ {b} = S \ {a, b}
      OBVIOUS
    <3> QED BY <3>1
  <2> HIDE DEF k, R
  <2>4. Suma(m) \in Int /\ Suma(k) = Suma(m) + k[b]
    BY <1>1, <2>2, SumaSin
  <2> HIDE DEF m
  <2> QED BY <1>1, <2>1, <2>2, <2>3, <2>4
<1>3. [x \in S \ {a, b} |-> g[x]] = [x \in S \ {a, b} |-> f[x]]
  OBVIOUS
<1>4. PICK n : n = Suma([x \in S \ {a, b} |-> f[x]])
  OBVIOUS
<1>5. n \in Int /\ Suma(f) = n + f[a] + f[b]
  BY <1>2, <1>4
<1>6. Suma(g) = n + g[a] + g[b]
  BY <1>2, <1>3, <1>4
<1> QED BY <1>5, <1>6

\* A reception takes from the origin what it gives to the deposit.
LEMMA ConfirmarTotal ==
  ASSUME IInv, IInv', NEW r \in DOMAIN remitos, ConfirmarRecepcionRemito(r), NEW s \in Skus
  PROVE  EnTotal(stock', s) = EnTotal(stock, s)
<1>1. PICK L, o : L = remitos[r].lineas /\ o = remitos[r].origen
  OBVIOUS
<1>2. stock' = [p \in Pares |-> stock[p] + Traslado(L, o, p)]
  BY <1>1 DEF ConfirmarRecepcionRemito
<1>3. o \in Locs /\ L \subseteq Linea /\ o # Deposito
  <2>1. remitos[r] \in Remito
    BY ElementOfSeq, LenProperties DEF IInv, TypeOK
  <2> QED BY <1>1, <2>1 DEF Remito, IInv, OrigenesValidos
<1>4. PICK n \in Nat : n = Cantidad(L, s)
  BY <1>3, CantidadNat
<1> DEFINE f == [l \in Locs |-> stock[<<s, l>>]]
           g == [l \in Locs |-> stock'[<<s, l>>]]
<1>5. \A l \in Locs : <<s, l>> \in Pares
  BY DEF Pares
<1>6. f \in [Locs -> Int] /\ g \in [Locs -> Int]
  BY <1>5 DEF IInv, TypeOK
<1>7. ASSUME NEW l \in Locs
      PROVE  g[l] = f[l] + (IF l = o THEN -n ELSE IF l = Deposito THEN n ELSE 0)
  <2>1. Traslado(L, o, <<s, l>>) = IF l = o THEN -n ELSE IF l = Deposito THEN n ELSE 0
    BY <1>4 DEF Traslado
  <2> QED BY <1>2, <1>5, <2>1
<1>8. IsFiniteSet(Locs) /\ Deposito \in Locs
  BY CartStockAssumption
<1>9. EnTotal(stock, s) = Suma(f) /\ EnTotal(stock', s) = Suma(g)
  BY DEF EnTotal
<1> HIDE DEF f, g
<1>10. g[o] = f[o] - n /\ g[Deposito] = f[Deposito] + n
  BY <1>3, <1>4, <1>6, <1>7, <1>8
<1>11. g[o] + g[Deposito] = f[o] + f[Deposito]
  BY <1>3, <1>4, <1>6, <1>8, <1>10
<1>12. \A l \in Locs \ {o, Deposito} : g[l] = f[l]
  BY <1>6, <1>7
<1>13. Suma(g) = Suma(f)
  BY <1>3, <1>6, <1>8, <1>11, <1>12, SumaTraslado
<1> QED BY <1>9, <1>13

\* The steps that write no stock.
LEMMA OtrosNoTocanStock ==
  ASSUME [Next]_vars
  PROVE  \/ UNCHANGED stock
         \/ \E r \in DOMAIN remitos : ConfirmarRecepcionRemito(r)
         \/ \E c \in Carts : Pagado(c) \/ CheckoutCart(c)
         \/ PasoAdmin
<1>1. PasoCarrito => UNCHANGED stock \/ \E c \in Carts : Pagado(c)
  <2>1. ASSUME NEW c \in Carts, NEW s, NEW q, NEW l, NEW chk, AddToCart(c, s, q, l, chk)
        PROVE  UNCHANGED stock
    BY <2>1 DEF AddToCart
  <2>2. ASSUME NEW c \in Carts, NEW s, NEW r, RemoveFromCart(c, s) \/ UpdateCartItem(c, s, r)
        PROVE  UNCHANGED stock
    BY <2>2 DEF RemoveFromCart, UpdateCartItem
  <2>3. ASSUME NEW c \in Carts, NEW e,
               GetCart(c) \/ ClearCart(c) \/ ListoParaPago(c) \/ OtroEstado(c, e)
        PROVE  UNCHANGED stock
    BY <2>3 DEF GetCart, ClearCart, ListoParaPago, OtroEstado
  <2> QED BY <2>1, <2>2, <2>3, Zenon DEF PasoCarrito
<1>2. PasoReserva => \/ UNCHANGED stock
                     \/ \E r \in DOMAIN remitos : ConfirmarRecepcionRemito(r)
  BY DEF PasoReserva, VenceReserva, ExpireCartReservations
<1>3. PasoOrden => UNCHANGED stock \/ \E c \in Carts : CheckoutCart(c)
  BY DEF PasoOrden, SubmitCartForAssignment, AssignOrderSelf, AssignOrderAdmin,
         AsignarOrden, UpdateOrderStatus
<1>4. UNCHANGED vars => UNCHANGED stock
  BY DEF vars
<1> QED BY <1>1, <1>2, <1>3, <1>4 DEF Next

\* Reserving, releasing, expiring and transferring move units of a SKU between
\* locations or not at all: its total changes only in a payment, a checkout or
\* an administrator's correction.
THEOREM SpecSoloVentaOAjusteCambiaExistencias == Spec => SoloVentaOAjusteCambiaExistencias
<1> DEFINE A == \A s \in Skus : EnTotal(stock', s) # EnTotal(stock, s) =>
                  \/ \E c \in Carts : Pagado(c) \/ CheckoutCart(c)
                  \/ PasoAdmin
<1>1. IInv /\ [Next]_vars => [A]_vars
  <2> SUFFICES ASSUME IInv, [Next]_vars, NEW s \in Skus,
                      EnTotal(stock', s) # EnTotal(stock, s)
               PROVE  \/ \E c \in Carts : Pagado(c) \/ CheckoutCart(c)
                      \/ PasoAdmin
    OBVIOUS
  <2>1. IInv'
    BY PasoConserva
  <2>2. ~UNCHANGED stock
    OBVIOUS
  <2>3. ~\E r \in DOMAIN remitos : ConfirmarRecepcionRemito(r)
    BY <2>1, ConfirmarTotal
  <2> QED BY <2>2, <2>3, OtrosNoTocanStock
<1> HIDE DEF A
<1>2. Spec => [][A]_vars
  BY <1>1, SpecIInv, PTL DEF Spec
<1> QED BY <1>2 DEF A, SoloVentaOAjusteCambiaExistencias

=============================================================================
