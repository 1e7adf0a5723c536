# Verification of go-modaMayor

A wholesale clothing shop: a Go backend (gin handlers over gorm and PostgreSQL)
and a Next.js front. This directory models in TLA+ its stock (units that clients
put in carts, that sellers reserve, that travel, are paid and expire), its prices
(levels, stored prices, frozen prices), the session and the cart of a guest in
the browser, and the pages of the front. TLC checks the models on small
instances and TLAPS proves every safety property of these runs for every instance.

## 1. Inventory

| Component | State | Operations | Hard behaviours | Correct when | Modelled in |
|---|---|---|---|---|---|
| Cart (`internal/cart`) | `carts`, `cart_items`, the rows of `location_stocks` it reserves | GetCart, AddToCart, RemoveFromCart, ClearCart, UpdateCartItem, UpdateCartStatus | each phase of UpdateCartItem saves the row, only the last one the line; its quantity has no sign test; listo_para_pago and pagado look at no present state | a sound row stays sound; counters follow what the lines hold | CartStock |
| Expiration job (`cart/expiration_job.go`) | the same tables, `expires_at` | one pass every tick | a NULL variant is never found | what is over is released, once | CartStock |
| Remitos (`internal/remito`) | `remitos_internos` and their lines | generated when a cart is readied, received later | received after the cart changed | a transfer moves units and creates none | CartStock |
| Orders and assignment (`internal/order`) | `orders`, `order_items`, the round robin row | SubmitCartForAssignment, AssignOrderSelf, AssignOrderAdmin, UpdateOrderStatus, CheckoutCart, CreateOrder | two state machines that copy each other | what is sold was there and not promised | CartStock, CartPricing |
| Location stock (`internal/product/handler.go`) | `location_stocks` | SetVariantStock, AddProductStocks | read, compare, save whole row | a correction never undercuts reservations | CartStock |
| Order synchronisation (`cart/handler.go:73-289`) | `order_items`, frozen prices | after each change of a cart with an order | lines matched by a formatted pointer | the order lists what the cart holds, at the price it was promised | CartPricing |
| Price levels (`internal/settings`, `front/src/utils/priceCalculations.ts`) | `price_tiers`, `pricing_configs`, the stored prices of products | create, update, delete, reorder, recalculate; four ways to read a price | several statements without a transaction; four copies of one rule | one default; one price wherever it is shown | PriceTiers, PriceAdmin, CartPricing |
| Session (`AuthContext.tsx`, login, register, logout, the 401 of `useCart.ts`) | localStorage `token`, `user`; one AuthContext per tab | login, register, logout, GET /me, a 401 of the cart, storage events | answers that cross a change of the token; two writers of it; tabs | a tab shows the owner of the token | SesionInvitado |
| Guest cart (`utils/guestCart.ts`, `CartModal.tsx`) | localStorage `guest_cart`; a copy per tab | add, change, remove, clear, migrate at login | one request per line, refusals, lost answers, a 200 that adds nothing, reloads, two logins | no unit lost or doubled | SesionInvitado, LibroCompra |
| Pages of the front (`front/src/app`, `components`, `hooks`) | rows, forms, messages, loading and saving states, filters | a load, handlers of one or several requests, filters, forms | lost answers, answers out of order, double clicks, a form filled again | the page shows what the server has and says what happened | Descripcion, Habitos, Pagina, Paginas* |
| Addresses, password reset, bestsellers, kits, content, catalogue, users, audit, notifications, reports, stock movements (backend) | rows edited one at a time | create, read, update, delete | see section 9 | – | their pages only |

How they interact: the handlers of carts, orders, remitos and products share the
database; carts and orders copy each other's state (`updateRelatedOrderStatus`,
`UpdateOrderStatus`); readying a cart creates remitos, whose reception writes
stock rows and cart lines; the job runs in a goroutine beside the requests. A
change of a cart rewrites the lines of its order with prices that come from the
levels and from the stored prices that an administrator recalculates. In the
browser the tabs share localStorage and hear of one another by storage events;
the login posts the guest cart line by line to AddToCart; every page holds a copy
of rows that it must bring up to date after each request. `PROJECT.json` lists
each component with what is left out, and each hazard at its line.

## 2. Modules

| Module | What it is |
|---|---|
| CartStock | carts, lines, stock rows, remitos and orders; every handler one atomic action |
| CartStockDocs | what documents and comments promise of them; MCCartStock has the instances, CartStock_proofs the proofs |
| PriceTiers | the ways to read a price off the levels, as operators; PriceTiers_proofs their lemmas |
| PriceAdmin | the handlers of the levels, one step per statement, several administrators |
| CartPricing | PriceAdmin composed with a cart line and its order line; MCCartPricing, CartPricing_proofs |
| LibroCompra | the abstract ledger of what a guest asked for, took out and holds |
| SesionInvitado | session, guest cart and migration, several tabs; implements LibroCompra; MCSesionInvitado, SesionInvitado_proofs (ledger), SesionToken_proofs (types and session) |
| Descripcion | the vocabulary that describes a page |
| Habitos | what can be read off a description with no step taken, and is enough for each property of Pagina |
| Pagina | the state machine of a page, whatever its description; Pagina_proofs (types, messages), PaginaFichas_proofs (forms), PaginaLista_proofs (rows) |
| PaginasSitio, PaginasListas, PaginasPersonas, PaginasVenta, PaginasStock | one description for each page of the front |
| PaginasFront | the set of them, and the pages that each property exempts; MCPaginas the instance, with `Paginas` a function from the name of a page to its description |

Not done of the plan: a module of the reads and saves of two cart handlers under
READ COMMITTED, the round robin and the numbering of remitos, the crash points of
a checkout (section 9).

## 3. CartStock: the model

Variables and tables: `stock` and `reserved` are the two columns of
`location_stocks`, indexed by SKU and location; `carts` holds state, whether
`expires_at` is unset, running or past, and whether a seller is assigned;
`items` is the live rows of `cart_items` by id (`resv` is `reserved_quantity`,
`chk` and `conf` are `requires_stock_check` and `stock_confirmed`); `remitos`
and `ordenes` are sequences in creation order. One action per handler:

| Action | Handler |
|---|---|
| GetCart, AddToCart, RemoveFromCart, ClearCart, UpdateCartItem | the same names in `cart/handler.go` |
| ListoParaPago, Pagado, OtroEstado | the branches of UpdateCartStatus |
| VenceReserva, ExpireCartReservations | the clock and `expiration_job.go` |
| ConfirmarRecepcionRemito | `remito/handler.go` |
| SubmitCartForAssignment, AssignOrderSelf, AssignOrderAdmin, UpdateOrderStatus, CheckoutCart | `order/handler.go` |
| SetVariantStock, AddProductStocks | `product/handler.go` |

A request that a handler refuses without writing anything is not a step. One
that it refuses after writing is: AltaRechazada (the created cart stays) and the
second, third and fourth branches of UpdateCartItem (the row was saved, the line
was not).

Abstractions, and why they keep what the properties tell apart:

- A SKU is a (product, variant) pair. The code's `variant_id = ?` finds no row
  when the variant is NULL; SKUs outside `ConVariante` are those.
- A missing `location_stocks` row is a row of zeros: both make every reservation
  fail, and an administrator's request creates or updates it alike.
- The caller is whoever the permission test admits. Tests on the owner are
  dropped, tests on the role that change the effect (UpdateCartItem) are kept.
- Where the code takes the first location with enough stock, the model takes any.
- AddProductStocks handles one entry of its list per step; `total_stock` is NULL.
  The validator's `required` refuses the value 0 in both stock handlers.
- Quantities are whole numbers of either sign. AddToCart requires one above zero;
  UpdateCartItem takes what it is sent, and `vendedora/carritos/page.tsx` sends
  what is typed. So a line may be of -1, its reservation (`resv`) too, and the
  columns of `location_stocks` are integers without a lower limit.
- AddToCart on a line that exists saves the counter first and asks for the stock
  afterwards (`cart/handler.go:494-509`): SumarAItem compares with the row as it
  is after its own reservation.
- Orders without a cart (CreateOrder), prices and order lines (see CartPricing), notifications, audit
  rows and stock movements are not state: no stock decision reads them.
- A database error in the middle of a handler, and the deletion of a product that
  a cart names, are not modelled. Nor is the interleaving of two handlers: each
  is atomic here (section 9).
- TransferCartToSeller is left out: its route has no authentication middleware,
  so the handler always answers 401. The remito state `en_transito` is never set
  by any handler.

## 4. SesionInvitado: the session and the guest cart

An action is the code between two awaits; a request and its answer are one step
when only the waiting handler could tell them apart. `token`, `usuarioLS` and
`invitado` are the three keys of localStorage; `sesion`, `cargando` and `perfil`
are AuthContext's user, loading and the GET /me requests in flight, per tab;
`vista` is the copy of the guest cart that CartModal keeps; `flujo` holds the
running login and register handlers; a token is the index of its issue.

| Actions | Code |
|---|---|
| EntregaAviso, PerfilRecibido, PerfilRechazado, PerfilSinRespuesta | `onStorage` and `loadProfile` of `AuthContext.tsx`, before and after its await |
| Recarga, CierraSesion, VenceToken | a document loaded anew, `LogoutButton.tsx`, the server's clock |
| PideAlta, AddToGuestCart, AltaFalla | `handleAddToCart` of the catalogue up to and after the answer about the price |
| UpdateGuestCartQuantity, RemoveFromGuestCart, ClearGuestCart | `guestCart.ts` as CartModal calls it: from the copy on the screen to the storage |
| EnviaIngreso, EnvioRechazado, Ingresa, MigrateGuestCartToServer, AvisaIngreso | `handleLogin` of `login/page.tsx` and the loop of `migrateGuestCartToServer` |
| EnviaRegistro, Registra | `handleSubmit` of `registro/page.tsx`, which looks at no guest cart |
| PideCarrito, HandleAuthError, Redirige | a cart request that will be refused, `handleAuthError` of `useCart.ts`, and its timer |

A post of the migration is a success, a refusal, or one that arrived and whose
answer was lost; with a token that expired it is none of these: the route accepts a
request without a user, AddToCart answers 200 with `requires_login` and adds
nothing, and the loop looks at `response.ok` alone (RespuestaAdd). Four history variables carry the properties: `pedidas` and
`quitadas` (what the person did by hand), `riesgo` (a migration met a refusal, a
lost answer, a token that expired, a reload, a second migration or a change of the
cart) and `cruce` (the token changed under a request, or /me was not answered).

`useCart` is mounted on every page by the layout, and answers a 401 of its own: it
removes whatever token the storage has by then, leaves `user` and AuthContext as
they are, tells nobody in its tab, and 1.5 s later loads the login page unless that
page is the one shown. `rechazo` is such a 401 on its way to a tab; `salida` what it
left there: "login" while the second and a half runs, "nada" when the page was the
login or the register page, until AuthContext next hears of a token.

Abstractions: prices, names and images of guest lines are left out; a unit put in
at a time is one; `Compran` are the tabs whose person uses the cart, the others
only have a session; the profile that the login returns is its user. Which page a
tab shows is not state, so HandleAuthError may find any; cart requests that are
granted change nothing here.

- **CuentaExacta**: unless a migration was disturbed, the units asked for are the
  ones only the browser holds, the ones posted and the ones taken out, and one
  migration at most runs, with the lines the storage has.
- **LibroDeLaCompra**: the same as a refinement: SesionInvitado implements
  LibroCompra with the units held as `EnInvitado + subidas`. Login, events,
  posts and reloads are stutters of the ledger.
- **SesionDelToken**: a tab with nothing pending shows the owner of the stored
  token, unless the token changed under a request; the one exception is named: the
  tab where `useCart` removed the token on the login page, which goes on showing
  its user (`salida` is "nada") until AuthContext reads a token again.
- **FlujoTermina, CargaTermina** (liveness): login and register handlers end, the
  loading state of AuthContext is turned off.

The exceptions `riesgo` and `cruce` are the code's own limits and not the
model's: without the first, doc_no_se_pierden and its kin refute the promise;
without the second, an answer of /me for the old token stores the old user.

## 5. Pagina: the pages of the front

The pages repeat one shape: state for the rows, an effect that asks for them, and
handlers that send one request after another. `Pagina` is that shape and a
description says what a page does in each place: what its load does with an
answer, a refusal (`rechazo`) and a failure (`caida`), when loading is on, what
takes the place of the rows meanwhile; for every control, where it is offered,
which saving state disables it and from which request on, its requests in order
and the effects after each outcome. `Descripcion` lists the effects. Forty-nine
pages and components that talk to the server are described, each next to a
comment that says what is peculiar to it. CartModal is on every page, so a 401 of
its requests leaves whatever page is open for the login ("sale" in its `rechazo`,
SegunAuthError). A save that sends one PUT per section with `Promise.all`
(config-secciones-home) is described by two requests, of which either may be
refused or lost; the rows it edits are on the screen before them.

`tabla` is the sequence of changes the server made, `lista` the set of them that
the screen shows; `lecturas` the reads in flight, none of which any page cancels;
`ficha` the forms, with a count of how often each was emptied; `envios` the
handlers started, `ocupado` the saving states that are on, `aviso` the message of
success.

| Definition | One of the places it stands for |
|---|---|
| RecibeLista, FallaLista | the load of `hooks/useSales.ts` |
| Dispara, Acepta, Rechaza, Cae | `save` of `admin/topbar/page.tsx`: before its request, and its three outcomes |
| Peticion, Prosigue | the loop of `handleConfirmManualVariants` in `admin/productos/nuevo/page.tsx` |
| Relee | `categorias/page.tsx`, whose effect depends on the message of success |
| AbreFicha, CierraFicha, FichasTras | the dialog of `admin/temporadas/page.tsx` |
| ListaTras | the variants of `admin/productos/[id]/page.tsx`, changed as they were at the click |
| CambiaFiltro | the filters of `admin/movimientos-stock/page.tsx` |
| CaducaAviso | the timer of `admin/productos/[id]/page.tsx` |

A row is the changes it shows and a change is made when its handler learns of it;
a read shows the table as it was at some moment since it was asked for. A click
that the handler turns down before any request (an invalid form, a confirmation
denied) is no step. A dialog over the whole page (`fixed inset-0`) hides the rows
and the other forms until it closes (Descubierta). A dialog that serves a new and an existing row is described
by the new one.

- **ListaAlDia**: when nothing is pending the rows are the server's, for the
  filter chosen. `tropiezo` is its only excuse: a read was refused or lost, a change
  was made whose answer was lost, or an answer took the rows back (Retrocede: it
  lacks a change already shown, or it is older than one received and of another
  filter). No page cancels a read, so the last of these is what the code does; the
  excuse ends with the next read that comes alone, with every change and for the
  filter chosen (Repara).
- **UnaFila**: a form filled once makes one row, however often its button is
  pressed, unless the answer to a creation was lost.
- **AvisoVeraz**: a message of success is about a handler all of whose changes
  were made.
- **FichaPropia**: a handler that ends closes only the form it was sent from, as
  it was filled, and only if its changes were made.
- **EsperaTermina, BotonVuelve** (liveness): spinners end and buttons come back.

No page is bent to fit: those that break a property are named in PaginasFront,
with the reason, and the property holds of all the others. Who is named is not a
matter of what a run found. `Habitos` states one habit for each property, a
condition on the description alone:

| Habit | Asked for by | A page keeps it when |
|---|---|---|
| MuestraSusCambios | ListaAlDia | a handler that made a change ends so that the rows get it, and none drops rows, spoils them or shows what the server has not made |
| EnviaUnaVez | UnaFila | two requests of one form that make rows are kept apart by a saving state set before the first, or by a unique index |
| AvisaAlCumplir | AvisoVeraz | success is announced after an answer only when no change was refused or lost |
| CierraLoSuyo | FichaPropia | a form that an answer closes is closed by nothing else meanwhile, and only when the changes were made |

TLC evaluates `HabitosExactos` on all the descriptions, with all their controls: a
page is named as an exception exactly when it breaks the habit. Pagina assumes one
half of that (RepetiblesAssumption, OptimistasAssumption, DescuidadasAssumption,
DesviadasAssumption), and section 8 proves that it is enough.

| Set | Pages | Why |
|---|---|---|
| Desviadas (ListaAlDia) | banners, videos, faqs | a row is moved on the screen and stays there when the server refuses |
| | categorias, subcategorias | the list is read again only when the message of success changes, so two equal successes leave it stale |
| | vendedores | the row saved is looked up by a field no row has and takes the place of all |
| | productos/id, productos | a handler puts back the rows of its click; in productos the page number also undoes a search |
| | stock, notificaciones, vendedora/carritos | what is on the screen does not wait for the server |
| | config-secciones-home | the rows are edited on the screen and stay so when one of the PUTs fails and another does not: no reload |
| Repetibles (UnaFila) | banners, videos, subcategorias, faqs, home-sections, perfil/direcciones, precios, productos/nuevo | nothing disables the button and the server has no unique index for the row |
| Optimistas (AvisoVeraz) | config-secciones-home, inventario | `Promise.all` with no look at `res.ok`; a dialog that says "saved" and sends nothing |
| Descuidadas (FichaPropia) | 21 pages | the form can be cancelled and filled again, or typed in, while the answer is on its way |
| Colgadas (EsperaTermina) | productos | the choice of a page size reads with loading on and no try |

## 6. PriceTiers, PriceAdmin and CartPricing: prices

The program reads a price off the levels in four ways: the checkout
(`GetApplicablePriceTierFromList`, then the surcharges of PricingConfig when the
price is left at cost), the stored prices of a product
(`CalculateProductPricesFromList`), the cart (`calculatePriceForTier`, off the
stored prices) and the seller's screen (`getApplicableTier` of
`priceCalculations.ts`). PriceTiers has one operator for each; where the order of
the rows, or an unstable sort, leaves a choice, the operator is the set of what
the code may choose. Costs are whole and amounts in hundredths, so nothing is
rounded; `flat_amount` and multiplier values are those that keep it so.

PriceAdmin takes each statement of CreatePriceTier, UpdatePriceTier,
DeletePriceTier and RecalculateAllProductPrices as a step, as they run without a
transaction, with requests of several administrators at once. FallaEscritura is a
last statement that fails. The UPDATE that unmarks the other defaults may fail too,
and its error is not looked at (CreatePriceTier, DesmarcaOtros): the row is written
all the same; so may the read of the greatest order, which then counts as 0
(NivelNuevo). ReorderPriceTiers, UpdateProduct (the cost) and
UpdatePricingConfig are one step each. CartPricing adds a cart of one line and
its order: `ItemAnterior` is the lookup by `fmt.Sprintf("%d-%d", …)` of a
pointer, which finds the order line only when `variant_id` is nil.

- **UnDefecto**: one default level at most, unless two requests that set one
  overlapped or one could not unmark the others (`solape`).
- **PreciosAnunciados**: what the cart shows is what the order charges while the
  stored prices come from these levels and this cost (`alDia`), the names are
  clear and one level decides. Each condition is needed: an ambiguous name, a
  level without a stored price or one that leaves the price at cost part the two.
- **PantallasComoServidor**: the seller's screen picks the level by its order and
  the server by its minimum; they agree while the order follows the minima, which
  is how the migration sets it and which no handler keeps.
- **SinVarianteCongela**: a line without a variant keeps its frozen price
  through every change of the levels, the stored prices and the cart.

## 7. Runs

| Run | Shows | Instance |
|---|---|---|
| un_carrito | IInv, SoloCheckoutSobrevende, FilasSanas, LibroDeReservas, SoloVentaOAjusteCambiaExistencias with every kind of request | 1 cart, 1 SKU, deposit and one location, quantities -1 to 2, 1 order, 1 remito, Tope 1 |
| dos_carritos | IInv, FilasSanas, LibroDeReservas with two clients after one unit | 2 carts, 1 SKU, 2 locations, quantities 1 and 2, 1 remito |
| expiracion | IInv, LibroDeReservas and VencidaSeLibera with a line without a variant | 1 cart, 2 SKUs, 2 locations, 1 order |
| dos_pestanas | SesionDelToken | 2 accounts, 2 tabs (one with the cart), 2 submissions, 2 tokens, 1 SKU; up to the first crossing |
| compra_invitado | TypeOK, CuentaExacta, LibroDeLaCompra, FlujoTermina, CargaTermina | 1 account, 1 tab, one form at a time and 2 tokens, 2 SKUs, to 2 units |
| paginas | TypeOK and the six properties of section 5 | every page, 2 handlers, 1 change of the filter, with and without a token |
| precios | TypeOK and the four properties of section 6 | 3 levels of the migration and room for one, 2 administrators, 2 changes, 2 costs, 2 tables of surcharges, quantities to 2 |

The properties of CartStock: **TypeOK, OrigenesValidos, UnItemPorSku**, together
**IInv**, what the steps need of each other. **FilasSanas**: a row is sound when
neither of its counters is negative and, away from the deposit, what is reserved is
there; no step makes a sound row unsound but the reservation there of a negative
quantity (ReservaNegativa). It is not evident: the reception of a remito tests one
counter of the origin and subtracts from two, releases come twice for the same
units, UpdateCartItem leaves the row saved and the line not, and paying takes lines
that were never reserved. **SoloCheckoutSobrevende**: a row that covers its
reservations stops doing so only in CheckoutCart, which never reads the counter.
**LibroDeReservas**: the distance between a row's counter and what its lines hold
(`Brecha`) changes in no step but those that `Descuadra` names for that row: a line
that leaves the row without giving back what it held (a checkout, a line without a
variant, a negative one, or a row that has less), a negative line readied again,
the reception of a remito whose line changed since, and three requests of
UpdateCartItem on a line of that row: one refused after the row was saved, one that
lowers the quantity by more than is reserved, one that reserves again what is
reserved. Every other request of those handlers must keep the distance, whatever it
is by then. **SoloVentaOAjusteCambiaExistencias**: units appear or vanish only in a
sale or a correction. **VencidaSeLibera** (liveness): a cart past its time leaves
listo_para_pago or is readied again.

Why the bounds are enough. In CartStock a second unit of quantity separates a
partial reservation from a whole one, and -1 is a quantity below zero (un_carrito
takes every kind of body of UpdateCartItem, PedidosTodos; dos_carritos the ones that
change a quantity or reserve, PedidosDeDos); two locations separate the origin of a remito from the
deposit; two carts separate the owner of a reservation from the one who sells it;
one remito is enough for its line to be paid, moved, expired or deleted on its
way. MaxStock bounds what exists at the start and what an administrator sets in
one request, not what receptions add. Tope bounds what negative lines add: the stock of
a row in a payment or a checkout, and how far below zero a reservation takes a
counter; without it a line of -1 sold again and again has no end. MaxItems, MaxRemitos, MaxOrdenes and
NumCarts only stop creation. In SesionInvitado two tokens are needed for one to
be old, two tabs for an event, two SKUs for a migration to stop half way, two
submissions for two migrations, one after the other in compra_invitado and at once
in dos_pestanas, which has its accounts and its submissions in SYMMETRY (they are
alike in Init, Next and the property) and explores no state after a crossing
(CONSTRAINT SinCruce: `cruce` is never reset, and SesionDelToken says nothing after
one); MaxPedidas and MaxIngresos only stop the person.
In Pagina every property is about one handler and what another did meanwhile, so
two handlers (MaxEnvios) and one change of the filter (MaxGiros) show every
crossing; MaxFichas ends the cancelling once a form has been emptied that often,
and MaxLecturas makes the person wait while that many reads are in flight (three:
one for each handler and one for the filter); of the controls of a page that are the same but for their name MCPaginas keeps one.
In the prices two changes let two requests overlap or a change overtake a
recalculation; four levels are the migration's without its greatest and one more;
quantities 0, 1 and 2 fall below, at and above the minima.

Deadlock is checked except in paginas and precios: a page whose handlers are over
may be left alone, and the price runs end when their changes are spent.

Fairness. `ExpireCartReservations`, weakly: the server starts the job once
(`cmd/main.go`) with a ticker that never stops. In the browser, weakly: a fetch
is settled some day, with an answer or an error, and a storage event is delivered
(`Justicia`, and FairSpec of Pagina). Nothing is assumed of clients, sellers,
administrators, the clock or `useCart`, so neither a login nor a save is ever owed.

### Where the code and its documents part

Each of these runs checks one promise and finds it broken.

| Run | Promise | What the code does |
|---|---|---|
| doc_venta_sin_stock | `CASOS_PRUEBA.md` TC-022: no sale without stock | CheckoutCart compares with `stock` and not with what others reserved |
| doc_orden_pagada | comment at `order/handler.go:140`: pagado uses the cart's logic to take stock | UpdateOrderStatus sets the cart's state only |
| doc_expirado | `IMPLEMENTACION_EXPIRACION_CARRITOS.md:48`: expired stock is available again | a line whose location a failed checkout blanked is skipped, and its remito gives it back a location |
| doc_no_se_pierden | `GUIA_CARRITO_USUARIOS_NO_LOGUEADOS.md:246`: no product is lost at login | the guest cart is cleared after lines the server refused |
| doc_precio_congelado | comment at `cart/handler.go:248`: a changed cost freezes the old price | the key has an address in it, so the line of a variant is always new |

Seen in the code as well, with no run of their own. Stock: a line partly reserved
passes as reserved when its cart is readied, against the comment at
`cart/handler.go:1304`; a seller's request to reserve reserves nothing, against
the comment at `cart/handler.go:723`; stock goes down at pagado and not only at
finalizado as `CASOS_PRUEBA.md:618` says; UpdateCartStatus lets a finished cart
change state against TC-024; an order moved to listo_para_pago gives its cart no
expiration; a line without a variant keeps its reservation when its cart expires;
the job runs every two hours where the document says fifteen minutes;
UpdateCartItem takes a quantity below zero, which reserved leaves the counter of its
row negative and sold adds to the stock. Orders:
ClearCart leaves the order as it was; SubmitCartForAssignment stores a base cost
of 0, so the first change of the cart after it finds the cost changed; the
total that decides the level counts lines that are still to be confirmed.
Prices: `README_PRICE_TIERS.md` says that changes of the levels do not affect
existing orders, and a change of the cart prices its order again with them;
`vendedora/carritos/page.tsx` compares the formula with "percentage" and "flat",
which are never stored; the error of the UPDATE that unmarks the default levels is
not looked at. Session: a migration whose token expired is answered 200 line by line
and loses the cart; a 401 of the cart removes the token and leaves the user on the
screen. Front: a list shows whichever of two reads is answered last; in `admin/productos` the effect on the page number
undoes a search and a failed change of the page size leaves the spinner.

## 8. Proofs

Every theorem holds for every set of SKUs, locations, carts, tabs, accounts,
levels, administrators and pages and every value of the bounds, from the named
assumptions of the modules alone (types of the constants; the locations are
finitely many and the deposit is one; AddToCart names quantities above zero; the migration
has one default at most; `Nadie` is no account; the descriptions of the pages are
well formed and those not exempted keep their habit).

**CartStock_proofs.** `SpecIInv`, `SpecFilasSanas`, `SpecSoloCheckoutSobrevende`,
for quantities of either sign. What is inductive is IInv. One line per SKU and cart
(UnItemPorSku) is kept by AddToCart's lookup; it is why a loop over the lines
touches each row once. Remitos never leave from the deposit (OrigenesValidos): a
reception subtracts from the origin's stock what it only found in the origin's
`reserved`, and only away from the deposit does a sound row have both, because
checkouts sell from the deposit without looking at `reserved`. With negative
quantities no counter has a sign that lasts, so soundness is an action property and
not an invariant: the step from a sound row to an unsound one is the one described.
Each handler has a lemma that gives two facts: `BuenasCuentas` (the counters stay
integers, a covered row still covered, a sound row still sound or a negative
quantity reserved there) and `MismasLineas`; `PasoConserva` joins them.

`SpecLibroDeReservas` and `SpecSoloVentaOAjusteCambiaExistencias` are about sums.
A fold would need induction over data, so `Suma` counts units: it is the
cardinality of the pairs of an index and a number up to its summand, less the same
of the summands below zero, and the library's facts about finite sets give the one
law the proofs need, that a summand can be taken apart from the others (SumaSin). A
handler writes many rows and lines at once, but with one line per SKU and cart at
most one line of a row changes: `Sigue(i, p)` says that in the row p only what the
line i holds moves and the counter moves with it; each handler has a lemma that
finds such a line for every row or a disjunct of Descuadra, and `SigueBrecha` adds
up: nothing is assumed of the distance before the step. A reception speaks of cart
lines by id: that they still have the SKU the remito was written with, and that a
remito has a SKU once, is `SpecLineasDeRemitos`, an invariant of its own beside
IInv. For the stock, a reception exchanges units between two summands
(SumaTraslado), which are two because remitos never leave from the deposit.

**SesionInvitado_proofs.** `SpecCuentaExacta` and `SpecLibroDeLaCompra`. The
inductive invariant is `LibroInv`, the types of the ledger with CuentaExacta,
whose parts UnaMigracion and LineasVigentes are what makes it inductive: a
running migration posts the quantities the storage still has; beside it goes that the tokens
issued are a sequence (EmitidosTipo), which the posts of an expired token look at.
One lemma for each action says what it does to `EnInvitado + subidas`; the same lemmas show that the
step is a step of LibroCompra or a stutter.

**SesionToken_proofs.** `SpecTypeOK` and `SpecSesionDelToken`. SesionDelToken
speaks of quiet tabs, and tabs fall quiet: `SesionInv` adds what the others are
waiting for, namely that without a crossing every /me in flight carries the
stored token or one that has expired (PerfilesVigentes) and every running login
holds its owner (IngresosVigentes). The tab where `useCart` removed the token falls
quiet with the mark "nada", which every action that tells AuthContext of a token
takes off (Oye), so the exception covers that tab and no other.

**CartPricing_proofs** with **PriceTiers_proofs.** `SpecTypeOK`,
`SpecUnDefecto`, `SpecPreciosAnunciados`, `SpecPantallasComoServidor`,
`SpecSinVarianteCongela`. The inductive invariant is `PanelInv` and `CarritoInv`:
between the statements of a request that sets a default no other row is one, or
another such request overlapped, or the unmark failed; a recalculation that is not old holds the
present levels and cost; the stored prices that are up to date are ones that
ProductPrices gives. That the cart's price then is the order's is a lemma about
the operators alone (PriceTiers_proofs), as is the agreement of the two ways of
choosing a level.

**Pagina_proofs, PaginaFichas_proofs, PaginaLista_proofs.** `SpecTypeOK`,
`SpecAvisoVeraz`, `SpecFichasInv`, `SpecUnaFila`, `SpecFichaPropia` and
`SpecListaAlDia`, for every set of descriptions, those of the 49 pages among them,
and any number of handlers, reads and filters, where the run has two handlers and
one change of the filter. A handler sends at most MaxPasos (six) requests, as all
those of the front do; MaxFichas, MaxLecturas and the other bounds are any numbers.

- `TypeInv` adds to TypeOK where a running handler stands (ManosInv): the changes
  before its present request were made, but for requests it goes on after. AvisoVeraz
  is inductive beside it.
- `FichasInv` adds what a saving state is for (LlavesInv): of the handlers that
  share an exclusive one at most one runs, with the state on, and the opening a
  handler was sent from has been. Everything about forms rests on it.
- `UnaFilaInv`: a handler that made a row and ended left its form emptied or the
  page, two handlers that would make the same row are not both alive, and a unique
  index admits one row. UnaFila alone says nothing of the handlers on their way.
- `PropiaInv`: while a handler that will close its form runs, the form is as it was
  when it started.
- `ListaInv`: every change is on the screen or on its way there (PorVer: in a read
  that is not overtaken, in a handler that will read or show it, behind a dialog whose
  button reads, or the page was left), reads are numbered in the order they were asked,
  and the last one is for the filter chosen. After a stumble nothing is known of the
  rows, and the read that ends it (Repara) gives the invariant again from nothing: it
  is the only one in flight, so what it brings is all there is (ReparaDatos); what a
  stumble does not suspend is that a page without a token reads nothing (NextSinToken).
  ListaAlDia is what is left of it when nothing is on its way.

Only model-checked: the liveness properties VencidaSeLibera, FlujoTermina,
CargaTermina, EsperaTermina and BotonVuelve (they need fairness and ENABLED). That
the exceptions of PaginasFront are the pages that break a habit is evaluated by TLC
on the descriptions.

## 9. Not modelled

- The interleaving of two handlers of carts, orders, stock and the job: each is
  atomic in CartStock and CartPricing, and a database error in their middle is
  not a step. The round robin of sellers, remito numbers across transactions,
  the bestseller snapshot, the two statements of the default address and the
  server's side of the password reset are left to later modules.
- Backend handlers that edit one row (catalogue, kits, content, users, audit,
  notifications, stock movements): no property beyond the assignment.
- TransferCartToSeller always answers 401: its route has no authentication
  middleware.
- Front code that no page uses (VariantsTable, AddStockModal, BestSellers,
  NewArrivals, ProductosClient_NEW, the form and handleSubmit of
  `admin/productos/page.tsx`); the copy of the product wizard that its page keeps
  in localStorage; the catalogue's filters, which run in the browser over rows
  read once; the validation and the layout of forms.
- Configuration, routes, migrations (but for the initial price levels) and tools.
