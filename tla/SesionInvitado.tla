--------------------------- MODULE SesionInvitado ---------------------------
(***************************************************************************)
(* The session of the shop front and the cart of a person who has not      *)
(* logged in: localStorage (token, user, guest_cart), shared by the tabs   *)
(* of a browser; AuthContext and the guest cart of CartModal, one per tab; *)
(* the login and register handlers, which run across awaits, and the       *)
(* migration of the guest cart to the server, one request per line; and    *)
(* useCart, mounted on every page, which answers a 401 of its own.         *)
(*                                                                         *)
(* An action is the code between two awaits.  A request and its answer are *)
(* one step when only the waiting handler could tell them apart.           *)
(***************************************************************************)
EXTENDS Naturals, Sequences, FiniteSets, FiniteSetsExt

CONSTANTS
  Usuarios,    \* accounts of the shop
  Nadie,       \* no account
  Skus,        \* (product_id, variant_id) pairs
  Pestanas,    \* tabs of the browser
  Compran,     \* tabs where the person uses the cart; the rest only have a session
  Flujos,      \* submissions of the login or register form that may run at once
  MaxIngresos, \* bound: tokens ever issued
  MaxPedidas   \* bound: units ever put in the guest cart, for each SKU

ASSUME NadieAssumption == Nadie \notin Usuarios
ASSUME CompranAssumption == Compran \subseteq Pestanas
ASSUME FlujosAssumption == IsFiniteSet(Flujos)
ASSUME CotasAssumption == MaxIngresos \in Nat /\ MaxPedidas \in [Skus -> Nat]

VARIABLES
  emitidos,  \* owners of the tokens issued, in order; a token is an index
  vencidos,  \* tokens the server no longer accepts
  token,     \* localStorage.token, 0 when absent
  usuarioLS, \* localStorage.user
  invitado,  \* localStorage.guest_cart: units per SKU, 0 when not listed
  subidas,   \* units the migrations have put in carts of the server
  sesion,    \* AuthContext.user of each tab
  cargando,  \* AuthContext.loading of each tab
  perfil,    \* tokens of the GET /me requests in flight, per tab
  aviso,     \* a storage event waits to be delivered to the tab
  rechazo,   \* a 401 of a cart request is on its way to the tab
  salida,    \* what the last such 401 left to do: "login", in 1.5 s, or "nada"
  vista,     \* guestCart state of CartModal, per tab
  alta,      \* SKUs whose guest price was asked by handleAddToCart, per tab
  flujo,     \* the form handlers in progress
  pedidas,   \* history: units put in the guest cart by hand
  quitadas,  \* history: units taken out by hand
  riesgo,    \* history: a migration was disturbed
  cruce      \* history: the token changed under a request, or /me failed

almacen == <<emitidos, vencidos, token, usuarioLS>>
pestana == <<sesion, cargando, perfil, aviso, rechazo, salida>>
compra == <<invitado, subidas, vista, alta>>
historia == <<pedidas, quitadas, riesgo, cruce>>
vars == <<almacen, pestana, compra, flujo, historia>>

Tokens == 1..MaxIngresos
Cantidades == [Skus -> Nat]

Libre == [paso |-> "libre"]

Flujo ==
  [paso : {"ingresando", "registrando"}, en : Pestanas, quien : Usuarios]
  \cup [paso : {"migrando", "espera"}, en : Pestanas, quien : Usuarios, con : Nat,
        lineas : Cantidades, faltan : SUBSET Skus]
  \cup {Libre}

Dueno(k) == IF k = 0 THEN Nadie ELSE emitidos[k]

\* The guest controls are rendered, and a product is kept in the browser,
\* when the tab knows no user.
EsInvitado(t) == sesion[t] = Nadie

MuestraCarrito(t) == t \in Compran /\ EsInvitado(t)

CarritoVacio == [s \in Skus |-> 0]

Migrando == {f \in Flujos : flujo[f].paso = "migrando"}

HayInvitado == \E s \in Skus : invitado[s] > 0

(***************************************************************************)
(* Events                                                                  *)
(***************************************************************************)

\* Mutant of Avisa: the other tabs never hear of a change.
AvisaNadie(t, cambia) == aviso

\* Writing localStorage wakes the other tabs, never the one that writes.
Avisa(t, cambia) == [x \in Pestanas |-> aviso[x] \/ (cambia /\ x # t)]

\* The effect on [user] reloads the guest cart when the user becomes null.
VistaTras(t, u) ==
  IF u = Nadie /\ ~EsInvitado(t) /\ t \in Compran THEN [vista EXCEPT ![t] = invitado] ELSE vista

\* guest-cart-updated reaches the tab that wrote, if it shows a guest cart.
Notificada(t, inv) ==
  IF MuestraCarrito(t) THEN [vista EXCEPT ![t] = inv] ELSE vista

Init ==
  /\ emitidos = <<>> /\ vencidos = {} /\ token = 0 /\ usuarioLS = Nadie
  /\ invitado = CarritoVacio /\ subidas = CarritoVacio
  /\ sesion = [t \in Pestanas |-> Nadie]
  /\ cargando = [t \in Pestanas |-> FALSE]
  /\ perfil = [t \in Pestanas |-> {}]
  /\ aviso = [t \in Pestanas |-> FALSE]
  /\ rechazo = [t \in Pestanas |-> FALSE]
  /\ salida = [t \in Pestanas |-> "no"]
  /\ vista = [t \in Pestanas |-> CarritoVacio]
  /\ alta = [t \in Pestanas |-> {}]
  /\ flujo = [f \in Flujos |-> Libre]
  /\ pedidas = CarritoVacio /\ quitadas = CarritoVacio
  /\ riesgo = FALSE /\ cruce = FALSE

(***************************************************************************)
(* AuthContext                                                             *)
(***************************************************************************)

\* AuthContext learns who the user is: that a 401 had left it behind is past.
Oye(t) == salida' = [salida EXCEPT ![t] = IF @ = "nada" THEN "no" ELSE @]

\* loadProfile up to its await, with the token it reads.
CargaPerfil(t, k) ==
  IF k = 0
  THEN /\ sesion' = [sesion EXCEPT ![t] = Nadie]
       /\ cargando' = [cargando EXCEPT ![t] = FALSE]
       /\ vista' = VistaTras(t, Nadie)
       /\ Oye(t)
       /\ UNCHANGED perfil
  ELSE /\ perfil' = [perfil EXCEPT ![t] = @ \cup {k}]
       /\ cargando' = [cargando EXCEPT ![t] = TRUE]
       /\ UNCHANGED <<sesion, vista, salida>>

\* onStorage: another tab changed token or user.
EntregaAviso(t) ==
  /\ aviso[t]
  /\ aviso' = [aviso EXCEPT ![t] = FALSE]
  /\ CargaPerfil(t, token)
  /\ UNCHANGED <<almacen, rechazo, invitado, subidas, alta, flujo, historia>>

\* The token changes while a /me that the server will answer, or a migration, is
\* under way for the one before.
Cruza ==
  cruce' = \/ cruce
           \/ /\ token' # token
              /\ \/ \E t \in Pestanas : perfil'[t] \ vencidos # {}
                 \/ \E f \in Flujos : {flujo[f].paso, flujo'[f].paso}
                                        \subseteq {"migrando", "espera"}

\* loadProfile after its await: the profile is stored whatever happened to the
\* token meanwhile.
PerfilRecibido(t, k) ==
  /\ k \in perfil[t] \ vencidos
  /\ perfil' = [perfil EXCEPT ![t] = @ \ {k}]
  /\ cargando' = [cargando EXCEPT ![t] = FALSE]
  /\ sesion' = [sesion EXCEPT ![t] = Dueno(k)]
  /\ usuarioLS' = Dueno(k)
  /\ aviso' = Avisa(t, usuarioLS # Dueno(k))
  /\ Oye(t)
  /\ UNCHANGED <<emitidos, vencidos, token, rechazo, compra, flujo, historia>>

\* A 401 removes whatever token there is by now.
PerfilRechazado(t, k) ==
  /\ k \in perfil[t] \cap vencidos
  /\ perfil' = [perfil EXCEPT ![t] = @ \ {k}]
  /\ cargando' = [cargando EXCEPT ![t] = FALSE]
  /\ sesion' = [sesion EXCEPT ![t] = Nadie]
  /\ token' = 0 /\ usuarioLS' = Nadie
  /\ aviso' = Avisa(t, token # 0 \/ usuarioLS # Nadie)
  /\ vista' = VistaTras(t, Nadie)
  /\ Oye(t)
  /\ UNCHANGED <<emitidos, vencidos, rechazo, invitado, subidas, alta, flujo, pedidas,
                 quitadas, riesgo>>
  /\ Cruza

\* Mutant of PerfilSinRespuesta: loading is turned off only after an answer.
PerfilSinApagar(t, k) ==
  /\ k \in perfil[t]
  /\ perfil' = [perfil EXCEPT ![t] = @ \ {k}]
  /\ sesion' = [sesion EXCEPT ![t] = Nadie]
  /\ vista' = VistaTras(t, Nadie)
  /\ cruce' = TRUE
  /\ Oye(t)
  /\ UNCHANGED <<almacen, aviso, cargando, rechazo, invitado, subidas, alta, flujo,
                 pedidas, quitadas, riesgo>>

\* No answer, or a 5xx: the user is forgotten, the token stays.
PerfilSinRespuesta(t, k) ==
  /\ k \in perfil[t]
  /\ perfil' = [perfil EXCEPT ![t] = @ \ {k}]
  /\ cargando' = [cargando EXCEPT ![t] = FALSE]
  /\ sesion' = [sesion EXCEPT ![t] = Nadie]
  /\ vista' = VistaTras(t, Nadie)
  /\ cruce' = TRUE
  /\ Oye(t)
  /\ UNCHANGED <<almacen, aviso, rechazo, invitado, subidas, alta, flujo, pedidas,
                 quitadas, riesgo>>

\* Mutant of Documento: the profile is asked for without looking at the token.
DocumentoSinMirar(t, k) ==
  /\ sesion' = [sesion EXCEPT ![t] = Nadie]
  /\ cargando' = [cargando EXCEPT ![t] = TRUE]
  /\ perfil' = [perfil EXCEPT ![t] = {k}]
  /\ rechazo' = [rechazo EXCEPT ![t] = k \in vencidos]
  /\ salida' = [salida EXCEPT ![t] = "no"]
  /\ vista' = IF t \in Compran THEN [vista EXCEPT ![t] = invitado] ELSE vista
  /\ alta' = [alta EXCEPT ![t] = {}]
  /\ flujo' = [f \in Flujos |->
                 IF flujo[f] # Libre /\ flujo[f].en = t THEN Libre ELSE flujo[f]]
  /\ riesgo' = (riesgo \/ \E f \in Migrando : flujo[f].en = t)

\* A document is loaded in the tab: its handlers, its requests and its timers are
\* gone, and the provider asks for the profile of the token it finds, and useCart
\* for its cart, when there is one.
Documento(t, k) ==
  /\ sesion' = [sesion EXCEPT ![t] = Nadie]
  /\ cargando' = [cargando EXCEPT ![t] = k # 0]
  /\ perfil' = [perfil EXCEPT ![t] = IF k = 0 THEN {} ELSE {k}]
  /\ rechazo' = [rechazo EXCEPT ![t] = k \in vencidos]
  /\ salida' = [salida EXCEPT ![t] = "no"]
  /\ vista' = IF t \in Compran THEN [vista EXCEPT ![t] = invitado] ELSE vista
  /\ alta' = [alta EXCEPT ![t] = {}]
  /\ flujo' = [f \in Flujos |->
                 IF flujo[f] # Libre /\ flujo[f].en = t THEN Libre ELSE flujo[f]]
  /\ riesgo' = (riesgo \/ \E f \in Migrando : flujo[f].en = t)

\* The tab is reloaded, or crashes and is opened again.
Recarga(t) ==
  /\ Documento(t, token)
  /\ aviso' = [aviso EXCEPT ![t] = FALSE]
  /\ UNCHANGED <<almacen, invitado, subidas, pedidas, quitadas, cruce>>

\* LogoutButton: only the token goes, and the login page is loaded anew.
CierraSesion(t) ==
  /\ ~EsInvitado(t)
  /\ token' = 0
  /\ Documento(t, 0)
  /\ aviso' = [Avisa(t, token # 0) EXCEPT ![t] = FALSE]
  /\ Cruza
  /\ UNCHANGED <<emitidos, vencidos, usuarioLS, invitado, subidas, pedidas, quitadas>>

(***************************************************************************)
(* useCart                                                                 *)
(***************************************************************************)

\* A request about the cart of the account that the server will refuse: fetchCart
\* asks nothing without a token, and has one that expired; the buttons of a user
\* send whatever there is.  The requests that are granted change nothing here.
PideCarrito(t) ==
  /\ token \in vencidos \/ (token = 0 /\ ~EsInvitado(t))
  /\ rechazo' = [rechazo EXCEPT ![t] = TRUE]
  /\ UNCHANGED <<almacen, sesion, cargando, perfil, aviso, salida, compra, flujo, historia>>

\* handleAuthError of a 401: whatever token there is by now is removed; the user
\* stays in the storage and in AuthContext, which hears nothing of it in this tab.
\* The page that the tab shows is not modelled: on the login page nothing else
\* happens, from any other the tab leaves for it after a while.
HandleAuthError(t) ==
  /\ rechazo[t]
  /\ rechazo' = [rechazo EXCEPT ![t] = FALSE]
  /\ token' = 0
  /\ aviso' = Avisa(t, token # 0)
  /\ salida' \in {[salida EXCEPT ![t] = "login"],
                 [salida EXCEPT ![t] = IF @ = "login" THEN @ ELSE "nada"]}
  /\ UNCHANGED <<emitidos, vencidos, usuarioLS, sesion, cargando, perfil, compra, flujo,
                 pedidas, quitadas, riesgo>>
  /\ Cruza

\* 1.5 s later: the login page is loaded, whatever the tab is at by then.
Redirige(t) ==
  /\ salida[t] = "login"
  /\ Documento(t, token)
  /\ aviso' = [aviso EXCEPT ![t] = FALSE]
  /\ UNCHANGED <<almacen, invitado, subidas, pedidas, quitadas, cruce>>

\* The server's clock.
VenceToken(k) ==
  /\ k \in 1..Len(emitidos) /\ k \notin vencidos
  /\ vencidos' = vencidos \cup {k}
  /\ UNCHANGED <<emitidos, token, usuarioLS, pestana, compra, flujo, historia>>

(***************************************************************************)
(* The guest cart                                                          *)
(***************************************************************************)

\* A write of the guest cart while lines of it are being posted is lost, or
\* comes too late, when the migration ends.
EscribeInvitado(t, inv) ==
  /\ invitado' = inv
  /\ vista' = Notificada(t, inv)
  /\ riesgo' = (riesgo \/ Migrando # {})

EnCamino(s) == Cardinality({t \in Pestanas : s \in alta[t]})

\* handleAddToCart of a guest, up to the answer about the price.
PideAlta(t, s) ==
  /\ MuestraCarrito(t) /\ s \notin alta[t]
  /\ pedidas[s] + EnCamino(s) < MaxPedidas[s]
  /\ alta' = [alta EXCEPT ![t] = @ \cup {s}]
  /\ UNCHANGED <<almacen, pestana, invitado, subidas, vista, flujo, historia>>

\* Mutant of AddToGuestCart: a line that is there already is replaced.
AddToGuestCartPisa(t, s) ==
  /\ s \in alta[t]
  /\ alta' = [alta EXCEPT ![t] = @ \ {s}]
  /\ EscribeInvitado(t, [invitado EXCEPT ![s] = 1])
  /\ pedidas' = [pedidas EXCEPT ![s] = @ + 1]
  /\ UNCHANGED <<almacen, pestana, subidas, flujo, quitadas, cruce>>

\* The price came: addToGuestCart, whoever the tab's user is by now.
AddToGuestCart(t, s) ==
  /\ s \in alta[t]
  /\ alta' = [alta EXCEPT ![t] = @ \ {s}]
  /\ EscribeInvitado(t, [invitado EXCEPT ![s] = @ + 1])
  /\ pedidas' = [pedidas EXCEPT ![s] = @ + 1]
  /\ UNCHANGED <<almacen, pestana, subidas, flujo, quitadas, cruce>>

\* The price did not come: nothing is kept.
AltaFalla(t, s) ==
  /\ s \in alta[t]
  /\ alta' = [alta EXCEPT ![t] = @ \ {s}]
  /\ UNCHANGED <<almacen, pestana, invitado, subidas, vista, flujo, historia>>

\* The buttons - and + of a guest line: the quantity follows from the one the
\* tab shows, which may not be the one in the storage.
UpdateGuestCartQuantity(t, s) ==
  /\ MuestraCarrito(t) /\ vista[t][s] > 0 /\ invitado[s] > 0
  /\ \E q \in {IF vista[t][s] = 1 THEN 1 ELSE vista[t][s] - 1, vista[t][s] + 1} :
       /\ EscribeInvitado(t, [invitado EXCEPT ![s] = q])
       /\ IF q > invitado[s]
          THEN /\ pedidas[s] + EnCamino(s) + q - invitado[s] <= MaxPedidas[s]
               /\ pedidas' = [pedidas EXCEPT ![s] = @ + (q - invitado[s])]
               /\ UNCHANGED quitadas
          ELSE /\ quitadas' = [quitadas EXCEPT ![s] = @ + (invitado[s] - q)]
               /\ UNCHANGED pedidas
  /\ UNCHANGED <<almacen, pestana, subidas, alta, flujo, cruce>>

RemoveFromGuestCart(t, s) ==
  /\ MuestraCarrito(t) /\ vista[t][s] > 0
  /\ EscribeInvitado(t, [invitado EXCEPT ![s] = 0])
  /\ quitadas' = [quitadas EXCEPT ![s] = @ + invitado[s]]
  /\ UNCHANGED <<almacen, pestana, subidas, alta, flujo, pedidas, cruce>>

ClearGuestCart(t) ==
  /\ MuestraCarrito(t)
  /\ EscribeInvitado(t, CarritoVacio)
  /\ quitadas' = [s \in Skus |-> quitadas[s] + invitado[s]]
  /\ UNCHANGED <<almacen, pestana, subidas, alta, flujo, pedidas, cruce>>

(***************************************************************************)
(* Login, registration and migration                                       *)
(***************************************************************************)

Enviados == {f \in Flujos : flujo[f].paso \in {"ingresando", "registrando"}}

PuedeEnviar(f) ==
  /\ flujo[f] = Libre
  /\ Len(emitidos) + Cardinality(Enviados) < MaxIngresos

\* handleLogin: the button stays enabled, the form may be sent again.
EnviaIngreso(f, t, u) ==
  /\ PuedeEnviar(f)
  /\ flujo' = [flujo EXCEPT ![f] = [paso |-> "ingresando", en |-> t, quien |-> u]]
  /\ UNCHANGED <<almacen, pestana, compra, historia>>

\* handleSubmit of the register page: the button is disabled while it waits.
EnviaRegistro(f, t, u) ==
  /\ PuedeEnviar(f)
  /\ \A g \in Enviados : flujo[g].paso = "registrando" => flujo[g].en # t
  /\ flujo' = [flujo EXCEPT ![f] = [paso |-> "registrando", en |-> t, quien |-> u]]
  /\ UNCHANGED <<almacen, pestana, compra, historia>>

EnvioRechazado(f) ==
  /\ f \in Enviados
  /\ flujo' = [flujo EXCEPT ![f] = Libre]
  /\ UNCHANGED <<almacen, pestana, compra, historia>>

EmiteToken(u) ==
  /\ emitidos' = Append(emitidos, u)
  /\ token' = Len(emitidos) + 1
  /\ UNCHANGED vencidos

\* The profile goes to the storage and onAuthChanged copies it to the tab.
TomaIdentidad(t, u) ==
  /\ usuarioLS' = u
  /\ Oye(t)
  /\ sesion' = [sesion EXCEPT ![t] = u]
  /\ cargando' = [cargando EXCEPT ![t] = FALSE]

\* The login is accepted.  With a guest cart its lines are copied and posted
\* before the profile is stored; without one the handler ends here.
Ingresa(f) ==
  LET t == flujo[f].en
      u == flujo[f].quien
  IN /\ flujo[f].paso = "ingresando"
     /\ EmiteToken(u)
     /\ aviso' = Avisa(t, TRUE)
     /\ IF HayInvitado
        THEN /\ flujo' = [flujo EXCEPT ![f] =
                  [paso |-> "migrando", en |-> t, quien |-> u, con |-> Len(emitidos) + 1,
                   lineas |-> invitado, faltan |-> {s \in Skus : invitado[s] > 0}]]
             /\ riesgo' = (riesgo \/ Migrando # {})
             /\ UNCHANGED <<usuarioLS, sesion, cargando, salida>>
        ELSE /\ TomaIdentidad(t, u)
             /\ flujo' = [flujo EXCEPT ![f] = Libre]
             /\ UNCHANGED riesgo
     /\ UNCHANGED <<perfil, rechazo, compra, pedidas, quitadas>>
     /\ Cruza

\* The account is created: the guest cart is not looked at.
Registra(f) ==
  LET t == flujo[f].en
      u == flujo[f].quien
  IN /\ flujo[f].paso = "registrando"
     /\ \A k \in 1..Len(emitidos) : emitidos[k] # u
     /\ EmiteToken(u)
     /\ TomaIdentidad(t, u)
     /\ aviso' = Avisa(t, TRUE)
     /\ flujo' = [flujo EXCEPT ![f] = Libre]
     /\ UNCHANGED <<perfil, rechazo, compra, pedidas, quitadas, riesgo>>
     /\ Cruza

\* POST /cart/add with the token k: the line arrived, and a success is answered.
\* With a token that expired nothing is added, and the answer is a success too, one
\* with requires_login in it; with a good one the server adds the line, refuses it,
\* or adds it and the answer is lost.
RespuestaAdd(k, exito, llego) == IF k \in vencidos THEN ~llego ELSE exito => llego

\* Mutant of MigrateGuestCartToServer: the guest cart is not cleared at the end.
MigraSinVaciar(f, s) ==
  LET resto == flujo[f].faltan \ {s}
  IN /\ flujo[f].paso = "migrando" /\ s \in flujo[f].faltan
     /\ \E exito, llego \in BOOLEAN :
          /\ RespuestaAdd(flujo[f].con, exito, llego)
          /\ subidas' = IF llego THEN [subidas EXCEPT ![s] = @ + flujo[f].lineas[s]]
                                 ELSE subidas
          /\ riesgo' = (riesgo \/ ~exito \/ ~llego)
     /\ flujo' = [flujo EXCEPT ![f].faltan = resto,
                               ![f].paso = IF resto = {} THEN "espera" ELSE @]
     /\ UNCHANGED <<invitado, vista, almacen, pestana, alta, pedidas, quitadas, cruce>>

\* One turn of the loop of migrateGuestCartToServer, with the token of its login: it
\* goes on whatever the answer, and looks at its status alone.  After the last line
\* the guest cart is cleared, whatever it holds by then.
MigrateGuestCartToServer(f, s) ==
  LET t == flujo[f].en
      resto == flujo[f].faltan \ {s}
  IN /\ flujo[f].paso = "migrando" /\ s \in flujo[f].faltan
     /\ \E exito, llego \in BOOLEAN :
          /\ RespuestaAdd(flujo[f].con, exito, llego)
          /\ subidas' = IF llego THEN [subidas EXCEPT ![s] = @ + flujo[f].lineas[s]]
                                 ELSE subidas
          /\ riesgo' = (riesgo \/ ~exito \/ ~llego)
     /\ IF resto # {}
        THEN /\ flujo' = [flujo EXCEPT ![f].faltan = resto]
             /\ UNCHANGED <<invitado, vista>>
        ELSE /\ flujo' = [flujo EXCEPT ![f].faltan = {}, ![f].paso = "espera"]
             /\ invitado' = CarritoVacio
             /\ vista' = Notificada(t, CarritoVacio)
     /\ UNCHANGED <<almacen, pestana, alta, pedidas, quitadas, cruce>>

\* Mutant of AvisaIngreso: the handler goes on only if there still is a token.
AvisaIngresoConToken(f) ==
  LET t == flujo[f].en
      u == flujo[f].quien
  IN /\ flujo[f].paso = "espera" /\ token # 0
     /\ TomaIdentidad(t, u)
     /\ perfil' = IF usuarioLS = Nadie THEN [perfil EXCEPT ![t] = @ \cup {token}] ELSE perfil
     /\ aviso' = Avisa(t, usuarioLS # u)
     /\ flujo' = [flujo EXCEPT ![f] = Libre]
     /\ UNCHANGED <<emitidos, vencidos, token, rechazo, compra, historia>>

\* A second later: auth:changed, which takes whatever user is stored or asks for
\* the profile of whatever token there is; then the profile of the answer is
\* stored and auth:changed is sent again.
AvisaIngreso(f) ==
  LET t == flujo[f].en
      u == flujo[f].quien
  IN /\ flujo[f].paso = "espera"
     /\ TomaIdentidad(t, u)
     /\ perfil' = IF usuarioLS = Nadie /\ token # 0
                  THEN [perfil EXCEPT ![t] = @ \cup {token}] ELSE perfil
     /\ aviso' = Avisa(t, usuarioLS # u)
     /\ flujo' = [flujo EXCEPT ![f] = Libre]
     /\ UNCHANGED <<emitidos, vencidos, token, rechazo, compra, historia>>

(***************************************************************************)
(* The specification                                                       *)
(***************************************************************************)

Mano ==
  \E t \in Pestanas :
     \/ Recarga(t)
     \/ CierraSesion(t)
     \/ PideCarrito(t)
     \/ ClearGuestCart(t)
     \/ \E s \in Skus : \/ PideAlta(t, s)
                        \/ UpdateGuestCartQuantity(t, s)
                        \/ RemoveFromGuestCart(t, s)
     \/ \E f \in Flujos, u \in Usuarios : EnviaIngreso(f, t, u) \/ EnviaRegistro(f, t, u)

\* What the server and the browser do: none of these waits for the person.
RespuestaPerfil(t) ==
  \E k \in Tokens : PerfilRecibido(t, k) \/ PerfilRechazado(t, k) \/ PerfilSinRespuesta(t, k)

RespuestaAlta(t, s) == AddToGuestCart(t, s) \/ AltaFalla(t, s)

Avanza(f) ==
  \/ EnvioRechazado(f) \/ Ingresa(f) \/ Registra(f) \/ AvisaIngreso(f)
  \/ \E s \in Skus : MigrateGuestCartToServer(f, s)

Next ==
  \/ Mano
  \/ \E t \in Pestanas : \/ EntregaAviso(t) \/ RespuestaPerfil(t)
                         \/ HandleAuthError(t) \/ Redirige(t)
  \/ \E t \in Pestanas, s \in Skus : RespuestaAlta(t, s)
  \/ \E f \in Flujos : Avanza(f)
  \/ \E k \in Tokens : VenceToken(k)

Spec == Init /\ [][Next]_vars

\* A fetch is settled some day and an event is delivered; the person, the clock and
\* useCart owe nothing.
Justicia ==
  /\ \A t \in Pestanas : WF_vars(EntregaAviso(t)) /\ WF_vars(RespuestaPerfil(t))
  /\ \A t \in Pestanas, s \in Skus : WF_vars(RespuestaAlta(t, s))
  /\ \A f \in Flujos : WF_vars(Avanza(f))

FairSpec == Spec /\ Justicia

(***************************************************************************)
(* Properties                                                              *)
(***************************************************************************)

\* The types of the state, and the tokens that may be named in it.
TypeOK ==
  /\ emitidos \in Seq(Usuarios) /\ Len(emitidos) <= MaxIngresos
  /\ vencidos \subseteq 1..Len(emitidos)
  /\ token \in 0..Len(emitidos)
  /\ usuarioLS \in Usuarios \cup {Nadie}
  /\ sesion \in [Pestanas -> Usuarios \cup {Nadie}]
  /\ cargando \in [Pestanas -> BOOLEAN]
  /\ perfil \in [Pestanas -> SUBSET (1..Len(emitidos))]
  /\ aviso \in [Pestanas -> BOOLEAN]
  /\ rechazo \in [Pestanas -> BOOLEAN]
  /\ salida \in [Pestanas -> {"no", "login", "nada"}]
  /\ invitado \in Cantidades /\ subidas \in Cantidades
  /\ vista \in [Pestanas -> Cantidades]
  /\ alta \in [Pestanas -> SUBSET Skus]
  /\ flujo \in [Flujos -> Flujo]
  /\ pedidas \in Cantidades /\ quitadas \in Cantidades
  /\ riesgo \in BOOLEAN /\ cruce \in BOOLEAN

\* The units of a SKU that only the browser holds: a line the running migration
\* has posted is still listed in guest_cart, and is the server's already.
EnInvitado(s) ==
  IF \E f \in Migrando : s \notin flujo[f].faltan THEN 0 ELSE invitado[s]

LineasVigentes ==
  \A f \in Migrando : /\ flujo[f].lineas = invitado
                      /\ \A s \in flujo[f].faltan : invitado[s] > 0

UnaMigracion == \A f, g \in Migrando : f = g

\* The units she asked for are the ones in guest_cart, the ones the migrations
\* put in her carts and the ones she took out: a migration that nothing disturbs (a
\* post refused, unanswered or sent with a token that expired, a document loaded, a
\* second migration, a change of the guest cart in the meantime) neither loses a
\* unit nor posts it twice.
CuentaExacta ==
  ~riesgo => /\ UnaMigracion /\ LineasVigentes
             /\ \A s \in Skus : EnInvitado(s) + subidas[s] + quitadas[s] = pedidas[s]

\* A tab with nothing pending shows the owner of the token in localStorage, unless
\* the token changed under a request or a /me was not answered; or it is the tab
\* where useCart removed the token while the login page was open, which goes on
\* showing its user until AuthContext hears of a token again.
Tranquila(t) ==
  /\ ~aviso[t] /\ perfil[t] = {} /\ salida[t] # "login"
  /\ \A f \in Flujos : flujo[f].paso \in {"migrando", "espera"} => flujo[f].en # t

SesionDelToken ==
  ~cruce => \A t \in Pestanas : Tranquila(t) => \/ sesion[t] = Dueno(token)
                                                \/ token = 0 /\ salida[t] = "nada"

\* handleLogin and handleSubmit end: no answer leaves a form handler running.
FlujoTermina == \A f \in Flujos : flujo[f] # Libre ~> flujo[f] = Libre

\* No tab shows the loading state of AuthContext for ever.
CargaTermina == \A t \in Pestanas : cargando[t] ~> ~cargando[t]

\* The ledger of the guest cart is the one LibroCompra describes.
LC == INSTANCE LibroCompra WITH libro <- [s \in Skus |-> EnInvitado(s) + subidas[s]]

LibroDeLaCompra == LC!Spec

\* GUIA_CARRITO_USUARIOS_NO_LOGUEADOS.md: "No se pierden productos: Carrito local
\* se migra al loguearse".  With no migration running, every unit asked for and
\* not taken out is in the browser or on the server.
NoSePierden ==
  Migrando = {} =>
    \A s \in Skus : invitado[s] + subidas[s] + quitadas[s] >= pedidas[s]

=============================================================================
