----------------------------- MODULE PriceAdmin -----------------------------
(***************************************************************************)
(* The administration of the price levels and of the prices of a product.  *)
(* The handlers run no transaction: each of their statements is a step, and *)
(* the requests of several administrators interleave.                      *)
(***************************************************************************)
EXTENDS PriceTiers, FiniteSets, FiniteSetsExt

CONSTANTS
  Ids,        \* ids of price_tiers
  Admins,     \* requests that may run at once
  Entradas,   \* bodies of the requests to create or update a level; orden = 0 when not sent
  Ordenes,    \* bodies of the requests to reorder: orders for some ids
  Iniciales,  \* the levels of the migration
  Configs,    \* bodies of PUT /settings/pricing
  Costos,     \* costs of the product
  MaxCambios  \* bound: requests to change the levels, the surcharges or the cost

EsTabla(T) == \E S \in SUBSET Ids : T \in [S -> Nivel]

ASSUME IdsAssumption == IsFiniteSet(Ids)
ASSUME EntradasAssumption == Entradas \subseteq Nivel
ASSUME OrdenesAssumption == \A o \in Ordenes : \A i \in DOMAIN o : o[i] \in Nat
ASSUME ConfigsAssumption ==
  \A x \in Configs : \A r \in {x.w, x.d1, x.d2} : r.min \in Nat /\ r.pct \in Nat
ASSUME CostosAssumption == Costos \subseteq Nat
ASSUME MaxCambiosAssumption == MaxCambios \in Nat
ASSUME InicialesAssumption ==
  /\ EsTabla(Iniciales)
  /\ \A i, j \in DOMAIN Iniciales : Iniciales[i].defecto /\ Iniciales[j].defecto => i = j

VARIABLES
  niveles,   \* the live rows of price_tiers
  cfg,       \* pricing_configs
  costo,     \* products.cost_price
  guardados, \* the stored prices of the product
  adm,       \* the requests in progress
  cambios,   \* requests so far
  solape,    \* history: two requests that set a default overlapped, or one could
             \* not unmark the others
  alDia      \* history: the stored prices come from these levels and this cost

precios == <<niveles, cfg, costo, guardados>>
panel == <<adm, cambios, solape, alDia>>

Libre == [paso |-> "libre"]

Peticion ==
  {Libre}
  \cup [paso : {"crea"}, entrada : Nivel]
  \cup [paso : {"desmarca", "escribe"}, id : Ids, entrada : Nivel]
  \cup [paso : {"borra"}, id : Ids]

\* A recalculation has read the levels, and then the costs.
Recalculo(T) ==
  [paso : {"leeCosto"}, tiers : {T}, vieja : BOOLEAN]
  \cup [paso : {"guarda"}, tiers : {T}, vieja : BOOLEAN, costo : Costos]

Defectos == {i \in DOMAIN niveles : niveles[i].defecto}

\* A request that will write is_default = true.
Marca(r) == r.paso \in {"crea", "desmarca", "escribe"} /\ r.entrada.defecto

Lee(r) == r.paso \in {"leeCosto", "guarda"}

IniciaPanel ==
  /\ niveles = Iniciales
  /\ cfg \in Configs
  /\ costo \in Costos
  /\ guardados \in ProductPrices(Iniciales, costo)
  /\ adm = [a \in Admins |-> Libre]
  /\ cambios = 0 /\ solape = FALSE /\ alDia = TRUE

\* falla: its first update, which unmarks the defaults, did not go through.
Empieza(a, r, falla) ==
  /\ adm[a] = Libre /\ cambios < MaxCambios
  /\ cambios' = cambios + 1
  /\ adm' = [adm EXCEPT ![a] = r]
  /\ solape' = (solape \/ falla \/ (Marca(r) /\ \E b \in Admins : Marca(adm[b])))

Termina(a) == adm' = [adm EXCEPT ![a] = Libre]

\* What a recalculation read is no longer so.
Envejece(a, r) ==
  /\ alDia' = FALSE
  /\ adm' = [b \in Admins |-> IF b = a THEN r
                              ELSE IF Lee(adm[b]) THEN [adm[b] EXCEPT !.vieja = TRUE]
                              ELSE adm[b]]

SinDefecto(S) == [i \in DOMAIN niveles |->
                    IF i \in S THEN [niveles[i] EXCEPT !.defecto = FALSE] ELSE niveles[i]]

-----------------------------------------------------------------------------
(* CreatePriceTier: the defaults are unmarked, with no look at the error of  *)
(* the update, then the row is made.                                         *)

CreatePriceTier(a, e) ==
  /\ \E falla \in BOOLEAN :
       /\ falla => e.defecto
       /\ Empieza(a, [paso |-> "crea", entrada |-> e], falla)
       /\ niveles' = IF e.defecto /\ ~falla THEN SinDefecto(DOMAIN niveles) ELSE niveles
  /\ UNCHANGED <<cfg, costo, guardados, alDia>>

\* The order is one more than the greatest, or than nothing when it could not be read,
\* when the body has none, and what the body leaves at zero takes the default of its
\* column: a level is born active.
NivelNuevo(e, leido) ==
  [e EXCEPT !.orden = IF @ # 0 THEN @ ELSE IF leido
                      THEN Max({niveles[j].orden : j \in DOMAIN niveles} \cup {0}) + 1 ELSE 1,
            !.activo = TRUE,
            !.formula.valor = IF @ = 0 /\ e.formula.tipo = "multiplier" THEN 100 ELSE @]

InsertaNivel(a) ==
  /\ adm[a].paso = "crea"
  /\ \E i \in Ids \ DOMAIN niveles, leido \in BOOLEAN :
       niveles' = [j \in DOMAIN niveles \cup {i} |->
                     IF j = i THEN NivelNuevo(adm[a].entrada, leido) ELSE niveles[j]]
  /\ Envejece(a, Libre)
  /\ UNCHANGED <<cfg, costo, guardados, cambios, solape>>

-----------------------------------------------------------------------------
(* UpdatePriceTier: the row is read; the others are unmarked when the row    *)
(* read is not the default; the row is written.                              *)

UpdatePriceTier(a, i, e) ==
  /\ i \in DOMAIN niveles
  /\ Empieza(a, [paso |-> IF e.defecto /\ ~niveles[i].defecto THEN "desmarca" ELSE "escribe",
                 id |-> i, entrada |-> e], FALSE)
  /\ UNCHANGED <<precios, alDia>>

\* Mutant: the others keep their mark.
SinDesmarcar(a) ==
  /\ adm[a].paso = "desmarca"
  /\ adm' = [adm EXCEPT ![a].paso = "escribe"]
  /\ UNCHANGED <<precios, cambios, solape, alDia>>

\* The others lose their mark, or the update fails and the row is written all the same.
DesmarcaOtros(a) ==
  /\ adm[a].paso = "desmarca"
  /\ adm' = [adm EXCEPT ![a].paso = "escribe"]
  /\ \/ niveles' = SinDefecto(DOMAIN niveles \ {adm[a].id}) /\ UNCHANGED solape
     \/ solape' = TRUE /\ UNCHANGED niveles
  /\ UNCHANGED <<cfg, costo, guardados, cambios, alDia>>

\* A row deleted meanwhile is not written.
EscribeNivel(a) ==
  /\ adm[a].paso = "escribe"
  /\ LET i == adm[a].id
         e == adm[a].entrada
     IN niveles' = IF i \notin DOMAIN niveles THEN niveles
          ELSE [niveles EXCEPT ![i] = [e EXCEPT !.orden = IF @ = 0 THEN niveles[i].orden ELSE @]]
  /\ Envejece(a, Libre)
  /\ UNCHANGED <<cfg, costo, guardados, cambios, solape>>

-----------------------------------------------------------------------------
(* DeletePriceTier: the row is read, and the default is refused; it goes.    *)

DeletePriceTier(a, i) ==
  /\ i \in DOMAIN niveles /\ ~niveles[i].defecto
  /\ Empieza(a, [paso |-> "borra", id |-> i], FALSE)
  /\ UNCHANGED <<precios, alDia>>

BorraNivel(a) ==
  /\ adm[a].paso = "borra"
  /\ niveles' = [i \in DOMAIN niveles \ {adm[a].id} |-> niveles[i]]
  /\ Envejece(a, Libre)
  /\ UNCHANGED <<cfg, costo, guardados, cambios, solape>>

\* ReorderPriceTiers: one update per level, of which some may fail in silence.
ReorderPriceTiers(a, o) ==
  /\ adm[a] = Libre /\ cambios < MaxCambios
  /\ cambios' = cambios + 1
  /\ \E S \in SUBSET (DOMAIN o \cap DOMAIN niveles) :
       niveles' = [i \in DOMAIN niveles |->
                     IF i \in S THEN [niveles[i] EXCEPT !.orden = o[i]] ELSE niveles[i]]
  /\ Envejece(a, Libre)
  /\ UNCHANGED <<cfg, costo, guardados, solape>>

\* The last statement of a request fails: what it did before stays done.
FallaEscritura(a) ==
  /\ adm[a].paso \in {"crea", "escribe", "borra", "guarda"}
  /\ Termina(a)
  /\ UNCHANGED <<precios, cambios, solape, alDia>>

-----------------------------------------------------------------------------
(* RecalculateAllProductPrices: the levels are read, then the costs, then    *)
(* each product is updated.                                                   *)

RecalculateAllProductPrices(a) ==
  /\ Activos(niveles) # {}
  /\ Empieza(a, [paso |-> "leeCosto", tiers |-> niveles, vieja |-> FALSE], FALSE)
  /\ UNCHANGED <<precios, alDia>>

LeeCosto(a) ==
  /\ adm[a].paso = "leeCosto"
  /\ adm' = [adm EXCEPT ![a] = [paso |-> "guarda", tiers |-> adm[a].tiers,
                                vieja |-> adm[a].vieja, costo |-> costo]]
  /\ UNCHANGED <<precios, cambios, solape, alDia>>

\* Mutant: a product that has a wholesale price keeps it.
GuardaSoloVacios(a) ==
  /\ adm[a].paso = "guarda"
  /\ guardados' \in {IF guardados["wholesale"] > 0
                     THEN [p EXCEPT !["wholesale"] = guardados["wholesale"]] ELSE p :
                       p \in ProductPrices(adm[a].tiers, adm[a].costo)}
  /\ alDia' = ~adm[a].vieja
  /\ Termina(a)
  /\ UNCHANGED <<niveles, cfg, costo, cambios, solape>>

GuardaPrecios(a) ==
  /\ adm[a].paso = "guarda"
  /\ guardados' \in ProductPrices(adm[a].tiers, adm[a].costo)
  /\ alDia' = ~adm[a].vieja
  /\ Termina(a)
  /\ UNCHANGED <<niveles, cfg, costo, cambios, solape>>

\* UpdateProduct, as the editor sends it: the cost changes, the stored prices do not.
UpdateProduct(c) ==
  /\ c # costo /\ cambios < MaxCambios
  /\ cambios' = cambios + 1
  /\ costo' = c
  /\ alDia' = FALSE
  /\ adm' = [b \in Admins |-> IF Lee(adm[b]) THEN [adm[b] EXCEPT !.vieja = TRUE] ELSE adm[b]]
  /\ UNCHANGED <<niveles, cfg, guardados, solape>>

\* The surcharges have one record, replaced whole.
UpdatePricingConfig(x) ==
  /\ x # cfg /\ cambios < MaxCambios
  /\ cambios' = cambios + 1
  /\ cfg' = x
  /\ UNCHANGED <<niveles, costo, guardados, adm, solape, alDia>>

-----------------------------------------------------------------------------

PasoDe(a) ==
  \/ \E e \in Entradas : CreatePriceTier(a, e) \/ \E i \in Ids : UpdatePriceTier(a, i, e)
  \/ \E i \in Ids : DeletePriceTier(a, i)
  \/ \E o \in Ordenes : ReorderPriceTiers(a, o)
  \/ RecalculateAllProductPrices(a)
  \/ InsertaNivel(a) \/ DesmarcaOtros(a) \/ EscribeNivel(a) \/ BorraNivel(a)
  \/ LeeCosto(a) \/ GuardaPrecios(a) \/ FallaEscritura(a)

PasoDelPanel ==
  \/ \E a \in Admins : PasoDe(a)
  \/ \E c \in Costos : UpdateProduct(c)
  \/ \E x \in Configs : UpdatePricingConfig(x)

-----------------------------------------------------------------------------
(* Properties                                                                *)

\* At most one level is the default, unless two requests that set one overlapped or
\* one went on after an update that should have unmarked the others failed.
UnDefecto == ~solape => \A i, j \in Defectos : i = j

\* Every active level has a name of its own, and those of other names leave the
\* places of the stored prices alone.
NombresClaros ==
  \A i \in Activos(niveles) :
    /\ niveles[i].name \notin Estandar => niveles[i].orden \notin 1..3
    /\ \A j \in Activos(niveles) : niveles[i].name = niveles[j].name => i = j

\* One level decides the price for q units: it has a stored price, and one that is
\* neither nothing nor the cost.
NivelClaro(q) ==
  \E i \in Activos(niveles) :
    LET p == CalculatePrice(niveles[i], costo)
    IN /\ MayorMinimo(niveles, Alcanzados(niveles, q)) = {i}
       /\ niveles[i].name \in Estandar
       /\ p # 0 /\ p # EnCentesimos(costo)

\* What the cart shows per unit, off the stored prices, is what the order charges,
\* off the levels and the cost, while the stored prices come from them: since the
\* product was made, or since a recalculation that no change overtook.
PrecioAnunciado(q) ==
  (alDia /\ NombresClaros /\ NivelClaro(q)) =>
    PreciosMostrados(niveles, guardados, costo, q) = PreciosCobrados(niveles, cfg, costo, q)

\* The order of the levels follows their minima, as in the migration.
OrdenSigueMinimos ==
  \A i, j \in Activos(niveles) :
    niveles[i].min < niveles[j].min => niveles[j].orden < niveles[i].orden

\* The screen of the seller, which takes the first level by order, chooses the level
\* that the checkout chooses by its minimum, while the order follows the minima.
PantallaComoServidor(q) ==
  OrdenSigueMinimos => ApplicableTier(niveles, q) = ApplicablePriceTier(niveles, q)

=============================================================================
