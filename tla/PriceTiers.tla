----------------------------- MODULE PriceTiers -----------------------------
(***************************************************************************)
(* The price levels (price_tiers) and the ways in which the program reads  *)
(* a price off them: the checkout, the summary of the cart, the stored     *)
(* prices of a product and the screen of the seller each have their own.   *)
(*                                                                         *)
(* A table T is a function from ids to levels.  Where the code depends on  *)
(* the order in which the database or an unstable sort leaves equal rows,  *)
(* the operator is the set of what it may choose.  Costs are whole and     *)
(* amounts are in hundredths, so no operation rounds.                      *)
(***************************************************************************)
EXTENDS Integers

Estandar == {"wholesale", "discount1", "discount2"}
Nombres == Estandar \cup {"retail", "otro"}

\* valor is in hundredths for a multiplier, in percent or in whole units.
Formula == [tipo : {"multiplier", "percentage_markup", "flat_amount"}, valor : Nat]

Nivel == [name : Nombres, formula : Formula, min : Nat, orden : Nat,
          activo : BOOLEAN, defecto : BOOLEAN]

EnCentesimos(costo) == 100 * costo

\* PriceTier.CalculatePrice.
CalculatePrice(n, costo) ==
  CASE n.formula.tipo = "multiplier" -> costo * n.formula.valor
    [] n.formula.tipo = "percentage_markup" -> EnCentesimos(costo) + costo * n.formula.valor
    [] n.formula.tipo = "flat_amount" -> EnCentesimos(costo + n.formula.valor)

Activos(T) == {i \in DOMAIN T : T[i].activo}

Alcanzados(T, q) == {i \in Activos(T) : T[i].min <= q}

PrimerosPorOrden(T, S) == {i \in S : \A j \in S : T[i].orden <= T[j].orden}

PorDefecto(T) == PrimerosPorOrden(T, {i \in Activos(T) : T[i].defecto})

(***************************************************************************)
(* The checkout                                                            *)
(***************************************************************************)

MayorMinimo(T, S) == {i \in S : \A j \in S : T[j].min <= T[i].min}

\* GetApplicablePriceTierFromList: the greatest minimum reached, the lowest order
\* among equals; when none is reached, the default.
ApplicablePriceTier(T, q) ==
  IF Alcanzados(T, q) # {}
  THEN PrimerosPorOrden(T, MayorMinimo(T, Alcanzados(T, q)))
  ELSE PorDefecto(T)

\* CalculatePriceForQuantityFromList.
PriceForQuantity(T, costo, q) ==
  IF ApplicablePriceTier(T, q) = {} THEN {EnCentesimos(costo)}
  ELSE {CalculatePrice(T[i], costo) : i \in ApplicablePriceTier(T, q)}

\* Mutant: a percentage is taken off.
ConDescuento(cfg, costo, q) ==
  IF q >= cfg.w.min THEN EnCentesimos(costo) - costo * cfg.w.pct ELSE EnCentesimos(costo)

\* The surcharges of PricingConfig, asked when the levels leave the price at cost.
ConRecargo(cfg, costo, q) ==
  LET pct == IF q >= cfg.d2.min THEN cfg.d2.pct
             ELSE IF q >= cfg.d1.min THEN cfg.d1.pct
             ELSE IF q >= cfg.w.min THEN cfg.w.pct ELSE 0
  IN EnCentesimos(costo) + costo * pct

\* What an order is charged per unit.
PreciosCobrados(T, cfg, costo, q) ==
  {IF p = EnCentesimos(costo) THEN ConRecargo(cfg, costo, q) ELSE p :
     p \in PriceForQuantity(T, costo, q)}

(***************************************************************************)
(* The stored prices of a product                                          *)
(***************************************************************************)

\* The level of the name, or a level of another name that has its place in the order.
Asigna(n, x) ==
  \/ n.name = x
  \/ n.name \notin Estandar
     /\ n.orden = (CASE x = "wholesale" -> 3 [] x = "discount1" -> 2 [] x = "discount2" -> 1)

Fallback == [wholesale |-> 250, discount1 |-> 225, discount2 |-> 175]

UltimosPorOrden(T, S) == {i \in S : \A j \in S : T[j].orden <= T[i].orden}

\* CalculateProductPricesFromList over the active levels by order: of several
\* levels for one price, the last stays.
ProductPrices(T, costo) ==
  {p \in [Estandar -> {costo * Fallback[x] : x \in Estandar}
                        \cup {CalculatePrice(T[i], costo) : i \in Activos(T)}] :
     \A x \in Estandar :
       LET S == {i \in Activos(T) : Asigna(T[i], x)}
       IN IF S = {} THEN p[x] = costo * Fallback[x]
          ELSE \E i \in UltimosPorOrden(T, S) : p[x] = CalculatePrice(T[i], costo)}

(***************************************************************************)
(* The cart                                                                *)
(***************************************************************************)

\* calculatePriceForTier of the cart: the stored price of the greatest minimum
\* reached whose name it knows; the wholesale price otherwise.
PreciosMostrados(T, g, costo, q) ==
  LET con == {i \in Alcanzados(T, q) : T[i].name \in Estandar /\ g[T[i].name] > 0}
  IN IF con # {} THEN {g[T[i].name] : i \in MayorMinimo(T, con)}
     ELSE IF g["wholesale"] > 0 THEN {g["wholesale"]} ELSE {EnCentesimos(costo)}

(***************************************************************************)
(* The screen of the seller                                                *)
(***************************************************************************)

\* Mutant: the levels sorted the other way.
UltimoNivel(T, q) ==
  IF Alcanzados(T, q) # {} THEN UltimosPorOrden(T, Alcanzados(T, q)) ELSE PorDefecto(T)

\* getApplicableTier of priceCalculations.ts, and the find of calculatePriceWithTier:
\* the first by order of those reached.
ApplicableTier(T, q) ==
  IF Alcanzados(T, q) # {} THEN PrimerosPorOrden(T, Alcanzados(T, q)) ELSE PorDefecto(T)

=============================================================================
