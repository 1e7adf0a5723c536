-------------------------- MODULE PriceTiers_proofs --------------------------
(***************************************************************************)
(* What the readings of the price levels return, for every table of        *)
(* levels, every cost and every quantity.                                  *)
(***************************************************************************)
EXTENDS PriceTiers, FiniteSetTheorems, TLAPS

Tabla(T) == T = [i \in DOMAIN T |-> T[i]] /\ \A i \in DOMAIN T : T[i] \in Nivel

\* What the handlers of the levels may change without touching a price.
Iguales(T, U) ==
  /\ DOMAIN T = DOMAIN U
  /\ \A i \in DOMAIN T : [T[i] EXCEPT !.defecto = FALSE] = [U[i] EXCEPT !.defecto = FALSE]

\* A finite set has an element with the greatest of the values of f: a smallest
\* set without one would have one as soon as an element was put aside.
LEMMA HayMaximo ==
  ASSUME NEW S, IsFiniteSet(S), S # {}, NEW f \in [S -> Int]
  PROVE  \E m \in S : \A x \in S : f[x] <= f[m]
<1> DEFINE Tiene(T) == \E m \in T : \A x \in T : f[x] <= f[m]
           Malos == {T \in FiniteSubsetsOf(S) : T # {} /\ ~Tiene(T)}
<1> SUFFICES ASSUME ~Tiene(S) PROVE FALSE
  OBVIOUS
<1>1. S \in Malos
  BY DEF FiniteSubsetsOf
<1>2. PICK T \in Malos : \A y \in Malos : ~(<<y, T>> \in StrictSubsetOrdering(S))
  <2>1. IsWellFoundedOn(StrictSubsetOrdering(S), FiniteSubsetsOf(S))
    BY FS_StrictSubsetOrderingWellFounded
  <2> HIDE DEF Malos
  <2>2. Malos \subseteq FiniteSubsetsOf(S) /\ Malos # {}
    BY <1>1 DEF Malos
  <2> QED BY <2>1, <2>2, WFMin
<1>3. PICK x \in T : TRUE
  OBVIOUS
<1> DEFINE U == T \ {x}
<1>4. T \subseteq S /\ IsFiniteSet(T)
  BY DEF FiniteSubsetsOf
<1>5. U \in FiniteSubsetsOf(S) /\ <<U, T>> \in StrictSubsetOrdering(S)
  BY <1>4, FS_RemoveElement DEF FiniteSubsetsOf, StrictSubsetOrdering
<1>6. CASE U = {}
  <2>1. T = {x}
    BY <1>6
  <2>2. f[x] \in Int
    BY <1>4
  <2> QED BY <2>1, <2>2
<1>7. CASE U # {}
  <2>1. Tiene(U)
    BY <1>2, <1>5, <1>7
  <2>2. PICK m \in U : \A y \in U : f[y] <= f[m]
    BY <2>1
  <2>3. \A y \in T : f[y] \in Int
    BY <1>4
  <2>4. CASE f[x] <= f[m]
    BY <2>2, <2>3, <2>4
  <2>5. CASE f[m] <= f[x]
    BY <2>2, <2>3, <2>5
  <2> QED BY <2>3, <2>4, <2>5
<1> QED BY <1>6, <1>7

\* Prices of whole costs are natural numbers of hundredths.
LEMMA CalculatePriceNat ==
  ASSUME NEW n \in Nivel, NEW c \in Nat
  PROVE  CalculatePrice(n, c) \in Nat
<1>1. n.formula.valor \in Nat
      /\ n.formula.tipo \in {"multiplier", "percentage_markup", "flat_amount"}
  BY DEF Nivel, Formula
<1> DEFINE v == n.formula.valor
<1>2. c * v \in Nat /\ 100 * c \in Nat /\ 100 * (c + v) \in Nat
  BY <1>1
<1> QED BY <1>1, <1>2 DEF CalculatePrice, EnCentesimos

\* ... and so are those that PricingConfig adds to.
LEMMA ConRecargoNat ==
  ASSUME NEW x, NEW c \in Nat, NEW q \in Nat,
         \A r \in {x.w, x.d1, x.d2} : r.min \in Nat /\ r.pct \in Nat
  PROVE  ConRecargo(x, c, q) \in Nat
<1> DEFINE pct == IF q >= x.d2.min THEN x.d2.pct
                  ELSE IF q >= x.d1.min THEN x.d1.pct
                  ELSE IF q >= x.w.min THEN x.w.pct ELSE 0
<1>1. pct \in Nat
  OBVIOUS
<1>2. ConRecargo(x, c, q) = 100 * c + c * pct
  BY DEF ConRecargo, EnCentesimos
<1> HIDE DEF pct
<1>3. 100 * c \in Nat /\ c * pct \in Nat
  BY <1>1
<1> QED BY <1>2, <1>3

\* What an order is charged is a natural number.
LEMMA CobradosNat ==
  ASSUME NEW T, Tabla(T), NEW x, NEW c \in Nat, NEW q \in Nat,
         \A r \in {x.w, x.d1, x.d2} : r.min \in Nat /\ r.pct \in Nat
  PROVE  PreciosCobrados(T, x, c, q) \subseteq Nat
<1>1. ApplicablePriceTier(T, q) \subseteq DOMAIN T
  BY DEF ApplicablePriceTier, PrimerosPorOrden, MayorMinimo, Alcanzados, PorDefecto, Activos
<1>2. \A i \in DOMAIN T : CalculatePrice(T[i], c) \in Nat
  BY CalculatePriceNat DEF Tabla
<1>3. EnCentesimos(c) \in Nat
  BY DEF EnCentesimos
<1>4. PriceForQuantity(T, c, q) \subseteq Nat
  BY <1>1, <1>2, <1>3 DEF PriceForQuantity
<1>5. ConRecargo(x, c, q) \in Nat
  BY ConRecargoNat
<1> QED BY <1>4, <1>5 DEF PreciosCobrados

\* The stored prices of a product are natural numbers.
LEMMA ProductPricesNat ==
  ASSUME NEW T, Tabla(T), NEW c \in Nat, NEW p \in ProductPrices(T, c)
  PROVE  p \in [Estandar -> Nat]
<1>1. \A i \in Activos(T) : CalculatePrice(T[i], c) \in Nat
  BY CalculatePriceNat DEF Tabla, Activos
<1>2. \A x \in Estandar : c * Fallback[x] \in Nat
  <2> SUFFICES ASSUME NEW x \in Estandar PROVE c * Fallback[x] \in Nat
    OBVIOUS
  <2>1. Fallback[x] \in {250, 225, 175}
    BY DEF Fallback, Estandar
  <2> QED BY <2>1
<1>3. p \in [Estandar -> {c * Fallback[x] : x \in Estandar}
                          \cup {CalculatePrice(T[i], c) : i \in Activos(T)}]
  BY DEF ProductPrices
<1> QED BY <1>1, <1>2, <1>3

\* What the cart shows is a natural number.
LEMMA MostradosNat ==
  ASSUME NEW T, NEW g \in [Estandar -> Nat], NEW c \in Nat, NEW q
  PROVE  PreciosMostrados(T, g, c, q) \subseteq Nat
<1>1. "wholesale" \in Estandar
  BY DEF Estandar
<1>2. EnCentesimos(c) \in Nat
  BY DEF EnCentesimos
<1> QED BY <1>1, <1>2 DEF PreciosMostrados, MayorMinimo

\* The mark of the default plays no part in the stored prices.
LEMMA IgualesPrecios ==
  ASSUME NEW T, NEW U, Tabla(T), Tabla(U), Iguales(T, U), NEW c \in Nat
  PROVE  ProductPrices(T, c) = ProductPrices(U, c)
<1>1. \A i \in DOMAIN T : /\ T[i].name = U[i].name /\ T[i].formula = U[i].formula
                          /\ T[i].orden = U[i].orden /\ T[i].activo = U[i].activo
  <2> SUFFICES ASSUME NEW i \in DOMAIN T
               PROVE  /\ T[i].name = U[i].name /\ T[i].formula = U[i].formula
                      /\ T[i].orden = U[i].orden /\ T[i].activo = U[i].activo
    OBVIOUS
  <2>1. T[i] \in Nivel /\ U[i] \in Nivel
    BY DEF Tabla, Iguales
  <2>2. [T[i] EXCEPT !.defecto = FALSE] = [U[i] EXCEPT !.defecto = FALSE]
    BY DEF Iguales
  <2> QED BY <2>1, <2>2 DEF Nivel
<1>2. DOMAIN T = DOMAIN U
  BY DEF Iguales
<1>3. Activos(T) = Activos(U)
  BY <1>1, <1>2 DEF Activos
<1>4. Activos(T) \subseteq DOMAIN T
  BY DEF Activos
<1>5. \A i \in Activos(T) : CalculatePrice(T[i], c) = CalculatePrice(U[i], c)
  BY <1>1, <1>4 DEF CalculatePrice
<1>6. \A i \in Activos(T), x \in Estandar : Asigna(T[i], x) <=> Asigna(U[i], x)
  BY <1>1, <1>4 DEF Asigna
<1>7. \A S : S \subseteq Activos(T) => UltimosPorOrden(T, S) = UltimosPorOrden(U, S)
  BY <1>1, <1>4 DEF UltimosPorOrden
<1>8. {CalculatePrice(T[i], c) : i \in Activos(T)} = {CalculatePrice(U[i], c) : i \in Activos(U)}
  BY <1>3, <1>5
<1> DEFINE De(V, x) == {i \in Activos(V) : Asigna(V[i], x)}
<1>9. \A x \in Estandar : De(T, x) = De(U, x) /\ De(T, x) \subseteq Activos(T)
  BY <1>3, <1>6
<1>10. \A x \in Estandar : UltimosPorOrden(T, De(T, x)) = UltimosPorOrden(U, De(U, x))
  BY <1>7, <1>9
<1>11. \A x \in Estandar : UltimosPorOrden(T, De(T, x)) \subseteq Activos(T)
  BY <1>9 DEF UltimosPorOrden
<1> DEFINE Bien(V, p, x) == IF De(V, x) = {} THEN p[x] = c * Fallback[x]
                            ELSE \E i \in UltimosPorOrden(V, De(V, x)) :
                                   p[x] = CalculatePrice(V[i], c)
           Todas(V) == [Estandar -> {c * Fallback[x] : x \in Estandar}
                                     \cup {CalculatePrice(V[i], c) : i \in Activos(V)}]
<1>12. ProductPrices(T, c) = {p \in Todas(T) : \A x \in Estandar : Bien(T, p, x)}
  BY DEF ProductPrices
<1>13. ProductPrices(U, c) = {p \in Todas(U) : \A x \in Estandar : Bien(U, p, x)}
  BY DEF ProductPrices
<1>14. Todas(T) = Todas(U)
  BY <1>8
<1>15. \A p, x : x \in Estandar => (Bien(T, p, x) <=> Bien(U, p, x))
  BY <1>5, <1>9, <1>10, <1>11
<1> HIDE DEF Bien, Todas
<1> QED BY <1>12, <1>13, <1>14, <1>15

\* The first level by order is the one of the greatest minimum, when the order
\* follows the minima.
LEMMA MismoNivel ==
  ASSUME NEW T, Tabla(T), NEW q,
         \A i, j \in Activos(T) : T[i].min < T[j].min => T[j].orden < T[i].orden
  PROVE  ApplicableTier(T, q) = ApplicablePriceTier(T, q)
<1> DEFINE A == Alcanzados(T, q)
           M == MayorMinimo(T, A)
<1>1. \A i \in A : /\ i \in Activos(T)
                   /\ T[i].min \in Nat /\ T[i].orden \in Nat
  BY DEF Alcanzados, Activos, Tabla, Nivel
<1>2. M = {i \in A : \A j \in A : T[j].min <= T[i].min}
  BY DEF MayorMinimo
<1> HIDE DEF A, M
<1>3. ASSUME NEW i \in PrimerosPorOrden(T, A) PROVE i \in PrimerosPorOrden(T, M)
  <2>1. i \in A /\ \A j \in A : T[i].orden <= T[j].orden
    BY <1>3 DEF PrimerosPorOrden
  <2>2. ASSUME NEW j \in A PROVE T[j].min <= T[i].min
    <3>1. T[i].orden <= T[j].orden
      BY <2>1, <2>2
    <3>2. ~(T[i].min < T[j].min)
      BY <1>1, <2>1, <3>1
    <3> QED BY <1>1, <2>1, <3>2
  <2> QED BY <1>2, <2>1, <2>2 DEF PrimerosPorOrden
<1>4. ASSUME NEW i \in PrimerosPorOrden(T, M) PROVE i \in PrimerosPorOrden(T, A)
  <2>1. i \in A /\ i \in M /\ \A j \in M : T[i].orden <= T[j].orden
    BY <1>2, <1>4 DEF PrimerosPorOrden
  <2>2. ASSUME NEW j \in A PROVE T[i].orden <= T[j].orden
    <3>1. CASE j \in M
      BY <2>1, <3>1
    <3>2. CASE j \notin M
      <4>1. PICK k \in A : ~(T[k].min <= T[j].min)
        BY <1>2, <3>2
      <4>2. T[k].min <= T[i].min
        BY <1>2, <2>1
      <4>3. T[j].min < T[i].min
        BY <1>1, <2>1, <4>1, <4>2
      <4> QED BY <1>1, <2>1, <4>3
    <3> QED BY <3>1, <3>2
  <2> QED BY <2>1, <2>2 DEF PrimerosPorOrden
<1>5. PrimerosPorOrden(T, A) = PrimerosPorOrden(T, M)
  BY <1>3, <1>4
<1> QED BY <1>5 DEF ApplicableTier, ApplicablePriceTier, A, M

\* The price that the cart shows is the one that the order charges, when one level
\* i decides it and no other gives its name a stored price.
LEMMA MismoPrecio ==
  ASSUME NEW T, Tabla(T), NEW c \in Nat, NEW x, NEW q,
         NEW g \in ProductPrices(T, c), NEW i \in Activos(T),
         MayorMinimo(T, Alcanzados(T, q)) = {i},
         T[i].name \in Estandar,
         CalculatePrice(T[i], c) # 0,
         CalculatePrice(T[i], c) # EnCentesimos(c),
         \A j \in Activos(T) : Asigna(T[j], T[i].name) => j = i
  PROVE  PreciosMostrados(T, g, c, q) = PreciosCobrados(T, x, c, q)
<1> DEFINE p == CalculatePrice(T[i], c)
           n == T[i].name
<1>1. T[i] \in Nivel /\ T[i].orden \in Nat
  BY DEF Tabla, Activos, Nivel
<1>2. p \in Nat
  BY <1>1, CalculatePriceNat
<1>3. g[n] = p
  <2>1. {j \in Activos(T) : Asigna(T[j], n)} = {i}
    BY DEF Asigna
  <2>2. UltimosPorOrden(T, {i}) = {i}
    BY <1>1 DEF UltimosPorOrden
  <2> QED BY <2>1, <2>2 DEF ProductPrices
<1>4. PreciosMostrados(T, g, c, q) = {p}
  <2> DEFINE con == {j \in Alcanzados(T, q) : T[j].name \in Estandar /\ g[T[j].name] > 0}
  <2>1. i \in Alcanzados(T, q) /\ \A j \in Alcanzados(T, q) : T[j].min <= T[i].min
    BY DEF MayorMinimo
  <2>2. i \in con
    BY <1>2, <1>3, <2>1
  <2>3. \A j \in Alcanzados(T, q) : T[j].min \in Nat
    BY DEF Alcanzados, Activos, Tabla, Nivel
  <2>4. ASSUME NEW j \in MayorMinimo(T, con) PROVE j = i
    <3>1. j \in Alcanzados(T, q) /\ T[i].min <= T[j].min
      BY <2>2, <2>4 DEF MayorMinimo
    <3>2. j \in MayorMinimo(T, Alcanzados(T, q))
      BY <2>1, <2>3, <3>1 DEF MayorMinimo
    <3> QED BY <3>2
  <2>5. i \in MayorMinimo(T, con)
    BY <2>1, <2>2 DEF MayorMinimo
  <2>6. MayorMinimo(T, con) = {i}
    BY <2>4, <2>5
  <2> QED BY <1>3, <2>2, <2>6 DEF PreciosMostrados
<1>5. PreciosCobrados(T, x, c, q) = {p}
  <2>1. Alcanzados(T, q) # {}
    BY DEF MayorMinimo
  <2>2. PrimerosPorOrden(T, {i}) = {i}
    BY <1>1 DEF PrimerosPorOrden
  <2>3. ApplicablePriceTier(T, q) = {i}
    BY <2>1, <2>2 DEF ApplicablePriceTier
  <2>4. PriceForQuantity(T, c, q) = {p}
    BY <2>3 DEF PriceForQuantity
  <2> QED BY <2>4 DEF PreciosCobrados
<1> QED BY <1>4, <1>5

=============================================================================
