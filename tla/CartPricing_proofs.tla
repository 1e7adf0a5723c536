-------------------------- MODULE CartPricing_proofs --------------------------
(***************************************************************************)
(* Proofs about CartPricing, for every set of ids, administrators, levels, *)
(* surcharges and costs and every value of the bounds.                     *)
(***************************************************************************)
EXTENDS CartPricing, PriceTiers_proofs

(***************************************************************************)
(* The inductive invariant.                                                *)
(***************************************************************************)

\* A request in progress holds what its handler has read.
BienHecha(r) ==
  IF Lee(r) THEN EsTabla(r.tiers) /\ r \in Recalculo(r.tiers) ELSE r \in Peticion

AdmTipo == adm = [a \in Admins |-> adm[a]] /\ \A a \in Admins : BienHecha(adm[a])

PanelTipo ==
  /\ EsTabla(niveles)
  /\ cfg \in Configs /\ costo \in Costos
  /\ guardados \in [Estandar -> Nat]
  /\ AdmTipo
  /\ cambios \in 0..MaxCambios /\ solape \in BOOLEAN /\ alDia \in BOOLEAN

CarritoTipo ==
  /\ conVariante \in BOOLEAN /\ abierto \in BOOLEAN
  /\ linea \in Linea
  /\ orden \in [hay : BOOLEAN, item : Item]

\* Between the unmarking of the others and the write of a new default there is no
\* default, or only the row that is about to be written.
DefectoInv ==
  ~solape =>
    /\ \A i, j \in Defectos : i = j
    /\ \A a \in Admins : Marca(adm[a]) =>
         /\ adm[a].paso = "crea" => Defectos = {}
         /\ adm[a].paso = "escribe" => Defectos \subseteq {adm[a].id}
         /\ \A b \in Admins : Marca(adm[b]) => b = a

\* The stored prices, and what a recalculation has read, are those of the levels
\* and of the cost unless they are known to be older.
PreciosInv ==
  /\ alDia => guardados \in ProductPrices(niveles, costo)
  /\ \A a \in Admins : Lee(adm[a]) /\ ~adm[a].vieja =>
       /\ Iguales(adm[a].tiers, niveles)
       /\ adm[a].paso = "guarda" => adm[a].costo = costo

\* Without an order there is no line of it.
OrdenInv == ~orden.hay => orden.item = SinItem

PanelInv == PanelTipo /\ DefectoInv /\ PreciosInv
CarritoInv == CarritoTipo /\ OrdenInv

LEMMA TiposJuntos == TypeOK <=> PanelTipo /\ CarritoTipo
BY DEF TypeOK, PanelTipo, CarritoTipo, AdmTipo, BienHecha

(***************************************************************************)
(* Tables                                                                  *)
(***************************************************************************)

LEMMA TablaDe ==
  ASSUME NEW T, EsTabla(T)
  PROVE  Tabla(T) /\ DOMAIN T \subseteq Ids
BY DEF EsTabla, Tabla

LEMMA EsTablaDe ==
  ASSUME NEW S, S \subseteq Ids, NEW T, T = [i \in S |-> T[i]], \A i \in S : T[i] \in Nivel
  PROVE  EsTabla(T)
BY DEF EsTabla

LEMMA IgualesJuntas ==
  ASSUME NEW T, NEW U, NEW V, Iguales(T, U), Iguales(U, V)
  PROVE  Iguales(T, V)
BY DEF Iguales

\* Unmarking changes no price and leaves the other defaults.
LEMMA SinDefectoEfecto ==
  ASSUME EsTabla(niveles), NEW S, niveles' = SinDefecto(S)
  PROVE  EsTabla(niveles') /\ Iguales(niveles, niveles') /\ Defectos' = Defectos \ S
<1>1. Tabla(niveles) /\ DOMAIN niveles \subseteq Ids
  BY TablaDe
<1>2. DOMAIN niveles' = DOMAIN niveles
  BY DEF SinDefecto
<1>3. \A i \in DOMAIN niveles :
        niveles'[i] = IF i \in S THEN [niveles[i] EXCEPT !.defecto = FALSE] ELSE niveles[i]
  BY DEF SinDefecto
<1>4. \A i \in DOMAIN niveles : niveles[i] \in Nivel
  BY <1>1 DEF Tabla
<1>5. \A i \in DOMAIN niveles : niveles'[i] \in Nivel
  BY <1>3, <1>4 DEF Nivel
<1>6. EsTabla(niveles')
  BY <1>1, <1>2, <1>5, EsTablaDe DEF SinDefecto
<1>7. Iguales(niveles, niveles')
  <2>1. ASSUME NEW i \in DOMAIN niveles
        PROVE  [niveles[i] EXCEPT !.defecto = FALSE] = [niveles'[i] EXCEPT !.defecto = FALSE]
    BY <1>3, <1>4 DEF Nivel
  <2> QED BY <1>2, <2>1 DEF Iguales
<1>8. \A i \in DOMAIN niveles :
        niveles'[i].defecto = IF i \in S THEN FALSE ELSE niveles[i].defecto
  BY <1>3, <1>4 DEF Nivel
<1>9. Defectos' = Defectos \ S
  BY <1>2, <1>8 DEF Defectos
<1> QED BY <1>6, <1>7, <1>9

(***************************************************************************)
(* Requests                                                                *)
(***************************************************************************)

\* What a request that is not a recalculation holds.
LEMMA PeticionCampos ==
  ASSUME NEW r, BienHecha(r)
  PROVE  /\ r.paso = "crea" => r.entrada \in Nivel
         /\ r.paso \in {"desmarca", "escribe"} => r.id \in Ids /\ r.entrada \in Nivel
         /\ r.paso = "borra" => r.id \in Ids
         /\ Lee(r) => /\ EsTabla(r.tiers) /\ r.vieja \in BOOLEAN
                      /\ r.paso = "guarda" => r.costo \in Costos
         /\ r.paso \in {"libre", "crea", "desmarca", "escribe", "borra", "leeCosto", "guarda"}
<1>1. CASE Lee(r)
  BY <1>1 DEF BienHecha, Recalculo, Lee
<1>2. CASE ~Lee(r)
  <2>1. r \in Peticion
    BY <1>2 DEF BienHecha
  <2>2. CASE r = Libre
    BY <2>2 DEF Libre, Lee
  <2>3. CASE r \in [paso : {"crea"}, entrada : Nivel]
    BY <2>3 DEF Lee
  <2>4. CASE r \in [paso : {"desmarca", "escribe"}, id : Ids, entrada : Nivel]
    BY <2>4 DEF Lee
  <2>5. CASE r \in [paso : {"borra"}, id : Ids]
    BY <2>5 DEF Lee
  <2> QED BY <2>1, <2>2, <2>3, <2>4, <2>5 DEF Peticion
<1> QED BY <1>1, <1>2

LEMMA LibreBienHecha == BienHecha(Libre) /\ ~Lee(Libre) /\ ~Marca(Libre)
BY DEF BienHecha, Lee, Marca, Libre, Peticion

\* A request starts.
LEMMA EmpiezaEfecto ==
  ASSUME PanelTipo, NEW a \in Admins, NEW r, NEW falla \in BOOLEAN, BienHecha(r),
         Empieza(a, r, falla)
  PROVE  /\ AdmTipo' /\ cambios' \in 0..MaxCambios /\ solape' \in BOOLEAN
         /\ adm[a] = Libre /\ adm'[a] = r
         /\ \A b \in Admins : b # a => adm'[b] = adm[b]
         /\ ~solape' => ~solape /\ ~falla /\ (Marca(r) => \A b \in Admins : ~Marca(adm[b]))
<1>1. adm' = [adm EXCEPT ![a] = r] /\ adm[a] = Libre
  BY DEF Empieza
<1>2. adm = [b \in Admins |-> adm[b]] /\ \A b \in Admins : BienHecha(adm[b])
  BY DEF PanelTipo, AdmTipo
<1>3. adm' = [b \in Admins |-> IF b = a THEN r ELSE adm[b]]
  BY <1>1, <1>2
<1>4. AdmTipo'
  <2>1. \A b \in Admins : BienHecha(adm'[b])
    BY <1>2, <1>3
  <2>2. adm' = [b \in Admins |-> adm'[b]]
    BY <1>3
  <2> QED BY <2>1, <2>2 DEF AdmTipo, BienHecha, Lee
<1>5. cambios' \in 0..MaxCambios
  BY MaxCambiosAssumption DEF Empieza, PanelTipo
<1>6. solape' = (solape \/ falla \/ (Marca(r) /\ \E b \in Admins : Marca(adm[b])))
  BY DEF Empieza
<1>7. solape \in BOOLEAN
  BY DEF PanelTipo
<1>8. /\ solape' \in BOOLEAN
      /\ ~solape' => ~solape /\ ~falla /\ (Marca(r) => \A b \in Admins : ~Marca(adm[b]))
  BY <1>6, <1>7
<1> QED BY <1>1, <1>3, <1>4, <1>5, <1>8

\* A request ends, or takes its next step.
LEMMA SigueEfecto ==
  ASSUME AdmTipo, NEW a \in Admins, NEW r, BienHecha(r), adm' = [adm EXCEPT ![a] = r]
  PROVE  AdmTipo' /\ adm'[a] = r /\ \A b \in Admins : b # a => adm'[b] = adm[b]
<1>1. adm = [b \in Admins |-> adm[b]] /\ \A b \in Admins : BienHecha(adm[b])
  BY DEF AdmTipo
<1>2. adm' = [b \in Admins |-> IF b = a THEN r ELSE adm[b]]
  BY <1>1
<1>3. \A b \in Admins : BienHecha(adm'[b])
  BY <1>1, <1>2
<1>4. adm' = [b \in Admins |-> adm'[b]]
  BY <1>2
<1> QED BY <1>2, <1>3, <1>4 DEF AdmTipo, BienHecha, Lee

\* A recalculation that is told that what it read is old.
LEMMA ViejaBienHecha ==
  ASSUME NEW r, BienHecha(r), Lee(r)
  PROVE  LET s == [r EXCEPT !.vieja = TRUE]
         IN BienHecha(s) /\ Lee(s) /\ s.vieja = TRUE /\ ~Marca(s)
<1> DEFINE s == [r EXCEPT !.vieja = TRUE]
<1>1. EsTabla(r.tiers) /\ r \in Recalculo(r.tiers)
  BY DEF BienHecha
<1>2. CASE r \in [paso : {"leeCosto"}, tiers : {r.tiers}, vieja : BOOLEAN]
  <2>1. s \in [paso : {"leeCosto"}, tiers : {r.tiers}, vieja : BOOLEAN]
        /\ s.vieja = TRUE /\ s.tiers = r.tiers /\ s.paso = "leeCosto"
    BY <1>2
  <2> QED BY <1>1, <2>1 DEF BienHecha, Lee, Marca, Recalculo
<1>3. CASE r \in [paso : {"guarda"}, tiers : {r.tiers}, vieja : BOOLEAN, costo : Costos]
  <2>1. s \in [paso : {"guarda"}, tiers : {r.tiers}, vieja : BOOLEAN, costo : Costos]
        /\ s.vieja = TRUE /\ s.tiers = r.tiers /\ s.paso = "guarda"
    BY <1>3
  <2> QED BY <1>1, <2>1 DEF BienHecha, Lee, Marca, Recalculo
<1> QED BY <1>1, <1>2, <1>3 DEF Recalculo

\* The requests in progress when the levels or the cost change.
LEMMA EnvejeceAdm ==
  ASSUME AdmTipo, NEW X \in SUBSET Admins,
         adm' = [b \in Admins |-> IF b \in X THEN Libre
                                  ELSE IF Lee(adm[b]) THEN [adm[b] EXCEPT !.vieja = TRUE]
                                  ELSE adm[b]]
  PROVE  /\ AdmTipo'
         /\ \A b \in Admins : Marca(adm'[b]) => b \notin X /\ adm'[b] = adm[b]
         /\ \A b \in Admins : Lee(adm'[b]) => adm'[b].vieja
<1>1. ASSUME NEW b \in Admins
      PROVE  /\ BienHecha(adm'[b])
             /\ Marca(adm'[b]) => b \notin X /\ adm'[b] = adm[b]
             /\ Lee(adm'[b]) => adm'[b].vieja
  <2>1. BienHecha(adm[b])
    BY DEF AdmTipo
  <2>2. CASE b \in X
    <3>1. adm'[b] = Libre
      BY <2>2
    <3> QED BY <3>1, LibreBienHecha
  <2>3. CASE b \notin X /\ Lee(adm[b])
    <3>1. adm'[b] = [adm[b] EXCEPT !.vieja = TRUE]
      BY <2>3
    <3> QED BY <2>1, <2>3, <3>1, ViejaBienHecha
  <2>4. CASE b \notin X /\ ~Lee(adm[b])
    <3>1. adm'[b] = adm[b]
      BY <2>4
    <3> QED BY <2>1, <2>4, <3>1
  <2> QED BY <2>2, <2>3, <2>4
<1>2. adm' = [b \in Admins |-> adm'[b]]
  OBVIOUS
<1> QED BY <1>1, <1>2 DEF AdmTipo, BienHecha, Lee

LEMMA EnvejeceEfecto ==
  ASSUME AdmTipo, NEW a \in Admins, Envejece(a, Libre)
  PROVE  /\ AdmTipo' /\ alDia' = FALSE
         /\ \A b \in Admins : Marca(adm'[b]) => b # a /\ adm'[b] = adm[b]
         /\ \A b \in Admins : Lee(adm'[b]) => adm'[b].vieja
<1>1. adm' = [b \in Admins |-> IF b \in {a} THEN Libre
                               ELSE IF Lee(adm[b]) THEN [adm[b] EXCEPT !.vieja = TRUE]
                               ELSE adm[b]]
  BY DEF Envejece
<1> QED BY <1>1, EnvejeceAdm DEF Envejece

(***************************************************************************)
(* What keeps the two invariants of the panel.                             *)
(***************************************************************************)

\* No row and no request gains the mark of a default.
LEMMA DefectoSigue ==
  ASSUME DefectoInv, ~solape' => ~solape, Defectos' \subseteq Defectos,
         \A b \in Admins : Marca(adm'[b]) => adm'[b] = adm[b]
  PROVE  DefectoInv'
<1> SUFFICES ASSUME ~solape'
             PROVE  /\ \A i, j \in Defectos' : i = j
                    /\ \A a \in Admins : Marca(adm'[a]) =>
                         /\ adm'[a].paso = "crea" => Defectos' = {}
                         /\ adm'[a].paso = "escribe" => Defectos' \subseteq {adm'[a].id}
                         /\ \A b \in Admins : Marca(adm'[b]) => b = a
  BY DEF DefectoInv, Marca
<1>1. ~solape
  OBVIOUS
<1>2. \A i, j \in Defectos' : i = j
  BY <1>1 DEF DefectoInv
<1>3. ASSUME NEW a \in Admins, Marca(adm'[a])
      PROVE  /\ adm'[a].paso = "crea" => Defectos' = {}
             /\ adm'[a].paso = "escribe" => Defectos' \subseteq {adm'[a].id}
             /\ \A b \in Admins : Marca(adm'[b]) => b = a
  <2>1. adm'[a] = adm[a]
    BY <1>3
  <2>2. Marca(adm[a])
    BY <1>3, <2>1
  <2>3. /\ adm[a].paso = "crea" => Defectos = {}
        /\ adm[a].paso = "escribe" => Defectos \subseteq {adm[a].id}
        /\ \A b \in Admins : Marca(adm[b]) => b = a
    BY <1>1, <2>2 DEF DefectoInv
  <2>4. \A b \in Admins : Marca(adm'[b]) => b = a
    <3> SUFFICES ASSUME NEW b \in Admins, Marca(adm'[b]) PROVE b = a
      OBVIOUS
    <3>1. adm'[b] = adm[b]
      OBVIOUS
    <3> QED BY <2>3, <3>1
  <2> QED BY <2>1, <2>3, <2>4
<1> QED BY <1>2, <1>3

\* Only the request a carries the mark of a default.
LEMMA DefectoDeUno ==
  ASSUME NEW a \in Admins,
         \A b \in Admins : Marca(adm'[b]) => b = a,
         \A i, j \in Defectos' : i = j,
         Marca(adm'[a]) => /\ adm'[a].paso = "crea" => Defectos' = {}
                           /\ adm'[a].paso = "escribe" => Defectos' \subseteq {adm'[a].id}
  PROVE  DefectoInv'
BY DEF DefectoInv, Marca

\* A change that touches no price.
LEMMA PreciosSigue ==
  ASSUME PanelTipo, PreciosInv, EsTabla(niveles'), Iguales(niveles, niveles'),
         UNCHANGED <<costo, guardados, alDia>>,
         \A b \in Admins : Lee(adm'[b]) /\ ~adm'[b].vieja => adm'[b] = adm[b]
  PROVE  PreciosInv'
<1>1. Tabla(niveles) /\ Tabla(niveles') /\ costo \in Nat
  BY TablaDe, CostosAssumption DEF PanelTipo
<1>2. ProductPrices(niveles, costo) = ProductPrices(niveles', costo)
  BY <1>1, IgualesPrecios
<1>3. alDia' => guardados' \in ProductPrices(niveles', costo')
  BY <1>2 DEF PreciosInv
<1>4. ASSUME NEW b \in Admins, Lee(adm'[b]), ~adm'[b].vieja
      PROVE  /\ Iguales(adm'[b].tiers, niveles')
             /\ adm'[b].paso = "guarda" => adm'[b].costo = costo'
  <2>1. adm'[b] = adm[b]
    BY <1>4
  <2>2. Lee(adm[b]) /\ ~adm[b].vieja
    BY <1>4, <2>1
  <2>3. Iguales(adm[b].tiers, niveles) /\ (adm[b].paso = "guarda" => adm[b].costo = costo)
    BY <2>2 DEF PreciosInv
  <2>4. Iguales(adm[b].tiers, niveles')
    BY <2>3, IgualesJuntas
  <2> QED BY <2>1, <2>3, <2>4
<1>5. \A b \in Admins : Lee(adm'[b]) /\ ~adm'[b].vieja =>
        /\ Iguales(adm'[b].tiers, niveles')
        /\ adm'[b].paso = "guarda" => adm'[b].costo = costo'
  BY <1>4
<1> QED BY <1>3, <1>5 DEF PreciosInv, Lee

\* Everything read is known to be old.
LEMMA PreciosViejos ==
  ASSUME alDia' = FALSE, \A b \in Admins : Lee(adm'[b]) => adm'[b].vieja
  PROVE  PreciosInv'
BY DEF PreciosInv, Lee

LEMMA IgualesSi == ASSUME NEW T PROVE Iguales(T, T)
BY DEF Iguales

(***************************************************************************)
(* The steps of the panel.                                                 *)
(***************************************************************************)

LEMMA CreatePriceTierBien ==
  ASSUME PanelInv, NEW a \in Admins, NEW e \in Entradas, CreatePriceTier(a, e)
  PROVE  PanelInv'
<1> DEFINE r == [paso |-> "crea", entrada |-> e]
<1>0. PICK falla \in BOOLEAN :
        /\ falla => e.defecto
        /\ Empieza(a, r, falla)
        /\ niveles' = IF e.defecto /\ ~falla THEN SinDefecto(DOMAIN niveles) ELSE niveles
  BY DEF CreatePriceTier
<1>1. e \in Nivel
  BY EntradasAssumption
<1>2. BienHecha(r) /\ ~Lee(r) /\ r.paso = "crea" /\ r.entrada = e
  BY <1>1 DEF BienHecha, Lee, Peticion
<1>3. PanelTipo /\ DefectoInv /\ PreciosInv /\ EsTabla(niveles)
  BY DEF PanelInv, PanelTipo
<1>4. /\ AdmTipo' /\ cambios' \in 0..MaxCambios /\ solape' \in BOOLEAN
      /\ adm[a] = Libre /\ adm'[a] = r
      /\ \A b \in Admins : b # a => adm'[b] = adm[b]
      /\ ~solape' => ~solape /\ ~falla /\ (Marca(r) => \A b \in Admins : ~Marca(adm[b]))
  <2>1. Empieza(a, r, falla)
    BY <1>0
  <2> HIDE DEF r
  <2> QED BY <1>2, <1>3, <2>1, EmpiezaEfecto
<1>5. UNCHANGED <<cfg, costo, guardados, alDia>>
  BY DEF CreatePriceTier
<1>6. niveles' = IF e.defecto /\ ~falla THEN SinDefecto(DOMAIN niveles) ELSE niveles
  BY <1>0
<1>7. Marca(r) <=> e.defecto
  BY DEF Marca
<1> HIDE DEF r
<1>8. /\ EsTabla(niveles') /\ Iguales(niveles, niveles')
      /\ Defectos' = IF e.defecto /\ ~falla THEN {} ELSE Defectos
  <2>1. CASE e.defecto /\ ~falla
    <3>1. Defectos \subseteq DOMAIN niveles
      BY DEF Defectos
    <3> QED BY <1>3, <1>6, <2>1, <3>1, SinDefectoEfecto
  <2>2. CASE ~(e.defecto /\ ~falla)
    BY <1>3, <1>6, <2>2, IgualesSi DEF Defectos
  <2> QED BY <2>1, <2>2
<1>9. PanelTipo'
  BY <1>3, <1>4, <1>5, <1>8 DEF PanelTipo
<1>10. DefectoInv'
  <2>1. CASE ~e.defecto
    <3>1. \A b \in Admins : Marca(adm'[b]) => adm'[b] = adm[b]
      BY <1>4, <1>7, <2>1
    <3> QED BY <1>3, <1>4, <1>8, <2>1, <3>1, DefectoSigue
  <2>2. CASE e.defecto /\ ~solape'
    <3>1. \A b \in Admins : Marca(adm'[b]) => b = a
      BY <1>4, <1>7, <2>2
    <3>2. Defectos' = {}
      BY <1>4, <1>8, <2>2
    <3> QED BY <3>1, <3>2, DefectoDeUno
  <2>3. CASE solape'
    BY <2>3 DEF DefectoInv
  <2> QED BY <2>1, <2>2, <2>3
<1>11. PreciosInv'
  BY <1>2, <1>3, <1>4, <1>5, <1>8, PreciosSigue
<1> QED BY <1>9, <1>10, <1>11 DEF PanelInv

\* A row is added to the table, or replaced in it.
LEMMA TablaCon ==
  ASSUME EsTabla(niveles), NEW i \in Ids, NEW n \in Nivel,
         niveles' = [j \in DOMAIN niveles \cup {i} |-> IF j = i THEN n ELSE niveles[j]]
  PROVE  /\ EsTabla(niveles')
         /\ Defectos' = IF n.defecto THEN Defectos \cup {i} ELSE Defectos \ {i}
<1>1. Tabla(niveles) /\ DOMAIN niveles \subseteq Ids
  BY TablaDe
<1>2. \A j \in DOMAIN niveles \cup {i} : niveles'[j] = (IF j = i THEN n ELSE niveles[j])
  OBVIOUS
<1>3. EsTabla(niveles')
  BY <1>1, <1>2, EsTablaDe DEF Tabla
<1>4. DOMAIN niveles' = DOMAIN niveles \cup {i}
  OBVIOUS
<1> QED BY <1>2, <1>3, <1>4 DEF Defectos

\* The row that CreatePriceTier makes.
LEMMA NivelNuevoTipo ==
  ASSUME EsTabla(niveles), NEW e \in Nivel, NEW leido \in BOOLEAN
  PROVE  NivelNuevo(e, leido) \in Nivel /\ NivelNuevo(e, leido).defecto = e.defecto
<1> DEFINE S == {niveles[j].orden : j \in DOMAIN niveles} \cup {0}
<1>1. Tabla(niveles) /\ DOMAIN niveles \subseteq Ids
  BY TablaDe
<1>2. \A j \in DOMAIN niveles : niveles[j].orden \in Nat
  BY <1>1 DEF Tabla, Nivel
<1>3. \E m \in S : \A x \in S : m >= x
  <2>1. CASE DOMAIN niveles = {}
    BY <2>1
  <2>2. CASE DOMAIN niveles # {}
    <3> DEFINE f == [j \in DOMAIN niveles |-> niveles[j].orden]
    <3>1. IsFiniteSet(DOMAIN niveles)
      BY <1>1, IdsAssumption, FS_Subset
    <3>2. f \in [DOMAIN niveles -> Int]
      BY <1>2
    <3> HIDE DEF f
    <3>3. PICK m \in DOMAIN niveles : \A x \in DOMAIN niveles : f[x] <= f[m]
      BY <2>2, <3>1, <3>2, HayMaximo
    <3>4. \A x \in DOMAIN niveles : niveles[x].orden <= niveles[m].orden
      BY <3>3 DEF f
    <3>5. niveles[m].orden \in S /\ \A x \in S : niveles[m].orden >= x
      BY <1>2, <3>4
    <3> QED BY <3>5
  <2> QED BY <2>1, <2>2
<1>4. S \subseteq Nat
  BY <1>2
<1>5. Max(S) \in S
  <2> HIDE DEF S
  <2>1. (CHOOSE x \in S : \A y \in S : x >= y) \in S
    BY <1>3
  <2> QED BY <2>1 DEF Max
<1>6. Max(S) + 1 \in Nat
  BY <1>4, <1>5
<1> HIDE DEF S
<1> DEFINE o == IF e.orden # 0 THEN e.orden ELSE IF leido THEN Max(S) + 1 ELSE 1
           v == IF e.formula.valor = 0 /\ e.formula.tipo = "multiplier" THEN 100
                ELSE e.formula.valor
<1>7. o \in Nat
  BY <1>6 DEF Nivel
<1>8. v \in Nat
  BY DEF Nivel, Formula
<1>9. NivelNuevo(e, leido) = [e EXCEPT !.orden = o, !.activo = TRUE, !.formula.valor = v]
  BY DEF NivelNuevo, S
<1> HIDE DEF o, v
<1> DEFINE d == [e EXCEPT !.orden = o, !.activo = TRUE]
           f == [e.formula EXCEPT !.valor = v]
<1>10. d \in Nivel /\ d.formula = e.formula /\ d.defecto = e.defecto
  BY <1>7 DEF Nivel
<1>11. f \in Formula
  BY <1>8 DEF Nivel, Formula
<1>12. NivelNuevo(e, leido) = [d EXCEPT !.formula = f]
  BY <1>9, <1>10
<1> HIDE DEF d, f
<1> QED BY <1>10, <1>11, <1>12 DEF Nivel

LEMMA InsertaNivelBien ==
  ASSUME PanelInv, NEW a \in Admins, InsertaNivel(a)
  PROVE  PanelInv'
<1> DEFINE e == adm[a].entrada
<1>1. PanelTipo /\ DefectoInv /\ PreciosInv /\ EsTabla(niveles) /\ AdmTipo /\ BienHecha(adm[a])
  BY DEF PanelInv, PanelTipo, AdmTipo
<1>2. adm[a].paso = "crea" /\ e \in Nivel
  BY <1>1, PeticionCampos DEF InsertaNivel
<1>3. UNCHANGED <<cfg, costo, guardados, cambios, solape>> /\ Envejece(a, Libre)
  BY DEF InsertaNivel
<1>4. PICK i \in Ids \ DOMAIN niveles, leido \in BOOLEAN :
        niveles' = [j \in DOMAIN niveles \cup {i} |->
                      IF j = i THEN NivelNuevo(e, leido) ELSE niveles[j]]
  BY DEF InsertaNivel
<1>5. NivelNuevo(e, leido) \in Nivel /\ NivelNuevo(e, leido).defecto = e.defecto
  BY <1>1, <1>2, NivelNuevoTipo
<1>6. EsTabla(niveles') /\ Defectos' = IF e.defecto THEN Defectos \cup {i} ELSE Defectos \ {i}
  BY <1>1, <1>4, <1>5, TablaCon
<1>7. /\ AdmTipo' /\ alDia' = FALSE
      /\ \A b \in Admins : Marca(adm'[b]) => b # a /\ adm'[b] = adm[b]
      /\ \A b \in Admins : Lee(adm'[b]) => adm'[b].vieja
  BY <1>1, <1>3, EnvejeceEfecto
<1>8. PanelTipo'
  BY <1>1, <1>3, <1>6, <1>7 DEF PanelTipo
<1>9. PreciosInv'
  BY <1>7, PreciosViejos
<1>10. DefectoInv'
  <2>1. CASE ~e.defecto
    BY <1>1, <1>3, <1>6, <1>7, <2>1, DefectoSigue
  <2>2. CASE e.defecto /\ ~solape
    <3>1. Marca(adm[a])
      BY <1>2, <2>2 DEF Marca
    <3>2. Defectos = {} /\ \A b \in Admins : Marca(adm[b]) => b = a
      BY <1>1, <1>2, <2>2, <3>1 DEF DefectoInv
    <3>3. \A b \in Admins : ~Marca(adm'[b])
      BY <1>7, <3>2
    <3>4. \A j, k \in Defectos' : j = k
      BY <1>6, <3>2
    <3> QED BY <3>3, <3>4, DefectoDeUno
  <2>3. CASE solape
    BY <1>3, <2>3 DEF DefectoInv
  <2> QED BY <2>1, <2>2, <2>3
<1> QED BY <1>8, <1>9, <1>10 DEF PanelInv

\* A request starts and reads: nothing else changes.
LEMMA EmpiezaBien ==
  ASSUME PanelInv, NEW a \in Admins, NEW r, BienHecha(r), Empieza(a, r, FALSE),
         UNCHANGED <<precios, alDia>>,
         Marca(r) /\ r.paso = "crea" => Defectos = {},
         Marca(r) /\ r.paso = "escribe" /\ ~solape => Defectos \subseteq {r.id},
         Lee(r) /\ ~r.vieja => /\ Iguales(r.tiers, niveles)
                               /\ r.paso = "guarda" => r.costo = costo
  PROVE  PanelInv'
<1>1. PanelTipo /\ DefectoInv /\ PreciosInv
  BY DEF PanelInv
<1>2. /\ AdmTipo' /\ cambios' \in 0..MaxCambios /\ solape' \in BOOLEAN
      /\ adm[a] = Libre /\ adm'[a] = r
      /\ \A b \in Admins : b # a => adm'[b] = adm[b]
      /\ ~solape' => ~solape /\ (Marca(r) => \A b \in Admins : ~Marca(adm[b]))
  BY <1>1, EmpiezaEfecto
<1>3. UNCHANGED <<niveles, cfg, costo, guardados, alDia>>
  BY DEF precios
<1>4. PanelTipo'
  BY <1>1, <1>2, <1>3 DEF PanelTipo
<1>5. Defectos' = Defectos
  BY <1>3 DEF Defectos
<1>6. DefectoInv'
  <2>1. CASE ~Marca(r)
    <3>1. \A b \in Admins : Marca(adm'[b]) => adm'[b] = adm[b]
      BY <1>2, <2>1
    <3> QED BY <1>1, <1>2, <1>5, <3>1, DefectoSigue
  <2>2. CASE Marca(r) /\ ~solape'
    <3>1. \A b \in Admins : Marca(adm'[b]) => b = a
      BY <1>2, <2>2
    <3>2. \A i, j \in Defectos' : i = j
      BY <1>1, <1>2, <1>5, <2>2 DEF DefectoInv
    <3> QED BY <1>2, <1>5, <2>2, <3>1, <3>2, DefectoDeUno
  <2>3. CASE solape'
    BY <2>3 DEF DefectoInv
  <2> QED BY <2>1, <2>2, <2>3
<1>7. PreciosInv'
  <2>1. alDia' => guardados' \in ProductPrices(niveles', costo')
    BY <1>1, <1>3 DEF PreciosInv
  <2>2. ASSUME NEW b \in Admins, Lee(adm'[b]), ~adm'[b].vieja
        PROVE  /\ Iguales(adm'[b].tiers, niveles')
               /\ adm'[b].paso = "guarda" => adm'[b].costo = costo'
    <3>1. CASE b = a
      BY <1>2, <1>3, <2>2, <3>1
    <3>2. CASE b # a
      <4>1. adm'[b] = adm[b]
        BY <1>2, <3>2
      <4> QED BY <1>1, <1>3, <2>2, <4>1 DEF PreciosInv
    <3> QED BY <3>1, <3>2
  <2> QED BY <2>1, <2>2 DEF PreciosInv, Lee
<1> QED BY <1>4, <1>6, <1>7 DEF PanelInv

LEMMA UpdatePriceTierBien ==
  ASSUME PanelInv, NEW a \in Admins, NEW i \in Ids, NEW e \in Entradas,
         UpdatePriceTier(a, i, e)
  PROVE  PanelInv'
<1> DEFINE r == [paso |-> IF e.defecto /\ ~niveles[i].defecto THEN "desmarca" ELSE "escribe",
                 id |-> i, entrada |-> e]
<1>1. r \in [paso : {"desmarca", "escribe"}, id : Ids, entrada : Nivel]
  BY EntradasAssumption
<1>2. BienHecha(r) /\ ~Lee(r) /\ r.paso # "crea"
  BY <1>1 DEF BienHecha, Lee, Peticion
<1>3. Empieza(a, r, FALSE) /\ i \in DOMAIN niveles /\ UNCHANGED <<precios, alDia>>
  BY DEF UpdatePriceTier
<1>4. Marca(r) /\ r.paso = "escribe" /\ ~solape => Defectos \subseteq {r.id}
  <2>1. Marca(r) /\ r.paso = "escribe" => i \in Defectos
    BY <1>3 DEF Marca, Defectos
  <2> QED BY <2>1 DEF PanelInv, DefectoInv
<1> HIDE DEF r
<1> QED BY <1>2, <1>3, <1>4, EmpiezaBien

LEMMA DeletePriceTierBien ==
  ASSUME PanelInv, NEW a \in Admins, NEW i \in Ids, DeletePriceTier(a, i)
  PROVE  PanelInv'
<1> DEFINE r == [paso |-> "borra", id |-> i]
<1>1. BienHecha(r) /\ ~Lee(r) /\ ~Marca(r)
  BY DEF BienHecha, Lee, Marca, Peticion
<1>2. Empieza(a, r, FALSE) /\ UNCHANGED <<precios, alDia>>
  BY DEF DeletePriceTier
<1> HIDE DEF r
<1> QED BY <1>1, <1>2, EmpiezaBien

LEMMA RecalculateBien ==
  ASSUME PanelInv, NEW a \in Admins, RecalculateAllProductPrices(a)
  PROVE  PanelInv'
<1> DEFINE r == [paso |-> "leeCosto", tiers |-> niveles, vieja |-> FALSE]
<1>1. EsTabla(niveles)
  BY DEF PanelInv, PanelTipo
<1>2. Lee(r) /\ r.tiers = niveles /\ r.paso = "leeCosto"
  BY DEF Lee
<1>3. r \in Recalculo(niveles)
  BY DEF Recalculo
<1>4. BienHecha(r) /\ ~Marca(r)
  BY <1>1, <1>2, <1>3 DEF BienHecha, Marca
<1>5. Empieza(a, r, FALSE) /\ UNCHANGED <<precios, alDia>>
  BY DEF RecalculateAllProductPrices
<1> HIDE DEF r
<1> QED BY <1>2, <1>4, <1>5, EmpiezaBien, IgualesSi

LEMMA DesmarcaOtrosBien ==
  ASSUME PanelInv, NEW a \in Admins, DesmarcaOtros(a)
  PROVE  PanelInv'
<1> DEFINE r == [adm[a] EXCEPT !.paso = "escribe"]
<1>1. PanelTipo /\ DefectoInv /\ PreciosInv /\ EsTabla(niveles) /\ AdmTipo /\ BienHecha(adm[a])
  BY DEF PanelInv, PanelTipo, AdmTipo
<1>2. adm[a].paso = "desmarca"
  BY DEF DesmarcaOtros
<1>3. adm[a] \in [paso : {"desmarca", "escribe"}, id : Ids, entrada : Nivel]
  BY <1>1, <1>2 DEF BienHecha, Lee, Peticion, Libre
<1>4. /\ r \in [paso : {"desmarca", "escribe"}, id : Ids, entrada : Nivel]
      /\ r.id = adm[a].id /\ r.entrada = adm[a].entrada /\ r.paso = "escribe"
  BY <1>3
<1> HIDE DEF r
<1>5. BienHecha(r) /\ ~Lee(r)
  BY <1>4 DEF BienHecha, Lee, Peticion
<1>6. adm' = [adm EXCEPT ![a] = r]
  BY <1>1 DEF DesmarcaOtros, AdmTipo, r
<1>7. AdmTipo' /\ adm'[a] = r /\ \A b \in Admins : b # a => adm'[b] = adm[b]
  BY <1>1, <1>5, <1>6, SigueEfecto
<1>8. UNCHANGED <<cfg, costo, guardados, cambios, alDia>>
  BY DEF DesmarcaOtros
<1>9. /\ EsTabla(niveles') /\ Iguales(niveles, niveles')
      /\ Defectos' \subseteq Defectos
      /\ solape' \in BOOLEAN /\ (~solape' => ~solape /\ Defectos' \subseteq {r.id})
  <2>1. CASE niveles' = SinDefecto(DOMAIN niveles \ {r.id}) /\ solape' = solape
    <3>1. /\ EsTabla(niveles') /\ Iguales(niveles, niveles')
          /\ Defectos' = Defectos \ (DOMAIN niveles \ {r.id})
      BY <1>1, <2>1, SinDefectoEfecto
    <3>2. Defectos' \subseteq {r.id}
      BY <3>1 DEF Defectos
    <3> QED BY <1>1, <2>1, <3>1, <3>2 DEF PanelTipo
  <2>2. CASE niveles' = niveles /\ solape' = TRUE
    BY <1>1, <2>2, IgualesSi DEF Defectos
  <2> QED BY <1>4, <2>1, <2>2 DEF DesmarcaOtros
<1>10. PanelTipo'
  BY <1>1, <1>7, <1>8, <1>9 DEF PanelTipo
<1>11. PreciosInv'
  BY <1>1, <1>5, <1>7, <1>8, <1>9, PreciosSigue
<1>12. DefectoInv'
  <2>1. CASE ~adm[a].entrada.defecto
    <3>1. ~Marca(r)
      BY <1>4, <2>1 DEF Marca
    <3>2. \A b \in Admins : Marca(adm'[b]) => adm'[b] = adm[b]
      BY <1>7, <3>1
    <3>3. Defectos' \subseteq Defectos
      BY <1>9
    <3> QED BY <1>1, <1>9, <3>2, <3>3, DefectoSigue
  <2>2. CASE adm[a].entrada.defecto /\ ~solape'
    <3>1. Marca(adm[a])
      BY <1>2, <2>2 DEF Marca
    <3>2. \A b \in Admins : Marca(adm[b]) => b = a
      BY <1>1, <1>9, <2>2, <3>1 DEF DefectoInv
    <3>3. \A b \in Admins : Marca(adm'[b]) => b = a
      BY <1>7, <3>2
    <3>4. Defectos' \subseteq {r.id} /\ \A j, k \in Defectos' : j = k
      BY <1>9, <2>2
    <3> QED BY <1>4, <1>7, <3>3, <3>4, DefectoDeUno
  <2>3. CASE solape'
    BY <2>3 DEF DefectoInv
  <2> QED BY <2>1, <2>2, <2>3
<1> QED BY <1>10, <1>11, <1>12 DEF PanelInv

LEMMA EscribeNivelBien ==
  ASSUME PanelInv, NEW a \in Admins, EscribeNivel(a)
  PROVE  PanelInv'
<1> DEFINE i == adm[a].id
           e == adm[a].entrada
           n == [e EXCEPT !.orden = IF e.orden = 0 THEN niveles[i].orden ELSE e.orden]
<1>1. PanelTipo /\ DefectoInv /\ PreciosInv /\ EsTabla(niveles) /\ AdmTipo /\ BienHecha(adm[a])
  BY DEF PanelInv, PanelTipo, AdmTipo
<1>2. adm[a].paso = "escribe" /\ i \in Ids /\ e \in Nivel
  BY <1>1, PeticionCampos DEF EscribeNivel
<1>3. UNCHANGED <<cfg, costo, guardados, cambios, solape>> /\ Envejece(a, Libre)
  BY DEF EscribeNivel
<1>4. /\ AdmTipo' /\ alDia' = FALSE
      /\ \A b \in Admins : Marca(adm'[b]) => b # a /\ adm'[b] = adm[b]
      /\ \A b \in Admins : Lee(adm'[b]) => adm'[b].vieja
  BY <1>1, <1>3, EnvejeceEfecto
<1>5. /\ EsTabla(niveles')
      /\ Defectos' \subseteq IF e.defecto THEN Defectos \cup {i} ELSE Defectos
  <2>1. CASE i \notin DOMAIN niveles
    <3>1. niveles' = niveles
      BY <2>1 DEF EscribeNivel
    <3> QED BY <1>1, <3>1 DEF Defectos
  <2>2. CASE i \in DOMAIN niveles
    <3>1. Tabla(niveles) /\ niveles[i] \in Nivel
      BY <1>1, <2>2, TablaDe DEF Tabla
    <3>2. n \in Nivel /\ n.defecto = e.defecto
      <4> DEFINE o == IF e.orden = 0 THEN niveles[i].orden ELSE e.orden
      <4>1. o \in Nat
        BY <1>2, <3>1 DEF Nivel
      <4> HIDE DEF o
      <4>2. [e EXCEPT !.orden = o] \in Nivel /\ [e EXCEPT !.orden = o].defecto = e.defecto
        BY <1>2, <4>1 DEF Nivel
      <4> QED BY <4>2 DEF o
    <3>3. niveles' = [niveles EXCEPT ![i] = n]
      BY <2>2 DEF EscribeNivel
    <3> HIDE DEF n
    <3>4. niveles' = [j \in DOMAIN niveles \cup {i} |-> IF j = i THEN n ELSE niveles[j]]
      BY <2>2, <3>1, <3>3 DEF Tabla
    <3>5. EsTabla(niveles') /\ Defectos' = IF n.defecto THEN Defectos \cup {i} ELSE Defectos \ {i}
      BY <1>1, <1>2, <3>2, <3>4, TablaCon
    <3> QED BY <3>2, <3>5
  <2> QED BY <2>1, <2>2
<1>6. PanelTipo'
  BY <1>1, <1>3, <1>4, <1>5 DEF PanelTipo
<1>7. PreciosInv'
  BY <1>4, PreciosViejos
<1>8. DefectoInv'
  <2>1. CASE ~e.defecto
    BY <1>1, <1>3, <1>4, <1>5, <2>1, DefectoSigue
  <2>2. CASE e.defecto /\ ~solape
    <3>1. Marca(adm[a])
      BY <1>2, <2>2 DEF Marca
    <3>2. Defectos \subseteq {i} /\ \A b \in Admins : Marca(adm[b]) => b = a
      BY <1>1, <1>2, <2>2, <3>1 DEF DefectoInv
    <3>3. \A b \in Admins : ~Marca(adm'[b])
      BY <1>4, <3>2
    <3>4. \A j, k \in Defectos' : j = k
      BY <1>5, <3>2
    <3> QED BY <3>3, <3>4, DefectoDeUno
  <2>3. CASE solape
    BY <1>3, <2>3 DEF DefectoInv
  <2> QED BY <2>1, <2>2, <2>3
<1> QED BY <1>6, <1>7, <1>8 DEF PanelInv

\* The levels or the cost change under the recalculations in progress, and no row
\* gains the mark of a default.
LEMMA EnvejeceBien ==
  ASSUME PanelInv, AdmTipo', alDia' = FALSE,
         \A b \in Admins : Marca(adm'[b]) => adm'[b] = adm[b],
         \A b \in Admins : Lee(adm'[b]) => adm'[b].vieja,
         EsTabla(niveles'), Defectos' \subseteq Defectos,
         cfg' \in Configs, costo' \in Costos, cambios' \in 0..MaxCambios,
         UNCHANGED <<guardados, solape>>
  PROVE  PanelInv'
<1>1. PanelTipo /\ DefectoInv
  BY DEF PanelInv
<1>2. PanelTipo'
  BY <1>1 DEF PanelTipo
<1>3. DefectoInv'
  BY <1>1, DefectoSigue
<1>4. PreciosInv'
  BY PreciosViejos
<1> QED BY <1>2, <1>3, <1>4 DEF PanelInv

LEMMA BorraNivelBien ==
  ASSUME PanelInv, NEW a \in Admins, BorraNivel(a)
  PROVE  PanelInv'
<1>1. PanelTipo /\ EsTabla(niveles) /\ AdmTipo
  BY DEF PanelInv, PanelTipo
<1>2. UNCHANGED <<cfg, costo, guardados, cambios, solape>> /\ Envejece(a, Libre)
  BY DEF BorraNivel
<1>3. /\ AdmTipo' /\ alDia' = FALSE
      /\ \A b \in Admins : Marca(adm'[b]) => b # a /\ adm'[b] = adm[b]
      /\ \A b \in Admins : Lee(adm'[b]) => adm'[b].vieja
  BY <1>1, <1>2, EnvejeceEfecto
<1> DEFINE S == DOMAIN niveles \ {adm[a].id}
<1>4. niveles' = [i \in S |-> niveles[i]]
  BY DEF BorraNivel
<1>5. \A i \in S : niveles'[i] = niveles[i]
  BY <1>4
<1>6. S \subseteq Ids /\ \A i \in S : niveles'[i] \in Nivel
  BY <1>1, <1>5, TablaDe DEF Tabla
<1>7. niveles' = [i \in S |-> niveles'[i]] /\ DOMAIN niveles' = S
  BY <1>4
<1> HIDE DEF S
<1>8. EsTabla(niveles')
  BY <1>6, <1>7, EsTablaDe
<1>9. Defectos' \subseteq Defectos
  BY <1>5, <1>7 DEF Defectos, S
<1> QED BY <1>1, <1>2, <1>3, <1>8, <1>9, EnvejeceBien DEF PanelTipo

LEMMA ReorderPriceTiersBien ==
  ASSUME PanelInv, NEW a \in Admins, NEW o \in Ordenes, ReorderPriceTiers(a, o)
  PROVE  PanelInv'
<1>1. PanelTipo /\ EsTabla(niveles) /\ AdmTipo
  BY DEF PanelInv, PanelTipo
<1>2. UNCHANGED <<cfg, costo, guardados, solape>> /\ Envejece(a, Libre)
      /\ cambios < MaxCambios /\ cambios' = cambios + 1
  BY DEF ReorderPriceTiers
<1>3. /\ AdmTipo' /\ alDia' = FALSE
      /\ \A b \in Admins : Marca(adm'[b]) => b # a /\ adm'[b] = adm[b]
      /\ \A b \in Admins : Lee(adm'[b]) => adm'[b].vieja
  BY <1>1, <1>2, EnvejeceEfecto
<1>4. PICK S \in SUBSET (DOMAIN o \cap DOMAIN niveles) :
        niveles' = [i \in DOMAIN niveles |->
                      IF i \in S THEN [niveles[i] EXCEPT !.orden = o[i]] ELSE niveles[i]]
  BY DEF ReorderPriceTiers
<1>5. \A i \in S : o[i] \in Nat
  BY OrdenesAssumption
<1>6. Tabla(niveles) /\ DOMAIN niveles \subseteq Ids
  BY <1>1, TablaDe
<1>7. ASSUME NEW i \in DOMAIN niveles
      PROVE  niveles'[i] \in Nivel /\ niveles'[i].defecto = niveles[i].defecto
  <2>1. niveles[i] \in Nivel
    BY <1>6 DEF Tabla
  <2>2. CASE i \in S
    <3>1. niveles'[i] = [niveles[i] EXCEPT !.orden = o[i]]
      BY <1>4, <2>2
    <3> QED BY <1>5, <2>1, <2>2, <3>1 DEF Nivel
  <2>3. CASE i \notin S
    BY <1>4, <2>1, <2>3
  <2> QED BY <2>2, <2>3
<1>8. niveles' = [i \in DOMAIN niveles |-> niveles'[i]] /\ DOMAIN niveles' = DOMAIN niveles
  BY <1>4
<1>9. EsTabla(niveles')
  BY <1>6, <1>7, <1>8, EsTablaDe
<1>10. Defectos' \subseteq Defectos
  BY <1>7, <1>8 DEF Defectos
<1>11. cambios' \in 0..MaxCambios
  BY <1>1, <1>2, MaxCambiosAssumption DEF PanelTipo
<1> QED BY <1>1, <1>2, <1>3, <1>9, <1>10, <1>11, EnvejeceBien DEF PanelTipo

LEMMA UpdateProductBien ==
  ASSUME PanelInv, NEW c \in Costos, UpdateProduct(c)
  PROVE  PanelInv'
<1>1. PanelTipo /\ AdmTipo
  BY DEF PanelInv, PanelTipo
<1>2. UNCHANGED <<niveles, cfg, guardados, solape>> /\ alDia' = FALSE /\ costo' = c
      /\ cambios < MaxCambios /\ cambios' = cambios + 1
  BY DEF UpdateProduct
<1> DEFINE X == {}
<1>3. /\ X \in SUBSET Admins
      /\ adm' = [b \in Admins |-> IF b \in X THEN Libre
                                  ELSE IF Lee(adm[b]) THEN [adm[b] EXCEPT !.vieja = TRUE]
                                  ELSE adm[b]]
  BY DEF UpdateProduct
<1> HIDE DEF X
<1>4. /\ AdmTipo'
      /\ \A b \in Admins : Marca(adm'[b]) => adm'[b] = adm[b]
      /\ \A b \in Admins : Lee(adm'[b]) => adm'[b].vieja
  BY <1>1, <1>3, EnvejeceAdm
<1>5. cambios' \in 0..MaxCambios
  BY <1>1, <1>2, MaxCambiosAssumption DEF PanelTipo
<1>6. EsTabla(niveles') /\ Defectos' = Defectos
  BY <1>1, <1>2 DEF PanelTipo, Defectos
<1> QED BY <1>1, <1>2, <1>4, <1>5, <1>6, EnvejeceBien DEF PanelTipo

\* A request of a takes its next step, or ends, and nothing of the database changes.
LEMMA SigueBien ==
  ASSUME PanelInv, NEW a \in Admins, NEW r, BienHecha(r), ~Marca(r),
         adm' = [adm EXCEPT ![a] = r],
         UNCHANGED <<precios, cambios, solape, alDia>>,
         Lee(r) /\ ~r.vieja => /\ Iguales(r.tiers, niveles)
                               /\ r.paso = "guarda" => r.costo = costo
  PROVE  PanelInv'
<1>1. PanelTipo /\ DefectoInv /\ PreciosInv /\ AdmTipo
  BY DEF PanelInv, PanelTipo
<1>2. AdmTipo' /\ adm'[a] = r /\ \A b \in Admins : b # a => adm'[b] = adm[b]
  BY <1>1, SigueEfecto
<1>3. UNCHANGED <<niveles, cfg, costo, guardados, cambios, solape, alDia>>
  BY DEF precios
<1>4. PanelTipo'
  BY <1>1, <1>2, <1>3 DEF PanelTipo
<1>5. DefectoInv'
  <2>1. \A b \in Admins : Marca(adm'[b]) => adm'[b] = adm[b]
    BY <1>2
  <2>2. Defectos' = Defectos
    BY <1>3 DEF Defectos
  <2> QED BY <1>1, <1>3, <2>1, <2>2, DefectoSigue
<1>6. PreciosInv'
  <2>1. alDia' => guardados' \in ProductPrices(niveles', costo')
    BY <1>1, <1>3 DEF PreciosInv
  <2>2. ASSUME NEW b \in Admins, Lee(adm'[b]), ~adm'[b].vieja
        PROVE  /\ Iguales(adm'[b].tiers, niveles')
               /\ adm'[b].paso = "guarda" => adm'[b].costo = costo'
    <3>1. CASE b = a
      BY <1>2, <1>3, <2>2, <3>1
    <3>2. CASE b # a
      <4>1. adm'[b] = adm[b]
        BY <1>2, <3>2
      <4> QED BY <1>1, <1>3, <2>2, <4>1 DEF PreciosInv
    <3> QED BY <3>1, <3>2
  <2> QED BY <2>1, <2>2 DEF PreciosInv, Lee
<1> QED BY <1>4, <1>5, <1>6 DEF PanelInv

LEMMA FallaEscrituraBien ==
  ASSUME PanelInv, NEW a \in Admins, FallaEscritura(a)
  PROVE  PanelInv'
<1>1. adm' = [adm EXCEPT ![a] = Libre] /\ UNCHANGED <<precios, cambios, solape, alDia>>
  BY DEF FallaEscritura, Termina
<1> QED BY <1>1, LibreBienHecha, SigueBien

LEMMA LeeCostoBien ==
  ASSUME PanelInv, NEW a \in Admins, LeeCosto(a)
  PROVE  PanelInv'
<1> DEFINE T == adm[a].tiers
           v == adm[a].vieja
           r == [paso |-> "guarda", tiers |-> T, vieja |-> v, costo |-> costo]
<1>1. PanelTipo /\ PreciosInv /\ BienHecha(adm[a]) /\ costo \in Costos
  BY DEF PanelInv, PanelTipo, AdmTipo
<1>2. Lee(adm[a])
  BY DEF LeeCosto, Lee
<1>3. EsTabla(T) /\ v \in BOOLEAN
  BY <1>1, <1>2, PeticionCampos
<1>4. /\ adm' = [adm EXCEPT ![a] = r] /\ UNCHANGED <<precios, cambios, solape, alDia>>
  BY DEF LeeCosto
<1>5. /\ Lee(r) /\ ~Marca(r) /\ r.tiers = T /\ r.vieja = v /\ r.costo = costo
      /\ r \in [paso : {"guarda"}, tiers : {T}, vieja : BOOLEAN, costo : Costos]
  BY <1>1, <1>3 DEF Lee, Marca
<1> HIDE DEF r
<1>6. BienHecha(r)
  BY <1>3, <1>5 DEF BienHecha, Recalculo
<1>7. ~r.vieja => Iguales(r.tiers, niveles) /\ r.costo = costo
  BY <1>1, <1>2, <1>5 DEF PreciosInv
<1> QED BY <1>4, <1>5, <1>6, <1>7, SigueBien

LEMMA GuardaPreciosBien ==
  ASSUME PanelInv, NEW a \in Admins, GuardaPrecios(a)
  PROVE  PanelInv'
<1> DEFINE T == adm[a].tiers
           c == adm[a].costo
<1>1. /\ PanelTipo /\ DefectoInv /\ PreciosInv /\ AdmTipo /\ BienHecha(adm[a])
      /\ EsTabla(niveles) /\ costo \in Nat
  BY CostosAssumption DEF PanelInv, PanelTipo, AdmTipo
<1>2. Lee(adm[a]) /\ adm[a].paso = "guarda"
  BY DEF GuardaPrecios, Lee
<1>3. EsTabla(T) /\ adm[a].vieja \in BOOLEAN /\ c \in Nat
  BY <1>1, <1>2, PeticionCampos, CostosAssumption
<1>4. /\ guardados' \in ProductPrices(T, c) /\ alDia' = ~adm[a].vieja
      /\ adm' = [adm EXCEPT ![a] = Libre]
      /\ UNCHANGED <<niveles, cfg, costo, cambios, solape>>
  BY DEF GuardaPrecios, Termina
<1>5. AdmTipo' /\ adm'[a] = Libre /\ \A b \in Admins : b # a => adm'[b] = adm[b]
  BY <1>1, <1>4, LibreBienHecha, SigueEfecto
<1>6. guardados' \in [Estandar -> Nat]
  BY <1>3, <1>4, TablaDe, ProductPricesNat
<1>7. PanelTipo'
  BY <1>1, <1>3, <1>4, <1>5, <1>6 DEF PanelTipo
<1>8. DefectoInv'
  <2>1. \A b \in Admins : Marca(adm'[b]) => adm'[b] = adm[b]
    BY <1>5, LibreBienHecha
  <2>2. Defectos' = Defectos
    BY <1>4 DEF Defectos
  <2> QED BY <1>1, <1>4, <2>1, <2>2, DefectoSigue
<1>9. PreciosInv'
  <2>1. alDia' => guardados' \in ProductPrices(niveles', costo')
    <3> SUFFICES ASSUME ~adm[a].vieja PROVE guardados' \in ProductPrices(niveles, costo)
      BY <1>3, <1>4
    <3>1. Iguales(T, niveles) /\ c = costo
      BY <1>1, <1>2 DEF PreciosInv
    <3>2. Tabla(T) /\ Tabla(niveles)
      BY <1>1, <1>3, TablaDe
    <3>3. ProductPrices(T, costo) = ProductPrices(niveles, costo)
      BY <1>1, <3>1, <3>2, IgualesPrecios
    <3> QED BY <1>4, <3>1, <3>3
  <2>2. ASSUME NEW b \in Admins, Lee(adm'[b]), ~adm'[b].vieja
        PROVE  /\ Iguales(adm'[b].tiers, niveles')
               /\ adm'[b].paso = "guarda" => adm'[b].costo = costo'
    <3>1. b # a
      BY <1>5, <2>2, LibreBienHecha
    <3>2. adm'[b] = adm[b]
      BY <1>5, <3>1
    <3> QED BY <1>1, <1>4, <2>2, <3>2 DEF PreciosInv
  <2> QED BY <2>1, <2>2 DEF PreciosInv, Lee
<1> QED BY <1>7, <1>8, <1>9 DEF PanelInv

LEMMA UpdatePricingConfigBien ==
  ASSUME PanelInv, NEW x \in Configs, UpdatePricingConfig(x)
  PROVE  PanelInv'
<1>1. PanelTipo /\ DefectoInv /\ PreciosInv
  BY DEF PanelInv
<1>2. UNCHANGED <<niveles, costo, guardados, adm, solape, alDia>> /\ cfg' = x
      /\ cambios < MaxCambios /\ cambios' = cambios + 1
  BY DEF UpdatePricingConfig
<1>3. cambios' \in 0..MaxCambios
  BY <1>1, <1>2, MaxCambiosAssumption DEF PanelTipo
<1>4. PanelTipo'
  BY <1>1, <1>2, <1>3 DEF PanelTipo, AdmTipo
<1>5. DefectoInv' /\ PreciosInv'
  BY <1>1, <1>2 DEF DefectoInv, PreciosInv, Defectos
<1> QED BY <1>4, <1>5 DEF PanelInv

\* Every step of the panel.
LEMMA PanelPaso ==
  ASSUME PanelInv, PasoDelPanel
  PROVE  PanelInv'
<1>1. CASE \E a \in Admins : PasoDe(a)
  <2>1. PICK a \in Admins : PasoDe(a)
    BY <1>1
  <2>2. CASE \E e \in Entradas : CreatePriceTier(a, e)
    BY <2>2, CreatePriceTierBien
  <2>3. CASE \E e \in Entradas, i \in Ids : UpdatePriceTier(a, i, e)
    BY <2>3, UpdatePriceTierBien
  <2>4. CASE \E i \in Ids : DeletePriceTier(a, i)
    BY <2>4, DeletePriceTierBien
  <2>5. CASE \E o \in Ordenes : ReorderPriceTiers(a, o)
    BY <2>5, ReorderPriceTiersBien
  <2>6. CASE RecalculateAllProductPrices(a)
    BY <2>6, RecalculateBien
  <2>7. CASE InsertaNivel(a)
    BY <2>7, InsertaNivelBien
  <2>8. CASE DesmarcaOtros(a)
    BY <2>8, DesmarcaOtrosBien
  <2>9. CASE EscribeNivel(a)
    BY <2>9, EscribeNivelBien
  <2>10. CASE BorraNivel(a)
    BY <2>10, BorraNivelBien
  <2>11. CASE LeeCosto(a)
    BY <2>11, LeeCostoBien
  <2>12. CASE GuardaPrecios(a)
    BY <2>12, GuardaPreciosBien
  <2>13. CASE FallaEscritura(a)
    BY <2>13, FallaEscrituraBien
  <2> QED BY <2>1, <2>2, <2>3, <2>4, <2>5, <2>6, <2>7, <2>8, <2>9, <2>10, <2>11, <2>12,
             <2>13 DEF PasoDe
<1>2. CASE \E c \in Costos : UpdateProduct(c)
  BY <1>2, UpdateProductBien
<1>3. CASE \E x \in Configs : UpdatePricingConfig(x)
  BY <1>3, UpdatePricingConfigBien
<1> QED BY <1>1, <1>2, <1>3 DEF PasoDelPanel

(***************************************************************************)
(* The steps of the cart.                                                  *)
(***************************************************************************)

LEMMA SinItemTipo == SinItem \in Item /\ SinLinea \in Linea
BY MaxPrendasAssumption DEF SinItem, SinLinea, Item, Linea, Cantidades

\* Prices read off typed levels are natural numbers.
LEMMA PreciosNat ==
  ASSUME PanelTipo, NEW q \in Nat
  PROVE  Mostrados(q) \subseteq Nat /\ Cobrados(q) \subseteq Nat
<1>1. Tabla(niveles) /\ costo \in Nat /\ guardados \in [Estandar -> Nat]
  BY TablaDe, CostosAssumption DEF PanelTipo
<1>2. \A r \in {cfg.w, cfg.d1, cfg.d2} : r.min \in Nat /\ r.pct \in Nat
  BY ConfigsAssumption DEF PanelTipo
<1>3. Mostrados(q) \subseteq Nat
  BY <1>1, MostradosNat DEF Mostrados
<1>4. Cobrados(q) \subseteq Nat
  BY <1>1, <1>2, CobradosNat DEF Cobrados
<1> QED BY <1>3, <1>4

\* What the synchronisation leaves in the order.
LEMMA SincronizaBien ==
  ASSUME PanelTipo, CarritoInv, NEW q \in Cantidades, SincronizaCon(q)
  PROVE  /\ orden' \in [hay : BOOLEAN, item : Item]
         /\ OrdenInv'
         /\ \/ conVariante \/ orden.item = SinItem \/ orden'.item = SinItem
            \/ orden.item.base = costo \/ orden'.item.precio = orden.item.precio
<1>1. orden \in [hay : BOOLEAN, item : Item] /\ OrdenInv /\ conVariante \in BOOLEAN
  BY DEF CarritoInv, CarritoTipo
<1>2. CASE UNCHANGED orden
  BY <1>1, <1>2 DEF OrdenInv
<1>3. CASE ~UNCHANGED orden
  <2>1. orden.hay
    BY <1>3 DEF SincronizaCon
  <2>2. CASE q = 0
    <3>1. orden' = [orden EXCEPT !.item = SinItem]
      BY <1>3, <2>2 DEF SincronizaCon
    <3>2. orden'.hay = orden.hay /\ orden'.item = SinItem
      BY <1>1, <3>1
    <3>3. orden' \in [hay : BOOLEAN, item : Item]
      BY <1>1, <3>1, SinItemTipo
    <3> QED BY <3>2, <3>3 DEF OrdenInv
  <2>3. CASE q # 0 /\ ItemAnterior # SinItem /\ ItemAnterior.base # costo
    <3>1. orden' = [orden EXCEPT !.item = [ItemAnterior EXCEPT !.cant = q]]
      BY <1>3, <2>3 DEF SincronizaCon
    <3>2. ItemAnterior = orden.item
      BY <2>3 DEF ItemAnterior
    <3>3. /\ [ItemAnterior EXCEPT !.cant = q] \in Item
          /\ [ItemAnterior EXCEPT !.cant = q].precio = orden.item.precio
      BY <1>1, <3>2 DEF Item
    <3>4. orden' \in [hay : BOOLEAN, item : Item] /\ orden'.hay = orden.hay
          /\ orden'.item.precio = orden.item.precio
      BY <1>1, <3>1, <3>3
    <3> QED BY <2>1, <3>4 DEF OrdenInv
  <2>4. CASE q # 0 /\ (ItemAnterior = SinItem \/ ItemAnterior.base = costo)
    <3>1. PICK p \in Mostrados(q) :
            orden' = [orden EXCEPT !.item = [cant |-> q, precio |-> p, base |-> costo]]
      BY <1>3, <2>4 DEF SincronizaCon
    <3>2. p \in Nat /\ costo \in Costos
      BY PreciosNat, MaxPrendasAssumption DEF Cantidades, PanelTipo
    <3>3. [cant |-> q, precio |-> p, base |-> costo] \in Item
      BY <3>2 DEF Item
    <3>4. orden' \in [hay : BOOLEAN, item : Item] /\ orden'.hay = orden.hay
      BY <1>1, <3>1, <3>3
    <3>5. conVariante \/ orden.item = SinItem \/ orden.item.base = costo
      BY <2>4 DEF ItemAnterior
    <3> QED BY <2>1, <3>4, <3>5 DEF OrdenInv
  <2> QED BY <2>2, <2>3, <2>4
<1> QED BY <1>2, <1>3

\* What SinVarianteCongela asks of a step.
Congela ==
  \/ conVariante \/ ~abierto' \/ orden.item = SinItem \/ orden'.item = SinItem
  \/ orden.item.base = costo
  \/ orden'.item.precio = orden.item.precio

\* A handler that changes the line and synchronises the order.
LEMMA CambiaLineaBien ==
  ASSUME PanelTipo, CarritoInv, NEW l \in Linea, CambiaLinea(l)
  PROVE  CarritoInv' /\ Congela
<1>1. linea' = l /\ SincronizaCon(l.cant) /\ UNCHANGED <<conVariante, abierto>>
  BY DEF CambiaLinea
<1>2. l.cant \in Cantidades
  BY DEF Linea
<1>3. /\ orden' \in [hay : BOOLEAN, item : Item] /\ OrdenInv'
      /\ \/ conVariante \/ orden.item = SinItem \/ orden'.item = SinItem
         \/ orden.item.base = costo \/ orden'.item.precio = orden.item.precio
  BY <1>1, <1>2, SincronizaBien
<1>4. CarritoTipo'
  BY <1>1, <1>3 DEF CarritoInv, CarritoTipo
<1> QED BY <1>3, <1>4 DEF CarritoInv, Congela

\* The line that an order takes becomes its line at a charged price.
LEMMA ItemCobradoTipo ==
  ASSUME PanelTipo, CarritoInv, NEW p \in Cobrados(linea.cant)
  PROVE  ItemCobrado(p) \in Item
<1>1. linea.cant \in Cantidades /\ linea.cant \in Nat
  BY MaxPrendasAssumption DEF CarritoInv, CarritoTipo, Linea, Cantidades
<1>2. p \in Nat
  BY <1>1, PreciosNat
<1> QED BY <1>1, <1>2 DEF ItemCobrado, Item

\* Every step of the cart.
LEMMA CarritoPaso ==
  ASSUME PanelTipo, CarritoInv, PasoDelCarrito
  PROVE  CarritoInv' /\ Congela
<1>1. /\ conVariante \in BOOLEAN /\ abierto \in BOOLEAN /\ linea \in Linea
      /\ orden \in [hay : BOOLEAN, item : Item] /\ OrdenInv
  BY DEF CarritoInv, CarritoTipo
<1>2. ASSUME NEW n \in 1..MaxPrendas, NEW chk \in BOOLEAN, AddToCart(n, chk)
      PROVE  CarritoInv' /\ Congela
  <2>1. PICK hayStock \in BOOLEAN :
          CambiaLinea([cant |-> linea.cant + n, chk |-> linea.chk \/ chk,
                       conf |-> IF chk THEN linea.cant > 0 /\ hayStock ELSE TRUE])
    BY <1>2 DEF AddToCart
  <2>2. linea.cant + n \in Cantidades
    BY <1>1, <1>2, MaxPrendasAssumption DEF AddToCart, Linea, Cantidades
  <2>3. (linea.chk \/ chk) \in BOOLEAN
        /\ (IF chk THEN linea.cant > 0 /\ hayStock ELSE TRUE) \in BOOLEAN
    BY <1>1 DEF Linea
  <2>4. [cant |-> linea.cant + n, chk |-> linea.chk \/ chk,
         conf |-> IF chk THEN linea.cant > 0 /\ hayStock ELSE TRUE] \in Linea
    BY <2>2, <2>3 DEF Linea
  <2> QED BY <2>1, <2>4, CambiaLineaBien
<1>3. ASSUME NEW n \in 1..MaxPrendas, NEW conf \in Opcion, NEW chk \in Opcion,
             UpdateCartItem(n, conf, chk)
      PROVE  CarritoInv' /\ Congela
  <2> DEFINE c == IF chk = {} THEN linea.chk ELSE chk = {TRUE}
             d == IF chk = {FALSE} THEN FALSE
                  ELSE IF conf = {} THEN linea.conf ELSE conf = {TRUE}
  <2>1. CambiaLinea([cant |-> n, chk |-> c, conf |-> d])
    BY <1>3 DEF UpdateCartItem
  <2>2. c \in BOOLEAN /\ d \in BOOLEAN
    BY <1>1 DEF Linea
  <2> HIDE DEF c, d
  <2>3. [cant |-> n, chk |-> c, conf |-> d] \in Linea
    BY <2>2, MaxPrendasAssumption DEF Linea, Cantidades
  <2> QED BY <2>1, <2>3, CambiaLineaBien
<1>4. CASE RemoveFromCart
  BY <1>4, SinItemTipo, CambiaLineaBien DEF RemoveFromCart
<1>5. CASE ClearCart
  <2>1. linea' = SinLinea /\ UNCHANGED <<conVariante, orden, abierto>>
    BY <1>5 DEF ClearCart
  <2>2. CarritoTipo' /\ OrdenInv'
    BY <1>1, <2>1, SinItemTipo DEF CarritoTipo, OrdenInv
  <2>3. Congela
    BY <2>1 DEF Congela
  <2> QED BY <2>2, <2>3 DEF CarritoInv
<1>6. CASE SubmitCartForAssignment
  <2>1. PICK p \in Cobrados(linea.cant) : orden' = [hay |-> TRUE, item |-> ItemCobrado(p)]
    BY <1>6 DEF SubmitCartForAssignment
  <2>2. ~orden.hay /\ UNCHANGED <<conVariante, linea, abierto>>
    BY <1>6 DEF SubmitCartForAssignment
  <2>3. ItemCobrado(p) \in Item
    BY ItemCobradoTipo
  <2>4. orden' \in [hay : BOOLEAN, item : Item] /\ orden'.hay
    BY <2>1, <2>3
  <2>5. CarritoTipo' /\ OrdenInv'
    BY <1>1, <2>2, <2>4 DEF CarritoTipo, OrdenInv
  <2>6. Congela
    BY <1>1, <2>2 DEF Congela, OrdenInv
  <2> QED BY <2>5, <2>6 DEF CarritoInv
<1>7. CASE CheckoutCart
  <2>1. UNCHANGED conVariante
    BY <1>7 DEF CheckoutCart
  <2>2. CASE \E p \in Cobrados(linea.cant) :
               /\ orden' = [hay |-> TRUE, item |-> ItemCobrado(p)]
               /\ linea' = SinLinea /\ abierto' = FALSE
    <3>1. PICK p \in Cobrados(linea.cant) : orden' = [hay |-> TRUE, item |-> ItemCobrado(p)]
      BY <2>2
    <3>2. ItemCobrado(p) \in Item
      BY ItemCobradoTipo
    <3>3. orden' \in [hay : BOOLEAN, item : Item] /\ orden'.hay
      BY <3>1, <3>2
    <3>4. CarritoTipo' /\ OrdenInv'
      BY <1>1, <2>1, <2>2, <3>3, SinItemTipo DEF CarritoTipo, OrdenInv
    <3>5. Congela
      BY <2>2 DEF Congela
    <3> QED BY <3>4, <3>5 DEF CarritoInv
  <2>3. CASE linea' = [linea EXCEPT !.chk = TRUE, !.conf = FALSE] /\ UNCHANGED <<orden, abierto>>
    <3>1. linea' \in Linea
      BY <1>1, <2>3 DEF Linea
    <3>2. CarritoTipo' /\ OrdenInv'
      BY <1>1, <2>1, <2>3, <3>1 DEF CarritoTipo, OrdenInv
    <3>3. Congela
      BY <2>3 DEF Congela
    <3> QED BY <3>2, <3>3 DEF CarritoInv
  <2> QED BY <1>7, <2>2, <2>3 DEF CheckoutCart
<1> QED BY <1>2, <1>3, <1>4, <1>5, <1>6, <1>7 DEF PasoDelCarrito

(***************************************************************************)
(* The theorems.                                                           *)
(***************************************************************************)

IInv == PanelInv /\ CarritoInv

LEMMA Inicio ==
  ASSUME Init
  PROVE  IInv
<1>1. EsTabla(niveles) /\ niveles = Iniciales
  BY InicialesAssumption DEF Init, IniciaPanel
<1>2. costo \in Nat /\ cfg \in Configs /\ costo \in Costos
  BY CostosAssumption DEF Init, IniciaPanel
<1>3. guardados \in ProductPrices(niveles, costo)
  BY DEF Init, IniciaPanel
<1>4. guardados \in [Estandar -> Nat]
  BY <1>1, <1>2, <1>3, TablaDe, ProductPricesNat
<1>5. \A a \in Admins : adm[a] = Libre
  BY DEF Init, IniciaPanel
<1>6. adm = [a \in Admins |-> adm[a]] /\ \A a \in Admins : BienHecha(adm[a])
  BY <1>5, LibreBienHecha DEF Init, IniciaPanel
<1>7. cambios \in 0..MaxCambios /\ solape \in BOOLEAN /\ alDia \in BOOLEAN
  <2>1. cambios = 0 /\ solape = FALSE /\ alDia = TRUE
    BY DEF Init, IniciaPanel
  <2>2. cambios \in 0..MaxCambios
    BY <2>1, MaxCambiosAssumption
  <2> QED BY <2>1, <2>2
<1>8. PanelTipo
  BY <1>1, <1>2, <1>4, <1>6, <1>7 DEF PanelTipo, AdmTipo
<1>9. DefectoInv
  <2>1. \A i, j \in Defectos : i = j
    BY <1>1, InicialesAssumption DEF Defectos
  <2> QED BY <1>5, <2>1, LibreBienHecha DEF DefectoInv
<1>10. PreciosInv
  BY <1>3, <1>5, LibreBienHecha DEF PreciosInv
<1>11. CarritoInv
  BY SinItemTipo DEF CarritoInv, CarritoTipo, OrdenInv, Init, IniciaCarrito
<1> QED BY <1>8, <1>9, <1>10, <1>11 DEF IInv, PanelInv

LEMMA Paso ==
  ASSUME IInv, [Next]_vars
  PROVE  IInv' /\ (Congela \/ UNCHANGED vars)
<1>1. PanelInv /\ CarritoInv /\ PanelTipo
  BY DEF IInv, PanelInv
<1>2. CASE PasoDelPanel /\ UNCHANGED carrito
  <2>1. PanelInv'
    BY <1>1, <1>2, PanelPaso
  <2>2. CarritoInv' /\ Congela
    BY <1>1, <1>2 DEF CarritoInv, CarritoTipo, OrdenInv, Congela, carrito
  <2> QED BY <2>1, <2>2 DEF IInv
<1>3. CASE PasoDelCarrito
  <2>1. CarritoInv' /\ Congela
    BY <1>1, <1>3, CarritoPaso
  <2>2. UNCHANGED <<precios, panel>>
    BY <1>3 DEF PasoDelCarrito, AddToCart, UpdateCartItem, RemoveFromCart, ClearCart,
                SubmitCartForAssignment, CheckoutCart, CambiaLinea
  <2>3. UNCHANGED <<niveles, cfg, costo, guardados, adm, cambios, solape, alDia>>
    BY <2>2 DEF precios, panel
  <2>4. PanelInv'
    BY <1>1, <2>3 DEF PanelInv, PanelTipo, DefectoInv, PreciosInv, AdmTipo, Defectos
  <2> QED BY <2>1, <2>4 DEF IInv
<1>4. CASE UNCHANGED vars
  <2>1. UNCHANGED <<niveles, cfg, costo, guardados, adm, cambios, solape, alDia,
                    conVariante, linea, orden, abierto>>
    BY <1>4 DEF vars, precios, panel, carrito
  <2>2. PanelInv'
    BY <1>1, <2>1 DEF PanelInv, PanelTipo, DefectoInv, PreciosInv, AdmTipo, Defectos
  <2>3. CarritoInv'
    BY <1>1, <2>1 DEF CarritoInv, CarritoTipo, OrdenInv
  <2> QED BY <1>4, <2>2, <2>3 DEF IInv
<1> QED BY <1>2, <1>3, <1>4 DEF Next

LEMMA SpecIInv == Spec => []IInv
<1>1. Init => IInv
  BY Inicio
<1>2. IInv /\ [Next]_vars => IInv'
  BY Paso
<1> QED BY <1>1, <1>2, PTL DEF Spec

\* The panel, the line and the order keep their types, whatever requests interleave.
THEOREM SpecTypeOK == Spec => []TypeOK
<1>1. IInv => TypeOK
  BY TiposJuntos DEF IInv, PanelInv, CarritoInv
<1> QED BY <1>1, SpecIInv, PTL

\* At most one level is the default, unless two requests that set one overlapped or
\* one could not unmark the others.
THEOREM SpecUnDefecto == Spec => []UnDefecto
<1>1. IInv => UnDefecto
  BY DEF IInv, PanelInv, DefectoInv, UnDefecto
<1> QED BY <1>1, SpecIInv, PTL

\* The cart shows the price that the order charges while the stored prices are those
\* of the levels and of the cost and one level decides.
THEOREM SpecPreciosAnunciados == Spec => []PreciosAnunciados
<1>1. ASSUME IInv, NEW q, alDia, NombresClaros, NivelClaro(q)
      PROVE  PreciosMostrados(niveles, guardados, costo, q)
               = PreciosCobrados(niveles, cfg, costo, q)
  <2>1. Tabla(niveles) /\ costo \in Nat /\ guardados \in ProductPrices(niveles, costo)
    BY <1>1, TablaDe, CostosAssumption DEF IInv, PanelInv, PanelTipo, PreciosInv
  <2>2. PICK i \in Activos(niveles) :
          /\ MayorMinimo(niveles, Alcanzados(niveles, q)) = {i}
          /\ niveles[i].name \in Estandar
          /\ CalculatePrice(niveles[i], costo) # 0
          /\ CalculatePrice(niveles[i], costo) # EnCentesimos(costo)
    BY <1>1 DEF NivelClaro
  <2>3. ASSUME NEW j \in Activos(niveles), Asigna(niveles[j], niveles[i].name)
        PROVE  j = i
    <3>1. CASE niveles[j].name = niveles[i].name
      BY <1>1, <3>1 DEF NombresClaros
    <3>2. CASE niveles[j].name # niveles[i].name
      <4>1. niveles[j].name \notin Estandar /\ niveles[j].orden \in 1..3
        BY <2>2, <2>3, <3>2 DEF Asigna, Estandar
      <4> QED BY <1>1, <4>1 DEF NombresClaros
    <3> QED BY <3>1, <3>2
  <2> QED BY <2>1, <2>2, <2>3, MismoPrecio
<1>2. IInv => PreciosAnunciados
  BY <1>1 DEF PreciosAnunciados, PrecioAnunciado
<1> QED BY <1>2, SpecIInv, PTL

\* The screen of the seller chooses the level that the checkout chooses while the
\* order of the levels follows their minima.
THEOREM SpecPantallasComoServidor == Spec => []PantallasComoServidor
<1>1. ASSUME IInv, NEW q, OrdenSigueMinimos
      PROVE  ApplicableTier(niveles, q) = ApplicablePriceTier(niveles, q)
  <2>1. Tabla(niveles)
    BY <1>1, TablaDe DEF IInv, PanelInv, PanelTipo
  <2>2. \A i, j \in Activos(niveles) :
          niveles[i].min < niveles[j].min => niveles[j].orden < niveles[i].orden
    BY <1>1 DEF OrdenSigueMinimos
  <2> QED BY <2>1, <2>2, MismoNivel
<1>2. IInv => PantallasComoServidor
  BY <1>1 DEF PantallasComoServidor, PantallaComoServidor
<1> QED BY <1>2, SpecIInv, PTL

\* A line without a variant keeps its price while the cost is another.
THEOREM SpecSinVarianteCongela == Spec => SinVarianteCongela
<1>1. IInv /\ [Next]_vars => [Congela]_vars
  BY Paso
<1> QED BY <1>1, SpecIInv, PTL DEF Spec, SinVarianteCongela, Congela

=============================================================================
