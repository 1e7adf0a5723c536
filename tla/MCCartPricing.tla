---------------------------- MODULE MCCartPricing ----------------------------
(* The levels of the migration without the greatest, with small minima.     *)
EXTENDS CartPricing, TLC

CONSTANTS n1, n2, n3, n4, a1, a2

TresNiveles == {n1, n2, n3}
CuatroNiveles == {n1, n2, n3, n4}
DosAdmins == {a1, a2}

Por(valor) == [tipo |-> "multiplier", valor |-> valor]

N(name, formula, min, ord, defecto) ==
  [name |-> name, formula |-> formula, min |-> min, orden |-> ord, activo |-> TRUE,
   defecto |-> defecto]

DeLaMigracion ==
  n1 :> N("retail", Por(100), 0, 4, TRUE)
    @@ n2 :> N("wholesale", Por(250), 1, 3, FALSE)
    @@ n3 :> N("discount1", Por(225), 2, 2, FALSE)

Cuerpos ==
  {[N("wholesale", Por(200), 2, 0, FALSE) EXCEPT !.activo = FALSE],
   N("discount1", [tipo |-> "percentage_markup", valor |-> 50], 1, 3, TRUE),
   N("otro", [tipo |-> "flat_amount", valor |-> 3], 1, 1, TRUE)}

AlReves == {n1 :> 1 @@ n2 :> 2 @@ n3 :> 3}

Recargo(min, pct) == [min |-> min, pct |-> pct]

DosRecargos ==
  {[w |-> Recargo(1, 150), d1 |-> Recargo(2, 125), d2 |-> Recargo(3, 75)],
   [w |-> Recargo(1, 100), d1 |-> Recargo(1, 50), d2 |-> Recargo(2, 25)]}
DosCostos == {10, 20}

Simetria == Permutations(DosAdmins)
=============================================================================
