---------------------------- MODULE LibroCompra ----------------------------
(***************************************************************************)
(* What the guest cart of the shop promises to the person who fills it:    *)
(* the units held for her, in the browser or on the server, are the ones   *)
(* she asked for less the ones she took out, by her hand alone, as long as *)
(* nothing disturbed a migration.                                          *)
(***************************************************************************)
EXTENDS Naturals

CONSTANT Skus

VARIABLES
  pedidas,   \* units asked for, per SKU
  quitadas,  \* units taken out, per SKU
  libro,     \* units held, per SKU
  riesgo     \* some migration was disturbed

vars == <<pedidas, quitadas, libro, riesgo>>

Cuenta == [Skus -> Nat]

Cuadra == \A s \in Skus : libro[s] + quitadas[s] = pedidas[s]

Init ==
  /\ pedidas = [s \in Skus |-> 0]
  /\ quitadas = [s \in Skus |-> 0]
  /\ libro = [s \in Skus |-> 0]
  /\ riesgo = FALSE

\* Her hand changes the books, and the units held change with them.
Mano ==
  /\ ~riesgo /\ ~riesgo'
  /\ pedidas' \in Cuenta /\ quitadas' \in Cuenta /\ libro' \in Cuenta
  /\ \A s \in Skus : pedidas'[s] >= pedidas[s] /\ quitadas'[s] >= quitadas[s]
  /\ Cuadra'
  /\ <<pedidas, quitadas>>' # <<pedidas, quitadas>>

\* After a disturbance nothing is promised.
Perturba == riesgo'

Next == Mano \/ Perturba

Spec == Init /\ [][Next]_vars

=============================================================================
