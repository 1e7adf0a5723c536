---------------------------- MODULE MCCartStock ----------------------------
(***************************************************************************)
(* Small instances of CartStock: the values its configurations choose.     *)
(***************************************************************************)
EXTENDS CartStockDocs, TLC

\* Owners of the cart ids 1, 2.
UnDueno == [c \in Carts |-> "ana"]
DosDuenos == [c \in Carts |-> IF c = 1 THEN "ana" ELSE "bea"]

Pide(rol, q, conf, chk, l) ==
  [qty |-> q, conf |-> conf, chk |-> chk, reservar |-> l, rol |-> rol]

\* The page of the cart changes the quantity; the page of the seller confirms
\* and asks for a reservation, which is not looked at, or sends the quantity
\* typed, which nothing keeps above zero.
PedidosBasicos ==
  {Pide("cliente", {1}, {}, {}, {}),
   Pide("vendedor", {}, {TRUE}, {}, {"mendoza"}),
   Pide("vendedor", {-1}, {}, {}, {})}

\* A client who asks for a reservation, well or badly formed, or for what only
\* a seller may do.
PedidosDeReserva ==
  {Pide("cliente", q, {}, {TRUE}, {l}) :
     q \in {{}, {-1}}, l \in {"deposito", "mendoza"}}
    \cup {Pide("cliente", {1}, {}, {TRUE}, {SinLoc}),
          Pide("cliente", {1}, {TRUE}, {}, {})}

\* Two clients who change a quantity and reserve.
PedidosDeDos ==
  {Pide("cliente", {2}, {}, {}, {}),
   Pide("cliente", {1}, {}, {TRUE}, {"mendoza"})}

SinPedidos == {}

PedidosTodos == PedidosBasicos \cup PedidosDeReserva

=============================================================================
