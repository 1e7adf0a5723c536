----------------------------- MODULE Descripcion -----------------------------
(***************************************************************************)
(* How the description of a page is put together.                          *)
(***************************************************************************)
EXTENDS Naturals, Sequences, TLC

\* What a handler or a load does with the page after an answer.
Efectos == {
  "relee",    \* the rows are asked for again
  "trae",     \* the answer brings the rows
  "local",    \* the change is made to the rows on the screen
  "copia",    \* ... to the rows that were on the screen at the click
  "confunde", \* the rows on the screen are no longer those of the server
  "vacia",    \* the rows on the screen are dropped
  "cierra",   \* the form of the control is closed, or emptied if always there
  "resultado",\* the dialog with the result is opened
  "exito",    \* a message of success
  "limpia",   \* no message of success
  "enciende", \* loading is turned on
  "apaga",    \* loading is turned off
  "libera",   \* the saving state is turned off
  "sale",     \* another page
  "sigue",    \* the handler goes on with its next request
  "pide"}     \* without a token the request is sent all the same

TiposDeFicha == {
  "fija",      \* always on the page
  "enlinea",   \* among the rows; it may be cancelled
  "bloqueada", \* the same, but not while it is being saved
  "montada",   \* the same, a component of its own whose state dies with it
  "modal",     \* a dialog that covers the page; it may be cancelled
  "visor",     \* a dialog that only its own controls close
  "resultado"} \* the same, above any other, and only a handler opens it

Libre == ""           \* the saving state of a control that is never disabled
Fila == "fila"        \* where a control of the rows is offered

\* A request: "crea" makes a row, "unica" one that the server refuses to repeat,
\* "cambia" changes or deletes one, "ajusta" the record of the page, and "nota"
\* leaves the rows of the page alone.
Pide(tipo, rechazo, caida) == 
  [tipo |-> tipo, rechazo |-> rechazo, caida |-> caida, ruta |-> TRUE]

\* Handlers.  One request in a try that throws when the answer is not ok...
Envia(tipo, bien, mal) ==
  [sinToken |-> {"pide"}, antes |-> {}, bien |-> bien, aMedias |-> bien,
   pasos |-> <<Pide(tipo, mal, mal)>>]

\* ... one request awaited with no try and no look at the answer ...
EnviaSinMirar(tipo, bien) ==
  [sinToken |-> {"pide"}, antes |-> {}, bien |-> bien, aMedias |-> bien,
   pasos |-> <<Pide(tipo, {"sigue"}, {})>>]

\* ... or several, one after another.
EnviaVarias(pasos, bien, aMedias) ==
  [sinToken |-> {"pide"}, antes |-> {}, bien |-> bien, aMedias |-> aMedias,
   pasos |-> pasos]

\* A button whose handler sends nothing.
SoloHace(efs) ==
  [sinToken |-> {"pide"}, antes |-> efs, bien |-> {}, aMedias |-> {}, pasos |-> <<>>]

Antes(efs, m) == [m EXCEPT !.antes = efs]
SinToken(efs, m) == [m EXCEPT !.sinToken = efs]

\* A control: where it is offered and the saving state that disables it.
En(desde, llave, m) == [desde |-> desde, llave |-> llave, ocupaEn |-> 1] @@ m

\* The saving state is set only before the n-th request.
OcupaDesde(n, m) == [m EXCEPT !.ocupaEn = n]

\* A load in a try/finally, one whose answer is taken as it comes, and none.
Carga(enciende, bien, mal) ==
  [sinToken |-> {"pide"}, publica |-> FALSE, ruta |-> TRUE, enciende |-> enciende,
   bien |-> bien, rechazo |-> mal, caida |-> mal]

Publica(c) == [c EXCEPT !.publica = TRUE]
CargaSinToken(efs, c) == [c EXCEPT !.sinToken = efs]

Panel(nombre, carga, fichas, ops) ==
  [nombre |-> nombre, lee |-> TRUE, carga |-> carga, fichas |-> fichas, ops |-> ops,
   caduca |-> FALSE, tapa |-> "nada", filtra |-> FALSE, sigueAviso |-> FALSE,
   publica |-> FALSE, alAbrir |-> {}]

\* The spinner takes the place of the page, or of the rows.
Tapada(p) == [p EXCEPT !.tapa = "todo"]
FilasTapadas(p) == [p EXCEPT !.tapa = "filas"]
ConFiltro(p) == [p EXCEPT !.filtra = TRUE]
Ciega(p) == [p EXCEPT !.lee = FALSE]
\* The message of success goes away by itself.
Caduca(p) == [p EXCEPT !.caduca = TRUE]
Abierta(p) == [p EXCEPT !.publica = TRUE]

\* The server has no such route.
CargaSinRuta(c) == [c EXCEPT !.ruta = FALSE]
SinRuta(m) == [m EXCEPT !.pasos[1].ruta = FALSE]

SinFichas == [f \in {} |-> "fija"]
SinOps == [o \in {} |-> SoloHace({})]

==============================================================================
