------------------------------- MODULE Habitos -------------------------------
(***************************************************************************)
(* Habits of the pages: what can be read off the description of a page,    *)
(* with no step of it taken, and is enough for the properties of Pagina.   *)
(* p is the description of a page, m that of a handler.                    *)
(***************************************************************************)
EXTENDS Descripcion

\* Requests of a handler.
MaxPasos == 6

Tipos == {"crea", "unica", "cambia", "ajusta", "nota"}
CreaFila(s) == s.tipo \in {"crea", "unica"}
Cambia(s) == s.tipo # "nota"

\* What m does when its k-th request is refused, or is not answered.
Fallos(m, k) == {m.pasos[k].rechazo, m.pasos[k].caida}

\* Every set of effects of m.
Respuestas(m) ==
  {m.antes, m.sinToken, m.bien, m.aMedias} \cup UNION {Fallos(m, k) : k \in DOMAIN m.pasos}

BienFormada(p) ==
  /\ Fila \notin DOMAIN p.fichas
  /\ \A f \in DOMAIN p.fichas : p.fichas[f] \in TiposDeFicha
  /\ \A o \in DOMAIN p.ops :
       LET m == p.ops[o]
       IN /\ m.desde \in DOMAIN p.fichas \cup {Fila}
          /\ m.pasos \in Seq([tipo : Tipos, rechazo : SUBSET Efectos,
                              caida : SUBSET Efectos, ruta : BOOLEAN])
          /\ Len(m.pasos) <= MaxPasos
          /\ \A e \in Respuestas(m) : e \subseteq Efectos

-----------------------------------------------------------------------------
(* The end of a handler                                                      *)

\* m goes on when its k-th request fails.
Sigue(m, k) == \E e \in Fallos(m, k) : "sigue" \in e

\* m may come to its end although a request failed, or a change did.
PuedeFallar(m) == \E k \in DOMAIN m.pasos : Sigue(m, k)
PierdeCambios(m) == \E k \in DOMAIN m.pasos : Cambia(m.pasos[k]) /\ Sigue(m, k)

\* How m may end once its k-th request was granted.
Finales(m, k) ==
  {m.bien} \cup {e \in {m.aMedias} : PuedeFallar(m)}
    \cup {e \in UNION {Fallos(m, j) : j \in {x \in DOMAIN m.pasos : x > k}} : "sigue" \notin e}

\* After an answer m does x only when all its changes were made.
SoloAlCumplir(m, x) ==
  /\ \A k \in DOMAIN m.pasos : \A e \in Fallos(m, k) : x \notin e
  /\ PierdeCambios(m) => x \notin m.aMedias

-----------------------------------------------------------------------------
(* Saving states and forms                                                   *)

Montada(p, f) == f # Fila /\ p.fichas[f] = "montada"

\* While a handler with the saving state l runs, no other control with l works:
\* it is set before the first request, and does not die with the form of another.
Exclusiva(p, l) ==
  /\ l # Libre
  /\ \A o, q \in {x \in DOMAIN p.ops : p.ops[x].llave = l} :
       /\ p.ops[o].ocupaEn = 1
       /\ Montada(p, p.ops[o].desde) => p.ops[q].desde = p.ops[o].desde

\* A handler that made a row ends with its form emptied or on another page, and
\* until then its button is disabled.
EnvioCuidado(p, m) ==
  /\ m.desde # Fila /\ Exclusiva(p, m.llave)
  /\ \A k \in DOMAIN m.pasos : CreaFila(m.pasos[k]) =>
       \A e \in Finales(m, k) : {"cierra", "sale"} \cap e # {}

\* Of two requests of a form that make a row, either the server refuses the
\* second, or both belong to handlers that one saving state keeps apart.
EnviaUnaVez(p) ==
  \A o, q \in DOMAIN p.ops : p.ops[o].desde = p.ops[q].desde =>
    \A k \in DOMAIN p.ops[o].pasos \cap DOMAIN p.ops[q].pasos :
      LET s == p.ops[o].pasos[k]
          t == p.ops[q].pasos[k]
      IN CreaFila(s) /\ CreaFila(t) =>
           \/ s.tipo = "unica" /\ t.tipo = "unica"
           \/ /\ EnvioCuidado(p, p.ops[o]) /\ EnvioCuidado(p, p.ops[q])
              /\ p.ops[o].llave = p.ops[q].llave

\* A handler announces success when all its changes were made; one with nothing
\* to send, when it only shows a result.
AvisaAlCumplir(p) ==
  \A o \in DOMAIN p.ops :
    LET m == p.ops[o]
    IN /\ SoloAlCumplir(m, "exito")
       /\ "exito" \in m.antes \cup m.sinToken =>
            m.pasos = <<>> /\ m.desde # Fila /\ p.fichas[m.desde] \in {"resultado", "visor"}

\* The controls that close the form f.
Cierran(p, f) ==
  {o \in DOMAIN p.ops : p.ops[o].desde = f /\ \E e \in Respuestas(p.ops[o]) : "cierra" \in e}

\* A form that a handler closes after an answer is closed by nothing else until
\* then, and only when all the changes were made.
CierraLoSuyo(p) ==
  \A f \in DOMAIN p.fichas : \A o \in Cierran(p, f) :
    LET m == p.ops[o]
    IN m.pasos # <<>> =>
         /\ p.fichas[f] \in {"fija", "bloqueada", "visor", "resultado"}
         /\ Exclusiva(p, m.llave)
         /\ \A q \in Cierran(p, f) : p.ops[q].llave = m.llave
         /\ "cierra" \notin m.antes \cup m.sinToken
         /\ SoloAlCumplir(m, "cierra")

-----------------------------------------------------------------------------
(* The rows                                                                  *)

\* Every dialog with a result asks for the rows when it is accepted.
AceptarRefresca(p) ==
  /\ \E f \in DOMAIN p.fichas : p.fichas[f] = "resultado"
  /\ \A f \in {g \in DOMAIN p.fichas : p.fichas[g] = "resultado"} :
       \A o \in Cierran(p, f) : \A e \in Respuestas(p.ops[o]) :
         "cierra" \in e => {"relee", "trae"} \cap e # {}

\* The rows on the screen get the changes of the handler that does e.
PoneAlDia(p, e) ==
  \/ {"relee", "trae", "local", "sale"} \cap e # {}
  \/ "resultado" \in e /\ AceptarRefresca(p)

\* A handler that made a change ends so that the rows get it, none drops or
\* spoils them or shows what the server has not made yet, and the server's rows
\* come only from a request granted where the load would have been.
MuestraSusCambios(p) ==
  \A o \in DOMAIN p.ops :
    LET m == p.ops[o]
    IN /\ \A e \in Respuestas(m) : e \cap {"copia", "confunde", "vacia"} = {}
       /\ {"local", "trae"} \cap (m.antes \cup m.sinToken) = {}
       /\ \A k \in DOMAIN m.pasos : \A e \in Fallos(m, k) : "trae" \notin e
       /\ PuedeFallar(m) => "trae" \notin m.aMedias
       /\ "trae" \in m.bien => "pide" \in p.carga.sinToken \/ ~p.publica
       /\ \A k \in DOMAIN m.pasos : Cambia(m.pasos[k]) =>
            \A e \in Finales(m, k) : PoneAlDia(p, e)

==============================================================================
