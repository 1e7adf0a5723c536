------------------------------- MODULE Pagina -------------------------------
(***************************************************************************)
(* A page of the shop front that shows rows of the server and changes      *)
(* them: React state, an effect that asks for the rows, and handlers that  *)
(* send one request after another.  Every panel of the front is written so *)
(* and differs in what its load and its handlers do with an answer, a      *)
(* refusal and a failure of the network.  Paginas holds one description    *)
(* per page; see PaginasFront.                                             *)
(*                                                                         *)
(* Rows are abstracted to the changes they show: the table is the sequence *)
(* of changes the server has made, the list on the screen a set of them.   *)
(* The server makes a change when the handler learns of it, and a click    *)
(* that the handler turns down before any request (an invalid form, a      *)
(* confirmation denied) is no step.                                        *)
(***************************************************************************)
EXTENDS Habitos, FiniteSets, SequencesExt

CONSTANTS
  Paginas,    \* descriptions of pages, by name
  MaxEnvios,  \* bound: handlers started
  MaxGiros,   \* bound: changes of the filter
  MaxFichas,  \* bound: times a form is emptied before a cancel is of no interest
  MaxLecturas,\* bound: reads in flight after which the person waits
  Desviadas,  \* pages whose list strays from the table, see PaginasFront
  Repetibles, \* pages that do not keep a form from being sent twice
  Optimistas, \* pages that announce what they have not looked at
  Descuidadas,\* pages whose handlers may close a form filled since
  Colgadas    \* pages with a read that turns loading on and fails without a word

ASSUME PaginasAssumption == \A n \in DOMAIN Paginas : BienFormada(Paginas[n])
ASSUME MaximosAssumption == {MaxEnvios, MaxGiros, MaxFichas, MaxLecturas} \subseteq Nat

\* The pages not named keep the habits, see Habitos.
ASSUME RepetiblesAssumption ==
  \A n \in DOMAIN Paginas \ Repetibles : EnviaUnaVez(Paginas[n])
ASSUME OptimistasAssumption ==
  \A n \in DOMAIN Paginas \ Optimistas : AvisaAlCumplir(Paginas[n])
ASSUME DescuidadasAssumption ==
  \A n \in DOMAIN Paginas \ Descuidadas : CierraLoSuyo(Paginas[n])
ASSUME DesviadasAssumption ==
  \A n \in DOMAIN Paginas \ Desviadas : Paginas[n].lee => MuestraSusCambios(Paginas[n])

VARIABLES
  pagina,    \* the name of the page on the screen
  conToken,  \* localStorage has a token
  tabla,     \* changes the server has made, in order: <<handler, request>>
  lista,     \* the rows on the screen
  cargando,  \* the loading state
  lecturas,  \* reads of the rows in flight, in the order they were asked
  filtro,    \* the filter chosen
  giros,     \* changes of the filter so far
  ficha,     \* the forms: is it open, and how many times it was emptied
  envios,    \* handlers started: their control, form, next request, and the
             \* rows they saw when they keep a copy
  ocupado,   \* saving states that are on
  aviso,     \* the handler whose message of success is on the screen, or none
  fuera,     \* the page was left
  tropiezo,  \* history: a read failed, or took the rows back, or the page never
             \* knew of a change; until a read that is alone brings them all
  perdida    \* history: a change was made and its answer was lost

vars == <<pagina, conToken, tabla, lista, cargando, lecturas, filtro, giros, ficha,
          envios, ocupado, aviso, fuera, tropiezo, perdida>>

Corrupta == <<0, 0>>  \* no change of the server: the mark of a wrong row

\* TLC evaluates a definition once, and what is given for a constant at each use.
Descripciones == Paginas

pag == Descripciones[pagina]
Op(o) == pag.ops[o]
Hechos == ToSet(tabla)
NingunAviso == 0
Terminado(i) == envios[i].paso = 0

(***************************************************************************)
(* The rows                                                                *)
(***************************************************************************)

\* What is asked without a token, when the load looks for one first.
LeeSinToken == ~conToken /\ "pide" \notin pag.carga.sinToken

\* No page cancels a read when it asks again.
Pedidas(f, n) == Append(lecturas, [filtro |-> f, desde |-> n, vieja |-> FALSE])

Init ==
  /\ pagina \in DOMAIN Descripciones
  /\ conToken \in BOOLEAN
  /\ tabla = <<>> /\ filtro = 0 /\ giros = 0 /\ envios = <<>>
  /\ lista = [filtro |-> 0, cambios |-> {}, leida |-> FALSE]
  /\ ficha = [f \in DOMAIN pag.fichas |-> [abierta |-> pag.fichas[f] = "fija", num |-> 0]]
  /\ ocupado = {} /\ aviso = NingunAviso
  /\ fuera = (LeeSinToken /\ "sale" \in pag.carga.sinToken)
  /\ lecturas = IF pag.lee /\ ~LeeSinToken
                THEN <<[filtro |-> 0, desde |-> 0, vieja |-> FALSE]>> ELSE <<>>
  /\ cargando = (/\ pag.lee /\ pag.carga.enciende # "nunca"
                 /\ ~(LeeSinToken /\ "apaga" \in pag.carga.sinToken))
  /\ tropiezo = FALSE /\ perdida = FALSE

\* What remains in flight when the j-th read is answered.
Quedan(j) ==
  RemoveAt([k \in DOMAIN lecturas |->
              [lecturas[k] EXCEPT !.vieja = @ \/ k < j]], j)

\* The rows v of the j-th read take the page back: they miss a change it showed,
\* or they come after those of a newer read and are of another filter.
Retrocede(j, v) ==
  \/ ~(lista.cambios \cap Hechos \subseteq v)
  \/ lecturas[j].vieja /\ lecturas[j].filtro # filtro

\* They are all the rows of the filter chosen, and no other read is to come.
Repara(j, v) == Len(lecturas) = 1 /\ v = Hechos /\ lecturas[j].filtro = filtro

\* The rows come, as the table was at some moment since they were asked for.
RecibeLista(j) ==
  /\ pag.carga.ruta /\ (conToken \/ pag.carga.publica)
  /\ \E n \in lecturas[j].desde .. Len(tabla) :
       LET v == ToSet(SubSeq(tabla, 1, n))
       IN /\ lista' = [filtro |-> lecturas[j].filtro, cambios |-> v, leida |-> TRUE]
          /\ tropiezo' = (Retrocede(j, v) \/ (tropiezo /\ ~Repara(j, v)))
  /\ lecturas' = Quedan(j)
  /\ cargando' = (cargando /\ "apaga" \notin pag.carga.bien)
  /\ UNCHANGED <<pagina, conToken, tabla, filtro, giros, ficha, envios, ocupado,
                 aviso, fuera, perdida>>

\* Mutant of FallaLista: the load has no finally.
FallaListaSinApagar(j) ==
  /\ \E efs \in {pag.carga.rechazo, pag.carga.caida} :
       /\ lista' = IF "vacia" \in efs THEN [lista EXCEPT !.cambios = {}] ELSE lista
       /\ fuera' = (fuera \/ "sale" \in efs)
  /\ lecturas' = Quedan(j)
  /\ tropiezo' = TRUE
  /\ UNCHANGED <<pagina, conToken, tabla, cargando, filtro, giros, ficha, envios, ocupado,
                 aviso, perdida>>

\* They do not: the server refuses, or there is no answer.
FallaLista(j) ==
  /\ \E efs \in {pag.carga.rechazo, pag.carga.caida} :
       /\ lista' = IF "vacia" \in efs THEN [lista EXCEPT !.cambios = {}] ELSE lista
       /\ cargando' = (cargando /\ "apaga" \notin efs)
       /\ fuera' = (fuera \/ "sale" \in efs)
  /\ lecturas' = Quedan(j)
  /\ tropiezo' = TRUE
  /\ UNCHANGED <<pagina, conToken, tabla, filtro, giros, ficha, envios, ocupado, aviso,
                 perdida>>

(***************************************************************************)
(* Effects of a handler on the page                                        *)
(***************************************************************************)

AvisoTras(efs, i) ==
  IF "exito" \in efs THEN i ELSE IF "limpia" \in efs THEN NingunAviso ELSE aviso

\* The text of the message of success, of which every control has its own.
Texto(a, es) == IF a = NingunAviso THEN "" ELSE es[a].op

\* Mutant of Relee: no handler calls the load of its page.
ReleeSoloPorAviso(efs, i) ==
  pag.sigueAviso /\ Texto(AvisoTras(efs, i), envios') # Texto(aviso, envios)

\* The rows are asked for after a handler, or because the message of success,
\* on which the effect of the page depends, is another text.
Relee(efs, i) ==
  \/ "relee" \in efs
  \/ pag.sigueAviso /\ Texto(AvisoTras(efs, i), envios') # Texto(aviso, envios)

Cerrada(f) == [abierta |-> pag.fichas[f] = "fija", num |-> ficha[f].num + 1]

Mostrada(efs, g) ==
  IF pag.fichas[g] = "resultado" /\ "resultado" \in efs
  THEN [ficha[g] EXCEPT !.abierta = TRUE] ELSE ficha[g]

\* Mutant of FichasTras: a handler closes its form whatever the answer was.
FichasSiempre(efs, f) ==
  [g \in DOMAIN ficha |-> IF g = f THEN Cerrada(g) ELSE Mostrada(efs, g)]

FichasTras(efs, f) ==
  [g \in DOMAIN ficha |-> IF g = f /\ "cierra" \in efs THEN Cerrada(g) ELSE Mostrada(efs, g)]

LlavesDe(f) == {Op(o).llave : o \in {x \in DOMAIN pag.ops : Op(x).desde = f}}

\* The saving states that die when the form is closed.
Muertas(f) == IF f # Fila /\ pag.fichas[f] = "montada" THEN LlavesDe(f) ELSE {}

\* vista are the rows that the handler saw at the click.
ListaTras(efs, cambios, vista) ==
  IF "trae" \in efs THEN [filtro |-> filtro, cambios |-> ToSet(tabla'), leida |-> TRUE]
  ELSE [lista EXCEPT !.cambios = IF "copia" \in efs THEN vista \cup cambios
                                 ELSE IF "confunde" \in efs THEN {Corrupta}
                                 ELSE IF "vacia" \in efs THEN {}
                                 ELSE IF "local" \in efs THEN @ \cup cambios ELSE @]

\* i is the handler, f its form, cambios the changes that a local effect shows
\* and ocupados the saving states after it.
Aplica(efs, i, f, cambios, ocupados) ==
  LET relee == Relee(efs, i)
      pide == relee /\ ~LeeSinToken
  IN /\ lecturas' = IF pide THEN Pedidas(filtro, Len(tabla')) ELSE lecturas
     /\ cargando' = \/ pide /\ pag.carga.enciende = "cada"
                    \/ "enciende" \in efs
                    \/ cargando /\ "apaga" \notin efs
     /\ lista' = ListaTras(efs, cambios, envios'[i].vista)
     /\ ficha' = FichasTras(efs, f)
     /\ aviso' = AvisoTras(efs, i)
     /\ ocupado' = ocupados
     /\ fuera' = \/ fuera \/ "sale" \in efs
                 \/ relee /\ LeeSinToken /\ "sale" \in pag.carga.sinToken

(***************************************************************************)
(* The controls                                                            *)
(***************************************************************************)

EnPantalla == ~fuera /\ (pag.tapa = "todo" => ~cargando)
FilasEnPantalla == EnPantalla /\ (pag.tapa = "filas" => ~cargando)

\* No dialog covers d, a form or the rows.
Descubierta(d) ==
  \A g \in DOMAIN ficha \ {d} : ficha[g].abierta =>
    /\ pag.fichas[g] # "resultado"
    /\ pag.fichas[g] \in {"modal", "visor"} => d # Fila /\ pag.fichas[d] = "resultado"

\* A filter, a page number or a search that the server applies.
CambiaFiltro ==
  /\ pag.filtra /\ giros < MaxGiros
  /\ EnPantalla /\ Descubierta(Fila)
  /\ filtro' = 1 - filtro
  /\ giros' = giros + 1
  /\ IF LeeSinToken
     THEN UNCHANGED <<lecturas, cargando>>
     ELSE /\ lecturas' = Pedidas(1 - filtro, Len(tabla))
          /\ cargando' = (cargando \/ pag.carga.enciende = "cada")
  /\ UNCHANGED <<pagina, conToken, tabla, lista, ficha, envios, ocupado, aviso, fuera,
                 tropiezo, perdida>>

\* A button that opens a form, on a new or on an existing row.
AbreFicha(f) ==
  /\ FilasEnPantalla /\ Descubierta(Fila)
  /\ pag.fichas[f] \notin {"fija", "resultado"} /\ ~ficha[f].abierta
  /\ UNCHANGED <<pagina, conToken, tabla, filtro, giros, envios, tropiezo, perdida>>
  /\ LET tras == AvisoTras(pag.alAbrir, 0)
     IN /\ ficha' = [ficha EXCEPT ![f].abierta = TRUE]
        /\ aviso' = tras
        /\ lecturas' = IF Relee(pag.alAbrir, 0) /\ ~LeeSinToken
                       THEN Pedidas(filtro, Len(tabla)) ELSE lecturas
  /\ UNCHANGED <<lista, cargando, ocupado, fuera>>

\* A timer takes the message of success away, be it the one it was set for or not.
CaducaAviso ==
  /\ pag.caduca /\ aviso # NingunAviso
  /\ aviso' = NingunAviso
  /\ UNCHANGED <<pagina, conToken, tabla, filtro, giros, envios, ficha, lista, ocupado,
                 fuera, tropiezo, perdida>>
  /\ lecturas' = IF Relee({"limpia"}, 0) /\ ~LeeSinToken
                 THEN Pedidas(filtro, Len(tabla)) ELSE lecturas
  /\ UNCHANGED cargando

\* Cancel.
CierraFicha(f) ==
  /\ EnPantalla /\ Descubierta(f) /\ ficha[f].abierta
  /\ \A g \in DOMAIN ficha : ficha[g].num < MaxFichas
  /\ \/ pag.fichas[f] \in {"modal", "enlinea", "montada"}
     \/ pag.fichas[f] = "bloqueada" /\ ocupado \cap LlavesDe(f) = {}
  /\ ficha' = [ficha EXCEPT ![f] = Cerrada(f)]
  /\ ocupado' = ocupado \ Muertas(f)
  /\ UNCHANGED <<pagina, conToken, tabla, lista, cargando, lecturas, filtro, giros,
                 envios, aviso, fuera, tropiezo, perdida>>

NumDeFicha(o) == IF Op(o).desde = Fila THEN 0 ELSE ficha[Op(o).desde].num

\* Mutant of Ocupa: a control with no saving state sets one.
OcupaSiempre(o, k) == IF Op(o).ocupaEn = k THEN {Op(o).llave} ELSE {}

\* Mutant of Ocupa: no button is disabled while its handler runs.
OcupaNada(o, k) == {}

\* The saving state that a handler sets before its k-th request.
Ocupa(o, k) == IF Op(o).ocupaEn = k THEN {Op(o).llave} \ {Libre} ELSE {}

\* The handler of a control, up to its first await; one without requests ends.
Dispara(o) ==
  /\ Len(envios) < MaxEnvios
  /\ IF Op(o).desde = Fila THEN FilasEnPantalla
     ELSE EnPantalla /\ ficha[Op(o).desde].abierta
  /\ Descubierta(Op(o).desde)
  /\ Op(o).llave \notin ocupado
  /\ LET i == Len(envios) + 1
         sigue == conToken \/ "pide" \in Op(o).sinToken
         pide == sigue /\ Op(o).pasos # <<>>
         vista == IF "copia" \in Op(o).bien THEN lista.cambios ELSE {}
     IN /\ envios' = Append(envios, [op |-> o, ficha |-> NumDeFicha(o), fallo |-> FALSE,
                                     paso |-> IF pide THEN 1 ELSE 0, vista |-> vista])
        /\ UNCHANGED <<pagina, conToken, tabla, filtro, giros, tropiezo, perdida>>
        /\ Aplica(IF sigue THEN Op(o).antes ELSE Op(o).sinToken, i, Op(o).desde,
                  {<<i, 1>>},
                  IF pide THEN ocupado \cup Ocupa(o, 1) ELSE ocupado)

Peticion(i) == Op(envios[i].op).pasos[envios[i].paso]

\* What the handler does after an answer: its next request, or its end, which
\* may depend on a request before having failed.
Prosigue(i, efs, falla) ==
  LET o == envios[i].op
      fallo == envios[i].fallo \/ falla
      acaba == "sigue" \notin efs \/ envios[i].paso = Len(Op(o).pasos)
      fin == IF "sigue" \notin efs THEN efs
             ELSE IF fallo THEN Op(o).aMedias ELSE Op(o).bien
      f == Op(o).desde
      libres == (IF /\ "libera" \in fin
                    /\ Muertas(f) # {} => envios[i].ficha = ficha[f].num
                 THEN {Op(o).llave} ELSE {})
                \cup (IF "cierra" \in fin THEN Muertas(f) ELSE {})
  IN /\ envios' = [envios EXCEPT ![i].paso = IF acaba THEN 0 ELSE @ + 1,
                                 ![i].fallo = fallo]
     /\ Aplica(IF acaba THEN fin ELSE efs, i, f, {c \in ToSet(tabla') : c[1] = i},
               IF acaba THEN ocupado \ libres
               ELSE ocupado \cup Ocupa(o, envios[i].paso + 1))
     /\ UNCHANGED <<pagina, conToken, filtro, giros>>

Anota(i) ==
  tabla' = IF Peticion(i).tipo = "nota" THEN tabla
           ELSE Append(tabla, <<i, envios[i].paso>>)

Tipo(c) == Op(envios[c[1]].op).pasos[c[2]].tipo

\* Two changes come from one filling of a form.
MismaFicha(c, d) ==
  /\ Op(envios[c[1]].op).desde = Op(envios[d[1]].op).desde
  /\ envios[c[1]].ficha = envios[d[1]].ficha
  /\ c[2] = d[2]

\* The server has the route, lets the person through, and holds no other row
\* with the same name, e-mail or code.
Puede(i) ==
  /\ Peticion(i).ruta /\ (conToken \/ pag.publica)
  /\ Peticion(i).tipo = "unica" =>
       \A c \in Hechos : ~(Tipo(c) = "unica" /\ MismaFicha(c, <<i, envios[i].paso>>))

\* The server does what it is asked.
Acepta(i) ==
  /\ ~Terminado(i) /\ Puede(i)
  /\ Anota(i)
  /\ Prosigue(i, {"sigue"}, FALSE)
  /\ UNCHANGED <<tropiezo, perdida>>

\* Mutant of Rechaza: no handler looks at res.ok.
RechazaSinMirar(i) ==
  /\ ~Terminado(i)
  /\ UNCHANGED <<tabla, tropiezo, perdida>>
  /\ Prosigue(i, {"sigue"}, FALSE)

\* The answer is not ok.
Rechaza(i) ==
  /\ ~Terminado(i)
  /\ UNCHANGED <<tabla, tropiezo, perdida>>
  /\ Prosigue(i, Peticion(i).rechazo, TRUE)

\* Mutant of Cae: the saving state is not turned off in a finally.
CaeSinLiberar(i) ==
  /\ ~Terminado(i)
  /\ \/ UNCHANGED <<tabla, tropiezo, perdida>>
     \/ /\ Puede(i) /\ Peticion(i).tipo # "nota"
        /\ Anota(i)
        /\ tropiezo' = TRUE /\ perdida' = TRUE
  /\ Prosigue(i, Peticion(i).caida \ {"libera"}, TRUE)

\* fetch rejects: the request did not arrive, or its answer did not.
Cae(i) ==
  /\ ~Terminado(i)
  /\ \/ UNCHANGED <<tabla, tropiezo, perdida>>
     \/ /\ Puede(i) /\ Peticion(i).tipo # "nota"
        /\ Anota(i)
        /\ tropiezo' = TRUE /\ perdida' = TRUE
  /\ Prosigue(i, Peticion(i).caida, TRUE)

(***************************************************************************)
(* The specification                                                       *)
(***************************************************************************)

Responde(i) == Acepta(i) \/ Rechaza(i) \/ Cae(i)
ContestaLista == \E j \in DOMAIN lecturas : RecibeLista(j) \/ FallaLista(j)

Persona ==
  /\ Len(lecturas) < MaxLecturas
  /\ \/ CambiaFiltro \/ CaducaAviso
     \/ \E f \in DOMAIN pag.fichas : AbreFicha(f) \/ CierraFicha(f)
     \/ \E o \in DOMAIN pag.ops : Dispara(o)

Next ==
  \/ Persona
  \/ ContestaLista
  \/ \E i \in DOMAIN envios : Responde(i)

Spec == Init /\ [][Next]_vars

\* A fetch is settled some day; the person owes nothing.
FairSpec ==
  /\ Spec
  /\ WF_vars(ContestaLista)
  /\ \A i \in 1..MaxEnvios : WF_vars(i \in DOMAIN envios /\ Responde(i))

(***************************************************************************)
(* Properties                                                              *)
(***************************************************************************)

Cambio == (1..MaxEnvios) \X (1..MaxPasos)

TypeOK ==
  /\ pagina \in DOMAIN Descripciones /\ conToken \in BOOLEAN
  /\ tabla \in Seq(Cambio)
  /\ lista \in [filtro : {0, 1}, cambios : SUBSET (Cambio \cup {Corrupta}), leida : BOOLEAN]
  /\ cargando \in BOOLEAN
  /\ lecturas \in Seq([filtro : {0, 1}, desde : Nat, vieja : BOOLEAN])
  /\ filtro \in {0, 1} /\ giros \in 0..MaxGiros
  /\ ficha \in [DOMAIN pag.fichas -> [abierta : BOOLEAN, num : Nat]]
  /\ envios \in Seq([op : DOMAIN pag.ops, ficha : Nat, fallo : BOOLEAN, paso : 0..MaxPasos,
                     vista : SUBSET (Cambio \cup {Corrupta})])
  /\ Len(envios) <= MaxEnvios
  /\ ocupado \subseteq {Op(o).llave : o \in DOMAIN pag.ops} \ {Libre}
  /\ aviso \in 0..MaxEnvios
  /\ fuera \in BOOLEAN /\ tropiezo \in BOOLEAN /\ perdida \in BOOLEAN

\* Nothing is pending, a dialog with a result that waits to be accepted included.
Quieta ==
  /\ lecturas = <<>>
  /\ \A i \in DOMAIN envios : Terminado(i)
  /\ \A f \in DOMAIN pag.fichas : pag.fichas[f] = "resultado" => ~ficha[f].abierta

\* When nothing is pending the rows on the screen are those of the server for the
\* filter chosen: every handler that changes the table brings its list up to date.
\* A read that failed or took the rows back, and a change whose answer was lost,
\* excuse the page no longer than to the next read that comes alone with all the
\* rows.
ListaAlDia ==
  (/\ pagina \notin Desviadas
   /\ pag.lee /\ Quieta /\ ~fuera /\ ~tropiezo /\ lista.leida)
  => lista.cambios = Hechos /\ lista.filtro = filtro

Crea(c) == Tipo(c) \in {"crea", "unica"}

\* A form filled once makes one row, however often its button is pressed and
\* whatever fails half way, unless the answer to a creation was lost.
UnaFila ==
  (pagina \notin Repetibles /\ ~perdida) =>
    \A c, d \in {x \in Hechos : Crea(x)} :
      MismaFicha(c, d) => c = d

\* A handler got its changes made, or had none to make and only shows a result.
Cumplido(i, hechos) ==
  LET o == Op(envios[i].op)
  IN /\ o.pasos = <<>> => o.desde # Fila /\ pag.fichas[o.desde] \in {"resultado", "visor"}
     /\ \A k \in DOMAIN o.pasos : o.pasos[k].tipo # "nota" => <<i, k>> \in hechos

\* A message of success is about a handler that got all its changes made.
AvisoVeraz ==
  (pagina \notin Optimistas /\ aviso # NingunAviso)
  => Cumplido(aviso, Hechos)

\* A handler that ends closes, or empties, only the form it was sent from, as it
\* was filled then, and only when it got its changes made: it throws nothing away
\* that is still to be sent.
FichaPropia ==
  [][pagina \notin Descuidadas =>
       \A i \in DOMAIN envios :
         LET f == Op(envios[i].op).desde
         IN (/\ ~Terminado(i) /\ envios'[i].paso = 0
             /\ f # Fila /\ ficha'[f].num # ficha[f].num)
            => envios[i].ficha = ficha[f].num /\ Cumplido(i, ToSet(tabla'))]_vars

\* No spinner stays for ever: every answer and every failure of a load ends it.
EsperaTermina ==
  (pagina \notin Colgadas /\ cargando) ~> (~cargando \/ fuera)

\* A button that is disabled while its handler runs comes back.
BotonVuelve == ocupado # {} ~> (ocupado = {} \/ fuera)

=============================================================================
