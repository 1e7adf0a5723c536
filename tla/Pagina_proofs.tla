---------------------------- MODULE Pagina_proofs ----------------------------
(***************************************************************************)
(* Proofs about Pagina, for every set of pages and every number of         *)
(* handlers, forms, reads and changes of the filter: the types, and what   *)
(* each step does to the handlers, the saving states and the forms.        *)
(***************************************************************************)
EXTENDS Pagina, TLAPS

Filas == SUBSET (Cambio \cup {Corrupta})
Lista == [filtro : {0, 1}, cambios : Filas, leida : BOOLEAN]
Lectura == [filtro : {0, 1}, desde : Nat, vieja : BOOLEAN]
Ficha == [abierta : BOOLEAN, num : Nat]
Envio == [op : DOMAIN pag.ops, ficha : Nat, fallo : BOOLEAN, paso : 0..MaxPasos, vista : Filas]

Lugares == DOMAIN pag.fichas \cup {Fila}

\* What the effects of a handler set.
PantallaTipo ==
  /\ lista \in Lista /\ cargando \in BOOLEAN /\ lecturas \in Seq(Lectura)
  /\ ficha \in [DOMAIN pag.fichas -> Ficha]
  /\ aviso \in 0..MaxEnvios /\ fuera \in BOOLEAN

\* What a handler is and does on the server.
EnviosTipo ==
  /\ tabla \in Seq(Cambio)
  /\ envios \in Seq(Envio) /\ Len(envios) <= MaxEnvios
  /\ ocupado \subseteq {Op(o).llave : o \in DOMAIN pag.ops} \ {Libre}
  /\ tropiezo \in BOOLEAN /\ perdida \in BOOLEAN

PaginaTipo ==
  /\ pagina \in DOMAIN Descripciones /\ conToken \in BOOLEAN
  /\ filtro \in {0, 1} /\ giros \in 0..MaxGiros

\* The type invariant in its three parts.
LEMMA TiposJuntos ==
  /\ TypeOK <=> PaginaTipo /\ PantallaTipo /\ EnviosTipo
  /\ TypeOK' <=> PaginaTipo' /\ PantallaTipo' /\ EnviosTipo'
BY DEF TypeOK, PaginaTipo, PantallaTipo, EnviosTipo, Filas, Lista, Lectura, Ficha, Envio

\* The description of the handler i.
Mano(i) == Op(envios[i].op)

\* A handler that runs is at one of its requests, has failed only if it goes on
\* after failures, and has made the changes before but for those; every change is
\* one of a handler, made already.
ManosInv ==
  /\ \A i \in DOMAIN envios :
       /\ envios[i].paso <= Len(Mano(i).pasos)
       /\ ~Terminado(i) =>
            /\ envios[i].fallo => PuedeFallar(Mano(i))
            /\ \A k \in 1..(envios[i].paso - 1) : Cambia(Mano(i).pasos[k]) =>
                 \/ <<i, k>> \in Hechos
                 \/ envios[i].fallo /\ Sigue(Mano(i), k)
  /\ \A c \in Hechos :
       /\ c[1] \in DOMAIN envios /\ c[2] \in DOMAIN Mano(c[1]).pasos
       /\ Cambia(Mano(c[1]).pasos[c[2]])
       /\ ~Terminado(c[1]) => c[2] < envios[c[1]].paso
  /\ aviso # NingunAviso => aviso \in DOMAIN envios

TypeInv == TypeOK /\ ManosInv

(***************************************************************************)
(* Sequences                                                               *)
(***************************************************************************)

\* The domain of a sequence.
LEMMA SecuenciaLargo ==
  ASSUME NEW S, NEW s \in Seq(S)
  PROVE  Len(s) \in Nat /\ DOMAIN s = 1..Len(s)
OBVIOUS

\* What appending adds.
LEMMA AppendConjunto ==
  ASSUME NEW S, NEW s \in Seq(S), NEW e
  PROVE  ToSet(Append(s, e)) = ToSet(s) \cup {e}
<1>1. /\ DOMAIN Append(s, e) = 1..(Len(s) + 1) /\ DOMAIN s = 1..Len(s) /\ Len(s) \in Nat
      /\ Append(s, e)[Len(s) + 1] = e
      /\ \A k \in 1..Len(s) : Append(s, e)[k] = s[k]
  OBVIOUS
<1> QED BY <1>1 DEF ToSet

\* What taking one element out of a sequence leaves.
LEMMA QuitaUno ==
  ASSUME NEW S, NEW s \in Seq(S), NEW j \in DOMAIN s
  PROVE  /\ RemoveAt(s, j) \in Seq(S)
         /\ Len(RemoveAt(s, j)) = Len(s) - 1
         /\ \A k \in 1..(Len(s) - 1) : RemoveAt(s, j)[k] = s[IF k < j THEN k ELSE k + 1]
<1> DEFINE a == SubSeq(s, 1, j - 1)
           b == SubSeq(s, j + 1, Len(s))
<1>1. j \in 1..Len(s) /\ Len(s) \in Nat
  OBVIOUS
<1>2. a \in Seq(S) /\ Len(a) = j - 1 /\ \A k \in 1..(j - 1) : a[k] = s[k]
  BY <1>1
<1>3. b \in Seq(S) /\ Len(b) = Len(s) - j /\ \A k \in 1..(Len(s) - j) : b[k] = s[j + k]
  BY <1>1
<1>4. RemoveAt(s, j) = a \o b
  BY DEF RemoveAt
<1> HIDE DEF a, b
<1>5. a \o b \in Seq(S) /\ Len(a \o b) = Len(s) - 1
  BY <1>1, <1>2, <1>3
<1>6. ASSUME NEW k \in 1..(Len(s) - 1)
      PROVE  (a \o b)[k] = s[IF k < j THEN k ELSE k + 1]
  <2>1. CASE k < j
    BY <1>1, <1>2, <1>3, <2>1
  <2>2. CASE ~(k < j)
    <3>1. (a \o b)[k] = b[k - Len(a)]
      BY <1>1, <1>2, <1>3, <2>2
    <3>2. k - Len(a) \in 1..(Len(s) - j) /\ j + (k - Len(a)) = k + 1
      BY <1>1, <1>2, <2>2
    <3> QED BY <1>3, <2>2, <3>1, <3>2
  <2> QED BY <2>1, <2>2
<1> QED BY <1>4, <1>5, <1>6

(***************************************************************************)
(* Descriptions                                                            *)
(***************************************************************************)

\* What the habits of a page say of its description.
LEMMA PaginaForma ==
  ASSUME pagina \in DOMAIN Descripciones
  PROVE  /\ BienFormada(pag) /\ Fila \notin DOMAIN pag.fichas
         /\ pagina \notin Repetibles => EnviaUnaVez(pag)
         /\ pagina \notin Optimistas => AvisaAlCumplir(pag)
         /\ pagina \notin Descuidadas => CierraLoSuyo(pag)
         /\ pagina \notin Desviadas /\ pag.lee => MuestraSusCambios(pag)
<1>1. pagina \in DOMAIN Paginas /\ pag = Paginas[pagina]
  BY DEF pag, Descripciones
<1>2. BienFormada(pag)
  BY <1>1, PaginasAssumption
<1> QED BY <1>1, <1>2, RepetiblesAssumption, OptimistasAssumption, DescuidadasAssumption,
           DesviadasAssumption DEF BienFormada

Pedido == [tipo : Tipos, rechazo : SUBSET Efectos, caida : SUBSET Efectos, ruta : BOOLEAN]

\* A handler starts somewhere on the page and has its requests in order.
LEMMA OpForma ==
  ASSUME pagina \in DOMAIN Descripciones, NEW o \in DOMAIN pag.ops
  PROVE  /\ Op(o).desde \in Lugares
         /\ Op(o).pasos \in Seq(Pedido) /\ Len(Op(o).pasos) \in 0..MaxPasos
         /\ DOMAIN Op(o).pasos = 1..Len(Op(o).pasos)
         /\ Op(o).desde # Fila => Op(o).desde \in DOMAIN pag.fichas
<1>1. BienFormada(pag)
  BY PaginaForma
<1>2. /\ Op(o).desde \in Lugares
      /\ Op(o).pasos \in Seq(Pedido) /\ Len(Op(o).pasos) <= MaxPasos
  BY <1>1 DEF BienFormada, Op, Lugares, Pedido
<1>3. Len(Op(o).pasos) \in 0..MaxPasos /\ DOMAIN Op(o).pasos = 1..Len(Op(o).pasos)
  <2>1. Len(Op(o).pasos) \in Nat /\ DOMAIN Op(o).pasos = 1..Len(Op(o).pasos)
    BY <1>2, SecuenciaLargo
  <2>2. \A n \in Nat : n <= MaxPasos => n \in 0..MaxPasos
    BY DEF MaxPasos
  <2>3. Len(Op(o).pasos) <= MaxPasos
    BY <1>2
  <2> QED BY <2>1, <2>2, <2>3
<1> QED BY <1>2, <1>3 DEF Lugares

(***************************************************************************)
(* The effects of a handler                                                *)
(***************************************************************************)

\* A step on the same page.
LEMMA MismaPagina ==
  ASSUME pagina' = pagina
  PROVE  /\ pag' = pag /\ Lugares' = Lugares
         /\ \A o : Op(o)' = Op(o)
BY DEF pag, Op, Lugares

\* Whether a page reads without a token is known.
LEMMA LeeSinTokenTipo == LeeSinToken \in BOOLEAN
BY DEF LeeSinToken

\* Readings asked for join those on their way.
LEMMA PedidasTipo ==
  ASSUME lecturas \in Seq(Lectura), NEW f \in {0, 1}, NEW n \in Nat
  PROVE  Pedidas(f, n) \in Seq(Lectura)
BY DEF Pedidas, Lectura

\* A closed dialog counts one more opening.
LEMMA CerradaTipo ==
  ASSUME PantallaTipo, NEW f \in DOMAIN pag.fichas
  PROVE  /\ Cerrada(f) \in Ficha /\ Cerrada(f).num = ficha[f].num + 1
BY DEF PantallaTipo, Cerrada, Ficha

\* The forms after the effects efs of a handler of f.
LEMMA FichasTrasHace ==
  ASSUME PantallaTipo, NEW efs, NEW f
  PROVE  /\ FichasTras(efs, f) \in [DOMAIN pag.fichas -> Ficha]
         /\ \A g \in DOMAIN pag.fichas :
              /\ FichasTras(efs, f)[g].num
                   = IF g = f /\ "cierra" \in efs THEN ficha[g].num + 1 ELSE ficha[g].num
              /\ pag.fichas[g] = "resultado" /\ "resultado" \in efs /\ ~(g = f /\ "cierra" \in efs)
                   => FichasTras(efs, f)[g].abierta
              /\ ficha[g].abierta /\ ~(g = f /\ "cierra" \in efs)
                   => FichasTras(efs, f)[g].abierta
<1>1. DOMAIN ficha = DOMAIN pag.fichas /\ \A g \in DOMAIN ficha : ficha[g] \in Ficha
  BY DEF PantallaTipo
<1> DEFINE tras(g) == IF g = f /\ "cierra" \in efs THEN Cerrada(g) ELSE Mostrada(efs, g)
<1>2. FichasTras(efs, f) = [g \in DOMAIN ficha |-> tras(g)]
  BY DEF FichasTras
<1>3. ASSUME NEW g \in DOMAIN ficha
      PROVE  /\ tras(g) \in Ficha
             /\ tras(g).num = IF g = f /\ "cierra" \in efs THEN ficha[g].num + 1 ELSE ficha[g].num
             /\ pag.fichas[g] = "resultado" /\ "resultado" \in efs /\ ~(g = f /\ "cierra" \in efs)
                  => tras(g).abierta
             /\ ficha[g].abierta /\ ~(g = f /\ "cierra" \in efs) => tras(g).abierta
  <2>1. ficha[g] \in Ficha /\ g \in DOMAIN pag.fichas
    BY <1>1
  <2>2. CASE g = f /\ "cierra" \in efs
    BY <1>1, <2>2, CerradaTipo
  <2>3. CASE ~(g = f /\ "cierra" \in efs)
    <3>1. tras(g) = Mostrada(efs, g)
      BY <2>3
    <3>2. [ficha[g] EXCEPT !.abierta = TRUE] \in Ficha
      BY <2>1 DEF Ficha
    <3>3. /\ [ficha[g] EXCEPT !.abierta = TRUE].num = ficha[g].num
          /\ [ficha[g] EXCEPT !.abierta = TRUE].abierta = TRUE
      BY <2>1 DEF Ficha
    <3> QED BY <2>1, <2>3, <3>1, <3>2, <3>3 DEF Mostrada
  <2> QED BY <2>2, <2>3
<1> QED BY <1>1, <1>2, <1>3

\* A notice is the one of this handler, the one before or none.
LEMMA AvisoTrasTipo ==
  ASSUME PantallaTipo, NEW efs, NEW i \in 0..MaxEnvios
  PROVE  /\ AvisoTras(efs, i) \in 0..MaxEnvios
         /\ AvisoTras(efs, i) \in {i, aviso, NingunAviso}
         /\ "exito" \notin efs => AvisoTras(efs, i) \in {aviso, NingunAviso}
<1>1. MaxEnvios \in Nat
  BY MaximosAssumption
<1>2. AvisoTras(efs, i) = IF "exito" \in efs THEN i
                          ELSE IF "limpia" \in efs THEN NingunAviso ELSE aviso
  BY DEF AvisoTras
<1> QED BY <1>1, <1>2 DEF PantallaTipo, NingunAviso

\* What the effects of a handler do to the list on screen.
LEMMA ListaTrasHace ==
  ASSUME PantallaTipo, PaginaTipo, NEW efs, NEW cambios \in Filas, NEW v \in Filas,
         tabla' \in Seq(Cambio)
  PROVE  /\ ListaTras(efs, cambios, v) \in Lista
         /\ {"copia", "confunde", "vacia"} \cap efs = {} =>
              IF "trae" \in efs
              THEN ListaTras(efs, cambios, v) = [filtro |-> filtro, cambios |-> Hechos', leida |-> TRUE]
              ELSE /\ ListaTras(efs, cambios, v).cambios
                        = lista.cambios \cup {c \in cambios : "local" \in efs}
                   /\ ListaTras(efs, cambios, v).filtro = lista.filtro
                   /\ ListaTras(efs, cambios, v).leida = lista.leida
<1>1. /\ lista = [filtro |-> lista.filtro, cambios |-> lista.cambios, leida |-> lista.leida]
      /\ lista.filtro \in {0, 1} /\ lista.cambios \in Filas /\ lista.leida \in BOOLEAN
  BY DEF PantallaTipo, Lista
<1>2. ToSet(tabla') \in Filas /\ Hechos' = ToSet(tabla')
  <2>1. \A k \in DOMAIN tabla' : tabla'[k] \in Cambio
    OBVIOUS
  <2> QED BY <2>1 DEF ToSet, Filas, Hechos
<1>3. filtro \in {0, 1}
  BY DEF PaginaTipo
<1>4. {Corrupta} \in Filas /\ {} \in Filas
  BY DEF Filas
<1>5. (v \cup cambios) \in Filas /\ (lista.cambios \cup cambios) \in Filas
  BY <1>1 DEF Filas
<1>6. ASSUME NEW n \in Filas
      PROVE  [lista EXCEPT !.cambios = n] = [filtro |-> lista.filtro, cambios |-> n, leida |-> lista.leida]
  BY <1>1
<1> DEFINE L(n) == [filtro |-> lista.filtro, cambios |-> n, leida |-> lista.leida]
<1>8. ListaTras(efs, cambios, v) =
        IF "trae" \in efs THEN [filtro |-> filtro, cambios |-> ToSet(tabla'), leida |-> TRUE]
        ELSE IF "copia" \in efs THEN L(v \cup cambios)
        ELSE IF "confunde" \in efs THEN L({Corrupta})
        ELSE IF "vacia" \in efs THEN L({})
        ELSE IF "local" \in efs THEN L(lista.cambios \cup cambios)
        ELSE L(lista.cambios)
  BY <1>1, <1>4, <1>5, <1>6 DEF ListaTras
<1>9. ListaTras(efs, cambios, v) \in Lista
  BY <1>1, <1>2, <1>3, <1>4, <1>5, <1>8 DEF Lista
<1>10. ASSUME {"copia", "confunde", "vacia"} \cap efs = {}
       PROVE  IF "trae" \in efs
              THEN ListaTras(efs, cambios, v) = [filtro |-> filtro, cambios |-> Hechos', leida |-> TRUE]
              ELSE /\ ListaTras(efs, cambios, v).cambios
                        = lista.cambios \cup {c \in cambios : "local" \in efs}
                   /\ ListaTras(efs, cambios, v).filtro = lista.filtro
                   /\ ListaTras(efs, cambios, v).leida = lista.leida
  <2>1. "copia" \notin efs /\ "confunde" \notin efs /\ "vacia" \notin efs
    BY <1>10
  <2>2. CASE "trae" \in efs
    BY <1>2, <1>8, <2>1, <2>2
  <2>3. CASE "trae" \notin efs /\ "local" \in efs
    BY <1>8, <2>1, <2>3
  <2>4. CASE "trae" \notin efs /\ "local" \notin efs
    BY <1>8, <2>1, <2>4
  <2> QED BY <2>2, <2>3, <2>4
<1> QED BY <1>9, <1>10

\* What a set of effects does to the page.
LEMMA AplicaTipo ==
  ASSUME PantallaTipo, PaginaTipo, pagina' = pagina, conToken' = conToken, filtro' = filtro,
         tabla' \in Seq(Cambio), NEW efs, NEW i \in 0..MaxEnvios, NEW f,
         NEW cambios \in Filas, envios'[i].vista \in Filas, NEW ocupados,
         Aplica(efs, i, f, cambios, ocupados)
  PROVE  PantallaTipo'
<1>1. /\ lista' = ListaTras(efs, cambios, envios'[i].vista)
      /\ ficha' = FichasTras(efs, f) /\ aviso' = AvisoTras(efs, i)
      /\ lecturas' \in {Pedidas(filtro, Len(tabla')), lecturas}
      /\ cargando' \in BOOLEAN /\ fuera' \in BOOLEAN
  BY DEF Aplica
<1>2. lecturas' \in Seq(Lectura)
  <2>1. Len(tabla') \in Nat /\ filtro \in {0, 1}
    BY DEF PaginaTipo
  <2> QED BY <1>1, <2>1, PedidasTipo DEF PantallaTipo
<1>3. lista' \in Lista /\ ficha' \in [DOMAIN pag.fichas -> Ficha] /\ aviso' \in 0..MaxEnvios
  BY <1>1, ListaTrasHace, FichasTrasHace, AvisoTrasTipo
<1>4. pag' = pag
  BY MismaPagina
<1> QED BY <1>1, <1>2, <1>3, <1>4 DEF PantallaTipo

(***************************************************************************)
(* An answer                                                               *)
(***************************************************************************)

Acaba(i, efs) == "sigue" \notin efs \/ envios[i].paso = Len(Mano(i).pasos)

\* What a handler does at its end.
Fin(i, efs, falla) ==
  IF "sigue" \notin efs THEN efs
  ELSE IF envios[i].fallo \/ falla THEN Mano(i).aMedias ELSE Mano(i).bien

EfectosDe(i, efs, falla) == IF Acaba(i, efs) THEN Fin(i, efs, falla) ELSE efs

\* The saving states that are off after it.
Libres(i, efs, falla) ==
  LET f == Mano(i).desde
  IN {l \in {Mano(i).llave} :
        /\ "libera" \in Fin(i, efs, falla)
        /\ Muertas(f) # {} => envios[i].ficha = ficha[f].num}
     \cup {l \in Muertas(f) : "cierra" \in Fin(i, efs, falla)}

OcupadosTras(i, efs, falla) ==
  IF Acaba(i, efs) THEN ocupado \ Libres(i, efs, falla)
  ELSE ocupado \cup Ocupa(envios[i].op, envios[i].paso + 1)

Cambios(i) == {c \in ToSet(tabla') : c[1] = i}

EnviosTras(i, efs, falla) ==
  [envios EXCEPT ![i].paso = IF Acaba(i, efs) THEN 0 ELSE @ + 1,
                 ![i].fallo = envios[i].fallo \/ falla]

\* A request that continues applies its effects.
LEMMA ProsigueHace ==
  ASSUME NEW i, NEW efs, NEW falla, Prosigue(i, efs, falla)
  PROVE  /\ envios' = EnviosTras(i, efs, falla)
         /\ Aplica(EfectosDe(i, efs, falla), i, Mano(i).desde, Cambios(i),
                   OcupadosTras(i, efs, falla))
         /\ UNCHANGED <<pagina, conToken, filtro, giros>>
<1>1. Libres(i, efs, falla) =
        (IF /\ "libera" \in Fin(i, efs, falla)
            /\ Muertas(Mano(i).desde) # {} => envios[i].ficha = ficha[Mano(i).desde].num
         THEN {Mano(i).llave} ELSE {})
        \cup (IF "cierra" \in Fin(i, efs, falla) THEN Muertas(Mano(i).desde) ELSE {})
  BY DEF Libres
<1> QED BY <1>1 DEF Prosigue, Acaba, Fin, EfectosDe, OcupadosTras, Cambios, Mano, EnviosTras

\* The answer to a request: granted, refused, or none, with its change made or not.
Contesta(i, efs, falla) ==
  /\ ~Terminado(i) /\ Prosigue(i, efs, falla)
  /\ \/ /\ falla = FALSE /\ efs = {"sigue"} /\ Puede(i) /\ Anota(i)
        /\ UNCHANGED <<tropiezo, perdida>>
     \/ /\ falla = TRUE /\ efs \in Fallos(Mano(i), envios[i].paso)
        /\ \/ UNCHANGED <<tabla, tropiezo, perdida>>
           \/ /\ Puede(i) /\ Peticion(i).tipo # "nota" /\ Anota(i)
              /\ tropiezo' = TRUE /\ perdida' = TRUE

\* Every answer of the server is one of those Contesta names.
LEMMA RespondeHace ==
  ASSUME NEW i, Responde(i)
  PROVE  \E efs, falla : Contesta(i, efs, falla)
<1>1. CASE Acepta(i)
  <2>1. Contesta(i, {"sigue"}, FALSE)
    BY <1>1 DEF Acepta, Contesta
  <2> QED BY <2>1
<1>2. Peticion(i).rechazo \in Fallos(Mano(i), envios[i].paso)
      /\ Peticion(i).caida \in Fallos(Mano(i), envios[i].paso)
  BY DEF Peticion, Mano, Fallos
<1>3. CASE Rechaza(i)
  <2>1. Contesta(i, Peticion(i).rechazo, TRUE)
    BY <1>2, <1>3 DEF Rechaza, Contesta
  <2> QED BY <2>1
<1>4. CASE Cae(i)
  <2>1. Contesta(i, Peticion(i).caida, TRUE)
    BY <1>2, <1>4 DEF Cae, Contesta
  <2> QED BY <2>1
<1> QED BY <1>1, <1>3, <1>4 DEF Responde

\* A handler and its description.
LEMMA ManoForma ==
  ASSUME PaginaTipo, EnviosTipo, ManosInv, NEW i \in DOMAIN envios
  PROVE  /\ i \in 1..MaxEnvios /\ envios[i] \in Envio /\ envios[i].op \in DOMAIN pag.ops
         /\ Mano(i).desde \in Lugares /\ (Mano(i).desde # Fila => Mano(i).desde \in DOMAIN pag.fichas)
         /\ Mano(i).pasos \in Seq(Pedido) /\ DOMAIN Mano(i).pasos = 1..Len(Mano(i).pasos)
         /\ Len(Mano(i).pasos) \in 0..MaxPasos
         /\ envios[i].paso \in 0..Len(Mano(i).pasos)
         /\ ~Terminado(i) => envios[i].paso \in DOMAIN Mano(i).pasos
<1>1. DOMAIN envios = 1..Len(envios) /\ Len(envios) \in Nat /\ Len(envios) <= MaxEnvios
  BY SecuenciaLargo DEF EnviosTipo
<1>2. i \in 1..MaxEnvios
  BY <1>1, MaximosAssumption
<1>3. envios[i] \in Envio
  BY DEF EnviosTipo
<1>4. envios[i].op \in DOMAIN pag.ops /\ envios[i].paso \in 0..MaxPasos
  BY <1>3 DEF Envio
<1>5. pagina \in DOMAIN Descripciones
  BY DEF PaginaTipo
<1>6. /\ Mano(i).desde \in Lugares /\ (Mano(i).desde # Fila => Mano(i).desde \in DOMAIN pag.fichas)
      /\ Mano(i).pasos \in Seq(Pedido) /\ Len(Mano(i).pasos) \in 0..MaxPasos
      /\ DOMAIN Mano(i).pasos = 1..Len(Mano(i).pasos)
  BY <1>4, <1>5, OpForma DEF Mano
<1>7. envios[i].paso <= Len(Mano(i).pasos)
  BY DEF ManosInv
<1>8. \A n \in 0..MaxPasos, l \in 0..MaxPasos :
        n <= l => n \in 0..l /\ (n # 0 => n \in 1..l)
  BY DEF MaxPasos
<1> QED BY <1>2, <1>3, <1>4, <1>6, <1>7, <1>8 DEF Terminado

\* What an answer to i leaves of the handlers.
LEMMA ContestaEnvios ==
  ASSUME PaginaTipo, EnviosTipo, ManosInv, NEW i \in DOMAIN envios, NEW efs, NEW falla,
         Contesta(i, efs, falla)
  PROVE  /\ envios' \in Seq(Envio) /\ Len(envios') = Len(envios) /\ DOMAIN envios' = DOMAIN envios
         /\ \A j \in DOMAIN envios :
              /\ envios'[j].op = envios[j].op /\ envios'[j].ficha = envios[j].ficha
              /\ envios'[j].vista = envios[j].vista /\ Mano(j)' = Mano(j)
              /\ j # i => envios'[j] = envios[j]
         /\ envios'[i].paso = IF Acaba(i, efs) THEN 0 ELSE envios[i].paso + 1
         /\ envios'[i].fallo = (envios[i].fallo \/ falla)
         /\ ~Acaba(i, efs) => envios[i].paso + 1 \in 1..Len(Mano(i).pasos)
         /\ ~Terminado(i) /\ (Terminado(i)' <=> Acaba(i, efs))
         /\ falla \in BOOLEAN
<1>1. /\ ~Terminado(i) /\ falla \in BOOLEAN
      /\ envios' = EnviosTras(i, efs, falla) /\ pagina' = pagina
  <2>1. ~Terminado(i) /\ falla \in BOOLEAN /\ Prosigue(i, efs, falla)
    BY DEF Contesta
  <2> QED BY <2>1, ProsigueHace
<1> DEFINE n == IF Acaba(i, efs) THEN 0 ELSE envios[i].paso + 1
           b == envios[i].fallo \/ falla
<1>2. /\ envios[i] \in Envio /\ Mano(i).pasos \in Seq(Pedido)
      /\ Len(Mano(i).pasos) \in 0..MaxPasos /\ envios[i].paso \in 1..Len(Mano(i).pasos)
  BY <1>1, ManoForma
<1>3. ~Acaba(i, efs) => envios[i].paso + 1 \in 1..Len(Mano(i).pasos)
  <2>1. Acaba(i, efs) \/ envios[i].paso # Len(Mano(i).pasos)
    BY DEF Acaba
  <2>2. \A l \in 0..MaxPasos : \A k \in 1..l : k # l => k + 1 \in 1..l
    BY DEF MaxPasos
  <2> QED BY <1>2, <2>1, <2>2
<1>4. n \in 0..MaxPasos /\ b \in BOOLEAN /\ (n = 0 <=> Acaba(i, efs))
  <2>1. \A l \in 0..MaxPasos : \A k \in 1..l : k \in 0..MaxPasos /\ k # 0
    BY DEF MaxPasos
  <2>2. 0 \in 0..MaxPasos
    BY DEF MaxPasos
  <2>3. CASE Acaba(i, efs)
    BY <2>2, <2>3
  <2>4. CASE ~Acaba(i, efs)
    BY <1>2, <1>3, <2>1, <2>4
  <2> QED BY <2>3, <2>4
<1>5. envios' = [envios EXCEPT ![i] = [envios[i] EXCEPT !.paso = n, !.fallo = b]]
  <2> HIDE DEF b
  <2>1. CASE Acaba(i, efs)
    BY <1>1, <2>1 DEF b, EnviosTras
  <2>2. CASE ~Acaba(i, efs)
    BY <1>1, <2>2 DEF b, EnviosTras
  <2> QED BY <2>1, <2>2
<1> DEFINE r == [envios[i] EXCEPT !.paso = n, !.fallo = b]
<1>6. r \in Envio /\ r.paso = n /\ r.fallo = b /\ r.op = envios[i].op
      /\ r.ficha = envios[i].ficha /\ r.vista = envios[i].vista
  <2> HIDE DEF n, b
  <2> QED BY <1>2, <1>4 DEF Envio
<1> HIDE DEF r
<1>7. /\ envios' \in Seq(Envio) /\ Len(envios') = Len(envios) /\ DOMAIN envios' = DOMAIN envios
      /\ envios'[i] = r /\ \A j \in DOMAIN envios \ {i} : envios'[j] = envios[j]
  <2>1. envios \in Seq(Envio) /\ envios' = [envios EXCEPT ![i] = r]
    BY <1>5 DEF EnviosTipo, r
  <2> QED BY <1>6, <2>1
<1>8. \A j \in DOMAIN envios :
        /\ envios'[j].op = envios[j].op /\ envios'[j].ficha = envios[j].ficha
        /\ envios'[j].vista = envios[j].vista
  BY <1>6, <1>7
<1>9. \A j \in DOMAIN envios : Mano(j)' = Mano(j)
  BY <1>1, <1>8, MismaPagina DEF Mano, Op
<1>10. envios'[i].paso = n /\ envios'[i].fallo = b
  BY <1>6, <1>7
<1>11. Terminado(i)' <=> Acaba(i, efs)
  BY <1>4, <1>10 DEF Terminado
<1> QED BY <1>1, <1>3, <1>7, <1>8, <1>9, <1>10, <1>11

\* ... and of the table.
LEMMA ContestaTabla ==
  ASSUME PaginaTipo, EnviosTipo, ManosInv, NEW i \in DOMAIN envios, NEW efs, NEW falla,
         Contesta(i, efs, falla)
  PROVE  LET c == <<i, envios[i].paso>>
         IN /\ tabla' \in Seq(Cambio) /\ tabla' \in {tabla, Append(tabla, c)}
            /\ Hechos' \in {Hechos, Hechos \cup {c}}
            /\ c \in Cambio /\ c \notin Hechos
            /\ c \in Hechos' => Puede(i) /\ Cambia(Mano(i).pasos[envios[i].paso])
            /\ ~falla /\ Cambia(Mano(i).pasos[envios[i].paso]) => c \in Hechos'
            /\ tropiezo' \in BOOLEAN /\ perdida' \in BOOLEAN
            /\ (tropiezo => tropiezo') /\ (perdida => perdida')
            /\ falla /\ (~tropiezo' \/ ~perdida') => tabla' = tabla /\ Hechos' = Hechos
<1> DEFINE c == <<i, envios[i].paso>>
<1>1. ~Terminado(i) /\ i \in 1..MaxEnvios /\ envios[i].paso \in 1..Len(Mano(i).pasos)
      /\ Len(Mano(i).pasos) \in 0..MaxPasos
  BY ManoForma DEF Contesta
<1>2. c \in Cambio
  <2>1. envios[i].paso \in 1..MaxPasos
    <3>1. \A l \in 0..MaxPasos : \A k \in 1..l : k \in 1..MaxPasos
      BY DEF MaxPasos
    <3> QED BY <1>1, <3>1
  <2> QED BY <1>1, <2>1 DEF Cambio
<1>3. c \notin Hechos
  <2> SUFFICES ASSUME c \in Hechos PROVE FALSE
    OBVIOUS
  <2>1. c[2] < envios[c[1]].paso
    BY <1>1 DEF ManosInv
  <2>2. c[1] = i /\ c[2] = envios[i].paso
    OBVIOUS
  <2>3. envios[i].paso \in Int
    BY <1>1
  <2> QED BY <2>1, <2>2, <2>3
<1>4. tabla \in Seq(Cambio) /\ tropiezo \in BOOLEAN /\ perdida \in BOOLEAN
  BY DEF EnviosTipo
<1>5. /\ Append(tabla, c) \in Seq(Cambio)
      /\ ToSet(Append(tabla, c)) = Hechos \cup {c}
  BY <1>2, <1>4, AppendConjunto DEF Hechos
<1>6. Peticion(i) = Mano(i).pasos[envios[i].paso]
  BY DEF Peticion, Mano
<1>7. ASSUME Anota(i)
      PROVE  tabla' = IF Cambia(Mano(i).pasos[envios[i].paso]) THEN Append(tabla, c) ELSE tabla
  BY <1>6, <1>7 DEF Anota, Cambia
<1>8. Hechos' = ToSet(tabla') /\ Hechos = ToSet(tabla)
  BY DEF Hechos
<1> HIDE DEF c
<1>9. CASE falla = FALSE /\ Puede(i) /\ Anota(i) /\ UNCHANGED <<tropiezo, perdida>>
  BY <1>2, <1>3, <1>4, <1>5, <1>7, <1>8, <1>9 DEF c
<1>10. CASE falla = TRUE /\ UNCHANGED <<tabla, tropiezo, perdida>>
  BY <1>2, <1>3, <1>4, <1>5, <1>8, <1>10 DEF c
<1>11. CASE /\ falla = TRUE /\ Puede(i) /\ Peticion(i).tipo # "nota" /\ Anota(i)
            /\ tropiezo' = TRUE /\ perdida' = TRUE
  <2>1. Cambia(Mano(i).pasos[envios[i].paso])
    BY <1>6, <1>11 DEF Cambia
  <2>2. tabla' = Append(tabla, c)
    BY <1>7, <1>11, <2>1
  <2> QED BY <1>2, <1>3, <1>4, <1>5, <1>8, <1>11, <2>1, <2>2 DEF c
<1> QED BY <1>9, <1>10, <1>11 DEF Contesta

\* The effects of an answer are those the handler gives that outcome.
LEMMA EfectosForma ==
  ASSUME NEW i, NEW efs, NEW falla, Contesta(i, efs, falla)
  PROVE  /\ efs = {"sigue"} \/ efs \in Fallos(Mano(i), envios[i].paso)
         /\ falla => efs \in Fallos(Mano(i), envios[i].paso)
         /\ ~falla => efs = {"sigue"}
         /\ EfectosDe(i, efs, falla) \in {efs, Mano(i).bien, Mano(i).aMedias}
BY DEF Contesta, EfectosDe, Fin

\* The effects of an answer are among those of the handler, or it only goes on.
LEMMA EfectosRespuesta ==
  ASSUME PaginaTipo, EnviosTipo, ManosInv, NEW i \in DOMAIN envios, NEW efs, NEW falla,
         Contesta(i, efs, falla)
  PROVE  EfectosDe(i, efs, falla) = {"sigue"} \/ EfectosDe(i, efs, falla) \in Respuestas(Mano(i))
<1>1. envios[i].paso \in DOMAIN Mano(i).pasos
  BY ManoForma DEF Contesta
<1>2. Fallos(Mano(i), envios[i].paso) \subseteq Respuestas(Mano(i))
  BY <1>1 DEF Respuestas
<1> QED BY <1>2, EfectosForma DEF Respuestas

\* What a handler does only when its changes are made, it does after them all.
LEMMA SoloAlCumplirCumple ==
  ASSUME PaginaTipo, EnviosTipo, ManosInv, NEW i \in DOMAIN envios, NEW efs, NEW falla,
         Contesta(i, efs, falla), NEW x, SoloAlCumplir(Mano(i), x), x # "sigue",
         x \in EfectosDe(i, efs, falla)
  PROVE  /\ Acaba(i, efs)
         /\ \A k \in DOMAIN Mano(i).pasos : Cambia(Mano(i).pasos[k]) => <<i, k>> \in Hechos'
<1> DEFINE n == envios[i].paso
<1>1. /\ ~Terminado(i) /\ n \in DOMAIN Mano(i).pasos
      /\ DOMAIN Mano(i).pasos = 1..Len(Mano(i).pasos) /\ Len(Mano(i).pasos) \in Nat
  <2>1. ~Terminado(i)
    BY DEF Contesta
  <2>2. Len(Mano(i).pasos) \in Nat
    <3>1. \A l \in 0..MaxPasos : l \in Nat
      BY DEF MaxPasos
    <3> QED BY <3>1, ManoForma
  <2> QED BY <2>1, <2>2, ManoForma
<1>2. /\ \A e \in Fallos(Mano(i), n) : x \notin e
      /\ PierdeCambios(Mano(i)) => x \notin Mano(i).aMedias
  BY <1>1 DEF SoloAlCumplir
<1>3. x \notin efs
  BY <1>2, EfectosForma
<1>4. Acaba(i, efs) /\ x \in Fin(i, efs, falla)
  BY <1>3 DEF EfectosDe
<1>5. "sigue" \in efs
  BY <1>3, <1>4 DEF Fin
<1>6. n = Len(Mano(i).pasos)
  BY <1>4, <1>5 DEF Acaba
<1>7. /\ ~falla /\ Cambia(Mano(i).pasos[n]) => <<i, n>> \in Hechos'
      /\ Hechos \subseteq Hechos'
  BY ContestaTabla
<1>8. \A k \in 1..(n - 1) : Cambia(Mano(i).pasos[k]) =>
        <<i, k>> \in Hechos \/ (envios[i].fallo /\ Sigue(Mano(i), k))
  BY <1>1 DEF ManosInv
<1>9. ASSUME NEW k \in DOMAIN Mano(i).pasos, Cambia(Mano(i).pasos[k])
      PROVE  <<i, k>> \in Hechos'
  <2>1. k = n \/ k \in 1..(n - 1)
    BY <1>1, <1>6
  <2>2. CASE ~(envios[i].fallo \/ falla)
    BY <1>7, <1>8, <1>9, <2>1, <2>2
  <2>3. CASE envios[i].fallo \/ falla
    <3>1. x \in Mano(i).aMedias
      BY <1>4, <1>5, <2>3 DEF Fin
    <3>2. ~PierdeCambios(Mano(i))
      BY <1>2, <3>1
    <3>3. ~Sigue(Mano(i), k)
      BY <1>9, <3>2 DEF PierdeCambios
    <3>4. CASE k = n
      <4>1. falla => Sigue(Mano(i), n)
        BY <1>5, EfectosForma DEF Sigue
      <4> QED BY <1>7, <1>9, <3>3, <3>4, <4>1
    <3>5. CASE k \in 1..(n - 1)
      BY <1>7, <1>8, <1>9, <3>3, <3>5
    <3> QED BY <2>1, <3>4, <3>5
  <2> QED BY <2>2, <2>3
<1> QED BY <1>4, <1>9

\* A handler that had its k-th request granted ends in one of its Finales.
LEMMA FinEnFinales ==
  ASSUME PaginaTipo, EnviosTipo, ManosInv, NEW i \in DOMAIN envios, NEW efs, NEW falla,
         Contesta(i, efs, falla), Acaba(i, efs), NEW k \in DOMAIN Mano(i).pasos,
         k < envios[i].paso \/ (k = envios[i].paso /\ ~falla)
  PROVE  Fin(i, efs, falla) \in Finales(Mano(i), k)
<1> DEFINE n == envios[i].paso
<1>1. ~Terminado(i) /\ n \in DOMAIN Mano(i).pasos
  <2>1. ~Terminado(i)
    BY DEF Contesta
  <2> QED BY <2>1, ManoForma
<1>2. CASE "sigue" \notin efs
  <2>1. falla /\ efs \in Fallos(Mano(i), n) /\ Fin(i, efs, falla) = efs
    <3>1. falla \in BOOLEAN
      BY ContestaEnvios
    <3> QED BY <1>2, <3>1, EfectosForma DEF Fin
  <2>2. k < n
    BY <2>1
  <2>3. n \in {x \in DOMAIN Mano(i).pasos : x > k}
    <3>1. DOMAIN Mano(i).pasos = 1..Len(Mano(i).pasos) /\ Len(Mano(i).pasos) \in 0..MaxPasos
      BY ManoForma
    <3>2. \A l \in 0..MaxPasos : \A x, y \in 1..l : x < y => y > x
      BY DEF MaxPasos
    <3> QED BY <1>1, <2>2, <3>1, <3>2
  <2>4. efs \in UNION {Fallos(Mano(i), j) : j \in {x \in DOMAIN Mano(i).pasos : x > k}}
    BY <2>1, <2>3
  <2> QED BY <1>2, <2>1, <2>4 DEF Finales
<1>3. CASE "sigue" \in efs
  <2>1. CASE ~(envios[i].fallo \/ falla)
    BY <1>3, <2>1 DEF Fin, Finales
  <2>2. CASE envios[i].fallo \/ falla
    <3>1. Fin(i, efs, falla) = Mano(i).aMedias
      BY <1>3, <2>2 DEF Fin
    <3>2. PuedeFallar(Mano(i))
      <4>1. CASE envios[i].fallo
        BY <1>1, <4>1 DEF ManosInv
      <4>2. CASE falla
        BY <1>1, <1>3, <4>2, EfectosForma DEF PuedeFallar, Sigue
      <4> QED BY <2>2, <4>1, <4>2
    <3> QED BY <3>1, <3>2 DEF Finales
  <2> QED BY <2>1, <2>2
<1> QED BY <1>2, <1>3

\* An answer leaves the requests well formed.
LEMMA ContestaManos ==
  ASSUME TypeInv, NEW i \in DOMAIN envios, NEW efs, NEW falla, Contesta(i, efs, falla)
  PROVE  ManosInv'
<1> DEFINE n == envios[i].paso
           m == Mano(i)
<1>1. PaginaTipo /\ PantallaTipo /\ EnviosTipo /\ ManosInv
  BY TiposJuntos DEF TypeInv
<1>2. ~Terminado(i) /\ n \in 1..Len(m.pasos) /\ DOMAIN m.pasos = 1..Len(m.pasos)
      /\ Len(m.pasos) \in Nat /\ i \in 1..MaxEnvios
  <2>1. ~Terminado(i)
    BY DEF Contesta
  <2>2. \A l \in 0..MaxPasos : l \in Nat
    BY DEF MaxPasos
  <2> QED BY <1>1, <2>1, <2>2, ManoForma
<1>3. /\ DOMAIN envios' = DOMAIN envios
      /\ \A j \in DOMAIN envios : Mano(j)' = Mano(j) /\ (j # i => envios'[j] = envios[j])
      /\ envios'[i].paso = IF Acaba(i, efs) THEN 0 ELSE n + 1
      /\ envios'[i].fallo = (envios[i].fallo \/ falla)
      /\ ~Acaba(i, efs) => n + 1 \in 1..Len(m.pasos)
      /\ Terminado(i)' <=> Acaba(i, efs)
  BY <1>1, ContestaEnvios
<1>4. /\ Hechos' \in {Hechos, Hechos \cup {<<i, n>>}}
      /\ <<i, n>> \in Hechos' => Cambia(m.pasos[n])
      /\ ~falla /\ Cambia(m.pasos[n]) => <<i, n>> \in Hechos'
  BY <1>1, ContestaTabla
<1>5. \A j \in DOMAIN envios \ {i} : Terminado(j)' <=> Terminado(j)
  BY <1>3 DEF Terminado
<1> HIDE DEF n, m
<1>6. ASSUME NEW j \in DOMAIN envios \ {i}
      PROVE  /\ envios'[j].paso <= Len(Mano(j)'.pasos)
             /\ ~Terminado(j)' =>
                  /\ envios'[j].fallo => PuedeFallar(Mano(j)')
                  /\ \A k \in 1..(envios'[j].paso - 1) : Cambia(Mano(j)'.pasos[k]) =>
                       <<j, k>> \in Hechos' \/ (envios'[j].fallo /\ Sigue(Mano(j)', k))
  BY <1>1, <1>3, <1>4, <1>5 DEF ManosInv
<1>7. envios'[i].paso <= Len(Mano(i)'.pasos)
  BY <1>2, <1>3 DEF m
<1>8. ASSUME ~Terminado(i)'
      PROVE  /\ envios'[i].fallo => PuedeFallar(Mano(i)')
             /\ \A k \in 1..(envios'[i].paso - 1) : Cambia(Mano(i)'.pasos[k]) =>
                  <<i, k>> \in Hechos' \/ (envios'[i].fallo /\ Sigue(Mano(i)', k))
  <2>1. ~Acaba(i, efs) /\ envios'[i].paso = n + 1 /\ Mano(i)' = m
    BY <1>3, <1>8 DEF m
  <2>2. "sigue" \in efs
    BY <2>1 DEF Acaba
  <2>3. falla => Sigue(m, n)
    BY <2>2, EfectosForma DEF Sigue, m, n
  <2>4. envios'[i].fallo => PuedeFallar(m)
    <3>1. envios[i].fallo => PuedeFallar(m)
      BY <1>1, <1>2 DEF ManosInv, m
    <3>2. falla => PuedeFallar(m)
      BY <1>2, <2>3 DEF PuedeFallar
    <3> QED BY <1>3, <3>1, <3>2
  <2>5. ASSUME NEW k \in 1..n, Cambia(m.pasos[k])
        PROVE  <<i, k>> \in Hechos' \/ (envios'[i].fallo /\ Sigue(m, k))
    <3>1. k = n \/ k \in 1..(n - 1)
      BY <1>2
    <3>2. CASE k = n
      BY <1>3, <1>4, <2>3, <2>5, <3>2
    <3>3. CASE k \in 1..(n - 1)
      <4>1. <<i, k>> \in Hechos \/ (envios[i].fallo /\ Sigue(m, k))
        BY <1>1, <1>2, <2>5, <3>3 DEF ManosInv, m, n
      <4> QED BY <1>3, <1>4, <4>1
    <3> QED BY <3>1, <3>2, <3>3
  <2>6. (n + 1) - 1 = n
    BY <1>2
  <2> QED BY <2>1, <2>4, <2>5, <2>6
<1>9. ASSUME NEW c \in Hechos'
      PROVE  /\ c[1] \in DOMAIN envios /\ c[2] \in DOMAIN Mano(c[1])'.pasos
             /\ Cambia(Mano(c[1])'.pasos[c[2]])
             /\ ~Terminado(c[1])' => c[2] < envios'[c[1]].paso
  <2>1. CASE c \in Hechos
    <3>1. /\ c[1] \in DOMAIN envios /\ c[2] \in DOMAIN Mano(c[1]).pasos
          /\ Cambia(Mano(c[1]).pasos[c[2]])
          /\ ~Terminado(c[1]) => c[2] < envios[c[1]].paso
      BY <1>1, <2>1 DEF ManosInv
    <3>2. Mano(c[1])' = Mano(c[1])
      BY <1>3, <3>1
    <3>3. CASE c[1] # i
      BY <1>3, <1>5, <3>1, <3>2, <3>3
    <3>4. CASE c[1] = i
      <4>1. c[2] < n /\ c[2] \in 1..Len(m.pasos)
        BY <1>2, <3>1, <3>4 DEF n, m
      <4>2. c[2] < n + 1
        BY <1>2, <4>1
      <4> QED BY <1>3, <3>1, <3>2, <3>4, <4>2
    <3> QED BY <3>3, <3>4
  <2>2. CASE c = <<i, n>>
    <3>1. c[1] = i /\ c[2] = n /\ n < n + 1
      BY <1>2, <2>2
    <3> QED BY <1>2, <1>3, <1>4, <1>9, <2>2, <3>1 DEF m
  <2> QED BY <1>4, <2>1, <2>2
<1>10. aviso' # NingunAviso => aviso' \in DOMAIN envios
  <2>1. aviso' = AvisoTras(EfectosDe(i, efs, falla), i)
    BY ProsigueHace DEF Contesta, Aplica
  <2>2. i \in 0..MaxEnvios
    BY <1>2, MaximosAssumption
  <2>3. aviso' \in {i, aviso, NingunAviso}
    BY <1>1, <2>1, <2>2, AvisoTrasTipo
  <2> QED BY <1>1, <2>3 DEF ManosInv
<1> QED BY <1>3, <1>6, <1>7, <1>8, <1>9, <1>10 DEF ManosInv

\* The types that depend on the page.
LEMMA TiposConPagina ==
  ASSUME pagina' = pagina
  PROVE  Envio' = Envio /\ Lugares' = Lugares
         /\ {Op(o).llave : o \in DOMAIN pag.ops}' = {Op(o).llave : o \in DOMAIN pag.ops}
<1>1. pag' = pag
  BY MismaPagina
<1> QED BY <1>1 DEF Envio, Lugares, Op

\* A handler raises the saving states of its page only.
LEMMA OcupaTipo ==
  ASSUME NEW o \in DOMAIN pag.ops, NEW k
  PROVE  Ocupa(o, k) \subseteq {Op(q).llave : q \in DOMAIN pag.ops} \ {Libre}
BY DEF Ocupa

\* An answer keeps the types.
LEMMA ContestaTipo ==
  ASSUME TypeInv, NEW i \in DOMAIN envios, NEW efs, NEW falla, Contesta(i, efs, falla)
  PROVE  TypeOK'
<1>1. PaginaTipo /\ PantallaTipo /\ EnviosTipo /\ ManosInv
  BY TiposJuntos DEF TypeInv
<1>2. /\ UNCHANGED <<pagina, conToken, filtro, giros>>
      /\ Aplica(EfectosDe(i, efs, falla), i, Mano(i).desde, Cambios(i),
                OcupadosTras(i, efs, falla))
  BY ProsigueHace DEF Contesta
<1>3. tabla' \in Seq(Cambio) /\ tropiezo' \in BOOLEAN /\ perdida' \in BOOLEAN
  BY <1>1, ContestaTabla
<1>4. PaginaTipo'
  BY <1>1, <1>2 DEF PaginaTipo, Descripciones
<1>5. i \in 0..MaxEnvios /\ envios[i] \in Envio
  BY <1>1, ManoForma, MaximosAssumption
<1>6. envios'[i].vista \in Filas
  BY <1>1, <1>5, ContestaEnvios DEF Envio
<1>7. Cambios(i) \in Filas
  <2>1. \A k \in DOMAIN tabla' : tabla'[k] \in Cambio
    BY <1>3
  <2> QED BY <2>1 DEF Cambios, ToSet, Filas
<1>8. PantallaTipo'
  BY <1>1, <1>2, <1>3, <1>5, <1>6, <1>7, AplicaTipo
<1>9. ocupado' \subseteq {Op(o).llave : o \in DOMAIN pag.ops} \ {Libre}
  <2>1. ocupado' = OcupadosTras(i, efs, falla)
    BY <1>2 DEF Aplica
  <2>2. ocupado \subseteq {Op(o).llave : o \in DOMAIN pag.ops} \ {Libre}
    BY <1>1 DEF EnviosTipo
  <2>3. envios[i].op \in DOMAIN pag.ops
    BY <1>1, ManoForma
  <2> QED BY <2>1, <2>2, <2>3, OcupaTipo DEF OcupadosTras
<1>10. EnviosTipo'
  <2>1. envios' \in Seq(Envio) /\ Len(envios') = Len(envios)
    BY <1>1, ContestaEnvios
  <2>2. envios' \in Seq(Envio')
    BY <1>2, <2>1, TiposConPagina
  <2>3. ocupado' \subseteq {Op(o).llave : o \in DOMAIN pag.ops}' \ {Libre}
    BY <1>2, <1>9, TiposConPagina
  <2>4. Len(envios') <= MaxEnvios
    BY <1>1, <2>1 DEF EnviosTipo
  <2> QED BY <1>3, <2>2, <2>3, <2>4 DEF EnviosTipo
<1> QED BY <1>4, <1>8, <1>10, TiposJuntos

(***************************************************************************)
(* A click                                                                 *)
(***************************************************************************)

\* The number of the next handler.
Nuevo == Len(envios) + 1

\* The handler of o starts, at its first request or, when it sends nothing, ended.
Empieza(o, efs) ==
  /\ efs \in {Op(o).antes, Op(o).sinToken}
  /\ Len(envios) < MaxEnvios /\ Op(o).llave \notin ocupado
  /\ EnPantalla /\ (Op(o).desde # Fila => ficha[Op(o).desde].abierta)
  /\ \E p \in {0, 1}, v \in {lista.cambios, {}} :
       /\ p = 1 => Op(o).pasos # <<>>
       /\ envios' = Append(envios, [op |-> o, ficha |-> NumDeFicha(o), fallo |-> FALSE,
                                    paso |-> p, vista |-> v])
       /\ Aplica(efs, Nuevo, Op(o).desde, {<<Nuevo, 1>>},
                 IF p = 1 THEN ocupado \cup Ocupa(o, 1) ELSE ocupado)
  /\ UNCHANGED <<pagina, conToken, tabla, filtro, giros, tropiezo, perdida>>

\* Every click on a handler is one of the starts Empieza names.
LEMMA DisparaHace ==
  ASSUME NEW o, Dispara(o)
  PROVE  \E efs : Empieza(o, efs)
<1> DEFINE sigue == conToken \/ "pide" \in Op(o).sinToken
           pide == sigue /\ Op(o).pasos # <<>>
           efs == IF sigue THEN Op(o).antes ELSE Op(o).sinToken
           v == IF "copia" \in Op(o).bien THEN lista.cambios ELSE {}
           n == Nuevo
<1>1. EnPantalla /\ (Op(o).desde # Fila => ficha[Op(o).desde].abierta)
  BY DEF Dispara, FilasEnPantalla
<1>2. /\ envios' = Append(envios, [op |-> o, ficha |-> NumDeFicha(o), fallo |-> FALSE,
                                  paso |-> IF pide THEN 1 ELSE 0, vista |-> v])
      /\ Aplica(efs, n, Op(o).desde, {<<n, 1>>},
                IF pide THEN ocupado \cup Ocupa(o, 1) ELSE ocupado)
      /\ UNCHANGED <<pagina, conToken, tabla, filtro, giros, tropiezo, perdida>>
      /\ Len(envios) < MaxEnvios /\ Op(o).llave \notin ocupado
  BY DEF Dispara, Nuevo
<1>3. efs \in {Op(o).antes, Op(o).sinToken} /\ v \in {lista.cambios, {}}
  OBVIOUS
<1>4. pide => Op(o).pasos # <<>>
  OBVIOUS
<1> HIDE DEF pide, efs, v
<1>5. \E p \in {0, 1} :
        /\ p = 1 => Op(o).pasos # <<>>
        /\ envios' = Append(envios, [op |-> o, ficha |-> NumDeFicha(o), fallo |-> FALSE,
                                     paso |-> p, vista |-> v])
        /\ Aplica(efs, n, Op(o).desde, {<<n, 1>>},
                  IF p = 1 THEN ocupado \cup Ocupa(o, 1) ELSE ocupado)
  <2>1. CASE pide
    BY <1>2, <1>4, <2>1
  <2>2. CASE ~pide
    BY <1>2, <2>2
  <2> QED BY <2>1, <2>2
<1>6. Empieza(o, efs)
  BY <1>1, <1>2, <1>3, <1>5 DEF Empieza
<1> QED BY <1>6

\* What a click leaves of the handlers.
LEMMA EmpiezaEnvios ==
  ASSUME PaginaTipo, PantallaTipo, EnviosTipo, NEW o \in DOMAIN pag.ops, NEW efs,
         Empieza(o, efs), NEW n, n = Nuevo
  PROVE  /\ n \in 1..MaxEnvios /\ n \notin DOMAIN envios
         /\ envios' \in Seq(Envio) /\ Len(envios') = n
         /\ DOMAIN envios' = DOMAIN envios \cup {n}
         /\ \A j \in DOMAIN envios : envios'[j] = envios[j] /\ Mano(j)' = Mano(j)
         /\ envios'[n].op = o /\ envios'[n].ficha = NumDeFicha(o) /\ ~envios'[n].fallo
         /\ envios'[n].paso \in {0, 1} /\ (envios'[n].paso = 1 => Op(o).pasos # <<>>)
         /\ Aplica(efs, n, Op(o).desde, {<<n, 1>>},
                   IF envios'[n].paso = 1 THEN ocupado \cup Ocupa(o, 1) ELSE ocupado)
         /\ envios'[n].vista \in Filas /\ Mano(n)' = Op(o)
<1>1. envios \in Seq(Envio) /\ Len(envios) \in Nat /\ DOMAIN envios = 1..Len(envios)
      /\ Len(envios) < MaxEnvios /\ MaxEnvios \in Nat /\ n = Len(envios) + 1
  BY SecuenciaLargo, MaximosAssumption DEF EnviosTipo, Empieza, Nuevo
<1>2. PICK p \in {0, 1}, v \in {lista.cambios, {}} :
       /\ p = 1 => Op(o).pasos # <<>>
       /\ envios' = Append(envios, [op |-> o, ficha |-> NumDeFicha(o), fallo |-> FALSE,
                                    paso |-> p, vista |-> v])
       /\ Aplica(efs, n, Op(o).desde, {<<n, 1>>},
                 IF p = 1 THEN ocupado \cup Ocupa(o, 1) ELSE ocupado)
  BY DEF Empieza
<1> DEFINE r == [op |-> o, ficha |-> NumDeFicha(o), fallo |-> FALSE,
                 paso |-> p, vista |-> v]
<1>3. v \in Filas
  BY DEF PantallaTipo, Lista, Filas
<1>4. NumDeFicha(o) \in Nat
  <2>1. Op(o).desde # Fila => Op(o).desde \in DOMAIN pag.fichas
    BY OpForma DEF PaginaTipo
  <2>2. \A f \in DOMAIN pag.fichas : ficha[f].num \in Nat
    BY DEF PantallaTipo, Ficha
  <2> QED BY <2>1, <2>2 DEF NumDeFicha
<1>5. p \in 0..MaxPasos
  BY DEF MaxPasos
<1>6. r \in Envio
  BY <1>3, <1>4, <1>5 DEF Envio
<1>7. r.op = o /\ r.ficha = NumDeFicha(o) /\ ~r.fallo
      /\ r.paso = p /\ r.vista = v
  OBVIOUS
<1>8. envios' = Append(envios, r)
  BY <1>2
<1> HIDE DEF r
<1>9. /\ envios' \in Seq(Envio) /\ Len(envios') = n
      /\ envios'[n] = r
      /\ \A j \in DOMAIN envios : envios'[j] = envios[j]
  BY <1>1, <1>6, <1>8
<1>10. DOMAIN envios' = DOMAIN envios \cup {n} /\ n \notin DOMAIN envios /\ n \in 1..MaxEnvios
  BY <1>1, <1>9
<1>11. \A x : Op(x)' = Op(x)
  BY MismaPagina DEF Empieza
<1>12. \A j \in DOMAIN envios : Mano(j)' = Mano(j)
  BY <1>9, <1>11 DEF Mano, Op
<1>13. Mano(n)' = Op(o)
  BY <1>7, <1>9, <1>11 DEF Mano, Op
<1>14. envios'[n].paso = p
  BY <1>7, <1>9
<1> QED BY <1>2, <1>3, <1>7, <1>9, <1>10, <1>12, <1>13, <1>14

\* A start leaves the requests well formed.
LEMMA EmpiezaManos ==
  ASSUME TypeInv, NEW o \in DOMAIN pag.ops, NEW efs, Empieza(o, efs)
  PROVE  ManosInv'
<1>1. PaginaTipo /\ PantallaTipo /\ EnviosTipo /\ ManosInv
  BY TiposJuntos DEF TypeInv
<1>2. PICK n : n = Nuevo
  OBVIOUS
<1>3. /\ n \in 1..MaxEnvios /\ n \notin DOMAIN envios /\ DOMAIN envios' = DOMAIN envios \cup {n}
      /\ \A j \in DOMAIN envios : envios'[j] = envios[j] /\ Mano(j)' = Mano(j)
      /\ ~envios'[n].fallo /\ envios'[n].paso \in {0, 1} /\ Mano(n)' = Op(o)
      /\ envios'[n].paso = 1 => Op(o).pasos # <<>>
      /\ aviso' = AvisoTras(efs, n)
  BY <1>1, <1>2, EmpiezaEnvios DEF Aplica
<1>4. tabla' = tabla
  BY DEF Empieza
<1>5. Hechos' = Hechos
  BY <1>4 DEF Hechos
<1>6. Op(o).pasos \in Seq(Pedido) /\ Len(Op(o).pasos) \in Nat
  BY <1>1, OpForma DEF PaginaTipo
<1>7. envios'[n].paso <= Len(Mano(n)'.pasos)
  <2>1. envios'[n].paso = 1 => Len(Op(o).pasos) # 0
    BY <1>3, <1>6
  <2> QED BY <1>3, <1>6, <2>1
<1>8. ~Terminado(n)' => /\ envios'[n].fallo => PuedeFallar(Mano(n)')
                        /\ \A k \in 1..(envios'[n].paso - 1) : FALSE
  BY <1>3 DEF Terminado
<1>9. ASSUME NEW j \in DOMAIN envios
      PROVE  /\ envios'[j].paso <= Len(Mano(j)'.pasos)
             /\ ~Terminado(j)' =>
                  /\ envios'[j].fallo => PuedeFallar(Mano(j)')
                  /\ \A k \in 1..(envios'[j].paso - 1) : Cambia(Mano(j)'.pasos[k]) =>
                       <<j, k>> \in Hechos' \/ (envios'[j].fallo /\ Sigue(Mano(j)', k))
  BY <1>1, <1>3, <1>5 DEF ManosInv, Terminado
<1>10. ASSUME NEW c \in Hechos'
       PROVE  /\ c[1] \in DOMAIN envios' /\ c[2] \in DOMAIN Mano(c[1])'.pasos
              /\ Cambia(Mano(c[1])'.pasos[c[2]])
              /\ ~Terminado(c[1])' => c[2] < envios'[c[1]].paso
  <2>1. /\ c[1] \in DOMAIN envios /\ c[2] \in DOMAIN Mano(c[1]).pasos
        /\ Cambia(Mano(c[1]).pasos[c[2]])
        /\ ~Terminado(c[1]) => c[2] < envios[c[1]].paso
    BY <1>1, <1>5, <1>10 DEF ManosInv
  <2> QED BY <1>3, <2>1 DEF Terminado
<1>11. aviso' # NingunAviso => aviso' \in DOMAIN envios'
  <2>1. n \in 0..MaxEnvios
    BY <1>3, MaximosAssumption
  <2>2. aviso' \in {n, aviso, NingunAviso}
    BY <1>1, <1>3, <2>1, AvisoTrasTipo
  <2> QED BY <1>1, <1>3, <2>2 DEF ManosInv
<1> QED BY <1>3, <1>7, <1>8, <1>9, <1>10, <1>11 DEF ManosInv

\* A start keeps the types.
LEMMA EmpiezaTipo ==
  ASSUME TypeInv, NEW o \in DOMAIN pag.ops, NEW efs, Empieza(o, efs)
  PROVE  TypeOK'
<1>1. PaginaTipo /\ PantallaTipo /\ EnviosTipo /\ ManosInv
  BY TiposJuntos DEF TypeInv
<1>2. PICK n : n = Nuevo
  OBVIOUS
<1>3. /\ n \in 1..MaxEnvios
      /\ envios' \in Seq(Envio) /\ Len(envios') = n /\ envios'[n].vista \in Filas
      /\ Aplica(efs, n, Op(o).desde, {<<n, 1>>},
                IF envios'[n].paso = 1 THEN ocupado \cup Ocupa(o, 1) ELSE ocupado)
  BY <1>1, <1>2, EmpiezaEnvios
<1>4. /\ UNCHANGED <<pagina, conToken, tabla, filtro, giros, tropiezo, perdida>>
  BY DEF Empieza
<1>5. PaginaTipo'
  BY <1>1, <1>4 DEF PaginaTipo, Descripciones
<1>6. {<<n, 1>>} \in Filas
  <2>1. <<n, 1>> \in Cambio
    BY <1>3 DEF Cambio, MaxPasos
  <2> QED BY <2>1 DEF Filas
<1>7. PantallaTipo'
  <2>1. tabla' \in Seq(Cambio) /\ n \in 0..MaxEnvios
    BY <1>1, <1>3, <1>4, MaximosAssumption DEF EnviosTipo
  <2> QED BY <1>1, <1>3, <1>4, <1>6, <2>1, AplicaTipo
<1>8. EnviosTipo'
  <2>1. envios' \in Seq(Envio')
    BY <1>3, <1>4, TiposConPagina
  <2>2. ocupado' \subseteq {Op(q).llave : q \in DOMAIN pag.ops} \ {Libre}
    BY <1>1, <1>3, OcupaTipo DEF EnviosTipo, Aplica
  <2>3. ocupado' \subseteq {Op(q).llave : q \in DOMAIN pag.ops}' \ {Libre}
    BY <1>4, <2>2, TiposConPagina
  <2>4. Len(envios') <= MaxEnvios
    BY <1>3, MaximosAssumption
  <2> QED BY <1>1, <1>4, <2>1, <2>3, <2>4 DEF EnviosTipo
<1> QED BY <1>5, <1>7, <1>8, TiposJuntos

(***************************************************************************)
(* The other steps                                                         *)
(***************************************************************************)

\* A step that neither touches the handlers nor closes a form.
Mira ==
  /\ UNCHANGED <<pagina, conToken, tabla, envios, ocupado, perdida>>
  /\ PaginaTipo' /\ PantallaTipo' /\ tropiezo' \in BOOLEAN
  /\ aviso' \in {aviso, NingunAviso}
  /\ fuera => fuera'
  /\ \A f \in DOMAIN pag.fichas : ficha'[f].num = ficha[f].num

\* The readings left when one arrives.
LEMMA QuedanTipo ==
  ASSUME PantallaTipo, NEW j \in DOMAIN lecturas
  PROVE  /\ Quedan(j) \in Seq(Lectura) /\ Len(Quedan(j)) = Len(lecturas) - 1
         /\ \A k \in 1..(Len(lecturas) - 1) :
              LET r == lecturas[IF k < j THEN k ELSE k + 1]
              IN Quedan(j)[k] = [filtro |-> r.filtro, desde |-> r.desde,
                                 vieja |-> r.vieja \/ k < j]
<1> DEFINE s == [k \in DOMAIN lecturas |-> [lecturas[k] EXCEPT !.vieja = @ \/ k < j]]
           r(k) == [filtro |-> lecturas[k].filtro, desde |-> lecturas[k].desde,
                    vieja |-> lecturas[k].vieja \/ k < j]
<1>1. /\ lecturas \in Seq(Lectura) /\ Len(lecturas) \in Nat /\ DOMAIN lecturas = 1..Len(lecturas)
      /\ j \in 1..Len(lecturas)
  BY SecuenciaLargo DEF PantallaTipo
<1>2. ASSUME NEW k \in DOMAIN lecturas
      PROVE  r(k) \in Lectura /\ [lecturas[k] EXCEPT !.vieja = @ \/ k < j] = r(k)
  <2>1. lecturas[k] \in Lectura
    BY <1>1
  <2> DEFINE b == lecturas[k].vieja \/ k < j
  <2>2. b \in BOOLEAN
    OBVIOUS
  <2> HIDE DEF b
  <2>3. [lecturas[k] EXCEPT !.vieja = b]
          = [filtro |-> lecturas[k].filtro, desde |-> lecturas[k].desde, vieja |-> b]
        /\ [filtro |-> lecturas[k].filtro, desde |-> lecturas[k].desde, vieja |-> b] \in Lectura
    BY <2>1, <2>2 DEF Lectura
  <2> QED BY <2>3 DEF b
<1>3. s = [k \in 1..Len(lecturas) |-> r(k)]
  BY <1>1, <1>2
<1> HIDE DEF r
<1>4. s \in Seq(Lectura) /\ Len(s) = Len(lecturas) /\ j \in DOMAIN s
      /\ \A k \in 1..Len(lecturas) : s[k] = r(k)
  BY <1>1, <1>2, <1>3
<1>5. Quedan(j) = RemoveAt(s, j)
  BY DEF Quedan
<1> HIDE DEF s
<1>6. /\ Quedan(j) \in Seq(Lectura) /\ Len(Quedan(j)) = Len(lecturas) - 1
      /\ \A k \in 1..(Len(lecturas) - 1) : Quedan(j)[k] = s[IF k < j THEN k ELSE k + 1]
  BY <1>4, <1>5, QuitaUno
<1>7. ASSUME NEW k \in 1..(Len(lecturas) - 1)
      PROVE  /\ (IF k < j THEN k ELSE k + 1) \in 1..Len(lecturas)
             /\ (IF k < j THEN k ELSE k + 1) < j <=> k < j
  BY <1>1
<1> QED BY <1>4, <1>6, <1>7 DEF r

\* An arriving list only changes what the page shows.
LEMMA RecibeListaMira ==
  ASSUME TypeInv, NEW j \in DOMAIN lecturas, RecibeLista(j)
  PROVE  Mira
<1>1. PaginaTipo /\ PantallaTipo /\ EnviosTipo
  BY TiposJuntos DEF TypeInv
<1>2. PICK n \in lecturas[j].desde .. Len(tabla) :
        /\ lista' = [filtro |-> lecturas[j].filtro, cambios |-> ToSet(SubSeq(tabla, 1, n)),
                     leida |-> TRUE]
        /\ tropiezo' = (\/ Retrocede(j, ToSet(SubSeq(tabla, 1, n)))
                        \/ tropiezo /\ ~Repara(j, ToSet(SubSeq(tabla, 1, n))))
  BY DEF RecibeLista
<1>3. /\ lecturas' = Quedan(j)
      /\ cargando' = (cargando /\ "apaga" \notin pag.carga.bien)
      /\ UNCHANGED <<pagina, conToken, tabla, filtro, giros, ficha, envios, ocupado,
                     aviso, fuera, perdida>>
  BY DEF RecibeLista
<1>4. lecturas[j] \in Lectura /\ tabla \in Seq(Cambio) /\ Len(tabla) \in Nat
  BY <1>1 DEF PantallaTipo, EnviosTipo
<1>5. n \in Nat /\ n <= Len(tabla)
  BY <1>4 DEF Lectura
<1>6. ToSet(SubSeq(tabla, 1, n)) \in Filas
  <2>1. SubSeq(tabla, 1, n) \in Seq(Cambio)
    BY <1>4, <1>5
  <2>2. \A k \in DOMAIN SubSeq(tabla, 1, n) : SubSeq(tabla, 1, n)[k] \in Cambio
    BY <2>1
  <2> QED BY <2>2 DEF ToSet, Filas
<1>7. lista' \in Lista
  BY <1>2, <1>4, <1>6 DEF Lista, Lectura
<1>8. Quedan(j) \in Seq(Lectura)
  BY <1>1, QuedanTipo
<1>9. pag' = pag
  BY <1>3, MismaPagina
<1>10. PantallaTipo'
  BY <1>1, <1>3, <1>7, <1>8, <1>9 DEF PantallaTipo
<1>11. PaginaTipo'
  BY <1>1, <1>3 DEF PaginaTipo, Descripciones
<1>12. tropiezo' \in BOOLEAN
  BY <1>2
<1> QED BY <1>3, <1>10, <1>11, <1>12 DEF Mira

\* So does a failed one.
LEMMA FallaListaMira ==
  ASSUME TypeInv, NEW j \in DOMAIN lecturas, FallaLista(j)
  PROVE  Mira
<1>1. PaginaTipo /\ PantallaTipo /\ EnviosTipo
  BY TiposJuntos DEF TypeInv
<1>2. PICK efs \in {pag.carga.rechazo, pag.carga.caida} :
        /\ lista' = IF "vacia" \in efs THEN [lista EXCEPT !.cambios = {}] ELSE lista
        /\ cargando' = (cargando /\ "apaga" \notin efs)
        /\ fuera' = (fuera \/ "sale" \in efs)
  BY DEF FallaLista
<1>3. /\ lecturas' = Quedan(j) /\ tropiezo' = TRUE
      /\ UNCHANGED <<pagina, conToken, tabla, filtro, giros, ficha, envios, ocupado,
                     aviso, perdida>>
  BY DEF FallaLista
<1>4. lista' \in Lista
  <2>1. lista \in Lista
    BY <1>1 DEF PantallaTipo
  <2>2. [lista EXCEPT !.cambios = {}] \in Lista
    BY <2>1 DEF Lista, Filas
  <2> QED BY <1>2, <2>1, <2>2
<1>5. Quedan(j) \in Seq(Lectura)
  BY <1>1, QuedanTipo
<1>6. pag' = pag
  BY <1>3, MismaPagina
<1>7. PantallaTipo'
  BY <1>1, <1>2, <1>3, <1>4, <1>5, <1>6 DEF PantallaTipo
<1>8. PaginaTipo'
  BY <1>1, <1>3 DEF PaginaTipo, Descripciones
<1>9. fuera => fuera'
  BY <1>2
<1> QED BY <1>3, <1>7, <1>8, <1>9 DEF Mira

\* So does a change of filter.
LEMMA CambiaFiltroMira ==
  ASSUME TypeInv, CambiaFiltro
  PROVE  Mira
<1>1. PaginaTipo /\ PantallaTipo /\ EnviosTipo
  BY TiposJuntos DEF TypeInv
<1>2. /\ giros < MaxGiros /\ filtro' = 1 - filtro /\ giros' = giros + 1
      /\ lecturas' \in {lecturas, Pedidas(1 - filtro, Len(tabla))} /\ cargando' \in BOOLEAN
      /\ UNCHANGED <<pagina, conToken, tabla, lista, ficha, envios, ocupado, aviso, fuera,
                     tropiezo, perdida>>
  <2>1. cargando \in BOOLEAN
    BY <1>1 DEF PantallaTipo
  <2> QED BY <2>1 DEF CambiaFiltro
<1>3. MaxGiros \in Nat
  BY MaximosAssumption
<1>4. PaginaTipo'
  BY <1>1, <1>2, <1>3 DEF PaginaTipo, Descripciones
<1>5. lecturas' \in Seq(Lectura)
  <2>1. 1 - filtro \in {0, 1} /\ Len(tabla) \in Nat
    BY <1>1 DEF PaginaTipo, EnviosTipo
  <2> QED BY <1>1, <1>2, <2>1, PedidasTipo DEF PantallaTipo
<1>6. pag' = pag
  BY <1>2, MismaPagina
<1>7. PantallaTipo'
  BY <1>1, <1>2, <1>5, <1>6 DEF PantallaTipo
<1> QED BY <1>1, <1>2, <1>4, <1>7 DEF Mira, EnviosTipo

\* So does opening a dialog.
LEMMA AbreFichaMira ==
  ASSUME TypeInv, NEW f \in DOMAIN pag.fichas, AbreFicha(f)
  PROVE  Mira
<1>1. PaginaTipo /\ PantallaTipo /\ EnviosTipo
  BY TiposJuntos DEF TypeInv
<1>2. /\ UNCHANGED <<pagina, conToken, tabla, filtro, giros, envios, tropiezo, perdida>>
      /\ UNCHANGED <<lista, cargando, ocupado, fuera>>
      /\ ficha' = [ficha EXCEPT ![f].abierta = TRUE]
      /\ aviso' = AvisoTras(pag.alAbrir, 0)
      /\ lecturas' \in {lecturas, Pedidas(filtro, Len(tabla))}
  BY DEF AbreFicha
<1>3. lecturas' \in Seq(Lectura)
  <2>1. Len(tabla) \in Nat /\ filtro \in {0, 1} /\ lecturas \in Seq(Lectura)
    BY <1>1 DEF PantallaTipo, PaginaTipo, EnviosTipo
  <2> QED BY <1>2, <2>1, PedidasTipo
<1>4. aviso' \in 0..MaxEnvios /\ aviso' \in {aviso, NingunAviso}
  <2>1. 0 \in 0..MaxEnvios
    BY MaximosAssumption
  <2> QED BY <1>1, <1>2, <2>1, AvisoTrasTipo DEF NingunAviso
<1>5. ficha' \in [DOMAIN pag.fichas -> Ficha]
      /\ \A g \in DOMAIN pag.fichas : ficha'[g].num = ficha[g].num
  <2>1. ficha \in [DOMAIN pag.fichas -> Ficha]
    BY <1>1 DEF PantallaTipo
  <2>2. /\ [ficha[f] EXCEPT !.abierta = TRUE] \in Ficha
        /\ [ficha[f] EXCEPT !.abierta = TRUE].num = ficha[f].num
    BY <2>1 DEF Ficha
  <2>3. ficha' = [ficha EXCEPT ![f] = [ficha[f] EXCEPT !.abierta = TRUE]]
    BY <1>2
  <2> QED BY <2>1, <2>2, <2>3
<1>6. pag' = pag
  BY <1>2, MismaPagina
<1>7. PantallaTipo'
  BY <1>1, <1>2, <1>3, <1>4, <1>5, <1>6 DEF PantallaTipo
<1>8. PaginaTipo'
  BY <1>1, <1>2 DEF PaginaTipo, Descripciones
<1> QED BY <1>1, <1>2, <1>4, <1>5, <1>7, <1>8 DEF Mira, EnviosTipo

\* So does a notice that expires.
LEMMA CaducaAvisoMira ==
  ASSUME TypeInv, CaducaAviso
  PROVE  Mira
<1>1. PaginaTipo /\ PantallaTipo /\ EnviosTipo
  BY TiposJuntos DEF TypeInv
<1>2. /\ UNCHANGED <<pagina, conToken, tabla, filtro, giros, envios, ficha, lista, ocupado,
                     fuera, tropiezo, perdida, cargando>>
      /\ aviso' = NingunAviso
      /\ lecturas' \in {lecturas, Pedidas(filtro, Len(tabla))}
  BY DEF CaducaAviso
<1>3. lecturas' \in Seq(Lectura)
  <2>1. Len(tabla) \in Nat /\ filtro \in {0, 1} /\ lecturas \in Seq(Lectura)
    BY <1>1 DEF PantallaTipo, PaginaTipo, EnviosTipo
  <2> QED BY <1>2, <2>1, PedidasTipo
<1>4. aviso' \in 0..MaxEnvios
  BY <1>2, MaximosAssumption DEF NingunAviso
<1>5. pag' = pag
  BY <1>2, MismaPagina
<1>6. PantallaTipo'
  BY <1>1, <1>2, <1>3, <1>4, <1>5 DEF PantallaTipo
<1>7. PaginaTipo'
  BY <1>1, <1>2 DEF PaginaTipo, Descripciones
<1> QED BY <1>1, <1>2, <1>6, <1>7 DEF Mira, EnviosTipo

\* What a cancel does.
LEMMA CierraFichaTipo ==
  ASSUME TypeInv, NEW f \in DOMAIN pag.fichas, CierraFicha(f)
  PROVE  /\ UNCHANGED <<pagina, conToken, tabla, envios, aviso, fuera, tropiezo, perdida>>
         /\ PaginaTipo' /\ PantallaTipo' /\ ocupado' = ocupado \ Muertas(f)
         /\ \A g \in DOMAIN pag.fichas :
              ficha'[g].num = IF g = f THEN ficha[g].num + 1 ELSE ficha[g].num
         /\ UNCHANGED <<lista, cargando, lecturas, filtro>>
         /\ \/ pag.fichas[f] \in {"modal", "enlinea", "montada"}
            \/ pag.fichas[f] = "bloqueada" /\ ocupado \cap LlavesDe(f) = {}
         /\ \A g \in DOMAIN pag.fichas \ {f} : ficha'[g] = ficha[g]
<1>1. PaginaTipo /\ PantallaTipo /\ EnviosTipo
  BY TiposJuntos DEF TypeInv
<1>2. /\ UNCHANGED <<pagina, conToken, tabla, lista, cargando, lecturas, filtro, giros,
                     envios, aviso, fuera, tropiezo, perdida>>
      /\ ocupado' = ocupado \ Muertas(f)
      /\ ficha' = [ficha EXCEPT ![f] = Cerrada(f)]
      /\ \/ pag.fichas[f] \in {"modal", "enlinea", "montada"}
         \/ pag.fichas[f] = "bloqueada" /\ ocupado \cap LlavesDe(f) = {}
  BY DEF CierraFicha
<1>3. /\ ficha' \in [DOMAIN pag.fichas -> Ficha]
      /\ \A g \in DOMAIN pag.fichas :
           ficha'[g].num = IF g = f THEN ficha[g].num + 1 ELSE ficha[g].num
      /\ \A g \in DOMAIN pag.fichas \ {f} : ficha'[g] = ficha[g]
  <2>1. Cerrada(f) \in Ficha /\ Cerrada(f).num = ficha[f].num + 1
    BY <1>1, CerradaTipo
  <2>2. ficha \in [DOMAIN pag.fichas -> Ficha]
    BY <1>1 DEF PantallaTipo
  <2> QED BY <1>2, <2>1, <2>2
<1>4. pag' = pag
  BY <1>2, MismaPagina
<1>5. PantallaTipo'
  BY <1>1, <1>2, <1>3, <1>4 DEF PantallaTipo
<1>6. PaginaTipo'
  BY <1>1, <1>2 DEF PaginaTipo, Descripciones
<1> QED BY <1>2, <1>3, <1>5, <1>6

(***************************************************************************)
(* The steps of a page and its types                                       *)
(***************************************************************************)

\* The four kinds of step the proofs tell apart.
LEMMA Pasos ==
  ASSUME TypeInv, [Next]_vars
  PROVE  \/ Mira
         \/ \E f \in DOMAIN pag.fichas : CierraFicha(f)
         \/ \E o \in DOMAIN pag.ops : \E efs : Empieza(o, efs)
         \/ \E i \in DOMAIN envios : \E efs, falla : Contesta(i, efs, falla)
<1>1. CASE UNCHANGED vars
  <2>1. PaginaTipo' /\ PantallaTipo' /\ UNCHANGED vars
    BY <1>1, TiposJuntos, MismaPagina
       DEF TypeInv, vars, PaginaTipo, PantallaTipo, Descripciones
  <2> QED BY <2>1, TiposJuntos DEF TypeInv, vars, Mira, EnviosTipo
<1>2. CASE Persona
  <2>1. CASE CambiaFiltro
    BY <2>1, CambiaFiltroMira
  <2>2. CASE CaducaAviso
    BY <2>2, CaducaAvisoMira
  <2>3. ASSUME NEW f \in DOMAIN pag.fichas, AbreFicha(f)
        PROVE  Mira
    BY <2>3, AbreFichaMira
  <2>4. ASSUME NEW o \in DOMAIN pag.ops, Dispara(o)
        PROVE  \E efs : Empieza(o, efs)
    BY <2>4, DisparaHace
  <2> QED BY <1>2, <2>1, <2>2, <2>3, <2>4 DEF Persona
<1>3. CASE ContestaLista
  BY <1>3, RecibeListaMira, FallaListaMira DEF ContestaLista
<1>4. ASSUME NEW i \in DOMAIN envios, Responde(i)
      PROVE  \E efs, falla : Contesta(i, efs, falla)
  BY <1>4, RespondeHace
<1> QED BY <1>1, <1>2, <1>3, <1>4 DEF Next

\* A step that touches no request and raises no notice.
LEMMA ManosIguales ==
  ASSUME ManosInv, UNCHANGED <<pagina, tabla, envios>>, aviso' \in {aviso, NingunAviso}
  PROVE  ManosInv'
<1>1. Hechos' = Hechos
  BY DEF Hechos
<1>2. \A j : Mano(j)' = Mano(j)
  BY MismaPagina DEF Mano, Op
<1>3. \A j : Terminado(j)' <=> Terminado(j)
  BY DEF Terminado
<1> QED BY <1>1, <1>2, <1>3 DEF ManosInv

\* A step that touches no request.
LEMMA EnviosIguales ==
  ASSUME EnviosTipo, UNCHANGED <<pagina, tabla, envios, perdida>>, tropiezo' \in BOOLEAN,
         ocupado' \subseteq ocupado
  PROVE  EnviosTipo'
<1>1. envios' \in Seq(Envio')
  BY TiposConPagina DEF EnviosTipo
<1>2. ocupado' \subseteq {Op(q).llave : q \in DOMAIN pag.ops}' \ {Libre}
  BY TiposConPagina DEF EnviosTipo
<1> QED BY <1>1, <1>2 DEF EnviosTipo

\* The page as it opens.
LEMMA InitTypeInv == Init => TypeInv
<1> SUFFICES ASSUME Init PROVE TypeInv
  OBVIOUS
<1>1. /\ pagina \in DOMAIN Descripciones /\ conToken \in BOOLEAN
      /\ tabla = <<>> /\ filtro = 0 /\ giros = 0 /\ envios = <<>>
      /\ lista = [filtro |-> 0, cambios |-> {}, leida |-> FALSE]
      /\ ficha = [f \in DOMAIN pag.fichas |-> [abierta |-> pag.fichas[f] = "fija", num |-> 0]]
      /\ ocupado = {} /\ aviso = NingunAviso
      /\ fuera \in BOOLEAN /\ cargando \in BOOLEAN
      /\ lecturas \in {<<[filtro |-> 0, desde |-> 0, vieja |-> FALSE]>>, <<>>}
      /\ tropiezo = FALSE /\ perdida = FALSE
  BY DEF Init
<1>2. 0 \in 0..MaxGiros /\ 0 \in 0..MaxEnvios /\ 0 <= MaxEnvios
  BY MaximosAssumption
<1>3. PaginaTipo
  BY <1>1, <1>2 DEF PaginaTipo
<1>4. PantallaTipo
  <2>1. lista \in Lista
    BY <1>1 DEF Lista, Filas
  <2>2. ficha \in [DOMAIN pag.fichas -> Ficha]
    BY <1>1 DEF Ficha
  <2>3. lecturas \in Seq(Lectura)
    <3> DEFINE r == [filtro |-> 0, desde |-> 0, vieja |-> FALSE]
    <3>1. r \in Lectura
      BY DEF Lectura
    <3>2. lecturas \in {<<r>>, <<>>}
      BY <1>1
    <3> HIDE DEF r
    <3>3. <<r>> \in Seq(Lectura)
      BY <3>1
    <3>4. <<>> \in Seq(Lectura)
      OBVIOUS
    <3> QED BY <3>2, <3>3, <3>4, Zenon
  <2> QED BY <1>1, <1>2, <2>1, <2>2, <2>3 DEF PantallaTipo, NingunAviso
<1>5. EnviosTipo
  <2>1. tabla \in Seq(Cambio) /\ envios \in Seq(Envio) /\ Len(envios) = 0
    BY <1>1
  <2> QED BY <1>1, <1>2, <2>1 DEF EnviosTipo
<1>6. ManosInv
  <2>1. DOMAIN envios = {} /\ Hechos = {}
    BY <1>1 DEF Hechos, ToSet
  <2> QED BY <1>1, <2>1 DEF ManosInv
<1> QED BY <1>3, <1>4, <1>5, <1>6, TiposJuntos DEF TypeInv

\* Every step keeps the types and the requests well formed.
LEMMA NextTypeInv == TypeInv /\ [Next]_vars => TypeInv'
<1> SUFFICES ASSUME TypeInv, [Next]_vars PROVE TypeInv'
  OBVIOUS
<1>1. PaginaTipo /\ PantallaTipo /\ EnviosTipo /\ ManosInv
  BY TiposJuntos DEF TypeInv
<1>2. CASE Mira
  <2>1. EnviosTipo'
    BY <1>1, <1>2, EnviosIguales DEF Mira
  <2>2. ManosInv'
    BY <1>1, <1>2, ManosIguales DEF Mira
  <2> QED BY <1>2, <2>1, <2>2, TiposJuntos DEF TypeInv, Mira
<1>3. ASSUME NEW f \in DOMAIN pag.fichas, CierraFicha(f)
      PROVE  TypeInv'
  <2>1. /\ UNCHANGED <<pagina, conToken, tabla, envios, aviso, fuera, tropiezo, perdida>>
        /\ PaginaTipo' /\ PantallaTipo' /\ ocupado' = ocupado \ Muertas(f)
    BY <1>3, CierraFichaTipo
  <2>2. EnviosTipo'
    <3>1. tropiezo \in BOOLEAN
      BY <1>1 DEF EnviosTipo
    <3> QED BY <1>1, <2>1, <3>1, EnviosIguales
  <2>3. ManosInv'
    BY <1>1, <2>1, ManosIguales
  <2> QED BY <2>1, <2>2, <2>3, TiposJuntos DEF TypeInv
<1>4. ASSUME NEW o \in DOMAIN pag.ops, NEW efs, Empieza(o, efs)
      PROVE  TypeInv'
  BY <1>4, EmpiezaTipo, EmpiezaManos DEF TypeInv
<1>5. ASSUME NEW i \in DOMAIN envios, NEW efs, NEW falla, Contesta(i, efs, falla)
      PROVE  TypeInv'
  BY <1>5, ContestaTipo, ContestaManos DEF TypeInv
<1> QED BY <1>2, <1>3, <1>4, <1>5, Pasos

\* The types of a page, and what its handlers have done so far.
THEOREM SpecTypeInv == Spec => []TypeInv
<1> QED BY InitTypeInv, NextTypeInv, PTL DEF Spec

\* Every variable of a page keeps its type, for every set of pages whose descriptions
\* are well formed and whatever the server answers.
THEOREM SpecTypeOK == Spec => []TypeOK
<1>1. TypeInv => TypeOK
  BY DEF TypeInv
<1> QED BY <1>1, SpecTypeInv, PTL

(***************************************************************************)
(* The message of success                                                  *)
(***************************************************************************)

\* What the server did stays done.
LEMMA CumplidoIgual ==
  ASSUME pagina' = pagina, NEW i, Mano(i)' = Mano(i), Hechos \subseteq Hechos',
         Cumplido(i, Hechos)
  PROVE  Cumplido(i, Hechos)'
<1>1. pag' = pag
  BY MismaPagina
<1> QED BY <1>1 DEF Cumplido, Mano

\* Every step keeps the notices true.
LEMMA NextAvisoVeraz == TypeInv /\ AvisoVeraz /\ [Next]_vars => AvisoVeraz'
<1> SUFFICES ASSUME TypeInv, AvisoVeraz, [Next]_vars, pagina' \notin Optimistas,
                    aviso' # NingunAviso
             PROVE  Cumplido(aviso, Hechos)'
  BY DEF AvisoVeraz
<1>1. PaginaTipo /\ PantallaTipo /\ EnviosTipo /\ ManosInv /\ TypeInv'
  BY TiposJuntos, NextTypeInv DEF TypeInv
<1>2. pagina' = pagina => AvisaAlCumplir(pag) /\ pagina \notin Optimistas
  BY <1>1, PaginaForma DEF PaginaTipo
<1>3. ASSUME UNCHANGED <<pagina, tabla, envios>>, aviso' \in {aviso, NingunAviso}
      PROVE  Cumplido(aviso, Hechos)'
  <2>1. aviso' = aviso /\ pagina \notin Optimistas
    BY <1>3
  <2>2. Cumplido(aviso, Hechos)
    BY <2>1 DEF AvisoVeraz
  <2>3. \A i : Op(envios[i].op)' = Op(envios[i].op)
    BY <1>3, MismaPagina DEF Op
  <2> QED BY <1>3, <2>1, <2>2, <2>3, MismaPagina DEF Cumplido, Hechos
<1>4. CASE Mira
  BY <1>3, <1>4 DEF Mira
<1>5. ASSUME NEW f \in DOMAIN pag.fichas, CierraFicha(f)
      PROVE  Cumplido(aviso, Hechos)'
  BY <1>3, <1>5, CierraFichaTipo
<1>6. ASSUME NEW o \in DOMAIN pag.ops, NEW efs, Empieza(o, efs)
      PROVE  Cumplido(aviso, Hechos)'
  <2>1. PICK n : n = Nuevo
    OBVIOUS
  <2>2. /\ n \in 1..MaxEnvios /\ DOMAIN envios' = DOMAIN envios \cup {n}
        /\ \A j \in DOMAIN envios : envios'[j] = envios[j] /\ Mano(j)' = Mano(j)
        /\ Mano(n)' = Op(o)
    BY <1>1, <1>6, <2>1, EmpiezaEnvios
  <2>3. n \in 0..MaxEnvios
    BY <2>2, MaximosAssumption
  <2>4. pagina' = pagina /\ Hechos' = Hechos /\ efs \in {Op(o).antes, Op(o).sinToken}
    BY <1>6 DEF Empieza, Hechos
  <2>5. aviso' = AvisoTras(efs, n)
    BY <1>1, <1>6, <2>1, EmpiezaEnvios DEF Aplica
  <2>6. CASE "exito" \in efs
    <3>1. aviso' = n
      BY <2>5, <2>6 DEF AvisoTras
    <3>2. /\ Op(o).pasos = <<>> /\ Op(o).desde # Fila
          /\ pag.fichas[Op(o).desde] \in {"resultado", "visor"}
      BY <1>2, <2>4, <2>6 DEF AvisaAlCumplir, Op
    <3>3. pag' = pag /\ DOMAIN Op(o).pasos = {}
      BY <2>4, <3>2, MismaPagina
    <3>4. Cumplido(n, Hechos)'
      BY <2>2, <3>2, <3>3 DEF Cumplido, Mano
    <3> QED BY <3>1, <3>4
  <2>7. CASE "exito" \notin efs
    <3>1. aviso' = aviso
      BY <1>1, <2>5, <2>7, <2>3, AvisoTrasTipo
    <3>2. aviso \in DOMAIN envios /\ Cumplido(aviso, Hechos)
      BY <1>1, <2>4, <3>1 DEF ManosInv, AvisoVeraz
    <3>3. PICK a : a = aviso
      OBVIOUS
    <3>4. Cumplido(a, Hechos)'
      BY <2>2, <2>4, <3>2, <3>3, CumplidoIgual
    <3> QED BY <3>1, <3>3, <3>4
  <2> QED BY <2>6, <2>7
<1>7. ASSUME NEW i \in DOMAIN envios, NEW efs, NEW falla, Contesta(i, efs, falla)
      PROVE  Cumplido(aviso, Hechos)'
  <2>1. pagina' = pagina /\ aviso' = AvisoTras(EfectosDe(i, efs, falla), i)
    BY <1>7, ProsigueHace DEF Contesta, Aplica
  <2>2. i \in 0..MaxEnvios /\ envios[i].op \in DOMAIN pag.ops /\ ~Terminado(i)
        /\ envios[i].paso \in DOMAIN Mano(i).pasos
    BY <1>1, <1>7, ManoForma, MaximosAssumption DEF Contesta
  <2>3. \A j \in DOMAIN envios : Mano(j)' = Mano(j)
    BY <1>1, <1>7, ContestaEnvios
  <2>4. Hechos \subseteq Hechos'
    BY <1>1, <1>7, ContestaTabla
  <2>5. CASE "exito" \in EfectosDe(i, efs, falla)
    <3>1. aviso' = i
      BY <2>1, <2>5 DEF AvisoTras
    <3>2. SoloAlCumplir(Mano(i), "exito")
      BY <1>2, <2>1, <2>2 DEF AvisaAlCumplir, Mano, Op
    <3>3. \A k \in DOMAIN Mano(i).pasos : Cambia(Mano(i).pasos[k]) => <<i, k>> \in Hechos'
      BY <1>1, <1>7, <2>5, <3>2, SoloAlCumplirCumple
    <3>4. Mano(i).pasos # <<>>
      BY <2>2
    <3>5. Cumplido(i, Hechos)'
      BY <2>3, <3>3, <3>4 DEF Cumplido, Mano, Cambia
    <3> QED BY <3>1, <3>5
  <2>6. CASE "exito" \notin EfectosDe(i, efs, falla)
    <3>1. aviso' = aviso
      BY <1>1, <2>1, <2>2, <2>6, AvisoTrasTipo
    <3>2. aviso \in DOMAIN envios /\ Cumplido(aviso, Hechos)
      BY <1>1, <2>1, <3>1 DEF ManosInv, AvisoVeraz
    <3>3. PICK a : a = aviso
      OBVIOUS
    <3>4. Cumplido(a, Hechos)'
      BY <2>1, <2>3, <2>4, <3>2, <3>3, CumplidoIgual
    <3> QED BY <3>1, <3>3, <3>4
  <2> QED BY <2>5, <2>6
<1> QED BY <1>4, <1>5, <1>6, <1>7, Pasos

\* A page that keeps the habit AvisaAlCumplir never announces the success of a handler
\* that did not get all its changes made, whatever was refused or lost on the way.
THEOREM SpecAvisoVeraz == Spec => []AvisoVeraz
<1>1. Init => AvisoVeraz
  BY DEF Init, AvisoVeraz
<1> QED BY <1>1, SpecTypeInv, NextAvisoVeraz, PTL DEF Spec

(***************************************************************************)
(* What no step undoes                                                     *)
(***************************************************************************)

\* What a start does to the dialogs.
LEMMA EmpiezaFichas ==
  ASSUME PaginaTipo, PantallaTipo, EnviosTipo, NEW o \in DOMAIN pag.ops, NEW efs,
         Empieza(o, efs)
  PROVE  /\ ficha' = FichasTras(efs, Op(o).desde)
         /\ fuera = FALSE /\ fuera' \in BOOLEAN
         /\ ocupado' \in {ocupado, ocupado \cup Ocupa(o, 1)}
<1>1. PICK n : n = Nuevo
  OBVIOUS
<1>2. Aplica(efs, n, Op(o).desde, {<<n, 1>>},
             IF envios'[n].paso = 1 THEN ocupado \cup Ocupa(o, 1) ELSE ocupado)
  BY <1>1, EmpiezaEnvios
<1>3. ~fuera
  BY DEF Empieza, EnPantalla
<1> QED BY <1>2, <1>3 DEF Aplica, PantallaTipo

\* What an answer does to them.
LEMMA ContestaFichas ==
  ASSUME NEW i, NEW efs, NEW falla, Contesta(i, efs, falla)
  PROVE  /\ ficha' = FichasTras(EfectosDe(i, efs, falla), Mano(i).desde)
         /\ fuera => fuera'
         /\ "sale" \in EfectosDe(i, efs, falla) => fuera'
         /\ ocupado' = OcupadosTras(i, efs, falla)
<1>1. Prosigue(i, efs, falla)
  BY DEF Contesta
<1> QED BY <1>1, ProsigueHace DEF Aplica

\* A step keeps the page, the handlers there are, what they are and that they ended,
\* the changes made, and lets the number of a form grow by one.
LEMMA Crece ==
  ASSUME TypeInv, [Next]_vars
  PROVE  /\ pagina' = pagina /\ (fuera => fuera') /\ (perdida => perdida')
         /\ \A j \in DOMAIN envios :
              /\ j \in DOMAIN envios' /\ Mano(j)' = Mano(j)
              /\ envios'[j].op = envios[j].op /\ envios'[j].ficha = envios[j].ficha
              /\ Terminado(j) => Terminado(j)'
         /\ \A f \in DOMAIN pag.fichas :
              ficha[f].num \in Nat /\ ficha'[f].num \in {ficha[f].num, ficha[f].num + 1}
         /\ Hechos \subseteq Hechos'
<1>1. PaginaTipo /\ PantallaTipo /\ EnviosTipo /\ ManosInv
  BY TiposJuntos DEF TypeInv
<1>2. \A f \in DOMAIN pag.fichas : ficha[f].num \in Nat
  BY <1>1 DEF PantallaTipo, Ficha
<1>3. ASSUME UNCHANGED <<pagina, tabla, envios>>
      PROVE  /\ \A j \in DOMAIN envios :
                  /\ j \in DOMAIN envios' /\ Mano(j)' = Mano(j)
                  /\ envios'[j].op = envios[j].op /\ envios'[j].ficha = envios[j].ficha
                  /\ Terminado(j) => Terminado(j)'
             /\ Hechos \subseteq Hechos'
  <2>1. \A o : Op(o)' = Op(o)
    BY <1>3, MismaPagina
  <2> QED BY <1>3, <2>1 DEF Mano, Op, Terminado, Hechos
<1>4. CASE Mira
  BY <1>2, <1>3, <1>4 DEF Mira
<1>5. ASSUME NEW f \in DOMAIN pag.fichas, CierraFicha(f)
      PROVE  /\ UNCHANGED <<pagina, tabla, envios, fuera, perdida, tropiezo>>
             /\ \A g \in DOMAIN pag.fichas : ficha'[g].num \in {ficha[g].num, ficha[g].num + 1}
  BY <1>5, CierraFichaTipo
<1>6. ASSUME NEW o \in DOMAIN pag.ops, NEW efs, Empieza(o, efs)
      PROVE  /\ UNCHANGED <<pagina, tabla, perdida, tropiezo>> /\ (fuera => fuera')
             /\ \A g \in DOMAIN pag.fichas : ficha'[g].num \in {ficha[g].num, ficha[g].num + 1}
             /\ \A j \in DOMAIN envios :
                  j \in DOMAIN envios' /\ Mano(j)' = Mano(j) /\ envios'[j] = envios[j]
  <2>1. PICK n : n = Nuevo
    OBVIOUS
  <2>2. \A j \in DOMAIN envios :
          j \in DOMAIN envios' /\ Mano(j)' = Mano(j) /\ envios'[j] = envios[j]
    BY <1>1, <1>6, <2>1, EmpiezaEnvios
  <2>3. ficha' = FichasTras(efs, Op(o).desde) /\ fuera = FALSE
    BY <1>1, <1>6, EmpiezaFichas
  <2>4. \A g \in DOMAIN pag.fichas : ficha'[g].num \in {ficha[g].num, ficha[g].num + 1}
    BY <1>1, <2>3, FichasTrasHace
  <2> QED BY <1>6, <2>2, <2>3, <2>4 DEF Empieza
<1>7. ASSUME NEW i \in DOMAIN envios, NEW efs, NEW falla, Contesta(i, efs, falla)
      PROVE  /\ pagina' = pagina /\ (fuera => fuera') /\ (perdida => perdida')
             /\ (tropiezo => tropiezo') /\ Hechos \subseteq Hechos'
             /\ \A g \in DOMAIN pag.fichas : ficha'[g].num \in {ficha[g].num, ficha[g].num + 1}
             /\ \A j \in DOMAIN envios :
                  /\ j \in DOMAIN envios' /\ Mano(j)' = Mano(j)
                  /\ envios'[j].op = envios[j].op /\ envios'[j].ficha = envios[j].ficha
                  /\ Terminado(j) => Terminado(j)'
  <2>1. pagina' = pagina
    BY <1>7, ProsigueHace DEF Contesta
  <2>2. ficha' = FichasTras(EfectosDe(i, efs, falla), Mano(i).desde) /\ (fuera => fuera')
    BY <1>7, ContestaFichas
  <2>3. \A g \in DOMAIN pag.fichas : ficha'[g].num \in {ficha[g].num, ficha[g].num + 1}
    BY <1>1, <2>2, FichasTrasHace
  <2>4. (perdida => perdida') /\ (tropiezo => tropiezo') /\ Hechos \subseteq Hechos'
    BY <1>1, <1>7, ContestaTabla
  <2>5. /\ DOMAIN envios' = DOMAIN envios
        /\ \A j \in DOMAIN envios : /\ Mano(j)' = Mano(j) /\ envios'[j].op = envios[j].op
                                    /\ envios'[j].ficha = envios[j].ficha
                                    /\ (j # i => envios'[j] = envios[j])
        /\ ~Terminado(i)
    BY <1>1, <1>7, ContestaEnvios
  <2>6. \A j \in DOMAIN envios : Terminado(j) => Terminado(j)'
    BY <2>5 DEF Terminado
  <2> QED BY <2>1, <2>2, <2>3, <2>4, <2>5, <2>6
<1>8. CASE \E f \in DOMAIN pag.fichas : CierraFicha(f)
  BY <1>2, <1>3, <1>5, <1>8
<1>9. CASE \E o \in DOMAIN pag.ops : \E efs : Empieza(o, efs)
  <2>1. Hechos' = Hechos
    BY <1>6, <1>9 DEF Hechos
  <2> QED BY <1>2, <1>6, <1>9, <2>1 DEF Terminado
<1>10. CASE \E i \in DOMAIN envios : \E efs, falla : Contesta(i, efs, falla)
  BY <1>2, <1>7, <1>10
<1> QED BY <1>4, <1>8, <1>9, <1>10, Pasos

==============================================================================
