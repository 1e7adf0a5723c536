------------------------- MODULE PaginaFichas_proofs -------------------------
(***************************************************************************)
(* Proofs about Pagina: a saving state that is set before the first        *)
(* request keeps the handlers of its controls apart, and so a form filled  *)
(* once makes one row and is closed only by the handler it was sent from.  *)
(***************************************************************************)
EXTENDS Pagina_proofs

\* The handler i runs, and the form that holds its saving state is still the one
\* it was sent from.
Corre(i) ==
  /\ ~Terminado(i)
  /\ Montada(pag, Mano(i).desde) => envios[i].ficha = ficha[Mano(i).desde].num

\* A form is numbered upwards; the saving state of a handler that runs is on, if it
\* is exclusive, and no other handler that runs has it.
LlavesInv ==
  /\ \A i \in DOMAIN envios :
       Mano(i).desde # Fila => envios[i].ficha <= ficha[Mano(i).desde].num
  /\ \A i \in DOMAIN envios : Exclusiva(pag, Mano(i).llave) /\ Corre(i) =>
       Mano(i).llave \in ocupado
  /\ \A i, j \in DOMAIN envios :
       /\ Exclusiva(pag, Mano(i).llave) /\ Mano(i).llave = Mano(j).llave
       /\ Corre(i) /\ Corre(j)
       => i = j

FichasInv == TypeInv /\ LlavesInv

(***************************************************************************)
(* The forms and the saving states                                         *)
(***************************************************************************)

\* A request knows the opening of the dialog it came from.
LEMMA FichaDe ==
  ASSUME FichasInv, NEW i \in DOMAIN envios
  PROVE  /\ envios[i].op \in DOMAIN pag.ops /\ Mano(i) = pag.ops[envios[i].op]
         /\ envios[i].ficha \in Nat /\ Mano(i).desde \in DOMAIN pag.fichas \cup {Fila}
         /\ Mano(i).desde # Fila => Mano(i).desde \in DOMAIN pag.fichas
         /\ Fila \notin DOMAIN pag.fichas
         /\ Mano(i).desde # Fila => /\ ficha[Mano(i).desde].num \in Nat
                                    /\ envios[i].ficha <= ficha[Mano(i).desde].num
<1>1. PaginaTipo /\ PantallaTipo /\ EnviosTipo /\ ManosInv
  BY TiposJuntos DEF FichasInv, TypeInv
<1>2. /\ envios[i] \in Envio /\ envios[i].op \in DOMAIN pag.ops
      /\ Mano(i).desde \in Lugares /\ (Mano(i).desde # Fila => Mano(i).desde \in DOMAIN pag.fichas)
  BY <1>1, ManoForma
<1>3. Fila \notin DOMAIN pag.fichas
  BY <1>1, PaginaForma DEF PaginaTipo
<1>4. Mano(i).desde # Fila => ficha[Mano(i).desde].num \in Nat
  BY <1>1, <1>2 DEF PantallaTipo, Ficha
<1>5. Mano(i).desde # Fila => envios[i].ficha <= ficha[Mano(i).desde].num
  BY DEF FichasInv, LlavesInv
<1> QED BY <1>2, <1>3, <1>4, <1>5 DEF Lugares, Envio, Mano, Op

\* A handler that runs after a step ran before it, with the same form, whose number
\* did not change if it holds the saving state.
LEMMA CorriaAntes ==
  ASSUME FichasInv, [Next]_vars, NEW j \in DOMAIN envios, Corre(j)'
  PROVE  /\ Corre(j)
         /\ Montada(pag, Mano(j).desde) => ficha'[Mano(j).desde].num = ficha[Mano(j).desde].num
<1>1. /\ pagina' = pagina /\ Mano(j)' = Mano(j) /\ envios'[j].ficha = envios[j].ficha
      /\ (Terminado(j) => Terminado(j)')
      /\ \A f \in DOMAIN pag.fichas :
           ficha[f].num \in Nat /\ ficha'[f].num \in {ficha[f].num, ficha[f].num + 1}
  BY Crece DEF FichasInv
<1>2. pag' = pag
  BY <1>1, MismaPagina
<1>3. ~Terminado(j) /\ (Montada(pag, Mano(j).desde) => envios[j].ficha = ficha'[Mano(j).desde].num)
  BY <1>1, <1>2 DEF Corre
<1>4. ASSUME Montada(pag, Mano(j).desde)
      PROVE  /\ ficha'[Mano(j).desde].num = ficha[Mano(j).desde].num
             /\ envios[j].ficha = ficha[Mano(j).desde].num
  <2>1. Mano(j).desde # Fila
    BY <1>4 DEF Montada
  <2>2. /\ Mano(j).desde \in DOMAIN pag.fichas /\ envios[j].ficha \in Nat
        /\ envios[j].ficha <= ficha[Mano(j).desde].num
    BY <2>1, FichaDe
  <2>3. envios[j].ficha = ficha'[Mano(j).desde].num
    BY <1>3, <1>4
  <2>4. \A a, b, c \in Nat : a <= b /\ c \in {b, b + 1} /\ a = c => a = b /\ c = b
    OBVIOUS
  <2> QED BY <1>1, <2>2, <2>3, <2>4
<1> QED BY <1>3, <1>4 DEF Corre

\* An exclusive saving state that dies with the form f is one of handlers of f.
LEMMA MuertaEsDeFicha ==
  ASSUME FichasInv, NEW j \in DOMAIN envios, Exclusiva(pag, Mano(j).llave),
         NEW f, Mano(j).llave \in Muertas(f)
  PROVE  Mano(j).desde = f /\ Montada(pag, f)
<1>1. f # Fila /\ pag.fichas[f] = "montada" /\ Mano(j).llave \in LlavesDe(f)
  BY DEF Muertas
<1>2. PICK o \in DOMAIN pag.ops : pag.ops[o].desde = f /\ pag.ops[o].llave = Mano(j).llave
  BY <1>1 DEF LlavesDe, Op
<1>3. envios[j].op \in DOMAIN pag.ops /\ pag.ops[envios[j].op] = Mano(j)
  BY FichaDe
<1>4. Montada(pag, f)
  BY <1>1 DEF Montada
<1> QED BY <1>2, <1>3, <1>4 DEF Exclusiva

\* A form that holds the saving states of its controls has some.
LEMMA MontadaTieneLlaves ==
  ASSUME FichasInv, NEW i \in DOMAIN envios, Montada(pag, Mano(i).desde)
  PROVE  Muertas(Mano(i).desde) # {}
<1>1. envios[i].op \in DOMAIN pag.ops /\ pag.ops[envios[i].op] = Mano(i)
  BY FichaDe
<1>2. Mano(i).llave \in LlavesDe(Mano(i).desde)
  BY <1>1 DEF LlavesDe, Op
<1> QED BY <1>2 DEF Montada, Muertas

\* A step that only looks keeps the saving states.
LEMMA MiraLlaves ==
  ASSUME FichasInv, Mira
  PROVE  LlavesInv'
<1>1. /\ UNCHANGED <<pagina, tabla, envios, ocupado>>
      /\ \A f \in DOMAIN pag.fichas : ficha'[f].num = ficha[f].num
  BY DEF Mira
<1>2. pag' = pag /\ \A j : Mano(j)' = Mano(j) /\ (Terminado(j)' <=> Terminado(j))
  BY <1>1, MismaPagina DEF Mano, Op, Terminado
<1>3. ASSUME NEW j \in DOMAIN envios
      PROVE  /\ Mano(j).desde # Fila => envios[j].ficha <= ficha'[Mano(j).desde].num
             /\ Corre(j)' <=> Corre(j)
  BY <1>1, <1>2, FichaDe DEF Corre, Montada
<1>4. LlavesInv
  BY DEF FichasInv
<1> QED BY <1>1, <1>2, <1>3, <1>4 DEF LlavesInv

\* Closing a dialog keeps them.
LEMMA CierraFichaLlaves ==
  ASSUME FichasInv, [Next]_vars, NEW f \in DOMAIN pag.fichas, CierraFicha(f)
  PROVE  LlavesInv'
<1>1. /\ UNCHANGED <<pagina, tabla, envios>> /\ ocupado' = ocupado \ Muertas(f)
      /\ \A g \in DOMAIN pag.fichas :
           ficha'[g].num = IF g = f THEN ficha[g].num + 1 ELSE ficha[g].num
  BY CierraFichaTipo DEF FichasInv
<1>2. pag' = pag /\ \A j : Mano(j)' = Mano(j) /\ (Terminado(j)' <=> Terminado(j))
  BY <1>1, MismaPagina DEF Mano, Op, Terminado
<1>3. LlavesInv
  BY DEF FichasInv
<1>4. ASSUME NEW j \in DOMAIN envios, Mano(j).desde # Fila
      PROVE  envios[j].ficha <= ficha'[Mano(j).desde].num
  <2>1. /\ Mano(j).desde \in DOMAIN pag.fichas /\ ficha[Mano(j).desde].num \in Nat
        /\ envios[j].ficha \in Nat /\ envios[j].ficha <= ficha[Mano(j).desde].num
    BY <1>4, FichaDe
  <2>2. ficha'[Mano(j).desde].num \in {ficha[Mano(j).desde].num, ficha[Mano(j).desde].num + 1}
    BY <1>1, <2>1
  <2> QED BY <2>1, <2>2
<1>5. ASSUME NEW j \in DOMAIN envios, Exclusiva(pag, Mano(j).llave), Corre(j)'
      PROVE  Mano(j).llave \in ocupado'
  <2>1. Corre(j) /\ (Montada(pag, Mano(j).desde) =>
                       ficha'[Mano(j).desde].num = ficha[Mano(j).desde].num)
    BY <1>5, CorriaAntes
  <2>2. Mano(j).llave \in ocupado
    BY <1>3, <1>5, <2>1 DEF LlavesInv
  <2>3. ASSUME Mano(j).llave \in Muertas(f)
        PROVE  FALSE
    <3>1. Mano(j).desde = f /\ Montada(pag, f)
      BY <1>5, <2>3, MuertaEsDeFicha
    <3>2. ficha'[f].num = ficha[f].num + 1 /\ ficha[f].num \in Nat
      BY <1>1, <3>1, FichaDe DEF Montada
    <3> QED BY <2>1, <3>1, <3>2
  <2> QED BY <1>1, <2>2, <2>3
<1>6. \A j \in DOMAIN envios : Corre(j)' => Corre(j)
  BY CorriaAntes
<1> QED BY <1>1, <1>2, <1>3, <1>4, <1>5, <1>6 DEF LlavesInv

\* A start raises its own.
LEMMA EmpiezaLlaves ==
  ASSUME FichasInv, [Next]_vars, NEW o \in DOMAIN pag.ops, NEW efs, Empieza(o, efs)
  PROVE  LlavesInv'
<1>1. PaginaTipo /\ PantallaTipo /\ EnviosTipo /\ ManosInv /\ LlavesInv
  BY TiposJuntos DEF FichasInv, TypeInv
<1>2. PICK n : n = Nuevo
  OBVIOUS
<1>3. /\ n \notin DOMAIN envios /\ DOMAIN envios' = DOMAIN envios \cup {n}
      /\ \A j \in DOMAIN envios : envios'[j] = envios[j] /\ Mano(j)' = Mano(j)
      /\ Mano(n)' = Op(o) /\ envios'[n].ficha = NumDeFicha(o)
  BY <1>1, <1>2, EmpiezaEnvios
<1>4. Aplica(efs, n, Op(o).desde, {<<n, 1>>},
             IF envios'[n].paso = 1 THEN ocupado \cup Ocupa(o, 1) ELSE ocupado)
      /\ envios'[n].paso \in {0, 1}
  BY <1>1, <1>2, EmpiezaEnvios
<1>5. /\ ocupado \subseteq ocupado'
      /\ envios'[n].paso = 1 => ocupado' = ocupado \cup Ocupa(o, 1)
  BY <1>4 DEF Aplica
<1>6. pagina' = pagina /\ Op(o).llave \notin ocupado
  BY DEF Empieza
<1>7. pag' = pag /\ Op(o) = pag.ops[o]
  BY <1>6, MismaPagina DEF Op
<1>8. \A f \in DOMAIN pag.fichas :
        ficha[f].num \in Nat /\ ficha'[f].num \in {ficha[f].num, ficha[f].num + 1}
  BY Crece DEF FichasInv
<1>9. ASSUME NEW j \in DOMAIN envios', Mano(j)'.desde # Fila
      PROVE  envios'[j].ficha <= ficha'[Mano(j)'.desde].num
  <2>1. CASE j \in DOMAIN envios
    <3>1. /\ Mano(j).desde \in DOMAIN pag.fichas /\ envios[j].ficha \in Nat
          /\ envios[j].ficha <= ficha[Mano(j).desde].num
      BY <1>3, <1>9, <2>1, FichaDe
    <3> QED BY <1>3, <1>8, <2>1, <3>1
  <2>2. CASE j = n
    <3>1. Op(o).desde # Fila /\ Op(o).desde \in DOMAIN pag.fichas
      BY <1>1, <1>3, <1>9, <2>2, OpForma DEF PaginaTipo
    <3>2. envios'[n].ficha = ficha[Op(o).desde].num
      BY <1>3, <3>1 DEF NumDeFicha
    <3> QED BY <1>3, <1>8, <2>2, <3>1, <3>2
  <2> QED BY <1>3, <2>1, <2>2
<1>10. \A j \in DOMAIN envios : Corre(j)' => Corre(j)
  BY CorriaAntes
<1>11. ASSUME Exclusiva(pag, Op(o).llave), Corre(n)'
       PROVE  Op(o).llave \in ocupado'
  <2>1. envios'[n].paso = 1
    BY <1>4, <1>11 DEF Corre, Terminado
  <2>2. Op(o).llave # Libre /\ Op(o).ocupaEn = 1
    BY <1>7, <1>11 DEF Exclusiva
  <2> QED BY <1>5, <2>1, <2>2 DEF Ocupa
<1>12. ASSUME NEW j \in DOMAIN envios, Exclusiva(pag, Mano(j).llave), Mano(j).llave = Op(o).llave
       PROVE  ~Corre(j)'
  BY <1>1, <1>6, <1>10, <1>12 DEF LlavesInv
<1>13. \A j \in DOMAIN envios' : Exclusiva(pag, Mano(j)'.llave) /\ Corre(j)' =>
         Mano(j)'.llave \in ocupado'
  BY <1>1, <1>3, <1>5, <1>10, <1>11 DEF LlavesInv
<1>14. ASSUME NEW i \in DOMAIN envios', NEW j \in DOMAIN envios',
              Exclusiva(pag, Mano(i)'.llave), Mano(i)'.llave = Mano(j)'.llave,
              Corre(i)', Corre(j)'
       PROVE  i = j
  <2>1. CASE i \in DOMAIN envios /\ j \in DOMAIN envios
    BY <1>1, <1>3, <1>10, <1>14, <2>1 DEF LlavesInv
  <2>2. CASE i = n \/ j = n
    BY <1>3, <1>12, <1>14, <2>2
  <2> QED BY <1>3, <2>1, <2>2
<1> QED BY <1>7, <1>9, <1>13, <1>14 DEF LlavesInv

\* An answer lowers none that another live request needs.
LEMMA ContestaLlaves ==
  ASSUME FichasInv, [Next]_vars, NEW i \in DOMAIN envios, NEW efs, NEW falla,
         Contesta(i, efs, falla)
  PROVE  LlavesInv'
<1>1. PaginaTipo /\ PantallaTipo /\ EnviosTipo /\ ManosInv /\ LlavesInv
  BY TiposJuntos DEF FichasInv, TypeInv
<1>2. /\ DOMAIN envios' = DOMAIN envios
      /\ \A j \in DOMAIN envios : Mano(j)' = Mano(j) /\ envios'[j].ficha = envios[j].ficha
      /\ ~Terminado(i) /\ (Terminado(i)' <=> Acaba(i, efs))
  BY <1>1, ContestaEnvios
<1>3. /\ ficha' = FichasTras(EfectosDe(i, efs, falla), Mano(i).desde)
      /\ ocupado' = OcupadosTras(i, efs, falla)
  BY ContestaFichas
<1>4. \A g \in DOMAIN pag.fichas :
        ficha'[g].num = IF g = Mano(i).desde /\ "cierra" \in EfectosDe(i, efs, falla)
                        THEN ficha[g].num + 1 ELSE ficha[g].num
  BY <1>1, <1>3, FichasTrasHace
<1>5. pagina' = pagina /\ pag' = pag
  BY Crece, MismaPagina DEF FichasInv
<1>6. ASSUME NEW j \in DOMAIN envios, Mano(j).desde # Fila
      PROVE  envios'[j].ficha <= ficha'[Mano(j).desde].num
  <2>1. /\ Mano(j).desde \in DOMAIN pag.fichas /\ ficha[Mano(j).desde].num \in Nat
        /\ envios[j].ficha \in Nat /\ envios[j].ficha <= ficha[Mano(j).desde].num
    BY <1>6, FichaDe
  <2> QED BY <1>2, <1>4, <2>1
<1>7. \A j \in DOMAIN envios : Corre(j)' => Corre(j)
  BY CorriaAntes
<1>8. ASSUME NEW j \in DOMAIN envios, Exclusiva(pag, Mano(j).llave), Corre(j)'
      PROVE  Mano(j).llave \in ocupado'
  <2>1. Corre(j) /\ Mano(j).llave \in ocupado
        /\ (Montada(pag, Mano(j).desde) => ficha'[Mano(j).desde].num = ficha[Mano(j).desde].num)
    BY <1>1, <1>8, CorriaAntes DEF LlavesInv
  <2>2. CASE ~Acaba(i, efs)
    BY <1>3, <2>1, <2>2 DEF OcupadosTras
  <2>3. CASE Acaba(i, efs)
    <3>1. EfectosDe(i, efs, falla) = Fin(i, efs, falla)
      BY <2>3 DEF EfectosDe
    <3>2. j # i
      BY <1>2, <1>8, <2>3 DEF Corre
    <3>3. ASSUME Mano(j).llave = Mano(i).llave,
                 Muertas(Mano(i).desde) # {} => envios[i].ficha = ficha[Mano(i).desde].num
          PROVE  FALSE
      <4>1. Corre(i)
        BY <1>2, <3>3, MontadaTieneLlaves DEF Corre
      <4> QED BY <1>1, <1>8, <2>1, <3>2, <3>3, <4>1 DEF LlavesInv
    <3>4. ASSUME Mano(j).llave \in Muertas(Mano(i).desde), "cierra" \in Fin(i, efs, falla)
          PROVE  FALSE
      <4>1. Mano(j).desde = Mano(i).desde /\ Montada(pag, Mano(j).desde)
        BY <1>8, <3>4, MuertaEsDeFicha
      <4>2. Mano(j).desde \in DOMAIN pag.fichas /\ ficha[Mano(j).desde].num \in Nat
        BY <4>1, FichaDe DEF Montada
      <4>3. ficha'[Mano(j).desde].num = ficha[Mano(j).desde].num + 1
        BY <1>4, <3>1, <3>4, <4>1, <4>2
      <4> QED BY <2>1, <4>1, <4>2, <4>3
    <3>5. Mano(j).llave \notin Libres(i, efs, falla)
      BY <3>3, <3>4 DEF Libres
    <3> QED BY <1>3, <2>1, <2>3, <3>5 DEF OcupadosTras
  <2> QED BY <2>2, <2>3
<1> QED BY <1>1, <1>2, <1>5, <1>6, <1>7, <1>8 DEF LlavesInv

\* Every step keeps the dialogs and the saving states in order.
LEMMA NextFichasInv == FichasInv /\ [Next]_vars => FichasInv'
<1> SUFFICES ASSUME FichasInv, [Next]_vars PROVE FichasInv'
  OBVIOUS
<1>1. TypeInv /\ TypeInv'
  BY NextTypeInv DEF FichasInv
<1>2. LlavesInv'
  BY <1>1, Pasos, MiraLlaves, CierraFichaLlaves, EmpiezaLlaves, ContestaLlaves
<1> QED BY <1>1, <1>2 DEF FichasInv

\* They are as the page opens.
LEMMA InitFichasInv == Init => FichasInv
<1> SUFFICES ASSUME Init PROVE FichasInv
  OBVIOUS
<1>1. DOMAIN envios = {}
  BY DEF Init
<1> QED BY <1>1, InitTypeInv DEF FichasInv, LlavesInv

\* On every page of the front a request carries an opening of its dialog that was already
\* there, and of the handlers that share an exclusive saving state at most one runs, with
\* that state on.
THEOREM SpecFichasInv == Spec => []FichasInv
<1> QED BY InitFichasInv, NextFichasInv, PTL DEF Spec

(***************************************************************************)
(* One row for one filling of a form                                       *)
(***************************************************************************)

Cuidado(i) == EnvioCuidado(pag, Mano(i))

HizoFila(i) ==
  \E k \in DOMAIN Mano(i).pasos : CreaFila(Mano(i).pasos[k]) /\ <<i, k>> \in Hechos

\* The handler may still make a row, or made one.
Vivo(i) == ~Terminado(i) \/ HizoFila(i)

\* Two handlers with one saving state, started from one filling of a form.
Gemelos(i, j) ==
  /\ Mano(i).desde = Mano(j).desde /\ Mano(i).llave = Mano(j).llave
  /\ envios[i].ficha = envios[j].ficha

\* A handler that made a row and ended left its form emptied, or the page; of two
\* handlers with one saving state and one filling of a form at most one makes rows;
\* and the server repeats no row that it refuses to repeat.
FilasInv ==
  /\ \A i \in DOMAIN envios : Cuidado(i) /\ HizoFila(i) /\ Terminado(i) =>
       envios[i].ficha < ficha[Mano(i).desde].num \/ fuera
  /\ \A i, j \in DOMAIN envios :
       Cuidado(i) /\ Cuidado(j) /\ Gemelos(i, j) /\ Vivo(i) /\ Vivo(j) => i = j
  /\ \A c, d \in Hechos :
       Tipo(c) = "unica" /\ Tipo(d) = "unica" /\ MismaFicha(c, d) => c = d

UnaFilaInv == FichasInv /\ (~perdida => FilasInv)

\* A change the server made is a step of a request.
LEMMA HechoForma ==
  ASSUME FichasInv, NEW c \in Hechos
  PROVE  /\ c = <<c[1], c[2]>> /\ c[1] \in DOMAIN envios
         /\ c[2] \in DOMAIN Mano(c[1]).pasos
         /\ Tipo(c) = Mano(c[1]).pasos[c[2]].tipo
<1>1. EnviosTipo /\ ManosInv
  BY TiposJuntos DEF FichasInv, TypeInv
<1>2. c \in Cambio
  <2>1. tabla \in Seq(Cambio)
    BY <1>1 DEF EnviosTipo
  <2>2. \A k \in DOMAIN tabla : tabla[k] \in Cambio
    BY <2>1
  <2> QED BY <2>2 DEF Hechos, ToSet
<1>3. c = <<c[1], c[2]>>
  BY <1>2 DEF Cambio
<1>4. c[1] \in DOMAIN envios /\ c[2] \in DOMAIN Mano(c[1]).pasos
  BY <1>1 DEF ManosInv
<1> QED BY <1>3, <1>4 DEF Tipo, Mano

\* Whether two changes come from one filling of a form does not change.
LEMMA MismaFichaIgual ==
  ASSUME FichasInv, [Next]_vars, NEW c, NEW d, c[1] \in DOMAIN envios, d[1] \in DOMAIN envios
  PROVE  /\ MismaFicha(c, d)' <=> MismaFicha(c, d)
         /\ Tipo(c)' = Tipo(c)
<1>1. \A j \in DOMAIN envios : Mano(j)' = Mano(j) /\ envios'[j].ficha = envios[j].ficha
  BY Crece DEF FichasInv
<1> QED BY <1>1 DEF MismaFicha, Tipo, Mano

\* Whether two handlers are twins, and whether they are careful, neither.
LEMMA GemelosIguales ==
  ASSUME FichasInv, [Next]_vars, NEW i \in DOMAIN envios, NEW j \in DOMAIN envios
  PROVE  (Gemelos(i, j)' <=> Gemelos(i, j)) /\ (Cuidado(i)' <=> Cuidado(i))
<1>1. /\ \A k \in DOMAIN envios : Mano(k)' = Mano(k) /\ envios'[k].ficha = envios[k].ficha
      /\ pagina' = pagina
  BY Crece DEF FichasInv
<1> QED BY <1>1, MismaPagina DEF Gemelos, Cuidado

\* A careful request that made its row and ended leaves behind a later opening of
\* its dialog, or a page that was left, in the step and after it.
LEMMA FilaQueda ==
  ASSUME FichasInv, FilasInv, [Next]_vars, NEW i \in DOMAIN envios,
         Cuidado(i), HizoFila(i), Terminado(i)
  PROVE  envios'[i].ficha < ficha'[Mano(i).desde].num \/ fuera'
<1>1. /\ envios'[i].ficha = envios[i].ficha /\ (fuera => fuera')
      /\ \A f \in DOMAIN pag.fichas :
           ficha[f].num \in Nat /\ ficha'[f].num \in {ficha[f].num, ficha[f].num + 1}
  BY Crece DEF FichasInv
<1>2. Mano(i).desde \in DOMAIN pag.fichas /\ envios[i].ficha \in Nat
  BY FichaDe DEF Cuidado, EnvioCuidado
<1>3. envios[i].ficha < ficha[Mano(i).desde].num \/ fuera
  BY DEF FilasInv
<1>4. \A a, b, c \in Nat : a < b /\ c \in {b, b + 1} => a < c
  OBVIOUS
<1>5. ficha'[Mano(i).desde].num \in Nat
  BY <1>1, <1>2
<1> QED BY <1>1, <1>2, <1>3, <1>4, <1>5

\* A step that touches no request.
LEMMA FilasIguales ==
  ASSUME FichasInv, FilasInv, [Next]_vars, UNCHANGED <<pagina, tabla, envios>>
  PROVE  FilasInv'
<1>1. /\ Hechos' = Hechos
      /\ \A j : Mano(j)' = Mano(j) /\ (Terminado(j)' <=> Terminado(j))
  BY MismaPagina DEF Hechos, Mano, Op, Terminado
<1>2. \A j : (HizoFila(j)' <=> HizoFila(j)) /\ (Vivo(j)' <=> Vivo(j))
  BY <1>1 DEF HizoFila, Vivo
<1>3. ASSUME NEW c \in Hechos, NEW d \in Hechos
      PROVE  (MismaFicha(c, d)' <=> MismaFicha(c, d)) /\ Tipo(c)' = Tipo(c) /\ Tipo(d)' = Tipo(d)
  BY HechoForma, MismaFichaIgual
<1>4. \A i \in DOMAIN envios : Cuidado(i)' /\ HizoFila(i)' /\ Terminado(i)' =>
        envios'[i].ficha < ficha'[Mano(i)'.desde].num \/ fuera'
  BY <1>1, <1>2, FilaQueda, GemelosIguales
<1>5. \A i, j \in DOMAIN envios :
        Cuidado(i)' /\ Cuidado(j)' /\ Gemelos(i, j)' /\ Vivo(i)' /\ Vivo(j)' => i = j
  BY <1>2, GemelosIguales DEF FilasInv
<1>6. \A c, d \in Hechos' :
        Tipo(c)' = "unica" /\ Tipo(d)' = "unica" /\ MismaFicha(c, d)' => c = d
  BY <1>1, <1>3 DEF FilasInv
<1> QED BY <1>1, <1>4, <1>5, <1>6 DEF FilasInv

\* A start leaves the rows made at one filling of a form apart.
LEMMA EmpiezaFilas ==
  ASSUME FichasInv, FilasInv, [Next]_vars, NEW o \in DOMAIN pag.ops, NEW efs, Empieza(o, efs)
  PROVE  FilasInv'
<1>1. PaginaTipo /\ PantallaTipo /\ EnviosTipo /\ ManosInv /\ LlavesInv
  BY TiposJuntos DEF FichasInv, TypeInv
<1>2. PICK n : n = Nuevo
  OBVIOUS
<1>3. /\ n \notin DOMAIN envios /\ DOMAIN envios' = DOMAIN envios \cup {n}
      /\ \A j \in DOMAIN envios : envios'[j] = envios[j] /\ Mano(j)' = Mano(j)
      /\ Mano(n)' = Op(o) /\ envios'[n].ficha = NumDeFicha(o)
  BY <1>1, <1>2, EmpiezaEnvios
<1>4. /\ pagina' = pagina /\ Hechos' = Hechos /\ Op(o).llave \notin ocupado
      /\ fuera = FALSE
  BY <1>1, EmpiezaFichas DEF Empieza, Hechos
<1>5. \A j \in DOMAIN envios :
        /\ Terminado(j)' <=> Terminado(j)
        /\ HizoFila(j)' <=> HizoFila(j)
        /\ Vivo(j)' <=> Vivo(j)
  BY <1>3, <1>4 DEF Terminado, HizoFila, Vivo
<1>6. ~HizoFila(n)'
  <2>1. \A k : <<n, k>> \notin Hechos
    BY <1>1, <1>3 DEF ManosInv
  <2> QED BY <1>4, <2>1 DEF HizoFila
<1>7. ASSUME NEW i \in DOMAIN envios', Cuidado(i)', HizoFila(i)', Terminado(i)'
      PROVE  envios'[i].ficha < ficha'[Mano(i)'.desde].num \/ fuera'
  BY <1>3, <1>5, <1>6, <1>7, FilaQueda, GemelosIguales
<1>8. ASSUME NEW j \in DOMAIN envios, Cuidado(j)', Gemelos(j, n)', Vivo(j)'
      PROVE  FALSE
  <2>1. /\ Cuidado(j) /\ Vivo(j) /\ Mano(j).llave = Op(o).llave /\ Mano(j).desde = Op(o).desde
        /\ envios[j].ficha = NumDeFicha(o)
    BY <1>3, <1>5, <1>8, GemelosIguales DEF Gemelos
  <2>2. Mano(j).desde # Fila /\ Exclusiva(pag, Mano(j).llave)
    BY <2>1 DEF Cuidado, EnvioCuidado
  <2>3. envios[j].ficha = ficha[Mano(j).desde].num
    BY <2>1, <2>2 DEF NumDeFicha
  <2>4. CASE ~Terminado(j)
    <3>1. Corre(j)
      BY <2>3, <2>4 DEF Corre
    <3> QED BY <1>1, <1>4, <2>1, <2>2, <3>1 DEF LlavesInv
  <2>5. CASE Terminado(j)
    <3>1. HizoFila(j)
      BY <2>1, <2>5 DEF Vivo
    <3>2. envios[j].ficha < ficha[Mano(j).desde].num
      BY <1>4, <2>1, <2>5, <3>1 DEF FilasInv
    <3>3. ficha[Mano(j).desde].num \in Nat
      BY <2>2, FichaDe
    <3> QED BY <2>3, <3>2, <3>3
  <2> QED BY <2>4, <2>5
<1>9. ASSUME NEW i \in DOMAIN envios', NEW j \in DOMAIN envios', Cuidado(i)', Cuidado(j)',
             Gemelos(i, j)', Vivo(i)', Vivo(j)'
      PROVE  i = j
  <2>1. CASE i \in DOMAIN envios /\ j \in DOMAIN envios
    BY <1>5, <1>9, <2>1, GemelosIguales DEF FilasInv
  <2>2. CASE i \in DOMAIN envios /\ j = n
    BY <1>8, <1>9, <2>2
  <2>3. CASE i = n /\ j \in DOMAIN envios
    <3>1. Gemelos(j, i)'
      BY <1>9 DEF Gemelos
    <3> QED BY <1>8, <1>9, <2>3, <3>1
  <2> QED BY <1>3, <2>1, <2>2, <2>3
<1>10. ASSUME NEW c \in Hechos', NEW d \in Hechos', Tipo(c)' = "unica", Tipo(d)' = "unica",
              MismaFicha(c, d)'
       PROVE  c = d
  <2>1. c \in Hechos /\ d \in Hechos
    BY <1>4
  <2>2. Tipo(c) = "unica" /\ Tipo(d) = "unica" /\ MismaFicha(c, d)
    BY <1>10, <2>1, HechoForma, MismaFichaIgual
  <2> QED BY <2>1, <2>2 DEF FilasInv
<1> QED BY <1>7, <1>9, <1>10 DEF FilasInv

\* So does an answer.
LEMMA ContestaFilas ==
  ASSUME FichasInv, FilasInv, [Next]_vars, NEW i \in DOMAIN envios, NEW efs, NEW falla,
         Contesta(i, efs, falla), ~perdida'
  PROVE  FilasInv'
<1> DEFINE n == envios[i].paso
           f == Mano(i).desde
<1>1. PaginaTipo /\ PantallaTipo /\ EnviosTipo /\ ManosInv
  BY TiposJuntos DEF FichasInv, TypeInv
<1>2. /\ DOMAIN envios' = DOMAIN envios /\ falla \in BOOLEAN
      /\ \A j \in DOMAIN envios : /\ Mano(j)' = Mano(j) /\ envios'[j].ficha = envios[j].ficha
                                  /\ (j # i => envios'[j] = envios[j])
      /\ ~Terminado(i) /\ (Terminado(i)' <=> Acaba(i, efs))
  BY <1>1, ContestaEnvios
<1>3. n \in DOMAIN Mano(i).pasos /\ n \in Nat
  <2>1. n \in DOMAIN Mano(i).pasos /\ DOMAIN Mano(i).pasos = 1..Len(Mano(i).pasos)
        /\ Len(Mano(i).pasos) \in 0..MaxPasos
    BY <1>1, <1>2, ManoForma
  <2>2. \A l \in 0..MaxPasos : \A k \in 1..l : k \in Nat
    BY DEF MaxPasos
  <2> QED BY <2>1, <2>2
<1>4. /\ Hechos' \in {Hechos, Hechos \cup {<<i, n>>}} /\ <<i, n>> \notin Hechos
      /\ <<i, n>> \in Hechos' => Puede(i)
      /\ falla => Hechos' = Hechos
  <2>1. perdida' \in BOOLEAN
    BY <1>1, ContestaTabla
  <2> QED BY <1>1, <1>2, <2>1, ContestaTabla
<1> HIDE DEF n
<1>5. \A j \in DOMAIN envios \ {i} :
        /\ Terminado(j)' <=> Terminado(j)
        /\ HizoFila(j)' <=> HizoFila(j)
        /\ Vivo(j)' <=> Vivo(j)
  <2> SUFFICES ASSUME NEW j \in DOMAIN envios \ {i}
               PROVE  /\ Terminado(j)' <=> Terminado(j)
                      /\ HizoFila(j)' <=> HizoFila(j)
                      /\ Vivo(j)' <=> Vivo(j)
    OBVIOUS
  <2>1. \A k : <<j, k>> \in Hechos' <=> <<j, k>> \in Hechos
    BY <1>4
  <2>2. Mano(j)' = Mano(j) /\ envios'[j] = envios[j]
    BY <1>2
  <2>3. HizoFila(j)' <=> HizoFila(j)
    BY <2>1, <2>2 DEF HizoFila
  <2>4. Terminado(j)' <=> Terminado(j)
    BY <2>2 DEF Terminado
  <2> QED BY <2>3, <2>4 DEF Vivo
<1>6. Vivo(i)
  BY <1>2 DEF Vivo
<1>7. ASSUME Cuidado(i), HizoFila(i)', Terminado(i)'
      PROVE  envios[i].ficha < ficha'[f].num \/ fuera'
  <2>1. PICK k \in DOMAIN Mano(i).pasos : CreaFila(Mano(i).pasos[k]) /\ <<i, k>> \in Hechos'
    BY <1>2, <1>7 DEF HizoFila
  <2>2. k < n \/ (k = n /\ ~falla)
    <3>1. CASE <<i, k>> \in Hechos
      BY <1>1, <1>2, <3>1 DEF ManosInv, n
    <3>2. CASE <<i, k>> \notin Hechos
      BY <1>2, <1>4, <2>1, <3>2
    <3> QED BY <3>1, <3>2
  <2>3. Acaba(i, efs) /\ Fin(i, efs, falla) \in Finales(Mano(i), k)
    BY <1>1, <1>2, <1>7, <2>2, FinEnFinales DEF n
  <2>4. {"cierra", "sale"} \cap Fin(i, efs, falla) # {} /\ f # Fila
    BY <1>7, <2>1, <2>3 DEF Cuidado, EnvioCuidado
  <2>5. EfectosDe(i, efs, falla) = Fin(i, efs, falla)
    BY <2>3 DEF EfectosDe
  <2>6. CASE "sale" \in Fin(i, efs, falla)
    BY <2>5, <2>6, ContestaFichas
  <2>7. CASE "cierra" \in Fin(i, efs, falla)
    <3>1. ficha' = FichasTras(EfectosDe(i, efs, falla), f)
      BY ContestaFichas
    <3>2. f \in DOMAIN pag.fichas /\ ficha[f].num \in Nat /\ envios[i].ficha \in Nat
          /\ envios[i].ficha <= ficha[f].num
      BY <2>4, FichaDe
    <3>3. ficha'[f].num = ficha[f].num + 1
      BY <1>1, <2>5, <2>7, <3>1, <3>2, FichasTrasHace
    <3> QED BY <3>2, <3>3
  <2> QED BY <2>4, <2>6, <2>7
<1>8. ASSUME NEW j \in DOMAIN envios', Cuidado(j)', HizoFila(j)', Terminado(j)'
      PROVE  envios'[j].ficha < ficha'[Mano(j)'.desde].num \/ fuera'
  <2>1. CASE j = i
    BY <1>2, <1>7, <1>8, <2>1, GemelosIguales
  <2>2. CASE j # i
    BY <1>2, <1>5, <1>8, <2>2, FilaQueda, GemelosIguales
  <2> QED BY <2>1, <2>2
<1>9. ASSUME NEW j \in DOMAIN envios', NEW k \in DOMAIN envios', Cuidado(j)', Cuidado(k)',
             Gemelos(j, k)', Vivo(j)', Vivo(k)'
      PROVE  j = k
  <2>1. Vivo(j) /\ Vivo(k)
    BY <1>2, <1>5, <1>6, <1>9
  <2>2. Cuidado(j) /\ Cuidado(k) /\ Gemelos(j, k)
    BY <1>2, <1>9, GemelosIguales
  <2> QED BY <1>2, <2>1, <2>2 DEF FilasInv
<1>10. PICK e : e = <<i, n>>
  OBVIOUS
<1>11. ASSUME e \in Hechos', NEW d \in Hechos, Tipo(e)' = "unica", Tipo(d)' = "unica",
              MismaFicha(d, e)'
       PROVE  FALSE
  <2>1. d[1] \in DOMAIN envios
    BY HechoForma
  <2>2. e[1] \in DOMAIN envios /\ e[1] = i /\ e[2] = n
    BY <1>10
  <2>3. MismaFicha(d, e) /\ Tipo(d) = "unica" /\ Tipo(e) = "unica"
    BY <1>11, <2>1, <2>2, MismaFichaIgual
  <2>4. Peticion(i).tipo = "unica"
    BY <2>2, <2>3 DEF Tipo, Peticion, n
  <2>5. ~(Tipo(d) = "unica" /\ MismaFicha(d, e))
    BY <1>4, <1>11, <1>10, <2>4 DEF Puede, n
  <2> QED BY <2>3, <2>5
<1>12. ASSUME NEW c \in Hechos', NEW d \in Hechos', Tipo(c)' = "unica", Tipo(d)' = "unica",
              MismaFicha(c, d)'
       PROVE  c = d
  <2>1. MismaFicha(d, c)'
    BY <1>12 DEF MismaFicha
  <2>2. CASE c \in Hechos /\ d \in Hechos
    <3>1. Tipo(c) = "unica" /\ Tipo(d) = "unica" /\ MismaFicha(c, d)
      BY <1>12, <2>2, HechoForma, MismaFichaIgual
    <3> QED BY <2>2, <3>1 DEF FilasInv
  <2>3. (c \in Hechos \/ c = e) /\ (d \in Hechos \/ d = e)
    BY <1>4, <1>12, <1>10
  <2> QED BY <1>11, <1>12, <2>1, <2>2, <2>3
<1> QED BY <1>2, <1>8, <1>9, <1>12 DEF FilasInv

\* Every step keeps the rows apart.
LEMMA NextUnaFilaInv == UnaFilaInv /\ [Next]_vars => UnaFilaInv'
<1> SUFFICES ASSUME UnaFilaInv, [Next]_vars PROVE UnaFilaInv'
  OBVIOUS
<1>1. FichasInv /\ FichasInv' /\ TypeInv
  BY NextFichasInv DEF UnaFilaInv, FichasInv
<1>2. ASSUME ~perdida' PROVE FilasInv'
  <2>1. FilasInv
    BY <1>1, <1>2, Crece DEF UnaFilaInv
  <2>2. CASE Mira
    BY <1>1, <2>1, <2>2, FilasIguales DEF Mira
  <2>3. ASSUME NEW f \in DOMAIN pag.fichas, CierraFicha(f)
        PROVE  FilasInv'
    BY <1>1, <2>1, <2>3, FilasIguales, CierraFichaTipo
  <2>4. ASSUME NEW o \in DOMAIN pag.ops, NEW efs, Empieza(o, efs)
        PROVE  FilasInv'
    BY <1>1, <2>1, <2>4, EmpiezaFilas
  <2>5. ASSUME NEW i \in DOMAIN envios, NEW efs, NEW falla, Contesta(i, efs, falla)
        PROVE  FilasInv'
    BY <1>1, <1>2, <2>1, <2>5, ContestaFilas
  <2> QED BY <1>1, <2>2, <2>3, <2>4, <2>5, Pasos
<1> QED BY <1>1, <1>2 DEF UnaFilaInv

\* The invariant is more than the property.
LEMMA UnaFilaInvUnaFila == UnaFilaInv => UnaFila
<1> SUFFICES ASSUME UnaFilaInv, pagina \notin Repetibles, ~perdida,
                    NEW c \in Hechos, NEW d \in Hechos, Crea(c), Crea(d), MismaFicha(c, d)
             PROVE  c = d
  BY DEF UnaFila
<1>1. FichasInv /\ FilasInv
  BY DEF UnaFilaInv
<1>2. EnviaUnaVez(pag)
  <2>1. PaginaTipo
    BY <1>1, TiposJuntos DEF FichasInv, TypeInv
  <2> QED BY <2>1, PaginaForma DEF PaginaTipo
<1> DEFINE i == c[1]
           j == d[1]
           k == c[2]
<1>3. /\ i \in DOMAIN envios /\ j \in DOMAIN envios
      /\ c = <<i, k>> /\ d = <<j, k>>
      /\ k \in DOMAIN Mano(i).pasos /\ k \in DOMAIN Mano(j).pasos
      /\ Tipo(c) = Mano(i).pasos[k].tipo /\ Tipo(d) = Mano(j).pasos[k].tipo
      /\ Mano(i).desde = Mano(j).desde /\ envios[i].ficha = envios[j].ficha
  <2>1. /\ c[2] = d[2] /\ Mano(i).desde = Mano(j).desde /\ envios[i].ficha = envios[j].ficha
    BY DEF MismaFicha, Mano
  <2>2. /\ i \in DOMAIN envios /\ c = <<c[1], c[2]>> /\ c[2] \in DOMAIN Mano(i).pasos
        /\ Tipo(c) = Mano(i).pasos[c[2]].tipo
    BY <1>1, HechoForma
  <2>3. /\ j \in DOMAIN envios /\ d = <<d[1], d[2]>> /\ d[2] \in DOMAIN Mano(j).pasos
        /\ Tipo(d) = Mano(j).pasos[d[2]].tipo
    BY <1>1, HechoForma
  <2> QED BY <2>1, <2>2, <2>3
<1>4. /\ envios[i].op \in DOMAIN pag.ops /\ Mano(i) = pag.ops[envios[i].op]
      /\ envios[j].op \in DOMAIN pag.ops /\ Mano(j) = pag.ops[envios[j].op]
  BY <1>1, <1>3, FichaDe
<1> HIDE DEF i, j, k
<1>5. CreaFila(Mano(i).pasos[k]) /\ CreaFila(Mano(j).pasos[k])
  BY <1>3 DEF Crea, CreaFila
<1>6. \/ Tipo(c) = "unica" /\ Tipo(d) = "unica"
      \/ Cuidado(i) /\ Cuidado(j) /\ Mano(i).llave = Mano(j).llave
  BY <1>2, <1>3, <1>4, <1>5 DEF EnviaUnaVez, Cuidado
<1>7. CASE Tipo(c) = "unica" /\ Tipo(d) = "unica"
  BY <1>1, <1>7 DEF FilasInv
<1>8. CASE Cuidado(i) /\ Cuidado(j) /\ Mano(i).llave = Mano(j).llave
  <2>1. Vivo(i) /\ Vivo(j)
    BY <1>3, <1>5 DEF Vivo, HizoFila
  <2>2. Gemelos(i, j)
    BY <1>3, <1>8 DEF Gemelos
  <2>3. i = j
    BY <1>1, <1>3, <1>8, <2>1, <2>2 DEF FilasInv
  <2> QED BY <1>3, <2>3
<1> QED BY <1>6, <1>7, <1>8

\* No row is made as the page opens.
LEMMA InitUnaFilaInv == Init => UnaFilaInv
<1> SUFFICES ASSUME Init PROVE UnaFilaInv
  OBVIOUS
<1>1. DOMAIN envios = {} /\ Hechos = {}
  BY DEF Init, Hechos, ToSet
<1> QED BY <1>1, InitFichasInv DEF UnaFilaInv, FilasInv

\* On a page that keeps the habit EnviaUnaVez a form filled once makes one row, however
\* often its buttons are pressed and whatever fails on the way, as long as no answer to
\* a change was lost.
THEOREM SpecUnaFila == Spec => []UnaFila
<1> QED BY InitUnaFilaInv, NextUnaFilaInv, UnaFilaInvUnaFila, PTL DEF Spec

(***************************************************************************)
(* A form is closed by the handler it was sent from                        *)
(***************************************************************************)

\* The handler i closes its form at some point.
Cierra(i) ==
  /\ Mano(i).desde # Fila /\ ~Terminado(i)
  /\ envios[i].op \in Cierran(pag, Mano(i).desde)

\* While it runs, its form is as it was when it started.
CierreInv ==
  pagina \notin Descuidadas =>
    \A i \in DOMAIN envios : Cierra(i) => envios[i].ficha = ficha[Mano(i).desde].num

PropiaInv == FichasInv /\ CierreInv

\* What the habit CierraLoSuyo says of a handler that runs: it holds an exclusive
\* saving state that is on, and that every control that closes its form has.
LEMMA CierraForma ==
  ASSUME FichasInv, pagina \notin Descuidadas, NEW i \in DOMAIN envios, Cierra(i)
  PROVE  /\ Mano(i).desde \in DOMAIN pag.fichas
         /\ pag.fichas[Mano(i).desde] \in {"fija", "bloqueada", "visor", "resultado"}
         /\ Exclusiva(pag, Mano(i).llave) /\ Corre(i) /\ Mano(i).llave \in ocupado
         /\ Mano(i).llave \in LlavesDe(Mano(i).desde)
         /\ \A q \in Cierran(pag, Mano(i).desde) : pag.ops[q].llave = Mano(i).llave
         /\ SoloAlCumplir(Mano(i), "cierra")
<1>1. PaginaTipo /\ PantallaTipo /\ EnviosTipo /\ ManosInv /\ LlavesInv
  BY TiposJuntos DEF FichasInv, TypeInv
<1>2. CierraLoSuyo(pag)
  BY <1>1, PaginaForma DEF PaginaTipo
<1>3. Mano(i).desde \in DOMAIN pag.fichas /\ Mano(i) = pag.ops[envios[i].op]
      /\ envios[i].op \in DOMAIN pag.ops
  BY FichaDe DEF Cierra
<1>4. Mano(i).pasos # <<>>
  <2>1. envios[i].paso \in DOMAIN Mano(i).pasos
    BY <1>1, ManoForma DEF Cierra
  <2> QED BY <2>1
<1>5. /\ pag.fichas[Mano(i).desde] \in {"fija", "bloqueada", "visor", "resultado"}
      /\ Exclusiva(pag, Mano(i).llave)
      /\ \A q \in Cierran(pag, Mano(i).desde) : pag.ops[q].llave = Mano(i).llave
      /\ SoloAlCumplir(Mano(i), "cierra")
  BY <1>2, <1>3, <1>4 DEF CierraLoSuyo, Cierra
<1>6. Corre(i)
  BY <1>5 DEF Corre, Cierra, Montada
<1>7. Mano(i).llave \in ocupado
  BY <1>1, <1>5, <1>6 DEF LlavesInv
<1>8. Mano(i).llave \in LlavesDe(Mano(i).desde)
  BY <1>3 DEF LlavesDe, Op
<1> QED BY <1>3, <1>5, <1>6, <1>7, <1>8

\* Only a handler that closes its form renumbers it.
LEMMA ContestaCierra ==
  ASSUME FichasInv, NEW k \in DOMAIN envios, NEW efs, NEW falla, Contesta(k, efs, falla),
         NEW f \in DOMAIN pag.fichas, ficha'[f].num # ficha[f].num
  PROVE  f = Mano(k).desde /\ Cierra(k) /\ "cierra" \in EfectosDe(k, efs, falla)
<1>1. PantallaTipo
  BY TiposJuntos DEF FichasInv, TypeInv
<1>2. f = Mano(k).desde /\ "cierra" \in EfectosDe(k, efs, falla)
  BY <1>1, ContestaFichas, FichasTrasHace
<1>3. \E e \in Respuestas(Mano(k)) : "cierra" \in e
  <2>1. PaginaTipo /\ EnviosTipo /\ ManosInv
    BY TiposJuntos DEF FichasInv, TypeInv
  <2> QED BY <1>2, <2>1, EfectosRespuesta
<1>4. ~Terminado(k)
  BY DEF Contesta
<1>5. envios[k].op \in DOMAIN pag.ops /\ Mano(k) = pag.ops[envios[k].op] /\ f # Fila
  BY FichaDe
<1> QED BY <1>2, <1>3, <1>4, <1>5 DEF Cierra, Cierran

\* The dialog of a live request that closes it is not closed by hand.
LEMMA CierraFichaNoLaMueve ==
  ASSUME FichasInv, pagina \notin Descuidadas, NEW i \in DOMAIN envios, Cierra(i),
         NEW g \in DOMAIN pag.fichas, CierraFicha(g)
  PROVE  ficha'[Mano(i).desde].num = ficha[Mano(i).desde].num
<1>1. /\ \/ pag.fichas[g] \in {"modal", "enlinea", "montada"}
         \/ pag.fichas[g] = "bloqueada" /\ ocupado \cap LlavesDe(g) = {}
      /\ \A h \in DOMAIN pag.fichas :
           ficha'[h].num = IF h = g THEN ficha[h].num + 1 ELSE ficha[h].num
  BY CierraFichaTipo DEF FichasInv
<1>2. /\ Mano(i).desde \in DOMAIN pag.fichas
      /\ pag.fichas[Mano(i).desde] \in {"fija", "bloqueada", "visor", "resultado"}
      /\ Mano(i).llave \in ocupado /\ Mano(i).llave \in LlavesDe(Mano(i).desde)
  BY CierraForma
<1>3. g # Mano(i).desde
  BY <1>1, <1>2
<1> QED BY <1>1, <1>2, <1>3

\* Nor by the start of another.
LEMMA EmpiezaNoLaMueve ==
  ASSUME FichasInv, pagina \notin Descuidadas, NEW i \in DOMAIN envios, Cierra(i),
         NEW o \in DOMAIN pag.ops, NEW efs, Empieza(o, efs)
  PROVE  ficha'[Mano(i).desde].num = ficha[Mano(i).desde].num
<1>1. PaginaTipo /\ PantallaTipo /\ EnviosTipo
  BY TiposJuntos DEF FichasInv, TypeInv
<1>2. /\ Mano(i).desde \in DOMAIN pag.fichas /\ Mano(i).llave \in ocupado
      /\ \A q \in Cierran(pag, Mano(i).desde) : pag.ops[q].llave = Mano(i).llave
  BY CierraForma
<1>3. ASSUME Mano(i).desde = Op(o).desde, "cierra" \in efs
      PROVE  FALSE
  <2>1. efs \in Respuestas(Op(o)) /\ Op(o).llave \notin ocupado
    BY DEF Empieza, Respuestas
  <2>2. o \in Cierran(pag, Mano(i).desde)
    BY <1>3, <2>1 DEF Cierran, Op
  <2> QED BY <1>2, <2>1, <2>2 DEF Op
<1>4. ficha' = FichasTras(efs, Op(o).desde)
  BY <1>1, EmpiezaFichas
<1> QED BY <1>1, <1>2, <1>3, <1>4, FichasTrasHace

\* Nor by the answer of another, and its own comes after its changes.
LEMMA ContestaNoLaMueve ==
  ASSUME FichasInv, pagina \notin Descuidadas, NEW i \in DOMAIN envios, Cierra(i),
         NEW k \in DOMAIN envios, NEW efs, NEW falla, Contesta(k, efs, falla),
         ficha'[Mano(i).desde].num # ficha[Mano(i).desde].num
  PROVE  /\ k = i /\ Acaba(i, efs)
         /\ \A n \in DOMAIN Mano(i).pasos : Cambia(Mano(i).pasos[n]) => <<i, n>> \in Hechos'
<1>1. PaginaTipo /\ PantallaTipo /\ EnviosTipo /\ ManosInv /\ LlavesInv
  BY TiposJuntos DEF FichasInv, TypeInv
<1>2. /\ Mano(i).desde \in DOMAIN pag.fichas /\ Corre(i) /\ Exclusiva(pag, Mano(i).llave)
      /\ \A q \in Cierran(pag, Mano(i).desde) : pag.ops[q].llave = Mano(i).llave
      /\ SoloAlCumplir(Mano(i), "cierra")
  BY CierraForma
<1>3. Mano(i).desde = Mano(k).desde /\ Cierra(k) /\ "cierra" \in EfectosDe(k, efs, falla)
  BY <1>2, ContestaCierra
<1>4. Corre(k)
  BY <1>3, CierraForma
<1>5. Mano(k).llave = Mano(i).llave
  <2>1. pag.ops[envios[k].op].llave = Mano(i).llave
    BY <1>2, <1>3 DEF Cierra
  <2> QED BY <2>1, FichaDe
<1>6. k = i
  BY <1>1, <1>2, <1>4, <1>5 DEF LlavesInv
<1> QED BY <1>1, <1>2, <1>3, <1>6, SoloAlCumplirCumple

\* Every step keeps the live requests and their dialogs together.
LEMMA NextPropiaInv == PropiaInv /\ [Next]_vars => PropiaInv'
<1> SUFFICES ASSUME PropiaInv, [Next]_vars PROVE PropiaInv'
  OBVIOUS
<1>1. FichasInv /\ FichasInv' /\ TypeInv /\ CierreInv
  BY NextFichasInv DEF PropiaInv, FichasInv
<1>2. PaginaTipo /\ PantallaTipo /\ EnviosTipo /\ ManosInv
  BY <1>1, TiposJuntos DEF TypeInv
<1>3. /\ pagina' = pagina
      /\ \A j \in DOMAIN envios :
           /\ Mano(j)' = Mano(j) /\ envios'[j].op = envios[j].op
           /\ envios'[j].ficha = envios[j].ficha /\ (Terminado(j) => Terminado(j)')
  BY <1>1, Crece
<1>4. pag' = pag
  BY <1>3, MismaPagina
<1>5. ASSUME pagina \notin Descuidadas, NEW i \in DOMAIN envios, Cierra(i)'
      PROVE  envios'[i].ficha = ficha'[Mano(i)'.desde].num
  <2>1. Cierra(i)
    BY <1>3, <1>4, <1>5 DEF Cierra
  <2>2. Mano(i).desde \in DOMAIN pag.fichas
    BY <1>1, <1>5, <2>1, CierraForma
  <2>3. envios[i].ficha = ficha[Mano(i).desde].num
    BY <1>1, <1>5, <2>1 DEF CierreInv
  <2>4. CASE Mira
    BY <1>3, <2>2, <2>3, <2>4 DEF Mira
  <2>5. CASE \E g \in DOMAIN pag.fichas : CierraFicha(g)
    BY <1>1, <1>3, <1>5, <2>1, <2>3, <2>5, CierraFichaNoLaMueve
  <2>6. CASE \E o \in DOMAIN pag.ops : \E efs : Empieza(o, efs)
    BY <1>1, <1>3, <1>5, <2>1, <2>3, <2>6, EmpiezaNoLaMueve
  <2>7. ASSUME NEW k \in DOMAIN envios, NEW efs, NEW falla, Contesta(k, efs, falla)
        PROVE  ficha'[Mano(i).desde].num = ficha[Mano(i).desde].num
    <3>1. SUFFICES ASSUME ficha'[Mano(i).desde].num # ficha[Mano(i).desde].num
                   PROVE  FALSE
      OBVIOUS
    <3>2. k = i /\ Acaba(i, efs)
      BY <1>1, <1>5, <2>1, <2>7, <3>1, ContestaNoLaMueve
    <3>3. Terminado(i)'
      BY <1>2, <2>7, <3>2, ContestaEnvios
    <3> QED BY <1>5, <3>3 DEF Cierra
  <2> QED BY <1>1, <1>3, <2>3, <2>4, <2>5, <2>6, <2>7, Pasos
<1>6. ASSUME pagina \notin Descuidadas, NEW o \in DOMAIN pag.ops, NEW efs, Empieza(o, efs),
             NEW n, n = Nuevo, Cierra(n)'
      PROVE  envios'[n].ficha = ficha'[Mano(n)'.desde].num
  <2>1. /\ Mano(n)' = Op(o) /\ envios'[n].op = o /\ envios'[n].ficha = NumDeFicha(o)
        /\ envios'[n].paso \in {0, 1} /\ (envios'[n].paso = 1 => Op(o).pasos # <<>>)
    BY <1>2, <1>6, EmpiezaEnvios
  <2>2. Op(o).pasos # <<>> /\ Op(o).desde # Fila /\ o \in Cierran(pag, Op(o).desde)
    BY <1>4, <1>6, <2>1 DEF Cierra, Terminado
  <2>3. Op(o).desde \in DOMAIN pag.fichas /\ CierraLoSuyo(pag)
    BY <1>2, <1>6, <2>2, OpForma, PaginaForma DEF PaginaTipo
  <2>4. "cierra" \notin efs
    <3>1. efs \in {Op(o).antes, Op(o).sinToken}
      BY <1>6 DEF Empieza
    <3> QED BY <2>2, <2>3, <3>1 DEF CierraLoSuyo, Op
  <2>5. ficha' = FichasTras(efs, Op(o).desde)
    BY <1>2, <1>6, EmpiezaFichas
  <2>6. ficha'[Op(o).desde].num = ficha[Op(o).desde].num
    BY <1>2, <2>3, <2>4, <2>5, FichasTrasHace
  <2> QED BY <2>1, <2>2, <2>6 DEF NumDeFicha
<1>7. ASSUME pagina \notin Descuidadas, NEW i \in DOMAIN envios', Cierra(i)'
      PROVE  envios'[i].ficha = ficha'[Mano(i)'.desde].num
  <2>1. CASE i \in DOMAIN envios
    BY <1>5, <1>7, <2>1
  <2>2. CASE i \notin DOMAIN envios
    <3>1. CASE \E o \in DOMAIN pag.ops : \E efs : Empieza(o, efs)
      <4>1. PICK o \in DOMAIN pag.ops : \E efs : Empieza(o, efs)
        BY <3>1
      <4>2. PICK n : n = Nuevo
        OBVIOUS
      <4>3. DOMAIN envios' = DOMAIN envios \cup {n}
        BY <1>2, <4>1, <4>2, EmpiezaEnvios
      <4>4. i = n
        BY <1>7, <2>2, <4>3
      <4> QED BY <1>6, <1>7, <4>1, <4>2, <4>4
    <3>2. CASE Mira
      BY <1>7, <2>2, <3>2 DEF Mira
    <3>3. CASE \E g \in DOMAIN pag.fichas : CierraFicha(g)
      BY <1>1, <1>7, <2>2, <3>3, CierraFichaTipo
    <3>4. CASE \E k \in DOMAIN envios : \E efs, falla : Contesta(k, efs, falla)
      BY <1>2, <1>7, <2>2, <3>4, ContestaEnvios
    <3> QED BY <1>1, <3>1, <3>2, <3>3, <3>4, Pasos
  <2> QED BY <2>1, <2>2
<1>8. CierreInv'
  BY <1>3, <1>7 DEF CierreInv
<1> QED BY <1>1, <1>8 DEF PropiaInv

\* There are none as the page opens.
LEMMA InitPropiaInv == Init => PropiaInv
<1> SUFFICES ASSUME Init PROVE PropiaInv
  OBVIOUS
<1>1. DOMAIN envios = {}
  BY DEF Init
<1> QED BY <1>1, InitFichasInv DEF PropiaInv, CierreInv

\* What FichaPropia says of the handler i in a step.
Propia(i) ==
  LET f == Op(envios[i].op).desde
  IN (/\ ~Terminado(i) /\ envios'[i].paso = 0
      /\ f # Fila /\ ficha'[f].num # ficha[f].num)
     => envios[i].ficha = ficha[f].num /\ Cumplido(i, ToSet(tabla'))

\* Hence a step closes a dialog only for the request that came from it.
LEMMA PasoPropio ==
  ASSUME PropiaInv, [Next]_vars, pagina \notin Descuidadas, NEW i \in DOMAIN envios
  PROVE  Propia(i)
<1> SUFFICES ASSUME ~Terminado(i), envios'[i].paso = 0, Mano(i).desde # Fila,
                    ficha'[Mano(i).desde].num # ficha[Mano(i).desde].num
             PROVE  envios[i].ficha = ficha[Mano(i).desde].num /\ Cumplido(i, ToSet(tabla'))
  BY DEF Propia, Mano
<1>1. FichasInv /\ TypeInv /\ CierreInv
  BY DEF PropiaInv, FichasInv
<1>2. PaginaTipo /\ PantallaTipo /\ EnviosTipo /\ ManosInv
  BY <1>1, TiposJuntos DEF TypeInv
<1>3. Mano(i).desde \in DOMAIN pag.fichas
  BY <1>1, FichaDe
<1>4. \E efs, falla : Contesta(i, efs, falla)
  <2>1. envios[i].paso # 0
    BY DEF Terminado
  <2>2. CASE Mira
    BY <2>1, <2>2 DEF Mira
  <2>3. ASSUME NEW f \in DOMAIN pag.fichas, CierraFicha(f)
        PROVE  FALSE
    BY <1>1, <2>1, <2>3, CierraFichaTipo
  <2>4. ASSUME NEW o \in DOMAIN pag.ops, NEW efs, Empieza(o, efs)
        PROVE  FALSE
    <3>1. PICK n : n = Nuevo
      OBVIOUS
    <3> QED BY <1>2, <2>1, <2>4, <3>1, EmpiezaEnvios
  <2>5. ASSUME NEW k \in DOMAIN envios, NEW efs, NEW falla, Contesta(k, efs, falla)
        PROVE  k = i
    BY <1>2, <2>1, <2>5, ContestaEnvios
  <2> QED BY <1>1, <2>2, <2>3, <2>4, <2>5, Pasos
<1>5. PICK efs, falla : Contesta(i, efs, falla)
  BY <1>4
<1>6. Cierra(i)
  BY <1>1, <1>3, <1>5, ContestaCierra
<1>7. envios[i].ficha = ficha[Mano(i).desde].num
  BY <1>1, <1>6 DEF CierreInv
<1>8. \A n \in DOMAIN Mano(i).pasos : Cambia(Mano(i).pasos[n]) => <<i, n>> \in Hechos'
  BY <1>1, <1>5, <1>6, ContestaNoLaMueve
<1>9. Mano(i).pasos # <<>>
  <2>1. envios[i].paso \in DOMAIN Mano(i).pasos
    BY <1>2, ManoForma
  <2> QED BY <2>1
<1> QED BY <1>7, <1>8, <1>9 DEF Cumplido, Mano, Cambia, Hechos

\* On a page that keeps the habit CierraLoSuyo a handler that ends closes, or empties, a
\* form only as it was filled when the handler was sent from it, and only when all its
\* changes were made, however many controls, cancels and failures there are.
THEOREM SpecFichaPropia == Spec => FichaPropia
<1>1. PropiaInv /\ [Next]_vars =>
        [pagina \notin Descuidadas =>
           \A i \in DOMAIN envios :
             LET f == Op(envios[i].op).desde
             IN (/\ ~Terminado(i) /\ envios'[i].paso = 0
                 /\ f # Fila /\ ficha'[f].num # ficha[f].num)
                => envios[i].ficha = ficha[f].num /\ Cumplido(i, ToSet(tabla'))]_vars
  BY PasoPropio DEF Propia
<1> QED BY <1>1, InitPropiaInv, NextPropiaInv, PTL DEF Spec, FichaPropia

==============================================================================
