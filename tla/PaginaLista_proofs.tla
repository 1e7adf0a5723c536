------------------------- MODULE PaginaLista_proofs --------------------------
(***************************************************************************)
(* Proofs about Pagina: the rows on the screen.  A page that keeps the     *)
(* habit MuestraSusCambios misses no change: each one it does not show is  *)
(* still to come, with a read, a handler or a dialog.                      *)
(***************************************************************************)
EXTENDS Pagina_proofs

\* The changes that the k-th read in flight shows at least.
Vista(k) == {tabla[p] : p \in 1..lecturas[k].desde}

\* A dialog with a result waits, and accepting it asks for the rows.
Espera ==
  /\ AceptarRefresca(pag)
  /\ \E g \in DOMAIN pag.fichas : pag.fichas[g] = "resultado" /\ ficha[g].abierta

\* The page will show c: with a read that no newer one overtook, at the end of its
\* handler or with the dialog; or it will show no rows.
PorVer(c) ==
  \/ \E k \in DOMAIN lecturas : ~lecturas[k].vieja /\ c \in Vista(k)
  \/ ~Terminado(c[1])
  \/ Espera
  \/ fuera
  \/ LeeSinToken

\* Reads are in the order in which they were asked, and so are those overtaken.
OrdenInv ==
  /\ \A k \in DOMAIN lecturas : lecturas[k].desde <= Len(tabla)
  /\ \A j, k \in DOMAIN lecturas : j <= k =>
       /\ lecturas[j].desde <= lecturas[k].desde
       /\ lecturas[k].vieja => lecturas[j].vieja

\* The last read asked is for the filter chosen, and when it was answered or
\* overtaken so are the rows.
FiltroInv ==
  IF lecturas # <<>> /\ ~lecturas[Len(lecturas)].vieja
  THEN lecturas[Len(lecturas)].filtro = filtro
  ELSE lista.leida => lista.filtro = filtro

DatosInv ==
  /\ lista.cambios \subseteq Hechos
  /\ \A c \in Hechos : c \in lista.cambios \/ PorVer(c)
  /\ OrdenInv
  /\ FiltroInv
  /\ LeeSinToken => lecturas = <<>> /\ ~lista.leida

\* What a stumble does not excuse: nothing is asked for that needs a token.
ListaInv ==
  /\ TypeInv
  /\ LeeSinToken => lecturas = <<>>
  /\ (pagina \notin Desviadas /\ pag.lee /\ ~tropiezo) => DatosInv

(***************************************************************************)
(* The table and the reads                                                 *)
(***************************************************************************)

\* The table is the sequence of the changes made.
LEMMA TablaForma ==
  ASSUME TypeInv
  PROVE  /\ tabla \in Seq(Cambio) /\ Len(tabla) \in Nat /\ DOMAIN tabla = 1..Len(tabla)
         /\ Hechos = {tabla[p] : p \in 1..Len(tabla)}
         /\ lecturas \in Seq(Lectura) /\ Len(lecturas) \in Nat
         /\ DOMAIN lecturas = 1..Len(lecturas)
         /\ \A k \in DOMAIN lecturas : lecturas[k] \in Lectura /\ lecturas[k].desde \in Nat
<1>1. tabla \in Seq(Cambio) /\ lecturas \in Seq(Lectura)
  BY TiposJuntos DEF TypeInv, PantallaTipo, EnviosTipo
<1>2. /\ Len(tabla) \in Nat /\ DOMAIN tabla = 1..Len(tabla)
      /\ Len(lecturas) \in Nat /\ DOMAIN lecturas = 1..Len(lecturas)
  BY <1>1, SecuenciaLargo
<1>3. \A k \in DOMAIN lecturas : lecturas[k] \in Lectura
  BY <1>1
<1>4. \A r \in Lectura : r.desde \in Nat
  BY DEF Lectura
<1> QED BY <1>1, <1>2, <1>3, <1>4 DEF Hechos, ToSet

\* What a reading that started at a point of the table brings.
LEMMA RecorteConjunto ==
  ASSUME TypeInv, NEW n \in Nat, n <= Len(tabla)
  PROVE  ToSet(SubSeq(tabla, 1, n)) = {tabla[p] : p \in 1..n}
<1>1. tabla \in Seq(Cambio) /\ Len(tabla) \in Nat
  BY TablaForma
<1>2. /\ DOMAIN SubSeq(tabla, 1, n) = 1..n
      /\ \A p \in 1..n : SubSeq(tabla, 1, n)[p] = tabla[p]
  BY <1>1
<1> QED BY <1>2 DEF ToSet

\* The table only grows.
TablaCrece == tabla' = tabla \/ \E c \in Cambio : tabla' = Append(tabla, c)

\* The table only grows.
LEMMA TablaCreceHace ==
  ASSUME TypeInv, TypeInv', TablaCrece
  PROVE  /\ Len(tabla) <= Len(tabla') /\ Len(tabla') \in Nat
         /\ \A p \in 1..Len(tabla) : tabla'[p] = tabla[p]
         /\ Hechos \subseteq Hechos' /\ Hechos' = {tabla'[p] : p \in 1..Len(tabla')}
<1>1. tabla \in Seq(Cambio) /\ Len(tabla) \in Nat /\ Hechos = {tabla[p] : p \in 1..Len(tabla)}
  BY TablaForma
<1>2. /\ Len(tabla) <= Len(tabla') /\ Len(tabla') \in Nat
      /\ \A p \in 1..Len(tabla) : tabla'[p] = tabla[p]
      /\ tabla' \in Seq(Cambio)
  <2>1. CASE tabla' = tabla
    BY <1>1, <2>1
  <2>2. ASSUME NEW c \in Cambio, tabla' = Append(tabla, c)
        PROVE  /\ Len(tabla) <= Len(tabla') /\ Len(tabla') \in Nat
               /\ \A p \in 1..Len(tabla) : tabla'[p] = tabla[p]
               /\ tabla' \in Seq(Cambio)
    BY <1>1, <2>2
  <2> QED BY <2>1, <2>2 DEF TablaCrece
<1>3. Hechos' = {tabla'[p] : p \in 1..Len(tabla')}
  <2>1. DOMAIN tabla' = 1..Len(tabla')
    BY <1>2, SecuenciaLargo
  <2> QED BY <2>1 DEF Hechos, ToSet
<1> QED BY <1>1, <1>2, <1>3

\* The step asks for the rows or does not; it does when the filter changes.
Relectura ==
  \/ lecturas' = lecturas /\ (filtro' = filtro \/ LeeSinToken)
  \/ ~LeeSinToken /\ lecturas' = Pedidas(filtro', Len(tabla'))

\* What was asked before is still in flight, and what is asked now shows everything.
LEMMA PideHace ==
  ASSUME TypeInv, TypeInv', OrdenInv, TablaCrece, Relectura
  PROVE  /\ OrdenInv'
         /\ \A k \in DOMAIN lecturas :
              /\ k \in DOMAIN lecturas' /\ lecturas'[k] = lecturas[k]
              /\ Vista(k)' = Vista(k)
         /\ lecturas' = Pedidas(filtro', Len(tabla')) =>
              /\ lecturas' # <<>>
              /\ lecturas'[Len(lecturas')].filtro = filtro' /\ ~lecturas'[Len(lecturas')].vieja
              /\ \E k \in DOMAIN lecturas' : ~lecturas'[k].vieja /\ Vista(k)' = Hechos'
<1>1. /\ lecturas \in Seq(Lectura) /\ Len(lecturas) \in Nat /\ DOMAIN lecturas = 1..Len(lecturas)
      /\ \A k \in DOMAIN lecturas : lecturas[k].desde \in Nat /\ lecturas[k].desde <= Len(tabla)
      /\ Len(tabla) \in Nat
  BY TablaForma DEF OrdenInv
<1>2. /\ Len(tabla) <= Len(tabla') /\ Len(tabla') \in Nat
      /\ \A p \in 1..Len(tabla) : tabla'[p] = tabla[p]
      /\ Hechos' = {tabla'[p] : p \in 1..Len(tabla')}
  BY TablaCreceHace
<1>3. ASSUME NEW k \in DOMAIN lecturas, lecturas'[k] = lecturas[k]
      PROVE  Vista(k)' = Vista(k)
  <2>1. \A p \in 1..lecturas[k].desde : tabla'[p] = tabla[p]
    BY <1>1, <1>2
  <2> QED BY <1>3, <2>1 DEF Vista
<1>4. ASSUME lecturas' = lecturas
      PROVE  /\ OrdenInv'
             /\ \A k \in DOMAIN lecturas :
                  k \in DOMAIN lecturas' /\ lecturas'[k] = lecturas[k] /\ Vista(k)' = Vista(k)
  <2>1. OrdenInv'
    <3>1. \A a, b, c \in Nat : a <= b /\ b <= c => a <= c
      OBVIOUS
    <3>2. \A k \in DOMAIN lecturas : lecturas[k].desde <= Len(tabla')
      BY <1>1, <1>2, <3>1
    <3> QED BY <1>4, <3>2 DEF OrdenInv
  <2> QED BY <1>3, <1>4, <2>1
<1>5. CASE lecturas' = Pedidas(filtro', Len(tabla'))
  <2> DEFINE r == [filtro |-> filtro', desde |-> Len(tabla'), vieja |-> FALSE]
  <2>1. r.filtro = filtro' /\ r.desde = Len(tabla') /\ ~r.vieja
    OBVIOUS
  <2>2. lecturas' = Append(lecturas, r)
    BY <1>5 DEF Pedidas
  <2> HIDE DEF r
  <2>3. PICK n : n = Len(lecturas) + 1
    OBVIOUS
  <2>4. /\ Len(lecturas') = n /\ DOMAIN lecturas' = 1..n /\ lecturas'[n] = r
        /\ \A k \in 1..Len(lecturas) : lecturas'[k] = lecturas[k]
        /\ n \in Nat /\ n > Len(lecturas)
    BY <1>1, <2>2, <2>3
  <2>5. Vista(n)' = Hechos'
    BY <1>2, <2>1, <2>4 DEF Vista
  <2>6. OrdenInv'
    <3>1. ASSUME NEW k \in 1..n
          PROVE  lecturas'[k].desde <= Len(tabla')
      <4>1. CASE k \in 1..Len(lecturas)
        <5>1. \A a, b, c \in Nat : a <= b /\ b <= c => a <= c
          OBVIOUS
        <5> QED BY <1>1, <1>2, <2>4, <4>1, <5>1
      <4>2. CASE k = n
        BY <1>2, <2>1, <2>4, <4>2
      <4> QED BY <1>1, <2>3, <4>1, <4>2
    <3>2. ASSUME NEW j \in 1..n, NEW k \in 1..n, j <= k
          PROVE  /\ lecturas'[j].desde <= lecturas'[k].desde
                 /\ lecturas'[k].vieja => lecturas'[j].vieja
      <4>1. CASE k \in 1..Len(lecturas)
        <5>1. j \in 1..Len(lecturas)
          BY <1>1, <3>2, <4>1
        <5> QED BY <1>1, <2>4, <3>2, <4>1, <5>1 DEF OrdenInv
      <4>2. CASE k = n
        BY <2>1, <2>4, <3>1, <4>2
      <4> QED BY <1>1, <2>3, <4>1, <4>2
    <3> QED BY <2>4, <3>1, <3>2 DEF OrdenInv
  <2>7. n \in DOMAIN lecturas' /\ lecturas' # <<>>
    BY <2>4
  <2> QED BY <1>1, <1>3, <2>1, <2>4, <2>5, <2>6, <2>7
<1> QED BY <1>4, <1>5 DEF Relectura

\* A read that is answered leaves those asked after it as they were.
LEMMA QuedanHace ==
  ASSUME TypeInv, OrdenInv, NEW j \in DOMAIN lecturas, lecturas' = Quedan(j), tabla' = tabla
  PROVE  /\ OrdenInv'
         /\ \A k \in DOMAIN lecturas : k > j => \E m \in DOMAIN lecturas' : lecturas'[m] = lecturas[k]
         /\ \A m \in DOMAIN lecturas' : m < j => lecturas'[m].vieja
         /\ j < Len(lecturas) => /\ lecturas' # <<>>
                                 /\ lecturas'[Len(lecturas')] = lecturas[Len(lecturas)]
         /\ j = Len(lecturas) => \A m \in DOMAIN lecturas' : lecturas'[m].vieja
<1> DEFINE l == Len(lecturas)
           r(k) == lecturas[IF k < j THEN k ELSE k + 1]
<1>1. /\ l \in Nat /\ DOMAIN lecturas = 1..l /\ j \in 1..l
      /\ \A k \in 1..l : lecturas[k] \in Lectura /\ lecturas[k].desde \in Nat
  BY TablaForma
<1>2. PantallaTipo
  BY TiposJuntos DEF TypeInv
<1>3. /\ Len(lecturas') = l - 1 /\ DOMAIN lecturas' = 1..(l - 1)
      /\ \A k \in 1..(l - 1) : lecturas'[k] = [filtro |-> r(k).filtro, desde |-> r(k).desde,
                                                vieja |-> r(k).vieja \/ k < j]
  <2>1. lecturas' \in Seq(Lectura) /\ Len(lecturas') = l - 1
    BY <1>2, QuedanTipo
  <2>2. DOMAIN lecturas' = 1..(l - 1)
    BY <2>1, SecuenciaLargo
  <2> QED BY <1>2, <2>1, <2>2, QuedanTipo
<1> HIDE DEF l
<1>4. ASSUME NEW k \in 1..(l - 1)
      PROVE  /\ lecturas'[k].desde = r(k).desde /\ lecturas'[k].filtro = r(k).filtro
             /\ lecturas'[k].vieja <=> (r(k).vieja \/ k < j)
  <2> DEFINE q == r(k)
             b == q.vieja \/ k < j
  <2>1. lecturas'[k] = [filtro |-> q.filtro, desde |-> q.desde, vieja |-> b]
    BY <1>3
  <2> HIDE DEF q, b
  <2>2. /\ lecturas'[k].desde = q.desde /\ lecturas'[k].filtro = q.filtro
        /\ lecturas'[k].vieja = b
    BY <2>1
  <2> QED BY <2>2 DEF q, b
<1>5. ASSUME NEW k \in 1..(l - 1), k >= j
      PROVE  k + 1 \in 1..l /\ lecturas'[k] = lecturas[k + 1]
  <2>1. k + 1 \in 1..l /\ ~(k < j)
    BY <1>1, <1>5
  <2>2. r(k) = lecturas[k + 1] /\ lecturas[k + 1] \in Lectura
    BY <1>1, <2>1
  <2> DEFINE q == lecturas[k + 1]
  <2>3. lecturas'[k] = [filtro |-> q.filtro, desde |-> q.desde, vieja |-> q.vieja \/ k < j]
    BY <1>3, <2>2
  <2>4. q \in Lectura
    BY <2>2
  <2> HIDE DEF q
  <2>5. [filtro |-> q.filtro, desde |-> q.desde, vieja |-> q.vieja \/ k < j] = q
    <3>1. q = [filtro |-> q.filtro, desde |-> q.desde, vieja |-> q.vieja] /\ q.vieja \in BOOLEAN
      BY <2>4 DEF Lectura
    <3>2. (q.vieja \/ k < j) = q.vieja
      BY <2>1, <3>1
    <3> QED BY <3>1, <3>2
  <2> QED BY <2>1, <2>3, <2>5 DEF q
<1>6. OrdenInv'
  <2>1. ASSUME NEW k \in 1..(l - 1)
        PROVE  (IF k < j THEN k ELSE k + 1) \in 1..l
    BY <1>1
  <2>2. ASSUME NEW k \in 1..(l - 1)
        PROVE  lecturas'[k].desde <= Len(tabla')
    BY <1>1, <1>4, <2>1 DEF OrdenInv
  <2>3. ASSUME NEW i \in 1..(l - 1), NEW k \in 1..(l - 1), i <= k
        PROVE  /\ lecturas'[i].desde <= lecturas'[k].desde
               /\ lecturas'[k].vieja => lecturas'[i].vieja
    <3> DEFINE a == IF i < j THEN i ELSE i + 1
               b == IF k < j THEN k ELSE k + 1
    <3>1. a \in 1..l /\ b \in 1..l /\ a <= b /\ (k < j => i < j)
      BY <1>1, <2>3
    <3>2. lecturas[a].desde <= lecturas[b].desde /\ (lecturas[b].vieja => lecturas[a].vieja)
      BY <1>1, <3>1 DEF OrdenInv
    <3>3. r(i) = lecturas[a] /\ r(k) = lecturas[b]
      OBVIOUS
    <3> HIDE DEF a, b, r
    <3> QED BY <1>4, <3>1, <3>2, <3>3
  <2> QED BY <1>3, <2>2, <2>3 DEF OrdenInv
<1>7. ASSUME NEW k \in 1..l, k > j
      PROVE  \E m \in 1..(l - 1) : lecturas'[m] = lecturas[k]
  <2>1. k - 1 \in 1..(l - 1) /\ k - 1 >= j /\ (k - 1) + 1 = k
    BY <1>1, <1>7
  <2> QED BY <1>5, <2>1
<1>8. \A m \in 1..(l - 1) : m < j => lecturas'[m].vieja
  BY <1>4
<1>9. ASSUME j < l
      PROVE  lecturas' # <<>> /\ lecturas'[Len(lecturas')] = lecturas[l]
  <2>1. l - 1 \in 1..(l - 1) /\ l - 1 >= j /\ (l - 1) + 1 = l
    BY <1>1, <1>9
  <2>2. lecturas'[l - 1] = lecturas[l]
    BY <1>5, <2>1
  <2> QED BY <1>3, <2>1, <2>2
<1>10. ASSUME j = l, NEW m \in 1..(l - 1)
       PROVE  lecturas'[m].vieja
  BY <1>1, <1>8, <1>10
<1> QED BY <1>1, <1>3, <1>6, <1>7, <1>8, <1>9, <1>10 DEF l

(***************************************************************************)
(* The rows come                                                           *)
(***************************************************************************)

\* A step with the same page and token.
LEMMA SinTokenIgual ==
  ASSUME pagina' = pagina, conToken' = conToken
  PROVE  LeeSinToken' = LeeSinToken /\ pag' = pag
BY MismaPagina DEF LeeSinToken

\* An arriving list shows what was made before it was asked for.
LEMMA RecibeListaDatos ==
  ASSUME TypeInv, DatosInv, NEW j \in DOMAIN lecturas, RecibeLista(j), ~tropiezo, ~tropiezo'
  PROVE  DatosInv'
<1>1. PICK n \in lecturas[j].desde .. Len(tabla) :
        /\ lista' = [filtro |-> lecturas[j].filtro, cambios |-> ToSet(SubSeq(tabla, 1, n)),
                     leida |-> TRUE]
        /\ ~Retrocede(j, ToSet(SubSeq(tabla, 1, n)))
  BY DEF RecibeLista
<1>2. /\ lecturas' = Quedan(j)
      /\ UNCHANGED <<pagina, conToken, tabla, filtro, giros, ficha, envios, ocupado,
                     aviso, fuera, perdida>>
  BY DEF RecibeLista
<1>3. /\ lecturas \in Seq(Lectura) /\ DOMAIN lecturas = 1..Len(lecturas) /\ Len(lecturas) \in Nat
      /\ \A k \in DOMAIN lecturas : lecturas[k].desde \in Nat
      /\ Len(tabla) \in Nat /\ Hechos = {tabla[p] : p \in 1..Len(tabla)}
      /\ j \in 1..Len(lecturas)
  BY TablaForma
<1>4. n \in Nat /\ n <= Len(tabla) /\ lecturas[j].desde <= n
  BY <1>1, <1>3
<1> DEFINE v == {tabla[p] : p \in 1..n}
<1>5. /\ lista'.cambios = v /\ lista'.filtro = lecturas[j].filtro /\ lista'.leida = TRUE
      /\ (lecturas[j].vieja => lecturas[j].filtro = filtro) /\ lista.cambios \cap Hechos \subseteq v
  <2>1. ToSet(SubSeq(tabla, 1, n)) = v
    BY <1>4, RecorteConjunto
  <2> QED BY <1>1, <2>1 DEF Retrocede
<1>6. /\ OrdenInv'
      /\ \A k \in DOMAIN lecturas : k > j => \E m \in DOMAIN lecturas' : lecturas'[m] = lecturas[k]
      /\ j < Len(lecturas) => /\ lecturas' # <<>>
                              /\ lecturas'[Len(lecturas')] = lecturas[Len(lecturas)]
      /\ j = Len(lecturas) => \A m \in DOMAIN lecturas' : lecturas'[m].vieja
  <2>1. OrdenInv
    BY DEF DatosInv
  <2> QED BY <1>2, <2>1, QuedanHace
<1>7. LeeSinToken' = LeeSinToken /\ pag' = pag /\ Hechos' = Hechos
  BY <1>2, SinTokenIgual DEF Hechos
<1>8. v \subseteq Hechos
  <2>1. \A p \in 1..n : p \in 1..Len(tabla)
    BY <1>3, <1>4
  <2> QED BY <1>3, <2>1
<1>9. ASSUME NEW k \in DOMAIN lecturas, k <= j
      PROVE  Vista(k) \subseteq v
  <2>1. lecturas[k].desde <= lecturas[j].desde
    BY <1>9 DEF DatosInv, OrdenInv
  <2>2. \A p \in 1..lecturas[k].desde : p \in 1..n
    BY <1>3, <1>4, <2>1
  <2> QED BY <2>2 DEF Vista
<1>10. ASSUME NEW c \in Hechos
       PROVE  c \in lista'.cambios \/ PorVer(c)'
  <2>1. CASE c \in lista.cambios
    BY <1>5, <2>1
  <2>2. ASSUME NEW k \in DOMAIN lecturas, ~lecturas[k].vieja, c \in Vista(k)
        PROVE  c \in lista'.cambios \/ PorVer(c)'
    <3>1. CASE k <= j
      BY <1>5, <1>9, <2>2, <3>1
    <3>2. CASE k > j
      <4>1. PICK m \in DOMAIN lecturas' : lecturas'[m] = lecturas[k]
        BY <1>6, <3>2
      <4>2. Vista(m)' = Vista(k)
        BY <1>2, <4>1 DEF Vista
      <4> QED BY <2>2, <4>1, <4>2 DEF PorVer
    <3> QED BY <1>3, <3>1, <3>2
  <2>3. CASE ~Terminado(c[1]) \/ fuera \/ LeeSinToken
    BY <1>2, <1>7, <2>3 DEF PorVer, Terminado
  <2>4. CASE Espera
    <3>1. Espera'
      BY <1>2, <1>7, <2>4 DEF Espera
    <3> QED BY <3>1 DEF PorVer
  <2> QED BY <2>1, <2>2, <2>3, <2>4 DEF DatosInv, PorVer
<1>11. FiltroInv'
  <2>1. CASE j < Len(lecturas)
    <3> DEFINE u == lecturas[Len(lecturas)]
    <3>1. lecturas' # <<>> /\ lecturas'[Len(lecturas')] = u /\ lecturas # <<>>
      BY <1>3, <1>6, <2>1
    <3>2. CASE ~u.vieja
      <4>1. u.filtro = filtro
        BY <3>1, <3>2 DEF DatosInv, FiltroInv
      <4> QED BY <1>2, <3>1, <3>2, <4>1 DEF FiltroInv
    <3>3. CASE u.vieja
      <4>1. Len(lecturas) \in DOMAIN lecturas /\ j <= Len(lecturas)
        BY <1>3, <2>1
      <4>2. lecturas[j].filtro = filtro
        BY <1>5, <3>3, <4>1 DEF DatosInv, OrdenInv
      <4> QED BY <1>2, <1>5, <3>1, <3>3, <4>2 DEF FiltroInv
    <3> QED BY <3>2, <3>3
  <2>2. CASE j = Len(lecturas)
    <3>1. lecturas # <<>> /\ lecturas[j].filtro = filtro
      <4>1. lecturas # <<>>
        BY <1>3
      <4> QED BY <1>5, <2>2, <4>1 DEF DatosInv, FiltroInv
    <3>2. lecturas' # <<>> => lecturas'[Len(lecturas')].vieja
      <4>1. PantallaTipo
        BY TiposJuntos DEF TypeInv
      <4>2. lecturas' \in Seq(Lectura)
        BY <1>2, <4>1, QuedanTipo
      <4>3. lecturas' # <<>> => Len(lecturas') \in DOMAIN lecturas'
        BY <4>2
      <4> QED BY <1>6, <2>2, <4>3
    <3> QED BY <1>2, <1>5, <3>1, <3>2 DEF FiltroInv
  <2> QED BY <1>3, <2>1, <2>2
<1>12. ~LeeSinToken'
  <2>1. lecturas # <<>>
    BY <1>3
  <2> QED BY <1>7, <2>1 DEF DatosInv
<1> QED BY <1>5, <1>6, <1>7, <1>8, <1>10, <1>11, <1>12 DEF DatosInv

(***************************************************************************)
(* The other steps                                                         *)
(***************************************************************************)

\* Each change made is shown after the step, or will be.
Todo == \A c \in Hechos : c \in lista.cambios \/ PorVer(c)

\* The rows keep the changes they show, show none that was not made, and come, if
\* they come with the answer to a handler, for the filter chosen.
ListaSigue ==
  /\ lista.cambios \subseteq lista'.cambios /\ lista'.cambios \subseteq Hechos'
  /\ \/ lista'.filtro = lista.filtro /\ lista'.leida = lista.leida
     \/ lista'.filtro = filtro' /\ ~LeeSinToken /\ filtro' = filtro

\* A reading asked for now will bring everything made so far.
LEMMA PideTodo ==
  ASSUME TypeInv, TypeInv', OrdenInv, TablaCrece, Relectura, lecturas' = Pedidas(filtro', Len(tabla'))
  PROVE  Todo'
<1>1. \E k \in DOMAIN lecturas' : ~lecturas'[k].vieja /\ Vista(k)' = Hechos'
  BY PideHace
<1> QED BY <1>1 DEF Todo, PorVer

\* A step that asks for a reading.
LEMMA PideDatos ==
  ASSUME TypeInv, TypeInv', DatosInv, TablaCrece, Relectura, pagina' = pagina, conToken' = conToken,
         fuera => fuera', ListaSigue,
         Espera => Todo',
         \A c \in Hechos' : c \notin Hechos \/ ~Terminado(c[1]) =>
           c \in lista'.cambios \/ PorVer(c)'
  PROVE  DatosInv'
<1>1. /\ OrdenInv /\ FiltroInv /\ Todo
      /\ LeeSinToken => lecturas = <<>> /\ ~lista.leida
  BY DEF DatosInv, Todo
<1>2. /\ OrdenInv'
      /\ \A k \in DOMAIN lecturas :
           k \in DOMAIN lecturas' /\ lecturas'[k] = lecturas[k] /\ Vista(k)' = Vista(k)
      /\ lecturas' = Pedidas(filtro', Len(tabla')) =>
           /\ lecturas' # <<>>
           /\ lecturas'[Len(lecturas')].filtro = filtro' /\ ~lecturas'[Len(lecturas')].vieja
  BY <1>1, PideHace
<1>3. LeeSinToken' = LeeSinToken /\ pag' = pag
  BY SinTokenIgual
<1>4. ASSUME NEW c \in Hechos'
      PROVE  c \in lista'.cambios \/ PorVer(c)'
  <2>1. CASE c \notin Hechos \/ ~Terminado(c[1])
    BY <1>4, <2>1
  <2>2. CASE Espera
    BY <2>2, <1>4 DEF Todo
  <2>3. CASE c \in lista.cambios
    BY <2>3 DEF ListaSigue
  <2>4. CASE fuera \/ LeeSinToken
    BY <1>3, <2>4 DEF PorVer
  <2>5. ASSUME NEW k \in DOMAIN lecturas, ~lecturas[k].vieja, c \in Vista(k)
        PROVE  PorVer(c)'
    BY <1>2, <2>5 DEF PorVer
  <2> QED BY <1>1, <2>1, <2>2, <2>3, <2>4, <2>5 DEF Todo, PorVer
<1>5. FiltroInv'
  <2>1. CASE lecturas' = Pedidas(filtro', Len(tabla'))
    BY <1>2, <2>1 DEF FiltroInv
  <2>2. CASE lecturas' = lecturas /\ filtro' = filtro
    BY <1>1, <2>2 DEF FiltroInv, ListaSigue
  <2>3. CASE lecturas' = lecturas /\ LeeSinToken
    <3>1. lecturas' = <<>> /\ ~lista'.leida
      BY <1>1, <2>3 DEF ListaSigue
    <3> QED BY <3>1 DEF FiltroInv
  <2> QED BY <2>1, <2>2, <2>3 DEF Relectura
<1>6. LeeSinToken' => lecturas' = <<>> /\ ~lista'.leida
  BY <1>1, <1>3 DEF ListaSigue, Relectura
<1> QED BY <1>2, <1>4, <1>5, <1>6 DEF DatosInv, ListaSigue

\* A step that may ask for the rows and opens forms, but touches nothing else.
LEMMA AparteDatos ==
  ASSUME TypeInv, TypeInv', DatosInv, Relectura,
         UNCHANGED <<pagina, conToken, tabla, lista, envios, fuera>>,
         \A g \in DOMAIN pag.fichas : pag.fichas[g] = "resultado" /\ ficha[g].abierta =>
           ficha'[g].abierta
  PROVE  DatosInv'
<1>1. Hechos' = Hechos /\ pag' = pag
  BY MismaPagina DEF Hechos
<1>2. TablaCrece
  BY DEF TablaCrece
<1>3. ListaSigue
  BY <1>1 DEF ListaSigue, DatosInv
<1>4. Espera => Todo'
  <2>1. Espera => Espera'
    BY <1>1 DEF Espera
  <2> QED BY <2>1 DEF Todo, PorVer
<1>5. \A c \in Hechos' : c \notin Hechos \/ ~Terminado(c[1]) => c \in lista'.cambios \/ PorVer(c)'
  BY <1>1 DEF PorVer, Terminado
<1> QED BY <1>2, <1>3, <1>4, <1>5, PideDatos

\* What a set of effects of a handler of o does to the rows.
LEMMA AplicaDatos ==
  ASSUME TypeInv, TypeInv', DatosInv, TablaCrece, MuestraSusCambios(pag),
         pagina' = pagina, conToken' = conToken, filtro' = filtro,
         NEW o \in DOMAIN pag.ops, NEW efs, efs = {"sigue"} \/ efs \in Respuestas(Op(o)),
         NEW i, NEW cambios \in Filas, envios'[i].vista \in Filas, NEW ocupados,
         Aplica(efs, i, Op(o).desde, cambios, ocupados),
         "local" \in efs => cambios \subseteq Hechos',
         "trae" \in efs => ~LeeSinToken
  PROVE  /\ Relectura /\ ListaSigue /\ (fuera => fuera') /\ (Espera => Todo')
         /\ PoneAlDia(pag, efs) => Todo' \/ cambios \subseteq lista'.cambios
<1> DEFINE f == Op(o).desde
<1>1. PantallaTipo /\ PaginaTipo /\ tabla' \in Seq(Cambio)
  BY TiposJuntos DEF TypeInv, EnviosTipo
<1>2. /\ lista' = ListaTras(efs, cambios, envios'[i].vista) /\ ficha' = FichasTras(efs, f)
      /\ fuera => fuera'
      /\ "sale" \in efs => fuera'
  BY DEF Aplica
<1>3. /\ Relee(efs, i) /\ ~LeeSinToken => lecturas' = Pedidas(filtro, Len(tabla'))
      /\ ~(Relee(efs, i) /\ ~LeeSinToken) => lecturas' = lecturas
  BY DEF Aplica
<1>4. Relectura
  BY <1>3 DEF Relectura
<1>5. LeeSinToken' = LeeSinToken /\ pag' = pag
  BY SinTokenIgual
<1>6. "relee" \in efs => Todo'
  <2>1. CASE LeeSinToken
    BY <1>5, <2>1 DEF Todo, PorVer
  <2>2. CASE "relee" \in efs /\ ~LeeSinToken
    <3>1. lecturas' = Pedidas(filtro', Len(tabla'))
      BY <1>3, <2>2 DEF Relee
    <3> QED BY <1>4, <3>1, PideTodo DEF DatosInv
  <2> QED BY <2>1, <2>2
<1>7. {"copia", "confunde", "vacia"} \cap efs = {}
  BY DEF MuestraSusCambios, Op
<1>8. IF "trae" \in efs
      THEN lista' = [filtro |-> filtro, cambios |-> Hechos', leida |-> TRUE]
      ELSE /\ lista'.cambios = lista.cambios \cup {c \in cambios : "local" \in efs}
           /\ lista'.filtro = lista.filtro /\ lista'.leida = lista.leida
  <2>1. PICK v \in Filas : v = envios'[i].vista
    OBVIOUS
  <2>2. lista' = ListaTras(efs, cambios, v)
    BY <1>2, <2>1
  <2>3. IF "trae" \in efs
        THEN ListaTras(efs, cambios, v) = [filtro |-> filtro, cambios |-> Hechos', leida |-> TRUE]
        ELSE /\ ListaTras(efs, cambios, v).cambios
                  = lista.cambios \cup {c \in cambios : "local" \in efs}
             /\ ListaTras(efs, cambios, v).filtro = lista.filtro
             /\ ListaTras(efs, cambios, v).leida = lista.leida
    BY <1>1, <1>7, ListaTrasHace
  <2> QED BY <2>2, <2>3
<1>9. "trae" \in efs => Todo'
  BY <1>8 DEF Todo
<1>10. ListaSigue
  <2>1. Hechos \subseteq Hechos' /\ lista.cambios \subseteq Hechos
    BY TablaCreceHace DEF DatosInv
  <2>2. CASE "trae" \in efs
    BY <1>8, <2>1, <2>2 DEF ListaSigue
  <2>3. CASE "trae" \notin efs
    BY <1>8, <2>1, <2>3 DEF ListaSigue
  <2> QED BY <2>2, <2>3
<1>11. "sale" \in efs => Todo'
  BY <1>2 DEF Todo, PorVer
<1>12. \A g \in DOMAIN pag.fichas : ~(g = f /\ "cierra" \in efs) =>
         /\ pag.fichas[g] = "resultado" /\ "resultado" \in efs => ficha'[g].abierta
         /\ ficha[g].abierta => ficha'[g].abierta
  BY <1>1, <1>2, FichasTrasHace
<1>13. ASSUME AceptarRefresca(pag), NEW g \in DOMAIN pag.fichas, pag.fichas[g] = "resultado",
              g = f, "cierra" \in efs
       PROVE  Todo'
  <2>1. efs \in Respuestas(pag.ops[o]) /\ pag.ops[o].desde = g
    BY <1>13 DEF Op
  <2>2. o \in Cierran(pag, g)
    BY <1>13, <2>1 DEF Cierran
  <2>3. {"relee", "trae"} \cap efs # {}
    BY <1>13, <2>1, <2>2 DEF AceptarRefresca
  <2> QED BY <1>6, <1>9, <2>3
<1>14. ASSUME AceptarRefresca(pag), NEW g \in DOMAIN pag.fichas, pag.fichas[g] = "resultado",
              ficha'[g].abierta
       PROVE  Todo'
  BY <1>5, <1>14 DEF Espera, Todo, PorVer
<1>15. Espera => Todo'
  BY <1>12, <1>13, <1>14 DEF Espera
<1>16. ASSUME "resultado" \in efs, AceptarRefresca(pag)
       PROVE  Todo'
  <2>1. PICK g \in DOMAIN pag.fichas : pag.fichas[g] = "resultado"
    BY <1>16 DEF AceptarRefresca
  <2> QED BY <1>12, <1>13, <1>14, <1>16, <2>1
<1>17. "local" \in efs => Todo' \/ cambios \subseteq lista'.cambios
  BY <1>8, <1>9
<1> QED BY <1>2, <1>4, <1>6, <1>9, <1>10, <1>11, <1>15, <1>16, <1>17 DEF PoneAlDia

(***************************************************************************)
(* A click and an answer                                                   *)
(***************************************************************************)

\* A start leaves every change shown or to be seen.
LEMMA EmpiezaDatos ==
  ASSUME TypeInv, TypeInv', DatosInv, MuestraSusCambios(pag),
         NEW o \in DOMAIN pag.ops, NEW efs, Empieza(o, efs)
  PROVE  DatosInv'
<1>1. PICK n : n = Nuevo
  OBVIOUS
<1>2. PaginaTipo /\ PantallaTipo /\ EnviosTipo /\ ManosInv
  BY TiposJuntos DEF TypeInv
<1> DEFINE tras == IF envios'[n].paso = 1 THEN ocupado \cup Ocupa(o, 1) ELSE ocupado
           suyo == {<<n, 1>>}
<1>3. /\ n \in 1..MaxEnvios
      /\ \A j \in DOMAIN envios : envios'[j] = envios[j]
      /\ Aplica(efs, n, Op(o).desde, suyo, tras)
      /\ envios'[n].vista \in Filas
  BY <1>1, <1>2, EmpiezaEnvios
<1>4. efs \in {Op(o).antes, Op(o).sinToken} /\ UNCHANGED <<pagina, conToken, tabla, filtro>>
  BY DEF Empieza
<1>5. suyo \in Filas
  BY <1>3 DEF Filas, Cambio, MaxPasos
<1>6. efs \in Respuestas(Op(o))
  BY <1>4 DEF Respuestas
<1>7. "local" \notin efs /\ "trae" \notin efs
  BY <1>4 DEF MuestraSusCambios, Op
<1>8. Hechos' = Hechos /\ TablaCrece
  BY <1>4 DEF Hechos, TablaCrece
<1> HIDE DEF tras, suyo
<1>9. Relectura /\ ListaSigue /\ (fuera => fuera') /\ (Espera => Todo')
  BY <1>3, <1>4, <1>5, <1>6, <1>7, <1>8, AplicaDatos
<1>10. ASSUME NEW c \in Hechos, ~Terminado(c[1])
       PROVE  PorVer(c)'
  <2>1. c[1] \in DOMAIN envios
    BY <1>2, <1>10 DEF ManosInv
  <2>2. PICK j \in DOMAIN envios : j = c[1]
    BY <2>1
  <2>3. ~Terminado(j)'
    BY <1>3, <1>10, <2>2 DEF Terminado
  <2> QED BY <2>2, <2>3 DEF PorVer, Terminado
<1> QED BY <1>4, <1>8, <1>9, <1>10, PideDatos

\* The rows of the server come with an answer only where the load would have asked.
LEMMA TraeConToken ==
  ASSUME TypeInv, MuestraSusCambios(pag), NEW i \in DOMAIN envios, NEW efs, NEW falla,
         Contesta(i, efs, falla), "trae" \in EfectosDe(i, efs, falla)
  PROVE  ~LeeSinToken
<1>1. PaginaTipo /\ PantallaTipo /\ EnviosTipo /\ ManosInv
  BY TiposJuntos DEF TypeInv
<1> DEFINE m == Mano(i)
           k == envios[i].paso
<1>2. envios[i].op \in DOMAIN pag.ops /\ m = pag.ops[envios[i].op] /\ k \in DOMAIN m.pasos
  BY <1>1, ManoForma DEF Contesta, Mano, Op
<1> HIDE DEF m, k
<1>3. /\ \A j \in DOMAIN m.pasos : \A e \in Fallos(m, j) : "trae" \notin e
      /\ PuedeFallar(m) => "trae" \notin m.aMedias
      /\ "trae" \in m.bien => "pide" \in pag.carga.sinToken \/ ~pag.publica
  BY <1>2 DEF MuestraSusCambios
<1>4. /\ efs = {"sigue"} \/ efs \in Fallos(m, k)
      /\ falla => efs \in Fallos(m, k)
      /\ ~falla => Puede(i)
  BY EfectosForma DEF Contesta, m, k
<1>5. "trae" \notin efs
  BY <1>2, <1>3, <1>4
<1>6. envios[i].fallo => PuedeFallar(m)
  BY <1>1 DEF ManosInv, Contesta, m
<1>7. falla /\ "sigue" \in efs => PuedeFallar(m)
  BY <1>2, <1>4 DEF PuedeFallar, Sigue
<1>8. "sigue" \in efs /\ ~(envios[i].fallo \/ falla) /\ "trae" \in m.bien
  BY <1>3, <1>5, <1>6, <1>7 DEF EfectosDe, Fin, m
<1>9. conToken \/ pag.publica
  BY <1>4, <1>8 DEF Puede
<1> QED BY <1>3, <1>8, <1>9 DEF LeeSinToken

\* So does an answer.
LEMMA ContestaDatos ==
  ASSUME TypeInv, TypeInv', DatosInv, MuestraSusCambios(pag),
         NEW i \in DOMAIN envios, NEW efs, NEW falla, Contesta(i, efs, falla), ~tropiezo'
  PROVE  DatosInv'
<1>1. PaginaTipo /\ PantallaTipo /\ EnviosTipo /\ ManosInv
  BY TiposJuntos DEF TypeInv
<1> DEFINE m == Mano(i)
           p == envios[i].paso
           u == <<i, p>>
           fin == EfectosDe(i, efs, falla)
           propios == Cambios(i)
           tras == OcupadosTras(i, efs, falla)
<1>2. /\ envios[i].op \in DOMAIN pag.ops /\ m = pag.ops[envios[i].op] /\ m = Op(envios[i].op)
      /\ p \in DOMAIN m.pasos /\ p \in Nat /\ DOMAIN m.pasos = 1..Len(m.pasos)
      /\ envios[i] \in Envio
  BY <1>1, ManoForma DEF Contesta, Mano, Op
<1>3. /\ \A j \in DOMAIN envios : j # i => envios'[j] = envios[j]
      /\ envios'[i].vista = envios[i].vista
      /\ ~Terminado(i) /\ (Terminado(i)' <=> Acaba(i, efs))
  BY <1>1, ContestaEnvios
<1>4. /\ tabla' \in Seq(Cambio) /\ tabla' \in {tabla, Append(tabla, u)}
      /\ Hechos' \in {Hechos, Hechos \cup {u}} /\ u \in Cambio
      /\ u \in Hechos' => Cambia(m.pasos[p])
      /\ falla => Hechos' = Hechos
      /\ u \notin Hechos
  BY <1>1, ContestaTabla
<1>5. /\ Aplica(fin, i, m.desde, propios, tras)
      /\ UNCHANGED <<pagina, conToken, filtro>>
  BY ProsigueHace DEF Contesta
<1>6. fin = {"sigue"} \/ fin \in Respuestas(m)
  BY <1>1, EfectosRespuesta
<1>7. propios \subseteq Hechos' /\ \A c \in Hechos' : c[1] = i => c \in propios
  BY DEF Cambios, Hechos
<1>8. propios \in Filas
  <2>1. Hechos' \subseteq Cambio
    <3>1. \A s \in Seq(Cambio) : ToSet(s) \subseteq Cambio
      BY DEF ToSet
    <3> QED BY <1>4, <3>1 DEF Hechos
  <2> QED BY <1>7, <2>1 DEF Filas
<1>9. envios'[i].vista \in Filas
  <2>1. \A r \in Envio : r.vista \in Filas
    BY DEF Envio
  <2> QED BY <1>2, <1>3, <2>1
<1>10. TablaCrece
  BY <1>4 DEF TablaCrece
<1>11. "trae" \in fin => ~LeeSinToken
  BY TraeConToken
<1>12. Acaba(i, efs) => fin = Fin(i, efs, falla)
  BY DEF EfectosDe
<1>13. \A c \in Hechos :
         /\ c[1] \in DOMAIN envios
         /\ c[1] = i => c[2] \in DOMAIN m.pasos /\ Cambia(m.pasos[c[2]]) /\ c[2] < p
  BY <1>1, <1>3 DEF ManosInv
<1> HIDE DEF m, fin, propios, tras
<1>14. /\ Relectura /\ ListaSigue /\ (fuera => fuera') /\ (Espera => Todo')
       /\ PoneAlDia(pag, fin) => Todo' \/ propios \subseteq lista'.cambios
  BY <1>2, <1>5, <1>6, <1>7, <1>8, <1>9, <1>10, <1>11, AplicaDatos
<1>15. ASSUME NEW c \in Hechos', c[1] = i
       PROVE  c \in lista'.cambios \/ PorVer(c)'
  <2>1. CASE ~Acaba(i, efs)
    BY <1>3, <1>15, <2>1 DEF PorVer, Terminado
  <2>2. CASE Acaba(i, efs)
    <3>1. PICK k : k = c[2]
      OBVIOUS
    <3>2. k \in DOMAIN m.pasos /\ Cambia(m.pasos[k]) /\ (k < p \/ (k = p /\ ~falla))
      <4>1. CASE c \in Hechos
        BY <1>13, <1>15, <3>1, <4>1
      <4>2. CASE c = u /\ c \notin Hechos
        BY <1>2, <1>4, <1>15, <3>1, <4>2
      <4> QED BY <1>4, <4>1, <4>2
    <3>3. fin \in Finales(m, k)
      BY <1>1, <1>12, <2>2, <3>2, FinEnFinales DEF m
    <3>4. PoneAlDia(pag, fin)
      BY <1>2, <3>2, <3>3 DEF MuestraSusCambios
    <3> QED BY <1>7, <1>14, <1>15, <3>4 DEF Todo
  <2> QED BY <2>1, <2>2
<1>16. ASSUME NEW c \in Hechos', c[1] # i, c \notin Hechos \/ ~Terminado(c[1])
       PROVE  c \in lista'.cambios \/ PorVer(c)'
  <2>1. c \in Hechos
    BY <1>4, <1>16
  <2>2. PICK j \in DOMAIN envios : j = c[1]
    BY <1>13, <2>1
  <2>3. ~Terminado(j)'
    BY <1>3, <1>16, <2>1, <2>2 DEF Terminado
  <2> QED BY <2>2, <2>3 DEF PorVer, Terminado
<1> QED BY <1>5, <1>10, <1>14, <1>15, <1>16, PideDatos

(***************************************************************************)
(* The page                                                                *)
(***************************************************************************)

\* A person that chooses a filter, opens or closes a form or sees a message go.
LEMMA PersonaDatos ==
  ASSUME TypeInv, TypeInv', DatosInv,
         \/ CambiaFiltro \/ CaducaAviso
         \/ \E f \in DOMAIN pag.fichas : AbreFicha(f) \/ CierraFicha(f)
  PROVE  DatosInv'
<1>1. CASE CambiaFiltro
  <2>1. /\ UNCHANGED <<pagina, conToken, tabla, lista, ficha, envios, fuera>>
        /\ filtro' = 1 - filtro
        /\ \/ LeeSinToken /\ lecturas' = lecturas
           \/ ~LeeSinToken /\ lecturas' = Pedidas(1 - filtro, Len(tabla))
    BY <1>1 DEF CambiaFiltro
  <2>2. Relectura
    BY <2>1 DEF Relectura
  <2> QED BY <2>1, <2>2, AparteDatos
<1>2. CASE CaducaAviso
  <2>1. /\ UNCHANGED <<pagina, conToken, tabla, filtro, lista, ficha, envios, fuera>>
        /\ \/ lecturas' = lecturas
           \/ ~LeeSinToken /\ lecturas' = Pedidas(filtro, Len(tabla))
    BY <1>2 DEF CaducaAviso
  <2>2. Relectura
    BY <2>1 DEF Relectura
  <2> QED BY <2>1, <2>2, AparteDatos
<1>3. ASSUME NEW f \in DOMAIN pag.fichas, AbreFicha(f)
      PROVE  DatosInv'
  <2>1. /\ UNCHANGED <<pagina, conToken, tabla, filtro, lista, envios, fuera>>
        /\ ficha' = [ficha EXCEPT ![f].abierta = TRUE]
        /\ pag.fichas[f] # "resultado"
        /\ \/ lecturas' = lecturas
           \/ ~LeeSinToken /\ lecturas' = Pedidas(filtro, Len(tabla))
    BY <1>3 DEF AbreFicha
  <2>2. Relectura
    BY <2>1 DEF Relectura
  <2>3. ficha \in [DOMAIN pag.fichas -> Ficha]
    BY TiposJuntos DEF TypeInv, PantallaTipo
  <2>4. \A g \in DOMAIN pag.fichas : g # f => ficha'[g] = ficha[g]
    BY <2>1, <2>3
  <2> QED BY <2>1, <2>2, <2>4, AparteDatos
<1>4. ASSUME NEW f \in DOMAIN pag.fichas, CierraFicha(f)
      PROVE  DatosInv'
  <2>1. /\ UNCHANGED <<pagina, conToken, tabla, envios, fuera, lista, lecturas, filtro>>
        /\ pag.fichas[f] # "resultado"
        /\ \A g \in DOMAIN pag.fichas : g # f => ficha'[g] = ficha[g]
    BY <1>4, CierraFichaTipo
  <2>2. Relectura
    BY <2>1 DEF Relectura
  <2> QED BY <2>1, <2>2, AparteDatos
<1> QED BY <1>1, <1>2, <1>3, <1>4

\* A read that comes alone with all the rows makes up for every stumble.
LEMMA ReparaDatos ==
  ASSUME TypeInv, TypeInv', LeeSinToken => lecturas = <<>>,
         NEW j \in DOMAIN lecturas, RecibeLista(j), tropiezo, ~tropiezo'
  PROVE  DatosInv'
<1>1. PICK n \in lecturas[j].desde .. Len(tabla) :
        /\ lista' = [filtro |-> lecturas[j].filtro, cambios |-> ToSet(SubSeq(tabla, 1, n)),
                     leida |-> TRUE]
        /\ Repara(j, ToSet(SubSeq(tabla, 1, n)))
  BY DEF RecibeLista
<1>2. lecturas' = Quedan(j) /\ UNCHANGED <<pagina, conToken, tabla, filtro>>
  BY DEF RecibeLista
<1>3. lista'.cambios = Hechos /\ lista'.filtro = filtro /\ Len(lecturas) = 1
  BY <1>1 DEF Repara
<1>4. lecturas' \in Seq(Lectura) /\ Len(lecturas') = 0
  <2>1. PantallaTipo
    BY TiposJuntos DEF TypeInv
  <2> QED BY <1>2, <1>3, <2>1, QuedanTipo
<1>5. lecturas' = <<>> /\ DOMAIN lecturas' = {}
  BY <1>4
<1>6. LeeSinToken' = LeeSinToken /\ Hechos' = Hechos
  BY <1>2, SinTokenIgual DEF Hechos
<1>7. ~LeeSinToken
  <2>1. DOMAIN lecturas = 1..Len(lecturas) /\ Len(lecturas) \in Nat /\ j \in 1..Len(lecturas)
    BY TablaForma
  <2>2. lecturas # <<>>
    BY <2>1
  <2> QED BY <2>2
<1>8. OrdenInv' /\ FiltroInv'
  BY <1>2, <1>3, <1>5 DEF OrdenInv, FiltroInv
<1> QED BY <1>3, <1>6, <1>7, <1>8 DEF DatosInv

\* A page that looks for a token, and has none, never asks for its rows.
LEMMA NextSinToken ==
  ASSUME TypeInv, [Next]_vars, LeeSinToken => lecturas = <<>>
  PROVE  (LeeSinToken => lecturas = <<>>)'
<1>1. pagina' = pagina /\ conToken' = conToken
  <2>1. ASSUME NEW o \in DOMAIN pag.ops, NEW efs, Empieza(o, efs)
        PROVE  pagina' = pagina /\ conToken' = conToken
    BY <2>1 DEF Empieza
  <2>2. ASSUME NEW i \in DOMAIN envios, NEW efs, NEW falla, Contesta(i, efs, falla)
        PROVE  pagina' = pagina /\ conToken' = conToken
    BY <2>2, ProsigueHace DEF Contesta
  <2>3. ASSUME NEW f \in DOMAIN pag.fichas, CierraFicha(f)
        PROVE  pagina' = pagina /\ conToken' = conToken
    BY <2>3 DEF CierraFicha
  <2> QED BY <2>1, <2>2, <2>3, Pasos DEF Mira
<1>2. SUFFICES ASSUME LeeSinToken PROVE lecturas' = <<>>
  BY <1>1, SinTokenIgual
<1>3. lecturas = <<>> /\ DOMAIN lecturas = {}
  BY <1>2
<1>4. ASSUME NEW o \in DOMAIN pag.ops, Dispara(o)
      PROVE  lecturas' = lecturas
  <2>1. PICK efs : Empieza(o, efs)
    BY <1>4, DisparaHace
  <2> QED BY <1>2, <2>1 DEF Empieza, Aplica
<1>5. ASSUME NEW i \in DOMAIN envios, Responde(i)
      PROVE  lecturas' = lecturas
  <2>1. PICK efs, falla : Contesta(i, efs, falla)
    BY <1>5, RespondeHace
  <2> QED BY <1>2, <2>1, ProsigueHace DEF Contesta, Aplica
<1>6. CASE CambiaFiltro
  BY <1>2, <1>6 DEF CambiaFiltro
<1>7. CASE CaducaAviso
  BY <1>2, <1>7 DEF CaducaAviso
<1>8. ASSUME NEW f \in DOMAIN pag.fichas, AbreFicha(f)
      PROVE  lecturas' = lecturas
  BY <1>2, <1>8 DEF AbreFicha
<1>9. ASSUME NEW f \in DOMAIN pag.fichas, CierraFicha(f)
      PROVE  lecturas' = lecturas
  BY <1>9 DEF CierraFicha
<1>10. CASE UNCHANGED vars
  BY <1>3, <1>10 DEF vars
<1> QED BY <1>3, <1>4, <1>5, <1>6, <1>7, <1>8, <1>9, <1>10 DEF Next, Persona, ContestaLista

\* Every step keeps the list up to date or about to be.
LEMMA NextListaInv == ListaInv /\ [Next]_vars => ListaInv'
<1> SUFFICES ASSUME ListaInv, [Next]_vars, TypeInv',
                    pagina' \notin Desviadas, pag'.lee, ~tropiezo'
             PROVE  DatosInv'
  BY NextTypeInv, NextSinToken DEF ListaInv
<1>1. TypeInv /\ pagina' = pagina /\ pag' = pag /\ (LeeSinToken => lecturas = <<>>)
  BY Crece, MismaPagina DEF ListaInv
<1>2. ~tropiezo => DatosInv
  BY <1>1 DEF ListaInv
<1>3. MuestraSusCambios(pag)
  <2>1. pagina \in DOMAIN Descripciones
    BY <1>1 DEF TypeInv, TypeOK
  <2> QED BY <1>1, <2>1, PaginaForma
<1>4. CASE UNCHANGED vars
  <2>1. UNCHANGED <<pagina, conToken, tabla, filtro, lista, ficha, envios, fuera, lecturas,
                    tropiezo>>
    BY <1>4 DEF vars
  <2>2. Relectura
    BY <2>1 DEF Relectura
  <2> QED BY <1>1, <1>2, <2>1, <2>2, AparteDatos
<1>5. ASSUME NEW o \in DOMAIN pag.ops, Dispara(o)
      PROVE  DatosInv'
  <2>1. PICK efs : Empieza(o, efs)
    BY <1>5, DisparaHace
  <2>2. DatosInv
    BY <1>2, <2>1 DEF Empieza
  <2> QED BY <1>1, <1>3, <2>1, <2>2, EmpiezaDatos
<1>6. ASSUME \/ CambiaFiltro \/ CaducaAviso
             \/ \E f \in DOMAIN pag.fichas : AbreFicha(f) \/ CierraFicha(f)
      PROVE  DatosInv'
  <2>1. tropiezo' = tropiezo
    BY <1>6 DEF CambiaFiltro, CaducaAviso, AbreFicha, CierraFicha
  <2>2. DatosInv
    BY <1>2, <2>1
  <2> QED BY <1>1, <1>6, <2>2, PersonaDatos
<1>7. ASSUME NEW j \in DOMAIN lecturas, RecibeLista(j)
      PROVE  DatosInv'
  BY <1>1, <1>2, <1>7, RecibeListaDatos, ReparaDatos
<1>8. ASSUME NEW j \in DOMAIN lecturas, FallaLista(j)
      PROVE  DatosInv'
  BY <1>8 DEF FallaLista
<1>9. ASSUME NEW i \in DOMAIN envios, Responde(i)
      PROVE  DatosInv'
  <2>1. PICK efs, falla : Contesta(i, efs, falla)
    BY <1>9, RespondeHace
  <2>2. PaginaTipo /\ PantallaTipo /\ EnviosTipo /\ ManosInv
    BY <1>1, TiposJuntos DEF TypeInv
  <2>3. tropiezo => tropiezo'
    BY <1>1, <2>1, <2>2, ContestaTabla
  <2> QED BY <1>1, <1>2, <1>3, <2>1, <2>3, ContestaDatos
<1> QED BY <1>4, <1>5, <1>6, <1>7, <1>8, <1>9 DEF Next, Persona, ContestaLista

\* Nothing is changed as the page opens.
LEMMA InitListaInv == Init => ListaInv
<1> SUFFICES ASSUME Init
             PROVE  (LeeSinToken => lecturas = <<>>) /\ (pag.lee => DatosInv)
  BY InitTypeInv DEF ListaInv
<1>1. /\ tabla = <<>> /\ filtro = 0
      /\ lista = [filtro |-> 0, cambios |-> {}, leida |-> FALSE]
      /\ LeeSinToken => lecturas = <<>>
      /\ pag.lee /\ ~LeeSinToken => lecturas = <<[filtro |-> 0, desde |-> 0, vieja |-> FALSE]>>
  BY DEF Init
<1>2. Hechos = {} /\ Len(tabla) = 0
  BY <1>1 DEF Hechos, ToSet
<1>3. CASE LeeSinToken
  BY <1>1, <1>2, <1>3 DEF DatosInv, OrdenInv, FiltroInv
<1>4. CASE pag.lee /\ ~LeeSinToken
  <2> DEFINE r == [filtro |-> 0, desde |-> 0, vieja |-> FALSE]
  <2>1. r.filtro = 0 /\ r.desde = 0 /\ ~r.vieja /\ lecturas = <<r>>
    BY <1>1, <1>4
  <2> HIDE DEF r
  <2>2. lecturas # <<>> /\ Len(lecturas) = 1 /\ DOMAIN lecturas = {1} /\ lecturas[1] = r
    BY <2>1
  <2> QED BY <1>1, <1>2, <1>4, <2>1, <2>2 DEF DatosInv, OrdenInv, FiltroInv
<1>5. LeeSinToken => lecturas = <<>>
  BY <1>1
<1> QED BY <1>3, <1>4, <1>5

\* When nothing is pending every change that is not on the screen would still come.
LEMMA ListaInvAlDia == ListaInv => ListaAlDia
<1> SUFFICES ASSUME TypeInv, DatosInv, Quieta, ~fuera, lista.leida
             PROVE  lista.cambios = Hechos /\ lista.filtro = filtro
  BY DEF ListaInv, ListaAlDia
<1>1. lecturas = <<>> /\ DOMAIN lecturas = {}
  BY DEF Quieta
<1>2. ASSUME NEW c \in Hechos
      PROVE  c \in lista.cambios
  <2>1. Terminado(c[1])
    BY DEF TypeInv, ManosInv, Quieta
  <2>2. ~Espera
    BY DEF Espera, Quieta
  <2>3. ~LeeSinToken
    BY DEF DatosInv
  <2> QED BY <1>1, <2>1, <2>2, <2>3 DEF DatosInv, PorVer
<1> QED BY <1>1, <1>2 DEF DatosInv, FiltroInv

\* On a page that keeps the habit MuestraSusCambios the rows on the screen are those of
\* the server for the filter chosen whenever nothing is pending and no read failed or
\* was overtaken: no order of clicks, answers and reads makes it miss a change.
THEOREM SpecListaAlDia == Spec => []ListaAlDia
<1> QED BY InitListaInv, NextListaInv, ListaInvAlDia, PTL DEF Spec

==============================================================================
