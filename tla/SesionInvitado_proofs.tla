------------------------ MODULE SesionInvitado_proofs ------------------------
(***************************************************************************)
(* Proofs about SesionInvitado, for every set of accounts, SKUs, tabs and  *)
(* submissions and every value of the bounds: the books of the guest cart  *)
(* balance, and they are the ones LibroCompra describes.                   *)
(***************************************************************************)
EXTENDS SesionInvitado, FiniteSetTheorems, TLAPS

\* The types of what the books are made of.
LibroTipo ==
  /\ invitado \in Cantidades /\ subidas \in Cantidades
  /\ pedidas \in Cantidades /\ quitadas \in Cantidades
  /\ vista \in [Pestanas -> Cantidades]
  /\ flujo \in [Flujos -> Flujo]
  /\ riesgo \in BOOLEAN

LibroInv == LibroTipo /\ CuentaExacta

\* The tokens issued, from which a migration takes its own.
EmitidosTipo == emitidos \in Seq(Usuarios)

\* The books only grow, and a disturbance is never forgotten.
Crece ==
  /\ riesgo => riesgo'
  /\ \A s \in Skus : pedidas'[s] >= pedidas[s] /\ quitadas'[s] >= quitadas[s]

(***************************************************************************)
(* Submissions                                                             *)
(***************************************************************************)

LEMMA FlujoCampos ==
  ASSUME NEW r \in Flujo
  PROVE  /\ r.paso \in {"libre", "ingresando", "registrando", "migrando", "espera"}
         /\ r.paso = "libre" <=> r = Libre
         /\ r.paso # "libre" => r.en \in Pestanas /\ r.quien \in Usuarios
         /\ r.paso \in {"migrando", "espera"} => /\ r.lineas \in Cantidades
                                               /\ r.faltan \subseteq Skus /\ r.con \in Nat
<1>1. CASE r \in [paso : {"ingresando", "registrando"}, en : Pestanas, quien : Usuarios]
  BY <1>1 DEF Libre
<1>2. CASE r \in [paso : {"migrando", "espera"}, en : Pestanas, quien : Usuarios,
                  con : Nat, lineas : Cantidades, faltan : SUBSET Skus]
  BY <1>2 DEF Libre
<1>3. CASE r = Libre
  BY <1>3 DEF Libre
<1> QED BY <1>1, <1>2, <1>3 DEF Flujo

LEMMA LibreFlujo == Libre \in Flujo /\ Libre.paso = "libre"
BY DEF Flujo, Libre

\* A submission changes that is not posting lines before or after.
LEMMA OtroFlujo ==
  ASSUME LibroTipo, NEW f \in Flujos, NEW r \in Flujo,
         flujo[f].paso # "migrando", r.paso # "migrando",
         flujo' = [flujo EXCEPT ![f] = r]
  PROVE  /\ flujo' \in [Flujos -> Flujo]
         /\ Migrando' = Migrando
         /\ \A g \in Migrando : flujo'[g] = flujo[g]
<1>1. flujo \in [Flujos -> Flujo]
  BY DEF LibroTipo
<1>2. flujo' \in [Flujos -> Flujo] /\ \A g \in Flujos : flujo'[g] = IF g = f THEN r ELSE flujo[g]
  BY <1>1
<1> QED BY <1>2 DEF Migrando

\* No migration begins, ends or goes on, and no line of the books changes.
LEMMA MismasCuentas ==
  ASSUME CuentaExacta, Migrando' = Migrando, \A g \in Migrando : flujo'[g] = flujo[g],
         UNCHANGED <<invitado, subidas, pedidas, quitadas>>, riesgo => riesgo'
  PROVE  CuentaExacta'
<1> SUFFICES ASSUME ~riesgo'
             PROVE  /\ UnaMigracion' /\ LineasVigentes'
                    /\ \A s \in Skus : EnInvitado(s)' + subidas'[s] + quitadas'[s] = pedidas'[s]
  BY DEF CuentaExacta
<1>1. /\ UnaMigracion /\ LineasVigentes
      /\ \A s \in Skus : EnInvitado(s) + subidas[s] + quitadas[s] = pedidas[s]
  BY DEF CuentaExacta
<1>2. UnaMigracion' /\ LineasVigentes'
  BY <1>1 DEF UnaMigracion, LineasVigentes
<1>3. \A s \in Skus : EnInvitado(s)' = EnInvitado(s)
  BY DEF EnInvitado
<1> QED BY <1>1, <1>2, <1>3

\* The guest cart is written by hand: unless a migration is under way, what is put
\* in and taken out is what the books say.
LEMMA EscribeBien ==
  ASSUME LibroInv, NEW t \in Pestanas, NEW inv \in Cantidades, EscribeInvitado(t, inv),
         UNCHANGED <<subidas, flujo>>,
         pedidas' \in Cantidades, quitadas' \in Cantidades,
         \A s \in Skus : pedidas'[s] >= pedidas[s] /\ quitadas'[s] >= quitadas[s],
         \A s \in Skus : inv[s] + quitadas'[s] + pedidas[s] = invitado[s] + quitadas[s] + pedidas'[s]
  PROVE  LibroInv' /\ Crece
<1>1. /\ invitado' = inv /\ vista' = Notificada(t, inv)
      /\ riesgo' = (riesgo \/ Migrando # {})
  BY DEF EscribeInvitado
<1>2. vista' \in [Pestanas -> Cantidades]
  BY <1>1 DEF Notificada, LibroInv, LibroTipo
<1>3. riesgo' \in BOOLEAN /\ (~riesgo' => ~riesgo /\ Migrando = {}) /\ (riesgo => riesgo')
  BY <1>1 DEF LibroInv, LibroTipo
<1>4. LibroTipo'
  BY <1>1, <1>2, <1>3 DEF LibroInv, LibroTipo
<1>5. Migrando' = Migrando
  BY DEF Migrando
<1>6. CuentaExacta'
  <2> SUFFICES ASSUME ~riesgo'
               PROVE  /\ UnaMigracion' /\ LineasVigentes'
                      /\ \A s \in Skus : EnInvitado(s)' + subidas'[s] + quitadas'[s] = pedidas'[s]
    BY DEF CuentaExacta
  <2>1. ~riesgo /\ Migrando = {} /\ Migrando' = {}
    BY <1>3, <1>5
  <2>2. UnaMigracion' /\ LineasVigentes'
    BY <2>1 DEF UnaMigracion, LineasVigentes
  <2>3. ASSUME NEW s \in Skus
        PROVE  EnInvitado(s)' + subidas'[s] + quitadas'[s] = pedidas'[s]
    <3>1. EnInvitado(s)' = inv[s] /\ EnInvitado(s) = invitado[s]
      BY <1>1, <2>1 DEF EnInvitado
    <3>2. invitado[s] + subidas[s] + quitadas[s] = pedidas[s]
      BY <2>1, <3>1 DEF LibroInv, CuentaExacta
    <3>3. /\ inv[s] \in Nat /\ invitado[s] \in Nat /\ subidas[s] \in Nat
          /\ pedidas[s] \in Nat /\ quitadas[s] \in Nat
          /\ pedidas'[s] \in Nat /\ quitadas'[s] \in Nat
      BY DEF LibroInv, LibroTipo, Cantidades
    <3>4. inv[s] + quitadas'[s] + pedidas[s] = invitado[s] + quitadas[s] + pedidas'[s]
      OBVIOUS
    <3>5. subidas'[s] = subidas[s]
      OBVIOUS
    <3>6. inv[s] + subidas[s] + quitadas'[s] = pedidas'[s]
      <4>1. PICK i \in Nat, b \in Nat, q \in Nat, m \in Nat :
              i = invitado[s] /\ b = subidas[s] /\ q = quitadas[s] /\ m = pedidas[s]
        BY <3>3
      <4>2. PICK j \in Nat, x \in Nat, n \in Nat :
              j = inv[s] /\ x = quitadas'[s] /\ n = pedidas'[s]
        BY <3>3
      <4>3. i + b + q = m /\ j + x + m = i + q + n
        BY <3>2, <3>4, <4>1, <4>2
      <4>4. j + b + x = n
        BY <4>3
      <4> QED BY <4>1, <4>2, <4>4
    <3> QED BY <3>1, <3>5, <3>6
  <2> QED BY <2>2, <2>3
<1> QED BY <1>3, <1>4, <1>6 DEF LibroInv, Crece

(***************************************************************************)
(* The steps                                                               *)
(***************************************************************************)

\* A step that leaves the books, the submissions and the disturbances alone.
LEMMA Ajeno ==
  ASSUME LibroInv, UNCHANGED <<invitado, subidas, pedidas, quitadas, flujo, riesgo>>,
         vista' \in [Pestanas -> Cantidades]
  PROVE  LibroInv' /\ Crece
<1>1. Migrando' = Migrando
  BY DEF Migrando
<1>2. CuentaExacta'
  BY <1>1, MismasCuentas DEF LibroInv
<1>3. LibroTipo'
  BY DEF LibroInv, LibroTipo
<1>4. Crece
  BY DEF Crece, LibroInv, LibroTipo, Cantidades
<1> QED BY <1>2, <1>3, <1>4 DEF LibroInv

LEMMA VistaTrasTipo ==
  ASSUME LibroTipo, NEW t \in Pestanas, NEW u
  PROVE  VistaTras(t, u) \in [Pestanas -> Cantidades]
BY DEF VistaTras, LibroTipo

\* A document is loaded in a tab.
LEMMA DocumentoBien ==
  ASSUME LibroInv, NEW t \in Pestanas, NEW k, Documento(t, k),
         UNCHANGED <<invitado, subidas, pedidas, quitadas>>
  PROVE  LibroInv' /\ Crece
<1>1. LibroTipo /\ CuentaExacta /\ flujo \in [Flujos -> Flujo]
  BY DEF LibroInv, LibroTipo
<1>2. vista' \in [Pestanas -> Cantidades]
  BY <1>1 DEF Documento, LibroTipo
<1>3. flujo' = [f \in Flujos |-> IF flujo[f] # Libre /\ flujo[f].en = t THEN Libre ELSE flujo[f]]
  BY DEF Documento
<1>4. flujo' \in [Flujos -> Flujo]
  BY <1>1, <1>3, LibreFlujo
<1>5. riesgo' = (riesgo \/ \E f \in Migrando : flujo[f].en = t)
  BY DEF Documento
<1>6. /\ riesgo' \in BOOLEAN /\ (riesgo => riesgo')
      /\ ~riesgo' => ~riesgo /\ \A f \in Migrando : flujo[f].en # t
  BY <1>1, <1>5 DEF LibroTipo
<1>7. LibroTipo'
  BY <1>1, <1>2, <1>4, <1>6 DEF LibroTipo
<1>8. CuentaExacta'
  <2>1. CASE riesgo'
    BY <2>1 DEF CuentaExacta
  <2>2. CASE ~riesgo'
    <3>1. \A f \in Migrando : flujo'[f] = flujo[f]
      BY <1>3, <1>6, <2>2 DEF Migrando
    <3>2. Migrando' = Migrando
      <4>1. \A f \in Flujos : flujo'[f].paso = "migrando" => flujo'[f] = flujo[f]
        BY <1>3, LibreFlujo
      <4> QED BY <3>1, <4>1 DEF Migrando
    <3> QED BY <1>1, <1>6, <3>1, <3>2, MismasCuentas
  <2> QED BY <2>1, <2>2
<1>9. Crece
  BY <1>1, <1>6 DEF Crece, LibroTipo, Cantidades
<1> QED BY <1>7, <1>8, <1>9 DEF LibroInv

\* A submission starts, is answered without a migration, or ends.
LEMMA OtroFlujoBien ==
  ASSUME LibroInv, NEW f \in Flujos, NEW r \in Flujo,
         flujo[f].paso # "migrando", r.paso # "migrando",
         flujo' = [flujo EXCEPT ![f] = r],
         UNCHANGED <<invitado, subidas, pedidas, quitadas, vista, riesgo>>
  PROVE  LibroInv' /\ Crece
<1>1. /\ flujo' \in [Flujos -> Flujo] /\ Migrando' = Migrando
      /\ \A g \in Migrando : flujo'[g] = flujo[g]
  BY OtroFlujo DEF LibroInv
<1>2. CuentaExacta'
  BY <1>1, MismasCuentas DEF LibroInv
<1>3. LibroTipo'
  BY <1>1 DEF LibroInv, LibroTipo
<1>4. Crece
  BY DEF Crece, LibroInv, LibroTipo, Cantidades
<1> QED BY <1>2, <1>3, <1>4 DEF LibroInv

\* The login is accepted while there is a guest cart: its lines are copied.
LEMMA MigracionEmpieza ==
  ASSUME LibroInv, EmitidosTipo, NEW f \in Flujos, Ingresa(f), HayInvitado
  PROVE  LibroInv' /\ Crece
<1> DEFINE t == flujo[f].en
           u == flujo[f].quien
           faltan == {s \in Skus : invitado[s] > 0}
           r == [paso |-> "migrando", en |-> t, quien |-> u, con |-> Len(emitidos) + 1,
                 lineas |-> invitado, faltan |-> faltan]
<1>1. LibroTipo /\ CuentaExacta /\ flujo \in [Flujos -> Flujo]
  BY DEF LibroInv, LibroTipo
<1>2. flujo[f].paso = "ingresando" /\ t \in Pestanas /\ u \in Usuarios
  BY <1>1, FlujoCampos DEF Ingresa
<1>3. r \in Flujo /\ r.paso = "migrando" /\ r.lineas = invitado /\ r.faltan = faltan
  <2>1. Len(emitidos) + 1 \in Nat
    BY DEF EmitidosTipo
  <2> QED BY <1>1, <1>2, <2>1 DEF Flujo, LibroTipo
<1>4. /\ flujo' = [flujo EXCEPT ![f] = r]
      /\ riesgo' = (riesgo \/ Migrando # {})
      /\ UNCHANGED <<invitado, subidas, vista, pedidas, quitadas>>
  BY DEF Ingresa, compra
<1> HIDE DEF r
<1>5. /\ flujo' \in [Flujos -> Flujo]
      /\ \A g \in Flujos : flujo'[g] = IF g = f THEN r ELSE flujo[g]
  BY <1>1, <1>3, <1>4
<1>6. riesgo' \in BOOLEAN /\ (riesgo => riesgo') /\ (~riesgo' => ~riesgo /\ Migrando = {})
  BY <1>1, <1>4 DEF LibroTipo
<1>7. LibroTipo'
  BY <1>1, <1>4, <1>5, <1>6 DEF LibroTipo
<1>8. CuentaExacta'
  <2> SUFFICES ASSUME ~riesgo'
               PROVE  /\ UnaMigracion' /\ LineasVigentes'
                      /\ \A s \in Skus : EnInvitado(s)' + subidas'[s] + quitadas'[s] = pedidas'[s]
    BY DEF CuentaExacta
  <2>1. ~riesgo /\ Migrando = {}
    BY <1>6
  <2>2. Migrando' = {f}
    BY <1>3, <1>5, <2>1 DEF Migrando
  <2>3. flujo'[f] = r
    BY <1>5
  <2>4. UnaMigracion' /\ LineasVigentes'
    BY <1>3, <1>4, <2>2, <2>3 DEF UnaMigracion, LineasVigentes
  <2>5. ASSUME NEW s \in Skus
        PROVE  EnInvitado(s)' + subidas'[s] + quitadas'[s] = pedidas'[s]
    <3>1. EnInvitado(s) = invitado[s]
      BY <2>1 DEF EnInvitado
    <3>2. EnInvitado(s)' = IF s \notin faltan THEN 0 ELSE invitado[s]
      BY <1>3, <1>4, <2>2, <2>3 DEF EnInvitado
    <3>3. invitado[s] \in Nat
      BY <1>1 DEF LibroTipo, Cantidades
    <3>4. EnInvitado(s)' = invitado[s]
      BY <3>2, <3>3
    <3> QED BY <1>1, <1>4, <2>1, <3>1, <3>4 DEF CuentaExacta
  <2> QED BY <2>4, <2>5
<1>9. Crece
  BY <1>1, <1>4, <1>6 DEF Crece, LibroTipo, Cantidades
<1> QED BY <1>7, <1>8, <1>9 DEF LibroInv

\* One line of the guest cart is posted; after the last one the cart is emptied.
LEMMA MigracionSigue ==
  ASSUME LibroInv, NEW f \in Flujos, NEW s \in Skus, MigrateGuestCartToServer(f, s)
  PROVE  LibroInv' /\ Crece
<1> DEFINE resto == flujo[f].faltan \ {s}
           p == IF resto = {} THEN "espera" ELSE "migrando"
           r == [flujo[f] EXCEPT !.faltan = resto, !.paso = p]
<1>1. LibroTipo /\ CuentaExacta /\ flujo \in [Flujos -> Flujo]
  BY DEF LibroInv, LibroTipo
<1>2. /\ flujo[f] \in Flujo /\ flujo[f].paso = "migrando" /\ s \in flujo[f].faltan
      /\ flujo[f].lineas \in Cantidades /\ flujo[f].faltan \subseteq Skus
      /\ flujo[f].en \in Pestanas
  BY <1>1, FlujoCampos DEF MigrateGuestCartToServer
<1>3. PICK exito \in BOOLEAN, llego \in BOOLEAN :
        /\ subidas' = IF llego THEN [subidas EXCEPT ![s] = @ + flujo[f].lineas[s]]
                               ELSE subidas
        /\ riesgo' = (riesgo \/ ~exito \/ ~llego)
  BY DEF MigrateGuestCartToServer
<1>4. /\ IF resto # {}
         THEN /\ flujo' = [flujo EXCEPT ![f].faltan = resto]
              /\ UNCHANGED <<invitado, vista>>
         ELSE /\ flujo' = [flujo EXCEPT ![f].faltan = {}, ![f].paso = "espera"]
              /\ invitado' = CarritoVacio
              /\ vista' = Notificada(flujo[f].en, CarritoVacio)
      /\ UNCHANGED <<pedidas, quitadas>>
  BY DEF MigrateGuestCartToServer
<1>5. r \in Flujo /\ r.paso = p /\ r.faltan = resto /\ r.lineas = flujo[f].lineas
  <2>1. resto \in SUBSET Skus /\ p \in {"migrando", "espera"}
    BY <1>2
  <2>2. r = [flujo[f] EXCEPT !.faltan = resto, !.paso = p]
    OBVIOUS
  <2> HIDE DEF resto, p, r
  <2>3. flujo[f] \in [paso : {"migrando", "espera"}, en : Pestanas, quien : Usuarios,
                      con : Nat, lineas : Cantidades, faltan : SUBSET Skus]
    BY <1>2 DEF Flujo, Libre
  <2> QED BY <2>1, <2>2, <2>3 DEF Flujo
<1>6. \A g \in Flujos : flujo'[g] = IF g = f THEN r ELSE flujo[g]
  <2>1. CASE resto # {}
    <3>1. r = [flujo[f] EXCEPT !.faltan = resto]
      BY <1>2, <2>1 DEF Flujo, Libre
    <3> QED BY <1>1, <1>4, <2>1, <3>1
  <2>2. CASE resto = {}
    BY <1>1, <1>4, <2>2
  <2> QED BY <2>1, <2>2
<1>7. flujo' \in [Flujos -> Flujo]
  <2>1. flujo' = [g \in Flujos |-> IF g = f THEN r ELSE flujo[g]]
    <3>1. DOMAIN flujo' = Flujos /\ flujo' = [g \in DOMAIN flujo' |-> flujo'[g]]
      BY <1>1, <1>4
    <3> QED BY <1>6, <3>1
  <2> QED BY <1>1, <1>5, <2>1
<1> HIDE DEF r
<1>8. CarritoVacio \in Cantidades
  BY DEF CarritoVacio, Cantidades
<1>9. /\ invitado' \in Cantidades /\ vista' \in [Pestanas -> Cantidades]
      /\ subidas' \in Cantidades /\ riesgo' \in BOOLEAN /\ (riesgo => riesgo')
  <2>1. invitado' \in Cantidades /\ vista' \in [Pestanas -> Cantidades]
    BY <1>1, <1>2, <1>4, <1>8 DEF LibroTipo, Notificada
  <2>2. flujo[f].lineas[s] \in Nat /\ subidas[s] \in Nat
    BY <1>1, <1>2 DEF LibroTipo, Cantidades
  <2>3. subidas' \in Cantidades
    BY <1>1, <1>3, <2>2 DEF LibroTipo, Cantidades
  <2> QED BY <1>1, <1>3, <2>1, <2>3 DEF LibroTipo
<1>10. LibroTipo'
  BY <1>1, <1>4, <1>7, <1>9 DEF LibroTipo
<1>11. CuentaExacta'
  <2> SUFFICES ASSUME ~riesgo'
               PROVE  /\ UnaMigracion' /\ LineasVigentes'
                      /\ \A x \in Skus : EnInvitado(x)' + subidas'[x] + quitadas'[x] = pedidas'[x]
    BY DEF CuentaExacta
  <2>1. ~riesgo /\ exito /\ llego
    BY <1>1, <1>3 DEF LibroTipo
  <2>2. /\ Migrando = {f} /\ flujo[f].lineas = invitado
        /\ \A x \in flujo[f].faltan : invitado[x] > 0
        /\ \A x \in Skus : EnInvitado(x) + subidas[x] + quitadas[x] = pedidas[x]
    BY <1>1, <1>2, <2>1 DEF CuentaExacta, UnaMigracion, LineasVigentes, Migrando
  <2>3. Migrando' = IF resto = {} THEN {} ELSE {f}
    BY <1>5, <1>6, <2>2 DEF Migrando
  <2>4. flujo'[f] = r
    BY <1>6
  <2>5. UnaMigracion' /\ LineasVigentes'
    <3>1. UnaMigracion'
      BY <2>3 DEF UnaMigracion
    <3>2. CASE resto = {}
      BY <2>3, <3>1, <3>2 DEF LineasVigentes
    <3>3. CASE resto # {}
      BY <1>4, <1>5, <2>2, <2>3, <2>4, <3>1, <3>3 DEF LineasVigentes
    <3> QED BY <3>1, <3>2, <3>3
  <2>6. ASSUME NEW x \in Skus
        PROVE  EnInvitado(x)' = IF x \in resto THEN invitado[x] ELSE 0
    <3>1. CASE resto = {}
      <4>1. invitado'[x] = 0
        BY <1>4, <3>1 DEF CarritoVacio
      <4> QED BY <2>3, <3>1, <4>1 DEF EnInvitado
    <3>2. CASE resto # {}
      BY <1>4, <1>5, <2>3, <2>4, <3>2 DEF EnInvitado
    <3> QED BY <3>1, <3>2
  <2>7. ASSUME NEW x \in Skus
        PROVE  EnInvitado(x) = IF x \in flujo[f].faltan THEN invitado[x] ELSE 0
    BY <2>2 DEF EnInvitado
  <2>8. ASSUME NEW x \in Skus
        PROVE  EnInvitado(x)' + subidas'[x] + quitadas'[x] = pedidas'[x]
    <3>1. /\ invitado[x] \in Nat /\ subidas[x] \in Nat /\ pedidas[x] \in Nat
          /\ quitadas[x] \in Nat
          /\ quitadas'[x] = quitadas[x] /\ pedidas'[x] = pedidas[x]
      BY <1>1, <1>4 DEF LibroTipo, Cantidades
    <3>2. subidas' = [subidas EXCEPT ![s] = @ + invitado[s]]
      BY <1>3, <2>1, <2>2
    <3>3. CASE x = s
      <4>1. EnInvitado(x)' = 0 /\ EnInvitado(x) = invitado[x]
        BY <1>2, <2>6, <2>7, <3>3
      <4>2. subidas'[x] = subidas[x] + invitado[x]
        BY <1>1, <3>2, <3>3 DEF LibroTipo, Cantidades
      <4>3. invitado[x] + subidas[x] + quitadas[x] = pedidas[x]
        BY <2>2, <4>1
      <4> QED BY <3>1, <4>1, <4>2, <4>3
    <3>4. CASE x # s
      <4>1. EnInvitado(x)' = EnInvitado(x)
        BY <2>6, <2>7, <3>4
      <4>2. subidas'[x] = subidas[x]
        BY <1>1, <3>2, <3>4 DEF LibroTipo, Cantidades
      <4> QED BY <2>2, <3>1, <4>1, <4>2
    <3> QED BY <3>3, <3>4
  <2> QED BY <2>5, <2>8
<1>12. Crece
  BY <1>1, <1>4, <1>9 DEF Crece, LibroTipo, Cantidades
<1> QED BY <1>10, <1>11, <1>12 DEF LibroInv

(***************************************************************************)
(* Her hand in the guest cart                                              *)
(***************************************************************************)

LEMMA AddToGuestCartBien ==
  ASSUME LibroInv, NEW t \in Pestanas, NEW s \in Skus, AddToGuestCart(t, s)
  PROVE  LibroInv' /\ Crece
<1> DEFINE inv == [invitado EXCEPT ![s] = @ + 1]
<1>1. /\ invitado \in Cantidades /\ pedidas \in Cantidades /\ quitadas \in Cantidades
  BY DEF LibroInv, LibroTipo
<1>2. /\ EscribeInvitado(t, inv) /\ pedidas' = [pedidas EXCEPT ![s] = @ + 1]
      /\ UNCHANGED <<subidas, flujo, quitadas>>
  BY DEF AddToGuestCart
<1>3. inv \in Cantidades /\ pedidas' \in Cantidades /\ quitadas' \in Cantidades
  BY <1>1, <1>2 DEF Cantidades
<1>4. ASSUME NEW x \in Skus
      PROVE  /\ pedidas'[x] >= pedidas[x] /\ quitadas'[x] >= quitadas[x]
             /\ inv[x] + quitadas'[x] + pedidas[x] = invitado[x] + quitadas[x] + pedidas'[x]
  BY <1>1, <1>2 DEF Cantidades
<1> HIDE DEF inv
<1> QED BY <1>2, <1>3, <1>4, EscribeBien

LEMMA UpdateGuestCartQuantityBien ==
  ASSUME LibroInv, NEW t \in Pestanas, NEW s \in Skus, UpdateGuestCartQuantity(t, s)
  PROVE  LibroInv' /\ Crece
<1>1. /\ invitado \in Cantidades /\ pedidas \in Cantidades /\ quitadas \in Cantidades
      /\ vista[t][s] \in Nat
  BY DEF LibroInv, LibroTipo, Cantidades
<1>2. PICK q \in {IF vista[t][s] = 1 THEN 1 ELSE vista[t][s] - 1, vista[t][s] + 1} :
        /\ EscribeInvitado(t, [invitado EXCEPT ![s] = q])
        /\ IF q > invitado[s]
           THEN /\ pedidas' = [pedidas EXCEPT ![s] = @ + (q - invitado[s])]
                /\ UNCHANGED quitadas
           ELSE /\ quitadas' = [quitadas EXCEPT ![s] = @ + (invitado[s] - q)]
                /\ UNCHANGED pedidas
  BY DEF UpdateGuestCartQuantity
<1> DEFINE inv == [invitado EXCEPT ![s] = q]
<1>3. vista[t][s] > 0 /\ UNCHANGED <<subidas, flujo>> /\ EscribeInvitado(t, inv)
  BY <1>2 DEF UpdateGuestCartQuantity
<1>4. q \in Nat
  BY <1>1, <1>2, <1>3
<1>5. inv \in Cantidades
  BY <1>1, <1>4 DEF Cantidades
<1>6. pedidas' \in Cantidades /\ quitadas' \in Cantidades
  BY <1>1, <1>2, <1>4 DEF Cantidades
<1>7. ASSUME NEW x \in Skus
      PROVE  /\ pedidas'[x] >= pedidas[x] /\ quitadas'[x] >= quitadas[x]
             /\ inv[x] + quitadas'[x] + pedidas[x] = invitado[x] + quitadas[x] + pedidas'[x]
  BY <1>1, <1>2, <1>4 DEF Cantidades
<1> HIDE DEF inv
<1> QED BY <1>3, <1>5, <1>6, <1>7, EscribeBien

LEMMA RemoveFromGuestCartBien ==
  ASSUME LibroInv, NEW t \in Pestanas, NEW s \in Skus, RemoveFromGuestCart(t, s)
  PROVE  LibroInv' /\ Crece
<1> DEFINE inv == [invitado EXCEPT ![s] = 0]
<1>1. /\ invitado \in Cantidades /\ pedidas \in Cantidades /\ quitadas \in Cantidades
  BY DEF LibroInv, LibroTipo
<1>2. /\ EscribeInvitado(t, inv) /\ quitadas' = [quitadas EXCEPT ![s] = @ + invitado[s]]
      /\ UNCHANGED <<subidas, flujo, pedidas>>
  BY DEF RemoveFromGuestCart
<1>3. inv \in Cantidades /\ pedidas' \in Cantidades /\ quitadas' \in Cantidades
  BY <1>1, <1>2 DEF Cantidades
<1>4. ASSUME NEW x \in Skus
      PROVE  /\ pedidas'[x] >= pedidas[x] /\ quitadas'[x] >= quitadas[x]
             /\ inv[x] + quitadas'[x] + pedidas[x] = invitado[x] + quitadas[x] + pedidas'[x]
  BY <1>1, <1>2 DEF Cantidades
<1> HIDE DEF inv
<1> QED BY <1>2, <1>3, <1>4, EscribeBien

LEMMA ClearGuestCartBien ==
  ASSUME LibroInv, NEW t \in Pestanas, ClearGuestCart(t)
  PROVE  LibroInv' /\ Crece
<1>1. /\ invitado \in Cantidades /\ pedidas \in Cantidades /\ quitadas \in Cantidades
  BY DEF LibroInv, LibroTipo
<1>2. /\ EscribeInvitado(t, CarritoVacio)
      /\ quitadas' = [s \in Skus |-> quitadas[s] + invitado[s]]
      /\ UNCHANGED <<subidas, flujo, pedidas>>
  BY DEF ClearGuestCart
<1>3. CarritoVacio \in Cantidades /\ pedidas' \in Cantidades /\ quitadas' \in Cantidades
  BY <1>1, <1>2 DEF Cantidades, CarritoVacio
<1>4. ASSUME NEW x \in Skus
      PROVE  /\ pedidas'[x] >= pedidas[x] /\ quitadas'[x] >= quitadas[x]
             /\ CarritoVacio[x] + quitadas'[x] + pedidas[x]
                  = invitado[x] + quitadas[x] + pedidas'[x]
  BY <1>1, <1>2 DEF Cantidades, CarritoVacio
<1> QED BY <1>2, <1>3, <1>4, EscribeBien

(***************************************************************************)
(* The session and the forms                                               *)
(***************************************************************************)

LEMMA AuthContextBien ==
  ASSUME LibroInv, NEW t \in Pestanas,
         \/ EntregaAviso(t) \/ PideCarrito(t) \/ HandleAuthError(t)
         \/ \E k \in Tokens : \/ PerfilRecibido(t, k) \/ PerfilRechazado(t, k)
                              \/ PerfilSinRespuesta(t, k)
  PROVE  LibroInv' /\ Crece
<1>1. vista \in [Pestanas -> Cantidades] /\ VistaTras(t, Nadie) \in [Pestanas -> Cantidades]
  BY VistaTrasTipo DEF LibroInv, LibroTipo
<1>2. CASE EntregaAviso(t)
  <2>1. vista' \in [Pestanas -> Cantidades]
    BY <1>1, <1>2 DEF EntregaAviso, CargaPerfil
  <2> QED BY <1>2, <2>1, Ajeno DEF EntregaAviso, historia
<1>3. ASSUME NEW k \in Tokens, PerfilRecibido(t, k)
      PROVE  LibroInv' /\ Crece
  BY <1>1, <1>3, Ajeno DEF PerfilRecibido, compra, historia
<1>4. ASSUME NEW k \in Tokens, PerfilRechazado(t, k)
      PROVE  LibroInv' /\ Crece
  BY <1>1, <1>4, Ajeno DEF PerfilRechazado
<1>5. ASSUME NEW k \in Tokens, PerfilSinRespuesta(t, k)
      PROVE  LibroInv' /\ Crece
  BY <1>1, <1>5, Ajeno DEF PerfilSinRespuesta
<1>6. CASE PideCarrito(t)
  BY <1>1, <1>6, Ajeno DEF PideCarrito, compra, historia
<1>7. CASE HandleAuthError(t)
  BY <1>1, <1>7, Ajeno DEF HandleAuthError, compra
<1> QED BY <1>2, <1>3, <1>4, <1>5, <1>6, <1>7

LEMMA FlujosBien ==
  ASSUME LibroInv, EmitidosTipo, NEW f \in Flujos, Avanza(f)
  PROVE  LibroInv' /\ Crece
<1>1. flujo \in [Flujos -> Flujo]
  BY DEF LibroInv, LibroTipo
<1>2. CASE EnvioRechazado(f)
  <2>1. /\ flujo[f].paso # "migrando" /\ flujo' = [flujo EXCEPT ![f] = Libre]
        /\ UNCHANGED <<invitado, subidas, pedidas, quitadas, vista, riesgo>>
    BY <1>2 DEF EnvioRechazado, Enviados, compra, historia
  <2> QED BY <2>1, LibreFlujo, OtroFlujoBien
<1>3. CASE Ingresa(f) /\ HayInvitado
  BY <1>3, MigracionEmpieza
<1>4. CASE Ingresa(f) /\ ~HayInvitado
  <2>1. /\ flujo[f].paso # "migrando" /\ flujo' = [flujo EXCEPT ![f] = Libre]
        /\ UNCHANGED <<invitado, subidas, pedidas, quitadas, vista, riesgo>>
    BY <1>4 DEF Ingresa, compra
  <2> QED BY <2>1, LibreFlujo, OtroFlujoBien
<1>5. CASE Registra(f)
  <2>1. /\ flujo[f].paso # "migrando" /\ flujo' = [flujo EXCEPT ![f] = Libre]
        /\ UNCHANGED <<invitado, subidas, pedidas, quitadas, vista, riesgo>>
    BY <1>5 DEF Registra, compra
  <2> QED BY <2>1, LibreFlujo, OtroFlujoBien
<1>6. CASE AvisaIngreso(f)
  <2>1. /\ flujo[f].paso # "migrando" /\ flujo' = [flujo EXCEPT ![f] = Libre]
        /\ UNCHANGED <<invitado, subidas, pedidas, quitadas, vista, riesgo>>
    BY <1>6 DEF AvisaIngreso, compra, historia
  <2> QED BY <2>1, LibreFlujo, OtroFlujoBien
<1>7. CASE \E s \in Skus : MigrateGuestCartToServer(f, s)
  BY <1>7, MigracionSigue
<1> QED BY <1>2, <1>3, <1>4, <1>5, <1>6, <1>7 DEF Avanza

LEMMA EnviosBien ==
  ASSUME LibroInv, NEW f \in Flujos, NEW t \in Pestanas, NEW u \in Usuarios,
         EnviaIngreso(f, t, u) \/ EnviaRegistro(f, t, u)
  PROVE  LibroInv' /\ Crece
<1> DEFINE r(p) == [paso |-> p, en |-> t, quien |-> u]
<1>1. /\ r("ingresando") \in Flujo /\ r("ingresando").paso # "migrando"
      /\ r("registrando") \in Flujo /\ r("registrando").paso # "migrando"
  BY DEF Flujo
<1>2. /\ flujo[f].paso # "migrando"
      /\ UNCHANGED <<invitado, subidas, pedidas, quitadas, vista, riesgo>>
  BY LibreFlujo DEF EnviaIngreso, EnviaRegistro, PuedeEnviar, compra, historia
<1>3. \/ flujo' = [flujo EXCEPT ![f] = r("ingresando")]
      \/ flujo' = [flujo EXCEPT ![f] = r("registrando")]
  BY DEF EnviaIngreso, EnviaRegistro
<1> HIDE DEF r
<1>4. CASE flujo' = [flujo EXCEPT ![f] = r("ingresando")]
  BY <1>1, <1>2, <1>4, OtroFlujoBien
<1>5. CASE flujo' = [flujo EXCEPT ![f] = r("registrando")]
  BY <1>1, <1>2, <1>5, OtroFlujoBien
<1> QED BY <1>3, <1>4, <1>5

LEMMA ManoBien ==
  ASSUME LibroInv, Mano
  PROVE  LibroInv' /\ Crece
<1>1. PICK t \in Pestanas :
        \/ Recarga(t)
        \/ CierraSesion(t)
        \/ PideCarrito(t)
        \/ ClearGuestCart(t)
        \/ \E s \in Skus : \/ PideAlta(t, s)
                           \/ UpdateGuestCartQuantity(t, s)
                           \/ RemoveFromGuestCart(t, s)
        \/ \E f \in Flujos, u \in Usuarios : EnviaIngreso(f, t, u) \/ EnviaRegistro(f, t, u)
  BY DEF Mano
<1>2. CASE Recarga(t)
  BY <1>2, DocumentoBien DEF Recarga
<1>3. CASE CierraSesion(t)
  BY <1>3, DocumentoBien DEF CierraSesion
<1>4. CASE ClearGuestCart(t)
  BY <1>4, ClearGuestCartBien
<1>5. ASSUME NEW s \in Skus, PideAlta(t, s)
      PROVE  LibroInv' /\ Crece
  <2>1. vista' \in [Pestanas -> Cantidades]
    BY <1>5 DEF PideAlta, LibroInv, LibroTipo
  <2> QED BY <1>5, <2>1, Ajeno DEF PideAlta, historia
<1>6. ASSUME NEW s \in Skus, UpdateGuestCartQuantity(t, s)
      PROVE  LibroInv' /\ Crece
  BY <1>6, UpdateGuestCartQuantityBien
<1>7. ASSUME NEW s \in Skus, RemoveFromGuestCart(t, s)
      PROVE  LibroInv' /\ Crece
  BY <1>7, RemoveFromGuestCartBien
<1>8. ASSUME NEW f \in Flujos, NEW u \in Usuarios, EnviaIngreso(f, t, u) \/ EnviaRegistro(f, t, u)
      PROVE  LibroInv' /\ Crece
  BY <1>8, EnviosBien
<1>9. CASE PideCarrito(t)
  BY <1>9, AuthContextBien
<1> QED BY <1>1, <1>2, <1>3, <1>4, <1>5, <1>6, <1>7, <1>8, <1>9

LEMMA PasoLibro ==
  ASSUME LibroInv, EmitidosTipo, [Next]_vars
  PROVE  LibroInv' /\ Crece
<1>1. CASE Mano
  BY <1>1, ManoBien
<1>2. ASSUME NEW t \in Pestanas,
             EntregaAviso(t) \/ RespuestaPerfil(t) \/ HandleAuthError(t)
      PROVE  LibroInv' /\ Crece
  BY <1>2, AuthContextBien DEF RespuestaPerfil
<1>3. ASSUME NEW t \in Pestanas, NEW s \in Skus, AddToGuestCart(t, s)
      PROVE  LibroInv' /\ Crece
  BY <1>3, AddToGuestCartBien
<1>4. ASSUME NEW t \in Pestanas, NEW s \in Skus, AltaFalla(t, s)
      PROVE  LibroInv' /\ Crece
  <2>1. vista' \in [Pestanas -> Cantidades]
    BY <1>4 DEF AltaFalla, LibroInv, LibroTipo
  <2> QED BY <1>4, <2>1, Ajeno DEF AltaFalla, historia
<1>5. ASSUME NEW f \in Flujos, Avanza(f)
      PROVE  LibroInv' /\ Crece
  BY <1>5, FlujosBien
<1>6. ASSUME NEW k \in Tokens, VenceToken(k)
      PROVE  LibroInv' /\ Crece
  <2>1. vista' \in [Pestanas -> Cantidades]
    BY <1>6 DEF VenceToken, LibroInv, LibroTipo, compra
  <2> QED BY <1>6, <2>1, Ajeno DEF VenceToken, compra, historia
<1>7. CASE UNCHANGED vars
  <2>1. vista' \in [Pestanas -> Cantidades]
    BY <1>7 DEF LibroInv, LibroTipo, vars, compra
  <2> QED BY <1>7, <2>1, Ajeno DEF vars, compra, historia
<1>8. ASSUME NEW t \in Pestanas, Redirige(t)
      PROVE  LibroInv' /\ Crece
  BY <1>8, DocumentoBien DEF Redirige
<1> QED BY <1>1, <1>2, <1>3, <1>4, <1>5, <1>6, <1>7, <1>8 DEF Next, RespuestaAlta

\* Every token is issued to an account.
LEMMA PasoEmitidos ==
  ASSUME LibroInv, EmitidosTipo, [Next]_vars
  PROVE  EmitidosTipo'
<1>1. CASE UNCHANGED emitidos
  BY <1>1 DEF EmitidosTipo
<1>2. ASSUME NEW f \in Flujos, Ingresa(f) \/ Registra(f)
      PROVE  EmitidosTipo'
  <2>1. flujo[f] \in Flujo /\ flujo[f].paso # "libre"
    BY <1>2 DEF LibroInv, LibroTipo, Ingresa, Registra
  <2>2. flujo[f].quien \in Usuarios
    BY <2>1, FlujoCampos
  <2>3. emitidos' = Append(emitidos, flujo[f].quien)
    BY <1>2 DEF Ingresa, Registra, EmiteToken
  <2> QED BY <2>2, <2>3 DEF EmitidosTipo
<1>3. UNCHANGED emitidos \/ \E f \in Flujos : Ingresa(f) \/ Registra(f)
  <2>1. ASSUME Mano PROVE UNCHANGED emitidos
    BY <2>1 DEF Mano, almacen, Recarga, CierraSesion, PideCarrito, ClearGuestCart, PideAlta,
                UpdateGuestCartQuantity, RemoveFromGuestCart, EnviaIngreso, EnviaRegistro
  <2>2. ASSUME NEW t \in Pestanas, \/ EntregaAviso(t) \/ RespuestaPerfil(t)
                                   \/ HandleAuthError(t) \/ Redirige(t)
        PROVE  UNCHANGED emitidos
    BY <2>2 DEF almacen, EntregaAviso, RespuestaPerfil, PerfilRecibido, PerfilRechazado,
                PerfilSinRespuesta, HandleAuthError, Redirige
  <2>3. ASSUME NEW t \in Pestanas, NEW s \in Skus, RespuestaAlta(t, s)
        PROVE  UNCHANGED emitidos
    BY <2>3 DEF almacen, RespuestaAlta, AddToGuestCart, AltaFalla
  <2>4. ASSUME NEW f \in Flujos, Avanza(f), ~Ingresa(f), ~Registra(f)
        PROVE  UNCHANGED emitidos
    BY <2>4 DEF almacen, Avanza, EnvioRechazado, AvisaIngreso, MigrateGuestCartToServer
  <2>5. ASSUME NEW k \in Tokens, VenceToken(k)
        PROVE  UNCHANGED emitidos
    BY <2>5 DEF VenceToken
  <2>6. CASE UNCHANGED vars
    BY <2>6 DEF vars, almacen
  <2> QED BY <2>1, <2>2, <2>3, <2>4, <2>5, <2>6 DEF Next
<1> QED BY <1>1, <1>2, <1>3

(***************************************************************************)
(* The theorems                                                            *)
(***************************************************************************)

LEMMA InicioLibro == Init => LibroInv
<1> SUFFICES ASSUME Init PROVE LibroInv
  OBVIOUS
<1>1. CarritoVacio \in Cantidades /\ \A s \in Skus : CarritoVacio[s] = 0
  BY DEF CarritoVacio, Cantidades
<1>2. flujo \in [Flujos -> Flujo] /\ Migrando = {}
  BY LibreFlujo DEF Init, Migrando
<1>3. LibroTipo
  BY <1>1, <1>2 DEF Init, LibroTipo
<1>4. UnaMigracion /\ LineasVigentes
  BY <1>2 DEF UnaMigracion, LineasVigentes
<1>5. \A s \in Skus : EnInvitado(s) + subidas[s] + quitadas[s] = pedidas[s]
  BY <1>1, <1>2 DEF Init, EnInvitado
<1> QED BY <1>3, <1>4, <1>5 DEF LibroInv, CuentaExacta

\* In every reachable state of the tabs, the guest cart and the server's cart, the
\* types hold and, unless a migration was disturbed, the ledger of the units is exact.
THEOREM SpecLibroInv == Spec => [](LibroInv /\ EmitidosTipo)
<1>1. Init => LibroInv /\ EmitidosTipo
  BY InicioLibro DEF Init, EmitidosTipo
<1>2. LibroInv /\ EmitidosTipo /\ [Next]_vars => LibroInv' /\ EmitidosTipo'
  BY PasoLibro, PasoEmitidos
<1> QED BY <1>1, <1>2, PTL DEF Spec

\* Every unit a person asked for is in the browser, on the server or taken out by
\* her, whatever the tabs, the server and the clock do, until a migration is
\* disturbed (a post refused, unanswered or sent with a token that expired, a
\* document loaded, a second migration, a change of guest_cart in the meantime).
THEOREM SpecCuentaExacta == Spec => []CuentaExacta
<1>1. LibroInv => CuentaExacta
  BY DEF LibroInv
<1> QED BY <1>1, SpecLibroInv, PTL

\* The units held in the browser and on the server.
Libro == [s \in Skus |-> EnInvitado(s) + subidas[s]]

\* A step moves the books by her hand, or leaves them alone, or disturbs a
\* migration.
LEMMA PasoLC ==
  ASSUME LibroInv, LibroInv', Crece
  PROVE  [LC!Next]_(LC!vars)
<1>1. /\ pedidas \in Cantidades /\ quitadas \in Cantidades
      /\ pedidas' \in Cantidades /\ quitadas' \in Cantidades
      /\ subidas \in Cantidades /\ subidas' \in Cantidades
      /\ invitado \in Cantidades /\ invitado' \in Cantidades
      /\ riesgo \in BOOLEAN /\ riesgo' \in BOOLEAN
      /\ CuentaExacta /\ CuentaExacta'
  BY DEF LibroInv, LibroTipo
<1>2. CASE riesgo'
  BY <1>2 DEF LC!Next, LC!Perturba
<1>3. CASE ~riesgo'
  <2>1. ~riesgo
    BY <1>1, <1>3 DEF Crece
  <2>2. ASSUME NEW s \in Skus
        PROVE  /\ Libro[s] \in Nat /\ Libro[s] + quitadas[s] = pedidas[s]
               /\ Libro'[s] \in Nat /\ Libro'[s] + quitadas'[s] = pedidas'[s]
    <3>1. EnInvitado(s) \in Nat /\ EnInvitado(s)' \in Nat
      BY <1>1 DEF EnInvitado, Cantidades
    <3>2. /\ EnInvitado(s) + subidas[s] + quitadas[s] = pedidas[s]
          /\ EnInvitado(s)' + subidas'[s] + quitadas'[s] = pedidas'[s]
      BY <1>1, <1>3, <2>1 DEF CuentaExacta
    <3>3. Libro[s] = EnInvitado(s) + subidas[s] /\ Libro'[s] = EnInvitado(s)' + subidas'[s]
      BY DEF Libro
    <3>4. subidas[s] \in Nat /\ subidas'[s] \in Nat
      BY <1>1 DEF Cantidades
    <3> QED BY <3>1, <3>2, <3>3, <3>4
  <2>3. DOMAIN Libro = Skus /\ DOMAIN Libro' = Skus
    BY DEF Libro
  <2>4. CASE <<pedidas, quitadas>>' = <<pedidas, quitadas>>
    <3>1. ASSUME NEW s \in Skus PROVE Libro'[s] = Libro[s]
      <4>1. pedidas[s] \in Nat /\ quitadas[s] \in Nat
        BY <1>1 DEF Cantidades
      <4> QED BY <2>2, <2>4, <4>1
    <3>2. Libro' = Libro
      BY <3>1 DEF Libro
    <3> QED BY <1>3, <2>1, <2>4, <3>2, <1>1 DEF LC!vars, Libro
  <2>5. CASE <<pedidas, quitadas>>' # <<pedidas, quitadas>>
    <3>1. pedidas' \in LC!Cuenta /\ quitadas' \in LC!Cuenta
      BY <1>1 DEF LC!Cuenta, Cantidades
    <3>2. Libro' \in LC!Cuenta
      BY <2>2 DEF LC!Cuenta, Libro
    <3>3. \A s \in Skus : pedidas'[s] >= pedidas[s] /\ quitadas'[s] >= quitadas[s]
      BY DEF Crece
    <3>4. \A s \in Skus : Libro'[s] + quitadas'[s] = pedidas'[s]
      BY <2>2
    <3>5. LC!Mano
      BY <1>3, <2>1, <2>5, <3>1, <3>2, <3>3, <3>4 DEF LC!Mano, LC!Cuadra, Libro
    <3> QED BY <3>5 DEF LC!Next
  <2> QED BY <2>4, <2>5
<1> QED BY <1>1, <1>2, <1>3

LEMMA InicioLC == Init => LC!Init
<1> SUFFICES ASSUME Init PROVE LC!Init
  OBVIOUS
<1>1. Migrando = {}
  BY LibreFlujo DEF Init, Migrando
<1>2. \A s \in Skus : EnInvitado(s) + subidas[s] = 0
  BY <1>1 DEF Init, EnInvitado, CarritoVacio
<1> QED BY <1>2 DEF Init, LC!Init, CarritoVacio

\* The guest cart implements LibroCompra: what is held for a person changes only by
\* her hand, and by what she does, as long as no migration is disturbed.
THEOREM SpecLibroDeLaCompra == Spec => LibroDeLaCompra
<1>1. Init => LC!Init
  BY InicioLC
<1>2. LibroInv /\ EmitidosTipo /\ LibroInv' /\ [Next]_vars => [LC!Next]_(LC!vars)
  BY PasoLC, PasoLibro
<1> QED BY <1>1, <1>2, SpecLibroInv, PTL DEF Spec, LibroDeLaCompra, LC!Spec

=============================================================================
