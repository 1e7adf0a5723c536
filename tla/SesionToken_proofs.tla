-------------------------- MODULE SesionToken_proofs --------------------------
(***************************************************************************)
(* Proofs about the sessions of SesionInvitado, for any number of tabs,    *)
(* accounts and submissions: the types, and that a tab with nothing        *)
(* pending shows the owner of the token in localStorage.                   *)
(***************************************************************************)
EXTENDS SesionInvitado_proofs

\* The types of the sessions.
SesionTipo ==
  /\ emitidos \in Seq(Usuarios)
  /\ vencidos \subseteq 1..Len(emitidos)
  /\ token \in 0..Len(emitidos)
  /\ usuarioLS \in Usuarios \cup {Nadie}
  /\ sesion \in [Pestanas -> Usuarios \cup {Nadie}]
  /\ cargando \in [Pestanas -> BOOLEAN]
  /\ perfil \in [Pestanas -> SUBSET (1..Len(emitidos))]
  /\ aviso \in [Pestanas -> BOOLEAN]
  /\ rechazo \in [Pestanas -> BOOLEAN]
  /\ salida \in [Pestanas -> {"no", "login", "nada"}]
  /\ alta \in [Pestanas -> SUBSET Skus]
  /\ cruce \in BOOLEAN

\* A submission holds the place of the token it may be given.
IngresosInv == Len(emitidos) + Cardinality(Enviados) <= MaxIngresos

EnCurso == {f \in Flujos : flujo[f].paso \in {"migrando", "espera"}}

\* The answers that may still name a user are about the token of the storage.
PerfilesVigentes == ~cruce => \A t \in Pestanas : \A k \in perfil[t] \ vencidos : k = token

\* A handler that will still store its user was given the token of the storage.
IngresosVigentes == ~cruce => \A f \in EnCurso : flujo[f].quien = Dueno(token)

SesionInv == PerfilesVigentes /\ IngresosVigentes /\ SesionDelToken

Inv == LibroTipo /\ SesionTipo /\ IngresosInv /\ SesionInv

(***************************************************************************)
(* Counting submissions                                                    *)
(***************************************************************************)

LEMMA EnviadosFinito == IsFiniteSet(Enviados) /\ Cardinality(Enviados) \in Nat
<1>1. Enviados \subseteq Flujos
  BY DEF Enviados
<1>2. IsFiniteSet(Enviados)
  BY <1>1, FlujosAssumption, FS_Subset
<1> QED BY <1>2, FS_CardinalityType

\* No submission is sent.
LEMMA EnviadosMenos ==
  ASSUME Enviados' \subseteq Enviados
  PROVE  Cardinality(Enviados') \in Nat /\ Cardinality(Enviados') <= Cardinality(Enviados)
<1>1. IsFiniteSet(Enviados) /\ IsFiniteSet(Enviados')
  BY EnviadosFinito, FS_Subset
<1> QED BY <1>1, FS_Subset, FS_CardinalityType

\* One submission ends.
LEMMA EnviadosSin ==
  ASSUME NEW f \in Enviados, Enviados' = Enviados \ {f}
  PROVE  Cardinality(Enviados') \in Nat /\ Cardinality(Enviados') = Cardinality(Enviados) - 1
<1>1. IsFiniteSet(Enviados)
  BY EnviadosFinito
<1> QED BY <1>1, FS_RemoveElement, FS_CardinalityType

\* One submission is sent.
LEMMA EnviadosCon ==
  ASSUME NEW f, f \notin Enviados, Enviados' = Enviados \cup {f}
  PROVE  Cardinality(Enviados') \in Nat /\ Cardinality(Enviados') = Cardinality(Enviados) + 1
<1>1. IsFiniteSet(Enviados)
  BY EnviadosFinito
<1> QED BY <1>1, FS_AddElement, FS_CardinalityType

\* A step that changes one submission.
LEMMA UnFlujo ==
  ASSUME LibroTipo, NEW f \in Flujos, NEW r, flujo' = [flujo EXCEPT ![f] = r]
  PROVE  \A g \in Flujos : flujo'[g] = IF g = f THEN r ELSE flujo[g]
BY DEF LibroTipo

(***************************************************************************)
(* Tabs                                                                    *)
(***************************************************************************)

LEMMA AvisaTipo ==
  ASSUME NEW t \in Pestanas, NEW cambia \in BOOLEAN, SesionTipo
  PROVE  /\ Avisa(t, cambia) \in [Pestanas -> BOOLEAN]
         /\ \A x \in Pestanas : aviso[x] => Avisa(t, cambia)[x]
         /\ cambia => \A x \in Pestanas \ {t} : Avisa(t, cambia)[x]
BY DEF Avisa, SesionTipo

LEMMA DuenoTipo ==
  ASSUME SesionTipo, NEW k \in 0..Len(emitidos)
  PROVE  Dueno(k) \in Usuarios \cup {Nadie}
<1>1. CASE k = 0
  BY <1>1 DEF Dueno
<1>2. CASE k # 0
  <2>1. k \in 1..Len(emitidos)
    BY <1>2 DEF SesionTipo
  <2>2. emitidos[k] \in Usuarios
    BY <2>1 DEF SesionTipo
  <2> QED BY <1>2, <2>2 DEF Dueno
<1> QED BY <1>1, <1>2

LEMMA OyeTipo ==
  ASSUME NEW t \in Pestanas, SesionTipo, Oye(t)
  PROVE  /\ salida' \in [Pestanas -> {"no", "login", "nada"}]
         /\ \A x \in Pestanas \ {t} : salida'[x] = salida[x]
BY DEF Oye, SesionTipo

\* What a step in the tab t has to grant for the tabs to go on showing the owner
\* of the token: the other tabs keep what they show and what they wait for, they
\* are told of a new token, and t itself shows the owner when it is quiet, or is the
\* tab that a refused cart request left without a token.
LEMMA TabsPaso ==
  ASSUME SesionDelToken, NEW t \in Pestanas,
         \A x \in Pestanas \ {t} :
            /\ sesion'[x] = sesion[x] /\ perfil'[x] = perfil[x] /\ salida'[x] = salida[x]
            /\ aviso[x] => aviso'[x]
            /\ token' # token => aviso'[x],
         \A f \in EnCurso : flujo[f].en # t => f \in EnCurso' /\ flujo'[f].en = flujo[f].en,
         token' = token => Dueno(token)' = Dueno(token),
         ~cruce' => ~cruce /\ (Tranquila(t)' => \/ sesion'[t] = Dueno(token)'
                                                \/ token' = 0 /\ salida'[t] = "nada")
  PROVE  SesionDelToken'
<1> SUFFICES ASSUME ~cruce', NEW x \in Pestanas, Tranquila(x)'
             PROVE  sesion'[x] = Dueno(token)' \/ (token' = 0 /\ salida'[x] = "nada")
  BY DEF SesionDelToken
<1>1. CASE x = t
  BY <1>1
<1>2. CASE x # t
  <2>1. ~aviso'[x] /\ perfil'[x] = {} /\ salida'[x] # "login"
    BY DEF Tranquila
  <2>2. /\ ~aviso[x] /\ perfil[x] = {} /\ token' = token
        /\ salida'[x] = salida[x] /\ salida[x] # "login"
    BY <1>2, <2>1
  <2>3. ASSUME NEW f \in Flujos, flujo[f].paso \in {"migrando", "espera"}, flujo[f].en = x
        PROVE  FALSE
    <3>1. f \in EnCurso' /\ flujo'[f].en = x
      BY <1>2, <2>3 DEF EnCurso
    <3> QED BY <3>1 DEF Tranquila, EnCurso
  <2>4. Tranquila(x)
    BY <2>2, <2>3 DEF Tranquila
  <2>5. sesion[x] = Dueno(token) \/ (token = 0 /\ salida[x] = "nada")
    BY <2>4 DEF SesionDelToken
  <2> QED BY <1>2, <2>2, <2>5
<1> QED BY <1>1, <1>2

\* A step that leaves the sessions and the submissions alone.
LEMMA SinSesion ==
  ASSUME Inv, LibroTipo', UNCHANGED <<almacen, pestana, flujo, cruce>>,
         alta' \in [Pestanas -> SUBSET Skus]
  PROVE  Inv'
<1>1. /\ UNCHANGED <<emitidos, vencidos, token, usuarioLS, sesion, cargando, perfil, aviso,
                     rechazo, salida>>
  BY DEF almacen, pestana
<1>2. SesionTipo'
  BY <1>1 DEF Inv, SesionTipo
<1>3. Enviados' = Enviados /\ EnCurso' = EnCurso
  BY DEF Enviados, EnCurso
<1>4. IngresosInv'
  BY <1>1, <1>3 DEF Inv, IngresosInv
<1>5. PerfilesVigentes' /\ IngresosVigentes' /\ SesionDelToken'
  BY <1>1, <1>3
     DEF Inv, SesionInv, PerfilesVigentes, IngresosVigentes, SesionDelToken, Tranquila, Dueno
<1> QED BY <1>2, <1>4, <1>5 DEF Inv, SesionInv

(***************************************************************************)
(* AuthContext                                                             *)
(***************************************************************************)

\* The steps of the tab t that leave the submissions alone.
LEMMA SinFlujos ==
  ASSUME Inv, LibroTipo', SesionTipo', UNCHANGED <<emitidos, flujo>>
  PROVE  /\ IngresosInv' /\ EnCurso' = EnCurso
         /\ \A f \in EnCurso : f \in EnCurso' /\ flujo'[f] = flujo[f]
         /\ token' = token => Dueno(token)' = Dueno(token)
<1>1. Enviados' = Enviados /\ EnCurso' = EnCurso
  BY DEF Enviados, EnCurso
<1>2. IngresosInv'
  BY <1>1 DEF Inv, IngresosInv
<1> QED BY <1>1, <1>2 DEF Dueno

LEMMA EntregaAvisoSesion ==
  ASSUME Inv, LibroTipo', NEW t \in Pestanas, EntregaAviso(t)
  PROVE  Inv'
<1>1. /\ UNCHANGED <<emitidos, vencidos, token, usuarioLS, rechazo, alta, flujo, cruce>>
      /\ aviso' = [aviso EXCEPT ![t] = FALSE]
      /\ CargaPerfil(t, token)
  BY DEF EntregaAviso, almacen, historia
<1>2. SesionTipo
  BY DEF Inv
<1>3. /\ token = 0 => /\ sesion' = [sesion EXCEPT ![t] = Nadie]
                      /\ cargando' = [cargando EXCEPT ![t] = FALSE]
                      /\ perfil' = perfil
      /\ token # 0 => /\ perfil' = [perfil EXCEPT ![t] = @ \cup {token}]
                      /\ cargando' = [cargando EXCEPT ![t] = TRUE]
                      /\ sesion' = sesion
      /\ salida' \in [Pestanas -> {"no", "login", "nada"}]
      /\ \A x \in Pestanas \ {t} : salida'[x] = salida[x]
  BY <1>1, <1>2, OyeTipo DEF CargaPerfil, SesionTipo
<1>4. SesionTipo'
  <2>1. CASE token = 0
    BY <1>1, <1>2, <1>3, <2>1 DEF SesionTipo
  <2>2. CASE token # 0
    <3>1. token \in 1..Len(emitidos)
      BY <1>2, <2>2 DEF SesionTipo
    <3>2. perfil' \in [Pestanas -> SUBSET (1..Len(emitidos))]
      <4>1. perfil[t] \cup {token} \in SUBSET (1..Len(emitidos))
        BY <1>2, <3>1 DEF SesionTipo
      <4> QED BY <1>2, <1>3, <2>2, <4>1 DEF SesionTipo
    <3>3. /\ cargando' \in [Pestanas -> BOOLEAN] /\ aviso' \in [Pestanas -> BOOLEAN]
          /\ sesion' = sesion
      BY <1>1, <1>2, <1>3, <2>2 DEF SesionTipo
    <3> QED BY <1>1, <1>2, <1>3, <3>2, <3>3 DEF SesionTipo
  <2> QED BY <2>1, <2>2
<1>5. /\ IngresosInv' /\ EnCurso' = EnCurso
      /\ \A f \in EnCurso : f \in EnCurso' /\ flujo'[f] = flujo[f]
      /\ Dueno(token)' = Dueno(token)
  BY <1>1, <1>4, SinFlujos
<1>6. PerfilesVigentes'
  <2>1. ASSUME NEW x \in Pestanas PROVE perfil'[x] \subseteq perfil[x] \cup {token}
    BY <1>2, <1>3 DEF SesionTipo
  <2> QED BY <1>1, <2>1 DEF Inv, SesionInv, PerfilesVigentes
<1>7. IngresosVigentes'
  BY <1>1, <1>5 DEF Inv, SesionInv, IngresosVigentes
<1>8. SesionDelToken'
  <2>1. \A x \in Pestanas \ {t} : /\ sesion'[x] = sesion[x] /\ perfil'[x] = perfil[x]
                                  /\ salida'[x] = salida[x]
                                  /\ aviso[x] => aviso'[x]
    BY <1>1, <1>2, <1>3 DEF SesionTipo
  <2>2. ASSUME Tranquila(t)' PROVE sesion'[t] = Dueno(token)'
    <3>1. perfil'[t] = {}
      BY <2>2 DEF Tranquila
    <3>2. token = 0
      BY <1>2, <1>3, <3>1 DEF SesionTipo
    <3>3. sesion'[t] = Nadie
      BY <1>2, <1>3, <3>2 DEF SesionTipo
    <3> QED BY <1>5, <3>2, <3>3 DEF Dueno
  <2> QED BY <1>1, <1>5, <2>1, <2>2, TabsPaso DEF Inv, SesionInv
<1> QED BY <1>4, <1>5, <1>6, <1>7, <1>8 DEF Inv, SesionInv

LEMMA PerfilRecibidoSesion ==
  ASSUME Inv, LibroTipo', NEW t \in Pestanas, NEW k, PerfilRecibido(t, k)
  PROVE  Inv'
<1>1. SesionTipo
  BY DEF Inv
<1>2. /\ UNCHANGED <<emitidos, vencidos, token, rechazo, alta, flujo, cruce>>
      /\ k \in perfil[t] \ vencidos
      /\ perfil' = [perfil EXCEPT ![t] = @ \ {k}]
      /\ cargando' = [cargando EXCEPT ![t] = FALSE]
      /\ sesion' = [sesion EXCEPT ![t] = Dueno(k)]
      /\ usuarioLS' = Dueno(k)
      /\ aviso' = Avisa(t, usuarioLS # Dueno(k)) /\ Oye(t)
  BY DEF PerfilRecibido, compra, historia
<1>3. k \in 0..Len(emitidos)
  BY <1>1, <1>2 DEF SesionTipo
<1>4. Dueno(k) \in Usuarios \cup {Nadie}
  BY <1>1, <1>3, DuenoTipo
<1>5. /\ aviso' \in [Pestanas -> BOOLEAN]
      /\ \A x \in Pestanas : aviso[x] => aviso'[x]
      /\ salida' \in [Pestanas -> {"no", "login", "nada"}]
      /\ \A x \in Pestanas \ {t} : salida'[x] = salida[x]
  BY <1>1, <1>2, AvisaTipo, OyeTipo
<1>6. SesionTipo'
  BY <1>1, <1>2, <1>4, <1>5 DEF SesionTipo
<1>7. /\ IngresosInv' /\ EnCurso' = EnCurso
      /\ \A f \in EnCurso : f \in EnCurso' /\ flujo'[f] = flujo[f]
      /\ Dueno(token)' = Dueno(token)
  BY <1>2, <1>6, SinFlujos
<1>8. PerfilesVigentes'
  <2>1. ASSUME NEW x \in Pestanas PROVE perfil'[x] \subseteq perfil[x]
    BY <1>1, <1>2 DEF SesionTipo
  <2> QED BY <1>2, <2>1 DEF Inv, SesionInv, PerfilesVigentes
<1>9. IngresosVigentes'
  BY <1>2, <1>7 DEF Inv, SesionInv, IngresosVigentes
<1>10. SesionDelToken'
  <2>1. \A x \in Pestanas \ {t} : sesion'[x] = sesion[x] /\ perfil'[x] = perfil[x]
    BY <1>1, <1>2 DEF SesionTipo
  <2>2. sesion'[t] = Dueno(k)
    BY <1>1, <1>2 DEF SesionTipo
  <2>3. ~cruce => k = token
    BY <1>2 DEF Inv, SesionInv, PerfilesVigentes
  <2> QED BY <1>2, <1>5, <1>7, <2>1, <2>2, <2>3, TabsPaso DEF Inv, SesionInv
<1> QED BY <1>6, <1>7, <1>8, <1>9, <1>10 DEF Inv, SesionInv

LEMMA PerfilRechazadoSesion ==
  ASSUME Inv, LibroTipo', NEW t \in Pestanas, NEW k, PerfilRechazado(t, k)
  PROVE  Inv'
<1>1. SesionTipo
  BY DEF Inv
<1>2. /\ UNCHANGED <<emitidos, vencidos, rechazo, alta, flujo>>
      /\ perfil' = [perfil EXCEPT ![t] = @ \ {k}]
      /\ cargando' = [cargando EXCEPT ![t] = FALSE]
      /\ sesion' = [sesion EXCEPT ![t] = Nadie]
      /\ token' = 0 /\ usuarioLS' = Nadie
      /\ aviso' = Avisa(t, token # 0 \/ usuarioLS # Nadie)
      /\ Cruza /\ Oye(t)
  BY DEF PerfilRechazado
<1>3. /\ aviso' \in [Pestanas -> BOOLEAN]
      /\ \A x \in Pestanas : aviso[x] => aviso'[x]
      /\ token # 0 => \A x \in Pestanas \ {t} : aviso'[x]
      /\ salida' \in [Pestanas -> {"no", "login", "nada"}]
      /\ \A x \in Pestanas \ {t} : salida'[x] = salida[x]
  BY <1>1, <1>2, AvisaTipo, OyeTipo
<1>4. cruce' \in BOOLEAN /\ (~cruce' => ~cruce)
  BY <1>1, <1>2 DEF Cruza, SesionTipo
<1>5. SesionTipo'
  <2>1. /\ sesion' \in [Pestanas -> Usuarios \cup {Nadie}]
        /\ cargando' \in [Pestanas -> BOOLEAN]
        /\ perfil' \in [Pestanas -> SUBSET (1..Len(emitidos))]
    BY <1>1, <1>2 DEF SesionTipo
  <2>2. token' \in 0..Len(emitidos) /\ usuarioLS' \in Usuarios \cup {Nadie}
    BY <1>1, <1>2 DEF SesionTipo
  <2> QED BY <1>1, <1>2, <1>3, <1>4, <2>1, <2>2 DEF SesionTipo
<1>6. /\ IngresosInv' /\ EnCurso' = EnCurso
      /\ \A f \in EnCurso : f \in EnCurso' /\ flujo'[f] = flujo[f]
      /\ token' = token => Dueno(token)' = Dueno(token)
  BY <1>2, <1>5, SinFlujos
<1>7. ~cruce' /\ token' # token => /\ \A x \in Pestanas : perfil'[x] \ vencidos = {}
                                   /\ EnCurso = {}
  <2>1. EnCurso # {} => \E f \in Flujos : {flujo[f].paso, flujo'[f].paso}
                                            \subseteq {"migrando", "espera"}
    BY <1>2 DEF EnCurso
  <2> QED BY <1>2, <2>1 DEF Cruza
<1>8. PerfilesVigentes'
  <2>1. ASSUME NEW x \in Pestanas PROVE perfil'[x] \subseteq perfil[x]
    BY <1>1, <1>2 DEF SesionTipo
  <2>2. CASE token' = token
    BY <1>2, <1>4, <2>1, <2>2 DEF Inv, SesionInv, PerfilesVigentes
  <2>3. CASE token' # token
    BY <1>2, <1>7, <2>3 DEF PerfilesVigentes
  <2> QED BY <2>2, <2>3
<1>9. IngresosVigentes'
  <2>1. CASE token' = token
    BY <1>4, <1>6, <2>1 DEF Inv, SesionInv, IngresosVigentes
  <2>2. CASE token' # token
    BY <1>6, <1>7, <2>2 DEF IngresosVigentes
  <2> QED BY <2>1, <2>2
<1>10. SesionDelToken'
  <2>1. \A x \in Pestanas \ {t} : sesion'[x] = sesion[x] /\ perfil'[x] = perfil[x]
    BY <1>1, <1>2 DEF SesionTipo
  <2>2. sesion'[t] = Dueno(token)'
    BY <1>1, <1>2 DEF SesionTipo, Dueno
  <2> QED BY <1>2, <1>3, <1>4, <1>6, <2>1, <2>2, TabsPaso DEF Inv, SesionInv
<1> QED BY <1>5, <1>6, <1>8, <1>9, <1>10 DEF Inv, SesionInv

LEMMA PerfilSinRespuestaSesion ==
  ASSUME Inv, LibroTipo', NEW t \in Pestanas, NEW k, PerfilSinRespuesta(t, k)
  PROVE  Inv'
<1>1. SesionTipo
  BY DEF Inv
<1>2. /\ UNCHANGED <<emitidos, vencidos, token, usuarioLS, aviso, rechazo, alta, flujo>>
      /\ perfil' = [perfil EXCEPT ![t] = @ \ {k}]
      /\ cargando' = [cargando EXCEPT ![t] = FALSE]
      /\ sesion' = [sesion EXCEPT ![t] = Nadie]
      /\ cruce' = TRUE /\ Oye(t)
  BY DEF PerfilSinRespuesta, almacen
<1>3. SesionTipo'
  BY <1>1, <1>2, OyeTipo DEF SesionTipo
<1>4. IngresosInv'
  BY <1>2, <1>3, SinFlujos
<1> QED BY <1>2, <1>3, <1>4
        DEF Inv, SesionInv, PerfilesVigentes, IngresosVigentes, SesionDelToken

(***************************************************************************)
(* useCart                                                                 *)
(***************************************************************************)

LEMMA PideCarritoSesion ==
  ASSUME Inv, LibroTipo', NEW t \in Pestanas, PideCarrito(t)
  PROVE  Inv'
<1>1. SesionTipo
  BY DEF Inv
<1>2. /\ UNCHANGED <<emitidos, vencidos, token, usuarioLS, sesion, cargando, perfil, aviso,
                     salida, alta, flujo, cruce>>
      /\ rechazo' = [rechazo EXCEPT ![t] = TRUE]
  BY DEF PideCarrito, almacen, compra, historia
<1>3. SesionTipo'
  BY <1>1, <1>2 DEF SesionTipo
<1>4. IngresosInv' /\ EnCurso' = EnCurso /\ Dueno(token)' = Dueno(token)
  BY <1>2, <1>3, SinFlujos
<1>5. PerfilesVigentes' /\ IngresosVigentes' /\ SesionDelToken'
  BY <1>2, <1>4
     DEF Inv, SesionInv, PerfilesVigentes, IngresosVigentes, SesionDelToken, Tranquila
<1> QED BY <1>3, <1>4, <1>5 DEF Inv, SesionInv

\* The token is gone: the other tabs hear of it, and this one leaves for the login
\* page or is on it.
LEMMA HandleAuthErrorSesion ==
  ASSUME Inv, LibroTipo', NEW t \in Pestanas, HandleAuthError(t)
  PROVE  Inv'
<1>1. SesionTipo
  BY DEF Inv
<1>2. /\ UNCHANGED <<emitidos, vencidos, usuarioLS, sesion, cargando, perfil, alta, flujo>>
      /\ rechazo' = [rechazo EXCEPT ![t] = FALSE]
      /\ token' = 0 /\ aviso' = Avisa(t, token # 0) /\ Cruza
      /\ salida' \in {[salida EXCEPT ![t] = "login"],
                     [salida EXCEPT ![t] = IF @ = "login" THEN @ ELSE "nada"]}
  BY DEF HandleAuthError, compra
<1>3. /\ aviso' \in [Pestanas -> BOOLEAN]
      /\ \A x \in Pestanas : aviso[x] => aviso'[x]
      /\ token # 0 => \A x \in Pestanas \ {t} : aviso'[x]
  BY <1>1, <1>2, AvisaTipo
<1>4. cruce' \in BOOLEAN /\ (~cruce' => ~cruce)
  BY <1>1, <1>2 DEF Cruza, SesionTipo
<1>5. /\ salida' \in [Pestanas -> {"no", "login", "nada"}]
      /\ salida'[t] \in {"login", "nada"}
      /\ \A x \in Pestanas \ {t} : salida'[x] = salida[x]
  BY <1>1, <1>2 DEF SesionTipo
<1>6. SesionTipo'
  BY <1>1, <1>2, <1>3, <1>4, <1>5 DEF SesionTipo
<1>7. /\ IngresosInv' /\ EnCurso' = EnCurso
      /\ \A f \in EnCurso : f \in EnCurso' /\ flujo'[f] = flujo[f]
      /\ token' = token => Dueno(token)' = Dueno(token)
  BY <1>2, <1>6, SinFlujos
<1>8. ~cruce' /\ token' # token => /\ \A x \in Pestanas : perfil'[x] \ vencidos = {}
                                   /\ EnCurso = {}
  <2>1. EnCurso # {} => \E f \in Flujos : {flujo[f].paso, flujo'[f].paso}
                                            \subseteq {"migrando", "espera"}
    BY <1>2 DEF EnCurso
  <2> QED BY <1>2, <2>1 DEF Cruza
<1>9. PerfilesVigentes' /\ IngresosVigentes'
  <2>1. CASE token' = token
    BY <1>2, <1>4, <1>7, <2>1 DEF Inv, SesionInv, PerfilesVigentes, IngresosVigentes
  <2>2. CASE token' # token
    BY <1>2, <1>7, <1>8, <2>2 DEF PerfilesVigentes, IngresosVigentes
  <2> QED BY <2>1, <2>2
<1>10. SesionDelToken'
  <2>1. Tranquila(t)' => token' = 0 /\ salida'[t] = "nada"
    BY <1>2, <1>5 DEF Tranquila
  <2>2. \A x \in Pestanas \ {t} :
           /\ sesion'[x] = sesion[x] /\ perfil'[x] = perfil[x] /\ salida'[x] = salida[x]
           /\ aviso[x] => aviso'[x]
           /\ token' # token => aviso'[x]
    BY <1>2, <1>3, <1>5
  <2> QED BY <1>4, <1>7, <2>1, <2>2, TabsPaso DEF Inv, SesionInv
<1> QED BY <1>6, <1>7, <1>9, <1>10 DEF Inv, SesionInv

\* The clock: fewer requests may still be answered with a user.
LEMMA VenceTokenSesion ==
  ASSUME Inv, LibroTipo', NEW k, VenceToken(k)
  PROVE  Inv'
<1>1. SesionTipo
  BY DEF Inv
<1>2. /\ UNCHANGED <<emitidos, token, usuarioLS, sesion, cargando, perfil, aviso,
                     rechazo, salida, alta, flujo, cruce>>
      /\ k \in 1..Len(emitidos) /\ vencidos' = vencidos \cup {k}
  BY DEF VenceToken, pestana, compra, historia
<1>3. SesionTipo'
  BY <1>1, <1>2 DEF SesionTipo
<1>4. IngresosInv' /\ EnCurso' = EnCurso /\ Dueno(token)' = Dueno(token)
  BY <1>2, <1>3, SinFlujos
<1>5. PerfilesVigentes' /\ IngresosVigentes' /\ SesionDelToken'
  BY <1>2, <1>4
     DEF Inv, SesionInv, PerfilesVigentes, IngresosVigentes, SesionDelToken, Tranquila
<1> QED BY <1>3, <1>4, <1>5 DEF Inv, SesionInv

(***************************************************************************)
(* Documents                                                               *)
(***************************************************************************)

LEMMA DocumentoSesion ==
  ASSUME Inv, NEW t \in Pestanas, NEW k \in 0..Len(emitidos), Documento(t, k)
  PROVE  /\ sesion' \in [Pestanas -> Usuarios \cup {Nadie}] /\ sesion'[t] = Nadie
         /\ cargando' \in [Pestanas -> BOOLEAN]
         /\ perfil' \in [Pestanas -> SUBSET (1..Len(emitidos))]
         /\ perfil'[t] = IF k = 0 THEN {} ELSE {k}
         /\ alta' \in [Pestanas -> SUBSET Skus]
         /\ rechazo' \in [Pestanas -> BOOLEAN]
         /\ salida' \in [Pestanas -> {"no", "login", "nada"}]
         /\ \A x \in Pestanas \ {t} : salida'[x] = salida[x]
         /\ \A x \in Pestanas \ {t} : sesion'[x] = sesion[x] /\ perfil'[x] = perfil[x]
         /\ Enviados' \subseteq Enviados /\ EnCurso' \subseteq EnCurso
         /\ \A f \in EnCurso' : flujo'[f] = flujo[f]
         /\ \A f \in EnCurso : flujo[f].en # t => f \in EnCurso' /\ flujo'[f] = flujo[f]
<1>1. SesionTipo
  BY DEF Inv
<1>2. /\ sesion' = [sesion EXCEPT ![t] = Nadie]
      /\ cargando' = [cargando EXCEPT ![t] = k # 0]
      /\ perfil' = [perfil EXCEPT ![t] = IF k = 0 THEN {} ELSE {k}]
      /\ alta' = [alta EXCEPT ![t] = {}]
      /\ rechazo' = [rechazo EXCEPT ![t] = k \in vencidos]
      /\ salida' = [salida EXCEPT ![t] = "no"]
      /\ flujo' = [f \in Flujos |-> IF flujo[f] # Libre /\ flujo[f].en = t THEN Libre ELSE flujo[f]]
  BY DEF Documento
<1>3. sesion' \in [Pestanas -> Usuarios \cup {Nadie}] /\ sesion'[t] = Nadie
  BY <1>1, <1>2 DEF SesionTipo
<1>4. cargando' \in [Pestanas -> BOOLEAN] /\ alta' \in [Pestanas -> SUBSET Skus]
  BY <1>1, <1>2 DEF SesionTipo
<1>5. (IF k = 0 THEN {} ELSE {k}) \in SUBSET (1..Len(emitidos))
  BY <1>1 DEF SesionTipo
<1>6. /\ perfil' \in [Pestanas -> SUBSET (1..Len(emitidos))]
      /\ perfil'[t] = IF k = 0 THEN {} ELSE {k}
  BY <1>1, <1>2, <1>5 DEF SesionTipo
<1>7. \A x \in Pestanas \ {t} : sesion'[x] = sesion[x] /\ perfil'[x] = perfil[x]
  BY <1>1, <1>2 DEF SesionTipo
<1>8. \A f \in Flujos : flujo'[f] = Libre \/ flujo'[f] = flujo[f]
  BY <1>2
<1>9. Enviados' \subseteq Enviados /\ EnCurso' \subseteq EnCurso
      /\ \A f \in EnCurso' : flujo'[f] = flujo[f]
  BY <1>8, LibreFlujo DEF Enviados, EnCurso
<1>10. \A f \in EnCurso : flujo[f].en # t => f \in EnCurso' /\ flujo'[f] = flujo[f]
  BY <1>2 DEF EnCurso
<1>11. /\ rechazo' \in [Pestanas -> BOOLEAN]
       /\ salida' \in [Pestanas -> {"no", "login", "nada"}]
       /\ \A x \in Pestanas \ {t} : salida'[x] = salida[x]
  BY <1>1, <1>2 DEF SesionTipo
<1> QED BY <1>3, <1>4, <1>6, <1>7, <1>9, <1>10, <1>11

LEMMA RecargaSesion ==
  ASSUME Inv, LibroTipo', NEW t \in Pestanas, Recarga(t) \/ Redirige(t)
  PROVE  Inv'
<1>1. SesionTipo
  BY DEF Inv
<1>2. /\ UNCHANGED <<emitidos, vencidos, token, usuarioLS, cruce>>
      /\ aviso' = [aviso EXCEPT ![t] = FALSE] /\ Documento(t, token)
  BY DEF Recarga, Redirige, almacen
<1>3. token \in 0..Len(emitidos)
  BY <1>1 DEF SesionTipo
<1>4. /\ sesion' \in [Pestanas -> Usuarios \cup {Nadie}] /\ sesion'[t] = Nadie
      /\ cargando' \in [Pestanas -> BOOLEAN]
      /\ perfil' \in [Pestanas -> SUBSET (1..Len(emitidos))]
      /\ perfil'[t] = IF token = 0 THEN {} ELSE {token}
      /\ alta' \in [Pestanas -> SUBSET Skus]
      /\ rechazo' \in [Pestanas -> BOOLEAN]
      /\ salida' \in [Pestanas -> {"no", "login", "nada"}]
      /\ \A x \in Pestanas \ {t} : salida'[x] = salida[x]
      /\ \A x \in Pestanas \ {t} : sesion'[x] = sesion[x] /\ perfil'[x] = perfil[x]
      /\ Enviados' \subseteq Enviados /\ EnCurso' \subseteq EnCurso
      /\ \A f \in EnCurso' : flujo'[f] = flujo[f]
      /\ \A f \in EnCurso : flujo[f].en # t => f \in EnCurso' /\ flujo'[f] = flujo[f]
  BY <1>2, <1>3, DocumentoSesion
<1>5. aviso' \in [Pestanas -> BOOLEAN] /\ \A x \in Pestanas \ {t} : aviso'[x] = aviso[x]
  BY <1>1, <1>2 DEF SesionTipo
<1>6. SesionTipo'
  BY <1>1, <1>2, <1>4, <1>5 DEF SesionTipo
<1>7. IngresosInv'
  <2>1. Cardinality(Enviados') \in Nat /\ Cardinality(Enviados') <= Cardinality(Enviados)
    BY <1>4, EnviadosMenos
  <2>2. Len(emitidos) \in Nat /\ Cardinality(Enviados) \in Nat
    BY <1>1, EnviadosFinito DEF SesionTipo
  <2> QED BY <1>2, <2>1, <2>2, CotasAssumption DEF Inv, IngresosInv
<1>8. Dueno(token)' = Dueno(token)
  BY <1>2 DEF Dueno
<1>9. PerfilesVigentes' /\ IngresosVigentes'
  BY <1>2, <1>4, <1>8 DEF Inv, SesionInv, PerfilesVigentes, IngresosVigentes
<1>10. SesionDelToken'
  <2>1. ASSUME Tranquila(t)' PROVE sesion'[t] = Dueno(token)'
    <3>1. token = 0
      BY <1>4, <2>1 DEF Tranquila
    <3> QED BY <1>4, <1>8, <3>1 DEF Dueno
  <2> QED BY <1>2, <1>4, <1>5, <1>8, <2>1, TabsPaso DEF Inv, SesionInv
<1> QED BY <1>6, <1>7, <1>9, <1>10 DEF Inv, SesionInv

LEMMA CierraSesionSesion ==
  ASSUME Inv, LibroTipo', NEW t \in Pestanas, CierraSesion(t)
  PROVE  Inv'
<1>1. SesionTipo
  BY DEF Inv
<1>2. /\ UNCHANGED <<emitidos, vencidos, usuarioLS>>
      /\ token' = 0 /\ Documento(t, 0) /\ Cruza
      /\ aviso' = [Avisa(t, token # 0) EXCEPT ![t] = FALSE]
  BY DEF CierraSesion
<1>3. 0 \in 0..Len(emitidos)
  BY <1>1 DEF SesionTipo
<1>4. /\ sesion' \in [Pestanas -> Usuarios \cup {Nadie}] /\ sesion'[t] = Nadie
      /\ cargando' \in [Pestanas -> BOOLEAN]
      /\ perfil' \in [Pestanas -> SUBSET (1..Len(emitidos))]
      /\ perfil'[t] = {}
      /\ alta' \in [Pestanas -> SUBSET Skus]
      /\ rechazo' \in [Pestanas -> BOOLEAN]
      /\ salida' \in [Pestanas -> {"no", "login", "nada"}]
      /\ \A x \in Pestanas \ {t} : salida'[x] = salida[x]
      /\ \A x \in Pestanas \ {t} : sesion'[x] = sesion[x] /\ perfil'[x] = perfil[x]
      /\ Enviados' \subseteq Enviados /\ EnCurso' \subseteq EnCurso
      /\ \A f \in EnCurso' : flujo'[f] = flujo[f]
      /\ \A f \in EnCurso : flujo[f].en # t => f \in EnCurso' /\ flujo'[f] = flujo[f]
  BY <1>2, <1>3, DocumentoSesion
<1>5. /\ aviso' \in [Pestanas -> BOOLEAN]
      /\ \A x \in Pestanas \ {t} : /\ aviso[x] => aviso'[x]
                                   /\ token # 0 => aviso'[x]
  BY <1>1, <1>2, AvisaTipo
<1>6. cruce' \in BOOLEAN /\ (~cruce' => ~cruce)
  BY <1>1, <1>2 DEF Cruza, SesionTipo
<1>7. SesionTipo'
  BY <1>1, <1>2, <1>4, <1>5, <1>6 DEF SesionTipo
<1>8. IngresosInv'
  <2>1. Cardinality(Enviados') \in Nat /\ Cardinality(Enviados') <= Cardinality(Enviados)
    BY <1>4, EnviadosMenos
  <2>2. Len(emitidos) \in Nat /\ Cardinality(Enviados) \in Nat
    BY <1>1, EnviadosFinito DEF SesionTipo
  <2> QED BY <1>2, <2>1, <2>2, CotasAssumption DEF Inv, IngresosInv
<1>9. token' = token => Dueno(token)' = Dueno(token)
  BY <1>2 DEF Dueno
<1>10. ~cruce' /\ token' # token => /\ \A x \in Pestanas : perfil'[x] \ vencidos = {}
                                    /\ EnCurso' = {}
  <2>1. EnCurso' # {} => \E f \in Flujos : {flujo[f].paso, flujo'[f].paso}
                                             \subseteq {"migrando", "espera"}
    BY <1>4 DEF EnCurso
  <2> QED BY <1>2, <2>1 DEF Cruza
<1>11. PerfilesVigentes' /\ IngresosVigentes'
  <2>1. CASE token' = token
    BY <1>2, <1>4, <1>6, <1>9, <2>1 DEF Inv, SesionInv, PerfilesVigentes, IngresosVigentes
  <2>2. CASE token' # token
    BY <1>2, <1>10, <2>2 DEF PerfilesVigentes, IngresosVigentes
  <2> QED BY <2>1, <2>2
<1>12. SesionDelToken'
  <2>1. sesion'[t] = Dueno(token)'
    BY <1>2, <1>4 DEF Dueno
  <2> QED BY <1>2, <1>4, <1>5, <1>6, <1>9, <2>1, TabsPaso DEF Inv, SesionInv
<1> QED BY <1>7, <1>8, <1>11, <1>12 DEF Inv, SesionInv

(***************************************************************************)
(* Forms                                                                   *)
(***************************************************************************)

\* A step that leaves the sessions alone and the handlers in progress where they
\* are.
LEMMA MismosEnCurso ==
  ASSUME Inv, UNCHANGED <<almacen, pestana, cruce>>,
         alta' \in [Pestanas -> SUBSET Skus], EnCurso' = EnCurso,
         \A f \in EnCurso : flujo'[f].en = flujo[f].en /\ flujo'[f].quien = flujo[f].quien
  PROVE  SesionTipo' /\ SesionInv'
<1>1. /\ UNCHANGED <<emitidos, vencidos, token, usuarioLS, sesion, cargando, perfil, aviso,
                     rechazo, salida>>
  BY DEF almacen, pestana
<1>2. SesionTipo'
  BY <1>1 DEF Inv, SesionTipo
<1>3. PerfilesVigentes' /\ IngresosVigentes'
  BY <1>1 DEF Inv, SesionInv, PerfilesVigentes, IngresosVigentes, Dueno
<1>4. SesionDelToken'
  <2> SUFFICES ASSUME ~cruce, NEW x \in Pestanas, Tranquila(x)'
               PROVE  sesion[x] = Dueno(token) \/ (token = 0 /\ salida[x] = "nada")
    BY <1>1 DEF SesionDelToken, Dueno
  <2>1. ASSUME NEW f \in Flujos, flujo[f].paso \in {"migrando", "espera"}, flujo[f].en = x
        PROVE  FALSE
    <3>1. f \in EnCurso' /\ flujo'[f].en = x
      BY <2>1 DEF EnCurso
    <3> QED BY <3>1 DEF Tranquila, EnCurso
  <2>2. Tranquila(x)
    BY <1>1, <2>1 DEF Tranquila
  <2> QED BY <2>2 DEF Inv, SesionInv, SesionDelToken
<1> QED BY <1>2, <1>3, <1>4 DEF SesionInv

LEMMA EnvioSesion ==
  ASSUME Inv, LibroTipo', NEW f \in Flujos, NEW t \in Pestanas, NEW u \in Usuarios,
         EnviaIngreso(f, t, u) \/ EnviaRegistro(f, t, u)
  PROVE  Inv'
<1>1. LibroTipo /\ SesionTipo
  BY DEF Inv
<1>2. /\ UNCHANGED <<almacen, pestana, cruce, alta>> /\ UNCHANGED emitidos
      /\ flujo[f] = Libre /\ Len(emitidos) + Cardinality(Enviados) < MaxIngresos
  BY DEF EnviaIngreso, EnviaRegistro, PuedeEnviar, compra, historia, almacen
<1>3. PICK p \in {"ingresando", "registrando"} :
        flujo' = [flujo EXCEPT ![f] = [paso |-> p, en |-> t, quien |-> u]]
  BY DEF EnviaIngreso, EnviaRegistro
<1>4. \A g \in Flujos : flujo'[g] = IF g = f THEN [paso |-> p, en |-> t, quien |-> u] ELSE flujo[g]
  BY <1>1, <1>3, UnFlujo
<1>5. f \notin Enviados /\ Enviados' = Enviados \cup {f}
  BY <1>2, <1>4, LibreFlujo DEF Enviados
<1>6. EnCurso' = EnCurso /\ \A g \in EnCurso : flujo'[g] = flujo[g]
  BY <1>2, <1>4, LibreFlujo DEF EnCurso
<1>7. alta' \in [Pestanas -> SUBSET Skus]
  BY <1>1, <1>2 DEF SesionTipo
<1>8. SesionTipo' /\ SesionInv'
  BY <1>2, <1>6, <1>7, MismosEnCurso
<1>9. IngresosInv'
  <2>1. Cardinality(Enviados') = Cardinality(Enviados) + 1
    BY <1>5, EnviadosCon
  <2>2. Len(emitidos) \in Nat /\ Cardinality(Enviados) \in Nat
    BY <1>1, EnviadosFinito DEF SesionTipo
  <2> QED BY <1>2, <2>1, <2>2, CotasAssumption DEF IngresosInv
<1> QED BY <1>8, <1>9 DEF Inv

LEMMA EnvioRechazadoSesion ==
  ASSUME Inv, LibroTipo', NEW f \in Flujos, EnvioRechazado(f)
  PROVE  Inv'
<1>1. LibroTipo /\ SesionTipo
  BY DEF Inv
<1>2. /\ UNCHANGED <<almacen, pestana, cruce, alta>> /\ UNCHANGED emitidos
      /\ f \in Enviados /\ flujo' = [flujo EXCEPT ![f] = Libre]
  BY DEF EnvioRechazado, compra, historia, almacen
<1>3. \A g \in Flujos : flujo'[g] = IF g = f THEN Libre ELSE flujo[g]
  BY <1>1, <1>2, UnFlujo
<1>4. Enviados' = Enviados \ {f}
  BY <1>3, LibreFlujo DEF Enviados
<1>5. EnCurso' = EnCurso /\ \A g \in EnCurso : flujo'[g] = flujo[g]
  BY <1>2, <1>3, LibreFlujo DEF EnCurso, Enviados
<1>6. alta' \in [Pestanas -> SUBSET Skus]
  BY <1>1, <1>2 DEF SesionTipo
<1>7. SesionTipo' /\ SesionInv'
  BY <1>2, <1>5, <1>6, MismosEnCurso
<1>8. IngresosInv'
  <2>1. Cardinality(Enviados') = Cardinality(Enviados) - 1
    BY <1>2, <1>4, EnviadosSin
  <2>2. Len(emitidos) \in Nat /\ Cardinality(Enviados) \in Nat
    BY <1>1, EnviadosFinito DEF SesionTipo
  <2> QED BY <1>2, <2>1, <2>2, CotasAssumption DEF Inv, IngresosInv
<1> QED BY <1>7, <1>8 DEF Inv

\* A token is issued: the tab of the form takes the user, or goes on to migrate.
LEMMA IngresoSesion ==
  ASSUME Inv, LibroTipo', NEW f \in Enviados, NEW t \in Pestanas, NEW u \in Usuarios,
         EmiteToken(u), aviso' = Avisa(t, TRUE), UNCHANGED <<perfil, rechazo, alta>>, Cruza,
         NEW r, flujo' = [flujo EXCEPT ![f] = r],
         \/ r = Libre /\ TomaIdentidad(t, u)
         \/ /\ r.paso = "migrando" /\ r.en = t /\ r.quien = u
            /\ UNCHANGED <<usuarioLS, sesion, cargando, salida>>
  PROVE  Inv'
<1>1. LibroTipo /\ SesionTipo /\ f \in Flujos
  BY DEF Inv, Enviados
<1>2. /\ emitidos' = Append(emitidos, u) /\ token' = Len(emitidos) + 1
      /\ UNCHANGED vencidos
  BY DEF EmiteToken
<1>3. /\ Len(emitidos) \in Nat /\ Len(emitidos') = Len(emitidos) + 1
      /\ emitidos' \in Seq(Usuarios) /\ emitidos'[Len(emitidos) + 1] = u
      /\ 1..Len(emitidos) \subseteq 1..Len(emitidos')
      /\ token' \in 0..Len(emitidos') /\ token' # token /\ token' # 0
  BY <1>1, <1>2 DEF SesionTipo
<1>4. Dueno(token)' = u
  BY <1>2, <1>3 DEF Dueno
<1>5. /\ aviso' \in [Pestanas -> BOOLEAN]
      /\ \A x \in Pestanas \ {t} : aviso'[x]
  BY <1>1, AvisaTipo
<1>6. /\ cruce' \in BOOLEAN /\ (~cruce' => ~cruce)
      /\ ~cruce' => \A x \in Pestanas : perfil'[x] \ vencidos = {}
  BY <1>1, <1>3 DEF Cruza, SesionTipo
<1>7. /\ usuarioLS' \in Usuarios \cup {Nadie}
      /\ sesion' \in [Pestanas -> Usuarios \cup {Nadie}]
      /\ cargando' \in [Pestanas -> BOOLEAN]
      /\ \A x \in Pestanas \ {t} : sesion'[x] = sesion[x]
      /\ r = Libre => sesion'[t] = u
      /\ salida' \in [Pestanas -> {"no", "login", "nada"}]
      /\ \A x \in Pestanas \ {t} : salida'[x] = salida[x]
  BY <1>1, LibreFlujo, OyeTipo DEF SesionTipo, TomaIdentidad
<1>8. /\ perfil' \in [Pestanas -> SUBSET (1..Len(emitidos'))]
      /\ vencidos' \subseteq 1..Len(emitidos')
  BY <1>1, <1>2, <1>3 DEF SesionTipo
<1>9. SesionTipo'
  BY <1>1, <1>3, <1>5, <1>6, <1>7, <1>8 DEF SesionTipo
<1>10. \A g \in Flujos : flujo'[g] = IF g = f THEN r ELSE flujo[g]
  BY <1>1, UnFlujo
<1>11. r.paso \in {"libre", "migrando"} /\ (r.paso = "migrando" => r.en = t /\ r.quien = u)
  BY LibreFlujo
<1>12. IngresosInv'
  <2>1. Enviados' = Enviados \ {f}
    BY <1>10, <1>11 DEF Enviados
  <2>2. Cardinality(Enviados') = Cardinality(Enviados) - 1
    BY <2>1, EnviadosSin
  <2>3. Cardinality(Enviados) \in Nat
    BY EnviadosFinito
  <2> QED BY <1>3, <2>2, <2>3, CotasAssumption DEF Inv, IngresosInv
<1>13. /\ f \notin EnCurso /\ EnCurso \subseteq EnCurso'
       /\ \A g \in EnCurso : flujo'[g] = flujo[g]
       /\ EnCurso' \subseteq EnCurso \cup {f}
       /\ f \in EnCurso' <=> r.paso = "migrando"
  BY <1>1, <1>10, <1>11 DEF EnCurso, Enviados
<1>14. ~cruce' => EnCurso = {}
  <2>1. EnCurso # {} => \E g \in Flujos : {flujo[g].paso, flujo'[g].paso}
                                            \subseteq {"migrando", "espera"}
    BY <1>13 DEF EnCurso
  <2> QED BY <1>3, <2>1 DEF Cruza
<1>15. PerfilesVigentes'
  BY <1>2, <1>6 DEF PerfilesVigentes
<1>16. IngresosVigentes'
  BY <1>1, <1>4, <1>10, <1>11, <1>13, <1>14 DEF IngresosVigentes
<1>17. SesionDelToken'
  <2>1. ASSUME Tranquila(t)' PROVE sesion'[t] = Dueno(token)'
    <3>1. r.paso # "migrando"
      BY <1>1, <1>10, <1>11, <2>1 DEF Tranquila
    <3>2. r = Libre
      BY <3>1
    <3> QED BY <1>4, <1>7, <3>2
  <2> QED BY <1>3, <1>5, <1>6, <1>7, <1>13, <2>1, TabsPaso DEF Inv, SesionInv
<1> QED BY <1>9, <1>12, <1>15, <1>16, <1>17 DEF Inv, SesionInv

LEMMA IngresaSesion ==
  ASSUME Inv, LibroTipo', NEW f \in Flujos, Ingresa(f) \/ Registra(f)
  PROVE  Inv'
<1> DEFINE t == flujo[f].en
           u == flujo[f].quien
           r == [paso |-> "migrando", en |-> t, quien |-> u, con |-> Len(emitidos) + 1,
                 lineas |-> invitado, faltan |-> {s \in Skus : invitado[s] > 0}]
<1>1. flujo[f] \in Flujo /\ flujo[f].paso \in {"ingresando", "registrando"}
  BY DEF Inv, LibroTipo, Ingresa, Registra
<1>2. f \in Enviados /\ t \in Pestanas /\ u \in Usuarios
  BY <1>1, FlujoCampos DEF Enviados
<1>3. /\ EmiteToken(u) /\ aviso' = Avisa(t, TRUE) /\ UNCHANGED <<perfil, rechazo, alta>> /\ Cruza
  BY DEF Ingresa, Registra, compra
<1>4. CASE Ingresa(f) /\ HayInvitado
  <2>1. /\ flujo' = [flujo EXCEPT ![f] = r]
        /\ UNCHANGED <<usuarioLS, sesion, cargando, salida>>
    BY <1>4 DEF Ingresa
  <2>2. r.paso = "migrando" /\ r.en = t /\ r.quien = u
    OBVIOUS
  <2> HIDE DEF r, t, u
  <2> QED BY <1>2, <1>3, <2>1, <2>2, IngresoSesion
<1>5. CASE Registra(f) \/ (Ingresa(f) /\ ~HayInvitado)
  <2>1. flujo' = [flujo EXCEPT ![f] = Libre] /\ TomaIdentidad(t, u)
    BY <1>5 DEF Ingresa, Registra
  <2> HIDE DEF t, u
  <2> QED BY <1>2, <1>3, <2>1, IngresoSesion
<1> QED BY <1>4, <1>5

LEMMA AvisaIngresoSesion ==
  ASSUME Inv, LibroTipo', NEW f \in Flujos, AvisaIngreso(f)
  PROVE  Inv'
<1> DEFINE t == flujo[f].en
           u == flujo[f].quien
<1>1. LibroTipo /\ SesionTipo
  BY DEF Inv
<1>2. f \in EnCurso /\ t \in Pestanas /\ u \in Usuarios
  BY <1>1, FlujoCampos DEF AvisaIngreso, EnCurso, LibroTipo
<1>3. /\ UNCHANGED <<emitidos, vencidos, token, rechazo, alta, cruce>>
      /\ TomaIdentidad(t, u) /\ aviso' = Avisa(t, usuarioLS # u)
      /\ perfil' = IF usuarioLS = Nadie /\ token # 0
                   THEN [perfil EXCEPT ![t] = @ \cup {token}] ELSE perfil
      /\ flujo' = [flujo EXCEPT ![f] = Libre]
  BY DEF AvisaIngreso, compra, historia
<1> HIDE DEF t, u
<1>4. /\ usuarioLS' \in Usuarios \cup {Nadie}
      /\ sesion' \in [Pestanas -> Usuarios \cup {Nadie}]
      /\ cargando' \in [Pestanas -> BOOLEAN]
      /\ \A x \in Pestanas \ {t} : sesion'[x] = sesion[x]
      /\ sesion'[t] = u
      /\ salida' \in [Pestanas -> {"no", "login", "nada"}]
      /\ \A x \in Pestanas \ {t} : salida'[x] = salida[x]
  BY <1>1, <1>2, <1>3, OyeTipo DEF SesionTipo, TomaIdentidad
<1>5. /\ perfil' \in [Pestanas -> SUBSET (1..Len(emitidos))]
      /\ \A x \in Pestanas : perfil'[x] \subseteq perfil[x] \cup {token}
      /\ \A x \in Pestanas \ {t} : perfil'[x] = perfil[x]
  <2>1. token # 0 => perfil[t] \cup {token} \in SUBSET (1..Len(emitidos))
    BY <1>1, <1>2 DEF SesionTipo
  <2> QED BY <1>1, <1>2, <1>3, <2>1 DEF SesionTipo
<1>6. /\ aviso' \in [Pestanas -> BOOLEAN]
      /\ \A x \in Pestanas : aviso[x] => aviso'[x]
  BY <1>1, <1>2, <1>3, AvisaTipo
<1>7. SesionTipo'
  BY <1>1, <1>3, <1>4, <1>5, <1>6 DEF SesionTipo
<1>8. \A g \in Flujos : flujo'[g] = IF g = f THEN Libre ELSE flujo[g]
  BY <1>1, <1>3, UnFlujo
<1>9. /\ Enviados' = Enviados /\ EnCurso' = EnCurso \ {f}
      /\ \A g \in EnCurso' : flujo'[g] = flujo[g]
  BY <1>2, <1>8, LibreFlujo DEF Enviados, EnCurso
<1>10. IngresosInv'
  BY <1>3, <1>9 DEF Inv, IngresosInv
<1>11. Dueno(token)' = Dueno(token)
  BY <1>3 DEF Dueno
<1>12. PerfilesVigentes' /\ IngresosVigentes'
  BY <1>3, <1>5, <1>9, <1>11 DEF Inv, SesionInv, PerfilesVigentes, IngresosVigentes
<1>13. SesionDelToken'
  <2>1. ~cruce => u = Dueno(token)
    BY <1>2 DEF Inv, SesionInv, IngresosVigentes, u
  <2>2. \A g \in EnCurso : flujo[g].en # t => g \in EnCurso' /\ flujo'[g].en = flujo[g].en
    BY <1>9 DEF t
  <2> QED BY <1>2, <1>3, <1>4, <1>5, <1>6, <1>11, <2>1, <2>2, TabsPaso DEF Inv, SesionInv
<1> QED BY <1>7, <1>10, <1>12, <1>13 DEF Inv, SesionInv

LEMMA MigraSesion ==
  ASSUME Inv, LibroTipo', NEW f \in Flujos, NEW s \in Skus, MigrateGuestCartToServer(f, s)
  PROVE  Inv'
<1>1. LibroTipo /\ SesionTipo
  BY DEF Inv
<1>2. flujo[f] \in [paso : {"migrando", "espera"}, en : Pestanas, quien : Usuarios,
                    con : Nat, lineas : Cantidades, faltan : SUBSET Skus]
  <2>1. flujo[f] \in Flujo /\ flujo[f].paso = "migrando"
    BY <1>1 DEF LibroTipo, MigrateGuestCartToServer
  <2> QED BY <2>1 DEF Flujo, Libre
<1>3. /\ UNCHANGED <<almacen, pestana, cruce, alta>> /\ UNCHANGED emitidos
      /\ \/ flujo' = [flujo EXCEPT ![f].faltan = flujo[f].faltan \ {s}]
         \/ flujo' = [flujo EXCEPT ![f].faltan = {}, ![f].paso = "espera"]
      /\ flujo[f].paso = "migrando"
  BY DEF MigrateGuestCartToServer, almacen
<1>4. /\ \A g \in Flujos \ {f} : flujo'[g] = flujo[g]
      /\ flujo'[f].paso \in {"migrando", "espera"} /\ flujo'[f].en = flujo[f].en
      /\ flujo'[f].quien = flujo[f].quien
  BY <1>1, <1>2, <1>3 DEF LibroTipo
<1>5. EnCurso' = EnCurso /\ Enviados' = Enviados
  BY <1>3, <1>4 DEF EnCurso, Enviados
<1>6. \A g \in EnCurso : flujo'[g].en = flujo[g].en /\ flujo'[g].quien = flujo[g].quien
  BY <1>4 DEF EnCurso
<1>7. alta' \in [Pestanas -> SUBSET Skus]
  BY <1>1, <1>3 DEF SesionTipo
<1>8. SesionTipo' /\ SesionInv'
  BY <1>3, <1>5, <1>6, <1>7, MismosEnCurso
<1>9. IngresosInv'
  BY <1>3, <1>5 DEF Inv, IngresosInv
<1> QED BY <1>8, <1>9 DEF Inv

(***************************************************************************)
(* The theorems                                                            *)
(***************************************************************************)

\* The guest cart: the sessions are not touched.
LEMMA CarritoSesion ==
  ASSUME Inv, LibroTipo', NEW t \in Pestanas,
         \/ ClearGuestCart(t)
         \/ \E s \in Skus : \/ PideAlta(t, s) \/ AddToGuestCart(t, s) \/ AltaFalla(t, s)
                            \/ UpdateGuestCartQuantity(t, s) \/ RemoveFromGuestCart(t, s)
  PROVE  Inv'
<1>1. alta \in [Pestanas -> SUBSET Skus]
  BY DEF Inv, SesionTipo
<1>2. CASE ClearGuestCart(t)
  BY <1>1, <1>2, SinSesion DEF ClearGuestCart
<1>3. ASSUME NEW s \in Skus, PideAlta(t, s)
      PROVE  Inv'
  <2>1. alta' \in [Pestanas -> SUBSET Skus]
    BY <1>1, <1>3 DEF PideAlta
  <2> QED BY <1>3, <2>1, SinSesion DEF PideAlta, historia
<1>4. ASSUME NEW s \in Skus, AddToGuestCart(t, s) \/ AltaFalla(t, s)
      PROVE  Inv'
  <2>1. alta' \in [Pestanas -> SUBSET Skus]
    BY <1>1, <1>4 DEF AddToGuestCart, AltaFalla
  <2> QED BY <1>4, <2>1, SinSesion DEF AddToGuestCart, AltaFalla, historia
<1>5. ASSUME NEW s \in Skus, UpdateGuestCartQuantity(t, s)
      PROVE  Inv'
  BY <1>1, <1>5, SinSesion DEF UpdateGuestCartQuantity
<1>6. ASSUME NEW s \in Skus, RemoveFromGuestCart(t, s)
      PROVE  Inv'
  BY <1>1, <1>6, SinSesion DEF RemoveFromGuestCart
<1> QED BY <1>2, <1>3, <1>4, <1>5, <1>6

LEMMA PasoSesion ==
  ASSUME Inv, LibroTipo', [Next]_vars
  PROVE  Inv'
<1>1. ASSUME Mano PROVE Inv'
  <2>1. PICK t \in Pestanas :
          \/ Recarga(t) \/ CierraSesion(t) \/ PideCarrito(t) \/ ClearGuestCart(t)
          \/ \E s \in Skus : \/ PideAlta(t, s) \/ UpdateGuestCartQuantity(t, s)
                             \/ RemoveFromGuestCart(t, s)
          \/ \E f \in Flujos, u \in Usuarios : EnviaIngreso(f, t, u) \/ EnviaRegistro(f, t, u)
    BY <1>1 DEF Mano
  <2> QED BY <2>1, RecargaSesion, CierraSesionSesion, PideCarritoSesion, CarritoSesion,
             EnvioSesion
<1>2. ASSUME NEW t \in Pestanas, \/ EntregaAviso(t) \/ RespuestaPerfil(t)
                                 \/ HandleAuthError(t) \/ Redirige(t)
      PROVE  Inv'
  BY <1>2, EntregaAvisoSesion, PerfilRecibidoSesion, PerfilRechazadoSesion,
     PerfilSinRespuestaSesion, HandleAuthErrorSesion, RecargaSesion DEF RespuestaPerfil
<1>3. ASSUME NEW t \in Pestanas, NEW s \in Skus, RespuestaAlta(t, s)
      PROVE  Inv'
  BY <1>3, CarritoSesion DEF RespuestaAlta
<1>4. ASSUME NEW f \in Flujos, Avanza(f)
      PROVE  Inv'
  BY <1>4, EnvioRechazadoSesion, IngresaSesion, AvisaIngresoSesion, MigraSesion DEF Avanza
<1>5. ASSUME NEW k \in Tokens, VenceToken(k)
      PROVE  Inv'
  BY <1>5, VenceTokenSesion
<1>6. CASE UNCHANGED vars
  <2>1. UNCHANGED <<almacen, pestana, flujo, cruce, alta>>
    BY <1>6 DEF vars, compra, historia
  <2>2. alta' \in [Pestanas -> SUBSET Skus]
    BY <2>1 DEF Inv, SesionTipo
  <2> QED BY <2>1, <2>2, SinSesion
<1> QED BY <1>1, <1>2, <1>3, <1>4, <1>5, <1>6 DEF Next

LEMMA InicioSesion == Init => Inv
<1> SUFFICES ASSUME Init PROVE Inv
  OBVIOUS
<1>1. LibroTipo
  BY InicioLibro DEF LibroInv
<1>2. emitidos = <<>> /\ Len(emitidos) = 0 /\ emitidos \in Seq(Usuarios)
  BY DEF Init
<1>3. SesionTipo
  <2>1. vencidos \subseteq 1..Len(emitidos) /\ token \in 0..Len(emitidos)
    BY <1>2 DEF Init
  <2>2. perfil \in [Pestanas -> SUBSET (1..Len(emitidos))]
    BY DEF Init
  <2>3. alta \in [Pestanas -> SUBSET Skus]
    BY DEF Init
  <2>4. /\ sesion \in [Pestanas -> Usuarios \cup {Nadie}]
        /\ cargando \in [Pestanas -> BOOLEAN] /\ aviso \in [Pestanas -> BOOLEAN]
        /\ rechazo \in [Pestanas -> BOOLEAN] /\ salida \in [Pestanas -> {"no", "login", "nada"}]
        /\ usuarioLS \in Usuarios \cup {Nadie} /\ cruce \in BOOLEAN
    BY DEF Init
  <2> QED BY <1>2, <2>1, <2>2, <2>3, <2>4 DEF SesionTipo
<1>4. Enviados = {} /\ EnCurso = {}
  BY LibreFlujo DEF Init, Enviados, EnCurso
<1>5. IngresosInv
  <2>1. Cardinality(Enviados) = 0
    BY <1>4, FS_EmptySet
  <2> QED BY <1>2, <2>1, CotasAssumption DEF IngresosInv
<1>6. SesionInv
  BY <1>4 DEF Init, SesionInv, PerfilesVigentes, IngresosVigentes, SesionDelToken, Dueno
<1> QED BY <1>1, <1>3, <1>5, <1>6 DEF Inv

LEMMA InvTypeOK == Inv => TypeOK
<1> SUFFICES ASSUME Inv PROVE TypeOK
  OBVIOUS
<1>1. Len(emitidos) <= MaxIngresos
  <2>1. Len(emitidos) \in Nat /\ Cardinality(Enviados) \in Nat
    BY EnviadosFinito DEF Inv, SesionTipo
  <2> QED BY <2>1, CotasAssumption DEF Inv, IngresosInv
<1> QED BY <1>1 DEF Inv, LibroTipo, SesionTipo, TypeOK

\* In every reachable state the types hold and, unless the token changed under a
\* request or /me failed, what a tab has under way or shows is about the stored token.
THEOREM SpecInv == Spec => []Inv
<1>1. Init => Inv
  BY InicioSesion
<1>2. LibroInv /\ LibroInv' /\ Inv /\ [Next]_vars => Inv'
  BY PasoSesion DEF LibroInv
<1> QED BY <1>1, <1>2, SpecLibroInv, PTL DEF Spec

\* The state of the tabs and of localStorage has the types the code gives it, and
\* names only tokens the server has issued.
THEOREM SpecTypeOK == Spec => []TypeOK
BY SpecInv, InvTypeOK, PTL

\* However many tabs, forms and accounts there are, a tab with no storage event, no
\* GET /me, no login and no way to the login page pending shows the owner of the token
\* in localStorage, unless the token changed under a request or a /me was not answered;
\* the one tab that may show a user with no token stored is the one where useCart
\* removed it while the login page was open.
THEOREM SpecSesionDelToken == Spec => []SesionDelToken
<1>1. Inv => SesionDelToken
  BY DEF Inv, SesionInv
<1> QED BY <1>1, SpecInv, PTL

=============================================================================
