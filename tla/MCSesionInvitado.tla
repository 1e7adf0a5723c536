-------------------------- MODULE MCSesionInvitado --------------------------
(* Small instances of SesionInvitado: one tab or two, one form or two sent. *)
EXTENDS SesionInvitado, TLC

CONSTANTS u1, u2, s1, s2, t1, t2, f1, f2

UnUsuario == {u1}
DosUsuarios == {u1, u2}
UnSku == {s1}
DosSkus == {s1, s2}
DosPestanas == {t1, t2}
UnaPestana == {t1}
DosFlujos == {f1, f2}
UnFlujo == {f1}
UnaUnidad == [s \in Skus |-> 1]
HastaDos == [s \in Skus |-> IF s = s1 THEN 2 ELSE 1]

\* The accounts are alike, and so are the submissions.
Simetria == Permutations(Usuarios) \cup Permutations(Flujos)

\* What SesionDelToken promises ends with the first crossing: no state after one is
\* explored.
SinCruce == ~cruce
=============================================================================
