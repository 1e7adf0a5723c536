SPECIFICATION Spec
CONSTANTS
  u1 = u1
  u2 = u2
  s1 = s1
  s2 = s2
  t1 = t1
  t2 = t2
  f1 = f1
  f2 = f2
  Usuarios <- DosUsuarios
  Nadie = Nadie
  Skus <- UnSku
  Pestanas <- DosPestanas
  Compran <- UnaPestana
  Flujos <- DosFlujos
  MaxIngresos = 2
  MaxPedidas <- UnaUnidad
INVARIANTS SesionDelToken
SYMMETRY Simetria
CONSTRAINT SinCruce
