------------------------------ MODULE MCPaginas ------------------------------
(* Every page of the front, two handlers at a time.  Of the controls of a   *)
(* page with the same handler, offered in the same place, one is enough.    *)
EXTENDS Pagina, PaginasFront

Iguales(p, o) == {q \in DOMAIN p.ops : p.ops[q] = p.ops[o]}

UnControlDeCada(p) ==
  LET controles == {CHOOSE q \in Iguales(p, o) : TRUE : o \in DOMAIN p.ops}
  IN [p EXCEPT !.ops = [o \in controles |-> p.ops[o]]]

PaginasMC ==
  FoldSet(LAMBDA p, d : (p.nombre :> UnControlDeCada(p)) @@ d, <<>>, TodasLasPaginas)

ASSUME NombresDistintos ==
  \A p, q \in TodasLasPaginas : p.nombre = q.nombre => p = q

\* With all its controls, a page is named as an exception exactly when it breaks
\* the habit.
ASSUME HabitosExactos ==
  \A p \in TodasLasPaginas :
    /\ p.nombre \in PaginasRepetibles <=> ~EnviaUnaVez(p)
    /\ p.nombre \in PaginasOptimistas <=> ~AvisaAlCumplir(p)
    /\ p.nombre \in PaginasDescuidadas <=> ~CierraLoSuyo(p)
    /\ p.nombre \in PaginasDesviadas <=> p.lee /\ ~MuestraSusCambios(p)
=============================================================================
