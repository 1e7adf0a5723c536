---------------------------- MODULE PaginasListas ----------------------------
(***************************************************************************)
(* The panels of the configuration and of the sellers.  A dialog that is   *)
(* used for a new and for an existing row is described by the new one.     *)
(***************************************************************************)
EXTENDS Descripcion

\* The load of most panels: a loading state that is on at first or at each
\* read, and off after any answer.
LoadComun(enciende) == Carga(enciende, {"apaga"}, {"apaga"})

-----------------------------------------------------------------------------
(* admin/vendedores: the names are edited in their rows.  The row saved is  *)
(* looked for by a field that no row has, so it takes the place of all.     *)

VendedoresLoad == LoadComun("inicio")

VendedoresSaveUser == Envia("cambia", {"confunde", "libera", "exito"}, {"libera"})

Vendedores ==
  Panel("vendedores", VendedoresLoad, SinFichas,
    [saveUser |-> En(Fila, "saving", VendedoresSaveUser)])

\* admin/vendedores/nuevo: the form stays as it was until the page leaves.
VendedorNuevoSubmit ==
  Antes({"limpia"}, Envia("unica", {"exito", "libera"}, {"libera"}))

VendedorNuevo ==
  Ciega(Panel("vendedores/nuevo", VendedoresLoad, [alta |-> "fija"],
    [submit |-> En("alta", "loading", VendedorNuevoSubmit)]))

\* admin/ranking: nothing but a list.
RankingLoad == LoadComun("inicio")
Ranking == Tapada(Panel("ranking", RankingLoad, SinFichas, SinOps))

-----------------------------------------------------------------------------
(* admin/configuracion/contacto: one record.  The load does not look at the *)
(* status of the answer.                                                     *)

ContactoFetch ==
  Publica([Carga("inicio", {"apaga"}, {"apaga"})
           EXCEPT !.rechazo = {"vacia", "apaga"}])

ContactoSubmit ==
  Antes({"limpia"},
    Envia("ajusta", {"local", "exito", "libera"}, {"libera"}))

Contacto ==
  Tapada(Panel("contacto", ContactoFetch, [formulario |-> "fija"],
    [submit |-> En("formulario", "saving", ContactoSubmit)]))

-----------------------------------------------------------------------------
(* admin/secciones-home, admin/temporadas, admin/proveedores: a dialog with *)
(* a saving state, deletions confirmed with the browser's dialog.           *)

SeccionesLoadEntries == LoadComun("cada")

SeccionesHandleSave ==
  Antes({"limpia"},
    Envia("crea", {"limpia", "relee", "cierra", "libera"}, {"libera"}))

SeccionesHandleDelete == Envia("cambia", {"relee"}, {})

SeccionesHome ==
  Tapada(Panel("secciones-home", SeccionesLoadEntries, [modal |-> "modal"],
    [handleSave |-> En("modal", "saving", SeccionesHandleSave),
     handleDelete |-> En(Fila, Libre, SeccionesHandleDelete)]))

TemporadasLoad == LoadComun("cada")

TemporadasHandleSave ==
  Antes({"limpia"},
    Envia("unica", {"limpia", "relee", "cierra", "libera"}, {"libera"}))

TemporadasHandleDelete == Envia("cambia", {"relee"}, {})

Temporadas ==
  Tapada(Panel("temporadas", TemporadasLoad, [modal |-> "modal"],
    [handleSave |-> En("modal", "saving", TemporadasHandleSave),
     handleDelete |-> En(Fila, Libre, TemporadasHandleDelete)]))

ProveedoresLoad == LoadComun("cada")

ProveedoresHandleSave ==
  Antes({"limpia"},
    Envia("unica", {"limpia", "relee", "cierra", "libera"}, {"libera"}))

ProveedoresHandleDelete == Envia("cambia", {"relee"}, {})

Proveedores ==
  Tapada(Panel("proveedores", ProveedoresLoad, [modal |-> "modal"],
    [handleSave |-> En("modal", "saving", ProveedoresHandleSave),
     handleDelete |-> En(Fila, Libre, ProveedoresHandleDelete)]))

-----------------------------------------------------------------------------
(* admin/config-secciones-home: the order and the visibility are edited on  *)
(* the screen and saved together, one PUT per section, awaited together and *)
(* with no look at the answers.  One that fails ends the save, with the      *)
(* others made or not, and nothing is read again.                           *)

ConfigSeccionesLoad ==
  CargaSinToken({"sale", "apaga"}, LoadComun("inicio"))

ConfigSeccionesCreate ==
  SinToken({"sale"}, Envia("unica", {"exito", "cierra", "relee"}, {}))

ConfigSeccionesDelete ==
  SinToken({"sale"}, Envia("cambia", {"exito", "cierra", "relee"}, {}))

\* The rows on the screen are edited before any of them is saved.
ConfigSeccionesEditadas(m) == Antes({"local"}, m)

\* Two sections; in the order in which their requests are answered.
ConfigSeccionesSaveChanges ==
  ConfigSeccionesEditadas(SinToken({"sale", "libera"},
    EnviaVarias(<<Pide("ajusta", {"sigue"}, {"libera"}), Pide("ajusta", {"sigue"}, {"libera"})>>,
      {"exito", "relee", "libera"}, {"exito", "relee", "libera"})))

ConfigSecciones ==
  Caduca(Tapada(Panel("config-secciones-home", ConfigSeccionesLoad,
    [alta |-> "modal", borrado |-> "modal"],
    [create |-> En("alta", Libre, ConfigSeccionesCreate),
     delete |-> En("borrado", Libre, ConfigSeccionesDelete),
     saveChanges |-> En(Fila, "saving", ConfigSeccionesSaveChanges)])))

-----------------------------------------------------------------------------
(* admin/home-sections: every control sends a request and asks for the      *)
(* list.  A list refused is passed over in silence.                          *)

HomeSectionsLoad ==
  [LoadComun("cada") EXCEPT !.rechazo = {"apaga"}]

HomeSectionsAdd == Envia("crea", {"exito", "cierra", "relee"}, {})
HomeSectionsToggleActive == Envia("cambia", {"exito", "relee"}, {})
HomeSectionsDelete == Envia("cambia", {"exito", "relee"}, {})
HomeSectionsSync == Envia("cambia", {"exito", "relee"}, {})

\* moveUp and moveDown, then swapOrders.
HomeSectionsMueve == Envia("cambia", {"relee"}, {})

HomeSections ==
  Tapada(Panel("home-sections", HomeSectionsLoad, [modal |-> "modal"],
    [add |-> En("modal", Libre, HomeSectionsAdd),
     toggleActive |-> En(Fila, Libre, HomeSectionsToggleActive),
     delete |-> En(Fila, Libre, HomeSectionsDelete),
     sync |-> En(Fila, Libre, HomeSectionsSync),
     mueve |-> En(Fila, Libre, HomeSectionsMueve)]))

-----------------------------------------------------------------------------
(* admin/tipos-talles: two dialogs, nothing is disabled.                    *)

TiposTallesLoad == LoadComun("cada")

TiposTallesCreateType == Envia("unica", {"exito", "cierra", "relee"}, {})
TiposTallesUpdateType == Envia("cambia", {"exito", "cierra", "relee"}, {})
TiposTallesDeleteType == Envia("cambia", {"exito", "relee"}, {})
TiposTallesCreateValue == Envia("unica", {"exito", "cierra", "relee"}, {})
TiposTallesUpdateValue == Envia("cambia", {"exito", "cierra", "relee"}, {})
TiposTallesDeleteValue == Envia("cambia", {"exito", "relee"}, {})

TiposTalles ==
  Tapada(Panel("tipos-talles", TiposTallesLoad, [tipo |-> "modal", valor |-> "modal"],
    [createType |-> En("tipo", Libre, TiposTallesCreateType),
     updateType |-> En("tipo", Libre, TiposTallesUpdateType),
     deleteType |-> En(Fila, Libre, TiposTallesDeleteType),
     createValue |-> En("valor", Libre, TiposTallesCreateValue),
     updateValue |-> En("valor", Libre, TiposTallesUpdateValue),
     deleteValue |-> En(Fila, Libre, TiposTallesDeleteValue)]))

=============================================================================
