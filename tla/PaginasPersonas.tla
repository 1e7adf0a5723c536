--------------------------- MODULE PaginasPersonas ---------------------------
(***************************************************************************)
(* The pages about people: the users of the panel, the profile of whoever  *)
(* is logged in, addresses and the password.                               *)
(***************************************************************************)
EXTENDS Descripcion

\* A load whose loading state is off after any answer.
LoadPersonas(enciende) == Carga(enciende, {"apaga"}, {"apaga"})

-----------------------------------------------------------------------------
(* admin/usuarios: two dialogs with nothing disabled; the filters are those *)
(* of the browser.  The message of success lasts three seconds.             *)

UsuariosFetch == LoadPersonas("cada")

UsuariosHandleCreate == Envia("unica", {"exito", "cierra", "relee"}, {})
UsuariosHandleUpdate == Envia("cambia", {"exito", "cierra", "relee"}, {})
UsuariosHandleDelete == Envia("cambia", {"exito", "relee"}, {})

Usuarios ==
  Caduca(Panel("usuarios", UsuariosFetch, [alta |-> "modal", edicion |-> "modal"],
    [handleCreateUser |-> En("alta", Libre, UsuariosHandleCreate),
     handleUpdateUser |-> En("edicion", Libre, UsuariosHandleUpdate),
     handleDelete |-> En(Fila, Libre, UsuariosHandleDelete)]))

\* usuarios/[id]: the button that says it deletes the user only goes elsewhere.
UsuarioFetch == LoadPersonas("cada")

Usuario ==
  Tapada(Panel("usuarios/id", UsuarioFetch, SinFichas,
    [eliminar |-> En(Fila, Libre, SoloHace({"sale"}))]))

-----------------------------------------------------------------------------
(* The addresses, as the panel and as their owner see them.                 *)

DireccionesLoadData == LoadPersonas("cada")
DireccionesSetDefault == Envia("cambia", {"exito", "relee"}, {})
DireccionesDelete == Envia("cambia", {"exito", "relee"}, {})

DireccionesDeUsuario ==
  Caduca(Tapada(Panel("usuarios/id/direcciones", DireccionesLoadData, SinFichas,
    [handleSetDefault |-> En(Fila, Libre, DireccionesSetDefault),
     handleDelete |-> En(Fila, Libre, DireccionesDelete)])))

MisDireccionesFetch == CargaSinToken({"sale"}, LoadPersonas("cada"))
MisDireccionesSubmit == Envia("crea", {"exito", "cierra", "relee"}, {})
MisDireccionesSetDefault == Envia("cambia", {"exito", "relee"}, {})
MisDireccionesDelete == Envia("cambia", {"exito", "relee"}, {})

MisDirecciones ==
  Caduca(Tapada(Panel("perfil/direcciones", MisDireccionesFetch, [modal |-> "modal"],
    [handleSubmit |-> En("modal", Libre, MisDireccionesSubmit),
     handleSetDefault |-> En(Fila, Libre, MisDireccionesSetDefault),
     handleDelete |-> En(Fila, Libre, MisDireccionesDelete)])))

\* The address asked for after the registration; it may be skipped.
AddressSetupSubmit == Envia("crea", {"sale", "libera"}, {"libera"})

AddressSetup ==
  Ciega(Panel("AddressSetup", LoadPersonas("nunca"), [direccion |-> "fija"],
    [handleSubmit |-> En("direccion", "loading", AddressSetupSubmit),
     handleSkip |-> En("direccion", "loading", SoloHace({"sale"}))]))

-----------------------------------------------------------------------------
(* perfil: one record.  After the PUT the whole session is asked for again, *)
(* and a failure of that ends it.                                            *)

PerfilLoad == CargaSinToken({"sale"}, LoadPersonas("cada"))

PerfilHandleSave ==
  Antes({"limpia"},
    EnviaVarias(<<Pide("ajusta", {"libera"}, {"libera"}),
                  Pide("nota", {"sale"}, {"sale"})>>,
      {"relee", "exito", "cierra", "libera"}, {"libera"}))

Perfil ==
  Tapada(Panel("perfil", PerfilLoad, [edicion |-> "bloqueada"],
    [handleSave |-> En("edicion", "saving", PerfilHandleSave)]))

\* perfil/pedidos: closing the detail of an order asks for the list again.
PedidosFetch == CargaSinToken({"apaga"}, LoadPersonas("cada"))

Pedidos ==
  Panel("perfil/pedidos", PedidosFetch, [detalle |-> "visor"],
    [onClose |-> En("detalle", Libre, SoloHace({"cierra", "relee"}))])

-----------------------------------------------------------------------------
(* forgot-password: a form for whoever has lost the password.               *)

ForgotSubmit == Envia("nota", {"sale", "libera"}, {"libera"})

ForgotPassword ==
  Abierta(Ciega(Panel("forgot-password", LoadPersonas("nunca"), [correo |-> "fija"],
    [handleSubmit |-> En("correo", "loading", ForgotSubmit)])))

\* The questions anyone may read.
PreguntasFetch == Publica(LoadPersonas("cada"))

Preguntas == Tapada(Panel("preguntas-frecuentes", PreguntasFetch, SinFichas, SinOps))

\* contacto: the server has no such route, and the page lives on what it knew.
ContactoPublicoFetch == Publica(CargaSinRuta(LoadPersonas("inicio")))

ContactoPublico == Tapada(Panel("contacto publico", ContactoPublicoFetch, SinFichas, SinOps))

=============================================================================
