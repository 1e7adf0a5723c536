---------------------------- MODULE PaginasSitio ----------------------------
(***************************************************************************)
(* The panels for the content of the site and the catalogue's lists.       *)
(***************************************************************************)
EXTENDS Descripcion

-----------------------------------------------------------------------------
(* admin/banners and admin/videos: an upload, a list, drag and drop.  None  *)
(* of the handlers catches a failure of the network, and only the upload    *)
(* looks at the answer.                                                      *)

BannersLoad ==
  [Carga("nunca", {}, {"vacia"}) EXCEPT !.caida = {}]

BannersUpload ==
  [Envia("crea", {"cierra", "relee"}, {}) EXCEPT !.pasos[1].caida = {}]

BannersRemove == EnviaSinMirar("cambia", {"relee"})
BannersToggleActive == EnviaSinMirar("cambia", {"relee"})

\* onDrop moves the row at once; a refusal leaves it where it was dropped.
BannersOnDrop == Antes({"local"}, Envia("cambia", {"trae"}, {}))

Banners ==
  Panel("banners", BannersLoad, [alta |-> "fija"],
    [upload |-> En("alta", Libre, BannersUpload),
     remove |-> En(Fila, Libre, BannersRemove),
     toggleActive |-> En(Fila, Libre, BannersToggleActive),
     onDrop |-> En(Fila, Libre, BannersOnDrop)])

VideosLoad ==
  [Carga("nunca", {}, {"vacia"}) EXCEPT !.caida = {}]

VideosUpload ==
  [Envia("crea", {"cierra", "relee"}, {}) EXCEPT !.pasos[1].caida = {}]

VideosRemove == EnviaSinMirar("cambia", {"relee"})
VideosToggleActive == EnviaSinMirar("cambia", {"relee"})
VideosOnDrop == Antes({"local"}, Envia("cambia", {"trae"}, {}))

Videos ==
  Panel("videos", VideosLoad, [alta |-> "fija"],
    [upload |-> En("alta", Libre, VideosUpload),
     remove |-> En(Fila, Libre, VideosRemove),
     toggleActive |-> En(Fila, Libre, VideosToggleActive),
     onDrop |-> En(Fila, Libre, VideosOnDrop)])

-----------------------------------------------------------------------------
(* admin/categorias: the list is read again whenever the message of success *)
(* comes or goes.                                                            *)

CategoriasLee == [Carga("nunca", {}, {"vacia"}) EXCEPT !.caida = {}]

CategoriasHandleSubmit ==
  Antes({"limpia"}, Envia("unica", {"exito", "cierra"}, {}))

CategoriasHandleEditSubmit ==
  Antes({"limpia"}, Envia("cambia", {"exito", "cierra"}, {}))

CategoriasHandleDelete == Antes({"limpia"}, Envia("cambia", {"exito"}, {}))

Categorias ==
  [Panel("categorias", CategoriasLee, [alta |-> "fija", edicion |-> "enlinea"],
     [handleSubmit |-> En("alta", Libre, CategoriasHandleSubmit),
      handleEditSubmit |-> En("edicion", Libre, CategoriasHandleEditSubmit),
      handleDelete |-> En(Fila, Libre, CategoriasHandleDelete)])
   EXCEPT !.sigueAviso = TRUE]

-----------------------------------------------------------------------------
(* admin/subcategorias: the list of the category chosen.  What it takes for *)
(* a list is not checked.  A subcategory created is listed when its dialog  *)
(* is accepted.                                                              *)

SubcategoriasLee == Carga("nunca", {}, {"vacia"})

SubcategoriasHandleDelete == Antes({"limpia"}, Envia("cambia", {"exito"}, {}))

SubcategoriasHandleUpdate ==
  Antes({"limpia"}, Envia("cambia", {"exito", "cierra"}, {}))

SubcategoriasHandleSubmit == Envia("crea", {"cierra", "resultado"}, {})

SubcategoriasHandleCloseSuccessModal == SoloHace({"cierra", "exito"})

Subcategorias ==
  [ConFiltro(Panel("subcategorias", SubcategoriasLee,
     [alta |-> "fija", edicion |-> "enlinea", creada |-> "resultado"],
     [handleSubmit |-> En("alta", Libre, SubcategoriasHandleSubmit),
      handleUpdateSubcategory |-> En("edicion", Libre, SubcategoriasHandleUpdate),
      handleDelete |-> En(Fila, Libre, SubcategoriasHandleDelete),
      handleCloseSuccessModal |->
        En("creada", Libre, SubcategoriasHandleCloseSuccessModal)]))
   EXCEPT !.sigueAviso = TRUE, !.caduca = TRUE, !.alAbrir = {"limpia"}]

-----------------------------------------------------------------------------
(* admin/topbar: one record, written into the form by the load.             *)

TopbarLee ==
  Publica([Carga("inicio", {"apaga"}, {"apaga"})
           EXCEPT !.rechazo = {"apaga", "vacia"}])

TopbarSave ==
  SinToken({},
    Antes({"limpia"}, Envia("ajusta", {"exito", "libera", "local"}, {"libera"})))

Topbar ==
  Tapada(Panel("topbar", TopbarLee, [formulario |-> "fija"],
    [save |-> En("formulario", "saving", TopbarSave)]))

-----------------------------------------------------------------------------
(* admin/faqs: a dialog for a new or an existing question, buttons that     *)
(* move a row at once.                                                       *)

FaqsFetch ==
  CargaSinToken({"sale"}, Carga("cada", {"apaga"}, {"apaga"}))

FaqsHandleSave ==
  SinToken({"limpia"},
    Antes({"limpia"}, Envia("crea", {"relee", "cierra"}, {})))

FaqsHandleDelete == SinToken({}, Envia("cambia", {"relee"}, {}))

\* moveUp and moveDown, then updateOrder.
FaqsMueve ==
  SinToken({"local"}, Antes({"local"}, Envia("cambia", {}, {})))

Faqs ==
  Tapada(Panel("faqs", FaqsFetch, [modal |-> "modal"],
    [handleSave |-> En("modal", Libre, FaqsHandleSave),
     handleDelete |-> En(Fila, Libre, FaqsHandleDelete),
     mueve |-> En(Fila, Libre, FaqsMueve)]))

-----------------------------------------------------------------------------
(* admin/colores: one dialog, for a new or an existing colour.              *)

ColoresLoad == Carga("cada", {"apaga"}, {"apaga"})

ColoresHandleCreate == Envia("unica", {"exito", "cierra", "relee"}, {})
ColoresHandleUpdate == Envia("cambia", {"exito", "cierra", "relee"}, {})
ColoresHandleDelete == Envia("cambia", {"exito", "relee"}, {})

Colores ==
  Tapada(Panel("colores", ColoresLoad, [modal |-> "modal"],
    [handleCreate |-> En("modal", Libre, ColoresHandleCreate),
     handleUpdate |-> En("modal", Libre, ColoresHandleUpdate),
     handleDelete |-> En(Fila, Libre, ColoresHandleDelete)]))

-----------------------------------------------------------------------------
(* admin/kits with KitForm, a component of its own.                         *)

KitsLoad == Carga("nunca", {}, {"vacia"})
KitsOnDelete == Envia("cambia", {"relee"}, {})

\* submit of KitForm, and the onSaved that the page gives it.
KitFormSubmit == Envia("crea", {"cierra", "relee", "libera"}, {"libera"})

Kits ==
  Panel("kits", KitsLoad, [formulario |-> "montada"],
    [submit |-> En("formulario", "saving", KitFormSubmit),
     onDelete |-> En(Fila, Libre, KitsOnDelete)])

=============================================================================
