---------------------------- MODULE PaginasStock ----------------------------
(***************************************************************************)
(* The pages about products, prices and stock.                             *)
(***************************************************************************)
EXTENDS Descripcion

LoadStock(enciende) == Carga(enciende, {"apaga"}, {"apaga"})

-----------------------------------------------------------------------------
(* admin/productos: the list, read page by page.  Without a token nothing   *)
(* is asked, and a read that fails puts the error in the place of the page. *)
(* The product deleted is taken out of the rows seen at the click.  Another *)
(* page size asks for the rows with no try around it.                       *)

ProductosFetch == CargaSinToken({"apaga"}, Carga("cada", {"apaga"}, {"sale", "apaga"}))

ProductosEliminar == Envia("cambia", {"copia"}, {})

ProductosPageSize ==
  Antes({"enciende"}, EnviaVarias(<<Pide("nota", {}, {})>>, {"trae", "apaga"}, {}))

ProductosLista ==
  ConFiltro(Tapada(Panel("productos", ProductosFetch, SinFichas,
    [eliminar |-> En(Fila, Libre, ProductosEliminar),
     pageSize |-> En(Fila, Libre, ProductosPageSize)])))

-----------------------------------------------------------------------------
(* admin/productos/nuevo: a wizard of three steps.  The product is sent and *)
(* then its images, each in a request whose failure is passed over; only    *)
(* these disable the button.  Nothing disables the rest.                    *)

\* handleSubmit, with its uploadImages.
NuevoHandleSubmit ==
  EnviaVarias(<<Pide("crea", {}, {}), Pide("nota", {"sigue"}, {"sigue"})>>,
    {"exito", "cierra", "libera"}, {"exito", "cierra", "libera"})

NuevoHandleGenerateVariants == Envia("cambia", {"exito"}, {})
NuevoHandleSaveStocks == Envia("cambia", {"exito", "sale"}, {})

\* handleConfirmManualVariants: a POST per variant; the first that fails leaves
\* the dialog as it was, and those already made are refused from then on.
NuevoHandleConfirmManualVariants ==
  EnviaVarias(<<Pide("unica", {}, {}), Pide("unica", {}, {})>>,
    {"exito", "cierra"}, {})

ProductoNuevo ==
  Ciega(Panel("productos/nuevo", LoadStock("nunca"),
    [producto |-> "fija", manual |-> "modal"],
    [handleSubmit |-> OcupaDesde(2, En("producto", "uploadingImages", NuevoHandleSubmit)),
     handleGenerateVariants |-> En(Fila, Libre, NuevoHandleGenerateVariants),
     handleConfirmManualVariants |->
       En("manual", Libre, NuevoHandleConfirmManualVariants),
     handleSaveStocks |-> En(Fila, Libre, NuevoHandleSaveStocks)]))

-----------------------------------------------------------------------------
(* admin/productos/[id]: the product, its images, its variants and their    *)
(* stocks.  A change of the variants is made to those seen at the click.    *)

EditorLoad == Publica(LoadStock("inicio"))

EditorHandleUpdate == Antes({"limpia"}, Envia("cambia", {"local", "exito", "sale"}, {}))
EditorHandleDelete ==
  Antes({"cierra", "limpia"}, Envia("cambia", {"exito", "sale"}, {}))

EditorUploadImages == Envia("cambia", {"local", "exito", "cierra", "libera"}, {"libera"})

EditorGuardarVariante == Envia("unica", {"copia", "cierra", "exito"}, {})
EditorEliminarVariante == Envia("cambia", {"copia", "exito"}, {})
EditorGuardarStocks == Envia("cambia", {"exito", "relee"}, {})

ProductoEditor ==
  Caduca(Tapada(Panel("productos/id", EditorLoad,
    [borrado |-> "modal", imagenes |-> "fija", variante |-> "enlinea"],
    [handleUpdate |-> En(Fila, Libre, EditorHandleUpdate),
     handleDelete |-> En("borrado", Libre, EditorHandleDelete),
     uploadImages |-> En("imagenes", "uploadingImages", EditorUploadImages),
     guardarVariante |-> En("variante", Libre, EditorGuardarVariante),
     eliminarVariante |-> En(Fila, Libre, EditorEliminarVariante),
     guardarStocks |-> En(Fila, Libre, EditorGuardarStocks)])))

\* admin/productos/[id]/stocks: the rows are those of the form.
StocksLoad == Publica([Carga("nunca", {}, {}) EXCEPT !.rechazo = {"vacia"}])
StocksSubmit == Envia("cambia", {"trae", "cierra", "exito", "libera"}, {"libera"})

Stocks ==
  Panel("productos/id/stocks", StocksLoad, [filas |-> "fija"],
    [submit |-> En("filas", "loading", StocksSubmit)])

-----------------------------------------------------------------------------
(* admin/stock: every row is saved by itself, to a route that the server    *)
(* does not have; a row added is not shown.                                 *)

AdminStockLoad == LoadStock("inicio")

\* handleSaveAll and the button of a row share one saving state.
AdminStockSave ==
  SinRuta(Envia("cambia", {"local", "exito", "libera"}, {"libera"}))

AdminStockAdd == Envia("cambia", {"exito"}, {})

AdminStock ==
  Tapada(Panel("stock", AdminStockLoad, [alta |-> "fija"],
    [save |-> En(Fila, Libre, AdminStockSave),
     add |-> En("alta", Libre, AdminStockAdd)]))

-----------------------------------------------------------------------------
(* admin/inventario: the stock of a location, changed in its cell, in the   *)
(* table or in the dialog with the detail of a product, which hides nothing *)
(* that the dialog lacks and says its changes are saved and sends nothing.  *)

InventarioLoad == LoadStock("cada")
InventarioHandleUpdateStock == Envia("cambia", {"exito", "cierra", "relee"}, {})
InventarioGuardarCambios == SoloHace({"exito", "cierra"})

Inventario ==
  Tapada(Panel("inventario", InventarioLoad, [edicion |-> "enlinea", detalle |-> "enlinea"],
    [handleUpdateStock |-> En("edicion", Libre, InventarioHandleUpdateStock),
     guardarCambios |-> En("detalle", Libre, InventarioGuardarCambios)]))

\* admin/movimientos-stock: a list with filters of the server.
MovimientosLoad == LoadStock("cada")

Movimientos ==
  ConFiltro(FilasTapadas(Panel("movimientos-stock", MovimientosLoad, SinFichas,
    [actualizar |-> En(Fila, Libre, SoloHace({"relee"}))])))

-----------------------------------------------------------------------------
(* admin/remitos-internos: the reception is confirmed in a dialog that      *)
(* waits for the answer.                                                     *)

RemitosLoad == LoadStock("inicio")
RemitosConfirmar == Envia("unica", {"exito", "cierra", "relee", "libera"}, {"libera"})

RemitosInternos ==
  Tapada(Panel("remitos-internos", RemitosLoad, [confirma |-> "bloqueada"],
    [confirmarRecepcion |-> En("confirma", "confirmingId", RemitosConfirmar)]))

-----------------------------------------------------------------------------
(* admin/configuracion/precios: the tiers, and a recalculation of every     *)
(* product's prices with a dialog before and a dialog after.                *)

PreciosLoadTiers == [LoadStock("inicio") EXCEPT !.rechazo = {"vacia", "apaga"}]
PreciosHandleSave == Envia("crea", {"exito", "cierra", "relee"}, {})
PreciosHandleDelete == Envia("cambia", {"exito", "relee"}, {})

PreciosRecalcular ==
  Antes({"cierra"}, Envia("nota", {"resultado", "libera"}, {"libera"}))

Precios ==
  Tapada(Panel("precios", PreciosLoadTiers,
    [modal |-> "modal", confirma |-> "modal", recalculo |-> "resultado"],
    [handleSave |-> En("modal", Libre, PreciosHandleSave),
     handleDelete |-> En(Fila, Libre, PreciosHandleDelete),
     recalcular |-> En("confirma", "recalculating", PreciosRecalcular),
     aceptar |-> En("recalculo", Libre, SoloHace({"cierra"}))]))

=============================================================================
