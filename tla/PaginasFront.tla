---------------------------- MODULE PaginasFront ----------------------------
(***************************************************************************)
(* The pages of the shop front, and those that keep to none of the habits  *)
(* that the properties of Pagina ask for.                                  *)
(***************************************************************************)
EXTENDS PaginasSitio, PaginasListas, PaginasPersonas, PaginasVenta, PaginasStock

PaginasDelSitio == {Banners, Videos, Categorias, Subcategorias, Topbar, Faqs, Colores, Kits}

PaginasDeListas ==
  {Vendedores, VendedorNuevo, Ranking, Contacto, SeccionesHome, Temporadas, Proveedores,
   ConfigSecciones, HomeSections, TiposTalles}

PaginasDePersonas ==
  {Usuarios, Usuario, DireccionesDeUsuario, MisDirecciones, AddressSetup, Perfil, Pedidos,
   ForgotPassword, Preguntas, ContactoPublico}

PaginasDeVenta ==
  {Ventas, Ordenes, Historial, Carritos, RemitosCarrito, Carrito, Checkout, Reportes,
   Dashboard, HomeSectionsDisplay, HomeVideos, Notificaciones}

PaginasDeStock ==
  {ProductosLista, ProductoNuevo, ProductoEditor, Stocks, AdminStock, Inventario,
   Movimientos, RemitosInternos, Precios}

TodasLasPaginas ==
  PaginasDelSitio \cup PaginasDeListas \cup PaginasDePersonas \cup PaginasDeVenta
    \cup PaginasDeStock

\* The rows on the screen stay apart from those of the server:
PaginasDesviadas == {
  "banners", "videos", "faqs",   \* a row dropped where the server did not take it
  "categorias", "subcategorias", \* read again only when the message changes
  "vendedores",                  \* one row saved takes the place of all
  "productos/id",                \* a handler puts back the rows it saw at the click
  "productos",                   \* the same, and the page number undoes a search
  "stock",                       \* a row added is not shown
  "notificaciones",              \* read on the screen, whatever the server says
  "config-secciones-home",       \* edited on the screen, and saved in part
  "vendedora/carritos"}          \* a quantity refused stays where it was typed

\* A form may be sent again before its answer, and the server takes both:
PaginasRepetibles == {
  "banners", "videos", "subcategorias", "faqs", "home-sections", "perfil/direcciones",
  "precios",
  "productos/nuevo"}             \* disabled only from the second request on

\* Success is announced without a look at the answers, or with nothing sent:
PaginasOptimistas == {"config-secciones-home", "inventario"}

\* An answer closes a form that was cancelled and filled again, or emptied:
PaginasDescuidadas == {
  "banners", "videos", "categorias", "subcategorias", "faqs", "colores", "kits",
  "secciones-home", "temporadas", "proveedores", "config-secciones-home",
  "home-sections", "tipos-talles", "usuarios", "perfil/direcciones", "ventas",
  "vendedora/carritos", "precios", "productos/id", "productos/nuevo", "inventario"}

\* Rows asked for with loading on and nothing to turn it off when they do not come:
PaginasColgadas == {"productos"}

=============================================================================
