--------------------------- MODULE MC_CallCatalog ---------------------------
(* Model values for CallCatalog: the whole catalog, and the single calls  *)
(* the violation runs look at.                                             *)
EXTENDS CallCatalog

MCAllCalls == DOMAIN Catalog
MCLogin == {"C_Login"}
MCEncryptFinal == {"C_EncryptFinal"}
MCGetAttributeValue == {"C_GetAttributeValue"}
=============================================================================
