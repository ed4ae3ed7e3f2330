---------------------------- MODULE MCStoreInit ----------------------------
(* Two initializers, two tarballs. *)
EXTENDS StoreInit
=============================================================================
