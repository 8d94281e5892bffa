--------------------------- MODULE MCLibcResolver ---------------------------
(* LibcResolver on the libc of LibcData. *)
EXTENDS LibcResolver, LibcData
=============================================================================
