--------------------------- MODULE MCSymIntegReader ---------------------------
(***************************************************************************)
(* SymIntegReader on small layouts.  The real one is a prefix of 18 octets *)
(* for AES, an MDC of 22 and a granularity of 16; what matters is that the *)
(* granularity divides neither length, that several steps fit into the     *)
(* payload, and that a window is longer and shorter than what one call     *)
(* adds to it.                                                             *)
(***************************************************************************)
EXTENDS SymIntegReader
===============================================================================
