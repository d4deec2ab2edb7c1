----------------------------- MODULE MCTransport -----------------------------
(* Two connections; the API may grant them ids of their own, or one id. *)
EXTENDS Transport
=============================================================================
