--------------------------- MODULE MCClientStream ---------------------------
(* Clients of every format, whose packets are a few bytes long. *)
EXTENDS ClientStream
=============================================================================
