----------------------------- MODULE MCService -------------------------------
(* Two connections, one blocking thread, a content of every kind. *)
EXTENDS Service
=============================================================================
