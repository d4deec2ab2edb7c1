---------------------------- MODULE MCSpliceRelay ----------------------------
(* The splice relay on short streams. *)
EXTENDS SpliceRelay
=============================================================================
