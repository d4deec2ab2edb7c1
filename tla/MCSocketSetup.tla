---------------------------- MODULE MCSocketSetup ----------------------------
(* Names of up to two addresses, and one option of every kind. *)
EXTENDS SocketSetup
=============================================================================
