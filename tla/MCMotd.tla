-------------------------------- MODULE MCMotd --------------------------------
(* The status exchange under every configuration. *)
EXTENDS Motd
=============================================================================
