----------------------------- MODULE MCCopyRelay -----------------------------
(* The copying relays on short streams. *)
EXTENDS CopyRelay
=============================================================================
