---------------------------- MODULE MCDbFunctions ----------------------------
(* The values TLC checks DbFunctions with. *)
EXTENDS DbFunctions
=============================================================================
