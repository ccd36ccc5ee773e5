---------------------------- MODULE MCReflection ----------------------------
(* The values TLC checks Reflection with. *)
EXTENDS Reflection
=============================================================================
