------------------------------ MODULE Mappings ------------------------------
(***************************************************************************)
(* Functions as finite mappings: what @@ and :> of the TLC module are, as  *)
(* definitions, so that they can be reasoned about.                        *)
(***************************************************************************)

\* The mapping of one key.
Single(k, v) == [x \in {k} |-> v]

\* f, and g where f maps nothing.
f ++ g == [x \in DOMAIN f \cup DOMAIN g |-> IF x \in DOMAIN f THEN f[x] ELSE g[x]]
=============================================================================
