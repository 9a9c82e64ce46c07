------------------------- MODULE MCIdentityBinding -------------------------
(* IdentityBinding with three requests of any kind: enough for a race, its  *)
(* loser, and a third that meets what they left.                            *)
EXTENDS IdentityBinding
=============================================================================
