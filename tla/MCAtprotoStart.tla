--------------------------- MODULE MCAtprotoStart ---------------------------
(* AtprotoStart with three clients, a limiter table for two and starts that *)
(* fill the store; the clock outlasts a window, a cookie and a state.       *)
EXTENDS AtprotoStart, TLC

Symmetry == Permutations(Attempts) \union Permutations(Clients)
=============================================================================
