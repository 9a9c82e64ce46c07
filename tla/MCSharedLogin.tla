--------------------------- MODULE MCSharedLogin ---------------------------
(* Two windows on the store of the shared login, side by side: "part" says  *)
(* which one runs.                                                          *)
(*   store - OidcStore on one grant and two root sessions, so that a        *)
(*     logout, a second sign-in and every statement can interleave before   *)
(*     and after each expiry, with a token and a device code;               *)
(*   endpoint - TokenEndpoint with two requests, a code and a refresh token *)
(*     of one grant: both may present the same key (a race or a replay) or  *)
(*     each its own (two browser tabs).                                     *)
EXTENDS TokenEndpoint, TLC

CONSTANT EndpointClock     \* where the endpoint's clock stops

VARIABLE part

Symmetry == Permutations(Sessions) \union Permutations(AccessTokens)
              \union Permutations(RefreshTokens \ FirstRefresh)

MCInit ==
  \/ part = "store" /\ StoreInit /\ req = [r \in Requests |-> Idle]
  \/ part = "endpoint" /\ EndpointInit
MCNext ==
  \/ part = "store" /\ StatementsOn(FirstRefresh, Devices) /\ UNCHANGED <<part, req>>
  \/ part = "endpoint" /\ EndpointNext /\ clock' <= EndpointClock /\ UNCHANGED part

MCSpec == MCInit /\ [][MCNext]_<<part, vars>>

=============================================================================
