----------------------------- MODULE MCAccounts -----------------------------
(* Accounts of people and access of machines, side by side: "part" says     *)
(* which one runs, and the other keeps its initial state.                   *)
(*   identity - IdentityBinding with three requests of any kind: enough for *)
(*     a race, its loser, and a third that meets what they left;            *)
(*   access - MachineAccess with three requests and one credential, whose   *)
(*     clock outlasts leases and grants.                                    *)
EXTENDS IdentityBinding, MachineAccess, TLC

VARIABLE part

Symmetry == Permutations(Calls)

MCInit ==
  \/ part = "identity" /\ Init /\ AccessInit /\ grant.expires = 2
  \/ part = "access" /\ Init /\ AccessInit
MCNext ==
  \/ part = "identity" /\ Next /\ UNCHANGED <<part, accessVars>>
  \/ part = "access" /\ AccessNext /\ UNCHANGED <<part, vars>>

MCSpec == MCInit /\ [][MCNext]_<<part, vars, accessVars>>

=============================================================================
