------------------------------ MODULE FifoLock ------------------------------
(***************************************************************************)
(* What a per-key serializer promises its callers: whoever asked earlier   *)
(* for the same key and has not finished goes first, so at most one caller *)
(* of a key runs and nobody is overtaken.                                  *)
(***************************************************************************)
CONSTANTS Callers, Keys, NoKey

VARIABLES
  key,     \* the key a caller asked for, NoKey when it asks for none
  ahead,   \* the callers that asked for that key before it and are not done
  running  \* the callers inside their operation

vars == <<key, ahead, running>>

Init ==
  /\ key = [p \in Callers |-> NoKey]
  /\ ahead = [p \in Callers |-> {}]
  /\ running = {}

Ask(p, k) ==
  /\ key[p] = NoKey
  /\ key' = [key EXCEPT ![p] = k]
  /\ ahead' = [ahead EXCEPT ![p] = {q \in Callers : key[q] = k}]
  /\ UNCHANGED running

Run(p) ==
  /\ key[p] # NoKey /\ p \notin running /\ ahead[p] = {}
  /\ running' = running \union {p}
  /\ UNCHANGED <<key, ahead>>

Finish(p) ==
  /\ p \in running
  /\ running' = running \ {p}
  /\ key' = [key EXCEPT ![p] = NoKey]
  /\ ahead' = [q \in Callers |-> ahead[q] \ {p}]

Next == \E p \in Callers : Run(p) \/ Finish(p) \/ \E k \in Keys : Ask(p, k)

Spec == Init /\ [][Next]_vars

=============================================================================
