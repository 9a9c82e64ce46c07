----------------------------- MODULE OAuthLock -----------------------------
(***************************************************************************)
(* with-local-oauth-lock (extern/atproto_oauth.cljs): callers of one key   *)
(* chain themselves on "drained" promises kept in a map from a key to the  *)
(* promise of its last caller.  No queue is stored: the chain of the prior *)
(* promises is the queue, and FifoLock is what it has to amount to.        *)
(***************************************************************************)
EXTENDS Naturals

CONSTANTS
  Callers, Keys, NoKey,
  MaxCalls     \* bound of the model: calls made by one caller

LockConstants == MaxCalls \in Nat /\ NoKey \notin Keys

NoGate == <<>>
Gates  == Callers \X (1..MaxCalls)   \* the promise of a caller's n-th call

VARIABLES
  locks,    \* the map: the gate of a key's last caller, or NoGate
  drained,  \* the gates that have been released
  calls,    \* how many calls each caller has made
  call      \* the call each caller is in

vars == <<locks, drained, calls, call>>

Call  == [pc : {"out", "waiting", "running"}, key : Keys \union {NoKey},
          prior : Gates \union {NoGate}]
Out   == [pc |-> "out", key |-> NoKey, prior |-> NoGate]
Gate(p) == <<p, calls[p]>>

TypeOK ==
  /\ locks \in [Keys -> Gates \union {NoGate}]
  /\ drained \subseteq Gates
  /\ calls \in [Callers -> 0..MaxCalls]
  /\ call \in [Callers -> Call]

Init ==
  /\ locks = [k \in Keys |-> NoGate]
  /\ drained = {}
  /\ calls = [p \in Callers |-> 0]
  /\ call = [p \in Callers |-> Out]

\* The position is reserved before the first await.
Enter(p, k) ==
  /\ call[p].pc = "out" /\ calls[p] < MaxCalls
  /\ calls' = [calls EXCEPT ![p] = @ + 1]
  /\ locks' = [locks EXCEPT ![k] = <<p, calls[p] + 1>>]
  /\ call' = [call EXCEPT ![p] = [pc |-> "waiting", key |-> k, prior |-> locks[k]]]
  /\ UNCHANGED drained

\* The prior gate has resolved, or there was none.
Open(g) == g = NoGate \/ g \in drained
Proceed(p) ==
  /\ call[p].pc = "waiting" /\ Open(call[p].prior)
  /\ call' = [call EXCEPT ![p].pc = "running"]
  /\ UNCHANGED <<locks, drained, calls>>

\* The operation settles, fulfilled or rejected: its gate is released, and the map
\* forgets the key unless a later caller has queued behind it.
ForgottenAlways(p) == [locks EXCEPT ![call[p].key] = NoGate]
Forgotten(p) ==
  [locks EXCEPT ![call[p].key] = IF @ = Gate(p) THEN NoGate ELSE @]
ReleasedNever(p) == drained
Released(p) == drained \union {Gate(p)}
Settle(p) ==
  /\ call[p].pc = "running"
  /\ drained' = Released(p)
  /\ locks' = Forgotten(p)
  /\ call' = [call EXCEPT ![p] = Out]
  /\ UNCHANGED calls

Next == \E p \in Callers : Proceed(p) \/ Settle(p) \/ \E k \in Keys : Enter(p, k)

\* A resolved promise runs its continuation; nothing makes an operation settle.
Fairness == \A p \in Callers : WF_vars(Proceed(p))
Spec == Init /\ [][Next]_vars /\ Fairness

-----------------------------------------------------------------------------
(* Properties.                                                             *)

\* The caller whose gate p awaits, and all whose gates have to be released before p can
\* run: the smallest set with that caller that is closed under waiting.
Awaits(p) == IF call[p].pc = "waiting" /\ ~Open(call[p].prior) THEN {call[p].prior[1]} ELSE {}
Closed(S) == \A r \in S : Awaits(r) \subseteq S
Before(p) == {q \in Callers : \A S \in SUBSET Callers : Awaits(p) \subseteq S /\ Closed(S) => q \in S}

Serializer == INSTANCE FifoLock WITH
  key     <- [p \in Callers |-> call[p].key],
  ahead   <- [p \in Callers |-> Before(p)],
  running <- {p \in Callers : call[p].pc = "running"}

\* The chain of promises is a first-come first-served lock: no two operations of a
\* key overlap and none is overtaken, also when an operation rejects.
ImplementsFifoLock == Serializer!Spec

\* If every operation settles, every caller gets to run its own.
EveryCallerRuns ==
  (\A p \in Callers : []<>(call[p].pc # "running"))
    => \A p \in Callers : call[p].pc = "waiting" ~> call[p].pc = "running"

=============================================================================
