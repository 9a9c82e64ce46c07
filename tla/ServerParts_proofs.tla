------------------------- MODULE ServerParts_proofs -------------------------
(***************************************************************************)
(* Proofs about the parts that ServerParts puts side by side, each for     *)
(* every value of its constants: the invariant of a part is proved about   *)
(* the part's own initial states and steps, and carried over to the        *)
(* composition at the end.                                                 *)
(***************************************************************************)
EXTENDS ServerParts, FiniteSetTheorems, TLAPS

(* Lifecycle: a process from start to exit.                                *)

\* The exit code is 1 from the signal until both pools have ended, and of the schema
\* at most the statement that the signal found in flight is still to be counted.
ProcessInv ==
  /\ Process!TypeOK
  /\ stopping <=> stop.pc # "off"
  /\ stop.pc \in {"app", "startup", "pool"} => exitCode = 1
  /\ stop.pc \in {"pool", "done"} => schemaPool = "ended"
  /\ stop.pc = "done" => runtimePool = "ended"
  /\ boot.pc = "issued" => boot.at <= Len(Script)
  /\ ~stopping => late = 0
  /\ boot.pc \in {"schema", "issued"} => late <= 1
  /\ Process!CleanExit

LEMMA ProcessInit == Process!Init => ProcessInv
<1>. SUFFICES ASSUME Process!Init PROVE ProcessInv
  OBVIOUS
<1>1. Len(Script) \in Nat /\ boot = [pc |-> "schema", at |-> 1]
  BY PartConstants DEF Process!Init, Process!LifecycleConstants
<1>2. boot \in [pc : {"schema", "issued", "rollback", "closing", "enabling", "opening", "up",
                     "interrupted"}, at : 1..(Len(Script) + 1)]
  BY <1>1
<1>3. answered \in 0..MaxRequests /\ late \in Nat /\ conn \in [Connections -> {"none", "busy", "idle"}]
  BY PartConstants DEF Process!Init, Process!LifecycleConstants
<1>4. Process!TypeOK
  BY <1>2, <1>3 DEF Process!Init, Process!TypeOK
<1>. QED  BY <1>4 DEF Process!Init, ProcessInv, Process!CleanExit

LEMMA ProcessStepKeeps == ProcessInv /\ [Process!Next]_processVars => ProcessInv'
<1>. SUFFICES ASSUME ProcessInv, [Process!Next]_processVars PROVE ProcessInv'
  OBVIOUS
<1>. USE PartConstants
     DEF ProcessInv, Process!LifecycleConstants, Process!TypeOK, Process!CleanExit,
         Process!Running, Process!Boot, Process!Stop, Process!HttpSame, Process!PoolSame,
         Process!StopSame
<1>1. CASE Process!Issue
  BY <1>1 DEF Process!Issue, Process!Interrupted
<1>2. CASE Process!Answered
  <2>1. boot' = [pc |-> "schema", at |-> boot.at + 1] /\ boot.at \in 1..Len(Script)
    BY <1>2 DEF Process!Answered
  <2>. QED  BY <1>2, <2>1 DEF Process!Answered
<1>3. CASE Process!RolledBack
  BY <1>3 DEF Process!RolledBack, Process!GiveUp
<1>4. CASE Process!BootFails
  BY <1>4 DEF Process!BootFails, Process!GiveUp
<1>5. CASE Process!BootCloses
  BY <1>5 DEF Process!BootCloses, Process!AskClose
<1>6. CASE Process!SchemaPoolEnds
  BY <1>6 DEF Process!SchemaPoolEnds
<1>7. CASE Process!Attach
  BY <1>7 DEF Process!Attach, Process!Interrupted
<1>8. CASE Process!Listen
  BY <1>8 DEF Process!Listen, Process!Interrupted
<1>9. CASE Process!Opened
  BY <1>9 DEF Process!Opened
<1>10. ASSUME NEW c \in Connections, Process!Request(c) \/ Process!Respond(c) PROVE ProcessInv'
  BY <1>10 DEF Process!Request, Process!Respond
<1>11. CASE Process!Signal
  BY <1>11 DEF Process!Signal, Process!SignalledCode
<1>12. CASE Process!SweepIdle
  BY <1>12 DEF Process!SweepIdle
<1>13. CASE Process!CloseApp
  BY <1>13 DEF Process!CloseApp, Process!AskClose
<1>14. CASE Process!CloseStartup
  BY <1>14 DEF Process!CloseStartup
<1>15. CASE Process!EndPool
  BY <1>15 DEF Process!EndPool
<1>16. CASE Process!StopFails \/ Process!Deadline
  BY <1>16 DEF Process!StopFails, Process!Deadline
<1>17. CASE Process!Exit
  BY <1>17 DEF Process!Exit
<1>18. CASE UNCHANGED processVars
  BY <1>18 DEF processVars
<1>. QED
  BY <1>1, <1>2, <1>3, <1>4, <1>5, <1>6, <1>7, <1>8, <1>9, <1>10, <1>11, <1>12, <1>13, <1>14,
     <1>15, <1>16, <1>17, <1>18 DEF Process!Next

-----------------------------------------------------------------------------

(* OAuthLock: the chain of promises is a first-come first-served lock.     *)

\* The smallest set of callers that contains what p awaits and is closed under awaiting,
\* of a relation that is given as a function: what OAuth!Before is of the current one.
Chain(awaits, p) ==
  {q \in Callers : \A S \in SUBSET Callers :
     awaits[p] \subseteq S /\ (\A r \in S : awaits[r] \subseteq S) => q \in S}

LEMMA ChainLeast ==
  ASSUME NEW awaits \in [Callers -> SUBSET Callers], NEW p \in Callers
  PROVE  /\ Chain(awaits, p) \subseteq Callers /\ awaits[p] \subseteq Chain(awaits, p)
         /\ \A r \in Chain(awaits, p) : awaits[r] \subseteq Chain(awaits, p)
         /\ \A S \in SUBSET Callers :
              awaits[p] \subseteq S /\ (\A r \in S : awaits[r] \subseteq S)
                => Chain(awaits, p) \subseteq S
<1>1. Chain(awaits, p) \subseteq Callers /\ awaits[p] \subseteq Chain(awaits, p)
  BY DEF Chain
<1>2. \A S \in SUBSET Callers :
        awaits[p] \subseteq S /\ (\A r \in S : awaits[r] \subseteq S)
          => Chain(awaits, p) \subseteq S
  BY DEF Chain
<1>3. ASSUME NEW r \in Chain(awaits, p), NEW q \in awaits[r] PROVE q \in Chain(awaits, p)
  <2>1. r \in Callers /\ q \in Callers
    BY <1>1, <1>3
  <2>2. ASSUME NEW S \in SUBSET Callers, awaits[p] \subseteq S, \A x \in S : awaits[x] \subseteq S
        PROVE  q \in S
    <3>1. r \in S
      BY <1>2, <2>2
    <3>. QED  BY <1>3, <2>2, <3>1
  <2>. QED  BY <2>1, <2>2 DEF Chain
<1>. QED  BY <1>1, <1>2, <1>3

\* A caller that awaits nobody can go.
LEMMA ChainEmpty ==
  ASSUME NEW awaits \in [Callers -> SUBSET Callers], NEW p \in Callers, awaits[p] = {}
  PROVE  Chain(awaits, p) = {}
BY ChainLeast

\* A caller whom nobody awaits may begin to await: nothing changes for the others, and
\* it comes after the one it awaits and all who come before that one.
LEMMA ChainJoined ==
  ASSUME NEW old \in [Callers -> SUBSET Callers], NEW new \in [Callers -> SUBSET Callers],
         NEW p \in Callers, old[p] = {}, \A q \in Callers : p \notin old[q],
         \A q \in Callers \ {p} : new[q] = old[q], p \notin new[p]
  PROVE  /\ \A q \in Callers \ {p} : Chain(new, q) = Chain(old, q)
         /\ \A q \in Callers : new[p] = {q} => Chain(new, p) = {q} \union Chain(old, q)
<1>1. \A q \in Callers : p \notin Chain(old, q)
  <2>. SUFFICES ASSUME NEW q \in Callers PROVE p \notin Chain(old, q)
    OBVIOUS
  <2>. DEFINE S == Callers \ {p}
  <2>1. S \in SUBSET Callers /\ old[q] \subseteq S /\ \A r \in S : old[r] \subseteq S
    OBVIOUS
  <2>2. Chain(old, q) \subseteq S
    <3>. HIDE DEF S
    <3>. QED  BY <2>1, ChainLeast
  <2>. QED  BY <2>2
<1>2. ASSUME NEW q \in Callers \ {p} PROVE Chain(new, q) = Chain(old, q)
  <2>1. Chain(new, q) \subseteq Chain(old, q)
    <3>. DEFINE S == Chain(old, q)
    <3>1. S \in SUBSET Callers /\ old[q] \subseteq S /\ \A r \in S : old[r] \subseteq S
      BY ChainLeast
    <3>2. new[q] \subseteq S /\ \A r \in S : new[r] \subseteq S
      BY <1>1, <3>1
    <3>. HIDE DEF S
    <3>3. Chain(new, q) \subseteq S
      BY <3>1, <3>2, ChainLeast
    <3>. QED  BY <3>3 DEF S
  <2>2. Chain(old, q) \subseteq Chain(new, q)
    <3>. DEFINE S == Chain(new, q)
    <3>1. S \in SUBSET Callers /\ new[q] \subseteq S /\ \A r \in S : new[r] \subseteq S
      BY ChainLeast
    <3>. HIDE DEF S
    <3>2. old[q] \subseteq S /\ \A r \in S : old[r] \subseteq S
      BY <3>1
    <3>3. Chain(old, q) \subseteq S
      BY <3>1, <3>2, ChainLeast
    <3>. QED  BY <3>3 DEF S
  <2>. QED  BY <2>1, <2>2
<1>3. ASSUME NEW q \in Callers, new[p] = {q} PROVE Chain(new, p) = {q} \union Chain(old, q)
  <2>0. q # p /\ Chain(new, q) = Chain(old, q)
    BY <1>2, <1>3
  <2>1. Chain(new, p) \subseteq {q} \union Chain(old, q)
    <3>. DEFINE S == {q} \union Chain(new, q)
    <3>1. /\ Chain(new, q) \subseteq Callers /\ new[q] \subseteq Chain(new, q)
          /\ \A r \in Chain(new, q) : new[r] \subseteq Chain(new, q)
      BY ChainLeast
    <3>2. S \in SUBSET Callers /\ new[p] \subseteq S /\ \A r \in S : new[r] \subseteq S
      BY <1>3, <3>1
    <3>. HIDE DEF S
    <3>3. Chain(new, p) \subseteq S
      BY <3>2, ChainLeast
    <3>. QED  BY <2>0, <3>3 DEF S
  <2>2. {q} \union Chain(old, q) \subseteq Chain(new, p)
    <3>. DEFINE S == Chain(new, p)
    <3>1. S \in SUBSET Callers /\ new[p] \subseteq S /\ \A r \in S : new[r] \subseteq S
      BY ChainLeast
    <3>. HIDE DEF S
    <3>2. q \in S /\ new[q] \subseteq S
      BY <1>3, <3>1
    <3>3. Chain(new, q) \subseteq S
      BY <3>1, <3>2, ChainLeast
    <3>. QED  BY <2>0, <3>2, <3>3 DEF S
  <2>. QED  BY <2>1, <2>2
<1>. QED  BY <1>2, <1>3

\* A caller that awaits nobody leaves: it leaves every chain and no chain breaks.
LEMMA ChainLeft ==
  ASSUME NEW old \in [Callers -> SUBSET Callers], NEW new \in [Callers -> SUBSET Callers],
         NEW p \in Callers, old[p] = {}, \A q \in Callers : new[q] = old[q] \ {p}
  PROVE  \A q \in Callers : Chain(new, q) = Chain(old, q) \ {p}
<1>. SUFFICES ASSUME NEW q \in Callers PROVE Chain(new, q) = Chain(old, q) \ {p}
  OBVIOUS
<1>1. Chain(new, q) \subseteq Chain(old, q) \ {p}
  <2>. DEFINE S == Chain(old, q) \ {p}
  <2>1. /\ Chain(old, q) \subseteq Callers /\ old[q] \subseteq Chain(old, q)
        /\ \A r \in Chain(old, q) : old[r] \subseteq Chain(old, q)
    BY ChainLeast
  <2>2. S \in SUBSET Callers /\ new[q] \subseteq S /\ \A r \in S : new[r] \subseteq S
    BY <2>1
  <2>. HIDE DEF S
  <2>3. Chain(new, q) \subseteq S
    BY <2>2, ChainLeast
  <2>. QED  BY <2>3 DEF S
<1>2. Chain(old, q) \subseteq Chain(new, q) \union {p}
  <2>. DEFINE S == Chain(new, q) \union {p}
  <2>1. /\ Chain(new, q) \subseteq Callers /\ new[q] \subseteq Chain(new, q)
        /\ \A r \in Chain(new, q) : new[r] \subseteq Chain(new, q)
    BY ChainLeast
  <2>2. S \in SUBSET Callers /\ old[q] \subseteq S /\ \A r \in S : old[r] \subseteq S
    BY <2>1
  <2>. HIDE DEF S
  <2>3. Chain(old, q) \subseteq S
    BY <2>2, ChainLeast
  <2>. QED  BY <2>3 DEF S
<1>. QED  BY <1>1, <1>2

Waits == [p \in Callers |-> OAuth!Awaits(p)]
Inside(p) == call[p].pc # "out"

\* q awaits the gate of r; r is the last of the callers with key k.
Behind(q, r) ==
  /\ q # r /\ Inside(r) /\ call[r].key = call[q].key /\ call[q].prior = OAuth!Gate(r)
LastOf(k, r) ==
  /\ call[r].key = k /\ locks[k] = OAuth!Gate(r)
  /\ {p \in Callers : call[p].key = k} = {r} \union OAuth!Before(r)

\* A gate that is not yet released belongs to a caller that is still inside with the same
\* key; the map remembers the last one of a key, and all the others come before it.
Unreleased ==
  \A p \in Callers :
    /\ call[p].key = NoKey <=> call[p].pc = "out"
    /\ Inside(p) => OAuth!Gate(p) \in OAuth!Gates /\ OAuth!Gate(p) \notin drained
PastGates == \A p \in Callers, i \in 1..MaxCalls : <<p, i>> \in drained => i <= calls[p]
Chained ==
  \A p \in Callers :
    call[p].pc = "waiting" /\ ~OAuth!Open(call[p].prior) => \E r \in Callers : Behind(p, r)
MapSound ==
  \A k \in Keys : IF locks[k] = OAuth!NoGate THEN \A p \in Callers : call[p].key # k
                                             ELSE \E r \in Callers : LastOf(k, r)
LockInv == OAuth!TypeOK /\ Unreleased /\ PastGates /\ Chained /\ MapSound

\* What Before is: the chain of the current relation.
WaitsTyped == \A p \in Callers : OAuth!Awaits(p) \subseteq Callers
WaitsChain ==
  /\ Waits \in [Callers -> SUBSET Callers]
  /\ \A p \in Callers : Waits[p] = OAuth!Awaits(p) /\ OAuth!Before(p) = Chain(Waits, p)

LEMMA BeforeIsChain == WaitsTyped => WaitsChain
<1>. SUFFICES ASSUME WaitsTyped PROVE WaitsChain
  OBVIOUS
<1>1. Waits \in [Callers -> SUBSET Callers] /\ \A p \in Callers : Waits[p] = OAuth!Awaits(p)
  BY DEF Waits, WaitsTyped
<1>2. ASSUME NEW p \in Callers PROVE OAuth!Before(p) = Chain(Waits, p)
  <2>1. ASSUME NEW S \in SUBSET Callers
        PROVE  OAuth!Closed(S) <=> \A r \in S : Waits[r] \subseteq S
    BY <1>1 DEF OAuth!Closed
  <2>. QED  BY <1>1, <2>1 DEF OAuth!Before, Chain
<1>. QED  BY <1>1, <1>2 DEF WaitsChain

LEMMA AwaitsBehind ==
  ASSUME LockInv, NEW q \in Callers
  PROVE  /\ OAuth!Awaits(q) # {} => \E r \in Callers : Behind(q, r) /\ OAuth!Awaits(q) = {r}
         /\ call[q].pc # "waiting" => OAuth!Awaits(q) = {}
<1>1. call[q].pc # "waiting" => OAuth!Awaits(q) = {}
  BY DEF OAuth!Awaits
<1>2. ASSUME OAuth!Awaits(q) # {}
      PROVE  \E r \in Callers : Behind(q, r) /\ OAuth!Awaits(q) = {r}
  <2>1. call[q].pc = "waiting" /\ ~OAuth!Open(call[q].prior) /\ OAuth!Awaits(q) = {call[q].prior[1]}
    BY <1>2 DEF OAuth!Awaits
  <2>2. PICK r \in Callers : Behind(q, r)
    BY <2>1 DEF LockInv, Chained
  <2>3. call[q].prior[1] = r
    BY <2>2 DEF Behind, OAuth!Gate
  <2>. QED  BY <2>1, <2>2, <2>3
<1>. QED  BY <1>1, <1>2

LEMMA LockWaits == LockInv => WaitsTyped /\ WaitsChain
<1>1. LockInv => WaitsTyped
  BY AwaitsBehind DEF WaitsTyped
<1>. QED  BY <1>1, BeforeIsChain

LEMMA LockInit == OAuth!Init => LockInv /\ OAuth!Serializer!Init
<1>. SUFFICES ASSUME OAuth!Init PROVE LockInv /\ OAuth!Serializer!Init
  OBVIOUS
<1>1. \A p \in Callers : call[p] = OAuth!Out
  BY DEF OAuth!Init
<1>2. \A p \in Callers : OAuth!Awaits(p) = {}
  BY <1>1 DEF OAuth!Awaits, OAuth!Out
<1>3. \A p \in Callers : OAuth!Before(p) = {}
  BY <1>2 DEF OAuth!Before, OAuth!Closed
<1>4. OAuth!TypeOK
  BY PartConstants DEF OAuth!TypeOK, OAuth!Init, OAuth!Call, OAuth!Out, OAuth!LockConstants
<1>5. LockInv
  <2>1. Unreleased /\ PastGates
    BY <1>1, PartConstants DEF Unreleased, PastGates, OAuth!Init, OAuth!Out, Inside, OAuth!LockConstants
  <2>2. Chained /\ MapSound
    BY <1>1, PartConstants DEF Chained, MapSound, OAuth!Init, OAuth!Out, OAuth!LockConstants
  <2>. QED  BY <1>4, <2>1, <2>2 DEF LockInv
<1>. QED  BY <1>1, <1>3, <1>5 DEF OAuth!Serializer!Init, OAuth!Out

\* The position is reserved before the first await: behind everybody with that key.
LEMMA EnterAsks ==
  ASSUME LockInv, NEW p \in Callers, NEW k \in Keys, OAuth!Enter(p, k)
  PROVE  LockInv' /\ OAuth!Serializer!Ask(p, k)
<1>. USE PartConstants DEF OAuth!LockConstants
<1>. DEFINE n == calls[p] + 1
            x == [pc |-> "waiting", key |-> k, prior |-> locks[k]]
<1>1. /\ call[p].pc = "out" /\ calls[p] < MaxCalls
      /\ calls' = [calls EXCEPT ![p] = n] /\ locks' = [locks EXCEPT ![k] = <<p, n>>]
      /\ call' = [call EXCEPT ![p] = x] /\ UNCHANGED drained
  BY DEF OAuth!Enter
<1>2. /\ locks \in [Keys -> OAuth!Gates \union {OAuth!NoGate}] /\ drained \subseteq OAuth!Gates
      /\ calls \in [Callers -> 0..MaxCalls] /\ call \in [Callers -> OAuth!Call]
  BY DEF LockInv, OAuth!TypeOK
<1>3. n \in 1..MaxCalls /\ <<p, n>> \in OAuth!Gates /\ <<p, n>> # OAuth!NoGate
  BY <1>1, <1>2 DEF OAuth!Gates, OAuth!NoGate
<1>4. <<p, n>> \notin drained
  <2>1. <<p, n>> \in drained => n <= calls[p]
    BY <1>3 DEF LockInv, PastGates
  <2>2. calls[p] \in Nat
    BY <1>2
  <2>. QED  BY <2>1, <2>2
<1>5. x \in OAuth!Call /\ x.pc = "waiting" /\ x.key = k /\ x.prior = locks[k]
  BY <1>2 DEF OAuth!Call
<1>. HIDE DEF n, x
<1>6. /\ call'[p] = x /\ calls'[p] = n /\ locks'[k] = <<p, n>>
      /\ \A q \in Callers : q # p => call'[q] = call[q] /\ calls'[q] = calls[q]
      /\ \A l \in Keys : l # k => locks'[l] = locks[l]
  BY <1>1, <1>2
<1>7. OAuth!TypeOK'
  BY <1>1, <1>2, <1>3, <1>5 DEF OAuth!TypeOK
<1>8. call[p].key = NoKey /\ k # NoKey
  BY <1>1 DEF LockInv, Unreleased
<1>9. /\ Waits \in [Callers -> SUBSET Callers] /\ Waits[p] = {}
      /\ \A q \in Callers : Waits[q] = OAuth!Awaits(q) /\ OAuth!Before(q) = Chain(Waits, q)
  BY <1>1, LockWaits, AwaitsBehind DEF WaitsChain
<1>10. \A q \in Callers : p \notin Waits[q]
  <2>. SUFFICES ASSUME NEW q \in Callers, p \in Waits[q] PROVE FALSE
    OBVIOUS
  <2>1. Behind(q, p)
    BY <1>9, AwaitsBehind
  <2>. QED  BY <1>1, <2>1 DEF Behind, Inside
<1>11. \A q \in Callers : q # p => OAuth!Awaits(q)' = Waits[q]
  BY <1>1, <1>6, <1>9 DEF OAuth!Awaits, OAuth!Open
<1>12. ASSUME locks[k] # OAuth!NoGate
       PROVE  \E r \in Callers :
                r # p /\ Inside(r) /\ LastOf(k, r) /\ OAuth!Awaits(p)' = {r} /\ locks[k] = OAuth!Gate(r)
  <2>1. PICK r \in Callers : LastOf(k, r)
    BY <1>12 DEF LockInv, MapSound
  <2>2. call[r].key = k /\ locks[k] = OAuth!Gate(r) /\ locks[k][1] = r
    BY <2>1 DEF LastOf, OAuth!Gate
  <2>3. r # p /\ Inside(r)
    BY <1>8, <2>2 DEF LockInv, Unreleased, Inside
  <2>4. locks[k] \notin drained
    BY <2>2, <2>3 DEF LockInv, Unreleased
  <2>5. OAuth!Awaits(p)' = IF ~(locks[k] = OAuth!NoGate \/ locks[k] \in drained)
                             THEN {locks[k][1]} ELSE {}
    BY <1>1, <1>5, <1>6 DEF OAuth!Awaits, OAuth!Open
  <2>. QED  BY <1>12, <2>1, <2>2, <2>3, <2>4, <2>5
<1>13. locks[k] = OAuth!NoGate => OAuth!Awaits(p)' = {}
  BY <1>1, <1>5, <1>6 DEF OAuth!Awaits, OAuth!Open
<1>14. /\ Waits' \in [Callers -> SUBSET Callers]
       /\ \A q \in Callers : Waits'[q] = OAuth!Awaits(q)' /\ OAuth!Before(q)' = Chain(Waits', q)
  <2>1. WaitsTyped'
    BY <1>9, <1>11, <1>12, <1>13 DEF WaitsTyped
  <2>2. WaitsChain'
    BY <2>1, BeforeIsChain, PTL
  <2>. QED  BY <2>2 DEF WaitsChain
<1>15. \A q \in Callers : q # p => OAuth!Before(q)' = OAuth!Before(q)
  BY <1>9, <1>10, <1>11, <1>12, <1>13, <1>14, ChainJoined
<1>16. OAuth!Before(p)' = {q \in Callers : call[q].key = k}
  <2>1. CASE locks[k] = OAuth!NoGate
    <3>1. {q \in Callers : call[q].key = k} = {}
      BY <2>1 DEF LockInv, MapSound
    <3>2. Chain(Waits', p) = {}
      BY <1>13, <1>14, <2>1, ChainEmpty
    <3>. QED  BY <1>14, <3>1, <3>2
  <2>2. CASE locks[k] # OAuth!NoGate
    <3>1. PICK r \in Callers : r # p /\ LastOf(k, r) /\ OAuth!Awaits(p)' = {r}
      BY <1>12, <2>2
    <3>2. Waits'[p] = {r} /\ p \notin Waits'[p]
      BY <1>14, <3>1
    <3>3. Chain(Waits', p) = {r} \union Chain(Waits, r)
      BY <1>9, <1>10, <1>11, <1>14, <3>2, ChainJoined
    <3>. QED  BY <1>9, <1>14, <3>1, <3>3 DEF LastOf
  <2>. QED  BY <2>1, <2>2
<1>17. Unreleased'
  <2>. SUFFICES ASSUME NEW q \in Callers
                PROVE  /\ (call[q].key = NoKey <=> call[q].pc = "out")'
                       /\ (Inside(q) => OAuth!Gate(q) \in OAuth!Gates /\ OAuth!Gate(q) \notin drained)'
    BY DEF Unreleased
  <2>1. CASE q = p
    BY <1>1, <1>3, <1>4, <1>5, <1>6, <1>8, <2>1 DEF Inside, OAuth!Gate
  <2>2. CASE q # p
    BY <1>1, <1>6, <2>2 DEF LockInv, Unreleased, Inside, OAuth!Gate
  <2>. QED  BY <2>1, <2>2
<1>18. PastGates'
  <2>. SUFFICES ASSUME NEW q \in Callers, NEW i \in 1..MaxCalls, <<q, i>> \in drained
                PROVE  i <= calls'[q]
    BY <1>1 DEF PastGates
  <2>1. i <= calls[q] /\ calls[q] \in Nat
    BY <1>2 DEF LockInv, PastGates
  <2>2. calls[q] <= calls'[q]
    BY <1>2, <1>6, <2>1 DEF n
  <2>3. calls'[q] \in Nat
    BY <1>7 DEF OAuth!TypeOK
  <2>. QED  BY <2>1, <2>2, <2>3
<1>19. Chained'
  <2>. SUFFICES ASSUME NEW q \in Callers, call'[q].pc = "waiting", ~OAuth!Open(call[q].prior)'
                PROVE  \E r \in Callers : Behind(q, r)'
    BY DEF Chained
  <2>1. CASE q = p
    <3>1. locks[k] # OAuth!NoGate
      BY <1>5, <1>6, <2>1 DEF OAuth!Open
    <3>2. PICK r \in Callers : r # p /\ Inside(r) /\ LastOf(k, r) /\ locks[k] = OAuth!Gate(r)
      BY <1>12, <3>1
    <3>3. Behind(p, r)'
      BY <1>5, <1>6, <3>2 DEF Behind, LastOf, Inside, OAuth!Gate
    <3>. QED  BY <2>1, <3>3
  <2>2. CASE q # p
    <3>1. call'[q] = call[q] /\ call[q].pc = "waiting" /\ ~OAuth!Open(call[q].prior)
      BY <1>1, <1>6, <2>2 DEF OAuth!Open
    <3>2. PICK r \in Callers : Behind(q, r)
      BY <3>1 DEF LockInv, Chained
    <3>3. r # p
      BY <1>1, <3>2 DEF Behind, Inside
    <3>4. Behind(q, r)'
      BY <1>6, <3>1, <3>2, <3>3 DEF Behind, Inside, OAuth!Gate
    <3>. QED  BY <3>4
  <2>. QED  BY <2>1, <2>2
<1>20. MapSound'
  <2>. SUFFICES ASSUME NEW l \in Keys
                PROVE  (IF locks[l] = OAuth!NoGate THEN \A q \in Callers : call[q].key # l
                                                  ELSE \E r \in Callers : LastOf(l, r))'
    BY DEF MapSound
  <2>1. CASE l = k
    <3>1. {q \in Callers : call'[q].key = k} = {p} \union {q \in Callers : call[q].key = k}
      BY <1>5, <1>6
    <3>2. locks'[k] = <<p, n>> /\ OAuth!Gate(p)' = <<p, n>>
      BY <1>6 DEF OAuth!Gate
    <3>3. LastOf(k, p)'
      BY <1>5, <1>6, <1>16, <3>1, <3>2 DEF LastOf
    <3>. QED  BY <1>3, <2>1, <3>2, <3>3
  <2>2. CASE l # k
    <3>1. locks'[l] = locks[l] /\ l # NoKey
      BY <1>6, <2>2
    <3>2. \A q \in Callers : call'[q].key = l <=> call[q].key = l
      BY <1>5, <1>6, <1>8, <2>2, <3>1
    <3>3. CASE locks[l] = OAuth!NoGate
      <4>1. \A q \in Callers : call[q].key # l
        BY <3>3 DEF LockInv, MapSound
      <4>. QED  BY <3>1, <3>2, <3>3, <4>1
    <3>4. CASE locks[l] # OAuth!NoGate
      <4>1. PICK r \in Callers : LastOf(l, r)
        BY <3>4 DEF LockInv, MapSound
      <4>2. r # p
        BY <1>8, <3>1, <4>1 DEF LastOf
      <4>3. OAuth!Before(r)' = OAuth!Before(r) /\ OAuth!Gate(r)' = OAuth!Gate(r)
        BY <1>6, <1>15, <4>2 DEF OAuth!Gate
      <4>4. {q \in Callers : call'[q].key = l} = {q \in Callers : call[q].key = l}
        BY <3>2
      <4>5. LastOf(l, r)'
        BY <3>1, <3>2, <4>1, <4>3, <4>4 DEF LastOf
      <4>. QED  BY <3>1, <3>4, <4>5
    <3>. QED  BY <3>3, <3>4
  <2>. QED  BY <2>1, <2>2
<1>21. LockInv'
  BY <1>7, <1>17, <1>18, <1>19, <1>20 DEF LockInv
<1>22. OAuth!Serializer!Ask(p, k)
  <2>1. [q \in Callers |-> call'[q].key] = [[q \in Callers |-> call[q].key] EXCEPT ![p] = k]
    BY <1>5, <1>6
  <2>2. [q \in Callers |-> OAuth!Before(q)']
          = [[q \in Callers |-> OAuth!Before(q)] EXCEPT ![p] =
               {q \in Callers : [r \in Callers |-> call[r].key][q] = k}]
    <3>1. {q \in Callers : [r \in Callers |-> call[r].key][q] = k} = {q \in Callers : call[q].key = k}
      OBVIOUS
    <3>. QED  BY <1>15, <1>16, <3>1
  <2>3. {q \in Callers : call'[q].pc = "running"} = {q \in Callers : call[q].pc = "running"}
    BY <1>1, <1>5, <1>6
  <2>4. [q \in Callers |-> call[q].key][p] = NoKey
    BY <1>8
  <2>. QED  BY <2>1, <2>2, <2>3, <2>4 DEF OAuth!Serializer!Ask
<1>. QED  BY <1>21, <1>22

\* The gates it awaits are open: everybody before it is done.
LEMMA ProceedRuns ==
  ASSUME LockInv, NEW p \in Callers, OAuth!Proceed(p)
  PROVE  LockInv' /\ OAuth!Serializer!Run(p)
<1>. USE PartConstants DEF OAuth!LockConstants
<1>. DEFINE x == [call[p] EXCEPT !.pc = "running"]
<1>1. /\ call[p].pc = "waiting" /\ OAuth!Open(call[p].prior) /\ call' = [call EXCEPT ![p] = x]
      /\ UNCHANGED <<locks, drained, calls>>
  BY DEF OAuth!Proceed
<1>2. /\ locks \in [Keys -> OAuth!Gates \union {OAuth!NoGate}] /\ drained \subseteq OAuth!Gates
      /\ calls \in [Callers -> 0..MaxCalls] /\ call \in [Callers -> OAuth!Call]
  BY DEF LockInv, OAuth!TypeOK
<1>3. x \in OAuth!Call /\ x.pc = "running" /\ x.key = call[p].key
  BY <1>2 DEF OAuth!Call
<1>. HIDE DEF x
<1>4. call'[p] = x /\ \A q \in Callers : q # p => call'[q] = call[q]
  BY <1>1, <1>2
<1>5. \A q \in Callers : call'[q].key = call[q].key
  BY <1>3, <1>4
<1>6. \A q \in Callers : OAuth!Gate(q)' = OAuth!Gate(q) /\ Inside(q)' = Inside(q)
  BY <1>1, <1>3, <1>4 DEF OAuth!Gate, Inside
<1>7. OAuth!Awaits(p) = {} /\ \A q \in Callers : OAuth!Awaits(q)' = OAuth!Awaits(q)
  BY <1>1, <1>3, <1>4 DEF OAuth!Awaits, OAuth!Open
<1>8. \A q \in Callers : OAuth!Before(q)' = OAuth!Before(q)
  <2>1. WaitsTyped /\ WaitsChain
    BY LockWaits
  <2>2. WaitsTyped'
    BY <1>7, <2>1 DEF WaitsTyped
  <2>3. WaitsChain'
    BY <2>2, BeforeIsChain, PTL
  <2>4. Waits' = Waits
    BY <1>7 DEF Waits
  <2>. QED  BY <2>1, <2>3, <2>4 DEF WaitsChain
<1>9. OAuth!Before(p) = {}
  BY <1>7, LockWaits, ChainEmpty DEF WaitsChain
<1>10. OAuth!TypeOK'
  BY <1>1, <1>2, <1>3 DEF OAuth!TypeOK
<1>11. Unreleased' /\ PastGates'
  <2>1. \A q \in Callers : call'[q].pc = "out" <=> call[q].pc = "out"
    BY <1>1, <1>3, <1>4
  <2>. QED  BY <1>1, <1>5, <1>6, <2>1 DEF LockInv, Unreleased, PastGates
<1>12. Chained'
  <2>. SUFFICES ASSUME NEW q \in Callers, call'[q].pc = "waiting", ~OAuth!Open(call[q].prior)'
                PROVE  \E r \in Callers : Behind(q, r)'
    BY DEF Chained
  <2>1. q # p /\ call'[q] = call[q]
    BY <1>3, <1>4
  <2>2. PICK r \in Callers : Behind(q, r)
    BY <1>1, <2>1 DEF LockInv, Chained, OAuth!Open
  <2>3. Behind(q, r)'
    BY <1>5, <1>6, <2>1, <2>2 DEF Behind
  <2>. QED  BY <2>3
<1>13. MapSound'
  <2>1. \A k \in Keys, r \in Callers : LastOf(k, r)' <=> LastOf(k, r)
    BY <1>1, <1>5, <1>6, <1>8 DEF LastOf
  <2>. QED  BY <1>1, <1>5, <2>1 DEF LockInv, MapSound
<1>14. LockInv'
  BY <1>10, <1>11, <1>12, <1>13 DEF LockInv
<1>15. OAuth!Serializer!Run(p)
  <2>1. [q \in Callers |-> call'[q].key] = [q \in Callers |-> call[q].key]
    BY <1>5
  <2>2. [q \in Callers |-> OAuth!Before(q)'] = [q \in Callers |-> OAuth!Before(q)]
    BY <1>8
  <2>3. {q \in Callers : call'[q].pc = "running"} = {q \in Callers : call[q].pc = "running"} \union {p}
    BY <1>3, <1>4
  <2>4. [q \in Callers |-> call[q].key][p] # NoKey
    BY <1>1 DEF LockInv, Unreleased
  <2>5. p \notin {q \in Callers : call[q].pc = "running"}
    BY <1>1
  <2>6. [q \in Callers |-> OAuth!Before(q)][p] = {}
    BY <1>9
  <2>. QED  BY <2>1, <2>2, <2>3, <2>4, <2>5, <2>6 DEF OAuth!Serializer!Run
<1>. QED  BY <1>14, <1>15

\* Its gate opens, and the map forgets the key if nobody has queued behind it.
LEMMA SettleFinishes ==
  ASSUME LockInv, NEW p \in Callers, OAuth!Settle(p)
  PROVE  LockInv' /\ OAuth!Serializer!Finish(p)
<1>. USE PartConstants DEF OAuth!LockConstants
<1>1. /\ call[p].pc = "running" /\ drained' = drained \union {OAuth!Gate(p)}
      /\ locks' = [locks EXCEPT ![call[p].key] =
                     IF locks[call[p].key] = OAuth!Gate(p) THEN OAuth!NoGate ELSE locks[call[p].key]]
      /\ call' = [call EXCEPT ![p] = OAuth!Out] /\ UNCHANGED calls
  BY DEF OAuth!Settle, OAuth!Released, OAuth!Forgotten
<1>2. /\ locks \in [Keys -> OAuth!Gates \union {OAuth!NoGate}] /\ drained \subseteq OAuth!Gates
      /\ calls \in [Callers -> 0..MaxCalls] /\ call \in [Callers -> OAuth!Call]
  BY DEF LockInv, OAuth!TypeOK
<1>3. /\ Inside(p) /\ OAuth!Gate(p) \in OAuth!Gates /\ OAuth!Gate(p) \notin drained
      /\ call[p].key \in Keys
  <2>1. call[p].key \in Keys \union {NoKey}
    BY <1>2 DEF OAuth!Call
  <2>. QED  BY <1>1, <2>1 DEF LockInv, Unreleased, Inside
<1>4. OAuth!Out \in OAuth!Call /\ OAuth!Out.pc = "out" /\ OAuth!Out.key = NoKey
  BY DEF OAuth!Out, OAuth!Call
<1>5. call'[p] = OAuth!Out /\ \A q \in Callers : q # p => call'[q] = call[q]
  BY <1>1, <1>2
<1>6. PICK k \in Keys : k = call[p].key
  BY <1>3
<1>7. /\ locks'[k] = IF locks[k] = OAuth!Gate(p) THEN OAuth!NoGate ELSE locks[k]
      /\ \A l \in Keys : l # k => locks'[l] = locks[l]
  BY <1>1, <1>2, <1>6
<1>8. \A q \in Callers : OAuth!Gate(q)' = OAuth!Gate(q)
  BY <1>1 DEF OAuth!Gate
<1>9. \A q, r \in Callers : OAuth!Gate(q) = OAuth!Gate(r) => q = r
  BY DEF OAuth!Gate
<1>10. OAuth!TypeOK'
  BY <1>1, <1>2, <1>3, <1>4 DEF OAuth!TypeOK
<1>11. \A q \in Callers : OAuth!Awaits(q)' = OAuth!Awaits(q) \ {p}
  <2>. SUFFICES ASSUME NEW q \in Callers PROVE OAuth!Awaits(q)' = OAuth!Awaits(q) \ {p}
    OBVIOUS
  <2>1. CASE q = p
    BY <1>1, <1>4, <1>5, <2>1, AwaitsBehind DEF OAuth!Awaits
  <2>2. CASE q # p /\ OAuth!Awaits(q) = {}
    <3>1. call[q].pc # "waiting" \/ OAuth!Open(call[q].prior)
      BY <2>2 DEF OAuth!Awaits
    <3>. QED  BY <1>1, <1>5, <2>2, <3>1 DEF OAuth!Awaits, OAuth!Open
  <2>3. CASE q # p /\ OAuth!Awaits(q) # {}
    <3>1. PICK r \in Callers : Behind(q, r) /\ OAuth!Awaits(q) = {r}
      BY <2>3, AwaitsBehind
    <3>2. call'[q] = call[q] /\ call[q].prior = OAuth!Gate(r)
      BY <1>5, <2>3, <3>1 DEF Behind
    <3>3. call[q].pc = "waiting" /\ ~OAuth!Open(call[q].prior) /\ call[q].prior[1] = r
      <4>1. call[q].pc = "waiting" /\ ~OAuth!Open(call[q].prior)
        BY <2>3 DEF OAuth!Awaits
      <4>. QED  BY <3>2, <4>1 DEF OAuth!Gate
    <3>4. OAuth!Open(call[q].prior)' <=> OAuth!Gate(r) = OAuth!Gate(p)
      BY <1>1, <3>2, <3>3 DEF OAuth!Open
    <3>5. OAuth!Awaits(q)' = IF OAuth!Gate(r) = OAuth!Gate(p) THEN {} ELSE {r}
      BY <3>2, <3>3, <3>4 DEF OAuth!Awaits
    <3>. QED  BY <1>9, <3>1, <3>5
  <2>. QED  BY <2>1, <2>2, <2>3
<1>12. OAuth!Awaits(p) = {}
  BY <1>1, AwaitsBehind
<1>13. \A q \in Callers : OAuth!Before(q)' = OAuth!Before(q) \ {p}
  <2>1. WaitsTyped /\ WaitsChain
    BY LockWaits
  <2>2. WaitsTyped'
    BY <1>11, <2>1 DEF WaitsTyped
  <2>3. WaitsChain'
    BY <2>2, BeforeIsChain, PTL
  <2>4. Waits[p] = {} /\ \A q \in Callers : Waits'[q] = Waits[q] \ {p}
    BY <1>11, <1>12, <2>1, <2>3 DEF WaitsChain
  <2>5. \A q \in Callers : Chain(Waits', q) = Chain(Waits, q) \ {p}
    BY <2>1, <2>3, <2>4, ChainLeft DEF WaitsChain
  <2>. QED  BY <2>1, <2>3, <2>5 DEF WaitsChain
<1>14. OAuth!Before(p) = {}
  BY <1>12, LockWaits, ChainEmpty DEF WaitsChain
<1>15. Unreleased'
  <2>. SUFFICES ASSUME NEW q \in Callers
                PROVE  /\ (call[q].key = NoKey <=> call[q].pc = "out")'
                       /\ (Inside(q) => OAuth!Gate(q) \in OAuth!Gates /\ OAuth!Gate(q) \notin drained)'
    BY DEF Unreleased
  <2>1. CASE q = p
    BY <1>4, <1>5, <2>1 DEF Inside
  <2>2. CASE q # p
    <3>1. (call[q].key = NoKey <=> call[q].pc = "out")'
      BY <1>5, <2>2 DEF LockInv, Unreleased
    <3>2. OAuth!Gate(q) # OAuth!Gate(p)
      BY <1>9, <2>2
    <3>3. (Inside(q) => OAuth!Gate(q) \in OAuth!Gates /\ OAuth!Gate(q) \notin drained)'
      BY <1>1, <1>5, <1>8, <2>2, <3>2 DEF LockInv, Unreleased, Inside
    <3>. QED  BY <3>1, <3>3
  <2>. QED  BY <2>1, <2>2
<1>16. PastGates'
  <2>. SUFFICES ASSUME NEW q \in Callers, NEW i \in 1..MaxCalls, <<q, i>> \in drained'
                PROVE  i <= calls[q]
    BY <1>1 DEF PastGates
  <2>1. CASE <<q, i>> \in drained
    BY <2>1 DEF LockInv, PastGates
  <2>2. CASE <<q, i>> = OAuth!Gate(p)
    BY <2>2 DEF OAuth!Gate
  <2>. QED  BY <1>1, <2>1, <2>2
<1>17. Chained'
  <2>. SUFFICES ASSUME NEW q \in Callers, call'[q].pc = "waiting", ~OAuth!Open(call[q].prior)'
                PROVE  \E r \in Callers : Behind(q, r)'
    BY DEF Chained
  <2>1. q # p /\ call'[q] = call[q]
    BY <1>4, <1>5
  <2>2. PICK r \in Callers : Behind(q, r)
    BY <1>1, <2>1 DEF LockInv, Chained, OAuth!Open
  <2>3. r # p
    BY <1>1, <2>1, <2>2 DEF Behind, OAuth!Open
  <2>4. Behind(q, r)'
    BY <1>5, <1>8, <2>1, <2>2, <2>3 DEF Behind, Inside
  <2>. QED  BY <2>4
<1>18. MapSound'
  <2>. SUFFICES ASSUME NEW l \in Keys
                PROVE  (IF locks[l] = OAuth!NoGate THEN \A q \in Callers : call[q].key # l
                                                  ELSE \E r \in Callers : LastOf(l, r))'
    BY DEF MapSound
  <2>0. l # NoKey
    OBVIOUS
  <2>1. {q \in Callers : call'[q].key = l} = {q \in Callers : call[q].key = l} \ {p}
    BY <1>4, <1>5, <2>0
  <2>2. CASE locks[l] = OAuth!NoGate
    <3>1. \A q \in Callers : call[q].key # l
      BY <2>2 DEF LockInv, MapSound
    <3>2. l # k
      BY <1>6, <3>1
    <3>. QED  BY <1>7, <2>1, <2>2, <3>1, <3>2
  <2>3. CASE locks[l] # OAuth!NoGate
    <3>1. PICK r \in Callers : LastOf(l, r)
      BY <2>3 DEF LockInv, MapSound
    <3>2. CASE r = p
      <4>1. l = k /\ locks[l] = OAuth!Gate(p) /\ {q \in Callers : call[q].key = l} = {p}
        BY <1>6, <1>14, <3>1, <3>2 DEF LastOf
      <4>2. \A q \in Callers : call'[q].key # l
        BY <2>1, <4>1
      <4>. QED  BY <1>7, <4>1, <4>2
    <3>3. CASE r # p
      <4>1. locks[l] # OAuth!Gate(p)
        BY <1>9, <3>1, <3>3 DEF LastOf
      <4>2. locks'[l] = locks[l]
        BY <1>7, <4>1
      <4>3. LastOf(l, r)'
        BY <1>5, <1>8, <1>13, <2>1, <3>1, <3>3, <4>2 DEF LastOf
      <4>. QED  BY <2>3, <4>2, <4>3
    <3>. QED  BY <3>2, <3>3
  <2>. QED  BY <2>2, <2>3
<1>19. LockInv'
  BY <1>10, <1>15, <1>16, <1>17, <1>18 DEF LockInv
<1>20. OAuth!Serializer!Finish(p)
  <2>1. [q \in Callers |-> call'[q].key] = [[q \in Callers |-> call[q].key] EXCEPT ![p] = NoKey]
    BY <1>4, <1>5
  <2>2. [q \in Callers |-> OAuth!Before(q)']
          = [q \in Callers |-> [r \in Callers |-> OAuth!Before(r)][q] \ {p}]
    BY <1>13
  <2>3. {q \in Callers : call'[q].pc = "running"} = {q \in Callers : call[q].pc = "running"} \ {p}
    BY <1>4, <1>5
  <2>4. p \in {q \in Callers : call[q].pc = "running"}
    BY <1>1
  <2>. QED  BY <2>1, <2>2, <2>3, <2>4 DEF OAuth!Serializer!Finish
<1>. QED  BY <1>19, <1>20

LEMMA LockStep ==
  LockInv /\ [OAuth!Next]_oauthVars
    => LockInv' /\ [OAuth!Serializer!Next]_(OAuth!Serializer!vars)
<1>. SUFFICES ASSUME LockInv, [OAuth!Next]_oauthVars
              PROVE  LockInv' /\ [OAuth!Serializer!Next]_(OAuth!Serializer!vars)
  OBVIOUS
<1>1. ASSUME NEW p \in Callers, OAuth!Proceed(p) PROVE LockInv' /\ OAuth!Serializer!Next
  BY <1>1, ProceedRuns DEF OAuth!Serializer!Next
<1>2. ASSUME NEW p \in Callers, OAuth!Settle(p) PROVE LockInv' /\ OAuth!Serializer!Next
  BY <1>2, SettleFinishes DEF OAuth!Serializer!Next
<1>3. ASSUME NEW p \in Callers, NEW k \in Keys, OAuth!Enter(p, k)
      PROVE  LockInv' /\ OAuth!Serializer!Next
  BY <1>3, EnterAsks DEF OAuth!Serializer!Next
<1>4. CASE UNCHANGED oauthVars
  <2>1. \A p \in Callers : /\ OAuth!Gate(p)' = OAuth!Gate(p) /\ OAuth!Awaits(p)' = OAuth!Awaits(p)
                           /\ Inside(p)' = Inside(p) /\ OAuth!Open(call[p].prior)' = OAuth!Open(call[p].prior)
    BY <1>4 DEF oauthVars, OAuth!Gate, OAuth!Awaits, OAuth!Open, Inside
  <2>2. \A p \in Callers : OAuth!Before(p)' = OAuth!Before(p)
    BY <2>1 DEF OAuth!Before, OAuth!Closed
  <2>3. LockInv'
    BY <1>4, <2>1, <2>2 DEF oauthVars, LockInv, OAuth!TypeOK, Unreleased, PastGates, Chained,
                            MapSound, Behind, LastOf
  <2>4. UNCHANGED OAuth!Serializer!vars
    BY <1>4, <2>2 DEF oauthVars, OAuth!Serializer!vars
  <2>. QED  BY <2>3, <2>4
<1>. QED  BY <1>1, <1>2, <1>3, <1>4 DEF OAuth!Next

-----------------------------------------------------------------------------

(* EmailIndexMigration: a unique index while actors are added.             *)

\* The strongest lock is held from the first statement of the migration to its end, and
\* excludes every writer's.
LocksHeld ==
  /\ \A m \in Migrators :
       lock[m] = IF migrator[m] \in {"recheck", "scan", "drop", "create", "commit"}
                   THEN "access exclusive" ELSE "none"
  /\ \A w \in Writers :
       /\ lock[w] \in {"none", "row share", "row exclusive"}
       /\ writer[w].pc = "commit" => lock[w] = "row exclusive"
  /\ \A m \in Migrators : \A p \in Index!Processes \ {m} :
       lock[m] = "access exclusive" => lock[p] = "none"

\* Whoever is about to create the index has found no duplicates, and nobody has added
\* any; once it is there, the row that is about to be added is a new one.
FoundNone ==
  /\ \A m \in Migrators : migrator[m] \in {"drop", "create", "commit"} => Index!Duplicates = {}
  /\ index = "unique" =>
       /\ Index!Duplicates = {}
       /\ \A w \in Writers, r \in Index!Rows :
            writer[w].pc = "commit" => email[r] # writer[w].email
       /\ \A v, w \in Writers :
            v # w /\ writer[v].pc = "commit" /\ writer[w].pc = "commit"
              => writer[v].email # writer[w].email

IndexInv ==
  /\ Index!TypeOK /\ LocksHeld /\ FoundNone
  /\ \A m \in Migrators : migrator[m] # "collided"

LEMMA IndexInit == Index!Init => IndexInv
<1>. SUFFICES ASSUME Index!Init PROVE IndexInv
  OBVIOUS
<1>. USE PartConstants DEF Index!MigrationConstants, Index!Init
<1>1. Index!TypeOK
  BY DEF Index!TypeOK, Index!MigratorPc, Index!WriterPc, Index!Modes
<1>2. LocksHeld
  BY DEF LocksHeld, Index!Processes
<1>3. FoundNone
  BY DEF FoundNone
<1>. QED  BY <1>1, <1>2, <1>3 DEF IndexInv

\* A migrator that changes only where it is, and perhaps ends its transaction.
LEMMA MigratorMoves ==
  ASSUME IndexInv, NEW m \in Migrators, NEW pc0 \in Index!MigratorPc,
         migrator' = [migrator EXCEPT ![m] = pc0], UNCHANGED <<email, writer>>,
         index' = index \/ (index' = "unique" /\ migrator[m] = "commit" /\ pc0 = "done"),
         pc0 # "collided",
         pc0 \in {"drop", "create", "commit"} => Index!Duplicates = {},
         \/ /\ pc0 \in {"recheck", "scan", "drop", "create", "commit"}
            /\ \A q \in Index!Processes \ {m} : lock[q] = "none"
            /\ lock' = [lock EXCEPT ![m] = "access exclusive"]
         \/ /\ pc0 \notin {"recheck", "scan", "drop", "create", "commit"}
            /\ lock' = [lock EXCEPT ![m] = "none"]
  PROVE  IndexInv'
<1>. USE PartConstants DEF Index!MigrationConstants, Index!Processes
<1>1. Index!Duplicates' = Index!Duplicates
  BY DEF Index!Duplicates
<1>2. Index!TypeOK'
  BY DEF IndexInv, Index!TypeOK, Index!Modes
<1>3. LocksHeld'
  <2>. DEFINE holding == {"recheck", "scan", "drop", "create", "commit"}
              mode == IF pc0 \in holding THEN "access exclusive" ELSE "none"
  <2>1. lock \in [Index!Processes -> Index!Modes] /\ migrator \in [Migrators -> Index!MigratorPc]
    BY DEF IndexInv, Index!TypeOK
  <2>2. lock' = [lock EXCEPT ![m] = mode] /\ m \in Index!Processes
    OBVIOUS
  <2>3. /\ lock'[m] = mode /\ migrator'[m] = pc0
        /\ \A q \in Index!Processes : q # m => lock'[q] = lock[q]
        /\ \A n \in Migrators : n # m => migrator'[n] = migrator[n]
    <3>. HIDE DEF mode
    <3>. QED  BY <2>1, <2>2
  <2>4. mode = "access exclusive" => \A q \in Index!Processes \ {m} : lock[q] = "none"
    OBVIOUS
  <2>5. \A n \in Migrators :
          lock'[n] = IF migrator'[n] \in holding THEN "access exclusive" ELSE "none"
    BY <2>3 DEF IndexInv, LocksHeld
  <2>6. \A w \in Writers :
          /\ lock'[w] \in {"none", "row share", "row exclusive"}
          /\ writer'[w].pc = "commit" => lock'[w] = "row exclusive"
    BY <2>3 DEF IndexInv, LocksHeld
  <2>7. ASSUME NEW n \in Migrators, NEW p \in Index!Processes \ {n}, lock'[n] = "access exclusive"
        PROVE  lock'[p] = "none"
    <3>1. CASE n = m
      BY <2>3, <2>4, <2>7, <3>1
    <3>2. CASE n # m
      <4>1. lock[n] = "access exclusive"
        BY <2>3, <2>7, <3>2
      <4>2. \A q \in Index!Processes \ {n} : lock[q] = "none"
        BY <4>1 DEF IndexInv, LocksHeld
      <4>3. mode # "access exclusive"
        BY <2>4, <3>2, <4>1
      <4>. QED  BY <2>3, <2>7, <4>2, <4>3
    <3>. QED  BY <3>1, <3>2
  <2>. QED  BY <2>5, <2>6, <2>7 DEF LocksHeld
<1>4. FoundNone'
  <2>1. ASSUME NEW n \in Migrators, migrator'[n] \in {"drop", "create", "commit"}
        PROVE  Index!Duplicates = {}
    BY <2>1 DEF IndexInv, Index!TypeOK, FoundNone
  <2>2. CASE index' = index
    BY <1>1, <2>1, <2>2 DEF IndexInv, FoundNone
  <2>3. CASE index' = "unique" /\ migrator[m] = "commit" /\ pc0 = "done"
    <3>1. Index!Duplicates = {}
      BY <2>3 DEF IndexInv, FoundNone
    <3>2. \A w \in Writers : lock[w] = "none"
      BY <2>3 DEF IndexInv, LocksHeld
    <3>3. \A w \in Writers : writer[w].pc # "commit"
      BY <3>2 DEF IndexInv, LocksHeld
    <3>. QED  BY <1>1, <2>1, <3>1, <3>3 DEF FoundNone
  <2>. QED  BY <2>2, <2>3
<1>. QED  BY <1>2, <1>3, <1>4 DEF IndexInv, Index!TypeOK

LEMMA IndexStepKeeps == IndexInv /\ [Index!Next]_indexVars => IndexInv'
<1>. SUFFICES ASSUME IndexInv, [Index!Next]_indexVars PROVE IndexInv'
  OBVIOUS
<1>. USE PartConstants DEF Index!MigrationConstants
<1>1. ASSUME NEW m \in Migrators, Index!MigratorStep(m) \/ Index!Interrupt(m) PROVE IndexInv'
  <2>. USE DEF Index!Goto, Index!Unlock, Index!Lock, Index!MigratorPc
  <2>0. \A p : Index!CanLock(p, "access exclusive") =>
                 \A q \in Index!Processes \ {p} : lock[q] = "none"
    <3>1. \A q \in Index!Processes : lock[q] \in Index!Modes
      BY DEF IndexInv, Index!TypeOK
    <3>. QED  BY <3>1 DEF Index!CanLock, Index!Conflicts, Index!Modes
  <2>1. migrator[m] \in {"recheck", "scan", "drop", "create", "commit"} =>
          /\ lock[m] = "access exclusive" /\ lock = [lock EXCEPT ![m] = "access exclusive"]
          /\ \A q \in Index!Processes \ {m} : lock[q] = "none"
    BY DEF IndexInv, LocksHeld, Index!TypeOK, Index!Processes
  <2>2. migrator[m] \notin {"recheck", "scan", "drop", "create", "commit"} =>
          lock = [lock EXCEPT ![m] = "none"]
    BY DEF IndexInv, LocksHeld, Index!TypeOK, Index!Processes
  <2>3. CASE Index!Check(m)
    BY <2>2, <2>3, MigratorMoves DEF Index!Check
  <2>4. CASE Index!LockActors(m)
    BY <2>0, <2>4, MigratorMoves DEF Index!LockActors, Index!LockMode
  <2>5. CASE Index!Recheck(m)
    <3>1. index = "unique" => Index!Duplicates = {}
      BY DEF IndexInv, FoundNone
    <3>. QED  BY <2>1, <2>5, <3>1, MigratorMoves DEF Index!Recheck
  <2>6. CASE Index!Scan(m)
    <3>1. CASE Index!Duplicates # {}
      BY <2>6, <3>1, MigratorMoves DEF Index!Scan
    <3>2. CASE Index!Duplicates = {}
      BY <2>1, <2>6, <3>2, MigratorMoves DEF Index!Scan
    <3>. QED  BY <3>1, <3>2
  <2>7. CASE Index!Drop(m)
    <3>1. Index!Duplicates = {}
      BY <2>7 DEF IndexInv, FoundNone, Index!Drop
    <3>. QED  BY <2>0, <2>7, <3>1, MigratorMoves DEF Index!Drop
  <2>8. CASE Index!Create(m)
    <3>1. Index!Duplicates = {}
      BY <2>8 DEF IndexInv, FoundNone, Index!Create
    <3>. QED  BY <2>1, <2>8, <3>1, MigratorMoves DEF Index!Create
  <2>9. CASE Index!Commit(m)
    BY <2>9, MigratorMoves DEF Index!Commit
  <2>10. CASE Index!Interrupt(m)
    BY <2>10, MigratorMoves DEF Index!Interrupt
  <2>. QED
    BY <1>1, <2>3, <2>4, <2>5, <2>6, <2>7, <2>8, <2>9, <2>10 DEF Index!MigratorStep
<1>2. ASSUME NEW w \in Writers, Index!WriterStep(w) \/ \E e \in Emails : Index!Look(w, e)
      PROVE  IndexInv'
  <2>. USE DEF Index!Unlock, Index!Lock, Index!WriterAt, Index!WriterPc, Index!Processes
  <2>0. /\ writer \in [Writers -> [pc : Index!WriterPc, email : Emails \union {None}]]
        /\ email \in [Index!Rows -> Emails \union {None}]
        /\ lock \in [Index!Processes -> Index!Modes]
        /\ UNCHANGED <<index, migrator>>
    BY <1>2 DEF IndexInv, Index!TypeOK, Index!WriterStep, Index!Read, Index!Insert,
                Index!CommitRow, Index!Look
  <2>1. ASSUME NEW p, lock[p] = "access exclusive", p \in Migrators PROVE lock[w] = "none"
    BY <2>1 DEF IndexInv, LocksHeld
  <2>2. CASE Index!Read(w) \/ \E e \in Emails : Index!Look(w, e)
    <3>1. UNCHANGED email /\ Index!Duplicates' = Index!Duplicates
      BY <2>2 DEF Index!Read, Index!Look, Index!Duplicates
    <3>2. PICK x \in [pc : Index!WriterPc, email : Emails \union {None}] :
            writer' = [writer EXCEPT ![w] = x] /\ x.pc # "commit"
      <4>1. CASE Index!Read(w)
        <5>. DEFINE x == [writer[w] EXCEPT !.pc = "insert"]
        <5>1. x \in [pc : Index!WriterPc, email : Emails \union {None}] /\ x.pc = "insert"
          BY <2>0
        <5>2. writer' = [writer EXCEPT ![w] = x]
          BY <4>1 DEF Index!Read
        <5>. QED  BY <5>1, <5>2
      <4>2. ASSUME NEW e \in Emails, Index!Look(w, e)
            PROVE  \E x \in [pc : Index!WriterPc, email : Emails \union {None}] :
                     writer' = [writer EXCEPT ![w] = x] /\ x.pc # "commit"
        <5>. DEFINE x == [pc |-> IF \E r \in Index!Rows : email[r] = e THEN "taken" ELSE "begin",
                          email |-> e]
        <5>1. x \in [pc : Index!WriterPc, email : Emails \union {None}] /\ x.pc # "commit"
          OBVIOUS
        <5>2. writer' = [writer EXCEPT ![w] = x]
          BY <4>2 DEF Index!Look
        <5>. QED  BY <5>1, <5>2
      <4>. QED  BY <2>2, <4>1, <4>2
    <3>3. \/ lock' = lock /\ writer[w].pc # "commit"
          \/ /\ lock' = [lock EXCEPT ![w] = "row share"]
             /\ \A m \in Migrators : lock[m] # "access exclusive"
      BY <2>2 DEF Index!Read, Index!Look, Index!CanLock, Index!Conflicts
    <3>4. Index!TypeOK'
      BY <2>0, <3>1, <3>2, <3>3 DEF IndexInv, Index!TypeOK, Index!Modes
    <3>a. \A u \in Writers : writer'[u].pc = "commit" => u # w /\ writer'[u] = writer[u]
      BY <2>0, <3>2
    <3>5. LocksHeld'
      <4>1. CASE lock' = lock
        BY <2>0, <3>a, <4>1 DEF IndexInv, LocksHeld
      <4>2. CASE /\ lock' = [lock EXCEPT ![w] = "row share"]
                 /\ \A m \in Migrators : lock[m] # "access exclusive"
        <5>1. /\ lock'[w] = "row share" /\ \A p \in Index!Processes : p # w => lock'[p] = lock[p]
              /\ \A m \in Migrators : m # w
          BY <2>0, <4>2
        <5>. QED  BY <2>0, <3>a, <4>2, <5>1 DEF IndexInv, LocksHeld
      <4>. QED  BY <3>3, <4>1, <4>2
    <3>6. FoundNone'
      BY <2>0, <3>1, <3>a DEF IndexInv, FoundNone, Index!Rows
    <3>. QED  BY <2>0, <3>4, <3>5, <3>6 DEF IndexInv
  <2>3. CASE Index!Insert(w)
    <3>. DEFINE e == writer[w].email
                full == index = "unique" /\ \E r \in Index!Rows : email[r] = e
                x == [writer[w] EXCEPT !.pc = IF full THEN "taken" ELSE "commit"]
                mode == IF full THEN "none" ELSE "row exclusive"
    <3>1. UNCHANGED email /\ Index!Duplicates' = Index!Duplicates
      BY <2>3 DEF Index!Insert, Index!Duplicates
    <3>2. /\ x \in [pc : Index!WriterPc, email : Emails \union {None}]
          /\ x.email = e /\ (full => x.pc = "taken") /\ (~full => x.pc = "commit")
      BY <2>0
    <3>3. writer' = [writer EXCEPT ![w] = x] /\ lock' = [lock EXCEPT ![w] = mode]
      BY <2>3 DEF Index!Insert
    <3>4. /\ \A m \in Migrators : lock[m] # "access exclusive"
          /\ index = "unique" => \A v \in Writers \ {w} : ~Index!Inserting(v, e)
      BY <2>3 DEF Index!Insert, Index!CanLock, Index!Conflicts
    <3>. HIDE DEF x
    <3>5. Index!TypeOK'
      BY <2>0, <3>1, <3>2, <3>3 DEF IndexInv, Index!TypeOK, Index!Modes
    <3>6. LocksHeld'
      BY <2>0, <3>2, <3>3, <3>4 DEF IndexInv, LocksHeld
    <3>7. FoundNone'
      <4>1. \A m \in Migrators :
              migrator'[m] \in {"drop", "create", "commit"} => Index!Duplicates' = {}
        BY <2>0, <3>1 DEF IndexInv, FoundNone
      <4>2. index' = "unique" => Index!Duplicates' = {}
        BY <2>0, <3>1 DEF IndexInv, FoundNone
      <4>3. /\ \A u \in Writers : u # w => writer'[u] = writer[u]
            /\ writer'[w].email = e /\ (writer'[w].pc = "commit" => ~full)
        BY <2>0, <3>2, <3>3
      <4>4. ASSUME index = "unique", NEW u \in Writers, u # w, writer[u].pc = "commit"
            PROVE  writer[u].email # e
        BY <3>4, <4>4 DEF Index!Inserting
      <4>5. ASSUME index = "unique", NEW u \in Writers, NEW r \in Index!Rows, writer'[u].pc = "commit"
            PROVE  email[r] # writer'[u].email
        <5>1. CASE u = w
          BY <4>3, <4>5, <5>1
        <5>2. CASE u # w
          BY <4>3, <4>5, <5>2 DEF IndexInv, FoundNone
        <5>. QED  BY <5>1, <5>2
      <4>6. ASSUME index = "unique", NEW u \in Writers, NEW v \in Writers, u # v,
                   writer'[u].pc = "commit", writer'[v].pc = "commit"
            PROVE  writer'[u].email # writer'[v].email
        <5>1. CASE u # w /\ v # w
          BY <4>3, <4>6, <5>1 DEF IndexInv, FoundNone
        <5>2. CASE u = w \/ v = w
          BY <4>3, <4>4, <4>6, <5>2
        <5>. QED  BY <5>1, <5>2
      <4>. QED  BY <2>0, <3>1, <4>1, <4>2, <4>5, <4>6 DEF FoundNone, Index!Rows
    <3>. QED  BY <2>0, <3>5, <3>6, <3>7 DEF IndexInv
  <2>4. CASE Index!CommitRow(w)
    <3>. DEFINE e == writer[w].email
    <3>1. /\ writer[w].pc = "commit" /\ email' = [email EXCEPT ![w] = e]
          /\ lock' = [lock EXCEPT ![w] = "none"] /\ writer' = [writer EXCEPT ![w].pc = "added"]
      BY <2>4 DEF Index!CommitRow
    <3>2. lock[w] = "row exclusive" /\ \A m \in Migrators : lock[m] # "access exclusive"
      BY <3>1 DEF IndexInv, LocksHeld
    <3>3. \A m \in Migrators : migrator[m] \notin {"drop", "create", "commit"}
      BY <3>2 DEF IndexInv, LocksHeld
    <3>4. index = "unique" =>
            /\ Index!Duplicates = {} /\ \A r \in Index!Rows : email[r] # e
            /\ \A u \in Writers \ {w} : writer[u].pc = "commit" => writer[u].email # e
      BY <3>1 DEF IndexInv, FoundNone
    <3>5. index = "unique" => Index!Duplicates' = {}
      <4>1. w \in Index!Rows /\ Index!Rows' = Index!Rows
        BY DEF Index!Rows
      <4>. QED  BY <2>0, <3>1, <3>4, <4>1 DEF Index!Duplicates
    <3>6. /\ \A u \in Writers \ {w} : writer'[u] = writer[u]
          /\ writer'[w].pc = "added" /\ writer'[w].email = e
          /\ \A r \in Index!Rows : email'[r] = IF r = w THEN e ELSE email[r]
      BY <2>0, <3>1
    <3>7. FoundNone'
      <4>1. \A u \in Writers : writer'[u].pc = "commit" => u # w /\ writer'[u] = writer[u]
        BY <3>6
      <4>2. ASSUME index = "unique", NEW u \in Writers, NEW r \in Index!Rows, writer'[u].pc = "commit"
            PROVE  email'[r] # writer'[u].email
        <5>1. u # w /\ writer'[u] = writer[u] /\ writer[u].pc = "commit"
          BY <4>1, <4>2
        <5>2. writer[u].email # e /\ email[r] # writer[u].email
          BY <3>4, <4>2, <5>1 DEF IndexInv, FoundNone
        <5>. QED  BY <3>6, <5>1, <5>2
      <4>3. ASSUME index = "unique", NEW u \in Writers, NEW v \in Writers, u # v,
                   writer'[u].pc = "commit", writer'[v].pc = "commit"
            PROVE  writer'[u].email # writer'[v].email
        BY <4>1, <4>3 DEF IndexInv, FoundNone
      <4>. QED  BY <2>0, <3>3, <3>5, <4>2, <4>3 DEF FoundNone, Index!Rows
    <3>8. Index!TypeOK'
      BY <2>0, <3>1 DEF IndexInv, Index!TypeOK, Index!Modes, Index!Rows
    <3>9. LocksHeld'
      BY <2>0, <3>1, <3>2 DEF IndexInv, LocksHeld
    <3>. QED  BY <2>0, <3>7, <3>8, <3>9 DEF IndexInv
  <2>. QED  BY <1>2, <2>2, <2>3, <2>4 DEF Index!WriterStep
<1>3. CASE UNCHANGED indexVars
  BY <1>3 DEF indexVars, IndexInv, Index!TypeOK, LocksHeld, FoundNone, Index!Duplicates,
              Index!Inserting
<1>. QED  BY <1>1, <1>2, <1>3 DEF Index!Next

-----------------------------------------------------------------------------
(* The composition.                                                        *)

\* However signal, statements, requests and closing interleave: exit code 0 only after
\* everything is answered and closed, and after the signal at most the statement in flight
\* and one ROLLBACK.
THEOREM ExitsCleanly == Spec => []CleanExit
<1>1. Init => ProcessInv
  BY ProcessInit DEF Init
<1>2. ProcessInv /\ [Next]_vars => ProcessInv'
  BY ProcessStepKeeps DEF Next, ProcessStep, OAuthStep, IndexStep, vars
<1>3. ProcessInv => CleanExit
  BY DEF ProcessInv, CleanExit
<1>. QED  BY <1>1, <1>2, <1>3, PTL DEF Spec

\* However two migrations and the writers beside them interleave: a migration never
\* collides, and under the unique index no two actors share an email.
THEOREM DuplicateCheckHolds == Spec => []CheckHolds
<1>1. Init => IndexInv
  BY IndexInit DEF Init
<1>2. IndexInv /\ [Next]_vars => IndexInv'
  BY IndexStepKeeps DEF Next, ProcessStep, OAuthStep, IndexStep, vars
<1>3. IndexInv => CheckHolds
  BY DEF IndexInv, FoundNone, CheckHolds, Index!CheckHolds
<1>. QED  BY <1>1, <1>2, <1>3, PTL DEF Spec

\* The promises in the map implement the first-come first-served lock: every initial
\* state is one of the lock's, and every step is one of its steps or a stutter.
THEOREM PromisesAreFifo == Spec => ImplementsFifoLock
<1>1. Init => LockInv /\ OAuth!Serializer!Init
  BY LockInit DEF Init
<1>2. LockInv /\ [Next]_vars
        => LockInv' /\ [OAuth!Serializer!Next]_(OAuth!Serializer!vars)
  BY LockStep DEF Next, ProcessStep, OAuthStep, IndexStep, vars
<1>3. ImplementsFifoLock
        <=> OAuth!Serializer!Init /\ [][OAuth!Serializer!Next]_(OAuth!Serializer!vars)
  BY PTL DEF ImplementsFifoLock, OAuth!ImplementsFifoLock, OAuth!Serializer!Spec
<1>. QED  BY <1>1, <1>2, <1>3, PTL DEF Spec

=============================================================================
