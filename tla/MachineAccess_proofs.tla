------------------------ MODULE MachineAccess_proofs ------------------------
(***************************************************************************)
(* Proofs about MachineAccess for every number of requests and             *)
(* credentials and every value of the lifetimes and of the bounds.         *)
(***************************************************************************)
EXTENDS MachineAccess, TLAPS

Ops == {"none", "use", "issue", "revoke", "lease"}
Row == [op : Ops, pc : {"idle", "auth", "act", "lookup", "sign", "done", "refused"},
        cred : Credentials \union {"none"}, iat : Nat, grant : Grants]

TypeOK ==
  /\ now \in 0..MaxTime /\ changes \in 0..MaxChanges
  /\ active \in [{"agent", "owner"} -> BOOLEAN]
  /\ admin \in [session : BOOLEAN, role : BOOLEAN]
  /\ credential \in [Credentials -> [state : {"none", "live", "revoked"}, expires : Nat]]
  /\ grant \in Grants /\ file \in {"sound", "other"}
  /\ leases \subseteq [grant : Grants, exp : Nat]
  /\ call \in [Calls -> Row]
  /\ held \in [Calls -> BOOLEAN]
  /\ retired \subseteq [grant : Grants, at : Nat]
  /\ disabledAt \in Nat

\* The grant was the entry of a sound file at second t or later.
GrantHeld(g, t) ==
  (g = grant /\ file = "sound") \/ \E x \in retired : x.grant = g /\ t <= x.at
\* So was the owner active.
OwnerHeld(t) == active["owner"] \/ t <= disabledAt

\* Past the lookup, the request of an operation had its authority; a lease under way was
\* asked for on a grant that held then, and is signed only for an owner found active since.
RowSound(x, h) ==
  /\ x.pc \in {"auth", "act"} => x.op \in {"use", "issue", "revoke"}
  /\ x.op = "use" => x.cred \in Credentials
  /\ x.pc \in {"idle", "refused"} <=> x.op = "none"
  /\ x.pc = "act" \/ (x.pc = "done" /\ x.op # "lease") => h
  /\ x.pc \in {"lookup", "sign"} => x.op = "lease" /\ x.iat <= now /\ GrantHeld(x.grant, x.iat)
  /\ x.pc = "sign" => OwnerHeld(x.iat)

\* Every lease has an instant, not in the future, at which its grant was in the file and
\* its owner was active since, and from which its lifetime counts.
LeaseTraced(l) ==
  \E t \in Nat :
    /\ t <= now /\ l.exp <= t + LeaseSeconds /\ l.exp <= l.grant.expires
    /\ GrantHeld(l.grant, t) /\ OwnerHeld(t)

AccessInv ==
  /\ TypeOK /\ disabledAt <= now
  /\ \A r \in Calls : RowSound(call[r], held[r])
  /\ \A l \in leases : LeaseTraced(l)

LEMMA BoundsAreNatural ==
  LeaseSeconds \in Nat /\ MaxGrant \in Nat /\ MaxTime \in Nat /\ MaxChanges \in Nat
BY AccessConstants

LEMMA IdleIsARow ==
  /\ Idle \in Row /\ [Idle EXCEPT !.pc = "refused"] \in Row
  /\ [Idle EXCEPT !.op = "lease", !.pc = "done"] \in Row
  <1>1. Idle.grant \in Grants
    BY BoundsAreNatural DEF Idle, Grants
  <1>2. Idle \in Row
    BY <1>1 DEF Idle, Row, Ops
  <1>3. [Idle EXCEPT !.pc = "refused"] \in Row
    BY <1>2 DEF Row
  <1>4. [Idle EXCEPT !.op = "lease"] \in Row
    BY <1>2 DEF Row, Ops
  <1>5. [[Idle EXCEPT !.op = "lease"] EXCEPT !.pc = "done"] \in Row
    BY <1>4 DEF Row
  <1>. QED
    BY <1>2, <1>3, <1>5

LEMMA AccessStarts == AccessInit => AccessInv
  <1>. SUFFICES ASSUME AccessInit PROVE AccessInv
    OBVIOUS
  <1>1. grant \in Grants
    BY DEF AccessInit
  <1>2. TypeOK
    BY <1>1, BoundsAreNatural, IdleIsARow DEF AccessInit, TypeOK
  <1>3. \A r \in Calls : RowSound(call[r], held[r])
    BY DEF AccessInit, RowSound, Idle
  <1>4. disabledAt <= now /\ \A l \in leases : LeaseTraced(l)
    BY DEF AccessInit
  <1>. QED
    BY <1>2, <1>3, <1>4 DEF AccessInv

-----------------------------------------------------------------------------
(* What was authority or a grant once stays on record.                     *)

LEMMA WorldRemembers ==
  ASSUME TypeOK, disabledAt <= now, [AccessNext]_accessVars
  PROVE  /\ now \in Nat /\ now' \in Nat /\ now <= now'
         /\ disabledAt' \in Nat /\ disabledAt' <= now'
         /\ \A g \in Grants, t \in Nat : t <= now /\ GrantHeld(g, t) => GrantHeld(g, t)'
         /\ \A t \in Nat : t <= now /\ OwnerHeld(t) => OwnerHeld(t)'
  <1>. USE BoundsAreNatural
  <1>0. now \in Nat /\ disabledAt \in Nat
    BY DEF TypeOK
  <1>1. CASE UNCHANGED world
    BY <1>0, <1>1 DEF world, GrantHeld, OwnerHeld
  <1>2. CASE Tick
    BY <1>0, <1>2 DEF Tick, GrantHeld, OwnerHeld
  <1>3. CASE ChangeAccounts
    <2>1. UNCHANGED <<now, grant, file, retired>>
      BY <1>3 DEF ChangeAccounts
    <2>2. \/ active' = active /\ disabledAt' = disabledAt
          \/ active' = [active EXCEPT !["agent"] = ~@] /\ disabledAt' = disabledAt
          \/ disabledAt' = now
      BY <1>3 DEF ChangeAccounts, TypeOK
    <2>3. (active["owner"]' = active["owner"] /\ disabledAt' = disabledAt) \/ disabledAt' = now
      BY <2>2 DEF TypeOK
    <2>. QED
      BY <1>0, <2>1, <2>3 DEF GrantHeld, OwnerHeld
  <1>4. CASE ChangeFile
    <2>1. /\ UNCHANGED <<now, active, disabledAt>>
          /\ retired' = retired \cup {[grant |-> grant, at |-> now]}
      BY <1>4 DEF ChangeFile
    <2>2. \E x \in retired' : x.grant = grant /\ x.at = now
      <3>1. [grant |-> grant, at |-> now] \in retired'
        BY <2>1
      <3>. QED
        BY <3>1
    <2>3. ASSUME NEW g \in Grants, NEW t \in Nat, t <= now, GrantHeld(g, t)
          PROVE  GrantHeld(g, t)'
      BY <2>1, <2>2, <2>3 DEF GrantHeld
    <2>. QED
      BY <1>0, <2>1, <2>3 DEF OwnerHeld
  <1>5. UNCHANGED accessVars => UNCHANGED world
    BY DEF accessVars, world
  <1>6. AccessNext => UNCHANGED world \/ Tick \/ ChangeAccounts \/ ChangeFile
    BY DEF AccessNext, Begin, AskLease, Auth, Use, Issue, Revoke, Lookup, Sign
  <1>. QED
    BY <1>1, <1>2, <1>3, <1>4, <1>5, <1>6

LEMMA LeasesStayTraced ==
  ASSUME AccessInv, [AccessNext]_accessVars, NEW l \in [grant : Grants, exp : Nat], LeaseTraced(l)
  PROVE  LeaseTraced(l)'
  <1>1. PICK t \in Nat : /\ t <= now /\ l.exp <= t + LeaseSeconds /\ l.exp <= l.grant.expires
                         /\ GrantHeld(l.grant, t) /\ OwnerHeld(t)
    BY DEF LeaseTraced
  <1>2. t <= now' /\ GrantHeld(l.grant, t)' /\ OwnerHeld(t)'
    BY <1>1, WorldRemembers DEF AccessInv
  <1>. QED
    BY <1>1, <1>2 DEF LeaseTraced

\* A handler that does not move stays sound.
LEMMA RowStays ==
  ASSUME AccessInv, [AccessNext]_accessVars, NEW x \in Row, NEW h, NEW k, h => k, RowSound(x, h)
  PROVE  RowSound(x, k)'
  <1>1. x.iat \in Nat /\ x.grant \in Grants
    BY DEF Row
  <1>2. x.iat <= now => x.iat <= now'
    BY <1>1, WorldRemembers DEF AccessInv
  <1>. QED
    BY <1>1, <1>2, WorldRemembers DEF AccessInv, RowSound

\* One handler moves, or none.
LEMMA OneMoves ==
  ASSUME AccessInv, [AccessNext]_accessVars, TypeOK',
         NEW r, \A q \in Calls : q # r => call'[q] = call[q],
         \A q \in Calls : held[q] => held'[q],
         r \in Calls => RowSound(call[r], held[r])',
         \A l \in leases' \ leases : LeaseTraced(l)'
  PROVE  AccessInv'
  <1>1. ASSUME NEW q \in Calls, q # r
        PROVE  RowSound(call[q], held[q])'
    <2>1. PICK x \in Row : x = call[q]
      BY DEF AccessInv, TypeOK
    <2>2. PICK h \in BOOLEAN : h = held[q]
      BY DEF AccessInv, TypeOK
    <2>3. PICK k \in BOOLEAN : k = held'[q]
      BY DEF TypeOK
    <2>4. RowSound(x, k)'
      BY <2>1, <2>2, <2>3, RowStays DEF AccessInv
    <2>. QED
      BY <1>1, <2>1, <2>3, <2>4 DEF RowSound, GrantHeld, OwnerHeld
  <1>2. \A l \in leases' : LeaseTraced(l)'
    BY LeasesStayTraced DEF AccessInv, TypeOK
  <1>3. (disabledAt <= now)'
    BY WorldRemembers DEF AccessInv
  <1>. QED
    BY <1>1, <1>2, <1>3 DEF AccessInv

-----------------------------------------------------------------------------
(* The handlers of agents and administrators.                              *)

LEMMA Observed ==
  ASSUME TypeOK, Observe
  PROVE  /\ held' \in [Calls -> BOOLEAN]
         /\ \A q \in Calls : held[q] => held'[q]
         /\ \A q \in Calls : Authority(q)' => held'[q]
BY DEF TypeOK, Observe

LEMMA BeginKeeps ==
  ASSUME AccessInv, NEW r \in Calls, NEW c \in Credentials, NEW op \in {"use", "issue", "revoke"},
         Begin(r, op, c)
  PROVE  AccessInv'
  <1>0. TypeOK /\ [AccessNext]_accessVars
    BY DEF AccessInv, AccessNext
  <1>. DEFINE x == [call[r] EXCEPT !.op = op, !.pc = "auth", !.cred = c]
  <1>1. call[r] \in Row /\ call[r].pc = "idle" /\ call' = [call EXCEPT ![r] = x]
    BY <1>0 DEF Begin, TypeOK
  <1>2. x \in Row /\ x.pc = "auth" /\ x.op = op /\ x.cred = c
    BY <1>1 DEF Row, Ops
  <1>. HIDE DEF x
  <1>20. call' \in [Calls -> Row]
    BY <1>0, <1>1, <1>2 DEF TypeOK
  <1>3. TypeOK'
    BY <1>0, <1>20, Observed DEF Begin, world, TypeOK
  <1>4. call'[r] = x /\ \A q \in Calls : q # r => call'[q] = call[q]
    BY <1>0, <1>1 DEF TypeOK
  <1>5. RowSound(call[r], held[r])'
    BY <1>2, <1>4 DEF RowSound
  <1>. QED
    BY <1>0, <1>3, <1>4, <1>5, Observed, OneMoves DEF Begin

\* A request that goes on to pc, or is refused.
LEMMA Stepped ==
  ASSUME TypeOK, NEW r \in Calls, NEW pc \in {"act", "done", "sign"},
         CallStep(r, pc) \/ Refuse(r)
  PROVE  /\ call' \in [Calls -> Row]
         /\ \A q \in Calls : q # r => call'[q] = call[q]
         /\ CallStep(r, pc) => /\ call'[r].pc = pc /\ call'[r].op = call[r].op
                           /\ call'[r].cred = call[r].cred /\ call'[r].iat = call[r].iat
                           /\ call'[r].grant = call[r].grant
         /\ Refuse(r) => call'[r].pc = "refused" /\ call'[r].op = "none"
  <1>0. call[r] \in Row /\ call \in [Calls -> Row]
    BY DEF TypeOK
  <1>1. ASSUME CallStep(r, pc)
        PROVE  /\ call' \in [Calls -> Row]
               /\ \A q \in Calls : q # r => call'[q] = call[q]
               /\ call'[r].pc = pc /\ call'[r].op = call[r].op
               /\ call'[r].cred = call[r].cred /\ call'[r].iat = call[r].iat
               /\ call'[r].grant = call[r].grant
    <2>1. call' = [call EXCEPT ![r] = [call[r] EXCEPT !.pc = pc]]
      BY <1>0, <1>1 DEF CallStep
    <2>2. [call[r] EXCEPT !.pc = pc] \in Row
      BY <1>0 DEF Row
    <2>. QED
      BY <1>0, <2>1, <2>2 DEF Row
  <1>2. ASSUME Refuse(r)
        PROVE  /\ call' \in [Calls -> Row]
               /\ \A q \in Calls : q # r => call'[q] = call[q]
               /\ call'[r].pc = "refused" /\ call'[r].op = "none"
    <2>1. [Idle EXCEPT !.pc = "refused"].pc = "refused" /\ [Idle EXCEPT !.pc = "refused"].op = "none"
      BY DEF Idle
    <2>. QED
      BY <1>0, <1>2, <2>1, IdleIsARow DEF Refuse
  <1>. QED
    BY <1>1, <1>2

\* Whoever is let through has its authority in that instant.
LEMMA AuthKeeps ==
  ASSUME AccessInv, NEW r \in Calls, Auth(r)
  PROVE  AccessInv'
  <1>0. TypeOK /\ [AccessNext]_accessVars /\ RowSound(call[r], held[r])
    BY DEF AccessInv, AccessNext
  <1>1. CallStep(r, "act") \/ Refuse(r)
    BY DEF Auth
  <1>2. TypeOK'
    BY <1>0, <1>1, Observed, Stepped DEF Auth, world, TypeOK
  <1>3. RowSound(call[r], held[r])'
    <2>1. CASE Refuse(r)
      BY <1>0, <2>1, Stepped DEF RowSound
    <2>2. CASE CallStep(r, "act") /\ ~Refuse(r)
      <3>1. /\ call[r].pc = "auth" /\ call[r].op \in {"use", "issue", "revoke"}
            /\ call'[r].op = call[r].op /\ call'[r].cred = call[r].cred
            /\ call'[r].pc = "act"
        BY <1>0, <2>2, Stepped DEF Auth, RowSound
      <3>2. IF call[r].op = "use" THEN ActiveCredential(call[r].cred) ELSE AdminRow
        BY <2>2 DEF Auth, CredentialAdmitted, AdminAdmitted
      <3>3. Authority(r)'
        BY <3>1, <3>2 DEF Authority, ActiveCredential, AdminRow, Auth, world
      <3>4. held'[r]
        BY <1>0, <3>3, Observed DEF Auth
      <3>. QED
        BY <1>0, <3>1, <3>4 DEF RowSound
    <2>. QED
      BY <1>1, <2>1, <2>2
  <1>. QED
    BY <1>0, <1>1, <1>2, <1>3, Observed, Stepped, OneMoves DEF Auth

LEMMA OperationsKeep ==
  ASSUME AccessInv, NEW r \in Calls, Use(r) \/ Issue(r) \/ Revoke(r)
  PROVE  AccessInv'
  <1>0. /\ TypeOK /\ [AccessNext]_accessVars /\ RowSound(call[r], held[r]) /\ call[r] \in Row
        /\ call[r].pc = "act" /\ (CallStep(r, "done") \/ Refuse(r)) /\ Observe
        /\ UNCHANGED leases /\ UNCHANGED world
    BY DEF AccessInv, TypeOK, AccessNext, Use, Issue, Revoke, In
  <1>1. credential' \in [Credentials -> [state : {"none", "live", "revoked"}, expires : Nat]]
    <2>1. CASE UNCHANGED credential
      BY <1>0, <2>1 DEF TypeOK
    <2>2. CASE Issue(r)
      <3>1. PICK hours \in 1..2 :
              credential' = [credential EXCEPT ![call[r].cred] =
                               [state |-> "live", expires |-> now + hours]]
        BY <2>2 DEF Issue
      <3>2. now + hours \in Nat
        BY <1>0 DEF TypeOK
      <3>. QED
        BY <1>0, <3>1, <3>2 DEF TypeOK
    <2>3. CASE credential' = [credential EXCEPT ![call[r].cred].state = "revoked"]
      BY <1>0, <2>3 DEF TypeOK
    <2>. QED
      BY <2>1, <2>2, <2>3 DEF Use, Revoke
  <1>2. TypeOK'
    BY <1>0, <1>1, Observed, Stepped DEF world, TypeOK
  <1>3. RowSound(call[r], held[r])'
    BY <1>0, Observed, Stepped DEF RowSound
  <1>. QED
    BY <1>0, <1>2, <1>3, Observed, Stepped, OneMoves

-----------------------------------------------------------------------------
(* Leases.                                                                 *)

LEMMA AskKeeps ==
  ASSUME AccessInv, NEW r \in Calls, NEW secret \in 1..2, AskLease(r, secret)
  PROVE  AccessInv'
  <1>0. TypeOK /\ [AccessNext]_accessVars /\ now \in Nat
    BY DEF AccessInv, AccessNext, TypeOK
  <1>1. CASE file = "sound" /\ grant.secret = secret
    <2>1. PICK x \in Row : x = [op |-> "lease", pc |-> "lookup", cred |-> "none", iat |-> now,
         grant |-> grant]
      BY <1>0 DEF Row, Ops, TypeOK
    <2>2. call' = [call EXCEPT ![r] = x]
      BY <1>1, <2>1 DEF AskLease, Idle
    <2>3. call'[r] = x /\ \A q \in Calls : q # r => call'[q] = call[q]
      BY <1>0, <2>2 DEF TypeOK
    <2>4. TypeOK'
      BY <1>0, <2>1, <2>2 DEF AskLease, world, TypeOK
    <2>5. RowSound(call[r], held[r])'
      BY <1>0, <1>1, <2>1, <2>3 DEF RowSound, GrantHeld, AskLease, world
    <2>. QED
      BY <1>0, <2>3, <2>4, <2>5, OneMoves DEF AskLease
  <1>2. CASE ~(file = "sound" /\ grant.secret = secret)
    <2>1. Refuse(r)
      BY <1>2 DEF AskLease
    <2>2. TypeOK'
      BY <1>0, <2>1, Stepped DEF AskLease, world, TypeOK
    <2>3. RowSound(call[r], held[r])'
      BY <1>0, <2>1, Stepped DEF RowSound
    <2>. QED
      BY <1>0, <2>1, <2>2, <2>3, Stepped, OneMoves DEF AskLease
  <1>. QED
    BY <1>1, <1>2

LEMMA LookupKeeps ==
  ASSUME AccessInv, NEW r \in Calls, Lookup(r)
  PROVE  AccessInv'
  <1>0. /\ TypeOK /\ [AccessNext]_accessVars /\ RowSound(call[r], held[r])
        /\ call[r].pc = "lookup" /\ call[r].op = "lease"
        /\ UNCHANGED <<credential, leases, held>> /\ UNCHANGED world
    BY DEF AccessInv, AccessNext, Lookup, In
  <1>1. CallStep(r, "sign") \/ Refuse(r)
    BY DEF Lookup
  <1>2. TypeOK'
    BY <1>0, <1>1, Stepped DEF world, TypeOK
  <1>3. RowSound(call[r], held[r])'
    <2>1. CASE Refuse(r)
      BY <1>0, <2>1, Stepped DEF RowSound
    <2>2. CASE CallStep(r, "sign") /\ ~Refuse(r)
      <3>1. active["owner"]
        BY <2>2 DEF Lookup, Admitted
      <3>. QED
        BY <1>0, <2>2, <3>1, Stepped DEF RowSound, GrantHeld, OwnerHeld, world
    <2>. QED
      BY <1>1, <2>1, <2>2
  <1>. QED
    BY <1>0, <1>1, <1>2, <1>3, Stepped, OneMoves

LEMMA SignKeeps ==
  ASSUME AccessInv, NEW r \in Calls, Sign(r)
  PROVE  AccessInv'
  <1>0. /\ TypeOK /\ [AccessNext]_accessVars /\ RowSound(call[r], held[r]) /\ call[r] \in Row
        /\ call[r].pc = "sign" /\ UNCHANGED <<credential, held>> /\ UNCHANGED world
    BY DEF AccessInv, TypeOK, AccessNext, Sign, In
  <1>. DEFINE t == call[r].iat
              g == call[r].grant
  <1>1. /\ t \in Nat /\ g \in Grants /\ g.expires \in Nat /\ t <= now
        /\ GrantHeld(g, t) /\ OwnerHeld(t)
    BY <1>0, BoundsAreNatural DEF Row, Grants, RowSound
  <1>2. LeaseEnd(r) \in Nat /\ LeaseEnd(r) <= t + LeaseSeconds /\ LeaseEnd(r) <= g.expires
    BY <1>1, BoundsAreNatural DEF LeaseEnd, Earlier
  <1>3. PICK l \in [grant : Grants, exp : Nat] : l = [grant |-> g, exp |-> LeaseEnd(r)]
    BY <1>1, <1>2
  <1>4. leases' = leases \cup {l}
    BY <1>3 DEF Sign
  <1>5. call' = [call EXCEPT ![r] = [Idle EXCEPT !.op = "lease", !.pc = "done"]]
    BY DEF Sign
  <1>6. /\ call' \in [Calls -> Row] /\ call'[r].pc = "done" /\ call'[r].op = "lease"
        /\ \A q \in Calls : q # r => call'[q] = call[q]
    BY <1>0, <1>5, IdleIsARow DEF TypeOK, Idle
  <1>7. TypeOK'
    BY <1>0, <1>4, <1>6 DEF world, TypeOK
  <1>8. LeaseTraced(l)
    BY <1>1, <1>2, <1>3 DEF LeaseTraced
  <1>9. LeaseTraced(l)'
    BY <1>0, <1>8, LeasesStayTraced
  <1>10. RowSound(call[r], held[r])'
    BY <1>6 DEF RowSound
  <1>. QED
    BY <1>0, <1>4, <1>6, <1>7, <1>9, <1>10, OneMoves

-----------------------------------------------------------------------------
(* The world, and the invariant.                                           *)

LEMMA WorldKeeps ==
  ASSUME AccessInv, Tick \/ ChangeAccounts \/ ChangeFile \/ UNCHANGED accessVars
  PROVE  AccessInv'
  <1>. USE BoundsAreNatural
  <1>0. TypeOK /\ [AccessNext]_accessVars /\ UNCHANGED <<credential, leases, call>>
    BY DEF AccessInv, AccessNext, Tick, ChangeAccounts, ChangeFile, accessVars
  <1>1. held' \in [Calls -> BOOLEAN] /\ \A q \in Calls : held[q] => held'[q]
    BY <1>0, Observed DEF Tick, ChangeAccounts, ChangeFile, accessVars, TypeOK
  <1>2. ASSUME Tick PROVE TypeOK'
    BY <1>0, <1>1, <1>2 DEF Tick, TypeOK
  <1>3. ASSUME ChangeAccounts PROVE TypeOK'
    <2>1. changes' \in 0..MaxChanges /\ UNCHANGED <<now, grant, file, retired>>
      BY <1>0, <1>3 DEF ChangeAccounts, Change, TypeOK
    <2>2. disabledAt' \in Nat
      BY <1>0, <1>3 DEF ChangeAccounts, TypeOK
    <2>3. active' \in [{"agent", "owner"} -> BOOLEAN]
      BY <1>0, <1>3 DEF ChangeAccounts, TypeOK
    <2>4. admin' \in [session : BOOLEAN, role : BOOLEAN]
      BY <1>0, <1>3 DEF ChangeAccounts, TypeOK
    <2>. QED
      BY <1>0, <1>1, <2>1, <2>2, <2>3, <2>4 DEF TypeOK
  <1>4. ASSUME ChangeFile PROVE TypeOK'
    <2>1. /\ changes' \in 0..MaxChanges /\ UNCHANGED <<now, active, admin, disabledAt>>
          /\ now \in Nat /\ now <= MaxTime
      BY <1>0, <1>4 DEF ChangeFile, Change, TypeOK
    <2>2. file' \in {"sound", "other"}
      BY <1>0, <1>4 DEF ChangeFile, TypeOK
    <2>20. grant' \in Grants
      <3>0. grant \in Grants
        BY <1>0 DEF TypeOK
      <3>1. 3 - grant.secret \in 1..2 /\ now + MaxGrant \in 0..(MaxTime + MaxGrant)
        BY <2>1, <3>0 DEF Grants
      <3>2. /\ [grant EXCEPT !.enabled = ~grant.enabled] \in Grants
            /\ [grant EXCEPT !.secret = 3 - grant.secret] \in Grants
            /\ [grant EXCEPT !.expires = now + MaxGrant] \in Grants
        BY <3>0, <3>1 DEF Grants
      <3>. QED
        BY <1>4, <3>0, <3>2 DEF ChangeFile
    <2>3. retired' \subseteq [grant : Grants, at : Nat]
      BY <1>0, <1>4, <2>1 DEF ChangeFile, TypeOK
    <2>. QED
      BY <1>0, <1>1, <2>1, <2>2, <2>20, <2>3 DEF TypeOK
  <1>5. ASSUME UNCHANGED accessVars PROVE TypeOK'
    BY <1>0, <1>5 DEF accessVars, TypeOK
  <1>6. TypeOK'
    BY <1>2, <1>3, <1>4, <1>5
  <1>7. \A q \in Calls : call'[q] = call[q]
    BY <1>0
  <1>8. PICK r : r \notin Calls
    BY NoSetContainsEverything
  <1>. QED
    BY <1>0, <1>1, <1>6, <1>7, <1>8, OneMoves

LEMMA AccessStep == AccessInv /\ [AccessNext]_accessVars => AccessInv'
  <1>. SUFFICES ASSUME AccessInv, [AccessNext]_accessVars PROVE AccessInv'
    OBVIOUS
  <1>1. ASSUME NEW r \in Calls,
               \/ \E c \in Credentials : \E op \in {"use", "issue", "revoke"} : Begin(r, op, c)
               \/ \E secret \in 1..2 : AskLease(r, secret)
               \/ Auth(r) \/ Use(r) \/ Issue(r) \/ Revoke(r) \/ Lookup(r) \/ Sign(r)
        PROVE  AccessInv'
    BY <1>1, BeginKeeps, AskKeeps, AuthKeeps, OperationsKeep, LookupKeeps, SignKeeps
  <1>. QED
    BY <1>1, WorldKeeps DEF AccessNext

LEMMA AccessInvHolds == AccessSpec => []AccessInv
  BY AccessStarts, AccessStep, PTL DEF AccessSpec

\* Type correctness: handlers, leases and the records of what was retired.
THEOREM AccessTypeCorrect == AccessSpec => []TypeOK
  BY AccessInvHolds, PTL DEF AccessInv

\* Nothing takes effect for a caller without authority since the request began.
THEOREM OperationsAreAuthorised == AccessSpec => []Authorised
  <1>1. AccessInv => Authorised
    BY DEF AccessInv, RowSound, Authorised
  <1>. QED
    BY <1>1, AccessInvHolds, PTL

\* What a live lease still gives was granted, for an owner who was active, at most
\* lease-seconds ago, and ends with the grant.
THEOREM LeasesEndWithTheirGrant == AccessSpec => []LeaseResidual
  <1>1. ASSUME AccessInv, NEW l \in leases, now < l.exp
        PROVE  /\ \/ l.grant = grant /\ file = "sound"
                  \/ \E x \in retired : x.grant = l.grant /\ now <= x.at + LeaseSeconds
               /\ active["owner"] \/ now <= disabledAt + LeaseSeconds
               /\ now < l.grant.expires
    <2>0. /\ l \in [grant : Grants, exp : Nat] /\ now \in Nat /\ disabledAt \in Nat
          /\ \A x \in retired : x.at \in Nat
      BY <1>1 DEF AccessInv, TypeOK
    <2>1. l.exp \in Nat /\ l.grant.expires \in Nat
      BY <2>0, BoundsAreNatural DEF Grants
    <2>2. PICK t \in Nat : /\ t <= now /\ l.exp <= t + LeaseSeconds /\ l.exp <= l.grant.expires
                           /\ GrantHeld(l.grant, t) /\ OwnerHeld(t)
      BY <1>1 DEF AccessInv, LeaseTraced
    <2>3. now <= t + LeaseSeconds /\ now < l.grant.expires
      BY <1>1, <2>0, <2>1, <2>2, BoundsAreNatural
    <2>4. \A n \in Nat : t <= n => now <= n + LeaseSeconds
      BY <2>0, <2>3, BoundsAreNatural
    <2>. QED
      BY <2>0, <2>2, <2>3, <2>4 DEF GrantHeld, OwnerHeld
  <1>2. AccessInv => LeaseResidual
    BY <1>1 DEF LeaseResidual
  <1>. QED
    BY <1>2, AccessInvHolds, PTL
=============================================================================
