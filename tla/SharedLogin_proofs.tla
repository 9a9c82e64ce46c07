-------------------------- MODULE SharedLogin_proofs --------------------------
(***************************************************************************)
(* Proofs about the shared login: OidcStore, and the two specifications    *)
(* that reach it through its statements, TokenEndpoint and                 *)
(* InteractionConsent.  They hold for every set of actors, sessions,       *)
(* grants and records, every number of concurrent requests, tabs and       *)
(* devices, and every value of the lifetimes.  What the store promises by  *)
(* itself (StoreInv) is proved first, and carried over to the other two by *)
(* showing that each of their steps is a statement of the store.           *)
(***************************************************************************)
EXTENDS TokenEndpoint, InteractionConsent, TLAPS

(* OidcStore: the store by itself.                                         *)

\* A row being inserted is at most a day past its expiry: Tick waits for the commit.
PendingFresh ==
  \A t \in Tokens : Has(pending, t) => clock <= pending[t].expires + Day

\* A session row belongs to an issued digest, and a binding to an issued digest whose
\* row, while it exists, has the same actor and outlives the binding.
BindingsWithinSession ==
  /\ \A s \in Sessions : Has(sessions, s) => s \in issued
  /\ \A g \in Grants : Has(bindings, g) =>
       /\ bindings[g].session \in issued
       /\ Has(sessions, bindings[g].session) =>
            /\ sessions[bindings[g].session].actor = bindings[g].actor
            /\ bindings[g].expires <= sessions[bindings[g].session].expires

StoreInv ==
  /\ StoreTypeOK
  /\ TokensWithinBinding
  /\ PendingFresh
  /\ BindingsWithinSession

LEMMA TypeInit == StoreInit => StoreTypeOK
BY DEF StoreInit, StoreTypeOK, Time

LEMMA KeysOf == Tokens \subseteq Keys /\ Grants \subseteq Keys
BY DEF Keys, Tokens

\* What StoreNext quantifies over is every key.
LEMMA AllKeys == Tokens \union (Codes \union Devices) \union Grants = Keys
  BY DEF Keys

\* What a token upsert would insert is a row, not yet expired, within its parents.
LEMMA SelectedRowFacts ==
  ASSUME StoreTypeOK, NEW g \in Grants, NEW a \in Actors, NEW ttl \in Nat \ {0},
         RootCurrent(g, a)
  PROVE  /\ SelectedRow(g, a, ttl) \in RecordRow
         /\ SelectedRow(g, a, ttl).grant = g
         /\ SelectedRow(g, a, ttl).account = a
         /\ SelectedRow(g, a, ttl).expires > clock
         /\ SelectedRow(g, a, ttl).expires <= bindings[g].expires
  <1>1. bindings[g] \in BindingRow /\ bindings[g].expires > clock
    BY DEF RootCurrent, Live, Has, StoreTypeOK
  <1>2. bindings[g].session \in Sessions
    BY <1>1 DEF BindingRow
  <1>3. /\ sessions[bindings[g].session] \in SessionRow
        /\ sessions[bindings[g].session].expires > clock
        /\ Has(sessions, bindings[g].session)
    BY <1>2 DEF RootCurrent, Live, Has, StoreTypeOK
  <1>. DEFINE b == bindings[g].expires
              s == sessions[bindings[g].session].expires
  <1>4. b \in Nat /\ s \in Nat /\ clock \in Nat
    BY <1>1, <1>3 DEF BindingRow, SessionRow, Time, StoreTypeOK
  <1>5. RootExpiry(g) \in Nat /\ RootExpiry(g) > clock /\ RootExpiry(g) <= b
    BY <1>1, <1>3, <1>4 DEF RootExpiry, Least
  <1>. DEFINE e == Least(clock + ttl, RootExpiry(g))
  <1>6. e \in Nat /\ e > clock /\ e <= b
    BY <1>4, <1>5 DEF Least
  <1>. HIDE DEF e
  <1>7. SelectedRow(g, a, ttl) = NewRow(g, a, e)
    BY DEF SelectedRow, e
  <1>. QED
    BY <1>6, <1>7 DEF NewRow, RecordRow, Time

\* An upsert that meets an existing row keeps that row's evidence and the earlier expiry.
LEMMA MergeFacts ==
  ASSUME NEW old \in RecordRow, NEW new \in RecordRow
  PROVE  /\ Merge(old, new) \in RecordRow
         /\ Merge(old, new).grant = new.grant
         /\ Merge(old, new).account = new.account
         /\ Merge(old, new).expires <= new.expires
         /\ Merge(old, new).expires <= old.expires
         /\ Merge(old, new).consumed = old.consumed
  <1>1. old.expires \in Nat /\ new.expires \in Nat
    BY DEF RecordRow, Time
  <1>2. /\ Least(old.expires, new.expires) \in Nat
        /\ Least(old.expires, new.expires) <= new.expires
        /\ Least(old.expires, new.expires) <= old.expires
    BY <1>1 DEF Least
  <1>. QED
    BY <1>2 DEF Merge, RecordRow, Time

LEMMA OverwriteFacts ==
  ASSUME NEW old \in RecordRow, NEW new \in RecordRow
  PROVE  /\ Overwrite(old, new) \in RecordRow
         /\ Overwrite(old, new).consumed = old.consumed
  BY DEF Overwrite, RecordRow

LEMMA NewRowFacts ==
  ASSUME NEW g \in Grants \union {NoGrant}, NEW a \in Actors \union {NoActor}, NEW e \in Nat
  PROVE  NewRow(g, a, e) \in RecordRow
  BY DEF NewRow, RecordRow, Time

LEMMA TypeStep == StoreTypeOK /\ [StoreNext]_storeVars => StoreTypeOK'
  <1>. SUFFICES ASSUME StoreTypeOK, [StoreNext]_storeVars PROVE StoreTypeOK'
    OBVIOUS
  <1>. USE StoreConstants DEF StoreTypeOK
  <1>1. ASSUME NEW t \in Tokens, NEW g \in Grants, NEW a \in Actors, NEW ttl \in 1..MaxLifetime,
               UpsertSnapshot(t, g, a, ttl)
        PROVE  StoreTypeOK'
    BY <1>1, SelectedRowFacts DEF UpsertSnapshot, UpsertSelects
  <1>2. ASSUME NEW t \in Tokens, UpsertCommit(t) PROVE StoreTypeOK'
    <2>1. t \in Keys /\ pending[t] \in RecordRow
      BY <1>2, KeysOf DEF UpsertCommit
    <2>2. Has(records, t) => Merge(records[t], pending[t]) \in RecordRow
      BY <2>1, MergeFacts DEF Has
    <2>. QED
      BY <1>2, <2>1, <2>2 DEF UpsertCommit
  <1>3. ASSUME NEW k \in Keys, NEW g \in Grants \union {NoGrant}, NEW a \in Actors \union {NoActor},
               NEW ttl \in 1..MaxLifetime, UpsertPlain(k, g, a, ttl)
        PROVE  StoreTypeOK'
    <2>1. clock + ttl \in Nat
      BY DEF Time
    <2>2. NewRow(g, a, clock + ttl) \in RecordRow
      BY <2>1, NewRowFacts
    <2>3. Has(records, k) => /\ Merge(records[k], NewRow(g, a, clock + ttl)) \in RecordRow
                             /\ Overwrite(records[k], NewRow(g, a, clock + ttl)) \in RecordRow
      BY <2>2, MergeFacts, OverwriteFacts DEF Has
    <2>. QED
      BY <1>3, <2>2, <2>3 DEF UpsertPlain
  <1>4. ASSUME NEW k \in Keys, Consume(k) PROVE StoreTypeOK'
    BY <1>4 DEF Consume, Consumable, Live, Has, RecordRow
  <1>5. ASSUME NEW K \in SUBSET Keys, Delete(K) PROVE StoreTypeOK'
    BY <1>5 DEF Delete
  <1>6. ASSUME NEW g \in Grants, NEW a \in Actors, NEW s \in Sessions, BindSession(g, a, s)
        PROVE  StoreTypeOK'
    BY <1>6 DEF BindSession, Bindable, Live, Has, Least, SessionRow, BindingRow, Time
  <1>7. CASE SweepBindings
    BY <1>7 DEF SweepBindings
  <1>8. ASSUME NEW s \in Sessions, Logout(s) PROVE StoreTypeOK'
    BY <1>8 DEF Logout
  <1>9. ASSUME NEW s \in Sessions, NEW a \in Actors, CreateSession(s, a) PROVE StoreTypeOK'
    BY <1>9 DEF CreateSession, SessionRow, Time
  <1>10. ASSUME NEW a \in Actors, SetStatus(a) PROVE StoreTypeOK'
    BY <1>10 DEF SetStatus
  <1>11. CASE Tick
    BY <1>11 DEF Tick, Time
  <1>12. CASE UNCHANGED storeVars
    BY <1>12 DEF storeVars
  <1>13. ASSUME SweepRecords PROVE \E K \in SUBSET Keys : Delete(K)
    BY <1>13 DEF SweepRecords, Reclaimable
  <1>14. ASSUME NEW g \in Grants, RevokeByGrantId(g) \/ RevokeFamily(g)
         PROVE  \E K \in SUBSET Keys : Delete(K)
    BY <1>14, KeysOf DEF RevokeByGrantId, RevokeFamily
  <1>15. ASSUME NEW k \in Keys, Destroy(k) PROVE \E K \in SUBSET Keys : Delete(K)
    BY <1>15 DEF Destroy
  <1>16. ASSUME NEW t \in Tokens, UpsertRollback(t) PROVE StoreTypeOK'
    BY <1>16 DEF UpsertRollback
  <1>. QED
    BY <1>1, <1>2, <1>3, <1>4, <1>5, <1>6, <1>7, <1>8, <1>9, <1>10, <1>11, <1>12, <1>13, <1>14,
       <1>15, <1>16, KeysOf DEF StoreNext, StatementsOn, Keys

\* Type correctness: every reachable state of the store holds well-formed rows.
THEOREM StoreTypeCorrect == StoreSpec => []StoreTypeOK
  <1>. QED
    BY TypeInit, TypeStep, PTL DEF StoreSpec

-----------------------------------------------------------------------------
(* Tokens stay within their binding and their root session.                *)

LEMMA InvInit == StoreInit => StoreInv
  <1>. SUFFICES ASSUME StoreInit PROVE StoreInv
    OBVIOUS
  <1>1. StoreTypeOK
    BY TypeInit
  <1>2. TokensWithinBinding /\ PendingFresh
    BY KeysOf DEF StoreInit, TokensWithinBinding, PendingFresh, Has
  <1>3. BindingsWithinSession
    BY DEF StoreInit, BindingsWithinSession, Has
  <1>. QED
    BY <1>1, <1>2, <1>3 DEF StoreInv

\* Deleting records, by whatever statement, disturbs nothing else.
LEMMA DeleteKeepsInv ==
  ASSUME StoreInv, NEW K \in SUBSET Keys, Delete(K), StoreTypeOK'
  PROVE  StoreInv'
  <1>1. \A k \in Keys : Has(records', k) => Has(records, k) /\ records'[k] = records[k]
    BY DEF Delete, Has
  <1>2. UNCHANGED <<clock, bindings, sessions, issued, pending>>
    BY DEF Delete
  <1>3. TokensWithinBinding'
    BY <1>1, <1>2, KeysOf DEF StoreInv, TokensWithinBinding, WithinBinding, Has
  <1>4. PendingFresh' /\ BindingsWithinSession'
    BY <1>2 DEF StoreInv, PendingFresh, BindingsWithinSession, Has
  <1>. QED
    BY <1>3, <1>4 DEF StoreInv

\* So does writing a record that is not a token.
LEMMA OtherModelKeepsInv ==
  ASSUME StoreInv, NEW k \in Keys \ Tokens, StoreTypeOK',
         \A t \in Tokens : records'[t] = records[t],
         UNCHANGED <<clock, bindings, sessions, issued, pending>>
  PROVE  StoreInv'
  BY DEF StoreInv, TokensWithinBinding, WithinBinding, PendingFresh, BindingsWithinSession, Has

LEMMA InvStep == StoreInv /\ [StoreNext]_storeVars => StoreInv'
  <1>. SUFFICES ASSUME StoreInv, [StoreNext]_storeVars PROVE StoreInv'
    OBVIOUS
  <1>0. StoreTypeOK /\ StoreTypeOK'
    BY TypeStep DEF StoreInv
  <1>. USE StoreConstants
  <1>1. ASSUME NEW t \in Tokens, NEW g \in Grants, NEW a \in Actors, NEW ttl \in 1..MaxLifetime,
               UpsertSnapshot(t, g, a, ttl)
        PROVE  StoreInv'
    <2>. DEFINE new == SelectedRow(g, a, ttl)
    <2>1. RootCurrent(g, a) /\ Has(bindings, g) /\ bindings[g].actor = a
      BY <1>1 DEF UpsertSnapshot, UpsertSelects, RootCurrent, Live
    <2>2. /\ new \in RecordRow /\ new.grant = g /\ new.account = a
          /\ new.expires > clock /\ new.expires <= bindings[g].expires
      BY <1>0, <2>1, SelectedRowFacts
    <2>. HIDE DEF new
    <2>3. /\ pending' = [pending EXCEPT ![t] = new]
          /\ UNCHANGED <<clock, active, sessions, issued, bindings, records>>
      BY <1>1 DEF UpsertSnapshot, new
    <2>4. \A u \in Tokens : pending'[u] = IF u = t THEN new ELSE pending[u]
      BY <1>0, <2>3 DEF StoreTypeOK
    <2>5. TokensWithinBinding'
      BY <2>1, <2>2, <2>3, <2>4 DEF StoreInv, TokensWithinBinding, WithinBinding, Has
    <2>6. clock \in Nat /\ new.expires \in Nat
      BY <1>0, <2>2 DEF StoreTypeOK, RecordRow, Time
    <2>7. clock <= new.expires + Day
      BY <2>2, <2>6
    <2>8. PendingFresh'
      BY <2>3, <2>4, <2>7 DEF StoreInv, PendingFresh, Has
    <2>9. BindingsWithinSession'
      BY <2>3 DEF StoreInv, BindingsWithinSession, Has
    <2>. QED
      BY <1>0, <2>5, <2>8, <2>9 DEF StoreInv
  <1>2. ASSUME NEW t \in Tokens, UpsertCommit(t) PROVE StoreInv'
    <2>. DEFINE row == IF Has(records, t) THEN Merge(records[t], pending[t]) ELSE pending[t]
    <2>1. pending[t] \in RecordRow /\ WithinBinding(pending[t])
      BY <1>0, <1>2 DEF UpsertCommit, StoreTypeOK, StoreInv, TokensWithinBinding, Has
    <2>2. /\ row \in RecordRow /\ row.grant = pending[t].grant
          /\ row.account = pending[t].account /\ row.expires <= pending[t].expires
      <3>1. CASE Has(records, t)
        BY <1>0, <2>1, <3>1, MergeFacts, KeysOf DEF StoreTypeOK, Has
      <3>2. CASE ~Has(records, t)
        BY <2>1, <3>2 DEF RecordRow, Time
      <3>. QED
        BY <3>1, <3>2
    <2>. HIDE DEF row
    <2>3. /\ records' = [records EXCEPT ![t] = row]
          /\ pending' = [pending EXCEPT ![t] = NoRow]
          /\ UNCHANGED <<clock, active, sessions, issued, bindings>>
      BY <1>2 DEF UpsertCommit, row
    <2>4. \A u \in Tokens : /\ records'[u] = IF u = t THEN row ELSE records[u]
                            /\ pending'[u] = IF u = t THEN NoRow ELSE pending[u]
      BY <1>0, <2>3, KeysOf DEF StoreTypeOK
    <2>5. bindings[pending[t].grant].expires \in Nat /\ row.expires \in Nat /\ pending[t].expires \in Nat
      BY <1>0, <2>1, <2>2 DEF WithinBinding, Has, StoreTypeOK, BindingRow, RecordRow, Time
    <2>6. WithinBinding(row)
      BY <2>1, <2>2, <2>5 DEF WithinBinding
    <2>7. TokensWithinBinding'
      BY <2>3, <2>4, <2>6 DEF StoreInv, TokensWithinBinding, WithinBinding, Has
    <2>8. PendingFresh'
      BY <2>3, <2>4 DEF StoreInv, PendingFresh, Has
    <2>9. BindingsWithinSession'
      BY <2>3 DEF StoreInv, BindingsWithinSession, Has
    <2>. QED
      BY <1>0, <2>7, <2>8, <2>9 DEF StoreInv
  <1>3. ASSUME NEW k \in (Codes \union Devices) \union Grants,
               NEW g \in Grants \union {NoGrant}, NEW a \in Actors \union {NoActor},
               NEW ttl \in 1..MaxLifetime, UpsertPlain(k, g, a, ttl)
        PROVE  StoreInv'
    <2>1. k \in Keys \ Tokens
      BY DisjointModels DEF Keys
    <2>2. \A t \in Tokens : records'[t] = records[t]
      BY <1>0, <1>3, <2>1, KeysOf DEF UpsertPlain, StoreTypeOK
    <2>. QED
      BY <1>0, <1>3, <2>1, <2>2, OtherModelKeepsInv DEF UpsertPlain
  <1>4. ASSUME NEW k \in Keys, Consume(k) PROVE StoreInv'
    <2>1. \A t \in Tokens : Has(records', t) =>
            /\ Has(records, t)
            /\ records'[t].grant = records[t].grant
            /\ records'[t].account = records[t].account
            /\ records'[t].expires = records[t].expires
      BY <1>0, <1>4, KeysOf DEF Consume, Consumable, Live, Has, StoreTypeOK, RecordRow
    <2>2. UNCHANGED <<clock, active, bindings, sessions, issued, pending>>
      BY <1>4 DEF Consume
    <2>3. TokensWithinBinding'
      BY <2>1, <2>2 DEF StoreInv, TokensWithinBinding, WithinBinding, Has
    <2>4. PendingFresh' /\ BindingsWithinSession'
      BY <2>2 DEF StoreInv, PendingFresh, BindingsWithinSession, Has
    <2>. QED
      BY <1>0, <2>3, <2>4 DEF StoreInv
  <1>5. ASSUME NEW K \in SUBSET Keys, Delete(K) PROVE StoreInv'
    BY <1>0, <1>5, DeleteKeepsInv
  <1>6. ASSUME NEW g \in Grants, NEW a \in Actors, NEW s \in Sessions, BindSession(g, a, s)
        PROVE  StoreInv'
    <2>1. ~Has(bindings, g) /\ Has(sessions, s) /\ sessions[s].actor = a
      BY <1>6 DEF BindSession, Bindable, Live
    <2>. DEFINE b == [actor |-> a, session |-> s, expires |-> Least(sessions[s].expires, clock + Day)]
    <2>2. /\ bindings' = [bindings EXCEPT ![g] = b]
          /\ UNCHANGED <<clock, active, sessions, issued, records, pending>>
      BY <1>6 DEF BindSession
    <2>3. \A h \in Grants : bindings'[h] = IF h = g THEN b ELSE bindings[h]
      BY <1>0, <2>2 DEF StoreTypeOK
    <2>4. b.actor = a /\ b.session = s /\ b.expires <= sessions[s].expires
      BY <1>0, <2>1 DEF Least, StoreTypeOK, SessionRow, Time, Has
    <2>. HIDE DEF b
    <2>5. \A h \in Grants : Has(bindings, h) => bindings'[h] = bindings[h] /\ Has(bindings', h)
      BY <2>1, <2>3 DEF Has
    <2>6. TokensWithinBinding'
      BY <2>2, <2>5 DEF StoreInv, TokensWithinBinding, WithinBinding, Has
    <2>7. PendingFresh'
      BY <2>2 DEF StoreInv, PendingFresh, Has
    <2>8. BindingsWithinSession'
      BY <2>1, <2>2, <2>3, <2>4 DEF StoreInv, BindingsWithinSession, Has
    <2>. QED
      BY <1>0, <2>6, <2>7, <2>8 DEF StoreInv
  <1>7. CASE SweepBindings
    <2>1. PICK G \in SUBSET Reclaimable(bindings) :
            /\ bindings' = [g \in Grants |-> IF g \in G THEN NoRow ELSE bindings[g]]
            /\ UNCHANGED <<clock, active, sessions, issued, records, pending>>
      BY <1>7 DEF SweepBindings
    <2>2. \A g \in Grants : Has(bindings', g) => g \notin G /\ Has(bindings, g) /\ bindings'[g] = bindings[g]
      BY <2>1 DEF Has
    <2>3. \A g \in G : Has(bindings, g) /\ bindings[g].expires + Day < clock
      BY DEF Reclaimable
    <2>4. ASSUME NEW row \in RecordRow, WithinBinding(row), clock <= row.expires + Day
          PROVE  WithinBinding(row)'
      <3>. DEFINE g == row.grant
      <3>1. g \in Grants /\ Has(bindings, g) /\ row.expires <= bindings[g].expires
        BY <2>4 DEF WithinBinding
      <3>2. bindings[g].expires \in Nat /\ row.expires \in Nat /\ clock \in Nat
        BY <1>0, <3>1 DEF StoreTypeOK, Has, BindingRow, RecordRow, Time
      <3>3. g \notin G
        BY <2>3, <2>4, <3>1, <3>2
      <3>4. bindings'[g] = bindings[g]
        BY <2>1, <3>1, <3>3
      <3>. QED
        BY <2>4, <3>4 DEF WithinBinding, Has
    <2>5. ASSUME NEW t \in Tokens, Has(pending, t) PROVE WithinBinding(pending[t])'
      <3>1. pending[t] \in RecordRow /\ WithinBinding(pending[t]) /\ clock <= pending[t].expires + Day
        BY <1>0, <2>5 DEF StoreInv, StoreTypeOK, TokensWithinBinding, PendingFresh, Has
      <3>2. pending'[t] = pending[t]
        BY <2>1
      <3>. QED
        BY <2>1, <2>4, <3>1, <3>2 DEF WithinBinding, Has
    <2>6. ASSUME NEW t \in Tokens, Has(records, t), clock <= records[t].expires + Day
          PROVE  WithinBinding(records[t])'
      <3>1. records[t] \in RecordRow /\ WithinBinding(records[t])
        BY <1>0, <2>6, KeysOf DEF StoreInv, StoreTypeOK, TokensWithinBinding, Has
      <3>. QED
        BY <2>1, <2>4, <2>6, <3>1 DEF WithinBinding, Has
    <2>7. TokensWithinBinding'
      BY <2>1, <2>5, <2>6 DEF TokensWithinBinding, WithinBinding, Has
    <2>8. PendingFresh'
      BY <2>1 DEF StoreInv, PendingFresh, Has
    <2>9. BindingsWithinSession'
      BY <2>1, <2>2 DEF StoreInv, BindingsWithinSession, Has
    <2>. QED
      BY <1>0, <2>7, <2>8, <2>9 DEF StoreInv
  <1>8. ASSUME NEW s \in Sessions, Logout(s) PROVE StoreInv'
    <2>1. /\ \A r \in Sessions : Has(sessions', r) => Has(sessions, r) /\ sessions'[r] = sessions[r]
          /\ UNCHANGED <<clock, active, issued, bindings, records, pending>>
      BY <1>0, <1>8 DEF Logout, Has, StoreTypeOK
    <2>2. TokensWithinBinding' /\ PendingFresh'
      BY <2>1 DEF StoreInv, TokensWithinBinding, PendingFresh, WithinBinding, Has
    <2>3. BindingsWithinSession'
      BY <1>0, <2>1 DEF StoreInv, BindingsWithinSession, Has, StoreTypeOK, BindingRow
    <2>. QED
      BY <1>0, <2>2, <2>3 DEF StoreInv
  <1>9. ASSUME NEW s \in Sessions, NEW a \in Actors, CreateSession(s, a) PROVE StoreInv'
    <2>1. /\ s \notin issued /\ issued' = issued \union {s}
          /\ \A r \in Sessions : r # s => sessions'[r] = sessions[r]
          /\ UNCHANGED <<clock, active, bindings, records, pending>>
      BY <1>0, <1>9 DEF CreateSession, StoreTypeOK
    <2>2. TokensWithinBinding' /\ PendingFresh'
      BY <2>1 DEF StoreInv, TokensWithinBinding, PendingFresh, WithinBinding, Has
    <2>3. BindingsWithinSession'
      BY <1>0, <2>1 DEF StoreInv, BindingsWithinSession, Has, StoreTypeOK, BindingRow
    <2>. QED
      BY <1>0, <2>2, <2>3 DEF StoreInv
  <1>10. ASSUME NEW a \in Actors, SetStatus(a) PROVE StoreInv'
    BY <1>0, <1>10 DEF SetStatus, StoreInv, TokensWithinBinding, PendingFresh, WithinBinding,
                       BindingsWithinSession, Has
  <1>11. CASE Tick
    <2>1. /\ clock' = clock + 1
          /\ \A t \in Tokens : Has(pending, t) => clock < pending[t].expires + Day
          /\ UNCHANGED <<active, sessions, issued, bindings, records, pending>>
      BY <1>11 DEF Tick
    <2>2. \A t \in Tokens : Has(records, t) => records[t].expires \in Nat
      BY <1>0, KeysOf DEF StoreTypeOK, Has, RecordRow, Time
    <2>3. \A t \in Tokens : Has(pending, t) => pending[t].expires \in Nat
      BY <1>0 DEF StoreTypeOK, Has, RecordRow, Time
    <2>4. clock \in Nat
      BY <1>0 DEF StoreTypeOK, Time
    <2>5. \A t \in Tokens : Has(records, t) /\ clock' <= records[t].expires + Day
                              => clock <= records[t].expires + Day
      BY <2>1, <2>2, <2>4
    <2>6. TokensWithinBinding'
      BY <2>1, <2>5 DEF StoreInv, TokensWithinBinding, WithinBinding, Has
    <2>7. \A t \in Tokens : Has(pending, t) => clock + 1 <= pending[t].expires + Day
      BY <2>1, <2>3, <2>4
    <2>8. PendingFresh'
      BY <2>1, <2>7 DEF PendingFresh, Has
    <2>9. BindingsWithinSession'
      BY <2>1 DEF StoreInv, BindingsWithinSession, Has
    <2>. QED
      BY <1>0, <2>6, <2>8, <2>9 DEF StoreInv
  <1>12. CASE UNCHANGED storeVars
    BY <1>0, <1>12 DEF storeVars, StoreInv, TokensWithinBinding, PendingFresh, WithinBinding,
                       BindingsWithinSession, Has
  <1>13. ASSUME SweepRecords PROVE \E K \in SUBSET Keys : Delete(K)
    BY <1>0, <1>13 DEF SweepRecords, Reclaimable, StoreTypeOK
  <1>14. ASSUME NEW g \in Grants, RevokeByGrantId(g) \/ RevokeFamily(g)
         PROVE  \E K \in SUBSET Keys : Delete(K)
    BY <1>14, KeysOf DEF RevokeByGrantId, RevokeFamily
  <1>15. ASSUME NEW k \in Keys, Destroy(k) PROVE \E K \in SUBSET Keys : Delete(K)
    BY <1>15 DEF Destroy
  <1>16. ASSUME NEW t \in Tokens, UpsertRollback(t) PROVE StoreInv'
    <2>1. /\ \A u \in Tokens : Has(pending', u) => Has(pending, u) /\ pending'[u] = pending[u]
          /\ UNCHANGED <<clock, active, sessions, issued, bindings, records>>
      BY <1>0, <1>16 DEF UpsertRollback, Has, StoreTypeOK
    <2>2. TokensWithinBinding' /\ PendingFresh' /\ BindingsWithinSession'
      BY <2>1 DEF StoreInv, TokensWithinBinding, PendingFresh, WithinBinding,
                  BindingsWithinSession, Has
    <2>. QED
      BY <1>0, <2>2 DEF StoreInv
  <1>. QED
    BY <1>1, <1>2, <1>3, <1>4, <1>5, <1>6, <1>7, <1>8, <1>9, <1>10, <1>11, <1>12, <1>13, <1>14,
       <1>15, <1>16, AllKeys DEF StoreNext, StatementsOn

LEMMA InvHolds == StoreSpec => []StoreInv
  BY InvInit, InvStep, PTL DEF StoreSpec

\* A token whose evidence still counts is always backed by its binding row and never
\* outlives it, whatever the engine calls and however the two sweeps interleave.
THEOREM TokensStayWithinBinding == StoreSpec => []TokensWithinBinding
  BY InvHolds, PTL DEF StoreInv

LEMMA RootFromInv == StoreInv => TokensWithinRoot
  <1>. SUFFICES ASSUME StoreInv, NEW t \in Tokens, Has(records, t),
                       clock <= records[t].expires + Day,
                       Has(sessions, bindings[records[t].grant].session)
                PROVE  /\ records[t].expires <= sessions[bindings[records[t].grant].session].expires
                       /\ sessions[bindings[records[t].grant].session].actor = records[t].account
    BY DEF TokensWithinRoot
  <1>. DEFINE g == records[t].grant
              s == bindings[g].session
  <1>1. /\ g \in Grants /\ Has(bindings, g) /\ bindings[g].actor = records[t].account
        /\ records[t].expires <= bindings[g].expires
    BY DEF StoreInv, TokensWithinBinding, WithinBinding
  <1>2. sessions[s].actor = bindings[g].actor /\ bindings[g].expires <= sessions[s].expires
    BY <1>1 DEF StoreInv, BindingsWithinSession
  <1>3. s \in Sessions /\ bindings[g].expires \in Nat
    BY <1>1 DEF StoreInv, StoreTypeOK, Has, BindingRow, Time
  <1>4. sessions[s].expires \in Nat /\ records[t].expires \in Nat
    BY <1>3, KeysOf DEF StoreInv, StoreTypeOK, Has, SessionRow, RecordRow, Time
  <1>. QED
    BY <1>1, <1>2, <1>3, <1>4

\* No token outlives the root session it was issued under: renewal never extends a sign-in.
THEOREM TokensStayWithinRoot == StoreSpec => []TokensWithinRoot
  BY InvHolds, RootFromInv, PTL

-----------------------------------------------------------------------------
(* What a statement may never do.                                          *)

\* Bindings change only by binding an unbound grant or by sweeping a reclaimable one.
LEMMA BindingStep ==
  ASSUME StoreTypeOK, [StoreNext]_storeVars
  PROVE  \/ UNCHANGED bindings
         \/ \E g \in Grants, a \in Actors, s \in Sessions : BindSession(g, a, s)
         \/ SweepBindings
  BY DEF StoreNext, StatementsOn, storeVars, UpsertSnapshot, UpsertCommit, UpsertRollback, UpsertPlain, Consume, Destroy,
         RevokeByGrantId, RevokeFamily, Delete, SweepRecords, CreateSession, Logout, SetStatus, Tick

LEMMA BindingKept ==
  ASSUME StoreTypeOK, [StoreNext]_storeVars, NEW g \in Grants, Has(bindings, g)
  PROVE  \/ bindings'[g] = bindings[g]
         \/ bindings'[g] = NoRow /\ bindings[g].expires + Day < clock
  <1>1. CASE UNCHANGED bindings
    BY <1>1
  <1>2. ASSUME NEW h \in Grants, NEW a \in Actors, NEW s \in Sessions, BindSession(h, a, s)
        PROVE  bindings'[g] = bindings[g]
    BY <1>2 DEF BindSession, Bindable, StoreTypeOK
  <1>3. CASE SweepBindings
    BY <1>3 DEF SweepBindings, Reclaimable
  <1>. QED
    BY <1>1, <1>2, <1>3, BindingStep

\* "Never rebind an existing grant": a binding is immutable until it is reclaimed.
THEOREM BindingsAreImmutable == StoreSpec => BindingImmutable
  <1>1. StoreTypeOK /\ [StoreNext]_storeVars =>
          [\A g \in Grants : Has(bindings, g) =>
             \/ bindings'[g] = bindings[g]
             \/ bindings'[g] = NoRow /\ bindings[g].expires + Day < clock]_storeVars
    BY BindingKept
  <1>. QED
    BY <1>1, StoreTypeCorrect, PTL DEF StoreSpec, BindingImmutable

\* A session row appears only for a digest that was never issued, and never otherwise changes
\* except by leaving the table.
LEMMA SessionStep ==
  ASSUME StoreTypeOK, [StoreNext]_storeVars, NEW s \in issued \cap Sessions
  PROVE  sessions'[s] = sessions[s] \/ sessions'[s] = NoRow
  <1>1. ASSUME NEW r \in Sessions, NEW a \in Actors, CreateSession(r, a)
        PROVE  sessions'[s] = sessions[s]
    BY <1>1 DEF CreateSession, StoreTypeOK
  <1>2. ASSUME NEW r \in Sessions, Logout(r)
        PROVE  sessions'[s] = sessions[s] \/ sessions'[s] = NoRow
    BY <1>2 DEF Logout, StoreTypeOK
  <1>3. \/ UNCHANGED sessions
        \/ \E r \in Sessions, a \in Actors : CreateSession(r, a)
        \/ \E r \in Sessions : Logout(r)
    BY DEF StoreNext, StatementsOn, storeVars, UpsertSnapshot, UpsertCommit, UpsertRollback, UpsertPlain, Consume, Destroy,
           RevokeByGrantId, RevokeFamily, Delete, SweepRecords, SweepBindings, BindSession,
           SetStatus, Tick
  <1>. QED
    BY <1>1, <1>2, <1>3

LEMMA ClockStep ==
  ASSUME StoreTypeOK, [StoreNext]_storeVars
  PROVE  clock \in Nat /\ clock' \in Nat /\ clock <= clock'
  BY DEF StoreNext, StatementsOn, storeVars, UpsertSnapshot, UpsertCommit, UpsertRollback, UpsertPlain, Consume, Destroy,
         RevokeByGrantId, RevokeFamily, Delete, SweepRecords, SweepBindings, BindSession,
         CreateSession, Logout, SetStatus, Tick, StoreTypeOK, Time

\* A grant whose root session has ended is never current again.
THEOREM LogoutsAreFinal == StoreSpec => LogoutIsFinal
  <1>1. ASSUME StoreInv, [StoreNext]_storeVars, NEW g \in Grants, NEW a \in Actors,
               Has(bindings, g), ~Live(sessions, bindings[g].session)
        PROVE  ~RootCurrent(g, a)'
    <2>. DEFINE s == bindings[g].session
    <2>0. StoreTypeOK /\ StoreTypeOK'
      BY <1>1, TypeStep DEF StoreInv
    <2>1. s \in Sessions /\ s \in issued
      BY <1>1, <2>0 DEF StoreInv, BindingsWithinSession, StoreTypeOK, Has, BindingRow
    <2>2. CASE bindings'[g] = NoRow
      BY <2>2 DEF RootCurrent, Live, Has
    <2>3. CASE bindings'[g] = bindings[g]
      <3>1. ~Live(sessions, s)'
        <4>1. CASE sessions[s] = NoRow
          BY <1>1, <2>0, <2>1, <2>3, <4>1, SessionStep DEF Live, Has
        <4>2. CASE sessions[s] # NoRow
          <5>1. sessions[s].expires \in Nat /\ ~(sessions[s].expires > clock)
            BY <1>1, <2>0, <2>1, <4>2 DEF Live, Has, StoreTypeOK, SessionRow, Time
          <5>2. ~(sessions[s].expires > clock')
            BY <1>1, <2>0, <5>1, ClockStep
          <5>. QED
            BY <1>1, <2>0, <2>1, <2>3, <5>2, SessionStep DEF Live, Has
        <4>. QED
          BY <4>1, <4>2
      <3>. QED
        BY <2>3, <3>1 DEF RootCurrent, Live, Has
    <2>. QED
      BY <1>1, <2>0, <2>2, <2>3, BindingKept
  <1>2. StoreInv /\ [StoreNext]_storeVars =>
          [\A g \in Grants, a \in Actors :
             Has(bindings, g) /\ ~Live(sessions, bindings[g].session)
               => ~RootCurrent(g, a)']_storeVars
    BY <1>1
  <1>. QED
    BY <1>2, InvHolds, PTL DEF StoreSpec, LogoutIsFinal

\* Rewriting a record keeps its consumption mark and never postpones a token's expiry.
THEOREM EvidenceIsKept == StoreSpec => EvidenceKept
  <1>1. ASSUME StoreTypeOK, [StoreNext]_storeVars, NEW k \in Keys, Has(records, k),
               records'[k] # NoRow
        PROVE  /\ records[k].consumed => records'[k].consumed
               /\ k \in Tokens \union Devices => records'[k].expires <= records[k].expires
    <2>. DEFINE Kept == /\ records[k].consumed => records'[k].consumed
                        /\ k \in Tokens \union Devices => records'[k].expires <= records[k].expires
    <2>0. records[k] \in RecordRow /\ records[k].expires \in Nat
      BY <1>1 DEF StoreTypeOK, Has, RecordRow, Time
    <2>1. CASE records'[k] = records[k]
      BY <2>0, <2>1
    <2>2. ASSUME NEW t \in Tokens, UpsertCommit(t) PROVE Kept
      <3>1. pending[t] \in RecordRow
        BY <1>1, <2>2 DEF UpsertCommit, StoreTypeOK
      <3>2. k # t => records'[k] = records[k]
        BY <1>1, <2>2 DEF UpsertCommit, StoreTypeOK
      <3>3. k = t => records'[k] = Merge(records[k], pending[t])
        BY <1>1, <2>2 DEF UpsertCommit, StoreTypeOK
      <3>. QED
        BY <2>0, <3>1, <3>2, <3>3, MergeFacts
    <2>3. ASSUME NEW j \in (Codes \union Devices) \union Grants, NEW g \in Grants \union {NoGrant},
                 NEW a \in Actors \union {NoActor}, NEW ttl \in 1..MaxLifetime,
                 UpsertPlain(j, g, a, ttl)
          PROVE  Kept
      <3>. DEFINE new == NewRow(g, a, clock + ttl)
      <3>0. clock + ttl \in Nat
        BY <1>1, StoreConstants DEF StoreTypeOK, Time
      <3>1. new \in RecordRow
        BY <3>0, NewRowFacts
      <3>2. j # k => records'[k] = records[k]
        BY <1>1, <2>3 DEF UpsertPlain, StoreTypeOK
      <3>3. j = k /\ k \in Devices => records'[k] = Merge(records[k], new)
        BY <1>1, <2>3 DEF UpsertPlain, StoreTypeOK
      <3>4. j = k /\ k \notin Devices => records'[k] = Overwrite(records[k], new)
        BY <1>1, <2>3 DEF UpsertPlain, StoreTypeOK
      <3>5. j \notin Tokens
        BY DisjointModels
      <3>. QED
        BY <2>0, <3>1, <3>2, <3>3, <3>4, <3>5, MergeFacts, OverwriteFacts
    <2>4. ASSUME NEW j \in Keys, Consume(j) PROVE Kept
      BY <1>1, <2>0, <2>4 DEF Consume, Consumable, Live, Has, StoreTypeOK, RecordRow
    <2>5. ASSUME NEW K \in SUBSET Keys, Delete(K) PROVE records'[k] = records[k]
      BY <1>1, <2>5 DEF Delete
    <2>6. \/ UNCHANGED records
          \/ \E t \in Tokens : UpsertCommit(t)
          \/ \E j \in (Codes \union Devices) \union Grants, g \in Grants \union {NoGrant},
               a \in Actors \union {NoActor}, ttl \in 1..MaxLifetime : UpsertPlain(j, g, a, ttl)
          \/ \E j \in Keys : Consume(j)
          \/ \E K \in SUBSET Keys : Delete(K)
      BY <1>1, KeysOf, AllKeys DEF StoreNext, StatementsOn, storeVars, UpsertSnapshot, UpsertRollback, Destroy, RevokeByGrantId,
         RevokeFamily, SweepRecords, Reclaimable, StoreTypeOK, SweepBindings, BindSession,
         CreateSession, Logout, SetStatus, Tick
    <2>. QED
      BY <2>1, <2>2, <2>3, <2>4, <2>5, <2>6
  <1>2. StoreTypeOK /\ [StoreNext]_storeVars =>
          [\A k \in Keys : Has(records, k) /\ records'[k] # NoRow =>
             /\ records[k].consumed => records'[k].consumed
             /\ k \in Tokens \union Devices => records'[k].expires <= records[k].expires]_storeVars
    BY <1>1
  <1>. QED
    BY <1>2, StoreTypeCorrect, PTL DEF StoreSpec, EvidenceKept

-----------------------------------------------------------------------------
-----------------------------------------------------------------------------
(* TokenEndpoint: concurrent requests for codes and refresh tokens.        *)

\* A key that was consumed is gone or says so.
Spent(k) == Has(records, k) => records[k].consumed

RowSound(x) ==
  /\ x.pc = "idle" => x = Idle
  /\ x.pc \in InFlight \/ x.won \/ x.detected \/ x.late =>
       x.key \in Redeemable /\ x.grant \in Grants /\ x.account \in Actors
  /\ (x.pc = "accessInsert" => x.access # NoKey) /\ (x.pc = "refreshInsert" => x.refresh # NoKey)
  /\ x.won => Spent(x.key)
  /\ x.late => FamilyEnded(x.grant) /\ x.pc \notin {"accessInsert", "refreshInsert", "ok"}
  /\ x.pc \in {"found", "granted", "rooted"} => ~x.won
  /\ x.detected => x.pc \in {"replay", "refused", "crashed"}
  /\ x.pc = "refused" /\ (x.detected \/ (x.won /\ x.key \notin Codes)) => ~Has(records, x.grant)

\* Codes and tokens belong to a grant and an actor, whether committed or not.
FamilyRow(row) == row.grant \in Grants /\ row.account \in Actors
FamilyRows ==
  /\ \A k \in Codes \union Tokens : Has(records, k) => FamilyRow(records[k])
  /\ \A t \in Tokens : Has(pending, t) => FamilyRow(pending[t])

\* Clients present what they were given; a token id is minted for one request, and the
\* insert of a token belongs to the request that minted it, alive or not.
Inserting(x, t) ==
  \/ x.access = t /\ x.pc \in {"accessInsert", "crashed"}
  \/ x.refresh = t /\ x.pc \in {"refreshInsert", "crashed"}
Minting ==
  /\ \A r \in Requests : req[r].key \in Known \union {NoKey}
  /\ \A r \in Requests : req[r].refresh # NoKey =>
        /\ req[r].refresh \notin FirstRefresh
        /\ \A q \in Requests : req[q].refresh = req[r].refresh => q = r
  /\ \A t \in Tokens : Has(pending, t) => \E r \in Requests : Inserting(req[r], t)

EndpointInv ==
  /\ EndpointTypeOK /\ FamilyRows /\ Minting
  /\ \A r \in Requests : RowSound(req[r])
  /\ RedeemedOnce

-----------------------------------------------------------------------------
(* The steps of requests are statements of the store.                      *)

LEMMA EndpointKeys ==
  /\ Codes \subseteq Keys /\ Tokens \subseteq Keys /\ Grants \subseteq Keys
  /\ RefreshTokens \subseteq Tokens /\ AccessTokens \subseteq Tokens
  /\ RefreshTokens \cap AccessTokens = {} /\ Tokens \cap Grants = {} /\ Codes \cap Grants = {}
  /\ Codes \cap Tokens = {} /\ NoKey \notin Keys /\ FirstRefresh \subseteq RefreshTokens
  /\ Redeemable = Codes \union RefreshTokens /\ NoGrant \notin Grants /\ NoActor \notin Actors
  /\ NoRow \notin RecordRow
BY DisjointModels, EndpointConstants, NoRowIsNoRow, NoRowIsNotARow DEF Keys, Tokens, Redeemable

LEMMA RowFields ==
  ASSUME EndpointTypeOK, NEW r \in Requests
  PROVE  /\ req[r] \in Request
         /\ req[r].pc \in {"idle"} \union InFlight \union Ended
         /\ req[r].key \in Redeemable \union {NoKey}
         /\ req[r].grant \in Grants \union {NoGrant} /\ req[r].account \in Actors \union {NoActor}
         /\ req[r].consumed \in BOOLEAN /\ req[r].won \in BOOLEAN
         /\ req[r].detected \in BOOLEAN /\ req[r].late \in BOOLEAN
         /\ req[r].refresh \in RefreshTokens \union {NoKey}
         /\ req[r].access \in AccessTokens \union {NoKey}
BY DEF EndpointTypeOK, Request

\* Whatever a request does to the store is one of these statements: no request binds a
\* grant, creates a session or writes a Grant record.
Statement ==
  \/ UNCHANGED storeVars
  \/ \E t \in Tokens, g \in Grants, a \in Actors, ttl \in 1..MaxLifetime :
       UpsertSnapshot(t, g, a, ttl)
  \/ \E t \in Tokens : UpsertCommit(t) \/ UpsertRollback(t)
  \/ \E k \in Keys : Consume(k) \/ Destroy(k)
  \/ \E g \in Grants : RevokeByGrantId(g) \/ RevokeFamily(g)
  \/ SweepRecords \/ SweepBindings \/ Tick
  \/ \E s \in Sessions : Logout(s)
  \/ \E a \in Actors : SetStatus(a)

LEMMA StepIsStatement ==
  ASSUME EndpointInv, [EndpointNext]_vars
  PROVE  Statement
  <1>. USE DEF EndpointInv
  <1>0. StoreTypeOK
    BY DEF EndpointTypeOK
  <1>1. ASSUME NEW r \in Requests, req[r].pc \in InFlight
        PROVE  req[r].grant \in Grants /\ req[r].account \in Actors /\ req[r].key \in Keys
    BY <1>1, EndpointKeys DEF RowSound
  <1>2. ASSUME NEW r \in Requests, DestroyGrant(r) PROVE Statement
    <2>. DEFINE g == req[r].grant
    <2>1. g \in Keys /\ Delete({g})
      BY <1>1, <1>2, EndpointKeys DEF DestroyGrant, InFlight
    <2>2. CASE Has(records, g)
      BY <2>1, <2>2 DEF Statement, Destroy
    <2>3. CASE ~Has(records, g)
      <3>1. records' = records
        BY <1>0, <2>1, <2>3 DEF Delete, Has, StoreTypeOK
      <3>. QED
        BY <2>1, <3>1 DEF Delete, storeVars, Statement
    <2>. QED
      BY <2>2, <2>3
  <1>3. ASSUME NEW r \in Requests, InsertAccess(r) \/ InsertRefresh(r) PROVE Statement
    <2>1. req[r].pc \in InFlight
      BY <1>3 DEF InsertAccess, InsertRefresh, InFlight
    <2>2. PICK t \in Tokens : UpsertSnapshot(t, req[r].grant, req[r].account, TtlLeft(r))
      BY <1>3, EndpointKeys DEF InsertAccess, InsertRefresh
    <2>3. TtlLeft(r) \in 1..MaxLifetime
      BY <2>2 DEF UpsertSnapshot
    <2>. QED
      BY <1>1, <2>1, <2>2, <2>3 DEF Statement
  <1>4. ASSUME NEW r \in Requests, CommitAccess(r) \/ CommitRefresh(r) PROVE Statement
    <2>1. req[r].pc = "accessInsert" => req[r].access \in Tokens
      BY RowFields, EndpointKeys DEF RowSound
    <2>2. req[r].pc = "refreshInsert" => req[r].refresh \in Tokens
      BY RowFields, EndpointKeys DEF RowSound
    <2>. QED
      BY <1>4, <2>1, <2>2 DEF CommitAccess, CommitRefresh, Statement
  <1>5. ASSUME NEW r \in Requests, Redeem(r) PROVE Statement
    <2>1. req[r].pc \in InFlight
      BY <1>5 DEF Redeem, AtRedemption, InFlight
    <2>. QED
      BY <1>1, <1>5, <2>1 DEF Redeem, Statement
  <1>6. ASSUME NEW r \in Requests, DetectReplay(r) \/ Revoke(r) PROVE Statement
    <2>1. req[r].pc \in InFlight
      BY <1>6 DEF DetectReplay, AtRedemption, Revoke, InFlight
    <2>. QED
      BY <1>1, <1>6, <2>1 DEF DetectReplay, Revoke, Statement
  <1>7. ASSUME NEW r \in Requests,
               \/ \E k \in Redeemable : Begin(r, k)
               \/ CheckGrant(r) \/ FindAccount(r) \/ FailSave(r) \/ FailRevoke(r)
        PROVE  Statement
    BY <1>7 DEF Begin, CheckGrant, FindAccount, Refuse, FailSave, FailRevoke, Statement
  <1>8. ASSUME NEW t \in Tokens, FinishOrphan(t) \/ AbortOrphan(t) PROVE Statement
    BY <1>8 DEF FinishOrphan, AbortOrphan, Statement
  <1>9. CASE Crash \/ Environment \/ UNCHANGED vars
    BY <1>9 DEF Crash, Environment, vars, Statement
  <1>. QED
    BY <1>2, <1>3, <1>4, <1>5, <1>6, <1>7, <1>8, <1>9 DEF EndpointNext

LEMMA StatementIsStoreStep ==
  ASSUME Statement
  PROVE  [StoreNext]_storeVars
BY AllKeys DEF Statement, StoreNext, StatementsOn

\* What ended stays ended, and what was consumed or deleted stays so unless its insert is
\* still open.
LEMMA Monotone ==
  ASSUME StoreTypeOK, Statement
  PROVE  /\ clock \in Nat /\ clock' \in Nat /\ clock <= clock'
         /\ \A s \in Sessions : sessions'[s] \in {sessions[s], NoRow}
         /\ \A g \in Grants : bindings'[g] \in {bindings[g], NoRow}
         /\ \A k \in Keys :
              \/ records'[k] = records[k] \/ records'[k] = NoRow
              \/ k \in Tokens /\ Has(pending, k)
              \/ Has(records, k) /\ records'[k] = [records[k] EXCEPT !.consumed = TRUE]
  <1>. USE DEF Has
  <1>1. clock \in Nat /\ clock' \in Nat /\ clock <= clock'
    BY StatementIsStoreStep, ClockStep
  <1>2. \A s \in Sessions : sessions'[s] \in {sessions[s], NoRow}
    BY DEF Statement, storeVars, UpsertSnapshot, UpsertCommit, UpsertRollback, Consume, Destroy,
           RevokeByGrantId, RevokeFamily, Delete, SweepRecords, SweepBindings, Logout, SetStatus,
           Tick, StoreTypeOK
  <1>3. \A g \in Grants : bindings'[g] \in {bindings[g], NoRow}
    BY DEF Statement, storeVars, UpsertSnapshot, UpsertCommit, UpsertRollback, Consume, Destroy,
           RevokeByGrantId, RevokeFamily, Delete, SweepRecords, SweepBindings, Logout, SetStatus,
           Tick, StoreTypeOK
  <1>4. ASSUME NEW k \in Keys
        PROVE  \/ records'[k] = records[k] \/ records'[k] = NoRow
               \/ k \in Tokens /\ Has(pending, k)
               \/ Has(records, k) /\ records'[k] = [records[k] EXCEPT !.consumed = TRUE]
    <2>1. ASSUME NEW t \in Tokens, UpsertCommit(t)
          PROVE  records'[k] = records[k] \/ (k = t /\ Has(pending, t))
      BY <2>1 DEF UpsertCommit, StoreTypeOK
    <2>2. ASSUME NEW j \in Keys, Consume(j)
          PROVE  \/ records'[k] = records[k]
                 \/ Has(records, k) /\ records'[k] = [records[k] EXCEPT !.consumed = TRUE]
      BY <2>2 DEF Consume, Consumable, Live, StoreTypeOK
    <2>3. ASSUME NEW K, Delete(K) PROVE records'[k] = records[k] \/ records'[k] = NoRow
      BY <2>3 DEF Delete
    <2>4. \/ UNCHANGED records
          \/ \E t \in Tokens : UpsertCommit(t)
          \/ \E j \in Keys : Consume(j)
          \/ \E K : Delete(K)
      BY DEF Statement, storeVars, UpsertSnapshot, UpsertRollback, Destroy, RevokeByGrantId,
             RevokeFamily, SweepRecords, SweepBindings, Logout, SetStatus, Tick
    <2>. QED
      BY <2>1, <2>2, <2>3, <2>4
  <1>. QED
    BY <1>1, <1>2, <1>3, <1>4

LEMMA FamilyStaysEnded ==
  ASSUME StoreTypeOK, Statement, NEW g \in Grants, FamilyEnded(g)
  PROVE  FamilyEnded(g)'
  <1>. USE DEF Has, Live
  <1>1. CASE records[g] = NoRow
    BY <1>1, Monotone, EndpointKeys DEF FamilyEnded
  <1>2. CASE ~Live(bindings, g)
    <2>1. bindings[g] # NoRow => bindings[g].expires \in Nat
      BY DEF StoreTypeOK, BindingRow, Time
    <2>. QED
      BY <1>2, <2>1, Monotone DEF FamilyEnded
  <1>3. CASE bindings[g] # NoRow /\ ~Live(sessions, bindings[g].session)
    <2>. DEFINE s == bindings[g].session
    <2>1. s \in Sessions
      BY <1>3 DEF StoreTypeOK, BindingRow
    <2>2. sessions[s] # NoRow => sessions[s].expires \in Nat
      BY <2>1 DEF StoreTypeOK, SessionRow, Time
    <2>. QED
      BY <1>3, <2>1, <2>2, Monotone DEF FamilyEnded
  <1>. QED
    BY <1>1, <1>2, <1>3 DEF FamilyEnded

\* No insert is open for a key that a client can present.
LEMMA KnownIsSettled ==
  ASSUME EndpointInv, NEW k \in Known, k # NoKey
  PROVE  k \in Redeemable /\ k \in Keys /\ ~(k \in Tokens /\ Has(pending, k))
  <1>. USE DEF EndpointInv
  <1>1. \A r \in Requests : /\ req[r].refresh \in RefreshTokens \union {NoKey}
                            /\ req[r].access \in AccessTokens \union {NoKey}
    BY RowFields
  <1>2. k \in Redeemable /\ k \in Keys
    BY <1>1, EndpointKeys DEF Known
  <1>3. ASSUME k \in Tokens, Has(pending, k) PROVE FALSE
    <2>1. PICK r \in Requests : Inserting(req[r], k)
      BY <1>3 DEF Minting
    <2>2. k \in RefreshTokens
      BY <1>2, <1>3, EndpointKeys
    <2>3. req[r].refresh = k /\ req[r].pc \in {"refreshInsert", "crashed"}
      BY <1>1, <2>1, <2>2, EndpointKeys DEF Inserting
    <2>4. k \notin FirstRefresh /\ \A q \in Requests : req[q].refresh = k => q = r
      BY <2>3 DEF Minting
    <2>5. k \notin Codes
      BY <2>2, EndpointKeys
    <2>. QED
      BY <2>3, <2>4, <2>5 DEF Known
  <1>. QED
    BY <1>2, <1>3

LEMMA StaysSpent ==
  ASSUME StoreTypeOK, Statement, NEW k \in Keys, ~(k \in Tokens /\ Has(pending, k)), Spent(k)
  PROVE  Spent(k)'
  <1>1. records[k] # NoRow => records[k] \in RecordRow
    BY DEF StoreTypeOK
  <1>. QED
    BY <1>1, Monotone DEF Spent, Has, RecordRow

\* A request is as sound after a statement of somebody else as before.
LEMMA RowKept ==
  ASSUME EndpointInv, Statement, NEW x \in Request, RowSound(x), x.key \in Known \union {NoKey}
  PROVE  RowSound(x)'
  <1>0. StoreTypeOK
    BY DEF EndpointInv, EndpointTypeOK
  <1>1. x.won => Spent(x.key)'
    <2>. SUFFICES ASSUME x.won PROVE Spent(x.key)'
      OBVIOUS
    <2>1. x.key # NoKey /\ Spent(x.key)
      BY EndpointKeys DEF RowSound
    <2>. QED
      BY <1>0, <2>1, KnownIsSettled, StaysSpent
  <1>2. x.late => FamilyEnded(x.grant)'
    BY <1>0, FamilyStaysEnded DEF RowSound
  <1>3. x.grant \in Grants /\ ~Has(records, x.grant) => ~Has(records, x.grant)'
    BY <1>0, Monotone, EndpointKeys DEF Has
  <1>. QED
    BY <1>1, <1>2, <1>3 DEF RowSound, InFlight

LEMMA FamilyRowsKept ==
  ASSUME StoreTypeOK, FamilyRows, Statement
  PROVE  FamilyRows'
  <1>. USE DEF Has, FamilyRow
  <1>1. ASSUME NEW t \in Tokens, pending'[t] # NoRow PROVE FamilyRow(pending'[t])
    <2>1. ASSUME NEW u \in Tokens, NEW g \in Grants, NEW a \in Actors, NEW ttl \in 1..MaxLifetime,
                 UpsertSnapshot(u, g, a, ttl)
          PROVE  FamilyRow(pending'[t])
      <3>1. SelectedRow(g, a, ttl).grant = g /\ SelectedRow(g, a, ttl).account = a
        BY DEF SelectedRow, NewRow
      <3>2. pending'[t] = IF t = u THEN SelectedRow(g, a, ttl) ELSE pending[t]
        BY <2>1 DEF UpsertSnapshot, StoreTypeOK
      <3>. QED
        BY <1>1, <3>1, <3>2 DEF FamilyRows
    <2>2. \/ \E u \in Tokens, g \in Grants, a \in Actors, ttl \in 1..MaxLifetime :
               UpsertSnapshot(u, g, a, ttl)
          \/ pending'[t] = pending[t] \/ pending'[t] = NoRow
      BY DEF Statement, storeVars, UpsertCommit, UpsertRollback, Consume, Destroy,
             RevokeByGrantId, RevokeFamily, Delete, SweepRecords, SweepBindings, Logout, SetStatus,
             Tick, StoreTypeOK
    <2>. QED
      BY <1>1, <2>1, <2>2 DEF FamilyRows
  <1>2. ASSUME NEW k \in Codes \union Tokens, records'[k] # NoRow PROVE FamilyRow(records'[k])
    <2>0. k \in Keys /\ (records[k] # NoRow => records[k] \in RecordRow)
      BY EndpointKeys DEF StoreTypeOK
    <2>1. ASSUME NEW t \in Tokens, UpsertCommit(t)
          PROVE  records'[k] = records[k] \/ FamilyRow(records'[k])
      <3>1. pending[t] \in RecordRow /\ FamilyRow(pending[t]) /\ t \in Keys
        BY <2>1, EndpointKeys DEF UpsertCommit, StoreTypeOK, FamilyRows
      <3>2. CASE k # t
        BY <2>0, <2>1, <3>2 DEF UpsertCommit, StoreTypeOK
      <3>3. CASE k = t /\ records[k] # NoRow
        <4>1. records'[k] = Merge(records[k], pending[k])
          BY <2>0, <2>1, <3>3 DEF UpsertCommit, StoreTypeOK
        <4>. QED
          BY <2>0, <3>1, <3>3, <4>1, MergeFacts
      <3>4. CASE k = t /\ records[k] = NoRow
        <4>1. records'[k] = pending[k]
          BY <2>0, <2>1, <3>4 DEF UpsertCommit, StoreTypeOK
        <4>. QED
          BY <3>1, <3>4, <4>1
      <3>. QED
        BY <3>2, <3>3, <3>4
    <2>2. ASSUME NEW j \in Keys, Consume(j)
          PROVE  records[k] # NoRow /\ records'[k].grant = records[k].grant
                                    /\ records'[k].account = records[k].account
      BY <1>2, <2>0, <2>2 DEF Consume, Consumable, Live, StoreTypeOK, RecordRow
    <2>3. ASSUME NEW K, Delete(K) PROVE records'[k] = records[k]
      BY <1>2, <2>0, <2>3 DEF Delete
    <2>4. \/ UNCHANGED records
          \/ \E t \in Tokens : UpsertCommit(t)
          \/ \E j \in Keys : Consume(j)
          \/ \E K : Delete(K)
      BY DEF Statement, storeVars, UpsertSnapshot, UpsertRollback, Destroy, RevokeByGrantId,
             RevokeFamily, SweepRecords, SweepBindings, Logout, SetStatus, Tick
    <2>. QED
      BY <1>2, <2>1, <2>2, <2>3, <2>4 DEF FamilyRows
  <1>. QED
    BY <1>1, <1>2 DEF FamilyRows

\* One request moves, by a statement of its own or without one.
LEMMA OneRowMoves ==
  ASSUME EndpointInv, Statement, NEW r \in Requests, req' \in [Requests -> Request],
         \A q \in Requests : q # r => req'[q] = req[q],
         req[r].pc \notin {"ok", "crashed"},
         req'[r].key \in Known \union {NoKey},
         req'[r].refresh # req[r].refresh => req'[r].refresh \notin Minted,
         RowSound(req[r])',
         req'[r].won => (req[r].won /\ req'[r].key = req[r].key) \/ ~Spent(req'[r].key),
         \A t \in Tokens : Has(pending', t) =>
           (Has(pending, t) /\ ~Inserting(req[r], t)) \/ Inserting(req'[r], t)
  PROVE  EndpointInv'
  <1>. USE DEF EndpointInv
  <1>0. StoreTypeOK /\ StoreTypeOK'
    BY StatementIsStoreStep, TypeStep DEF EndpointTypeOK
  <1>1. FamilyRows'
    BY <1>0, FamilyRowsKept
  <1>2. \A q \in Requests : RowSound(req[q])'
    <2>. SUFFICES ASSUME NEW q \in Requests, q # r PROVE RowSound(req[q])'
      OBVIOUS
    <2>1. req[q] \in Request /\ req[q].key \in Known \union {NoKey} /\ RowSound(req[q])
      BY DEF EndpointTypeOK, Minting
    <2>2. \A x \in Request : RowSound(x) /\ x.key \in Known \union {NoKey} => RowSound(x)'
      BY RowKept
    <2>. QED
      BY <2>1, <2>2 DEF RowSound, Spent, FamilyEnded, Has, Live
  <1>3. RedeemedOnce'
    <2>1. \A q \in Requests : req[q].won => Spent(req[q].key)
      BY DEF RowSound
    <2>. QED
      BY <2>1 DEF RedeemedOnce
  <1>4. Known \subseteq Known'
    BY DEF Known
  <1>5. Minting'
    <2>1. \A q \in Requests : req'[q].key \in Known' \union {NoKey}
      BY <1>4 DEF Minting
    <2>2. \A q \in Requests : req'[q].refresh # NoKey =>
            /\ req'[q].refresh \notin FirstRefresh
            /\ \A p \in Requests : req'[p].refresh = req'[q].refresh => p = q
      BY DEF Minting, Minted
    <2>3. \A t \in Tokens : Has(pending', t) => \E q \in Requests : Inserting(req'[q], t)
      BY DEF Minting
    <2>. QED
      BY <2>1, <2>2, <2>3 DEF Minting, Inserting, Has
  <1>. QED
    BY <1>0, <1>1, <1>2, <1>3, <1>5 DEF EndpointTypeOK

\* Request r goes on to p, and presents the same key for the same account and grant.
Moves(r, p) ==
  /\ req' \in [Requests -> Request]
  /\ \A q \in Requests : q # r => req'[q] = req[q]
  /\ req'[r].pc = p
  /\ req'[r].key = req[r].key /\ req'[r].grant = req[r].grant
  /\ req'[r].account = req[r].account /\ req'[r].late = req[r].late
\* It neither wins the key nor finds it consumed; it mints no token.
Marks(r) == req'[r].won = req[r].won /\ req'[r].detected = req[r].detected
Ids(r)   == req'[r].refresh = req[r].refresh /\ req'[r].access = req[r].access

LEMMA GotoMoves ==
  ASSUME EndpointTypeOK, NEW r \in Requests, NEW p \in InFlight \union Ended, Goto(r, p)
  PROVE  Moves(r, p) /\ Marks(r) /\ Ids(r)
BY DEF Goto, EndpointTypeOK, Request, Moves, Marks, Ids

\* A request that neither has nor starts an insert leaves the inserts alone.
LEMMA NoInsert ==
  ASSUME EndpointInv, NEW r \in Requests, req[r].pc \notin {"accessInsert", "refreshInsert", "crashed"},
         \A t \in Tokens : pending'[t] = pending[t]
  PROVE  \A t \in Tokens : Has(pending', t) => Has(pending, t) /\ ~Inserting(req[r], t)
BY DEF Has, Inserting

LEMMA RootCurrentIsAlive ==
  ASSUME NEW g \in Grants, NEW a, UpsertSelects(g, a)
  PROVE  ~FamilyEnded(g)
BY DEF UpsertSelects, RootCurrent, FamilyEnded, Live

LEMMA BeginKeeps ==
  ASSUME EndpointInv, Statement, NEW r \in Requests, NEW k \in Redeemable, Begin(r, k)
  PROVE  EndpointInv'
  <1>0. /\ req[r] = Idle /\ k \in Known /\ k # NoKey /\ k \in Keys /\ UNCHANGED storeVars
        /\ k \in Codes \union Tokens /\ k \in Redeemable
    BY KnownIsSettled, EndpointKeys DEF Begin, RowSound, EndpointInv
  <1>01. req[r].pc = "idle" /\ req \in [Requests -> Request]
    BY <1>0 DEF Idle, EndpointInv, EndpointTypeOK
  <1>1. \A t \in Tokens : Has(pending', t) => Has(pending, t) /\ ~Inserting(req[r], t)
    BY <1>0, <1>01, NoInsert DEF storeVars
  <1>2. ASSUME NEW x \in Request, req' = [req EXCEPT ![r] = x], x.key = k, x.refresh = NoKey,
               ~x.won, RowSound(x)'
        PROVE  EndpointInv'
    <2>1. /\ req' \in [Requests -> Request] /\ req'[r] = x
          /\ \A q \in Requests : q # r => req'[q] = req[q]
      BY <1>01, <1>2
    <2>2. RowSound(req[r])'
      BY <1>2, <2>1 DEF RowSound, Spent, FamilyEnded, Has, Live
    <2>3. req[r].pc = "idle" /\ req[r].refresh = NoKey
      BY <1>0 DEF Idle
    <2>. QED
      BY <1>0, <1>1, <1>2, <2>1, <2>2, <2>3, OneRowMoves
  <1>3. CASE Live(records, k)
    <2>1. records[k] \in RecordRow /\ FamilyRow(records[k])
      BY <1>0, <1>3 DEF Live, FamilyRows, Has, EndpointInv, EndpointTypeOK, StoreTypeOK
    <2>2. FamilyEnded(records[k].grant) \in BOOLEAN
      BY DEF FamilyEnded, Has, Live
    <2>. DEFINE row == [pc |-> "found", key |-> k, grant |-> records[k].grant,
                        account |-> records[k].account, consumed |-> records[k].consumed,
                        rootExpiry |-> 0, won |-> FALSE, detected |-> FALSE,
                        late |-> FamilyEnded(records[k].grant), refresh |-> NoKey, access |-> NoKey]
    <2>3. row \in Request
      BY <1>0, <2>1, <2>2 DEF Request, RecordRow, InFlight, Time
    <2>4. PICK x \in Request : x = row
      BY <2>3
    <2>5. req' = [req EXCEPT ![r] = x]
      BY <1>0, <1>01, <1>3, <2>4 DEF Begin, Idle
    <2>6. RowSound(x)'
      BY <1>0, <2>1, <2>4 DEF RowSound, FamilyRow, FamilyEnded, Has, Live, storeVars, InFlight
    <2>7. x.key = k /\ x.refresh = NoKey /\ ~x.won
      BY <2>4
    <2>. QED
      BY <1>2, <2>5, <2>6, <2>7
  <1>4. CASE ~Live(records, k)
    <2>. DEFINE x == [Idle EXCEPT !.pc = "refused", !.key = k]
    <2>1. x \in Request
      BY <1>0 DEF Request, Idle, Ended, Time
    <2>2. req' = [req EXCEPT ![r] = x]
      BY <1>0, <1>01, <1>4 DEF Begin, Idle
    <2>3. RowSound(x)'
      BY DEF RowSound, Idle, InFlight
    <2>4. x.key = k /\ x.refresh = NoKey /\ ~x.won
      BY DEF Idle
    <2>. HIDE DEF x
    <2>. QED
      BY <1>2, <2>1, <2>2, <2>3, <2>4
  <1>. QED
    BY <1>3, <1>4

\* A step that moves one request on, without touching the store.
LEMMA MovesOn ==
  ASSUME EndpointInv, NEW r \in Requests, NEW p \in InFlight \union Ended,
         Moves(r, p), Marks(r), Ids(r), UNCHANGED storeVars,
         req[r].pc \in InFlight \ {"accessInsert", "refreshInsert", "replay"},
         p \notin {"crashed", "accessInsert", "refreshInsert", "ok", "replay"},
         p \in {"found", "granted", "rooted"} => ~req[r].won,
         p = "refused" => ~(req[r].won /\ req[r].key \notin Codes)
  PROVE  EndpointInv'
  <1>1. Statement
    BY DEF Statement
  <1>2. RowSound(req[r]) /\ req[r].key \in Known \union {NoKey}
    BY DEF EndpointInv, Minting
  <1>3. ~req[r].detected
    BY <1>2, RowFields DEF RowSound, EndpointInv, InFlight
  <1>4. RowSound(req[r])'
    BY <1>2, <1>3 DEF Moves, Marks, RowSound, Spent, FamilyEnded, Has, Live, storeVars, InFlight, Ended
  <1>5. \A t \in Tokens : Has(pending', t) => Has(pending, t) /\ ~Inserting(req[r], t)
    BY NoInsert DEF storeVars, InFlight
  <1>. QED
    BY <1>1, <1>2, <1>4, <1>5, OneRowMoves DEF InFlight, Moves, Marks, Ids

LEMMA RefusalMovesOn ==
  ASSUME EndpointInv, NEW r \in Requests, Refuse(r),
         req[r].pc \in InFlight \ {"accessInsert", "refreshInsert", "replay"}
  PROVE  EndpointInv'
  <1>1. /\ RefusalPc(r) \in {"revoking", "refused"}
        /\ RefusalPc(r) = "refused" => ~(req[r].won /\ req[r].key \notin Codes)
    BY DEF RefusalPc, IsCode
  <1>2. Moves(r, RefusalPc(r)) /\ Marks(r) /\ Ids(r)
    BY <1>1, GotoMoves DEF Refuse, EndpointInv, InFlight, Ended
  <1>. QED
    BY <1>1, <1>2, MovesOn DEF Refuse, InFlight, Ended

LEMMA CheckGrantKeeps ==
  ASSUME EndpointInv, NEW r \in Requests, CheckGrant(r)
  PROVE  EndpointInv'
  <1>1. req[r].pc = "found" /\ ~req[r].won /\ (Goto(r, "granted") \/ Goto(r, "refused"))
    BY DEF CheckGrant, RowSound, EndpointInv
  <1>2. \E p \in {"granted", "refused"} : Moves(r, p) /\ Marks(r) /\ Ids(r)
    BY <1>1, GotoMoves DEF EndpointInv, InFlight, Ended
  <1>. QED
    BY <1>1, <1>2, MovesOn DEF CheckGrant, InFlight, Ended

LEMMA RootExpiryIsTime ==
  ASSUME StoreTypeOK, NEW g \in Grants, NEW a, RootCurrent(g, a)
  PROVE  RootExpiry(g) \in Time
  <1>1. bindings[g] \in BindingRow
    BY DEF RootCurrent, Live, Has, StoreTypeOK
  <1>2. bindings[g].session \in Sessions /\ bindings[g].expires \in Nat
    BY <1>1 DEF BindingRow, Time
  <1>3. Has(sessions, bindings[g].session) => sessions[bindings[g].session].expires \in Nat
    BY <1>2 DEF Has, StoreTypeOK, SessionRow, Time
  <1>. QED
    BY <1>2, <1>3 DEF RootExpiry, Least, Time

LEMMA ReadingIsRequest ==
  ASSUME NEW y \in Request, NEW p \in InFlight, NEW e \in Time
  PROVE  [y EXCEPT !.pc = p, !.rootExpiry = e] \in Request
BY DEF Request

LEMMA FindAccountKeeps ==
  ASSUME EndpointInv, NEW r \in Requests, FindAccount(r)
  PROVE  EndpointInv'
  <1>0. /\ req[r].pc = IF IsCode(r) THEN "redeemed" ELSE "granted"
        /\ req[r].pc \in InFlight \ {"accessInsert", "refreshInsert", "replay"}
        /\ req[r].pc = "granted" => ~req[r].won
        /\ req[r].grant \in Grants
    BY DEF FindAccount, RowSound, EndpointInv, InFlight
  <1>1. CASE RootCurrent(req[r].grant, req[r].account)
    <2>. DEFINE p == IF IsCode(r) THEN "access" ELSE "rooted"
                e == RootExpiry(req[r].grant)
    <2>1. /\ req' = [req EXCEPT ![r].pc = p, ![r].rootExpiry = e]
          /\ UNCHANGED storeVars
      BY <1>1 DEF FindAccount
    <2>2. e \in Time
      BY <1>0, <1>1, RootExpiryIsTime DEF EndpointInv, EndpointTypeOK
    <2>3. p \in InFlight /\ p \in {"access", "rooted"}
      BY DEF InFlight
    <2>. HIDE DEF e
    <2>. HIDE DEF p
    <2>31. req[r] \in Request
      BY RowFields DEF EndpointInv
    <2>32. [req[r] EXCEPT !.pc = p, !.rootExpiry = e] \in Request
      BY <2>2, <2>3, <2>31, ReadingIsRequest
    <2>33. /\ req' = [req EXCEPT ![r] = [req[r] EXCEPT !.pc = p, !.rootExpiry = e]]
           /\ req \in [Requests -> Request]
      BY <2>1 DEF EndpointInv, EndpointTypeOK
    <2>4. Moves(r, p) /\ Marks(r) /\ Ids(r)
      BY <2>31, <2>32, <2>33 DEF Moves, Marks, Ids, Request
    <2>5. p = "rooted" => ~req[r].won
      BY <1>0 DEF p
    <2>. QED
      BY <1>0, <2>1, <2>3, <2>4, <2>5, MovesOn
  <1>2. CASE ~RootCurrent(req[r].grant, req[r].account)
    BY <1>0, <1>2, RefusalMovesOn DEF FindAccount
  <1>. QED
    BY <1>1, <1>2

LEMMA FailKeeps ==
  ASSUME EndpointInv, NEW r \in Requests, FailSave(r) \/ FailRevoke(r)
  PROVE  EndpointInv'
  <1>1. CASE FailSave(r)
    BY <1>1, RefusalMovesOn DEF FailSave, InFlight
  <1>2. CASE FailRevoke(r)
    <2>1. Moves(r, "abandoned") /\ Marks(r) /\ Ids(r)
      BY <1>2, GotoMoves DEF FailRevoke, EndpointInv, Ended
    <2>. QED
      BY <1>2, <2>1, MovesOn DEF FailRevoke, InFlight, Ended
  <1>. QED
    BY <1>1, <1>2

-----------------------------------------------------------------------------
(* The steps that write.                                                   *)

LEMMA RedeemKeeps ==
  ASSUME EndpointInv, Statement, NEW r \in Requests, Redeem(r)
  PROVE  EndpointInv'
  <1>0. /\ req[r].pc \in {"granted", "rooted"} /\ ~req[r].won
        /\ req[r].pc = IF IsCode(r) THEN "granted" ELSE "rooted"
        /\ RowSound(req[r]) /\ req[r].key \in Known \union {NoKey}
    BY DEF Redeem, AtRedemption, RowSound, EndpointInv, Minting
  <1>. DEFINE k == req[r].key
  <1>1. /\ ~req[r].detected /\ k \in Keys /\ k \in Redeemable /\ req[r].grant \in Grants
        /\ k # NoKey
    BY <1>0, EndpointKeys, RowFields DEF RowSound, InFlight, EndpointInv
  <1>2. CASE ~Consumable(k)
    <2>1. Moves(r, "refused") /\ Marks(r) /\ Ids(r)
      BY <1>2, GotoMoves DEF Redeem, EndpointInv, Ended
    <2>. QED
      BY <1>0, <1>2, <2>1, MovesOn DEF Redeem, InFlight, Ended
  <1>3. CASE Consumable(k)
    <2>. DEFINE p == IF IsCode(r) THEN "redeemed" ELSE "refresh"
    <2>1. Consume(k) /\ req' = [req EXCEPT ![r].pc = p, ![r].won = TRUE]
      BY <1>3 DEF Redeem
    <2>2. p \in InFlight /\ p \in {"redeemed", "refresh"}
      BY DEF InFlight
    <2>. HIDE DEF p
    <2>3. Moves(r, p) /\ Ids(r) /\ req'[r].won /\ req'[r].detected = req[r].detected
      <3>1. req[r] \in Request
        BY RowFields DEF EndpointInv
      <3>2. [req[r] EXCEPT !.pc = p, !.won = TRUE] \in Request
        BY <2>2, <3>1 DEF Request, InFlight
      <3>3. /\ req' = [req EXCEPT ![r] = [req[r] EXCEPT !.pc = p, !.won = TRUE]]
            /\ req \in [Requests -> Request]
        BY <2>1 DEF EndpointInv, EndpointTypeOK
      <3>. QED
        BY <3>1, <3>2, <3>3 DEF Moves, Ids, Request
    <2>4. ~Spent(k) /\ Spent(k)'
      BY <1>1, <1>3, <2>1 DEF Consume, Consumable, Live, Spent, Has, EndpointInv, EndpointTypeOK, StoreTypeOK,
        RecordRow
    <2>5. PICK g \in Grants : g = req[r].grant
      BY <1>1
    <2>51. req[r].late => FamilyEnded(g)'
      BY <1>0, <2>5, FamilyStaysEnded DEF RowSound, EndpointInv, EndpointTypeOK
    <2>6. RowSound(req[r])'
      BY <1>0, <1>1, <2>2, <2>3, <2>4, <2>5, <2>51
      DEF Moves, RowSound, Spent, FamilyEnded, Has, Live, InFlight
    <2>7. \A t \in Tokens : Has(pending', t) => Has(pending, t) /\ ~Inserting(req[r], t)
      BY <1>0, <2>1, NoInsert DEF Consume
    <2>. QED
      BY <1>0, <2>2, <2>3, <2>4, <2>6, <2>7, OneRowMoves DEF Moves, Ids
  <1>. QED
    BY <1>2, <1>3

\* What RowKept says of the request that moves: its old row is still sound.
LEMMA OldRowSound ==
  ASSUME EndpointInv, Statement, NEW r \in Requests
  PROVE  \E x \in Request : x = req[r] /\ RowSound(x) /\ RowSound(x)'
  <1>1. PICK x \in Request : x = req[r]
    BY RowFields DEF EndpointInv
  <1>2. RowSound(x) /\ x.key \in Known \union {NoKey}
    BY <1>1 DEF EndpointInv, Minting
  <1>. QED
    BY <1>1, <1>2, RowKept

LEMMA DetectReplayKeeps ==
  ASSUME EndpointInv, Statement, NEW r \in Requests, DetectReplay(r)
  PROVE  EndpointInv'
  <1>0. req[r].pc \in {"granted", "rooted"} /\ req[r].key \in Known \union {NoKey} /\ req[r] \in Request
    BY RowFields DEF DetectReplay, AtRedemption, EndpointInv, Minting
  <1>1. req' = [req EXCEPT ![r] = [req[r] EXCEPT !.pc = "replay", !.detected = TRUE]]
    BY DEF DetectReplay, EndpointInv, EndpointTypeOK
  <1>2. [req[r] EXCEPT !.pc = "replay", !.detected = TRUE] \in Request
    BY <1>0 DEF Request, InFlight
  <1>3. Moves(r, "replay") /\ Ids(r) /\ req'[r].won = req[r].won /\ req'[r].detected
    BY <1>0, <1>1, <1>2 DEF Moves, Ids, Request, EndpointInv, EndpointTypeOK
  <1>4. PICK x \in Request : x = req[r] /\ RowSound(x) /\ RowSound(x)'
    BY OldRowSound
  <1>5. RowSound(req[r])'
    BY <1>0, <1>3, <1>4 DEF Moves, RowSound, Spent, FamilyEnded, Has, Live, InFlight
  <1>6. \A t \in Tokens : Has(pending', t) => Has(pending, t) /\ ~Inserting(req[r], t)
    BY <1>0, NoInsert DEF DetectReplay, RevokeByGrantId, Delete
  <1>. QED
    BY <1>0, <1>3, <1>5, <1>6, OneRowMoves DEF Moves, Ids

\* Whether a replay or a failed rotation ends it, the Grant is gone with the answer.
LEMMA DestroyKeeps ==
  ASSUME EndpointInv, Statement, NEW r \in Requests, DestroyGrant(r) \/ Revoke(r)
  PROVE  EndpointInv'
  <1>0. req[r].pc \in {"replay", "revoking"} /\ req[r].key \in Known \union {NoKey}
    BY DEF DestroyGrant, Revoke, EndpointInv, Minting
  <1>1. Moves(r, "refused") /\ Marks(r) /\ Ids(r)
    BY GotoMoves DEF DestroyGrant, Revoke, EndpointInv, Ended
  <1>2. PICK x \in Request : x = req[r] /\ RowSound(x) /\ RowSound(x)'
    BY OldRowSound
  <1>3. x.grant \in Grants /\ x.grant \in Keys
    BY <1>0, <1>2, EndpointKeys DEF RowSound, InFlight
  <1>4. ~Has(records', x.grant)
    BY <1>2, <1>3 DEF DestroyGrant, Revoke, RevokeFamily, Delete, Has
  <1>5. RowSound(req[r])'
    BY <1>0, <1>1, <1>2, <1>3, <1>4 DEF Moves, Marks, RowSound, Spent, FamilyEnded, Has, Live, InFlight
  <1>6. \A t \in Tokens : Has(pending', t) => Has(pending, t) /\ ~Inserting(req[r], t)
    BY <1>0, NoInsert DEF DestroyGrant, Revoke, RevokeFamily, Delete
  <1>. QED
    BY <1>0, <1>1, <1>5, <1>6, OneRowMoves DEF Moves, Marks, Ids

LEMMA InsertAccessKeeps ==
  ASSUME EndpointInv, Statement, NEW r \in Requests, InsertAccess(r)
  PROVE  EndpointInv'
  <1>0. req[r].pc = "access" /\ req[r].key \in Known \union {NoKey} /\ req[r] \in Request
    BY RowFields DEF InsertAccess, EndpointInv, Minting
  <1>1. PICK t \in AccessTokens \ Minted :
          /\ UpsertSnapshot(t, req[r].grant, req[r].account, TtlLeft(r))
          /\ req' = [req EXCEPT ![r].pc = "accessInsert", ![r].access = t]
    BY DEF InsertAccess
  <1>2. req' = [req EXCEPT ![r] = [req[r] EXCEPT !.pc = "accessInsert", !.access = t]]
    BY <1>1 DEF EndpointInv, EndpointTypeOK
  <1>3. [req[r] EXCEPT !.pc = "accessInsert", !.access = t] \in Request
    BY <1>0 DEF Request, InFlight
  <1>4. /\ Moves(r, "accessInsert") /\ Marks(r)
        /\ req'[r].refresh = req[r].refresh /\ req'[r].access = t
    BY <1>0, <1>2, <1>3 DEF Moves, Marks, Request, EndpointInv, EndpointTypeOK
  <1>5. PICK x \in Request : x = req[r] /\ RowSound(x) /\ RowSound(x)'
    BY OldRowSound
  <1>6. ~x.late /\ t # NoKey /\ ~x.detected
    BY <1>0, <1>1, <1>5, RootCurrentIsAlive, EndpointKeys DEF UpsertSnapshot, RowSound, InFlight
  <1>7. RowSound(req[r])'
    BY <1>0, <1>4, <1>5, <1>6 DEF Moves, Marks, RowSound, Spent, FamilyEnded, Has, Live, InFlight
  <1>8. \A u \in Tokens : Has(pending', u) =>
          (Has(pending, u) /\ ~Inserting(req[r], u)) \/ Inserting(req'[r], u)
    <2>1. \A u \in Tokens : u # t => pending'[u] = pending[u]
      BY <1>1 DEF UpsertSnapshot, EndpointInv, EndpointTypeOK, StoreTypeOK
    <2>. QED
      BY <1>0, <1>4, <2>1 DEF Inserting, Has, Moves
  <1>. QED
    BY <1>0, <1>4, <1>7, <1>8, OneRowMoves DEF Moves, Marks

LEMMA InsertRefreshKeeps ==
  ASSUME EndpointInv, Statement, NEW r \in Requests, InsertRefresh(r)
  PROVE  EndpointInv'
  <1>0. req[r].pc = "refresh" /\ req[r].key \in Known \union {NoKey} /\ req[r] \in Request
    BY RowFields DEF InsertRefresh, EndpointInv, Minting
  <1>1. PICK t \in RefreshTokens \ Minted :
          /\ UpsertSnapshot(t, req[r].grant, req[r].account, TtlLeft(r))
          /\ req' = [req EXCEPT ![r].pc = "refreshInsert", ![r].refresh = t]
    BY DEF InsertRefresh
  <1>2. req' = [req EXCEPT ![r] = [req[r] EXCEPT !.pc = "refreshInsert", !.refresh = t]]
    BY <1>1 DEF EndpointInv, EndpointTypeOK
  <1>3. [req[r] EXCEPT !.pc = "refreshInsert", !.refresh = t] \in Request
    BY <1>0 DEF Request, InFlight
  <1>4. /\ Moves(r, "refreshInsert") /\ Marks(r)
        /\ req'[r].refresh = t /\ req'[r].access = req[r].access
    BY <1>0, <1>2, <1>3 DEF Moves, Marks, Request, EndpointInv, EndpointTypeOK
  <1>5. PICK x \in Request : x = req[r] /\ RowSound(x) /\ RowSound(x)'
    BY OldRowSound
  <1>6. ~x.late /\ t # NoKey /\ ~x.detected
    BY <1>0, <1>1, <1>5, RootCurrentIsAlive, EndpointKeys DEF UpsertSnapshot, RowSound, InFlight
  <1>7. RowSound(req[r])'
    BY <1>0, <1>4, <1>5, <1>6 DEF Moves, Marks, RowSound, Spent, FamilyEnded, Has, Live, InFlight
  <1>8. \A u \in Tokens : Has(pending', u) =>
          (Has(pending, u) /\ ~Inserting(req[r], u)) \/ Inserting(req'[r], u)
    <2>1. \A u \in Tokens : u # t => pending'[u] = pending[u]
      BY <1>1 DEF UpsertSnapshot, EndpointInv, EndpointTypeOK, StoreTypeOK
    <2>. QED
      BY <1>0, <1>4, <2>1 DEF Inserting, Has, Moves
  <1>. QED
    BY <1>0, <1>1, <1>4, <1>7, <1>8, OneRowMoves DEF Moves, Marks

LEMMA CommitKeeps ==
  ASSUME EndpointInv, Statement, NEW r \in Requests, CommitAccess(r) \/ CommitRefresh(r)
  PROVE  EndpointInv'
  <1>0. /\ req[r].pc \in {"accessInsert", "refreshInsert"} /\ req[r].key \in Known \union {NoKey}
        /\ req[r] \in Request
    BY RowFields DEF CommitAccess, CommitRefresh, EndpointInv, Minting
  <1>1. PICK x \in Request : x = req[r] /\ RowSound(x) /\ RowSound(x)'
    BY OldRowSound
  <1>2. \E p \in {"ok", "access", "refresh"} : Moves(r, p) /\ Marks(r) /\ Ids(r)
    <2>1. ASSUME NEW p \in {"ok", "access", "refresh"}, Goto(r, p)
          PROVE  Moves(r, p) /\ Marks(r) /\ Ids(r)
      BY <2>1, GotoMoves DEF EndpointInv, InFlight, Ended
    <2>2. CASE CommitAccess(r) /\ IsCode(r)
      <3>. DEFINE e == IF RootCurrent(req[r].grant, req[r].account)
                         THEN RootExpiry(req[r].grant) ELSE 0
      <3>1. req[r].grant \in Grants
        BY <1>0, <1>1 DEF RowSound, InFlight
      <3>2. e \in Time
        BY <3>1, RootExpiryIsTime DEF EndpointInv, EndpointTypeOK, Time
      <3>3. req' = [req EXCEPT ![r].pc = "refresh", ![r].rootExpiry = e]
        BY <2>2 DEF CommitAccess
      <3>. HIDE DEF e
      <3>4. req' = [req EXCEPT ![r] = [req[r] EXCEPT !.pc = "refresh", !.rootExpiry = e]]
        BY <3>3 DEF EndpointInv, EndpointTypeOK
      <3>5. [req[r] EXCEPT !.pc = "refresh", !.rootExpiry = e] \in Request
        <4>1. "refresh" \in InFlight
          BY DEF InFlight
        <4>. QED
          BY <1>0, <3>2, <4>1, ReadingIsRequest
      <3>6. Moves(r, "refresh") /\ Marks(r) /\ Ids(r)
        BY <1>0, <3>4, <3>5 DEF Moves, Marks, Ids, Request, EndpointInv, EndpointTypeOK
      <3>. QED
        BY <3>6
    <2>3. CASE CommitAccess(r) /\ ~IsCode(r)
      BY <2>1, <2>3 DEF CommitAccess
    <2>4. CASE CommitRefresh(r)
      BY <2>1, <2>4 DEF CommitRefresh
    <2>. QED
      BY <2>2, <2>3, <2>4
  <1>3. ~x.late /\ ~x.detected
    BY <1>0, <1>1 DEF RowSound
  <1>4. RowSound(req[r])'
    BY <1>0, <1>1, <1>2, <1>3 DEF Moves, Marks, RowSound, Spent, FamilyEnded, Has, Live, InFlight
  <1>5. \A t \in Tokens : Has(pending', t) => Has(pending, t) /\ ~Inserting(req[r], t)
    <2>1. ASSUME NEW t \in Tokens PROVE Has(pending', t) => Has(pending, t) /\ ~Inserting(req[r], t)
      BY DEF CommitAccess, CommitRefresh, UpsertCommit, Has, Inserting, EndpointInv,
           EndpointTypeOK, StoreTypeOK
    <2>. QED
      BY <2>1
  <1>. QED
    BY <1>0, <1>2, <1>4, <1>5, OneRowMoves DEF Moves, Marks, Ids

\* No request moves, except those a crash forgets.
LEMMA RequestsStayOrDie ==
  ASSUME EndpointInv, Statement, req' \in [Requests -> Request],
         \A q \in Requests :
           \/ req'[q] = req[q]
           \/ req[q].pc \in InFlight /\ req'[q] = [req[q] EXCEPT !.pc = "crashed"],
         \A t \in Tokens : Has(pending', t) => Has(pending, t)
  PROVE  EndpointInv'
  <1>0. StoreTypeOK /\ StoreTypeOK'
    BY StatementIsStoreStep, TypeStep DEF EndpointInv, EndpointTypeOK
  <1>1. ASSUME NEW q \in Requests
        PROVE  /\ req'[q].key = req[q].key /\ req'[q].refresh = req[q].refresh
               /\ req'[q].won = req[q].won /\ (req[q].pc = "ok" => req'[q].pc = "ok")
               /\ \A t : Inserting(req[q], t) => Inserting(req'[q], t)
               /\ RowSound(req[q])'
    <2>1. PICK x \in Request : x = req[q] /\ RowSound(x) /\ RowSound(x)'
      BY OldRowSound
    <2>2. CASE req'[q] = req[q]
      BY <2>1, <2>2 DEF RowSound, Spent, FamilyEnded, Has, Live
    <2>3. CASE req[q].pc \in InFlight /\ req'[q] = [req[q] EXCEPT !.pc = "crashed"]
      <3>1. /\ x.pc \in InFlight /\ req'[q].pc = "crashed" /\ req'[q].key = x.key
            /\ req'[q].grant = x.grant /\ req'[q].account = x.account /\ req'[q].won = x.won
            /\ req'[q].detected = x.detected /\ req'[q].late = x.late
            /\ req'[q].refresh = x.refresh /\ req'[q].access = x.access
        BY <2>1, <2>3 DEF Request
      <3>2. \A t : Inserting(req[q], t) => Inserting(req'[q], t)
        BY <2>1, <3>1 DEF Inserting
      <3>3. RowSound(req[q])'
        BY <2>1, <3>1 DEF RowSound, Spent, FamilyEnded, Has, Live, InFlight
      <3>. QED
        BY <2>1, <3>1, <3>2, <3>3 DEF InFlight
    <2>. QED
      BY <2>2, <2>3
  <1>2. FamilyRows'
    BY <1>0, FamilyRowsKept DEF EndpointInv
  <1>3. Known \subseteq Known'
    BY <1>1 DEF Known
  <1>4. Minting'
    <2>1. \A q \in Requests : req'[q].key \in Known' \union {NoKey}
      BY <1>1, <1>3 DEF EndpointInv, Minting
    <2>2. \A q \in Requests : req'[q].refresh # NoKey =>
            /\ req'[q].refresh \notin FirstRefresh
            /\ \A p \in Requests : req'[p].refresh = req'[q].refresh => p = q
      BY <1>1 DEF EndpointInv, Minting
    <2>3. \A t \in Tokens : Has(pending', t) => \E q \in Requests : Inserting(req'[q], t)
      BY <1>1 DEF EndpointInv, Minting
    <2>. QED
      BY <2>1, <2>2, <2>3 DEF Minting, Inserting, Has
  <1>5. RedeemedOnce'
    BY <1>1 DEF EndpointInv, RedeemedOnce
  <1>. QED
    BY <1>0, <1>1, <1>2, <1>4, <1>5 DEF EndpointInv, EndpointTypeOK

LEMMA OthersKeep ==
  ASSUME EndpointInv, Statement,
         \/ Crash \/ Environment \/ UNCHANGED vars
         \/ \E t \in Tokens : FinishOrphan(t) \/ AbortOrphan(t)
  PROVE  EndpointInv'
  <1>0. req \in [Requests -> Request] /\ StoreTypeOK
    BY DEF EndpointInv, EndpointTypeOK
  <1>1. CASE Crash
    <2>1. \A q \in Requests : [req[q] EXCEPT !.pc = "crashed"] \in Request
      BY <1>0 DEF Request, Ended
    <2>2. req' \in [Requests -> Request]
      BY <1>0, <1>1, <2>1 DEF Crash
    <2>3. \A q \in Requests :
            \/ req'[q] = req[q]
            \/ req[q].pc \in InFlight /\ req'[q] = [req[q] EXCEPT !.pc = "crashed"]
      BY <1>1 DEF Crash
    <2>4. \A t \in Tokens : Has(pending', t) => Has(pending, t)
      BY <1>1 DEF Crash, storeVars, Has
    <2>. QED
      BY <2>2, <2>3, <2>4, RequestsStayOrDie
  <1>2. CASE Environment \/ UNCHANGED vars \/ \E t \in Tokens : FinishOrphan(t) \/ AbortOrphan(t)
    <2>1. UNCHANGED req
      BY <1>2 DEF Environment, vars, FinishOrphan, AbortOrphan
    <2>2. ASSUME NEW u \in Tokens PROVE Has(pending', u) => Has(pending, u)
      <3>1. ASSUME NEW t \in Tokens, UpsertCommit(t) \/ UpsertRollback(t)
            PROVE  Has(pending', u) => Has(pending, u)
        BY <1>0, <3>1 DEF UpsertCommit, UpsertRollback, Has, StoreTypeOK
      <3>2. \/ UNCHANGED pending
            \/ \E t \in Tokens : UpsertCommit(t) \/ UpsertRollback(t)
        BY <1>2 DEF Environment, vars, storeVars, FinishOrphan, AbortOrphan, SweepRecords, Delete,
                    SweepBindings, Logout, SetStatus, Tick
      <3>. QED
        BY <3>1, <3>2 DEF Has
    <2>. QED
      BY <1>0, <2>1, <2>2, RequestsStayOrDie
  <1>. QED
    BY <1>1, <1>2

-----------------------------------------------------------------------------
(* The invariant and what follows from it.                                 *)

LEMMA EndpointInvInit == EndpointInit => EndpointInv /\ StoreInv
  <1>. SUFFICES ASSUME EndpointInit PROVE EndpointInv /\ StoreInv
    OBVIOUS
  <1>. USE EndpointKeys, StoreConstants, EndpointConstants
  <1>. DEFINE bound == Least(SessionLifetime, Day)
              first(g, a, k) ==
                IF k = g THEN NewRow(NoGrant, a, Day)
                ELSE IF k \in Codes THEN NewRow(g, a, Least(TokenLifetime, bound))
                ELSE IF k \in FirstRefresh THEN NewRow(g, a, bound) ELSE NoRow
  <1>1. PICK a \in Actors, s \in Sessions, g \in Grants :
          /\ clock = 0 /\ active = Actors /\ issued = {s}
          /\ sessions = [x \in Sessions |->
               IF x = s THEN [actor |-> a, expires |-> SessionLifetime] ELSE NoRow]
          /\ bindings = [x \in Grants |->
               IF x = g THEN [actor |-> a, session |-> s, expires |-> bound] ELSE NoRow]
          /\ records = [k \in Keys |-> first(g, a, k)]
          /\ pending = [t \in Tokens |-> NoRow]
          /\ req = [r \in Requests |-> Idle]
    BY DEF EndpointInit
  <1>2. /\ bound \in Nat /\ bound <= SessionLifetime
        /\ Least(TokenLifetime, bound) \in Nat /\ Least(TokenLifetime, bound) <= bound
        /\ Day \in Nat
    BY DEF Least
  <1>. HIDE DEF bound
  <1>3. \A k \in Keys : records[k] = first(g, a, k)
    BY <1>1
  <1>31. \A e \in Nat : NewRow(g, a, e) \in RecordRow /\ NewRow(NoGrant, a, e) \in RecordRow
    BY NewRowFacts
  <1>4. \A k \in Keys : records[k] \in RecordRow \union {NoRow}
    BY <1>2, <1>3, <1>31
  <1>5. StoreTypeOK
    BY <1>1, <1>2, <1>4 DEF StoreTypeOK, SessionRow, BindingRow, Time
  <1>6. Idle \in Request
    BY DEF Idle, Request, Time
  <1>7. EndpointTypeOK
    BY <1>1, <1>5, <1>6 DEF EndpointTypeOK
  <1>8. \A k \in Codes \union Tokens : Has(records, k) =>
          records[k].grant = g /\ records[k].account = a /\ records[k].expires <= bound
    BY <1>2, <1>3 DEF NewRow, Has
  <1>9. FamilyRows
    BY <1>1, <1>8 DEF FamilyRows, FamilyRow, Has
  <1>10. Minting
    BY <1>1 DEF Minting, Idle, Has
  <1>11. \A r \in Requests : RowSound(req[r])
    BY <1>1 DEF RowSound, Idle, InFlight
  <1>12. RedeemedOnce
    BY <1>1 DEF RedeemedOnce, Idle
  <1>81. Has(bindings, g) /\ bindings[g].actor = a /\ bindings[g].expires = bound
    <2>1. bindings[g] = [actor |-> a, session |-> s, expires |-> bound]
      BY <1>1
    <2>2. bindings[g] \in BindingRow
      BY <1>2, <2>1 DEF BindingRow, Time
    <2>. QED
      BY <2>1, <2>2, NoRowIsNotARow DEF Has
  <1>13. TokensWithinBinding
    BY <1>1, <1>8, <1>81 DEF TokensWithinBinding, WithinBinding, Has
  <1>14. PendingFresh
    BY <1>1 DEF PendingFresh, Has
  <1>15. BindingsWithinSession
    BY <1>1, <1>2 DEF BindingsWithinSession, Has
  <1>. QED
    BY <1>5, <1>7, <1>9, <1>10, <1>11, <1>12, <1>13, <1>14, <1>15 DEF EndpointInv, StoreInv

LEMMA EndpointInvStep == EndpointInv /\ [EndpointNext]_vars => EndpointInv'
  <1>. SUFFICES ASSUME EndpointInv, [EndpointNext]_vars PROVE EndpointInv'
    OBVIOUS
  <1>1. Statement
    BY StepIsStatement
  <1>2. ASSUME NEW r \in Requests,
               \/ \E k \in Redeemable : Begin(r, k)
               \/ CheckGrant(r) \/ FindAccount(r) \/ Redeem(r)
               \/ DetectReplay(r) \/ DestroyGrant(r)
               \/ InsertAccess(r) \/ CommitAccess(r) \/ InsertRefresh(r) \/ CommitRefresh(r)
               \/ FailSave(r) \/ Revoke(r) \/ FailRevoke(r)
        PROVE  EndpointInv'
    BY <1>1, <1>2, BeginKeeps, CheckGrantKeeps, FindAccountKeeps, RedeemKeeps, DetectReplayKeeps,
       DestroyKeeps, InsertAccessKeeps, CommitKeeps, InsertRefreshKeeps, FailKeeps
  <1>. QED
    BY <1>1, <1>2, OthersKeep DEF EndpointNext

LEMMA EndpointInvHolds == EndpointSpec => []EndpointInv
  BY EndpointInvInit, EndpointInvStep, PTL DEF EndpointSpec

\* Type correctness of the requests and of the store beneath them.
THEOREM EndpointTypeCorrect == EndpointSpec => []EndpointTypeOK
  BY EndpointInvHolds, PTL DEF EndpointInv

\* "Atomic consume cannot be won twice", whatever the number of requests for one key.
THEOREM KeysAreRedeemedOnce == EndpointSpec => []RedeemedOnce
  BY EndpointInvHolds, PTL DEF EndpointInv

\* A request begun after its family ended never succeeds.
THEOREM EndedFamiliesRefuse == EndpointSpec => []EndedFamilyRefuses
  <1>1. EndpointInv => EndedFamilyRefuses
    BY DEF EndpointInv, RowSound, EndedFamilyRefuses
  <1>. QED
    BY <1>1, EndpointInvHolds, PTL

\* An answered replay or failed rotation has ended its family.
THEOREM RefusalsEndFamilies == EndpointSpec => []RefusalEndsFamily
  <1>1. EndpointInv => RefusalEndsFamily
    BY DEF EndpointInv, RowSound, RefusalEndsFamily, IsCode
  <1>. QED
    BY <1>1, EndpointInvHolds, PTL

\* The endpoint implements the store: whatever requests, crashes and the environment do
\* is a statement of OidcStore or leaves its tables alone.
THEOREM EndpointUsesStore == EndpointSpec => [][StoreNext]_storeVars
  <1>1. EndpointInv /\ [EndpointNext]_vars => [StoreNext]_storeVars
    BY StepIsStatement, StatementIsStoreStep
  <1>. QED
    BY <1>1, EndpointInvHolds, PTL DEF EndpointSpec

\* So no token issued by these requests outlives its binding or its root session.
THEOREM EndpointKeepsTokensWithin == EndpointSpec => [](TokensWithinBinding /\ TokensWithinRoot)
  <1>1. EndpointInit => StoreInv
    BY EndpointInvInit
  <1>2. StoreInv => TokensWithinBinding
    BY DEF StoreInv
  <1>. QED
    BY <1>1, <1>2, InvStep, RootFromInv, EndpointUsesStore, PTL DEF EndpointSpec

-----------------------------------------------------------------------------
-----------------------------------------------------------------------------
(* InteractionConsent: what an authorization may rely on when it is issued.*)

\* A digest is never drawn again, so a session that has ended stays ended.
SessionsIssued ==
  /\ \A s \in Sessions : Has(sessions, s) => s \in issued
  /\ \A g \in Grants : Has(bindings, g) => bindings[g].session \in issued

SavedBy(g, f) == g \in Grants /\ savedFor[g] = f

FlowSound(f) ==
  LET x == flow[f] IN
  /\ \A g \in x.ended : Over(g)
  /\ x.pc \in {"authorized", "issued"} => x.grant \notin x.ended
  /\ x.consented => x.pc \in {"loading", "authorized", "issued"} /\ SavedBy(x.grant, f)
  /\ x.pc = "authorized" /\ f \in Devices => x.consented
  /\ x.result # "none" => x.pc = "interaction"
  /\ x.result = "consent" => SavedBy(x.grant, f)

\* A POST in flight is that of a page whose interaction still waits for it.
PostSound(f) ==
  LET p == post[f] IN
  p.pc # "idle" =>
    /\ flow[f].pc = "interaction" /\ flow[f].result = "none"
    /\ p.actor \in Actors /\ p.session \in Sessions
    /\ p.pc \in {"saved", "finish"} => SavedBy(p.grant, f)

ConsentInv ==
  /\ ConsentTypeOK /\ SessionsIssued
  /\ \A f \in Flows : FlowSound(f) /\ PostSound(f)
  /\ DeviceConsentFresh

-----------------------------------------------------------------------------
(* What the steps do to the store.                                         *)

LEMMA ConsentKeys ==
  /\ Flows \subseteq Keys /\ Grants \subseteq Keys /\ Codes \subseteq Flows /\ Devices \subseteq Flows
  /\ Flows \cap Grants = {} /\ Flows \cap Tokens = {} /\ Codes \cap Devices = {}
  /\ NoGrant \notin Grants /\ NoActor \notin Actors /\ NoRow \notin RecordRow
  /\ NoSession \notin Sessions /\ NoFlow \notin Flows
BY DisjointModels, ConsentConstants, NoRowIsNoRow, NoRowIsNotARow DEF Keys, Flows

LEMMA FlowFields ==
  ASSUME ConsentTypeOK, NEW f \in Flows
  PROVE  /\ flow[f] \in Flow /\ flow[f].account \in Account /\ flow[f].grant \in Grant
         /\ flow[f].subject \in Account /\ flow[f].consented \in BOOLEAN
         /\ flow[f].result \in {"none", "denied", "login", "consent"}
         /\ flow[f].ended \subseteq Grants
         /\ post[f] \in Post /\ post[f].actor \in Account /\ post[f].grant \in Grant
         /\ post[f].session \in Sessions \union {NoSession}
         /\ post[f].pc \in {"idle", "rooted", "saved", "finish"}
         /\ engine.account \in Account /\ engine.grant \in Grant
BY DEF ConsentTypeOK, Flow, Post

\* Whatever the browser's tabs do to the store is one of these statements.
ConsentStatement ==
  \/ UNCHANGED storeVars
  \/ \E f \in Flows, g \in Grant, a \in Account : UpsertPlain(f, g, a, 1)
  \/ \E g \in Grants, a \in Actors : UpsertPlain(g, NoGrant, a, Day)
  \/ \E g \in Grants, a \in Actors, s \in Sessions : BindSession(g, a, s)
  \/ \E s \in Sessions : Logout(s) \/ \E a \in Actors : CreateSession(s, a)
  \/ \E a \in Actors : SetStatus(a)

\* Who acts in a step, and what a step of one tab leaves alone.
LEMMA StepIsConsentStatement ==
  ASSUME ConsentInv, [ConsentNext]_consentVars
  PROVE  ConsentStatement
  <1>0. ConsentTypeOK /\ \A f \in Flows : PostSound(f)
    BY DEF ConsentInv
  <1>1. ASSUME NEW f \in Flows, Issue(f) PROVE ConsentStatement
    BY <1>0, <1>1, FlowFields DEF Issue, ConsentStatement
  <1>2. ASSUME NEW f \in Flows, Bind(f) PROVE ConsentStatement
    <2>. DEFINE p == post[f]
    <2>1. p.pc = "saved" /\ p.grant \in Grants /\ p.actor \in Actors /\ p.session \in Sessions
      BY <1>0, <1>2 DEF Bind, PostSound, SavedBy
    <2>2. BindSession(p.grant, p.actor, p.session) \/ UNCHANGED storeVars
      BY <1>2 DEF Bind
    <2>. QED
      BY <2>1, <2>2 DEF ConsentStatement
  <1>3. ASSUME NEW f \in Flows, NEW d \in {"approve", "deny"}, Admit(f, d) PROVE ConsentStatement
    <2>1. post[f].actor \in Actors /\ Unused \subseteq Grants
      BY <1>0, <1>3 DEF Admit, PostSound, Unused
    <2>2. CASE UNCHANGED storeVars
      BY <2>2 DEF ConsentStatement
    <2>3. CASE Unused # {} /\ UpsertPlain(CHOOSE g \in Unused : TRUE, NoGrant, post[f].actor, Day)
      BY <2>1, <2>3 DEF ConsentStatement
    <2>. QED
      BY <1>3, <2>2, <2>3 DEF Admit
  <1>4. ASSUME NEW f \in Flows,
               \/ LoadGrant(f) \/ Finish(f) \/ Authorize(f) \/ Show(f) \/ Lose(f) \/ Resume(f)
               \/ Submit(f) \/ FailPost(f)
        PROVE  ConsentStatement
    BY <1>4 DEF LoadGrant, Finish, Authorize, Show, Lose, Resume, Submit, FailPost, ConsentStatement
  <1>5. ASSUME NEW a \in Actors, SignIn(a) PROVE ConsentStatement
    <2>1. PICK s \in Sessions : CreateSession(s, a)
      BY <1>5 DEF SignIn
    <2>. QED
      BY <2>1 DEF ConsentStatement
  <1>6. ASSUME SignOut PROVE ConsentStatement
    BY <1>0, <1>6 DEF SignOut, ConsentTypeOK, ConsentStatement
  <1>7. ASSUME NEW a \in Actors, Disable(a) PROVE ConsentStatement
    BY <1>7 DEF Disable, ConsentStatement
  <1>8. CASE UNCHANGED consentVars
    BY <1>8 DEF consentVars, ConsentStatement
  <1>. QED
    BY <1>1, <1>2, <1>3, <1>4, <1>5, <1>6, <1>7, <1>8 DEF ConsentNext, Server, Browser

LEMMA ConsentStatementIsStoreStep ==
  ASSUME ConsentStatement
  PROVE  [StoreNext]_storeVars
  <1>1. ASSUME NEW f \in Flows, NEW g \in Grant, NEW a \in Account, UpsertPlain(f, g, a, 1)
        PROVE  StoreNext
    <2>1. 1 \in 1..MaxLifetime
      BY <1>1 DEF UpsertPlain
    <2>. QED
      BY <1>1, <2>1 DEF StoreNext, StatementsOn, Flows, Grant, Account
  <1>2. ASSUME NEW g \in Grants, NEW a \in Actors, UpsertPlain(g, NoGrant, a, Day) PROVE StoreNext
    <2>1. Day \in 1..MaxLifetime
      BY <1>2 DEF UpsertPlain
    <2>. QED
      BY <1>2, <2>1 DEF StoreNext, StatementsOn
  <1>. QED
    BY <1>1, <1>2, AllKeys DEF ConsentStatement, StoreNext, StatementsOn

\* Time stands still, sessions are only ever ended, bindings only added.
LEMMA StatementStands ==
  ASSUME StoreTypeOK, SessionsIssued, ConsentStatement
  PROVE  /\ clock' = clock
         /\ \A s \in issued \cap Sessions : sessions'[s] \in {sessions[s], NoRow}
         /\ \A g \in Grants : Has(bindings, g) => bindings'[g] = bindings[g]
         /\ SessionsIssued'
  <1>. USE DEF Has
  <1>1. clock' = clock /\ issued \subseteq issued'
    BY DEF ConsentStatement, storeVars, UpsertPlain, BindSession, Logout, CreateSession, SetStatus
  <1>2. ASSUME NEW t \in Sessions
        PROVE  /\ t \in issued => sessions'[t] \in {sessions[t], NoRow}
               /\ sessions'[t] # NoRow => t \in issued'
    <2>1. ASSUME NEW s \in Sessions, NEW a \in Actors, CreateSession(s, a)
          PROVE  /\ t \in issued => sessions'[t] = sessions[t]
                 /\ sessions'[t] # NoRow => t \in issued'
      BY <2>1 DEF CreateSession, StoreTypeOK, SessionsIssued
    <2>2. ASSUME NEW s \in Sessions, Logout(s)
          PROVE  sessions'[t] \in {sessions[t], NoRow}
      BY <2>2 DEF Logout, StoreTypeOK
    <2>3. \/ sessions' = sessions \/ \E s \in Sessions : Logout(s)
          \/ \E s \in Sessions, a \in Actors : CreateSession(s, a)
      BY DEF ConsentStatement, storeVars, UpsertPlain, BindSession, SetStatus
    <2>. QED
      BY <1>1, <2>1, <2>2, <2>3 DEF SessionsIssued
  <1>3. ASSUME NEW g \in Grants
        PROVE  /\ bindings[g] # NoRow => bindings'[g] = bindings[g]
               /\ bindings'[g] # NoRow => bindings'[g].session \in issued'
    <2>1. ASSUME NEW h \in Grants, NEW a \in Actors, NEW s \in Sessions, BindSession(h, a, s)
          PROVE  /\ bindings[g] # NoRow => bindings'[g] = bindings[g]
                 /\ bindings'[g] # NoRow => bindings'[g].session \in issued'
      <3>1. s \in issued /\ bindings[h] = NoRow
        BY <2>1 DEF BindSession, Bindable, Live, SessionsIssued
      <3>2. CASE g = h
        <4>1. bindings'[g].session = s
          BY <2>1, <3>2 DEF BindSession, StoreTypeOK
        <4>. QED
          BY <1>1, <3>1, <3>2, <4>1
      <3>3. CASE g # h
        <4>1. bindings'[g] = bindings[g]
          BY <2>1, <3>3 DEF BindSession, StoreTypeOK
        <4>. QED
          BY <1>1, <4>1 DEF SessionsIssued
      <3>. QED
        BY <3>2, <3>3
    <2>2. \/ bindings' = bindings
          \/ \E h \in Grants, a \in Actors, s \in Sessions : BindSession(h, a, s)
      BY DEF ConsentStatement, storeVars, UpsertPlain, CreateSession, Logout, SetStatus
    <2>. QED
      BY <1>1, <2>1, <2>2 DEF SessionsIssued
  <1>. QED
    BY <1>1, <1>2, <1>3 DEF SessionsIssued

\* A grant that is over stays over.
LEMMA OverStays ==
  ASSUME StoreTypeOK, SessionsIssued, ConsentStatement, NEW g \in Grants, Over(g)
  PROVE  Over(g)'
  <1>. USE DEF Has, Live
  <1>1. /\ clock' = clock /\ bindings'[g] = bindings[g] /\ bindings[g] # NoRow
        /\ bindings[g].session \in issued \cap Sessions
    BY StatementStands DEF Over, SessionsIssued, StoreTypeOK, BindingRow
  <1>2. sessions'[bindings[g].session] \in {sessions[bindings[g].session], NoRow}
    BY <1>1, StatementStands
  <1>. QED
    BY <1>1, <1>2 DEF Over

\* A Grant was saved by one POST, and that is not forgotten.
LEMMA SavedStays ==
  ASSUME ConsentTypeOK, [ConsentNext]_consentVars, NEW f \in Flows, NEW g, SavedBy(g, f)
  PROVE  SavedBy(g, f)'
  <1>1. \/ savedFor' = savedFor
        \/ \E h \in Unused, x \in Flows : savedFor' = [savedFor EXCEPT ![h] = x]
    <2>1. ASSUME NEW x \in Flows, NEW d \in {"approve", "deny"}, Admit(x, d)
          PROVE  \/ savedFor' = savedFor
                 \/ \E h \in Unused : savedFor' = [savedFor EXCEPT ![h] = x]
      BY <2>1 DEF Admit
    <2>. QED
      BY <2>1 DEF ConsentNext, Server, Browser, LoadGrant, Issue, Bind, Finish, Authorize, Show, Lose,
         Resume, Submit, FailPost, SignIn, SignOut, Disable, browser, consentVars
  <1>2. g \in Grants /\ savedFor[g] = f /\ g \notin Unused
    BY ConsentKeys DEF SavedBy, Unused
  <1>3. savedFor \in [Grants -> Flows \union {NoFlow}]
    BY DEF ConsentTypeOK
  <1>4. savedFor'[g] = f
    BY <1>1, <1>2, <1>3
  <1>. QED
    BY <1>2, <1>4 DEF SavedBy

-----------------------------------------------------------------------------
(* One tab moves.                                                          *)

\* All that another tab may lose is the engine session its request began with.
Stands(o) ==
  /\ post'[o] = post[o]
  /\ flow'[o].pc = flow[o].pc /\ flow'[o].grant = flow[o].grant
  /\ flow'[o].consented = flow[o].consented /\ flow'[o].result = flow[o].result
  /\ flow'[o].ended = flow[o].ended

LEMMA StandsIsSound ==
  ASSUME ConsentInv, [ConsentNext]_consentVars, NEW o \in Flows, Stands(o)
  PROVE  FlowSound(o)' /\ PostSound(o)'
  <1>0. /\ ConsentTypeOK /\ StoreTypeOK /\ SessionsIssued /\ FlowSound(o) /\ PostSound(o)
        /\ ConsentStatement /\ flow[o].ended \subseteq Grants
    BY StepIsConsentStatement, FlowFields DEF ConsentInv, ConsentTypeOK
  <1>1. ASSUME NEW g \in flow'[o].ended PROVE Over(g)'
    BY <1>0, <1>1, OverStays DEF Stands, FlowSound
  <1>2. ASSUME SavedBy(flow[o].grant, o) PROVE SavedBy(flow[o].grant, o)'
    <2>1. PICK g : g = flow[o].grant
      OBVIOUS
    <2>2. SavedBy(g, o)'
      BY <1>0, <1>2, <2>1, SavedStays
    <2>. QED
      BY <2>1, <2>2 DEF Stands, SavedBy
  <1>3. ASSUME SavedBy(post[o].grant, o) PROVE SavedBy(post[o].grant, o)'
    <2>1. PICK g : g = post[o].grant
      OBVIOUS
    <2>2. SavedBy(g, o)'
      BY <1>0, <1>3, <2>1, SavedStays
    <2>. QED
      BY <2>1, <2>2 DEF Stands, SavedBy
  <1>4. FlowSound(o)'
    BY <1>0, <1>1, <1>2 DEF Stands, FlowSound
  <1>5. PostSound(o)'
    BY <1>0, <1>3 DEF Stands, PostSound
  <1>. QED
    BY <1>4, <1>5

TabsSound ==
  /\ flow \in [Flows -> Flow] /\ post \in [Flows -> Post]
  /\ \A o \in Flows : FlowSound(o) /\ PostSound(o)

\* A tab takes its step: it is sound again, and the rest is as it was.
LEMMA TabMoves ==
  ASSUME ConsentInv, [ConsentNext]_consentVars, NEW f \in Flows, NEW x \in Flow, NEW p \in Post,
         flow' = [flow EXCEPT ![f] = x], post' = [post EXCEPT ![f] = p],
         FlowSound(f)', PostSound(f)'
  PROVE  TabsSound'
  <1>0. flow \in [Flows -> Flow] /\ post \in [Flows -> Post]
    BY DEF ConsentInv, ConsentTypeOK
  <1>1. flow' \in [Flows -> Flow] /\ post' \in [Flows -> Post]
    BY <1>0
  <1>2. \A o \in Flows : o # f => flow'[o] = flow[o] /\ post'[o] = post[o]
    BY <1>0
  <1>3. \A o \in Flows : o # f => Stands(o)
    BY <1>2 DEF Stands
  <1>4. \A o \in Flows : FlowSound(o)' /\ PostSound(o)'
    BY <1>3, StandsIsSound
  <1>. QED
    BY <1>1, <1>4 DEF TabsSound

LEMMA NewFlowIsFlow ==
  /\ NewFlow \in Flow /\ NoPost \in Post
  /\ \A p \in {"new", "loading", "interaction", "authorized", "issued", "denied", "refused"} :
       [NewFlow EXCEPT !.pc = p] \in Flow
BY DEF NewFlow, Flow, NoPost, Post, Account, Grant

LEMMA LoadingIsFlow ==
  ASSUME NEW a \in Account, NEW g \in Grant, NEW c \in BOOLEAN
  PROVE  /\ Loading(a, g, c) \in Flow
         /\ Loading(a, g, c).pc = "loading" /\ Loading(a, g, c).grant = g
         /\ Loading(a, g, c).consented = c /\ Loading(a, g, c).result = "none"
         /\ Loading(a, g, c).ended = {h \in Grants : Over(h)}
  <1>. DEFINE e == {h \in Grants : Over(h)}
              t == IF a = NoActor THEN "none" ELSE "live"
  <1>1. e \subseteq Grants /\ t \in {"none", "live"} /\ e = {h \in Grants : Over(h)}
    OBVIOUS
  <1>2. Loading(a, g, c) = [NewFlow EXCEPT !.pc = "loading", !.account = a, !.grant = g,
                              !.consented = c, !.session = t, !.ended = e]
    BY DEF Loading
  <1>. HIDE DEF e, t
  <1>3. Loading(a, g, c) =
          [pc |-> "loading", account |-> a, session |-> t, grant |-> g, consented |-> c,
           prompt |-> "none", result |-> "none", subject |-> NoActor, ended |-> e]
    BY <1>2 DEF NewFlow
  <1>4. Loading(a, g, c) \in Flow
    BY <1>1, <1>3 DEF Flow, Account, Grant
  <1>. QED
    BY <1>1, <1>3, <1>4

LEMMA EndedFlow ==
  ASSUME NEW p
  PROVE  /\ [NewFlow EXCEPT !.pc = p].pc = p /\ [NewFlow EXCEPT !.pc = p].ended = {}
         /\ [NewFlow EXCEPT !.pc = p].consented = FALSE /\ [NewFlow EXCEPT !.pc = p].result = "none"
BY DEF NewFlow

\* What a tab's own step can rely on.
LEMMA OwnFacts ==
  ASSUME ConsentInv, [ConsentNext]_consentVars, NEW f \in Flows
  PROVE  /\ flow[f] \in Flow /\ post[f] \in Post /\ FlowSound(f) /\ PostSound(f)
         /\ flow = [flow EXCEPT ![f] = flow[f]] /\ post = [post EXCEPT ![f] = post[f]]
         /\ flow[f].ended \subseteq Grants
         /\ \A g \in Grants : Over(g) => Over(g)'
         /\ \A g : SavedBy(g, f) => g \in Grants /\ savedFor'[g] = f
  <1>1. /\ ConsentTypeOK /\ StoreTypeOK /\ SessionsIssued /\ ConsentStatement
        /\ FlowSound(f) /\ PostSound(f)
    BY StepIsConsentStatement DEF ConsentInv, ConsentTypeOK
  <1>2. \A g \in Grants : Over(g) => Over(g)'
    BY <1>1, OverStays
  <1>3. ASSUME NEW g, SavedBy(g, f) PROVE g \in Grants /\ savedFor'[g] = f
    <2>1. SavedBy(g, f)'
      BY <1>1, <1>3, SavedStays
    <2>. QED
      BY <2>1 DEF SavedBy
  <1>. QED
    BY <1>1, <1>2, <1>3, FlowFields DEF ConsentTypeOK

\* The request is over, and so is the POST of its page.
LEMMA EndIsSound ==
  ASSUME ConsentInv, [ConsentNext]_consentVars, NEW f \in Flows, NEW p \in {"new", "denied", "refused"},
         End(f, p), Drop(f) \/ (UNCHANGED post /\ post[f].pc = "idle")
  PROVE  TabsSound'
  <1>0. /\ flow[f] \in Flow /\ post[f] \in Post /\ post = [post EXCEPT ![f] = post[f]]
        /\ flow \in [Flows -> Flow] /\ post \in [Flows -> Post]
    BY OwnFacts DEF ConsentInv, ConsentTypeOK
  <1>1. PICK x \in Flow : x = [NewFlow EXCEPT !.pc = p]
    BY NewFlowIsFlow
  <1>2. PICK q \in Post : q.pc = "idle" /\ post' = [post EXCEPT ![f] = q]
    BY <1>0, NewFlowIsFlow DEF Drop, NoPost
  <1>3. flow' = [flow EXCEPT ![f] = x]
    BY <1>1 DEF End
  <1>4. x.pc = p /\ x.ended = {} /\ x.consented = FALSE /\ x.result = "none"
    BY <1>1, EndedFlow
  <1>5. flow'[f] = x /\ post'[f] = q
    BY <1>0, <1>2, <1>3
  <1>6. FlowSound(f)' /\ PostSound(f)'
    BY <1>2, <1>4, <1>5 DEF FlowSound, PostSound
  <1>. QED
    BY <1>2, <1>3, <1>6, TabMoves

\* A request begins, or begins again with what its interaction brought.
LEMMA LoadingIsSound ==
  ASSUME ConsentInv, [ConsentNext]_consentVars, NEW f \in Flows, UNCHANGED <<storeVars, post>>,
         post[f].pc = "idle", NEW a \in Account, NEW g \in Grant, NEW c \in BOOLEAN,
         flow'[f] = Loading(a, g, c), c => SavedBy(g, f)
  PROVE  FlowSound(f)' /\ PostSound(f)'
  <1>1. /\ flow'[f].pc = "loading" /\ flow'[f].grant = g /\ flow'[f].consented = c
        /\ flow'[f].result = "none" /\ flow'[f].ended = {h \in Grants : Over(h)}
    BY LoadingIsFlow
  <1>2. \A h \in flow'[f].ended : Over(h)'
    BY <1>1, OwnFacts
  <1>3. c => g \in Grants /\ savedFor'[g] = f
    BY OwnFacts
  <1>4. FlowSound(f)'
    BY <1>1, <1>2, <1>3 DEF FlowSound, SavedBy
  <1>5. PostSound(f)'
    BY DEF PostSound
  <1>. QED
    BY <1>4, <1>5

LEMMA AuthorizeIsSound ==
  ASSUME ConsentInv, NEW f \in Flows, Authorize(f)
  PROVE  TabsSound'
  <1>0. /\ [ConsentNext]_consentVars /\ post[f] \in Post /\ post = [post EXCEPT ![f] = post[f]]
        /\ flow \in [Flows -> Flow] /\ engine.account \in Account /\ engine.grant \in Grant
    BY OwnFacts, FlowFields DEF ConsentInv, ConsentTypeOK, ConsentNext, Browser
  <1>1. PICK x \in Flow : x = Loading(engine.account, engine.grant, FALSE)
    BY <1>0, LoadingIsFlow
  <1>2. /\ flow' = [flow EXCEPT ![f] = x] /\ flow'[f] = x /\ UNCHANGED <<storeVars, post>>
        /\ flow[f].pc = "new"
    BY <1>0, <1>1 DEF Authorize
  <1>3. post[f].pc = "idle"
    BY <1>2, FlowFields DEF ConsentInv, PostSound
  <1>4. FlowSound(f)' /\ PostSound(f)'
    BY <1>0, <1>1, <1>2, <1>3, LoadingIsSound
  <1>5. post' = [post EXCEPT ![f] = post[f]]
    BY <1>0, <1>2
  <1>. QED
    BY <1>0, <1>2, <1>4, <1>5, TabMoves

\* The decisive step: a grant is loaded only while its root is current, so it is none of
\* those that were over when the request began; a device's is the one it consented to.
LEMMA LoadGrantIsSound ==
  ASSUME ConsentInv, NEW f \in Flows, LoadGrant(f)
  PROVE  TabsSound'
  <1>. DEFINE x == flow[f]
  <1>0. /\ [ConsentNext]_consentVars /\ x \in Flow /\ post[f] \in Post
        /\ post = [post EXCEPT ![f] = post[f]] /\ flow \in [Flows -> Flow]
        /\ x.pc = "loading" /\ UNCHANGED <<storeVars, post, savedFor>>
    BY OwnFacts DEF ConsentInv, ConsentTypeOK, ConsentNext, Server, LoadGrant
  <1>1. /\ FlowSound(f) /\ post[f].pc = "idle" /\ x.result = "none"
        /\ \A g \in x.ended : Over(g)'
        /\ \A g : SavedBy(g, f) => g \in Grants /\ savedFor'[g] = f
    BY <1>0, OwnFacts DEF FlowSound, PostSound
  <1>2. ASSUME NEW prompt \in {"login", "consent"}, Prompt(f, prompt) PROVE TabsSound'
    <2>1. PICK y : y = [x EXCEPT !.pc = "interaction", !.prompt = prompt, !.grant = NoGrant,
                                 !.consented = FALSE, !.ended = {}]
      OBVIOUS
    <2>2. /\ y \in Flow /\ y.pc = "interaction" /\ y.ended = {} /\ y.consented = FALSE
          /\ y.result = "none"
      BY <1>0, <1>1, <2>1 DEF Flow, Grant
    <2>3. flow' = [flow EXCEPT ![f] = y] /\ flow'[f] = y
      BY <1>0, <1>2, <2>1 DEF Prompt
    <2>4. FlowSound(f)' /\ PostSound(f)'
      BY <1>0, <1>1, <2>2, <2>3 DEF FlowSound, PostSound
    <2>. QED
      BY <1>0, <2>2, <2>3, <2>4, TabMoves
  <1>3. ASSUME End(f, "refused") PROVE TabsSound'
    BY <1>0, <1>1, <1>3, EndIsSound
  <1>4. ASSUME ~NeedsConsent(f), FlowTo(f, "authorized") PROVE TabsSound'
    <2>1. PICK y : y = [x EXCEPT !.pc = "authorized"]
      OBVIOUS
    <2>2. /\ y \in Flow /\ y.pc = "authorized" /\ y.ended = x.ended /\ y.consented = x.consented
          /\ y.grant = x.grant /\ y.result = x.result
      BY <1>0, <2>1 DEF Flow
    <2>3. flow' = [flow EXCEPT ![f] = y] /\ flow'[f] = y
      BY <1>0, <1>4, <2>1 DEF FlowTo
    <2>4. x.grant \notin x.ended
      <3>1. RootCurrent(x.grant, x.account)
        BY <1>4 DEF NeedsConsent, Loadable
      <3>2. ~Over(x.grant)
        BY <3>1 DEF RootCurrent, Over
      <3>. QED
        BY <1>1, <3>2 DEF FlowSound
    <2>5. f \in Devices => x.consented
      BY <1>4 DEF NeedsConsent
    <2>6. FlowSound(f)' /\ PostSound(f)'
      BY <1>0, <1>1, <2>2, <2>3, <2>4, <2>5 DEF FlowSound, PostSound, SavedBy
    <2>. QED
      BY <1>0, <2>2, <2>3, <2>6, TabMoves
  <1>. QED
    BY <1>2, <1>3, <1>4 DEF LoadGrant

LEMMA IssueIsSound ==
  ASSUME ConsentInv, NEW f \in Flows, Issue(f)
  PROVE  TabsSound'
  <1>. DEFINE x == flow[f]
  <1>0. /\ [ConsentNext]_consentVars /\ x \in Flow /\ post[f] \in Post
        /\ post = [post EXCEPT ![f] = post[f]] /\ flow \in [Flows -> Flow]
        /\ x.pc = "authorized" /\ UNCHANGED <<post, savedFor>> /\ FlowTo(f, "issued")
    BY OwnFacts DEF ConsentInv, ConsentTypeOK, ConsentNext, Server, Issue
  <1>1. /\ FlowSound(f) /\ post[f].pc = "idle" /\ x.result = "none"
        /\ \A g \in x.ended : Over(g)'
        /\ \A g : SavedBy(g, f) => g \in Grants /\ savedFor'[g] = f
    BY <1>0, OwnFacts DEF FlowSound, PostSound
  <1>2. PICK y : y = [x EXCEPT !.pc = "issued"]
    OBVIOUS
  <1>3. /\ y \in Flow /\ y.pc = "issued" /\ y.ended = x.ended /\ y.consented = x.consented
        /\ y.grant = x.grant /\ y.result = x.result
    BY <1>0, <1>2 DEF Flow
  <1>4. flow' = [flow EXCEPT ![f] = y] /\ flow'[f] = y
    BY <1>0, <1>2 DEF FlowTo
  <1>5. FlowSound(f)' /\ PostSound(f)'
    BY <1>0, <1>1, <1>3, <1>4 DEF FlowSound, PostSound, SavedBy
  <1>. QED
    BY <1>0, <1>3, <1>4, <1>5, TabMoves

LEMMA ResumeIsSound ==
  ASSUME ConsentInv, NEW f \in Flows, Resume(f)
  PROVE  TabsSound'
  <1>. DEFINE x == flow[f]
  <1>0. /\ [ConsentNext]_consentVars /\ x \in Flow /\ post[f] \in Post
        /\ post = [post EXCEPT ![f] = post[f]] /\ flow \in [Flows -> Flow] /\ post \in [Flows -> Post]
        /\ x.pc = "interaction" /\ x.result # "none" /\ UNCHANGED <<storeVars, post, savedFor>>
        /\ engine.account \in Account /\ engine.grant \in Grant
        /\ x.grant \in Grant /\ x.subject \in Account
    BY OwnFacts, FlowFields DEF ConsentInv, ConsentTypeOK, ConsentNext, Browser, Resume
  <1>1. FlowSound(f) /\ post[f].pc = "idle"
    BY <1>0, OwnFacts DEF PostSound
  <1>2. ASSUME flow' = [flow EXCEPT ![f] = NewFlow] PROVE TabsSound'
    <2>1. flow'[f] = NewFlow /\ NewFlow \in Flow
      BY <1>0, <1>2, NewFlowIsFlow
    <2>2. FlowSound(f)' /\ PostSound(f)'
      BY <1>0, <1>1, <2>1 DEF FlowSound, PostSound, NewFlow
    <2>. QED
      BY <1>0, <1>2, <2>1, <2>2, TabMoves
  <1>3. ASSUME End(f, "refused") \/ End(f, "denied") PROVE TabsSound'
    BY <1>0, <1>1, <1>3, EndIsSound
  <1>4. ASSUME LoggedIn(f, x.subject) PROVE TabsSound'
    <2>1. PICK g \in Grant : flow'[f] = Loading(x.subject, g, FALSE)
      <3>1. flow'[f] = Loading(x.subject, IF engine.account = x.subject THEN engine.grant ELSE NoGrant, FALSE)
        BY <1>4 DEF LoggedIn
      <3>. QED
        BY <1>0, <3>1 DEF Grant
    <2>2. FlowSound(f)' /\ PostSound(f)'
      BY <1>0, <1>1, <2>1, LoadingIsSound
    <2>3. ASSUME NEW o \in Flows, o # f PROVE flow'[o] \in Flow /\ Stands(o)
      <3>1. flow[o] \in Flow
        BY <1>0
      <3>2. flow'[o] = flow[o] \/ flow'[o] = [flow[o] EXCEPT !.session = "gone"]
        BY <1>4, <2>3 DEF LoggedIn
      <3>. QED
        BY <1>0, <3>1, <3>2 DEF Flow, Stands
    <2>4. flow' \in [Flows -> Flow]
      <3>1. flow'[f] \in Flow
        <4>1. FALSE \in BOOLEAN
          OBVIOUS
        <4>2. Loading(x.subject, g, FALSE) \in Flow
          BY <1>0, <4>1, LoadingIsFlow
        <4>. QED
          BY <2>1, <4>2
      <3>2. DOMAIN flow' = Flows /\ flow' = [o \in Flows |-> flow'[o]]
        BY <1>4 DEF LoggedIn
      <3>. QED
        BY <2>3, <3>1, <3>2
    <2>5. \A o \in Flows : FlowSound(o)' /\ PostSound(o)'
      BY <1>0, <2>2, <2>3, StandsIsSound
    <2>. QED
      BY <1>0, <2>4, <2>5 DEF TabsSound
  <1>5. ASSUME x.result = "consent",
               flow' = [flow EXCEPT ![f] = Loading(engine.account, x.grant, TRUE)]
        PROVE  TabsSound'
    <2>1. PICK y \in Flow : y = Loading(engine.account, x.grant, TRUE)
      BY <1>0, LoadingIsFlow
    <2>2. flow' = [flow EXCEPT ![f] = y] /\ flow'[f] = y
      BY <1>0, <1>5, <2>1
    <2>3. PICK g \in Grant : g = x.grant /\ SavedBy(g, f) /\ flow'[f] = Loading(engine.account, g, TRUE)
      BY <1>0, <1>1, <1>5, <2>1, <2>2 DEF FlowSound
    <2>4. FlowSound(f)' /\ PostSound(f)'
      BY <1>0, <1>1, <2>3, LoadingIsSound
    <2>. QED
      BY <1>0, <2>2, <2>4, TabMoves
  <1>. QED
    BY <1>2, <1>3, <1>4, <1>5 DEF Resume

\* Showing a page changes the CSRF cookie only; submitting it starts its POST.
LEMMA PageIsSound ==
  ASSUME ConsentInv, NEW f \in Flows, Show(f) \/ Lose(f) \/ Submit(f)
  PROVE  TabsSound'
  <1>0. /\ [ConsentNext]_consentVars /\ flow[f] \in Flow /\ post[f] \in Post
        /\ flow = [flow EXCEPT ![f] = flow[f]] /\ post = [post EXCEPT ![f] = post[f]]
        /\ flow \in [Flows -> Flow] /\ post \in [Flows -> Post] /\ StoreTypeOK /\ ConsentTypeOK
    BY OwnFacts DEF ConsentInv, ConsentTypeOK, ConsentNext, Browser
  <1>1. FlowSound(f) /\ PostSound(f)
    BY DEF ConsentInv
  <1>2. CASE Show(f)
    <2>1. \A o \in Flows : Stands(o)
      BY <1>2 DEF Show, Stands
    <2>. QED
      BY <1>0, <1>2, <2>1, StandsIsSound DEF Show, TabsSound
  <1>3. CASE Lose(f)
    BY <1>0, <1>3, EndIsSound DEF Lose, Waiting
  <1>4. CASE Submit(f)
    <2>. DEFINE q == [pc |-> "rooted", actor |-> sessions[root].actor, session |-> root,
                      grant |-> NoGrant]
    <2>1. /\ root \in Sessions /\ sessions[root].actor \in Actors
          /\ flow[f].pc = "interaction" /\ flow[f].result = "none"
          /\ post' = [post EXCEPT ![f] = q] /\ UNCHANGED <<storeVars, flow, savedFor>>
      BY <1>0, <1>4 DEF Submit, Waiting, CurrentRoot, Live, Has, ConsentTypeOK, StoreTypeOK, SessionRow
    <2>2. q \in Post
      BY <2>1 DEF Post, Account, Grant
    <2>3. post'[f] = q /\ flow' = [flow EXCEPT ![f] = flow[f]] /\ flow'[f] = flow[f]
      BY <1>0, <2>1
    <2>4. PostSound(f)'
      BY <2>1, <2>3 DEF PostSound
    <2>5. FlowSound(f)'
      BY <1>0, <1>1, <2>1, <2>3, OwnFacts DEF FlowSound, SavedBy
    <2>. QED
      BY <1>0, <2>1, <2>2, <2>3, <2>4, <2>5, TabMoves
  <1>. QED
    BY <1>2, <1>3, <1>4

\* interactionFinished stores the result of the interaction that the POST belongs to.
LEMMA FinishedIsSound ==
  ASSUME ConsentInv, [ConsentNext]_consentVars, NEW f \in Flows, post[f].pc # "idle",
         NEW result \in {"denied", "login", "consent"}, Finished(f, result), Drop(f),
         result = "consent" => SavedBy(post[f].grant, f)
  PROVE  TabsSound'
  <1>. DEFINE x == flow[f]
  <1>0. /\ x \in Flow /\ FlowSound(f) /\ x.pc = "interaction" /\ post[f].actor \in Account
        /\ post[f].grant \in Grant /\ flow \in [Flows -> Flow] /\ post \in [Flows -> Post]
        /\ \A g \in x.ended : Over(g)'
        /\ \A g : SavedBy(g, f) => g \in Grants /\ savedFor'[g] = f
    BY OwnFacts, FlowFields DEF ConsentInv, ConsentTypeOK, FlowSound, PostSound
  <1>1. PICK y : y = [x EXCEPT !.result = result, !.subject = post[f].actor, !.grant = post[f].grant]
    OBVIOUS
  <1>2. /\ y \in Flow /\ y.pc = "interaction" /\ y.ended = x.ended /\ y.consented = x.consented
        /\ y.grant = post[f].grant /\ y.result = result
    BY <1>0, <1>1 DEF Flow
  <1>3. flow' = [flow EXCEPT ![f] = y] /\ flow'[f] = y
    BY <1>0, <1>1 DEF Finished
  <1>4. NoPost \in Post /\ post' = [post EXCEPT ![f] = NoPost] /\ post'[f].pc = "idle"
    BY <1>0, NewFlowIsFlow DEF Drop, NoPost
  <1>5. FlowSound(f)' /\ PostSound(f)'
    BY <1>0, <1>2, <1>3, <1>4 DEF FlowSound, PostSound, SavedBy
  <1>. QED
    BY <1>2, <1>3, <1>4, <1>5, TabMoves

\* A POST goes on, or is dropped, and its interaction waits.
LEMMA PostMoves ==
  ASSUME ConsentInv, [ConsentNext]_consentVars, NEW f \in Flows, UNCHANGED flow,
         NEW q \in Post, post' = [post EXCEPT ![f] = q],
         q.pc # "idle" =>
           /\ post[f].pc # "idle" /\ q.actor = post[f].actor /\ q.session = post[f].session
           /\ q.pc \in {"saved", "finish"} => q.grant \in Grants /\ savedFor'[q.grant] = f
  PROVE  TabsSound'
  <1>0. /\ flow[f] \in Flow /\ FlowSound(f) /\ PostSound(f) /\ post \in [Flows -> Post]
        /\ flow = [flow EXCEPT ![f] = flow[f]]
        /\ \A g \in flow[f].ended : Over(g)'
        /\ \A g : SavedBy(g, f) => g \in Grants /\ savedFor'[g] = f
    BY OwnFacts DEF ConsentInv, ConsentTypeOK, FlowSound
  <1>1. flow' = [flow EXCEPT ![f] = flow[f]] /\ flow'[f] = flow[f] /\ post'[f] = q
    BY <1>0
  <1>2. FlowSound(f)'
    BY <1>0, <1>1 DEF FlowSound, SavedBy
  <1>3. PostSound(f)'
    BY <1>0, <1>1 DEF PostSound, SavedBy
  <1>. QED
    BY <1>0, <1>1, <1>2, <1>3, TabMoves

LEMMA PostIsSound ==
  ASSUME ConsentInv, NEW f \in Flows,
         Bind(f) \/ Finish(f) \/ FailPost(f) \/ \E d \in {"approve", "deny"} : Admit(f, d)
  PROVE  TabsSound'
  <1>. DEFINE p == post[f]
  <1>0. /\ [ConsentNext]_consentVars /\ p \in Post /\ PostSound(f) /\ ConsentTypeOK
        /\ flow \in [Flows -> Flow] /\ post \in [Flows -> Post] /\ NoPost \in Post /\ NoPost.pc = "idle"
    BY OwnFacts, NewFlowIsFlow DEF ConsentInv, ConsentTypeOK, ConsentNext, Server, NoPost
  <1>1. ASSUME UNCHANGED flow, Drop(f) PROVE TabsSound'
    BY <1>0, <1>1, PostMoves DEF Drop
  <1>2. CASE Bind(f)
    <2>1. p.pc = "saved" /\ UNCHANGED <<flow, savedFor>> /\ SavedBy(p.grant, f)
      BY <1>0, <1>2 DEF Bind, PostSound
    <2>2. CASE Drop(f)
      BY <1>1, <2>1, <2>2
    <2>3. CASE post' = [post EXCEPT ![f].pc = "finish"]
      <3>1. PICK q : q = [p EXCEPT !.pc = "finish"]
        OBVIOUS
      <3>2. /\ q \in Post /\ q.pc = "finish" /\ q.actor = p.actor /\ q.session = p.session
            /\ q.grant = p.grant
        BY <1>0, <3>1 DEF Post
      <3>3. post' = [post EXCEPT ![f] = q]
        BY <1>0, <2>3, <3>1
      <3>. QED
        BY <1>0, <2>1, <3>2, <3>3, PostMoves DEF SavedBy
    <2>. QED
      BY <1>2, <2>2, <2>3 DEF Bind
  <1>3. CASE Finish(f)
    <2>1. p.pc = "finish" /\ SavedBy(p.grant, f) /\ Drop(f)
      BY <1>0, <1>3 DEF Finish, PostSound
    <2>. QED
      BY <1>0, <1>3, <2>1, EndIsSound, FinishedIsSound DEF Finish
  <1>4. CASE FailPost(f)
    BY <1>0, <1>4, EndIsSound DEF FailPost
  <1>5. ASSUME NEW d \in {"approve", "deny"}, Admit(f, d) PROVE TabsSound'
    <2>0. p.pc = "rooted"
      BY <1>5 DEF Admit
    <2>1. CASE End(f, "refused") /\ Drop(f)
      BY <1>0, <2>1, EndIsSound
    <2>2. CASE Drop(f) /\ UNCHANGED flow
      BY <1>1, <2>2
    <2>3. ASSUME Admission(f, d) \in {"denied", "login"}, Finished(f, Admission(f, d)), Drop(f)
          PROVE  TabsSound'
      BY <1>0, <2>0, <2>3, FinishedIsSound
    <2>4. CASE /\ Unused # {} /\ UNCHANGED flow
               /\ savedFor' = [savedFor EXCEPT ![CHOOSE g \in Unused : TRUE] = f]
               /\ post' = [post EXCEPT ![f].pc = "saved", ![f].grant = CHOOSE g \in Unused : TRUE]
      <3>1. PICK g \in Unused : g = CHOOSE h \in Unused : TRUE
        BY <2>4
      <3>2. g \in Grants /\ savedFor'[g] = f
        BY <1>0, <2>4, <3>1 DEF Unused, ConsentTypeOK
      <3>3. PICK q : q = [p EXCEPT !.pc = "saved", !.grant = g]
        OBVIOUS
      <3>4. /\ q \in Post /\ q.pc = "saved" /\ q.actor = p.actor /\ q.session = p.session
            /\ q.grant = g
        BY <1>0, <3>2, <3>3 DEF Post, Grant
      <3>5. post' = [post EXCEPT ![f] = q]
        BY <1>0, <2>4, <3>1, <3>3
      <3>6. /\ post[f].pc # "idle" /\ q.actor = post[f].actor /\ q.session = post[f].session
            /\ q.grant \in Grants /\ savedFor'[q.grant] = f /\ UNCHANGED flow
        BY <2>0, <2>4, <3>2, <3>4
      <3>. QED
        BY <1>0, <3>4, <3>5, <3>6, PostMoves
    <2>. QED
      BY <1>5, <2>1, <2>2, <2>3, <2>4 DEF Admit
  <1>. QED
    BY <1>2, <1>3, <1>4, <1>5

LEMMA TabsStaySound ==
  ASSUME ConsentInv, [ConsentNext]_consentVars
  PROVE  TabsSound'
  <1>1. ASSUME UNCHANGED <<flow, post>> PROVE TabsSound'
    <2>1. \A o \in Flows : Stands(o)
      BY <1>1 DEF Stands
    <2>. QED
      BY <1>1, <2>1, StandsIsSound DEF TabsSound, ConsentInv, ConsentTypeOK
  <1>2. CASE \E a \in Actors : SignIn(a) \/ Disable(a)
    BY <1>1, <1>2 DEF SignIn, Disable, browser
  <1>3. CASE SignOut \/ UNCHANGED consentVars
    BY <1>1, <1>3 DEF SignOut, consentVars, browser
  <1>4. ASSUME NEW f \in Flows, Server(f) \/ Browser(f) \/ Submit(f) \/ FailPost(f)
        PROVE  TabsSound'
    BY <1>4, AuthorizeIsSound, LoadGrantIsSound, IssueIsSound, ResumeIsSound, PageIsSound, PostIsSound
    DEF Server, Browser
  <1>. QED
    BY <1>2, <1>3, <1>4 DEF ConsentNext

-----------------------------------------------------------------------------
(* The browser's cookies and the records of devices.                       *)

LEMMA ConsentTypes ==
  ASSUME ConsentInv, [ConsentNext]_consentVars
  PROVE  ConsentTypeOK'
  <1>0. ConsentTypeOK /\ ConsentStatement /\ StoreTypeOK
    BY StepIsConsentStatement DEF ConsentInv, ConsentTypeOK
  <1>1. StoreTypeOK'
    BY <1>0, ConsentStatementIsStoreStep, TypeStep
  <1>2. TabsSound'
    BY TabsStaySound
  <1>3. root' \in Sessions \union {NoSession}
    BY <1>0 DEF ConsentTypeOK, ConsentNext, Server, Browser, LoadGrant, Issue, Bind, Finish, Admit,
       Authorize, Show, Lose, Resume, Submit, FailPost, SignIn, SignOut, Disable, browser, consentVars
  <1>4. seed' \in Flows \union {NoFlow}
    BY <1>0 DEF ConsentTypeOK, ConsentNext, Server, Browser, LoadGrant, Issue, Bind, Finish, Admit,
       Authorize, Show, Lose, Resume, Submit, FailPost, SignIn, SignOut, Disable, browser, consentVars
  <1>5. engine' \in [account : Account, grant : Grant]
    <2>1. ASSUME NEW f \in Flows, Resume(f) PROVE engine' \in [account : Account, grant : Grant]
      <3>1. /\ flow[f].subject \in Account /\ flow[f].grant \in Grant
            /\ engine.account \in Account /\ engine.grant \in Grant
        BY <1>0, FlowFields
      <3>2. ASSUME LoggedIn(f, flow[f].subject) PROVE engine' \in [account : Account, grant : Grant]
        BY <3>1, <3>2 DEF LoggedIn, Grant
      <3>3. \/ engine' = engine \/ LoggedIn(f, flow[f].subject)
            \/ engine' = [engine EXCEPT !.grant = flow[f].grant]
        BY <2>1 DEF Resume
      <3>. QED
        BY <1>0, <3>1, <3>2, <3>3 DEF ConsentTypeOK
    <2>2. engine' = engine \/ \E f \in Flows : Resume(f)
      BY DEF ConsentNext, Server, Browser, LoadGrant, Issue, Bind, Finish, Admit, Authorize, Show, Lose,
             Submit, FailPost, SignIn, SignOut, Disable, browser, consentVars
    <2>. QED
      BY <1>0, <2>1, <2>2 DEF ConsentTypeOK
  <1>6. savedFor' \in [Grants -> Flows \union {NoFlow}]
    <2>1. ASSUME NEW f \in Flows, NEW d \in {"approve", "deny"}, Admit(f, d)
          PROVE  savedFor' \in [Grants -> Flows \union {NoFlow}]
      BY <1>0, <2>1 DEF Admit, ConsentTypeOK
    <2>2. savedFor' = savedFor \/ \E f \in Flows, d \in {"approve", "deny"} : Admit(f, d)
      BY DEF ConsentNext, Server, Browser, LoadGrant, Issue, Bind, Finish, Authorize, Show, Lose, Resume,
             Submit, FailPost, SignIn, SignOut, Disable, browser, consentVars
    <2>. QED
      BY <1>0, <2>1, <2>2 DEF ConsentTypeOK
  <1>. QED
    BY <1>1, <1>2, <1>3, <1>4, <1>5, <1>6 DEF ConsentTypeOK, TabsSound

\* A device's record gets a grant only when the device is issued, with its own consent.
LEMMA DevicesStayFresh ==
  ASSUME ConsentInv, [ConsentNext]_consentVars
  PROVE  DeviceConsentFresh'
  <1>. USE DEF Has
  <1>0. /\ ConsentTypeOK /\ StoreTypeOK /\ DeviceConsentFresh /\ StoreTypeOK'
        /\ ConsentStatement
    BY ConsentTypes, StepIsConsentStatement DEF ConsentInv, ConsentTypeOK
  <1>. SUFFICES ASSUME NEW d \in Devices, records'[d] # NoRow, records'[d].grant # NoGrant
                PROVE  savedFor'[records'[d].grant] = d
    BY DEF DeviceConsentFresh
  <1>1. d \in Flows /\ d \in Keys /\ d \notin Grants
    BY ConsentKeys
  <1>2. ASSUME records'[d] = records[d] PROVE savedFor'[records'[d].grant] = d
    <2>1. PICK g : g = records[d].grant
      OBVIOUS
    <2>2. g \in Grants
      BY <1>0, <1>1, <1>2, <2>1 DEF StoreTypeOK, RecordRow
    <2>3. SavedBy(g, d)
      BY <1>0, <1>2, <2>1, <2>2 DEF DeviceConsentFresh, SavedBy
    <2>. QED
      BY <1>1, <1>2, <2>1, <2>3, OwnFacts
  <1>3. ASSUME Issue(d) PROVE savedFor'[records'[d].grant] = d
    <2>. DEFINE x == flow[d]
                new == NewRow(x.grant, x.account, clock + 1)
    <2>1. /\ x.pc = "authorized" /\ SavedBy(x.grant, d) /\ UNCHANGED savedFor
          /\ x.grant \in Grant /\ x.account \in Account /\ clock + 1 \in Nat
      BY <1>0, <1>1, <1>3, FlowFields DEF Issue, ConsentInv, FlowSound, StoreTypeOK, Time
    <2>2. new \in RecordRow /\ new.grant = x.grant
      BY <2>1, NewRowFacts DEF Grant, Account, NewRow
    <2>3. records'[d] = IF records[d] = NoRow THEN new ELSE Merge(records[d], new)
      BY <1>0, <1>1, <1>3 DEF Issue, UpsertPlain, StoreTypeOK
    <2>4. records'[d].grant = x.grant
      <3>1. CASE records[d] = NoRow
        BY <2>2, <2>3, <3>1
      <3>2. CASE records[d] # NoRow
        <4>1. records[d] \in RecordRow
          BY <1>0, <1>1, <3>2 DEF StoreTypeOK
        <4>. QED
          BY <2>2, <2>3, <3>2, <4>1, MergeFacts
      <3>. QED
        BY <3>1, <3>2
    <2>. QED
      BY <2>1, <2>4 DEF SavedBy
  <1>4. ASSUME ~Issue(d) PROVE records'[d] = records[d]
    <2>1. ASSUME NEW f \in Flows, f # d, Issue(f) PROVE records'[d] = records[d]
      BY <1>0, <1>1, <2>1 DEF Issue, UpsertPlain, StoreTypeOK
    <2>2. ASSUME NEW f \in Flows, NEW e \in {"approve", "deny"}, Admit(f, e) PROVE records'[d] = records[d]
      <3>1. CASE UNCHANGED storeVars
        BY <3>1 DEF storeVars
      <3>2. ASSUME NEW g \in Grants, UpsertPlain(g, NoGrant, post[f].actor, Day)
            PROVE  records'[d] = records[d]
        BY <1>0, <1>1, <3>2 DEF UpsertPlain, StoreTypeOK
      <3>3. CASE Unused # {} /\ UpsertPlain(CHOOSE g \in Unused : TRUE, NoGrant, post[f].actor, Day)
        BY <3>2, <3>3 DEF Unused
      <3>. QED
        BY <2>2, <3>1, <3>3 DEF Admit
    <2>3. \/ records' = records \/ \E f \in Flows : Issue(f)
          \/ \E f \in Flows, e \in {"approve", "deny"} : Admit(f, e)
      BY DEF ConsentNext, Server, Browser, LoadGrant, Bind, Finish, Authorize, Show, Lose, Resume,
             Submit, FailPost, SignIn, SignOut, Disable, browser, consentVars, storeVars, BindSession,
             CreateSession, Logout, SetStatus
    <2>. QED
      BY <1>4, <2>1, <2>2, <2>3
  <1>. QED
    BY <1>2, <1>3, <1>4

-----------------------------------------------------------------------------
(* The theorems.                                                           *)

LEMMA ConsentInvInit == ConsentInit => ConsentInv
  <1>. SUFFICES ASSUME ConsentInit PROVE ConsentInv
    OBVIOUS
  <1>. USE ConsentKeys, StoreConstants
  <1>0. /\ root \in Sessions /\ (CHOOSE a \in Actors : TRUE) \in Actors
        /\ SessionLifetime \in Nat /\ DeviceLifetime \in Nat
    BY ConsentConstants DEF ConsentInit
  <1>1. StoreTypeOK
    <2>1. sessions \in [Sessions -> SessionRow \union {NoRow}]
      <3>1. PICK a \in Actors : a = CHOOSE b \in Actors : TRUE
        BY <1>0
      <3>2. [actor |-> a, expires |-> SessionLifetime] \in SessionRow
        BY <1>0 DEF SessionRow, Time
      <3>. QED
        BY <3>1, <3>2 DEF ConsentInit
    <2>2. records \in [Keys -> RecordRow \union {NoRow}]
      <3>1. NewRow(NoGrant, NoActor, DeviceLifetime) \in RecordRow
        BY <1>0, NewRowFacts
      <3>. QED
        BY <3>1 DEF ConsentInit
    <2>. QED
      BY <1>0, <2>1, <2>2 DEF ConsentInit, StoreTypeOK, Time
  <1>2. ConsentTypeOK
    BY <1>0, <1>1, NewFlowIsFlow DEF ConsentInit, ConsentTypeOK, Account, Grant
  <1>3. SessionsIssued
    BY DEF ConsentInit, SessionsIssued, Has
  <1>4. \A f \in Flows : FlowSound(f) /\ PostSound(f)
    BY DEF ConsentInit, FlowSound, PostSound, NewFlow, NoPost
  <1>5. DeviceConsentFresh
    <2>1. \A d \in Devices : d \in Keys /\ records[d].grant = NoGrant
      BY DEF ConsentInit, NewRow
    <2>. QED
      BY <2>1 DEF DeviceConsentFresh
  <1>. QED
    BY <1>2, <1>3, <1>4, <1>5 DEF ConsentInv

LEMMA ConsentStep == ConsentInv /\ [ConsentNext]_consentVars => ConsentInv'
  <1>. SUFFICES ASSUME ConsentInv, [ConsentNext]_consentVars PROVE ConsentInv'
    OBVIOUS
  <1>1. SessionsIssued'
    BY StepIsConsentStatement, StatementStands DEF ConsentInv, ConsentTypeOK
  <1>. QED
    BY <1>1, ConsentTypes, TabsStaySound, DevicesStayFresh DEF ConsentInv, TabsSound

LEMMA ConsentInvHolds == ConsentSpec => []ConsentInv
  <1>. QED
    BY ConsentInvInit, ConsentStep, PTL DEF ConsentSpec

\* Type correctness: the tables, the browser's cookies, and what every tab is doing.
THEOREM ConsentTypeCorrect == ConsentSpec => []ConsentTypeOK
BY ConsentInvHolds, PTL DEF ConsentInv

\* Whatever the browser still carries, an authorization begun after the end of a grant's
\* root session issues nothing under that grant.
THEOREM EndedRootsIssueNothing == ConsentSpec => []EndedRootIssuesNothing
  <1>1. ConsentInv => EndedRootIssuesNothing
    BY DEF ConsentInv, FlowSound, EndedRootIssuesNothing
  <1>. QED
    BY <1>1, ConsentInvHolds, PTL

\* A device is only ever approved with the grant consented to in its own interaction.
THEOREM DeviceConsentIsFresh == ConsentSpec => []DeviceConsentFresh
BY ConsentInvHolds, PTL DEF ConsentInv

\* The interaction pages and the engine reach the store through its statements alone.
THEOREM ConsentUsesStore == ConsentSpec => [][StoreNext]_storeVars
  <1>1. ConsentInv /\ [ConsentNext]_consentVars => [StoreNext]_storeVars
    BY StepIsConsentStatement, ConsentStatementIsStoreStep
  <1>. QED
    BY <1>1, ConsentInvHolds, PTL DEF ConsentSpec

=============================================================================
