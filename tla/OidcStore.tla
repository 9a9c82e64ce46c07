----------------------------- MODULE OidcStore -----------------------------
(***************************************************************************)
(* The PostgreSQL store behind the shared-login authority: protocol        *)
(* records, grant-to-root-session bindings, and the actors and root        *)
(* sessions those statements join.  One action per SQL statement of        *)
(* src/cljs/axxium/extern/oidc_store.cljs.                                 *)
(*                                                                         *)
(* Statements are atomic except the token upsert.  That one is an INSERT   *)
(* ... SELECT over four tables that takes no lock on the rows it reads, so *)
(* under READ COMMITTED a DELETE by grant id can run between its snapshot  *)
(* and its commit and miss the row: the snapshot and the commit are two    *)
(* actions here, joined by "pending".  Every other statement either locks  *)
(* the one row it writes (consume) or commutes with the statements that    *)
(* could overlap it (bind-session! and logout).                            *)
(***************************************************************************)
EXTENDS Naturals, FiniteSets

CONSTANTS
  Actors, Sessions,        \* actor ids; root-session token digests
  Grants,                  \* ids of Grant records
  Codes, Devices,          \* ids of AuthorizationCode and DeviceCode records
  RefreshTokens, AccessTokens,
  NoRow, NoGrant, NoActor,
  Day,                     \* binding cap, and retention after expiry
  MaxLifetime,             \* require-lifetime!: longest lifetime of a record
  DeviceLifetime,          \* longest lifetime of a DeviceCode
  SessionLifetime,         \* lifetime of a root session
  SweepBatch,              \* rows one sweep may reclaim from a table
  MaxClock                 \* bound of the model: the clock stops here

Tokens  == RefreshTokens \union AccessTokens
Keys    == Tokens \union Codes \union Devices \union Grants
Time    == Nat

ASSUME StoreConstants ==
  /\ {Day, MaxLifetime, DeviceLifetime, SessionLifetime, SweepBatch} \subseteq Nat \ {0}
  /\ MaxClock \in Nat
  /\ DeviceLifetime <= MaxLifetime
ASSUME DisjointModels ==
  /\ RefreshTokens \cap AccessTokens = {}
  /\ Tokens \cap (Codes \union Devices \union Grants) = {}
  /\ Codes \cap (Devices \union Grants) = {}
  /\ Devices \cap Grants = {}
ASSUME NoRowIsNoRow == NoGrant \notin Grants /\ NoActor \notin Actors

SessionRow == [actor : Actors, expires : Time]
BindingRow == [actor : Actors, session : Sessions, expires : Time]
RecordRow  == [grant : Grants \union {NoGrant}, account : Actors \union {NoActor},
               expires : Time, consumed : BOOLEAN]

ASSUME NoRowIsNotARow == NoRow \notin SessionRow \union BindingRow \union RecordRow

VARIABLES
  clock,      \* clock_timestamp()
  active,     \* actors whose status is 'active'
  sessions,   \* table sessions, by token_hash
  issued,     \* digests ever inserted: a digest is never drawn twice
  bindings,   \* table axxium_oidc_grant_sessions, by grant_id
  records,    \* table axxium_oidc_records, by (model, id)
  pending     \* rows of token upserts past their snapshot, not yet committed

storeVars == <<clock, active, sessions, issued, bindings, records, pending>>

Least(m, n) == IF m <= n THEN m ELSE n
Has(table, k) == table[k] # NoRow
Live(table, k) == Has(table, k) /\ table[k].expires > clock
NewRow(g, a, e) == [grant |-> g, account |-> a, expires |-> e, consumed |-> FALSE]

StoreTypeOK ==
  /\ clock \in Time
  /\ active \subseteq Actors
  /\ sessions \in [Sessions -> SessionRow \union {NoRow}]
  /\ issued \subseteq Sessions
  /\ bindings \in [Grants -> BindingRow \union {NoRow}]
  /\ records \in [Keys -> RecordRow \union {NoRow}]
  /\ pending \in [Tokens -> RecordRow \union {NoRow}]

StoreInit ==
  /\ clock = 0
  /\ active = Actors
  /\ sessions = [s \in Sessions |-> NoRow]
  /\ issued = {}
  /\ bindings = [g \in Grants |-> NoRow]
  /\ records = [k \in Keys |-> NoRow]
  /\ pending = [t \in Tokens |-> NoRow]

-----------------------------------------------------------------------------
(* Queries.                                                                *)

\* session-grant-active?: binding, active actor and root session, all current.
RootCurrentUnjoined(g, a) == Live(bindings, g) /\ bindings[g].actor = a /\ a \in active
RootCurrent(g, a) ==
  /\ Live(bindings, g)
  /\ bindings[g].actor = a
  /\ a \in active
  /\ Live(sessions, bindings[g].session)
  /\ sessions[bindings[g].session].actor = a

\* session-grant-expiry!: the bound of everything issued under the grant (LEAST skips
\* the NULL of a missing row).
RootExpiry(g) ==
  IF Has(sessions, bindings[g].session)
    THEN Least(bindings[g].expires, sessions[bindings[g].session].expires)
    ELSE bindings[g].expires

\* The row a token upsert selects: it exists only for a current root whose Grant
\* record is live, and expires no later than its parents.
UpsertSelects(g, a) == RootCurrent(g, a) /\ Live(records, g)
SelectedRowUncapped(g, a, ttl) == NewRow(g, a, clock + ttl)
SelectedRow(g, a, ttl) == NewRow(g, a, Least(clock + ttl, RootExpiry(g)))

MergeForgetful(old, new) == [new EXCEPT !.expires = Least(old.expires, new.expires)]
Merge(old, new) ==
  [new EXCEPT !.expires = Least(old.expires, new.expires), !.consumed = old.consumed]

Overwrite(old, new) == [new EXCEPT !.consumed = old.consumed]

OfFamily(k, g) == Has(records, k) /\ records[k].grant = g

\* A row is reclaimable one day after its expiry, not before.
ReclaimableAtExpiry(table) == {k \in DOMAIN table : Has(table, k) /\ table[k].expires < clock}
Reclaimable(table) == {k \in DOMAIN table : Has(table, k) /\ table[k].expires + Day < clock}

-----------------------------------------------------------------------------
(* Statements of the adapter.                                              *)

\* Upsert of an AccessToken or RefreshToken: the SELECT takes its snapshot.
UpsertSnapshot(t, g, a, ttl) ==
  /\ ttl \in 1..MaxLifetime
  /\ pending[t] = NoRow
  /\ UpsertSelects(g, a)
  /\ pending' = [pending EXCEPT ![t] = SelectedRow(g, a, ttl)]
  /\ UNCHANGED <<clock, active, sessions, issued, bindings, records>>

\* ... and the INSERT commits; a conflicting row keeps the earlier expiry.
UpsertCommit(t) ==
  /\ pending[t] # NoRow
  /\ records' = [records EXCEPT ![t] =
                   IF Has(records, t) THEN Merge(records[t], pending[t]) ELSE pending[t]]
  /\ pending' = [pending EXCEPT ![t] = NoRow]
  /\ UNCHANGED <<clock, active, sessions, issued, bindings>>

\* ... or it rolls back: the query failed, or its connection was lost.
UpsertRollback(t) ==
  /\ pending[t] # NoRow
  /\ pending' = [pending EXCEPT ![t] = NoRow]
  /\ UNCHANGED <<clock, active, sessions, issued, bindings, records>>

\* Upsert of any other model: no join, and only DeviceCode keeps the earlier expiry.
UpsertPlain(k, g, a, ttl) ==
  LET new == NewRow(g, a, clock + ttl) IN
  /\ ttl \in 1..MaxLifetime
  /\ k \in Devices => ttl <= DeviceLifetime
  /\ records' = [records EXCEPT ![k] =
                   IF ~Has(records, k) THEN new
                   ELSE IF k \in Devices THEN Merge(records[k], new)
                   ELSE Overwrite(records[k], new)]
  /\ UNCHANGED <<clock, active, sessions, issued, bindings, pending>>

\* consume: one UPDATE whose row lock makes the check and the mark one step.
ConsumableAgain(k) == Live(records, k)
Consumable(k) == Live(records, k) /\ ~records[k].consumed
Consume(k) ==
  /\ Consumable(k)
  /\ records' = [records EXCEPT ![k].consumed = TRUE]
  /\ UNCHANGED <<clock, active, sessions, issued, bindings, pending>>

Delete(K) ==
  /\ records' = [k \in Keys |-> IF k \in K THEN NoRow ELSE records[k]]
  /\ UNCHANGED <<clock, active, sessions, issued, bindings, pending>>

Destroy(k)         == Has(records, k) /\ Delete({k})
RevokeByGrantId(g) == Delete({k \in Keys : OfFamily(k, g)})
RevokeFamily(g)    == Delete({g} \union {k \in Keys : OfFamily(k, g)})

\* bind-session!: a current root session of an active actor; an existing binding stays.
BindableAgain(g, a, s) == a \in active /\ Live(sessions, s) /\ sessions[s].actor = a
Bindable(g, a, s) ==
  /\ ~Has(bindings, g)
  /\ a \in active
  /\ Live(sessions, s)
  /\ sessions[s].actor = a
BindSession(g, a, s) ==
  /\ Bindable(g, a, s)
  /\ bindings' = [bindings EXCEPT ![g] =
                    [actor |-> a, session |-> s,
                     expires |-> Least(sessions[s].expires, clock + Day)]]
  /\ UNCHANGED <<clock, active, sessions, issued, records, pending>>

\* cleanup-expired!: two statements, each at most SweepBatch rows, locked rows skipped.
SweepRecords ==
  \E K \in SUBSET Reclaimable(records) :
    /\ K # {} /\ Cardinality(K) <= SweepBatch
    /\ Delete(K)
SweepBindings ==
  \E G \in SUBSET Reclaimable(bindings) :
    /\ G # {} /\ Cardinality(G) <= SweepBatch
    /\ bindings' = [g \in Grants |-> IF g \in G THEN NoRow ELSE bindings[g]]
    /\ UNCHANGED <<clock, active, sessions, issued, records, pending>>

-----------------------------------------------------------------------------
(* The tables the store joins, and the clock.                              *)

\* create-session!: inserted for the actor whatever its status is by then.
CreateSession(s, a) ==
  /\ s \notin issued
  /\ issued' = issued \union {s}
  /\ sessions' = [sessions EXCEPT ![s] = [actor |-> a, expires |-> clock + SessionLifetime]]
  /\ UNCHANGED <<clock, active, bindings, records, pending>>

\* delete-session! (logout).
Logout(s) ==
  /\ Has(sessions, s)
  /\ sessions' = [sessions EXCEPT ![s] = NoRow]
  /\ UNCHANGED <<clock, active, issued, bindings, records, pending>>

\* An operator disables or re-enables an actor.
SetStatus(a) ==
  /\ active' = IF a \in active THEN active \ {a} ELSE active \union {a}
  /\ UNCHANGED <<clock, sessions, issued, bindings, records, pending>>

\* Time passes.  An insert is never open for a day past the expiry of its row.
Tick ==
  /\ clock < MaxClock
  /\ \A t \in Tokens : Has(pending, t) => clock < pending[t].expires + Day
  /\ clock' = clock + 1
  /\ UNCHANGED <<active, sessions, issued, bindings, records, pending>>

\* The engine may run any statement with any arguments: nothing below depends on
\* the order in which oidc-provider calls the adapter.  T are the tokens it writes, K
\* the codes of either kind.
StatementsOn(T, K) ==
  \/ \E t \in T, g \in Grants, a \in Actors, ttl \in 1..MaxLifetime :
       UpsertSnapshot(t, g, a, ttl)
  \/ \E t \in T : UpsertCommit(t) \/ UpsertRollback(t)
  \/ \E k \in K, g \in Grants \union {NoGrant}, a \in Actors \union {NoActor},
        ttl \in 1..MaxLifetime : UpsertPlain(k, g, a, ttl)
  \/ \E k \in Grants, a \in Actors, ttl \in 1..MaxLifetime : UpsertPlain(k, NoGrant, a, ttl)
  \/ \E k \in T \union K \union Grants : Consume(k) \/ Destroy(k)
  \/ \E g \in Grants : RevokeByGrantId(g) \/ RevokeFamily(g)
  \/ \E g \in Grants, a \in Actors, s \in Sessions : BindSession(g, a, s)
  \/ SweepRecords \/ SweepBindings
  \/ \E s \in Sessions : Logout(s) \/ \E a \in Actors : CreateSession(s, a)
  \/ \E a \in Actors : SetStatus(a)
  \/ Tick
StoreNext == StatementsOn(Tokens, Codes \union Devices)

StoreSpec == StoreInit /\ [][StoreNext]_storeVars

-----------------------------------------------------------------------------
(* Properties.                                                             *)

WithinBinding(row) ==
  /\ row.grant \in Grants
  /\ Has(bindings, row.grant)
  /\ bindings[row.grant].actor = row.account
  /\ row.expires <= bindings[row.grant].expires

\* A refresh or access token whose replay evidence still counts (up to a day after
\* its expiry) has its binding row, belongs to the bound actor and never outlives
\* the binding, although the two tables are swept by separate statements.
TokensWithinBinding ==
  \A t \in Tokens :
    /\ Has(records, t) /\ clock <= records[t].expires + Day => WithinBinding(records[t])
    /\ Has(pending, t) => WithinBinding(pending[t])

\* No token expires after the root session it was issued under, for as long as
\* that session's row exists: renewal cannot extend a sign-in.
TokensWithinRoot ==
  \A t \in Tokens :
    Has(records, t) /\ clock <= records[t].expires + Day =>
      LET b == bindings[records[t].grant] IN
      Has(sessions, b.session) =>
        /\ records[t].expires <= sessions[b.session].expires
        /\ sessions[b.session].actor = records[t].account

\* A binding is never rebound or extended; its row leaves only a day after expiry.
BindingImmutable ==
  [][\A g \in Grants : Has(bindings, g) =>
       \/ bindings'[g] = bindings[g]
       \/ bindings'[g] = NoRow /\ bindings[g].expires + Day < clock]_storeVars

\* Writing a record again never clears its consumption evidence, and never
\* postpones the expiry of a token or of a device code.
EvidenceKept ==
  [][\A k \in Keys : Has(records, k) /\ records'[k] # NoRow =>
       /\ records[k].consumed => records'[k].consumed
       /\ k \in Tokens \union Devices => records'[k].expires <= records[k].expires]_storeVars

\* Once the root session of a binding has ended, that grant never becomes current
\* again: no later bind, sign-in or re-enabled actor resurrects a logout.
LogoutIsFinal ==
  [][\A g \in Grants, a \in Actors :
       Has(bindings, g) /\ ~Live(sessions, bindings[g].session) => ~RootCurrent(g, a)']_storeVars

=============================================================================
