--------------------------- MODULE TokenEndpoint ---------------------------
(***************************************************************************)
(* Concurrent token requests against OidcStore: redemption of an           *)
(* authorization code and rotation of a refresh token.  The order of the   *)
(* steps is oidc-provider's, as extern/oidc_provider.cljs hooks into it;   *)
(* each step is one statement of the store, so a logout, an expiry, a      *)
(* sweep, another request or a crash can come between any two of them.     *)
(*                                                                         *)
(*   code:    find, Grant, consume, findAccount, access token, refresh     *)
(*   refresh: find, Grant, findAccount, consume, refresh token, access     *)
(***************************************************************************)
EXTENDS OidcStore

CONSTANTS Requests, FirstRefresh, NoKey, TokenLifetime

ASSUME EndpointConstants ==
  /\ FirstRefresh \subseteq RefreshTokens
  /\ NoKey \notin Keys
  /\ TokenLifetime \in 1..MaxLifetime

VARIABLES req

vars == <<storeVars, req>>

Redeemable == Codes \union RefreshTokens
InFlight   == {"found", "granted", "rooted", "redeemed", "access", "accessInsert",
               "refresh", "refreshInsert", "replay", "revoking"}
Ended      == {"ok", "refused", "abandoned", "crashed"}

Request == [pc : {"idle"} \union InFlight \union Ended,
            key : Redeemable \union {NoKey},       \* the code or refresh token presented
            grant : Grants \union {NoGrant}, account : Actors \union {NoActor},
            consumed : BOOLEAN,                    \* as read by find, not as it is now
            rootExpiry : Time,                     \* ctx.axxiumRootExpiry
            won : BOOLEAN, detected : BOOLEAN,     \* consumed the key; found it consumed
            late : BOOLEAN,                        \* began after the family had ended
            refresh : RefreshTokens \union {NoKey}, access : AccessTokens \union {NoKey}]

EndpointTypeOK == StoreTypeOK /\ req \in [Requests -> Request]

Idle == [pc |-> "idle", key |-> NoKey, grant |-> NoGrant, account |-> NoActor,
         consumed |-> FALSE, rootExpiry |-> 0, won |-> FALSE, detected |-> FALSE,
         late |-> FALSE, refresh |-> NoKey, access |-> NoKey]

\* One grant, bound to a root session, has issued every code and FirstRefresh: the
\* browser session reuses it for each authorization of the same client.
EndpointInit ==
  \E a \in Actors, s \in Sessions, g \in Grants :
    LET row(e) == NewRow(g, a, e)
        bound  == Least(SessionLifetime, Day)
    IN  /\ clock = 0 /\ active = Actors /\ issued = {s}
        /\ sessions = [x \in Sessions |->
             IF x = s THEN [actor |-> a, expires |-> SessionLifetime] ELSE NoRow]
        /\ bindings = [x \in Grants |->
             IF x = g THEN [actor |-> a, session |-> s, expires |-> bound] ELSE NoRow]
        /\ records = [k \in Keys |->
             IF k = g THEN NewRow(NoGrant, a, Day)
             ELSE IF k \in Codes THEN row(Least(TokenLifetime, bound))
             ELSE IF k \in FirstRefresh THEN row(bound) ELSE NoRow]
        /\ pending = [t \in Tokens |-> NoRow]
        /\ req = [r \in Requests |-> Idle]

\* Keys a client can present: those issued before, and those a response delivered.
Known == Codes \union FirstRefresh
           \union {req[r].refresh : r \in {q \in Requests : req[q].pc = "ok"}}
\* Identifiers are random: a token id is minted once.
Minted == FirstRefresh \union {req[r].refresh : r \in Requests} \union {req[r].access : r \in Requests}

\* The family has ended for good: its Grant is gone, or its root session is.
FamilyEnded(g) ==
  \/ ~Has(records, g)
  \/ ~Live(bindings, g)
  \/ ~Live(sessions, bindings[g].session)

Goto(r, pc) == req' = [req EXCEPT ![r].pc = pc]
IsCode(r)   == req[r].key \in Codes

\* A refusal after rotation (RotatedRefreshToken is set and the status is an error)
\* goes through the middleware's revoke-family!.
RefusalPc(r) == IF req[r].won /\ ~IsCode(r) THEN "revoking" ELSE "refused"
Refuse(r) == Goto(r, RefusalPc(r)) /\ UNCHANGED storeVars

-----------------------------------------------------------------------------
\* find: an expired or missing record refuses; the copy read is used from here on.
Begin(r, k) ==
  /\ req[r].pc = "idle" /\ k \in Known \ {NoKey}
  /\ IF Live(records, k)
       THEN req' = [req EXCEPT ![r].pc = "found", ![r].key = k,
                               ![r].grant = records[k].grant, ![r].account = records[k].account,
                               ![r].consumed = records[k].consumed,
                               ![r].late = FamilyEnded(records[k].grant)]
       ELSE req' = [req EXCEPT ![r].pc = "refused", ![r].key = k]
  /\ UNCHANGED storeVars

CheckGrant(r) ==
  /\ req[r].pc = "found"
  /\ IF Live(records, req[r].grant) THEN Goto(r, "granted") ELSE Goto(r, "refused")
  /\ UNCHANGED storeVars

\* findAccount: lookup-actor!, verify-grant! and session-grant-expiry!; the last
\* query repeats the conditions of the others, so it decides.
FindAccount(r) ==
  /\ req[r].pc = IF IsCode(r) THEN "redeemed" ELSE "granted"
  /\ IF RootCurrent(req[r].grant, req[r].account)
       THEN /\ req' = [req EXCEPT ![r].pc = IF IsCode(r) THEN "access" ELSE "rooted",
                                  ![r].rootExpiry = RootExpiry(req[r].grant)]
            /\ UNCHANGED storeVars
       ELSE Refuse(r)

AtRedemption(r) == req[r].pc = IF IsCode(r) THEN "granted" ELSE "rooted"

\* A key read as unconsumed: the consume that loses the race refuses, nothing more.
Redeem(r) ==
  /\ AtRedemption(r) /\ ~req[r].consumed
  /\ IF Consumable(req[r].key)
       THEN /\ Consume(req[r].key)
            /\ req' = [req EXCEPT ![r].pc = IF IsCode(r) THEN "redeemed" ELSE "refresh",
                                  ![r].won = TRUE]
       ELSE Goto(r, "refused") /\ UNCHANGED storeVars

\* A key read as consumed is a replay: the engine revokes the tokens of the family,
\* then its Grant.
DetectReplay(r) ==
  /\ AtRedemption(r) /\ req[r].consumed
  /\ RevokeByGrantId(req[r].grant)
  /\ req' = [req EXCEPT ![r].pc = "replay", ![r].detected = TRUE]
DestroyGrant(r) ==
  /\ req[r].pc = "replay"
  /\ Delete({req[r].grant})
  /\ Goto(r, "refused")

\* bounded-ttl: what is left of the root expiry read before, at most the configured lifetime.
TtlLeft(r) == Least(TokenLifetime, req[r].rootExpiry - clock)
CanSave(r) == /\ req[r].rootExpiry > clock
              /\ UpsertSelects(req[r].grant, req[r].account)

InsertAccess(r) ==
  /\ req[r].pc = "access" /\ CanSave(r)
  /\ \E t \in AccessTokens \ Minted :
       /\ UpsertSnapshot(t, req[r].grant, req[r].account, TtlLeft(r))
       /\ req' = [req EXCEPT ![r].pc = "accessInsert", ![r].access = t]

InsertRefresh(r) ==
  /\ req[r].pc = "refresh" /\ CanSave(r)
  /\ \E t \in RefreshTokens \ Minted :
       /\ UpsertSnapshot(t, req[r].grant, req[r].account, TtlLeft(r))
       /\ req' = [req EXCEPT ![r].pc = "refreshInsert", ![r].refresh = t]

\* Committed inserts; after the access token of a code, issueRefreshToken reads the
\* root expiry again, and the refresh upsert repeats its conditions.
CommitAccess(r) ==
  /\ req[r].pc = "accessInsert"
  /\ UpsertCommit(req[r].access)
  /\ IF IsCode(r)
       THEN req' = [req EXCEPT ![r].pc = "refresh",
              ![r].rootExpiry = IF RootCurrent(req[r].grant, req[r].account)
                                THEN RootExpiry(req[r].grant) ELSE 0]
       ELSE Goto(r, "ok")

CommitRefresh(r) ==
  /\ req[r].pc = "refreshInsert"
  /\ UpsertCommit(req[r].refresh)
  /\ Goto(r, IF IsCode(r) THEN "ok" ELSE "access")

\* The upsert selects no row, the ttl has run out, or the query itself fails.
FailSave(r) ==
  /\ req[r].pc \in {"access", "refresh"}
  /\ Refuse(r)

\* The middleware's finally block; its own statement may fail too.
Revoke(r) ==
  /\ req[r].pc = "revoking"
  /\ RevokeFamily(req[r].grant)
  /\ Goto(r, "refused")
FailRevoke(r) ==
  /\ req[r].pc = "revoking"
  /\ Goto(r, "abandoned")
  /\ UNCHANGED storeVars

\* The process dies: requests in flight are forgotten.  The database then finishes
\* or rolls back an insert whose commit it was executing.
Crash ==
  /\ \E r \in Requests : req[r].pc \in InFlight
  /\ req' = [r \in Requests |->
               IF req[r].pc \in InFlight THEN [req[r] EXCEPT !.pc = "crashed"] ELSE req[r]]
  /\ UNCHANGED storeVars
Orphaned(t) == \E r \in Requests : req[r].pc = "crashed" /\ t \in {req[r].access, req[r].refresh}
FinishOrphan(t) ==
  /\ Orphaned(t)
  /\ UpsertCommit(t)
  /\ UNCHANGED req
AbortOrphan(t) ==
  /\ Orphaned(t)
  /\ UpsertRollback(t)
  /\ UNCHANGED req

Environment ==
  /\ \/ SweepRecords \/ SweepBindings \/ Tick
     \/ \E s \in Sessions : Logout(s)
     \/ \E a \in Actors : SetStatus(a)
  /\ UNCHANGED req

EndpointNext ==
  \/ \E r \in Requests :
       \/ \E k \in Redeemable : Begin(r, k)
       \/ CheckGrant(r) \/ FindAccount(r) \/ Redeem(r)
       \/ DetectReplay(r) \/ DestroyGrant(r)
       \/ InsertAccess(r) \/ CommitAccess(r) \/ InsertRefresh(r) \/ CommitRefresh(r)
       \/ FailSave(r) \/ Revoke(r) \/ FailRevoke(r)
  \/ Crash
  \/ \E t \in Tokens : FinishOrphan(t) \/ AbortOrphan(t)
  \/ Environment

EndpointSpec == EndpointInit /\ [][EndpointNext]_vars

-----------------------------------------------------------------------------
(* Properties.                                                             *)

\* "Atomic consume cannot be won twice": however two requests, a crash and a retry
\* interleave, one key is redeemed at most once.
RedeemedOnce ==
  \A r, q \in Requests : r # q /\ req[r].key = req[q].key => ~(req[r].won /\ req[q].won)

\* A request begun after logout, after the root's expiry, or after the family was
\* destroyed never succeeds, whatever the tokens it presents still look like.
EndedFamilyRefuses == \A r \in Requests : req[r].late => req[r].pc # "ok"

\* When a failed rotation or a detected replay has been answered, the Grant is gone
\* for good, so no token of the family can be renewed.
RefusalEndsFamily ==
  \A r \in Requests :
    /\ req[r].pc = "refused"
    /\ req[r].detected \/ (req[r].won /\ ~IsCode(r))
    => ~Has(records, req[r].grant)

=============================================================================
