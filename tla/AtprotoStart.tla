---------------------------- MODULE AtprotoStart ----------------------------
(***************************************************************************)
(* Sign-in starts of the AT Protocol: the per-client sliding-window        *)
(* limiter, the bounded authorization-state store that never evicts a live *)
(* entry, and the requests between them (extern/atproto_oauth.cljs,        *)
(* law/atproto.cljc, routes/atproto_oauth.cljs).                           *)
(*                                                                         *)
(* Limiter and store are maps of one JavaScript process, so each call on   *)
(* them is one step; a start awaits the SDK between its calls.  The        *)
(* limiter counts and filters its list of times and never uses their       *)
(* order: here a set, of times with the start that each belongs to.        *)
(***************************************************************************)
EXTENDS Naturals, FiniteSets

CONSTANTS
  Clients,         \* quota groups: an IPv4 address or an IPv6 /64
  Attempts,        \* sign-in starts; each draws its own state key
  NoClient, NoEntry,
  Window,          \* atproto-start-window-ms
  MaxStarts,       \* atproto-start-max-per-window
  MaxClients,      \* start-limiter-max-clients
  MaxEntries,      \* oauth-max-entries
  CookieAge,       \* state-cookie-max-age-ms
  Margin,          \* auth-state-authorize-margin-ms
  Resolve,         \* bound of the model: longest wait from admission to the store
  MaxClock         \* bound of the model: the clock stops here

ASSUME StartConstants ==
  /\ {Window, MaxStarts, MaxClients, MaxEntries, CookieAge, Margin} \subseteq Nat \ {0}
  /\ {Resolve, MaxClock} \subseteq Nat
  /\ NoClient \notin Clients /\ NoEntry \notin Nat

VARIABLES
  clock,    \* Date.now
  starts,   \* limiter: admissions by client; a client with none is not tracked
  expires,  \* state store: expiry by key, or NoEntry
  attempt,  \* what each start is doing
  admitted  \* history: every admission, by client

startVars == <<clock, starts, expires, attempt, admitted>>

StateTtl == CookieAge + Margin      \* auth-state-ttl-ms

Phases == {"new", "authorizing", "stored", "redirected", "found", "over"}
Attempt == [pc : Phases, client : Clients \union {NoClient},
            at : Nat]                \* when it entered a phase that may wait

Admission == [start : Attempts, time : Nat]

StartTypeOK ==
  /\ clock \in Nat
  /\ starts \in [Clients -> SUBSET Admission]
  /\ expires \in [Attempts -> Nat \union {NoEntry}]
  /\ attempt \in [Attempts -> Attempt]
  /\ admitted \in [Clients -> SUBSET Admission]

StartInit ==
  /\ clock = 0
  /\ starts = [c \in Clients |-> {}]
  /\ expires = [k \in Attempts |-> NoEntry]
  /\ attempt = [k \in Attempts |-> [pc |-> "new", client |-> NoClient, at |-> 0]]
  /\ admitted = [c \in Clients |-> {}]

Reach(k, pc) == attempt' = [attempt EXCEPT ![k].pc = pc, ![k].at = clock]
End(k)       == attempt' = [attempt EXCEPT ![k].pc = "over", ![k].at = 0]

-----------------------------------------------------------------------------
(* The start limiter.                                                      *)

Recent(times) == {s \in times : clock < s.time + Window}
Tracked(table) == {c \in Clients : table[c] # {}}

\* The client's stale starts are dropped on every call; everyone's, only when a new
\* client meets a full table.
OwnPruned(c) == [starts EXCEPT ![c] = Recent(@)]
PrunedForgetful(c) ==
  IF Recent(starts[c]) = {} /\ Cardinality(Tracked(OwnPruned(c))) >= MaxClients
    THEN [d \in Clients |-> {}]
    ELSE OwnPruned(c)
Pruned(c) ==
  IF Recent(starts[c]) = {} /\ Cardinality(Tracked(OwnPruned(c))) >= MaxClients
    THEN [d \in Clients |-> Recent(starts[d])]
    ELSE OwnPruned(c)

MayTrack(c) == Pruned(c)[c] # {} \/ Cardinality(Tracked(Pruned(c))) < MaxClients
MayStart(c) == MayTrack(c) /\ Cardinality(Pruned(c)[c]) < MaxStarts

\* start!: refused with 429, or admitted and on its way into the SDK.
Start(k, c) ==
  /\ attempt[k].pc = "new"
  /\ IF MayStart(c)
       THEN /\ starts' = [Pruned(c) EXCEPT ![c] = @ \union {[start |-> k, time |-> clock]}]
            /\ admitted' = [admitted EXCEPT ![c] = @ \union {[start |-> k, time |-> clock]}]
            /\ attempt' = [attempt EXCEPT ![k] = [pc |-> "authorizing", client |-> c, at |-> clock]]
       ELSE /\ starts' = Pruned(c)
            /\ End(k)
            /\ UNCHANGED admitted
  /\ UNCHANGED <<clock, expires>>

-----------------------------------------------------------------------------
(* The authorization-state store.                                          *)

Live(k) == expires[k] # NoEntry /\ clock < expires[k]
Entries(table) == {k \in Attempts : table[k] # NoEntry}

\* Room for a new key: expired entries are purged only when the store is full.
PurgedOldest ==
  IF Cardinality(Entries(expires)) >= MaxEntries
    THEN [k \in Attempts |->
            IF Live(k) /\ \E j \in Entries(expires) : expires[j] < expires[k]
            THEN expires[k] ELSE NoEntry]
    ELSE expires
Purged ==
  IF Cardinality(Entries(expires)) >= MaxEntries
    THEN [k \in Attempts |-> IF Live(k) THEN expires[k] ELSE NoEntry]
    ELSE expires
HasRoom(table) == Cardinality(Entries(table)) < MaxEntries

\* The SDK has resolved the identity and saves its state; a full store is a 503.
Save(k) ==
  /\ attempt[k].pc = "authorizing"
  /\ IF HasRoom(Purged)
       THEN expires' = [Purged EXCEPT ![k] = clock + StateTtl] /\ Reach(k, "stored")
       ELSE expires' = Purged /\ End(k)
  /\ UNCHANGED <<clock, starts, admitted>>

\* The pushed authorization request has answered: the cookie is set, the browser sent on.
Redirect(k) ==
  /\ attempt[k].pc = "stored"
  /\ Reach(k, "redirected")
  /\ UNCHANGED <<clock, starts, expires, admitted>>

\* The identity does not resolve or the authorization server refuses: 502, and a
\* state already saved stays until it expires.
Refused(k) ==
  /\ attempt[k].pc \in {"authorizing", "stored"}
  /\ End(k)
  /\ UNCHANGED <<clock, starts, expires, admitted>>

HasCookie(k) == attempt[k].pc = "redirected" /\ clock < attempt[k].at + CookieAge

\* callback!: the SDK reads the state of the browser that kept its cookie ...
Callback(k) ==
  /\ HasCookie(k)
  /\ IF Live(k) THEN Reach(k, "found") /\ UNCHANGED expires
                ELSE End(k) /\ expires' = [expires EXCEPT ![k] = NoEntry]
  /\ UNCHANGED <<clock, starts, admitted>>

\* ... and deletes it.
Forget(k) ==
  /\ attempt[k].pc = "found"
  /\ expires' = [expires EXCEPT ![k] = NoEntry]
  /\ End(k)
  /\ UNCHANGED <<clock, starts, admitted>>

\* Time passes.  "Resolve" bounds the wait for the store; the wait after it is
\* within the margin that auth-state-ttl-ms is built on.
Tick ==
  /\ clock < MaxClock
  /\ \A k \in Attempts :
       /\ attempt[k].pc = "authorizing" => clock < attempt[k].at + Resolve
       /\ attempt[k].pc = "stored" => clock < attempt[k].at + Margin
  /\ clock' = clock + 1
  /\ UNCHANGED <<starts, expires, attempt, admitted>>

StartNext ==
  \/ \E k \in Attempts :
       \/ \E c \in Clients : Start(k, c)
       \/ Save(k) \/ Redirect(k) \/ Refused(k) \/ Callback(k) \/ Forget(k)
  \/ Tick

StartSpec == StartInit /\ [][StartNext]_startVars

-----------------------------------------------------------------------------
(* Properties.                                                             *)

\* A browser that still holds its state cookie finds its state: no burst of other
\* starts pushed it out, and it did not expire before the cookie.
CookieFindsState == \A k \in Attempts : HasCookie(k) => Live(k)

\* The admissions of a client in the window that begins at a time.
Within(c, from) == {s \in admitted[c] : from <= s.time /\ s.time < from + Window}
Held(c) == Cardinality({k \in Attempts : Live(k) /\ attempt[k].client = c})
Windows(span) == (span + Window - 1) \div Window

\* However its starts fall and whoever else fills or empties the limiter's table, a
\* client is admitted at most MaxStarts times within any window.  So its share of the
\* state store is bounded by the starts of the state's lifetime and of the wait before
\* it was saved (the 60 of law/atproto.cljc is without the wait), and neither table
\* outgrows its bound.
StartsBounded ==
  /\ \A c \in Clients : \A s \in admitted[c] : Cardinality(Within(c, s.time)) <= MaxStarts
  /\ Cardinality(Tracked(starts)) <= MaxClients /\ Cardinality(Entries(expires)) <= MaxEntries
  /\ \A c \in Clients : Held(c) <= MaxStarts * Windows(StateTtl + Resolve)

=============================================================================
