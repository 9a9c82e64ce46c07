# Axxium: models, checks and proofs

Axxium is an identity authority written in ClojureScript on Node: it signs people in with a
password, Google or an AT Protocol identity, keeps their root sessions in PostgreSQL, and lets
other sites share that login through an OpenID provider (`oidc-provider`) whose adapter, policies
and interaction pages are Axxium's own. It also gives machines access (agent credentials, relay
leases), and carries a qualification tool, in Python, that runs mutation campaigns over the
checkout. This directory holds TLA+ models of the parts with behaviour worth checking, TLC
configurations for them, and TLAPS proofs about all of them but the parsers of the mutation sites: every safety
property and the one refinement that a run checks is also a theorem, for every value of the constants.

Paths below are relative to the repository root; `cljs/` stands for `src/cljs/axxium/`.

    tlc -config MCSharedLogin.cfg MCSharedLogin    # a run
    for m in *_proofs.tla; do tlapm $m; done       # the proofs

`PROJECT.json` lists the runs, the source lines of every definition, the hazards with the
properties aimed at them, and, for every property, a mutant: a plausible bug in a mapped
definition that TLC shows to break it. Operators that only mutants use (`ManifestFirst`,
`BindableAgain`, `BindsAnyLog`, ...) stand just before the definition they would replace.

## The system

### Components, their state and operations

| component | state | operations | what makes it correct |
|---|---|---|---|
| record store, `cljs/extern/oidc_store.cljs` | tables `axxium_oidc_records`, `axxium_oidc_grant_sessions`, joined with `actors`, `sessions` | upsert, find, consume, destroy, revoke by grant or family, bind a grant to a root session, two sweeps | tokens never outlive the binding or the root session, bindings are immutable, replay evidence is never cleared while its row is there, logout is final |
| token endpoint, `cljs/extern/oidc_provider.cljs` over the store | one chain of awaits per request | redeem a code, rotate a refresh token, refuse and end the family | a key is redeemed once, an ended family yields nothing |
| device polling, `cljs/law/device_polling.cljc` | poll columns of a DeviceCode row | admit or slow down a poll under the row lock | the interval and budget of RFC 8628, at most one grant |
| interaction pages, `cljs/extern/oidc_http.cljs`, `cljs/law/oidc.cljc` | interaction records, three cookies | show, submit, save and bind a grant, resume, load a grant | an ended root issues nothing, a device gets consent of its own, switching actors ends somewhere |
| sign-in, `cljs/routes/auth.cljs`, `google.cljs`, `atproto_oauth.cljs`, `scripts/bootstrap-local-admin.mjs` | `actors`, `provider_bindings` | sign-up, log-in, two callbacks, link, bootstrap | a subject or email signs in as one actor |
| sessions, `cljs/auth/session.cljs` | `sessions`, `agent_credentials` | create, verify, delete | an ended session admits nothing |
| AT Protocol start, `cljs/extern/atproto_oauth.cljs`, `cljs/law/atproto.cljc` | two bounded maps, a cookie | admit a start, save, find and delete a state | rate window, bounds, no eviction of a live state |
| AT Protocol lock, `with-local-oauth-lock` | a map from key to promise | enter, proceed, settle | first come first served, no leak |
| machine access, `cljs/routes/agents.cljs`, `auth_context.cljs`, `cljs/extern/relay.cljs` | credentials, the operator's grant file | issue, revoke, use; ask for a lease | nothing is admitted on ended authority; what is left of a revoked grant is short |
| lifecycle, `cljs/extern/lifecycle.cljs`, `cljs/server.cljs`, `cljs/extern/pg.cljs` | controller, pools, socket | start, signal, closes, deadline | exit code 0 means closed; the process ends |
| schema, `cljs/db.cljs` | DDL | initialise, migrate the email index | the check holds when the index is built; nobody deadlocks |
| actor listing, `cljs/routes/actor.cljs`, `resources/public/actor-pages.js` | a keyset cursor, the actors listed so far | look up the cursor row, select a page, go on or stop | no actor skipped, none invented, an honest server never taken for a broken one |
| mutation campaign, `qualification/mutation_campaign.py` | source tree, build, journal, containment marker, reports | run, kill, recover, acknowledge | the way back is never lost, what may still be running blocks the next run |
| its sites, `sites` and the two parsers in the same file | none | propose the tokens to mutate | exactly the live numbers, operators and strings |
| its verdicts, `classify_compile`, `classify_test`, and their counterparts in `campaign_lineage.py` and `collect_mutation_evidence.py` | rows, raw logs | classify, derive again, count | a kill that counts is the failure of an assertion; an honest row is not refused |
| campaign lineage, `qualification/campaign_lineage.py` | reports, acknowledgements, restoration receipts | validate, restore, continue | a kill that counts was measured on that mutant, between clean measurements of the original |
| evidence collector, `qualification/collect_mutation_evidence.py` | leases on the campaign locks, an output directory | lease, read, publish | a bundle is one consistent cut of all workers, and whole |
| native job, `qualification/native_campaign_job.py` | a systemd unit, a gate, files | prepare, launch, verify caps, watch, stop, collect, preserve | nothing runs uncapped, credit only for what the campaign ended with, the job ends |
| external harness, `qualification/external_harness.py` | a directory of copies and links, its record | prepare, validate | an accepted execution read the accepted tests and the application's sources |
| configuration, helpers, pages, deployment | files | render, convert | out of scope, see the end |

### How they interact, and what is hard

Components of the server share PostgreSQL and nothing else, except the two maps and the lock map
of the AT Protocol client, which live in one process. A handler is a chain of awaits; between
any two of its database calls any other request, sweep, operator's change, crash or signal can
come. JavaScript runs without interruption between awaits, so the atomic step of the server
models is "from one await to the next", and the atomic step on the database is one statement
(READ COMMITTED), or a lock held over several. Hard are, therefore: readings that are stale when
used (session, status, clock), two requests racing for one row or index, statements whose
snapshot is older than their commit, retention that meets replay detection, a signal in the
middle of startup, locks taken by several processes, and a campaign that dies with a mutant in
the tree.

The Python tools share a checkout, its `inflight.json`, containment marker, reports and one lock
file. A campaign holds the lock alone, the collector holds a shared lease on each of several
checkouts, and the harness is filled and validated under the campaign's lock. The native job starts
the campaign as a unit of its own and sees it only through the unit's state, the report, the logs
and the lock: between two of its looks the campaign does any number of steps. Files of all of them can be changed by
somebody who knows of no lock, and each process can be killed between two writes.
`PROJECT.json` lists these hazards line by line.

## Modules

| module | models | state and actions |
|---|---|---|
| `OidcStore` | the record store | `records`, `bindings`, `sessions`, `active`, `clock`, `pending`; one action per statement. The token upsert is `UpsertSnapshot` and `UpsertCommit`, because it reads four tables without locking them; `UpsertRollback` is the end of one whose transaction does not commit |
| `TokenEndpoint` | requests at the token endpoint, EXTENDS `OidcStore` | `req`, one record per request; each action is one adapter call, composed with the store's action of that name. `FinishOrphan`/`AbortOrphan` end an insert whose request died |
| `InteractionConsent` | the browser side of the shared login, EXTENDS `OidcStore` | the cookies `root`, `engine`, `seed`; `flow`, an authorization per tab with its interaction; `post`, its POST in flight. `Authorize`, `LoadGrant`, `Issue`, `Resume` are the engine's requests, `Show`, `Submit`, `Admit`, `Bind`, `Finish`, `FailPost` the handlers of the page, with the store's actions where they write |
| `SharedLogin_proofs` | theorems about the three | the invariants `StoreInv`, `EndpointInv`, `ConsentInv`, and that each step of endpoint and pages is a step of the store |
| `DevicePolling` | `admit-poll` in `find-polled-device!` | the row, its lock, pollers; `Begin`, `Lock`, `Commit`, `Pend`, `Consume`, `Approve`, `Crash` |
| `ActorPages` | `fetchAllActors` against `GET /api/actors` | `status` of the actors, `reader`; the route's two statements are `LookUp` and `Select`, between which `SetStatus` may come |
| `AtprotoStart` | limiter, state store, cookie | `starts`, `expires`, `attempt`; `Start`, `Save`, `Redirect`, `Refused`, `Callback`, `Forget`. The limiter filters and counts its list of times and never uses their order, so it is a set here |
| `FifoLock` | abstract: a first-come first-served lock per key | `Ask`, `Run`, `Finish` |
| `OAuthLock` | `with-local-oauth-lock` | the map of promises; `Enter`, `Proceed`, `Settle`; refines `FifoLock`: who is ahead of a caller (`Before`) is the smallest set closed under awaiting a gate |
| `IdentityBinding` | every way in | committed rows and each request's transaction; one action per database call. An uncommitted row is invisible but makes an equal insert wait |
| `SignIn_proofs` | theorems about it and about `AtprotoStart` | `IdentityInv`, `StartInv` |
| `MachineAccess` | credentials, administrators, relay leases | handlers between awaits, the operator's file, sessions and roles that change |
| `MachineAccess_proofs` | theorems about it | `AccessInv` |
| `Lifecycle` | one process from `start!` to exit | controller, boot, stop chain, pools, connections |
| `EmailIndexMigration` | `ensure-unique-actors-email-index!` in several processes | index, emails, table locks |
| `MutationCampaign` | `run_campaign`, `execute`, `checked_execute`, `restore`, `recover`, `acknowledge_containment` | source, build, journal, marker, child, survivors (of three kinds: cut off with their process group, left by a test process that the driver gave up, detached by a command that ended by itself), the report of each campaign and the archived acknowledgements. A step is what a kill can fall between: `Mark`, `Spawn`, `Finish`, `Abort`, `Remark`, `Unmark`; `Loop`, `Truncate`, `Fill`, `Measured`, `Restore`, `Unlink`, `Record` |
| `CampaignLineage` | `load_history`, `validate_ack`, `validate_restoration`, `restore_campaign`, `--continue-from`, `collect_batch`; EXTENDS `MutationCampaign` | adds `receipts` and `RestoreFrom`, `Restoration`, `ContinueFrom`. The validators are predicates on reports (`Accepted`, `ValidAck`, `Collectable`); a report's ancestors (`Histories`) are the smallest set closed under parents, and the collector's corpus is the set of their rows, each with its place among the candidates |
| `CampaignLineage_proofs` | theorems about both | `LineageInv`, in layers |
| `MutationSites` | `sites` with its two parsers | a form grows by `Grow`, as tokens and as a tree; `Sites` reads the tokens, the property the tree |
| `Verdicts` | the classifiers of `mutation_campaign.py`, `_derived_result` and the collector's eligibility rule | `Compile` and `Test` choose any outcome of compiler and driver and record a row; `Rederived`, `CleanBaseline`, `Eligible` judge it from the log |
| `EvidenceCollection` | collectors of several workers, beside campaigns | `campaign`, `unit`, `tree`, `report`, ... per worker; `Lease`, `Enter`, `Read`, `Leave`, `Readopt`, `MakeDirectory`, `WriteNew` of a collector, which may crash anywhere |
| `EvidenceCollection_proofs` | theorems about it | `CollectionInv` |
| `NativeJob` | one job and its unit | the controller's stages (`Adopt` ... `Terminal`, `Collect`, `Readopt`), its `finally` (`Stop`, `Closure`, `Journal`, `Snapshot`, `Read`, `Manifest`), the unit (`Exec` ... `Finish`), its end by itself or by a cap, and `Cancel` |
| `NativeJob_proofs` | theorems about it | `JobInv` |
| `ExternalHarness` | `prepare` and `validate` of one worker's copy | `disk`; `Turn`, `Create`, `Write`, `Check` prepare, `Before` and `Measure` validate around a command, `Die` and `Edit` disturb |
| `SmallParts` | `DevicePolling`, `ActorPages`, `ExternalHarness`, `Verdicts` side by side | `Init` chooses the part that runs |
| `SmallParts_proofs` | theorems about the four | `DeviceInv`, `PageInv`, `HarnessInv`, `VerdictInv` |
| `ServerParts` | `Lifecycle`, `OAuthLock`, `EmailIndexMigration` side by side | as above, with each part's fairness |
| `ServerParts_proofs` | theorems about the three | `ProcessInv`, `LockInv`, `IndexInv` |

Modelled data is what the properties tell apart: ids and digests are model values, a payload is
the fields that a statement joins on, a clock is a counter whose unit is chosen per module.
An `MC*` module gives the constants and the symmetry sets; no configuration replaces a
definition. `ServerParts` and `SmallParts` put parts that share no state side by side: `Init`
chooses the part that runs, `Next` is that part's, and the states of a run are the sum of the
parts', not their product. The parts' assumptions on constants become assumptions there. Three MC modules do the same for one run,
with a variable `part` of their own:

* `MCSharedLogin` checks `OidcStore` by itself (`StatementsOn` a token and a device code) and `TokenEndpoint` on top of it;
  here all properties are checked of both parts, for what a request does is statements of the store;
* `MCAccounts` puts `IdentityBinding` and `MachineAccess` side by side; each keeps its initial state while the other runs;
* `MCSmallParts` adds `MutationSites`, whose operators are recursive, so that no module with a proof may use them, and
  `EvidenceCollection` to the four of `SmallParts`.

## Runs

`shared_login`, `accounts`, `small_parts` and `campaign_lineage` take three minutes or a little more on two cores, every other run less than two. Where symmetry is used, only safety is
checked. Deadlock checking is off everywhere: each model has a real end (the clock stops, every
request is answered, the process has exited), and the runs in which a wait could be for ever state
the progress they expect as a liveness property instead.

| run | instance | shows |
|---|---|---|
| `shared_login` | store: 1 actor, 2 root sessions, 1 grant, 1 device code, 1 refresh token, clock 0..4 with a day of 1; endpoint: 2 requests, 1 code, 3 refresh and 2 access tokens, clock 0..3 | with any statement in any order, tokens stay within their binding (`TokensWithinBinding`) and root session (`TokensWithinRoot`), consumption evidence stays (`EvidenceKept`), an ended session's grants stay ended (`LogoutIsFinal`); a code or refresh token is redeemed once (`RedeemedOnce`), an ended family yields nothing (`EndedFamilyRefuses`), a refusal ends it (`RefusalEndsFamily`) |
| `interaction_consent` | 1 product tab, 1 device tab, 2 actors, 2 root sessions, 3 grants | `EndedRootIssuesNothing`, `DeviceConsentFresh`, and a user who keeps answering gets somewhere (`SwitchConcludes`) |
| `atproto_start` | 4 starts, 3 clients, a limiter of 2, a store of 3, window 2, clock 0..4 | rate window, share of the store and both bounds (`StartsBounded`), `CookieFindsState` |
| `accounts` | `IdentityBinding` with 3 requests of any kind, 1 Google subject, 1 DID, 2 emails; `MachineAccess` with 3 requests, 1 credential, 2 grant secrets, 2 changes, 3 seconds | who signed in owns the subject or the email, and no half account is left (`AccountsSound`); `Authorised`, `LeaseResidual` |
| `google_race` | `IdentityBinding` with 2 requests | the first finding below |
| `campaign_lineage` | 2 mutants, 2 campaigns, 2 people, 1 fault, 1 edit, 1 restoration receipt, 1 kill to collect | `KillsGenuine`, `KillsBracketed`, `AbortsInspected`, `EndedAccepted`, `MutationJournaled`, `SurvivorsMarked`, `ForeignKept` |
| `containment` | the same without edits | the second finding |
| `server_parts` | `Lifecycle` with a script that has a transaction in it and 3 connections; `OAuthLock` with 3 callers, 2 keys, 3 calls each; `EmailIndexMigration` with 2 migrating processes, 2 writers, 2 old rows, 2 emails | `CleanExit`, `ShutsDown`; `ImplementsFifoLock`, `EveryCallerRuns`; `CheckHolds`, `EveryoneFinishes` |
| `small_parts` | `DevicePolling` with 2 pollers, intervals 1..3, budget 4, lifetime 4; `ActorPages` with 5 actors, 2 to a page, 2 pages and the probe; `ExternalHarness` with one path of each kind, 2 versions, 2 edits; `Verdicts` with 2 groups of up to 2 tests, 2 builds; `MutationSites` with two layers around an atom; `EvidenceCollection` with 2 workers, 2 collectors, 1 row enough of 2, 1 edit, 1 change of the adoption | `PollingSound`; `ListingHonest`; `HarnessExact`; `KillsByAssertion`, `ValidatorsAgree`; `SitesExact`; `ConsistentCut`, `BundleWhole` |
| `restored`, `inert_forms` | the same | the third and the fourth finding |
| `native_job` | 3 candidates of which 2 kills are enough, 1 change of the adoption | `NothingUncapped`, `CreditEarned`, `CompleteIsWhole`, `JobEnds` |

### Why the bounds are enough

* **Clocks.** A clock stops at `MaxClock`. Each clock runs past the longest sum of lifetimes that
  a property mentions: in the store of `shared_login` a binding made at 0 expires at 1, its row may be swept from
  3 on, and a session made afterwards still lives; in `atproto_start` a second and third window
  begin and a state expires; in `accounts` a lease that was asked for at 0 and signed at 2
  has already lapsed.
* **Two of each contender, or three.** Races here are between two requests for one row; a third
  (`IdentityBinding`, `OAuthLock`, `MachineAccess`) adds the one that waits behind both, or
  the one that changes something for the other two. A second grant in the store would share no row with
  the first, and the proofs, which bound nothing, cover the store.
* **Tables at their limit.** `atproto_start` has more clients than the limiter tracks and more
  starts than the store holds; the pollers of `small_parts` reach the budget and the cap of the interval, its
  actor list the last page and the probe behind it.
* **Grants to give out.** `interaction_consent` has three: one for each tab and one that a failed or
  outdated POST leaves behind. `SwitchConcludes` says nothing of runs that need a fourth (`Starved`).
* **Counters.** `MaxRequests`, `MaxCalls`, `MaxRuns`, `MaxFaults`, `MaxEdits`, `MaxChanges`, `MaxReceipts`
  cut repetition. Two campaigns are an aborted one and its continuation, or one that died and one that starts
  over what it left; the one fault is a kill, a signal or a detached descendant, timeouts and the descendants of
  what was cut off are not counted, so it comes on top of any number of those. Between two campaigns come as many recoveries and acknowledgements as there is something
  to recover or acknowledge. With two campaigns no chain is longer than `MAX_ANCESTORS` (2 in the instance), and no report has two
  continuations: both take a third.
* **Verdicts and sites.** `Verdicts` enumerates every outcome of the compiler (ended by itself with 0 or 1, or
  stopped at its deadline or output bound with any exit; fewer, as many or more builds than planned; warnings) with every log of the driver
  (two groups with up to two tests and a failure, an error and a timeout each; no summary, an invalid one, or the plain text of the test library with a total that may match the plan's), for the three kinds of measurement.
  `MutationSites` wraps every kind of atom in up to two layers of every prefix, dispatch, metadata, vector and list with up to
  two leading and two trailing siblings in a list, which nests each rule in each other. What a third layer would add is
  a rule acting on a rule acting on a rule; the parsers carry only a flag downwards.
* **A job's length.** Three candidates are one more than the kills asked for: the job can stop the campaign
  early, or it can end complete, or with too few. Two rows for a collector that wants one let a
  collected campaign be continued.
* **Real numbers.** Lifetimes, batch sizes and limits are constants of each module, related as in
  the code (`StateTtl == CookieAge + Margin`) and otherwise free, with named assumptions.

### Fairness

* `InteractionConsent`: weak fairness of the handlers and of the browser, which follows redirects; strong
  fairness of `Submit`, a user who answers a page that is shown again and again. That the root session stays
  current is a hypothesis of `SwitchConcludes`.
* `OAuthLock`: weak fairness of `Proceed` only: the continuation of a resolved promise runs.
  That operations settle is a hypothesis of `EveryCallerRuns`, because nothing in the code bounds them.
* `EmailIndexMigration`: strong fairness of each process's steps, for PostgreSQL queues lock requests.
* `Lifecycle`: weak fairness of `Deadline` and of `Exit`. No query, request or close is promised
  to answer: `ShutsDown` holds because of the deadline timer alone.
* `NativeJob`: weak fairness of the controller, whose commands return or time out, and of `RuntimeMax`: systemd
  enforces `RuntimeMaxSec`. Nothing is assumed of the campaign, which may hang or ignore the request to stop, nor
  that processes it left behind ever go.
* The other modules state safety only.

## What is proved

Each theorem holds for every value of the constants that the named assumptions allow: any sets of
actors, sessions, keys, people and workers, any lifetimes and bounds, any selection of mutants. TLC evaluates those
assumptions in the runs. Every inductive invariant below was checked by TLC on the instance of its
run before it was proved; it is shown to hold initially and to be preserved by each action, and the
property follows from it.

Where an argument needs an induction on numbers (windows in a row, the length of a history, the least row of a page),
it is made with the least number that violates the claim: the naturals are well-founded under `<`, and the library proves
that a nonempty set then has a minimal member (`WFMin`). What stays out of reach is an induction over data: what a
recursive definition computes.

| module | theorem | property |
|---|---|---|
| `SharedLogin_proofs` | `StoreTypeCorrect` | `StoreTypeOK` (proved only; no run lists it) |
| | `TokensStayWithinBinding`, `TokensStayWithinRoot` | `TokensWithinBinding`, `TokensWithinRoot` |
| | `BindingsAreImmutable` | `BindingImmutable` (proved only) |
| | `EvidenceIsKept`, `LogoutsAreFinal` | `EvidenceKept`, `LogoutIsFinal` |
| | `EndpointTypeCorrect` | `EndpointTypeOK` (proved only) |
| | `KeysAreRedeemedOnce` | `RedeemedOnce` |
| | `EndedFamiliesRefuse` | `EndedFamilyRefuses` |
| | `RefusalsEndFamilies` | `RefusalEndsFamily` |
| | `EndpointUsesStore` | `[][StoreNext]_storeVars` (proved only) |
| | `EndpointKeepsTokensWithin` | `TokensWithinBinding`, `TokensWithinRoot` under `EndpointSpec` |
| | `ConsentTypeCorrect` | `ConsentTypeOK` (proved only) |
| | `EndedRootsIssueNothing` | `EndedRootIssuesNothing` |
| | `DeviceConsentIsFresh` | `DeviceConsentFresh` |
| | `ConsentUsesStore` | `[][StoreNext]_storeVars` (proved only) |
| `SignIn_proofs` | `IdentityTypeCorrect` | `TypeOK` (proved only) |
| | `AccountsAreSound` | `AccountsSound` |
| | `StartsAreBounded` | `StartsBounded` |
| | `CookiesFindTheirState` | `CookieFindsState` |
| `MachineAccess_proofs` | `AccessTypeCorrect` | `TypeOK` (proved only) |
| | `OperationsAreAuthorised` | `Authorised` |
| | `LeasesEndWithTheirGrant` | `LeaseResidual` |
| `SmallParts_proofs` | `PollingIsSound` | `PollingSound` |
| | `ListingIsHonest` | `ListingHonest` |
| | `HarnessIsExact` | `HarnessExact` |
| | `KillsAreByAssertion`, `ValidatorsAccept` | `KillsByAssertion`, `ValidatorsAgree` |
| `ServerParts_proofs` | `ExitsCleanly` | `CleanExit` |
| | `DuplicateCheckHolds` | `CheckHolds` |
| | `PromisesAreFifo` | `ImplementsFifoLock` |
| `CampaignLineage_proofs` | `LineageTypeCorrect` | `TypeOK` (proved only) |
| | `MutationsAreJournaled` | `MutationJournaled` |
| | `SurvivorsAreMarked` | `SurvivorsMarked` |
| | `ForeignBytesAreKept` | `ForeignKept` |
| | `MeasurementsAreGenuine` | `MeasurementsGenuine` (proved only) |
| | `CollectedKillsAreGenuine` | `KillsGenuine` |
| | `AbortsAreInspected` | `AbortsInspected` |
| | `CollectedKillsAreBracketed` | `KillsBracketed` |
| | `EndedReportsAreAccepted` | `EndedAccepted` |
| `EvidenceCollection_proofs` | `CollectionTypeCorrect` | `TypeOK` (proved only) |
| | `BundlesAreConsistent`, `BundlesAreWhole` | `ConsistentCut`, `BundleWhole` |
| `NativeJob_proofs` | `JobTypeCorrect` | `TypeOK` (proved only) |
| | `NothingRunsUncapped` | `NothingUncapped` |
| | `CreditIsEarned` | `CreditEarned` |
| | `CompleteSnapshotIsWhole` | `CompleteIsWhole` |

### The store

Assumed of the constants: lifetimes are positive naturals and a device code's is at most a
record's (`StoreConstants`), record ids of different models differ (`DisjointModels`), and the
markers for "no row" are not rows (`NoRowIsNoRow`, `NoRowIsNotARow`).

The argument rests on `StoreInv`, four conjuncts:

* `StoreTypeOK`;
* `TokensWithinBinding`, which is not inductive alone: a sweep of the bindings could remove
  the binding of a token that counts. It cannot, because the token expires no later than
  the binding does, and the binding is swept only a day after that;
* `PendingFresh`: a row read by a snapshot and not yet committed is at most a day past its expiry,
  or the sweep could take its binding before it commits. `Tick` makes that so: an
  insert does not stay open for a day;
* `BindingsWithinSession`: a binding belongs to a digest that was issued, and while that session's
  row exists they agree on the actor and the binding expires first. A digest is never issued
  twice; that is why the binding of a logged-out session cannot come alive through a later one.

`StoreInv` is shown to hold initially and to be preserved by each action; the two action
properties on bindings and evidence follow action by action, and `LogoutsAreFinal` from `StoreInv`
and the guard of `BindSession`.

### The token endpoint

Assumed besides the store's constants (`EndpointConstants`): the marker for "no key" is not a key, the refresh
tokens that exist at the start are refresh tokens, and a token's lifetime is within the store's bound.

`EndpointUsesStore` comes first: whatever a request does to the tables is one of a few statements
(`Statement`), and each is a step of `StoreNext`. So `StoreInv` holds under the endpoint too, and with it
`EndpointKeepsTokensWithin`. `EndpointInv` adds to the types:

* `FamilyRows`: a code's or token's row belongs to a grant and an actor, committed or not;
* `Minting`: a token id is given to one request, and an insert under way belongs to a request at that
  await or to one that died in it. Without it an orphaned insert could bring back the row of a
  key that another request had consumed;
* `RowSound` of each request: one that has won its key finds it consumed or gone ever after (`Spent`); a late one has an ended
  family and never gets to an insert; a refused one that won or detected a replay has no Grant left;
* `RedeemedOnce` itself: the second winner would have to consume a key that is spent.

That a family stays ended rests on the store's steps alone (`BindSession` never revives a grant, and the
endpoint never writes a Grant).

### The interaction pages

Assumed besides the store's constants (`ConsentConstants`): the markers are not ids, and there is a session and an
actor at all. `ConsentInv` adds to the types:

* `SessionsIssued`: a digest that is in a row was issued, so that an ended session's digest cannot come back;
* `FlowSound`: the grants that an authorization began after the end of (`ended`) are over for good, and what it is
  authorized on is none of them; what counts as consented was saved for that very flow (`savedFor`);
* `PostSound`: a POST in flight belongs to an interaction that still waits for it, and from the save on
  its grant is that flow's;
* `DeviceConsentFresh`.

The proof is about what may happen between two awaits of a handler: each action of another tab, the sign-out and
the operator's change is shown to keep what is known of the tabs it does not belong to (`StatementStands`,
`StandsIsSound`). `ConsentSpec` has fairness; the theorems do not use it.

### Sign-in

Assumed: the marker for "none" is none of the ids, Google subjects are not DIDs, the administrator's email is an
email (`IdentityConstants`), and the marker is not an actor's row (`NoRowIsNone`).
`AccountsSound` speaks of committed rows and is not inductive, because a transaction decides whether it is
alone when it inserts and makes its rows visible when it commits. `IdentityInv` adds to types and committed rows:

* `HoldersApart`: no two open transactions hold the same entry of the email or the subject index;
* `RequestSound`: a transaction that holds an entry holds one that no committed row has, a request that signs in is
  entitled to its actor (`Entitled`), and one that has not committed has no committed actor of its own.

### Starting a sign-in

Assumed (`StartConstants`): window, quotas, bounds and lifetimes are positive naturals, the markers are no client and no time.
`StartInv` is

* `LimiterInv`: the limiter holds every admission of the current window and nothing but admissions, whoever prunes
  whose list; no window has more admissions than the quota. The second needs the first, and is stated for windows that begin anywhere;
* `StoreInv` with `AttemptSound` of each start: a stored state expires after `StateTtl` from its save, the redirect comes
  within the margin, so the cookie it sets ends no later than the state; and a state goes back to an admission of
  its own start, not older than the state's lifetime and the wait before it.

`CookieFindsState` and the bounds of both tables follow at once. A client's share of the store is counted by an
injection: its live states map to different admissions (`AttemptSound`), all of them within `StateTtl + Resolve` of now; that span is covered by
`Windows(span)` windows in a row (`WindowsCover`), each of which has the quota at most (`WindowsInARow`).

### Device polling, listing, harness, verdicts

The four parts are proved about on their own and carried over to `SmallParts`, whose steps are theirs. Assumed
(`PartConstants`): numbers are naturals, positive where the code has a constant; each path of the harness is of one kind, and the marks of the
model are neither paths nor blobs.

* `DeviceInv`. `PollingSound` needs that the holder of the row lock decides on the row as it is (`LockSound`), and that the row remembers a
  time no earlier than the last admission, has counted each and is consumed once something was granted (`RecordSound`). What a
  proposal does to the interval and the count is a lemma about `Proposal` (`ProposalSound`).
* `PageInv`. While the reader goes on, its list has exactly `page * PageSize` actors and what was active all along and is at least the cursor is
  in it (`PagesRead`). One more page is a lemma (`NewestPage`): as many as fit, closed upwards, and everything if it is short. So a full page
  is all new, the reader never reports a repeating server, and the probe's rows come on top of `MaxPages * PageSize`.
* `HarnessInv`. Nobody but the process writes what it selected, so a path that is something else while a command
  reads stays so until the second validation (`Steady`), whether or not the command had read it. Hence what was measured is what was selected.
* `VerdictInv` says what row the campaign wrote for which outcome (`CompileRow`, `TestRow`). `KillCounts` and `Agreement` are then about the
  classifiers alone, case by case of how an execution ended and what is in its log: rows and first baselines are accepted outright, and of the
  restored baselines that passed exactly those that repeat every group (`EveryGroup`), which is what the third finding is about. The plan has two groups.

### Lifecycle, the lock, the email index

These three are proved about in the same way. Assumed (`PartConstants` of `ServerParts`): a script is a sequence of statements, "none" is not an email, "no key" not a
key, and no process is both migrator and writer.

* `ProcessInv`: the exit code is 1 from the signal until both pools have ended, and what is issued after the signal is counted before the script can go on.
* `LockInv` and the refinement. `ImplementsFifoLock` maps `ahead` of a caller to `Before`, the smallest set of callers that is closed under
  awaiting a gate. What such a set becomes when a caller joins at the end or leaves at the front is shown once, for any relation
  (`ChainJoined`, `ChainLeft`). `LockInv` says that a gate that is awaited belongs to somebody inside with the same key (`Chained`), and that the map
  remembers the last of each key, behind whom all others of it are (`MapSound`). Then `Enter` is `Ask` (`EnterAsks`), `Proceed` is `Run` (`ProceedRuns`), since nobody with
  the key is before a caller whose gate is open, and `Settle` is `Finish` (`SettleFinishes`), which takes one caller out of every chain. The fairness of
  `OAuthLock` is not used; `FifoLock` has none.
* `IndexInv`: the migration has its lock from its first statement to its end and it excludes everyone's (`LocksHeld`), so nothing was added
  since no duplicates were found; under the unique index no writer about to commit has an email that is there or another one's (`FoundNone`).

### Machine access

Assumed: lifetimes and bounds are naturals (`AccessConstants`). A request's row carries what was true when it was
read. `AccessInv` says in addition that a lease, asked for or signed, has an instant at which its grant was the entry of
a sound file and its owner active ever since (`GrantHeld`, `OwnerHeld`, `LeaseTraced`), which no later step can undo
(`WorldRemembers`), and counts its lifetime from that instant and no later one. That is why the clock is read
before the look-up.

### The campaign and its lineage

All theorems are about `LineageSpec`: campaigns, recoveries, acknowledgements, restorations and
continuations together. Assumed (`CampaignConstants`, `LineageConstants`, `MutantsDiffer`): the candidates are a
finite sequence, bounds are naturals, and a mutant's bytes are not the original's, for `sites` drops
replacements that change nothing.

`LineageInv` is built in layers, each preserved by a step before which the layers below hold:

* `TypeOK` and `ControlSound`: what the program counter says of the job, the phase, the child and the failures seen;
* `SourceSound`: from the journal's first byte to the mutant's the source is the original; from there to the unlink the
  journal is whole. `MutationJournaled` alone is lost in the step that truncates the source;
* `SurvivorsSound`: the marker names the execution in hand until it ended by itself, and from the mark anew on when its
  containment is unknown; a process that has seen no containment fail started with nothing alive that was cut off;
* `MeasuresSound`: the bytes an execution set out to measure are those of its compilation, its build and its
  test. It needs the two layers below, for a descendant of an earlier build writes `build` at any time, and a foreign edit
  may come while a command runs;
* `InspectionsSound`: a restoration in hand is of an inspected report, acknowledgements and receipts are older than what
  builds on them;
* `HistoriesSound`: each report by itself is what `load_history` wants of it;
* `BlocksSound`: an aborted report's last log is marked or attested, and a process works or recovers only when every abort so far is
  attested, so that none clears the marker of another's abort.

`AbortsInspected`, `MutationJournaled` and the two halves of `SurvivorsMarked` are conjuncts of it. `EndedAccepted` and
`KillsBracketed` follow from the last layer and from what `Histories` is: its members are the
report and parents of members (`HistoriesAreChains`), and every parent has an aborted end and a receipt. That the receipt of an
aborted report is older than the report continuing it, although several may exist, is shown of
the first of them (well-founded minimum on the naturals).
`MeasurementsGenuine` says what a row is: every kill recorded in any
report was tested on a build of its own mutant, and every baseline and receipt on the original. For `KillsGenuine`, what an accepted history adds
up to is needed besides: of its reports that are older than one of them the parent of that one is the youngest (`ParentsAreNext`, argued of
the youngest report with a gap), each begins where its parent ends, so they follow each other from the first
candidate on (`HistoryIsPrefix`), and their rows observe each candidate of a prefix exactly once (`CorpusGenuine`).

### The collector

Assumed of the constants (`CollectionConstants`): the workers are 1..n for some n > 0, the marker for
"nobody" is not a collector, the bounds are naturals, and a report has room for enough rows.
`ConsistentCut` and `BundleWhole` say something of published bundles only and are not inductive. `CollectionInv` adds, for each
collector:

* `LeasesInOrder`: while it leases, it has 1..k; while it reads, all of them;
* `LeasedIsOff`: no campaign runs on a worker it has a lease on, so that nothing but the collector's own
  return of the lease lets a campaign start there, and the report stands still;
* `StillSo`: what it saw of the workers it has been through is what their reports still say. This is where leasing all workers
  before reading the first is needed: with one lease at a time the first report could move on while
  the second is read;
* `AsCut`: from the return of the leases on, what it saw is the cut of that instant;

of the output (`OutputOwned`): a file's writer made the directory, the manifest comes last, and only the collector
that made the directory writes; and of the workers (`RowsFit`): a campaign with a mutant out has room for its row,
which type correctness needs.

A worker's step leaves every leased report alone (`CollectorsUndisturbed`), a collector's step
changes its own row only (`CollectorMoves`), and the two that write go through `CollectorWrites`. What is proved of
`ConsistentCut` speaks of reports; that the tree was clean and nothing in flight is a guard of `Enter` and `Leave` and no
part of it.

### The native job

Assumed (`JobConstants`): the bounds are naturals and at least one kill is required. The controller and the unit run side by
side, and what the controller established must survive whatever the unit does until it is used. `JobInv` says

* of the unit (`UnitSound`): it holds the lock exactly while the campaign runs, and runs only behind an opened
  gate, and the gate opens only after the caps were read;
* of the controller (`JobSound`): what each of its steps may rely on: from `terminal` on the unit is gone and can write nothing,
  from `collect` on its report is enough, at `readopt` the batch is that report;
* of the partition (`PartitionSound`): the batch still says what the report says;
* of the archive (`ArchiveSound`): a verified unit stays closed, so logs and report are read of one state; without verification
  an error is on record and the snapshot cannot be complete.

`CreditEarned` and `CompleteIsWhole` speak of files and are not inductive: they hold because nothing writes between the
check and the file, which is what the middle two conjuncts say. The specification has fairness; these theorems do not use it.

### Only model-checked

* The liveness properties (`SwitchConcludes`, `EveryCallerRuns`, `ShutsDown`, `EveryoneFinishes`, `JobEnds`), which are out of the
  prover's reach.
* `SitesExact`: the parsers are recursive operators over tokens and trees, and what they compute for every form
  needs an induction over forms.

The type invariants `TypeOK` of the parts in `SmallParts` and `ServerParts`, and `StartTypeOK`, are conjuncts of their inductive invariants and no theorems of their own
(`HarnessInv` and `VerdictInv` bound what their arguments need instead).

## Findings

Each is a run whose one property TLC finds violated.

**`google_race`** (`RacingCallbackRecovers`). `cljs/routes/google.cljs` looks up the
subject (line 35) and the email (line 39) in two statements. When a racing first callback of the same
Google account commits between them, the second finds its own email taken and answers
as if it belonged to someone else, although the docstring promises to recover the winning binding.
The recovery in the transaction's error path is only reached when the other commits later.

**`containment`** (`ContainmentBlocks`). `qualification/README.md` (lines 149-152) says that an interruption or timeout during a
protected execution leaves the marker and blocks new runs and recovery. `execute` unlinks the marker of every command that
ended within its bounds; that the driver gave up a test of its own is read afterwards, in `checked_execute`, which marks anew. A kill or
signal between the two leaves that test's descendants with no marker. What does hold is `SurvivorsMarked`: whatever was
cut off with its process group is marked, and an abort that reached the report blocks until it is acknowledged.

**`restored`** (`RestoredRepeats`). The same document (131-132) says that restored plans require the same test and group count.
`run_campaign` (880-887) compares totals: other numbers per group with the same total pass, and so does a log
in the text of the test library, without any structured summary. `campaign_lineage.py` (185-188, 203-207) refuses both, so that a campaign may run to
its end and leave a report that no validator accepts. `ValidatorsAgree` says that nothing else divides the two.

**`inert_forms`** (`InertSkipped`). The document (170-172) says that the legacy profile finds no candidates in discarded or
quoted forms. `_legacy_sites` (line 140) does not pass over `#` and `#js` as `_string_sites` (line 210) does: a quote or a discard before
them takes the `#` for its form, and the bracket behind, as in `#_#(inc 1)` or `'#{1 2}`, is live to the parser. Two discards in a row
(`#_ #_ a b`) leave `b` live in the same way. `SitesExact` says that both parsers are right about all other forms.

## Limits of the models

* **Store.** Only the token upsert is split; the others lock the one row they write or commute
  with what may overlap them (see the module's header). An insert left open for a day past the
  expiry of its row is excluded, as said above.
  Because the token upsert is split, `revoke-family!` may miss the row of another request of the
  grant that commits after it: a failed rotation makes its family useless (`RefusalEndsFamily`)
  but need not remove every row, which is how `docs/renewal-device-source.md` line 21 words it.
* **Interactions.** The engine (sessions, interactions, the order of its checks) is modelled from how
  Axxium's hooks and fixtures see it. One browser, one client, one tab per flow, a POST awaited before
  its tab goes on. Time stands still: a root session that expires is one that was ended. An actor who
  gave up half-way is `refused`. Signing in over a root session does not end that session
  (`login!` only inserts), and `/oidc/auth` does not look at the root cookie: while it lasts, the model, like the
  code, lets the engine go on reusing the earlier actor's grant. `docs/shared-login-implementation-status.md`
  lines 123-125 describe the switch after a logout, which is what `EndedRootIssuesNothing` and `SwitchConcludes` cover.
* **Endpoint.** The engine is modelled from the order of its adapter calls. Introspection, revocation and userinfo
  requests use single statements of the store and have no chain of their own.
* **AT Protocol start.** The wait before a state is saved is bounded by `Resolve`. The comment of
  `law/atproto.cljc` counts at most 60 states for a client, from the state's lifetime alone; states
  whose `authorize` call waited are saved later, and `StartsBounded` has the bound with that wait.
* **Machine access.** The clocks of the process and of the database agree. `with-admin` and `with-auth` decide once and the writes after
  them are not conditional on it: authority that ends in between is spent all the same, and `Authorised` allows it.
* **Campaign.** The campaign lock admits one process. Edits by others come while a command runs or between
  invocations (the documentation forbids them during a run). The code compares and then writes, and what falls between the
  comparison and the write of `run_campaign` (825-837), `recover` (650-653) or `restore` (619-622) cannot be seen by it: these
  windows are not modelled, so `ForeignKept` checks the comparisons and not a race with them.
  A command that ends by itself may leave a descendant that detached (`Detached`; `qualification/README.md` 164-165): nothing marks it and
  no property is promised of it. It is assumed to write no build: a compiler that ended by itself has written its
  output. `KillsGenuine` and `KillsBracketed` rest on that.
  A journal or a source file that a kill left torn is refused by
  `recover`, and an operator has to restore it (`Checkout`).
* **Lineage.** Reports, logs and references are read as they were written: digests, custody of the producer and
  of the harness, the adoption of reports of native jobs are left out (the collection over several workers is in `EvidenceCollection`), and so are clocks,
  for the order of the actions stands for the order of the timestamps. In this module every test that ran to its
  end and failed is a kill; which failures count is the subject of `Verdicts`.
  Four things the model shows are by design and no property calls them wrong: an acknowledgement by the operator of the
  report clears the marker but can never serve for a restoration, so the report stays aborted for good;
  a campaign that is killed, or aborted in a baseline, leaves a report that still says "running"
  (or has no rows) and is refused; a partial report with restored plans has no continuation, for only an aborted
  one has; and a continuation that makes the chain longer than `MAX_ANCESTORS` is run to its end and refused afterwards.
* **Verdicts.** Reading a log's text is abstracted to what the expressions find in it. The plan has two groups; a campaign without an external
  harness, whose restored counts must be equal to the first ones, is left out.
* **Sites.** The lexer, tagged literals other than `#js`, and the replacement values are left out. `SitesExact` is about forms as
  people write them (`Usual`) apart from those of the finding `inert_forms`: no prefix directly before a discarded form or a dispatch.
  Both parsers know the heads they treat specially only as bare symbols.
* **Collector.** A worker's campaign is `MutationCampaign` reduced to what a collector can see. The audit of the corpus is `Readable`.
* **Native job.** The report, logs and lock stand for the campaign. A unit that ends between the reading of its state and
  the request to stop it makes the request fail, as in the code; a `SIGUSR1` that arrives before the
  campaign has set its handler ends it, and the job gets no credit. What the evidence files hold and the exact unit properties
  compared for a cap are left out.
* **Harness.** An edit that is undone between the two validations of an execution cannot be seen and is not modelled as a measurement on
  foreign files. Directories, digests and the rewriting of `shadow-cljs.edn` are left out. The campaign lock
  admits one process, so one is modelled.
* **Actor listing.** Parsing of parameters and pages is left out: a page that does not parse is a failed request.
* **Lifecycle.** A schema statement is a step of a script; what it does is left to `EmailIndexMigration`.

### Not modelled

* `cljs/config.cljs`, `extern/http.cljs`, `extern/jose.cljs`, `extern/bcrypt.cljs`, `routes/health.cljs`: wrappers and conversions without
  state of their own; `account-manager.js` and `oidc-return.js` render and send one request at a time; deployment, CI and the
  planning documents are not program state.
* Of modelled components: introspection, revocation and userinfo requests (single statements of the store);
  creating an agent and replacing capabilities (one transaction with fresh ids, one UPDATE); the schema's
  `CREATE ... IF NOT EXISTS` and backfills; JWTs and cookies as text; modes, owners and links of the campaign's files; the lexer
  of the mutation sites; `inspect_expanded_inventory.py`, which prints under the campaign lock; `test_phase.py`, which runs inside the
  harness and whose outcomes are the inputs of `Verdicts`.

## Plan

The order was, and is, by what a mistake would cost: the shared login first, then sign-in, then the
process, then tooling.

Done: `OidcStore`, `TokenEndpoint`, `InteractionConsent`, `DevicePolling`, `IdentityBinding`, `AtprotoStart`,
`OAuthLock` with `FifoLock`, `MachineAccess`, `Lifecycle`, `EmailIndexMigration`, `ActorPages`, `MutationCampaign`, `CampaignLineage`,
`MutationSites`, `Verdicts`, `EvidenceCollection`, `NativeJob`, `ExternalHarness`; and a proof of every safety property of
theirs but `SitesExact`.

What could follow:

1. An abstract `TokenFamily` (live, ended) that `TokenEndpoint` implements.
2. `CampaignLineage` with three campaigns of one candidate in a run: forks of one parent, and the bound on ancestors. The proofs cover
   both already.

The number of runs and properties is meant to stay as it is: a new one replaces a weaker one. Small components
that share no state share a run and a module of proofs.
