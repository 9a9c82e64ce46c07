-------------------------- MODULE InteractionConsent --------------------------
(***************************************************************************)
(* One browser and the shared login: the interaction pages of              *)
(* extern/oidc_http.cljs, the grant that a consent saves and binds, and    *)
(* the authorizations that load it through extern/oidc_provider.cljs.      *)
(*                                                                         *)
(* A flow is one authorization in one tab, named by the record it ends in: *)
(* an authorization code, or a device code that is approved.  The tabs     *)
(* share three cookies: the root session, the engine's own session and the *)
(* CSRF seed.  Each action runs from one await of a handler to the next,   *)
(* over the store of OidcStore.  There is one client.  Time stands still:   *)
(* to these queries a root session that expires is one that was ended.     *)
(***************************************************************************)
EXTENDS OidcStore

CONSTANTS NoSession, NoFlow

Flows == Codes \union Devices
ASSUME ConsentConstants ==
  /\ NoSession \notin Sessions /\ NoFlow \notin Flows
  /\ Sessions # {} /\ Actors # {}   \* somebody signed in

VARIABLES
  root,      \* the browser's root-session cookie
  engine,    \* the engine's browser session: its account, and the client's grant
  seed,      \* the CSRF cookie: it fits the page that was rendered last
  flow,      \* authorization requests and their interactions
  post,      \* POST /oidc/interaction/:uid, one in flight per tab
  savedFor   \* history: the flow whose POST saved a grant

browser == <<root, engine, seed, flow, post, savedFor>>
consentVars == <<storeVars, browser>>

Account == Actors \union {NoActor}
Grant   == Grants \union {NoGrant}
Flow == [pc : {"new", "loading", "interaction", "authorized", "issued", "denied", "refused"},
         account : Account,                     \* of the engine session, as the request read it
         session : {"none", "live", "gone"},    \* that session: absent, or since replaced
         grant : Grant, consented : BOOLEAN,    \* to load; TRUE if this interaction's result
         prompt : {"none", "login", "consent"},
         result : {"none", "denied", "login", "consent"}, subject : Account,
         ended : SUBSET Grants]                 \* history: grants over when the request began
Post == [pc : {"idle", "rooted", "saved", "finish"},
         actor : Account, session : Sessions \union {NoSession}, grant : Grant]

NewFlow == [pc |-> "new", account |-> NoActor, session |-> "none", grant |-> NoGrant,
            consented |-> FALSE, prompt |-> "none", result |-> "none", subject |-> NoActor,
            ended |-> {}]
NoPost == [pc |-> "idle", actor |-> NoActor, session |-> NoSession, grant |-> NoGrant]

ConsentTypeOK ==
  /\ StoreTypeOK
  /\ root \in Sessions \union {NoSession}
  /\ engine \in [account : Account, grant : Grant]
  /\ seed \in Flows \union {NoFlow}
  /\ flow \in [Flows -> Flow] /\ post \in [Flows -> Post]
  /\ savedFor \in [Grants -> Flows \union {NoFlow}]

\* Device codes were requested, and an actor (which one is all the same) signed in.
ConsentInit ==
  /\ root = CHOOSE s \in Sessions : TRUE
  /\ clock = 0 /\ active = Actors /\ issued = {root}
  /\ sessions = [s \in Sessions |->
       IF s = root THEN [actor |-> CHOOSE a \in Actors : TRUE, expires |-> SessionLifetime]
       ELSE NoRow]
  /\ bindings = [g \in Grants |-> NoRow]
  /\ records = [k \in Keys |->
       IF k \in Devices THEN NewRow(NoGrant, NoActor, DeviceLifetime) ELSE NoRow]
  /\ pending = [t \in Tokens |-> NoRow]
  /\ seed = NoFlow
  /\ engine = [account |-> NoActor, grant |-> NoGrant]
  /\ flow = [f \in Flows |-> NewFlow] /\ post = [f \in Flows |-> NoPost]
  /\ savedFor = [g \in Grants |-> NoFlow]

\* current-root: the cookie names a stored session of an active actor.
CurrentRoot == root # NoSession /\ Live(sessions, root) /\ sessions[root].actor \in active

\* The root session a grant was bound to has ended.
Over(g) == Has(bindings, g) /\ (~Live(bindings, g) \/ ~Live(sessions, bindings[g].session))

-----------------------------------------------------------------------------
(* Authorization requests, in the engine.                                  *)

Loading(a, g, consented) ==
  [NewFlow EXCEPT !.pc = "loading", !.account = a, !.grant = g, !.consented = consented,
                  !.session = IF a = NoActor THEN "none" ELSE "live",
                  !.ended = {x \in Grants : Over(x)}]

\* oidc-dispatch lets every authorization through, but device verification only
\* under a current root.
Admitted(f) == f \in Devices => CurrentRoot

Authorize(f) ==
  /\ flow[f].pc = "new" /\ Admitted(f)
  /\ flow' = [flow EXCEPT ![f] = Loading(engine.account, engine.grant, FALSE)]
  /\ UNCHANGED <<storeVars, root, engine, seed, post, savedFor>>

\* loadExistingGrant: the grant is used again only while its root is current.
LoadableUnverified(g, a) == g # NoGrant /\ Live(records, g) /\ records[g].account = a
Loadable(g, a) == g # NoGrant /\ RootCurrent(g, a) /\ Live(records, g)

\* approval-policy: a device asks for consent in its own interaction, always.
NeedsConsentUnlessGranted(f) == ~Loadable(flow[f].grant, flow[f].account)
NeedsConsent(f) ==
  \/ ~Loadable(flow[f].grant, flow[f].account)
  \/ f \in Devices /\ ~flow[f].consented

\* An interaction is saved and the browser redirected to it.
Prompt(f, prompt) ==
  flow' = [flow EXCEPT ![f] = [@ EXCEPT !.pc = "interaction", !.prompt = prompt,
                                        !.grant = NoGrant, !.consented = FALSE,
                                        !.ended = {}]]
End(f, pc)  == flow' = [flow EXCEPT ![f] = [NewFlow EXCEPT !.pc = pc]]
FlowTo(f, pc) == flow' = [flow EXCEPT ![f].pc = pc]

\* findAccount, loadExistingGrant and the policy.
LoadGrant(f) ==
  /\ flow[f].pc = "loading"
  /\ \/ flow[f].account = NoActor /\ Prompt(f, "login")
     \/ flow[f].account \in Actors \ active /\ End(f, "refused")
     \/ flow[f].account \in active /\ NeedsConsent(f) /\ Prompt(f, "consent")
     \/ flow[f].account \in active /\ ~NeedsConsent(f) /\ FlowTo(f, "authorized")
  /\ UNCHANGED <<storeVars, root, engine, seed, post, savedFor>>

\* The code is saved, or the device code approved, with the account and grant loaded.
Issue(f) ==
  /\ flow[f].pc = "authorized"
  /\ UpsertPlain(f, flow[f].grant, flow[f].account, 1)
  /\ FlowTo(f, "issued")
  /\ UNCHANGED <<root, engine, seed, post, savedFor>>

\* The engine forgets its session when another account logs in, so interactions of
\* the old one are lost.
LoggedIn(f, a) ==
  LET g == IF engine.account = a THEN engine.grant ELSE NoGrant
      switched == engine.account \notin {NoActor, a}
  IN  /\ engine' = [account |-> a, grant |-> g]
      /\ flow' = [x \in Flows |->
           IF x = f THEN Loading(a, g, FALSE)
           ELSE IF switched /\ flow[x].session = "live" THEN [flow[x] EXCEPT !.session = "gone"]
           ELSE flow[x]]

\* The browser follows the redirect of interactionFinished.  Without a current root
\* a device is sent to sign in and then back to the start (device-login-return).
Resume(f) ==
  /\ flow[f].pc = "interaction" /\ flow[f].result # "none"
  /\ seed' = IF seed = f THEN NoFlow ELSE seed
  /\ \/ /\ ~Admitted(f)
        /\ flow' = [flow EXCEPT ![f] = NewFlow] /\ UNCHANGED engine
     \/ /\ Admitted(f) /\ flow[f].session = "gone"
        /\ End(f, "refused") /\ UNCHANGED engine
     \/ /\ Admitted(f) /\ flow[f].session # "gone" /\ flow[f].result = "denied"
        /\ End(f, "denied") /\ UNCHANGED engine
     \/ /\ Admitted(f) /\ flow[f].session # "gone" /\ flow[f].result = "login"
        /\ LoggedIn(f, flow[f].subject)
     \/ /\ Admitted(f) /\ flow[f].session # "gone" /\ flow[f].result = "consent"
        /\ engine' = [engine EXCEPT !.grant = flow[f].grant]
        /\ flow' = [flow EXCEPT ![f] = Loading(engine.account, flow[f].grant, TRUE)]
  /\ UNCHANGED <<storeVars, root, post, savedFor>>

-----------------------------------------------------------------------------
(* The interaction pages.                                                  *)

Waiting(f) == flow[f].pc = "interaction" /\ flow[f].result = "none" /\ post[f].pc = "idle"

\* show-interaction: a new seed; pages rendered before are refused from now on.
Show(f) ==
  /\ Waiting(f) /\ flow[f].session # "gone" /\ CurrentRoot /\ seed # f
  /\ seed' = f
  /\ UNCHANGED <<storeVars, root, engine, flow, post, savedFor>>

\* An interaction whose session is gone cannot be shown: 400.
Lose(f) ==
  /\ Waiting(f) /\ flow[f].session = "gone"
  /\ End(f, "refused")
  /\ UNCHANGED <<storeVars, root, engine, seed, post, savedFor>>

\* csrf-valid?: the token on the page and the seed in the cookie are of one rendering.
CsrfValid(f) == seed = f

\* finish-interaction: csrf-valid?, then current-root.
Submit(f) ==
  /\ Waiting(f) /\ CsrfValid(f) /\ CurrentRoot
  /\ post' = [post EXCEPT ![f] = [pc |-> "rooted", actor |-> sessions[root].actor,
                                  session |-> root, grant |-> NoGrant]]
  /\ UNCHANGED <<storeVars, root, engine, seed, flow, savedFor>>

\* interaction-admission, :login and :restart-login being one answer.
AdmissionSameActorOnly(f, decision) ==
  IF decision = "deny" THEN "denied"
  ELSE IF flow[f].prompt = "login" THEN "login"
  ELSE IF post[f].actor # flow[f].account THEN "refuse"
  ELSE "consent"
Admission(f, decision) ==
  IF decision = "deny" THEN "denied"
  ELSE IF flow[f].prompt = "login" \/ post[f].actor # flow[f].account THEN "login"
  ELSE "consent"

Drop(f) == post' = [post EXCEPT ![f] = NoPost]
Finished(f, result) ==
  flow' = [flow EXCEPT ![f] = [@ EXCEPT !.result = result, !.subject = post[f].actor,
                                        !.grant = post[f].grant]]

Unused == {g \in Grants : savedFor[g] = NoFlow}

\* interactionDetails, which refuses for good when the engine session has changed, and
\* what admission decides: interactionFinished at once (it reads the same records
\* again), or a new Grant, which nobody else knows and which is of no use until bound.
Admit(f, decision) ==
  LET admission == Admission(f, decision) IN
  /\ post[f].pc = "rooted"
  /\ \/ /\ flow[f].session = "gone"
        /\ End(f, "refused") /\ Drop(f) /\ UNCHANGED <<storeVars, savedFor>>
     \/ /\ flow[f].session # "gone" /\ admission = "refuse"
        /\ Drop(f) /\ UNCHANGED <<storeVars, flow, savedFor>>
     \/ /\ flow[f].session # "gone" /\ admission \in {"denied", "login"}
        /\ Finished(f, admission) /\ Drop(f) /\ UNCHANGED <<storeVars, savedFor>>
     \/ /\ flow[f].session # "gone" /\ admission = "consent" /\ Unused # {}
        /\ LET g == CHOOSE g \in Unused : TRUE IN
             /\ UpsertPlain(g, NoGrant, post[f].actor, Day)
             /\ savedFor' = [savedFor EXCEPT ![g] = f]
             /\ post' = [post EXCEPT ![f].pc = "saved", ![f].grant = g]
        /\ UNCHANGED flow
  /\ UNCHANGED <<root, engine, seed>>

Bind(f) ==
  LET p == post[f] IN
  /\ p.pc = "saved"
  /\ IF Bindable(p.grant, p.actor, p.session)
       THEN BindSession(p.grant, p.actor, p.session) /\ post' = [post EXCEPT ![f].pc = "finish"]
       ELSE Drop(f) /\ UNCHANGED storeVars
  /\ UNCHANGED <<root, engine, seed, flow, savedFor>>

\* interactionFinished: the result is stored, unless the session has changed by now.
Finish(f) ==
  /\ post[f].pc = "finish"
  /\ IF flow[f].session = "gone" THEN End(f, "refused") ELSE Finished(f, "consent")
  /\ Drop(f)
  /\ UNCHANGED <<storeVars, root, engine, seed, savedFor>>

\* A query fails or the process dies, leaving a Grant behind, bound or not; the user
\* gives up.  (A failure before the Grant is saved leaves nothing.)
FailPost(f) ==
  /\ post[f].pc \in {"saved", "finish"}
  /\ End(f, "refused") /\ Drop(f)
  /\ UNCHANGED <<storeVars, root, engine, seed, savedFor>>

-----------------------------------------------------------------------------
(* The root session and the operator.                                      *)

\* login!: the cookie is replaced; the session it named is not ended.
SignIn(a) ==
  /\ Sessions \ issued # {} /\ a \in active
  /\ LET s == CHOOSE s \in Sessions \ issued : TRUE IN CreateSession(s, a) /\ root' = s
  /\ UNCHANGED <<engine, seed, flow, post, savedFor>>

\* logout!: the cookie is always cleared, even when the deletion fails.
SignOut ==
  /\ root # NoSession /\ root' = NoSession
  /\ Logout(root) \/ UNCHANGED storeVars
  /\ UNCHANGED <<engine, seed, flow, post, savedFor>>

Disable(a) == a \in active /\ SetStatus(a) /\ UNCHANGED browser

Server(f)  == LoadGrant(f) \/ Issue(f) \/ Bind(f) \/ Finish(f)
              \/ \E decision \in {"approve", "deny"} : Admit(f, decision)
Browser(f) == Authorize(f) \/ Show(f) \/ Lose(f) \/ Resume(f)

ConsentNext ==
  \/ \E f \in Flows : Server(f) \/ Browser(f) \/ Submit(f) \/ FailPost(f)
  \/ \E a \in Actors : SignIn(a) \/ Disable(a)
  \/ SignOut

\* Awaited calls return, the browser follows redirects, and a user who keeps being
\* shown the page answers it.
ConsentFairness ==
  \A f \in Flows : /\ WF_consentVars(Server(f)) /\ WF_consentVars(Browser(f))
                   /\ SF_consentVars(Submit(f))
ConsentSpec == ConsentInit /\ [][ConsentNext]_consentVars /\ ConsentFairness

-----------------------------------------------------------------------------
(* Properties.                                                             *)

\* "Signing out of Axxium ends reuse": an authorization request begun after the root
\* session of a grant has ended issues nothing under it, whatever the engine's
\* cookies still say and whoever has signed in since.
EndedRootIssuesNothing ==
  \A f \in Flows : flow[f].pc = "issued" => flow[f].grant \notin flow[f].ended

\* A device is approved only with a grant that was consented to in that device's own
\* interaction: never with one of another tab or one the browser could reuse.
DeviceConsentFresh ==
  \A d \in Devices :
    Has(records, d) /\ records[d].grant # NoGrant => savedFor[records[d].grant] = d

\* The model has run out of ids for new Grants.
Starved == Unused = {} /\ \E f \in Flows : post[f].pc = "rooted"
Concluded(f) == flow[f].pc \in {"issued", "denied", "refused"}

\* Changing the root actor while the engine's cookies remain never traps a user in
\* the interaction: once the root stays current, login restarts, consent follows and
\* every authorization is concluded.
SwitchConcludes ==
  \A f \in Flows : []~Starved /\ <>[]CurrentRoot => <>Concluded(f)

=============================================================================
