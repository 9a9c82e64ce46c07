-------------------------- MODULE IdentityBinding --------------------------
(***************************************************************************)
(* Who an outside identity signs in as: password sign-up and log-in,       *)
(* Google and AT Protocol callbacks, linking a DID to a signed-in actor,   *)
(* and the administrator bootstrap, all racing for the unique indexes on   *)
(* actors.email and provider_bindings(provider, subject).                  *)
(*                                                                         *)
(* One action per database call of routes/auth.cljs, routes/google.cljs,   *)
(* routes/atproto_oauth.cljs and scripts/bootstrap-local-admin.mjs.  A     *)
(* transaction's rows are invisible until it commits, but its index        *)
(* entries already make an equal insert of another transaction wait.       *)
(***************************************************************************)
EXTENDS FiniteSets

CONSTANTS
  Requests,            \* a request that creates an actor gives it its own name
  GoogleSubjects, Dids,
  Emails, AdminEmail,  \* the bootstrap-admin-email is reserved for Google
  None

Subjects == GoogleSubjects \union Dids

ASSUME IdentityConstants ==
  /\ GoogleSubjects \cap Dids = {} /\ AdminEmail \in Emails
  /\ None \notin Requests \union Subjects \union Emails

VARIABLES
  actors,    \* committed rows of actors, by id, or None
  bindings,  \* committed rows <<subject, actor>> of provider_bindings
  request    \* what each request is doing

vars == <<actors, bindings, request>>

Kinds == {"signup", "login", "google", "atproto", "link", "bootstrap"}
InFlight == {"find", "checkEmail", "insertActor", "insertBinding", "commit", "recover",
             "insertLink", "recoverLink", "session"}
Over == {"signedIn", "created", "taken", "forbidden", "failed"}   \* 409, 403, 500 or 502

ActorRow == [email : Emails \union {None}, password : BOOLEAN, active : BOOLEAN]
Request == [pc : {"new"} \union InFlight \union Over, kind : Kinds \union {None},
            subject : Subjects \union {None}, email : Emails \union {None},
            actor : Requests \union {None},          \* whom it is about to sign in
            lost : {"email", "subject", None}]       \* the unique index it lost at

ASSUME NoRowIsNone == None \notin ActorRow

TypeOK ==
  /\ actors \in [Requests -> ActorRow \union {None}]
  /\ bindings \subseteq Subjects \X Requests
  /\ request \in [Requests -> Request]

Init ==
  /\ actors = [a \in Requests |-> None]
  /\ bindings = {}
  /\ request = [r \in Requests |-> [pc |-> "new", kind |-> None, subject |-> None,
                                    email |-> None, actor |-> None, lost |-> None]]

-----------------------------------------------------------------------------
(* Queries.                                                                *)

Committed == {a \in Requests : actors[a] # None}
Active    == {a \in Committed : actors[a].active}

\* select-actor-by-provider-subject: disabled actors are not found.
BoundTo(s)    == {a \in Active : <<s, a>> \in bindings}
\* select-actor-by-email: whatever the status.
OwnerOf(e)    == {a \in Committed : actors[a].email = e}
EmailTaken(e) == e # None /\ OwnerOf(e) # {}
SubjectTaken(s) == \E a \in Requests : <<s, a>> \in bindings

Goto(r, pc) == request' = [request EXCEPT ![r].pc = pc]
SignIn(r, a) == request' = [request EXCEPT ![r].pc = "session", ![r].actor = a]
NoRows == UNCHANGED <<actors, bindings>>

\* Index entries of the transactions still open; an equal insert waits for them.
HoldsEmail(r)       == IF request[r].pc \in {"insertBinding", "commit"} THEN request[r].email ELSE None
HoldsSubject(r)     == IF request[r].pc = "commit" THEN request[r].subject ELSE None
EmailFree(r) == \A q \in Requests \ {r} : request[r].email = None \/ HoldsEmail(q) # request[r].email
SubjectFree(r) == \A q \in Requests \ {r} : HoldsSubject(q) # request[r].subject

-----------------------------------------------------------------------------
(* Requests arrive.                                                        *)

Arrive(r, kind, s, e, a, pc) ==
  /\ request[r].pc = "new"
  /\ request' = [request EXCEPT ![r] = [pc |-> pc, kind |-> kind, subject |-> s, email |-> e,
                                        actor |-> a, lost |-> None]]
  /\ NoRows

Signup(r, e) ==
  Arrive(r, "signup", None, e, None, IF e = AdminEmail THEN "forbidden" ELSE "checkEmail")
Bootstrap(r, e) == Arrive(r, "bootstrap", None, e, None, "checkEmail")

\* The password is compared with the row the lookup returned.
Login(r, e) ==
  \E a \in OwnerOf(e) \cap Active :
    Arrive(r, "login", None, e, a, IF actors[a].password THEN "session" ELSE "forbidden")

\* complete-callback! with a verified profile or DID.
Google(r, s, e) == Arrive(r, "google", s, e, None, "find")
Atproto(r, s)   == Arrive(r, "atproto", s, None, None, "find")

\* The state names the actor that started the link and still has a human session.
Link(r, s, a) == a \in Active /\ Arrive(r, "link", s, None, a, "find")

-----------------------------------------------------------------------------
(* Steps of a request.                                                     *)

\* bound-actor! and link-actor!: look the subject up.
Find(r) ==
  LET bound == BoundTo(request[r].subject) IN
  /\ request[r].pc = "find"
  /\ CASE request[r].kind = "link" ->
            IF bound = {} THEN Goto(r, "insertLink")
            ELSE Goto(r, IF request[r].actor \in bound THEN "session" ELSE "taken")
       [] request[r].kind # "link" ->
            IF bound # {} THEN \E a \in bound : SignIn(r, a)
            ELSE Goto(r, IF request[r].kind = "google" THEN "checkEmail" ELSE "insertActor")
  /\ NoRows

CheckEmail(r) ==
  /\ request[r].pc = "checkEmail"
  /\ Goto(r, IF EmailTaken(request[r].email) THEN "taken" ELSE "insertActor")
  /\ NoRows

AfterActor(r) == IF request[r].subject = None THEN "commit" ELSE "insertBinding"
NewActor(r) == [email |-> request[r].email, active |-> TRUE,
                password |-> request[r].kind \in {"signup", "bootstrap"}]

Lose(r, index) ==
  request' = [request EXCEPT ![r].lost = index,
                ![r].pc = IF request[r].subject = None THEN "taken" ELSE "recover"]

\* The transaction: entity and actor, then binding, then COMMIT; a violation of a
\* unique index rolls it back.
InsertActor(r) ==
  /\ request[r].pc = "insertActor" /\ EmailFree(r)
  /\ IF EmailTaken(request[r].email) THEN Lose(r, "email") ELSE Goto(r, AfterActor(r))
  /\ NoRows

InsertBinding(r) ==
  /\ request[r].pc = "insertBinding" /\ SubjectFree(r)
  /\ IF SubjectTaken(request[r].subject) THEN Lose(r, "subject") ELSE Goto(r, "commit")
  /\ NoRows

Commit(r) ==
  /\ request[r].pc = "commit"
  /\ actors' = [actors EXCEPT ![r] = NewActor(r)]
  /\ bindings' = bindings \union ({request[r].subject} \ {None}) \X {r}
  /\ \/ request[r].kind # "bootstrap" /\ SignIn(r, r)
     \/ request[r].kind = "bootstrap" /\ Goto(r, "created")
     \/ Goto(r, "failed")     \* committed, but the answer of COMMIT is lost

\* The loser of a race reloads by subject; who lost the email alone is refused.
RecoverOwn(r) == request[r].pc = "recover" /\ SignIn(r, r) /\ NoRows
Recover(r) ==
  LET bound == BoundTo(request[r].subject) IN
  /\ request[r].pc = "recover"
  /\ IF bound # {} THEN \E a \in bound : SignIn(r, a)
     ELSE Goto(r, IF request[r].lost = "email" THEN "taken" ELSE "failed")
  /\ NoRows

\* insert-link-binding!: one statement, committed at once.
InsertLink(r) ==
  /\ request[r].pc = "insertLink" /\ SubjectFree(r)
  /\ IF SubjectTaken(request[r].subject)
       THEN Goto(r, "recoverLink") /\ UNCHANGED bindings
       ELSE Goto(r, "session") /\ bindings' = bindings \union {<<request[r].subject, request[r].actor>>}
  /\ UNCHANGED actors

\* concurrent-binding-admission.
RecoverLink(r) ==
  LET winner == BoundTo(request[r].subject) IN
  /\ request[r].pc = "recoverLink"
  /\ Goto(r, IF winner = {} THEN "failed"
             ELSE IF request[r].actor \in winner THEN "session" ELSE "taken")
  /\ NoRows

\* create-session!
CreateSession(r) ==
  /\ request[r].pc = "session"
  /\ Goto(r, "signedIn")
  /\ NoRows

\* A query fails or the process dies: an open transaction is rolled back.
Fail(r) ==
  /\ request[r].pc \in InFlight
  /\ Goto(r, "failed")
  /\ NoRows

\* An operator disables an actor.
Disable(a) ==
  /\ a \in Active
  /\ actors' = [actors EXCEPT ![a].active = FALSE]
  /\ UNCHANGED <<bindings, request>>

Step(r) ==
  \/ Find(r) \/ CheckEmail(r) \/ InsertActor(r) \/ InsertBinding(r) \/ Commit(r)
  \/ Recover(r) \/ InsertLink(r) \/ RecoverLink(r) \/ CreateSession(r)

Next ==
  \E r \in Requests :
    \/ \E e \in Emails : Signup(r, e) \/ Bootstrap(r, e) \/ Login(r, e)
    \/ \E s \in GoogleSubjects, e \in Emails : Google(r, s, e)
    \/ \E s \in Dids : Atproto(r, s) \/ \E a \in Requests : Link(r, s, a)
    \/ Step(r) \/ Fail(r) \/ Disable(r)

Spec == Init /\ [][Next]_vars

-----------------------------------------------------------------------------
(* Properties.                                                             *)

\* Whichever request won the indexes, a federated sign-in gets the actor its subject
\* is bound to, a link stays with the actor that asked, a password with its email; and
\* half an account is never left behind: an actor has a password or a binding, a
\* binding its actor, and no email or subject belongs to two.
AccountsSound ==
  /\ \A r \in Requests :
       LET q == request[r] IN
       q.pc = "signedIn" =>
         IF q.subject # None THEN <<q.subject, q.actor>> \in bindings
         ELSE actors[q.actor].password /\ actors[q.actor].email = q.email
  /\ \A a \in Committed : actors[a].password \/ \E s \in Subjects : <<s, a>> \in bindings
  /\ \A b, c \in bindings : b[2] \in Committed /\ (b[1] = c[1] => b = c)
  /\ \A a, b \in Committed : actors[a].email # None /\ actors[a].email = actors[b].email => a = b

\* routes/google.cljs: bound-actor! returns "the subject-bound actor, atomically
\* creating or recovering the winning binding", so a callback that raced another one
\* of the same subject is never told that its email belongs to somebody else.
RacingCallbackRecovers ==
  \A r \in Requests :
    request[r].pc = "taken" /\ request[r].kind = "google" =>
      \A a \in BoundTo(request[r].subject) : actors[a].email # request[r].email

=============================================================================
