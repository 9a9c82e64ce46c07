--------------------------- MODULE SignIn_proofs ---------------------------
(***************************************************************************)
(* Proofs about signing in: IdentityBinding, for every number of requests, *)
(* subjects and emails - what the two unique indexes and the index entries *)
(* of open transactions give a request by the time it commits, links or    *)
(* signs in - and AtprotoStart, for every number of starts and clients.    *)
(***************************************************************************)
EXTENDS IdentityBinding, AtprotoStart, FiniteSetTheorems, WellFoundedInduction, TLAPS

(* IdentityBinding: accounts and their two unique indexes.                 *)

\* Before its transaction commits, a request has no actor of its own.
Early   == {"new", "find", "checkEmail", "insertActor", "insertBinding", "commit"}
Holding == {"insertBinding", "commit"}
Rows    == ActorRow \union {None}

\* Whom a request is to sign in is entitled to it.
Entitled(q) ==
  IF q.subject # None THEN <<q.subject, q.actor>> \in bindings
  ELSE q.actor \in Committed /\ actors[q.actor].password /\ actors[q.actor].email = q.email

RequestSound(r) ==
  LET q == request[r] IN
  /\ q.pc \in Early => r \notin Committed
  /\ q.pc \in {"find", "insertBinding", "recover", "insertLink", "recoverLink"} => q.subject # None
  /\ q.pc \in {"checkEmail", "insertActor", "insertBinding", "commit"} /\ q.subject = None =>
       q.kind \in {"signup", "bootstrap"}
  /\ q.pc \in {"insertLink", "recoverLink"} => q.actor \in Committed
  /\ q.pc = "find" /\ q.kind = "link" => q.actor \in Committed
  /\ q.pc \in Holding => ~EmailTaken(q.email)
  /\ q.pc = "commit" => ~SubjectTaken(q.subject)
  /\ q.pc \in {"session", "signedIn"} => Entitled(q)

\* No two open transactions hold the same index entry.
Apart(r, q) ==
  /\ HoldsEmail(r) = None \/ HoldsEmail(r) # HoldsEmail(q)
  /\ HoldsSubject(r) = None \/ HoldsSubject(r) # HoldsSubject(q)

\* The committed rows.
RowsSound ==
  /\ \A a \in Committed : actors[a].password \/ \E s \in Subjects : <<s, a>> \in bindings
  /\ \A s \in Subjects, a \in Requests : <<s, a>> \in bindings => a \in Committed
  /\ \A s \in Subjects, a, b \in Requests :
       <<s, a>> \in bindings /\ <<s, b>> \in bindings => a = b
  /\ \A a, b \in Committed : actors[a].email # None /\ actors[a].email = actors[b].email => a = b

RequestsSound == \A r \in Requests : RequestSound(r)
HoldersApart  == \A r, q \in Requests : r # q => Apart(r, q)

IdentityInv == TypeOK /\ RowsSound /\ RequestsSound /\ HoldersApart

-----------------------------------------------------------------------------
(* A request's own record.                                                 *)

Pcs == {"new"} \union InFlight \union Over

\* The request is at p, and still the request it was; the others are where they were.
Turns(r, p) ==
  /\ request' \in [Requests -> Request]
  /\ \A o \in Requests : o # r => request'[o] = request[o]
  /\ request'[r].pc = p /\ request'[r].kind = request[r].kind
  /\ request'[r].subject = request[r].subject /\ request'[r].email = request[r].email

LEMMA GotoTurns ==
  ASSUME TypeOK, NEW r \in Requests, NEW p \in Pcs, Goto(r, p)
  PROVE  Turns(r, p) /\ request'[r].actor = request[r].actor
  <1>1. [request[r] EXCEPT !.pc = p] \in Request
    BY DEF TypeOK, Request, Pcs
  <1>2. request' = [request EXCEPT ![r] = [request[r] EXCEPT !.pc = p]]
    BY DEF Goto, TypeOK
  <1>3. request[r] \in Request
    BY DEF TypeOK
  <1>. QED
    BY <1>1, <1>2, <1>3 DEF TypeOK, Turns, Request

LEMMA SignInTurns ==
  ASSUME TypeOK, NEW r \in Requests, NEW a \in Requests, SignIn(r, a)
  PROVE  Turns(r, "session") /\ request'[r].actor = a
  <1>. DEFINE q == [request[r] EXCEPT !.pc = "session", !.actor = a]
  <1>1. request[r] \in Request
    BY DEF TypeOK
  <1>2. q \in Request
    BY <1>1 DEF Request, InFlight
  <1>3. request' = [request EXCEPT ![r] = q]
    BY DEF SignIn, TypeOK
  <1>4. /\ q.pc = "session" /\ q.kind = request[r].kind /\ q.subject = request[r].subject
        /\ q.email = request[r].email /\ q.actor = a
    BY <1>1 DEF Request
  <1>. HIDE DEF q
  <1>5. request'[r] = q /\ request' \in [Requests -> Request]
        /\ \A o \in Requests : o # r => request'[o] = request[o]
    BY <1>2, <1>3 DEF TypeOK
  <1>. QED
    BY <1>4, <1>5 DEF Turns

LEMMA LoseTurns ==
  ASSUME TypeOK, NEW r \in Requests, NEW i \in {"email", "subject"}, Lose(r, i)
  PROVE  Turns(r, IF request[r].subject = None THEN "taken" ELSE "recover")
  <1>. DEFINE p == IF request[r].subject = None THEN "taken" ELSE "recover"
              q == [request[r] EXCEPT !.lost = i, !.pc = p]
  <1>1. request[r] \in Request
    BY DEF TypeOK
  <1>2. q \in Request
    <2>1. p \in InFlight \union Over
      BY DEF InFlight, Over
    <2>. QED
      BY <1>1, <2>1 DEF Request
  <1>3. request' = [request EXCEPT ![r] = q]
    BY DEF Lose, TypeOK
  <1>4. /\ q.pc = p /\ q.kind = request[r].kind /\ q.subject = request[r].subject
        /\ q.email = request[r].email
    BY <1>1 DEF Request
  <1>. HIDE DEF q
  <1>5. request'[r] = q /\ request' \in [Requests -> Request]
        /\ \A o \in Requests : o # r => request'[o] = request[o]
    BY <1>2, <1>3 DEF TypeOK
  <1>. QED
    BY <1>4, <1>5 DEF Turns

LEMMA ArriveTurns ==
  ASSUME TypeOK, NEW r \in Requests, NEW k \in Kinds, NEW s \in Subjects \union {None},
         NEW e \in Emails \union {None}, NEW a \in Requests \union {None}, NEW p \in Pcs,
         Arrive(r, k, s, e, a, p)
  PROVE  /\ request' \in [Requests -> Request] /\ request[r].pc = "new" /\ NoRows
         /\ \A o \in Requests : o # r => request'[o] = request[o]
         /\ request'[r] = [pc |-> p, kind |-> k, subject |-> s, email |-> e, actor |-> a, lost |-> None]
  <1>. DEFINE q == [pc |-> p, kind |-> k, subject |-> s, email |-> e, actor |-> a, lost |-> None]
  <1>1. q \in Request
    BY DEF Request, Pcs
  <1>2. request' = [request EXCEPT ![r] = q] /\ request[r].pc = "new" /\ NoRows
    BY DEF Arrive
  <1>. HIDE DEF q
  <1>3. request'[r] = q /\ request' \in [Requests -> Request]
        /\ \A o \in Requests : o # r => request'[o] = request[o]
    BY <1>1, <1>2 DEF TypeOK
  <1>. QED
    BY <1>2, <1>3 DEF q

-----------------------------------------------------------------------------
(* Steps that change one request and no row.                               *)

\* What the request has to bring to its next step; everything else stands.
LEMMA NoRowsKeeps ==
  ASSUME IdentityInv, NEW r \in Requests, NoRows, request' \in [Requests -> Request],
         \A o \in Requests : o # r => request'[o] = request[o],
         RequestSound(r)',
         \A q \in Requests : q # r => Apart(r, q)' /\ Apart(q, r)'
  PROVE  IdentityInv'
  <1>1. TypeOK' /\ RowsSound'
    BY DEF IdentityInv, TypeOK, NoRows, RowsSound, Committed
  <1>2. RequestsSound'
    <2>. SUFFICES ASSUME NEW o \in Requests PROVE RequestSound(o)'
      BY DEF RequestsSound
    <2>1. CASE o # r
      <3>1. RequestSound(o) /\ request'[o] = request[o] /\ actors' = actors /\ bindings' = bindings
        BY <2>1 DEF IdentityInv, RequestsSound, NoRows
      <3>. QED
        BY <3>1 DEF RequestSound, Committed, EmailTaken, OwnerOf, SubjectTaken, Entitled
    <2>. QED
      BY <2>1
  <1>3. HoldersApart'
    <2>. SUFFICES ASSUME NEW o \in Requests, NEW q \in Requests, o # q PROVE Apart(o, q)'
      BY DEF HoldersApart
    <2>1. CASE o # r /\ q # r
      BY <2>1 DEF IdentityInv, HoldersApart, Apart, HoldsEmail, HoldsSubject
    <2>. QED
      BY <2>1
  <1>. QED
    BY <1>1, <1>2, <1>3 DEF IdentityInv

\* A request that holds no index entry is apart from every other.
LEMMA IdleIsApart ==
  ASSUME NEW r \in Requests, request'[r].pc \notin Holding, NEW q \in Requests, q # r
  PROVE  Apart(r, q)' /\ Apart(q, r)'
BY DEF Apart, HoldsEmail, HoldsSubject, Holding

LEMMA ArrivalsKeep ==
  ASSUME IdentityInv, NEW r \in Requests,
         \/ \E e \in Emails : Signup(r, e) \/ Bootstrap(r, e) \/ Login(r, e)
         \/ \E s \in GoogleSubjects, e \in Emails : Google(r, s, e)
         \/ \E s \in Dids : Atproto(r, s) \/ \E a \in Requests : Link(r, s, a)
  PROVE  IdentityInv'
  <1>. USE IdentityConstants
  <1>0. TypeOK /\ RequestSound(r)
    BY DEF IdentityInv, RequestsSound
  <1>1. ASSUME NEW k \in Kinds, NEW s \in Subjects \union {None}, NEW e \in Emails \union {None},
               NEW a \in Requests \union {None},
               NEW p \in {"forbidden", "checkEmail", "session", "find"},
               Arrive(r, k, s, e, a, p),
               p = "find" => s # None,
               p = "checkEmail" => k \in {"signup", "bootstrap"},
               p = "find" /\ k = "link" => a \in Committed,
               p = "session" => /\ s = None /\ a \in Committed
                                /\ actors[a].password /\ actors[a].email = e
        PROVE  IdentityInv'
    <2>0. p \in Pcs
      BY DEF Pcs, InFlight, Over
    <2>1. /\ request' \in [Requests -> Request] /\ request[r].pc = "new" /\ NoRows
          /\ \A o \in Requests : o # r => request'[o] = request[o]
          /\ request'[r] = [pc |-> p, kind |-> k, subject |-> s, email |-> e, actor |-> a, lost |-> None]
      BY <1>0, <1>1, <2>0, ArriveTurns
    <2>2. actors' = actors /\ bindings' = bindings
      BY <2>1 DEF NoRows
    <2>3. r \notin Committed
      BY <1>0, <2>1 DEF RequestSound, Early
    <2>4. RequestSound(r)'
      BY <1>1, <2>1, <2>2, <2>3 DEF RequestSound, Early, Holding, Entitled, Committed
    <2>5. \A q \in Requests : q # r => Apart(r, q)' /\ Apart(q, r)'
      BY <2>1, IdleIsApart DEF Holding
    <2>. QED
      BY <2>1, <2>4, <2>5, NoRowsKeeps
  <1>2. ASSUME NEW e \in Emails, Signup(r, e) \/ Bootstrap(r, e) PROVE IdentityInv'
    BY <1>1, <1>2 DEF Signup, Bootstrap, Kinds
  <1>3. ASSUME NEW e \in Emails, Login(r, e) PROVE IdentityInv'
    <2>1. PICK a \in OwnerOf(e) \cap Active :
            Arrive(r, "login", None, e, a, IF actors[a].password THEN "session" ELSE "forbidden")
      BY <1>3 DEF Login
    <2>2. a \in Committed /\ a \in Requests /\ actors[a].email = e
      BY <2>1 DEF OwnerOf, Committed
    <2>3. CASE actors[a].password
      BY <1>1, <2>1, <2>2, <2>3 DEF Kinds
    <2>4. CASE ~actors[a].password
      BY <1>1, <2>1, <2>2, <2>4 DEF Kinds
    <2>. QED
      BY <2>3, <2>4
  <1>4. ASSUME NEW s \in GoogleSubjects, NEW e \in Emails, Google(r, s, e) PROVE IdentityInv'
    BY <1>1, <1>4 DEF Google, Kinds, Subjects
  <1>5. ASSUME NEW s \in Dids, Atproto(r, s) PROVE IdentityInv'
    BY <1>1, <1>5 DEF Atproto, Kinds, Subjects
  <1>6. ASSUME NEW s \in Dids, NEW a \in Requests, Link(r, s, a) PROVE IdentityInv'
    BY <1>1, <1>6 DEF Link, Kinds, Subjects, Active
  <1>. QED
    BY <1>2, <1>3, <1>4, <1>5, <1>6

\* Whom a subject is bound to is unique, so signing in as any of them is signing in as it.
LEMMA BoundIsEntitled ==
  ASSUME NEW s, NEW a \in BoundTo(s)
  PROVE  a \in Requests /\ <<s, a>> \in bindings /\ a \in Committed
BY DEF BoundTo, Active, Committed

\* A step that only sends a request on to p.
LEMMA GoingKeeps ==
  ASSUME IdentityInv, NEW r \in Requests, NEW p \in Pcs \ Holding, Goto(r, p), NoRows,
         p \in Early => request[r].pc \in Early,
         p \in {"find", "recover", "insertLink", "recoverLink"} => request[r].subject # None,
         p \in {"checkEmail", "insertActor"} /\ request[r].subject = None =>
           request[r].kind \in {"signup", "bootstrap"},
         p \in {"insertLink", "recoverLink"} => request[r].actor \in Committed,
         p # "find",
         p \in {"session", "signedIn"} => Entitled(request[r])
  PROVE  IdentityInv'
  <1>0. TypeOK /\ RequestSound(r)
    BY DEF IdentityInv, RequestsSound
  <1>1. Turns(r, p) /\ request'[r].actor = request[r].actor
    BY <1>0, GotoTurns
  <1>2. actors' = actors /\ bindings' = bindings
    BY DEF NoRows
  <1>3. RequestSound(r)'
    <2>1. p \in Early => r \notin Committed'
      BY <1>0, <1>2 DEF RequestSound, Committed
    <2>2. p \in {"insertLink", "recoverLink"} => request'[r].actor \in Committed'
      BY <1>1, <1>2 DEF Committed
    <2>3. p \in {"session", "signedIn"} => Entitled(request[r])'
      BY <1>1, <1>2 DEF Entitled, Committed, Turns
    <2>. QED
      BY <1>1, <2>1, <2>2, <2>3 DEF RequestSound, Turns, Holding
  <1>4. \A q \in Requests : q # r => Apart(r, q)' /\ Apart(q, r)'
    BY <1>1, IdleIsApart DEF Turns, Holding
  <1>. QED
    BY <1>1, <1>3, <1>4, NoRowsKeeps DEF Turns

\* A step that signs a request in as an actor its subject is bound to.
LEMMA SigningInKeeps ==
  ASSUME IdentityInv, NEW r \in Requests, NEW a \in BoundTo(request[r].subject), SignIn(r, a), NoRows,
         request[r].subject # None
  PROVE  IdentityInv'
  <1>0. TypeOK /\ a \in Requests /\ <<request[r].subject, a>> \in bindings
    BY BoundIsEntitled DEF IdentityInv
  <1>1. Turns(r, "session") /\ request'[r].actor = a
    BY <1>0, SignInTurns
  <1>2. actors' = actors /\ bindings' = bindings
    BY DEF NoRows
  <1>3. RequestSound(r)'
    BY <1>0, <1>1, <1>2 DEF RequestSound, Turns, Early, Holding, Entitled
  <1>4. \A q \in Requests : q # r => Apart(r, q)' /\ Apart(q, r)'
    BY <1>1, IdleIsApart DEF Turns, Holding
  <1>. QED
    BY <1>1, <1>3, <1>4, NoRowsKeeps DEF Turns

LEMMA LosingKeeps ==
  ASSUME IdentityInv, NEW r \in Requests, NEW i \in {"email", "subject"}, Lose(r, i), NoRows
  PROVE  IdentityInv'
  <1>. DEFINE p == IF request[r].subject = None THEN "taken" ELSE "recover"
  <1>1. Turns(r, p)
    BY LoseTurns DEF IdentityInv
  <1>2. actors' = actors /\ bindings' = bindings
    BY DEF NoRows
  <1>3. RequestSound(r)'
    BY <1>1, <1>2 DEF RequestSound, Turns, Early, Holding
  <1>4. \A q \in Requests : q # r => Apart(r, q)' /\ Apart(q, r)'
    BY <1>1, IdleIsApart DEF Turns, Holding
  <1>. QED
    BY <1>1, <1>3, <1>4, NoRowsKeeps DEF Turns

LEMMA LookupsKeep ==
  ASSUME IdentityInv, NEW r \in Requests,
         \/ Find(r) \/ CheckEmail(r) \/ Recover(r) \/ RecoverLink(r) \/ CreateSession(r) \/ Fail(r)
  PROVE  IdentityInv'
  <1>0. TypeOK /\ RequestSound(r) /\ NoRows
    BY DEF IdentityInv, RequestsSound, Find, CheckEmail, Recover, RecoverLink, CreateSession, Fail
  <1>. DEFINE bound == BoundTo(request[r].subject)
  <1>1. CASE Find(r)
    <2>1. request[r].pc = "find" /\ request[r].subject # None
      BY <1>0, <1>1 DEF Find, RequestSound
    <2>2. CASE request[r].kind = "link"
      <3>1. request[r].actor \in Committed
        BY <1>0, <2>1, <2>2 DEF RequestSound
      <3>2. CASE bound = {}
        BY <1>0, <1>1, <2>1, <2>2, <3>1, <3>2, GoingKeeps DEF Find, Pcs, InFlight, Early, Holding
      <3>3. CASE bound # {} /\ request[r].actor \in bound
        <4>1. Goto(r, "session")
          BY <1>1, <2>2, <3>3 DEF Find
        <4>2. Entitled(request[r])
          BY <2>1, <3>3, BoundIsEntitled DEF Entitled
        <4>. QED
          BY <1>0, <4>1, <4>2, GoingKeeps DEF Pcs, InFlight, Early, Holding
      <3>4. CASE bound # {} /\ request[r].actor \notin bound
        BY <1>0, <1>1, <2>2, <3>4, GoingKeeps DEF Find, Pcs, Over, Early, Holding
      <3>. QED
        BY <3>2, <3>3, <3>4
    <2>3. CASE request[r].kind # "link" /\ bound # {}
      BY <1>0, <1>1, <2>1, <2>3, SigningInKeeps DEF Find
    <2>4. CASE request[r].kind # "link" /\ bound = {}
      BY <1>0, <1>1, <2>1, <2>4, GoingKeeps DEF Find, Pcs, InFlight, Early, Holding
    <2>. QED
      BY <2>2, <2>3, <2>4
  <1>2. CASE CheckEmail(r)
    <2>1. /\ request[r].pc = "checkEmail"
          /\ request[r].subject = None => request[r].kind \in {"signup", "bootstrap"}
      BY <1>0, <1>2 DEF CheckEmail, RequestSound
    <2>2. Goto(r, "taken") \/ Goto(r, "insertActor")
      BY <1>2 DEF CheckEmail
    <2>. QED
      BY <1>0, <2>1, <2>2, GoingKeeps DEF Pcs, InFlight, Over, Early, Holding
  <1>3. CASE Recover(r)
    <2>1. request[r].pc = "recover" /\ request[r].subject # None
      BY <1>0, <1>3 DEF Recover, RequestSound
    <2>2. CASE bound # {}
      BY <1>0, <1>3, <2>1, <2>2, SigningInKeeps DEF Recover
    <2>3. CASE bound = {}
      <3>1. Goto(r, "taken") \/ Goto(r, "failed")
        BY <1>3, <2>3 DEF Recover
      <3>. QED
        BY <1>0, <3>1, GoingKeeps DEF Pcs, Over, Early, Holding
    <2>. QED
      BY <2>2, <2>3
  <1>4. CASE RecoverLink(r)
    <2>1. request[r].pc = "recoverLink" /\ request[r].subject # None
      BY <1>0, <1>4 DEF RecoverLink, RequestSound
    <2>2. \/ Goto(r, "failed") \/ Goto(r, "taken")
          \/ Goto(r, "session") /\ request[r].actor \in bound
      BY <1>4 DEF RecoverLink
    <2>3. request[r].actor \in bound => Entitled(request[r])
      BY <2>1, BoundIsEntitled DEF Entitled
    <2>. QED
      BY <1>0, <2>2, <2>3, GoingKeeps DEF Pcs, InFlight, Over, Early, Holding
  <1>5. CASE CreateSession(r)
    <2>1. Goto(r, "signedIn") /\ Entitled(request[r])
      BY <1>0, <1>5 DEF CreateSession, RequestSound
    <2>. QED
      BY <1>0, <2>1, GoingKeeps DEF Pcs, Over, Early, Holding
  <1>6. CASE Fail(r)
    <2>1. Goto(r, "failed")
      BY <1>6 DEF Fail
    <2>. QED
      BY <1>0, <2>1, GoingKeeps DEF Pcs, Over, Early, Holding
  <1>. QED
    BY <1>1, <1>2, <1>3, <1>4, <1>5, <1>6

-----------------------------------------------------------------------------
(* The transaction.                                                        *)

\* An insert that found its index free now holds the entry, alone.
LEMMA InsertActorKeeps ==
  ASSUME IdentityInv, NEW r \in Requests, InsertActor(r)
  PROVE  IdentityInv'
  <1>0. /\ TypeOK /\ RequestSound(r) /\ NoRows /\ request[r].pc = "insertActor"
        /\ actors' = actors /\ bindings' = bindings
    BY DEF IdentityInv, RequestsSound, InsertActor, NoRows
  <1>1. CASE EmailTaken(request[r].email)
    BY <1>0, <1>1, LosingKeeps DEF InsertActor
  <1>2. CASE ~EmailTaken(request[r].email)
    <2>. DEFINE p == IF request[r].subject = None THEN "commit" ELSE "insertBinding"
    <2>1. Goto(r, p) /\ EmailFree(r) /\ p \in Pcs
      BY <1>2 DEF InsertActor, AfterActor, Pcs, InFlight
    <2>2. Turns(r, p)
      BY <1>0, <2>1, GotoTurns
    <2>3. RequestSound(r)'
      <3>1. r \notin Committed' /\ ~EmailTaken(request[r].email)'
        BY <1>0, <1>2, <2>2 DEF RequestSound, Early, Committed, EmailTaken, OwnerOf, Turns
      <3>2. request[r].subject = None => ~SubjectTaken(request[r].subject)'
        <4>1. bindings' \subseteq Subjects \X Requests /\ None \notin Subjects
          BY <1>0, IdentityConstants DEF TypeOK
        <4>2. ~SubjectTaken(None)'
          BY <4>1 DEF SubjectTaken
        <4>. QED
          BY <2>2, <4>2 DEF Turns
      <3>. QED
        BY <1>0, <2>2, <3>1, <3>2 DEF RequestSound, Turns
    <2>4. ASSUME NEW q \in Requests, q # r PROVE Apart(r, q)' /\ Apart(q, r)'
      <3>1. /\ HoldsEmail(r)' = request[r].email
            /\ HoldsSubject(r)' = None
        BY <2>2 DEF HoldsEmail, HoldsSubject, Turns
      <3>2. HoldsEmail(q)' = HoldsEmail(q)
        BY <2>2, <2>4 DEF HoldsEmail, Turns
      <3>3. request[r].email = None \/ HoldsEmail(q) # request[r].email
        BY <2>1, <2>4 DEF EmailFree
      <3>. QED
        BY <3>1, <3>2, <3>3 DEF Apart
    <2>. QED
      BY <1>0, <2>2, <2>3, <2>4, NoRowsKeeps DEF Turns
  <1>. QED
    BY <1>1, <1>2

LEMMA InsertBindingKeeps ==
  ASSUME IdentityInv, NEW r \in Requests, InsertBinding(r)
  PROVE  IdentityInv'
  <1>0. /\ TypeOK /\ RequestSound(r) /\ NoRows /\ request[r].pc = "insertBinding"
        /\ actors' = actors /\ bindings' = bindings
    BY DEF IdentityInv, RequestsSound, InsertBinding, NoRows
  <1>1. CASE SubjectTaken(request[r].subject)
    BY <1>0, <1>1, LosingKeeps DEF InsertBinding
  <1>2. CASE ~SubjectTaken(request[r].subject)
    <2>1. Goto(r, "commit") /\ SubjectFree(r) /\ "commit" \in Pcs
      BY <1>2 DEF InsertBinding, Pcs, InFlight
    <2>2. Turns(r, "commit")
      BY <1>0, <2>1, GotoTurns
    <2>3. RequestSound(r)'
      <3>1. /\ r \notin Committed' /\ ~EmailTaken(request[r].email)'
            /\ ~SubjectTaken(request[r].subject)'
        BY <1>0, <1>2, <2>2
        DEF RequestSound, Early, Holding, Committed, EmailTaken, OwnerOf, SubjectTaken, Turns
      <3>. QED
        BY <1>0, <2>2, <3>1 DEF RequestSound, Turns
    <2>4. ASSUME NEW q \in Requests, q # r PROVE Apart(r, q)' /\ Apart(q, r)'
      <3>1. /\ HoldsEmail(r)' = HoldsEmail(r)
            /\ HoldsSubject(r)' = request[r].subject
        BY <1>0, <2>2 DEF HoldsEmail, HoldsSubject, Turns
      <3>2. HoldsEmail(q)' = HoldsEmail(q) /\ HoldsSubject(q)' = HoldsSubject(q)
        BY <2>2, <2>4 DEF HoldsEmail, HoldsSubject, Turns
      <3>3. HoldsSubject(q) # request[r].subject
        BY <2>1, <2>4 DEF SubjectFree
      <3>4. Apart(r, q) /\ Apart(q, r)
        BY <2>4 DEF IdentityInv, HoldersApart
      <3>. QED
        BY <3>1, <3>2, <3>3, <3>4 DEF Apart
    <2>. QED
      BY <1>0, <2>2, <2>3, <2>4, NoRowsKeeps DEF Turns
  <1>. QED
    BY <1>1, <1>2

\* The rows of an account appear together; nobody else's index entry equals them.
LEMMA CommitKeeps ==
  ASSUME IdentityInv, NEW r \in Requests, Commit(r)
  PROVE  IdentityInv'
  <1>. USE IdentityConstants, NoRowIsNone
  <1>. DEFINE me == request[r]
  <1>0. /\ TypeOK /\ RowsSound /\ RequestSound(r) /\ me.pc = "commit" /\ me \in Request
        /\ r \notin Committed /\ ~EmailTaken(me.email) /\ ~SubjectTaken(me.subject)
        /\ me.subject = None => me.kind \in {"signup", "bootstrap"}
    BY DEF IdentityInv, RequestsSound, RequestSound, Commit, Early, Holding, TypeOK
  <1>1. NewActor(r) \in ActorRow
    BY <1>0 DEF NewActor, ActorRow, Request
  <1>11. NewActor(r).email = me.email /\ (me.subject = None => NewActor(r).password = TRUE)
    <2>. DEFINE pw == me.kind \in {"signup", "bootstrap"}
    <2>1. NewActor(r) = [email |-> me.email, active |-> TRUE, password |-> pw]
      BY DEF NewActor
    <2>2. me.subject = None => pw = TRUE
      BY <1>0
    <2>. HIDE DEF pw
    <2>. QED
      BY <2>1, <2>2
  <1>2. /\ actors' \in [Requests -> Rows] /\ actors'[r] = NewActor(r)
        /\ \A a \in Requests : a # r => actors'[a] = actors[a]
    BY <1>0, <1>1 DEF TypeOK, Rows, Commit
  <1>3. Committed' = Committed \union {r}
    BY <1>1, <1>2 DEF Committed
  <1>4. \A s \in Subjects, a \in Requests :
          <<s, a>> \in bindings' <=> <<s, a>> \in bindings \/ (s = me.subject /\ a = r)
    BY <1>0 DEF Commit
  <1>5. bindings' \subseteq Subjects \X Requests
    <2>1. me.subject \in Subjects \union {None}
      BY <1>0 DEF Request
    <2>. QED
      BY <1>0, <2>1 DEF Commit, TypeOK
  <1>6. PICK p \in {"session", "created", "failed"} :
          /\ Turns(r, p)
          /\ p = "session" => request'[r].actor = r
    BY <1>0, SignInTurns, GotoTurns DEF Commit, Pcs, InFlight, Over
  <1>7. TypeOK'
    BY <1>2, <1>5, <1>6 DEF TypeOK, Turns, Rows
  <1>8. RowsSound'
    <2>1. actors'[r].password \/ \E s \in Subjects : <<s, r>> \in bindings'
      <3>1. CASE me.subject = None
        BY <1>2, <1>11, <3>1
      <3>2. CASE me.subject # None
        <4>1. me.subject \in Subjects
          BY <1>0, <3>2 DEF Request
        <4>. QED
          BY <1>4, <4>1
      <3>. QED
        BY <3>1, <3>2
    <2>2. \A a \in Committed' : actors'[a].password \/ \E s \in Subjects : <<s, a>> \in bindings'
      <3>. SUFFICES ASSUME NEW a \in Committed, a # r
                    PROVE  actors'[a].password \/ \E s \in Subjects : <<s, a>> \in bindings'
        BY <1>3, <2>1
      <3>1. a \in Requests /\ actors'[a] = actors[a]
        BY <1>2 DEF Committed
      <3>. QED
        BY <1>0, <1>4, <3>1 DEF RowsSound
    <2>3. \A s \in Subjects, a \in Requests : <<s, a>> \in bindings' => a \in Committed'
      BY <1>0, <1>3, <1>4 DEF RowsSound
    <2>4. \A s \in Subjects, a, b \in Requests :
            <<s, a>> \in bindings' /\ <<s, b>> \in bindings' => a = b
      BY <1>0, <1>4 DEF RowsSound, SubjectTaken
    <2>5. \A a, b \in Committed' : actors'[a].email # None /\ actors'[a].email = actors'[b].email => a = b
      <3>1. actors'[r].email = me.email
        BY <1>2 DEF NewActor
      <3>2. me.email # None => \A a \in Committed : actors[a].email # me.email
        BY <1>0 DEF EmailTaken, OwnerOf
      <3>3. \A a \in Committed : a # r /\ actors'[a] = actors[a]
        BY <1>0, <1>2 DEF Committed
      <3>. QED
        BY <1>0, <1>3, <3>1, <3>2, <3>3 DEF RowsSound
    <2>. QED
      BY <2>2, <2>3, <2>4, <2>5 DEF RowsSound
  <1>9. RequestsSound'
    <2>. SUFFICES ASSUME NEW o \in Requests PROVE RequestSound(o)'
      BY DEF RequestsSound
    <2>1. CASE o = r
      <3>1. ASSUME p = "session" PROVE Entitled(request[r])'
        <4>1. request'[r].actor = r /\ request'[r].subject = me.subject /\ request'[r].email = me.email
          BY <1>6, <3>1 DEF Turns
        <4>2. CASE me.subject = None
          BY <1>2, <1>3, <1>11, <4>1, <4>2 DEF Entitled
        <4>3. CASE me.subject # None
          <5>1. me.subject \in Subjects
            BY <1>0, <4>3 DEF Request
          <5>. QED
            BY <1>4, <4>1, <4>3, <5>1 DEF Entitled
        <4>. QED
          BY <4>2, <4>3
      <3>. QED
        BY <1>6, <2>1, <3>1 DEF RequestSound, Turns, Early, Holding
    <2>2. CASE o # r
      <3>. DEFINE q == request[o]
      <3>1. RequestSound(o) /\ request'[o] = q /\ q \in Request
        BY <1>6, <2>2 DEF IdentityInv, RequestsSound, TypeOK, Turns
      <3>2. q.pc \in Early => o \notin Committed'
        BY <1>3, <2>2, <3>1 DEF RequestSound
      <3>3. ASSUME q.pc \in Holding PROVE ~EmailTaken(q.email)'
        <4>1. ~EmailTaken(q.email)
          BY <3>1, <3>3 DEF RequestSound
        <4>2. q.email = None \/ q.email # me.email
          BY <1>0, <2>2, <3>3 DEF IdentityInv, HoldersApart, Apart, HoldsEmail, Holding
        <4>3. actors'[r].email = me.email
          BY <1>2 DEF NewActor
        <4>4. \A a \in Committed : actors'[a] = actors[a]
          BY <1>0, <1>2 DEF Committed
        <4>. QED
          BY <1>3, <3>1, <4>1, <4>2, <4>3, <4>4 DEF EmailTaken, OwnerOf
      <3>4. ASSUME q.pc = "commit" PROVE ~SubjectTaken(q.subject)'
        <4>1. ~SubjectTaken(q.subject)
          BY <3>1, <3>4 DEF RequestSound
        <4>2. q.subject = None \/ q.subject # me.subject
          BY <1>0, <2>2, <3>4 DEF IdentityInv, HoldersApart, Apart, HoldsSubject
        <4>. QED
          BY <1>4, <1>5, <3>1, <4>1, <4>2 DEF SubjectTaken
      <3>5. ASSUME Entitled(q) PROVE Entitled(request[o])'
        <4>1. CASE q.subject # None
          BY <3>1, <3>5, <4>1 DEF Entitled, Commit
        <4>2. CASE q.subject = None
          <5>1. q.actor \in Committed /\ q.actor # r /\ q.actor \in Requests
            BY <1>0, <3>5, <4>2 DEF Entitled, Committed
          <5>. QED
            BY <1>2, <1>3, <3>1, <3>5, <4>2, <5>1 DEF Entitled
        <4>. QED
          BY <4>1, <4>2
      <3>. QED
        BY <1>3, <3>1, <3>2, <3>3, <3>4, <3>5 DEF RequestSound
    <2>. QED
      BY <2>1, <2>2
  <1>10. HoldersApart'
    <2>. SUFFICES ASSUME NEW a \in Requests, NEW b \in Requests, a # b PROVE Apart(a, b)'
      BY DEF HoldersApart
    <2>1. CASE a = r \/ b = r
      BY <1>6, <2>1, IdleIsApart DEF Turns, Holding
    <2>2. CASE a # r /\ b # r
      BY <1>6, <2>2 DEF IdentityInv, HoldersApart, Apart, HoldsEmail, HoldsSubject, Turns
    <2>. QED
      BY <2>1, <2>2
  <1>. QED
    BY <1>7, <1>8, <1>9, <1>10 DEF IdentityInv

\* A link is one statement: the actor that asked gets the subject, if nobody has it.
LEMMA InsertLinkKeeps ==
  ASSUME IdentityInv, NEW r \in Requests, InsertLink(r)
  PROVE  IdentityInv'
  <1>. DEFINE me == request[r]
  <1>0. /\ TypeOK /\ RowsSound /\ RequestSound(r) /\ me.pc = "insertLink" /\ SubjectFree(r)
        /\ me.subject # None /\ me.actor \in Committed /\ UNCHANGED actors
    BY DEF IdentityInv, RequestsSound, RequestSound, InsertLink
  <1>1. CASE SubjectTaken(me.subject)
    BY <1>0, <1>1, GoingKeeps DEF InsertLink, NoRows, Pcs, InFlight, Early, Holding
  <1>2. CASE ~SubjectTaken(me.subject)
    <2>1. Goto(r, "session") /\ bindings' = bindings \union {<<me.subject, me.actor>>}
      BY <1>2 DEF InsertLink
    <2>2. Turns(r, "session") /\ request'[r].actor = me.actor
      BY <1>0, <2>1, GotoTurns DEF Pcs, InFlight
    <2>3. me.subject \in Subjects /\ me.actor \in Requests /\ Committed' = Committed
      BY <1>0 DEF TypeOK, Request, Committed
    <2>4. TypeOK'
      BY <1>0, <2>1, <2>2, <2>3 DEF TypeOK, Turns
    <2>5. RowsSound'
      BY <1>0, <1>2, <2>1, <2>3 DEF RowsSound, SubjectTaken
    <2>6. RequestsSound'
      <3>. SUFFICES ASSUME NEW o \in Requests PROVE RequestSound(o)'
        BY DEF RequestsSound
      <3>1. CASE o = r
        <4>1. Entitled(request[r])'
          <5>1. request'[r].subject = me.subject /\ me.subject # None
            BY <1>0, <2>2 DEF Turns
          <5>2. <<me.subject, me.actor>> \in bindings'
            BY <2>1
          <5>. QED
            BY <2>2, <5>1, <5>2 DEF Entitled
        <4>. QED
          BY <2>2, <3>1, <4>1 DEF RequestSound, Turns, Early, Holding
      <3>2. CASE o # r
        <4>1. RequestSound(o) /\ request'[o] = request[o] /\ actors' = actors
          BY <1>0, <2>2, <3>2 DEF IdentityInv, RequestsSound, Turns
        <4>2. ASSUME request[o].pc = "commit" PROVE ~SubjectTaken(request[o].subject)'
          <5>1. ~SubjectTaken(request[o].subject) /\ request[o].subject # me.subject
            BY <1>0, <3>2, <4>1, <4>2 DEF RequestSound, SubjectFree, HoldsSubject
          <5>. QED
            BY <2>1, <4>1, <5>1 DEF SubjectTaken
        <4>3. Entitled(request[o]) => Entitled(request[o])'
          BY <2>1, <2>3, <4>1 DEF Entitled
        <4>. QED
          BY <2>3, <4>1, <4>2, <4>3 DEF RequestSound, EmailTaken, OwnerOf
      <3>. QED
        BY <3>1, <3>2
    <2>7. HoldersApart'
      <3>. SUFFICES ASSUME NEW a \in Requests, NEW b \in Requests, a # b PROVE Apart(a, b)'
        BY DEF HoldersApart
      <3>1. CASE a = r \/ b = r
        BY <2>2, <3>1, IdleIsApart DEF Turns, Holding
      <3>2. CASE a # r /\ b # r
        BY <2>2, <3>2 DEF IdentityInv, HoldersApart, Apart, HoldsEmail, HoldsSubject, Turns
      <3>. QED
        BY <3>1, <3>2
    <2>. QED
      BY <2>4, <2>5, <2>6, <2>7 DEF IdentityInv
  <1>. QED
    BY <1>1, <1>2

\* A disabled actor keeps its email, its password and its bindings.
LEMMA DisableKeeps ==
  ASSUME IdentityInv, NEW d \in Requests, Disable(d)
  PROVE  IdentityInv'
  <1>. USE NoRowIsNone
  <1>0. /\ TypeOK /\ RowsSound /\ RequestsSound /\ HoldersApart /\ d \in Committed
        /\ bindings' = bindings /\ request' = request
    BY DEF IdentityInv, Disable, Active
  <1>1. actors[d] \in ActorRow
    BY <1>0 DEF Committed, TypeOK
  <1>2. /\ [actors[d] EXCEPT !.active = FALSE] \in ActorRow
        /\ [actors[d] EXCEPT !.active = FALSE].email = actors[d].email
        /\ [actors[d] EXCEPT !.active = FALSE].password = actors[d].password
    BY <1>1 DEF ActorRow
  <1>3. actors' = [actors EXCEPT ![d] = [actors[d] EXCEPT !.active = FALSE]]
    BY <1>0 DEF Disable, TypeOK
  <1>4. /\ actors' \in [Requests -> Rows] /\ Committed' = Committed
        /\ \A a \in Committed : /\ actors'[a].email = actors[a].email
                                /\ actors'[a].password = actors[a].password
    BY <1>0, <1>2, <1>3 DEF TypeOK, Rows, Committed
  <1>5. TypeOK'
    BY <1>0, <1>4 DEF TypeOK, Rows
  <1>6. RowsSound'
    BY <1>0, <1>4 DEF RowsSound
  <1>7. RequestsSound'
    <2>. SUFFICES ASSUME NEW o \in Requests PROVE RequestSound(o)'
      BY DEF RequestsSound
    <2>1. RequestSound(o) /\ request'[o] = request[o]
      BY <1>0 DEF RequestsSound
    <2>2. EmailTaken(request[o].email)' <=> EmailTaken(request[o].email)
      BY <1>0, <1>4 DEF EmailTaken, OwnerOf
    <2>3. Entitled(request[o]) => Entitled(request[o])'
      BY <1>0, <1>4 DEF Entitled
    <2>4. SubjectTaken(request[o].subject)' <=> SubjectTaken(request[o].subject)
      BY <1>0 DEF SubjectTaken
    <2>. QED
      BY <1>4, <2>1, <2>2, <2>3, <2>4 DEF RequestSound
  <1>8. HoldersApart'
    BY <1>0 DEF HoldersApart, Apart, HoldsEmail, HoldsSubject
  <1>. QED
    BY <1>5, <1>6, <1>7, <1>8 DEF IdentityInv

-----------------------------------------------------------------------------
(* The theorems.                                                           *)

LEMMA IdentityInit == Init => IdentityInv
  <1>. SUFFICES ASSUME Init PROVE IdentityInv
    OBVIOUS
  <1>1. Committed = {} /\ \A r \in Requests : request[r].pc = "new"
    BY DEF Init, Committed
  <1>2. TypeOK
    BY DEF Init, TypeOK, Request
  <1>3. RowsSound
    BY <1>1 DEF Init, RowsSound
  <1>4. RequestsSound
    BY <1>1 DEF RequestsSound, RequestSound, Holding
  <1>5. HoldersApart
    BY <1>1 DEF HoldersApart, Apart, HoldsEmail, HoldsSubject
  <1>. QED
    BY <1>2, <1>3, <1>4, <1>5 DEF IdentityInv

LEMMA IdentityStep == IdentityInv /\ [Next]_vars => IdentityInv'
  <1>. SUFFICES ASSUME IdentityInv, [Next]_vars PROVE IdentityInv'
    OBVIOUS
  <1>1. CASE UNCHANGED vars
    <2>1. actors' = actors /\ bindings' = bindings /\ request' = request
      BY <1>1 DEF vars
    <2>2. TypeOK' /\ RowsSound'
      BY <2>1 DEF IdentityInv, TypeOK, RowsSound, Committed
    <2>3. RequestsSound'
      BY <2>1 DEF IdentityInv, RequestsSound, RequestSound, Committed, EmailTaken, OwnerOf,
                  SubjectTaken, Entitled
    <2>4. HoldersApart'
      BY <2>1 DEF IdentityInv, HoldersApart, Apart, HoldsEmail, HoldsSubject
    <2>. QED
      BY <2>2, <2>3, <2>4 DEF IdentityInv
  <1>2. CASE Next
    <2>1. PICK r \in Requests :
            \/ \E e \in Emails : Signup(r, e) \/ Bootstrap(r, e) \/ Login(r, e)
            \/ \E s \in GoogleSubjects, e \in Emails : Google(r, s, e)
            \/ \E s \in Dids : Atproto(r, s) \/ \E a \in Requests : Link(r, s, a)
            \/ Step(r) \/ Fail(r) \/ Disable(r)
      BY <1>2 DEF Next
    <2>2. CASE Step(r)
      BY <2>2, LookupsKeep, InsertActorKeeps, InsertBindingKeeps, CommitKeeps, InsertLinkKeeps DEF Step
    <2>. QED
      BY <2>1, <2>2, ArrivalsKeep, LookupsKeep, DisableKeeps
  <1>. QED
    BY <1>1, <1>2

LEMMA IdentityInvHolds == Spec => []IdentityInv
  <1>. QED
    BY IdentityInit, IdentityStep, PTL DEF Spec

\* Type correctness: the committed rows and every request's record.
THEOREM IdentityTypeCorrect == Spec => []TypeOK
BY IdentityInvHolds, PTL DEF IdentityInv

\* Whoever wins the unique indexes, a sign-in is to the actor its subject or its password
\* names, no half account is left, and no email or subject belongs to two actors.
THEOREM AccountsAreSound == Spec => []AccountsSound
  <1>1. IdentityInv => AccountsSound
    <2>. SUFFICES ASSUME IdentityInv PROVE AccountsSound
      OBVIOUS
    <2>0. TypeOK /\ RowsSound /\ RequestsSound
      BY DEF IdentityInv
    <2>1. ASSUME NEW r \in Requests, request[r].pc = "signedIn"
          PROVE  Entitled(request[r])
      BY <2>0, <2>1 DEF RequestsSound, RequestSound
    <2>2. ASSUME NEW b \in bindings, NEW c \in bindings
          PROVE  b[2] \in Committed /\ (b[1] = c[1] => b = c)
      <3>1. /\ b = <<b[1], b[2]>> /\ b[1] \in Subjects /\ b[2] \in Requests
            /\ c = <<c[1], c[2]>> /\ c[1] \in Subjects /\ c[2] \in Requests
        BY <2>0 DEF TypeOK
      <3>2. b[2] \in Committed
        BY <2>0, <3>1 DEF RowsSound
      <3>3. b[1] = c[1] => b[2] = c[2]
        BY <2>0, <3>1 DEF RowsSound
      <3>. QED
        BY <3>1, <3>2, <3>3
    <2>. QED
      BY <2>0, <2>1, <2>2 DEF AccountsSound, RowsSound, Entitled
  <1>. QED
    BY <1>1, IdentityInvHolds, PTL

-----------------------------------------------------------------------------
(* AtprotoStart: the limiter, the state store and the cookies.             *)

\* All times in some window that begins at a time, of a set of admissions.
During(set, from, to) == {s \in set : from <= s.time /\ s.time < to}

\* A nonempty set of numbers has a least one.
LEMMA LeastNumber ==
  ASSUME NEW S, S \subseteq Nat, S # {}
  PROVE  \E x \in S : \A y \in S : x <= y
<1>. DEFINE R == OpToRel(<, Nat)
<1>1. IsWellFoundedOn(R, Nat)
  BY NatLessThanWellFounded
<1>2. \A x, y \in Nat : x < y => <<x, y>> \in R
  BY DEF OpToRel
<1>. HIDE DEF R
<1>3. PICK x \in S : \A y \in S : ~(<<y, x>> \in R)
  BY <1>1, WFMin
<1>4. ASSUME NEW y \in S PROVE x <= y
  <2>1. ~(y < x)
    BY <1>2, <1>3
  <2>. QED  BY <2>1
<1>. QED  BY <1>4

\* Admissions of which no window has more than the quota: n windows in a row have n
\* times the quota at most.
LEMMA WindowsInARow ==
  ASSUME NEW set, set \subseteq Admission, IsFiniteSet(set),
         \A u \in Int : Cardinality(During(set, u, u + Window)) <= MaxStarts,
         NEW from \in Int, NEW n \in Nat
  PROVE  Cardinality(During(set, from, from + n * Window)) <= MaxStarts * n
<1>. USE StartConstants
<1>. DEFINE In(i) == During(set, from, from + i * Window)
            Few(i) == Cardinality(In(i)) <= MaxStarts * i
            Bad == {i \in Nat : ~Few(i)}
<1>1. SUFFICES ASSUME Bad # {} PROVE FALSE
  OBVIOUS
<1>2. PICK i \in Bad : \A j \in Bad : i <= j
  BY <1>1, LeastNumber
<1>3. \A a, b \in Int : IsFiniteSet(During(set, a, b)) /\ Cardinality(During(set, a, b)) \in Nat
  BY FS_Subset, FS_CardinalityType DEF During
<1>4. i # 0
  <2>1. In(0) = {}
    BY DEF During, Admission
  <2>. HIDE DEF In
  <2>2. Cardinality(In(0)) = 0 /\ MaxStarts * 0 = 0
    <3>1. Cardinality(In(0)) = 0
      BY <2>1, FS_EmptySet
    <3>. QED  BY <3>1
  <2>3. Few(0)
    BY <2>2
  <2>. QED  BY <2>3, <1>2
<1>5. Few(i - 1) /\ i - 1 \in Nat
  BY <1>2, <1>4
<1>. DEFINE lo == from + (i - 1) * Window
<1>6. lo \in Int /\ lo + Window = from + i * Window /\ MaxStarts * (i - 1) + MaxStarts = MaxStarts * i
  BY <1>5
<1>7. In(i) \subseteq In(i - 1) \union During(set, lo, lo + Window)
  BY <1>5, <1>6 DEF During, Admission
<1>8. Cardinality(In(i)) <= Cardinality(In(i - 1)) + Cardinality(During(set, lo, lo + Window))
  <2>. DEFINE A == In(i - 1)   B == During(set, lo, lo + Window)
  <2>1. IsFiniteSet(A) /\ IsFiniteSet(B) /\ Cardinality(A) \in Nat /\ Cardinality(B) \in Nat
    BY <1>3, <1>5, <1>6
  <2>. HIDE DEF A, B
  <2>2. IsFiniteSet(A \union B) /\ Cardinality(A \union B) <= Cardinality(A) + Cardinality(B)
    <3>1. Cardinality(A \intersect B) \in Nat
      BY <2>1, FS_Intersection, FS_CardinalityType
    <3>2. /\ IsFiniteSet(A \union B)
          /\ Cardinality(A \union B) = Cardinality(A) + Cardinality(B) - Cardinality(A \intersect B)
      BY <2>1, FS_Union
    <3>. QED  BY <2>1, <3>1, <3>2
  <2>3. IsFiniteSet(In(i)) /\ Cardinality(In(i)) <= Cardinality(A \union B)
    BY <1>7, <2>2, FS_Subset DEF A, B
  <2>. HIDE DEF In
  <2>4. Cardinality(A \union B) \in Nat /\ Cardinality(In(i)) \in Nat
    BY <2>2, <2>3, FS_CardinalityType
  <2>. QED  BY <2>1, <2>2, <2>3, <2>4 DEF A, B
<1>9. Cardinality(During(set, lo, lo + Window)) <= MaxStarts
  BY <1>6
<1>10. Few(i)
  <2>1. /\ Cardinality(In(i)) \in Nat /\ Cardinality(In(i - 1)) \in Nat
        /\ Cardinality(During(set, lo, lo + Window)) \in Nat
    BY <1>3, <1>5, <1>6
  <2>2. MaxStarts * (i - 1) \in Nat /\ MaxStarts * i \in Nat /\ MaxStarts \in Nat
    BY <1>5
  <2>. HIDE DEF In, lo
  <2>. QED  BY <1>5, <1>6, <1>8, <1>9, <2>1, <2>2
<1>. QED  BY <1>2, <1>10

\* As many windows as Windows says cover a span.
LEMMA WindowsCover ==
  ASSUME NEW span \in Nat
  PROVE  Windows(span) \in Nat /\ span <= Windows(span) * Window
<1>. DEFINE a == span + Window - 1
<1>1. a \in Nat /\ Window \in Nat /\ Window > 0
  BY StartConstants
<1>2. a \div Window \in Nat /\ a < (a \div Window) * Window + Window
  BY <1>1, SMTT(30)
<1>. QED  BY <1>1, <1>2 DEF Windows

\* The limiter remembers every admission of the current window, and nothing else than
\* admissions; no window has more of them than the quota.
LimiterInv ==
  /\ \A c \in Clients :
       /\ IsFiniteSet(admitted[c]) /\ starts[c] \subseteq admitted[c]
       /\ \A s \in admitted[c] :
            s.time <= clock /\ (clock < s.time + Window => s \in starts[c])
       /\ \A u \in Int : Cardinality(During(admitted[c], u, u + Window)) <= MaxStarts
  /\ IsFiniteSet(Tracked(starts)) /\ Cardinality(Tracked(starts)) <= MaxClients

\* An entry of the store goes back to an admission of its client that is not older than
\* the state's lifetime and the wait before it; a browser on its way back has its entry
\* for as long as it has its cookie.
AttemptSound(k) ==
  LET a == attempt[k] IN
  /\ a.pc = "new" => expires[k] = NoEntry /\ \A c \in Clients : \A s \in admitted[c] : s.start # k
  /\ a.pc = "authorizing" =>
       /\ expires[k] = NoEntry /\ clock <= a.at + Resolve
       /\ a.client \in Clients /\ [start |-> k, time |-> a.at] \in admitted[a.client]
  /\ expires[k] # NoEntry =>
       /\ a.client \in Clients
       /\ \E s \in admitted[a.client] : s.start = k /\ expires[k] <= s.time + Resolve + StateTtl
  /\ a.pc = "stored" => expires[k] = a.at + StateTtl /\ a.at <= clock /\ clock <= a.at + Margin
  /\ a.pc = "redirected" /\ clock < a.at + CookieAge =>
       expires[k] # NoEntry /\ a.at + CookieAge <= expires[k]
StoreInv ==
  /\ IsFiniteSet(Entries(expires)) /\ Cardinality(Entries(expires)) <= MaxEntries
  /\ \A k \in Attempts : AttemptSound(k)

StartInv == StartTypeOK /\ LimiterInv /\ StoreInv

LEMMA StartsBegin == StartInit => StartInv
<1>. SUFFICES ASSUME StartInit PROVE StartInv
  OBVIOUS
<1>. USE StartConstants DEF StartInit
<1>1. StartTypeOK
  BY DEF StartTypeOK, Attempt, Phases
<1>2. LimiterInv
  <2>0. Cardinality({}) = 0 /\ IsFiniteSet({}) /\ MaxStarts \in Nat /\ MaxClients \in Nat
    BY FS_EmptySet
  <2>1. Tracked(starts) = {}
    BY DEF Tracked
  <2>2. \A c \in Clients : starts[c] = {} /\ admitted[c] = {}
    OBVIOUS
  <2>3. \A c \in Clients, u \in Int : Cardinality(During(admitted[c], u, u + Window)) <= MaxStarts
    <3>1. \A c \in Clients, u \in Int : During(admitted[c], u, u + Window) = {}
      BY <2>2 DEF During
    <3>2. \A c \in Clients, u \in Int : Cardinality(During(admitted[c], u, u + Window)) = 0
      BY <2>0, <3>1, Zenon
    <3>. QED  BY <2>0, <3>2
  <2>4. IsFiniteSet(Tracked(starts)) /\ Cardinality(Tracked(starts)) <= MaxClients
    <3>1. IsFiniteSet(Tracked(starts)) /\ Cardinality(Tracked(starts)) = 0
      BY <2>0, <2>1, Zenon
    <3>. QED  BY <2>0, <3>1
  <2>. QED  BY <2>0, <2>2, <2>3, <2>4 DEF LimiterInv
<1>3. StoreInv
  <2>1. Entries(expires) = {}
    BY DEF Entries
  <2>2. \A k \in Attempts : AttemptSound(k)
    BY DEF AttemptSound
  <2>3. IsFiniteSet(Entries(expires)) /\ Cardinality(Entries(expires)) = 0
    BY <2>1, FS_EmptySet, Zenon
  <2>4. MaxEntries \in Nat
    OBVIOUS
  <2>. QED  BY <2>2, <2>3, <2>4 DEF StoreInv
<1>. QED  BY <1>1, <1>2, <1>3 DEF StartInv

\* What a refused or an admitted call leaves of the limiter's table: everybody keeps the
\* admissions of the current window.
LEMMA PrunedKeeps ==
  ASSUME StartInv, NEW c \in Clients
  PROVE  /\ Pruned(c) \in [Clients -> SUBSET Admission]
         /\ \A d \in Clients : /\ Recent(starts[d]) \subseteq Pruned(c)[d]
                               /\ Pruned(c)[d] \subseteq starts[d]
         /\ Pruned(c)[c] = Recent(starts[c])
         /\ IsFiniteSet(Tracked(Pruned(c))) /\ Cardinality(Tracked(Pruned(c))) <= MaxClients
<1>1. /\ Pruned(c) \in [Clients -> SUBSET Admission]
      /\ \A d \in Clients : Recent(starts[d]) \subseteq Pruned(c)[d] /\ Pruned(c)[d] \subseteq starts[d]
      /\ Pruned(c)[c] = Recent(starts[c])
  BY DEF StartInv, StartTypeOK, Pruned, OwnPruned, Recent
<1>2. Tracked(Pruned(c)) \subseteq Tracked(starts)
  BY <1>1 DEF Tracked
<1>3. /\ IsFiniteSet(Tracked(starts)) /\ Cardinality(Tracked(starts)) <= MaxClients
      /\ MaxClients \in Nat
  BY StartConstants DEF StartInv, LimiterInv
<1>4. /\ IsFiniteSet(Tracked(Pruned(c)))
      /\ Cardinality(Tracked(Pruned(c))) <= Cardinality(Tracked(starts))
  BY <1>2, <1>3, FS_Subset
<1>5. Cardinality(Tracked(Pruned(c))) \in Nat /\ Cardinality(Tracked(starts)) \in Nat
  BY <1>3, <1>4, FS_CardinalityType
<1>. QED  BY <1>1, <1>3, <1>4, <1>5

LEMMA LimiterKeeps ==
  ASSUME StartInv, NEW k \in Attempts, NEW c \in Clients, Start(k, c)
  PROVE  LimiterInv'
<1>. USE StartConstants
<1>. DEFINE new == [start |-> k, time |-> clock]
<1>0. /\ clock \in Nat /\ clock' = clock /\ admitted \in [Clients -> SUBSET Admission]
      /\ starts \in [Clients -> SUBSET Admission] /\ new \in Admission
      /\ Window \in Nat /\ Window > 0 /\ MaxStarts \in Nat
  BY DEF StartInv, StartTypeOK, Start, Admission
<1>1. CASE ~MayStart(c)
  <2>1. starts' = Pruned(c) /\ admitted' = admitted
    BY <1>1 DEF Start
  <2>2. Tracked(starts)' = Tracked(Pruned(c))
    BY <2>1 DEF Tracked
  <2>3. /\ IsFiniteSet(Tracked(starts)') /\ Cardinality(Tracked(starts)') <= MaxClients
    BY <2>2, PrunedKeeps
  <2>4. ASSUME NEW d \in Clients
        PROVE  /\ IsFiniteSet(admitted'[d]) /\ starts'[d] \subseteq admitted'[d]
               /\ \A s \in admitted'[d] :
                    s.time <= clock' /\ (clock' < s.time + Window => s \in starts'[d])
               /\ \A u \in Int : Cardinality(During(admitted'[d], u, u + Window)) <= MaxStarts
    BY <1>0, <2>1, PrunedKeeps DEF StartInv, LimiterInv, Recent
  <2>. QED  BY <2>3, <2>4 DEF LimiterInv, Tracked
<1>2. CASE MayStart(c)
  <2>1. /\ starts' = [Pruned(c) EXCEPT ![c] = @ \union {new}]
        /\ admitted' = [admitted EXCEPT ![c] = @ \union {new}]
        /\ MayTrack(c) /\ Cardinality(Pruned(c)[c]) < MaxStarts
    BY <1>2 DEF Start, MayStart
  <2>2. /\ \A d \in Clients \ {c} : starts'[d] = Pruned(c)[d] /\ admitted'[d] = admitted[d]
        /\ starts'[c] = Pruned(c)[c] \union {new} /\ admitted'[c] = admitted[c] \union {new}
    BY <1>0, <2>1, PrunedKeeps
  <2>3. IsFiniteSet(Tracked(starts)') /\ Cardinality(Tracked(starts)') <= MaxClients
    <3>1. Tracked(starts)' = Tracked(Pruned(c)) \union {c}
      BY <2>2 DEF Tracked
    <3>2. Cardinality(Tracked(Pruned(c))) \in Nat /\ MaxClients \in Nat
      BY PrunedKeeps, FS_CardinalityType
    <3>3. /\ IsFiniteSet(Tracked(starts)')
          /\ Cardinality(Tracked(starts)') = IF c \in Tracked(Pruned(c))
                                               THEN Cardinality(Tracked(Pruned(c)))
                                               ELSE Cardinality(Tracked(Pruned(c))) + 1
      BY <3>1, PrunedKeeps, FS_AddElement
    <3>4. c \in Tracked(Pruned(c)) \/ Cardinality(Tracked(Pruned(c))) < MaxClients
      BY <2>1 DEF MayTrack, Tracked
    <3>. QED  BY <3>2, <3>3, <3>4, PrunedKeeps
  <2>4. ASSUME NEW d \in Clients
        PROVE  /\ IsFiniteSet(admitted'[d]) /\ starts'[d] \subseteq admitted'[d]
               /\ \A s \in admitted'[d] :
                    s.time <= clock' /\ (clock' < s.time + Window => s \in starts'[d])
    <3>1. IsFiniteSet(admitted[d]) /\ IsFiniteSet(admitted[d] \union {new})
      BY FS_AddElement DEF StartInv, LimiterInv
    <3>2. \A s \in admitted[d] :
            s.time <= clock /\ (clock < s.time + Window => s \in Pruned(c)[d])
      BY PrunedKeeps DEF StartInv, LimiterInv, Recent
    <3>3. Pruned(c)[d] \subseteq admitted[d]
      BY PrunedKeeps DEF StartInv, LimiterInv
    <3>4. CASE d = c
      <4>1. admitted'[d] = admitted[d] \union {new} /\ starts'[d] = Pruned(c)[d] \union {new}
        BY <2>2, <3>4
      <4>. HIDE DEF new
      <4>2. IsFiniteSet(admitted'[d]) /\ starts'[d] \subseteq admitted'[d]
        BY <3>1, <3>3, <4>1
      <4>3. new.time = clock
        BY DEF new
      <4>. QED  BY <1>0, <3>2, <4>1, <4>2, <4>3
    <3>5. CASE d # c
      BY <1>0, <2>2, <3>1, <3>2, <3>3, <3>5
    <3>. QED  BY <3>4, <3>5
  <2>5. ASSUME NEW d \in Clients, NEW u \in Int
        PROVE  Cardinality(During(admitted'[d], u, u + Window)) <= MaxStarts
    <3>. DEFINE Old == During(admitted[d], u, u + Window)
                New == During(admitted'[d], u, u + Window)
    <3>1. IsFiniteSet(Old) /\ Cardinality(Old) <= MaxStarts /\ Cardinality(Old) \in Nat
      BY FS_Subset, FS_CardinalityType DEF StartInv, LimiterInv, During
    <3>2. CASE d # c \/ ~(u <= clock /\ clock < u + Window)
      <4>1. New = Old
        BY <2>2, <3>2 DEF During
      <4>. QED  BY <3>1, <4>1
    <3>3. CASE d = c /\ u <= clock /\ clock < u + Window
      <4>1. New = Old \union {new}
        BY <2>2, <3>3 DEF During
      <4>2. Old \subseteq Pruned(c)[c]
        BY <1>0, <3>3, PrunedKeeps DEF During, StartInv, LimiterInv, Recent, Admission
      <4>3. IsFiniteSet(Pruned(c)[c])
        BY PrunedKeeps, FS_Subset DEF StartInv, LimiterInv
      <4>4. Cardinality(Old) <= Cardinality(Pruned(c)[c]) /\ Cardinality(Pruned(c)[c]) \in Nat
        BY <4>2, <4>3, FS_Subset, FS_CardinalityType
      <4>. HIDE DEF Old, New, new
      <4>5. Cardinality(New) <= Cardinality(Old) + 1
        <5>1. Cardinality(Old \union {new}) = IF new \in Old THEN Cardinality(Old) ELSE Cardinality(Old) + 1
          BY <3>1, FS_AddElement
        <5>. QED  BY <3>1, <4>1, <5>1
      <4>6. Cardinality(New) \in Nat
        BY <3>1, <4>1, FS_AddElement, FS_CardinalityType
      <4>7. Cardinality(Pruned(c)[c]) < MaxStarts /\ MaxStarts \in Nat
        BY <1>0, <2>1
      <4>. QED  BY <3>1, <4>4, <4>5, <4>6, <4>7 DEF New
    <3>. QED  BY <3>2, <3>3
  <2>. QED  BY <2>3, <2>4, <2>5 DEF LimiterInv, Tracked
<1>. QED  BY <1>1, <1>2

\* A start goes on, or is over: only its own record changes, and it keeps its client.
LEMMA AttemptMoves ==
  ASSUME StartTypeOK, NEW k \in Attempts, NEW pc \in Phases,
         Reach(k, pc) \/ (End(k) /\ pc = "over")
  PROVE  /\ attempt' \in [Attempts -> Attempt]
         /\ attempt'[k].pc = pc /\ attempt'[k].client = attempt[k].client
         /\ Reach(k, pc) => attempt'[k].at = clock
         /\ \A j \in Attempts \ {k} : attempt'[j] = attempt[j]
<1>1. PICK t \in Nat : attempt' = [attempt EXCEPT ![k] = [attempt[k] EXCEPT !.pc = pc, !.at = t]]
  <2>1. CASE Reach(k, pc)
    BY <2>1 DEF Reach, StartTypeOK, Attempt
  <2>2. CASE End(k) /\ pc = "over"
    BY <2>2 DEF End, StartTypeOK, Attempt
  <2>. QED  BY <2>1, <2>2
<1>2. /\ attempt' \in [Attempts -> Attempt]
      /\ attempt'[k].pc = pc /\ attempt'[k].client = attempt[k].client
      /\ \A j \in Attempts \ {k} : attempt'[j] = attempt[j]
  BY <1>1 DEF StartTypeOK, Attempt
<1>3. Reach(k, pc) => attempt'[k].at = clock
  BY DEF Reach, StartTypeOK, Attempt
<1>. QED  BY <1>2, <1>3

LEMMA StoreKeeps ==
  ASSUME StartInv, StartTypeOK', StartNext
  PROVE  StoreInv'
<1>. USE StartConstants DEF StartInv, StartTypeOK
<1>0. /\ StateTtl \in Nat /\ StateTtl = CookieAge + Margin /\ NoEntry \notin Nat
      /\ CookieAge \in Nat /\ CookieAge > 0 /\ Margin \in Nat /\ Resolve \in Nat
  BY DEF StateTtl
\* Steps that only take entries away, and none of a state that may still be asked for.
<1>1. ASSUME Entries(expires)' \subseteq Entries(expires)
      PROVE  IsFiniteSet(Entries(expires)') /\ Cardinality(Entries(expires)') <= MaxEntries
  <2>1. IsFiniteSet(Entries(expires)) /\ Cardinality(Entries(expires)) <= MaxEntries
    BY DEF StoreInv
  <2>2. /\ IsFiniteSet(Entries(expires)')
        /\ Cardinality(Entries(expires)') <= Cardinality(Entries(expires))
    BY <1>1, <2>1, FS_Subset
  <2>3. Cardinality(Entries(expires)') \in Nat /\ Cardinality(Entries(expires)) \in Nat
    BY <2>1, <2>2, FS_CardinalityType
  <2>. QED  BY <2>1, <2>2, <2>3
<1>2. ASSUME NEW k \in Attempts, NEW c \in Clients, Start(k, c) PROVE StoreInv'
  <2>1. /\ attempt[k].pc = "new" /\ expires[k] = NoEntry /\ UNCHANGED <<clock, expires>>
        /\ \A d \in Clients : \A s \in admitted[d] : s.start # k
    BY <1>2 DEF Start, StoreInv, AttemptSound
  <2>2. \A j \in Attempts \ {k} : attempt'[j] = attempt[j]
    BY <1>2 DEF Start, End
  <2>3. \A d \in Clients : admitted[d] \subseteq admitted'[d]
    BY <1>2 DEF Start
  <2>4. \A d \in Clients : \A s \in admitted'[d] : s \in admitted[d] \/ s.start = k
    BY <1>2 DEF Start
  <2>5. ASSUME NEW j \in Attempts \ {k} PROVE AttemptSound(j)'
    <3>1. AttemptSound(j) /\ expires'[j] = expires[j] /\ clock' = clock
      BY <2>1 DEF StoreInv
    <3>. QED  BY <2>2, <2>3, <2>4, <3>1 DEF AttemptSound
  <2>6. AttemptSound(k)'
    <3>1. CASE MayStart(c)
      <4>1. /\ attempt'[k] = [pc |-> "authorizing", client |-> c, at |-> clock]
            /\ [start |-> k, time |-> clock] \in admitted'[c]
        BY <1>2, <3>1 DEF Start
      <4>. QED  BY <1>0, <2>1, <4>1 DEF AttemptSound
    <3>2. CASE ~MayStart(c)
      <4>1. attempt' = [attempt EXCEPT ![k].pc = "over", ![k].at = 0]
        BY <1>2, <3>2 DEF Start, End
      <4>2. attempt'[k].pc = "over" /\ expires'[k] = NoEntry
        BY <2>1, <4>1
      <4>. QED  BY <4>2 DEF AttemptSound
    <3>. QED  BY <3>1, <3>2
  <2>7. Entries(expires)' = Entries(expires)
    BY <2>1 DEF Entries
  <2>. QED  BY <1>1, <2>5, <2>6, <2>7 DEF StoreInv
\* The other steps leave the admissions as they are.
<1>3. ASSUME NEW k \in Attempts, UNCHANGED <<clock, admitted>>,
             \A j \in Attempts \ {k} : attempt'[j] = attempt[j],
             \A j \in Attempts \ {k} : expires'[j] = IF Live(j) THEN expires[j] ELSE expires'[j],
             \A j \in Attempts \ {k} : expires'[j] \in {expires[j], NoEntry}
      PROVE  \A j \in Attempts \ {k} : AttemptSound(j)'
  <2>. SUFFICES ASSUME NEW j \in Attempts \ {k} PROVE AttemptSound(j)'
    OBVIOUS
  <2>1. AttemptSound(j) /\ attempt'[j] = attempt[j] /\ expires'[j] \in {expires[j], NoEntry}
    BY <1>3 DEF StoreInv
  <2>2. attempt[j].pc = "stored" => Live(j)
    BY <1>0, <2>1 DEF AttemptSound, Live, Attempt
  <2>3. attempt[j].pc = "redirected" /\ clock < attempt[j].at + CookieAge => Live(j)
    BY <1>0, <2>1 DEF AttemptSound, Live, Attempt
  <2>4. Live(j) => expires'[j] = expires[j]
    BY <1>3
  <2>5. clock' = clock /\ admitted' = admitted
    BY <1>3
  <2>6. CASE expires'[j] = expires[j]
    BY <2>1, <2>5, <2>6 DEF AttemptSound
  <2>7. CASE expires'[j] = NoEntry /\ ~Live(j)
    BY <2>1, <2>2, <2>3, <2>5, <2>7 DEF AttemptSound
  <2>. QED  BY <2>1, <2>4, <2>6, <2>7
<1>4. ASSUME NEW k \in Attempts, Save(k) PROVE StoreInv'
  <2>1. /\ attempt[k].pc = "authorizing" /\ expires[k] = NoEntry /\ clock <= attempt[k].at + Resolve
        /\ attempt[k].client \in Clients
        /\ [start |-> k, time |-> attempt[k].at] \in admitted[attempt[k].client]
    BY <1>4 DEF Save, StoreInv, AttemptSound
  <2>2. /\ \A j \in Attempts : Purged[j] \in {expires[j], NoEntry} /\ (Live(j) => Purged[j] = expires[j])
        /\ Purged \in [Attempts -> Nat \union {NoEntry}]
    BY DEF Purged
  <2>3. /\ UNCHANGED <<clock, admitted>>
        /\ \A j \in Attempts \ {k} : attempt'[j] = attempt[j] /\ expires'[j] = Purged[j]
    BY <1>4, <2>2 DEF Save, Reach, End
  <2>4. \A j \in Attempts \ {k} : AttemptSound(j)'
    BY <1>3, <2>2, <2>3
  <2>5. Entries(Purged) \subseteq Entries(expires)
    BY <2>2 DEF Entries
  <2>6. IsFiniteSet(Entries(Purged)) /\ Cardinality(Entries(Purged)) \in Nat
    BY <2>5, FS_Subset, FS_CardinalityType DEF StoreInv
  <2>7. CASE HasRoom(Purged)
    <3>1. /\ expires' = [Purged EXCEPT ![k] = clock + StateTtl]
          /\ attempt' = [attempt EXCEPT ![k].pc = "stored", ![k].at = clock]
      BY <1>4, <2>7 DEF Save, Reach
    <3>2. Entries(expires)' = Entries(Purged) \union {k}
      BY <1>0, <2>2, <3>1 DEF Entries
    <3>3. IsFiniteSet(Entries(expires)') /\ Cardinality(Entries(expires)') <= MaxEntries
      <4>1. Cardinality(Entries(Purged)) < MaxEntries /\ MaxEntries \in Nat
        BY <2>7 DEF HasRoom
      <4>2. /\ IsFiniteSet(Entries(Purged) \union {k})
            /\ Cardinality(Entries(Purged) \union {k}) =
                 IF k \in Entries(Purged) THEN Cardinality(Entries(Purged))
                                         ELSE Cardinality(Entries(Purged)) + 1
        BY <2>6, FS_AddElement
      <4>3. Cardinality(Entries(Purged) \union {k}) <= MaxEntries
        BY <2>6, <4>1, <4>2
      <4>. QED  BY <3>2, <4>2, <4>3
    <3>4. AttemptSound(k)'
      <4>1. /\ attempt'[k].pc = "stored" /\ attempt'[k].at = clock
            /\ attempt'[k].client = attempt[k].client
            /\ expires'[k] = clock + StateTtl
        BY <2>2, <3>1
      <4>2. clock + StateTtl <= attempt[k].at + Resolve + StateTtl /\ attempt[k].at \in Nat
        BY <1>0, <2>1 DEF Attempt
      <4>3. \E s \in admitted'[attempt'[k].client] :
              s.start = k /\ expires'[k] <= s.time + Resolve + StateTtl
        BY <2>1, <2>3, <4>1, <4>2
      <4>. QED  BY <1>0, <2>1, <2>3, <4>1, <4>3 DEF AttemptSound
    <3>. QED  BY <2>4, <3>3, <3>4 DEF StoreInv
  <2>8. CASE ~HasRoom(Purged)
    <3>1. expires' = Purged /\ attempt' = [attempt EXCEPT ![k].pc = "over", ![k].at = 0]
      BY <1>4, <2>8 DEF Save, End
    <3>2. IsFiniteSet(Entries(expires)') /\ Cardinality(Entries(expires)') <= MaxEntries
      BY <1>1, <2>5, <3>1 DEF Entries
    <3>3. attempt'[k].pc = "over" /\ expires'[k] = NoEntry
      BY <2>1, <2>2, <3>1
    <3>4. AttemptSound(k)'
      BY <3>3 DEF AttemptSound
    <3>. QED  BY <2>4, <3>2, <3>4 DEF StoreInv
  <2>. QED  BY <2>7, <2>8
<1>5. ASSUME NEW k \in Attempts, Redirect(k) \/ Refused(k) \/ Callback(k) \/ Forget(k)
      PROVE  StoreInv'
  <2>1. /\ UNCHANGED <<clock, admitted>> /\ expires'[k] \in {expires[k], NoEntry}
        /\ \A j \in Attempts \ {k} : attempt'[j] = attempt[j] /\ expires'[j] = expires[j]
        /\ attempt'[k].client = attempt[k].client
    <3>1. /\ UNCHANGED <<clock, admitted>> /\ expires'[k] \in {expires[k], NoEntry}
          /\ \A j \in Attempts \ {k} : expires'[j] = expires[j]
      BY <1>5 DEF Redirect, Refused, Callback, Forget
    <3>2. \E pc \in Phases : Reach(k, pc) \/ (End(k) /\ pc = "over")
      BY <1>5 DEF Redirect, Refused, Callback, Forget, Phases
    <3>. QED  BY <3>1, <3>2, AttemptMoves
  <2>2. \A j \in Attempts \ {k} : AttemptSound(j)'
    BY <1>3, <2>1
  <2>3. Entries(expires)' \subseteq Entries(expires)
    BY <2>1 DEF Entries
  <2>4. AttemptSound(k)'
    <3>1. expires'[k] # NoEntry =>
            /\ attempt'[k].client \in Clients
            /\ \E s \in admitted'[attempt'[k].client] :
                 s.start = k /\ expires'[k] <= s.time + Resolve + StateTtl
      <4>1. AttemptSound(k)
        BY DEF StoreInv
      <4>. QED  BY <2>1, <4>1 DEF AttemptSound
    <3>2. CASE Redirect(k)
      <4>1. /\ attempt[k].pc = "stored" /\ attempt'[k].pc = "redirected" /\ attempt'[k].at = clock
            /\ expires'[k] = expires[k]
        BY <3>2 DEF Redirect, Reach
      <4>2. expires[k] = attempt[k].at + StateTtl /\ clock <= attempt[k].at + Margin
        BY <4>1 DEF StoreInv, AttemptSound
      <4>3. expires[k] # NoEntry /\ clock + CookieAge <= expires[k]
        BY <1>0, <4>2 DEF Attempt
      <4>. QED  BY <3>1, <4>1, <4>3 DEF AttemptSound
    <3>3. CASE Refused(k) \/ Callback(k) \/ Forget(k)
      <4>1. attempt'[k].pc \in {"over", "found"}
        BY <3>3, AttemptMoves DEF Refused, Callback, Forget, Phases
      <4>. QED  BY <3>1, <4>1 DEF AttemptSound
    <3>. QED  BY <1>5, <3>2, <3>3
  <2>. QED  BY <1>1, <2>2, <2>3, <2>4 DEF StoreInv
<1>6. ASSUME Tick PROVE StoreInv'
  <2>1. /\ clock' = clock + 1 /\ UNCHANGED <<starts, expires, attempt, admitted>>
        /\ \A k \in Attempts :
             /\ attempt[k].pc = "authorizing" => clock < attempt[k].at + Resolve
             /\ attempt[k].pc = "stored" => clock < attempt[k].at + Margin
    BY <1>6 DEF Tick
  <2>2. ASSUME NEW k \in Attempts PROVE AttemptSound(k)'
    <3>1. AttemptSound(k) /\ attempt[k].at \in Nat
      BY DEF StoreInv, Attempt
    <3>. QED  BY <1>0, <2>1, <3>1 DEF AttemptSound
  <2>. QED  BY <1>1, <2>1, <2>2 DEF StoreInv, Entries
<1>. QED  BY <1>2, <1>4, <1>5, <1>6 DEF StartNext

LEMMA StartStepKeeps == StartInv /\ [StartNext]_startVars => StartInv'
<1>. SUFFICES ASSUME StartInv, [StartNext]_startVars PROVE StartInv'
  OBVIOUS
<1>. USE StartConstants
<1>1. CASE UNCHANGED startVars
  BY <1>1 DEF startVars, StartInv, StartTypeOK, LimiterInv, StoreInv, AttemptSound, Tracked,
              Entries
<1>2. CASE StartNext
  <2>1. StartTypeOK'
    <3>. USE DEF StartInv, StartTypeOK
    <3>1. ASSUME NEW k \in Attempts, NEW c \in Clients, Start(k, c) PROVE StartTypeOK'
      <4>1. [start |-> k, time |-> clock] \in Admission
        BY DEF Admission
      <4>2. Pruned(c) \in [Clients -> SUBSET Admission]
        BY PrunedKeeps
      <4>3. CASE MayStart(c)
        BY <3>1, <4>1, <4>2, <4>3 DEF Start, Attempt, Phases
      <4>4. CASE ~MayStart(c)
        BY <3>1, <4>2, <4>4, AttemptMoves DEF Start, Phases
      <4>. QED  BY <4>3, <4>4
    <3>2. ASSUME NEW k \in Attempts, Save(k) PROVE StartTypeOK'
      <4>1. Purged \in [Attempts -> Nat \union {NoEntry}] /\ clock + StateTtl \in Nat
        BY DEF Purged, StateTtl
      <4>2. attempt' \in [Attempts -> Attempt]
        BY <3>2, AttemptMoves DEF Save, Phases
      <4>. QED  BY <3>2, <4>1, <4>2 DEF Save
    <3>3. ASSUME NEW k \in Attempts, Redirect(k) \/ Refused(k) \/ Callback(k) \/ Forget(k)
          PROVE  StartTypeOK'
      <4>1. attempt' \in [Attempts -> Attempt]
        BY <3>3, AttemptMoves DEF Redirect, Refused, Callback, Forget, Phases
      <4>. QED  BY <3>3, <4>1 DEF Redirect, Refused, Callback, Forget
    <3>4. CASE Tick
      BY <3>4 DEF Tick
    <3>. QED  BY <1>2, <3>1, <3>2, <3>3, <3>4 DEF StartNext
  <2>2. LimiterInv'
    <3>1. ASSUME UNCHANGED <<starts, admitted>>, clock' \in {clock, clock + 1} PROVE LimiterInv'
      <4>1. \A c \in Clients : \A s \in admitted[c] :
              s.time \in Nat /\ s.time <= clock /\ (clock < s.time + Window => s \in starts[c])
        BY DEF StartInv, StartTypeOK, LimiterInv, Admission
      <4>2. clock \in Nat /\ Window \in Nat
        BY DEF StartInv, StartTypeOK
      <4>3. \A c \in Clients : \A s \in admitted[c] :
              s.time <= clock' /\ (clock' < s.time + Window => s \in starts[c])
        BY <3>1, <4>1, <4>2
      <4>. QED  BY <3>1, <4>3 DEF StartInv, LimiterInv, Tracked
    <3>2. ASSUME NEW k \in Attempts, Save(k) \/ Redirect(k) \/ Refused(k) \/ Callback(k) \/ Forget(k)
          PROVE  LimiterInv'
      BY <3>1, <3>2 DEF Save, Redirect, Refused, Callback, Forget
    <3>3. CASE Tick
      BY <3>1, <3>3 DEF Tick
    <3>. QED  BY <1>2, <3>2, <3>3, LimiterKeeps DEF StartNext
  <2>. QED  BY <1>2, <2>1, <2>2, StoreKeeps DEF StartInv
<1>. QED  BY <1>1, <1>2

\* A client's share of the store: an entry goes back to an admission of its own, no more
\* of them than the windows of the state's lifetime and the wait before it admit.
LEMMA ShareBounded ==
  ASSUME StartInv, NEW c \in Clients
  PROVE  Held(c) <= MaxStarts * Windows(StateTtl + Resolve)
<1>. USE StartConstants DEF StartInv, StartTypeOK
<1>. DEFINE span == StateTtl + Resolve
            lo == clock + 1 - span
            Mine == {k \in Attempts : Live(k) /\ attempt[k].client = c}
            Near == During(admitted[c], lo, lo + Windows(span) * Window)
            f == [k \in Mine |-> CHOOSE s \in Near : s.start = k]
<1>1. /\ span \in Nat /\ lo \in Int /\ Windows(span) \in Nat
      /\ lo + span <= lo + Windows(span) * Window
  <2>1. span \in Nat /\ lo \in Int
    BY DEF StateTtl
  <2>2. Windows(span) \in Nat /\ span <= Windows(span) * Window
    BY <2>1, WindowsCover
  <2>3. Windows(span) * Window \in Nat
    BY <2>2
  <2>. HIDE DEF span, lo
  <2>. QED  BY <2>1, <2>2, <2>3
<1>2. IsFiniteSet(Near) /\ Cardinality(Near) <= MaxStarts * Windows(span)
  <2>1. IsFiniteSet(admitted[c]) /\ admitted[c] \subseteq Admission
        /\ \A u \in Int : Cardinality(During(admitted[c], u, u + Window)) <= MaxStarts
    BY DEF LimiterInv
  <2>2. IsFiniteSet(Near)
    BY <2>1, FS_Subset DEF During
  <2>. HIDE DEF span, lo
  <2>. QED  BY <1>1, <2>1, <2>2, WindowsInARow
<1>3. ASSUME NEW k \in Mine PROVE \E s \in Near : s.start = k
  <2>1. PICK s \in admitted[c] : s.start = k /\ expires[k] <= s.time + Resolve + StateTtl
    BY DEF Live, StoreInv, AttemptSound
  <2>2. s.time \in Nat /\ s.time <= clock
    BY DEF LimiterInv, Admission
  <2>3. clock < expires[k] /\ expires[k] \in Nat /\ clock \in Nat
    BY DEF Live
  <2>4. StateTtl \in Nat /\ Resolve \in Nat
    BY DEF StateTtl
  <2>5. lo <= s.time /\ s.time < lo + span
    BY <2>1, <2>2, <2>3, <2>4
  <2>6. lo + Windows(span) * Window \in Int
    BY <1>1
  <2>7. s.time < lo + Windows(span) * Window
    <3>. HIDE DEF lo, span
    <3>. QED  BY <1>1, <2>2, <2>5, <2>6
  <2>. QED  BY <2>1, <2>5, <2>7 DEF During
<1>4. f \in Injection(Mine, Near)
  <2>1. \A k \in Mine : f[k] \in Near /\ f[k].start = k
    BY <1>3
  <2>. HIDE DEF f, Mine, Near
  <2>2. f \in [Mine -> Near]
    BY <2>1 DEF f
  <2>. QED  BY <2>1, <2>2 DEF Injection, IsInjective
<1>5. IsFiniteSet(Mine) /\ Cardinality(Mine) <= Cardinality(Near)
  BY <1>2, <1>4, FS_Injection
<1>. HIDE DEF Mine, Near, span
<1>6. Cardinality(Mine) \in Nat /\ Cardinality(Near) \in Nat /\ MaxStarts * Windows(span) \in Nat
  <2>1. Cardinality(Mine) \in Nat /\ Cardinality(Near) \in Nat
    BY <1>2, <1>5, FS_CardinalityType
  <2>2. MaxStarts \in Nat /\ Windows(span) \in Nat
    BY <1>1
  <2>. QED  BY <2>1, <2>2
<1>7. Cardinality(Mine) <= MaxStarts * Windows(span)
  BY <1>2, <1>5, <1>6
<1>. QED  BY <1>7 DEF Held, Mine, span

\* However its starts fall and whoever else fills the tables: the window, the bounds of
\* both tables and a client's share of the store.
THEOREM StartsAreBounded == StartSpec => []StartsBounded
<1>1. StartInit => StartInv
  BY StartsBegin
<1>2. StartInv /\ [StartNext]_startVars => StartInv'
  BY StartStepKeeps
<1>3. StartInv => StartsBounded
  <2>. SUFFICES ASSUME StartInv PROVE StartsBounded
    OBVIOUS
  <2>1. ASSUME NEW c \in Clients, NEW s \in admitted[c]
        PROVE  Cardinality(Within(c, s.time)) <= MaxStarts
    <3>1. s.time \in Int /\ Within(c, s.time) = During(admitted[c], s.time, s.time + Window)
      BY DEF Within, During, StartInv, StartTypeOK, Admission
    <3>. QED  BY <3>1 DEF StartInv, LimiterInv
  <2>. QED  BY <2>1, ShareBounded DEF StartsBounded, StartInv, LimiterInv, StoreInv
<1>. QED  BY <1>1, <1>2, <1>3, PTL DEF StartSpec

\* However starts, failures and the clock interleave: the cookie outlives nothing that it
\* needs, and nobody's entry makes room for another's.
THEOREM CookiesFindTheirState == StartSpec => []CookieFindsState
<1>1. StartInit => StartInv
  BY StartsBegin
<1>2. StartInv /\ [StartNext]_startVars => StartInv'
  BY StartStepKeeps
<1>3. StartInv => CookieFindsState
  <2>. SUFFICES ASSUME StartInv, NEW k \in Attempts, HasCookie(k) PROVE Live(k)
    BY DEF CookieFindsState
  <2>1. /\ attempt[k].pc = "redirected" /\ clock < attempt[k].at + CookieAge
        /\ expires[k] # NoEntry /\ attempt[k].at + CookieAge <= expires[k]
    BY DEF HasCookie, StartInv, StoreInv, AttemptSound
  <2>2. clock \in Nat /\ attempt[k].at \in Nat /\ CookieAge \in Nat /\ expires[k] \in Nat
    BY <2>1, StartConstants DEF StartInv, StartTypeOK, Attempt
  <2>. QED  BY <2>1, <2>2 DEF Live
<1>. QED  BY <1>1, <1>2, <1>3, PTL DEF StartSpec

=============================================================================
