------------------------ MODULE EmailIndexMigration ------------------------
(***************************************************************************)
(* Rolling restart onto a unique actors.email: starting processes run      *)
(* ensure-unique-actors-email-index! (db.cljs) while other processes still *)
(* check and insert actors.  One action per statement; a transaction's     *)
(* table locks are held to its end, its changes appear when it commits.    *)
(***************************************************************************)
EXTENDS FiniteSets

CONSTANTS
  Migrators,    \* processes in init-schema!
  Writers,      \* requests or scripts that add an actor; each adds the row of its name
  OldRows,      \* actors already there
  Emails, None

MigrationConstants == None \notin Emails /\ Migrators \intersect Writers = {}

VARIABLES
  index,      \* idx_actors_email: "absent", "legacy" (not unique) or "unique"
  email,      \* emails of committed actors; None where there is no row
  lock,       \* table lock on actors held by each process's transaction
  migrator, writer

vars == <<index, email, lock, migrator, writer>>

Processes == Migrators \union Writers
Rows      == OldRows \union Writers

Modes == {"none", "row share", "row exclusive", "share", "access exclusive"}
MigratorPc == {"check", "lock", "recheck", "scan", "drop", "create", "commit",
               "done", "refused", "interrupted", "collided"}
WriterPc == {"new", "begin", "insert", "commit", "added", "taken"}
MigrationEnds == {"done", "refused", "interrupted", "collided"}

TypeOK ==
  /\ index \in {"absent", "legacy", "unique"}
  /\ email \in [Rows -> Emails \union {None}]
  /\ lock \in [Processes -> Modes]
  /\ migrator \in [Migrators -> MigratorPc]
  /\ writer \in [Writers -> [pc : WriterPc, email : Emails \union {None}]]

\* Before the unique index, two actors may share an email.
Init ==
  /\ index \in {"absent", "legacy"}
  /\ email \in {f \in [Rows -> Emails \union {None}] : \A w \in Writers : f[w] = None}
  /\ lock = [p \in Processes |-> "none"]
  /\ migrator = [m \in Migrators |-> "check"]
  /\ writer = [w \in Writers |-> [pc |-> "new", email |-> None]]

\* PostgreSQL's table-lock conflicts, for the modes used here.
Conflicts(a, b) ==
  \/ "access exclusive" \in {a, b} /\ "none" \notin {a, b}
  \/ {a, b} = {"share", "row exclusive"}
CanLock(p, mode) == \A q \in Processes \ {p} : ~Conflicts(mode, lock[q])
Lock(p, mode)    == CanLock(p, mode) /\ lock' = [lock EXCEPT ![p] = mode]
Unlock(p)        == lock' = [lock EXCEPT ![p] = "none"]

Duplicates == {r \in Rows : \E q \in Rows \ {r} : email[r] # None /\ email[q] = email[r]}

-----------------------------------------------------------------------------
(* ensure-unique-actors-email-index! and migrate-email-index!.             *)

Goto(m, pc) == migrator' = [migrator EXCEPT ![m] = pc]

\* Fast path: no lock when the index is unique already.
Check(m) ==
  /\ migrator[m] = "check"
  /\ Goto(m, IF index = "unique" THEN "done" ELSE "lock")
  /\ UNCHANGED <<index, email, lock, writer>>

\* First statement of the transaction.
LockModeNone  == "none"
LockModeShare == "share"
LockMode      == "access exclusive"
LockActors(m) ==
  /\ migrator[m] = "lock"
  /\ Lock(m, LockMode)
  /\ Goto(m, "recheck")
  /\ UNCHANGED <<index, email, writer>>

Recheck(m) ==
  /\ migrator[m] = "recheck"
  /\ Goto(m, IF index = "unique" THEN "commit" ELSE "scan")
  /\ UNCHANGED <<index, email, lock, writer>>

\* Duplicates refuse the start; the rollback leaves the legacy index.
Scan(m) ==
  /\ migrator[m] = "scan"
  /\ IF Duplicates # {} THEN Goto(m, "refused") /\ Unlock(m)
     ELSE Goto(m, IF index = "absent" THEN "create" ELSE "drop") /\ UNCHANGED lock
  /\ UNCHANGED <<index, email, writer>>

\* Invisible to others until the transaction commits.
Drop(m) ==
  /\ migrator[m] = "drop"
  /\ Lock(m, "access exclusive")
  /\ Goto(m, "create")
  /\ UNCHANGED <<index, email, writer>>

\* CREATE UNIQUE INDEX fails on duplicates it finds.
Create(m) ==
  /\ migrator[m] = "create"
  /\ IF Duplicates # {} THEN Goto(m, "collided") /\ Unlock(m)
     ELSE Goto(m, "commit") /\ Lock(m, IF lock[m] = "none" THEN "share" ELSE lock[m])
  /\ UNCHANGED <<index, email, writer>>

Commit(m) ==
  /\ migrator[m] = "commit"
  /\ index' = "unique"
  /\ Unlock(m)
  /\ Goto(m, "done")
  /\ UNCHANGED <<email, writer>>

\* A shutdown observed between statements, or a statement that times out: ROLLBACK.
Interrupt(m) ==
  /\ migrator[m] \notin MigrationEnds
  /\ Goto(m, "interrupted") /\ Unlock(m)
  /\ UNCHANGED <<index, email, writer>>

-----------------------------------------------------------------------------
(* Requests of this or of an older release that add an actor.              *)

WriterAt(w, pc) == writer' = [writer EXCEPT ![w].pc = pc]

\* The check by email comes before the transaction.
Look(w, e) ==
  /\ writer[w].pc = "new"
  /\ writer' = [writer EXCEPT ![w] =
       [pc |-> IF \E r \in Rows : email[r] = e THEN "taken" ELSE "begin", email |-> e]]
  /\ UNCHANGED <<index, email, lock, migrator>>

\* bootstrap-local-admin reads the actors FOR UPDATE first; a sign-up only inserts.
Read(w) ==
  /\ writer[w].pc = "begin"
  /\ \/ Lock(w, "row share") \/ UNCHANGED lock
  /\ WriterAt(w, "insert")
  /\ UNCHANGED <<index, email, migrator>>

Inserting(w, e) == writer[w].pc = "commit" /\ writer[w].email = e

\* The unique index, once there, makes an equal insert wait and then fail.
Insert(w) ==
  LET e == writer[w].email IN
  /\ writer[w].pc = "insert" /\ CanLock(w, "row exclusive")
  /\ index = "unique" => \A v \in Writers \ {w} : ~Inserting(v, e)
  /\ IF index = "unique" /\ \E r \in Rows : email[r] = e
       THEN WriterAt(w, "taken") /\ Unlock(w)
       ELSE WriterAt(w, "commit") /\ Lock(w, "row exclusive")
  /\ UNCHANGED <<index, email, migrator>>

CommitRow(w) ==
  /\ writer[w].pc = "commit"
  /\ email' = [email EXCEPT ![w] = writer[w].email]
  /\ Unlock(w)
  /\ WriterAt(w, "added")
  /\ UNCHANGED <<index, migrator>>

-----------------------------------------------------------------------------

MigratorStep(m) ==
  Check(m) \/ LockActors(m) \/ Recheck(m) \/ Scan(m) \/ Drop(m) \/ Create(m) \/ Commit(m)
WriterStep(w) == Read(w) \/ Insert(w) \/ CommitRow(w)

Next ==
  \/ \E m \in Migrators : MigratorStep(m) \/ Interrupt(m)
  \/ \E w \in Writers : WriterStep(w) \/ \E e \in Emails : Look(w, e)

\* Statements that can proceed do; PostgreSQL queues lock requests, so one whose
\* lock keeps coming free is granted.
Spec == /\ Init /\ [][Next]_vars
        /\ \A m \in Migrators : SF_vars(MigratorStep(m))
        /\ \A w \in Writers : SF_vars(WriterStep(w))

-----------------------------------------------------------------------------
(* Properties.                                                             *)

\* No older process commits a duplicate between the duplicate check and CREATE UNIQUE
\* INDEX: the migration refuses with the duplicates it found, never by colliding.  From
\* the unique index on, no two actors share an email.
CheckHolds ==
  /\ \A m \in Migrators : migrator[m] # "collided"
  /\ index = "unique" => Duplicates = {}

\* Migrators and writers never wait for each other in a cycle: taking the strongest
\* lock first leaves no upgrade to deadlock on.
EveryoneFinishes ==
  /\ \A m \in Migrators : <>(migrator[m] \in MigrationEnds)
  /\ \A w \in Writers : writer[w].pc = "begin" ~> writer[w].pc \in {"added", "taken"}

=============================================================================
