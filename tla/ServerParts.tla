---------------------------- MODULE ServerParts ----------------------------
(***************************************************************************)
(* Three small parts of a server process that share no state, side by      *)
(* side: Init chooses the part that runs, the others keep their initial    *)
(* states.                                                                 *)
(***************************************************************************)
EXTENDS Naturals, Sequences

CONSTANTS
  Script, Connections, MaxRequests,
  Callers, Keys, NoKey, MaxCalls,
  Migrators, Writers, OldRows, Emails, None

VARIABLES
  part,
  stopping, app, boot, stop, schemaPool, runtimePool, closing, server, conn, exitCode,
  process, answered, late,
  locks, drained, calls, call,
  index, email, lock, migrator, writer

Process == INSTANCE Lifecycle
OAuth   == INSTANCE OAuthLock
Index   == INSTANCE EmailIndexMigration

ASSUME PartConstants ==
  Process!LifecycleConstants /\ OAuth!LockConstants /\ Index!MigrationConstants

processVars == <<stopping, app, boot, stop, schemaPool, runtimePool, closing, server, conn,
                 exitCode, process, answered, late>>
oauthVars == <<locks, drained, calls, call>>
indexVars == <<index, email, lock, migrator, writer>>
vars == <<part, processVars, oauthVars, indexVars>>

Init ==
  /\ part \in {"process", "oauth", "index"}
  /\ Process!Init /\ OAuth!Init /\ Index!Init
  /\ part # "index" => index = "absent" /\ \A r \in OldRows : email[r] = None

ProcessStep == part = "process" /\ Process!Next /\ UNCHANGED <<part, oauthVars, indexVars>>
OAuthStep   == part = "oauth" /\ OAuth!Next /\ UNCHANGED <<part, processVars, indexVars>>
IndexStep   == part = "index" /\ Index!Next /\ UNCHANGED <<part, processVars, oauthVars>>

Next == ProcessStep \/ OAuthStep \/ IndexStep

\* Each part's own fairness; only a migrator can move in its initial state, so the
\* fairness of that part is stated for the runs in which it is the one that moves.
Spec ==
  /\ Init /\ [][Next]_vars
  /\ Process!Fairness /\ OAuth!Fairness
  /\ \A m \in Migrators : SF_indexVars(part = "index" /\ Index!MigratorStep(m))
  /\ \A w \in Writers : SF_indexVars(part = "index" /\ Index!WriterStep(w))

-----------------------------------------------------------------------------
(* The parts' properties, as their modules state them.                     *)

\* Exit code 0 only after everything is closed, and little is issued after the signal
\* (Lifecycle).
CleanExit == Process!CleanExit
\* A signalled process ends (Lifecycle).
ShutsDown == Process!ShutsDown
\* The chain of promises is a first-come first-served lock (OAuthLock).
ImplementsFifoLock == OAuth!ImplementsFifoLock
\* If every operation settles, every caller gets to run its own (OAuthLock).
EveryCallerRuns == OAuth!EveryCallerRuns
\* The migration refuses with the duplicates it found, never by colliding, and no two
\* actors share an email from the unique index on (EmailIndexMigration).
CheckHolds == Index!CheckHolds
\* Migrators and writers never wait for each other in a cycle (EmailIndexMigration).
EveryoneFinishes == part = "index" => Index!EveryoneFinishes

=============================================================================
