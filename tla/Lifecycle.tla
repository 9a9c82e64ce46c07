----------------------------- MODULE Lifecycle -----------------------------
(***************************************************************************)
(* One process from start! (server.cljs) to exit: schema initialization on *)
(* its own pool, the OIDC mount, listening, and the signal handler of      *)
(* extern/lifecycle.cljs that closes app, schema pool and runtime pool in  *)
(* that order.  JavaScript runs to its next await without interruption, so *)
(* a signal falls between two actions here.                                *)
(***************************************************************************)
EXTENDS Naturals, Sequences

CONSTANTS
  Script,        \* kinds of the schema statements: "plain", "begin", "work", "commit"
  Connections,   \* HTTP connections
  MaxRequests    \* bound of the model: requests answered

LifecycleConstants ==
  /\ Script \in Seq({"plain", "begin", "work", "commit"})
  /\ MaxRequests \in Nat

VARIABLES
  stopping,   \* controller :stopping?
  app,        \* controller :app, "none" or "attached"; then "closed" by Fastify
  boot,       \* start!: where it is, and in which statement of the script
  stop,       \* stop!: the promise chain of the signal handler
  schemaPool, runtimePool,
  closing,    \* controller :startup-close: has end been called on the schema pool
  server,     \* the listening socket
  conn,       \* HTTP connections
  exitCode,   \* process.exitCode
  process,
  answered,   \* history: requests answered
  late        \* history: schema statements issued or in flight since the signal

vars == <<stopping, app, boot, stop, schemaPool, runtimePool, closing, server, conn,
          exitCode, process, answered, late>>

TypeOK ==
  /\ stopping \in BOOLEAN /\ closing \in BOOLEAN
  /\ app \in {"none", "attached", "closed"}
  /\ boot \in [pc : {"schema", "issued", "rollback", "closing", "enabling", "opening",
                     "up", "interrupted"}, at : 1..(Len(Script) + 1)]
  /\ stop \in [pc : {"off", "app", "startup", "pool", "done"}, app : {"none", "attached"}]
  /\ {schemaPool, runtimePool} \subseteq {"open", "ended"}
  /\ server \in {"shut", "opening", "listening"}
  /\ conn \in [Connections -> {"none", "busy", "idle"}]
  /\ exitCode \in {0, 1} /\ process \in {"running", "clean", "failed"}
  /\ answered \in 0..MaxRequests /\ late \in Nat

Init ==
  /\ stopping = FALSE /\ closing = FALSE /\ app = "none"
  /\ boot = [pc |-> "schema", at |-> 1]
  /\ stop = [pc |-> "off", app |-> "none"]
  /\ schemaPool = "open" /\ runtimePool = "open"
  /\ server = "shut" /\ conn = [c \in Connections |-> "none"]
  /\ exitCode = 0 /\ process = "running"
  /\ answered = 0 /\ late = 0

Running == process = "running"
Boot(pc) == boot' = [boot EXCEPT !.pc = pc]
Stop(pc) == stop' = [stop EXCEPT !.pc = pc]
HttpSame == UNCHANGED <<server, conn, answered>>
PoolSame == UNCHANGED <<schemaPool, runtimePool, closing>>
StopSame == UNCHANGED <<stopping, stop, exitCode>>

-----------------------------------------------------------------------------
(* start!                                                                  *)

\* What the code reads wherever it asks (stopping?).
Interrupted == stopping

\* Has a transaction been opened before statement i and not yet committed?
InTransaction(i) ==
  \E b \in 1..(i - 1) : Script[b] = "begin" /\ \A c \in b..(i - 1) : Script[c] # "commit"

\* The next statement is issued unless a shutdown was observed; inside a
\* transaction the refusal is followed by ROLLBACK.
Issue ==
  /\ Running /\ boot.pc = "schema" /\ boot.at <= Len(Script)
  /\ IF Interrupted
       THEN /\ Boot(IF InTransaction(boot.at) THEN "rollback" ELSE "interrupted")
            /\ late' = late + (IF InTransaction(boot.at) THEN 1 ELSE 0)
       ELSE /\ Boot("issued")
            /\ late' = IF stopping THEN late + 1 ELSE late
  /\ UNCHANGED app /\ StopSame /\ PoolSame /\ HttpSame /\ UNCHANGED process

Answered ==
  /\ Running /\ boot.pc = "issued"
  /\ boot' = [pc |-> "schema", at |-> boot.at + 1]
  /\ UNCHANGED <<app, process, late>> /\ StopSame /\ PoolSame /\ HttpSame

\* A startup that failed ends the process, unless it is being stopped anyway.
GiveUp ==
  IF stopping THEN Boot("interrupted") /\ server' = "shut" /\ UNCHANGED process
              ELSE process' = "failed" /\ UNCHANGED <<boot, server>>

\* Answered or failed, ROLLBACK is followed by the error that led to it.
RolledBack ==
  /\ Running /\ boot.pc = "rollback" /\ GiveUp
  /\ UNCHANGED <<app, conn, answered, late>> /\ StopSame /\ PoolSame

\* A statement that fails inside a transaction is followed by ROLLBACK first.
BootFails ==
  /\ Running /\ boot.pc \in {"issued", "closing", "enabling", "opening"}
  /\ IF boot.pc = "issued" /\ InTransaction(boot.at)
       THEN /\ Boot("rollback") /\ UNCHANGED <<server, process>>
            /\ late' = IF stopping THEN late + 1 ELSE late
       ELSE GiveUp /\ UNCHANGED late
  /\ UNCHANGED <<app, conn, answered>> /\ StopSame /\ PoolSame

\* close-startup!: whoever comes first calls end, everybody awaits the same promise.
AskClose == closing' = TRUE
BootCloses ==
  /\ Running /\ boot.pc = "schema" /\ boot.at > Len(Script)
  /\ Boot("closing") /\ AskClose
  /\ UNCHANGED <<app, process, late, schemaPool, runtimePool>> /\ StopSame /\ HttpSame

\* The pool ends when no statement or transaction holds its one client.
ClientHeld == \/ boot.pc \in {"issued", "rollback"}
              \/ boot.pc = "schema" /\ InTransaction(boot.at)
SchemaPoolEnds ==
  /\ Running /\ closing /\ schemaPool = "open" /\ ~ClientHeld
  /\ schemaPool' = "ended"
  /\ UNCHANGED <<app, boot, process, late, runtimePool, closing>> /\ StopSame /\ HttpSame

\* The app is created and attached in one run of the event loop, before oidc/enable!.
Attach ==
  /\ Running /\ boot.pc = "closing" /\ schemaPool = "ended"
  /\ IF Interrupted THEN Boot("interrupted") /\ UNCHANGED app
                    ELSE Boot("enabling") /\ app' = "attached"
  /\ UNCHANGED <<process, late>> /\ StopSame /\ PoolSame /\ HttpSame

Listen ==
  /\ Running /\ boot.pc = "enabling"
  /\ IF Interrupted THEN Boot("interrupted") /\ UNCHANGED server
                    ELSE Boot("opening") /\ server' = "opening"
  /\ UNCHANGED <<app, process, conn, answered, late>> /\ StopSame /\ PoolSame

Opened ==
  /\ Running /\ boot.pc = "opening"
  /\ Boot("up") /\ server' = IF stop.pc = "off" THEN "listening" ELSE "shut"
  /\ UNCHANGED <<app, process, conn, answered, late>> /\ StopSame /\ PoolSame

-----------------------------------------------------------------------------
(* HTTP.                                                                   *)

\* A connection is accepted, or a kept-alive one brings another request.
Request(c) ==
  /\ Running /\ server = "listening" /\ conn[c] # "busy" /\ answered < MaxRequests
  /\ conn' = [conn EXCEPT ![c] = "busy"]
  /\ UNCHANGED <<app, boot, process, server, answered, late>> /\ StopSame /\ PoolSame

Respond(c) ==
  /\ Running /\ conn[c] = "busy"
  /\ conn' = [conn EXCEPT ![c] = "idle"]
  /\ answered' = IF answered < MaxRequests THEN answered + 1 ELSE answered
  /\ UNCHANGED <<app, boot, process, server, late>> /\ StopSame /\ PoolSame

-----------------------------------------------------------------------------
(* stop!                                                                   *)

SignalledCodeUnset == exitCode
SignalledCode == 1
\* The first SIGTERM or SIGINT; later ones lose the compare-and-set.
Signal ==
  /\ Running /\ ~stopping
  /\ stopping' = TRUE /\ exitCode' = SignalledCode
  /\ stop' = [pc |-> "app", app |-> IF app = "attached" THEN "attached" ELSE "none"]
  /\ server' = IF app = "attached" /\ server = "listening" THEN "shut" ELSE server
  /\ late' = IF boot.pc \in {"issued", "rollback"} THEN 1 ELSE 0
  /\ UNCHANGED <<app, boot, process, conn, answered>> /\ PoolSame

\* The idle sweep closes kept-alive connections every 100 ms.
SweepIdle ==
  /\ Running /\ stop.pc \in {"app", "startup", "pool"} /\ stop.app = "attached"
  /\ \E c \in Connections : conn[c] = "idle"
  /\ conn' = [c \in Connections |-> IF conn[c] = "idle" THEN "none" ELSE conn[c]]
  /\ UNCHANGED <<app, boot, process, server, answered, late>> /\ StopSame /\ PoolSame

\* app.close resolves once no connection is left and no listen is under way.
Drained == server # "opening" /\ \A c \in Connections : conn[c] = "none"
AppClosed == stop.app = "attached" => Drained
CloseApp ==
  /\ Running /\ stop.pc = "app" /\ AppClosed
  /\ Stop("startup")
  /\ app' = IF stop.app = "attached" THEN "closed" ELSE app
  /\ AskClose
  /\ UNCHANGED <<stopping, exitCode, boot, process, schemaPool, runtimePool, late>> /\ HttpSame

CloseStartup ==
  /\ Running /\ stop.pc = "startup" /\ schemaPool = "ended"
  /\ Stop("pool")
  /\ UNCHANGED <<stopping, exitCode, app, boot, process, late>> /\ PoolSame /\ HttpSame

\* pool.end of the runtime pool, then exitCode 0.
EndPool ==
  /\ Running /\ stop.pc = "pool"
  /\ Stop("done") /\ runtimePool' = "ended" /\ exitCode' = 0
  /\ UNCHANGED <<stopping, app, boot, process, schemaPool, closing, late>> /\ HttpSame

\* A close rejects, or the deadline fires: process.exit 1.
StopFails ==
  /\ Running /\ stop.pc \in {"app", "startup", "pool"}
  /\ process' = "failed"
  /\ UNCHANGED <<app, boot, late>> /\ StopSame /\ PoolSame /\ HttpSame
DeadlineCleared == FALSE
DeadlineArmed == stop.pc # "off"
Deadline ==
  /\ Running /\ DeadlineArmed
  /\ process' = "failed"
  /\ UNCHANGED <<app, boot, late>> /\ StopSame /\ PoolSame /\ HttpSame

\* Nothing keeps the event loop alive: the process ends with its exit code, also when
\* a close hangs without a socket and idle clients have timed out.  The sweep's
\* interval keeps it alive as long as an app is being closed.
Exit ==
  /\ Running /\ server = "shut" /\ \A c \in Connections : conn[c] = "none"
  /\ stop.pc # "off" /\ boot.pc \in {"interrupted", "up"}
  /\ stop.pc = "done" \/ stop.app = "none"
  /\ process' = IF exitCode = 0 THEN "clean" ELSE "failed"
  /\ UNCHANGED <<app, boot, late>> /\ StopSame /\ PoolSame /\ HttpSame

Next ==
  \/ Issue \/ Answered \/ RolledBack \/ BootFails \/ BootCloses \/ SchemaPoolEnds
  \/ Attach \/ Listen \/ Opened
  \/ \E c \in Connections : Request(c) \/ Respond(c)
  \/ Signal \/ SweepIdle \/ CloseApp \/ CloseStartup \/ EndPool \/ StopFails
  \/ Deadline \/ Exit

\* The deadline timer fires, and a loop with nothing to do ends; no database answer,
\* request or close is promised.
Fairness == WF_vars(Deadline) /\ WF_vars(Exit)
Spec == Init /\ [][Next]_vars /\ Fairness

-----------------------------------------------------------------------------
(* Properties.                                                             *)

\* Exit code 0 means what an orchestrator takes it to mean: every request answered,
\* both pools ended, no schema statement cut off.  After the signal at most the
\* statement in flight and one ROLLBACK run, which is what shutdown-bound-ms allows
\* time for.
CleanExit ==
  /\ process = "clean" =>
       /\ schemaPool = "ended" /\ runtimePool = "ended"
       /\ server = "shut" /\ \A c \in Connections : conn[c] # "busy"
       /\ boot.pc \notin {"issued", "rollback"}
  /\ late <= 2

\* A signalled process ends, even when a request or a close never does.
ShutsDown == stopping ~> process # "running"

=============================================================================
