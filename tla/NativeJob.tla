----------------------------- MODULE NativeJob -----------------------------
(***************************************************************************)
(* One partition run by qualification/native_campaign_job.py on a CI       *)
(* runner: the controller prepares a worker, starts the campaign as a      *)
(* systemd unit that waits at a gate until its resource caps are verified, *)
(* watches the report, asks it to stop once there is enough evidence,      *)
(* collects, and whatever happened preserves what there is.  The unit runs *)
(* at its own pace, is stopped by its caps at any time, and may leave      *)
(* processes in its control group; the controller may be cancelled.  The   *)
(* campaign is MutationCampaign seen from outside: its lock, logs, report. *)
(***************************************************************************)
EXTENDS Naturals

CONSTANTS
  Required,    \* REQUIRED_KILLS, 250
  MaxRows,     \* candidates of the partition
  MaxChanges   \* bound of the model: changes of what GitHub says of the adoption

ASSUME JobConstants == {Required, MaxRows, MaxChanges} \subseteq Nat /\ Required > 0

VARIABLES
  job,       \* the controller
  preserved, \* preserve: errors, and what it knows when it takes the snapshot
  worker,    \* the worker directory: "none", "cloned", "ready"
  unit,      \* "absent", "gate", "python" (signal handlers not yet set), "campaign", "ended"
  capped,    \* does the unit run under the caps that were asked for
  remains,   \* processes in the control group of an ended unit
  gate,      \* .native-launch-ready
  campaignLock, \* .campaign.lock: "none", "held" or "free"
  stopAsked, \* STOP_REQUESTED of the campaign
  logs,      \* rows whose logs are written
  report,    \* report.json, replaced in one step
  adoption,  \* what verify_adoption finds
  files,     \* evidence directory: names of the files written
  batch,     \* partition.json: the report it was collected from, and the adoption
  archive    \* raw-evidence.tar and its status: logs and report as they were read

unitVars == <<unit, capped, remains, gate, campaignLock, stopAsked, logs, report>>
outVars  == <<files, batch, archive>>
jobVars  == <<job, preserved, worker, unitVars, adoption, outVars>>

NoReport == [rows |-> 0, kills |-> 0, terminal |-> "none"]
NoBatch  == [report |-> NoReport, adoption |-> 0]
NoArchive == [status |-> "none", logs |-> 0, report |-> NoReport]
Reports  == [rows : 0..MaxRows, kills : 0..MaxRows,
             terminal : {"none", "running", "aborted", "clean_partial", "complete"}]
Ends     == {"passed", "failed", "cancelled"}

Steps == {"adopt", "clone", "inputs", "launch", "verify", "open", "look", "progress", "ask",
          "kill", "close", "terminal", "collect", "readopt", "stop", "closure", "journal",
          "snapshot", "logs", "report", "manifest", "end"}

TypeOK ==
  /\ job \in [pc : Steps \union Ends, caps : BOOLEAN, signalled : BOOLEAN, raised : BOOLEAN,
              adopted : 0..MaxChanges, seen : Reports, batch : Reports]
  /\ preserved \in [errors : SUBSET {"closure", "journal", "lock", "snapshot"},
                    verified : BOOLEAN, quiet : BOOLEAN]
  /\ worker \in {"none", "cloned", "ready"}
  /\ unit \in {"absent", "gate", "python", "campaign", "ended"}
  /\ {capped, remains, gate, stopAsked} \subseteq BOOLEAN
  /\ campaignLock \in {"none", "held", "free"} /\ logs \in 0..MaxRows /\ report \in Reports
  /\ adoption \in 0..MaxChanges
  /\ files \subseteq {"refusal", "partition", "closure", "closure-refusal", "journal",
                      "journal-refusal", "snapshot-refusal", "manifest"}
  /\ batch \in [report : Reports, adoption : 0..MaxChanges]
  /\ archive \in [status : {"none", "open", "complete", "unqualified"}, logs : 0..MaxRows,
                  report : Reports]

JobInit ==
  /\ job = [pc |-> "adopt", caps |-> FALSE, signalled |-> FALSE, raised |-> FALSE,
            adopted |-> 0, seen |-> NoReport, batch |-> NoReport]
  /\ preserved = [errors |-> {}, verified |-> FALSE, quiet |-> FALSE]
  /\ worker = "none" /\ unit = "absent" /\ capped \in BOOLEAN /\ remains = FALSE
  /\ gate = FALSE /\ campaignLock = "none" /\ stopAsked = FALSE /\ logs = 0 /\ report = NoReport
  /\ adoption = 0 /\ files = {} /\ batch = NoBatch /\ archive = NoArchive

Active   == unit \in {"gate", "python", "campaign"}
At(pc)   == job.pc = pc
To(pc)   == job' = [job EXCEPT !.pc = pc]
Write(f) == files' = files \union {f}
\* main: any exception of execute is recorded, then preserve runs.
Raise    == job' = [job EXCEPT !.pc = "stop", !.raised = TRUE] /\ Write("refusal")
Quiet    == UNCHANGED files

-----------------------------------------------------------------------------
(* execute: preparation and the gate.                                      *)

\* context and verify_adoption; a refusal here leaves nothing behind.
Adopt ==
  /\ At("adopt")
  /\ \/ job' = [job EXCEPT !.pc = "clone", !.adopted = adoption]
     \/ To("failed")
  /\ UNCHANGED <<preserved, worker, unitVars, adoption, outVars>>

\* Clone and checkout; then dependencies, harness, producer and selection.  Every
\* subprocess and every check may fail.
Prepare ==
  /\ \/ At("clone") /\ worker' = "cloned" /\ To("inputs") /\ Quiet
     \/ At("inputs") /\ worker' = "ready" /\ To("launch") /\ Quiet
     \/ job.pc \in {"clone", "inputs"} /\ worker' \in {worker, "cloned"} /\ Raise
  /\ UNCHANGED <<preserved, unitVars, adoption, batch, archive>>

Launch ==
  /\ At("launch")
  /\ \/ unit' = "gate" /\ To("verify") /\ Quiet
     \/ UNCHANGED unit /\ Raise
  /\ UNCHANGED <<preserved, worker, capped, remains, gate, campaignLock, stopAsked, logs, report,
                 adoption, batch, archive>>

\* active_caps: unit properties, cgroup files, command, directory and environment.
CapsUnread == unit = "gate"
CapsVerified == unit = "gate" /\ capped
Verify ==
  /\ At("verify")
  /\ IF CapsVerified THEN job' = [job EXCEPT !.pc = "open", !.caps = TRUE] /\ Quiet ELSE Raise
  /\ UNCHANGED <<preserved, worker, unitVars, adoption, batch, archive>>

OpenGate ==
  /\ At("open") /\ gate' = TRUE /\ To("look")
  /\ UNCHANGED <<preserved, worker, unit, capped, remains, campaignLock, stopAsked, logs, report,
                 adoption, outVars>>

-----------------------------------------------------------------------------
(* execute: the monitor.                                                   *)

Look ==
  /\ At("look") /\ To(IF Active THEN "progress" ELSE "close")
  /\ UNCHANGED <<preserved, worker, unitVars, adoption, outVars>>

\* progress rehashes and reclassifies every row of a saved report, and refuses one that
\* differs (Verdicts: an honest campaign's rows do not).
Progress ==
  /\ At("progress")
  /\ \/ job' = [job EXCEPT !.pc = "ask", !.seen = report] /\ Quiet
     \/ Raise
  /\ UNCHANGED <<preserved, worker, unitVars, adoption, batch, archive>>

\* One SIGUSR1, for enough eligible kills, for time or for disk; the process signalled
\* has to be the campaign.
Ask ==
  /\ At("ask")
  /\ \E bound \in BOOLEAN :
       IF ~job.signalled /\ (job.seen.kills >= Required \/ bound)
         THEN IF unit \in {"python", "campaign"} THEN To("kill") /\ Quiet ELSE Raise
         ELSE To("look") /\ Quiet
  /\ UNCHANGED <<preserved, worker, unitVars, adoption, batch, archive>>

EndUnit ==
  /\ unit' = "ended" /\ remains' \in BOOLEAN
  /\ campaignLock' = IF campaignLock = "held" THEN "free" ELSE campaignLock

\* Before the campaign has set its handler the signal ends it.
Kill ==
  /\ At("kill")
  /\ CASE unit = "campaign" -> stopAsked' = TRUE /\ UNCHANGED <<unit, remains, campaignLock>>
       [] unit = "python"   -> EndUnit /\ UNCHANGED stopAsked
       [] OTHER             -> UNCHANGED <<unit, remains, campaignLock, stopAsked>>
  /\ IF unit \in {"python", "campaign"}
       THEN job' = [job EXCEPT !.pc = "look", !.signalled = TRUE] /\ Quiet
       ELSE Raise
  /\ UNCHANGED <<preserved, worker, capped, gate, logs, report, adoption, batch, archive>>

\* closed, bound to the verified invocation.
Closed == unit = "ended" /\ ~remains
Close ==
  /\ At("close")
  /\ IF Closed THEN To("terminal") /\ Quiet ELSE Raise
  /\ UNCHANGED <<preserved, worker, unitVars, adoption, batch, archive>>

\* The report once more, native-terminal.json, and whether there is anything to collect.
EnoughSeen(r) == r.kills >= Required
Enough(r) == r.terminal \in {"clean_partial", "complete"} /\ r.kills >= Required
Terminal ==
  /\ At("terminal")
  /\ IF Enough(report) THEN job' = [job EXCEPT !.pc = "collect", !.seen = report] /\ Quiet
                       ELSE Raise
  /\ UNCHANGED <<preserved, worker, unitVars, adoption, batch, archive>>

\* collect_batch under a shared lease; any of its requirements may refuse.
Collect ==
  /\ At("collect")
  /\ \/ /\ campaignLock = "free" /\ Closed
        /\ job' = [job EXCEPT !.pc = "readopt", !.batch = report] /\ Quiet
     \/ Raise
  /\ UNCHANGED <<preserved, worker, unitVars, adoption, batch, archive>>

AdoptionHolds == adoption = job.adopted
Readopt ==
  /\ At("readopt")
  /\ IF AdoptionHolds
       THEN /\ batch' = [report |-> job.batch, adoption |-> adoption]
            /\ Write("partition") /\ To("stop")
       ELSE Raise /\ UNCHANGED batch
  /\ UNCHANGED <<preserved, worker, unitVars, adoption, archive>>

-----------------------------------------------------------------------------
(* preserve: every stage is attempted, whatever the one before came to.    *)

Failing(stage) == preserved' = [preserved EXCEPT !.errors = @ \union {stage}]

\* systemctl stop, when the unit is still active; observing or stopping it may fail.
Stop ==
  /\ At("stop")
  /\ \/ /\ IF Active THEN EndUnit ELSE UNCHANGED <<unit, remains, campaignLock>>
        /\ To("closure") /\ Quiet /\ UNCHANGED preserved
     \/ /\ UNCHANGED <<unit, remains, campaignLock>>
        /\ To("journal") /\ Write("closure-refusal") /\ Failing("closure")
  /\ UNCHANGED <<worker, capped, gate, stopAsked, logs, report, adoption, batch, archive>>

\* Without a verified invocation there is nothing to bind a closure to.
VerifiedFirst(refused) == job.caps
Verified(refused) == job.caps /\ ~refused
Closure ==
  LET refused == job.caps /\ ~Closed IN
  /\ At("closure") /\ To("journal")
  /\ Write(IF refused THEN "closure-refusal" ELSE "closure")
  /\ preserved' = [preserved EXCEPT !.verified = Verified(refused),
                     !.errors = IF refused THEN @ \union {"closure"} ELSE @]
  /\ UNCHANGED <<worker, unitVars, adoption, batch, archive>>

Journal ==
  /\ At("journal") /\ To("snapshot")
  /\ \/ Write("journal") /\ UNCHANGED preserved
     \/ Write("journal-refusal") /\ Failing("journal")
  /\ UNCHANGED <<worker, unitVars, adoption, batch, archive>>

\* With the lock file there, the snapshot is taken under a lease, or marked as taken
\* while a campaign held it.
Snapshot ==
  /\ At("snapshot")
  /\ IF worker = "none"
       THEN To("end") /\ UNCHANGED <<preserved, archive>>
       ELSE /\ To("logs") /\ archive' = [NoArchive EXCEPT !.status = "open"]
            /\ preserved' = [preserved EXCEPT
                 !.errors = IF campaignLock = "held" THEN @ \union {"lock"} ELSE @,
                 !.quiet = campaignLock = "free" /\ preserved.verified]
  /\ UNCHANGED <<worker, unitVars, adoption, files, batch>>

\* The archive is read file by file, logs before the report that names them.
Read ==
  /\ \/ At("logs") /\ archive' = [archive EXCEPT !.logs = logs] /\ To("report")
     \/ At("report") /\ archive' = [archive EXCEPT !.report = report] /\ To("manifest")
  /\ UNCHANGED <<preserved, worker, unitVars, adoption, files, batch>>

SnapshotError == Failing("snapshot")
Manifest ==
  /\ At("manifest") /\ Write("manifest") /\ To("end")
  /\ archive' = [archive EXCEPT !.status = IF preserved.quiet THEN "complete" ELSE "unqualified"]
  /\ UNCHANGED <<preserved, worker, unitVars, adoption, batch>>
SnapshotFails ==
  /\ job.pc \in {"logs", "report", "manifest"}
  /\ SnapshotError /\ Write("snapshot-refusal") /\ To("end")
  /\ UNCHANGED <<worker, unitVars, adoption, batch, archive>>

End ==
  /\ At("end")
  /\ To(IF job.raised \/ preserved.errors # {} THEN "failed" ELSE "passed")
  /\ UNCHANGED <<preserved, worker, unitVars, adoption, outVars>>

-----------------------------------------------------------------------------
(* The unit, GitHub and the runner.                                        *)

UnitAlone == UNCHANGED <<job, preserved, worker, capped, gate, adoption, outVars>>

\* The gate's shell execs the campaign, which sets its handlers and takes the lock.
Exec ==
  /\ \/ unit = "gate" /\ gate /\ unit' = "python" /\ UNCHANGED campaignLock
     \/ unit = "python" /\ unit' = "campaign" /\ campaignLock' = "held"
  /\ UNCHANGED <<remains, stopAsked, logs, report>> /\ UnitAlone

Working == unit = "campaign" /\ report.terminal \in {"none", "running"}

\* Baselines, then a row: its logs, then the report.
Baselines ==
  /\ Working /\ report.terminal = "none"
  /\ report' = [report EXCEPT !.terminal = "running"]
  /\ UNCHANGED <<unit, remains, campaignLock, stopAsked, logs>> /\ UnitAlone
Log ==
  /\ Working /\ report.terminal = "running" /\ ~stopAsked
  /\ logs = report.rows /\ logs < MaxRows
  /\ logs' = logs + 1
  /\ UNCHANGED <<unit, remains, campaignLock, stopAsked, report>> /\ UnitAlone
Record ==
  /\ Working /\ logs > report.rows
  /\ \E kill \in 0..1, t \in {"running", "aborted"} :
       report' = [rows |-> report.rows + 1, kills |-> report.kills + kill, terminal |-> t]
  /\ UNCHANGED <<unit, remains, campaignLock, stopAsked, logs>> /\ UnitAlone

\* The restored baseline passed.
Finish ==
  /\ Working /\ report.terminal = "running" /\ logs = report.rows
  /\ stopAsked \/ report.rows = MaxRows
  /\ report' = [report EXCEPT !.terminal = IF report.rows = MaxRows THEN "complete"
                                           ELSE "clean_partial"]
  /\ UNCHANGED <<unit, remains, campaignLock, stopAsked, logs>> /\ UnitAlone

\* The campaign exits, fails or is stopped by a cap, at any time.
UnitEnds ==
  /\ Active /\ EndUnit
  /\ UNCHANGED <<stopAsked, logs, report>> /\ UnitAlone
RuntimeUnbounded == FALSE
RuntimeBound == Active
RuntimeMax ==
  /\ RuntimeBound /\ EndUnit
  /\ UNCHANGED <<stopAsked, logs, report>> /\ UnitAlone

\* Processes left in the control group go, or never do.
RemainsGo ==
  /\ remains /\ remains' = FALSE
  /\ UNCHANGED <<unit, campaignLock, stopAsked, logs, report>> /\ UnitAlone

\* A pull request, branch or revision is seen differently from now on.
AdoptionChanges ==
  /\ adoption < MaxChanges /\ adoption' = adoption + 1
  /\ UNCHANGED <<job, preserved, worker, unitVars, outVars>>

\* The runner is lost or the job cancelled: no finally runs.
Cancel ==
  /\ job.pc \notin Ends /\ To("cancelled")
  /\ UNCHANGED <<preserved, worker, unitVars, adoption, outVars>>

Controller ==
  \/ Adopt \/ Prepare \/ Launch \/ Verify \/ OpenGate
  \/ Look \/ Progress \/ Ask \/ Kill \/ Close \/ Terminal \/ Collect \/ Readopt
  \/ Stop \/ Closure \/ Journal \/ Snapshot \/ Read \/ Manifest \/ SnapshotFails \/ End

JobNext ==
  \/ Controller
  \/ Exec \/ Baselines \/ Log \/ Record \/ Finish \/ UnitEnds \/ RuntimeMax \/ RemainsGo
  \/ AdoptionChanges \/ Cancel

\* The controller's calls return or time out, and systemd enforces RuntimeMaxSec; nothing
\* is assumed of the campaign.
JobSpec == JobInit /\ [][JobNext]_jobVars /\ WF_jobVars(Controller) /\ WF_jobVars(RuntimeMax)

-----------------------------------------------------------------------------
(* Properties.                                                             *)

\* Nothing is compiled, mutated or tested outside the verified resource caps.
NothingUncapped == unit \in {"python", "campaign"} \/ logs > 0 => capped

\* partition.json holds what the campaign's last report says after a clean end, of a unit
\* that is gone with all its processes, under the adoption verified at the start.
CreditEarned ==
  "partition" \in files =>
    /\ batch.report = report /\ logs = report.rows /\ report.kills >= Required
    /\ report.terminal = (IF report.rows = MaxRows THEN "complete" ELSE "clean_partial")
    /\ unit = "ended" /\ ~remains
    /\ batch.adoption = job.adopted

\* A snapshot called complete is whole and final: every row of the report has its logs in
\* it, and nothing is left that could still write.  A job that passes has left one.
CompleteIsWhole ==
  /\ archive.status = "complete" =>
       /\ archive.report = report /\ archive.logs = logs
       /\ unit = "ended" /\ ~remains /\ campaignLock # "held"
  /\ job.pc = "passed" => "partition" \in files /\ archive.status = "complete"

\* The job ends, and no campaign outlives it for ever, even when it hangs, ignores the
\* request to stop, or its controller is cancelled.
JobEnds == <>(job.pc \in Ends) /\ <>[]~Active

=============================================================================
