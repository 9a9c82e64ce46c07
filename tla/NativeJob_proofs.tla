-------------------------- MODULE NativeJob_proofs --------------------------
(***************************************************************************)
(* Proofs about NativeJob for every number of candidates and of required   *)
(* kills: what the controller may rely on at each of its steps, while the  *)
(* unit runs at its own pace and ends at any time.                         *)
(***************************************************************************)
EXTENDS NativeJob, TLAPS

Preparing  == {"adopt", "clone", "inputs", "launch"}
Monitoring == {"open", "look", "progress", "ask", "kill", "close", "terminal", "collect", "readopt"}
Preserving == {"stop", "closure", "journal", "snapshot", "logs", "report", "manifest", "end"}

\* The campaign holds its lock, runs behind an opened gate, and writes a row's logs
\* before the row, one row at a time.
UnitSound ==
  /\ unit = "campaign" <=> campaignLock = "held"
  /\ gate => capped
  /\ unit \in {"python", "campaign"} \/ logs > 0 => gate
  /\ remains => unit = "ended"
  /\ logs = report.rows \/ (logs = report.rows + 1 /\ report.terminal = "running")
  /\ report.kills <= report.rows
  /\ report.terminal = "complete" => report.rows = MaxRows
  /\ report.terminal = "clean_partial" => report.rows # MaxRows

\* What has been established by the time the controller is at a step.
JobSound ==
  /\ job.pc \in Preparing => unit = "absent" /\ "partition" \notin files
  /\ job.caps => capped
  /\ job.pc \in Monitoring => job.caps
  /\ job.pc \in Monitoring \union {"launch", "verify"} => worker = "ready"
  /\ job.pc \in {"terminal", "collect", "readopt"} => Closed
  /\ job.pc \in {"collect", "readopt"} => Enough(report)
  /\ job.pc = "readopt" => job.batch = report /\ campaignLock = "free"
  /\ job.pc \in Preserving => job.raised \/ "partition" \in files

PartitionSound ==
  "partition" \in files =>
    /\ job.caps /\ worker = "ready" /\ campaignLock = "free" /\ Closed /\ Enough(report)
    /\ batch.report = report /\ batch.adoption = job.adopted

\* A snapshot taken of a verified, closed unit stays true as it is read.
ArchiveSound ==
  /\ preserved.verified => job.caps /\ Closed
  /\ preserved.quiet => preserved.verified
  /\ job.pc \in {"journal", "snapshot", "logs", "report", "manifest", "end"} /\ job.caps =>
       preserved.verified \/ "closure" \in preserved.errors
  /\ job.pc \in {"logs", "report", "manifest"} /\ "partition" \in files /\ preserved.errors = {} =>
       preserved.quiet
  /\ job.pc \in {"report", "manifest"} /\ preserved.quiet => archive.logs = logs
  /\ job.pc = "manifest" /\ preserved.quiet => archive.report = report
  /\ archive.status = "complete" => archive.logs = logs /\ archive.report = report /\ Closed
  /\ job.pc = "end" /\ ~job.raised /\ preserved.errors = {} => archive.status = "complete"
  /\ job.pc = "passed" => "partition" \in files /\ archive.status = "complete"

JobInv == TypeOK /\ UnitSound /\ JobSound /\ PartitionSound /\ ArchiveSound

JobRow  == [pc : Steps \union Ends, caps : BOOLEAN, signalled : BOOLEAN, raised : BOOLEAN,
            adopted : 0..MaxChanges, seen : Reports, batch : Reports]
Stages  == {"closure", "journal", "lock", "snapshot"}
KeepRow == [errors : SUBSET Stages, verified : BOOLEAN, quiet : BOOLEAN]
Names   == {"refusal", "partition", "closure", "closure-refusal", "journal",
            "journal-refusal", "snapshot-refusal", "manifest"}

LEMMA BoundsAreNatural == Required \in Nat /\ MaxRows \in Nat /\ MaxChanges \in Nat /\ Required > 0
BY JobConstants

LEMMA NoReportIsAReport == NoReport \in Reports
BY BoundsAreNatural DEF NoReport, Reports

LEMMA JobStarts == JobInit => JobInv
  <1>. SUFFICES ASSUME JobInit PROVE JobInv
    OBVIOUS
  <1>0. 0 \in 0..MaxRows /\ 0 \in 0..MaxChanges
    BY BoundsAreNatural
  <1>1. TypeOK
    <2>1. job \in JobRow
      BY <1>0, NoReportIsAReport DEF JobInit, JobRow, Steps
    <2>2. preserved \in KeepRow
      BY DEF JobInit, KeepRow
    <2>3. batch \in [report : Reports, adoption : 0..MaxChanges]
      BY <1>0, NoReportIsAReport DEF JobInit, NoBatch
    <2>4. archive \in [status : {"none", "open", "complete", "unqualified"}, logs : 0..MaxRows,
                       report : Reports]
      BY <1>0, NoReportIsAReport DEF JobInit, NoArchive
    <2>. QED
      BY <1>0, <2>1, <2>2, <2>3, <2>4, NoReportIsAReport DEF JobInit, TypeOK, JobRow, KeepRow, Stages
  <1>2. UnitSound
    BY <1>0, BoundsAreNatural DEF JobInit, UnitSound, NoReport
  <1>3. JobSound /\ PartitionSound /\ ArchiveSound
    BY DEF JobInit, JobSound, PartitionSound, ArchiveSound, Preparing, Monitoring, Preserving, NoArchive
  <1>. QED
    BY <1>1, <1>2, <1>3 DEF JobInv

-----------------------------------------------------------------------------
(* Types.                                                                  *)

\* The controller moves by giving its record new fields of their types.
LEMMA JobMoves ==
  ASSUME job \in JobRow, NEW p \in Steps \union Ends
  PROVE  /\ [job EXCEPT !.pc = p] \in JobRow
         /\ [job EXCEPT !.pc = p, !.raised = TRUE] \in JobRow
         /\ [job EXCEPT !.pc = p, !.caps = TRUE] \in JobRow
         /\ [job EXCEPT !.pc = p, !.signalled = TRUE] \in JobRow
         /\ \A a \in 0..MaxChanges : [job EXCEPT !.pc = p, !.adopted = a] \in JobRow
         /\ \A x \in Reports : /\ [job EXCEPT !.pc = p, !.seen = x] \in JobRow
                               /\ [job EXCEPT !.pc = p, !.batch = x] \in JobRow
  <1>1. PICK j \in JobRow : j = [job EXCEPT !.pc = p]
    BY DEF JobRow
  <1>. QED
    BY <1>1 DEF JobRow

LEMMA KeepMoves ==
  ASSUME preserved \in KeepRow, NEW e \in Stages
  PROVE  [preserved EXCEPT !.errors = @ \union {e}] \in KeepRow
BY DEF KeepRow

LEMMA TypesOf ==
  TypeOK <=> /\ job \in JobRow /\ preserved \in KeepRow
             /\ worker \in {"none", "cloned", "ready"}
             /\ unit \in {"absent", "gate", "python", "campaign", "ended"}
             /\ capped \in BOOLEAN /\ remains \in BOOLEAN /\ gate \in BOOLEAN /\ stopAsked \in BOOLEAN
             /\ campaignLock \in {"none", "held", "free"} /\ logs \in 0..MaxRows /\ report \in Reports
             /\ adoption \in 0..MaxChanges /\ files \subseteq Names
             /\ batch \in [report : Reports, adoption : 0..MaxChanges]
             /\ archive \in [status : {"none", "open", "complete", "unqualified"}, logs : 0..MaxRows,
                             report : Reports]
BY DEF TypeOK, JobRow, KeepRow, Stages, Names

LEMMA UnitTypes ==
  ASSUME TypeOK, UnitSound,
         Exec \/ Baselines \/ Log \/ Record \/ Finish \/ UnitEnds \/ RuntimeMax \/ RemainsGo
  PROVE  TypeOK'
  <1>. USE BoundsAreNatural
  <1>0. /\ report.rows \in 0..MaxRows /\ report.kills \in 0..MaxRows /\ logs \in 0..MaxRows
        /\ report \in Reports
    BY DEF TypeOK, Reports
  <1>1. UnitAlone /\ job \in JobRow /\ preserved \in KeepRow
    BY TypesOf DEF Exec, Baselines, Log, Record, Finish, UnitEnds, RuntimeMax, RemainsGo
  <1>2. report' \in Reports
    <2>1. CASE Record
      <3>1. PICK kill \in 0..1, t \in {"running", "aborted"} :
              report' = [rows |-> report.rows + 1, kills |-> report.kills + kill, terminal |-> t]
        BY <2>1 DEF Record
      <3>2. report.rows + 1 \in 0..MaxRows /\ report.kills + kill \in 0..MaxRows
        BY <1>0, <2>1 DEF Record, UnitSound
      <3>. QED
        BY <3>1, <3>2 DEF Reports
    <2>. QED
      BY <1>0, <2>1 DEF Exec, Baselines, Log, Finish, UnitEnds, RuntimeMax, RemainsGo, Reports
  <1>3. logs' \in 0..MaxRows
    BY <1>0 DEF Exec, Baselines, Log, Record, Finish, UnitEnds, RuntimeMax, RemainsGo
  <1>4. /\ unit' \in {"absent", "gate", "python", "campaign", "ended"}
        /\ campaignLock' \in {"none", "held", "free"}
    BY TypesOf DEF Exec, Baselines, Log, Record, Finish, UnitEnds, RuntimeMax, RemainsGo, EndUnit
  <1>5. remains' \in BOOLEAN /\ stopAsked' \in BOOLEAN
    BY TypesOf DEF Exec, Baselines, Log, Record, Finish, UnitEnds, RuntimeMax, RemainsGo, EndUnit
  <1>. QED
    BY <1>1, <1>2, <1>3, <1>4, <1>5, TypesOf DEF UnitAlone, outVars, TypeOK, JobRow, KeepRow, Stages, Names

LEMMA ControllerTypes ==
  ASSUME TypeOK, Controller \/ Cancel
  PROVE  TypeOK'
  <1>0. /\ job \in JobRow /\ preserved \in KeepRow /\ report \in Reports /\ logs \in 0..MaxRows
        /\ adoption \in 0..MaxChanges
    BY TypesOf
  <1>1. job' \in JobRow
    <2>1. ASSUME NEW p, To(p), p \in Steps \union Ends PROVE job' \in JobRow
      BY <1>0, <2>1, JobMoves DEF To
    <2>2. CASE Raise
      BY <1>0, <2>2, JobMoves DEF Raise, Steps
    <2>3. ASSUME NEW p \in Steps,
                 \/ job' = [job EXCEPT !.pc = p, !.caps = TRUE]
                 \/ job' = [job EXCEPT !.pc = p, !.signalled = TRUE]
                 \/ job' = [job EXCEPT !.pc = p, !.adopted = adoption]
                 \/ job' = [job EXCEPT !.pc = p, !.seen = report]
                 \/ job' = [job EXCEPT !.pc = p, !.batch = report]
          PROVE  job' \in JobRow
      <3>1. p \in Steps \union Ends
        OBVIOUS
      <3>2. /\ [job EXCEPT !.pc = p, !.caps = TRUE] \in JobRow
            /\ [job EXCEPT !.pc = p, !.signalled = TRUE] \in JobRow
            /\ [job EXCEPT !.pc = p, !.adopted = adoption] \in JobRow
            /\ [job EXCEPT !.pc = p, !.seen = report] \in JobRow
            /\ [job EXCEPT !.pc = p, !.batch = report] \in JobRow
        BY <1>0, <3>1, JobMoves
      <3>. QED
        BY <2>3, <3>2
    <2>30. {"clone", "inputs", "launch", "verify", "open", "look", "progress", "ask", "kill",
            "close", "terminal", "collect", "readopt", "stop"} \subseteq Steps
           /\ {"failed", "passed", "cancelled"} \subseteq Ends
      BY DEF Steps, Ends
    <2>31. CASE Adopt
      BY <2>1, <2>3, <2>30, <2>31 DEF Adopt
    <2>32. CASE Prepare \/ Launch \/ OpenGate \/ Look \/ Ask \/ Close
      BY <2>1, <2>2, <2>30, <2>32 DEF Prepare, Launch, OpenGate, Look, Ask, Close
    <2>33. CASE Verify \/ Progress \/ Kill \/ Terminal \/ Collect
      BY <2>2, <2>3, <2>30, <2>33 DEF Verify, Progress, Kill, Terminal, Collect
    <2>34. CASE Readopt
      BY <2>1, <2>2, <2>30, <2>34 DEF Readopt
    <2>5. CASE Stop \/ Closure \/ Journal \/ Snapshot \/ Read \/ Manifest \/ SnapshotFails \/ End \/ Cancel
      BY <2>1, <2>5
      DEF Stop, Closure, Journal, Snapshot, Read, Manifest, SnapshotFails, End, Cancel, Steps, Ends
    <2>. QED
      BY <2>31, <2>32, <2>33, <2>34, <2>5 DEF Controller
  <1>2. preserved' \in KeepRow
    <2>1. ASSUME NEW e \in Stages, Failing(e) PROVE preserved' \in KeepRow
      BY <1>0, <2>1, KeepMoves DEF Failing
    <2>2. CASE Closure
      BY <1>0, <2>2 DEF Closure, KeepRow, Stages, Verified, Closed, JobRow
    <2>3. CASE Snapshot
      <3>1. PICK E \in SUBSET Stages, q \in BOOLEAN :
              preserved' \in {preserved, [preserved EXCEPT !.errors = E, !.quiet = q]}
        <4>1. preserved.errors \in SUBSET Stages /\ preserved.errors \union {"lock"} \in SUBSET Stages
              /\ (campaignLock = "free" /\ preserved.verified) \in BOOLEAN
          BY <1>0 DEF KeepRow, Stages
        <4>. QED
          BY <2>3, <4>1 DEF Snapshot
      <3>. QED
        BY <1>0, <3>1 DEF KeepRow
    <2>4. CASE Stop \/ Journal \/ SnapshotFails
      BY <1>0, <2>1, <2>4 DEF Stop, Journal, SnapshotFails, SnapshotError, Stages
    <2>5. ~(Closure \/ Snapshot \/ Stop \/ Journal \/ SnapshotFails) => UNCHANGED preserved
      BY DEF Controller, Adopt, Prepare, Launch, Verify, OpenGate, Look, Progress, Ask, Kill, Close,
             Terminal, Collect, Readopt, Read, Manifest, End, Cancel
    <2>. QED
      BY <1>0, <2>2, <2>3, <2>4, <2>5
  <1>3. files' \subseteq Names
    <2>1. files \subseteq Names
      BY TypesOf
    <2>2. ASSUME NEW f \in Names, Write(f) PROVE files' \subseteq Names
      BY <2>1, <2>2 DEF Write
    <2>3. UNCHANGED files \/ \E f \in Names : Write(f)
      BY DEF Controller, Adopt, Prepare, Launch, Verify, OpenGate, Look, Progress, Ask, Kill, Close,
             Terminal, Collect, Readopt, Stop, Closure, Journal, Snapshot, Read, Manifest,
             SnapshotFails, End, Cancel, Raise, Quiet, outVars, Names
    <2>. QED
      BY <2>1, <2>2, <2>3
  <1>4. batch' \in [report : Reports, adoption : 0..MaxChanges]
    <2>1. CASE Readopt
      BY <1>0, <2>1, TypesOf DEF Readopt, JobRow
    <2>2. ~Readopt => UNCHANGED batch
      BY DEF Controller, Adopt, Prepare, Launch, Verify, OpenGate, Look, Progress, Ask, Kill, Close,
             Terminal, Collect, Stop, Closure, Journal, Snapshot, Read, Manifest, SnapshotFails,
             End, Cancel, outVars
    <2>. QED
      BY <2>1, <2>2, TypesOf
  <1>5. archive' \in [status : {"none", "open", "complete", "unqualified"}, logs : 0..MaxRows,
                      report : Reports]
    <2>0. archive \in [status : {"none", "open", "complete", "unqualified"}, logs : 0..MaxRows,
                       report : Reports]
      BY TypesOf
    <2>1. NoArchive \in [status : {"none", "open", "complete", "unqualified"}, logs : 0..MaxRows,
                         report : Reports]
      BY NoReportIsAReport, BoundsAreNatural DEF NoArchive
    <2>2. CASE Snapshot
      BY <2>0, <2>1, <2>2 DEF Snapshot
    <2>3. CASE Read \/ Manifest
      BY <1>0, <2>0, <2>3 DEF Read, Manifest
    <2>4. ~(Snapshot \/ Read \/ Manifest) => UNCHANGED archive
      BY DEF Controller, Adopt, Prepare, Launch, Verify, OpenGate, Look, Progress, Ask, Kill, Close,
             Terminal, Collect, Readopt, Stop, Closure, Journal, SnapshotFails, End, Cancel, outVars
    <2>. QED
      BY <2>0, <2>2, <2>3, <2>4
  <1>6. /\ worker' \in {"none", "cloned", "ready"} /\ gate' \in BOOLEAN /\ stopAsked' \in BOOLEAN
        /\ UNCHANGED <<capped, logs, report, adoption>>
    BY TypesOf DEF Controller, Adopt, Prepare, Launch, Verify, OpenGate, Look, Progress, Ask, Kill,
       Close, Terminal, Collect, Readopt, Stop, Closure, Journal, Snapshot, Read, Manifest,
       SnapshotFails, End, Cancel, unitVars
  <1>7. /\ unit' \in {"absent", "gate", "python", "campaign", "ended"} /\ remains' \in BOOLEAN
        /\ campaignLock' \in {"none", "held", "free"}
    BY TypesOf DEF Controller, Adopt, Prepare, Launch, Verify, OpenGate, Look, Progress, Ask, Kill,
       Close, Terminal, Collect, Readopt, Stop, Closure, Journal, Snapshot, Read, Manifest,
       SnapshotFails, End, Cancel, unitVars, EndUnit
  <1>. QED
    BY <1>0, <1>1, <1>2, <1>3, <1>4, <1>5, <1>6, <1>7, TypesOf
    DEF TypeOK, JobRow, KeepRow, Stages, Names

-----------------------------------------------------------------------------
(* The unit.                                                               *)

LEMMA UnitKeepsItself ==
  ASSUME JobInv, Exec \/ Baselines \/ Log \/ Record \/ Finish \/ UnitEnds \/ RuntimeMax \/ RemainsGo
  PROVE  UnitSound'
  <1>. USE BoundsAreNatural
  <1>0. /\ UnitSound /\ report.rows \in Nat /\ report.kills \in Nat /\ logs \in Nat
        /\ report \in Reports
    BY DEF JobInv, TypeOK, Reports
  <1>1. CASE Exec
    BY <1>0, <1>1 DEF Exec, UnitAlone, UnitSound
  <1>2. CASE Baselines \/ Finish
    <2>1. /\ report'.rows = report.rows /\ report'.kills = report.kills
          /\ logs = report.rows \/ report'.terminal = "running"
          /\ report'.terminal = "complete" => report'.rows = MaxRows
          /\ report'.terminal = "clean_partial" => report'.rows # MaxRows
      BY <1>0, <1>2 DEF Baselines, Finish, Reports
    <2>. QED
      BY <1>0, <1>2, <2>1 DEF Baselines, Finish, UnitAlone, UnitSound
  <1>3. CASE Log
    BY <1>0, <1>3 DEF Log, Working, UnitAlone, UnitSound
  <1>4. CASE Record
    <2>1. PICK kill \in 0..1, t \in {"running", "aborted"} :
            report' = [rows |-> report.rows + 1, kills |-> report.kills + kill, terminal |-> t]
      BY <1>4 DEF Record
    <2>2. report'.rows = report.rows + 1 /\ report'.kills <= report.kills + 1 /\
         report'.terminal \in {"running", "aborted"}
      BY <1>0, <2>1
    <2>3. report'.kills <= report'.rows
      BY <1>0, <2>1 DEF UnitSound
    <2>. QED
      BY <1>0, <1>4, <2>2, <2>3 DEF Record, UnitAlone, UnitSound
  <1>5. CASE UnitEnds \/ RuntimeMax \/ RemainsGo
    BY <1>0, <1>5 DEF UnitEnds, RuntimeMax, RemainsGo, EndUnit, UnitAlone, UnitSound
  <1>. QED
    BY <1>1, <1>2, <1>3, <1>4, <1>5

LEMMA ControllerKeepsUnit ==
  ASSUME JobInv, Controller \/ Cancel \/ AdoptionChanges \/ UNCHANGED jobVars
  PROVE  UnitSound'
  <1>0. UnitSound /\ JobSound
    BY DEF JobInv
  <1>1. CASE UNCHANGED unitVars
    BY <1>0, <1>1 DEF unitVars, UnitSound
  <1>2. CASE Launch
    BY <1>0, <1>2 DEF Launch, UnitSound, JobSound, Preparing, At
  <1>3. CASE OpenGate
    BY <1>0, <1>3 DEF OpenGate, UnitSound, JobSound, Monitoring, At
  <1>4. CASE Kill \/ Stop
    <2>1. UNCHANGED <<capped, gate, logs, report>>
      BY <1>4 DEF Kill, Stop
    <2>2. UNCHANGED <<unit, remains, campaignLock>> \/ EndUnit
      BY <1>4 DEF Kill, Stop
    <2>. QED
      BY <1>0, <2>1, <2>2 DEF UnitSound, EndUnit
  <1>. QED
    BY <1>1, <1>2, <1>3, <1>4
    DEF Controller, Adopt, Prepare, Verify, Look, Progress, Ask, Close, Terminal, Collect, Readopt,
        Closure, Journal, Snapshot, Read, Manifest, SnapshotFails, End, Cancel, AdoptionChanges,
        jobVars, unitVars

\* When the unit has ended and its processes are gone, its report is final.
LEMMA ClosedIsFinal ==
  ASSUME JobInv, [JobNext]_jobVars
  PROVE  /\ Closed => Closed' /\ UNCHANGED <<report, logs, campaignLock>>
         /\ UNCHANGED capped
  <1>0. UnitSound /\ JobSound /\ capped \in BOOLEAN
    BY TypesOf DEF JobInv
  <1>1. CASE Exec \/ Baselines \/ Log \/ Record \/ Finish \/ UnitEnds \/ RuntimeMax \/ RemainsGo
    BY <1>0, <1>1 DEF Exec, Baselines, Log, Record, Finish, UnitEnds, RuntimeMax, RuntimeBound,
       RemainsGo, Working, Active, UnitAlone, Closed, EndUnit
  <1>2. CASE UNCHANGED unitVars
    BY <1>2 DEF unitVars, Closed
  <1>3. CASE Launch
    BY <1>0, <1>3 DEF Launch, JobSound, Preparing, At, Closed
  <1>4. CASE OpenGate \/ Kill \/ Stop
    BY <1>4 DEF OpenGate, Kill, Stop, Active, Closed, EndUnit
  <1>. QED
    BY <1>1, <1>2, <1>3, <1>4
    DEF JobNext, Controller, Adopt, Prepare, Verify, Look, Progress, Ask, Close, Terminal, Collect,
        Readopt, Closure, Journal, Snapshot, Read, Manifest, SnapshotFails, End, Cancel,
        AdoptionChanges, jobVars, unitVars

-----------------------------------------------------------------------------
(* The controller, while everything else moves.                            *)

LEMMA OthersKeep ==
  ASSUME JobInv,
         \/ Exec \/ Baselines \/ Log \/ Record \/ Finish \/ UnitEnds \/ RuntimeMax \/ RemainsGo
         \/ AdoptionChanges \/ UNCHANGED jobVars
  PROVE  JobSound' /\ PartitionSound' /\ ArchiveSound'
  <1>0. JobSound /\ PartitionSound /\ ArchiveSound /\ [JobNext]_jobVars
    BY DEF JobInv, JobNext
  <1>1. UNCHANGED <<job, preserved, worker, files, batch, archive>>
    BY DEF Exec, Baselines, Log, Record, Finish, UnitEnds, RuntimeMax, RemainsGo, UnitAlone,
           AdoptionChanges, jobVars, outVars
  <1>2. (Closed => Closed' /\ UNCHANGED <<report, logs, campaignLock>>) /\ UNCHANGED capped
    BY <1>0, ClosedIsFinal
  <1>3. unit = "absent" => unit' = "absent"
    BY DEF Exec, Baselines, Log, Record, Finish, UnitEnds, RuntimeMax, RuntimeBound, RemainsGo,
           Active, AdoptionChanges, Working, jobVars, unitVars
  <1>4. JobSound'
    BY <1>0, <1>1, <1>2, <1>3 DEF JobSound, Enough
  <1>5. PartitionSound'
    BY <1>0, <1>1, <1>2 DEF PartitionSound, Enough
  <1>6. ArchiveSound'
    <2>1. (preserved.verified => job.caps /\ Closed)'
      BY <1>0, <1>1, <1>2 DEF ArchiveSound
    <2>2. (archive.status = "complete" => archive.logs = logs /\ archive.report = report /\ Closed)'
      BY <1>0, <1>1, <1>2 DEF ArchiveSound
    <2>3. (job.pc \in {"report", "manifest"} /\ preserved.quiet => archive.logs = logs)'
      BY <1>0, <1>1, <1>2 DEF ArchiveSound
    <2>4. (job.pc = "manifest" /\ preserved.quiet => archive.report = report)'
      BY <1>0, <1>1, <1>2 DEF ArchiveSound
    <2>. QED
      BY <1>0, <1>1, <2>1, <2>2, <2>3, <2>4 DEF ArchiveSound
  <1>. QED
    BY <1>4, <1>5, <1>6

\* The controller goes to p and keeps what it has established.
Goes(p) ==
  /\ job'.pc = p /\ job'.caps = job.caps /\ job'.raised = job.raised
  /\ job'.adopted = job.adopted /\ job'.batch = job.batch

LEMMA ToGoes ==
  ASSUME job \in JobRow, NEW p, To(p)
  PROVE  Goes(p)
BY DEF To, JobRow, Goes

LEMMA RaiseGoes ==
  ASSUME job \in JobRow, Raise
  PROVE  /\ job'.pc = "stop" /\ job'.raised /\ job'.caps = job.caps
         /\ job'.adopted = job.adopted /\ job'.batch = job.batch
         /\ files' = files \union {"refusal"}
BY DEF Raise, Write, JobRow

\* Whatever execute was doing, an exception leaves what is to be preserved as it is.
LEMMA RaiseKeeps ==
  ASSUME JobInv, [JobNext]_jobVars, Raise, job.pc \notin Preserving \union Ends,
         UNCHANGED <<preserved, batch, archive>>,
         worker' = worker \/ job.pc \in Preparing
  PROVE  JobSound' /\ PartitionSound' /\ ArchiveSound'
  <1>0. JobSound /\ PartitionSound /\ ArchiveSound /\ job \in JobRow
    BY TypesOf DEF JobInv
  <1>1. /\ job'.pc = "stop" /\ job'.raised /\ job'.caps = job.caps
        /\ job'.adopted = job.adopted /\ job'.batch = job.batch
        /\ files' = files \union {"refusal"}
    BY <1>0, RaiseGoes
  <1>2. (Closed => Closed' /\ UNCHANGED <<report, logs, campaignLock>>) /\ UNCHANGED capped
    BY ClosedIsFinal
  <1>3. JobSound'
    BY <1>0, <1>1, <1>2 DEF JobSound, Preparing, Monitoring, Preserving
  <1>4. PartitionSound'
    BY <1>0, <1>1, <1>2 DEF PartitionSound, JobSound, Enough
  <1>5. ArchiveSound'
    BY <1>0, <1>1, <1>2 DEF ArchiveSound
  <1>. QED
    BY <1>3, <1>4, <1>5

LEMMA PrepareKeeps ==
  ASSUME JobInv, Adopt \/ Prepare \/ Launch \/ Verify
  PROVE  JobSound' /\ PartitionSound' /\ ArchiveSound'
  <1>. USE DEF Quiet
  <1>0. JobSound /\ PartitionSound /\ ArchiveSound /\ job \in JobRow /\ [JobNext]_jobVars
        /\ capped \in BOOLEAN
    BY TypesOf DEF JobInv, JobNext, Controller
  <1>1. (Closed => Closed' /\ UNCHANGED <<report, logs, campaignLock>>) /\ UNCHANGED capped
    BY <1>0, ClosedIsFinal DEF JobInv
  <1>2. CASE Raise /\ ~Adopt
    <2>1. /\ job.pc \in {"clone", "inputs", "launch", "verify"} /\ UNCHANGED <<preserved, batch, archive>>
          /\ worker' = worker \/ job.pc \in Preparing
      BY <1>2 DEF Prepare, Launch, Verify, At, Preparing
    <2>. QED
      BY <1>0, <1>2, <2>1, RaiseKeeps DEF Preserving, Ends
  <1>3. CASE ~Raise \/ Adopt
    <2>1. /\ UNCHANGED <<preserved, batch, archive, files>>
          /\ job.pc \in {"adopt", "clone", "inputs", "launch", "verify"}
          /\ job.pc # "launch" => unit' = unit
          /\ job.pc \in {"launch", "verify"} => worker' = worker
          /\ job.pc = "inputs" => worker' = "ready"
          /\ job.pc = "verify" => capped
      BY <1>3 DEF Adopt, Prepare, Launch, Verify, CapsVerified, At, unitVars, outVars
    <2>2. /\ job'.pc = CASE job.pc = "adopt" -> job'.pc
                         [] job.pc = "clone" -> "inputs"
                         [] job.pc = "inputs" -> "launch"
                         [] job.pc = "launch" -> "verify"
                         [] job.pc = "verify" -> "open"
          /\ job.pc = "adopt" => job'.pc \in {"clone", "failed"}
          /\ job.pc # "adopt" => job'.adopted = job.adopted
          /\ job.pc # "verify" => job'.caps = job.caps
          /\ job.pc = "verify" => job'.caps
          /\ job'.raised = job.raised
      BY <1>0, <1>3 DEF Adopt, Prepare, Launch, Verify, At, To, JobRow
    <2>3. JobSound'
      BY <1>0, <1>1, <2>1, <2>2 DEF JobSound, Preparing, Monitoring, Preserving
    <2>4. PartitionSound'
      BY <1>0, <1>1, <2>1, <2>2 DEF PartitionSound, JobSound, Preparing, Enough
    <2>5. ArchiveSound'
      BY <1>0, <1>1, <2>1, <2>2 DEF ArchiveSound
    <2>. QED
      BY <2>3, <2>4, <2>5
  <1>. QED
    BY <1>2, <1>3

\* A step of the monitor that only moves on keeps everything, given what its next step needs.
LEMMA MonitorMoves ==
  ASSUME JobInv, [JobNext]_jobVars, job.pc \in Monitoring,
         UNCHANGED <<preserved, worker, files, batch, archive>>,
         job'.pc \in Monitoring, job'.caps = job.caps, job'.adopted = job.adopted,
         job'.pc \in {"terminal", "collect", "readopt"} => Closed,
         job'.pc \in {"collect", "readopt"} => Enough(report),
         job'.pc = "readopt" => job'.batch = report /\ campaignLock = "free"
  PROVE  JobSound' /\ PartitionSound' /\ ArchiveSound'
  <1>0. JobSound /\ PartitionSound /\ ArchiveSound
    BY DEF JobInv
  <1>1. (Closed => Closed' /\ UNCHANGED <<report, logs, campaignLock>>) /\ UNCHANGED capped
    BY ClosedIsFinal
  <1>2. JobSound'
    BY <1>0, <1>1 DEF JobSound, Preparing, Monitoring, Preserving, Enough
  <1>3. PartitionSound'
    BY <1>0, <1>1 DEF PartitionSound, Enough
  <1>4. ArchiveSound'
    BY <1>0, <1>1 DEF ArchiveSound, Monitoring
  <1>. QED
    BY <1>2, <1>3, <1>4

LEMMA MonitorKeeps ==
  ASSUME JobInv,
         OpenGate \/ Look \/ Progress \/ Ask \/ Kill \/ Close \/ Terminal \/ Collect
  PROVE  JobSound' /\ PartitionSound' /\ ArchiveSound'
  <1>. USE DEF Quiet
  <1>0. JobSound /\ job \in JobRow /\ [JobNext]_jobVars
    BY TypesOf DEF JobInv, JobNext, Controller
  <1>1. job.pc \in {"open", "look", "progress", "ask", "kill", "close", "terminal", "collect"}
        /\ UNCHANGED <<preserved, worker, batch, archive>>
    BY DEF OpenGate, Look, Progress, Ask, Kill, Close, Terminal, Collect, At, outVars
  <1>2. CASE Raise
    <2>1. job.pc \notin Preserving \union Ends
      BY <1>1 DEF Preserving, Ends
    <2>. QED
      BY <1>0, <1>1, <1>2, <2>1, RaiseKeeps
  <1>3. CASE ~Raise
    <2>1. UNCHANGED files
      BY <1>3 DEF OpenGate, Look, Progress, Ask, Kill, Close, Terminal, Collect, outVars
    <2>2. job'.pc \in Monitoring /\ job'.caps = job.caps /\ job'.adopted = job.adopted
      BY <1>0, <1>3 DEF OpenGate, Look, Progress, Ask, Kill, Close, Terminal, Collect, To, JobRow,
         Monitoring
    <2>3. /\ job'.pc \in {"terminal", "collect", "readopt"} => Closed
          /\ job'.pc \in {"collect", "readopt"} => Enough(report)
          /\ job'.pc = "readopt" => job'.batch = report /\ campaignLock = "free"
      BY <1>0, <1>3 DEF OpenGate, Look, Progress, Ask, Kill, Close, Terminal, Collect, To, JobRow,
         JobSound, At
    <2>4. job.pc \in Monitoring
      BY <1>1 DEF Monitoring
    <2>. QED
      BY <1>0, <1>1, <2>1, <2>2, <2>3, <2>4, MonitorMoves
  <1>. QED
    BY <1>2, <1>3

\* The result is written only of a closed unit, and of the adoption verified at the start.
LEMMA ReadoptKeeps ==
  ASSUME JobInv, Readopt
  PROVE  JobSound' /\ PartitionSound' /\ ArchiveSound'
  <1>0. JobSound /\ PartitionSound /\ ArchiveSound /\ job \in JobRow /\ [JobNext]_jobVars
    BY TypesOf DEF JobInv, JobNext, Controller
  <1>1. CASE ~AdoptionHolds
    <2>1. /\ Raise /\ UNCHANGED <<preserved, worker, batch, archive>>
          /\ job.pc \notin Preserving \union Ends
      BY <1>1 DEF Readopt, At, Preserving, Ends
    <2>. QED
      BY <1>0, <2>1, RaiseKeeps
  <1>2. CASE AdoptionHolds
    <2>1. /\ batch'.report = job.batch /\ batch'.adoption = job.adopted
          /\ files' = files \union {"partition"} /\ job.pc = "readopt"
          /\ UNCHANGED <<preserved, worker, unitVars, archive>>
      BY <1>2 DEF Readopt, AdoptionHolds, Write, At
    <2>2. job'.pc = "stop" /\ Goes("stop")
      BY <1>0, <1>2, ToGoes DEF Readopt, Goes
    <2>3. JobSound'
      BY <1>0, <2>1, <2>2 DEF JobSound, Goes, Preparing, Monitoring, Preserving, unitVars
    <2>4. PartitionSound'
      BY <1>0, <2>1, <2>2 DEF PartitionSound, JobSound, Goes, Monitoring, unitVars, Closed, Enough
    <2>5. ArchiveSound'
      BY <1>0, <2>1, <2>2 DEF ArchiveSound, Goes, unitVars, Closed
    <2>. QED
      BY <2>3, <2>4, <2>5
  <1>. QED
    BY <1>1, <1>2

-----------------------------------------------------------------------------
(* preserve.                                                               *)

\* The stages leave the result alone: what they write is something else.
LEMMA PreserveKeepsResult ==
  ASSUME JobInv, [JobNext]_jobVars, job.pc \in Preserving, NEW p \in (Preserving \ {"stop"}) \union Ends,
         Goes(p), UNCHANGED <<worker, batch>>,
         "partition" \in files' <=> "partition" \in files
  PROVE  JobSound' /\ PartitionSound'
  <1>0. JobSound /\ PartitionSound
    BY DEF JobInv
  <1>1. (Closed => Closed' /\ UNCHANGED <<report, logs, campaignLock>>) /\ UNCHANGED capped
    BY ClosedIsFinal
  <1>2. JobSound'
    BY <1>0, <1>1 DEF JobSound, Goes, Preparing, Monitoring, Preserving, Ends
  <1>3. PartitionSound'
    BY <1>0, <1>1 DEF PartitionSound, Goes, Enough
  <1>. QED
    BY <1>2, <1>3

LEMMA StagesGo ==
  ASSUME JobInv,
         Stop \/ Closure \/ Journal \/ Snapshot \/ Read \/ Manifest \/ SnapshotFails \/ End
  PROVE  /\ JobSound' /\ PartitionSound'
         /\ "partition" \in files' <=> "partition" \in files
         /\ [JobNext]_jobVars /\ Goes(job'.pc)
  <1>0. job \in JobRow /\ [JobNext]_jobVars
    BY TypesOf DEF JobInv, JobNext, Controller
  <1>1. job.pc \in Preserving /\ UNCHANGED <<worker, batch>>
    BY DEF Stop, Closure, Journal, Snapshot, Read, Manifest, SnapshotFails, End, At, Preserving, outVars
  <1>2. "partition" \in files' <=> "partition" \in files
    BY DEF Stop, Closure, Journal, Snapshot, Read, Manifest, SnapshotFails, End, Write, Quiet, outVars
  <1>3. PICK p \in (Preserving \ {"stop"}) \union Ends : To(p)
    BY DEF Stop, Closure, Journal, Snapshot, Read, Manifest, SnapshotFails, End, Preserving, Ends
  <1>4. Goes(p) /\ Goes(job'.pc)
    BY <1>0, <1>3, ToGoes DEF Goes
  <1>. QED
    BY <1>0, <1>1, <1>2, <1>3, <1>4, PreserveKeepsResult

\* The errors and the knowledge of the unit that a stage leaves.
LEMMA FailingKeeps ==
  ASSUME preserved \in KeepRow, NEW e \in Stages, Failing(e)
  PROVE  /\ preserved'.errors = preserved.errors \union {e}
         /\ preserved'.verified = preserved.verified /\ preserved'.quiet = preserved.quiet
BY DEF Failing, KeepRow

\* Before the snapshot nothing is archived, and the unit is only known to be closed.
LEMMA EarlyStagesKeep ==
  ASSUME JobInv, Stop \/ Closure \/ Journal
  PROVE  ArchiveSound'
  <1>. USE DEF Quiet
  <1>0. /\ ArchiveSound /\ job \in JobRow /\ preserved \in KeepRow /\ capped \in BOOLEAN
        /\ remains \in BOOLEAN
    BY TypesOf DEF JobInv
  <1>1. [JobNext]_jobVars /\ Goes(job'.pc) /\ ("partition" \in files' <=> "partition" \in files)
    BY StagesGo
  <1>2. (Closed => Closed' /\ UNCHANGED <<report, logs, campaignLock>>) /\ UNCHANGED capped
    BY <1>1, ClosedIsFinal
  <1>3. UNCHANGED archive
    BY DEF Stop, Closure, Journal
  <1>4. CASE Stop
    <2>1. /\ job.pc = "stop" /\ job'.pc \in {"closure", "journal"}
          /\ job'.pc = "journal" => "closure" \in preserved'.errors
          /\ preserved'.verified = preserved.verified /\ preserved'.quiet = preserved.quiet
      BY <1>0, <1>4, FailingKeeps DEF Stop, At, To, JobRow, Stages
    <2>. QED
      BY <1>0, <1>1, <1>2, <1>3, <2>1 DEF ArchiveSound, Goes
  <1>5. CASE Closure
    <2>1. job'.pc = "journal" /\ job.pc = "closure" /\ UNCHANGED unitVars
      BY <1>0, <1>5 DEF Closure, At, To, JobRow
    <2>2. /\ preserved'.verified <=> job.caps /\ Closed
          /\ preserved'.quiet = preserved.quiet
          /\ job.caps => preserved'.verified \/ "closure" \in preserved'.errors
      BY <1>0, <1>5 DEF Closure, Verified, KeepRow, JobRow, Closed
    <2>3. preserved.quiet => preserved'.verified
      BY <1>0, <2>1, <2>2 DEF ArchiveSound
    <2>. QED
      BY <1>0, <1>1, <1>2, <1>3, <2>1, <2>2 DEF ArchiveSound, Goes
  <1>6. CASE Journal
    <2>1. /\ job.pc = "journal" /\ job'.pc = "snapshot"
          /\ preserved.errors \subseteq preserved'.errors
          /\ preserved'.verified = preserved.verified /\ preserved'.quiet = preserved.quiet
      BY <1>0, <1>6, FailingKeeps DEF Journal, At, To, JobRow, Stages
    <2>. QED
      BY <1>0, <1>1, <1>2, <1>3, <2>1 DEF ArchiveSound, Goes
  <1>. QED
    BY <1>4, <1>5, <1>6

\* What is read of a closed unit is what there will be; only a quiet snapshot is complete.
LEMMA SnapshotKeeps ==
  ASSUME JobInv, Snapshot \/ Read \/ Manifest \/ SnapshotFails
  PROVE  ArchiveSound'
  <1>0. /\ ArchiveSound /\ PartitionSound /\ JobSound /\ job \in JobRow /\ preserved \in KeepRow
        /\ campaignLock \in {"none", "held", "free"} /\ worker \in {"none", "cloned", "ready"}
        /\ archive \in [status : {"none", "open", "complete", "unqualified"}, logs : 0..MaxRows,
                        report : Reports]
    BY TypesOf DEF JobInv
  <1>1. [JobNext]_jobVars /\ Goes(job'.pc) /\ ("partition" \in files' <=> "partition" \in files)
    BY StagesGo
  <1>2. UNCHANGED unitVars
    BY DEF Snapshot, Read, Manifest, SnapshotFails
  <1>3. CASE Snapshot
    <2>1. job.pc = "snapshot" /\ UNCHANGED files
          /\ (worker = "none" => job'.pc = "end" /\ UNCHANGED <<preserved, archive>>)
          /\ (worker # "none" =>
                /\ job'.pc = "logs" /\ archive'.status = "open"
                /\ preserved.errors \subseteq preserved'.errors
                /\ preserved'.verified = preserved.verified
                /\ preserved'.quiet <=> campaignLock = "free" /\ preserved.verified)
      <3>1. job.pc = "snapshot" /\ UNCHANGED files
            /\ job'.pc = (IF worker = "none" THEN "end" ELSE "logs")
        BY <1>0, <1>3 DEF Snapshot, At, To, JobRow
      <3>2. worker = "none" => UNCHANGED <<preserved, archive>>
        BY <1>3 DEF Snapshot
      <3>3. worker # "none" => archive'.status = "open"
        BY <1>3 DEF Snapshot, NoArchive
      <3>4. ASSUME worker # "none"
            PROVE  /\ preserved.errors \subseteq preserved'.errors
                   /\ preserved'.verified = preserved.verified
                   /\ preserved'.quiet <=> campaignLock = "free" /\ preserved.verified
        <4>. DEFINE e == IF campaignLock = "held" THEN preserved.errors \union {"lock"} ELSE preserved.errors
                    q == campaignLock = "free" /\ preserved.verified
        <4>1. preserved' = [preserved EXCEPT !.errors = e, !.quiet = q]
          BY <1>3, <3>4 DEF Snapshot
        <4>2. preserved.errors \subseteq e /\ (q <=> campaignLock = "free" /\ preserved.verified)
          OBVIOUS
        <4>. HIDE DEF e, q
        <4>3. preserved'.errors = e /\ preserved'.verified = preserved.verified /\ preserved'.quiet = q
          BY <1>0, <4>1 DEF KeepRow
        <4>. QED
          BY <4>2, <4>3
      <3>. QED
        BY <3>1, <3>2, <3>3, <3>4
    <2>2. CASE worker = "none"
      <3>1. "partition" \notin files /\ job.raised
        BY <1>0, <2>1, <2>2 DEF PartitionSound, JobSound, Preserving
      <3>. QED
        BY <1>0, <1>1, <1>2, <2>1, <2>2, <3>1 DEF ArchiveSound, Goes, unitVars, Closed
    <2>3. CASE worker # "none"
      <3>1. (job.pc \in {"logs", "report", "manifest"} /\ "partition" \in files
               /\ preserved.errors = {} => preserved.quiet)'
        BY <1>0, <1>1, <2>1, <2>3 DEF ArchiveSound, PartitionSound
      <3>2. (job.pc \in {"journal", "snapshot", "logs", "report", "manifest", "end"} /\ job.caps =>
               preserved.verified \/ "closure" \in preserved.errors)'
        BY <1>0, <1>1, <2>1, <2>3 DEF ArchiveSound, Goes
      <3>3. (preserved.verified => job.caps /\ Closed)' /\ (preserved.quiet => preserved.verified)'
        BY <1>0, <1>1, <1>2, <2>1, <2>3 DEF ArchiveSound, Goes, unitVars, Closed
      <3>. QED
        BY <2>1, <2>3, <3>1, <3>2, <3>3 DEF ArchiveSound
    <2>. QED
      BY <2>2, <2>3
  <1>4. CASE Read
    <2>1. /\ UNCHANGED <<preserved, files>> /\ archive'.status = archive.status
          /\ \/ job.pc = "logs" /\ job'.pc = "report" /\ archive'.logs = logs
                /\ archive'.report = archive.report
             \/ job.pc = "report" /\ job'.pc = "manifest" /\ archive'.report = report
                /\ archive'.logs = archive.logs
      BY <1>0, <1>4 DEF Read, At, To, JobRow
    <2>2. (job.pc \in {"report", "manifest"} /\ preserved.quiet => archive.logs = logs)'
          /\ (job.pc = "manifest" /\ preserved.quiet => archive.report = report)'
      BY <1>0, <1>2, <2>1 DEF ArchiveSound, unitVars
    <2>3. (archive.status = "complete" => archive.logs = logs /\ archive.report = report /\ Closed)'
      BY <1>0, <1>2, <2>1 DEF ArchiveSound, unitVars, Closed
    <2>. QED
      BY <1>0, <1>1, <1>2, <2>1, <2>2, <2>3 DEF ArchiveSound, Goes, unitVars, Closed
  <1>5. CASE Manifest
    <2>1. /\ UNCHANGED preserved /\ job.pc = "manifest" /\ job'.pc = "end"
          /\ archive'.logs = archive.logs /\ archive'.report = archive.report
          /\ archive'.status = (IF preserved.quiet THEN "complete" ELSE "unqualified")
      BY <1>0, <1>5 DEF Manifest, At, To, JobRow
    <2>2. preserved.quiet => archive.logs = logs /\ archive.report = report /\ Closed
      BY <1>0, <2>1 DEF ArchiveSound
    <2>3. ~job.raised /\ preserved.errors = {} => preserved.quiet
      BY <1>0, <2>1 DEF ArchiveSound, JobSound, Preserving
    <2>. QED
      BY <1>0, <1>1, <1>2, <2>1, <2>2, <2>3 DEF ArchiveSound, Goes, unitVars, Closed
  <1>6. CASE SnapshotFails
    <2>1. /\ job.pc \in {"logs", "report", "manifest"} /\ job'.pc = "end" /\ UNCHANGED archive
          /\ "snapshot" \in preserved'.errors /\ preserved.errors \subseteq preserved'.errors
          /\ preserved'.verified = preserved.verified /\ preserved'.quiet = preserved.quiet
      BY <1>0, <1>6, FailingKeeps DEF SnapshotFails, SnapshotError, At, To, JobRow, Stages
    <2>. QED
      BY <1>0, <1>1, <1>2, <2>1 DEF ArchiveSound, Goes, unitVars, Closed
  <1>. QED
    BY <1>3, <1>4, <1>5, <1>6

\* The job passes only with nothing refused, and that is with a complete snapshot.
LEMMA EndKeeps ==
  ASSUME JobInv, End
  PROVE  ArchiveSound'
  <1>0. ArchiveSound /\ JobSound /\ job \in JobRow
    BY TypesOf DEF JobInv
  <1>1. [JobNext]_jobVars /\ Goes(job'.pc)
    BY StagesGo
  <1>2. /\ job.pc = "end" /\ UNCHANGED <<preserved, unitVars, files, archive>>
        /\ job'.pc = (IF job.raised \/ preserved.errors # {} THEN "failed" ELSE "passed")
    BY <1>0 DEF End, At, To, JobRow, outVars
  <1>3. job'.pc = "passed" => "partition" \in files /\ archive.status = "complete"
    BY <1>0, <1>2 DEF ArchiveSound, JobSound, Preserving
  <1>. QED
    BY <1>0, <1>1, <1>2, <1>3 DEF ArchiveSound, Goes, unitVars, Closed

LEMMA CancelKeeps ==
  ASSUME JobInv, Cancel
  PROVE  JobSound' /\ PartitionSound' /\ ArchiveSound'
  <1>0. JobSound /\ PartitionSound /\ ArchiveSound /\ job \in JobRow
    BY TypesOf DEF JobInv
  <1>1. /\ UNCHANGED <<preserved, worker, unitVars, outVars>> /\ job'.pc = "cancelled"
        /\ Goes("cancelled")
    BY <1>0, ToGoes DEF Cancel, Goes
  <1>. QED
    BY <1>0, <1>1 DEF JobSound, PartitionSound, ArchiveSound, Goes, Preparing, Monitoring, Preserving,
       unitVars, outVars, Closed

LEMMA JobStep == JobInv /\ [JobNext]_jobVars => JobInv'
  <1>. SUFFICES ASSUME JobInv, [JobNext]_jobVars PROVE JobInv'
    OBVIOUS
  <1>0. TypeOK /\ UnitSound
    BY DEF JobInv
  <1>1. CASE Exec \/ Baselines \/ Log \/ Record \/ Finish \/ UnitEnds \/ RuntimeMax \/ RemainsGo
    <2>1. TypeOK'
      BY <1>0, <1>1, UnitTypes
    <2>2. UnitSound'
      BY <1>1, UnitKeepsItself
    <2>3. JobSound' /\ PartitionSound' /\ ArchiveSound'
      BY <1>1, OthersKeep
    <2>. QED
      BY <2>1, <2>2, <2>3 DEF JobInv
  <1>2. CASE AdoptionChanges \/ UNCHANGED jobVars
    <2>1. adoption' \in 0..MaxChanges
      BY <1>0, <1>2, TypesOf, BoundsAreNatural DEF AdoptionChanges, jobVars
    <2>2. UNCHANGED <<job, preserved, worker, unitVars, outVars>>
      BY <1>2 DEF AdoptionChanges, jobVars
    <2>3. TypeOK'
      BY <1>0, <2>1, <2>2 DEF TypeOK, unitVars, outVars
    <2>4. UnitSound'
      BY <1>2, ControllerKeepsUnit
    <2>5. JobSound' /\ PartitionSound' /\ ArchiveSound'
      BY <1>2, OthersKeep
    <2>. QED
      BY <2>3, <2>4, <2>5 DEF JobInv
  <1>3. CASE Controller \/ Cancel
    <2>1. TypeOK'
      BY <1>0, <1>3, ControllerTypes
    <2>2. UnitSound'
      BY <1>3, ControllerKeepsUnit
    <2>3. ASSUME Adopt \/ Prepare \/ Launch \/ Verify
          PROVE  JobSound' /\ PartitionSound' /\ ArchiveSound'
      BY <2>3, PrepareKeeps
    <2>4. ASSUME OpenGate \/ Look \/ Progress \/ Ask \/ Kill \/ Close \/ Terminal \/ Collect
          PROVE  JobSound' /\ PartitionSound' /\ ArchiveSound'
      BY <2>4, MonitorKeeps
    <2>5. ASSUME Readopt
          PROVE  JobSound' /\ PartitionSound' /\ ArchiveSound'
      BY <2>5, ReadoptKeeps
    <2>6. ASSUME Stop \/ Closure \/ Journal \/ Snapshot \/ Read \/ Manifest \/ SnapshotFails \/ End
          PROVE  JobSound' /\ PartitionSound' /\ ArchiveSound'
      <3>1. JobSound' /\ PartitionSound'
        BY <2>6, StagesGo
      <3>2. ArchiveSound'
        BY <2>6, EarlyStagesKeep, SnapshotKeeps, EndKeeps
      <3>. QED
        BY <3>1, <3>2
    <2>7. ASSUME Cancel
          PROVE  JobSound' /\ PartitionSound' /\ ArchiveSound'
      BY <2>7, CancelKeeps
    <2>8. JobSound' /\ PartitionSound' /\ ArchiveSound'
      BY <1>3, <2>3, <2>4, <2>5, <2>6, <2>7 DEF Controller
    <2>. QED
      BY <2>1, <2>2, <2>8 DEF JobInv
  <1>. QED
    BY <1>1, <1>2, <1>3 DEF JobNext

LEMMA JobInvHolds == JobSpec => []JobInv
  <1>. QED
    BY JobStarts, JobStep, PTL DEF JobSpec

-----------------------------------------------------------------------------
(* The theorems.                                                           *)

\* Type correctness: the controller's record, what preserve knows, the unit as systemd
\* reports it, the campaign's report and everything in the evidence directory.
THEOREM JobTypeCorrect == JobSpec => []TypeOK
BY JobInvHolds, PTL DEF JobInv

\* Nothing of the partition is compiled, mutated or tested outside the verified caps.
THEOREM NothingRunsUncapped == JobSpec => []NothingUncapped
  <1>1. JobInv => NothingUncapped
    BY DEF JobInv, UnitSound, NothingUncapped
  <1>. QED
    BY <1>1, JobInvHolds, PTL

\* partition.json is the last word of a campaign that ended cleanly with enough kills,
\* whatever the unit, the adoption or the runner did meanwhile.
THEOREM CreditIsEarned == JobSpec => []CreditEarned
  <1>1. JobInv => CreditEarned
    <2>. SUFFICES ASSUME JobInv, "partition" \in files
                  PROVE  CreditEarned
      BY DEF CreditEarned
    <2>1. UnitSound /\ PartitionSound
      BY DEF JobInv
    <2>2. report.rows \in Nat /\ report.kills \in Nat /\ logs \in Nat
      BY TypesOf, BoundsAreNatural DEF JobInv, Reports
    <2>. QED
      BY <2>1, <2>2 DEF UnitSound, PartitionSound, Enough, Closed, CreditEarned
  <1>. QED
    BY <1>1, JobInvHolds, PTL

\* A snapshot called complete is whole and final, and a job that passes has left one.
THEOREM CompleteSnapshotIsWhole == JobSpec => []CompleteIsWhole
  <1>1. JobInv => CompleteIsWhole
    BY DEF JobInv, UnitSound, ArchiveSound, Closed, CompleteIsWhole
  <1>. QED
    BY <1>1, JobInvHolds, PTL
=============================================================================
