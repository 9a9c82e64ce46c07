-------------------------- MODULE MutationCampaign --------------------------
(***************************************************************************)
(* One checkout worked on by qualification/mutation_campaign.py: a process *)
(* measures a baseline, then writes one mutant after another into the      *)
(* source tree, compiles and tests it and puts the source back, with a     *)
(* journal of the mutation in flight and a marker for an execution whose   *)
(* descendants may be alive.  The process can be killed or interrupted     *)
(* between any two steps; an operator inspects, acknowledges and recovers. *)
(* The campaign lock admits one process, so one process is modelled; one   *)
(* test plan stands for the plans of a campaign.  What is done with the    *)
(* reports afterwards is in CampaignLineage.                               *)
(***************************************************************************)
EXTENDS Naturals, Sequences

CONSTANTS
  Candidates,   \* the selected mutants, in execution order
  People,       \* declared operators and inspectors
  MaxRuns,      \* bound of the model: campaigns started
  MaxFaults,    \* bound of the model: kills, signals and detached descendants
  MaxEdits      \* bound of the model: edits by another tool or person

ASSUME CampaignConstants ==
  /\ Candidates \in Seq(STRING) /\ MaxRuns \in Nat /\ MaxFaults \in Nat /\ MaxEdits \in Nat

VARIABLES
  source,      \* the bytes of the mutated file: "original", a mutant, "torn", "foreign"
  build,       \* the source that target/test.cjs was compiled from
  journal,     \* inflight.json: "none", "torn" or the mutant it names
  marker,      \* containment-unknown.json: the log it names, or NoLog
  child,       \* the process group under execution
  survivors,   \* descendants of ended executions that are still alive
  proc,        \* the campaign process
  reports,     \* the report of each campaign, in the order they began
  acks,        \* archived acknowledgements
  faults, edits

bounds == <<faults, edits>>
exec == <<build, child, survivors, marker, acks>>
campaignVars == <<source, journal, proc, reports, bounds, exec>>

\* "run" is the report that the process writes, or the one it restores; "tested" is
\* what the last test that ran to its end was a build of.
Off == [pc |-> "off", job |-> "none", phase |-> "none", at |-> 1, run |-> 0,
        unknown |-> FALSE, raising |-> FALSE, tested |-> "none"]
NoChild == [phase |-> "none", reads |-> "none"]
NoLog == [job |-> "none", run |-> 0, at |-> 0]

Init ==
  /\ source = "original" /\ build = "none" /\ journal = "none" /\ marker = NoLog
  /\ child = NoChild /\ survivors = {} /\ proc = Off
  /\ reports = <<>> /\ acks = {} /\ faults = 0 /\ edits = 0

At(pc) == proc.pc = pc
To(pc) == proc' = [proc EXCEPT !.pc = pc]
End == proc' = Off
Run(job, phase) ==
  proc' = [proc EXCEPT !.pc = "mark", !.job = job, !.phase = phase, !.unknown = FALSE,
                         !.tested = "none"]
\* On to the next candidate; or out of the try of a mutant, by an exception.
Advance(at) == proc' = [Off EXCEPT !.pc = "loop", !.at = at, !.run = proc.run]
Raise == proc' = [Off EXCEPT !.pc = "restore", !.at = proc.at, !.raising = TRUE]
Mutant == Candidates[proc.at]
Log == [job |-> proc.job, run |-> proc.run, at |-> proc.at]
Marked == marker # NoLog
Mutants == {Candidates[i] : i \in 1..Len(Candidates)}

\* A replacement that changes nothing is no candidate; the other names stand for
\* bytes that no mutation writes.
ASSUME MutantsDiffer == Mutants \cap {"original", "torn", "foreign", "none"} = {}

\* Three kinds of descendants may outlive an execution: one that left the process group
\* of a command which was cut off, one of a test process that the driver gave up, and
\* one that a command detached although it ended by itself.  The record of the first
\* says what it was doing when it was cut off.
Inner == [phase |-> "inner", reads |-> "none"]
Detached == [phase |-> "detached", reads |-> "none"]
CutOff(s) == s \notin {Inner, Detached}
Leave(left) == survivors' \in {survivors \cup some : some \in SUBSET left}

-----------------------------------------------------------------------------
(* execute and checked_execute                                             *)

Mark ==
  /\ At("mark") /\ marker' = Log /\ To("spawn")
  /\ UNCHANGED <<source, build, journal, child, survivors, reports, acks, bounds>>

Spawn ==
  /\ At("spawn") /\ To("wait")
  /\ child' = [phase |-> proc.phase,
               reads |-> IF proc.phase = "compile" THEN source ELSE "none"]
  /\ UNCHANGED <<source, build, journal, marker, survivors, reports, acks, bounds>>

\* A new detached descendant counts as a fault.
CountDetached ==
  /\ faults' = IF Detached \in survivors' \ survivors THEN faults + 1 ELSE faults
  /\ faults' <= MaxFaults

\* The command ends by itself within its bounds, which does not prove that nothing
\* detached.  The test driver may report a timeout of a test process of its own, which
\* then may have descendants left.
Finish ==
  /\ At("wait") /\ child' = NoChild
  /\ IF child.phase = "compile"
       THEN build' = child.reads /\ Leave({Detached}) /\ To("ended")
       ELSE /\ UNCHANGED build
            /\ \E inner \in BOOLEAN :
                 /\ proc' = [proc EXCEPT !.pc = "ended", !.unknown = inner, !.tested = build]
                 /\ Leave(IF inner THEN {Detached, Inner} ELSE {Detached})
  /\ CountDetached
  /\ UNCHANGED <<source, journal, marker, reports, acks, edits>>

\* Deadline or output bound: the group is killed and the marker stays.
MarkerDropped == NoLog
MarkerKept == marker
Abort ==
  /\ At("wait") /\ child' = NoChild /\ Leave({child}) /\ marker' = MarkerKept
  /\ proc' = [proc EXCEPT !.pc = "reported", !.unknown = TRUE]
  /\ UNCHANGED <<source, build, journal, reports, acks, bounds>>

Unmark ==
  /\ At("ended") /\ marker' = NoLog /\ To("remark")
  /\ UNCHANGED <<source, build, journal, child, survivors, reports, acks, bounds>>

\* checked_execute reads the driver's summary and marks again.
MarkerAsLeft == marker
MarkerAnew == IF proc.unknown THEN Log ELSE marker
Remark ==
  /\ At("remark") /\ marker' = MarkerAnew /\ To("reported")
  /\ UNCHANGED <<source, build, journal, child, survivors, reports, acks, bounds>>

-----------------------------------------------------------------------------
(* run_campaign                                                            *)

\* main: no marker, no journal, and the inventory wants a clean tree.
Ready == At("off") /\ ~Marked /\ journal = "none" /\ source = "original"

\* A report counts from the candidate after "start"; "before" and "after" are what
\* its baseline and its restored baseline were tested on.
NewReport(start, parent, operator) ==
  [start |-> start, parent |-> parent, operator |-> operator, terminal |-> "running",
   before |-> "none", after |-> "none", rows |-> <<>>]

Campaign(start, parent) ==
  /\ Len(reports) < MaxRuns
  /\ \E p \in People : reports' = Append(reports, NewReport(start, parent, p))
  /\ proc' = [Off EXCEPT !.pc = "mark", !.job = "baseline", !.phase = "compile",
                         !.at = start + 1, !.run = Len(reports) + 1]
  /\ UNCHANGED <<source, journal, bounds>> /\ UNCHANGED exec

Begin == Ready /\ Campaign(0, 0)

\* require_unchanged_tree.
TreeUnchanged == source = "original"
AllObserved == proc.at > Len(Candidates)

\* The execution of a baseline or of the restored baseline is over.
Plain ==
  /\ At("reported") /\ proc.job \in {"baseline", "restored"}
  /\ \/ End /\ UNCHANGED reports                    \* it failed
     \/ /\ ~proc.unknown /\ proc.phase = "compile"
        /\ Run(proc.job, "test") /\ UNCHANGED reports
     \/ /\ ~proc.unknown /\ proc.phase = "test" /\ TreeUnchanged
        /\ IF proc.job = "baseline"
             THEN reports' = [reports EXCEPT ![proc.run].before = proc.tested] /\ Advance(proc.at)
             ELSE /\ reports' = [reports EXCEPT ![proc.run].after = proc.tested,
                       ![proc.run].terminal = IF AllObserved THEN "complete" ELSE "partial"]
                  /\ End
  /\ UNCHANGED <<source, journal, bounds>> /\ UNCHANGED exec

\* The next candidate, or after the last one, the limit or SIGUSR1 the
\* restored baseline.
RestoredTested == Run("restored", "test")
RestoredCompiled == Run("restored", "compile")
Loop ==
  /\ At("loop")
  /\ \/ RestoredCompiled
     \/ /\ proc.at <= Len(Candidates)
        /\ IF TreeUnchanged THEN To("journal") ELSE End
  /\ UNCHANGED <<source, journal, reports, bounds>> /\ UNCHANGED exec

\* Neither the journal nor the source is written in one step: the file is
\* truncated, then written.
Truncate ==
  /\ \/ At("journal") /\ journal' = "torn" /\ UNCHANGED source /\ To("journalled")
     \/ At("mutate") /\ source' = "torn" /\ UNCHANGED journal /\ To("mutated")
     \/ At("tear") /\ source' = "torn" /\ UNCHANGED journal /\ To("rewrite")
  /\ UNCHANGED <<reports, bounds>> /\ UNCHANGED exec

Fill ==
  /\ \/ At("journalled") /\ journal' = Mutant /\ UNCHANGED source /\ To("mutate")
     \/ /\ At("mutated") /\ source' = Mutant /\ UNCHANGED journal /\ Run("mutant", "compile")
     \/ At("rewrite") /\ source' = "original" /\ UNCHANGED journal /\ To("unlink")
  /\ UNCHANGED <<reports, bounds>> /\ UNCHANGED exec

\* The execution of a mutant is over; require_only_mutant comes first.
Measured ==
  /\ At("reported") /\ proc.job = "mutant"
  /\ IF source # Mutant
       THEN Raise
       ELSE \/ To("restore")
            \/ ~proc.unknown /\ proc.phase = "compile" /\ Run("mutant", "test")
  /\ UNCHANGED <<source, journal, reports, bounds>> /\ UNCHANGED exec

\* restore overwrites nothing but the mutant it wrote and the original; when it
\* refuses, the journal stays.
AnyBytes(m) == TRUE
OwnBytes(m) == source \in {"original", m}
RefusalUnlinks == To("unlink")
Refusal == End
Restore ==
  /\ At("restore") /\ IF OwnBytes(Mutant) THEN To("tear") ELSE Refusal
  /\ UNCHANGED <<source, journal, reports, bounds>> /\ UNCHANGED exec

\* The journal goes last: unlinked by the campaign, renamed by recover.
Unlink ==
  /\ At("unlink") /\ journal' = "none"
  /\ IF proc.raising THEN End ELSE To("record")
  /\ UNCHANGED <<source, reports, bounds>> /\ UNCHANGED exec

\* The row is appended and the report saved; an unknown containment ends the run.
\* "killed" is a test that failed cleanly, "other" any other outcome.
Row(status) == [mutant |-> Mutant, status |-> status,
                tested |-> IF status = "killed" THEN proc.tested ELSE "none"]
Outcomes == IF proc.unknown THEN {"unknown"}
            ELSE IF proc.phase = "compile" THEN {"other"} ELSE {"killed", "other"}
Record ==
  /\ At("record")
  /\ IF ~TreeUnchanged
       THEN End /\ UNCHANGED reports
       ELSE /\ \E status \in Outcomes :
                 reports' = [reports EXCEPT ![proc.run].rows = Append(@, Row(status)),
                       ![proc.run].terminal = IF proc.unknown THEN "aborted" ELSE @]
            /\ IF proc.unknown THEN End ELSE Advance(proc.at + 1)
  /\ UNCHANGED <<source, journal, bounds>> /\ UNCHANGED exec

-----------------------------------------------------------------------------
(* --acknowledge-containment and --recover                                 *)

\* The inspector has dealt with what was left running before attesting it; the
\* archive keeps the marker, and here the number of campaigns begun before it.
Acknowledge ==
  /\ At("off") /\ Marked /\ marker' = NoLog /\ survivors' = {}
  /\ \E p \in People : acks' = acks \cup {[log |-> marker, by |-> p, before |-> Len(reports)]}
  /\ UNCHANGED <<source, build, journal, child, proc, reports, bounds>>

\* recover: a whole journal, no marker, and the bytes it names or the original.
Recover ==
  /\ At("off") /\ ~Marked /\ journal \in Mutants /\ OwnBytes(journal)
  /\ \E i \in 1..Len(Candidates) :
       /\ Candidates[i] = journal
       /\ proc' = [Off EXCEPT !.pc = IF source = "original" THEN "unlink" ELSE "tear",
                              !.at = i, !.raising = TRUE]
  /\ UNCHANGED <<source, journal, reports, bounds>> /\ UNCHANGED exec

-----------------------------------------------------------------------------
(* Kills, signals, other processes                                         *)

\* A descendant ends; a compiler that was cut off writes its output on the way.  One
\* that ended by itself has written it: what it detached is assumed to write no build.
SurvivorEnds(s) ==
  /\ s \in survivors /\ survivors' = survivors \ {s}
  /\ build' = IF s.phase = "compile" THEN s.reads ELSE build
  /\ UNCHANGED <<source, journal, marker, child, proc, reports, acks, bounds>>

\* SIGKILL: no finally block runs and the command, in a session of its own, lives on.
Kill ==
  /\ ~At("off") /\ faults < MaxFaults /\ faults' = faults + 1
  /\ End /\ child' = NoChild
  /\ survivors' = survivors \cup ({child} \ {NoChild})
  /\ UNCHANGED <<source, build, journal, marker, reports, acks, edits>>

\* SIGINT, SIGTERM: inside the try of a mutant the source is restored; execute
\* kills the group and leaves the marker.
InTry == proc.job = "mutant" /\ proc.pc \in {"mark", "spawn", "wait", "ended", "remark", "reported"}
Interrupt ==
  /\ ~At("off") /\ faults < MaxFaults /\ faults' = faults + 1
  /\ IF InTry \/ At("mutated")
       THEN Raise
       ELSE End
  /\ child' = NoChild
  /\ IF child = NoChild THEN UNCHANGED survivors ELSE Leave({child})
  /\ UNCHANGED <<source, build, journal, marker, reports, acks, edits>>

\* An edit by another tool, while a command runs or between two invocations.  The
\* documentation forbids it during a run.  The code compares and then writes: what
\* falls between the comparison and the write of run_campaign (825-837), of recover
\* (650-653) or of restore cannot be detected, and these windows are not modelled.
Edit ==
  /\ edits < MaxEdits /\ edits' = edits + 1
  /\ proc.pc \in {"off", "wait"} /\ source' = "foreign"
  /\ UNCHANGED <<journal, proc, reports, faults>> /\ UNCHANGED exec

\* git checkout of a file that recover refuses.
Checkout ==
  /\ At("off") /\ source \in {"foreign", "torn"} /\ source' = "original"
  /\ UNCHANGED <<journal, proc, reports, bounds>> /\ UNCHANGED exec

Next ==
  \/ Mark \/ Spawn \/ Finish \/ Abort \/ Unmark \/ Remark
  \/ Begin \/ Plain \/ Loop \/ Truncate \/ Fill \/ Measured \/ Restore \/ Unlink \/ Record
  \/ Acknowledge \/ Recover \/ Kill \/ Interrupt \/ Edit \/ Checkout
  \/ \E s \in survivors : SurvivorEnds(s)

Spec == Init /\ [][Next]_campaignVars

-----------------------------------------------------------------------------
\* While this runner's bytes are in the source tree, whole or torn, a whole
\* journal names the mutant, so that no death of the process loses the way back
\* (run_campaign's journal, try and finally).
MutationJournaled ==
  /\ source \in Mutants => journal = source
  /\ source = "torn" => journal \in Mutants

\* A descendant of an execution that was cut off, by a bound, a signal or a kill, blocks
\* later runs and recovery for as long as it may be alive; and an aborted report, the
\* driver's own timeouts included, blocks them by the marker of its last log until that
\* very log is acknowledged (execute, checked_execute, acknowledge_containment).
Observed(n) == reports[n].start + Len(reports[n].rows)
LastLog(n) == [job |-> "mutant", run |-> n, at |-> Observed(n)]
Attested(log) == \E a \in acks : a.log = log
CutOffsMarked == \A s \in survivors : CutOff(s) => Marked
AbortsMarked ==
  \A n \in 1..Len(reports) :
    reports[n].terminal = "aborted" => marker = LastLog(n) \/ Attested(LastLog(n))
SurvivorsMarked == CutOffsMarked /\ AbortsMarked

\* "A SIGINT, SIGTERM, hard interruption, timeout, overflow, or start failure during a
\* protected execution leaves the marker and blocks new runs and recovery"
\* (qualification/README.md): with no process and no marker, nothing is left but what a
\* command detached and ended normally.  The code breaks it: execute unlinks the marker
\* of a driver that reported a timeout before checked_execute marks anew.
ContainmentBlocks == At("off") /\ ~Marked => survivors \subseteq {Detached}

\* No step of the campaign or of recover overwrites bytes it did not write
\* (restore, recover): only the operator's checkout ends a foreign edit.
ForeignKept == [][source = "foreign" /\ source' # "foreign" => At("off") /\ proc' = proc]_campaignVars

=============================================================================
