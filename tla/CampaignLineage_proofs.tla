----------------------- MODULE CampaignLineage_proofs -----------------------
(***************************************************************************)
(* Theorems about a checkout under mutation campaigns, restorations and    *)
(* continuations: for every selection of mutants, any number of campaigns, *)
(* kills and edits, and any people.                                        *)
(*                                                                         *)
(* The inductive invariant is built in layers, each preserved by a step    *)
(* that the layers below are preserved by: types; what the program counter *)
(* says of the process (ControlSound); source and journal (SourceSound);   *)
(* marker and descendants (SurvivorsSound); what was measured              *)
(* (MeasuresSound); who inspected what (InspectionsSound); what the reports*)
(* hold (HistoriesSound); and what blocks the next run (BlocksSound).      *)
(***************************************************************************)
EXTENDS CampaignLineage, WellFoundedInduction, TLAPS

Pcs == {"off", "mark", "spawn", "wait", "ended", "remark", "reported", "loop", "journal",
        "journalled", "mutate", "mutated", "restore", "tear", "rewrite", "unlink", "record"}
Executing == {"mark", "spawn", "wait", "ended", "remark", "reported"}
Writing == {"journal", "journalled", "mutate", "mutated"}
Undoing == {"restore", "tear", "rewrite", "unlink"}
Jobs == {"none", "baseline", "mutant", "restored", "restore"}
Phases == {"none", "compile", "test"}
Bytes == Mutants \cup {"original", "torn", "foreign", "none"}

ProcRow == [pc : Pcs, job : Jobs, phase : Phases, at : Nat \ {0}, run : Nat,
            unknown : BOOLEAN, raising : BOOLEAN, tested : Bytes]
ChildRow == [phase : Phases, reads : Bytes]
Descendants == ChildRow \cup {Inner, Detached}
LogRow == [job : Jobs, run : Nat, at : Nat]
AckRow == [log : LogRow, by : People, before : Nat]
Measurement == [mutant : Bytes, status : {"killed", "other", "unknown"}, tested : Bytes]
ReportRow == [start : Nat, parent : Nat, operator : People,
              terminal : Ended \cup {"running"}, before : Bytes, after : Bytes,
              rows : Seq(Measurement)]
ReceiptRow == [of : Nat, before : Nat, tested : Bytes]

TypeOK ==
  /\ source \in Bytes /\ build \in Bytes /\ journal \in Bytes
  /\ marker \in LogRow /\ child \in ChildRow
  /\ survivors \in SUBSET Descendants
  /\ proc \in ProcRow
  /\ reports \in Seq(ReportRow)
  /\ acks \in SUBSET AckRow /\ receipts \in SUBSET ReceiptRow
  /\ faults \in Nat /\ edits \in Nat

-----------------------------------------------------------------------------
\* What the program counter says of the rest of the process, and of its child.
OnMutant == proc.pc \in Writing \cup Undoing \cup {"record"} \/ proc.job = "mutant"

ControlSound ==
  /\ proc.pc \in Executing => proc.job # "none" /\ proc.phase \in {"compile", "test"}
  /\ proc.job # "none" => proc.pc \in Executing \cup Undoing \cup {"record"}
  /\ proc.unknown => proc.pc \in {"ended", "remark", "reported", "record"} \cup Undoing
  /\ proc.unknown /\ proc.pc \in {"ended", "remark"} => proc.phase = "test"
  /\ proc.raising => proc.pc \in Undoing /\ proc.job = "none"
  /\ OnMutant => proc.at <= Len(Candidates)
  /\ proc.pc \in Undoing \cup {"record"} /\ ~proc.raising =>
       proc.job = "mutant" /\ proc.phase \in {"compile", "test"}
  /\ proc.pc # "off" /\ ~proc.raising => proc.run \in 1..Len(reports)
  /\ IF proc.pc = "wait" THEN child.phase = proc.phase ELSE child = NoChild

\* From the journal's first byte to the mutant's, the source is the original; from
\* there to the unlink, the journal is whole.
SourceSound ==
  /\ source # "none"
  /\ MutationJournaled
  /\ proc.pc \in {"loop", "journal", "journalled", "mutate", "unlink"} => source = "original"
  /\ proc.pc \in {"mutated", "rewrite"} => source = "torn"
  /\ proc.pc = "tear" => source \in {"original", Mutant}
  /\ proc.pc \in {"mutate", "mutated"} \cup Undoing => journal = Mutant
  /\ proc.pc \in Executing /\ proc.job = "mutant" => journal = Mutant

\* The marker names the execution in hand until it ended by itself, and from the mark
\* anew on when its containment is unknown; and a process that has seen no containment
\* fail started with nothing alive that was cut off, and has cut off nothing since.
SurvivorsSound ==
  /\ CutOffsMarked
  /\ proc.pc \in {"spawn", "wait", "ended"} => marker = Log
  /\ proc.unknown /\ proc.pc \in {"reported", "record"} \cup Undoing => marker = Log
  /\ proc.pc # "off" /\ ~proc.raising /\ (~proc.unknown \/ proc.pc \in {"ended", "remark"}) =>
       \A s \in survivors : ~CutOff(s)

\* What the execution in hand is to measure.
Target == IF proc.job = "mutant" THEN Mutant ELSE "original"

\* The bytes that an execution started from are those it was to measure, through its
\* compilation, its build and its test.
ExecutionSound ==
  /\ proc.pc \in {"mark", "spawn"} /\ proc.phase = "compile" => source = Target
  /\ proc.pc = "wait" /\ proc.phase = "compile" => child.reads = Target
  /\ proc.pc \in {"ended", "remark", "reported"} /\ proc.phase = "compile" /\ ~proc.unknown =>
       build = Target
  /\ proc.pc \in {"mark", "spawn", "wait"} /\ proc.phase = "test" => build = Target
  /\ proc.pc \in {"ended", "remark", "reported"} /\ proc.phase = "test" /\ ~proc.unknown =>
       proc.tested = Target
  /\ proc.pc \in Undoing \cup {"record"} /\ ~proc.raising /\ ~proc.unknown
       /\ proc.phase = "test" => proc.tested = Mutant

\* A kill in a report is of a build of the mutant that its row names, and a baseline,
\* a restored baseline and a receipt are of a build of the original.
RowGenuine(row) == row.status = "killed" => row.tested = row.mutant
ReportGenuine(r) ==
  /\ r.before \in {"none", "original"} /\ r.after \in {"none", "original"}
  /\ \A i \in 1..Len(r.rows) : RowGenuine(r.rows[i])
MeasurementsGenuine ==
  /\ \A n \in 1..Len(reports) : ReportGenuine(reports[n])
  /\ \A c \in receipts : c.tested = "original"

MeasuresSound == ExecutionSound /\ MeasurementsGenuine

\* A restoration in hand is of a report that was inspected.
InspectionsSound ==
  /\ AbortsInspected
  /\ proc.job = "restore" => InspectedBy(proc.run, Len(reports))
  /\ \A a \in acks : a.before <= Len(reports)
  /\ \A c \in receipts : c.of \in 1..Len(reports) /\ c.before <= Len(reports)
  /\ \A n \in 1..Len(reports) : reports[n].parent \in 0..(n - 1)

\* The process works on the report it runs: the candidate at hand is the next that the
\* report has no row for, and its baseline is in once the baseline's job is over.
RunSound ==
  proc.pc # "off" /\ ~proc.raising /\ proc.job # "restore" =>
    /\ reports[proc.run].terminal = "running"
    /\ proc.at = Observed(proc.run) + 1
    /\ proc.job # "baseline" => reports[proc.run].before = "original"

\* Each report by itself is what load_history wants of it: its rows are in order, the
\* terminal state is the one they call for, and both baselines are in by then; a
\* continuation has an aborted parent and a receipt that is older than itself.
RowsSound(r) ==
  /\ r.start + Len(r.rows) <= Len(Candidates)
  /\ \A i \in 1..Len(r.rows) :
       /\ r.rows[i].mutant = Candidates[r.start + i]
       /\ r.rows[i].status = "unknown" => i = Len(r.rows) /\ r.terminal = "aborted"
  /\ r.terminal = "aborted" => r.rows # <<>> /\ r.rows[Len(r.rows)].status = "unknown"
  /\ r.terminal = "complete" => r.start + Len(r.rows) = Len(Candidates)
  /\ r.terminal \in {"complete", "partial"} => r.after = "original"
  /\ r.terminal \in Ended => r.before = "original"
ReportSound(n) ==
  /\ RowsSound(reports[n]) /\ Resumes(n)
  /\ reports[n].parent # 0 =>
       /\ reports[reports[n].parent].terminal = "aborted"
       /\ \E c \in receipts : c.of = reports[n].parent /\ c.before < n

HistoriesSound == RunSound /\ \A n \in 1..Len(reports) : ReportSound(n)

\* A process works, or recovers, only when every abort so far is attested: no process
\* clears the marker of another's abort.
BlocksSound ==
  /\ AbortsMarked
  /\ proc.pc # "off" =>
       \A n \in 1..Len(reports) : reports[n].terminal = "aborted" => Attested(LastLog(n))

LineageInv ==
  /\ TypeOK /\ ControlSound /\ SourceSound /\ SurvivorsSound
  /\ MeasuresSound /\ InspectionsSound /\ HistoriesSound /\ BlocksSound

-----------------------------------------------------------------------------
(* Helpers.                                                                *)

\* A mutant is not one of the names for other bytes.
LEMMA MutantsAreOwn ==
  /\ "original" \notin Mutants /\ "torn" \notin Mutants
  /\ "foreign" \notin Mutants /\ "none" \notin Mutants
BY MutantsDiffer

LEMMA MutantInRange ==
  ASSUME TypeOK, proc.at <= Len(Candidates)
  PROVE  Mutant \in Mutants
BY CampaignConstants DEF TypeOK, ProcRow, Mutant, Mutants

\* What the actions give the process is a process.
LEMMA OffTyped == Off \in ProcRow
BY DEF Off, ProcRow, Pcs, Jobs, Phases, Bytes

LEMMA ToTyped ==
  ASSUME TypeOK, NEW pc \in Pcs, To(pc)
  PROVE  proc' \in ProcRow
BY DEF TypeOK, To, ProcRow

LEMMA RunTyped ==
  ASSUME TypeOK, NEW job \in Jobs, NEW phase \in Phases, Run(job, phase)
  PROVE  proc' \in ProcRow
BY DEF TypeOK, Run, ProcRow, Pcs, Bytes

LEMMA AdvanceTyped ==
  ASSUME TypeOK, NEW at \in Nat \ {0}, Advance(at)
  PROVE  proc' \in ProcRow
BY OffTyped DEF TypeOK, Advance, ProcRow, Pcs

LEMMA RaiseTyped ==
  ASSUME TypeOK, Raise
  PROVE  proc' \in ProcRow
BY OffTyped DEF TypeOK, Raise, ProcRow, Pcs

LEMMA NoneTyped == NoLog \in LogRow /\ NoChild \in ChildRow
BY DEF NoLog, LogRow, NoChild, ChildRow, Jobs, Phases, Bytes

LEMMA LogTyped ==
  ASSUME TypeOK
  PROVE  Log \in LogRow /\ Log # NoLog
BY DEF TypeOK, ProcRow, Log, NoLog, LogRow

\* What an execution leaves are descendants; a cut-off one says so.
LEMMA LeaveTyped ==
  ASSUME TypeOK, NEW left \in SUBSET Descendants, Leave(left)
  PROVE  survivors' \in SUBSET Descendants /\ survivors' \subseteq survivors \cup left
BY DEF TypeOK, Leave

LEMMA ChildIsCutOff ==
  ASSUME TypeOK
  PROVE  child \in Descendants
BY DEF TypeOK, Descendants

\* A campaign appends its report.
LEMMA CampaignTyped ==
  ASSUME TypeOK, NEW start \in Nat, NEW parent \in Nat, Campaign(start, parent),
         UNCHANGED receipts
  PROVE  TypeOK'
<1>1. PICK p \in People : reports' = Append(reports, NewReport(start, parent, p))
  BY DEF Campaign
<1>2. NewReport(start, parent, p) \in ReportRow
  <2>1. <<>> \in Seq(Measurement)
    OBVIOUS
  <2>. QED  BY <2>1 DEF NewReport, ReportRow, Ended, Bytes
<1>3. reports' \in Seq(ReportRow)
  BY <1>1, <1>2 DEF TypeOK
<1>4. proc' \in ProcRow
  <2>1. start + 1 \in Nat \ {0} /\ Len(reports) + 1 \in Nat
    BY DEF TypeOK
  <2>. QED  BY <2>1, OffTyped DEF Campaign, ProcRow, Pcs, Jobs, Phases
<1>. QED  BY <1>3, <1>4 DEF TypeOK, Campaign, exec, bounds

-----------------------------------------------------------------------------
(* Types.                                                                  *)

LEMMA RecordTyped ==
  ASSUME TypeOK, ControlSound, Record
  PROVE  reports' \in Seq(ReportRow) /\ proc' \in ProcRow
<1>1. CASE ~TreeUnchanged
  BY <1>1, OffTyped DEF TypeOK, Record, End
<1>2. CASE TreeUnchanged
  <2>1. PICK status \in Outcomes :
          reports' = [reports EXCEPT ![proc.run].rows = Append(@, Row(status)),
                        ![proc.run].terminal = IF proc.unknown THEN "aborted" ELSE @]
    BY <1>2 DEF Record
  <2>2. proc.pc = "record" /\ ~proc.raising /\ proc.run \in 1..Len(reports)
        /\ proc.at <= Len(Candidates)
    BY DEF Record, At, ControlSound, OnMutant, Undoing
  <2>3. Row(status) \in Measurement
    <3>1. status \in {"killed", "other", "unknown"}
      BY DEF Outcomes
    <3>2. Mutant \in Bytes
      BY <2>2, MutantInRange DEF Bytes
    <3>3. (IF status = "killed" THEN proc.tested ELSE "none") \in Bytes
      BY DEF TypeOK, ProcRow, Bytes
    <3>. QED  BY <3>1, <3>2, <3>3 DEF Row, Measurement
  <2>4. PICK r : r = reports[proc.run]
    OBVIOUS
  <2>5. r \in ReportRow
    BY <2>2, <2>4 DEF TypeOK
  <2>6. Append(r.rows, Row(status)) \in Seq(Measurement)
    BY <2>3, <2>5 DEF ReportRow
  <2>7. PICK x : x = IF proc.unknown THEN "aborted" ELSE r.terminal
    OBVIOUS
  <2>8. x \in Ended \cup {"running"}
    BY <2>5, <2>7 DEF ReportRow, Ended
  <2>9. PICK q : q = [r EXCEPT !.rows = Append(r.rows, Row(status)), !.terminal = x]
    OBVIOUS
  <2>10. q \in ReportRow
    BY <2>5, <2>6, <2>8, <2>9 DEF ReportRow
  <2>11. reports' = [reports EXCEPT ![proc.run] = q]
    BY <2>1, <2>2, <2>4, <2>7, <2>9 DEF TypeOK
  <2>12. reports' \in Seq(ReportRow)
    BY <2>2, <2>10, <2>11 DEF TypeOK
  <2>13. proc' \in ProcRow
    <3>1. CASE proc.unknown
      BY <3>1, <1>2, OffTyped DEF Record, End
    <3>2. CASE ~proc.unknown
      <4>1. proc.at + 1 \in Nat \ {0}
        BY DEF TypeOK, ProcRow
      <4>. QED  BY <3>2, <4>1, <1>2, AdvanceTyped DEF Record
    <3>. QED  BY <3>1, <3>2
  <2>. QED  BY <2>12, <2>13
<1>. QED  BY <1>1, <1>2

LEMMA PlainTyped ==
  ASSUME TypeOK, ControlSound, Plain
  PROVE  reports' \in Seq(ReportRow) /\ proc' \in ProcRow
<1>1. proc.pc = "reported" /\ ~proc.raising /\ proc.run \in 1..Len(reports)
      /\ proc.job \in Jobs /\ proc.at \in Nat \ {0}
  BY DEF Plain, At, ControlSound, Undoing, TypeOK, ProcRow
<1>2. PICK r : r = reports[proc.run]
  OBVIOUS
<1>3. r \in ReportRow
  BY <1>1, <1>2 DEF TypeOK
<1>4. CASE End /\ UNCHANGED reports
  BY <1>4, OffTyped DEF TypeOK, End
<1>5. CASE Run(proc.job, "test") /\ UNCHANGED reports
  BY <1>1, <1>5, RunTyped DEF TypeOK, Phases
<1>6. CASE reports' = [reports EXCEPT ![proc.run].before = proc.tested] /\ Advance(proc.at)
  <2>1. [r EXCEPT !.before = proc.tested] \in ReportRow
    BY <1>3 DEF TypeOK, ProcRow, ReportRow
  <2>2. reports' = [reports EXCEPT ![proc.run] = [r EXCEPT !.before = proc.tested]]
    BY <1>2, <1>6
  <2>3. reports' \in Seq(ReportRow)
    BY <1>1, <2>1, <2>2 DEF TypeOK
  <2>. QED  BY <2>3, <1>1, <1>6, AdvanceTyped
<1>7. CASE /\ reports' = [reports EXCEPT ![proc.run].after = proc.tested,
                       ![proc.run].terminal = IF AllObserved THEN "complete" ELSE "partial"]
           /\ End
  <2>1. PICK x : x = IF AllObserved THEN "complete" ELSE "partial"
    OBVIOUS
  <2>2. x \in Ended
    BY <2>1 DEF Ended
  <2>3. PICK q : q = [r EXCEPT !.after = proc.tested, !.terminal = x]
    OBVIOUS
  <2>4. q \in ReportRow
    BY <1>3, <2>2, <2>3 DEF TypeOK, ProcRow, ReportRow
  <2>5. reports' = [reports EXCEPT ![proc.run] = q]
    BY <1>1, <1>2, <1>7, <2>1, <2>3 DEF TypeOK
  <2>6. reports' \in Seq(ReportRow)
    BY <1>1, <2>4, <2>5 DEF TypeOK
  <2>. QED  BY <2>6, <1>7, OffTyped DEF End
<1>. QED  BY <1>4, <1>5, <1>6, <1>7 DEF Plain

LEMMA TypeStep ==
  ASSUME TypeOK, ControlSound, [LineageNext]_vars
  PROVE  TypeOK'
<1>. USE DEF bounds, exec, At
<1>1. CASE Mark /\ UNCHANGED receipts
  BY <1>1, LogTyped, ToTyped DEF Mark, TypeOK, Pcs
<1>2. CASE Spawn /\ UNCHANGED receipts
  <2>1. child' \in ChildRow
    BY <1>2 DEF Spawn, TypeOK, ChildRow, ProcRow, Bytes
  <2>. QED  BY <1>2, <2>1, ToTyped DEF Spawn, TypeOK, Pcs
<1>3. CASE Finish /\ UNCHANGED receipts
  <2>0. {Detached} \in SUBSET Descendants /\ {Detached, Inner} \in SUBSET Descendants
    BY DEF Descendants
  <2>3. faults' \in Nat /\ edits' \in Nat
    <3>1. CountDetached /\ edits' = edits
      BY <1>3 DEF Finish
    <3>2. faults' \in {faults, faults + 1}
      BY <3>1 DEF CountDetached
    <3>3. faults \in Nat /\ edits \in Nat
      BY DEF TypeOK
    <3>. QED  BY <3>1, <3>2, <3>3
  <2>1. CASE child.phase = "compile"
    <3>1. build' \in Bytes /\ Leave({Detached}) /\ To("ended")
      BY <1>3, <2>1 DEF Finish, TypeOK, ChildRow
    <3>. QED  BY <1>3, <2>0, <2>3, <3>1, LeaveTyped, ToTyped, NoneTyped DEF Finish, TypeOK, Pcs
  <2>2. CASE child.phase # "compile"
    <3>1. PICK inner \in BOOLEAN :
            /\ proc' = [proc EXCEPT !.pc = "ended", !.unknown = inner, !.tested = build]
            /\ Leave(IF inner THEN {Detached, Inner} ELSE {Detached})
      BY <1>3, <2>2 DEF Finish
    <3>2. proc' \in ProcRow
      BY <3>1 DEF TypeOK, ProcRow, Pcs
    <3>3. survivors' \in SUBSET Descendants
      BY <2>0, <3>1, LeaveTyped
    <3>. QED  BY <1>3, <2>2, <2>3, <3>2, <3>3, NoneTyped DEF Finish, TypeOK
  <2>. QED  BY <2>1, <2>2
<1>4. CASE Abort /\ UNCHANGED receipts
  <2>1. proc' \in ProcRow
    BY <1>4 DEF Abort, TypeOK, ProcRow, Pcs
  <2>2. survivors' \in SUBSET Descendants
    BY <1>4, ChildIsCutOff, LeaveTyped DEF Abort
  <2>. QED  BY <1>4, <2>1, <2>2, NoneTyped DEF Abort, MarkerKept, TypeOK
<1>5. CASE Unmark /\ UNCHANGED receipts
  BY <1>5, ToTyped, NoneTyped DEF Unmark, TypeOK, Pcs
<1>6. CASE Remark /\ UNCHANGED receipts
  BY <1>6, ToTyped, LogTyped DEF Remark, MarkerAnew, TypeOK, Pcs
<1>7. CASE Begin /\ UNCHANGED receipts
  BY <1>7, CampaignTyped DEF Begin
<1>8. CASE Plain /\ UNCHANGED receipts
  BY <1>8, PlainTyped DEF Plain, TypeOK
<1>9. CASE Loop /\ UNCHANGED receipts
  <2>1. proc' \in ProcRow
    BY <1>9, RunTyped, ToTyped, OffTyped DEF Loop, RestoredCompiled, End, Pcs, Jobs, Phases
  <2>. QED  BY <1>9, <2>1 DEF Loop, TypeOK
<1>10. CASE Truncate /\ UNCHANGED receipts
  <2>1. proc' \in ProcRow
    BY <1>10, ToTyped DEF Truncate, Pcs
  <2>. QED  BY <1>10, <2>1 DEF Truncate, TypeOK, Bytes
<1>11. CASE Fill /\ UNCHANGED receipts
  <2>1. proc' \in ProcRow
    BY <1>11, ToTyped, RunTyped DEF Fill, Pcs, Jobs, Phases
  <2>2. At("journalled") \/ At("mutated") => Mutant \in Bytes
    BY MutantInRange DEF ControlSound, OnMutant, Writing, Bytes
  <2>3. source' \in Bytes /\ journal' \in Bytes
    BY <1>11, <2>2 DEF Fill, TypeOK, Bytes
  <2>. QED  BY <1>11, <2>1, <2>3 DEF Fill, TypeOK
<1>12. CASE Measured /\ UNCHANGED receipts
  <2>1. proc' \in ProcRow
    BY <1>12, ToTyped, RunTyped, RaiseTyped DEF Measured, Pcs, Jobs, Phases
  <2>. QED  BY <1>12, <2>1 DEF Measured, TypeOK
<1>13. CASE Restore /\ UNCHANGED receipts
  <2>1. proc' \in ProcRow
    BY <1>13, ToTyped, OffTyped DEF Restore, Refusal, End, Pcs
  <2>. QED  BY <1>13, <2>1 DEF Restore, TypeOK
<1>14. CASE Unlink /\ UNCHANGED receipts
  <2>1. proc' \in ProcRow
    BY <1>14, ToTyped, OffTyped DEF Unlink, End, Pcs
  <2>. QED  BY <1>14, <2>1 DEF Unlink, TypeOK, Bytes
<1>15. CASE Record /\ UNCHANGED receipts
  BY <1>15, RecordTyped DEF Record, TypeOK
<1>16. CASE Acknowledge /\ UNCHANGED receipts
  <2>1. \A p \in People : [log |-> marker, by |-> p, before |-> Len(reports)] \in AckRow
    BY DEF TypeOK, AckRow
  <2>2. acks' \in SUBSET AckRow
    BY <1>16, <2>1 DEF Acknowledge, TypeOK
  <2>. QED  BY <1>16, <2>2, NoneTyped DEF Acknowledge, TypeOK
<1>17. CASE Recover /\ UNCHANGED receipts
  <2>1. PICK i \in 1..Len(Candidates) :
          proc' = [Off EXCEPT !.pc = IF source = "original" THEN "unlink" ELSE "tear",
                              !.at = i, !.raising = TRUE]
    BY <1>17 DEF Recover
  <2>2. i \in Nat \ {0}
    BY CampaignConstants
  <2>3. proc' \in ProcRow
    BY <2>1, <2>2, OffTyped DEF ProcRow, Pcs
  <2>. QED  BY <1>17, <2>3 DEF Recover, TypeOK
<1>18. CASE Kill /\ UNCHANGED receipts
  BY <1>18, OffTyped, NoneTyped, ChildIsCutOff DEF Kill, End, TypeOK
<1>19. CASE Interrupt /\ UNCHANGED receipts
  <2>1. proc' \in ProcRow
    BY <1>19, RaiseTyped, OffTyped DEF Interrupt, End
  <2>2. survivors' \in SUBSET Descendants
    BY <1>19, ChildIsCutOff, LeaveTyped DEF Interrupt, TypeOK
  <2>. QED  BY <1>19, <2>1, <2>2, NoneTyped DEF Interrupt, TypeOK
<1>20. CASE Edit /\ UNCHANGED receipts
  BY <1>20 DEF Edit, TypeOK, Bytes
<1>21. CASE Checkout /\ UNCHANGED receipts
  BY <1>21 DEF Checkout, TypeOK, Bytes
<1>22. ASSUME NEW s \in survivors, SurvivorEnds(s), UNCHANGED receipts
       PROVE  TypeOK'
  <2>1. build' \in Bytes
    BY <1>22 DEF SurvivorEnds, TypeOK, ChildRow, Descendants, Inner, Detached
  <2>. QED  BY <1>22, <2>1 DEF SurvivorEnds, TypeOK
<1>23. ASSUME NEW n \in 1..Len(reports), RestoreFrom(n)
       PROVE  TypeOK'
  <2>1. n \in Nat
    BY DEF TypeOK
  <2>2. proc' \in ProcRow
    BY <1>23, <2>1, OffTyped DEF RestoreFrom, ProcRow, Pcs, Jobs, Phases
  <2>. QED  BY <1>23, <2>2 DEF RestoreFrom, TypeOK
<1>24. ASSUME NEW n \in 1..Len(reports), ContinueFrom(n)
       PROVE  TypeOK'
  <2>1. reports[n] \in ReportRow
    BY DEF TypeOK
  <2>2. Len(reports[n].rows) \in Nat /\ reports[n].start \in Nat
    BY <2>1 DEF ReportRow
  <2>3. NextIndex(n) \in Nat /\ n \in Nat
    BY <2>2 DEF TypeOK, NextIndex, Observed
  <2>. QED  BY <1>24, <2>3, CampaignTyped DEF ContinueFrom
<1>25. CASE Restoration
  <2>1. proc' \in ProcRow
    BY <1>25, RunTyped, OffTyped DEF Restoration, End, Jobs, Phases
  <2>2. [of |-> proc.run, before |-> Len(reports), tested |-> proc.tested] \in ReceiptRow
    BY DEF TypeOK, ProcRow, ReceiptRow
  <2>3. receipts' \in SUBSET ReceiptRow
    BY <1>25, <2>2 DEF Restoration, TypeOK
  <2>. QED  BY <1>25, <2>1, <2>3 DEF Restoration, TypeOK
<1>26. CASE UNCHANGED vars
  BY <1>26 DEF vars, campaignVars, TypeOK
<1>. QED
  BY <1>1, <1>2, <1>3, <1>4, <1>5, <1>6, <1>7, <1>8, <1>9, <1>10, <1>11, <1>12, <1>13, <1>14,
     <1>15, <1>16, <1>17, <1>18, <1>19, <1>20, <1>21, <1>22, <1>23, <1>24, <1>25, <1>26
     DEF LineageNext, Next

-----------------------------------------------------------------------------
(* What the program counter says.                                          *)

\* Rows and measurements are written into a report; none is added or dropped, and what
\* it says of its parent, its start and its operator stays.
LEMMA ReportsStay ==
  ASSUME TypeOK, ControlSound, Plain \/ Record
  PROVE  /\ Len(reports') = Len(reports)
         /\ \A n \in 1..Len(reports) :
              /\ reports'[n].operator = reports[n].operator
              /\ reports'[n].parent = reports[n].parent
              /\ reports'[n].start = reports[n].start
<1>1. DOMAIN reports' = DOMAIN reports
  BY DEF Plain, Record, TypeOK
<1>2. reports' \in Seq(ReportRow) /\ reports \in Seq(ReportRow)
  BY PlainTyped, RecordTyped DEF TypeOK
<1>3. Len(reports') = Len(reports)
  BY <1>1, <1>2
<1>5. proc.run \in 1..Len(reports)
  BY DEF Plain, Record, At, ControlSound, Undoing
<1>4. ASSUME NEW n \in 1..Len(reports)
      PROVE  /\ reports'[n].operator = reports[n].operator
             /\ reports'[n].parent = reports[n].parent
             /\ reports'[n].start = reports[n].start
  <2>1. reports[n] \in ReportRow
    BY <1>2
  <2>5. PICK r : r = reports[n]
    OBVIOUS
  <2>2. CASE Plain
    <3>1. CASE UNCHANGED reports
      BY <3>1
    <3>2. CASE reports' = [reports EXCEPT ![proc.run].before = proc.tested]
      <4>1. reports'[n] = r \/ reports'[n] = [r EXCEPT !.before = proc.tested]
        BY <3>2, <2>5, <1>2
      <4>. QED  BY <4>1, <2>1, <2>5 DEF ReportRow
    <3>3. CASE reports' = [reports EXCEPT ![proc.run].after = proc.tested,
                   ![proc.run].terminal = IF AllObserved THEN "complete" ELSE "partial"]
      <4>1. PICK x : x = IF AllObserved THEN "complete" ELSE "partial"
        OBVIOUS
      <4>2. reports' = [reports EXCEPT ![proc.run].after = proc.tested, ![proc.run].terminal = x]
        BY <3>3, <4>1
      <4>3. reports'[n] = r \/ reports'[n] = [r EXCEPT !.after = proc.tested, !.terminal = x]
        <5>1. PICK q : q = [reports[proc.run] EXCEPT !.after = proc.tested, !.terminal = x]
          OBVIOUS
        <5>2. reports' = [reports EXCEPT ![proc.run] = q]
          BY <4>2, <5>1, <1>5, <1>2
        <5>3. CASE n = proc.run
          <6>1. reports'[n] = q
            BY <5>2, <5>3, <1>2
          <6>2. q = [r EXCEPT !.after = proc.tested, !.terminal = x]
            BY <5>1, <5>3, <2>5
          <6>. QED  BY <6>1, <6>2
        <5>4. CASE n # proc.run
          BY <5>2, <5>4, <2>5, <1>2
        <5>. QED  BY <5>3, <5>4
      <4>. QED  BY <4>3, <2>1, <2>5 DEF ReportRow
    <3>. QED  BY <2>2, <3>1, <3>2, <3>3 DEF Plain
  <2>3. CASE Record
    <3>1. CASE UNCHANGED reports
      BY <3>1
    <3>2. ASSUME NEW status \in Outcomes,
            reports' = [reports EXCEPT ![proc.run].rows = Append(@, Row(status)),
                         ![proc.run].terminal = IF proc.unknown THEN "aborted" ELSE @]
          PROVE  /\ reports'[n].operator = reports[n].operator
                 /\ reports'[n].parent = reports[n].parent
                 /\ reports'[n].start = reports[n].start
      <4>1. PICK x : x = IF proc.unknown THEN "aborted" ELSE reports[proc.run].terminal
        OBVIOUS
      <4>2. PICK y : y = Append(reports[proc.run].rows, Row(status))
        OBVIOUS
      <4>3. reports' = [reports EXCEPT ![proc.run].rows = y, ![proc.run].terminal = x]
        BY <3>2, <4>1, <4>2
      <4>4. reports'[n] = r \/ reports'[n] = [r EXCEPT !.rows = y, !.terminal = x]
        <5>1. PICK q : q = [reports[proc.run] EXCEPT !.rows = y, !.terminal = x]
          OBVIOUS
        <5>2. reports' = [reports EXCEPT ![proc.run] = q]
          BY <4>3, <5>1, <1>5, <1>2
        <5>3. CASE n = proc.run
          <6>1. reports'[n] = q
            BY <5>2, <5>3, <1>2
          <6>2. q = [r EXCEPT !.rows = y, !.terminal = x]
            BY <5>1, <5>3, <2>5
          <6>. QED  BY <6>1, <6>2
        <5>4. CASE n # proc.run
          BY <5>2, <5>4, <2>5, <1>2
        <5>. QED  BY <5>3, <5>4
      <4>. QED  BY <4>4, <2>1, <2>5 DEF ReportRow
    <3>. QED  BY <2>3, <3>1, <3>2 DEF Record
  <2>. QED  BY <2>2, <2>3
<1>. QED  BY <1>3, <1>4

LEMMA ControlStep ==
  ASSUME TypeOK, ControlSound, [LineageNext]_vars
  PROVE  ControlSound'
<1>. USE DEF ControlSound, OnMutant, At, To, Run, Executing, Writing, Undoing, exec, bounds,
     End, Off, TypeOK, ProcRow
<1>1. CASE Mark /\ UNCHANGED receipts
  BY <1>1 DEF Mark
<1>2. CASE Spawn /\ UNCHANGED receipts
  BY <1>2 DEF Spawn
<1>3. CASE Finish /\ UNCHANGED receipts
  <2>0. proc.pc = "wait" /\ ~proc.unknown /\ ~proc.raising /\ child' = NoChild
    BY <1>3 DEF Finish
  <2>1. CASE To("ended")
    BY <2>0, <2>1, <1>3 DEF Finish
  <2>2. ASSUME NEW inner \in BOOLEAN, child.phase # "compile",
          proc' = [proc EXCEPT !.pc = "ended", !.unknown = inner, !.tested = build]
        PROVE  ControlSound'
    BY <2>0, <2>2, <1>3 DEF Finish
  <2>. QED  BY <2>1, <2>2, <1>3 DEF Finish
<1>4. CASE Abort /\ UNCHANGED receipts
  BY <1>4 DEF Abort
<1>5. CASE Unmark /\ UNCHANGED receipts
  BY <1>5 DEF Unmark
<1>6. CASE Remark /\ UNCHANGED receipts
  BY <1>6 DEF Remark
<1>7. CASE Begin /\ UNCHANGED receipts
  BY <1>7 DEF Begin, Campaign, Ready
<1>8. CASE Plain /\ UNCHANGED receipts
  <2>0. proc.pc = "reported" /\ ~proc.raising /\ child = NoChild /\ Len(reports') = Len(reports)
    BY <1>8, ReportsStay DEF Plain
  <2>1. CASE End
    BY <2>0, <2>1, <1>8 DEF Plain
  <2>2. CASE ~proc.unknown /\ Run(proc.job, "test")
    BY <2>0, <2>2, <1>8 DEF Plain
  <2>3. CASE Advance(proc.at)
    BY <2>0, <2>3, <1>8 DEF Plain, Advance
  <2>. QED  BY <2>1, <2>2, <2>3, <1>8 DEF Plain
<1>9. CASE Loop /\ UNCHANGED receipts
  <2>0. proc.pc = "loop" /\ ~proc.raising /\ ~proc.unknown /\ child = NoChild /\ proc.job = "none"
    BY <1>9 DEF Loop
  <2>1. CASE RestoredCompiled
    BY <2>0, <2>1, <1>9 DEF Loop, RestoredCompiled
  <2>2. CASE To("journal") /\ proc.at <= Len(Candidates)
    BY <2>0, <2>2, <1>9 DEF Loop
  <2>3. CASE End
    BY <2>0, <2>3, <1>9 DEF Loop
  <2>. QED  BY <2>1, <2>2, <2>3, <1>9 DEF Loop
<1>10. CASE Truncate /\ UNCHANGED receipts
  BY <1>10 DEF Truncate
<1>11. CASE Fill /\ UNCHANGED receipts
  <2>0. child = NoChild /\ UNCHANGED <<child, reports>> /\ (~At("rewrite") => ~proc.raising)
    BY <1>11 DEF Fill
  <2>1. CASE At("journalled") /\ To("mutate")
    BY <2>0, <2>1
  <2>2. CASE At("mutated") /\ Run("mutant", "compile")
    BY <2>0, <2>2
  <2>3. CASE At("rewrite") /\ To("unlink")
    BY <2>0, <2>3
  <2>. QED  BY <2>1, <2>2, <2>3, <1>11 DEF Fill
<1>12. CASE Measured /\ UNCHANGED receipts
  <2>1. CASE Raise
    BY <2>1, <1>12 DEF Measured, Raise
  <2>2. CASE To("restore")
    BY <2>2, <1>12 DEF Measured
  <2>3. CASE ~proc.unknown /\ proc.phase = "compile" /\ Run("mutant", "test")
    BY <2>3, <1>12 DEF Measured
  <2>. QED  BY <2>1, <2>2, <2>3, <1>12 DEF Measured
<1>13. CASE Restore /\ UNCHANGED receipts
  BY <1>13 DEF Restore, Refusal
<1>14. CASE Unlink /\ UNCHANGED receipts
  BY <1>14 DEF Unlink
<1>15. CASE Record /\ UNCHANGED receipts
  <2>0. proc.pc = "record" /\ ~proc.raising /\ child = NoChild /\ Len(reports') = Len(reports)
    BY <1>15, ReportsStay DEF Record
  <2>1. CASE End
    BY <2>0, <2>1, <1>15 DEF Record
  <2>2. CASE Advance(proc.at + 1)
    BY <2>0, <2>2, <1>15 DEF Record, Advance
  <2>. QED  BY <2>1, <2>2, <1>15 DEF Record
<1>16. CASE Acknowledge /\ UNCHANGED receipts
  BY <1>16 DEF Acknowledge
<1>17. CASE Recover /\ UNCHANGED receipts
  BY <1>17 DEF Recover
<1>18. CASE Kill /\ UNCHANGED receipts
  BY <1>18 DEF Kill
<1>19. CASE Interrupt /\ UNCHANGED receipts
  <2>0. child' = NoChild /\ UNCHANGED reports
    BY <1>19 DEF Interrupt
  <2>1. CASE Raise /\ (InTry \/ At("mutated"))
    BY <2>0, <2>1, <1>19 DEF Raise, InTry
  <2>2. CASE End
    BY <2>0, <2>2, <1>19
  <2>. QED  BY <2>1, <2>2, <1>19 DEF Interrupt
<1>20. CASE Edit /\ UNCHANGED receipts
  BY <1>20 DEF Edit
<1>21. CASE Checkout /\ UNCHANGED receipts
  BY <1>21 DEF Checkout
<1>22. ASSUME NEW s \in survivors, SurvivorEnds(s), UNCHANGED receipts
       PROVE  ControlSound'
  BY <1>22 DEF SurvivorEnds
<1>23. ASSUME NEW n \in 1..Len(reports), RestoreFrom(n)
       PROVE  ControlSound'
  BY <1>23 DEF RestoreFrom, Ready
<1>24. ASSUME NEW n \in 1..Len(reports), ContinueFrom(n)
       PROVE  ControlSound'
  BY <1>24 DEF ContinueFrom, Campaign, Ready
<1>25. CASE Restoration
  <2>0. proc.pc = "reported" /\ ~proc.raising /\ child = NoChild /\ UNCHANGED <<child, reports>>
    BY <1>25 DEF Restoration
  <2>1. CASE End
    BY <2>0, <2>1, <1>25
  <2>2. CASE ~proc.unknown /\ Run("restore", "test")
    BY <2>0, <2>2, <1>25 DEF Restoration
  <2>. QED  BY <2>1, <2>2, <1>25 DEF Restoration
<1>26. CASE UNCHANGED vars
  BY <1>26 DEF vars, campaignVars
<1>. QED
  BY <1>1, <1>2, <1>3, <1>4, <1>5, <1>6, <1>7, <1>8, <1>9, <1>10, <1>11, <1>12, <1>13,
     <1>14, <1>15, <1>16, <1>17, <1>18, <1>19, <1>20, <1>21, <1>22, <1>23, <1>24, <1>25,
     <1>26
     DEF LineageNext, Next

-----------------------------------------------------------------------------
(* Source and journal.                                                     *)

LEMMA OnMutantNamesOne ==
  ASSUME TypeOK, ControlSound, OnMutant
  PROVE  Mutant \in Mutants
BY MutantInRange DEF ControlSound

LEMMA SourceStep ==
  ASSUME TypeOK, ControlSound, SourceSound, [LineageNext]_vars
  PROVE  SourceSound'
<1>. USE DEF SourceSound, MutationJournaled, ControlSound, OnMutant, At, To, Run, Executing,
     Writing, Undoing, exec, bounds, End, Off, TypeOK, ProcRow, Mutant
<1>1. CASE Mark /\ UNCHANGED receipts
  BY <1>1, MutantsAreOwn DEF Mark
<1>2. CASE Spawn /\ UNCHANGED receipts
  BY <1>2, MutantsAreOwn DEF Spawn
<1>3. CASE Finish /\ UNCHANGED receipts
  <2>1. UNCHANGED <<source, journal>> /\ proc'.pc = "ended" /\ proc'.job = proc.job /\ proc'.at = proc.at
    BY <1>3 DEF Finish
  <2>. QED  BY <2>1, <1>3 DEF Finish
<1>4. CASE Abort /\ UNCHANGED receipts
  BY <1>4, MutantsAreOwn DEF Abort
<1>5. CASE Unmark /\ UNCHANGED receipts
  BY <1>5, MutantsAreOwn DEF Unmark
<1>6. CASE Remark /\ UNCHANGED receipts
  BY <1>6, MutantsAreOwn DEF Remark
<1>7. CASE Begin /\ UNCHANGED receipts
  BY <1>7 DEF Begin, Campaign, Ready
<1>8. CASE Plain /\ UNCHANGED receipts
  <2>0. proc.pc = "reported" /\ proc.job # "mutant" /\ UNCHANGED <<source, journal>>
    BY <1>8 DEF Plain
  <2>1. CASE End
    BY MutantsAreOwn, <2>0, <2>1
  <2>2. CASE Run(proc.job, "test")
    BY MutantsAreOwn, <2>0, <2>2
  <2>3. CASE Advance(proc.at) /\ TreeUnchanged
    BY MutantsAreOwn, <2>0, <2>3 DEF Advance, TreeUnchanged
  <2>. QED  BY <2>1, <2>2, <2>3, <1>8 DEF Plain
<1>9. CASE Loop /\ UNCHANGED receipts
  <2>0. proc.pc = "loop" /\ source = "original" /\ UNCHANGED <<source, journal>>
    BY <1>9 DEF Loop
  <2>1. CASE RestoredCompiled
    BY MutantsAreOwn, <2>0, <2>1 DEF RestoredCompiled
  <2>2. CASE To("journal")
    BY MutantsAreOwn, <2>0, <2>2, <1>9 DEF Loop
  <2>3. CASE End
    BY MutantsAreOwn, <2>0, <2>3
  <2>. QED  BY <2>1, <2>2, <2>3, <1>9 DEF Loop
<1>10. CASE Truncate /\ UNCHANGED receipts
  <2>0. OnMutant => Mutant \in Mutants
    BY OnMutantNamesOne
  <2>1. CASE At("journal") /\ journal' = "torn" /\ UNCHANGED source /\ To("journalled")
    BY MutantsAreOwn, <2>1
  <2>2. CASE At("mutate") /\ source' = "torn" /\ UNCHANGED journal /\ To("mutated")
    BY MutantsAreOwn, <2>0, <2>2
  <2>3. CASE At("tear") /\ source' = "torn" /\ UNCHANGED journal /\ To("rewrite")
    BY MutantsAreOwn, <2>0, <2>3
  <2>. QED  BY <2>1, <2>2, <2>3, <1>10 DEF Truncate
<1>11. CASE Fill /\ UNCHANGED receipts
  <2>0. OnMutant => Mutant \in Mutants
    BY OnMutantNamesOne
  <2>1. CASE At("journalled") /\ journal' = Mutant /\ UNCHANGED source /\ To("mutate")
    BY MutantsAreOwn, <2>0, <2>1
  <2>2. CASE At("mutated") /\ source' = Mutant /\ UNCHANGED journal /\ Run("mutant", "compile")
    BY MutantsAreOwn, <2>0, <2>2
  <2>3. CASE At("rewrite") /\ source' = "original" /\ UNCHANGED journal /\ To("unlink")
    BY MutantsAreOwn, <2>0, <2>3
  <2>. QED  BY <2>1, <2>2, <2>3, <1>11 DEF Fill
<1>12. CASE Measured /\ UNCHANGED receipts
  <2>0. proc.pc = "reported" /\ proc.job = "mutant" /\ UNCHANGED <<source, journal>>
    BY <1>12 DEF Measured
  <2>1. CASE Raise
    BY MutantsAreOwn, <2>0, <2>1 DEF Raise
  <2>2. CASE To("restore")
    BY MutantsAreOwn, <2>0, <2>2
  <2>3. CASE Run("mutant", "test")
    BY MutantsAreOwn, <2>0, <2>3
  <2>. QED  BY <2>1, <2>2, <2>3, <1>12 DEF Measured
<1>13. CASE Restore /\ UNCHANGED receipts
  BY <1>13 DEF Restore, Refusal, OwnBytes
<1>14. CASE Unlink /\ UNCHANGED receipts
  BY <1>14, MutantsAreOwn DEF Unlink
<1>15. CASE Record /\ UNCHANGED receipts
  <2>0. proc.pc = "record" /\ UNCHANGED <<source, journal>>
    BY <1>15 DEF Record
  <2>1. CASE End
    BY MutantsAreOwn, <2>0, <2>1
  <2>2. CASE Advance(proc.at + 1) /\ TreeUnchanged
    BY MutantsAreOwn, <2>0, <2>2 DEF Advance, TreeUnchanged
  <2>. QED  BY <2>1, <2>2, <1>15 DEF Record
<1>16. CASE Acknowledge /\ UNCHANGED receipts
  BY <1>16, MutantsAreOwn DEF Acknowledge
<1>17. CASE Recover /\ UNCHANGED receipts
  <2>1. PICK i \in 1..Len(Candidates) :
          /\ Candidates[i] = journal
          /\ proc' = [Off EXCEPT !.pc = IF source = "original" THEN "unlink" ELSE "tear",
                                 !.at = i, !.raising = TRUE]
    BY <1>17 DEF Recover
  <2>2. CASE source = "original"
    BY <1>17, <2>1, <2>2 DEF Recover
  <2>3. CASE source # "original"
    BY <1>17, <2>1, <2>3 DEF Recover, OwnBytes
  <2>. QED  BY <2>2, <2>3
<1>18. CASE Kill /\ UNCHANGED receipts
  BY <1>18, MutantsAreOwn DEF Kill
<1>19. CASE Interrupt /\ UNCHANGED receipts
  <2>0. UNCHANGED <<source, journal>>
    BY <1>19 DEF Interrupt
  <2>1. CASE Raise /\ (InTry \/ At("mutated"))
    BY MutantsAreOwn, <2>0, <2>1, <1>19 DEF Raise, InTry
  <2>2. CASE End
    BY MutantsAreOwn, <2>0, <2>2, <1>19
  <2>. QED  BY <2>1, <2>2, <1>19 DEF Interrupt
<1>20. CASE Edit /\ UNCHANGED receipts
  BY <1>20, MutantsAreOwn DEF Edit
<1>21. CASE Checkout /\ UNCHANGED receipts
  BY <1>21, MutantsAreOwn DEF Checkout
<1>22. ASSUME NEW s \in survivors, SurvivorEnds(s), UNCHANGED receipts
       PROVE  SourceSound'
  BY <1>22, MutantsAreOwn DEF SurvivorEnds
<1>23. ASSUME NEW n \in 1..Len(reports), RestoreFrom(n)
       PROVE  SourceSound'
  BY <1>23 DEF RestoreFrom, Ready
<1>24. ASSUME NEW n \in 1..Len(reports), ContinueFrom(n)
       PROVE  SourceSound'
  BY <1>24 DEF ContinueFrom, Campaign, Ready
<1>25. CASE Restoration
  <2>0. proc.pc = "reported" /\ proc.job # "mutant" /\ UNCHANGED <<source, journal>>
    BY <1>25 DEF Restoration
  <2>1. CASE End
    BY MutantsAreOwn, <2>0, <2>1
  <2>2. CASE Run("restore", "test")
    BY MutantsAreOwn, <2>0, <2>2
  <2>. QED  BY <2>1, <2>2, <1>25 DEF Restoration
<1>26. CASE UNCHANGED vars
  BY <1>26 DEF vars, campaignVars
<1>. QED
  BY <1>1, <1>2, <1>3, <1>4, <1>5, <1>6, <1>7, <1>8, <1>9, <1>10, <1>11, <1>12, <1>13,
     <1>14, <1>15, <1>16, <1>17, <1>18, <1>19, <1>20, <1>21, <1>22, <1>23, <1>24, <1>25,
     <1>26
     DEF LineageNext, Next

-----------------------------------------------------------------------------
(* Marker and descendants.                                                 *)

LEMMA SurvivorsStep ==
  ASSUME TypeOK, ControlSound, SurvivorsSound, [LineageNext]_vars
  PROVE  SurvivorsSound'
<1>. USE DEF SurvivorsSound, CutOffsMarked, CutOff, ControlSound, At, To, Run, Executing, Undoing,
     exec, bounds, End, Off, TypeOK, ProcRow, Log
<1>0. (marker = Log => Marked) /\ Log # NoLog
  BY LogTyped DEF Marked
<1>1. CASE Mark /\ UNCHANGED receipts
  <2>1. Marked'
    BY <1>0, <1>1 DEF Mark, Marked
  <2>. QED  BY <2>1, <1>1 DEF Mark
<1>2. CASE Spawn /\ UNCHANGED receipts
  BY <1>2 DEF Spawn, Marked
<1>3. CASE Finish /\ UNCHANGED receipts
  <2>1. proc.pc = "wait" /\ ~proc.unknown /\ ~proc.raising /\ UNCHANGED marker
    BY <1>3 DEF Finish
  <2>2. /\ proc'.pc = "ended" /\ proc'.job = proc.job /\ proc'.run = proc.run
        /\ proc'.at = proc.at /\ proc'.raising = proc.raising
    <3>1. \/ proc' = [proc EXCEPT !.pc = "ended"]
          \/ \E inner \in BOOLEAN :
               proc' = [proc EXCEPT !.pc = "ended", !.unknown = inner, !.tested = build]
      BY <1>3 DEF Finish
    <3>. QED  BY <3>1
  <2>3. survivors' \subseteq survivors \cup {Detached, Inner}
    <3>1. \E left \in {{Detached}, {Detached, Inner}} : Leave(left)
      BY <1>3 DEF Finish
    <3>. QED  BY <3>1 DEF Leave
  <2>4. \A s \in survivors : ~CutOff(s)
    BY <2>1
  <2>. QED  BY <2>1, <2>2, <2>3, <2>4
<1>4. CASE Abort /\ UNCHANGED receipts
  <2>1. /\ proc'.pc = "reported" /\ proc'.unknown /\ marker' = Log /\ Log' = Log
        /\ Marked'
    BY <1>0, <1>4 DEF Abort, Marked, MarkerKept
  <2>. QED  BY <2>1
<1>5. CASE Unmark /\ UNCHANGED receipts
  BY <1>5 DEF Unmark, Marked
<1>6. CASE Remark /\ UNCHANGED receipts
  <2>1. proc.unknown => marker' = Log /\ Log' = Log
    BY <1>6 DEF Remark, MarkerAnew
  <2>. QED  BY <2>1, <1>6 DEF Remark
<1>7. CASE Begin /\ UNCHANGED receipts
  BY <1>7 DEF Begin, Campaign, Ready
<1>8. CASE Plain /\ UNCHANGED receipts
  <2>0. proc.pc = "reported" /\ UNCHANGED <<survivors, marker>>
    BY <1>8 DEF Plain
  <2>1. CASE End
    BY <2>0, <2>1 DEF Marked
  <2>2. CASE Run(proc.job, "test") /\ ~proc.unknown
    BY <2>0, <2>2 DEF Marked
  <2>3. CASE Advance(proc.at) /\ ~proc.unknown
    BY <2>0, <2>3 DEF Advance, Marked
  <2>. QED  BY <2>1, <2>2, <2>3, <1>8 DEF Plain
<1>9. CASE Loop /\ UNCHANGED receipts
  <2>0. proc.pc = "loop" /\ UNCHANGED <<survivors, marker>>
    BY <1>9 DEF Loop
  <2>1. CASE RestoredCompiled
    BY <2>0, <2>1 DEF RestoredCompiled, Marked
  <2>2. CASE To("journal")
    BY <2>0, <2>2 DEF Marked
  <2>3. CASE End
    BY <2>0, <2>3 DEF Marked
  <2>. QED  BY <2>1, <2>2, <2>3, <1>9 DEF Loop
<1>10. CASE Truncate /\ UNCHANGED receipts
  BY <1>10 DEF Truncate, Marked
<1>11. CASE Fill /\ UNCHANGED receipts
  BY <1>11 DEF Fill, Marked
<1>12. CASE Measured /\ UNCHANGED receipts
  <2>0. proc.pc = "reported" /\ UNCHANGED <<survivors, marker>>
    BY <1>12 DEF Measured
  <2>1. CASE Raise
    BY <2>0, <2>1 DEF Raise, Marked
  <2>2. CASE To("restore")
    BY <2>0, <2>2 DEF Marked
  <2>3. CASE Run("mutant", "test") /\ ~proc.unknown
    BY <2>0, <2>3 DEF Marked
  <2>. QED  BY <2>1, <2>2, <2>3, <1>12 DEF Measured
<1>13. CASE Restore /\ UNCHANGED receipts
  BY <1>13 DEF Restore, Refusal, Marked
<1>14. CASE Unlink /\ UNCHANGED receipts
  BY <1>14 DEF Unlink, Marked
<1>15. CASE Record /\ UNCHANGED receipts
  <2>0. proc.pc = "record" /\ ~proc.raising /\ UNCHANGED <<survivors, marker>>
    BY <1>15 DEF Record
  <2>1. CASE End
    BY <2>0, <2>1 DEF Marked
  <2>2. CASE Advance(proc.at + 1) /\ ~proc.unknown
    BY <2>0, <2>2 DEF Advance, Marked
  <2>. QED  BY <2>1, <2>2, <1>15 DEF Record
<1>16. CASE Acknowledge /\ UNCHANGED receipts
  BY <1>16 DEF Acknowledge, Marked
<1>17. CASE Recover /\ UNCHANGED receipts
  BY <1>17 DEF Recover, Marked
<1>18. CASE Kill /\ UNCHANGED receipts
  <2>0. proc' = Off /\ UNCHANGED marker
    BY <1>18 DEF Kill
  <2>1. CASE proc.pc = "wait"
    BY <1>0, <2>0, <2>1 DEF Marked
  <2>2. CASE proc.pc # "wait"
    <3>1. survivors' = survivors
      BY <2>2, <1>18 DEF Kill
    <3>. QED  BY <2>0, <3>1 DEF Marked
  <2>. QED  BY <2>1, <2>2
<1>19. CASE Interrupt /\ UNCHANGED receipts
  <2>0. /\ UNCHANGED marker
        /\ proc'.pc \in {"off", "restore"} /\ (proc'.pc = "restore" => proc'.raising)
        /\ ~proc'.unknown
    <3>1. CASE Raise
      BY <3>1, <1>19 DEF Interrupt, Raise
    <3>2. CASE End
      BY <3>2, <1>19 DEF Interrupt
    <3>. QED  BY <3>1, <3>2, <1>19 DEF Interrupt
  <2>1. CASE proc.pc = "wait"
    BY <1>0, <2>0, <2>1 DEF Marked
  <2>2. CASE proc.pc # "wait"
    <3>1. survivors' = survivors
      BY <2>2, <1>19 DEF Interrupt
    <3>. QED  BY <2>0, <3>1 DEF Marked
  <2>. QED  BY <2>1, <2>2
<1>20. CASE Edit /\ UNCHANGED receipts
  BY <1>20 DEF Edit, Marked
<1>21. CASE Checkout /\ UNCHANGED receipts
  BY <1>21 DEF Checkout, Marked
<1>22. ASSUME NEW s \in survivors, SurvivorEnds(s), UNCHANGED receipts
       PROVE  SurvivorsSound'
  BY <1>22 DEF SurvivorEnds, Marked
<1>23. ASSUME NEW n \in 1..Len(reports), RestoreFrom(n)
       PROVE  SurvivorsSound'
  BY <1>23 DEF RestoreFrom, Ready
<1>24. ASSUME NEW n \in 1..Len(reports), ContinueFrom(n)
       PROVE  SurvivorsSound'
  BY <1>24 DEF ContinueFrom, Campaign, Ready
<1>25. CASE Restoration
  <2>0. proc.pc = "reported" /\ UNCHANGED <<survivors, marker>>
    BY <1>25 DEF Restoration
  <2>1. CASE End
    BY <2>0, <2>1 DEF Marked
  <2>2. CASE Run("restore", "test") /\ ~proc.unknown
    BY <2>0, <2>2 DEF Marked
  <2>. QED  BY <2>1, <2>2, <1>25 DEF Restoration
<1>26. CASE UNCHANGED vars
  BY <1>26 DEF vars, campaignVars, Marked
<1>. QED
  BY <1>1, <1>2, <1>3, <1>4, <1>5, <1>6, <1>7, <1>8, <1>9, <1>10, <1>11, <1>12, <1>13,
     <1>14, <1>15, <1>16, <1>17, <1>18, <1>19, <1>20, <1>21, <1>22, <1>23, <1>24, <1>25,
     <1>26
     DEF LineageNext, Next

-----------------------------------------------------------------------------
(* What executions measure.                                                *)

LEMMA ExecutionStep ==
  ASSUME TypeOK, ControlSound, SourceSound, SurvivorsSound, ExecutionSound, [LineageNext]_vars
  PROVE  ExecutionSound'
<1>. USE DEF ExecutionSound, Target, SourceSound, ControlSound, OnMutant, At, To, Run,
     Executing, Writing, Undoing, exec, bounds, End, Off, TypeOK, ProcRow, Mutant
<1>1. CASE Mark /\ UNCHANGED receipts
  BY <1>1 DEF Mark
<1>2. CASE Spawn /\ UNCHANGED receipts
  BY <1>2 DEF Spawn
<1>3. CASE Finish /\ UNCHANGED receipts
  <2>0. /\ proc.pc = "wait" /\ proc'.pc = "ended" /\ proc'.job = proc.job /\ proc'.at = proc.at
        /\ proc'.phase = proc.phase /\ proc'.raising = proc.raising /\ proc.phase = child.phase
        /\ proc.phase \in {"compile", "test"}
    <3>1. proc.pc = "wait" /\ proc.phase = child.phase /\ proc.phase \in {"compile", "test"}
      BY <1>3 DEF Finish
    <3>2. \/ proc' = [proc EXCEPT !.pc = "ended"]
          \/ \E inner \in BOOLEAN :
               proc' = [proc EXCEPT !.pc = "ended", !.unknown = inner, !.tested = build]
      BY <1>3 DEF Finish
    <3>3. /\ proc'.pc = "ended" /\ proc'.job = proc.job /\ proc'.at = proc.at
          /\ proc'.phase = proc.phase /\ proc'.raising = proc.raising
      BY <3>2
    <3>. QED  BY <3>1, <3>3
  <2>1. CASE child.phase = "compile"
    BY <2>0, <2>1, <1>3 DEF Finish
  <2>2. CASE child.phase # "compile"
    <3>1. proc'.tested = build
      BY <2>2, <1>3 DEF Finish
    <3>. QED  BY <2>0, <2>2, <3>1
  <2>. QED  BY <2>1, <2>2
<1>4. CASE Abort /\ UNCHANGED receipts
  BY <1>4 DEF Abort
<1>5. CASE Unmark /\ UNCHANGED receipts
  BY <1>5 DEF Unmark
<1>6. CASE Remark /\ UNCHANGED receipts
  BY <1>6 DEF Remark
<1>7. CASE Begin /\ UNCHANGED receipts
  BY <1>7 DEF Begin, Campaign, Ready
<1>8. CASE Plain /\ UNCHANGED receipts
  <2>0. proc.pc = "reported" /\ proc.job # "mutant" /\ UNCHANGED <<source, build>>
    BY <1>8 DEF Plain
  <2>1. CASE End
    BY <2>0, <2>1
  <2>2. CASE Run(proc.job, "test") /\ ~proc.unknown /\ proc.phase = "compile"
    BY <2>0, <2>2
  <2>3. CASE Advance(proc.at)
    BY <2>0, <2>3 DEF Advance
  <2>. QED  BY <2>1, <2>2, <2>3, <1>8 DEF Plain
<1>9. CASE Loop /\ UNCHANGED receipts
  <2>0. proc.pc = "loop" /\ source = "original" /\ UNCHANGED <<source, build>>
    BY <1>9 DEF Loop
  <2>1. CASE RestoredCompiled
    BY <2>0, <2>1 DEF RestoredCompiled
  <2>2. CASE To("journal")
    BY <2>0, <2>2, <1>9 DEF Loop
  <2>3. CASE End
    BY <2>0, <2>3
  <2>. QED  BY <2>1, <2>2, <2>3, <1>9 DEF Loop
<1>10. CASE Truncate /\ UNCHANGED receipts
  BY <1>10 DEF Truncate
<1>11. CASE Fill /\ UNCHANGED receipts
  <2>0. UNCHANGED build
    BY <1>11 DEF Fill
  <2>1. CASE To("mutate")
    BY <2>0, <2>1, <1>11 DEF Fill
  <2>2. CASE Run("mutant", "compile") /\ source' = Mutant
    BY <2>0, <2>2, <1>11 DEF Fill
  <2>3. CASE To("unlink")
    BY <2>0, <2>3, <1>11 DEF Fill
  <2>. QED  BY <2>1, <2>2, <2>3, <1>11 DEF Fill
<1>12. CASE Measured /\ UNCHANGED receipts
  <2>0. proc.pc = "reported" /\ proc.job = "mutant" /\ UNCHANGED <<source, build>>
    BY <1>12 DEF Measured
  <2>1. CASE Raise
    BY <2>0, <2>1 DEF Raise
  <2>2. CASE To("restore")
    BY <2>0, <2>2
  <2>3. CASE Run("mutant", "test") /\ ~proc.unknown /\ proc.phase = "compile"
    BY <2>0, <2>3
  <2>. QED  BY <2>1, <2>2, <2>3, <1>12 DEF Measured
<1>13. CASE Restore /\ UNCHANGED receipts
  BY <1>13 DEF Restore, Refusal
<1>14. CASE Unlink /\ UNCHANGED receipts
  BY <1>14 DEF Unlink
<1>15. CASE Record /\ UNCHANGED receipts
  <2>0. proc.pc = "record" /\ UNCHANGED <<source, build>>
    BY <1>15 DEF Record
  <2>1. CASE End
    BY <2>0, <2>1
  <2>2. CASE Advance(proc.at + 1)
    BY <2>0, <2>2 DEF Advance
  <2>. QED  BY <2>1, <2>2, <1>15 DEF Record
<1>16. CASE Acknowledge /\ UNCHANGED receipts
  BY <1>16 DEF Acknowledge
<1>17. CASE Recover /\ UNCHANGED receipts
  BY <1>17 DEF Recover
<1>18. CASE Kill /\ UNCHANGED receipts
  BY <1>18 DEF Kill
<1>19. CASE Interrupt /\ UNCHANGED receipts
  <2>1. CASE Raise
    BY <2>1, <1>19 DEF Raise
  <2>2. CASE End
    BY <2>2, <1>19
  <2>. QED  BY <2>1, <2>2, <1>19 DEF Interrupt
<1>20. CASE Edit /\ UNCHANGED receipts
  BY <1>20 DEF Edit
<1>21. CASE Checkout /\ UNCHANGED receipts
  BY <1>21 DEF Checkout
<1>22. ASSUME NEW s \in survivors, SurvivorEnds(s), UNCHANGED receipts
       PROVE  ExecutionSound'
  <2>1. ~CutOff(s) => build' = build
    BY <1>22 DEF SurvivorEnds, CutOff, Inner, Detached
  <2>2. proc.pc \in Executing /\ ~proc.unknown => ~CutOff(s)
    BY DEF SurvivorsSound
  <2>3. UNCHANGED <<source, proc, child>>
    BY <1>22 DEF SurvivorEnds
  <2>. QED  BY <2>1, <2>2, <2>3
<1>23. ASSUME NEW n \in 1..Len(reports), RestoreFrom(n)
       PROVE  ExecutionSound'
  BY <1>23 DEF RestoreFrom, Ready
<1>24. ASSUME NEW n \in 1..Len(reports), ContinueFrom(n)
       PROVE  ExecutionSound'
  BY <1>24 DEF ContinueFrom, Campaign, Ready
<1>25. CASE Restoration
  <2>0. proc.pc = "reported" /\ proc.job = "restore" /\ UNCHANGED <<source, build>>
    BY <1>25 DEF Restoration
  <2>1. CASE End
    BY <2>0, <2>1
  <2>2. CASE Run("restore", "test") /\ ~proc.unknown /\ proc.phase = "compile"
    BY <2>0, <2>2
  <2>. QED  BY <2>1, <2>2, <1>25 DEF Restoration
<1>26. CASE UNCHANGED vars
  BY <1>26 DEF vars, campaignVars
<1>. QED
  BY <1>1, <1>2, <1>3, <1>4, <1>5, <1>6, <1>7, <1>8, <1>9, <1>10, <1>11, <1>12, <1>13,
     <1>14, <1>15, <1>16, <1>17, <1>18, <1>19, <1>20, <1>21, <1>22, <1>23, <1>24, <1>25,
     <1>26
     DEF LineageNext, Next

-----------------------------------------------------------------------------
(* What the reports say was measured.                                      *)

\* Most actions write no report and no receipt.
LEMMA WhoWrites ==
  ASSUME [LineageNext]_vars
  PROVE  \/ UNCHANGED <<reports, receipts>>
         \/ (Plain \/ Record) /\ UNCHANGED receipts
         \/ \E start, parent :
              /\ Campaign(start, parent) /\ UNCHANGED receipts
              /\ parent = 0 \/ (parent \in 1..Len(reports) /\ Acknowledged(parent))
         \/ Restoration
<1>1. ASSUME NEW n \in 1..Len(reports), RestoreFrom(n) \/ ContinueFrom(n)
      PROVE  \/ UNCHANGED <<reports, receipts>>
             \/ \E start, parent :
                  /\ Campaign(start, parent) /\ UNCHANGED receipts
                  /\ parent = 0 \/ (parent \in 1..Len(reports) /\ Acknowledged(parent))
  BY <1>1 DEF RestoreFrom, ContinueFrom
<1>2. CASE Next /\ UNCHANGED receipts
  <2>1. CASE \E s \in survivors : SurvivorEnds(s)
    BY <1>2, <2>1 DEF SurvivorEnds
  <2>2. CASE Begin
    BY <1>2, <2>2 DEF Begin
  <2>3. CASE Plain \/ Record
    BY <1>2, <2>3
  <2>4. CASE \/ Mark \/ Spawn \/ Finish \/ Abort \/ Unmark \/ Remark \/ Loop \/ Truncate \/ Fill
             \/ Measured \/ Restore \/ Unlink \/ Acknowledge \/ Recover \/ Kill \/ Interrupt
             \/ Edit \/ Checkout
    BY <1>2, <2>4
       DEF Mark, Spawn, Finish, Abort, Unmark, Remark, Loop, Truncate, Fill, Measured, Restore,
           Unlink, Acknowledge, Recover, Kill, Interrupt, Edit, Checkout
  <2>. QED  BY <1>2, <2>1, <2>2, <2>3, <2>4 DEF Next
<1>3. CASE UNCHANGED vars
  BY <1>3 DEF vars, campaignVars
<1>. QED  BY <1>1, <1>2, <1>3 DEF LineageNext

\* One report changes, and stays genuine.
LEMMA ReportReplaced ==
  ASSUME TypeOK, MeasurementsGenuine, UNCHANGED receipts,
         NEW k \in 1..Len(reports), NEW r \in ReportRow, ReportGenuine(r),
         reports' = [reports EXCEPT ![k] = r]
  PROVE  MeasurementsGenuine'
<1>1. reports \in Seq(ReportRow) /\ Len(reports') = Len(reports)
  BY DEF TypeOK
<1>2. ASSUME NEW n \in 1..Len(reports')
      PROVE  ReportGenuine(reports'[n])
  <2>1. n \in 1..Len(reports)
    BY <1>1
  <2>2. CASE n = k
    BY <1>1, <2>1, <2>2
  <2>3. CASE n # k
    BY <1>1, <2>1, <2>3 DEF MeasurementsGenuine
  <2>. QED  BY <2>2, <2>3
<1>. QED  BY <1>2 DEF MeasurementsGenuine, ReportGenuine, RowGenuine

LEMMA PlainGenuine ==
  ASSUME TypeOK, ControlSound, ExecutionSound, MeasurementsGenuine, Plain, UNCHANGED receipts
  PROVE  MeasurementsGenuine'
<1>1. proc.pc = "reported" /\ proc.job # "mutant" /\ proc.run \in 1..Len(reports)
  BY DEF Plain, At, ControlSound, Undoing
<1>2. PICK r : r = reports[proc.run]
  OBVIOUS
<1>3. r \in ReportRow /\ ReportGenuine(r)
  BY <1>1, <1>2 DEF TypeOK, MeasurementsGenuine
<1>4. CASE UNCHANGED reports
  BY <1>4 DEF MeasurementsGenuine, ReportGenuine, RowGenuine
<1>5. ~proc.unknown /\ proc.phase = "test" => proc.tested = "original"
  BY <1>1 DEF ExecutionSound, Target
<1>6. CASE ~proc.unknown /\ proc.phase = "test"
           /\ reports' = [reports EXCEPT ![proc.run].before = proc.tested]
  <2>1. PICK q : q = [r EXCEPT !.before = "original"]
    OBVIOUS
  <2>2. q \in ReportRow
    BY <1>3, <2>1 DEF ReportRow, Bytes
  <2>3. ReportGenuine(q)
    BY <1>3, <2>1 DEF ReportRow, ReportGenuine
  <2>4. reports' = [reports EXCEPT ![proc.run] = q]
    BY <1>2, <1>5, <1>6, <2>1
  <2>. QED  BY <1>1, <2>2, <2>3, <2>4, ReportReplaced
<1>7. CASE /\ ~proc.unknown /\ proc.phase = "test"
           /\ reports' = [reports EXCEPT ![proc.run].after = proc.tested,
                 ![proc.run].terminal = IF AllObserved THEN "complete" ELSE "partial"]
  <2>0. PICK x : x = IF AllObserved THEN "complete" ELSE "partial"
    OBVIOUS
  <2>1. PICK q : q = [r EXCEPT !.after = "original", !.terminal = x]
    OBVIOUS
  <2>2. q \in ReportRow
    BY <1>3, <2>0, <2>1 DEF ReportRow, Bytes, Ended
  <2>3. ReportGenuine(q)
    BY <1>3, <2>1 DEF ReportRow, ReportGenuine
  <2>4. reports' = [reports EXCEPT ![proc.run] = q]
    BY <1>1, <1>2, <1>5, <1>7, <2>0, <2>1 DEF TypeOK
  <2>. QED  BY <1>1, <2>2, <2>3, <2>4, ReportReplaced
<1>. QED  BY <1>4, <1>6, <1>7 DEF Plain

LEMMA RecordGenuine ==
  ASSUME TypeOK, ControlSound, ExecutionSound, MeasurementsGenuine, Record, UNCHANGED receipts
  PROVE  MeasurementsGenuine'
<1>1. proc.pc = "record" /\ ~proc.raising /\ proc.run \in 1..Len(reports)
  BY DEF Record, At, ControlSound, Undoing
<1>2. PICK r : r = reports[proc.run]
  OBVIOUS
<1>3. r \in ReportRow /\ ReportGenuine(r)
  BY <1>1, <1>2 DEF TypeOK, MeasurementsGenuine
<1>4. CASE UNCHANGED reports
  BY <1>4 DEF MeasurementsGenuine, ReportGenuine, RowGenuine
<1>5. ASSUME NEW status \in Outcomes,
        reports' = [reports EXCEPT ![proc.run].rows = Append(@, Row(status)),
                      ![proc.run].terminal = IF proc.unknown THEN "aborted" ELSE @]
      PROVE  MeasurementsGenuine'
  <2>1. PICK row : row = Row(status)
    OBVIOUS
  <2>2. RowGenuine(row)
    <3>1. status = "killed" => ~proc.unknown /\ proc.phase = "test"
      BY <1>1 DEF Outcomes, ControlSound
    <3>2. status = "killed" => proc.tested = Mutant
      BY <3>1, <1>1 DEF ExecutionSound
    <3>. QED  BY <2>1, <3>2 DEF RowGenuine, Row
  <2>3. row \in Measurement
    <3>1. Mutant \in Bytes
      BY <1>1, MutantInRange DEF ControlSound, OnMutant, Bytes
    <3>2. status \in {"killed", "other", "unknown"}
      BY DEF Outcomes
    <3>3. (IF status = "killed" THEN proc.tested ELSE "none") \in Bytes
      BY DEF TypeOK, ProcRow, Bytes
    <3>. QED  BY <2>1, <3>1, <3>2, <3>3 DEF Row, Measurement
  <2>4. PICK y : y = Append(r.rows, row)
    OBVIOUS
  <2>5. r.rows \in Seq(Measurement)
    BY <1>3 DEF ReportRow
  <2>6. y \in Seq(Measurement) /\ \A i \in 1..Len(y) : RowGenuine(y[i])
    <3>1. Len(y) = Len(r.rows) + 1
          /\ \A i \in 1..Len(y) : y[i] = IF i <= Len(r.rows) THEN r.rows[i] ELSE row
      BY <2>3, <2>4, <2>5
    <3>2. \A i \in 1..Len(r.rows) : RowGenuine(r.rows[i])
      BY <1>3 DEF ReportGenuine
    <3>3. ASSUME NEW i \in 1..Len(y)
          PROVE  RowGenuine(y[i])
      <4>1. CASE i <= Len(r.rows)
        BY <3>1, <3>2, <4>1, <2>5
      <4>2. CASE ~(i <= Len(r.rows))
        BY <3>1, <4>2, <2>2
      <4>. QED  BY <4>1, <4>2
    <3>. QED  BY <3>3, <2>3, <2>4, <2>5
  <2>7. PICK x : x = IF proc.unknown THEN "aborted" ELSE r.terminal
    OBVIOUS
  <2>8. PICK q : q = [r EXCEPT !.rows = y, !.terminal = x]
    OBVIOUS
  <2>9. q \in ReportRow
    BY <1>3, <2>6, <2>7, <2>8 DEF ReportRow, Ended
  <2>10. ReportGenuine(q)
    BY <1>3, <2>6, <2>8 DEF ReportRow, ReportGenuine
  <2>11. reports' = [reports EXCEPT ![proc.run] = q]
    BY <1>1, <1>2, <1>5, <2>1, <2>4, <2>7, <2>8 DEF TypeOK
  <2>. QED  BY <1>1, <2>9, <2>10, <2>11, ReportReplaced
<1>. QED  BY <1>4, <1>5 DEF Record

LEMMA MeasurementsStep ==
  ASSUME TypeOK, ControlSound, ExecutionSound, MeasurementsGenuine, [LineageNext]_vars
  PROVE  MeasurementsGenuine'
<1>1. CASE UNCHANGED <<reports, receipts>>
  BY <1>1 DEF MeasurementsGenuine, ReportGenuine, RowGenuine
<1>2. CASE (Plain \/ Record) /\ UNCHANGED receipts
  BY <1>2, PlainGenuine, RecordGenuine
<1>3. ASSUME NEW start, NEW parent, Campaign(start, parent), UNCHANGED receipts
      PROVE  MeasurementsGenuine'
  <2>1. PICK p \in People : reports' = Append(reports, NewReport(start, parent, p))
    BY <1>3 DEF Campaign
  <2>2. PICK r : r = NewReport(start, parent, p)
    OBVIOUS
  <2>3. ReportGenuine(r)
    BY <2>2 DEF NewReport, ReportGenuine
  <2>4. Len(reports') = Len(reports) + 1
        /\ \A n \in 1..Len(reports') : reports'[n] = IF n <= Len(reports) THEN reports[n] ELSE r
    BY <2>1, <2>2 DEF TypeOK
  <2>5. ASSUME NEW n \in 1..Len(reports')
        PROVE  ReportGenuine(reports'[n])
    <3>1. CASE n <= Len(reports)
      BY <2>4, <3>1 DEF MeasurementsGenuine, TypeOK
    <3>2. CASE ~(n <= Len(reports))
      BY <2>4, <3>2, <2>3
    <3>. QED  BY <3>1, <3>2
  <2>. QED  BY <1>3, <2>5 DEF MeasurementsGenuine, ReportGenuine, RowGenuine
<1>4. CASE Restoration
  <2>1. proc.pc = "reported" /\ proc.job = "restore" /\ UNCHANGED reports
    BY <1>4 DEF Restoration, At
  <2>2. ~proc.unknown /\ proc.phase = "test" => proc.tested = "original"
    BY <2>1 DEF ExecutionSound, Target
  <2>3. \A c \in receipts' : c.tested = "original"
    BY <1>4, <2>2 DEF Restoration, MeasurementsGenuine
  <2>. QED  BY <2>1, <2>3 DEF MeasurementsGenuine, ReportGenuine, RowGenuine
<1>. QED  BY <1>1, <1>2, <1>3, <1>4, WhoWrites

-----------------------------------------------------------------------------
(* Who inspected what.                                                     *)

\* Reports are only added, and none changes its operator or its parent; attestations
\* are only added, each with the number of reports there were.
Kept ==
  /\ Len(reports) <= Len(reports')
  /\ \A n \in 1..Len(reports) :
       reports'[n].operator = reports[n].operator /\ reports'[n].parent = reports[n].parent
  /\ acks \subseteq acks'
  /\ \A a \in acks' \ acks : a.before = Len(reports)

LEMMA CampaignAppends ==
  ASSUME TypeOK, NEW start, NEW parent, Campaign(start, parent)
  PROVE  /\ Len(reports') = Len(reports) + 1
         /\ \A n \in 1..Len(reports) : reports'[n] = reports[n]
         /\ reports'[Len(reports) + 1].parent = parent
         /\ proc'.job = "baseline" /\ UNCHANGED acks
<1>1. PICK p \in People : reports' = Append(reports, NewReport(start, parent, p))
  BY DEF Campaign
<1>2. PICK r : r = NewReport(start, parent, p)
  OBVIOUS
<1>3. r.parent = parent
  BY <1>2 DEF NewReport
<1>. QED  BY <1>1, <1>2, <1>3 DEF TypeOK, Campaign, Off, exec

LEMMA AttestationsKept ==
  ASSUME [LineageNext]_vars
  PROVE  \/ UNCHANGED acks
         \/ /\ UNCHANGED <<proc, reports, receipts>>
            /\ acks \subseteq acks' /\ \A a \in acks' \ acks : a.before = Len(reports)
<1>. USE DEF exec
<1>1. ASSUME NEW n \in 1..Len(reports), RestoreFrom(n) \/ ContinueFrom(n)
      PROVE  UNCHANGED acks
  BY <1>1 DEF RestoreFrom, ContinueFrom, Campaign
<1>2. CASE Restoration
  BY <1>2 DEF Restoration
<1>3. CASE Next /\ UNCHANGED receipts
  <2>1. CASE \E s \in survivors : SurvivorEnds(s)
    BY <2>1 DEF SurvivorEnds
  <2>2. CASE Begin \/ Plain \/ Record
    BY <2>2 DEF Begin, Campaign, Plain, Record
  <2>3. CASE Acknowledge
    <3>1. PICK p \in People :
            acks' = acks \cup {[log |-> marker, by |-> p, before |-> Len(reports)]}
      BY <2>3 DEF Acknowledge
    <3>. QED  BY <3>1, <2>3, <1>3 DEF Acknowledge
  <2>4. CASE \/ Mark \/ Spawn \/ Finish \/ Abort \/ Unmark \/ Remark \/ Loop \/ Truncate \/ Fill
             \/ Measured \/ Restore \/ Unlink \/ Recover \/ Kill \/ Interrupt \/ Edit \/ Checkout
    BY <2>4
       DEF Mark, Spawn, Finish, Abort, Unmark, Remark, Loop, Truncate, Fill, Measured, Restore,
           Unlink, Recover, Kill, Interrupt, Edit, Checkout
  <2>. QED  BY <1>3, <2>1, <2>2, <2>3, <2>4 DEF Next
<1>4. CASE UNCHANGED vars
  BY <1>4 DEF vars, campaignVars
<1>. QED  BY <1>1, <1>2, <1>3, <1>4 DEF LineageNext

LEMMA HistoryKept ==
  ASSUME TypeOK, ControlSound, [LineageNext]_vars
  PROVE  Kept
<1>1. acks \subseteq acks' /\ \A a \in acks' \ acks : a.before = Len(reports)
  BY AttestationsKept
<1>2. CASE UNCHANGED reports
  BY <1>1, <1>2 DEF Kept, TypeOK
<1>3. CASE Plain \/ Record
  BY <1>1, <1>3, ReportsStay DEF Kept, TypeOK
<1>4. ASSUME NEW start, NEW parent, Campaign(start, parent)
      PROVE  Kept
  BY <1>1, <1>4, CampaignAppends DEF Kept, TypeOK
<1>5. CASE Restoration
  BY <1>2, <1>5 DEF Restoration
<1>. QED  BY <1>2, <1>3, <1>4, <1>5, WhoWrites

LEMMA InspectionStays ==
  ASSUME Kept, NEW n \in 1..Len(reports), NEW limit, InspectedBy(n, limit)
  PROVE  InspectedBy(n, limit)'
BY DEF InspectedBy, Kept

\* An acknowledgement that validate_ack takes is an inspection.
LEMMA AcknowledgedIsInspected ==
  ASSUME InspectionsSound, NEW n, Acknowledged(n)
  PROVE  InspectedBy(n, Len(reports))
BY DEF InspectionsSound, Acknowledged, ValidAck, BindsLastLog, LastLog, InspectedBy

\* A restoration in hand was begun for the report it is of.
LEMMA RestorationInHand ==
  ASSUME TypeOK, ControlSound, [LineageNext]_vars, proc'.job = "restore"
  PROVE  \/ proc.job = "restore" /\ proc'.run = proc.run
         \/ \E n \in 1..Len(reports) : RestoreFrom(n) /\ proc'.run = n
<1>. USE DEF TypeOK, ProcRow, Off, End, To, Run, Advance, Raise
<1>. DEFINE Goal == \/ proc.job = "restore" /\ proc'.run = proc.run
                    \/ \E n \in 1..Len(reports) : RestoreFrom(n) /\ proc'.run = n
<1>1. ASSUME NEW n \in 1..Len(reports), RestoreFrom(n)
      PROVE  Goal
  BY <1>1 DEF RestoreFrom
<1>2. ASSUME NEW n \in 1..Len(reports), ContinueFrom(n)
      PROVE  Goal
  BY <1>2 DEF ContinueFrom, Campaign
<1>3. CASE Restoration
  <2>1. CASE End
    BY <2>1
  <2>2. CASE Run("restore", "test")
    BY <2>2, <1>3 DEF Restoration, At
  <2>. QED  BY <1>3, <2>1, <2>2 DEF Restoration
<1>4. CASE Mark \/ Spawn \/ Unmark \/ Remark
  BY <1>4 DEF Mark, Spawn, Unmark, Remark
<1>5. CASE Kill \/ Begin
  <2>1. CASE End
    BY <2>1
  <2>2. CASE Campaign(0, 0)
    BY <2>2 DEF Campaign
  <2>. QED  BY <1>5, <2>1, <2>2 DEF Kill, Begin
<1>6. CASE Finish \/ Abort
  BY <1>6 DEF Finish, Abort
<1>7. CASE Plain
  <2>1. CASE End
    BY <2>1
  <2>2. CASE Run(proc.job, "test")
    BY <2>2
  <2>3. CASE Advance(proc.at)
    BY <2>3
  <2>. QED  BY <1>7, <2>1, <2>2, <2>3 DEF Plain
<1>8. CASE Loop
  <2>1. CASE RestoredCompiled
    BY <2>1 DEF RestoredCompiled
  <2>2. CASE To("journal") \/ End
    BY <2>2
  <2>. QED  BY <1>8, <2>1, <2>2 DEF Loop
<1>9. CASE Truncate \/ Fill
  BY <1>9 DEF Truncate, Fill
<1>10. CASE Measured \/ Interrupt
  <2>1. CASE Raise
    BY <2>1
  <2>2. CASE To("restore") \/ End
    BY <2>2
  <2>3. CASE Run("mutant", "test")
    BY <2>3
  <2>. QED  BY <1>10, <2>1, <2>2, <2>3 DEF Measured, Interrupt
<1>11. CASE Restore \/ Unlink \/ Record
  <2>1. CASE To("tear") \/ To("record") \/ End
    BY <2>1
  <2>2. CASE Advance(proc.at + 1)
    BY <2>2
  <2>. QED  BY <1>11, <2>1, <2>2 DEF Restore, Refusal, Unlink, Record
<1>12. CASE Recover
  BY <1>12 DEF Recover
<1>13. CASE Acknowledge \/ Edit \/ Checkout \/ \E s \in survivors : SurvivorEnds(s)
  BY <1>13 DEF Acknowledge, Edit, Checkout, SurvivorEnds
<1>14. CASE UNCHANGED vars
  BY <1>14 DEF vars, campaignVars
<1>. QED
  BY <1>1, <1>2, <1>3, <1>4, <1>5, <1>6, <1>7, <1>8, <1>9, <1>10, <1>11, <1>12, <1>13, <1>14
     DEF LineageNext, Next

LEMMA InspectionsStep ==
  ASSUME TypeOK, ControlSound, InspectionsSound, [LineageNext]_vars, TypeOK'
  PROVE  InspectionsSound'
<1>1. Kept
  BY HistoryKept
<1>2. Len(reports) \in Nat /\ Len(reports') \in Nat
  BY DEF TypeOK
<1>3. ASSUME NEW n \in 1..Len(reports')
      PROVE  /\ reports'[n].parent \in 0..(n - 1)
             /\ reports'[n].parent # 0 =>
                  (\E a \in acks' :
                     /\ a.before <= n - 1 /\ a.by # reports'[reports'[n].parent].operator
                     /\ a.log.job = "mutant" /\ a.log.run = reports'[n].parent)
  <2>1. CASE n <= Len(reports)
    <3>1. PICK q : q = reports[n].parent
      OBVIOUS
    <3>2. q \in 0..(n - 1) /\ reports'[n].parent = q
      BY <1>1, <1>2, <2>1, <3>1 DEF InspectionsSound, Kept
    <3>3. ASSUME q # 0
          PROVE  InspectedBy(q, n - 1)'
      <4>1. q \in 1..Len(reports)
        BY <1>2, <2>1, <3>2, <3>3
      <4>2. InspectedBy(q, n - 1)
        BY <1>2, <2>1, <3>1, <3>3 DEF InspectionsSound, AbortsInspected
      <4>. QED  BY <1>1, <4>1, <4>2, InspectionStays
    <3>. QED  BY <3>2, <3>3 DEF InspectedBy
  <2>2. CASE ~(n <= Len(reports))
    <3>1. PICK start, parent :
            /\ Campaign(start, parent)
            /\ parent = 0 \/ (parent \in 1..Len(reports) /\ Acknowledged(parent))
      BY <1>2, <2>2, WhoWrites, ReportsStay DEF Restoration
    <3>2. n = Len(reports) + 1 /\ reports'[n].parent = parent
      BY <1>2, <2>2, <3>1, CampaignAppends
    <3>3. ASSUME parent # 0
          PROVE  InspectedBy(parent, n - 1)'
      <4>1. parent \in 1..Len(reports) /\ InspectedBy(parent, Len(reports))
        BY <3>1, <3>3, AcknowledgedIsInspected
      <4>3. n - 1 = Len(reports)
        BY <1>2, <3>2
      <4>4. PICK limit : limit = n - 1
        OBVIOUS
      <4>5. InspectedBy(parent, limit)
        BY <4>1, <4>3, <4>4
      <4>. QED  BY <1>1, <4>1, <4>4, <4>5, InspectionStays
    <3>. QED  BY <1>2, <3>1, <3>2, <3>3 DEF InspectedBy
  <2>. QED  BY <2>1, <2>2
<1>4. ASSUME NEW c \in receipts'
      PROVE  /\ c.of \in 1..Len(reports') /\ c.before <= Len(reports')
             /\ InspectedBy(c.of, c.before)'
  <2>1. PICK k, limit : k = c.of /\ limit = c.before
    OBVIOUS
  <2>2. k \in 1..Len(reports) /\ limit <= Len(reports) /\ InspectedBy(k, limit)
    <3>1. CASE c \in receipts
      BY <2>1, <3>1 DEF InspectionsSound, AbortsInspected
    <3>2. CASE c \notin receipts
      <4>1. Restoration
        BY <3>2, WhoWrites
      <4>2. c.of = proc.run /\ c.before = Len(reports) /\ proc.job = "restore" /\ proc.pc = "reported"
        BY <3>2, <4>1 DEF Restoration, At
      <4>3. proc.run \in 1..Len(reports)
        BY <4>2 DEF ControlSound, Undoing
      <4>. QED  BY <1>2, <2>1, <4>2, <4>3 DEF InspectionsSound
    <3>. QED  BY <3>1, <3>2
  <2>3. InspectedBy(k, limit)'
    BY <1>1, <2>2, InspectionStays
  <2>4. limit \in Nat
    BY <2>1 DEF TypeOK, ReceiptRow
  <2>. QED  BY <1>1, <1>2, <2>1, <2>2, <2>3, <2>4 DEF Kept
<1>5. ASSUME proc'.job = "restore"
      PROVE  \E a \in acks' :
               /\ a.before <= Len(reports') /\ a.by # reports'[proc'.run].operator
               /\ a.log.job = "mutant" /\ a.log.run = proc'.run
  <2>1. PICK k : k = proc'.run
    OBVIOUS
  <2>2. k \in 1..Len(reports) /\ InspectedBy(k, Len(reports))
    <3>1. CASE proc.job = "restore" /\ proc'.run = proc.run
      BY <2>1, <3>1 DEF InspectionsSound, ControlSound, Undoing, Executing
    <3>2. ASSUME NEW n \in 1..Len(reports), RestoreFrom(n), proc'.run = n
          PROVE  k \in 1..Len(reports) /\ InspectedBy(k, Len(reports))
      BY <2>1, <3>2, AcknowledgedIsInspected DEF RestoreFrom
    <3>. QED  BY <1>5, <3>1, <3>2, RestorationInHand
  <2>3. PICK limit : limit = Len(reports)
    OBVIOUS
  <2>4. InspectedBy(k, limit)'
    BY <1>1, <2>2, <2>3, InspectionStays
  <2>5. PICK a \in acks' : /\ a.before <= limit /\ a.by # reports'[k].operator
                           /\ a.log.job = "mutant" /\ a.log.run = k
    BY <2>4 DEF InspectedBy
  <2>6. a.before \in Nat
    BY DEF TypeOK, AckRow
  <2>7. a.before <= Len(reports')
    BY <1>1, <1>2, <2>3, <2>5, <2>6 DEF Kept
  <2>. QED  BY <2>1, <2>5, <2>7
<1>6. ASSUME NEW a \in acks'
      PROVE  a.before <= Len(reports')
  <2>1. a.before \in Nat
    BY DEF TypeOK, AckRow
  <2>2. a.before <= Len(reports)
    BY <1>1, <1>2, <2>1 DEF Kept, InspectionsSound
  <2>. QED  BY <1>1, <1>2, <2>1, <2>2 DEF Kept
<1>. QED  BY <1>3, <1>4, <1>5, <1>6 DEF InspectionsSound, AbortsInspected, InspectedBy

-----------------------------------------------------------------------------
(* Histories.                                                              *)

\* A step that leaves the reports alone leaves the process with its report and its
\* candidate, or without any.
Quiet ==
  /\ UNCHANGED reports /\ receipts \subseteq receipts' /\ acks \subseteq acks'
  /\ proc'.pc # "off" /\ ~proc'.raising /\ proc'.job # "restore" =>
       /\ proc.pc # "off" /\ ~proc.raising /\ proc.job # "restore"
       /\ proc'.run = proc.run /\ proc'.at = proc.at
       /\ proc.job = "baseline" => proc'.job = "baseline"

LEMMA StepKinds ==
  ASSUME TypeOK, ControlSound, [LineageNext]_vars
  PROVE  \/ (Plain \/ Record \/ Begin) /\ UNCHANGED receipts
         \/ \E n \in 1..Len(reports) : ContinueFrom(n)
         \/ Quiet
<1>. USE DEF TypeOK, ProcRow, Off, End, To, Run, Raise, At, exec
<1>0. acks \subseteq acks'
  BY AttestationsKept
<1>. DEFINE Goal == Quiet
<1>1. ASSUME NEW n \in 1..Len(reports), RestoreFrom(n)
      PROVE  Goal
  BY <1>0, <1>1 DEF RestoreFrom, Quiet
<1>2. CASE Restoration
  <2>1. UNCHANGED reports /\ receipts \subseteq receipts'
    BY <1>2 DEF Restoration
  <2>2. CASE End
    BY <1>0, <2>1, <2>2 DEF Quiet
  <2>3. CASE Run("restore", "test")
    BY <1>0, <2>1, <2>3 DEF Quiet
  <2>. QED  BY <1>2, <2>2, <2>3 DEF Restoration
<1>3. CASE (Mark \/ Spawn \/ Unmark \/ Remark) /\ UNCHANGED receipts
  <2>1. CASE proc.raising
    BY <1>3, <2>1 DEF Mark, Spawn, Unmark, Remark, ControlSound, Undoing
  <2>2. CASE ~proc.raising
    BY <1>0, <1>3, <2>2 DEF Mark, Spawn, Unmark, Remark, Quiet
  <2>. QED  BY <2>1, <2>2
<1>4. CASE Kill /\ UNCHANGED receipts
  BY <1>0, <1>4 DEF Kill, Quiet
<1>5. CASE (Finish \/ Abort) /\ UNCHANGED receipts
  BY <1>0, <1>5 DEF Finish, Abort, Quiet
<1>6. CASE Loop /\ UNCHANGED receipts
  <2>0. proc.pc = "loop" /\ proc.job = "none" /\ ~proc.raising /\ UNCHANGED reports
    BY <1>6 DEF Loop, ControlSound, Executing, Undoing
  <2>1. CASE RestoredCompiled
    BY <1>0, <1>6, <2>0, <2>1 DEF RestoredCompiled, Quiet
  <2>2. CASE To("journal")
    BY <1>0, <1>6, <2>0, <2>2 DEF Quiet
  <2>3. CASE End
    BY <1>0, <1>6, <2>0, <2>3 DEF Quiet
  <2>. QED  BY <1>6, <2>1, <2>2, <2>3 DEF Loop
<1>7. CASE Truncate /\ UNCHANGED receipts
  BY <1>0, <1>7 DEF Truncate, Quiet
<1>8. CASE Fill /\ UNCHANGED receipts
  <2>0. UNCHANGED reports
    BY <1>8 DEF Fill
  <2>1. CASE To("mutate") /\ At("journalled")
    BY <1>0, <1>8, <2>0, <2>1 DEF Quiet
  <2>2. CASE Run("mutant", "compile") /\ At("mutated")
    <3>1. proc.job = "none" /\ ~proc.raising
      BY <2>2 DEF ControlSound, Executing, Undoing
    <3>. QED  BY <1>0, <1>8, <2>0, <2>2, <3>1 DEF Quiet
  <2>3. CASE To("unlink") /\ At("rewrite")
    BY <1>0, <1>8, <2>0, <2>3 DEF Quiet
  <2>. QED  BY <1>8, <2>1, <2>2, <2>3 DEF Fill
<1>9. CASE Measured /\ UNCHANGED receipts
  <2>0. proc.pc = "reported" /\ proc.job = "mutant" /\ UNCHANGED reports
    BY <1>9 DEF Measured
  <2>1. CASE Raise
    BY <1>0, <1>9, <2>0, <2>1 DEF Quiet
  <2>2. CASE To("restore")
    BY <1>0, <1>9, <2>0, <2>2 DEF Quiet
  <2>3. CASE Run("mutant", "test")
    BY <1>0, <1>9, <2>0, <2>3 DEF Quiet
  <2>. QED  BY <1>9, <2>1, <2>2, <2>3 DEF Measured
<1>10. CASE Interrupt /\ UNCHANGED receipts
  <2>0. UNCHANGED reports
    BY <1>10 DEF Interrupt
  <2>1. CASE Raise
    BY <1>0, <1>10, <2>0, <2>1 DEF Quiet
  <2>2. CASE End
    BY <1>0, <1>10, <2>0, <2>2 DEF Quiet
  <2>. QED  BY <1>10, <2>1, <2>2 DEF Interrupt
<1>11. CASE (Restore \/ Unlink) /\ UNCHANGED receipts
  <2>0. UNCHANGED reports
    BY <1>11 DEF Restore, Unlink
  <2>1. CASE To("tear") \/ To("record")
    BY <1>0, <1>11, <2>0, <2>1 DEF Quiet, Restore, Unlink
  <2>2. CASE End
    BY <1>0, <1>11, <2>0, <2>2 DEF Quiet
  <2>. QED  BY <1>11, <2>1, <2>2 DEF Restore, Refusal, Unlink
<1>12. CASE Recover /\ UNCHANGED receipts
  BY <1>0, <1>12 DEF Recover, Quiet
<1>13. CASE (Acknowledge \/ Edit \/ Checkout) /\ UNCHANGED receipts
  BY <1>0, <1>13 DEF Acknowledge, Edit, Checkout, Quiet
<1>14. ASSUME NEW s \in survivors, SurvivorEnds(s), UNCHANGED receipts
       PROVE  Goal
  BY <1>0, <1>14 DEF SurvivorEnds, Quiet
<1>15. CASE UNCHANGED vars
  BY <1>15 DEF vars, campaignVars, Quiet
<1>. QED
  BY <1>1, <1>2, <1>3, <1>4, <1>5, <1>6, <1>7, <1>8, <1>9, <1>10, <1>11, <1>12, <1>13, <1>14,
     <1>15 DEF LineageNext, Next

\* A report that does not change, with a parent that does not, stays sound.
LEMMA ReportSoundStays ==
  ASSUME receipts \subseteq receipts', acks \subseteq acks',
         NEW n, ReportSound(n), reports'[n] = reports[n],
         reports[n].parent # 0 => reports'[reports[n].parent] = reports[reports[n].parent]
  PROVE  ReportSound(n)'
<1>1. PICK r, q : r = reports[n] /\ q = reports[reports[n].parent]
  OBVIOUS
<1>2. RowsSound(reports[n])'
  BY DEF ReportSound, RowsSound
<1>3. Resumes(n)'
  <2>1. CASE r.parent = 0
    BY <1>1, <2>1 DEF ReportSound, Resumes
  <2>2. CASE r.parent # 0
    <3>1. r.start = Observed(r.parent) /\ r.start > 0
          /\ Acknowledged(r.parent) /\ Restored(r.parent)
      BY <1>1, <2>2 DEF ReportSound, Resumes
    <3>2. PICK p : p = r.parent
      OBVIOUS
    <3>3. Observed(p)' = Observed(p) /\ LastUnknown(p)' = LastUnknown(p)
      BY <1>1, <2>2, <3>2 DEF Observed, LastUnknown
    <3>4. Acknowledged(p)' /\ Restored(p)'
      BY <1>1, <2>2, <3>1, <3>2, <3>3 DEF Acknowledged, ValidAck, BindsLastLog, LastLog, Restored
    <3>. QED  BY <1>1, <2>2, <3>1, <3>2, <3>3, <3>4 DEF Resumes
  <2>. QED  BY <2>1, <2>2
<1>. QED  BY <1>2, <1>3 DEF ReportSound

\* The report in hand changes, and its own rows stay in order.
LEMMA RunReplaced ==
  ASSUME TypeOK, HistoriesSound, InspectionsSound, UNCHANGED <<receipts, acks>>,
         NEW k \in 1..Len(reports), reports[k].terminal = "running",
         NEW q \in ReportRow, reports' = [reports EXCEPT ![k] = q],
         q.start = reports[k].start, q.parent = reports[k].parent, RowsSound(q)
  PROVE  \A n \in 1..Len(reports') : ReportSound(n)'
<1>1. reports \in Seq(ReportRow) /\ Len(reports') = Len(reports) /\ reports'[k] = q
      /\ \A n \in 1..Len(reports) : n # k => reports'[n] = reports[n]
  BY DEF TypeOK
<1>2. \A n \in 1..Len(reports) :
        reports[n].parent # 0 =>
          /\ reports[n].parent \in 1..Len(reports)
          /\ reports[n].parent # k
  <2>1. ASSUME NEW n \in 1..Len(reports), reports[n].parent # 0
        PROVE  reports[n].parent \in 1..Len(reports) /\ reports[n].parent # k
    <3>1. reports[n].parent \in 1..Len(reports)
      BY <1>1, <2>1 DEF InspectionsSound
    <3>2. reports[reports[n].parent].terminal = "aborted"
      BY <2>1 DEF HistoriesSound, ReportSound
    <3>. QED  BY <3>1, <3>2
  <2>. QED  BY <2>1
<1>3. ASSUME NEW n \in 1..Len(reports), n # k
      PROVE  ReportSound(n)'
  <2>1. reports'[n] = reports[n]
        /\ (reports[n].parent # 0 => reports'[reports[n].parent] = reports[reports[n].parent])
    BY <1>1, <1>2, <1>3
  <2>2. ReportSound(n)
    BY DEF HistoriesSound
  <2>. QED  BY <2>1, <2>2, ReportSoundStays
<1>4. ReportSound(k)'
  <2>0. ReportSound(k)
    BY DEF HistoriesSound
  <2>1. RowsSound(reports[k])'
    BY <1>1 DEF RowsSound
  <2>2. PICK p : p = reports[k].parent
    OBVIOUS
  <2>3. p # 0 => p \in 1..Len(reports) /\ p # k
    BY <1>2, <2>2
  <2>4. CASE p = 0
    BY <1>1, <2>0, <2>1, <2>2, <2>4 DEF ReportSound, Resumes
  <2>5. CASE p # 0
    <3>1. reports'[p] = reports[p]
      BY <1>1, <2>3, <2>5
    <3>2. q.start = Observed(p) /\ q.start > 0 /\ Acknowledged(p) /\ Restored(p)
          /\ reports[p].terminal = "aborted" /\ \E c \in receipts : c.of = p /\ c.before < k
      BY <2>0, <2>2, <2>5 DEF ReportSound, Resumes
    <3>3. Observed(p)' = Observed(p) /\ LastUnknown(p)' = LastUnknown(p)
      BY <3>1 DEF Observed, LastUnknown
    <3>4. Acknowledged(p)' /\ Restored(p)'
      BY <3>1, <3>2, <3>3 DEF Acknowledged, ValidAck, BindsLastLog, LastLog, Restored
    <3>5. reports'[k].parent = p /\ reports'[k].start = q.start
      BY <1>1, <2>2
    <3>. QED  BY <2>1, <2>5, <3>1, <3>2, <3>3, <3>4, <3>5 DEF ReportSound, Resumes
  <2>. QED  BY <2>4, <2>5
<1>. QED  BY <1>1, <1>3, <1>4

LEMMA PlainHistories ==
  ASSUME TypeOK, ControlSound, ExecutionSound, InspectionsSound, HistoriesSound,
         Plain, UNCHANGED receipts
  PROVE  HistoriesSound'
<1>1. /\ proc.pc = "reported" /\ proc.job \in {"baseline", "restored"} /\ ~proc.raising
      /\ proc.run \in 1..Len(reports) /\ UNCHANGED acks
  BY DEF Plain, At, ControlSound, Undoing, exec
<1>2. PICK r : r = reports[proc.run]
  OBVIOUS
<1>3. /\ r \in ReportRow /\ RowsSound(r) /\ r.terminal = "running"
      /\ proc.at = r.start + Len(r.rows) + 1
      /\ (proc.job # "baseline" => r.before = "original")
  BY <1>1, <1>2 DEF TypeOK, HistoriesSound, RunSound, ReportSound, Observed
<1>4. reports \in Seq(ReportRow) /\ proc \in ProcRow
  BY DEF TypeOK
<1>5. CASE UNCHANGED reports /\ (End \/ Run(proc.job, "test"))
  <2>1. \A n \in 1..Len(reports') : ReportSound(n)'
    BY <1>1, <1>5, ReportSoundStays DEF HistoriesSound
  <2>2. RunSound'
    <3>1. CASE End
      BY <3>1 DEF RunSound, End, Off
    <3>2. CASE Run(proc.job, "test")
      <4>1. proc'.run = proc.run /\ proc'.at = proc.at /\ proc'.job = proc.job
        BY <3>2, <1>4 DEF Run, ProcRow
      <4>. QED  BY <1>1, <1>2, <1>3, <1>5, <4>1 DEF RunSound, Observed
    <3>. QED  BY <1>5, <3>1, <3>2
  <2>. QED  BY <2>1, <2>2 DEF HistoriesSound
<1>6. ~proc.unknown /\ proc.phase = "test" => proc.tested = "original"
  BY <1>1 DEF ExecutionSound, Target
<1>7. CASE /\ ~proc.unknown /\ proc.phase = "test" /\ proc.job = "baseline"
           /\ reports' = [reports EXCEPT ![proc.run].before = proc.tested] /\ Advance(proc.at)
  <2>1. PICK q : q = [r EXCEPT !.before = "original"]
    OBVIOUS
  <2>2. /\ q \in ReportRow /\ q.start = r.start /\ q.parent = r.parent /\ q.rows = r.rows
        /\ q.terminal = r.terminal /\ q.before = "original"
    BY <1>3, <2>1 DEF ReportRow, Bytes
  <2>3. RowsSound(q)
    BY <1>3, <2>2 DEF RowsSound, Ended
  <2>4. reports' = [reports EXCEPT ![proc.run] = q]
    BY <1>2, <1>6, <1>7, <2>1
  <2>5. \A n \in 1..Len(reports') : ReportSound(n)'
    BY <1>1, <1>2, <1>3, <2>2, <2>3, <2>4, RunReplaced
  <2>6. reports'[proc.run] = q
    BY <1>1, <1>4, <2>4
  <2>7. proc'.run = proc.run /\ proc'.at = proc.at
    BY <1>7 DEF Advance, Off
  <2>. QED  BY <1>3, <2>2, <2>5, <2>6, <2>7 DEF HistoriesSound, RunSound, Observed
<1>8. CASE /\ ~proc.unknown /\ proc.phase = "test" /\ proc.job # "baseline" /\ End
           /\ reports' = [reports EXCEPT ![proc.run].after = proc.tested,
                 ![proc.run].terminal = IF AllObserved THEN "complete" ELSE "partial"]
  <2>0. PICK x : x = IF AllObserved THEN "complete" ELSE "partial"
    OBVIOUS
  <2>1. PICK q : q = [r EXCEPT !.after = "original", !.terminal = x]
    OBVIOUS
  <2>2. /\ q \in ReportRow /\ q.start = r.start /\ q.parent = r.parent /\ q.rows = r.rows
        /\ q.terminal = x /\ q.before = r.before /\ q.after = "original"
    BY <1>3, <2>0, <2>1 DEF ReportRow, Bytes, Ended
  <2>3. RowsSound(q)
    <3>1. \A i \in 1..Len(r.rows) : r.rows[i].status # "unknown"
      BY <1>3 DEF RowsSound
    <3>2. x = "complete" => r.start + Len(r.rows) = Len(Candidates)
      <4>1. r.start \in Nat /\ Len(r.rows) \in Nat /\ Len(Candidates) \in Nat
        BY <1>3, CampaignConstants DEF ReportRow
      <4>. QED  BY <1>3, <2>0, <4>1 DEF AllObserved, RowsSound
    <3>3. x \in {"complete", "partial"} /\ r.before = "original"
      BY <2>0, <1>3, <1>8
    <3>. QED  BY <1>3, <2>2, <3>1, <3>2, <3>3 DEF RowsSound, Ended
  <2>4. reports' = [reports EXCEPT ![proc.run] = q]
    BY <1>1, <1>2, <1>4, <1>6, <1>8, <2>0, <2>1
  <2>5. \A n \in 1..Len(reports') : ReportSound(n)'
    BY <1>1, <1>2, <1>3, <2>2, <2>3, <2>4, RunReplaced
  <2>. QED  BY <1>8, <2>5 DEF HistoriesSound, RunSound, End, Off
<1>. QED  BY <1>1, <1>5, <1>7, <1>8 DEF Plain

LEMMA RecordHistories ==
  ASSUME TypeOK, ControlSound, InspectionsSound, HistoriesSound, Record, UNCHANGED receipts
  PROVE  HistoriesSound'
<1>1. /\ proc.pc = "record" /\ proc.job = "mutant" /\ ~proc.raising
      /\ proc.run \in 1..Len(reports) /\ UNCHANGED acks /\ proc.at <= Len(Candidates)
  BY DEF Record, At, ControlSound, Undoing, exec, OnMutant
<1>2. PICK r : r = reports[proc.run]
  OBVIOUS
<1>3. /\ r \in ReportRow /\ RowsSound(r) /\ r.terminal = "running"
      /\ proc.at = r.start + Len(r.rows) + 1 /\ r.before = "original"
  BY <1>1, <1>2 DEF TypeOK, HistoriesSound, RunSound, ReportSound, Observed
<1>4. reports \in Seq(ReportRow) /\ proc \in ProcRow
  BY DEF TypeOK
<1>5. CASE UNCHANGED reports /\ End
  <2>1. \A n \in 1..Len(reports') : ReportSound(n)'
    BY <1>1, <1>5, ReportSoundStays DEF HistoriesSound
  <2>. QED  BY <1>5, <2>1 DEF HistoriesSound, RunSound, End, Off
<1>6. ASSUME NEW status \in Outcomes,
        reports' = [reports EXCEPT ![proc.run].rows = Append(@, Row(status)),
                      ![proc.run].terminal = IF proc.unknown THEN "aborted" ELSE @],
        IF proc.unknown THEN End ELSE Advance(proc.at + 1)
      PROVE  HistoriesSound'
  <2>1. PICK row : row = Row(status)
    OBVIOUS
  <2>2. row.mutant = Candidates[proc.at] /\ row.status = status
        /\ (status = "unknown" <=> proc.unknown)
    BY <2>1 DEF Row, Mutant, Outcomes
  <2>3. row \in Measurement
    <3>1. Mutant \in Bytes
      BY <1>1, MutantInRange DEF Bytes
    <3>2. status \in {"killed", "other", "unknown"}
      BY DEF Outcomes
    <3>3. (IF status = "killed" THEN proc.tested ELSE "none") \in Bytes
      BY DEF TypeOK, ProcRow, Bytes
    <3>. QED  BY <2>1, <3>1, <3>2, <3>3 DEF Row, Measurement
  <2>4. PICK y : y = Append(r.rows, row)
    OBVIOUS
  <2>5. r.rows \in Seq(Measurement) /\ r.start \in Nat
    BY <1>3 DEF ReportRow
  <2>6. /\ y \in Seq(Measurement) /\ Len(y) = Len(r.rows) + 1 /\ Len(r.rows) \in Nat
        /\ \A i \in 1..Len(r.rows) : y[i] = r.rows[i]
        /\ y[Len(y)] = row
    BY <2>3, <2>4, <2>5
  <2>7. PICK x : x = IF proc.unknown THEN "aborted" ELSE r.terminal
    OBVIOUS
  <2>8. PICK q : q = [r EXCEPT !.rows = y, !.terminal = x]
    OBVIOUS
  <2>9. /\ q \in ReportRow /\ q.start = r.start /\ q.parent = r.parent /\ q.rows = y
        /\ q.terminal = x /\ q.before = r.before
    BY <1>3, <2>6, <2>7, <2>8 DEF ReportRow, Ended
  <2>10. RowsSound(q)
    <3>1. ASSUME NEW i \in 1..Len(y)
          PROVE  /\ y[i].mutant = Candidates[r.start + i]
                 /\ y[i].status = "unknown" => i = Len(y) /\ x = "aborted"
      <4>1. CASE i = Len(y)
        <5>1. r.start + i = proc.at
          BY <1>3, <2>5, <2>6, <4>1
        <5>. QED  BY <2>2, <2>6, <2>7, <4>1, <5>1
      <4>2. CASE i # Len(y)
        <5>1. i \in 1..Len(r.rows) /\ y[i] = r.rows[i]
          BY <2>6, <4>2
        <5>. QED  BY <5>1, <1>3 DEF RowsSound
      <4>. QED  BY <4>1, <4>2
    <3>2. r.start + Len(y) <= Len(Candidates)
      BY <1>1, <1>3, <2>5, <2>6
    <3>3. x = "aborted" => y # <<>> /\ y[Len(y)].status = "unknown"
      BY <1>3, <2>2, <2>6, <2>7
    <3>4. x \in {"aborted", "running"}
      BY <1>3, <2>7
    <3>. QED  BY <1>3, <2>9, <3>1, <3>2, <3>3, <3>4 DEF RowsSound
  <2>11. reports' = [reports EXCEPT ![proc.run] = q]
    BY <1>1, <1>2, <1>4, <1>6, <2>1, <2>4, <2>7, <2>8
  <2>12. \A n \in 1..Len(reports') : ReportSound(n)'
    BY <1>1, <1>2, <1>3, <2>9, <2>10, <2>11, RunReplaced
  <2>13. RunSound'
    <3>1. CASE proc.unknown
      BY <1>6, <3>1 DEF RunSound, End, Off
    <3>2. CASE ~proc.unknown
      <4>1. proc'.run = proc.run /\ proc'.at = proc.at + 1
        BY <1>6, <3>2 DEF Advance, Off
      <4>2. reports'[proc.run] = q /\ x = "running"
        BY <1>1, <1>3, <1>4, <2>7, <2>11, <3>2
      <4>5. proc'.at = r.start + Len(y) + 1
        <5>1. PICK a, b : a = r.start /\ b = Len(r.rows)
          OBVIOUS
        <5>2. a \in Nat /\ b \in Nat /\ Len(y) = b + 1 /\ proc.at = a + b + 1
          BY <1>3, <2>5, <2>6, <5>1
        <5>3. proc'.at = a + (b + 1) + 1
          BY <4>1, <5>2
        <5>. QED  BY <5>1, <5>2, <5>3
      <4>6. reports'[proc'.run].start + Len(reports'[proc'.run].rows) = r.start + Len(y)
        BY <2>9, <4>1, <4>2
      <4>. QED  BY <1>3, <2>9, <4>1, <4>2, <4>5, <4>6 DEF RunSound, Observed
    <3>. QED  BY <3>1, <3>2
  <2>. QED  BY <2>12, <2>13 DEF HistoriesSound
<1>. QED  BY <1>5, <1>6 DEF Record

\* A campaign from the first candidate, or from where an aborted, inspected and restored
\* report ends.
LEMMA CampaignHistories ==
  ASSUME TypeOK, InspectionsSound, HistoriesSound, UNCHANGED receipts,
         NEW start \in Nat, NEW parent \in 0..Len(reports), Campaign(start, parent),
         start <= Len(Candidates),
         parent = 0 => start = 0,
         parent # 0 => start = Observed(parent) /\ Acknowledged(parent) /\ Restored(parent)
  PROVE  HistoriesSound'
<1>1. PICK p \in People : reports' = Append(reports, NewReport(start, parent, p))
  BY DEF Campaign
<1>2. PICK q : q = NewReport(start, parent, p)
  OBVIOUS
<1>3. /\ q.start = start /\ q.parent = parent /\ q.rows = <<>> /\ q.terminal = "running"
  BY <1>2 DEF NewReport
<1>4. PICK k : k = Len(reports) + 1
  OBVIOUS
<1>5. /\ Len(reports) \in Nat /\ Len(reports') = k /\ reports'[k] = q
      /\ \A n \in 1..Len(reports) : reports'[n] = reports[n]
  BY <1>1, <1>2, <1>4 DEF TypeOK
<1>6. UNCHANGED acks
  BY DEF Campaign, exec
<1>7. ASSUME NEW n \in 1..Len(reports)
      PROVE  ReportSound(n)'
  <2>1. reports[n].parent # 0 => reports[n].parent \in 1..Len(reports)
    BY <1>5 DEF InspectionsSound
  <2>2. reports'[n] = reports[n]
        /\ (reports[n].parent # 0 => reports'[reports[n].parent] = reports[reports[n].parent])
    BY <1>5, <2>1
  <2>3. ReportSound(n)
    BY DEF HistoriesSound
  <2>. QED  BY <1>6, <2>2, <2>3, ReportSoundStays
<1>8. ReportSound(k)'
  <2>1. RowsSound(reports[k])'
    <3>1. Len(q.rows) = 0 /\ start + 0 = start
      BY <1>3
    <3>2. RowsSound(q)
      BY <1>3, <3>1 DEF RowsSound, Ended
    <3>. QED  BY <1>5, <3>2 DEF RowsSound
  <2>2. CASE parent = 0
    BY <1>3, <1>5, <2>1, <2>2 DEF ReportSound, Resumes
  <2>3. CASE parent # 0
    <3>1. parent \in 1..Len(reports) /\ reports'[parent] = reports[parent]
      BY <1>5, <2>3
    <3>2. LastUnknown(parent) /\ reports[parent].terminal = "aborted"
      BY <2>3 DEF Acknowledged, ValidAck
    <3>3. Observed(parent)' = Observed(parent) /\ LastUnknown(parent)' = LastUnknown(parent)
      BY <3>1 DEF Observed, LastUnknown
    <3>4. Acknowledged(parent)' /\ Restored(parent)'
      BY <1>6, <2>3, <3>1, <3>3 DEF Acknowledged, ValidAck, BindsLastLog, LastLog, Restored
    <3>5. start > 0
      <4>1. reports[parent] \in ReportRow
        BY <3>1 DEF TypeOK
      <4>2. reports[parent].start \in Nat /\ Len(reports[parent].rows) \in Nat \ {0}
        BY <3>2, <4>1 DEF LastUnknown, ReportRow
      <4>. QED  BY <2>3, <4>2 DEF Observed
    <3>6. PICK c \in receipts : c.of = parent
      BY <2>3 DEF Restored
    <3>7. c.before < k
      BY <1>4, <1>5, <2>3 DEF TypeOK, ReceiptRow, InspectionsSound
    <3>. QED  BY <1>3, <1>5, <2>1, <2>3, <3>1, <3>2, <3>3, <3>4, <3>5, <3>6, <3>7
              DEF ReportSound, Resumes
  <2>. QED  BY <2>2, <2>3
<1>9. RunSound'
  <2>1. proc'.job = "baseline" /\ proc'.at = start + 1 /\ proc'.run = k
    BY <1>4 DEF Campaign, Off
  <2>2. reports'[proc'.run] = q
    BY <1>5, <2>1
  <2>3. Len(q.rows) = 0 /\ start + 0 + 1 = start + 1
    BY <1>3
  <2>. QED  BY <1>3, <2>1, <2>2, <2>3 DEF RunSound, Observed
<1>. QED  BY <1>4, <1>5, <1>7, <1>8, <1>9 DEF HistoriesSound

LEMMA QuietHistories ==
  ASSUME TypeOK, InspectionsSound, HistoriesSound, Quiet
  PROVE  HistoriesSound'
<1>1. \A n \in 1..Len(reports') : ReportSound(n)'
  BY ReportSoundStays DEF Quiet, HistoriesSound
<1>2. RunSound'
  BY DEF Quiet, HistoriesSound, RunSound, Observed
<1>. QED  BY <1>1, <1>2 DEF HistoriesSound

LEMMA HistoriesStep ==
  ASSUME TypeOK, ControlSound, ExecutionSound, InspectionsSound, HistoriesSound,
         [LineageNext]_vars
  PROVE  HistoriesSound'
<1>1. CASE Plain /\ UNCHANGED receipts
  BY <1>1, PlainHistories
<1>2. CASE Record /\ UNCHANGED receipts
  BY <1>2, RecordHistories
<1>3. CASE Begin /\ UNCHANGED receipts
  <2>1. 0 <= Len(Candidates) /\ 0 \in 0..Len(reports) /\ 0 \in Nat
    BY CampaignConstants DEF TypeOK
  <2>2. Campaign(0, 0)
    BY <1>3 DEF Begin
  <2>. QED  BY <1>3, <2>1, <2>2, CampaignHistories
<1>4. ASSUME NEW n \in 1..Len(reports), ContinueFrom(n)
      PROVE  HistoriesSound'
  <2>1. Campaign(Observed(n), n) /\ Acknowledged(n) /\ Restored(n) /\ UNCHANGED receipts
    BY <1>4 DEF ContinueFrom, NextIndex
  <2>2. Observed(n) < Len(Candidates)
    BY <1>4 DEF ContinueFrom
  <2>3. Observed(n) \in Nat
    <3>1. reports[n] \in ReportRow
      BY DEF TypeOK
    <3>. QED  BY <3>1 DEF Observed, ReportRow
  <2>4. n \in 0..Len(reports) /\ n # 0 /\ Observed(n) <= Len(Candidates)
    BY <2>2, <2>3, CampaignConstants DEF TypeOK
  <2>. QED  BY <2>1, <2>3, <2>4, CampaignHistories
<1>5. CASE Quiet
  BY <1>5, QuietHistories
<1>. QED  BY <1>1, <1>2, <1>3, <1>4, <1>5, StepKinds

-----------------------------------------------------------------------------
(* What blocks the next run.                                               *)

\* The marker changes hands only while a process works, or by an acknowledgement that
\* archives it; and only an unmarked checkout sets a process to work.
LEMMA MarkerSteps ==
  ASSUME TypeOK, [LineageNext]_vars
  PROVE  /\ proc.pc # "off" \/ UNCHANGED marker \/ \E a \in acks' : a.log = marker
         /\ proc'.pc # "off" => proc.pc # "off" \/ ~Marked
<1>. USE DEF TypeOK, ProcRow, At, exec, bounds
<1>1. CASE Acknowledge
  <2>1. PICK p \in People :
          acks' = acks \cup {[log |-> marker, by |-> p, before |-> Len(reports)]}
    BY <1>1 DEF Acknowledge
  <2>2. PICK a : a = [log |-> marker, by |-> p, before |-> Len(reports)]
    OBVIOUS
  <2>3. a \in acks' /\ a.log = marker
    BY <2>1, <2>2
  <2>. QED  BY <1>1, <2>3 DEF Acknowledge
<1>2. ASSUME NEW n \in 1..Len(reports), RestoreFrom(n) \/ ContinueFrom(n)
      PROVE  UNCHANGED marker /\ ~Marked
  BY <1>2 DEF RestoreFrom, ContinueFrom, Campaign, Ready
<1>3. CASE Begin \/ Recover
  BY <1>3 DEF Begin, Campaign, Ready, Recover
<1>4. CASE Edit \/ Checkout \/ \E s \in survivors : SurvivorEnds(s)
  BY <1>4 DEF Edit, Checkout, SurvivorEnds
<1>5. CASE \/ Mark \/ Spawn \/ Finish \/ Abort \/ Unmark \/ Remark \/ Plain \/ Loop \/ Truncate
           \/ Fill \/ Measured \/ Restore \/ Unlink \/ Record \/ Kill \/ Interrupt
           \/ Restoration
  BY <1>5 DEF Mark, Spawn, Finish, Abort, Unmark, Remark, Plain, Loop, Truncate, Fill, Measured,
     Restore, Unlink, Record, Kill, Interrupt, Restoration
<1>6. CASE UNCHANGED vars
  BY <1>6 DEF vars, campaignVars
<1>. QED  BY <1>1, <1>2, <1>3, <1>4, <1>5, <1>6 DEF LineageNext, Next

\* An abort and its last log stay; the only new one is the row of an execution whose
\* containment is unknown, and that row's log is the one in the marker.
LEMMA AbortsStay ==
  ASSUME TypeOK, ControlSound, HistoriesSound, [LineageNext]_vars,
         NEW n \in 1..Len(reports'), reports'[n].terminal = "aborted"
  PROVE  \/ /\ n \in 1..Len(reports) /\ reports[n].terminal = "aborted"
            /\ LastLog(n)' = LastLog(n)
         \/ Record /\ End /\ proc.unknown /\ LastLog(n)' = Log
<1>. USE DEF LastLog, Observed
<1>1. CASE UNCHANGED reports
  BY <1>1
<1>2. CASE Plain
  <2>1. proc.run \in 1..Len(reports) /\ Len(reports') = Len(reports)
    BY <1>2, ReportsStay DEF Plain, At, ControlSound, Undoing
  <2>2. PICK r, k : r = reports[n] /\ k = proc.run
    OBVIOUS
  <2>3. n \in 1..Len(reports) /\ r \in ReportRow /\ reports \in Seq(ReportRow)
    BY <2>1, <2>2 DEF TypeOK
  <2>4. PICK x : x = IF AllObserved THEN "complete" ELSE "partial"
    OBVIOUS
  <2>5. reports'[n] = r \/ reports'[n] = [r EXCEPT !.before = proc.tested]
        \/ reports'[n] = [r EXCEPT !.after = proc.tested, !.terminal = x]
    <3>1. CASE reports' = [reports EXCEPT ![k].before = proc.tested]
      BY <2>2, <2>3, <3>1
    <3>2. CASE reports' = [reports EXCEPT ![k].after = proc.tested, ![k].terminal = x]
      <4>1. PICK q : q = [reports[k] EXCEPT !.after = proc.tested, !.terminal = x]
        OBVIOUS
      <4>2. reports' = [reports EXCEPT ![k] = q]
        BY <2>1, <2>2, <2>3, <3>2, <4>1
      <4>3. reports'[n] = IF n = k THEN q ELSE r
        BY <2>1, <2>2, <2>3, <4>2
      <4>. QED  BY <2>2, <4>1, <4>3
    <3>. QED  BY <1>1, <1>2, <2>2, <2>4, <3>1, <3>2 DEF Plain
  <2>6. reports'[n].start = r.start /\ reports'[n].rows = r.rows /\ r.terminal = "aborted"
    BY <2>3, <2>4, <2>5 DEF ReportRow
  <2>. QED  BY <2>2, <2>3, <2>6
<1>3. CASE Record
  <2>1. /\ proc.pc = "record" /\ proc.job = "mutant" /\ ~proc.raising
        /\ proc.run \in 1..Len(reports) /\ Len(reports') = Len(reports)
    BY <1>3, ReportsStay DEF Record, At, ControlSound, Undoing
  <2>2. SUFFICES ASSUME NEW status \in Outcomes,
            reports' = [reports EXCEPT ![proc.run].rows = Append(@, Row(status)),
                          ![proc.run].terminal = IF proc.unknown THEN "aborted" ELSE @],
            IF proc.unknown THEN End ELSE Advance(proc.at + 1)
          PROVE  \/ /\ n \in 1..Len(reports) /\ reports[n].terminal = "aborted"
                    /\ LastLog(n)' = LastLog(n)
                 \/ Record /\ End /\ proc.unknown /\ LastLog(n)' = Log
    BY <1>1, <1>3 DEF Record
  <2>3. PICK r, k : r = reports[proc.run] /\ k = proc.run
    OBVIOUS
  <2>4. /\ r \in ReportRow /\ reports \in Seq(ReportRow) /\ r.terminal = "running"
        /\ proc.at = r.start + Len(r.rows) + 1 /\ n \in 1..Len(reports)
    BY <2>1, <2>3 DEF TypeOK, HistoriesSound, RunSound
  <2>5. PICK row, x : row = Row(status) /\ x = IF proc.unknown THEN "aborted" ELSE r.terminal
    OBVIOUS
  <2>6. PICK q : q = [r EXCEPT !.rows = Append(r.rows, row), !.terminal = x]
    OBVIOUS
  <2>7. reports' = [reports EXCEPT ![k] = q]
    BY <2>1, <2>2, <2>3, <2>4, <2>5, <2>6
  <2>8. reports'[n] = IF n = k THEN q ELSE reports[n]
    BY <2>1, <2>3, <2>4, <2>7
  <2>9. CASE n # k
    BY <2>4, <2>8, <2>9
  <2>10. CASE n = k
    <3>1. q.start = r.start /\ q.rows = Append(r.rows, row) /\ q.terminal = x
      BY <2>4, <2>6 DEF ReportRow
    <3>2. proc.unknown
      BY <2>4, <2>5, <2>8, <2>10, <3>1
    <3>3. r.rows \in Seq(Measurement) /\ r.start \in Nat
      BY <2>4 DEF ReportRow
    <3>4. PICK a, b : a = r.start /\ b = Len(r.rows)
      OBVIOUS
    <3>5. Len(Append(r.rows, row)) = b + 1 /\ a \in Nat /\ b \in Nat /\ proc.at = a + b + 1
      BY <2>4, <3>3, <3>4
    <3>6. reports'[n].start + Len(reports'[n].rows) = a + (b + 1)
      BY <2>8, <2>10, <3>1, <3>4, <3>5
    <3>7. LastLog(n)' = Log
      BY <2>1, <2>3, <2>10, <3>5, <3>6 DEF Log
    <3>. QED  BY <1>3, <2>2, <3>2, <3>7
  <2>. QED  BY <2>9, <2>10
<1>4. ASSUME NEW start, NEW parent, Campaign(start, parent)
      PROVE  n \in 1..Len(reports) /\ reports'[n] = reports[n]
  <2>1. PICK p \in People : reports' = Append(reports, NewReport(start, parent, p))
    BY <1>4 DEF Campaign
  <2>2. reports \in Seq(ReportRow) /\ n \in 1..(Len(reports) + 1)
    BY <2>1 DEF TypeOK
  <2>3. n # Len(reports) + 1
    <3>1. NewReport(start, parent, p).terminal = "running"
      BY DEF NewReport
    <3>. QED  BY <2>1, <2>2, <3>1
  <2>. QED  BY <2>1, <2>2, <2>3
<1>5. Begin \/ (\E m \in 1..Len(reports) : ContinueFrom(m)) =>
        n \in 1..Len(reports) /\ reports'[n] = reports[n]
  BY <1>4 DEF Begin, ContinueFrom
<1>. QED  BY <1>1, <1>2, <1>3, <1>5, StepKinds DEF Quiet

LEMMA BlocksStep ==
  ASSUME TypeOK, ControlSound, SurvivorsSound, HistoriesSound, BlocksSound, [LineageNext]_vars
  PROVE  BlocksSound'
<1>. SUFFICES ASSUME NEW n \in 1..Len(reports'), reports'[n].terminal = "aborted"
              PROVE  /\ marker' = LastLog(n)' \/ Attested(LastLog(n))'
                     /\ proc'.pc # "off" => Attested(LastLog(n))'
  BY DEF BlocksSound, AbortsMarked
<1>1. acks \subseteq acks'
  BY AttestationsKept
<1>2. CASE n \in 1..Len(reports) /\ reports[n].terminal = "aborted" /\ LastLog(n)' = LastLog(n)
  <2>1. /\ marker = LastLog(n) \/ Attested(LastLog(n))
        /\ proc.pc # "off" => Attested(LastLog(n))
    BY <1>2 DEF BlocksSound, AbortsMarked
  <2>2. Attested(LastLog(n)) => Attested(LastLog(n))'
    BY <1>1, <1>2 DEF Attested
  <2>3. marker = LastLog(n) => Marked
    BY DEF LastLog, Marked, NoLog
  <2>4. marker = LastLog(n) /\ (\E a \in acks' : a.log = marker) => Attested(LastLog(n))'
    BY <1>2 DEF Attested
  <2>. QED  BY <1>2, <2>1, <2>2, <2>3, <2>4, MarkerSteps
<1>3. CASE Record /\ End /\ proc.unknown /\ LastLog(n)' = Log
  <2>1. marker = Log /\ UNCHANGED marker
    BY <1>3 DEF Record, At, SurvivorsSound, exec
  <2>2. proc'.pc = "off"
    BY <1>3 DEF End, Off
  <2>. QED  BY <1>3, <2>1, <2>2
<1>. QED  BY <1>2, <1>3, AbortsStay

-----------------------------------------------------------------------------
(* What load_history and collect_batch accept.                             *)

\* Of some moments there is a first.
LEMMA Earliest ==
  ASSUME NEW ages \in SUBSET Nat, ages # {}
  PROVE  \E first \in ages : \A age \in ages : first <= age
<1>1. PICK before : before = {pair \in Nat \X Nat : pair[1] < pair[2]}
  OBVIOUS
<1>2. IsWellFoundedOn(before, Nat)
  BY <1>1, NatLessThanWellFounded DEF OpToRel
<1>3. \E first \in ages : \A age \in ages : ~(<<age, first>> \in before)
  BY <1>2, WFMin
<1>4. \A age, first \in Nat : <<age, first>> \in before <=> age < first
  BY <1>1
<1>5. PICK first \in ages : \A age \in ages : ~(<<age, first>> \in before)
  BY <1>3
<1>6. ASSUME NEW age \in ages
      PROVE  first <= age
  <2>1. age \in Nat /\ first \in Nat
    OBVIOUS
  <2>2. ~(<<age, first>> \in before)
    BY <1>5
  <2>3. ~(age < first)
    BY <1>4, <2>1, <2>2
  <2>. QED  BY <2>1, <2>3
<1>. QED  BY <1>6

\* The reports of a history are no younger than its last; with each its parent is one of
\* them, and all but the last are parents.
LEMMA HistoriesAreChains ==
  ASSUME TypeOK, InspectionsSound, NEW n \in 1..Len(reports)
  PROVE  /\ Histories(n) \subseteq 1..n /\ n \in Histories(n)
         /\ \A i \in Histories(n) :
              i # n => \E m \in Histories(n) : reports[m].parent = i /\ i # 0
<1>. DEFINE H == Histories(n)
<1>1. n \in Nat /\ n >= 1 /\ Len(reports) \in Nat
  BY DEF TypeOK
<1>2. H \subseteq 1..n
  BY DEF Histories
<1>3. n \in H
  BY <1>1 DEF Histories
<1>4. \A m \in 1..n : reports[m].parent \in 0..(m - 1)
  BY <1>1 DEF InspectionsSound
<1>5. ASSUME NEW m \in H, reports[m].parent # 0
      PROVE  reports[m].parent \in H
  <2>1. reports[m].parent \in 1..n
    BY <1>1, <1>2, <1>4, <1>5
  <2>2. ASSUME NEW s \in SUBSET (1..n), n \in s, HasParents(s)
        PROVE  reports[m].parent \in s
    <3>1. m \in s
      BY <2>2 DEF Histories
    <3>. QED  BY <1>5, <2>2, <3>1 DEF HasParents
  <2>. QED  BY <2>1, <2>2 DEF Histories
<1>6. ASSUME NEW i \in H, i # n
      PROVE  \E m \in H : reports[m].parent = i /\ i # 0
  <2>1. SUFFICES ASSUME \A m \in H : reports[m].parent # i
                 PROVE  FALSE
    BY <1>1, <1>2
  <2>2. PICK s : s = H \ {i}
    OBVIOUS
  <2>3. s \in SUBSET (1..n) /\ n \in s
    BY <1>2, <1>3, <1>6, <2>2
  <2>4. HasParents(s)
    BY <1>5, <2>1, <2>2 DEF HasParents
  <2>5. i \in s
    BY <2>3, <2>4 DEF Histories
  <2>. QED  BY <2>2, <2>5
<1>. QED  BY <1>2, <1>3, <1>6

\* With each report its parent is in the history.
LEMMA HistoriesHaveParents ==
  ASSUME NEW n \in Nat, NEW m \in Histories(n), reports[m].parent \in Nat,
         reports[m].parent # 0, m <= n, m \in Nat, reports[m].parent < m
  PROVE  reports[m].parent \in Histories(n)
<1>1. ASSUME NEW s \in SUBSET (1..n), n \in s, HasParents(s)
      PROVE  reports[m].parent \in s
  <2>1. m \in s
    BY <1>1 DEF Histories
  <2>. QED  BY <1>1, <2>1 DEF HasParents
<1>2. reports[m].parent \in 1..n
  OBVIOUS
<1>. QED  BY <1>1, <1>2 DEF Histories

\* What the numbers of a history are.
LEMMA HistoryNumbers ==
  ASSUME TypeOK, InspectionsSound, NEW n \in 1..Len(reports)
  PROVE  /\ n \in Nat /\ Histories(n) \subseteq 1..n /\ n \in Histories(n)
         /\ \A m \in Histories(n) :
              /\ m \in Nat /\ m <= n /\ m \in 1..Len(reports)
              /\ reports[m].parent \in Nat /\ reports[m].parent < m
<1>1. Len(reports) \in Nat
  BY DEF TypeOK
<1>2. Histories(n) \subseteq 1..n /\ n \in Histories(n)
  BY HistoriesAreChains
<1>3. \A m \in 1..Len(reports) : reports[m].parent \in 0..(m - 1)
  BY DEF InspectionsSound
<1>. QED  BY <1>1, <1>2, <1>3

\* A report that is sound is what load_history wants of it.
LEMMA SoundIsLoaded ==
  ASSUME HistoriesSound, NEW n \in 1..Len(reports), reports[n].terminal \in Ended
  PROVE  InOrder(n) /\ Terminal(n) /\ Resumes(n)
<1>1. PICK r : r = reports[n]
  OBVIOUS
<1>2. RowsSound(r) /\ Resumes(n) /\ r.terminal \in Ended
  BY <1>1 DEF HistoriesSound, ReportSound
<1>3. InOrder(n)
  BY <1>1, <1>2 DEF InOrder, Observed, RowsSound
<1>4. LastUnknown(n) <=> r.terminal = "aborted"
  <2>1. CASE r.terminal = "aborted"
    BY <1>1, <1>2, <2>1 DEF LastUnknown, RowsSound
  <2>2. ASSUME r.terminal # "aborted", LastUnknown(n)
        PROVE  FALSE
    <3>1. reports \in Seq(ReportRow) => Len(r.rows) \in 1..Len(r.rows)
      BY <1>1, <2>2 DEF LastUnknown, ReportRow
    <3>. QED  BY <1>1, <1>2, <2>2, <3>1 DEF LastUnknown, RowsSound
  <2>. QED  BY <2>1, <2>2
<1>5. Terminal(n)
  BY <1>1, <1>2, <1>4 DEF Terminal, Ended, RowsSound, Observed
<1>. QED  BY <1>2, <1>3, <1>5

\* The collector's history: every report has both its brackets.
LEMMA HistoryBracketed ==
  ASSUME LineageInv, NEW n \in 1..Len(reports), Collectable(n), NEW i \in Histories(n)
  PROVE  /\ reports[i].before = "original"
         /\ \/ reports[i].after = "original"
            \/ \E c \in receipts :
                 /\ c.of = i /\ c.tested = "original"
                 /\ \A m \in Histories(n) : reports[m].parent = i => c.before < m
<1>1. /\ TypeOK /\ InspectionsSound /\ HistoriesSound /\ MeasurementsGenuine
  BY DEF LineageInv, MeasuresSound
<1>2. /\ Histories(n) \subseteq 1..n
      /\ \A k \in Histories(n) : k # n => \E m \in Histories(n) : reports[m].parent = k /\ k # 0
  BY <1>1, HistoriesAreChains
<1>3. n \in Nat /\ Len(reports) \in Nat /\ i \in 1..n /\ i \in 1..Len(reports)
  BY <1>1, <1>2 DEF TypeOK
<1>4. Terminal(i)
  BY DEF Collectable, Accepted
<1>5. reports[i].terminal \in Ended
  BY <1>4 DEF Terminal, Ended
<1>6. RowsSound(reports[i])
  BY <1>1, <1>3 DEF HistoriesSound, ReportSound
<1>7. reports[i].before = "original"
  BY <1>5, <1>6 DEF RowsSound
<1>8. CASE reports[i].terminal # "aborted"
  BY <1>5, <1>6, <1>7, <1>8 DEF RowsSound, Ended
<1>9. CASE reports[i].terminal = "aborted"
  <2>1. \A m \in Histories(n) : reports[m].parent = i =>
          \E c \in receipts : c.of = i /\ c.before < m
    BY <1>1, <1>2, <1>3 DEF HistoriesSound, ReportSound
  <2>2. \E c \in receipts : c.of = i
    <3>1. CASE i = n
      BY <1>9, <3>1 DEF Collectable, Restored
    <3>2. CASE i # n
      BY <1>2, <2>1, <3>2
    <3>. QED  BY <3>1, <3>2
  <2>3. PICK ages : ages = {c.before : c \in {d \in receipts : d.of = i}}
    OBVIOUS
  <2>4. ages \in SUBSET Nat /\ ages # {}
    BY <1>1, <2>2, <2>3 DEF TypeOK, ReceiptRow
  <2>5. PICK first \in ages : \A age \in ages : first <= age
    BY <2>4, Earliest
  <2>6. PICK c \in receipts : c.of = i /\ c.before = first
    BY <2>3, <2>5
  <2>7. ASSUME NEW m \in Histories(n), reports[m].parent = i
        PROVE  c.before < m
    <3>1. PICK d \in receipts : d.of = i /\ d.before < m
      BY <2>1, <2>7
    <3>2. first <= d.before /\ d.before \in Nat /\ first \in Nat
      BY <2>3, <2>4, <2>5, <3>1
    <3>3. m \in Nat
      BY <1>2, <1>3
    <3>. QED  BY <2>6, <3>1, <3>2, <3>3
  <2>8. c.tested = "original"
    BY <1>1 DEF MeasurementsGenuine
  <2>. QED  BY <1>7, <2>6, <2>7, <2>8
<1>. QED  BY <1>8, <1>9

\* A history has no gaps: of its reports that are older than one of them, the parent of
\* that one is the youngest.
LEMMA ParentsAreNext ==
  ASSUME TypeOK, InspectionsSound, NEW n \in 1..Len(reports),
         NEW j \in Histories(n), NEW i \in Histories(n), i < j
  PROVE  i <= reports[j].parent /\ reports[j].parent \in Histories(n)
<1>. DEFINE H == Histories(n)
            Gap(k) == \E m \in H : reports[k].parent < m /\ m < k
            ages == {n - k : k \in {h \in H : Gap(h)}}
<1>1. /\ n \in Nat /\ H \subseteq 1..n /\ n \in H
      /\ \A k \in H : k \in Nat /\ k <= n /\ reports[k].parent \in Nat /\ reports[k].parent < k
  BY HistoryNumbers
<1>2. \A k \in H : reports[k].parent # 0 => reports[k].parent \in H
  BY <1>1, HistoriesHaveParents
<1>3. ages = {}
  <2>1. SUFFICES ASSUME ages # {} PROVE FALSE
    OBVIOUS
  <2>2. ages \in SUBSET Nat
    BY <1>1
  <2>3. PICK first \in ages : \A age \in ages : first <= age
    BY <2>1, <2>2, Earliest
  <2>4. PICK k \in H : Gap(k) /\ first = n - k
    BY <2>3
  <2>5. \A m \in H : m > k => ~Gap(m)
    <3>. SUFFICES ASSUME NEW m \in H, m > k, Gap(m) PROVE FALSE
      OBVIOUS
    <3>1. n - m \in ages
      OBVIOUS
    <3>2. n - k <= n - m
      BY <2>3, <2>4, <3>1
    <3>3. n \in Nat /\ m \in Nat /\ k \in Nat
      BY <1>1
    <3>. QED  BY <3>2, <3>3
  <2>6. PICK s : s = {m \in H : m >= k \/ m <= reports[k].parent}
    OBVIOUS
  <2>7. n \in s /\ s \in SUBSET (1..n)
    BY <1>1, <2>6
  <2>8. HasParents(s)
    <3>. SUFFICES ASSUME NEW m \in s, reports[m].parent # 0 PROVE reports[m].parent \in s
      BY DEF HasParents
    <3>. DEFINE q == reports[m].parent
                top == reports[k].parent
    <3>1. m \in H /\ (m >= k \/ m <= top)
      BY <2>6
    <3>2. q \in H
      BY <1>2, <3>1
    <3>3. q < m /\ q \in Nat /\ m \in Nat /\ k \in Nat /\ top \in Nat /\ top < k
      BY <1>1, <3>1
    <3>4. q >= k \/ q <= top
      <4>1. m > k => ~(q < k /\ k < m)
        BY <2>5, <3>1
      <4>2. m = k => q = top
        OBVIOUS
      <4>. HIDE DEF q, top
      <4>. QED  BY <3>1, <3>3, <4>1, <4>2
    <3>. QED  BY <2>6, <3>2, <3>4
  <2>9. H \subseteq s
    BY <2>7, <2>8 DEF Histories
  <2>10. PICK m \in H : reports[k].parent < m /\ m < k
    BY <2>4
  <2>11. m >= k \/ m <= reports[k].parent
    BY <2>6, <2>9, <2>10
  <2>12. m \in Nat /\ k \in Nat /\ reports[k].parent \in Nat
    BY <1>1, <2>10
  <2>. QED  BY <2>10, <2>11, <2>12
<1>4. ~Gap(j)
  BY <1>3
<1>5. i <= reports[j].parent
  BY <1>1, <1>4
<1>. QED  BY <1>1, <1>2, <1>5

\* The reports of an accepted history follow each other: each begins where its parent
\* ends, the oldest at the first candidate.
LEMMA HistoryIsPrefix ==
  ASSUME TypeOK, InspectionsSound, NEW n \in 1..Len(reports), Accepted(n)
  PROVE  /\ \A i, j \in Histories(n) : i < j => Observed(i) <= reports[j].start
         /\ \A k \in 1..Observed(n) :
              \E m \in Histories(n) : reports[m].start < k /\ k <= Observed(m)
<1>. DEFINE H == Histories(n)
<1>1. /\ n \in Nat /\ H \subseteq 1..n /\ n \in H
      /\ \A m \in H : /\ m \in Nat /\ m <= n /\ m \in 1..Len(reports)
                     /\ reports[m].parent \in Nat /\ reports[m].parent < m
  BY HistoryNumbers
<1>2. \A m \in H : /\ reports[m].start \in Nat /\ Observed(m) \in Nat
                   /\ reports[m].start <= Observed(m)
  <2>. SUFFICES ASSUME NEW m \in H
                PROVE  /\ reports[m].start \in Nat /\ Observed(m) \in Nat
                       /\ reports[m].start <= Observed(m)
    OBVIOUS
  <2>1. reports[m] \in ReportRow
    BY <1>1 DEF TypeOK
  <2>2. reports[m].start \in Nat /\ Len(reports[m].rows) \in Nat
    BY <2>1 DEF ReportRow
  <2>. QED  BY <2>2 DEF Observed
<1>3. \A m \in H : reports[m].start = IF reports[m].parent = 0 THEN 0
                                       ELSE Observed(reports[m].parent)
  BY DEF Accepted, Resumes
<1>4. ASSUME NEW i \in H, NEW j0 \in H, i < j0 PROVE Observed(i) <= reports[j0].start
  <2>. DEFINE Late == {j \in H : i < j /\ ~(Observed(i) <= reports[j].start)}
  <2>1. SUFFICES ASSUME Late # {} PROVE FALSE
    BY <1>4
  <2>2. Late \in SUBSET Nat
    BY <1>1
  <2>3. PICK j \in Late : \A k \in Late : j <= k
    BY <2>1, <2>2, Earliest
  <2>4. i <= reports[j].parent /\ reports[j].parent \in H
    BY <2>3, ParentsAreNext
  <2>5. reports[j].start = Observed(reports[j].parent) /\ reports[j].parent < j
    BY <1>1, <1>3, <2>3, <2>4
  <2>6. CASE i = reports[j].parent
    BY <1>2, <2>3, <2>5, <2>6
  <2>7. CASE i < reports[j].parent
    <3>1. reports[j].parent \notin Late
      BY <1>1, <2>3, <2>4, <2>5
    <3>2. Observed(i) <= reports[reports[j].parent].start
      BY <2>4, <2>7, <3>1
    <3>. QED  BY <1>2, <2>3, <2>4, <2>5, <3>2
  <2>. QED  BY <1>1, <2>4, <2>6, <2>7
<1>5. ASSUME NEW k \in 1..Observed(n)
      PROVE  \E m \in H : reports[m].start < k /\ k <= Observed(m)
  <2>. DEFINE Past == {m \in H : k <= Observed(m)}
  <2>1. Past \in SUBSET Nat /\ n \in Past
    BY <1>1, <1>2
  <2>2. PICK m \in Past : \A j \in Past : m <= j
    BY <2>1, Earliest
  <2>3. reports[m].start < k
    <3>1. SUFFICES ASSUME k <= reports[m].start PROVE FALSE
      BY <1>2
    <3>2. reports[m].parent # 0 /\ reports[m].start = Observed(reports[m].parent)
      BY <1>3, <3>1
    <3>3. reports[m].parent < m /\ reports[m].parent \in Nat /\ m \in Nat /\ m <= n
      BY <1>1
    <3>4. reports[m].parent \in H
      BY <1>1, <3>2, <3>3, HistoriesHaveParents
    <3>5. m <= reports[m].parent
      BY <2>2, <3>1, <3>2, <3>4
    <3>. QED  BY <3>3, <3>5
  <2>. QED  BY <2>2, <2>3
<1>. QED  BY <1>4, <1>5

\* The collector's corpus: one observation of each candidate of a prefix, and every kill
\* among them measured on its own mutant.
LEMMA CorpusGenuine ==
  ASSUME LineageInv, NEW n \in 1..Len(reports), Collectable(n)
  PROVE  /\ \A o \in Picked(n) : o.row.tested = o.row.mutant
         /\ \A o \in Corpus(n) : o.row.mutant = Candidates[o.ordinal]
         /\ {o.ordinal : o \in Corpus(n)} = 1..Observed(n)
         /\ \A o, p \in Corpus(n) : o.ordinal = p.ordinal => o = p
<1>1. TypeOK /\ InspectionsSound /\ MeasurementsGenuine /\ Accepted(n)
  BY DEF LineageInv, MeasuresSound, Collectable
<1>. DEFINE H == Histories(n)
            Obs(m, i) == [ordinal |-> reports[m].start + i, report |-> m, row |-> reports[m].rows[i]]
<1>2. /\ \A o \in Corpus(n) : \E m \in H : \E i \in 1..Len(reports[m].rows) : o = Obs(m, i)
      /\ \A m \in H : \A i \in 1..Len(reports[m].rows) : Obs(m, i) \in Corpus(n)
  BY DEF Corpus
<1>3. /\ n \in Nat /\ H \subseteq 1..n /\ n \in H
      /\ \A m \in H : m \in 1..Len(reports) /\ m \in Nat /\ m <= n
  BY <1>1, HistoryNumbers
<1>4. \A m \in H : /\ reports[m].start \in Nat /\ Len(reports[m].rows) \in Nat
                   /\ Observed(m) = reports[m].start + Len(reports[m].rows)
  <2>. SUFFICES ASSUME NEW m \in H PROVE reports[m].start \in Nat /\ Len(reports[m].rows) \in Nat
    BY DEF Observed
  <2>1. reports[m] \in ReportRow
    BY <1>1, <1>3 DEF TypeOK
  <2>. QED  BY <2>1 DEF ReportRow
<1>5. \A m \in H : \A i \in 1..Len(reports[m].rows) :
        /\ RowGenuine(reports[m].rows[i])
        /\ reports[m].rows[i].mutant = Candidates[reports[m].start + i]
  BY <1>1, <1>3 DEF MeasurementsGenuine, ReportGenuine, Accepted, InOrder
<1>6. /\ \A i, j \in H : i < j => Observed(i) <= reports[j].start
      /\ \A k \in 1..Observed(n) : \E m \in H : reports[m].start < k /\ k <= Observed(m)
  BY <1>1, HistoryIsPrefix
<1>7. \A o \in Corpus(n) : o.row.mutant = Candidates[o.ordinal] /\ RowGenuine(o.row)
  BY <1>2, <1>5
<1>8. \A o \in Picked(n) : o.row.tested = o.row.mutant
  BY <1>7 DEF Picked, Positives, RowGenuine
<1>9. ASSUME NEW o \in Corpus(n) PROVE o.ordinal \in 1..Observed(n)
  <2>1. PICK m \in H : \E i \in 1..Len(reports[m].rows) : o = Obs(m, i)
    BY <1>2
  <2>2. PICK i \in 1..Len(reports[m].rows) : o = Obs(m, i)
    BY <2>1
  <2>3. o.ordinal = reports[m].start + i
    BY <2>2
  <2>. HIDE DEF H, Obs
  <2>4. o.ordinal \in Nat /\ o.ordinal >= 1 /\ o.ordinal <= Observed(m)
    <3>1. /\ reports[m].start \in Nat /\ Len(reports[m].rows) \in Nat
          /\ Observed(m) = reports[m].start + Len(reports[m].rows)
      BY <1>4
    <3>2. i \in Nat /\ 1 <= i /\ i <= Len(reports[m].rows)
      BY <3>1
    <3>. QED  BY <2>3, <3>1, <3>2
  <2>5. Observed(m) \in Nat /\ Observed(n) \in Nat /\ reports[n].start \in Nat
        /\ reports[n].start <= Observed(n)
    <3>1. \A j \in H : reports[j].start \in Nat /\ Observed(j) \in Nat
                       /\ reports[j].start <= Observed(j)
      BY <1>4
    <3>. QED  BY <1>3, <3>1
  <2>6. Observed(m) <= Observed(n)
    <3>1. CASE m = n
      BY <2>5, <3>1
    <3>2. CASE m < n
      <4>1. Observed(m) <= reports[n].start
        BY <1>3, <1>6, <3>2
      <4>. QED  BY <2>5, <4>1
    <3>. QED  BY <1>3, <3>1, <3>2
  <2>. QED  BY <2>4, <2>5, <2>6
<1>10. ASSUME NEW k \in 1..Observed(n) PROVE \E o \in Corpus(n) : o.ordinal = k
  <2>1. PICK m \in H : reports[m].start < k /\ k <= Observed(m)
    BY <1>6
  <2>2. PICK i \in Nat : i = k - reports[m].start
    BY <1>4, <2>1
  <2>3. i \in 1..Len(reports[m].rows) /\ reports[m].start + i = k
    BY <1>4, <2>1, <2>2
  <2>4. Obs(m, i) \in Corpus(n) /\ Obs(m, i).ordinal = k
    BY <1>2, <2>3
  <2>. QED  BY <2>4
<1>11. ASSUME NEW o \in Corpus(n), NEW p \in Corpus(n), o.ordinal = p.ordinal PROVE o = p
  <2>1. PICK m \in H : \E i \in 1..Len(reports[m].rows) : o = Obs(m, i)
    BY <1>2
  <2>2. PICK i \in 1..Len(reports[m].rows) : o = Obs(m, i)
    BY <2>1
  <2>3. PICK l \in H : \E j \in 1..Len(reports[l].rows) : p = Obs(l, j)
    BY <1>2
  <2>4. PICK j \in 1..Len(reports[l].rows) : p = Obs(l, j)
    BY <2>3
  <2>5. reports[m].start + i = reports[l].start + j
    BY <1>11, <2>2, <2>4
  <2>6. m = l
    <3>0. \A a, b, len, x, y \in Nat : a + x = b + y /\ x <= len /\ y >= 1 => ~(a + len <= b)
      OBVIOUS
    <3>1. m \in Nat /\ l \in Nat
      BY <1>3
    <3>2. ~(m < l)
      <4>1. ~(Observed(m) <= reports[l].start)
        <5>1. /\ reports[m].start \in Nat /\ Len(reports[m].rows) \in Nat
              /\ Observed(m) = reports[m].start + Len(reports[m].rows) /\ reports[l].start \in Nat
          BY <1>4
        <5>2. i \in Nat /\ i <= Len(reports[m].rows) /\ j \in Nat /\ j >= 1
          BY <1>4
        <5>. QED  BY <2>5, <3>0, <5>1, <5>2
      <4>. QED  BY <1>6, <4>1
    <3>3. ~(l < m)
      <4>1. ~(Observed(l) <= reports[m].start)
        <5>1. /\ reports[l].start \in Nat /\ Len(reports[l].rows) \in Nat
              /\ Observed(l) = reports[l].start + Len(reports[l].rows) /\ reports[m].start \in Nat
          BY <1>4
        <5>2. j \in Nat /\ j <= Len(reports[l].rows) /\ i \in Nat /\ i >= 1
          BY <1>4
        <5>. QED  BY <2>5, <3>0, <5>1, <5>2
      <4>. QED  BY <1>6, <4>1
    <3>. QED  BY <3>1, <3>2, <3>3
  <2>7. i = j
    BY <1>4, <2>5, <2>6
  <2>. QED  BY <2>2, <2>4, <2>6, <2>7
<1>. QED  BY <1>7, <1>8, <1>9, <1>10, <1>11

-----------------------------------------------------------------------------
(* Theorems.                                                               *)

LEMMA LineageInvInit ==
  ASSUME LineageInit
  PROVE  LineageInv
<1>. USE DEF LineageInit, Init
<1>1. TypeOK
  BY OffTyped, NoneTyped, CampaignConstants DEF TypeOK, Bytes
<1>2. ControlSound
  BY DEF ControlSound, OnMutant, Off, Executing, Writing, Undoing
<1>3. SourceSound
  BY MutantsAreOwn DEF SourceSound, MutationJournaled, Off, Executing, Undoing
<1>4. SurvivorsSound
  BY DEF SurvivorsSound, CutOffsMarked, Off
<1>5. MeasuresSound
  BY DEF MeasuresSound, ExecutionSound, MeasurementsGenuine, Off, Undoing
<1>6. InspectionsSound
  BY DEF InspectionsSound, AbortsInspected, Off
<1>7. HistoriesSound
  BY DEF HistoriesSound, RunSound, Off
<1>8. BlocksSound
  BY DEF BlocksSound, AbortsMarked, Off
<1>. QED  BY <1>1, <1>2, <1>3, <1>4, <1>5, <1>6, <1>7, <1>8 DEF LineageInv

LEMMA LineageInvStep ==
  ASSUME LineageInv, [LineageNext]_vars
  PROVE  LineageInv'
<1>1. TypeOK' /\ ControlSound'
  BY TypeStep, ControlStep DEF LineageInv
<1>2. SourceSound' /\ SurvivorsSound'
  BY SourceStep, SurvivorsStep DEF LineageInv
<1>3. MeasuresSound'
  BY ExecutionStep, MeasurementsStep DEF LineageInv, MeasuresSound
<1>4. InspectionsSound'
  BY <1>1, InspectionsStep DEF LineageInv
<1>5. HistoriesSound'
  BY HistoriesStep DEF LineageInv, MeasuresSound
<1>6. BlocksSound'
  BY BlocksStep DEF LineageInv
<1>. QED  BY <1>1, <1>2, <1>3, <1>4, <1>5, <1>6 DEF LineageInv

LEMMA LineageInvariant == LineageSpec => []LineageInv
BY LineageInvInit, LineageInvStep, PTL DEF LineageSpec

\* The checkout, the process, the reports and the receipts keep their types.
THEOREM LineageTypeCorrect == LineageSpec => []TypeOK
<1>1. LineageInv => TypeOK
  BY DEF LineageInv
<1>. QED  BY <1>1, LineageInvariant, PTL

\* Whenever a run dies, a whole journal names the mutant whose bytes, whole or torn, are
\* in the source tree (run_campaign's journal, try and finally; recover).
THEOREM MutationsAreJournaled == LineageSpec => []MutationJournaled
<1>1. LineageInv => MutationJournaled
  BY DEF LineageInv, SourceSound
<1>. QED  BY <1>1, LineageInvariant, PTL

\* What was cut off and may still be running blocks every later run and recovery, and
\* so does an aborted report until its last log is acknowledged (execute,
\* checked_execute, acknowledge_containment).
THEOREM SurvivorsAreMarked == LineageSpec => []SurvivorsMarked
<1>1. LineageInv => SurvivorsMarked
  BY DEF LineageInv, SurvivorsSound, BlocksSound, SurvivorsMarked
<1>. QED  BY <1>1, LineageInvariant, PTL

\* Bytes that the campaign did not write are overwritten by nobody but the operator
\* (restore, recover).
THEOREM ForeignBytesAreKept == LineageSpec => ForeignKept
<1>1. LineageInv /\ [LineageNext]_vars =>
        [source = "foreign" /\ source' # "foreign" => At("off") /\ proc' = proc]_campaignVars
  <2>. SUFFICES ASSUME LineageInv, [LineageNext]_vars, source = "foreign", source' # "foreign"
                PROVE  At("off") /\ proc' = proc
    OBVIOUS
  <2>. USE DEF exec, bounds, At
  <2>1. ASSUME NEW n \in 1..Len(reports), RestoreFrom(n) \/ ContinueFrom(n)
        PROVE  FALSE
    BY <2>1 DEF RestoreFrom, ContinueFrom, Ready
  <2>2. UNCHANGED vars => FALSE
    BY DEF vars, campaignVars
  <2>3. Truncate \/ Fill => FALSE
    <3>1. proc.pc \in {"mutate", "tear", "mutated", "rewrite"} => source # "foreign"
      <4>1. proc.pc = "tear" => Mutant \in Mutants
        BY OnMutantNamesOne DEF LineageInv, OnMutant, Undoing
      <4>. QED  BY <4>1, MutantsAreOwn DEF LineageInv, SourceSound
    <3>. QED  BY <3>1 DEF Truncate, Fill
  <2>4. ~(\/ Mark \/ Spawn \/ Finish \/ Abort \/ Unmark \/ Remark \/ Begin \/ Plain \/ Loop
          \/ Measured \/ Restore \/ Unlink \/ Record \/ Acknowledge \/ Recover \/ Kill
          \/ Interrupt \/ Edit \/ (\E s \in survivors : SurvivorEnds(s)) \/ Restoration)
    BY DEF Mark, Spawn, Finish, Abort, Unmark, Remark, Begin, Campaign, Plain, Loop, Measured,
           Restore, Unlink, Record, Acknowledge, Recover, Kill, Interrupt, Edit, SurvivorEnds,
           Restoration
  <2>5. Checkout => At("off") /\ proc' = proc
    BY DEF Checkout
  <2>. QED  BY <2>1, <2>2, <2>3, <2>4, <2>5 DEF LineageNext, Next
<1>. QED  BY <1>1, LineageInvariant, PTL DEF LineageSpec, ForeignKept

\* Every row of every report that says "killed" was measured by a test of a build of
\* the mutant it names, every baseline and restored baseline by tests of a build of the
\* original, and so was every receipt (execute, run_campaign, restore_campaign); KillsGenuine says
\* so of the rows that a collection selects.
THEOREM MeasurementsAreGenuine == LineageSpec => []MeasurementsGenuine
<1>1. LineageInv => MeasurementsGenuine
  BY DEF LineageInv, MeasuresSound
<1>. QED  BY <1>1, LineageInvariant, PTL

\* Whatever was killed, interrupted or left running, and through however many
\* continuations: what a collection selects was measured on its own mutants, out of one
\* observation of each candidate of a prefix (load_history, observed_corpus, collect_batch).
THEOREM CollectedKillsAreGenuine == LineageSpec => []KillsGenuine
<1>1. LineageInv => KillsGenuine
  BY CorpusGenuine DEF KillsGenuine
<1>. QED  BY <1>1, LineageInvariant, PTL

\* No aborted report is restored or continued before someone other than its operator
\* has attested what its own last execution left running (validate_ack).
THEOREM AbortsAreInspected == LineageSpec => []AbortsInspected
<1>1. LineageInv => AbortsInspected
  BY DEF LineageInv, InspectionsSound
<1>. QED  BY <1>1, LineageInvariant, PTL

\* Whatever is collected lies between clean measurements of the original: a baseline
\* before each report, and after it a restored baseline or a receipt that is older than
\* the report's continuation (load_history, validate_restoration, collect_batch).
THEOREM CollectedKillsAreBracketed == LineageSpec => []KillsBracketed
<1>1. LineageInv => KillsBracketed
  BY HistoryBracketed DEF KillsBracketed
<1>. QED  BY <1>1, LineageInvariant, PTL

\* load_history refuses no history of ended reports that is short enough: what the
\* validator demands of the rows, the terminal states and the continuations is what
\* run_campaign writes, however its runs were killed, aborted or continued.
THEOREM EndedReportsAreAccepted == LineageSpec => []EndedAccepted
<1>1. LineageInv => EndedAccepted
  <2>. SUFFICES ASSUME LineageInv, NEW n \in 1..Len(reports), reports[n].terminal \in Ended,
                       Cardinality(Histories(n)) <= MaxAncestors
                PROVE  Accepted(n)
    BY DEF EndedAccepted
  <2>1. TypeOK /\ InspectionsSound /\ HistoriesSound
    BY DEF LineageInv
  <2>2. ASSUME NEW i \in Histories(n)
        PROVE  InOrder(i) /\ Terminal(i) /\ Resumes(i)
    <3>1. Histories(n) \subseteq 1..n /\ n \in Nat /\ Len(reports) \in Nat
      BY <2>1, HistoriesAreChains DEF TypeOK
    <3>2. i \in 1..Len(reports)
      BY <3>1
    <3>3. reports[i].terminal \in Ended
      <4>1. CASE i = n
        BY <4>1
      <4>2. CASE i # n
        <5>1. PICK m \in Histories(n) : reports[m].parent = i /\ i # 0
          BY <2>1, <4>2, HistoriesAreChains
        <5>2. m \in 1..Len(reports)
          BY <3>1
        <5>3. reports[i].terminal = "aborted"
          BY <2>1, <5>1, <5>2 DEF HistoriesSound, ReportSound
        <5>. QED  BY <5>3 DEF Ended
      <4>. QED  BY <4>1, <4>2
    <3>. QED  BY <2>1, <3>2, <3>3, SoundIsLoaded
  <2>. QED  BY <2>2 DEF Accepted
<1>. QED  BY <1>1, LineageInvariant, PTL

=============================================================================
