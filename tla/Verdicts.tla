------------------------------ MODULE Verdicts ------------------------------
(***************************************************************************)
(* What becomes of one measurement of a campaign with an external harness: *)
(* mutation_campaign.py bounds the compiler and the test driver, classifies*)
(* them and records a row; campaign_lineage.py, and native_campaign_job.py *)
(* with its functions, later derives the row again from the raw log; and   *)
(* collect_mutation_evidence.py decides whether a kill counts.  Measured   *)
(* are a baseline, a mutant or the restored baseline.                      *)
(***************************************************************************)
EXTENDS Naturals, Sequences, FiniteSets

CONSTANTS
  Planned,    \* tests of each group in the clean baseline: two groups, "cljs", "protocol"
  MaxTests,   \* bound of the model: tests of one group
  Builds      \* compile_targets of the plan

VerdictConstants ==
  /\ MaxTests \in Nat \ {0} /\ Builds \in Nat \ {0}
  /\ Planned \in [1..2 -> 1..MaxTests]

VARIABLES
  job,      \* "baseline", "mutant" or "restored"
  compile,  \* how the compiler ended and what its log says
  test,     \* how the driver ended and what its log says
  row,      \* what the campaign records
  pc

vars == <<job, compile, test, row, pc>>

-----------------------------------------------------------------------------
(* What can happen.                                                        *)

NoExit  == 99     \* the killed process was not reaped within a second
Protocol == 2     \* the group whose failures may follow the authority observer

\* An execution ends by itself, or at its deadline or output bound it is killed.
Endings(exits) ==
  [bound : {"ended"}, exit : exits]
    \union [bound : {"timed_out", "overflow"}, exit : exits \union {NoExit}]

\* Lines "Build completed.", and whether one of them counts warnings.
CompileLogs == [completed : 0..(Builds + 1), warned : BOOLEAN]
Compiles == {[end |-> e, log |-> l] : e \in Endings({0, 1}), l \in CompileLogs}

Group == [tests : 0..MaxTests, failures : 0..1, errors : 0..1, timed_out : BOOLEAN]
Lines == [tests : 0..(2 * MaxTests), failures : 0..1, errors : 0..1, timed_out : {FALSE}]
Nothing == [tests |-> 0, failures |-> 0, errors |-> 0, timed_out |-> FALSE]

\* A log holds one structured summary, or the text that the test library prints, or
\* neither, or summaries that are malformed or several.  "asserted": at least one
\* assertion ran; "warned": warnings of a group; "unknown": the driver could not contain
\* its tests; "observed": the authority observer's line; "named": a line FAIL in.
TestLogs ==
  [kind : {"driver"}, plan : {"own", "other"}, groups : [1..2 -> Group], asserted : BOOLEAN,
   warned : BOOLEAN, unknown : BOOLEAN, observed : BOOLEAN, named : {FALSE}]
    \union
  [kind : {"text"}, plan : {"own"}, groups : [{1} -> Lines], asserted : BOOLEAN,
   warned : {FALSE}, unknown : {FALSE}, observed : {FALSE}, named : BOOLEAN]
    \union
  [kind : {"none", "invalid"}, plan : {"own"}, groups : [{1} -> {Nothing}], asserted : {FALSE},
   warned : {FALSE}, unknown : {FALSE}, observed : {FALSE}, named : {FALSE}]

-----------------------------------------------------------------------------
(* mutation_campaign: execute, driver_summary, counts, classify.           *)

Total(log, field) ==
  IF DOMAIN log.groups = {1} THEN log.groups[1][field]
                             ELSE log.groups[1][field] + log.groups[2][field]
DriverTimedOut(log) == \E g \in DOMAIN log.groups : log.groups[g].timed_out

Executed(e) == [timed_out |-> e.bound = "timed_out", overflow |-> e.bound = "overflow",
                unknown |-> e.bound # "ended", exit |-> e.exit]

\* checked_execute: what the driver could not contain is unknown here too.
Checked(e, log) ==
  IF log.kind = "driver" /\ (DriverTimedOut(log) \/ log.unknown)
    THEN [Executed(e) EXCEPT !.timed_out = @ \/ DriverTimedOut(log), !.unknown = TRUE]
    ELSE Executed(e)

Countable(log) == log.kind = "text" \/ (log.kind = "driver" /\ ~log.warned)

ClassifyCompile(result, log) ==
  CASE result.timed_out -> "timeout"
    [] result.unknown /\ ~result.timed_out -> "containment_unknown"
    [] OTHER -> IF result.exit = 0 /\ log.completed = Builds /\ ~log.warned
                  THEN "passed" ELSE "compile_failure"

\* A kill is an exit by assertion of all the tests of the baseline.
AnyTests(log) == TRUE
BaselineTests(log) == Total(log, "tests") = Planned[1] + Planned[2]
ClassifyTest(result, log) ==
  LET late == \/ result.timed_out
              \/ ~result.unknown /\ log.kind = "driver" /\ DriverTimedOut(log)
      left == result.unknown \/ (log.kind = "driver" /\ log.unknown)
  IN
  CASE late -> "timeout"
    [] left /\ ~late -> "containment_unknown"
    [] OTHER ->
         IF \/ ~Countable(log) \/ (log.kind = "driver" /\ log.plan # "own")
            \/ ~BaselineTests(log) \/ ~log.asserted THEN "invalid_test_output"
         ELSE IF Total(log, "errors") > 0 THEN "test_error"
         ELSE IF /\ Total(log, "failures") > 0 /\ result.exit = 1
                 /\ log.kind = "driver" \/ log.named THEN "killed"
         ELSE IF Total(log, "failures") = 0 /\ result.exit = 0 THEN "survived"
         ELSE "invalid_test_exit"

\* counts and driver_summary, as a row carries them.
Counts(log) == IF Countable(log) THEN <<Total(log, "tests"), Total(log, "failures"),
                                        Total(log, "errors")>> ELSE <<>>
Summary(log) == IF log.kind = "driver" THEN <<log.plan, log.groups, log.warned, log.unknown>>
                                       ELSE <<>>

-----------------------------------------------------------------------------
(* run_campaign.                                                           *)

NoResult == [timed_out |-> FALSE, overflow |-> FALSE, unknown |-> FALSE, exit |-> NoExit]
NoRow == [status |-> "none", phase |-> "none", compiled |-> "none", build |-> NoResult,
          test |-> NoResult, counts |-> <<>>, summary |-> <<>>, aborted |-> FALSE]
NoTest == [kind |-> "nothing"]

Init ==
  /\ job \in {"baseline", "mutant", "restored"} /\ compile \in Compiles
  /\ test = NoTest /\ row = NoRow /\ pc = "compile"

Compile ==
  LET build  == Executed(compile.end)
      status == ClassifyCompile(build, compile.log)
  IN /\ pc = "compile"
     /\ pc' = IF status = "passed" THEN "test" ELSE "recorded"
     /\ row' = [NoRow EXCEPT !.status = status, !.compiled = status, !.phase = "compile",
                             !.build = build, !.aborted = build.unknown]
     /\ UNCHANGED <<job, compile, test>>

\* The counts of a baseline: a structured summary of its own plan, without a failure.
CleanCounts(log) ==
  /\ log.kind = "driver" /\ log.plan = "own" /\ Countable(log)
  /\ Total(log, "tests") > 0 /\ log.asserted
  /\ Total(log, "failures") = 0 /\ Total(log, "errors") = 0

\* A restored baseline repeats the total of the first one; what printed it is not asked.
RestoredClean(result, log) ==
  /\ Countable(log) /\ BaselineTests(log) /\ log.asserted
  /\ Total(log, "failures") = 0 /\ Total(log, "errors") = 0
  /\ ClassifyTest(result, log) = "survived"
  /\ ~result.timed_out /\ ~result.unknown /\ result.exit = 0

VerdictByCounts(result, log) ==
  CASE job = "mutant" -> ClassifyTest(result, log)
    [] OTHER -> IF result.exit = 0 /\ CleanCounts(log) THEN "passed" ELSE "failed"
\* A baseline that is not clean ends the campaign, and so does a restored one that is
\* not classified as a survivor of the first.
Verdict(result, log) ==
  CASE job = "mutant" -> ClassifyTest(result, log)
    [] job = "baseline" ->
         IF ~result.timed_out /\ ~result.unknown /\ result.exit = 0 /\ CleanCounts(log)
           THEN "passed" ELSE "failed"
    [] OTHER -> IF RestoredClean(result, log) THEN "passed" ELSE "failed"

Test ==
  /\ pc = "test" /\ pc' = "recorded"
  /\ \E e \in Endings({0, 1, 2}), log \in TestLogs :
       LET result == Checked(e, log) IN
       /\ test' = [kind |-> "test", end |-> e, log |-> log]
       /\ row' = [row EXCEPT !.status = Verdict(result, log), !.phase = "test",
                             !.test = result, !.counts = Counts(log),
                             !.summary = Summary(log),
                             !.aborted = result.unknown]
  /\ UNCHANGED <<job, compile>>

Next == Compile \/ Test

Spec == Init /\ [][Next]_vars

-----------------------------------------------------------------------------
(* campaign_lineage: the row derived again from flags and raw logs.        *)

FlagsHold(r) == (r.timed_out \/ r.overflow \/ r.exit = NoExit) => r.unknown

Rederived ==
  /\ FlagsHold(row.build) /\ ClassifyCompile(row.build, compile.log) = row.compiled
  /\ IF row.compiled = "passed"
       THEN /\ row.phase = "test" /\ FlagsHold(row.test)
            /\ ClassifyTest(row.test, test.log) = row.status
            /\ row.counts = Counts(test.log) /\ row.summary = Summary(test.log)
       ELSE row.phase = "compile" /\ row.status = row.compiled
  /\ row.aborted = (row.build.unknown \/ (row.phase = "test" /\ row.test.unknown))

\* _clean_baselines sees only the logs; a restored baseline repeats every group.
Clean == [timed_out |-> FALSE, overflow |-> FALSE, unknown |-> FALSE, exit |-> 0]
CleanBaseline ==
  /\ ClassifyCompile(Clean, compile.log) = "passed" /\ CleanCounts(test.log)
  /\ ~DriverTimedOut(test.log) /\ ~test.log.unknown
  /\ job = "restored" =>
       /\ ClassifyTest(Clean, test.log) = "survived"
       /\ \A g \in 1..2 : test.log.groups[g].tests = Planned[g]

\* eligibility_exclusion, applied to a row.
Eligible ==
  /\ row.status = "killed" /\ row.phase = "test" /\ row.summary # <<>>
  /\ test.log.plan = "own" /\ Total(test.log, "failures") > 0 /\ Total(test.log, "errors") = 0
  /\ ~test.log.warned /\ ~DriverTimedOut(test.log) /\ ~test.log.unknown
  /\ row.compiled = "passed" /\ row.build.exit = 0 /\ row.test.exit = 1
  /\ \A r \in {row.build, row.test} : ~(r.timed_out \/ r.overflow \/ r.unknown)
  /\ ~(test.log.groups[Protocol].failures > 0 /\ test.log.observed)

-----------------------------------------------------------------------------
(* Properties.                                                             *)

Recorded == pc = "recorded"

\* A kill that counts is the failure of an assertion and nothing else: compiler and
\* driver ended by themselves, every build was clean, as many tests ran as in the clean
\* baseline, none erred or was cut short, nothing was left running, and the protocol
\* group did not fail behind the authority observer.  A baseline that passed is as clean.
KillsByAssertion ==
  Recorded /\ job = "mutant" /\ Eligible =>
    /\ compile = [end |-> [bound |-> "ended", exit |-> 0],
                  log |-> [completed |-> Builds, warned |-> FALSE]]
    /\ test.end = [bound |-> "ended", exit |-> 1] /\ test.log.asserted
    /\ test.log.groups[1].tests + test.log.groups[2].tests = Planned[1] + Planned[2]
    /\ \E g \in 1..2 : test.log.groups[g].failures > 0 /\ (g = Protocol => ~test.log.observed)
    /\ \A g \in 1..2 : test.log.groups[g].errors = 0 /\ ~test.log.groups[g].timed_out
    /\ ~test.log.warned /\ ~test.log.unknown

\* The test groups of the first baseline, each with as many tests as then.
EveryGroup ==
  test.log.kind = "driver" /\ \A g \in 1..2 : test.log.groups[g].tests = Planned[g]

\* The validators accept every row that the campaign wrote and every first baseline that
\* it passed.  Of the restored baselines that it passed they accept those which repeat
\* every group of the first in a structured summary, and no other.
ValidatorsAgree ==
  Recorded =>
    CASE job = "mutant" -> Rederived
      [] job = "baseline" -> row.status = "passed" => CleanBaseline
      [] OTHER -> row.status = "passed" => (CleanBaseline <=> EveryGroup)

\* "Restored external plans require the same test/group count and a clean
\* positive-assertion result" (qualification/README.md:131-132).  The campaign compares
\* the total of the tests alone: other groups with the same total pass, and so does the
\* text of the test library without any structured summary.
RestoredRepeats ==
  Recorded /\ job = "restored" /\ row.status = "passed" => EveryGroup

=============================================================================
