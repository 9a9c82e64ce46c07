----------------------------- MODULE SmallParts -----------------------------
(***************************************************************************)
(* Four small parts that share no state, side by side: Init chooses the    *)
(* part that runs, and the variables of the others stay idle.              *)
(***************************************************************************)
EXTENDS Naturals, Sequences

CONSTANTS
  Pollers, Owner, Stranger, MinInterval, IntervalStep, MaxInterval, MaxPolls, Lifetime,
  NoTime, NoPoller, MaxClock,
  Population, PageSize, MaxPages,
  Sources, Tests, Support, Others, Expected, Versions, MaxEdits,
  Planned, MaxTests, Builds

VARIABLES
  part,
  clock, record, lock, poll, continued, grants,
  status, reader, throughout, ever,
  app, harness, disk, made, proc, measured, disturbed,
  job, compile, test, row, pc

Device  == INSTANCE DevicePolling
Pages   == INSTANCE ActorPages
Harness == INSTANCE ExternalHarness
Verdict == INSTANCE Verdicts

ASSUME PartConstants ==
  /\ Device!PollingConstants /\ Pages!PageConstants
  /\ Harness!HarnessConstants /\ Verdict!VerdictConstants

deviceVars  == <<clock, record, lock, poll, continued, grants>>
pageVars    == <<status, reader, throughout, ever>>
harnessVars == <<app, harness, disk, made, proc, measured, disturbed>>
verdictVars == <<job, compile, test, row, pc>>
vars == <<part, deviceVars, pageVars, harnessVars, verdictVars>>

NoDevice  == clock = "idle" /\ record = "idle" /\ lock = "idle" /\ poll = "idle"
             /\ continued = "idle" /\ grants = "idle"
NoPages   == status = "idle" /\ reader = "idle" /\ throughout = "idle" /\ ever = "idle"
NoHarness == app = "idle" /\ harness = "idle" /\ disk = "idle" /\ made = "idle"
             /\ proc = "idle" /\ measured = "idle" /\ disturbed = "idle"
NoVerdict == job = "idle" /\ compile = "idle" /\ test = "idle" /\ row = "idle" /\ pc = "idle"

Init ==
  /\ part \in {"device", "pages", "harness", "verdicts"}
  /\ IF part = "device"   THEN Device!Init  ELSE NoDevice
  /\ IF part = "pages"    THEN Pages!Init   ELSE NoPages
  /\ IF part = "harness"  THEN Harness!Init ELSE NoHarness
  /\ IF part = "verdicts" THEN Verdict!Init ELSE NoVerdict

DeviceStep ==
  /\ part = "device" /\ Device!Next
  /\ UNCHANGED <<part, pageVars, harnessVars, verdictVars>>
PageStep ==
  /\ part = "pages" /\ Pages!Next
  /\ UNCHANGED <<part, deviceVars, harnessVars, verdictVars>>
HarnessStep ==
  /\ part = "harness" /\ Harness!Next
  /\ UNCHANGED <<part, deviceVars, pageVars, verdictVars>>
VerdictStep ==
  /\ part = "verdicts" /\ Verdict!Next
  /\ UNCHANGED <<part, deviceVars, pageVars, harnessVars>>

Next == DeviceStep \/ PageStep \/ HarnessStep \/ VerdictStep

Spec == Init /\ [][Next]_vars

-----------------------------------------------------------------------------
(* The parts' properties, as their modules state them.                     *)

\* Admissions are spaced and paid for, and one exchange at most succeeds (DevicePolling).
PollingSound == part = "device" => Device!PollingSound
\* The listed actors are the active ones, page by page (ActorPages).
ListingHonest == part = "pages" => Pages!ListingHonest
\* An accepted execution read the accepted tests and the application (ExternalHarness).
HarnessExact == part = "harness" => Harness!HarnessExact
\* A kill that counts is the failure of an assertion (Verdicts).
KillsByAssertion == part = "verdicts" => Verdict!KillsByAssertion
\* The validators accept what the campaign writes (Verdicts).
ValidatorsAgree == part = "verdicts" => Verdict!ValidatorsAgree
\* What a document says of restored baselines, and the campaign does not ask (Verdicts).
RestoredRepeats == part = "verdicts" => Verdict!RestoredRepeats

=============================================================================
