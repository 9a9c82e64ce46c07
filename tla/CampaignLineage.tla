--------------------------- MODULE CampaignLineage ---------------------------
(***************************************************************************)
(* What becomes of the reports that campaigns leave behind: the checks of  *)
(* qualification/campaign_lineage.py, the restoration of an aborted report *)
(* and its continuation (mutation_campaign.py), and the read-only collector*)
(* of positive evidence (collect_mutation_evidence.py).  The actions of    *)
(* MutationCampaign go on underneath.  A file is read as it was written:   *)
(* the digests that reports, logs and references carry are left out, and so*)
(* are clocks; the order of the actions stands for the order of their      *)
(* timestamps.                                                             *)
(***************************************************************************)
EXTENDS MutationCampaign, FiniteSets

CONSTANTS
  MaxAncestors,    \* reports in one history
  RequiredKills,   \* kills a collection selects
  MaxReceipts      \* bound of the model: restoration receipts that passed

ASSUME LineageConstants ==
  /\ MaxAncestors \in Nat \ {0} /\ RequiredKills \in Nat \ {0} /\ MaxReceipts \in Nat

VARIABLE receipts  \* restoration receipts that passed: the report restored, the
                   \* campaigns begun before it, and what its tests ran on

vars == <<campaignVars, receipts>>

LineageInit == Init /\ receipts = {}

-----------------------------------------------------------------------------
(* load_history, validate_ack, validate_restoration                        *)

Ended == {"aborted", "complete", "partial"}
LastUnknown(n) ==
  LET rows == reports[n].rows IN rows # <<>> /\ rows[Len(rows)].status = "unknown"

\* The report and its ancestors: the smallest set with the report in it and, with each,
\* its parent.
HasParents(s) == \A m \in s : reports[m].parent # 0 => reports[m].parent \in s
Histories(n) == {i \in 1..n : \A s \in SUBSET (1..n) : n \in s /\ HasParents(s) => i \in s}

\* The rows are the candidates from "start" on, none after an abort.
InOrder(n) ==
  /\ Observed(n) <= Len(Candidates)
  /\ \A i \in 1..Len(reports[n].rows) :
       /\ reports[n].rows[i].mutant = Candidates[reports[n].start + i]
       /\ reports[n].rows[i].status = "unknown" => i = Len(reports[n].rows)

\* The terminal state is the one that the rows call for, and the terminal plans were
\* restored unless the last execution was aborted.
Terminal(n) ==
  LET r == reports[n] IN
  /\ r.terminal = IF LastUnknown(n) THEN "aborted"
                  ELSE IF r.terminal = "complete" THEN "complete" ELSE "partial"
  /\ r.terminal = "complete" => Observed(n) = Len(Candidates)
  /\ r.terminal # "aborted" => r.after # "none"

\* The acknowledgement names the log of the last row, and its author is not the
\* operator of the report.
BindsAnyLog(a, n) == TRUE
BindsLastLog(a, n) == a.log = LastLog(n)
ValidAck(a, n) ==
  /\ LastUnknown(n) /\ reports[n].terminal = "aborted"
  /\ BindsLastLog(a, n) /\ a.by # reports[n].operator
Acknowledged(n) == \E a \in acks : ValidAck(a, n)
Restored(n) == \E c \in receipts : c.of = n

\* A continuation resumes the whole prefix of an acknowledged, restored parent.
Resumes(n) ==
  LET r == reports[n] IN
  IF r.parent = 0 THEN r.start = 0
  ELSE /\ r.start = Observed(r.parent) /\ r.start > 0
       /\ Acknowledged(r.parent) /\ Restored(r.parent)

Accepted(n) ==
  /\ Cardinality(Histories(n)) <= MaxAncestors
  /\ \A i \in Histories(n) : InOrder(i) /\ Terminal(i) /\ Resumes(i)

-----------------------------------------------------------------------------
(* --restore-from and --continue-from                                      *)

\* restore_campaign: fresh executions of the unmutated plans.
RestoreFrom(n) ==
  /\ Ready /\ Accepted(n) /\ Acknowledged(n)
  /\ Cardinality(receipts) < MaxReceipts
  /\ proc' = [Off EXCEPT !.pc = "mark", !.job = "restore", !.phase = "compile", !.run = n]
  /\ UNCHANGED <<source, journal, reports, bounds, receipts>> /\ UNCHANGED exec

\* The tree is compared after either execution, the receipt passes with the last.
Restoration ==
  /\ At("reported") /\ proc.job = "restore"
  /\ \/ End /\ UNCHANGED receipts
     \/ /\ ~proc.unknown /\ TreeUnchanged /\ proc.phase = "compile"
        /\ Run("restore", "test") /\ UNCHANGED receipts
     \/ /\ ~proc.unknown /\ TreeUnchanged /\ proc.phase = "test"
        /\ End
        /\ receipts' = receipts \cup {[of |-> proc.run, before |-> Len(reports), tested |-> proc.tested]}
  /\ UNCHANGED <<source, journal, reports, bounds>> /\ UNCHANGED exec

\* main: after the last candidate there is no suffix to continue with.
RetryAborted(n) == Observed(n) - 1
NextIndex(n) == Observed(n)
ContinueFrom(n) ==
  /\ Ready /\ Accepted(n) /\ Acknowledged(n) /\ Restored(n)
  /\ Observed(n) < Len(Candidates)
  /\ Campaign(NextIndex(n), n) /\ UNCHANGED receipts

-----------------------------------------------------------------------------
(* collect_batch                                                           *)

\* The observations of a history, each with its place among the candidates.
Corpus(n) ==
  UNION {{[ordinal |-> reports[m].start + i, report |-> m, row |-> reports[m].rows[i]] :
            i \in 1..Len(reports[m].rows)} : m \in Histories(n)}

\* The kills among them, and the first of these.
Positives(n) == {o \in Corpus(n) : o.row.status = "killed"}
Picked(n) ==
  {o \in Positives(n) :
     Cardinality({p \in Positives(n) : p.ordinal < o.ordinal}) < RequiredKills}

\* The worker is idle and clean, the history is accepted, and its end is closed by
\* restored plans or by an acknowledgement and a restoration.  That the unit's cgroup
\* is empty is left out: it narrows the collections, and does not see what escaped it.
Collectable(n) ==
  /\ Ready /\ Accepted(n)
  /\ reports[n].terminal = "aborted" => Acknowledged(n) /\ Restored(n)
  /\ Cardinality(Positives(n)) >= RequiredKills

-----------------------------------------------------------------------------
LineageNext ==
  \/ Next /\ UNCHANGED receipts
  \/ \E n \in 1..Len(reports) : RestoreFrom(n) \/ ContinueFrom(n)
  \/ Restoration

LineageSpec == LineageInit /\ [][LineageNext]_vars

-----------------------------------------------------------------------------
\* Every kill that a collection selects was measured by a test of a build of that very
\* mutant, and its corpus is a prefix of the candidates with none skipped or observed
\* twice, whatever was killed, interrupted or left running, and through however many
\* continuations (run_campaign, execute's marker, load_history, collect_batch): what
\* observed_corpus requires of the ordinals once more never refuses a history.
KillsGenuine ==
  \A n \in 1..Len(reports) : Collectable(n) =>
    /\ \A o \in Picked(n) : o.row.tested = o.row.mutant
    /\ \A o \in Corpus(n) : o.row.mutant = Candidates[o.ordinal]
    /\ {o.ordinal : o \in Corpus(n)} = 1..Observed(n)
    /\ \A o, p \in Corpus(n) : o.ordinal = p.ordinal => o = p

\* Each report whose kills count is bracketed by tests of a build of the original: its
\* baseline before, and after it its restored baseline or a restoration receipt that is
\* older than the report that continues it.
KillsBracketed ==
  \A n \in 1..Len(reports) : Collectable(n) =>
    \A i \in Histories(n) :
      /\ reports[i].before = "original"
      /\ \/ reports[i].after = "original"
         \/ \E c \in receipts :
              /\ c.of = i /\ c.tested = "original"
              /\ \A m \in Histories(n) : reports[m].parent = i => c.before < m

\* An aborted report is restored, and continued, only after someone other than its
\* operator acknowledged what its own last execution left running; no acknowledgement
\* of another abort stands in for it (validate_ack).
InspectedBy(n, limit) ==
  \E a \in acks :
    /\ a.before <= limit /\ a.by # reports[n].operator
    /\ a.log.job = "mutant" /\ a.log.run = n
AbortsInspected ==
  /\ \A c \in receipts : InspectedBy(c.of, c.before)
  /\ \A n \in 1..Len(reports) :
       reports[n].parent # 0 => InspectedBy(reports[n].parent, n - 1)

\* The checks refuse nothing that an undisturbed campaign wrote: a report that ended
\* is accepted, up to the bound on ancestors, which the campaign itself does not check
\* before it starts the report that will exceed it.
EndedAccepted ==
  \A n \in 1..Len(reports) :
    reports[n].terminal \in Ended /\ Cardinality(Histories(n)) <= MaxAncestors => Accepted(n)

=============================================================================
