--------------------------- MODULE ExternalHarness ---------------------------
(***************************************************************************)
(* external_harness.py: the accepted regression tests of one Git revision  *)
(* are copied beside links to the sources of another, and each execution   *)
(* of mutation_campaign.checked_execute validates the copy before and      *)
(* after.  The process that prepares it may die at any step; somebody who  *)
(* knows of no campaign may change or remove files at any time.  The       *)
(* campaign lock admits one process, so one is modelled.  The bytes behind *)
(* a source link may be a mutant: they are guarded in MutationCampaign.    *)
(***************************************************************************)
EXTENDS Naturals, FiniteSets

CONSTANTS
  Sources, Tests, Support, Others,  \* the tracked paths, by kind
  Expected,                         \* accepted_harnesses: paths that may differ
  Versions,                         \* blobs, with their modes
  MaxEdits                          \* bound of the model

Paths  == Sources \union Tests \union Support \union Others
NoFile == "absent"
Live   == "link"     \* a symbolic link to the worker's own file
Fixed  == {"node_modules", "record", "target", "extra", "HEAD"}
Blobs  == Versions \union {NoFile}

\* Every path is of one kind; the marks of the model are neither paths nor blobs.
HarnessConstants ==
  /\ Expected \subseteq Tests \union Support
  /\ \A S \in {Sources, Tests, Support, Others} : IsFiniteSet(S)
  /\ Sources \intersect (Tests \union Support \union Others) = {}
  /\ Others \intersect (Tests \union Support) = {} /\ Tests \intersect Support = {}
  /\ Paths \intersect Fixed = {} /\ MaxEdits \in Nat
  /\ Versions \intersect
       {NoFile, Live, "torn", "foreign", "whole", "built", "application"} = {}

VARIABLES
  app, harness,  \* the trees of the two revisions
  disk,          \* the project directory, and HEAD of the worker
  made,          \* is there a project directory
  proc,          \* the campaign process
  measured,      \* history: what each accepted execution read
  disturbed      \* history: edits

vars == <<app, harness, disk, made, proc, measured, disturbed>>

Off == [pc |-> "off", left |-> {}, open |-> "none", seen |-> [p \in {} |-> NoFile]]
Empty == [n \in Paths \union Fixed |-> IF n = "HEAD" THEN "application" ELSE NoFile]

TypeOK ==
  /\ app \in [Paths -> Blobs] /\ harness \in [Paths -> Blobs]
  /\ disk \in [Paths \union Fixed ->
                 Blobs \union {Live, "torn", "foreign", "whole", "built", "application"}]
  /\ made \in BOOLEAN /\ disturbed \in 0..MaxEdits
  /\ proc.pc \in {"off", "fill", "write", "check", "ready", "read", "after"}
  /\ DOMAIN proc.seen \subseteq Paths

Init ==
  /\ app \in [Paths -> Blobs] /\ harness \in [Paths -> Blobs]
  /\ disk = Empty /\ made = FALSE /\ proc = Off /\ measured = {} /\ disturbed = 0

To(pc) == proc' = [Off EXCEPT !.pc = pc]
Stays  == UNCHANGED <<app, harness>>

-----------------------------------------------------------------------------
(* contract and validate                                                   *)

Changed == {p \in Paths : app[p] # harness[p]}
Accepted ==
  /\ disk["HEAD"] = "application"
  /\ \A p \in Support \intersect Expected : NoFile \notin {app[p], harness[p]}
  /\ Changed = Expected

\* What contract selects: links for sources, copies for the rest.
Selected(p) ==
  IF p \in Sources /\ app[p] # NoFile THEN Live
  ELSE IF p \in Tests \union (Support \intersect Expected) THEN harness[p] ELSE app[p]

\* The compiler's output directories are not inputs.
Skipped == {"target"}
Valid ==
  /\ Accepted
  /\ disk["node_modules"] = Live /\ disk["record"] = "whole"
  /\ {n \in DOMAIN disk \ (Skipped \union {"HEAD"}) : disk[n] # NoFile} =
       {p \in Paths : Selected(p) # NoFile} \union {"node_modules", "record"}
  /\ \A p \in Paths : disk[p] = Selected(p)

-----------------------------------------------------------------------------
(* prepare                                                                 *)

\* An existing directory is never filled again, only validated.
Prepare ==
  /\ proc.pc = "off" /\ Accepted
  /\ made' = TRUE
  /\ proc' = IF made THEN [Off EXCEPT !.pc = "check"]
             ELSE [Off EXCEPT !.pc = "fill", !.left = {p \in Paths : Selected(p) # NoFile}
                                                        \union {"node_modules", "record"}]
  /\ Stays /\ UNCHANGED <<disk, measured, disturbed>>

\* The files in some order, then the dependency link, then the record.  Every one is
\* created exclusively: one that is there already ends the process.
Turn(n) ==
  /\ n \in proc.left
  /\ n = "record" => proc.left = {"record"}
  /\ n = "node_modules" => proc.left = {"node_modules", "record"}
Create(n) ==
  /\ proc.pc = "fill" /\ Turn(n)
  /\ IF disk[n] # NoFile THEN To("off") /\ UNCHANGED disk
     ELSE IF n \in Sources \union {"node_modules"}
       THEN /\ disk' = [disk EXCEPT ![n] = Live]
            /\ proc' = [proc EXCEPT !.left = @ \ {n}]
       ELSE /\ disk' = [disk EXCEPT ![n] = "torn"]
            /\ proc' = [proc EXCEPT !.pc = "write", !.open = n]
  /\ Stays /\ UNCHANGED <<made, measured, disturbed>>

\* The bytes and the mode; a file that somebody replaced meanwhile is not seen here.
Whole(n) == IF n = "record" THEN "whole" ELSE Selected(n)
Write(n) ==
  /\ proc.pc = "write" /\ proc.open = n
  /\ disk' = [disk EXCEPT ![n] = IF @ = "torn" THEN Whole(n) ELSE @]
  /\ proc' = [proc EXCEPT !.pc = IF n = "record" THEN "check" ELSE "fill",
                          !.left = @ \ {n}, !.open = "none"]
  /\ Stays /\ UNCHANGED <<made, measured, disturbed>>

\* prepare ends with a validation, and main validates the descriptor again.
Check ==
  /\ proc.pc = "check" /\ IF Valid THEN To("ready") ELSE To("off")
  /\ Stays /\ UNCHANGED <<disk, made, measured, disturbed>>

-----------------------------------------------------------------------------
(* checked_execute                                                         *)

Before ==
  /\ proc.pc = "ready" /\ IF Valid THEN To("read") ELSE To("off")
  /\ Stays /\ UNCHANGED <<disk, made, measured, disturbed>>

\* The command reads its inputs in some order and leaves its output.
ReadInput ==
  /\ proc.pc = "read"
  /\ \E p \in Paths \ DOMAIN proc.seen :
       proc' = [proc EXCEPT !.seen = [q \in DOMAIN @ \union {p} |-> IF q = p THEN disk[p] ELSE @[q]]]
  /\ Stays /\ UNCHANGED <<disk, made, measured, disturbed>>
Compiled ==
  /\ proc.pc = "read" /\ DOMAIN proc.seen = Paths
  /\ disk' = [disk EXCEPT !["target"] = "built"] /\ proc' = [proc EXCEPT !.pc = "after"]
  /\ Stays /\ UNCHANGED <<made, measured, disturbed>>

ValidOnlyBefore == TRUE
ValidAfter == Valid
Measure ==
  /\ proc.pc = "after"
  /\ IF ValidAfter THEN To("ready") /\ measured' = measured \union {proc.seen}
                   ELSE To("off") /\ UNCHANGED measured
  /\ Stays /\ UNCHANGED <<disk, made, disturbed>>

-----------------------------------------------------------------------------

\* The process ends, by itself or by force.
Die ==
  /\ proc.pc # "off" /\ To("off")
  /\ Stays /\ UNCHANGED <<disk, made, measured, disturbed>>

\* Somebody changes or removes a file, or moves HEAD.  What was there before does not
\* come back: an edit undone between the two validations would not be seen.
Edit ==
  /\ disturbed < MaxEdits /\ made /\ disturbed' = disturbed + 1
  /\ \E n \in (Paths \union Fixed) \ {"target"}, value \in {"foreign", NoFile} :
       /\ disk[n] \notin {value, "foreign"} /\ (n = "HEAD" => value = "foreign")
       /\ disk' = [disk EXCEPT ![n] = value]
  /\ Stays /\ UNCHANGED <<made, proc, measured>>

Next ==
  \/ Prepare \/ Check \/ Before \/ ReadInput \/ Compiled \/ Measure \/ Die \/ Edit
  \/ \E n \in Paths \union Fixed : Create(n) \/ Write(n)

Spec == Init /\ [][Next]_vars

-----------------------------------------------------------------------------
(* Property.                                                               *)

\* An accepted execution compiled exactly the application's own sources and support
\* with exactly the accepted tests, though the copy may be one that an earlier, killed
\* process made and though files change while the command reads them; and no such
\* harness is one whose tests differ elsewhere than where they were reviewed.
HarnessExact ==
  measured # {} =>
    /\ \A p \in Paths : app[p] # harness[p] <=> p \in Expected
    /\ \A seen \in measured, p \in Paths :
         CASE p \in Sources -> seen[p] = IF app[p] = NoFile THEN NoFile ELSE Live
           [] p \in Others  -> seen[p] = app[p]
           [] OTHER         -> seen[p] = harness[p]

=============================================================================
