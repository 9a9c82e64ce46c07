------------------------- MODULE EvidenceCollection -------------------------
(***************************************************************************)
(* collect_mutation_evidence.py: several workers are read into one bundle  *)
(* while their campaigns may start, run, die and be recovered, an editor   *)
(* that knows of no lock may touch a checkout, and a second collector may  *)
(* write to the same output.  A campaign holds its worker's lock alone; a  *)
(* collector takes shared leases on all workers, reads them one after the  *)
(* other, returns the leases and only then writes.                         *)
(***************************************************************************)
EXTENDS Naturals, FiniteSets

CONSTANTS
  Workers,      \* 1..n: the partitions, in the order they are collected
  Collectors,
  Enough,       \* REQUIRED_KILLS, counted in rows here
  MaxRows, MaxTreeEdits, MaxAdoptions   \* bounds of the model

Nobody == "nobody"

ASSUME CollectionConstants ==
  /\ IsFiniteSet(Workers) /\ Workers = 1..Cardinality(Workers) /\ Workers # {}
  /\ Nobody \notin Collectors
  /\ {Enough, MaxRows, MaxTreeEdits, MaxAdoptions} \subseteq Nat /\ Enough <= MaxRows

VARIABLES
  campaign,   \* the process of a worker: "off", "idle", "mutated", "restored", "exiting"
  unit,       \* is its systemd unit active
  tree,       \* its checkout and harness: "clean", "mutant" or "foreign"
  inflight,   \* inflight.json is there
  marker,     \* containment-unknown.json is there
  report,     \* its report
  adoption,   \* what verify_adoption finds
  collector,
  output,     \* the output directory and its files, with the collector that wrote each
  cut,        \* history: the reports when a collector returned its leases
  edits

workerVars == <<campaign, unit, tree, inflight, marker, report>>
collectVars == <<workerVars, adoption, collector, output, cut, edits>>

Report   == [rows : 0..MaxRows, ended : BOOLEAN]
NoReport == [rows |-> 0, ended |-> FALSE]
Bundle   == {"audit.json", "mutation-batches.json", "manifest.json"}

CollectorRow ==
  [pc : {"adopt", "lease", "enter", "read", "leave", "readopt", "mkdir", "write", "collected",
         "stopped"},
   at : Workers, leases : SUBSET Workers, seen : [Workers -> Report], adopted : 0..MaxAdoptions]

TypeOK ==
  /\ campaign \in [Workers -> {"off", "idle", "mutated", "restored", "exiting"}]
  /\ {unit, inflight, marker} \subseteq [Workers -> BOOLEAN]
  /\ tree \in [Workers -> {"clean", "mutant", "foreign"}]
  /\ report \in [Workers -> Report]
  /\ adoption \in 0..MaxAdoptions /\ edits \in 0..MaxTreeEdits
  /\ collector \in [Collectors -> CollectorRow]
  /\ output \in [{"directory"} \union Bundle -> Collectors \union {Nobody}]
  /\ cut \in [Collectors -> [Workers -> Report]]

Fresh == [pc |-> "adopt", at |-> 1, leases |-> {}, seen |-> [w \in Workers |-> NoReport],
          adopted |-> 0]

\* A worker has a campaign under way, or one that ended and left its report.
CollectInit ==
  /\ campaign = [w \in Workers |-> "off"] /\ unit = [w \in Workers |-> FALSE]
  /\ tree = [w \in Workers |-> "clean"]
  /\ inflight = [w \in Workers |-> FALSE] /\ marker = [w \in Workers |-> FALSE]
  /\ report \in [Workers -> {NoReport, [rows |-> Enough, ended |-> TRUE]}]
  /\ adoption = 0 /\ collector = [c \in Collectors |-> Fresh]
  /\ output = [f \in {"directory"} \union Bundle |-> Nobody]
  /\ cut = [c \in Collectors |-> [w \in Workers |-> NoReport]] /\ edits = 0

Leased(w)  == \E c \in Collectors : w \in collector[c].leases
Running(w) == campaign[w] # "off"
WorkerOnly == UNCHANGED <<adoption, collector, output, cut, edits>>

-----------------------------------------------------------------------------
(* A worker: what its campaign does under the exclusive lock.              *)

\* campaign_lock fails at once when a campaign or a reader holds it; then main refuses
\* to run on a marker, a journal or a changed tree.  A continuation has a new report.
Start(w) ==
  /\ ~Running(w) /\ ~Leased(w)
  /\ ~marker[w] /\ ~inflight[w] /\ tree[w] = "clean" /\ report[w].rows < MaxRows
  /\ campaign' = [campaign EXCEPT ![w] = "idle"] /\ unit' = [unit EXCEPT ![w] = TRUE]
  /\ report' = [report EXCEPT ![w].ended = FALSE]
  /\ UNCHANGED <<tree, inflight, marker>> /\ WorkerOnly

Mutate(w) ==
  /\ campaign[w] = "idle" /\ tree[w] = "clean" /\ report[w].rows < MaxRows
  /\ campaign' = [campaign EXCEPT ![w] = "mutated"]
  /\ inflight' = [inflight EXCEPT ![w] = TRUE] /\ tree' = [tree EXCEPT ![w] = "mutant"]
  /\ marker' = [marker EXCEPT ![w] = TRUE]
  /\ UNCHANGED <<unit, report>> /\ WorkerOnly

\* The execution ended: marker and journal go, and the row is recorded.
Restore(w) ==
  /\ campaign[w] = "mutated" /\ tree[w] = "mutant"
  /\ campaign' = [campaign EXCEPT ![w] = "restored"]
  /\ tree' = [tree EXCEPT ![w] = "clean"]
  /\ inflight' = [inflight EXCEPT ![w] = FALSE] /\ marker' = [marker EXCEPT ![w] = FALSE]
  /\ UNCHANGED <<unit, report>> /\ WorkerOnly

Record(w) ==
  /\ campaign[w] = "restored"
  /\ campaign' = [campaign EXCEPT ![w] = "idle"]
  /\ report' = [report EXCEPT ![w].rows = @ + 1]
  /\ UNCHANGED <<unit, tree, inflight, marker>> /\ WorkerOnly

\* The restored baseline passed; the process exits and releases its lock.
Finish(w) ==
  /\ campaign[w] = "idle"
  /\ campaign' = [campaign EXCEPT ![w] = "exiting"]
  /\ report' = [report EXCEPT ![w].ended = TRUE]
  /\ UNCHANGED <<unit, tree, inflight, marker>> /\ WorkerOnly

\* The process ends or is killed: its lock goes with it, its unit a little later.
Die(w) ==
  /\ Running(w) /\ campaign' = [campaign EXCEPT ![w] = "off"]
  /\ UNCHANGED <<unit, tree, inflight, marker, report>> /\ WorkerOnly
UnitEnds(w) ==
  /\ unit[w] /\ ~Running(w) /\ unit' = [unit EXCEPT ![w] = FALSE]
  /\ UNCHANGED <<campaign, tree, inflight, marker, report>> /\ WorkerOnly

\* --acknowledge-containment and --recover, each under the exclusive lock.
Recover(w) ==
  /\ ~Running(w) /\ ~Leased(w)
  /\ \/ marker[w] /\ marker' = [marker EXCEPT ![w] = FALSE] /\ UNCHANGED <<tree, inflight>>
     \/ /\ ~marker[w] /\ inflight[w] /\ tree[w] # "foreign"
        /\ tree' = [tree EXCEPT ![w] = "clean"]
        /\ inflight' = [inflight EXCEPT ![w] = FALSE] /\ UNCHANGED marker
  /\ UNCHANGED <<campaign, unit, report>> /\ WorkerOnly

\* Somebody edits tracked source or the harness.
Edit(w) ==
  /\ edits < MaxTreeEdits /\ edits' = edits + 1
  /\ tree' = [tree EXCEPT ![w] = "foreign"]
  /\ UNCHANGED <<campaign, unit, inflight, marker, report, adoption, collector, output, cut>>

-----------------------------------------------------------------------------
(* A collector.                                                            *)

At(c, pc)   == collector[c].pc = pc
Set(c, rec) == collector' = [collector EXCEPT ![c] = rec]
Stopped(c)  == [Fresh EXCEPT !.pc = "stopped"]   \* the kernel returns its leases
CollectorOnly == UNCHANGED <<workerVars, adoption, edits>>

Adopt(c) ==
  /\ At(c, "adopt")
  /\ \/ Set(c, [collector[c] EXCEPT !.pc = "lease", !.adopted = adoption]) \/ Set(c, Stopped(c))
  /\ CollectorOnly /\ UNCHANGED <<output, cut>>

\* read_leases: shared and non-blocking, root by root; all of them before anything is read.
LeaseOne(c) == {collector[c].at}
LeaseAll(c) == Workers
Lease(c) ==
  LET taken == collector[c].leases
      next  == {w \in LeaseAll(c) \ taken : \A v \in LeaseAll(c) \ taken : w <= v}
  IN /\ At(c, "lease")
     /\ IF next = {} THEN Set(c, [collector[c] EXCEPT !.pc = "enter"])
        ELSE IF \E w \in next : Running(w) THEN Set(c, Stopped(c))
        ELSE Set(c, [collector[c] EXCEPT !.leases = @ \union next])
     /\ CollectorOnly /\ UNCHANGED <<output, cut>>

\* collect_batch: the unit is closed; tree, harness, marker and journal are checked first,
\* the tree, harness and marker again at the end.
Untouched(w) == tree[w] = "clean" /\ ~marker[w]
Enter(c) ==
  LET w == collector[c].at IN
  /\ At(c, "enter")
  /\ Set(c, IF ~unit[w] /\ Untouched(w) /\ ~inflight[w]
              THEN [collector[c] EXCEPT !.pc = "read"] ELSE Stopped(c))
  /\ CollectorOnly /\ UNCHANGED <<output, cut>>

\* load_history and observed_corpus: a terminal report with enough eligible kills.
Readable(r) == r.ended /\ r.rows >= Enough
Read(c) ==
  LET w == collector[c].at IN
  /\ At(c, "read")
  /\ Set(c, IF Readable(report[w])
              THEN [collector[c] EXCEPT !.pc = "leave", !.seen[w] = report[w]] ELSE Stopped(c))
  /\ CollectorOnly /\ UNCHANGED <<output, cut>>

\* Past the last batch the leases are returned.
Leave(c) ==
  LET w == collector[c].at
      last == w + 1 \notin Workers
      onward == [collector[c] EXCEPT !.at = w + 1,
                                     !.pc = IF LeaseAll(c) = Workers THEN "enter" ELSE "lease",
                                     !.leases = IF LeaseAll(c) = Workers THEN @ ELSE {}]
  IN /\ At(c, "leave")
     /\ Set(c, CASE ~Untouched(w) -> Stopped(c)
                 [] Untouched(w) /\ ~last -> onward
                 [] OTHER -> [collector[c] EXCEPT !.pc = "readopt", !.leases = {}])
     /\ cut' = IF last /\ Untouched(w) THEN [cut EXCEPT ![c] = report] ELSE cut
     /\ CollectorOnly /\ UNCHANGED output

Readopt(c) ==
  /\ At(c, "readopt")
  /\ Set(c, IF adoption = collector[c].adopted
              THEN [collector[c] EXCEPT !.pc = "mkdir"] ELSE Stopped(c))
  /\ CollectorOnly /\ UNCHANGED <<output, cut>>

\* A fresh directory, which mkdir makes once; every file is created exclusively.
MakeDirectory(c) ==
  /\ At(c, "mkdir")
  /\ IF output["directory"] = Nobody
       THEN output' = [output EXCEPT !["directory"] = c]
            /\ Set(c, [collector[c] EXCEPT !.pc = "write"])
       ELSE UNCHANGED output /\ Set(c, Stopped(c))
  /\ CollectorOnly /\ UNCHANGED cut

Unwritten == {f \in Bundle : output[f] = Nobody}
ManifestFirst == IF "manifest.json" \in Unwritten THEN {"manifest.json"} ELSE Unwritten
ManifestLast ==
  CASE "audit.json" \in Unwritten -> {"audit.json"}
    [] "audit.json" \notin Unwritten /\ "mutation-batches.json" \in Unwritten ->
         {"mutation-batches.json"}
    [] OTHER -> Unwritten
WriteNew(c) ==
  /\ At(c, "write")
  /\ \E f \in ManifestLast :
       /\ output' = [output EXCEPT ![f] = c]
       /\ Set(c, [collector[c] EXCEPT !.pc = IF Unwritten = {f} THEN "collected" ELSE "write"])
  /\ CollectorOnly /\ UNCHANGED cut

\* The collector dies.
Crash(c) ==
  /\ collector[c].pc \notin {"collected", "stopped"}
  /\ Set(c, Stopped(c))
  /\ CollectorOnly /\ UNCHANGED <<output, cut>>

AdoptionChanges ==
  /\ adoption < MaxAdoptions /\ adoption' = adoption + 1
  /\ UNCHANGED <<workerVars, collector, output, cut, edits>>

CollectNext ==
  \/ \E w \in Workers :
       \/ Start(w) \/ Mutate(w) \/ Restore(w) \/ Record(w) \/ Finish(w) \/ Die(w)
       \/ UnitEnds(w) \/ Recover(w) \/ Edit(w)
  \/ \E c \in Collectors :
       \/ Adopt(c) \/ Lease(c) \/ Enter(c) \/ Read(c) \/ Leave(c) \/ Readopt(c)
       \/ MakeDirectory(c) \/ WriteNew(c) \/ Crash(c)
  \/ AdoptionChanges

CollectSpec == CollectInit /\ [][CollectNext]_collectVars

-----------------------------------------------------------------------------
(* Properties.                                                             *)

Published(c) == output["manifest.json"] = c

\* The batches of a bundle are one consistent cut: all workers stood at what the bundle
\* says of them at one instant, each with an ended report and nothing in flight.
ConsistentCut ==
  \A c \in Collectors : Published(c) =>
    /\ collector[c].seen = cut[c]
    /\ \A w \in Workers : cut[c][w].ended /\ cut[c][w].rows >= Enough

\* A manifest stands only beside the files it names, all of one collector, however many
\* collectors were started on one output and whenever one died.
BundleWhole ==
  output["manifest.json"] # Nobody =>
    \A f \in DOMAIN output : output[f] = output["manifest.json"]

=============================================================================
