--------------------- MODULE EvidenceCollection_proofs ---------------------
(***************************************************************************)
(* Proofs about EvidenceCollection for every number of workers, every set  *)
(* of collectors, and every value of the bounds.                           *)
(***************************************************************************)
EXTENDS EvidenceCollection, FiniteSetTheorems, TLAPS

\* A campaign that has a mutant or its restoration under way has room for the row.
RowsFit ==
  \A w \in Workers : campaign[w] \in {"mutated", "restored"} => report[w].rows < MaxRows

\* Leases are taken in order, and a collector that reads holds all of them.
LeasesInOrder(r) ==
  /\ r.pc = "lease" => \E k \in 0..Cardinality(Workers) : r.leases = 1..k
  /\ r.pc = "adopt" => r.leases = {}
  /\ r.pc \in {"adopt", "lease"} => r.at = 1
  /\ r.pc \in {"enter", "read", "leave"} => r.leases = Workers

\* The workers a collector has been through so far still are as it saw them.
Been(r) == {v \in Workers : v < r.at \/ (v = r.at /\ r.pc = "leave")}
StillSo(r) ==
  r.pc \in {"enter", "read", "leave"} =>
    \A v \in Been(r) : r.seen[v] = report[v] /\ Readable(r.seen[v])

\* Once the leases are returned, what it saw is the cut of that instant.
AsCut(r, k) ==
  r.pc \in {"readopt", "mkdir", "write", "collected"} =>
    r.seen = k /\ \A w \in Workers : Readable(k[w])

\* A leased worker has no campaign: its report stands.
LeasedIsOff(r) == \A w \in r.leases : campaign[w] = "off"

RowSound(r, k) == LeasesInOrder(r) /\ LeasedIsOff(r) /\ StillSo(r) /\ AsCut(r, k)

\* Whatever is in the output directory was written by whoever made it, in order.
OutputOwned ==
  /\ \A f \in Bundle : output[f] # Nobody => output[f] = output["directory"]
  /\ output["manifest.json"] # Nobody => \A f \in Bundle : output[f] # Nobody
  /\ \A c \in Collectors : collector[c].pc \in {"write", "collected"} => output["directory"] = c
  /\ \A c \in Collectors : Published(c) => collector[c].pc = "collected"

CollectionInv ==
  /\ TypeOK /\ RowsFit
  /\ \A c \in Collectors : RowSound(collector[c], cut[c])
  /\ OutputOwned

LEMMA WorkersNumbered ==
  /\ Cardinality(Workers) \in Nat /\ 1 \in Workers /\ Workers = 1..Cardinality(Workers)
  /\ Workers \subseteq Nat
  <1>1. Cardinality(Workers) \in Nat
    BY CollectionConstants, FS_CardinalityType
  <1>. QED
    BY <1>1, CollectionConstants

LEMMA BoundsAreNatural ==
  /\ Enough \in Nat /\ MaxRows \in Nat /\ MaxTreeEdits \in Nat /\ MaxAdoptions \in Nat
  /\ Enough <= MaxRows
BY CollectionConstants

LEMMA FreshIsARow == Fresh \in CollectorRow /\ \A c \in Collectors : Stopped(c) \in CollectorRow
  <1>1. NoReport \in Report
    BY BoundsAreNatural DEF NoReport, Report
  <1>2. Fresh \in CollectorRow
    BY <1>1, WorkersNumbered, BoundsAreNatural DEF Fresh, CollectorRow
  <1>. QED
    BY <1>2 DEF Stopped, CollectorRow

LEMMA StoppedIsSound ==
  ASSUME NEW c \in Collectors, NEW k
  PROVE  RowSound(Stopped(c), k) /\ Stopped(c).pc = "stopped"
BY DEF Stopped, Fresh, RowSound, LeasesInOrder, LeasedIsOff, StillSo, AsCut

LEMMA InitSound == CollectInit => CollectionInv
  <1>. SUFFICES ASSUME CollectInit PROVE CollectionInv
    OBVIOUS
  <1>1. NoReport \in Report /\ [rows |-> Enough, ended |-> TRUE] \in Report
    BY BoundsAreNatural DEF NoReport, Report
  <1>2. TypeOK
    <2>1. /\ campaign \in [Workers -> {"off", "idle", "mutated", "restored", "exiting"}]
          /\ unit \in [Workers -> BOOLEAN] /\ inflight \in [Workers -> BOOLEAN]
          /\ marker \in [Workers -> BOOLEAN] /\ tree \in [Workers -> {"clean", "mutant", "foreign"}]
      BY DEF CollectInit
    <2>2. report \in [Workers -> Report]
      BY <1>1 DEF CollectInit
    <2>3. adoption \in 0..MaxAdoptions /\ edits \in 0..MaxTreeEdits
      BY BoundsAreNatural DEF CollectInit
    <2>4. collector \in [Collectors -> CollectorRow]
      BY FreshIsARow DEF CollectInit
    <2>5. output \in [{"directory"} \union Bundle -> Collectors \union {Nobody}]
      BY DEF CollectInit
    <2>6. cut \in [Collectors -> [Workers -> Report]]
      BY <1>1 DEF CollectInit
    <2>. QED
      BY <2>1, <2>2, <2>3, <2>4, <2>5, <2>6 DEF TypeOK
  <1>3. RowsFit
    BY DEF CollectInit, RowsFit
  <1>4. \A c \in Collectors : RowSound(collector[c], cut[c])
    BY WorkersNumbered DEF CollectInit, Fresh, RowSound, LeasesInOrder, LeasedIsOff, StillSo, AsCut
  <1>5. OutputOwned
    BY CollectionConstants DEF CollectInit, Fresh, OutputOwned, Published, Bundle
  <1>. QED
    BY <1>2, <1>3, <1>4, <1>5 DEF CollectionInv

-----------------------------------------------------------------------------
(* A worker's step: the collectors and what they wrote stay, and so does   *)
(* the report of every worker somebody has a lease on.                     *)

LEMMA CollectorsUndisturbed ==
  ASSUME CollectionInv, TypeOK', RowsFit', UNCHANGED <<collector, output, cut>>,
         \A w \in Workers : campaign[w] = "off" /\ Leased(w) =>
                              campaign'[w] = "off" /\ report'[w] = report[w]
  PROVE  CollectionInv'
  <1>1. ASSUME NEW c \in Collectors
        PROVE  RowSound(collector[c], cut[c])'
    <2>. DEFINE r == collector[c]
    <2>0. r \in CollectorRow /\ RowSound(r, cut[c])
      BY DEF CollectionInv, TypeOK
    <2>1. \A w \in r.leases : w \in Workers /\ campaign'[w] = "off" /\ report'[w] = report[w]
      BY <2>0 DEF CollectorRow, RowSound, LeasedIsOff, Leased
    <2>2. StillSo(r)'
      <3>1. CASE r.pc \in {"enter", "read", "leave"}
        <4>1. r.leases = Workers
          BY <2>0, <3>1 DEF RowSound, LeasesInOrder
        <4>. QED
          BY <2>0, <2>1, <3>1, <4>1 DEF RowSound, StillSo, Been
      <3>. QED
        BY <3>1 DEF StillSo
    <2>3. LeasesInOrder(r)' /\ LeasedIsOff(r)' /\ AsCut(r, cut[c])'
      BY <2>0, <2>1 DEF RowSound, LeasesInOrder, LeasedIsOff, AsCut, Readable
    <2>. QED
      BY <2>2, <2>3 DEF RowSound
  <1>2. OutputOwned'
    BY DEF CollectionInv, OutputOwned, Published
  <1>. QED
    BY <1>1, <1>2 DEF CollectionInv

LEMMA WorkersKeep ==
  ASSUME CollectionInv, NEW w \in Workers,
         \/ Start(w) \/ Mutate(w) \/ Restore(w) \/ Record(w) \/ Finish(w) \/ Die(w)
         \/ UnitEnds(w) \/ Recover(w) \/ Edit(w)
  PROVE  CollectionInv'
  <1>. USE DEF CollectionInv
  <1>0. /\ campaign \in [Workers -> {"off", "idle", "mutated", "restored", "exiting"}]
        /\ unit \in [Workers -> BOOLEAN] /\ inflight \in [Workers -> BOOLEAN]
        /\ marker \in [Workers -> BOOLEAN] /\ tree \in [Workers -> {"clean", "mutant", "foreign"}]
        /\ report \in [Workers -> Report] /\ edits \in 0..MaxTreeEdits
        /\ report[w].rows \in 0..MaxRows /\ report[w].ended \in BOOLEAN
    BY DEF TypeOK, Report
  <1>1. UNCHANGED <<collector, output, cut, adoption>>
    BY DEF Start, Mutate, Restore, Record, Finish, Die, UnitEnds, Recover, Edit, WorkerOnly
  <1>2. /\ campaign' \in [Workers -> {"off", "idle", "mutated", "restored", "exiting"}]
        /\ unit' \in [Workers -> BOOLEAN] /\ inflight' \in [Workers -> BOOLEAN]
        /\ marker' \in [Workers -> BOOLEAN] /\ tree' \in [Workers -> {"clean", "mutant", "foreign"}]
    BY <1>0 DEF Start, Mutate, Restore, Record, Finish, Die, UnitEnds, Recover, Edit
  <1>3. edits' \in 0..MaxTreeEdits
    BY <1>0, BoundsAreNatural
    DEF Start, Mutate, Restore, Record, Finish, Die, UnitEnds, Recover, Edit, WorkerOnly
  <1>4. report' \in [Workers -> Report] /\ RowsFit'
    <2>1. CASE Start(w)
      BY <2>1, <1>0 DEF Start, Report, RowsFit
    <2>2. CASE Mutate(w)
      BY <2>2, <1>0 DEF Mutate, RowsFit
    <2>3. CASE Restore(w)
      BY <2>3, <1>0 DEF Restore, RowsFit
    <2>4. CASE Record(w)
      <3>1. report[w].rows + 1 \in 0..MaxRows
        BY <2>4, <1>0, BoundsAreNatural DEF Record, RowsFit
      <3>2. report' \in [Workers -> Report]
        BY <2>4, <1>0, <3>1 DEF Record, Report
      <3>3. RowsFit'
        BY <2>4, <1>0 DEF Record, RowsFit
      <3>. QED
        BY <3>2, <3>3
    <2>5. CASE Finish(w)
      BY <2>5, <1>0 DEF Finish, Report, RowsFit
    <2>6. CASE Die(w)
      BY <2>6, <1>0 DEF Die, RowsFit
    <2>7. CASE UnitEnds(w) \/ Recover(w) \/ Edit(w)
      BY <2>7, <1>0 DEF UnitEnds, Recover, Edit, RowsFit
    <2>. QED
      BY <2>1, <2>2, <2>3, <2>4, <2>5, <2>6, <2>7
  <1>5. TypeOK'
    BY <1>1, <1>2, <1>3, <1>4 DEF TypeOK
  <1>6. \A v \in Workers : campaign[v] = "off" /\ Leased(v) =>
                             campaign'[v] = "off" /\ report'[v] = report[v]
    <2>. SUFFICES ASSUME NEW v \in Workers, campaign[v] = "off", Leased(v)
                  PROVE  campaign'[v] = "off" /\ report'[v] = report[v]
      OBVIOUS
    <2>1. CASE v = w
      BY <2>1, <1>0
      DEF Start, Mutate, Restore, Record, Finish, Die, UnitEnds, Recover, Edit, Running
    <2>2. CASE v # w
      BY <2>2, <1>0 DEF Start, Mutate, Restore, Record, Finish, Die, UnitEnds, Recover, Edit
    <2>. QED
      BY <2>1, <2>2
  <1>. QED
    BY <1>1, <1>4, <1>5, <1>6, CollectorsUndisturbed

-----------------------------------------------------------------------------
(* A collector's step: the workers stay; its row changes, and the cut when *)
(* it returns its leases.                                                  *)

\* A step that leaves the output directory alone.
LEMMA CollectorMoves ==
  ASSUME CollectionInv, NEW c \in Collectors, NEW r \in CollectorRow, NEW k \in [Workers -> Report],
         CollectorOnly, UNCHANGED output, Set(c, r), cut' = [cut EXCEPT ![c] = k],
         RowSound(r, k), collector[c].pc # "collected",
         r.pc \in {"write", "collected"} => output["directory"] = c
  PROVE  CollectionInv'
  <1>. USE DEF CollectionInv
  <1>0. collector' = [collector EXCEPT ![c] = r] /\ UNCHANGED <<campaign, report>>
    BY DEF Set, CollectorOnly, workerVars
  <1>1. TypeOK'
    BY <1>0 DEF TypeOK, CollectorOnly, workerVars
  <1>2. RowsFit'
    BY <1>0 DEF RowsFit
  <1>3. ASSUME NEW d \in Collectors PROVE RowSound(collector[d], cut[d])'
    <2>1. CASE d = c
      <3>1. collector'[d] = r /\ cut'[d] = k
        BY <1>0, <2>1 DEF TypeOK
      <3>. QED
        BY <1>0, <3>1
        DEF RowSound, LeasesInOrder, LeasedIsOff, StillSo, Been, AsCut, Readable
    <2>2. CASE d # c
      <3>1. collector'[d] = collector[d] /\ cut'[d] = cut[d]
        BY <1>0, <2>2 DEF TypeOK
      <3>. QED
        BY <1>0, <3>1
        DEF RowSound, LeasesInOrder, LeasedIsOff, StillSo, Been, AsCut, Readable
    <2>. QED
      BY <2>1, <2>2
  <1>4. OutputOwned'
    BY <1>0 DEF OutputOwned, Published, TypeOK
  <1>. QED
    BY <1>1, <1>2, <1>3, <1>4

LEMMA StoppingKeeps ==
  ASSUME CollectionInv, NEW c \in Collectors, CollectorOnly, UNCHANGED <<output, cut>>,
         Set(c, Stopped(c)), collector[c].pc # "collected"
  PROVE  CollectionInv'
  <1>1. cut[c] \in [Workers -> Report] /\ cut' = [cut EXCEPT ![c] = cut[c]]
    BY DEF CollectionInv, TypeOK
  <1>. QED
    BY <1>1, StoppedIsSound, FreshIsARow, CollectorMoves

\* A step with the cut as it was.
LEMMA CollectorMovesOn ==
  ASSUME CollectionInv, NEW c \in Collectors, NEW r \in CollectorRow,
         CollectorOnly, UNCHANGED <<output, cut>>, Set(c, r),
         RowSound(r, cut[c]), collector[c].pc # "collected",
         r.pc \in {"write", "collected"} => output["directory"] = c
  PROVE  CollectionInv'
  <1>1. cut[c] \in [Workers -> Report] /\ cut' = [cut EXCEPT ![c] = cut[c]]
    BY DEF CollectionInv, TypeOK
  <1>. QED
    BY <1>1, CollectorMoves

LEMMA AdoptKeeps ==
  ASSUME CollectionInv, NEW c \in Collectors, Adopt(c)
  PROVE  CollectionInv'
  <1>. DEFINE r == [collector[c] EXCEPT !.pc = "lease", !.adopted = adoption]
  <1>0. collector[c] \in CollectorRow /\ RowSound(collector[c], cut[c])
        /\ collector[c].pc = "adopt" /\ adoption \in 0..MaxAdoptions
    BY DEF CollectionInv, TypeOK, Adopt, At
  <1>1. CASE Set(c, r)
    <2>1. r \in CollectorRow
      BY <1>0 DEF CollectorRow
    <2>2. r.pc = "lease" /\ r.at = 1 /\ r.leases = 1..0
      BY <1>0 DEF CollectorRow, RowSound, LeasesInOrder
    <2>3. \E k \in 0..Cardinality(Workers) : r.leases = 1..k
      <3>1. 0 \in 0..Cardinality(Workers)
        BY WorkersNumbered
      <3>. HIDE DEF r
      <3>. QED
        BY <2>2, <3>1
    <2>4. r.leases = {}
      BY <2>2
    <2>5. LeasesInOrder(r) /\ LeasedIsOff(r)
      BY <2>2, <2>3, <2>4 DEF LeasesInOrder, LeasedIsOff
    <2>6. RowSound(r, cut[c])
      BY <2>2, <2>5 DEF RowSound, StillSo, AsCut
    <2>. QED
      BY <1>0, <1>1, <2>1, <2>2, <2>6, CollectorMovesOn DEF Adopt
  <1>2. CASE Set(c, Stopped(c))
    BY <1>0, <1>2, StoppingKeeps DEF Adopt
  <1>. QED
    BY <1>1, <1>2 DEF Adopt

LEMMA LeaseKeeps ==
  ASSUME CollectionInv, NEW c \in Collectors, Lease(c)
  PROVE  CollectionInv'
  <1>. DEFINE taken == collector[c].leases
              next  == {w \in Workers \ taken : \A v \in Workers \ taken : w <= v}
              enter == [collector[c] EXCEPT !.pc = "enter"]
              one   == [collector[c] EXCEPT !.leases = @ \union next]
  <1>0. collector[c] \in CollectorRow /\ RowSound(collector[c], cut[c])
        /\ collector[c].pc = "lease"
    BY DEF CollectionInv, TypeOK, Lease, At
  <1>1. PICK k \in 0..Cardinality(Workers) : taken = 1..k
    BY <1>0 DEF RowSound, LeasesInOrder
  <1>2. /\ next = {} => taken = Workers
        /\ next # {} => k + 1 \in 0..Cardinality(Workers) /\ taken \union next = 1..(k + 1)
    <2>1. CASE k = Cardinality(Workers)
      BY <1>1, <2>1, WorkersNumbered
    <2>2. CASE k # Cardinality(Workers)
      <3>1. k \in Nat /\ k + 1 \in Workers \ taken /\ k + 1 \in 0..Cardinality(Workers)
        BY <1>1, <2>2, WorkersNumbered
      <3>2. \A v \in Workers \ taken : v \in Nat /\ k + 1 <= v
        BY <1>1, <3>1, WorkersNumbered
      <3>3. next = {k + 1}
        BY <3>1, <3>2
      <3>. QED
        BY <1>1, <3>1, <3>3
    <2>. QED
      BY <2>1, <2>2
  <1>3. CASE next = {} /\ Set(c, enter)
    <2>1. enter \in CollectorRow /\ enter.pc = "enter" /\ enter.leases = Workers /\ enter.at = 1
      BY <1>0, <1>2, <1>3 DEF CollectorRow, RowSound, LeasesInOrder
    <2>2. Been(enter) = {}
      BY <2>1, WorkersNumbered DEF Been
    <2>3. LeasedIsOff(enter)
      BY <1>0, <2>1, <1>2, <1>3 DEF RowSound, LeasedIsOff, CollectorRow
    <2>4. RowSound(enter, cut[c])
      BY <2>1, <2>2, <2>3 DEF RowSound, LeasesInOrder, StillSo, AsCut
    <2>. QED
      BY <1>0, <1>3, <2>1, <2>4, CollectorMovesOn DEF Lease
  <1>4. CASE next # {} /\ ~(\E w \in next : Running(w)) /\ Set(c, one)
    <2>1. one \in CollectorRow /\ one.pc = "lease" /\ one.leases = taken \union next
          /\ one.at = collector[c].at
      BY <1>0 DEF CollectorRow
    <2>2. LeasesInOrder(one)
      BY <1>0, <1>2, <1>4, <2>1 DEF RowSound, LeasesInOrder
    <2>3. LeasedIsOff(one)
      BY <1>0, <1>4, <2>1 DEF RowSound, LeasedIsOff, Running
    <2>4. RowSound(one, cut[c])
      BY <2>1, <2>2, <2>3 DEF RowSound, StillSo, AsCut
    <2>. QED
      BY <1>0, <1>4, <2>1, <2>4, CollectorMovesOn DEF Lease
  <1>5. CASE Set(c, Stopped(c))
    BY <1>0, <1>5, StoppingKeeps DEF Lease
  <1>. QED
    BY <1>3, <1>4, <1>5 DEF Lease, LeaseAll

LEMMA EnterKeeps ==
  ASSUME CollectionInv, NEW c \in Collectors, Enter(c)
  PROVE  CollectionInv'
  <1>. DEFINE r == [collector[c] EXCEPT !.pc = "read"]
  <1>0. collector[c] \in CollectorRow /\ RowSound(collector[c], cut[c])
        /\ collector[c].pc = "enter"
    BY DEF CollectionInv, TypeOK, Enter, At
  <1>1. CASE Set(c, r)
    <2>1. r \in CollectorRow /\ r.pc = "read" /\ r.at = collector[c].at
          /\ r.leases = collector[c].leases /\ r.seen = collector[c].seen
      BY <1>0 DEF CollectorRow
    <2>2. RowSound(r, cut[c])
      BY <1>0, <2>1 DEF RowSound, LeasesInOrder, LeasedIsOff, StillSo, Been, AsCut
    <2>. QED
      BY <1>0, <1>1, <2>1, <2>2, CollectorMovesOn DEF Enter
  <1>2. CASE Set(c, Stopped(c))
    BY <1>0, <1>2, StoppingKeeps DEF Enter
  <1>. QED
    BY <1>1, <1>2 DEF Enter

LEMMA ReadKeeps ==
  ASSUME CollectionInv, NEW c \in Collectors, Read(c)
  PROVE  CollectionInv'
  <1>. DEFINE w == collector[c].at
              r == [collector[c] EXCEPT !.pc = "leave", !.seen[w] = report[w]]
  <1>0. collector[c] \in CollectorRow /\ RowSound(collector[c], cut[c])
        /\ collector[c].pc = "read" /\ report \in [Workers -> Report]
    BY DEF CollectionInv, TypeOK, Read, At
  <1>1. CASE Readable(report[w]) /\ Set(c, r)
    <2>1. /\ r \in CollectorRow /\ r.pc = "leave" /\ r.at = w /\ w \in Workers
          /\ r.leases = collector[c].leases
          /\ r.seen = [collector[c].seen EXCEPT ![w] = report[w]]
          /\ collector[c].seen \in [Workers -> Report]
      BY <1>0 DEF CollectorRow
    <2>2. \A v \in Workers : v < w => r.seen[v] = report[v] /\ Readable(r.seen[v])
      BY <1>0, <2>1, WorkersNumbered DEF RowSound, StillSo, Been
    <2>3. r.seen[w] = report[w] /\ Readable(r.seen[w])
      BY <1>1, <2>1
    <2>4. StillSo(r)
      BY <2>1, <2>2, <2>3 DEF StillSo, Been
    <2>5. RowSound(r, cut[c])
      BY <1>0, <2>1, <2>4 DEF RowSound, LeasesInOrder, LeasedIsOff, AsCut
    <2>. QED
      BY <1>0, <1>1, <2>1, <2>5, CollectorMovesOn DEF Read
  <1>2. CASE Set(c, Stopped(c))
    BY <1>0, <1>2, StoppingKeeps DEF Read
  <1>. QED
    BY <1>1, <1>2 DEF Read

LEMMA LeaveKeeps ==
  ASSUME CollectionInv, NEW c \in Collectors, Leave(c)
  PROVE  CollectionInv'
  <1>. DEFINE w == collector[c].at
              r == [collector[c] EXCEPT !.at = w + 1, !.pc = "enter"]
              d == [collector[c] EXCEPT !.pc = "readopt", !.leases = {}]
  <1>0. /\ collector[c] \in CollectorRow /\ RowSound(collector[c], cut[c])
        /\ collector[c].pc = "leave" /\ report \in [Workers -> Report] /\ w \in Workers
        /\ collector[c].seen \in [Workers -> Report]
    BY DEF CollectionInv, TypeOK, Leave, At, CollectorRow
  <1>1. \A v \in Workers : v <= w =>
          collector[c].seen[v] = report[v] /\ Readable(collector[c].seen[v])
    BY <1>0, WorkersNumbered DEF RowSound, StillSo, Been
  <1>2. CASE ~Untouched(w)
    <2>1. Set(c, Stopped(c)) /\ UNCHANGED <<output, cut>> /\ CollectorOnly
      BY <1>2 DEF Leave
    <2>. QED
      BY <1>0, <2>1, StoppingKeeps
  <1>3. CASE Untouched(w) /\ w + 1 \in Workers
    <2>1. /\ r \in CollectorRow /\ r.pc = "enter" /\ r.at = w + 1
          /\ r.leases = collector[c].leases /\ r.seen = collector[c].seen
      BY <1>0, <1>3 DEF CollectorRow
    <2>2. r = [collector[c] EXCEPT !.at = w + 1,
                 !.pc = IF LeaseAll(c) = Workers THEN "enter" ELSE "lease",
                 !.leases = IF LeaseAll(c) = Workers THEN @ ELSE {}]
      BY <1>0 DEF LeaseAll, CollectorRow
    <2>3. Set(c, r) /\ UNCHANGED <<output, cut>> /\ CollectorOnly
      BY <1>3, <2>2 DEF Leave
    <2>4. \A v \in Workers : v < w + 1 => r.seen[v] = report[v] /\ Readable(r.seen[v])
      BY <1>0, <1>1, <2>1, WorkersNumbered
    <2>5. RowSound(r, cut[c])
      BY <1>0, <2>1, <2>4 DEF RowSound, LeasesInOrder, LeasedIsOff, StillSo, Been, AsCut
    <2>. QED
      BY <1>0, <2>1, <2>3, <2>5, CollectorMovesOn
  <1>4. CASE Untouched(w) /\ w + 1 \notin Workers
    <2>1. /\ d \in CollectorRow /\ d.pc = "readopt" /\ d.leases = {}
          /\ d.seen = collector[c].seen
      BY <1>0 DEF CollectorRow
    <2>2. Set(c, d) /\ cut' = [cut EXCEPT ![c] = report] /\ UNCHANGED output /\ CollectorOnly
      BY <1>4 DEF Leave
    <2>3. \A v \in Workers : v <= w
      BY <1>0, <1>4, WorkersNumbered
    <2>4. d.seen = report /\ \A v \in Workers : Readable(report[v])
      BY <1>0, <1>1, <2>1, <2>3
    <2>5. RowSound(d, report)
      BY <2>1, <2>4 DEF RowSound, LeasesInOrder, LeasedIsOff, StillSo, AsCut
    <2>. QED
      BY <1>0, <2>1, <2>2, <2>5, CollectorMoves
  <1>. QED
    BY <1>2, <1>3, <1>4

LEMMA ReadoptKeeps ==
  ASSUME CollectionInv, NEW c \in Collectors, Readopt(c)
  PROVE  CollectionInv'
  <1>. DEFINE r == [collector[c] EXCEPT !.pc = "mkdir"]
  <1>0. collector[c] \in CollectorRow /\ RowSound(collector[c], cut[c])
        /\ collector[c].pc = "readopt"
    BY DEF CollectionInv, TypeOK, Readopt, At
  <1>1. CASE Set(c, r)
    <2>1. /\ r \in CollectorRow /\ r.pc = "mkdir"
          /\ r.leases = collector[c].leases /\ r.seen = collector[c].seen
      BY <1>0 DEF CollectorRow
    <2>2. RowSound(r, cut[c])
      BY <1>0, <2>1 DEF RowSound, LeasesInOrder, LeasedIsOff, StillSo, AsCut
    <2>. QED
      BY <1>0, <1>1, <2>1, <2>2, CollectorMovesOn DEF Readopt
  <1>2. CASE Set(c, Stopped(c))
    BY <1>0, <1>2, StoppingKeeps DEF Readopt
  <1>. QED
    BY <1>1, <1>2 DEF Readopt

\* A step that writes to the output directory, with its new contents.
LEMMA CollectorWrites ==
  ASSUME CollectionInv, NEW c \in Collectors, NEW p \in {"write", "collected"},
         collector[c].pc \in {"mkdir", "write"},
         Set(c, [collector[c] EXCEPT !.pc = p]), CollectorOnly, UNCHANGED cut,
         output' \in [{"directory"} \union Bundle -> Collectors \union {Nobody}], OutputOwned',
         RowSound([collector[c] EXCEPT !.pc = p], cut[c])
  PROVE  CollectionInv'
  <1>. USE DEF CollectionInv
  <1>. DEFINE r == [collector[c] EXCEPT !.pc = p]
  <1>0. collector' = [collector EXCEPT ![c] = r] /\ UNCHANGED <<campaign, report, cut>>
    BY DEF Set, CollectorOnly, workerVars
  <1>1. r \in CollectorRow
    BY DEF TypeOK, CollectorRow
  <1>. HIDE DEF r
  <1>2. TypeOK'
    BY <1>0, <1>1 DEF TypeOK, CollectorOnly, workerVars
  <1>3. RowsFit'
    BY <1>0 DEF RowsFit
  <1>4. ASSUME NEW d \in Collectors PROVE RowSound(collector[d], cut[d])'
    <2>1. RowSound(collector'[d], cut[d])
      BY <1>0 DEF TypeOK, r
    <2>. QED
      BY <1>0, <2>1 DEF RowSound, LeasesInOrder, LeasedIsOff, StillSo, Been, AsCut, Readable
  <1>. QED
    BY <1>2, <1>3, <1>4

LEMMA MakeDirectoryKeeps ==
  ASSUME CollectionInv, NEW c \in Collectors, MakeDirectory(c)
  PROVE  CollectionInv'
  <1>. DEFINE r == [collector[c] EXCEPT !.pc = "write"]
  <1>0. /\ collector[c] \in CollectorRow /\ RowSound(collector[c], cut[c])
        /\ collector[c].pc = "mkdir" /\ OutputOwned
        /\ output \in [{"directory"} \union Bundle -> Collectors \union {Nobody}]
    BY DEF CollectionInv, TypeOK, MakeDirectory, At
  <1>1. CASE output["directory"] = Nobody
    <2>1. output' = [output EXCEPT !["directory"] = c] /\ Set(c, r) /\ CollectorOnly
          /\ UNCHANGED cut
      BY <1>1 DEF MakeDirectory
    <2>2. collector' = [collector EXCEPT ![c] = r]
      BY <2>1 DEF Set
    <2>3. \A f \in Bundle : output[f] = Nobody /\ output'[f] = Nobody
      BY <1>0, <1>1, <2>1 DEF OutputOwned, Bundle
    <2>4. output'["directory"] = c
      BY <1>0, <2>1
    <2>5. \A d \in Collectors : collector'[d].pc \in {"write", "collected"} => d = c
      BY <1>0, <1>1, <2>2, CollectionConstants DEF OutputOwned, CollectionInv, TypeOK
    <2>6. OutputOwned'
      BY <2>3, <2>4, <2>5, CollectionConstants DEF OutputOwned, Published, Bundle
    <2>7. RowSound(r, cut[c])
      BY <1>0 DEF RowSound, LeasesInOrder, LeasedIsOff, StillSo, AsCut, CollectorRow
    <2>. QED
      BY <1>0, <2>1, <2>6, <2>7, CollectorWrites
  <1>2. CASE output["directory"] # Nobody
    BY <1>0, <1>2, StoppingKeeps DEF MakeDirectory
  <1>. QED
    BY <1>1, <1>2

LEMMA WriteNewKeeps ==
  ASSUME CollectionInv, NEW c \in Collectors, WriteNew(c)
  PROVE  CollectionInv'
  <1>0. /\ collector[c] \in CollectorRow /\ RowSound(collector[c], cut[c])
        /\ collector[c].pc = "write" /\ OutputOwned /\ output["directory"] = c
        /\ output \in [{"directory"} \union Bundle -> Collectors \union {Nobody}]
    BY DEF CollectionInv, TypeOK, WriteNew, At, OutputOwned
  <1>1. PICK f \in ManifestLast :
          /\ output' = [output EXCEPT ![f] = c]
          /\ Set(c, [collector[c] EXCEPT !.pc = IF Unwritten = {f} THEN "collected" ELSE "write"])
    BY DEF WriteNew
  <1>. DEFINE p == IF Unwritten = {f} THEN "collected" ELSE "write"
              r == [collector[c] EXCEPT !.pc = p]
  <1>2. f \in Unwritten /\ (f = "manifest.json" => Unwritten = {f})
    BY DEF ManifestLast, Unwritten, Bundle
  <1>3. p \in {"write", "collected"}
    OBVIOUS
  <1>4. output' \in [{"directory"} \union Bundle -> Collectors \union {Nobody}]
    BY <1>0, <1>1
  <1>5. /\ output'["directory"] = c /\ output'[f] = c /\ f \in Bundle /\ c # Nobody
        /\ \A g \in Bundle \ {f} : output'[g] = output[g]
    BY <1>0, <1>1, <1>2, CollectionConstants DEF Unwritten, Bundle
  <1>6. collector'[c].pc = p /\ \A d \in Collectors \ {c} : collector'[d] = collector[d]
    BY <1>0, <1>1 DEF Set, CollectionInv, TypeOK, CollectorRow
  <1>7. OutputOwned'
    <2>1. \A g \in Bundle : output'[g] # Nobody => output'[g] = output'["directory"]
      BY <1>0, <1>5 DEF OutputOwned
    <2>2. output["manifest.json"] = Nobody
      BY <1>0, <1>2 DEF OutputOwned, Unwritten, Bundle
    <2>3. output'["manifest.json"] # Nobody => f = "manifest.json"
      BY <1>5, <2>2 DEF Bundle
    <2>4. output'["manifest.json"] # Nobody => \A g \in Bundle : output'[g] # Nobody
      BY <1>2, <1>5, <2>3 DEF Unwritten
    <2>5. \A d \in Collectors : collector'[d].pc \in {"write", "collected"} =>
                                 output'["directory"] = d
      BY <1>0, <1>5, <1>6 DEF OutputOwned
    <2>6. \A d \in Collectors : output'["manifest.json"] = d => collector'[d].pc = "collected"
      BY <1>2, <1>5, <1>6, <2>3, CollectionConstants
    <2>. QED
      BY <2>1, <2>4, <2>5, <2>6 DEF OutputOwned, Published
  <1>8. RowSound(r, cut[c])
    BY <1>0 DEF RowSound, LeasesInOrder, LeasedIsOff, StillSo, AsCut, CollectorRow
  <1>. QED
    BY <1>0, <1>1, <1>3, <1>4, <1>7, <1>8, CollectorWrites DEF WriteNew

LEMMA CrashKeeps ==
  ASSUME CollectionInv, NEW c \in Collectors, Crash(c)
  PROVE  CollectionInv'
BY StoppingKeeps DEF Crash

LEMMA AdoptionChangesKeeps ==
  ASSUME CollectionInv, AdoptionChanges
  PROVE  CollectionInv'
  <1>1. adoption' \in 0..MaxAdoptions /\ UNCHANGED <<workerVars, collector, output, cut, edits>>
    BY BoundsAreNatural DEF AdoptionChanges, CollectionInv, TypeOK
  <1>2. TypeOK' /\ RowsFit' /\ UNCHANGED <<collector, output, cut, campaign, report>>
    BY <1>1 DEF CollectionInv, TypeOK, RowsFit, workerVars
  <1>. QED
    BY <1>2, CollectorsUndisturbed

-----------------------------------------------------------------------------
(* The theorems.                                                           *)

LEMMA NextKeeps == CollectionInv /\ [CollectNext]_collectVars => CollectionInv'
  <1>. SUFFICES ASSUME CollectionInv, [CollectNext]_collectVars PROVE CollectionInv'
    OBVIOUS
  <1>1. ASSUME NEW w \in Workers,
               \/ Start(w) \/ Mutate(w) \/ Restore(w) \/ Record(w) \/ Finish(w) \/ Die(w)
               \/ UnitEnds(w) \/ Recover(w) \/ Edit(w)
        PROVE  CollectionInv'
    BY <1>1, WorkersKeep
  <1>2. ASSUME NEW c \in Collectors,
               \/ Adopt(c) \/ Lease(c) \/ Enter(c) \/ Read(c) \/ Leave(c) \/ Readopt(c)
               \/ MakeDirectory(c) \/ WriteNew(c) \/ Crash(c)
        PROVE  CollectionInv'
    BY <1>2, AdoptKeeps, LeaseKeeps, EnterKeeps, ReadKeeps, LeaveKeeps, ReadoptKeeps,
       MakeDirectoryKeeps, WriteNewKeeps, CrashKeeps
  <1>3. CASE UNCHANGED collectVars
    <2>1. TypeOK' /\ RowsFit' /\ UNCHANGED <<collector, output, cut, campaign, report>>
      BY <1>3 DEF CollectionInv, TypeOK, RowsFit, collectVars, workerVars
    <2>. QED
      BY <2>1, CollectorsUndisturbed
  <1>. QED
    BY <1>1, <1>2, <1>3, AdoptionChangesKeeps DEF CollectNext

LEMMA CollectionInvHolds == CollectSpec => []CollectionInv
  <1>. QED
    BY InitSound, NextKeeps, PTL DEF CollectSpec

\* The state keeps its types: campaigns, units, trees, reports, collectors and the output.
THEOREM CollectionTypeCorrect == CollectSpec => []TypeOK
  <1>1. CollectionInv => TypeOK
    BY DEF CollectionInv
  <1>. QED
    BY <1>1, CollectionInvHolds, PTL

\* What a published bundle says of the workers was true of all of them at one instant.
THEOREM BundlesAreConsistent == CollectSpec => []ConsistentCut
  <1>1. CollectionInv => ConsistentCut
    BY DEF CollectionInv, ConsistentCut, OutputOwned, Published, RowSound, AsCut, Readable
  <1>. QED
    BY <1>1, CollectionInvHolds, PTL

\* A manifest stands beside a whole bundle of one collector.
THEOREM BundlesAreWhole == CollectSpec => []BundleWhole
  <1>1. CollectionInv => BundleWhole
    <2>. SUFFICES ASSUME CollectionInv, output["manifest.json"] # Nobody
                  PROVE  \A f \in DOMAIN output : output[f] = output["manifest.json"]
      BY DEF BundleWhole
    <2>1. DOMAIN output = {"directory"} \union Bundle /\ "manifest.json" \in Bundle
      BY DEF CollectionInv, TypeOK, Bundle
    <2>. QED
      BY <2>1 DEF CollectionInv, OutputOwned
  <1>. QED
    BY <1>1, CollectionInvHolds, PTL

=============================================================================
