-------------------------- MODULE SmallParts_proofs --------------------------
(***************************************************************************)
(* Proofs about the parts that SmallParts puts side by side, each for      *)
(* every value of its constants: the invariant of a part is proved about   *)
(* the part's own initial states and steps, and carried over to the        *)
(* composition at the end.                                                 *)
(***************************************************************************)
EXTENDS SmallParts, FiniteSetTheorems, WellFoundedInduction, TLAPS

(* DevicePolling: two polls of one device code.                            *)

\* The holder of the row lock decides on the record as it is: nobody else writes it
\* until the holder commits or dies.
LockSound ==
  /\ \A p \in Pollers : poll[p].pc = "locked" => lock = p
  /\ lock # NoPoller => poll[lock].pc = "locked" /\ poll[lock].seen = record

\* The record remembers a time no earlier than the last admission, counts every
\* admission, and was consumed by the request that was granted tokens.
RecordSound ==
  /\ continued # <<>> => record.last # NoTime /\ continued[Len(continued)] <= record.last
  /\ Len(continued) <= record.count
  /\ grants = IF record.consumed THEN 1 ELSE 0

Spaced == \A i \in 1..(Len(continued) - 1) : continued[i] + MinInterval <= continued[i + 1]

DeviceInv == Device!TypeOK /\ LockSound /\ RecordSound /\ Spaced

LEMMA DeviceInit == Device!Init => DeviceInv
<1>. SUFFICES ASSUME Device!Init PROVE DeviceInv
  OBVIOUS
<1>. USE PartConstants DEF Device!Init, Device!PollingConstants, Device!FreshRecord, Device!Idle
<1>1. Device!FreshRecord \in Device!Record /\ Device!ValidRecord(Device!FreshRecord)
  BY DEF Device!Record, Device!ValidRecord
<1>2. Device!Idle \in Device!Poll
  BY <1>1 DEF Device!Poll
<1>3. Device!TypeOK
  BY <1>1, <1>2 DEF Device!TypeOK
<1>4. LockSound /\ RecordSound /\ Spaced
  BY DEF LockSound, RecordSound, Spaced
<1>. QED  BY <1>3, <1>4 DEF DeviceInv

\* A poll that is admitted comes an interval after the time the record remembers, and
\* pays for itself; whatever is decided, the record stays within its bounds.
LEMMA ProposalSound ==
  ASSUME NEW r \in Device!Record, Device!ValidRecord(r), NEW c \in {Owner, Stranger}, NEW now \in Nat
  PROVE  LET s == Device!Proposal(r, c, now) IN
         /\ s \in Device!Record /\ Device!ValidRecord(s)
         /\ r.last # NoTime => s.last # NoTime /\ r.last <= s.last
         /\ r.count <= s.count
         /\ Device!Decision(r, c, now) = "continue" =>
              /\ s.last = now /\ s.count = r.count + 1
              /\ r.last # NoTime => r.last + MinInterval <= now
<1>. USE PartConstants DEF Device!PollingConstants, Device!Record, Device!ValidRecord
<1>1. CASE Device!Decision(r, c, now) = "continue"
  <2>1. Device!Proposal(r, c, now) = [Device!Counted(r) EXCEPT !.last = now]
    BY <1>1 DEF Device!Proposal
  <2>2. r.count < MaxPolls /\ (r.last # NoTime => r.last + r.interval <= now)
    BY <1>1 DEF Device!Decision, Device!TooSoon
  <2>3. Device!Counted(r) = [r EXCEPT !.count = r.count + 1]
    BY DEF Device!Counted
  <2>4. now \in Nat \union {NoTime} /\ r.count + 1 \in Nat
    OBVIOUS
  <2>5. Device!Proposal(r, c, now) = [r EXCEPT !.count = r.count + 1, !.last = now]
    BY <2>1, <2>3
  <2>6. Device!Proposal(r, c, now) \in Device!Record
    BY <2>4, <2>5
  <2>7. /\ Device!Proposal(r, c, now).last = now
        /\ Device!Proposal(r, c, now).count = r.count + 1
        /\ Device!Proposal(r, c, now).interval = r.interval
    BY <2>5
  <2>8. now # NoTime /\ r.count + 1 \in 0..MaxPolls /\ r.count <= r.count + 1
    BY <2>2
  <2>9. r.last # NoTime => r.last <= now /\ r.last + MinInterval <= now
    BY <2>2
  <2>. QED  BY <2>6, <2>7, <2>8, <2>9
<1>2. CASE Device!Decision(r, c, now) = "slow_down"
  <2>1. Device!Proposal(r, c, now) =
          [Device!Counted(r) EXCEPT !.last = Device!Later(now, r.last), !.interval = @ + IntervalStep]
    BY <1>2 DEF Device!Proposal, Device!Counted
  <2>2. /\ r.count < MaxPolls /\ r.last # NoTime
        /\ r.interval + IntervalStep <= MaxInterval
    BY <1>2 DEF Device!Decision, Device!TooSoon
  <2>3. Device!Counted(r) = [r EXCEPT !.count = r.count + 1]
    BY DEF Device!Counted
  <2>4. Device!Later(now, r.last) \in Nat /\ r.last <= Device!Later(now, r.last)
    BY <2>2 DEF Device!Later
  <2>5. Device!Proposal(r, c, now) =
          [r EXCEPT !.count = r.count + 1, !.last = Device!Later(now, r.last),
                    !.interval = r.interval + IntervalStep]
    BY <2>1, <2>3
  <2>. DEFINE later == Device!Later(now, r.last)  count == r.count + 1  wait == r.interval + IntervalStep
  <2>a. later \in Nat \union {NoTime} /\ count \in Nat /\ wait \in Nat
    BY <2>4
  <2>b. Device!Proposal(r, c, now) = [r EXCEPT !.count = count, !.last = later, !.interval = wait]
    BY <2>5
  <2>6. Device!Proposal(r, c, now) \in Device!Record
    <3>. HIDE DEF later, count, wait
    <3>. QED  BY <2>a, <2>b
  <2>7. /\ Device!Proposal(r, c, now).last = Device!Later(now, r.last)
        /\ Device!Proposal(r, c, now).count = r.count + 1
        /\ Device!Proposal(r, c, now).interval = r.interval + IntervalStep
    BY <2>5
  <2>8. /\ Device!Later(now, r.last) # NoTime
        /\ r.count + 1 \in 0..MaxPolls /\ r.count <= r.count + 1
        /\ r.interval + IntervalStep \in MinInterval..MaxInterval
    BY <2>2, <2>4
  <2>. QED  BY <1>2, <2>4, <2>6, <2>7, <2>8
<1>3. CASE Device!Decision(r, c, now) \notin {"continue", "slow_down"}
  BY <1>3 DEF Device!Proposal
<1>. QED  BY <1>1, <1>2, <1>3

LEMMA DeviceStepKeeps == DeviceInv /\ [Device!Next]_deviceVars => DeviceInv'
<1>. SUFFICES ASSUME DeviceInv, [Device!Next]_deviceVars PROVE DeviceInv'
  OBVIOUS
<1>. USE PartConstants DEF Device!PollingConstants, DeviceInv, Device!TypeOK
<1>0. Device!Idle \in Device!Poll /\ Device!Idle.pc = "idle"
  BY DEF Device!Idle, Device!FreshRecord, Device!Poll, Device!Record
<1>1. ASSUME NEW p \in Pollers, NEW c \in {Owner, Stranger}, Device!Begin(p, c) PROVE DeviceInv'
  <2>. DEFINE q == [Device!Idle EXCEPT !.pc = "waiting", !.client = c, !.since = clock]
  <2>1. q \in Device!Poll /\ q.pc = "waiting"
    BY <1>0 DEF Device!Poll
  <2>2. poll' = [poll EXCEPT ![p] = q] /\ poll[p].pc = "idle"
    BY <1>1 DEF Device!Begin
  <2>3. UNCHANGED <<clock, record, lock, continued, grants>>
    BY <1>1 DEF Device!Begin
  <2>. HIDE DEF q
  <2>4. Device!TypeOK'
    BY <2>1, <2>2, <2>3 DEF Device!ValidRecord
  <2>5. LockSound'
    BY <2>1, <2>2, <2>3 DEF LockSound
  <2>. QED  BY <2>3, <2>4, <2>5 DEF RecordSound, Spaced
<1>2. ASSUME NEW p \in Pollers, Device!Lock(p) PROVE DeviceInv'
  <2>1. PICK now \in poll[p].since..clock :
          poll' = [poll EXCEPT ![p].pc = "locked", ![p].now = now, ![p].seen = record, ![p].since = 0]
    BY <1>2 DEF Device!Lock
  <2>2. lock = NoPoller /\ lock' = p /\ UNCHANGED <<clock, record, continued, grants>>
    BY <1>2 DEF Device!Lock, Device!RowFree
  <2>. DEFINE q == [poll[p] EXCEPT !.pc = "locked", !.now = now, !.seen = record, !.since = 0]
  <2>3. poll[p] \in Device!Poll /\ now \in Nat /\ record \in Device!Record
    BY DEF Device!Poll
  <2>4. q \in Device!Poll /\ q.pc = "locked" /\ q.seen = record
    <3>. HIDE DEF Device!TypeOK
    <3>. QED  BY <2>3 DEF Device!Poll
  <2>5. poll' = [poll EXCEPT ![p] = q]
    BY <2>1
  <2>. HIDE DEF q
  <2>6. Device!TypeOK'
    BY <2>2, <2>4, <2>5 DEF Device!ValidRecord
  <2>7. LockSound'
    BY <2>2, <2>4, <2>5 DEF LockSound
  <2>. QED  BY <2>2, <2>6, <2>7 DEF RecordSound, Spaced
<1>3. ASSUME NEW p \in Pollers, Device!Commit(p) PROVE DeviceInv'
  <2>. DEFINE q == poll[p]
  <2>1. q \in Device!Poll /\ q.pc = "locked" /\ lock = p /\ q.seen = record
    BY <1>3 DEF Device!Commit, LockSound
  <2>a. PICK client \in {Owner, Stranger}, now \in Nat : q.client = client /\ q.now = now
    BY <2>1 DEF Device!Poll
  <2>2. record \in Device!Record /\ Device!ValidRecord(record)
    OBVIOUS
  <2>. DEFINE decision == Device!Decision(record, client, now)
              s == Device!Proposal(record, client, now)
  <2>3. /\ s \in Device!Record /\ Device!ValidRecord(s)
        /\ record.last # NoTime => s.last # NoTime /\ record.last <= s.last
        /\ record.count <= s.count
        /\ decision = "continue" =>
             /\ s.last = now /\ s.count = record.count + 1
             /\ record.last # NoTime => record.last + MinInterval <= now
    <3>1. s \in Device!Record /\ Device!ValidRecord(s) /\ record.count <= s.count
      BY <2>2, ProposalSound
    <3>2. record.last # NoTime => s.last # NoTime /\ record.last <= s.last
      BY <2>2, ProposalSound
    <3>3. ASSUME decision = "continue"
          PROVE  /\ s.last = now /\ s.count = record.count + 1
                 /\ record.last # NoTime => record.last + MinInterval <= now
      <4>1. s.last = now
        BY <2>2, <3>3 DEF Device!Proposal, Device!Counted, Device!Record
      <4>2. s.count = record.count + 1
        BY <2>2, <3>3, ProposalSound
      <4>3. record.last # NoTime => record.last + MinInterval <= now
        BY <2>2, <3>3, ProposalSound
      <4>. QED  BY <4>1, <4>2, <4>3
    <3>. QED  BY <3>1, <3>2, <3>3
  <2>4. record' = [record EXCEPT !.last = s.last, !.interval = s.interval, !.count = s.count]
    BY <1>3, <2>1, <2>a DEF Device!Commit, Device!Stored
  <2>5. /\ record' \in Device!Record /\ Device!ValidRecord(record')
        /\ record'.last = s.last /\ record'.count = s.count
        /\ record'.consumed = record.consumed
    BY <2>2, <2>3, <2>4 DEF Device!Record, Device!ValidRecord
  <2>6. lock' = NoPoller /\ UNCHANGED <<clock, grants>>
    BY <1>3 DEF Device!Commit
  <2>7. PICK x \in Device!Poll : poll' = [poll EXCEPT ![p] = x] /\ x.pc # "locked"
    <3>1. CASE decision = "continue"
      <4>. DEFINE x == [q EXCEPT !.pc = "admitted", !.now = 0]
      <4>1. poll' = [poll EXCEPT ![p] = x]
        BY <1>3, <2>1, <2>a, <3>1 DEF Device!Commit
      <4>2. x \in Device!Poll /\ x.pc = "admitted"
        BY <2>1 DEF Device!Poll
      <4>. QED  BY <4>1, <4>2
    <3>2. CASE decision # "continue"
      BY <1>0, <1>3, <2>1, <2>a, <3>2 DEF Device!Commit
    <3>. QED  BY <3>1, <3>2
  <2>8. LockSound'
    BY <2>1, <2>6, <2>7 DEF LockSound
  <2>9. CASE decision = "continue"
    <3>1. continued' = Append(continued, now)
      BY <1>3, <2>1, <2>a, <2>9 DEF Device!Commit
    <3>2. /\ Len(continued') = Len(continued) + 1 /\ continued' \in Seq(Nat)
          /\ continued'[Len(continued) + 1] = now
          /\ \A i \in 1..Len(continued) : continued'[i] = continued[i]
      BY <2>2, <3>1
    <3>3. continued # <<>> => Len(continued) >= 1 /\ continued[Len(continued)] + MinInterval <= now
      <4>1. SUFFICES ASSUME continued # <<>>
                    PROVE  Len(continued) >= 1 /\ continued[Len(continued)] + MinInterval <= now
        OBVIOUS
      <4>2. Len(continued) >= 1 /\ continued[Len(continued)] \in Nat
        BY <4>1
      <4>3. record.last \in Nat /\ continued[Len(continued)] <= record.last
        BY <2>2, <4>1 DEF RecordSound, Device!Record
      <4>4. record.last + MinInterval <= now
        BY <2>3, <2>9, <4>3
      <4>. QED  BY <2>2, <4>2, <4>3, <4>4
    <3>4. Spaced'
      <4>. SUFFICES ASSUME NEW i \in 1..Len(continued)
                    PROVE  continued'[i] + MinInterval <= continued'[i + 1]
        BY <3>2 DEF Spaced
      <4>1. CASE i = Len(continued)
        BY <3>2, <3>3, <4>1
      <4>2. CASE i # Len(continued)
        <5>1. i \in 1..(Len(continued) - 1) /\ i + 1 \in 1..Len(continued)
          BY <4>2
        <5>. QED  BY <3>2, <5>1 DEF Spaced
      <4>. QED  BY <4>1, <4>2
    <3>5. RecordSound'
      <4>1. record'.last = now /\ now # NoTime /\ record'.count = record.count + 1
        BY <2>2, <2>3, <2>5, <2>9
      <4>2. continued'[Len(continued')] = now
        BY <3>2
      <4>3. Len(continued') <= record'.count
        BY <2>2, <3>2, <4>1 DEF RecordSound, Device!Record
      <4>4. grants' = IF record'.consumed THEN 1 ELSE 0
        BY <2>5, <2>6 DEF RecordSound
      <4>5. continued'[Len(continued')] <= record'.last
        BY <2>2, <4>1, <4>2
      <4>. QED  BY <4>1, <4>3, <4>4, <4>5 DEF RecordSound
    <3>6. Device!TypeOK'
      BY <2>5, <2>6, <2>7, <3>2 DEF Device!ValidRecord
    <3>. QED  BY <2>8, <3>4, <3>5, <3>6
  <2>10. CASE decision # "continue"
    <3>1. continued' = continued
      BY <1>3, <2>1, <2>a, <2>10 DEF Device!Commit
    <3>2. RecordSound'
      <4>1. continued # <<>> => record'.last # NoTime /\ continued[Len(continued)] <= record'.last
        <5>1. SUFFICES ASSUME continued # <<>>
                      PROVE  record'.last # NoTime /\ continued[Len(continued)] <= record'.last
          OBVIOUS
        <5>2. continued[Len(continued)] \in Nat
          BY <5>1
        <5>3. record.last \in Nat /\ continued[Len(continued)] <= record.last
          BY <2>2, <5>1 DEF RecordSound, Device!Record
        <5>4. s.last # NoTime /\ record.last <= s.last
          BY <2>3, <5>3
        <5>5. s.last \in Nat
          BY <2>3, <5>4 DEF Device!Record
        <5>. QED  BY <2>5, <5>2, <5>3, <5>4, <5>5
      <4>2. Len(continued) <= record'.count
        BY <2>2, <2>3, <2>5 DEF RecordSound, Device!Record
      <4>. QED  BY <2>5, <2>6, <3>1, <4>1, <4>2 DEF RecordSound
    <3>3. Device!TypeOK'
      BY <2>5, <2>6, <2>7, <3>1 DEF Device!ValidRecord
    <3>. QED  BY <2>8, <3>1, <3>2, <3>3 DEF Spaced
  <2>. QED  BY <2>9, <2>10
<1>4. ASSUME NEW p \in Pollers, Device!Pend(p) PROVE DeviceInv'
  <2>1. /\ poll' = [poll EXCEPT ![p] = Device!Idle] /\ poll[p].pc = "admitted"
        /\ UNCHANGED <<clock, record, lock, continued, grants>>
    BY <1>4 DEF Device!Pend
  <2>2. Device!TypeOK'
    BY <1>0, <2>1 DEF Device!ValidRecord
  <2>3. LockSound'
    BY <1>0, <2>1 DEF LockSound
  <2>. QED  BY <2>1, <2>2, <2>3 DEF RecordSound, Spaced
<1>5. ASSUME NEW p \in Pollers, Device!Consume(p) PROVE DeviceInv'
  <2>1. /\ poll' = [poll EXCEPT ![p] = Device!Idle] /\ poll[p].pc = "admitted" /\ lock = NoPoller
        /\ UNCHANGED <<clock, lock, continued>>
    BY <1>5 DEF Device!Consume, Device!RowFree
  <2>2. \/ /\ ~record.consumed /\ record' = [record EXCEPT !.consumed = TRUE]
           /\ grants' = grants + 1
        \/ UNCHANGED <<record, grants>>
    BY <1>5 DEF Device!Consume, Device!Consumable
  <2>3. /\ record' \in Device!Record /\ Device!ValidRecord(record') /\ grants' \in Nat
        /\ record'.last = record.last /\ record'.count = record.count
    <3>1. CASE record' = [record EXCEPT !.consumed = TRUE] /\ grants' = grants + 1
      <4>1. record \in Device!Record /\ Device!ValidRecord(record) /\ grants' \in Nat
        BY <3>1
      <4>2. record' \in Device!Record
        <5>. HIDE DEF DeviceInv, Device!TypeOK
        <5>. QED  BY <3>1, <4>1 DEF Device!Record
      <4>3. record'.last = record.last /\ record'.count = record.count
            /\ record'.interval = record.interval
        BY <3>1, <4>1 DEF Device!Record
      <4>. QED  BY <4>1, <4>2, <4>3 DEF Device!ValidRecord
    <3>2. CASE UNCHANGED <<record, grants>>
      BY <3>2 DEF Device!ValidRecord
    <3>. QED  BY <2>2, <3>1, <3>2
  <2>4. grants' = IF record'.consumed THEN 1 ELSE 0
    BY <2>2 DEF RecordSound, Device!Record
  <2>5. Device!TypeOK'
    BY <1>0, <2>1, <2>3 DEF Device!ValidRecord
  <2>6. LockSound'
    BY <1>0, <2>1 DEF LockSound
  <2>7. RecordSound'
    BY <2>1, <2>3, <2>4 DEF RecordSound
  <2>. QED  BY <2>1, <2>5, <2>6, <2>7 DEF Spaced
<1>6. ASSUME Device!Approve PROVE DeviceInv'
  <2>1. /\ record' = [record EXCEPT !.approved = TRUE] /\ lock = NoPoller
        /\ UNCHANGED <<clock, lock, poll, continued, grants>>
    BY <1>6 DEF Device!Approve
  <2>2. /\ record' \in Device!Record /\ Device!ValidRecord(record')
        /\ record'.last = record.last /\ record'.count = record.count
        /\ record'.consumed = record.consumed
    BY <2>1 DEF Device!Record, Device!ValidRecord
  <2>3. Device!TypeOK'
    BY <2>1, <2>2 DEF Device!ValidRecord
  <2>. QED  BY <2>1, <2>2, <2>3 DEF LockSound, RecordSound, Spaced
<1>7. ASSUME Device!Crash PROVE DeviceInv'
  <2>1. /\ poll' = [p \in Pollers |-> Device!Idle] /\ lock' = NoPoller
        /\ UNCHANGED <<clock, record, continued, grants>>
    BY <1>7 DEF Device!Crash
  <2>2. Device!TypeOK'
    BY <1>0, <2>1 DEF Device!ValidRecord
  <2>3. LockSound'
    BY <1>0, <2>1 DEF LockSound
  <2>. QED  BY <2>1, <2>2, <2>3 DEF RecordSound, Spaced
<1>8. ASSUME Device!Tick PROVE DeviceInv'
  <2>1. clock' \in Nat /\ UNCHANGED <<record, lock, poll, continued, grants>>
    BY <1>8 DEF Device!Tick
  <2>. QED  BY <2>1 DEF Device!ValidRecord, LockSound, RecordSound, Spaced
<1>9. CASE UNCHANGED deviceVars
  BY <1>9 DEF deviceVars, Device!ValidRecord, LockSound, RecordSound, Spaced
<1>. QED  BY <1>1, <1>2, <1>3, <1>4, <1>5, <1>6, <1>7, <1>8, <1>9 DEF Device!Next, Device!Step

LEMMA DeviceInvSound == DeviceInv => Device!PollingSound
<1>. SUFFICES ASSUME DeviceInv PROVE Device!PollingSound
  OBVIOUS
<1>1. record.count <= MaxPolls
  BY PartConstants DEF DeviceInv, Device!TypeOK, Device!ValidRecord, Device!PollingConstants
<1>2. Len(continued) <= record.count /\ grants <= 1
  BY DEF DeviceInv, RecordSound
<1>. QED  BY <1>1, <1>2 DEF DeviceInv, Spaced, Device!PollingSound

-----------------------------------------------------------------------------
(* Verdicts: what becomes of one measurement.                              *)

\* The row of a build, and the row of a test run that ended with e and wrote log.
CompileRow ==
  LET build == Verdict!Executed(compile.end)
      class == Verdict!ClassifyCompile(build, compile.log)
  IN [status |-> class, phase |-> "compile", compiled |-> class, build |-> build,
      test |-> Verdict!NoResult, counts |-> <<>>, summary |-> <<>>, aborted |-> build.unknown]
TestRow(e, log) ==
  LET result == Verdict!Checked(e, log) IN
  [status |-> Verdict!Verdict(result, log), phase |-> "test", compiled |-> "passed",
   build |-> Verdict!Executed(compile.end), test |-> result, counts |-> Verdict!Counts(log),
   summary |-> Verdict!Summary(log), aborted |-> result.unknown]

CompilePassed ==
  Verdict!ClassifyCompile(Verdict!Executed(compile.end), compile.log) = "passed"

\* What is tested was built, and the row says what the two executions and their logs say.
VerdictInv ==
  /\ job \in {"baseline", "mutant", "restored"} /\ compile \in Verdict!Compiles
  /\ pc = "compile" => row = Verdict!NoRow
  /\ pc = "test" => CompilePassed /\ row = CompileRow
  /\ pc = "recorded" =>
       \/ ~CompilePassed /\ row = CompileRow
       \/ /\ CompilePassed
          /\ \E e \in Verdict!Endings({0, 1, 2}), log \in Verdict!TestLogs :
               /\ test = [kind |-> "test", end |-> e, log |-> log]
               /\ row = TestRow(e, log)

LEMMA VerdictInit == Verdict!Init => VerdictInv
BY DEF Verdict!Init, VerdictInv

LEMMA VerdictStepKeeps == VerdictInv /\ [Verdict!Next]_verdictVars => VerdictInv'
<1>. SUFFICES ASSUME VerdictInv, [Verdict!Next]_verdictVars PROVE VerdictInv'
  OBVIOUS
<1>1. CASE Verdict!Compile
  <2>1. pc = "compile" /\ UNCHANGED <<job, compile, test>>
    BY <1>1 DEF Verdict!Compile
  <2>2. row' = CompileRow /\ pc' = IF CompilePassed THEN "test" ELSE "recorded"
    BY <1>1 DEF Verdict!Compile, CompileRow, CompilePassed, VerdictInv, Verdict!NoRow
  <2>3. CompileRow' = CompileRow /\ CompilePassed' = CompilePassed
    BY <2>1 DEF CompileRow, CompilePassed
  <2>. QED  BY <2>1, <2>2, <2>3 DEF VerdictInv
<1>2. CASE Verdict!Test
  <2>1. pc = "test" /\ pc' = "recorded" /\ UNCHANGED <<job, compile>>
    BY <1>2 DEF Verdict!Test
  <2>2. PICK e \in Verdict!Endings({0, 1, 2}), log \in Verdict!TestLogs :
          LET result == Verdict!Checked(e, log) IN
          /\ test' = [kind |-> "test", end |-> e, log |-> log]
          /\ row' = [row EXCEPT !.status = Verdict!Verdict(result, log), !.phase = "test",
                                !.test = result, !.counts = Verdict!Counts(log),
                                !.summary = Verdict!Summary(log),
                                !.aborted = result.unknown]
    BY <1>2 DEF Verdict!Test
  <2>3. CompilePassed /\ row = CompileRow
    BY <2>1 DEF VerdictInv
  <2>4. row' = TestRow(e, log)
    BY <2>2, <2>3 DEF CompileRow, TestRow, CompilePassed
  <2>5. TestRow(e, log)' = TestRow(e, log) /\ CompilePassed'
    BY <2>1, <2>3 DEF TestRow, CompilePassed, Verdict!Verdict
  <2>. QED  BY <2>1, <2>2, <2>4, <2>5 DEF VerdictInv
<1>3. CASE UNCHANGED verdictVars
  BY <1>3 DEF verdictVars, VerdictInv, CompileRow, CompilePassed, TestRow, Verdict!Verdict
<1>. QED  BY <1>1, <1>2, <1>3 DEF Verdict!Next

LEMMA PassedCompile ==
  ASSUME NEW result, NEW log, Verdict!ClassifyCompile(result, log) = "passed"
  PROVE  /\ ~result.timed_out /\ ~result.unknown
         /\ result.exit = 0 /\ log.completed = Builds /\ ~log.warned
<1>1. ~result.timed_out
  BY DEF Verdict!ClassifyCompile
<1>2. ~result.unknown
  BY <1>1 DEF Verdict!ClassifyCompile
<1>3. result.exit = 0 /\ log.completed = Builds /\ ~log.warned
  BY <1>1, <1>2, Zenon DEF Verdict!ClassifyCompile
<1>. QED  BY <1>1, <1>2, <1>3

\* A build that passed ended by itself, and its log is a clean one.
LEMMA PassedBuild ==
  ASSUME compile \in Verdict!Compiles, CompilePassed
  PROVE  /\ compile.end = [bound |-> "ended", exit |-> 0]
         /\ compile.log = [completed |-> Builds, warned |-> FALSE]
         /\ Verdict!Executed(compile.end) = Verdict!Clean
         /\ Verdict!ClassifyCompile(Verdict!Clean, compile.log) = "passed"
<1>1. PICK end \in Verdict!Endings({0, 1}), log \in Verdict!CompileLogs :
        compile = [end |-> end, log |-> log]
  BY DEF Verdict!Compiles
<1>2. PICK bound, exit : end = [bound |-> bound, exit |-> exit]
  BY DEF Verdict!Endings
<1>3. /\ ~Verdict!Executed(end).timed_out /\ ~Verdict!Executed(end).unknown
      /\ Verdict!Executed(end).exit = 0 /\ log.completed = Builds /\ ~log.warned
  <2>1. Verdict!ClassifyCompile(Verdict!Executed(end), log) = "passed"
    BY <1>1 DEF CompilePassed
  <2>. QED  BY <2>1, PassedCompile
<1>4. bound = "ended" /\ exit = 0
  BY <1>2, <1>3 DEF Verdict!Executed
<1>5. log = [completed |-> Builds, warned |-> FALSE]
  BY <1>3 DEF Verdict!CompileLogs
<1>6. Verdict!Executed(end) = Verdict!Clean
  BY <1>2, <1>4 DEF Verdict!Executed, Verdict!Clean
<1>. QED  BY <1>1, <1>2, <1>4, <1>5, <1>6 DEF CompilePassed

\* An execution that was killed is not a contained one.
LEMMA EndedFlags ==
  ASSUME NEW exits, exits \in {{0, 1}, {0, 1, 2}}, NEW e \in Verdict!Endings(exits)
  PROVE  Verdict!FlagsHold(Verdict!Executed(e))
<1>1. PICK bound, exit : e = [bound |-> bound, exit |-> exit]
  BY DEF Verdict!Endings
<1>2. bound \in {"ended", "timed_out", "overflow"} /\ (bound = "ended" => exit \in {0, 1, 2})
  BY <1>1 DEF Verdict!Endings
<1>3. /\ Verdict!Executed(e).timed_out <=> bound = "timed_out"
      /\ Verdict!Executed(e).overflow <=> bound = "overflow"
      /\ Verdict!Executed(e).unknown <=> bound # "ended"
      /\ Verdict!Executed(e).exit = exit
  BY <1>1 DEF Verdict!Executed
<1>4. exit = Verdict!NoExit => bound # "ended"
  BY <1>2 DEF Verdict!NoExit
<1>. QED  BY <1>3, <1>4 DEF Verdict!FlagsHold

LEMMA CheckedSound ==
  ASSUME NEW e \in Verdict!Endings({0, 1, 2}), NEW log \in Verdict!TestLogs
  PROVE  /\ Verdict!FlagsHold(Verdict!Checked(e, log))
         /\ Verdict!Checked(e, log).exit = e.exit
         /\ ~Verdict!Checked(e, log).unknown =>
              /\ e = [bound |-> "ended", exit |-> e.exit]
              /\ Verdict!Checked(e, log) = Verdict!Executed(e)
              /\ log.kind = "driver" => ~Verdict!DriverTimedOut(log) /\ ~log.unknown
<1>. DEFINE x == Verdict!Executed(e)
<1>1. PICK bound, exit : e = [bound |-> bound, exit |-> exit]
  BY DEF Verdict!Endings
<1>2. x = [timed_out |-> bound = "timed_out", overflow |-> bound = "overflow",
           unknown |-> bound # "ended", exit |-> exit]
  BY <1>1 DEF Verdict!Executed
<1>3. Verdict!FlagsHold(x) /\ (~x.unknown => bound = "ended")
  <2>1. {0, 1, 2} \in {{0, 1}, {0, 1, 2}}
    OBVIOUS
  <2>2. Verdict!FlagsHold(x)
    BY <2>1, EndedFlags
  <2>3. x.unknown = (bound # "ended")
    BY <1>2
  <2>. QED  BY <2>2, <2>3
<1>4. CASE log.kind = "driver" /\ (Verdict!DriverTimedOut(log) \/ log.unknown)
  <2>1. Verdict!Checked(e, log) = [timed_out |-> x.timed_out \/ Verdict!DriverTimedOut(log),
                                   overflow |-> x.overflow, unknown |-> TRUE, exit |-> x.exit]
    BY <1>2, <1>4 DEF Verdict!Checked
  <2>. QED  BY <1>1, <1>2, <2>1 DEF Verdict!FlagsHold
<1>5. CASE ~(log.kind = "driver" /\ (Verdict!DriverTimedOut(log) \/ log.unknown))
  <2>1. Verdict!Checked(e, log) = x
    BY <1>5 DEF Verdict!Checked
  <2>2. Verdict!FlagsHold(Verdict!Checked(e, log)) /\ Verdict!Checked(e, log).exit = e.exit
    BY <1>1, <1>2, <1>3, <2>1
  <2>3. ~x.unknown => e = [bound |-> "ended", exit |-> e.exit]
    BY <1>1, <1>3
  <2>. HIDE DEF x
  <2>4. log.kind = "driver" => ~Verdict!DriverTimedOut(log) /\ ~log.unknown
    BY <1>5
  <2>. QED  BY <2>1, <2>2, <2>3, <2>4 DEF x
<1>. QED  BY <1>4, <1>5

\* The totals of a log that a driver wrote are those of its two groups.
LEMMA DriverLog ==
  ASSUME NEW log \in Verdict!TestLogs, log.kind = "driver"
  PROVE  /\ log.groups \in [1..2 -> Verdict!Group]
         /\ Verdict!Total(log, "tests") = log.groups[1].tests + log.groups[2].tests
         /\ Verdict!Total(log, "failures") = log.groups[1].failures + log.groups[2].failures
         /\ Verdict!Total(log, "errors") = log.groups[1].errors + log.groups[2].errors
<1>1. log.groups \in [1..2 -> Verdict!Group]
  BY DEF Verdict!TestLogs
<1>2. DOMAIN log.groups # {1}
  BY <1>1
<1>. QED  BY <1>1, <1>2 DEF Verdict!Total

\* What a mutant is killed or survives by.
LEMMA ClassifiedTest ==
  ASSUME NEW result, NEW log,
         Verdict!ClassifyTest(result, log) \in {"killed", "survived"}
  PROVE  /\ ~result.timed_out /\ ~result.unknown
         /\ Verdict!BaselineTests(log) /\ log.asserted
         /\ ~(Verdict!Total(log, "errors") > 0)
         /\ log.kind = "driver" =>
              ~log.warned /\ log.plan = "own" /\ ~Verdict!DriverTimedOut(log) /\ ~log.unknown
         /\ Verdict!ClassifyTest(result, log) = "killed" =>
              Verdict!Total(log, "failures") > 0 /\ result.exit = 1
         /\ Verdict!ClassifyTest(result, log) = "survived" =>
              Verdict!Total(log, "failures") = 0 /\ result.exit = 0
BY DEF Verdict!ClassifyTest, Verdict!Countable

LEMMA KillCounts == VerdictInv => Verdict!KillsByAssertion
<1>. SUFFICES ASSUME VerdictInv, Verdict!Recorded, job = "mutant", Verdict!Eligible
              PROVE  Verdict!KillsByAssertion
  BY DEF Verdict!KillsByAssertion
<1>1. row.phase = "test" /\ row.status = "killed" /\ row.summary # <<>>
  BY DEF Verdict!Eligible
<1>2. row # CompileRow
  BY <1>1 DEF CompileRow
<1>3. CompilePassed /\ compile \in Verdict!Compiles
  BY <1>2 DEF VerdictInv, Verdict!Recorded
<1>4. PICK e \in Verdict!Endings({0, 1, 2}), log \in Verdict!TestLogs :
        test = [kind |-> "test", end |-> e, log |-> log] /\ row = TestRow(e, log)
  BY <1>2 DEF VerdictInv, Verdict!Recorded
<1>. DEFINE result == Verdict!Checked(e, log)
<1>5. Verdict!ClassifyTest(result, log) = "killed" /\ log.kind = "driver"
  BY <1>1, <1>4 DEF TestRow, Verdict!Verdict, Verdict!Summary
<1>6. /\ ~result.unknown /\ result.exit = 1 /\ Verdict!BaselineTests(log) /\ log.asserted
      /\ ~log.warned /\ ~log.unknown /\ ~Verdict!DriverTimedOut(log)
      /\ Verdict!Total(log, "failures") > 0 /\ ~(Verdict!Total(log, "errors") > 0)
  BY <1>5, ClassifiedTest
<1>7. compile = [end |-> [bound |-> "ended", exit |-> 0],
                 log |-> [completed |-> Builds, warned |-> FALSE]]
  BY <1>3, PassedBuild DEF Verdict!Compiles
<1>8. test.end = [bound |-> "ended", exit |-> 1]
  BY <1>4, <1>6, CheckedSound
<1>9. /\ log.groups[1].tests + log.groups[2].tests = Planned[1] + Planned[2]
      /\ \A g \in 1..2 : log.groups[g].errors = 0
      /\ log.groups[1].failures > 0 \/ log.groups[2].failures > 0
  <2>1. \A g \in 1..2 : log.groups[g].failures \in {0, 1} /\ log.groups[g].errors \in {0, 1}
    BY <1>5, DriverLog DEF Verdict!Group
  <2>2. log.groups[1].tests + log.groups[2].tests = Planned[1] + Planned[2]
    BY <1>5, <1>6, DriverLog DEF Verdict!BaselineTests
  <2>3. \A g \in 1..2 : log.groups[g].errors = 0
    BY <1>5, <1>6, <2>1, DriverLog
  <2>4. log.groups[1].failures > 0 \/ log.groups[2].failures > 0
    BY <1>5, <1>6, <2>1, DriverLog
  <2>. QED  BY <2>2, <2>3, <2>4
<1>10. \A g \in 1..2 : ~log.groups[g].timed_out
  BY <1>5, <1>6, DriverLog DEF Verdict!DriverTimedOut
<1>11. ~(log.groups[2].failures > 0 /\ log.observed)
  BY <1>4 DEF Verdict!Eligible, Verdict!Protocol
<1>12. \E g \in 1..2 : log.groups[g].failures > 0 /\ (g = Verdict!Protocol => ~log.observed)
  BY <1>9, <1>11 DEF Verdict!Protocol
<1>13. test.log = log
  BY <1>4
<1>. QED  BY <1>6, <1>7, <1>8, <1>9, <1>10, <1>12, <1>13 DEF Verdict!KillsByAssertion

LEMMA Agreement == VerdictInv => Verdict!ValidatorsAgree
<1>. SUFFICES ASSUME VerdictInv, Verdict!Recorded PROVE Verdict!ValidatorsAgree
  BY DEF Verdict!ValidatorsAgree
<1>0. PICK end \in Verdict!Endings({0, 1}), log \in Verdict!CompileLogs :
        compile = [end |-> end, log |-> log]
  BY DEF VerdictInv, Verdict!Compiles
<1>1. Verdict!FlagsHold(Verdict!Executed(compile.end))
  BY <1>0, EndedFlags
<1>2. CASE ~CompilePassed /\ row = CompileRow
  <2>1. row.status # "passed"
    BY <1>2 DEF CompilePassed, CompileRow
  <2>2. /\ row.build = Verdict!Executed(compile.end)
        /\ row.compiled = Verdict!ClassifyCompile(row.build, compile.log) /\ row.compiled # "passed"
        /\ row.phase = "compile" /\ row.status = row.compiled /\ row.aborted = row.build.unknown
    BY <1>2 DEF CompileRow, CompilePassed
  <2>3. row.build.unknown \in BOOLEAN
    BY <2>2 DEF Verdict!Executed
  <2>4. row.aborted = (row.build.unknown \/ (row.phase = "test" /\ row.test.unknown))
    BY <2>2, <2>3
  <2>5. Verdict!Rederived
    BY <1>1, <2>2, <2>4 DEF Verdict!Rederived
  <2>. QED  BY <2>1, <2>5 DEF Verdict!ValidatorsAgree
<1>3. ASSUME CompilePassed, NEW e \in Verdict!Endings({0, 1, 2}), NEW tlog \in Verdict!TestLogs,
             test = [kind |-> "test", end |-> e, log |-> tlog], row = TestRow(e, tlog)
      PROVE  Verdict!ValidatorsAgree
  <2>. DEFINE result == Verdict!Checked(e, tlog)
  <2>1. /\ Verdict!Executed(compile.end) = Verdict!Clean
        /\ Verdict!ClassifyCompile(Verdict!Clean, compile.log) = "passed"
    BY <1>3, PassedBuild DEF VerdictInv
  <2>2. test.log = tlog /\ row.status = Verdict!Verdict(result, tlog)
    BY <1>3 DEF TestRow
  <2>3. CASE job = "mutant"
    <3>1. /\ row.build = Verdict!Clean /\ row.compiled = "passed" /\ row.phase = "test"
          /\ row.test = result /\ row.counts = Verdict!Counts(tlog)
          /\ row.summary = Verdict!Summary(tlog) /\ row.aborted = result.unknown
          /\ row.status = Verdict!ClassifyTest(result, tlog)
      BY <1>3, <2>1, <2>3 DEF TestRow, Verdict!Verdict
    <3>a. Verdict!FlagsHold(result)
      BY CheckedSound
    <3>b. Verdict!FlagsHold(Verdict!Clean) /\ ~Verdict!Clean.unknown
      BY DEF Verdict!FlagsHold, Verdict!Clean, Verdict!NoExit
    <3>2. Verdict!FlagsHold(result) /\ Verdict!FlagsHold(Verdict!Clean) /\ ~Verdict!Clean.unknown
      BY <3>a, <3>b
    <3>3. result.unknown \in BOOLEAN
      BY DEF Verdict!Checked, Verdict!Executed
    <3>4. Verdict!Rederived
      BY <2>1, <2>2, <3>1, <3>2, <3>3 DEF Verdict!Rederived
    <3>. QED  BY <2>3, <3>4 DEF Verdict!ValidatorsAgree
  <2>4. CASE job = "baseline"
    <3>1. SUFFICES ASSUME row.status = "passed" PROVE Verdict!CleanBaseline
      BY <2>4 DEF Verdict!ValidatorsAgree
    <3>2. ~result.unknown /\ Verdict!CleanCounts(tlog)
      BY <2>2, <2>4, <3>1 DEF Verdict!Verdict
    <3>3. ~Verdict!DriverTimedOut(tlog) /\ ~tlog.unknown
      BY <3>2, CheckedSound DEF Verdict!CleanCounts
    <3>. QED  BY <2>1, <2>2, <2>4, <3>2, <3>3 DEF Verdict!CleanBaseline
  <2>5. CASE job = "restored"
    <3>1. SUFFICES ASSUME row.status = "passed" PROVE Verdict!CleanBaseline <=> Verdict!EveryGroup
      BY <2>5 DEF Verdict!ValidatorsAgree
    <3>2. Verdict!RestoredClean(result, tlog)
      BY <2>2, <2>5, <3>1 DEF Verdict!Verdict
    <3>3. /\ Verdict!ClassifyTest(result, tlog) = "survived" /\ Verdict!Countable(tlog)
          /\ tlog.asserted /\ Verdict!BaselineTests(tlog) /\ ~result.unknown /\ result.exit = 0
          /\ Verdict!Total(tlog, "failures") = 0 /\ Verdict!Total(tlog, "errors") = 0
      BY <3>2 DEF Verdict!RestoredClean
    <3>4. tlog.kind = "driver" =>
            tlog.plan = "own" /\ ~Verdict!DriverTimedOut(tlog) /\ ~tlog.unknown
      BY <3>3, ClassifiedTest
    <3>5. result = Verdict!Clean
      BY <3>3, CheckedSound DEF Verdict!Executed, Verdict!Clean
    <3>6. Verdict!Total(tlog, "tests") > 0
      <4>1. Planned[1] \in Nat /\ Planned[1] > 0 /\ Planned[2] \in Nat /\ Planned[2] > 0
        BY PartConstants DEF Verdict!VerdictConstants
      <4>. QED  BY <3>3, <4>1 DEF Verdict!BaselineTests
    <3>7. tlog.kind = "driver" => Verdict!CleanCounts(tlog)
      BY <3>3, <3>4, <3>6 DEF Verdict!CleanCounts
    <3>8. Verdict!EveryGroup => Verdict!CleanBaseline
      BY <2>1, <2>2, <3>3, <3>4, <3>5, <3>7 DEF Verdict!EveryGroup, Verdict!CleanBaseline
    <3>9. Verdict!CleanBaseline => Verdict!EveryGroup
      BY <2>2, <2>5 DEF Verdict!EveryGroup, Verdict!CleanBaseline, Verdict!CleanCounts
    <3>. QED  BY <3>8, <3>9
  <2>. QED  BY <2>3, <2>4, <2>5 DEF VerdictInv
<1>. QED  BY <1>2, <1>3 DEF VerdictInv, Verdict!Recorded

-----------------------------------------------------------------------------
(* ExternalHarness: the copy a campaign executes.                          *)

\* Nobody but the process writes what it selected, so that of a path which has become
\* something else while the command reads, nothing but another edit remains.
Steady ==
  proc.pc \in {"read", "after"} =>
    \A p \in Harness!Paths :
      /\ disk[p] \in {Harness!Selected(p), "foreign", Harness!NoFile}
      /\ p \in DOMAIN proc.seen =>
           proc.seen[p] = Harness!Selected(p) \/ disk[p] # Harness!Selected(p)

HarnessInv ==
  /\ app \in [Harness!Paths -> Harness!Blobs] /\ harness \in [Harness!Paths -> Harness!Blobs]
  /\ DOMAIN disk = Harness!Paths \union Harness!Fixed
  /\ DOMAIN proc = {"pc", "left", "open", "seen"}
  /\ Steady
  /\ proc.pc = "after" => DOMAIN proc.seen = Harness!Paths
  /\ measured # {} => Harness!Changed = Expected
  /\ \A seen \in measured, p \in Harness!Paths : seen[p] = Harness!Selected(p)

LEMMA SelectedKinds ==
  ASSUME HarnessInv
  PROVE  /\ \A p \in Harness!Paths : Harness!Selected(p) # "foreign"
         /\ Harness!Changed = Expected =>
              \A p \in Harness!Paths :
                Harness!Selected(p) =
                  CASE p \in Sources -> IF app[p] = Harness!NoFile THEN Harness!NoFile ELSE Harness!Live
                    [] p \in Others  -> app[p]
                    [] OTHER         -> harness[p]
<1>. USE PartConstants DEF Harness!HarnessConstants, Harness!Paths, HarnessInv
<1>1. ASSUME NEW p \in Harness!Paths PROVE Harness!Selected(p) # "foreign"
  <2>1. app[p] \in Harness!Blobs /\ harness[p] \in Harness!Blobs
    OBVIOUS
  <2>2. "foreign" \notin Harness!Blobs
    BY DEF Harness!Blobs, Harness!NoFile
  <2>3. Harness!Selected(p) \in {Harness!Live, app[p], harness[p]}
    BY DEF Harness!Selected
  <2>. QED  BY <2>1, <2>2, <2>3 DEF Harness!Live
<1>2. ASSUME Harness!Changed = Expected, NEW p \in Harness!Paths
      PROVE  Harness!Selected(p) =
               CASE p \in Sources -> IF app[p] = Harness!NoFile THEN Harness!NoFile ELSE Harness!Live
                 [] p \in Others  -> app[p]
                 [] OTHER         -> harness[p]
  <2>1. p \notin Expected => app[p] = harness[p]
    BY <1>2 DEF Harness!Changed
  <2>2. CASE p \in Sources
    BY <2>2 DEF Harness!Selected
  <2>3. CASE p \in Others
    BY <2>3 DEF Harness!Selected
  <2>4. CASE p \in Tests
    BY <2>4 DEF Harness!Selected
  <2>5. CASE p \in Support
    BY <2>1, <2>5 DEF Harness!Selected
  <2>. QED  BY <2>2, <2>3, <2>4, <2>5
<1>. QED  BY <1>1, <1>2

LEMMA HarnessInit == Harness!Init => HarnessInv
<1>. SUFFICES ASSUME Harness!Init PROVE HarnessInv
  OBVIOUS
<1>1. DOMAIN disk = Harness!Paths \union Harness!Fixed
  BY DEF Harness!Init, Harness!Empty
<1>2. DOMAIN proc = {"pc", "left", "open", "seen"} /\ proc.pc = "off" /\ measured = {}
  BY DEF Harness!Init, Harness!Off
<1>. QED  BY <1>1, <1>2 DEF Harness!Init, HarnessInv, Steady

\* A process that is elsewhere than in the command has nothing to keep.
LEMMA ElsewhereKeeps ==
  ASSUME HarnessInv, UNCHANGED <<app, harness, measured>>,
         DOMAIN disk' = DOMAIN disk, DOMAIN proc' = DOMAIN proc, proc'.pc \notin {"read", "after"}
  PROVE  HarnessInv'
BY DEF HarnessInv, Steady, Harness!Changed, Harness!Selected

LEMMA HarnessStepKeeps == HarnessInv /\ [Harness!Next]_harnessVars => HarnessInv'
<1>. SUFFICES ASSUME HarnessInv, [Harness!Next]_harnessVars PROVE HarnessInv'
  OBVIOUS
<1>. USE DEF Harness!Stays
<1>0. ASSUME NEW pc0, Harness!To(pc0)
      PROVE  DOMAIN proc' = DOMAIN proc /\ proc'.pc = pc0 /\ proc'.seen = [p \in {} |-> Harness!NoFile]
  BY <1>0 DEF Harness!To, Harness!Off, HarnessInv
<1>1. CASE Harness!Prepare
  <2>1. DOMAIN proc' = DOMAIN proc /\ proc'.pc \in {"check", "fill"}
    BY <1>1 DEF Harness!Prepare, Harness!Off, HarnessInv
  <2>. QED  BY <1>1, <2>1, ElsewhereKeeps DEF Harness!Prepare
<1>2. CASE Harness!Check
  <2>1. DOMAIN proc' = DOMAIN proc /\ proc'.pc \in {"ready", "off"}
    BY <1>0, <1>2 DEF Harness!Check
  <2>. QED  BY <1>2, <2>1, ElsewhereKeeps DEF Harness!Check
<1>3. CASE Harness!Before
  <2>1. UNCHANGED <<app, harness, disk, measured>>
    BY <1>3 DEF Harness!Before
  <2>2. CASE Harness!Valid
    <3>1. DOMAIN proc' = DOMAIN proc /\ proc'.pc = "read" /\ proc'.seen = [p \in {} |-> Harness!NoFile]
      BY <1>0, <1>3, <2>2 DEF Harness!Before
    <3>2. \A p \in Harness!Paths : disk[p] = Harness!Selected(p)
      BY <2>2 DEF Harness!Valid
    <3>3. Steady'
      BY <2>1, <3>1, <3>2 DEF Steady, Harness!Selected
    <3>. QED  BY <2>1, <3>1, <3>3 DEF HarnessInv, Harness!Changed, Harness!Selected
  <2>3. CASE ~Harness!Valid
    <3>1. DOMAIN proc' = DOMAIN proc /\ proc'.pc = "off"
      BY <1>0, <1>3, <2>3 DEF Harness!Before
    <3>. QED  BY <2>1, <3>1, ElsewhereKeeps
  <2>. QED  BY <2>2, <2>3
<1>4. CASE Harness!ReadInput
  <2>1. UNCHANGED <<app, harness, disk, measured>> /\ proc.pc = "read"
    BY <1>4 DEF Harness!ReadInput
  <2>2. PICK p \in Harness!Paths :
          proc' = [proc EXCEPT !.seen =
                     [q \in DOMAIN proc.seen \union {p} |-> IF q = p THEN disk[p] ELSE proc.seen[q]]]
    BY <1>4 DEF Harness!ReadInput
  <2>3. /\ DOMAIN proc' = DOMAIN proc /\ proc'.pc = "read"
        /\ proc'.seen = [q \in DOMAIN proc.seen \union {p} |-> IF q = p THEN disk[p] ELSE proc.seen[q]]
    BY <2>1, <2>2 DEF HarnessInv
  <2>4. Steady'
    <3>1. \A q \in Harness!Paths : Harness!Selected(q)' = Harness!Selected(q)
      BY <2>1 DEF Harness!Selected
    <3>2. \A q \in Harness!Paths : disk[q] \in {Harness!Selected(q), "foreign", Harness!NoFile}
      BY <2>1 DEF HarnessInv, Steady
    <3>3. ASSUME NEW q \in Harness!Paths, q \in DOMAIN proc'.seen
          PROVE  proc'.seen[q] = Harness!Selected(q) \/ disk[q] # Harness!Selected(q)
      BY <2>1, <2>3, <3>3 DEF HarnessInv, Steady
    <3>. QED  BY <2>1, <3>1, <3>2, <3>3 DEF Steady
  <2>. QED  BY <2>1, <2>3, <2>4 DEF HarnessInv, Harness!Changed, Harness!Selected
<1>5. CASE Harness!Compiled
  <2>1. /\ UNCHANGED <<app, harness, measured>> /\ proc.pc = "read" /\ DOMAIN proc.seen = Harness!Paths
        /\ disk' = [disk EXCEPT !["target"] = "built"] /\ proc' = [proc EXCEPT !.pc = "after"]
    BY <1>5 DEF Harness!Compiled
  <2>2. DOMAIN proc' = DOMAIN proc /\ proc'.pc = "after" /\ proc'.seen = proc.seen
    BY <2>1 DEF HarnessInv
  <2>3. DOMAIN disk' = DOMAIN disk /\ \A p \in Harness!Paths : disk'[p] = disk[p]
    BY <2>1, PartConstants DEF Harness!HarnessConstants, Harness!Fixed
  <2>4. Steady'
    BY <2>1, <2>2, <2>3 DEF HarnessInv, Steady, Harness!Selected
  <2>. QED  BY <2>1, <2>2, <2>3, <2>4 DEF HarnessInv, Harness!Changed, Harness!Selected
<1>6. CASE Harness!Measure
  <2>1. UNCHANGED <<app, harness, disk>> /\ proc.pc = "after"
    BY <1>6 DEF Harness!Measure
  <2>2. CASE Harness!Valid
    <3>1. /\ DOMAIN proc' = DOMAIN proc /\ proc'.pc = "ready"
          /\ measured' = measured \union {proc.seen}
      BY <1>0, <1>6, <2>2 DEF Harness!Measure, Harness!ValidAfter
    <3>2. Harness!Changed = Expected /\ \A p \in Harness!Paths : disk[p] = Harness!Selected(p)
      BY <2>2 DEF Harness!Valid, Harness!Accepted
    <3>3. \A p \in Harness!Paths : proc.seen[p] = Harness!Selected(p)
      BY <2>1, <3>2 DEF HarnessInv, Steady
    <3>4. Steady'
      BY <3>1 DEF Steady
    <3>. QED  BY <2>1, <3>1, <3>2, <3>3, <3>4 DEF HarnessInv, Harness!Changed, Harness!Selected
  <2>3. CASE ~Harness!Valid
    <3>1. DOMAIN proc' = DOMAIN proc /\ proc'.pc = "off" /\ UNCHANGED measured
      BY <1>0, <1>6, <2>3 DEF Harness!Measure, Harness!ValidAfter
    <3>. QED  BY <2>1, <3>1, ElsewhereKeeps
  <2>. QED  BY <2>2, <2>3
<1>7. CASE Harness!Die
  <2>1. DOMAIN proc' = DOMAIN proc /\ proc'.pc = "off"
    BY <1>0, <1>7 DEF Harness!Die
  <2>. QED  BY <1>7, <2>1, ElsewhereKeeps DEF Harness!Die
<1>8. CASE Harness!Edit
  <2>1. UNCHANGED <<app, harness, proc, measured>>
    BY <1>8 DEF Harness!Edit
  <2>2. PICK n \in (Harness!Paths \union Harness!Fixed) \ {"target"}, value \in {"foreign", Harness!NoFile} :
          disk[n] \notin {value, "foreign"} /\ disk' = [disk EXCEPT ![n] = value]
    BY <1>8 DEF Harness!Edit
  <2>3. DOMAIN disk' = DOMAIN disk
    BY <2>2
  <2>4. Steady'
    <3>1. SUFFICES ASSUME proc.pc \in {"read", "after"}, NEW p \in Harness!Paths
                   PROVE  /\ disk'[p] \in {Harness!Selected(p), "foreign", Harness!NoFile}
                          /\ p \in DOMAIN proc.seen =>
                               proc.seen[p] = Harness!Selected(p) \/ disk'[p] # Harness!Selected(p)
      BY <2>1 DEF Steady, Harness!Selected
    <3>2. /\ disk[p] \in {Harness!Selected(p), "foreign", Harness!NoFile}
          /\ p \in DOMAIN proc.seen =>
               proc.seen[p] = Harness!Selected(p) \/ disk[p] # Harness!Selected(p)
      BY <3>1 DEF HarnessInv, Steady
    <3>3. CASE p # n
      BY <2>2, <3>2, <3>3
    <3>4. CASE p = n
      <4>1. disk'[p] = value
        BY <2>2, <3>4 DEF HarnessInv
      <4>2. disk[p] = Harness!Selected(p) \/ disk[p] = Harness!NoFile
        BY <2>2, <3>2, <3>4
      <4>3. value # Harness!Selected(p)
        <5>1. Harness!Selected(p) # "foreign"
          BY SelectedKinds
        <5>2. value = Harness!NoFile => disk[p] = Harness!Selected(p) /\ disk[p] # value
          BY <2>2, <3>4, <4>2
        <5>. QED  BY <5>1, <5>2
      <4>. QED  BY <4>1, <4>3
    <3>. QED  BY <3>3, <3>4
  <2>. QED  BY <2>1, <2>3, <2>4 DEF HarnessInv, Harness!Changed, Harness!Selected
<1>9. ASSUME NEW n \in Harness!Paths \union Harness!Fixed, Harness!Create(n) PROVE HarnessInv'
  <2>1. UNCHANGED <<app, harness, measured>> /\ proc.pc = "fill"
    BY <1>9 DEF Harness!Create
  <2>2. DOMAIN disk' = DOMAIN disk
    BY <1>9 DEF Harness!Create
  <2>3. DOMAIN proc' = DOMAIN proc /\ proc'.pc \in {"off", "fill", "write"}
    BY <1>0, <1>9, <2>1 DEF Harness!Create, HarnessInv
  <2>. QED  BY <2>1, <2>2, <2>3, ElsewhereKeeps
<1>10. ASSUME NEW n \in Harness!Paths \union Harness!Fixed, Harness!Write(n) PROVE HarnessInv'
  <2>1. UNCHANGED <<app, harness, measured>> /\ DOMAIN disk' = DOMAIN disk
    BY <1>10 DEF Harness!Write
  <2>2. DOMAIN proc' = DOMAIN proc /\ proc'.pc \in {"check", "fill"}
    BY <1>10 DEF Harness!Write, HarnessInv
  <2>. QED  BY <2>1, <2>2, ElsewhereKeeps
<1>11. CASE UNCHANGED harnessVars
  BY <1>11 DEF harnessVars, HarnessInv, Steady, Harness!Changed, Harness!Selected
<1>. QED
  BY <1>1, <1>2, <1>3, <1>4, <1>5, <1>6, <1>7, <1>8, <1>9, <1>10, <1>11 DEF Harness!Next

LEMMA HarnessInvExact == HarnessInv => Harness!HarnessExact
<1>. SUFFICES ASSUME HarnessInv, measured # {} PROVE Harness!HarnessExact
  BY DEF Harness!HarnessExact
<1>1. Harness!Changed = Expected
  BY DEF HarnessInv
<1>2. \A p \in Harness!Paths : app[p] # harness[p] <=> p \in Expected
  BY <1>1 DEF Harness!Changed
<1>3. ASSUME NEW seen \in measured, NEW p \in Harness!Paths
      PROVE  CASE p \in Sources -> seen[p] = IF app[p] = Harness!NoFile THEN Harness!NoFile ELSE Harness!Live
               [] p \in Others  -> seen[p] = app[p]
               [] OTHER         -> seen[p] = harness[p]
  <2>. USE PartConstants DEF Harness!HarnessConstants
  <2>1. seen[p] = Harness!Selected(p)
    BY DEF HarnessInv
  <2>2. Harness!Selected(p) =
          CASE p \in Sources -> IF app[p] = Harness!NoFile THEN Harness!NoFile ELSE Harness!Live
            [] p \in Others  -> app[p]
            [] OTHER         -> harness[p]
    BY <1>1, SelectedKinds
  <2>. HIDE DEF Harness!HarnessExact
  <2>3. CASE p \in Sources
    BY <2>1, <2>2, <2>3
  <2>4. CASE p \in Others
    BY <2>1, <2>2, <2>4
  <2>5. CASE p \notin Sources /\ p \notin Others
    BY <2>1, <2>2, <2>5
  <2>. QED  BY <2>3, <2>4, <2>5
<1>. QED  BY <1>2, <1>3 DEF Harness!HarnessExact

-----------------------------------------------------------------------------
(* ActorPages: the pages of the actor list.                                *)

\* The numbers are well founded: a set of them that is not empty has a least one, and a
\* finite one has a greatest.
LEMMA LeastNumber ==
  ASSUME NEW S, S \subseteq Nat, S # {}
  PROVE  \E x \in S : \A y \in S : x <= y
<1>. DEFINE R == OpToRel(<, Nat)
<1>1. IsWellFoundedOn(R, Nat)
  BY NatLessThanWellFounded
<1>2. \A x, y \in Nat : x < y => <<x, y>> \in R
  BY DEF OpToRel
<1>. HIDE DEF R
<1>3. PICK x \in S : \A y \in S : ~(<<y, x>> \in R)
  BY <1>1, WFMin
<1>4. ASSUME NEW y \in S PROVE x <= y
  <2>1. ~(y < x)
    BY <1>2, <1>3
  <2>. QED  BY <2>1
<1>. QED  BY <1>4

LEMMA GreatestNumber ==
  ASSUME NEW S, S \subseteq Nat, S # {}, NEW bound \in Nat, \A x \in S : x <= bound
  PROVE  \E x \in S : \A y \in S : y <= x
<1>. DEFINE T == {j \in Nat : \E x \in S : j = bound - x}
<1>1. T \subseteq Nat /\ T # {}
  <2>1. PICK x \in S : TRUE
    OBVIOUS
  <2>2. bound - x \in T
    BY <2>1
  <2>. QED  BY <2>2
<1>. HIDE DEF T
<1>2. PICK j \in T : \A i \in T : j <= i
  BY <1>1, LeastNumber
<1>. USE DEF T
<1>3. PICK x \in S : j = bound - x
  BY <1>2
<1>4. ASSUME NEW y \in S PROVE y <= x
  <2>1. bound - y \in T
    OBVIOUS
  <2>2. j <= bound - y
    BY <1>2, <2>1
  <2>. QED  BY <1>3, <2>2
<1>. QED  BY <1>4

LEMMA SameCardinality == ASSUME NEW S PROVE Pages!Cardinality(S) = Cardinality(S)
BY DEF Pages!Cardinality, Cardinality

\* A page: no more actors than asked for, all there are if they are fewer, and with
\* every actor the newer ones.
LEMMA NewestPage ==
  ASSUME NEW S, S \subseteq Pages!Actors, IsFiniteSet(S), NEW n \in Nat, n > 0
  PROVE  /\ Pages!Newest(S, n) \subseteq S
         /\ IsFiniteSet(Pages!Newest(S, n)) /\ Cardinality(Pages!Newest(S, n)) \in Nat
         /\ Cardinality(Pages!Newest(S, n)) <= n
         /\ Cardinality(Pages!Newest(S, n)) < n => Pages!Newest(S, n) = S
         /\ \A a \in S, b \in Pages!Newest(S, n) : a >= b => a \in Pages!Newest(S, n)
<1>. DEFINE newer(a) == Pages!Newer(S, a)  N == Pages!Newest(S, n)
<1>0. S \subseteq Nat /\ Population \in Nat /\ \A x \in S : x <= Population
  BY PartConstants DEF Pages!Actors, Pages!PageConstants
<1>1. \A a : IsFiniteSet(newer(a)) /\ Cardinality(newer(a)) \in Nat
  <2>. SUFFICES ASSUME NEW a PROVE IsFiniteSet(newer(a)) /\ Cardinality(newer(a)) \in Nat
    OBVIOUS
  <2>1. newer(a) \subseteq S
    BY DEF Pages!Newer
  <2>. HIDE DEF newer
  <2>. QED  BY <2>1, FS_Subset, FS_CardinalityType
<1>2. N \subseteq S /\ \A a \in S : a \in N <=> Cardinality(newer(a)) < n
  BY SameCardinality DEF Pages!Newest
<1>. HIDE DEF N
<1>3. IsFiniteSet(N) /\ Cardinality(N) \in Nat
  BY <1>2, FS_Subset, FS_CardinalityType
<1>4. \A a \in S, b \in N : a >= b => a \in N
  <2>. SUFFICES ASSUME NEW a \in S, NEW b \in N, a >= b PROVE a \in N
    OBVIOUS
  <2>1. newer(a) \subseteq newer(b)
    <3>1. ASSUME NEW c \in S, c > a PROVE c > b
      BY <1>0, <1>2, <3>1
    <3>. QED  BY <3>1 DEF Pages!Newer
  <2>2. IsFiniteSet(newer(b)) /\ Cardinality(newer(b)) \in Nat /\ Cardinality(newer(a)) \in Nat
    BY <1>1
  <2>3. Cardinality(newer(b)) < n
    BY <1>2
  <2>4. Cardinality(newer(a)) <= Cardinality(newer(b))
    <3>. HIDE DEF newer
    <3>. QED  BY <2>1, <2>2, FS_Subset
  <2>5. Cardinality(newer(a)) < n
    <3>. HIDE DEF newer
    <3>. QED  BY <2>2, <2>3, <2>4
  <2>. QED  BY <1>2, <2>5
<1>5. Cardinality(N) <= n
  <2>1. CASE N = {}
    BY <2>1, FS_EmptySet
  <2>2. CASE N # {}
    <3>1. PICK m \in N : \A a \in N : m <= a
      BY <1>0, <1>2, <2>2, LeastNumber
    <3>2. N \subseteq newer(m) \union {m}
      BY <1>0, <1>2, <3>1 DEF Pages!Newer
    <3>3. IsFiniteSet(newer(m)) /\ Cardinality(newer(m)) \in Nat /\ Cardinality(newer(m)) < n
      BY <1>1, <1>2
    <3>4. m \notin newer(m)
      BY <1>0, <1>2 DEF Pages!Newer
    <3>. HIDE DEF newer
    <3>5. IsFiniteSet(newer(m) \union {m}) /\ Cardinality(newer(m) \union {m}) = Cardinality(newer(m)) + 1
      BY <3>3, <3>4, FS_AddElement
    <3>6. Cardinality(N) <= Cardinality(newer(m) \union {m})
      BY <3>2, <3>5, FS_Subset
    <3>. QED  BY <1>3, <3>3, <3>5, <3>6
  <2>. QED  BY <2>1, <2>2
<1>6. Cardinality(N) < n => N = S
  <2>. SUFFICES ASSUME Cardinality(N) < n, S \ N # {} PROVE FALSE
    BY <1>2
  <2>1. PICK g \in S \ N : \A a \in S \ N : a <= g
    <3>. DEFINE rest == S \ N
    <3>1. rest \subseteq Nat /\ rest # {} /\ \A x \in rest : x <= Population
      BY <1>0
    <3>. HIDE DEF rest
    <3>2. \E g \in rest : \A a \in rest : a <= g
      BY <1>0, <3>1, GreatestNumber
    <3>. QED  BY <3>2 DEF rest
  <2>2. newer(g) \subseteq N
    <3>1. ASSUME NEW c \in S, c > g PROVE c \in N
      BY <1>0, <2>1, <3>1
    <3>. QED  BY <3>1 DEF Pages!Newer
  <2>3. Cardinality(newer(g)) \in Nat /\ ~(Cardinality(newer(g)) < n)
    BY <1>1, <1>2
  <2>. HIDE DEF newer
  <2>4. Cardinality(newer(g)) <= Cardinality(N)
    BY <1>3, <2>2, FS_Subset
  <2>. QED  BY <1>3, <2>3, <2>4
<1>. QED  BY <1>2, <1>3, <1>4, <1>5, <1>6 DEF N


Going == reader.pc \in {"cursor", "select"}

\* While the reader goes on, its list holds one full page for each page it turned, the
\* actors that it has not seen come after its cursor, and the cursor is a row.
PagesRead ==
  Going =>
    /\ Cardinality(reader.listed) = reader.page * PageSize
    /\ Pages!Active \subseteq ever
    /\ reader.after = Pages!First => reader.listed = {} /\ reader.pc = "select"
    /\ reader.after # Pages!First =>
         /\ status[reader.after] # "absent"
         /\ \A a \in reader.listed : reader.after <= a
         /\ \A a \in throughout : reader.after <= a => a \in reader.listed

PageInv ==
  /\ Pages!TypeOK
  /\ throughout \subseteq Pages!Active /\ reader.listed \subseteq ever
  /\ reader.pc = "idle" => reader.after = Pages!First /\ reader.listed = {} /\ reader.page = 0
  /\ PagesRead
  /\ Pages!ListingHonest

LEMMA FewActors ==
  ASSUME NEW S, S \subseteq Pages!Actors
  PROVE  IsFiniteSet(S) /\ Cardinality(S) \in Nat
<1>1. S \in SUBSET Nat /\ Population \in Nat /\ \A x \in S : x <= Population
  BY PartConstants DEF Pages!Actors, Pages!PageConstants
<1>2. IsFiniteSet(S)
  BY <1>1, FS_BoundedSetOfNaturals
<1>. QED  BY <1>2, FS_CardinalityType

LEMMA PageInit == Pages!Init => PageInv
<1>. SUFFICES ASSUME Pages!Init PROVE PageInv
  OBVIOUS
<1>. USE PartConstants DEF Pages!Init, Pages!PageConstants
<1>1. Pages!TypeOK
  BY DEF Pages!TypeOK, Pages!Outcomes
<1>2. reader.pc = "idle" /\ reader.after = Pages!First /\ reader.listed = {} /\ reader.page = 0
  OBVIOUS
<1>. QED  BY <1>1, <1>2 DEF PageInv, PagesRead, Going, Pages!ListingHonest

\* One page more: a full one brings as many new actors as it has rows, all older than
\* the cursor, and leaves out only what is older still; a short one leaves out nothing.
LEMMA SelectKeeps == PageInv /\ Pages!Select => PageInv'
<1>. SUFFICES ASSUME PageInv, Pages!Select PROVE PageInv'
  OBVIOUS
<1>. USE PartConstants DEF Pages!PageConstants
<1>. DEFINE left == Pages!Remaining(reader.after, reader.page)
            rows == Pages!Newest(left, PageSize)
            listed == reader.listed  after == reader.after  page == reader.page
<1>0. /\ reader.pc = "select" /\ Going /\ reader' = Pages!Turned(rows)
      /\ UNCHANGED <<status, throughout, ever>>
  BY DEF Pages!Select, Going
<1>1. /\ status \in [Pages!Actors -> {"absent", "active", "revoked"}]
      /\ throughout \subseteq ever /\ ever \subseteq Pages!Actors
      /\ listed \subseteq ever /\ throughout \subseteq Pages!Active
      /\ page \in 0..MaxPages /\ after \in Pages!Actors \union {Pages!First}
      /\ reader \in [pc : {"idle", "cursor", "select"} \union Pages!Outcomes, page : 0..MaxPages,
                     after : Pages!Actors \union {Pages!First}, listed : SUBSET Pages!Actors]
  BY DEF PageInv, Pages!TypeOK
<1>2. /\ Cardinality(listed) = page * PageSize /\ Pages!Active \subseteq ever
      /\ after = Pages!First => listed = {}
      /\ after # Pages!First =>
           /\ \A a \in listed : after <= a
           /\ \A a \in throughout : after <= a => a \in listed
  BY <1>0 DEF PageInv, PagesRead
<1>3. Pages!Actors \subseteq Nat /\ Pages!First \notin Pages!Actors
  BY DEF Pages!Actors, Pages!First
<1>4. left \subseteq Pages!Active /\ Pages!Active \subseteq Pages!Actors
  BY DEF Pages!Remaining, Pages!Active
<1>5. /\ left \intersect listed = {}
      /\ \A a \in throughout : a \notin listed => a \in left
  <2>1. CASE after = Pages!First
    BY <1>1, <1>2, <2>1 DEF Pages!Remaining
  <2>2. CASE after # Pages!First
    <3>1. \A a \in left : a < after
      BY <2>2 DEF Pages!Remaining
    <3>2. \A a \in listed : a \in Nat /\ after \in Nat /\ after <= a
      BY <1>1, <1>2, <1>3, <2>2
    <3>3. ASSUME NEW a \in throughout, a \notin listed PROVE a \in left
      <4>1. a \in Nat /\ after \in Nat /\ ~(after <= a)
        BY <1>1, <1>2, <1>3, <2>2, <3>3
      <4>. QED  BY <1>1, <4>1 DEF Pages!Remaining
    <3>. HIDE DEF left, listed, after
    <3>4. \A a \in left : a \notin listed
      BY <1>3, <1>4, <3>1, <3>2
    <3>. QED  BY <3>3, <3>4
  <2>. QED  BY <2>1, <2>2
<1>6. PageSize \in Nat /\ PageSize > 0 /\ MaxPages \in Nat /\ MaxPages > 0
  OBVIOUS
<1>. HIDE DEF left
<1>7. /\ rows \subseteq left /\ IsFiniteSet(rows) /\ Cardinality(rows) \in Nat
      /\ Cardinality(rows) <= PageSize
      /\ Cardinality(rows) < PageSize => rows = left
      /\ \A a \in left, b \in rows : a >= b => a \in rows
  <2>1. left \subseteq Pages!Actors /\ IsFiniteSet(left)
    BY <1>4, FewActors
  <2>. QED  BY <1>6, <2>1, NewestPage
<1>. HIDE DEF rows
<1>8. Pages!Cardinality(rows) = Cardinality(rows)
  BY SameCardinality
<1>9. /\ IsFiniteSet(listed) /\ IsFiniteSet(listed \union rows) /\ IsFiniteSet(ever)
      /\ Cardinality(listed \union rows) = page * PageSize + Cardinality(rows)
      /\ listed \union rows \subseteq ever
      /\ Cardinality(ever) \in Nat
  <2>1. IsFiniteSet(listed) /\ IsFiniteSet(ever) /\ Cardinality(ever) \in Nat
    BY <1>1, FewActors
  <2>2. listed \intersect rows = {}
    BY <1>5, <1>7
  <2>3. Cardinality(listed \intersect rows) = 0
    BY <2>2, FS_EmptySet
  <2>4. IsFiniteSet(listed \union rows) /\ Cardinality(listed \union rows)
          = Cardinality(listed) + Cardinality(rows) - Cardinality(listed \intersect rows)
    BY <1>7, <2>1, FS_Union
  <2>5. page * PageSize \in Nat
    BY <1>1, <1>6
  <2>6. listed \union rows \subseteq ever
    BY <1>1, <1>2, <1>4, <1>7
  <2>7. Cardinality(listed \union rows) = page * PageSize + Cardinality(rows)
    BY <1>2, <1>7, <2>3, <2>4, <2>5
  <2>. QED  BY <2>1, <2>4, <2>6, <2>7
<1>10. CASE page = MaxPages /\ rows = {}
  <2>1. reader' = [reader EXCEPT !.pc = "listed"]
    BY <1>0, <1>10 DEF Pages!Turned
  <2>2. throughout \subseteq listed
    <3>1. left = {}
      BY <1>6, <1>7, <1>10, FS_EmptySet
    <3>. QED  BY <1>5, <3>1
  <2>. QED  BY <1>0, <1>1, <2>1, <2>2 DEF PageInv, PagesRead, Going, Pages!TypeOK, Pages!Outcomes,
                 Pages!ListingHonest, Pages!Active
<1>11. CASE page = MaxPages /\ rows # {}
  <2>1. reader' = [reader EXCEPT !.pc = "exceeded"]
    BY <1>0, <1>11 DEF Pages!Turned
  <2>2. Pages!Cardinality(ever) > MaxPages * PageSize
    <3>. DEFINE most == MaxPages * PageSize
    <3>1. Cardinality(rows) # 0 /\ Cardinality(rows) \in Nat
      BY <1>7, <1>11, FS_EmptySet
    <3>2. Cardinality(listed \union rows) <= Cardinality(ever) /\ Cardinality(ever) \in Nat
      BY <1>9, FS_Subset
    <3>3. most \in Nat
      BY <1>6
    <3>4. Cardinality(listed \union rows) = most + Cardinality(rows)
      BY <1>9, <1>11
    <3>. HIDE DEF most
    <3>5. Cardinality(ever) > most
      BY <3>1, <3>2, <3>3, <3>4
    <3>. QED  BY <3>5, SameCardinality DEF most
  <2>. QED  BY <1>0, <1>1, <2>1, <2>2 DEF PageInv, PagesRead, Going, Pages!TypeOK, Pages!Outcomes,
                 Pages!ListingHonest, Pages!Active
<1>12. CASE page # MaxPages /\ Cardinality(rows) < PageSize
  <2>1. reader' = [reader EXCEPT !.pc = "listed", !.listed = listed \union rows]
    BY <1>0, <1>8, <1>12 DEF Pages!Turned
  <2>2. throughout \subseteq listed \union rows
    BY <1>5, <1>7, <1>12
  <2>. QED  BY <1>0, <1>1, <1>9, <2>1, <2>2 DEF PageInv, PagesRead, Going, Pages!TypeOK,
                 Pages!Outcomes, Pages!ListingHonest, Pages!Active
<1>13. CASE page # MaxPages /\ Cardinality(rows) = PageSize
  <2>1. rows # {} /\ rows \ listed # {}
    <3>1. rows # {}
      BY <1>6, <1>13, FS_EmptySet
    <3>. QED  BY <1>5, <1>7, <3>1
  <2>. DEFINE least == Pages!Min(rows)
  <2>2. least \in rows /\ \A a \in rows : least <= a
    <3>1. rows \subseteq Nat
      BY <1>3, <1>4, <1>7
    <3>2. \E x \in rows : \A y \in rows : x <= y
      BY <2>1, <3>1, LeastNumber
    <3>. QED  BY <3>2 DEF Pages!Min
  <2>3. reader' = [reader EXCEPT !.pc = "cursor", !.page = page + 1, !.after = Pages!Min(rows),
                                 !.listed = listed \union rows]
    BY <1>0, <1>8, <1>13, <2>1 DEF Pages!Turned
  <2>. HIDE DEF least
  <2>4. /\ reader'.pc = "cursor" /\ reader'.page = page + 1 /\ reader'.after = least
        /\ reader'.listed = listed \union rows
    BY <1>1, <2>3 DEF least
  <2>5. least \in Pages!Active /\ least \in Pages!Actors /\ least \in Nat /\ least # Pages!First
    BY <1>3, <1>4, <1>7, <2>2
  <2>6. Pages!TypeOK'
    <3>1. page + 1 \in 0..MaxPages
      BY <1>1, <1>6, <1>13
    <3>2. listed \union rows \in SUBSET Pages!Actors
      BY <1>1, <1>4, <1>7
    <3>3. reader' \in [pc : {"idle", "cursor", "select"} \union Pages!Outcomes, page : 0..MaxPages,
                       after : Pages!Actors \union {Pages!First}, listed : SUBSET Pages!Actors]
      BY <1>1, <2>3, <2>5, <3>1, <3>2 DEF least
    <3>. QED  BY <1>0, <1>1, <3>3 DEF Pages!TypeOK
  <2>7. PagesRead'
    <3>1. Cardinality(reader'.listed) = reader'.page * PageSize
      <4>1. (page + 1) * PageSize = page * PageSize + PageSize
        BY <1>1, <1>6
      <4>. QED  BY <1>9, <1>13, <2>4, <4>1
    <3>2. Pages!Active' = Pages!Active
      BY <1>0 DEF Pages!Active
    <3>3. status[least] # "absent"
      BY <2>5 DEF Pages!Active
    <3>4. ASSUME NEW a \in listed \union rows PROVE least <= a
      <4>1. CASE a \in rows
        BY <2>2, <4>1
      <4>2. CASE a \in listed
        <5>1. after # Pages!First /\ after <= a
          BY <1>2, <4>2
        <5>2. least < after
          BY <1>7, <2>2, <5>1 DEF left, Pages!Remaining
        <5>3. a \in Nat /\ after \in Nat
          BY <1>1, <1>3, <4>2, <5>1
        <5>. QED  BY <2>5, <5>1, <5>2, <5>3
      <4>. QED  BY <4>1, <4>2
    <3>5. ASSUME NEW a \in throughout, least <= a PROVE a \in listed \union rows
      <4>1. a \in Nat /\ (a \notin listed => a \in left)
        BY <1>1, <1>3, <1>5
      <4>2. a \in left => a \in rows
        BY <1>7, <2>2, <2>5, <3>5, <4>1
      <4>. QED  BY <4>1, <4>2
    <3>. QED  BY <1>0, <1>2, <2>4, <2>5, <3>1, <3>2, <3>3, <3>4, <3>5 DEF PagesRead
  <2>8. Pages!ListingHonest'
    BY <2>4 DEF Pages!ListingHonest
  <2>. QED  BY <1>0, <1>1, <1>9, <2>4, <2>6, <2>7, <2>8 DEF PageInv, Pages!Active
<1>. QED  BY <1>6, <1>7, <1>10, <1>11, <1>12, <1>13

LEMMA PageStepKeeps == PageInv /\ [Pages!Next]_pageVars => PageInv'
<1>. SUFFICES ASSUME PageInv, [Pages!Next]_pageVars PROVE PageInv'
  OBVIOUS
<1>. USE PartConstants DEF Pages!PageConstants
<1>0. /\ status \in [Pages!Actors -> {"absent", "active", "revoked"}]
      /\ throughout \subseteq ever /\ ever \subseteq Pages!Actors
      /\ reader \in [pc : {"idle", "cursor", "select"} \union Pages!Outcomes, page : 0..MaxPages,
                     after : Pages!Actors \union {Pages!First}, listed : SUBSET Pages!Actors]
  BY DEF PageInv, Pages!TypeOK
<1>1. CASE Pages!Start
  <2>1. /\ reader.pc = "idle" /\ reader' = [reader EXCEPT !.pc = "select"]
        /\ throughout' = Pages!Active /\ ever' = Pages!Active /\ UNCHANGED status
    BY <1>1 DEF Pages!Start
  <2>2. /\ reader'.pc = "select" /\ reader'.page = 0 /\ reader'.after = Pages!First
        /\ reader'.listed = {}
    BY <1>0, <2>1 DEF PageInv
  <2>3. Pages!Active' = Pages!Active /\ Pages!Active \subseteq Pages!Actors
    BY <2>1 DEF Pages!Active
  <2>4. Pages!TypeOK'
    BY <1>0, <2>1, <2>3 DEF Pages!TypeOK
  <2>5. PagesRead'
    BY <2>1, <2>2, <2>3, FS_EmptySet DEF PagesRead
  <2>. QED  BY <2>1, <2>2, <2>3, <2>4, <2>5 DEF PageInv, Pages!ListingHonest
<1>2. CASE Pages!LookUp
  <2>1. reader.pc = "cursor" /\ UNCHANGED <<status, throughout, ever>>
    BY <1>2 DEF Pages!LookUp
  <2>2. Pages!Known(reader.after)
    BY <2>1 DEF PageInv, PagesRead, Going, Pages!Known
  <2>3. reader' = [reader EXCEPT !.pc = "select"]
    BY <1>2, <2>2 DEF Pages!LookUp
  <2>. QED  BY <1>0, <2>1, <2>3 DEF PageInv, PagesRead, Going, Pages!TypeOK, Pages!ListingHonest,
                 Pages!Active
<1>3. CASE Pages!Select
  BY <1>3, SelectKeeps
<1>4. CASE Pages!RequestFails
  <2>1. reader' = [reader EXCEPT !.pc = "failed"] /\ UNCHANGED <<status, throughout, ever>>
    BY <1>4 DEF Pages!RequestFails
  <2>. QED  BY <1>0, <2>1 DEF PageInv, PagesRead, Going, Pages!TypeOK, Pages!Outcomes,
                 Pages!ListingHonest, Pages!Active
<1>5. ASSUME NEW a \in Pages!Actors, NEW s \in {"active", "revoked"}, Going, Pages!SetStatus(a, s)
      PROVE  PageInv'
  <2>1. /\ status' = [status EXCEPT ![a] = s] /\ throughout' = throughout \ {a}
        /\ ever' = (IF s = "active" THEN ever \union {a} ELSE ever) /\ UNCHANGED reader
        /\ reader.pc \in {"cursor", "select"}
    BY <1>5 DEF Pages!SetStatus, Going
  <2>2. /\ Pages!Active' \subseteq (IF s = "active" THEN Pages!Active \union {a} ELSE Pages!Active)
        /\ Pages!Active \ {a} \subseteq Pages!Active'
    BY <1>0, <2>1 DEF Pages!Active
  <2>3. Pages!TypeOK'
    BY <1>0, <2>1 DEF Pages!TypeOK
  <2>4. Pages!ListingHonest'
    BY <2>1 DEF Pages!ListingHonest
  <2>5. PagesRead'
    <3>1. status[reader.after] # "absent" /\ reader.after \in Pages!Actors
            => status'[reader.after] # "absent"
      BY <1>0, <2>1
    <3>2. reader.after # Pages!First => reader.after \in Pages!Actors
      BY <1>0
    <3>. QED  BY <1>5, <2>1, <2>2, <3>1, <3>2 DEF PageInv, PagesRead, Going
  <2>. QED  BY <2>1, <2>2, <2>3, <2>4, <2>5 DEF PageInv
<1>6. CASE UNCHANGED pageVars
  BY <1>6 DEF pageVars, PageInv, PagesRead, Going, Pages!TypeOK, Pages!ListingHonest, Pages!Active
<1>. QED  BY <1>1, <1>2, <1>3, <1>4, <1>5, <1>6 DEF Pages!Next, Going

-----------------------------------------------------------------------------
(* The composition.                                                        *)

\* However two polls overlap: admissions are spaced, paid for, and exchanged once.
THEOREM PollingIsSound == Spec => []PollingSound
<1>. DEFINE Inv == part = "device" => DeviceInv
<1>1. Init => Inv
  BY DeviceInit DEF Init
<1>2. Inv /\ [Next]_vars => Inv'
  BY DeviceStepKeeps DEF Next, DeviceStep, PageStep, HarnessStep, VerdictStep, vars, deviceVars
<1>3. Inv => PollingSound
  BY DeviceInvSound DEF PollingSound
<1>. QED  BY <1>1, <1>2, <1>3, PTL DEF Spec

\* However the compiler and the driver end and whatever they log: a kill that counts is
\* the failure of an assertion, by all the tests of the baseline, of a clean build.
THEOREM KillsAreByAssertion == Spec => []KillsByAssertion
<1>. DEFINE Inv == part = "verdicts" => VerdictInv
<1>1. Init => Inv
  BY VerdictInit DEF Init
<1>2. Inv /\ [Next]_vars => Inv'
  BY VerdictStepKeeps DEF Next, DeviceStep, PageStep, HarnessStep, VerdictStep, vars, verdictVars
<1>3. Inv => KillsByAssertion
  BY KillCounts DEF KillsByAssertion
<1>. QED  BY <1>1, <1>2, <1>3, PTL DEF Spec

\* The row derived again from flags and raw logs is the row that was written; of the
\* restored baselines that passed exactly those are accepted that repeat every group.
THEOREM ValidatorsAccept == Spec => []ValidatorsAgree
<1>. DEFINE Inv == part = "verdicts" => VerdictInv
<1>1. Init => Inv
  BY VerdictInit DEF Init
<1>2. Inv /\ [Next]_vars => Inv'
  BY VerdictStepKeeps DEF Next, DeviceStep, PageStep, HarnessStep, VerdictStep, vars, verdictVars
<1>3. Inv => ValidatorsAgree
  BY Agreement DEF ValidatorsAgree
<1>. QED  BY <1>1, <1>2, <1>3, PTL DEF Spec

\* Whatever process made the copy and whatever is edited while the command reads it:
\* what an accepted execution read is the application with the accepted tests.
THEOREM HarnessIsExact == Spec => []HarnessExact
<1>. DEFINE Inv == part = "harness" => HarnessInv
<1>1. Init => Inv
  BY HarnessInit DEF Init
<1>2. Inv /\ [Next]_vars => Inv'
  BY HarnessStepKeeps DEF Next, DeviceStep, PageStep, HarnessStep, VerdictStep, vars, harnessVars
<1>3. Inv => HarnessExact
  BY HarnessInvExact DEF HarnessExact
<1>. QED  BY <1>1, <1>2, <1>3, PTL DEF Spec

\* However pages and status changes interleave: the list is the active actors.
THEOREM ListingIsHonest == Spec => []ListingHonest
<1>. DEFINE Inv == part = "pages" => PageInv
<1>1. Init => Inv
  BY PageInit DEF Init
<1>2. Inv /\ [Next]_vars => Inv'
  BY PageStepKeeps DEF Next, DeviceStep, PageStep, HarnessStep, VerdictStep, vars, pageVars
<1>3. Inv => ListingHonest
  BY DEF PageInv, ListingHonest
<1>. QED  BY <1>1, <1>2, <1>3, PTL DEF Spec

=============================================================================
