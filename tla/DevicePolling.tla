--------------------------- MODULE DevicePolling ---------------------------
(***************************************************************************)
(* RFC 8628 polling of one device code: the admission rule of              *)
(* law/device_polling.cljc run inside the row-locking transaction of       *)
(* find-polled-device! (extern/oidc_store.cljs), raced by several pollers, *)
(* by the browser that approves the code, by expiry and by a crash.        *)
(***************************************************************************)
EXTENDS Naturals, Sequences

CONSTANTS
  Pollers,
  Owner, Stranger,            \* the client the code was issued to, and another one
  MinInterval, IntervalStep,  \* 5 and 5 seconds
  MaxInterval,                \* 86400 seconds
  MaxPolls,                   \* 120
  Lifetime,                   \* ttl of the DeviceCode record
  NoTime, NoPoller,
  MaxClock                    \* bound of the model: the clock stops here

PollingConstants ==
  /\ {MinInterval, IntervalStep, MaxInterval, MaxPolls, Lifetime} \subseteq Nat \ {0}
  /\ MinInterval <= MaxInterval /\ MaxClock \in Nat
  /\ NoTime \notin Nat /\ NoPoller \notin Pollers /\ Owner # Stranger

VARIABLES
  clock,     \* clock_timestamp() of the database
  record,    \* the DeviceCode row: poll columns, consumption and approval
  lock,      \* who holds the row lock of SELECT ... FOR UPDATE
  poll,      \* each poller's request, back to Idle once answered
  continued, \* history: times at which a poll was admitted, in commit order
  grants     \* history: number of token responses for this code

vars == <<clock, record, lock, poll, continued, grants>>

Record == [client : {Owner}, expires : Nat, last : Nat \union {NoTime}, interval : Nat,
           count : Nat, consumed : BOOLEAN, approved : BOOLEAN]
Poll == [pc : {"idle", "waiting", "locked", "admitted"},
         client : {Owner, Stranger}, since : Nat,   \* who asks, and since when
         now : Nat, seen : Record]                  \* what the SELECT returned

ValidRecord(r) == r.interval \in MinInterval..MaxInterval /\ r.count \in 0..MaxPolls

TypeOK ==
  /\ clock \in Nat
  /\ record \in Record /\ ValidRecord(record)
  /\ lock \in Pollers \union {NoPoller}
  /\ poll \in [Pollers -> Poll]
  /\ continued \in Seq(Nat)
  /\ grants \in Nat

-----------------------------------------------------------------------------
(* admit-poll: the decision on a record as read under the lock.            *)

Later(m, n) == IF m >= n THEN m ELSE n
TooSoon(r, now) == r.last # NoTime /\ now < r.last + r.interval
Counted(r) == [r EXCEPT !.count = @ + 1]

\* The refusal, or "continue", that admit-poll returns.
Decision(r, client, now) ==
  IF \/ ~ValidRecord(r) \/ client # r.client
     \/ r.consumed      \/ r.count >= MaxPolls THEN "invalid_grant"
  ELSE IF now >= r.expires THEN "expired_token"
  ELSE IF ~TooSoon(r, now) THEN "continue"
  ELSE IF r.interval + IntervalStep > MaxInterval THEN "invalid_grant"
  ELSE "slow_down"

\* The record it proposes to store, if it proposes one.
Proposal(r, client, now) ==
  CASE Decision(r, client, now) = "slow_down" ->
         [Counted(r) EXCEPT !.last = Later(now, r.last), !.interval = @ + IntervalStep]
    [] Decision(r, client, now) = "continue" -> [Counted(r) EXCEPT !.last = now]
    [] OTHER -> r

-----------------------------------------------------------------------------

FreshRecord == [client |-> Owner, expires |-> Lifetime, last |-> NoTime,
                interval |-> MinInterval, count |-> 0, consumed |-> FALSE, approved |-> FALSE]
Idle == [pc |-> "idle", client |-> Owner, since |-> 0, now |-> 0, seen |-> FreshRecord]

Init ==
  /\ clock = 0
  /\ record = FreshRecord
  /\ lock = NoPoller
  /\ poll = [p \in Pollers |-> Idle]
  /\ continued = <<>> /\ grants = 0

\* A poll arrives, authenticated as some client, and begins its transaction.
Begin(p, c) ==
  /\ poll[p].pc = "idle"
  /\ poll' = [poll EXCEPT ![p] = [Idle EXCEPT !.pc = "waiting", !.client = c, !.since = clock]]
  /\ UNCHANGED <<clock, record, lock, continued, grants>>

\* SELECT ... FOR UPDATE returns the locked row with a reading of the clock taken
\* somewhere between asking for the lock and getting it.
RowAlwaysFree(p) == TRUE
RowFree(p) == lock = NoPoller
Lock(p) ==
  /\ poll[p].pc = "waiting" /\ RowFree(p)
  /\ lock' = p
  /\ \E now \in poll[p].since..clock :
       poll' = [poll EXCEPT ![p].pc = "locked", ![p].now = now, ![p].seen = record, ![p].since = 0]
  /\ UNCHANGED <<clock, record, continued, grants>>

\* UPDATE of the poll columns and COMMIT; only then is the decision returned, so the
\* backoff survives the error response.
Stored(p, r) == [record EXCEPT !.last = r.last, !.interval = r.interval, !.count = r.count]
Commit(p) ==
  LET q == poll[p] IN
  /\ q.pc = "locked"
  /\ record' = Stored(p, Proposal(q.seen, q.client, q.now))
  /\ lock' = NoPoller
  /\ IF Decision(q.seen, q.client, q.now) = "continue"
       THEN /\ poll' = [poll EXCEPT ![p].pc = "admitted", ![p].now = 0]
            /\ continued' = Append(continued, q.now)
       ELSE /\ poll' = [poll EXCEPT ![p] = Idle]
            /\ UNCHANGED continued
  /\ UNCHANGED <<clock, grants>>

\* The engine goes on with the row as read: pending until it is approved,
Pend(p) ==
  /\ poll[p].pc = "admitted" /\ ~poll[p].seen.approved
  /\ poll' = [poll EXCEPT ![p] = Idle]
  /\ UNCHANGED <<clock, record, lock, continued, grants>>

\* and then one consume, which waits for the row lock; the loser is refused.
Consumable(r) == ~r.consumed /\ r.expires > clock
Consume(p) ==
  /\ poll[p].pc = "admitted" /\ poll[p].seen.approved /\ RowFree(p)
  /\ IF Consumable(record)
       THEN record' = [record EXCEPT !.consumed = TRUE] /\ grants' = grants + 1
       ELSE UNCHANGED <<record, grants>>
  /\ poll' = [poll EXCEPT ![p] = Idle]
  /\ UNCHANGED <<clock, lock, continued>>

\* The browser approves: the engine saves the code again, waiting for the row lock;
\* the poll columns and the consumption stay, the expiry is at most what it was.
Approve ==
  /\ lock = NoPoller /\ ~record.approved /\ record.expires > clock
  /\ record' = [record EXCEPT !.approved = TRUE]
  /\ UNCHANGED <<clock, lock, poll, continued, grants>>

\* The process dies: open transactions roll back and their locks go.
Crash ==
  /\ \E p \in Pollers : poll[p] # Idle
  /\ poll' = [p \in Pollers |-> Idle]
  /\ lock' = NoPoller
  /\ UNCHANGED <<clock, record, continued, grants>>

Tick ==
  /\ clock < MaxClock
  /\ clock' = clock + 1
  /\ UNCHANGED <<record, lock, poll, continued, grants>>

Step(p) == Lock(p) \/ Commit(p) \/ Pend(p) \/ Consume(p)

Next ==
  \/ \E p \in Pollers : Step(p) \/ \E c \in {Owner, Stranger} : Begin(p, c)
  \/ Approve \/ Crash \/ Tick

Spec == Init /\ [][Next]_vars

-----------------------------------------------------------------------------
(* Properties.                                                             *)

\* However the transactions of two polls overlap and whatever clock reading each one
\* got: no two are admitted within the minimum interval, every admission is paid for out
\* of the code's poll budget, and an approved code is exchanged for tokens at most once.
PollingSound ==
  /\ \A i \in 1..(Len(continued) - 1) : continued[i] + MinInterval <= continued[i + 1]
  /\ Len(continued) <= record.count /\ record.count <= MaxPolls
  /\ grants <= 1

=============================================================================
