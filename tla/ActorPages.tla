----------------------------- MODULE ActorPages -----------------------------
(***************************************************************************)
(* The account manager's list of active actors: fetchAllActors             *)
(* (actor-pages.js) asks GET /api/actors (routes/actor.cljs) for one page  *)
(* after the other, each continuing after the last actor of the page       *)
(* before, while actors are added, revoked and restored.  The route runs   *)
(* two statements, so the registry may change between them too.            *)
(***************************************************************************)
EXTENDS Integers, FiniteSets, FiniteSetsExt

CONSTANTS
  Population,  \* actors that may ever exist
  PageSize,    \* 100
  MaxPages     \* 1000

PageConstants == {Population, PageSize, MaxPages} \subseteq Nat \ {0}

\* An actor is its place in the order (created_at, id), which its status never changes.
\* created_at is when its transaction began: a late commit appears among older rows.
Actors == 1..Population
First  == 0      \* no cursor

VARIABLES
  status,      \* actors.status, "absent" before the row is committed
  reader,      \* fetchAllActors: pc, page, after and the ids of byId
  throughout,  \* history: actors active ever since the reader began
  ever         \* history: actors active at some time since then

vars == <<status, reader, throughout, ever>>

Outcomes == {"listed", "exceeded", "stuck", "unknown", "failed"}
TypeOK ==
  /\ status \in [Actors -> {"absent", "active", "revoked"}]
  /\ reader \in [pc : {"idle", "cursor", "select"} \union Outcomes, page : 0..MaxPages,
                 after : Actors \union {First}, listed : SUBSET Actors]
  /\ throughout \subseteq ever /\ ever \subseteq Actors

Active == {a \in Actors : status[a] = "active"}

Init ==
  /\ status \in [Actors -> {"absent", "active", "revoked"}]
  /\ reader = [pc |-> "idle", page |-> 0, after |-> First, listed |-> {}]
  /\ throughout = {} /\ ever = {}

-----------------------------------------------------------------------------
(* The reader and the route.                                               *)

Start ==
  /\ reader.pc = "idle"
  /\ reader' = [reader EXCEPT !.pc = "select"]
  /\ throughout' = Active /\ ever' = Active
  /\ UNCHANGED status

\* select-actor-by-id, whatever the status; an unknown cursor is a 400.
Known(a) == status[a] # "absent"
LookUp ==
  /\ reader.pc = "cursor"
  /\ reader' = [reader EXCEPT !.pc = IF Known(reader.after) THEN "select" ELSE "unknown"]
  /\ UNCHANGED <<status, throughout, ever>>

Newer(S, a) == {b \in S : b > a}

\* select-actors-active: active actors strictly older than the cursor, newest first.
RemainingByOffset(after, page) ==
  {a \in Active : Cardinality(Newer(Active, a)) >= page * PageSize}
Remaining(after, page) == {a \in Active : after = First \/ a < after}
Newest(S, n) == {a \in S : Cardinality(Newer(S, a)) < n}

\* What fetchAllActors makes of a page; the page past the bound is only a probe.
Turned(rows) ==
  LET new == rows \ reader.listed IN
  IF reader.page = MaxPages
    THEN [reader EXCEPT !.pc = IF rows = {} THEN "listed" ELSE "exceeded"]
  ELSE IF Cardinality(rows) < PageSize
    THEN [reader EXCEPT !.pc = "listed", !.listed = @ \union rows]
  ELSE IF new = {} THEN [reader EXCEPT !.pc = "stuck"]
  ELSE [reader EXCEPT !.pc = "cursor", !.page = @ + 1, !.after = Min(rows),
                      !.listed = @ \union rows]

Select ==
  /\ reader.pc = "select"
  /\ reader' = Turned(Newest(Remaining(reader.after, reader.page), PageSize))
  /\ UNCHANGED <<status, throughout, ever>>

\* A request rejects or a page is malformed: the error reaches the caller.
RequestFails ==
  /\ reader.pc \in {"cursor", "select"}
  /\ reader' = [reader EXCEPT !.pc = "failed"]
  /\ UNCHANGED <<status, throughout, ever>>

-----------------------------------------------------------------------------
(* Meanwhile.                                                              *)

SetStatus(a, s) ==
  /\ status[a] # s /\ s # "absent" /\ (status[a] = "absent" => s = "active")
  /\ status' = [status EXCEPT ![a] = s]
  /\ throughout' = throughout \ {a}
  /\ ever' = IF s = "active" /\ reader.pc # "idle" THEN ever \union {a} ELSE ever
  /\ UNCHANGED reader

Next ==
  \/ Start \/ LookUp \/ Select \/ RequestFails
  \/ \E a \in Actors, s \in {"active", "revoked"} :
       reader.pc \in {"cursor", "select"} /\ SetStatus(a, s)

Spec == Init /\ [][Next]_vars

-----------------------------------------------------------------------------
(* Properties.                                                             *)

\* The list shows every actor that was active all along and none that never was, however
\* page reads and status changes interleave.  The reader never takes an honest server
\* for a broken one, and gives up only on more actors than the bound allows.
ListingHonest ==
  /\ reader.pc = "listed" => throughout \subseteq reader.listed /\ reader.listed \subseteq ever
  /\ reader.pc = "exceeded" => Cardinality(ever) > MaxPages * PageSize
  /\ reader.pc \notin {"stuck", "unknown"}

=============================================================================
