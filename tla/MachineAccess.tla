---------------------------- MODULE MachineAccess ----------------------------
(***************************************************************************)
(* How machines get access, and what is left of it when it is taken away:  *)
(* agent credentials (routes/agents.cljs, auth/session.cljs), issued and   *)
(* revoked by administrators, and relay leases (extern/relay.cljs), signed *)
(* on an operator's grant.  Every handler reads the database between       *)
(* awaits; sessions, roles, actors and the grant file change meanwhile.    *)
(***************************************************************************)
EXTENDS Naturals, FiniteSets

CONSTANTS
  Credentials,   \* ids of the credentials of one agent
  Calls,         \* HTTP requests
  LeaseSeconds,  \* lease-seconds
  MaxGrant,      \* max-grant-seconds
  MaxTime,       \* bound of the model: seconds
  MaxChanges     \* bound of the model: changes by operators and users

ASSUME AccessConstants ==
  {LeaseSeconds, MaxGrant, MaxTime, MaxChanges} \subseteq Nat

VARIABLES
  now,         \* seconds; the process and the database agree
  active,      \* status of the agent and of the lease owner
  admin,       \* the administrator's session row and role
  credential,  \* agent_credentials
  grant,       \* the operator's grant for the node, as in the private file
  file,        \* "sound", or "other": unreadable, or changed outside node-grants
  leases,      \* signed leases
  call,        \* handlers
  held,        \* history: has the request's authority held since it began
  retired,     \* history: grants taken out of the file, and when
  disabledAt,  \* history: the last second in which the owner was active
  changes

accessVars == <<now, active, admin, credential, grant, file, leases, call, held, retired,
                disabledAt, changes>>
world == <<now, active, admin, grant, file, retired, disabledAt, changes>>

Grants == [enabled : BOOLEAN, secret : 1..2, expires : 0..(MaxTime + MaxGrant)]
Idle == [op |-> "none", pc |-> "idle", cred |-> "none", iat |-> 0,
         grant |-> [enabled |-> FALSE, secret |-> 1, expires |-> 0]]

AccessInit ==
  /\ now = 0 /\ active = [a \in {"agent", "owner"} |-> TRUE]
  /\ admin = [session |-> TRUE, role |-> TRUE]
  /\ credential = [c \in Credentials |-> [state |-> "none", expires |-> 0]]
  /\ grant \in {g \in Grants : g.enabled /\ g.secret = 1 /\ g.expires \in {2, MaxGrant + 1}}
  /\ file = "sound" /\ leases = {} /\ call = [r \in Calls |-> Idle]
  /\ held = [r \in Calls |-> FALSE] /\ retired = {} /\ disabledAt = 0 /\ changes = 0

CallStep(r, pc) == call' = [call EXCEPT ![r].pc = pc]
Refuse(r) == call' = [call EXCEPT ![r] = [Idle EXCEPT !.pc = "refused"]]
In(r, op, pc) == call[r].op = op /\ call[r].pc = pc

-----------------------------------------------------------------------------
(* Authority                                                               *)

\* select-actor-by-session and system-admin?: session row, status and roles are
\* read by one statement, so one instant decides.
AdminRow == admin.session /\ admin.role
AdminAdmitted == AdminRow

\* select-active-agent-credential.
NotRevoked(c) == credential[c].state \in {"live", "revoked"} /\ now < credential[c].expires
ActiveCredential(c) ==
  credential[c].state = "live" /\ now < credential[c].expires /\ active["agent"]
CredentialAdmitted(c) == ActiveCredential(c)

\* What each operation must be allowed by.
Authority(r) ==
  CASE call[r].op = "use" -> ActiveCredential(call[r].cred)
    [] call[r].op \in {"issue", "revoke"} -> AdminRow
    [] OTHER -> FALSE

Observe == held' = [r \in Calls |-> held[r] \/ Authority(r)']

-----------------------------------------------------------------------------
(* Agent credentials                                                       *)

Begin(r, op, c) ==
  /\ call[r].pc = "idle"
  /\ call' = [call EXCEPT ![r].op = op, ![r].pc = "auth", ![r].cred = c]
  /\ UNCHANGED <<credential, leases>> /\ UNCHANGED world /\ Observe

\* with-auth and with-admin: the session or the credential is looked up once;
\* the handler's own queries come after.
Auth(r) ==
  /\ call[r].pc = "auth"
  /\ LET ok == IF call[r].op = "use" THEN CredentialAdmitted(call[r].cred)
                                        ELSE AdminAdmitted
     IN  IF ok THEN CallStep(r, "act") ELSE Refuse(r)
  /\ UNCHANGED <<credential, leases>> /\ UNCHANGED world /\ Observe

\* A route behind with-auth answers on the context it was given.
Use(r) ==
  /\ In(r, "use", "act") /\ CallStep(r, "done")
  /\ UNCHANGED <<credential, leases>> /\ UNCHANGED world /\ Observe

\* issue-credential!, after the actor and its entity, which do not change.
Issue(r) ==
  /\ In(r, "issue", "act") /\ credential[call[r].cred].state = "none"
  /\ \E hours \in 1..2 :
       credential' = [credential EXCEPT ![call[r].cred] =
                        [state |-> "live", expires |-> now + hours]]
  /\ CallStep(r, "done") /\ UNCHANGED leases /\ UNCHANGED world /\ Observe

\* revoke-credential!: nothing is answered but what the UPDATE returned.
Revoke(r) ==
  /\ In(r, "revoke", "act")
  /\ IF credential[call[r].cred].state = "live"
       THEN /\ credential' = [credential EXCEPT ![call[r].cred].state = "revoked"]
            /\ CallStep(r, "done")
       ELSE UNCHANGED credential /\ Refuse(r)
  /\ UNCHANGED leases /\ UNCHANGED world /\ Observe

-----------------------------------------------------------------------------
(* Relay leases                                                            *)

\* The handler up to its first await: the file is read, the clock taken and the
\* secret compared in one go.
AskLease(r, secret) ==
  /\ call[r].pc = "idle"
  /\ IF file = "sound" /\ grant.secret = secret
       THEN call' = [call EXCEPT ![r] =
              [Idle EXCEPT !.op = "lease", !.pc = "lookup", !.iat = now, !.grant = grant]]
       ELSE Refuse(r)
  /\ UNCHANGED <<credential, leases, held>> /\ UNCHANGED world

\* issuance-admitted?, with the actor just looked up and the clock of the start.
Admitted(g, iat) ==
  /\ g.enabled /\ iat < g.expires /\ g.expires <= iat + MaxGrant
  /\ active["owner"]
Lookup(r) ==
  /\ In(r, "lease", "lookup")
  /\ IF Admitted(call[r].grant, call[r].iat) THEN CallStep(r, "sign") ELSE Refuse(r)
  /\ UNCHANGED <<credential, leases, held>> /\ UNCHANGED world

\* claims.
Earlier(a, b) == IF a < b THEN a ELSE b
LeaseEndAtSigning(r) == Earlier(now + LeaseSeconds, call[r].grant.expires)
LeaseEnd(r) == Earlier(call[r].iat + LeaseSeconds, call[r].grant.expires)
Sign(r) ==
  /\ In(r, "lease", "sign")
  /\ call' = [call EXCEPT ![r] = [Idle EXCEPT !.op = "lease", !.pc = "done"]]
  /\ leases' = leases \cup {[grant |-> call[r].grant, exp |-> LeaseEnd(r)]}
  /\ UNCHANGED <<credential, held>> /\ UNCHANGED world

-----------------------------------------------------------------------------
(* The world around the handlers                                           *)

Tick ==
  /\ now < MaxTime /\ now' = now + 1
  /\ disabledAt' = IF active["owner"] THEN now' ELSE disabledAt
  /\ UNCHANGED <<active, admin, credential, grant, file, leases, call, retired, changes>>
  /\ Observe

Change == changes < MaxChanges /\ changes' = changes + 1

\* Logout, a login, a role withdrawn or given, an actor suspended or reinstated.
ChangeAccounts ==
  /\ Change
  /\ \/ admin' \in {[admin EXCEPT !.session = ~@], [admin EXCEPT !.role = ~@]}
        /\ UNCHANGED <<active, disabledAt>>
     \/ \E a \in DOMAIN active :
          /\ active' = [active EXCEPT ![a] = ~@]
          /\ disabledAt' = IF a = "owner" THEN now ELSE disabledAt
        /\ UNCHANGED admin
  /\ UNCHANGED <<now, credential, grant, file, leases, call, retired>> /\ Observe

\* The operator replaces the file: the entry removed or disabled, its secret
\* rotated, its expiry moved, or something else changed.
ChangeFile ==
  /\ Change
  /\ \/ /\ grant' \in {[grant EXCEPT !.enabled = ~@], [grant EXCEPT !.secret = 3 - @],
                       [grant EXCEPT !.expires = now + MaxGrant]} \ {grant}
        /\ retired' = retired \cup {[grant |-> grant, at |-> now]} /\ UNCHANGED file
     \/ file' = (IF file = "sound" THEN "other" ELSE "sound")
        /\ retired' = retired \cup {[grant |-> grant, at |-> now]} /\ UNCHANGED grant
  /\ UNCHANGED <<now, active, admin, credential, leases, call, held, disabledAt>>

AccessNext ==
  \/ \E r \in Calls :
       \/ \E c \in Credentials : \E op \in {"use", "issue", "revoke"} : Begin(r, op, c)
       \/ \E secret \in 1..2 : AskLease(r, secret)
       \/ Auth(r) \/ Use(r) \/ Issue(r) \/ Revoke(r) \/ Lookup(r) \/ Sign(r)
  \/ Tick \/ ChangeAccounts \/ ChangeFile

AccessSpec == AccessInit /\ [][AccessNext]_accessVars

-----------------------------------------------------------------------------
\* An operation takes effect only for a caller whose session and role, or whose
\* unrevoked and unexpired credential of an active agent, held at some instant
\* since the request began: nothing revoked, expired, logged out, demoted or
\* suspended before a request is admitted by it (verify-session, with-admin).
Authorised ==
  \A r \in Calls : call[r].pc = "done" /\ call[r].op # "lease" => held[r]

\* A lease that is still live was granted by an entry in the file, for an owner
\* who was active, no more than lease-seconds ago, and does not outlive the
\* grant, however long the lookup and the signature took (relay-lease claims).
LeaseResidual ==
  \A l \in leases : now < l.exp =>
    /\ \/ l.grant = grant /\ file = "sound"
       \/ \E x \in retired : x.grant = l.grant /\ now <= x.at + LeaseSeconds
    /\ active["owner"] \/ now <= disabledAt + LeaseSeconds
    /\ now < l.grant.expires

=============================================================================
