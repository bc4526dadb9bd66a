------------------------------ MODULE Sessions ------------------------------
(***************************************************************************)
(* Application sessions and the overlapping requests of their browser:     *)
(* the sign-in that ends a callback, POST /auth/tenant, GET                *)
(* /tenant/context and POST /auth/logout.  A request loads the session     *)
(* (Authenticate), reads memberships (LookUp), runs the statements of its  *)
(* flush (WriteSession, AppendEvent; the unit of work fixes no order       *)
(* between two tables) and commits.  Users and memberships change between  *)
(* these steps.                                                            *)
(***************************************************************************)
EXTENDS MemberDirectory

CONSTANTS
  Sids,       \* session ids, one for each sign-in
  Requests,   \* database connections, one for each request in flight
  NoTenant,   \* current_tenant_id is NULL
  Closed      \* a revoked session, as SessionLifecycle has it

ASSUME NoTenantAssumption == NoTenant \notin Tenants
ASSUME ClosedAssumption ==
  /\ Closed # NoRow
  /\ {NoRow, Closed} \intersect [user : Users, tenant : Tenants \union {NoTenant}] = {}

VARIABLES
  sessions,   \* application_sessions
  expired,    \* sessions whose expires_at has passed
  choices,    \* sessions and tenants of committed auth.tenant_selected events
              \* and of the automatic choice at sign-in
  pc,         \* how far the request of each connection has come
  work        \* what the request read, and the statements it has still to run

sessionVars == <<sessions, expired, choices, pc, work>>
allVars == <<directoryVars, sessionVars>>

SessionRow == [user : Users, tenant : Tenants \union {NoTenant}, revoked : BOOLEAN]
SignInWork == [op : {"sign_in"}, sid : Sids, user : Users, name : Names,
               tenant : Tenants \union {NoTenant}, todo : SUBSET {"session"}]
SessionWork == [op : {"select", "context", "logout"}, sid : Sids, loaded : SessionRow,
                name : Names, tenant : Tenants \union {NoTenant},
                role : Roles \union {NoRow}, todo : SUBSET {"session", "event"}]

ASSUME NoWorkAssumption == NoRow \notin SessionRow \union SignInWork \union SessionWork

SessionsTypeOK ==
  /\ sessions \in [Sids -> SessionRow \union {NoRow}]
  /\ expired \subseteq Sids
  /\ choices \subseteq Sids \X Tenants
  /\ pc \in [Requests -> {"idle", "loaded", "flushing"}]
  /\ work \in [Requests -> SignInWork \union SessionWork \union {NoRow}]
  /\ \A r \in Requests : (pc[r] = "idle") = (work[r] = NoRow)

SessionsInit ==
  /\ DirectoryInit
  /\ sessions = [s \in Sids |-> NoRow]
  /\ expired = {}
  /\ choices = {}
  /\ pc = [r \in Requests |-> "idle"]
  /\ work = [r \in Requests |-> NoRow]

-----------------------------------------------------------------------------
(* Reading. *)

Begin(r, w, phase) ==
  /\ pc[r] = "idle"
  /\ pc' = [pc EXCEPT ![r] = phase]
  /\ work' = [work EXCEPT ![r] = w]
  /\ UNCHANGED <<directoryVars, sessions, expired, choices>>

\* A callback has validated its claims and found the user, or none yet.  The
\* event loop runs one callback at a time from here to its commit.
SignIn(r) ==
  \E s \in Sids, u \in Users, n \in Names :
    /\ sessions[s] = NoRow
    /\ users[u] = NoRow \/ ActiveUser(u)
    /\ \A q \in Requests : work[q] # NoRow => work[q].op # "sign_in"
    /\ Begin(r, [op |-> "sign_in", sid |-> s, user |-> u, name |-> n,
                 tenant |-> NoTenant, todo |-> {"session"}], "loaded")

\* require_session
MayUse(s) ==
  /\ sessions[s] # NoRow /\ ~sessions[s].revoked /\ s \notin expired
  /\ ActiveUser(sessions[s].user)

Authenticate(r) ==
  \E s \in Sids, op \in {"select", "context", "logout"}, t \in Tenants \union {NoTenant} :
    /\ MayUse(s)
    /\ CASE op = "select" -> t \in Tenants
         [] op = "context" -> t # NoTenant /\ t = sessions[s].tenant
         [] op = "logout" -> t = NoTenant
    /\ Begin(r, [op |-> op, sid |-> s, loaded |-> sessions[s],
                 name |-> users[sessions[s].user].name, tenant |-> t, role |-> NoRow,
                 todo |-> IF op = "logout" THEN {"session"} ELSE {}],
             IF op = "logout" THEN "flushing" ELSE "loaded")

\* Roll back: every trace of the transaction is gone.
Drop(r) ==
  /\ pc' = [pc EXCEPT ![r] = "idle"]
  /\ work' = [work EXCEPT ![r] = NoRow]
  /\ UNCHANGED <<directoryVars, sessions, expired, choices>>

Flush(r, w) ==
  /\ pc' = [pc EXCEPT ![r] = "flushing"]
  /\ work' = [work EXCEPT ![r] = w]
  /\ UNCHANGED <<directoryVars, sessions, expired, choices>>

\* The only active membership of a user, if there is exactly one.
SoleTenant(u) ==
  LET active == {t \in Tenants : ActiveMember(t, u)} IN
  IF \E t \in Tenants : active = {t} THEN CHOOSE t \in active : TRUE ELSE NoTenant

\* The memberships query.  A select of the tenant that was loaded leaves the object
\* as it is; a context whose membership is gone takes the tenant out of it, and
\* one whose membership is active has its answer.
LookUp(r) ==
  LET w == work[r] IN
  /\ pc[r] = "loaded"
  /\ \/ /\ w.op = "sign_in"
        /\ Flush(r, [w EXCEPT !.tenant = SoleTenant(w.user)])
     \/ /\ w.op = "select"
        /\ IF ActiveMember(w.tenant, w.loaded.user)
           THEN Flush(r, [w EXCEPT
                  !.role = memberships[w.tenant][w.loaded.user].role,
                  !.todo = IF w.loaded.tenant = w.tenant THEN {"event"}
                           ELSE {"session", "event"}])
           ELSE Drop(r)
     \/ /\ w.op = "context"
        /\ IF ActiveMember(w.tenant, w.loaded.user) THEN Drop(r)
           ELSE Flush(r, [w EXCEPT !.todo = {"session"}])

-----------------------------------------------------------------------------
(* Writing. *)

WritesSession(w) == w.op = "select" => w.loaded.tenant # w.tenant

(* An operator with an underscore is a plausible mistake in the definition   *)
(* that its name begins with; no specification uses it.                    *)
Written_AllColumns(w) ==
  CASE w.op = "sign_in" -> [user |-> w.user, tenant |-> w.tenant, revoked |-> FALSE]
    [] w.op = "select" -> [w.loaded EXCEPT !.tenant = w.tenant]
    [] w.op = "context" -> [w.loaded EXCEPT !.tenant = NoTenant]
    [] w.op = "logout" -> [w.loaded EXCEPT !.tenant = NoTenant, !.revoked = TRUE]

Written_LogoutKeepsTenant(w) ==
  LET row == sessions[w.sid] IN
  CASE w.op = "sign_in" -> [user |-> w.user, tenant |-> w.tenant, revoked |-> FALSE]
    [] w.op = "select" -> [row EXCEPT !.tenant = w.tenant]
    [] w.op = "context" -> [row EXCEPT !.tenant = NoTenant]
    [] w.op = "logout" -> [row EXCEPT !.revoked = TRUE]

\* The version a flush leaves: the columns that differ from the loaded object, on
\* top of the version that is committed when the statement gets the row's lock.
Written(w) ==
  LET row == sessions[w.sid] IN
  CASE w.op = "sign_in" -> [user |-> w.user, tenant |-> w.tenant, revoked |-> FALSE]
    [] w.op = "select" -> [row EXCEPT !.tenant = w.tenant]
    [] w.op = "context" -> [row EXCEPT !.tenant = NoTenant]
    [] w.op = "logout" ->
         [row EXCEPT !.revoked = TRUE,
                     !.tenant = IF w.loaded.tenant = NoTenant THEN @ ELSE NoTenant]

\* sessions_by_secret, WITH CHECK
MayStore(row) == row.tenant = NoTenant \/ ActiveMember(row.tenant, row.user)

HoldsSession_SharedRead(q, s) == pc[q] = "flushing" /\ work[q].sid = s

\* The connection that has an uncommitted version of the session, and so its lock.
HoldsSession(q, s) ==
  /\ pc[q] = "flushing" /\ work[q].sid = s
  /\ WritesSession(work[q]) /\ "session" \notin work[q].todo

Done(r, statement) ==
  /\ work' = [work EXCEPT ![r].todo = @ \ {statement}]
  /\ UNCHANGED <<directoryVars, sessions, expired, choices, pc>>

WriteSession(r) ==
  /\ pc[r] = "flushing" /\ "session" \in work[r].todo
  /\ \A q \in Requests \ {r} : ~HoldsSession(q, work[r].sid)
  /\ IF MayStore(Written(work[r])) THEN Done(r, "session") ELSE Drop(r)

\* audit_events_append
AppendEvent(r) ==
  LET w == work[r] IN
  /\ pc[r] = "flushing" /\ "event" \in w.todo
  /\ IF /\ ActiveUser(w.loaded.user) /\ users[w.loaded.user].name = w.name
        /\ ActiveMember(w.tenant, w.loaded.user)
        /\ memberships[w.tenant][w.loaded.user].role = w.role
     THEN Done(r, "event") ELSE Drop(r)

\* The sign-in's changes to the user's row and, through its trigger, to the
\* projections: a new row, or the name refreshed.
RefreshFromClaims(w) ==
  LET row == IF users[w.user] = NoRow THEN [name |-> w.name, status |-> "active"]
             ELSE [users[w.user] EXCEPT !.name = w.name] IN
  /\ users' = [users EXCEPT ![w.user] = row]
  /\ SyncUser(w.user, row)
  /\ UNCHANGED memberships

Recorded(w) ==
  IF w.op \in {"sign_in", "select"} /\ w.tenant # NoTenant THEN {<<w.sid, w.tenant>>} ELSE {}

Commit_BeforeEvent(r) ==
  LET w == work[r] IN
  /\ pc[r] = "flushing" /\ "session" \notin w.todo
  /\ sessions' = IF WritesSession(w) THEN [sessions EXCEPT ![w.sid] = Written(w)] ELSE sessions
  /\ choices' = IF w.todo = {} THEN choices \union Recorded(w) ELSE choices
  /\ IF w.op = "sign_in" THEN RefreshFromClaims(w) ELSE UNCHANGED directoryVars
  /\ pc' = [pc EXCEPT ![r] = "idle"]
  /\ work' = [work EXCEPT ![r] = NoRow]
  /\ UNCHANGED expired

Commit(r) ==
  LET w == work[r] IN
  /\ pc[r] = "flushing" /\ w.todo = {}
  /\ sessions' = IF WritesSession(w) THEN [sessions EXCEPT ![w.sid] = Written(w)] ELSE sessions
  /\ choices' = choices \union Recorded(w)
  /\ IF w.op = "sign_in" THEN RefreshFromClaims(w) ELSE UNCHANGED directoryVars
  /\ pc' = [pc EXCEPT ![r] = "idle"]
  /\ work' = [work EXCEPT ![r] = NoRow]
  /\ UNCHANGED expired

\* The process or the connection dies.
Abort(r) == pc[r] # "idle" /\ Drop(r)

-----------------------------------------------------------------------------
(* What happens meanwhile. *)

Expire(s) ==
  /\ sessions[s] # NoRow /\ s \notin expired
  /\ expired' = expired \union {s}
  /\ UNCHANGED <<directoryVars, sessions, choices, pc, work>>

\* A sign-in that has flushed holds the row of its user.
HoldsUser(q, u) == pc[q] = "flushing" /\ work[q].op = "sign_in" /\ work[q].user = u

Administer ==
  /\ \E u \in Users :
       \/ \E s \in {"active", "disabled"} :
            SetUserStatus(u, s) /\ \A q \in Requests : ~HoldsUser(q, u)
       \/ \E t \in Tenants :
            \/ \E role \in Roles, s \in {"active", "revoked"} : WriteMembership(t, u, role, s)
            \/ DeleteMembership(t, u)
  /\ UNCHANGED sessionVars

SessionsNext ==
  \/ \E r \in Requests :
       \/ SignIn(r) \/ Authenticate(r) \/ LookUp(r) \/ WriteSession(r) \/ AppendEvent(r)
       \/ Commit(r) \/ Abort(r)
  \/ \E s \in Sids : Expire(s)
  \/ Administer

SessionsSpec == SessionsInit /\ [][SessionsNext]_allVars

\* A running request keeps running, and gets a lock that is free again and again.
SessionsFairness ==
  \A r \in Requests :
    /\ WF_allVars(LookUp(r)) /\ SF_allVars(WriteSession(r))
    /\ WF_allVars(AppendEvent(r)) /\ WF_allVars(Commit(r))

FairSessionsSpec == SessionsSpec /\ SessionsFairness

-----------------------------------------------------------------------------
(* Properties. *)

\* A session is in a tenant only if a committed tenant-selected event, or the
\* automatic choice at its sign-in, put it there: also when the selection raced
\* with a logout, another selection, or a context that found its tenant gone.
TenantBackedByChoice ==
  \A s \in Sids :
    sessions[s] # NoRow /\ sessions[s].tenant # NoTenant
    => <<s, sessions[s].tenant>> \in choices

\* A logout that no other request of the session overlapped succeeds, also after the
\* membership of its current tenant was revoked: sessions_by_secret refuses it
\* only when a selection that committed meanwhile has lost its membership.
LogoutRefusedOnlyAfterRace ==
  [][\A r \in Requests :
       WriteSession(r) /\ pc'[r] = "idle" /\ work[r].op = "logout"
       => sessions[work[r].sid].tenant # work[r].loaded.tenant]_allVars

\* Requests that wait for a session's row never wait for each other in a circle.
EveryRequestEnds == \A r \in Requests : pc[r] # "idle" ~> pc[r] = "idle"

\* Sessions as their owner sees them.  Whatever a late request writes into the row
\* of a revoked session cannot be seen: require_session refuses it.
Lifecycle == INSTANCE SessionLifecycle WITH
  Absent <- NoRow,
  session <- [s \in Sids |->
    IF sessions[s] = NoRow THEN NoRow
    ELSE IF sessions[s].revoked THEN Closed
    ELSE [user |-> sessions[s].user, tenant |-> sessions[s].tenant]]

\* Sessions implement their lifecycle: no overlap of requests reopens a session,
\* hands it to another user or moves it to a tenant without a recorded choice.
ImplementsLifecycle == Lifecycle!Spec
=============================================================================
