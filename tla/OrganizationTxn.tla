-------------------------- MODULE OrganizationTxn --------------------------
(***************************************************************************)
(* The organization endpoints as they run: each request is a READ COMMITTED*)
(* transaction of its own connection, and the steps of several requests    *)
(* and of administrators interleave.  A request                            *)
(*   loads the session, the actor and the row and edits the object         *)
(*     (Begin...), then flushes one INSERT or UPDATE, which                *)
(*   locks the row and runs the BEFORE triggers on what is committed at    *)
(*     that moment (WriteRow),                                             *)
(*   enters the unique indexes and runs the AFTER triggers (EnterIndexes), *)
(*   inserts its audit event (InsertAudit), and                            *)
(*   commits (Commit).                                                     *)
(* Until the commit nobody else sees its row; a refusal, an error or a     *)
(* lost connection rolls all of it back.                                   *)
(***************************************************************************)
EXTENDS OrganizationStructure

CONSTANTS
  Requests,        \* connections that serve requests, one request at a time
  Offered,         \* bound: the endpoints and administrator's acts of this instance
  QuietDirectory   \* bound: TRUE if directory changes wait for in-flight requests

ASSUME OfferedAssumption ==
  Offered \subseteq {"create_unit", "update_unit", "move_unit", "archive_unit", "restore_unit",
                     "create_assignment", "update_assignment", "withdraw"}
ASSUME QuietDirectoryAssumption == QuietDirectory \in BOOLEAN
ASSUME IdsAssumption == UnitIds \intersect AssignmentIds = {}

VARIABLES
  pc,     \* how far the request of each connection has come
  work    \* its actor, the row it loaded, the object it edited, the row it wrote

txnVars == <<structureVars, pc, work>>

Phases == {"idle", "loaded", "spinning", "written", "flushed", "audited"}
Work ==
  [actor : Users, tenant : Tenants, role : Roles, name : Names,
   id : UnitIds \union AssignmentIds,
   old : UnitRow \union AssignmentRow \union {NoRow},
   new : UnitRow \union AssignmentRow,
   row : UnitRow \union AssignmentRow \union {NoRow}]

ASSUME WorkAssumption == NoRow \notin Work

TxnTypeOK ==
  /\ TypeOK
  /\ pc \in [Requests -> Phases]
  /\ work \in [Requests -> Work \union {NoRow}]
  /\ \A r \in Requests : (pc[r] = "idle") = (work[r] = NoRow)

TxnInit ==
  /\ Init
  /\ pc = [r \in Requests |-> "idle"]
  /\ work = [r \in Requests |-> NoRow]

-----------------------------------------------------------------------------
(* Locks. *)

\* The connection that has an uncommitted version of the row, and so its lock.
HoldsRow(s, id) == pc[s] \in {"spinning", "written", "flushed", "audited"} /\ work[s].id = id

\* The version of row id that connection r compares a new row with: the last
\* committed one.
Committed(id) == IF id \in UnitIds THEN units[id] ELSE assignments[id]

\* Two versions that one unique index cannot both hold.
Clash(id, row, other) ==
  IF id \in UnitIds THEN SameCode(row, other) ELSE other # NoRow /\ SamePlace(row, other)

SameTable(id) == IF id \in UnitIds THEN UnitIds ELSE AssignmentIds

(* An operator with an underscore is a plausible mistake in the definition   *)
(* that its name begins with; no specification uses it.                    *)
BlocksIndex_ReplacedOnly(s, r) ==
  /\ pc[s] \in {"written", "flushed", "audited"}
  /\ work[s].id \in SameTable(work[r].id) \ {work[r].id}
  /\ Clash(work[r].id, work[r].row, Committed(work[s].id))

\* s must finish before r's index entry can be judged: s has replaced a version
\* that clashes with r's, or has entered one that does.
BlocksIndex(s, r) ==
  /\ pc[s] \in {"written", "flushed", "audited"}
  /\ work[s].id \in SameTable(work[r].id) \ {work[r].id}
  /\ \/ Clash(work[r].id, work[r].row, Committed(work[s].id))
     \/ pc[s] # "written" /\ Clash(work[r].id, work[r].row, work[s].row)

WaitsFor_RowsOnly(r, s) == pc[r] = "loaded" /\ HoldsRow(s, work[r].id)

WaitsFor(r, s) ==
  \/ pc[r] = "loaded" /\ HoldsRow(s, work[r].id)
  \/ pc[r] = "written" /\ BlocksIndex(s, r)

TakenByCommitted_ActiveOnly(r) ==
  \E x \in SameTable(work[r].id) \ {work[r].id} :
    Clash(work[r].id, work[r].row, Committed(x)) /\ Committed(x).status = "active"

\* A row that is committed, not being replaced, and clashes.
TakenByCommitted(r) ==
  \E x \in SameTable(work[r].id) \ {work[r].id} :
    Clash(work[r].id, work[r].row, Committed(x))

-----------------------------------------------------------------------------
(* Loading: one action per endpoint, up to the flush. *)

\* require_session, require_context, require_write and the edit of the loaded
\* object.  The id of a new row is a fresh uuid4.
Begin(r, actor, t, id, old, new) ==
  /\ pc[r] = "idle"
  /\ CanWrite(t, actor)
  /\ old = NoRow => \A s \in Requests : work[s] # NoRow => work[s].id # id
  /\ pc' = [pc EXCEPT ![r] = "loaded"]
  /\ work' = [work EXCEPT ![r] =
       [actor |-> actor, tenant |-> t, role |-> memberships[t][actor].role,
        name |-> users[actor].name, id |-> id, old |-> old, new |-> new, row |-> NoRow]]
  /\ UNCHANGED structureVars

BeginCreateUnit(r, actor, t) ==
  \E u \in UnitIds, parent \in UnitIds \union {Top}, code \in Codes :
    /\ units[u] = NoRow
    /\ Begin(r, actor, t, u, NoRow,
             [tenant |-> t, parent |-> parent, code |-> code, status |-> "active"])

BeginUpdateUnit(r, actor, t) ==
  \E u \in UnitIds, code \in Codes :
    /\ FoundUnit(t, u)
    /\ Begin(r, actor, t, u, units[u], [units[u] EXCEPT !.code = code])

BeginMoveUnit(r, actor, t) ==
  \E u \in UnitIds, parent \in UnitIds \union {Top} :
    /\ FoundUnit(t, u)
    /\ Begin(r, actor, t, u, units[u], [units[u] EXCEPT !.parent = parent])

BeginArchiveUnit(r, actor, t) ==
  \E u \in UnitIds :
    /\ FoundUnit(t, u)
    /\ ~HasActiveDependents(u)
    /\ Begin(r, actor, t, u, units[u], [units[u] EXCEPT !.status = "archived"])

BeginRestoreUnit(r, actor, t) ==
  \E u \in UnitIds :
    /\ FoundUnit(t, u)
    /\ Begin(r, actor, t, u, units[u], [units[u] EXCEPT !.status = "active"])

BeginCreateAssignment(r, actor, t) ==
  \E a \in AssignmentIds, unit \in UnitIds, user \in Users, primary \in BOOLEAN :
    /\ assignments[a] = NoRow
    /\ Begin(r, actor, t, a, NoRow,
             [tenant |-> t, unit |-> unit, user |-> user,
              primary |-> primary, status |-> "active"])

BeginUpdateAssignment(r, actor, t) ==
  \E a \in AssignmentIds, primary \in BOOLEAN, status \in {"active", "inactive"} :
    /\ FoundAssignment(t, a)
    /\ Begin(r, actor, t, a, assignments[a],
             [assignments[a] EXCEPT !.primary = primary, !.status = status])

-----------------------------------------------------------------------------
(* The flush. *)

NewVersion_AllColumns(w) == w.new

\* SQLAlchemy writes the columns whose value differs from the loaded one; the
\* UPDATE applies them to the version that is committed when it gets the lock.
NewVersion(w) ==
  IF w.old = NoRow THEN w.new
  ELSE [f \in DOMAIN w.new |-> IF w.new[f] = w.old[f] THEN Committed(w.id)[f] ELSE w.new[f]]

\* organization_units_write, _update and their twins for assignments: without an
\* active owner or admin membership the statement finds no row or is refused.  They
\* ask the statement's snapshot, which is older than the end of its wait for the row;
\* audit_events_append asks again later, with a snapshot of its own.
MayWriteRows(w) ==
  /\ ActiveMember(w.tenant, w.actor)
  /\ memberships[w.tenant][w.actor].role \in {"owner", "admin"}

Valid_InsertOnly(w, row) ==
  IF w.id \in UnitIds THEN w.old = NoRow => ValidUnit(w.id, row) ELSE ValidAssignment(row)

\* The BEFORE triggers of the table.
Valid(w, row) ==
  IF w.id \in UnitIds
  THEN /\ ValidUnit(w.id, row)
       /\ w.old # NoRow => MayArchive(w.id, units[w.id], row)
  ELSE ValidAssignment(row)

\* The cycle query climbs a cycle that does not contain the row itself: UNION
\* ALL keeps producing rows and the statement does not return.
Diverges(w, row) ==
  /\ w.id \in UnitIds /\ row.parent # Top
  /\ w.id \notin Ancestors(row.parent)
  /\ \A x \in Ancestors(row.parent) : unitIntegrity[x] # NoRow /\ unitIntegrity[x].parent # Top

Drop_KeepsWork(r) ==
  pc' = [pc EXCEPT ![r] = "idle"] /\ UNCHANGED <<structureVars, work>>

\* Roll back: every trace of the transaction is gone.
Drop(r) ==
  /\ pc' = [pc EXCEPT ![r] = "idle"]
  /\ work' = [work EXCEPT ![r] = NoRow]
  /\ UNCHANGED structureVars

\* Move on with the transaction still invisible to the others.
Advance(r, phase) == pc' = [pc EXCEPT ![r] = phase] /\ UNCHANGED structureVars

WriteRow(r) ==
  LET w == work[r]
      row == NewVersion(w) IN
  /\ pc[r] = "loaded"
  /\ ~ \E s \in Requests : HoldsRow(s, w.id)
  /\ IF MayWriteRows(w) /\ Valid(w, row)
     THEN /\ Advance(r, IF Diverges(w, row) THEN "spinning" ELSE "written")
          /\ work' = [work EXCEPT ![r].row = row]
     ELSE Drop(r)

\* The unique indexes of the table, at once.  PostgreSQL enters the two of assignments
\* one after the other, and a circle of waits between them ends as an Abort.
EnterIndexes(r) ==
  /\ pc[r] = "written"
  /\ ~ \E s \in Requests : BlocksIndex(s, r)
  /\ IF TakenByCommitted(r) THEN Drop(r) ELSE Advance(r, "flushed") /\ UNCHANGED work

AuditAccepted_MembershipOnly(w) ==
  /\ ActiveMember(w.tenant, w.actor)
  /\ memberships[w.tenant][w.actor].role = w.role
  /\ users[w.actor].name = w.name

\* The commit first flushes the audit event; audit_events_append compares the
\* actor snapshot with the membership and the user as they are now.
AuditAccepted(w) ==
  /\ ActiveMember(w.tenant, w.actor)
  /\ memberships[w.tenant][w.actor].role = w.role
  /\ ActiveUser(w.actor)
  /\ users[w.actor].name = w.name

InsertAudit(r) ==
  /\ pc[r] = "flushed"
  /\ IF AuditAccepted(work[r]) THEN Advance(r, "audited") /\ UNCHANGED work ELSE Drop(r)

\* The row, its projection and the event become visible together; the event
\* carries the values of the object in memory.
Commit(r) ==
  LET w == work[r] IN
  /\ pc[r] = "audited"
  /\ IF w.id \in UnitIds
     THEN WriteUnit(w.id, w.row) /\ RecordUnit(w.id, w.new)
     ELSE WriteAssignment(w.id, w.row) /\ RecordAssignment(w.id, w.new)
  /\ pc' = [pc EXCEPT ![r] = "idle"]
  /\ work' = [work EXCEPT ![r] = NoRow]
  /\ UNCHANGED directoryVars

\* The process or the connection dies, or the audit payload is refused.
Abort(r) == pc[r] # "idle" /\ Drop(r)

\* After deadlock_timeout PostgreSQL cancels one of the transactions that wait
\* for each other.
DeadlockVictim(r) ==
  /\ \E S \in SUBSET Requests : r \in S /\ \A s \in S : \E b \in S : WaitsFor(s, b)
  /\ Drop(r)

-----------------------------------------------------------------------------

Load(r) ==
  \E actor \in Users, t \in Tenants :
    \/ "create_unit" \in Offered /\ BeginCreateUnit(r, actor, t)
    \/ "update_unit" \in Offered /\ BeginUpdateUnit(r, actor, t)
    \/ "move_unit" \in Offered /\ BeginMoveUnit(r, actor, t)
    \/ "archive_unit" \in Offered /\ BeginArchiveUnit(r, actor, t)
    \/ "restore_unit" \in Offered /\ BeginRestoreUnit(r, actor, t)
    \/ "create_assignment" \in Offered /\ BeginCreateAssignment(r, actor, t)
    \/ "update_assignment" \in Offered /\ BeginUpdateAssignment(r, actor, t)

\* Logins refresh users; administrators grant and, if offered, withdraw.
Administer ==
  /\ QuietDirectory => \A r \in Requests : pc[r] = "idle"
  /\ DirectoryChange
  /\ "withdraw" \notin Offered =>
       \A t \in Tenants, u \in Users : CanWrite(t, u) => CanWrite(t, u)'
  /\ UNCHANGED <<pc, work>>

TxnNext ==
  \/ \E r \in Requests :
       \/ Load(r) \/ WriteRow(r) \/ EnterIndexes(r) \/ InsertAudit(r) \/ Commit(r)
       \/ Abort(r) \/ DeadlockVictim(r)
  \/ Administer

TxnSpec == TxnInit /\ [][TxnNext]_txnVars

\* A running request keeps running; PostgreSQL queues the waiters of a lock, so
\* one whose lock is free again and again gets it; the deadlock detector wakes.
Fairness ==
  \A r \in Requests :
    /\ SF_txnVars(WriteRow(r)) /\ SF_txnVars(EnterIndexes(r))
    /\ WF_txnVars(InsertAudit(r)) /\ WF_txnVars(Commit(r)) /\ WF_txnVars(DeadlockVictim(r))

FairTxnSpec == TxnSpec /\ Fairness
-----------------------------------------------------------------------------
(* Properties. *)

\* Two requests never hold uncommitted versions of one row.
OneWriterPerRow ==
  \A r, s \in Requests : r # s /\ HoldsRow(r, work[r].id) => ~HoldsRow(s, work[r].id)

\* A commit changes only the columns its request edited: an edit of another
\* column by a request that ran meanwhile survives it (no lost update).
UneditedColumnsSurvive ==
  [][\A r \in Requests :
       /\ pc[r] = "audited" /\ work[r].old # NoRow
       /\ pc'[r] = "idle" /\ <<units, assignments>>' # <<units, assignments>>
       => \A f \in DOMAIN work[r].new : work[r].new[f] = work[r].old[f] =>
            IF work[r].id \in UnitIds THEN units'[work[r].id][f] = units[work[r].id][f]
            ELSE assignments'[work[r].id][f] = assignments[work[r].id][f]]_txnVars

\* The values an event reports for the columns that a step changes.
Reported(before, after, event) ==
  /\ event # NoRow
  /\ IF before = NoRow THEN event = after
     ELSE \A f \in DOMAIN after : after[f] # before[f] => event[f] = after[f]

\* No change of a unit or an assignment becomes visible without its audit event
\* in the same step, and the event reports every changed column as it now is, of those
\* that _unit_values and _assignment_values name (description is in neither).
EveryChangeIsAudited ==
  [][/\ \A u \in UnitIds :
          units'[u] # units[u] => Reported(units[u], units'[u], unitTrail'[u])
     /\ \A a \in AssignmentIds : assignments'[a] # assignments[a] =>
          Reported(assignments[a], assignments'[a], assignmentTrail'[a])]_txnVars

\* An actor who was demoted, revoked or disabled after the request loaded, at any
\* point before its audit event is inserted, does not get the change through.
LostAuthorityStopsRequest ==
  [][\A r \in Requests :
       pc[r] \in {"loaded", "written", "flushed"} /\ ~CanWrite(work[r].tenant, work[r].actor)
       => pc'[r] # "audited"]_txnVars

\* The validation query runs away only where the committed hierarchy has a cycle
\* already: as long as it has none, every trigger terminates.
SpinningStartsOnCycle ==
  [][\A r \in Requests :
       pc[r] # "spinning" /\ pc'[r] = "spinning" => ~Acyclic]_txnVars

\* Every request ends, through lock waits, refusals and deadlocks, unless its
\* validation query climbs a cycle.
EveryRequestEnds == \A r \in Requests : pc[r] # "idle" ~> pc[r] \in {"idle", "spinning"}

\* No overlap carries a row into another tenant: an assignment, active or not, is
\* on a unit of its own tenant, though the triggers of two requests do not see
\* each other's rows.
AssignmentsInTenant ==
  \A a \in AssignmentIds : assignments[a] # NoRow =>
    /\ units[assignments[a].unit] # NoRow
    /\ units[assignments[a].unit].tenant = assignments[a].tenant

\* A row changes only by a request whose actor was an owner or admin of the row's
\* tenant when it loaded, no row changes its tenant, and none disappears.
RowsKeepTenant ==
  [][\A id \in UnitIds \union AssignmentIds : Committed(id)' # Committed(id) =>
       /\ Committed(id)' # NoRow
       /\ Committed(id) # NoRow => Committed(id)'.tenant = Committed(id).tenant
       /\ \E r \in Requests :
            /\ pc[r] = "audited" /\ work[r].id = id /\ work[r].role \in {"owner", "admin"}
            /\ work[r].tenant = Committed(id)'.tenant]_txnVars

\* Waiters in a circle wait for unique indexes, and one of them has replaced a
\* committed value that another wants: requests that only create never deadlock.
DeadlocksNeedReplacement ==
  \A S \in (SUBSET Requests) \ {{}} :
    (\A s \in S : \E b \in S : WaitsFor(s, b)) =>
      \E b, s \in S : /\ pc[b] = "written" /\ pc[s] = "written" /\ work[s].old # NoRow
                     /\ Clash(work[b].id, work[b].row, Committed(work[s].id))

\* What a request was allowed to do when its statements checked it still holds.
StillAllowed(w) ==
  /\ CanWrite(w.tenant, w.actor)
  /\ w.id \in AssignmentIds => ValidAssignment(w.row)

\* One connection, and users and memberships that change between its steps: a
\* request adds up to one step of the serial specification or to none, unless what
\* it was allowed to do lapsed after the check that asked for it.
SerialUnlessLapsed ==
  [][\/ Next \/ UNCHANGED structureVars
     \/ \E r \in Requests : Commit(r) /\ ~StillAllowed(work[r])]_txnVars

\* The row is as the request loaded it, and the triggers would accept the new
\* version and its actor again.
StillCurrent(w) ==
  /\ CanWrite(w.tenant, w.actor)
  /\ w.old # NoRow => Committed(w.id) = w.old
  /\ Valid(w, w.row)

\* Any number of connections: whatever overlaps, a commit that is no step of the
\* serial specification comes of a stale row, trigger check or authority; the
\* unique indexes and the fresh ids never are the cause.
SerialUnlessStale ==
  [][\/ Next \/ UNCHANGED structureVars
     \/ \E r \in Requests : Commit(r) /\ ~StillCurrent(work[r])]_txnVars

-----------------------------------------------------------------------------
(* Which overlaps are at fault for what MCTxnCycle and MCTxnStrayAssignment show. *)

\* The request has passed its trigger and has not ended.
Validated(r) == pc[r] \in {"written", "flushed", "audited"}

Moving(r) ==
  /\ Validated(r) /\ work[r].id \in UnitIds /\ work[r].old # NoRow
  /\ work[r].new.parent # work[r].old.parent

Archiving(r) ==
  /\ Validated(r) /\ work[r].id \in UnitIds /\ work[r].old # NoRow
  /\ work[r].new.status = "archived" /\ work[r].old.status = "active"

\* The version r will commit is an active unit below u or an active assignment on u.
DependsOn(r, u) ==
  /\ Validated(r) /\ work[r].row.status = "active"
  /\ IF work[r].id \in UnitIds THEN work[r].row.parent = u ELSE work[r].row.unit = u

\* No two moves of one tenant are past their triggers at a time.
MovesExclude ==
  \A r, s \in Requests : r # s /\ Moving(r) /\ Moving(s) => work[r].tenant # work[s].tenant

\* Nor are an archive and the write of an active dependent of its unit.
ArchivesExclude ==
  \A r, s \in Requests : Archiving(r) => ~DependsOn(s, work[r].id)

\* Only such a pair leaves a unit active below an archived one: a child created after
\* the archive's own check is found by its trigger, however the rest overlaps.
StrayUnitsNeedOverlap == []ArchivesExclude => []NoActiveBelowArchived
=============================================================================
