------------------------ MODULE MemberDirectoryTxn ------------------------
(***************************************************************************)
(* The directory triggers as READ COMMITTED transactions run them.  A      *)
(* writer changes one row of users or of memberships and locks it          *)
(* (Change...); the trigger's statement takes its snapshot (Look); the     *)
(* rows it writes in the member projection are locked once their holders   *)
(* have finished (Sync); all of it becomes visible at the end (Commit).    *)
(* The foreign key from memberships takes a lock on the user that an       *)
(* update of its name or status does not conflict with.  A login checks    *)
(* that its user is active in the same step that changes the row.  The     *)
(* bootstrap, whose one transaction changes many rows, is DirectoryBootstrap.*)
(***************************************************************************)
EXTENDS MemberDirectory

CONSTANT Writers   \* connections: logins and administrators

VARIABLES
  phase,   \* idle, changed, looked, synced
  txn,     \* the row a writer changes and what its snapshot showed
  alone    \* history: no other transaction was open during this one

directoryTxnVars == <<directoryVars, phase, txn, alone>>

UserTxn == [table : {"users"}, user : Users, row : UserRow, tenants : SUBSET Tenants]
MembershipTxn == [table : {"memberships"}, user : Users, tenant : Tenants,
                  row : MembershipRow \union {NoRow}, seen : UserRow \union {NoRow}]

ASSUME NoTxnAssumption == NoRow \notin UserTxn \union MembershipTxn

DirectoryTxnTypeOK ==
  /\ DirectoryTypeOK
  /\ phase \in [Writers -> {"idle", "changed", "looked", "synced"}]
  /\ txn \in [Writers -> UserTxn \union MembershipTxn \union {NoRow}]
  /\ alone \in [Writers -> BOOLEAN]
  /\ \A w \in Writers : (phase[w] = "idle") = (txn[w] = NoRow)

DirectoryTxnInit ==
  /\ DirectoryInit
  /\ phase = [w \in Writers |-> "idle"]
  /\ txn = [w \in Writers |-> NoRow]
  /\ alone = [w \in Writers |-> TRUE]

-----------------------------------------------------------------------------

ChangingUser(w, u) == txn[w] # NoRow /\ txn[w].table = "users" /\ txn[w].user = u
ChangingMembership(w, t, u) ==
  txn[w] # NoRow /\ txn[w].table = "memberships" /\ txn[w].user = u /\ txn[w].tenant = t

\* A transaction opens, while those that are open stay so.
Open(w) ==
  alone' = [v \in Writers |-> IF v = w THEN \A x \in Writers \ {w} : phase[x] = "idle"
                              ELSE phase[v] = "idle"]

\* The statement that changes the base row: it waits for the row's holder.
ChangeUser(w, u, row) ==
  /\ phase[w] = "idle"
  /\ ~ \E v \in Writers : ChangingUser(v, u)
  /\ phase' = [phase EXCEPT ![w] = "changed"]
  /\ txn' = [txn EXCEPT ![w] =
       [table |-> "users", user |-> u, row |-> row, tenants |-> {}]]
  /\ Open(w)
  /\ UNCHANGED directoryVars

ChangeMembership(w, t, u, row) ==
  /\ phase[w] = "idle"
  /\ users[u] # NoRow
  /\ ~ \E v \in Writers : ChangingMembership(v, t, u)
  /\ phase' = [phase EXCEPT ![w] = "changed"]
  /\ txn' = [txn EXCEPT ![w] =
       [table |-> "memberships", user |-> u, tenant |-> t, row |-> row, seen |-> NoRow]]
  /\ Open(w)
  /\ UNCHANGED directoryVars

\* The snapshot of the trigger's statement on the member projection: the rows of
\* the user, or the user's row in the user projection.
Look(w) ==
  LET x == txn[w] IN
  /\ phase[w] = "changed"
  /\ phase' = [phase EXCEPT ![w] = "looked"]
  /\ txn' = [txn EXCEPT ![w] =
       IF x.table = "users"
       THEN [x EXCEPT !.tenants = {t \in Tenants : memberDirectory[t][x.user] # NoRow}]
       ELSE [x EXCEPT !.seen = userDirectory[x.user]]]
  /\ UNCHANGED <<directoryVars, alone>>

\* Rows of the member projection that a transaction writes.
Targets(x) ==
  IF x.table = "users" THEN x.tenants \X {x.user} ELSE {<<x.tenant, x.user>>}

\* A writer waits for the rows other transactions have written, then writes the
\* version they leave.
Sync(w) ==
  /\ phase[w] = "looked"
  /\ \A v \in Writers : phase[v] = "synced" => Targets(txn[v]) \intersect Targets(txn[w]) = {}
  /\ phase' = [phase EXCEPT ![w] = "synced"]
  /\ UNCHANGED <<directoryVars, txn, alone>>

(* An operator with an underscore is a plausible mistake in the definition   *)
(* that its name begins with; no specification uses it.                    *)
WithUser_NameOnly(old, row) == IF old = NoRow THEN NoRow ELSE [old EXCEPT !.name = row.name]

\* What a transaction on users leaves in a projection row: nothing if the row
\* was deleted meanwhile.
WithUser(old, row) ==
  IF old = NoRow THEN NoRow
  ELSE [name |-> row.name, role |-> old.role, membership |-> old.membership, user |-> row.status]

WithMembership_InsertOnly(old, x) ==
  IF x.row = NoRow THEN NoRow
  ELSE IF old # NoRow \/ x.seen = NoRow THEN old
  ELSE [name |-> x.seen.name, role |-> x.row.role, membership |-> x.row.status,
        user |-> x.seen.status]

\* What a transaction on memberships leaves: the user's part is what it saw.
WithMembership(old, x) ==
  IF x.row = NoRow THEN NoRow
  ELSE IF x.seen = NoRow THEN old
  ELSE [name |-> x.seen.name, role |-> x.row.role, membership |-> x.row.status,
        user |-> x.seen.status]

\* What is left for writer v to do once x has committed: its UPDATE skips a row deleted
\* after its snapshot, also when another was inserted in its place.
StillToWrite(v, x) ==
  IF /\ phase[v] = "looked" /\ txn[v].table = "users" /\ txn[v].user = x.user
     /\ x.table = "memberships" /\ x.row = NoRow
  THEN [txn[v] EXCEPT !.tenants = @ \ {x.tenant}]
  ELSE txn[v]

CommitUser(x) ==
  /\ users' = [users EXCEPT ![x.user] = x.row]
  /\ userDirectory' = [userDirectory EXCEPT ![x.user] = x.row]
  /\ memberDirectory' =
       [t \in Tenants |->
         IF t \notin x.tenants THEN memberDirectory[t]
         ELSE [memberDirectory[t] EXCEPT ![x.user] = WithUser(memberDirectory[t][x.user], x.row)]]
  /\ UNCHANGED memberships

CommitMembership(x) ==
  /\ memberships' = [memberships EXCEPT ![x.tenant][x.user] = x.row]
  /\ memberDirectory' = [memberDirectory EXCEPT
       ![x.tenant][x.user] = WithMembership(memberDirectory[x.tenant][x.user], x)]
  /\ UNCHANGED <<users, userDirectory>>

Forget(w) ==
  /\ phase' = [phase EXCEPT ![w] = "idle"]
  /\ txn' = [txn EXCEPT ![w] = NoRow]
  /\ alone' = [alone EXCEPT ![w] = TRUE]

Commit(w) ==
  /\ phase[w] = "synced"
  /\ IF txn[w].table = "users" THEN CommitUser(txn[w]) ELSE CommitMembership(txn[w])
  /\ phase' = [phase EXCEPT ![w] = "idle"]
  /\ txn' = [v \in Writers |-> IF v = w THEN NoRow ELSE StillToWrite(v, txn[w])]
  /\ alone' = [alone EXCEPT ![w] = TRUE]

\* A rollback, at any point.
Rollback(w) == phase[w] # "idle" /\ Forget(w) /\ UNCHANGED directoryVars

-----------------------------------------------------------------------------

\* The first login of a user, a later one under a new name (SQLAlchemy leaves an
\* unchanged name out of its UPDATE), and what administrators change.
Change(w) ==
  \E u \in Users :
    \/ \E n \in Names : users[u] = NoRow /\ ChangeUser(w, u, [name |-> n, status |-> "active"])
    \/ \E n \in Names :
         ActiveUser(u) /\ users[u].name # n /\ ChangeUser(w, u, [users[u] EXCEPT !.name = n])
    \/ \E s \in {"active", "disabled"} :
         users[u] # NoRow /\ ChangeUser(w, u, [users[u] EXCEPT !.status = s])
    \/ \E t \in Tenants :
         \/ \E r \in Roles, s \in {"active", "revoked"} :
              ChangeMembership(w, t, u, [role |-> r, status |-> s])
         \/ memberships[t][u] # NoRow /\ ChangeMembership(w, t, u, NoRow)

DirectoryTxnNext ==
  \E w \in Writers : Change(w) \/ Look(w) \/ Sync(w) \/ Commit(w) \/ Rollback(w)

DirectoryTxnSpec == DirectoryTxnInit /\ [][DirectoryTxnNext]_directoryTxnVars

-----------------------------------------------------------------------------
(* Properties. *)

\* Whatever overlaps, a projection row exists exactly for a membership and has
\* its role and status: a revocation is never undone in the projection.
MembershipPartMirrors ==
  \A t \in Tenants, u \in Users :
    IF memberships[t][u] = NoRow THEN memberDirectory[t][u] = NoRow
    ELSE /\ memberDirectory[t][u] # NoRow
         /\ memberDirectory[t][u].role = memberships[t][u].role
         /\ memberDirectory[t][u].membership = memberships[t][u].status

PastSnapshot(w) == phase[w] \in {"looked", "synced"}

\* The condition under which the triggers are exact: no writer of a user and writer
\* of one of its memberships hold the snapshots of their triggers at once.
SnapshotsApart ==
  \A v, w \in Writers :
    PastSnapshot(v) /\ PastSnapshot(w) /\ txn[v].table = "users" /\ txn[w].table = "memberships"
      => txn[v].user # txn[w].user

\* The commit of a transaction during which no other was open, whatever overlapped
\* before it, is a step of the serial directory: the trigger's snapshot, waits and
\* merge add up to the one update that MemberDirectory describes.
LoneWriterIsSerial ==
  [][\A w \in Writers : Commit(w) /\ alone[w] => DirectoryNext]_directoryTxnVars
=============================================================================
