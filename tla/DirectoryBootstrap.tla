------------------------- MODULE DirectoryBootstrap -------------------------
(***************************************************************************)
(* The bootstrap of the local identities beside logins and administrators. *)
(* Its one transaction upserts users and then their memberships: it keeps  *)
(* the rows of each statement, and those its trigger wrote, while it waits *)
(* for the row of the next.  A writer that holds such a row may wait for   *)
(* one the bootstrap keeps, and then the deadlock detector rolls one of    *)
(* them back.  The others change one row in a transaction.                 *)
(***************************************************************************)
EXTENDS MemberDirectoryTxn, Integers, Sequences

CONSTANT Seed   \* the upserts of _seed_application on users and memberships, in order

VARIABLES
  pos,    \* the statement of Seed that a writer is at; 0 if it is no bootstrap
  kept    \* what earlier statements of its transaction have written

seedVars == <<pos, kept>>
bootstrapVars == <<directoryTxnVars, seedVars>>

UserSeed == [table : {"users"}, user : Users, row : [name : Names, status : {"active"}]]
MembershipSeed == [table : {"memberships"}, user : Users, tenant : Tenants,
                   row : [role : Roles, status : {"active"}]]

\* One row of a base table.
SameRow(x, y) ==
  /\ x.table = y.table /\ x.user = y.user
  /\ x.table = "memberships" => x.tenant = y.tenant

\* A user comes before its memberships, and no row comes twice.
ASSUME SeedAssumption ==
  /\ Seed \in Seq(UserSeed \union MembershipSeed)
  /\ \A i \in DOMAIN Seed : Seed[i].table = "memberships" =>
       \E j \in 1..(i - 1) : Seed[j].table = "users" /\ Seed[j].user = Seed[i].user
  /\ \A i, j \in DOMAIN Seed : SameRow(Seed[i], Seed[j]) => i = j

BootstrapTypeOK ==
  /\ DirectoryTxnTypeOK
  /\ pos \in [Writers -> 0..Len(Seed)]
  /\ kept \in [Writers -> SUBSET (UserTxn \union MembershipTxn)]
  /\ \A w \in Writers : pos[w] = 0 => kept[w] = {}

BootstrapInit ==
  /\ DirectoryTxnInit
  /\ pos = [w \in Writers |-> 0]
  /\ kept = [w \in Writers |-> {}]

-----------------------------------------------------------------------------
(* Locks. *)

\* w has changed the base row of x and has not ended.
HoldsBaseRow(w, x) == (txn[w] # NoRow /\ SameRow(txn[w], x)) \/ \E y \in kept[w] : SameRow(y, x)

\* w has written one of the rows of the member projection that x is to write.
HoldsTargets(w, x) ==
  \E y \in kept[w] \union (IF phase[w] = "synced" THEN {txn[w]} ELSE {}) :
    Targets(y) \intersect Targets(x) # {}

(* An operator with an underscore is a plausible mistake in the definition   *)
(* that its name begins with; no specification uses it.                    *)
WaitsFor_ProjectionsOnly(v, w) == v # w /\ phase[v] = "looked" /\ HoldsTargets(w, txn[v])

\* v cannot go on before w has ended.
WaitsFor(v, w) ==
  /\ v # w
  /\ \/ phase[v] = "looked" /\ HoldsTargets(w, txn[v])
     \/ phase[v] = "synced" /\ pos[v] \in 1..(Len(Seed) - 1) /\ HoldsBaseRow(w, Seed[pos[v] + 1])

-----------------------------------------------------------------------------
(* Logins and administrators. *)

OneRowStep(w) ==
  /\ pos[w] = 0
  /\ \/ Change(w) /\ \A v \in Writers : ~ \E y \in kept[v] : SameRow(y, txn'[w])
     \/ Look(w)
     \/ Sync(w) /\ \A v \in Writers : ~HoldsTargets(v, txn[w])
     \/ Commit(w)
     \/ Rollback(w)
  /\ UNCHANGED seedVars

-----------------------------------------------------------------------------
(* The bootstrap. *)

\* The upsert of row i: it waits for whoever holds the row.
Upsert(w, i) ==
  LET x == Seed[i] IN
  /\ \A v \in Writers \ {w} : ~HoldsBaseRow(v, x)
  /\ phase' = [phase EXCEPT ![w] = "changed"]
  /\ txn' = [txn EXCEPT ![w] =
       IF x.table = "users"
       THEN [table |-> "users", user |-> x.user, row |-> x.row, tenants |-> {}]
       ELSE [table |-> "memberships", user |-> x.user, tenant |-> x.tenant, row |-> x.row,
             seen |-> NoRow]]
  /\ pos' = [pos EXCEPT ![w] = i]
  /\ UNCHANGED directoryVars

\* No step of the serial directory is a bootstrap, so that it never counts as alone.
BeginSeed(w) ==
  /\ phase[w] = "idle" /\ Seed # <<>>
  /\ Upsert(w, 1)
  /\ alone' = [v \in Writers |-> v # w /\ phase[v] = "idle"]
  /\ UNCHANGED kept

NextSeed(w) ==
  /\ phase[w] = "synced" /\ pos[w] \in 1..(Len(Seed) - 1)
  /\ kept' = [kept EXCEPT ![w] = @ \union {txn[w]}]
  /\ Upsert(w, pos[w] + 1)
  /\ UNCHANGED alone

LookSeed_Committed(w) == pos[w] > 0 /\ Look(w) /\ UNCHANGED seedVars

\* The triggers' snapshots; that of a membership shows the user's row which the
\* transaction itself has written.
LookSeed(w) ==
  LET x == txn[w] IN
  /\ pos[w] > 0
  /\ IF x # NoRow /\ x.table = "memberships"
     THEN /\ phase[w] = "changed"
          /\ phase' = [phase EXCEPT ![w] = "looked"]
          /\ \E y \in kept[w] : /\ y.table = "users" /\ y.user = x.user
                                /\ txn' = [txn EXCEPT ![w].seen = y.row]
          /\ UNCHANGED <<directoryVars, alone>>
     ELSE Look(w)
  /\ UNCHANGED seedVars

SyncSeed(w) ==
  /\ pos[w] > 0
  /\ Sync(w) /\ \A v \in Writers \ {w} : ~HoldsTargets(v, txn[w])
  /\ UNCHANGED seedVars

\* What the statements xs leave in the tables and projections, users before their
\* memberships: what a membership leaves replaces what its user did.
CommitAll(xs) ==
  LET OfUser(u) == {x \in xs : x.table = "users" /\ x.user = u}
      OfMembership(t, u) == {x \in xs : x.table = "memberships" /\ x.user = u /\ x.tenant = t}
      Upserted(X, old) == IF X = {} THEN old ELSE (CHOOSE x \in X : TRUE).row
      Projected(t, u) ==
        LET old == memberDirectory[t][u]
            own == {x \in OfUser(u) : t \in x.tenants} IN
        IF OfMembership(t, u) # {}
        THEN WithMembership(old, CHOOSE x \in OfMembership(t, u) : TRUE)
        ELSE IF own # {} THEN WithUser(old, (CHOOSE x \in own : TRUE).row)
        ELSE old
  IN
  /\ users' = [u \in Users |-> Upserted(OfUser(u), users[u])]
  /\ userDirectory' = [u \in Users |-> Upserted(OfUser(u), userDirectory[u])]
  /\ memberships' =
       [t \in Tenants |-> [u \in Users |-> Upserted(OfMembership(t, u), memberships[t][u])]]
  /\ memberDirectory' = [t \in Tenants |-> [u \in Users |-> Projected(t, u)]]

ForgetSeed(w) ==
  /\ Forget(w)
  /\ pos' = [pos EXCEPT ![w] = 0]
  /\ kept' = [kept EXCEPT ![w] = {}]

CommitSeed(w) ==
  /\ phase[w] = "synced" /\ pos[w] = Len(Seed) /\ pos[w] > 0
  /\ CommitAll(kept[w] \union {txn[w]})
  /\ ForgetSeed(w)

RollbackSeed(w) == pos[w] > 0 /\ ForgetSeed(w) /\ UNCHANGED directoryVars

\* After deadlock_timeout PostgreSQL cancels one of the transactions that wait for
\* each other.
DeadlockVictim(w) ==
  /\ \E S \in SUBSET Writers : w \in S /\ \A v \in S : \E b \in S : WaitsFor(v, b)
  /\ ForgetSeed(w)
  /\ UNCHANGED directoryVars

-----------------------------------------------------------------------------

BootstrapNext ==
  \E w \in Writers :
    \/ OneRowStep(w)
    \/ BeginSeed(w) \/ NextSeed(w) \/ LookSeed(w) \/ SyncSeed(w) \/ CommitSeed(w)
    \/ RollbackSeed(w)
    \/ DeadlockVictim(w)

BootstrapSpec == BootstrapInit /\ [][BootstrapNext]_bootstrapVars

\* A connection runs on, PostgreSQL queues the waiters of a row, so that one whose row
\* is free again and again gets it, and the deadlock detector wakes.
BootstrapFairness ==
  \A w \in Writers :
    /\ WF_bootstrapVars(OneRowStep(w) /\ (Look(w) \/ Commit(w)))
    /\ SF_bootstrapVars(OneRowStep(w) /\ Sync(w))
    /\ WF_bootstrapVars(LookSeed(w)) /\ SF_bootstrapVars(SyncSeed(w))
    /\ SF_bootstrapVars(NextSeed(w)) /\ WF_bootstrapVars(CommitSeed(w))
    /\ WF_bootstrapVars(DeadlockVictim(w))

FairBootstrapSpec == BootstrapSpec /\ BootstrapFairness

-----------------------------------------------------------------------------
(* Properties. *)

\* Every transaction on the directory ends, though the bootstrap and a change of a
\* membership may wait for each other's rows.
EveryWriterEnds == \A w \in Writers : phase[w] # "idle" ~> phase[w] = "idle"

\* Only a bootstrap closes a circle: no other writer waits for one that waits itself.
CirclesNeedBootstrap ==
  \A v, w, x \in Writers :
    WaitsFor(v, w) /\ WaitsFor(w, x) => pos[v] > 0 \/ pos[w] > 0

\* What a bootstrap has seeded is current in both projections when it commits, however
\* many logins and changes of the same users and memberships it overlapped.
SeedIsMirrored ==
  [][\A w \in Writers : CommitSeed(w) =>
       \A i \in DOMAIN Seed :
         LET x == Seed[i] IN
         IF x.table = "users" THEN userDirectory'[x.user] = x.row /\ users'[x.user] = x.row
         ELSE /\ memberships'[x.tenant][x.user] = x.row
              /\ memberDirectory'[x.tenant][x.user] =
                   [name |-> users'[x.user].name, role |-> x.row.role,
                    membership |-> "active", user |-> "active"]]_bootstrapVars
=============================================================================
