---------------------- MODULE MemberDirectoryTxnProofs ----------------------
(***************************************************************************)
(* The directory under overlapping transactions, for any number of         *)
(* writers: what the projections keep however the triggers interleave,     *)
(* that a writer which nothing overlapped is a step of the serial          *)
(* directory, and that writers whose triggers do not hold snapshots of one *)
(* user at once implement it.                                              *)
(***************************************************************************)
EXTENDS DirectoryBootstrap, MemberDirectoryProofs

Txns == UserTxn \union MembershipTxn

\* The foreign key keeps the user of a membership, and the user projection has it,
\* so that the trigger's SELECT is never empty.
SeesUser ==
  \A w \in Writers :
    txn[w] # NoRow /\ txn[w].table = "memberships" =>
      /\ users[txn[w].user] # NoRow
      /\ phase[w] \in {"looked", "synced"} => txn[w].seen # NoRow

TxnInv == DirectoryTxnTypeOK /\ UserDirectoryMirrors /\ MembershipPartMirrors /\ SeesUser

-----------------------------------------------------------------------------
(* What commits leave in a row of the member projection. *)

LEMMA WithUserRow ==
  ASSUME NEW old \in DirectoryRow \union {NoRow}, NEW row \in UserRow
  PROVE  /\ WithUser(old, row) \in DirectoryRow \union {NoRow}
         /\ (WithUser(old, row) = NoRow) = (old = NoRow)
         /\ old # NoRow => /\ WithUser(old, row).role = old.role
                           /\ WithUser(old, row).membership = old.membership
<1>1. CASE old = NoRow
  BY <1>1 DEF WithUser
<1>2. CASE old # NoRow
  <2> DEFINE new == [name |-> row.name, role |-> old.role, membership |-> old.membership,
                     user |-> row.status]
  <2>1. new \in DirectoryRow /\ new.role = old.role /\ new.membership = old.membership
    BY <1>2 DEF DirectoryRow, UserRow
  <2>2. WithUser(old, row) = new
    BY <1>2 DEF WithUser
  <2> HIDE DEF new
  <2> QED BY <1>2, <2>1, <2>2, NoRowAssumption
<1> QED BY <1>1, <1>2

LEMMA WithMembershipRow ==
  ASSUME NEW old \in DirectoryRow \union {NoRow}, NEW x \in MembershipTxn, x.seen # NoRow
  PROVE  /\ WithMembership(old, x) \in DirectoryRow \union {NoRow}
         /\ (WithMembership(old, x) = NoRow) = (x.row = NoRow)
         /\ x.row # NoRow => /\ WithMembership(old, x).role = x.row.role
                             /\ WithMembership(old, x).membership = x.row.status
<1>1. CASE x.row = NoRow
  BY <1>1 DEF WithMembership
<1>2. CASE x.row # NoRow
  <2> DEFINE new == [name |-> x.seen.name, role |-> x.row.role, membership |-> x.row.status,
                     user |-> x.seen.status]
  <2>1. x.row \in MembershipRow /\ x.seen \in UserRow
    BY <1>2 DEF MembershipTxn
  <2>2. new \in DirectoryRow /\ new.role = x.row.role /\ new.membership = x.row.status
    BY <2>1 DEF DirectoryRow, UserRow, MembershipRow
  <2>3. WithMembership(old, x) = new
    BY <1>2 DEF WithMembership
  <2> HIDE DEF new
  <2> QED BY <1>2, <2>2, <2>3, NoRowAssumption
<1> QED BY <1>1, <1>2

\* The rows of the projection after a commit.
LEMMA CommitUserEffect ==
  ASSUME DirectoryTypeOK, NEW x \in UserTxn, CommitUser(x)
  PROVE  /\ x.user \in Users /\ x.row \in UserRow /\ x.row # NoRow
         /\ users' = [users EXCEPT ![x.user] = x.row]
         /\ userDirectory' = [userDirectory EXCEPT ![x.user] = x.row]
         /\ UNCHANGED memberships
         /\ memberDirectory' \in [Tenants -> [Users -> DirectoryRow \union {NoRow}]]
         /\ \A t \in Tenants, u \in Users :
              memberDirectory'[t][u] = IF t \in x.tenants /\ u = x.user
                                       THEN WithUser(memberDirectory[t][u], x.row)
                                       ELSE memberDirectory[t][u]
<1>1. x.user \in Users /\ x.row \in UserRow
  BY DEF UserTxn
<1>2. ASSUME NEW t \in Tenants
      PROVE  /\ memberDirectory'[t] \in [Users -> DirectoryRow \union {NoRow}]
             /\ \A u \in Users : memberDirectory'[t][u] =
                  IF t \in x.tenants /\ u = x.user THEN WithUser(memberDirectory[t][u], x.row)
                  ELSE memberDirectory[t][u]
  <2>1. memberDirectory[t] \in [Users -> DirectoryRow \union {NoRow}]
    BY DEF DirectoryTypeOK
  <2> DEFINE new == WithUser(memberDirectory[t][x.user], x.row)
  <2>2. new \in DirectoryRow \union {NoRow}
    BY <1>1, <2>1, WithUserRow
  <2>3. memberDirectory'[t] = IF t \notin x.tenants THEN memberDirectory[t]
                              ELSE [memberDirectory[t] EXCEPT ![x.user] = new]
    BY DEF CommitUser
  <2>4. new = WithUser(memberDirectory[t][x.user], x.row)
    OBVIOUS
  <2> HIDE DEF new
  <2> QED BY <1>1, <2>1, <2>2, <2>3, <2>4
<1>3. memberDirectory' = [t \in Tenants |-> memberDirectory'[t]]
  BY DEF CommitUser
<1> QED BY <1>1, <1>2, <1>3, NoRowAssumption DEF CommitUser

LEMMA CommitMembershipEffect ==
  ASSUME DirectoryTypeOK, NEW x \in MembershipTxn, x.seen # NoRow, CommitMembership(x)
  PROVE  /\ x.user \in Users /\ x.tenant \in Tenants /\ x.row \in MembershipRow \union {NoRow}
         /\ memberships' = [memberships EXCEPT ![x.tenant][x.user] = x.row]
         /\ UNCHANGED <<users, userDirectory>>
         /\ memberDirectory' \in [Tenants -> [Users -> DirectoryRow \union {NoRow}]]
         /\ \A t \in Tenants, u \in Users :
              memberDirectory'[t][u] = IF t = x.tenant /\ u = x.user
                                       THEN WithMembership(memberDirectory[t][u], x)
                                       ELSE memberDirectory[t][u]
<1>1. x.user \in Users /\ x.tenant \in Tenants /\ x.row \in MembershipRow \union {NoRow}
  BY DEF MembershipTxn
<1> DEFINE new == WithMembership(memberDirectory[x.tenant][x.user], x)
<1>2. memberDirectory[x.tenant][x.user] \in DirectoryRow \union {NoRow}
  BY <1>1 DEF DirectoryTypeOK
<1>3. new \in DirectoryRow \union {NoRow}
  BY <1>2, WithMembershipRow
<1>4. memberDirectory' = [memberDirectory EXCEPT ![x.tenant][x.user] = new]
      /\ new = WithMembership(memberDirectory[x.tenant][x.user], x)
  BY DEF CommitMembership
<1> HIDE DEF new
<1>5. /\ memberDirectory' \in [Tenants -> [Users -> DirectoryRow \union {NoRow}]]
      /\ \A t \in Tenants, u \in Users :
           memberDirectory'[t][u] = IF t = x.tenant /\ u = x.user THEN new
                                    ELSE memberDirectory[t][u]
  BY <1>1, <1>3, <1>4 DEF DirectoryTypeOK
<1> QED BY <1>1, <1>4, <1>5 DEF CommitMembership

-----------------------------------------------------------------------------
(* Statements: the transaction of one writer changes, and no table does.    *)

LEMMA StatementInv ==
  ASSUME TxnInv, NEW w \in Writers, NEW x \in Txns,
         NEW next \in {"changed", "looked", "synced"},
         phase' = [phase EXCEPT ![w] = next], txn' = [txn EXCEPT ![w] = x],
         alone' \in [Writers -> BOOLEAN], UNCHANGED directoryVars,
         x.table = "memberships" =>
           users[x.user] # NoRow /\ (next \in {"looked", "synced"} => x.seen # NoRow)
  PROVE  TxnInv'
<1>1. x # NoRow
  BY NoTxnAssumption DEF Txns
<1>2. DirectoryTypeOK' /\ UserDirectoryMirrors' /\ MembershipPartMirrors'
  BY DEF TxnInv, DirectoryTxnTypeOK, DirectoryTypeOK, directoryVars, UserDirectoryMirrors,
         MembershipPartMirrors
<1>3. DirectoryTxnTypeOK'
  BY <1>1, <1>2 DEF TxnInv, DirectoryTxnTypeOK, Txns
<1>4. SeesUser'
  BY <1>1 DEF TxnInv, SeesUser, DirectoryTxnTypeOK, directoryVars
<1> QED BY <1>2, <1>3, <1>4 DEF TxnInv

\* What the end of one transaction leaves of the others.
Leaves(w) ==
  /\ phase' = [phase EXCEPT ![w] = "idle"]
  /\ alone' = [alone EXCEPT ![w] = TRUE]
  /\ txn' \in [Writers -> Txns \union {NoRow}]
  /\ txn'[w] = NoRow
  /\ \A v \in Writers \ {w} :
       /\ (txn'[v] = NoRow) = (txn[v] = NoRow)
       /\ txn[v] # NoRow => /\ txn'[v].table = txn[v].table /\ txn'[v].user = txn[v].user
                             /\ txn'[v].row = txn[v].row
       /\ txn[v] # NoRow /\ txn[v].table = "memberships" => txn'[v] = txn[v]

LEMMA ForgetLeaves ==
  ASSUME DirectoryTxnTypeOK, NEW w \in Writers, Forget(w)
  PROVE  Leaves(w) /\ \A v \in Writers \ {w} : txn'[v] = txn[v]
BY DEF Leaves, Forget, DirectoryTxnTypeOK, Txns

\* A commit touches another transaction only where it deletes a membership of the
\* user whose rows that one is about to update.
LEMMA CommitLeaves ==
  ASSUME DirectoryTxnTypeOK, NEW w \in Writers, Commit(w)
  PROVE  /\ Leaves(w)
         /\ \A v \in Writers \ {w} :
              ~(/\ phase[v] = "looked" /\ txn[v].table = "users" /\ txn[v].user = txn[w].user
                /\ txn[w].table = "memberships")
              => txn'[v] = txn[v]
<1>1. PICK x \in Txns : x = txn[w]
  BY DEF Commit, DirectoryTxnTypeOK, Txns
<1>2. txn' = [v \in Writers |-> IF v = w THEN NoRow ELSE StillToWrite(v, x)]
  BY <1>1 DEF Commit
<1>3. ASSUME NEW v \in Writers \ {w}
      PROVE  /\ txn'[v] \in Txns \union {NoRow}
             /\ (txn'[v] = NoRow) = (txn[v] = NoRow)
             /\ txn[v] # NoRow => /\ txn'[v].table = txn[v].table /\ txn'[v].user = txn[v].user
                                   /\ txn'[v].row = txn[v].row
             /\ txn[v] # NoRow /\ txn[v].table = "memberships" => txn'[v] = txn[v]
  <2>1. txn'[v] = StillToWrite(v, x)
    BY <1>2
  <2>2. txn[v] \in Txns \union {NoRow}
    BY DEF DirectoryTxnTypeOK, Txns
  <2>3. CASE StillToWrite(v, x) = txn[v]
    BY <2>1, <2>2, <2>3
  <2>4. CASE StillToWrite(v, x) # txn[v]
    <3>1. phase[v] = "looked" /\ txn[v].table = "users" /\ x.table = "memberships"
      BY <2>4 DEF StillToWrite
    <3>2. txn[v] # NoRow
      BY <3>1 DEF DirectoryTxnTypeOK
    <3>3. txn[v] \in UserTxn
      BY <2>2, <3>1, <3>2 DEF Txns, MembershipTxn
    <3>4. StillToWrite(v, x) = [txn[v] EXCEPT !.tenants = @ \ {x.tenant}]
      BY <2>4 DEF StillToWrite
    <3>5. PICK y \in UserTxn : y = txn[v]
      BY <3>3
    <3> DEFINE z == [y EXCEPT !.tenants = y.tenants \ {x.tenant}]
    <3>6. z \in UserTxn /\ z.table = y.table /\ z.user = y.user /\ z.row = y.row
      BY DEF UserTxn
    <3>7. txn'[v] = z
      BY <2>1, <3>4, <3>5
    <3> HIDE DEF z
    <3>8. z # NoRow
      BY <3>6, NoTxnAssumption
    <3>9. txn[v].table # "memberships"
      BY <3>1
    <3> QED BY <3>2, <3>5, <3>6, <3>7, <3>8, <3>9 DEF Txns
  <2> QED BY <2>3, <2>4
<1>4. \A v \in Writers : txn'[v] \in Txns \union {NoRow}
  BY <1>2, <1>3
<1>5. Leaves(w)
  BY <1>2, <1>3, <1>4 DEF Leaves, Commit
<1>6. ASSUME NEW v \in Writers \ {w},
             ~(/\ phase[v] = "looked" /\ txn[v].table = "users" /\ txn[v].user = txn[w].user
               /\ txn[w].table = "memberships")
      PROVE  txn'[v] = txn[v]
  BY <1>1, <1>2, <1>6 DEF StillToWrite
<1> QED BY <1>5, <1>6

LEMMA EndInv ==
  ASSUME DirectoryTypeOK', UserDirectoryMirrors', MembershipPartMirrors', TxnInv,
         NEW w \in Writers, Leaves(w),
         \A u \in Users : users[u] # NoRow => users'[u] # NoRow
  PROVE  TxnInv'
<1>1. DirectoryTxnTypeOK'
  BY DEF TxnInv, DirectoryTxnTypeOK, Leaves, Txns
<1>2. \A v \in Writers :
        txn'[v] # NoRow => v # w /\ txn[v] # NoRow /\ txn'[v].table = txn[v].table
                           /\ txn'[v].user = txn[v].user /\ phase'[v] = phase[v]
                           /\ (txn[v].table = "memberships" => txn'[v] = txn[v])
  BY DEF Leaves, TxnInv, DirectoryTxnTypeOK
<1>3. \A v \in Writers : txn[v] # NoRow => txn[v].user \in Users
  BY DEF TxnInv, DirectoryTxnTypeOK, UserTxn, MembershipTxn
<1>4. SeesUser'
  BY <1>2, <1>3 DEF TxnInv, SeesUser
<1> QED BY <1>1, <1>4 DEF TxnInv

LEMMA CommitMirrors ==
  ASSUME DirectoryTxnTypeOK, UserDirectoryMirrors, MembershipPartMirrors,
         NEW w \in Writers, Commit(w), txn[w].table = "memberships" => txn[w].seen # NoRow
  PROVE  /\ DirectoryTypeOK' /\ UserDirectoryMirrors' /\ MembershipPartMirrors'
         /\ \A u \in Users : users[u] # NoRow => users'[u] # NoRow
<1>1. PICK x \in Txns : x = txn[w] /\ x # NoRow
  BY NoTxnAssumption DEF Commit, DirectoryTxnTypeOK, Txns
<1>2. DirectoryTypeOK
  BY DEF DirectoryTxnTypeOK
<1>3. CASE x.table = "users"
  <2>1. x \in UserTxn /\ CommitUser(x)
    BY <1>1, <1>3 DEF Commit, Txns, MembershipTxn
  <2>2. DirectoryTypeOK' /\ UserDirectoryMirrors'
    BY <1>2, <2>1, CommitUserEffect DEF DirectoryTypeOK, UserDirectoryMirrors
  <2>3. ASSUME NEW t \in Tenants, NEW u \in Users
        PROVE  IF memberships'[t][u] = NoRow THEN memberDirectory'[t][u] = NoRow
               ELSE /\ memberDirectory'[t][u] # NoRow
                    /\ memberDirectory'[t][u].role = memberships'[t][u].role
                    /\ memberDirectory'[t][u].membership = memberships'[t][u].status
    <3>1. memberDirectory[t][u] \in DirectoryRow \union {NoRow}
      BY <1>2 DEF DirectoryTypeOK
    <3>2. x.row \in UserRow /\ UNCHANGED memberships
          /\ memberDirectory'[t][u] \in {memberDirectory[t][u], WithUser(memberDirectory[t][u], x.row)}
      BY <1>2, <2>1, CommitUserEffect
    <3>3. /\ (memberDirectory'[t][u] = NoRow) = (memberDirectory[t][u] = NoRow)
          /\ memberDirectory[t][u] # NoRow =>
               /\ memberDirectory'[t][u].role = memberDirectory[t][u].role
               /\ memberDirectory'[t][u].membership = memberDirectory[t][u].membership
      BY <3>1, <3>2, WithUserRow
    <3> QED BY <3>2, <3>3 DEF MembershipPartMirrors
  <2>4. MembershipPartMirrors'
    BY <2>3 DEF MembershipPartMirrors
  <2>5. \A u \in Users : users[u] # NoRow => users'[u] # NoRow
    BY <1>2, <2>1, CommitUserEffect DEF DirectoryTypeOK
  <2> QED BY <2>2, <2>4, <2>5
<1>4. CASE x.table # "users"
  <2>1. x \in MembershipTxn /\ CommitMembership(x) /\ x.seen # NoRow
    BY <1>1, <1>4 DEF Commit, Txns, UserTxn, MembershipTxn
  <2>2. memberships' \in [Tenants -> [Users -> MembershipRow \union {NoRow}]]
        /\ \A t \in Tenants, u \in Users :
             memberships'[t][u] = IF t = x.tenant /\ u = x.user THEN x.row ELSE memberships[t][u]
    <3>1. x.user \in Users /\ x.tenant \in Tenants /\ x.row \in MembershipRow \union {NoRow}
          /\ memberships' = [memberships EXCEPT ![x.tenant][x.user] = x.row]
      BY <1>2, <2>1, CommitMembershipEffect
    <3> QED BY <1>2, <3>1 DEF DirectoryTypeOK
  <2>3. DirectoryTypeOK' /\ UserDirectoryMirrors'
    BY <1>2, <2>1, <2>2, CommitMembershipEffect DEF DirectoryTypeOK, UserDirectoryMirrors
  <2>4. ASSUME NEW t \in Tenants, NEW u \in Users
        PROVE  IF memberships'[t][u] = NoRow THEN memberDirectory'[t][u] = NoRow
               ELSE /\ memberDirectory'[t][u] # NoRow
                    /\ memberDirectory'[t][u].role = memberships'[t][u].role
                    /\ memberDirectory'[t][u].membership = memberships'[t][u].status
    <3>1. memberDirectory[t][u] \in DirectoryRow \union {NoRow}
      BY <1>2 DEF DirectoryTypeOK
    <3>2. memberDirectory'[t][u] = IF t = x.tenant /\ u = x.user
                                   THEN WithMembership(memberDirectory[t][u], x)
                                   ELSE memberDirectory[t][u]
      BY <1>2, <2>1, CommitMembershipEffect
    <3>3. CASE t = x.tenant /\ u = x.user
      <4>1. memberships'[t][u] = x.row
            /\ memberDirectory'[t][u] = WithMembership(memberDirectory[t][u], x)
        BY <2>2, <3>2, <3>3
      <4>2. x \in MembershipTxn /\ x.seen # NoRow
        BY <2>1
      <4>3. PICK new : /\ new = WithMembership(memberDirectory[t][u], x)
                       /\ (new = NoRow) = (x.row = NoRow)
                       /\ x.row # NoRow => new.role = x.row.role /\ new.membership = x.row.status
        BY <3>1, <4>2, WithMembershipRow
      <4>4. memberDirectory'[t][u] = new
        BY <4>1, <4>3
      <4> QED BY <4>1, <4>3, <4>4
    <3>4. CASE ~(t = x.tenant /\ u = x.user)
      BY <2>2, <3>2, <3>4 DEF MembershipPartMirrors
    <3> QED BY <3>3, <3>4
  <2>5. MembershipPartMirrors'
    BY <2>4 DEF MembershipPartMirrors
  <2> QED BY <1>2, <2>1, <2>3, <2>5, CommitMembershipEffect
<1> QED BY <1>3, <1>4

LEMMA CommitInv ==
  ASSUME TxnInv, NEW w \in Writers, Commit(w)
  PROVE  TxnInv'
<1>1. DirectoryTxnTypeOK /\ UserDirectoryMirrors /\ MembershipPartMirrors
      /\ (txn[w].table = "memberships" => txn[w].seen # NoRow)
  BY DEF TxnInv, SeesUser, Commit, DirectoryTxnTypeOK
<1>2. Leaves(w)
  BY <1>1, CommitLeaves
<1>3. /\ DirectoryTypeOK' /\ UserDirectoryMirrors' /\ MembershipPartMirrors'
      /\ \A u \in Users : users[u] # NoRow => users'[u] # NoRow
  BY <1>1, CommitMirrors
<1> QED BY <1>2, <1>3, EndInv

LEMMA LookWork ==
  ASSUME DirectoryTxnTypeOK, NEW w \in Writers, Look(w)
  PROVE  \E x \in Txns :
           /\ txn' = [txn EXCEPT ![w] = x] /\ phase' = [phase EXCEPT ![w] = "looked"]
           /\ UNCHANGED <<directoryVars, alone>>
           /\ txn[w] # NoRow /\ x.table = txn[w].table /\ x.user = txn[w].user /\ x.row = txn[w].row
           /\ x.table = "users" => x.tenants = {t \in Tenants : memberDirectory[t][x.user] # NoRow}
           /\ x.table = "memberships" => /\ x.tenant = txn[w].tenant
                                         /\ x.seen = userDirectory[x.user]
<1>1. PICK x \in Txns : x = txn[w] /\ txn[w] # NoRow
  BY NoTxnAssumption DEF Look, DirectoryTxnTypeOK, Txns
<1>2. CASE x.table = "users"
  <2> DEFINE seen == {t \in Tenants : memberDirectory[t][x.user] # NoRow}
             y == [x EXCEPT !.tenants = seen]
  <2>1. x \in UserTxn
    BY <1>1, <1>2 DEF Txns, MembershipTxn
  <2>2. seen \in SUBSET Tenants
    OBVIOUS
  <2>3. txn' = [txn EXCEPT ![w] = y]
    BY <1>1, <1>2 DEF Look
  <2>4. seen = {t \in Tenants : memberDirectory[t][x.user] # NoRow}
    OBVIOUS
  <2> HIDE DEF seen
  <2>5. y \in UserTxn /\ y.table = "users" /\ y.user = x.user /\ y.row = x.row /\ y.tenants = seen
    BY <2>1, <2>2 DEF UserTxn
  <2> HIDE DEF y
  <2>6. y.tenants = {t \in Tenants : memberDirectory[t][y.user] # NoRow}
    BY <2>4, <2>5
  <2>7. phase' = [phase EXCEPT ![w] = "looked"] /\ UNCHANGED <<directoryVars, alone>>
    BY DEF Look
  <2>8. y \in Txns /\ y.table = txn[w].table /\ y.user = txn[w].user /\ y.row = txn[w].row
    BY <1>1, <1>2, <2>5 DEF Txns
  <2> QED BY <1>1, <2>3, <2>5, <2>6, <2>7, <2>8
<1>3. CASE x.table # "users"
  <2> DEFINE y == [x EXCEPT !.seen = userDirectory[x.user]]
  <2>1. x \in MembershipTxn
    BY <1>1, <1>3 DEF Txns, UserTxn
  <2>2. userDirectory[x.user] \in UserRow \union {NoRow}
    BY <2>1 DEF MembershipTxn, DirectoryTxnTypeOK, DirectoryTypeOK
  <2>3. txn' = [txn EXCEPT ![w] = y]
    BY <1>1, <1>3 DEF Look
  <2>4. y \in MembershipTxn /\ y.table = "memberships" /\ y.user = x.user /\ y.row = x.row
        /\ y.tenant = x.tenant /\ y.seen = userDirectory[x.user] /\ x.table = "memberships"
    BY <2>1, <2>2 DEF MembershipTxn
  <2> HIDE DEF y
  <2>6. y.tenant = txn[w].tenant /\ y.seen = userDirectory[y.user]
    BY <1>1, <2>4
  <2>7. phase' = [phase EXCEPT ![w] = "looked"] /\ UNCHANGED <<directoryVars, alone>>
    BY DEF Look
  <2>8. y \in Txns /\ y.table = txn[w].table /\ y.user = txn[w].user /\ y.row = txn[w].row
    BY <1>1, <2>4 DEF Txns
  <2>9. y.table # "users"
    BY <2>4
  <2> QED BY <1>1, <2>3, <2>6, <2>7, <2>8, <2>9
<1> QED BY <1>2, <1>3

\* What a writer may do to a row, as Change has it.
UserChange(u, row) ==
  \/ \E n \in Names : users[u] = NoRow /\ row = [name |-> n, status |-> "active"]
  \/ \E n \in Names : ActiveUser(u) /\ row = [users[u] EXCEPT !.name = n]
  \/ \E s \in {"active", "disabled"} : users[u] # NoRow /\ row = [users[u] EXCEPT !.status = s]

MembershipChange(t, u, row) ==
  /\ users[u] # NoRow
  /\ \/ \E r \in Roles, s \in {"active", "revoked"} : row = [role |-> r, status |-> s]
     \/ row = NoRow /\ memberships[t][u] # NoRow

\* Nobody holds the row of a transaction yet.
RowFree(x) ==
  \A v \in Writers : IF x.table = "users" THEN ~ChangingUser(v, x.user)
                     ELSE ~ChangingMembership(v, x.tenant, x.user)

LEMMA ChangeWork ==
  ASSUME DirectoryTxnTypeOK, NEW w \in Writers, Change(w)
  PROVE  \E x \in Txns :
           /\ txn' = [txn EXCEPT ![w] = x] /\ phase' = [phase EXCEPT ![w] = "changed"]
           /\ UNCHANGED directoryVars /\ Open(w) /\ phase[w] = "idle" /\ RowFree(x)
           /\ x.table = "users" => UserChange(x.user, x.row)
           /\ x.table = "memberships" => MembershipChange(x.tenant, x.user, x.row)
<1>1. ASSUME NEW u \in Users, NEW row \in UserRow, ChangeUser(w, u, row), UserChange(u, row)
      PROVE  \E x \in Txns :
               /\ txn' = [txn EXCEPT ![w] = x] /\ phase' = [phase EXCEPT ![w] = "changed"]
               /\ UNCHANGED directoryVars /\ Open(w) /\ phase[w] = "idle" /\ RowFree(x)
               /\ x.table = "users" /\ UserChange(x.user, x.row)
  <2> DEFINE y == [table |-> "users", user |-> u, row |-> row, tenants |-> {}]
  <2>1. y \in Txns /\ y.table = "users" /\ y.user = u /\ y.row = row
    BY DEF Txns, UserTxn
  <2>2. txn' = [txn EXCEPT ![w] = y]
    BY <1>1 DEF ChangeUser
  <2> HIDE DEF y
  <2>3. UserChange(y.user, y.row) /\ RowFree(y)
    BY <1>1, <2>1 DEF ChangeUser, RowFree
  <2>4. phase' = [phase EXCEPT ![w] = "changed"] /\ UNCHANGED directoryVars /\ Open(w)
        /\ phase[w] = "idle"
    BY <1>1 DEF ChangeUser
  <2> QED BY <2>1, <2>2, <2>3, <2>4
<1>2. ASSUME NEW t \in Tenants, NEW u \in Users, NEW row \in MembershipRow \union {NoRow},
             ChangeMembership(w, t, u, row), MembershipChange(t, u, row)
      PROVE  \E x \in Txns :
               /\ txn' = [txn EXCEPT ![w] = x] /\ phase' = [phase EXCEPT ![w] = "changed"]
               /\ UNCHANGED directoryVars /\ Open(w) /\ phase[w] = "idle" /\ RowFree(x)
               /\ x.table = "memberships" /\ MembershipChange(x.tenant, x.user, x.row)
  <2> DEFINE y == [table |-> "memberships", user |-> u, tenant |-> t, row |-> row, seen |-> NoRow]
  <2>1. y \in Txns /\ y.table = "memberships" /\ y.user = u /\ y.tenant = t /\ y.row = row
    BY DEF Txns, MembershipTxn
  <2>2. txn' = [txn EXCEPT ![w] = y]
    BY <1>2 DEF ChangeMembership
  <2> HIDE DEF y
  <2>3. MembershipChange(y.tenant, y.user, y.row) /\ RowFree(y)
    BY <1>2, <2>1 DEF ChangeMembership, RowFree
  <2>4. phase' = [phase EXCEPT ![w] = "changed"] /\ UNCHANGED directoryVars /\ Open(w)
        /\ phase[w] = "idle"
    BY <1>2 DEF ChangeMembership
  <2> QED BY <2>1, <2>2, <2>3, <2>4
<1>3. PICK u \in Users :
        \/ \E n \in Names : users[u] = NoRow /\ ChangeUser(w, u, [name |-> n, status |-> "active"])
        \/ \E n \in Names :
             ActiveUser(u) /\ users[u].name # n /\ ChangeUser(w, u, [users[u] EXCEPT !.name = n])
        \/ \E s \in {"active", "disabled"} :
             users[u] # NoRow /\ ChangeUser(w, u, [users[u] EXCEPT !.status = s])
        \/ \E t \in Tenants :
             \/ \E r \in Roles, s \in {"active", "revoked"} :
                  ChangeMembership(w, t, u, [role |-> r, status |-> s])
             \/ memberships[t][u] # NoRow /\ ChangeMembership(w, t, u, NoRow)
  BY DEF Change
<1>4. users[u] \in UserRow \union {NoRow}
  BY DEF DirectoryTxnTypeOK, DirectoryTypeOK
<1>5. ASSUME NEW n \in Names, users[u] = NoRow
      PROVE  [name |-> n, status |-> "active"] \in UserRow
             /\ UserChange(u, [name |-> n, status |-> "active"])
  BY <1>5 DEF UserRow, UserChange
<1>6. ASSUME NEW n \in Names, ActiveUser(u)
      PROVE  [users[u] EXCEPT !.name = n] \in UserRow
             /\ UserChange(u, [users[u] EXCEPT !.name = n])
  <2>1. users[u] \in UserRow
    BY <1>4, <1>6 DEF ActiveUser
  <2> QED BY <1>6, <2>1 DEF UserRow, UserChange
<1>7. ASSUME NEW s \in {"active", "disabled"}, users[u] # NoRow
      PROVE  [users[u] EXCEPT !.status = s] \in UserRow
             /\ UserChange(u, [users[u] EXCEPT !.status = s])
  <2>1. users[u] \in UserRow
    BY <1>4, <1>7
  <2> QED BY <1>7, <2>1 DEF UserRow, UserChange
<1>8. ASSUME NEW t \in Tenants, NEW r \in Roles, NEW s \in {"active", "revoked"},
             ChangeMembership(w, t, u, [role |-> r, status |-> s])
      PROVE  [role |-> r, status |-> s] \in MembershipRow
             /\ MembershipChange(t, u, [role |-> r, status |-> s])
  BY <1>8 DEF MembershipRow, MembershipChange, ChangeMembership
<1>9. ASSUME NEW t \in Tenants, memberships[t][u] # NoRow, ChangeMembership(w, t, u, NoRow)
      PROVE  MembershipChange(t, u, NoRow)
  BY <1>9 DEF MembershipChange, ChangeMembership
<1>10. ASSUME \E x \in Txns :
                 /\ txn' = [txn EXCEPT ![w] = x] /\ phase' = [phase EXCEPT ![w] = "changed"]
                 /\ UNCHANGED directoryVars /\ Open(w) /\ phase[w] = "idle" /\ RowFree(x)
                 /\ \/ x.table = "users" /\ UserChange(x.user, x.row)
                    \/ x.table = "memberships" /\ MembershipChange(x.tenant, x.user, x.row)
       PROVE  \E x \in Txns :
                /\ txn' = [txn EXCEPT ![w] = x] /\ phase' = [phase EXCEPT ![w] = "changed"]
                /\ UNCHANGED directoryVars /\ Open(w) /\ phase[w] = "idle" /\ RowFree(x)
                /\ x.table = "users" => UserChange(x.user, x.row)
                /\ x.table = "memberships" => MembershipChange(x.tenant, x.user, x.row)
  BY <1>10
<1> QED BY <1>1, <1>2, <1>3, <1>5, <1>6, <1>7, <1>8, <1>9, <1>10

LEMMA TxnInvStep ==
  ASSUME TxnInv, [DirectoryTxnNext]_directoryTxnVars
  PROVE  TxnInv'
<1>1. ASSUME NEW w \in Writers, Change(w)  PROVE TxnInv'
  <2>1. PICK x \in Txns :
          /\ txn' = [txn EXCEPT ![w] = x] /\ phase' = [phase EXCEPT ![w] = "changed"]
          /\ UNCHANGED directoryVars /\ Open(w)
          /\ x.table = "memberships" => users[x.user] # NoRow
    BY <1>1, ChangeWork DEF MembershipChange, TxnInv
  <2>2. alone' \in [Writers -> BOOLEAN]
    BY <2>1 DEF Open
  <2> QED BY <2>1, <2>2, StatementInv
<1>2. ASSUME NEW w \in Writers, Look(w)  PROVE TxnInv'
  <2>1. PICK x \in Txns :
          /\ txn' = [txn EXCEPT ![w] = x] /\ phase' = [phase EXCEPT ![w] = "looked"]
          /\ UNCHANGED <<directoryVars, alone>>
          /\ txn[w] # NoRow /\ x.table = txn[w].table /\ x.user = txn[w].user
          /\ x.table = "memberships" => x.seen = userDirectory[x.user]
    BY <1>2, LookWork DEF TxnInv
  <2>2. alone' \in [Writers -> BOOLEAN]
    BY <2>1 DEF TxnInv, DirectoryTxnTypeOK
  <2>3. x.table = "memberships" => users[x.user] # NoRow /\ x.seen # NoRow
    BY <2>1 DEF TxnInv, UserDirectoryMirrors, SeesUser
  <2> QED BY <2>1, <2>2, <2>3, StatementInv
<1>3. ASSUME NEW w \in Writers, Sync(w)  PROVE TxnInv'
  <2>1. PICK x \in Txns : x = txn[w] /\ x # NoRow
    BY <1>3, NoTxnAssumption DEF Sync, TxnInv, DirectoryTxnTypeOK, Txns
  <2>2. /\ txn' = [txn EXCEPT ![w] = x] /\ phase' = [phase EXCEPT ![w] = "synced"]
        /\ alone' \in [Writers -> BOOLEAN] /\ UNCHANGED directoryVars
    BY <1>3, <2>1 DEF Sync, TxnInv, DirectoryTxnTypeOK
  <2>3. x.table = "memberships" => users[x.user] # NoRow /\ x.seen # NoRow
    BY <1>3, <2>1 DEF Sync, TxnInv, SeesUser
  <2> QED BY <2>2, <2>3, StatementInv
<1>4. ASSUME NEW w \in Writers, Rollback(w)  PROVE TxnInv'
  <2>1. DirectoryTypeOK' /\ UserDirectoryMirrors' /\ MembershipPartMirrors' /\ UNCHANGED users
    BY <1>4 DEF Rollback, TxnInv, DirectoryTxnTypeOK, DirectoryTypeOK, directoryVars,
                UserDirectoryMirrors, MembershipPartMirrors
  <2>2. Leaves(w)
    BY <1>4, ForgetLeaves DEF Rollback, TxnInv
  <2> QED BY <2>1, <2>2, EndInv
<1>5. ASSUME UNCHANGED directoryTxnVars  PROVE TxnInv'
  BY <1>5 DEF directoryTxnVars, directoryVars, TxnInv, DirectoryTxnTypeOK, DirectoryTypeOK,
              UserDirectoryMirrors, MembershipPartMirrors, SeesUser
<1> QED BY <1>1, <1>2, <1>3, <1>4, <1>5, CommitInv DEF DirectoryTxnNext

LEMMA TxnInvCorrect == DirectoryTxnSpec => []TxnInv
<1>1. DirectoryTxnInit => TxnInv
  BY DEF DirectoryTxnInit, DirectoryInit, TxnInv, DirectoryTxnTypeOK, DirectoryTypeOK,
         UserDirectoryMirrors, MembershipPartMirrors, SeesUser
<1> QED BY <1>1, TxnInvStep, PTL DEF DirectoryTxnSpec

\* The tables, the projections and the open transactions stay well typed.
THEOREM DirectoryTxnTypeCorrect == DirectoryTxnSpec => []DirectoryTxnTypeOK
<1>1. TxnInv => DirectoryTxnTypeOK
  BY DEF TxnInv
<1> QED BY <1>1, TxnInvCorrect, PTL

\* However many writers overlap, the user projection is the users table.
THEOREM UsersStayMirrored == DirectoryTxnSpec => []UserDirectoryMirrors
<1>1. TxnInv => UserDirectoryMirrors
  BY DEF TxnInv
<1> QED BY <1>1, TxnInvCorrect, PTL

\* However many writers overlap, a revocation is never undone in the projection.
THEOREM MembershipsStayMirrored == DirectoryTxnSpec => []MembershipPartMirrors
<1>1. TxnInv => MembershipPartMirrors
  BY DEF TxnInv
<1> QED BY <1>1, TxnInvCorrect, PTL

-----------------------------------------------------------------------------
(* The writer that nothing overlapped. *)

\* Its change is still one that the tables allow, and its snapshot is the state.
Undisturbed(w) ==
  LET x == txn[w] IN
  /\ \A v \in Writers \ {w} : phase[v] = "idle"
  /\ x.table = "users" =>
       /\ UserChange(x.user, x.row)
       /\ phase[w] \in {"looked", "synced"} =>
            x.tenants = {t \in Tenants : memberDirectory[t][x.user] # NoRow}
  /\ x.table = "memberships" =>
       /\ MembershipChange(x.tenant, x.user, x.row)
       /\ phase[w] \in {"looked", "synced"} => x.seen = userDirectory[x.user]

LoneInv == \A w \in Writers : alone[w] /\ phase[w] # "idle" => Undisturbed(w)

\* The statement of one writer, while every other that is alone is idle.
LEMMA LoneStatement ==
  ASSUME TxnInv, LoneInv, NEW w \in Writers, NEW x \in Txns,
         NEW next \in {"changed", "looked", "synced"},
         txn' = [txn EXCEPT ![w] = x], phase' = [phase EXCEPT ![w] = next],
         UNCHANGED directoryVars,
         \A v \in Writers \ {w} : alone'[v] /\ phase[v] # "idle" => FALSE,
         alone'[w] =>
           /\ \A v \in Writers \ {w} : phase[v] = "idle"
           /\ x.table = "users" =>
                /\ UserChange(x.user, x.row)
                /\ next \in {"looked", "synced"} =>
                     x.tenants = {t \in Tenants : memberDirectory[t][x.user] # NoRow}
           /\ x.table = "memberships" =>
                /\ MembershipChange(x.tenant, x.user, x.row)
                /\ next \in {"looked", "synced"} => x.seen = userDirectory[x.user]
  PROVE  LoneInv'
<1> SUFFICES ASSUME NEW v \in Writers, alone'[v], phase'[v] # "idle"  PROVE Undisturbed(v)'
  BY DEF LoneInv
<1>1. v = w
  BY DEF TxnInv, DirectoryTxnTypeOK
<1>2. txn'[v] = x /\ phase'[v] = next /\ \A y \in Writers \ {w} : phase'[y] = phase[y]
  BY <1>1 DEF TxnInv, DirectoryTxnTypeOK
<1>3. UNCHANGED <<users, memberships, memberDirectory, userDirectory>>
  BY DEF directoryVars
<1>4. UserChange(x.user, x.row) => UserChange(txn[v].user, txn[v].row)'
  <2> DEFINE u == x.user
             row == x.row
  <2>1. txn'[v].user = u /\ txn'[v].row = row /\ users' = users
    BY <1>2, <1>3
  <2> HIDE DEF u, row
  <2>2. UserChange(u, row) => UserChange(txn[v].user, txn[v].row)'
    BY <2>1 DEF UserChange, ActiveUser
  <2> QED BY <2>2 DEF u, row
<1>5. MembershipChange(x.tenant, x.user, x.row)
        => MembershipChange(txn[v].tenant, txn[v].user, txn[v].row)'
  BY <1>2, <1>3 DEF MembershipChange
<1> QED BY <1>1, <1>2, <1>3, <1>4, <1>5 DEF Undisturbed

\* Nobody else is in a transaction that is alone.
LEMMA OthersNotAlone ==
  ASSUME LoneInv, NEW w \in Writers, phase[w] # "idle"
  PROVE  \A v \in Writers \ {w} : ~(alone[v] /\ phase[v] # "idle")
BY DEF LoneInv, Undisturbed

LEMMA LoneStep ==
  ASSUME TxnInv, LoneInv, [DirectoryTxnNext]_directoryTxnVars
  PROVE  LoneInv'
<1>1. ASSUME NEW w \in Writers, Change(w)  PROVE LoneInv'
  <2>1. PICK x \in Txns :
          /\ txn' = [txn EXCEPT ![w] = x] /\ phase' = [phase EXCEPT ![w] = "changed"]
          /\ UNCHANGED directoryVars /\ Open(w) /\ phase[w] = "idle"
          /\ x.table = "users" => UserChange(x.user, x.row)
          /\ x.table = "memberships" => MembershipChange(x.tenant, x.user, x.row)
    BY <1>1, ChangeWork DEF TxnInv
  <2>2. /\ \A v \in Writers \ {w} : ~(alone'[v] /\ phase[v] # "idle")
        /\ alone'[w] => \A v \in Writers \ {w} : phase[v] = "idle"
    BY <2>1 DEF Open
  <2> QED BY <2>1, <2>2, LoneStatement
<1>2. ASSUME NEW w \in Writers, Look(w)  PROVE LoneInv'
  <2>1. PICK x \in Txns :
          /\ txn' = [txn EXCEPT ![w] = x] /\ phase' = [phase EXCEPT ![w] = "looked"]
          /\ UNCHANGED <<directoryVars, alone>>
          /\ txn[w] # NoRow /\ x.table = txn[w].table /\ x.user = txn[w].user
          /\ x.row = txn[w].row
          /\ x.table = "users" =>
               x.tenants = {t \in Tenants : memberDirectory[t][x.user] # NoRow}
          /\ x.table = "memberships" => /\ x.tenant = txn[w].tenant
                                        /\ x.seen = userDirectory[x.user]
    BY <1>2, LookWork DEF TxnInv
  <2>2. phase[w] # "idle"
    BY <1>2 DEF Look
  <2>3. \A v \in Writers \ {w} : ~(alone'[v] /\ phase[v] # "idle")
    BY <2>1, <2>2, OthersNotAlone
  <2>4. alone'[w] => /\ \A v \in Writers \ {w} : phase[v] = "idle"
                     /\ x.table = "users" => UserChange(x.user, x.row)
                     /\ x.table = "memberships" => MembershipChange(x.tenant, x.user, x.row)
    BY <2>1, <2>2 DEF LoneInv, Undisturbed
  <2> QED BY <2>1, <2>3, <2>4, LoneStatement
<1>3. ASSUME NEW w \in Writers, Sync(w)  PROVE LoneInv'
  <2>1. PICK x \in Txns : x = txn[w]
    BY <1>3 DEF Sync, TxnInv, DirectoryTxnTypeOK, Txns
  <2>2. /\ phase[w] = "looked"
        /\ phase' = [phase EXCEPT ![w] = "synced"] /\ txn' = [txn EXCEPT ![w] = x]
        /\ UNCHANGED <<directoryVars, alone>>
    BY <1>3, <2>1 DEF Sync, TxnInv, DirectoryTxnTypeOK
  <2>3. \A v \in Writers \ {w} : ~(alone'[v] /\ phase[v] # "idle")
    BY <2>2, OthersNotAlone
  <2>4. alone'[w] => Undisturbed(w)
    BY <2>2 DEF LoneInv
  <2> QED BY <2>1, <2>2, <2>3, <2>4, LoneStatement DEF Undisturbed
<1>4. ASSUME NEW w \in Writers, phase[w] # "idle", phase' = [phase EXCEPT ![w] = "idle"],
             alone' = [alone EXCEPT ![w] = TRUE]
      PROVE  LoneInv'
  <2>1. \A v \in Writers \ {w} : ~(alone[v] /\ phase[v] # "idle")
    BY <1>4, OthersNotAlone
  <2>2. \A v \in Writers : ~(alone'[v] /\ phase'[v] # "idle")
    BY <1>4, <2>1 DEF TxnInv, DirectoryTxnTypeOK
  <2> QED BY <2>2 DEF LoneInv
<1>5. CASE UNCHANGED directoryTxnVars
  <2> SUFFICES ASSUME NEW v \in Writers, alone'[v], phase'[v] # "idle"  PROVE Undisturbed(v)'
    BY DEF LoneInv
  <2>1. UNCHANGED <<users, memberships, memberDirectory, userDirectory, phase, txn, alone>>
    BY <1>5 DEF directoryTxnVars, directoryVars
  <2>2. Undisturbed(v)
    BY <2>1 DEF LoneInv
  <2>3. UserChange(txn[v].user, txn[v].row) => UserChange(txn[v].user, txn[v].row)'
    BY <2>1 DEF UserChange, ActiveUser
  <2>4. MembershipChange(txn[v].tenant, txn[v].user, txn[v].row)
          => MembershipChange(txn[v].tenant, txn[v].user, txn[v].row)'
    BY <2>1 DEF MembershipChange
  <2> QED BY <2>1, <2>2, <2>3, <2>4 DEF Undisturbed
<1> QED BY <1>1, <1>2, <1>3, <1>4, <1>5 DEF DirectoryTxnNext, Commit, Rollback, Forget

LEMMA LoneUserCommit ==
  ASSUME DirectoryTypeOK, NEW x \in UserTxn, CommitUser(x), UserChange(x.user, x.row),
         x.tenants = {t \in Tenants : memberDirectory[t][x.user] # NoRow}
  PROVE  DirectoryNext
<1>1. PICK u \in Users, row \in UserRow : u = x.user /\ row = x.row
  BY DEF UserTxn
<1>2. userDirectory' = [userDirectory EXCEPT ![u] = row] /\ users' = [users EXCEPT ![u] = row]
      /\ UNCHANGED memberships
  BY <1>1 DEF CommitUser
<1>3. SyncUser(u, row)
  <2> DEFINE new(t) == [name |-> row.name, role |-> memberDirectory[t][u].role,
                        membership |-> memberDirectory[t][u].membership, user |-> row.status]
             old(t) == IF memberDirectory[t][u] = NoRow THEN memberDirectory[t]
                       ELSE [memberDirectory[t] EXCEPT ![u] = new(t)]
             left(t) == IF t \notin x.tenants THEN memberDirectory[t]
                        ELSE [memberDirectory[t] EXCEPT ![u] = WithUser(memberDirectory[t][u], row)]
  <2>1. ASSUME NEW t \in Tenants  PROVE left(t) = old(t)
    <3>1. (t \in x.tenants) = (memberDirectory[t][u] # NoRow)
      BY <1>1
    <3>2. memberDirectory[t][u] # NoRow => WithUser(memberDirectory[t][u], row) = new(t)
      BY DEF WithUser
    <3> QED BY <3>1, <3>2
  <2>2. memberDirectory' = [t \in Tenants |-> left(t)]
    BY <1>1 DEF CommitUser
  <2>3. memberDirectory' = [t \in Tenants |-> old(t)]
    BY <2>1, <2>2
  <2> QED BY <1>2, <2>3 DEF SyncUser
<1>4. UserChange(u, row)
  BY <1>1
<1>5. ASSUME NEW n \in Names, users[u] = NoRow, row = [name |-> n, status |-> "active"]
      PROVE  CreateUser(u, n)
  BY <1>2, <1>3, <1>5 DEF CreateUser
<1>6. ASSUME NEW n \in Names, ActiveUser(u), row = [users[u] EXCEPT !.name = n]
      PROVE  RefreshUser(u, n)
  BY <1>2, <1>3, <1>6 DEF RefreshUser
<1>7. ASSUME NEW s \in {"active", "disabled"}, users[u] # NoRow,
             row = [users[u] EXCEPT !.status = s]
      PROVE  SetUserStatus(u, s)
  BY <1>2, <1>3, <1>7 DEF SetUserStatus
<1> QED BY <1>4, <1>5, <1>6, <1>7 DEF UserChange, DirectoryNext

LEMMA LoneMembershipCommit ==
  ASSUME DirectoryTypeOK, NEW x \in MembershipTxn, CommitMembership(x),
         MembershipChange(x.tenant, x.user, x.row), x.seen = userDirectory[x.user]
  PROVE  DirectoryNext
<1>1. PICK u \in Users, t \in Tenants : u = x.user /\ t = x.tenant
  BY DEF MembershipTxn
<1> DEFINE old == memberDirectory[t][u]
<1>2. /\ memberships' = [memberships EXCEPT ![t][u] = x.row]
      /\ memberDirectory' = [memberDirectory EXCEPT ![t][u] = WithMembership(old, x)]
      /\ UNCHANGED <<users, userDirectory>>
  BY <1>1 DEF CommitMembership
<1>3. memberDirectory = [memberDirectory EXCEPT ![t][u] = old]
  BY DEF DirectoryTypeOK
<1>4. ASSUME NEW r \in Roles, NEW s \in {"active", "revoked"}, x.row = [role |-> r, status |-> s]
      PROVE  WriteMembership(t, u, r, s)
  <2> DEFINE row == [role |-> r, status |-> s]
  <2>1. row \in MembershipRow /\ x.row # NoRow
    BY <1>4, NoRowAssumption DEF MembershipRow
  <2>2. SyncMembership(t, u, row)
    <3>1. CASE userDirectory[u] = NoRow
      BY <1>1, <1>2, <1>3, <2>1, <3>1 DEF WithMembership, SyncMembership
    <3>2. CASE userDirectory[u] # NoRow
      BY <1>1, <1>2, <1>4, <2>1, <3>2 DEF WithMembership, SyncMembership
    <3> QED BY <3>1, <3>2
  <2> QED BY <1>1, <1>2, <1>4, <2>2 DEF WriteMembership, MembershipChange
<1>5. ASSUME x.row = NoRow, memberships[t][u] # NoRow  PROVE DeleteMembership(t, u)
  BY <1>1, <1>2, <1>5 DEF DeleteMembership, UnsyncMembership, WithMembership
<1> QED BY <1>1, <1>4, <1>5 DEF MembershipChange, DirectoryNext

LEMMA LoneCommitIsSerial ==
  ASSUME TxnInv, LoneInv, NEW w \in Writers, Commit(w), alone[w]
  PROVE  DirectoryNext
<1> USE DEF TxnInv
<1>1. PICK x \in Txns : x = txn[w]
  BY DEF Commit, DirectoryTxnTypeOK, Txns
<1>2. phase[w] = "synced" /\ Undisturbed(w) /\ DirectoryTypeOK
  BY DEF Commit, LoneInv, DirectoryTxnTypeOK
<1>3. CASE x.table = "users"
  <2>1. x \in UserTxn /\ CommitUser(x)
    BY <1>1, <1>3 DEF Commit, Txns, MembershipTxn
  <2>2. UserChange(x.user, x.row)
        /\ x.tenants = {t \in Tenants : memberDirectory[t][x.user] # NoRow}
    BY <1>1, <1>2, <1>3 DEF Undisturbed
  <2> QED BY <1>2, <2>1, <2>2, LoneUserCommit
<1>4. CASE x.table # "users"
  <2>1. x \in MembershipTxn /\ CommitMembership(x) /\ x.table = "memberships"
    BY <1>1, <1>4 DEF Commit, Txns, UserTxn, MembershipTxn
  <2>2. MembershipChange(x.tenant, x.user, x.row) /\ x.seen = userDirectory[x.user]
    BY <1>1, <1>2, <2>1 DEF Undisturbed
  <2> QED BY <1>2, <2>1, <2>2, LoneMembershipCommit
<1> QED BY <1>3, <1>4

\* For any number of writers: a transaction during which no other was open adds up to
\* one update of the serial directory.
THEOREM LoneWritersAreSerial == DirectoryTxnSpec => LoneWriterIsSerial
<1>1. DirectoryTxnInit => LoneInv
  BY DEF DirectoryTxnInit, LoneInv
<1>2. DirectoryTxnSpec => []LoneInv
  BY <1>1, TxnInvCorrect, LoneStep, PTL DEF DirectoryTxnSpec
<1>3. TxnInv /\ LoneInv =>
        [\A w \in Writers : Commit(w) /\ alone[w] => DirectoryNext]_directoryTxnVars
  BY LoneCommitIsSerial
<1> QED BY <1>2, <1>3, TxnInvCorrect, PTL DEF LoneWriterIsSerial

-----------------------------------------------------------------------------
(* Writers that overlap, their triggers' snapshots apart.                  *)

\* Two writers hold different rows.
RowsHeld ==
  \A v, w \in Writers :
    txn[w] # NoRow =>
      IF txn[w].table = "users" THEN ChangingUser(v, txn[w].user) => v = w
      ELSE ChangingMembership(v, txn[w].tenant, txn[w].user) => v = w

\* The change of a writer is still one that the tables allow.
ChangeAllowed(x) ==
  IF x.table = "users" THEN UserChange(x.user, x.row)
  ELSE MembershipChange(x.tenant, x.user, x.row)

\* What a trigger's statement saw is still so.
SnapshotHolds(x) ==
  IF x.table = "users" THEN x.tenants = {t \in Tenants : memberDirectory[t][x.user] # NoRow}
  ELSE x.seen = userDirectory[x.user]

ApartInv ==
  /\ RowsHeld
  /\ \A w \in Writers : txn[w] # NoRow => ChangeAllowed(txn[w])
  /\ \A w \in Writers : PastSnapshot(w) => SnapshotHolds(txn[w])

\* What is allowed, or holds, stays so while the rows it is about do.
LEMMA AllowedWhileRowsStay ==
  ASSUME NEW x \in Txns, ChangeAllowed(x),
         x.table = "users" => users'[x.user] = users[x.user],
         x.table # "users" => /\ users[x.user] # NoRow => users'[x.user] # NoRow
                              /\ memberships'[x.tenant][x.user] = memberships[x.tenant][x.user]
  PROVE  ChangeAllowed(x)'
BY DEF ChangeAllowed, UserChange, ActiveUser, MembershipChange

LEMMA HoldsWhileRowsStay ==
  ASSUME NEW x \in Txns, SnapshotHolds(x),
         x.table = "users" =>
           \A t \in Tenants :
             (memberDirectory'[t][x.user] = NoRow) = (memberDirectory[t][x.user] = NoRow),
         x.table # "users" => userDirectory'[x.user] = userDirectory[x.user]
  PROVE  SnapshotHolds(x)'
BY DEF SnapshotHolds

\* The statement of one writer leaves the others as they were.
LEMMA ApartStatement ==
  ASSUME TxnInv, ApartInv, NEW w \in Writers, NEW x \in Txns,
         NEW next \in {"changed", "looked", "synced"},
         txn' = [txn EXCEPT ![w] = x], phase' = [phase EXCEPT ![w] = next],
         UNCHANGED directoryVars, ChangeAllowed(x),
         next \in {"looked", "synced"} => SnapshotHolds(x),
         \A v \in Writers \ {w} :
           IF x.table = "users" THEN ~ChangingUser(v, x.user)
           ELSE ~ChangingMembership(v, x.tenant, x.user)
  PROVE  ApartInv'
<1> USE DEF TxnInv, ApartInv
<1>1. x # NoRow
  BY NoTxnAssumption DEF Txns
<1>2. \A v \in Writers : IF v = w THEN txn'[v] = x /\ phase'[v] = next
                         ELSE txn'[v] = txn[v] /\ phase'[v] = phase[v]
  BY DEF DirectoryTxnTypeOK
<1>3. UNCHANGED <<users, memberships, memberDirectory, userDirectory>>
  BY DEF directoryVars
<1>4. \A v \in Writers : txn[v] # NoRow => txn[v] \in Txns
  BY DEF DirectoryTxnTypeOK, Txns
<1>5. RowsHeld'
  <2> SUFFICES ASSUME NEW v \in Writers, NEW y \in Writers, txn'[y] # NoRow
               PROVE  IF txn'[y].table = "users" THEN ChangingUser(v, txn[y].user)' => v = y
                      ELSE ChangingMembership(v, txn[y].tenant, txn[y].user)' => v = y
    BY DEF RowsHeld
  <2>1. CASE y = w
    BY <1>2, <2>1 DEF ChangingUser, ChangingMembership
  <2>2. CASE y # w /\ v # w
    BY <1>2, <2>2 DEF RowsHeld, ChangingUser, ChangingMembership
  <2>3. CASE y # w /\ v = w
    BY <1>1, <1>2, <1>4, <2>3 DEF ChangingUser, ChangingMembership, Txns, UserTxn, MembershipTxn
  <2> QED BY <2>1, <2>2, <2>3
<1>6. ASSUME NEW v \in Writers, txn'[v] # NoRow  PROVE ChangeAllowed(txn[v])'
  <2>1. PICK y \in Txns : y = txn'[v]
    BY <1>2, <1>4, <1>6
  <2>2. ChangeAllowed(y)
    BY <1>2, <2>1, <1>6
  <2>3. ChangeAllowed(y)'
    BY <1>3, <2>2, AllowedWhileRowsStay
  <2> QED BY <2>1, <2>3 DEF ChangeAllowed, UserChange, ActiveUser, MembershipChange
<1>7. ASSUME NEW v \in Writers, PastSnapshot(v)'  PROVE SnapshotHolds(txn[v])'
  <2>1. PICK y \in Txns : y = txn'[v]
    BY <1>2, <1>4, <1>7 DEF PastSnapshot, DirectoryTxnTypeOK
  <2>2. SnapshotHolds(y)
    BY <1>2, <2>1, <1>7 DEF PastSnapshot
  <2>3. SnapshotHolds(y)'
    BY <1>3, <2>2, HoldsWhileRowsStay
  <2> QED BY <2>1, <2>3 DEF SnapshotHolds
<1> QED BY <1>5, <1>6, <1>7

LEMMA HeldRowsApart ==
  ASSUME TxnInv, ApartInv, NEW w \in Writers, NEW x \in Txns, txn[w] # NoRow,
         x.table = txn[w].table, x.user = txn[w].user,
         x.table # "users" => x.tenant = txn[w].tenant
  PROVE  \A v \in Writers \ {w} :
           IF x.table = "users" THEN ~ChangingUser(v, x.user)
           ELSE ~ChangingMembership(v, x.tenant, x.user)
BY DEF ApartInv, RowsHeld

\* A transaction that ends takes its row with it; what the others rely on is left.
LEMMA ApartEnd ==
  ASSUME TxnInv, ApartInv, NEW w \in Writers, Leaves(w),
         \A v \in Writers \ {w} : txn'[v] = txn[v],
         \A v \in Writers \ {w} : txn[v] # NoRow => ChangeAllowed(txn[v])',
         \A v \in Writers \ {w} : PastSnapshot(v) => SnapshotHolds(txn[v])'
  PROVE  ApartInv'
<1>1. \A v \in Writers : IF v = w THEN txn'[v] = NoRow /\ phase'[v] = "idle"
                         ELSE txn'[v] = txn[v] /\ phase'[v] = phase[v]
  BY DEF Leaves, TxnInv, DirectoryTxnTypeOK
<1>2. RowsHeld'
  <2> SUFFICES ASSUME NEW v \in Writers, NEW y \in Writers, txn'[y] # NoRow
               PROVE  IF txn'[y].table = "users" THEN ChangingUser(v, txn[y].user)' => v = y
                      ELSE ChangingMembership(v, txn[y].tenant, txn[y].user)' => v = y
    BY DEF RowsHeld
  <2>1. y # w /\ txn'[y] = txn[y]
    BY <1>1
  <2>2. CASE v = w
    BY <1>1, <2>2 DEF ChangingUser, ChangingMembership
  <2>3. CASE v # w
    BY <1>1, <2>1, <2>3 DEF ApartInv, RowsHeld, ChangingUser, ChangingMembership
  <2> QED BY <2>2, <2>3
<1>3. \A v \in Writers : txn'[v] # NoRow => ChangeAllowed(txn[v])'
  BY <1>1
<1>4. \A v \in Writers : PastSnapshot(v)' => SnapshotHolds(txn[v])'
  BY <1>1 DEF PastSnapshot
<1> QED BY <1>2, <1>3, <1>4 DEF ApartInv

\* What stays so for a transaction does so for the one that a writer keeps.
LEMMA KeptTxn ==
  ASSUME NEW v \in Writers, NEW y \in Txns, y = txn[v], txn'[v] = txn[v]
  PROVE  /\ ChangeAllowed(y)' => ChangeAllowed(txn[v])'
         /\ SnapshotHolds(y)' => SnapshotHolds(txn[v])'
<1>1. y = txn'[v]
  OBVIOUS
<1> QED BY <1>1 DEF ChangeAllowed, SnapshotHolds, UserChange, ActiveUser, MembershipChange

LEMMA ApartUserCommit ==
  ASSUME TxnInv, ApartInv, SnapshotsApart, NEW w \in Writers, Commit(w),
         txn[w].table = "users"
  PROVE  ApartInv'
<1> USE DEF TxnInv
<1>1. PICK x \in UserTxn : x = txn[w] /\ CommitUser(x)
  BY NoTxnAssumption DEF Commit, DirectoryTxnTypeOK, MembershipTxn
<1>2. DirectoryTypeOK /\ phase[w] = "synced" /\ txn[w] # NoRow /\ x.table = "users"
  BY <1>1 DEF Commit, DirectoryTxnTypeOK
<1>2a. Leaves(w) /\ \A v \in Writers \ {w} : txn'[v] = txn[v]
  BY CommitLeaves
<1>3. /\ x.user \in Users /\ x.row \in UserRow /\ x.row # NoRow
      /\ users' = [users EXCEPT ![x.user] = x.row]
      /\ userDirectory' = [userDirectory EXCEPT ![x.user] = x.row]
      /\ UNCHANGED memberships
      /\ \A t \in Tenants, u \in Users :
           memberDirectory'[t][u] \in {memberDirectory[t][u], WithUser(memberDirectory[t][u], x.row)}
  BY <1>1, <1>2, CommitUserEffect
<1>4. \A t \in Tenants, u \in Users :
        (memberDirectory'[t][u] = NoRow) = (memberDirectory[t][u] = NoRow)
  <2> SUFFICES ASSUME NEW t \in Tenants, NEW u \in Users
               PROVE  (memberDirectory'[t][u] = NoRow) = (memberDirectory[t][u] = NoRow)
    OBVIOUS
  <2>1. memberDirectory[t][u] \in DirectoryRow \union {NoRow}
    BY <1>2 DEF DirectoryTypeOK
  <2> QED BY <1>3, <2>1, WithUserRow
<1>5. /\ \A u \in Users \ {x.user} : users'[u] = users[u] /\ userDirectory'[u] = userDirectory[u]
      /\ users'[x.user] # NoRow
  BY <1>2, <1>3 DEF DirectoryTypeOK
<1>6. ASSUME NEW v \in Writers \ {w}, txn[v] # NoRow
      PROVE  /\ ChangeAllowed(txn[v])'
             /\ PastSnapshot(v) => SnapshotHolds(txn[v])'
  <2>1. PICK y \in Txns : y = txn[v]
    BY <1>6 DEF DirectoryTxnTypeOK, Txns
  <2>2. y.user \in Users /\ (y.table # "users" => y.table = "memberships") /\ txn'[v] = txn[v]
    BY <1>2a, <2>1 DEF Txns, UserTxn, MembershipTxn
  <2>3. y.table = "users" => y.user # x.user
    BY <1>1, <1>2, <1>6, <2>1 DEF ApartInv, RowsHeld, ChangingUser
  <2>4. PastSnapshot(v) /\ y.table # "users" => y.user # x.user
    BY <1>1, <1>2, <2>1, <2>2 DEF SnapshotsApart, PastSnapshot
  <2>5. ChangeAllowed(y)'
    <3>1. ChangeAllowed(y)
      BY <1>6, <2>1 DEF ApartInv
    <3>2. y.table = "users" => users'[y.user] = users[y.user]
      BY <1>5, <2>2, <2>3
    <3>3. y.table # "users" => /\ users[y.user] # NoRow => users'[y.user] # NoRow
                               /\ memberships'[y.tenant][y.user] = memberships[y.tenant][y.user]
      BY <1>3, <1>5, <2>2
    <3> QED BY <3>1, <3>2, <3>3, AllowedWhileRowsStay
  <2>6. PastSnapshot(v) => SnapshotHolds(y)'
    <3> SUFFICES ASSUME PastSnapshot(v)  PROVE SnapshotHolds(y)'
      OBVIOUS
    <3>1. SnapshotHolds(y)
      BY <2>1 DEF ApartInv
    <3>2. y.table # "users" => userDirectory'[y.user] = userDirectory[y.user]
      BY <1>5, <2>2, <2>4
    <3>3. \A t \in Tenants :
            (memberDirectory'[t][y.user] = NoRow) = (memberDirectory[t][y.user] = NoRow)
      BY <1>4, <2>2
    <3> QED BY <3>1, <3>2, <3>3, HoldsWhileRowsStay
  <2> QED BY <2>1, <2>2, <2>5, <2>6, KeptTxn
<1>7. \A v \in Writers : PastSnapshot(v) => txn[v] # NoRow
  BY DEF PastSnapshot, DirectoryTxnTypeOK
<1> QED BY <1>2a, <1>6, <1>7, ApartEnd

LEMMA ApartMembershipCommit ==
  ASSUME TxnInv, ApartInv, SnapshotsApart, NEW w \in Writers, Commit(w),
         txn[w].table # "users"
  PROVE  ApartInv'
<1> USE DEF TxnInv
<1>1. PICK x \in MembershipTxn : x = txn[w] /\ CommitMembership(x)
  BY NoTxnAssumption DEF Commit, DirectoryTxnTypeOK, UserTxn
<1>2. /\ DirectoryTypeOK /\ phase[w] = "synced" /\ txn[w] # NoRow
      /\ x.table = "memberships" /\ x.seen # NoRow
  BY <1>1 DEF Commit, DirectoryTxnTypeOK, MembershipTxn, SeesUser
<1>2a. Leaves(w) /\ \A v \in Writers \ {w} : txn'[v] = txn[v]
  <2>1. \A v \in Writers \ {w} :
          ~(phase[v] = "looked" /\ txn[v].table = "users" /\ txn[v].user = txn[w].user)
    BY <1>1, <1>2 DEF SnapshotsApart, PastSnapshot
  <2> QED BY <2>1, CommitLeaves
<1>3. /\ x.user \in Users /\ x.tenant \in Tenants
      /\ memberships' = [memberships EXCEPT ![x.tenant][x.user] = x.row]
      /\ UNCHANGED <<users, userDirectory>>
      /\ \A t \in Tenants, u \in Users \ {x.user} : memberDirectory'[t][u] = memberDirectory[t][u]
  BY <1>1, <1>2, CommitMembershipEffect
<1>4. \A t \in Tenants, u \in Users :
        ~(t = x.tenant /\ u = x.user) => memberships'[t][u] = memberships[t][u]
  BY <1>2, <1>3 DEF DirectoryTypeOK
<1>5. ASSUME NEW v \in Writers \ {w}, txn[v] # NoRow
      PROVE  /\ ChangeAllowed(txn[v])'
             /\ PastSnapshot(v) => SnapshotHolds(txn[v])'
  <2>1. PICK y \in Txns : y = txn[v]
    BY <1>5 DEF DirectoryTxnTypeOK, Txns
  <2>2. /\ y.user \in Users /\ txn'[v] = txn[v]
        /\ y.table # "users" => y.table = "memberships" /\ y.tenant \in Tenants
    BY <1>2a, <2>1 DEF Txns, UserTxn, MembershipTxn
  <2>3. y.table # "users" => ~(y.tenant = x.tenant /\ y.user = x.user)
    BY <1>1, <1>2, <1>5, <2>1, <2>2 DEF ApartInv, RowsHeld, ChangingMembership
  <2>4. PastSnapshot(v) /\ y.table = "users" => y.user # x.user
    BY <1>1, <1>2, <2>1 DEF SnapshotsApart, PastSnapshot
  <2>5. ChangeAllowed(y)'
    <3>1. ChangeAllowed(y)
      BY <1>5, <2>1 DEF ApartInv
    <3>2. y.table # "users" => memberships'[y.tenant][y.user] = memberships[y.tenant][y.user]
      BY <1>4, <2>2, <2>3
    <3> QED BY <1>3, <3>1, <3>2, AllowedWhileRowsStay
  <2>6. PastSnapshot(v) => SnapshotHolds(y)'
    <3> SUFFICES ASSUME PastSnapshot(v)  PROVE SnapshotHolds(y)'
      OBVIOUS
    <3>1. SnapshotHolds(y)
      BY <2>1 DEF ApartInv
    <3>2. y.table = "users" => \A t \in Tenants :
            (memberDirectory'[t][y.user] = NoRow) = (memberDirectory[t][y.user] = NoRow)
      BY <1>3, <2>2, <2>4
    <3> QED BY <1>3, <3>1, <3>2, HoldsWhileRowsStay
  <2> QED BY <2>1, <2>2, <2>5, <2>6, KeptTxn
<1>6. \A v \in Writers : PastSnapshot(v) => txn[v] # NoRow
  BY DEF PastSnapshot, DirectoryTxnTypeOK
<1> QED BY <1>2a, <1>5, <1>6, ApartEnd

LEMMA ApartStep ==
  ASSUME TxnInv, ApartInv, SnapshotsApart, [DirectoryTxnNext]_directoryTxnVars
  PROVE  ApartInv'
<1>1. ASSUME NEW w \in Writers, Change(w)  PROVE ApartInv'
  <2>1. PICK x \in Txns :
          /\ txn' = [txn EXCEPT ![w] = x] /\ phase' = [phase EXCEPT ![w] = "changed"]
          /\ UNCHANGED directoryVars /\ RowFree(x)
          /\ x.table = "users" => UserChange(x.user, x.row)
          /\ x.table = "memberships" => MembershipChange(x.tenant, x.user, x.row)
    BY <1>1, ChangeWork DEF TxnInv
  <2>2. x.table # "users" => x.table = "memberships"
    BY <2>1 DEF Txns, UserTxn, MembershipTxn
  <2>3. ChangeAllowed(x)
    BY <2>1, <2>2 DEF ChangeAllowed
  <2> QED BY <2>1, <2>3, ApartStatement DEF RowFree
<1>2. ASSUME NEW w \in Writers, Look(w)  PROVE ApartInv'
  <2>1. PICK x \in Txns :
          /\ txn' = [txn EXCEPT ![w] = x] /\ phase' = [phase EXCEPT ![w] = "looked"]
          /\ UNCHANGED directoryVars
          /\ txn[w] # NoRow /\ x.table = txn[w].table /\ x.user = txn[w].user
          /\ x.row = txn[w].row
          /\ x.table = "users" =>
               x.tenants = {t \in Tenants : memberDirectory[t][x.user] # NoRow}
          /\ x.table = "memberships" => /\ x.tenant = txn[w].tenant
                                        /\ x.seen = userDirectory[x.user]
    BY <1>2, LookWork DEF TxnInv
  <2>2. x.table # "users" => x.table = "memberships"
    BY <2>1 DEF Txns, UserTxn, MembershipTxn
  <2>3. ChangeAllowed(x) /\ SnapshotHolds(x)
    BY <2>1, <2>2 DEF ApartInv, ChangeAllowed, SnapshotHolds
  <2>4. \A v \in Writers \ {w} :
          IF x.table = "users" THEN ~ChangingUser(v, x.user)
          ELSE ~ChangingMembership(v, x.tenant, x.user)
    BY <2>1, <2>2, HeldRowsApart
  <2> QED BY <2>1, <2>3, <2>4, ApartStatement
<1>3. ASSUME NEW w \in Writers, Sync(w)  PROVE ApartInv'
  <2>1. PICK x \in Txns : x = txn[w] /\ x # NoRow
    BY <1>3, NoTxnAssumption DEF Sync, TxnInv, DirectoryTxnTypeOK, Txns
  <2>2. /\ txn' = [txn EXCEPT ![w] = x] /\ phase' = [phase EXCEPT ![w] = "synced"]
        /\ UNCHANGED directoryVars
    BY <1>3, <2>1 DEF Sync, TxnInv, DirectoryTxnTypeOK
  <2>3. ChangeAllowed(x) /\ SnapshotHolds(x)
    BY <1>3, <2>1 DEF ApartInv, Sync, PastSnapshot
  <2>4. \A v \in Writers \ {w} :
          IF x.table = "users" THEN ~ChangingUser(v, x.user)
          ELSE ~ChangingMembership(v, x.tenant, x.user)
    BY <2>1, HeldRowsApart
  <2> QED BY <2>2, <2>3, <2>4, ApartStatement
<1>4. ASSUME NEW w \in Writers, Commit(w)  PROVE ApartInv'
  BY <1>4, ApartUserCommit, ApartMembershipCommit
<1>5. ASSUME NEW w \in Writers, Rollback(w)  PROVE ApartInv'
  <2>1. Forget(w) /\ UNCHANGED <<users, memberships, memberDirectory, userDirectory>>
    BY <1>5 DEF Rollback, directoryVars
  <2>2. ASSUME NEW v \in Writers \ {w}, txn[v] # NoRow
        PROVE  ChangeAllowed(txn[v])' /\ (PastSnapshot(v) => SnapshotHolds(txn[v])')
    <3>1. PICK y \in Txns : y = txn[v]
      BY <2>2 DEF TxnInv, DirectoryTxnTypeOK, Txns
    <3>2. ChangeAllowed(y) /\ (PastSnapshot(v) => SnapshotHolds(y)) /\ txn'[v] = txn[v]
      BY <2>1, <2>2, <3>1 DEF ApartInv, Forget, TxnInv, DirectoryTxnTypeOK
    <3>3. ChangeAllowed(y)' /\ (PastSnapshot(v) => SnapshotHolds(y)')
      BY <2>1, <3>2, AllowedWhileRowsStay, HoldsWhileRowsStay
    <3> QED BY <3>1, <3>2, <3>3, KeptTxn
  <2>3. \A v \in Writers : PastSnapshot(v) => txn[v] # NoRow
    BY DEF PastSnapshot, TxnInv, DirectoryTxnTypeOK
  <2>4. Leaves(w) /\ \A v \in Writers \ {w} : txn'[v] = txn[v]
    BY <2>1, ForgetLeaves DEF TxnInv
  <2> QED BY <2>2, <2>3, <2>4, ApartEnd
<1>6. CASE UNCHANGED directoryTxnVars
  <2>1. UNCHANGED <<users, memberships, memberDirectory, userDirectory, phase, txn>>
    BY <1>6 DEF directoryTxnVars, directoryVars
  <2>2. RowsHeld'
    BY <2>1 DEF ApartInv, RowsHeld, ChangingUser, ChangingMembership
  <2>3. ASSUME NEW v \in Writers, txn[v] # NoRow
        PROVE  ChangeAllowed(txn[v])' /\ (PastSnapshot(v) => SnapshotHolds(txn[v])')
    <3>1. PICK y \in Txns : y = txn[v]
      BY <2>3 DEF TxnInv, DirectoryTxnTypeOK, Txns
    <3>2. ChangeAllowed(y)' /\ (PastSnapshot(v) => SnapshotHolds(y)')
      BY <2>1, <2>3, <3>1, AllowedWhileRowsStay, HoldsWhileRowsStay DEF ApartInv
    <3> QED BY <2>1, <3>1, <3>2, KeptTxn
  <2>4. \A v \in Writers : (txn'[v] # NoRow => ChangeAllowed(txn[v])')
                           /\ (PastSnapshot(v)' => SnapshotHolds(txn[v])')
    BY <2>1, <2>3 DEF PastSnapshot, TxnInv, DirectoryTxnTypeOK
  <2> QED BY <2>2, <2>4 DEF ApartInv
<1> QED BY <1>1, <1>2, <1>3, <1>4, <1>5, <1>6 DEF DirectoryTxnNext

LEMMA ApartCommitIsSerial ==
  ASSUME TxnInv, ApartInv, NEW w \in Writers, Commit(w)
  PROVE  DirectoryNext
<1> USE DEF TxnInv
<1>1. PICK x \in Txns : x = txn[w] /\ txn[w] # NoRow /\ PastSnapshot(w)
  BY NoTxnAssumption DEF Commit, DirectoryTxnTypeOK, Txns, PastSnapshot
<1>2. DirectoryTypeOK /\ ChangeAllowed(x) /\ SnapshotHolds(x)
  BY <1>1 DEF DirectoryTxnTypeOK, ApartInv
<1>3. CASE x.table = "users"
  <2>1. x \in UserTxn /\ CommitUser(x)
    BY <1>1, <1>3 DEF Commit, Txns, MembershipTxn
  <2> QED BY <1>2, <1>3, <2>1, LoneUserCommit DEF ChangeAllowed, SnapshotHolds
<1>4. CASE x.table # "users"
  <2>1. x \in MembershipTxn /\ CommitMembership(x)
    BY <1>1, <1>4 DEF Commit, Txns, UserTxn
  <2> QED BY <1>2, <1>4, <2>1, LoneMembershipCommit DEF ChangeAllowed, SnapshotHolds
<1> QED BY <1>3, <1>4

LEMMA OnlyCommitsWrite ==
  ASSUME [DirectoryTxnNext]_directoryTxnVars
  PROVE  UNCHANGED directoryVars \/ \E w \in Writers : Commit(w)
BY DEF DirectoryTxnNext, Change, ChangeUser, ChangeMembership, Look, Sync, Rollback,
       directoryTxnVars

\* For any number of writers: as long as no writer of a user and writer of one of its
\* memberships hold the snapshots of their triggers at once, the overlapping
\* transactions are the serial directory, so that nothing else makes it stale.
THEOREM SnapshotsApartAreSerial ==
  DirectoryTxnSpec /\ []SnapshotsApart => DirectorySpec
<1>1. DirectoryTxnInit => DirectoryInit /\ ApartInv
  <2>1. DirectoryTxnInit => RowsHeld
    BY DEF DirectoryTxnInit, RowsHeld
  <2> QED BY <2>1 DEF DirectoryTxnInit, ApartInv, PastSnapshot
<1>2. DirectoryTxnSpec /\ []SnapshotsApart => []ApartInv
  BY <1>1, TxnInvCorrect, ApartStep, PTL DEF DirectoryTxnSpec
<1>3. TxnInv /\ ApartInv /\ [DirectoryTxnNext]_directoryTxnVars => [DirectoryNext]_directoryVars
  BY OnlyCommitsWrite, ApartCommitIsSerial
<1> QED BY <1>1, <1>2, <1>3, TxnInvCorrect, PTL DEF DirectoryTxnSpec, DirectorySpec

\* Then organization_member_directory() lists the active members and nobody else: the
\* listing that a run finds stale is owed to such a pair of snapshots.
THEOREM OnlySharedSnapshotsGoStale ==
  DirectoryTxnSpec /\ []SnapshotsApart =>
    [](UserDirectoryMirrors /\ MemberDirectoryMirrors /\ DirectoryListsActiveMembers)
BY SnapshotsApartAreSerial, ProjectionsMirror, DirectoryExact, PTL

-----------------------------------------------------------------------------
(* The bootstrap beside them. *)

Matches(x, s) == SameRow(x, s) /\ x.row = s.row

\* A membership statement of a bootstrap saw the user as the bootstrap itself left it.
SawSeed(x) ==
  x.table = "memberships" =>
    \E j \in DOMAIN Seed : /\ Seed[j].table = "users" /\ Seed[j].user = x.user
                           /\ x.seen = Seed[j].row

\* A transaction at statement p of Seed, which is x: it keeps what the statements
\* before have written.
Progress(x, p, ks, now) ==
  /\ Matches(x, Seed[p])
  /\ \A y \in ks : SawSeed(y) /\ \E i \in 1..(p - 1) : Matches(y, Seed[i])
  /\ \A i \in 1..(p - 1) : \E y \in ks : Matches(y, Seed[i])
  /\ now \in {"looked", "synced"} => SawSeed(x)

Seeding(w) == txn[w] # NoRow /\ Progress(txn[w], pos[w], kept[w], phase[w])

\* The foreign key keeps the user of a membership that an administrator changes.
KeepsUser(w) ==
  txn[w] # NoRow /\ txn[w].table = "memberships" =>
    /\ users[txn[w].user] # NoRow
    /\ PastSnapshot(w) => txn[w].seen # NoRow

BootInv ==
  /\ BootstrapTypeOK /\ UserDirectoryMirrors /\ MembershipPartMirrors
  /\ \A w \in Writers : IF pos[w] = 0 THEN KeepsUser(w) ELSE Seeding(w)

LEMMA SeedRows ==
  /\ \A i \in DOMAIN Seed : Seed[i] \in UserSeed \union MembershipSeed
  /\ DOMAIN Seed = 1..Len(Seed) /\ Len(Seed) \in Nat
BY SeedAssumption

LEMMA SawSeedSees ==
  ASSUME NEW x \in MembershipTxn, SawSeed(x)
  PROVE  x.seen # NoRow
<1>1. PICK j \in DOMAIN Seed : Seed[j].table = "users" /\ x.seen = Seed[j].row
  BY DEF SawSeed, MembershipTxn
<1>2. Seed[j] \in UserSeed
  BY <1>1, SeedRows DEF MembershipSeed
<1>3. x.seen \in UserRow
  BY <1>1, <1>2 DEF UserSeed, UserRow
<1> QED BY <1>3, NoRowAssumption

\* What CommitAll leaves in each row.
LEMMA CommitAllRows ==
  ASSUME NEW xs \in SUBSET Txns, CommitAll(xs)
  PROVE  /\ users' = [u \in Users |-> users'[u]]
         /\ userDirectory' = [u \in Users |-> userDirectory'[u]]
         /\ memberships' = [t \in Tenants |-> [u \in Users |-> memberships'[t][u]]]
         /\ memberDirectory' = [t \in Tenants |-> [u \in Users |-> memberDirectory'[t][u]]]
         /\ \A u \in Users :
              \/ /\ ~ \E x \in xs : x.table = "users" /\ x.user = u
                 /\ users'[u] = users[u] /\ userDirectory'[u] = userDirectory[u]
              \/ \E x \in xs : /\ x.table = "users" /\ x.user = u
                               /\ users'[u] = x.row /\ userDirectory'[u] = x.row
         /\ \A t \in Tenants, u \in Users :
              \/ /\ ~ \E x \in xs : x.table = "memberships" /\ x.user = u /\ x.tenant = t
                 /\ memberships'[t][u] = memberships[t][u]
                 /\ \/ memberDirectory'[t][u] = memberDirectory[t][u]
                    \/ \E x \in xs :
                         /\ x.table = "users"
                         /\ memberDirectory'[t][u] = WithUser(memberDirectory[t][u], x.row)
              \/ \E x \in xs :
                   /\ x.table = "memberships" /\ x.user = u /\ x.tenant = t
                   /\ memberships'[t][u] = x.row
                   /\ memberDirectory'[t][u] = WithMembership(memberDirectory[t][u], x)
<1> DEFINE OfUser(u) == {x \in xs : x.table = "users" /\ x.user = u}
           OfMembership(t, u) == {x \in xs : x.table = "memberships" /\ x.user = u /\ x.tenant = t}
           Own(t, u) == {x \in OfUser(u) : t \in x.tenants}
<1>1. ASSUME NEW u \in Users
      PROVE  /\ users'[u] = IF OfUser(u) = {} THEN users[u] ELSE (CHOOSE x \in OfUser(u) : TRUE).row
             /\ userDirectory'[u] = IF OfUser(u) = {} THEN userDirectory[u]
                                    ELSE (CHOOSE x \in OfUser(u) : TRUE).row
  BY DEF CommitAll
<1>2. ASSUME NEW t \in Tenants, NEW u \in Users
      PROVE  /\ memberships'[t][u] = IF OfMembership(t, u) = {} THEN memberships[t][u]
                                     ELSE (CHOOSE x \in OfMembership(t, u) : TRUE).row
             /\ memberDirectory'[t][u] =
                  IF OfMembership(t, u) # {}
                  THEN WithMembership(memberDirectory[t][u], CHOOSE x \in OfMembership(t, u) : TRUE)
                  ELSE IF Own(t, u) # {}
                  THEN WithUser(memberDirectory[t][u], (CHOOSE x \in Own(t, u) : TRUE).row)
                  ELSE memberDirectory[t][u]
  BY DEF CommitAll
<1>3. ASSUME NEW u \in Users
      PROVE  \/ /\ ~ \E x \in xs : x.table = "users" /\ x.user = u
                /\ users'[u] = users[u] /\ userDirectory'[u] = userDirectory[u]
             \/ \E x \in xs : /\ x.table = "users" /\ x.user = u
                              /\ users'[u] = x.row /\ userDirectory'[u] = x.row
  <2>1. CASE OfUser(u) = {}
    BY <1>1, <2>1
  <2>2. CASE OfUser(u) # {}
    <3>1. PICK x \in OfUser(u) : x = CHOOSE y \in OfUser(u) : TRUE
      BY <2>2
    <3> QED BY <1>1, <2>2, <3>1
  <2> QED BY <2>1, <2>2
<1>4. ASSUME NEW t \in Tenants, NEW u \in Users
      PROVE  \/ /\ ~ \E x \in xs : x.table = "memberships" /\ x.user = u /\ x.tenant = t
                /\ memberships'[t][u] = memberships[t][u]
                /\ \/ memberDirectory'[t][u] = memberDirectory[t][u]
                   \/ \E x \in xs :
                        /\ x.table = "users"
                        /\ memberDirectory'[t][u] = WithUser(memberDirectory[t][u], x.row)
             \/ \E x \in xs :
                  /\ x.table = "memberships" /\ x.user = u /\ x.tenant = t
                  /\ memberships'[t][u] = x.row
                  /\ memberDirectory'[t][u] = WithMembership(memberDirectory[t][u], x)
  <2>1. CASE OfMembership(t, u) # {}
    <3>1. PICK x \in OfMembership(t, u) : x = CHOOSE y \in OfMembership(t, u) : TRUE
      BY <2>1
    <3> QED BY <1>2, <2>1, <3>1
  <2>2. CASE OfMembership(t, u) = {}
    <3>1. ~ \E x \in xs : x.table = "memberships" /\ x.user = u /\ x.tenant = t
      BY <2>2
    <3>2. memberships'[t][u] = memberships[t][u]
      BY <1>2, <2>2
    <3>3. CASE Own(t, u) = {}
      BY <1>2, <2>2, <3>1, <3>2, <3>3
    <3>4. CASE Own(t, u) # {}
      <4>1. PICK x \in Own(t, u) : x = CHOOSE y \in Own(t, u) : TRUE
        BY <3>4
      <4> QED BY <1>2, <2>2, <3>1, <3>2, <3>4, <4>1
    <3> QED BY <3>3, <3>4
  <2> QED BY <2>1, <2>2
<1>5. /\ users' = [u \in Users |-> users'[u]] /\ userDirectory' = [u \in Users |-> userDirectory'[u]]
      /\ memberships' = [t \in Tenants |-> [u \in Users |-> memberships'[t][u]]]
      /\ memberDirectory' = [t \in Tenants |-> [u \in Users |-> memberDirectory'[t][u]]]
  BY DEF CommitAll
<1> HIDE DEF OfUser, OfMembership, Own
<1> QED BY <1>3, <1>4, <1>5

LEMMA CommitSeedMirrors ==
  ASSUME BootInv, NEW w \in Writers, CommitSeed(w)
  PROVE  /\ DirectoryTypeOK' /\ UserDirectoryMirrors' /\ MembershipPartMirrors'
         /\ \A u \in Users : users[u] # NoRow => users'[u] # NoRow
<1>1. DirectoryTypeOK /\ Seeding(w) /\ PastSnapshot(w) /\ SawSeed(txn[w])
  <2>1. DirectoryTypeOK /\ PastSnapshot(w)
    BY DEF BootInv, BootstrapTypeOK, DirectoryTxnTypeOK, CommitSeed, PastSnapshot
  <2>2. pos[w] # 0
    BY SeedRows DEF BootInv, BootstrapTypeOK, CommitSeed
  <2>3. Seeding(w)
    BY <2>2 DEF BootInv
  <2> QED BY <2>1, <2>3 DEF Seeding, Progress, PastSnapshot
<1>2. PICK xs : xs = kept[w] \union {txn[w]}
  OBVIOUS
<1>3. xs \in SUBSET Txns /\ CommitAll(xs)
  <2>1. kept[w] \in SUBSET Txns /\ txn[w] \in Txns
    BY <1>1 DEF BootInv, BootstrapTypeOK, DirectoryTxnTypeOK, Seeding, Txns
  <2> QED BY <1>2, <2>1 DEF CommitSeed
<1>4. \A x \in xs : SawSeed(x)
  BY <1>1, <1>2 DEF Seeding, Progress
<1>5. \A x \in xs : x.table = "users" => x \in UserTxn /\ x.row \in UserRow
  BY <1>3 DEF Txns, UserTxn, MembershipTxn
<1>6. \A x \in xs : x.table = "memberships" =>
        /\ x \in MembershipTxn /\ x.row \in MembershipRow \union {NoRow} /\ x.seen # NoRow
  BY <1>3, <1>4, SawSeedSees DEF Txns, UserTxn, MembershipTxn
<1>7. ASSUME NEW u \in Users
      PROVE  /\ users'[u] \in UserRow \union {NoRow}
             /\ userDirectory'[u] = users'[u]
             /\ users[u] # NoRow => users'[u] # NoRow
  <2>1. users[u] \in UserRow \union {NoRow} /\ userDirectory[u] = users[u]
    BY <1>1 DEF DirectoryTypeOK, BootInv, UserDirectoryMirrors
  <2>2. \/ users'[u] = users[u] /\ userDirectory'[u] = userDirectory[u]
        \/ \E x \in xs : x.table = "users" /\ users'[u] = x.row /\ userDirectory'[u] = x.row
    BY <1>3, CommitAllRows
  <2> QED BY <1>5, <2>1, <2>2, NoRowAssumption
<1>8. ASSUME NEW t \in Tenants, NEW u \in Users
      PROVE  /\ memberships'[t][u] \in MembershipRow \union {NoRow}
             /\ memberDirectory'[t][u] \in DirectoryRow \union {NoRow}
             /\ IF memberships'[t][u] = NoRow THEN memberDirectory'[t][u] = NoRow
                ELSE /\ memberDirectory'[t][u] # NoRow
                     /\ memberDirectory'[t][u].role = memberships'[t][u].role
                     /\ memberDirectory'[t][u].membership = memberships'[t][u].status
  <2>1. PICK old \in DirectoryRow \union {NoRow} : old = memberDirectory[t][u]
    BY <1>1 DEF DirectoryTypeOK
  <2>2. memberships[t][u] \in MembershipRow \union {NoRow}
    BY <1>1 DEF DirectoryTypeOK
  <2>3. IF memberships[t][u] = NoRow THEN old = NoRow
        ELSE /\ old # NoRow
             /\ old.role = memberships[t][u].role /\ old.membership = memberships[t][u].status
    BY <2>1 DEF BootInv, MembershipPartMirrors
  <2>4. CASE memberships'[t][u] = memberships[t][u] /\ memberDirectory'[t][u] = old
    BY <2>2, <2>3, <2>4
  <2>5. ASSUME memberships'[t][u] = memberships[t][u], NEW x \in xs, x.table = "users",
               memberDirectory'[t][u] = WithUser(old, x.row)
        PROVE  /\ memberships'[t][u] \in MembershipRow \union {NoRow}
               /\ memberDirectory'[t][u] \in DirectoryRow \union {NoRow}
               /\ IF memberships'[t][u] = NoRow THEN memberDirectory'[t][u] = NoRow
                  ELSE /\ memberDirectory'[t][u] # NoRow
                       /\ memberDirectory'[t][u].role = memberships'[t][u].role
                       /\ memberDirectory'[t][u].membership = memberships'[t][u].status
    <3>1. PICK new : new = WithUser(old, x.row)
      OBVIOUS
    <3>2. /\ new \in DirectoryRow \union {NoRow} /\ (new = NoRow) = (old = NoRow)
          /\ old # NoRow => new.role = old.role /\ new.membership = old.membership
      BY <1>5, <2>5, <3>1, WithUserRow
    <3> QED BY <2>2, <2>3, <2>5, <3>1, <3>2
  <2>6. ASSUME NEW x \in xs, x.table = "memberships", memberships'[t][u] = x.row,
               memberDirectory'[t][u] = WithMembership(old, x)
        PROVE  /\ memberships'[t][u] \in MembershipRow \union {NoRow}
               /\ memberDirectory'[t][u] \in DirectoryRow \union {NoRow}
               /\ IF memberships'[t][u] = NoRow THEN memberDirectory'[t][u] = NoRow
                  ELSE /\ memberDirectory'[t][u] # NoRow
                       /\ memberDirectory'[t][u].role = memberships'[t][u].role
                       /\ memberDirectory'[t][u].membership = memberships'[t][u].status
    <3>1. PICK new : new = WithMembership(old, x)
      OBVIOUS
    <3>2. /\ new \in DirectoryRow \union {NoRow} /\ (new = NoRow) = (x.row = NoRow)
          /\ x.row # NoRow => new.role = x.row.role /\ new.membership = x.row.status
      BY <1>6, <2>6, <3>1, WithMembershipRow
    <3> QED BY <1>6, <2>6, <3>1, <3>2
  <2>7. \/ /\ memberships'[t][u] = memberships[t][u]
           /\ \/ memberDirectory'[t][u] = memberDirectory[t][u]
              \/ \E x \in xs : /\ x.table = "users"
                               /\ memberDirectory'[t][u] = WithUser(memberDirectory[t][u], x.row)
        \/ \E x \in xs : /\ x.table = "memberships" /\ memberships'[t][u] = x.row
                         /\ memberDirectory'[t][u] = WithMembership(memberDirectory[t][u], x)
    BY <1>3, CommitAllRows
  <2> QED BY <2>1, <2>4, <2>5, <2>6, <2>7
<1>9. DirectoryTypeOK'
  <2>1. /\ users' = [u \in Users |-> users'[u]]
        /\ userDirectory' = [u \in Users |-> userDirectory'[u]]
        /\ memberships' = [t \in Tenants |-> [u \in Users |-> memberships'[t][u]]]
        /\ memberDirectory' = [t \in Tenants |-> [u \in Users |-> memberDirectory'[t][u]]]
    BY <1>3, CommitAllRows
  <2>2. users' \in [Users -> UserRow \union {NoRow}]
        /\ userDirectory' \in [Users -> UserRow \union {NoRow}]
    BY <1>7, <2>1
  <2>3. memberships' \in [Tenants -> [Users -> MembershipRow \union {NoRow}]]
    BY <1>8, <2>1
  <2>4. memberDirectory' \in [Tenants -> [Users -> DirectoryRow \union {NoRow}]]
    BY <1>8, <2>1
  <2> QED BY <2>2, <2>3, <2>4 DEF DirectoryTypeOK
<1>10. UserDirectoryMirrors'
  BY <1>7, <1>9 DEF DirectoryTypeOK, UserDirectoryMirrors
<1>11. MembershipPartMirrors'
  BY <1>8 DEF MembershipPartMirrors
<1> QED BY <1>7, <1>9, <1>10, <1>11

\* A statement of writer w, whatever it is: the others stay as they are.
LEMMA BootStatement ==
  ASSUME BootInv, NEW w \in Writers, NEW x \in Txns,
         NEW next \in {"changed", "looked", "synced"},
         NEW p \in 0..Len(Seed), NEW ks \in SUBSET Txns,
         phase' = [phase EXCEPT ![w] = next], txn' = [txn EXCEPT ![w] = x],
         pos' = [pos EXCEPT ![w] = p], kept' = [kept EXCEPT ![w] = ks],
         alone' \in [Writers -> BOOLEAN], UNCHANGED directoryVars,
         p = 0 => /\ ks = {}
                  /\ x.table = "memberships" =>
                       users[x.user] # NoRow /\ (next \in {"looked", "synced"} => x.seen # NoRow),
         p # 0 => Progress(x, p, ks, next)
  PROVE  BootInv'
<1> USE DEF BootInv, BootstrapTypeOK
<1>1. x # NoRow
  BY NoTxnAssumption DEF Txns
<1>2. DirectoryTypeOK' /\ UserDirectoryMirrors' /\ MembershipPartMirrors'
  BY DEF DirectoryTxnTypeOK, DirectoryTypeOK, directoryVars, UserDirectoryMirrors,
         MembershipPartMirrors
<1>3. DirectoryTxnTypeOK'
  BY <1>1, <1>2 DEF DirectoryTxnTypeOK, Txns
<1>4. BootstrapTypeOK'
  <2>1. pos' \in [Writers -> 0..Len(Seed)] /\ kept' \in [Writers -> SUBSET (UserTxn \union MembershipTxn)]
    BY DEF Txns
  <2>2. \A v \in Writers : pos'[v] = 0 => kept'[v] = {}
    OBVIOUS
  <2> QED BY <1>3, <2>1, <2>2
<1>5. ASSUME NEW v \in Writers  PROVE IF pos'[v] = 0 THEN KeepsUser(v)' ELSE Seeding(v)'
  <2>1. CASE v = w
    <3>1. /\ txn'[v] = x /\ phase'[v] = next /\ pos'[v] = p /\ kept'[v] = ks /\ users' = users
      BY <2>1 DEF DirectoryTxnTypeOK, directoryVars
    <3>2. CASE p = 0
      BY <3>1, <3>2 DEF KeepsUser, PastSnapshot
    <3>3. CASE p # 0
      BY <1>1, <3>1, <3>3 DEF Seeding
    <3> QED BY <3>1, <3>2, <3>3
  <2>2. CASE v # w
    <3>1. /\ txn'[v] = txn[v] /\ phase'[v] = phase[v] /\ pos'[v] = pos[v] /\ kept'[v] = kept[v]
          /\ users' = users
      BY <2>2 DEF DirectoryTxnTypeOK, directoryVars
    <3>2. CASE pos[v] = 0
      BY <3>1, <3>2 DEF KeepsUser, PastSnapshot
    <3>3. CASE pos[v] # 0
      BY <3>1, <3>3 DEF Seeding
    <3> QED BY <3>1, <3>2, <3>3
  <2> QED BY <2>1, <2>2
<1> QED BY <1>2, <1>4, <1>5

\* The end of the transaction of writer w, with what it wrote or without.
LEMMA BootEnd ==
  ASSUME BootInv, NEW w \in Writers, Leaves(w),
         pos' = [pos EXCEPT ![w] = 0], kept' = [kept EXCEPT ![w] = {}],
         DirectoryTypeOK', UserDirectoryMirrors', MembershipPartMirrors',
         \A u \in Users : users[u] # NoRow => users'[u] # NoRow
  PROVE  BootInv'
<1> USE DEF BootInv, BootstrapTypeOK
<1>1. DirectoryTxnTypeOK'
  BY DEF DirectoryTxnTypeOK, Leaves, Txns
<1>2. BootstrapTypeOK'
  <2>1. pos' \in [Writers -> 0..Len(Seed)]
        /\ kept' \in [Writers -> SUBSET (UserTxn \union MembershipTxn)]
    BY SeedRows
  <2>2. \A v \in Writers : pos'[v] = 0 => kept'[v] = {}
    OBVIOUS
  <2> QED BY <1>1, <2>1, <2>2
<1>3. ASSUME NEW v \in Writers  PROVE IF pos'[v] = 0 THEN KeepsUser(v)' ELSE Seeding(v)'
  <2>1. CASE v = w
    <3>1. txn'[v] = NoRow /\ pos'[v] = 0
      BY <2>1 DEF Leaves
    <3> QED BY <3>1 DEF KeepsUser
  <2>2. CASE v # w
    <3>1. /\ phase'[v] = phase[v] /\ pos'[v] = pos[v] /\ kept'[v] = kept[v]
          /\ (txn'[v] = NoRow) = (txn[v] = NoRow)
          /\ txn[v] # NoRow => /\ txn'[v].table = txn[v].table /\ txn'[v].user = txn[v].user
                               /\ txn'[v].row = txn[v].row
          /\ txn[v] # NoRow /\ txn[v].table = "memberships" => txn'[v] = txn[v]
      BY <2>2 DEF DirectoryTxnTypeOK, Leaves
    <3>2. CASE pos[v] = 0
      <4>1. txn[v] # NoRow => txn[v].user \in Users
        BY DEF DirectoryTxnTypeOK, UserTxn, MembershipTxn
      <4>2. KeepsUser(v)
        BY <3>2
      <4> QED BY <3>1, <3>2, <4>1, <4>2 DEF KeepsUser, PastSnapshot
    <3>3. CASE pos[v] # 0
      <4>1. txn[v] # NoRow /\ Progress(txn[v], pos[v], kept[v], phase[v])
        BY <3>3 DEF Seeding
      <4>2. PICK x, y : x = txn[v] /\ y = txn'[v]
        OBVIOUS
      <4>3. /\ y # NoRow /\ y.table = x.table /\ y.user = x.user /\ y.row = x.row
            /\ x.table = "memberships" => y = x
        BY <3>1, <4>1, <4>2
      <4>4. Progress(x, pos[v], kept[v], phase[v]) => Progress(y, pos[v], kept[v], phase[v])
        <5>1. Matches(x, Seed[pos[v]]) => Matches(y, Seed[pos[v]])
          BY <4>3 DEF Matches, SameRow
        <5>2. SawSeed(x) => SawSeed(y)
          BY <4>3 DEF SawSeed
        <5> QED BY <5>1, <5>2 DEF Progress
      <4>5. y # NoRow /\ Progress(y, pos'[v], kept'[v], phase'[v])
        BY <3>1, <4>1, <4>2, <4>3, <4>4
      <4>6. Seeding(v)'
        BY <4>2, <4>5 DEF Seeding
      <4> QED BY <3>1, <3>3, <4>6
    <3> QED BY <3>2, <3>3
  <2> QED BY <2>1, <2>2
<1> QED BY <1>2, <1>3

LEMMA SeedStatement ==
  ASSUME BootInv, NEW w \in Writers, NEW i \in DOMAIN Seed, Upsert(w, i)
  PROVE  \E x \in Txns :
           /\ txn' = [txn EXCEPT ![w] = x] /\ phase' = [phase EXCEPT ![w] = "changed"]
           /\ pos' = [pos EXCEPT ![w] = i] /\ UNCHANGED directoryVars
           /\ Matches(x, Seed[i])
<1>1. PICK s : s = Seed[i]
  OBVIOUS
<1>2. s \in UserSeed \union MembershipSeed
  BY <1>1, SeedRows
<1> DEFINE y == IF s.table = "users"
                THEN [table |-> "users", user |-> s.user, row |-> s.row, tenants |-> {}]
                ELSE [table |-> "memberships", user |-> s.user, tenant |-> s.tenant,
                      row |-> s.row, seen |-> NoRow]
<1>3. y \in Txns /\ Matches(y, s)
  <2>1. CASE s.table = "users"
    <3>1. s \in UserSeed
      BY <1>2, <2>1 DEF MembershipSeed
    <3> QED BY <2>1, <3>1 DEF UserSeed, UserRow, Txns, UserTxn, Matches, SameRow
  <2>2. CASE s.table # "users"
    <3>1. s \in MembershipSeed
      BY <1>2, <2>2 DEF UserSeed
    <3> QED BY <2>2, <3>1 DEF MembershipSeed, MembershipRow, Txns, MembershipTxn, Matches, SameRow
  <2> QED BY <2>1, <2>2
<1>4. txn' = [txn EXCEPT ![w] = y]
  BY <1>1 DEF Upsert
<1> HIDE DEF y
<1>5. phase' = [phase EXCEPT ![w] = "changed"] /\ pos' = [pos EXCEPT ![w] = i]
      /\ UNCHANGED directoryVars
  BY DEF Upsert
<1> QED BY <1>1, <1>3, <1>4, <1>5

\* A statement that leaves the rest of the transaction as it is keeps its progress.
LEMMA ProgressKept ==
  ASSUME NEW x, NEW y, NEW p, NEW ks, NEW now,
         Progress(x, p, ks, "changed"), y.table = x.table, y.user = x.user, y.row = x.row,
         x.table = "memberships" => y.tenant = x.tenant, SawSeed(y)
  PROVE  Progress(y, p, ks, now)
<1>1. Matches(y, Seed[p])
  BY DEF Progress, Matches, SameRow
<1> QED BY <1>1 DEF Progress

LEMMA BootOneRowStep ==
  ASSUME BootInv, NEW w \in Writers, OneRowStep(w)
  PROVE  BootInv'
<1>1. DirectoryTxnTypeOK /\ pos[w] = 0 /\ kept[w] = {} /\ KeepsUser(w) /\ DirectoryTypeOK
      /\ pos \in [Writers -> 0..Len(Seed)] /\ kept \in [Writers -> SUBSET Txns]
  BY DEF OneRowStep, BootInv, BootstrapTypeOK, DirectoryTxnTypeOK, Txns
<1>2. pos' = [pos EXCEPT ![w] = 0] /\ kept' = [kept EXCEPT ![w] = {}]
  BY <1>1 DEF OneRowStep, seedVars
<1>3. 0 \in 0..Len(Seed)
  BY SeedRows
<1>4. CASE Change(w)
  <2>1. PICK x \in Txns :
          /\ txn' = [txn EXCEPT ![w] = x] /\ phase' = [phase EXCEPT ![w] = "changed"]
          /\ UNCHANGED directoryVars /\ Open(w)
          /\ x.table = "memberships" => MembershipChange(x.tenant, x.user, x.row)
    BY <1>1, <1>4, ChangeWork
  <2>2. alone' \in [Writers -> BOOLEAN]
    BY <1>1, <2>1 DEF Open, DirectoryTxnTypeOK
  <2>3. x.table = "memberships" => users[x.user] # NoRow
    BY <2>1 DEF MembershipChange
  <2> QED BY <1>2, <1>3, <2>1, <2>2, <2>3, BootStatement
<1>5. CASE Look(w)
  <2>1. PICK x \in Txns :
          /\ txn' = [txn EXCEPT ![w] = x] /\ phase' = [phase EXCEPT ![w] = "looked"]
          /\ UNCHANGED <<directoryVars, alone>>
          /\ txn[w] # NoRow /\ x.table = txn[w].table /\ x.user = txn[w].user
          /\ x.table = "memberships" => x.seen = userDirectory[x.user]
    BY <1>1, <1>5, LookWork
  <2>2. x.table = "memberships" => users[x.user] # NoRow /\ x.user \in Users
    BY <1>1, <2>1 DEF KeepsUser, MembershipTxn, Txns, UserTxn
  <2>3. x.table = "memberships" => users[x.user] # NoRow /\ x.seen # NoRow
    BY <2>1, <2>2 DEF BootInv, UserDirectoryMirrors
  <2>4. alone' \in [Writers -> BOOLEAN]
    BY <1>1, <2>1 DEF DirectoryTxnTypeOK
  <2>5. txn' = [txn EXCEPT ![w] = x] /\ phase' = [phase EXCEPT ![w] = "looked"]
        /\ UNCHANGED directoryVars
    BY <2>1
  <2> QED BY <1>2, <1>3, <2>3, <2>4, <2>5, BootStatement
<1>6. CASE Sync(w)
  <2>1. PICK x \in Txns : x = txn[w] /\ txn[w] # NoRow
    BY <1>1, <1>6, NoTxnAssumption DEF Sync, DirectoryTxnTypeOK, Txns
  <2>2. txn' = [txn EXCEPT ![w] = x] /\ phase' = [phase EXCEPT ![w] = "synced"]
        /\ UNCHANGED directoryVars /\ alone' \in [Writers -> BOOLEAN]
    BY <1>1, <1>6, <2>1 DEF Sync, DirectoryTxnTypeOK
  <2>3. x.table = "memberships" => users[x.user] # NoRow /\ x.seen # NoRow
    BY <1>1, <1>6, <2>1 DEF KeepsUser, PastSnapshot, Sync
  <2> QED BY <1>2, <1>3, <2>2, <2>3, BootStatement
<1>7. CASE Commit(w)
  <2>1. Leaves(w)
    BY <1>1, <1>7, CommitLeaves
  <2>2. txn[w].table = "memberships" => txn[w].seen # NoRow
    BY <1>1, <1>7 DEF KeepsUser, PastSnapshot, Commit, DirectoryTxnTypeOK
  <2>3. /\ DirectoryTypeOK' /\ UserDirectoryMirrors' /\ MembershipPartMirrors'
        /\ \A u \in Users : users[u] # NoRow => users'[u] # NoRow
    BY <1>1, <1>7, <2>2, CommitMirrors DEF BootInv
  <2> QED BY <1>2, <2>1, <2>3, BootEnd
<1>8. CASE Rollback(w)
  <2>1. Leaves(w)
    BY <1>1, <1>8, ForgetLeaves DEF Rollback
  <2>2. UNCHANGED directoryVars
    BY <1>8 DEF Rollback
  <2>3. DirectoryTypeOK' /\ UserDirectoryMirrors' /\ MembershipPartMirrors'
        /\ users' = users
    BY <1>1, <2>2 DEF BootInv, DirectoryTypeOK, directoryVars, UserDirectoryMirrors,
           MembershipPartMirrors
  <2> QED BY <1>2, <2>1, <2>3, BootEnd
<1> QED BY <1>4, <1>5, <1>6, <1>7, <1>8 DEF OneRowStep

LEMMA BootBegin ==
  ASSUME BootInv, NEW w \in Writers, BeginSeed(w)
  PROVE  BootInv'
<1>1. 1 \in DOMAIN Seed
  BY SeedAssumption DEF BeginSeed
<1>2. PICK x \in Txns :
        /\ txn' = [txn EXCEPT ![w] = x] /\ phase' = [phase EXCEPT ![w] = "changed"]
        /\ pos' = [pos EXCEPT ![w] = 1] /\ UNCHANGED directoryVars /\ Matches(x, Seed[1])
  BY <1>1, SeedStatement DEF BeginSeed
<1>3. kept[w] = {} /\ kept \in [Writers -> SUBSET Txns]
  <2>1. phase[w] = "idle" /\ txn[w] = NoRow
    BY DEF BeginSeed, BootInv, BootstrapTypeOK, DirectoryTxnTypeOK
  <2>2. pos[w] = 0
    BY <2>1 DEF BootInv, Seeding
  <2> QED BY <2>2 DEF BootInv, BootstrapTypeOK, Txns
<1>4. kept' = [kept EXCEPT ![w] = {}]
  BY <1>3 DEF BeginSeed
<1>5. alone' \in [Writers -> BOOLEAN]
  BY DEF BeginSeed
<1>6. Progress(x, 1, {}, "changed")
  BY <1>2 DEF Progress
<1>7. 1 \in 0..Len(Seed)
  BY <1>1, SeedRows
<1>8. PICK p \in 0..Len(Seed) : p = 1 /\ p # 0
  BY <1>7
<1>9. {} \in SUBSET Txns
  OBVIOUS
<1> QED BY <1>2, <1>4, <1>5, <1>6, <1>8, <1>9, BootStatement

LEMMA BootNextStatement ==
  ASSUME BootInv, NEW w \in Writers, NextSeed(w)
  PROVE  BootInv'
<1>1. PICK p \in Nat : p = pos[w] /\ p \in 1..(Len(Seed) - 1) /\ p + 1 \in DOMAIN Seed
                       /\ p + 1 \in 0..Len(Seed) /\ p # 0 /\ p + 1 # 0
  BY SeedRows DEF NextSeed
<1>2. PICK x \in Txns :
        /\ txn' = [txn EXCEPT ![w] = x] /\ phase' = [phase EXCEPT ![w] = "changed"]
        /\ pos' = [pos EXCEPT ![w] = p + 1] /\ UNCHANGED directoryVars
        /\ Matches(x, Seed[p + 1])
  BY <1>1, SeedStatement DEF NextSeed
<1>3. txn[w] # NoRow /\ Progress(txn[w], p, kept[w], "synced")
  BY <1>1 DEF NextSeed, BootInv, Seeding
<1>4. PICK ks : ks = kept[w] \union {txn[w]}
  OBVIOUS
<1>5. ks \in SUBSET Txns
  BY <1>3, <1>4 DEF BootInv, BootstrapTypeOK, DirectoryTxnTypeOK, Txns
<1>6. kept' = [kept EXCEPT ![w] = ks]
  BY <1>4 DEF NextSeed
<1>7. \A y \in ks : SawSeed(y) /\ \E i \in 1..p : Matches(y, Seed[i])
  <2>1. ASSUME NEW y \in kept[w]  PROVE SawSeed(y) /\ \E i \in 1..p : Matches(y, Seed[i])
    <3>1. SawSeed(y) /\ \E i \in 1..(p - 1) : Matches(y, Seed[i])
      BY <1>3 DEF Progress
    <3>2. PICK i \in 1..(p - 1) : Matches(y, Seed[i])
      BY <3>1
    <3>3. i \in 1..p
      BY <1>1
    <3> QED BY <3>1, <3>2, <3>3
  <2>2. SawSeed(txn[w]) /\ Matches(txn[w], Seed[p]) /\ p \in 1..p
    BY <1>1, <1>3 DEF Progress
  <2> QED BY <1>4, <2>1, <2>2
<1>8. ASSUME NEW i \in 1..p  PROVE \E y \in ks : Matches(y, Seed[i])
  <2>1. CASE i = p
    BY <1>3, <1>4, <2>1 DEF Progress
  <2>2. CASE i # p
    <3>1. i \in 1..(p - 1)
      BY <1>1, <2>2
    <3>2. \E y \in kept[w] : Matches(y, Seed[i])
      BY <1>3, <3>1 DEF Progress
    <3> QED BY <1>4, <3>2
  <2> QED BY <2>1, <2>2
<1>9. Progress(x, p + 1, ks, "changed")
  <2>1. (p + 1) - 1 = p
    BY <1>1
  <2> QED BY <1>2, <1>7, <1>8, <2>1 DEF Progress
<1>10. alone' \in [Writers -> BOOLEAN]
  BY DEF NextSeed, BootInv, BootstrapTypeOK, DirectoryTxnTypeOK
<1> QED BY <1>1, <1>2, <1>5, <1>6, <1>9, <1>10, BootStatement

LEMMA BootLook ==
  ASSUME BootInv, NEW w \in Writers, LookSeed(w)
  PROVE  BootInv'
<1>1. PICK p \in 0..Len(Seed), ks \in SUBSET Txns : p = pos[w] /\ ks = kept[w] /\ p # 0
  BY SeedRows DEF LookSeed, BootInv, BootstrapTypeOK, Txns
<1>2. /\ pos' = [pos EXCEPT ![w] = p] /\ kept' = [kept EXCEPT ![w] = ks]
      /\ txn \in [Writers -> Txns \union {NoRow}]
  BY <1>1 DEF LookSeed, seedVars, BootInv, BootstrapTypeOK, DirectoryTxnTypeOK, Txns
<1>3. PICK x \in Txns : x = txn[w] /\ x # NoRow /\ Progress(x, p, ks, phase[w])
  BY <1>1, <1>2 DEF BootInv, Seeding
<1>4. CASE x.table = "memberships"
  <2>1. PICK y \in ks : /\ y.table = "users" /\ y.user = x.user
                        /\ txn' = [txn EXCEPT ![w].seen = y.row]
                        /\ phase[w] = "changed" /\ phase' = [phase EXCEPT ![w] = "looked"]
                        /\ UNCHANGED <<directoryVars, alone>>
    BY <1>1, <1>3, <1>4 DEF LookSeed
  <2>2. x \in MembershipTxn /\ y \in UserTxn
    BY <1>4, <2>1 DEF Txns, UserTxn, MembershipTxn
  <2> DEFINE z == [x EXCEPT !.seen = y.row]
  <2>3. z \in Txns /\ z.table = x.table /\ z.user = x.user /\ z.row = x.row
        /\ z.tenant = x.tenant /\ z.seen = y.row
    BY <2>2 DEF UserTxn, MembershipTxn, Txns
  <2>4. txn' = [txn EXCEPT ![w] = z]
    BY <1>3, <2>1
  <2> HIDE DEF z
  <2>5. PICK i \in 1..(p - 1) : Matches(y, Seed[i])
    BY <1>3, <2>1 DEF Progress
  <2>6. i \in DOMAIN Seed
    BY SeedRows
  <2>7. SawSeed(z)
    BY <2>1, <2>3, <2>5, <2>6 DEF SawSeed, Matches, SameRow
  <2>8. Progress(x, p, ks, "changed")
    BY <1>3, <2>1
  <2>9. Progress(z, p, ks, "looked")
    BY <2>3, <2>7, <2>8, ProgressKept
  <2>10. alone' \in [Writers -> BOOLEAN] /\ UNCHANGED directoryVars
         /\ phase' = [phase EXCEPT ![w] = "looked"]
    BY <2>1 DEF BootInv, BootstrapTypeOK, DirectoryTxnTypeOK
  <2> QED BY <1>1, <1>2, <2>3, <2>4, <2>9, <2>10, BootStatement
<1>5. CASE x.table # "memberships"
  <2>1. Look(w)
    BY <1>3, <1>5 DEF LookSeed
  <2>2. DirectoryTxnTypeOK
    BY DEF BootInv, BootstrapTypeOK
  <2>3. PICK z \in Txns :
          /\ txn' = [txn EXCEPT ![w] = z] /\ phase' = [phase EXCEPT ![w] = "looked"]
          /\ UNCHANGED <<directoryVars, alone>>
          /\ z.table = txn[w].table /\ z.user = txn[w].user /\ z.row = txn[w].row
    BY <2>1, <2>2, LookWork
  <2>4. SawSeed(z)
    BY <1>3, <1>5, <2>3 DEF SawSeed
  <2>5. Progress(x, p, ks, "changed")
    BY <1>3, <2>1 DEF Look
  <2>6. Progress(z, p, ks, "looked")
    BY <1>3, <1>5, <2>3, <2>4, <2>5, ProgressKept
  <2>7. alone' \in [Writers -> BOOLEAN] /\ UNCHANGED directoryVars
    BY <2>2, <2>3 DEF DirectoryTxnTypeOK
  <2>8. txn' = [txn EXCEPT ![w] = z] /\ phase' = [phase EXCEPT ![w] = "looked"]
    BY <2>3
  <2> QED BY <1>1, <1>2, <2>6, <2>7, <2>8, BootStatement
<1> QED BY <1>4, <1>5

LEMMA BootSync ==
  ASSUME BootInv, NEW w \in Writers, SyncSeed(w)
  PROVE  BootInv'
<1>1. PICK p \in 0..Len(Seed), ks \in SUBSET Txns : p = pos[w] /\ ks = kept[w] /\ p # 0
  BY SeedRows DEF SyncSeed, BootInv, BootstrapTypeOK, Txns
<1>2. /\ pos' = [pos EXCEPT ![w] = p] /\ kept' = [kept EXCEPT ![w] = ks]
      /\ txn \in [Writers -> Txns \union {NoRow}]
  BY <1>1 DEF SyncSeed, seedVars, BootInv, BootstrapTypeOK, DirectoryTxnTypeOK, Txns
<1>3. PICK x \in Txns : x = txn[w] /\ x # NoRow /\ Progress(x, p, ks, phase[w])
  BY <1>1, <1>2 DEF BootInv, Seeding
<1>4. phase[w] = "looked" /\ phase' = [phase EXCEPT ![w] = "synced"]
      /\ UNCHANGED directoryVars /\ txn' = txn /\ alone' = alone
  BY DEF SyncSeed, Sync
<1>5. txn' = [txn EXCEPT ![w] = x]
  BY <1>2, <1>3, <1>4
<1>6. Progress(x, p, ks, "synced")
  BY <1>3, <1>4 DEF Progress
<1>7. alone' \in [Writers -> BOOLEAN]
  BY <1>4 DEF BootInv, BootstrapTypeOK, DirectoryTxnTypeOK
<1> QED BY <1>1, <1>2, <1>4, <1>5, <1>6, <1>7, BootStatement

\* A transaction that ends without its rows.
LEMMA BootForgotten ==
  ASSUME BootInv, NEW w \in Writers, ForgetSeed(w), UNCHANGED directoryVars
  PROVE  BootInv'
<1>1. Leaves(w)
  BY ForgetLeaves DEF ForgetSeed, BootInv, BootstrapTypeOK
<1>2. DirectoryTypeOK' /\ UserDirectoryMirrors' /\ MembershipPartMirrors' /\ users' = users
  BY DEF BootInv, BootstrapTypeOK, DirectoryTxnTypeOK, DirectoryTypeOK, directoryVars,
         UserDirectoryMirrors, MembershipPartMirrors
<1> QED BY <1>1, <1>2, BootEnd DEF ForgetSeed

LEMMA BootInvStep ==
  ASSUME BootInv, [BootstrapNext]_bootstrapVars
  PROVE  BootInv'
<1>1. CASE UNCHANGED bootstrapVars
  BY <1>1 DEF bootstrapVars, directoryTxnVars, directoryVars, seedVars, BootInv, BootstrapTypeOK,
         DirectoryTxnTypeOK, DirectoryTypeOK, UserDirectoryMirrors, MembershipPartMirrors,
         KeepsUser, PastSnapshot, Seeding
<1>2. ASSUME NEW w \in Writers, OneRowStep(w)  PROVE BootInv'
  BY <1>2, BootOneRowStep
<1>3. ASSUME NEW w \in Writers, BeginSeed(w)  PROVE BootInv'
  BY <1>3, BootBegin
<1>4. ASSUME NEW w \in Writers, NextSeed(w)  PROVE BootInv'
  BY <1>4, BootNextStatement
<1>5. ASSUME NEW w \in Writers, LookSeed(w)  PROVE BootInv'
  BY <1>5, BootLook
<1>6. ASSUME NEW w \in Writers, SyncSeed(w)  PROVE BootInv'
  BY <1>6, BootSync
<1>7. ASSUME NEW w \in Writers, CommitSeed(w)  PROVE BootInv'
  <2>1. Leaves(w)
    BY <1>7, ForgetLeaves DEF CommitSeed, ForgetSeed, BootInv, BootstrapTypeOK
  <2>2. /\ DirectoryTypeOK' /\ UserDirectoryMirrors' /\ MembershipPartMirrors'
        /\ \A u \in Users : users[u] # NoRow => users'[u] # NoRow
    BY <1>7, CommitSeedMirrors
  <2> QED BY <1>7, <2>1, <2>2, BootEnd DEF CommitSeed, ForgetSeed
<1>8. ASSUME NEW w \in Writers, RollbackSeed(w)  PROVE BootInv'
  BY <1>8, BootForgotten DEF RollbackSeed
<1>9. ASSUME NEW w \in Writers, DeadlockVictim(w)  PROVE BootInv'
  BY <1>9, BootForgotten DEF DeadlockVictim
<1> QED BY <1>1, <1>2, <1>3, <1>4, <1>5, <1>6, <1>7, <1>8, <1>9 DEF BootstrapNext

LEMMA BootInvCorrect == BootstrapSpec => []BootInv
<1>1. BootstrapInit => BootInv
  BY SeedRows DEF BootstrapInit, DirectoryTxnInit, DirectoryInit, BootInv, BootstrapTypeOK,
     DirectoryTxnTypeOK, DirectoryTypeOK, UserDirectoryMirrors, MembershipPartMirrors, KeepsUser
<1>2. BootInv /\ [BootstrapNext]_bootstrapVars => BootInv'
  BY BootInvStep
<1> QED BY <1>1, <1>2, PTL DEF BootstrapSpec

\* The type invariant, with the bootstraps' transactions among those of the others.
THEOREM BootstrapTypeCorrect == BootstrapSpec => []BootstrapTypeOK
<1>1. BootInv => BootstrapTypeOK
  BY DEF BootInv
<1> QED BY <1>1, BootInvCorrect, PTL

\* A projection row has the role and status of its membership also when a bootstrap's
\* many statements overlap logins and administrators (sync_organization_user_directory).
THEOREM BootstrapKeepsMirrors ==
  BootstrapSpec => [](MembershipPartMirrors /\ UserDirectoryMirrors)
<1>1. BootInv => MembershipPartMirrors /\ UserDirectoryMirrors
  BY DEF BootInv
<1> QED BY <1>1, BootInvCorrect, PTL

\* Every circle of writers that wait for each other has a bootstrap in it: a login or an
\* administrator waits at its last statement only, and holds rows others wait for after it.
THEOREM OnlyBootstrapsCloseCircles == BootstrapSpec => []CirclesNeedBootstrap
<1>1. BootInv => CirclesNeedBootstrap
  <2> SUFFICES ASSUME BootInv, NEW v \in Writers, NEW w \in Writers, NEW x \in Writers,
                      WaitsFor(v, w), WaitsFor(w, x), pos[v] = 0, pos[w] = 0
               PROVE  FALSE
    BY SeedRows DEF CirclesNeedBootstrap, BootInv, BootstrapTypeOK
  <2>1. phase[w] = "looked" /\ phase[v] = "looked"
    BY SeedRows DEF WaitsFor
  <2>2. kept[w] = {}
    BY DEF BootInv, BootstrapTypeOK
  <2>3. HoldsTargets(w, txn[v])
    BY <2>1 DEF WaitsFor
  <2> QED BY <2>1, <2>2, <2>3 DEF HoldsTargets
<1> QED BY <1>1, BootInvCorrect, PTL

LEMMA SeededRows ==
  ASSUME BootInv, NEW w \in Writers, CommitSeed(w)
  PROVE  \E xs \in SUBSET Txns :
           /\ CommitAll(xs)
           /\ \A x \in xs : SawSeed(x) /\ \E i \in DOMAIN Seed : Matches(x, Seed[i])
           /\ \A i \in DOMAIN Seed : \E x \in xs : Matches(x, Seed[i])
<1>1. PICK p \in DOMAIN Seed : p = pos[w] /\ p = Len(Seed) /\ p # 0
  BY SeedRows DEF CommitSeed, BootInv, BootstrapTypeOK
<1>2. txn[w] # NoRow /\ Progress(txn[w], p, kept[w], "synced")
  BY <1>1 DEF CommitSeed, BootInv, Seeding
<1>3. PICK xs : xs = kept[w] \union {txn[w]}
  OBVIOUS
<1>4. xs \in SUBSET Txns /\ CommitAll(xs)
  BY <1>2, <1>3 DEF CommitSeed, BootInv, BootstrapTypeOK, DirectoryTxnTypeOK, Txns
<1>5. p \in Nat /\ DOMAIN Seed = 1..p
  BY <1>1, SeedRows
<1>6. ASSUME NEW x \in xs  PROVE SawSeed(x) /\ \E i \in DOMAIN Seed : Matches(x, Seed[i])
  <2>1. CASE x = txn[w]
    BY <1>1, <1>2, <2>1 DEF Progress
  <2>2. CASE x \in kept[w]
    <3>1. SawSeed(x)
      BY <1>2, <2>2 DEF Progress
    <3>2. PICK i \in 1..(p - 1) : Matches(x, Seed[i])
      BY <1>2, <2>2 DEF Progress
    <3>3. i \in DOMAIN Seed
      BY <1>5
    <3> QED BY <3>1, <3>2, <3>3
  <2> QED BY <1>3, <2>1, <2>2
<1>7. ASSUME NEW i \in DOMAIN Seed  PROVE \E x \in xs : Matches(x, Seed[i])
  <2>1. CASE i = p
    BY <1>2, <1>3, <2>1 DEF Progress
  <2>2. CASE i # p
    <3>1. i \in 1..(p - 1)
      BY <1>5, <2>2
    <3> QED BY <1>2, <1>3, <3>1 DEF Progress
  <2> QED BY <2>1, <2>2
<1> QED BY <1>4, <1>6, <1>7

\* What one statement of the seed leaves, of the user and of the membership it is about.
LEMMA SeededUser ==
  ASSUME BootInv, NEW xs \in SUBSET Txns, CommitAll(xs),
         \A x \in xs : \E i \in DOMAIN Seed : Matches(x, Seed[i]),
         \A i \in DOMAIN Seed : \E x \in xs : Matches(x, Seed[i]),
         NEW i \in DOMAIN Seed, Seed[i].table = "users"
  PROVE  users'[Seed[i].user] = Seed[i].row /\ userDirectory'[Seed[i].user] = Seed[i].row
<1>1. PICK s : s = Seed[i]
  OBVIOUS
<1>2. s.user \in Users /\ s.table = "users"
  BY <1>1, SeedRows DEF UserSeed, MembershipSeed
<1>3. \E x \in xs : x.table = "users" /\ x.user = s.user
  BY <1>1, <1>2 DEF Matches, SameRow
<1>4. PICK x \in xs : /\ x.table = "users" /\ x.user = s.user
                      /\ users'[s.user] = x.row /\ userDirectory'[s.user] = x.row
  BY <1>2, <1>3, CommitAllRows
<1>5. PICK j \in DOMAIN Seed : Matches(x, Seed[j])
  OBVIOUS
<1>6. SameRow(Seed[j], Seed[i])
  BY <1>1, <1>2, <1>4, <1>5 DEF Matches, SameRow
<1>7. j = i
  BY <1>6, SeedAssumption
<1> QED BY <1>1, <1>4, <1>5, <1>7 DEF Matches

LEMMA SeededMembership ==
  ASSUME BootInv, NEW xs \in SUBSET Txns, CommitAll(xs),
         \A x \in xs : SawSeed(x) /\ \E i \in DOMAIN Seed : Matches(x, Seed[i]),
         \A i \in DOMAIN Seed : \E x \in xs : Matches(x, Seed[i]),
         NEW i \in DOMAIN Seed, Seed[i].table = "memberships"
  PROVE  /\ memberships'[Seed[i].tenant][Seed[i].user] = Seed[i].row
         /\ memberDirectory'[Seed[i].tenant][Seed[i].user] =
              [name |-> users'[Seed[i].user].name, role |-> Seed[i].row.role,
               membership |-> "active", user |-> "active"]
<1>1. PICK s : s = Seed[i]
  OBVIOUS
<1>2. s \in MembershipSeed /\ s.table = "memberships"
  BY <1>1, SeedRows DEF UserSeed
<1>3. s.user \in Users /\ s.tenant \in Tenants /\ s.row \in MembershipRow
      /\ s.row.status = "active"
  BY <1>2 DEF MembershipSeed, MembershipRow
<1>4. \E x \in xs : x.table = "memberships" /\ x.user = s.user /\ x.tenant = s.tenant
  BY <1>1, <1>2 DEF Matches, SameRow
<1>5. PICK x \in xs :
        /\ x.table = "memberships" /\ x.user = s.user /\ x.tenant = s.tenant
        /\ memberships'[s.tenant][s.user] = x.row
        /\ memberDirectory'[s.tenant][s.user] = WithMembership(memberDirectory[s.tenant][s.user], x)
  BY <1>3, <1>4, CommitAllRows
<1>6. x.row = s.row
  <2>1. PICK j \in DOMAIN Seed : Matches(x, Seed[j])
    OBVIOUS
  <2>2. SameRow(Seed[j], Seed[i])
    BY <1>1, <1>2, <1>5, <2>1 DEF Matches, SameRow
  <2>3. j = i
    BY <2>2, SeedAssumption
  <2> QED BY <1>1, <2>1, <2>3 DEF Matches
<1>7. PICK j \in DOMAIN Seed :
        Seed[j].table = "users" /\ Seed[j].user = s.user /\ x.seen = Seed[j].row
  BY <1>5 DEF SawSeed
<1>8. users'[s.user] = x.seen
  BY <1>7, SeededUser
<1>9. x.seen \in UserRow /\ x.seen.status = "active"
  <2>1. Seed[j] \in UserSeed
    BY <1>7, SeedRows DEF MembershipSeed
  <2> QED BY <1>7, <2>1 DEF UserSeed, UserRow
<1>10. x.row # NoRow /\ x.seen # NoRow
  BY <1>3, <1>6, <1>9, NoRowAssumption
<1>11. WithMembership(memberDirectory[s.tenant][s.user], x) =
         [name |-> x.seen.name, role |-> s.row.role, membership |-> "active", user |-> "active"]
  BY <1>3, <1>6, <1>9, <1>10 DEF WithMembership
<1> QED BY <1>1, <1>5, <1>6, <1>8, <1>11

\* What a bootstrap seeds is current in both projections at its commit, however long its
\* transaction was and whatever it overlapped: it keeps the rows of every statement, so
\* that nobody comes between a user it has written and that user's memberships
\* (_seed_application's one engine.begin, and the triggers of 0004).
THEOREM SeedStaysMirrored == BootstrapSpec => SeedIsMirrored
<1>1. ASSUME BootInv, NEW w \in Writers, CommitSeed(w), NEW i \in DOMAIN Seed
      PROVE  IF Seed[i].table = "users"
             THEN userDirectory'[Seed[i].user] = Seed[i].row /\ users'[Seed[i].user] = Seed[i].row
             ELSE /\ memberships'[Seed[i].tenant][Seed[i].user] = Seed[i].row
                  /\ memberDirectory'[Seed[i].tenant][Seed[i].user] =
                       [name |-> users'[Seed[i].user].name, role |-> Seed[i].row.role,
                        membership |-> "active", user |-> "active"]
  <2>1. PICK xs \in SUBSET Txns :
          /\ CommitAll(xs)
          /\ \A x \in xs : SawSeed(x) /\ \E j \in DOMAIN Seed : Matches(x, Seed[j])
          /\ \A j \in DOMAIN Seed : \E x \in xs : Matches(x, Seed[j])
    BY <1>1, SeededRows
  <2>2. CASE Seed[i].table = "users"
    BY <1>1, <2>1, <2>2, SeededUser
  <2>3. CASE Seed[i].table # "users"
    <3>1. Seed[i].table = "memberships"
      BY <2>3, SeedRows DEF UserSeed, MembershipSeed
    <3> QED BY <1>1, <2>1, <2>3, <3>1, SeededMembership
  <2> QED BY <2>2, <2>3
<1>2. BootInv => [\A w \in Writers : CommitSeed(w) =>
        \A i \in DOMAIN Seed :
          LET x == Seed[i] IN
          IF x.table = "users" THEN userDirectory'[x.user] = x.row /\ users'[x.user] = x.row
          ELSE /\ memberships'[x.tenant][x.user] = x.row
               /\ memberDirectory'[x.tenant][x.user] =
                    [name |-> users'[x.user].name, role |-> x.row.role,
                     membership |-> "active", user |-> "active"]]_bootstrapVars
  BY <1>1
<1> QED BY <1>2, BootInvCorrect, PTL DEF SeedIsMirrored
=============================================================================
