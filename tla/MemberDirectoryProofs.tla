----------------------- MODULE MemberDirectoryProofs -----------------------
(***************************************************************************)
(* Type correctness of the serial directory and its projections, and that  *)
(* the projections are what they project, for all tenants, users, names    *)
(* and roles.                                                              *)
(***************************************************************************)
EXTENDS MemberDirectory, TLAPS

\* What the projections promise while transactions do not overlap.
DirectoryInv == DirectoryTypeOK /\ UserDirectoryMirrors /\ MemberDirectoryMirrors

\* The trigger of the users table keeps the projections well typed.
LEMMA SyncUserTypeOK ==
  ASSUME DirectoryTypeOK, NEW u \in Users, NEW row \in UserRow, SyncUser(u, row)
  PROVE  /\ userDirectory' \in [Users -> UserRow \union {NoRow}]
         /\ memberDirectory' \in [Tenants -> [Users -> DirectoryRow \union {NoRow}]]
<1>1. userDirectory' \in [Users -> UserRow \union {NoRow}]
  BY DEF DirectoryTypeOK, SyncUser
<1>2. ASSUME NEW t \in Tenants
      PROVE  memberDirectory'[t] \in [Users -> DirectoryRow \union {NoRow}]
  <2>1. memberDirectory[t] \in [Users -> DirectoryRow \union {NoRow}]
    BY DEF DirectoryTypeOK
  <2>2. CASE memberDirectory[t][u] = NoRow
    BY <2>1, <2>2 DEF SyncUser
  <2>3. CASE memberDirectory[t][u] # NoRow
    <3> DEFINE new == [name |-> row.name, role |-> memberDirectory[t][u].role,
                       membership |-> memberDirectory[t][u].membership, user |-> row.status]
    <3>1. memberDirectory[t][u] \in DirectoryRow
      BY <2>1, <2>3
    <3>2. new \in DirectoryRow
      BY <3>1 DEF DirectoryRow, UserRow
    <3>3. memberDirectory'[t] = [memberDirectory[t] EXCEPT ![u] = new]
      BY <2>3 DEF SyncUser
    <3> HIDE DEF new
    <3> QED BY <2>1, <3>2, <3>3
  <2> QED BY <2>2, <2>3
<1>3. memberDirectory' = [t \in Tenants |-> memberDirectory'[t]]
  BY DEF SyncUser
<1> QED BY <1>1, <1>2, <1>3

\* Logins and administrators keep the directory tables well typed.
LEMMA DirectoryTypeStep ==
  ASSUME DirectoryTypeOK, DirectoryNext
  PROVE  DirectoryTypeOK'
<1> USE NoRowAssumption DEF DirectoryTypeOK
<1>1. PICK u \in Users :
        \/ \E n \in Names : CreateUser(u, n) \/ RefreshUser(u, n)
        \/ \E s \in {"active", "disabled"} : SetUserStatus(u, s)
        \/ \E t \in Tenants :
             \/ \E r \in Roles, s \in {"active", "revoked"} : WriteMembership(t, u, r, s)
             \/ DeleteMembership(t, u)
  BY DEF DirectoryNext
<1>2. ASSUME NEW row \in UserRow, users' = [users EXCEPT ![u] = row], SyncUser(u, row),
             UNCHANGED memberships
      PROVE  DirectoryTypeOK'
  BY <1>2, SyncUserTypeOK
<1>3. ASSUME NEW n \in Names, CreateUser(u, n)  PROVE DirectoryTypeOK'
  <2>1. [name |-> n, status |-> "active"] \in UserRow
    BY DEF UserRow
  <2> QED BY <1>2, <1>3, <2>1 DEF CreateUser
<1>4. ASSUME NEW n \in Names, RefreshUser(u, n)  PROVE DirectoryTypeOK'
  <2>1. users[u] \in UserRow
    BY <1>4 DEF RefreshUser, ActiveUser
  <2>2. [users[u] EXCEPT !.name = n] \in UserRow
    BY <2>1 DEF UserRow
  <2>3. users' = [users EXCEPT ![u] = [users[u] EXCEPT !.name = n]]
    BY <1>4, <2>1 DEF RefreshUser
  <2> QED BY <1>2, <1>4, <2>2, <2>3 DEF RefreshUser
<1>5. ASSUME NEW s \in {"active", "disabled"}, SetUserStatus(u, s)  PROVE DirectoryTypeOK'
  <2>1. users[u] \in UserRow
    BY <1>5 DEF SetUserStatus
  <2>2. [users[u] EXCEPT !.status = s] \in UserRow
    BY <2>1 DEF UserRow
  <2>3. users' = [users EXCEPT ![u] = [users[u] EXCEPT !.status = s]]
    BY <1>5, <2>1 DEF SetUserStatus
  <2> QED BY <1>2, <1>5, <2>2, <2>3 DEF SetUserStatus
<1>6. ASSUME NEW t \in Tenants, NEW r \in Roles, NEW s \in {"active", "revoked"},
             WriteMembership(t, u, r, s)
      PROVE  DirectoryTypeOK'
  <2> DEFINE row == [role |-> r, status |-> s]
  <2>1. row \in MembershipRow
    BY DEF MembershipRow
  <2>2. memberships' = [memberships EXCEPT ![t][u] = row] /\ SyncMembership(t, u, row)
        /\ UNCHANGED users
    BY <1>6 DEF WriteMembership
  <2>3. memberships' \in [Tenants -> [Users -> MembershipRow \union {NoRow}]]
    <3> HIDE DEF row
    <3> QED BY <2>1, <2>2
  <2>4. memberDirectory' \in [Tenants -> [Users -> DirectoryRow \union {NoRow}]]
    <3>1. CASE userDirectory[u] = NoRow
      BY <2>2, <3>1 DEF SyncMembership
    <3>2. CASE userDirectory[u] # NoRow
      <4> DEFINE new == [name |-> userDirectory[u].name, role |-> row.role,
                         membership |-> row.status, user |-> userDirectory[u].status]
      <4>1. userDirectory[u] \in UserRow
        BY <3>2
      <4>2. new \in DirectoryRow
        BY <4>1 DEF DirectoryRow, UserRow
      <4>3. memberDirectory' = [memberDirectory EXCEPT ![t][u] = new]
        BY <2>2, <3>2 DEF SyncMembership
      <4> HIDE DEF new, row
      <4> QED BY <4>2, <4>3
    <3> QED BY <3>1, <3>2
  <2> QED BY <2>2, <2>3, <2>4 DEF SyncMembership
<1>7. ASSUME NEW t \in Tenants, DeleteMembership(t, u)  PROVE DirectoryTypeOK'
  BY <1>7 DEF DeleteMembership, UnsyncMembership
<1> QED BY <1>1, <1>3, <1>4, <1>5, <1>6, <1>7

-----------------------------------------------------------------------------
(* The projections mirror their tables. *)

\* One version of a user's row: the trigger carries it into both projections.
LEMMA UserStepMirrors ==
  ASSUME DirectoryInv, NEW u \in Users, NEW row \in UserRow,
         users' = [users EXCEPT ![u] = row], SyncUser(u, row), UNCHANGED memberships
  PROVE  UserDirectoryMirrors' /\ MemberDirectoryMirrors'
<1> USE DEF DirectoryInv
<1>1. UserDirectoryMirrors'
  BY DEF SyncUser, UserDirectoryMirrors
<1>2. MemberDirectoryMirrors'
  <2>1. SUFFICES ASSUME NEW t \in Tenants, NEW x \in Users
                 PROVE  IF memberships[t][x] = NoRow THEN memberDirectory'[t][x] = NoRow
                        ELSE /\ users'[x] # NoRow
                             /\ memberDirectory'[t][x] =
                                  [name |-> users'[x].name, role |-> memberships[t][x].role,
                                   membership |-> memberships[t][x].status,
                                   user |-> users'[x].status]
    BY DEF MemberDirectoryMirrors
  <2> DEFINE new == [name |-> row.name, role |-> memberDirectory[t][u].role,
                     membership |-> memberDirectory[t][u].membership, user |-> row.status]
  <2>2. memberDirectory'[t] = IF memberDirectory[t][u] = NoRow THEN memberDirectory[t]
                              ELSE [memberDirectory[t] EXCEPT ![u] = new]
    BY DEF SyncUser
  <2>3. row # NoRow /\ users'[u] = row /\ (x # u => users'[x] = users[x])
    BY NoRowAssumption DEF DirectoryTypeOK
  <2>4. memberDirectory[t] \in [Users -> DirectoryRow \union {NoRow}]
    BY DEF DirectoryTypeOK
  <2>5. CASE x # u
    <3>1. memberDirectory'[t][x] = memberDirectory[t][x]
      <4> HIDE DEF new
      <4> QED BY <2>2, <2>4, <2>5
    <3> QED BY <3>1, <2>3, <2>5 DEF MemberDirectoryMirrors
  <2>6. CASE x = u /\ memberships[t][u] = NoRow
    BY <2>2, <2>6 DEF MemberDirectoryMirrors
  <2>7. CASE x = u /\ memberships[t][u] # NoRow
    <3>1. users[u] # NoRow /\ memberDirectory[t][u] =
            [name |-> users[u].name, role |-> memberships[t][u].role,
             membership |-> memberships[t][u].status, user |-> users[u].status]
      BY <2>7 DEF MemberDirectoryMirrors
    <3>2. memberDirectory[t][u] # NoRow
      <4>1. users[u] \in UserRow /\ memberships[t][u] \in MembershipRow
        BY <2>7, <3>1 DEF DirectoryTypeOK
      <4>2. memberDirectory[t][u] \in DirectoryRow
        BY <3>1, <4>1 DEF UserRow, MembershipRow, DirectoryRow
      <4> QED BY <4>2, NoRowAssumption
    <3>3. memberDirectory'[t][u] = new
      <4> HIDE DEF new
      <4> QED BY <2>2, <2>4, <3>2
    <3> QED BY <2>3, <2>7, <3>1, <3>3
  <2> QED BY <2>5, <2>6, <2>7
<1> QED BY <1>1, <1>2

\* A membership written or deleted.
LEMMA MembershipStepMirrors ==
  ASSUME DirectoryInv, NEW t \in Tenants, NEW u \in Users,
         \/ \E r \in Roles, s \in {"active", "revoked"} : WriteMembership(t, u, r, s)
         \/ DeleteMembership(t, u)
  PROVE  UserDirectoryMirrors' /\ MemberDirectoryMirrors'
<1> USE DEF DirectoryInv
<1>1. UNCHANGED <<users, userDirectory>>
  BY DEF WriteMembership, DeleteMembership, SyncMembership, UnsyncMembership
<1>2. UserDirectoryMirrors'
  BY <1>1 DEF UserDirectoryMirrors
<1>3. CASE \E r \in Roles, s \in {"active", "revoked"} : WriteMembership(t, u, r, s)
  <2>1. PICK r \in Roles, s \in {"active", "revoked"} : WriteMembership(t, u, r, s)
    BY <1>3
  <2> DEFINE row == [role |-> r, status |-> s]
             new == [name |-> users[u].name, role |-> r, membership |-> s,
                     user |-> users[u].status]
  <2>2. row # NoRow
    BY NoRowAssumption DEF MembershipRow
  <2>3. users[u] # NoRow /\ memberships' = [memberships EXCEPT ![t][u] = row]
        /\ memberDirectory' = [memberDirectory EXCEPT ![t][u] = new]
    BY <2>1 DEF WriteMembership, SyncMembership, UserDirectoryMirrors
  <2>4. row.role = r /\ row.status = s
    OBVIOUS
  <2> HIDE DEF row
  <2>5. ASSUME NEW x \in Tenants, NEW y \in Users
        PROVE  /\ memberships'[x][y] = IF x = t /\ y = u THEN row ELSE memberships[x][y]
               /\ memberDirectory'[x][y] = IF x = t /\ y = u THEN new ELSE memberDirectory[x][y]
    <3> HIDE DEF new
    <3> QED BY <2>3 DEF DirectoryTypeOK
  <2> QED BY <1>1, <1>2, <2>2, <2>3, <2>4, <2>5 DEF MemberDirectoryMirrors
<1>4. CASE DeleteMembership(t, u)
  BY <1>1, <1>2, <1>4
     DEF DeleteMembership, UnsyncMembership, DirectoryTypeOK, MemberDirectoryMirrors
<1> QED BY <1>3, <1>4

\* Every transaction keeps types and mirrors.
LEMMA DirectoryInvStep ==
  ASSUME DirectoryInv, DirectoryNext
  PROVE  DirectoryInv'
<1>1. DirectoryTypeOK'
  BY DirectoryTypeStep DEF DirectoryInv
<1>2. PICK u \in Users :
        \/ \E n \in Names : CreateUser(u, n) \/ RefreshUser(u, n)
        \/ \E s \in {"active", "disabled"} : SetUserStatus(u, s)
        \/ \E t \in Tenants :
             \/ \E r \in Roles, s \in {"active", "revoked"} : WriteMembership(t, u, r, s)
             \/ DeleteMembership(t, u)
  BY DEF DirectoryNext
<1>3. ASSUME NEW row \in UserRow, users' = [users EXCEPT ![u] = row], SyncUser(u, row),
             UNCHANGED memberships
      PROVE  DirectoryInv'
  BY <1>1, <1>3, UserStepMirrors DEF DirectoryInv
<1>4. ASSUME NEW n \in Names, CreateUser(u, n)  PROVE DirectoryInv'
  <2>1. [name |-> n, status |-> "active"] \in UserRow
    BY DEF UserRow
  <2> QED BY <1>3, <1>4, <2>1 DEF CreateUser
<1>5. ASSUME NEW n \in Names, RefreshUser(u, n)  PROVE DirectoryInv'
  <2>1. users[u] \in UserRow
    BY <1>5 DEF RefreshUser, ActiveUser, DirectoryInv, DirectoryTypeOK
  <2>2. [users[u] EXCEPT !.name = n] \in UserRow
    BY <2>1 DEF UserRow
  <2>3. users' = [users EXCEPT ![u] = [users[u] EXCEPT !.name = n]]
    BY <1>5, <2>1 DEF RefreshUser, DirectoryInv, DirectoryTypeOK
  <2> QED BY <1>3, <1>5, <2>2, <2>3 DEF RefreshUser
<1>6. ASSUME NEW s \in {"active", "disabled"}, SetUserStatus(u, s)  PROVE DirectoryInv'
  <2>1. users[u] \in UserRow
    BY <1>6 DEF SetUserStatus, DirectoryInv, DirectoryTypeOK
  <2>2. [users[u] EXCEPT !.status = s] \in UserRow
    BY <2>1 DEF UserRow
  <2>3. users' = [users EXCEPT ![u] = [users[u] EXCEPT !.status = s]]
    BY <1>6, <2>1 DEF SetUserStatus, DirectoryInv, DirectoryTypeOK
  <2> QED BY <1>3, <1>6, <2>2, <2>3 DEF SetUserStatus
<1>7. CASE \E t \in Tenants :
             \/ \E r \in Roles, s \in {"active", "revoked"} : WriteMembership(t, u, r, s)
             \/ DeleteMembership(t, u)
  BY <1>1, <1>7, MembershipStepMirrors DEF DirectoryInv
<1> QED BY <1>2, <1>4, <1>5, <1>6, <1>7

LEMMA DirectoryInitInv == DirectoryInit => DirectoryInv
BY DEF DirectoryInit, DirectoryInv, DirectoryTypeOK, UserDirectoryMirrors, MemberDirectoryMirrors

\* Run one after the other, the triggers keep both projections equal to what they
\* project, whichever table a transaction writes.
THEOREM ProjectionsMirror == DirectorySpec => [](UserDirectoryMirrors /\ MemberDirectoryMirrors)
<1>1. ASSUME DirectoryInv, UNCHANGED directoryVars  PROVE DirectoryInv'
  BY <1>1 DEF directoryVars, DirectoryInv, DirectoryTypeOK, UserDirectoryMirrors,
     MemberDirectoryMirrors
<1>2. DirectoryInv /\ [DirectoryNext]_directoryVars => DirectoryInv'
  BY <1>1, DirectoryInvStep
<1>3. DirectoryInv => UserDirectoryMirrors /\ MemberDirectoryMirrors
  BY DEF DirectoryInv
<1> QED BY DirectoryInitInv, <1>2, <1>3, PTL DEF DirectorySpec

\* A projection that mirrors its tables lists the active members and nobody else.
LEMMA MirrorsList ==
  ASSUME DirectoryInv
  PROVE  DirectoryListsActiveMembers
<1>1. SUFFICES ASSUME NEW t \in Tenants, NEW actor \in Users, NEW u \in Users
               PROVE  ListedMember(t, actor, u) =
                        IF ActiveMember(t, actor) /\ ActiveMember(t, u) /\ ActiveUser(u)
                        THEN [name |-> users[u].name, role |-> memberships[t][u].role]
                        ELSE NoRow
  BY DEF DirectoryListsActiveMembers
<1>2. CASE memberships[t][u] = NoRow
  BY <1>2 DEF ListedMember, ActiveMember, DirectoryInv, MemberDirectoryMirrors
<1>3. CASE memberships[t][u] # NoRow
  <2>1. users[u] # NoRow /\ memberDirectory[t][u] =
          [name |-> users[u].name, role |-> memberships[t][u].role,
           membership |-> memberships[t][u].status, user |-> users[u].status]
    BY <1>3 DEF DirectoryInv, MemberDirectoryMirrors
  <2>2. memberDirectory[t][u] # NoRow
    <3>1. users[u] \in UserRow /\ memberships[t][u] \in MembershipRow
      BY <2>1, <1>3 DEF DirectoryInv, DirectoryTypeOK
    <3>2. memberDirectory[t][u] \in DirectoryRow
      BY <2>1, <3>1 DEF UserRow, MembershipRow, DirectoryRow
    <3> QED BY <3>2, NoRowAssumption
  <2> QED BY <1>3, <2>1, <2>2 DEF ListedMember, ActiveMember, ActiveUser
<1> QED BY <1>2, <1>3

\* Run one after the other, organization_member_directory() is exact.
THEOREM DirectoryExact == DirectorySpec => []DirectoryListsActiveMembers
<1>1. ASSUME DirectoryInv, UNCHANGED directoryVars  PROVE DirectoryInv'
  BY <1>1 DEF directoryVars, DirectoryInv, DirectoryTypeOK, UserDirectoryMirrors,
     MemberDirectoryMirrors
<1>2. DirectoryInv /\ [DirectoryNext]_directoryVars => DirectoryInv'
  BY <1>1, DirectoryInvStep
<1>3. DirectoryInv => DirectoryListsActiveMembers
  BY MirrorsList
<1> QED BY DirectoryInitInv, <1>2, <1>3, PTL DEF DirectorySpec
=============================================================================
