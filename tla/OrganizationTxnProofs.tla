------------------------ MODULE OrganizationTxnProofs ------------------------
(***************************************************************************)
(* What row locks, unique indexes and the audit policy guarantee for any   *)
(* number of overlapping requests, users, units and assignments; which     *)
(* commits are steps of the serial specification; and which overlaps are   *)
(* the only ones that harm the hierarchy.                                  *)
(***************************************************************************)
EXTENDS OrganizationTxn, OrganizationStructureProofs

RowsOf(id) == IF id \in UnitIds THEN UnitRow ELSE AssignmentRow

\* The part of the invariant that types a request: its rows belong to the table of
\* its id, its actor was a writer, and the row it loaded still exists.
WorkTyped ==
  \A r \in Requests : pc[r] # "idle" =>
    /\ work[r] \in Work
    /\ work[r].role \in {"owner", "admin"}
    /\ work[r].old \in RowsOf(work[r].id) \union {NoRow}
    /\ work[r].new \in RowsOf(work[r].id)
    /\ work[r].old # NoRow => Committed(work[r].id) # NoRow
    /\ pc[r] # "loaded" => work[r].row \in RowsOf(work[r].id)

\* As long as the request holds the row, its version is the object's values in the
\* columns it edited and the committed ones in the others.
VersionMerged ==
  \A r \in Requests : pc[r] \in {"written", "flushed", "audited"} =>
    /\ work[r].old = NoRow => work[r].row = work[r].new
    /\ work[r].old # NoRow =>
         \A f \in DOMAIN work[r].new :
           work[r].row[f] = IF work[r].new[f] = work[r].old[f]
                            THEN Committed(work[r].id)[f] ELSE work[r].new[f]

\* A version that has passed the indexes clashes with no committed row.
EnteredFree ==
  \A r \in Requests : pc[r] \in {"flushed", "audited"} =>
    \A x \in SameTable(work[r].id) \ {work[r].id} :
      ~Clash(work[r].id, work[r].row, Committed(x))

\* Versions that have passed the indexes do not clash with each other.
EntriesApart ==
  \A r, s \in Requests :
    /\ r # s /\ pc[r] \in {"flushed", "audited"} /\ pc[s] \in {"flushed", "audited"}
    /\ SameTable(work[r].id) = SameTable(work[s].id)
    => ~Clash(work[r].id, work[r].row, work[s].row)

TxnInv ==
  /\ TxnTypeOK
  /\ UnitIntegrityMirrors
  /\ WorkTyped
  /\ OneWriterPerRow
  /\ VersionMerged
  /\ EnteredFree
  /\ EntriesApart
  /\ CodesUnique
  /\ PlacesUnique

-----------------------------------------------------------------------------
(* Lemmas about rows and tables. *)

LEMMA RowIsNotNoRow ==
  ASSUME NEW id, NEW row \in RowsOf(id)
  PROVE  row # NoRow
BY NoOrganizationRowAssumption DEF RowsOf

\* A clash does not depend on which of the two rows is looked at.
LEMMA ClashSymmetric ==
  ASSUME NEW i, NEW j, (i \in UnitIds) = (j \in UnitIds),
         NEW x \in RowsOf(i), NEW y \in RowsOf(j), Clash(i, x, y)
  PROVE  Clash(j, y, x)
<1>1. x # NoRow /\ y # NoRow
  BY RowIsNotNoRow
<1>2. CASE i \in UnitIds
  BY <1>1, <1>2 DEF Clash, SameCode
<1>3. CASE i \notin UnitIds
  BY <1>1, <1>3 DEF Clash, SamePlace
<1> QED BY <1>2, <1>3

LEMMA OneTable ==
  ASSUME NEW i \in UnitIds \union AssignmentIds, NEW j \in SameTable(i)
  PROVE  /\ (i \in UnitIds) = (j \in UnitIds)
         /\ SameTable(j) = SameTable(i)
BY IdsAssumption DEF SameTable

LEMMA SameTableSameKind ==
  ASSUME NEW i \in UnitIds \union AssignmentIds, NEW j \in UnitIds \union AssignmentIds,
         SameTable(i) = SameTable(j)
  PROVE  (i \in UnitIds) = (j \in UnitIds) /\ j \in SameTable(i)
BY IdsAssumption DEF SameTable

LEMMA CommittedTyped ==
  ASSUME TypeOK, NEW id \in UnitIds \union AssignmentIds, Committed(id) # NoRow
  PROVE  Committed(id) \in RowsOf(id)
BY IdsAssumption DEF TypeOK, Committed, RowsOf

\* The version an UPDATE produces is a row of its table.
LEMMA NewVersionTyped ==
  ASSUME TypeOK, NEW w \in Work,
         w.old \in RowsOf(w.id) \union {NoRow}, w.new \in RowsOf(w.id),
         w.old # NoRow => Committed(w.id) # NoRow
  PROVE  NewVersion(w) \in RowsOf(w.id)
<1>1. CASE w.old = NoRow
  BY <1>1 DEF NewVersion
<1>2. CASE w.old # NoRow
  <2> DEFINE c == Committed(w.id)
  <2>1. w.id \in UnitIds \union AssignmentIds
    BY DEF Work
  <2>2. c \in RowsOf(w.id) /\ w.new \in RowsOf(w.id)
    BY <1>2, <2>1, CommittedTyped
  <2>3. NewVersion(w) =
          [f \in DOMAIN w.new |-> IF w.new[f] = w.old[f] THEN c[f] ELSE w.new[f]]
    BY <1>2 DEF NewVersion
  <2> HIDE DEF c
  <2>4. CASE w.id \in UnitIds
    <3>1. c \in UnitRow /\ w.new \in UnitRow
      BY <2>2, <2>4 DEF RowsOf
    <3> QED BY <2>3, <2>4, <3>1 DEF RowsOf, UnitRow
  <2>5. CASE w.id \notin UnitIds
    <3>1. c \in AssignmentRow /\ w.new \in AssignmentRow
      BY <2>2, <2>5 DEF RowsOf
    <3> QED BY <2>3, <2>5, <3>1 DEF RowsOf, AssignmentRow
  <2> QED BY <2>4, <2>5
<1> QED BY <1>1, <1>2

-----------------------------------------------------------------------------
(* Steps that leave the committed tables alone. *)

\* What depends on committed rows alone survives such a step.
LEMMA TablesKept ==
  ASSUME TxnInv, UNCHANGED tableVars
  PROVE  /\ UnitIntegrityMirrors' /\ CodesUnique' /\ PlacesUnique'
         /\ \A id \in UnitIds \union AssignmentIds : Committed(id)' = Committed(id)
BY DEF TxnInv, tableVars, UnitIntegrityMirrors, CodesUnique, PlacesUnique, Committed

\* A rollback, a victim of the deadlock detector, a refusal.
LEMMA DropStep ==
  ASSUME TxnInv, NEW r \in Requests, Drop(r)
  PROVE  TxnInv'
<1> USE DEF TxnInv
<1>1. /\ \A s \in Requests : pc'[s] = IF s = r THEN "idle" ELSE pc[s]
      /\ \A s \in Requests : work'[s] = IF s = r THEN NoRow ELSE work[s]
      /\ pc' \in [Requests -> Phases] /\ work' \in [Requests -> Work \union {NoRow}]
  BY DEF Drop, TxnTypeOK, Phases
<1>2. UNCHANGED structureVars
  BY DEF Drop
<1>3. UNCHANGED tableVars
  BY <1>2 DEF structureVars
<1>4. TxnTypeOK'
  <2>1. TypeOK'
    BY <1>2 DEF TxnTypeOK, TypeOK, DirectoryTypeOK, structureVars, directoryVars, tableVars, trailVars
  <2> QED BY <1>1, <2>1 DEF TxnTypeOK
<1>5. \A id \in UnitIds \union AssignmentIds : Committed(id)' = Committed(id)
  BY <1>3, TablesKept
<1>6. WorkTyped'
  BY <1>1, <1>5 DEF WorkTyped, Work
<1>7. OneWriterPerRow'
  BY <1>1 DEF OneWriterPerRow, HoldsRow
<1>8. VersionMerged'
  BY <1>1, <1>5 DEF VersionMerged, WorkTyped, Work
<1>9. EnteredFree'
  BY <1>1, <1>5 DEF EnteredFree, WorkTyped, SameTable
<1>10. EntriesApart'
  BY <1>1 DEF EntriesApart
<1> QED BY <1>3, <1>4, <1>6, <1>7, <1>8, <1>9, <1>10, TablesKept

\* A new request.
LEMMA BeginStep ==
  ASSUME TxnInv, NEW r \in Requests, NEW actor \in Users, NEW t \in Tenants,
         NEW id \in UnitIds \union AssignmentIds,
         NEW old \in RowsOf(id) \union {NoRow}, NEW new \in RowsOf(id),
         old # NoRow => Committed(id) # NoRow,
         Begin(r, actor, t, id, old, new)
  PROVE  TxnInv'
<1> USE DEF TxnInv
<1> DEFINE w == [actor |-> actor, tenant |-> t, role |-> memberships[t][actor].role,
                 name |-> users[actor].name, id |-> id, old |-> old, new |-> new, row |-> NoRow]
<1>1. w \in Work /\ w.role \in {"owner", "admin"}
  <2>1. CanWrite(t, actor)
    BY DEF Begin
  <2>2. memberships[t][actor] \in MembershipRow /\ users[actor] \in UserRow
    BY <2>1 DEF CanWrite, ActiveUser, ActiveMember, TxnTypeOK, TypeOK, DirectoryTypeOK
  <2>3. memberships[t][actor].role \in Roles \intersect {"owner", "admin"}
        /\ users[actor].name \in Names
    BY <2>1, <2>2 DEF CanWrite, MembershipRow, UserRow
  <2>4. old \in UnitRow \union AssignmentRow \union {NoRow} /\ new \in UnitRow \union AssignmentRow
    BY DEF RowsOf
  <2> QED BY <2>3, <2>4 DEF Work
<1>2. w.id = id /\ w.old = old /\ w.new = new
  OBVIOUS
<1>3. pc' = [pc EXCEPT ![r] = "loaded"] /\ work' = [work EXCEPT ![r] = w]
      /\ UNCHANGED structureVars /\ pc[r] = "idle"
  BY DEF Begin
<1> HIDE DEF w
<1>4. /\ \A s \in Requests : pc'[s] = IF s = r THEN "loaded" ELSE pc[s]
      /\ \A s \in Requests : work'[s] = IF s = r THEN w ELSE work[s]
      /\ pc' \in [Requests -> Phases] /\ work' \in [Requests -> Work \union {NoRow}]
  BY <1>1, <1>3 DEF TxnTypeOK, Phases
<1>5. UNCHANGED tableVars
  BY <1>3 DEF structureVars
<1>6. TxnTypeOK'
  <2>1. TypeOK'
    BY <1>3 DEF TxnTypeOK, TypeOK, DirectoryTypeOK, structureVars, directoryVars, tableVars, trailVars
  <2>2. w # NoRow
    BY <1>1, WorkAssumption
  <2> QED BY <1>4, <2>1, <2>2 DEF TxnTypeOK
<1>7. \A x \in UnitIds \union AssignmentIds : Committed(x)' = Committed(x)
  BY <1>5, TablesKept
<1>8. WorkTyped'
  BY <1>1, <1>2, <1>4, <1>7 DEF WorkTyped, Work
<1>9. OneWriterPerRow'
  BY <1>4 DEF OneWriterPerRow, HoldsRow
<1>10. VersionMerged'
  BY <1>4, <1>7 DEF VersionMerged, WorkTyped, Work
<1>11. EnteredFree'
  BY <1>4, <1>7 DEF EnteredFree, WorkTyped, SameTable
<1>12. EntriesApart'
  BY <1>4 DEF EntriesApart
<1> QED BY <1>5, <1>6, <1>8, <1>9, <1>10, <1>11, <1>12, TablesKept

\* A step that moves one request on and shows nothing to the others.
LEMMA AdvanceTyped ==
  ASSUME TxnInv, NEW r \in Requests, pc[r] # "idle", NEW phase \in Phases \ {"idle"},
         Advance(r, phase),
         NEW w \in Work, work' = [work EXCEPT ![r] = w]
  PROVE  /\ TxnTypeOK'
         /\ \A s \in Requests : pc'[s] = IF s = r THEN phase ELSE pc[s]
         /\ \A s \in Requests : work'[s] = IF s = r THEN w ELSE work[s]
         /\ UnitIntegrityMirrors' /\ CodesUnique' /\ PlacesUnique'
         /\ \A id \in UnitIds \union AssignmentIds : Committed(id)' = Committed(id)
<1> USE DEF TxnInv
<1>1. UNCHANGED structureVars /\ pc' = [pc EXCEPT ![r] = phase]
  BY DEF Advance
<1>2. UNCHANGED tableVars
  BY <1>1 DEF structureVars
<1>3. TypeOK'
  BY <1>1 DEF TxnTypeOK, TypeOK, DirectoryTypeOK, structureVars, directoryVars, tableVars, trailVars
<1>4. /\ \A s \in Requests : pc'[s] = IF s = r THEN phase ELSE pc[s]
      /\ \A s \in Requests : work'[s] = IF s = r THEN w ELSE work[s]
      /\ pc' \in [Requests -> Phases] /\ work' \in [Requests -> Work \union {NoRow}]
  BY <1>1 DEF TxnTypeOK
<1>5. w # NoRow
  BY WorkAssumption
<1>6. TxnTypeOK'
  BY <1>3, <1>4, <1>5 DEF TxnTypeOK
<1> QED BY <1>2, <1>4, <1>6, TablesKept

\* An endpoint's load is a Begin with rows of one table.
LEMMA LoadStep ==
  ASSUME TxnInv, NEW r \in Requests, Load(r)
  PROVE  TxnInv'
<1>1. PICK actor \in Users, t \in Tenants :
        \/ BeginCreateUnit(r, actor, t) \/ BeginUpdateUnit(r, actor, t)
        \/ BeginMoveUnit(r, actor, t) \/ BeginArchiveUnit(r, actor, t)
        \/ BeginRestoreUnit(r, actor, t)
        \/ BeginCreateAssignment(r, actor, t) \/ BeginUpdateAssignment(r, actor, t)
  BY DEF Load
<1>2. TypeOK
  BY DEF TxnInv, TxnTypeOK
<1>3. ASSUME NEW u \in UnitIds, NEW old, NEW new \in UnitRow, Begin(r, actor, t, u, old, new),
             old = NoRow \/ (old = units[u] /\ units[u] # NoRow)
      PROVE  TxnInv'
  <2>1. u \in UnitIds \union AssignmentIds /\ new \in RowsOf(u) /\ Committed(u) = units[u]
    BY <1>3 DEF RowsOf, Committed
  <2>2. old \in RowsOf(u) \union {NoRow} /\ (old # NoRow => Committed(u) # NoRow)
    BY <1>2, <1>3, <2>1, CommittedTyped
  <2> QED BY <1>3, <2>1, <2>2, BeginStep
<1>4. ASSUME NEW a \in AssignmentIds, NEW old, NEW new \in AssignmentRow,
             Begin(r, actor, t, a, old, new),
             old = NoRow \/ (old = assignments[a] /\ assignments[a] # NoRow)
      PROVE  TxnInv'
  <2>1. a \in UnitIds \union AssignmentIds /\ new \in RowsOf(a) /\ Committed(a) = assignments[a]
    BY <1>4, IdsAssumption DEF RowsOf, Committed
  <2>2. old \in RowsOf(a) \union {NoRow} /\ (old # NoRow => Committed(a) # NoRow)
    BY <1>2, <1>4, <2>1, CommittedTyped
  <2> QED BY <1>4, <2>1, <2>2, BeginStep
<1>5. ASSUME NEW u \in UnitIds, FoundUnit(t, u)
      PROVE  units[u] \in UnitRow /\ units[u] # NoRow
  BY <1>2, <1>5 DEF FoundUnit, TypeOK
<1>6. ASSUME NEW a \in AssignmentIds, FoundAssignment(t, a)
      PROVE  assignments[a] \in AssignmentRow /\ assignments[a] # NoRow
  BY <1>2, <1>6 DEF FoundAssignment, TypeOK
<1>7. CASE BeginCreateUnit(r, actor, t)
  <2>1. PICK u \in UnitIds, parent \in UnitIds \union {Top}, code \in Codes :
          Begin(r, actor, t, u, NoRow,
                [tenant |-> t, parent |-> parent, code |-> code, status |-> "active"])
    BY <1>7 DEF BeginCreateUnit
  <2>2. [tenant |-> t, parent |-> parent, code |-> code, status |-> "active"] \in UnitRow
    BY DEF UnitRow
  <2> QED BY <1>3, <2>1, <2>2
<1>8. CASE BeginUpdateUnit(r, actor, t)
  <2>1. PICK u \in UnitIds, code \in Codes :
          FoundUnit(t, u) /\ Begin(r, actor, t, u, units[u], [units[u] EXCEPT !.code = code])
    BY <1>8 DEF BeginUpdateUnit
  <2>2. [units[u] EXCEPT !.code = code] \in UnitRow /\ units[u] # NoRow
    BY <1>5, <2>1 DEF UnitRow
  <2> QED BY <1>3, <2>1, <2>2
<1>9. CASE BeginMoveUnit(r, actor, t)
  <2>1. PICK u \in UnitIds, parent \in UnitIds \union {Top} :
          FoundUnit(t, u) /\ Begin(r, actor, t, u, units[u], [units[u] EXCEPT !.parent = parent])
    BY <1>9 DEF BeginMoveUnit
  <2>2. [units[u] EXCEPT !.parent = parent] \in UnitRow /\ units[u] # NoRow
    BY <1>5, <2>1 DEF UnitRow
  <2> QED BY <1>3, <2>1, <2>2
<1>10. CASE BeginArchiveUnit(r, actor, t)
  <2>1. PICK u \in UnitIds : FoundUnit(t, u)
          /\ Begin(r, actor, t, u, units[u], [units[u] EXCEPT !.status = "archived"])
    BY <1>10 DEF BeginArchiveUnit
  <2>2. [units[u] EXCEPT !.status = "archived"] \in UnitRow /\ units[u] # NoRow
    BY <1>5, <2>1 DEF UnitRow
  <2> QED BY <1>3, <2>1, <2>2
<1>11. CASE BeginRestoreUnit(r, actor, t)
  <2>1. PICK u \in UnitIds : FoundUnit(t, u)
          /\ Begin(r, actor, t, u, units[u], [units[u] EXCEPT !.status = "active"])
    BY <1>11 DEF BeginRestoreUnit
  <2>2. [units[u] EXCEPT !.status = "active"] \in UnitRow /\ units[u] # NoRow
    BY <1>5, <2>1 DEF UnitRow
  <2> QED BY <1>3, <2>1, <2>2
<1>12. CASE BeginCreateAssignment(r, actor, t)
  <2>1. PICK a \in AssignmentIds, unit \in UnitIds, user \in Users, primary \in BOOLEAN :
          Begin(r, actor, t, a, NoRow,
                [tenant |-> t, unit |-> unit, user |-> user,
                 primary |-> primary, status |-> "active"])
    BY <1>12 DEF BeginCreateAssignment
  <2>2. [tenant |-> t, unit |-> unit, user |-> user, primary |-> primary, status |-> "active"]
          \in AssignmentRow
    BY DEF AssignmentRow
  <2> QED BY <1>4, <2>1, <2>2
<1>13. CASE BeginUpdateAssignment(r, actor, t)
  <2>1. PICK a \in AssignmentIds, primary \in BOOLEAN, status \in {"active", "inactive"} :
          FoundAssignment(t, a)
          /\ Begin(r, actor, t, a, assignments[a],
                   [assignments[a] EXCEPT !.primary = primary, !.status = status])
    BY <1>13 DEF BeginUpdateAssignment
  <2>2. [assignments[a] EXCEPT !.primary = primary, !.status = status] \in AssignmentRow
        /\ assignments[a] # NoRow
    BY <1>6, <2>1 DEF AssignmentRow
  <2> QED BY <1>4, <2>1, <2>2
<1> QED BY <1>1, <1>7, <1>8, <1>9, <1>10, <1>11, <1>12, <1>13

\* The UPDATE or INSERT that takes the row lock.
LEMMA WriteRowStep ==
  ASSUME TxnInv, NEW r \in Requests, WriteRow(r)
  PROVE  TxnInv'
<1> USE DEF TxnInv
<1> DEFINE w == work[r]
           row == NewVersion(w)
           phase == IF Diverges(w, row) THEN "spinning" ELSE "written"
           v == [w EXCEPT !.row = row]
<1>1. pc[r] = "loaded" /\ ~ \E s \in Requests : HoldsRow(s, w.id)
  BY DEF WriteRow
<1>2. /\ w \in Work /\ w.old \in RowsOf(w.id) \union {NoRow} /\ w.new \in RowsOf(w.id)
      /\ w.old # NoRow => Committed(w.id) # NoRow
      /\ w.role \in {"owner", "admin"}
  BY <1>1 DEF WorkTyped
<1>3. row \in RowsOf(w.id)
  BY <1>2, NewVersionTyped DEF TxnTypeOK
<1>4. /\ v \in Work /\ v.id = w.id /\ v.old = w.old /\ v.new = w.new /\ v.row = row
      /\ v.role = w.role
  BY <1>2, <1>3 DEF Work, RowsOf
<1>5. CASE ~(MayWriteRows(w) /\ Valid(w, row))
  BY <1>5, DropStep DEF WriteRow
<1>6. CASE MayWriteRows(w) /\ Valid(w, row)
  <2>1. Advance(r, phase) /\ work' = [work EXCEPT ![r] = v]
    BY <1>6 DEF WriteRow
  <2>2. phase \in {"spinning", "written"}
    OBVIOUS
  <2>3. /\ w.old = NoRow => row = w.new
        /\ w.old # NoRow =>
             \A f \in DOMAIN w.new :
               row[f] = IF w.new[f] = w.old[f] THEN Committed(w.id)[f] ELSE w.new[f]
    BY DEF NewVersion
  <2> HIDE DEF v, row, phase
  <2>4. /\ TxnTypeOK'
        /\ \A s \in Requests : pc'[s] = IF s = r THEN phase ELSE pc[s]
        /\ \A s \in Requests : work'[s] = IF s = r THEN v ELSE work[s]
        /\ UnitIntegrityMirrors' /\ CodesUnique' /\ PlacesUnique'
        /\ \A id \in UnitIds \union AssignmentIds : Committed(id)' = Committed(id)
    BY <1>1, <1>4, <2>1, <2>2, AdvanceTyped DEF Phases
  <2>5. WorkTyped'
    BY <1>2, <1>3, <1>4, <2>4 DEF WorkTyped, Work
  <2>6. OneWriterPerRow'
    BY <1>1, <1>4, <2>4 DEF OneWriterPerRow, HoldsRow
  <2>7. VersionMerged'
    BY <1>4, <2>3, <2>4 DEF VersionMerged, WorkTyped, Work
  <2>8. EnteredFree'
    BY <2>2, <2>4 DEF EnteredFree, WorkTyped, SameTable, Work
  <2>9. EntriesApart'
    BY <2>2, <2>4 DEF EntriesApart
  <2> QED BY <2>4, <2>5, <2>6, <2>7, <2>8, <2>9
<1> QED BY <1>5, <1>6

\* A version enters the unique indexes: nobody else has replaced or entered a
\* clashing one, and no committed row clashes.
LEMMA EnterIndexesStep ==
  ASSUME TxnInv, NEW r \in Requests, EnterIndexes(r)
  PROVE  TxnInv'
<1> USE DEF TxnInv
<1>1. pc[r] = "written" /\ ~ \E s \in Requests : BlocksIndex(s, r)
  BY DEF EnterIndexes
<1>2. work[r] \in Work /\ work[r].id \in UnitIds \union AssignmentIds
      /\ work[r].row \in RowsOf(work[r].id)
  BY <1>1 DEF WorkTyped, Work
<1>3. CASE TakenByCommitted(r)
  BY <1>3, DropStep DEF EnterIndexes
<1>4. CASE ~TakenByCommitted(r)
  <2>1. Advance(r, "flushed") /\ work' = work
    BY <1>4 DEF EnterIndexes
  <2>2. work' = [work EXCEPT ![r] = work[r]]
    BY <2>1 DEF TxnTypeOK
  <2>3. /\ TxnTypeOK'
        /\ \A s \in Requests : pc'[s] = IF s = r THEN "flushed" ELSE pc[s]
        /\ UnitIntegrityMirrors' /\ CodesUnique' /\ PlacesUnique'
        /\ \A id \in UnitIds \union AssignmentIds : Committed(id)' = Committed(id)
    BY <1>1, <1>2, <2>1, <2>2, AdvanceTyped DEF Phases
  <2>4. WorkTyped'
    BY <1>1, <2>1, <2>3 DEF WorkTyped, Work
  <2>5. OneWriterPerRow'
    BY <1>1, <2>1, <2>3 DEF OneWriterPerRow, HoldsRow
  <2>6. VersionMerged'
    BY <1>1, <2>1, <2>3 DEF VersionMerged, WorkTyped, Work
  <2>7. EnteredFree'
    <3>1. \A x \in SameTable(work[r].id) \ {work[r].id} :
            ~Clash(work[r].id, work[r].row, Committed(x))
      BY <1>4 DEF TakenByCommitted
    <3> QED BY <2>1, <2>3, <3>1 DEF EnteredFree, WorkTyped, SameTable, Work
  <2>8. ASSUME NEW s \in Requests, s # r, pc[s] \in {"flushed", "audited"},
               SameTable(work[r].id) = SameTable(work[s].id)
        PROVE  /\ ~Clash(work[r].id, work[r].row, work[s].row)
               /\ ~Clash(work[s].id, work[s].row, work[r].row)
    <3>1. work[s].id \in UnitIds \union AssignmentIds /\ work[s].row \in RowsOf(work[s].id)
      BY <2>8 DEF WorkTyped, Work
    <3>2. work[s].id # work[r].id
      BY <1>1, <2>8 DEF OneWriterPerRow, HoldsRow
    <3>3. work[s].id \in SameTable(work[r].id)
          /\ (work[r].id \in UnitIds) = (work[s].id \in UnitIds)
      BY <1>2, <2>8, <3>1, SameTableSameKind
    <3>4. ~Clash(work[r].id, work[r].row, work[s].row)
      BY <1>1, <2>8, <3>2, <3>3 DEF BlocksIndex
    <3> QED BY <1>2, <3>1, <3>3, <3>4, ClashSymmetric
  <2>9. EntriesApart'
    BY <2>1, <2>3, <2>8 DEF EntriesApart, SameTable, Clash
  <2> QED BY <2>3, <2>4, <2>5, <2>6, <2>7, <2>9
<1> QED BY <1>3, <1>4

\* The audit event joins the transaction.
LEMMA InsertAuditStep ==
  ASSUME TxnInv, NEW r \in Requests, InsertAudit(r)
  PROVE  TxnInv'
<1> USE DEF TxnInv
<1>1. pc[r] = "flushed"
  BY DEF InsertAudit
<1>2. CASE ~AuditAccepted(work[r])
  BY <1>2, DropStep DEF InsertAudit
<1>3. CASE AuditAccepted(work[r])
  <2>1. Advance(r, "audited") /\ work' = work
    BY <1>3 DEF InsertAudit
  <2>2. work' = [work EXCEPT ![r] = work[r]] /\ work[r] \in Work
    BY <1>1, <2>1 DEF TxnTypeOK, WorkTyped
  <2>3. /\ TxnTypeOK'
        /\ \A s \in Requests : pc'[s] = IF s = r THEN "audited" ELSE pc[s]
        /\ UnitIntegrityMirrors' /\ CodesUnique' /\ PlacesUnique'
        /\ \A id \in UnitIds \union AssignmentIds : Committed(id)' = Committed(id)
    BY <1>1, <2>1, <2>2, AdvanceTyped DEF Phases
  <2>4. WorkTyped'
    BY <1>1, <2>1, <2>3 DEF WorkTyped, Work
  <2>5. OneWriterPerRow'
    BY <1>1, <2>1, <2>3 DEF OneWriterPerRow, HoldsRow
  <2>6. VersionMerged'
    BY <1>1, <2>1, <2>3 DEF VersionMerged, WorkTyped, Work
  <2>7. EnteredFree'
    BY <1>1, <2>1, <2>3 DEF EnteredFree, WorkTyped, SameTable, Work
  <2>8. EntriesApart'
    BY <1>1, <2>1, <2>3 DEF EntriesApart, SameTable, Clash
  <2> QED BY <2>3, <2>4, <2>5, <2>6, <2>7, <2>8
<1> QED BY <1>2, <1>3

-----------------------------------------------------------------------------
(* The commit. *)

\* It replaces one committed row and ends the request.
LEMMA CommitShape ==
  ASSUME TxnInv, NEW r \in Requests, Commit(r)
  PROVE  /\ TxnTypeOK' /\ UnitIntegrityMirrors'
         /\ \A s \in Requests : pc'[s] = IF s = r THEN "idle" ELSE pc[s]
         /\ \A s \in Requests : work'[s] = IF s = r THEN NoRow ELSE work[s]
         /\ \A id \in UnitIds \union AssignmentIds :
              Committed(id)' = IF id = work[r].id THEN work[r].row ELSE Committed(id)
<1> USE DEF TxnInv
<1> DEFINE w == work[r]
<1>1. /\ pc[r] = "audited" /\ w \in Work
      /\ w.id \in UnitIds \union AssignmentIds
      /\ w.new \in RowsOf(w.id) /\ w.row \in RowsOf(w.id)
  BY DEF Commit, WorkTyped, Work
<1>2. /\ pc' = [pc EXCEPT ![r] = "idle"] /\ work' = [work EXCEPT ![r] = NoRow]
      /\ UNCHANGED directoryVars
  BY DEF Commit
<1>3. /\ \A s \in Requests : pc'[s] = IF s = r THEN "idle" ELSE pc[s]
      /\ \A s \in Requests : work'[s] = IF s = r THEN NoRow ELSE work[s]
      /\ pc' \in [Requests -> Phases] /\ work' \in [Requests -> Work \union {NoRow}]
      /\ \A s \in Requests : (pc'[s] = "idle") = (work'[s] = NoRow)
  BY <1>2 DEF TxnTypeOK, Phases
<1>4. DirectoryTypeOK'
  BY <1>2 DEF TxnTypeOK, TypeOK, DirectoryTypeOK, directoryVars
<1>5. CASE w.id \in UnitIds
  <2>1. WriteUnit(w.id, w.row) /\ RecordUnit(w.id, w.new)
    BY <1>5 DEF Commit
  <2>2. w.row \in UnitRow /\ w.new \in UnitRow
    BY <1>1, <1>5 DEF RowsOf
  <2>3. /\ units' = [units EXCEPT ![w.id] = w.row]
        /\ unitIntegrity' = [unitIntegrity EXCEPT ![w.id] =
             [tenant |-> w.row.tenant, parent |-> w.row.parent, status |-> w.row.status]]
        /\ unitTrail' = [unitTrail EXCEPT ![w.id] = w.new]
        /\ UNCHANGED <<assignments, assignmentTrail>>
    BY <2>1 DEF WriteUnit, SyncUnit, RecordUnit
  <2>4. [tenant |-> w.row.tenant, parent |-> w.row.parent, status |-> w.row.status] \in IntegrityRow
    BY <2>2 DEF UnitRow, IntegrityRow
  <2> HIDE DEF w
  <2>5. TypeOK'
    BY <1>4, <1>5, <2>2, <2>3, <2>4 DEF TxnTypeOK, TypeOK
  <2>6. UnitIntegrityMirrors'
    BY <1>5, <2>2, <2>3, NoOrganizationRowAssumption
    DEF UnitIntegrityMirrors, TxnTypeOK, TypeOK
  <2>7. \A id \in UnitIds \union AssignmentIds :
          Committed(id)' = IF id = w.id THEN w.row ELSE Committed(id)
    BY <1>5, <2>3, IdsAssumption DEF Committed, TxnTypeOK, TypeOK
  <2> QED BY <1>3, <2>5, <2>6, <2>7 DEF TxnTypeOK, w
<1>6. CASE w.id \notin UnitIds
  <2>1. WriteAssignment(w.id, w.row) /\ RecordAssignment(w.id, w.new)
    BY <1>6 DEF Commit
  <2>2. w.row \in AssignmentRow /\ w.new \in AssignmentRow /\ w.id \in AssignmentIds
    BY <1>1, <1>6 DEF RowsOf
  <2>3. /\ assignments' = [assignments EXCEPT ![w.id] = w.row]
        /\ assignmentTrail' = [assignmentTrail EXCEPT ![w.id] = w.new]
        /\ UNCHANGED <<units, unitIntegrity, unitTrail>>
    BY <2>1 DEF WriteAssignment, RecordAssignment
  <2> HIDE DEF w
  <2>4. TypeOK'
    BY <1>4, <2>2, <2>3 DEF TxnTypeOK, TypeOK
  <2>5. UnitIntegrityMirrors'
    BY <2>3 DEF UnitIntegrityMirrors
  <2>6. \A id \in UnitIds \union AssignmentIds :
          Committed(id)' = IF id = w.id THEN w.row ELSE Committed(id)
    BY <1>6, <2>2, <2>3 DEF Committed, TxnTypeOK, TypeOK
  <2> QED BY <1>3, <2>4, <2>5, <2>6 DEF TxnTypeOK, w
<1> QED BY <1>5, <1>6

\* The committed rows stay free of clashes, and of clashes with what the other
\* requests have entered.
LEMMA CommitStep ==
  ASSUME TxnInv, NEW r \in Requests, Commit(r)
  PROVE  TxnInv'
<1> USE DEF TxnInv
<1> DEFINE id == work[r].id
           row == work[r].row
<1>1. /\ pc[r] = "audited" /\ id \in UnitIds \union AssignmentIds /\ row \in RowsOf(id)
  BY DEF Commit, WorkTyped, Work
<1>2. /\ TxnTypeOK' /\ UnitIntegrityMirrors'
      /\ \A s \in Requests : pc'[s] = IF s = r THEN "idle" ELSE pc[s]
      /\ \A s \in Requests : work'[s] = IF s = r THEN NoRow ELSE work[s]
      /\ \A x \in UnitIds \union AssignmentIds :
           Committed(x)' = IF x = id THEN row ELSE Committed(x)
  BY CommitShape
<1>3. row # NoRow
  BY <1>1, RowIsNotNoRow
<1>4. \A x \in SameTable(id) \ {id} :
        /\ ~Clash(id, row, Committed(x))
        /\ Committed(x) # NoRow => ~Clash(x, Committed(x), row)
  <2> SUFFICES ASSUME NEW x \in SameTable(id) \ {id}
               PROVE  /\ ~Clash(id, row, Committed(x))
                      /\ Committed(x) # NoRow => ~Clash(x, Committed(x), row)
    OBVIOUS
  <2>1. ~Clash(id, row, Committed(x))
    BY <1>1 DEF EnteredFree
  <2>2. x \in UnitIds \union AssignmentIds /\ (x \in UnitIds) = (id \in UnitIds)
    BY <1>1, OneTable DEF SameTable
  <2>3. Committed(x) # NoRow => Committed(x) \in RowsOf(x)
    BY <2>2, CommittedTyped DEF TxnTypeOK
  <2> QED BY <1>1, <2>1, <2>2, <2>3, ClashSymmetric
<1>5. WorkTyped'
  BY <1>2, <1>3 DEF WorkTyped, Work
<1>6. OneWriterPerRow'
  BY <1>2 DEF OneWriterPerRow, HoldsRow
<1>7. VersionMerged'
  <2>1. \A s \in Requests : pc'[s] # "idle" =>
          /\ s # r /\ pc'[s] = pc[s] /\ work'[s] = work[s]
          /\ work[s].id \in UnitIds \union AssignmentIds
    BY <1>2 DEF WorkTyped, Work
  <2>2. \A s \in Requests : pc'[s] \in {"written", "flushed", "audited"} => work[s].id # id
    BY <1>1, <2>1 DEF OneWriterPerRow, HoldsRow
  <2> HIDE DEF id, row
  <2> QED BY <1>2, <2>1, <2>2 DEF VersionMerged
<1>8. EnteredFree'
  <2> SUFFICES ASSUME NEW s \in Requests, pc'[s] \in {"flushed", "audited"},
                      NEW x \in SameTable(work[s].id) \ {work[s].id}
               PROVE  ~Clash(work[s].id, work[s].row, Committed(x)')
    BY <1>2 DEF EnteredFree, SameTable, Clash, Committed
  <2>1. s # r /\ pc'[s] = pc[s] /\ work[s].id \in UnitIds \union AssignmentIds
    BY <1>2 DEF WorkTyped, Work
  <2>2. x \in UnitIds \union AssignmentIds /\ SameTable(x) = SameTable(work[s].id)
    BY <2>1, OneTable DEF SameTable
  <2>3. CASE x = id
    BY <1>1, <1>2, <2>1, <2>2, <2>3 DEF EntriesApart
  <2>4. CASE x # id
    BY <1>2, <2>1, <2>2, <2>4 DEF EnteredFree
  <2> QED BY <2>3, <2>4
<1>9. EntriesApart'
  BY <1>2 DEF EntriesApart, SameTable, Clash
<1>10. CodesUnique'
  <2> SUFFICES ASSUME NEW u \in UnitIds, NEW x \in UnitIds, u # x, units'[u] # NoRow
               PROVE  ~SameCode(units'[u], units'[x])
    BY DEF CodesUnique, SameCode
  <2> HIDE DEF id, row
  <2>1. units'[u] = (IF u = id THEN row ELSE units[u])
        /\ units'[x] = (IF x = id THEN row ELSE units[x])
    BY <1>2 DEF Committed
  <2>2. ASSUME NEW y \in UnitIds \ {id}, id \in UnitIds
        PROVE  ~SameCode(row, units[y]) /\ (units[y] # NoRow => ~SameCode(units[y], row))
    BY <1>4, <2>2 DEF Clash, Committed, SameTable
  <2> QED BY <2>1, <2>2 DEF CodesUnique
<1>11. PlacesUnique'
  <2> SUFFICES ASSUME NEW a \in AssignmentIds, NEW x \in AssignmentIds, a # x,
                      assignments'[a] # NoRow
               PROVE  ~SamePlace(assignments'[a], assignments'[x])
    BY DEF PlacesUnique, SamePlace
  <2> HIDE DEF id, row
  <2>1. assignments'[a] = (IF a = id THEN row ELSE assignments[a])
        /\ assignments'[x] = (IF x = id THEN row ELSE assignments[x])
    BY <1>2, IdsAssumption DEF Committed
  <2>2. ASSUME NEW y \in AssignmentIds \ {id}, id \in AssignmentIds
        PROVE  ~SamePlace(row, assignments[y])
               /\ (assignments[y] # NoRow => ~SamePlace(assignments[y], row))
    <3>1. y \notin UnitIds /\ id \notin UnitIds /\ y \in SameTable(id) \ {id}
      BY <2>2, IdsAssumption DEF SameTable
    <3>2. ~Clash(id, row, assignments[y])
          /\ (assignments[y] # NoRow => ~Clash(y, assignments[y], row))
      BY <1>4, <3>1 DEF Committed
    <3>3. assignments[y] # NoRow => ~SamePlace(row, assignments[y])
      BY <3>1, <3>2 DEF Clash
    <3>4. assignments[y] = NoRow => ~SamePlace(row, assignments[y])
      BY DEF SamePlace
    <3> QED BY <1>3, <3>1, <3>2, <3>3, <3>4 DEF Clash
  <2> QED BY <2>1, <2>2 DEF PlacesUnique
<1> QED BY <1>2, <1>5, <1>6, <1>7, <1>8, <1>9, <1>10, <1>11

-----------------------------------------------------------------------------
(* The invariant, for every constant. *)

\* Logins and administrators touch no organization row and no request.
LEMMA AdministerStep ==
  ASSUME TxnInv, Administer
  PROVE  TxnInv'
<1> USE DEF TxnInv
<1>1. DirectoryNext /\ UNCHANGED <<tableVars, trailVars, pc, work>>
  BY DEF Administer, DirectoryChange
<1>2. DirectoryTypeOK'
  BY <1>1, DirectoryTypeStep DEF TxnTypeOK, TypeOK
<1>3. TxnTypeOK'
  BY <1>1, <1>2 DEF TxnTypeOK, TypeOK, tableVars, trailVars
<1>4. /\ UnitIntegrityMirrors' /\ CodesUnique' /\ PlacesUnique'
      /\ \A id \in UnitIds \union AssignmentIds : Committed(id)' = Committed(id)
  BY <1>1, TablesKept
<1>5. WorkTyped'
  BY <1>1, <1>4 DEF WorkTyped, Work
<1>6. OneWriterPerRow' /\ EntriesApart'
  BY <1>1 DEF OneWriterPerRow, HoldsRow, EntriesApart, SameTable, Clash
<1>7. VersionMerged'
  BY <1>1, <1>4 DEF VersionMerged, WorkTyped, Work
<1>8. EnteredFree'
  BY <1>1, <1>4 DEF EnteredFree, WorkTyped, SameTable, Work
<1> QED BY <1>3, <1>4, <1>5, <1>6, <1>7, <1>8

LEMMA TxnInitInv == TxnInit => TxnInv
<1> SUFFICES ASSUME TxnInit PROVE TxnInv
  OBVIOUS
<1>1. /\ \A r \in Requests : pc[r] = "idle" /\ work[r] = NoRow
      /\ \A u \in UnitIds : units[u] = NoRow /\ unitIntegrity[u] = NoRow
      /\ \A a \in AssignmentIds : assignments[a] = NoRow
  BY DEF TxnInit, Init
<1>2. TypeOK
  BY DEF TxnInit, Init, DirectoryInit, TypeOK, DirectoryTypeOK
<1>3. TxnTypeOK
  BY <1>1, <1>2 DEF TxnTypeOK, TxnInit, Phases
<1>4. UnitIntegrityMirrors /\ CodesUnique /\ PlacesUnique
  BY <1>1 DEF UnitIntegrityMirrors, CodesUnique, PlacesUnique
<1>5. WorkTyped /\ VersionMerged /\ EnteredFree
  BY <1>1 DEF WorkTyped, VersionMerged, EnteredFree
<1>6. OneWriterPerRow /\ EntriesApart
  BY <1>1 DEF OneWriterPerRow, HoldsRow, EntriesApart
<1> QED BY <1>3, <1>4, <1>5, <1>6 DEF TxnInv

LEMMA TxnInvStep == TxnInv /\ [TxnNext]_txnVars => TxnInv'
<1> SUFFICES ASSUME TxnInv, [TxnNext]_txnVars PROVE TxnInv'
  OBVIOUS
<1>1. ASSUME NEW r \in Requests, Load(r)  PROVE TxnInv'
  BY <1>1, LoadStep
<1>2. ASSUME NEW r \in Requests, WriteRow(r)  PROVE TxnInv'
  BY <1>2, WriteRowStep
<1>3. ASSUME NEW r \in Requests, EnterIndexes(r)  PROVE TxnInv'
  BY <1>3, EnterIndexesStep
<1>4. ASSUME NEW r \in Requests, InsertAudit(r)  PROVE TxnInv'
  BY <1>4, InsertAuditStep
<1>5. ASSUME NEW r \in Requests, Commit(r)  PROVE TxnInv'
  BY <1>5, CommitStep
<1>6. ASSUME NEW r \in Requests, Abort(r) \/ DeadlockVictim(r)  PROVE TxnInv'
  BY <1>6, DropStep DEF Abort, DeadlockVictim
<1>7. CASE Administer
  BY <1>7, AdministerStep
<1>8. CASE UNCHANGED txnVars
  <2>1. UNCHANGED <<structureVars, pc, work>>
    BY <1>8 DEF txnVars
  <2>2. UNCHANGED <<users, memberships, userDirectory, memberDirectory, units, unitIntegrity,
                    assignments, unitTrail, assignmentTrail, pc, work>>
    BY <2>1 DEF structureVars, directoryVars, tableVars, trailVars
  <2>3. TxnTypeOK' /\ UnitIntegrityMirrors' /\ CodesUnique' /\ PlacesUnique'
    BY <2>2 DEF TxnInv, TxnTypeOK, TypeOK, DirectoryTypeOK, UnitIntegrityMirrors, CodesUnique,
                PlacesUnique
  <2>4. WorkTyped' /\ VersionMerged' /\ EnteredFree'
    BY <2>2 DEF TxnInv, WorkTyped, VersionMerged, EnteredFree, Committed, Clash, SameTable
  <2>5. OneWriterPerRow' /\ EntriesApart'
    BY <2>2 DEF TxnInv, OneWriterPerRow, HoldsRow, EntriesApart, SameTable, Clash
  <2> QED BY <2>3, <2>4, <2>5 DEF TxnInv
<1> QED BY <1>1, <1>2, <1>3, <1>4, <1>5, <1>6, <1>7, <1>8 DEF TxnNext

LEMMA TxnInvariance == TxnSpec => []TxnInv
<1> QED BY TxnInitInv, TxnInvStep, PTL DEF TxnSpec

\* Every request's row, object and version have their types, whatever overlaps.
THEOREM TxnTypesCorrect == TxnSpec => []TxnTypeOK
<1>1. TxnInv => TxnTypeOK
  BY DEF TxnInv
<1> QED BY <1>1, TxnInvariance, PTL

\* The row lock of the UPDATE admits one uncommitted version of a row, for any
\* number of connections.
THEOREM RowLocksExclude == TxnSpec => []OneWriterPerRow
<1>1. TxnInv => OneWriterPerRow
  BY DEF TxnInv
<1> QED BY <1>1, TxnInvariance, PTL

\* The unique indexes keep codes and assignment places unique though a request
\* checks them against rows that others are about to replace or enter.
THEOREM IndexesHoldUnderOverlap == TxnSpec => [](CodesUnique /\ PlacesUnique)
<1>1. TxnInv => CodesUnique /\ PlacesUnique
  BY DEF TxnInv
<1> QED BY <1>1, TxnInvariance, PTL

\* The integrity projection is exact for any overlap of requests: what it lacks is
\* uncommitted, never out of step.
THEOREM ProjectionExactUnderOverlap == TxnSpec => []UnitIntegrityMirrors
<1>1. TxnInv => UnitIntegrityMirrors
  BY DEF TxnInv
<1> QED BY <1>1, TxnInvariance, PTL

-----------------------------------------------------------------------------
(* What steps may never do. *)

\* Loading is invisible and follows nothing.
LEMMA LoadIsQuiet ==
  ASSUME NEW r \in Requests, Load(r)
  PROVE  pc' = [pc EXCEPT ![r] = "loaded"] /\ UNCHANGED structureVars
<1> DEFINE Quiet == pc' = [pc EXCEPT ![r] = "loaded"] /\ UNCHANGED structureVars
<1>1. ASSUME NEW actor, NEW t, NEW id, NEW old, NEW new, Begin(r, actor, t, id, old, new)
      PROVE  Quiet
  BY <1>1 DEF Begin
<1>2. PICK actor \in Users, t \in Tenants :
        \/ BeginCreateUnit(r, actor, t) \/ BeginUpdateUnit(r, actor, t)
        \/ BeginMoveUnit(r, actor, t) \/ BeginArchiveUnit(r, actor, t)
        \/ BeginRestoreUnit(r, actor, t)
        \/ BeginCreateAssignment(r, actor, t) \/ BeginUpdateAssignment(r, actor, t)
  BY DEF Load
<1> HIDE DEF Quiet
<1>3. BeginCreateUnit(r, actor, t) => Quiet
  BY <1>1 DEF BeginCreateUnit
<1>4. BeginUpdateUnit(r, actor, t) => Quiet
  BY <1>1 DEF BeginUpdateUnit
<1>5. BeginMoveUnit(r, actor, t) => Quiet
  BY <1>1 DEF BeginMoveUnit
<1>6. BeginArchiveUnit(r, actor, t) => Quiet
  BY <1>1 DEF BeginArchiveUnit
<1>7. BeginRestoreUnit(r, actor, t) => Quiet
  BY <1>1 DEF BeginRestoreUnit
<1>8. BeginCreateAssignment(r, actor, t) => Quiet
  BY <1>1 DEF BeginCreateAssignment
<1>9. BeginUpdateAssignment(r, actor, t) => Quiet
  BY <1>1 DEF BeginUpdateAssignment
<1> QED BY <1>2, <1>3, <1>4, <1>5, <1>6, <1>7, <1>8, <1>9 DEF Quiet

\* Only a commit shows a changed row to the others.
LEMMA OnlyCommitsShow ==
  ASSUME [TxnNext]_txnVars, <<units, assignments>>' # <<units, assignments>>
  PROVE  \E r \in Requests : Commit(r)
<1>1. ~UNCHANGED tableVars
  BY DEF tableVars
<1>2. ASSUME NEW r \in Requests, Load(r)  PROVE UNCHANGED tableVars
  BY <1>2, LoadIsQuiet DEF structureVars
<1>3. ASSUME NEW r \in Requests, WriteRow(r)  PROVE UNCHANGED tableVars
  BY <1>3 DEF WriteRow, Advance, Drop, structureVars
<1>4. ASSUME NEW r \in Requests, EnterIndexes(r) \/ InsertAudit(r)  PROVE UNCHANGED tableVars
  BY <1>4 DEF EnterIndexes, InsertAudit, Advance, Drop, structureVars
<1>5. ASSUME NEW r \in Requests, Abort(r) \/ DeadlockVictim(r)  PROVE UNCHANGED tableVars
  BY <1>5 DEF Abort, DeadlockVictim, Drop, structureVars
<1>6. Administer => UNCHANGED tableVars
  BY DEF Administer, DirectoryChange
<1>7. UNCHANGED txnVars => UNCHANGED tableVars
  BY DEF txnVars, structureVars
<1> QED BY <1>1, <1>2, <1>3, <1>4, <1>5, <1>6, <1>7 DEF TxnNext

\* No lost update: a committing request leaves the columns it did not edit as
\* the request that committed before it left them.
THEOREM EditsSurvive == TxnSpec => UneditedColumnsSurvive
<1> DEFINE Survive ==
      \A r \in Requests :
        /\ pc[r] = "audited" /\ work[r].old # NoRow
        /\ pc'[r] = "idle" /\ <<units, assignments>>' # <<units, assignments>>
        => \A f \in DOMAIN work[r].new : work[r].new[f] = work[r].old[f] =>
             IF work[r].id \in UnitIds THEN units'[work[r].id][f] = units[work[r].id][f]
             ELSE assignments'[work[r].id][f] = assignments[work[r].id][f]
<1>1. ASSUME TxnInv, [TxnNext]_txnVars  PROVE Survive
  <2> SUFFICES ASSUME NEW r \in Requests, pc[r] = "audited", work[r].old # NoRow,
                      pc'[r] = "idle", <<units, assignments>>' # <<units, assignments>>,
                      NEW f \in DOMAIN work[r].new, work[r].new[f] = work[r].old[f]
               PROVE  IF work[r].id \in UnitIds
                      THEN units'[work[r].id][f] = units[work[r].id][f]
                      ELSE assignments'[work[r].id][f] = assignments[work[r].id][f]
    OBVIOUS
  <2>1. PICK q \in Requests : Commit(q)
    BY <1>1, OnlyCommitsShow
  <2>2. q = r
    BY <1>1, <2>1, CommitShape
  <2>3. \A x \in UnitIds \union AssignmentIds :
          Committed(x)' = IF x = work[r].id THEN work[r].row ELSE Committed(x)
    BY <1>1, <2>1, <2>2, CommitShape
  <2>4. work[r].id \in UnitIds \union AssignmentIds
    BY <1>1 DEF TxnInv, WorkTyped, Work
  <2>5. work[r].row[f] = Committed(work[r].id)[f]
    BY <1>1 DEF TxnInv, VersionMerged
  <2> QED BY <2>3, <2>4, <2>5 DEF Committed
<1>2. TxnInv /\ [TxnNext]_txnVars => [Survive]_txnVars
  BY <1>1
<1> QED BY <1>2, TxnInvariance, PTL DEF TxnSpec, UneditedColumnsSurvive

\* An actor who may no longer write when the event is inserted stops there.
THEOREM AuthorityChecked == TxnSpec => LostAuthorityStopsRequest
<1> DEFINE Stops ==
      \A r \in Requests :
        pc[r] \in {"loaded", "written", "flushed"} /\ ~CanWrite(work[r].tenant, work[r].actor)
        => pc'[r] # "audited"
<1>1. ASSUME TxnInv, TxnNext  PROVE Stops
  <2> SUFFICES ASSUME NEW r \in Requests, pc[r] \in {"loaded", "written", "flushed"},
                      pc'[r] = "audited"
               PROVE  CanWrite(work[r].tenant, work[r].actor)
    OBVIOUS
  <2>1. pc \in [Requests -> Phases]
    BY <1>1 DEF TxnInv, TxnTypeOK
  <2>2. PICK q \in Requests : InsertAudit(q) /\ AuditAccepted(work[q]) /\ q = r
    <3>1. ASSUME NEW q \in Requests, Load(q)  PROVE FALSE
      BY <2>1, <3>1, LoadIsQuiet
    <3>2. ASSUME NEW q \in Requests, WriteRow(q)  PROVE FALSE
      BY <2>1, <3>2 DEF WriteRow, Advance, Drop
    <3>3. ASSUME NEW q \in Requests, EnterIndexes(q)  PROVE FALSE
      BY <2>1, <3>3 DEF EnterIndexes, Advance, Drop
    <3>4. ASSUME NEW q \in Requests, Commit(q) \/ Abort(q) \/ DeadlockVictim(q)  PROVE FALSE
      BY <2>1, <3>4 DEF Commit, Abort, DeadlockVictim, Drop
    <3>5. ~Administer
      BY DEF Administer
    <3>6. ASSUME NEW q \in Requests, InsertAudit(q)  PROVE AuditAccepted(work[q]) /\ q = r
      BY <2>1, <3>6 DEF InsertAudit, Advance, Drop
    <3> QED BY <1>1, <3>1, <3>2, <3>3, <3>4, <3>5, <3>6 DEF TxnNext
  <2>3. work[r].role \in {"owner", "admin"}
    BY <1>1 DEF TxnInv, WorkTyped
  <2> QED BY <2>2, <2>3 DEF AuditAccepted, CanWrite
<1>2. TxnInv /\ [TxnNext]_txnVars => [Stops]_txnVars
  BY <1>1
<1> QED BY <1>2, TxnInvariance, PTL DEF TxnSpec, LostAuthorityStopsRequest

\* Every changed row becomes visible with an event that reports each changed column of
\* those that _unit_values and _assignment_values name as it now is, even when the object
\* in memory was stale.
THEOREM ChangesAudited == TxnSpec => EveryChangeIsAudited
<1> DEFINE Audited ==
      /\ \A u \in UnitIds :
           units'[u] # units[u] => Reported(units[u], units'[u], unitTrail'[u])
      /\ \A a \in AssignmentIds : assignments'[a] # assignments[a] =>
           Reported(assignments[a], assignments'[a], assignmentTrail'[a])
<1>1. ASSUME TxnInv, [TxnNext]_txnVars  PROVE Audited
  <2>1. CASE UNCHANGED <<units, assignments>>
    BY <2>1
  <2>2. CASE ~UNCHANGED <<units, assignments>>
    <3>1. PICK r \in Requests : Commit(r)
      BY <1>1, <2>2, OnlyCommitsShow
    <3> DEFINE w == work[r]
    <3>2. /\ w.id \in UnitIds \union AssignmentIds
          /\ w.new \in RowsOf(w.id) /\ w.row \in RowsOf(w.id)
          /\ w.old \in RowsOf(w.id) \union {NoRow}
          /\ w.old # NoRow => Committed(w.id) # NoRow
      BY <1>1, <3>1 DEF Commit, TxnInv, WorkTyped, Work
    <3>3. /\ w.old = NoRow => w.row = w.new
          /\ w.old # NoRow =>
               \A f \in DOMAIN w.new :
                 w.row[f] = IF w.new[f] = w.old[f] THEN Committed(w.id)[f] ELSE w.new[f]
      BY <1>1, <3>1 DEF Commit, TxnInv, VersionMerged
    <3>4. w.new # NoRow /\ DOMAIN w.row = DOMAIN w.new
      <4>1. CASE w.id \in UnitIds
        BY <3>2, <4>1, RowIsNotNoRow DEF RowsOf, UnitRow
      <4>2. CASE w.id \notin UnitIds
        BY <3>2, <4>2, RowIsNotNoRow DEF RowsOf, AssignmentRow
      <4> QED BY <4>1, <4>2
    <3> HIDE DEF w
    <3>5. Reported(Committed(w.id), w.row, w.new)
      BY <3>2, <3>3, <3>4 DEF Reported
    <3>6. CASE w.id \in UnitIds
      <4>1. /\ units' = [units EXCEPT ![w.id] = w.row]
            /\ unitTrail' = [unitTrail EXCEPT ![w.id] = w.new]
            /\ UNCHANGED assignments
        BY <3>1, <3>6 DEF Commit, WriteUnit, RecordUnit, w
      <4> QED BY <1>1, <3>5, <3>6, <4>1 DEF TxnInv, TxnTypeOK, TypeOK, Committed
    <3>7. CASE w.id \notin UnitIds
      <4>1. /\ assignments' = [assignments EXCEPT ![w.id] = w.row]
            /\ assignmentTrail' = [assignmentTrail EXCEPT ![w.id] = w.new]
            /\ UNCHANGED units
        BY <3>1, <3>7 DEF Commit, WriteAssignment, RecordAssignment, w
      <4> QED BY <1>1, <3>2, <3>5, <3>7, <4>1 DEF TxnInv, TxnTypeOK, TypeOK, Committed
    <3> QED BY <3>6, <3>7
  <2> QED BY <2>1, <2>2
<1>2. TxnInv /\ [TxnNext]_txnVars => [Audited]_txnVars
  BY <1>1
<1> QED BY <1>2, TxnInvariance, PTL DEF TxnSpec, EveryChangeIsAudited

\* A trigger that does not return needs a cycle that was committed before.
THEOREM SpinsOnlyOnCycle == TxnSpec => SpinningStartsOnCycle
<1> DEFINE OnCycle ==
      \A r \in Requests : pc[r] # "spinning" /\ pc'[r] = "spinning" => ~Acyclic
<1>1. ASSUME TxnInv, TxnNext  PROVE OnCycle
  <2> SUFFICES ASSUME NEW r \in Requests, pc[r] # "spinning", pc'[r] = "spinning"
               PROVE  ~Acyclic
    OBVIOUS
  <2>1. pc \in [Requests -> Phases]
    BY <1>1 DEF TxnInv, TxnTypeOK
  <2>2. WriteRow(r) /\ Diverges(work[r], NewVersion(work[r]))
    <3>1. ASSUME NEW q \in Requests, Load(q)  PROVE FALSE
      BY <2>1, <3>1, LoadIsQuiet
    <3>2. ASSUME NEW q \in Requests, EnterIndexes(q) \/ InsertAudit(q)  PROVE FALSE
      BY <2>1, <3>2 DEF EnterIndexes, InsertAudit, Advance, Drop
    <3>3. ASSUME NEW q \in Requests, Commit(q) \/ Abort(q) \/ DeadlockVictim(q)  PROVE FALSE
      BY <2>1, <3>3 DEF Commit, Abort, DeadlockVictim, Drop
    <3>4. ~Administer
      BY DEF Administer
    <3>5. ASSUME NEW q \in Requests, WriteRow(q)
          PROVE  WriteRow(r) /\ Diverges(work[r], NewVersion(work[r]))
      <4>1. q = r
        BY <2>1, <3>5 DEF WriteRow, Advance, Drop
      <4> QED BY <2>1, <3>5, <4>1 DEF WriteRow, Advance, Drop
    <3> QED BY <1>1, <3>1, <3>2, <3>3, <3>4, <3>5 DEF TxnNext
  <2> DEFINE p == NewVersion(work[r]).parent
             above == Ancestors(p)
  <2>3. p \in UnitIds
    <3>1. pc[r] = "loaded"
      BY <2>2 DEF WriteRow
    <3>2. NewVersion(work[r]) \in RowsOf(work[r].id)
      BY <1>1, <3>1, NewVersionTyped DEF TxnInv, WorkTyped, TxnTypeOK
    <3> QED BY <2>2, <3>2 DEF Diverges, RowsOf, UnitRow
  <2>4. \A x \in above : unitIntegrity[x] # NoRow /\ unitIntegrity[x].parent # Top
    BY <2>2 DEF Diverges
  <2> HIDE DEF p
  <2>5. p \in above /\ above \in SUBSET UnitIds
    BY <2>3 DEF Ancestors
  <2>6. \A x \in above : units[x] # NoRow /\ unitIntegrity[x].parent = units[x].parent
    <3> HIDE DEF above
    <3> SUFFICES ASSUME NEW x \in above
                 PROVE  units[x] # NoRow /\ unitIntegrity[x].parent = units[x].parent
      OBVIOUS
    <3>1. unitIntegrity[x] = IF units[x] = NoRow THEN NoRow
                             ELSE [tenant |-> units[x].tenant, parent |-> units[x].parent,
                                   status |-> units[x].status]
      BY <1>1, <2>5 DEF TxnInv, UnitIntegrityMirrors
    <3>2. units[x] # NoRow
      BY <2>4, <3>1
    <3> QED BY <3>1, <3>2
  <2>7. \A x \in above : units[x].parent \in UnitIds
    BY <1>1, <2>4, <2>5, <2>6 DEF TxnInv, TxnTypeOK, TypeOK, UnitRow
  <2>8. \A x \in above : units[x].parent \in above
    <3> SUFFICES ASSUME NEW x \in above, NEW S \in SUBSET UnitIds, p \in S, ClosedUnderParent(S)
                 PROVE  units[x].parent \in S
      BY <2>7 DEF Ancestors
    <3>1. x \in S
      BY DEF Ancestors
    <3> QED BY <2>4, <2>6, <3>1 DEF ClosedUnderParent
  <2> HIDE DEF above
  <2> QED BY <2>5, <2>6, <2>8 DEF Acyclic
<1>2. TxnInv /\ [TxnNext]_txnVars => [OnCycle]_txnVars
  BY <1>1
<1> QED BY <1>2, TxnInvariance, PTL DEF TxnSpec, SpinningStartsOnCycle

-----------------------------------------------------------------------------
(* Every step is one of four: a load, a write that takes the row, a commit, or  *)
(* one that shows nothing and keeps what each request has in hand.            *)

\* The request's object is one edit of the row it loaded, or a new active row.
OneEdit(w) ==
  /\ w.new.tenant = w.tenant
  /\ w.old = NoRow => w.new.status = "active"
  /\ w.old # NoRow =>
       /\ w.old.tenant = w.tenant
       /\ IF w.id \in UnitIds
          THEN \/ \E code \in Codes : w.new = [w.old EXCEPT !.code = code]
               \/ /\ "move_unit" \in Offered
                  /\ \E parent \in UnitIds \union {Top} : w.new = [w.old EXCEPT !.parent = parent]
               \/ \E status \in {"active", "archived"} : w.new = [w.old EXCEPT !.status = status]
          ELSE \E primary \in BOOLEAN, status \in {"active", "inactive"} :
                 w.new = [w.old EXCEPT !.primary = primary, !.status = status]

\* What a load leaves: the row as it is committed, edited once; the id of a new
\* row is nobody else's.
Loaded(r) ==
  /\ pc[r] = "idle" /\ UNCHANGED structureVars
  /\ pc' = [pc EXCEPT ![r] = "loaded"]
  /\ \E w \in Work :
       /\ work' = [work EXCEPT ![r] = w]
       /\ OneEdit(w)
       /\ w.old = Committed(w.id)
       /\ w.old = NoRow => \A s \in Requests : pc[s] # "idle" => work[s].id # w.id

\* What a write leaves that its policies and triggers have accepted.
Wrote(r) ==
  LET w == work[r]
      row == NewVersion(w) IN
  /\ pc[r] = "loaded" /\ UNCHANGED structureVars
  /\ \A s \in Requests : ~HoldsRow(s, w.id)
  /\ MayWriteRows(w) /\ Valid(w, row)
  /\ pc' = [pc EXCEPT ![r] = IF Diverges(w, row) THEN "spinning" ELSE "written"]
  /\ work' = [work EXCEPT ![r].row = row]

\* A step in which a request may end or pass on, and otherwise keeps its work.
Keeps ==
  /\ UNCHANGED <<tableVars, trailVars>>
  /\ \A s \in Requests :
       \/ pc'[s] = "idle"
       \/ /\ pc[s] # "idle" /\ work'[s] = work[s]
          /\ pc'[s] = "loaded" => pc[s] = "loaded"
          /\ Validated(s)' => Validated(s)

LEMMA BeginLoads ==
  ASSUME TxnInv, NEW r \in Requests, NEW actor \in Users, NEW t \in Tenants,
         NEW id \in UnitIds \union AssignmentIds,
         NEW old \in RowsOf(id) \union {NoRow}, NEW new \in RowsOf(id),
         old = Committed(id), new.tenant = t,
         \A w : w.tenant = t /\ w.id = id /\ w.old = old /\ w.new = new => OneEdit(w),
         Begin(r, actor, t, id, old, new)
  PROVE  Loaded(r)
<1> DEFINE w == [actor |-> actor, tenant |-> t, role |-> memberships[t][actor].role,
                 name |-> users[actor].name, id |-> id, old |-> old, new |-> new, row |-> NoRow]
<1>1. memberships[t][actor] \in MembershipRow /\ users[actor] \in UserRow
  BY DEF Begin, CanWrite, ActiveUser, ActiveMember, TxnInv, TxnTypeOK, TypeOK, DirectoryTypeOK
<1>2. memberships[t][actor].role \in Roles /\ users[actor].name \in Names
  BY <1>1 DEF MembershipRow, UserRow
<1>3. old \in UnitRow \union AssignmentRow \union {NoRow} /\ new \in UnitRow \union AssignmentRow
  BY DEF RowsOf
<1>4. w \in Work
  BY <1>2, <1>3 DEF Work
<1>5. w.tenant = t /\ w.id = id /\ w.old = old /\ w.new = new
  OBVIOUS
<1>6. /\ pc[r] = "idle" /\ UNCHANGED structureVars
      /\ pc' = [pc EXCEPT ![r] = "loaded"] /\ work' = [work EXCEPT ![r] = w]
      /\ old = NoRow => \A s \in Requests : work[s] # NoRow => work[s].id # id
  BY DEF Begin
<1> HIDE DEF w
<1>7. \A s \in Requests : pc[s] # "idle" => work[s] # NoRow
  BY DEF TxnInv, TxnTypeOK
<1> QED BY <1>4, <1>5, <1>6, <1>7 DEF Loaded

LEMMA LoadLoads ==
  ASSUME TxnInv, NEW r \in Requests, Load(r)
  PROVE  Loaded(r)
<1>1. PICK actor \in Users, t \in Tenants :
        \/ BeginCreateUnit(r, actor, t) \/ BeginUpdateUnit(r, actor, t)
        \/ "move_unit" \in Offered /\ BeginMoveUnit(r, actor, t)
        \/ BeginArchiveUnit(r, actor, t) \/ BeginRestoreUnit(r, actor, t)
        \/ BeginCreateAssignment(r, actor, t) \/ BeginUpdateAssignment(r, actor, t)
  BY DEF Load
<1>2. TypeOK
  BY DEF TxnInv, TxnTypeOK
<1>3. ASSUME NEW u \in UnitIds
      PROVE  /\ u \in UnitIds \union AssignmentIds /\ Committed(u) = units[u]
             /\ RowsOf(u) = UnitRow
  BY DEF Committed, RowsOf
<1>4. ASSUME NEW a \in AssignmentIds
      PROVE  /\ a \in UnitIds \union AssignmentIds /\ Committed(a) = assignments[a]
             /\ RowsOf(a) = AssignmentRow /\ a \notin UnitIds
  BY IdsAssumption DEF Committed, RowsOf
<1>5. ASSUME NEW u \in UnitIds, FoundUnit(t, u), NEW new \in UnitRow, new.tenant = t,
             \/ \E code \in Codes : new = [units[u] EXCEPT !.code = code]
             \/ /\ "move_unit" \in Offered
                /\ \E parent \in UnitIds \union {Top} : new = [units[u] EXCEPT !.parent = parent]
             \/ \E status \in {"active", "archived"} : new = [units[u] EXCEPT !.status = status],
             Begin(r, actor, t, u, units[u], new)
      PROVE  Loaded(r)
  <2>1. units[u] \in UnitRow /\ units[u] # NoRow /\ units[u].tenant = t
    BY <1>2, <1>5 DEF FoundUnit, TypeOK
  <2>2. \A w : w.tenant = t /\ w.id = u /\ w.old = units[u] /\ w.new = new => OneEdit(w)
    BY <1>5, <2>1 DEF OneEdit
  <2> QED BY <1>3, <1>5, <2>1, <2>2, BeginLoads
<1>6. ASSUME NEW u \in UnitIds, FoundUnit(t, u)
      PROVE  units[u] \in UnitRow /\ units[u].tenant = t
  BY <1>2, <1>6 DEF FoundUnit, TypeOK
<1>7. CASE BeginCreateUnit(r, actor, t)
  <2>1. PICK u \in UnitIds, parent \in UnitIds \union {Top}, code \in Codes :
          units[u] = NoRow
          /\ Begin(r, actor, t, u, NoRow,
                   [tenant |-> t, parent |-> parent, code |-> code, status |-> "active"])
    BY <1>7 DEF BeginCreateUnit
  <2> DEFINE new == [tenant |-> t, parent |-> parent, code |-> code, status |-> "active"]
  <2>2. new \in UnitRow /\ new.tenant = t /\ new.status = "active"
    BY DEF UnitRow
  <2>3. Begin(r, actor, t, u, NoRow, new)
    BY <2>1
  <2> HIDE DEF new
  <2>4. \A w : w.tenant = t /\ w.id = u /\ w.old = NoRow /\ w.new = new => OneEdit(w)
    BY <2>2 DEF OneEdit
  <2> QED BY <1>3, <2>1, <2>2, <2>3, <2>4, BeginLoads
<1>8. CASE BeginUpdateUnit(r, actor, t)
  <2>1. PICK u \in UnitIds, code \in Codes :
          FoundUnit(t, u) /\ Begin(r, actor, t, u, units[u], [units[u] EXCEPT !.code = code])
    BY <1>8 DEF BeginUpdateUnit
  <2>2. [units[u] EXCEPT !.code = code] \in UnitRow /\ [units[u] EXCEPT !.code = code].tenant = t
    BY <1>6, <2>1 DEF UnitRow
  <2> QED BY <1>5, <2>1, <2>2
<1>9. CASE "move_unit" \in Offered /\ BeginMoveUnit(r, actor, t)
  <2>1. PICK u \in UnitIds, parent \in UnitIds \union {Top} :
          FoundUnit(t, u) /\ Begin(r, actor, t, u, units[u], [units[u] EXCEPT !.parent = parent])
    BY <1>9 DEF BeginMoveUnit
  <2>2. [units[u] EXCEPT !.parent = parent] \in UnitRow
        /\ [units[u] EXCEPT !.parent = parent].tenant = t
    BY <1>6, <2>1 DEF UnitRow
  <2> QED BY <1>5, <1>9, <2>1, <2>2
<1>10. ASSUME NEW u \in UnitIds, FoundUnit(t, u), NEW status \in {"active", "archived"},
              Begin(r, actor, t, u, units[u], [units[u] EXCEPT !.status = status])
       PROVE  Loaded(r)
  <2>1. [units[u] EXCEPT !.status = status] \in UnitRow
        /\ [units[u] EXCEPT !.status = status].tenant = t
    BY <1>6, <1>10 DEF UnitRow
  <2> QED BY <1>5, <1>10, <2>1
<1>11. CASE BeginArchiveUnit(r, actor, t)
  BY <1>10, <1>11 DEF BeginArchiveUnit
<1>12. CASE BeginRestoreUnit(r, actor, t)
  BY <1>10, <1>12 DEF BeginRestoreUnit
<1>13. CASE BeginCreateAssignment(r, actor, t)
  <2>1. PICK a \in AssignmentIds, unit \in UnitIds, user \in Users, primary \in BOOLEAN :
          assignments[a] = NoRow
          /\ Begin(r, actor, t, a, NoRow,
                   [tenant |-> t, unit |-> unit, user |-> user,
                    primary |-> primary, status |-> "active"])
    BY <1>13 DEF BeginCreateAssignment
  <2> DEFINE new == [tenant |-> t, unit |-> unit, user |-> user,
                     primary |-> primary, status |-> "active"]
  <2>2. new \in AssignmentRow /\ new.tenant = t /\ new.status = "active"
    BY DEF AssignmentRow
  <2>3. Begin(r, actor, t, a, NoRow, new)
    BY <2>1
  <2> HIDE DEF new
  <2>4. \A w : w.tenant = t /\ w.id = a /\ w.old = NoRow /\ w.new = new => OneEdit(w)
    BY <2>2 DEF OneEdit
  <2> QED BY <1>4, <2>1, <2>2, <2>3, <2>4, BeginLoads
<1>14. CASE BeginUpdateAssignment(r, actor, t)
  <2>1. PICK a \in AssignmentIds, primary \in BOOLEAN, status \in {"active", "inactive"} :
          FoundAssignment(t, a)
          /\ Begin(r, actor, t, a, assignments[a],
                   [assignments[a] EXCEPT !.primary = primary, !.status = status])
    BY <1>14 DEF BeginUpdateAssignment
  <2> DEFINE new == [assignments[a] EXCEPT !.primary = primary, !.status = status]
  <2>2. assignments[a] \in AssignmentRow /\ assignments[a] # NoRow /\ assignments[a].tenant = t
    BY <1>2, <2>1 DEF FoundAssignment, TypeOK
  <2>3. new \in AssignmentRow /\ new.tenant = t
    BY <2>2 DEF AssignmentRow
  <2>4. \A w : w.tenant = t /\ w.id = a /\ w.old = assignments[a] /\ w.new = new => OneEdit(w)
    BY <1>4, <2>2, <2>3 DEF OneEdit
  <2>5. Begin(r, actor, t, a, assignments[a], new)
    BY <2>1
  <2> HIDE DEF new
  <2> QED BY <1>4, <2>2, <2>3, <2>4, <2>5, BeginLoads
<1> QED BY <1>1, <1>7, <1>8, <1>9, <1>11, <1>12, <1>13, <1>14

LEMMA DropKeeps ==
  ASSUME TxnInv, NEW r \in Requests, Drop(r)
  PROVE  Keeps
BY DEF Drop, TxnInv, TxnTypeOK, Keeps, Validated, structureVars

LEMMA TxnStepShapes ==
  ASSUME TxnInv, [TxnNext]_txnVars
  PROVE  \/ \E r \in Requests : Loaded(r) \/ Wrote(r) \/ Commit(r)
         \/ Keeps
<1> USE DEF TxnInv
<1>1. ASSUME NEW r \in Requests, Load(r)  PROVE Loaded(r)
  BY <1>1, LoadLoads
<1>2. ASSUME NEW r \in Requests, WriteRow(r)  PROVE Wrote(r) \/ Keeps
  <2>1. CASE MayWriteRows(work[r]) /\ Valid(work[r], NewVersion(work[r]))
    BY <1>2, <2>1 DEF WriteRow, Wrote, Advance
  <2>2. CASE ~(MayWriteRows(work[r]) /\ Valid(work[r], NewVersion(work[r])))
    BY <1>2, <2>2, DropKeeps DEF WriteRow
  <2> QED BY <2>1, <2>2
<1>3. ASSUME NEW r \in Requests, pc[r] \in {"written", "flushed"},
             NEW phase \in {"flushed", "audited"}, Advance(r, phase), UNCHANGED work
      PROVE  Keeps
  BY <1>3 DEF Advance, TxnTypeOK, Keeps, Validated, structureVars
<1>4. ASSUME NEW r \in Requests, EnterIndexes(r) \/ InsertAudit(r)  PROVE Keeps
  BY <1>3, <1>4, DropKeeps DEF EnterIndexes, InsertAudit
<1>5. ASSUME NEW r \in Requests, Abort(r) \/ DeadlockVictim(r)  PROVE Keeps
  BY <1>5, DropKeeps DEF Abort, DeadlockVictim
<1>6. CASE Administer
  BY <1>6 DEF Administer, DirectoryChange, TxnTypeOK, Keeps, Validated
<1>7. CASE UNCHANGED txnVars
  BY <1>7 DEF txnVars, structureVars, TxnTypeOK, Keeps, Validated
<1> QED BY <1>1, <1>2, <1>4, <1>5, <1>6, <1>7 DEF TxnNext

-----------------------------------------------------------------------------
(* Overlap and tenants.  OverlapInv adds to TxnInv what ties a request to the   *)
(* rows it may write: one edit of a row of its tenant, a new id that is nobody *)
(* else's, and a version that stands on units of its tenant.                  *)

EditsOne == \A r \in Requests : pc[r] # "idle" => OneEdit(work[r])

FreshIds ==
  \A r \in Requests : pc[r] # "idle" /\ work[r].old = NoRow =>
    /\ Committed(work[r].id) = NoRow
    /\ \A s \in Requests : s # r /\ pc[s] # "idle" => work[s].id # work[r].id

TenantKept ==
  \A r \in Requests : pc[r] # "idle" =>
    /\ work[r].old # NoRow => Committed(work[r].id).tenant = work[r].tenant
    /\ Validated(r) => work[r].row.tenant = work[r].tenant

\* In the units us, the parent of a unit's row, or the unit of an assignment's, is a
\* unit of the row's tenant.
PlacedIn(us, id, row) ==
  IF id \in UnitIds
  THEN row.parent # Top => us[row.parent] # NoRow /\ us[row.parent].tenant = row.tenant
  ELSE us[row.unit] # NoRow /\ us[row.unit].tenant = row.tenant

CommittedPlaced ==
  \A id \in UnitIds \union AssignmentIds :
    Committed(id) # NoRow => PlacedIn(units, id, Committed(id))

VersionPlaced ==
  \A r \in Requests : Validated(r) => PlacedIn(units, work[r].id, work[r].row)

OverlapInv ==
  /\ TxnInv
  /\ EditsOne
  /\ FreshIds
  /\ TenantKept
  /\ CommittedPlaced
  /\ VersionPlaced

\* Rows stay placed as long as no unit disappears or changes its tenant.
LEMMA PlacedMonotone ==
  ASSUME NEW us, NEW vs,
         \A u \in UnitIds : us[u] # NoRow => vs[u] # NoRow /\ vs[u].tenant = us[u].tenant,
         NEW id, NEW row \in RowsOf(id), PlacedIn(us, id, row)
  PROVE  PlacedIn(vs, id, row)
<1>1. CASE id \in UnitIds
  BY <1>1 DEF PlacedIn, RowsOf, UnitRow
<1>2. CASE id \notin UnitIds
  BY <1>2 DEF PlacedIn, RowsOf, AssignmentRow
<1> QED BY <1>1, <1>2

\* What the triggers have accepted stands on units of its tenant.  They see an
\* inactive assignment not at all: it stands where the committed one does.
LEMMA WrotePlaced ==
  ASSUME OverlapInv, NEW r \in Requests, Wrote(r)
  PROVE  /\ NewVersion(work[r]) \in RowsOf(work[r].id)
         /\ NewVersion(work[r]).tenant = work[r].tenant
         /\ PlacedIn(units, work[r].id, NewVersion(work[r]))
<1> USE DEF OverlapInv, TxnInv
<1> DEFINE w == work[r]
           row == NewVersion(w)
           c == Committed(w.id)
<1>1. pc[r] = "loaded" /\ Valid(w, row)
  BY DEF Wrote
<1>2. /\ w \in Work /\ w.id \in UnitIds \union AssignmentIds
      /\ w.old \in RowsOf(w.id) \union {NoRow} /\ w.new \in RowsOf(w.id)
      /\ w.old # NoRow => c # NoRow
      /\ OneEdit(w)
      /\ w.old # NoRow => c.tenant = w.tenant
      /\ c # NoRow => PlacedIn(units, w.id, c)
  BY <1>1 DEF WorkTyped, Work, EditsOne, TenantKept, CommittedPlaced
<1>3. row \in RowsOf(w.id)
  BY <1>2, NewVersionTyped DEF TxnTypeOK
<1>4. /\ w.old = NoRow => row = w.new
      /\ w.old # NoRow =>
           row = [f \in DOMAIN w.new |-> IF w.new[f] = w.old[f] THEN c[f] ELSE w.new[f]]
  BY DEF NewVersion
<1>5. \A u \in UnitIds : unitIntegrity[u] # NoRow =>
        units[u] # NoRow /\ unitIntegrity[u].tenant = units[u].tenant
  <2> SUFFICES ASSUME NEW u \in UnitIds, unitIntegrity[u] # NoRow
               PROVE  units[u] # NoRow /\ unitIntegrity[u].tenant = units[u].tenant
    OBVIOUS
  <2>1. unitIntegrity[u] = IF units[u] = NoRow THEN NoRow
                           ELSE [tenant |-> units[u].tenant, parent |-> units[u].parent,
                                 status |-> units[u].status]
    BY DEF UnitIntegrityMirrors
  <2> QED BY <2>1
<1> HIDE DEF w, row, c
<1>6. CASE w.id \in UnitIds
  <2>1. w.new \in UnitRow /\ row \in UnitRow /\ ValidUnit(w.id, row)
    BY <1>1, <1>2, <1>3, <1>6 DEF RowsOf, Valid
  <2>2. row.tenant = w.tenant
    BY <1>2, <1>4, <2>1 DEF OneEdit, UnitRow
  <2>3. PlacedIn(units, w.id, row)
    BY <1>5, <1>6, <2>1 DEF PlacedIn, ValidUnit, UnitRow
  <2> QED BY <1>3, <2>2, <2>3 DEF w, row
<1>7. CASE w.id \notin UnitIds
  <2>1. w.new \in AssignmentRow /\ row \in AssignmentRow /\ ValidAssignment(row)
        /\ w.old \in AssignmentRow \union {NoRow}
    BY <1>1, <1>2, <1>3, <1>7 DEF RowsOf, Valid
  <2>2. row.tenant = w.tenant
    BY <1>2, <1>4, <2>1 DEF OneEdit, AssignmentRow
  <2>3. ASSUME row.status = "active"  PROVE PlacedIn(units, w.id, row)
    BY <1>5, <1>7, <2>1, <2>3 DEF PlacedIn, ValidAssignment, AssignmentRow
  <2>4. ASSUME row.status # "active"  PROVE PlacedIn(units, w.id, row)
    <3>1. w.old # NoRow
      BY <1>2, <1>4, <2>4 DEF OneEdit
    <3>2. w.new.unit = w.old.unit
      BY <1>2, <1>7, <2>1, <3>1 DEF OneEdit, AssignmentRow
    <3>3. row.unit = c.unit /\ row.tenant = c.tenant
      BY <1>2, <1>4, <2>1, <2>2, <3>1, <3>2 DEF AssignmentRow
    <3> QED BY <1>2, <1>7, <3>1, <3>3 DEF PlacedIn
  <2> QED BY <1>3, <2>2, <2>3, <2>4 DEF w, row
<1> QED BY <1>6, <1>7

LEMMA OneEditOfRows ==
  ASSUME NEW v, NEW w, OneEdit(v),
         w.tenant = v.tenant, w.id = v.id, w.old = v.old, w.new = v.new
  PROVE  OneEdit(w)
BY DEF OneEdit

\* A step that leaves the tables alone.
LEMMA OverlapQuietStep ==
  ASSUME OverlapInv, TxnInv',
         \/ Keeps
         \/ \E r \in Requests : Loaded(r) \/ Wrote(r)
  PROVE  OverlapInv'
<1> USE DEF OverlapInv, TxnInv
<1>1. UNCHANGED tableVars
  BY DEF Keeps, Loaded, Wrote, structureVars
<1>2. units' = units /\ \A id \in UnitIds \union AssignmentIds : Committed(id)' = Committed(id)
  BY <1>1, TablesKept DEF tableVars
<1>3. CommittedPlaced'
  BY <1>2 DEF CommittedPlaced
<1>4. pc \in [Requests -> Phases] /\ work \in [Requests -> Work \union {NoRow}]
  BY DEF TxnTypeOK
<1>5. \A s \in Requests : pc[s] # "idle" => work[s].id \in UnitIds \union AssignmentIds
  BY DEF WorkTyped, Work
<1>6. \A s \in Requests : Committed(work[s].id)' = Committed(work'[s].id)
  BY <1>1 DEF Committed, tableVars
<1>7. CASE Keeps
  <2>1. \A s \in Requests : pc'[s] # "idle" =>
          /\ pc[s] # "idle" /\ work'[s] = work[s]
          /\ Validated(s)' => Validated(s)
    BY <1>7 DEF Keeps
  <2>2. EditsOne'
    <3> SUFFICES ASSUME NEW q \in Requests, pc'[q] # "idle"  PROVE OneEdit(work'[q])
      BY DEF EditsOne, OneEdit
    <3> QED BY <2>1 DEF EditsOne
  <2>3. FreshIds'
    BY <1>2, <1>5, <2>1 DEF FreshIds
  <2>4. TenantKept'
    BY <1>2, <1>5, <2>1 DEF TenantKept
  <2>5. VersionPlaced'
    BY <1>2, <2>1 DEF VersionPlaced, Validated
  <2> QED BY <1>3, <2>2, <2>3, <2>4, <2>5
<1>8. ASSUME NEW r \in Requests, Loaded(r)  PROVE OverlapInv'
  <2>1. PICK w \in Work :
          /\ work' = [work EXCEPT ![r] = w]
          /\ OneEdit(w)
          /\ w.old = Committed(w.id)
          /\ w.old = NoRow => \A s \in Requests : pc[s] # "idle" => work[s].id # w.id
    BY <1>8 DEF Loaded
  <2>2. /\ \A s \in Requests : pc'[s] = IF s = r THEN "loaded" ELSE pc[s]
        /\ \A s \in Requests : work'[s] = IF s = r THEN w ELSE work[s]
        /\ w.id \in UnitIds \union AssignmentIds
        /\ pc[r] = "idle"
    BY <1>4, <1>8, <2>1 DEF Loaded, Work
  <2>3. EditsOne'
    <3> SUFFICES ASSUME NEW q \in Requests, pc'[q] # "idle"  PROVE OneEdit(work'[q])
      BY DEF EditsOne, OneEdit
    <3> QED BY <2>1, <2>2 DEF EditsOne
  <2>4. FreshIds'
    <3> SUFFICES ASSUME NEW q \in Requests, pc'[q] # "idle", work'[q].old = NoRow
                 PROVE  /\ Committed(work'[q].id) = NoRow
                        /\ \A s \in Requests : s # q /\ pc'[s] # "idle" => work'[s].id # work'[q].id
      BY <1>6 DEF FreshIds
    <3>1. CASE q = r
      BY <2>1, <2>2, <3>1
    <3>2. CASE q # r
      <4>1. Committed(work[q].id) = NoRow /\ work[q].old = NoRow /\ pc[q] # "idle"
        BY <2>2, <3>2 DEF FreshIds
      <4>2. w.id # work[q].id
        BY <2>1, <4>1
      <4> QED BY <2>2, <3>2, <4>1, <4>2 DEF FreshIds
    <3> QED BY <3>1, <3>2
  <2>5. TenantKept'
    <3>1. w.old # NoRow => Committed(w.id).tenant = w.tenant
      BY <2>1 DEF OneEdit
    <3> QED BY <1>2, <1>5, <2>2, <3>1 DEF TenantKept, Validated
  <2>6. VersionPlaced'
    BY <1>2, <2>2 DEF VersionPlaced, Validated
  <2> QED BY <1>3, <2>3, <2>4, <2>5, <2>6
<1>9. ASSUME NEW r \in Requests, Wrote(r)  PROVE OverlapInv'
  <2> DEFINE row == NewVersion(work[r])
             phase == pc'[r]
  <2>1. /\ row.tenant = work[r].tenant
        /\ PlacedIn(units, work[r].id, row)
    BY <1>9, WrotePlaced
  <2>2. /\ pc[r] = "loaded"
        /\ \A s \in Requests : s # r => pc'[s] = pc[s] /\ work'[s] = work[s]
        /\ work'[r] = [work[r] EXCEPT !.row = row]
    BY <1>4, <1>9 DEF Wrote
  <2>3. work[r] \in Work
    BY <2>2 DEF WorkTyped
  <2> HIDE DEF row
  <2>4. /\ work'[r].row = row /\ work'[r].id = work[r].id /\ work'[r].old = work[r].old
        /\ work'[r].new = work[r].new /\ work'[r].tenant = work[r].tenant
    BY <2>2, <2>3 DEF Work
  <2>5. EditsOne'
    <3> SUFFICES ASSUME NEW q \in Requests, pc'[q] # "idle"
                 PROVE  OneEdit(work'[q])
      BY DEF EditsOne, OneEdit
    <3>1. OneEdit(work[q])
      BY <2>2 DEF EditsOne
    <3> QED BY <2>2, <2>4, <3>1, OneEditOfRows
  <2>6. \A s \in Requests :
          /\ pc'[s] # "idle" => pc[s] # "idle"
          /\ work'[s].id = work[s].id /\ work'[s].old = work[s].old
          /\ work'[s].tenant = work[s].tenant
    BY <2>2, <2>4
  <2>7. FreshIds'
    <3> SUFFICES ASSUME NEW q \in Requests, pc'[q] # "idle", work'[q].old = NoRow
                 PROVE  /\ Committed(work'[q].id) = NoRow
                        /\ \A s \in Requests : s # q /\ pc'[s] # "idle" => work'[s].id # work'[q].id
      BY <1>6 DEF FreshIds
    <3> QED BY <2>6 DEF FreshIds
  <2>8. TenantKept'
    <3> SUFFICES ASSUME NEW q \in Requests, pc'[q] # "idle"
                 PROVE  /\ work'[q].old # NoRow => Committed(work'[q].id).tenant = work'[q].tenant
                        /\ pc'[q] \in {"written", "flushed", "audited"} =>
                             work'[q].row.tenant = work'[q].tenant
      BY <1>6 DEF TenantKept, Validated
    <3>1. work'[q].old # NoRow => Committed(work'[q].id).tenant = work'[q].tenant
      BY <2>6 DEF TenantKept
    <3>2. CASE q = r
      BY <2>1, <2>4, <3>1, <3>2
    <3>3. CASE q # r
      BY <2>2, <3>1, <3>3 DEF TenantKept, Validated
    <3> QED BY <3>2, <3>3
  <2>9. VersionPlaced'
    BY <1>2, <2>1, <2>2, <2>4 DEF VersionPlaced, Validated
  <2> QED BY <1>3, <2>5, <2>7, <2>8, <2>9
<1> QED BY <1>7, <1>8, <1>9

\* A commit takes no row away and moves none to another tenant.
LEMMA CommitKeepsTenants ==
  ASSUME OverlapInv, NEW r \in Requests, Commit(r)
  PROVE  /\ pc[r] = "audited"
         /\ work[r].id \in UnitIds \union AssignmentIds
         /\ work[r].row \in RowsOf(work[r].id) /\ work[r].row # NoRow
         /\ work[r].row.tenant = work[r].tenant
         /\ Committed(work[r].id) # NoRow => Committed(work[r].id).tenant = work[r].tenant
         /\ \A u \in UnitIds : units[u] # NoRow =>
              units'[u] # NoRow /\ units'[u].tenant = units[u].tenant
<1> USE DEF OverlapInv
<1>1. pc[r] = "audited"
  BY DEF Commit
<1>2. /\ work[r].id \in UnitIds \union AssignmentIds
      /\ work[r].row \in RowsOf(work[r].id)
  BY <1>1 DEF TxnInv, WorkTyped, Work
<1>3. /\ work[r].row # NoRow
      /\ work[r].row.tenant = work[r].tenant
      /\ Committed(work[r].id) # NoRow => Committed(work[r].id).tenant = work[r].tenant
  BY <1>1, <1>2, RowIsNotNoRow DEF TenantKept, FreshIds, Validated
<1>4. \A u \in UnitIds : units'[u] = IF u = work[r].id THEN work[r].row ELSE units[u]
  BY CommitShape DEF Committed
<1> QED BY <1>1, <1>2, <1>3, <1>4 DEF Committed

LEMMA OverlapCommitStep ==
  ASSUME OverlapInv, TxnInv', NEW r \in Requests, Commit(r)
  PROVE  OverlapInv'
<1> USE DEF OverlapInv
<1> DEFINE id == work[r].id
           row == work[r].row
<1>1. /\ pc[r] = "audited" /\ id \in UnitIds \union AssignmentIds
      /\ row \in RowsOf(id) /\ row # NoRow /\ row.tenant = work[r].tenant
      /\ \A u \in UnitIds : units[u] # NoRow =>
           units'[u] # NoRow /\ units'[u].tenant = units[u].tenant
  BY CommitKeepsTenants
<1>2. /\ \A s \in Requests : pc'[s] = IF s = r THEN "idle" ELSE pc[s]
      /\ \A s \in Requests : work'[s] = IF s = r THEN NoRow ELSE work[s]
      /\ \A x \in UnitIds \union AssignmentIds :
           Committed(x)' = IF x = id THEN row ELSE Committed(x)
  BY CommitShape
<1>3. \A s \in Requests : pc'[s] # "idle" =>
        /\ s # r /\ pc[s] # "idle" /\ pc'[s] = pc[s] /\ work'[s] = work[s]
        /\ work[s].id \in UnitIds \union AssignmentIds
  BY <1>2 DEF TxnInv, WorkTyped, Work
<1>4. PlacedIn(units, id, row)
  BY <1>1 DEF VersionPlaced, Validated
<1> HIDE DEF id, row
<1>5. \A s \in Requests : pc'[s] # "idle" =>
        Committed(work[s].id)' = IF work[s].id = id THEN row ELSE Committed(work[s].id)
  BY <1>2, <1>3 DEF Committed
<1>6. EditsOne'
  <2> SUFFICES ASSUME NEW q \in Requests, pc'[q] # "idle"  PROVE OneEdit(work'[q])
    BY DEF EditsOne, OneEdit
  <2> QED BY <1>3 DEF EditsOne
<1>7. FreshIds'
  <2> SUFFICES ASSUME NEW q \in Requests, pc'[q] # "idle", work'[q].old = NoRow
               PROVE  /\ Committed(work[q].id)' = NoRow
                      /\ \A s \in Requests : s # q /\ pc'[s] # "idle" => work'[s].id # work'[q].id
    BY DEF FreshIds
  <2>1. pc[q] # "idle" /\ work'[q] = work[q] /\ q # r
    BY <1>3
  <2>2. Committed(work[q].id) = NoRow /\ work[q].id # id
    BY <1>1, <2>1 DEF FreshIds, id
  <2>3. \A s \in Requests : s # q /\ pc'[s] # "idle" => work'[s].id # work'[q].id
    BY <1>3, <2>1 DEF FreshIds
  <2> QED BY <1>5, <2>2, <2>3
<1>8. TenantKept'
  <2> SUFFICES ASSUME NEW q \in Requests, pc'[q] # "idle"
               PROVE  /\ work'[q].old # NoRow => Committed(work[q].id)'.tenant = work'[q].tenant
                      /\ pc'[q] \in {"written", "flushed", "audited"} =>
                           work'[q].row.tenant = work'[q].tenant
    BY DEF TenantKept, Validated
  <2>1. pc[q] # "idle" /\ work'[q] = work[q] /\ q # r /\ pc'[q] = pc[q]
    BY <1>3
  <2>2. ASSUME work[q].old # NoRow, work[q].id = id
        PROVE  work[q].tenant = row.tenant
    <3>1. Committed(id) # NoRow /\ Committed(id).tenant = work[q].tenant
      BY <2>1, <2>2 DEF TenantKept, TxnInv, WorkTyped
    <3>2. Committed(id).tenant = work[r].tenant
      BY <3>1, CommitKeepsTenants DEF id
    <3> QED BY <1>1, <3>1, <3>2
  <2> QED BY <1>5, <2>1, <2>2 DEF TenantKept, Validated
<1>9. CommittedPlaced'
  <2> SUFFICES ASSUME NEW x \in UnitIds \union AssignmentIds, Committed(x)' # NoRow
               PROVE  PlacedIn(units', x, Committed(x)')
    BY DEF CommittedPlaced, PlacedIn
  <2>1. Committed(x)' \in RowsOf(x) /\ PlacedIn(units, x, Committed(x)')
    <3>1. CASE x = id
      BY <1>1, <1>2, <1>4, <3>1
    <3>2. CASE x # id
      BY <1>2, <3>2, CommittedTyped DEF CommittedPlaced, TxnInv, TxnTypeOK
    <3> QED BY <3>1, <3>2
  <2> QED BY <1>1, <2>1, PlacedMonotone
<1>10. VersionPlaced'
  <2> SUFFICES ASSUME NEW q \in Requests, pc'[q] \in {"written", "flushed", "audited"}
               PROVE  PlacedIn(units', work'[q].id, work'[q].row)
    BY DEF VersionPlaced, Validated, PlacedIn
  <2>1. /\ work'[q] = work[q]
        /\ work[q].row \in RowsOf(work[q].id)
        /\ PlacedIn(units, work[q].id, work[q].row)
    BY <1>3 DEF VersionPlaced, Validated, TxnInv, WorkTyped
  <2> QED BY <1>1, <2>1, PlacedMonotone
<1> QED BY <1>6, <1>7, <1>8, <1>9, <1>10

LEMMA OverlapInitInv == TxnInit => OverlapInv
<1> SUFFICES ASSUME TxnInit PROVE OverlapInv
  OBVIOUS
<1>1. /\ \A r \in Requests : pc[r] = "idle" /\ work[r] = NoRow
      /\ \A id \in UnitIds \union AssignmentIds : Committed(id) = NoRow
  BY DEF TxnInit, Init, Committed
<1> QED BY <1>1, TxnInitInv
        DEF OverlapInv, EditsOne, FreshIds, TenantKept, CommittedPlaced, VersionPlaced, Validated

LEMMA OverlapInvStep == OverlapInv /\ [TxnNext]_txnVars => OverlapInv'
<1> SUFFICES ASSUME OverlapInv, [TxnNext]_txnVars PROVE OverlapInv'
  OBVIOUS
<1>1. TxnInv /\ TxnInv'
  BY TxnInvStep DEF OverlapInv
<1> QED BY <1>1, TxnStepShapes, OverlapQuietStep, OverlapCommitStep

LEMMA OverlapInvariance == TxnSpec => []OverlapInv
<1> QED BY OverlapInitInv, OverlapInvStep, PTL DEF TxnSpec

LEMMA OverlapParents ==
  ASSUME OverlapInv
  PROVE  ParentInTenant
<1> SUFFICES ASSUME NEW u \in UnitIds, units[u] # NoRow, units[u].parent # Top
             PROVE  units[units[u].parent] # NoRow /\ units[units[u].parent].tenant = units[u].tenant
  BY DEF ParentInTenant
<1> QED BY DEF OverlapInv, CommittedPlaced, PlacedIn, Committed

\* A parent stays in its child's tenant whatever overlaps: no committed row ever
\* leaves its tenant, so the projection that the trigger read cannot become wrong.
THEOREM ParentsStayInTenant == TxnSpec => []ParentInTenant
<1> QED BY OverlapParents, OverlapInvariance, PTL

\* So does the unit of an assignment, active or not.
THEOREM AssignmentsStayInTenant == TxnSpec => []AssignmentsInTenant
<1>1. ASSUME OverlapInv  PROVE AssignmentsInTenant
  <2> SUFFICES ASSUME NEW a \in AssignmentIds, assignments[a] # NoRow
               PROVE  /\ units[assignments[a].unit] # NoRow
                      /\ units[assignments[a].unit].tenant = assignments[a].tenant
    BY DEF AssignmentsInTenant
  <2> QED BY <1>1, IdsAssumption DEF OverlapInv, CommittedPlaced, PlacedIn, Committed
<1> QED BY <1>1, OverlapInvariance, PTL

\* Rows change in their tenant only, by a request that was loaded for it by an owner
\* or admin, and none disappears.
THEOREM RowsStayInTenant == TxnSpec => RowsKeepTenant
<1> DEFINE Keep ==
      \A id \in UnitIds \union AssignmentIds : Committed(id)' # Committed(id) =>
        /\ Committed(id)' # NoRow
        /\ Committed(id) # NoRow => Committed(id)'.tenant = Committed(id).tenant
        /\ \E r \in Requests :
             /\ pc[r] = "audited" /\ work[r].id = id /\ work[r].role \in {"owner", "admin"}
             /\ work[r].tenant = Committed(id)'.tenant
<1>1. ASSUME OverlapInv, [TxnNext]_txnVars  PROVE Keep
  <2> SUFFICES ASSUME NEW id \in UnitIds \union AssignmentIds, Committed(id)' # Committed(id)
               PROVE  /\ Committed(id)' # NoRow
                      /\ Committed(id) # NoRow => Committed(id)'.tenant = Committed(id).tenant
                      /\ \E r \in Requests :
                           /\ pc[r] = "audited" /\ work[r].id = id
                           /\ work[r].role \in {"owner", "admin"}
                           /\ work[r].tenant = Committed(id)'.tenant
    OBVIOUS
  <2>1. PICK r \in Requests : Commit(r)
    BY <1>1, OnlyCommitsShow DEF Committed
  <2>2. id = work[r].id /\ Committed(id)' = work[r].row
    BY <1>1, <2>1, CommitShape DEF OverlapInv
  <2>3. /\ pc[r] = "audited" /\ work[r].row # NoRow
        /\ work[r].row.tenant = work[r].tenant
        /\ Committed(work[r].id) # NoRow => Committed(work[r].id).tenant = work[r].tenant
    BY <1>1, <2>1, CommitKeepsTenants
  <2>4. work[r].role \in {"owner", "admin"}
    BY <1>1, <2>3 DEF OverlapInv, TxnInv, WorkTyped
  <2> QED BY <2>2, <2>3, <2>4
<1>2. OverlapInv /\ [TxnNext]_txnVars => [Keep]_txnVars
  BY <1>1
<1> QED BY <1>2, OverlapInvariance, PTL DEF TxnSpec, RowsKeepTenant

\* A row lock closes no circle of waits: who waits for one holds nothing yet.  The
\* circle is of index waits, and somebody in it has replaced the value that another
\* wants.
THEOREM DeadlocksExplained == TxnSpec => []DeadlocksNeedReplacement
<1>1. ASSUME OverlapInv  PROVE DeadlocksNeedReplacement
  <2> USE <1>1 DEF OverlapInv
  <2> SUFFICES ASSUME NEW S \in (SUBSET Requests) \ {{}}, \A s \in S : \E b \in S : WaitsFor(s, b)
               PROVE  \E b, s \in S : /\ pc[b] = "written" /\ pc[s] = "written"
                                      /\ work[s].old # NoRow
                                      /\ Clash(work[b].id, work[b].row, Committed(work[s].id))
    BY DEF DeadlocksNeedReplacement
  <2>1. PICK b \in S, s \in S : pc[b] = "written" /\ BlocksIndex(s, b)
    <3>1. PICK x \in S, y \in S : WaitsFor(x, y)
      OBVIOUS
    <3>2. CASE pc[x] = "written"
      BY <3>1, <3>2 DEF WaitsFor
    <3>3. CASE pc[x] # "written"
      <4>1. HoldsRow(y, work[x].id)
        BY <3>1, <3>3 DEF WaitsFor
      <4>2. PICK z \in S : WaitsFor(y, z)
        OBVIOUS
      <4> QED BY <4>1, <4>2 DEF HoldsRow, WaitsFor
    <3> QED BY <3>2, <3>3
  <2>2. pc[s] \in {"written", "flushed", "audited"}
    BY <2>1 DEF BlocksIndex
  <2>3. pc[s] = "written"
    BY <2>2 DEF WaitsFor
  <2>4. Clash(work[b].id, work[b].row, Committed(work[s].id))
    BY <2>1, <2>3 DEF BlocksIndex
  <2>5. Committed(work[s].id) # NoRow
    BY <2>4 DEF Clash, SameCode
  <2>6. work[s].old # NoRow
    BY <2>3, <2>5 DEF FreshIds
  <2> QED BY <2>1, <2>3, <2>4, <2>6
<1> QED BY <1>1, OverlapInvariance, PTL

-----------------------------------------------------------------------------
(* When a commit is a step of the serial specification. *)

\* A version over the row that was loaded is the object in memory.
LEMMA CurrentVersionIsObject ==
  ASSUME TxnInv, NEW r \in Requests, pc[r] \in {"written", "flushed", "audited"},
         work[r].old # NoRow => Committed(work[r].id) = work[r].old
  PROVE  work[r].row = work[r].new
<1> DEFINE w == work[r]
<1>1. /\ w.row \in RowsOf(w.id) /\ w.new \in RowsOf(w.id)
      /\ w.old = NoRow => w.row = w.new
      /\ w.old # NoRow =>
           \A f \in DOMAIN w.new :
             w.row[f] = IF w.new[f] = w.old[f] THEN Committed(w.id)[f] ELSE w.new[f]
  BY DEF TxnInv, WorkTyped, VersionMerged
<1> HIDE DEF w
<1>2. ASSUME w.old # NoRow  PROVE \A f \in DOMAIN w.new : w.row[f] = w.new[f]
  BY <1>1, <1>2 DEF w
<1>3. CASE w.old # NoRow /\ w.id \in UnitIds
  <2>1. w.row \in UnitRow /\ w.new \in UnitRow
    BY <1>1, <1>3 DEF RowsOf
  <2> QED BY <1>2, <1>3, <2>1 DEF UnitRow, w
<1>4. CASE w.old # NoRow /\ w.id \notin UnitIds
  <2>1. w.row \in AssignmentRow /\ w.new \in AssignmentRow
    BY <1>1, <1>4 DEF RowsOf
  <2> QED BY <1>2, <1>4, <2>1 DEF AssignmentRow, w
<1>5. CASE w.old = NoRow
  BY <1>1, <1>5 DEF w
<1> QED BY <1>3, <1>4, <1>5

\* The unique indexes have kept the place of an entered version free.
LEMMA EnteredIsFree ==
  ASSUME TxnInv, NEW r \in Requests, pc[r] = "audited"
  PROVE  /\ work[r].id \in UnitIds => CodeFree(work[r].id, work[r].row)
         /\ work[r].id \in AssignmentIds => PlaceFree(work[r].id, work[r].row)
<1>1. \A x \in SameTable(work[r].id) \ {work[r].id} :
        ~Clash(work[r].id, work[r].row, Committed(x))
  BY DEF TxnInv, EnteredFree
<1>2. CASE work[r].id \in UnitIds
  BY <1>1, <1>2, IdsAssumption DEF SameTable, Clash, Committed, CodeFree
<1>3. CASE work[r].id \in AssignmentIds
  <2>1. work[r].id \notin UnitIds /\ \A x \in AssignmentIds : x \notin UnitIds
    BY <1>3, IdsAssumption
  <2>2. \A x \in AssignmentIds \ {work[r].id} :
          ~(assignments[x] # NoRow /\ SamePlace(work[r].row, assignments[x]))
    BY <1>1, <2>1 DEF SameTable, Clash, Committed
  <2> QED BY <2>1, <2>2 DEF PlaceFree, SamePlace
<1> QED BY <1>2, <1>3

LEMMA UnitCommitIsSerial ==
  ASSUME OverlapInv, NEW r \in Requests, Commit(r), StillCurrent(work[r]),
         work[r].id \in UnitIds
  PROVE  Next
<1> DEFINE w == work[r]
           u == w.id
           t == w.tenant
           row == w.row
<1> USE DEF OverlapInv
<1>1. /\ pc[r] = "audited" /\ w \in Work
      /\ WriteUnit(u, row) /\ RecordUnit(u, w.new) /\ UNCHANGED directoryVars
  BY DEF Commit, TxnInv, WorkTyped
<1>2. /\ CanWrite(t, w.actor)
      /\ w.old # NoRow => units[u] = w.old
      /\ ValidUnit(u, row)
      /\ w.old # NoRow => MayArchive(u, units[u], row)
  BY DEF StillCurrent, Valid, Committed
<1>3. row = w.new
  BY <1>1, CurrentVersionIsObject DEF StillCurrent
<1>4. /\ w.actor \in Users /\ t \in Tenants /\ row \in UnitRow
      /\ OneEdit(w)
      /\ w.old = NoRow => units[u] = NoRow
      /\ CodeFree(u, row)
      /\ w.old \in UnitRow \union {NoRow}
  BY <1>1, EnteredIsFree DEF Work, TxnInv, WorkTyped, RowsOf, EditsOne, FreshIds, Committed
<1> HIDE DEF w
<1>5. InsertUnit(u, row)
  BY <1>1, <1>2, <1>3, <1>4 DEF InsertUnit
<1>6. SUFFICES UnitRequest(w.actor, t)
  BY <1>4 DEF Next
<1>7. CASE w.old = NoRow
  <2>1. row.tenant = t /\ row.status = "active"
    BY <1>3, <1>4, <1>7 DEF OneEdit
  <2>2. row = [tenant |-> t, parent |-> row.parent, code |-> row.code, status |-> "active"]
    BY <1>4, <2>1 DEF UnitRow
  <2>3. CreateUnit(w.actor, t, u, row.parent, row.code)
    BY <1>2, <1>4, <1>5, <1>7, <2>2 DEF CreateUnit
  <2>4. row.parent \in UnitIds \union {Top} /\ row.code \in Codes
    BY <1>4 DEF UnitRow
  <2> QED BY <2>3, <2>4 DEF UnitRequest, w
<1>8. CASE w.old # NoRow
  <2>1. FoundUnit(t, u) /\ ReplaceUnit(u, row) /\ units[u] = w.old /\ w.old \in UnitRow
    BY <1>2, <1>4, <1>5, <1>8 DEF FoundUnit, ReplaceUnit, OneEdit
  <2>2. ASSUME NEW code \in Codes, row = [units[u] EXCEPT !.code = code]
        PROVE  UnitRequest(w.actor, t)
    <3>1. UpdateUnit(w.actor, t, u, code)
      BY <1>2, <2>1, <2>2 DEF UpdateUnit
    <3> QED BY <3>1 DEF UnitRequest, w
  <2>3. ASSUME NEW parent \in UnitIds \union {Top}, row = [units[u] EXCEPT !.parent = parent]
        PROVE  UnitRequest(w.actor, t)
    <3>1. MoveUnit(w.actor, t, u, parent)
      BY <1>2, <2>1, <2>3 DEF MoveUnit
    <3> QED BY <3>1 DEF UnitRequest, w
  <2>4. ASSUME row = [units[u] EXCEPT !.status = "active"]
        PROVE  UnitRequest(w.actor, t)
    <3>1. RestoreUnit(w.actor, t, u)
      BY <1>2, <2>1, <2>4 DEF RestoreUnit
    <3> QED BY <3>1 DEF UnitRequest, w
  <2>5. ASSUME row = [units[u] EXCEPT !.status = "archived"], units[u].status # "archived"
        PROVE  UnitRequest(w.actor, t)
    <3>1. row.status = "archived"
      BY <2>1, <2>5 DEF UnitRow
    <3>2. ~HasActiveDependents(u)
      BY <1>2, <1>8, <2>5, <3>1 DEF MayArchive
    <3>3. ArchiveUnit(w.actor, t, u)
      BY <1>2, <2>1, <2>5, <3>2 DEF ArchiveUnit
    <3> QED BY <3>3 DEF UnitRequest, w
  <2>6. ASSUME row = [units[u] EXCEPT !.status = "archived"], units[u].status = "archived"
        PROVE  UnitRequest(w.actor, t)
    <3>1. row = [units[u] EXCEPT !.code = units[u].code] /\ units[u].code \in Codes
      BY <2>1, <2>6 DEF UnitRow
    <3> QED BY <2>2, <3>1
  <2>7. \/ \E code \in Codes : row = [units[u] EXCEPT !.code = code]
        \/ \E parent \in UnitIds \union {Top} : row = [units[u] EXCEPT !.parent = parent]
        \/ \E status \in {"active", "archived"} : row = [units[u] EXCEPT !.status = status]
    BY <1>3, <1>4, <1>8, <2>1 DEF OneEdit, w
  <2> QED BY <2>2, <2>3, <2>4, <2>5, <2>6, <2>7
<1> QED BY <1>7, <1>8

LEMMA AssignmentCommitIsSerial ==
  ASSUME OverlapInv, NEW r \in Requests, Commit(r), StillCurrent(work[r]),
         work[r].id \notin UnitIds
  PROVE  Next
<1> DEFINE w == work[r]
           a == w.id
           t == w.tenant
           row == w.row
<1> USE DEF OverlapInv
<1>1. /\ pc[r] = "audited" /\ w \in Work
      /\ WriteAssignment(a, row) /\ RecordAssignment(a, w.new) /\ UNCHANGED directoryVars
  BY DEF Commit, TxnInv, WorkTyped
<1>2. /\ CanWrite(t, w.actor)
      /\ w.old # NoRow => assignments[a] = w.old
      /\ ValidAssignment(row)
  BY DEF StillCurrent, Valid, Committed
<1>3. row = w.new
  BY <1>1, CurrentVersionIsObject DEF StillCurrent
<1>4. /\ w.actor \in Users /\ t \in Tenants /\ a \in AssignmentIds /\ row \in AssignmentRow
      /\ OneEdit(w)
      /\ w.old = NoRow => assignments[a] = NoRow
      /\ w.old \in AssignmentRow \union {NoRow}
  BY <1>1 DEF Work, TxnInv, WorkTyped, RowsOf, EditsOne, FreshIds, Committed
<1>5. PlaceFree(a, row)
  BY <1>1, <1>4, EnteredIsFree
<1> HIDE DEF w
<1>6. PutAssignment(a, row)
  BY <1>1, <1>2, <1>3, <1>5 DEF PutAssignment
<1>7. SUFFICES AssignmentRequest(w.actor, t)
  BY <1>4 DEF Next
<1>8. CASE w.old = NoRow
  <2>1. row.tenant = t /\ row.status = "active"
    BY <1>3, <1>4, <1>8 DEF OneEdit
  <2>2. row = [tenant |-> t, unit |-> row.unit, user |-> row.user, primary |-> row.primary,
               status |-> "active"]
    BY <1>4, <2>1 DEF AssignmentRow
  <2>3. CreateAssignment(w.actor, t, a, row.unit, row.user, row.primary)
    BY <1>2, <1>4, <1>6, <1>8, <2>2 DEF CreateAssignment
  <2>4. row.unit \in UnitIds /\ row.user \in Users /\ row.primary \in BOOLEAN
    BY <1>4 DEF AssignmentRow
  <2> QED BY <1>4, <2>3, <2>4 DEF AssignmentRequest
<1>9. CASE w.old # NoRow
  <2>1. FoundAssignment(t, a) /\ assignments[a] = w.old /\ w.old \in AssignmentRow
    BY <1>2, <1>4, <1>9 DEF FoundAssignment, OneEdit
  <2>2. PICK primary \in BOOLEAN, status \in {"active", "inactive"} :
          row = [assignments[a] EXCEPT !.primary = primary, !.status = status]
    BY <1>3, <1>4, <1>9, <2>1 DEF OneEdit, w
  <2>3. UpdateAssignment(w.actor, t, a, primary, status)
    BY <1>2, <1>6, <2>1, <2>2 DEF UpdateAssignment
  <2> QED BY <1>4, <2>3 DEF AssignmentRequest
<1> QED BY <1>8, <1>9

\* What a step is to the serial specification, commits left open.
LEMMA SerialOrCommit ==
  ASSUME [TxnNext]_txnVars
  PROVE  Next \/ UNCHANGED structureVars \/ \E r \in Requests : Commit(r)
<1>1. ASSUME NEW r \in Requests, Load(r)  PROVE UNCHANGED structureVars
  BY <1>1, LoadIsQuiet
<1>2. ASSUME NEW r \in Requests, WriteRow(r) \/ EnterIndexes(r) \/ InsertAudit(r)
      PROVE  UNCHANGED structureVars
  BY <1>2 DEF WriteRow, EnterIndexes, InsertAudit, Advance, Drop
<1>3. ASSUME NEW r \in Requests, Abort(r) \/ DeadlockVictim(r)  PROVE UNCHANGED structureVars
  BY <1>3 DEF Abort, DeadlockVictim, Drop
<1>4. Administer => Next
  BY DEF Administer, Next
<1>5. UNCHANGED txnVars => UNCHANGED structureVars
  BY DEF txnVars
<1> QED BY <1>1, <1>2, <1>3, <1>4, <1>5 DEF TxnNext

\* With any number of connections, a commit that the serial specification would not
\* allow comes of a stale row, trigger check or authority; the ids, the codes and the
\* places of assignments are never the cause.
THEOREM SerialButForStaleness == TxnSpec => SerialUnlessStale
<1> DEFINE Serial ==
      \/ Next \/ UNCHANGED structureVars
      \/ \E r \in Requests : Commit(r) /\ ~StillCurrent(work[r])
<1>1. ASSUME OverlapInv, [TxnNext]_txnVars  PROVE Serial
  <2>1. ASSUME NEW r \in Requests, Commit(r), StillCurrent(work[r])  PROVE Next
    BY <1>1, <2>1, UnitCommitIsSerial, AssignmentCommitIsSerial
  <2> QED BY <1>1, <2>1, SerialOrCommit
<1>2. OverlapInv /\ [TxnNext]_txnVars => [Serial]_txnVars
  BY <1>1
<1> QED BY <1>2, OverlapInvariance, PTL DEF TxnSpec, SerialUnlessStale

-----------------------------------------------------------------------------
(* One connection: nobody else commits, so the row stays as it was loaded and   *)
(* the unit triggers' answer stays right until the commit.                    *)

StaysCurrent ==
  \A r \in Requests : pc[r] # "idle" =>
    /\ work[r].old # NoRow => Committed(work[r].id) = work[r].old
    /\ Validated(r) /\ work[r].id \in UnitIds => Valid(work[r], work[r].row)

LEMMA StaysCurrentStep ==
  ASSUME \A r, s \in Requests : r = s, OverlapInv, StaysCurrent, [TxnNext]_txnVars
  PROVE  StaysCurrent'
<1> SUFFICES ASSUME NEW r \in Requests, pc'[r] # "idle"
             PROVE  /\ work'[r].old # NoRow => Committed(work[r].id)' = work'[r].old
                    /\ pc'[r] \in {"written", "flushed", "audited"} /\ work'[r].id \in UnitIds
                         => Valid(work[r], work[r].row)'
  BY DEF StaysCurrent, Validated
<1> USE DEF OverlapInv
<1>1. ~Commit(r) /\ \A s \in Requests : s = r
  BY CommitShape
<1>2. Loaded(r) \/ Wrote(r) \/ Keeps
  BY <1>1, TxnStepShapes
<1>3. UNCHANGED tableVars
  BY <1>2 DEF Keeps, Loaded, Wrote, structureVars
<1>4. /\ units' = units /\ unitIntegrity' = unitIntegrity /\ assignments' = assignments
      /\ pc \in [Requests -> Phases] /\ work \in [Requests -> Work \union {NoRow}]
  BY <1>3 DEF tableVars, TxnInv, TxnTypeOK
<1>5. CASE Keeps
  <2>1. /\ pc[r] # "idle" /\ work'[r] = work[r]
        /\ pc'[r] \in {"written", "flushed", "audited"} => Validated(r)
    BY <1>5 DEF Keeps, Validated
  <2> QED BY <1>4, <2>1 DEF StaysCurrent, Committed, Valid, ValidUnit, Ancestors,
                            ClosedUnderParent, MayArchive, HasActiveDependents
<1>6. CASE Loaded(r)
  <2>1. PICK w \in Work : work' = [work EXCEPT ![r] = w] /\ w.old = Committed(w.id)
    BY <1>6 DEF Loaded
  <2>2. work'[r] = w /\ pc'[r] = "loaded"
    BY <1>4, <1>6, <2>1 DEF Loaded
  <2> QED BY <1>4, <2>1, <2>2 DEF Committed
<1>7. CASE Wrote(r)
  <2>1. pc[r] = "loaded" /\ Valid(work[r], NewVersion(work[r])) /\ work[r] \in Work
        /\ work'[r] = [work[r] EXCEPT !.row = NewVersion(work[r])]
    BY <1>4, <1>7 DEF Wrote, TxnInv, WorkTyped
  <2> DEFINE row == NewVersion(work[r])
  <2> HIDE DEF row
  <2>2. /\ work'[r].row = row /\ work'[r].id = work[r].id /\ work'[r].old = work[r].old
    BY <2>1 DEF Work, row
  <2>3. Valid(work[r], row)
    BY <2>1 DEF row
  <2> QED BY <1>4, <2>1, <2>2, <2>3 DEF StaysCurrent, Committed, Valid, ValidUnit, Ancestors,
                            ClosedUnderParent, MayArchive, HasActiveDependents
<1> QED BY <1>2, <1>5, <1>6, <1>7

\* With one connection a commit is a serial step unless the actor's authority or the
\* assignee's standing lapsed after the statement that checked it.
THEOREM OneConnectionIsSerial ==
  ASSUME \A r, s \in Requests : r = s
  PROVE  TxnSpec => SerialUnlessLapsed
<1> DEFINE Serial ==
      \/ Next \/ UNCHANGED structureVars
      \/ \E r \in Requests : Commit(r) /\ ~StillAllowed(work[r])
<1>1. TxnInit => StaysCurrent
  BY DEF TxnInit, StaysCurrent
<1>2. OverlapInv /\ StaysCurrent /\ [TxnNext]_txnVars => StaysCurrent'
  BY StaysCurrentStep
<1>3. ASSUME OverlapInv, StaysCurrent, [TxnNext]_txnVars  PROVE Serial
  <2>1. ASSUME NEW r \in Requests, Commit(r), StillAllowed(work[r])  PROVE Next
    <3>1. pc[r] = "audited" /\ work[r].id \in UnitIds \union AssignmentIds
      BY <1>3, <2>1 DEF Commit, OverlapInv, TxnInv, WorkTyped, Work
    <3>2. /\ CanWrite(work[r].tenant, work[r].actor)
          /\ work[r].old # NoRow => Committed(work[r].id) = work[r].old
          /\ work[r].id \in UnitIds => Valid(work[r], work[r].row)
          /\ work[r].id \in AssignmentIds => ValidAssignment(work[r].row)
      BY <1>3, <2>1, <3>1 DEF StaysCurrent, StillAllowed, Validated
    <3>3. StillCurrent(work[r])
      BY <3>1, <3>2 DEF StillCurrent, Valid
    <3> QED BY <1>3, <2>1, <3>3, UnitCommitIsSerial, AssignmentCommitIsSerial
  <2> QED BY <1>3, <2>1, SerialOrCommit
<1>4. OverlapInv /\ StaysCurrent /\ [TxnNext]_txnVars => [Serial]_txnVars
  BY <1>3
<1> HIDE DEF Serial
<1>5. TxnSpec => [][Serial]_txnVars
  BY <1>1, <1>2, <1>4, OverlapInvariance, PTL DEF TxnSpec
<1> QED BY <1>5, PTL DEF SerialUnlessLapsed, Serial

-----------------------------------------------------------------------------
(* Which overlap ties units into a cycle. *)

\* A move that is past its trigger is still clear of the hierarchy above its target.
MoveClear ==
  \A r \in Requests :
    Moving(r) /\ work[r].row.parent # Top => work[r].id \notin Ancestors(work[r].row.parent)

\* The recursive query from a unit stays in the unit's tenant and finds units only.
LEMMA AncestorsInTenant ==
  ASSUME UnitIntegrityMirrors, ParentInTenant, TypeOK, NEW p \in UnitIds, units[p] # NoRow
  PROVE  \A x \in Ancestors(p) : units[x] # NoRow /\ units[x].tenant = units[p].tenant
<1> DEFINE S == {x \in UnitIds : units[x] # NoRow /\ units[x].tenant = units[p].tenant}
<1>1. p \in S
  OBVIOUS
<1>2. ClosedUnderParent(S)
  <2> SUFFICES ASSUME NEW x \in S, unitIntegrity[x].parent # Top
               PROVE  unitIntegrity[x].parent \in S
    BY DEF ClosedUnderParent
  <2>1. units[x] # NoRow /\ units[x].tenant = units[p].tenant /\ units[x] \in UnitRow
    BY DEF TypeOK
  <2>2. unitIntegrity[x] = [tenant |-> units[x].tenant, parent |-> units[x].parent,
                            status |-> units[x].status]
    BY <2>1 DEF UnitIntegrityMirrors
  <2>3. units[x].parent \in UnitIds
    BY <2>1, <2>2 DEF UnitRow
  <2> QED BY <2>1, <2>2, <2>3 DEF ParentInTenant
<1> HIDE DEF S
<1>3. \A x \in Ancestors(p) : x \in S
  BY <1>1, <1>2 DEF Ancestors, S
<1> QED BY <1>3 DEF S

\* What is above p grows by no step that gives no unit above p a new parent.
LEMMA AncestorsKept ==
  ASSUME TypeOK, NEW p \in UnitIds, NEW u \in UnitIds, u \notin Ancestors(p),
         \A x \in Ancestors(p) :
           unitIntegrity'[x] # NoRow => /\ unitIntegrity[x] # NoRow
                                        /\ unitIntegrity'[x].parent = unitIntegrity[x].parent
  PROVE  u \notin Ancestors(p)'
<1> DEFINE above == Ancestors(p)
<1>1. above \in SUBSET UnitIds /\ p \in above
  BY DEF Ancestors
<1>2. ASSUME NEW x \in above, unitIntegrity[x] # NoRow, unitIntegrity[x].parent # Top
      PROVE  unitIntegrity[x].parent \in above
  <2>1. unitIntegrity[x].parent \in UnitIds
    BY <1>1, <1>2 DEF TypeOK, IntegrityRow
  <2>2. \A S \in SUBSET UnitIds :
          p \in S /\ ClosedUnderParent(S) => unitIntegrity[x].parent \in S
    BY <1>2 DEF Ancestors, ClosedUnderParent
  <2> QED BY <2>1, <2>2 DEF Ancestors
<1>3. \A x \in above : unitIntegrity'[x] # NoRow /\ unitIntegrity'[x].parent # Top
                         => unitIntegrity'[x].parent \in above
  BY <1>2
<1>4. u \notin above
  OBVIOUS
<1> HIDE DEF above
<1> QED BY <1>1, <1>3, <1>4 DEF Ancestors, ClosedUnderParent

\* The version of a request that moves no unit has the committed parent.
LEMMA ParentKeptUnlessMoved ==
  ASSUME TxnInv, NEW r \in Requests, Validated(r), work[r].id \in UnitIds,
         work[r].old # NoRow, ~Moving(r)
  PROVE  work[r].row.parent = units[work[r].id].parent
<1>1. work[r].old \in UnitRow /\ work[r].new \in UnitRow
  BY DEF TxnInv, WorkTyped, RowsOf, Validated
<1>2. work[r].new.parent = work[r].old.parent
  BY DEF Moving
<1> QED BY <1>1, <1>2 DEF TxnInv, VersionMerged, Validated, Committed, UnitRow

\* The target of a validated move and all units above it are units of its tenant.
LEMMA TargetInTenant ==
  ASSUME OverlapInv, ParentInTenant, NEW r \in Requests, Validated(r), work[r].id \in UnitIds,
         work[r].row.parent # Top
  PROVE  /\ work[r].row.parent \in UnitIds
         /\ \A x \in Ancestors(work[r].row.parent) :
              units[x] # NoRow /\ units[x].tenant = work[r].tenant
<1>1. work[r].row \in UnitRow
  BY DEF OverlapInv, TxnInv, WorkTyped, RowsOf, Validated
<1>2. /\ work[r].row.parent \in UnitIds /\ units[work[r].row.parent] # NoRow
      /\ units[work[r].row.parent].tenant = work[r].tenant
  BY <1>1 DEF OverlapInv, VersionPlaced, PlacedIn, UnitRow, TenantKept, Validated
<1> QED BY <1>2, AncestorsInTenant DEF OverlapInv, TxnInv, TxnTypeOK

\* The commit of a version: a new unit is no one's parent yet, and a unit
\* with another parent than before has been moved, clear of what is above its target.
LEMMA AcyclicCommit ==
  ASSUME OverlapInv, Acyclic, MoveClear, NEW r \in Requests, Commit(r),
         work[r].id \in UnitIds
  PROVE  Acyclic'
<1> USE DEF OverlapInv
<1> DEFINE u == work[r].id
           row == work[r].row
<1>1. /\ pc[r] = "audited" /\ row \in RowsOf(u) /\ row # NoRow /\ row.tenant = work[r].tenant
      /\ units[u] # NoRow => units[u].tenant = work[r].tenant
  BY CommitKeepsTenants DEF Committed
<1>2. /\ units' = [units EXCEPT ![u] = row]
      /\ unitIntegrity' = [unitIntegrity EXCEPT ![u] =
           [tenant |-> row.tenant, parent |-> row.parent, status |-> row.status]]
      /\ \A s \in Requests : pc'[s] = IF s = r THEN "idle" ELSE pc[s]
      /\ \A s \in Requests : work'[s] = IF s = r THEN NoRow ELSE work[s]
  BY CommitShape DEF Commit, WriteUnit, SyncUnit
<1>3. TypeOK /\ UnitIntegrityMirrors /\ ParentInTenant
  BY OverlapParents DEF TxnInv, TxnTypeOK
<1>4. Validated(r) /\ u \in UnitIds /\ (work[r].old = NoRow => units[u] = NoRow)
      /\ (work[r].old # NoRow => units[u] # NoRow)
  BY <1>1 DEF Validated, FreshIds, Committed, TxnInv, WorkTyped
<1>5. CASE units[u] # NoRow /\ row.parent = units[u].parent
  <2>1. \A x \in UnitIds : /\ (units'[x] = NoRow) = (units[x] = NoRow)
                          /\ units'[x].parent = units[x].parent
    BY <1>1, <1>2, <1>3, <1>5 DEF TypeOK
  <2> QED BY <2>1 DEF Acyclic
<1>6. CASE ~(units[u] # NoRow /\ row.parent = units[u].parent)
  <2>1. row.parent # Top => u \notin Ancestors(row.parent)
    <3>1. CASE units[u] = NoRow
      BY <1>3, <1>4, <3>1, TargetInTenant
    <3>2. CASE units[u] # NoRow
      <4>1. Moving(r)
        BY <1>4, <1>6, <3>2, ParentKeptUnlessMoved
      <4> QED BY <4>1 DEF MoveClear
    <3> QED BY <3>1, <3>2
  <2> HIDE DEF u, row
  <2> QED BY <1>2, <1>3, <1>4, <2>1, AcyclicWrite
<1> QED BY <1>5, <1>6

LEMMA MoveClearCommit ==
  ASSUME OverlapInv, MoveClear, MovesExclude, NEW r \in Requests, Commit(r),
         work[r].id \in UnitIds
  PROVE  MoveClear'
<1> USE DEF OverlapInv
<1> DEFINE u == work[r].id
           row == work[r].row
<1>1. /\ pc[r] = "audited" /\ row \in RowsOf(u) /\ row # NoRow
      /\ units[u] # NoRow => units[u].tenant = work[r].tenant
  BY CommitKeepsTenants DEF Committed
<1>2. /\ unitIntegrity' = [unitIntegrity EXCEPT ![u] =
           [tenant |-> row.tenant, parent |-> row.parent, status |-> row.status]]
      /\ \A s \in Requests : pc'[s] = IF s = r THEN "idle" ELSE pc[s]
      /\ \A s \in Requests : work'[s] = IF s = r THEN NoRow ELSE work[s]
  BY CommitShape DEF Commit, WriteUnit, SyncUnit
<1>3. TypeOK /\ UnitIntegrityMirrors /\ ParentInTenant
  BY OverlapParents DEF TxnInv, TxnTypeOK
<1>4. Validated(r) /\ (work[r].old # NoRow => units[u] # NoRow)
  BY <1>1 DEF Validated, Committed, TxnInv, WorkTyped
<1> SUFFICES ASSUME NEW s \in Requests, Moving(s)', work'[s].row.parent # Top
             PROVE  (work[s].id \notin Ancestors(work[s].row.parent))'
  BY DEF MoveClear
<1>5. /\ s # r /\ work'[s] = work[s] /\ Validated(s) /\ Moving(s)
      /\ work[s].id \in UnitIds /\ work[s].row.parent # Top
  BY <1>2 DEF Moving, Validated
<1>. PICK p, v : p = work[s].row.parent /\ v = work[s].id
  OBVIOUS
<1>6. /\ p \in UnitIds
      /\ \A x \in Ancestors(p) : units[x] # NoRow /\ units[x].tenant = work[s].tenant
  BY <1>3, <1>5, TargetInTenant
<1>7. v \notin Ancestors(p)
  BY <1>5 DEF MoveClear
<1>8. \A x \in UnitIds : units[x] # NoRow =>
        unitIntegrity[x] # NoRow /\ unitIntegrity[x].parent = units[x].parent
  <2> SUFFICES ASSUME NEW x \in UnitIds, units[x] # NoRow
               PROVE  unitIntegrity[x] # NoRow /\ unitIntegrity[x].parent = units[x].parent
    OBVIOUS
  <2>1. units[x] \in UnitRow
    BY <1>3 DEF TypeOK
  <2>2. unitIntegrity[x] = [tenant |-> units[x].tenant, parent |-> units[x].parent,
                            status |-> units[x].status]
    BY <1>3 DEF UnitIntegrityMirrors
  <2>3. unitIntegrity[x] \in IntegrityRow
    BY <2>1, <2>2 DEF UnitRow, IntegrityRow
  <2> QED BY <2>2, <2>3, NoOrganizationRowAssumption
<1>9. u \in Ancestors(p) => row.parent = units[u].parent
  <2> SUFFICES ASSUME u \in Ancestors(p), Moving(r)  PROVE FALSE
    BY <1>4, <1>6, ParentKeptUnlessMoved, <1>1 DEF FreshIds, Committed
  <2>1. work[r].tenant = work[s].tenant
    BY <1>1, <1>6
  <2> QED BY <1>5, <2>1 DEF MovesExclude
<1> HIDE DEF u, row
<1>10. \A x \in Ancestors(p) :
         unitIntegrity[x] # NoRow /\ unitIntegrity'[x].parent = unitIntegrity[x].parent
  <2> SUFFICES ASSUME NEW x \in Ancestors(p)
               PROVE  unitIntegrity[x] # NoRow /\ unitIntegrity'[x].parent = unitIntegrity[x].parent
    OBVIOUS
  <2>1. x \in UnitIds
    BY DEF Ancestors
  <2>2. units[x] # NoRow /\ unitIntegrity[x] # NoRow /\ unitIntegrity[x].parent = units[x].parent
    BY <1>6, <1>8, <2>1
  <2> QED BY <1>2, <1>3, <1>9, <2>1, <2>2 DEF TypeOK
<1>11. v \notin Ancestors(p)'
  BY <1>3, <1>5, <1>6, <1>7, <1>10, AncestorsKept
<1> QED BY <1>5, <1>11 DEF Ancestors, ClosedUnderParent

\* A trigger that accepts a move has looked at every committed unit.
LEMMA TreeQuietStep ==
  ASSUME OverlapInv, Acyclic, MoveClear,
         \/ Keeps
         \/ \E r \in Requests : Loaded(r) \/ Wrote(r)
  PROVE  Acyclic' /\ MoveClear'
<1> USE DEF OverlapInv
<1>1. UNCHANGED tableVars
  BY DEF Keeps, Loaded, Wrote, structureVars
<1>2. /\ units' = units /\ unitIntegrity' = unitIntegrity
      /\ pc \in [Requests -> Phases] /\ work \in [Requests -> Work \union {NoRow}]
  BY <1>1 DEF tableVars, TxnInv, TxnTypeOK
<1>3. Acyclic'
  BY <1>2 DEF Acyclic
<1>4. MoveClear'
  <2> SUFFICES ASSUME NEW q \in Requests, Moving(q)', work'[q].row.parent # Top
               PROVE  (work[q].id \notin Ancestors(work[q].row.parent))'
    BY DEF MoveClear
  <2>1. pc'[q] \in {"written", "flushed", "audited"} /\ work'[q].id \in UnitIds
    BY DEF Moving, Validated
  <2>2. SUFFICES work'[q].id \notin Ancestors(work'[q].row.parent)
    BY <1>2 DEF Ancestors, ClosedUnderParent
  <2>3. CASE work'[q] = work[q] /\ Validated(q)
    <3>1. Moving(q)
      BY <2>3 DEF Moving, Validated
    <3> QED BY <2>3, <3>1 DEF MoveClear
  <2>4. CASE Wrote(q)
    <3>1. pc[q] = "loaded" /\ work[q] \in Work /\ Valid(work[q], NewVersion(work[q]))
          /\ work'[q] = [work[q] EXCEPT !.row = NewVersion(work[q])]
      BY <1>2, <2>4 DEF Wrote, TxnInv, WorkTyped
    <3> DEFINE row == NewVersion(work[q])
    <3>2. Valid(work[q], row)
      BY <3>1
    <3>3. work'[q].row = row /\ work'[q].id = work[q].id
      BY <3>1 DEF Work
    <3> HIDE DEF row
    <3> QED BY <2>1, <3>2, <3>3 DEF Valid, ValidUnit
  <2>5. CASE Keeps
    BY <2>1, <2>3, <2>5 DEF Keeps, Validated
  <2>6. ASSUME NEW r \in Requests, Loaded(r) \/ Wrote(r)  PROVE (work'[q] = work[q] /\ Validated(q)) \/ Wrote(q)
    BY <1>2, <2>1, <2>6 DEF Loaded, Wrote, Validated
  <2> QED BY <2>3, <2>4, <2>5, <2>6
<1> QED BY <1>3, <1>4

\* The commit of an assignment leaves the units alone.
LEMMA TreeAssignmentCommit ==
  ASSUME OverlapInv, Acyclic, MoveClear, NEW r \in Requests, Commit(r), work[r].id \notin UnitIds
  PROVE  Acyclic' /\ MoveClear'
<1>1. /\ units' = units /\ unitIntegrity' = unitIntegrity
      /\ \A s \in Requests : pc'[s] = IF s = r THEN "idle" ELSE pc[s]
      /\ \A s \in Requests : work'[s] = IF s = r THEN NoRow ELSE work[s]
  BY CommitShape DEF OverlapInv, Commit, WriteAssignment
<1>2. Acyclic'
  BY <1>1 DEF Acyclic
<1>3. MoveClear'
  <2> SUFFICES ASSUME NEW q \in Requests, Moving(q)', work'[q].row.parent # Top
               PROVE  (work[q].id \notin Ancestors(work[q].row.parent))'
    BY DEF MoveClear
  <2>1. Moving(q) /\ work'[q] = work[q]
    BY <1>1 DEF Moving, Validated
  <2>2. work[q].id \notin Ancestors(work[q].row.parent)
    BY <2>1 DEF MoveClear
  <2> QED BY <1>1, <2>1, <2>2 DEF Ancestors, ClosedUnderParent
<1> QED BY <1>2, <1>3

LEMMA TreeStep ==
  ASSUME OverlapInv, Acyclic, MoveClear, MovesExclude, [TxnNext]_txnVars
  PROVE  Acyclic' /\ MoveClear'
BY TxnStepShapes, TreeQuietStep, TreeAssignmentCommit, AcyclicCommit, MoveClearCommit DEF OverlapInv

LEMMA TreeInit ==
  ASSUME TxnInit
  PROVE  Acyclic /\ MoveClear
<1>1. Acyclic
  BY DEF TxnInit, Init, Acyclic
<1>2. MoveClear
  BY DEF TxnInit, MoveClear, Moving, Validated
<1> QED BY <1>1, <1>2

\* Two overlapping moves of one tenant are the only way to a cycle: creations,
\* updates and archives may overlap with each other and with one move.
THEOREM OnlyOverlappingMovesTieCycles == TxnSpec /\ []MovesExclude => []Acyclic
<1>1. TxnInit => OverlapInv /\ Acyclic /\ MoveClear
  BY OverlapInitInv, TreeInit
<1>2. (OverlapInv /\ Acyclic /\ MoveClear) /\ MovesExclude /\ [TxnNext]_txnVars
        => (OverlapInv /\ Acyclic /\ MoveClear)'
  BY OverlapInvStep, TreeStep
<1> QED BY <1>1, <1>2, PTL DEF TxnSpec

\* Without the move endpoint there is no cycle, however much overlaps.
THEOREM NoMovesNoCycle ==
  ASSUME "move_unit" \notin Offered
  PROVE  TxnSpec => []Acyclic
<1>1. ASSUME OverlapInv  PROVE MovesExclude
  <2> SUFFICES ASSUME NEW r \in Requests, Moving(r)  PROVE FALSE
    BY DEF MovesExclude
  <2>1. /\ OneEdit(work[r]) /\ work[r].old # NoRow /\ work[r].id \in UnitIds
        /\ work[r].old \in UnitRow
    BY <1>1 DEF OverlapInv, EditsOne, Moving, Validated, TxnInv, WorkTyped, RowsOf
  <2>2. work[r].new.parent = work[r].old.parent
    BY <2>1 DEF OneEdit, UnitRow
  <2> QED BY <2>2 DEF Moving
<1>2. TxnSpec => []MovesExclude
  BY <1>1, OverlapInvariance, PTL
<1> QED BY <1>2, OnlyOverlappingMovesTieCycles, PTL

-----------------------------------------------------------------------------
(* Which overlap leaves an active row on an archived unit. *)

\* Units that validated versions stand on are active, and the unit of a validated
\* archive has no active dependents.
ArchiveClear ==
  /\ \A r \in Requests, u \in UnitIds : DependsOn(r, u) => units[u].status = "active"
  /\ \A r \in Requests :
       Archiving(r) /\ units[work[r].id].status = "active" => ~HasActiveDependents(work[r].id)

ArchiveInv ==
  /\ OverlapInv
  /\ NoActiveBelowArchived
  /\ ActiveAssignmentOnActiveUnit
  /\ ArchiveClear

\* A commit that archives a unit is the commit of a validated archive.
LEMMA ArchivedByArchive ==
  ASSUME OverlapInv, NEW r \in Requests, Validated(r), work[r].id \in UnitIds,
         units[work[r].id] # NoRow, units[work[r].id].status = "active",
         work[r].row.status # "active"
  PROVE  Archiving(r)
<1>1. /\ work[r].row \in UnitRow /\ work[r].new \in UnitRow
      /\ work[r].old \in UnitRow \union {NoRow}
  BY DEF OverlapInv, TxnInv, WorkTyped, RowsOf, Validated
<1>2. work[r].old # NoRow
  BY DEF OverlapInv, FreshIds, Committed, Validated
<1>3. work[r].row.status = IF work[r].new.status = work[r].old.status
                           THEN units[work[r].id].status ELSE work[r].new.status
  BY <1>1, <1>2 DEF OverlapInv, TxnInv, VersionMerged, Validated, Committed, UnitRow
<1>4. work[r].new.status # work[r].old.status /\ work[r].new.status # "active"
  BY <1>3
<1> QED BY <1>1, <1>2, <1>4 DEF Archiving, UnitRow

\* What a validated version stands on is one of its own table's or another's unit.
LEMMA VersionStands ==
  ASSUME OverlapInv, NEW r \in Requests, Validated(r)
  PROVE  /\ work[r].row \in RowsOf(work[r].id)
         /\ work[r].id \in UnitIds => work[r].row.parent \in UnitIds \union {Top}
         /\ work[r].id \notin UnitIds => /\ work[r].row.unit \in UnitIds
                                         /\ units[work[r].row.unit] # NoRow
                                         /\ units[work[r].row.unit].tenant = work[r].row.tenant
<1>1. work[r].row \in RowsOf(work[r].id)
  BY DEF OverlapInv, TxnInv, WorkTyped, Validated
<1> QED BY <1>1 DEF OverlapInv, VersionPlaced, PlacedIn, RowsOf, UnitRow, AssignmentRow

\* The commit of a unit's version.
LEMMA ArchiveUnitCommit ==
  ASSUME ArchiveInv, ArchivesExclude, NEW r \in Requests, Commit(r), work[r].id \in UnitIds
  PROVE  NoActiveBelowArchived' /\ ActiveAssignmentOnActiveUnit' /\ ArchiveClear'
<1> USE DEF ArchiveInv, OverlapInv
<1> DEFINE u == work[r].id
           row == work[r].row
<1>1. /\ pc[r] = "audited" /\ row \in UnitRow /\ row # NoRow /\ row.tenant = work[r].tenant
      /\ units[u] # NoRow => units[u].tenant = work[r].tenant
      /\ \A x \in UnitIds : units[x] # NoRow => units'[x] # NoRow /\ units'[x].tenant = units[x].tenant
  BY CommitKeepsTenants DEF Committed, RowsOf
<1>2. /\ units' = [units EXCEPT ![u] = row] /\ assignments' = assignments
      /\ \A s \in Requests : pc'[s] = IF s = r THEN "idle" ELSE pc[s]
      /\ \A s \in Requests : work'[s] = IF s = r THEN NoRow ELSE work[s]
  BY CommitShape DEF Commit, WriteUnit
<1>3. TypeOK /\ ParentInTenant
  BY OverlapParents DEF TxnInv, TxnTypeOK
<1>4. \A x \in UnitIds : units'[x] = IF x = u THEN row ELSE units[x]
  BY <1>2, <1>3 DEF TypeOK
<1>5. Validated(r)
  BY <1>1 DEF Validated
<1>6. ASSUME units[u] # NoRow, units[u].status = "active", row.status # "active"
      PROVE  /\ ~HasActiveDependents(u)
             /\ \A s \in Requests : ~DependsOn(s, u)
  <2>1. Archiving(r)
    BY <1>5, <1>6, ArchivedByArchive
  <2> QED BY <1>6, <2>1 DEF ArchiveClear, ArchivesExclude
<1>7. ASSUME NEW x \in UnitIds, DependsOn(r, x)
      PROVE  row.status = "active" /\ row.parent = x /\ units[x].status = "active"
  BY <1>7 DEF DependsOn, ArchiveClear
<1>8. row.status = "active" /\ row.parent # Top => DependsOn(r, row.parent) /\ row.parent \in UnitIds
  BY <1>1, <1>5 DEF DependsOn, UnitRow
<1>9. \A s \in Requests : Validated(s)' =>
        s # r /\ Validated(s) /\ work'[s] = work[s] /\ work[s].id # u
  BY <1>1, <1>2 DEF Validated, TxnInv, OneWriterPerRow, HoldsRow
<1>10. NoActiveBelowArchived'
  <2> SUFFICES ASSUME NEW x \in UnitIds, units'[x] # NoRow, units'[x].status = "active",
                      units'[x].parent # Top
               PROVE  units'[units'[x].parent].status = "active"
    BY DEF NoActiveBelowArchived
  <2>1. CASE x = u
    BY <1>4, <1>7, <1>8, <2>1
  <2>2. CASE x # u
    <3>1. units'[x] = units[x] /\ units[x] # NoRow
      BY <1>4, <2>2
    <3>2. /\ units[x].parent \in UnitIds /\ units[units[x].parent].status = "active"
          /\ units[units[x].parent] # NoRow
      BY <1>3, <3>1 DEF NoActiveBelowArchived, ParentInTenant, TypeOK, UnitRow
    <3>3. CASE units[x].parent = u
      <4>1. HasActiveDependents(u)
        BY <3>1, <3>3 DEF HasActiveDependents
      <4>2. row.status = "active"
        BY <1>6, <3>2, <3>3, <4>1
      <4> QED BY <1>4, <3>1, <3>3, <4>2
    <3>4. CASE units[x].parent # u
      BY <1>4, <3>1, <3>2, <3>4
    <3> QED BY <3>3, <3>4
  <2> QED BY <2>1, <2>2
<1>11. ActiveAssignmentOnActiveUnit'
  <2> SUFFICES ASSUME NEW a \in AssignmentIds, assignments[a] # NoRow,
                      assignments[a].status = "active"
               PROVE  /\ units'[assignments[a].unit] # NoRow
                      /\ units'[assignments[a].unit].tenant = assignments[a].tenant
                      /\ units'[assignments[a].unit].status = "active"
    BY <1>2 DEF ActiveAssignmentOnActiveUnit
  <2> DEFINE x == assignments[a].unit
  <2>1. x \in UnitIds
    BY <1>3 DEF TypeOK, AssignmentRow
  <2>2. units[x] # NoRow /\ units[x].tenant = assignments[a].tenant /\ units[x].status = "active"
    BY DEF ActiveAssignmentOnActiveUnit
  <2>3. x = u => HasActiveDependents(u)
    BY DEF HasActiveDependents
  <2>4. x = u => row.status = "active"
    BY <1>6, <2>2, <2>3
  <2> HIDE DEF x, u, row
  <2>5. units'[x].status = "active"
    BY <1>4, <2>1, <2>2, <2>4
  <2> QED BY <1>1, <2>1, <2>2, <2>5 DEF x
<1>12. ASSUME NEW s \in Requests, NEW x \in UnitIds, DependsOn(s, x)'
       PROVE  units'[x].status = "active"
  <2>1. DependsOn(s, x)
    BY <1>9, <1>12 DEF DependsOn, Validated
  <2>2. units[x].status = "active"
    BY <2>1 DEF ArchiveClear
  <2>3. units[x] # NoRow
    BY <2>1, TopAssumption, VersionStands DEF DependsOn, VersionPlaced, PlacedIn
  <2> QED BY <1>4, <1>6, <2>1, <2>2, <2>3
<1>13. ASSUME NEW s \in Requests, Archiving(s)', units'[work'[s].id].status = "active"
       PROVE  ~HasActiveDependents(work[s].id)'
  <2> DEFINE v == work[s].id
  <2>1. Archiving(s) /\ work'[s] = work[s] /\ v \in UnitIds /\ v # u
    BY <1>9, <1>13 DEF Archiving, Validated
  <2>2. ~HasActiveDependents(v)
    BY <1>4, <1>13, <2>1 DEF ArchiveClear
  <2>3. ~DependsOn(r, v)
    BY <2>1 DEF ArchivesExclude
  <2>4. ~(row.status = "active" /\ row.parent = v)
    BY <1>5, <2>3 DEF DependsOn
  <2> HIDE DEF row, u
  <2> QED BY <1>2, <1>4, <2>1, <2>2, <2>4 DEF HasActiveDependents
<1>14. ArchiveClear'
  BY <1>12, <1>13 DEF ArchiveClear
<1> QED BY <1>10, <1>11, <1>14

\* The commit of an assignment's version.
LEMMA ArchiveAssignmentCommit ==
  ASSUME ArchiveInv, ArchivesExclude, NEW r \in Requests, Commit(r), work[r].id \notin UnitIds
  PROVE  NoActiveBelowArchived' /\ ActiveAssignmentOnActiveUnit' /\ ArchiveClear'
<1> USE DEF ArchiveInv, OverlapInv
<1> DEFINE b == work[r].id
           row == work[r].row
<1>1. /\ Validated(r) /\ row \in AssignmentRow /\ b \in AssignmentIds
  BY CommitKeepsTenants DEF Validated, RowsOf
<1>2. /\ units' = units /\ assignments' = [assignments EXCEPT ![b] = row]
      /\ \A s \in Requests : pc'[s] = IF s = r THEN "idle" ELSE pc[s]
      /\ \A s \in Requests : work'[s] = IF s = r THEN NoRow ELSE work[s]
  BY CommitShape DEF Commit, WriteAssignment
<1>3. \A a \in AssignmentIds : assignments'[a] = IF a = b THEN row ELSE assignments[a]
  BY <1>2 DEF TxnInv, TxnTypeOK, TypeOK
<1>4. row.status = "active" => DependsOn(r, row.unit)
  BY <1>1 DEF DependsOn
<1>5. /\ row.unit \in UnitIds /\ units[row.unit] # NoRow
      /\ units[row.unit].tenant = row.tenant
  BY <1>1, VersionStands
<1>6. \A s \in Requests : Validated(s)' => s # r /\ Validated(s) /\ work'[s] = work[s]
  BY <1>2 DEF Validated
<1>7. NoActiveBelowArchived'
  BY <1>2 DEF NoActiveBelowArchived
<1>8. ActiveAssignmentOnActiveUnit'
  <2> SUFFICES ASSUME NEW a \in AssignmentIds, assignments'[a] # NoRow,
                      assignments'[a].status = "active"
               PROVE  /\ units[assignments'[a].unit] # NoRow
                      /\ units[assignments'[a].unit].tenant = assignments'[a].tenant
                      /\ units[assignments'[a].unit].status = "active"
    BY <1>2 DEF ActiveAssignmentOnActiveUnit
  <2>1. CASE a = b
    BY <1>3, <1>4, <1>5, <2>1 DEF ArchiveClear
  <2>2. CASE a # b
    BY <1>3, <2>2 DEF ActiveAssignmentOnActiveUnit
  <2> QED BY <2>1, <2>2
<1>9. ASSUME NEW s \in Requests, NEW x \in UnitIds, DependsOn(s, x)'
      PROVE  units'[x].status = "active"
  <2>1. DependsOn(s, x)
    BY <1>6, <1>9 DEF DependsOn, Validated
  <2> QED BY <1>2, <2>1 DEF ArchiveClear
<1>10. ASSUME NEW s \in Requests, Archiving(s)', units'[work'[s].id].status = "active"
       PROVE  ~HasActiveDependents(work[s].id)'
  <2> DEFINE v == work[s].id
  <2>1. Archiving(s) /\ work'[s] = work[s]
    BY <1>6, <1>10 DEF Archiving, Validated
  <2>2. ~HasActiveDependents(v)
    BY <1>2, <1>10, <2>1 DEF ArchiveClear
  <2>3. ~(row.status = "active" /\ row.unit = v)
    BY <1>4, <2>1 DEF ArchivesExclude
  <2> HIDE DEF row, b
  <2> QED BY <1>2, <1>3, <2>1, <2>2, <2>3 DEF HasActiveDependents
<1>11. ArchiveClear'
  BY <1>9, <1>10 DEF ArchiveClear
<1> QED BY <1>7, <1>8, <1>11

\* What the triggers accept stands on active units, and what they archive has no
\* active dependents.
LEMMA WroteArchives ==
  ASSUME ArchiveInv, NEW r \in Requests, Wrote(r)
  PROVE  LET row == NewVersion(work[r]) IN
         /\ row.status = "active" =>
              IF work[r].id \in UnitIds
              THEN row.parent # Top => units[row.parent].status = "active"
              ELSE units[row.unit].status = "active"
         /\ work[r].id \in UnitIds /\ work[r].old # NoRow
              => MayArchive(work[r].id, units[work[r].id], row)
<1> DEFINE w == work[r]
           row == NewVersion(w)
<1> USE DEF ArchiveInv, OverlapInv
<1>1. Valid(w, row)
  BY DEF Wrote
<1>2. row \in RowsOf(w.id)
  BY WrotePlaced
<1> HIDE DEF w, row
<1>3. \A x \in UnitIds : unitIntegrity[x] # NoRow => unitIntegrity[x].status = units[x].status
  <2> SUFFICES ASSUME NEW x \in UnitIds, unitIntegrity[x] # NoRow
               PROVE  unitIntegrity[x].status = units[x].status
    OBVIOUS
  <2>1. unitIntegrity[x] = IF units[x] = NoRow THEN NoRow
                           ELSE [tenant |-> units[x].tenant, parent |-> units[x].parent,
                                 status |-> units[x].status]
    BY DEF TxnInv, UnitIntegrityMirrors
  <2> QED BY <2>1
<1>4. \A x \in UnitIds : unitIntegrity[x] # NoRow => unitIntegrity[x].status \in {"active", "archived"}
  BY DEF TxnInv, TxnTypeOK, TypeOK, IntegrityRow
<1>5. CASE w.id \in UnitIds
  <2>1. row \in UnitRow /\ ValidUnit(w.id, row)
        /\ (w.old # NoRow => MayArchive(w.id, units[w.id], row))
    BY <1>1, <1>2, <1>5 DEF Valid, RowsOf
  <2>2. row.parent # Top => row.parent \in UnitIds
    BY <2>1 DEF UnitRow
  <2>3. row.status = "active" /\ row.parent # Top => units[row.parent].status = "active"
    BY <1>3, <1>4, <2>1, <2>2 DEF ValidUnit
  <2> QED BY <1>5, <2>1, <2>3 DEF w, row
<1>6. CASE w.id \notin UnitIds
  <2>1. row \in AssignmentRow /\ ValidAssignment(row)
    BY <1>1, <1>2, <1>6 DEF Valid, RowsOf
  <2>2. row.status = "active" => units[row.unit].status = "active"
    BY <1>3, <2>1 DEF ValidAssignment, AssignmentRow
  <2> QED BY <1>6, <2>2 DEF w, row
<1> QED BY <1>5, <1>6

LEMMA ArchiveQuietStep ==
  ASSUME ArchiveInv,
         \/ Keeps
         \/ \E r \in Requests : Loaded(r) \/ Wrote(r)
  PROVE  NoActiveBelowArchived' /\ ActiveAssignmentOnActiveUnit' /\ ArchiveClear'
<1> USE DEF ArchiveInv, OverlapInv
<1>1. UNCHANGED tableVars
  BY DEF Keeps, Loaded, Wrote, structureVars
<1>2. /\ units' = units /\ assignments' = assignments
      /\ pc \in [Requests -> Phases] /\ work \in [Requests -> Work \union {NoRow}]
  BY <1>1 DEF tableVars, TxnInv, TxnTypeOK
<1>3. NoActiveBelowArchived' /\ ActiveAssignmentOnActiveUnit'
  BY <1>2 DEF NoActiveBelowArchived, ActiveAssignmentOnActiveUnit
<1>4. ASSUME NEW q \in Requests, Validated(q)'
      PROVE  (work'[q] = work[q] /\ Validated(q)) \/ Wrote(q)
  <2>1. CASE Keeps
    BY <1>4, <2>1 DEF Keeps, Validated
  <2>2. ASSUME NEW r \in Requests, Loaded(r) \/ Wrote(r)
        PROVE  (work'[q] = work[q] /\ Validated(q)) \/ Wrote(q)
    BY <1>2, <1>4, <2>2 DEF Loaded, Wrote, Validated
  <2> QED BY <2>1, <2>2
<1>5. ASSUME NEW q \in Requests, Wrote(q), NEW row, row = NewVersion(work[q])
      PROVE  /\ work'[q].row = row /\ work'[q].id = work[q].id
             /\ work'[q].old = work[q].old /\ work'[q].new = work[q].new
             /\ row.status = "active" =>
                  IF work[q].id \in UnitIds
                  THEN row.parent # Top => units[row.parent].status = "active"
                  ELSE units[row.unit].status = "active"
             /\ work[q].id \in UnitIds /\ work[q].old # NoRow
                  => MayArchive(work[q].id, units[work[q].id], row)
  <2>1. work[q] \in Work /\ work'[q] = [work[q] EXCEPT !.row = row]
    BY <1>2, <1>5 DEF Wrote, TxnInv, WorkTyped
  <2> QED BY <1>5, <2>1, WroteArchives DEF Work
<1>6. ASSUME NEW q \in Requests, NEW x \in UnitIds, DependsOn(q, x)'
      PROVE  units'[x].status = "active"
  <2>1. Validated(q)' /\ work'[q].row.status = "active"
        /\ IF work'[q].id \in UnitIds THEN work'[q].row.parent = x ELSE work'[q].row.unit = x
    BY <1>6 DEF DependsOn
  <2>2. CASE work'[q] = work[q] /\ Validated(q)
    BY <1>2, <2>1, <2>2 DEF ArchiveClear, DependsOn
  <2>3. CASE Wrote(q)
    BY <1>2, <1>5, <2>1, <2>3, TopAssumption
  <2> QED BY <1>4, <2>1, <2>2, <2>3
<1>7. ASSUME NEW q \in Requests, Archiving(q)', units'[work'[q].id].status = "active"
      PROVE  ~HasActiveDependents(work[q].id)'
  <2>1. SUFFICES ~HasActiveDependents(work'[q].id)
    BY <1>2 DEF HasActiveDependents
  <2>2. Validated(q)'
    BY <1>7 DEF Archiving
  <2>3. CASE work'[q] = work[q] /\ Validated(q)
    BY <1>2, <1>7, <2>3 DEF ArchiveClear, Archiving
  <2>4. CASE Wrote(q)
    <3> DEFINE row == NewVersion(work[q])
    <3>1. work[q].id \in UnitIds /\ work[q].old # NoRow /\ work[q].new.status = "archived"
          /\ work[q].old.status = "active"
      BY <1>5, <1>7, <2>4 DEF Archiving
    <3>2. row.status = "archived"
      <4>1. work[q].new \in UnitRow
        BY <2>4, <3>1 DEF Wrote, TxnInv, WorkTyped, RowsOf
      <4> QED BY <3>1, <4>1 DEF NewVersion, UnitRow
    <3>3. MayArchive(work[q].id, units[work[q].id], row)
      BY <1>5, <2>4, <3>1
    <3>4. units[work[q].id].status = "active" /\ work'[q].id = work[q].id
      BY <1>2, <1>5, <1>7, <2>4
    <3> QED BY <3>2, <3>3, <3>4 DEF MayArchive
  <2> QED BY <1>4, <2>2, <2>3, <2>4
<1>8. ArchiveClear'
  BY <1>6, <1>7 DEF ArchiveClear
<1> QED BY <1>3, <1>8

LEMMA ArchiveStep ==
  ASSUME ArchiveInv, ArchivesExclude, [TxnNext]_txnVars
  PROVE  ArchiveInv'
<1>1. OverlapInv /\ OverlapInv'
  BY OverlapInvStep DEF ArchiveInv
<1> QED BY <1>1, TxnStepShapes, ArchiveQuietStep, ArchiveUnitCommit, ArchiveAssignmentCommit
        DEF ArchiveInv, OverlapInv

LEMMA ArchiveInit == TxnInit => ArchiveInv
<1> SUFFICES ASSUME TxnInit PROVE ArchiveInv
  OBVIOUS
<1>1. NoActiveBelowArchived /\ ActiveAssignmentOnActiveUnit
  BY DEF TxnInit, Init, NoActiveBelowArchived, ActiveAssignmentOnActiveUnit
<1>2. ArchiveClear
  BY DEF TxnInit, ArchiveClear, DependsOn, Archiving, Validated
<1> QED BY <1>1, <1>2, OverlapInitInv DEF ArchiveInv

\* An active unit or assignment gets onto an archived unit only when the archive of that
\* unit and the write of the active row are both past their triggers
\* (prevent_organization_archive, validate_organization_unit, ..._assignment).
THEOREM OnlyOverlappingArchivesStray ==
  TxnSpec => /\ StrayUnitsNeedOverlap
             /\ []ArchivesExclude => []ActiveAssignmentOnActiveUnit
<1>1. ArchiveInv /\ ArchivesExclude /\ [TxnNext]_txnVars => ArchiveInv'
  BY ArchiveStep
<1>2. ArchiveInv => NoActiveBelowArchived /\ ActiveAssignmentOnActiveUnit
  BY DEF ArchiveInv
<1> QED BY <1>1, <1>2, ArchiveInit, PTL DEF TxnSpec, StrayUnitsNeedOverlap

\* One connection has neither overlap: the triggers then keep the hierarchy whole,
\* whatever administrators change between the steps of its request.
THEOREM OneConnectionKeepsHierarchy ==
  ASSUME \A r, s \in Requests : r = s
  PROVE  TxnSpec => [](Acyclic /\ NoActiveBelowArchived /\ ActiveAssignmentOnActiveUnit)
<1>1. MovesExclude
  BY DEF MovesExclude
<1>2. ASSUME OverlapInv  PROVE ArchivesExclude
  <2> SUFFICES ASSUME NEW r \in Requests, Archiving(r), DependsOn(r, work[r].id)  PROVE FALSE
    BY DEF ArchivesExclude
  <2>1. /\ Validated(r) /\ work[r].id \in UnitIds /\ work[r].old # NoRow
        /\ work[r].new.status = "archived" /\ work[r].old.status = "active"
        /\ work[r].row.status = "active"
    BY DEF Archiving, DependsOn
  <2>2. work[r].new \in UnitRow
    BY <1>2, <2>1 DEF OverlapInv, TxnInv, WorkTyped, RowsOf, Validated
  <2> QED BY <1>2, <2>1, <2>2 DEF OverlapInv, TxnInv, VersionMerged, Validated, UnitRow
<1>3. TxnSpec => []MovesExclude /\ []ArchivesExclude
  BY <1>1, <1>2, OverlapInvariance, PTL
<1> QED BY <1>3, OnlyOverlappingMovesTieCycles, OnlyOverlappingArchivesStray, PTL
        DEF StrayUnitsNeedOverlap

-----------------------------------------------------------------------------
(* Beside the directory. *)

\* However many requests of the structure overlap, they leave users, memberships and
\* projections alone: what holds of the directory holds beside them.
THEOREM TxnImplementsDirectory == TxnSpec => DirectorySpec
<1>1. TxnInit => DirectoryInit
  BY DEF TxnInit, Init
<1>2. ASSUME NEW r \in Requests,
             \/ Load(r) \/ WriteRow(r) \/ EnterIndexes(r) \/ InsertAudit(r) \/ Commit(r)
             \/ Abort(r) \/ DeadlockVictim(r)
      PROVE  UNCHANGED directoryVars
  <2>1. UNCHANGED structureVars => UNCHANGED directoryVars
    BY DEF structureVars
  <2>2. CASE Load(r)
    BY <2>1, <2>2, LoadIsQuiet
  <2>3. CASE WriteRow(r) \/ EnterIndexes(r) \/ InsertAudit(r) \/ Abort(r) \/ DeadlockVictim(r)
    BY <2>1, <2>3 DEF WriteRow, EnterIndexes, InsertAudit, Abort, DeadlockVictim, Advance, Drop
  <2>4. CASE Commit(r)
    BY <2>4 DEF Commit
  <2> QED BY <1>2, <2>2, <2>3, <2>4
<1>3. [TxnNext]_txnVars => [DirectoryNext]_directoryVars
  BY <1>2 DEF TxnNext, Administer, DirectoryChange, txnVars, structureVars
<1> QED BY <1>1, <1>3, PTL DEF TxnSpec, DirectorySpec

\* So organization_member_directory() lists the active members and nobody else, and
\* the assignment trigger reads exact projections, while requests overlap.
THEOREM MembersListedUnderOverlap ==
  TxnSpec => [](UserDirectoryMirrors /\ MemberDirectoryMirrors /\ DirectoryListsActiveMembers)
BY TxnImplementsDirectory, ProjectionsMirror, DirectoryExact, PTL
=============================================================================
