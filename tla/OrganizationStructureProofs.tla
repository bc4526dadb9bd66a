-------------------- MODULE OrganizationStructureProofs --------------------
(***************************************************************************)
(* What the serial specification guarantees for every set of tenants,      *)
(* users, units, assignments and codes.                                    *)
(***************************************************************************)
EXTENDS OrganizationStructure, MemberDirectoryProofs

\* The inductive invariant.  UnitIntegrityMirrors and ParentInTenant tie what the
\* triggers read to the table; the other conjuncts need both.
StructureInv ==
  /\ TypeOK
  /\ UnitIntegrityMirrors
  /\ ParentInTenant
  /\ Acyclic
  /\ NoActiveBelowArchived
  /\ ActiveAssignmentOnActiveUnit
  /\ CodesUnique
  /\ PlacesUnique

-----------------------------------------------------------------------------
(* The shapes of a step. *)

HasWriter(t) == \E actor \in Users : CanWrite(t, actor)

\* A request that writes one version of unit u.
UnitStep(u, row) ==
  /\ row \in UnitRow /\ HasWriter(row.tenant)
  /\ units[u] # NoRow => row.tenant = units[u].tenant /\ MayArchive(u, units[u], row)
  /\ InsertUnit(u, row)

\* A request that writes one version of assignment a.
AssignmentStep(a, row) ==
  row \in AssignmentRow /\ HasWriter(row.tenant) /\ PutAssignment(a, row)

\* Every request writes one row, of the right type and in a tenant that its actor
\* may write; an existing unit keeps its tenant and passes the archive guard.
LEMMA StepShapes ==
  ASSUME TypeOK, Next
  PROVE  \/ \E u \in UnitIds, row \in UnitRow : UnitStep(u, row)
         \/ \E a \in AssignmentIds, row \in AssignmentRow : AssignmentStep(a, row)
         \/ DirectoryChange
<1> USE NoOrganizationRowAssumption
<1>1. ASSUME NEW actor \in Users, NEW t \in Tenants, UnitRequest(actor, t)
      PROVE  \E u \in UnitIds, row \in UnitRow : UnitStep(u, row)
  <2>1. PICK u \in UnitIds :
          \/ \E parent \in UnitIds \union {Top}, code \in Codes :
               CreateUnit(actor, t, u, parent, code)
          \/ \E code \in Codes : UpdateUnit(actor, t, u, code)
          \/ \E parent \in UnitIds \union {Top} : MoveUnit(actor, t, u, parent)
          \/ ArchiveUnit(actor, t, u)
          \/ RestoreUnit(actor, t, u)
    BY <1>1 DEF UnitRequest
  <2>2. CASE \E parent \in UnitIds \union {Top}, code \in Codes :
               CreateUnit(actor, t, u, parent, code)
    <3>1. PICK parent \in UnitIds \union {Top}, code \in Codes :
            CreateUnit(actor, t, u, parent, code)
      BY <2>2
    <3> DEFINE row == [tenant |-> t, parent |-> parent, code |-> code, status |-> "active"]
    <3>2. row \in UnitRow /\ row.tenant = t
      BY DEF UnitRow
    <3>3. units[u] = NoRow /\ InsertUnit(u, row) /\ CanWrite(t, actor)
      BY <3>1 DEF CreateUnit
    <3> HIDE DEF row
    <3> QED BY <3>2, <3>3 DEF UnitStep, HasWriter
  <2>3. ASSUME NEW row \in UnitRow, CanWrite(t, actor), FoundUnit(t, u),
               row.tenant = units[u].tenant, ReplaceUnit(u, row)
        PROVE  \E x \in UnitIds, y \in UnitRow : UnitStep(x, y)
    BY <2>3 DEF UnitStep, ReplaceUnit, HasWriter, FoundUnit
  <2>4. units[u] # NoRow => units[u] \in UnitRow
    BY DEF TypeOK
  <2>5. CASE \E code \in Codes : UpdateUnit(actor, t, u, code)
    <3>1. PICK code \in Codes : UpdateUnit(actor, t, u, code)
      BY <2>5
    <3>2. [units[u] EXCEPT !.code = code] \in UnitRow
      BY <3>1, <2>4 DEF UpdateUnit, FoundUnit, UnitRow
    <3> QED BY <3>1, <3>2, <2>3, <2>4 DEF UpdateUnit, FoundUnit, UnitRow
  <2>6. CASE \E parent \in UnitIds \union {Top} : MoveUnit(actor, t, u, parent)
    <3>1. PICK parent \in UnitIds \union {Top} : MoveUnit(actor, t, u, parent)
      BY <2>6
    <3>2. [units[u] EXCEPT !.parent = parent] \in UnitRow
      BY <3>1, <2>4 DEF MoveUnit, FoundUnit, UnitRow
    <3> QED BY <3>1, <3>2, <2>3, <2>4 DEF MoveUnit, FoundUnit, UnitRow
  <2>7. CASE ArchiveUnit(actor, t, u)
    <3>1. [units[u] EXCEPT !.status = "archived"] \in UnitRow
      BY <2>7, <2>4 DEF ArchiveUnit, FoundUnit, UnitRow
    <3> QED BY <2>7, <3>1, <2>3, <2>4 DEF ArchiveUnit, FoundUnit, UnitRow
  <2>8. CASE RestoreUnit(actor, t, u)
    <3>1. [units[u] EXCEPT !.status = "active"] \in UnitRow
      BY <2>8, <2>4 DEF RestoreUnit, FoundUnit, UnitRow
    <3> QED BY <2>8, <3>1, <2>3, <2>4 DEF RestoreUnit, FoundUnit, UnitRow
  <2> QED BY <2>1, <2>2, <2>5, <2>6, <2>7, <2>8
<1>2. ASSUME NEW actor \in Users, NEW t \in Tenants, AssignmentRequest(actor, t)
      PROVE  \E a \in AssignmentIds, row \in AssignmentRow : AssignmentStep(a, row)
  <2>1. PICK a \in AssignmentIds, primary \in BOOLEAN :
          \/ \E unit \in UnitIds, user \in Users :
               CreateAssignment(actor, t, a, unit, user, primary)
          \/ \E status \in {"active", "inactive"} : UpdateAssignment(actor, t, a, primary, status)
    BY <1>2 DEF AssignmentRequest
  <2>2. CASE \E unit \in UnitIds, user \in Users :
               CreateAssignment(actor, t, a, unit, user, primary)
    <3>1. PICK unit \in UnitIds, user \in Users :
            CreateAssignment(actor, t, a, unit, user, primary)
      BY <2>2
    <3> DEFINE row == [tenant |-> t, unit |-> unit, user |-> user, primary |-> primary,
                       status |-> "active"]
    <3>2. row \in AssignmentRow /\ row.tenant = t
      BY DEF AssignmentRow
    <3>3. PutAssignment(a, row) /\ CanWrite(t, actor)
      BY <3>1 DEF CreateAssignment
    <3> HIDE DEF row
    <3> QED BY <3>2, <3>3 DEF AssignmentStep, HasWriter
  <2>3. CASE \E status \in {"active", "inactive"} : UpdateAssignment(actor, t, a, primary, status)
    <3>1. PICK status \in {"active", "inactive"} : UpdateAssignment(actor, t, a, primary, status)
      BY <2>3
    <3>2. assignments[a] \in AssignmentRow
      BY <3>1 DEF TypeOK, UpdateAssignment, FoundAssignment
    <3> DEFINE row == [assignments[a] EXCEPT !.primary = primary, !.status = status]
    <3>3. row \in AssignmentRow /\ row.tenant = assignments[a].tenant
      BY <3>2 DEF AssignmentRow
    <3>4. PutAssignment(a, row) /\ CanWrite(assignments[a].tenant, actor)
      BY <3>1 DEF UpdateAssignment, FoundAssignment
    <3> HIDE DEF row
    <3> QED BY <3>3, <3>4 DEF AssignmentStep, HasWriter
  <2> QED BY <2>1, <2>2, <2>3
<1> QED BY <1>1, <1>2 DEF Next

-----------------------------------------------------------------------------
(* Type correctness. *)

\* A request keeps every table well typed.
LEMMA TypeStep ==
  ASSUME TypeOK, Next
  PROVE  TypeOK'
<1>1. ASSUME NEW u \in UnitIds, NEW row \in UnitRow, UnitStep(u, row)  PROVE TypeOK'
  <2>1. [tenant |-> row.tenant, parent |-> row.parent, status |-> row.status] \in IntegrityRow
    BY DEF UnitRow, IntegrityRow
  <2>2. DirectoryTypeOK'
    BY <1>1 DEF UnitStep, InsertUnit, TypeOK, DirectoryTypeOK, directoryVars
  <2>3. units' = [units EXCEPT ![u] = row] /\ unitTrail' = [unitTrail EXCEPT ![u] = row]
        /\ UNCHANGED <<assignments, assignmentTrail>>
    BY <1>1 DEF UnitStep, InsertUnit, WriteUnit, RecordUnit
  <2>4. unitIntegrity' = [unitIntegrity EXCEPT ![u] =
          [tenant |-> row.tenant, parent |-> row.parent, status |-> row.status]]
    BY <1>1 DEF UnitStep, InsertUnit, WriteUnit, SyncUnit
  <2>5. unitIntegrity' \in [UnitIds -> IntegrityRow \union {NoRow}]
    BY <2>1, <2>4 DEF TypeOK
  <2> QED BY <2>2, <2>3, <2>5 DEF TypeOK
<1>2. ASSUME NEW a \in AssignmentIds, NEW row \in AssignmentRow, AssignmentStep(a, row)
      PROVE  TypeOK'
  <2>1. DirectoryTypeOK'
    BY <1>2 DEF AssignmentStep, PutAssignment, TypeOK, DirectoryTypeOK, directoryVars
  <2> QED BY <1>2, <2>1 DEF AssignmentStep, PutAssignment, WriteAssignment, RecordAssignment, TypeOK
<1>3. ASSUME DirectoryChange  PROVE TypeOK'
  BY <1>3, DirectoryTypeStep DEF DirectoryChange, TypeOK, tableVars, trailVars
<1> QED BY <1>1, <1>2, <1>3, StepShapes

-----------------------------------------------------------------------------
(* The unit tree. *)

\* What a unit step does to the two unit tables, and the checks it has passed.
LEMMA UnitStepFacts ==
  ASSUME TypeOK, NEW u \in UnitIds, NEW row \in UnitRow, UnitStep(u, row)
  PROVE  /\ units' = [units EXCEPT ![u] = row]
         /\ unitIntegrity' = [unitIntegrity EXCEPT ![u] =
              [tenant |-> row.tenant, parent |-> row.parent, status |-> row.status]]
         /\ assignments' = assignments
         /\ ValidUnit(u, row) /\ CodeFree(u, row)
         /\ row # NoRow
         /\ row.parent # Top => row.parent \in UnitIds
         /\ units[u] # NoRow => row.tenant = units[u].tenant /\ MayArchive(u, units[u], row)
<1>1. row # NoRow /\ (row.parent # Top => row.parent \in UnitIds)
  BY NoOrganizationRowAssumption DEF UnitRow
<1> QED BY <1>1 DEF UnitStep, InsertUnit, WriteUnit, SyncUnit

\* The AFTER trigger carries every version of a unit into the projection.
LEMMA MirrorStep ==
  ASSUME TypeOK, UnitIntegrityMirrors, NEW u \in UnitIds, NEW row \in UnitRow, UnitStep(u, row)
  PROVE  UnitIntegrityMirrors'
<1>1. SUFFICES ASSUME NEW x \in UnitIds
               PROVE  unitIntegrity'[x] =
                        IF units'[x] = NoRow THEN NoRow
                        ELSE [tenant |-> units'[x].tenant, parent |-> units'[x].parent,
                              status |-> units'[x].status]
  BY DEF UnitIntegrityMirrors
<1>2. CASE x = u
  BY <1>2, UnitStepFacts DEF TypeOK
<1>3. CASE x # u
  BY <1>3, UnitStepFacts DEF TypeOK, UnitIntegrityMirrors
<1> QED BY <1>2, <1>3

\* A unit's new parent, if any, is another unit with a row of the same tenant.
LEMMA NewParent ==
  ASSUME TypeOK, UnitIntegrityMirrors, NEW u \in UnitIds, NEW row \in UnitRow, UnitStep(u, row),
         row.parent # Top
  PROVE  /\ row.parent \in UnitIds \ {u}
         /\ units[row.parent] # NoRow
         /\ units[row.parent].tenant = row.tenant
         /\ units[row.parent].status = "archived" => row.status # "active"
         /\ u \notin Ancestors(row.parent)
<1>1. /\ row.parent \in UnitIds \ {u}
      /\ unitIntegrity[row.parent] # NoRow
      /\ unitIntegrity[row.parent].tenant = row.tenant
      /\ unitIntegrity[row.parent].status = "archived" => row.status # "active"
      /\ u \notin Ancestors(row.parent)
  BY UnitStepFacts DEF ValidUnit
<1>2. units[row.parent] # NoRow
      /\ unitIntegrity[row.parent] =
           [tenant |-> units[row.parent].tenant, parent |-> units[row.parent].parent,
            status |-> units[row.parent].status]
  BY <1>1 DEF UnitIntegrityMirrors
<1> QED BY <1>1, <1>2

\* The foreign key: no step leaves a child in another tenant than its parent.
LEMMA ParentStep ==
  ASSUME TypeOK, UnitIntegrityMirrors, ParentInTenant,
         NEW u \in UnitIds, NEW row \in UnitRow, UnitStep(u, row)
  PROVE  ParentInTenant'
<1>1. SUFFICES ASSUME NEW x \in UnitIds, units'[x] # NoRow, units'[x].parent # Top
               PROVE  /\ units'[units'[x].parent] # NoRow
                      /\ units'[units'[x].parent].tenant = units'[x].tenant
  BY DEF ParentInTenant
<1> USE UnitStepFacts DEF TypeOK
<1>2. CASE x = u
  BY <1>1, <1>2, NewParent
<1>3. CASE x # u
  <2>1. units'[x] = units[x]
    BY <1>3
  <2>2. units[units[x].parent] # NoRow /\ units[units[x].parent].tenant = units[x].tenant
    BY <2>1, <1>1 DEF ParentInTenant
  <2>3. CASE units[x].parent = u
    BY <2>1, <2>2, <2>3
  <2>4. CASE units[x].parent # u
    <3>1. units[x].parent \in UnitIds
      BY <2>1, <1>1 DEF UnitRow
    <3>2. units'[units[x].parent] = units[units[x].parent]
      BY <2>4, <3>1
    <3> QED BY <2>1, <2>2, <3>2
  <2> QED BY <2>3, <2>4
<1> QED BY <1>2, <1>3

\* The recursive query finds every cycle a new parent would close: if a set of
\* units closed under parent appeared, its part above the new parent would have
\* been closed before.
LEMMA AcyclicWrite ==
  ASSUME TypeOK, UnitIntegrityMirrors, Acyclic,
         NEW u \in UnitIds, NEW row, units' = [units EXCEPT ![u] = row],
         row.parent # Top => u \notin Ancestors(row.parent)
  PROVE  Acyclic'
<1>1. SUFFICES ASSUME NEW S \in SUBSET UnitIds, S # {},
                      \A x \in S : units'[x] # NoRow /\ units'[x].parent \in S
               PROVE  FALSE
  BY DEF Acyclic
<1>2. \A x \in UnitIds : x # u => units'[x] = units[x]
  BY DEF TypeOK
<1>3. CASE u \notin S
  <2>1. \A x \in S : units[x] # NoRow /\ units[x].parent \in S
    BY <1>1, <1>2, <1>3
  <2> QED BY <2>1, <1>1 DEF Acyclic
<1>4. CASE u \in S
  <2> DEFINE p == row.parent
             T == S \intersect Ancestors(p)
  <2>1. p \in S
    BY <1>1, <1>4 DEF TypeOK
  <2>2. p # Top
    BY <2>1, TopAssumption
  <2>3. u \notin Ancestors(p)
    BY <2>2
  <2>4. p \in T
    BY <2>1 DEF Ancestors
  <2>5. ASSUME NEW x \in T
        PROVE  units[x] # NoRow /\ units[x].parent \in T
    <3>1. units[x] # NoRow /\ units[x].parent \in S
      BY <2>3, <2>5, <1>1, <1>2
    <3>2. unitIntegrity[x] # NoRow /\ unitIntegrity[x].parent = units[x].parent
      <4>1. unitIntegrity[x] = [tenant |-> units[x].tenant, parent |-> units[x].parent,
                                status |-> units[x].status]
        BY <3>1 DEF UnitIntegrityMirrors
      <4>2. units[x] \in UnitRow
        BY <3>1 DEF TypeOK
      <4>3. unitIntegrity[x] \in IntegrityRow
        BY <4>1, <4>2 DEF UnitRow, IntegrityRow
      <4> QED BY <4>1, <4>3, NoOrganizationRowAssumption
    <3>3. ASSUME NEW C \in SUBSET UnitIds, p \in C, ClosedUnderParent(C)
          PROVE  units[x].parent \in C
      <4>1. x \in C
        BY <2>5, <3>3 DEF Ancestors
      <4> QED BY <4>1, <3>1, <3>2, <3>3, TopAssumption DEF ClosedUnderParent
    <3>4. units[x].parent \in Ancestors(p)
      BY <3>1, <3>3 DEF Ancestors
    <3> QED BY <3>1, <3>4
  <2>6. T \in SUBSET UnitIds /\ T # {}
    BY <2>4
  <2> HIDE DEF T
  <2> QED BY <2>5, <2>6 DEF Acyclic
<1> QED BY <1>3, <1>4

LEMMA AcyclicStep ==
  ASSUME TypeOK, UnitIntegrityMirrors, Acyclic,
         NEW u \in UnitIds, NEW row \in UnitRow, UnitStep(u, row)
  PROVE  Acyclic'
BY UnitStepFacts, NewParent, AcyclicWrite

\* An active unit gets no archived parent: validate_organization_unit guards the
\* child's side, prevent_organization_archive the parent's.
LEMMA ArchivedStep ==
  ASSUME TypeOK, UnitIntegrityMirrors, ParentInTenant, NoActiveBelowArchived,
         NEW u \in UnitIds, NEW row \in UnitRow, UnitStep(u, row)
  PROVE  NoActiveBelowArchived'
<1>1. SUFFICES ASSUME NEW x \in UnitIds, units'[x] # NoRow, units'[x].status = "active",
                      units'[x].parent # Top
               PROVE  units'[units'[x].parent].status = "active"
  BY DEF NoActiveBelowArchived
<1>2. \A y \in UnitIds : units'[y] = IF y = u THEN row ELSE units[y]
  BY UnitStepFacts DEF TypeOK
<1>3. \A y \in UnitIds : units[y] # NoRow => units[y].status \in {"active", "archived"}
  BY DEF TypeOK, UnitRow
<1>4. CASE x = u
  BY <1>1, <1>2, <1>3, <1>4, NewParent
<1>5. CASE x # u
  <2>1. units[x] # NoRow /\ units'[x] = units[x]
    BY <1>1, <1>2, <1>5
  <2> DEFINE p == units[x].parent
  <2>2. p \in UnitIds
    BY <2>1, <1>1 DEF TypeOK, UnitRow
  <2>3. units[p] # NoRow /\ units[p].status = "active"
    BY <2>1, <1>1 DEF ParentInTenant, NoActiveBelowArchived
  <2>4. CASE p # u
    BY <2>1, <2>2, <2>3, <2>4, <1>2
  <2>5. CASE p = u
    <3>1. HasActiveDependents(u)
      BY <2>1, <2>5, <1>1 DEF HasActiveDependents
    <3>2. row.status # "archived"
      BY <3>1, <2>3, <2>5, UnitStepFacts DEF MayArchive
    <3> QED BY <3>2, <2>1, <2>5, <1>2 DEF UnitRow
  <2> QED BY <2>4, <2>5
<1> QED BY <1>4, <1>5

\* Nor does a unit step leave an active assignment on an archived unit.
LEMMA PlacedStep ==
  ASSUME TypeOK, ActiveAssignmentOnActiveUnit,
         NEW u \in UnitIds, NEW row \in UnitRow, UnitStep(u, row)
  PROVE  ActiveAssignmentOnActiveUnit'
<1>1. SUFFICES ASSUME NEW a \in AssignmentIds, assignments[a] # NoRow,
                      assignments[a].status = "active"
               PROVE  /\ units'[assignments[a].unit] # NoRow
                      /\ units'[assignments[a].unit].tenant = assignments[a].tenant
                      /\ units'[assignments[a].unit].status = "active"
  BY UnitStepFacts DEF ActiveAssignmentOnActiveUnit
<1> DEFINE x == assignments[a].unit
<1>2. x \in UnitIds
  BY <1>1 DEF TypeOK, AssignmentRow
<1>3. units[x] # NoRow /\ units[x].tenant = assignments[a].tenant /\ units[x].status = "active"
  BY <1>1 DEF ActiveAssignmentOnActiveUnit
<1>4. CASE x # u
  BY <1>2, <1>3, <1>4, UnitStepFacts DEF TypeOK
<1>5. CASE x = u
  <2>1. HasActiveDependents(u)
    BY <1>1, <1>5 DEF HasActiveDependents
  <2>2. row.status = "active"
    BY <2>1, <1>3, <1>5, UnitStepFacts DEF MayArchive, UnitRow
  <2> QED BY <2>2, <1>2, <1>3, <1>5, UnitStepFacts DEF TypeOK
<1> QED BY <1>4, <1>5

\* The unique index on codes.
LEMMA CodesStep ==
  ASSUME TypeOK, CodesUnique, NEW u \in UnitIds, NEW row \in UnitRow, UnitStep(u, row)
  PROVE  CodesUnique'
<1>1. \A y \in UnitIds : units'[y] = IF y = u THEN row ELSE units[y]
  BY UnitStepFacts DEF TypeOK
<1>2. \A y \in UnitIds \ {u} : ~SameCode(row, units[y])
  BY UnitStepFacts DEF CodeFree
<1>3. SUFFICES ASSUME NEW x \in UnitIds, NEW y \in UnitIds, x # y, units'[x] # NoRow
               PROVE  ~SameCode(units'[x], units'[y])
  BY DEF CodesUnique, SameCode
<1>4. CASE x = u
  BY <1>1, <1>2, <1>3, <1>4
<1>5. CASE y = u
  BY <1>1, <1>2, <1>3, <1>5 DEF SameCode
<1>6. CASE x # u /\ y # u
  BY <1>1, <1>3, <1>6 DEF CodesUnique
<1> QED BY <1>4, <1>5, <1>6

-----------------------------------------------------------------------------
(* Assignments. *)

\* A new version of an assignment leaves active assignments on active units, and
\* the two partial indexes without a clash.
LEMMA AssignmentStepPreserves ==
  ASSUME TypeOK, UnitIntegrityMirrors, ActiveAssignmentOnActiveUnit, PlacesUnique,
         NEW a \in AssignmentIds, NEW row \in AssignmentRow, AssignmentStep(a, row)
  PROVE  ActiveAssignmentOnActiveUnit' /\ PlacesUnique'
<1>1. /\ \A x \in AssignmentIds : assignments'[x] = IF x = a THEN row ELSE assignments[x]
      /\ units' = units
      /\ ValidAssignment(row)
      /\ \A x \in AssignmentIds \ {a} : ~SamePlace(row, assignments[x])
  BY DEF AssignmentStep, PutAssignment, WriteAssignment, PlaceFree, TypeOK
<1>2. ActiveAssignmentOnActiveUnit'
  <2>1. SUFFICES ASSUME NEW x \in AssignmentIds, assignments'[x] # NoRow,
                        assignments'[x].status = "active"
                 PROVE  LET unit == units[assignments'[x].unit] IN
                        /\ unit # NoRow /\ unit.tenant = assignments'[x].tenant
                        /\ unit.status = "active"
    BY <1>1 DEF ActiveAssignmentOnActiveUnit
  <2>2. CASE x # a
    BY <1>1, <2>1, <2>2 DEF ActiveAssignmentOnActiveUnit
  <2>3. CASE x = a
    <3>1. /\ row.unit \in UnitIds
          /\ unitIntegrity[row.unit] # NoRow
          /\ unitIntegrity[row.unit].tenant = row.tenant
          /\ unitIntegrity[row.unit].status = "active"
      BY <1>1, <2>1, <2>3 DEF ValidAssignment, AssignmentRow
    <3>2. /\ units[row.unit] # NoRow
          /\ unitIntegrity[row.unit] =
               [tenant |-> units[row.unit].tenant, parent |-> units[row.unit].parent,
                status |-> units[row.unit].status]
      BY <3>1 DEF UnitIntegrityMirrors
    <3>3. units[row.unit].tenant = row.tenant /\ units[row.unit].status = "active"
      BY <3>1, <3>2
    <3> QED BY <3>2, <3>3, <1>1, <2>3
  <2> QED BY <2>2, <2>3
<1>3. PlacesUnique'
  <2>1. SUFFICES ASSUME NEW x \in AssignmentIds, NEW y \in AssignmentIds, x # y,
                        assignments'[x] # NoRow
                 PROVE  ~SamePlace(assignments'[x], assignments'[y])
    BY DEF PlacesUnique, SamePlace
  <2>2. CASE x = a
    BY <1>1, <2>1, <2>2
  <2>3. CASE y = a
    BY <1>1, <2>1, <2>3 DEF SamePlace
  <2>4. CASE x # a /\ y # a
    BY <1>1, <2>1, <2>4 DEF PlacesUnique
  <2> QED BY <2>2, <2>3, <2>4
<1> QED BY <1>2, <1>3

-----------------------------------------------------------------------------
(* The theorems. *)

LEMMA InitInv == Init => StructureInv
<1> SUFFICES ASSUME Init PROVE StructureInv
  OBVIOUS
<1>1. \A u \in UnitIds : units[u] = NoRow /\ unitIntegrity[u] = NoRow
  BY DEF Init
<1>2. \A a \in AssignmentIds : assignments[a] = NoRow
  BY DEF Init
<1>3. TypeOK
  BY DEF Init, DirectoryInit, TypeOK, DirectoryTypeOK
<1>4. Acyclic
  BY <1>1 DEF Acyclic
<1> QED BY <1>1, <1>2, <1>3, <1>4 DEF StructureInv, UnitIntegrityMirrors, ParentInTenant,
      NoActiveBelowArchived, ActiveAssignmentOnActiveUnit, CodesUnique, PlacesUnique

LEMMA InvStep == StructureInv /\ [Next]_structureVars => StructureInv'
<1> SUFFICES ASSUME StructureInv, [Next]_structureVars PROVE StructureInv'
  OBVIOUS
<1> USE DEF StructureInv
\* What depends on the organization tables alone survives a step that keeps them.
<1>1. ASSUME UNCHANGED tableVars
      PROVE  /\ UnitIntegrityMirrors' /\ ParentInTenant' /\ Acyclic' /\ NoActiveBelowArchived'
             /\ ActiveAssignmentOnActiveUnit' /\ CodesUnique' /\ PlacesUnique'
  BY <1>1 DEF tableVars, UnitIntegrityMirrors, ParentInTenant, Acyclic, NoActiveBelowArchived,
     ActiveAssignmentOnActiveUnit, CodesUnique, PlacesUnique
<1>2. CASE Next
  <2>1. TypeOK'
    BY <1>2, TypeStep
  <2>2. ASSUME NEW u \in UnitIds, NEW row \in UnitRow, UnitStep(u, row)
        PROVE  StructureInv'
    <3>1. PlacesUnique'
      BY <2>2, UnitStepFacts DEF PlacesUnique
    <3> QED BY <2>1, <2>2, <3>1, MirrorStep, ParentStep, AcyclicStep, ArchivedStep, PlacedStep,
               CodesStep
  <2>3. ASSUME NEW a \in AssignmentIds, NEW row \in AssignmentRow, AssignmentStep(a, row)
        PROVE  StructureInv'
    <3>1. UNCHANGED <<units, unitIntegrity>>
      BY <2>3 DEF AssignmentStep, PutAssignment, WriteAssignment
    <3>2. /\ UnitIntegrityMirrors' /\ ParentInTenant' /\ Acyclic' /\ NoActiveBelowArchived'
          /\ CodesUnique'
      BY <3>1 DEF UnitIntegrityMirrors, ParentInTenant, Acyclic, NoActiveBelowArchived, CodesUnique
    <3> QED BY <2>1, <2>3, <3>2, AssignmentStepPreserves
  <2>4. CASE DirectoryChange
    BY <2>1, <2>4, <1>1 DEF DirectoryChange
  <2> QED BY <1>2, <2>2, <2>3, <2>4, StepShapes
<1>3. CASE UNCHANGED structureVars
  <2>1. TypeOK'
    BY <1>3 DEF structureVars, directoryVars, tableVars, trailVars, TypeOK, DirectoryTypeOK
  <2> QED BY <1>1, <1>3, <2>1 DEF structureVars
<1> QED BY <1>2, <1>3

\* The inductive invariant holds in every reachable state.
THEOREM Invariance == Spec => []StructureInv
<1> QED BY InitInv, InvStep, PTL DEF Spec

\* Every table holds rows of its type, whatever the constants.
THEOREM TypeCorrect == Spec => []TypeOK
<1>1. StructureInv => TypeOK
  BY DEF StructureInv
<1> QED BY <1>1, Invariance, PTL

\* Requests that run one after the other never tie units into a cycle, of any
\* length and in any number of tenants.
THEOREM NeverCyclic == Spec => []Acyclic
<1>1. StructureInv => Acyclic
  BY DEF StructureInv
<1> QED BY <1>1, Invariance, PTL

\* Nor do they leave an active unit under an archived parent.
THEOREM NeverActiveBelowArchived == Spec => []NoActiveBelowArchived
<1>1. StructureInv => NoActiveBelowArchived
  BY DEF StructureInv
<1> QED BY <1>1, Invariance, PTL

\* Nor an active assignment on an archived unit or on another tenant's.
THEOREM ActiveAssignmentsPlaced == Spec => []ActiveAssignmentOnActiveUnit
<1>1. StructureInv => ActiveAssignmentOnActiveUnit
  BY DEF StructureInv
<1> QED BY <1>1, Invariance, PTL

\* The parent of a unit is always a unit of its own tenant.
THEOREM HierarchyStaysInTenant == Spec => []ParentInTenant
<1>1. StructureInv => ParentInTenant
  BY DEF StructureInv
<1> QED BY <1>1, Invariance, PTL

\* No two units of a tenant share a code, and no user holds two active primary
\* assignments in a tenant or two active assignments on a unit.
THEOREM IndexesHold == Spec => [](CodesUnique /\ PlacesUnique)
<1>1. StructureInv => CodesUnique /\ PlacesUnique
  BY DEF StructureInv
<1> QED BY <1>1, Invariance, PTL

-----------------------------------------------------------------------------
(* The directory and the audit trail beside the structure. *)

\* The directory's own invariant and the agreement of trail and rows: neither
\* needs the other or the structure's invariant.
RecordInv == TypeOK /\ DirectoryInv /\ TrailMatchesRows

LEMMA InitRecordInv == Init => RecordInv
<1> SUFFICES ASSUME Init PROVE RecordInv
  OBVIOUS
<1>1. TypeOK
  BY DEF Init, DirectoryInit, TypeOK, DirectoryTypeOK
<1>2. DirectoryInv
  BY DirectoryInitInv DEF Init
<1>3. TrailMatchesRows
  BY DEF Init, TrailMatchesRows
<1> QED BY <1>1, <1>2, <1>3 DEF RecordInv

LEMMA RecordInvStep == RecordInv /\ [Next]_structureVars => RecordInv'
<1> SUFFICES ASSUME RecordInv, [Next]_structureVars PROVE RecordInv'
  OBVIOUS
<1> USE DEF RecordInv
<1>1. ASSUME UNCHANGED directoryVars  PROVE DirectoryInv'
  BY <1>1 DEF directoryVars, DirectoryInv, DirectoryTypeOK, UserDirectoryMirrors,
     MemberDirectoryMirrors
<1>2. CASE Next
  <2>1. TypeOK'
    BY <1>2, TypeStep
  <2>2. ASSUME NEW u \in UnitIds, NEW row \in UnitRow, UnitStep(u, row)
        PROVE  RecordInv'
    <3>1. DirectoryInv'
      BY <1>1, <2>2 DEF UnitStep, InsertUnit
    <3>2. TrailMatchesRows'
      BY <2>2 DEF UnitStep, InsertUnit, WriteUnit, RecordUnit, TrailMatchesRows
    <3> QED BY <2>1, <3>1, <3>2
  <2>3. ASSUME NEW a \in AssignmentIds, NEW row \in AssignmentRow, AssignmentStep(a, row)
        PROVE  RecordInv'
    <3>1. DirectoryInv'
      BY <1>1, <2>3 DEF AssignmentStep, PutAssignment
    <3>2. TrailMatchesRows'
      BY <2>3 DEF AssignmentStep, PutAssignment, WriteAssignment, RecordAssignment, TrailMatchesRows
    <3> QED BY <2>1, <3>1, <3>2
  <2>4. CASE DirectoryChange
    <3>1. DirectoryInv'
      BY <2>4, DirectoryInvStep DEF DirectoryChange
    <3>2. TrailMatchesRows'
      BY <2>4 DEF DirectoryChange, tableVars, trailVars, TrailMatchesRows
    <3> QED BY <2>1, <3>1, <3>2
  <2> QED BY <1>2, <2>2, <2>3, <2>4, StepShapes
<1>3. CASE UNCHANGED structureVars
  <2>1. TypeOK'
    BY <1>3 DEF structureVars, directoryVars, tableVars, trailVars, TypeOK, DirectoryTypeOK
  <2>2. DirectoryInv'
    BY <1>1, <1>3 DEF structureVars
  <2>3. TrailMatchesRows'
    BY <1>3 DEF structureVars, tableVars, trailVars, TrailMatchesRows
  <2> QED BY <2>1, <2>2, <2>3
<1> QED BY <1>2, <1>3

LEMMA RecordsInvariant == Spec => []RecordInv
<1> QED BY InitRecordInv, RecordInvStep, PTL DEF Spec

\* When requests do not overlap, the last audit event of every row reports the
\* row as it is.
THEOREM TrailExact == Spec => []TrailMatchesRows
<1>1. RecordInv => TrailMatchesRows
  BY DEF RecordInv
<1> QED BY <1>1, RecordsInvariant, PTL

\* The projections stay exact beside the structure's own transactions.
THEOREM MembersMirrored == Spec => []MemberDirectoryMirrors
<1>1. RecordInv => MemberDirectoryMirrors
  BY DEF RecordInv, DirectoryInv
<1> QED BY <1>1, RecordsInvariant, PTL

\* The trigger's look at the projection decides as a look at the tables would.
LEMMA ValidMeansActive ==
  ASSUME RecordInv, NEW row \in AssignmentRow, ValidAssignment(row), row.status = "active"
  PROVE  ActiveUser(row.user) /\ ActiveMember(row.tenant, row.user)
<1>1. row.tenant \in Tenants /\ row.user \in Users
  BY DEF AssignmentRow
<1> DEFINE member == memberDirectory[row.tenant][row.user]
<1>2. member # NoRow /\ member.membership = "active" /\ member.user = "active"
  BY DEF ValidAssignment
<1>3. /\ memberships[row.tenant][row.user] # NoRow
      /\ users[row.user] # NoRow
      /\ member = [name |-> users[row.user].name,
                   role |-> memberships[row.tenant][row.user].role,
                   membership |-> memberships[row.tenant][row.user].status,
                   user |-> users[row.user].status]
  BY <1>1, <1>2 DEF RecordInv, DirectoryInv, MemberDirectoryMirrors
<1>4. /\ memberships[row.tenant][row.user].status = "active"
      /\ users[row.user].status = "active"
  BY <1>2, <1>3
<1> QED BY <1>3, <1>4 DEF ActiveUser, ActiveMember

\* An assignment is activated for active users with an active membership only.
THEOREM ActivationChecked == Spec => ActivationNeedsActiveMember
<1> DEFINE Activation ==
      \A a \in AssignmentIds :
        /\ assignments'[a] # NoRow /\ assignments'[a].status = "active"
        /\ assignments[a] = NoRow \/ assignments[a].status = "inactive"
        => /\ ActiveUser(assignments'[a].user)
           /\ ActiveMember(assignments'[a].tenant, assignments'[a].user)
<1>1. ASSUME RecordInv, [Next]_structureVars  PROVE [Activation]_structureVars
  <2>1. SUFFICES ASSUME Next, NEW a \in AssignmentIds,
                        assignments'[a] # NoRow, assignments'[a].status = "active",
                        assignments[a] = NoRow \/ assignments[a].status = "inactive"
                 PROVE  /\ ActiveUser(assignments'[a].user)
                        /\ ActiveMember(assignments'[a].tenant, assignments'[a].user)
    BY <1>1
  <2>2. assignments'[a] # assignments[a]
    BY <2>1
  <2>3. PICK x \in AssignmentIds, row \in AssignmentRow : AssignmentStep(x, row)
    <3>1. ~ \E u \in UnitIds, row \in UnitRow : UnitStep(u, row)
      BY <2>2 DEF UnitStep, InsertUnit, WriteUnit
    <3>2. ~DirectoryChange
      BY <2>2 DEF DirectoryChange, tableVars
    <3> QED BY <1>1, <2>1, <3>1, <3>2, StepShapes DEF RecordInv
  <2>4. assignments' = [assignments EXCEPT ![x] = row] /\ ValidAssignment(row)
    BY <2>3 DEF AssignmentStep, PutAssignment, WriteAssignment
  <2>5. x = a /\ assignments'[a] = row
    BY <1>1, <2>2, <2>4 DEF RecordInv, TypeOK
  <2>6. row.status = "active"
    BY <2>1, <2>5
  <2> QED BY <1>1, <2>4, <2>5, <2>6, ValidMeansActive
<1>2. RecordInv /\ [Next]_structureVars => [Activation]_structureVars
  BY <1>1
<1> QED BY <1>2, RecordsInvariant, PTL DEF Spec, ActivationNeedsActiveMember

\* A changed row belongs to a tenant in which some user may write at that moment:
\* no request reaches into a tenant its actor is no writer of.
THEOREM ChangesInWritableTenants == Spec => ChangesStayInWritableTenants
<1> DEFINE Writable ==
      /\ \A u \in UnitIds : units'[u] # units[u] =>
           \E actor \in Users : CanWrite(units'[u].tenant, actor)
      /\ \A a \in AssignmentIds : assignments'[a] # assignments[a] =>
           \E actor \in Users : CanWrite(assignments'[a].tenant, actor)
<1>1. ASSUME TypeOK, Next  PROVE Writable
  <2>1. ASSUME NEW u \in UnitIds, NEW row \in UnitRow, UnitStep(u, row)  PROVE Writable
    <3>1. UNCHANGED assignments
          /\ \A x \in UnitIds : units'[x] # units[x] => units'[x] = row
      BY <1>1, <2>1, UnitStepFacts DEF TypeOK
    <3> QED BY <2>1, <3>1 DEF UnitStep, HasWriter
  <2>2. ASSUME NEW a \in AssignmentIds, NEW row \in AssignmentRow, AssignmentStep(a, row)
        PROVE  Writable
    <3>1. UNCHANGED units
          /\ \A x \in AssignmentIds : assignments'[x] # assignments[x] => assignments'[x] = row
      BY <1>1, <2>2 DEF AssignmentStep, PutAssignment, WriteAssignment, TypeOK
    <3> QED BY <2>2, <3>1 DEF AssignmentStep, HasWriter
  <2>3. CASE DirectoryChange
    BY <2>3 DEF DirectoryChange, tableVars
  <2> QED BY <1>1, <2>1, <2>2, <2>3, StepShapes
<1>2. TypeOK /\ [Next]_structureVars => [Writable]_structureVars
  BY <1>1
<1> QED BY <1>2, TypeCorrect, PTL DEF Spec, ChangesStayInWritableTenants

\* The structure implements the directory: its requests leave users, memberships
\* and projections alone, so whatever holds of the directory holds beside them.
THEOREM ImplementsDirectory == Spec => DirectorySpec
<1>1. Init => DirectoryInit
  BY DEF Init
<1>2. ASSUME TypeOK, [Next]_structureVars  PROVE [DirectoryNext]_directoryVars
  <2>1. ASSUME NEW u \in UnitIds, NEW row \in UnitRow, UnitStep(u, row)
        PROVE  UNCHANGED directoryVars
    BY <2>1 DEF UnitStep, InsertUnit
  <2>2. ASSUME NEW a \in AssignmentIds, NEW row \in AssignmentRow, AssignmentStep(a, row)
        PROVE  UNCHANGED directoryVars
    BY <2>2 DEF AssignmentStep, PutAssignment
  <2>3. DirectoryChange => DirectoryNext
    BY DEF DirectoryChange
  <2>4. UNCHANGED structureVars => UNCHANGED directoryVars
    BY DEF structureVars
  <2> QED BY <1>2, <2>1, <2>2, <2>3, <2>4, StepShapes
<1> QED BY <1>1, <1>2, TypeCorrect, PTL DEF Spec, DirectorySpec

\* So organization_member_directory() lists exactly the active members, whatever
\* requests change between two directory transactions.
THEOREM MembersListed == Spec => []DirectoryListsActiveMembers
<1> QED BY ImplementsDirectory, DirectoryExact, PTL
=============================================================================
