-------------------------- MODULE AuditTrailProofs --------------------------
(***************************************************************************)
(* What a walk through the audit trail reads, for any set of events, any   *)
(* clock and any sizes of its pages.                                       *)
(***************************************************************************)
EXTENDS AuditTrail, TLAPS

\* The trail never loses an event.
LEMMA TrailGrows ==
  ASSUME [Next]_vars  PROVE trail \subseteq trail'
BY DEF Next, Record, Commit, Abort, BeginWalk, AskPage, ReadPage, ReadLastPage, TurnPage,
       FailPage, SelectTenant, SetAuthority, vars, walkVars

LEMMA MatchingInTrail == Matching \subseteq trail
BY DEF Matching

\* A page that is not the last leaves the key of one of its events as the cursor.
LEMMA CursorTyped ==
  ASSUME AuditTypeOK, NEW last \in trail
  PROVE  [time |-> last.time, id |-> last.id] \in Cursors
BY DEF AuditTypeOK, Events, Cursors

LEMMA AuditTypeStep ==
  ASSUME AuditTypeOK, [Next]_vars
  PROVE  AuditTypeOK'
<1> USE DEF AuditTypeOK
<1>1. trail \subseteq trail'
  BY TrailGrows
<1>2. ASSUME NEW w \in Writers, Record(w) \/ Commit(w) \/ Abort(w)  PROVE AuditTypeOK'
  <2>1. trail' \subseteq Events /\ appending' \in [Writers -> Events \union {NoEvent}]
    BY <1>2 DEF Record, Commit, Abort
  <2>2. UNCHANGED readerVars
    BY <1>2 DEF Record, Commit, Abort
  <2> QED BY <1>1, <2>1, <2>2 DEF readerVars, walkVars
<1>3. ASSUME NEW kind \in Kinds \union {AnyKind}, BeginWalk(kind)  PROVE AuditTypeOK'
  BY <1>3 DEF BeginWalk
<1>4. CASE AskPage \/ FailPage
  BY <1>4 DEF AskPage, FailPage, walkVars
<1>5. ASSUME NEW limit \in Limits, ReadPage(limit)  PROVE AuditTypeOK'
  <2>1. PICK rows \in SUBSET Matching :
          /\ \E last \in rows : cursor' = [time |-> last.time, id |-> last.id]
          /\ TurnPage(rows)
    BY <1>5 DEF ReadPage
  <2>2. cursor' \in Cursors
    BY <2>1, CursorTyped, MatchingInTrail
  <2>3. asking \in Tenants
    BY <1>5 DEF ReadPage
  <2> QED BY <1>5, <2>1, <2>2, <2>3, MatchingInTrail DEF ReadPage, TurnPage
<1>6. ASSUME NEW limit \in Limits, ReadLastPage(limit)  PROVE AuditTypeOK'
  <2>1. asking \in Tenants
    BY <1>6 DEF ReadLastPage
  <2> QED BY <1>6, <2>1, MatchingInTrail DEF ReadLastPage, TurnPage
<1>7. ASSUME \/ \E t \in Tenants : SelectTenant(t)
             \/ \E readable \in SUBSET Tenants : SetAuthority(readable)
      PROVE  AuditTypeOK'
  BY <1>7 DEF SelectTenant, SetAuthority, walkVars
<1>8. CASE UNCHANGED vars
  BY <1>8 DEF vars, readerVars, walkVars
<1> QED BY <1>2, <1>3, <1>4, <1>5, <1>6, <1>7, <1>8 DEF Next

\* The trail and its reader stay well typed; a reader has nothing that is not committed.
THEOREM AuditTypeCorrect == Spec => []AuditTypeOK
<1>1. Init => AuditTypeOK
  BY DEF Init, AuditTypeOK
<1> QED BY <1>1, AuditTypeStep, PTL DEF Spec

-----------------------------------------------------------------------------
(* The order of the pages. *)

LEMMA PrecedesTransitive ==
  ASSUME NEW d \in Events, NEW e \in Events, NEW f \in Events, Precedes(d, e), Precedes(e, f)
  PROVE  Precedes(d, f)
<1>1. /\ d.time \in Int /\ e.time \in Int /\ f.time \in Int
      /\ d.id \in Int /\ e.id \in Int /\ f.id \in Int
  BY IdsAssumption, TimesAssumption DEF Events
<1> QED BY <1>1 DEF Precedes

\* The position after the walk's last page.
AtCursor(e) == cursor # NoEvent /\ e.time = cursor.time /\ e.id = cursor.id

\* What the walk has read is at its cursor or newer, the page newer than nothing read
\* before it; without a cursor nothing has been read, unless the walk has ended.
WalkInv ==
  /\ PagesDescend
  /\ ~ended =>
       \A e \in read \union page :
         \/ AtCursor(e)
         \/ cursor # NoEvent /\ (e.time > cursor.time \/ (e.time = cursor.time /\ e.id > cursor.id))

LEMMA NewPageFollows ==
  ASSUME AuditTypeOK, WalkInv, ~ended, NEW e \in read \union page, NEW f \in Matching
  PROVE  Precedes(e, f)
<1>1. BeforeCursor(f) /\ cursor # NoEvent
  BY DEF WalkInv, AtCursor, Matching
<1>2. e \in Events /\ f \in Events /\ cursor \in Cursors
  BY <1>1, MatchingInTrail DEF AuditTypeOK
<1>3. /\ e.time \in Int /\ f.time \in Int /\ cursor.time \in Int
      /\ e.id \in Int /\ f.id \in Int /\ cursor.id \in Int
  BY <1>2, IdsAssumption, TimesAssumption DEF Events, Cursors
<1> QED BY <1>1, <1>3 DEF WalkInv, AtCursor, BeforeCursor, Precedes

LEMMA WalkStep ==
  ASSUME AuditTypeOK, WalkInv, [Next]_vars, asking # NoEvent => ~ended
  PROVE  WalkInv'
<1>1. ASSUME UNCHANGED <<cursor, page, read, ended>>  PROVE WalkInv'
  BY <1>1 DEF WalkInv, PagesDescend, AtCursor, Precedes
<1>2. ASSUME NEW kind \in Kinds \union {AnyKind}, BeginWalk(kind)  PROVE WalkInv'
  BY <1>2 DEF BeginWalk, WalkInv, PagesDescend
<1>3. ASSUME NEW rows \in SUBSET Matching, TurnPage(rows), ~ended  PROVE PagesDescend'
  <2>1. read' = read \union page /\ page' = rows
    BY <1>3 DEF TurnPage
  <2>2. ASSUME NEW e \in read \union page, NEW f \in rows  PROVE Precedes(e, f)
    BY <1>3, <2>2, NewPageFollows
  <2> QED BY <2>1, <2>2 DEF PagesDescend, Precedes
<1>4. ASSUME NEW limit \in Limits, ReadLastPage(limit)  PROVE WalkInv'
  <2>1. TurnPage(Matching) /\ ended' = TRUE /\ ~ended
    BY <1>4 DEF ReadLastPage
  <2>2. PagesDescend'
    BY <1>3, <2>1
  <2> QED BY <2>1, <2>2 DEF WalkInv
<1>5. ASSUME NEW limit \in Limits, ReadPage(limit)  PROVE WalkInv'
  <2> PICK rows \in SUBSET Matching :
          /\ \E last \in rows :
               /\ \A e \in rows \ {last} : Precedes(e, last)
               /\ cursor' = [time |-> last.time, id |-> last.id]
          /\ TurnPage(rows)
    BY <1>5 DEF ReadPage
  <2>1. PICK last \in rows :
          /\ \A e \in rows \ {last} : Precedes(e, last)
          /\ cursor' = [time |-> last.time, id |-> last.id]
    OBVIOUS
  <2>2. ~ended
    BY <1>5 DEF ReadPage
  <2>3. PagesDescend'
    BY <1>3, <2>1, <2>2
  <2>4. read' \union page' = read \union page \union rows
    BY <2>1 DEF TurnPage
  <2>5. ASSUME NEW e \in read \union page \union rows  PROVE e = last \/ Precedes(e, last)
    BY <2>1, <2>2, <2>5, NewPageFollows
  <2>6. cursor' # NoEvent
    BY <2>1, CursorTyped, MatchingInTrail, NoEventAssumption DEF Cursors
  <2>7. cursor'.time = last.time /\ cursor'.id = last.id
    BY <2>1
  <2> QED BY <2>3, <2>4, <2>5, <2>6, <2>7 DEF WalkInv, AtCursor, Precedes
<1>6. ASSUME \/ \E w \in Writers : Record(w) \/ Commit(w) \/ Abort(w)
             \/ AskPage \/ FailPage
             \/ \E t \in Tenants : SelectTenant(t)
             \/ \E readable \in SUBSET Tenants : SetAuthority(readable)
             \/ UNCHANGED vars
      PROVE  WalkInv'
  BY <1>1, <1>6 DEF Record, Commit, Abort, AskPage, FailPage, SelectTenant, SetAuthority,
                    vars, readerVars, walkVars
<1> QED BY <1>2, <1>4, <1>5, <1>6 DEF Next

\* No page is asked for after the last.
AskingInv == asking # NoEvent => ~ended

LEMMA AskingStep ==
  ASSUME AskingInv, [Next]_vars  PROVE AskingInv'
BY DEF AskingInv, Next, Record, Commit, Abort, BeginWalk, AskPage, ReadPage, ReadLastPage,
       TurnPage, FailPage, SelectTenant, SetAuthority, vars, readerVars, walkVars

\* The invariant of a walk holds of every behaviour.
LEMMA WalkInvariant == Spec => [](AskingInv /\ WalkInv)
<1>1. Init => AskingInv /\ WalkInv
  BY DEF Init, AskingInv, WalkInv, PagesDescend
<1>2. AuditTypeOK /\ AskingInv /\ WalkInv /\ [Next]_vars => (AskingInv /\ WalkInv)'
  BY AskingStep, WalkStep DEF AskingInv
<1> QED BY <1>1, <1>2, AuditTypeCorrect, PTL DEF Spec

\* Pages go strictly back in time, so that no event is read twice.
THEOREM WalkDescends == Spec => []PagesDescend
<1>1. WalkInv => PagesDescend
  BY DEF WalkInv
<1> QED BY <1>1, WalkInvariant, PTL

-----------------------------------------------------------------------------
(* What a walk has read when it ends. *)

\* A walk that has stayed in one tenant has read, or has still before its cursor, each
\* event that it could have read in its first page.
CompleteInv ==
  ~ended =>
    /\ cursor = NoEvent => asked = {}
    /\ cursor # NoEvent => asked # {}
    /\ cursor # NoEvent =>
         \A e \in initial :
           /\ e.tenant \in asked /\ filter \in {AnyKind, e.kind}
           /\ (\E t \in Tenants : asked = {t}) => e \in read \union page \/ BeforeCursor(e)

\* What is to be read before the cursor matches the next statement.
LEMMA UnreadMatches ==
  ASSUME AuditTypeOK, CompleteInv, ~ended, asking \in auditor,
         cursor # NoEvent, asked \union {asking} = {asking},
         NEW e \in initial, e \notin read \union page
  PROVE  e \in Matching
<1>1. asked = {asking} /\ asking \in Tenants
  BY DEF CompleteInv, AuditTypeOK
<1>2. e \in trail
  BY DEF AuditTypeOK
<1> QED BY <1>1, <1>2 DEF CompleteInv, Matching

LEMMA CompleteStep ==
  ASSUME AuditTypeOK, AskingInv, CompleteInv, [Next]_vars
  PROVE  CompleteInv'
<1>1. ASSUME UNCHANGED walkVars  PROVE CompleteInv'
  BY <1>1 DEF CompleteInv, walkVars, BeforeCursor
<1>2. ASSUME NEW kind \in Kinds \union {AnyKind}, BeginWalk(kind)  PROVE CompleteInv'
  BY <1>2 DEF BeginWalk, CompleteInv
<1>3. ASSUME NEW limit \in Limits, ReadLastPage(limit)  PROVE CompleteInv'
  BY <1>3 DEF ReadLastPage, CompleteInv
<1>4. ASSUME NEW limit \in Limits, ReadPage(limit)  PROVE CompleteInv'
  <2> PICK rows \in SUBSET Matching :
        /\ \A e \in rows : \A f \in Matching \ rows : Precedes(e, f)
        /\ \E last \in rows : cursor' = [time |-> last.time, id |-> last.id]
        /\ TurnPage(rows)
    BY <1>4 DEF ReadPage
  <2>1. PICK last \in rows : cursor' = [time |-> last.time, id |-> last.id]
    OBVIOUS
  <2>2. /\ page' = rows /\ read' = read \union page /\ asked' = asked \union {asking}
        /\ initial' = (IF cursor = NoEvent THEN Matching ELSE initial)
        /\ UNCHANGED filter
    BY DEF TurnPage
  <2>3. cursor' # NoEvent
    BY <2>1, CursorTyped, MatchingInTrail, NoEventAssumption DEF Cursors
  <2>4. ~ended /\ asking \in auditor /\ asking \in Tenants
    <3>1. asking # NoEvent
      BY <1>4 DEF ReadPage
    <3>2. asking \in auditor
      BY <2>1 DEF Matching
    <3> QED BY <3>1, <3>2 DEF AskingInv, AuditTypeOK
  <2>5. ASSUME NEW e \in Matching  PROVE e \in rows \/ BeforeCursor(e)'
    <3>1. CASE e \notin rows
      <4>1. Precedes(last, e)
        BY <2>1, <3>1
      <4>2. e \in Events /\ last \in Events
        BY <2>1, MatchingInTrail DEF AuditTypeOK
      <4>3. e.time \in Int /\ last.time \in Int /\ e.id \in Int /\ last.id \in Int
        BY <4>2, IdsAssumption, TimesAssumption DEF Events
      <4> QED BY <2>1, <4>1, <4>3 DEF Precedes, BeforeCursor
    <3> QED BY <3>1
  <2>6. CASE cursor = NoEvent
    <3>1. \A e \in Matching : e.tenant \in asked' /\ filter' \in {AnyKind, e.kind}
      BY <2>2 DEF Matching
    <3> QED BY <2>2, <2>3, <2>4, <2>5, <2>6, <3>1 DEF CompleteInv
  <2>7. CASE cursor # NoEvent
    <3>1. ASSUME NEW e \in initial
          PROVE  e.tenant \in asked' /\ filter' \in {AnyKind, e.kind}
      BY <2>2, <2>4, <2>7 DEF CompleteInv
    <3>2. ASSUME NEW e \in initial, NEW t \in Tenants, asked' = {t}
          PROVE  e \in read' \union page' \/ BeforeCursor(e)'
      <4>1. asked \union {asking} = {asking}
        BY <2>2, <3>2
      <4>2. CASE e \in read \union page
        BY <2>2, <4>2
      <4>3. CASE e \notin read \union page
        BY <2>2, <2>4, <2>5, <2>7, <4>1, <4>3, UnreadMatches
      <4> QED BY <4>2, <4>3
    <3> QED BY <2>2, <2>3, <2>7, <3>1, <3>2 DEF CompleteInv
  <2> QED BY <2>6, <2>7
<1>5. ASSUME \/ \E w \in Writers : Record(w) \/ Commit(w) \/ Abort(w)
             \/ AskPage \/ FailPage
             \/ \E t \in Tenants : SelectTenant(t)
             \/ \E readable \in SUBSET Tenants : SetAuthority(readable)
             \/ UNCHANGED vars
      PROVE  CompleteInv'
  BY <1>1, <1>5 DEF Record, Commit, Abort, AskPage, FailPage, SelectTenant, SetAuthority,
                    vars, readerVars
<1> QED BY <1>2, <1>3, <1>4, <1>5 DEF Next

\* A walk in one tenant that ends with the authority to read has left out nothing that
\* was there when it began.
THEOREM EndedWalkCompleteness == Spec => EndedWalkIsComplete
<1>1. Init => CompleteInv
  BY DEF Init, CompleteInv
<1>2. AuditTypeOK /\ AskingInv /\ CompleteInv /\ [Next]_vars => CompleteInv'
  BY CompleteStep
<1>3. ASSUME AuditTypeOK, AskingInv, CompleteInv, [Next]_vars,
             ~ended, ended', asking \in auditor, asked' = {asking}
      PROVE  initial' \subseteq read' \union page'
  <2>1. PICK limit \in Limits : ReadLastPage(limit)
    BY <1>3 DEF Next, Record, Commit, Abort, BeginWalk, AskPage, ReadPage, FailPage,
                SelectTenant, SetAuthority, vars, readerVars, walkVars
  <2>2. /\ page' = Matching /\ read' = read \union page /\ asked' = asked \union {asking}
        /\ initial' = (IF cursor = NoEvent THEN Matching ELSE initial)
    BY <2>1 DEF ReadLastPage, TurnPage
  <2>3. CASE cursor = NoEvent
    BY <2>2, <2>3
  <2>4. CASE cursor # NoEvent
    BY <1>3, <2>2, <2>4, UnreadMatches
  <2> QED BY <2>3, <2>4
<1>4. AuditTypeOK /\ AskingInv /\ CompleteInv /\ [Next]_vars
        => (~ended /\ ended' /\ asking \in auditor /\ asked' = {asking}
              => initial' \subseteq read' \union page')
  BY <1>3
<1>5. Spec => []AskingInv
  BY WalkInvariant, PTL
<1> QED BY <1>1, <1>2, <1>4, <1>5, AuditTypeCorrect, PTL DEF Spec, EndedWalkIsComplete

\* Nobody is given a page of a trail that may no longer be read.
THEOREM PagesAreAuthorised == Spec => PagesNeedAuthority
<1>1. ASSUME [Next]_vars, page' # page, NEW e \in page'  PROVE e.tenant \in auditor
  <2>1. CASE \E kind \in Kinds \union {AnyKind} : BeginWalk(kind)
    BY <1>1, <2>1 DEF BeginWalk
  <2>2. CASE \E limit \in Limits : ReadPage(limit) \/ ReadLastPage(limit)
    <3>1. page' \in SUBSET Matching
      BY <2>2 DEF ReadPage, ReadLastPage, TurnPage
    <3> QED BY <1>1, <3>1 DEF Matching
  <2>3. CASE \/ \E w \in Writers : Record(w) \/ Commit(w) \/ Abort(w)
             \/ AskPage \/ FailPage
             \/ \E t \in Tenants : SelectTenant(t)
             \/ \E readable \in SUBSET Tenants : SetAuthority(readable)
             \/ UNCHANGED vars
    BY <1>1, <2>3 DEF Record, Commit, Abort, AskPage, FailPage, SelectTenant, SetAuthority,
                      vars, readerVars, walkVars
  <2> QED BY <1>1, <2>1, <2>2, <2>3 DEF Next
<1>2. [Next]_vars => (page' # page => \A e \in page' : e.tenant \in auditor)
  BY <1>1
<1> QED BY <1>2, PTL DEF Spec, PagesNeedAuthority
=============================================================================
