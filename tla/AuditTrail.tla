----------------------------- MODULE AuditTrail -----------------------------
(***************************************************************************)
(* The audit trail and GET /audit/events.  A request stamps its event with *)
(* the time at which it builds it and commits later, so that events become *)
(* visible in another order than that of their times; the clock is the     *)
(* host's and may be set back.  A reader walks the trail from the newest   *)
(* event to the oldest, a page at a time, by the cursor each page ends     *)
(* with, while its session changes tenant and its membership is revoked.   *)
(***************************************************************************)
EXTENDS Integers, FiniteSets

CONSTANTS
  Writers,    \* database connections of the requests that append
  Tenants,
  Kinds,      \* pairs of an action and a resource type
  AnyKind,    \* no filter
  EventIds,   \* uuid4 values, in their order
  Times,      \* values of occurred_at
  Limits,     \* values of the limit parameter
  NoEvent

ASSUME IdsAssumption == EventIds \subseteq Int
ASSUME TimesAssumption == Times \subseteq Int
ASSUME NoEventAssumption ==
  /\ NoEvent \notin Tenants
  /\ NoEvent \notin [time : Times, id : EventIds]
  /\ NoEvent \notin [id : EventIds, time : Times, tenant : Tenants, kind : Kinds]

VARIABLES
  trail,      \* audit_events
  appending,  \* the event in the open transaction of each writer
  auditor,    \* tenants in which the reader is an active owner, admin or auditor
  selected,   \* the tenant of the reader's session
  asking,     \* tenant of the request that passed its check and has yet to read
  filter,     \* what the walk asks for
  cursor,     \* next_cursor of its last page, NoEvent before the first
  page,       \* the events of its last page
  read,       \* those of the pages before
  initial,    \* what the walk could have read when it read its first page
  asked,      \* the tenants that its pages came from
  ended       \* the last page had no next_cursor

walkVars == <<filter, cursor, page, read, initial, asked, ended>>
readerVars == <<auditor, selected, asking, walkVars>>
vars == <<trail, appending, readerVars>>

Events == [id : EventIds, time : Times, tenant : Tenants, kind : Kinds]
Cursors == [time : Times, id : EventIds]

AuditTypeOK ==
  /\ trail \subseteq Events
  /\ appending \in [Writers -> Events \union {NoEvent}]
  /\ auditor \subseteq Tenants
  /\ selected \in Tenants
  /\ asking \in Tenants \union {NoEvent}
  /\ filter \in Kinds \union {AnyKind}
  /\ cursor \in Cursors \union {NoEvent}
  /\ page \subseteq trail
  /\ read \subseteq trail
  /\ initial \subseteq trail
  /\ asked \subseteq Tenants
  /\ ended \in BOOLEAN

Init ==
  /\ trail = {}
  /\ appending = [w \in Writers |-> NoEvent]
  /\ auditor \in SUBSET Tenants
  /\ selected \in Tenants
  /\ asking = NoEvent
  /\ filter \in Kinds \union {AnyKind}
  /\ cursor = NoEvent
  /\ page = {} /\ read = {} /\ initial = {} /\ asked = {}
  /\ ended = FALSE

-----------------------------------------------------------------------------
(* Appending. *)

Used(id) ==
  \/ \E e \in trail : e.id = id
  \/ \E w \in Writers : appending[w] # NoEvent /\ appending[w].id = id

\* _record: a fresh id and the current time; the row is not visible yet.
Record(w) ==
  /\ appending[w] = NoEvent
  /\ \E e \in Events :
       /\ ~Used(e.id)
       /\ appending' = [appending EXCEPT ![w] = e]
  /\ UNCHANGED <<trail, readerVars>>

Commit(w) ==
  /\ appending[w] # NoEvent
  /\ trail' = trail \union {appending[w]}
  /\ appending' = [appending EXCEPT ![w] = NoEvent]
  /\ UNCHANGED readerVars

Abort(w) ==
  /\ appending[w] # NoEvent
  /\ appending' = [appending EXCEPT ![w] = NoEvent]
  /\ UNCHANGED <<trail, readerVars>>

-----------------------------------------------------------------------------
(* Reading. *)

(* An operator with an underscore is a plausible mistake in the definition   *)
(* that its name begins with; no specification uses it.                    *)
BeforeCursor_TimeOnly(e) == cursor = NoEvent \/ e.time < cursor.time

BeforeCursor_Inclusive(e) ==
  \/ cursor = NoEvent
  \/ e.time < cursor.time
  \/ e.time = cursor.time /\ e.id <= cursor.id

BeforeCursor(e) ==
  \/ cursor = NoEvent
  \/ e.time < cursor.time
  \/ e.time = cursor.time /\ e.id < cursor.id

\* The order of the pages: by time, then by id, the newest first.
Precedes(e, f) == e.time > f.time \/ (e.time = f.time /\ e.id > f.id)

\* The rows of the statement under audit_events_reader, which looks the membership
\* up again when the statement runs.
Matching ==
  {e \in trail : /\ e.tenant = asking /\ asking \in auditor
                 /\ filter \in {AnyKind, e.kind} /\ BeforeCursor(e)}

BeginWalk(kind) ==
  /\ asking = NoEvent
  /\ filter' = kind
  /\ cursor' = NoEvent
  /\ page' = {} /\ read' = {} /\ initial' = {} /\ asked' = {}
  /\ ended' = FALSE
  /\ UNCHANGED <<trail, appending, auditor, selected, asking>>

\* events, up to the statement: the tenant is that of the session as it was loaded.
AskPage ==
  /\ asking = NoEvent /\ ~ended
  /\ selected \in auditor
  /\ asking' = selected
  /\ UNCHANGED <<trail, appending, auditor, selected, walkVars>>

TurnPage(rows) ==
  /\ page' = rows
  /\ read' = read \union page
  /\ asked' = asked \union {asking}
  /\ initial' = IF cursor = NoEvent THEN Matching ELSE initial
  /\ asking' = NoEvent
  /\ UNCHANGED <<trail, appending, auditor, selected, filter>>

\* No more rows match than the page may have: it has no next_cursor.
ReadLastPage(limit) ==
  /\ asking # NoEvent
  /\ Cardinality(Matching) <= limit
  /\ TurnPage(Matching)
  /\ ended' = TRUE
  /\ UNCHANGED cursor

\* The statement finds one row more than the page has; the cursor is the last row
\* of the page, not that one.
ReadPage(limit) ==
  /\ asking # NoEvent
  /\ \E rows \in SUBSET Matching :
       /\ Cardinality(rows) = limit /\ rows # Matching
       /\ \A e \in rows : \A f \in Matching \ rows : Precedes(e, f)
       /\ \E last \in rows :
            /\ \A e \in rows \ {last} : Precedes(e, last)
            /\ cursor' = [time |-> last.time, id |-> last.id]
       /\ TurnPage(rows)
  /\ UNCHANGED ended

\* The request fails; the reader may ask for the same page again.
FailPage ==
  /\ asking # NoEvent
  /\ asking' = NoEvent
  /\ UNCHANGED <<trail, appending, auditor, selected, walkVars>>

SelectTenant(t) ==
  /\ selected' = t
  /\ UNCHANGED <<trail, appending, auditor, asking, walkVars>>

SetAuthority(readable) ==
  /\ auditor' = readable
  /\ UNCHANGED <<trail, appending, selected, asking, walkVars>>

Next ==
  \/ \E w \in Writers : Record(w) \/ Commit(w) \/ Abort(w)
  \/ \E kind \in Kinds \union {AnyKind} : BeginWalk(kind)
  \/ AskPage
  \/ \E limit \in Limits : ReadPage(limit) \/ ReadLastPage(limit)
  \/ FailPage
  \/ \E t \in Tenants : SelectTenant(t)
  \/ \E readable \in SUBSET Tenants : SetAuthority(readable)

Spec == Init /\ [][Next]_vars

-----------------------------------------------------------------------------
(* Properties. *)

\* The pages of a walk go strictly back in time: no event is read twice and none out
\* of order, though events are committed behind and before the cursor, pages are
\* asked for again and the session moves to another tenant half-way.
PagesDescend == \A e \in read : \A f \in page : Precedes(e, f)

\* A walk that comes to its end in one tenant, with the authority to read, has read
\* every event that was there when it began: what it misses was committed later.
EndedWalkIsComplete ==
  [][~ended /\ ended' /\ asking \in auditor /\ asked' = {asking}
       => initial' \subseteq read' \union page']_vars

\* The events of a page are those of a tenant whose trail the reader may read when
\* the page is read, also if the membership was revoked after the endpoint's check.
PagesNeedAuthority ==
  [][page' # page => \A e \in page' : e.tenant \in auditor]_vars
=============================================================================
