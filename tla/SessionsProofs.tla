--------------------------- MODULE SessionsProofs ---------------------------
(***************************************************************************)
(* Application sessions, for any number of sessions and of overlapping     *)
(* requests: their type, that a tenant in a session rests on a choice, why *)
(* a logout is refused, and that sessions implement SessionLifecycle.      *)
(***************************************************************************)
EXTENDS Sessions, MemberDirectoryProofs

Work == SignInWork \union SessionWork

\* A sign-in has its session id to itself; every other request has loaded a row.
InFlight ==
  /\ \A r \in Requests :
       work[r] # NoRow => (work[r].op = "sign_in") = (sessions[work[r].sid] = NoRow)
  /\ \A q, r \in Requests :
       work[q] # NoRow /\ work[q].op = "sign_in" /\ work[r] # NoRow /\ work[r].op = "sign_in"
         => q = r
  /\ \A r \in Requests :
       work[r] # NoRow /\ work[r].op \in {"select", "context"} => work[r].tenant \in Tenants

Typed == DirectoryTypeOK /\ SessionsTypeOK /\ InFlight

-----------------------------------------------------------------------------
(* What a flush leaves of a row. *)

LEMMA WrittenRow ==
  ASSUME SessionsTypeOK, NEW w \in Work, (w.op = "sign_in") = (sessions[w.sid] = NoRow)
  PROVE  /\ w.sid \in Sids
         /\ Written(w) \in SessionRow /\ Written(w) # NoRow
         /\ w.op = "sign_in" => Written(w).user = w.user /\ ~Written(w).revoked
         /\ w.op # "sign_in" => /\ sessions[w.sid] \in SessionRow
                                /\ Written(w).user = sessions[w.sid].user
         /\ w.op \in {"sign_in", "select"} => Written(w).tenant = w.tenant
         /\ w.op \in {"select", "context"} => Written(w).revoked = sessions[w.sid].revoked
         /\ w.op = "context" => Written(w).tenant = NoTenant
         /\ w.op = "logout" =>
              /\ Written(w).revoked
              /\ Written(w).tenant = IF w.loaded.tenant = NoTenant THEN sessions[w.sid].tenant
                                     ELSE NoTenant
<1>0. w.sid \in Sids
  BY DEF Work, SignInWork, SessionWork
<1>1. CASE w.op = "sign_in"
  <2>1. w \in SignInWork
    BY <1>1 DEF Work, SessionWork
  <2>2. Written(w) = [user |-> w.user, tenant |-> w.tenant, revoked |-> FALSE]
    BY <1>1 DEF Written
  <2>3. Written(w) \in SessionRow
    BY <2>1, <2>2 DEF SignInWork, SessionRow
  <2>4. Written(w).user = w.user /\ Written(w).tenant = w.tenant /\ ~Written(w).revoked
    BY <2>2
  <2> QED BY <1>0, <1>1, <2>3, <2>4, NoWorkAssumption
<1>2. CASE w.op # "sign_in"
  <2> DEFINE row == sessions[w.sid]
  <2>1. w \in SessionWork /\ row \in SessionRow
    BY <1>0, <1>2 DEF Work, SignInWork, SessionsTypeOK
  <2>2. CASE w.op = "select"
    <3>1. Written(w) = [row EXCEPT !.tenant = w.tenant]
      BY <2>2 DEF Written
    <3>2. w.tenant \in Tenants \union {NoTenant}
      BY <2>1 DEF SessionWork
    <3>3. /\ Written(w) \in SessionRow /\ Written(w).user = row.user
          /\ Written(w).tenant = w.tenant /\ Written(w).revoked = row.revoked
      BY <2>1, <3>1, <3>2 DEF SessionRow
    <3> QED BY <1>0, <2>1, <2>2, <3>3, NoWorkAssumption
  <2>3. CASE w.op = "context"
    <3>1. Written(w) = [row EXCEPT !.tenant = NoTenant]
      BY <2>3 DEF Written
    <3>2. /\ Written(w) \in SessionRow /\ Written(w).user = row.user
          /\ Written(w).tenant = NoTenant /\ Written(w).revoked = row.revoked
      BY <2>1, <3>1 DEF SessionRow
    <3> QED BY <1>0, <2>1, <2>3, <3>2, NoWorkAssumption
  <2>4. CASE w.op = "logout"
    <3> DEFINE t == IF w.loaded.tenant = NoTenant THEN row.tenant ELSE NoTenant
    <3>1. Written(w) = [row EXCEPT !.revoked = TRUE, !.tenant = t]
      BY <2>4 DEF Written
    <3>2. t \in Tenants \union {NoTenant}
      BY <2>1 DEF SessionRow
    <3>3. t = IF w.loaded.tenant = NoTenant THEN row.tenant ELSE NoTenant
      OBVIOUS
    <3> HIDE DEF t
    <3>4. /\ Written(w) \in SessionRow /\ Written(w).user = row.user
          /\ Written(w).tenant = t /\ Written(w).revoked
      BY <2>1, <3>1, <3>2 DEF SessionRow
    <3> QED BY <1>0, <2>1, <2>4, <3>3, <3>4, NoWorkAssumption
  <2> QED BY <1>2, <2>1, <2>2, <2>3, <2>4 DEF SessionWork
<1> QED BY <1>1, <1>2

-----------------------------------------------------------------------------
(* Types. *)

LEMMA DropTyped ==
  ASSUME SessionsTypeOK, InFlight, NEW r \in Requests, Drop(r)
  PROVE  SessionsTypeOK' /\ InFlight'
BY DEF Drop, SessionsTypeOK, InFlight

LEMMA DoneTyped ==
  ASSUME SessionsTypeOK, InFlight, NEW r \in Requests, pc[r] = "flushing",
         NEW statement, Done(r, statement)
  PROVE  SessionsTypeOK' /\ InFlight'
<1> DEFINE x == [work[r] EXCEPT !.todo = @ \ {statement}]
<1>1. work[r] \in Work
  BY DEF SessionsTypeOK, Work
<1>2. x \in Work /\ x.op = work[r].op /\ x.sid = work[r].sid /\ x.tenant = work[r].tenant
  BY <1>1 DEF Work, SignInWork, SessionWork
<1>3. work' = [work EXCEPT ![r] = x] /\ UNCHANGED <<sessions, expired, choices, pc>>
  BY DEF Done
<1>4. x # NoRow /\ work[r] # NoRow
  BY <1>1, <1>2, NoWorkAssumption DEF Work
<1> HIDE DEF x
<1>5. SessionsTypeOK'
  BY <1>2, <1>3, <1>4 DEF SessionsTypeOK, Work
<1> QED BY <1>2, <1>3, <1>4, <1>5 DEF SessionsTypeOK, InFlight

\* A step that replaces the work of a request by work of the same kind.
LEMMA WorkTyped ==
  ASSUME SessionsTypeOK, InFlight, NEW r \in Requests, NEW w \in Work,
         NEW next \in {"loaded", "flushing"},
         pc' = [pc EXCEPT ![r] = next], work' = [work EXCEPT ![r] = w],
         UNCHANGED <<sessions, expired, choices>>,
         (w.op = "sign_in") = (sessions[w.sid] = NoRow),
         w.op = "sign_in" =>
           \A q \in Requests \ {r} : work[q] # NoRow => work[q].op # "sign_in",
         w.op \in {"select", "context"} => w.tenant \in Tenants
  PROVE  SessionsTypeOK' /\ InFlight'
<1>1. w # NoRow
  BY NoWorkAssumption DEF Work
<1>2. SessionsTypeOK'
  BY <1>1 DEF SessionsTypeOK, Work
<1> QED BY <1>1, <1>2 DEF SessionsTypeOK, InFlight

LEMMA SignInTyped ==
  ASSUME SessionsTypeOK, InFlight, NEW r \in Requests, SignIn(r)
  PROVE  SessionsTypeOK' /\ InFlight'
<1>1. PICK s \in Sids, u \in Users, n \in Names :
        /\ sessions[s] = NoRow
        /\ \A q \in Requests : work[q] # NoRow => work[q].op # "sign_in"
        /\ Begin(r, [op |-> "sign_in", sid |-> s, user |-> u, name |-> n,
                     tenant |-> NoTenant, todo |-> {"session"}], "loaded")
  BY DEF SignIn
<1> DEFINE w == [op |-> "sign_in", sid |-> s, user |-> u, name |-> n,
                 tenant |-> NoTenant, todo |-> {"session"}]
<1>2. w \in Work /\ w.op = "sign_in" /\ w.sid = s
  BY DEF Work, SignInWork
<1>3. pc' = [pc EXCEPT ![r] = "loaded"] /\ work' = [work EXCEPT ![r] = w]
      /\ UNCHANGED <<sessions, expired, choices>>
  BY <1>1 DEF Begin
<1> HIDE DEF w
<1> QED BY <1>1, <1>2, <1>3, WorkTyped

LEMMA AuthenticateTyped ==
  ASSUME Typed, NEW r \in Requests, Authenticate(r)
  PROVE  SessionsTypeOK' /\ InFlight'
<1>1. PICK s \in Sids, op \in {"select", "context", "logout"}, t \in Tenants \union {NoTenant} :
        /\ MayUse(s)
        /\ op \in {"select", "context"} => t \in Tenants
        /\ Begin(r, [op |-> op, sid |-> s, loaded |-> sessions[s],
                     name |-> users[sessions[s].user].name, tenant |-> t, role |-> NoRow,
                     todo |-> IF op = "logout" THEN {"session"} ELSE {}],
                 IF op = "logout" THEN "flushing" ELSE "loaded")
  BY DEF Authenticate
<1> DEFINE w == [op |-> op, sid |-> s, loaded |-> sessions[s],
                 name |-> users[sessions[s].user].name, tenant |-> t, role |-> NoRow,
                 todo |-> IF op = "logout" THEN {"session"} ELSE {}]
           next == IF op = "logout" THEN "flushing" ELSE "loaded"
<1>2. sessions[s] \in SessionRow /\ sessions[s] # NoRow
  BY <1>1 DEF MayUse, Typed, SessionsTypeOK
<1>3. users[sessions[s].user] \in UserRow
  BY <1>1, <1>2 DEF MayUse, ActiveUser, Typed, DirectoryTypeOK, SessionRow
<1>4. w \in SessionWork
  BY <1>2, <1>3 DEF SessionWork, UserRow
<1>5. w.op = op /\ w.sid = s /\ w.tenant = t /\ next \in {"loaded", "flushing"}
  OBVIOUS
<1>6. pc' = [pc EXCEPT ![r] = next] /\ work' = [work EXCEPT ![r] = w]
      /\ UNCHANGED <<sessions, expired, choices>>
  BY <1>1 DEF Begin
<1> HIDE DEF w, next
<1> QED BY <1>1, <1>2, <1>4, <1>5, <1>6, WorkTyped DEF Typed, Work

LEMMA LookUpTyped ==
  ASSUME Typed, NEW r \in Requests, LookUp(r)
  PROVE  SessionsTypeOK' /\ InFlight'
<1> USE DEF Typed
<1> DEFINE w == work[r]
<1>1. w \in Work /\ w # NoRow
  BY NoWorkAssumption DEF LookUp, SessionsTypeOK, Work
<1>2. ASSUME NEW x \in Work, x.op = w.op, x.sid = w.sid,
             w.op # "sign_in" => x.tenant = w.tenant, Flush(r, x)
      PROVE  SessionsTypeOK' /\ InFlight'
  <2>1. pc' = [pc EXCEPT ![r] = "flushing"] /\ work' = [work EXCEPT ![r] = x]
        /\ UNCHANGED <<sessions, expired, choices>>
    BY <1>2 DEF Flush
  <2>2. (x.op = "sign_in") = (sessions[x.sid] = NoRow)
    BY <1>1, <1>2 DEF InFlight
  <2>3. x.op = "sign_in" => \A q \in Requests \ {r} : work[q] # NoRow => work[q].op # "sign_in"
    BY <1>1, <1>2 DEF InFlight
  <2>4. x.op \in {"select", "context"} => x.tenant \in Tenants
    BY <1>1, <1>2 DEF InFlight
  <2> QED BY <2>1, <2>2, <2>3, <2>4, WorkTyped
<1>3. CASE w.op = "sign_in"
  <2> DEFINE t == SoleTenant(w.user)
             x == [w EXCEPT !.tenant = t]
  <2>1. t \in Tenants \union {NoTenant}
    BY DEF SoleTenant
  <2>2. w \in SignInWork
    BY <1>1, <1>3 DEF Work, SessionWork
  <2>3. Flush(r, x)
    BY <1>3 DEF LookUp
  <2> HIDE DEF t
  <2>4. x \in Work /\ x.op = w.op /\ x.sid = w.sid
    BY <2>1, <2>2 DEF Work, SignInWork
  <2> HIDE DEF x
  <2> QED BY <1>2, <1>3, <2>3, <2>4
<1>4. CASE w.op = "select" /\ ActiveMember(w.tenant, w.loaded.user)
  <2> DEFINE role == memberships[w.tenant][w.loaded.user].role
             todo == IF w.loaded.tenant = w.tenant THEN {"event"} ELSE {"session", "event"}
             x == [w EXCEPT !.role = role, !.todo = todo]
  <2>1. w \in SessionWork
    BY <1>1, <1>4 DEF Work, SignInWork
  <2>2. w.tenant \in Tenants
    BY <1>1, <1>4 DEF InFlight
  <2>3. w.loaded.user \in Users
    BY <2>1 DEF SessionWork, SessionRow
  <2>4. role \in Roles
    BY <1>4, <2>2, <2>3 DEF ActiveMember, DirectoryTypeOK, MembershipRow
  <2>5. todo \in SUBSET {"session", "event"}
    OBVIOUS
  <2>6. Flush(r, x)
    BY <1>4 DEF LookUp
  <2> HIDE DEF role, todo
  <2>7. x \in Work /\ x.op = w.op /\ x.sid = w.sid /\ x.tenant = w.tenant
    BY <2>1, <2>4, <2>5 DEF Work, SessionWork
  <2> HIDE DEF x
  <2> QED BY <1>2, <2>6, <2>7
<1>5. CASE w.op = "context" /\ ~ActiveMember(w.tenant, w.loaded.user)
  <2> DEFINE x == [w EXCEPT !.todo = {"session"}]
  <2>1. w \in SessionWork
    BY <1>1, <1>5 DEF Work, SignInWork
  <2>2. Flush(r, x)
    BY <1>5 DEF LookUp
  <2>3. x \in Work /\ x.op = w.op /\ x.sid = w.sid /\ x.tenant = w.tenant
    BY <2>1 DEF Work, SessionWork
  <2> HIDE DEF x
  <2> QED BY <1>2, <2>2, <2>3
<1> QED BY <1>3, <1>4, <1>5, DropTyped DEF LookUp

LEMMA RefreshTyped ==
  ASSUME DirectoryTypeOK, NEW w \in SignInWork, RefreshFromClaims(w)
  PROVE  DirectoryTypeOK'
<1> DEFINE row == IF users[w.user] = NoRow THEN [name |-> w.name, status |-> "active"]
                  ELSE [users[w.user] EXCEPT !.name = w.name]
<1>1. w.user \in Users /\ w.name \in Names
  BY DEF SignInWork
<1>2. row \in UserRow
  <2>1. CASE users[w.user] = NoRow
    BY <1>1, <2>1 DEF UserRow
  <2>2. CASE users[w.user] # NoRow
    BY <1>1, <2>2 DEF UserRow, DirectoryTypeOK
  <2> QED BY <2>1, <2>2
<1>3. users' = [users EXCEPT ![w.user] = row] /\ SyncUser(w.user, row) /\ UNCHANGED memberships
  BY DEF RefreshFromClaims
<1> HIDE DEF row
<1> QED BY <1>1, <1>2, <1>3, SyncUserTypeOK DEF DirectoryTypeOK

\* The one step that writes sessions.
LEMMA CommitEffect ==
  ASSUME SessionsTypeOK, InFlight, NEW r \in Requests, Commit(r)
  PROVE  LET w == work[r] IN
         /\ w \in Work /\ w # NoRow /\ w.sid \in Sids
         /\ (w.op = "sign_in") = (sessions[w.sid] = NoRow)
         /\ \/ sessions' = [sessions EXCEPT ![w.sid] = Written(w)]
            \/ sessions' = sessions /\ w.op = "select"
         /\ choices' = choices \union Recorded(w)
         /\ Recorded(w) \subseteq Sids \X Tenants
         /\ pc' = [pc EXCEPT ![r] = "idle"] /\ work' = [work EXCEPT ![r] = NoRow]
         /\ UNCHANGED expired
<1>1. work[r] \in Work /\ work[r] # NoRow
  BY NoWorkAssumption DEF Commit, SessionsTypeOK, Work
<1>2. work[r].sid \in Sids /\ work[r].tenant \in Tenants \union {NoTenant}
  BY <1>1 DEF Work, SignInWork, SessionWork
<1> QED BY <1>1, <1>2 DEF Commit, WritesSession, Recorded, InFlight

LEMMA CommitTyped ==
  ASSUME Typed, NEW r \in Requests, Commit(r)
  PROVE  Typed'
<1> USE DEF Typed
<1> DEFINE w == work[r]
<1>1. DirectoryTypeOK'
  <2>1. CASE w.op = "sign_in"
    <3>1. w \in SignInWork
      BY <2>1, CommitEffect DEF Work, SessionWork
    <3> QED BY <2>1, <3>1, RefreshTyped DEF Commit
  <2>2. CASE w.op # "sign_in"
    BY <2>2 DEF Commit, directoryVars, DirectoryTypeOK
  <2> QED BY <2>1, <2>2
<1>2. Written(w) \in SessionRow /\ Written(w) # NoRow
  BY CommitEffect, WrittenRow
<1>3. sessions' \in [Sids -> SessionRow \union {NoRow}]
      /\ \A s \in Sids : sessions'[s] = sessions[s] \/ (s = w.sid /\ sessions'[s] # NoRow)
  BY <1>2, CommitEffect DEF SessionsTypeOK
<1>4. /\ choices' \subseteq Sids \X Tenants /\ UNCHANGED expired
      /\ pc' = [pc EXCEPT ![r] = "idle"] /\ work' = [work EXCEPT ![r] = NoRow]
  BY CommitEffect DEF SessionsTypeOK
<1>5. SessionsTypeOK'
  BY <1>3, <1>4 DEF SessionsTypeOK
<1>6. \A q \in Requests : work'[q] # NoRow => q # r /\ work'[q] = work[q]
  BY <1>4 DEF SessionsTypeOK
<1>7. \A q \in Requests : work[q] # NoRow => work[q].sid \in Sids
  BY DEF SessionsTypeOK, SignInWork, SessionWork
<1>8. ASSUME NEW q \in Requests, work'[q] # NoRow
      PROVE  (work'[q].op = "sign_in") = (sessions'[work'[q].sid] = NoRow)
  <2>1. q # r /\ work'[q] = work[q] /\ work[q] # NoRow /\ work[q].sid \in Sids
    BY <1>6, <1>7, <1>8
  <2>2. (work[q].op = "sign_in") = (sessions[work[q].sid] = NoRow)
    BY <2>1 DEF InFlight
  <2>3. CASE sessions'[work[q].sid] = sessions[work[q].sid]
    BY <2>1, <2>2, <2>3
  <2>4. CASE work[q].sid = w.sid /\ sessions'[work[q].sid] # NoRow
    <3>1. (w.op = "sign_in") = (sessions[w.sid] = NoRow) /\ w # NoRow
      BY CommitEffect
    <3>2. work[q].op # "sign_in"
      BY <2>1, <2>2, <2>4, <3>1 DEF InFlight
    <3> QED BY <2>1, <2>4, <3>2
  <2> QED BY <1>3, <2>1, <2>3, <2>4
<1> QED BY <1>1, <1>5, <1>6, <1>8 DEF InFlight

LEMMA SessionsTypeStep ==
  ASSUME Typed, [SessionsNext]_allVars
  PROVE  Typed'
<1> USE DEF Typed
<1>1. ASSUME UNCHANGED directoryVars PROVE DirectoryTypeOK'
  BY <1>1 DEF directoryVars, DirectoryTypeOK
<1>2. ASSUME UNCHANGED sessionVars PROVE SessionsTypeOK' /\ InFlight'
  BY <1>2 DEF sessionVars, SessionsTypeOK, InFlight
<1>3. ASSUME NEW r \in Requests, SignIn(r)  PROVE Typed'
  BY <1>1, <1>3, SignInTyped DEF SignIn, Begin
<1>4. ASSUME NEW r \in Requests, Authenticate(r)  PROVE Typed'
  BY <1>1, <1>4, AuthenticateTyped DEF Authenticate, Begin
<1>5. ASSUME NEW r \in Requests, LookUp(r)  PROVE Typed'
  BY <1>1, <1>5, LookUpTyped DEF LookUp, Flush, Drop
<1>6. ASSUME NEW r \in Requests, WriteSession(r)  PROVE Typed'
  BY <1>1, <1>6, DoneTyped, DropTyped DEF WriteSession, Done, Drop
<1>7. ASSUME NEW r \in Requests, AppendEvent(r)  PROVE Typed'
  <2>1. pc[r] = "flushing" /\ (Done(r, "event") \/ Drop(r))
    BY <1>7 DEF AppendEvent
  <2> QED BY <1>1, <2>1, DoneTyped, DropTyped DEF Done, Drop
<1>8. ASSUME NEW r \in Requests, Commit(r)  PROVE Typed'
  BY <1>8, CommitTyped
<1>9. ASSUME NEW r \in Requests, Abort(r)  PROVE Typed'
  BY <1>1, <1>9, DropTyped DEF Abort, Drop
<1>10. ASSUME NEW s \in Sids, Expire(s)  PROVE Typed'
  BY <1>1, <1>10 DEF Expire, SessionsTypeOK, InFlight
<1>11. ASSUME Administer  PROVE Typed'
  <2>1. DirectoryNext
    BY <1>11 DEF Administer, DirectoryNext
  <2> QED BY <1>2, <1>11, <2>1, DirectoryTypeStep DEF Administer
<1>12. CASE UNCHANGED allVars
  BY <1>1, <1>2, <1>12 DEF allVars
<1> QED BY <1>3, <1>4, <1>5, <1>6, <1>7, <1>8, <1>9, <1>10, <1>11, <1>12 DEF SessionsNext

LEMMA SessionsTyped == SessionsSpec => []Typed
<1>1. SessionsInit => Typed
  BY DEF SessionsInit, DirectoryInit, Typed, DirectoryTypeOK, SessionsTypeOK, InFlight
<1> QED BY <1>1, SessionsTypeStep, PTL DEF SessionsSpec

\* The sessions and the requests in flight stay well typed.
THEOREM SessionsTypeCorrect == SessionsSpec => []SessionsTypeOK
BY SessionsTyped, PTL DEF Typed

-----------------------------------------------------------------------------
(* Choices. *)

\* Only commits write sessions and choices.
LEMMA OthersKeepSessions ==
  ASSUME [SessionsNext]_allVars, \A r \in Requests : ~Commit(r)
  PROVE  UNCHANGED <<sessions, choices>>
BY DEF SessionsNext, SignIn, Authenticate, LookUp, WriteSession, AppendEvent, Abort, Begin, Flush,
       Done, Drop, Expire, Administer, allVars, sessionVars

LEMMA ChoicesStep ==
  ASSUME Typed, TenantBackedByChoice, [SessionsNext]_allVars
  PROVE  TenantBackedByChoice'
<1> USE DEF Typed
<1>1. ASSUME NEW r \in Requests, Commit(r)  PROVE TenantBackedByChoice'
  <2> DEFINE w == work[r]
  <2>1. w \in Work /\ w.sid \in Sids /\ (w.op = "sign_in") = (sessions[w.sid] = NoRow)
    BY <1>1, CommitEffect
  <2>2. choices' = choices \union Recorded(w)
        /\ \A s \in Sids : \/ sessions'[s] = sessions[s]
                           \/ s = w.sid /\ sessions'[s] = Written(w)
    BY <1>1, CommitEffect DEF SessionsTypeOK
  <2>3. Written(w).tenant # NoTenant => <<w.sid, Written(w).tenant>> \in choices'
    <3>1. CASE w.op \in {"sign_in", "select"}
      BY <2>1, <2>2, <3>1, WrittenRow DEF Recorded
    <3>2. CASE w.op = "context"
      BY <2>1, <3>2, WrittenRow
    <3>3. CASE w.op = "logout"
      BY <2>1, <2>2, <3>3, WrittenRow DEF TenantBackedByChoice
    <3> QED BY <2>1, <3>1, <3>2, <3>3 DEF Work, SignInWork, SessionWork
  <2> QED BY <2>2, <2>3 DEF TenantBackedByChoice
<1>2. CASE \A r \in Requests : ~Commit(r)
  BY <1>2, OthersKeepSessions DEF TenantBackedByChoice
<1> QED BY <1>1, <1>2

\* For any number of overlapping selections, contexts and logouts, a session is in a
\* tenant only by a recorded choice.
THEOREM TenantsAreChosen == SessionsSpec => []TenantBackedByChoice
<1>1. SessionsInit => TenantBackedByChoice
  BY DEF SessionsInit, TenantBackedByChoice
<1> QED BY <1>1, SessionsTyped, ChoicesStep, PTL DEF SessionsSpec

LEMMA LogoutRefusal ==
  ASSUME Typed, NEW r \in Requests, WriteSession(r), pc'[r] = "idle", work[r].op = "logout"
  PROVE  sessions[work[r].sid].tenant # work[r].loaded.tenant
<1> USE DEF Typed
<1> DEFINE w == work[r]
<1>1. pc[r] = "flushing" /\ w \in Work /\ w # NoRow
  BY NoWorkAssumption DEF WriteSession, SessionsTypeOK, Work
<1>2. (w.op = "sign_in") = (sessions[w.sid] = NoRow)
  BY <1>1 DEF InFlight
<1>3. ~MayStore(Written(w))
  BY <1>1 DEF WriteSession, Done, SessionsTypeOK
<1>4. Written(w).tenant # NoTenant
  BY <1>3 DEF MayStore
<1> QED BY <1>1, <1>2, <1>4, WrittenRow

\* However many requests overlap, sessions_by_secret refuses no logout that has its
\* session to itself.
THEOREM LogoutsRefusedByRace == SessionsSpec => LogoutRefusedOnlyAfterRace
<1>1. Typed => [\A r \in Requests :
                  WriteSession(r) /\ pc'[r] = "idle" /\ work[r].op = "logout"
                  => sessions[work[r].sid].tenant # work[r].loaded.tenant]_allVars
  BY LogoutRefusal
<1> QED BY <1>1, SessionsTyped, PTL DEF LogoutRefusedOnlyAfterRace

-----------------------------------------------------------------------------
(* The refinement: a commit opens, chooses, clears or closes; every other step     *)
(* leaves the lifecycle alone.                                             *)

View(row) ==
  IF row = NoRow THEN NoRow
  ELSE IF row.revoked THEN Closed
  ELSE [user |-> row.user, tenant |-> row.tenant]

LEMMA ViewOpen ==
  ASSUME NEW row \in SessionRow
  PROVE  /\ View(row) # NoRow
         /\ ~row.revoked => View(row) = [user |-> row.user, tenant |-> row.tenant]
                            /\ View(row) # Closed
         /\ row.revoked => View(row) = Closed
<1>1. row # NoRow
  BY NoWorkAssumption
<1>2. [user |-> row.user, tenant |-> row.tenant]
        \in [user : Users, tenant : Tenants \union {NoTenant}]
  BY DEF SessionRow
<1> QED BY <1>1, <1>2, ClosedAssumption DEF View

\* A new version of an open session's row, of the same user.
LEMMA ViewMoves ==
  ASSUME NEW old \in SessionRow, NEW new \in SessionRow, ~old.revoked, ~new.revoked,
         new.user = old.user
  PROVE  View(new) = [View(old) EXCEPT !.tenant = new.tenant]
BY ViewOpen

LEMMA CommitRefines ==
  ASSUME Typed, NEW r \in Requests, Commit(r)
  PROVE  [Lifecycle!Next]_(Lifecycle!lifecycleVars)
<1> USE DEF Typed
<1> DEFINE session == [x \in Sids |-> View(sessions[x])]
<1>q. ASSUME Lifecycle!Next \/ UNCHANGED <<session, choices>>
      PROVE  [Lifecycle!Next]_(Lifecycle!lifecycleVars)
  BY <1>q DEF Lifecycle!lifecycleVars, View
<1>1. PICK w \in Work :
        /\ w.sid \in Sids /\ (w.op = "sign_in") = (sessions[w.sid] = NoRow)
        /\ \/ sessions' = [sessions EXCEPT ![w.sid] = Written(w)]
           \/ sessions' = sessions /\ w.op = "select"
        /\ choices' = choices \union Recorded(w)
        /\ Recorded(w) \subseteq Sids \X Tenants
  BY CommitEffect
<1>t. w.tenant \in Tenants \union {NoTenant}
  BY DEF Work, SignInWork, SessionWork
<1>2. PICK s \in Sids, new \in SessionRow, t \in Tenants \union {NoTenant} :
        /\ s = w.sid /\ new = Written(w) /\ t = w.tenant
        /\ w.op = "sign_in" => new.user = w.user /\ ~new.revoked
        /\ w.op # "sign_in" => sessions[s] \in SessionRow /\ new.user = sessions[s].user
        /\ w.op \in {"sign_in", "select"} => new.tenant = t
        /\ w.op \in {"select", "context"} => new.revoked = sessions[s].revoked
        /\ w.op = "context" => new.tenant = NoTenant
        /\ w.op = "logout" => new.revoked
  BY <1>1, <1>t, WrittenRow
<1>3. /\ session \in [Sids -> {View(sessions[x]) : x \in Sids}]
      /\ sessions' = [sessions EXCEPT ![s] = new] => session' = [session EXCEPT ![s] = View(new)]
      /\ sessions' = sessions => session' = session
      /\ session[s] = View(sessions[s])
  BY DEF SessionsTypeOK, View
<1>4. Recorded(w) = IF w.op \in {"sign_in", "select"} /\ t # NoTenant THEN {<<s, t>>} ELSE {}
  BY <1>2 DEF Recorded
<1>5. t # NoTenant /\ w.op \in {"sign_in", "select"} => t \in Tenants
  BY <1>1, <1>4
<1>6. CASE w.op = "sign_in"
  <2>1. session[s] = NoRow /\ View(new) = [user |-> w.user, tenant |-> t]
    BY <1>1, <1>2, <1>3, <1>6, ViewOpen DEF View
  <2>2. w.user \in Users /\ t \in Tenants \union {NoTenant}
    BY <1>2, <1>6 DEF Work, SignInWork, SessionWork
  <2>3. session' = [session EXCEPT ![s] = [user |-> w.user, tenant |-> t]]
    BY <1>1, <1>2, <1>3, <1>6, <2>1
  <2>4. choices' = IF t = NoTenant THEN choices ELSE choices \union {<<s, t>>}
    BY <1>1, <1>4, <1>6
  <2>5. Lifecycle!Open(s, w.user)
    BY <2>1, <2>2, <2>3, <2>4 DEF Lifecycle!Open, View
  <2> QED BY <1>q, <2>2, <2>5 DEF Lifecycle!Next
<1>7. CASE w.op # "sign_in" /\ sessions[s].revoked
  <2>1. session[s] = Closed /\ session[s] # NoRow
    BY <1>2, <1>3, <1>7, ViewOpen, ClosedAssumption
  <2>2. new.revoked
    BY <1>2, <1>7 DEF Work, SignInWork, SessionWork
  <2>3. View(new) = Closed
    BY <2>2, ViewOpen
  <2>4. session' = session
    BY <1>1, <1>2, <1>3, <2>1, <2>3
  <2>5. CASE Recorded(w) = {}
    BY <1>q, <1>1, <2>4, <2>5
  <2>6. CASE Recorded(w) # {}
    <3>1. t \in Tenants /\ choices' = choices \union {<<s, t>>}
      BY <1>1, <1>4, <1>5, <2>6
    <3>2. Lifecycle!Choose(s, t)
      BY <2>1, <2>4, <3>1 DEF Lifecycle!Choose, View
    <3> QED BY <1>q, <3>1, <3>2 DEF Lifecycle!Next
  <2> QED BY <2>5, <2>6
<1>8. CASE w.op # "sign_in" /\ ~sessions[s].revoked
  <2>1. session[s] \notin {NoRow, Closed}
    BY <1>2, <1>3, <1>8, ViewOpen
  <2>2. CASE w.op = "logout"
    <3>1. session' = [session EXCEPT ![s] = Closed] /\ choices' = choices
      BY <1>1, <1>2, <1>3, <1>4, <2>2, ViewOpen
    <3>2. Lifecycle!Close(s)
      BY <2>1, <3>1 DEF Lifecycle!Close, View
    <3> QED BY <1>q, <3>2 DEF Lifecycle!Next
  <2>3. CASE w.op \in {"select", "context"}
    <3>1. View(new) = [View(sessions[s]) EXCEPT !.tenant = new.tenant]
      BY <1>2, <1>8, <2>3, ViewMoves
    <3>2. \/ session' = [session EXCEPT ![s].tenant = new.tenant]
          \/ session' = session /\ w.op = "select"
      BY <1>1, <1>2, <1>3, <3>1
    <3>3. CASE Recorded(w) = {}
      <4>1. choices' = choices
        BY <1>1, <3>3
      <4>2. new.tenant = NoTenant
        BY <1>2, <1>4, <2>3, <3>3
      <4>3. session' = session \/ Lifecycle!Clear(s)
        BY <2>1, <3>2, <4>1, <4>2 DEF Lifecycle!Clear, View
      <4> QED BY <1>q, <4>1, <4>3 DEF Lifecycle!Next
    <3>4. CASE Recorded(w) # {}
      <4>1. t \in Tenants /\ choices' = choices \union {<<s, t>>} /\ new.tenant = t
        BY <1>1, <1>2, <1>4, <1>5, <3>4
      <4>2. Lifecycle!Choose(s, t)
        BY <2>1, <3>2, <4>1 DEF Lifecycle!Choose, View
      <4> QED BY <1>q, <4>1, <4>2 DEF Lifecycle!Next
    <3> QED BY <3>3, <3>4
  <2> QED BY <1>8, <2>2, <2>3 DEF Work, SignInWork, SessionWork
<1> QED BY <1>6, <1>7, <1>8

\* For any number of sessions and overlapping requests: nothing reopens a session,
\* hands it to another user or moves it without a recorded choice.
THEOREM SessionsFollowLifecycle == SessionsSpec => ImplementsLifecycle
<1>1. SessionsInit => Lifecycle!Init
  BY DEF SessionsInit, Lifecycle!Init
<1>2. Typed /\ [SessionsNext]_allVars => [Lifecycle!Next]_(Lifecycle!lifecycleVars)
  <2>1. ASSUME Typed, [SessionsNext]_allVars, \A r \in Requests : ~Commit(r)
        PROVE  UNCHANGED Lifecycle!lifecycleVars
    BY <2>1, OthersKeepSessions DEF Lifecycle!lifecycleVars
  <2> QED BY <2>1, CommitRefines
<1> QED BY <1>1, <1>2, SessionsTyped, PTL
        DEF SessionsSpec, ImplementsLifecycle, Lifecycle!Spec
=============================================================================
