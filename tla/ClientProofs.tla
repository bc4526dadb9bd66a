---------------------------- MODULE ClientProofs ----------------------------
(***************************************************************************)
(* What the shell shows and says of its session, for any set of tenants.   *)
(***************************************************************************)
EXTENDS Client, TLAPS

\* One step of the client keeps its state well typed.
LEMMA ClientTypeStep ==
  ASSUME ClientTypeOK, [Next]_vars
  PROVE  ClientTypeOK'
<1> USE DEF ClientTypeOK
<1>1. \A op \in {"me", "tenants", "select", "logout"}, t \in Tenants \union {NoTenant} :
        Ask(op, t) \in Calls
  BY DEF Ask, Calls
<1>2. ASSUME Serve PROVE ClientTypeOK'
  <2>1. ASSUME call # Nothing,
               NEW a \in {"none", "ok", "401", "403", "500", "lost"},
               NEW t \in Tenants \union {NoTenant}, NEW list \in SUBSET Tenants
        PROVE  /\ [call EXCEPT !.answer = a] \in Calls
               /\ [call EXCEPT !.answer = a, !.tenant = t] \in Calls
               /\ [call EXCEPT !.answer = a, !.list = list] \in Calls
    <3>1. call \in Calls
      BY <2>1
    <3> QED BY <3>1 DEF Calls
  <2>2. CASE ServeUnusable
    <3>1. call' \in Calls  BY <2>1, <2>2 DEF ServeUnusable
    <3> QED BY <2>2, <3>1 DEF ServeUnusable, serverVars, pageVars
  <2>3. CASE ServeMe
    <3>1. call' \in Calls  BY <2>1, <2>3 DEF ServeMe, Waiting
    <3> QED BY <2>3, <3>1 DEF ServeMe, serverVars, pageVars
  <2>4. CASE ServeTenants
    <3>1. call' \in Calls  BY <2>1, <2>4 DEF ServeTenants, Waiting
    <3> QED BY <2>4, <3>1 DEF ServeTenants, serverVars, pageVars
  <2>5. CASE ServeSelect
    <3>1. call' \in Calls /\ call \in Calls  BY <2>1, <2>5 DEF ServeSelect, Waiting
    <3>2. call.tenant \in Tenants \union {NoTenant}  BY <3>1 DEF Calls
    <3>3. tenant' \in Tenants \union {NoTenant} /\ own' \in BOOLEAN
      BY <2>5, <3>2 DEF ServeSelect
    <3> QED BY <2>5, <3>1, <3>3 DEF ServeSelect, pageVars
  <2>6. CASE ServeLogout
    <3>1. call' \in Calls  BY <2>1, <2>6 DEF ServeLogout, Waiting
    <3> QED BY <2>6, <3>1 DEF ServeLogout, pageVars
  <2> QED BY <1>2, <2>2, <2>3, <2>4, <2>5, <2>6 DEF Serve
<1>3. ASSUME FailCall PROVE ClientTypeOK'
  <2>1. call' \in Calls  BY <1>3 DEF FailCall, Calls
  <2> QED BY <1>3, <2>1 DEF FailCall, serverVars, pageVars
<1>4. ASSUME Take PROVE ClientTypeOK'
  <2>1. call # Nothing  BY <1>4 DEF Take, TakeMe, TakeTenants, TakeSelect, TakeLogout, Got
  <2>2. call \in Calls  BY <2>1
  <2>3. call.tenant \in Tenants \union {NoTenant} /\ call.list \in SUBSET Tenants
        /\ call.answer \in {"none", "ok", "401", "403", "500", "lost"}
    BY <2>2 DEF Calls
  <2>4. ASSUME NEW c \in Calls, Continue(c), UNCHANGED <<serverVars, save>>
        PROVE  ClientTypeOK'
    BY <2>4 DEF Continue, serverVars, pageVars
  <2>5. ASSUME NEW v \in {"loading", "anonymous", "authenticated", "expired", "denied", "error"},
               NEW t \in Tenants \union {NoTenant}, NEW list \in SUBSET Tenants,
               Settle(v, t, list), csrfCookie' \in BOOLEAN, UNCHANGED <<serverVars, save>>
        PROVE  ClientTypeOK'
    BY <2>5 DEF Settle, serverVars
  <2>6. ASSUME NEW v \in {"anonymous", "expired", "denied", "error"}, SettleOut(v),
               UNCHANGED <<serverVars, save>>
        PROVE  ClientTypeOK'
    <3>1. Settle(v, NoTenant, {}) /\ csrfCookie' = csrfCookie
      BY <2>6 DEF SettleOut
    <3>2. NoTenant \in Tenants \union {NoTenant} /\ {} \in SUBSET Tenants
      OBVIOUS
    <3>3. csrfCookie' \in BOOLEAN
      BY <3>1
    <3> QED BY <2>5, <2>6, <3>1, <3>2, <3>3
  <2>7. CASE TakeMe
    <3>1. CASE call.answer = "ok"
      <4>1. Ask("tenants", call.tenant) \in Calls  BY <1>1, <2>3
      <4> QED BY <2>4, <2>7, <3>1, <4>1 DEF TakeMe
    <3>2. CASE call.answer # "ok"
      <4>1. call.answer \in {"401", "403", "500", "lost"}  BY <2>3, <2>7, <3>2 DEF TakeMe, Got
      <4>2. Unauthenticated(call.answer) \in {"anonymous", "expired", "denied", "error"}
        BY <4>1 DEF Unauthenticated
      <4> QED BY <2>6, <2>7, <3>2, <4>2 DEF TakeMe
    <3> QED BY <3>1, <3>2
  <2>8. CASE TakeTenants
    <3>1. CASE call.answer = "ok"
      BY <2>3, <2>5, <2>8, <3>1 DEF TakeTenants
    <3>2. CASE call.answer # "ok"
      BY <2>6, <2>8, <3>2 DEF TakeTenants
    <3> QED BY <3>1, <3>2
  <2>9. CASE TakeSelect
    <3>1. Ask("me", NoTenant) \in Calls  BY <1>1
    <3> QED BY <2>4, <2>6, <2>9, <3>1 DEF TakeSelect, Refuse
  <2>10. CASE TakeLogout
    <3>1. CASE call.answer = "ok"
      <4>1. Settle("anonymous", NoTenant, {}) /\ csrfCookie' \in BOOLEAN
            /\ UNCHANGED <<serverVars, save>>
        BY <2>10, <3>1 DEF TakeLogout
      <4>2. NoTenant \in Tenants \union {NoTenant} /\ {} \in SUBSET Tenants
        OBVIOUS
      <4> QED BY <2>5, <4>1, <4>2
    <3>2. CASE call.answer # "ok"
      BY <2>6, <2>10, <3>2 DEF TakeLogout, Refuse
    <3> QED BY <3>1, <3>2
  <2> QED BY <1>4, <2>7, <2>8, <2>9, <2>10 DEF Take
<1>5. ASSUME (\E t \in Tenants : Select(t)) \/ Logout PROVE ClientTypeOK'
  <2>1. PICK c \in Calls : Press(c)
    BY <1>1, <1>5 DEF Select, Logout
  <2> QED BY <2>1 DEF Press, serverVars
<1>6. ASSUME NEW t \in Tenants, SelectElsewhere(t) \/ SetMembership(t) PROVE ClientTypeOK'
  BY <1>6 DEF SelectElsewhere, SetMembership, pageVars
<1>7. ASSUME CloseElsewhere \/ DeleteCookies \/ SetStatus PROVE ClientTypeOK'
  BY <1>7 DEF CloseElsewhere, DeleteCookies, SetStatus, serverVars, pageVars
<1>8. ASSUME NEW change \in Changes, StartSave(change) PROVE ClientTypeOK'
  <2>1. save' \in Saves  BY <1>8 DEF StartSave, Saves
  <2> QED BY <1>8, <2>1 DEF StartSave, serverVars, pageVars
<1>9. ASSUME ServeSave \/ LoseSave \/ TakeSave PROVE ClientTypeOK'
  <2>1. save \in Saves  BY <1>9 DEF ServeSave, LoseSave, TakeSave
  <2>2. save' \in Saves \union {Nothing}
    BY <1>9, <2>1 DEF ServeSave, LoseSave, TakeSave, Saves
  <2>3. UNCHANGED <<serverVars, csrfCookie, pageVars, call>>
    BY <1>9 DEF ServeSave, LoseSave, TakeSave
  <2> QED BY <2>2, <2>3 DEF serverVars, pageVars
<1>10. CASE UNCHANGED vars
  BY <1>10 DEF vars, serverVars, pageVars
<1> QED BY <1>2, <1>3, <1>4, <1>5, <1>6, <1>7, <1>8, <1>9, <1>10 DEF Next

\* The client's state stays well typed.
THEOREM ClientTypeCorrect == Spec => []ClientTypeOK
<1>1. Init => ClientTypeOK
  <2> SUFFICES ASSUME Init PROVE ClientTypeOK
    OBVIOUS
  <2>1. call \in Calls
    BY DEF Init, Ask, Calls
  <2>2. listed \subseteq Tenants /\ member \subseteq Tenants
    BY DEF Init
  <2> QED BY <2>1, <2>2 DEF Init, ClientTypeOK
<1> QED BY <1>1, ClientTypeStep, PTL DEF Spec

-----------------------------------------------------------------------------
\* Why the shell is not left behind by its own choice: while a load is on its way the
\* tenant travels with it, and while no choice is on its way it is shown.
SelectionInv ==
  /\ call # Nothing /\ view = "authenticated" => busy
  /\ call # Nothing /\ call.op \in {"select", "logout"} => busy
  /\ own /\ view = "authenticated"
     /\ (call = Nothing \/ (call.op \in {"select", "logout"} /\ call.answer = "none"))
       => shown = tenant
  /\ own /\ call # Nothing /\ call.op = "me" /\ call.answer = "ok" => call.tenant = tenant
  /\ own /\ call # Nothing /\ call.op = "tenants" => call.tenant = tenant

LEMMA SelectionStep ==
  ASSUME ClientTypeOK, SelectionInv, [Next]_vars
  PROVE  SelectionInv'
<1> USE DEF SelectionInv
<1>1. call # Nothing => call \in Calls
  BY DEF ClientTypeOK
<1>2. \A c \in Calls : c # Nothing
  BY NothingAssumption
<1>3. ASSUME Serve PROVE SelectionInv'
  <2>1. UNCHANGED pageVars  BY <1>3 DEF Serve, ServeUnusable, ServeMe, ServeTenants, ServeSelect, ServeLogout
  <2>2. call # Nothing /\ call \in Calls /\ call.answer = "none"
    BY <1>1, <1>3 DEF Serve, ServeUnusable, ServeMe, ServeTenants, ServeSelect, ServeLogout, Waiting
  <2>3. CASE ServeUnusable
    <3>1. /\ call' \in Calls
          /\ call'.op = call.op /\ call'.answer = "401" /\ call'.tenant = call.tenant
      BY <2>2, <2>3 DEF ServeUnusable, Calls
    <3> QED BY <1>2, <2>1, <2>2, <2>3, <3>1 DEF ServeUnusable, serverVars, pageVars
  <2>4. CASE ServeMe
    <3>1. call' \in Calls /\ call'.op = "me" /\ call'.tenant = tenant
      BY <2>2, <2>4 DEF ServeMe, Waiting, ClientTypeOK, Calls
    <3> QED BY <1>2, <2>1, <2>2, <2>4, <3>1 DEF ServeMe, serverVars, pageVars
  <2>5. CASE ServeTenants
    <3>1. /\ call' \in Calls
          /\ call'.op = "tenants" /\ call'.tenant = call.tenant /\ call.op = "tenants"
      BY <2>2, <2>5 DEF ServeTenants, Waiting, ClientTypeOK, Calls
    <3> QED BY <1>2, <2>1, <2>2, <2>5, <3>1 DEF ServeTenants, serverVars, pageVars
  <2>6. CASE ServeSelect
    <3>1. PICK a \in {"ok", "403"} : call' = [call EXCEPT !.answer = a]
      BY <2>6 DEF ServeSelect
    <3>2. call.op = "select"
      BY <2>6 DEF ServeSelect, Waiting
    <3>3. call' \in Calls /\ call'.op = "select" /\ call'.answer = a
      BY <2>2, <3>1, <3>2 DEF Calls
    <3> QED BY <1>2, <2>1, <2>2, <2>6, <3>2, <3>3 DEF ServeSelect, pageVars
  <2>7. CASE ServeLogout
    <3>1. call' \in Calls /\ call'.op = "logout" /\ call.op = "logout" /\ call'.answer = "ok"
      BY <2>2, <2>7 DEF ServeLogout, Waiting, Calls
    <3> QED BY <1>2, <2>1, <2>2, <2>7, <3>1 DEF ServeLogout, pageVars
  <2> QED BY <1>3, <2>3, <2>4, <2>5, <2>6, <2>7 DEF Serve
<1>4. ASSUME FailCall PROVE SelectionInv'
  <2>1. PICK a \in {"500", "lost"} : call' = [call EXCEPT !.answer = a]
    BY <1>4 DEF FailCall
  <2>2. call # Nothing /\ call \in Calls
    BY <1>1, <1>4 DEF FailCall
  <2>3. call' \in Calls /\ call'.op = call.op /\ call'.answer = a /\ call'.tenant = call.tenant
    BY <2>1, <2>2 DEF Calls
  <2> QED BY <1>2, <1>4, <2>2, <2>3 DEF FailCall, serverVars, pageVars
<1>5. ASSUME Take PROVE SelectionInv'
  <2>1. call # Nothing
    BY <1>5 DEF Take, TakeMe, TakeTenants, TakeSelect, TakeLogout, Got
  <2>2. UNCHANGED serverVars
    BY <1>5 DEF Take, TakeMe, TakeTenants, TakeSelect, TakeLogout
  <2>3. ASSUME NEW v \in {"anonymous", "expired", "denied", "error"}, NEW t, NEW list,
               Settle(v, t, list)
        PROVE  SelectionInv'
    BY <2>3 DEF Settle
  <2>4. CASE TakeMe /\ call.answer = "ok"
    <3>1. call' = [op |-> "tenants", answer |-> "none", tenant |-> call.tenant, list |-> {}]
      BY <2>4 DEF TakeMe, Continue, Ask
    <3>2. call' # Nothing
      BY <1>1, <1>2, <2>1, <3>1 DEF Calls
    <3> QED BY <2>1, <2>2, <3>2, <2>4, <3>1 DEF TakeMe, Got, Continue, serverVars, pageVars
  <2>5. CASE TakeMe /\ call.answer # "ok"
    <3>1. call.answer \in {"401", "403", "500", "lost"}
      BY <1>1, <2>1, <2>5 DEF TakeMe, Got, Calls
    <3>2. Unauthenticated(call.answer) \in {"anonymous", "expired", "denied", "error"}
      BY <3>1 DEF Unauthenticated
    <3> QED BY <2>3, <2>5, <3>2 DEF TakeMe, SettleOut
  <2>6. CASE TakeTenants /\ call.answer = "ok"
    BY <2>1, <2>2, <2>6 DEF TakeTenants, Got, Settle, serverVars
  <2>7. CASE TakeTenants /\ call.answer # "ok"
    BY <2>3, <2>7 DEF TakeTenants, SettleOut
  <2>8. CASE TakeSelect /\ call.answer = "ok"
    <3>1. call' = [op |-> "me", answer |-> "none", tenant |-> NoTenant, list |-> {}]
      BY <2>8 DEF TakeSelect, Continue, Ask
    <3>2. call' # Nothing
      BY <1>2, <3>1 DEF Calls
    <3> QED BY <2>1, <2>2, <3>2, <2>8, <3>1 DEF TakeSelect, Got, Continue, serverVars, pageVars
  <2>9. CASE (TakeSelect \/ TakeLogout) /\ call.answer # "ok"
    BY <2>3, <2>9 DEF TakeSelect, TakeLogout, Refuse, SettleOut
  <2>10. CASE TakeLogout /\ call.answer = "ok"
    BY <2>3, <2>10 DEF TakeLogout
  <2> QED BY <1>5, <2>4, <2>5, <2>6, <2>7, <2>8, <2>9, <2>10 DEF Take
<1>6. ASSUME NEW t \in Tenants, Select(t) PROVE SelectionInv'
  <2>1. call' = [op |-> "select", answer |-> "none", tenant |-> t, list |-> {}]
    BY <1>6 DEF Select, Press, Ask
  <2> QED BY <1>6, <2>1 DEF Select, Press, serverVars
<1>7. ASSUME Logout PROVE SelectionInv'
  <2>1. call' = [op |-> "logout", answer |-> "none", tenant |-> NoTenant, list |-> {}]
    BY <1>7 DEF Logout, Press, Ask
  <2> QED BY <1>7, <2>1 DEF Logout, Press, serverVars
<1>8. ASSUME (\E t \in Tenants : SelectElsewhere(t)) \/ CloseElsewhere PROVE SelectionInv'
  BY <1>8 DEF SelectElsewhere, CloseElsewhere, pageVars
<1>9. ASSUME UNCHANGED <<tenant, own, pageVars, call>> PROVE SelectionInv'
  BY <1>9 DEF pageVars
<1>10. CASE UNCHANGED vars
  BY <1>9, <1>10 DEF vars, serverVars, pageVars
<1>11. ASSUME \/ \E t \in Tenants : SetMembership(t)
              \/ \E change \in Changes : StartSave(change)
              \/ ServeSave \/ LoseSave \/ TakeSave \/ DeleteCookies \/ SetStatus
       PROVE  SelectionInv'
  BY <1>9, <1>11 DEF SetMembership, StartSave, ServeSave, LoseSave, TakeSave, DeleteCookies,
                     SetStatus, serverVars, pageVars
<1> QED BY <1>3, <1>4, <1>5, <1>6, <1>7, <1>8, <1>10, <1>11 DEF Next

\* A shell that is not busy shows the tenant of its own last choice, whatever answers
\* were lost or late.
THEOREM OwnSelectionShown == Spec => []ShowsOwnSelection
<1>1. Init => SelectionInv
  BY DEF Init, SelectionInv, Ask
<1>2. ClientTypeOK /\ SelectionInv => ShowsOwnSelection
  BY DEF SelectionInv, ShowsOwnSelection
<1>3. Spec => []SelectionInv
  BY <1>1, ClientTypeCorrect, SelectionStep, PTL DEF Spec
<1> QED BY <1>2, <1>3, ClientTypeCorrect, PTL

-----------------------------------------------------------------------------
\* The pm_csrf cookie goes only with the session, so that a load which is refused for
\* a disabled user finds it; a logout that was told ok has closed the session.
ClosedInv ==
  /\ AnonymousMeansClosed
  /\ csrfCookie = FALSE => session = "closed"
  /\ call # Nothing /\ call.op = "logout" /\ call.answer = "ok" => session = "closed"

LEMMA ClosedStep ==
  ASSUME ClientTypeOK, ClosedInv, [Next]_vars
  PROVE  ClosedInv'
<1> USE DEF ClosedInv, AnonymousMeansClosed
<1>1. call # Nothing => call \in Calls
  BY DEF ClientTypeOK
<1>2. session = "closed" => session' = "closed"
  BY DEF Next, Serve, ServeUnusable, ServeMe, ServeTenants, ServeSelect, ServeLogout, FailCall,
         Take, TakeMe, TakeTenants, TakeSelect, TakeLogout, Select, Logout, Press,
         SelectElsewhere, SetMembership, StartSave, ServeSave, LoseSave, TakeSave,
         CloseElsewhere, DeleteCookies, SetStatus, serverVars, vars
<1>3. ASSUME Serve PROVE ClosedInv'
  <2>1. UNCHANGED <<view, csrfCookie>>
    BY <1>3 DEF Serve, ServeUnusable, ServeMe, ServeTenants, ServeSelect, ServeLogout, pageVars
  <2>2. call # Nothing /\ call \in Calls
    BY <1>1, <1>3 DEF Serve, ServeUnusable, ServeMe, ServeTenants, ServeSelect, ServeLogout, Waiting
  <2>3. CASE ServeUnusable
    <3>1. call'.answer = "401"
      BY <2>2, <2>3 DEF ServeUnusable, Calls
    <3> QED BY <1>2, <2>1, <3>1
  <2>4. CASE ServeMe \/ ServeTenants \/ ServeSelect
    <3>1. call'.op = call.op /\ call.op # "logout"
      BY <2>2, <2>4 DEF ServeMe, ServeTenants, ServeSelect, Waiting, Calls
    <3> QED BY <1>2, <2>1, <3>1
  <2>5. CASE ServeLogout
    BY <2>1, <2>5 DEF ServeLogout
  <2> QED BY <1>3, <2>3, <2>4, <2>5 DEF Serve
<1>4. ASSUME FailCall PROVE ClosedInv'
  <2>1. call # Nothing /\ call \in Calls
    BY <1>1, <1>4 DEF FailCall
  <2>2. call'.answer \in {"500", "lost"}
    BY <1>4, <2>1 DEF FailCall, Calls
  <2> QED BY <1>2, <1>4, <2>2 DEF FailCall, pageVars
<1>5. ASSUME Take PROVE ClosedInv'
  <2>1. call # Nothing /\ call \in Calls
    BY <1>1, <1>5 DEF Take, TakeMe, TakeTenants, TakeSelect, TakeLogout, Got
  <2>2. ASSUME NEW v, NEW t, NEW list, Settle(v, t, list),
               v = "anonymous" => session = "closed",
               csrfCookie' = csrfCookie \/ session = "closed"
        PROVE  ClosedInv'
    BY <1>2, <2>2 DEF Settle
  <2>3. ASSUME NEW op, NEW t, Continue(Ask(op, t))
        PROVE  ClosedInv'
    <3>1. call'.answer = "none"
      BY <2>3 DEF Continue, Ask
    <3> QED BY <1>2, <2>3, <3>1 DEF Continue, pageVars
  <2>4. CASE TakeMe /\ call.answer # "ok"
    <3>1. call.answer \in {"401", "403", "500", "lost"}
      BY <2>1, <2>4 DEF TakeMe, Got, Calls
    <3>2. Unauthenticated(call.answer) = "anonymous" => csrfCookie = FALSE
      BY <3>1 DEF Unauthenticated, ClientTypeOK
    <3> QED BY <2>2, <2>4, <3>2 DEF TakeMe, SettleOut
  <2>5. CASE TakeMe /\ call.answer = "ok"
    BY <2>3, <2>5 DEF TakeMe
  <2>6. CASE TakeTenants
    BY <2>2, <2>6 DEF TakeTenants, SettleOut
  <2>7. CASE TakeSelect
    BY <2>2, <2>3, <2>7 DEF TakeSelect, Refuse, SettleOut
  <2>8. CASE TakeLogout
    BY <2>1, <2>2, <2>8 DEF TakeLogout, Got, Refuse, SettleOut
  <2> QED BY <1>5, <2>4, <2>5, <2>6, <2>7, <2>8 DEF Take
<1>6. ASSUME (\E t \in Tenants : Select(t)) \/ Logout PROVE ClosedInv'
  <2>1. PICK op \in {"select", "logout"}, t \in Tenants \union {NoTenant} : Press(Ask(op, t))
    BY <1>6 DEF Select, Logout
  <2>2. call'.answer = "none"
    BY <2>1 DEF Press, Ask
  <2> QED BY <1>2, <2>1, <2>2 DEF Press
<1>7. ASSUME UNCHANGED <<view, call>>, csrfCookie' = csrfCookie \/ session = "closed"
      PROVE  ClosedInv'
  BY <1>2, <1>7
<1>8. CASE UNCHANGED vars
  BY <1>7, <1>8 DEF vars, pageVars
<1>9. ASSUME \/ \E t \in Tenants : SelectElsewhere(t) \/ SetMembership(t)
             \/ \E change \in Changes : StartSave(change)
             \/ ServeSave \/ LoseSave \/ TakeSave \/ CloseElsewhere \/ DeleteCookies \/ SetStatus
      PROVE  ClosedInv'
  BY <1>7, <1>9 DEF SelectElsewhere, SetMembership, StartSave, ServeSave, LoseSave, TakeSave,
                    CloseElsewhere, DeleteCookies, SetStatus, pageVars
<1> QED BY <1>3, <1>4, <1>5, <1>6, <1>8, <1>9 DEF Next

\* The page says "anonymous" only of a session that is closed for good: neither a logout
\* that is refused, for a disabled user too, nor a load after one passes for a logout
\* (logout of the identity shell, unauthenticatedState).
THEOREM AnonymousIsClosed == Spec => []AnonymousMeansClosed
<1>1. Init => ClosedInv
  BY DEF Init, ClosedInv, AnonymousMeansClosed, Ask
<1>2. Spec => []ClosedInv
  BY <1>1, ClientTypeCorrect, ClosedStep, PTL DEF Spec
<1> QED BY <1>2, PTL DEF ClosedInv
=============================================================================
