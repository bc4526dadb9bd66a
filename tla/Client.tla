------------------------------- MODULE Client -------------------------------
(***************************************************************************)
(* A page of the web client, with the other tabs that share its session.   *)
(* Its identity shell loads the identity and then the memberships, selects *)
(* a tenant and logs out; its organization workspace saves changes and     *)
(* loads its lists again.  All of it goes through the proxy under          *)
(* /api/identity.  An answer may come late, become a 500 on its way back,  *)
(* or never come, with the request carried out or not.                     *)
(***************************************************************************)
EXTENDS Naturals, Sequences

CONSTANTS
  Tenants,
  NoTenant,
  Nothing     \* no request in flight

VARIABLES
  session,    \* the session of the browser's cookie: open, or not any more
  active,     \* its user's status is active
  tenant,     \* its current_tenant_id
  own,        \* that tenant was selected in this page
  member,     \* the tenants of the user's active memberships
  csrfCookie, \* the browser has the pm_csrf cookie
  view, shown, listed, busy,   \* the shell: its state, its tenant, its list
  call,       \* its request: what it asks for, and what it got
  save        \* the request of the workspace

serverVars == <<session, active, tenant, own, member>>
pageVars == <<view, shown, listed, busy>>
vars == <<serverVars, csrfCookie, pageVars, call, save>>

\* The changes that the workspace saves, each with the segments of its path; uuid4
\* stands for the id of a unit, as str(uuid4()) gives it.
Path == [create_site |-> <<"organization", "units">>,
         save_unit |-> <<"organization", "units", "uuid4">>,
         move_unit |-> <<"organization", "units", "uuid4", "move">>,
         archive_unit |-> <<"organization", "units", "uuid4", "archive">>,
         add_assignment |-> <<"organization", "assignments">>]
Changes == DOMAIN Path

Calls == [op : {"me", "tenants", "select", "logout"},
          answer : {"none", "ok", "401", "403", "500", "lost"},
          tenant : Tenants \union {NoTenant}, list : SUBSET Tenants]
Saves == [change : Changes, progress : {"sent", "ok", "refused", "lost", "loading"}]

ASSUME NoTenantAssumption == NoTenant \notin Tenants
ASSUME NothingAssumption == Nothing \notin Calls \union Saves

ClientTypeOK ==
  /\ session \in {"open", "closed"}
  /\ active \in BOOLEAN
  /\ tenant \in Tenants \union {NoTenant}
  /\ own \in BOOLEAN
  /\ member \subseteq Tenants
  /\ csrfCookie \in BOOLEAN
  /\ view \in {"loading", "anonymous", "authenticated", "expired", "denied", "error"}
  /\ shown \in Tenants \union {NoTenant}
  /\ listed \subseteq Tenants
  /\ busy \in BOOLEAN
  /\ call \in Calls \union {Nothing}
  /\ save \in Saves \union {Nothing}

Ask(op, t) == [op |-> op, answer |-> "none", tenant |-> t, list |-> {}]

\* The page is opened with a session in any tenant.
Init ==
  /\ session = "open" /\ active = TRUE /\ csrfCookie = TRUE
  /\ tenant \in Tenants \union {NoTenant}
  /\ own = FALSE
  /\ member \in SUBSET Tenants
  /\ view = "loading" /\ shown = NoTenant /\ listed = {} /\ busy = FALSE
  /\ call = Ask("me", NoTenant)
  /\ save = Nothing

-----------------------------------------------------------------------------
(* The service, and the way to it and back. *)

Waiting(op) == call # Nothing /\ call.op = op /\ call.answer = "none"

\* require_session lets a request pass: the session is neither revoked nor past its
\* time, and its user is active.
Usable == session = "open" /\ active

\* Its 401, for a session that may work again once its user is active again.
ServeUnusable ==
  /\ call # Nothing /\ call.answer = "none" /\ ~Usable
  /\ call' = [call EXCEPT !.answer = "401"]
  /\ UNCHANGED <<serverVars, csrfCookie, pageVars, save>>

ServeMe ==
  /\ Waiting("me") /\ Usable
  /\ call' = [call EXCEPT !.answer = "ok", !.tenant = tenant]
  /\ UNCHANGED <<serverVars, csrfCookie, pageVars, save>>

ServeTenants ==
  /\ Waiting("tenants") /\ Usable
  /\ call' = [call EXCEPT !.answer = "ok", !.list = member]
  /\ UNCHANGED <<serverVars, csrfCookie, pageVars, save>>

ServeSelect ==
  /\ Waiting("select") /\ Usable
  /\ IF call.tenant \in member
     THEN /\ call' = [call EXCEPT !.answer = "ok"]
          /\ tenant' = call.tenant /\ own' = TRUE
     ELSE call' = [call EXCEPT !.answer = "403"] /\ UNCHANGED <<tenant, own>>
  /\ UNCHANGED <<session, active, member, csrfCookie, pageVars, save>>

ServeLogout ==
  /\ Waiting("logout") /\ Usable
  /\ call' = [call EXCEPT !.answer = "ok"]
  /\ session' = "closed" /\ tenant' = NoTenant /\ own' = FALSE
  /\ UNCHANGED <<active, member, csrfCookie, pageVars, save>>

\* The proxy cannot reach the service or loses its answer, so that fetch throws in the
\* route handler and the page gets a 500; or the page's own fetch is rejected.
FailCall ==
  /\ call # Nothing /\ call.answer # "lost"
  /\ \E answer \in {"500", "lost"} : call' = [call EXCEPT !.answer = answer]
  /\ UNCHANGED <<serverVars, csrfCookie, pageVars, save>>

-----------------------------------------------------------------------------
(* The identity shell. *)

Got(op) == call # Nothing /\ call.op = op /\ call.answer # "none"

Continue(c) == call' = c /\ UNCHANGED <<csrfCookie, pageVars>>

\* The handler has come to its end: nothing is seen any more of the identity and the
\* list, unless the view is authenticated.
Settle(v, t, list) ==
  /\ view' = v /\ shown' = t /\ listed' = list
  /\ busy' = FALSE
  /\ call' = Nothing

SettleOut(v) == Settle(v, NoTenant, {}) /\ UNCHANGED csrfCookie

\* unauthenticatedState, and error for a rejected fetch
Unauthenticated(answer) ==
  CASE answer = "401" -> IF csrfCookie THEN "expired" ELSE "anonymous"
    [] answer = "403" -> "denied"
    [] answer \in {"500", "lost"} -> "error"

\* loadIdentity, first answer
TakeMe ==
  /\ Got("me")
  /\ IF call.answer = "ok" THEN Continue(Ask("tenants", call.tenant))
     ELSE SettleOut(Unauthenticated(call.answer))
  /\ UNCHANGED <<serverVars, save>>

\* loadIdentity, second answer: the tenant is the one that the first gave.
TakeTenants ==
  /\ Got("tenants")
  /\ IF call.answer = "ok"
     THEN Settle("authenticated", call.tenant, call.list) /\ UNCHANGED csrfCookie
     ELSE SettleOut("error")
  /\ UNCHANGED <<serverVars, save>>

Press(c) ==
  /\ view = "authenticated" /\ ~busy
  /\ busy' = TRUE
  /\ call' = c
  /\ UNCHANGED <<serverVars, csrfCookie, view, shown, listed, save>>

Select(t) == t \in listed \ {shown} /\ Press(Ask("select", t))

Logout == Press(Ask("logout", NoTenant))

\* What both handlers do of an answer that is not ok.
Refuse == SettleOut(IF call.answer = "403" THEN "denied" ELSE "error")

(* An operator with an underscore is a plausible mistake in the definition   *)
(* that its name begins with; no specification uses it.                    *)
TakeSelect_CatchesLoss ==
  /\ Got("select")
  /\ CASE call.answer = "ok" -> Continue(Ask("me", NoTenant))
       [] call.answer = "lost" ->
            Settle("authenticated", shown, listed) /\ UNCHANGED csrfCookie
       [] OTHER -> Refuse
  /\ UNCHANGED <<serverVars, save>>

\* selectTenant, from its answer on.  A rejected fetch leaves it there, busy.
TakeSelect ==
  /\ Got("select") /\ call.answer # "lost"
  /\ IF call.answer = "ok" THEN Continue(Ask("me", NoTenant)) ELSE Refuse
  /\ UNCHANGED <<serverVars, save>>

TakeLogout_401IsDone ==
  /\ Got("logout") /\ call.answer # "lost"
  /\ IF call.answer \in {"ok", "401"}
     THEN Settle("anonymous", NoTenant, {}) /\ csrfCookie' = FALSE
     ELSE Refuse
  /\ UNCHANGED <<serverVars, save>>


\* logout, from its answer on: that of a service which has revoked the session
\* deletes the cookies.
TakeLogout ==
  /\ Got("logout") /\ call.answer # "lost"
  /\ IF call.answer = "ok"
     THEN Settle("anonymous", NoTenant, {}) /\ csrfCookie' = FALSE
     ELSE Refuse
  /\ UNCHANGED <<serverVars, save>>

-----------------------------------------------------------------------------
(* The organization workspace. *)

\* It is mounted while the shell shows an organization of its list.
StartSave(change) ==
  /\ view = "authenticated" /\ shown \in listed
  /\ save = Nothing
  /\ save' = [change |-> change, progress |-> "sent"]
  /\ UNCHANGED <<serverVars, csrfCookie, pageVars, call>>

\* The segments that match routeSegment, letters and hyphens only; every uuid4 has the
\* digit 4 of its version.
RouteSegments == {"auth", "tenant", "audit", "organization", "units", "move", "archive", "assignments"}

\* The proxy passes on a path of an allowed root whose segments all match.
Forwarded(path) ==
  /\ path # <<>> /\ path[1] \in {"auth", "tenant", "audit", "organization"}
  /\ \A i \in DOMAIN path : path[i] \in RouteSegments

\* The request of mutate: stopped by the proxy, or answered by the service, which
\* needs a usable session in a tenant of the user's.
ServeSave ==
  /\ save # Nothing /\ save.progress = "sent"
  /\ \E result \in {"ok", "refused"} :
       /\ result = "ok" =>
            Forwarded(Path[save.change]) /\ Usable /\ tenant \in member
       /\ save' = [save EXCEPT !.progress = result]
  /\ UNCHANGED <<serverVars, csrfCookie, pageVars, call>>

\* The page's fetch is rejected, with the change carried out or not.
LoseSave ==
  /\ save # Nothing /\ save.progress \in {"sent", "ok", "refused"}
  /\ save' = [save EXCEPT !.progress = "lost"]
  /\ UNCHANGED <<serverVars, csrfCookie, pageVars, call>>

TakeSave_WithoutFinally ==
  /\ save # Nothing /\ save.progress \notin {"sent", "lost"}
  /\ save' = IF save.progress = "ok" THEN [save EXCEPT !.progress = "loading"] ELSE Nothing
  /\ UNCHANGED <<serverVars, csrfCookie, pageVars, call>>

\* mutate, from an answer on: its finally clears saving however the fetch ended, and
\* load catches whatever its three fetches end with.
TakeSave ==
  /\ save # Nothing /\ save.progress # "sent"
  /\ save' = IF save.progress = "ok" THEN [save EXCEPT !.progress = "loading"] ELSE Nothing
  /\ UNCHANGED <<serverVars, csrfCookie, pageVars, call>>

-----------------------------------------------------------------------------
(* Other tabs of the browser, and the administrator. *)

SelectElsewhere(t) ==
  /\ Usable /\ t \in member
  /\ tenant' = t /\ own' = FALSE
  /\ UNCHANGED <<session, active, member, csrfCookie, pageVars, call, save>>

\* A logout, or the end of the session's time, which a disabled user's has too.
CloseElsewhere ==
  /\ session = "open" /\ session' = "closed"
  /\ tenant' = NoTenant /\ own' = FALSE
  /\ UNCHANGED <<active, member, csrfCookie, pageVars, call, save>>

\* The answer of a logout elsewhere deletes the cookies of the browser.
DeleteCookies ==
  /\ session = "closed" /\ csrfCookie' = FALSE
  /\ UNCHANGED <<serverVars, pageVars, call, save>>

SetMembership(t) ==
  /\ member' = IF t \in member THEN member \ {t} ELSE member \union {t}
  /\ UNCHANGED <<session, active, tenant, own, csrfCookie, pageVars, call, save>>

\* The user is disabled, or active again.
SetStatus ==
  /\ active' = ~active
  /\ UNCHANGED <<session, tenant, own, member, csrfCookie, pageVars, call, save>>

Serve == ServeUnusable \/ ServeMe \/ ServeTenants \/ ServeSelect \/ ServeLogout
Take == TakeMe \/ TakeTenants \/ TakeSelect \/ TakeLogout

Next ==
  \/ Serve \/ FailCall \/ Take
  \/ \E t \in Tenants : Select(t) \/ SelectElsewhere(t) \/ SetMembership(t)
  \/ Logout
  \/ \E change \in Changes : StartSave(change)
  \/ ServeSave \/ LoseSave \/ TakeSave
  \/ CloseElsewhere \/ DeleteCookies \/ SetStatus

Spec == Init /\ [][Next]_vars

\* A fetch ends, with an answer or without one, and the page handles what it got.
Fairness ==
  /\ WF_vars(Serve \/ FailCall) /\ WF_vars(Take)
  /\ WF_vars(ServeSave \/ LoseSave) /\ WF_vars(TakeSave)

FairSpec == Spec /\ Fairness

-----------------------------------------------------------------------------
(* Properties. *)

\* A shell that lets its user choose an organization shows the one the session is in,
\* if its own choice was the last: neither a lost answer nor the load that follows
\* a choice leaves it behind.
ShowsOwnSelection == view = "authenticated" /\ ~busy /\ own => shown = tenant

\* The page says that nobody is signed in only when its session is closed for good: a
\* refused logout, also that of a user who is disabled for a while, never passes for
\* one, nor does a load that such a user's session is refused.
AnonymousMeansClosed == view = "anonymous" => session = "closed"


\* The workspace's controls are released after every save, also a rejected one.
EverySaveEnds == save # Nothing ~> save = Nothing
=============================================================================
