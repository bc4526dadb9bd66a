-------------------------- MODULE SessionLifecycle --------------------------
(***************************************************************************)
(* What an application session promises, whatever its requests do to each  *)
(* other: it is opened once, for one user, it moves between tenants while  *)
(* it is open, each move backed by a recorded choice, and once closed it   *)
(* is closed for good, whoever still writes into its row.                  *)
(***************************************************************************)
CONSTANTS
  Sids, Users, Tenants,
  NoTenant,   \* no tenant is selected
  Absent,     \* the session was never opened
  Closed      \* it was revoked

VARIABLES
  session,    \* Absent, Closed, or the user and tenant of an open session
  choices     \* the recorded choices: pairs of a session and a tenant

lifecycleVars == <<session, choices>>

Init == session = [s \in Sids |-> Absent] /\ choices = {}

Open(s, u) ==
  \E t \in Tenants \union {NoTenant} :
    /\ session[s] = Absent
    /\ session' = [session EXCEPT ![s] = [user |-> u, tenant |-> t]]
    /\ choices' = IF t = NoTenant THEN choices ELSE choices \union {<<s, t>>}

\* The choice is recorded in the step that the tenant changes in; of an open
\* session that keeps its tenant, or of a closed one, it is recorded alone.
Choose(s, t) ==
  /\ session[s] # Absent
  /\ \/ session[s] # Closed /\ session' = [session EXCEPT ![s].tenant = t]
     \/ UNCHANGED session
  /\ choices' = choices \union {<<s, t>>}

Clear(s) ==
  /\ session[s] \notin {Absent, Closed}
  /\ session' = [session EXCEPT ![s].tenant = NoTenant]
  /\ UNCHANGED choices

Close(s) ==
  /\ session[s] \notin {Absent, Closed}
  /\ session' = [session EXCEPT ![s] = Closed]
  /\ UNCHANGED choices

Next ==
  \E s \in Sids :
    \/ \E u \in Users : Open(s, u)
    \/ \E t \in Tenants : Choose(s, t)
    \/ Clear(s)
    \/ Close(s)

Spec == Init /\ [][Next]_lifecycleVars
=============================================================================
