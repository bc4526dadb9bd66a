---------------------------- MODULE OneTimeLogin ----------------------------
(***************************************************************************)
(* What a login state promises: it is open until a callback spends it, it  *)
(* is spent once and before any session exists, and it yields at most one  *)
(* session, for one user.                                                  *)
(***************************************************************************)
EXTENDS Sequences

CONSTANTS Logins, Users

VARIABLES
  state,    \* none, open or spent
  issued    \* users of the sessions that a login has yielded

loginVars == <<state, issued>>

Init ==
  /\ state = [l \in Logins |-> "none"]
  /\ issued = [l \in Logins |-> <<>>]

Open(l) ==
  /\ state[l] = "none"
  /\ state' = [state EXCEPT ![l] = "open"]
  /\ UNCHANGED issued

Spend(l) ==
  /\ state[l] = "open"
  /\ state' = [state EXCEPT ![l] = "spent"]
  /\ UNCHANGED issued

Issue(l, u) ==
  /\ state[l] = "spent" /\ issued[l] = <<>>
  /\ issued' = [issued EXCEPT ![l] = <<u>>]
  /\ UNCHANGED state

Next == \E l \in Logins : Open(l) \/ Spend(l) \/ \E u \in Users : Issue(l, u)

Spec == Init /\ [][Next]_loginVars
=============================================================================
