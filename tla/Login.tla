------------------------------- MODULE Login -------------------------------
(***************************************************************************)
(* GET /auth/login and GET /auth/callback, the browsers that run them and  *)
(* the identity provider between them.  Both handlers are async functions  *)
(* on the event loop of one worker: what happens between two awaits is one *)
(* step.  login commits the login transaction and awaits the provider's    *)
(* discovery document; callback spends the transaction and commits,        *)
(* awaits the exchange of the code, and then finds or creates the user and *)
(* inserts the session.  A browser has one login cookie, however many tabs *)
(* it logs in from, and any browser may open any callback URL, once or     *)
(* several times.  Tokens, hashes and PKCE verifiers are the login they    *)
(* belong to.                                                              *)
(***************************************************************************)
EXTENDS Naturals, Sequences

CONSTANTS
  Logins,      \* login transactions: the state, nonce, verifier and binding of one
  Browsers,
  Callbacks,   \* callback requests in flight at once
  Subjects,    \* accounts at the identity provider
  Users,       \* user ids that may be allocated
  None         \* no row, no cookie, nobody

VARIABLES
  logins,      \* oidc_login_transactions
  started,     \* the browser whose GET /auth/login made the row
  answered,    \* logins whose redirect, with its cookie, has reached the browser
  codes,       \* authorization codes: the login they answer and who authenticated
  providerUp,  \* the identity provider answers
  jar,         \* the login cookie and the session cookie of each browser
  pc,          \* how far each callback has come
  work,        \* its browser, query parameters and cookie
  identities,  \* external_identities
  accounts,    \* status of each user
  issued       \* the users of the sessions inserted for each login

serverVars == <<logins, identities, accounts, issued>>
outsideVars == <<started, answered, codes, providerUp>>
loginVars == <<serverVars, outsideVars, jar, pc, work>>

LoginRow == [used : BOOLEAN, expired : BOOLEAN]
Cookies == [login : Logins \union {None}, session : Logins \union {None}]
Codes == Logins \X Subjects
CallbackWork == [browser : Browsers, login : Logins, code : Codes,
                 cookie : Logins \union {None}]

ASSUME NoneAssumption ==
  None \notin Logins \union Browsers \union Users \union {"active", "disabled"}
               \union LoginRow \union CallbackWork

LoginTypeOK ==
  /\ logins \in [Logins -> LoginRow \union {None}]
  /\ started \in [Logins -> Browsers \union {None}]
  /\ answered \subseteq Logins
  /\ codes \subseteq Codes
  /\ providerUp \in BOOLEAN
  /\ jar \in [Browsers -> Cookies]
  /\ pc \in [Callbacks -> {"idle", "sent", "exchanging", "answering"}]
  /\ work \in [Callbacks -> CallbackWork \union {None}]
  /\ identities \in [Subjects -> Users \union {None}]
  /\ accounts \in [Users -> {"active", "disabled", None}]
  /\ issued \in [Logins -> Seq(Users)]
  /\ \A c \in Callbacks : (pc[c] = "idle") = (work[c] = None)

LoginInit ==
  /\ logins = [l \in Logins |-> None]
  /\ started = [l \in Logins |-> None]
  /\ answered = {}
  /\ codes = {}
  /\ providerUp = TRUE
  /\ jar = [b \in Browsers |-> [login |-> None, session |-> None]]
  /\ pc = [c \in Callbacks |-> "idle"]
  /\ work = [c \in Callbacks |-> None]
  /\ identities = [p \in Subjects |-> None]
  /\ accounts = [u \in Users |-> None]
  /\ issued = [l \in Logins |-> <<>>]

-----------------------------------------------------------------------------
(* GET /auth/login *)

\* Up to the await of the discovery document.
StartLogin(b, l) ==
  /\ logins[l] = None
  /\ logins' = [logins EXCEPT ![l] = [used |-> FALSE, expired |-> FALSE]]
  /\ started' = [started EXCEPT ![l] = b]
  /\ UNCHANGED <<identities, accounts, issued, answered, codes, providerUp, jar, pc, work>>

\* The redirect sets the one login cookie of the browser.  If the provider is down
\* this never happens and the row stays unused.
AnswerLogin(l) ==
  /\ providerUp /\ logins[l] # None /\ l \notin answered
  /\ answered' = answered \union {l}
  /\ jar' = [jar EXCEPT ![started[l]].login = l]
  /\ UNCHANGED <<serverVars, started, codes, providerUp, pc, work>>

\* Someone authenticates at the provider with the URL of the redirect.
AuthenticateAtProvider(l, p) ==
  /\ providerUp /\ l \in answered
  /\ codes' = codes \union {<<l, p>>}
  /\ UNCHANGED <<serverVars, started, answered, providerUp, jar, pc, work>>

-----------------------------------------------------------------------------
(* GET /auth/callback *)

\* A browser opens a callback URL whose state some redirect has carried, with a code
\* of this or of another login; the cookie is the one it has at that moment.
OpenCallback(c, b, l, code) ==
  /\ pc[c] = "idle" /\ l \in answered /\ code \in codes
  /\ pc' = [pc EXCEPT ![c] = "sent"]
  /\ work' = [work EXCEPT ![c] =
       [browser |-> b, login |-> l, code |-> code, cookie |-> jar[b].login]]
  /\ UNCHANGED <<serverVars, outsideVars, jar>>

(* An operator with an underscore is a plausible mistake in the definition   *)
(* that its name begins with; no specification uses it.                    *)
Drop_ClearsCookie(c) ==
  /\ pc' = [pc EXCEPT ![c] = "idle"]
  /\ work' = [work EXCEPT ![c] = None]
  /\ jar' = [jar EXCEPT ![work[c].browser].login = None]
  /\ UNCHANGED <<serverVars, outsideVars>>

\* An error response, or none: the cookies stay as they are.
Drop(c) ==
  /\ pc' = [pc EXCEPT ![c] = "idle"]
  /\ work' = [work EXCEPT ![c] = None]
  /\ UNCHANGED <<serverVars, outsideVars, jar>>

MaySpend_AnyBrowser(c) ==
  LET row == logins[work[c].login] IN ~row.used /\ ~row.expired

MaySpend_Replayed(c) ==
  LET row == logins[work[c].login] IN ~row.expired /\ work[c].cookie = work[c].login

\* The state is known, unused and unexpired, and the cookie is its binding.
MaySpend(c) ==
  LET row == logins[work[c].login] IN
  /\ ~row.used /\ ~row.expired
  /\ work[c].cookie = work[c].login

\* used_at is committed before the exchange is awaited.
Spend(c) ==
  /\ pc[c] = "sent"
  /\ IF MaySpend(c)
     THEN /\ pc' = [pc EXCEPT ![c] = "exchanging"]
          /\ logins' = [logins EXCEPT ![work[c].login].used = TRUE]
          /\ UNCHANGED <<identities, accounts, issued, outsideVars, jar, work>>
     ELSE Drop(c)

Accepted_AnyCode(c) == providerUp

\* The provider gives an ID token for the code: the verifier is that of the login
\* the code was issued for, and so is the nonce.
Accepted(c) == providerUp /\ work[c].code[1] = work[c].login

Reject_WithoutTimeout(c) == pc[c] = "exchanging" /\ providerUp /\ ~Accepted(c) /\ Drop(c)

\* The provider refuses the code, the token is invalid, or the client's timeout of
\* ten seconds passes.  The login transaction stays spent.
Reject(c) == pc[c] = "exchanging" /\ Drop(c)

UserOf_AlwaysNew(p) == {u \in Users : accounts[u] = None}

\* The user of the identity, or a fresh uuid4 for its first login.
UserOf(p) ==
  IF identities[p] # None THEN {identities[p]} ELSE {u \in Users : accounts[u] = None}

\* From the claims to the commit, in one step of the event loop: a disabled user is
\* refused, an unknown one is created with its identity, the session inserted.
Finish(c) ==
  LET p == work[c].code[2] IN
  /\ pc[c] = "exchanging" /\ Accepted(c)
  /\ \E u \in UserOf(p) :
       IF accounts[u] = "disabled" THEN Drop(c)
       ELSE /\ pc' = [pc EXCEPT ![c] = "answering"]
            /\ identities' = [identities EXCEPT ![p] = u]
            /\ accounts' = [accounts EXCEPT ![u] = "active"]
            /\ issued' = [issued EXCEPT ![work[c].login] = Append(@, u)]
            /\ UNCHANGED <<logins, outsideVars, jar, work>>

\* The response replaces the session cookie and deletes the login cookie, whichever
\* login that cookie is of by now.
Deliver(c) ==
  /\ pc[c] = "answering"
  /\ pc' = [pc EXCEPT ![c] = "idle"]
  /\ work' = [work EXCEPT ![c] = None]
  /\ jar' = [jar EXCEPT ![work[c].browser] = [login |-> None, session |-> work[c].login]]
  /\ UNCHANGED <<serverVars, outsideVars>>

\* The process dies, or the connection to the browser is lost.
Abort(c) == pc[c] # "idle" /\ Drop(c)

-----------------------------------------------------------------------------
(* What happens meanwhile. *)

\* Of a login that is spent nobody looks at expires_at.
ExpireLogin(l) ==
  /\ logins[l] # None /\ ~logins[l].used
  /\ logins' = [logins EXCEPT ![l].expired = TRUE]
  /\ UNCHANGED <<identities, accounts, issued, outsideVars, jar, pc, work>>

SetStatus(u, status) ==
  /\ accounts[u] # None
  /\ accounts' = [accounts EXCEPT ![u] = status]
  /\ UNCHANGED <<logins, identities, issued, outsideVars, jar, pc, work>>

SwitchProvider ==
  /\ providerUp' = ~providerUp
  /\ UNCHANGED <<serverVars, started, answered, codes, jar, pc, work>>

LoginNext ==
  \/ \E l \in Logins :
       \/ \E b \in Browsers : StartLogin(b, l)
       \/ AnswerLogin(l)
       \/ \E p \in Subjects : AuthenticateAtProvider(l, p)
       \/ ExpireLogin(l)
  \/ \E c \in Callbacks :
       \/ \E b \in Browsers, l \in Logins, code \in codes : OpenCallback(c, b, l, code)
       \/ Spend(c) \/ Reject(c) \/ Finish(c) \/ Deliver(c) \/ Abort(c)
  \/ \E u \in Users, status \in {"active", "disabled"} : SetStatus(u, status)
  \/ SwitchProvider

LoginSpec == LoginInit /\ [][LoginNext]_loginVars

\* The event loop runs what is ready, and an exchange ends with an answer or with
\* its timeout.  Nothing is assumed of the provider or of the browsers.
LoginFairness ==
  \A c \in Callbacks :
    WF_loginVars(Spend(c)) /\ WF_loginVars(Reject(c) \/ Finish(c)) /\ WF_loginVars(Deliver(c))

FairLoginSpec == LoginSpec /\ LoginFairness

-----------------------------------------------------------------------------
(* Properties. *)

\* A browser gets a session only from a login that it began itself, though callback
\* URLs are opened in other browsers and answers cross each other.
SessionInStartingBrowser ==
  \A b \in Browsers, l \in Logins : jar[b].session = l => started[l] = b

\* The user of a session is the one of a subject that authenticated at the provider
\* for that very login: codes of other logins do not count, whatever mix of
\* state and code a callback carries.
SessionOfAuthenticatedSubject ==
  \A l \in Logins : \A i \in 1..Len(issued[l]) :
    \E p \in Subjects : <<l, p>> \in codes /\ identities[p] = issued[l][i]

\* Each subject has at most one user, each user exactly one subject: a login that
\* fails half-way leaves no user without identity, and none is created twice.
IdentityForEveryUser ==
  \A u \in Users :
    accounts[u] # None =>
      \E p \in Subjects : \A q \in Subjects : (identities[q] = u) = (q = p)

\* A callback is refused before the exchange only if its state was spent or has
\* expired, or it comes from another browser, or that browser began another
\* login, whose cookie replaced the first or whose callback deleted it.
RefusedOnlyForCause ==
  [][\A c \in Callbacks :
       Spend(c) /\ pc'[c] = "idle" =>
         LET l == work[c].login IN
         \/ logins[l].used \/ logins[l].expired
         \/ started[l] # work[c].browser
         \/ \E x \in Logins \ {l} : started[x] = work[c].browser]_loginVars

\* Every callback ends, also while the provider never answers again.
EveryCallbackEnds == \A c \in Callbacks : pc[c] # "idle" ~> pc[c] = "idle"

OneTime == INSTANCE OneTimeLogin WITH
  state <- [l \in Logins |->
    IF logins[l] = None THEN "none" ELSE IF logins[l].used THEN "spent" ELSE "open"]

\* A login state is spent once and yields at most one session, however often and from
\* however many tabs its callback is opened, and whatever fails in between.
ImplementsOneTimeLogin == OneTime!Spec
=============================================================================
