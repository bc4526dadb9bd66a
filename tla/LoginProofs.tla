---------------------------- MODULE LoginProofs ----------------------------
(***************************************************************************)
(* Logins, for any number of browsers, callbacks, subjects and users: the  *)
(* state of a login is spent once and yields one session, in the browser   *)
(* that began it and for the subject that authenticated for it.            *)
(***************************************************************************)
EXTENDS Login, TLAPS

\* A row exists from the moment its login started; a callback carries a state that a
\* redirect carried, and codes that the provider gave.
Answered ==
  /\ \A l \in Logins : (logins[l] = None) = (started[l] = None)
  /\ \A l \in answered : logins[l] # None
  /\ \A c \in Callbacks : work[c] # None => work[c].login \in answered /\ work[c].code \in codes

\* A callback that is over.
LEMMA DropTypeOK ==
  ASSUME LoginTypeOK, NEW c \in Callbacks, Drop(c)
  PROVE  LoginTypeOK'
BY DEF Drop, LoginTypeOK, serverVars, outsideVars

LEMMA LoginTypeStep ==
  ASSUME LoginTypeOK, Answered, [LoginNext]_loginVars
  PROVE  LoginTypeOK'
<1> USE DEF LoginTypeOK
<1>1. ASSUME NEW l \in Logins, NEW b \in Browsers, StartLogin(b, l)  PROVE LoginTypeOK'
  <2>1. [used |-> FALSE, expired |-> FALSE] \in LoginRow
    BY DEF LoginRow
  <2> QED BY <1>1, <2>1 DEF StartLogin
<1>2. ASSUME NEW l \in Logins, AnswerLogin(l)  PROVE LoginTypeOK'
  <2> DEFINE b == started[l]
             x == [jar[b] EXCEPT !.login = l]
  <2>1. b \in Browsers => x \in Cookies
    <3> HAVE b \in Browsers
    <3>1. jar[b] \in Cookies
      OBVIOUS
    <3> QED BY <3>1 DEF Cookies
  <2>2. jar' = [jar EXCEPT ![b] = x]
    BY <1>2 DEF AnswerLogin
  <2> HIDE DEF x, b
  <2>3. jar' \in [Browsers -> Cookies]
    BY <2>1, <2>2
  <2> QED BY <1>2, <2>3 DEF AnswerLogin, serverVars
<1>3. ASSUME NEW l \in Logins, NEW p \in Subjects, AuthenticateAtProvider(l, p)
      PROVE  LoginTypeOK'
  BY <1>3 DEF AuthenticateAtProvider, serverVars, Codes
<1>4. ASSUME NEW l \in Logins, ExpireLogin(l)  PROVE LoginTypeOK'
  <2> DEFINE x == [logins[l] EXCEPT !.expired = TRUE]
  <2>1. logins[l] \in LoginRow
    BY <1>4 DEF ExpireLogin
  <2>2. x \in LoginRow
    BY <2>1 DEF LoginRow
  <2>3. logins' = [logins EXCEPT ![l] = x]
    BY <1>4 DEF ExpireLogin
  <2> HIDE DEF x
  <2>4. logins' \in [Logins -> LoginRow \union {None}]
    BY <2>2, <2>3
  <2> QED BY <1>4, <2>4 DEF ExpireLogin, outsideVars
<1>5. ASSUME NEW c \in Callbacks, NEW b \in Browsers, NEW l \in Logins, NEW code \in codes,
             OpenCallback(c, b, l, code)
      PROVE  LoginTypeOK'
  <2>1. jar[b].login \in Logins \union {None}
    BY DEF Cookies
  <2> DEFINE w == [browser |-> b, login |-> l, code |-> code, cookie |-> jar[b].login]
  <2>2. w \in CallbackWork
    BY <2>1 DEF CallbackWork
  <2>3. w # None
    BY <2>2, NoneAssumption
  <2>4. pc' = [pc EXCEPT ![c] = "sent"] /\ work' = [work EXCEPT ![c] = w]
        /\ UNCHANGED <<serverVars, outsideVars, jar>>
    BY <1>5 DEF OpenCallback
  <2> HIDE DEF w
  <2> QED BY <2>2, <2>3, <2>4 DEF serverVars, outsideVars
<1>6. ASSUME NEW c \in Callbacks, Spend(c)  PROVE LoginTypeOK'
  <2>1. CASE MaySpend(c)
    <3>1. work[c] \in CallbackWork
      BY <1>6 DEF Spend
    <3>2. work[c].login \in Logins
      BY <3>1 DEF CallbackWork
    <3>3. work[c].login # None
      BY <3>2, NoneAssumption
    <3>4. pc' = [pc EXCEPT ![c] = "exchanging"]
          /\ logins' = [logins EXCEPT ![work[c].login].used = TRUE]
          /\ UNCHANGED <<identities, accounts, issued, outsideVars, jar, work>>
      BY <1>6, <2>1 DEF Spend
    <3> DEFINE x == [logins[work[c].login] EXCEPT !.used = TRUE]
    <3>5. logins[work[c].login] \in LoginRow
      BY <3>2, <3>1, NoneAssumption DEF Answered
    <3>6. x \in LoginRow
      BY <3>5 DEF LoginRow
    <3>7. logins' = [logins EXCEPT ![work[c].login] = x]
      BY <3>4
    <3> HIDE DEF x
    <3>8. logins' \in [Logins -> LoginRow \union {None}]
      BY <3>2, <3>6, <3>7
    <3> QED BY <1>6, <3>4, <3>8 DEF Spend, outsideVars
  <2>2. CASE ~MaySpend(c)
    BY <1>6, <2>2, DropTypeOK DEF Spend
  <2> QED BY <2>1, <2>2
<1>7. ASSUME NEW c \in Callbacks, Reject(c) \/ Abort(c)  PROVE LoginTypeOK'
  BY <1>7, DropTypeOK DEF Reject, Abort
<1>8. ASSUME NEW c \in Callbacks, Finish(c)  PROVE LoginTypeOK'
  <2>1. work[c] \in CallbackWork
    BY <1>8 DEF Finish
  <2>2. work[c].login \in Logins /\ work[c].code \in Logins \X Subjects
    BY <2>1 DEF CallbackWork, Codes
  <2> DEFINE p == work[c].code[2]
  <2>3. p \in Subjects
    BY <2>2
  <2>4. PICK u \in UserOf(p) :
          IF accounts[u] = "disabled" THEN Drop(c)
          ELSE /\ pc' = [pc EXCEPT ![c] = "answering"]
               /\ identities' = [identities EXCEPT ![p] = u]
               /\ accounts' = [accounts EXCEPT ![u] = "active"]
               /\ issued' = [issued EXCEPT ![work[c].login] = Append(@, u)]
               /\ UNCHANGED <<logins, outsideVars, jar, work>>
    BY <1>8 DEF Finish
  <2> HIDE DEF p
  <2>5. u \in Users
    BY <2>3, <2>4 DEF UserOf
  <2>6. CASE accounts[u] = "disabled"
    BY <2>4, <2>6, DropTypeOK
  <2>7. CASE accounts[u] # "disabled"
    <3>1. Append(issued[work[c].login], u) \in Seq(Users)
      BY <2>2, <2>5
    <3>2. issued' \in [Logins -> Seq(Users)]
      BY <2>2, <2>4, <2>7, <3>1
    <3>3. identities' \in [Subjects -> Users \union {None}]
          /\ accounts' \in [Users -> {"active", "disabled", None}]
      BY <2>3, <2>4, <2>5, <2>7
    <3>4. pc' \in [Callbacks -> {"idle", "sent", "exchanging", "answering"}]
          /\ \A d \in Callbacks : (pc'[d] = "idle") = (work'[d] = None)
      BY <1>8, <2>4, <2>7 DEF Finish
    <3> QED BY <2>4, <2>7, <3>2, <3>3, <3>4 DEF outsideVars
  <2> QED BY <2>6, <2>7
<1>9. ASSUME NEW c \in Callbacks, Deliver(c)  PROVE LoginTypeOK'
  <2>1. work[c].login \in Logins /\ work[c].browser \in Browsers
    BY <1>9 DEF Deliver, CallbackWork
  <2>2. [login |-> None, session |-> work[c].login] \in Cookies
    BY <2>1 DEF Cookies
  <2>3. jar' \in [Browsers -> Cookies]
    BY <1>9, <2>1, <2>2 DEF Deliver
  <2> QED BY <1>9, <2>3 DEF Deliver, serverVars, outsideVars
<1>10. ASSUME NEW u \in Users, NEW status \in {"active", "disabled"}, SetStatus(u, status)
       PROVE  LoginTypeOK'
  BY <1>10 DEF SetStatus, outsideVars
<1>11. CASE SwitchProvider
  BY <1>11 DEF SwitchProvider, serverVars
<1>12. CASE UNCHANGED loginVars
  BY <1>12 DEF loginVars, serverVars, outsideVars
<1> QED BY <1>1, <1>2, <1>3, <1>4, <1>5, <1>6, <1>7, <1>8, <1>9, <1>10, <1>11, <1>12
        DEF LoginNext

-----------------------------------------------------------------------------
(* What the steps that replace part of a record leave. *)

LEMMA AnswerLoginEffect ==
  ASSUME LoginTypeOK, Answered, NEW l \in Logins, AnswerLogin(l)
  PROVE  /\ started[l] \in Browsers
         /\ \A b \in Browsers : jar'[b].login = IF b = started[l] THEN l ELSE jar[b].login
         /\ \A b \in Browsers : jar'[b].session = jar[b].session
<1> DEFINE b == started[l]
           x == [jar[b] EXCEPT !.login = l]
<1>1. b \in Browsers
  BY DEF LoginTypeOK, Answered, AnswerLogin
<1>2. jar[b] \in Cookies
  BY <1>1 DEF LoginTypeOK
<1>3. x.login = l /\ x.session = jar[b].session
  BY <1>2 DEF Cookies
<1>4. jar' = [jar EXCEPT ![b] = x]
  BY DEF AnswerLogin
<1>5. b = started[l]
  OBVIOUS
<1> HIDE DEF x, b
<1> QED BY <1>1, <1>3, <1>4, <1>5 DEF LoginTypeOK

LEMMA ExpireLoginEffect ==
  ASSUME LoginTypeOK, NEW l \in Logins, ExpireLogin(l)
  PROVE  /\ \A x \in Logins : (logins'[x] = None) = (logins[x] = None)
         /\ \A x \in Logins : logins[x] # None => logins'[x].used = logins[x].used
<1> DEFINE x == [logins[l] EXCEPT !.expired = TRUE]
<1>1. logins[l] \in LoginRow
  BY DEF ExpireLogin, LoginTypeOK
<1>2. x \in LoginRow /\ x.used = logins[l].used
  BY <1>1 DEF LoginRow
<1>3. logins' = [logins EXCEPT ![l] = x]
  BY DEF ExpireLogin
<1>4. x # None
  BY <1>2, NoneAssumption
<1> HIDE DEF x
<1> QED BY <1>1, <1>2, <1>3, <1>4, NoneAssumption DEF LoginTypeOK

LEMMA SpendEffect ==
  ASSUME LoginTypeOK, Answered, NEW c \in Callbacks, Spend(c), MaySpend(c)
  PROVE  /\ work[c] # None /\ work[c].login \in Logins /\ work[c].browser \in Browsers
         /\ logins[work[c].login] # None /\ ~logins[work[c].login].used
         /\ logins'[work[c].login] # None /\ logins'[work[c].login].used = TRUE
         /\ \A x \in Logins : x # work[c].login => logins'[x] = logins[x]
<1> DEFINE l == work[c].login
           x == [logins[l] EXCEPT !.used = TRUE]
<1>1. work[c] \in CallbackWork
  BY DEF Spend, LoginTypeOK
<1>2. work[c] # None
  BY <1>1, NoneAssumption
<1>3. l \in Logins /\ work[c].browser \in Browsers
  BY <1>1 DEF CallbackWork
<1>4. logins[l] \in LoginRow /\ logins[l] # None
  BY <1>2, <1>3 DEF LoginTypeOK, Answered
<1>5. x \in LoginRow /\ x.used = TRUE
  BY <1>4 DEF LoginRow
<1>6. x # None
  BY <1>5, NoneAssumption
<1>7. logins' = [logins EXCEPT ![l] = x]
  BY DEF Spend
<1>8. ~logins[l].used
  BY DEF MaySpend
<1> HIDE DEF x
<1> QED BY <1>2, <1>3, <1>4, <1>5, <1>6, <1>7, <1>8 DEF LoginTypeOK

\* The parts of the work of a callback in flight.
LEMMA WorkOf ==
  ASSUME LoginTypeOK, NEW c \in Callbacks, pc[c] # "idle"
  PROVE  /\ work[c] # None
         /\ work[c].login \in Logins /\ work[c].browser \in Browsers
         /\ work[c].code \in Codes /\ work[c].code[2] \in Subjects
         /\ work[c].cookie \in Logins \union {None}
<1>1. work[c] \in CallbackWork
  BY DEF LoginTypeOK
<1> QED BY <1>1 DEF CallbackWork, Codes, LoginTypeOK

-----------------------------------------------------------------------------
(* Rows and redirects. *)

LEMMA AnsweredStep ==
  ASSUME LoginTypeOK, Answered, [LoginNext]_loginVars
  PROVE  Answered'
<1> USE DEF LoginTypeOK, Answered
<1>1. ASSUME NEW l \in Logins, NEW b \in Browsers, StartLogin(b, l)  PROVE Answered'
  <2>1. [used |-> FALSE, expired |-> FALSE] # None
    <3>1. [used |-> FALSE, expired |-> FALSE] \in LoginRow
      BY DEF LoginRow
    <3> QED BY <3>1, NoneAssumption
  <2>2. b # None
    BY NoneAssumption
  <2> QED BY <1>1, <2>1, <2>2 DEF StartLogin
<1>2. ASSUME NEW l \in Logins, AnswerLogin(l)  PROVE Answered'
  BY <1>2 DEF AnswerLogin, serverVars
<1>3. ASSUME NEW l \in Logins, NEW p \in Subjects, AuthenticateAtProvider(l, p)
      PROVE  Answered'
  BY <1>3 DEF AuthenticateAtProvider, serverVars
<1>4. ASSUME NEW l \in Logins, ExpireLogin(l)  PROVE Answered'
  <2>1. UNCHANGED <<started, answered, codes, work>>
    BY <1>4 DEF ExpireLogin, outsideVars
  <2> QED BY <1>4, <2>1, ExpireLoginEffect
<1>5. ASSUME NEW c \in Callbacks, NEW b \in Browsers, NEW l \in Logins, NEW code \in codes,
             OpenCallback(c, b, l, code)
      PROVE  Answered'
  BY <1>5 DEF OpenCallback, serverVars, outsideVars
<1>6. ASSUME NEW c \in Callbacks, Drop(c)  PROVE Answered'
  BY <1>6 DEF Drop, serverVars, outsideVars
<1>7. ASSUME NEW c \in Callbacks, Spend(c)  PROVE Answered'
  <2>1. CASE MaySpend(c)
    <3>1. UNCHANGED <<started, answered, codes, work>>
      BY <1>7, <2>1 DEF Spend, outsideVars
    <3>2. \A x \in Logins : (logins'[x] = None) = (logins[x] = None)
      BY <1>7, <2>1, SpendEffect
    <3> QED BY <3>1, <3>2
  <2> QED BY <1>6, <1>7, <2>1 DEF Spend
<1>8. ASSUME NEW c \in Callbacks, Finish(c)  PROVE Answered'
  <2>1. Drop(c) \/ UNCHANGED <<logins, started, answered, codes, work>>
    BY <1>8 DEF Finish, outsideVars
  <2> QED BY <1>6, <2>1
<1>9. ASSUME NEW c \in Callbacks, Deliver(c)  PROVE Answered'
  BY <1>9 DEF Deliver, serverVars, outsideVars
<1>10. ASSUME NEW c \in Callbacks, Reject(c) \/ Abort(c)  PROVE Answered'
  BY <1>6, <1>10 DEF Reject, Abort
<1>11. ASSUME NEW u \in Users, NEW status \in {"active", "disabled"}, SetStatus(u, status)
       PROVE  Answered'
  BY <1>11 DEF SetStatus, outsideVars
<1>12. CASE SwitchProvider
  BY <1>12 DEF SwitchProvider, serverVars
<1>13. CASE UNCHANGED loginVars
  BY <1>13 DEF loginVars, serverVars, outsideVars
<1> QED BY <1>1, <1>2, <1>3, <1>4, <1>5, <1>7, <1>8, <1>9, <1>10, <1>11, <1>12, <1>13
        DEF LoginNext

LEMMA LoginTypes == LoginSpec => [](LoginTypeOK /\ Answered)
<1>1. LoginInit => LoginTypeOK /\ Answered
  <2> SUFFICES ASSUME LoginInit PROVE LoginTypeOK /\ Answered
    OBVIOUS
  <2>1. jar \in [Browsers -> Cookies]
    BY DEF LoginInit, Cookies
  <2>2. issued \in [Logins -> Seq(Users)]
    BY DEF LoginInit
  <2> QED BY <2>1, <2>2 DEF LoginInit, LoginTypeOK, Answered
<1>2. (LoginTypeOK /\ Answered) /\ [LoginNext]_loginVars => (LoginTypeOK /\ Answered)'
  BY LoginTypeStep, AnsweredStep
<1> QED BY <1>1, <1>2, PTL DEF LoginSpec

\* The tables, cookies and callbacks stay well typed.
THEOREM LoginTypeCorrect == LoginSpec => []LoginTypeOK
BY LoginTypes, PTL

-----------------------------------------------------------------------------
(* Cookies. *)

\* A cookie is of a login that its browser began, and what a callback carried was its
\* browser's; only a callback with the cookie of its own login got any further.
OwnCookies ==
  /\ \A b \in Browsers :
       /\ jar[b].login # None => started[jar[b].login] = b
       /\ jar[b].session # None => started[jar[b].session] = b
  /\ \A c \in Callbacks :
       /\ work[c] # None /\ work[c].cookie # None => started[work[c].cookie] = work[c].browser
       /\ pc[c] \in {"exchanging", "answering"} => work[c].cookie = work[c].login

LEMMA CookiesStep ==
  ASSUME LoginTypeOK, Answered, OwnCookies, [LoginNext]_loginVars
  PROVE  OwnCookies'
<1>a. \A b \in Browsers : jar[b].login \in Logins \union {None}
                          /\ jar[b].session \in Logins \union {None}
  BY DEF LoginTypeOK, Cookies
<1>b. \A c \in Callbacks : work[c] # None => /\ work[c].cookie \in Logins \union {None}
                                             /\ work[c].login \in Logins
                                             /\ work[c].browser \in Browsers
  BY DEF LoginTypeOK, CallbackWork
<1>1. ASSUME NEW l \in Logins, NEW b \in Browsers, StartLogin(b, l)  PROVE OwnCookies'
  <2>1. started[l] = None /\ None \notin Browsers
    BY <1>1, NoneAssumption DEF StartLogin, Answered
  <2>2. \A x \in Logins : started[x] # None => started'[x] = started[x]
    BY <1>1, <2>1 DEF StartLogin, LoginTypeOK
  <2>3. UNCHANGED <<jar, pc, work>>
    BY <1>1 DEF StartLogin
  <2> QED BY <1>a, <1>b, <2>1, <2>2, <2>3 DEF OwnCookies
<1>2. ASSUME NEW l \in Logins, AnswerLogin(l)  PROVE OwnCookies'
  <2>1. UNCHANGED <<started, pc, work>>
    BY <1>2 DEF AnswerLogin
  <2> QED BY <1>2, <1>a, <2>1, AnswerLoginEffect DEF OwnCookies
<1>3. ASSUME UNCHANGED <<started, jar, pc, work>>  PROVE OwnCookies'
  BY <1>3 DEF OwnCookies
<1>5. ASSUME NEW c \in Callbacks, NEW b \in Browsers, NEW l \in Logins, NEW code \in codes,
             OpenCallback(c, b, l, code)
      PROVE  OwnCookies'
  <2> DEFINE w == [browser |-> b, login |-> l, code |-> code, cookie |-> jar[b].login]
  <2>1. w.cookie = jar[b].login /\ w.browser = b
    OBVIOUS
  <2>2. pc' = [pc EXCEPT ![c] = "sent"] /\ work' = [work EXCEPT ![c] = w]
        /\ UNCHANGED <<started, jar>>
    BY <1>5 DEF OpenCallback, outsideVars
  <2> HIDE DEF w
  <2> QED BY <1>a, <1>b, <2>1, <2>2 DEF OwnCookies, LoginTypeOK
<1>6. ASSUME NEW c \in Callbacks, Drop(c)  PROVE OwnCookies'
  BY <1>6 DEF Drop, outsideVars, OwnCookies, LoginTypeOK
<1>7. ASSUME NEW c \in Callbacks, Spend(c)  PROVE OwnCookies'
  <2>1. CASE MaySpend(c)
    <3>1. work[c].cookie = work[c].login
      BY <2>1 DEF MaySpend
    <3>2. pc' = [pc EXCEPT ![c] = "exchanging"] /\ UNCHANGED <<started, jar, work>>
      BY <1>7, <2>1 DEF Spend, outsideVars
    <3> QED BY <3>1, <3>2 DEF OwnCookies, LoginTypeOK
  <2> QED BY <1>6, <1>7, <2>1 DEF Spend
<1>8. ASSUME NEW c \in Callbacks, Finish(c)  PROVE OwnCookies'
  <2>1. ASSUME pc' = [pc EXCEPT ![c] = "answering"], UNCHANGED <<started, jar, work>>
        PROVE  OwnCookies'
    BY <1>8, <2>1 DEF Finish, OwnCookies, LoginTypeOK
  <2>2. Drop(c) \/ (pc' = [pc EXCEPT ![c] = "answering"] /\ UNCHANGED <<started, jar, work>>)
    BY <1>8 DEF Finish, outsideVars
  <2> QED BY <1>6, <2>1, <2>2
<1>9. ASSUME NEW c \in Callbacks, Deliver(c)  PROVE OwnCookies'
  <2>1. work[c] # None /\ work[c].cookie = work[c].login
    BY <1>9, WorkOf DEF Deliver, OwnCookies
  <2>2. work[c].login # None
    BY <1>b, <2>1, NoneAssumption
  <2>3. started[work[c].login] = work[c].browser
    BY <2>1, <2>2 DEF OwnCookies
  <2> DEFINE x == [login |-> None, session |-> work[c].login]
  <2>4. x.login = None /\ x.session = work[c].login
    OBVIOUS
  <2>5. jar' = [jar EXCEPT ![work[c].browser] = x] /\ started' = started
        /\ pc' = [pc EXCEPT ![c] = "idle"] /\ work' = [work EXCEPT ![c] = None]
    BY <1>9 DEF Deliver, outsideVars
  <2> HIDE DEF x
  <2> QED BY <1>a, <1>b, <2>3, <2>4, <2>5 DEF OwnCookies, LoginTypeOK
<1>10. ASSUME NEW c \in Callbacks, Reject(c) \/ Abort(c)  PROVE OwnCookies'
  BY <1>6, <1>10 DEF Reject, Abort
<1>11. ASSUME NEW l \in Logins, NEW p \in Subjects, AuthenticateAtProvider(l, p)
       PROVE  OwnCookies'
  BY <1>3, <1>11 DEF AuthenticateAtProvider
<1>12. ASSUME NEW l \in Logins, ExpireLogin(l)  PROVE OwnCookies'
  BY <1>3, <1>12 DEF ExpireLogin, outsideVars
<1>13. ASSUME NEW u \in Users, NEW status \in {"active", "disabled"}, SetStatus(u, status)
       PROVE  OwnCookies'
  BY <1>3, <1>13 DEF SetStatus, outsideVars
<1>14. CASE SwitchProvider \/ UNCHANGED loginVars
  BY <1>3, <1>14 DEF SwitchProvider, loginVars, outsideVars
<1> QED BY <1>1, <1>2, <1>5, <1>7, <1>8, <1>9, <1>10, <1>11, <1>12, <1>13, <1>14
        DEF LoginNext

LEMMA CookiesCorrect == LoginSpec => []OwnCookies
<1>1. LoginInit => OwnCookies
  BY DEF LoginInit, OwnCookies
<1> QED BY <1>1, LoginTypes, CookiesStep, PTL DEF LoginSpec

\* Whatever callback URLs are opened where, a browser gets sessions only from logins
\* that it began.
THEOREM SessionsStayInBrowser == LoginSpec => []SessionInStartingBrowser
<1>1. OwnCookies => SessionInStartingBrowser
  BY NoneAssumption DEF OwnCookies, SessionInStartingBrowser
<1> QED BY <1>1, CookiesCorrect, PTL

-----------------------------------------------------------------------------
(* One session for a login. *)

\* Only a spent login has a session; the callback that spent it is the only one that
\* still may insert one.
SpentOnce ==
  /\ \A l \in Logins : issued[l] # <<>> => logins[l] # None /\ logins[l].used
  /\ \A c \in Callbacks :
       pc[c] \in {"exchanging", "answering"} =>
         logins[work[c].login] # None /\ logins[work[c].login].used
  /\ \A c \in Callbacks :
       pc[c] = "exchanging" =>
         /\ issued[work[c].login] = <<>>
         /\ \A d \in Callbacks : pc[d] = "exchanging" /\ work[d].login = work[c].login => d = c

LEMMA SpentStep ==
  ASSUME LoginTypeOK, Answered, SpentOnce, [LoginNext]_loginVars
  PROVE  SpentOnce'
<1>a. \A c \in Callbacks : pc[c] # "idle" => work[c].login \in Logins
  BY WorkOf
<1>1. ASSUME NEW l \in Logins, NEW b \in Browsers, StartLogin(b, l)  PROVE SpentOnce'
  <2>1. logins[l] = None /\ UNCHANGED <<issued, pc, work>>
    BY <1>1 DEF StartLogin
  <2>2. \A x \in Logins : logins[x] # None => logins'[x] = logins[x]
    BY <1>1, <2>1 DEF StartLogin, LoginTypeOK
  <2> QED BY <1>a, <2>1, <2>2 DEF SpentOnce
<1>2. ASSUME UNCHANGED <<logins, issued, pc, work>>  PROVE SpentOnce'
  BY <1>2 DEF SpentOnce
<1>3. ASSUME NEW l \in Logins, ExpireLogin(l)  PROVE SpentOnce'
  <2>1. UNCHANGED <<issued, pc, work>>
    BY <1>3 DEF ExpireLogin
  <2> QED BY <1>3, <1>a, <2>1, ExpireLoginEffect DEF SpentOnce
<1>4. ASSUME NEW c \in Callbacks, NEW b \in Browsers, NEW l \in Logins, NEW code \in codes,
             OpenCallback(c, b, l, code)
      PROVE  SpentOnce'
  <2>1. /\ pc[c] = "idle" /\ pc'[c] = "sent" /\ UNCHANGED <<logins, issued>>
        /\ \A d \in Callbacks \ {c} : pc'[d] = pc[d] /\ work'[d] = work[d]
    BY <1>4 DEF OpenCallback, serverVars, LoginTypeOK
  <2> QED BY <2>1 DEF SpentOnce
<1>5. ASSUME NEW c \in Callbacks, pc'[c] = "idle", UNCHANGED <<logins, issued>>,
             \A d \in Callbacks \ {c} : pc'[d] = pc[d] /\ work'[d] = work[d]
      PROVE  SpentOnce'
  BY <1>5 DEF SpentOnce
<1>6. ASSUME NEW c \in Callbacks, Drop(c)  PROVE SpentOnce'
  BY <1>5, <1>6 DEF Drop, serverVars, LoginTypeOK
<1>7. ASSUME NEW c \in Callbacks, Spend(c)  PROVE SpentOnce'
  <2>1. CASE MaySpend(c)
    <3>1. /\ pc'[c] = "exchanging" /\ UNCHANGED <<issued, work>>
          /\ \A d \in Callbacks \ {c} : pc'[d] = pc[d]
      BY <1>7, <2>1 DEF Spend, LoginTypeOK
    <3>2. PICK l \in Logins : /\ l = work[c].login /\ logins[l] # None /\ ~logins[l].used
                              /\ logins'[l] # None /\ logins'[l].used
                              /\ \A x \in Logins : x # l => logins'[x] = logins[x]
      BY <1>7, <2>1, SpendEffect
    <3>3. issued[l] = <<>>
      BY <3>2 DEF SpentOnce
    <3>4. \A d \in Callbacks :
            pc[d] \in {"exchanging", "answering"} => work[d].login \in Logins /\ work[d].login # l
      BY <1>a, <3>2 DEF SpentOnce
    <3>5. \A x \in Logins : issued'[x] # <<>> => logins'[x] # None /\ logins'[x].used
      BY <3>1, <3>2, <3>3 DEF SpentOnce
    <3>6. \A d \in Callbacks :
            pc'[d] \in {"exchanging", "answering"} =>
              logins'[work'[d].login] # None /\ logins'[work'[d].login].used
      BY <3>1, <3>2, <3>4 DEF SpentOnce
    <3> QED BY <3>1, <3>2, <3>3, <3>4, <3>5, <3>6 DEF SpentOnce
  <2> QED BY <1>6, <1>7, <2>1 DEF Spend
<1>8. ASSUME NEW c \in Callbacks, Finish(c)  PROVE SpentOnce'
  <2>1. ASSUME NEW u, issued' = [issued EXCEPT ![work[c].login] = Append(@, u)],
               pc' = [pc EXCEPT ![c] = "answering"], UNCHANGED <<logins, work>>
        PROVE  SpentOnce'
    <3>1. pc[c] = "exchanging"
      BY <1>8 DEF Finish
    <3>2. \A x \in Logins : x # work[c].login => issued'[x] = issued[x]
      BY <2>1 DEF LoginTypeOK
    <3>3. /\ pc'[c] = "answering"
          /\ \A d \in Callbacks \ {c} : pc'[d] = pc[d]
      BY <2>1 DEF LoginTypeOK
    <3> QED BY <1>a, <2>1, <3>1, <3>2, <3>3 DEF SpentOnce
  <2>2. \/ Drop(c)
        \/ \E u : /\ issued' = [issued EXCEPT ![work[c].login] = Append(@, u)]
                  /\ pc' = [pc EXCEPT ![c] = "answering"] /\ UNCHANGED <<logins, work>>
    BY <1>8 DEF Finish
  <2> QED BY <1>6, <2>1, <2>2
<1>9. ASSUME NEW c \in Callbacks, Deliver(c)  PROVE SpentOnce'
  BY <1>5, <1>9 DEF Deliver, serverVars, LoginTypeOK
<1>10. ASSUME NEW c \in Callbacks, Reject(c) \/ Abort(c)  PROVE SpentOnce'
  BY <1>6, <1>10 DEF Reject, Abort
<1>11. ASSUME NEW l \in Logins, AnswerLogin(l)  PROVE SpentOnce'
  BY <1>2, <1>11 DEF AnswerLogin, serverVars
<1>12. ASSUME NEW l \in Logins, NEW p \in Subjects, AuthenticateAtProvider(l, p)
       PROVE  SpentOnce'
  BY <1>2, <1>12 DEF AuthenticateAtProvider, serverVars
<1>13. ASSUME NEW u \in Users, NEW status \in {"active", "disabled"}, SetStatus(u, status)
       PROVE  SpentOnce'
  BY <1>2, <1>13 DEF SetStatus
<1>14. CASE SwitchProvider \/ UNCHANGED loginVars
  BY <1>2, <1>14 DEF SwitchProvider, loginVars, serverVars
<1> QED BY <1>1, <1>3, <1>4, <1>7, <1>8, <1>9, <1>10, <1>11, <1>12, <1>13, <1>14
        DEF LoginNext

LEMMA SpentCorrect == LoginSpec => []SpentOnce
<1>1. LoginInit => SpentOnce
  BY DEF LoginInit, SpentOnce
<1> QED BY <1>1, LoginTypes, SpentStep, PTL DEF LoginSpec

-----------------------------------------------------------------------------
(* The refinement: StartLogin opens, Spend spends, Finish issues, and every other  *)
(* step leaves the promised state alone.                                   *)

StateOf(l) ==
  IF logins[l] = None THEN "none" ELSE IF logins[l].used THEN "spent" ELSE "open"

LEMMA RefinementStep ==
  ASSUME LoginTypeOK, Answered, SpentOnce, [LoginNext]_loginVars
  PROVE  [OneTime!Next]_(OneTime!loginVars)
<1> DEFINE state == [l \in Logins |-> StateOf(l)]
           Stutters == UNCHANGED <<state, issued>>
           Promised == OneTime!Next \/ Stutters
<1>q. ASSUME Promised PROVE [OneTime!Next]_(OneTime!loginVars)
  BY <1>q DEF OneTime!loginVars, StateOf
<1>1. ASSUME NEW l \in Logins, NEW b \in Browsers, StartLogin(b, l)  PROVE Promised
  <2>1. logins[l] = None /\ UNCHANGED issued
    BY <1>1 DEF StartLogin
  <2> DEFINE row == [used |-> FALSE, expired |-> FALSE]
  <2>2. row # None /\ row.used = FALSE
    <3>1. row \in LoginRow
      BY DEF LoginRow
    <3> QED BY <3>1, NoneAssumption
  <2>3. logins' = [logins EXCEPT ![l] = row]
    BY <1>1 DEF StartLogin
  <2> HIDE DEF row
  <2>4. state' = [state EXCEPT ![l] = "open"] /\ state[l] = "none"
    BY <2>1, <2>2, <2>3 DEF StateOf, LoginTypeOK
  <2>5. OneTime!Open(l)
    BY <2>1, <2>4 DEF OneTime!Open, StateOf
  <2> QED BY <2>5 DEF OneTime!Next
<1>2. ASSUME UNCHANGED <<logins, issued>>  PROVE Promised
  BY <1>2 DEF StateOf
<1>3. ASSUME NEW l \in Logins, ExpireLogin(l)  PROVE Promised
  <2>1. UNCHANGED issued
    BY <1>3 DEF ExpireLogin
  <2>2. \A x \in Logins : StateOf(x)' = StateOf(x)
    BY <1>3, ExpireLoginEffect DEF StateOf
  <2> QED BY <2>1, <2>2
<1>4. ASSUME NEW c \in Callbacks, Spend(c)  PROVE Promised
  <2>1. CASE MaySpend(c)
    <3>1. PICK l \in Logins : /\ StateOf(l) = "open" /\ StateOf(l)' = "spent"
                              /\ \A x \in Logins : x # l => StateOf(x)' = StateOf(x)
      BY <1>4, <2>1, SpendEffect DEF StateOf
    <3>2. UNCHANGED issued
      BY <1>4, <2>1 DEF Spend
    <3>3. state' = [state EXCEPT ![l] = "spent"] /\ state[l] = "open"
      BY <3>1
    <3>4. OneTime!Spend(l)
      BY <3>2, <3>3 DEF OneTime!Spend, StateOf
    <3> QED BY <3>1, <3>4 DEF OneTime!Next
  <2> QED BY <1>2, <1>4, <2>1 DEF Spend, Drop, serverVars
<1>5. ASSUME NEW c \in Callbacks, Finish(c)  PROVE Promised
  <2> DEFINE l == work[c].login
  <2>1. /\ l \in Logins /\ work[c].code[2] \in Subjects
        /\ StateOf(l) = "spent" /\ issued[l] = <<>>
    BY <1>5, WorkOf DEF Finish, SpentOnce, StateOf
  <2>2. ASSUME NEW u \in Users, issued' = [issued EXCEPT ![l] = Append(@, u)], UNCHANGED logins
        PROVE  Promised
    <3>1. Append(issued[l], u) = <<u>>
      BY <2>1
    <3>2. issued' = [issued EXCEPT ![l] = <<u>>] /\ UNCHANGED state
      BY <2>1, <2>2, <3>1 DEF StateOf
    <3>3. OneTime!Issue(l, u)
      BY <2>1, <3>2 DEF OneTime!Issue, StateOf
    <3> QED BY <2>1, <3>3 DEF OneTime!Next
  <2>3. \/ UNCHANGED <<logins, issued>>
        \/ \E u \in Users : issued' = [issued EXCEPT ![l] = Append(@, u)] /\ UNCHANGED logins
    BY <1>5, <2>1 DEF Finish, Drop, serverVars, UserOf, LoginTypeOK
  <2> QED BY <1>2, <2>2, <2>3
<1>6. ASSUME NEW c \in Callbacks,
             \/ \E b \in Browsers, l \in Logins, code \in codes : OpenCallback(c, b, l, code)
             \/ Reject(c) \/ Deliver(c) \/ Abort(c)
      PROVE  Promised
  BY <1>2, <1>6 DEF OpenCallback, Reject, Deliver, Abort, Drop, serverVars
<1>7. ASSUME NEW l \in Logins, AnswerLogin(l) \/ \E p \in Subjects : AuthenticateAtProvider(l, p)
      PROVE  Promised
  BY <1>2, <1>7 DEF AnswerLogin, AuthenticateAtProvider, serverVars
<1>8. ASSUME NEW u \in Users, NEW status \in {"active", "disabled"}, SetStatus(u, status)
      PROVE  Promised
  BY <1>2, <1>8 DEF SetStatus
<1>9. ASSUME SwitchProvider \/ UNCHANGED loginVars  PROVE Promised
  BY <1>2, <1>9 DEF SwitchProvider, loginVars, serverVars
<1> HIDE DEF Promised
<1> QED BY <1>q, <1>1, <1>3, <1>4, <1>5, <1>6, <1>7, <1>8, <1>9 DEF LoginNext

\* For any number of tabs and browsers, a login state is spent once, before anything
\* depends on it, and yields at most one session.
THEOREM LoginIsOneTime == LoginSpec => ImplementsOneTimeLogin
<1>1. LoginInit => OneTime!Init
  BY DEF LoginInit, OneTime!Init
<1>2. LoginTypeOK /\ Answered /\ SpentOnce /\ [LoginNext]_loginVars
        => [OneTime!Next]_(OneTime!loginVars)
  BY RefinementStep
<1> QED BY <1>1, <1>2, LoginTypes, SpentCorrect, PTL
        DEF LoginSpec, ImplementsOneTimeLogin, OneTime!Spec

-----------------------------------------------------------------------------
(* Users and subjects. *)

\* Users and identities are created together; an identity keeps its user for good.
AccountsMatch ==
  /\ \A p \in Subjects : identities[p] # None => accounts[identities[p]] # None
  /\ \A p, q \in Subjects : identities[p] # None /\ identities[p] = identities[q] => p = q
  /\ \A u \in Users : accounts[u] # None => \E p \in Subjects : identities[p] = u
  /\ SessionOfAuthenticatedSubject

\* A sign-in that finishes, for the subject whose code it carried.
LEMMA FinishMatches ==
  ASSUME LoginTypeOK, Answered, AccountsMatch,
         NEW c \in Callbacks, pc[c] = "exchanging", Accepted(c),
         NEW u \in UserOf(work[c].code[2]),
         identities' = [identities EXCEPT ![work[c].code[2]] = u],
         accounts' = [accounts EXCEPT ![u] = "active"],
         issued' = [issued EXCEPT ![work[c].login] = Append(@, u)],
         UNCHANGED codes
  PROVE  AccountsMatch'
<1> DEFINE w == work[c]
<1>1. PICK p \in Subjects, l \in Logins : p = w.code[2] /\ l = w.login /\ <<l, p>> \in codes
  <2>1. w.login \in Logins /\ w.code \in codes /\ w.code \in Logins \X Subjects
    BY WorkOf DEF Answered, Codes
  <2>2. w.code = <<w.login, w.code[2]>>
    BY <2>1 DEF Accepted
  <2> QED BY <2>1, <2>2
<1>2. u \in Users /\ u # None
  BY <1>1, NoneAssumption DEF UserOf, LoginTypeOK
<1>3. identities[p] = u \/ (identities[p] = None /\ accounts[u] = None)
  BY <1>1 DEF UserOf
<1>4. identities' = [identities EXCEPT ![p] = u] /\ issued' = [issued EXCEPT ![l] = Append(@, u)]
  BY <1>1
<1>5. \A q \in Subjects : identities'[q] = IF q = p THEN u ELSE identities[q]
  BY <1>4 DEF LoginTypeOK
<1>6. \A q \in Subjects : identities[q] # None => identities'[q] = identities[q]
  BY <1>3, <1>5
<1>7. \A v \in Users : accounts'[v] = IF v = u THEN "active" ELSE accounts[v]
  BY DEF LoginTypeOK
<1>8. \A v \in Users : accounts[v] # None => accounts'[v] # None
  BY <1>7, NoneAssumption
<1>9. \A q \in Subjects : identities'[q] # None => accounts'[identities'[q]] # None
  <2> SUFFICES ASSUME NEW q \in Subjects, identities'[q] # None
               PROVE  accounts'[identities'[q]] # None
    OBVIOUS
  <2>1. CASE q = p
    BY <1>2, <1>5, <1>7, <2>1, NoneAssumption
  <2>2. CASE q # p
    BY <1>5, <1>8, <2>2 DEF AccountsMatch, LoginTypeOK
  <2> QED BY <2>1, <2>2
<1>10. \A q, r \in Subjects : identities'[q] # None /\ identities'[q] = identities'[r] => q = r
  <2>1. ASSUME NEW q \in Subjects, q # p  PROVE identities[q] # u
    BY <1>2, <1>3, <2>1 DEF AccountsMatch
  <2> QED BY <1>5, <2>1 DEF AccountsMatch
<1>11. \A v \in Users : accounts'[v] # None => \E q \in Subjects : identities'[q] = v
  <2> SUFFICES ASSUME NEW v \in Users, accounts'[v] # None
               PROVE  \E q \in Subjects : identities'[q] = v
    OBVIOUS
  <2>1. CASE v = u
    BY <1>5, <2>1
  <2>2. CASE v # u
    <3>1. PICK q \in Subjects : identities[q] = v
      BY <1>7, <2>2 DEF AccountsMatch
    <3>2. v # None
      BY NoneAssumption
    <3> QED BY <1>6, <3>1, <3>2
  <2> QED BY <2>1, <2>2
<1>12. ASSUME NEW x \in Logins, NEW i \in 1..Len(issued'[x])
       PROVE  \E q \in Subjects : <<x, q>> \in codes' /\ identities'[q] = issued'[x][i]
  <2>a. codes' = codes
    OBVIOUS
  <2>1. issued[x] \in Seq(Users)
    BY DEF LoginTypeOK
  <2>2. CASE i \in 1..Len(issued[x]) /\ issued'[x][i] = issued[x][i]
    <3>1. PICK q \in Subjects : <<x, q>> \in codes /\ identities[q] = issued[x][i]
      BY <2>2 DEF SessionOfAuthenticatedSubject, AccountsMatch
    <3>2. issued[x][i] \in Users
      BY <2>1, <2>2
    <3>3. identities[q] # None
      BY <3>1, <3>2, NoneAssumption
    <3> QED BY <1>6, <2>a, <2>2, <3>1, <3>3
  <2>3. CASE x = l /\ issued'[x][i] = u
    BY <1>1, <1>5, <2>a, <2>3
  <2>4. CASE x # l
    BY <1>4, <2>2, <2>4 DEF LoginTypeOK
  <2>5. CASE x = l
    <3>1. issued'[x] = Append(issued[x], u)
      BY <1>4, <2>5 DEF LoginTypeOK
    <3>2. Len(issued'[x]) = Len(issued[x]) + 1 /\ issued'[x][Len(issued[x]) + 1] = u
          /\ \A j \in 1..Len(issued[x]) : issued'[x][j] = issued[x][j]
      BY <1>2, <2>1, <3>1
    <3>3. i \in 1..Len(issued[x]) \/ i = Len(issued[x]) + 1
      BY <2>1, <3>2
    <3> QED BY <2>2, <2>3, <2>5, <3>2, <3>3
  <2> QED BY <2>4, <2>5
<1>13. SessionOfAuthenticatedSubject'
  BY <1>12 DEF SessionOfAuthenticatedSubject
<1> QED BY <1>9, <1>10, <1>11, <1>13 DEF AccountsMatch

LEMMA AccountsStep ==
  ASSUME LoginTypeOK, Answered, AccountsMatch, [LoginNext]_loginVars
  PROVE  AccountsMatch'
<1>1. ASSUME UNCHANGED <<identities, accounts, issued, codes>>  PROVE AccountsMatch'
  BY <1>1 DEF AccountsMatch, SessionOfAuthenticatedSubject
<1>2. ASSUME NEW l \in Logins, NEW p \in Subjects, AuthenticateAtProvider(l, p)
      PROVE  AccountsMatch'
  BY <1>2 DEF AuthenticateAtProvider, serverVars, AccountsMatch, SessionOfAuthenticatedSubject
<1>3. ASSUME NEW u \in Users, NEW status \in {"active", "disabled"}, SetStatus(u, status)
      PROVE  AccountsMatch'
  <2>1. accounts[u] # None /\ UNCHANGED <<identities, issued, codes>>
    BY <1>3 DEF SetStatus, outsideVars
  <2>2. \A v \in Users : (accounts'[v] = None) = (accounts[v] = None)
    BY <1>3, <2>1, NoneAssumption DEF SetStatus, LoginTypeOK
  <2>3. SessionOfAuthenticatedSubject'
    BY <2>1 DEF AccountsMatch, SessionOfAuthenticatedSubject
  <2>4. \A p \in Subjects : identities'[p] # None => accounts'[identities'[p]] # None
    BY <2>1, <2>2 DEF AccountsMatch, LoginTypeOK
  <2> QED BY <2>1, <2>2, <2>3, <2>4 DEF AccountsMatch
<1>4. ASSUME NEW c \in Callbacks, Finish(c)  PROVE AccountsMatch'
  <2>1. ASSUME Drop(c) PROVE AccountsMatch'
    BY <1>1, <2>1 DEF Drop, serverVars, outsideVars
  <2>2. \/ Drop(c)
        \/ \E u \in UserOf(work[c].code[2]) :
             /\ identities' = [identities EXCEPT ![work[c].code[2]] = u]
             /\ accounts' = [accounts EXCEPT ![u] = "active"]
             /\ issued' = [issued EXCEPT ![work[c].login] = Append(@, u)]
             /\ UNCHANGED codes
    BY <1>4 DEF Finish, outsideVars
  <2>3. pc[c] = "exchanging" /\ Accepted(c)
    BY <1>4 DEF Finish
  <2> QED BY <2>1, <2>2, <2>3, FinishMatches
<1>5. ASSUME NEW c \in Callbacks,
             \/ \E b \in Browsers, l \in Logins, code \in codes : OpenCallback(c, b, l, code)
             \/ Spend(c) \/ Reject(c) \/ Deliver(c) \/ Abort(c)
      PROVE  AccountsMatch'
  BY <1>1, <1>5
     DEF OpenCallback, Spend, Reject, Deliver, Abort, Drop, serverVars, outsideVars
<1>6. ASSUME NEW l \in Logins,
             (\E b \in Browsers : StartLogin(b, l)) \/ AnswerLogin(l) \/ ExpireLogin(l)
      PROVE  AccountsMatch'
  BY <1>1, <1>6 DEF StartLogin, AnswerLogin, ExpireLogin, serverVars, outsideVars
<1>7. ASSUME SwitchProvider \/ UNCHANGED loginVars  PROVE AccountsMatch'
  BY <1>1, <1>7 DEF SwitchProvider, loginVars, serverVars, outsideVars
<1> QED BY <1>2, <1>3, <1>4, <1>5, <1>6, <1>7 DEF LoginNext

LEMMA AccountsCorrect == LoginSpec => []AccountsMatch
<1>1. LoginInit => AccountsMatch
  BY DEF LoginInit, AccountsMatch, SessionOfAuthenticatedSubject
<1> QED BY <1>1, LoginTypes, AccountsStep, PTL DEF LoginSpec

\* For any mix of states and codes in any number of callbacks, a session belongs to
\* the user of a subject that authenticated for its login.
THEOREM SessionsAreAuthenticated == LoginSpec => []SessionOfAuthenticatedSubject
<1>1. AccountsMatch => SessionOfAuthenticatedSubject
  BY DEF AccountsMatch
<1> QED BY <1>1, AccountsCorrect, PTL

\* However first logins of a subject overlap, users and subjects correspond.
THEOREM UsersHaveOneSubject == LoginSpec => []IdentityForEveryUser
<1>1. AccountsMatch => IdentityForEveryUser
  BY NoneAssumption DEF AccountsMatch, IdentityForEveryUser
<1> QED BY <1>1, AccountsCorrect, PTL

-----------------------------------------------------------------------------
(* Refusals. *)

\* Why the browser b, which began the login l, may not have l's cookie any more.
Superseded(l, b) == logins[l].used \/ \E x \in Logins \ {l} : started[x] = b

Explained ==
  /\ \A l \in answered, b \in Browsers :
       started[l] = b /\ jar[b].login # l => Superseded(l, b)
  /\ \A c \in Callbacks :
       LET w == work[c] IN
       w # None /\ started[w.login] = w.browser /\ w.cookie # w.login
         => Superseded(w.login, w.browser)

LEMMA ExplainedStep ==
  ASSUME LoginTypeOK, Answered, OwnCookies, SpentOnce, Explained, [LoginNext]_loginVars
  PROVE  Explained'
<1> USE DEF Explained, Superseded
<1>a. \A l \in answered : l \in Logins /\ logins[l] # None /\ started[l] # None
  BY DEF LoginTypeOK, Answered
<1>b. \A c \in Callbacks : work[c] # None =>
        work[c].login \in answered /\ work[c].browser \in Browsers
  BY DEF LoginTypeOK, Answered, CallbackWork
<1>1. ASSUME NEW l \in Logins, NEW b \in Browsers, StartLogin(b, l)  PROVE Explained'
  <2>1. logins[l] = None /\ started[l] = None /\ UNCHANGED <<answered, jar, work>>
    BY <1>1 DEF StartLogin, Answered
  <2>2. \A x \in Logins \ {l} : logins'[x] = logins[x] /\ started'[x] = started[x]
    BY <1>1 DEF StartLogin, LoginTypeOK
  <2>3. None \notin Browsers
    BY NoneAssumption
  <2> QED BY <1>a, <1>b, <2>1, <2>2, <2>3
<1>2. ASSUME NEW l \in Logins, AnswerLogin(l)  PROVE Explained'
  <2>1. answered' = answered \union {l} /\ UNCHANGED <<logins, started, work>>
    BY <1>2 DEF AnswerLogin, serverVars
  <2>2. \A b \in Browsers : jar'[b].login = IF b = started[l] THEN l ELSE jar[b].login
    BY <1>2, AnswerLoginEffect
  <2> QED BY <1>a, <2>1, <2>2
<1>3. ASSUME UNCHANGED <<logins, started, answered, jar, work>>  PROVE Explained'
  BY <1>3
<1>4. ASSUME NEW l \in Logins, ExpireLogin(l)  PROVE Explained'
  <2>1. UNCHANGED <<started, answered, jar, work>>
    BY <1>4 DEF ExpireLogin, outsideVars
  <2>2. \A x \in answered : logins'[x].used = logins[x].used
    BY <1>4, <1>a, ExpireLoginEffect
  <2> QED BY <1>a, <1>b, <2>1, <2>2
<1>5. ASSUME NEW c \in Callbacks, NEW b \in Browsers, NEW l \in Logins, NEW code \in codes,
             OpenCallback(c, b, l, code)
      PROVE  Explained'
  <2> DEFINE w == [browser |-> b, login |-> l, code |-> code, cookie |-> jar[b].login]
  <2>1. w.login = l /\ w.cookie = jar[b].login /\ w.browser = b
    OBVIOUS
  <2>2. work' = [work EXCEPT ![c] = w] /\ l \in answered
        /\ UNCHANGED <<logins, started, answered, jar>>
    BY <1>5 DEF OpenCallback, serverVars, outsideVars
  <2> HIDE DEF w
  <2>3. \A d \in Callbacks : work'[d] = IF d = c THEN w ELSE work[d]
    BY <2>2 DEF LoginTypeOK
  <2> QED BY <2>1, <2>2, <2>3
<1>6. ASSUME NEW c \in Callbacks, Drop(c)  PROVE Explained'
  BY <1>6 DEF Drop, serverVars, outsideVars, LoginTypeOK
<1>7. ASSUME NEW c \in Callbacks, Spend(c)  PROVE Explained'
  <2>1. CASE MaySpend(c)
    <3>1. UNCHANGED <<started, answered, jar, work>>
      BY <1>7, <2>1 DEF Spend, outsideVars
    <3>2. \A x \in answered : logins[x].used => logins'[x].used
      BY <1>7, <1>a, <2>1, SpendEffect
    <3> QED BY <1>a, <1>b, <3>1, <3>2
  <2> QED BY <1>6, <1>7, <2>1 DEF Spend
<1>8. ASSUME NEW c \in Callbacks, Finish(c)  PROVE Explained'
  BY <1>3, <1>6, <1>8 DEF Finish, outsideVars
<1>9. ASSUME NEW c \in Callbacks, Deliver(c)  PROVE Explained'
  <2>1. work[c] # None /\ work[c].login \in Logins /\ work[c].cookie = work[c].login
        /\ work[c].browser \in Browsers /\ logins[work[c].login].used
    BY <1>9, WorkOf DEF Deliver, OwnCookies, SpentOnce
  <2>2. started[work[c].login] = work[c].browser
    BY <2>1, NoneAssumption DEF OwnCookies
  <2> DEFINE x == [login |-> None, session |-> work[c].login]
  <2>3. jar' = [jar EXCEPT ![work[c].browser] = x] /\ work' = [work EXCEPT ![c] = None]
        /\ UNCHANGED <<logins, started, answered>>
    BY <1>9 DEF Deliver, serverVars, outsideVars
  <2> HIDE DEF x
  <2>4. \A b \in Browsers \ {work[c].browser} : jar'[b] = jar[b]
    BY <2>3 DEF LoginTypeOK
  <2>5. \A d \in Callbacks : work'[d] # None => work'[d] = work[d]
    BY <2>3 DEF LoginTypeOK
  <2>6. \A l \in answered, b \in Browsers : started[l] = b /\ jar'[b].login # l => Superseded(l, b)
    BY <1>a, <2>1, <2>2, <2>4
  <2> QED BY <2>3, <2>5, <2>6
<1>10. ASSUME NEW c \in Callbacks, Reject(c) \/ Abort(c)  PROVE Explained'
  BY <1>6, <1>10 DEF Reject, Abort
<1>11. ASSUME NEW l \in Logins, NEW p \in Subjects, AuthenticateAtProvider(l, p)
       PROVE  Explained'
  BY <1>3, <1>11 DEF AuthenticateAtProvider, serverVars
<1>12. ASSUME NEW u \in Users, NEW status \in {"active", "disabled"}, SetStatus(u, status)
       PROVE  Explained'
  BY <1>3, <1>12 DEF SetStatus, outsideVars
<1>13. ASSUME SwitchProvider \/ UNCHANGED loginVars  PROVE Explained'
  BY <1>3, <1>13 DEF SwitchProvider, loginVars, serverVars, outsideVars
<1> QED BY <1>1, <1>2, <1>4, <1>5, <1>7, <1>8, <1>9, <1>10, <1>11, <1>12, <1>13
        DEF LoginNext

LEMMA RefusalStep ==
  ASSUME LoginTypeOK, Explained, NEW c \in Callbacks, Spend(c), pc'[c] = "idle"
  PROVE  LET l == work[c].login IN
         \/ logins[l].used \/ logins[l].expired
         \/ started[l] # work[c].browser
         \/ \E x \in Logins \ {l} : started[x] = work[c].browser
<1>1. pc[c] = "sent" /\ work[c] # None
  BY DEF Spend, LoginTypeOK
<1>2. ~MaySpend(c)
  BY DEF Spend, LoginTypeOK
<1> QED BY <1>1, <1>2 DEF MaySpend, Explained, Superseded

\* For any number of tabs, a browser that began one login, in time, is let through.
THEOREM RefusalsHaveCause == LoginSpec => RefusedOnlyForCause
<1>1. LoginInit => Explained
  BY DEF LoginInit, Explained
<1>2. Explained /\ LoginTypeOK /\ Answered /\ OwnCookies /\ SpentOnce /\ [LoginNext]_loginVars
        => Explained'
  BY ExplainedStep
<1>3. LoginSpec => []Explained
  BY <1>1, <1>2, LoginTypes, CookiesCorrect, SpentCorrect, PTL DEF LoginSpec
<1>4. LoginTypeOK /\ Explained =>
        [\A c \in Callbacks :
           Spend(c) /\ pc'[c] = "idle" =>
             LET l == work[c].login IN
             \/ logins[l].used \/ logins[l].expired
             \/ started[l] # work[c].browser
             \/ \E x \in Logins \ {l} : started[x] = work[c].browser]_loginVars
  BY RefusalStep
<1> QED BY <1>3, <1>4, LoginTypes, PTL DEF RefusedOnlyForCause
=============================================================================
