\* Two logins, two browsers and two callbacks in flight, of one subject. No
\* symmetry, for the liveness property.
SPECIFICATION FairLoginSpec
CONSTANTS
  Logins = {l1, l2}
  Browsers = {b1, b2}
  Callbacks = {c1, c2}
  Subjects = {p1}
  Users = {u1, u2}
  None = None
INVARIANTS
  SessionInStartingBrowser
  SessionOfAuthenticatedSubject
  IdentityForEveryUser
PROPERTIES
  RefusedOnlyForCause
  ImplementsOneTimeLogin
  EveryCallbackEnds
