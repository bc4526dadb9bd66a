\* A reader walks a trail of at most three events in two tenants, in pages of one or
\* two, while two requests append and commit in either order.
SPECIFICATION Spec
SYMMETRY Symmetry
CONSTANTS
  Writers = {w1, w2}
  Tenants = {t1, t2}
  Kinds = {k1, k2}
  AnyKind = AnyKind
  EventIds = {1, 2, 3}
  Times = {1, 2}
  Limits = {1, 2}
  NoEvent = NoEvent
INVARIANTS
  PagesDescend
PROPERTIES
  EndedWalkIsComplete
