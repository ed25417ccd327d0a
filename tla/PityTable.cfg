\* Two banners and a group of their own, one operation.
SPECIFICATION Spec
CONSTANTS
  b1 = b1
  b2 = b2
  g1 = g1
  k1 = k1
  None = None
  Banners = {b1, b2}
  Groups = {b1, b2, g1}
  Ops = {k1}
  MaxDraws = 2
INVARIANTS
  PityCarriedOver
  EnforceSucceeds
  DrawsAccepted
PROPERTIES
  SafeRerun
