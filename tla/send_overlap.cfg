\* Two dispatchers whose passes overlap; two sends.
SPECIFICATION Spec
CONSTANTS
  c1 = c1  c2 = c2  x = x  y = y  w1 = w1  w2 = w2  q1 = q1
  any = any  none = none  t1 = t1
  Contents = {c1}
  Dests = {x, y}
  NoDelivery = any
  Nobody = none
  Procs = {w1, w2}
  Dispatchers = {w1, w2}
  MaxAttempts = 2
  MaxRows = 4
  Tags = {t1}
  Docs <- NoDocs
  FinDocs <- NoFin
  Mir <- Own
  Ref <- Own
  Occupied <- Collides
  MaxFaults = 0
  MaxRetries = 0
SYMMETRY Twins
INVARIANTS
  AttemptsNumbered
PROPERTIES
  SpoolNeverOverwritten
