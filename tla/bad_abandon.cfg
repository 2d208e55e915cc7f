\* An abandoned send comes back.
SPECIFICATION Spec
CONSTANTS
  c1 = c1  c2 = c2  x = x  y = y  w1 = w1  w2 = w2  q1 = q1
  any = any  none = none  t1 = t1
  Contents = {c1}
  Dests = {x}
  NoDelivery = any
  Nobody = none
  Procs = {w1}
  Dispatchers = {w1}
  MaxAttempts = 2
  MaxRows = 4
  Tags = {t1}
  Docs <- Ack
  FinDocs <- NoFin
  Mir <- Own
  Ref <- Own
  Occupied <- OnlyEmpty
  MaxFaults = 1
  MaxRetries = 1
PROPERTIES
  AbandonIsFinal
