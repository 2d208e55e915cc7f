\* Gateway receipts and FIN service messages for two sends under one sequence number.
SPECIFICATION Spec
CONSTANTS
  c1 = c1  c2 = c2  x = x  y = y  w1 = w1  w2 = w2  q1 = q1
  any = any  none = none  t1 = t1
  Contents = {c1, c2}
  Dests = {x}
  NoDelivery = any
  Nobody = none
  Procs = {w1}
  Dispatchers = {w1}
  MaxAttempts = 2
  MaxRows = 4
  Tags = {t1}
  Docs <- Ack
  FinDocs <- AckNak
  Mir <- Same
  Ref <- Own
  Occupied <- OnlyEmpty
  MaxFaults = 0
  MaxRetries = 0
PROPERTIES
  VerdictFinal
