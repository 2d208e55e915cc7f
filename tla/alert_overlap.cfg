\* Two dispatchers whose passes overlap, a destination that comes and goes, an alert that changes.
SPECIFICATION Spec
CONSTANTS
  a = a  b = b  f = f  g = g  x = x  y = y
  none = none  w1 = w1  w2 = w2
  Alerts = {a}
  Facts = {f, g}
  Dests = {x, y}
  Category <- ByKey
  Routes <- AllTaken
  NotifyOn <- NoClear
  Oversized <- TooBig
  AdapterOf <- Spooled
  Configs <- Sometimes
  NoDelivery = none
  Nobody = none
  Procs = {w1, w2}
  MaxAttempts = 1
  MaxRows = 2
  MaxRuns = 2
  MaxRetries = 0
  MaxFaults = 0
SYMMETRY Workers
INVARIANTS
  OpenDeliveredIsTold
PROPERTIES SettledStays
