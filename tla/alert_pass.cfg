\* One dispatcher, runs and the operator; mail about one alert that changes.
SPECIFICATION Spec
CONSTANTS
  a = a  b = b  f = f  g = g  x = x  y = y
  none = none  w1 = w1  w2 = w2
  Alerts = {a}
  Facts = {f, g}
  Dests = {x}
  Category <- ByKey
  Routes <- AllTaken
  NotifyOn <- NoClear
  Oversized <- Fits
  AdapterOf <- Mail
  Configs <- Always
  NoDelivery = none
  Nobody = none
  Procs = {w1}
  MaxAttempts = 2
  MaxRows = 4
  MaxRuns = 2
  MaxRetries = 1
  MaxFaults = 1
INVARIANTS
  TypeOK
  DeliveredBacked
  AttemptDiscipline
  NoSilentDuplicate
PROPERTIES
  KeepsNotice
