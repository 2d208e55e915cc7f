\* An oversized alert stops the dispatcher.
SPECIFICATION FairSpec
CONSTANTS
  a = a  b = b  f = f  g = g  x = x  y = y
  none = none  w1 = w1  w2 = w2
  Alerts = {a}
  Facts = {f, g}
  Dests = {x}
  Category <- ByKey
  Routes <- AllTaken
  NotifyOn <- NoClear
  Oversized <- TooBig
  AdapterOf <- Mail
  Configs <- Always
  NoDelivery = none
  Nobody = none
  Procs = {w1}
  MaxAttempts = 2
  MaxRows = 4
  MaxRuns = 1
  MaxRetries = 0
  MaxFaults = 0
PROPERTIES
  TooLargeIsRefused
