--------------------------- MODULE MCAlertDelivery ---------------------------
(***************************************************************************)
(* Instances of AlertDelivery for TLC.                                     *)
(***************************************************************************)
EXTENDS AlertDelivery, TLC

CONSTANTS a, b, f, g, x, y, none, w1, w2

AllOn    == Notices
NoClear  == {"OPEN", "CHANGE"}

ByKey    == [i \in Alerts |-> i]
AllTaken == [i \in Dests |-> Categories]

Always    == {Dests}
Sometimes == {Dests, {x}}

Mail     == [i \in Dests |-> "smtp"]
Spooled  == [i \in Dests |-> "file"]
Hooks    == [i \in Dests |-> "webhook"]

Fits   == {}
TooBig == {g}

Workers == Permutations(Procs)

==============================================================================
