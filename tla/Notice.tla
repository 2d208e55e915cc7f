------------------------------- MODULE Notice -------------------------------
(***************************************************************************)
(* What the outbox promises whoever reads it: of every alert, what was     *)
(* last observed, and whether those who are to be told have been told just *)
(* that.  AlertDelivery implements it when one dispatcher runs at a time   *)
(* and the configuration stays.                                            *)
(***************************************************************************)
CONSTANTS Alerts, Facts,
          Audience   \* alert -> the destinations that are to be told

VARIABLES told,      \* alert -> the notices <<state, facts, destination>> told
          view       \* alert -> what the outbox says of it

Row == [state: {"ABSENT", "OPEN", "CLEARED"}, facts: Facts,
        ds: {"PENDING_DELIVERY", "DELIVERED", "FAILED_DELIVERY"}]

Init ==
  /\ told = [a \in Alerts |-> {}]
  /\ view \in [Alerts -> {r \in Row : r.state = "ABSENT"}]

Tell(a, x) ==
  /\ \E s \in {"OPEN", "CLEARED"}, f \in Facts :
       told' = [told EXCEPT ![a] = @ \cup {<<s, f, x>>}]
  /\ UNCHANGED view

\* What is new, again or different waits to be told.
Observes(old, new) ==
  \/ new = old
  \/ /\ new.state = "OPEN"
     /\ new.ds = "PENDING_DELIVERY"
     /\ old.state # "OPEN" \/ old.facts # new.facts
  \/ old.state = "OPEN" /\ new = [old EXCEPT !.state = "CLEARED"]

Observe ==
  /\ view' \in [Alerts -> Row]
  /\ \A a \in Alerts : Observes(view[a], view'[a])
  /\ UNCHANGED told

Informed(a) ==
  /\ Audience[a] # {}
  /\ \A x \in Audience[a] : <<view[a].state, view[a].facts, x>> \in told[a]

\* DELIVERED is said when everybody is told, and not taken back from an alert
\* that is open.
Settles(a, new) ==
  /\ new = [view[a] EXCEPT !.ds = new.ds]
  /\ \/ new.ds = view[a].ds
     \/ new.ds = "DELIVERED" /\ Informed(a)
     \/ new.ds # "DELIVERED" /\ ~(view[a].state = "OPEN" /\ view[a].ds = "DELIVERED")

Settle ==
  /\ view' \in [Alerts -> Row]
  /\ \A a \in Alerts : Settles(a, view'[a])
  /\ UNCHANGED told

Next ==
  \/ \E a \in Alerts : \E x \in Audience[a] : Tell(a, x)
  \/ Observe
  \/ Settle

Spec == Init /\ [][Next]_<<told, view>>

==============================================================================
