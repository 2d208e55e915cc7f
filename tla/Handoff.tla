------------------------------- MODULE Handoff -------------------------------
(***************************************************************************)
(* What the send ledger promises its reader: of every delivery, what the   *)
(* ledger claims of it, and whether it has really been handed over at the  *)
(* boundary.  A claim follows the fact, a verdict follows a claim, the     *)
(* network has the last word, and what is unknown stays so until somebody  *)
(* starts the delivery over.  SendLedger implements it.                    *)
(***************************************************************************)
CONSTANT Deliveries

VARIABLES handed,   \* the deliveries that are at the boundary
          claim     \* what the ledger says of each

Gateway == {"accepted", "rejected"}
Network == {"acked", "naked"}
Claims  == {"nothing", "unknown", "handed"} \cup Gateway \cup Network

Init == handed = {} /\ claim = [d \in Deliveries |-> "nothing"]

HandOver(d) ==
  /\ d \notin handed
  /\ handed' = handed \cup {d}
  /\ UNCHANGED claim

\* How the claim on d may change; "nothing" again when the operator gives up
\* a delivery that waits for its verdict, or of which it is not known whether
\* it was handed over.
Moves(d, old, new) ==
  \/ old = new
  \/ old = "nothing" /\ new = "handed" /\ d \in handed
  \/ old = "nothing" /\ new = "unknown"
  \/ old = "unknown" /\ new = "nothing"
  \/ old = "handed" /\ new \in {"nothing"} \cup Gateway \cup Network
  \/ old \in Gateway /\ new \in Network

\* One commit may move the claims on several deliveries.
Claim ==
  /\ claim' \in [Deliveries -> Claims]
  /\ \A d \in Deliveries : Moves(d, claim[d], claim'[d])
  /\ UNCHANGED handed

Next == Claim \/ \E d \in Deliveries : HandOver(d)

Spec == Init /\ [][Next]_<<handed, claim>>

==============================================================================
