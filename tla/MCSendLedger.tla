----------------------------- MODULE MCSendLedger -----------------------------
(***************************************************************************)
(* Instances of SendLedger for TLC.                                        *)
(***************************************************************************)
EXTENDS SendLedger, TLC

CONSTANTS c1, c2, x, y, w1, w2, q1, any, none, t1

\* An outbox may hold somebody else's bytes under a delivery id.
ForeignMsg == [msg |-> "foreign", meta |-> "absent"]
BadMeta    == [msg |-> "own", meta |-> "unreadable"]

OnlyEmpty == {EmptyEntry}
Collides  == {EmptyEntry, ForeignMsg}
Damaged   == {EmptyEntry, BadMeta}

Doc(v, ok) == [verdict |-> v, valid |-> ok, tag |-> t1]
Ack      == {Doc("ACCEPTED", TRUE)}
AckOrNak == {Doc("ACCEPTED", TRUE), Doc("REJECTED", TRUE)}
AnyDoc   == AckOrNak \cup {Doc("REJECTED", FALSE)}
NoDocs   == {}

NoFin    == {}
\* Session and sequence numbers, or references: one for all, or each its own.
Same == [c \in Contents |-> "same"]
Own  == [c \in Contents |-> c]

Fin(k, c, s) == [kind |-> k, copy |-> c, seme |-> s]
AckNak  == {Fin("ACK", c1, "own"), Fin("NAK", c1, "none")}
\* A message for another send, one that says nothing.
Stray   == {Fin("ACK", c1, "other"), Fin("UNUSABLE", c1, "own")}

Twins == Permutations(Dispatchers)

==============================================================================
