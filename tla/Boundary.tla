------------------------------- MODULE Boundary -------------------------------
(***************************************************************************)
(* What stands beyond the process when it hands a message over: the remote *)
(* outbox of the SFTP transport and the request queue of the MQ transport, *)
(* each with the send ledger's view of its delivery.                       *)
(***************************************************************************)
EXTENDS SftpHandoff, MqHandoff

\* The ledger tells the truth about the remote outbox and about the request queue
\* (deliver, verify of transport/sftp.py and transport/mq.py).
HandoffTruthful == SftpTruthful /\ MqTruthful

===============================================================================
