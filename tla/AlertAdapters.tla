---------------------------- MODULE AlertAdapters ----------------------------
(***************************************************************************)
(* The adapters that carry an alert to its destination                     *)
(* (src/ca_es/delivery/): what can become of one attempt, by the phase in  *)
(* which it ends, and what the adapter reports of it.  arrives says        *)
(* whether a copy reached the receiver.                                    *)
(***************************************************************************)

AdapterTypes == {"file", "webhook", "smtp"}
AlertOutcomes ==
  {"SUCCEEDED", "FAILED_RETRYABLE", "FAILED_PERMANENT", "UNKNOWN"}

Ends(cause, outcome, arrivals) ==
  {[cause |-> cause, outcome |-> outcome, arrives |-> b] : b \in arrivals}

\* file_adapter: a file that is there is a replay and never written again;
\* every I/O error is permanent.
FileEnds(there) ==
  Ends("config", "FAILED_PERMANENT", {FALSE}) \cup
  Ends("write", "FAILED_PERMANENT", {FALSE}) \cup
  IF there THEN Ends("replay", "SUCCEEDED", {FALSE})
           ELSE Ends("done", "SUCCEEDED", {TRUE})

\* webhook_adapter: before the bytes leave the attempt may be repeated, after
\* that the outcome is unknown until the server answers.  "busy" is an answer
\* that asks for a retry, "refused" every other one that is not expected.
WebhookEnds ==
  Ends("done", "SUCCEEDED", {TRUE}) \cup
  Ends("config", "FAILED_PERMANENT", {FALSE}) \cup
  Ends("connect", "FAILED_RETRYABLE", {FALSE}) \cup
  Ends("lost", "UNKNOWN", BOOLEAN) \cup
  Ends("tls", "FAILED_PERMANENT", BOOLEAN) \cup
  Ends("busy", "FAILED_RETRYABLE", BOOLEAN) \cup
  Ends("refused", "FAILED_PERMANENT", BOOLEAN) \cup
  Ends("exception", "FAILED_PERMANENT", {FALSE})

\* MUTANT of SmtpEnds: mail that was sent without an answer counts as sent.
SmtpEndsTrusting ==
  Ends("done", "SUCCEEDED", {TRUE}) \cup
  Ends("lost", "SUCCEEDED", BOOLEAN)

\* smtp_adapter.  An ssl.SSLError is an OSError, which the connect phase
\* catches first; a time-out during STARTTLS or login leaves the adapter as an
\* exception, which the dispatcher makes permanent.  "busy" is a 4xx answer or
\* a failure to log in that is no refusal.
SmtpEnds ==
  Ends("done", "SUCCEEDED", {TRUE}) \cup
  Ends("config", "FAILED_PERMANENT", {FALSE}) \cup
  Ends("connect", "FAILED_RETRYABLE", {FALSE}) \cup
  Ends("connect_tls", "FAILED_RETRYABLE", {FALSE}) \cup
  Ends("tls", "FAILED_PERMANENT", {FALSE}) \cup
  Ends("exception", "FAILED_PERMANENT", {FALSE}) \cup
  Ends("auth", "FAILED_PERMANENT", {FALSE}) \cup
  Ends("busy", "FAILED_RETRYABLE", {FALSE}) \cup
  Ends("refused", "FAILED_PERMANENT", {FALSE}) \cup
  Ends("partly_refused", "FAILED_PERMANENT", {TRUE}) \cup
  Ends("lost", "UNKNOWN", BOOLEAN)

\* adapter(request): how an attempt may end; there: a copy is there already.
AttemptEnds(type, there) == CASE type = "file"    -> FileEnds(there)
                              [] type = "webhook" -> WebhookEnds
                              [] type = "smtp"    -> SmtpEnds

Causes == {"done", "replay", "config", "write", "connect", "connect_tls", "tls",
           "exception", "auth", "busy", "refused", "partly_refused", "lost"}
AttemptEnd == [cause: Causes, outcome: AlertOutcomes, arrives: BOOLEAN]

==============================================================================
