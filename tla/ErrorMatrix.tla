----------------------------- MODULE ErrorMatrix -----------------------------
(***************************************************************************)
(* The global error matrix and the retry bounds that are derived from it.  *)
(* Messages are left out: retry and aggregation look at the class only.    *)
(***************************************************************************)
EXTENDS Naturals

\* The error classes of ERROR_MATRIX, grouped by their category.
Transient == {"dns_failed", "conn_timeout", "conn_refused", "conn_reset",
              "network_unreachable", "bastion_failed", "upload_failed",
              "llm_timeout", "llm_rate_limited", "llm_api_error", "db_busy"}
Permanent == {"auth_failed", "secret_resolution_failed", "exec_nonzero",
              "cancelled"}
Security  == {"host_key_unknown", "host_key_mismatch",
              "script_integrity_failed"}
Resource  == {"exec_timeout", "llm_unavailable", "blob_write_failed",
              "export_failed", "notification_failed"}
Data      == {"output_decode_failed", "llm_invalid_output", "db_write_failed",
              "outbox_write_failed", "unknown"}

ErrorClass == Transient \cup Permanent \cup Security \cup Resource \cup Data

\* The NULL of the error_class columns.
NoError == "none"

MaybeError == ErrorClass \cup {NoError}

\* Contract-03 caps attempt_count at 3.
AttemptCap == 3

\* Mutant: the cap counts retries instead of attempts.
MaxAttemptsPlusOne(class) == IF class \in Transient THEN 4 ELSE 1

\* The highest attempt_count the matrix allows for an error class.
MaxAttempts(class) ==
  IF class \in Transient THEN 3 ELSE IF class = "exec_timeout" THEN 2 ELSE 1

ShouldRetry(class, seq) == seq < MaxAttempts(class)

\* Classes that degrade a batch although its per-node results can be trusted.
DegradingClasses == {"output_decode_failed", "blob_write_failed"}
==============================================================================
