---------------------------- MODULE MCRetryCall -----------------------------
(***************************************************************************)
(* Instances of RetryCall for TLC.                                         *)
(***************************************************************************)
EXTENDS RetryCall

Config(retries, initial, max, jitter, failover) ==
  [maxRetries |-> retries, initialBackoff |-> initial, maxBackoff |-> max,
   jitter |-> jitter, failover |-> failover]

\* The defaults of the SDK, without and with failover; enough retries to meet
\* the cap; durations left to the client; jitter that can cancel the wait; no
\* retries at all.
MCConfigs ==
  {Config(2, 100, 1200, 20, f) : f \in BOOLEAN}
  \cup {Config(5, 100, 1200, 20, FALSE), Config(3, 0, 0, -1, TRUE),
        Config(2, 100, 50, 100, FALSE), Config(0, 100, 1200, 20, TRUE)}
=============================================================================
