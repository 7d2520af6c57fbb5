----------------------------- MODULE RetryCall ------------------------------
(***************************************************************************)
(* One call of the RPC client the SDK is built on: withRetry around an     *)
(* endpoint, or around a failoverClient's primary and fallback endpoint.   *)
(*                                                                         *)
(* A try sends one request (with failover a second one when the first      *)
(* fails); an error is classified, and a transient one is tried again      *)
(* after a jittered exponential backoff, unless the context ends first.    *)
(* The context may end at any moment: it is canceled or its deadline       *)
(* passes.  Every request ends: the transport gives up, or the timeout     *)
(* that the failover puts on each of its two requests expires.             *)
(***************************************************************************)
EXTENDS Integers

CONSTANTS
  RetryConfig,   \* configurations tried
  Ok,            \* a request or the call succeeded
  Nil            \* not answered yet

\* In milliseconds; the jitter is in percent.
ASSUME ConfigAssumption ==
  RetryConfig \subseteq [maxRetries : Nat, initialBackoff : Int,
                         maxBackoff : Int, jitter : Int, failover : BOOLEAN]

VARIABLES
  cfg,       \* configuration of the client
  ctx,       \* "live", or how the context ended
  pc,        \* where the call stands
  attempt,   \* loop variable
  backoff,   \* backoff before the next try
  wait,      \* what applyJitter made of it
  fresh,     \* whether ctx was live when the request was sent
  err,       \* error of this try
  result,    \* what the call returned: Ok, an ErrorKind, or "retry_wait"
  primary,   \* history: error of the last request to the primary endpoint
  sent,      \* history: requests sent
  late       \* history: tries begun after the context was canceled

history == <<primary, sent, late>>
vars == <<cfg, ctx, pc, attempt, backoff, wait, fresh, err, result, history>>
----------------------------------------------------------------------------
Transient == {"rate_limited", "timeout", "rpc_unavailable"}
ErrorKind == Transient \cup {"unknown"}
IsRetryableError(kind) == kind \in Transient

\* A success is no error, and neither is an answer that is still to come.
ASSUME OutcomeAssumption ==
  /\ Ok \notin ErrorKind \cup {"retry_wait"}
  /\ Nil \notin ErrorKind \cup {"retry_wait", Ok}

\* Mutant: a canceled context counts as a timeout.
ContextError_Timeout == "timeout"

\* Class of the error of a request made under a context that has ended.
ContextError == IF ctx = "deadline" THEN "timeout" ELSE "unknown"

\* A configured duration, or the client's own when it is not positive.
OrDefault(configured, default) ==
  IF configured <= 0 THEN default ELSE configured

InitialBackoff == OrDefault(cfg.initialBackoff, 100)
MaxBackoff == OrDefault(cfg.maxBackoff, 2000)
JitterPercent == IF cfg.jitter < 0 THEN 0 ELSE cfg.jitter

\* Mutant: the backoff is not capped.
NextBackoff_NoCap(current) == current * 2

NextBackoff(current) ==
  IF current * 2 > MaxBackoff THEN MaxBackoff ELSE current * 2

\* What jitter may make of a backoff: the ends and the middle of its range.
ApplyJitter(b) ==
  LET delta == (b * JitterPercent) \div 100
  IN  {IF delta > b THEN 0 ELSE b - delta, b, b + delta}

Init ==
  /\ cfg \in RetryConfig
  /\ ctx \in {"live", "canceled", "deadline"}
  /\ pc = "primary"
  /\ attempt = 0
  /\ backoff = InitialBackoff
  /\ wait = 0
  /\ fresh = (ctx = "live")
  /\ err = Nil
  /\ result = Nil
  /\ primary = Nil
  /\ sent = 1
  /\ late = IF ctx = "canceled" THEN 1 ELSE 0

\* The context ends.
EndContext ==
  /\ ctx = "live"
  /\ result = Nil
  /\ ctx' \in {"canceled", "deadline"}
  /\ UNCHANGED <<cfg, pc, attempt, backoff, wait, fresh, err, result, history>>

\* How a request may fail: as it likes, or because its context has ended.
Failure(kind) ==
  \/ fresh /\ kind \in ErrorKind
  \/ ctx # "live" /\ kind = ContextError

\* The request to the endpoint, or to the fallback, is answered.
Answer ==
  /\ pc \in {"primary", "fallback"}
  /\ fresh
  /\ pc' = "done"
  /\ result' = Ok
  /\ UNCHANGED <<cfg, ctx, attempt, backoff, wait, fresh, err, history>>

\* The primary request fails: with failover the fallback is asked, under a
\* context of its own, whatever the error is.
PrimaryFails ==
  /\ pc = "primary"
  /\ \E kind \in ErrorKind : Failure(kind) /\ err' = kind /\ primary' = kind
  /\ IF cfg.failover
     THEN pc' = "fallback" /\ fresh' = (ctx = "live") /\ sent' = sent + 1
     ELSE pc' = "decide" /\ UNCHANGED <<fresh, sent>>
  /\ UNCHANGED <<cfg, ctx, attempt, backoff, wait, result, late>>

\* Mutant: the fallback's error is the error of the try.
FallbackFails_OwnError ==
  /\ pc = "fallback"
  /\ \E kind \in ErrorKind : Failure(kind) /\ err' = kind
  /\ pc' = "decide"
  /\ UNCHANGED <<cfg, ctx, attempt, backoff, wait, fresh, result, history>>

\* The fallback fails too: its error is dropped, the primary's stands.
FallbackFails ==
  /\ pc = "fallback"
  /\ \E kind \in ErrorKind : Failure(kind)
  /\ pc' = "decide"
  /\ UNCHANGED <<cfg, ctx, attempt, backoff, wait, fresh, err, result, history>>

MayRetry == attempt < cfg.maxRetries /\ IsRetryableError(err)

\* The error of the try is the error of the call.
GiveUp ==
  /\ pc = "decide"
  /\ ~ MayRetry
  /\ pc' = "done"
  /\ result' = err
  /\ UNCHANGED <<cfg, ctx, attempt, backoff, wait, fresh, err, history>>

\* A transient error is worth another try, after a wait.
BackOff ==
  /\ pc = "decide"
  /\ MayRetry
  /\ wait' \in ApplyJitter(backoff)
  /\ pc' = "sleep"
  /\ UNCHANGED <<cfg, ctx, attempt, backoff, fresh, err, result, history>>

\* Mutant: the wait ends with the context only.
Retry_NoTimer ==
  /\ pc = "sleep"
  /\ wait <= 0
  /\ pc' = "primary"
  /\ attempt' = attempt + 1
  /\ backoff' = NextBackoff(backoff)
  /\ fresh' = (ctx = "live")
  /\ err' = Nil
  /\ sent' = sent + 1
  /\ late' = IF ctx = "canceled" THEN late + 1 ELSE late
  /\ UNCHANGED <<cfg, ctx, wait, result, primary>>

\* The timer fires, or there was nothing to wait for, and the next try begins.
\* When the context is done as well, select may still take the timer.
Retry ==
  /\ pc = "sleep"
  /\ pc' = "primary"
  /\ attempt' = attempt + 1
  /\ backoff' = NextBackoff(backoff)
  /\ fresh' = (ctx = "live")
  /\ err' = Nil
  /\ sent' = sent + 1
  /\ late' = IF ctx = "canceled" THEN late + 1 ELSE late
  /\ UNCHANGED <<cfg, ctx, wait, result, primary>>

\* The context is done before the timer: the error of the try is dropped.
Interrupted ==
  /\ pc = "sleep"
  /\ wait > 0
  /\ ctx # "live"
  /\ pc' = "done"
  /\ result' = "retry_wait"
  /\ UNCHANGED <<cfg, ctx, attempt, backoff, wait, fresh, err, history>>

Call == Answer \/ PrimaryFails \/ FallbackFails \/ GiveUp \/ BackOff \/ Retry \/ Interrupted

Next == EndContext \/ Call

\* Every request ends and every timer fires.
Fairness == WF_vars(Call)

Spec == Init /\ [][Next]_vars /\ Fairness
----------------------------------------------------------------------------
Max2(a, b) == IF a > b THEN a ELSE b

(* Types, and an answer exactly when the call is done.                     *)
TypeOK ==
  /\ cfg \in RetryConfig
  /\ ctx \in {"live", "canceled", "deadline"}
  /\ pc \in {"primary", "fallback", "decide", "sleep", "done"}
  /\ attempt \in Nat
  /\ backoff \in Nat
  /\ wait \in Nat
  /\ fresh \in BOOLEAN
  /\ err \in ErrorKind \cup {Nil}
  /\ result \in ErrorKind \cup {Ok, "retry_wait", Nil}
  /\ primary \in ErrorKind \cup {Nil}
  /\ sent \in Nat
  /\ late \in Nat
  /\ (result # Nil) <=> (pc = "done")

(* However the requests fail, a call sends at most one request, or with    *)
(* failover two, for its first try and for each configured retry; and once *)
(* the context is canceled at most one more try begins: the one the timer  *)
(* may win against the cancellation. (After a passed deadline every retry  *)
(* that is left may begin, each with the same chance to be stopped.)       *)
RequestsBounded ==
  /\ sent <= (Max2(cfg.maxRetries, 0) + 1) * (IF cfg.failover THEN 2 ELSE 1)
  /\ late <= 1

(* A call whose context is still live fails only with the error of its last*)
(* try's primary request, and only when that error is permanent or all     *)
(* retries are spent: no transient error surfaces while a retry is left.   *)
FailsForAReason ==
  pc = "done" /\ ctx = "live" /\ result # Ok =>
    /\ result = primary
    /\ IsRetryableError(result) => attempt = Max2(cfg.maxRetries, 0)

(* The types hold, a call has an answer exactly when it is done, and the   *)
(* backoff of each retry, before jitter, is the initial one doubled for    *)
(* every earlier retry and capped from the second retry on; jitter moves   *)
(* the wait away from it by no more than its fraction.                     *)
BackoffSchedule ==
  /\ TypeOK
  /\ pc = "sleep" =>
       /\ backoff = IF attempt = 0 \/ InitialBackoff * 2^attempt <= MaxBackoff
                    THEN InitialBackoff * 2^attempt
                    ELSE MaxBackoff
       /\ 100 * wait <= backoff * (100 + JitterPercent)
       /\ 100 * wait > backoff * (100 - JitterPercent) - 100

(* Every call returns: errors, timers and cancellations never leave it     *)
(* waiting.                                                                *)
CallReturns == <>(pc = "done")
=============================================================================
