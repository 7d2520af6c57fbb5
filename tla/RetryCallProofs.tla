-------------------------- MODULE RetryCallProofs ---------------------------
(***************************************************************************)
(* Theorems about RetryCall for every configuration: any number of         *)
(* retries, any backoffs and jitter, with and without failover.            *)
(*                                                                         *)
(* The argument: the requests sent are counted by the number of the try    *)
(* and by how far it has come; the error of a try is the primary's from    *)
(* the moment it is known; and a try that begins with a canceled context   *)
(* can only fail with an error that is not tried again, so it is the last  *)
(* one.  The backoff is doubled or capped by each retry.                   *)
(***************************************************************************)
EXTENDS RetryCall, FiniteSetTheorems, TLAPS

\* Requests a try may send.
PerTry == IF cfg.failover THEN 2 ELSE 1

\* A call has an answer exactly when it is done.
ResultInv ==
  /\ (result # Nil) <=> (pc = "done")
  /\ result = "retry_wait" => ctx # "live"
  /\ result \in ErrorKind => result = err /\ ~ MayRetry

\* The error of a try is the error of its primary request.
ErrorInv ==
  /\ pc \in {"fallback", "decide", "sleep"} => err \in ErrorKind /\ err = primary
  /\ result \in ErrorKind => err = primary
  /\ pc = "sleep" => MayRetry
  /\ pc = "fallback" => cfg.failover

\* Requests are counted by tries.
SentInv ==
  /\ attempt <= cfg.maxRetries
  /\ pc = "primary" => sent = attempt * PerTry + 1
  /\ pc = "fallback" => sent = attempt * PerTry + 2
  /\ pc \in {"decide", "sleep"} => sent = attempt * PerTry + PerTry
  /\ sent <= attempt * PerTry + PerTry

\* A try that begins after the cancellation is the last one.
LateInv ==
  /\ late \in {0, 1}
  /\ late = 1 =>
       /\ ctx = "canceled"
       /\ pc \in {"primary", "fallback"} => ~ fresh
       /\ pc \in {"fallback", "decide", "sleep"} => err = "unknown"

IInv == TypeOK /\ ResultInv /\ ErrorInv /\ SentInv /\ LateInv
----------------------------------------------------------------------------
(* The configuration and the backoff.                                      *)

\* What the client makes of its configuration is a configuration it can use.
LEMMA Defaults ==
  ASSUME cfg \in RetryConfig
  PROVE  /\ cfg.maxRetries \in Nat /\ cfg.failover \in BOOLEAN
         /\ InitialBackoff \in Nat \ {0} /\ MaxBackoff \in Nat \ {0}
         /\ JitterPercent \in Nat /\ PerTry \in {1, 2}
BY ConfigAssumption DEF InitialBackoff, MaxBackoff, JitterPercent, OrDefault, PerTry

\* Jitter moves the wait away from the backoff by no more than its fraction.
LEMMA JitterBounds ==
  ASSUME cfg \in RetryConfig, NEW b \in Nat, NEW w \in ApplyJitter(b)
  PROVE  /\ w \in Nat
         /\ 100 * w <= b * (100 + JitterPercent)
         /\ 100 * w > b * (100 - JitterPercent) - 100
<1> DEFINE j == JitterPercent
           delta == (b * j) \div 100
<1>1. j \in Nat
  BY Defaults
<1>2. w \in {IF delta > b THEN 0 ELSE b - delta, b, b + delta}
  BY DEF ApplyJitter
<1>3. j = JitterPercent
  OBVIOUS
<1> HIDE DEF j
<1> DEFINE p == b * j
<1>4. p \in Nat /\ b * (100 + j) = 100 * b + p /\ b * (100 - j) = 100 * b - p
  BY <1>1
<1>5. delta = p \div 100
  OBVIOUS
<1> HIDE DEF p, delta
<1>6. delta \in Nat /\ 100 * delta <= p /\ p < 100 * delta + 100
  BY <1>4, <1>5
<1>7. w \in Nat /\ 100 * w <= 100 * b + p /\ 100 * w > 100 * b - p - 100
  BY <1>2, <1>4, <1>6
<1>8. QED
  BY <1>3, <1>4, <1>7
----------------------------------------------------------------------------
(* The invariant holds at first, and every action keeps it.                *)

LEMMA InitIInv == Init => IInv
<1> SUFFICES ASSUME Init PROVE IInv
  OBVIOUS
<1>1. cfg \in RetryConfig
  BY DEF Init
<1>2. TypeOK /\ ResultInv
  BY <1>1, Defaults, OutcomeAssumption DEF Init, TypeOK, ResultInv, ErrorKind, Transient
<1>3. ErrorInv /\ LateInv
  <2>1. ctx = "canceled" => ~ fresh
    BY Zenon DEF Init
  <2>2. QED
    BY <2>1, OutcomeAssumption DEF Init, ErrorInv, LateInv
<1>4. SentInv
  <2>1. cfg.maxRetries \in Nat /\ PerTry \in {1, 2}
    BY <1>1, Defaults
  <2>2. QED
    BY <2>1 DEF Init, SentInv
<1>5. QED
  BY <1>2, <1>3, <1>4 DEF IInv

LEMMA NextIInv == IInv /\ [Next]_vars => IInv'
<1> SUFFICES ASSUME IInv, [Next]_vars PROVE IInv'
  OBVIOUS
<1> DEFINE m == PerTry
<1>1. /\ cfg \in RetryConfig /\ cfg' = cfg /\ PerTry' = PerTry
      /\ attempt \in Nat /\ sent \in Nat /\ late \in Nat
      /\ result \in ErrorKind \cup {Ok, "retry_wait", Nil}
  BY DEF IInv, TypeOK, Next, Call, vars, history, EndContext, Answer, PrimaryFails,
     FallbackFails, GiveUp, BackOff, Retry, Interrupted, PerTry
<1>2. /\ cfg.maxRetries \in Nat /\ m \in {1, 2} /\ MaxBackoff \in Nat \ {0}
      /\ attempt * m \in Nat /\ (attempt + 1) * m = attempt * m + m
  <2>1. m \in {1, 2} /\ cfg.maxRetries \in Nat /\ MaxBackoff \in Nat \ {0}
    BY <1>1, Defaults
  <2> HIDE DEF m
  <2>2. QED
    BY <1>1, <2>1
<1> HIDE DEF m
<1> USE DEF history
<1>3. CASE EndContext
  <2>1. TypeOK' /\ ResultInv' /\ ErrorInv'
    BY <1>3, OutcomeAssumption DEF IInv, TypeOK, ResultInv, ErrorInv, EndContext,
       ErrorKind, Transient, MayRetry, IsRetryableError
  <2>2. SentInv' /\ LateInv'
    BY <1>1, <1>3 DEF IInv, SentInv, LateInv, EndContext
  <2>3. QED
    BY <2>1, <2>2 DEF IInv
<1>4. CASE Answer
  <2>1. TypeOK' /\ ResultInv' /\ ErrorInv'
    BY <1>4, OutcomeAssumption DEF IInv, TypeOK, ResultInv, ErrorInv, Answer
  <2>2. SentInv' /\ LateInv'
    BY <1>1, <1>4 DEF IInv, SentInv, LateInv, Answer
  <2>3. QED
    BY <2>1, <2>2 DEF IInv
<1>5. CASE PrimaryFails
  <2>1. PICK kind \in ErrorKind : Failure(kind) /\ err' = kind /\ primary' = kind
    BY <1>5 DEF PrimaryFails
  <2>2. pc = "primary" /\ result = Nil
    BY <1>5 DEF PrimaryFails, IInv, ResultInv
  <2>3. TypeOK' /\ ResultInv' /\ ErrorInv'
    <3>1. /\ pc' \in {"fallback", "decide"} /\ (pc' = "fallback" => cfg'.failover)
          /\ sent' \in Nat /\ (fresh' = (ctx = "live") \/ fresh' = fresh)
      BY <1>1, <1>5 DEF PrimaryFails
    <3>2. UNCHANGED <<cfg, ctx, attempt, backoff, wait, result, late>>
      BY <1>5 DEF PrimaryFails
    <3>3. fresh' \in BOOLEAN
      BY <3>1, Zenon DEF IInv, TypeOK
    <3>4. QED
      BY <2>1, <2>2, <3>1, <3>2, <3>3, OutcomeAssumption
         DEF IInv, TypeOK, ResultInv, ErrorInv
  <2>4. SentInv'
    <3>1. sent = attempt * m + 1 /\ attempt <= cfg.maxRetries
      BY <2>2 DEF IInv, SentInv, m
    <3>2. CASE cfg.failover
      <4>1. m = 2 /\ pc' = "fallback" /\ sent' = sent + 1 /\ attempt' = attempt
        BY <1>5, <3>2 DEF PrimaryFails, m, PerTry
      <4>2. QED
        BY <1>1, <1>2, <3>1, <4>1 DEF SentInv, m
    <3>3. CASE ~ cfg.failover
      <4>1. m = 1 /\ pc' = "decide" /\ sent' = sent /\ attempt' = attempt
        BY <1>5, <3>3 DEF PrimaryFails, m, PerTry
      <4>2. QED
        BY <1>1, <1>2, <3>1, <4>1 DEF SentInv, m
    <3>4. QED
      BY <3>2, <3>3
  <2>5. LateInv'
    BY <1>5, <2>1, <2>2 DEF IInv, LateInv, PrimaryFails, Failure, ContextError
  <2>6. QED
    BY <2>3, <2>4, <2>5 DEF IInv
<1>6. CASE FallbackFails
  <2>1. pc = "fallback" /\ result = Nil /\ pc' = "decide"
        /\ UNCHANGED <<cfg, ctx, attempt, fresh, err, result, sent, late, primary>>
    BY <1>6 DEF FallbackFails, IInv, ResultInv
  <2>2. TypeOK' /\ ResultInv' /\ ErrorInv'
    BY <1>6, <2>1, OutcomeAssumption
       DEF IInv, TypeOK, ResultInv, ErrorInv, FallbackFails
  <2>3. m = 2
    BY <2>1 DEF IInv, ErrorInv, m, PerTry
  <2>4. SentInv'
    BY <1>1, <2>1, <2>3 DEF IInv, SentInv, m
  <2>5. LateInv'
    BY <2>1 DEF IInv, LateInv
  <2>6. QED
    BY <2>2, <2>4, <2>5 DEF IInv
<1>7. CASE GiveUp
  <2>1. pc = "decide" /\ err \in ErrorKind /\ err = primary /\ ~ MayRetry
        /\ pc' = "done" /\ result' = err
        /\ UNCHANGED <<cfg, ctx, attempt, backoff, wait, fresh, err, sent, late, primary>>
    BY <1>7 DEF GiveUp, IInv, ErrorInv
  <2>2. TypeOK' /\ ResultInv' /\ ErrorInv'
    BY <2>1, OutcomeAssumption
       DEF IInv, TypeOK, ResultInv, ErrorInv, MayRetry, ErrorKind, Transient
  <2>3. SentInv'
    BY <1>1, <1>2, <2>1 DEF IInv, SentInv, m
  <2>4. LateInv'
    BY <2>1 DEF IInv, LateInv
  <2>5. QED
    BY <2>2, <2>3, <2>4 DEF IInv
<1>8. CASE BackOff
  <2>1. pc = "decide" /\ MayRetry /\ pc' = "sleep" /\ result = Nil
        /\ wait' \in ApplyJitter(backoff)
        /\ UNCHANGED <<cfg, ctx, attempt, backoff, fresh, err, result, sent, late, primary>>
    BY <1>8 DEF BackOff, IInv, ResultInv
  <2>2. wait' \in Nat
    BY <1>1, <2>1, JitterBounds DEF IInv, TypeOK
  <2>3. TypeOK' /\ ResultInv' /\ ErrorInv'
    BY <2>1, <2>2, OutcomeAssumption DEF IInv, TypeOK, ResultInv, ErrorInv, MayRetry
  <2>4. SentInv'
    BY <1>1, <1>2, <2>1 DEF IInv, SentInv, m
  <2>5. LateInv'
    BY <2>1 DEF IInv, LateInv
  <2>6. QED
    BY <2>3, <2>4, <2>5 DEF IInv
<1>9. CASE Retry
  <2>1. /\ pc = "sleep" /\ MayRetry /\ result = Nil /\ pc' = "primary" /\ result' = Nil
        /\ attempt' = attempt + 1 /\ sent' = sent + 1 /\ backoff' = NextBackoff(backoff)
        /\ fresh' = (ctx = "live") /\ err' = Nil /\ wait' = wait /\ primary' = primary
        /\ late' = (IF ctx = "canceled" THEN late + 1 ELSE late) /\ ctx' = ctx
    BY <1>9 DEF Retry, IInv, ResultInv, ErrorInv
  <2>2. backoff' \in Nat
    BY <1>2, <2>1 DEF NextBackoff, IInv, TypeOK
  <2>3. late' \in Nat
    BY <1>1, <2>1
  <2>4. TypeOK' /\ ResultInv' /\ ErrorInv'
    BY <1>1, <2>1, <2>2, <2>3, OutcomeAssumption DEF IInv, TypeOK, ResultInv, ErrorInv
  <2>5. SentInv'
    <3>1. sent = attempt * m + m /\ attempt < cfg.maxRetries
      BY <2>1 DEF IInv, SentInv, MayRetry, m
    <3>2. QED
      BY <1>1, <1>2, <2>1, <3>1 DEF SentInv, m
  <2>6. LateInv'
    <3>1. err # "unknown"
      BY <2>1 DEF MayRetry, IsRetryableError, Transient
    <3>2. late = 0
      BY <2>1, <3>1 DEF IInv, LateInv
    <3>3. late' \in {0, 1} /\ (late' = 1 => ctx' = "canceled")
      BY <2>1, <3>2
    <3>4. ctx' = "canceled" => ~ fresh'
      BY <2>1, Zenon
    <3>5. QED
      BY <2>1, <3>3, <3>4 DEF LateInv
  <2>7. QED
    BY <2>4, <2>5, <2>6 DEF IInv
<1>10. CASE Interrupted
  <2>1. TypeOK' /\ ResultInv' /\ ErrorInv'
    BY <1>10, OutcomeAssumption
       DEF IInv, TypeOK, ResultInv, ErrorInv, Interrupted, ErrorKind, Transient
  <2>2. SentInv' /\ LateInv'
    BY <1>1, <1>2, <1>10 DEF IInv, SentInv, LateInv, Interrupted, m
  <2>3. QED
    BY <2>1, <2>2 DEF IInv
<1>11. CASE UNCHANGED vars
  BY <1>1, <1>11 DEF vars, IInv, TypeOK, ResultInv, ErrorInv, SentInv, LateInv,
     MayRetry, PerTry
<1>12. QED
  BY <1>3, <1>4, <1>5, <1>6, <1>7, <1>8, <1>9, <1>10, <1>11 DEF Next, Call

THEOREM Invariance == Spec => []IInv
<1>1. QED
  BY InitIInv, NextIInv, PTL DEF Spec
----------------------------------------------------------------------------
(* The schedule of the backoff.                                            *)

\* Powers of two double: a set with one more element has twice the subsets.
LEMMA PowersOfTwo ==
  /\ 2^0 = 1
  /\ \A n \in Nat : 2^n \in Nat /\ 2^(n + 1) = 2 * 2^n
<1>1. 2^0 = 1
  <2>1. SUBSET {} = {{}}
    OBVIOUS
  <2>2. Cardinality(SUBSET {}) = 2^Cardinality({}) /\ Cardinality({}) = 0
    BY FS_EmptySet, FS_SUBSET
  <2>3. QED
    BY <2>1, <2>2, FS_Singleton
<1>2. ASSUME NEW n \in Nat PROVE 2^n \in Nat /\ 2^(n + 1) = 2 * 2^n
  <2> DEFINE S == 1 .. n
             x == n + 1
             Without == SUBSET S
             With == {T \cup {x} : T \in Without}
             f == [T \in Without |-> T \cup {x}]
  <2>1. /\ IsFiniteSet(S) /\ Cardinality(S) = n
        /\ IsFiniteSet(S \cup {x}) /\ Cardinality(S \cup {x}) = n + 1 /\ x \notin S
    <3>1. IsFiniteSet(S) /\ Cardinality(S) = n /\ x \notin S
      BY FS_Interval
    <3> HIDE DEF S, x
    <3>2. QED
      BY <3>1, FS_AddElement
  <2> HIDE DEF S
  <2>2. /\ IsFiniteSet(Without) /\ Cardinality(Without) = 2^n
        /\ Cardinality(SUBSET (S \cup {x})) = 2^(n + 1)
    BY <2>1, FS_SUBSET
  <2>3. f \in Bijection(Without, With)
    <3>1. f \in Surjection(Without, With)
      BY DEF Surjection
    <3>2. \A T, U \in Without : f[T] = f[U] => T = U
      BY <2>1
    <3>3. QED
      BY <3>1, <3>2 DEF Bijection, Injection, IsInjective, Surjection
  <2>4. SUBSET (S \cup {x}) = Without \cup With
    <3>1. ASSUME NEW T \in SUBSET (S \cup {x}) PROVE T \in Without \cup With
      <4>1. CASE x \in T
        <5>1. T \ {x} \in Without /\ T = (T \ {x}) \cup {x}
          BY <4>1
        <5>2. QED
          BY <5>1
      <4>2. CASE x \notin T
        BY <4>2
      <4>3. QED
        BY <4>1, <4>2
    <3>2. QED
      BY <3>1
  <2>5. Without \cap With = {}
    BY <2>1
  <2> HIDE DEF Without, With, f
  <2>6. IsFiniteSet(With) /\ Cardinality(With) = Cardinality(Without)
    BY <2>2, <2>3, FS_Bijection DEF ExistsBijection
  <2>7. Cardinality(Without \cup With)
          = Cardinality(Without) + Cardinality(With) - Cardinality(Without \cap With)
    BY <2>2, <2>6, FS_Union
  <2>8. Cardinality(Without) \in Nat /\ Cardinality({}) = 0
    BY <2>2, FS_CardinalityType, FS_EmptySet
  <2>9. Cardinality(Without \cup With) = 2 * Cardinality(Without)
    BY <2>5, <2>6, <2>7, <2>8
  <2>10. QED
    BY <2>2, <2>4, <2>8, <2>9, Zenon
<1>3. QED
  BY <1>1, <1>2

\* The backoff is the initial one doubled by each retry, or capped.
Scheduled ==
  backoff = IF attempt = 0 \/ InitialBackoff * 2^attempt <= MaxBackoff
            THEN InitialBackoff * 2^attempt
            ELSE MaxBackoff

\* The wait is the backoff with jitter.
Jittered ==
  pc = "sleep" =>
    /\ 100 * wait <= backoff * (100 + JitterPercent)
    /\ 100 * wait > backoff * (100 - JitterPercent) - 100

\* Base case: the first backoff is the initial one.
LEMMA InitSchedule == Init => Scheduled /\ Jittered
<1> SUFFICES ASSUME Init PROVE Scheduled /\ Jittered
  OBVIOUS
<1>1. InitialBackoff \in Nat
  BY Defaults DEF Init
<1>2. QED
  BY <1>1, PowersOfTwo DEF Init, Scheduled, Jittered

LEMMA NextSchedule ==
  IInv /\ Scheduled /\ Jittered /\ [Next]_vars => Scheduled' /\ Jittered'
<1> SUFFICES ASSUME IInv, Scheduled, Jittered, [Next]_vars
             PROVE  Scheduled' /\ Jittered'
  OBVIOUS
<1>1. cfg' = cfg /\ cfg \in RetryConfig /\ attempt \in Nat /\ backoff \in Nat
  BY DEF IInv, TypeOK, Next, Call, vars, history, EndContext, Answer, PrimaryFails,
     FallbackFails, GiveUp, BackOff, Retry, Interrupted
<1>2. /\ InitialBackoff' = InitialBackoff /\ MaxBackoff' = MaxBackoff
      /\ JitterPercent' = JitterPercent
  BY <1>1 DEF InitialBackoff, MaxBackoff, JitterPercent, OrDefault
<1>3. CASE Retry
  <2>1. attempt' = attempt + 1 /\ backoff' = NextBackoff(backoff) /\ pc' = "primary"
    BY <1>3 DEF Retry
  <2> DEFINE p == 2^attempt
             d == InitialBackoff * p
  <2>2. p \in Nat /\ 2^attempt' = 2 * p
    BY <1>1, <2>1, PowersOfTwo
  <2>3. InitialBackoff \in Nat /\ MaxBackoff \in Nat \ {0}
    BY <1>1, Defaults
  <2> HIDE DEF p
  <2>4. d \in Nat /\ InitialBackoff * 2^attempt' = 2 * d
    BY <2>2, <2>3
  <2>5. backoff = IF attempt = 0 \/ d <= MaxBackoff THEN d ELSE MaxBackoff
    BY DEF Scheduled, p
  <2>6. attempt' # 0
    BY <1>1, <2>1
  <2> HIDE DEF d
  <2>7. backoff' = IF 2 * d <= MaxBackoff THEN 2 * d ELSE MaxBackoff
    BY <2>1, <2>3, <2>4, <2>5 DEF NextBackoff
  <2>8. QED
    BY <1>2, <2>1, <2>4, <2>6, <2>7 DEF Scheduled, Jittered
<1>4. CASE BackOff
  <2>1. wait' \in ApplyJitter(backoff) /\ backoff' = backoff /\ attempt' = attempt
    BY <1>4 DEF BackOff
  <2>2. /\ 100 * wait' <= backoff * (100 + JitterPercent)
        /\ 100 * wait' > backoff * (100 - JitterPercent) - 100
    BY <1>1, <2>1, JitterBounds
  <2>3. QED
    BY <1>2, <2>1, <2>2 DEF Scheduled, Jittered
<1>5. CASE ~ (Retry \/ BackOff)
  <2>1. UNCHANGED <<attempt, backoff, wait>> /\ (pc' = "sleep" => pc = "sleep")
    BY <1>5 DEF Next, Call, vars, history, EndContext, Answer, PrimaryFails,
       FallbackFails, GiveUp, Interrupted
  <2>2. QED
    BY <1>2, <2>1 DEF Scheduled, Jittered
<1>6. QED
  BY <1>3, <1>4, <1>5
----------------------------------------------------------------------------
(* What the invariant says of a call.                                      *)

(* The variables keep their types, and a call has an answer exactly when it*)
(* is done.                                                                *)
THEOREM TypeCorrect == Spec => []TypeOK
<1>1. IInv => TypeOK
  BY DEF IInv
<1>2. QED
  BY <1>1, Invariance, PTL

(* However the requests fail, a call sends at most one request, or with    *)
(* failover two, for its first try and each configured retry, and at most  *)
(* one try begins after the cancellation, for every number of retries.     *)
THEOREM CallsAreBounded == Spec => []RequestsBounded
<1>1. IInv => RequestsBounded
  <2> SUFFICES ASSUME IInv PROVE RequestsBounded
    OBVIOUS
  <2> DEFINE n == cfg.maxRetries
             m == PerTry
  <2>1. n \in Nat /\ m \in {1, 2} /\ attempt \in Nat /\ sent \in Nat
    BY Defaults DEF IInv, TypeOK
  <2>2. attempt <= n /\ sent <= attempt * m + m
    BY DEF IInv, SentInv
  <2>3. m = IF cfg.failover THEN 2 ELSE 1
    BY DEF PerTry
  <2>4. Max2(cfg.maxRetries, 0) = n
    BY <2>1 DEF Max2
  <2> HIDE DEF n, m
  <2>5. sent <= (n + 1) * m
    BY <2>1, <2>2
  <2>6. late <= 1
    BY DEF IInv, LateInv
  <2>7. QED
    BY <2>3, <2>4, <2>5, <2>6 DEF RequestsBounded
<1>2. QED
  BY <1>1, Invariance, PTL

(* While its context is live a call fails only with the error of its last  *)
(* try's primary request, and only when that error is permanent or all     *)
(* retries are spent.                                                      *)
THEOREM FailuresHaveAReason == Spec => []FailsForAReason
<1>1. IInv => FailsForAReason
  <2> SUFFICES ASSUME IInv, pc = "done", ctx = "live", result # Ok
               PROVE  /\ result = primary
                      /\ IsRetryableError(result) => attempt = Max2(cfg.maxRetries, 0)
    BY DEF FailsForAReason
  <2>1. result \in ErrorKind
    BY DEF IInv, TypeOK, ResultInv
  <2>2. result = err /\ ~ MayRetry /\ err = primary
    BY <2>1 DEF IInv, ResultInv, ErrorInv
  <2>3. attempt \in Nat /\ cfg.maxRetries \in Nat /\ attempt <= cfg.maxRetries
    BY Defaults DEF IInv, TypeOK, SentInv
  <2>4. QED
    BY <2>2, <2>3 DEF MayRetry, Max2
<1>2. QED
  BY <1>1, Invariance, PTL

(* The backoff of each retry, before jitter, is the initial one doubled for*)
(* every earlier retry and capped from the second retry on; jitter moves   *)
(* the wait away from it by no more than its fraction.                     *)
THEOREM BackoffIsScheduled == Spec => []BackoffSchedule
<1>1. IInv /\ Scheduled /\ Jittered => BackoffSchedule
  BY DEF IInv, Scheduled, Jittered, BackoffSchedule
<1>2. QED
  BY <1>1, InitSchedule, NextSchedule, Invariance, PTL DEF Spec
=============================================================================
