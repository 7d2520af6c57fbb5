----------------------------- MODULE BulkPools ------------------------------
(***************************************************************************)
(* Service.GetMetricsByPools: one call that validates its items, groups    *)
(* them by protocol route, runs one worker goroutine per group behind a    *)
(* counting semaphore, and joins the workers before it answers.            *)
(*                                                                         *)
(* The caller's goroutine and the workers share the results slice, the     *)
(* running statistics and one mutex.  The RPC stack below a worker         *)
(* (PreloadedClient, chunking, retries) and the pool calculators are seen  *)
(* here only as calls that answer or fail.  No statement of the call looks *)
(* at ctx, so a cancelled ctx is one of the reasons for an RPC call to fail.*)
(***************************************************************************)
EXTENDS Integers, FiniteSets

CONSTANTS
  MaxPools,            \* bound: longest request
  Route,               \* protocol routes with a calculator
  Rejection,           \* ways an item can be refused before it is grouped
  RPCError,            \* error codes a failed priming or calculation reports
  RequestConcurrency,  \* bound: values of req.MaxConcurrency tried (0: omitted)
  DefaultConcurrency,  \* Config.MaxBulkConcurrency
  MaxCalls,            \* bound: RPC calls one calculation makes
  Nil                  \* no value

ASSUME BoundsAssumption == MaxPools \in Nat /\ MaxCalls \in Nat
ASSUME RouteAssumption == IsFiniteSet(Route) /\ Nil \notin Route
ASSUME RejectionAssumption ==
  Rejection \subseteq {"malformed", "curve", "unsupported"} \ Route
ASSUME ConcurrencyAssumption ==
  RequestConcurrency \subseteq Int /\ DefaultConcurrency \in Int
ASSUME NilAssumption ==
  Nil \notin RPCError \cup {"invalid_argument", "unsupported_route"} \cup Int
           \cup [code : RPCError \cup {"invalid_argument", "unsupported_route"},
                  from : Route \cup Int]

VARIABLES
  route,       \* req.Pools: route of each item, or why it is refused
  requested,   \* req.MaxConcurrency
  caller,      \* where the calling goroutine stands
  pending,     \* groups not handed to a worker yet
  cap,         \* capacity of the sem channel
  sem,         \* tokens in the sem channel
  wg,          \* counter of the WaitGroup
  pc,          \* where each group's worker stands
  todo,        \* indices the worker of a group has still to answer
  primeErr,    \* error of the worker's PrimeAccounts
  answer,      \* what GetMetricsByPool returned, before it is stored
  calls,       \* preloaded.Stats() of the worker
  seen,        \* totalStats as loaded by the += in progress
  totalStats,  \* statistics summed over the workers
  resultMu,    \* holder of the mutex
  results,     \* results slice
  report       \* statistics and failure counts annotated on the request

callerVars == <<route, requested, caller, pending, cap>>
workerVars == <<pc, todo, primeErr, answer, calls, seen>>
vars == <<callerVars, workerVars, sem, wg, totalStats, resultMu, results, report>>
----------------------------------------------------------------------------
Items == DOMAIN route

RejectionCode ==
  [malformed |-> "invalid_argument", curve |-> "invalid_argument",
   unsupported |-> "unsupported_route"]

ErrorCode == RPCError \cup {RejectionCode[k] : k \in Rejection}

\* An SDKError: its code, and what the error it was made from belongs to (the
\* group whose priming failed, or the item that was refused or calculated).
SDKError == [code : ErrorCode, from : Route \cup 1 .. MaxPools]
Failure(c, from) == [code |-> c, from |-> from]

\* A results slot; metrics names the item whose pool they were computed from.
Slot == [metrics : (1 .. MaxPools) \cup {Nil}, error : SDKError \cup {Nil}]
EmptySlot == [metrics |-> Nil, error |-> Nil]
WithError(slot, e) == [metrics |-> slot.metrics, error |-> e]
WithMetrics(slot, m) == [metrics |-> m, error |-> slot.error]

Group(r) == {i \in Items : route[i] = r}

AtMost(a, b) == IF a > b THEN b ELSE a

\* Mutant: the limit of the request is ignored.
ResolveConcurrency_ConfigOnly(n) ==
  AtMost(IF DefaultConcurrency <= 0 THEN 1 ELSE DefaultConcurrency, n)

\* Workers allowed for a request of n items.
ResolveConcurrency(n) ==
  LET wanted == IF requested <= 0 THEN DefaultConcurrency ELSE requested
  IN  AtMost(IF wanted <= 0 THEN 1 ELSE wanted, n)

\* Items are taken in the order they were appended to the group.
IsNext(g, i) == i \in todo[g] /\ \A j \in todo[g] : i <= j

FailedItemReasons ==
  [c \in ErrorCode |-> Cardinality({i \in Items : /\ results[i].error # Nil
                                            /\ results[i].error.code = c})]

Init ==
  /\ \E n \in 0 .. MaxPools : route \in [1 .. n -> Route \cup Rejection]
  /\ requested \in RequestConcurrency
  /\ caller = "start"
  /\ pending = {}
  /\ cap = 0
  /\ sem = 0
  /\ wg = 0
  /\ pc = [g \in Route |-> "none"]
  /\ todo = [g \in Route |-> {}]
  /\ primeErr = [g \in Route |-> Nil]
  /\ answer = [g \in Route |-> EmptySlot]
  /\ calls = [g \in Route |-> 0]
  /\ seen = [g \in Route |-> 0]
  /\ totalStats = 0
  /\ resultMu = Nil
  /\ results = [i \in DOMAIN route |-> EmptySlot]
  /\ report = Nil
----------------------------------------------------------------------------
(* The calling goroutine.                                                  *)

ReturnEmpty ==
  /\ caller = "start"
  /\ Items = {}
  /\ caller' = "returned"
  /\ UNCHANGED <<route, requested, pending, cap, workerVars, sem, wg,
                 totalStats, resultMu, results, report>>

Partition ==
  /\ caller = "start"
  /\ Items # {}
  /\ results' = [i \in Items |->
       IF route[i] \in Route THEN EmptySlot
       ELSE [metrics |-> Nil, error |-> Failure(RejectionCode[route[i]], i)]]
  /\ pending' = {r \in Route : Group(r) # {}}
  /\ cap' = AtMost(ResolveConcurrency(Cardinality(Items)), Cardinality(pending'))
  /\ caller' = "dispatch"
  /\ UNCHANGED <<route, requested, workerVars, sem, wg, totalStats,
                 resultMu, report>>

\* wg.Add, then the send on sem that blocks while the channel is full, then go.
Dispatch(g) ==
  /\ caller = "dispatch"
  /\ g \in pending
  /\ sem < cap
  /\ wg' = wg + 1
  /\ sem' = sem + 1
  /\ pending' = pending \ {g}
  /\ pc' = [pc EXCEPT ![g] = "prime"]
  /\ UNCHANGED <<route, requested, caller, cap, todo, primeErr, answer,
                 calls, seen, totalStats, resultMu, results, report>>

\* Mutant: the call answers without waiting for its workers.
Return_NoWait ==
  /\ caller = "dispatch"
  /\ pending = {}
  /\ report' = [calls |-> totalStats, failed |-> FailedItemReasons]
  /\ caller' = "returned"
  /\ UNCHANGED <<route, requested, pending, cap, workerVars, sem, wg, totalStats,
                 resultMu, results>>

\* wg.Wait passes; a request without groups comes here with wg at zero.
Return ==
  /\ caller = "dispatch"
  /\ pending = {}
  /\ wg = 0
  /\ report' = [calls |-> totalStats, failed |-> FailedItemReasons]
  /\ caller' = "returned"
  /\ UNCHANGED <<route, requested, pending, cap, workerVars, sem, wg,
                 totalStats, resultMu, results>>
----------------------------------------------------------------------------
(* The worker of group g.                                                  *)

\* PrimeAccounts answers: nil, or an error for the whole group.
PrimeAccounts(g) ==
  /\ pc[g] = "prime"
  /\ \/ /\ pc' = [pc EXCEPT ![g] = "compute"]
        /\ UNCHANGED primeErr
     \/ /\ pc' = [pc EXCEPT ![g] = "fail"]
        /\ \E c \in RPCError : primeErr' = [primeErr EXCEPT ![g] = Failure(c, g)]
  /\ todo' = [todo EXCEPT ![g] = Group(g)]
  /\ UNCHANGED <<callerVars, answer, calls, seen, sem, wg, totalStats, resultMu,
                 results, report>>

\* Mutant: only the first item of the group learns of the priming error.
FailItem_FirstOnly(g) ==
  /\ pc[g] = "fail"
  /\ resultMu = Nil
  /\ \E i \in todo[g] :
       /\ IsNext(g, i)
       /\ results' = [results EXCEPT ![i] = WithError(@, primeErr[g])]
  /\ todo' = [todo EXCEPT ![g] = {}]
  /\ pc' = [pc EXCEPT ![g] = "stats"]
  /\ UNCHANGED <<callerVars, primeErr, answer, calls, seen, sem, wg, totalStats,
                 resultMu, report>>

\* Mutant: the error goes to every item of the request that has no outcome yet.
FailItem_WholeRequest(g) ==
  /\ pc[g] = "fail"
  /\ resultMu = Nil
  /\ results' = [i \in Items |->
       IF results[i] = EmptySlot THEN WithError(EmptySlot, primeErr[g]) ELSE results[i]]
  /\ todo' = [todo EXCEPT ![g] = {}]
  /\ pc' = [pc EXCEPT ![g] = "stats"]
  /\ UNCHANGED <<callerVars, primeErr, answer, calls, seen, sem, wg, totalStats,
                 resultMu, report>>

\* One turn of the loop that spreads the priming error, under resultMu.
FailItem(g) ==
  /\ pc[g] = "fail"
  /\ resultMu = Nil
  /\ \E i \in todo[g] :
       /\ IsNext(g, i)
       /\ results' = [results EXCEPT ![i] = WithError(@, primeErr[g])]
       /\ todo' = [todo EXCEPT ![g] = @ \ {i}]
       /\ pc' = [pc EXCEPT ![g] = IF todo[g] = {i} THEN "stats" ELSE "fail"]
  /\ UNCHANGED <<callerVars, primeErr, answer, calls, seen, sem, wg, totalStats,
                 resultMu, report>>

\* GetMetricsByPool on the group's service: an answer and the calls it cost.
ComputeItem(g) ==
  /\ pc[g] = "compute"
  /\ \E i \in todo[g] :
       /\ IsNext(g, i)
       /\ \/ answer' = [answer EXCEPT ![g] = [metrics |-> i, error |-> Nil]]
          \/ \E c \in RPCError : answer' =
               [answer EXCEPT ![g] = [metrics |-> Nil, error |-> Failure(c, i)]]
  /\ \E n \in 0 .. MaxCalls : calls' = [calls EXCEPT ![g] = @ + n]
  /\ pc' = [pc EXCEPT ![g] = "store"]
  /\ UNCHANGED <<callerVars, todo, primeErr, seen, sem, wg, totalStats, resultMu,
                 results, report>>

\* The error or the metrics go to the item's slot, under resultMu.
StoreItem(g) ==
  /\ pc[g] = "store"
  /\ resultMu = Nil
  /\ \E i \in todo[g] :
       /\ IsNext(g, i)
       /\ results' = [results EXCEPT ![i] =
            IF answer[g].error # Nil
            THEN WithError(@, answer[g].error)
            ELSE WithMetrics(@, answer[g].metrics)]
       /\ todo' = [todo EXCEPT ![g] = @ \ {i}]
       /\ pc' = [pc EXCEPT ![g] = IF todo[g] = {i} THEN "stats" ELSE "compute"]
  /\ UNCHANGED <<callerVars, primeErr, answer, calls, seen, sem, wg, totalStats,
                 resultMu, report>>

\* Mutant: the statistics are added without the mutex.
LoadTotal_NoLock(g) ==
  /\ pc[g] = "stats"
  /\ seen' = [seen EXCEPT ![g] = totalStats]
  /\ pc' = [pc EXCEPT ![g] = "add"]
  /\ UNCHANGED <<callerVars, todo, primeErr, answer, calls, sem, wg, totalStats,
                 resultMu, results, report>>

\* totalStats += stats is a load and a store; resultMu is held over both.
LoadTotal(g) ==
  /\ pc[g] = "stats"
  /\ resultMu = Nil
  /\ resultMu' = g
  /\ seen' = [seen EXCEPT ![g] = totalStats]
  /\ pc' = [pc EXCEPT ![g] = "add"]
  /\ UNCHANGED <<callerVars, todo, primeErr, answer, calls, sem, wg, totalStats,
                 results, report>>

StoreTotal(g) ==
  /\ pc[g] = "add"
  /\ totalStats' = seen[g] + calls[g]
  /\ resultMu' = Nil
  /\ pc' = [pc EXCEPT ![g] = "release"]
  /\ UNCHANGED <<callerVars, todo, primeErr, answer, calls, seen, sem, wg, results,
                 report>>

\* Mutant: the failure path leaves without giving its token back.
ReleaseSem_NotOnError(g) ==
  /\ pc[g] = "release"
  /\ sem' = IF primeErr[g] = Nil THEN sem - 1 ELSE sem
  /\ pc' = [pc EXCEPT ![g] = "finish"]
  /\ UNCHANGED <<callerVars, todo, primeErr, answer, calls, seen, wg, totalStats,
                 resultMu, results, report>>

\* Deferred calls run in reverse order: first the semaphore, then the WaitGroup.
ReleaseSem(g) ==
  /\ pc[g] = "release"
  /\ sem' = sem - 1
  /\ pc' = [pc EXCEPT ![g] = "finish"]
  /\ UNCHANGED <<callerVars, todo, primeErr, answer, calls, seen, wg, totalStats,
                 resultMu, results, report>>

\* Mutant: the failure path calls wg.Done itself, besides the deferred call.
WorkerDone_Twice(g) ==
  /\ pc[g] = "finish"
  /\ wg' = IF primeErr[g] = Nil THEN wg - 1 ELSE wg - 2
  /\ pc' = [pc EXCEPT ![g] = "done"]
  /\ UNCHANGED <<callerVars, todo, primeErr, answer, calls, seen, sem, totalStats,
                 resultMu, results, report>>

WorkerDone(g) ==
  /\ pc[g] = "finish"
  /\ wg' = wg - 1
  /\ pc' = [pc EXCEPT ![g] = "done"]
  /\ UNCHANGED <<callerVars, todo, primeErr, answer, calls, seen, sem, totalStats,
                 resultMu, results, report>>
----------------------------------------------------------------------------
Finished == caller = "returned" /\ UNCHANGED vars

Worker(g) ==
  \/ PrimeAccounts(g)
  \/ FailItem(g)
  \/ ComputeItem(g)
  \/ StoreItem(g)
  \/ LoadTotal(g)
  \/ StoreTotal(g)
  \/ ReleaseSem(g)
  \/ WorkerDone(g)

Caller ==
  \/ ReturnEmpty
  \/ Partition
  \/ \E g \in Route : Dispatch(g)
  \/ Return

Next ==
  \/ Caller
  \/ \E g \in Route : Worker(g)
  \/ Finished

\* Every goroutine keeps running while it can; every RPC call answers.
Fairness == WF_vars(Caller) /\ \A g \in Route : WF_vars(Worker(g))

Spec == Init /\ [][Next]_vars /\ Fairness
----------------------------------------------------------------------------
(* Properties.                                                             *)

WorkerPC ==
  {"none", "prime", "fail", "compute", "store", "stats", "add", "release",
   "finish", "done"}

\* Every variable keeps its type (the state GetMetricsByPools works on).
TypeOK ==
  /\ route \in UNION {[1 .. n -> Route \cup Rejection] : n \in 0 .. MaxPools}
  /\ requested \in RequestConcurrency
  /\ caller \in {"start", "dispatch", "returned"}
  /\ pending \subseteq Route
  /\ cap \in Nat
  /\ sem \in Nat
  /\ wg \in Nat
  /\ pc \in [Route -> WorkerPC]
  /\ todo \in [Route -> SUBSET (1 .. MaxPools)]
  /\ primeErr \in [Route -> SDKError \cup {Nil}]
  /\ answer \in [Route -> Slot]
  /\ calls \in [Route -> Nat]
  /\ seen \in [Route -> Nat]
  /\ totalStats \in Nat
  /\ resultMu \in Route \cup {Nil}
  /\ results \in [Items -> Slot]
  /\ report = Nil \/ report.calls \in Nat

Resolved(i) == (results[i].metrics = Nil) # (results[i].error = Nil)

\* When the call has answered, every item of the response has metrics or an
\* error and not both, and no worker of the call is left running.
CompleteOnReturn ==
  caller = "returned" =>
    /\ \A i \in Items : Resolved(i)
    /\ \A g \in Route : pc[g] \in {"none", "done"}

Spawned == {g \in Route : pc[g] \in WorkerPC \ {"none", "finish", "done"}}

\* Protocol groups queried at the same time never exceed the MaxConcurrency of
\* the request or, when it is omitted, the client's; nor the length of the
\* request.
ConcurrencyBounded ==
  LET limit == IF requested > 0 THEN requested ELSE DefaultConcurrency
  IN  /\ Cardinality(Spawned) <= Cardinality(Items)
      /\ limit > 0 => Cardinality(Spawned) <= limit

\* The calls of the workers of the given groups, as pairs that count one each.
CallsMade(gs) == UNION {{g} \X (1 .. calls[g]) : g \in gs}

\* The figures annotated for the request add up: the calls of all groups, no
\* update lost to a concurrent one, and one failure reason per failed item.
ReportExact ==
  (caller = "returned" /\ Items # {}) =>
    /\ report.calls = Cardinality(CallsMade(Route))
    /\ Cardinality(UNION {{c} \X (1 .. report.failed[c]) : c \in ErrorCode})
         = Cardinality({i \in Items : results[i].metrics = Nil})

\* A slot is written once: no later item, group or worker touches it again, and
\* nothing at all is written after the response went out.
WriteOnce ==
  [][/\ \A i \in Items : Resolved(i) => results'[i] = results[i]
     /\ caller = "returned" => UNCHANGED <<results, report, totalStats>>]_vars

\* A failed priming answers for its whole group with that error and without a
\* calculation.  A group whose priming worked is not charged with the failure of
\* another group, nor an item of it with that of another item: it has metrics
\* from its own pool or the error of its own calculation.
PrimeFailureStaysInGroup ==
  caller = "returned" =>
    \A g \in Route : \A i \in Group(g) :
      IF primeErr[g] # Nil
      THEN /\ results[i] = [metrics |-> Nil, error |-> primeErr[g]]
           /\ results[i].error.from = g /\ calls[g] = 0
      ELSE \/ results[i] = [metrics |-> i, error |-> Nil]
           \/ \E c \in RPCError : results[i] = [metrics |-> Nil, error |-> Failure(c, i)]

\* An item of the response may end with: its own metrics, or an error of its own
\* calculation or of its route's priming, when a calculator serves its route; its
\* validation error otherwise.
OutcomesOf(kind, i) ==
  IF kind \in Route
  THEN {[metrics |-> i, error |-> Nil]}
         \cup {[metrics |-> Nil, error |-> Failure(c, from)] :
                 c \in RPCError, from \in {i, kind}}
  ELSE {[metrics |-> Nil, error |-> Failure(RejectionCode[kind], i)]}

Contract == INSTANCE BulkContract WITH
  Outcomes <- OutcomesOf, Unresolved <- EmptySlot,
  request <- route, outcome <- results, returned <- (caller = "returned")

\* The call implements the contract of a bulk call: independent outcomes, each
\* from the item's own route and pool, chosen once, and an answer in the end.
ImplementsContract == Contract!Spec
=============================================================================
