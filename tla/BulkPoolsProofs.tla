-------------------------- MODULE BulkPoolsProofs ---------------------------
(***************************************************************************)
(* Theorems about BulkPools for every request, route set, limit and bound. *)
(*                                                                         *)
(* The argument: a slot is empty exactly while its item is among the items *)
(* its group's worker has left, and the two counters of the call count     *)
(* workers: sem those that have not released, wg those that have not       *)
(* finished.  So wg = 0 means that no worker is left, which means that no  *)
(* item is, which means that every slot is filled.  The figures of the     *)
(* report: the total is always the calls of the groups that have added,    *)
(* because the one adding holds the mutex from its load to its store.      *)
(***************************************************************************)
EXTENDS BulkPools, FiniteSetTheorems, TLAPS

Live == {g \in Route : pc[g] \notin {"none", "done"}}

\* Items of group g that its worker has still to answer.
Left(g) ==
  IF pc[g] \in {"none", "prime"} THEN Group(g)
  ELSE IF pc[g] \in {"fail", "compute", "store"} THEN todo[g] ELSE {}

CountersInv ==
  /\ sem = Cardinality(Spawned)
  /\ wg = Cardinality(Live)
  /\ sem <= cap

LimitInv ==
  /\ cap <= Cardinality(Items)
  /\ requested > 0 => cap <= requested
  /\ (requested <= 0 /\ DefaultConcurrency > 0) => cap <= DefaultConcurrency

\* A group without a worker is pending or has no item.
PendingInv ==
  \A g \in Route :
    /\ g \in pending => pc[g] = "none"
    /\ (caller # "start" /\ pc[g] = "none") => (g \in pending \/ Group(g) = {})

\* What a calculation of item i may answer, and what a failed priming of g says.
Own(i) ==
  {[metrics |-> i, error |-> Nil]}
    \cup {[metrics |-> Nil, error |-> Failure(c, i)] : c \in RPCError}
Charge(g) == {Failure(c, g) : c \in RPCError}

WorkerInv ==
  \A g \in Route :
    /\ pc[g] \in {"fail", "compute", "store"} => todo[g] \subseteq Group(g)
    /\ pc[g] = "fail" => primeErr[g] # Nil
    /\ primeErr[g] \in Charge(g) \cup {Nil}
    /\ pc[g] = "store" => \A i \in todo[g] : IsNext(g, i) => answer[g] \in Own(i)

SlotInv ==
  \A i \in Items :
    IF caller = "start" \/ (route[i] \in Route /\ i \in Left(route[i]))
    THEN results[i] = EmptySlot
    ELSE results[i] \in OutcomesOf(route[i], i)

PhaseInv ==
  /\ caller = "start" => pending = {} /\ \A g \in Route : pc[g] = "none"
  /\ caller = "returned" => pending = {} /\ wg = 0

IInv ==
  /\ TypeOK
  /\ CountersInv
  /\ LimitInv
  /\ PendingInv
  /\ WorkerInv
  /\ SlotInv
  /\ PhaseInv
----------------------------------------------------------------------------
\* The items of a request are finitely many indices, each with one descriptor.
LEMMA ItemsFinite ==
  ASSUME TypeOK
  PROVE  /\ Items \subseteq 1 .. MaxPools
         /\ route \in [Items -> Route \cup Rejection]
         /\ IsFiniteSet(Items)
         /\ Cardinality(Items) \in Nat
<1>1. PICK n \in 0 .. MaxPools : route \in [1 .. n -> Route \cup Rejection]
  BY DEF TypeOK
<1>2. Items = 1 .. n
  BY <1>1 DEF Items
<1>3. IsFiniteSet(Items) /\ Cardinality(Items) \in Nat
  BY <1>2, FS_Interval, FS_CardinalityType
<1>4. QED
  BY <1>1, <1>2, <1>3, BoundsAssumption

\* A set of routes is finite, and the counters move by one with it.
LEMMA RoutesCount ==
  ASSUME NEW S \in SUBSET Route, NEW g \in Route
  PROVE  /\ Cardinality(S) \in Nat
         /\ Cardinality(S) = 0 <=> S = {}
         /\ g \notin S => Cardinality(S \cup {g}) = Cardinality(S) + 1
         /\ g \in S => Cardinality(S \ {g}) = Cardinality(S) - 1
<1>1. IsFiniteSet(S)
  BY RouteAssumption, FS_Subset
<1>2. QED
  BY <1>1, FS_CardinalityType, FS_EmptySet, FS_AddElement, FS_RemoveElement

\* No worker counts zero: sem and wg of a call that has just begun.
LEMMA NoRoutesCount == Cardinality({}) = 0
BY FS_EmptySet

\* What an error says, and that it is not "no error".
LEMMA FailureFacts ==
  ASSUME NEW c \in ErrorCode, NEW from \in Route \cup 1 .. MaxPools
  PROVE  /\ Failure(c, from) \in SDKError /\ Failure(c, from) # Nil
         /\ Failure(c, from).code = c /\ Failure(c, from).from = from
<1>1. c \in RPCError \cup {"invalid_argument", "unsupported_route"}
  <2>1. \A r \in Rejection : RejectionCode[r] \in {"invalid_argument", "unsupported_route"}
    BY RejectionAssumption DEF RejectionCode
  <2>2. QED
    BY <2>1 DEF ErrorCode
<1>2. Failure(c, from) # Nil
  BY <1>1, NilAssumption, BoundsAssumption DEF Failure
<1>3. QED
  BY <1>2 DEF Failure, SDKError

\* An answer of an item's own calculation is a slot and one of its outcomes, and
\* so is the error of its group's priming.
LEMMA OutcomeKinds ==
  ASSUME TypeOK, NEW i \in Items, route[i] \in Route
  PROVE  /\ Own(i) \subseteq Slot \cap OutcomesOf(route[i], i)
         /\ \A e \in Charge(route[i]) :
              [metrics |-> Nil, error |-> e] \in OutcomesOf(route[i], i)
         /\ Charge(route[i]) \subseteq SDKError \ {Nil}
<1>1. i \in 1 .. MaxPools
  BY ItemsFinite
<1>2. \A c \in RPCError : /\ Failure(c, i) \in SDKError
                         /\ Failure(c, route[i]) \in SDKError \ {Nil}
  BY <1>1, FailureFacts DEF ErrorCode
<1>3. QED
  BY <1>1, <1>2 DEF Own, Charge, OutcomesOf, Slot

\* Base case: a call that has just begun satisfies the invariant.
LEMMA InitIInv == Init => IInv
<1> SUFFICES ASSUME Init PROVE IInv
  OBVIOUS
<1>1. TypeOK
  <2>1. PICK n \in 0 .. MaxPools : route \in [1 .. n -> Route \cup Rejection]
    BY DEF Init
  <2>2. results \in [Items -> Slot]
    BY DEF Init, Items, Slot, EmptySlot
  <2>3. answer \in [Route -> Slot]
    BY DEF Init, Slot, EmptySlot
  <2>4. QED
    BY <2>1, <2>2, <2>3 DEF Init, TypeOK, WorkerPC
<1>2. CountersInv
  <2>1. Spawned = {} /\ Live = {}
    BY DEF Init, Spawned, Live, WorkerPC
  <2>2. QED
    BY <2>1, NoRoutesCount DEF Init, CountersInv
<1>3. LimitInv
  BY <1>1, ItemsFinite, ConcurrencyAssumption DEF Init, LimitInv, TypeOK
<1>4. PendingInv /\ WorkerInv /\ PhaseInv
  BY DEF Init, PendingInv, WorkerInv, PhaseInv
<1>5. SlotInv
  BY DEF Init, SlotInv, Items
<1>6. QED
  BY <1>1, <1>2, <1>3, <1>4, <1>5 DEF IInv

----------------------------------------------------------------------------
\* A step that leaves the request and its limit alone leaves their types alone.
LEMMA RouteTypeStep ==
  ASSUME TypeOK, UNCHANGED <<route, requested>>
  PROVE  /\ route' \in UNION {[1 .. n -> Route \cup Rejection] : n \in 0 .. MaxPools}
         /\ requested' \in RequestConcurrency
         /\ Items' = Items
BY DEF TypeOK, Items

\* The capacity given to the semaphore is a number within every limit.
LEMMA PartitionCap ==
  ASSUME TypeOK, Partition
  PROVE  cap' \in Nat /\ LimitInv'
<1>1. Cardinality(Items) \in Nat
  BY ItemsFinite
<1>2. pending' \in SUBSET Route /\ Cardinality(pending') \in Nat
  <2>1. pending' \in SUBSET Route
    BY DEF Partition
  <2>2. QED
    BY <2>1, RouteAssumption, FS_Subset, FS_CardinalityType
<1>3. requested \in Int /\ DefaultConcurrency \in Int
  BY ConcurrencyAssumption DEF TypeOK
<1> DEFINE r == ResolveConcurrency(Cardinality(Items))
<1>4. /\ r \in Nat
      /\ r <= Cardinality(Items)
      /\ requested > 0 => r <= requested
      /\ (requested <= 0 /\ DefaultConcurrency > 0) => r <= DefaultConcurrency
  BY <1>1, <1>3 DEF ResolveConcurrency, AtMost
<1>5. cap' \in Nat /\ cap' <= r
  <2>1. cap' = AtMost(r, Cardinality(pending'))
    BY DEF Partition
  <2>2. QED
    BY <2>1, <1>2, <1>4 DEF AtMost
<1>6. Items' = Items /\ requested' = requested
  BY DEF Partition, Items
<1>7. QED
  BY <1>1, <1>3, <1>4, <1>5, <1>6 DEF LimitInv

\* The slot of a refused item holds the code of its refusal and no metrics.
LEMMA RejectionSlot ==
  ASSUME TypeOK, NEW i \in Items, route[i] \notin Route
  PROVE  [metrics |-> Nil, error |-> Failure(RejectionCode[route[i]], i)] \in Slot
<1>1. route[i] \in Rejection /\ i \in 1 .. MaxPools
  BY ItemsFinite
<1>2. RejectionCode[route[i]] \in ErrorCode
  BY <1>1 DEF ErrorCode
<1>3. QED
  BY <1>1, <1>2, FailureFacts DEF Slot

\* The fields of a slot, and that storing an error or metrics keeps it a slot.
LEMMA SlotFields ==
  ASSUME NEW x \in Slot
  PROVE  /\ x.metrics \in (1 .. MaxPools) \cup {Nil}
         /\ x.error \in SDKError \cup {Nil}
         /\ \A e \in SDKError \cup {Nil} : WithError(x, e) \in Slot
         /\ \A m \in (1 .. MaxPools) \cup {Nil} : WithMetrics(x, m) \in Slot
BY DEF Slot, WithError, WithMetrics

\* TypeOK is kept by every step.
LEMMA TypeStep ==
  ASSUME IInv, [Next]_vars
  PROVE  TypeOK'
<1> USE DEF IInv
<1>1. CASE ReturnEmpty
  BY <1>1 DEF ReturnEmpty, TypeOK, Items, workerVars
<1>2. CASE Partition
  <2>1. cap' \in Nat
    BY <1>2, PartitionCap
  <2>2. results' \in [Items' -> Slot]
    <3>1. ASSUME NEW i \in Items PROVE results'[i] \in Slot
      BY <1>2, RejectionSlot DEF Partition, Slot, EmptySlot
    <3>2. DOMAIN results' = Items /\ results' = [i \in Items |-> results'[i]]
      BY <1>2 DEF Partition
    <3>3. QED
      BY <1>2, <3>1, <3>2 DEF Partition, Items
  <2>3. pending' \subseteq Route
    BY <1>2 DEF Partition
  <2>4. QED
    BY <1>2, <2>1, <2>2, <2>3 DEF Partition, TypeOK, workerVars
<1>3. ASSUME NEW g \in Route, Dispatch(g) PROVE TypeOK'
  BY <1>3 DEF Dispatch, TypeOK, Items, WorkerPC
<1>4. CASE Return
  BY <1>4 DEF Return, TypeOK, Items, workerVars
<1>5. ASSUME NEW g \in Route, PrimeAccounts(g) PROVE TypeOK'
  <2>1. todo' \in [Route -> SUBSET (1 .. MaxPools)]
    BY <1>5, ItemsFinite DEF PrimeAccounts, TypeOK, Group
  <2>2. pc' \in [Route -> WorkerPC] /\ primeErr' \in [Route -> SDKError \cup {Nil}]
    <3>1. \A c \in RPCError : Failure(c, g) \in SDKError
      BY FailureFacts DEF ErrorCode
    <3>2. QED
      BY <1>5, <3>1 DEF PrimeAccounts, TypeOK, WorkerPC
  <2>3. QED
    BY <1>5, <2>1, <2>2 DEF PrimeAccounts, TypeOK, Items, callerVars
<1>6. ASSUME NEW g \in Route, FailItem(g) PROVE TypeOK'
  <2>1. results' \in [Items -> Slot]
    <3>1. PICK i \in todo[g] :
            results' = [results EXCEPT ![i] = WithError(results[i], primeErr[g])]
      BY <1>6 DEF FailItem
    <3>2. i \in Items => WithError(results[i], primeErr[g]) \in Slot
      BY SlotFields DEF TypeOK
    <3>3. QED
      BY <3>1, <3>2 DEF TypeOK
  <2>2. pc' \in [Route -> WorkerPC] /\ todo' \in [Route -> SUBSET (1 .. MaxPools)]
    BY <1>6 DEF FailItem, TypeOK, WorkerPC
  <2>3. QED
    BY <1>6, <2>1, <2>2 DEF FailItem, TypeOK, Items, callerVars
<1>7. ASSUME NEW g \in Route, ComputeItem(g) PROVE TypeOK'
  <2>1. answer' \in [Route -> Slot]
    <3>1. PICK i \in todo[g] : \E x \in Own(i) : answer' = [answer EXCEPT ![g] = x]
      BY <1>7 DEF ComputeItem, Own
    <3>2. i \in Items /\ route[i] = g
      BY <1>7 DEF ComputeItem, WorkerInv, Group
    <3>3. PICK x \in Own(i) : answer' = [answer EXCEPT ![g] = x] /\ x \in Slot
      BY <3>1, <3>2, OutcomeKinds
    <3>4. QED
      BY <3>3 DEF TypeOK
  <2>2. calls' \in [Route -> Nat]
    BY <1>7 DEF ComputeItem, TypeOK
  <2>3. QED
    BY <1>7, <2>1, <2>2 DEF ComputeItem, TypeOK, Items, callerVars, WorkerPC
<1>8. ASSUME NEW g \in Route, StoreItem(g) PROVE TypeOK'
  <2>1. results' \in [Items -> Slot]
    <3>1. PICK i \in todo[g] : results' = [results EXCEPT ![i] =
            IF answer[g].error # Nil
            THEN WithError(results[i], answer[g].error)
            ELSE WithMetrics(results[i], answer[g].metrics)]
      BY <1>8 DEF StoreItem
    <3>2. i \in Items => /\ WithError(results[i], answer[g].error) \in Slot
                         /\ WithMetrics(results[i], answer[g].metrics) \in Slot
      BY SlotFields DEF TypeOK
    <3>3. QED
      BY <3>1, <3>2 DEF TypeOK
  <2>2. pc' \in [Route -> WorkerPC] /\ todo' \in [Route -> SUBSET (1 .. MaxPools)]
    BY <1>8 DEF StoreItem, TypeOK, WorkerPC
  <2>3. QED
    BY <1>8, <2>1, <2>2 DEF StoreItem, TypeOK, Items, callerVars
<1>9. ASSUME NEW g \in Route, LoadTotal(g) PROVE TypeOK'
  BY <1>9 DEF LoadTotal, TypeOK, Items, callerVars, WorkerPC
<1>10. ASSUME NEW g \in Route, StoreTotal(g) PROVE TypeOK'
  BY <1>10 DEF StoreTotal, TypeOK, Items, callerVars, WorkerPC
<1>11. ASSUME NEW g \in Route, ReleaseSem(g) PROVE TypeOK'
  <2>1. Cardinality(Spawned \ {g}) \in Nat /\ sem' = Cardinality(Spawned \ {g})
    BY <1>11, RoutesCount DEF ReleaseSem, CountersInv, Spawned, WorkerPC
  <2>2. QED
    BY <1>11, <2>1 DEF ReleaseSem, TypeOK, Items, callerVars, WorkerPC
<1>12. ASSUME NEW g \in Route, WorkerDone(g) PROVE TypeOK'
  <2>1. Cardinality(Live \ {g}) \in Nat /\ wg' = Cardinality(Live \ {g})
    BY <1>12, RoutesCount DEF WorkerDone, CountersInv, Live
  <2>2. QED
    BY <1>12, <2>1 DEF WorkerDone, TypeOK, Items, callerVars, WorkerPC
<1>13. CASE UNCHANGED vars
  BY <1>13 DEF vars, callerVars, workerVars, TypeOK, Items
<1>14. QED
  BY <1>1, <1>2, <1>3, <1>4, <1>5, <1>6, <1>7, <1>8, <1>9, <1>10, <1>11, <1>12,
     <1>13 DEF Next, Caller, Worker, Finished

----------------------------------------------------------------------------
\* A step that moves no worker across release or finish keeps both counts.
LEMMA CountersKept ==
  ASSUME IInv, TypeOK', UNCHANGED <<sem, wg, cap>>, Spawned' = Spawned, Live' = Live
  PROVE  CountersInv'
BY DEF IInv, CountersInv

\* The counters keep counting workers, and sem stays within the capacity.
LEMMA CountersStep ==
  ASSUME IInv, [Next]_vars, TypeOK'
  PROVE  CountersInv'
<1> USE DEF IInv
<1>1. CASE ReturnEmpty
  BY <1>1, CountersKept DEF ReturnEmpty, workerVars, Spawned, Live
<1>2. CASE Partition
  <2>1. Spawned' = {} /\ Live' = {}
    BY <1>2 DEF Partition, workerVars, PhaseInv, Spawned, Live
  <2>2. Spawned = {} /\ Live = {}
    BY <1>2 DEF Partition, PhaseInv, Spawned, Live
  <2>3. sem' = 0 /\ wg' = 0
    BY <1>2, <2>2, NoRoutesCount DEF Partition, CountersInv
  <2>4. QED
    BY <2>1, <2>3, NoRoutesCount DEF CountersInv, TypeOK
<1>3. ASSUME NEW g \in Route, Dispatch(g) PROVE CountersInv'
  <2>1. pc[g] = "none"
    BY <1>3 DEF Dispatch, PendingInv
  <2>2. /\ Spawned' = Spawned \cup {g} /\ g \notin Spawned
        /\ Live' = Live \cup {g} /\ g \notin Live
    BY <1>3, <2>1 DEF Dispatch, Spawned, Live, TypeOK, WorkerPC
  <2>3. sem' = Cardinality(Spawned') /\ wg' = Cardinality(Live')
    BY <1>3, <2>2, RoutesCount DEF Dispatch, CountersInv, Spawned, Live
  <2>4. sem' <= cap'
    BY <1>3 DEF Dispatch, TypeOK
  <2>5. QED
    BY <2>3, <2>4 DEF CountersInv
<1>4. CASE Return
  BY <1>4, CountersKept DEF Return, workerVars, Spawned, Live
<1>5. ASSUME NEW g \in Route,
             PrimeAccounts(g) \/ FailItem(g) \/ ComputeItem(g) \/ StoreItem(g)
               \/ LoadTotal(g) \/ StoreTotal(g)
      PROVE  CountersInv'
  <2>1. /\ pc[g] \in {"prime", "fail", "compute", "store", "stats", "add"}
        /\ \E q \in {"fail", "compute", "store", "stats", "add", "release"} :
             pc' = [pc EXCEPT ![g] = q]
    BY <1>5 DEF PrimeAccounts, FailItem, ComputeItem, StoreItem, LoadTotal,
       StoreTotal
  <2>2. UNCHANGED <<sem, wg, cap>>
    BY <1>5 DEF PrimeAccounts, FailItem, ComputeItem, StoreItem, LoadTotal,
       StoreTotal, callerVars
  <2>3. Spawned' = Spawned /\ Live' = Live
    BY <2>1 DEF Spawned, Live, TypeOK, WorkerPC
  <2>4. QED
    BY <2>2, <2>3, CountersKept
<1>6. ASSUME NEW g \in Route, ReleaseSem(g) PROVE CountersInv'
  <2>1. /\ Spawned' = Spawned \ {g} /\ g \in Spawned
        /\ Live' = Live
    BY <1>6 DEF ReleaseSem, Spawned, Live, TypeOK, WorkerPC
  <2>2. sem' = Cardinality(Spawned') /\ wg' = Cardinality(Live')
    BY <1>6, <2>1, RoutesCount DEF ReleaseSem, CountersInv, Spawned
  <2>3. sem' <= cap'
    BY <1>6 DEF ReleaseSem, TypeOK, CountersInv, callerVars
  <2>4. QED
    BY <2>2, <2>3 DEF CountersInv
<1>7. ASSUME NEW g \in Route, WorkerDone(g) PROVE CountersInv'
  <2>1. /\ Spawned' = Spawned
        /\ Live' = Live \ {g} /\ g \in Live
    BY <1>7 DEF WorkerDone, Spawned, Live, TypeOK, WorkerPC
  <2>2. sem' = Cardinality(Spawned') /\ wg' = Cardinality(Live')
    BY <1>7, <2>1, RoutesCount DEF WorkerDone, CountersInv, Live
  <2>3. QED
    BY <1>7, <2>2 DEF WorkerDone, CountersInv, callerVars
<1>8. CASE UNCHANGED vars
  BY <1>8, CountersKept DEF vars, callerVars, workerVars, Spawned, Live
<1>9. QED
  BY <1>1, <1>2, <1>3, <1>4, <1>5, <1>6, <1>7, <1>8
     DEF Next, Caller, Worker, Finished

\* The limit is fixed before the first worker and never moves.
LEMMA LimitStep ==
  ASSUME IInv, [Next]_vars
  PROVE  LimitInv'
<1>1. CASE Partition
  BY <1>1, PartitionCap DEF IInv
<1>2. CASE ~Partition
  <2>1. UNCHANGED <<route, requested, cap>>
    BY <1>2 DEF Next, Caller, Worker, Finished, vars, callerVars, ReturnEmpty,
       Dispatch, Return, PrimeAccounts, FailItem, ComputeItem, StoreItem,
       LoadTotal, StoreTotal, ReleaseSem, WorkerDone
  <2>2. Items' = Items
    BY <2>1 DEF Items
  <2>3. QED
    BY <2>1, <2>2 DEF IInv, LimitInv
<1>3. QED
  BY <1>1, <1>2

----------------------------------------------------------------------------
\* What a step of the worker of group g leaves alone.
LEMMA WorkerFrame ==
  ASSUME TypeOK, NEW g \in Route, Worker(g)
  PROVE  /\ UNCHANGED <<route, requested, caller, pending, cap, report>>
         /\ Items' = Items
         /\ \A r \in Route : Group(r)' = Group(r)
         /\ \A r \in Route \ {g} :
              /\ pc'[r] = pc[r]
              /\ todo'[r] = todo[r]
              /\ primeErr'[r] = primeErr[r]
              /\ answer'[r] = answer[r]
<1>1. UNCHANGED <<route, requested, caller, pending, cap, report>>
  BY DEF Worker, callerVars, PrimeAccounts, FailItem, ComputeItem, StoreItem,
     LoadTotal, StoreTotal, ReleaseSem, WorkerDone
<1>2. \A r \in Route \ {g} :
        /\ pc'[r] = pc[r]
        /\ todo'[r] = todo[r]
        /\ primeErr'[r] = primeErr[r]
        /\ answer'[r] = answer[r]
  BY DEF Worker, TypeOK, PrimeAccounts, FailItem, ComputeItem, StoreItem,
     LoadTotal, StoreTotal, ReleaseSem, WorkerDone
<1>3. QED
  BY <1>1, <1>2 DEF Items, Group

\* A running worker has left "none" and cannot go back to it.
LEMMA WorkerRuns ==
  ASSUME TypeOK, NEW g \in Route, Worker(g)
  PROVE  pc[g] \notin {"none", "done"} /\ pc'[g] # "none"
BY DEF Worker, TypeOK, WorkerPC, PrimeAccounts, FailItem, ComputeItem, StoreItem,
   LoadTotal, StoreTotal, ReleaseSem, WorkerDone

\* A group leaves the pending ones when its worker starts, and only then.
LEMMA PendingStep ==
  ASSUME IInv, [Next]_vars
  PROVE  PendingInv'
<1> USE DEF IInv
<1>1. CASE ReturnEmpty
  BY <1>1 DEF ReturnEmpty, PendingInv, PhaseInv, workerVars, Group, Items
<1>2. CASE Partition
  BY <1>2 DEF Partition, PendingInv, PhaseInv, workerVars, Group, Items
<1>3. ASSUME NEW g \in Route, Dispatch(g) PROVE PendingInv'
  BY <1>3 DEF Dispatch, PendingInv, TypeOK, Group, Items
<1>4. CASE Return
  BY <1>4 DEF Return, PendingInv, workerVars, Group, Items
<1>5. ASSUME NEW g \in Route, Worker(g) PROVE PendingInv'
  BY <1>5, WorkerFrame, WorkerRuns DEF PendingInv
<1>6. CASE UNCHANGED vars
  BY <1>6 DEF vars, callerVars, workerVars, PendingInv, Group, Items
<1>7. QED
  BY <1>1, <1>2, <1>3, <1>4, <1>5, <1>6 DEF Next, Caller, Finished

\* No worker exists before the request is partitioned or after it is answered.
LEMMA PhaseStep ==
  ASSUME IInv, [Next]_vars
  PROVE  PhaseInv'
<1> USE DEF IInv
<1>1. CASE ReturnEmpty
  <2>1. Live = {}
    BY <1>1 DEF ReturnEmpty, PhaseInv, Live
  <2>2. wg = 0
    BY <2>1, NoRoutesCount DEF CountersInv
  <2>3. QED
    BY <1>1, <2>2 DEF ReturnEmpty, PhaseInv
<1>2. CASE Partition
  BY <1>2 DEF Partition, PhaseInv
<1>3. ASSUME NEW g \in Route, Dispatch(g) PROVE PhaseInv'
  BY <1>3 DEF Dispatch, PhaseInv
<1>4. CASE Return
  BY <1>4 DEF Return, PhaseInv
<1>5. ASSUME NEW g \in Route, Worker(g) PROVE PhaseInv'
  <2>1. g \in Live
    BY <1>5, WorkerRuns DEF Live
  <2>2. wg # 0
    BY <2>1, RoutesCount DEF CountersInv, Live
  <2>3. caller = "dispatch"
    BY <2>1, <2>2 DEF PhaseInv, Live, TypeOK
  <2>4. QED
    BY <1>5, <2>3, WorkerFrame DEF PhaseInv
<1>6. CASE UNCHANGED vars
  BY <1>6 DEF vars, callerVars, workerVars, PhaseInv
<1>7. QED
  BY <1>1, <1>2, <1>3, <1>4, <1>5, <1>6 DEF Next, Caller, Finished

----------------------------------------------------------------------------
\* An item in hand belongs to the worker's group, and at most one is next.
LEMMA ItemInHand ==
  ASSUME IInv, NEW g \in Route, pc[g] \in {"fail", "compute", "store"},
         NEW i \in todo[g]
  PROVE  /\ i \in Items /\ route[i] = g /\ i \in Left(g)
         /\ results[i] = EmptySlot
         /\ \A j \in todo[g] : IsNext(g, i) /\ IsNext(g, j) => i = j
<1>1. i \in Items /\ route[i] = g /\ i \in Left(g)
  BY DEF IInv, WorkerInv, Group, Left
<1>2. results[i] = EmptySlot
  BY <1>1 DEF IInv, SlotInv
<1>3. \A j \in todo[g] : IsNext(g, i) /\ IsNext(g, j) => i = j
  BY DEF IInv, TypeOK, IsNext
<1>4. QED
  BY <1>1, <1>2, <1>3

\* A failed worker knows its error; an answer waiting to be stored is one the
\* item in hand may have.
LEMMA WorkerStep ==
  ASSUME IInv, [Next]_vars
  PROVE  WorkerInv'
<1> USE DEF IInv
<1>1. CASE Caller \/ Finished \/ UNCHANGED vars
  <2>1. /\ UNCHANGED <<route, todo, primeErr, answer>>
        /\ \A g \in Route : pc'[g] = pc[g] \/ pc'[g] = "prime"
    BY <1>1 DEF Caller, Finished, vars, callerVars, workerVars, ReturnEmpty,
       Partition, Dispatch, Return, TypeOK
  <2>2. \A g \in Route : Group(g)' = Group(g)
    BY <2>1 DEF Group, Items
  <2>3. QED
    BY <2>1, <2>2 DEF WorkerInv, IsNext
<1>2. ASSUME NEW g \in Route, Worker(g) PROVE WorkerInv'
  <2> SUFFICES ASSUME NEW r \in Route
               PROVE  /\ pc'[r] \in {"fail", "compute", "store"} =>
                           todo'[r] \subseteq Group(r)
                      /\ pc'[r] = "fail" => primeErr'[r] # Nil
                      /\ primeErr'[r] \in Charge(r) \cup {Nil}
                      /\ pc'[r] = "store" => \A i \in todo'[r] :
                           IsNext(r, i)' => answer'[r] \in Own(i)
    BY <1>2, WorkerFrame DEF WorkerInv, Own, Charge
  <2>1. CASE r # g
    BY <1>2, <2>1, WorkerFrame DEF WorkerInv, IsNext
  <2>2. CASE r = g /\ PrimeAccounts(g)
    <3>1. \A c \in RPCError : Failure(c, g) # Nil /\ Failure(c, g) \in Charge(g)
      BY FailureFacts DEF ErrorCode, Charge
    <3>2. \/ pc'[g] = "compute" /\ primeErr'[g] = primeErr[g]
          \/ pc'[g] = "fail" /\ \E c \in RPCError : primeErr'[g] = Failure(c, g)
      BY <2>2 DEF PrimeAccounts, TypeOK
    <3>3. todo'[g] = Group(g)
      BY <2>2 DEF PrimeAccounts, TypeOK
    <3>4. QED
      BY <2>2, <3>1, <3>2, <3>3 DEF WorkerInv
  <2>3. CASE r = g /\ FailItem(g)
    BY <2>3 DEF FailItem, TypeOK, WorkerInv
  <2>4. CASE r = g /\ ComputeItem(g)
    <3>1. PICK i \in todo[g] :
            /\ IsNext(g, i)
            /\ \E x \in Own(i) : answer' = [answer EXCEPT ![g] = x]
      BY <2>4 DEF ComputeItem, Own
    <3>2. pc[g] = "compute" /\ pc'[g] = "store" /\ UNCHANGED <<todo, primeErr>>
      BY <2>4 DEF ComputeItem, TypeOK
    <3>3. answer'[g] \in Own(i)
      BY <3>1 DEF TypeOK
    <3>4. \A j \in todo[g] : IsNext(g, j)' => j = i
      BY <3>1, <3>2, ItemInHand DEF IsNext
    <3>5. QED
      BY <2>4, <3>2, <3>3, <3>4 DEF WorkerInv
  <2>5. CASE r = g /\ StoreItem(g)
    BY <2>5 DEF StoreItem, TypeOK, WorkerInv
  <2>6. CASE r = g /\ (LoadTotal(g) \/ StoreTotal(g) \/ ReleaseSem(g) \/ WorkerDone(g))
    BY <2>6 DEF LoadTotal, StoreTotal, ReleaseSem, WorkerDone, TypeOK, WorkerInv
  <2>7. QED
    BY <1>2, <2>1, <2>2, <2>3, <2>4, <2>5, <2>6 DEF Worker
<1>3. QED
  BY <1>1, <1>2 DEF Next

\* A slot is written by the worker that has its item in hand, with an outcome of
\* that item; every other step leaves every slot and every item left alone.
LEMMA WriteStep ==
  ASSUME IInv, NEW g \in Route, Worker(g)
  PROVE  \/ results' = results /\ Left(g)' = Left(g)
         \/ \E i \in todo[g] :
              /\ pc[g] \in {"fail", "store"}
              /\ Left(g)' = Left(g) \ {i}
              /\ \E x \in OutcomesOf(route[i], i) :
                   /\ results' = [results EXCEPT ![i] = x]
                   /\ pc[g] = "store" => x \in Own(i)
<1> USE DEF IInv
<1>1. CASE PrimeAccounts(g)
  BY <1>1, WorkerFrame DEF PrimeAccounts, TypeOK, Left
<1>2. CASE FailItem(g)
  <2>1. PICK i \in todo[g] :
          /\ results' = [results EXCEPT ![i] = WithError(results[i], primeErr[g])]
          /\ todo' = [todo EXCEPT ![g] = @ \ {i}]
          /\ pc' = [pc EXCEPT ![g] = IF todo[g] = {i} THEN "stats" ELSE "fail"]
    BY <1>2 DEF FailItem
  <2>2. pc[g] = "fail" /\ primeErr[g] \in Charge(g)
    BY <1>2 DEF FailItem, WorkerInv
  <2>3. WithError(results[i], primeErr[g]) \in OutcomesOf(route[i], i)
    <3>1. i \in Items /\ route[i] = g /\ results[i] = EmptySlot
      BY <2>2, ItemInHand
    <3>2. WithError(results[i], primeErr[g]) = [metrics |-> Nil, error |-> primeErr[g]]
      BY <3>1 DEF WithError, EmptySlot
    <3>3. QED
      BY <2>2, <3>1, <3>2, OutcomeKinds
  <2>4. Left(g)' = Left(g) \ {i}
    BY <2>1, <2>2 DEF Left, TypeOK
  <2>5. QED
    BY <2>1, <2>2, <2>3, <2>4
<1>3. CASE ComputeItem(g)
  BY <1>3 DEF ComputeItem, TypeOK, Left
<1>4. CASE StoreItem(g)
  <2>1. PICK i \in todo[g] :
          /\ IsNext(g, i)
          /\ results' = [results EXCEPT ![i] =
               IF answer[g].error # Nil
               THEN WithError(results[i], answer[g].error)
               ELSE WithMetrics(results[i], answer[g].metrics)]
          /\ todo' = [todo EXCEPT ![g] = @ \ {i}]
          /\ pc' = [pc EXCEPT ![g] = IF todo[g] = {i} THEN "stats" ELSE "compute"]
    BY <1>4 DEF StoreItem
  <2>2. pc[g] = "store" /\ answer[g] \in Own(i) /\ route[i] = g /\ i \in Items
    BY <1>4, <2>1, ItemInHand DEF StoreItem, WorkerInv
  <2> DEFINE x == IF answer[g].error # Nil
                  THEN WithError(results[i], answer[g].error)
                  ELSE WithMetrics(results[i], answer[g].metrics)
  <2>3. x \in OutcomesOf(route[i], i) /\ x \in Own(i)
    <3>1. results[i] = EmptySlot
      BY <2>2, ItemInHand
    <3>2. x = answer[g]
      BY <3>1, <2>2, FailureFacts DEF WithError, WithMetrics, Own, EmptySlot, ErrorCode
    <3>3. QED
      BY <3>2, <2>2, OutcomeKinds
  <2>4. Left(g)' = Left(g) \ {i}
    BY <2>1, <2>2 DEF Left, TypeOK
  <2>5. QED
    BY <2>1, <2>2, <2>3, <2>4
<1>5. CASE LoadTotal(g) \/ StoreTotal(g) \/ ReleaseSem(g) \/ WorkerDone(g)
  BY <1>5 DEF LoadTotal, StoreTotal, ReleaseSem, WorkerDone, TypeOK, Left
<1>6. QED
  BY <1>1, <1>2, <1>3, <1>4, <1>5 DEF Worker

\* Being started changes nothing about the items a worker has to answer.
LEMMA LeftKept ==
  ASSUME UNCHANGED <<route, todo>>, NEW r \in Route,
         pc'[r] = pc[r] \/ (pc[r] = "none" /\ pc'[r] = "prime")
  PROVE  Left(r)' = Left(r)
BY DEF Left, Group, Items

\* Slots are empty exactly while their item is left to a worker.
LEMMA SlotStep ==
  ASSUME IInv, [Next]_vars
  PROVE  SlotInv'
<1> USE DEF IInv
<1>1. CASE ReturnEmpty
  BY <1>1 DEF ReturnEmpty, SlotInv, Items
<1>2. CASE Partition
  <2> SUFFICES ASSUME NEW i \in Items
               PROVE  IF route[i] \in Route /\ i \in Left(route[i])'
                      THEN results'[i] = EmptySlot
                      ELSE results'[i] \in OutcomesOf(route[i], i)
    BY <1>2 DEF Partition, SlotInv, Items
  <2>1. CASE route[i] \in Route
    <3>1. i \in Left(route[i])'
      BY <1>2, <2>1 DEF Partition, workerVars, PhaseInv, Left, Group, Items
    <3>2. results'[i] = EmptySlot
      BY <1>2, <2>1 DEF Partition
    <3>3. QED
      BY <2>1, <3>1, <3>2
  <2>2. CASE route[i] \notin Route
    BY <1>2, <2>2 DEF Partition, OutcomesOf
  <2>3. QED
    BY <2>1, <2>2
<1>3. ASSUME NEW g \in Route, Dispatch(g) PROVE SlotInv'
  <2>1. pc[g] = "none" /\ UNCHANGED <<route, caller, todo, results>>
    BY <1>3 DEF Dispatch, PendingInv
  <2>2. \A r \in Route : Left(r)' = Left(r)
    BY <1>3, <2>1, LeftKept DEF Dispatch, TypeOK
  <2>3. QED
    BY <2>1, <2>2 DEF SlotInv, Items
<1>4. CASE Return
  <2>1. UNCHANGED <<route, pc, todo, results>> /\ caller = "dispatch"
        /\ caller' = "returned"
    BY <1>4 DEF Return, workerVars
  <2>2. \A r \in Route : Left(r)' = Left(r)
    BY <2>1, LeftKept
  <2>3. QED
    BY <2>1, <2>2 DEF SlotInv, Items
<1>5. ASSUME NEW g \in Route, Worker(g) PROVE SlotInv'
  <2>1. caller # "start" /\ caller' = caller
    BY <1>5, WorkerFrame, WorkerRuns DEF PhaseInv
  <2>2. route' = route /\ Items' = Items
    BY <1>5, WorkerFrame
  <2>3. \A r \in Route \ {g} : Left(r)' = Left(r)
    BY <1>5, WorkerFrame DEF Left
  <2>4. CASE results' = results /\ Left(g)' = Left(g)
    BY <2>1, <2>2, <2>3, <2>4 DEF SlotInv
  <2>5. ASSUME NEW i \in todo[g], pc[g] \in {"fail", "store"},
               Left(g)' = Left(g) \ {i},
               NEW x \in OutcomesOf(route[i], i),
               results' = [results EXCEPT ![i] = x]
        PROVE  SlotInv'
    <3>1. i \in Items /\ route[i] = g
      BY <2>5, ItemInHand
    <3>2. results'[i] = x /\ \A j \in Items \ {i} : results'[j] = results[j]
      BY <2>5, <3>1 DEF TypeOK
    <3>3. i \notin Left(g)' /\ \A j \in Items \ {i} : j \in Left(g)' <=> j \in Left(g)
      BY <2>5
    <3>4. QED
      BY <2>1, <2>2, <2>3, <2>5, <3>1, <3>2, <3>3 DEF SlotInv
  <2>6. QED
    BY <1>5, <2>4, <2>5, WriteStep
<1>6. CASE UNCHANGED vars
  <2>1. UNCHANGED <<route, caller, pc, todo, results>>
    BY <1>6 DEF vars, callerVars, workerVars
  <2>2. \A r \in Route : Left(r)' = Left(r)
    BY <2>1, LeftKept
  <2>3. QED
    BY <2>1, <2>2 DEF SlotInv, Items
<1>7. QED
  BY <1>1, <1>2, <1>3, <1>4, <1>5, <1>6 DEF Next, Caller, Finished

----------------------------------------------------------------------------
\* The inductive invariant holds in every reachable state.
THEOREM Invariance == Spec => []IInv
<1>1. Init => IInv
  BY InitIInv
<1>2. IInv /\ [Next]_vars => IInv'
  <2> SUFFICES ASSUME IInv, [Next]_vars PROVE IInv'
    OBVIOUS
  <2>1. TypeOK' /\ LimitInv' /\ PendingInv' /\ PhaseInv' /\ WorkerInv' /\ SlotInv'
    BY TypeStep, LimitStep, PendingStep, PhaseStep, WorkerStep, SlotStep
  <2>2. CountersInv'
    BY <2>1, CountersStep
  <2>3. QED
    BY <2>1, <2>2 DEF IInv
<1>3. QED
  BY <1>1, <1>2, PTL DEF Spec

\* Type correctness of the bulk call (GetMetricsByPools and its workers).
THEOREM TypeCorrect == Spec => []TypeOK
<1>1. IInv => TypeOK
  BY DEF IInv
<1>2. QED
  BY <1>1, Invariance, PTL

\* With wg at zero and nothing pending no item is left to a worker.
LEMMA NothingLeft ==
  ASSUME IInv, caller # "start", pending = {}, wg = 0
  PROVE  /\ \A g \in Route : pc[g] \in {"none", "done"}
         /\ \A i \in Items : results[i] \in OutcomesOf(route[i], i)
<1>1. Live = {}
  BY RoutesCount, NoRoutesCount, RouteAssumption, FS_Subset, FS_EmptySet
     DEF IInv, CountersInv, Live
<1>2. \A g \in Route : pc[g] \in {"none", "done"}
  BY <1>1 DEF Live
<1>3. \A g \in Route : Left(g) = {}
  BY <1>2 DEF IInv, PendingInv, Left
<1>4. \A i \in Items : results[i] \in OutcomesOf(route[i], i)
  BY <1>3 DEF IInv, SlotInv
<1>5. QED
  BY <1>2, <1>4

\* An outcome an item may end with is metrics or an error, and not both.
LEMMA OutcomeIsResolved ==
  ASSUME TypeOK, NEW i \in Items, NEW x \in OutcomesOf(route[i], i)
  PROVE  (x.metrics = Nil) # (x.error = Nil) /\ x # EmptySlot
<1>1. i \in 1 .. MaxPools /\ i # Nil
  BY ItemsFinite, NilAssumption
<1>2. route[i] \in Route \cup Rejection
  BY ItemsFinite
<1>3. CASE route[i] \in Route
  BY <1>1, <1>3, FailureFacts DEF OutcomesOf, EmptySlot, ErrorCode
<1>4. CASE route[i] \notin Route
  <2>1. RejectionCode[route[i]] \in ErrorCode
    BY <1>2, <1>4 DEF ErrorCode
  <2>3. Failure(RejectionCode[route[i]], i) # Nil
    BY <1>1, <2>1, FailureFacts
  <2>4. QED
    BY <1>4, <2>3 DEF OutcomesOf, EmptySlot
<1>5. QED
  BY <1>3, <1>4

\* The response is complete: each item has metrics or an error, never both, and
\* no worker outlives the call (the wg.Wait before the response is built).
THEOREM CompleteResponse == Spec => []CompleteOnReturn
<1>1. IInv => CompleteOnReturn
  BY NothingLeft, OutcomeIsResolved
     DEF CompleteOnReturn, Resolved, IInv, PhaseInv
<1>2. QED
  BY <1>1, Invariance, PTL

\* The semaphore bounds the groups queried at the same time by the limit of the
\* request, whatever routes the request names.
THEOREM BoundedWorkers == Spec => []ConcurrencyBounded
<1>1. IInv => ConcurrencyBounded
  <2> SUFFICES ASSUME IInv PROVE ConcurrencyBounded
    OBVIOUS
  <2>1. /\ Cardinality(Spawned) \in Nat /\ cap \in Nat /\ Cardinality(Items) \in Nat
        /\ Cardinality(Spawned) <= cap
    BY RoutesCount, ItemsFinite DEF IInv, CountersInv, TypeOK, Spawned
  <2>2. requested \in Int /\ DefaultConcurrency \in Int
    BY ConcurrencyAssumption DEF IInv, TypeOK
  <2>3. QED
    BY <2>1, <2>2 DEF IInv, LimitInv, ConcurrencyBounded
<1>2. QED
  BY <1>1, Invariance, PTL

----------------------------------------------------------------------------
\* How a step may change the slots: none at all, or those of items that had no
\* outcome, to an outcome of that item; and only before the call has returned.
LEMMA SlotsChange ==
  ASSUME IInv, [Next]_vars
  PROVE  /\ route' = route
         /\ \A i \in Items :
              \/ results'[i] = results[i]
              \/ results[i] = EmptySlot /\ results'[i] \in OutcomesOf(route[i], i)
         /\ caller = "returned" => UNCHANGED <<caller, results, report, totalStats>>
         /\ caller' = "returned" => \A i \in Items : results'[i] # EmptySlot
<1> USE DEF IInv
<1>1. CASE ReturnEmpty
  BY <1>1 DEF ReturnEmpty
<1>2. CASE Partition
  <2>1. /\ route' = route /\ caller = "start" /\ caller' = "dispatch"
        /\ \A i \in Items : results[i] = EmptySlot
    BY <1>2 DEF Partition, SlotInv
  <2>2. ASSUME NEW i \in Items
        PROVE  results'[i] = results[i] \/ results'[i] \in OutcomesOf(route[i], i)
    BY <1>2, <2>1 DEF Partition, OutcomesOf
  <2>3. QED
    BY <2>1, <2>2
<1>3. ASSUME NEW g \in Route, Dispatch(g)
      PROVE  UNCHANGED <<route, results, caller>> /\ caller = "dispatch"
  BY <1>3 DEF Dispatch
<1>4. CASE Return
  <2>1. /\ route' = route /\ results' = results /\ caller = "dispatch"
        /\ pending = {} /\ wg = 0
    BY <1>4 DEF Return
  <2>2. \A i \in Items : results[i] # EmptySlot
    BY <2>1, NothingLeft, OutcomeIsResolved
  <2>3. QED
    BY <2>1, <2>2
<1>5. ASSUME NEW g \in Route, Worker(g)
      PROVE  /\ route' = route /\ caller' = caller /\ caller = "dispatch"
             /\ \A i \in Items :
                  \/ results'[i] = results[i]
                  \/ /\ results[i] = EmptySlot
                     /\ results'[i] \in OutcomesOf(route[i], i)
  <2>1. g \in Live /\ wg # 0
    BY <1>5, WorkerRuns, RoutesCount DEF Live, CountersInv
  <2>2. caller = "dispatch"
    BY <2>1 DEF PhaseInv, Live, TypeOK
  <2>3. ASSUME NEW i \in todo[g], pc[g] \in {"fail", "store"},
               NEW x \in OutcomesOf(route[i], i),
               results' = [results EXCEPT ![i] = x]
        PROVE  \A j \in Items :
                 \/ results'[j] = results[j]
                 \/ /\ results[j] = EmptySlot
                    /\ results'[j] \in OutcomesOf(route[j], j)
    BY <2>3, ItemInHand DEF TypeOK
  <2>4. QED
    BY <1>5, <2>2, <2>3, WriteStep, WorkerFrame
<1>6. CASE Finished \/ UNCHANGED vars
  <2>1. UNCHANGED <<route, results, caller, report, totalStats>>
    BY <1>6 DEF Finished, vars, callerVars
  <2>2. caller = "returned" => \A i \in Items : results[i] # EmptySlot
    BY NothingLeft, OutcomeIsResolved DEF PhaseInv
  <2>3. QED
    BY <2>1, <2>2
<1>7. QED
  BY <1>1, <1>2, <1>3, <1>4, <1>5, <1>6 DEF Next, Caller

\* No slot is written twice and nothing is written after the response: the
\* slices a worker shares with the caller are the caller's alone once it returns.
THEOREM SlotsWrittenOnce == Spec => WriteOnce
<1>1. IInv /\ [Next]_vars =>
        [/\ \A i \in Items : Resolved(i) => results'[i] = results[i]
         /\ caller = "returned" => UNCHANGED <<results, report, totalStats>>]_vars
  BY SlotsChange DEF Resolved, EmptySlot
<1>2. QED
  BY <1>1, Invariance, PTL DEF Spec, WriteOnce

\* Every step of the call is a step of the contract or leaves its state alone:
\* each item's outcome depends on that item, and on no group, order or limit.
THEOREM ContractSafety ==
  Spec => Contract!Init /\ [][Contract!Next]_(Contract!contractVars)
<1>1. Init => Contract!Init
  BY DEF Init, Contract!Init
<1>2. IInv /\ [Next]_vars => [Contract!Next]_(Contract!contractVars)
  <2> SUFFICES ASSUME IInv, [Next]_vars
               PROVE  [Contract!Next]_(Contract!contractVars)
    OBVIOUS
  <2>1. CASE caller = "returned"
    BY <2>1, SlotsChange DEF Contract!contractVars
  <2>2. CASE caller # "returned"
    <3>1. DOMAIN results' = DOMAIN route
      BY SlotsChange, TypeStep DEF TypeOK, Items
    <3>2. Contract!Resolve
      BY <3>1, SlotsChange DEF Contract!Resolve, Items
    <3>3. Contract!Answer
      BY SlotsChange DEF Contract!Answer, Items
    <3>4. QED
      BY <2>2, <3>2, <3>3, SlotsChange DEF Contract!Next
  <2>3. QED
    BY <2>1, <2>2
<1>3. QED
  BY <1>1, <1>2, Invariance, PTL DEF Spec

----------------------------------------------------------------------------
(* Priming failures and statistics.                                        *)

\* What a failed priming has written so far, and that its group made no call.
FailureInv ==
  \A g \in Route :
    /\ pc[g] \in {"none", "prime", "compute", "store"} => primeErr[g] = Nil
    /\ pc[g] \in {"none", "prime"} => calls[g] = 0
    /\ primeErr[g] # Nil =>
         /\ calls[g] = 0
         /\ \A i \in Group(g) \ Left(g) :
              results[i] = [metrics |-> Nil, error |-> primeErr[g]]
    /\ primeErr[g] = Nil => \A i \in Group(g) \ Left(g) : results[i] \in Own(i)

\* Groups whose calls have been added to the total.
Summed == {g \in Route : pc[g] \in {"release", "finish", "done"}}

\* The total is the calls of the groups added, and the one adding holds resultMu
\* and the total it has read.
StatsInv ==
  /\ IsFiniteSet(CallsMade(Summed))
  /\ totalStats = Cardinality(CallsMade(Summed))
  /\ \A g \in Route : pc[g] = "add" => resultMu = g /\ seen[g] = totalStats

\* The answer was annotated with the total and the failures it went out with.
ReportInv ==
  (caller = "returned" /\ Items # {}) =>
    /\ report.calls = totalStats
    /\ report.failed = FailedItemReasons

\* What a step of the worker of group g leaves alone in the other groups.
LEMMA OtherGroups ==
  ASSUME IInv, NEW g \in Route, Worker(g), NEW r \in Route \ {g}
  PROVE  /\ calls'[r] = calls[r] /\ seen'[r] = seen[r]
         /\ Left(r)' = Left(r)
         /\ \A i \in Group(r) : results'[i] = results[i]
<1>1. calls'[r] = calls[r] /\ seen'[r] = seen[r]
  BY DEF IInv, TypeOK, Worker, PrimeAccounts, FailItem, ComputeItem, StoreItem,
     LoadTotal, StoreTotal, ReleaseSem, WorkerDone
<1>2. Left(r)' = Left(r)
  BY WorkerFrame DEF IInv, Left
<1>3. \A i \in Group(r) : results'[i] = results[i]
  <2>1. CASE results' = results
    BY <2>1
  <2>2. ASSUME NEW j \in todo[g], pc[g] \in {"fail", "store"},
               NEW x, results' = [results EXCEPT ![j] = x]
        PROVE  \A i \in Group(r) : results'[i] = results[i]
    BY <2>2, ItemInHand DEF IInv, TypeOK, Group
  <2>3. QED
    BY <2>1, <2>2, WriteStep
<1>4. QED
  BY <1>1, <1>2, <1>3

\* A failed worker writes its priming error and nothing else, and never calls.
LEMMA FailureStep ==
  ASSUME IInv, FailureInv, [Next]_vars
  PROVE  FailureInv'
<1> USE DEF IInv
<1>1. CASE Partition
  <2>1. \A g \in Route : /\ pc'[g] = "none" /\ pc[g] = "none"
                         /\ primeErr'[g] = primeErr[g] /\ calls'[g] = calls[g]
    BY <1>1 DEF Partition, workerVars, PhaseInv
  <2>2. \A g \in Route : Left(g)' = Group(g)'
    BY <2>1 DEF Left
  <2>3. QED
    BY <2>1, <2>2 DEF FailureInv
<1>2. CASE ReturnEmpty \/ Return \/ Finished \/ UNCHANGED vars
  <2>1. UNCHANGED <<route, pc, todo, primeErr, calls, results>>
    BY <1>2 DEF ReturnEmpty, Return, Finished, vars, callerVars, workerVars
  <2>2. \A r \in Route : Left(r)' = Left(r) /\ Group(r)' = Group(r)
    BY <2>1, LeftKept DEF Group, Items
  <2>3. QED
    BY <2>1, <2>2 DEF FailureInv
<1>3. ASSUME NEW g \in Route, Dispatch(g) PROVE FailureInv'
  <2>1. pc[g] = "none" /\ UNCHANGED <<route, todo, primeErr, calls, results>>
    BY <1>3 DEF Dispatch, PendingInv
  <2>2. \A r \in Route : pc'[r] = IF r = g THEN "prime" ELSE pc[r]
    BY <1>3 DEF Dispatch, TypeOK
  <2>3. \A r \in Route : Left(r)' = Left(r) /\ Group(r)' = Group(r)
    BY <2>1, <2>2, LeftKept DEF Group, Items
  <2>4. QED
    BY <2>1, <2>2, <2>3 DEF FailureInv
<1>4. ASSUME NEW g \in Route, Worker(g) PROVE FailureInv'
  <2> DEFINE Sound(r) ==
        /\ pc[r] \in {"none", "prime", "compute", "store"} => primeErr[r] = Nil
        /\ pc[r] \in {"none", "prime"} => calls[r] = 0
        /\ primeErr[r] # Nil =>
             /\ calls[r] = 0
             /\ \A i \in Group(r) \ Left(r) :
                  results[i] = [metrics |-> Nil, error |-> primeErr[r]]
        /\ primeErr[r] = Nil => \A i \in Group(r) \ Left(r) : results[i] \in Own(i)
  <2>1. \A r \in Route : Sound(r)
    BY DEF FailureInv
  <2>2. Group(g)' = Group(g)
    BY <1>4, WorkerFrame
  <2>3. ASSUME NEW r \in Route \ {g} PROVE Sound(r)'
    <3>1. pc'[r] = pc[r] /\ primeErr'[r] = primeErr[r] /\ Group(r)' = Group(r)
      BY <1>4, WorkerFrame
    <3>2. /\ calls'[r] = calls[r] /\ Left(r)' = Left(r)
          /\ \A i \in Group(r) : results'[i] = results[i]
      BY <1>4, OtherGroups
    <3>3. QED
      BY <2>1, <3>1, <3>2
  <2>4. ASSUME PrimeAccounts(g) PROVE Sound(g)'
    <3>1. pc[g] = "prime" /\ calls[g] = 0 /\ primeErr[g] = Nil
      BY <2>1, <2>4 DEF PrimeAccounts
    <3>2. calls'[g] = 0
      BY <2>4, <3>1 DEF PrimeAccounts
    <3>3. /\ \/ pc'[g] = "compute" /\ primeErr'[g] = Nil
             \/ pc'[g] = "fail"
          /\ todo'[g] = Group(g)
      BY <2>4, <3>1 DEF PrimeAccounts, TypeOK
    <3>4. Left(g)' = Group(g)
      BY <3>3 DEF Left
    <3>5. QED
      BY <2>2, <3>2, <3>3, <3>4
  <2>5. ASSUME FailItem(g) PROVE Sound(g)'
    <3>1. pc[g] = "fail" /\ primeErr[g] # Nil /\ calls[g] = 0
      BY <2>1, <2>5 DEF FailItem, WorkerInv
    <3>2. PICK i \in todo[g] :
            /\ results' = [results EXCEPT ![i] = WithError(results[i], primeErr[g])]
            /\ todo' = [todo EXCEPT ![g] = todo[g] \ {i}]
            /\ pc' = [pc EXCEPT ![g] = IF todo[g] = {i} THEN "stats" ELSE "fail"]
            /\ UNCHANGED <<calls, primeErr>>
      BY <2>5 DEF FailItem
    <3>3. results[i] = EmptySlot /\ i \in Items
      BY <3>1, ItemInHand
    <3>4. results'[i] = [metrics |-> Nil, error |-> primeErr[g]]
      BY <3>2, <3>3 DEF WithError, EmptySlot, TypeOK
    <3>5. \A j \in Group(g) \ {i} : results'[j] = results[j]
      BY <3>2 DEF TypeOK, Group
    <3>6. Left(g) = todo[g] /\ Left(g)' = todo[g] \ {i}
      BY <3>1, <3>2 DEF Left, TypeOK
    <3>7. pc'[g] \in {"stats", "fail"}
      BY <3>2 DEF TypeOK
    <3>8. QED
      BY <2>1, <2>2, <3>1, <3>2, <3>4, <3>5, <3>6, <3>7
  <2>6. ASSUME ComputeItem(g) \/ StoreItem(g) PROVE Sound(g)'
    <3>1. primeErr[g] = Nil /\ primeErr'[g] = primeErr[g]
      BY <2>1, <2>6 DEF ComputeItem, StoreItem
    <3>2. pc'[g] \in {"store", "stats", "compute"}
      BY <2>6 DEF ComputeItem, StoreItem, TypeOK
    <3>3. \A i \in Group(g) \ Left(g)' : results'[i] \in Own(i)
      <4>1. pc[g] \in {"compute", "store"}
        BY <2>6 DEF ComputeItem, StoreItem
      <4>2. CASE results' = results /\ Left(g)' = Left(g)
        BY <2>1, <3>1, <4>2
      <4>3. ASSUME NEW i \in todo[g], pc[g] = "store", Left(g)' = Left(g) \ {i},
                   NEW x \in Own(i), results' = [results EXCEPT ![i] = x]
            PROVE  \A j \in Group(g) \ Left(g)' : results'[j] \in Own(j)
        <5>1. i \in Items
          BY <4>3, ItemInHand
        <5>2. \A j \in Items : results'[j] = IF j = i THEN x ELSE results[j]
          BY <4>3, <5>1 DEF TypeOK
        <5>3. QED
          BY <2>1, <3>1, <4>3, <5>2 DEF Group
      <4>4. QED
        BY <1>4, <4>1, <4>2, <4>3, WriteStep
    <3>4. QED
      BY <2>2, <3>1, <3>2, <3>3 DEF Own
  <2>7. ASSUME LoadTotal(g) \/ StoreTotal(g) \/ ReleaseSem(g) \/ WorkerDone(g)
      PROVE  Sound(g)'
    <3>1. UNCHANGED <<calls, primeErr, results>>
      BY <2>7 DEF LoadTotal, StoreTotal, ReleaseSem, WorkerDone
    <3>2. /\ pc[g] \in {"stats", "add", "release", "finish"}
          /\ pc'[g] \in {"add", "release", "finish", "done"}
      BY <2>7 DEF LoadTotal, StoreTotal, ReleaseSem, WorkerDone, TypeOK
    <3>3. Left(g)' = Left(g)
      BY <3>2 DEF Left
    <3>4. QED
      BY <2>1, <2>2, <3>1, <3>2, <3>3
  <2>8. Sound(g)'
    BY <1>4, <2>4, <2>5, <2>6, <2>7 DEF Worker
  <2>9. \A r \in Route : Sound(r)'
    BY <2>3, <2>8
  <2>10. QED
    BY <2>9 DEF FailureInv
<1>5. QED
  BY <1>1, <1>2, <1>3, <1>4 DEF Next, Caller

----------------------------------------------------------------------------
\* The calls of one worker, counted as pairs.
LEMMA CallsOfOne ==
  ASSUME NEW g, NEW n \in Nat
  PROVE  IsFiniteSet({g} \X (1 .. n)) /\ Cardinality({g} \X (1 .. n)) = n
<1> DEFINE f == [k \in 1 .. n |-> <<g, k>>]
<1>1. f \in Bijection(1 .. n, {g} \X (1 .. n))
  <2>1. f \in [1 .. n -> {g} \X (1 .. n)] /\ DOMAIN f = 1 .. n
    OBVIOUS
  <2>2. \A j, k \in 1 .. n : f[j] = f[k] => j = k
    OBVIOUS
  <2>3. \A p \in {g} \X (1 .. n) : \E k \in 1 .. n : f[k] = p
    OBVIOUS
  <2>4. QED
    BY <2>1, <2>2, <2>3 DEF Bijection, Injection, Surjection, IsInjective
<1>2. ExistsBijection(1 .. n, {g} \X (1 .. n))
  BY <1>1 DEF ExistsBijection
<1>3. IsFiniteSet(1 .. n) /\ Cardinality(1 .. n) = n
  BY FS_Interval
<1>4. QED
  BY ONLY <1>2, <1>3, FS_Bijection

\* Adding a group that is not among those summed adds its calls.
LEMMA CallsOfOneMore ==
  ASSUME TypeOK, NEW S \in SUBSET Route, NEW g \in Route \ S,
         IsFiniteSet(CallsMade(S))
  PROVE  /\ IsFiniteSet(CallsMade(S \cup {g}))
         /\ Cardinality(CallsMade(S \cup {g})) = Cardinality(CallsMade(S)) + calls[g]
<1> DEFINE new == {g} \X (1 .. calls[g])
<1>1. IsFiniteSet(new) /\ Cardinality(new) = calls[g]
  BY CallsOfOne DEF TypeOK
<1>2. CallsMade(S \cup {g}) = CallsMade(S) \cup new
  BY DEF CallsMade
<1>3. CallsMade(S) \cap new = {}
  BY DEF CallsMade
<1>4. Cardinality(CallsMade(S)) \in Nat /\ calls[g] \in Nat
  BY FS_CardinalityType DEF TypeOK
<1>5. Cardinality(CallsMade(S) \cap new) = 0
  BY <1>3, FS_EmptySet
<1> HIDE DEF new
<1>6. /\ IsFiniteSet(CallsMade(S) \cup new)
      /\ Cardinality(CallsMade(S) \cup new)
           = Cardinality(CallsMade(S)) + Cardinality(new)
               - Cardinality(CallsMade(S) \cap new)
  BY <1>1, FS_Union
<1>7. Cardinality(CallsMade(S) \cup new) = Cardinality(CallsMade(S)) + calls[g]
  BY ONLY <1>1, <1>4, <1>5, <1>6
<1>8. QED
  BY ONLY <1>2, <1>6, <1>7

\* A step that moves no worker into or out of the summed ones, and makes no call
\* for them, keeps their calls.
LEMMA CallsKept ==
  ASSUME \A g \in Route : g \in Summed' <=> g \in Summed,
         \A g \in Summed : calls'[g] = calls[g]
  PROVE  CallsMade(Summed)' = CallsMade(Summed)
<1>1. Summed' = Summed
  BY DEF Summed
<1>2. \A p : p \in CallsMade(Summed)' <=> p \in CallsMade(Summed)
  <2>1. \A p : p \in CallsMade(Summed)'
                <=> \E g \in Summed' : p \in {g} \X (1 .. calls'[g])
    BY DEF CallsMade
  <2>2. \A p : p \in CallsMade(Summed)
                <=> \E g \in Summed : p \in {g} \X (1 .. calls[g])
    BY DEF CallsMade
  <2>3. \A p : \A g \in Summed :
          p \in {g} \X (1 .. calls'[g]) <=> p \in {g} \X (1 .. calls[g])
    OBVIOUS
  <2>4. QED
    BY ONLY <1>1, <2>1, <2>2, <2>3
<1>3. QED
  BY <1>2 DEF CallsMade

\* What each step of worker g does to the statistics: nothing but count the
\* calls of a calculation, or load the total under resultMu, or store the sum.
LEMMA StatsOfWorker ==
  ASSUME TypeOK, NEW g \in Route, Worker(g)
  PROVE  \/ /\ pc[g] \notin {"add", "release", "finish", "done"}
            /\ pc'[g] \notin {"add", "release", "finish", "done"}
            /\ UNCHANGED <<totalStats, resultMu>>
         \/ /\ pc[g] = "stats" /\ pc'[g] = "add"
            /\ resultMu = Nil /\ resultMu' = g /\ seen'[g] = totalStats
            /\ UNCHANGED <<totalStats, calls>>
         \/ /\ pc[g] = "add" /\ pc'[g] = "release"
            /\ totalStats' = seen[g] + calls[g] /\ calls' = calls
         \/ /\ pc[g] \in {"release", "finish"} /\ pc'[g] \in {"finish", "done"}
            /\ UNCHANGED <<totalStats, resultMu, calls>>
<1>1. CASE PrimeAccounts(g) \/ FailItem(g) \/ ComputeItem(g) \/ StoreItem(g)
  BY <1>1 DEF TypeOK, PrimeAccounts, FailItem, ComputeItem, StoreItem
<1>2. CASE LoadTotal(g) \/ StoreTotal(g) \/ ReleaseSem(g) \/ WorkerDone(g)
  BY <1>2 DEF TypeOK, LoadTotal, StoreTotal, ReleaseSem, WorkerDone
<1>3. QED
  BY <1>1, <1>2 DEF Worker

\* No update of the total is lost: the one adding is alone from load to store.
LEMMA StatsStep ==
  ASSUME IInv, StatsInv, [Next]_vars
  PROVE  StatsInv'
<1> USE DEF IInv
<1>1. CASE Caller \/ Finished \/ UNCHANGED vars
  <2>1. /\ UNCHANGED <<calls, seen, totalStats, resultMu>>
        /\ \A g \in Route : \/ pc'[g] = pc[g]
                            \/ pc[g] = "none" /\ pc'[g] = "prime"
    BY <1>1 DEF Caller, Finished, vars, callerVars, workerVars, ReturnEmpty,
       Partition, Dispatch, Return, TypeOK, PendingInv
  <2>2. \A g \in Route : g \in Summed' <=> g \in Summed
    BY <2>1 DEF Summed
  <2>3. CallsMade(Summed)' = CallsMade(Summed)
    BY <2>1, <2>2, CallsKept
  <2>4. \A g \in Route : pc'[g] = "add" => pc[g] = "add"
    BY <2>1
  <2>5. QED
    BY <2>1, <2>3, <2>4 DEF StatsInv
<1>2. ASSUME NEW g \in Route, Worker(g) PROVE StatsInv'
  <2>1. \A r \in Route \ {g} :
          pc'[r] = pc[r] /\ calls'[r] = calls[r] /\ seen'[r] = seen[r]
    BY <1>2, WorkerFrame, OtherGroups
  <2>2. \A r \in Route : pc[r] = "add" => resultMu = r /\ seen[r] = totalStats
    BY DEF StatsInv
  <2>3. CASE /\ pc[g] \notin {"add", "release", "finish", "done"}
             /\ pc'[g] \notin {"add", "release", "finish", "done"}
             /\ UNCHANGED <<totalStats, resultMu>>
    <3>1. \A r \in Route : r \in Summed' <=> r \in Summed
      BY <2>1, <2>3 DEF Summed
    <3>2. \A r \in Summed : calls'[r] = calls[r]
      BY <2>1, <2>3 DEF Summed
    <3>3. CallsMade(Summed)' = CallsMade(Summed)
      BY <3>1, <3>2, CallsKept
    <3>4. QED
      BY <2>1, <2>2, <2>3, <3>3 DEF StatsInv
  <2>4. CASE /\ pc[g] = "stats" /\ pc'[g] = "add"
             /\ resultMu = Nil /\ resultMu' = g /\ seen'[g] = totalStats
             /\ UNCHANGED <<totalStats, calls>>
    <3>1. \A r \in Route : r \in Summed' <=> r \in Summed
      BY <2>1, <2>4 DEF Summed
    <3>2. CallsMade(Summed)' = CallsMade(Summed)
      BY <2>4, <3>1, CallsKept
    <3>3. \A r \in Route \ {g} : pc'[r] # "add"
      BY <2>1, <2>2, <2>4, RouteAssumption
    <3>4. QED
      BY <2>4, <3>2, <3>3 DEF StatsInv
  <2>5. CASE /\ pc[g] = "add" /\ pc'[g] = "release"
             /\ totalStats' = seen[g] + calls[g] /\ calls' = calls
    <3>1. g \in Route \ Summed /\ Summed \in SUBSET Route
      BY <2>5 DEF Summed
    <3>2. Summed' = Summed \cup {g}
      BY <2>1, <2>5 DEF Summed
    <3>3. CallsMade(Summed)' = CallsMade(Summed \cup {g})
      BY <2>5, <3>2 DEF CallsMade
    <3>4. IsFiniteSet(CallsMade(Summed))
      BY DEF StatsInv
    <3>5. /\ IsFiniteSet(CallsMade(Summed \cup {g}))
          /\ Cardinality(CallsMade(Summed \cup {g}))
               = Cardinality(CallsMade(Summed)) + calls[g]
      BY <3>1, <3>4, CallsOfOneMore
    <3>6. totalStats' = Cardinality(CallsMade(Summed)) + calls[g]
      BY <2>2, <2>5 DEF StatsInv
    <3>7. \A r \in Route : pc'[r] # "add"
      BY <2>1, <2>2, <2>5
    <3>8. QED
      BY <3>3, <3>5, <3>6, <3>7 DEF StatsInv
  <2>6. CASE /\ pc[g] \in {"release", "finish"} /\ pc'[g] \in {"finish", "done"}
             /\ UNCHANGED <<totalStats, resultMu, calls>>
    <3>1. \A r \in Route : r \in Summed' <=> r \in Summed
      BY <2>1, <2>6 DEF Summed
    <3>2. CallsMade(Summed)' = CallsMade(Summed)
      BY <2>6, <3>1, CallsKept
    <3>3. QED
      BY <2>1, <2>2, <2>6, <3>2 DEF StatsInv
  <2>7. QED
    BY <1>2, <2>3, <2>4, <2>5, <2>6, StatsOfWorker
<1>3. QED
  BY <1>1, <1>2 DEF Next

\* The annotated figures are those of the state the call returns in.
LEMMA ReportStep ==
  ASSUME IInv, ReportInv, [Next]_vars
  PROVE  ReportInv'
<1> USE DEF IInv
<1>1. CASE caller = "returned"
  <2>1. UNCHANGED <<caller, results, report, totalStats, route>>
    BY <1>1, SlotsChange
  <2>2. Items' = Items /\ FailedItemReasons' = FailedItemReasons
    BY <2>1 DEF Items, FailedItemReasons
  <2>3. QED
    BY <1>1, <2>1, <2>2 DEF ReportInv
<1>2. CASE ReturnEmpty
  BY <1>2 DEF ReturnEmpty, ReportInv, Items
<1>3. CASE Return
  <2>1. UNCHANGED <<results, totalStats, route>>
        /\ report' = [calls |-> totalStats, failed |-> FailedItemReasons]
    BY <1>3 DEF Return
  <2>2. FailedItemReasons' = FailedItemReasons
    BY <2>1 DEF Items, FailedItemReasons
  <2>3. QED
    BY <2>1, <2>2 DEF ReportInv
<1>4. CASE /\ caller # "returned"
           /\ \/ Partition \/ Finished \/ UNCHANGED vars
              \/ \E g \in Route : Dispatch(g) \/ Worker(g)
  <2>1. caller' # "returned"
    BY <1>4, WorkerFrame DEF Partition, Dispatch, Finished, vars, callerVars
  <2>2. QED
    BY <2>1 DEF ReportInv
<1>5. QED
  BY <1>1, <1>2, <1>3, <1>4 DEF Next, Caller

----------------------------------------------------------------------------
\* The members of S of one kind, and a number for each member of each kind.
OfKind(S, kind, k) == {x \in S : kind[x] = k}
Numbered(Kind, count) == UNION {{k} \X (1 .. count[k]) : k \in Kind}

\* Counting a finite set kind by kind counts it once.
LEMMA UpTo ==
  ASSUME NEW n \in Nat
  PROVE  IsFiniteSet(1 .. n) /\ Cardinality(1 .. n) = n
BY FS_Interval

LEMMA CountByKind ==
  ASSUME NEW S, IsFiniteSet(S), NEW Kind, NEW kind \in [S -> Kind],
         NEW count,
         \A k \in Kind : count[k] = Cardinality(OfKind(S, kind, k))
  PROVE  Cardinality(Numbered(Kind, count)) = Cardinality(S)
<1> DEFINE Of(k) == OfKind(S, kind, k)
           Pairs == Numbered(Kind, count)
           number == [k \in Kind |-> CHOOSE f : f \in Bijection(Of(k), 1 .. count[k])]
           h == [x \in S |-> <<kind[x], number[kind[x]][x]>>]
<1>1. ASSUME NEW k \in Kind
      PROVE  number[k] \in Bijection(Of(k), 1 .. count[k])
  <2>1. IsFiniteSet(Of(k)) /\ Cardinality(Of(k)) = count[k]
    BY FS_Subset DEF OfKind
  <2>2. count[k] \in Nat
    BY <2>1, FS_CardinalityType
  <2>3. IsFiniteSet(1 .. count[k]) /\ Cardinality(1 .. count[k]) = count[k]
    BY ONLY <2>2, UpTo
  <2>4. ExistsBijection(Of(k), 1 .. count[k])
    BY ONLY <2>1, <2>3, FS_SameCardinalityBij
  <2>5. QED
    BY <2>4 DEF ExistsBijection
<1> HIDE DEF number
<1>2. ASSUME NEW k \in Kind
      PROVE  /\ \A x \in S : kind[x] = k => number[k][x] \in 1 .. count[k]
             /\ \A x, y \in S : (/\ kind[x] = k /\ kind[y] = k
                                  /\ number[k][x] = number[k][y]) => x = y
             /\ \A n \in 1 .. count[k] :
                  \E x \in S : kind[x] = k /\ number[k][x] = n
  <2>1. /\ number[k] \in [Of(k) -> 1 .. count[k]]
        /\ \A x, y \in Of(k) : number[k][x] = number[k][y] => x = y
        /\ \A n \in 1 .. count[k] : \E x \in Of(k) : number[k][x] = n
    <3>1. number[k] \in Bijection(Of(k), 1 .. count[k])
      BY <1>1
    <3>2. QED
      BY ONLY <3>1 DEF Bijection, Injection, Surjection, IsInjective
  <2>2. \A x \in S : kind[x] = k <=> x \in Of(k)
    BY DEF OfKind
  <2>3. \A x \in Of(k) : x \in S
    BY DEF OfKind
  <2> HIDE DEF Of
  <2>4. QED
    BY ONLY <2>1, <2>2, <2>3
<1>3. \A p : p \in Pairs <=> \E k \in Kind : p \in {k} \X (1 .. count[k])
  BY DEF Numbered
<1> HIDE DEF Pairs
<1>4. \A x \in S : kind[x] \in Kind
  OBVIOUS
<1>5. h \in [S -> Pairs] /\ DOMAIN h = S
  <2>1. ASSUME NEW x \in S PROVE h[x] \in Pairs
    <3>1. number[kind[x]][x] \in 1 .. count[kind[x]]
      BY <1>2, <1>4
    <3>2. QED
      BY <1>3, <1>4, <3>1
  <2>2. QED
    BY <2>1
<1>6. ASSUME NEW x \in S, NEW y \in S, h[x] = h[y] PROVE x = y
  <2>1. kind[x] = kind[y] /\ number[kind[x]][x] = number[kind[y]][y]
    BY <1>6
  <2>2. kind[x] \in Kind
    BY <1>4
  <2>3. QED
    BY <1>2, <2>1, <2>2
<1>7. ASSUME NEW p \in Pairs PROVE \E x \in S : h[x] = p
  <2>1. PICK k \in Kind : p \in {k} \X (1 .. count[k])
    BY <1>3
  <2>2. PICK n \in 1 .. count[k] : p = <<k, n>>
    BY <2>1
  <2>3. PICK x \in S : kind[x] = k /\ number[k][x] = n
    BY <1>2
  <2>4. QED
    BY <2>2, <2>3
<1> HIDE DEF h
<1>8. h \in Bijection(S, Pairs)
  BY <1>5, <1>6, <1>7 DEF Bijection, Injection, Surjection, IsInjective
<1>9. ExistsBijection(S, Pairs)
  BY <1>8 DEF ExistsBijection
<1>10. Cardinality(Pairs) = Cardinality(S)
  BY ONLY <1>9, IsFiniteSet(S), FS_Bijection
<1>11. QED
  BY <1>10 DEF Pairs

\* The whole of the bulk call's bookkeeping, in every reachable state.
THEOREM Bookkeeping == Spec => [](IInv /\ FailureInv /\ StatsInv /\ ReportInv)
<1> DEFINE Sum == IInv /\ FailureInv /\ StatsInv /\ ReportInv
<1>1. Init => Sum
  <2> SUFFICES ASSUME Init PROVE Sum
    OBVIOUS
  <2>1. FailureInv /\ ReportInv
    BY DEF Init, FailureInv, ReportInv, Left
  <2>2. CallsMade(Summed) = {}
    BY DEF Init, Summed, CallsMade
  <2>3. StatsInv
    BY <2>2, FS_EmptySet DEF Init, StatsInv
  <2>4. QED
    BY <2>1, <2>3, InitIInv
<1>2. Sum /\ [Next]_vars => Sum'
  <2> SUFFICES ASSUME Sum, [Next]_vars PROVE Sum'
    OBVIOUS
  <2>1. FailureInv' /\ StatsInv' /\ ReportInv'
    BY FailureStep, StatsStep, ReportStep
  <2>2. TypeOK' /\ LimitInv' /\ PendingInv' /\ PhaseInv' /\ WorkerInv' /\ SlotInv'
    BY TypeStep, LimitStep, PendingStep, PhaseStep, WorkerStep, SlotStep
  <2>3. CountersInv'
    BY <2>2, CountersStep
  <2>4. QED
    BY <2>1, <2>2, <2>3 DEF IInv
<1>3. QED
  BY <1>1, <1>2, PTL DEF Spec

\* A failed PrimeAccounts answers for every item of its group with its own error,
\* at the price of no call; an item of a group whose priming worked has metrics of
\* its own pool or the error of its own calculation, and never that of another
\* group or item.
THEOREM PrimeFailures == Spec => []PrimeFailureStaysInGroup
<1>1. IInv /\ FailureInv => PrimeFailureStaysInGroup
  <2> SUFFICES ASSUME IInv, FailureInv, caller = "returned",
                      NEW g \in Route, NEW i \in Group(g)
               PROVE  IF primeErr[g] # Nil
                      THEN /\ results[i] = [metrics |-> Nil, error |-> primeErr[g]]
                           /\ results[i].error.from = g /\ calls[g] = 0
                      ELSE results[i] \in Own(i)
    BY DEF PrimeFailureStaysInGroup, Own
  <2>1. pc[g] \in {"none", "done"}
    BY NothingLeft DEF IInv, PhaseInv
  <2>2. CASE primeErr[g] # Nil
    <3>1. pc[g] = "done"
      BY <2>1, <2>2 DEF FailureInv
    <3>2. Left(g) = {}
      BY <3>1 DEF Left
    <3>3. results[i] = [metrics |-> Nil, error |-> primeErr[g]] /\ calls[g] = 0
      BY <2>2, <3>2 DEF FailureInv
    <3>4. primeErr[g].from = g
      <4>1. primeErr[g] \in Charge(g)
        BY <2>2 DEF IInv, WorkerInv
      <4>2. QED
        BY <4>1, FailureFacts DEF Charge, ErrorCode
    <3>5. QED
      BY <2>2, <3>3, <3>4
  <2>3. CASE primeErr[g] = Nil
    <3>1. pc[g] = "done"
      BY <2>1 DEF IInv, PhaseInv, PendingInv
    <3>2. Left(g) = {}
      BY <3>1 DEF Left
    <3>3. QED
      BY <2>3, <3>2 DEF FailureInv
  <2>4. QED
    BY <2>2, <2>3
<1>2. QED
  BY <1>1, Bookkeeping, PTL

\* The annotated figures are exact: the total is the calls of every group, and
\* the failure reasons count every failed item once (totalStats and
\* failedItemReasons of GetMetricsByPools).
THEOREM ReportAddsUp == Spec => []ReportExact
<1>1. IInv /\ FailureInv /\ StatsInv /\ ReportInv => ReportExact
  <2> SUFFICES ASSUME IInv, FailureInv, StatsInv, ReportInv,
                      caller = "returned", Items # {}
               PROVE  /\ report.calls = Cardinality(CallsMade(Route))
                      /\ Cardinality(UNION {{c} \X (1 .. report.failed[c]) :
                                             c \in ErrorCode})
                           = Cardinality({i \in Items : results[i].metrics = Nil})
    BY DEF ReportExact
  <2> DEFINE Failed == {i \in Items : results[i].metrics = Nil}
  <2>1. /\ \A g \in Route : pc[g] \in {"none", "done"}
        /\ \A i \in Items : results[i] \in OutcomesOf(route[i], i)
    BY NothingLeft DEF IInv, PhaseInv
  <2>2. report.calls = Cardinality(CallsMade(Route))
    <3>1. \A g \in Route \ Summed : calls[g] = 0
      BY <2>1 DEF Summed, FailureInv
    <3>2. \A p : p \in CallsMade(Route)
                  <=> \E g \in Route : p \in {g} \X (1 .. calls[g])
      BY DEF CallsMade
    <3>3. \A p : p \in CallsMade(Summed)
                  <=> \E g \in Summed : p \in {g} \X (1 .. calls[g])
      BY DEF CallsMade
    <3>4. \A g \in Route \ Summed : {g} \X (1 .. calls[g]) = {}
      BY <3>1
    <3>5. \A p : p \in CallsMade(Route) <=> p \in CallsMade(Summed)
      BY <3>2, <3>3, <3>4 DEF Summed
    <3>6. CallsMade(Route) = CallsMade(Summed)
      BY <3>5 DEF CallsMade
    <3>7. QED
      BY <3>6 DEF StatsInv, ReportInv
  <2>3. IsFiniteSet(Failed)
    BY ItemsFinite, FS_Subset DEF IInv
  <2>4. \A i \in Items : /\ results[i] \in Slot
                         /\ results[i].metrics = Nil <=> results[i].error # Nil
    BY <2>1, OutcomeIsResolved DEF IInv, TypeOK
  <2>5. \A x \in SDKError : x.code \in ErrorCode
    BY DEF SDKError
  <2>6. \A i \in Failed : results[i].error.code \in ErrorCode
    BY <2>4, <2>5, SlotFields
  <2> DEFINE kind == [i \in Failed |-> results[i].error.code]
  <2>7. kind \in [Failed -> ErrorCode]
    BY <2>6
  <2>8. ASSUME NEW c \in ErrorCode
        PROVE  report.failed[c] = Cardinality(OfKind(Failed, kind, c))
    <3>1. report.failed[c] = Cardinality({i \in Items : /\ results[i].error # Nil
                                                        /\ results[i].error.code = c})
      BY DEF ReportInv, FailedItemReasons
    <3>2. {i \in Items : results[i].error # Nil /\ results[i].error.code = c}
            = OfKind(Failed, kind, c)
      BY <2>4 DEF OfKind
    <3>3. QED
      BY <3>1, <3>2
  <2> DEFINE count == report.failed
  <2>9. \A c \in ErrorCode : count[c] = Cardinality(OfKind(Failed, kind, c))
    BY <2>8
  <2>10. Numbered(ErrorCode, count)
           = UNION {{c} \X (1 .. report.failed[c]) : c \in ErrorCode}
    BY DEF Numbered
  <2> HIDE DEF Failed, kind, count
  <2>11. Cardinality(Numbered(ErrorCode, count)) = Cardinality(Failed)
    BY ONLY <2>3, <2>7, <2>9, CountByKind
  <2>12. QED
    BY <2>2, <2>10, <2>11 DEF Failed
<1>2. QED
  BY <1>1, Bookkeeping, PTL
=============================================================================
