--------------------------- MODULE DebugRecorder ----------------------------
(***************************************************************************)
(* Request debugging of one client: every request has a recorder of its    *)
(* own, shared by the goroutines that work for it, and the client keeps    *)
(* the report of one request for LastRequestDebug.                         *)
(*                                                                         *)
(* The goroutines record their RPC calls under the recorder's mutex; an    *)
(* item's metrics carry a snapshot of the recorder taken while the other   *)
(* items are still computed; a bulk is annotated key by key before it      *)
(* returns; and the deferred finishDebug stores the last snapshot under    *)
(* the client's lock.  Requests run at the same time, and each caller asks *)
(* for the last report after its own request.  Durations, and the API      *)
(* calls no built-in code makes, are left out.                             *)
(***************************************************************************)
EXTENDS Integers, Sequences, FiniteSets, SequencesExt

CONSTANTS
  Request,   \* requests of the client
  Worker,    \* goroutines of a request that compute items
  Bulk,      \* requests that are bulks: they are annotated
  CallType,  \* operation types of RPC calls
  Key,       \* annotation keys of a bulk
  MaxCalls,  \* bound: RPC calls a worker makes
  Nil        \* no report, nobody

ASSUME BulkAssumption == Bulk \subseteq Request
ASSUME WorkerAssumption == IsFiniteSet(Worker)
ASSUME CallsAssumption == MaxCalls \in Nat
ASSUME NilAssumption == Nil \notin Request /\ Nil \notin Worker

VARIABLES
  stage,      \* where the caller of each request stands
  pc,         \* where each worker of each request stands
  made,       \* history: types of the RPC calls each worker made
  mu,         \* holder of each recorder's mutex
  recorder,   \* counters and annotations of each recorder
  items,      \* snapshot in the metrics of each worker's item
  marked,     \* recorders marked done
  clientMu,   \* request that holds the client's lock
  lastDebug,  \* the client's last report
  got,        \* report each caller was given
  finished    \* history: requests that had returned when this one began

recorderVars == <<mu, recorder, marked>>
clientVars == <<clientMu, lastDebug>>
workVars == <<pc, made, items>>
vars == <<stage, workVars, recorderVars, clientVars, got, finished>>
----------------------------------------------------------------------------
NewRecorder ==
  [total |-> 0, byType |-> [t \in CallType |-> 0], calls |-> <<>>, annotations |-> {}]

\* A copy of the recorder that names the request's operation.
SnapshotMap(r) == [request |-> r, done |-> r \in marked, counters |-> recorder[r]]

Init ==
  /\ stage = [r \in Request |-> "idle"]
  /\ pc = [r \in Request |-> [w \in Worker |-> "none"]]
  /\ made = [r \in Request |-> [w \in Worker |-> <<>>]]
  /\ mu = [r \in Request |-> Nil]
  /\ recorder = [r \in Request |-> NewRecorder]
  /\ items = [r \in Request |-> [w \in Worker |-> Nil]]
  /\ marked = {}
  /\ clientMu = Nil
  /\ lastDebug = Nil
  /\ got = [r \in Request |-> Nil]
  /\ finished = [r \in Request |-> {}]
----------------------------------------------------------------------------
(* The goroutines of a request.                                            *)

Goto(r, w, label) == pc' = [pc EXCEPT ![r][w] = label]

\* A request that is no bulk computes its one item itself.
Workers(r) == IF r \in Bulk THEN Worker ELSE {CHOOSE w \in Worker : TRUE}

\* startDebug; then the workers of the request are spawned.
StartDebug(r) ==
  /\ stage[r] = "idle"
  /\ stage' = [stage EXCEPT ![r] = "working"]
  /\ pc' = [pc EXCEPT ![r] = [w \in Worker |-> IF w \in Workers(r) THEN "work" ELSE "none"]]
  /\ finished' = [finished EXCEPT ![r] = {q \in Request : stage[q] \in {"returned", "read"}}]
  /\ UNCHANGED <<made, items, recorderVars, clientVars, got>>

\* A request to the endpoint ends, answered or not.
CallRPC(r, w) ==
  /\ pc[r][w] = "work"
  /\ Len(made[r][w]) < MaxCalls
  /\ \E t \in CallType : made' = [made EXCEPT ![r][w] = Append(@, t)]
  /\ Goto(r, w, "record")
  /\ UNCHANGED <<stage, items, recorderVars, clientVars, got, finished>>

\* Mutant: the counters are changed without the mutex.
CountRPC_NoLock(r, w) ==
  /\ pc[r][w] = "record"
  /\ recorder' = [recorder EXCEPT ![r].total = @ + 1]
  /\ Goto(r, w, "list")
  /\ UNCHANGED <<stage, made, items, mu, marked, clientVars, got, finished>>

\* RecordRPC, first half: the mutex is taken and the call is counted.
CountRPC(r, w) ==
  /\ pc[r][w] = "record"
  /\ mu[r] = Nil
  /\ mu' = [mu EXCEPT ![r] = w]
  /\ recorder' = [recorder EXCEPT ![r].total = @ + 1]
  /\ Goto(r, w, "list")
  /\ UNCHANGED <<stage, made, items, marked, clientVars, got, finished>>

\* RecordRPC, second half: the call is counted by its type and listed.
ListRPC(r, w) ==
  /\ pc[r][w] = "list"
  /\ LET t == Last(made[r][w])
     IN  recorder' = [recorder EXCEPT ![r].byType[t] = @ + 1, ![r].calls = Append(@, t)]
  /\ mu' = [mu EXCEPT ![r] = Nil]
  /\ Goto(r, w, "work")
  /\ UNCHANGED <<stage, made, items, marked, clientVars, got, finished>>

\* Mutant: the snapshot of an item is the one taken when it was first asked for.
AttachRequestDebug_Early(r, w) ==
  /\ pc[r][w] = "record"
  /\ mu[r] = Nil
  /\ items' = [items EXCEPT ![r][w] = SnapshotMap(r)]
  /\ Goto(r, w, "done")
  /\ UNCHANGED <<stage, made, recorderVars, clientVars, got, finished>>

\* The item is computed and its metrics get a snapshot of the recorder.
AttachRequestDebug(r, w) ==
  /\ pc[r][w] = "work"
  /\ mu[r] = Nil
  /\ items' = [items EXCEPT ![r][w] = SnapshotMap(r)]
  /\ Goto(r, w, "done")
  /\ UNCHANGED <<stage, made, recorderVars, clientVars, got, finished>>

\* The item failed: it has no metrics to attach a snapshot to.
FailItem(r, w) ==
  /\ pc[r][w] = "work"
  /\ Goto(r, w, "done")
  /\ UNCHANGED <<stage, made, items, recorderVars, clientVars, got, finished>>
----------------------------------------------------------------------------
(* The caller of a request.                                                *)

\* The workers are joined.
Join(r) ==
  /\ stage[r] = "working"
  /\ \A w \in Workers(r) : pc[r][w] = "done"
  /\ stage' = [stage EXCEPT ![r] = IF r \in Bulk THEN "annotate" ELSE "finish"]
  /\ UNCHANGED <<workVars, recorderVars, clientVars, got, finished>>

\* annotateRequestDebug sets its keys one by one, in the order of a map.
Annotate(r) ==
  /\ stage[r] = "annotate"
  /\ mu[r] = Nil
  /\ \E key \in Key \ recorder[r].annotations :
       recorder' = [recorder EXCEPT ![r].annotations = @ \cup {key}]
  /\ stage' = [stage EXCEPT ![r] =
                 IF recorder'[r].annotations = Key THEN "finish" ELSE "annotate"]
  /\ UNCHANGED <<workVars, mu, marked, clientVars, got, finished>>

\* Mutant: finishDebug runs when the workers are done, before the annotations.
MarkDone_BeforeAnnotate(r) ==
  /\ stage[r] \in {"annotate", "finish"}
  /\ mu[r] = Nil
  /\ marked' = marked \cup {r}
  /\ stage' = [stage EXCEPT ![r] = "marked"]
  /\ UNCHANGED <<workVars, mu, recorder, clientVars, got, finished>>

\* finishDebug, deferred: the recorder is marked done.
MarkDone(r) ==
  /\ stage[r] = "finish"
  /\ mu[r] = Nil
  /\ marked' = marked \cup {r}
  /\ stage' = [stage EXCEPT ![r] = "marked"]
  /\ UNCHANGED <<workVars, mu, recorder, clientVars, got, finished>>

\* finishDebug waits for the client's lock ...
LockClient(r) ==
  /\ stage[r] = "marked"
  /\ clientMu = Nil
  /\ clientMu' = r
  /\ stage' = [stage EXCEPT ![r] = "locked"]
  /\ UNCHANGED <<workVars, recorderVars, lastDebug, got, finished>>

\* Mutant: a report that is there is not replaced.
StoreReport_IfNone(r) ==
  /\ stage[r] = "locked"
  /\ mu[r] = Nil
  /\ lastDebug' = IF lastDebug = Nil THEN SnapshotMap(r) ELSE lastDebug
  /\ clientMu' = Nil
  /\ stage' = [stage EXCEPT ![r] = "returned"]
  /\ UNCHANGED <<workVars, recorderVars, got, finished>>

\* Mutant: the client's lock is kept.
StoreReport_NoUnlock(r) ==
  /\ stage[r] = "locked"
  /\ mu[r] = Nil
  /\ lastDebug' = SnapshotMap(r)
  /\ stage' = [stage EXCEPT ![r] = "returned"]
  /\ UNCHANGED <<workVars, recorderVars, clientMu, got, finished>>

\* ... and takes its snapshot, which needs the recorder's mutex, while it holds
\* that lock; then the request returns.
StoreReport(r) ==
  /\ stage[r] = "locked"
  /\ mu[r] = Nil
  /\ lastDebug' = SnapshotMap(r)
  /\ clientMu' = Nil
  /\ stage' = [stage EXCEPT ![r] = "returned"]
  /\ UNCHANGED <<workVars, recorderVars, got, finished>>

\* The caller asks for the last report.
LastRequestDebug(r) ==
  /\ stage[r] = "returned"
  /\ clientMu = Nil
  /\ got' = [got EXCEPT ![r] = lastDebug]
  /\ stage' = [stage EXCEPT ![r] = "read"]
  /\ UNCHANGED <<workVars, recorderVars, clientVars, finished>>
----------------------------------------------------------------------------
Work(r, w) ==
  \/ CallRPC(r, w) \/ CountRPC(r, w) \/ ListRPC(r, w)
  \/ AttachRequestDebug(r, w) \/ FailItem(r, w)

Call(r) ==
  \/ StartDebug(r) \/ Join(r) \/ Annotate(r) \/ MarkDone(r)
  \/ LockClient(r) \/ StoreReport(r) \/ LastRequestDebug(r)

AllRead == \A r \in Request : stage[r] = "read"
Finished == AllRead /\ UNCHANGED vars

Next ==
  \/ \E r \in Request : Call(r) \/ \E w \in Worker : Work(r, w)
  \/ Finished

\* Every goroutine keeps running and every RPC call ends; each lock is taken a
\* bounded number of times, so a waiter sees it free for good in the end.
Fairness ==
  \A r \in Request : WF_vars(Call(r)) /\ \A w \in Worker : WF_vars(Work(r, w))

Spec == Init /\ [][Next]_vars /\ Fairness
----------------------------------------------------------------------------
Stage ==
  {"idle", "working", "annotate", "finish", "marked", "locked", "returned", "read"}

Counters ==
  [total : Nat, byType : [CallType -> Nat], calls : Seq(CallType),
   annotations : SUBSET Key]
Report == [request : Request, done : BOOLEAN, counters : Counters]

ASSUME NoReportAssumption == Nil \notin Report

(* Types; a lock is held only by one that is inside it.                    *)
TypeOK ==
  /\ stage \in [Request -> Stage]
  /\ pc \in [Request -> [Worker -> {"none", "work", "record", "list", "done"}]]
  /\ made \in [Request -> [Worker -> Seq(CallType)]]
  /\ mu \in [Request -> Worker \cup {Nil}]
  /\ recorder \in [Request -> Counters]
  /\ items \in [Request -> [Worker -> Report \cup {Nil}]]
  /\ marked \subseteq Request
  /\ clientMu \in Request \cup {Nil}
  /\ lastDebug \in Report \cup {Nil}
  /\ got \in [Request -> Report \cup {Nil}]
  /\ finished \in [Request -> SUBSET Request]
  /\ \A r \in Request : mu[r] # Nil => pc[r][mu[r]] = "list"
  /\ clientMu # Nil => stage[clientMu] = "locked"

Tally(s, t) == Cardinality({i \in DOMAIN s : s[i] = t})

\* The RPC calls of type t that goroutines made for a request, and how many.
CallsMade(r, t) ==
  {x \in Worker \X (1 .. MaxCalls) :
     x[2] <= Len(made[r][x[1]]) /\ made[r][x[1]][x[2]] = t}
MadeBy(r, t) == Cardinality(CallsMade(r, t))

Snapshots == ({items[r][w] : r \in Request, w \in Worker} \cup {lastDebug}) \ {Nil}

(* The types hold, and whatever goroutine takes it and whatever the others *)
(* are recording, a snapshot adds up: its total is the sum over the types  *)
(* and the length of its list, type by type.                               *)
SnapshotConsistent ==
  /\ TypeOK
  /\ \A s \in Snapshots :
       /\ s.counters.total = Len(s.counters.calls)
       /\ \A t \in CallType : s.counters.byType[t] = Tally(s.counters.calls, t)

(* The snapshot in an item's metrics holds all calls made for that item and*)
(* no call that was not made for its request, although the items of a bulk *)
(* share one recorder (it also holds calls of the other items).            *)
ItemCoversOwnCalls ==
  \A r \in Request, w \in Worker : items[r][w] # Nil =>
    /\ items[r][w].request = r
    /\ \A t \in CallType :
         items[r][w].counters.byType[t] \in Tally(made[r][w], t) .. MadeBy(r, t)

(* A report of LastRequestDebug is about one whole request: it is marked   *)
(* done and holds every call that any goroutine made for that request, none*)
(* of another request, and for a bulk all its annotations.                 *)
ReportComplete ==
  lastDebug # Nil =>
    LET r == lastDebug.request
    IN  /\ lastDebug.done
        /\ \A t \in CallType : lastDebug.counters.byType[t] = MadeBy(r, t)
        /\ lastDebug.counters.annotations = IF r \in Bulk THEN Key ELSE {}

(* A caller that asks for the last report after its own request never gets *)
(* one of a request that was over before its own began; with nobody else on*)
(* the client it gets its own.                                             *)
FreshReport ==
  \A r \in Request : stage[r] = "read" =>
    /\ got[r] # Nil
    /\ got[r].request \notin finished[r]
    /\ (\A q \in Request \ {r} : q \in finished[r] \/ stage[q] = "idle")
         => got[r].request = r

(* Every request ends and every caller gets its report: the two locks,     *)
(* taken one inside the other, stop nobody.                                *)
EveryoneReads == <>AllRead
=============================================================================
