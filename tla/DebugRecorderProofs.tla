------------------------ MODULE DebugRecorderProofs -------------------------
(***************************************************************************)
(* Theorems about DebugRecorder for any number of requests, goroutines,    *)
(* types of calls and annotations.                                         *)
(*                                                                         *)
(* The argument: the counters of a recorder are those of the calls its     *)
(* goroutines have recorded, one call short of its list only while some    *)
(* goroutine holds the mutex; a goroutine that attaches a snapshot has     *)
(* recorded all of its calls, and when the workers are joined all calls of *)
(* the request are recorded.  A report of the client is about a request    *)
(* that is over, so it is never one of a request that was over before.     *)
(***************************************************************************)
EXTENDS DebugRecorder, FiniteSetTheorems, SequenceTheorems, TLAPS

\* The calls goroutine w made and has finished recording.
RecordedBy(r, w) ==
  IF pc[r][w] \in {"record", "list"} THEN Len(made[r][w]) - 1 ELSE Len(made[r][w])

\* The recorded calls of type t.
Recorded(r, t) == {x \in CallsMade(r, t) : x[2] <= RecordedBy(r, x[1])}

\* The mutex is held by the goroutine that is inside it.
LockInv(r) == \A w \in Worker : pc[r][w] = "list" <=> mu[r] = w

\* A goroutine that records has made a call; goroutines run between the start
\* of the request and the join.
WorkInv(r) ==
  /\ \A w \in Worker :
       /\ pc[r][w] \in {"record", "list"} => made[r][w] # <<>>
       /\ Len(made[r][w]) <= MaxCalls
       /\ w \notin Workers(r) \/ stage[r] = "idle" => pc[r][w] = "none"
       /\ stage[r] # "working" => pc[r][w] \in {"none", "done"}
  /\ stage[r] = "annotate" => r \in Bulk

\* The list of calls and both counters agree but for a call being recorded.
Agrees(counters, pending) ==
  /\ counters.total = Len(counters.calls) + pending
  /\ \A t \in CallType : counters.byType[t] = Tally(counters.calls, t)

CountInv(r) ==
  /\ Agrees(recorder[r], IF mu[r] = Nil THEN 0 ELSE 1)
  /\ \A t \in CallType : recorder[r].byType[t] = Cardinality(Recorded(r, t))

\* A bulk is annotated before it goes on to finishDebug; other requests never.
AnnotateInv(r) ==
  /\ r \notin Bulk => recorder[r].annotations = {}
  /\ r \in Bulk /\ stage[r] \notin {"idle", "working", "annotate"} =>
       recorder[r].annotations = Key

\* The snapshot of an item that is done.
ItemInv(r) ==
  \A w \in Worker : items[r][w] # Nil =>
    /\ pc[r][w] = "done"
    /\ items[r][w].request = r
    /\ Agrees(items[r][w].counters, 0)
    /\ \A t \in CallType :
         items[r][w].counters.byType[t] \in Tally(made[r][w], t) .. MadeBy(r, t)

RequestInv(r) ==
  LockInv(r) /\ WorkInv(r) /\ CountInv(r) /\ AnnotateInv(r) /\ ItemInv(r)

\* Requests that have stored their report.
Over == {r \in Request : stage[r] \in {"returned", "read"}}

\* A report is about a request that is over, and the reports that are stored
\* and given away are not of requests that were over before.
ReportInv ==
  /\ \A r \in Request : stage[r] \in {"marked", "locked"} => r \in marked
  /\ lastDebug # Nil =>
       /\ lastDebug.request \in Over
       /\ Agrees(lastDebug.counters, 0)
       /\ LET r == lastDebug.request
          IN  /\ lastDebug.done
              /\ \A t \in CallType : lastDebug.counters.byType[t] = MadeBy(r, t)
              /\ lastDebug.counters.annotations = IF r \in Bulk THEN Key ELSE {}
  /\ \A r \in Request : finished[r] \subseteq Over \ {r}
  /\ \A r \in Over : lastDebug # Nil /\ lastDebug.request \notin finished[r]
  /\ \A r \in Request : stage[r] = "read" =>
       got[r] # Nil /\ got[r].request \in Over \ finished[r]

IInv == TypeOK /\ ReportInv /\ \A r \in Request : RequestInv(r)
----------------------------------------------------------------------------
(* What the operators of the model return.                                 *)

\* A table of tables with one entry replaced.
LEMMA Entry ==
  ASSUME NEW A, NEW B, NEW C, NEW f \in [A -> [B -> C]],
         NEW a \in A, NEW b \in B, NEW v \in C
  PROVE  LET g == [f EXCEPT ![a][b] = v]
         IN  /\ g \in [A -> [B -> C]]
             /\ g[a][b] = v
             /\ \A x \in A : x # a => g[x] = f[x]
             /\ \A y \in B : y # b => g[a][y] = f[a][y]
OBVIOUS

\* A tally counts occurrences, one more for each element appended.
LEMMA TallyCounts ==
  ASSUME NEW S, NEW s \in Seq(S), NEW t
  PROVE  /\ Tally(s, t) \in Nat
         /\ \A e \in S : Tally(Append(s, e), t) = Tally(s, t) + (IF e = t THEN 1 ELSE 0)
<1> DEFINE n == Len(s)
           at == {i \in DOMAIN s : s[i] = t}
<1>1. n \in Nat /\ DOMAIN s = 1 .. n
  OBVIOUS
<1>2. IsFiniteSet(1 .. n)
  <2> HIDE DEF n
  <2>1. QED
    BY <1>1, FS_Interval
<1>3. at \subseteq 1 .. n
  BY <1>1
<1>4. Tally(s, t) = Cardinality(at)
  BY DEF Tally
<1>5. IsFiniteSet(at)
  <2> HIDE DEF at, n
  <2>1. QED
    BY <1>2, <1>3, FS_Subset
<1>6. ASSUME NEW e \in S
      PROVE  Tally(Append(s, e), t) = Tally(s, t) + (IF e = t THEN 1 ELSE 0)
  <2> DEFINE new == {i \in DOMAIN Append(s, e) : Append(s, e)[i] = t}
  <2>1. new = IF e = t THEN at \cup {n + 1} ELSE at
    OBVIOUS
  <2>2. Tally(Append(s, e), t) = Cardinality(new)
    BY DEF Tally
  <2>3. n + 1 \notin at
    BY <1>1, <1>3
  <2> HIDE DEF at, new, n
  <2>4. /\ Cardinality(at) \in Nat
        /\ Cardinality(at \cup {n + 1}) = Cardinality(at) + 1
    BY <1>5, <2>3, FS_AddElement, FS_CardinalityType
  <2>5. QED
    BY <1>4, <2>1, <2>2, <2>4
<1>7. QED
  BY <1>4, <1>5, <1>6, FS_CardinalityType

\* The calls a request can make: which goroutine makes it, and its number.
AllCalls == Worker \X (1 .. MaxCalls)

\* They are finitely many, and so are any of them.
LEMMA SomeCalls ==
  ASSUME NEW X \in SUBSET AllCalls
  PROVE  IsFiniteSet(X) /\ Cardinality(X) \in Nat
<1>1. IsFiniteSet(AllCalls)
  <2>1. IsFiniteSet(1 .. MaxCalls)
    BY FS_Interval, CallsAssumption
  <2>2. QED
    BY <2>1, FS_Product, WorkerAssumption DEF AllCalls
<1>2. QED
  BY <1>1, FS_Subset, FS_CardinalityType

LEMMA CallsFinite ==
  ASSUME NEW r, NEW t
  PROVE  /\ IsFiniteSet(CallsMade(r, t)) /\ MadeBy(r, t) \in Nat
         /\ IsFiniteSet(Recorded(r, t)) /\ Cardinality(Recorded(r, t)) \in Nat
         /\ Cardinality(Recorded(r, t)) <= MadeBy(r, t)
<1>1. CallsMade(r, t) \subseteq AllCalls /\ Recorded(r, t) \subseteq CallsMade(r, t)
  BY DEF CallsMade, Recorded, AllCalls
<1>2. IsFiniteSet(CallsMade(r, t))
  BY <1>1, SomeCalls
<1>3. Cardinality(Recorded(r, t)) <= Cardinality(CallsMade(r, t))
  BY <1>1, <1>2, FS_Subset
<1>4. QED
  BY <1>1, <1>3, SomeCalls DEF MadeBy

\* A goroutine that has recorded all its calls finds them in the counters.
LEMMA OwnCallsRecorded ==
  ASSUME TypeOK, NEW r \in Request, NEW w \in Worker, NEW t \in CallType,
         pc[r][w] \notin {"record", "list"}, Len(made[r][w]) <= MaxCalls
  PROVE  Tally(made[r][w], t) <= Cardinality(Recorded(r, t))
<1> DEFINE s == made[r][w]
           at == {i \in DOMAIN s : s[i] = t}
           f == [i \in at |-> <<w, i>>]
<1>1. s \in Seq(CallType) /\ Len(s) \in Nat /\ DOMAIN s = 1 .. Len(s)
  BY DEF TypeOK
<1>2. \A i \in at : <<w, i>> \in Recorded(r, t)
  BY <1>1, CallsAssumption DEF Recorded, CallsMade, RecordedBy
<1>3. f \in Injection(at, Recorded(r, t))
  BY <1>2 DEF Injection, IsInjective
<1>4. Tally(s, t) = Cardinality(at)
  BY DEF Tally
<1> HIDE DEF at, f
<1>5. QED
  BY <1>3, <1>4, CallsFinite, FS_Injection
----------------------------------------------------------------------------
(* The invariant holds at first, and every action keeps it.                *)

LEMMA InitIInv == Init => IInv
<1> SUFFICES ASSUME Init PROVE IInv
  OBVIOUS
<1>1. NewRecorder \in Counters
  BY DEF NewRecorder, Counters
<1>2. TypeOK
  BY <1>1, NilAssumption DEF Init, TypeOK, Stage
<1>3. ReportInv
  BY DEF Init, ReportInv, Over
<1>4. ASSUME NEW r \in Request PROVE RequestInv(r)
  <2>1. LockInv(r) /\ WorkInv(r) /\ AnnotateInv(r) /\ ItemInv(r)
    BY <1>4, CallsAssumption, NilAssumption
       DEF Init, LockInv, WorkInv, AnnotateInv, ItemInv, NewRecorder
  <2>2. CountInv(r)
    <3>1. ASSUME NEW t \in CallType PROVE Tally(<<>>, t) = 0
      BY FS_EmptySet DEF Tally
    <3>2. ASSUME NEW t \in CallType PROVE Cardinality(Recorded(r, t)) = 0
      <4>1. Recorded(r, t) = {}
        BY CallsAssumption DEF Init, Recorded, CallsMade
      <4>2. QED
        BY <4>1, FS_EmptySet
    <3>3. QED
      BY <1>4, <3>1, <3>2 DEF Init, CountInv, Agrees, NewRecorder
  <2>3. QED
    BY <2>1, <2>2 DEF RequestInv
<1>5. QED
  BY <1>2, <1>3, <1>4 DEF IInv

\* What belongs to one request.
RequestState(r) == <<stage[r], pc[r], made[r], mu[r], recorder[r], items[r]>>

LEMMA RequestFrame ==
  ASSUME NEW r \in Request, RequestInv(r), UNCHANGED RequestState(r)
  PROVE  RequestInv(r)'
<1> USE DEF RequestState
<1>1. ASSUME NEW t \in CallType
      PROVE  CallsMade(r, t)' = CallsMade(r, t) /\ Recorded(r, t)' = Recorded(r, t)
  BY DEF CallsMade, Recorded, RecordedBy
<1>2. LockInv(r)' /\ WorkInv(r)' /\ AnnotateInv(r)'
  BY DEF RequestInv, LockInv, WorkInv, AnnotateInv, Workers
<1>3. CountInv(r)' /\ ItemInv(r)'
  BY <1>1 DEF RequestInv, CountInv, Agrees, ItemInv, MadeBy
<1>4. QED
  BY <1>2, <1>3 DEF RequestInv

\* Only a request that is being worked for has goroutines at work.
LEMMA AtWork ==
  ASSUME IInv, NEW r \in Request, NEW w \in Worker,
         pc[r][w] \notin {"none", "done"}
  PROVE  stage[r] = "working" /\ w \in Workers(r)
BY DEF IInv, RequestInv, WorkInv

\* What goroutine w does for request r concerns neither the other requests nor
\* the reports.
WorksFor(r) ==
  /\ UNCHANGED <<stage, marked, clientVars, got, finished>>
  /\ \A q \in Request : q # r => UNCHANGED RequestState(q)

\* The types of what it may change.
WorkTypes ==
  /\ pc \in [Request -> [Worker -> {"none", "work", "record", "list", "done"}]]
  /\ made \in [Request -> [Worker -> Seq(CallType)]]
  /\ mu \in [Request -> Worker \cup {Nil}]
  /\ recorder \in [Request -> Counters]
  /\ items \in [Request -> [Worker -> Report \cup {Nil}]]

LEMMA WorkFrame ==
  ASSUME IInv, NEW r \in Request, stage[r] = "working", WorksFor(r),
         WorkTypes', RequestInv(r)'
  PROVE  IInv'
<1>1. ASSUME NEW q \in Request PROVE RequestInv(q)'
  BY RequestFrame DEF IInv, WorksFor
<1>2. ReportInv'
  <2> USE DEF WorksFor, clientVars
  <2>1. Over' = Over /\ r \notin Over
    BY DEF Over
  <2>2. ASSUME NEW q \in Over, NEW t \in CallType PROVE MadeBy(q, t)' = MadeBy(q, t)
    <3>1. made'[q] = made[q]
      BY <2>1 DEF RequestState, Over
    <3>2. CallsMade(q, t)' = CallsMade(q, t)
      BY <3>1 DEF CallsMade
    <3>3. QED
      BY <3>2 DEF MadeBy
  <2>3. QED
    BY <2>1, <2>2 DEF IInv, ReportInv, Agrees
<1>3. TypeOK'
  <2>1. \A q \in Request : mu'[q] # Nil => pc'[q][mu'[q]] = "list"
    BY <1>1 DEF RequestInv, LockInv, WorkTypes
  <2>2. QED
    BY <2>1 DEF IInv, TypeOK, WorkTypes, WorksFor, clientVars
<1>4. QED
  BY <1>1, <1>2, <1>3 DEF IInv

\* A request to the endpoint has been made and is not recorded yet.
LEMMA CallStep ==
  ASSUME IInv, NEW r \in Request, NEW w \in Worker, CallRPC(r, w)
  PROVE  IInv'
<1>1. PICK t \in CallType : made' = [made EXCEPT ![r][w] = Append(made[r][w], t)]
  BY DEF CallRPC, IInv, TypeOK
<1>2. /\ pc[r][w] = "work" /\ Len(made[r][w]) < MaxCalls /\ Goto(r, w, "record")
      /\ UNCHANGED <<stage, items, mu, recorder, marked, clientVars, got, finished>>
  BY DEF CallRPC, recorderVars
<1>3. RequestInv(r) /\ stage[r] = "working" /\ w \in Workers(r)
  BY <1>2, AtWork DEF IInv
<1>4. /\ pc' \in [Request -> [Worker -> {"none", "work", "record", "list", "done"}]]
      /\ pc'[r][w] = "record"
      /\ \A q \in Request : q # r => pc'[q] = pc[q]
      /\ \A v \in Worker : v # w => pc'[r][v] = pc[r][v]
  BY <1>2, Entry DEF Goto, IInv, TypeOK
<1> DEFINE s == made[r][w]
<1>5. s \in Seq(CallType) /\ Len(s) \in Nat
  BY DEF IInv, TypeOK
<1>6. /\ Append(s, t) \in Seq(CallType)
      /\ Len(Append(s, t)) = Len(s) + 1 /\ Append(s, t) # <<>>
      /\ \A i \in 1 .. Len(s) : Append(s, t)[i] = s[i]
  BY <1>5
<1>7. /\ made' \in [Request -> [Worker -> Seq(CallType)]]
      /\ made'[r][w] = Append(s, t)
      /\ \A q \in Request : q # r => made'[q] = made[q]
      /\ \A v \in Worker : v # w => made'[r][v] = made[r][v]
  BY <1>1, <1>6, Entry DEF IInv, TypeOK
<1>8. WorkTypes'
  BY <1>2, <1>4, <1>7 DEF IInv, TypeOK, WorkTypes
<1>9. WorksFor(r)
  BY <1>2, <1>4, <1>7 DEF WorksFor, RequestState
\* The list of w is longer by one call, which is not recorded.
<1>10. /\ Len(made'[r][w]) = Len(s) + 1 /\ made'[r][w] # <<>>
       /\ \A i \in 1 .. Len(s) : made'[r][w][i] = s[i]
  BY <1>6, <1>7
<1>11. \A v \in Worker : RecordedBy(r, v)' = RecordedBy(r, v)
  <2>1. RecordedBy(r, w)' = Len(s) /\ RecordedBy(r, w) = Len(s)
    BY <1>2, <1>4, <1>5, <1>10 DEF RecordedBy
  <2>2. \A v \in Worker : v # w => RecordedBy(r, v)' = RecordedBy(r, v)
    BY <1>4, <1>7 DEF RecordedBy
  <2>3. QED
    BY <2>1, <2>2
<1>12. \A v \in Worker : Len(made[r][v]) \in Nat
  BY DEF IInv, TypeOK
<1>13. ASSUME NEW u \in CallType
       PROVE  CallsMade(r, u) \subseteq CallsMade(r, u)' /\ Recorded(r, u)' = Recorded(r, u)
  <2>1. ASSUME NEW v \in Worker, NEW i \in 1 .. MaxCalls
        PROVE  /\ <<v, i>> \in CallsMade(r, u) => <<v, i>> \in CallsMade(r, u)'
               /\ i <= RecordedBy(r, v) =>
                    (<<v, i>> \in CallsMade(r, u) <=> <<v, i>> \in CallsMade(r, u)')
    <3>1. CASE v = w
      <4>1. RecordedBy(r, v) = Len(s)
        BY <1>2, <3>1 DEF RecordedBy
      <4>2. /\ <<v, i>> \in CallsMade(r, u) <=> i <= Len(s) /\ s[i] = u
            /\ <<v, i>> \in CallsMade(r, u)' <=>
                 i <= Len(made'[r][w]) /\ made'[r][w][i] = u
        BY <3>1 DEF CallsMade
      <4>3. i \in Nat /\ (i <= Len(s) => i \in 1 .. Len(s))
        BY <1>5, CallsAssumption
      <4> HIDE DEF s
      <4>4. QED
        BY <1>5, <1>10, <4>1, <4>2, <4>3
    <3>2. CASE v # w
      BY <1>7, <3>2 DEF CallsMade
    <3>3. QED
      BY <3>1, <3>2
  <2>2. /\ CallsMade(r, u) \subseteq Worker \X (1 .. MaxCalls)
        /\ CallsMade(r, u)' \subseteq Worker \X (1 .. MaxCalls)
    BY DEF CallsMade
  <2>3. QED
    BY <1>11, <2>1, <2>2 DEF Recorded
<1>14. LockInv(r)' /\ AnnotateInv(r)'
  BY <1>2, <1>3, <1>4 DEF RequestInv, LockInv, AnnotateInv
<1>15. WorkInv(r)'
  <2>1. Len(made'[r][w]) <= MaxCalls
    BY <1>2, <1>5, <1>10, CallsAssumption
  <2>2. Workers(r)' = Workers(r)
    BY DEF Workers
  <2>3. ASSUME NEW v \in Worker
        PROVE  /\ pc'[r][v] \in {"record", "list"} => made'[r][v] # <<>>
               /\ Len(made'[r][v]) <= MaxCalls
               /\ v \notin Workers(r) \/ stage'[r] = "idle" => pc'[r][v] = "none"
               /\ stage'[r] # "working" => pc'[r][v] \in {"none", "done"}
    <3>1. CASE v = w
      BY <1>2, <1>3, <1>4, <1>10, <2>1, <3>1 DEF RequestInv, WorkInv
    <3>2. CASE v # w
      BY <1>2, <1>3, <1>4, <1>7, <3>2 DEF RequestInv, WorkInv
    <3>3. QED
      BY <3>1, <3>2
  <2>4. QED
    BY <1>2, <1>3, <2>2, <2>3 DEF RequestInv, WorkInv
<1>16. CountInv(r)'
  BY <1>2, <1>3, <1>13 DEF RequestInv, CountInv
<1>17. ItemInv(r)'
  <2> SUFFICES ASSUME NEW v \in Worker, items[r][v] # Nil
               PROVE  /\ pc'[r][v] = "done"
                      /\ items[r][v].request = r
                      /\ Agrees(items[r][v].counters, 0)
                      /\ \A u \in CallType : items[r][v].counters.byType[u]
                            \in Tally(made'[r][v], u) .. MadeBy(r, u)'
    BY <1>2 DEF ItemInv, Agrees
  <2>1. v # w
    BY <1>2, <1>3 DEF RequestInv, ItemInv
  <2>2. made'[r][v] = made[r][v] /\ pc'[r][v] = pc[r][v]
    BY <1>4, <1>7, <2>1
  <2>3. ASSUME NEW u \in CallType
        PROVE  items[r][v].counters.byType[u] \in Tally(made'[r][v], u) .. MadeBy(r, u)'
    <3>1. MadeBy(r, u) <= MadeBy(r, u)' /\ MadeBy(r, u) \in Nat /\ MadeBy(r, u)' \in Nat
      <4>1. IsFiniteSet(CallsMade(r, u)') /\ MadeBy(r, u)' \in Nat
        <5>1. CallsMade(r, u)' \subseteq AllCalls
          BY DEF CallsMade, AllCalls
        <5>2. QED
          BY <5>1, SomeCalls DEF MadeBy
      <4>2. QED
        BY <1>13, <4>1, CallsFinite, FS_Subset DEF MadeBy
    <3>2. items[r][v].counters.byType[u] \in Tally(made[r][v], u) .. MadeBy(r, u)
      BY <1>3 DEF RequestInv, ItemInv
    <3>3. Tally(made[r][v], u) \in Nat
      BY TallyCounts DEF IInv, TypeOK
    <3>4. QED
      BY <2>2, <3>1, <3>2, <3>3
  <2>4. QED
    BY <1>3, <2>2, <2>3 DEF RequestInv, ItemInv
<1>18. QED
  BY <1>3, <1>8, <1>9, <1>14, <1>15, <1>16, <1>17, WorkFrame DEF RequestInv

\* A step that makes no call and records none.
LEMMA SameCalls ==
  ASSUME NEW r, NEW u, made'[r] = made[r],
         \A v \in Worker : RecordedBy(r, v)' = RecordedBy(r, v)
  PROVE  CallsMade(r, u)' = CallsMade(r, u) /\ Recorded(r, u)' = Recorded(r, u)
<1>1. CallsMade(r, u)' = CallsMade(r, u)
  BY DEF CallsMade
<1>2. \A x \in CallsMade(r, u) : x[1] \in Worker
  BY DEF CallsMade
<1>3. QED
  BY <1>1, <1>2 DEF Recorded

\* Where the goroutines are when w has moved on.
LEMMA Moves ==
  ASSUME IInv, NEW r \in Request, NEW w \in Worker,
         NEW label \in {"none", "work", "record", "list", "done"}, Goto(r, w, label)
  PROVE  /\ pc' \in [Request -> [Worker -> {"none", "work", "record", "list", "done"}]]
         /\ pc'[r][w] = label
         /\ \A q \in Request : q # r => pc'[q] = pc[q]
         /\ \A v \in Worker : v # w => pc'[r][v] = pc[r][v]
BY Entry DEF Goto, IInv, TypeOK

\* The counter of all calls is ahead while the mutex is held.
LEMMA CountStep ==
  ASSUME IInv, NEW r \in Request, NEW w \in Worker, CountRPC(r, w)
  PROVE  IInv'
<1>1. /\ pc[r][w] = "record" /\ mu[r] = Nil /\ Goto(r, w, "list")
      /\ mu' = [mu EXCEPT ![r] = w]
      /\ recorder' = [recorder EXCEPT ![r] = [recorder[r] EXCEPT !.total = @ + 1]]
      /\ UNCHANGED <<stage, made, items, marked, clientVars, got, finished>>
  BY DEF CountRPC, IInv, TypeOK
<1>2. RequestInv(r) /\ stage[r] = "working" /\ w \in Workers(r)
  BY <1>1, AtWork DEF IInv
<1>3. /\ pc' \in [Request -> [Worker -> {"none", "work", "record", "list", "done"}]]
      /\ pc'[r][w] = "list"
      /\ \A q \in Request : q # r => pc'[q] = pc[q]
      /\ \A v \in Worker : v # w => pc'[r][v] = pc[r][v]
  BY <1>1, Moves
<1>4. /\ mu' \in [Request -> Worker \cup {Nil}] /\ mu'[r] = w
      /\ \A q \in Request : q # r => mu'[q] = mu[q]
  BY <1>1 DEF IInv, TypeOK
<1>5. recorder[r] \in Counters
  BY DEF IInv, TypeOK
<1>6. /\ recorder'[r] = [recorder[r] EXCEPT !.total = @ + 1]
      /\ \A q \in Request : q # r => recorder'[q] = recorder[q]
  BY <1>1 DEF IInv, TypeOK
<1>7. /\ recorder'[r] \in Counters
      /\ recorder'[r].total = recorder[r].total + 1
      /\ recorder'[r].calls = recorder[r].calls
      /\ recorder'[r].byType = recorder[r].byType
      /\ recorder'[r].annotations = recorder[r].annotations
  BY <1>5, <1>6 DEF Counters
<1>8. recorder' \in [Request -> Counters]
  BY <1>1, <1>6, <1>7 DEF IInv, TypeOK
<1>9. WorkTypes'
  BY <1>1, <1>3, <1>4, <1>8 DEF IInv, TypeOK, WorkTypes
<1>10. WorksFor(r)
  BY <1>1, <1>3, <1>4, <1>6 DEF WorksFor, RequestState
<1>11. ASSUME NEW u \in CallType
       PROVE  CallsMade(r, u)' = CallsMade(r, u) /\ Recorded(r, u)' = Recorded(r, u)
  <2>1. \A v \in Worker : RecordedBy(r, v)' = RecordedBy(r, v)
    BY <1>1, <1>3 DEF RecordedBy
  <2>2. QED
    BY <1>1, <2>1, SameCalls
<1>12. LockInv(r)'
  BY <1>1, <1>2, <1>3, <1>4, NilAssumption DEF RequestInv, LockInv
<1>13. WorkInv(r)' /\ AnnotateInv(r)'
  <2>1. Workers(r)' = Workers(r)
    BY DEF Workers
  <2>2. QED
    BY <1>1, <1>2, <1>3, <1>7, <2>1 DEF RequestInv, WorkInv, AnnotateInv
<1>14. CountInv(r)'
  <2>1. Len(recorder[r].calls) \in Nat
    BY <1>5 DEF Counters
  <2>2. recorder[r].total = Len(recorder[r].calls) + 0
    BY <1>1, <1>2 DEF RequestInv, CountInv, Agrees
  <2>3. recorder'[r].total = Len(recorder'[r].calls) + 1 /\ mu'[r] # Nil
    BY <1>4, <1>7, <2>1, <2>2, NilAssumption
  <2>4. QED
    BY <1>2, <1>7, <1>11, <2>3 DEF RequestInv, CountInv, Agrees
<1>15. ItemInv(r)'
  BY <1>1, <1>2, <1>3, <1>11 DEF RequestInv, ItemInv, MadeBy, Agrees
<1>16. QED
  BY <1>2, <1>9, <1>10, <1>12, <1>13, <1>14, <1>15, WorkFrame DEF RequestInv

\* Then the call is counted by its type and listed: it is recorded.
LEMMA ListStep ==
  ASSUME IInv, NEW r \in Request, NEW w \in Worker, ListRPC(r, w)
  PROVE  IInv'
<1> DEFINE s == made[r][w]
           n == Len(s)
           t == s[n]
           old == recorder[r]
<1>1. /\ pc[r][w] = "list" /\ Goto(r, w, "work")
      /\ mu' = [mu EXCEPT ![r] = Nil]
      /\ UNCHANGED <<stage, made, items, marked, clientVars, got, finished>>
  BY DEF ListRPC
<1>2. /\ RequestInv(r) /\ stage[r] = "working" /\ w \in Workers(r) /\ mu[r] = w
      /\ \A v \in Worker : v # w => pc[r][v] # "list"
  BY <1>1, AtWork DEF IInv, RequestInv, LockInv
<1>3. s \in Seq(CallType) /\ n \in 1 .. MaxCalls /\ t \in CallType
  <2>1. s \in Seq(CallType) /\ s # <<>> /\ Len(s) <= MaxCalls
    BY <1>1, <1>2 DEF RequestInv, WorkInv, IInv, TypeOK
  <2>2. QED
    BY <2>1, CallsAssumption
<1>4. /\ pc' \in [Request -> [Worker -> {"none", "work", "record", "list", "done"}]]
      /\ pc'[r][w] = "work"
      /\ \A q \in Request : q # r => pc'[q] = pc[q]
      /\ \A v \in Worker : v # w => pc'[r][v] = pc[r][v]
  BY <1>1, Moves
<1>5. /\ mu' \in [Request -> Worker \cup {Nil}] /\ mu'[r] = Nil
      /\ \A q \in Request : q # r => mu'[q] = mu[q]
  BY <1>1 DEF IInv, TypeOK
<1>6. old \in Counters
  BY DEF IInv, TypeOK
<1>7. recorder' = [recorder EXCEPT ![r] =
                     [old EXCEPT !.byType = [old.byType EXCEPT ![t] = @ + 1],
                                 !.calls = Append(old.calls, t)]]
  BY <1>6 DEF ListRPC, Last, IInv, TypeOK, Counters
<1>8. /\ recorder'[r] = [old EXCEPT !.byType = [old.byType EXCEPT ![t] = @ + 1],
                                    !.calls = Append(old.calls, t)]
      /\ \A q \in Request : q # r => recorder'[q] = recorder[q]
  BY <1>7 DEF IInv, TypeOK
<1> HIDE DEF t
<1>9. /\ old.calls \in Seq(CallType) /\ old.byType \in [CallType -> Nat]
      /\ Append(old.calls, t) \in Seq(CallType)
      /\ Len(Append(old.calls, t)) = Len(old.calls) + 1 /\ Len(old.calls) \in Nat
  BY <1>3, <1>6 DEF Counters
<1>10. /\ recorder'[r] \in Counters
       /\ recorder'[r].total = old.total
       /\ recorder'[r].calls = Append(old.calls, t)
       /\ recorder'[r].annotations = old.annotations
       /\ \A u \in CallType :
            recorder'[r].byType[u] = old.byType[u] + (IF t = u THEN 1 ELSE 0)
  <2> DEFINE byType == [old.byType EXCEPT ![t] = @ + 1]
             calls == Append(old.calls, t)
  <2>1. /\ byType \in [CallType -> Nat]
        /\ \A u \in CallType : byType[u] = old.byType[u] + (IF t = u THEN 1 ELSE 0)
    BY <1>3, <1>9
  <2>2. calls \in Seq(CallType)
    BY <1>9
  <2>3. recorder'[r] = [old EXCEPT !.byType = byType, !.calls = calls]
    BY <1>8
  <2> HIDE DEF byType, calls
  <2>4. /\ recorder'[r] \in Counters
        /\ recorder'[r].total = old.total /\ recorder'[r].calls = calls
        /\ recorder'[r].annotations = old.annotations /\ recorder'[r].byType = byType
    BY <1>6, <2>1, <2>2, <2>3 DEF Counters
  <2>5. QED
    BY <2>1, <2>4 DEF calls
<1>11. recorder' \in [Request -> Counters]
  BY <1>7, <1>8, <1>10 DEF IInv, TypeOK
<1>12. WorkTypes'
  BY <1>1, <1>4, <1>5, <1>11 DEF IInv, TypeOK, WorkTypes
<1>13. WorksFor(r)
  BY <1>1, <1>4, <1>5, <1>8 DEF WorksFor, RequestState
<1>14. ASSUME NEW u \in CallType
       PROVE  /\ CallsMade(r, u)' = CallsMade(r, u)
              /\ Cardinality(Recorded(r, u)')
                   = Cardinality(Recorded(r, u)) + (IF t = u THEN 1 ELSE 0)
  <2>1. CallsMade(r, u)' = CallsMade(r, u)
    BY <1>1 DEF CallsMade
  <2>2. /\ RecordedBy(r, w) = n - 1 /\ RecordedBy(r, w)' = n
        /\ \A v \in Worker : v # w => RecordedBy(r, v)' = RecordedBy(r, v)
    BY <1>1, <1>4 DEF RecordedBy
  <2>3. ASSUME NEW v \in Worker, NEW i \in 1 .. MaxCalls
        PROVE  <<v, i>> \in Recorded(r, u)' <=>
                 <<v, i>> \in Recorded(r, u) \/ (<<v, i>> = <<w, n>> /\ t = u)
    <3>1. CASE v = w
      <4>1. <<w, i>> \in CallsMade(r, u) <=> i <= n /\ s[i] = u
        BY <3>1 DEF CallsMade
      <4>2. i <= n <=> i <= n - 1 \/ i = n
        BY <1>3
      <4>3. QED
        BY <1>3, <2>1, <2>2, <3>1, <4>1, <4>2 DEF Recorded, t
    <3>2. CASE v # w
      BY <2>1, <2>2, <3>2 DEF Recorded
    <3>3. QED
      BY <3>1, <3>2
  <2>4. /\ Recorded(r, u) \subseteq Worker \X (1 .. MaxCalls)
        /\ Recorded(r, u)' \subseteq Worker \X (1 .. MaxCalls)
    BY <2>1 DEF Recorded, CallsMade
  <2>5. Recorded(r, u)' = IF t = u THEN Recorded(r, u) \cup {<<w, n>>} ELSE Recorded(r, u)
    <3>1. ASSUME NEW x \in Worker \X (1 .. MaxCalls)
          PROVE  x \in Recorded(r, u)' <=>
                   x \in Recorded(r, u) \/ (x = <<w, n>> /\ t = u)
      <4>1. PICK v \in Worker, i \in 1 .. MaxCalls : x = <<v, i>>
        OBVIOUS
      <4>2. QED
        BY <2>3, <4>1
    <3>2. <<w, n>> \in Worker \X (1 .. MaxCalls)
      BY <1>3
    <3> HIDE DEF n
    <3>3. QED
      BY <2>4, <3>1, <3>2
  <2>6. <<w, n>> \notin Recorded(r, u)
    BY <1>3, <2>2 DEF Recorded
  <2>7. Cardinality(Recorded(r, u)) \in Nat
        /\ Cardinality(Recorded(r, u) \cup {<<w, n>>}) = Cardinality(Recorded(r, u)) + 1
    BY <2>6, CallsFinite, FS_AddElement
  <2>8. QED
    BY <2>1, <2>5, <2>7
<1>15. LockInv(r)'
  BY <1>1, <1>2, <1>4, <1>5, NilAssumption DEF RequestInv, LockInv
<1>16. WorkInv(r)' /\ AnnotateInv(r)'
  <2>1. Workers(r)' = Workers(r)
    BY DEF Workers
  <2>2. QED
    BY <1>1, <1>2, <1>4, <1>10, <2>1 DEF RequestInv, WorkInv, AnnotateInv
<1>17. CountInv(r)'
  <2>1. old.total = Len(old.calls) + 1
    BY <1>2, NilAssumption DEF RequestInv, CountInv, Agrees
  <2>2. ASSUME NEW u \in CallType
        PROVE  /\ recorder'[r].byType[u] = Tally(recorder'[r].calls, u)
               /\ recorder'[r].byType[u] = Cardinality(Recorded(r, u)')
    <3>1. Tally(recorder'[r].calls, u) = Tally(old.calls, u) + (IF t = u THEN 1 ELSE 0)
      <4>1. recorder'[r].calls = Append(old.calls, t)
        BY <1>10
      <4>2. QED
        BY ONLY <1>3, <1>9, <4>1, TallyCounts
    <3>2. old.byType[u] = Tally(old.calls, u) /\ old.byType[u] = Cardinality(Recorded(r, u))
      BY <1>2 DEF RequestInv, CountInv, Agrees
    <3>3. QED
      BY <1>10, <1>14, <3>1, <3>2
  <2>3. recorder'[r].total = Len(recorder'[r].calls) + 0
    BY <1>9, <1>10, <2>1
  <2>4. QED
    BY <1>5, <2>2, <2>3 DEF CountInv, Agrees
<1>18. ItemInv(r)'
  BY <1>1, <1>2, <1>4, <1>14 DEF RequestInv, ItemInv, MadeBy, Agrees
<1>19. QED
  BY <1>2, <1>12, <1>13, <1>15, <1>16, <1>17, <1>18, WorkFrame DEF RequestInv

\* A snapshot is a report that carries the counters of its recorder.
LEMMA SnapshotIsReport ==
  ASSUME TypeOK, NEW r \in Request
  PROVE  /\ SnapshotMap(r) \in Report /\ SnapshotMap(r) # Nil
         /\ SnapshotMap(r).request = r
         /\ SnapshotMap(r).done = (r \in marked)
         /\ SnapshotMap(r).counters = recorder[r]
<1>1. recorder[r] \in Counters /\ (r \in marked) \in BOOLEAN
  BY DEF TypeOK
<1>2. SnapshotMap(r) \in Report
  BY <1>1 DEF SnapshotMap, Report
<1>3. QED
  BY <1>2, NoReportAssumption DEF SnapshotMap

\* The goroutine that attaches a snapshot has recorded all its calls.
LEMMA AttachStep ==
  ASSUME IInv, NEW r \in Request, NEW w \in Worker, AttachRequestDebug(r, w)
  PROVE  IInv'
<1>1. /\ pc[r][w] = "work" /\ mu[r] = Nil /\ Goto(r, w, "done")
      /\ items' = [items EXCEPT ![r][w] = SnapshotMap(r)]
      /\ UNCHANGED <<stage, made, mu, recorder, marked, clientVars, got, finished>>
  BY DEF AttachRequestDebug, recorderVars
<1>2. RequestInv(r) /\ stage[r] = "working" /\ w \in Workers(r)
  BY <1>1, AtWork DEF IInv
<1>3. /\ pc' \in [Request -> [Worker -> {"none", "work", "record", "list", "done"}]]
      /\ pc'[r][w] = "done"
      /\ \A q \in Request : q # r => pc'[q] = pc[q]
      /\ \A v \in Worker : v # w => pc'[r][v] = pc[r][v]
  BY <1>1, Moves
<1>4. /\ SnapshotMap(r) \in Report /\ SnapshotMap(r).request = r
      /\ SnapshotMap(r).counters = recorder[r]
  BY SnapshotIsReport DEF IInv
<1>5. /\ items' \in [Request -> [Worker -> Report \cup {Nil}]]
      /\ items'[r][w] = SnapshotMap(r)
      /\ \A q \in Request : q # r => items'[q] = items[q]
      /\ \A v \in Worker : v # w => items'[r][v] = items[r][v]
  <2> DEFINE some == Report \cup {Nil}
  <2>1. items \in [Request -> [Worker -> some]] /\ SnapshotMap(r) \in some
    BY <1>4 DEF IInv, TypeOK
  <2> HIDE DEF some
  <2>2. /\ items' \in [Request -> [Worker -> some]]
        /\ items'[r][w] = SnapshotMap(r)
        /\ \A q \in Request : q # r => items'[q] = items[q]
        /\ \A v \in Worker : v # w => items'[r][v] = items[r][v]
    BY <1>1, <2>1, Entry
  <2>3. QED
    BY <2>2 DEF some
<1>6. WorkTypes'
  BY <1>1, <1>3, <1>5 DEF IInv, TypeOK, WorkTypes
<1>7. WorksFor(r)
  BY <1>1, <1>3, <1>5 DEF WorksFor, RequestState
<1>8. ASSUME NEW u \in CallType
      PROVE  CallsMade(r, u)' = CallsMade(r, u) /\ Recorded(r, u)' = Recorded(r, u)
  <2>1. \A v \in Worker : RecordedBy(r, v)' = RecordedBy(r, v)
    BY <1>1, <1>3 DEF RecordedBy
  <2>2. QED
    BY <1>1, <2>1, SameCalls
<1>9. LockInv(r)'
  BY <1>1, <1>2, <1>3, NilAssumption DEF RequestInv, LockInv
<1>10. WorkInv(r)' /\ AnnotateInv(r)'
  <2>1. Workers(r)' = Workers(r)
    BY DEF Workers
  <2>2. QED
    BY <1>1, <1>2, <1>3, <2>1 DEF RequestInv, WorkInv, AnnotateInv
<1>11. CountInv(r)'
  BY <1>1, <1>2, <1>8 DEF RequestInv, CountInv, Agrees
<1>12. ItemInv(r)'
  <2>1. Agrees(recorder[r], 0)
    BY <1>1, <1>2 DEF RequestInv, CountInv
  <2>2. ASSUME NEW u \in CallType
        PROVE  recorder[r].byType[u] \in Tally(made[r][w], u) .. MadeBy(r, u)
    <3>1. recorder[r].byType[u] = Cardinality(Recorded(r, u))
      BY <1>2 DEF RequestInv, CountInv
    <3>2. Tally(made[r][w], u) <= Cardinality(Recorded(r, u))
      BY <1>1, <1>2, OwnCallsRecorded DEF IInv, RequestInv, WorkInv
    <3>3. Tally(made[r][w], u) \in Nat
      BY TallyCounts DEF IInv, TypeOK
    <3>4. QED
      BY <3>1, <3>2, <3>3, CallsFinite
  <2>3. ASSUME NEW v \in Worker, items'[r][v] # Nil
        PROVE  /\ pc'[r][v] = "done"
               /\ items'[r][v].request = r
               /\ Agrees(items'[r][v].counters, 0)
               /\ \A u \in CallType :
                    items'[r][v].counters.byType[u] \in Tally(made[r][v], u) .. MadeBy(r, u)
    <3>1. CASE v = w
      BY <1>3, <1>4, <1>5, <2>1, <2>2, <3>1
    <3>2. CASE v # w
      BY <1>2, <1>3, <1>5, <2>3, <3>2 DEF RequestInv, ItemInv
    <3>3. QED
      BY <3>1, <3>2
  <2>4. QED
    BY <1>1, <1>8, <2>3 DEF ItemInv, Agrees, MadeBy
<1>13. QED
  BY <1>2, <1>6, <1>7, <1>9, <1>10, <1>11, <1>12, WorkFrame DEF RequestInv

LEMMA FailItemStep ==
  ASSUME IInv, NEW r \in Request, NEW w \in Worker, FailItem(r, w)
  PROVE  IInv'
<1>1. /\ pc[r][w] = "work" /\ Goto(r, w, "done")
      /\ UNCHANGED <<stage, made, items, mu, recorder, marked, clientVars, got, finished>>
  BY DEF FailItem, recorderVars
<1>2. RequestInv(r) /\ stage[r] = "working" /\ w \in Workers(r)
  BY <1>1, AtWork DEF IInv
<1>3. /\ pc' \in [Request -> [Worker -> {"none", "work", "record", "list", "done"}]]
      /\ pc'[r][w] = "done"
      /\ \A q \in Request : q # r => pc'[q] = pc[q]
      /\ \A v \in Worker : v # w => pc'[r][v] = pc[r][v]
  BY <1>1, Moves
<1>4. WorkTypes' /\ WorksFor(r)
  BY <1>1, <1>3 DEF IInv, TypeOK, WorkTypes, WorksFor, RequestState
<1>5. ASSUME NEW u \in CallType
      PROVE  CallsMade(r, u)' = CallsMade(r, u) /\ Recorded(r, u)' = Recorded(r, u)
  <2>1. \A v \in Worker : RecordedBy(r, v)' = RecordedBy(r, v)
    BY <1>1, <1>3 DEF RecordedBy
  <2>2. QED
    BY <1>1, <2>1, SameCalls
<1>6. LockInv(r)'
  BY <1>1, <1>2, <1>3, NilAssumption DEF RequestInv, LockInv
<1>7. WorkInv(r)' /\ AnnotateInv(r)'
  <2>1. Workers(r)' = Workers(r)
    BY DEF Workers
  <2>2. QED
    BY <1>1, <1>2, <1>3, <2>1 DEF RequestInv, WorkInv, AnnotateInv
<1>8. CountInv(r)' /\ ItemInv(r)'
  BY <1>1, <1>2, <1>3, <1>5 DEF RequestInv, CountInv, ItemInv, MadeBy, Agrees
<1>9. QED
  BY <1>2, <1>4, <1>6, <1>7, <1>8, WorkFrame DEF RequestInv

\* What the caller of r does concerns the other requests in the reports only.
CallsFor(r) ==
  /\ UNCHANGED <<made, mu, items>>
  /\ stage' = [stage EXCEPT ![r] = stage'[r]] /\ stage'[r] \in Stage
  /\ pc' = [pc EXCEPT ![r] = pc'[r]]
  /\ pc'[r] \in [Worker -> {"none", "work", "record", "list", "done"}]
  /\ recorder' = [recorder EXCEPT ![r] = recorder'[r]] /\ recorder'[r] \in Counters

ClientTypes ==
  /\ marked \subseteq Request
  /\ clientMu \in Request \cup {Nil}
  /\ lastDebug \in Report \cup {Nil}
  /\ got \in [Request -> Report \cup {Nil}]
  /\ finished \in [Request -> SUBSET Request]
  /\ clientMu # Nil => stage[clientMu] = "locked"

LEMMA CallFrame ==
  ASSUME IInv, NEW r \in Request, CallsFor(r), ClientTypes', RequestInv(r)', ReportInv'
  PROVE  IInv'
<1>1. ASSUME NEW q \in Request PROVE RequestInv(q)'
  <2>1. CASE q = r
    BY <2>1
  <2>2. CASE q # r
    <3>1. UNCHANGED RequestState(q)
      BY <2>2 DEF CallsFor, RequestState, IInv, TypeOK
    <3>2. QED
      BY <3>1, RequestFrame DEF IInv
  <2>3. QED
    BY <2>1, <2>2
<1>2. TypeOK'
  <2>1. /\ stage' \in [Request -> Stage]
        /\ pc' \in [Request -> [Worker -> {"none", "work", "record", "list", "done"}]]
        /\ made' \in [Request -> [Worker -> Seq(CallType)]]
        /\ mu' \in [Request -> Worker \cup {Nil}]
        /\ recorder' \in [Request -> Counters]
        /\ items' \in [Request -> [Worker -> Report \cup {Nil}]]
    <3> DEFINE steps == [Worker -> {"none", "work", "record", "list", "done"}]
    <3>1. pc \in [Request -> steps] /\ pc'[r] \in steps /\ pc' = [pc EXCEPT ![r] = pc'[r]]
      BY DEF CallsFor, IInv, TypeOK
    <3>2. pc' \in [Request -> steps]
      <4> HIDE DEF steps
      <4>1. QED
        BY <3>1
    <3>3. recorder' \in [Request -> Counters] /\ stage' \in [Request -> Stage]
      BY DEF CallsFor, IInv, TypeOK
    <3>4. QED
      BY <3>2, <3>3 DEF CallsFor, IInv, TypeOK
  <2>2. \A q \in Request : mu'[q] # Nil => pc'[q][mu'[q]] = "list"
    BY <1>1, <2>1 DEF RequestInv, LockInv
  <2>3. QED
    BY <2>1, <2>2 DEF TypeOK, ClientTypes
<1>3. QED
  BY <1>1, <1>2 DEF IInv

\* The caller moves on: nothing else of the request changes.
LEMMA StageFrame ==
  ASSUME IInv, NEW r \in Request, UNCHANGED <<pc, made, mu, recorder, items>>,
         stage[r] # "idle", stage'[r] # "idle",
         \A w \in Worker : pc[r][w] \in {"none", "done"},
         stage'[r] = "annotate" => r \in Bulk,
         r \in Bulk /\ stage'[r] \notin {"working", "annotate"} =>
           recorder[r].annotations = Key
  PROVE  RequestInv(r)'
<1>1. RequestInv(r)
  BY DEF IInv
<1>2. LockInv(r)' /\ AnnotateInv(r)'
  BY <1>1 DEF RequestInv, LockInv, AnnotateInv
<1>3. WorkInv(r)'
  BY <1>1 DEF RequestInv, WorkInv, Workers
<1>4. ASSUME NEW u \in CallType
      PROVE  CallsMade(r, u)' = CallsMade(r, u) /\ Recorded(r, u)' = Recorded(r, u)
  BY SameCalls DEF RecordedBy
<1>5. CountInv(r)' /\ ItemInv(r)'
  BY <1>1, <1>4 DEF RequestInv, CountInv, ItemInv, MadeBy, Agrees
<1>6. QED
  BY <1>2, <1>3, <1>5 DEF RequestInv

\* A step after which the same requests are over and the reports the same.
LEMMA ReportFrame ==
  ASSUME IInv, UNCHANGED <<made, lastDebug, got, finished, Over>>,
         \A q \in Request : stage'[q] \in {"marked", "locked"} => q \in marked',
         \A q \in Request : stage'[q] = "read" => stage[q] = "read"
  PROVE  ReportInv'
BY DEF IInv, ReportInv, Over, Agrees, MadeBy, CallsMade

\* The goroutines of a request at one of its later stages.
LEMMA Joined ==
  ASSUME IInv, NEW r \in Request, stage[r] # "working"
  PROVE  \A w \in Worker : pc[r][w] \in {"none", "done"}
BY DEF IInv, RequestInv, WorkInv

LEMMA JoinStep ==
  ASSUME IInv, NEW r \in Request, Join(r)
  PROVE  IInv'
<1>1. /\ stage[r] = "working" /\ (\A w \in Workers(r) : pc[r][w] = "done")
      /\ stage' = [stage EXCEPT ![r] = IF r \in Bulk THEN "annotate" ELSE "finish"]
      /\ UNCHANGED <<pc, made, items, mu, recorder, marked, clientMu, lastDebug, got, finished>>
  BY DEF Join, workVars, recorderVars, clientVars
<1>2. /\ stage'[r] = (IF r \in Bulk THEN "annotate" ELSE "finish") /\ stage'[r] \in Stage
      /\ \A q \in Request : q # r => stage'[q] = stage[q]
  BY <1>1 DEF IInv, TypeOK, Stage
<1>3. \A w \in Worker : pc[r][w] \in {"none", "done"}
  BY <1>1 DEF IInv, RequestInv, WorkInv
<1>4. RequestInv(r)'
  BY <1>1, <1>2, <1>3, StageFrame
<1>5. ReportInv'
  <2>1. Over' = Over
    BY <1>1, <1>2 DEF Over
  <2>2. QED
    BY <1>1, <1>2, <2>1, ReportFrame DEF IInv, ReportInv
<1>6. CallsFor(r)
  BY <1>1, <1>2 DEF CallsFor, IInv, TypeOK
<1>7. ClientTypes'
  BY <1>1, <1>2 DEF ClientTypes, IInv, TypeOK
<1>8. QED
  BY <1>4, <1>5, <1>6, <1>7, CallFrame

LEMMA MarkStep ==
  ASSUME IInv, NEW r \in Request, MarkDone(r)
  PROVE  IInv'
<1>1. /\ stage[r] = "finish" /\ marked' = marked \cup {r}
      /\ stage' = [stage EXCEPT ![r] = "marked"]
      /\ UNCHANGED <<pc, made, items, mu, recorder, clientMu, lastDebug, got, finished>>
  BY DEF MarkDone, workVars, clientVars
<1>2. /\ stage'[r] = "marked" /\ stage'[r] \in Stage
      /\ \A q \in Request : q # r => stage'[q] = stage[q]
  BY <1>1 DEF IInv, TypeOK, Stage
<1>3. RequestInv(r)'
  <2>1. r \in Bulk => recorder[r].annotations = Key
    BY <1>1 DEF IInv, RequestInv, AnnotateInv
  <2>2. \A w \in Worker : pc[r][w] \in {"none", "done"}
    BY <1>1, Joined
  <2>3. QED
    BY <1>1, <1>2, <2>1, <2>2, StageFrame
<1>4. ReportInv'
  <2>1. Over' = Over
    BY <1>1, <1>2 DEF Over
  <2>2. QED
    BY <1>1, <1>2, <2>1, ReportFrame DEF IInv, ReportInv
<1>5. CallsFor(r)
  BY <1>1, <1>2 DEF CallsFor, IInv, TypeOK
<1>6. ClientTypes'
  BY <1>1, <1>2 DEF ClientTypes, IInv, TypeOK
<1>7. QED
  BY <1>3, <1>4, <1>5, <1>6, CallFrame

LEMMA LockStep ==
  ASSUME IInv, NEW r \in Request, LockClient(r)
  PROVE  IInv'
<1>1. /\ stage[r] = "marked" /\ clientMu' = r
      /\ stage' = [stage EXCEPT ![r] = "locked"]
      /\ UNCHANGED <<pc, made, items, mu, recorder, marked, lastDebug, got, finished>>
  BY DEF LockClient, workVars, recorderVars
<1>2. /\ stage'[r] = "locked" /\ stage'[r] \in Stage
      /\ \A q \in Request : q # r => stage'[q] = stage[q]
  BY <1>1 DEF IInv, TypeOK, Stage
<1>3. RequestInv(r)'
  <2>1. r \in Bulk => recorder[r].annotations = Key
    BY <1>1 DEF IInv, RequestInv, AnnotateInv
  <2>2. \A w \in Worker : pc[r][w] \in {"none", "done"}
    BY <1>1, Joined
  <2>3. QED
    BY <1>1, <1>2, <2>1, <2>2, StageFrame
<1>4. ReportInv'
  <2>1. Over' = Over
    BY <1>1, <1>2 DEF Over
  <2>2. QED
    BY <1>1, <1>2, <2>1, ReportFrame DEF IInv, ReportInv
<1>5. CallsFor(r)
  BY <1>1, <1>2 DEF CallsFor, IInv, TypeOK
<1>6. ClientTypes'
  BY <1>1, <1>2 DEF ClientTypes, IInv, TypeOK
<1>7. QED
  BY <1>3, <1>4, <1>5, <1>6, CallFrame

\* The request begins: its goroutines have made no calls, and the requests that
\* are over are written down.
LEMMA StartStep ==
  ASSUME IInv, NEW r \in Request, StartDebug(r)
  PROVE  IInv'
<1>1. /\ stage[r] = "idle" /\ stage' = [stage EXCEPT ![r] = "working"]
      /\ pc' = [pc EXCEPT ![r] = [w \in Worker |-> IF w \in Workers(r) THEN "work" ELSE "none"]]
      /\ finished' = [finished EXCEPT ![r] = Over]
      /\ UNCHANGED <<made, items, mu, recorder, marked, clientMu, lastDebug, got>>
  BY DEF StartDebug, recorderVars, clientVars, Over
<1>2. /\ stage'[r] = "working" /\ stage'[r] \in Stage
      /\ \A q \in Request : q # r => stage'[q] = stage[q]
  BY <1>1 DEF IInv, TypeOK, Stage
<1>3. /\ pc' = [pc EXCEPT ![r] = pc'[r]]
      /\ \A w \in Worker : pc'[r][w] = IF w \in Workers(r) THEN "work" ELSE "none"
      /\ pc'[r] \in [Worker -> {"none", "work", "record", "list", "done"}]
  BY <1>1 DEF IInv, TypeOK
<1>4. /\ finished' \in [Request -> SUBSET Request] /\ finished'[r] = Over
      /\ \A q \in Request : q # r => finished'[q] = finished[q]
  BY <1>1 DEF IInv, TypeOK, Over
<1>5. RequestInv(r) /\ \A w \in Worker : pc[r][w] = "none"
  BY <1>1 DEF IInv, RequestInv, WorkInv
<1>6. ASSUME NEW u \in CallType
      PROVE  CallsMade(r, u)' = CallsMade(r, u) /\ Recorded(r, u)' = Recorded(r, u)
  <2>1. \A w \in Worker : RecordedBy(r, w)' = RecordedBy(r, w)
    BY <1>1, <1>3, <1>5 DEF RecordedBy
  <2>2. QED
    BY <1>1, <2>1, SameCalls
<1>7. \A w \in Worker : items[r][w] = Nil
  BY <1>5 DEF RequestInv, ItemInv
<1>8. RequestInv(r)'
  <2>1. LockInv(r)' /\ AnnotateInv(r)'
    BY <1>1, <1>2, <1>3, <1>5 DEF RequestInv, LockInv, AnnotateInv
  <2>2. WorkInv(r)'
    <3>1. Workers(r)' = Workers(r)
      BY DEF Workers
    <3>2. QED
      BY <1>1, <1>2, <1>3, <1>5, <3>1 DEF RequestInv, WorkInv
  <2>3. CountInv(r)' /\ ItemInv(r)'
    BY <1>1, <1>5, <1>6, <1>7 DEF RequestInv, CountInv, ItemInv, Agrees
  <2>4. QED
    BY <2>1, <2>2, <2>3 DEF RequestInv
<1>9. ReportInv'
  <2>1. Over' = Over /\ r \notin Over
    BY <1>1, <1>2 DEF Over
  <2>2. \A q \in Request, u \in CallType : MadeBy(q, u)' = MadeBy(q, u)
    BY <1>1 DEF MadeBy, CallsMade
  <2>3. \A q \in Request : stage'[q] \in {"marked", "locked"} => q \in marked'
    BY <1>1, <1>2 DEF IInv, ReportInv
  <2>4. lastDebug # Nil =>
          /\ lastDebug.request \in Request
          /\ Agrees(lastDebug.counters, 0)' = Agrees(lastDebug.counters, 0)
    BY <1>1 DEF IInv, ReportInv, Over, Agrees
  <2>5. \A q \in Request : finished'[q] \subseteq Over \ {q}
    BY <1>4, <2>1 DEF IInv, ReportInv
  <2>6. \A q \in Over : lastDebug # Nil /\ lastDebug.request \notin finished'[q]
    BY <1>4, <2>1 DEF IInv, ReportInv, Over
  <2>7. \A q \in Request : stage'[q] = "read" =>
          got[q] # Nil /\ got[q].request \in Over \ finished'[q]
    BY <1>2, <1>4 DEF IInv, ReportInv
  <2>8. QED
    BY <1>1, <2>1, <2>2, <2>3, <2>4, <2>5, <2>6, <2>7 DEF IInv, ReportInv
<1>10. CallsFor(r)
  BY <1>1, <1>2, <1>3 DEF CallsFor, IInv, TypeOK
<1>11. ClientTypes'
  BY <1>1, <1>2, <1>4 DEF ClientTypes, IInv, TypeOK
<1>12. QED
  BY <1>8, <1>9, <1>10, <1>11, CallFrame

\* One key more; with the last one the request goes on to finishDebug.
LEMMA AnnotateStep ==
  ASSUME IInv, NEW r \in Request, Annotate(r)
  PROVE  IInv'
<1>1. PICK key \in Key : recorder' = [recorder EXCEPT ![r].annotations = @ \cup {key}]
  BY DEF Annotate
<1>2. /\ stage[r] = "annotate" /\ mu[r] = Nil
      /\ stage' = [stage EXCEPT ![r] =
                     IF recorder'[r].annotations = Key THEN "finish" ELSE "annotate"]
      /\ UNCHANGED <<pc, made, items, mu, marked, clientMu, lastDebug, got, finished>>
  BY DEF Annotate, workVars, clientVars
<1>3. /\ stage'[r] = (IF recorder'[r].annotations = Key THEN "finish" ELSE "annotate")
      /\ stage'[r] \in Stage
      /\ \A q \in Request : q # r => stage'[q] = stage[q]
  BY <1>2 DEF IInv, TypeOK, Stage
<1>4. recorder[r] \in Counters
  BY DEF IInv, TypeOK
<1>5. /\ recorder' = [recorder EXCEPT ![r] = recorder'[r]] /\ recorder'[r] \in Counters
      /\ recorder'[r].total = recorder[r].total
      /\ recorder'[r].byType = recorder[r].byType
      /\ recorder'[r].calls = recorder[r].calls
      /\ \A q \in Request : q # r => recorder'[q] = recorder[q]
  <2> DEFINE new == [recorder[r] EXCEPT !.annotations = @ \cup {key}]
  <2>1. /\ new \in Counters
        /\ new.total = recorder[r].total
        /\ new.byType = recorder[r].byType
        /\ new.calls = recorder[r].calls
    <3>1. recorder[r].annotations \cup {key} \subseteq Key
      BY <1>4 DEF Counters
    <3>2. QED
      BY <1>4, <3>1 DEF Counters
  <2>2. recorder' = [recorder EXCEPT ![r] = new]
    BY <1>1
  <2>3. recorder \in [Request -> Counters]
    BY DEF IInv, TypeOK
  <2> HIDE DEF new
  <2>4. QED
    BY <2>1, <2>2, <2>3
<1>6. RequestInv(r) /\ r \in Bulk
  BY <1>2 DEF IInv, RequestInv, WorkInv
<1>7. \A w \in Worker : pc[r][w] \in {"none", "done"}
  BY <1>2, Joined
<1>8. ASSUME NEW u \in CallType
      PROVE  CallsMade(r, u)' = CallsMade(r, u) /\ Recorded(r, u)' = Recorded(r, u)
  BY <1>2, SameCalls DEF RecordedBy
<1>9. RequestInv(r)'
  <2>1. LockInv(r)' /\ AnnotateInv(r)'
    BY <1>2, <1>3, <1>6 DEF RequestInv, LockInv, AnnotateInv
  <2>2. WorkInv(r)'
    <3>1. Workers(r)' = Workers(r)
      BY DEF Workers
    <3>2. QED
      BY <1>2, <1>3, <1>6, <1>7, <3>1 DEF RequestInv, WorkInv
  <2>3. CountInv(r)'
    BY <1>2, <1>5, <1>6, <1>8 DEF RequestInv, CountInv, Agrees
  <2>4. ItemInv(r)'
    BY <1>2, <1>6, <1>8 DEF RequestInv, ItemInv, MadeBy, Agrees
  <2>5. QED
    BY <2>1, <2>2, <2>3, <2>4 DEF RequestInv
<1>10. ReportInv'
  <2>1. Over' = Over
    BY <1>2, <1>3 DEF Over
  <2>2. QED
    BY <1>2, <1>3, <2>1, ReportFrame DEF IInv, ReportInv
<1>11. CallsFor(r)
  BY <1>2, <1>3, <1>5 DEF CallsFor, IInv, TypeOK
<1>12. ClientTypes'
  BY <1>2, <1>3 DEF ClientTypes, IInv, TypeOK
<1>13. QED
  BY <1>9, <1>10, <1>11, <1>12, CallFrame

\* The goroutines have ended, so the stored report holds all calls; the request
\* was not over, so its report is not an old one to anybody.
LEMMA StoreStep ==
  ASSUME IInv, NEW r \in Request, StoreReport(r)
  PROVE  IInv'
<1>1. /\ stage[r] = "locked" /\ mu[r] = Nil
      /\ lastDebug' = SnapshotMap(r) /\ clientMu' = Nil
      /\ stage' = [stage EXCEPT ![r] = "returned"]
      /\ UNCHANGED <<pc, made, items, mu, recorder, marked, got, finished>>
  BY DEF StoreReport, workVars, recorderVars
<1>2. /\ stage'[r] = "returned" /\ stage'[r] \in Stage
      /\ \A q \in Request : q # r => stage'[q] = stage[q]
  BY <1>1 DEF IInv, TypeOK, Stage
<1>3. RequestInv(r) /\ \A w \in Worker : pc[r][w] \in {"none", "done"}
  BY <1>1, Joined DEF IInv
<1>4. r \in Bulk => recorder[r].annotations = Key
  BY <1>1, <1>3 DEF RequestInv, AnnotateInv
<1>5. RequestInv(r)'
  BY <1>1, <1>2, <1>3, <1>4, StageFrame
<1>6. /\ lastDebug' \in Report /\ lastDebug' # Nil
      /\ lastDebug'.request = r /\ lastDebug'.counters = recorder[r]
      /\ lastDebug'.done = (r \in marked)
  BY <1>1, SnapshotIsReport DEF IInv
<1>7. r \in marked
  BY <1>1 DEF IInv, ReportInv
<1>8. ASSUME NEW u \in CallType PROVE recorder[r].byType[u] = MadeBy(r, u)'
  <2>1. recorder[r].byType[u] = Cardinality(Recorded(r, u))
    BY <1>3 DEF RequestInv, CountInv
  <2>2. CallsMade(r, u)' = CallsMade(r, u)
    BY <1>1 DEF CallsMade
  <2>3. Recorded(r, u) = CallsMade(r, u)
    BY <1>3 DEF Recorded, CallsMade, RecordedBy
  <2>4. QED
    BY <2>1, <2>2, <2>3 DEF MadeBy
<1>9. Agrees(recorder[r], 0)' /\ Agrees(recorder[r], 0)
  BY <1>1, <1>3 DEF RequestInv, CountInv, Agrees
<1>10. Over' = Over \cup {r} /\ r \notin Over
  BY <1>1, <1>2 DEF Over
<1>11. ReportInv'
  <2>1. \A q \in Request : stage'[q] \in {"marked", "locked"} => q \in marked'
    BY <1>1, <1>2 DEF IInv, ReportInv
  <2>2. recorder[r].annotations = IF r \in Bulk THEN Key ELSE {}
    BY <1>3, <1>4 DEF RequestInv, AnnotateInv
  <2>3. \A q \in Request : finished[q] \subseteq Over \ {q}
    BY DEF IInv, ReportInv
  <2>4. \A q \in Request : r \notin finished[q]
    BY <1>10, <2>3
  <2>5. \A q \in Request : finished'[q] \subseteq Over' \ {q}
    BY <1>1, <1>10, <2>3
  <2>6. \A q \in Over' : lastDebug' # Nil /\ lastDebug'.request \notin finished'[q]
    BY <1>1, <1>6, <2>4 DEF Over
  <2>7. \A q \in Request : stage'[q] = "read" =>
          got'[q] # Nil /\ got'[q].request \in Over' \ finished'[q]
    BY <1>1, <1>2, <1>10 DEF IInv, ReportInv
  <2>8. Agrees(lastDebug'.counters, 0)
    BY <1>6, <1>9
  <2>9. /\ lastDebug'.request \in Over' /\ lastDebug'.done
        /\ \A u \in CallType : lastDebug'.counters.byType[u] = MadeBy(r, u)'
        /\ lastDebug'.counters.annotations = IF r \in Bulk THEN Key ELSE {}
    BY <1>6, <1>7, <1>8, <1>10, <2>2
  <2>10. QED
    BY <1>6, <2>1, <2>5, <2>6, <2>7, <2>8, <2>9 DEF ReportInv, Agrees
<1>12. CallsFor(r)
  BY <1>1, <1>2 DEF CallsFor, IInv, TypeOK
<1>13. ClientTypes'
  BY <1>1, <1>2, <1>6 DEF ClientTypes, IInv, TypeOK
<1>14. QED
  BY <1>5, <1>11, <1>12, <1>13, CallFrame

\* The caller is given a report that is not of a request it came after.
LEMMA ReadStep ==
  ASSUME IInv, NEW r \in Request, LastRequestDebug(r)
  PROVE  IInv'
<1>1. /\ stage[r] = "returned" /\ clientMu = Nil
      /\ got' = [got EXCEPT ![r] = lastDebug]
      /\ stage' = [stage EXCEPT ![r] = "read"]
      /\ UNCHANGED <<pc, made, items, mu, recorder, marked, clientMu, lastDebug, finished>>
  BY DEF LastRequestDebug, workVars, recorderVars, clientVars
<1>2. /\ stage'[r] = "read" /\ stage'[r] \in Stage
      /\ \A q \in Request : q # r => stage'[q] = stage[q]
  BY <1>1 DEF IInv, TypeOK, Stage
<1>3. /\ got' \in [Request -> Report \cup {Nil}] /\ got'[r] = lastDebug
      /\ \A q \in Request : q # r => got'[q] = got[q]
  BY <1>1 DEF IInv, TypeOK
<1>4. \A w \in Worker : pc[r][w] \in {"none", "done"}
  BY <1>1, Joined
<1>5. RequestInv(r)'
  <2>1. r \in Bulk => recorder[r].annotations = Key
    BY <1>1 DEF IInv, RequestInv, AnnotateInv
  <2>2. QED
    BY <1>1, <1>2, <1>4, <2>1, StageFrame
<1>6. ReportInv'
  <2>1. Over' = Over /\ r \in Over
    BY <1>1, <1>2 DEF Over
  <2>2. \A q \in Request, u \in CallType : MadeBy(q, u)' = MadeBy(q, u)
    BY <1>1 DEF MadeBy, CallsMade
  <2>3. \A q \in Request : stage'[q] \in {"marked", "locked"} => q \in marked'
    BY <1>1, <1>2 DEF IInv, ReportInv
  <2>4. lastDebug # Nil =>
          /\ lastDebug.request \in Request
          /\ Agrees(lastDebug.counters, 0)' = Agrees(lastDebug.counters, 0)
    BY <1>1 DEF IInv, ReportInv, Over, Agrees
  <2>5. \A q \in Request : stage'[q] = "read" =>
          got'[q] # Nil /\ got'[q].request \in Over \ finished[q]
    BY <1>2, <1>3, <2>1 DEF IInv, ReportInv, Over
  <2>6. QED
    BY <1>1, <2>1, <2>2, <2>3, <2>4, <2>5 DEF IInv, ReportInv
<1>7. CallsFor(r)
  BY <1>1, <1>2 DEF CallsFor, IInv, TypeOK
<1>8. ClientTypes'
  BY <1>1, <1>2, <1>3 DEF ClientTypes, IInv, TypeOK
<1>9. QED
  BY <1>5, <1>6, <1>7, <1>8, CallFrame

LEMMA StutterStep ==
  ASSUME IInv, UNCHANGED vars
  PROVE  IInv'
<1> USE DEF vars, workVars, recorderVars, clientVars
<1>1. ASSUME NEW r \in Request PROVE RequestInv(r)'
  BY RequestFrame DEF RequestState, IInv
<1>2. TypeOK'
  BY DEF IInv, TypeOK
<1>3. ReportInv'
  <2>1. Over' = Over
    BY DEF Over
  <2>2. QED
    BY <2>1, ReportFrame DEF IInv, ReportInv
<1>4. QED
  BY <1>1, <1>2, <1>3 DEF IInv

LEMMA NextIInv == IInv /\ [Next]_vars => IInv'
<1> SUFFICES ASSUME IInv, [Next]_vars PROVE IInv'
  OBVIOUS
<1>1. ASSUME NEW r \in Request, Call(r) PROVE IInv'
  BY <1>1, StartStep, JoinStep, AnnotateStep, MarkStep, LockStep, StoreStep, ReadStep
     DEF Call
<1>2. ASSUME NEW r \in Request, NEW w \in Worker, Work(r, w) PROVE IInv'
  BY <1>2, CallStep, CountStep, ListStep, AttachStep, FailItemStep DEF Work
<1>3. CASE Finished \/ UNCHANGED vars
  BY <1>3, StutterStep DEF Finished
<1>4. QED
  BY <1>1, <1>2, <1>3 DEF Next

THEOREM Invariance == Spec => []IInv
<1>1. QED
  BY InitIInv, NextIInv, PTL DEF Spec
----------------------------------------------------------------------------
(* The properties.                                                         *)

\* Types; a mutex is held only by a goroutine that is inside it, and the client's
\* lock only by a request that is inside it (debug.go, client.go).
THEOREM TypeCorrect == Spec => []TypeOK
<1>1. IInv => TypeOK
  BY DEF IInv
<1>2. QED
  BY <1>1, Invariance, PTL

\* Every snapshot that leaves a recorder adds up: total, counts by type and list
\* of calls agree, whatever the other goroutines are recording (RecordRPC, Snapshot).
THEOREM SnapshotsAddUp == Spec => []SnapshotConsistent
<1>1. IInv => SnapshotConsistent
  <2> SUFFICES ASSUME IInv PROVE SnapshotConsistent
    OBVIOUS
  <2>1. ASSUME NEW s \in Snapshots PROVE Agrees(s.counters, 0)
    BY DEF Snapshots, IInv, ReportInv, RequestInv, ItemInv
  <2>2. ASSUME NEW s \in Snapshots PROVE s.counters.total = Len(s.counters.calls)
    <3>1. s \in Report
      BY DEF Snapshots, IInv, TypeOK
    <3>2. Len(s.counters.calls) \in Nat
      BY <3>1 DEF Report, Counters
    <3>3. QED
      BY <2>1, <3>2 DEF Agrees
  <2>3. QED
    BY <2>1, <2>2 DEF SnapshotConsistent, Agrees, IInv
<1>2. QED
  BY <1>1, Invariance, PTL

\* The snapshot in an item's metrics holds every call made for the item and only
\* calls of its request (attachRequestDebug, called when the item is computed).
THEOREM ItemsCoverOwnCalls == Spec => []ItemCoversOwnCalls
<1>1. IInv => ItemCoversOwnCalls
  BY DEF IInv, RequestInv, ItemInv, ItemCoversOwnCalls
<1>2. QED
  BY <1>1, Invariance, PTL

\* The stored report is done, holds all calls of one request, and the annotations
\* of a bulk (finishDebug runs deferred, when the workers are joined).
THEOREM ReportsAreComplete == Spec => []ReportComplete
<1>1. IInv => ReportComplete
  BY DEF IInv, ReportInv, ReportComplete
<1>2. QED
  BY <1>1, Invariance, PTL

\* A caller never reads the report of a request that was over before its own
\* began, and alone on the client reads its own (finishDebug, LastRequestDebug).
THEOREM ReportsAreFresh == Spec => []FreshReport
<1>1. IInv => FreshReport
  <2> SUFFICES ASSUME IInv, NEW r \in Request, stage[r] = "read"
               PROVE  /\ got[r] # Nil
                      /\ got[r].request \notin finished[r]
                      /\ (\A q \in Request \ {r} : q \in finished[r] \/ stage[q] = "idle")
                           => got[r].request = r
    BY DEF FreshReport
  <2>1. got[r] # Nil /\ got[r].request \in Over \ finished[r]
    BY DEF IInv, ReportInv
  <2>2. QED
    BY <2>1 DEF Over
<1>2. QED
  BY <1>1, Invariance, PTL
=============================================================================
