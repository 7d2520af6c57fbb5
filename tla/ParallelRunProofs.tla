------------------------- MODULE ParallelRunProofs --------------------------
(***************************************************************************)
(* Theorems about ParallelRun for every number of tasks.                   *)
(*                                                                         *)
(* The argument: the channel holds one entry per task that has got past    *)
(* its push, so it is never full and no error is dropped.  The context is  *)
(* done only after the caller's, after a first error is in the channel, or *)
(* after Run has returned; so the entry at the head of the channel, put    *)
(* there before the first cancellation, is a cause and not an effect.      *)
(***************************************************************************)
EXTENDS ParallelRun, FiniteSetTheorems, TLAPS

Live == {t \in Task : pc[t] \in {"run", "push", "cancel", "exit"}}
Pushed == {t \in Task : err[t] # Nil /\ pc[t] # "push"}

\* A task that has not failed holds no error, one that is reporting does.
ErrInv ==
  \A t \in Task :
    /\ pc[t] \in {"none", "run"} => err[t] = Nil
    /\ pc[t] \in {"push", "cancel"} => err[t] # Nil

\* The goroutines are those of the non-nil tasks the loop has passed.
SpawnInv ==
  \A t \in Task : pc[t] = "none" <=> (t >= next \/ t \in nilTask)

\* Whatever a done context did to a task, its caller or an error came first.
CauseInv ==
  /\ ctx => parent \/ errCh # <<>> \/ result # Nil
  /\ \A t \in Task :
       (err[t] = CtxErr \/ degraded[t] = "ctx") => parent \/ errCh # <<>>
  /\ (errCh # <<>> /\ Head(errCh) = CtxErr) => parent

ResultInv ==
  /\ result # Nil => wg = 0 /\ next > N
  /\ result = Ok => errCh = <<>>
  /\ (result # Nil /\ result # Ok) => errCh # <<>> /\ result = Head(errCh)

IInv ==
  /\ TypeOK
  /\ wg = Cardinality(Live)
  /\ Len(errCh) = Cardinality(Pushed)
  /\ ErrInv
  /\ SpawnInv
  /\ CauseInv
  /\ ResultInv
----------------------------------------------------------------------------
\* Counting tasks: the counts move by one with the set, and stay within N.
LEMMA TasksCount ==
  ASSUME NEW S \in SUBSET Task, NEW t \in Task
  PROVE  /\ Cardinality(S) \in Nat
         /\ Cardinality(S) = 0 <=> S = {}
         /\ t \notin S => /\ Cardinality(S \cup {t}) = Cardinality(S) + 1
                          /\ Cardinality(S) < N
         /\ t \in S => Cardinality(S \ {t}) = Cardinality(S) - 1
<1>1. IsFiniteSet(Task) /\ Cardinality(Task) = N
  BY NAssumption, FS_Interval DEF Task
<1>2. IsFiniteSet(S)
  BY <1>1, FS_Subset
<1>3. t \notin S => Cardinality(S) < N
  <2> SUFFICES ASSUME t \notin S PROVE Cardinality(S) < N
    OBVIOUS
  <2>1. S \cup {t} \in SUBSET Task
    OBVIOUS
  <2>2. Cardinality(S \cup {t}) <= N
    BY <1>1, <2>1, FS_Subset
  <2>3. Cardinality(S \cup {t}) = Cardinality(S) + 1 /\ Cardinality(S) \in Nat
    BY <1>2, FS_AddElement, FS_CardinalityType
  <2>4. QED
    BY <2>2, <2>3, NAssumption
<1>4. QED
  BY <1>2, <1>3, FS_CardinalityType, FS_EmptySet, FS_AddElement, FS_RemoveElement

\* A count of zero tasks means that there are none.
LEMMA NoTasks ==
  ASSUME NEW S \in SUBSET Task, Cardinality(S) = 0
  PROVE  S = {}
<1>1. IsFiniteSet(Task)
  BY NAssumption, FS_Interval DEF Task
<1>2. IsFiniteSet(S)
  BY <1>1, FS_Subset
<1>3. QED
  BY <1>2, FS_EmptySet

\* Base case: a Run that has just been called satisfies the invariant.
LEMMA InitIInv == Init => IInv
<1> SUFFICES ASSUME Init PROVE IInv
  OBVIOUS
<1>1. TypeOK
  BY NAssumption DEF Init, TypeOK, Error
<1>2. Live = {} /\ Pushed = {}
  BY DEF Init, Live, Pushed
<1>3. wg = Cardinality(Live) /\ Len(errCh) = Cardinality(Pushed)
  BY <1>2, FS_EmptySet DEF Init
<1>4. ErrInv /\ SpawnInv
  <2>1. \A t \in Task : t >= 1
    BY NAssumption DEF Task
  <2>2. QED
    BY <2>1 DEF Init, ErrInv, SpawnInv
<1>5. CauseInv /\ ResultInv
  BY ErrorAssumption DEF Init, CauseInv, ResultInv
<1>6. QED
  BY <1>1, <1>3, <1>4, <1>5 DEF IInv

\* While Run has goroutines or tasks to start, it has not returned.
LEMMA NotReturned ==
  ASSUME IInv, NEW t \in Task, pc[t] \in {"run", "push", "cancel", "exit"}
  PROVE  result = Nil
<1>1. t \in Live
  BY DEF Live
<1>2. wg # 0
  BY <1>1, TasksCount DEF IInv, Live
<1>3. QED
  BY <1>2 DEF IInv, ResultInv

\* The loop starts a task that has no goroutine yet.
LEMMA SpawnTarget ==
  ASSUME IInv, Spawn
  PROVE  next \in Task /\ pc[next] = "none"
BY NAssumption DEF IInv, Spawn, SpawnInv, TypeOK, Task

\* No step of Run or of a task leaves the types.
LEMMA TypeStep ==
  ASSUME IInv, [Next]_vars
  PROVE  TypeOK'
<1> USE DEF IInv
<1>1. CASE Spawn
  BY <1>1, NAssumption DEF Spawn, TypeOK, env, Task, Error
<1>2. ASSUME NEW t \in Task, Succeed(t) PROVE TypeOK'
  BY <1>2 DEF Succeed, TypeOK, env
<1>3. ASSUME NEW t \in Task, Fail(t) PROVE TypeOK'
  BY <1>3 DEF Fail, TypeOK, env, Error
<1>4. ASSUME NEW t \in Task, Push(t) PROVE TypeOK'
  <2>1. err[t] \in Error
    <3>1. pc[t] = "push" /\ err[t] \in Error \cup {Nil}
      BY <1>4 DEF Push, TypeOK
    <3>2. QED
      BY <3>1 DEF ErrInv
  <2>2. errCh' \in Seq(Error)
    BY <1>4, <2>1 DEF Push, TypeOK
  <2>3. QED
    BY <1>4, <2>2 DEF Push, TypeOK, env
<1>5. ASSUME NEW t \in Task, Cancel(t) PROVE TypeOK'
  BY <1>5 DEF Cancel, TypeOK, env
<1>6. ASSUME NEW t \in Task, Exit(t) PROVE TypeOK'
  <2>1. t \in Live /\ Live \in SUBSET Task
    BY <1>6 DEF Exit, Live
  <2>2. Cardinality(Live \ {t}) = wg - 1 /\ Cardinality(Live \ {t}) \in Nat
    BY <2>1, TasksCount
  <2>3. wg' \in Nat
    BY <1>6, <2>2 DEF Exit
  <2>4. QED
    BY <1>6, <2>3 DEF Exit, TypeOK, env
<1>7. CASE Return
  <2>1. errCh # <<>> => Head(errCh) \in Error
    BY DEF TypeOK
  <2>2. QED
    BY <1>7, <2>1 DEF Return, TypeOK, env
<1>8. CASE ParentDone
  BY <1>8 DEF ParentDone, TypeOK
<1>9. CASE Returned \/ UNCHANGED vars
  BY <1>9 DEF Returned, vars, env, TypeOK
<1>10. QED
  BY <1>1, <1>2, <1>3, <1>4, <1>5, <1>6, <1>7, <1>8, <1>9 DEF Next, Goroutine

----------------------------------------------------------------------------
\* The WaitGroup counts the goroutines of the tasks.
LEMMA WgStep ==
  ASSUME IInv, [Next]_vars
  PROVE  wg' = Cardinality(Live)'
<1> USE DEF IInv
<1>1. CASE Spawn
  <2>1. CASE next \in nilTask
    BY <1>1, <2>1 DEF Spawn, Live
  <2>2. CASE next \notin nilTask
    <3>1. next \in Task /\ pc[next] = "none"
      BY <1>1, SpawnTarget
    <3>2. Live' = Live \cup {next} /\ next \notin Live
      BY <1>1, <2>2, <3>1 DEF Spawn, Live, TypeOK
    <3>3. QED
      BY <1>1, <2>2, <3>1, <3>2, TasksCount DEF Spawn, Live
  <2>3. QED
    BY <2>1, <2>2
<1>2. ASSUME NEW t \in Task, Succeed(t) \/ Fail(t) \/ Push(t) \/ Cancel(t)
      PROVE  wg' = Cardinality(Live)'
  <2>1. /\ pc[t] \in {"run", "push", "cancel"}
        /\ \E q \in {"push", "cancel", "exit"} : pc' = [pc EXCEPT ![t] = q]
        /\ wg' = wg
    BY <1>2 DEF Succeed, Fail, Push, Cancel
  <2>2. Live' = Live
    BY <2>1 DEF Live, TypeOK
  <2>3. QED
    BY <2>1, <2>2
<1>3. ASSUME NEW t \in Task, Exit(t) PROVE wg' = Cardinality(Live)'
  <2>1. Live' = Live \ {t} /\ t \in Live /\ Live \in SUBSET Task
    BY <1>3 DEF Exit, Live, TypeOK
  <2>2. QED
    BY <1>3, <2>1, TasksCount DEF Exit
<1>4. CASE Return \/ ParentDone \/ Returned \/ UNCHANGED vars
  BY <1>4 DEF Return, ParentDone, Returned, vars, Live
<1>5. QED
  BY <1>1, <1>2, <1>3, <1>4 DEF Next, Goroutine

\* The channel holds one error per task past its push: it is never full.
LEMMA ChannelStep ==
  ASSUME IInv, [Next]_vars
  PROVE  /\ Len(errCh') = Cardinality(Pushed)'
         /\ \A t \in Task : Push(t) => errCh' = Append(errCh, err[t])
<1> USE DEF IInv
<1>1. ASSUME NEW t \in Task, Push(t)
      PROVE  /\ errCh' = Append(errCh, err[t])
             /\ Len(errCh') = Cardinality(Pushed)'
  <2>1. pc[t] = "push" /\ err' = err
    BY <1>1 DEF Push
  <2>2. Pushed' = Pushed \cup {t} /\ t \notin Pushed /\ Pushed \in SUBSET Task
    BY <1>1, <2>1 DEF Push, Pushed, ErrInv, TypeOK
  <2>3. Len(errCh) < N /\ Cardinality(Pushed') = Cardinality(Pushed) + 1
    BY <2>2, TasksCount
  <2>4. errCh' = Append(errCh, err[t])
    BY <1>1, <2>3 DEF Push
  <2>5. err[t] \in Error /\ errCh \in Seq(Error)
    BY <2>1 DEF ErrInv, TypeOK
  <2>6. QED
    BY <2>3, <2>4, <2>5
<1>2. CASE \A t \in Task : ~Push(t)
  <2>1. errCh' = errCh
    BY <1>2 DEF Next, Goroutine, Spawn, Succeed, Fail, Cancel, Exit, Return,
       ParentDone, Returned, vars
  <2>2. Pushed' = Pushed
    <3>1. CASE Spawn
      BY <3>1, SpawnTarget DEF Spawn, Pushed, TypeOK
    <3>2. ASSUME NEW t \in Task, Succeed(t) \/ Cancel(t) \/ Exit(t)
          PROVE  Pushed' = Pushed
      BY <3>2 DEF Succeed, Cancel, Exit, Pushed, TypeOK
    <3>3. ASSUME NEW t \in Task, Fail(t) PROVE Pushed' = Pushed
      BY <3>3 DEF Fail, Pushed, ErrInv, TypeOK
    <3>4. CASE Return \/ ParentDone \/ Returned \/ UNCHANGED vars
      BY <3>4 DEF Return, ParentDone, Returned, vars, Pushed
    <3>5. QED
      BY <1>2, <3>1, <3>2, <3>3, <3>4 DEF Next, Goroutine
  <2>3. QED
    BY <1>2, <2>1, <2>2
<1>3. QED
  BY <1>1, <1>2

\* A task holds an error from its failure to its exit and at no other time.
LEMMA ErrStep ==
  ASSUME IInv, [Next]_vars
  PROVE  ErrInv'
<1> USE DEF IInv
<1>1. CASE Spawn
  BY <1>1, SpawnTarget DEF Spawn, ErrInv, TypeOK
<1>2. ASSUME NEW t \in Task, Fail(t) PROVE ErrInv'
  <2>1. PICK e \in {t, CtxErr} : err' = [err EXCEPT ![t] = e]
    BY <1>2 DEF Fail
  <2>2. t \in Int
    BY NAssumption DEF Task
  <2>3. e # Nil
    BY <2>1, <2>2, ErrorAssumption
  <2>4. pc' = [pc EXCEPT ![t] = "push"]
    BY <1>2 DEF Fail
  <2>5. QED
    BY <2>1, <2>3, <2>4 DEF ErrInv, TypeOK
<1>3. ASSUME NEW t \in Task, Succeed(t) \/ Push(t) \/ Cancel(t) \/ Exit(t)
      PROVE  ErrInv'
  BY <1>3 DEF Succeed, Push, Cancel, Exit, ErrInv, TypeOK
<1>4. CASE Return \/ ParentDone \/ Returned \/ UNCHANGED vars
  BY <1>4 DEF Return, ParentDone, Returned, vars, ErrInv
<1>5. QED
  BY <1>1, <1>2, <1>3, <1>4 DEF Next, Goroutine

\* The loop passes every task once and starts those that are not nil.
LEMMA SpawnStep ==
  ASSUME IInv, [Next]_vars
  PROVE  SpawnInv'
<1> USE DEF IInv
<1>1. CASE Spawn
  BY <1>1, NAssumption DEF Spawn, SpawnInv, TypeOK, Task, env
<1>2. ASSUME NEW t \in Task, Goroutine(t) PROVE SpawnInv'
  BY <1>2 DEF Goroutine, Succeed, Fail, Push, Cancel, Exit, SpawnInv, TypeOK, env
<1>3. CASE Return \/ ParentDone \/ Returned \/ UNCHANGED vars
  BY <1>3 DEF Return, ParentDone, Returned, vars, env, SpawnInv
<1>4. QED
  BY <1>1, <1>2, <1>3 DEF Next

\* An error that comes from a done context is never the first one in the
\* channel, unless the caller's own context is done.
LEMMA CauseStep ==
  ASSUME IInv, [Next]_vars
  PROVE  CauseInv'
<1> USE DEF IInv
<1>1. CASE Spawn \/ Returned \/ UNCHANGED vars
  BY <1>1 DEF Spawn, Returned, vars, env, CauseInv
<1>2. ASSUME NEW t \in Task, Succeed(t) PROVE CauseInv'
  <2>1. result = Nil
    BY <1>2, NotReturned DEF Succeed
  <2>2. PICK d \in {Nil, "rpc"} \cup (IF ctx THEN {"ctx"} ELSE {}) :
          degraded' = [degraded EXCEPT ![t] = d]
    BY <1>2 DEF Succeed
  <2>3. d = "ctx" => parent \/ errCh # <<>>
    BY <2>1, <2>2, ErrorAssumption DEF CauseInv
  <2>4. QED
    BY <1>2, <2>2, <2>3 DEF Succeed, env, CauseInv, TypeOK
<1>3. ASSUME NEW t \in Task, Fail(t) PROVE CauseInv'
  <2>1. result = Nil
    BY <1>3, NotReturned DEF Fail
  <2>2. PICK e \in {t} \cup (IF ctx THEN {CtxErr} ELSE {}) :
          err' = [err EXCEPT ![t] = e]
    BY <1>3 DEF Fail
  <2>3. e = CtxErr => parent \/ errCh # <<>>
    BY <2>1, <2>2, ErrorAssumption DEF CauseInv, Task
  <2>4. QED
    BY <1>3, <2>2, <2>3 DEF Fail, env, CauseInv, TypeOK
<1>4. ASSUME NEW t \in Task, Push(t) PROVE CauseInv'
  <2>1. errCh' = Append(errCh, err[t]) /\ errCh \in Seq(Error)
    BY <1>4, ChannelStep DEF TypeOK
  <2>2. err[t] \in Error
    <3>1. pc[t] = "push" /\ err[t] \in Error \cup {Nil}
      BY <1>4 DEF Push, TypeOK
    <3>2. QED
      BY <3>1 DEF ErrInv
  <2>3. errCh' # <<>>
    BY <2>1, <2>2
  <2>4. CASE errCh = <<>>
    <3>1. Head(errCh') = err[t]
      BY <2>1, <2>2, <2>4
    <3>2. QED
      BY <1>4, <2>3, <2>4, <3>1 DEF Push, env, CauseInv
  <2>5. CASE errCh # <<>>
    <3>1. Head(errCh') = Head(errCh)
      BY <2>1, <2>2, <2>5
    <3>2. QED
      BY <1>4, <2>3, <2>5, <3>1 DEF Push, env, CauseInv
  <2>6. QED
    BY <2>4, <2>5
<1>5. ASSUME NEW t \in Task, Cancel(t) PROVE CauseInv'
  <2>1. t \in Pushed
    BY <1>5 DEF Cancel, Pushed, ErrInv
  <2>2. errCh # <<>>
    <3>1. Cardinality(Pushed) # 0
      BY <2>1, TasksCount DEF Pushed
    <3>2. QED
      BY <3>1
  <2>3. QED
    BY <1>5, <2>2 DEF Cancel, env, CauseInv
<1>6. ASSUME NEW t \in Task, Exit(t) PROVE CauseInv'
  BY <1>6 DEF Exit, env, CauseInv
<1>7. CASE Return
  <2>1. result' # Nil
    <3>1. errCh # <<>> => Head(errCh) \in Error
      BY DEF TypeOK
    <3>2. Nil \notin Error /\ Ok # Nil
      BY ErrorAssumption, NAssumption DEF Error, Task
    <3>3. QED
      BY <1>7, <3>1, <3>2 DEF Return
  <2>2. QED
    BY <1>7, <2>1 DEF Return, env, CauseInv
<1>8. CASE ParentDone
  BY <1>8 DEF ParentDone, CauseInv
<1>9. QED
  BY <1>1, <1>2, <1>3, <1>4, <1>5, <1>6, <1>7, <1>8 DEF Next, Goroutine

\* Run answers once, after wg.Wait, with the oldest error of the channel.
LEMMA ResultStep ==
  ASSUME IInv, [Next]_vars
  PROVE  ResultInv'
<1> USE DEF IInv
<1>1. CASE Spawn
  BY <1>1 DEF Spawn, ResultInv
<1>2. ASSUME NEW t \in Task, Goroutine(t) PROVE ResultInv'
  <2>1. result = Nil /\ result' = Nil
    BY <1>2, NotReturned DEF Goroutine, Succeed, Fail, Push, Cancel, Exit
  <2>2. QED
    BY <2>1, ErrorAssumption DEF ResultInv
<1>3. CASE Return
  <2>1. errCh # <<>> => Head(errCh) \in Error
    BY DEF TypeOK
  <2>2. Ok \notin Error
    BY ErrorAssumption, NAssumption DEF Error, Task
  <2>3. QED
    BY <1>3, <2>1, <2>2 DEF Return, ResultInv
<1>4. CASE ParentDone \/ Returned \/ UNCHANGED vars
  BY <1>4, ErrorAssumption DEF ParentDone, Returned, vars, ResultInv
<1>5. QED
  BY <1>1, <1>2, <1>3, <1>4 DEF Next

\* The inductive invariant holds in every state of every execution of Run.
THEOREM Invariance == Spec => []IInv
<1>1. Init => IInv
  BY InitIInv
<1>2. IInv /\ [Next]_vars => IInv'
  BY TypeStep, WgStep, ChannelStep, ErrStep, SpawnStep, CauseStep, ResultStep
     DEF IInv
<1>3. QED
  BY <1>1, <1>2, PTL DEF Spec

\* Every variable of Run keeps its type, for any number of tasks.
THEOREM TypeCorrect == Spec => []TypeOK
<1>1. IInv => TypeOK
  BY DEF IInv
<1>2. QED
  BY <1>1, Invariance, PTL

\* The error Run returns is a cause: the cancellation it sends to the other
\* tasks never overtakes it, for any number of tasks failing in any order.
THEOREM ErrorIsRootCause == Spec => []RootCause
<1>1. IInv => RootCause
  BY ErrorAssumption DEF IInv, ResultInv, CauseInv, RootCause
<1>2. QED
  BY <1>1, Invariance, PTL

\* Once Run has returned, every task that is not nil is done.
LEMMA NoGoroutineLeft ==
  ASSUME IInv, result # Nil, NEW t \in Task
  PROVE  pc[t] = IF t \in nilTask THEN "none" ELSE "done"
<1>1. pc[t] \in {"none", "done"}
  BY NotReturned DEF IInv, TypeOK
<1>2. ~(t >= next)
  BY NAssumption DEF IInv, ResultInv, TypeOK, Task
<1>3. QED
  BY <1>1, <1>2 DEF IInv, SpawnInv

\* Run returns with no task running, so the results the tasks left in the
\* calculator's variables are read without a race.
THEOREM RunJoins == Spec => []JoinedOnReturn
<1>1. IInv => JoinedOnReturn
  BY NoGoroutineLeft DEF JoinedOnReturn
<1>2. QED
  BY <1>1, Invariance, PTL

\* A success leaves no error behind, in the channel or on its way to it.
LEMMA NothingPending ==
  ASSUME IInv, result = Ok
  PROVE  errCh = <<>> /\ Pushed = {}
<1>1. errCh = <<>>
  BY ErrorAssumption DEF IInv, ResultInv
<1>2. Cardinality(Pushed) = 0
  BY <1>1 DEF IInv
<1>3. QED
  BY <1>1, <1>2, NoTasks DEF Pushed

\* A success means that no task failed: no goroutine holds an error back.
THEOREM NoErrorIsLost == Spec => []ErrorNotLost
<1>1. IInv => ErrorNotLost
  <2> SUFFICES ASSUME IInv, result = Ok, NEW t \in Task PROVE err[t] = Nil
    BY DEF ErrorNotLost
  <2>1. pc[t] # "push"
    BY NoGoroutineLeft, ErrorAssumption
  <2>2. QED
    BY <2>1, NothingPending DEF Pushed
<1>2. QED
  BY <1>1, Invariance, PTL

\* A success means that no task was degraded by a cancellation the caller had
\* no part in.
THEOREM SuccessIsSound == Spec => []SuccessIsWhole
<1>1. IInv => SuccessIsWhole
  BY NothingPending DEF IInv, CauseInv, SuccessIsWhole
<1>2. QED
  BY <1>1, Invariance, PTL
=============================================================================
