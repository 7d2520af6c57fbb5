---------------------------- MODULE ParallelRun -----------------------------
(***************************************************************************)
(* parallelx.Run as the pool calculators use it: tasks run concurrently    *)
(* under one derived context, the first one to fail cancels the others,    *)
(* and Run joins all of them before it reports an error.                   *)
(*                                                                         *)
(* A task of a calculator may hide a failure: ResolveFDVSupply turns every *)
(* error of its account read, a cancelled context among them, into the     *)
(* mint's total supply.  Such a task returns no error but its value is     *)
(* degraded, and the model remembers what degraded it.                     *)
(***************************************************************************)
EXTENDS Integers, Sequences

CONSTANTS
  N,       \* number of tasks passed to Run
  CtxErr,  \* error of a call made under a cancelled context
  Ok,      \* Run returned no error
  Nil      \* no error, no degradation, no result yet

Task == 1 .. N

ASSUME NAssumption == N \in Nat
ASSUME ErrorAssumption ==
  /\ {CtxErr, Ok, Nil} \cap Int = {}
  /\ CtxErr # Ok /\ CtxErr # Nil /\ Ok # Nil
  /\ Nil \notin {"rpc", "ctx"}

VARIABLES
  nilTask,   \* tasks passed as nil
  waits,     \* tasks that end only once their context does (an RPC that hangs)
  next,      \* loop variable over tasks
  parent,    \* whether the caller's context is done
  ctx,       \* whether the derived context is done
  wg,        \* counter of the WaitGroup
  pc,        \* where each task's goroutine stands
  err,       \* error a task returned: its own (its number) or CtxErr
  degraded,  \* what made a task fall back to a default: "rpc", "ctx" or Nil
  errCh,     \* the buffered error channel
  result     \* what Run returned: an error, or Ok

env == <<nilTask, waits, parent>>
vars == <<env, next, ctx, wg, pc, err, degraded, errCh, result>>
----------------------------------------------------------------------------
Init ==
  /\ nilTask \in SUBSET Task
  /\ waits \in SUBSET Task
  /\ next = 1
  /\ parent \in BOOLEAN
  /\ ctx = parent
  /\ wg = 0
  /\ pc = [t \in Task |-> "none"]
  /\ err = [t \in Task |-> Nil]
  /\ degraded = [t \in Task |-> Nil]
  /\ errCh = <<>>
  /\ result = Nil

\* One turn of the loop: nil tasks are skipped, the others become goroutines.
Spawn ==
  /\ next <= N
  /\ result = Nil
  /\ next' = next + 1
  /\ IF next \in nilTask
     THEN UNCHANGED <<wg, pc>>
     ELSE wg' = wg + 1 /\ pc' = [pc EXCEPT ![next] = "run"]
  /\ UNCHANGED <<env, ctx, err, degraded, errCh, result>>

\* The task comes back without an error.  With the context done, or an RPC
\* failing, it may have replaced what it could not read by a default.
Succeed(t) ==
  /\ pc[t] = "run"
  /\ t \in waits => ctx
  /\ \E d \in {Nil, "rpc"} \cup (IF ctx THEN {"ctx"} ELSE {}) :
       degraded' = [degraded EXCEPT ![t] = d]
  /\ pc' = [pc EXCEPT ![t] = "exit"]
  /\ UNCHANGED <<env, next, ctx, wg, err, errCh, result>>

\* Mutant: the context is cancelled before the error is put in the channel.
Fail_CancelFirst(t) ==
  /\ pc[t] = "run"
  /\ t \in waits => ctx
  /\ err' \in {[err EXCEPT ![t] = e] : e \in {t} \cup (IF ctx THEN {CtxErr} ELSE {})}
  /\ pc' = [pc EXCEPT ![t] = "push"]
  /\ ctx' = TRUE
  /\ UNCHANGED <<env, next, wg, degraded, errCh, result>>

\* The task comes back with an error: one of its own or, once the context is
\* done, that of the context.
Fail(t) ==
  /\ pc[t] = "run"
  /\ t \in waits => ctx
  /\ err' \in {[err EXCEPT ![t] = e] : e \in {t} \cup (IF ctx THEN {CtxErr} ELSE {})}
  /\ pc' = [pc EXCEPT ![t] = "push"]
  /\ UNCHANGED <<env, next, ctx, wg, degraded, errCh, result>>

\* Mutant: the channel has no buffer, so the default branch drops the error.
Push_Unbuffered(t) ==
  /\ pc[t] = "push"
  /\ pc' = [pc EXCEPT ![t] = "cancel"]
  /\ UNCHANGED <<env, next, ctx, wg, err, degraded, errCh, result>>

\* The error goes to the channel, or nowhere when the channel is full.
Push(t) ==
  /\ pc[t] = "push"
  /\ errCh' = IF Len(errCh) < N THEN Append(errCh, err[t]) ELSE errCh
  /\ pc' = [pc EXCEPT ![t] = "cancel"]
  /\ UNCHANGED <<env, next, ctx, wg, err, degraded, result>>

\* Mutant: a failed task does not cancel the shared context.
Cancel_Missing(t) ==
  /\ pc[t] = "cancel"
  /\ pc' = [pc EXCEPT ![t] = "exit"]
  /\ UNCHANGED <<env, next, ctx, wg, err, degraded, errCh, result>>

Cancel(t) ==
  /\ pc[t] = "cancel"
  /\ ctx' = TRUE
  /\ pc' = [pc EXCEPT ![t] = "exit"]
  /\ UNCHANGED <<env, next, wg, err, degraded, errCh, result>>

\* Mutant: cancel is deferred in the goroutine, so a success cancels as well.
Exit_Cancels(t) ==
  /\ pc[t] = "exit"
  /\ wg' = wg - 1
  /\ ctx' = TRUE
  /\ pc' = [pc EXCEPT ![t] = "done"]
  /\ UNCHANGED <<env, next, err, degraded, errCh, result>>

\* Mutant: wg.Done is called at the failure and deferred as well.
Exit_DoneTwice(t) ==
  /\ pc[t] = "exit"
  /\ wg' = IF err[t] = Nil THEN wg - 1 ELSE wg - 2
  /\ pc' = [pc EXCEPT ![t] = "done"]
  /\ UNCHANGED <<env, next, ctx, err, degraded, errCh, result>>

\* The deferred wg.Done.
Exit(t) ==
  /\ pc[t] = "exit"
  /\ wg' = wg - 1
  /\ pc' = [pc EXCEPT ![t] = "done"]
  /\ UNCHANGED <<env, next, ctx, err, degraded, errCh, result>>

\* Mutant: Run answers as soon as the channel holds an error.
Return_OnFirstError ==
  /\ next > N
  /\ result = Nil
  /\ wg = 0 \/ errCh # <<>>
  /\ result' = IF errCh = <<>> THEN Ok ELSE Head(errCh)
  /\ ctx' = TRUE
  /\ UNCHANGED <<env, next, wg, pc, err, degraded, errCh>>

\* wg.Wait, then the oldest error of the closed channel; the deferred cancel.
Return ==
  /\ next > N
  /\ result = Nil
  /\ wg = 0
  /\ result' = IF errCh = <<>> THEN Ok ELSE Head(errCh)
  /\ ctx' = TRUE
  /\ UNCHANGED <<env, next, wg, pc, err, degraded, errCh>>

\* The caller's context ends while Run works.
ParentDone ==
  /\ ~parent
  /\ result = Nil
  /\ parent' = TRUE
  /\ ctx' = TRUE
  /\ UNCHANGED <<nilTask, waits, next, wg, pc, err, degraded, errCh, result>>

Returned == result # Nil /\ UNCHANGED vars

Goroutine(t) == Succeed(t) \/ Fail(t) \/ Push(t) \/ Cancel(t) \/ Exit(t)

Next ==
  \/ Spawn
  \/ \E t \in Task : Goroutine(t)
  \/ Return
  \/ ParentDone
  \/ Returned

Fairness ==
  /\ WF_vars(Spawn)
  /\ WF_vars(Return)
  /\ \A t \in Task : WF_vars(Goroutine(t))

Spec == Init /\ [][Next]_vars /\ Fairness
----------------------------------------------------------------------------
(* Properties.                                                             *)

Error == Task \cup {CtxErr}

\* Every variable of Run keeps its type.
TypeOK ==
  /\ nilTask \subseteq Task /\ waits \subseteq Task
  /\ next \in 1 .. N + 1
  /\ parent \in BOOLEAN /\ ctx \in BOOLEAN
  /\ wg \in Nat
  /\ pc \in [Task -> {"none", "run", "push", "cancel", "exit", "done"}]
  /\ err \in [Task -> Error \cup {Nil}]
  /\ degraded \in [Task -> {Nil, "rpc", "ctx"}]
  /\ errCh \in Seq(Error)
  /\ result \in Error \cup {Nil, Ok}

\* The error Run reports is the cause of the failure: it is never the
\* cancellation that Run itself inflicted on the other tasks.
RootCause == result = CtxErr => parent

\* Run reports success only if no task failed: no error is dropped, however
\* many tasks fail at once.
ErrorNotLost == result = Ok => \A t \in Task : err[t] = Nil

\* Without a cancelled caller, a success carries no value that a task replaced
\* by a default because its context was cancelled under it.
SuccessIsWhole ==
  (result = Ok /\ ~parent) => \A t \in Task : degraded[t] # "ctx"

\* Run joins its tasks: none is left to write the variables the calculator
\* shares with it once Run is back.
JoinedOnReturn ==
  result # Nil =>
    \A t \in Task : pc[t] = IF t \in nilTask THEN "none" ELSE "done"

\* A failure, a cancelled caller or tasks that all end by themselves make Run
\* return, even when the other tasks only end with their context.
RunReturns ==
  (parent \/ waits = {} \/ \E t \in Task : err[t] # Nil) ~> (result # Nil)
=============================================================================
