----------------------------- MODULE GroupReads -----------------------------
(***************************************************************************)
(* A bulk that goes through its items one after the other and reads every  *)
(* account through one preloaded client: the bonding curves of             *)
(* GetMetricsByPumpfunBondingCurves, or the pools of one protocol group of *)
(* GetMetricsByPools.                                                      *)
(*                                                                         *)
(* The composition of the bulk with AccountLoader: the first account of    *)
(* every item is primed with one call, then each item's calculator asks    *)
(* for its accounts, and what an item reads stays cached for the items     *)
(* after it.  A pool's calculator then asks for the supply of its mint,    *)
(* which no cache holds, and for the bonding curve of that mint, which it  *)
(* can do without.  The chain moves on between any two requests, and any   *)
(* request may fail; the code of a failure is found in its text.           *)
(***************************************************************************)
EXTENDS AccountLoader

CONSTANTS
  Bulk,       \* bound: bulks tried
  Goroutine,  \* the goroutine that runs the bulk
  FailureCodes,  \* bound: codes tried for requests and calculations that fail
  Unresolved  \* the outcome of an item that has none yet

\* A bulk's items.  The reads of an item are its calculator's lists of addresses,
\* none when it is refused; the first read is of the pool or the curve alone, and
\* for a curve it is the only one.  No vault and no mint is itself a pool of the
\* bulk.  The curve of a pool is that of the mint whose supply it asks for.
Item == [reads : Seq(Seq(Address)), curve : Address \cup {Nil}]

ASSUME BulkAssumption ==
  \A b \in Bulk :
    /\ b.curves \in BOOLEAN /\ b.items \in Seq(Item)
    /\ \A i \in DOMAIN b.items : b.items[i].reads # <<>> =>
         /\ Len(b.items[i].reads[1]) = 1
         /\ b.curves => Len(b.items[i].reads) = 1
         /\ ~ b.curves => b.items[i].curve \in Address
         /\ \A j \in DOMAIN b.items, n \in 2 .. Len(b.items[i].reads) :
              b.items[j].reads # <<>> =>
                b.items[j].reads[1][1] \notin ToSet(b.items[i].reads[n])
ASSUME GoroutineAssumption == Caller = {Goroutine}
ASSUME CodeAssumption ==
  FailureCodes \subseteq {"rate_limited", "timeout", "rpc_unavailable", "rpc_error",
                         "account_not_found", "decode_error", "internal"}

VARIABLES
  bulk,     \* the request
  stage,    \* where the goroutine stands
  step,     \* reads of the current item that are answered
  seen,     \* accounts the current item's calculator has read
  supply,   \* slot its supply was read at
  results,  \* results slice
  lost,     \* history: addresses of calls that failed with "not found"
  said      \* history: items whose own supply or conversion failed so

bulkVars == <<bulk, stage, step, seen, supply, results, lost, said>>
groupVars == <<vars, bulkVars>>
----------------------------------------------------------------------------
Items == DOMAIN bulk.items
Reads(i) == bulk.items[i].reads
Curve(i) == bulk.items[i].curve
Refused(i) == Reads(i) = <<>>
Valid == {i \in Items : ~ Refused(i)}

\* What metrics are computed from: the accounts that were read, the slot of the
\* supply (0 for a bonding curve) and the bonding curve FDV takes into account.
Metrics == [accounts : Seq(Info), supply : 0 .. MaxSlot, curve : Info \cup {Nil}]
NoMetrics == [accounts |-> <<>>, supply |-> 0, curve |-> Nil]

WithError(code) == [metrics |-> NoMetrics, error |-> code]
WithMetrics(infoSeq, at, curve) ==
  [metrics |-> [accounts |-> infoSeq, supply |-> at, curve |-> curve], error |-> Nil]

\* How a calculator words a missing account: Meteora DAMM v1 not always as such.
MissingCodes == IF bulk.curves THEN {"account_not_found"} ELSE {"account_not_found", "internal"}

Codes == FailureCodes \cup {"invalid_argument", "account_not_found", "internal"}

ASSUME UnresolvedAssumption ==
  Nil \notin Codes /\ Unresolved \notin [metrics : Metrics, error : Codes \cup {Nil}]

\* Items are taken in request order.
Left == {i \in Valid : results[i] = Unresolved}
Current == CHOOSE i \in Left : \A j \in Left : i <= j

\* The n-th of the valid items.
NthValid(n) == CHOOSE i \in Valid : Cardinality({j \in Valid : j <= i}) = n

\* Mutant: the last item is not primed.
PrimeAddresses_AllButLast ==
  [n \in 1 .. Cardinality(Valid) - 1 |-> Reads(NthValid(n))[1][1]]

\* The pool or bonding-curve addresses of the items to be computed, in order.
PrimeAddresses == [n \in 1 .. Cardinality(Valid) |-> Reads(NthValid(n))[1][1]]

GroupInit ==
  /\ Init
  /\ bulk \in Bulk
  /\ stage = "start"
  /\ step = 0
  /\ seen = <<>>
  /\ supply = 0
  /\ results = [i \in Items |-> Unresolved]
  /\ lost = {}
  /\ said = {}

\* Every item is validated; the valid ones are primed with one call.
Validate ==
  /\ stage = "start"
  /\ results' = [i \in Items |-> IF Refused(i) THEN WithError("invalid_argument")
                                 ELSE Unresolved]
  /\ IF Valid = {} THEN stage' = "returned" /\ UNCHANGED vars
     ELSE stage' = "prime" /\ BeginCall(Goroutine, PrimeAddresses, "prime")
  /\ UNCHANGED <<bulk, step, seen, supply, lost, said>>

\* The code of a failed call.  Only a failed GetMultipleAccounts can speak of
\* "not found": from GetAccount that is an account that does not exist.
BatchFailed == Len(infos[Goroutine]) < Len(missing[Goroutine])
CallCodes == IF BatchFailed THEN FailureCodes ELSE FailureCodes \ {"account_not_found"}

\* Whose accounts a failure with this code was about.
LostWith(code) ==
  IF code = "account_not_found" THEN lost \cup ToSet(missing[Goroutine]) ELSE lost

\* Mutant: the error is logged and the items are calculated all the same.
PrimeFails_Ignored ==
  /\ stage = "prime"
  /\ pc[Goroutine] = "failed"
  /\ stage' = "items"
  /\ UNCHANGED <<vars, bulk, step, seen, supply, results, lost, said>>

\* A failed priming is the outcome of every valid item; nothing is computed.
PrimeFails ==
  /\ stage = "prime"
  /\ pc[Goroutine] = "failed"
  /\ \E code \in CallCodes :
       /\ results' = [i \in Items |-> IF i \in Valid THEN WithError(code) ELSE results[i]]
       /\ lost' = LostWith(code)
  /\ stage' = "items"
  /\ UNCHANGED <<vars, bulk, step, seen, supply, said>>

Primed ==
  /\ stage = "prime"
  /\ pc[Goroutine] = "done"
  /\ stage' = "items"
  /\ UNCHANGED <<vars, bulk, step, seen, supply, results, lost, said>>

\* The calculator of the current item asks for its next accounts: a single one
\* with GetAccount, several with GetMultipleAccounts.
Ask ==
  /\ stage = "items"
  /\ Left # {} /\ step < Len(Reads(Current))
  /\ LET r == Reads(Current)[step + 1]
     IN  BeginCall(Goroutine, r, IF Len(r) = 1 THEN "account" ELSE "multiple")
  /\ stage' = "read"
  /\ UNCHANGED <<bulk, step, seen, supply, results, lost, said>>

\* Mutant: what the last item has read is not forgotten.
Resolve_KeepSeen(outcome) ==
  /\ results' = [results EXCEPT ![Current] = outcome]
  /\ stage' = "items"
  /\ step' = 0
  /\ supply' = 0
  /\ UNCHANGED <<bulk, seen>>

\* The current item is finished and the loop goes on to the next one.
Resolve(outcome) ==
  /\ results' = [results EXCEPT ![Current] = outcome]
  /\ stage' = "items"
  /\ step' = 0
  /\ seen' = <<>>
  /\ supply' = 0
  /\ UNCHANGED bulk

Missing(infoSeq) == \E n \in DOMAIN infoSeq : ~ Exists(infoSeq[n])

\* Mutant: an item that lacks an account fails the items after it as well.
Answered_MissingForAll ==
  /\ stage = "read"
  /\ pc[Goroutine] = "done"
  /\ IF Missing(out[Goroutine])
     THEN /\ results' = [i \in Items |-> IF i \in Left THEN WithError("account_not_found")
                                         ELSE results[i]]
          /\ stage' = "items"
          /\ step' = 0
          /\ seen' = <<>>
          /\ UNCHANGED <<bulk, supply>>
     ELSE IF bulk.curves THEN Resolve(WithMetrics(out[Goroutine], 0, Nil))
     ELSE /\ step' = step + 1
          /\ seen' = seen \o out[Goroutine]
          /\ stage' = "items"
          /\ UNCHANGED <<bulk, supply, results>>
  /\ UNCHANGED <<vars, lost, said>>

\* The accounts arrive: one that does not exist fails the item; the account of a
\* bonding curve gives its metrics.
Answered ==
  /\ stage = "read"
  /\ pc[Goroutine] = "done"
  /\ IF Missing(out[Goroutine]) THEN \E code \in MissingCodes : Resolve(WithError(code))
     ELSE IF bulk.curves THEN Resolve(WithMetrics(out[Goroutine], 0, Nil))
     ELSE /\ step' = step + 1
          /\ seen' = seen \o out[Goroutine]
          /\ stage' = "items"
          /\ UNCHANGED <<bulk, supply, results>>
  /\ UNCHANGED <<vars, lost, said>>

\* The request fails, and so does the item alone.
ReadFails ==
  /\ stage = "read"
  /\ pc[Goroutine] = "failed"
  /\ \E code \in CallCodes : Resolve(WithError(code)) /\ lost' = LostWith(code)
  /\ UNCHANGED <<vars, said>>

\* The calculator of a pool refuses what it has read.
Refuse ==
  /\ stage = "items"
  /\ ~ bulk.curves
  /\ step > 0
  /\ \E code \in FailureCodes \ {"account_not_found"} : Resolve(WithError(code))
  /\ UNCHANGED <<vars, lost, said>>

\* All accounts of the pool are read.
Complete == ~ bulk.curves /\ Left # {} /\ step = Len(Reads(Current))

\* GetTokenSupply passes through the client, uncached; then the mint's bonding
\* curve is asked for.
Supply ==
  /\ stage = "items"
  /\ Complete
  /\ supply' = slot
  /\ BeginCall(Goroutine, <<Curve(Current)>>, "account")
  /\ stage' = "fdv"
  /\ UNCHANGED <<bulk, step, seen, results, lost, said>>

FDVEnded == stage = "fdv" /\ pc[Goroutine] \in {"done", "failed"}

\* The supply request fails, or a conversion to SOL that runs beside it; the
\* calculator waits for the other of the two before it gives up.
RunFails ==
  /\ (stage = "items" /\ Complete) \/ FDVEnded
  /\ \E code \in FailureCodes :
       /\ Resolve(WithError(code))
       /\ said' = IF code = "account_not_found" THEN said \cup {Current} ELSE said
  /\ UNCHANGED <<vars, lost>>

\* The metrics are put together.  A bonding curve that could not be read counts
\* as one that does not exist: FDV goes by the supply alone.
Finish ==
  /\ FDVEnded
  /\ LET curve == IF pc[Goroutine] = "done" /\ ~ Missing(out[Goroutine])
                  THEN out[Goroutine][1] ELSE Nil
     IN  Resolve(WithMetrics(seen, supply, curve))
  /\ UNCHANGED <<vars, lost, said>>

Return ==
  /\ stage = "items"
  /\ Left = {}
  /\ stage' = "returned"
  /\ UNCHANGED <<vars, bulk, step, seen, supply, results, lost, said>>

LoaderStep == stage \in {"prime", "read", "fdv"} /\ Step(Goroutine) /\ UNCHANGED bulkVars
ChainStep == stage # "returned" /\ Advance /\ UNCHANGED bulkVars
Returned == stage = "returned" /\ UNCHANGED groupVars

Run ==
  \/ Validate \/ Primed \/ PrimeFails \/ Ask \/ Answered \/ ReadFails
  \/ Refuse \/ Supply \/ RunFails \/ Finish \/ Return \/ LoaderStep

GroupNext == Run \/ ChainStep \/ Returned

\* The goroutine keeps running; every request is answered or fails.
GroupSpec == GroupInit /\ [][GroupNext]_groupVars /\ WF_groupVars(Run)
----------------------------------------------------------------------------
Calculated(i) == results[i] # Unresolved /\ results[i].error = Nil
FailedWith(i, code) == results[i] = WithError(code)
Used(i) == results[i].metrics

(* Once the curves of a bulk are primed, computing them costs no further   *)
(* request, whichever of them repeat or do not exist: the bulk of a        *)
(* thousand curves stays within the requests of its one priming call, and  *)
(* a provider's failure never singles out an item.                         *)
CurvesCostOnePriming ==
  bulk.curves /\ stage \in {"items", "read"} => pc[Goroutine] \notin {"fetch", "confirm"}

(* An item reports a missing account only for a reason of its own: one of  *)
(* its accounts was asked for alone and not found, or was among those of a *)
(* call that failed and spoke of "not found", or its own supply or         *)
(* conversion did.  An account another item lacks, or one a batch answer   *)
(* left out, is not enough.                                                *)
MissingForAReason ==
  \A i \in Items :
    FailedWith(i, "account_not_found") =>
      \/ \E n \in DOMAIN Reads(i) : ToSet(Reads(i)[n]) \cap (confirmed \cup lost) # {}
      \/ i \in said

(* Accounts of a response agree although the chain moves on: two items that*)
(* share one (a quote mint, a pool listed twice) are computed from the same*)
(* version of it, no pool account is newer than any account of a vault or a*)
(* mint, and a bonding curve that is listed twice has one outcome.         *)
AccountsAgree ==
  /\ \A i, j \in Items : Calculated(i) /\ Calculated(j) =>
       \A m \in DOMAIN Used(i).accounts, n \in DOMAIN Used(j).accounts :
         LET a == Used(i).accounts[m]
             b == Used(j).accounts[n]
         IN  /\ a.address = b.address => a = b
             /\ m = 1 /\ n > 1 => a.slot <= b.slot
  /\ bulk.curves /\ stage = "returned" =>
       \A i, j \in Items : Reads(i) = Reads(j) => results[i] = results[j]

(* Supplies are asked for anew: items of one mint may differ in theirs, but*)
(* none is older than an account its item is computed from or than the     *)
(* supply of an item before it.                                            *)
SuppliesInOrder ==
  ~ bulk.curves =>
    \A i \in Items : Calculated(i) =>
      /\ \A m \in DOMAIN Used(i).accounts : Used(i).accounts[m].slot <= Used(i).supply
      /\ \A j \in Items : i < j /\ Calculated(j) => Used(i).supply <= Used(j).supply

(* Once the bonding curve of a mint counts for the FDV of one item, it     *)
(* counts in the same version for every later item of that mint, whatever  *)
(* fails; an item before it may have gone without.                         *)
CurvesAgree ==
  \A i, j \in Items :
    i < j /\ Calculated(i) /\ Calculated(j) /\ Curve(i) = Curve(j) /\ Used(i).curve # Nil =>
      Used(j).curve = Used(i).curve

(* What the items of a response may disagree on: never an account, never   *)
(* the FDV curve once it is known, and the supply of a mint only forwards  *)
(* in time.                                                                *)
OneView == AccountsAgree /\ SuppliesInOrder /\ CurvesAgree

\* An item may end with the accounts of its own reads, in their order, its own
\* supply and curve, with an error of its calculation, or, when it is refused,
\* with nothing else.
OutcomesOf(item, i) ==
  LET own == FlattenSeq(item.reads)
      answers == {[n \in DOMAIN own |-> [address |-> own[n], slot |-> at[n]]]
                    : at \in [DOMAIN own -> 1 .. MaxSlot]}
      curves == {info \in Info : info.address = item.curve /\ Exists(info)} \cup {Nil}
  IN  IF item.reads = <<>> THEN {WithError("invalid_argument")}
      ELSE {WithError(e) : e \in Codes \ {"invalid_argument"}}
             \cup {WithMetrics(a, at, c) : a \in answers, at \in 0 .. MaxSlot, c \in curves}

Contract == INSTANCE BulkContract WITH
  Outcomes <- OutcomesOf,
  request <- bulk.items, outcome <- results, returned <- (stage = "returned")

(* The bulk implements the contract of a bulk call: one outcome for each   *)
(* item, chosen once, from the accounts the item itself names, and an      *)
(* answer in the end however often requests fail.                          *)
ImplementsContract == Contract!Spec
=============================================================================
