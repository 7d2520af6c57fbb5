-------------------------- MODULE GroupReadsProofs --------------------------
(***************************************************************************)
(* Theorems about GroupReads for every bulk, chunk size, set of error codes*)
(* and number of slots the chain goes through while the bulk is answered.  *)
(*                                                                         *)
(* The argument: the bulk's goroutine is alone on its client, so the cache *)
(* does not change from the beginning of a call to the moment it stores,   *)
(* and what it stores was not held: an entry, once there, stays as it is.  *)
(* Everything an item has read is therefore what the cache holds, now and  *)
(* later, and two items that share an account agree.  Once the priming is  *)
(* answered, all pools are held, with slots that no later read can be      *)
(* behind, and a curve needs no further request.                           *)
(*                                                                         *)
(* A supply is of the slot the chain is at when the accounts of its item   *)
(* are read, and items are taken in order: no supply is behind the         *)
(* accounts of its item or the supply of an item before it.  An FDV curve  *)
(* that was found is held, so the request of a later item for it is        *)
(* answered from the cache and cannot fail.                                *)
(*                                                                         *)
(* A request that fails leaves the addresses it was for in missing: when   *)
(* its error says "not found" they are those of the item it fails, and for *)
(* the priming, which begins with an empty cache, those of all the items.  *)
(*                                                                         *)
(* That the bulk keeps BulkContract needs one thing more: what the current *)
(* item has read are the accounts of its reads so far, in their order.     *)
(***************************************************************************)
EXTENDS GroupReads, AccountLoaderProofs, WellFoundedInduction

\* What holds of the only call on the client, beyond CallInv: nothing is stored
\* before it has all it needs, its answer is what the cache holds, and a call that
\* failed was to fetch what it did not hold.
AloneInv(c) ==
  /\ pc[c] \in {"look", "scan", "fetch", "confirm", "store", "failed"} => cache = before[c]
  /\ pc[c] \in {"look", "scan", "fetch", "confirm", "store"} => out[c] = <<>>
  /\ \A i \in 1 .. Len(out[c]) : out[c][i] = cache[req[c][i]]
  /\ pc[c] = "failed" => Covered(c, Len(req[c]))

\* Nothing is newer than the chain.
SlotInv(c) ==
  /\ \A a \in Address : cache[a] # Nil => cache[a].slot <= slot
  /\ \A i \in 1 .. Len(infos[c]) : infos[c][i].slot <= slot

LoaderInv(c) == AloneInv(c) /\ SlotInv(c)

\* The account an item is about, those of all items, and the others it reads.
PoolOf(i) == Reads(i)[1][1]
Primary == {PoolOf(i) : i \in Valid}
Others(i) == UNION {ToSet(Reads(i)[n]) : n \in 2 .. Len(Reads(i))}

Outcome == [metrics : Metrics, error : Codes \cup {Nil}]

GroupTypes ==
  /\ bulk \in Bulk
  /\ stage \in {"start", "prime", "items", "read", "fdv", "returned"}
  /\ step \in Nat
  /\ seen \in Seq(Info)
  /\ supply \in 0 .. MaxSlot
  /\ results \in [Items -> Outcome \cup {Unresolved}]

\* Where the goroutine stands, and what it may rely on there.
StageInv ==
  /\ stage \in {"start", "prime"} => Left = Valid
  /\ stage # "start" => \A i \in Items : Refused(i) => FailedWith(i, "invalid_argument")
  /\ stage \notin {"prime", "read", "fdv"} => Idle(Goroutine)
  /\ stage = "prime" => req[Goroutine] = PrimeAddresses
  /\ stage = "items" => pc[Goroutine] \in {"done", "failed"}
  /\ stage = "read" =>
       /\ Left # {} /\ step < Len(Reads(Current))
       /\ req[Goroutine] = Reads(Current)[step + 1]
       /\ pc[Goroutine] # "idle"
  /\ stage = "fdv" =>
       /\ Complete /\ req[Goroutine] = <<Curve(Current)>>
       /\ pc[Goroutine] # "idle"
  /\ stage = "returned" => Left = {}
  /\ step > 0 =>
       /\ stage \in {"items", "read", "fdv"} /\ Left # {} /\ ~ bulk.curves
       /\ step <= Len(Reads(Current))
  /\ step = 0 <=> seen = <<>>

\* What is primed before the items, and what is held from then on.
PrimeInv ==
  /\ stage = "start" => \A a \in Address : cache[a] = Nil
  /\ stage = "prime" => \A a \in Address : /\ cache[a] # Nil => a \in Primary
                                           /\ before[Goroutine][a] = Nil
  /\ stage \in {"items", "read", "fdv"} /\ Left # {} => \A a \in Primary : cache[a] # Nil

\* Accounts an item has read: each is what the cache holds, the first one is
\* the pool, the others are no pools.
OfItem(s, i) ==
  \A m \in 1 .. Len(s) :
    /\ s[m] = cache[s[m].address]
    /\ IF m = 1 THEN s[m].address = PoolOf(i) ELSE s[m].address \in Others(i)

FromCache(s, i) == OfItem(s, i) /\ \A m \in 1 .. Len(s) : Exists(s[m])

\* The reason an item has to report a missing account.
Reason(i) ==
  \/ \E n \in DOMAIN Reads(i) : ToSet(Reads(i)[n]) \cap (confirmed \cup lost) # {}
  \/ i \in said

ResultInv ==
  /\ FromCache(seen, Current)
  /\ \A i \in Items : Calculated(i) => i \in Valid /\ FromCache(Used(i).accounts, i)
  /\ \A i \in Items : FailedWith(i, "account_not_found") => Reason(i)

\* What is read for an item is not older than any pool.
ViewInv ==
  /\ \A a \in Primary, b \in Address \ Primary :
       cache[a] # Nil /\ cache[b] # Nil /\ Exists(cache[b]) => cache[a].slot <= cache[b].slot
  /\ stage \in {"read", "fdv"} => \A a \in Primary, i \in 1 .. Len(infos[Goroutine]) :
       Exists(infos[Goroutine][i]) => cache[a].slot <= infos[Goroutine][i].slot

\* The outcome of a curve depends on its account alone.
CurveOutcome(i) ==
  IF Exists(cache[PoolOf(i)]) THEN WithMetrics(<<cache[PoolOf(i)]>>, 0, Nil)
  ELSE WithError("account_not_found")

CurveInv ==
  bulk.curves =>
    /\ stage = "read" => pc[Goroutine] \in {"look", "done"}
    /\ stage \in {"items", "read", "returned"} =>
         \/ \E code \in Codes : \A i \in Valid : FailedWith(i, code)
         \/ \A i \in Valid : cache[PoolOf(i)] # Nil /\ results[i] \in {Unresolved, CurveOutcome(i)}

\* Items are resolved in request order.
OrderInv ==
  \A i, j \in Valid : i < j /\ results[j] # Unresolved => results[i] # Unresolved

\* No supply is behind the accounts read before it, nor ahead of the chain.
SupplyInv ==
  /\ stage = "fdv" =>
       /\ supply <= slot
       /\ \A m \in 1 .. Len(seen) : seen[m].slot <= supply
       /\ \A i \in Items : Calculated(i) => Used(i).supply <= supply
  /\ \A i \in Items : Calculated(i) => Used(i).supply <= slot
  /\ SuppliesInOrder

\* An FDV curve that counted is held, and asking for it again cannot fail.
Counted(i) == Calculated(i) /\ Used(i).curve # Nil

FdvInv ==
  /\ \A i \in Items : Counted(i) =>
       /\ ~ bulk.curves
       /\ Used(i).curve = cache[Curve(i)] /\ Exists(Used(i).curve)
  /\ \A i \in Items : Counted(i) /\ stage = "fdv" /\ Curve(i) = Curve(Current) =>
       pc[Goroutine] \in {"look", "done"}
  /\ CurvesAgree

BulkInv ==
  /\ GroupTypes /\ StageInv /\ PrimeInv /\ ResultInv /\ ViewInv /\ CurveInv
  /\ OrderInv /\ SupplyInv /\ FdvInv
GroupInv == IInv /\ LoaderInv(Goroutine) /\ BulkInv
----------------------------------------------------------------------------
(* What a step of the client, or of the chain, leaves as it is.            *)

\* An entry stays as it is; what is stored was fetched for the call; what is
\* fetched exists at the chain's slot; and a held account is answered at once.
Goes(c) ==
  /\ req'[c] = req[c]
  /\ confirmed \subseteq confirmed' /\ slot <= slot'
  /\ \A a \in Address : cache[a] # Nil => cache'[a] = cache[a]
  /\ \A a \in Address : cache[a] = Nil /\ cache'[a] # Nil =>
       /\ \E i \in 1 .. Len(req[c]) : req[c][i] = a
       /\ \E i \in 1 .. Len(infos[c]) : infos[c][i] = cache'[a]
  /\ \A i \in 1 .. Len(infos'[c]) :
       \/ i \in 1 .. Len(infos[c]) /\ infos'[c][i] = infos[c][i]
       \/ Exists(infos'[c][i]) => infos'[c][i].slot = slot
  /\ pc'[c] # pc[c] => ~ Idle(c) /\ pc'[c] # "idle"
  /\ pc[c] = "look" /\ cache[req[c][1]] # Nil => pc'[c] \in {"look", "done"}
  /\ Idle(c) => pc'[c] = pc[c] /\ cache' = cache

\* Steps that neither fetch nor store.
Stays(c) ==
  /\ UNCHANGED <<chain, cache, confirmed>>
  /\ req'[c] = req[c] /\ infos'[c] = infos[c] /\ before'[c] = before[c]

LEMMA StaysGoes ==
  ASSUME IInv, NEW c \in Caller, SlotInv(c), Stays(c),
         ~ Idle(c), pc'[c] # "idle",
         pc[c] = "look" /\ cache[req[c][1]] # Nil => pc'[c] \in {"look", "done"}
  PROVE  SlotInv(c)' /\ Goes(c)
<1>1. slot \in Nat
  BY DEF IInv, TypeOK
<1>2. QED
  BY <1>1 DEF Stays, SlotInv, Goes, chain

LEMMA LookGoes ==
  ASSUME IInv, NEW c \in Caller, LoaderInv(c), Look(c)
  PROVE  LoaderInv(c)' /\ Goes(c)
<1>1. /\ pc[c] = "look" /\ Len(req[c]) = 1 /\ out[c] = <<>> /\ cache = before[c]
      /\ Stays(c)
  BY DEF Look, IInv, CallInv, AnswerInv, LoaderInv, AloneInv, Stays, shared, history
<1>2. CASE cache[req[c][1]] # Nil
  <2>1. out'[c] = <<cache[req[c][1]]>> /\ pc'[c] = "done"
    BY <1>2 DEF Look, IInv, TypeOK
  <2>2. AloneInv(c)'
    BY <1>1, <2>1 DEF AloneInv, Stays
  <2>3. QED
    BY <1>1, <2>1, <2>2, StaysGoes DEF LoaderInv, Idle
<1>3. CASE cache[req[c][1]] = Nil
  <2>1. out'[c] = out[c] /\ pc'[c] = "scan"
    BY <1>3 DEF Look, IInv, TypeOK
  <2>2. AloneInv(c)'
    BY <1>1, <2>1 DEF AloneInv, Stays
  <2>3. QED
    BY <1>1, <1>3, <2>1, <2>2, StaysGoes DEF LoaderInv, Idle
<1>4. QED
  BY <1>2, <1>3

\* Any step of a call that goes on towards its store, or fails.
LEMMA QuietGoes ==
  ASSUME IInv, NEW c \in Caller, LoaderInv(c), Stays(c), out'[c] = out[c],
         pc[c] \in {"scan", "fetch", "confirm"},
         pc'[c] \in {"scan", "fetch", "confirm", "store", "read", "failed"},
         pc'[c] = "failed" => missing'[c] = missing[c] /\ Covered(c, Len(req[c]))
  PROVE  LoaderInv(c)' /\ Goes(c)
<1>1. AloneInv(c)'
  BY DEF LoaderInv, AloneInv, Stays, Covered
<1>2. QED
  BY <1>1, StaysGoes DEF LoaderInv, Idle

LEMMA ScanGoes ==
  ASSUME IInv, NEW c \in Caller, LoaderInv(c), Scan(c)
  PROVE  LoaderInv(c)' /\ Goes(c)
<1>1. Stays(c) /\ out'[c] = out[c] /\ pc[c] = "scan"
  BY DEF Scan, Stays, shared, history
<1>2. pc'[c] \in {"scan", "fetch", "read"}
  BY DEF Scan, AfterScan, IInv, TypeOK
<1>3. QED
  BY <1>1, <1>2, QuietGoes

LEMMA FailGoes ==
  ASSUME IInv, NEW c \in Caller, LoaderInv(c), RPCError(c)
  PROVE  LoaderInv(c)' /\ Goes(c)
<1>1. Stays(c) /\ out'[c] = out[c] /\ pc[c] \in {"fetch", "confirm"} /\ pc'[c] = "failed"
      /\ missing'[c] = missing[c]
  BY DEF RPCError, Unconfirmed, Stays, shared, history, IInv, TypeOK
<1>2. Covered(c, Len(req[c]))
  BY <1>1 DEF IInv, CallInv, CoverInv
<1>3. QED
  BY <1>1, <1>2, QuietGoes

\* The answers of a chunk are of the slot the chain is at.
LEMMA FetchGoes ==
  ASSUME IInv, NEW c \in Caller, LoaderInv(c), FetchChunk(c)
  PROVE  LoaderInv(c)' /\ Goes(c)
<1> DEFINE chunk == Chunk(c)
<1>1. PICK n \in 0 .. Len(chunk) :
        infos' = [infos EXCEPT ![c] =
                    @ \o [i \in 1 .. Len(chunk) |->
                            IF i <= n THEN Read(chunk[i]) ELSE NotFound(chunk[i])]]
  BY DEF FetchChunk
<1> DEFINE answers == [i \in 1 .. Len(chunk) |->
                         IF i <= n THEN Read(chunk[i]) ELSE NotFound(chunk[i])]
<1>2. infos[c] \in Seq(Info) /\ infos'[c] = infos[c] \o answers
  BY <1>1 DEF IInv, TypeOK
<1>3. chunk \in Seq(Address) /\ Len(chunk) \in Nat
  <2>1. missing[c] \in Seq(Address) /\ infos[c] \in Seq(Info)
        /\ Len(infos[c]) < Len(missing[c])
    BY DEF IInv, TypeOK, CallInv, AnswerInv, FetchChunk
  <2>2. /\ chunk \in Seq(Address)
        /\ Len(chunk) = PieceSize(Len(infos[c]), Len(missing[c]), ChunkSize)
    BY <2>1, ChunkProperties DEF IInv
  <2>3. QED
    BY <2>2
<1>4. slot \in Nat
  BY DEF IInv, TypeOK
<1> HIDE DEF chunk
<1>5. \A i \in 1 .. Len(chunk) :
        /\ answers[i].slot <= slot
        /\ Exists(answers[i]) => answers[i].slot = slot
  BY <1>4 DEF Read, NotFound, Exists
<1>6. answers \in Seq(Info) /\ Len(answers) = Len(chunk)
  <2>1. \A i \in 1 .. Len(chunk) : answers[i] \in Info
    BY <1>3, ReadAnswers DEF IInv
  <2> HIDE DEF answers
  <2>2. answers = [i \in 1 .. Len(chunk) |-> answers[i]]
    BY DEF answers
  <2>3. QED
    BY <1>3, <2>1, <2>2
<1> HIDE DEF answers
<1>7. \A i \in 1 .. Len(infos'[c]) :
        \/ i \in 1 .. Len(infos[c]) /\ infos'[c][i] = infos[c][i]
        \/ /\ infos'[c][i].slot <= slot
           /\ Exists(infos'[c][i]) => infos'[c][i].slot = slot
  <2> SUFFICES ASSUME NEW i \in 1 .. Len(infos'[c]), i \notin 1 .. Len(infos[c])
               PROVE  /\ infos'[c][i].slot <= slot
                      /\ Exists(infos'[c][i]) => infos'[c][i].slot = slot
    BY <1>2, <1>6
  <2>1. i - Len(infos[c]) \in 1 .. Len(chunk) /\ infos'[c][i] = answers[i - Len(infos[c])]
    BY <1>2, <1>3, <1>6
  <2>2. QED
    BY <1>5, <2>1
<1>8. /\ UNCHANGED <<chain, cache, confirmed>> /\ out'[c] = out[c]
      /\ req'[c] = req[c] /\ before'[c] = before[c]
      /\ pc[c] = "fetch" /\ pc'[c] \in {"fetch", "confirm"}
  BY DEF FetchChunk, shared, IInv, TypeOK
<1>9. LoaderInv(c)'
  BY <1>7, <1>8 DEF LoaderInv, AloneInv, SlotInv, chain
<1>10. Goes(c)
  BY <1>4, <1>7, <1>8 DEF Goes, Idle, chain
<1>11. QED
  BY <1>9, <1>10

LEMMA ConfirmGoes ==
  ASSUME IInv, NEW c \in Caller, LoaderInv(c), Confirm(c)
  PROVE  LoaderInv(c)' /\ Goes(c)
<1>1. /\ UNCHANGED <<chain, cache>> /\ out'[c] = out[c]
      /\ req'[c] = req[c] /\ before'[c] = before[c]
      /\ pc[c] = "confirm" /\ pc'[c] \in {"confirm", "store"}
  BY DEF Confirm, shared, IInv, TypeOK
<1>2. slot \in Nat /\ infos[c] \in Seq(Info)
  BY DEF IInv, TypeOK
<1>3. CASE UNCHANGED <<infos, confirmed>>
  <2>1. Stays(c)
    BY <1>1, <1>3 DEF Stays
  <2>2. QED
    BY <1>1, <2>1, QuietGoes
<1>4. CASE ~ UNCHANGED <<infos, confirmed>>
  <2>1. PICK info \in {Read(missing[c][k[c]]), NotFound(missing[c][k[c]])} :
          /\ infos' = [infos EXCEPT ![c][k[c]] = info]
          /\ confirmed' = IF Exists(info) THEN confirmed
                          ELSE confirmed \cup {info.address}
    BY <1>4 DEF Confirm
  <2>2. info.slot <= slot /\ (Exists(info) => info.slot = slot)
    BY <1>2 DEF Read, NotFound, Exists
  <2>3. infos'[c] = [infos[c] EXCEPT ![k[c]] = info]
    BY <2>1 DEF IInv, TypeOK
  <2>4. \A i \in 1 .. Len(infos'[c]) :
          \/ i \in 1 .. Len(infos[c]) /\ infos'[c][i] = infos[c][i]
          \/ /\ infos'[c][i].slot <= slot
             /\ Exists(infos'[c][i]) => infos'[c][i].slot = slot
    BY <1>2, <2>2, <2>3
  <2>5. LoaderInv(c)'
    BY <1>1, <2>4 DEF LoaderInv, AloneInv, SlotInv, chain
  <2>6. Goes(c)
    BY <1>1, <1>2, <2>1, <2>4 DEF Goes, Idle, chain
  <2>7. QED
    BY <2>5, <2>6
<1>5. QED
  BY <1>3, <1>4

\* What is stored was not held: the cache is the one the call began with.
LEMMA StoreGoes ==
  ASSUME IInv, NEW c \in Caller, LoaderInv(c), Store(c)
  PROVE  LoaderInv(c)' /\ Goes(c)
<1> DEFINE At(a) == CHOOSE i \in DOMAIN missing[c] : missing[c][i] = a
<1>1. /\ pc[c] = "store" /\ cache = before[c] /\ out[c] = <<>>
      /\ UNCHANGED <<chain, confirmed>> /\ out'[c] = out[c]
      /\ req'[c] = req[c] /\ infos'[c] = infos[c] /\ pc'[c] = "read"
  BY DEF Store, history, LoaderInv, AloneInv, IInv, TypeOK
<1>2. /\ CallInv(c) /\ missing[c] \in Seq(Address) /\ Len(infos[c]) = Len(missing[c])
      /\ slot \in Nat
  <2>1. CallInv(c) /\ missing[c] \in Seq(Address) /\ slot \in Nat
    BY DEF IInv, TypeOK
  <2>2. QED
    BY <1>1, <2>1 DEF CallInv, AnswerInv
<1>3. ASSUME NEW a \in Address, Contains(missing[c], a)
      PROVE  /\ cache[a] = Nil
             /\ \E i \in 1 .. Len(req[c]) : req[c][i] = a
             /\ \E i \in 1 .. Len(infos[c]) : infos[c][i] = cache'[a]
  <2>1. \E i \in DOMAIN missing[c] : missing[c][i] = a
    BY <1>2, <1>3 DEF Contains
  <2>2. At(a) \in 1 .. Len(missing[c]) /\ missing[c][At(a)] = a /\ cache'[a] = infos[c][At(a)]
    BY <1>2, <1>3, <2>1 DEF Store
  <2> HIDE DEF At
  <2>3. QED
    BY <1>1, <1>2, <2>2 DEF CallInv, MissingInv
<1>4. ASSUME NEW a \in Address, ~ Contains(missing[c], a)
      PROVE  cache'[a] = cache[a]
  BY <1>4 DEF Store
<1>5. \A a \in Address : cache[a] # Nil => cache'[a] = cache[a]
  BY <1>3, <1>4
<1>6. SlotInv(c)'
  BY <1>1, <1>3, <1>4 DEF LoaderInv, SlotInv, chain
<1>7. AloneInv(c)'
  BY <1>1 DEF AloneInv
<1>8. Goes(c)
  BY <1>1, <1>2, <1>3, <1>4, <1>5 DEF Goes, Idle, chain
<1>9. QED
  BY <1>6, <1>7, <1>8 DEF LoaderInv

LEMMA ReadBackGoes ==
  ASSUME IInv, NEW c \in Caller, LoaderInv(c), ReadBack(c)
  PROVE  LoaderInv(c)' /\ Goes(c)
<1>1. Stays(c) /\ pc[c] = "read" /\ pc'[c] \in {"read", "done"}
  BY DEF ReadBack, Stays, shared, history, IInv, TypeOK
<1>2. out[c] \in Seq(Info) /\ Len(out[c]) \in Nat
  BY DEF IInv, TypeOK
<1>3. AloneInv(c)'
  <2>1. CASE out'[c] = out[c]
    BY <1>1, <2>1 DEF LoaderInv, AloneInv, Stays
  <2>2. CASE out'[c] # out[c]
    <3> DEFINE info == cache[req[c][Len(out[c]) + 1]]
    <3>1. /\ out'[c] = Append(out[c], info) /\ Len(out[c]) < Len(req[c])
      BY <2>2 DEF ReadBack, IInv, TypeOK
    <3>2. info \in Info
      <4>1. req[c] \in Seq(Address) /\ Len(out[c]) + 1 \in 1 .. Len(req[c])
        BY <1>2, <3>1 DEF IInv, TypeOK
      <4>2. req[c][Len(out[c]) + 1] \in Address /\ info # Nil
        BY <1>1, <4>1 DEF IInv, CallInv, CoverInv
      <4>3. QED
        BY <4>2, Held
    <3> HIDE DEF info
    <3>3. \A i \in 1 .. Len(out'[c]) :
            out'[c][i] = IF i = Len(out[c]) + 1 THEN info ELSE out[c][i]
      BY <1>2, <3>1, <3>2
    <3>4. Len(out'[c]) = Len(out[c]) + 1
      BY <1>2, <3>1, <3>2
    <3>5. \A i \in 1 .. Len(out'[c]) : out'[c][i] = cache[req[c][i]]
      BY <1>2, <3>3, <3>4 DEF LoaderInv, AloneInv, info
    <3>6. QED
      BY <1>1, <3>5 DEF AloneInv, Stays
  <2>3. QED
    BY <2>1, <2>2
<1>4. QED
  BY <1>1, <1>3, StaysGoes DEF LoaderInv, Idle

LEMMA StepGoes ==
  ASSUME IInv, NEW c \in Caller, LoaderInv(c), Step(c)
  PROVE  IInv' /\ LoaderInv(c)' /\ Goes(c)
BY StepIInv, LookGoes, ScanGoes, FetchGoes, ConfirmGoes, FailGoes, StoreGoes,
   ReadBackGoes DEF Step

LEMMA AdvanceGoes ==
  ASSUME IInv, NEW c \in Caller, LoaderInv(c), Advance
  PROVE  IInv' /\ LoaderInv(c)' /\ Goes(c)
<1>1. IInv'
  BY AdvanceStep
<1>2. /\ slot' = slot + 1 /\ slot \in Nat
      /\ UNCHANGED <<cache, confirmed, pc, req, missing, infos, out, before>>
  BY DEF Advance, shared, local, history, IInv, TypeOK
<1>3. /\ infos[c] \in Seq(Info)
      /\ \A a \in Address : cache[a] # Nil => cache[a].slot \in Nat
      /\ \A i \in 1 .. Len(infos[c]) : infos[c][i].slot \in Nat
  <2>1. infos[c] \in Seq(Info)
    BY DEF IInv, TypeOK
  <2>2. \A a \in Address : cache[a] # Nil => cache[a] \in Info
    BY DEF IInv, TypeOK
  <2>3. \A info \in Info : info.slot \in Nat
    BY BoundAssumption DEF Info
  <2>4. QED
    BY <2>1, <2>2, <2>3
<1>4. LoaderInv(c)'
  BY <1>2, <1>3 DEF LoaderInv, AloneInv, SlotInv, Covered
<1>5. Goes(c)
  BY <1>2 DEF Goes, Idle
<1>6. QED
  BY <1>1, <1>4, <1>5
----------------------------------------------------------------------------
(* The items of a bulk.                                                    *)

\* A relation by which smaller numbers come first has no endless descent.
LEMMA Ordered ==
  \E R : IsWellFoundedOn(R, Nat) /\ \A x, y \in Nat : x < y => <<x, y>> \in R
<1>1. \A x, y \in Nat : x < y => <<x, y>> \in OpToRel(<, Nat)
  BY DEF OpToRel
<1>2. QED
  BY <1>1, NatLessThanWellFounded, Zenon

\* A set of numbers has a smallest one.
LEMMA Minimum ==
  ASSUME NEW S \in SUBSET Nat, S # {}
  PROVE  \E i \in S : \A j \in S : i <= j
<1>1. PICK R : IsWellFoundedOn(R, Nat) /\ \A x, y \in Nat : x < y => <<x, y>> \in R
  BY Ordered
<1>2. IsWellFoundedOn(R, Nat) /\ S \subseteq Nat
  BY <1>1
<1>3. \E i \in S : \A j \in S : ~ (<<j, i>> \in R)
  BY <1>2, WFMin, Zenon
<1>4. PICK i \in S : \A j \in S : ~ (<<j, i>> \in R)
  BY <1>3
<1>5. \A j \in S : ~ (j < i)
  BY <1>1, <1>4
<1>6. i \in Nat /\ S \subseteq Nat
  OBVIOUS
<1>7. QED
  BY <1>5, <1>6

LEMMA BulkItems ==
  ASSUME bulk \in Bulk
  PROVE  /\ Items = 1 .. Len(bulk.items) /\ Len(bulk.items) \in Nat
         /\ Valid \subseteq Items /\ Items \subseteq Nat
         /\ IsFiniteSet(Valid) /\ Cardinality(Valid) \in Nat
<1>1. bulk.items \in Seq(Item)
  BY BulkAssumption
<1> DEFINE n == Len(bulk.items)
<1>2. n \in Nat /\ Items = 1 .. n
  BY <1>1 DEF Items
<1>3. Valid \subseteq Items
  BY DEF Valid
<1> HIDE DEF n
<1>4. IsFiniteSet(1 .. n)
  BY <1>2, FS_Interval
<1>5. IsFiniteSet(Valid) /\ Cardinality(Valid) \in Nat
  BY <1>2, <1>3, <1>4, FS_Subset, FS_CardinalityType
<1>6. QED
  BY <1>2, <1>3, <1>5 DEF n

LEMMA ItemReads ==
  ASSUME bulk \in Bulk, NEW i \in Valid
  PROVE  /\ Reads(i) \in Seq(Seq(Address)) /\ Len(Reads(i)) \in Nat \ {0}
         /\ Reads(i)[1] \in Seq(Address) /\ Len(Reads(i)[1]) = 1
         /\ PoolOf(i) \in Address /\ PoolOf(i) \in Primary
         /\ bulk.curves => Len(Reads(i)) = 1
         /\ ~ bulk.curves => Curve(i) \in Address
         /\ \A a \in Others(i) : a \in Address /\ a \notin Primary
<1>1. /\ bulk.items \in Seq(Item) /\ i \in DOMAIN bulk.items /\ bulk.items[i] \in Item
      /\ Reads(i) # <<>>
  BY BulkAssumption DEF Valid, Items, Refused
<1>2. Reads(i) \in Seq(Seq(Address)) /\ Reads(i) # <<>>
  BY <1>1 DEF Reads, Item
<1>3. Len(Reads(i)) \in Nat \ {0}
  BY <1>2
<1>4. Reads(i)[1] \in Seq(Address)
  BY <1>2, <1>3
<1>5. /\ Len(Reads(i)[1]) = 1
      /\ bulk.curves => Len(Reads(i)) = 1
      /\ ~ bulk.curves => Curve(i) \in Address
      /\ \A j \in DOMAIN bulk.items, n \in 2 .. Len(Reads(i)) :
           Reads(j) # <<>> => PoolOf(j) \notin ToSet(Reads(i)[n])
  BY <1>1, BulkAssumption DEF Reads, Curve, PoolOf
<1>6. PoolOf(i) \in Address
  BY <1>4, <1>5 DEF PoolOf
<1>7. ASSUME NEW a \in Others(i) PROVE a \in Address /\ a \notin Primary
  <2>1. PICK n \in 2 .. Len(Reads(i)) : a \in ToSet(Reads(i)[n])
    BY DEF Others
  <2>2. Reads(i)[n] \in Seq(Address)
    BY <1>2, <1>3
  <2>3. a \in Address
    BY <2>1, <2>2 DEF ToSet
  <2>4. \A j \in Valid : PoolOf(j) # a
    BY <1>5, <2>1 DEF Valid, Items, Refused
  <2>5. QED
    BY <2>3, <2>4 DEF Primary
<1>8. QED
  BY <1>2, <1>3, <1>4, <1>5, <1>6, <1>7 DEF Primary

LEMMA PrimaryAddresses ==
  ASSUME bulk \in Bulk
  PROVE  Primary \subseteq Address
BY ItemReads DEF Primary

\* The first of the items that are left.
LEMMA CurrentLeft ==
  ASSUME bulk \in Bulk, Left # {}
  PROVE  Current \in Valid /\ results[Current] = Unresolved
<1>1. Left \in SUBSET Nat
  BY BulkItems DEF Left
<1>2. \E i \in Left : \A j \in Left : i <= j
  BY <1>1, Minimum
<1>3. Current \in Left
  BY <1>2 DEF Current
<1>4. QED
  BY <1>3 DEF Left

\* The priming asks for the pool of every valid item, and for nothing else.
LEMMA Primes ==
  ASSUME bulk \in Bulk
  PROVE  /\ PrimeAddresses \in Seq(Address)
         /\ \A n \in 1 .. Len(PrimeAddresses) : PrimeAddresses[n] \in Primary
         /\ \A i \in Valid : \E n \in 1 .. Len(PrimeAddresses) : PrimeAddresses[n] = PoolOf(i)
<1> DEFINE N == Cardinality(Valid)
           UpTo(i) == {j \in Valid : j <= i}
           rank == [i \in Valid |-> Cardinality(UpTo(i))]
<1>1. N \in Nat /\ IsFiniteSet(Valid) /\ Valid \subseteq Nat
  BY BulkItems
<1>2. ASSUME NEW i \in Valid
      PROVE  /\ IsFiniteSet(UpTo(i)) /\ rank[i] \in 1 .. N
  <2>1. UpTo(i) \subseteq Valid /\ i \in UpTo(i)
    BY <1>1
  <2> DEFINE below == UpTo(i)
  <2> HIDE DEF below
  <2>2. below \subseteq Valid /\ below # {}
    BY <2>1 DEF below
  <2>3. /\ IsFiniteSet(below) /\ Cardinality(below) \in Nat
        /\ Cardinality(below) <= N /\ Cardinality(below) # 0
    BY <1>1, <2>2, FS_Subset, FS_CardinalityType, FS_EmptySet
  <2>4. rank[i] = Cardinality(below)
    BY DEF below
  <2>5. QED
    BY <1>1, <2>3, <2>4 DEF below
<1>3. ASSUME NEW i \in Valid, NEW j \in Valid, i < j
      PROVE  rank[i] # rank[j]
  <2>1. UpTo(i) \subseteq UpTo(j) /\ j \in UpTo(j) /\ j \notin UpTo(i)
    <3>1. i \in Nat /\ j \in Nat /\ ~ (j <= i) /\ j <= j
      BY <1>1, <1>3
    <3>2. \A x \in Valid : x <= i => x <= j
      BY <1>1, <1>3, <3>1
    <3>3. QED
      BY <3>1, <3>2
  <2>2. rank[i] = Cardinality(UpTo(i)) /\ rank[j] = Cardinality(UpTo(j))
    OBVIOUS
  <2>3. IsFiniteSet(UpTo(j))
    BY <1>2
  <2> HIDE DEF UpTo, rank
  <2>4. QED
    BY <2>1, <2>2, <2>3, FS_Subset
<1>4. \A i, j \in Valid : rank[i] = rank[j] => i = j
  BY <1>1, <1>3
<1>5. rank \in Injection(Valid, 1 .. N)
  BY <1>2, <1>4 DEF Injection, IsInjective
<1>6. \A n \in 1 .. N : \E i \in Valid : rank[i] = n
  <2>1. IsFiniteSet(1 .. N) /\ Cardinality(1 .. N) = N
    <3> HIDE DEF N
    <3>1. QED
      BY <1>1, FS_Interval
  <2>2. rank \in Surjection(Valid, 1 .. N)
    <3> HIDE DEF rank
    <3>1. QED
      BY <1>5, <2>1, FS_Injection
  <2>3. QED
    BY <2>2 DEF Surjection
<1>7. \A n \in 1 .. N : NthValid(n) \in Valid /\ rank[NthValid(n)] = n
  <2> SUFFICES ASSUME NEW n \in 1 .. N
               PROVE  NthValid(n) \in Valid /\ rank[NthValid(n)] = n
    OBVIOUS
  <2>1. \E i \in Valid : Cardinality({j \in Valid : j <= i}) = n
    BY <1>6
  <2>2. NthValid(n) \in Valid /\ Cardinality({j \in Valid : j <= NthValid(n)}) = n
    BY <2>1 DEF NthValid
  <2>3. QED
    BY <2>2
<1>8. /\ PrimeAddresses = [n \in 1 .. N |-> PoolOf(NthValid(n))]
  BY DEF PrimeAddresses, PoolOf
<1>9. \A n \in 1 .. N : PoolOf(NthValid(n)) \in Address /\ PoolOf(NthValid(n)) \in Primary
  BY <1>7, ItemReads
<1> HIDE DEF N, rank
<1>10. PrimeAddresses \in Seq(Address) /\ Len(PrimeAddresses) = N
  BY <1>1, <1>8, <1>9
<1>11. ASSUME NEW i \in Valid
       PROVE  \E n \in 1 .. N : PrimeAddresses[n] = PoolOf(i)
  <2>1. rank[i] \in 1 .. N /\ NthValid(rank[i]) = i
    BY <1>2, <1>4, <1>7
  <2>2. QED
    BY <1>8, <2>1
<1>12. QED
  BY <1>8, <1>9, <1>10, <1>11

\* The items of a bulk are what they are.
\* The items of a bulk are what they are.
LEMMA SameItems ==
  ASSUME bulk' = bulk
  PROVE  /\ Items' = Items /\ Valid' = Valid /\ Primary' = Primary
         /\ PrimeAddresses' = PrimeAddresses
         /\ \A i : Reads(i)' = Reads(i) /\ PoolOf(i)' = PoolOf(i) /\ Others(i)' = Others(i)
         /\ \A i : Refused(i)' = Refused(i) /\ Curve(i)' = Curve(i)
BY DEF Items, Valid, Refused, Reads, Curve, Primary, PoolOf, Others, PrimeAddresses,
   NthValid

LEMMA SameResults ==
  ASSUME bulk' = bulk, results' = results
  PROVE  /\ Left' = Left /\ Current' = Current
         /\ \A i : Calculated(i)' = Calculated(i) /\ Used(i)' = Used(i)
         /\ \A i : Counted(i)' = Counted(i)
         /\ \A i, code : FailedWith(i, code)' = FailedWith(i, code)
BY SameItems DEF Left, Current, Calculated, Used, Counted, FailedWith, WithError, NoMetrics

\* So do the items that follow what came before them.
LEMMA SameOrder ==
  ASSUME bulk' = bulk, results' = results
  PROVE  /\ OrderInv' <=> OrderInv
         /\ SuppliesInOrder' <=> SuppliesInOrder
         /\ CurvesAgree' <=> CurvesAgree
<1>1. /\ Items' = Items /\ Valid' = Valid
      /\ \A i : Curve(i)' = Curve(i)
      /\ \A i : Calculated(i)' = Calculated(i) /\ Used(i)' = Used(i)
  BY SameItems, SameResults
<1>2. OrderInv' <=> OrderInv
  BY <1>1 DEF OrderInv
<1>3. SuppliesInOrder' <=> SuppliesInOrder
  BY <1>1 DEF SuppliesInOrder
<1>4. CurvesAgree' <=> CurvesAgree
  BY <1>1 DEF CurvesAgree
<1>5. QED
  BY <1>2, <1>3, <1>4

\* What an item that was calculated holds.
LEMMA UsedFacts ==
  ASSUME GroupTypes, NEW i \in Items, Calculated(i)
  PROVE  /\ Used(i) \in Metrics /\ Used(i).accounts \in Seq(Info)
         /\ Used(i).supply \in 0 .. MaxSlot /\ Used(i).curve \in Info \cup {Nil}
<1>1. results[i] \in Outcome
  BY DEF GroupTypes, Calculated
<1>2. QED
  BY <1>1 DEF Outcome, Used, Metrics
----------------------------------------------------------------------------
(* Every step keeps the invariant.                                         *)

\* What the client and the chain do while the bulk waits.
LEMMA WaitStep ==
  ASSUME GroupInv, UNCHANGED bulkVars, IInv', LoaderInv(Goroutine)', Goes(Goroutine),
         before'[Goroutine] = before[Goroutine]
  PROVE  GroupInv'
<1> DEFINE g == Goroutine
<1>1. BulkInv /\ IInv /\ LoaderInv(g) /\ bulk \in Bulk /\ g \in Caller
  BY GoroutineAssumption DEF GroupInv, BulkInv, GroupTypes
<1>2. /\ bulk' = bulk /\ stage' = stage /\ step' = step /\ seen' = seen
      /\ supply' = supply /\ results' = results /\ lost' = lost /\ said' = said
      /\ Left' = Left /\ Current' = Current /\ Valid' = Valid /\ Items' = Items
      /\ Primary' = Primary /\ PrimeAddresses' = PrimeAddresses
      /\ \A i : Reads(i)' = Reads(i) /\ PoolOf(i)' = PoolOf(i) /\ Others(i)' = Others(i)
      /\ \A i : Refused(i)' = Refused(i) /\ Calculated(i)' = Calculated(i)
      /\ \A i : Curve(i)' = Curve(i) /\ Used(i)' = Used(i) /\ Counted(i)' = Counted(i)
      /\ \A i, code : FailedWith(i, code)' = FailedWith(i, code)
  BY SameItems, SameResults DEF bulkVars
<1>3. Primary \subseteq Address
  BY <1>1, PrimaryAddresses
<1>4. cache \in [Address -> Info \cup {Nil}] /\ slot \in Nat
      /\ \A info \in Info : info # Nil /\ info.address \in Address
  <2>1. cache \in [Address -> Info \cup {Nil}] /\ slot \in Nat
    BY <1>1 DEF IInv, TypeOK
  <2>2. \A info \in Info : info # Nil /\ info.address \in Address
    BY NilAssumption DEF Info
  <2>3. QED
    BY <2>1, <2>2
<1>5. GroupTypes'
  BY <1>1, <1>2 DEF BulkInv, GroupTypes
<1>6. StageInv'
  BY <1>1, <1>2 DEF BulkInv, StageInv, Complete, Goes, Idle
<1>7. PrimeInv'
  <2>1. stage = "start" => \A a \in Address : cache'[a] = Nil
    BY <1>1 DEF BulkInv, StageInv, PrimeInv, Goes
  <2>2. stage = "prime" => \A a \in Address : cache'[a] # Nil => a \in Primary
    <3> SUFFICES ASSUME stage = "prime", NEW a \in Address, cache'[a] # Nil, cache[a] = Nil
                 PROVE  a \in Primary
      BY <1>1 DEF BulkInv, PrimeInv
    <3>1. \E i \in 1 .. Len(PrimeAddresses) : PrimeAddresses[i] = a
      BY <1>1 DEF BulkInv, StageInv, Goes
    <3>2. QED
      BY <1>1, <3>1, Primes
  <2>3. stage = "prime" => \A a \in Address : before'[g][a] = Nil
    BY <1>1 DEF BulkInv, PrimeInv
  <2>4. stage \in {"items", "read", "fdv"} /\ Left # {} => \A a \in Primary : cache'[a] # Nil
    BY <1>1, <1>3 DEF BulkInv, PrimeInv, Goes
  <2>5. QED
    BY <1>2, <2>1, <2>2, <2>3, <2>4 DEF PrimeInv
<1>8. ASSUME NEW s \in Seq(Info), NEW i, FromCache(s, i)
      PROVE  FromCache(s, i)'
  <2>1. \A m \in 1 .. Len(s) : s[m] = cache'[s[m].address]
    <3> SUFFICES ASSUME NEW m \in 1 .. Len(s) PROVE s[m] = cache'[s[m].address]
      OBVIOUS
    <3>1. s[m] \in Info /\ s[m] = cache[s[m].address]
      BY <1>8 DEF FromCache, OfItem
    <3>2. QED
      BY <1>1, <1>4, <3>1 DEF Goes
  <2>2. QED
    BY <1>2, <1>8, <2>1 DEF FromCache, OfItem, Exists
<1>9. ResultInv'
  <2>1. FromCache(seen, Current)'
    <3>1. seen \in Seq(Info) /\ FromCache(seen, Current)
      BY <1>1 DEF BulkInv, GroupTypes, ResultInv
    <3>2. QED
      BY <1>2, <1>8, <3>1 DEF FromCache, OfItem
  <2>2. ASSUME NEW i \in Items, Calculated(i)
        PROVE  i \in Valid /\ FromCache(Used(i).accounts, i)'
    <3>1. i \in Valid /\ FromCache(Used(i).accounts, i)
      BY <1>1, <2>2 DEF BulkInv, ResultInv
    <3>2. Used(i).accounts \in Seq(Info)
      BY <1>1, <2>2, UsedFacts DEF BulkInv
    <3>3. QED
      BY <1>2, <1>8, <3>1, <3>2 DEF FromCache, OfItem, Used
  <2>3. \A i \in Items : FailedWith(i, "account_not_found")' => Reason(i)'
    BY <1>1, <1>2 DEF BulkInv, ResultInv, Reason, Goes
  <2>4. QED
    BY <1>2, <2>1, <2>2, <2>3 DEF ResultInv
<1>10. ViewInv'
  <2>1. ASSUME NEW a \in Primary, NEW b \in Address \ Primary,
               cache'[a] # Nil, cache'[b] # Nil, Exists(cache'[b])
        PROVE  cache'[a].slot <= cache'[b].slot
    <3>1. a \in Address
      BY <1>3
    <3>2. CASE cache[b] = Nil
      <4>1. stage \in {"prime", "read", "fdv"}
        BY <1>1, <2>1, <3>2 DEF BulkInv, StageInv, Goes
      <4>2. stage # "prime"
        BY <1>2, <1>7, <2>1 DEF PrimeInv
      <4>3. cache[a] # Nil /\ cache'[a] = cache[a]
        BY <1>1, <3>1, <4>1, <4>2 DEF BulkInv, StageInv, Complete, PrimeInv, Goes
      <4>4. PICK i \in 1 .. Len(infos[g]) : infos[g][i] = cache'[b]
        BY <1>1, <2>1, <3>2 DEF Goes
      <4>5. Exists(infos[g][i])
        BY <2>1, <4>4
      <4>6. cache[a].slot <= infos[g][i].slot
        BY <1>1, <4>1, <4>2, <4>5 DEF BulkInv, ViewInv
      <4>7. QED
        BY <4>3, <4>4, <4>6
    <3>3. CASE cache[b] # Nil /\ cache[a] = Nil
      <4>1. stage \in {"prime", "read", "fdv"}
        BY <1>1, <2>1, <3>1, <3>3 DEF BulkInv, StageInv, Goes
      <4>2. stage # "prime"
        BY <1>1, <2>1, <3>3 DEF BulkInv, PrimeInv
      <4>3. QED
        BY <1>1, <3>3, <4>1, <4>2 DEF BulkInv, StageInv, Complete, PrimeInv
    <3>4. CASE cache[b] # Nil /\ cache[a] # Nil
      <4>1. cache'[a] = cache[a] /\ cache'[b] = cache[b]
        BY <1>1, <3>1, <3>4 DEF Goes
      <4>2. Exists(cache[b])
        BY <2>1, <4>1
      <4>3. QED
        BY <1>1, <3>4, <4>1, <4>2 DEF BulkInv, ViewInv
    <3>5. QED
      BY <3>2, <3>3, <3>4
  <2>2. ASSUME stage \in {"read", "fdv"}, NEW a \in Primary, NEW i \in 1 .. Len(infos'[g]),
               Exists(infos'[g][i])
        PROVE  cache'[a].slot <= infos'[g][i].slot
    <3>1. a \in Address /\ cache[a] # Nil /\ cache'[a] = cache[a]
      BY <1>1, <1>3, <2>2 DEF BulkInv, StageInv, Complete, PrimeInv, Goes
    <3>2. cache[a].slot <= slot
      BY <1>1, <3>1 DEF LoaderInv, SlotInv
    <3>3. CASE infos'[g][i].slot = slot
      BY <3>1, <3>2, <3>3
    <3>4. CASE i \in 1 .. Len(infos[g]) /\ infos'[g][i] = infos[g][i]
      <4>1. Exists(infos[g][i])
        BY <2>2, <3>4
      <4>2. QED
        BY <1>1, <2>2, <3>1, <3>4, <4>1 DEF BulkInv, ViewInv
    <3>5. QED
      BY <1>1, <2>2, <3>3, <3>4 DEF Goes
  <2>3. QED
    BY <1>2, <2>1, <2>2 DEF ViewInv, Exists
<1>11. CurveInv'
  <2> SUFFICES ASSUME bulk.curves PROVE CurveInv'
    BY <1>2 DEF CurveInv
  <2>1. stage = "read" => pc'[g] \in {"look", "done"}
    <3> SUFFICES ASSUME stage = "read" PROVE pc'[g] \in {"look", "done"}
      OBVIOUS
    <3>1. Current \in Valid /\ Len(Reads(Current)) = 1 /\ step = 0
          /\ req[g] = Reads(Current)[step + 1]
      <4>1. Current \in Valid /\ step < Len(Reads(Current)) /\ step \in Nat
            /\ req[g] = Reads(Current)[step + 1]
        BY <1>1, CurrentLeft DEF BulkInv, GroupTypes, StageInv
      <4>2. Len(Reads(Current)) = 1
        BY <1>1, <4>1, ItemReads
      <4>3. QED
        BY <4>1, <4>2
    <3>2. req[g][1] = PoolOf(Current) /\ PoolOf(Current) \in Primary
      BY <1>1, <3>1, ItemReads DEF PoolOf
    <3>3. cache[req[g][1]] # Nil
      BY <1>1, <3>2 DEF BulkInv, StageInv, PrimeInv
    <3>4. pc[g] \in {"look", "done"}
      BY <1>1 DEF BulkInv, CurveInv
    <3>5. QED
      BY <1>1, <3>3, <3>4 DEF Goes, Idle
  <2>2. ASSUME NEW i \in Valid, cache[PoolOf(i)] # Nil
        PROVE  cache'[PoolOf(i)] = cache[PoolOf(i)]
    <3>1. PoolOf(i) \in Address
      BY <1>1, ItemReads
    <3>2. QED
      BY <1>1, <2>2, <3>1 DEF Goes
  <2>3. stage \in {"items", "read", "returned"} =>
          \/ \E code \in Codes : \A i \in Valid : FailedWith(i, code)
          \/ \A i \in Valid : /\ cache'[PoolOf(i)] # Nil
                              /\ results[i] \in {Unresolved, CurveOutcome(i)'}
    BY <1>1, <1>2, <2>2
       DEF BulkInv, CurveInv, CurveOutcome, WithMetrics, WithError, NoMetrics, Exists
  <2>4. QED
    BY <1>2, <2>1, <2>3 DEF CurveInv, Codes
<1>12. OrderInv'
  BY <1>1, <1>2, SameOrder DEF BulkInv
<1>13. SupplyInv'
  <2>1. SuppliesInOrder'
    BY <1>1, <1>2, SameOrder DEF BulkInv, SupplyInv
  <2>2. slot <= slot' /\ slot' \in Nat /\ slot \in Nat /\ supply \in Nat
    BY <1>1 DEF Goes, IInv, TypeOK, BulkInv, GroupTypes
  <2>3. ASSUME NEW i \in Items, Calculated(i)
        PROVE  Used(i).supply \in Nat /\ Used(i).supply <= slot'
    <3>1. Used(i).supply \in 0 .. MaxSlot /\ MaxSlot \in Nat
      BY <1>1, <2>3, UsedFacts, BoundAssumption DEF BulkInv
    <3>2. Used(i).supply <= slot
      BY <1>1, <2>3 DEF BulkInv, SupplyInv
    <3>3. QED
      BY <2>2, <3>1, <3>2
  <2>4. stage = "fdv" => supply <= slot'
    BY <1>1, <2>2 DEF BulkInv, SupplyInv
  <2>5. QED
    BY <1>1, <1>2, <2>1, <2>3, <2>4 DEF BulkInv, SupplyInv
<1>14. FdvInv'
  <2>1. CurvesAgree'
    BY <1>1, <1>2, SameOrder DEF BulkInv, FdvInv
  <2>2. ASSUME NEW i \in Items, Counted(i)
        PROVE  /\ Curve(i) \in Address /\ ~ bulk.curves
               /\ Used(i).curve = cache[Curve(i)] /\ Exists(Used(i).curve)
               /\ cache[Curve(i)] # Nil /\ cache'[Curve(i)] = cache[Curve(i)]
    <3>1. /\ ~ bulk.curves /\ i \in Valid
          /\ Used(i).curve = cache[Curve(i)] /\ Exists(Used(i).curve) /\ Used(i).curve # Nil
      BY <1>1, <2>2 DEF BulkInv, FdvInv, ResultInv, Counted
    <3>2. Curve(i) \in Address
      BY <1>1, <3>1, ItemReads
    <3>3. QED
      BY <1>1, <3>1, <3>2 DEF Goes
  <2>3. ASSUME NEW i \in Items, Counted(i), stage = "fdv", Curve(i) = Curve(Current)
        PROVE  pc'[g] \in {"look", "done"}
    <3>1. pc[g] \in {"look", "done"} /\ req[g] = <<Curve(Current)>>
      BY <1>1, <2>3 DEF BulkInv, FdvInv, StageInv
    <3>2. cache[req[g][1]] # Nil
      BY <2>2, <2>3, <3>1
    <3>3. QED
      BY <1>1, <3>1, <3>2 DEF Goes, Idle
  <2>4. QED
    BY <1>2, <2>1, <2>2, <2>3 DEF FdvInv, Exists
<1>15. QED
  BY <1>5, <1>6, <1>7, <1>9, <1>10, <1>11, <1>12, <1>13, <1>14 DEF GroupInv, BulkInv

\* While the bulk goes on, the client stands still.
LEMMA StillLoader ==
  ASSUME IInv, NEW c \in Caller, LoaderInv(c), UNCHANGED vars
  PROVE  IInv' /\ LoaderInv(c)'
<1>1. IInv'
  BY NextIInv
<1>2. LoaderInv(c)'
  BY DEF LoaderInv, AloneInv, SlotInv, Covered, vars, chain, shared, local, history
<1>3. QED
  BY <1>1, <1>2

LEMMA OutcomeFacts ==
  /\ \A code \in Codes : /\ WithError(code) \in Outcome /\ WithError(code) # Unresolved
                         /\ WithError(code).error = code /\ code # Nil
  /\ \A s \in Seq(Info), at \in 0 .. MaxSlot, curve \in Info \cup {Nil} :
       /\ WithMetrics(s, at, curve) \in Outcome /\ WithMetrics(s, at, curve) # Unresolved
       /\ WithMetrics(s, at, curve).error = Nil
       /\ WithMetrics(s, at, curve).metrics =
            [accounts |-> s, supply |-> at, curve |-> curve]
  /\ Unresolved \notin Outcome
<1>1. Unresolved \notin Outcome
  BY UnresolvedAssumption DEF Outcome
<1>2. NoMetrics \in Metrics
  BY BoundAssumption DEF NoMetrics, Metrics
<1>3. \A code \in Codes : /\ WithError(code) \in Outcome
                          /\ WithError(code).error = code /\ code # Nil
  BY <1>2, UnresolvedAssumption DEF WithError, Outcome
<1>4. \A s \in Seq(Info), at \in 0 .. MaxSlot, curve \in Info \cup {Nil} :
        /\ WithMetrics(s, at, curve) \in Outcome
        /\ WithMetrics(s, at, curve).error = Nil
        /\ WithMetrics(s, at, curve).metrics =
             [accounts |-> s, supply |-> at, curve |-> curve]
  BY DEF WithMetrics, Outcome, Metrics
<1>5. QED
  BY <1>1, <1>3, <1>4

\* An item with an error was not calculated.
LEMMA ErrorFacts ==
  ASSUME NEW i, NEW code \in Codes, results[i] = WithError(code)
  PROVE  ~ Calculated(i) /\ ~ Counted(i) /\ results[i] # Unresolved
BY OutcomeFacts DEF Calculated, Counted

\* The priming is answered: from now on all pools are held.
LEMMA PrimedStep ==
  ASSUME GroupInv, Primed
  PROVE  GroupInv'
<1> DEFINE g == Goroutine
<1>1. BulkInv /\ IInv /\ LoaderInv(g) /\ bulk \in Bulk /\ g \in Caller
  BY GoroutineAssumption DEF GroupInv, BulkInv, GroupTypes
<1>2. /\ stage = "prime" /\ pc[g] = "done" /\ stage' = "items"
      /\ UNCHANGED <<vars, bulk, step, seen, supply, results, lost, said>>
      /\ pc' = pc /\ cache' = cache /\ confirmed' = confirmed /\ slot' = slot
  BY DEF Primed, vars, chain, shared, local, history
<1>3. /\ Left' = Left /\ Current' = Current /\ Valid' = Valid /\ Items' = Items
      /\ Primary' = Primary
      /\ \A i : Reads(i)' = Reads(i) /\ PoolOf(i)' = PoolOf(i) /\ Others(i)' = Others(i)
      /\ \A i : Refused(i)' = Refused(i) /\ Calculated(i)' = Calculated(i)
      /\ \A i : Curve(i)' = Curve(i) /\ Used(i)' = Used(i) /\ Counted(i)' = Counted(i)
      /\ \A i, code : FailedWith(i, code)' = FailedWith(i, code)
  BY <1>2, SameItems, SameResults
<1>4. IInv' /\ LoaderInv(g)'
  BY <1>1, <1>2, StillLoader
<1>5. GroupTypes' /\ StageInv'
  BY <1>1, <1>2, <1>3 DEF BulkInv, GroupTypes, StageInv, Idle
<1>6. ASSUME NEW i \in Valid PROVE cache[PoolOf(i)] # Nil
  <2>1. PICK n \in 1 .. Len(PrimeAddresses) : PrimeAddresses[n] = PoolOf(i)
    BY <1>1, Primes
  <2>2. req[g] = PrimeAddresses /\ Len(out[g]) = Len(req[g])
    BY <1>1, <1>2 DEF BulkInv, StageInv, IInv, CallInv, AnswerInv
  <2>3. out[g] \in Seq(Info)
    BY <1>1 DEF IInv, TypeOK
  <2>4. out[g][n] \in Info /\ out[g][n] = cache[PoolOf(i)]
    BY <1>1, <2>1, <2>2, <2>3 DEF LoaderInv, AloneInv
  <2>5. QED
    BY <2>4, NilAssumption
<1>7. PrimeInv'
  <2>1. \A a \in Primary : cache[a] # Nil
    BY <1>6 DEF Primary
  <2>2. QED
    BY <1>2, <1>3, <2>1 DEF PrimeInv
<1>8. ResultInv' /\ ViewInv'
  BY <1>1, <1>2, <1>3 DEF BulkInv, ResultInv, FromCache, OfItem, Reason, ViewInv, Exists
<1>9. CurveInv'
  <2>1. \A i \in Valid : results[i] = Unresolved
    BY <1>1, <1>2 DEF BulkInv, StageInv, Left
  <2>2. QED
    BY <1>2, <1>3, <1>6, <2>1 DEF CurveInv
<1>10. OrderInv' /\ SupplyInv' /\ FdvInv'
  BY <1>1, <1>2, <1>3, SameOrder DEF BulkInv, SupplyInv, FdvInv, Exists
<1>11. QED
  BY <1>4, <1>5, <1>7, <1>8, <1>9, <1>10 DEF GroupInv, BulkInv

\* The addresses a failed call was to fetch are those it asked for and did not hold.
LEMMA FailedFor ==
  ASSUME GroupInv, pc[Goroutine] = "failed", NEW n \in 1 .. Len(req[Goroutine])
  PROVE  \/ cache[req[Goroutine][n]] # Nil
         \/ req[Goroutine][n] \in ToSet(missing[Goroutine])
<1>1. Covered(Goroutine, Len(req[Goroutine]))
  BY DEF GroupInv, LoaderInv, AloneInv
<1>2. missing[Goroutine] \in Seq(Address)
  BY GoroutineAssumption DEF GroupInv, IInv, TypeOK
<1>3. QED
  BY <1>1, <1>2 DEF Covered, Contains, ToSet

\* The priming failed: there is nothing left to do.
LEMMA PrimeFailsStep ==
  ASSUME GroupInv, PrimeFails
  PROVE  GroupInv'
<1> DEFINE g == Goroutine
<1>1. BulkInv /\ IInv /\ LoaderInv(g) /\ bulk \in Bulk /\ g \in Caller
  BY GoroutineAssumption DEF GroupInv, BulkInv, GroupTypes
<1>2. PICK code \in CallCodes :
        /\ stage = "prime" /\ pc[g] = "failed" /\ stage' = "items"
        /\ results' = [i \in Items |-> IF i \in Valid THEN WithError(code) ELSE results[i]]
        /\ lost' = LostWith(code)
        /\ UNCHANGED <<vars, bulk, step, seen, supply, said>>
        /\ pc' = pc /\ cache' = cache /\ confirmed' = confirmed /\ slot' = slot
  BY DEF PrimeFails, vars, chain, shared, local, history
<1>3. /\ Valid' = Valid /\ Items' = Items /\ Primary' = Primary
      /\ \A i : Reads(i)' = Reads(i) /\ PoolOf(i)' = PoolOf(i) /\ Others(i)' = Others(i)
      /\ \A i : Refused(i)' = Refused(i)
  BY <1>2, SameItems
<1>4. IInv' /\ LoaderInv(g)'
  BY <1>1, <1>2, StillLoader
<1>5. /\ \A i \in Valid : i \in Items
      /\ \A i \in Items : Refused(i) <=> i \notin Valid
  BY DEF Valid
<1>6. /\ \A i \in Valid : results'[i] = WithError(code)
      /\ \A i \in Items : i \notin Valid => results'[i] = results[i]
  BY <1>2, <1>5
<1>7. code \in Codes
  BY DEF CallCodes, Codes
<1>8. \A i \in Items : ~ Calculated(i)' /\ ~ Counted(i)' /\ results'[i] # Unresolved
  <2>1. \A c \in Codes : WithError(c).error # Nil /\ WithError(c) # Unresolved
    BY OutcomeFacts
  <2>2. \A i \in Items : \E c \in Codes : results'[i] = WithError(c)
    <3>1. \A i \in Items : i \notin Valid => results[i] = WithError("invalid_argument")
      BY <1>1, <1>2, <1>5 DEF BulkInv, StageInv, FailedWith
    <3>2. QED
      BY <1>6, <1>7, <3>1 DEF Codes
  <2>3. QED
    BY <2>1, <2>2 DEF Calculated, Counted
<1>9. Left' = {}
  BY <1>3, <1>5, <1>8 DEF Left
<1>10. step = 0 /\ seen = <<>>
  BY <1>1, <1>2 DEF BulkInv, GroupTypes, StageInv
<1>11. GroupTypes'
  <2>1. WithError(code) \in Outcome
    BY <1>7, OutcomeFacts
  <2>2. QED
    BY <1>1, <1>2, <1>3, <2>1 DEF BulkInv, GroupTypes
<1>12. StageInv'
  BY <1>1, <1>2, <1>3, <1>5, <1>6, <1>9, <1>10
     DEF BulkInv, StageInv, Idle, FailedWith, WithError, NoMetrics
<1>13. PrimeInv' /\ ViewInv'
  BY <1>1, <1>2, <1>3, <1>9 DEF BulkInv, PrimeInv, ViewInv, Exists
<1>14. ResultInv'
  <2>1. FromCache(seen, Current)'
    BY <1>2, <1>10 DEF FromCache, OfItem
  <2>2. ASSUME NEW i \in Valid, FailedWith(i, "account_not_found")'
        PROVE  Reason(i)'
    <3>1. code = "account_not_found"
      <4>1. WithError(code) = WithError("account_not_found")
        BY <1>6, <2>2 DEF FailedWith, WithError, NoMetrics
      <4>2. QED
        BY <4>1 DEF WithError
    <3>2. lost' = lost \cup ToSet(missing[g])
      BY <1>2, <3>1 DEF LostWith
    <3>3. PICK n \in 1 .. Len(PrimeAddresses) : PrimeAddresses[n] = PoolOf(i)
      BY <1>1, Primes
    <3>4. req[g] = PrimeAddresses /\ PoolOf(i) \in Address
      BY <1>1, <1>2, ItemReads DEF BulkInv, StageInv
    <3>5. cache[PoolOf(i)] = Nil
      BY <1>1, <1>2, <3>4 DEF BulkInv, PrimeInv, LoaderInv, AloneInv
    <3>6. PoolOf(i) \in lost'
      BY <1>2, <3>2, <3>3, <3>4, <3>5, FailedFor
    <3>7. 1 \in DOMAIN Reads(i) /\ PoolOf(i) \in ToSet(Reads(i)[1])
      <4>1. /\ Reads(i) \in Seq(Seq(Address)) /\ Len(Reads(i)) \in Nat \ {0}
            /\ Reads(i)[1] \in Seq(Address) /\ Len(Reads(i)[1]) = 1
        BY <1>1, ItemReads
      <4>2. 1 \in DOMAIN Reads(i)
        BY <4>1
      <4>3. 1 \in DOMAIN Reads(i)[1]
        BY <4>1
      <4>4. QED
        BY <4>2, <4>3 DEF PoolOf, ToSet
    <3>8. QED
      BY <1>3, <3>6, <3>7 DEF Reason
  <2>3. ASSUME NEW i \in Items, i \notin Valid
        PROVE  ~ FailedWith(i, "account_not_found")'
    <3>1. results'[i] = WithError("invalid_argument")
      BY <1>1, <1>2, <1>5, <1>6, <2>3 DEF BulkInv, StageInv, FailedWith
    <3>2. QED
      BY <3>1 DEF FailedWith, WithError
  <2>4. QED
    BY <1>3, <1>8, <2>1, <2>2, <2>3 DEF ResultInv
<1>15. CurveInv'
  <2>1. \A i \in Valid : FailedWith(i, code)'
    BY <1>6 DEF FailedWith, WithError, NoMetrics
  <2>2. QED
    BY <1>2, <1>3, <1>7, <2>1 DEF CurveInv, Codes
<1>16. OrderInv' /\ SupplyInv' /\ FdvInv'
  BY <1>2, <1>3, <1>5, <1>8
     DEF OrderInv, SupplyInv, SuppliesInOrder, FdvInv, CurvesAgree, Counted
<1>17. QED
  BY <1>4, <1>11, <1>12, <1>13, <1>14, <1>15, <1>16 DEF GroupInv, BulkInv

LEMMA ReturnStep ==
  ASSUME GroupInv, Return
  PROVE  GroupInv'
<1> DEFINE g == Goroutine
<1>1. BulkInv /\ IInv /\ LoaderInv(g) /\ bulk \in Bulk /\ g \in Caller
  BY GoroutineAssumption DEF GroupInv, BulkInv, GroupTypes
<1>2. /\ stage = "items" /\ Left = {} /\ stage' = "returned"
      /\ UNCHANGED <<vars, bulk, step, seen, supply, results, lost, said>>
      /\ pc' = pc /\ cache' = cache /\ confirmed' = confirmed /\ slot' = slot
  BY DEF Return, vars, chain, shared, local, history
<1>3. /\ Left' = Left /\ Current' = Current /\ Valid' = Valid /\ Items' = Items
      /\ Primary' = Primary
      /\ \A i : Reads(i)' = Reads(i) /\ PoolOf(i)' = PoolOf(i) /\ Others(i)' = Others(i)
      /\ \A i : Refused(i)' = Refused(i) /\ Calculated(i)' = Calculated(i)
      /\ \A i : Curve(i)' = Curve(i) /\ Used(i)' = Used(i) /\ Counted(i)' = Counted(i)
      /\ \A i, code : FailedWith(i, code)' = FailedWith(i, code)
  BY <1>2, SameItems, SameResults
<1>4. IInv' /\ LoaderInv(g)'
  BY <1>1, <1>2, StillLoader
<1>5. GroupTypes' /\ StageInv' /\ PrimeInv'
  BY <1>1, <1>2, <1>3 DEF BulkInv, GroupTypes, StageInv, PrimeInv, Idle
<1>6. ResultInv' /\ ViewInv'
  BY <1>1, <1>2, <1>3 DEF BulkInv, ResultInv, FromCache, OfItem, Reason, ViewInv, Exists
<1>7. CurveInv'
  BY <1>1, <1>2, <1>3
     DEF BulkInv, CurveInv, CurveOutcome, WithMetrics, WithError, NoMetrics, Exists, Codes
<1>8. OrderInv' /\ SupplyInv' /\ FdvInv'
  BY <1>1, <1>2, <1>3, SameOrder DEF BulkInv, SupplyInv, FdvInv, Exists
<1>9. QED
  BY <1>4, <1>5, <1>6, <1>7, <1>8 DEF GroupInv, BulkInv

\* What metrics of the current item must hold up to: they are of accounts that are
\* held, no supply is newer, and an FDV curve that counted before counts again.
HoldsUp(m) ==
  /\ FromCache(m.accounts, Current)
  /\ m.supply <= slot
  /\ ~ bulk.curves =>
       /\ \A n \in DOMAIN m.accounts : m.accounts[n].slot <= m.supply
       /\ \A i \in Items : Calculated(i) => Used(i).supply <= m.supply
  /\ m.curve # Nil =>
       ~ bulk.curves /\ m.curve = cache[Curve(Current)] /\ Exists(m.curve)
  /\ \A i \in Items : Counted(i) /\ Curve(i) = Curve(Current) => m.curve = Used(i).curve

\* The items are taken in order: those resolved come first.
LEMMA CurrentFirst ==
  ASSUME bulk \in Bulk, Left # {}, OrderInv, NEW i \in Valid, results[i] # Unresolved
  PROVE  i < Current
<1>1. Current \in Valid /\ results[Current] = Unresolved
  BY CurrentLeft
<1>2. i \in Nat /\ Current \in Nat
  BY <1>1, BulkItems
<1>3. ~ (Current < i)
  BY <1>1 DEF OrderInv
<1>4. i # Current
  BY <1>1
<1>5. QED
  BY <1>2, <1>3, <1>4

LEMMA CurrentLast ==
  ASSUME bulk \in Bulk, Left # {}, NEW i \in Valid, i < Current
  PROVE  results[i] # Unresolved
<1>1. Left \in SUBSET Nat /\ i \in Nat
  BY BulkItems DEF Left
<1>2. \E j \in Left : \A l \in Left : j <= l
  BY <1>1, Minimum
<1>3. Current \in Left /\ \A l \in Left : Current <= l
  BY <1>2 DEF Current
<1>4. Current \in Nat /\ ~ (Current <= i)
  BY <1>1, <1>3
<1>5. QED
  BY <1>3, <1>4 DEF Left

\* The current item gets an outcome: metrics of what it has read, or an error.
LEMMA ResolveStep ==
  ASSUME GroupInv, UNCHANGED vars, Left # {}, stage \in {"items", "read", "fdv"},
         pc[Goroutine] \in {"done", "failed"},
         NEW o \in Outcome, Resolve(o),
         lost \subseteq lost', said \subseteq said',
         o.error = Nil => HoldsUp(o.metrics),
         o = WithError("account_not_found") =>
           \/ \E n \in DOMAIN Reads(Current) :
                ToSet(Reads(Current)[n]) \cap (confirmed \cup lost') # {}
           \/ Current \in said',
         bulk.curves => o = CurveOutcome(Current)
  PROVE  GroupInv'
<1> DEFINE g == Goroutine
<1>0. PICK cur : cur = Current
  OBVIOUS
<1>1. BulkInv /\ IInv /\ LoaderInv(g) /\ bulk \in Bulk /\ g \in Caller
  BY GoroutineAssumption DEF GroupInv, BulkInv, GroupTypes
<1>2. /\ results' = [results EXCEPT ![cur] = o] /\ stage' = "items" /\ step' = 0
      /\ seen' = <<>> /\ supply' = 0 /\ bulk' = bulk
      /\ pc' = pc /\ cache' = cache /\ confirmed' = confirmed /\ slot' = slot
  BY <1>0 DEF Resolve, vars, chain, shared, local, history
<1>3. /\ Valid' = Valid /\ Items' = Items /\ Primary' = Primary
      /\ \A i : Reads(i)' = Reads(i) /\ PoolOf(i)' = PoolOf(i) /\ Others(i)' = Others(i)
      /\ \A i : Refused(i)' = Refused(i) /\ Curve(i)' = Curve(i)
  BY <1>2, SameItems
<1>4. IInv' /\ LoaderInv(g)'
  BY <1>1, StillLoader
<1>5. cur \in Valid /\ cur \in Items /\ results[cur] = Unresolved
  BY <1>0, <1>1, CurrentLeft DEF Valid
<1>6. /\ \A i \in Valid : results[i] # Unresolved => i < cur
      /\ \A i \in Valid : i < cur => results[i] # Unresolved
      /\ \A i \in Items : i \in Nat
  BY <1>0, <1>1, CurrentFirst, CurrentLast, BulkItems DEF BulkInv
<1>7. results \in [Items -> Outcome \cup {Unresolved}]
  BY <1>1 DEF BulkInv, GroupTypes
<1>8. o.error = Nil => HoldsUp(o.metrics)
  OBVIOUS
<1>9. o = WithError("account_not_found") =>
        \/ \E n \in DOMAIN Reads(cur) : ToSet(Reads(cur)[n]) \cap (confirmed \cup lost') # {}
        \/ cur \in said'
  BY <1>0
<1>10. bulk.curves => o = CurveOutcome(cur)
  BY <1>0
<1>11. Left' \subseteq Left
  <2>1. \A i \in Items : i # cur => results'[i] = results[i]
    BY <1>2, <1>5, <1>7
  <2>2. results'[cur] = o /\ o # Unresolved
    BY <1>2, <1>5, <1>7, OutcomeFacts
  <2>3. QED
    BY <1>3, <2>1, <2>2 DEF Left, Valid
<1> DEFINE m == o.metrics
<1>12. o.error = Nil =>
         /\ FromCache(m.accounts, cur)
         /\ m.supply <= slot
         /\ ~ bulk.curves =>
              /\ \A n \in DOMAIN m.accounts : m.accounts[n].slot <= m.supply
              /\ \A i \in Items : Calculated(i) => Used(i).supply <= m.supply
         /\ m.curve # Nil =>
              ~ bulk.curves /\ m.curve = cache[Curve(cur)] /\ Exists(m.curve)
         /\ \A i \in Items : Counted(i) /\ Curve(i) = Curve(cur) => m.curve = Used(i).curve
  BY <1>0, <1>8 DEF HoldsUp
<1>13. /\ results' \in [Items -> Outcome \cup {Unresolved}] /\ results'[cur] = o
       /\ \A i \in Items : i # cur => results'[i] = results[i]
  BY <1>2, <1>5, <1>7
<1>14. o # Unresolved
  BY OutcomeFacts
<1>15. /\ Calculated(cur)' <=> o.error = Nil
       /\ Used(cur)' = m
       /\ \A i \in Items : i # cur =>
            /\ Calculated(i)' = Calculated(i) /\ Used(i)' = Used(i)
            /\ Counted(i)' = Counted(i)
            /\ \A code : FailedWith(i, code)' = FailedWith(i, code)
  BY <1>13, <1>14 DEF Calculated, Used, Counted, FailedWith, WithError, NoMetrics
<1> HIDE DEF m
<1>16. \A i \in Items : Calculated(i) => i \in Valid /\ i # cur /\ i < cur
  BY <1>1, <1>5, <1>6 DEF BulkInv, ResultInv, Calculated
<1>17. GroupTypes'
  BY <1>1, <1>2, <1>3, <1>13, BoundAssumption DEF BulkInv, GroupTypes
<1>18. StageInv'
  <2>1. \A i \in Items : Refused(i) => i # cur
    BY <1>5 DEF Valid
  <2>2. \A i \in Items : Refused(i) => FailedWith(i, "invalid_argument")'
    BY <1>1, <1>15, <2>1 DEF BulkInv, StageInv
  <2>3. QED
    BY <1>2, <1>3, <2>2 DEF StageInv, Idle
<1>19. PrimeInv' /\ ViewInv'
  BY <1>1, <1>2, <1>3, <1>11 DEF BulkInv, PrimeInv, ViewInv, Exists
<1>20. ResultInv'
  <2>1. FromCache(seen, Current)'
    BY <1>2 DEF FromCache, OfItem
  <2>2. ASSUME NEW i \in Items, Calculated(i)'
        PROVE  i \in Valid /\ FromCache(Used(i).accounts, i)'
    <3>1. CASE i = cur
      <4>1. FromCache(m.accounts, cur)
        BY <1>12, <1>15, <2>2, <3>1
      <4>2. QED
        BY <1>2, <1>3, <1>5, <1>15, <3>1, <4>1 DEF FromCache, OfItem, Exists
    <3>2. CASE i # cur
      <4>1. Calculated(i) /\ Used(i)' = Used(i)
        BY <1>15, <2>2, <3>2
      <4>2. i \in Valid /\ FromCache(Used(i).accounts, i)
        BY <1>1, <4>1 DEF BulkInv, ResultInv
      <4>3. QED
        BY <1>2, <1>3, <4>1, <4>2 DEF FromCache, OfItem, Exists
    <3>3. QED
      BY <3>1, <3>2
  <2>3. ASSUME NEW i \in Items, FailedWith(i, "account_not_found")'
        PROVE  Reason(i)'
    <3>1. CASE i = cur
      <4>1. o = WithError("account_not_found")
        BY <1>13, <2>3, <3>1 DEF FailedWith, WithError, NoMetrics
      <4>2. QED
        BY <1>2, <1>3, <1>9, <3>1, <4>1 DEF Reason
    <3>2. CASE i # cur
      <4>1. Reason(i)
        BY <1>1, <1>15, <2>3, <3>2 DEF BulkInv, ResultInv
      <4>2. QED
        BY <1>2, <1>3, <4>1 DEF Reason
    <3>3. QED
      BY <3>1, <3>2
  <2>4. QED
    BY <1>3, <2>1, <2>2, <2>3 DEF ResultInv
<1>21. CurveInv'
  <2> SUFFICES ASSUME bulk.curves PROVE CurveInv'
    BY <1>2 DEF CurveInv
  <2>1. \A i \in Valid : CurveOutcome(i)' = CurveOutcome(i)
    BY <1>2, <1>3 DEF CurveOutcome, WithMetrics, WithError, NoMetrics, Exists
  <2>2. \A code \in Codes : ~ FailedWith(cur, code)
    BY <1>5, OutcomeFacts DEF FailedWith
  <2>3. \A i \in Valid : cache[PoolOf(i)] # Nil /\ results[i] \in {Unresolved, CurveOutcome(i)}
    <3>1. stage \in {"items", "read"}
      BY <1>1 DEF BulkInv, StageInv, Complete
    <3>2. QED
      BY <1>1, <1>5, <2>2, <3>1 DEF BulkInv, CurveInv
  <2>4. ASSUME NEW i \in Valid PROVE results'[i] \in {Unresolved, CurveOutcome(i)}
    <3>1. i \in Items
      BY DEF Valid
    <3>2. QED
      BY <1>10, <1>13, <2>3, <3>1
  <2>5. QED
    BY <1>2, <1>3, <2>1, <2>3, <2>4 DEF CurveInv
<1>22. OrderInv'
  <2> SUFFICES ASSUME NEW i \in Valid, NEW j \in Valid, i < j, results'[j] # Unresolved
               PROVE  results'[i] # Unresolved
    BY <1>3 DEF OrderInv
  <2>1. i \in Items /\ j \in Items
    BY DEF Valid
  <2>2. CASE j = cur
    <3>1. i # cur /\ results[i] # Unresolved
      BY <1>5, <1>6, <2>1, <2>2
    <3>2. QED
      BY <1>13, <2>1, <3>1
  <2>3. CASE j # cur
    <3>1. results[j] # Unresolved
      BY <1>13, <2>1, <2>3
    <3>2. results[i] # Unresolved
      BY <1>1, <3>1 DEF BulkInv, OrderInv
    <3>3. QED
      BY <1>5, <1>13, <2>1, <3>2
  <2>4. QED
    BY <2>2, <2>3
<1>23. SupplyInv'
  <2>1. \A i \in Items : Calculated(i)' => (Used(i)').supply <= slot
    BY <1>1, <1>12, <1>15 DEF BulkInv, SupplyInv
  <2>2. ASSUME ~ bulk.curves, NEW i \in Items, Calculated(i)'
        PROVE  /\ \A n \in DOMAIN (Used(i)').accounts :
                    (Used(i)').accounts[n].slot <= (Used(i)').supply
               /\ \A j \in Items : i < j /\ Calculated(j)' =>
                    (Used(i)').supply <= (Used(j)').supply
    <3>1. CASE i = cur
      <4>1. /\ \A n \in DOMAIN m.accounts : m.accounts[n].slot <= m.supply
            /\ Used(i)' = m
        BY <1>12, <1>15, <2>2, <3>1
      <4>2. \A j \in Items : i < j => ~ Calculated(j)'
        <5>1. \A j \in Items : i < j => j # cur /\ ~ (j < cur)
          BY <1>5, <1>6, <3>1
        <5>2. QED
          BY <1>15, <1>16, <5>1
      <4>3. QED
        BY <4>1, <4>2
    <3>2. CASE i # cur
      <4>1. Calculated(i) /\ Used(i)' = Used(i)
        BY <1>15, <2>2, <3>2
      <4>2. /\ \A n \in DOMAIN Used(i).accounts : Used(i).accounts[n].slot <= Used(i).supply
            /\ \A j \in Items : i < j /\ Calculated(j) => Used(i).supply <= Used(j).supply
        BY <1>1, <2>2, <4>1 DEF BulkInv, SupplyInv, SuppliesInOrder
      <4>3. ASSUME NEW j \in Items, i < j, Calculated(j)'
            PROVE  Used(i).supply <= (Used(j)').supply
        <5>1. CASE j = cur
          BY <1>12, <1>15, <2>2, <4>1, <4>3, <5>1
        <5>2. CASE j # cur
          BY <1>15, <4>2, <4>3, <5>2
        <5>3. QED
          BY <5>1, <5>2
      <4>4. QED
        BY <4>1, <4>2, <4>3
    <3>3. QED
      BY <3>1, <3>2
  <2>3. SuppliesInOrder'
    BY <1>2, <1>3, <2>2 DEF SuppliesInOrder
  <2>4. QED
    BY <1>2, <1>3, <2>1, <2>3 DEF SupplyInv
<1>24. FdvInv'
  <2>1. ASSUME NEW i \in Items, Counted(i)'
        PROVE  /\ ~ bulk.curves
               /\ (Used(i)').curve = cache[Curve(i)] /\ Exists((Used(i)').curve)
    <3>1. CASE i = cur
      <4>1. o.error = Nil /\ m.curve # Nil
        BY <1>15, <2>1, <3>1 DEF Counted
      <4>2. QED
        BY <1>12, <1>15, <3>1, <4>1
    <3>2. CASE i # cur
      <4>1. Counted(i) /\ Used(i)' = Used(i)
        BY <1>15, <2>1, <3>2
      <4>2. QED
        BY <1>1, <4>1 DEF BulkInv, FdvInv
    <3>3. QED
      BY <3>1, <3>2
  <2>2. ASSUME NEW i \in Items, NEW j \in Items, i < j, Calculated(i)', Calculated(j)',
               Curve(i) = Curve(j), (Used(i)').curve # Nil
        PROVE  (Used(j)').curve = (Used(i)').curve
    <3>1. CASE i = cur
      <4>1. j # cur /\ ~ (j < cur)
        BY <1>5, <1>6, <2>2, <3>1
      <4>2. QED
        BY <1>15, <1>16, <2>2, <4>1
    <3>2. CASE i # cur
      <4>1. Calculated(i) /\ Used(i)' = Used(i) /\ Counted(i)
        BY <1>15, <2>2, <3>2 DEF Counted
      <4>2. CASE j = cur
        BY <1>12, <1>15, <2>2, <4>1, <4>2
      <4>3. CASE j # cur
        <5>1. Calculated(j) /\ Used(j)' = Used(j)
          BY <1>15, <2>2, <4>3
        <5>2. QED
          BY <1>1, <2>2, <4>1, <5>1 DEF BulkInv, FdvInv, CurvesAgree
      <4>4. QED
        BY <4>2, <4>3
    <3>3. QED
      BY <3>1, <3>2
  <2>3. CurvesAgree'
    BY <1>3, <2>2 DEF CurvesAgree
  <2>4. QED
    BY <1>2, <1>3, <2>1, <2>3 DEF FdvInv, Exists
<1>25. QED
  BY <1>4, <1>17, <1>18, <1>19, <1>20, <1>21, <1>22, <1>23, <1>24 DEF GroupInv, BulkInv

\* So an error resolves the current item, if it is no missing account without reason.
LEMMA ErrorStep ==
  ASSUME GroupInv, UNCHANGED vars, Left # {}, stage \in {"items", "read", "fdv"},
         pc[Goroutine] \in {"done", "failed"},
         NEW code \in Codes, Resolve(WithError(code)),
         lost \subseteq lost', said \subseteq said',
         code = "account_not_found" =>
           \/ \E n \in DOMAIN Reads(Current) :
                ToSet(Reads(Current)[n]) \cap (confirmed \cup lost') # {}
           \/ Current \in said',
         bulk.curves => WithError(code) = CurveOutcome(Current)
  PROVE  GroupInv'
<1> DEFINE o == WithError(code)
<1>1. o \in Outcome /\ o.error # Nil /\ Resolve(o)
      /\ (bulk.curves => o = CurveOutcome(Current))
  BY OutcomeFacts
<1>2. o = WithError("account_not_found") => code = "account_not_found"
  BY DEF WithError
<1> HIDE DEF o
<1>3. QED
  BY <1>1, <1>2, ResolveStep

\* What the current item has read once its request is answered.
LEMMA AnswerFacts ==
  ASSUME GroupInv, stage = "read", pc[Goroutine] = "done"
  PROVE  LET read == seen \o out[Goroutine]
         IN  /\ read \in Seq(Info) /\ read # <<>>
             /\ OfItem(read, Current)
             /\ \A n \in 1 .. Len(read) : ~ Exists(read[n]) =>
                  \E j \in DOMAIN Reads(Current) :
                    ToSet(Reads(Current)[j]) \cap confirmed # {}
<1> DEFINE g == Goroutine
           r == Reads(Current)[step + 1]
           n == Len(seen)
           read == seen \o out[g]
<1>1. BulkInv /\ IInv /\ LoaderInv(g) /\ bulk \in Bulk /\ g \in Caller
  BY GoroutineAssumption DEF GroupInv, BulkInv, GroupTypes
<1>2. /\ Current \in Valid /\ step \in Nat /\ step < Len(Reads(Current)) /\ req[g] = r
  BY <1>1, CurrentLeft DEF BulkInv, GroupTypes, StageInv
<1>3. /\ Reads(Current) \in Seq(Seq(Address)) /\ Len(Reads(Current)) \in Nat
      /\ Len(Reads(Current)[1]) = 1
  BY <1>1, <1>2, ItemReads
<1>4. /\ seen \in Seq(Info) /\ n \in Nat
      /\ step = 0 <=> seen = <<>>
      /\ FromCache(seen, Current)
  BY <1>1 DEF BulkInv, GroupTypes, StageInv, ResultInv
<1>5. /\ out[g] \in Seq(Info) /\ Len(out[g]) = Len(r)
      /\ \A i \in 1 .. Len(out[g]) : out[g][i] = cache[r[i]]
      /\ \A i \in 1 .. Len(out[g]) : out[g][i].address = r[i]
  BY <1>1, <1>2 DEF IInv, TypeOK, CallInv, AnswerInv, LoaderInv, AloneInv
<1>6. r \in Seq(Address) /\ step + 1 \in DOMAIN Reads(Current)
  BY <1>2, <1>3
<1> HIDE DEF r, n
<1>7. /\ read \in Seq(Info) /\ Len(read) = n + Len(out[g])
      /\ \A m \in 1 .. n : read[m] = seen[m]
      /\ \A m \in 1 .. Len(read) : m > n => read[m] = out[g][m - n]
  <2>1. seen \in Seq(Info) /\ out[g] \in Seq(Info)
    BY <1>4, <1>5
  <2>2. n = Len(seen)
    BY DEF n
  <2>3. QED
    BY ONLY <2>1, <2>2
<1>8. Len(out[g]) \in Nat
  BY <1>5
<1>9. read # <<>>
  <2>1. CASE step = 0
    <3>1. Len(out[g]) = 1
      BY <1>3, <1>5, <2>1 DEF r
    <3>2. Len(read) # 0
      BY <1>4, <1>7, <3>1
    <3>3. QED
      BY <3>2
  <2>2. CASE step # 0
    <3>1. n # 0
      BY <1>4, <2>2 DEF n
    <3>2. Len(read) # 0
      BY <1>4, <1>7, <1>8, <3>1
    <3>3. QED
      BY <3>2
  <2>3. QED
    BY <2>1, <2>2
<1> HIDE DEF read
<1>10. ASSUME NEW m \in 1 .. Len(read), m > n
       PROVE  /\ m - n \in 1 .. Len(r) /\ r[m - n] \in Address
              /\ read[m] = cache[r[m - n]] /\ read[m].address = r[m - n]
  <2>1. m - n \in 1 .. Len(out[g]) /\ m \in Nat
    BY <1>4, <1>7, <1>8, <1>10
  <2>2. read[m] = out[g][m - n]
    BY <1>7, <1>10
  <2>3. QED
    BY <1>5, <1>6, <2>1, <2>2
<1>11. OfItem(read, Current)
  <2> SUFFICES ASSUME NEW m \in 1 .. Len(read)
               PROVE  /\ read[m] = cache[read[m].address]
                      /\ IF m = 1 THEN read[m].address = PoolOf(Current)
                         ELSE read[m].address \in Others(Current)
    BY DEF OfItem
  <2>1. CASE m <= n
    <3>1. m \in 1 .. n
      BY <1>4, <2>1
    <3>2. QED
      BY <1>4, <1>7, <3>1 DEF FromCache, OfItem, n
  <2>2. CASE m > n
    <3>1. /\ m - n \in 1 .. Len(r) /\ read[m] = cache[r[m - n]] /\ read[m].address = r[m - n]
      BY <1>10, <2>2
    <3>2. CASE step = 0
      <4>1. n = 0 /\ Len(r) = 1
        BY <1>3, <1>4, <3>2 DEF n, r
      <4>2. m = 1
        BY <3>1, <4>1
      <4>3. QED
        BY <3>1, <3>2, <4>1, <4>2 DEF r, PoolOf
    <3>3. CASE step # 0
      <4>1. n # 0 /\ m # 1
        BY <1>4, <2>2, <3>3 DEF n
      <4>2. step + 1 \in 2 .. Len(Reads(Current))
        BY <1>2, <1>3, <3>3
      <4>3. r[m - n] \in ToSet(r)
        BY <1>6, <3>1 DEF ToSet
      <4>4. ToSet(r) \subseteq Others(Current)
        BY <4>2 DEF Others, r
      <4>5. QED
        BY <3>1, <4>1, <4>3, <4>4
    <3>4. QED
      BY <3>2, <3>3
  <2>3. QED
    BY <1>4, <2>1, <2>2
<1>12. ASSUME NEW m \in 1 .. Len(read), ~ Exists(read[m])
       PROVE  \E j \in DOMAIN Reads(Current) :
                ToSet(Reads(Current)[j]) \cap confirmed # {}
  <2>1. m > n
    <3> SUFFICES ASSUME m <= n PROVE FALSE
      BY <1>4
    <3>1. m \in 1 .. n /\ read[m] = seen[m]
      BY <1>4, <1>7
    <3>2. QED
      BY <1>4, <1>12, <3>1 DEF FromCache, n
  <2>2. /\ m - n \in 1 .. Len(r) /\ r[m - n] \in Address /\ read[m] = cache[r[m - n]]
    BY <1>10, <2>1
  <2>3. read[m] \in Info
    BY <1>7
  <2>4. r[m - n] \in confirmed
    BY <1>1, <1>12, <2>2, <2>3, NilAssumption DEF IInv, CacheInv
  <2>5. r[m - n] \in ToSet(r)
    BY <1>6, <2>2 DEF ToSet
  <2>6. QED
    BY <1>6, <2>4, <2>5 DEF r
<1>13. QED
  BY <1>7, <1>9, <1>11, <1>12 DEF read

\* The accounts that arrived, and those the item has read with them.
LEMMA OutFacts ==
  ASSUME GroupInv, stage = "read", pc[Goroutine] = "done"
  PROVE  /\ out[Goroutine] \in Seq(Info)
         /\ Missing(out[Goroutine]) =>
              \E j \in DOMAIN Reads(Current) : ToSet(Reads(Current)[j]) \cap confirmed # {}
         /\ ~ Missing(out[Goroutine]) => FromCache(seen \o out[Goroutine], Current)
         /\ bulk.curves => /\ seen = <<>> /\ seen \o out[Goroutine] = out[Goroutine]
                           /\ out[Goroutine] = <<cache[PoolOf(Current)]>>
<1> DEFINE g == Goroutine
           answer == out[g]
           read == seen \o answer
<1>1. BulkInv /\ IInv /\ LoaderInv(g) /\ bulk \in Bulk /\ g \in Caller
  BY GoroutineAssumption DEF GroupInv, BulkInv, GroupTypes
<1>2. answer \in Seq(Info) /\ seen \in Seq(Info) /\ FromCache(seen, Current)
  BY <1>1 DEF IInv, TypeOK, BulkInv, GroupTypes, ResultInv
<1>3. /\ OfItem(read, Current)
      /\ \A n \in 1 .. Len(read) : ~ Exists(read[n]) =>
           \E j \in DOMAIN Reads(Current) : ToSet(Reads(Current)[j]) \cap confirmed # {}
  BY AnswerFacts
<1>4. ASSUME bulk.curves
      PROVE  seen = <<>> /\ read = answer /\ answer = <<cache[PoolOf(Current)]>>
  <2>1. Current \in Valid /\ step \in Nat /\ step < Len(Reads(Current))
        /\ req[g] = Reads(Current)[step + 1]
    BY <1>1, CurrentLeft DEF BulkInv, GroupTypes, StageInv
  <2>2. Len(Reads(Current)) = 1 /\ Len(Reads(Current)[1]) = 1
    BY <1>1, <1>4, <2>1, ItemReads
  <2>3. step = 0
    BY <2>1, <2>2
  <2>4. seen = <<>> /\ req[g] = Reads(Current)[1]
    BY <1>1, <2>1, <2>3 DEF BulkInv, StageInv
  <2>5. Len(answer) = 1 /\ answer[1] = cache[PoolOf(Current)]
    BY <1>1, <2>2, <2>4 DEF IInv, CallInv, AnswerInv, LoaderInv, AloneInv, PoolOf
  <2>6. read = answer
    BY <1>2, <2>4
  <2> HIDE DEF answer, read
  <2>7. answer = <<cache[PoolOf(Current)]>>
    BY <1>2, <2>5
  <2>8. QED
    BY <2>4, <2>6, <2>7
<1> HIDE DEF answer
<1>5. /\ Len(seen) \in Nat /\ Len(answer) \in Nat /\ Len(read) = Len(seen) + Len(answer)
      /\ DOMAIN answer = 1 .. Len(answer)
      /\ \A n \in 1 .. Len(read) :
           read[n] = IF n <= Len(seen) THEN seen[n] ELSE answer[n - Len(seen)]
  BY <1>2
<1> HIDE DEF read
<1>6. ASSUME Missing(answer)
      PROVE  \E j \in DOMAIN Reads(Current) : ToSet(Reads(Current)[j]) \cap confirmed # {}
  <2>1. PICK n \in 1 .. Len(answer) : ~ Exists(answer[n])
    BY <1>5, <1>6 DEF Missing
  <2>2. Len(seen) + n \in 1 .. Len(read) /\ read[Len(seen) + n] = answer[n]
    BY <1>5
  <2>3. QED
    BY <1>3, <2>1, <2>2
<1>7. ASSUME ~ Missing(answer)
      PROVE  FromCache(read, Current)
  <2>1. ASSUME NEW n \in 1 .. Len(read) PROVE Exists(read[n])
    <3>1. CASE n <= Len(seen)
      <4>1. n \in 1 .. Len(seen) /\ read[n] = seen[n]
        BY <1>5, <3>1
      <4>2. QED
        BY <1>2, <4>1 DEF FromCache
    <3>2. CASE ~ (n <= Len(seen))
      <4>1. n - Len(seen) \in DOMAIN answer /\ read[n] = answer[n - Len(seen)]
        BY <1>5, <3>2
      <4>2. QED
        BY <1>7, <4>1 DEF Missing
    <3>3. QED
      BY <3>1, <3>2
  <2>2. QED
    BY <1>3, <2>1 DEF FromCache
<1>8. QED
  BY <1>2, <1>4, <1>6, <1>7 DEF answer, read

\* An item lacks an account, a curve has its metrics, or a pool goes on with what it
\* has read.
LEMMA AnsweredStep ==
  ASSUME GroupInv, Answered
  PROVE  GroupInv'
<1> DEFINE g == Goroutine
           read == seen \o out[g]
<1>1. BulkInv /\ IInv /\ LoaderInv(g) /\ bulk \in Bulk /\ g \in Caller
  BY GoroutineAssumption DEF GroupInv, BulkInv, GroupTypes
<1>2. /\ stage = "read" /\ pc[g] = "done" /\ UNCHANGED <<vars, lost, said>>
      /\ pc' = pc /\ cache' = cache /\ confirmed' = confirmed /\ req' = req /\ slot' = slot
  BY DEF Answered, vars, chain, shared, local, history
<1>3. /\ Left # {} /\ Current \in Valid /\ step \in Nat /\ step < Len(Reads(Current))
  BY <1>1, <1>2, CurrentLeft DEF BulkInv, GroupTypes, StageInv
<1>4. /\ out[g] \in Seq(Info)
      /\ Missing(out[g]) =>
           \E j \in DOMAIN Reads(Current) : ToSet(Reads(Current)[j]) \cap confirmed # {}
      /\ ~ Missing(out[g]) => FromCache(read, Current)
      /\ bulk.curves => seen = <<>> /\ read = out[g] /\ out[g] = <<cache[PoolOf(Current)]>>
  BY <1>2, OutFacts
<1>5. read \in Seq(Info) /\ read # <<>>
  BY <1>2, AnswerFacts
<1>6. CASE Missing(out[g])
  <2>1. PICK code \in MissingCodes : Resolve(WithError(code))
    BY <1>6 DEF Answered
  <2>2. code \in Codes
    BY DEF MissingCodes, Codes
  <2>3. \E j \in DOMAIN Reads(Current) :
          ToSet(Reads(Current)[j]) \cap (confirmed \cup lost') # {}
    BY <1>4, <1>6
  <2>4. bulk.curves => WithError(code) = CurveOutcome(Current)
    <3> SUFFICES ASSUME bulk.curves PROVE WithError(code) = CurveOutcome(Current)
      OBVIOUS
    <3>1. code = "account_not_found" /\ out[g] = <<cache[PoolOf(Current)]>>
      BY <1>4 DEF MissingCodes
    <3>2. ~ Exists(cache[PoolOf(Current)])
      BY <1>6, <3>1 DEF Missing
    <3>3. QED
      BY <3>1, <3>2 DEF CurveOutcome
  <2>5. QED
    BY <1>2, <1>3, <2>1, <2>2, <2>3, <2>4, ErrorStep
<1>7. CASE ~ Missing(out[g]) /\ bulk.curves
  <2> DEFINE o == WithMetrics(out[g], 0, Nil)
  <2>1. Resolve(o)
    BY <1>7 DEF Answered
  <2>2. /\ o \in Outcome /\ o.error = Nil
        /\ o.metrics = [accounts |-> out[g], supply |-> 0, curve |-> Nil]
    <3>1. 0 \in 0 .. MaxSlot
      BY BoundAssumption
    <3>2. QED
      BY <1>4, <3>1, OutcomeFacts
  <2>3. o = CurveOutcome(Current)
    <3>1. out[g] = <<cache[PoolOf(Current)]>> /\ Exists(cache[PoolOf(Current)])
      BY <1>4, <1>7 DEF Missing
    <3>2. QED
      BY <3>1 DEF CurveOutcome
  <2>4. o # WithError("account_not_found")
    BY <2>2, OutcomeFacts DEF Codes
  <2> HIDE DEF o
  <2>5. HoldsUp(o.metrics)
    <3>1. FromCache(out[g], Current) /\ slot \in Nat /\ \A i \in Items : ~ Counted(i)
      BY <1>1, <1>4, <1>7 DEF BulkInv, FdvInv, IInv, TypeOK
    <3>2. QED
      BY <1>7, <2>2, <3>1 DEF HoldsUp
  <2>6. lost \subseteq lost' /\ said \subseteq said'
    BY <1>2
  <2>7. QED
    BY <1>2, <1>3, <2>1, <2>2, <2>3, <2>4, <2>5, <2>6, ResolveStep
<1>8. CASE ~ Missing(out[g]) /\ ~ bulk.curves
  <2>0. /\ step' = step + 1 /\ seen' = read /\ stage' = "items"
        /\ UNCHANGED <<bulk, supply, results>>
    BY <1>8 DEF Answered
  <2>1. IInv' /\ LoaderInv(g)'
    BY <1>1, <1>2, StillLoader
  <2>2. /\ Left' = Left /\ Current' = Current /\ Valid' = Valid /\ Items' = Items
        /\ Primary' = Primary
        /\ \A i : Reads(i)' = Reads(i) /\ PoolOf(i)' = PoolOf(i) /\ Others(i)' = Others(i)
        /\ \A i : Refused(i)' = Refused(i) /\ Calculated(i)' = Calculated(i)
        /\ \A i : Curve(i)' = Curve(i) /\ Used(i)' = Used(i) /\ Counted(i)' = Counted(i)
        /\ \A i, code : FailedWith(i, code)' = FailedWith(i, code)
    BY <2>0, SameItems, SameResults
  <2>3. FromCache(read, Current)
    BY <1>4, <1>8
  <2>4. Len(Reads(Current)) \in Nat
    BY <1>1, <1>3, ItemReads
  <2> HIDE DEF read
  <2>5. step' \in Nat /\ step' # 0 /\ step' <= Len(Reads(Current))
    BY <1>3, <2>0, <2>4
  <2>6. seen' \in Seq(Info) /\ seen' # <<>>
    BY <1>5, <2>0
  <2>7. GroupTypes'
    BY <1>1, <2>0, <2>2, <2>5, <2>6 DEF BulkInv, GroupTypes
  <2>8. StageInv'
    BY <1>1, <1>2, <1>3, <1>8, <2>0, <2>2, <2>5, <2>6 DEF BulkInv, StageInv, Idle
  <2>9. PrimeInv' /\ ViewInv'
    BY <1>1, <1>2, <2>0, <2>2 DEF BulkInv, PrimeInv, ViewInv, Exists
  <2>10. ResultInv'
    <3>1. FromCache(seen, Current)'
      BY <1>2, <2>0, <2>2, <2>3 DEF FromCache, OfItem, Exists
    <3>2. QED
      BY <1>1, <1>2, <2>2, <3>1 DEF BulkInv, ResultInv, FromCache, OfItem, Reason, Exists
  <2>11. CurveInv'
    BY <1>8, <2>0 DEF CurveInv
  <2>12. OrderInv' /\ SupplyInv' /\ FdvInv'
    BY <1>1, <1>2, <2>0, <2>2, SameOrder DEF BulkInv, SupplyInv, FdvInv, Exists
  <2>13. QED
    BY <2>1, <2>7, <2>8, <2>9, <2>10, <2>11, <2>12 DEF GroupInv, BulkInv
<1>9. QED
  BY <1>6, <1>7, <1>8

\* A failed call of the current item was for accounts of its own; no curve gets here.
LEMMA ReadFailsStep ==
  ASSUME GroupInv, ReadFails
  PROVE  GroupInv'
<1> DEFINE g == Goroutine
           r == Reads(Current)[step + 1]
<1>1. PICK code \in CallCodes :
        /\ stage = "read" /\ pc[g] = "failed" /\ UNCHANGED <<vars, said>>
        /\ Resolve(WithError(code)) /\ lost' = LostWith(code)
  BY DEF ReadFails
<1>2. BulkInv /\ IInv /\ bulk \in Bulk /\ g \in Caller
  BY GoroutineAssumption DEF GroupInv, BulkInv, GroupTypes
<1>3. Left # {} /\ ~ bulk.curves
  BY <1>1, <1>2 DEF BulkInv, StageInv, CurveInv
<1>4. code \in Codes
  BY DEF CallCodes, Codes
<1>5. lost \subseteq lost' /\ said \subseteq said'
  BY <1>1 DEF LostWith
<1>6. ASSUME code = "account_not_found"
      PROVE  \E n \in DOMAIN Reads(Current) :
               ToSet(Reads(Current)[n]) \cap (confirmed \cup lost') # {}
  <2>1. BatchFailed /\ lost' = lost \cup ToSet(missing[g])
    BY <1>1, <1>6 DEF CallCodes, LostWith
  <2>2. missing[g] \in Seq(Address) /\ infos[g] \in Seq(Info) /\ req[g] \in Seq(Address)
        /\ MissingInv(g)
    BY <1>2 DEF IInv, TypeOK, CallInv
  <2>3. 1 \in 1 .. Len(missing[g])
    BY <2>1, <2>2 DEF BatchFailed
  <2>4. PICK j \in 1 .. Len(req[g]) : missing[g][1] = req[g][j]
    BY <2>2, <2>3 DEF MissingInv
  <2>5. /\ Current \in Valid /\ step \in Nat /\ step < Len(Reads(Current)) /\ req[g] = r
    BY <1>1, <1>2, CurrentLeft DEF BulkInv, GroupTypes, StageInv
  <2>6. step + 1 \in DOMAIN Reads(Current)
    BY <1>2, <2>5, ItemReads
  <2>7. missing[g][1] \in lost'
    BY <2>1, <2>2, <2>3 DEF ToSet
  <2>8. missing[g][1] \in ToSet(r)
    BY <2>2, <2>4, <2>5 DEF ToSet
  <2>9. QED
    BY <2>6, <2>7, <2>8
<1>7. QED
  BY <1>1, <1>3, <1>4, <1>5, <1>6, ErrorStep

LEMMA RefuseStep ==
  ASSUME GroupInv, Refuse
  PROVE  GroupInv'
<1>1. PICK code \in FailureCodes \ {"account_not_found"} :
        /\ stage = "items" /\ step > 0 /\ ~ bulk.curves
        /\ Resolve(WithError(code)) /\ UNCHANGED <<vars, lost, said>>
  BY DEF Refuse
<1>2. Left # {} /\ pc[Goroutine] \in {"done", "failed"} /\ code \in Codes
  BY <1>1 DEF GroupInv, BulkInv, StageInv, Codes
<1>3. lost \subseteq lost' /\ said \subseteq said'
  BY <1>1
<1>4. QED
  BY <1>1, <1>2, <1>3, ErrorStep

\* The supply or a conversion fails; when it says "not found" it is the item's own.
LEMMA RunFailsStep ==
  ASSUME GroupInv, RunFails
  PROVE  GroupInv'
<1>1. PICK code \in FailureCodes :
        /\ Resolve(WithError(code)) /\ UNCHANGED <<vars, lost>>
        /\ said' = IF code = "account_not_found" THEN said \cup {Current} ELSE said
  BY DEF RunFails
<1>2. /\ stage \in {"items", "fdv"} /\ Left # {} /\ ~ bulk.curves
      /\ pc[Goroutine] \in {"done", "failed"}
  BY DEF RunFails, FDVEnded, Complete, GroupInv, BulkInv, StageInv
<1>3. code \in Codes /\ lost \subseteq lost' /\ said \subseteq said'
  BY <1>1 DEF Codes
<1>4. code = "account_not_found" => Current \in said'
  BY <1>1
<1>5. QED
  BY <1>1, <1>2, <1>3, <1>4, ErrorStep

\* The FDV curve of a pool, or none: one that counted before is answered again.
LEMMA FinishStep ==
  ASSUME GroupInv, Finish
  PROVE  GroupInv'
<1> DEFINE g == Goroutine
           answer == out[g]
           curve == IF pc[g] = "done" /\ ~ Missing(answer) THEN answer[1] ELSE Nil
           o == WithMetrics(seen, supply, curve)
<1>1. BulkInv /\ IInv /\ LoaderInv(g) /\ bulk \in Bulk /\ g \in Caller
  BY GoroutineAssumption DEF GroupInv, BulkInv, GroupTypes
<1>2. /\ stage = "fdv" /\ pc[g] \in {"done", "failed"}
      /\ Resolve(o) /\ UNCHANGED <<vars, lost, said>>
  BY DEF Finish, FDVEnded
<1>3. Left # {} /\ ~ bulk.curves /\ req[g] = <<Curve(Current)>>
  BY <1>1, <1>2 DEF BulkInv, StageInv, Complete
<1>4. ASSUME pc[g] = "done"
      PROVE  /\ answer \in Seq(Info) /\ Len(answer) = 1 /\ DOMAIN answer = 1 .. 1
             /\ answer[1] \in Info /\ answer[1] = cache[Curve(Current)]
             /\ Missing(answer) <=> ~ Exists(answer[1])
  <2>1. answer \in Seq(Info) /\ Len(answer) = 1
    BY <1>1, <1>3, <1>4 DEF IInv, TypeOK, CallInv, AnswerInv
  <2>2. answer[1] = cache[Curve(Current)]
    BY <1>1, <1>3, <2>1 DEF LoaderInv, AloneInv
  <2> HIDE DEF answer
  <2>3. DOMAIN answer = 1 .. 1 /\ answer[1] \in Info
    <3>1. DOMAIN answer = 1 .. 1
      BY <2>1
    <3>2. 1 \in 1 .. Len(answer)
      BY <2>1
    <3>3. \A n \in 1 .. Len(answer) : answer[n] \in Info
      BY <2>1
    <3>4. QED
      BY <3>1, <3>2, <3>3
  <2>4. QED
    BY <2>1, <2>2, <2>3 DEF Missing
<1> HIDE DEF answer
<1>5. curve \in Info \cup {Nil}
      /\ (curve # Nil => curve = cache[Curve(Current)] /\ Exists(curve))
  BY <1>4
<1>6. ASSUME NEW i \in Items, Counted(i), Curve(i) = Curve(Current)
      PROVE  curve = Used(i).curve
  <2>1. /\ Used(i).curve = cache[Curve(Current)] /\ Exists(Used(i).curve)
        /\ pc[g] \in {"look", "done"}
    BY <1>1, <1>2, <1>6 DEF BulkInv, FdvInv
  <2>2. pc[g] = "done"
    BY <1>2, <2>1
  <2>3. QED
    BY <1>4, <2>1, <2>2
<1>7. seen \in Seq(Info) /\ supply \in 0 .. MaxSlot /\ FromCache(seen, Current)
  BY <1>1 DEF BulkInv, GroupTypes, ResultInv
<1> HIDE DEF curve
<1>8. /\ o \in Outcome /\ o.error = Nil
      /\ o.metrics = [accounts |-> seen, supply |-> supply, curve |-> curve]
  BY <1>5, <1>7, OutcomeFacts
<1>9. o # WithError("account_not_found")
  BY <1>8, OutcomeFacts DEF Codes
<1> HIDE DEF o
<1>10. HoldsUp(o.metrics)
  <2>1. /\ supply <= slot
        /\ \A n \in DOMAIN seen : seen[n].slot <= supply
        /\ \A i \in Items : Calculated(i) => Used(i).supply <= supply
    BY <1>1, <1>2, <1>7 DEF BulkInv, SupplyInv
  <2>2. QED
    BY <1>3, <1>5, <1>6, <1>7, <1>8, <2>1 DEF HoldsUp
<1>11. lost \subseteq lost' /\ said \subseteq said'
  BY <1>2
<1>12. QED
  BY <1>2, <1>3, <1>8, <1>9, <1>10, <1>11, ResolveStep

\* A call of the goroutine begins.
LEMMA Begins ==
  ASSUME IInv, NEW c \in Caller, LoaderInv(c), NEW r \in Seq(Address), NEW kind,
         kind = "account" => Len(r) = 1, BeginCall(c, r, kind)
  PROVE  /\ IInv' /\ LoaderInv(c)'
         /\ cache' = cache /\ confirmed' = confirmed /\ slot' = slot
         /\ req'[c] = r /\ infos'[c] = <<>> /\ pc'[c] \in {"done", "look", "scan"}
         /\ before'[c] = cache
         /\ kind = "account" => pc'[c] = "look"
<1>1. IInv'
  BY BeginStep
<1>2. /\ cache' = cache /\ confirmed' = confirmed /\ slot' = slot
      /\ req'[c] = r /\ infos'[c] = <<>> /\ out'[c] = <<>> /\ before'[c] = cache
  BY DEF BeginCall, chain, IInv, TypeOK
<1>3. pc'[c] = IF r = <<>> THEN "done"
               ELSE IF kind = "account" THEN "look" ELSE "scan"
  BY DEF BeginCall, IInv, TypeOK
<1>4. kind = "account" => r # <<>>
  OBVIOUS
<1>5. pc'[c] \in {"done", "look", "scan"} /\ (kind = "account" => pc'[c] = "look")
  BY <1>3, <1>4
<1>6. LoaderInv(c)'
  BY <1>2, <1>5 DEF LoaderInv, AloneInv, SlotInv
<1>7. QED
  BY <1>1, <1>2, <1>5, <1>6

\* The supply is of the slot the chain is at: nothing read so far is newer.
LEMMA SupplyStep ==
  ASSUME GroupInv, Supply
  PROVE  GroupInv'
<1> DEFINE g == Goroutine
           r == <<Curve(Current)>>
<1>1. BulkInv /\ IInv /\ LoaderInv(g) /\ bulk \in Bulk /\ g \in Caller
  BY GoroutineAssumption DEF GroupInv, BulkInv, GroupTypes
<1>2. /\ stage = "items" /\ Complete /\ supply' = slot /\ stage' = "fdv"
      /\ BeginCall(g, r, "account")
      /\ UNCHANGED <<bulk, step, seen, results, lost, said>>
  BY DEF Supply
<1>3. /\ Left' = Left /\ Current' = Current /\ Valid' = Valid /\ Items' = Items
      /\ Primary' = Primary
      /\ \A i : Reads(i)' = Reads(i) /\ PoolOf(i)' = PoolOf(i) /\ Others(i)' = Others(i)
      /\ \A i : Refused(i)' = Refused(i) /\ Calculated(i)' = Calculated(i)
      /\ \A i : Curve(i)' = Curve(i) /\ Used(i)' = Used(i) /\ Counted(i)' = Counted(i)
      /\ \A i, code : FailedWith(i, code)' = FailedWith(i, code)
  BY <1>2, SameItems, SameResults
<1>4. Left # {} /\ ~ bulk.curves /\ Current \in Valid /\ Curve(Current) \in Address
  BY <1>1, <1>2, CurrentLeft, ItemReads DEF Complete
<1>5. r \in Seq(Address) /\ Len(r) = 1
  BY <1>4
<1>6. /\ IInv' /\ LoaderInv(g)' /\ cache' = cache /\ confirmed' = confirmed
      /\ slot' = slot /\ req'[g] = r /\ infos'[g] = <<>> /\ pc'[g] = "look"
  BY <1>1, <1>2, <1>5, Begins
<1> HIDE DEF r
<1>7. GroupTypes'
  <2>1. slot \in 0 .. MaxSlot
    BY <1>1 DEF IInv, TypeOK
  <2>2. QED
    BY <1>1, <1>2, <1>3, <2>1 DEF BulkInv, GroupTypes
<1>8. StageInv'
  BY <1>1, <1>2, <1>3, <1>4, <1>6 DEF BulkInv, StageInv, Complete, r
<1>9. PrimeInv' /\ ViewInv'
  BY <1>1, <1>2, <1>3, <1>6 DEF BulkInv, PrimeInv, ViewInv, Exists
<1>10. ResultInv'
  BY <1>1, <1>2, <1>3, <1>6 DEF BulkInv, ResultInv, FromCache, OfItem, Reason, Exists
<1>11. CurveInv'
  BY <1>2, <1>4 DEF CurveInv
<1>12. SupplyInv'
  <2>1. ASSUME NEW n \in 1 .. Len(seen) PROVE seen[n].slot <= slot
    <3>1. seen[n] \in Info /\ seen[n] = cache[seen[n].address]
      BY <1>1 DEF BulkInv, GroupTypes, ResultInv, FromCache, OfItem
    <3>2. seen[n] # Nil /\ seen[n].address \in Address
      BY <3>1, NilAssumption DEF Info
    <3>3. QED
      BY <1>1, <3>1, <3>2 DEF LoaderInv, SlotInv
  <2>2. slot <= slot
    BY <1>1 DEF IInv, TypeOK
  <2>3. QED
    BY <1>1, <1>2, <1>3, <1>6, <2>1, <2>2, SameOrder DEF BulkInv, SupplyInv
<1>13. OrderInv' /\ FdvInv'
  BY <1>1, <1>2, <1>3, <1>6, SameOrder DEF BulkInv, FdvInv, Exists
<1>14. QED
  BY <1>6, <1>7, <1>8, <1>9, <1>10, <1>11, <1>12, <1>13 DEF GroupInv, BulkInv

\* The items are validated, and the pools of the valid ones are asked for.
LEMMA ValidateStep ==
  ASSUME GroupInv, Validate
  PROVE  GroupInv'
<1> DEFINE g == Goroutine
<1>1. BulkInv /\ IInv /\ LoaderInv(g) /\ bulk \in Bulk /\ g \in Caller
  BY GoroutineAssumption DEF GroupInv, BulkInv, GroupTypes
<1>2. /\ stage = "start" /\ UNCHANGED <<bulk, step, seen, supply, lost, said>>
      /\ results' = [i \in Items |-> IF Refused(i) THEN WithError("invalid_argument")
                                     ELSE Unresolved]
  BY DEF Validate
<1>3. /\ Valid' = Valid /\ Items' = Items /\ Primary' = Primary
      /\ PrimeAddresses' = PrimeAddresses
      /\ \A i : Reads(i)' = Reads(i) /\ PoolOf(i)' = PoolOf(i) /\ Others(i)' = Others(i)
      /\ \A i : Refused(i)' = Refused(i) /\ Curve(i)' = Curve(i)
  BY <1>2, SameItems
<1>4. WithError("invalid_argument") \in Outcome
      /\ WithError("invalid_argument").error # Nil
      /\ WithError("account_not_found") # Unresolved
  BY OutcomeFacts DEF Codes
<1>5. GroupTypes' \/ stage' \notin {"prime", "returned"}
  BY <1>1, <1>2, <1>3, <1>4 DEF BulkInv, GroupTypes
<1>6. /\ \A i \in Items : Refused(i) => results'[i] = WithError("invalid_argument")
      /\ \A i \in Items : ~ Refused(i) => results'[i] = Unresolved
  BY <1>2
<1>7. Left' = Valid
  BY <1>3, <1>6 DEF Left, Valid
<1>8. step = 0 /\ seen = <<>> /\ \A a \in Address : cache[a] = Nil
  BY <1>1, <1>2 DEF BulkInv, GroupTypes, StageInv, PrimeInv
<1>9. \A i \in Items : /\ ~ Calculated(i)' /\ ~ Counted(i)'
                       /\ ~ FailedWith(i, "account_not_found")'
  <2>1. WithError("invalid_argument") # WithError("account_not_found")
    BY DEF WithError
  <2>2. QED
    BY <1>4, <1>6, <2>1 DEF Calculated, Counted, FailedWith, WithError, NoMetrics
<1>10. ResultInv'
  <2>1. FromCache(seen, Current)'
    BY <1>2, <1>8 DEF FromCache, OfItem
  <2>2. QED
    BY <1>3, <1>9, <2>1 DEF ResultInv
<1>11. OrderInv'
  BY <1>3, <1>6 DEF OrderInv, Valid
<1>12. ASSUME stage' # "fdv" PROVE SupplyInv' /\ FdvInv'
  BY <1>3, <1>9, <1>12 DEF SupplyInv, SuppliesInOrder, FdvInv, CurvesAgree, Counted
<1>13. \A i \in Items : Refused(i) => FailedWith(i, "invalid_argument")'
  BY <1>6 DEF FailedWith, WithError, NoMetrics
<1>14. CASE Valid = {} /\ stage' = "returned" /\ UNCHANGED vars
  <2>1. IInv' /\ LoaderInv(g)' /\ pc' = pc /\ cache' = cache
    BY <1>1, <1>14, StillLoader DEF vars, shared, local
  <2>2. StageInv'
    BY <1>1, <1>2, <1>3, <1>7, <1>8, <1>13, <1>14, <2>1 DEF BulkInv, StageInv, Idle
  <2>3. PrimeInv' /\ ViewInv'
    BY <1>3, <1>8, <1>14, <2>1 DEF PrimeInv, ViewInv, Primary
  <2>4. CurveInv'
    BY <1>3, <1>14 DEF CurveInv
  <2>5. QED
    BY <1>5, <1>10, <1>11, <1>12, <1>14, <2>1, <2>2, <2>3, <2>4 DEF GroupInv, BulkInv
<1>15. CASE stage' = "prime" /\ BeginCall(g, PrimeAddresses, "prime")
  <2>1. PrimeAddresses \in Seq(Address)
    BY <1>1, Primes
  <2>2. /\ IInv' /\ LoaderInv(g)' /\ cache' = cache /\ before'[g] = cache
        /\ req'[g] = PrimeAddresses /\ pc'[g] \in {"done", "look", "scan"}
    BY <1>1, <1>15, <2>1, Begins
  <2>3. StageInv'
    BY <1>2, <1>3, <1>7, <1>8, <1>13, <1>15, <2>2 DEF StageInv
  <2>4. PrimeInv' /\ ViewInv' /\ CurveInv'
    <3>1. Primary \subseteq Address
      BY <1>1, PrimaryAddresses
    <3>2. QED
      BY <1>3, <1>8, <1>15, <2>2, <3>1 DEF PrimeInv, ViewInv, CurveInv
  <2>5. QED
    BY <1>5, <1>10, <1>11, <1>12, <1>15, <2>2, <2>3, <2>4 DEF GroupInv, BulkInv
<1>16. QED
  BY <1>14, <1>15 DEF Validate

\* The calculator asks; for a curve the account is held.
LEMMA AskStep ==
  ASSUME GroupInv, Ask
  PROVE  GroupInv'
<1> DEFINE g == Goroutine
           r == Reads(Current)[step + 1]
           kind == IF Len(r) = 1 THEN "account" ELSE "multiple"
<1>1. BulkInv /\ IInv /\ LoaderInv(g) /\ bulk \in Bulk /\ g \in Caller
  BY GoroutineAssumption DEF GroupInv, BulkInv, GroupTypes
<1>2. /\ stage = "items" /\ Left # {} /\ BeginCall(g, r, kind) /\ stage' = "read"
      /\ step < Len(Reads(Current))
      /\ UNCHANGED <<bulk, step, seen, supply, results, lost, said>>
  BY DEF Ask
<1>3. /\ Left' = Left /\ Current' = Current /\ Valid' = Valid /\ Items' = Items
      /\ Primary' = Primary
      /\ \A i : Reads(i)' = Reads(i) /\ PoolOf(i)' = PoolOf(i) /\ Others(i)' = Others(i)
      /\ \A i : Refused(i)' = Refused(i) /\ Calculated(i)' = Calculated(i)
      /\ \A i : Curve(i)' = Curve(i) /\ Used(i)' = Used(i) /\ Counted(i)' = Counted(i)
      /\ \A i, code : FailedWith(i, code)' = FailedWith(i, code)
  BY <1>2, SameItems, SameResults
<1>4. Current \in Valid
  BY <1>1, <1>2, CurrentLeft
<1>5. /\ Reads(Current) \in Seq(Seq(Address)) /\ Len(Reads(Current)) \in Nat \ {0}
      /\ Len(Reads(Current)[1]) = 1
      /\ bulk.curves => Len(Reads(Current)) = 1
  BY <1>1, <1>4, ItemReads
<1>6. step \in Nat /\ step < Len(Reads(Current))
  BY <1>1, <1>2 DEF BulkInv, GroupTypes
<1>7. r \in Seq(Address)
  BY <1>5, <1>6
<1>8. bulk.curves => kind = "account"
  <2> SUFFICES ASSUME bulk.curves PROVE kind = "account"
    OBVIOUS
  <2>1. step = 0 /\ step + 1 = 1
    <3> HIDE DEF r, kind
    <3>1. Len(Reads(Current)) = 1
      BY <1>5
    <3>2. QED
      BY <1>6, <3>1
  <2>2. Len(r) = 1
    BY <1>5, <2>1
  <2> HIDE DEF r
  <2>3. QED
    BY <2>2
<1>9. kind = "account" => Len(r) = 1
  OBVIOUS
<1> HIDE DEF r, kind
<1>10. /\ IInv' /\ LoaderInv(g)' /\ cache' = cache /\ confirmed' = confirmed
       /\ slot' = slot
       /\ req'[g] = r /\ infos'[g] = <<>> /\ pc'[g] \in {"done", "look", "scan"}
       /\ kind = "account" => pc'[g] = "look"
  BY <1>1, <1>2, <1>7, <1>9, Begins
<1>11. GroupTypes'
  BY <1>1, <1>2, <1>3 DEF BulkInv, GroupTypes
<1>12. StageInv'
  <2>1. req'[g] = Reads(Current)[step + 1]
    BY <1>10 DEF r
  <2>2. QED
    BY <1>1, <1>2, <1>3, <1>6, <1>10, <2>1 DEF BulkInv, StageInv
<1>13. PrimeInv' /\ ViewInv'
  BY <1>1, <1>2, <1>3, <1>10 DEF BulkInv, PrimeInv, ViewInv, Exists
<1>14. ResultInv'
  BY <1>1, <1>2, <1>3, <1>10 DEF BulkInv, ResultInv, FromCache, OfItem, Reason, Exists
<1>15. CurveInv'
  BY <1>1, <1>2, <1>3, <1>8, <1>10
     DEF BulkInv, CurveInv, CurveOutcome, WithMetrics, WithError, NoMetrics, Exists, Codes
<1>16. OrderInv' /\ SupplyInv' /\ FdvInv'
  BY <1>1, <1>2, <1>3, <1>10, SameOrder DEF BulkInv, SupplyInv, FdvInv, Exists
<1>17. QED
  BY <1>10, <1>11, <1>12, <1>13, <1>14, <1>15, <1>16 DEF GroupInv, BulkInv

LEMMA GroupInitInv == GroupInit => GroupInv
<1> SUFFICES ASSUME GroupInit PROVE GroupInv
  OBVIOUS
<1>1. /\ Init /\ bulk \in Bulk /\ stage = "start" /\ step = 0 /\ seen = <<>> /\ supply = 0
      /\ results = [i \in Items |-> Unresolved] /\ Goroutine \in Caller
  BY GoroutineAssumption DEF GroupInit
<1>2. IInv
  BY <1>1, InitIInv
<1>3. /\ cache = [a \in Address |-> Nil] /\ pc[Goroutine] = "idle"
      /\ infos[Goroutine] = <<>> /\ out[Goroutine] = <<>>
  BY <1>1 DEF Init
<1>4. LoaderInv(Goroutine)
  BY <1>3 DEF LoaderInv, AloneInv, SlotInv
<1>5. Left = Valid /\ \A i \in Items : results[i] = Unresolved
  BY <1>1 DEF Left, Valid
<1>6. GroupTypes /\ StageInv
  BY <1>1, <1>3, <1>5, BoundAssumption DEF GroupTypes, StageInv, Idle
<1>7. Primary \subseteq Address
  BY <1>1, PrimaryAddresses
<1>8. PrimeInv /\ ViewInv /\ CurveInv
  BY <1>1, <1>3, <1>7 DEF PrimeInv, ViewInv, CurveInv
<1>9. \A i \in Items : /\ ~ Calculated(i) /\ ~ Counted(i)
                       /\ ~ FailedWith(i, "account_not_found")
  <2>1. WithError("account_not_found") # Unresolved
    BY OutcomeFacts DEF Codes
  <2>2. QED
    BY <1>5, <2>1 DEF Calculated, Counted, FailedWith
<1>10. ResultInv
  BY <1>1, <1>9 DEF ResultInv, FromCache, OfItem
<1>11. OrderInv /\ SupplyInv /\ FdvInv
  BY <1>1, <1>5, <1>9 DEF OrderInv, SupplyInv, SuppliesInOrder, FdvInv, CurvesAgree, Valid
<1>12. QED
  BY <1>2, <1>4, <1>6, <1>8, <1>10, <1>11 DEF GroupInv, BulkInv

LEMMA GroupNextInv == GroupInv /\ [GroupNext]_groupVars => GroupInv'
<1> SUFFICES ASSUME GroupInv, [GroupNext]_groupVars PROVE GroupInv'
  OBVIOUS
<1>1. IInv /\ LoaderInv(Goroutine) /\ Goroutine \in Caller
  BY GoroutineAssumption DEF GroupInv
<1>2. CASE LoaderStep
  <2>1. Step(Goroutine) /\ UNCHANGED bulkVars
    BY <1>2 DEF LoaderStep
  <2>2. IInv' /\ LoaderInv(Goroutine)' /\ Goes(Goroutine)
    BY <1>1, <2>1, StepGoes
  <2>3. before' = before
    BY <2>1 DEF Step, Look, Scan, FetchChunk, Confirm, RPCError, Store, ReadBack, history
  <2>4. QED
    BY <2>1, <2>2, <2>3, WaitStep
<1>3. CASE ChainStep
  <2>1. Advance /\ UNCHANGED bulkVars /\ before' = before
    BY <1>3 DEF ChainStep, Advance, history
  <2>2. QED
    BY <1>1, <2>1, AdvanceGoes, WaitStep
<1>4. CASE UNCHANGED groupVars
  <2>1. UNCHANGED vars /\ UNCHANGED bulkVars
    BY <1>4 DEF groupVars
  <2>2. IInv' /\ LoaderInv(Goroutine)'
    BY <1>1, <2>1, StillLoader
  <2>3. Goes(Goroutine) /\ before' = before
    BY <1>1, <2>1 DEF Goes, vars, chain, shared, local, history, IInv, TypeOK
  <2>4. QED
    BY <2>1, <2>2, <2>3, WaitStep
<1>5. CASE \/ Validate \/ Primed \/ PrimeFails \/ Ask \/ Answered \/ ReadFails
           \/ Refuse \/ Supply \/ RunFails \/ Finish \/ Return
  BY <1>5, ValidateStep, PrimedStep, PrimeFailsStep, AskStep, AnsweredStep,
     ReadFailsStep, RefuseStep, SupplyStep, RunFailsStep, FinishStep, ReturnStep
<1>6. QED
  BY <1>2, <1>3, <1>4, <1>5 DEF GroupNext, Run, Returned

\* The inductive invariant holds in every reachable state of a bulk.
THEOREM GroupInvariance == GroupSpec => []GroupInv
<1>1. QED
  BY GroupInitInv, GroupNextInv, PTL DEF GroupSpec
----------------------------------------------------------------------------
(* What the invariant says of a bulk.                                      *)

(* A call that fails leaves the cache as it was when it began, for every   *)
(* bulk and chunk size (loadMissingAccounts stores after its last request).*)
THEOREM FailedCallsLeaveNothing == GroupSpec => []NoPartialCache
<1>1. GroupInv => NoPartialCache
  BY GoroutineAssumption DEF GroupInv, LoaderInv, AloneInv, NoPartialCache
<1>2. QED
  BY <1>1, GroupInvariance, PTL

(* Once the curves of a bulk are primed no further request is sent for     *)
(* them (GetMetricsByPumpfunBondingCurves primes every valid address).     *)
THEOREM PrimedCurvesAreHeld == GroupSpec => []CurvesCostOnePriming
<1>1. GroupInv => CurvesCostOnePriming
  BY DEF GroupInv, BulkInv, StageInv, CurveInv, CurvesCostOnePriming
<1>2. QED
  BY <1>1, GroupInvariance, PTL

(* Whatever codes the failures of a bulk have, an item ends with           *)
(* account_not_found only for a reason of its own: an account of its own   *)
(* that was asked for alone and not found, an account of its own in a call *)
(* that failed with "not found", or its own supply or conversion failing   *)
(* so (toSDKError goes by the text of an error).                           *)
THEOREM MissingHasAReason == GroupSpec => []MissingForAReason
<1>1. GroupInv => MissingForAReason
  BY DEF GroupInv, BulkInv, ResultInv, Reason, MissingForAReason
<1>2. QED
  BY <1>1, GroupInvariance, PTL

(* What the items of one response may disagree on, for every bulk: never on*)
(* an account they share nor on an FDV curve once one of them found it;    *)
(* their supplies, each asked for anew, only move forwards in time.        *)
THEOREM ItemsAgree == GroupSpec => []OneView
<1>1. GroupInv => OneView
  <2> SUFFICES ASSUME GroupInv PROVE OneView
    OBVIOUS
  <2>1. BulkInv /\ bulk \in Bulk
    BY DEF GroupInv, BulkInv, GroupTypes
  <2>2. ASSUME NEW i \in Items, Calculated(i)
        PROVE  /\ i \in Valid /\ FromCache(Used(i).accounts, i)
               /\ Used(i).accounts \in Seq(Info)
    BY <2>1, <2>2, UsedFacts DEF BulkInv, ResultInv
  <2>3. ASSUME NEW i \in Items, NEW j \in Items, Calculated(i), Calculated(j),
               NEW m \in DOMAIN Used(i).accounts, NEW n \in DOMAIN Used(j).accounts
        PROVE  LET a == Used(i).accounts[m]
                   b == Used(j).accounts[n]
               IN  /\ a.address = b.address => a = b
                   /\ m = 1 /\ n > 1 => a.slot <= b.slot
    <3> DEFINE a == Used(i).accounts[m]
               b == Used(j).accounts[n]
    <3>1. /\ i \in Valid /\ FromCache(Used(i).accounts, i)
          /\ Used(i).accounts \in Seq(Info) /\ m \in 1 .. Len(Used(i).accounts)
      BY <2>2, <2>3
    <3>2. /\ j \in Valid /\ FromCache(Used(j).accounts, j)
          /\ Used(j).accounts \in Seq(Info) /\ n \in 1 .. Len(Used(j).accounts)
      BY <2>2, <2>3
    <3>3. /\ a \in Info /\ a = cache[a.address] /\ (m = 1 => a.address = PoolOf(i))
      BY <3>1 DEF FromCache, OfItem
    <3>4. /\ b \in Info /\ Exists(b) /\ b = cache[b.address]
          /\ n # 1 => b.address \in Others(j)
      BY <3>2 DEF FromCache, OfItem
    <3> HIDE DEF a, b
    <3>5. a.address = b.address => a = b
      BY <3>3, <3>4
    <3>6. ASSUME m = 1, n > 1 PROVE a.slot <= b.slot
      <4>1. a.address \in Primary
        BY <2>1, <3>1, <3>3, <3>6, ItemReads
      <4>2. b.address \in Address \ Primary
        BY <2>1, <3>2, <3>4, <3>6, ItemReads
      <4>3. a # Nil /\ b # Nil
        BY <3>3, <3>4, NilAssumption
      <4>4. QED
        BY <2>1, <3>3, <3>4, <4>1, <4>2, <4>3 DEF BulkInv, ViewInv
    <3>7. QED
      BY <3>5, <3>6 DEF a, b
  <2>4. ASSUME bulk.curves, stage = "returned", NEW i \in Items, NEW j \in Items,
               Reads(i) = Reads(j)
        PROVE  results[i] = results[j]
    <3>1. i \in Valid <=> j \in Valid
      BY <2>4 DEF Valid, Refused
    <3>2. CASE i \notin Valid
      <4>1. Refused(i) /\ Refused(j)
        BY <3>1, <3>2 DEF Valid
      <4>2. QED
        BY <2>1, <2>4, <4>1 DEF BulkInv, StageInv, FailedWith
    <3>3. CASE i \in Valid
      <4>1. PoolOf(i) = PoolOf(j) /\ CurveOutcome(i) = CurveOutcome(j)
        BY <2>4 DEF PoolOf, CurveOutcome
      <4>2. results[i] # Unresolved /\ results[j] # Unresolved
        BY <2>1, <2>4, <3>1, <3>3 DEF BulkInv, StageInv, Left
      <4>3. QED
        BY <2>1, <2>4, <3>1, <3>3, <4>1, <4>2 DEF BulkInv, CurveInv, FailedWith
    <3>4. QED
      BY <3>2, <3>3
  <2>5. AccountsAgree
    BY <2>3, <2>4 DEF AccountsAgree
  <2>6. SuppliesInOrder /\ CurvesAgree
    BY <2>1 DEF BulkInv, SupplyInv, FdvInv
  <2>7. QED
    BY <2>5, <2>6 DEF OneView
<1>2. QED
  BY <1>1, GroupInvariance, PTL
----------------------------------------------------------------------------
(* Sequences put together.                                                 *)

\* The first n parts of s put together, one table entry for each n.
IsFlat(f, s, n) == f = [i \in 1 .. n |-> IF i = 1 THEN s[i] ELSE f[i - 1] \o s[i]]

LEMMA FlatAt ==
  ASSUME NEW f, NEW s, NEW n, IsFlat(f, s, n), NEW i \in 1 .. n
  PROVE  f[i] = IF i = 1 THEN s[i] ELSE f[i - 1] \o s[i]
BY Zenon DEF IsFlat

LEMMA FlatExists ==
  ASSUME NEW s, NEW m \in Nat \ {0}
  PROVE  \E f : IsFlat(f, s, m)
<1> DEFINE Without == {n \in Nat \ {0} : ~ \E f : IsFlat(f, s, n)}
<1> SUFFICES ASSUME Without # {} PROVE FALSE
  OBVIOUS
<1>1. PICK n \in Without : \A j \in Without : n <= j
  <2>1. Without \in SUBSET Nat
    OBVIOUS
  <2> HIDE DEF Without
  <2>2. QED
    BY <2>1, Minimum
<1>2. n \in Nat \ {0} /\ ~ \E f : IsFlat(f, s, n)
  OBVIOUS
<1>3. CASE n = 1
  <2> DEFINE f == [i \in 1 .. 1 |-> s[i]]
  <2>1. f = [i \in 1 .. 1 |-> IF i = 1 THEN s[i] ELSE f[i - 1] \o s[i]]
    OBVIOUS
  <2> HIDE DEF f
  <2>2. QED
    BY <1>2, <1>3, <2>1 DEF IsFlat
<1>4. CASE n # 1
  <2>1. n - 1 \in Nat \ {0} /\ ~ (n <= n - 1)
    BY <1>2, <1>4
  <2>2. n - 1 \notin Without
    BY <1>1, <2>1
  <2>3. PICK f : IsFlat(f, s, n - 1)
    BY <2>1, <2>2
  <2> DEFINE g == [i \in 1 .. n |-> IF i = n THEN f[n - 1] \o s[n] ELSE f[i]]
  <2>4. ASSUME NEW i \in 1 .. n
        PROVE  g[i] = IF i = 1 THEN s[i] ELSE g[i - 1] \o s[i]
    <3>1. CASE i = n
      <4>1. n \in 1 .. n /\ n - 1 \in 1 .. n /\ n - 1 # n
        BY <1>2, <2>1
      <4>2. g[n] = f[n - 1] \o s[n] /\ g[n - 1] = f[n - 1]
        BY <4>1, Zenon
      <4> HIDE DEF g
      <4>3. QED
        BY <1>4, <3>1, <4>2
    <3>2. CASE i # n
      <4>1. i \in 1 .. n - 1 /\ g[i] = f[i]
        BY <1>2, <3>2
      <4>2. f[i] = IF i = 1 THEN s[i] ELSE f[i - 1] \o s[i]
        BY <2>3, <4>1, FlatAt
      <4>3. i # 1 => i - 1 \in 1 .. n /\ i - 1 # n
        BY <1>2, <4>1
      <4>4. i # 1 => g[i - 1] = f[i - 1]
        BY <4>3
      <4>5. QED
        BY <4>1, <4>2, <4>4
    <3>3. QED
      BY <3>1, <3>2
  <2>5. g = [i \in 1 .. n |-> g[i]]
    OBVIOUS
  <2> HIDE DEF g
  <2>6. g = [i \in 1 .. n |-> IF i = 1 THEN s[i] ELSE g[i - 1] \o s[i]]
    BY <2>4, <2>5
  <2>7. QED
    BY <1>2, <2>6 DEF IsFlat
<1>5. QED
  BY <1>3, <1>4

\* Two tables of the same sequence agree where both are defined.
LEMMA FlatUnique ==
  ASSUME NEW s, NEW f, NEW g, NEW m \in Nat, NEW n \in Nat, m <= n,
         IsFlat(f, s, m), IsFlat(g, s, n), NEW l \in 1 .. m
  PROVE  f[l] = g[l]
<1> DEFINE Differ == {i \in 1 .. m : f[i] # g[i]}
<1> SUFFICES ASSUME Differ # {} PROVE FALSE
  OBVIOUS
<1>1. PICK i \in Differ : \A j \in Differ : i <= j
  <2>1. Differ \in SUBSET Nat
    OBVIOUS
  <2> HIDE DEF Differ
  <2>2. QED
    BY <2>1, Minimum
<1>2. i \in 1 .. m /\ i \in 1 .. n /\ f[i] # g[i]
  OBVIOUS
<1>3. /\ f[i] = IF i = 1 THEN s[i] ELSE f[i - 1] \o s[i]
      /\ g[i] = IF i = 1 THEN s[i] ELSE g[i - 1] \o s[i]
  BY <1>2 DEF IsFlat
<1>4. i # 1
  BY <1>2, <1>3
<1>5. i - 1 \in 1 .. m /\ ~ (i <= i - 1)
  BY <1>2, <1>4
<1>6. f[i - 1] = g[i - 1]
  BY <1>1, <1>5
<1>7. QED
  BY <1>2, <1>3, <1>4, <1>6

\* FlattenSeq is the last entry of the table.
LEMMA FlattenIsLast ==
  ASSUME NEW s, NEW n \in Nat \ {0}, NEW t, Len(t) = n, \A i \in 1 .. n : t[i] = s[i]
  PROVE  \E f : IsFlat(f, s, n) /\ FlattenSeq(t) = f[n]
<1> DEFINE Table(f) == f = [i \in 1 .. Len(t) |-> IF i = 1 THEN t[i] ELSE f[i - 1] \o t[i]]
           flatten == CHOOSE f : Table(f)
<1>1. ASSUME NEW f
      PROVE  Table(f) <=> IsFlat(f, s, n)
  BY DEF IsFlat
<1>2. FlattenSeq(t) = flatten[n]
  BY DEF FlattenSeq
<1>3. \E f : Table(f)
  BY <1>1, FlatExists
<1>4. Table(flatten)
  <2> HIDE DEF Table
  <2>1. QED
    BY <1>3
<1> HIDE DEF Table, flatten
<1>5. QED
  BY <1>1, <1>2, <1>4

\* One more part is put after those before it.
LEMMA FlattenSnoc ==
  ASSUME NEW X, NEW s \in Seq(Seq(X)), NEW m \in Nat, m < Len(s)
  PROVE  FlattenSeq(SubSeq(s, 1, m + 1)) =
           IF m = 0 THEN s[1] ELSE FlattenSeq(SubSeq(s, 1, m)) \o s[m + 1]
<1> DEFINE one == SubSeq(s, 1, m)
           n == m + 1
           two == SubSeq(s, 1, n)
<1>1. /\ Len(one) = m /\ \A i \in 1 .. m : one[i] = s[i]
      /\ Len(two) = n /\ \A i \in 1 .. n : two[i] = s[i]
  OBVIOUS
<1>2. n \in Nat \ {0} /\ n \in 1 .. n /\ n - 1 = m /\ m <= n /\ (n = 1 <=> m = 0)
  OBVIOUS
<1> HIDE DEF one, two, n
<1>3. PICK g : IsFlat(g, s, n) /\ FlattenSeq(two) = g[n]
  <2>1. n \in Nat \ {0}
    BY <1>2
  <2>2. Len(two) = n
    BY <1>1
  <2>3. \A i \in 1 .. n : two[i] = s[i]
    BY <1>1
  <2>4. QED
    BY <2>1, <2>2, <2>3, FlattenIsLast, Zenon
<1>4. g[n] = IF n = 1 THEN s[n] ELSE g[n - 1] \o s[n]
  BY <1>2, <1>3, FlatAt
<1>5. CASE m = 0
  BY <1>2, <1>3, <1>4, <1>5 DEF two, n
<1>6. CASE m # 0
  <2>1. m \in Nat \ {0} /\ m \in 1 .. m
    BY <1>6
  <2>2. PICK f : IsFlat(f, s, m) /\ FlattenSeq(one) = f[m]
    <3>1. m \in Nat \ {0} /\ Len(one) = m
      BY <1>1, <2>1
    <3>2. \A i \in 1 .. m : one[i] = s[i]
      BY <1>1
    <3>3. QED
      BY <3>1, <3>2, FlattenIsLast, Zenon
  <2>3. f[m] = g[m]
    BY <1>2, <1>3, <2>1, <2>2, FlatUnique
  <2>4. g[n] = g[m] \o s[n]
    BY <1>2, <1>4, <1>6, Zenon
  <2>5. QED
    BY <1>3, <1>6, <2>2, <2>3, <2>4 DEF one, two, n
<1>7. QED
  BY <1>5, <1>6
----------------------------------------------------------------------------
(* The contract of a bulk call.                                            *)

\* The addresses of what was read.
Addresses(s) == [n \in 1 .. Len(s) |-> s[n].address]

\* What the current item has read are the accounts it asked for, in its order.
SeenInv == step > 0 => Addresses(seen) = FlattenSeq(SubSeq(Reads(Current), 1, step))

LEMMA Together ==
  ASSUME NEW X, NEW s \in Seq(X), NEW t \in Seq(X)
  PROVE  /\ s \o t \in Seq(X) /\ Len(s \o t) = Len(s) + Len(t)
         /\ Len(s) \in Nat /\ Len(t) \in Nat
         /\ \A n \in 1 .. Len(s) + Len(t) :
              (s \o t)[n] = IF n <= Len(s) THEN s[n] ELSE t[n - Len(s)]
OBVIOUS

LEMMA AddressesType ==
  ASSUME NEW s \in Seq(Info)
  PROVE  /\ Addresses(s) \in Seq(Address) /\ Len(Addresses(s)) = Len(s)
         /\ \A n \in 1 .. Len(s) : Addresses(s)[n] = s[n].address
<1> DEFINE m == Len(s)
<1>1. m \in Nat /\ \A n \in 1 .. m : s[n].address \in Address
  <2>1. m \in Nat /\ \A n \in 1 .. m : s[n] \in Info
    OBVIOUS
  <2>2. \A i \in Info : i.address \in Address
    BY DEF Info
  <2>3. QED
    BY <2>1, <2>2, Zenon
<1>2. Addresses(s) = [n \in 1 .. m |-> s[n].address]
  BY DEF Addresses
<1> HIDE DEF m
<1>3. QED
  BY <1>1, <1>2 DEF m

LEMMA AddressesTogether ==
  ASSUME NEW s \in Seq(Info), NEW t \in Seq(Info)
  PROVE  Addresses(s \o t) = Addresses(s) \o Addresses(t)
<1> DEFINE a == Addresses(s)
           b == Addresses(t)
           c == Addresses(s \o t)
           l == Len(s) + Len(t)
<1>1. /\ s \o t \in Seq(Info) /\ Len(s \o t) = l
      /\ Len(s) \in Nat /\ Len(t) \in Nat
      /\ \A n \in 1 .. l : (s \o t)[n] = IF n <= Len(s) THEN s[n] ELSE t[n - Len(s)]
  BY Together
<1>2. /\ a \in Seq(Address) /\ Len(a) = Len(s) /\ \A n \in 1 .. Len(s) : a[n] = s[n].address
      /\ b \in Seq(Address) /\ Len(b) = Len(t) /\ \A n \in 1 .. Len(t) : b[n] = t[n].address
  BY AddressesType
<1>3. c \in Seq(Address) /\ Len(c) = l /\ \A n \in 1 .. l : c[n] = (s \o t)[n].address
  BY <1>1, AddressesType, Zenon
<1> HIDE DEF a, b, c
<1>4. /\ a \o b \in Seq(Address) /\ Len(a \o b) = l
      /\ \A n \in 1 .. l : (a \o b)[n] = IF n <= Len(s) THEN a[n] ELSE b[n - Len(s)]
  <2>1. a \in Seq(Address) /\ b \in Seq(Address)
    BY <1>2
  <2>2. /\ a \o b \in Seq(Address) /\ Len(a \o b) = Len(a) + Len(b)
        /\ \A n \in 1 .. Len(a) + Len(b) :
             (a \o b)[n] = IF n <= Len(a) THEN a[n] ELSE b[n - Len(a)]
    BY <2>1, Together, Zenon
  <2>3. Len(a) = Len(s) /\ Len(b) = Len(t)
    BY <1>2
  <2>4. QED
    BY <2>2, <2>3
<1>5. ASSUME NEW n \in 1 .. l
      PROVE  c[n] = (a \o b)[n]
  <2>1. CASE n <= Len(s)
    <3>1. n \in 1 .. Len(s)
      BY <1>1, <2>1
    <3>2. QED
      BY <1>1, <1>2, <1>3, <1>4, <2>1, <3>1
  <2>2. CASE ~ (n <= Len(s))
    <3>1. n - Len(s) \in 1 .. Len(t)
      BY <1>1, <2>2
    <3>2. QED
      BY <1>1, <1>2, <1>3, <1>4, <2>2, <3>1
  <2>3. QED
    BY <2>1, <2>2
<1> HIDE DEF l
<1>6. c = a \o b
  BY <1>3, <1>4, <1>5
<1>7. QED
  BY <1>6 DEF a, b, c

\* An answered request adds the accounts it was for.
LEMMA ReadAddresses ==
  ASSUME GroupInv, SeenInv, stage = "read", pc[Goroutine] = "done"
  PROVE  Addresses(seen \o out[Goroutine]) = FlattenSeq(SubSeq(Reads(Current), 1, step + 1))
<1> DEFINE g == Goroutine
           reads == Reads(Current)
           r == reads[step + 1]
<1>1. BulkInv /\ IInv /\ LoaderInv(g) /\ bulk \in Bulk /\ g \in Caller
  BY GoroutineAssumption DEF GroupInv, BulkInv, GroupTypes
<1>2. /\ Current \in Valid /\ step \in Nat /\ step < Len(reads) /\ req[g] = r
      /\ seen \in Seq(Info) /\ (step = 0 <=> seen = <<>>)
  BY <1>1, CurrentLeft DEF BulkInv, GroupTypes, StageInv
<1>3. reads \in Seq(Seq(Address)) /\ Len(reads) \in Nat
  BY <1>1, <1>2, ItemReads
<1>4. /\ out[g] \in Seq(Info) /\ Len(out[g]) = Len(r)
      /\ \A i \in 1 .. Len(out[g]) : out[g][i].address = r[i]
  BY <1>1, <1>2 DEF IInv, TypeOK, CallInv, AnswerInv
<1>5. r \in Seq(Address)
  BY <1>2, <1>3
<1> HIDE DEF r, reads
<1>6. Addresses(out[g]) = r
  BY <1>4, <1>5 DEF Addresses
<1>7. FlattenSeq(SubSeq(reads, 1, step + 1)) =
        IF step = 0 THEN reads[1] ELSE FlattenSeq(SubSeq(reads, 1, step)) \o reads[step + 1]
  BY <1>2, <1>3, FlattenSnoc
<1>8. CASE step = 0
  <2>1. seen \o out[g] = out[g] /\ r = reads[1]
    BY <1>2, <1>4, <1>8 DEF r
  <2>2. QED
    BY <1>6, <1>7, <1>8, <2>1 DEF reads
<1>9. CASE step # 0
  <2>1. step > 0
    BY <1>2, <1>9
  <2>2. Addresses(seen) = FlattenSeq(SubSeq(reads, 1, step))
    BY <2>1 DEF SeenInv, reads
  <2>3. QED
    BY <1>2, <1>4, <1>6, <1>7, <1>9, <2>2, AddressesTogether DEF r, reads
<1>10. QED
  BY <1>8, <1>9

LEMMA SeenStep ==
  ASSUME GroupInv, SeenInv, [GroupNext]_groupVars
  PROVE  SeenInv'
<1>1. CASE UNCHANGED <<bulk, results, step, seen>>
  BY <1>1, SameItems, SameResults DEF SeenInv, Addresses
<1>2. CASE step' = 0
  BY <1>2 DEF SeenInv
<1>3. CASE Answered
  <2> DEFINE read == seen \o out[Goroutine]
  <2>1. stage = "read" /\ pc[Goroutine] = "done"
    BY <1>3 DEF Answered
  <2>2. Addresses(read) = FlattenSeq(SubSeq(Reads(Current), 1, step + 1))
    BY <2>1, ReadAddresses
  <2>3. \/ \E o : Resolve(o)
        \/ step' = step + 1 /\ seen' = read /\ UNCHANGED <<bulk, results>>
    BY <1>3 DEF Answered
  <2> HIDE DEF read
  <2>4. CASE step' = step + 1 /\ seen' = read /\ UNCHANGED <<bulk, results>>
    <3>1. Reads(Current)' = Reads(Current)
      BY <2>4, SameItems, SameResults
    <3>2. QED
      BY <2>2, <2>4, <3>1 DEF SeenInv, Addresses
  <2>5. QED
    BY <1>2, <2>3, <2>4 DEF Resolve
<1>4. CASE Validate \/ PrimeFails
  <2>1. step \in Nat /\ ~ (step > 0) /\ step' = step
    BY <1>4 DEF GroupInv, BulkInv, GroupTypes, StageInv, Validate, PrimeFails
  <2>2. QED
    BY <1>2, <2>1
<1>5. CASE ReadFails \/ Refuse \/ RunFails \/ Finish
  BY <1>2, <1>5 DEF ReadFails, Refuse, RunFails, Finish, Resolve
<1>6. CASE \/ Primed \/ Ask \/ Supply \/ Return \/ LoaderStep \/ ChainStep \/ Returned
           \/ UNCHANGED groupVars
  BY <1>1, <1>6
     DEF Primed, Ask, Supply, Return, LoaderStep, ChainStep, Returned, groupVars, bulkVars
<1>7. QED
  BY <1>3, <1>4, <1>5, <1>6 DEF GroupNext, Run

\* What has been read of an item is a prefix of its calculator's reads, in every
\* reachable state.
THEOREM SeenInvariance == GroupSpec => []SeenInv
<1>1. GroupInit => SeenInv
  BY DEF GroupInit, SeenInv
<1>2. GroupInv /\ SeenInv /\ [GroupNext]_groupVars => SeenInv'
  BY SeenStep
<1>3. QED
  BY <1>1, <1>2, GroupInvariance, PTL DEF GroupSpec

\* No item has an outcome before the items are validated.
FreshInv == stage = "start" => \A i \in Items : results[i] = Unresolved

\* That holds in every reachable state: only Validate leaves the start.
THEOREM FreshInvariance == GroupSpec => []FreshInv
<1>1. GroupInit => FreshInv
  BY DEF GroupInit, FreshInv
<1>2. FreshInv /\ [GroupNext]_groupVars => FreshInv'
  <2> SUFFICES ASSUME FreshInv, [GroupNext]_groupVars PROVE FreshInv'
    OBVIOUS
  <2>1. stage' # "start" \/ UNCHANGED <<stage, bulk, results>>
    BY DEF GroupNext, Run, Validate, Primed, PrimeFails, Ask, Answered, ReadFails, Refuse,
       Supply, RunFails, Finish, Return, Resolve, LoaderStep, ChainStep, Returned,
       groupVars, bulkVars
  <2>2. QED
    BY <2>1 DEF FreshInv, Items
<1>3. QED
  BY <1>1, <1>2, PTL DEF GroupSpec

\* Which errors an item may end with.
LEMMA ErrorOutcomes ==
  /\ \A item, i : item.reads = <<>> => WithError("invalid_argument") \in OutcomesOf(item, i)
  /\ \A item, i : item.reads # <<>> =>
       \A code \in Codes \ {"invalid_argument"} : WithError(code) \in OutcomesOf(item, i)
BY DEF OutcomesOf

\* The metrics of an item are of the accounts of its own reads, in their order.
LEMMA MetricsOutcome ==
  ASSUME NEW item \in Item, NEW i, item.reads # <<>>,
         NEW s \in Seq(Info), \A n \in 1 .. Len(s) : Exists(s[n]),
         Addresses(s) = FlattenSeq(item.reads),
         NEW supplied \in 0 .. MaxSlot, NEW curve \in Info \cup {Nil},
         curve # Nil => curve.address = item.curve /\ Exists(curve)
  PROVE  WithMetrics(s, supplied, curve) \in OutcomesOf(item, i)
<1> DEFINE own == FlattenSeq(item.reads)
           at == [n \in DOMAIN own |-> s[n].slot]
<1>1. /\ own \in Seq(Address) /\ Len(own) = Len(s)
      /\ \A n \in 1 .. Len(s) : own[n] = s[n].address
  BY AddressesType, Zenon
<1> HIDE DEF own
<1>2. DOMAIN own = 1 .. Len(s) /\ DOMAIN s = 1 .. Len(s)
  BY <1>1
<1>3. ASSUME NEW n \in 1 .. Len(s)
      PROVE  /\ s[n].slot \in 1 .. MaxSlot
             /\ s[n] = [address |-> own[n], slot |-> s[n].slot]
  <2>1. s[n] \in Info /\ Exists(s[n]) /\ own[n] = s[n].address
    BY <1>1, <1>2
  <2>2. \A info \in Info : /\ Exists(info) => info.slot \in 1 .. MaxSlot
                           /\ info = [address |-> info.address, slot |-> info.slot]
    BY BoundAssumption DEF Info, Exists
  <2>3. QED
    BY <2>1, <2>2
<1>4. at \in [DOMAIN own -> 1 .. MaxSlot]
  BY <1>2, <1>3
<1>5. s = [n \in DOMAIN own |-> [address |-> own[n], slot |-> at[n]]]
  <2>1. s = [n \in 1 .. Len(s) |-> s[n]]
    OBVIOUS
  <2>2. \A n \in 1 .. Len(s) : at[n] = s[n].slot
    BY <1>2
  <2> HIDE DEF at
  <2>3. \A n \in 1 .. Len(s) : s[n] = [address |-> own[n], slot |-> at[n]]
    BY <1>3, <2>2
  <2>4. QED
    BY <1>2, <2>1, <2>3, Zenon
<1> HIDE DEF at
<1>6. curve \in {info \in Info : info.address = item.curve /\ Exists(info)} \cup {Nil}
  OBVIOUS
<1> DEFINE answers == {[n \in DOMAIN own |-> [address |-> own[n], slot |-> f[n]]]
                        : f \in [DOMAIN own -> 1 .. MaxSlot]}
           curves == {info \in Info : info.address = item.curve /\ Exists(info)} \cup {Nil}
<1>7. OutcomesOf(item, i) =
        {WithError(e) : e \in Codes \ {"invalid_argument"}}
          \cup {WithMetrics(a, b, c) : a \in answers, b \in 0 .. MaxSlot, c \in curves}
  BY DEF OutcomesOf, own
<1>8. s \in answers
  BY <1>4, <1>5
<1> HIDE DEF answers, curves
<1>9. curve \in curves
  BY <1>6 DEF curves
<1>10. WithMetrics(s, supplied, curve) \in
         {WithMetrics(a, b, c) : a \in answers, b \in 0 .. MaxSlot, c \in curves}
  BY <1>8, <1>9
<1>11. QED
  BY <1>7, <1>10

\* The current item, and all it has read once its reads are answered.
LEMMA CurrentItem ==
  ASSUME GroupInv, Left # {}
  PROVE  /\ bulk.items[Current] \in Item /\ Reads(Current) # <<>>
         /\ Reads(Current) = bulk.items[Current].reads
         /\ Curve(Current) = bulk.items[Current].curve
         /\ SubSeq(Reads(Current), 1, Len(Reads(Current))) = Reads(Current)
         /\ Len(Reads(Current)) \in Nat \ {0}
<1>1. bulk \in Bulk /\ Current \in Valid
  BY CurrentLeft DEF GroupInv, BulkInv, GroupTypes
<1>2. bulk.items \in Seq(Item) /\ Current \in DOMAIN bulk.items /\ Reads(Current) # <<>>
  BY <1>1, BulkAssumption DEF Valid, Items, Refused
<1>3. Reads(Current) \in Seq(Seq(Address)) /\ Len(Reads(Current)) \in Nat \ {0}
  BY <1>1, ItemReads
<1>4. SubSeq(Reads(Current), 1, Len(Reads(Current))) = Reads(Current)
  BY <1>3
<1>5. QED
  BY <1>2, <1>3, <1>4 DEF Reads, Curve

\* An outcome of its own for the current item is a step of the contract.
LEMMA ResolveKeepsContract ==
  ASSUME GroupInv, stage # "returned", Left # {},
         NEW o \in OutcomesOf(bulk.items[Current], Current), Resolve(o)
  PROVE  Contract!Next
<1>1. bulk \in Bulk /\ results \in [Items -> Outcome \cup {Unresolved}]
  BY DEF GroupInv, BulkInv, GroupTypes
<1>2. Current \in Items /\ results[Current] = Unresolved
  BY <1>1, CurrentLeft DEF Valid
<1>3. /\ results' = [results EXCEPT ![Current] = o]
      /\ stage' = "items" /\ bulk' = bulk
  BY DEF Resolve
<1>4. /\ DOMAIN results' = Items
      /\ \A i \in Items :
           \/ results'[i] = results[i]
           \/ results[i] = Unresolved /\ results'[i] \in OutcomesOf(bulk.items[i], i)
  BY <1>1, <1>2, <1>3
<1>5. Contract!Resolve
  BY <1>4 DEF Contract!Resolve, Items
<1>6. Contract!Answer
  BY <1>3 DEF Contract!Answer
<1>7. QED
  BY <1>3, <1>5, <1>6 DEF Contract!Next

LEMMA ValidateKeepsContract ==
  ASSUME GroupInv, FreshInv, Validate
  PROVE  Contract!Next
<1>1. /\ stage = "start" /\ bulk' = bulk /\ bulk \in Bulk
      /\ results' = [i \in Items |-> IF Refused(i) THEN WithError("invalid_argument")
                                     ELSE Unresolved]
      /\ \A i \in Items : results[i] = Unresolved
      /\ stage' = "returned" => Valid = {}
  BY DEF Validate, FreshInv, GroupInv, BulkInv, GroupTypes
<1>2. ASSUME NEW i \in Items
      PROVE  \/ results'[i] = results[i]
             \/ results[i] = Unresolved /\ results'[i] \in OutcomesOf(bulk.items[i], i)
  <2>1. CASE Refused(i)
    <3>1. bulk.items[i].reads = <<>> /\ results'[i] = WithError("invalid_argument")
      BY <1>1, <2>1 DEF Refused, Reads
    <3>2. QED
      BY <1>1, <3>1, ErrorOutcomes
  <2>2. CASE ~ Refused(i)
    BY <1>1, <2>2
  <2>3. QED
    BY <2>1, <2>2
<1>3. DOMAIN results' = Items
  BY <1>1
<1>4. Contract!Resolve
  BY <1>2, <1>3 DEF Contract!Resolve, Items
<1>5. stage' = "returned" => \A i \in Items : results'[i] # Unresolved
  BY <1>1, OutcomeFacts DEF Valid, Codes
<1>6. Contract!Answer
  BY <1>5 DEF Contract!Answer, Items
<1>7. QED
  BY <1>1, <1>4, <1>6 DEF Contract!Next

LEMMA PrimeFailsKeepsContract ==
  ASSUME GroupInv, PrimeFails
  PROVE  Contract!Next
<1>1. PICK code \in CallCodes :
        /\ stage = "prime" /\ stage' = "items" /\ bulk' = bulk /\ Left = Valid
        /\ results' = [i \in Items |-> IF i \in Valid THEN WithError(code) ELSE results[i]]
  BY DEF PrimeFails, GroupInv, BulkInv, StageInv
<1>0. code \in Codes \ {"invalid_argument"}
  BY CodeAssumption DEF CallCodes, Codes
<1>2. ASSUME NEW i \in Items
      PROVE  \/ results'[i] = results[i]
             \/ results[i] = Unresolved /\ results'[i] \in OutcomesOf(bulk.items[i], i)
  <2>1. CASE i \in Valid
    <3>1. bulk.items[i].reads # <<>> /\ results[i] = Unresolved
      BY <1>1, <2>1 DEF Left, Valid, Refused, Reads
    <3>2. results'[i] = WithError(code)
      BY <1>1, <2>1
    <3>3. QED
      BY <1>0, <3>1, <3>2, ErrorOutcomes
  <2>2. CASE i \notin Valid
    BY <1>1, <2>2
  <2>3. QED
    BY <2>1, <2>2
<1>3. DOMAIN results' = Items
  BY <1>1
<1>4. Contract!Resolve
  BY <1>2, <1>3 DEF Contract!Resolve, Items
<1>5. Contract!Answer
  BY <1>1 DEF Contract!Answer
<1>6. QED
  BY <1>1, <1>4, <1>5 DEF Contract!Next

LEMMA ReturnKeepsContract ==
  ASSUME GroupInv, Return
  PROVE  Contract!Next
<1>1. /\ stage = "items" /\ Left = {} /\ UNCHANGED <<bulk, results>>
      /\ results \in [Items -> Outcome \cup {Unresolved}]
      /\ \A i \in Items : Refused(i) => FailedWith(i, "invalid_argument")
  BY DEF Return, GroupInv, BulkInv, GroupTypes, StageInv
<1>2. \A i \in Items : results[i] # Unresolved
  BY <1>1, OutcomeFacts DEF Left, Valid, FailedWith, Codes
<1>3. Contract!Resolve /\ Contract!Answer
  BY <1>1, <1>2 DEF Contract!Resolve, Contract!Answer, Items
<1>4. QED
  BY <1>1, <1>3 DEF Contract!Next

\* So is an error of the current item.
LEMMA ErrorKeepsContract ==
  ASSUME GroupInv, stage # "returned", Left # {},
         NEW code \in Codes \ {"invalid_argument"}, Resolve(WithError(code))
  PROVE  Contract!Next
<1>1. WithError(code) \in OutcomesOf(bulk.items[Current], Current)
  BY CurrentItem, ErrorOutcomes
<1>2. QED
  BY <1>1, ResolveKeepsContract

LEMMA AnsweredKeepsContract ==
  ASSUME GroupInv, SeenInv, Answered
  PROVE  [Contract!Next]_(Contract!contractVars)
<1> DEFINE answer == out[Goroutine]
<1>1. stage = "read" /\ pc[Goroutine] = "done" /\ Left # {} /\ bulk \in Bulk
  BY DEF Answered, GroupInv, BulkInv, GroupTypes, StageInv
<1>2. CASE Missing(answer)
  <2>1. PICK code \in MissingCodes : Resolve(WithError(code))
    BY <1>2 DEF Answered
  <2>2. code \in Codes \ {"invalid_argument"}
    BY DEF MissingCodes, Codes
  <2>3. QED
    BY <1>1, <2>1, <2>2, ErrorKeepsContract
<1>3. CASE ~ Missing(answer) /\ bulk.curves
  <2>1. Resolve(WithMetrics(answer, 0, Nil))
    BY <1>3 DEF Answered
  <2>2. /\ answer \in Seq(Info) /\ seen \o answer = answer
        /\ \A n \in 1 .. Len(answer) : Exists(answer[n])
    <3>1. answer \in Seq(Info) /\ seen \o answer = answer
      BY <1>1, <1>3, OutFacts
    <3>2. DOMAIN answer = 1 .. Len(answer)
      BY <3>1
    <3>3. QED
      BY <1>3, <3>1, <3>2 DEF Missing
  <2>3. step + 1 = Len(Reads(Current))
    <3>1. Current \in Valid /\ step \in Nat /\ step < Len(Reads(Current))
      BY <1>1, CurrentLeft DEF GroupInv, BulkInv, GroupTypes, StageInv
    <3>2. Len(Reads(Current)) = 1
      BY <1>1, <1>3, <3>1, ItemReads
    <3>3. QED
      BY <3>1, <3>2
  <2>4. Addresses(answer) = FlattenSeq(bulk.items[Current].reads)
    BY <1>1, <2>2, <2>3, ReadAddresses, CurrentItem
  <2>5. 0 \in 0 .. MaxSlot /\ Nil \in Info \cup {Nil}
    BY BoundAssumption
  <2> HIDE DEF answer
  <2>6. WithMetrics(answer, 0, Nil) \in OutcomesOf(bulk.items[Current], Current)
    BY <1>1, <2>2, <2>4, <2>5, CurrentItem, MetricsOutcome
  <2>7. QED
    BY <1>1, <2>1, <2>6, ResolveKeepsContract
<1>4. CASE ~ Missing(answer) /\ ~ bulk.curves
  <2>1. stage' = "items" /\ UNCHANGED <<bulk, results>>
    BY <1>4 DEF Answered
  <2>2. QED
    BY <1>1, <2>1 DEF Contract!contractVars
<1>5. QED
  BY <1>2, <1>3, <1>4

LEMMA FinishKeepsContract ==
  ASSUME GroupInv, SeenInv, Finish
  PROVE  Contract!Next
<1> DEFINE g == Goroutine
           answer == out[g]
           curve == IF pc[g] = "done" /\ ~ Missing(answer) THEN answer[1] ELSE Nil
<1>1. /\ stage = "fdv" /\ Left # {} /\ step = Len(Reads(Current))
      /\ req[g] = <<Curve(Current)>> /\ Resolve(WithMetrics(seen, supply, curve))
  BY DEF Finish, FDVEnded, Complete, GroupInv, BulkInv, StageInv
<1>2. ASSUME curve # Nil
      PROVE  curve \in Info /\ curve.address = bulk.items[Current].curve /\ Exists(curve)
  <2>1. /\ pc[g] = "done" /\ ~ Missing(answer) /\ curve = answer[1]
    BY <1>2
  <2>2. g \in Caller /\ IInv
    BY GoroutineAssumption DEF GroupInv, BulkInv
  <2>3. answer \in Seq(Info) /\ Len(answer) = Len(req[g])
        /\ \A n \in 1 .. Len(answer) : answer[n].address = req[g][n]
    BY <2>2, <2>1 DEF IInv, TypeOK, CallInv, AnswerInv
  <2>4. Len(req[g]) = 1 /\ req[g][1] = Curve(Current)
    BY <1>1
  <2> HIDE DEF answer, curve
  <2>5. answer \in Seq(Info) /\ Len(answer) = 1 /\ answer[1].address = Curve(Current)
    BY <2>3, <2>4
  <2>6. 1 \in 1 .. Len(answer) /\ DOMAIN answer = 1 .. Len(answer)
    <3>1. DOMAIN answer = 1 .. Len(answer)
      BY <2>5
    <3>2. Len(answer) = 1
      BY <2>5
    <3> HIDE DEF answer
    <3>3. 1 \in 1 .. Len(answer)
      BY ONLY <3>2
    <3>4. QED
      BY <3>1, <3>3
  <2>7. answer \in Seq(Info)
    BY <2>3
  <2>8. \A n \in 1 .. Len(answer) : answer[n] \in Info
    BY ONLY <2>7
  <2>9. QED
    BY <1>1, <2>1, <2>5, <2>6, <2>8, CurrentItem DEF Missing
<1> HIDE DEF curve
<1>3. seen \in Seq(Info) /\ supply \in 0 .. MaxSlot
      /\ \A n \in 1 .. Len(seen) : Exists(seen[n])
  BY DEF GroupInv, BulkInv, GroupTypes, ResultInv, FromCache
<1>4. Addresses(seen) = FlattenSeq(bulk.items[Current].reads)
  <2>1. step > 0
    BY <1>1, CurrentItem
  <2>2. QED
    BY <1>1, <2>1, CurrentItem DEF SeenInv
<1>5. WithMetrics(seen, supply, curve) \in OutcomesOf(bulk.items[Current], Current)
  BY <1>1, <1>2, <1>3, <1>4, CurrentItem, MetricsOutcome
<1>6. QED
  BY <1>1, <1>5, ResolveKeepsContract

\* The errors of the current item, one action each.
LEMMA FailureKeepsContract ==
  ASSUME GroupInv, ReadFails \/ Refuse \/ RunFails
  PROVE  Contract!Next
<1>1. \E code \in FailureCodes : Resolve(WithError(code))
  BY DEF ReadFails, Refuse, RunFails, CallCodes
<1>2. PICK code \in FailureCodes : Resolve(WithError(code))
  BY <1>1
<1>3. code \in Codes \ {"invalid_argument"}
  BY CodeAssumption DEF Codes
<1>4. stage # "returned" /\ Left # {}
  BY DEF ReadFails, Refuse, RunFails, FDVEnded, Complete, GroupInv, BulkInv, StageInv
<1>5. QED
  BY <1>2, <1>3, <1>4, ErrorKeepsContract

\* The bulk keeps the contract of a bulk call, whatever its items read and however
\* the chain moves: each item gets one outcome, chosen once, from the accounts it
\* names itself, and the response goes out when all items have theirs.
THEOREM ContractSafety ==
  GroupSpec => Contract!Init /\ [][Contract!Next]_(Contract!contractVars)
<1>1. GroupInit => Contract!Init
  BY DEF GroupInit, Contract!Init, Items
<1>2. /\ GroupInv /\ SeenInv /\ FreshInv /\ [GroupNext]_groupVars
      => [Contract!Next]_(Contract!contractVars)
  <2> SUFFICES ASSUME GroupInv, SeenInv, FreshInv, [GroupNext]_groupVars
               PROVE  [Contract!Next]_(Contract!contractVars)
    OBVIOUS
  <2>1. CASE Validate \/ PrimeFails \/ Return \/ Answered \/ Finish
    BY <2>1, ValidateKeepsContract, PrimeFailsKeepsContract, ReturnKeepsContract,
       AnsweredKeepsContract, FinishKeepsContract
  <2>2. CASE ReadFails \/ Refuse \/ RunFails
    BY <2>2, FailureKeepsContract
  <2>3. CASE Primed \/ Ask \/ Supply
    BY <2>3 DEF Primed, Ask, Supply, Contract!contractVars
  <2>4. CASE LoaderStep \/ ChainStep \/ Returned \/ UNCHANGED groupVars
    BY <2>4 DEF LoaderStep, ChainStep, Returned, groupVars, bulkVars, Contract!contractVars
  <2>5. QED
    BY <2>1, <2>2, <2>3, <2>4 DEF GroupNext, Run
<1>3. QED
  BY <1>1, <1>2, GroupInvariance, SeenInvariance, FreshInvariance, PTL DEF GroupSpec
=============================================================================
