--------------------------- MODULE AccountLoader ----------------------------
(***************************************************************************)
(* preloadedClient over chunkingClient: the account cache that one bulk    *)
(* group (or one bulk of bonding curves) reads through.                    *)
(*                                                                         *)
(* A call looks its addresses up one at a time, asks the chain for those   *)
(* it does not hold in chunks, asks again one by one for those the batch   *)
(* did not find, stores all of them under the lock, and reads its answer   *)
(* back from the cache.  The chain moves on between any two requests.  The *)
(* retries below the chunking are seen here only as requests that answer   *)
(* or fail.                                                                *)
(***************************************************************************)
EXTENDS Integers, Sequences, FiniteSets, SequencesExt

CONSTANTS
  Address,    \* account addresses
  Caller,     \* goroutines that share the client
  Requests,   \* bound: address lists a call may ask for
  ChunkSize,  \* accounts per GetMultipleAccounts request (0: no chunking)
  MaxSlot,    \* bound: slots the chain goes through
  MaxCalls,   \* bound: calls made on the client
  Nil         \* not in the cache

ASSUME RequestAssumption == Requests \subseteq Seq(Address)
ASSUME BoundAssumption ==
  ChunkSize \in Nat /\ MaxSlot \in Nat \ {0} /\ MaxCalls \in Nat

\* An AccountInfo; an account that does not exist carries no slot.
Info == [address : Address, slot : 0 .. MaxSlot]
NotFound(a) == [address |-> a, slot |-> 0]
Exists(info) == info.slot # 0

ASSUME NilAssumption == Nil \notin Info

VARIABLES
  slot,      \* slot the chain is at
  live,      \* addresses that hold an account at that slot
  cache,     \* map from an address to its AccountInfo
  accounts,  \* stats.TotalAccountsRequested
  begun,     \* calls begun
  pc,        \* where each caller stands
  req,       \* addresses of the call
  k,         \* loop variable of the call
  missing,   \* missingUnique
  infos,     \* answers for the addresses of missing
  out,       \* the answer
  before,    \* history: the cache when the call began
  confirmed, \* history: addresses an own GetAccount did not find
  batches,   \* history: GetMultipleAccounts requests of the call
  singles    \* history: GetAccount requests of the call

chain == <<slot, live>>
shared == <<cache, accounts, begun>>
local == <<pc, req, k, missing, infos, out>>
history == <<before, confirmed, batches, singles>>
vars == <<chain, shared, local, history>>
----------------------------------------------------------------------------
\* What the chain answers when it is asked for an account now.
Read(a) == IF a \in live THEN [address |-> a, slot |-> slot] ELSE NotFound(a)

Init ==
  /\ slot = 1
  /\ live \in SUBSET Address
  /\ cache = [a \in Address |-> Nil]
  /\ accounts = 0
  /\ begun = 0
  /\ pc = [c \in Caller |-> "idle"]
  /\ req = [c \in Caller |-> <<>>]
  /\ k = [c \in Caller |-> 1]
  /\ missing = [c \in Caller |-> <<>>]
  /\ infos = [c \in Caller |-> <<>>]
  /\ out = [c \in Caller |-> <<>>]
  /\ before = [c \in Caller |-> cache]
  /\ confirmed = {}
  /\ batches = [c \in Caller |-> 0]
  /\ singles = [c \in Caller |-> 0]

\* The chain advances: accounts are opened, changed and closed.
Advance ==
  /\ slot < MaxSlot
  /\ slot' = slot + 1
  /\ live' \in SUBSET Address
  /\ UNCHANGED <<shared, local, history>>

Idle(c) == pc[c] \in {"idle", "done", "failed"}

\* PrimeAccounts, GetMultipleAccounts or GetAccount is called with a list of
\* addresses; priming is not counted in the statistics, and a request for
\* nothing is answered at once.
BeginCall(c, r, kind) ==
  /\ Idle(c)
  /\ begun < MaxCalls
  /\ begun' = begun + 1
  /\ req' = [req EXCEPT ![c] = r]
  /\ accounts' = IF kind = "prime" THEN accounts ELSE accounts + Len(r)
  /\ pc' = [pc EXCEPT ![c] = IF r = <<>> THEN "done"
                               ELSE IF kind = "account" THEN "look" ELSE "scan"]
  /\ k' = [k EXCEPT ![c] = 1]
  /\ missing' = [missing EXCEPT ![c] = <<>>]
  /\ infos' = [infos EXCEPT ![c] = <<>>]
  /\ out' = [out EXCEPT ![c] = <<>>]
  /\ before' = [before EXCEPT ![c] = cache]
  /\ batches' = [batches EXCEPT ![c] = 0]
  /\ singles' = [singles EXCEPT ![c] = 0]
  /\ UNCHANGED <<chain, cache, confirmed>>

\* Any of the three is called; GetAccount takes one address.
Begin(c) ==
  \E r \in Requests, kind \in {"prime", "multiple", "account"} :
    /\ kind = "account" => Len(r) = 1
    /\ BeginCall(c, r, kind)

\* GetAccount answers from the cache, or goes on to fetch the account.
Look(c) ==
  /\ pc[c] = "look"
  /\ LET held == cache[req[c][1]]
     IN  IF held # Nil
         THEN /\ out' = [out EXCEPT ![c] = <<held>>]
              /\ pc' = [pc EXCEPT ![c] = "done"]
         ELSE /\ pc' = [pc EXCEPT ![c] = "scan"]
              /\ UNCHANGED out
  /\ UNCHANGED <<chain, shared, req, k, missing, infos, history>>

AfterScan(c) == IF missing[c] = <<>> THEN "read" ELSE "fetch"

\* Mutant: addresses are looked up but repeated ones are kept.
Scan_KeepRepeats(c) ==
  /\ pc[c] = "scan"
  /\ IF k[c] <= Len(req[c])
     THEN /\ missing' = IF cache[req[c][k[c]]] # Nil THEN missing
                        ELSE [missing EXCEPT ![c] = Append(@, req[c][k[c]])]
          /\ k' = [k EXCEPT ![c] = @ + 1]
          /\ UNCHANGED pc
     ELSE /\ pc' = [pc EXCEPT ![c] = AfterScan(c)]
          /\ k' = [k EXCEPT ![c] = 1]
          /\ UNCHANGED missing
  /\ UNCHANGED <<chain, shared, req, infos, out, history>>

\* Mutant: the cache is not consulted.
Scan_IgnoreCache(c) ==
  /\ pc[c] = "scan"
  /\ IF k[c] <= Len(req[c])
     THEN /\ missing' = IF Contains(missing[c], req[c][k[c]]) THEN missing
                        ELSE [missing EXCEPT ![c] = Append(@, req[c][k[c]])]
          /\ k' = [k EXCEPT ![c] = @ + 1]
          /\ UNCHANGED pc
     ELSE /\ pc' = [pc EXCEPT ![c] = AfterScan(c)]
          /\ k' = [k EXCEPT ![c] = 1]
          /\ UNCHANGED missing
  /\ UNCHANGED <<chain, shared, req, infos, out, history>>

\* One address is looked up; each lookup takes the read lock anew.
Scan(c) ==
  /\ pc[c] = "scan"
  /\ IF k[c] <= Len(req[c])
     THEN LET a == req[c][k[c]]
          IN  /\ missing' = IF cache[a] # Nil \/ Contains(missing[c], a)
                            THEN missing
                            ELSE [missing EXCEPT ![c] = Append(@, a)]
              /\ k' = [k EXCEPT ![c] = @ + 1]
              /\ UNCHANGED pc
     ELSE /\ pc' = [pc EXCEPT ![c] = AfterScan(c)]
          /\ k' = [k EXCEPT ![c] = 1]
          /\ UNCHANGED missing
  /\ UNCHANGED <<chain, shared, req, infos, out, history>>

\* The next chunk of the addresses still to be fetched.
Chunk(c) ==
  LET from == Len(infos[c]) + 1
      last == IF ChunkSize = 0 THEN Len(missing[c]) ELSE from + ChunkSize - 1
  IN  SubSeq(missing[c], from,
             IF last > Len(missing[c]) THEN Len(missing[c]) ELSE last)

\* Mutant: the answers of a chunk are attributed from the first address on.
FetchChunk_FromFirst(c) ==
  /\ pc[c] = "fetch"
  /\ Len(infos[c]) < Len(missing[c])
  /\ LET chunk == Chunk(c)
     IN  infos' = [infos EXCEPT ![c] =
                     @ \o [i \in 1 .. Len(chunk) |-> Read(missing[c][i])]]
  /\ batches' = [batches EXCEPT ![c] = @ + 1]
  /\ pc' = [pc EXCEPT ![c] =
              IF Len(infos'[c]) = Len(missing[c]) THEN "confirm" ELSE "fetch"]
  /\ UNCHANGED <<chain, shared, req, k, missing, out, before, confirmed, singles>>

\* One GetMultipleAccounts request is answered, for all its accounts at one
\* slot; an answer that is too short leaves the last accounts not found.
FetchChunk(c) ==
  /\ pc[c] = "fetch"
  /\ LET chunk == Chunk(c)
     IN  \E n \in 0 .. Len(chunk) :
           infos' = [infos EXCEPT ![c] =
                       @ \o [i \in 1 .. Len(chunk) |->
                               IF i <= n THEN Read(chunk[i])
                               ELSE NotFound(chunk[i])]]
  /\ batches' = [batches EXCEPT ![c] = @ + 1]
  /\ pc' = [pc EXCEPT ![c] =
              IF Len(infos'[c]) = Len(missing[c]) THEN "confirm" ELSE "fetch"]
  /\ UNCHANGED <<chain, shared, req, k, missing, out, before, confirmed, singles>>

Unconfirmed(c) ==
  /\ pc[c] = "confirm"
  /\ k[c] <= Len(missing[c])
  /\ ~ Exists(infos[c][k[c]])

\* Mutant: what the batch did not find is taken to be missing.
Confirm_Trusting(c) ==
  /\ pc[c] = "confirm"
  /\ pc' = [pc EXCEPT ![c] = "store"]
  /\ UNCHANGED <<chain, shared, req, k, missing, infos, out, history>>

\* An address the batch did not find is asked for alone; the others are kept.
\* An error that speaks of "not found" counts as an account that does not exist.
Confirm(c) ==
  /\ pc[c] = "confirm"
  /\ IF k[c] > Len(missing[c])
     THEN /\ pc' = [pc EXCEPT ![c] = "store"]
          /\ UNCHANGED <<k, infos, confirmed, singles>>
     ELSE /\ k' = [k EXCEPT ![c] = @ + 1]
          /\ UNCHANGED pc
          /\ IF Unconfirmed(c)
             THEN \E info \in {Read(missing[c][k[c]]), NotFound(missing[c][k[c]])} :
                    /\ infos' = [infos EXCEPT ![c][k[c]] = info]
                    /\ confirmed' = IF Exists(info) THEN confirmed
                                    ELSE confirmed \cup {info.address}
                    /\ singles' = [singles EXCEPT ![c] = @ + 1]
             ELSE UNCHANGED <<infos, confirmed, singles>>
  /\ UNCHANGED <<chain, shared, req, missing, out, before, batches>>

\* Mutant: what earlier chunks brought is kept when a request fails.
RPCError_KeepFetched(c) ==
  /\ pc[c] = "fetch" \/ Unconfirmed(c)
  /\ cache' = [a \in Address |->
                 IF \E i \in DOMAIN infos[c] : missing[c][i] = a /\ Exists(infos[c][i])
                 THEN infos[c][CHOOSE i \in DOMAIN infos[c] : missing[c][i] = a]
                 ELSE cache[a]]
  /\ pc' = [pc EXCEPT ![c] = "failed"]
  /\ UNCHANGED <<chain, accounts, begun, req, k, missing, infos, out, history>>

\* A request fails and so does the call, whatever it has fetched already.
RPCError(c) ==
  /\ pc[c] = "fetch" \/ Unconfirmed(c)
  /\ pc' = [pc EXCEPT ![c] = "failed"]
  /\ UNCHANGED <<chain, shared, req, k, missing, infos, out, history>>

\* All fetched accounts are stored under one hold of the lock.
Store(c) ==
  /\ pc[c] = "store"
  /\ cache' = [a \in Address |->
                 IF Contains(missing[c], a)
                 THEN infos[c][CHOOSE i \in DOMAIN missing[c] : missing[c][i] = a]
                 ELSE cache[a]]
  /\ pc' = [pc EXCEPT ![c] = "read"]
  /\ UNCHANGED <<chain, accounts, begun, req, k, missing, infos, out, history>>

\* The answer is read back one address at a time, in request order.
ReadBack(c) ==
  /\ pc[c] = "read"
  /\ IF Len(out[c]) < Len(req[c])
     THEN /\ out' = [out EXCEPT ![c] = Append(@, cache[req[c][Len(@) + 1]])]
          /\ UNCHANGED pc
     ELSE /\ pc' = [pc EXCEPT ![c] = "done"]
          /\ UNCHANGED out
  /\ UNCHANGED <<chain, shared, req, k, missing, infos, history>>

\* A call goes on until it is answered or fails.
Step(c) ==
  \/ Look(c) \/ Scan(c) \/ FetchChunk(c) \/ Confirm(c)
  \/ RPCError(c) \/ Store(c) \/ ReadBack(c)

Next ==
  \/ Advance
  \/ \E c \in Caller : Begin(c) \/ Step(c)

Spec == Init /\ [][Next]_vars
----------------------------------------------------------------------------
Distinct(s) == Len(s) = Cardinality(ToSet(s))

(* Types; missing holds each address once and infos answers a prefix of it.*)
TypeOK ==
  /\ slot \in 1 .. MaxSlot
  /\ live \subseteq Address
  /\ cache \in [Address -> Info \cup {Nil}]
  /\ accounts \in Nat
  /\ begun \in 0 .. MaxCalls
  /\ pc \in [Caller -> {"idle", "look", "scan", "fetch", "confirm", "store",
                        "read", "done", "failed"}]
  /\ req \in [Caller -> Seq(Address)]
  /\ k \in [Caller -> Nat]
  /\ missing \in [Caller -> Seq(Address)]
  /\ infos \in [Caller -> Seq(Info)]
  /\ out \in [Caller -> Seq(Info)]
  /\ before \in [Caller -> [Address -> Info \cup {Nil}]]
  /\ confirmed \subseteq Address
  /\ batches \in [Caller -> Nat]
  /\ singles \in [Caller -> Nat]
  /\ \A c \in Caller : Distinct(missing[c]) /\ Len(infos[c]) <= Len(missing[c])

(* A call that succeeds answers every position of the request with the     *)
(* account of that position's address, whichever of the addresses were     *)
(* held, repeated, split over chunks, not found, or being fetched by       *)
(* another goroutine (calculators index the answer by position).           *)
AnswersPositional ==
  \A c \in Caller : pc[c] = "done" =>
    /\ Len(out[c]) = Len(req[c])
    /\ \A i \in DOMAIN req[c] : out[c][i].address = req[c][i]

(* An account is remembered as missing only after an own GetAccount did    *)
(* not find it: neither a batch that did not find it nor a batch answer    *)
(* that was too short is enough (an item would fail with account_not_found *)
(* for an account that exists).                                            *)
ConfirmedMissing ==
  \A a \in Address : cache[a] # Nil /\ ~ Exists(cache[a]) => a \in confirmed

(* What a call costs: no more batches than full chunks are needed for the  *)
(* addresses it does not hold, each asked for alone at most once, and      *)
(* nothing for addresses held when it began.                               *)
CostBound ==
  \A c \in Caller :
    LET new == {a \in ToSet(req[c]) : before[c][a] = Nil}
    IN  /\ IF ChunkSize = 0 THEN batches[c] <= 1
           ELSE batches[c] * ChunkSize < Cardinality(new) + ChunkSize
        /\ singles[c] <= Cardinality(new)

(* With one caller at a time, a call that fails leaves the cache as it was,*)
(* so a later call never mixes accounts of an abandoned fetch with its own.*)
NoPartialCache == \A c \in Caller : pc[c] = "failed" => cache = before[c]
=============================================================================
