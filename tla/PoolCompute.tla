---------------------------- MODULE PoolCompute -----------------------------
(***************************************************************************)
(* One Compute of a pool calculator, from the pool address to metrics or   *)
(* an error code: which accounts it asks for, in which requests and order, *)
(* what it checks of them, and what the SDK calls its failures.            *)
(*                                                                         *)
(* A protocol is the sequence of its steps.  A request step reads accounts *)
(* from the chain, and a check step looks at what was read.  A single call *)
(* reads through the SDK's client, which splits long requests into chunks; *)
(* a pool of a bulk reads through the preloaded client of its group, which *)
(* also answers from what it holds already and asks again, one by one, for *)
(* what a batch did not find.  The chain moves on between all of these,    *)
(* and at most one account of the pool is in a bad condition at a time.    *)
(* Errors are texts to the SDK: it finds their code by searching them for  *)
(* words.  Reserves and prices are seen here only as zero or not.          *)
(***************************************************************************)
EXTENDS Integers, Sequences, FiniteSets, SequencesExt

CONSTANTS
  Protocol,      \* names of the protocols tried
  NamesMissing,  \* protocols whose every missing account is to be named so
  GuardsOwner,   \* protocols that are to refuse a pool of another program
  GuardsLayout,  \* protocols that are to refuse a pool account too short
  ChunkSizes,    \* bound: accounts per GetMultipleAccounts request tried
  Shared,        \* bound: sets of accounts that pools of a group may share
  Spelled,       \* words of the classifier a printed pubkey or length may spell
  MaxSlot,       \* bound: slots the chain goes through
  Nil            \* no result, no error

ASSUME SlotAssumption == MaxSlot \in Nat \ {0}
ASSUME ChunkAssumption == ChunkSizes \subseteq Nat \ {0}
ASSUME SpelledAssumption == Spelled \subseteq {"429", "rpc"}
----------------------------------------------------------------------------
(* Errors and their codes.                                                 *)

Transient == {"rate_limited", "timeout", "rpc_unavailable"}

ErrorCode ==
  Transient \cup {"account_not_found", "decode_error", "rpc_error", "internal"}

\* What a calculation may fail at.
Cause == {"request", "missing", "check", "reserves", "run"}

ASSUME NilAssumption == Nil \notin ErrorCode \cup Cause \cup {"unknown", "metrics"}

\* What an error is to the SDK: the kind when the RPC client made it, and the
\* words found in its text.
Text(words) == [kind |-> Nil, words |-> words]
RPCError(kind, words) == [kind |-> kind, words |-> words]

ClassifyError(e) ==
  IF e.kind # Nil THEN e.kind
  ELSE IF "429" \in e.words THEN "rate_limited" ELSE "unknown"

\* Mutant: a missing account is looked for under one wording only.
ClassifyErrorCode_NotFoundOnly(e) ==
  IF ClassifyError(e) \in Transient THEN ClassifyError(e)
  ELSE IF "not found" \in e.words THEN "account_not_found"
  ELSE IF e.words \cap {"decode", "invalid pool", "invalid token"} # {} THEN "decode_error"
  ELSE IF "rpc" \in e.words THEN "rpc_error"
  ELSE "internal"

ClassifyErrorCode(e) ==
  IF ClassifyError(e) \in Transient THEN ClassifyError(e)
  ELSE IF e.words \cap {"not found", "account missing"} # {} THEN "account_not_found"
  ELSE IF e.words \cap {"decode", "invalid pool", "invalid token"} # {} THEN "decode_error"
  ELSE IF "rpc" \in e.words THEN "rpc_error"
  ELSE "internal"

\* What base58 or a number printed in a text may happen to spell.
Accident == {{}} \cup {{w} : w \in Spelled}
----------------------------------------------------------------------------
(* The steps of the protocols.  An account is absent, owned by a foreign   *)
(* program, too short, or of another type (its discriminator is wrong);    *)
(* bad names the conditions a step refuses, with the words of its error.   *)

Condition == {"good", "absent", "foreign", "short", "other"}

Bad(conditions, words, prints) ==
  [conditions |-> conditions, words |-> words, prints |-> prints]

Get(accounts, words) ==
  [request |-> TRUE, accounts |-> accounts, bad |-> <<Bad({"absent"}, words, FALSE)>>]
Check(a, bad) == [request |-> FALSE, accounts |-> <<a>>, bad |-> bad]

Pool == Get(<<"pool">>, {"not found"})
Batch(accounts) == Get(accounts, {"account missing"})
Owned(a) == Check(a, <<Bad({"foreign"}, {}, TRUE)>>)
Length(a) == Check(a, <<Bad({"short"}, {}, TRUE)>>)
Layout(a) == Check(a, <<Bad({"short"}, {}, TRUE), Bad({"other"}, {}, FALSE)>>)
Decoded(accounts) ==
  [i \in DOMAIN accounts |->
     Check(accounts[i], <<Bad({"short"}, {"decode"}, TRUE)>>)]

\* reserves: accounts whose balances the two reserves are made of; zero: an
\* empty reserve is an error; run: SOL values, supply and FDV supply come from
\* calls that may fail, made under parallelx.Run.
Calculator(steps, reserves, zero, run) ==
  [steps |-> steps, reserves |-> reserves, zero |-> zero, run |-> run]

Vaults == <<"vaultA", "vaultB">>
VaultsAndMints == <<"vaultA", "vaultB", "mintA", "mintB">>

\* Calculators that read both vaults and both mints in one batch.
FourAccounts(head) ==
  Calculator(head \o <<Batch(VaultsAndMints)>> \o Decoded(VaultsAndMints),
             {"vaultA", "vaultB"}, TRUE, TRUE)
\* Calculators that find the decimals in the pool account.
TwoVaults(head) ==
  Calculator(head \o <<Batch(Vaults)>> \o Decoded(Vaults),
             {"vaultA", "vaultB"}, TRUE, TRUE)

\* Mutant: the two vaults are asked for one after the other.
PumpSwapAMM_OneByOne ==
  Calculator(<<Pool, Length("pool"), Batch(<<"vaultA">>)>>
               \o <<Batch(<<"vaultB", "mintA", "mintB">>)>>
               \o Decoded(VaultsAndMints),
             {"vaultA", "vaultB"}, TRUE, TRUE)

PumpSwapAMM == FourAccounts(<<Pool, Length("pool")>>)

\* The curve account holds the whole state; one that is too short reads as zeros.
PumpfunBondingCurve == Calculator(<<Pool>>, {}, FALSE, FALSE)

\* Mutant: the owner is looked at only when the discriminator is wrong.
MeteoraDLMM_NoOwner == FourAccounts(<<Pool, Length("pool")>>)

MeteoraDLMM == FourAccounts(<<Pool, Owned("pool"), Length("pool")>>)

MeteoraDAMMv2 == FourAccounts(<<Pool, Owned("pool"), Layout("pool")>>)

\* The reserves are the pool's share of two vaults: the vaults and the pool's
\* LP balances come in one batch, the supplies of the LP mints in another.
MeteoraDAMMv1 ==
  LET first == <<"lpA", "lpB", "vaultA", "vaultB", "mintA", "mintB", "clock">>
      second == <<"lpMintA", "lpMintB">>
  IN  Calculator(<<Pool, Owned("pool"), Layout("pool"), Batch(first)>>
                   \o Decoded(first) \o <<Get(second, {})>> \o Decoded(second),
                 {"lpA", "lpB", "vaultA", "vaultB"}, TRUE, TRUE)

\* The quote mint is known only from the quote vault; the reserves are in the
\* pool account.
MeteoraDBC ==
  LET batch == <<"vaultB", "mintA">>
  IN  Calculator(<<Pool, Owned("pool"), Layout("pool"), Batch(batch)>>
                   \o Decoded(batch)
                   \o <<Get(<<"mintB">>, {"not found"})>> \o Decoded(<<"mintB">>),
                 {"pool"}, TRUE, TRUE)

OrcaWhirlpool == FourAccounts(<<Pool, Owned("pool"), Layout("pool")>>)

RaydiumCLMM == TwoVaults(<<Pool, Length("pool")>>)

RaydiumCPMM == TwoVaults(<<Pool, Length("pool")>>)

\* Decimals out of range make a pool of another type an invalid pool.
RaydiumLiquidityV4 ==
  LET batch == <<"vaultA", "vaultB", "openOrders">>
  IN  Calculator(<<Pool, Check("pool", <<Bad({"short"}, {}, TRUE),
                                         Bad({"other"}, {"invalid pool"}, TRUE)>>),
                   Batch(batch)>> \o Decoded(batch),
                 {"vaultA", "vaultB", "openOrders"}, TRUE, TRUE)

\* A config of another type stands for a wrong discriminator, a quote mint
\* other than the pool's and an unknown curve type.
RaydiumLaunchpad ==
  Calculator(<<Pool, Owned("pool"), Layout("pool"),
               Get(<<"config">>, {"not found"}), Owned("config"), Layout("config")>>,
             {"pool"}, FALSE, TRUE)

Compute ==
  [pumpswap_amm |-> PumpSwapAMM, bonding_curve |-> PumpfunBondingCurve,
   dlmm |-> MeteoraDLMM, damm_v2 |-> MeteoraDAMMv2, damm_v1 |-> MeteoraDAMMv1,
   dbc |-> MeteoraDBC, whirlpool |-> OrcaWhirlpool, clmm |-> RaydiumCLMM,
   cpmm |-> RaydiumCPMM, liquidity_v4 |-> RaydiumLiquidityV4,
   launchpad |-> RaydiumLaunchpad]

ASSUME ProtocolAssumption ==
  /\ Protocol \subseteq DOMAIN Compute
  /\ NamesMissing \cup GuardsOwner \cup GuardsLayout \subseteq Protocol

Accounts(p) == UNION {ToSet(s.accounts) : s \in ToSet(Compute[p].steps)}
----------------------------------------------------------------------------
VARIABLES
  protocol,   \* whose calculator runs
  grouped,    \* whether it runs in a bulk, on the preloaded client of its group
  chunkSize,  \* accounts per GetMultipleAccounts request
  slot,       \* slot the chain is at
  fault,      \* the account in a bad condition and its condition, or Nil
  cache,      \* what the group's client held of the pool when Compute began
  next,       \* index of the next step
  asking,     \* whether a request of that step is under way
  rest,       \* positions of its accounts that are still to be asked for
  unfound,    \* positions of those that the batch did not find
  at,         \* slot each account was read at
  held,       \* condition each account was read in
  result,     \* "metrics" when the calculator answered
  code,       \* error code it failed with
  cause       \* history: what kind of step it failed in

world == <<protocol, grouped, chunkSize>>
request == <<next, asking, rest, unfound, at, held>>
vars == <<world, slot, fault, cache, request, result, code, cause>>

Faults(p) ==
  {Nil} \cup [account : Accounts(p), condition : Condition \ {"good"}]

ConditionNow(a) ==
  IF fault # Nil /\ fault.account = a THEN fault.condition ELSE "good"

\* An account as it is now, and one that the client does not hold.
Now(a) == [slot |-> slot, condition |-> ConditionNow(a)]
NotHeld == [slot |-> 0, condition |-> "good"]

\* The pools of a group are primed before any of them is calculated.
Init ==
  /\ protocol \in Protocol
  /\ grouped \in BOOLEAN
  /\ chunkSize \in ChunkSizes
  /\ slot = 1
  /\ fault \in Faults(protocol)
  /\ cache = [a \in Accounts(protocol) |->
                IF grouped /\ a = "pool" THEN Now(a) ELSE NotHeld]
  /\ next = 1
  /\ asking = FALSE
  /\ rest = {}
  /\ unfound = {}
  /\ at = [a \in Accounts(protocol) |-> 0]
  /\ held = [a \in Accounts(protocol) |-> "good"]
  /\ result = Nil
  /\ code = Nil
  /\ cause = Nil

Running == result = Nil /\ code = Nil
Steps == Compute[protocol].steps
List == Steps[next].accounts
InSteps == Running /\ next <= Len(Steps)

\* The error of a step that sees its accounts in the given conditions; none
\* when it refuses none of them.
Refusals(step, condition) ==
  {b \in ToSet(step.bad) :
     \E a \in ToSet(step.accounts) : condition[a] \in b.conditions}

Fail(e, step) == code' = ClassifyErrorCode(e) /\ cause' = step

\* The chain moves on: an account goes bad, or the bad one recovers.
Advance ==
  /\ Running
  /\ slot < MaxSlot
  /\ slot' = slot + 1
  /\ fault' \in IF fault = Nil THEN Faults(protocol) ELSE {fault, Nil}
  /\ UNCHANGED <<world, cache, request, result, code, cause>>

\* Before this pool's turn another pool of the group reads accounts it shares
\* with this one (a quote mint, a DAMM v1 vault, or all when it is listed twice).
Share ==
  /\ Running
  /\ grouped
  /\ next = 1 /\ ~ asking
  /\ \E S \in Shared :
       cache' = [a \in DOMAIN cache |->
                   IF a \in S /\ cache[a] = NotHeld THEN Now(a) ELSE cache[a]]
  /\ UNCHANGED <<world, slot, fault, request, result, code, cause>>

\* A request is made.  The preloaded client asks only for what it does not hold.
Ask ==
  /\ InSteps
  /\ Steps[next].request /\ ~ asking
  /\ asking' = TRUE
  /\ rest' = {i \in DOMAIN List : cache[List[i]] = NotHeld}
  /\ LET known == {a \in ToSet(List) : cache[a] # NotHeld}
     IN  /\ at' = [a \in DOMAIN at |-> IF a \in known THEN cache[a].slot ELSE at[a]]
         /\ held' = [a \in DOMAIN held |->
                       IF a \in known THEN cache[a].condition ELSE held[a]]
  /\ UNCHANGED <<world, slot, fault, cache, next, unfound, result, code, cause>>

\* The first n accounts that are still to be asked for.
First(n) == {i \in rest : Cardinality({j \in rest : j <= i}) <= n}

\* A chunk is answered, for all its accounts at one slot; an answer that is too
\* short lacks the last of them.  The preloaded client will ask again for those
\* it did not find, and the SDK's client takes them for missing.
Chunk ==
  /\ InSteps
  /\ asking /\ rest # {}
  /\ \E n \in 0 .. Cardinality(First(chunkSize)) :
       LET asked == First(chunkSize)
           found == {i \in asked \cap First(n) : ConditionNow(List[i]) # "absent"}
           read == IF grouped THEN found ELSE asked
       IN  /\ at' = [a \in DOMAIN at |->
                       IF \E i \in read : List[i] = a THEN slot ELSE at[a]]
           /\ held' = [a \in DOMAIN held |->
                         IF \E i \in found : List[i] = a THEN ConditionNow(a)
                         ELSE IF \E i \in read : List[i] = a THEN "absent"
                         ELSE held[a]]
           /\ rest' = rest \ asked
           /\ unfound' = unfound \cup (asked \ read)
  /\ UNCHANGED <<world, slot, fault, cache, next, asking, result, code, cause>>

\* The next account that the batch did not find is asked for alone; an error
\* that speaks of "not found" counts as an account that does not exist (bound:
\* such an error is met only while no account of the pool was found absent).
Confirm ==
  /\ InSteps
  /\ asking /\ rest = {}
  /\ \E i \in unfound :
       /\ \A j \in unfound : i <= j
       /\ unfound' = unfound \ {i}
       /\ at' = [at EXCEPT ![List[i]] = slot]
       /\ \/ held' = [held EXCEPT ![List[i]] = ConditionNow(List[i])]
          \/ /\ \A a \in DOMAIN held : held[a] # "absent"
             /\ held' = [held EXCEPT ![List[i]] = "absent"]
  /\ UNCHANGED <<world, slot, fault, cache, next, asking, rest, result, code, cause>>

\* The request is answered; the first account that does not exist fails the
\* calculation.
Request ==
  /\ InSteps
  /\ asking /\ rest = {} /\ unfound = {}
  /\ asking' = FALSE
  /\ IF Refusals(Steps[next], held) = {}
     THEN next' = next + 1 /\ UNCHANGED <<code, cause>>
     ELSE /\ \E b \in Refusals(Steps[next], held) : Fail(Text(b.words), "missing")
          /\ UNCHANGED next
  /\ UNCHANGED <<world, slot, fault, cache, rest, unfound, at, held, result>>

\* What the RPC client may fail with; an unknown failure may speak of rpc, of
\* a method or page that was not found, or of a body that it cannot decode.
RequestErrors ==
  {RPCError(k, {}) : k \in Transient \cup {"unknown"}}
  \cup {RPCError("unknown", {w}) : w \in {"rpc", "not found", "decode"}}

\* A request fails and is given up, and so is the calculation.
RequestFails ==
  /\ InSteps
  /\ asking /\ (rest # {} \/ unfound # {})
  /\ \E e \in RequestErrors : Fail(e, "request")
  /\ asking' = FALSE /\ rest' = {} /\ unfound' = {}
  /\ UNCHANGED <<world, slot, fault, cache, next, at, held, result>>

\* What was read is checked or decoded.
CheckStep ==
  /\ InSteps
  /\ ~ Steps[next].request
  /\ IF Refusals(Steps[next], held) = {}
     THEN next' = next + 1 /\ UNCHANGED <<code, cause>>
     ELSE /\ \E b \in Refusals(Steps[next], held) :
               \E spelled \in IF b.prints THEN Accident ELSE {{}} :
                 Fail(Text(b.words \cup spelled), "check")
          /\ UNCHANGED next
  /\ UNCHANGED <<world, slot, fault, cache, asking, rest, unfound, at, held, result>>

Computing == Running /\ next = Len(Steps) + 1

\* A reserve is empty.
ZeroReserves ==
  /\ Computing
  /\ Compute[protocol].zero
  /\ Fail(Text({}), "reserves")
  /\ UNCHANGED <<world, slot, fault, cache, request, result>>

\* The supply or the conversion to SOL fails; a conversion may fail with an
\* error of its own.
RunFails ==
  /\ Computing
  /\ Compute[protocol].run
  /\ \E e \in RequestErrors \cup {Text({})} : Fail(e, "run")
  /\ UNCHANGED <<world, slot, fault, cache, request, result>>

\* The metrics are put together.
Return ==
  /\ Computing
  /\ result' = "metrics"
  /\ UNCHANGED <<world, slot, fault, cache, request, code, cause>>

Next ==
  \/ Advance \/ Share
  \/ Ask \/ Chunk \/ Confirm \/ Request \/ RequestFails \/ CheckStep
  \/ ZeroReserves \/ RunFails \/ Return

Spec == Init /\ [][Next]_vars
----------------------------------------------------------------------------
(* Types; a calculation ends with metrics or with an error, never with both*)
TypeOK ==
  /\ protocol \in Protocol
  /\ grouped \in BOOLEAN
  /\ chunkSize \in ChunkSizes
  /\ slot \in 1 .. MaxSlot
  /\ fault \in Faults(protocol)
  /\ cache \in [Accounts(protocol) -> [slot : 0 .. MaxSlot, condition : Condition]]
  /\ next \in 1 .. Len(Steps) + 1
  /\ asking \in BOOLEAN
  /\ asking \/ rest \cup unfound = {}
  /\ asking => /\ next <= Len(Steps) /\ Steps[next].request
               /\ rest \cup unfound \subseteq DOMAIN List
  /\ at \in [Accounts(protocol) -> 0 .. MaxSlot]
  /\ held \in [Accounts(protocol) -> Condition]
  /\ code \in ErrorCode \cup {Nil}
  /\ cause \in Cause \cup {Nil}
  /\ result = Nil \/ (result = "metrics" /\ code = Nil)

\* The accounts that the calculator asks for, and whether each request for them
\* fits into one chunk.
Asked(p) == UNION {ToSet(s.accounts) : s \in {s \in ToSet(Compute[p].steps) : s.request}}
Fits == \A i \in DOMAIN Steps : Steps[i].request => Len(Steps[i].accounts) <= chunkSize

(* In a call for a single pool whose requests fit into a chunk, the        *)
(* balances the two reserves are made of were all read at one slot, however*)
(* the chain moved between the requests: a swap never shows in one reserve *)
(* and not in the other.  In a bulk that is not so: an account shared with *)
(* another pool keeps the slot it was read at for that one, and one that a *)
(* batch did not find is read later.  What holds in every case is that no  *)
(* account of a pool is older than the pool account that names it.         *)
ReservesTogether ==
  result = "metrics" =>
    /\ ~ grouped /\ Fits =>
         \A a, b \in Compute[protocol].reserves : at[a] = at[b]
    /\ \A a \in Asked(protocol) : at["pool"] <= at[a]

(* An account that does not exist ends the calculation, in the request     *)
(* that asked for it, whichever account of the pool it is; and when it is  *)
(* that which failed the calculation, and not the request, the code is     *)
(* account_not_found (README.md:117).                                      *)
MissingIsNotFound ==
  protocol \in NamesMissing =>
    /\ cause = "missing" => code = "account_not_found"
    /\ (\E a \in Accounts(protocol) : held[a] = "absent") =>
         asking \/ cause \in {"request", "missing"}

(* No metrics come from a pool account of another program (docs/liquidity- *)
(* versions/pumpfun_pumpswap_amm.md:82 lists the guard).                   *)
OwnerRefused ==
  protocol \in GuardsOwner /\ result = "metrics" => held["pool"] # "foreign"

(* No metrics come from a pool account too short for its layout (docs/     *)
(* liquidity-versions/pumpfun_bonding_curve.md:84 lists the guard).        *)
LayoutRefused ==
  protocol \in GuardsLayout /\ result = "metrics" => held["pool"] # "short"

(* A calculation ends with metrics or with an error, and metrics are never *)
(* those of a foreign or short pool account, in the calculators that guard *)
(* against one: the other accounts it goes on to read are named by it.     *)
SoundMetrics == TypeOK /\ OwnerRefused /\ LayoutRefused

(* rate_limited, timeout and rpc_unavailable are reported only for what the*)
(* provider did (README.md:119): never for the contents of an account.     *)
ProviderCodeMeansProvider == code \in Transient => cause \in {"request", "run"}
=============================================================================
