# Formal model of solana-token-market-go

TLA+ modules, TLC configurations and TLAPS proofs for the Go SDK that computes
prices, liquidity, supply and market caps of Solana pools from on-chain
accounts. Paths below are relative to the repository (`src/sdk/...`).

## The system

A `market.Client` answers four calls. Each ends in a *calculator*, which reads
the pool account, then the accounts it names, then puts the metrics together.
The accounts come through a stack of RPC clients:

    GetMetricsByPools            one worker per protocol route, semaphore, mutex, WaitGroup
      preloadedClient            cache of one group: look up, fetch, confirm, store
        chunkingClient           splits GetMultipleAccounts
          retryClient            backoff and jitter on transient errors
            failoverClient       primary, then fallback, each with a timeout (user-supplied)
              SolanaRPCClient    one request
      Calculator.Compute         eleven protocols
        parallelx.Run            SOL conversion and supply, concurrently
          quote.Bridge, supply.Provider, ResolveFDVSupply

| Component | State | Operations | Hard part | What makes it correct |
| --- | --- | --- | --- | --- |
| bulk pools, `market/metrics_service.go:132` | results slice, semaphore, WaitGroup, mutex, running statistics | partition, dispatch, prime, compute, store, join | workers share one slice and one sum; the caller blocks on the semaphore | every item gets its own outcome once; limit; exact report; it returns |
| bulk curves, `metrics_service.go:249` | results slice, preloaded client | prime, compute in order | one failed chunk fails all; the chain moves on between items | every item gets its own outcome; one priming; known limits to what items may disagree on |
| `internal/parallelx` | derived context, error channel, WaitGroup | spawn, run, push, cancel, join | first error against the cancellation it causes; hidden failures | cause reported, nothing dropped, joined |
| account loader, `rpc/preload_client.go`, `rpc/batching*.go` | cache under a lock, statistics | prime, get, get multiple | the chain moves between requests; batches come back short or fail | positional answers, confirmed misses, frozen view, cost |
| retry and failover, `rpc/retry_client.go`, `rpc/failover.go` | attempt, backoff, context | request, classify, wait, retry | the timer races the cancellation; two endpoints, one error | bounded requests, honest error, prompt stop |
| calculators, `protocols/*/*/metrics.go` | none between calls | read pool, read accounts, check, decode, compute | several requests at different slots; hand-copied checks; codes found in texts; unsigned and rounded arithmetic | reserves of one slot where requests allow it; no metrics from a wrong account; the documented code; values that agree |
| quote bridge and supplies, `quote/`, `supply/` | what tokens are worth | convert, read supply | asked at different moments; may fail | values of one answer agree |
| error classification, `rpc/errors.go`, `market/error_classification.go` | none | classify | search of texts that print keys | code and cause agree |
| request debug recorder, `internal/reqdebug`, `market/client.go` | counters, annotations, last report | record, annotate, snapshot, store | concurrent requests; items that share a recorder; nested locks | a report is of one whole request and not a stale one |
| `internal/cachex` (unused by the SDK) | map with expiry | get, set, delete | expiry checked outside the lock | no expired value |

`PROJECT.json` lists all components, with those that are left out and why, and
every hazard at its line.

## Modules

| Module | Models | Source |
| --- | --- | --- |
| `BulkContract` | what a bulk call promises: one outcome per item, chosen once, returned when complete | `metrics_service.go:132-247` |
| `BulkPools` | `GetMetricsByPools`, the caller and its workers; implements `BulkContract` | `metrics_service.go` |
| `ParallelRun` | `parallelx.Run` with the tasks the calculators pass it | `parallelx.go`, `supply/fdv.go` |
| `AccountLoader` | `preloadedClient` over `chunkingClient` | `preload_client.go`, `batching_client.go`, `batching.go`, `client.go` |
| `RetryCall` | one RPC call through `withRetry` and, if configured, `withFallback` | `retry_client.go`, `failover.go`, `errors.go` |
| `GroupReads` | a sequential bulk (bonding curves, or the pools of one group) on top of `AccountLoader`, with the supply and the FDV curve of each pool; implements `BulkContract` | `metrics_service.go:249-306`, `preload_client.go`, `supply/`, `meteora/dlmm/metrics.go:142-239` |
| `DebugRecorder` | the recorders of concurrent requests and the client's last report | `recorder.go`, `client.go`, `service.go` |
| `PoolCompute` | the `Compute` of all eleven calculators and the codes of its errors | `protocols/*/*/metrics.go`, `errors.go`, `error_classification.go` |
| `Decimals`, `ReserveMath` | the numbers: decimals with rounded quotients, unsigned words, fees, vault shares | `shopspring/decimal` as used, helpers of the calculators |
| `PairPricing` | what a calculator computes from the amounts it has read | `protocols/*/*/metrics.go`, `quote/bridge.go`, `supply/` |
| `BulkPoolsProofs`, `ParallelRunProofs`, `AccountLoaderProofs`, `GroupReadsProofs`, `RetryCallProofs`, `DebugRecorderProofs`, `PoolComputeProofs`, `PairPricingProofs` | theorems about the module of that name | |
| `MC*` | instances for TLC | |

How a definition corresponds to lines of the code is in the `map` of
`PROJECT.json`. Operators whose comment begins with "Mutant" are the faulty
variants of a definition by which each property is shown to notice a bug in the
code; no specification uses them.

### BulkPools

The caller's goroutine is `caller`; a group's worker is `pc[g]`. `Partition` is
the validation loop and the grouping (it touches only the caller's memory, so
it is one step). `Dispatch` is one turn of the dispatch loop; Go iterates over
the groups in any order, hence the choice of `g`. A worker's steps are its
accesses to shared state: each locked write of a slot, the statistics (a load
and a store, so that a missing lock would show), the release of the semaphore
and `wg.Done`, in the order in which deferred calls run. What the layers below
do is the choice in `PrimeAccounts` and `ComputeItem`: an answer or an error. A
slot holds the *number of the item* whose metrics it was given, so that metrics
stored in the wrong slot are seen, and an error carries the group or the item
it was made for, so that one charged to another item is seen as well. The
cancellation of `ctx` is not a state of
its own: no statement of the call looks at it.

### ParallelRun

A task succeeds, fails by itself, or fails because its context is done, and
some tasks (`waits`) end only when it is. `degraded` remembers what made a
task replace a value by a default, which is what `ResolveFDVSupply` does with
every error. `Push` and `Cancel` are separate steps: the window between them is
where the order of cause and cancellation is decided.

### AccountLoader

`slot` and `live` are the chain, which moves at any time. A call scans its
addresses one lookup at a time, fetches chunks (each answered at one slot,
possibly short), confirms one by one what the batch did not find, stores under
the lock, and reads its answer back one lookup at a time. `BeginCall` and `Step` are
the parts of a call, so that `GroupReads` can make calls of its own. `GetAccount` reports
errors that speak of "not found" as missing accounts (`client.go:65`), and so
does `Confirm`. `before`, `confirmed`, `batches` and `singles` are history.

### RetryCall

`ctx` may end at any moment, by cancellation or deadline. `fresh` tells whether
it was live when the request was sent: a request under a dead context cannot
succeed. The wait races `ctx.Done` in `Retry` and `Interrupted`; a wait of zero
does not look at the context. Times are in milliseconds and jitter is one of
the ends or the middle of its range.

### PoolCompute

A calculator is a row of a table: the sequence of its requests and checks, the
accounts its reserves come from, whether empty reserves are refused, and
whether `parallelx.Run` is called. A calculation runs alone or in a bulk
(`grouped`), on the preloaded client of its group: then the pool account was
primed, and before the pool's turn other pools of the group may have read
accounts it shares (`Share`: a quote mint, a DAMM v1 vault, everything when it
is listed twice). A request is asked for (`Ask`, which takes what the client
holds at the slot it was read at), answered chunk by chunk, each chunk at one
slot and possibly too short (`Chunk`), completed in a bulk by one request for
each account the batch did not find (`Confirm`), and judged (`Request`); the
chain may move between any two of these steps. A check sees what was read,
however old. A request fails as the RPC client says it may. An error is its kind and the words of its text the classifier
looks for; texts that print a key or a length may spell more words
(`Spelled`). Amounts are seen as zero or not: the arithmetic is `PairPricing`.
The constants `NamesMissing`, `GuardsOwner` and `GuardsLayout` say for which
calculators a guard is claimed; the configuration names the exceptions.

### GroupReads

An item of a bulk is the list of reads its calculator makes; the first account
of every valid item is primed with one call, then the items are computed in
order, each read being a call of the loader below (`LoaderStep`). `Advance` of
the loader moves the chain between any two of its requests. Bonding curves read
one account each and every calculation of theirs is answered by the cache. Pools
go on to read vaults and mints and may refuse what they read; then they ask for
the supply of their mint, which no cache holds (`Supply`), and for the bonding
curve of that mint through the loader, any failure of which means that FDV goes
by the supply alone (`Finish`). The conversion to SOL runs beside these two and
may fail before or after them (`RunFails`). Metrics hold the account versions,
the slot of the supply and the curve they were computed from, so that two items
can be compared.

A failed request has a code the classifier finds in its text (`FailureCodes`).
A failed batch may speak of "not found" and become `account_not_found` although
no account was looked at alone; `GetAccount` never fails in these words, it
reports a missing account. `lost` and `said` are history: the accounts such a
batch was asked for, and the items whose own supply or conversion failed so.
(A route whose calculator was registered by the user is computed without the
shared cache; that path is an item of `BulkPools` only.)

### DebugRecorder

A request has a recorder, `Worker`s that record RPC calls, and a caller that
joins them, annotates a bulk, marks the recorder done and stores a snapshot as
the client's last report. `RecordRPC` is two steps under the mutex, so that a
snapshot between them would be seen; the client's lock is held while the
snapshot waits for the recorder's mutex. `made` and `finished` are history.

### PairPricing, ReserveMath, Decimals

A state is the amounts a calculator has read, in small unsigned words; the
steps are reserves, price and liquidity, conversion of the price, conversion of
the liquidity, supplies. The two conversions are separate calls of a bridge
that may fail, may not know a token and may change its mind in between. Failing
supplies are `PoolCompute`'s. A decimal is a coefficient and an exponent; a
quotient is rounded to `Precision` places and a division by zero is the value
`Panic`, which is no number: it is not zero, and shifting or dividing it gives
`Panic` again, as nothing after a panic runs. The eleven calculators share operators where their code is the same
(four divide reserves, three square a root price, five double the reserve of
B). All calculators of pools ask for the first mint of the pool in the second,
whatever the request says, so the other branches of `priceOfMintAInMintB` are
not reached; only the bonding curve has two orientations.

## Runs

| Run | Shows | Bounds |
| --- | --- | --- |
| `bulk` | types, completeness, concurrency limit, exact statistics, failures stay in their group, slots written once; implements `BulkContract`, so it returns | 3 items, 3 routes, 2 rejections, limits 0, 1, 3 over a default of 2 |
| `parallel` | cause before cancellation, no error lost, whole successes, join, termination | 3 tasks, every subset nil, every subset hanging |
| `loader` | positional answers, confirmed misses, cost | 2 goroutines, 3 accounts, chunks of 1, 2 slots, 2 calls |
| `group` | what items may disagree on, one priming, failures for a reason of their own; failed calls leave nothing; implements `BulkContract` | 6 accounts, chunks of 2, 2 slots, 2 codes of failures; two pools of the same mints, one pool twice, five curves with a repeat and a refusal, nothing |
| `retry` | request bound, stop after cancel, honest error, backoff schedule, termination | six configurations, with the SDK's defaults |
| `debug` | snapshots add up, items hold their own calls, reports are whole and fresh, nobody is stuck | a bulk of 2 workers beside a single request, 1 call each, 2 operation types, 2 annotations |
| `compute` | metrics or error; reserves of one slot in a single call, no account older than its pool in a bulk; missing, foreign and short accounts refused, with the documented code | 11 calculators, alone and in a group, chunks of 4 and 100, 4 sets of shared accounts, 2 slots, at most one bad account at a time |
| `pricing` | no panic, no wrapped reserve, shares within the vault, accurate prices, liquidity and SOL values and caps that agree | 11 calculators, words of 2 bits, base 2, 2 places, mints of 0 and 3 decimals, amounts 0 to 3, clocks -1 to 3 |

Why the bounds suffice: three items and three routes give a group of two beside
a group of one, three groups under a limit of two, and a rejected item between
accepted ones; two workers are enough for every race on the slice, the sum and
the counters. Three tasks give a first, a later and a cancelled failure at once.
Three accounts with chunks of one or two give full, partial and several chunks,
repeats and cache hits; two goroutines with one call each meet in every step,
and the reads of two pools give fetches before and after a failure. The
longest retry configuration goes past the cap of the backoff. Two slots are
enough for two reads to disagree, and no property compares more than two at a
time (the invariants of `group` hold with three slots as well). Chunks of 4 split
the batches of DAMM v1 and leave all others whole. The two codes of `group` are
the one that is kept apart and one of all the others.
Two workers and a second request give every pair of goroutines that share a
recorder or the client's lock. Words of two bits reach every boundary that
words of 64 have (zero, wrap, a sum that overflows, the signed half), and two
places with roots up to four times one reach a quotient that rounds to zero and
one whose inverse does. Mints of 0 and 3 decimals lie on both sides of the two
places a quotient keeps, so that a divisor may be finer than its quotient and a
shifted price may have fewer places than none.

`CHECK_DEADLOCK FALSE` is set for `loader`, `retry` and `compute`:
their calls end, and nothing happens after the last one.

### Disagreements between code and documentation

Each of these runs states what a document says, and TLC finds the code
violating it.

| Run | The code | The document |
| --- | --- | --- |
| `compute_layout` | a short bonding curve account reads as zeros | `docs/liquidity-versions/pumpfun_bonding_curve.md:84` |
| `compute_provider` | a printed key with the digits 429 makes a wrong owner `rate_limited` | `README.md:119` |
| `pricing_curve` | a bonding curve asked for SOL in the token gives `LiquidityInB` in SOL (and a market cap of one SOL times the token's supply) | `README.md:135`: in `MintB` units |
| `pricing_clmm` | liquidity is twice the reserve of B, whatever the reserve of A is; so in DLMM | `docs/liquidity-versions/raydium_clmm.md:63`: from both reserve sides |

Further disagreements met while modelling, without a run of their own:

- PumpSwap does not look at the pool's owner
  (`docs/liquidity-versions/pumpfun_pumpswap_amm.md:82` lists that guard), nor
  do the other calculators that `MCGuardsOwner` leaves out.
- A missing LP mint of a DAMM v1 vault (`damm_v1/metrics.go:240`) is worded so
  that it becomes `internal`, not `account_not_found` (`README.md:117`); hence
  `MCNamesMissing`.
- The backoff cap (`README.md:300`) does not hold for the first wait, and
  jitter is added after it; `BackoffSchedule` states what the code does.
- The bonding curve's market cap uses the total supply (`README.md:139` says
  circulating), and its liquidity is the SOL side alone
  (`pumpfun_bonding_curve.md:70` says two-sided).
- PumpSwap turns amounts into decimals through `int64`: a reserve of 2^63 or
  more is negative. `WithinHoldings` excludes it by `Representable`.
- Raydium CLMM inverts a rounded quotient: its price loses digits as it grows
  and is zero above about 2*10^16. `PriceAccurate` leaves it out.
- With the built-in bridge a pool whose A is SOL has a price of one SOL and a
  liquidity of zero SOL; `ValuesAgree` leaves this orientation out.
- Items of one bulk may contradict each other: each asks anew for the supply of
  its mint, and one that could not read the mint's bonding curve has an FDV
  without it. Two reserves of a pool in a bulk may be of different slots when a
  vault came from the group's cache or was confirmed alone. No document promises
  otherwise; `OneView` and `ReservesTogether` say what holds.
- FDV takes the supply of a bonding curve to have 6 decimals, whatever the mint
  says (`supply/fdv.go:37`; `CurvePlaces`).
- `LastRequestDebug` copies the outer map only; the maps in it are shared.
- A bulk does not look at a cancelled context before it starts another group,
  and a wait cut short by the context drops the error of the last try. Neither
  is promised otherwise.

## Fairness

- `BulkPools`: weak fairness of the caller and of each worker. Goroutines that
  can run do run, and every RPC call answers or fails. The send on the
  semaphore needs no strong fairness: only the caller sends.
- `ParallelRun`: weak fairness of the loop and of each goroutine. A hanging
  task is fair only once its context is done: that it ends then is what the
  RPC transport does with a cancelled request. Nothing makes the caller's
  context end.
- `RetryCall`: weak fairness of the call. A request ends because the transport
  gives up or the timeout of `withFallback` expires; a timer fires. The end of
  the context is not fair.
- `GroupReads`: weak fairness of the one goroutine. Its requests are answered or
  fail; the chain need not move.
- `DebugRecorder`: weak fairness of each caller and each worker. Locks are taken
  a bounded number of times, so no waiter needs strong fairness.
- `AccountLoader`, `PoolCompute` and `PairPricing` state safety only.

## Proofs

All theorems hold for every value of the constants that satisfies the named
assumptions of the modules; the bounds of the runs are not among them, except
where a constant is itself a bound of the model. A theorem `Spec => []P` comes
from an inductive invariant, called `Invariance` (or `GroupInvariance`,
`ComputeInvariance`, `PricingInvariance`, `ValuesInvariance`, `SeenInvariance`,
`FreshInvariance`, `Bookkeeping`); TLC checked each invariant on the run of its
module before it was proved. In every proof that an action keeps the invariant
there is a step for each action and under it one for each part the action can
disturb; lemmas on what an action leaves alone (frames) keep those short.

| Module | Theorem | States |
| --- | --- | --- |
| `BulkPoolsProofs` | `TypeCorrect` | `TypeOK` |
| | `CompleteResponse` | `CompleteOnReturn` |
| | `BoundedWorkers` | `ConcurrencyBounded` |
| | `SlotsWrittenOnce` | `WriteOnce` (an action property) |
| | `ContractSafety` | initial states and steps are those of `BulkContract` |
| | `PrimeFailures` | `PrimeFailureStaysInGroup` |
| | `ReportAddsUp` | `ReportExact` |
| `ParallelRunProofs` | `TypeCorrect` | `TypeOK` |
| | `ErrorIsRootCause` | `RootCause` |
| | `NoErrorIsLost` | `ErrorNotLost` |
| | `SuccessIsSound` | `SuccessIsWhole` |
| | `RunJoins` | `JoinedOnReturn` |
| `AccountLoaderProofs` | `TypeCorrect` | `TypeOK` |
| | `AnswersAreOfRequest` | `AnswersPositional` |
| | `MissingIsConfirmed` | `ConfirmedMissing` |
| | `CallsStayCheap` | `CostBound` |
| `GroupReadsProofs` | `FailedCallsLeaveNothing` | `NoPartialCache` |
| | `PrimedCurvesAreHeld` | `CurvesCostOnePriming` |
| | `MissingHasAReason` | `MissingForAReason` |
| | `ItemsAgree` | `OneView` |
| | `ContractSafety` | initial states and steps are those of `BulkContract` |
| `RetryCallProofs` | `CallsAreBounded` | `RequestsBounded` |
| | `FailuresHaveAReason` | `FailsForAReason` |
| | `BackoffIsScheduled` | `BackoffSchedule` |
| `DebugRecorderProofs` | `SnapshotsAddUp` | `SnapshotConsistent` |
| | `ItemsCoverOwnCalls` | `ItemCoversOwnCalls` |
| | `ReportsAreComplete` | `ReportComplete` |
| | `ReportsAreFresh` | `FreshReport` |
| `PoolComputeProofs` | `ReservesOfOneSlot` | `ReservesTogether` |
| | `MissingIsReported` | `MissingIsNotFound` |
| | `MetricsAreSound` | `SoundMetrics` |
| `PairPricingProofs` | `NeverPanics` | `NoPanic` |
| | `ReservesAreHeld` | `WithinHoldings` |
| | `SharesAreConserved` | `SharesConserved` |
| | `PricesAreAccurate` | `PriceAccurate` (with the types of `PairPricing`) |
| | `LiquidityIsTwoSided` | `TwoSidedPools` |
| | `ValuesDoAgree` | `ValuesAgree` |

### BulkPoolsProofs

From `BoundsAssumption`, `RouteAssumption`, `RejectionAssumption`,
`ConcurrencyAssumption`, `NilAssumption`. None of the properties is inductive.
`IInv` adds that `sem` and `wg` *count* the workers that hold a token or have
not finished (`CountersInv`), that a slot is empty exactly while its item is
left to a worker (`SlotInv`), that a group without a worker is pending or empty
(`PendingInv`), and that the capacity is within every limit (`LimitInv`). When
`wg` is zero and nothing is pending, no worker is left, hence no item, hence no
empty slot.

`FailureInv` says what a failed priming has written so far: its error in the
slots of its group its worker has passed, and no call made; and what the worker
of a group whose priming worked has written is the item's own, metrics or an
error made for it. `StatsInv` says that the
total is the calls of the groups that have added theirs, and that a worker
between its load and its store of the total holds the mutex *and* the value it
read is still the total: this is what a missing lock breaks. `ReportInv` carries
the total and the failures into the annotation. A sum over the groups has no
theory in the provers, so calls are counted as a set of pairs (group, number of
the call) and failures by a bijection between failed items and pairs (code,
number of the failure); `CountByKind` is that lemma.

### ParallelRunProofs

From `NAssumption`, `ErrorAssumption`. The invariant counts: the channel holds
one entry per task past its push, fewer than its capacity, so the `default`
branch is never taken while an error waits; and whatever a done context did to
a task, the caller's cancellation or an entry of the channel came before it
(`CauseInv`). On a success the channel is empty after the join, so no task has
pushed (`NothingPending`), so none holds an error.

### AccountLoaderProofs

From `RequestAssumption`, `BoundAssumption`, `NilAssumption`; for any number of
goroutines on one client and any chunk size, zero included. What a call relies
on is about its own addresses: each is held or to be fetched (`CoverInv`), the
fetched ones answer a prefix of the missing ones (`AnswerInv`), those looked up
so far exist or were confirmed not to (`ConfirmInv`), and requests sent are paid
for by addresses to fetch (`CostInv`). The other goroutines only add entries to
the cache, each an answer for its own address (`CacheInv`, `GrowthInv`), so they
disturb none of it. The cost of a call is that of the chunks `batching.go`
makes; `CallsStayCheap` needs that a list without repeats is no longer than
the set of its members.

### GroupReadsProofs

From the above and `BulkAssumption`, `GoroutineAssumption`, `CodeAssumption`,
`UnresolvedAssumption`. `BulkAssumption` is what an item is: its first read is
of one account, that is all a curve reads, and no vault or mint of a pool is
itself a pool of the bulk. The bulk is alone on its client, so that from the
beginning of a call to its store the cache is what it was (`AloneInv`): what is
stored was not held, an entry once there stays, and a failed call stores
nothing. What an item has read is therefore what the cache holds, now and later
(`OfItem`, `ResultInv`), so items that share an account agree; after the priming
all pools are held, with slots no later read can be behind (`PrimeInv`,
`ViewInv`). For curves the outcome is a function of the cache (`CurveInv`).
Items are resolved in request order (`OrderInv`); with it, the supply of the
current item is not behind the supplies before it nor behind the accounts just
read (`SupplyInv`), and an FDV curve that counted once is held, so that asking
for it again is answered at once and cannot fail (`FdvInv`). For
`MissingHasAReason` a failed batch leaves the addresses it was asked for in
`missing`; they are all of the call's request, hence of the current item, or in
the priming of all valid items.
That `Current` names an item needs that a nonempty set of naturals has a least
element, which `WellFoundedInduction` states.

`ContractSafety` is the refinement of `BulkContract`, action by action: the steps
of the client and the chain, `Primed`, `Ask`, `Supply` and an answer that does not finish
an item are stutters, all others resolve items or answer. What is hard to see is
that metrics are made of the accounts the item itself names. `SeenInv` says so of
what has been read: its addresses are those of the reads answered so far, put
together. `FlattenSeq` of the community modules puts them together with a
recursive function, whose equation `FlatExists`, `FlatUnique` and `FlattenSnoc`
derive from least elements.

### RetryCallProofs

From `ConfigAssumption`, `OutcomeAssumption`; for any number of retries and any
backoff, cap and jitter, negative ones included. The invariant relates the
requests sent to the attempt and to the place in the try where the call stands,
and the tries begun late to the context; `Scheduled` is the backoff as a
function of the attempt. Each retry doubles it, so the step needs that
`2^(n+1)` is twice `2^n`; the provers know nothing of powers, and `PowersOfTwo`
derives it from the number of subsets of a set of `n` elements.

### DebugRecorderProofs

From `BulkAssumption`, `WorkerAssumption`, `CallsAssumption`, `NilAssumption`,
`NoReportAssumption`; for any number of requests, workers and calls. While
nobody holds the recorder's mutex, its total, its counts by type and its list of
calls agree, and while somebody does they differ by one, which is a call of the
holder (`CountInv`, `LockInv`); the count of each type is the number of calls
of all goroutines recorded so far, a set of pairs again. `ReportInv` says that
the last report is of a request that is over, and not of one that was over
before a request now running began.

### PoolComputeProofs

From `SlotAssumption`, `ChunkAssumption`, `SpelledAssumption`,
`ProtocolAssumption`, `NilAssumption`. A calculator is a sequence of steps; `EveryProtocol` states
once of all eleven tables that the pool is asked for first, alone and only
there, that the accounts of the reserves are asked for in one request or not at
all, and which steps word a missing account so that the classifier finds it.
The invariant then speaks of tables with these features: what was read is not
older than the pool account (`OrderInv`), which holds through the group's cache
because the pool was primed before anything else was read (`CacheInv`); a
request of a single call that fits into a chunk is answered at once, so its
accounts are of one slot (`TogetherInv`); and an account found absent belongs to
the request under way or has ended the calculation (`NamedInv`). Two theorems have
hypotheses, which are the exceptions the repository has: `MissingIsReported`
that Meteora DAMM v1 is not among the calculators claimed, `MetricsAreSound`
that owners are claimed only of those that check them and the layout not of the
bonding curve. The configuration of the run satisfies both, and both fail
without them (`compute_layout` is the counterexample to the second).

### PairPricingProofs

From the assumptions of `Decimals`, `ReserveMath` and `PairPricing`; for words,
amounts, bases and precisions of any size. After `ReadReserves` the reserves are
those of the two sides of a pool that does not change any more, whatever the
bridge does (`PricingInv`), so that the rest is integer arithmetic. `NoWrap`
says when a difference of words is the difference; `FeesLeave`, `FeeLeaves`,
`SaleLeaves` and `LockedShrinks` say that each guarded difference of the code
meets it, and `Covered` puts them together for each kind of account. `SharesFit`
is the argument for DAMM v1: a pool's share rounded down leaves at least what all
other shares together are given, at any later clock, because the locked profit
only shrinks. `NeverPanics` follows every divisor to the test before it; it
needs that a price that is a number stays one, so it relies on `Panic` not being
a number.

`ValuesInv` says how each value of an answer was made: the price and the
liquidity from the reserves (`Accepted`, `FromReserves`), the two values in SOL
by one worth unless the bridge moved (`InSOL`), those of a bonding curve by its
own quotients (`CurveValues`). Its arithmetic is about decimals of different
scales, so everything is said of `Value(a, e)`, the coefficient of `a` at a scale
`e` that is fine enough: there `Plus` is a sum, `Times` a product, and `Less` an
order (`PlusValue`, `TimesValue`, `LessAtOneScale`). `QuotientOfDecimals` and
`ShiftedQuotient` say that a quotient is off by at most half its divisor, in
whatever unit the two are counted; that is `PricesAreAccurate`, and multiplied by
the reserve of A it is the bound of `LiquidityIsTwoSided` for a calculator that
doubles the reserve of B. In `ValuesDoAgree` both products are the same number
except for a bonding curve, whose two quotients leave the rounding that
`SameWorth` allows; the caps are ordered because the larger supply is, in
whatever decimals the two are counted (`TimesOrdered`, `CapsOrdered`).

All of it needs that powers of the base add up (`PowerSum`), hence that the
recursive function `Power` satisfies its equation. The library derives that from
induction theorems with an operator parameter, which cannot be cited.
`Everywhere` is induction stated for *sets* of naturals (a counterexample would
have a least element); `Tables` uses it for the set of those n up to which a table
of the powers exists, and `PowerIsFunction` puts the tables together.

### Found on the way

- A `CASE` of TLA+ whose guards overlap chooses *any* of them; TLC takes the
  first. Four definitions that translate a `switch` or an `if` chain
  (`Answered`, `BeginCall`, `PriceOfMintAInSOL`, `ClassifyErrorCode`) meant the
  first, and no proof could show it. They are nested conditions now.
- In `Decimals` a shifted `Panic` was a number and `Panic` was zero, so that a
  division by zero could have been taken for a price of zero, and `NoPanic`
  would have passed. They propagate it now; TLC finds no panic still.
- `WithinHoldings` bounded the reserves but not their decimals; as stated now it
  says that a reserve that is not zero has those of its own mint.
- `ExactPrice` was a `CASE` whose last guards compared the price of *any* pool
  with the name of a launchpad curve; they are asked of a launchpad only now.
- The decimals of a vault's and a curve's mints were written into `PoolStates`;
  they are the constants `FewA` and `FewB`. `PlacesAssumption` bounded all
  decimals by the places a quotient keeps, which nothing in the code does. It
  asks for naturals now, and `PriceAccurate` says what accurate means for a
  price shifted to fewer places than none.
- `Base^k` became the recursive function `Power`, whose equation can be derived;
  of `^` the provers know nothing, not even that it gives numbers.
- `OneView` called the items of a group free of contradictions while the model
  left out the supply and the FDV curve each reads; `ReservesTogether` promised
  one slot while the model answered every request at once;
  `MissingForAReason` held because all failures of requests had one code. The
  models have these steps now, and the properties say what is left of them.
- `MadeBy`, `ReportExact` and `PrimeAddresses` were stated by recursion or folds
  of which the provers know nothing; they count and enumerate sets now.

### Only model-checked

What needs fairness, and nothing else: `CallReturns`, `RunReturns`,
`EveryoneReads`, and the termination part of `ImplementsContract` (of both bulks).
Liveness is out of the prover's reach.

## Not modelled

- `cachex`, which no code of the SDK uses; the example command line; helpers of
  one line (`decimalx`, `mathx`); `supply.ApplyAdjustments`, which nothing calls.
- The byte layouts of accounts, beyond "too short" and "wrong type", and
  metadata.
- Signature and transaction requests, which pass through the loader and are
  retried like any other (token supply does too, and is `Supply` of
  `GroupReads`); construction of clients and options; the address of a bonding
  curve.
- `RecordAPI`, the same as `RecordRPC` on other counters, which no built-in code
  calls, and durations.
- The floating point power behind a DLMM price: `PairPricing` takes its value
  as given.

## Plan

Done: bulk pools with its contract, the task runner, the loader, the sequential
bulk on top of it, the retry, the debug recorder, the calculators' control flow
and arithmetic, each with its proofs.

1. Composition of the loader's requests with retry and failover, with the total
   number of requests bounded.
2. A bound on the error of Raydium CLMM's price.
