# TLA+ models of the gacha engine service

The service sells pulls: a client posts one request with an idempotency key,
the service charges the wallet, draws from frozen odds and the user's pity,
stores the result, publishes it, and sees to it that Backpack hands the items
out. The code is Python on asyncio, several pods sharing one PostgreSQL. The
models are translated from `gacha_engine_service/`, `migrations/` and
`scripts/`; paths and line numbers below are relative to the source tree.

Contents: [inventory](#inventory) · [hard behaviours](#what-is-hard) ·
[modules](#modules) · [runs](#runs) · [fairness](#fairness) ·
[proofs](#proofs) · [findings](#findings) · [not modelled](#not-modelled).

## Inventory

| Component | State it keeps | Operations | Talks to |
|---|---|---|---|
| Pull request handlers, `main.py` | locals of one request | `create_pull`, `claim_or_resume_pull`, `execute_claimed_pull`, `generate_and_commit_pull_with_retry`, `handle_existing_pull_operation`, `publish_and_complete_claimed_pull`, `refund_*` | catalog, store, asset, Kafka |
| Recovery worker, `main.py:1546-1865`, one per pod | the batch it has scanned | expired `processing` rows, undelivered rows, `refund_pending` rows | store, asset, Kafka, Backpack |
| Pull operation table, `postgres_state.py`, migrations | `gacha_runtime.pull_operations`: status, request hash, token and lease, frozen context, response and event, recovery lock | insert, claim, re-claim, commit, transition, save, lock, release, scans; evidence trigger | – |
| Pity snapshots, `postgres_state.py` | `gacha_runtime.pity_snapshots`: counters, guarantee, version, per user and pity group | read, compare-and-set inside the commit | – |
| Asset client, `asset_client.py` | none (the wallet is the asset service's) | `spend`, `credit`, each with an idempotency key | asset service |
| Event publisher, `kafka_events.py` | none | publish with acknowledgement | Kafka, read by Backpack |
| Receipt client, `backpack_client.py` | none | has this event been applied? | Backpack |
| Recovery context, `pull_operations.py` | frozen copy of banner configuration, count, seed, event id | freeze, thaw | – |
| Gacha engine, `engine.py` | counters and guarantee of the batch | `perform_pulls` | – |
| Catalog, `catalog_config.py`, `catalog_repository.py` | cached release with its schedules | refresh, pick the version in force | config database |
| Pull audit, `pull_audit.py` | none | hash a configuration, replay a draw | – |
| Redis migration, `scripts/migrate_redis_state.py` | none | import pity and operations | Redis, PostgreSQL |
| Read-only endpoints, HTTP shell | none | list, replay, status, audit; auth, settings, tracing | – |

An operation goes `processing → event_pending → event_published → succeeded`,
or `processing → failed`; `refund_pending → failed` is left from older engines.
A handler may die after any step, and any other handler (the client retrying)
or recovery worker may then go on: what they share is the row.

What makes each component correct:

- **Handlers and recovery together**: charge once, draw once, never draw
  uncharged, never keep the charge of a refused operation; answer only what is
  committed; do what was asked under this key; finish without the client.
- **Table**: only the latest claim moves a row out of `processing`; evidence of
  a draw never changes; the frozen context is never replaced.
- **Pity**: the committed draws of a group form one chain.
- **Delivery**: one result per event id, however often published; `succeeded`
  means applied.
- **Engine**: hard pity and guarantees hold across batches and banners of a
  group.
- **Catalog**: a request never works with a release that was replaced long ago.
  **Audit**: an honest draw replays, whatever was released or deployed since.
- **Recovery queue**: rows that cannot be recovered do not keep the others
  waiting.
- **Migrations**: no draw is lost or counted twice on the way from Redis to
  rows by banner to rows by group; a rerun of the import overwrites nothing.

## What is hard

Nothing in the service is transactional across its four stores, and every wait
is a point at which something else runs:

- *Interleaving.* `begin_pull_operation` is three statements; leases (30 s, not
  renewed) and recovery locks can run out under a live holder; the release of
  a lock does not ask who holds it.
- *Stale state.* Recovery works from records it scanned a batch ago; a retry
  resolves against a newer catalog release than the first attempt; the pity
  read before a draw may be outdated at the commit.
- *Lost answers.* Every statement and call may take effect and not be
  answered; a spend may be executed after its caller gave up.
- *Crashes* between any two steps, of handlers and of recovery itself.
- *Old rows* written by engines with other columns and keys, and engines of two
  generations that serve at the same time while the table is migrated.
- *Clocks.* The time of acceptance comes from the gateway, the cache counts its
  own, and the versions of a banner come into force by a third party's plan.
- *Limits.* A scan sees the first few rows only, and one row that a pod's build
  cannot parse ends its cycle.

`PROJECT.json` lists these hazards at their lines with the properties that
cover each, or why none does yet.

## Modules

| Module | Models | About |
|---|---|---|
| `PullStore` | the row of `pull_operations` | what each SQL statement and the trigger do to one row: no variables, only operators |
| `PullService` | handlers, recovery workers, and the services they call | one action per statement, transaction or call; faults; properties; two refinement mappings |
| `DrawLog` | nothing in the code | what the records are worth under every fault: a log per pity group that only grows, of operations that are charged, drawn from the context frozen with them, and never lose either |
| `PullPromise` | nothing in the code | what a user is promised when the asset service is prompt: open, pay, draw, show, reward, settle or refuse |
| `GachaEngine` | `perform_pulls` over the pity of a user in one pity group | one action per pull; the promises of the odds |
| `CatalogCache` | `CachedCatalogProvider`, the release head, the versions of a banner | the cache of each pod, loads that overlap, pods that restart |
| `PullAudit`, extends `CatalogCache` | resolving a request, freezing context and metadata, the draw, the audit | what is on record about a draw, and what an audit concludes after releases and deployments |
| `RecoveryQueue` | the scans' order and `LIMIT` | which rows get their turn |
| `PityTable` | `pity_snapshots` from Redis through migrations 000001 to 000006 | engines of three generations, the migrations and their down scripts, the import tool |
| `MCPullService`, `MCGachaEngine`, `MCPullAudit`, `MCRecoveryQueue`, `MCPityTable` | – | instances: catalogs, initial tables, fault sets, banners, schedules, queues |
| `PullServiceProofs` | – | `TypeCorrect` |
| `PullPaymentProofs` | – | the money invariant and what follows from it |
| `PullEvidenceProofs` | – | the evidence invariant, what follows from it, the action properties, no operation is stranded |
| `PullLogProofs` | – | the effects a step can have; the service implements `DrawLog` |
| `PullPromiseProofs` | – | the refusal invariant, no charge on a failed operation; the service implements `PullPromise` |
| `GachaEngineProofs` | – | the invariant of the counters, the four promises, types, complete evidence, batches that complete |
| `PullAuditProofs` | – | staleness of the cache, meaning of a mismatch |
| `PityTableProofs` | – | no draw is lost, no migration fails, imports are safe |

The modules cut the system where it is narrow. `PullService` takes the catalog
as a set of releases any of which a request may be resolved against, which is
what `CatalogCache` and `PullAudit` look into; it takes a pity value as the
operation that produced it, and shows that the draws of a group form one chain,
which `GachaEngine` follows pull by pull and `PityTable` through the stores; and
it takes scans as complete, which `RecoveryQueue` does not.

**State.** `row` is the table (one user, so one row per key); `pity` holds, per
group, the version and the operation that produced it; `funds`, `debits`,
`credits`, `late` are the asset service; `topic`, `applied` are Kafka and
Backpack; `pc`, `job`, `tries`, `batch`, `phase` are the locals of handlers
and workers. `answered` is a history variable: the draws clients were shown.

**Steps and code.** `pc[w]` names what worker `w` does next:

| `pc` | action | code |
|---|---|---|
| idle | `Request` (handler); `Scan`, `Reclaim`, `LockRow` (recovery) | `main.py:517-610`; `1546-1609`, `1654-1699` |
| lookup | `Lookup` | `main.py:535-572` |
| insert, claim, select | `Insert`, `Claim`, `Select` | `postgres_state.py:111-171` |
| spend | `SpendOk`, `SpendRejected`, `SpendUnknown` | `main.py:698-721` |
| fail | `MarkFailed` | `main.py:723-742` |
| read, commit | `ReadPity`, `DrawFails`, `Commit` with `Conflict` | `main.py:801-878`, `postgres_state.py:258-321` |
| reconcile | `Reconcile` | `main.py:755-777` |
| publish, save | `Publish`, `PublishFails`, `Save` | `main.py:932-963`, `1868-1880` |
| refund, close | `Refund`, `RefundFails`, `Close` | `main.py:1145-1188`, `1460-1543` |
| receipt, republish, confirm, release | `Receipt`, `Publish`, `Confirm`, `Release` | `main.py:1711-1770` |

`execute_claimed_pull` is run by handlers and by recovery alike, and so are the
actions from `spend` on. `handle_existing_pull_operation` and
`handle_claimed_pull_operation` differ in messages and in how errors of the
save are treated, not in what they do to a row; both are `Existing`. Two
differences between the handlers' and the worker's delivery matter and are
kept: the worker holds a lock and must release it, and it works on the scanned
record.

**Abstractions.** A lease or lock is a Boolean, true until an `Expire` action.
A token is the name of the worker that made the claim: tokens are fresh, and a
worker has one claim at a time. Response and event are written together and
are one value, the context drawn from and the pity drawn with: `perform_pulls`
is a function of context (which holds the seed) and pity. A hash stands for
banner, count and seed. Event ids and asset keys are uuid5 of user and
idempotency key, so they are the key. A legacy response is one whose JSON
changes when it is dumped again. `Barren` are the contexts whose draws may find a
pool empty, which `GachaEngine` looks into; there `DrawFails` is the `ValueError`
of `perform_pulls` (`engine.py:158`): it ends the attempt after the charge and
leaves the row in `processing`. Whether it happens is left open at every attempt,
so that a draw that depends on the pity is covered too.

**Engine.** `PullService` shows that the draws of a group form one chain,
whatever runs at the same time; `GachaEngine` takes that chain as given and
looks into it. `pity` is the committed snapshot and `banner`, `left`, `current`,
`drawn` are the locals of `perform_pulls`; `Begin` chooses a banner of the group
and a count, `Pull` is one turn of the loop (`engine.py:36-75`), `Commit` and
`Drop` are the compare-and-set and everything that prevents it, `PickFails` is
the `ValueError` of an empty pool. A roll against a rate may hit if the rate is
positive and miss if it is below one; hard pity is compared as in the code, the
five-star first. Float rounding and record ids are left out. `told` and `seen`
are history: what a player reads off the records, so that the properties do not
trust the counters they are about.

**Catalog and audit.** A load is three steps (`Get`, `Fetch`, `StoreSnapshot`),
since the provider takes the time before the query and stores after it, and the
requests of a pod interleave. A release is its schedule: sets of `[version, from,
to]`; `Unusable` is the loader's refusal, of releases whose versions overlap when
they are loaded or that are `Broken` otherwise. `until[r]`, a history variable,
is when `r` was last the head. `PullAudit` adds one operation: `Accept`
(`main.py:533-610`) resolves it at the gateway's time and freezes context and
metadata once, `DrawPull` (`main.py:798-859`) draws in any pod, `Audit`
(`main.py:470-515`) replays, `Deploy` replaces a pod by one with another build.
A draw is a function of configuration and generator, and hashes are equal when
what they hash is.

**Queue.** `queue[q]` holds the rows of a status in the order of its scan; every
claim and release sets `updated_at` or the lease from `now()`, so `Touched` moves
the row to the end (`postgres_state.py:844-874`). Recovery of a row advances it
or fails; rows in `Hopeless` always fail. Why they fail is `PullService`'s. A scan
that meets a row its build cannot parse (`Unreadable[v]`, `postgres_state.py:603-617`)
raises outside of the loops' `try`, so the cycle ends and the next one starts from
`processing` again (`main.py:1639`): later rows of the queue and later queues are not
reached. `Reaches(v, k)` says that nothing of this kind is on the way to `k`.

**Pity table.** `table[x]` is the row whose `banner_id` is `x`, with group and
version; a version counts the draws it comes from, `draws[g]` (history) those
ever made. The trigger fills the group of inserts (`GroupFilled`), the NOT VALID
check binds every write (`Writable`). Older engines are not in the repository:
the engine on Redis counts versions per banner, the engine on banner rows
inserts and updates by `banner_id`, as the tables they left and the trigger
made for them say. The order of events is `README.md:105-119`: traffic is paused, the
tool runs until it has seen every key, traffic is resumed; migrations are run,
reverted and run again before this engine serves, and the tool may be run again
at any time. `Move` is the data migration that `README.md:157` asks for when a banner
in use gets another pity group: the row keeps its `banner_id` and takes the new
group, which must not have a row. The repository has no script for it; `moved`
remembers the groups that were left, and after a move there is no way back to an
engine that knows banners only.

**Faults** (constant `Faults`): `store` (a statement fails, or takes effect
unanswered), `asset`, `kafka`, `backpack` (likewise for calls), `late` (a spend
is executed after its caller gave up), `refuse` (the asset service answers 4xx
for something else than the balance), `overrun` (a lease or lock runs out under
its holder), `crash`.

Definitions commented "Slip" (`SpendKeyOfClaim`, `OwnedByAnyone`, …) are the
code with one plausible mistake in it. They are used nowhere: substituting one
for the definition below it must break the property it is listed with in
`PROJECT.json` under "mutants".

## Runs

Sizes are distinct states. Each run takes at most about three minutes with two
workers.

| Run | Instance | Checks | States |
|---|---|---|---|
| `OneOperation` | `MCPullService`: one key, two request hashes, two handlers, one worker, two releases of which one moves a banner to another group and drops another; the row new, or left by an older engine as `refund_pending`, as `processing` without a context or as `event_pending` with a legacy response; every fault | `OneEntryPerOperation`, `CommittedIsPaid`, `PaymentInvariant`, `EvidenceInvariant`, `OneResultPerEvent`, `SucceededIsApplied`, `AnswersAreDurable`, `ContextFrozen`, `StaleOwnerIsFenced`, `EvidenceIsStable`, `NothingIsStranded`, `LogKept` | 1.02M |
| `Wallet` | `MCPullService`: two keys in one group, one handler, one worker, two commit attempts, wallet of up to two pulls, topped up at any time | `TypeOK`, `PityChain`, `FailedIsUnpaid`, `PromiseKept` | 430k |
| `Recovery` | `MCPullService`: one key, two request hashes of which one is for a banner that may find no item, one handler, two workers, fair; the row new or `refund_pending` | `FailedIsUnpaid`, `RefusalInvariant`, `EventuallySettled` | 119k |
| `LegacyProcessing`, `LegacyDraw`, `Refusal` | `MCPullService`, see [findings](#findings) | violated | – |
| `SharedPity` | `MCGachaEngine`: three banners in one group, batches of 1 and 3 | `TypeOK`, `FiveWithinHardPity`, `FourWithinHardPity`, `GuaranteeHonoured`, `CountersAgree`, `EvidenceCovers`, `BatchesComplete` | 1.4k |
| `EvidenceGap` | `MCGachaEngine`, see [findings](#findings) | violated | – |
| `PullAudit` | `MCPullAudit`: one pod with two requests at a time, two releases, two versions, two builds, time to live 2, skew 1, ticks 0 to 3 | `StalenessBounded`, `MismatchMeansRedeployed` | 2.2M |
| `Redeployed` | `MCPullAudit`, see [findings](#findings) | violated | – |
| `RecoveryQueue` | `MCRecoveryQueue`: five rows of which three are hopeless, one of these unreadable to both builds and one to one of them, two workers, `LIMIT` 1, fair | `NoStarvation` | 66k |
| `PityTable` | `MCPityTable`: two banners, one more group, one operation, two draws in a group, any moves between the groups | `PityCarriedOver`, `EnforceSucceeds`, `DrawsAccepted`, `SafeRerun` | 13k |

**Bounds.** Operations of one user meet only in the pity row and the wallet,
which two keys exercise (`Wallet`); one key suffices for what handlers and
workers do to each other on a row. Two handlers and one worker, or one handler
and two workers, give every pair of actors on a row, and three owners in turn.
Two commit attempts give both branches of `Conflict`; the code's number matters
only for the time they take. `MaxFunds` bounds the wallet; the interesting
wallets are empty, enough for one of two operations, and topped up in between.
Requests are not bounded: a handler returns to idle and may send any request
again, for ever. The state is finite because nothing counts them. The handlers of
`OneOperation` and the keys of `Wallet` are interchangeable, in the actions, the
initial tables and the properties alike, and these runs check safety only, so
they are checked up to symmetry; `Recovery`, which checks liveness, is not.

In `SharedPity` the hard pities are 5 and 4 for five-stars and 3 and 2 for
four-stars, so that each is reached within two batches of 3 (the code has batches
of 1 and 10); one banner resets the four-star counter and one does not, one has
soft pity that ends in certainty, one takes its three-stars from the catalog,
and one has every five-star featured, so that batches fail. `MaxFour` bounds the
four-star counter a batch may start from, which without a reset can pass its
hard pity by five-stars alone.

In `PullAudit` the first release replaces one version by another at tick 2; the
second has versions that overlap at tick 1, which makes it unusable then and only
then, and a gap at tick 3. `Horizon` 3 is one tick more than a snapshot lives. Pods
share nothing but the head, so one pod with two requests shows every race of the
cache, and a redeployment of it stands for another pod that draws.

In `RecoveryQueue` hopeless rows head the queues of new operations at the start and
the scan has room for one row, so that a row that kept its place would block its
queue for good; the two other rows (`Arrivals`) come back as new operations again and
again. The third queue starts with a row that can be read, one that cannot, or both,
so that `NoStarvation` speaks of rows before, beside and behind an unreadable one;
without its exception it is violated. In `PityTable` two draws per group make a
first and a further version in each store, all orders of two migrations and a draw
occur, and the third group is one that pity can be moved to and back from.

**Assumptions made by a run.** `OneOperation` has every fault. `Wallet` and
`Recovery` use `Punctual` (no `late`, `refuse` or `overrun`): `FailedIsUnpaid`
does not hold with `refuse` (run `Refusal`) and would not with `late` or
`overrun`, where a second worker's spend is refused for balance and ends the
operation while the first one's charge is executed. Nor does the promise, which
has no way to take a payment for a refused operation. The code relies on the
asset service here, and these runs say exactly on what. What needs none of it is
in `LogKept`: there an operation may be charged at any time, and refunded, but a
draw is charged, not refunded, and stays so. `PullAudit` takes the
clocks of pods to agree, and the gateway to be ahead of them by at most `Skew`,
beyond which the request is rejected (`main.py:1288-1291`).

`CHECK_DEADLOCK` is on everywhere: clients can always ask again, loops scan again,
pods are replaced and the import can be rerun.

## Fairness

`FairSpec` adds to `Spec`: from some point on, statements and calls of recovery
workers are answered (`<>[][CalmNext]_vars`); the loop of each recovery worker
never stops (`WF` of `GoodStep(v)`, the `while True` of
`run_pull_recovery_worker`, with every exception caught at `main.py:1639`);
leases and locks are timestamps and run out; Backpack consumes its topic. None
is assumed of handlers: they may fail, die or stay away for ever. Without the
first assumption nothing could be said: a worker whose every call fails
recovers nothing. `EventuallySettled` is stated for the time when clients have
gone: a client that keeps calling can keep the row leased, which the code does
not prevent and need not. It excepts operations frozen with a `Barren` context,
which may be tried for ever; that they do not keep others from being settled is
`NoStarvation`, where such rows are hopeless.

`FairSpec` of `RecoveryQueue` assumes that workers do not die for ever, that
their loops go on (`WF` of `Work`), that a lease or lock nobody works under runs
out, and that a row which is not hopeless is not failed every time it is tried
(`SF` of `Advance` on that row: it is enabled again and again, not all the time).
That a row is ever tried is not assumed, it is what `NoStarvation` says.

## Proofs

`tlapm` checks the eight proof modules from nothing.

### Operations: `PullServiceProofs`, `PullPaymentProofs`, `PullEvidenceProofs`

For all sets of keys, hashes, releases, groups, handlers and workers, any number
of commit attempts and any fault set, `late`, `refuse` and `overrun` included,
under `ServiceAssumption` (the constants have their types; handlers and workers
are different; initial rows satisfy `RowOK`) and `InitRowsAssumption` (what an
older engine may leave: rows that match their request, and at most one
undelivered draw in a group, the group's first; rows it has brought to `succeeded`
are left out, as nothing is done to them any more).

- `TypeCorrect`, `Spec => []TypeOK`. `TypeOK` is inductive because it says, at
  each step, which local variables have been set (`JobOK`): without that,
  `Commit` could store a response nobody computed. One lemma per action, one
  per part of the state.
- `PaymentCorrect`, `Spec => []PaymentInvariant`. That a committed row is paid
  for and not refunded (`CommittedIsPaid`) is not inductive: a worker at
  `commit` must know the operation is charged, a worker at `publish` that the
  row is committed, one at `refund` that it never will be, and so must the
  records in a worker's batch, which become jobs later. `JobsGrounded` and
  `RecordsGrounded` say so; both survive other workers' steps because a charge
  is never taken back, committed rows stay committed and `failed` and
  `refund_pending` rows stay undrawn (`StatusStep`, `EntriesStep`,
  `GroundedKept`). `KeysMatch` carries the identity of idempotency key and
  operation. `ChargedOnce` (`OneEntryPerOperation`) and `DrawsArePaid`
  (`CommittedIsPaid`) follow.
- `EvidenceCorrect`, `Spec => []EvidenceInvariant`. The context of a row, the
  draw in it, the pity chain, the topic, Backpack and the answers given agree, and
  so does what each worker believes at each step (`Agrees`): a worker that
  executes a `processing` row has the row's context; one at `commit` has drawn from
  the current pity or from an older version, which the compare-and-set will
  refuse; one that delivers has the draw in the row, for a record scanned long ago
  as well (`RecordsCurrent`). The proof does not go by actions but by what a
  step can do to the tables: every step leaves the pity alone and does to each
  row something `Ordinary` (open, take over, give up, deliver, close), or is the
  one transaction that `Draws` (lemma `DbStep`). The chain is stated without
  counting: each committed draw starts from version 0 or from the result of a
  committed draw one version earlier, and no two start from the same version,
  which one new draw at the end preserves.
  `PityIsAChain`, `OneResult`, `SucceededMeansApplied` and `AnswersLast` follow.
- `ContextIsFrozen`, `EvidenceStays`, `StaleOwnersAreFenced`: the action
  properties, from the invariants and the effects of a step.
- `NothingStrands`, `Spec => NothingIsStranded`. `CanFinish` says that a scan would
  find the row once its lease and lock have run out, and that the trigger would
  let its delivery be reported. No step, under any fault, takes this from a row:
  an open row never loses its context, and every response written has all keys,
  which needs of the worker at `commit` that the one it computed is not a legacy
  one (`Agrees`). `RecoveryIsPossible` concludes that every operation is settled or
  recoverable at all times, if the rows at the start are (`Modern`). That is the
  condition findings 1 and 2 are about: `LegacyProcessing` and `LegacyDraw` start
  from the two rows that do not satisfy it. It is the safety half of
  `EventuallySettled`; that workers do come round is the other half.

### Records: `PullLogProofs`

- `LogIsKept`, `Spec => LogKept`: the service implements `DrawLog`, from the three
  invariants above and nothing else, so for every fault set and for the rows of
  older engines. `EffectStep` reduces the actions to the few things a step can do
  that a client, the wallet or Backpack could tell (`Effect`: open or take over an
  operation, pay, fail, draw, report, credit, close, reward, show); nothing after
  it looks at actions. The log of a group is not a variable of the service: it
  is read off the pity chain, whose versions number its draws without gaps
  (`PityChain`), so that the one transaction that draws appends to one log and no
  other step moves any (`TapeGrows`). `LogEffect` maps each effect: to
  open is `Freeze`, a debit `Charge`, even one executed when the operation is long
  over; a refund happens only to an operation that is never drawn (`PaymentInvariant`);
  `Draw` needs the charge and the frozen context, which `Agrees` gives;
  `Settle` that the event was applied. `LogInitial` checks that what older
  engines may leave is a log.

### Refusal and promise: `PullPromiseProofs`

These hold under one more assumption, `Prompt`: no `late`, `refuse` or `overrun`
among the faults. It is what `Punctual` says of the runs, and `Refusal` violates
`FailedIsUnpaid` without it. Statements and calls still fail or go unanswered,
and workers still die anywhere.

- `RefusalCorrect`, `Spec => []RefusalInvariant`. That a failed operation keeps no
  charge is not inductive: a worker about to write `failed` must know that nobody
  has charged the operation, and that nobody is about to. So `Entitled` says that
  whoever executes an operation holds its lease with the latest token, hence is
  alone; a refused spend says that there is no debit (the spend key is the
  operation's, so an earlier attempt by a dead worker would have been repeated,
  not refused); and `late = {}` that none is on its way. Every step's effect on
  the wallet is one of those in `ChargeStep`. `FailuresAreUnpaid` follows.
- `PromiseIsKept`, `Spec => PromiseKept`, assumes `Fresh` as well: the table is
  empty at the start, since a `refund_pending` row of an older engine has been
  paid for and will be closed undrawn. `FreshCorrect` shows that no row becomes
  `refund_pending` and that a row has a context while it is `processing` and a draw
  once it is committed. Under all five invariants each effect of a
  step (`Effect`, as for the log; nothing is credited or closed on a fresh
  table) is a step of `PullPromise` or leaves its variables alone: the first claim is `Open`, a spend
  `Pay` (or nothing, if the debit is there), the commit `Draw`, which appends to
  the tape because the chain of draws ends at the version it compares with
  (`DrawStep`), an answer `Show`, Backpack's application `Reward`, the receipt
  `Settle`, which needs that the event was applied, and `MarkFailed` `Refuse`,
  which needs that nothing was charged. All else is a stutter.

### Engine: `GachaEngineProofs`

Every catalog, number of banners, hard pity and batch size, under
`EngineAssumption` (types; no banner's hard pity above `Longest`; featured items
filed under their rarity, as the repository does). `GachaInductive` is the
invariant: the five-star counter *is* the number of pulls since the last five-star,
and the four-star counter is *at least* the number of three-stars in a row (a
five-star may move it on). That the numbers stay below hard pity is not inductive
without it: a miss says something about the counter, not about the records.
`FiveIsDue`, `FourIsDue` and `EngineTypeCorrect` follow. `PromiseInductive` adds
that an open promise is in `guaranteed_featured_five`, and `GuaranteeIsKept` and
`CountersAreTrue` follow from both. These three have a hypothesis, `PromisesKeyed`: a
banner that promises its item has one, and keeps the promise in the pity. The
loader does not check it (`catalog_repository.py:486-500`); the catalog of `SharedPity`
satisfies it. `EvidenceIsComplete` (`EvidenceCovers`) needs
`PoolsCovered`: no pool's items of a rarity are all featured, unless it holds all
the catalog has of that rarity; `EvidenceGap` violates exactly this.
`StockedBatchesComplete` (`BatchesComplete`) says that a batch fails only on a
banner for which the catalog lacks an item some roll can ask for: what the pool
of the banner lacks is filled from the catalog (`PoolsFilled`), and a guarantee
cannot demand a featured item of a banner that has none.

### Catalog and audit: `PullAuditProofs`

Every number of pods, requests, releases and builds, every schedule and time to
live. `CacheInvariant` adds to `StalenessBounded` why it holds: a cached snapshot
expires at most one time to live after its release was last the head, however
late it was stored (`SeenInTime`). `StalenessIsBounded` follows: it would not
if the expiry were counted from the end of the load. `AuditInvariant` says that what
was frozen resolves, at the time on record and in the release on record, to the
configuration on record, which no later release or deployment changes;
`MismatchIsRedeployment` follows.

### Pity table: `PityTableProofs`

Every set of banners, groups and operations. `TableInvariant` accounts for the draws
of every group: they are in the row that bears its name or still in Redis
(`RowAccounts`), nothing is in PostgreSQL before the pause (`Untouched`), and what
serves was deployed on a complete import (`Deployed`). Once a group has been moved
(`MovedAccounts`) the draws are accounted for by the group of a row instead of its
name, every group has at most one row, and Redis has nothing newer than any row it
could be imported into, so that an import changes nothing any more; no step leads
back (`TableInvariant` is one or the other). `PityIsCarriedOver`,
`EnforcementSucceeds`, `DrawsAreAccepted` and `RerunIsSafe` follow.

### Only model-checked

Liveness (`EventuallySettled`, `NoStarvation`): the prover does not reach fairness,
and that a step of recovery is enabled whenever `CanFinish` says there is work is
`ENABLED`, out of its reach too. Every invariant, action property and refinement that a passing run checks is
proved.

## Findings

1. **An imported `processing` row is never taken over** (`LegacyProcessing`).
   The scan asks for `recovery_context is not null` (`postgres_state.py:833`);
   imported rows have none (`scripts/migrate_redis_state.py:217`). `README.md:51`
   and `:153` promise recovery without the client.
2. **An old `event_pending` row can never be saved** (`LegacyDraw`). Dumping the
   parsed response adds keys (`postgres_state.py:638`), so the evidence trigger
   rejects the update; the event is published again for ever. `README.md:159`
   has the row go to `event_published`.
3. **A lost answer, then any 4xx, loses the charge** (`Refusal`). `main.py:714`
   judges an attempt alone, not the operation.
4. **The evidence can miss an item that can be drawn** (`EvidenceGap`). The
   off-rate fallback (`engine.py:131`, `catalog_config.py:90`) takes a rarity
   from the whole catalog when the pool has only featured items of it;
   `_effective_items` (`pull_audit.py:67`) does not. `pull_audit.py:20` promises
   the configuration that can affect a pull result.
5. **Audit metadata may name a build that did not draw** (`Redeployed`). The
   response takes the metadata frozen at acceptance (`main.py:826`); after a
   redeployment another build, with its own generator, may draw. `README.md:161`
   says they bind the draw to generator, engine version and build commit. If the
   generators differ, the audit calls an honest draw a mismatch
   (`MismatchMeansRedeployed` says that this is the only way).

Not findings, since no document says otherwise. If every five-star of the
catalog is featured, a lost coin has no item to pick from (`engine.py:158`),
after the charge and at every retry, and the loader
(`catalog_repository.py:486-500`) accepts such a catalog: `PickFails` of
`SharedPity` and `DrawFails` of `PullService`. `BatchesComplete` says that such
banners are the only ones, and `EventuallySettled` that other operations are settled
nevertheless. A five-star from a banner without a promise clears the guarantee
earned elsewhere in the group (`engine.py:147-154`); `GuaranteeHonoured` counts
misses accordingly. Between 000004 and 000005 an engine that is still serving is
refused every draw for a user and banner with a row from before 000004, since the
NOT VALID check binds updates too and the trigger does not fire on them:
`DrawsAccepted` says that there is no other such case. After the pity of a group has
been moved, no draw is made in a group of the old name: its first row would need the
primary key that the moved row keeps, and the insert handles a conflict of the
group only (`postgres_state.py:659`); `DrawsAccepted` says that this is the only case
for this engine. A release whose versions
overlap at some moment cannot be loaded at that moment, neither for requests nor
for audits of draws made from it before; it can again later.

## Not modelled

- The *probabilities* of the engine and its random generator: rolls are
  nondeterministic, within what the rates allow.
- *Parsing*: of releases (`catalog_repository.py:214-476`; the loader's refusals
  are the set `Broken`), of stored JSON (the one case that matters, a legacy
  response, is modelled), of requests and headers.
- *Which rows no longer validate* (`postgres_state.py:603`): what older models of the
  data were is not in the repository. What such a row does to a cycle is in
  `RecoveryQueue`; `PullService` has readable rows only.
- *Hashes*: two are equal when what they hash is equal.
- *Endpoints that only read*: the listings, the replay of a stored row and the
  player support view; `catalog` requests are `Get` to `Finish` of `CatalogCache`.
- Authentication, settings, tracing, server start-up, the built-in catalog: I/O
  and constants around a state they do not change.
- *Real time*: leases and locks expire at any time their holder allows, clocks
  tick in `CatalogCache` only; sleeps and back-off are not modelled.
