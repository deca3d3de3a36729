# mellow-interop-bot: specification and proofs

The bot keeps a cross-chain vault running: it distributes rewards, refreshes the
oracle that prices the vault's share, moves assets between two chains and works
off withdrawals. It signs with an operator key, unattended, and every part of it
is about what happens when a step fails, comes late or is repeated. This
directory holds TLA+ modules translated from that code, TLC runs over small
instances, and theorems proved with TLAPS for every value of the constants.

    tlc -config SchedulerLedger.cfg MCScheduler.tla     # one run
    tlapm SchedulerProofs.tla                           # one proof module

## Inventory

| part | state it keeps | operations | talks to |
|---|---|---|---|
| `scheduler.py` | `last_run`, `_has_record`, `failures`, `retry_after`, skip window, resync request, time of the last refusal alert; the state file | `run_cycle`, `run_forever`, the `task_*` wrappers, `run_resync`, `record_*`, `_save_state`, `_load_state`, signals | calls the four jobs in-process; Telegram |
| `web3_scripts/tx.py` | locals of one send: nonce, fees, attempt, polled hashes, alerts | `send_and_confirm`, `next_fees`, `compute_fees`, `_poll`, `_confirmed` | the node; called by every job that signs |
| `process_lock.py` | the lock file, an open descriptor | `acquire`, `release` | `scheduler.py`, `cli.py`, `main.py` |
| `web3_scripts/oracle_update.py`, `oracle_script.py` | none between runs | validation behind the chain, `bounded_write`, `send_within_band`, `update_oracle`, `resync_oracle` | both chains; `tx.py` |
| `main.py` | none between runs | `run_oracle_update`, `run_oracle_resync`, `run_oracle_propose`, planning of proposals | oracle updates, Safe, Telegram; called by `scheduler.py`, `cli.py` and as a program |
| `web3_scripts/operator_bot.py` | none between runs | `run` (redeem, claim, push, deposit), the LayerZero wait, `run_all` | both chains; `tx.py` |
| `web3_scripts/ascend.py`, `withdrawal_queue.py` | a cache of two immutable parameters | `run_ascend`, `handle_epochs` | the source chain; `tx.py` |
| `safe_global/*` | none; the Safe service holds the queue | propose, look up, read back, describe what is superseded | the Safe service, the Safe's nonce |
| `web3_scripts/base.py` | the endpoint in use | failover, block at a timestamp | RPC endpoints |
| `config/*`, `cli.py`, `daily_report.py`, `telegram_bot/*`, `operator_script.py` | none | parsing, dispatch, rendering | - |

The program has no threads. Concurrency comes from outside: the chain moves
between any two reads, block producers and endpoints disagree, another process
may start, a signal arrives anywhere, the process may die anywhere, and time
passes while a handler runs. What makes each part correct:

- **scheduler**: a distribution the oracle lacks stays owed through failures,
  refusals and restarts; no slot is used up by a run that did not act; nothing
  runs more often than it earns; a standstill is heard of, and no more often
  than intended; a stop is honoured.
- **sending**: what a send reports is what the chain decided; nothing queues
  behind anything, so a retry cannot happen twice; offers climb within the cap;
  a send ends, and until then it is heard of; a stop ends it.
- **lock**: one signer at a time, whatever is started, killed or left over.
- **oracle updates**: never lowered, never above what the chain backs, never a
  mid-transfer sum, never further than the deviation guard allows; a refusal has a
  reason a person should look at, and without one the price catches up.
- **rebalancing**: decides by nonces and values that agree, so never two transfers
  at once; interrupted between two transactions, the next pass picks the assets
  up; what was freed for withdrawals is not staked again before it is pushed; the
  two chains come to rest.
- **withdrawals, ascend**: an epoch that is mature is handled in the end, nothing
  is resent without progress and nothing reported that did not go by; rewards
  claimed by a run that broke off are distributed by a later one.
- **proposals**: what is reported as queued is queued, a repeated POST adds one row
  only, and whoever is sent a link to a newly posted row is told which rows at its
  nonce they were sent before.
- **runs over all deployments**: one deployment's failure neither hides nor stops
  the others; whoever needs a person is in a message that arrived, or the caller
  knows it did not; a resync stays requested until each oracle has been looked at.

## Modules

`Scheduler` is one process and its file, `TxSend` one account and its chain,
`ProcessLock` the processes that share an account, `OracleValue` one deployment's
price on two chains, `VaultChains` with `Rebalance` and `Upkeep` the assets of one
vault and the three jobs that move them, `SafeProposal` one proposal to a Safe and
`OracleRuns` the commands over all deployments that surround it. They meet at
narrow points: a task of `Scheduler` is a handler whose sends are `TxSend`'s, and `Scheduler`'s
`Fail` stands for every way a send can raise; `ProcessLock` is why `TxSend` has
one sender and why only `Foreign` signs besides it; `OracleValue`'s outcomes are
what `FinishOracleWritten`, `FinishOracleNotWritten` and `run_resync` of
`Scheduler` are told, by way of `OracleRuns`, which makes one answer out of those of
all deployments. `Upkeep` takes from `OracleValue` that the oracle job comes round
and brings the oracle in line.

### Scheduler (`scheduler.py`)

The variables of the first group are the fields of the class `Scheduler`, under
their names. A cycle is walked slot by slot: `turn` is the loop variable of
`run_cycle`, `mode` says whether the slot is being considered, its handler runs,
the pause after ascend runs, the process sleeps or is down.

- `PassSlot`, `run_resync`, `StartTask` are the three ways through the head of
  the loop body (lines 565-610). A handler's whole effect and all bookkeeping
  after it are one action: `FinishPlain`, `FinishOracleWritten`,
  `FinishOracleNotWritten`, `FinishRebalance` and `Fail`.
- The order in `Completed` is the code's: success, `last_run`, `_has_record`,
  save. `_save_state` may fail, silently, as in the code.
- Time moves with the steps: a handler takes any time up to `MaxRun`, and what
  is measured at the start of a slot or at its end is told apart.
- `Crash` may strike anywhere, also after a handler's effect on the chain and
  before its bookkeeping. `Start` is `__init__` with `_load_state`.
- Of the chain there is one fact: `unpriced`, the time of the newest distribution
  that no oracle write contains. A write contains what is `SecureInterval` old
  when it reads (`oracle_script.py:45-48`).

Left out: more than one deployment (`config.json` has one, and what several do to
the scheduler's answers is in `OracleRuns`), the wording of alerts. Alerts are a fact about when a reader last heard
of a task (`quiet_since`, `told_at`).

### TxSend (`web3_scripts/tx.py`)

A payload is a record of operation, nonce and the two fees; its identity is its
hash, so signing the same operation at the same fees again gives the same
element, as in the code. `Begin` is everything up to the loop, `StopAtTop`, `Top`
and `FeeReadFails` its head, `Broadcast` the try block and its handlers by the
answer of the node, `Wait` the poll. The fees are computed as in `compute_fees`
and `next_fees`, in small numbers.

The node is external and modelled by what the code relies on: it keeps one
payload per nonce, takes a replacement only if both fees rise, answers "nonce too
low" exactly when the nonce is spent, and may forget a payload that a block
producer still includes (a failover of `FallbackHTTPProvider` to another endpoint
looks the same). Receipts lag blocks. Left out: gas and balances, and endpoints
that lag in the nonce they report.

"Each replacement offers a higher fee than the last" (`tx.py:433`) is true of the tip,
not of `maxFeePerGas`: the ceiling of `tx.py:349-352` follows the base fee, so after it
has fallen a replacement may carry a higher tip under a lower maximum, and a node
that still holds the last payload refuses it as underpriced. The model has these
offers, and `ReplacementsPay` says what holds in their presence: the payload the
node keeps then has itself room for the new tip over twice the base fee of the
moment, so nothing a rise of the base fee has stranded stays so while the tip can
rise. At the cap it does stay: no replacement is signed any more (`tx.py:354-364`).

### ProcessLock, SingleSigner (`process_lock.py`)

One action per system call of `acquire` and `release`: open, flock, truncate,
write, unlock, close. `flock` belongs to the inode a process opened, not to the
path; that is what the comment on not unlinking the file is about. `Start`
includes the constructor of `Scheduler`, which reads the saved schedule before the
lock is taken. `SingleSigner` is the promise: one holder or none.

Outside the lock, and so outside this module: `cli.py --no-lock`, the lock-free
commands, and `operator_bot.py` run as a program.

### OracleValue, SharePrice (`oracle_update.py`, `oracle_script.py`)

A run reads each chain at a block at least `SECURE_INTERVAL` old. In the model the
run pins a chain's state while it is the newest (`PinSource`, `PinTarget`, in any
order) and decides later (`Decide`): what happens in between is the lag of the
reads. `Decide` is everything from the validation's result to the first estimate
of gas, with `maxValue` read at the newest block: the wait during a transfer,
`bounded_write` (`write_refused`, `write_value`) and the guards of `update_oracle`
and `resync_oracle` in their order. `EstimateAccepted`, `EstimateAboveNav` and
`EstimateFails` are `send_within_band`; then the transaction is on its way and
lands or reverts. `Break` is every other exception. The four attempts of
`run_oracle_validation` each read everything anew; they are runs that break off
and start again.

The contracts are external. What moves to the target chain stays locked on the
source chain, so the totals ever pushed and pulled, message by message, say how
much is where, and the helpers' values at a block follow from that block's nonces.
The OracleUpdater accepts `oracle .. maxValue` at the block of inclusion; deposits
are priced at the oracle; the Safe sets any value. A helper that is broken reports
one of `WrongTotals`.

`SharePrice` is the promise as seen from the source chain alone: deposits at the
price that stands, earnings, the bot's rises up to what the assets back, and the
Safe. `OracleValue` implements it with `assets <- Backing(source)`.

Left out: the dry run, the warning about gas, the wording about expiry, missing
configuration, withdrawals through the queue (they burn shares at the oracle's
price; `Upkeep` has them), and a send that raises while its transaction is
still in flight (run `tx_in_flight`).

### VaultChains, Rebalance, Upkeep (`operator_bot.py`, `withdrawal_queue.py`, `ascend.py`)

`VaultChains` is external: the SourceCore's holdings, the target vault's stages
(staked, pending, claimable, idle), the messages between the chains with a nonce for
each direction, the withdrawal queue, the rewarders and the router, and what
users, governance, messages and time do to them. `getAmounts` is the TargetHelper's as
the bot uses its result. The two facts a validation rests on are kept apart:
`in_line`, whether the oracle agrees with the chains now, and `behind`, what the
lagging blocks say.

`Rebalance` is one pass of `operator_bot.run`: `StartPass` the validation,
`ReadSource` and `ReadTarget` the readings and the decision, then a transaction
at a time, in the code's order: `Redeem`, `Claim`, `PushToSource` or
`PushToTarget`, the wait (`Finalized`, `TimesOut`), `AskClosing`, the closing
`Claim` and `DepositIdle`. A transaction that fails ends the pass, as does a kill
(`Upkeep!Break`); nothing of a pass is kept.

`Upkeep` adds the two other jobs and takes all three in turn, one at a time, since
one process runs them. `ReadQueue`, `HandleEpoch` and `CheckProgress` are the loop of
`handle_epochs`; `ClaimReward`, `ReadRouter` and `Distribute` are `run_ascend`.
`force_withdrawal` is a choice of the instance, fixed for a behaviour: the
scheduler always passes `False`, and only `operator_bot.py` started by hand reads
`FORCE_WITHDRAWAL`.

Three things of the world are bounded, each at its guard. A redemption that ripens
between the two readings of one pass counts as a fault (it takes days, a pass
minutes). Requests for withdrawal leave a share outside the queue: at the boundary,
with every share queued, `run` returns "withdrawal demand exceeds total assets" on
every pass, so nothing is pushed to the source chain any more and a person has to act.
And nonces are counted modulo `LastNonce + 1`, since the code only compares them.
Left out: gas and message fees, the interactive confirmation, and dry runs.

### SafeProposal (`safe_global/*`)

A row of the Safe service is what its hash is made of, the nonce and the call. `Sign`
reads the Safe's nonce and signs; every lookup (`ReadNonce`, the listing, `Found`,
`NotQueued`) reads it anew. A lookup has one of three reasons: the first look, the
look after a failed POST, the read-back; `GiveUp` is what each does when its
attempts are used up. `Post` may be accepted without an answer, answered without
having been read, rejected by the gateway's checks after the row was stored, and is
repeated with the same signature. `Name` collects the rows superseded. Both
services are in the model, chosen in `Init`; the gateway may be behind the chain
and knows no superseded rows. A first lookup that finds the call ends the
proposal before `Name`. `Index`, `Execute` and `OtherProposes` are the world.

Data: the encodings of `multi_send_call.py`, the hash and the signature. The
accounting of owners and confirmations is one thing that may fail
(`DescriptionFails`).

### OracleRuns (`main.py`, with `cli.py`, `scheduler.py` and `run_all`)

Four commands over the deployments, one at a time: an update, a resync, a
rebalancing and a proposal. What becomes of one deployment is an outcome; what the
command makes of them all is the code's: `Report` with `compose_oracle_update_message`,
`pending`, `task_oracle_update`, `task_rebalance`, `run_resync`, and the exit
statuses of `cli.py` and `main.py`, which differ. `RebalanceRaises` is an exception
in `run_all`, which nothing around the loop catches. A message may be lost. A
proposal runs `SafeProposal` step by step.

The Safe rests while the other commands run (`World`), since they do not look at it:
its steps commute with theirs. Time is left out: an update may or may not announce
while a refusal stands. A restart of the scheduler is left out as well: it forgets
the request for a resync, but a rebalancing that was declined stays due and finds
the oracle out of line again.

The message of a proposal names the competitors of a row it has posted and read back
(`NewRowNamesEarlier`). One that finds its call already queued, by an earlier run of
its own or by another owner, returns before the queue is read for competitors
(`propose_tx.py:274-278`), and its link is sent all the same. So when value 1 was
sent to the signers, then value 2, and value 1 is proposed again, or when another
owner's row at the same nonce turns out to be the proposed call, the signers get a
link without a word about the row they were sent before. `propose_tx.py:316-318`
says that for a retry which turns out to be a duplicate "the supersedes notice names
the one to sign". No property claims it, since it does not hold.

Also left out: dry runs, several Safes in one proposal run (they are proposed one
after another, each like the first), and the advisory lines of the messages.

## Runs

| run | instance | shows |
|---|---|---|
| `scheduler_ledger` | 2 faults, ticks to 7, first state file empty or any mix of one old run per task, handlers that take time | `DistributionStaysOwed`, `UnfinishedStaysDue`, `LedgerHonest`, `RunsAreEarned`, `WriteContainsDistribution`, `RetriesPaced`: the record of runs stays truthful through failures, kills and failed saves |
| `scheduler_alerts` | 1 fault, ticks to 11, long enough for the limit of silence of a rebalancing to pass, fairness | `NoSilentStandstill`, `RefusalPaced`, `RefusalAnswered`, `StopHonoured`: failures, skips and refusals in every order are heard of in bounded time and not on every retry |
| `tx_send` | 1 send, 1 fault, 2 base fees, cap reached in two steps, fairness | `DecidedByChain`, `NothingQueuesBehind`, `PaysWithinCap`, `SilenceBounded`, `ReplacementsPay`, and `Settles`: with a reachable chain every send ends |
| `process_lock` | 2 schedulers and a command, 5 starts | the refinement `ImplementsSingleSigner` |
| `oracle_price` | assets 8 to 12 at unit 8, guard 25%, a transfer each way, 1 wrong reading or break, 1 write of the Safe, fairness | `PriceBacked`, `ReadingComplete`, `WritesWithinGuard`, `AlarmsAreReal`, the refinement `ImplementsSharePrice`, and `PriceCatchesUp` |
| `upkeep` | assets of 5 with 1 on the source chain, 2 moves of users or governance, 2 epochs, 1 rewarder, 1 fault, forced or not, fairness | `OneTransfer`, `ReportsProgress`, `RedepositsSurplusOnly`, and in the end `WithdrawalsServed`, `RewardsReachVault`, `TransfersCease` |
| `oracle_runs` | 2 deployments, 2 commands, 2 values, 1 execution and 1 foreign proposal at the Safe, either service, POST twice, read-back twice | `ReportedIsQueued`, `OneRowPerProposal`, `NewRowNamesEarlier`, `NobodyLeftOut`, `ResyncStaysOpen` |

and five that show a disagreement between the code and what it says:

| run | what happens |
|---|---|
| `scheduler_killed_in_gap` | the gap after a distribution is not kept across a kill: a quick restart writes the old value and marks the debt as paid |
| `tx_in_flight` | an RPC failure while a replacement is priced ends the send with a transaction in flight, which `tx.py:447` says only a stop does |
| `lock_hand_over` | a scheduler reads the saved schedule before it takes the lock, and its first save erases what its predecessor recorded in between |
| `lost_resync_request` | one deployment's oracle stops its rebalancing, a later one's pass raises: `run_all` drops the reason, and no resync is requested (`scheduler.py:370` says one is) |
| `skips_unnoticed` | with two deployments, one written and one skipped in run after run, each write closes the window of skips: the scheduler does not notice the repeated skips `main.py:479` leaves to it |

The last two need more than the one deployment of `config.json`.

Every module has a type invariant, checked by the run of its name or of the module
that composes it.

### Bounds

Every bound is a constant named in its module. Nothing stops the clock of the
scheduler, so `MaxTime` bounds the cycles; seven or eleven ticks hold several intervals
of the shortest task, a threshold of failures and two restarts, and the shortest
counterexample to every mutation tried needs fewer. The limit of silence of an oracle
update lies beyond either bound, so TLC meets `NoSilentStandstill` with rebalancing
only, and it is the theorem that covers both. `MaxFaults` counts kills,
signals and failed saves together; what a single fault can break shows with one,
and two allow a fault during recovery. In `TxSend` the cap is two bumps away, so
the climb, the wall and the fall of the base fee all happen. With one send the leftovers
of an earlier process occur as foreign payloads only; that a second send replaces
its predecessor's is left to the theorem `SendsReplace`, which has no bound. In `ProcessLock` five
starts of three processes
let every process hold, be refused and come back after a death. In `OracleValue`
prices are small integers with a unit of 8, so rounding down happens on most
deposits, a reward moves the price past the guard or short of it, the heartbeat's
tolerance of 1 is a whole step and the resync's is 0, and one transfer in
each direction meets every order of the two pins and the two deliveries.

In `Upkeep` ratios are tenths, with a target of 1 and a limit of 3, and amounts of
2 against a holding of 1 and a stake of 4: a deposit makes a surplus, a request for
withdrawal a deficit the source chain cannot meet, and two of them, in either order,
a surplus that turns into a deficit while its message is under way. Messages,
redemptions and passes are not bounded, and neither are timeouts. One fault lets
any job break off between any two of its steps. In `OracleRuns` two deployments make
"one but not the other" possible, two values make competitors, one execution makes
a signed nonce stale, one foreign row competes with ours, and two commands let a
second meet what the first left, at the Safe and in the scheduler's memory. The
values proposed are interchangeable, so the run takes them up to symmetry; its
properties are invariants and an action property only. Deadlock is not checked
where the bounds end a behaviour.

### Fairness

`Scheduler!FairSpec` and `TxSend!FairSpec` say that the process goes on executing:
the program is a single thread that never blocks for ever, since every wait in it
has a timeout. Nothing is assumed of the order of tasks or answers. `Settles`
assumes more (`Reachable`), and says so in the formula: the base fee is low again
and again, a producer that can include a payload does so in the end, and a node
asked again and again answers truthfully in the end. Without that a send may
legitimately last for ever, which is what `on_stuck` is for. `OracleValue!FairSpec`
says the same of the runs: the scheduler starts them again and again and each goes
on to its end; failures are bounded by `MaxFaults`, that is, they cease.
`PriceCatchesUp` promises something only where no transfer is under way for good
and no guard stands against the write.

`Upkeep!FairSpec` assumes of the world that messages arrive, time passes, the
oracle job brings the oracle in line and the lagging blocks catch up (weak
fairness, each holds still until it happens), and that a redemption ripens though
passes come and go (strong fairness). Of the program it assumes that a pass or a
job that has begun goes on, and that each of the three jobs begins again and again:
they take turns in one process, so each is enabled again and again only, and
`Scheduler` starts every task that is due. `TimesOut` and `Break` are not fair, so the
properties hold with and without them. `OracleRuns` has no liveness: its commands
are finite sequences.

## Proofs

Each component has a module of proofs, `Scheduler` and `Upkeep` a second one. Every
invariant and action property a passing run checks is proved for all values of the
constants the assumptions allow, as are both refinements; two of the properties hold
where `SettledReads` does (see below); what is left to TLC is what depends on fairness. Assumptions are
the named ones in the component's module (`ConstantsAssumption`, `FeesAssumption`, `PaceAssumption`,
`ProcessAssumption`, `OracleAssumption`, `ChainsAssumption`, `RebalanceAssumption`,
`UpkeepAssumption`, `SafeAssumption`, `NoneAssumption`, `OracleRunsAssumption`):
positive intervals and delays, non-empty sets of fees, a round not longer than the
patience it is measured against, finitely many deployments.

- **`SchedulerProofs`**: type correctness; `DistributionStaysOwed` and
  `WriteContainsDistribution` under `SettledReads` (the gap and every restart take
  at least as long as the reads lag); `LedgerHonest` without it. The debt is not
  inductive by itself. `OwedInv` adds that stamps lie in the past and the file never
  runs ahead of memory, that a run of ascend that is open or to be retried is due by
  its bucket, that ascend starts strictly after the oracle's last run, and that
  outside the gap every distribution is old enough to be read. `HonestInv` adds
  that memory claims no more than what was done. `UnfinishedStaysDue` is first
  strengthened: an unfinished task is owed by its bucket or its debt alone, a retry
  only adds to that (`DueInv`; that time moves a task only further into being due
  is `OwedLater`). `RefusalAnswered` follows from `AnswerInv`: an unanswered refusal
  has its request, and the slot of the oracle, which comes before that of
  rebalancing, is not left with it open but for the backoff.
- **`SchedulerPacingProofs`**: `RetriesPaced` from `RetryInv` (a retry is set to the
  end of the failed run plus its backoff); `RunsAreEarned` from `DueInv` and
  `SeedInv`; `RefusalPaced` from `ToldInv` (the last alert that was announced is the
  one the next is measured from). `NoSilentStandstill` is the hard one: a task may
  fail and decline in turns, failures are reported in batches of `alert_after` and
  declines once a threshold of time has passed, and each of the two resets or keeps
  what the other counts. `QuietInv` follows how far the last report lies behind:
  when its window of declines opened or was last reported (`WindowsReported`), how late a run may
  decline without a word (`AfterDecline`), and what the failures since then add,
  the clock included (`AfterFailure`, with `Waited` for the place in the cycle).
  Hence the shape of `SilenceLimit`: one threshold, at most `alert_after` failures
  before it and `alert_after - 1` behind it, each an interval of backoff and a cycle.
  A bound with one group of failures passes on an instance with a short oracle
  interval and is false: the proof does not go through, and TLC finds the behaviour
  where cycles are long. `NeverLongQuiet` turns the action property,
  which speaks of the end of a run, into one about every moment.
- **`TxSendProofs`**: type correctness; `DecidedByChain` and `NothingQueuesBehind`
  from `ChainInv` (the chain holds each nonce at its place, a send offers payloads
  at its own nonce only and never one ahead of the chain); `PaysWithinCap` and
  `SilenceBounded` from invariants that add the offer not yet made and the place in
  the loop; `ReplacementsPay` from `OfferInv` (the tip of the moment is the highest this
  send has offered) and from `RoomForTip` (the ceiling on a maximum never cuts into
  the room for its tip).
- **`ProcessLockProofs`**: type correctness; `OneSigner` and `FileNamesHolder` from
  `LockInv` (every open file is the one at the path, and whoever is past the
  kernel's lock holds it); and that the lock implements `SingleSigner`, step by
  step, for any set of processes.
- **`OracleValueProofs`**, for any prices, amounts and number of transfers: type
  correctness and `ReadingComplete` from `ReadInv` (the totals only grow, nothing
  comes back that was not sent, a pin lies in the past of its chain, where the
  totals no longer change, so equal nonces mean equal totals); `PriceBacked` from
  `Backed`, which rests on arithmetic proved once (`AtMostShareValue`,
  `DepositKeepsBacking`: a deposit at a backed price, rounded down, leaves it
  backed); `WritesWithinGuard` from `SendInv` (what is in the air was judged
  against the oracle's value, and lies between it and the reading, also after
  the retry); `AlarmsAreReal` from `AlarmInv` (what was read was backed by what
  was read, and the oracle has only risen since); and that `SharePrice` is
  implemented, from `SourceMoves`, which says what any step is seen from the
  source chain.
- **`UpkeepProofs`**, for any ratios, amounts and number of rewarders:
  `OneTransfer` from `TransferInv`. The nonces say which message is under way:
  equal in both directions and nothing is (`Quiet`), or one side is one ahead and
  exactly that message is (`Outbound`, `Inbound`). A view of the source chain
  that is older than a message's arrival there disagrees with the target chain's
  nonces (`ViewHolds`), so a pass that has decided to push finds the wire empty
  (`Decided`); the lag of the validation plays no part in it. `ReportsProgress` from `ProgressInv`, which says
  what the loop will count once its check sees the queue moved.
- **`UpkeepAmountsProofs`**, for the same constants: `Upkeep`'s type correctness, which says that
  no balance, supply or queue underflows. It needs `AmountsInv`: what a pass
  plans is there when it is spent, though users, messages and redemptions move the
  balances after the reading (`PlanInv`, with what is still to be claimed counted in
  `Spendable`), an epoch pays less than the vault holds (`PayoutBelow`, since part of
  the shares is never queued), and the queue's demand is what its epochs sum up to.
  A recursive sum over the epochs could not be reasoned about, so `QueueInv` says
  that there is a function `f` with `f[e] = f[e + 1] + shares[e]` that reaches the
  demand at the iterator (`Backs`): each step of the queue changes `f` in a way the
  prover can check, without induction. From the same invariant: `NeverEmpty`;
  `PassesConserve`, a pass loses nothing, whether it completes, times out or breaks
  off; `SharesKeepTheirValue`, by the arithmetic of rounding down (`MintingKeeps`,
  `PayingKeeps`). `RedepositsSurplusOnly` adds `SurplusInv`: a plan pushes the deficit
  or all there is (`Pledged`), a push that falls short leaves nothing and nothing is
  under way towards the target chain (`Exhausted`, from `Decided`), so the closing
  readings find less than the dust limit (`TooLittle`).
- **`OracleRunsProofs`**, for any number of deployments, values, attempts and rows:
  type correctness; `ReportedIsQueued`, `OneRowPerProposal` and `NewRowNamesEarlier` from
  `ProposalInv` (a proposal only ever creates the row it signed; it reads back only
  what is there, and links only what the service shows); `NobodyLeftOut` from
  `NoticeInv` (a run is silent only for a scheduler that has announced a refusal);
  `ResyncStaysOpen` from `ResyncInv` (an oracle that stopped a rebalancing and was
  not settled is still to come, or is among the outcomes that keep the request).

Only model-checked, because it depends on fairness, which the prover does not handle:
`StopHonoured`, `Settles`, `PriceCatchesUp`, `WithdrawalsServed`, `RewardsReachVault`,
`TransfersCease`. Proved and not part of a run, since they follow from invariants that
are: `OneSigner` and `FileNamesHolder` of the lock, `NeverLongQuiet` of the scheduler,
`NeverEmpty`, `PassConserves` and `ShareKeepsValue` of the vault.

## Not modelled

- **Configuration** (`config/*`): parsing, validation and masking, no state and no
  order of events. Its bounds are assumptions on `Scheduler`'s constants.
- **Daily report**: read-only, signs nothing, keeps nothing.
- **Telegram client**: one call; whether it arrives is part of `Scheduler` and
  `OracleRuns`.
- **RPC access** (`base.py`): a failover shows in `TxSend` as a node that has
  forgotten payloads. An endpoint that lags in the nonce it reports is not
  modelled. `get_block_before_timestamp` is a pure search over timestamps.
- **`operator_script.py`**: prints recommended calls, sends nothing.
- **Entry points without the lock** (`cli.py --no-lock`, `operator_bot.py` run as a
  program): two processes signing at once is what the lock excludes, and what a
  second signer does to a send is `TxSend!Foreign`.
