----------------------------- MODULE OracleValue -----------------------------
(***************************************************************************)
(* The oracle updates of src/src/web3_scripts/oracle_update.py for one     *)
(* deployment: the heartbeat (update_oracle) and the resync                *)
(* (resync_oracle), from the reading of oracle_script.py to the            *)
(* transaction, against two chains that move between any two steps.        *)
(*                                                                         *)
(* A run reads each chain at a block in the past.  In the model the run    *)
(* pins the state of a chain when that block is the latest, and the chains *)
(* move on before the run decides: the lag of the reads is the time        *)
(* between the pins and the decision.  Both pins may fall before, between  *)
(* or after the two ends of a cross-chain transfer.                        *)
(*                                                                         *)
(* The contracts are external and modelled by what the code relies on.     *)
(* Tokens moved to the other chain stay locked on the source chain, so the *)
(* totals ever pushed and pulled, per message, say what is where.          *)
(***************************************************************************)
EXTENDS Integers

CONSTANTS
  ONE,                 \* the unit of a price, 10**18
  BPS_DENOMINATOR,
  max_deviation_bps,   \* config.oracle_update: the deviation guard
  decrease_tolerance,  \* config.oracle_update: decrease_tolerance_wei
  VALUE_TOLERANCE,     \* ORACLE_VALUE_TOLERANCE
  Holdings,            \* what the SourceCore may hold at first
  Shares,              \* the supply at first
  Prices,              \* values the oracle may have at first or the Safe set
  Amounts,             \* amounts deposited, rewarded, pushed or pulled
  WrongTotals,         \* what a broken helper may report as the assets
  MaxAssets,           \* bound: no deposit or reward beyond this
  MaxGains,            \* bound: gains on the target chain together
  MaxMessages,         \* bound: transfers in each direction
  MaxSafeWrites,       \* bound: values set by the Safe
  MaxFaults,           \* bound: runs that break off and wrong totals
  None                 \* no state pinned

ASSUME OracleAssumption ==
  /\ {ONE, BPS_DENOMINATOR} \subseteq Nat \ {0}
  /\ {max_deviation_bps, decrease_tolerance, VALUE_TOLERANCE} \subseteq Nat
  /\ {MaxAssets, MaxGains, MaxMessages, MaxSafeWrites, MaxFaults} \subseteq Nat
  /\ Holdings \subseteq Nat
  /\ {Shares, Prices, Amounts} \subseteq SUBSET (Nat \ {0})
  /\ WrongTotals \subseteq Nat

VARIABLES
  source,  \* the source chain: W0G held, supply, oracle value, nonces
  target,  \* the target chain: nonces, gains and losses of the position
  pushed,  \* pushed[n]: the total of the first n transfers to the target
  pulled,  \* pulled[n]: the total of the first n transfers back
  pc,           \* where the run is, see Places
  kind,         \* heartbeat or resync
  force,        \* cli.py oracle --force
  pin_source,   \* the source chain at source_block
  pin_target,   \* the target chain at target_block
  old_value,    \* validation.oracle_value
  new_value,    \* validation.actual_value
  value,        \* what is sent
  attempt,      \* first send, or the retry of send_within_band
  outcome,      \* what the last run did
  faults,
  \* History variables, which no guard of the program reads.
  writer,       \* who wrote the oracle last
  safe_writes,  \* how often the Safe did
  disturbed,    \* the Safe wrote after the run's source block
  misread       \* the last validation got a wrong total

chains == <<source, target, pushed, pulled>>
run == <<pc, kind, force, pin_source, pin_target, old_value, new_value, value,
         attempt, outcome>>
history == <<writer, safe_writes, disturbed, misread>>
vars == <<chains, run, faults, history>>

Places == {"idle", "reading", "estimating", "flying"}
Kinds == {"heartbeat", "resync"}
Outcomes == {"none", "written", "in_line", "waiting", "refused", "failed"}

---------------------------------------------------------------------------
(* The value of a share, as the helpers and the contract compute it.       *)

\* secure_value, and the OracleUpdater's maxValue.
ShareValue(total, shares) == (total * ONE) \div shares

\* getSourceValue, and the W0G locked in the OFT adapter.
locked(s) == pushed[s.sent] - pulled[s.received]
Backing(s) == s.held + locked(s)

getTargetValue(t) == pushed[t.received] - pulled[t.sent] + t.gained - t.lost

maxValue == ShareValue(Backing(source), source.supply)

\* A mistake: the nonces of one direction only.
OneDirection(s, t) == s.received # t.sent

TransferInFlight(s, t) == s.sent # t.received \/ s.received # t.sent

PinnedTotal == pin_source.held + getTargetValue(pin_target)

---------------------------------------------------------------------------
(* The arithmetic of the guards.                                           *)

AbsDiff(a, b) == IF a < b THEN b - a ELSE a - b

exceeds_deviation(old, new) ==
  \/ old = 0
  \/ AbsDiff(new, old) * BPS_DENOMINATOR > old * max_deviation_bps

is_decrease(old, new, tolerance) == old - new > tolerance

\* A mistake: a reading above maxValue refused, not cut down.
refused_above(old, new, max, tolerance) ==
  max < old \/ is_decrease(old, new, tolerance) \/ new > max

\* bounded_write: what it refuses, and otherwise the value it sends.
write_refused(old, new, max, tolerance) ==
  max < old \/ is_decrease(old, new, tolerance)

write_value(old, new, max) ==
  LET floored == IF new < old THEN old ELSE new
  IN  IF floored < max THEN floored ELSE max

tolerance_of(k) ==
  IF k = "heartbeat" THEN decrease_tolerance ELSE VALUE_TOLERANCE

\* update_oracle's refusal.  Force overrides the deviation guard only.
heartbeat_refuses(old, new, max, forced) ==
  \/ write_refused(old, new, max, decrease_tolerance)
  \/ ~forced /\ exceeds_deviation(old, new)

\* resync_action's noop.
resync_in_line(old, new) == AbsDiff(new, old) <= VALUE_TOLERANCE

\* A mistake: no deviation guard on a resync.
resync_unguarded(old, new, max) ==
  \/ new < old
  \/ write_refused(old, new, max, VALUE_TOLERANCE)
  \/ write_value(old, new, max) - old <= VALUE_TOLERANCE

\* resync_action's refusals, bounded_write's, and a rise nothing backs.
resync_refuses(old, new, max) ==
  \/ new < old
  \/ exceeds_deviation(old, new)
  \/ write_refused(old, new, max, VALUE_TOLERANCE)
  \/ write_value(old, new, max) - old <= VALUE_TOLERANCE

---------------------------------------------------------------------------
(* A run.                                                                  *)

Start ==
  /\ pc = "idle"
  /\ kind' \in Kinds
  /\ force' \in IF kind' = "heartbeat" THEN BOOLEAN ELSE {FALSE}
  /\ pc' = "reading"
  /\ outcome' = "none"
  /\ disturbed' = FALSE
  /\ misread' = FALSE
  /\ UNCHANGED <<chains, pin_source, pin_target, old_value, new_value, value,
                 attempt, faults, writer, safe_writes>>

\* The block of the source chain at the secure timestamp.
PinSource ==
  /\ pc = "reading" /\ pin_source = None
  /\ pin_source' = source
  /\ disturbed' = FALSE
  /\ UNCHANGED <<chains, pc, kind, force, pin_target, old_value, new_value,
                 value, attempt, outcome, faults, writer, safe_writes, misread>>

\* The block of the target chain at the secure timestamp.
PinTarget ==
  /\ pc = "reading" /\ pin_target = None
  /\ pin_target' = target
  /\ UNCHANGED <<chains, pc, kind, force, pin_source, old_value, new_value,
                 value, attempt, outcome, faults, history>>

\* A mistake: the blocks that were read are kept for the next run.
ReturnWithPins(result) ==
  /\ pc' = "idle"
  /\ outcome' = result
  /\ UNCHANGED <<pin_source, pin_target>>
  /\ old_value' = 0 /\ new_value' = 0 /\ value' = 0 /\ attempt' = 0
  /\ kind' = "heartbeat" /\ force' = FALSE

\* The end of a run: nothing of it is kept but the outcome.
Return(result) ==
  /\ pc' = "idle"
  /\ outcome' = result
  /\ pin_source' = None /\ pin_target' = None
  /\ old_value' = 0 /\ new_value' = 0 /\ value' = 0 /\ attempt' = 0
  /\ kind' = "heartbeat" /\ force' = FALSE

\* A mistake: the movement is kept in place of the reading.
SendMovement(old, new, sent) ==
  /\ pc' = "estimating"
  /\ old_value' = old /\ new_value' = new - old /\ value' = sent
  /\ attempt' = 1
  /\ UNCHANGED <<kind, force, pin_source, pin_target, outcome>>

Send(old, new, sent) ==
  /\ pc' = "estimating"
  /\ old_value' = old /\ new_value' = new /\ value' = sent /\ attempt' = 1
  /\ UNCHANGED <<kind, force, pin_source, pin_target, outcome>>

DecideHeartbeat(old, new) ==
  IF heartbeat_refuses(old, new, maxValue, force)
  THEN Return("refused")
  ELSE Send(old, new, write_value(old, new, maxValue))

DecideResync(old, new) ==
  IF resync_in_line(old, new) THEN Return("in_line")
  ELSE IF resync_refuses(old, new, maxValue)
  THEN Return("refused")
  ELSE Send(old, new, write_value(old, new, maxValue))

\* The validation's result and, at the latest block, maxValue.  A helper that
\* is broken reports some other total.
Decide ==
  /\ pc = "reading" /\ pin_source # None /\ pin_target # None
  /\ \E total \in {PinnedTotal} \cup WrongTotals :
       LET old == pin_source.oracle
           new == ShareValue(total, pin_source.supply)
       IN  /\ misread' = (total # PinnedTotal)
           /\ total # PinnedTotal => faults < MaxFaults
           /\ faults' = IF total # PinnedTotal THEN faults + 1 ELSE faults
           /\ IF TransferInFlight(pin_source, pin_target)
              THEN Return("waiting")
              ELSE \/ kind = "heartbeat" /\ DecideHeartbeat(old, new)
                   \/ kind = "resync" /\ DecideResync(old, new)
  /\ UNCHANGED <<chains, writer, safe_writes, disturbed>>

\* Mistakes: a write that falls back to the oracle itself, and an updater that
\* only looks at the assets.
AnyValue(v) == v > 0
NoFloor(v) == v <= maxValue

\* What the OracleUpdater accepts.
InBand(v) == source.oracle <= v /\ v <= maxValue

EstimateAccepted ==
  /\ pc = "estimating" /\ InBand(value)
  /\ pc' = "flying"
  /\ UNCHANGED <<chains, kind, force, pin_source, pin_target, old_value,
                 new_value, value, attempt, outcome, faults, history>>

RetryRefused ==
  \/ write_refused(old_value, new_value, maxValue, tolerance_of(kind))
  \/ write_value(old_value, new_value, maxValue) >= value

\* The estimate reverts with OracleUpdaterValueAboveNav, which carries the
\* value that holds now; tried once more with that.
EstimateAboveNav ==
  /\ pc = "estimating" /\ attempt = 1 /\ value > maxValue
  /\ ~RetryRefused
  /\ value' = write_value(old_value, new_value, maxValue)
  /\ attempt' = 2
  /\ UNCHANGED <<chains, pc, kind, force, pin_source, pin_target, old_value,
                 new_value, outcome, faults, history>>

\* Any other revert of the estimate is raised.
EstimateFails ==
  /\ pc = "estimating" /\ ~InBand(value)
  /\ value < source.oracle \/ attempt = 2 \/ RetryRefused
  /\ Return("failed")
  /\ UNCHANGED <<chains, faults, history>>

Land ==
  /\ pc = "flying" /\ InBand(value)
  /\ source' = [source EXCEPT !.oracle = value]
  /\ writer' = "bot"
  /\ Return("written")
  /\ UNCHANGED <<target, pushed, pulled, faults, safe_writes, disturbed, misread>>

\* Included when the band has moved: reverted on chain, which is not retried.
LandReverts ==
  /\ pc = "flying" /\ ~InBand(value)
  /\ Return("failed")
  /\ UNCHANGED <<chains, faults, history>>

\* The validation, a read or the send raises for another reason.
Break ==
  /\ pc # "idle" /\ faults < MaxFaults
  /\ faults' = faults + 1
  /\ Return("failed")
  /\ UNCHANGED <<chains, history>>

---------------------------------------------------------------------------
(* What happens on the chains meanwhile.                                   *)

\* A deposit is priced at the oracle.
Deposit(amount) ==
  /\ Backing(source) + amount <= MaxAssets
  /\ source' = [source EXCEPT
       !.held = @ + amount,
       !.supply = @ + ShareValue(amount, source.oracle)]
  /\ UNCHANGED <<target, pushed, pulled, run, faults, history>>

\* A distribution or a donation adds assets and mints nothing.
Reward(amount) ==
  /\ Backing(source) + amount <= MaxAssets
  /\ source' = [source EXCEPT !.held = @ + amount]
  /\ UNCHANGED <<target, pushed, pulled, run, faults, history>>

Totals(totals, n, amount) ==
  [m \in 0 .. n + 1 |-> IF m <= n THEN totals[m] ELSE totals[n] + amount]

PushToTarget(amount) ==
  /\ source.sent < MaxMessages /\ amount <= source.held
  /\ source' = [source EXCEPT !.held = @ - amount, !.sent = @ + 1]
  /\ pushed' = Totals(pushed, source.sent, amount)
  /\ UNCHANGED <<target, pulled, run, faults, history>>

DeliverAtTarget ==
  /\ target.received < source.sent
  /\ target' = [target EXCEPT !.received = @ + 1]
  /\ UNCHANGED <<source, pushed, pulled, run, faults, history>>

PushToSource(amount) ==
  /\ target.sent < MaxMessages
  /\ amount <= getTargetValue(target) - target.gained
  /\ target' = [target EXCEPT !.sent = @ + 1]
  /\ pulled' = Totals(pulled, target.sent, amount)
  /\ UNCHANGED <<source, pushed, run, faults, history>>

DeliverAtSource ==
  /\ source.received < target.sent
  /\ source' = [source EXCEPT
       !.held = @ + pulled[source.received + 1] - pulled[source.received],
       !.received = @ + 1]
  /\ UNCHANGED <<target, pushed, pulled, run, faults, history>>

\* The position on the target chain gains or loses value.
Gain(amount) ==
  /\ target.gained + amount <= MaxGains
  /\ target' = [target EXCEPT !.gained = @ + amount]
  /\ UNCHANGED <<source, pushed, pulled, run, faults, history>>

Lose(amount) ==
  /\ amount <= getTargetValue(target)
  /\ target' = [target EXCEPT !.lost = @ + amount]
  /\ UNCHANGED <<source, pushed, pulled, run, faults, history>>

\* The Safe holds the role on the oracle itself and may set any value.
SafeSets(v) ==
  /\ safe_writes < MaxSafeWrites
  /\ source' = [source EXCEPT !.oracle = v]
  /\ writer' = "safe"
  /\ safe_writes' = safe_writes + 1
  /\ disturbed' = TRUE
  /\ UNCHANGED <<target, pushed, pulled, run, faults, misread>>

---------------------------------------------------------------------------
Init ==
  /\ source \in [held : Holdings, supply : Shares, oracle : Prices,
                 sent : {0}, received : {0}]
  /\ source.oracle <= ShareValue(source.held, source.supply)
  /\ target = [sent |-> 0, received |-> 0, gained |-> 0, lost |-> 0]
  /\ pushed = [n \in 0 .. 0 |-> 0]
  /\ pulled = [n \in 0 .. 0 |-> 0]
  /\ pc = "idle" /\ kind = "heartbeat" /\ force = FALSE /\ outcome = "none"
  /\ pin_source = None /\ pin_target = None
  /\ old_value = 0 /\ new_value = 0 /\ value = 0 /\ attempt = 0
  /\ faults = 0
  /\ writer = "safe" /\ safe_writes = 0
  /\ disturbed = FALSE /\ misread = FALSE

\* The program's own steps.
Run ==
  \/ Start \/ PinSource \/ PinTarget \/ Decide
  \/ EstimateAccepted \/ EstimateAboveNav \/ EstimateFails
  \/ Land \/ LandReverts

Chain ==
  \/ \E amount \in Amounts :
       \/ Deposit(amount) \/ Reward(amount)
       \/ PushToTarget(amount) \/ PushToSource(amount)
       \/ Gain(amount) \/ Lose(amount)
  \/ DeliverAtTarget \/ DeliverAtSource
  \/ \E v \in Prices : SafeSets(v)

Next == Run \/ Break \/ Chain

Spec == Init /\ [][Next]_vars
FairSpec == Spec /\ WF_vars(Run)

---------------------------------------------------------------------------
(* Properties.                                                             *)

SourceStates ==
  [held : Nat, supply : Nat \ {0}, oracle : Nat \ {0}, sent : Nat,
   received : Nat]
TargetStates == [sent : Nat, received : Nat, gained : Nat, lost : Nat]

\* Type correctness; no chain has received what the other has not sent.
TypeOK ==
  /\ source \in SourceStates /\ target \in TargetStates
  /\ target.received <= source.sent /\ source.received <= target.sent
  /\ pushed \in [0 .. source.sent -> Nat]
  /\ pulled \in [0 .. target.sent -> Nat]
  /\ pc \in Places /\ kind \in Kinds /\ outcome \in Outcomes
  /\ pin_source \in SourceStates \cup {None}
  /\ pin_target \in TargetStates \cup {None}
  /\ old_value \in Nat /\ new_value \in Nat /\ value \in Nat
  /\ attempt \in 0 .. 2 /\ faults \in Nat /\ safe_writes \in Nat
  /\ writer \in {"bot", "safe"}
  /\ {force, disturbed, misread} \subseteq BOOLEAN

\* A price the bot wrote is backed, then and as long as it stands: no deposit
\* at the old price, no transfer and no reward puts it above what a share is
\* worth on the source chain (README.md: "the oracle can no longer end up above
\* the vault's value this way").  force does not change that.
PriceBacked == writer = "bot" => source.oracle <= maxValue

\* The two chains are read at different moments, and still every transfer is
\* counted once: a reading that passes the comparison of nonces is what the
\* source block alone backed, with the target's gains and losses.
ReadingComplete ==
  pc \in {"estimating", "flying"} /\ ~misread =>
    new_value = ShareValue(Backing(pin_source) + pin_target.gained
                           - pin_target.lost, pin_source.supply)

BotWrites == pc = "flying" /\ pc' = "idle" /\ outcome' = "written"

\* However wrong the reading, however late the send and whatever the retry was
\* told: unless forced, a write moves the oracle within the deviation guard,
\* provided the Safe did not write since the block that was read.
WritesWithinGuard ==
  [][BotWrites /\ ~force /\ ~disturbed =>
       ~exceeds_deviation(source.oracle, source'.oracle)]_vars

\* A heartbeat that refuses has a reason: deposits, rewards and transfers in
\* any order never look like a fall or like a price above the assets, so that
\* without a loss, a broken helper or the Safe only a rise past the deviation
\* guard is refused.
AlarmsAreReal ==
  [][/\ kind = "heartbeat" /\ pc = "reading"
     /\ pc' = "idle" /\ outcome' = "refused"
     /\ ~misread' /\ safe_writes = 0 /\ pin_target.lost = 0
     => exceeds_deviation(pin_source.oracle,
          ShareValue(PinnedTotal, pin_source.supply))]_vars

Reading ==
  ShareValue(source.held + getTargetValue(target), source.supply)

\* What a heartbeat would write now, and would not refuse.
Correctable ==
  /\ ~TransferInFlight(source, target)
  /\ ~heartbeat_refuses(source.oracle, Reading, maxValue, FALSE)

InLine ==
  AbsDiff(source.oracle, write_value(source.oracle, Reading, maxValue))
    <= VALUE_TOLERANCE

\* When no transfer is under way and no guard stands against it for good, the
\* oracle comes to the vault's value, and stays there.
PriceCatchesUp == <>[]Correctable => <>[]InLine

Promise == INSTANCE SharePrice WITH
  assets <- Backing(source), supply <- source.supply,
  price <- source.oracle, writer <- writer

\* Seen from the source chain, all of this is SharePrice.
ImplementsSharePrice == Promise!Spec
=============================================================================
