------------------------------ MODULE Rebalance ------------------------------
(***************************************************************************)
(* One pass of src/src/web3_scripts/operator_bot.py over a deployment: the *)
(* validation behind the chain, the readings at the latest blocks, the     *)
(* transactions one after another, the wait for the message and the        *)
(* closing deposit.  The world moves between any two of these, and the     *)
(* pass may break off at any of them: a transaction that fails or a        *)
(* process that is killed leaves the assets where they are, and the next   *)
(* pass starts from there.                                                 *)
(***************************************************************************)
EXTENDS VaultChains

CONSTANTS
  D3,                   \* the scale of a ratio, 1000
  source_ratio_d3,      \* what a deficit is filled up to
  max_source_ratio_d3,  \* what counts as a surplus
  LAYER_ZERO_DUST,
  Forced,               \* values of force_withdrawal
  MaxFaults,            \* bound: passes and jobs that break off, and
                        \* redemptions that ripen inside a pass
  None

ASSUME RebalanceAssumption ==
  /\ {D3, LAYER_ZERO_DUST} \subseteq Nat \ {0}
  /\ {source_ratio_d3, max_source_ratio_d3, MaxFaults} \subseteq Nat
  /\ Forced \subseteq BOOLEAN

VARIABLES
  pc,      \* where the process is, see Places
  force,   \* force_withdrawal, from the environment of the process
  view,    \* what the pass has read of the source chain
  plan,    \* the result of getAmounts, emptied as it is carried out
  deficit, \* assets_deficit, for what came of it
  faults,
  \* History variables, which no guard of the program reads.
  pushed,  \* what this pass has pushed to the source chain
  ripened  \* a redemption ripened between the readings of getAmounts

pass == <<view, plan, deficit, pushed, ripened>>

NoPlan == [push |-> 0, claim |-> FALSE, redeem |-> 0, deposit |-> 0]

PassPlaces == {"reading_source", "reading_target", "asking", "pulling",
               "surplus", "waiting", "closing", "depositing"}

---------------------------------------------------------------------------
(* The arithmetic of a pass.                                               *)

\* The queued shares in assets.
withdrawal_demand(total, shares, supply) == (total * shares) \div supply

current_ratio_d3(held, total, demand) ==
  (D3 * (held - demand)) \div (total - demand)

RoundedUp(x) == (x \div LAYER_ZERO_DUST + 1) * LAYER_ZERO_DUST

\* What has to come from the target chain to fill the source up to its ratio.
assets_deficit(held, total, demand) ==
  RoundedUp(((source_ratio_d3 - current_ratio_d3(held, total, demand))
               * (total - demand)) \div D3)

---------------------------------------------------------------------------
\* The pass ends, completed or with a reason; nothing of it is kept.
Over ==
  /\ pc' = "idle"
  /\ view' = None
  /\ plan' = NoPlan
  /\ deficit' = 0
  /\ pushed' = 0
  /\ ripened' = FALSE

\* A pass whose validation says no returns a reason and does nothing: it is no
\* step here.  The verdict is about blocks in the past.
StartPass ==
  /\ pc = "idle"
  /\ behind
  /\ pc' = "reading_source"
  /\ UNCHANGED <<chains, view, plan, deficit, pushed, ripened, faults>>

\* The reads at source_block.
ReadSource ==
  /\ pc = "reading_source"
  /\ view' = [held     |-> source.held,
              received |-> source.received,
              sent     |-> source.sent,
              demand   |-> queue.demand,
              supply   |-> source.supply]
  /\ pc' = "reading_target"
  /\ UNCHANGED <<chains, plan, deficit, pushed, ripened, faults>>

\* What the ratio calls for; force_withdrawal comes before any ratio.
PullBelowTarget(ratio) ==
  CASE force                                      -> "pull_all"
    [] ~force /\ ratio < source_ratio_d3          -> "pull"
    [] ~force /\ ratio > max_source_ratio_d3      -> "push"
    [] OTHER                                      -> "none"

Decision(ratio) ==
  CASE force                                    -> "pull_all"
    [] ~force /\ ratio < 0                      -> "pull"
    [] ~force /\ ratio > max_source_ratio_d3    -> "push"
    [] OTHER                                    -> "none"

\* The reads at target_block, and the decision.
ReadTarget ==
  /\ pc = "reading_target"
  /\ LET total    == view.held + getTargetValue(target)
         demand   == withdrawal_demand(total, view.demand, view.supply)
         decision == Decision(current_ratio_d3(view.held, total, demand))
     IN  \/ /\ ~Settled(view, target) \/ total <= demand
            /\ Over
         \/ /\ Settled(view, target) /\ total > demand
            /\ \/ /\ decision = "pull_all"
                  /\ deficit' = RoundedUp(getTargetValue(target))
                  /\ pc' = "asking"
               \/ /\ decision = "pull"
                  /\ deficit' = assets_deficit(view.held, total, demand)
                  /\ pc' = "asking"
               \/ /\ decision = "push"
                  /\ pc' = "surplus"
                  /\ UNCHANGED deficit
               \/ /\ decision = "none"
                  /\ pc' = "closing"
                  /\ UNCHANGED deficit
            /\ view' = None
            /\ UNCHANGED <<plan, pushed, ripened>>
  /\ UNCHANGED <<chains, faults>>

AskAmounts ==
  /\ pc = "asking"
  /\ plan' = getAmounts(deficit)
  /\ pc' = "pulling"
  /\ UNCHANGED <<chains, view, deficit, pushed, ripened, faults>>

---------------------------------------------------------------------------
(* The transactions.  Each waits for its receipt before the next.          *)

RedeemDone == plan.redeem = 0

\* A mistake: the push does not wait for the claim it counts on.
ClaimAfterPush == RedeemDone

ClaimDone == RedeemDone /\ ~plan.claim

Redeem ==
  /\ pc = "pulling"
  /\ plan.redeem > 0
  /\ target' = [target EXCEPT !.staked = @ - plan.redeem,
                              !.pending = @ + plan.redeem]
  /\ plan' = [plan EXCEPT !.redeem = 0]
  /\ UNCHANGED <<source, wire, queue, rewards, router, in_line, behind, now,
                 moves, pc, view, deficit, pushed, ripened, faults>>

\* Also the claim before the closing deposit.
Claim ==
  /\ pc \in {"pulling", "depositing"}
  /\ RedeemDone
  /\ plan.claim
  /\ target' = [target EXCEPT !.idle = @ + target.claimable, !.claimable = 0]
  /\ plan' = [plan EXCEPT !.claim = FALSE]
  /\ UNCHANGED <<source, wire, queue, rewards, router, in_line, behind, now,
                 moves, pc, view, deficit, pushed, ripened, faults>>

PushToSource ==
  /\ pc = "pulling"
  /\ ClaimDone
  /\ plan.push > 0
  /\ target' = [target EXCEPT !.idle = @ - plan.push, !.sent = NextNonce(@)]
  /\ wire' = [wire EXCEPT !.to_source = Append(@, plan.push)]
  /\ plan' = [plan EXCEPT !.push = 0]
  /\ pushed' = plan.push
  /\ pc' = "waiting"
  /\ UNCHANGED <<source, queue, rewards, router, in_line, behind, now, moves,
                 view, deficit, ripened, faults>>

\* The SourceCore decides how much of what the queue does not claim it pushes.
PushToTarget ==
  /\ pc = "surplus"
  /\ LET demand == withdrawal_demand(Total, queue.demand, source.supply)
         surplus == source.held - demand
     IN  \/ /\ surplus > 0
            /\ source' = [source EXCEPT !.held = @ - surplus, !.sent = NextNonce(@)]
            /\ wire' = [wire EXCEPT !.to_target = Append(@, surplus)]
            /\ pc' = "waiting"
            /\ UNCHANGED <<target, queue, rewards, router, in_line, behind, now,
                           moves, pass>>
         \/ /\ surplus <= 0
            /\ Over
            /\ UNCHANGED chains
  /\ UNCHANGED faults

\* wait_for_layer_zero_finalization: polls until the nonces agree, or gives up.
Finalized ==
  /\ pc = "waiting"
  /\ Settled(source, target)
  /\ pc' = "closing"
  /\ UNCHANGED <<chains, pass, faults>>

TimesOut ==
  /\ pc = "waiting"
  /\ ~Settled(source, target)
  /\ Over
  /\ UNCHANGED <<chains, faults>>

\* A mistake: a push that fails is let pass, and the pass goes on.
PushLetPass ==
  /\ pc = "pulling"
  /\ ClaimDone
  /\ pc' = "closing"
  /\ UNCHANGED <<chains, pass, faults>>

\* Nothing to push: on to the end of the pass.
NothingToPush ==
  /\ pc = "pulling"
  /\ ClaimDone
  /\ plan.push = 0
  /\ pc' = "closing"
  /\ UNCHANGED <<chains, pass, faults>>

AskClosing ==
  /\ pc = "closing"
  /\ plan' = getAmounts(0)
  /\ pc' = "depositing"
  /\ UNCHANGED <<chains, view, deficit, pushed, ripened, faults>>

DepositIdle ==
  /\ pc = "depositing"
  /\ ~plan.claim
  /\ plan.deposit >= LAYER_ZERO_DUST
  /\ target' = [target EXCEPT !.idle = @ - plan.deposit,
                              !.staked = @ + plan.deposit]
  /\ Over
  /\ UNCHANGED <<source, wire, queue, rewards, router, in_line, behind, now,
                 moves, faults>>

NothingToDeposit ==
  /\ pc = "depositing"
  /\ ~plan.claim
  /\ plan.deposit < LAYER_ZERO_DUST
  /\ Over
  /\ UNCHANGED <<chains, faults>>

\* What makes a pass go on once it has begun.
PassStep ==
  \/ ReadSource \/ ReadTarget \/ AskAmounts
  \/ Redeem \/ Claim \/ PushToSource \/ PushToTarget
  \/ Finalized \/ NothingToPush \/ AskClosing
  \/ DepositIdle \/ NothingToDeposit

\* A redemption takes days and a pass minutes: ripening between the pass's two
\* readings is a fault.
RipenNow ==
  /\ Ripen
  /\ \/ /\ pc \notin {"pulling", "waiting", "closing"}
        /\ UNCHANGED <<ripened, faults>>
     \/ /\ pc \in {"pulling", "waiting", "closing"}
        /\ faults < MaxFaults
        /\ faults' = faults + 1
        /\ ripened' = TRUE
  /\ UNCHANGED <<pc, view, plan, deficit, pushed>>

PassInit ==
  /\ pc = "idle"
  /\ force \in Forced
  /\ view = None
  /\ plan = NoPlan
  /\ deficit = 0
  /\ pushed = 0
  /\ ripened = FALSE
  /\ faults = 0
=============================================================================
