----------------------------- MODULE VaultChains -----------------------------
(***************************************************************************)
(* What the upkeep jobs of src/src/web3_scripts act on: one vault's assets *)
(* on two chains, the messages between them, the withdrawal queue on the   *)
(* source chain and the rewards on their way into the vault.  All of it is *)
(* external, and modelled by what the jobs rely on.                        *)
(*                                                                         *)
(* The vault keeps part of its assets in the SourceCore (held), the rest   *)
(* on the target chain: staked in the vault there, queued to leave it      *)
(* (pending), ready to be claimed, or idle in the TargetCore.  A transfer  *)
(* is a message: its sender counts it when it leaves, its receiver when it *)
(* arrives, some time later.                                               *)
(***************************************************************************)
EXTENDS Integers, Sequences

CONSTANTS
  Holdings,         \* what the SourceCore may hold at first
  Stakes,           \* what may be staked at first
  Amounts,          \* amounts deposited, earned or asked to withdraw
  Rewarders,        \* the number of rewarders of ascend
  MaxMoves,         \* bound: deposits, withdrawal requests and rewards
  MaxTime,          \* bound: epochs that begin
  LastNonce         \* bound: nonces wrap around, only their equality matters

ASSUME ChainsAssumption ==
  /\ LastNonce \in Nat \ {0}
  /\ {Holdings, Stakes, Amounts} \subseteq SUBSET Nat
  /\ {Rewarders, MaxMoves, MaxTime} \subseteq Nat

VARIABLES
  source,   \* W0G held, share supply, nonces of the two directions
  target,   \* the position's parts, nonces of the two directions
  wire,     \* amounts under way, oldest first
  queue,    \* the WithdrawalQueue
  rewards,  \* rewards[r]: what rewarder r would pay out now
  router,   \* the balance of the AscendRouter
  in_line,  \* the oracle agrees with the computed value
  behind,   \* what a validation says of blocks in the past
  now,      \* time, in epochs
  moves

chains == <<source, target, wire, queue, rewards, router, in_line, behind, now,
            moves>>

Epochs == 0 .. MaxTime

---------------------------------------------------------------------------
Sum(s) == LET f[i \in 0 .. Len(s)] == IF i = 0 THEN 0 ELSE f[i - 1] + s[i]
          IN  f[Len(s)]

getTargetValue(t) == t.idle + t.claimable + t.pending + t.staked

Total == source.held + getTargetValue(target)
           + Sum(wire.to_target) + Sum(wire.to_source)

\* getNonces of the two helpers agree: nothing is under way.  (A mistake: one
\* direction looked at.)
SettledOneWay(s, t) == s.received = t.sent

Settled(s, t) == s.received = t.sent /\ s.sent = t.received

\* currentEpoch and the time at which an epoch may be handled.
currentEpoch == now
maturity(e) == e + 1 + queue.delay

\* What an epoch pays, at the value the oracle is kept at.
Payout(e) == (Total * queue.shares[e]) \div source.supply

\* handleEpoch does nothing before the epoch is mature, and advances over it
\* when it is funded.
Mature == queue.iterator < currentEpoch /\ maturity(queue.iterator) <= now

CanAdvance ==
  /\ Mature
  /\ Payout(queue.iterator) <= source.held

Advance ==
  LET e == queue.iterator
  IN  /\ queue' = [queue EXCEPT !.iterator = @ + 1,
                                !.demand = @ - queue.shares[e]]
      /\ source' = [source EXCEPT !.held = @ - Payout(e),
                                  !.supply = @ - queue.shares[e]]

NextNonce(n) == IF n = LastNonce THEN 0 ELSE n + 1

---------------------------------------------------------------------------
\* getAmounts: what can be pushed and what has to be redeemed to meet a demand
\* on the source chain, whether there is something to claim, and what is left
\* to be deposited.  The push and the deposit count on the claim.
Least(a, b) == IF a < b THEN a ELSE b

getAmounts(demand) ==
  LET ready   == target.idle + target.claimable
      push    == Least(demand, ready)
      missing == demand - push - target.pending
  IN  [push    |-> push,
       claim   |-> target.claimable > 0,
       redeem  |-> IF missing > 0 THEN Least(missing, target.staked) ELSE 0,
       deposit |-> ready - push]

---------------------------------------------------------------------------
(* The world.                                                              *)

\* A message arrives.
ArriveAtTarget ==
  /\ wire.to_target # << >>
  /\ target' = [target EXCEPT !.idle = @ + Head(wire.to_target),
                              !.received = NextNonce(@)]
  /\ wire' = [wire EXCEPT !.to_target = Tail(@)]
  /\ UNCHANGED <<source, queue, rewards, router, in_line, behind, now, moves>>

ArriveAtSource ==
  /\ wire.to_source # << >>
  /\ source' = [source EXCEPT !.held = @ + Head(wire.to_source),
                              !.received = NextNonce(@)]
  /\ wire' = [wire EXCEPT !.to_source = Tail(@)]
  /\ UNCHANGED <<target, queue, rewards, router, in_line, behind, now, moves>>

\* A redemption leaves the target vault's queue.
Ripen ==
  /\ target.pending > 0
  /\ target' = [target EXCEPT !.claimable = @ + target.pending, !.pending = 0]
  /\ UNCHANGED <<source, wire, queue, rewards, router, in_line, behind, now,
                 moves>>

\* Users deposit, and ask for a part of the shares back.
Deposit ==
  \E a \in Amounts :
    LET minted == (a * source.supply) \div Total
    IN  /\ minted > 0
        /\ source' = [source EXCEPT !.held = @ + a, !.supply = @ + minted]
        /\ UNCHANGED <<target, wire, queue, rewards, router>>

RequestWithdrawal ==
  \E shares \in Amounts :
    /\ currentEpoch < MaxTime
    /\ queue.demand + shares < source.supply
    /\ queue' = [queue EXCEPT !.shares[currentEpoch] = @ + shares,
                              !.demand = @ + shares]
    /\ UNCHANGED <<source, target, wire, rewards, router>>

Earn ==
  \E r \in 1 .. Rewarders, a \in Amounts :
    /\ rewards' = [rewards EXCEPT ![r] = @ + a]
    /\ UNCHANGED <<source, target, wire, queue, router>>

\* Governance moves the withdrawal delay.
SetDelay ==
  /\ queue' = [queue EXCEPT !.delay = 1 - @]
  /\ UNCHANGED <<source, target, wire, rewards, router>>

\* A user's own call advances the queue first.
UserAdvances ==
  /\ CanAdvance
  /\ Advance
  /\ UNCHANGED <<target, wire, rewards, router>>

Move ==
  /\ moves < MaxMoves
  /\ moves' = moves + 1
  /\ Deposit \/ RequestWithdrawal \/ Earn \/ SetDelay \/ UserAdvances
  /\ UNCHANGED <<in_line, behind, now>>

Tick ==
  /\ now < MaxTime
  /\ now' = now + 1
  /\ UNCHANGED <<source, target, wire, queue, rewards, router, in_line, behind,
                 moves>>

\* The oracle job brings the oracle in line (OracleValue).
OracleWritten ==
  /\ ~in_line
  /\ in_line' = TRUE
  /\ UNCHANGED <<source, target, wire, queue, rewards, router, behind, now,
                 moves>>

\* The blocks a validation reads at catch up with the latest ones.
Lag ==
  /\ behind' = (Settled(source, target) /\ in_line)
  /\ UNCHANGED <<source, target, wire, queue, rewards, router, in_line, now,
                 moves>>

Environment ==
  ArriveAtTarget \/ ArriveAtSource \/ Move \/ Tick \/ OracleWritten \/ Lag

ChainsInit ==
  /\ \E h \in Holdings, s \in Stakes :
       /\ h + s > 0
       /\ source = [held |-> h, supply |-> h + s, received |-> 0, sent |-> 0]
       /\ target = [idle |-> 0, claimable |-> 0, pending |-> 0, staked |-> s,
                    received |-> 0, sent |-> 0]
  /\ wire = [to_target |-> << >>, to_source |-> << >>]
  /\ queue = [iterator |-> 0, shares |-> [e \in Epochs |-> 0], demand |-> 0,
              delay |-> 1]
  /\ rewards = [r \in 1 .. Rewarders |-> 0]
  /\ router = 0
  /\ in_line = TRUE
  /\ behind = TRUE
  /\ now = 0
  /\ moves = 0
=============================================================================
