-------------------------- MODULE UpkeepAmountsProofs --------------------------
(***************************************************************************)
(* The amounts of Upkeep, for all holdings, stakes, ratios and bounds: no  *)
(* step spends what is not there, the vault never runs empty, what was     *)
(* freed for a deficit is not put back before the deficit is met, a pass   *)
(* loses nothing, and the assets behind a share never fall.                *)
(***************************************************************************)
EXTENDS UpkeepProofs

---------------------------------------------------------------------------
(* Arithmetic.                                                             *)

\* A part of the shares is worth less than the whole.
LEMMA PayoutBelow ==
  ASSUME NEW a \in Nat \ {0}, NEW s \in Nat, NEW p \in Nat \ {0}, s < p
  PROVE  (a * s) \div p \in Nat /\ (a * s) \div p < a
<1> DEFINE q == (a * s) \div p
<1>1. a * s \in Nat /\ q \in Nat /\ p * q <= a * s
  OBVIOUS
<1> HIDE DEF q
<1>2. (p - s) * a \in Nat \ {0} /\ (p - s) * a = p * a - a * s
  OBVIOUS
<1>3. ASSUME a <= q PROVE FALSE
  <2>1. (q - a) * p \in Nat /\ (q - a) * p = p * q - p * a
    BY <1>1, <1>3
  <2> QED BY <1>1, <1>2, <2>1
<1> QED BY <1>1, <1>3 DEF q

LEMMA Rounded == ASSUME NEW x \in Nat PROVE RoundedUp(x) \in Nat \ {0}
<1>1. LAYER_ZERO_DUST \in Nat \ {0}
  BY RebalanceAssumption
<1>2. x \div LAYER_ZERO_DUST + 1 \in Nat \ {0}
  BY <1>1
<1>3. \A m, n \in Nat \ {0} : m * n \in Nat \ {0}
  OBVIOUS
<1> QED BY <1>1, <1>2, <1>3 DEF RoundedUp

\* A vault below its ratio has a deficit.
LEMMA DeficitType ==
  ASSUME NEW held \in Nat, NEW total \in Nat, NEW demand \in Nat, demand < total,
         current_ratio_d3(held, total, demand) < 0
  PROVE  assets_deficit(held, total, demand) \in Nat \ {0}
<1> DEFINE r == current_ratio_d3(held, total, demand)
           d == total - demand
<1>1. d \in Nat \ {0} /\ r \in Int
  <2>1. d \in Nat \ {0} /\ D3 \in Nat \ {0}
    BY RebalanceAssumption
  <2>2. D3 * (held - demand) \in Int
    BY <2>1
  <2> QED BY <2>1, <2>2 DEF current_ratio_d3
<1>2. r < 0
  OBVIOUS
<1> HIDE DEF r, d
<1>3. source_ratio_d3 \in Nat /\ D3 \in Nat \ {0}
  BY RebalanceAssumption
<1>4. source_ratio_d3 - r \in Nat
  BY <1>1, <1>2, <1>3
<1>5. (source_ratio_d3 - r) * d \in Nat
  BY <1>1, <1>4
<1>6. ((source_ratio_d3 - r) * d) \div D3 \in Nat
  BY <1>3, <1>5
<1> QED BY <1>6, Rounded DEF assets_deficit, r, d

\* What is under way: the sum of nothing, or of one amount.
LEMMA SumEmpty == Sum(<< >>) = 0
<1> DEFINE Eq(f) == f = [i \in 0 .. Len(<< >>) |->
                           IF i = 0 THEN 0 ELSE f[i - 1] + (<< >>)[i]]
           g == [i \in 0 .. 0 |-> 0]
<1>1. Len(<< >>) = 0 /\ 0 .. 0 = {0}
  OBVIOUS
<1>2. Eq(g)
  BY <1>1
<1>3. Eq(CHOOSE f : Eq(f))
  BY <1>2
<1>4. (CHOOSE f : Eq(f))[0] = 0
  BY <1>1, <1>3
<1> QED BY <1>1, <1>4 DEF Sum

LEMMA SumOne == ASSUME NEW x \in Nat PROVE Sum(<<x>>) = x
<1> DEFINE Eq(f) == f = [i \in 0 .. Len(<<x>>) |->
                           IF i = 0 THEN 0 ELSE f[i - 1] + (<<x>>)[i]]
           g == [i \in 0 .. 1 |-> IF i = 0 THEN 0 ELSE x]
<1>1. Len(<<x>>) = 1 /\ 0 .. 1 = {0, 1} /\ (<<x>>)[1] = x
  OBVIOUS
<1>2. Eq(g)
  BY <1>1
<1>3. Eq(CHOOSE f : Eq(f))
  BY <1>2
<1>4. (CHOOSE f : Eq(f))[1] = x
  <2> DEFINE h == CHOOSE f : Eq(f)
  <2>1. Eq(h)
    BY <1>3
  <2> HIDE DEF h
  <2>2. h[0] = 0
    BY <1>1, <2>1
  <2>3. h[1] = h[0] + x
    BY <1>1, <2>1
  <2> QED BY <2>2, <2>3 DEF h
<1> QED BY <1>1, <1>4 DEF Sum

---------------------------------------------------------------------------
(* The invariant.                                                          *)

CarriedBy(w) == Sum(w.to_target) + Sum(w.to_source)

\* The vault's assets, wherever they are.
Worth(s, t, w) == s.held + getTargetValue(t) + CarriedBy(w)

NoWire == [to_target |-> << >>, to_source |-> << >>]
ToTarget(x) == [to_target |-> <<x>>, to_source |-> << >>]
ToSource(x) == [to_target |-> << >>, to_source |-> <<x>>]

SourceSides == [held : Nat, supply : Nat \ {0}, received : 0 .. LastNonce,
                sent : 0 .. LastNonce]
TargetSides == [idle : Nat, claimable : Nat, pending : Nat, staked : Nat,
                received : 0 .. LastNonce, sent : 0 .. LastNonce]
Wires == {NoWire} \cup {ToTarget(x) : x \in Nat} \cup {ToSource(x) : x \in Nat}

\* The vault always holds something, and not all of its shares are queued.
SidesInv ==
  /\ source \in SourceSides
  /\ target \in TargetSides
  /\ wire \in Wires
  /\ Worth(source, target, wire) > 0

\* f[e] are the shares queued from epoch e on.
Backs(f) ==
  /\ queue.demand = f[queue.iterator]
  /\ \A e \in Epochs : f[e] = f[e + 1] + queue.shares[e]

QueueInv ==
  /\ queue \in [iterator : Nat, shares : [Epochs -> Nat], demand : Nat,
                delay : {0, 1}]
  /\ now \in 0 .. MaxTime
  /\ queue.iterator <= now
  /\ queue.demand < source.supply
  /\ \E f \in [0 .. MaxTime + 1 -> Nat] : Backs(f)

\* What is claimed counts as there, while the claim is still to come.
Spendable == target.idle + (IF plan.claim THEN target.claimable ELSE 0)

PlanInv ==
  /\ plan \in [push : Nat, claim : BOOLEAN, redeem : Nat, deposit : Nat]
  /\ pc = "pulling" => plan.push <= Spendable /\ plan.redeem <= target.staked
  /\ pc = "depositing" => plan.deposit <= Spendable

\* What a pass has read of the source chain.
ViewInv ==
  pc = "reading_target" =>
    view.held \in Nat /\ view.demand \in Nat /\ view.supply \in Nat \ {0}

RestInv ==
  /\ pc \in Places
  /\ force \in BOOLEAN
  /\ rewards \in [1 .. Rewarders -> Nat] /\ router \in Nat
  /\ nonce \in 0 .. Rewarders
  /\ deficit \in Nat /\ pushed \in Nat
  /\ in_line \in BOOLEAN /\ behind \in BOOLEAN
  /\ moves \in 0 .. MaxMoves /\ faults \in 0 .. MaxFaults

AmountsInv ==
  SidesInv /\ QueueInv /\ PlanInv /\ ViewInv /\ RestInv /\ TransferInv
    /\ ProgressInv

---------------------------------------------------------------------------
(* Lemmas about what is where.                                             *)

LEMMA Carried ==
  ASSUME NEW x \in Nat
  PROVE  /\ CarriedBy(NoWire) = 0
         /\ CarriedBy(ToTarget(x)) = x
         /\ CarriedBy(ToSource(x)) = x
<1>1. CarriedBy(NoWire) = 0
  BY SumEmpty DEF CarriedBy, NoWire
<1>2. CarriedBy(ToTarget(x)) = x /\ CarriedBy(ToSource(x)) = x
  BY SumEmpty, SumOne DEF CarriedBy, ToTarget, ToSource
<1> QED BY <1>1, <1>2

LEMMA WireType ==
  ASSUME NEW w \in Wires
  PROVE  /\ Sum(w.to_target) \in Nat /\ Sum(w.to_source) \in Nat
         /\ CarriedBy(w) \in Nat
         /\ w \in [to_target : Seq(Nat), to_source : Seq(Nat)]
<1>1. CASE w = NoWire
  BY <1>1, SumEmpty DEF NoWire, CarriedBy
<1>2. ASSUME NEW x \in Nat, w = ToTarget(x)
      PROVE  /\ Sum(w.to_target) \in Nat /\ Sum(w.to_source) \in Nat
             /\ CarriedBy(w) \in Nat
             /\ w \in [to_target : Seq(Nat), to_source : Seq(Nat)]
  BY <1>2, SumEmpty, SumOne DEF ToTarget, CarriedBy
<1>3. ASSUME NEW x \in Nat, w = ToSource(x)
      PROVE  /\ Sum(w.to_target) \in Nat /\ Sum(w.to_source) \in Nat
             /\ CarriedBy(w) \in Nat
             /\ w \in [to_target : Seq(Nat), to_source : Seq(Nat)]
  BY <1>3, SumEmpty, SumOne DEF ToSource, CarriedBy
<1> QED BY <1>1, <1>2, <1>3 DEF Wires

\* The model's total, and its parts.
LEMMA TotalType ==
  ASSUME SidesInv
  PROVE  /\ Total = Worth(source, target, wire)
         /\ Total \in Nat \ {0}
         /\ source.held \in Nat /\ source.supply \in Nat \ {0}
         /\ target.idle \in Nat /\ target.claimable \in Nat
         /\ target.pending \in Nat /\ target.staked \in Nat
         /\ getTargetValue(target) \in Nat
         /\ CarriedBy(wire) \in Nat
<1>1. /\ source.held \in Nat /\ source.supply \in Nat \ {0}
      /\ target.idle \in Nat /\ target.claimable \in Nat
      /\ target.pending \in Nat /\ target.staked \in Nat
  BY DEF SidesInv, SourceSides, TargetSides
<1>2. getTargetValue(target) \in Nat
  BY <1>1 DEF getTargetValue
<1>3. /\ Sum(wire.to_target) \in Nat /\ Sum(wire.to_source) \in Nat
      /\ CarriedBy(wire) \in Nat
  BY WireType DEF SidesInv
<1>4. Total = Worth(source, target, wire)
  BY <1>1, <1>2, <1>3 DEF Total, Worth, CarriedBy
<1>5. Worth(source, target, wire) \in Nat
  BY <1>1, <1>2, <1>3 DEF Worth
<1> QED BY <1>1, <1>2, <1>3, <1>4, <1>5 DEF SidesInv

\* The epoch to be handled pays less than the vault holds.
LEMMA PayoutType ==
  ASSUME SidesInv, QueueInv, Mature
  PROVE  /\ queue.iterator \in Epochs
         /\ queue.shares[queue.iterator] \in Nat
         /\ queue.shares[queue.iterator] <= queue.demand
         /\ queue.demand \in Nat /\ queue.demand < source.supply
         /\ Payout(queue.iterator) \in Nat /\ Payout(queue.iterator) < Total
<1>1. queue.iterator \in Epochs /\ queue.iterator \in Nat /\ MaxTime \in Nat
  BY ChainsAssumption DEF QueueInv, Mature, currentEpoch, Epochs
<1>2. queue.shares[queue.iterator] \in Nat /\ queue.demand \in Nat
  BY <1>1 DEF QueueInv
<1>3. queue.shares[queue.iterator] <= queue.demand
  <2>1. PICK f \in [0 .. MaxTime + 1 -> Nat] : Backs(f)
    BY DEF QueueInv
  <2>2. f[queue.iterator + 1] \in Nat
    BY <1>1, <2>1 DEF Epochs
  <2> QED BY <1>1, <1>2, <2>1, <2>2 DEF Backs
<1>4. queue.demand < source.supply
  BY DEF QueueInv
<1>5. Payout(queue.iterator) \in Nat /\ Payout(queue.iterator) < Total
  <2>1. queue.shares[queue.iterator] < source.supply
    BY <1>2, <1>3, <1>4, TotalType
  <2> QED BY <1>2, <2>1, PayoutBelow, TotalType DEF Payout
<1> QED BY <1>1, <1>2, <1>3, <1>4, <1>5

---------------------------------------------------------------------------
(* The two sides and the wire.                                             *)

\* Assets move within the vault: nothing enters, leaves or is lost.
Moved ==
  /\ source'.supply = source.supply
  /\ Worth(source', target', wire') = Worth(source, target, wire)

LEMMA SidesUnchanged ==
  ASSUME SidesInv, UNCHANGED <<source, target, wire>>
  PROVE  SidesInv' /\ Moved
BY DEF SidesInv, Moved

LEMMA SidesArrive ==
  ASSUME AmountsInv, ArriveAtTarget \/ ArriveAtSource
  PROVE  SidesInv' /\ Moved
<1>1. /\ SidesInv /\ source \in SourceSides /\ target \in TargetSides
      /\ wire \in Wires
  BY DEF AmountsInv, SidesInv
<1>2. CASE ArriveAtTarget
  <2>1. PICK x \in Nat : wire = ToTarget(x)
    BY <1>1, <1>2 DEF ArriveAtTarget, Wires, NoWire, ToSource
  <2>2. wire' = NoWire /\ source' = source
        /\ target' = [target EXCEPT !.idle = @ + x, !.received = NextNonce(@)]
    <3>1. Tail(<<x>>) = << >> /\ Head(<<x>>) = x
      OBVIOUS
    <3> QED BY <1>2, <2>1, <3>1 DEF ArriveAtTarget, ToTarget, NoWire
  <2>3. target' \in TargetSides
    <3>1. /\ target.idle + x \in Nat
          /\ NextNonce(target.received) \in 0 .. LastNonce
      BY <1>1, <2>1, NonceMoves DEF TargetSides
    <3> QED BY <1>1, <2>2, <3>1 DEF TargetSides
  <2>4. getTargetValue(target') = getTargetValue(target) + x
    BY <1>1, <2>1, <2>2 DEF getTargetValue, TargetSides
  <2>5. Worth(source', target', wire') = Worth(source, target, wire)
    BY <1>1, <2>1, <2>2, <2>4, Carried, TotalType DEF Worth
  <2> QED BY <1>1, <2>2, <2>3, <2>5 DEF SidesInv, Wires, Moved
<1>3. CASE ArriveAtSource
  <2>1. PICK x \in Nat : wire = ToSource(x)
    BY <1>1, <1>3 DEF ArriveAtSource, Wires, NoWire, ToTarget
  <2>2. wire' = NoWire /\ target' = target
        /\ source' = [source EXCEPT !.held = @ + x, !.received = NextNonce(@)]
    <3>1. Tail(<<x>>) = << >> /\ Head(<<x>>) = x
      OBVIOUS
    <3> QED BY <1>3, <2>1, <3>1 DEF ArriveAtSource, ToSource, NoWire
  <2>3. /\ source' \in SourceSides
        /\ source'.held = source.held + x /\ source'.supply = source.supply
    <3>1. /\ source.held + x \in Nat
          /\ NextNonce(source.received) \in 0 .. LastNonce
      BY <1>1, <2>1, NonceMoves DEF SourceSides
    <3> QED BY <1>1, <2>2, <3>1 DEF SourceSides
  <2>4. Worth(source', target', wire') = Worth(source, target, wire)
    BY <1>1, <2>1, <2>2, <2>3, Carried, TotalType DEF Worth
  <2> QED BY <1>1, <2>2, <2>3, <2>4 DEF SidesInv, Wires, Moved
<1> QED BY <1>2, <1>3

\* Assets that change their form on the target side.
LEMMA SidesTarget ==
  ASSUME AmountsInv, Ripen \/ Redeem \/ Claim \/ DepositIdle
  PROVE  SidesInv' /\ Moved
<1>1. /\ SidesInv /\ target \in TargetSides
      /\ target.idle \in Nat /\ target.claimable \in Nat
      /\ target.pending \in Nat /\ target.staked \in Nat
      /\ getTargetValue(target) =
           target.idle + target.claimable + target.pending + target.staked
  BY TotalType DEF AmountsInv, SidesInv, getTargetValue
<1>2. source' = source /\ wire' = wire
  BY DEF Ripen, Redeem, Claim, DepositIdle
<1>3. /\ plan.push \in Nat /\ plan.redeem \in Nat /\ plan.deposit \in Nat
      /\ plan.claim \in BOOLEAN
  BY DEF AmountsInv, PlanInv
<1>4. ASSUME target' \in TargetSides,
             getTargetValue(target') = getTargetValue(target)
      PROVE  SidesInv' /\ Moved
  BY <1>1, <1>2, <1>4 DEF SidesInv, Worth, Moved
<1>5. CASE Ripen
  <2>1. target' \in TargetSides
    <3>1. target.claimable + target.pending \in Nat /\ 0 \in Nat
      BY <1>1
    <3>2. target' = [target EXCEPT
             !.claimable = target.claimable + target.pending, !.pending = 0]
      BY <1>1, <1>5 DEF Ripen, TargetSides
    <3> QED BY <1>1, <3>1, <3>2 DEF TargetSides
  <2>2. /\ target'.idle = target.idle /\ target'.staked = target.staked
        /\ target'.claimable = target.claimable + target.pending
        /\ target'.pending = 0
    BY <1>1, <1>5 DEF Ripen, TargetSides
  <2> QED BY <1>1, <1>4, <2>1, <2>2 DEF getTargetValue
<1>6. CASE Redeem
  <2>1. plan.redeem <= target.staked
    BY <1>6 DEF Redeem, AmountsInv, PlanInv
  <2>2. target' \in TargetSides
    <3>1. /\ target.staked - plan.redeem \in Nat
          /\ target.pending + plan.redeem \in Nat
      BY <1>1, <1>3, <2>1
    <3>2. target' = [target EXCEPT !.staked = target.staked - plan.redeem,
                                   !.pending = target.pending + plan.redeem]
      BY <1>1, <1>6 DEF Redeem, TargetSides
    <3> QED BY <1>1, <3>1, <3>2 DEF TargetSides
  <2>3. /\ target'.idle = target.idle /\ target'.claimable = target.claimable
        /\ target'.pending = target.pending + plan.redeem
        /\ target'.staked = target.staked - plan.redeem
    BY <1>1, <1>6 DEF Redeem, TargetSides
  <2> QED BY <1>1, <1>3, <1>4, <2>2, <2>3 DEF getTargetValue
<1>7. CASE Claim
  <2>1. target' \in TargetSides
    <3>1. target.idle + target.claimable \in Nat /\ 0 \in Nat
      BY <1>1
    <3>2. target' = [target EXCEPT !.idle = target.idle + target.claimable,
                                   !.claimable = 0]
      BY <1>1, <1>7 DEF Claim, TargetSides
    <3> QED BY <1>1, <3>1, <3>2 DEF TargetSides
  <2>2. /\ target'.idle = target.idle + target.claimable
        /\ target'.claimable = 0
        /\ target'.pending = target.pending /\ target'.staked = target.staked
    BY <1>1, <1>7 DEF Claim, TargetSides
  <2> QED BY <1>1, <1>4, <2>1, <2>2 DEF getTargetValue
<1>8. CASE DepositIdle
  <2>1. plan.deposit <= target.idle
    <3>1. plan.deposit <= Spendable /\ ~plan.claim
      BY <1>8 DEF DepositIdle, AmountsInv, PlanInv
    <3> QED BY <1>1, <1>3, <3>1 DEF Spendable
  <2>2. target' \in TargetSides
    <3>1. /\ target.idle - plan.deposit \in Nat
          /\ target.staked + plan.deposit \in Nat
      BY <1>1, <1>3, <2>1
    <3>2. target' = [target EXCEPT !.idle = target.idle - plan.deposit,
                                   !.staked = target.staked + plan.deposit]
      BY <1>1, <1>8 DEF DepositIdle, TargetSides
    <3> QED BY <1>1, <3>1, <3>2 DEF TargetSides
  <2>3. /\ target'.idle = target.idle - plan.deposit
        /\ target'.claimable = target.claimable
        /\ target'.pending = target.pending
        /\ target'.staked = target.staked + plan.deposit
    BY <1>1, <1>8 DEF DepositIdle, TargetSides
  <2> QED BY <1>1, <1>3, <1>4, <2>2, <2>3 DEF getTargetValue
<1> QED BY <1>5, <1>6, <1>7, <1>8

\* The two pushes move what is there.
LEMMA SidesPush ==
  ASSUME AmountsInv, PushToSource \/ PushToTarget
  PROVE  SidesInv' /\ Moved
<1>1. /\ SidesInv /\ target \in TargetSides /\ source \in SourceSides
  BY DEF AmountsInv, SidesInv
<1>2. wire = NoWire /\ CarriedBy(wire) = 0
  <2>1. Quiet
    BY DEF AmountsInv, TransferInv, Decided, PushToSource, PushToTarget
  <2>2. 0 \in Nat
    OBVIOUS
  <2> QED BY <2>1, <2>2, Carried DEF Quiet, NoWire
<1>3. \A x : /\ [wire EXCEPT !.to_source = Append(@, x)] = ToSource(x)
             /\ [wire EXCEPT !.to_target = Append(@, x)] = ToTarget(x)
  BY <1>2 DEF NoWire, ToSource, ToTarget
<1>4. CASE PushToSource
  <2>1. plan.push \in Nat /\ plan.push <= target.idle
        /\ wire' = ToSource(plan.push) /\ source' = source
    <3>1. plan.push \in Nat /\ plan.push <= Spendable /\ ~plan.claim
      BY <1>4 DEF PushToSource, ClaimDone, AmountsInv, PlanInv
    <3>2. plan.push <= target.idle
      BY <1>1, <3>1 DEF Spendable, TargetSides
    <3> QED BY <1>3, <1>4, <3>1, <3>2 DEF PushToSource
  <2>2. target' = [target EXCEPT !.idle = target.idle - plan.push,
                                 !.sent = NextNonce(target.sent)]
    BY <1>1, <1>4 DEF PushToSource, TargetSides
  <2>3. target.idle - plan.push \in Nat /\ NextNonce(target.sent) \in 0 .. LastNonce
    BY <1>1, <2>1, NonceMoves DEF TargetSides
  <2>4. target' \in TargetSides
    BY <1>1, <2>2, <2>3 DEF TargetSides
  <2>5. getTargetValue(target') + plan.push = getTargetValue(target)
    BY <1>1, <2>1, <2>2, <2>3 DEF getTargetValue, TargetSides
  <2>6. CarriedBy(wire') = plan.push
    BY <2>1, Carried
  <2>7. getTargetValue(target') \in Nat
    BY <2>4 DEF getTargetValue, TargetSides
  <2>8. Worth(source', target', wire') = Worth(source, target, wire)
    BY <1>1, <1>2, <2>1, <2>5, <2>6, <2>7, TotalType DEF Worth
  <2> QED BY <1>1, <2>1, <2>4, <2>8 DEF SidesInv, Wires, Moved
<1>5. CASE PushToTarget /\ UNCHANGED chains
  BY <1>1, <1>5, SidesUnchanged DEF chains
<1>6. CASE PushToTarget /\ ~UNCHANGED chains
  <2> DEFINE demand  == withdrawal_demand(Total, queue.demand, source.supply)
             surplus == source.held - demand
  <2>1. /\ surplus > 0 /\ target' = target
        /\ source' = [source EXCEPT !.held = @ - surplus, !.sent = NextNonce(@)]
        /\ wire' = ToTarget(surplus)
    BY <1>3, <1>6 DEF PushToTarget
  <2>2. demand \in Nat
    <3>1. queue.demand \in Nat /\ queue.demand < source.supply
      BY DEF AmountsInv, QueueInv
    <3> QED BY <1>1, <3>1, PayoutBelow, TotalType DEF withdrawal_demand
  <2> HIDE DEF demand
  <2>3. source.held \in Nat /\ surplus \in Nat /\ source.held - surplus \in Nat
    BY <1>1, <2>1, <2>2 DEF SourceSides
  <2> HIDE DEF surplus
  <2>4. /\ source' \in SourceSides /\ source'.held = source.held - surplus
        /\ source'.supply = source.supply
    BY <1>1, <2>1, <2>3, NonceMoves DEF SourceSides
  <2>5. CarriedBy(wire') = surplus
    BY <2>1, <2>3, Carried
  <2>6. Worth(source', target', wire') = Worth(source, target, wire)
    BY <1>1, <1>2, <2>1, <2>3, <2>4, <2>5, TotalType DEF Worth
  <2> QED BY <1>1, <2>1, <2>3, <2>4, <2>6 DEF SidesInv, Wires, Moved
<1> QED BY <1>4, <1>5, <1>6

\* Assets enter the vault or leave it.
Traded ==
  /\ target' = target /\ wire' = wire
  /\ \/ Deposit
     \/ CanAdvance /\ Advance
     \/ Distribute

LEMMA SidesVault ==
  ASSUME AmountsInv, Traded
  PROVE  SidesInv'
<1>1. /\ SidesInv /\ source \in SourceSides /\ QueueInv
      /\ target' = target /\ wire' = wire
  BY DEF AmountsInv, SidesInv, Traded
<1>2. ASSUME NEW held \in Nat, NEW supply \in Nat \ {0},
             source' = [source EXCEPT !.held = held, !.supply = supply],
             held + getTargetValue(target) + CarriedBy(wire) > 0
      PROVE  SidesInv'
  <2>1. source' \in SourceSides /\ source'.held = held
    BY <1>1, <1>2 DEF SourceSides
  <2> QED BY <1>1, <1>2, <2>1 DEF SidesInv, Worth
<1>3. CASE Deposit
  <2>1. PICK a \in Amounts :
          LET minted == (a * source.supply) \div Total
          IN  /\ minted > 0
              /\ source' = [source EXCEPT !.held = @ + a, !.supply = @ + minted]
    BY <1>3 DEF Deposit
  <2> DEFINE minted == (a * source.supply) \div Total
  <2>2. a \in Nat /\ a * source.supply \in Nat /\ Total \in Nat \ {0}
    BY <1>1, TotalType, ChainsAssumption
  <2>3. minted \in Nat
    BY <2>2
  <2>4. source' = [source EXCEPT !.held = @ + a, !.supply = @ + minted]
    BY <2>1
  <2> HIDE DEF minted
  <2>5. source' = [source EXCEPT !.held = source.held + a,
                                 !.supply = source.supply + minted]
    BY <2>4
  <2>6. /\ source.held + a \in Nat /\ source.supply + minted \in Nat \ {0}
        /\ source.held + a + getTargetValue(target) + CarriedBy(wire) > 0
    BY <1>1, <2>2, <2>3, TotalType DEF Worth
  <2> QED BY <1>2, <2>5, <2>6
<1>4. CASE CanAdvance /\ Advance
  <2> DEFINE e == queue.iterator
  <2>1. source' = [source EXCEPT !.held = source.held - Payout(e),
                                 !.supply = source.supply - queue.shares[e]]
    BY <1>4 DEF Advance
  <2>2. Payout(e) \in Nat /\ Payout(e) < Total /\ Payout(e) <= source.held
        /\ queue.shares[e] \in Nat /\ queue.shares[e] < source.supply
    BY <1>1, <1>4, PayoutType, TotalType DEF CanAdvance
  <2>3. /\ source.held - Payout(e) \in Nat
        /\ source.supply - queue.shares[e] \in Nat \ {0}
        /\ source.held - Payout(e) + getTargetValue(target) + CarriedBy(wire) > 0
    BY <1>1, <2>2, TotalType DEF Worth
  <2> QED BY <1>2, <2>1, <2>3
<1>5. CASE Distribute
  <2>1. router \in Nat
    BY DEF AmountsInv, RestInv
  <2>2. source' = [source EXCEPT !.held = source.held + router,
                                 !.supply = source.supply]
    BY <1>1, <1>5 DEF Distribute, SourceSides
  <2>3. source.held + router + getTargetValue(target) + CarriedBy(wire) > 0
    BY <1>1, <2>1, TotalType DEF Worth
  <2>4. source.held + router \in Nat /\ source.supply \in Nat \ {0}
    BY <1>1, <2>1, TotalType
  <2> QED BY <1>2, <2>2, <2>3, <2>4
<1> QED BY <1>3, <1>4, <1>5 DEF Traded

\* The steps that leave the two sides and the wire alone, and the others.
LEMMA SidesNext ==
  ASSUME AmountsInv, [Next]_vars
  PROVE  SidesInv' /\ (Moved \/ Traded)
<1>1. CASE InWorld(Environment)
  <2>1. CASE ArriveAtTarget \/ ArriveAtSource
    BY <2>1, SidesArrive
  <2>2. CASE Deposit \/ UserAdvances
    <3>1. target' = target /\ wire' = wire
      BY <2>2 DEF Deposit, UserAdvances
    <3> QED BY <2>2, <3>1, SidesVault DEF UserAdvances, Traded
  <2>3. CASE RequestWithdrawal \/ Earn \/ SetDelay \/ Tick \/ OracleWritten \/ Lag
    <3>1. UNCHANGED <<source, target, wire>>
      BY <2>3 DEF RequestWithdrawal, Earn, SetDelay, Tick, OracleWritten, Lag
    <3> QED BY <3>1, SidesUnchanged DEF AmountsInv
  <2> QED BY <1>1, <2>1, <2>2, <2>3 DEF InWorld, Environment, Move
<1>2. CASE InPass(RipenNow) \/ InPass(StartPass) \/ InPass(PassStep) \/ InPass(TimesOut)
  <2>1. CASE RipenNow \/ Redeem \/ Claim \/ DepositIdle
    BY <2>1, SidesTarget DEF RipenNow
  <2>2. CASE PushToSource \/ PushToTarget
    BY <2>2, SidesPush
  <2>3. CASE \/ StartPass \/ TimesOut \/ ReadSource \/ ReadTarget \/ AskAmounts
             \/ Finalized \/ NothingToPush \/ AskClosing \/ NothingToDeposit
    <3>1. UNCHANGED <<source, target, wire>>
      BY <2>3 DEF StartPass, TimesOut, ReadSource, ReadTarget, AskAmounts,
         Finalized, NothingToPush, AskClosing, NothingToDeposit, chains
    <3> QED BY <3>1, SidesUnchanged DEF AmountsInv
  <2> QED BY <1>2, <2>1, <2>2, <2>3 DEF InPass, PassStep
<1>3. CASE \/ InJob(StartEpochs) \/ InJob(StartAscend) \/ InJob(JobStep)
           \/ InJob(Break)
  <2>1. CASE Distribute \/ (HandleEpoch /\ CanAdvance /\ Advance)
    <3>1. target' = target /\ wire' = wire
      BY <2>1 DEF Distribute, HandleEpoch
    <3> QED BY <2>1, <3>1, SidesVault DEF Traded
  <2>2. CASE \/ StartEpochs \/ StartAscend \/ ReadQueue \/ CheckProgress
             \/ ClaimReward \/ ReadRouter \/ Break
             \/ HandleEpoch /\ ~(CanAdvance /\ Advance)
    <3>1. UNCHANGED <<source, target, wire>>
      BY <2>2 DEF StartEpochs, StartAscend, ReadQueue, CheckProgress, ClaimReward,
         ReadRouter, Break, HandleEpoch, chains
    <3> QED BY <3>1, SidesUnchanged DEF AmountsInv
  <2> QED BY <1>3, <2>1, <2>2 DEF InJob, JobStep
<1>4. CASE UNCHANGED vars
  BY <1>4, SidesUnchanged DEF AmountsInv, vars, chains
<1> QED BY <1>1, <1>2, <1>3, <1>4 DEF Next

---------------------------------------------------------------------------
(* The queue.                                                              *)

LEMMA SuffixType ==
  ASSUME NEW f \in [0 .. MaxTime + 1 -> Nat], NEW e \in Epochs
  PROVE  /\ e \in Nat /\ e \in 0 .. MaxTime + 1 /\ e + 1 \in 0 .. MaxTime + 1
         /\ f[e] \in Nat /\ f[e + 1] \in Nat
<1>1. MaxTime \in Nat
  BY ChainsAssumption
<1>2. e \in Nat /\ e \in 0 .. MaxTime + 1 /\ e + 1 \in 0 .. MaxTime + 1
  BY <1>1 DEF Epochs
<1> QED BY <1>2

\* A request joins the epoch that runs; every suffix up to it grows.
LEMMA QueueRequest ==
  ASSUME QueueInv, RequestWithdrawal, UNCHANGED now
  PROVE  QueueInv'
<1>1. PICK shares \in Amounts :
        /\ now < MaxTime
        /\ queue.demand + shares < source.supply
        /\ queue' = [queue EXCEPT !.shares[now] = @ + shares,
                                  !.demand = @ + shares]
        /\ source' = source
  BY DEF RequestWithdrawal, currentEpoch
<1>2. shares \in Nat /\ MaxTime \in Nat
  BY ChainsAssumption
<1>3. /\ now \in Nat /\ now \in Epochs /\ queue.iterator \in Nat
      /\ queue.iterator <= now /\ queue.demand \in Nat
      /\ queue.shares \in [Epochs -> Nat] /\ queue.delay \in {0, 1}
  BY <1>2 DEF QueueInv, Epochs
<1>4. /\ queue'.iterator = queue.iterator /\ queue'.delay = queue.delay
      /\ queue'.demand = queue.demand + shares
      /\ queue'.shares = [queue.shares EXCEPT ![now] = @ + shares]
      /\ queue' = [iterator |-> queue'.iterator, shares |-> queue'.shares,
                   demand |-> queue'.demand, delay |-> queue'.delay]
  BY <1>1 DEF QueueInv
<1>5. queue'.shares \in [Epochs -> Nat] /\ queue'.demand \in Nat
  BY <1>2, <1>3, <1>4
<1>6. PICK f \in [0 .. MaxTime + 1 -> Nat] : Backs(f)
  BY DEF QueueInv
<1> DEFINE g == [e \in 0 .. MaxTime + 1 |-> IF e <= now THEN f[e] + shares ELSE f[e]]
<1>7. g \in [0 .. MaxTime + 1 -> Nat]
  BY <1>2
<1>8. queue'.demand = g[queue'.iterator]
  <2>1. queue.iterator \in 0 .. MaxTime + 1
    BY <1>2, <1>3 DEF Epochs
  <2>2. g[queue.iterator] = f[queue.iterator] + shares
    BY <1>3, <2>1
  <2> QED BY <1>4, <1>6, <2>2 DEF Backs
<1>9. ASSUME NEW e \in Epochs
      PROVE  g[e] = g[e + 1] + queue'.shares[e]
  <2>1. /\ e \in Nat /\ e \in 0 .. MaxTime + 1 /\ e + 1 \in 0 .. MaxTime + 1
        /\ f[e] \in Nat /\ f[e + 1] \in Nat /\ queue.shares[e] \in Nat
        /\ f[e] = f[e + 1] + queue.shares[e]
    BY <1>3, <1>6, SuffixType DEF Backs
  <2>2. queue'.shares[e] = IF e = now THEN queue.shares[e] + shares
                           ELSE queue.shares[e]
    BY <1>3, <1>4
  <2>3. /\ g[e] = IF e <= now THEN f[e] + shares ELSE f[e]
        /\ g[e + 1] = IF e + 1 <= now THEN f[e + 1] + shares ELSE f[e + 1]
    BY <2>1
  <2> HIDE DEF g
  <2> QED BY <1>2, <1>3, <2>1, <2>2, <2>3
<1>10. \E h \in [0 .. MaxTime + 1 -> Nat] : Backs(h)'
  <2> HIDE DEF g
  <2> QED BY <1>7, <1>8, <1>9 DEF Backs
<1>11. queue'.demand < source'.supply
  BY <1>1, <1>4
<1> QED BY <1>2, <1>3, <1>4, <1>5, <1>10, <1>11 DEF QueueInv

\* The queue advances past an epoch and forgets its shares.
LEMMA QueueAdvance ==
  ASSUME SidesInv, QueueInv, Mature, Advance, UNCHANGED now
  PROVE  QueueInv'
<1> DEFINE e == queue.iterator
<1>1. /\ e \in Epochs /\ queue.shares[e] \in Nat /\ queue.shares[e] <= queue.demand
      /\ queue.demand \in Nat /\ queue.demand < source.supply
      /\ source.supply \in Nat
  BY PayoutType, TotalType
<1>2. /\ queue'.iterator = e + 1 /\ queue'.shares = queue.shares
      /\ queue'.demand = queue.demand - queue.shares[e]
      /\ queue'.delay = queue.delay
      /\ queue' = [iterator |-> queue'.iterator, shares |-> queue'.shares,
                   demand |-> queue'.demand, delay |-> queue'.delay]
  BY DEF Advance, QueueInv
<1>3. source'.supply = source.supply - queue.shares[e]
  BY DEF Advance, SidesInv, SourceSides
<1>4. e \in Nat /\ now \in Nat /\ e < now /\ MaxTime \in Nat
  BY ChainsAssumption DEF Mature, currentEpoch, QueueInv
<1>5. PICK f \in [0 .. MaxTime + 1 -> Nat] : Backs(f)
  BY DEF QueueInv
<1>6. Backs(f)'
  <2>1. f[e + 1] \in Nat
    BY <1>1, <1>5, SuffixType
  <2>2. f[e + 1] = queue'.demand
    BY <1>1, <1>2, <1>5, <2>1 DEF Backs
  <2> QED BY <1>2, <1>5, <2>2 DEF Backs
<1>7. queue'.demand \in Nat /\ queue'.demand < source'.supply
  BY <1>1, <1>2, <1>3
<1>8. queue'.iterator \in Nat /\ queue'.iterator <= now
  BY <1>2, <1>4
<1> QED BY <1>2, <1>5, <1>6, <1>7, <1>8 DEF QueueInv

\* The supply does not fall, time does not run back, the delay may move.
LEMMA QueueKept ==
  ASSUME QueueInv, queue' = queue \/ SetDelay,
         source'.supply \in Nat, source.supply <= source'.supply,
         source.supply \in Nat,
         now' = now \/ Tick
  PROVE  QueueInv'
<1>1. /\ queue'.iterator = queue.iterator /\ queue'.shares = queue.shares
      /\ queue'.demand = queue.demand
      /\ queue' \in [iterator : Nat, shares : [Epochs -> Nat], demand : Nat,
                     delay : {0, 1}]
  BY DEF SetDelay, QueueInv
<1>2. now' \in 0 .. MaxTime /\ now <= now'
  BY ChainsAssumption DEF QueueInv, Tick
<1>3. queue'.iterator \in Nat /\ now \in Nat /\ queue.demand \in Nat
  BY <1>1 DEF QueueInv
<1>4. PICK f \in [0 .. MaxTime + 1 -> Nat] : Backs(f)
  BY DEF QueueInv
<1>5. Backs(f)'
  BY <1>1, <1>4 DEF Backs
<1>6. queue'.iterator <= now' /\ queue'.demand < source'.supply
  <2>1. queue.iterator <= now /\ queue.demand < source.supply
    BY DEF QueueInv
  <2> QED BY <1>1, <1>2, <1>3, <2>1
<1> QED BY <1>1, <1>2, <1>4, <1>5, <1>6 DEF QueueInv

LEMMA QueueNext ==
  ASSUME AmountsInv, [Next]_vars
  PROVE  QueueInv'
<1>1. SidesInv /\ QueueInv /\ source \in SourceSides /\ SidesInv'
  BY SidesNext DEF AmountsInv, SidesInv
<1>2. source.supply \in Nat /\ source'.supply \in Nat
  BY <1>1 DEF SidesInv, SourceSides
<1>3. ASSUME source'.supply = source.supply, queue' = queue \/ SetDelay,
             now' = now \/ Tick
      PROVE  QueueInv'
  BY <1>1, <1>2, <1>3, QueueKept
<1>4. CASE InWorld(Environment)
  <2>1. CASE RequestWithdrawal /\ now' = now
    BY <1>1, <2>1, QueueRequest
  <2>2. CASE UserAdvances /\ now' = now
    BY <1>1, <2>2, QueueAdvance DEF UserAdvances, CanAdvance
  <2>3. CASE Deposit /\ now' = now
    <3>1. PICK a \in Amounts :
            LET minted == (a * source.supply) \div Total
            IN  minted > 0
                  /\ source' = [source EXCEPT !.held = @ + a, !.supply = @ + minted]
      BY <2>3 DEF Deposit
    <3> DEFINE minted == (a * source.supply) \div Total
    <3>2. minted \in Nat
      BY <1>1, <1>2, TotalType, ChainsAssumption
    <3>3. source' = [source EXCEPT !.held = @ + a, !.supply = @ + minted]
      BY <3>1
    <3> HIDE DEF minted
    <3>4. source'.supply = source.supply + minted
      BY <1>1, <3>3 DEF SourceSides
    <3>5. queue' = queue
      BY <2>3 DEF Deposit
    <3> QED BY <1>1, <1>2, <2>3, <3>2, <3>4, <3>5, QueueKept
  <2>4. CASE \/ ArriveAtTarget \/ ArriveAtSource \/ Tick \/ OracleWritten \/ Lag
             \/ (Earn \/ SetDelay) /\ now' = now
    <3>1. source'.supply = source.supply
      BY <1>1, <2>4 DEF ArriveAtTarget, ArriveAtSource, Tick, OracleWritten, Lag,
         Earn, SetDelay, SourceSides
    <3>2. queue' = queue \/ SetDelay
      BY <2>4 DEF ArriveAtTarget, ArriveAtSource, Tick, OracleWritten, Lag, Earn
    <3>3. now' = now \/ Tick
      BY <2>4 DEF ArriveAtTarget, ArriveAtSource, OracleWritten, Lag
    <3> QED BY <1>3, <3>1, <3>2, <3>3
  <2> QED BY <1>4, <2>1, <2>2, <2>3, <2>4 DEF InWorld, Environment, Move
<1>5. CASE InPass(RipenNow) \/ InPass(StartPass) \/ InPass(PassStep) \/ InPass(TimesOut)
  <2>1. queue' = queue /\ now' = now
    BY <1>5 DEF InPass, RipenNow, Ripen, StartPass, PassStep, TimesOut, ReadSource,
       ReadTarget, AskAmounts, Redeem, Claim, PushToSource, PushToTarget,
       Finalized, NothingToPush, AskClosing, DepositIdle, NothingToDeposit, chains
  <2>2. source'.supply = source.supply
    <3>1. CASE PushToTarget
      BY <1>1, <3>1 DEF PushToTarget, SourceSides, chains
    <3>2. CASE ~PushToTarget
      BY <1>5, <3>2 DEF InPass, RipenNow, Ripen, StartPass, PassStep, TimesOut,
         ReadSource, ReadTarget, AskAmounts, Redeem, Claim, PushToSource,
         Finalized, NothingToPush, AskClosing, DepositIdle, NothingToDeposit, chains
    <3> QED BY <3>1, <3>2
  <2> QED BY <1>3, <2>1, <2>2
<1>6. CASE \/ InJob(StartEpochs) \/ InJob(StartAscend) \/ InJob(JobStep)
           \/ InJob(Break)
  <2>1. CASE HandleEpoch /\ CanAdvance /\ Advance
    BY <1>1, <2>1, QueueAdvance DEF HandleEpoch, CanAdvance
  <2>2. CASE \/ StartEpochs \/ StartAscend \/ ReadQueue \/ CheckProgress
             \/ ClaimReward \/ ReadRouter \/ Break \/ Distribute
             \/ HandleEpoch /\ ~(CanAdvance /\ Advance)
    <3>1. source'.supply = source.supply /\ queue' = queue /\ now' = now
      BY <1>1, <2>2 DEF StartEpochs, StartAscend, ReadQueue, CheckProgress,
         ClaimReward, ReadRouter, Break, HandleEpoch, Distribute, chains, SourceSides
    <3> QED BY <1>3, <3>1
  <2> QED BY <1>6, <2>1, <2>2 DEF InJob, JobStep
<1>7. CASE UNCHANGED vars
  BY <1>3, <1>7 DEF vars, chains
<1> QED BY <1>4, <1>5, <1>6, <1>7 DEF Next

---------------------------------------------------------------------------
(* The plan.                                                               *)

\* The amounts getAmounts plans are there.
LEMMA AmountsType ==
  ASSUME SidesInv, NEW demand \in Nat
  PROVE  LET p == getAmounts(demand)
         IN  /\ p \in [push : Nat, claim : BOOLEAN, redeem : Nat, deposit : Nat]
             /\ p.push = Least(demand, target.idle + target.claimable)
             /\ p.push + p.deposit = target.idle + target.claimable
             /\ p.redeem <= target.staked
             /\ p.claim <=> target.claimable > 0
<1> DEFINE ready   == target.idle + target.claimable
           push    == Least(demand, ready)
           missing == demand - push - target.pending
           redeem  == IF missing > 0 THEN Least(missing, target.staked) ELSE 0
           claim   == target.claimable > 0
<1>1. /\ target.idle \in Nat /\ target.claimable \in Nat
      /\ target.pending \in Nat /\ target.staked \in Nat
  BY TotalType
<1>2. ready \in Nat /\ push \in Nat /\ push <= ready
  BY <1>1 DEF Least
<1>3. redeem \in Nat /\ redeem <= target.staked
  BY <1>1, <1>2 DEF Least
<1>4. ready - push \in Nat
  BY <1>2
<1>5. getAmounts(demand) = [push |-> push, claim |-> claim,
                            redeem |-> redeem, deposit |-> ready - push]
  BY DEF getAmounts
<1>6. push + (ready - push) = ready
  BY <1>2
<1>10. claim \in BOOLEAN
  OBVIOUS
<1> HIDE DEF push, redeem, ready, claim
<1>7. getAmounts(demand) \in [push : Nat, claim : BOOLEAN, redeem : Nat, deposit : Nat]
  BY <1>2, <1>3, <1>4, <1>5, <1>10
<1>8. /\ getAmounts(demand).push = push /\ getAmounts(demand).redeem = redeem
      /\ getAmounts(demand).deposit = ready - push
  BY <1>5
<1>9. getAmounts(demand).claim = claim
  BY <1>5
<1> QED BY <1>3, <1>6, <1>7, <1>8, <1>9 DEF push, ready, claim

LEMMA SpendableType ==
  ASSUME SidesInv, PlanInv
  PROVE  /\ Spendable \in Nat
         /\ plan.claim => Spendable = target.idle + target.claimable
         /\ ~plan.claim => Spendable = target.idle
BY TotalType DEF Spendable, PlanInv

\* Nothing is taken from what the plan counts on.
LEMMA PlanKept ==
  ASSUME SidesInv, SidesInv', PlanInv, plan' = plan,
         pc' = pc \/ pc' \notin {"pulling", "depositing"},
         target.idle <= target'.idle, target.claimable <= target'.claimable,
         target.staked <= target'.staked
  PROVE  PlanInv'
<1>1. /\ target.idle \in Nat /\ target.claimable \in Nat /\ target.staked \in Nat
      /\ target'.idle \in Nat /\ target'.claimable \in Nat /\ target'.staked \in Nat
  BY DEF SidesInv, TargetSides
<1>2. /\ plan.push \in Nat /\ plan.redeem \in Nat /\ plan.deposit \in Nat
  BY DEF PlanInv
<1>3. Spendable <= Spendable' /\ Spendable \in Nat /\ Spendable' \in Nat
  BY <1>1 DEF Spendable
<1>4. pc' = "pulling" => plan.push <= Spendable' /\ plan.redeem <= target'.staked
  BY <1>1, <1>2, <1>3 DEF PlanInv
<1>5. pc' = "depositing" => plan.deposit <= Spendable'
  BY <1>1, <1>2, <1>3 DEF PlanInv
<1> QED BY <1>4, <1>5 DEF PlanInv

\* A pass that is over plans nothing.
LEMMA PlanOver ==
  ASSUME Over
  PROVE  PlanInv'
BY DEF Over, NoPlan, PlanInv

LEMMA PlanAsked ==
  ASSUME SidesInv, AskAmounts \/ AskClosing, deficit \in Nat
  PROVE  PlanInv'
<1>1. PICK demand \in Nat : plan' = getAmounts(demand)
  BY DEF AskAmounts, AskClosing
<1>2. target' = target
  BY DEF AskAmounts, AskClosing, chains
<1>3. /\ target.idle \in Nat /\ target.claimable \in Nat
  BY TotalType
<1>4. /\ plan' \in [push : Nat, claim : BOOLEAN, redeem : Nat, deposit : Nat]
      /\ plan'.push + plan'.deposit = target.idle + target.claimable
      /\ plan'.redeem <= target.staked
      /\ plan'.claim <=> target.claimable > 0
  BY <1>1, AmountsType
<1>5. Spendable' = target.idle + target.claimable
  BY <1>2, <1>3, <1>4 DEF Spendable
<1>6. plan'.push \in Nat /\ plan'.deposit \in Nat
  BY <1>4
<1>7. plan'.push <= Spendable' /\ plan'.deposit <= Spendable'
  BY <1>3, <1>4, <1>5, <1>6
<1> QED BY <1>2, <1>4, <1>7 DEF PlanInv

\* The transactions of the plan.
LEMMA PlanCarriedOut ==
  ASSUME SidesInv, PlanInv, Redeem \/ Claim \/ PushToSource
  PROVE  PlanInv'
<1>1. /\ target.idle \in Nat /\ target.claimable \in Nat /\ target.staked \in Nat
      /\ target.pending \in Nat /\ target \in TargetSides
  BY TotalType DEF SidesInv
<1>2. /\ plan \in [push : Nat, claim : BOOLEAN, redeem : Nat, deposit : Nat]
      /\ plan.push \in Nat /\ plan.redeem \in Nat /\ plan.deposit \in Nat
  BY DEF PlanInv
<1>3. CASE Redeem
  <2>1. /\ pc = "pulling" /\ pc' = "pulling"
        /\ plan' = [plan EXCEPT !.redeem = 0]
        /\ target'.idle = target.idle /\ target'.claimable = target.claimable
        /\ target'.staked = target.staked - plan.redeem
    BY <1>1, <1>3 DEF Redeem, TargetSides
  <2>2. /\ plan' \in [push : Nat, claim : BOOLEAN, redeem : Nat, deposit : Nat]
        /\ plan'.push = plan.push /\ plan'.claim = plan.claim /\ plan'.redeem = 0
    BY <1>2, <2>1
  <2>3. plan.push <= Spendable /\ plan.redeem <= target.staked
    BY <2>1 DEF PlanInv
  <2>4. Spendable' = Spendable
    BY <2>1, <2>2 DEF Spendable
  <2>5. plan'.redeem <= target'.staked
    BY <1>1, <1>2, <2>1, <2>2, <2>3
  <2> QED BY <2>1, <2>2, <2>3, <2>4, <2>5 DEF PlanInv
<1>4. CASE Claim
  <2>1. /\ pc' = pc /\ plan.claim
        /\ plan' = [plan EXCEPT !.claim = FALSE]
        /\ target'.idle = target.idle + target.claimable
        /\ target'.staked = target.staked
    BY <1>1, <1>4 DEF Claim, TargetSides
  <2>2. /\ plan' \in [push : Nat, claim : BOOLEAN, redeem : Nat, deposit : Nat]
        /\ plan'.push = plan.push /\ plan'.claim = FALSE
        /\ plan'.redeem = plan.redeem /\ plan'.deposit = plan.deposit
    BY <1>2, <2>1
  <2>3. Spendable' = Spendable
    <3>1. Spendable = target.idle + target.claimable
      BY <2>1, SpendableType
    <3>2. Spendable' = target'.idle + 0
      BY <2>2 DEF Spendable
    <3> QED BY <1>1, <2>1, <3>1, <3>2
  <2> QED BY <2>1, <2>2, <2>3 DEF PlanInv
<1>5. CASE PushToSource
  <2>1. pc' = "waiting" /\ plan' = [plan EXCEPT !.push = 0]
    BY <1>5 DEF PushToSource
  <2> QED BY <1>2, <2>1 DEF PlanInv
<1> QED BY <1>3, <1>4, <1>5

LEMMA PlanNext ==
  ASSUME AmountsInv, [Next]_vars
  PROVE  PlanInv'
<1>1. SidesInv /\ SidesInv' /\ PlanInv /\ deficit \in Nat
  BY SidesNext DEF AmountsInv, RestInv
<1>2. /\ target \in TargetSides /\ target.idle \in Nat /\ target.claimable \in Nat
      /\ target.pending \in Nat /\ target.staked \in Nat
  BY <1>1, TotalType DEF SidesInv
<1>3. ASSUME target' = target, plan' = plan,
             pc' = pc \/ pc' \notin {"pulling", "depositing"}
      PROVE  PlanInv'
  BY <1>1, <1>2, <1>3, PlanKept
<1>4. CASE Redeem \/ Claim \/ PushToSource
  BY <1>1, <1>4, PlanCarriedOut
<1>5. CASE AskAmounts \/ AskClosing
  BY <1>1, <1>5, PlanAsked
<1>6. CASE Over
  BY <1>6, PlanOver
<1>7. CASE InWorld(Environment)
  <2>1. plan' = plan /\ pc' = pc
    BY <1>7 DEF InWorld, pass
  <2>2. CASE ArriveAtTarget
    <3>1. PICK x \in Nat : target' = [target EXCEPT !.idle = @ + x,
                                                    !.received = NextNonce(@)]
      <4>1. Head(wire.to_target) \in Nat
        <5>1. PICK x \in Nat : wire = ToTarget(x)
          BY <1>1, <2>2 DEF ArriveAtTarget, SidesInv, Wires, NoWire, ToSource
        <5>2. Head(<<x>>) = x
          OBVIOUS
        <5> QED BY <5>1, <5>2 DEF ToTarget
      <4> QED BY <2>2, <4>1 DEF ArriveAtTarget
    <3>2. /\ target'.idle = target.idle + x /\ target'.claimable = target.claimable
          /\ target'.staked = target.staked
      BY <1>2, <3>1 DEF TargetSides
    <3> QED BY <1>1, <1>2, <2>1, <3>1, <3>2, PlanKept
  <2>3. CASE ~ArriveAtTarget
    <3>1. target' = target
      BY <1>7, <2>3 DEF InWorld, Environment, ArriveAtSource, Move, Deposit,
         RequestWithdrawal, Earn, SetDelay, UserAdvances, Tick, OracleWritten, Lag
    <3> QED BY <1>3, <2>1, <3>1
  <2> QED BY <2>2, <2>3
<1>8. CASE InPass(RipenNow)
  <2>1. /\ plan' = plan /\ pc' = pc /\ target'.idle = target.idle
        /\ target'.claimable = target.claimable + target.pending
        /\ target'.staked = target.staked
    BY <1>2, <1>8 DEF InPass, RipenNow, Ripen, TargetSides
  <2> QED BY <1>1, <1>2, <2>1, PlanKept
<1>9. CASE InPass(StartPass) \/ InPass(PassStep) \/ InPass(TimesOut)
  <2>1. CASE \/ StartPass \/ ReadSource \/ Finalized \/ NothingToPush
             \/ ReadTarget /\ ~Over
             \/ PushToTarget /\ ~Over
    <3>1. target' = target /\ plan' = plan /\ pc' \notin {"pulling", "depositing"}
      BY <2>1 DEF StartPass, ReadSource, Finalized, NothingToPush, ReadTarget,
         PushToTarget, pass, chains
    <3> QED BY <1>3, <3>1
  <2>2. CASE Over \/ DepositIdle \/ NothingToDeposit \/ TimesOut
    BY <1>6, <2>2 DEF DepositIdle, NothingToDeposit, TimesOut
  <2> QED BY <1>4, <1>5, <1>9, <2>1, <2>2 DEF InPass, PassStep
<1>10. CASE \/ InJob(StartEpochs) \/ InJob(StartAscend) \/ InJob(JobStep)
            \/ InJob(Break)
  <2>1. CASE Break
    BY <1>6, <2>1 DEF Break
  <2>2. CASE StartEpochs \/ StartAscend \/ JobStep
    <3>1. target' = target /\ plan' = plan
      BY <2>2 DEF StartEpochs, StartAscend, JobStep, ReadQueue, HandleEpoch,
         CheckProgress, ClaimReward, ReadRouter, Distribute, pass, chains
    <3>2. pc' = pc \/ pc' \notin {"pulling", "depositing"}
      BY <2>2 DEF StartEpochs, StartAscend, JobStep, ReadQueue, HandleEpoch,
         CheckProgress, ClaimReward, ReadRouter, Distribute, JobOver
    <3> QED BY <1>3, <3>1, <3>2
  <2> QED BY <1>10, <2>1, <2>2 DEF InJob
<1>11. CASE UNCHANGED vars
  BY <1>3, <1>11 DEF vars, chains, pass
<1> QED BY <1>7, <1>8, <1>9, <1>10, <1>11 DEF Next

---------------------------------------------------------------------------
(* What a pass reads and decides, and the rest.                            *)

LEMMA ViewNext ==
  ASSUME AmountsInv, [Next]_vars
  PROVE  ViewInv'
<1>1. CASE ReadSource
  <2>1. /\ source.held \in Nat /\ source.supply \in Nat \ {0}
        /\ queue.demand \in Nat
    BY TotalType DEF AmountsInv, QueueInv
  <2>2. /\ view'.held = source.held /\ view'.demand = queue.demand
        /\ view'.supply = source.supply
    BY <1>1 DEF ReadSource
  <2> QED BY <2>1, <2>2 DEF ViewInv
<1>2. CASE view' = view /\ pc' = pc
  BY <1>2 DEF AmountsInv, ViewInv
<1>3. CASE pc' # "reading_target"
  BY <1>3 DEF ViewInv
<1>4. ReadSource \/ (view' = view /\ pc' = pc) \/ pc' # "reading_target"
  <2>1. CASE InWorld(Environment) \/ InPass(RipenNow) \/ UNCHANGED vars
    BY <2>1 DEF InWorld, InPass, RipenNow, pass, vars
  <2>2. CASE InPass(StartPass) \/ InPass(PassStep) \/ InPass(TimesOut)
    BY <2>2 DEF InPass, StartPass, PassStep, TimesOut, ReadTarget, AskAmounts,
       Redeem, Claim, PushToSource, PushToTarget, Finalized, NothingToPush,
       AskClosing, DepositIdle, NothingToDeposit, Over
  <2>3. CASE \/ InJob(StartEpochs) \/ InJob(StartAscend) \/ InJob(JobStep)
             \/ InJob(Break)
    BY <2>3 DEF InJob, StartEpochs, StartAscend, JobStep, ReadQueue, HandleEpoch,
       CheckProgress, ClaimReward, ReadRouter, Distribute, Break, JobOver
  <2> QED BY <2>1, <2>2, <2>3 DEF Next
<1> QED BY <1>1, <1>2, <1>3, <1>4

\* The decision: over, a deficit to fill, or none.
LEMMA ReadTargetDecides ==
  ASSUME AmountsInv, ReadTarget
  PROVE  \/ Over
         \/ /\ pc' = "asking" /\ deficit' \in Nat \ {0}
            /\ UNCHANGED <<plan, pushed, ripened>>
         \/ /\ pc' \in {"surplus", "closing"}
            /\ UNCHANGED <<plan, deficit, pushed, ripened>>
<1> DEFINE total    == view.held + getTargetValue(target)
           demand   == withdrawal_demand(total, view.demand, view.supply)
           decision == Decision(current_ratio_d3(view.held, total, demand))
<1>1. /\ view.held \in Nat /\ view.demand \in Nat /\ view.supply \in Nat \ {0}
      /\ getTargetValue(target) \in Nat
  BY TotalType DEF AmountsInv, ViewInv, ReadTarget
<1>2. total \in Nat
  BY <1>1
<1>3. demand \in Nat
  <2> HIDE DEF total
  <2>1. total * view.demand \in Nat
    BY <1>1, <1>2
  <2> QED BY <1>1, <2>1 DEF withdrawal_demand
<1>4. \/ Over
      \/ /\ total > demand
         /\ \/ /\ decision = "pull_all"
               /\ deficit' = RoundedUp(getTargetValue(target))
               /\ pc' = "asking"
            \/ /\ decision = "pull"
               /\ deficit' = assets_deficit(view.held, total, demand)
               /\ pc' = "asking"
            \/ pc' \in {"surplus", "closing"} /\ UNCHANGED deficit
         /\ UNCHANGED <<plan, pushed, ripened>>
  BY DEF ReadTarget
<1>5. decision = "pull" => current_ratio_d3(view.held, total, demand) < 0
  BY DEF Decision
<1> HIDE DEF total, demand, decision
<1>6. RoundedUp(getTargetValue(target)) \in Nat \ {0}
  BY <1>1, Rounded
<1>7. total > demand /\ decision = "pull" =>
        assets_deficit(view.held, total, demand) \in Nat \ {0}
  BY <1>1, <1>2, <1>3, <1>5, DeficitType
<1> QED BY <1>4, <1>6, <1>7

LEMMA RestNext ==
  ASSUME AmountsInv, [Next]_vars
  PROVE  RestInv'
<1>1. RestInv /\ plan.push \in Nat /\ PlanInv
  BY DEF AmountsInv, PlanInv
<1> USE DEF RestInv
<1>2. CASE InWorld(Environment)
  <2>1. UNCHANGED <<pc, force, nonce, deficit, pushed, faults, router>>
    BY <1>2 DEF InWorld, pass, Environment, ArriveAtTarget, ArriveAtSource, Move,
       Deposit, RequestWithdrawal, Earn, SetDelay, UserAdvances, Tick,
       OracleWritten, Lag
  <2>2. rewards' \in [1 .. Rewarders -> Nat]
    <3>1. CASE Earn
      BY <1>1, <3>1, ChainsAssumption DEF Earn
    <3>2. CASE ~Earn
      BY <1>1, <1>2, <3>2 DEF InWorld, Environment, ArriveAtTarget,
         ArriveAtSource, Move, Deposit, RequestWithdrawal, SetDelay,
         UserAdvances, Tick, OracleWritten, Lag
    <3> QED BY <3>1, <3>2
  <2>3. moves' \in 0 .. MaxMoves
    <3>1. MaxMoves \in Nat
      BY ChainsAssumption
    <3> QED BY <1>1, <1>2, <3>1 DEF InWorld, Environment, ArriveAtTarget,
               ArriveAtSource, Move, Tick, OracleWritten, Lag
  <2>4. in_line' \in BOOLEAN /\ behind' \in BOOLEAN
    <3>1. CASE Lag
      <4>1. in_line' = in_line
        BY <3>1 DEF Lag
      <4>2. behind' \in BOOLEAN
        BY <1>1, <3>1 DEF Lag, Settled
      <4> QED BY <1>1, <4>1, <4>2
    <3>2. CASE ~Lag
      BY <1>1, <1>2, <3>2 DEF InWorld, Environment, ArriveAtTarget,
         ArriveAtSource, Move, Tick, OracleWritten
    <3> QED BY <3>1, <3>2
  <2> QED BY <1>1, <2>1, <2>2, <2>3, <2>4
<1>3. CASE InPass(RipenNow) \/ InPass(StartPass) \/ InPass(PassStep) \/ InPass(TimesOut)
  <2>1. UNCHANGED <<force, nonce, router, rewards, in_line, behind, moves>>
    BY <1>3 DEF InPass, job, RipenNow, Ripen, StartPass, PassStep, TimesOut,
       ReadSource, ReadTarget, AskAmounts, Redeem, Claim, PushToSource,
       PushToTarget, Finalized, NothingToPush, AskClosing, DepositIdle,
       NothingToDeposit, chains
  <2>2. faults' \in 0 .. MaxFaults
    <3>1. CASE RipenNow
      <4>1. MaxFaults \in Nat
        BY RebalanceAssumption
      <4> QED BY <1>1, <3>1, <4>1 DEF RipenNow
    <3>2. CASE ~RipenNow
      BY <1>1, <1>3, <3>2 DEF InPass, StartPass, PassStep, TimesOut, ReadSource,
         ReadTarget, AskAmounts, Redeem, Claim, PushToSource, PushToTarget,
         Finalized, NothingToPush, AskClosing, DepositIdle, NothingToDeposit
    <3> QED BY <3>1, <3>2
  <2>3. pc' \in Places
    BY <1>1, <1>3 DEF InPass, RipenNow, StartPass, PassStep, TimesOut, ReadSource,
       ReadTarget, AskAmounts, Redeem, Claim, PushToSource, PushToTarget, Finalized,
       NothingToPush, AskClosing, DepositIdle, NothingToDeposit, Over, Places,
       PassPlaces
  <2>4. deficit' \in Nat /\ pushed' \in Nat
    <3>1. CASE Over
      BY <3>1 DEF Over
    <3>2. CASE ReadTarget
      BY <1>1, <3>1, <3>2, ReadTargetDecides
    <3>3. CASE PushToSource
      BY <1>1, <3>3 DEF PushToSource
    <3>4. CASE ~Over /\ ~ReadTarget /\ ~PushToSource
      BY <1>1, <1>3, <3>4 DEF InPass, RipenNow, StartPass, PassStep, TimesOut,
         ReadSource, AskAmounts, Redeem, Claim, PushToTarget, Finalized,
         NothingToPush, AskClosing, DepositIdle, NothingToDeposit, pass
    <3> QED BY <3>1, <3>2, <3>3, <3>4
  <2> QED BY <1>1, <2>1, <2>2, <2>3, <2>4
<1>4. CASE \/ InJob(StartEpochs) \/ InJob(StartAscend) \/ InJob(JobStep)
           \/ InJob(Break)
  <2>1. UNCHANGED <<force, behind, moves>>
    BY <1>4 DEF InJob, StartEpochs, StartAscend, JobStep, ReadQueue, HandleEpoch,
       CheckProgress, ClaimReward, ReadRouter, Distribute, Break, chains
  <2>2. pc' \in Places
    BY <1>1, <1>4 DEF InJob, StartEpochs, StartAscend, JobStep, ReadQueue,
       HandleEpoch, CheckProgress, ClaimReward, ReadRouter, Distribute, Break,
       JobOver, Places
  <2>3. /\ faults' \in 0 .. MaxFaults /\ deficit' \in Nat /\ pushed' \in Nat
    <3>1. CASE Break
      <4>1. MaxFaults \in Nat
        BY RebalanceAssumption
      <4> QED BY <1>1, <3>1, <4>1 DEF Break, Over
    <3>2. CASE ~Break
      BY <1>1, <1>4, <3>2 DEF InJob, StartEpochs, StartAscend, JobStep, ReadQueue,
         HandleEpoch, CheckProgress, ClaimReward, ReadRouter, Distribute, pass
    <3> QED BY <3>1, <3>2
  <2>4. /\ rewards' \in [1 .. Rewarders -> Nat] /\ router' \in Nat
        /\ nonce' \in 0 .. Rewarders /\ in_line' \in BOOLEAN
    <3>1. Rewarders \in Nat
      BY ChainsAssumption
    <3>2. CASE ClaimReward
      <4>1. nonce + 1 \in 1 .. Rewarders
        BY <1>1, <3>1, <3>2 DEF ClaimReward
      <4>2. rewards[nonce + 1] \in Nat
        BY <1>1, <4>1
      <4> QED BY <1>1, <3>1, <3>2, <4>1, <4>2 DEF ClaimReward
    <3>3. CASE ~ClaimReward
      <4>1. rewards' = rewards /\ router' \in {router, 0}
            /\ in_line' \in {in_line, FALSE}
        BY <1>4, <3>3 DEF InJob, StartEpochs, StartAscend, JobStep, ReadQueue,
           HandleEpoch, CheckProgress, ReadRouter, Distribute, Break, chains
      <4>2. nonce' \in {nonce, 0}
        BY <1>4, <3>3 DEF InJob, StartEpochs, StartAscend, JobStep, ReadQueue,
           HandleEpoch, CheckProgress, ReadRouter, Distribute, Break, JobOver, job
      <4>3. /\ rewards \in [1 .. Rewarders -> Nat] /\ router \in Nat
            /\ nonce \in 0 .. Rewarders /\ in_line \in BOOLEAN
            /\ 0 \in 0 .. Rewarders
        BY <1>1, <3>1
      <4>4. nonce' \in 0 .. Rewarders
        BY <4>2, <4>3
      <4>5. router' \in Nat /\ rewards' \in [1 .. Rewarders -> Nat]
        BY <4>1, <4>3
      <4>6. in_line' \in BOOLEAN
        BY <4>1, <4>3
      <4> QED BY <4>4, <4>5, <4>6
    <3> QED BY <3>2, <3>3
  <2> QED BY <1>1, <2>1, <2>2, <2>3, <2>4
<1>5. CASE UNCHANGED vars
  BY <1>1, <1>5 DEF vars, chains, pass, job
<1> QED BY <1>2, <1>3, <1>4, <1>5 DEF Next

---------------------------------------------------------------------------
LEMMA AmountsInit ==
  ASSUME Init
  PROVE  AmountsInv
<1>1. /\ LastNonce \in Nat \ {0} /\ MaxTime \in Nat /\ Rewarders \in Nat
      /\ MaxMoves \in Nat /\ MaxFaults \in Nat
      /\ Holdings \subseteq Nat /\ Stakes \subseteq Nat /\ Forced \subseteq BOOLEAN
  BY ChainsAssumption, RebalanceAssumption
<1>2. PICK h \in Holdings, s \in Stakes :
        /\ h + s > 0
        /\ source = [held |-> h, supply |-> h + s, received |-> 0, sent |-> 0]
        /\ target = [idle |-> 0, claimable |-> 0, pending |-> 0, staked |-> s,
                     received |-> 0, sent |-> 0]
  BY DEF Init, ChainsInit
<1>3. h \in Nat /\ s \in Nat /\ h + s \in Nat \ {0}
  BY <1>1, <1>2
<1>4. SidesInv
  <2>1. wire = NoWire /\ CarriedBy(wire) = 0
    <3>1. 0 \in Nat
      OBVIOUS
    <3> QED BY <3>1, Carried DEF Init, ChainsInit, NoWire
  <2>2. source \in SourceSides /\ target \in TargetSides
    BY <1>1, <1>2, <1>3 DEF SourceSides, TargetSides
  <2>3. Worth(source, target, wire) = h + s
    BY <1>2, <1>3, <2>1 DEF Worth, getTargetValue
  <2> QED BY <1>3, <2>1, <2>2, <2>3 DEF SidesInv, Wires
<1>5. QueueInv
  <2>1. /\ queue = [iterator |-> 0, shares |-> [e \in Epochs |-> 0],
                    demand |-> 0, delay |-> 1]
        /\ now = 0
    BY DEF Init, ChainsInit
  <2>2. queue \in [iterator : Nat, shares : [Epochs -> Nat], demand : Nat,
                   delay : {0, 1}]
    BY <2>1
  <2> DEFINE f == [e \in 0 .. MaxTime + 1 |-> 0]
  <2>3. f \in [0 .. MaxTime + 1 -> Nat]
    OBVIOUS
  <2>4. Backs(f)
    <3>1. f[0] = 0
      BY <1>1
    <3>2. ASSUME NEW e \in Epochs PROVE f[e] = f[e + 1] + queue.shares[e]
      <4>1. e \in 0 .. MaxTime + 1 /\ e + 1 \in 0 .. MaxTime + 1
        BY <1>1 DEF Epochs
      <4> QED BY <2>1, <4>1
    <3> HIDE DEF f
    <3> QED BY <2>1, <3>1, <3>2 DEF Backs
  <2>5. queue.iterator <= now /\ queue.demand < source.supply /\ now \in 0 .. MaxTime
    BY <1>1, <1>2, <1>3, <2>1
  <2> HIDE DEF f
  <2> QED BY <2>2, <2>3, <2>4, <2>5 DEF QueueInv
<1>6. PlanInv /\ ViewInv
  BY DEF Init, PassInit, PlanInv, ViewInv, NoPlan
<1>7. RestInv
  BY <1>1 DEF Init, ChainsInit, PassInit, RestInv, Places
<1> QED BY <1>4, <1>5, <1>6, <1>7, TransferInit, ProgressInit DEF AmountsInv

LEMMA AmountsAlways == Spec => []AmountsInv
<1>1. AmountsInv /\ [Next]_vars => AmountsInv'
  BY SidesNext, QueueNext, PlanNext, ViewNext, RestNext, TransferNext, ProgressNext
     DEF AmountsInv
<1> QED BY <1>1, AmountsInit, PTL DEF Spec

\* For every vault, queue and sequence of jobs, faults and moves of the world:
\* each amount stays a natural number, so no transaction spends what is not
\* there and no balance, supply or queue underflows.
THEOREM AmountsTyped == Spec => []TypeOK
<1>1. ASSUME AmountsInv PROVE TypeOK
  <2> USE <1>1
  <2>1. /\ source \in SourceSides /\ target \in TargetSides /\ wire \in Wires
    BY DEF AmountsInv, SidesInv
  <2>2. /\ {source.held, source.supply} \subseteq Nat
        /\ {target.idle, target.claimable, target.pending, target.staked}
             \subseteq Nat
        /\ {source.received, source.sent, target.received, target.sent}
             \subseteq 0 .. LastNonce
    BY <2>1 DEF SourceSides, TargetSides
  <2>3. wire \in [to_target : Seq(Nat), to_source : Seq(Nat)]
    BY <2>1, WireType
  <2>4. /\ {queue.demand, queue.delay} \cup {queue.shares[e] : e \in Epochs}
             \subseteq Nat
        /\ queue.iterator \in 0 .. now /\ now \in 0 .. MaxTime
    BY DEF AmountsInv, QueueInv
  <2>5. plan.push \in Nat /\ plan.redeem \in Nat /\ plan.deposit \in Nat
    BY DEF AmountsInv, PlanInv
  <2>6. processed \in Nat /\ advanced \in Nat
    BY DEF AmountsInv, ProgressInv
  <2>7. RestInv
    BY DEF AmountsInv
  <2> QED BY <2>2, <2>3, <2>4, <2>5, <2>6, <2>7 DEF TypeOK, RestInv
<1>2. AmountsInv => TypeOK
  BY <1>1
<1> QED BY <1>2, AmountsAlways, PTL

\* However much is withdrawn, the vault never runs empty, and part of its
\* shares stays outside the queue: the divisors of every price are positive.
THEOREM NeverEmpty == Spec => [](Total > 0 /\ queue.demand < source.supply)
<1>1. AmountsInv => Total > 0 /\ queue.demand < source.supply
  BY TotalType DEF AmountsInv, QueueInv
<1> QED BY <1>1, AmountsAlways, PTL

---------------------------------------------------------------------------
(* The closing deposit.  As long as no redemption ripens inside the pass,  *)
(* what is not pushed of a deficit is not there to be deposited.           *)

\* Only a pass that has found a deficit keeps one.
NothingAsked ==
  pc \notin {"asking", "pulling", "waiting", "closing", "depositing"} =>
    deficit = 0 /\ pushed = 0

Asked == pc \in {"asking", "pulling"} => deficit > 0 /\ pushed = 0

\* The plan is to push the deficit or, short of it, whatever is there.
Pledged ==
  pc = "pulling" /\ ~ripened =>
    /\ plan.push = Least(deficit, target.idle + target.claimable)
    /\ plan.claim \/ target.claimable = 0

\* A push that fell short left nothing behind, and nothing is on its way.
Exhausted ==
  pc \in {"waiting", "closing"} /\ ~ripened /\ pushed < deficit =>
    target.idle = 0 /\ target.claimable = 0 /\ wire.to_target = << >>

TooLittle ==
  pc = "depositing" /\ ~ripened /\ pushed < deficit =>
    plan.deposit < LAYER_ZERO_DUST

SurplusInv == NothingAsked /\ Asked /\ Pledged /\ Exhausted /\ TooLittle

\* Without a deficit there is nothing to keep back.
LEMMA SurplusResting ==
  ASSUME deficit' = 0, pushed' = 0, pc' \notin {"asking", "pulling"}
  PROVE  SurplusInv'
BY DEF SurplusInv, NothingAsked, Asked, Pledged, Exhausted, TooLittle

LEMMA SurplusKept ==
  ASSUME SurplusInv, UNCHANGED <<pc, plan, deficit, pushed, ripened>>,
         target'.idle = target.idle, target'.claimable = target.claimable,
         wire'.to_target = wire.to_target
  PROVE  SurplusInv'
BY DEF SurplusInv, NothingAsked, Asked, Pledged, Exhausted, TooLittle

\* Where nothing is promised of the target side, it may change.
LEMMA SurplusFree ==
  ASSUME SurplusInv, UNCHANGED <<pc, deficit, pushed>>,
         pc = "depositing" => plan'.deposit = plan.deposit /\ ripened' = ripened,
         pc \notin {"pulling", "waiting", "closing"}
  PROVE  SurplusInv'
BY DEF SurplusInv, NothingAsked, Asked, Pledged, Exhausted, TooLittle

\* Nor is anything promised of a pass in which a redemption ripened.
LEMMA SurplusRipened ==
  ASSUME SurplusInv, UNCHANGED <<pc, deficit, pushed>>, ripened'
  PROVE  SurplusInv'
BY DEF SurplusInv, NothingAsked, Asked, Pledged, Exhausted, TooLittle

\* What arrives at the target side arrives in no pass that promises anything.
LEMMA SurplusInWorld ==
  ASSUME AmountsInv, SurplusInv, InWorld(Environment)
  PROVE  SurplusInv'
<1>1. UNCHANGED <<pc, plan, deficit, pushed, ripened>>
  BY DEF InWorld, pass
<1>2. wire \in Wires /\ target \in TargetSides
  BY DEF AmountsInv, SidesInv
<1>3. CASE ArriveAtTarget
  <2>1. wire.to_target # << >>
    BY <1>3 DEF ArriveAtTarget
  <2>2. pc # "pulling"
    <3>1. pc = "pulling" => Quiet
      BY DEF AmountsInv, TransferInv, Decided
    <3> QED BY <2>1, <3>1 DEF Quiet
  <2>3. pc' \in {"waiting", "closing"} => ripened' \/ ~(pushed' < deficit')
    BY <1>1, <2>1 DEF SurplusInv, Exhausted
  <2> QED BY <1>1, <2>2, <2>3
          DEF SurplusInv, NothingAsked, Asked, Pledged, Exhausted, TooLittle
<1>4. CASE ArriveAtSource
  <2>1. target' = target /\ wire'.to_target = wire.to_target
    BY <1>2, <1>4 DEF ArriveAtSource, Wires, NoWire, ToTarget, ToSource
  <2> QED BY <1>1, <2>1, SurplusKept
<1>5. CASE Move \/ Tick \/ OracleWritten \/ Lag
  <2>1. target' = target /\ wire' = wire
    BY <1>5 DEF Move, Deposit, RequestWithdrawal, Earn, SetDelay, UserAdvances,
       Tick, OracleWritten, Lag
  <2> QED BY <1>1, <2>1, SurplusKept
<1> QED BY <1>3, <1>4, <1>5 DEF InWorld, Environment

LEMMA SurplusRipens ==
  ASSUME AmountsInv, SurplusInv, RipenNow
  PROVE  SurplusInv'
<1>1. UNCHANGED <<pc, plan, deficit, pushed>>
  BY DEF RipenNow
<1>2. CASE pc \notin {"pulling", "waiting", "closing"}
  BY <1>1, <1>2, SurplusFree DEF RipenNow
<1>3. CASE pc \in {"pulling", "waiting", "closing"}
  <2>1. ripened'
    BY <1>3 DEF RipenNow
  <2> QED BY <1>1, <2>1, SurplusRipened
<1> QED BY <1>2, <1>3

\* The plan, and the transactions that carry it out.
LEMMA SurplusPlanned ==
  ASSUME AmountsInv, SurplusInv, AskAmounts \/ Redeem \/ Claim
  PROVE  SurplusInv'
<1>1. /\ SidesInv /\ target \in TargetSides
      /\ target.idle \in Nat /\ target.claimable \in Nat
      /\ deficit \in Nat
  BY TotalType DEF AmountsInv, SidesInv, RestInv
<1>2. CASE AskAmounts
  <2>1. /\ pc = "asking" /\ pc' = "pulling" /\ target' = target
        /\ plan' = getAmounts(deficit) /\ UNCHANGED <<deficit, pushed, ripened>>
    BY <1>2 DEF AskAmounts, chains
  <2>2. /\ plan'.push = Least(deficit, target.idle + target.claimable)
        /\ plan'.claim <=> target.claimable > 0
    BY <1>1, <2>1, AmountsType
  <2>3. Pledged'
    <3>1. plan'.claim \/ target.claimable = 0
      BY <1>1, <2>2
    <3> QED BY <2>1, <2>2, <3>1 DEF Pledged
  <2>4. (NothingAsked /\ Asked /\ Exhausted /\ TooLittle)'
    BY <2>1 DEF SurplusInv, NothingAsked, Asked, Exhausted, TooLittle
  <2> QED BY <2>3, <2>4 DEF SurplusInv
<1>3. CASE Redeem
  <2>1. /\ pc = "pulling"
        /\ UNCHANGED <<pc, deficit, pushed, ripened, wire>>
        /\ target'.idle = target.idle /\ target'.claimable = target.claimable
    BY <1>1, <1>3 DEF Redeem, TargetSides
  <2>2. plan'.push = plan.push /\ plan'.claim = plan.claim
    BY <1>3 DEF Redeem, AmountsInv, PlanInv
  <2>3. Pledged'
    BY <2>1, <2>2 DEF SurplusInv, Pledged
  <2>4. (NothingAsked /\ Asked /\ Exhausted /\ TooLittle)'
    BY <2>1 DEF SurplusInv, NothingAsked, Asked, Exhausted, TooLittle
  <2> QED BY <2>3, <2>4 DEF SurplusInv
<1>4. CASE Claim
  <2>1. /\ pc \in {"pulling", "depositing"}
        /\ UNCHANGED <<pc, deficit, pushed, ripened, wire>>
        /\ target'.idle = target.idle + target.claimable
        /\ target'.claimable = 0
    BY <1>1, <1>4 DEF Claim, TargetSides
  <2>2. plan'.push = plan.push /\ plan'.deposit = plan.deposit
    BY <1>4 DEF Claim, AmountsInv, PlanInv
  <2>3. Pledged'
    <3>1. target'.idle + target'.claimable = target.idle + target.claimable
      BY <1>1, <2>1
    <3> QED BY <2>1, <2>2, <3>1 DEF SurplusInv, Pledged
  <2>4. (NothingAsked /\ Asked /\ Exhausted /\ TooLittle)'
    BY <2>1, <2>2 DEF SurplusInv, NothingAsked, Asked, Exhausted, TooLittle
  <2> QED BY <2>3, <2>4 DEF SurplusInv
<1> QED BY <1>2, <1>3, <1>4

\* A push that falls short takes all there is; so does no push at all.
LEMMA SurplusPushed ==
  ASSUME AmountsInv, SurplusInv, PushToSource \/ NothingToPush
  PROVE  SurplusInv'
<1>1. /\ target \in TargetSides /\ target.idle \in Nat /\ target.claimable \in Nat
      /\ deficit \in Nat /\ plan.push \in Nat
  BY TotalType DEF AmountsInv, SidesInv, RestInv, PlanInv
<1>2. /\ pc = "pulling" /\ pc' \in {"waiting", "closing"} /\ ~plan.claim
      /\ UNCHANGED <<deficit, ripened>>
  BY DEF PushToSource, NothingToPush, ClaimDone, pass
<1>3. Quiet
  BY <1>2 DEF AmountsInv, TransferInv, Decided
<1>4. deficit > 0 /\ pushed = 0
  BY <1>2 DEF SurplusInv, Asked
<1>5. ~ripened =>
        /\ target.claimable = 0
        /\ plan.push < deficit => plan.push = target.idle
  BY <1>1, <1>2 DEF SurplusInv, Pledged, Least
<1>6. Exhausted'
  <2>1. CASE PushToSource
    <3>1. /\ target'.idle = target.idle - plan.push
          /\ target'.claimable = target.claimable
          /\ wire'.to_target = << >> /\ pushed' = plan.push
      BY <1>1, <1>3, <2>1 DEF PushToSource, Quiet, TargetSides
    <3> QED BY <1>1, <1>2, <1>5, <3>1 DEF Exhausted
  <2>2. CASE NothingToPush
    <3>1. /\ target' = target /\ wire' = wire /\ pushed' = 0 /\ plan.push = 0
      BY <1>4, <2>2 DEF NothingToPush, chains, pass
    <3> QED BY <1>1, <1>2, <1>3, <1>4, <1>5, <3>1 DEF Exhausted, Quiet
  <2> QED BY <2>1, <2>2
<1>7. (NothingAsked /\ Asked /\ Pledged /\ TooLittle)'
  BY <1>2 DEF NothingAsked, Asked, Pledged, TooLittle
<1> QED BY <1>6, <1>7 DEF SurplusInv

LEMMA SurplusClosing ==
  ASSUME AmountsInv, SurplusInv, Finalized \/ AskClosing
  PROVE  SurplusInv'
<1>1. UNCHANGED <<target, wire, deficit, pushed, ripened>>
  BY DEF Finalized, AskClosing, chains, pass
<1>2. CASE Finalized
  <2>1. pc = "waiting" /\ pc' = "closing"
    BY <1>2 DEF Finalized
  <2> QED BY <1>1, <2>1
          DEF SurplusInv, NothingAsked, Asked, Pledged, Exhausted, TooLittle
<1>3. CASE AskClosing
  <2>1. pc = "closing" /\ pc' = "depositing" /\ plan' = getAmounts(0)
    BY <1>3 DEF AskClosing
  <2>2. /\ target.idle \in Nat /\ target.claimable \in Nat
        /\ plan'.push \in Nat /\ plan'.deposit \in Nat
        /\ plan'.push + plan'.deposit = target.idle + target.claimable
    BY <2>1, AmountsType, TotalType DEF AmountsInv
  <2>3. TooLittle'
    <3>1. ASSUME ~ripened, pushed < deficit
          PROVE  plan'.deposit = 0
      <4>1. target.idle = 0 /\ target.claimable = 0
        BY <2>1, <3>1 DEF SurplusInv, Exhausted
      <4> QED BY <2>2, <4>1
    <3>2. LAYER_ZERO_DUST \in Nat \ {0}
      BY RebalanceAssumption
    <3>3. plan'.deposit = 0 => plan'.deposit < LAYER_ZERO_DUST
      BY <3>2
    <3> QED BY <1>1, <3>1, <3>3 DEF TooLittle
  <2>4. (NothingAsked /\ Asked /\ Pledged /\ Exhausted)'
    BY <2>1 DEF NothingAsked, Asked, Pledged, Exhausted
  <2> QED BY <2>3, <2>4 DEF SurplusInv
<1> QED BY <1>2, <1>3

LEMMA SurplusRead ==
  ASSUME AmountsInv, SurplusInv, ReadTarget
  PROVE  SurplusInv'
<1>1. CASE Over
  BY <1>1, SurplusResting DEF Over
<1>2. CASE ~Over
  <2>1. deficit = 0 /\ pushed = 0
    BY DEF ReadTarget, SurplusInv, NothingAsked
  <2>2. \/ /\ pc' = "asking" /\ deficit' \in Nat \ {0}
           /\ UNCHANGED <<plan, pushed, ripened>>
        \/ /\ pc' \in {"surplus", "closing"}
           /\ UNCHANGED <<plan, deficit, pushed, ripened>>
    BY <1>2, ReadTargetDecides
  <2>3. CASE pc' = "asking" /\ deficit' \in Nat \ {0} /\ pushed' = pushed
    BY <2>1, <2>3
       DEF SurplusInv, NothingAsked, Asked, Pledged, Exhausted, TooLittle
  <2>4. CASE pc' \in {"surplus", "closing"} /\ UNCHANGED <<deficit, pushed>>
    BY <2>1, <2>4, SurplusResting
  <2> QED BY <2>2, <2>3, <2>4
<1> QED BY <1>1, <1>2

\* Where no pass has a deficit, the next step finds none either.
LEMMA SurplusElsewhere ==
  ASSUME SurplusInv,
         \/ StartPass \/ ReadSource \/ PushToTarget \/ Over
         \/ StartEpochs \/ StartAscend \/ JobStep
  PROVE  SurplusInv'
<1>1. CASE Over
  BY <1>1, SurplusResting DEF Over
<1>2. CASE ~Over
  <2>1. /\ pc \notin {"asking", "pulling", "waiting", "closing", "depositing"}
        /\ UNCHANGED <<deficit, pushed>>
    BY <1>2 DEF StartPass, ReadSource, PushToTarget, StartEpochs, StartAscend,
       JobStep, ReadQueue, HandleEpoch, CheckProgress, ClaimReward, ReadRouter,
       Distribute, pass
  <2>2. pc' \notin {"asking", "pulling"}
    BY <1>2, <2>1 DEF StartPass, ReadSource, PushToTarget, StartEpochs, StartAscend,
       JobStep, ReadQueue, HandleEpoch, CheckProgress, ClaimReward, ReadRouter,
       Distribute, JobOver
  <2>3. deficit = 0 /\ pushed = 0
    BY <2>1 DEF SurplusInv, NothingAsked
  <2> QED BY <2>1, <2>2, <2>3, SurplusResting
<1> QED BY <1>1, <1>2

LEMMA SurplusNext ==
  ASSUME AmountsInv, SurplusInv, [Next]_vars
  PROVE  SurplusInv'
<1>1. CASE InWorld(Environment)
  BY <1>1, SurplusInWorld
<1>2. CASE InPass(RipenNow)
  BY <1>2, SurplusRipens DEF InPass
<1>3. CASE InPass(StartPass) \/ InPass(PassStep) \/ InPass(TimesOut)
  <2>1. CASE ReadTarget
    BY <2>1, SurplusRead
  <2>2. CASE AskAmounts \/ Redeem \/ Claim
    BY <2>2, SurplusPlanned
  <2>3. CASE PushToSource \/ NothingToPush
    BY <2>3, SurplusPushed
  <2>4. CASE Finalized \/ AskClosing
    BY <2>4, SurplusClosing
  <2>5. CASE StartPass \/ ReadSource \/ PushToTarget
    BY <2>5, SurplusElsewhere
  <2>6. CASE DepositIdle \/ NothingToDeposit \/ TimesOut
    BY <2>6, SurplusElsewhere DEF DepositIdle, NothingToDeposit, TimesOut
  <2> QED BY <1>3, <2>1, <2>2, <2>3, <2>4, <2>5, <2>6 DEF InPass, PassStep
<1>4. CASE \/ InJob(StartEpochs) \/ InJob(StartAscend) \/ InJob(JobStep)
           \/ InJob(Break)
  BY <1>4, SurplusElsewhere DEF InJob, Break
<1>5. CASE UNCHANGED vars
  BY <1>5, SurplusKept DEF vars, chains, pass
<1> QED BY <1>1, <1>2, <1>3, <1>4, <1>5 DEF Next

LEMMA SurplusInit ==
  ASSUME Init
  PROVE  SurplusInv
BY DEF Init, PassInit, SurplusInv, NothingAsked, Asked, Pledged, Exhausted,
       TooLittle

\* Only the closing deposit puts assets back into the target vault.
LEMMA OnlyDepositStakes ==
  ASSUME AmountsInv, [Next]_vars, pc = "depositing",
         target'.staked > target.staked
  PROVE  DepositIdle
<1>1. target \in TargetSides /\ target.staked \in Nat
  BY TotalType DEF AmountsInv, SidesInv
<1>2. target'.staked # target.staked
  BY <1>1
<1>3. CASE InWorld(Environment)
  <2>1. CASE ArriveAtTarget
    BY <1>1, <1>2, <2>1 DEF ArriveAtTarget, TargetSides
  <2>2. CASE ~ArriveAtTarget
    BY <1>2, <1>3, <2>2 DEF InWorld, Environment, ArriveAtSource, Move, Deposit,
       RequestWithdrawal, Earn, SetDelay, UserAdvances, Tick, OracleWritten, Lag
  <2> QED BY <2>1, <2>2
<1>4. CASE InPass(RipenNow)
  BY <1>1, <1>2, <1>4 DEF InPass, RipenNow, Ripen, TargetSides
<1>5. CASE InPass(StartPass) \/ InPass(PassStep) \/ InPass(TimesOut)
  <2>1. CASE Claim
    BY <1>1, <1>2, <2>1 DEF Claim, TargetSides
  <2>2. CASE NothingToDeposit
    BY <1>2, <2>2 DEF NothingToDeposit, chains
  <2>3. CASE ~Claim /\ ~NothingToDeposit
    BY <1>5, <2>3 DEF InPass, StartPass, PassStep, TimesOut, ReadSource, ReadTarget,
       AskAmounts, Redeem, PushToSource, PushToTarget, Finalized, NothingToPush,
       AskClosing
  <2> QED BY <2>1, <2>2, <2>3
<1>6. CASE \/ InJob(StartEpochs) \/ InJob(StartAscend) \/ InJob(JobStep)
           \/ InJob(Break)
  BY <1>2, <1>6 DEF InJob, StartEpochs, StartAscend, JobStep, ReadQueue,
     HandleEpoch, CheckProgress, ClaimReward, ReadRouter, Distribute, Break, chains
<1>7. CASE UNCHANGED vars
  BY <1>2, <1>7 DEF vars, chains
<1> QED BY <1>3, <1>4, <1>5, <1>6, <1>7 DEF Next

\* For every vault and every sequence of passes, arrivals, ripenings, users'
\* moves and faults: what a pass freed for a deficit goes back into the vault
\* only when the deficit was pushed in full, or when it became claimable after
\* the pass had asked.
THEOREM SurplusOnly == Spec => RedepositsSurplusOnly
<1> DEFINE Back == (pc = "depositing" /\ target'.staked > target.staked)
                      => pushed >= deficit \/ ripened
<1>1. AmountsInv /\ SurplusInv /\ [Next]_vars => SurplusInv'
  BY SurplusNext
<1>2. AmountsInv /\ SurplusInv /\ [Next]_vars => [Back]_vars
  <2> SUFFICES ASSUME AmountsInv, SurplusInv, [Next]_vars, pc = "depositing",
                      target'.staked > target.staked, ~ripened
               PROVE  pushed >= deficit
    OBVIOUS
  <2>1. plan.deposit >= LAYER_ZERO_DUST
    BY OnlyDepositStakes DEF DepositIdle
  <2>2. /\ plan.deposit \in Nat /\ LAYER_ZERO_DUST \in Nat
        /\ deficit \in Nat /\ pushed \in Nat
    BY RebalanceAssumption DEF AmountsInv, PlanInv, RestInv
  <2>3. ~(pushed < deficit)
    BY <2>1, <2>2 DEF SurplusInv, TooLittle
  <2> QED BY <2>2, <2>3
<1> QED BY <1>1, <1>2, AmountsAlways, SurplusInit, PTL DEF Spec, RedepositsSurplusOnly

---------------------------------------------------------------------------
(* The shares.                                                             *)

\* No step of the jobs, the queue, the messages or the users makes a share
\* worth less: what is paid and minted is rounded against whom it is for.
ShareKeepsValue == [][ Total' * source.supply >= Total * source'.supply ]_vars

\* While a pass runs, the assets change only with the shares: a redemption, a
\* claim, a push, an arrival, the closing deposit or a pass that breaks off
\* loses nothing.
PassConserves ==
  [][ (pc \in PassPlaces /\ source'.supply = source.supply)
        => Total' = Total ]_vars

LEMMA WorthIsTotal ==
  ASSUME NEW s \in SourceSides, NEW t \in TargetSides, NEW w \in Wires
  PROVE  /\ s.held + getTargetValue(t) + Sum(w.to_target) + Sum(w.to_source)
              = Worth(s, t, w)
         /\ Worth(s, t, w) \in Nat
         /\ s.held \in Nat /\ getTargetValue(t) \in Nat /\ CarriedBy(w) \in Nat
<1>1. s.held \in Nat /\ getTargetValue(t) \in Nat
  BY DEF SourceSides, TargetSides, getTargetValue
<1>2. /\ Sum(w.to_target) \in Nat /\ Sum(w.to_source) \in Nat
      /\ CarriedBy(w) \in Nat
  BY WireType
<1> QED BY <1>1, <1>2 DEF Worth, CarriedBy

\* Rounding down, what is minted for an amount and what is paid for shares
\* costs the other shares nothing.
LEMMA MintingKeeps ==
  ASSUME NEW t \in Nat \ {0}, NEW s \in Nat, NEW a \in Nat
  PROVE  (t + a) * s >= t * (s + (a * s) \div t)
<1> DEFINE m == (a * s) \div t
<1>1. a * s \in Nat /\ m \in Nat /\ t * m <= a * s
  OBVIOUS
<1> HIDE DEF m
<1>2. (t + a) * s = t * s + a * s /\ t * (s + m) = t * s + t * m
  BY <1>1
<1>3. t * s \in Nat /\ t * m \in Nat
  BY <1>1
<1>4. t * s + a * s >= t * s + t * m
  <2> DEFINE x == t * s  y == a * s  z == t * m
  <2>1. x \in Nat /\ y \in Nat /\ z \in Nat /\ z <= y
    BY <1>1, <1>3
  <2> HIDE DEF x, y, z
  <2>2. x + y >= x + z
    BY <2>1
  <2> QED BY <2>2 DEF x, y, z
<1> QED BY <1>2, <1>4 DEF m

LEMMA PayingKeeps ==
  ASSUME NEW t \in Nat, NEW s \in Nat \ {0}, NEW d \in Nat
  PROVE  (t - (t * d) \div s) * s >= t * (s - d)
<1> DEFINE q == (t * d) \div s
<1>1. t * d \in Nat /\ q \in Nat /\ s * q <= t * d
  OBVIOUS
<1> HIDE DEF q
<1>2. (t - q) * s = t * s - s * q /\ t * (s - d) = t * s - t * d
  BY <1>1
<1>3. t * s \in Nat /\ s * q \in Nat
  BY <1>1
<1>4. t * s - s * q >= t * s - t * d
  <2> DEFINE x == t * s  y == t * d  z == s * q
  <2>1. x \in Nat /\ y \in Nat /\ z \in Nat /\ z <= y
    BY <1>1, <1>3
  <2> HIDE DEF x, y, z
  <2>2. x - z >= x - y
    BY <2>1
  <2> QED BY <2>2 DEF x, y, z
<1> QED BY <1>2, <1>4 DEF q

\* What the assets and the shares become.
LEMMA Trades ==
  ASSUME AmountsInv, Traded
  PROVE  \/ \E a \in Nat : LET minted == (a * source.supply) \div Total
                           IN  /\ minted > 0
                               /\ source'.held = source.held + a
                               /\ source'.supply = source.supply + minted
         \/ /\ Mature
            /\ source'.held = source.held - Payout(queue.iterator)
            /\ source'.supply = source.supply - queue.shares[queue.iterator]
         \/ /\ Distribute
            /\ source'.held = source.held + router
            /\ source'.supply = source.supply
<1>1. source \in SourceSides
  BY DEF AmountsInv, SidesInv
<1>2. CASE Deposit
  <2>1. PICK a \in Amounts :
          LET minted == (a * source.supply) \div Total
          IN  /\ minted > 0
              /\ source' = [source EXCEPT !.held = @ + a, !.supply = @ + minted]
    BY <1>2 DEF Deposit
  <2> DEFINE minted == (a * source.supply) \div Total
  <2>2. a \in Nat
    BY ChainsAssumption
  <2>3. minted > 0
        /\ source' = [source EXCEPT !.held = @ + a, !.supply = @ + minted]
    BY <2>1
  <2>4. source'.held = source.held + a /\ source'.supply = source.supply + minted
    <3> HIDE DEF minted
    <3> QED BY <1>1, <2>3 DEF SourceSides
  <2> QED BY <2>2, <2>3, <2>4
<1>3. CASE CanAdvance /\ Advance
  BY <1>1, <1>3 DEF CanAdvance, Advance, SourceSides
<1>4. CASE Distribute
  BY <1>1, <1>4 DEF Distribute, SourceSides
<1> QED BY <1>2, <1>3, <1>4 DEF Traded

LEMMA SharesNext ==
  ASSUME AmountsInv, [Next]_vars
  PROVE  /\ Total' * source.supply >= Total * source'.supply
         /\ pc \in PassPlaces /\ source'.supply = source.supply => Total' = Total
<1>1. SidesInv /\ SidesInv' /\ (Moved \/ Traded)
  BY SidesNext DEF AmountsInv
<1>2. /\ Total = Worth(source, target, wire) /\ Total \in Nat \ {0}
      /\ source.held \in Nat /\ source.supply \in Nat \ {0}
      /\ getTargetValue(target) \in Nat /\ CarriedBy(wire) \in Nat
  BY <1>1, TotalType
<1>3. Total' = Worth(source', target', wire') /\ source'.supply \in Nat
  <2>1. source' \in SourceSides /\ target' \in TargetSides /\ wire' \in Wires
    BY <1>1 DEF SidesInv
  <2>2. source'.supply \in Nat
    BY <2>1 DEF SourceSides
  <2> QED BY <2>1, <2>2, WorthIsTotal DEF Total
<1>4. CASE Moved
  <2>1. Total' = Total /\ source'.supply = source.supply
    BY <1>2, <1>3, <1>4 DEF Moved
  <2>2. Total * source.supply >= Total * source.supply
    <3>1. Total * source.supply \in Nat
      BY <1>2
    <3> QED BY <3>1
  <2> QED BY <2>1, <2>2
<1>5. CASE Traded
  <2>1. target' = target /\ wire' = wire
    BY <1>5 DEF Traded
  <2>2. ASSUME NEW x \in Int, source'.held = source.held + x
        PROVE  Total' = Total + x
    BY <1>2, <1>3, <2>1, <2>2 DEF Worth
  <2>3. ASSUME NEW a \in Nat,
               LET minted == (a * source.supply) \div Total
               IN  /\ minted > 0
                   /\ source'.held = source.held + a
                   /\ source'.supply = source.supply + minted
        PROVE  /\ Total' * source.supply >= Total * source'.supply
               /\ source'.supply # source.supply
    <3> DEFINE minted == (a * source.supply) \div Total
    <3>1. a * source.supply \in Nat /\ minted \in Nat
      BY <1>2
    <3>2. /\ minted > 0 /\ source'.held = source.held + a
          /\ source'.supply = source.supply + minted
      BY <2>3
    <3>3. (Total + a) * source.supply >= Total * (source.supply + minted)
      BY <1>2, MintingKeeps
    <3> HIDE DEF minted
    <3>4. Total' = Total + a /\ source'.supply # source.supply
      BY <1>2, <2>2, <3>1, <3>2
    <3> QED BY <3>2, <3>3, <3>4
  <2>4. ASSUME Mature,
               source'.held = source.held - Payout(queue.iterator),
               source'.supply = source.supply - queue.shares[queue.iterator]
        PROVE  /\ Total' * source.supply >= Total * source'.supply
               /\ source'.supply = source.supply => Total' = Total
    <3> DEFINE d == queue.shares[queue.iterator]
               q == (Total * d) \div source.supply
    <3>1. d \in Nat /\ q \in Nat /\ q = Payout(queue.iterator)
      BY <1>1, <2>4, PayoutType DEF AmountsInv, Payout
    <3>2. Total' = Total - q
      <4>1. source'.held = source.held + (0 - q)
        BY <1>2, <2>4, <3>1
      <4> HIDE DEF q
      <4> QED BY <1>2, <2>2, <3>1, <4>1
    <3>3. (Total - q) * source.supply >= Total * (source.supply - d)
      BY <1>2, <3>1, PayingKeeps
    <3>4. d = 0 => q = 0
      BY <1>2
    <3>5. source'.supply = source.supply - d
      BY <2>4
    <3> HIDE DEF d, q
    <3>6. source'.supply = source.supply => Total' = Total
      <4>1. source'.supply = source.supply => d = 0
        BY <1>2, <3>1, <3>5
      <4> QED BY <1>2, <3>2, <3>4, <4>1
    <3> QED BY <3>2, <3>3, <3>5, <3>6
  <2>5. ASSUME Distribute, source'.held = source.held + router,
               source'.supply = source.supply
        PROVE  /\ Total' * source.supply >= Total * source'.supply
               /\ pc \notin PassPlaces
    <3>1. router \in Nat
      BY DEF AmountsInv, RestInv
    <3>2. Total' = Total + router
      BY <2>2, <2>5, <3>1
    <3>3. (Total + router) * source.supply >= Total * source.supply
      <4>1. /\ (Total + router) * source.supply
                 = Total * source.supply + router * source.supply
            /\ Total * source.supply \in Nat /\ router * source.supply \in Nat
        BY <1>2, <3>1
      <4> DEFINE x == Total * source.supply  y == router * source.supply
      <4>2. x \in Nat /\ y \in Nat
        BY <4>1
      <4> HIDE DEF x, y
      <4>3. x + y >= x
        BY <4>2
      <4> QED BY <4>1, <4>3 DEF x, y
    <3>4. pc \notin PassPlaces
      BY <2>5 DEF Distribute, PassPlaces
    <3> QED BY <2>5, <3>2, <3>3, <3>4
  <2> QED BY <1>5, <2>3, <2>4, <2>5, Trades
<1> QED BY <1>1, <1>4, <1>5

\* For every vault and whatever the world, the jobs and their failures do: the
\* assets behind a share never fall.
THEOREM SharesKeepTheirValue == Spec => ShareKeepsValue
<1>1. AmountsInv /\ [Next]_vars
        => [Total' * source.supply >= Total * source'.supply]_vars
  BY SharesNext
<1> QED BY <1>1, AmountsAlways, PTL DEF Spec, ShareKeepsValue

\* For every vault: interrupted or not, a pass moves assets and neither loses
\* nor creates any.
THEOREM PassesConserve == Spec => PassConserves
<1>1. AmountsInv /\ [Next]_vars
        => [ (pc \in PassPlaces /\ source'.supply = source.supply)
               => Total' = Total ]_vars
  BY SharesNext
<1> QED BY <1>1, AmountsAlways, PTL DEF Spec, PassConserves
=============================================================================
