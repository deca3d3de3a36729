-------------------------- MODULE OracleValueProofs --------------------------
(***************************************************************************)
(* Theorems about OracleValue for every value of its constants.            *)
(***************************************************************************)
EXTENDS OracleValue, TLAPS

---------------------------------------------------------------------------
(* Division.                                                               *)

LEMMA Quotient ==
  ASSUME NEW a \in Nat, NEW b \in Nat \ {0}
  PROVE  /\ a \div b \in Nat
         /\ (a \div b) * b <= a
         /\ a < (a \div b + 1) * b
  BY SMT

\* A product grows with its factor.
LEMMA Product ==
  ASSUME NEW a \in Nat, NEW b \in Nat, NEW c \in Nat, a <= b
  PROVE  /\ a * c \in Nat /\ b * c \in Nat
         /\ a * c <= b * c
  BY SMT

\* The price of a share is backed exactly when all shares at that price are.
LEMMA AtMostShareValue ==
  ASSUME NEW total \in Nat, NEW shares \in Nat \ {0}, NEW p \in Nat
  PROVE  /\ ShareValue(total, shares) \in Nat
         /\ p <= ShareValue(total, shares) <=> p * shares <= total * ONE
<1> DEFINE a == total * ONE
           q == a \div shares
<1>1. ONE \in Nat /\ a \in Nat
  BY OracleAssumption, SMT
<1>2. q \in Nat /\ q * shares <= a /\ a < (q + 1) * shares
  BY <1>1, Quotient
<1>3. ASSUME p <= q PROVE p * shares <= a
  BY <1>2, <1>1, <1>3, Product, SMT
<1>4. ASSUME ~(p <= q) PROVE ~(p * shares <= a)
  <2>1. q + 1 <= p /\ q + 1 \in Nat
    BY <1>2, <1>4
  <2>2. (q + 1) * shares <= p * shares
    BY <2>1, Product
  <2>3. p * shares \in Nat /\ (q + 1) * shares \in Nat
    BY <2>1, Product
  <2> QED BY <2>2, <2>3, <1>1, <1>2
<1> QED BY <1>2, <1>3, <1>4 DEF ShareValue

LEMMA ShareValueGrows ==
  ASSUME NEW total \in Nat, NEW more \in Nat, NEW shares \in Nat \ {0},
         total <= more
  PROVE  ShareValue(total, shares) <= ShareValue(more, shares)
<1>1. /\ ShareValue(total, shares) \in Nat
      /\ ShareValue(total, shares) * shares <= total * ONE
  BY AtMostShareValue
<1>2. total * ONE <= more * ONE /\ total * ONE \in Nat /\ more * ONE \in Nat
  BY OracleAssumption, Product
<1>3. ShareValue(total, shares) * shares \in Nat
  BY <1>1, Product
<1> QED BY <1>1, <1>2, <1>3, AtMostShareValue

\* A deposit at a backed price leaves it backed, whatever is rounded away.
LEMMA DepositKeepsBacking ==
  ASSUME NEW total \in Nat, NEW shares \in Nat \ {0}, NEW p \in Nat \ {0},
         NEW amount \in Nat, p <= ShareValue(total, shares)
  PROVE  /\ ShareValue(amount, p) \in Nat
         /\ p <= ShareValue(total + amount, shares + ShareValue(amount, p))
<1> DEFINE minted == ShareValue(amount, p)
<1>1. minted \in Nat /\ minted * p <= amount * ONE
  <2>1. ShareValue(amount, p) \in Nat
    BY AtMostShareValue
  <2>2. \A v \in Nat :
          v <= ShareValue(amount, p) <=> v * p <= amount * ONE
    BY AtMostShareValue
  <2> QED BY <2>1, <2>2
<1>2. p * shares <= total * ONE
  BY AtMostShareValue
<1>3. ONE \in Nat
  BY OracleAssumption
<1>4. p * (shares + minted) <= (total + amount) * ONE
  <2>1. p * (shares + minted) = p * shares + minted * p
    BY <1>1, SMT
  <2>2. (total + amount) * ONE = total * ONE + amount * ONE
    BY <1>3, SMT
  <2>3. {p * shares, minted * p, total * ONE, amount * ONE} \subseteq Nat
    BY <1>1, <1>3, SMT
  <2> HIDE DEF minted
  <2> QED BY <2>1, <2>2, <2>3, <1>1, <1>2
<1>5. total + amount \in Nat /\ shares + minted \in Nat \ {0}
  BY <1>1
<1> QED BY <1>1, <1>4, <1>5, AtMostShareValue

---------------------------------------------------------------------------
(* Transfers: totals only grow, and nothing comes back that was not sent.  *)

Grows(totals, n) == \A i, j \in 0 .. n : i <= j => totals[i] <= totals[j]

TransfersInv ==
  /\ Grows(pushed, source.sent) /\ Grows(pulled, target.sent)
  /\ pulled[target.sent] <= pushed[target.received]
  /\ getTargetValue(target) >= 0

\* A pinned state lies in the past of the chain it was read from.
PinsInv ==
  /\ pin_source # None =>
       pin_source.sent <= source.sent /\ pin_source.received <= target.sent
  /\ pin_target # None =>
       /\ pin_target.received <= source.sent /\ pin_target.sent <= target.sent
       /\ getTargetValue(pin_target) >= 0
  /\ pc = "idle" => pin_source = None /\ pin_target = None
  /\ pc \in {"estimating", "flying"} => pin_source # None /\ pin_target # None

ReadInv == TypeOK /\ TransfersInv /\ PinsInv /\ ReadingComplete

\* What is not on the target chain is in the SourceCore, in the adapter or on
\* its way between them.
LEMMA BackingIsNatural ==
  ASSUME TypeOK, TransfersInv
  PROVE  /\ Backing(source) \in Nat
         /\ getTargetValue(target) \in Nat
         /\ source.supply \in Nat \ {0}
         /\ source.held \in Nat /\ source.oracle \in Nat \ {0}
<1>1. /\ source.held \in Nat /\ source.supply \in Nat \ {0}
      /\ source.sent \in Nat /\ source.received \in Nat
      /\ source.oracle \in Nat \ {0}
      /\ target.sent \in Nat /\ target.received \in Nat
      /\ target.gained \in Nat /\ target.lost \in Nat
  BY DEF TypeOK, SourceStates, TargetStates
<1>2. /\ \A n \in 0 .. source.sent : pushed[n] \in Nat
      /\ \A n \in 0 .. target.sent : pulled[n] \in Nat
      /\ target.received \in 0 .. source.sent
      /\ source.received \in 0 .. target.sent
      /\ source.sent \in 0 .. source.sent /\ target.sent \in 0 .. target.sent
  <2>1. /\ pushed \in [0 .. source.sent -> Nat]
        /\ pulled \in [0 .. target.sent -> Nat]
        /\ target.received <= source.sent /\ source.received <= target.sent
    BY DEF TypeOK
  <2>2. /\ target.received \in 0 .. source.sent
        /\ source.received \in 0 .. target.sent
        /\ source.sent \in 0 .. source.sent
        /\ target.sent \in 0 .. target.sent
    BY <1>1, <2>1
  <2> QED BY <2>1, <2>2
<1>3. /\ pulled[source.received] <= pulled[target.sent]
      /\ pushed[target.received] <= pushed[source.sent]
      /\ pulled[target.sent] <= pushed[target.received]
  BY <1>1, <1>2 DEF TransfersInv, Grows
<1>4. /\ pushed[source.sent] \in Nat /\ pulled[source.received] \in Nat
      /\ pushed[target.received] \in Nat /\ pulled[target.sent] \in Nat
  BY <1>2
<1> QED BY <1>1, <1>3, <1>4 DEF Backing, locked, getTargetValue, TransfersInv

LEMMA TotalsGrow ==
  ASSUME NEW n \in Nat, NEW totals \in [0 .. n -> Nat], Grows(totals, n),
         NEW amount \in Nat
  PROVE  /\ Totals(totals, n, amount) \in [0 .. n + 1 -> Nat]
         /\ Grows(Totals(totals, n, amount), n + 1)
         /\ \A m \in 0 .. n : Totals(totals, n, amount)[m] = totals[m]
         /\ Totals(totals, n, amount)[n + 1] = totals[n] + amount
<1> DEFINE new == Totals(totals, n, amount)
<1>1. /\ new \in [0 .. n + 1 -> Nat]
      /\ \A m \in 0 .. n : new[m] = totals[m]
      /\ new[n + 1] = totals[n] + amount
  BY DEF Totals
<1>2. ASSUME NEW i \in 0 .. n + 1, NEW j \in 0 .. n + 1, i <= j
      PROVE  new[i] <= new[j]
  <2> HIDE DEF new
  <2>1. CASE j \in 0 .. n
    BY <2>1, <1>1, <1>2 DEF Grows
  <2>2. CASE j = n + 1 /\ i \in 0 .. n
    <3>1. totals[i] <= totals[n] /\ totals[i] \in Nat /\ totals[n] \in Nat
      BY <2>2 DEF Grows
    <3> QED BY <3>1, <2>2, <1>1
  <2>3. CASE j = n + 1 /\ i = n + 1
    BY <2>3, <1>1
  <2> QED BY <2>1, <2>2, <2>3, <1>2
<1> QED BY <1>1, <1>2 DEF Grows

---------------------------------------------------------------------------
(* Type correctness, and that every transfer is counted once.              *)

\* What is sent lies between the oracle's value and what the reading and the
\* assets allow (bounded_write).
LEMMA BoundedWrite ==
  ASSUME NEW old \in Nat, NEW new \in Nat, NEW max \in Nat, NEW tol \in Nat,
         ~write_refused(old, new, max, tol)
  PROVE  /\ write_value(old, new, max) \in Nat
         /\ old <= write_value(old, new, max)
         /\ write_value(old, new, max) <= max
         /\ \/ write_value(old, new, max) = old
            \/ write_value(old, new, max) <= new
  BY SMT DEF write_refused, write_value, is_decrease

LEMMA WriteValueIsNatural ==
  ASSUME NEW old \in Nat, NEW new \in Nat, NEW max \in Nat
  PROVE  write_value(old, new, max) \in Nat
  BY DEF write_value

LEMMA MaxValueIsNatural ==
  ASSUME TypeOK, TransfersInv
  PROVE  maxValue \in Nat
  BY BackingIsNatural, AtMostShareValue DEF maxValue

\* The pinned states, once both are read.
LEMMA PinsTyped ==
  ASSUME TypeOK, PinsInv, pin_source # None, pin_target # None
  PROVE  /\ pin_source \in SourceStates /\ pin_target \in TargetStates
         /\ PinnedTotal \in Nat
         /\ pin_source.supply \in Nat \ {0} /\ pin_source.oracle \in Nat \ {0}
<1>1. pin_source \in SourceStates /\ pin_target \in TargetStates
  BY DEF TypeOK
<1>2. /\ pin_source.held \in Nat /\ pin_source.supply \in Nat \ {0}
      /\ pin_source.oracle \in Nat \ {0}
      /\ pin_target.gained \in Nat /\ pin_target.lost \in Nat
      /\ pin_target.sent \in Nat /\ pin_target.received \in Nat
  BY <1>1 DEF SourceStates, TargetStates
<1>3. /\ pin_target.received \in 0 .. source.sent
      /\ pin_target.sent \in 0 .. target.sent
      /\ source.sent \in Nat /\ target.sent \in Nat
  BY <1>2 DEF PinsInv, TypeOK, SourceStates, TargetStates
<1>4. pushed[pin_target.received] \in Nat /\ pulled[pin_target.sent] \in Nat
  BY <1>3 DEF TypeOK
<1>5. getTargetValue(pin_target) \in Nat
  BY <1>2, <1>4 DEF PinsInv, getTargetValue
<1> QED BY <1>1, <1>2, <1>5 DEF PinnedTotal

LEMMA ReadingIsNatural ==
  ASSUME TypeOK, PinsInv, pin_source # None, pin_target # None,
         NEW total \in {PinnedTotal} \cup WrongTotals
  PROVE  /\ total \in Nat
         /\ ShareValue(total, pin_source.supply) \in Nat
<1>1. total \in Nat /\ pin_source.supply \in Nat \ {0}
  BY PinsTyped, OracleAssumption
<1> QED BY <1>1, AtMostShareValue

\* The end of a run leaves its variables at rest.
LEMMA ReturnTyped ==
  ASSUME NEW result \in Outcomes, Return(result)
  PROVE  /\ pc' \in Places /\ kind' \in Kinds /\ outcome' \in Outcomes
         /\ pin_source' \in SourceStates \cup {None}
         /\ pin_target' \in TargetStates \cup {None}
         /\ old_value' \in Nat /\ new_value' \in Nat /\ value' \in Nat
         /\ attempt' \in 0 .. 2
         /\ force' \in BOOLEAN
<1>1. /\ pc' = "idle" /\ kind' = "heartbeat" /\ outcome' = result
      /\ pin_source' = None /\ pin_target' = None
      /\ old_value' = 0 /\ new_value' = 0 /\ value' = 0 /\ attempt' = 0
  BY DEF Return
<1>2. force' \in BOOLEAN
  BY DEF Return
<1> QED BY <1>1, <1>2 DEF Places, Kinds

LEMMA TypeStep ==
  ASSUME TypeOK, TransfersInv, PinsInv, [Next]_vars
  PROVE  TypeOK'
<1> USE DEF Places, Kinds, Outcomes
<1>0. source \in SourceStates /\ target \in TargetStates
  BY DEF TypeOK
<1>1. CASE Start
  BY <1>1 DEF TypeOK, Start, chains
<1>2. CASE PinSource
  BY <1>2 DEF TypeOK, PinSource, chains
<1>3. CASE PinTarget
  BY <1>3 DEF TypeOK, PinTarget, chains, history
<1>4. CASE Decide
  <2> USE <1>4
  <2>1. PICK total \in {PinnedTotal} \cup WrongTotals :
          LET old == pin_source.oracle
              new == ShareValue(total, pin_source.supply)
          IN  /\ misread' = (total # PinnedTotal)
              /\ total # PinnedTotal => faults < MaxFaults
              /\ faults' = IF total # PinnedTotal THEN faults + 1 ELSE faults
              /\ IF TransferInFlight(pin_source, pin_target)
                 THEN Return("waiting")
                 ELSE \/ kind = "heartbeat" /\ DecideHeartbeat(old, new)
                      \/ kind = "resync" /\ DecideResync(old, new)
    BY DEF Decide
  <2> DEFINE old == pin_source.oracle
             new == ShareValue(total, pin_source.supply)
  <2>2. old \in Nat /\ new \in Nat /\ maxValue \in Nat
    BY PinsTyped, ReadingIsNatural, MaxValueIsNatural DEF Decide
  <2>3. write_value(old, new, maxValue) \in Nat
    BY <2>2, WriteValueIsNatural
  <2>4. faults' \in Nat /\ misread' \in BOOLEAN
    BY <2>1 DEF TypeOK
  <2>5. /\ source' = source /\ target' = target /\ pushed' = pushed
        /\ pulled' = pulled /\ writer' = writer /\ safe_writes' = safe_writes
        /\ disturbed' = disturbed
    BY DEF Decide, chains
  <2>6. \/ \E r \in Outcomes : Return(r)
        \/ Send(old, new, write_value(old, new, maxValue))
    BY <2>1 DEF DecideHeartbeat, DecideResync
  <2> HIDE DEF old, new
  <2>7. CASE \E r \in Outcomes : Return(r)
    BY <2>7, <2>4, <2>5, ReturnTyped DEF TypeOK
  <2>8. CASE Send(old, new, write_value(old, new, maxValue))
    BY <2>8, <2>2, <2>3, <2>4, <2>5 DEF TypeOK, Send
  <2> QED BY <2>6, <2>7, <2>8
<1>5. CASE EstimateAccepted
  BY <1>5 DEF TypeOK, EstimateAccepted, chains, history
<1>6. CASE EstimateAboveNav
  <2>1. write_value(old_value, new_value, maxValue) \in Nat
    BY MaxValueIsNatural, WriteValueIsNatural DEF TypeOK
  <2> QED BY <1>6, <2>1 DEF TypeOK, EstimateAboveNav, chains, history
<1>7. CASE EstimateFails \/ LandReverts \/ Break
  <2>1. /\ source' = source /\ target' = target /\ pushed' = pushed
        /\ pulled' = pulled /\ writer' = writer /\ safe_writes' = safe_writes
        /\ disturbed' = disturbed /\ misread' = misread
        /\ Return("failed")
    BY <1>7 DEF EstimateFails, LandReverts, Break, chains, history
  <2>2. faults' \in Nat
    BY <1>7 DEF EstimateFails, LandReverts, Break, TypeOK
  <2> QED BY <2>1, <2>2, ReturnTyped DEF TypeOK
<1>8. CASE Land
  <2>1. source' = [source EXCEPT !.oracle = value]
    BY <1>8 DEF Land
  <2>2. source.oracle \in Nat \ {0} /\ maxValue \in Nat /\ value \in Nat
    BY BackingIsNatural, MaxValueIsNatural DEF TypeOK
  <2>3. value \in Nat \ {0}
    BY <1>8, <2>2 DEF Land, InBand
  <2>4. /\ source' \in SourceStates /\ source'.sent = source.sent
        /\ source'.received = source.received
    BY <1>0, <2>1, <2>3 DEF SourceStates
  <2>5. /\ target' = target /\ pushed' = pushed /\ pulled' = pulled
        /\ writer' = "bot" /\ safe_writes' = safe_writes /\ faults' = faults
        /\ disturbed' = disturbed /\ misread' = misread
        /\ Return("written")
    BY <1>8 DEF Land
  <2> QED BY <2>4, <2>5, ReturnTyped DEF TypeOK
<1>9. ASSUME NEW amount \in Amounts, Deposit(amount) \/ Reward(amount)
      PROVE  TypeOK'
  <2>1. amount \in Nat
    BY OracleAssumption
  <2>2. ShareValue(amount, source.oracle) \in Nat
    BY <2>1, BackingIsNatural, AtMostShareValue
  <2>3. /\ source' \in SourceStates /\ source'.sent = source.sent
        /\ source'.received = source.received
    <3>1. CASE Deposit(amount)
      <4>1. source' = [source EXCEPT
              !.held = source.held + amount,
              !.supply = source.supply + ShareValue(amount, source.oracle)]
        BY <3>1 DEF Deposit
      <4>2. /\ source.held + amount \in Nat
            /\ source.supply + ShareValue(amount, source.oracle) \in Nat \ {0}
        BY <1>0, <2>1, <2>2 DEF SourceStates
      <4> QED BY <1>0, <4>1, <4>2 DEF SourceStates
    <3>2. CASE Reward(amount)
      <4>1. source' = [source EXCEPT !.held = source.held + amount]
        BY <3>2 DEF Reward
      <4>2. source.held + amount \in Nat
        BY <1>0, <2>1 DEF SourceStates
      <4> QED BY <1>0, <4>1, <4>2 DEF SourceStates
    <3> QED BY <1>9, <3>1, <3>2
  <2> QED BY <1>9, <2>3 DEF TypeOK, Deposit, Reward, run, history
<1>10. ASSUME NEW amount \in Amounts, PushToTarget(amount) PROVE TypeOK'
  <2>1. amount \in Nat /\ source.sent \in Nat /\ source.received \in Nat
    BY OracleAssumption DEF TypeOK, SourceStates
  <2>2. pushed' \in [0 .. source.sent + 1 -> Nat]
    BY <1>10, <2>1, TotalsGrow DEF PushToTarget, TypeOK, TransfersInv
  <2>3. /\ source' \in SourceStates /\ source'.sent = source.sent + 1
        /\ source'.received = source.received
    <3>1. source' = [source EXCEPT !.held = source.held - amount,
                                   !.sent = source.sent + 1]
      BY <1>10 DEF PushToTarget
    <3>2. source.held - amount \in Nat /\ source.sent + 1 \in Nat
      BY <1>0, <1>10, <2>1 DEF PushToTarget, SourceStates
    <3> QED BY <1>0, <3>1, <3>2 DEF SourceStates
  <2>4. target.received <= source'.sent
    BY <2>1, <2>3 DEF TypeOK, TargetStates
  <2> QED BY <1>10, <2>2, <2>3, <2>4 DEF TypeOK, PushToTarget, run, history
<1>11. ASSUME NEW amount \in Amounts, PushToSource(amount) PROVE TypeOK'
  <2>1. amount \in Nat /\ target.sent \in Nat /\ target.received \in Nat
    BY OracleAssumption DEF TypeOK, TargetStates
  <2>2. pulled' \in [0 .. target.sent + 1 -> Nat]
    BY <1>11, <2>1, TotalsGrow DEF PushToSource, TypeOK, TransfersInv
  <2>3. /\ target' \in TargetStates /\ target'.sent = target.sent + 1
        /\ target'.received = target.received
    BY <1>0, <1>11, <2>1 DEF TargetStates, PushToSource
  <2>4. source.received <= target'.sent
    BY <2>1, <2>3 DEF TypeOK, SourceStates
  <2> QED BY <1>11, <2>2, <2>3, <2>4 DEF TypeOK, PushToSource, run, history
<1>12. ASSUME NEW amount \in Amounts, Gain(amount) \/ Lose(amount)
       PROVE  TypeOK'
  <2>1. amount \in Nat
    BY OracleAssumption
  <2>2. /\ target' \in TargetStates /\ target'.sent = target.sent
        /\ target'.received = target.received
    <3>1. \/ target' = [target EXCEPT !.gained = target.gained + amount]
          \/ target' = [target EXCEPT !.lost = target.lost + amount]
      BY <1>12 DEF Gain, Lose
    <3>2. target.gained + amount \in Nat /\ target.lost + amount \in Nat
      BY <1>0, <2>1 DEF TargetStates
    <3> QED BY <1>0, <3>1, <3>2 DEF TargetStates
  <2> QED BY <1>12, <2>2 DEF TypeOK, Gain, Lose, run, history
<1>13. CASE DeliverAtTarget
  <2>1. /\ target' \in TargetStates /\ target'.sent = target.sent
        /\ target'.received <= source.sent
    <3>1. target' = [target EXCEPT !.received = target.received + 1]
      BY <1>13 DEF DeliverAtTarget
    <3>2. target.received + 1 \in Nat /\ target.received + 1 <= source.sent
      BY <1>0, <1>13 DEF DeliverAtTarget, SourceStates, TargetStates
    <3> QED BY <1>0, <3>1, <3>2 DEF TargetStates
  <2> QED BY <1>13, <2>1 DEF TypeOK, DeliverAtTarget, run, history
<1>14. CASE DeliverAtSource
  <2>1. /\ source.received \in 0 .. target.sent
        /\ source.received + 1 \in 0 .. target.sent
    <3>1. source.received \in Nat /\ target.sent \in Nat
      BY <1>0 DEF SourceStates, TargetStates
    <3>2. source.received < target.sent
      BY <1>14 DEF DeliverAtSource
    <3> QED BY <3>1, <3>2
  <2>2. /\ pulled[source.received] \in Nat /\ pulled[source.received + 1] \in Nat
        /\ pulled[source.received] <= pulled[source.received + 1]
    BY <2>1 DEF TypeOK, TransfersInv, Grows
  <2>3. /\ source' \in SourceStates /\ source'.sent = source.sent
        /\ source'.received <= target.sent
    <3>1. source' = [source EXCEPT
            !.held = source.held + pulled[source.received + 1]
                     - pulled[source.received],
            !.received = source.received + 1]
      BY <1>14 DEF DeliverAtSource
    <3>2. /\ source.held + pulled[source.received + 1]
             - pulled[source.received] \in Nat
          /\ source.received + 1 \in Nat
          /\ source.received + 1 <= target.sent
      BY <1>0, <1>14, <2>2 DEF DeliverAtSource, SourceStates, TargetStates
    <3> QED BY <1>0, <3>1, <3>2 DEF SourceStates
  <2> QED BY <1>14, <2>3 DEF TypeOK, DeliverAtSource, run, history
<1>15. ASSUME NEW v \in Prices, SafeSets(v) PROVE TypeOK'
  <2>1. v \in Nat \ {0}
    BY OracleAssumption
  <2>2. /\ source' \in SourceStates /\ source'.sent = source.sent
        /\ source'.received = source.received
    BY <1>0, <1>15, <2>1 DEF SourceStates, SafeSets
  <2> QED BY <1>15, <2>2 DEF TypeOK, SafeSets, run
<1>16. CASE UNCHANGED vars
  BY <1>16 DEF TypeOK, vars, chains, run, history
<1> QED
  BY <1>1, <1>2, <1>3, <1>4, <1>5, <1>6, <1>7, <1>8, <1>9, <1>10, <1>11, <1>12,
     <1>13, <1>14, <1>15, <1>16 DEF Next, Run, Chain

\* No step rewrites what was sent before it.
LEMMA PastKept ==
  ASSUME TypeOK, TransfersInv, [Next]_vars
  PROVE  /\ \A n \in 0 .. source.sent : pushed'[n] = pushed[n]
         /\ \A n \in 0 .. target.sent : pulled'[n] = pulled[n]
         /\ source.sent <= source'.sent /\ target.sent <= target'.sent
<1>0. source \in SourceStates /\ target \in TargetStates
  BY DEF TypeOK
<1>1. source.sent \in Nat /\ target.sent \in Nat
  BY <1>0 DEF SourceStates, TargetStates
<1>2. ASSUME NEW amount \in Amounts, PushToTarget(amount)
      PROVE  /\ \A n \in 0 .. source.sent : pushed'[n] = pushed[n]
             /\ pulled' = pulled /\ target' = target
             /\ source'.sent = source.sent + 1
  <2>1. amount \in Nat
    BY OracleAssumption
  <2>2. pushed' = Totals(pushed, source.sent, amount)
    BY <1>2 DEF PushToTarget
  <2>3. source'.sent = source.sent + 1
    BY <1>2, <1>0 DEF PushToTarget, SourceStates
  <2>4. \A n \in 0 .. source.sent : pushed'[n] = pushed[n]
    <3>1. pushed \in [0 .. source.sent -> Nat] /\ Grows(pushed, source.sent)
      BY DEF TypeOK, TransfersInv
    <3>2. /\ Grows(Totals(pushed, source.sent, amount), source.sent + 1)
          /\ \A m \in 0 .. source.sent :
               Totals(pushed, source.sent, amount)[m] = pushed[m]
          /\ Totals(pushed, source.sent, amount)[source.sent + 1]
               = pushed[source.sent] + amount
      BY <1>1, <2>1, <3>1, TotalsGrow
    <3> QED BY <2>2, <3>2
  <2> QED BY <1>2, <2>3, <2>4 DEF PushToTarget
<1>3. ASSUME NEW amount \in Amounts, PushToSource(amount)
      PROVE  /\ \A n \in 0 .. target.sent : pulled'[n] = pulled[n]
             /\ pushed' = pushed /\ source' = source
             /\ target'.sent = target.sent + 1
  <2>1. amount \in Nat
    BY OracleAssumption
  <2>2. pulled' = Totals(pulled, target.sent, amount)
    BY <1>3 DEF PushToSource
  <2>3. target'.sent = target.sent + 1
    BY <1>3, <1>0 DEF PushToSource, TargetStates
  <2>4. \A n \in 0 .. target.sent : pulled'[n] = pulled[n]
    <3>1. pulled \in [0 .. target.sent -> Nat] /\ Grows(pulled, target.sent)
      BY DEF TypeOK, TransfersInv
    <3>2. /\ Grows(Totals(pulled, target.sent, amount), target.sent + 1)
          /\ \A m \in 0 .. target.sent :
               Totals(pulled, target.sent, amount)[m] = pulled[m]
          /\ Totals(pulled, target.sent, amount)[target.sent + 1]
               = pulled[target.sent] + amount
      BY <1>1, <2>1, <3>1, TotalsGrow
    <3> QED BY <2>2, <3>2
  <2> QED BY <1>3, <2>3, <2>4 DEF PushToSource
<1>4. ASSUME NEW amount \in Amounts,
             Deposit(amount) \/ Reward(amount) \/ Gain(amount) \/ Lose(amount)
      PROVE  /\ pushed' = pushed /\ pulled' = pulled
             /\ source'.sent = source.sent /\ target'.sent = target.sent
  BY <1>4, <1>0 DEF Deposit, Reward, Gain, Lose, SourceStates, TargetStates
<1>5. CASE DeliverAtTarget \/ DeliverAtSource \/ Land
           \/ \E v \in Prices : SafeSets(v)
  <2>1. /\ pushed' = pushed /\ pulled' = pulled
        /\ source'.sent = source.sent /\ target'.sent = target.sent
    BY <1>5, <1>0
    DEF DeliverAtTarget, DeliverAtSource, Land, SafeSets, SourceStates,
        TargetStates
  <2> QED BY <2>1, <1>1
<1>6. CASE UNCHANGED chains
  BY <1>6, <1>1 DEF chains
<1>7. \/ UNCHANGED chains \/ Land \/ Chain
  BY DEF Next, Run, Start, PinSource, PinTarget, Decide, EstimateAccepted,
         EstimateAboveNav, EstimateFails, LandReverts, Break, vars
<1> QED BY <1>1, <1>2, <1>3, <1>4, <1>5, <1>6, <1>7 DEF Chain

LEMMA TransfersStep ==
  ASSUME TypeOK, TransfersInv, [Next]_vars
  PROVE  TransfersInv'
<1>0. source \in SourceStates /\ target \in TargetStates
  BY DEF TypeOK
<1>1. /\ source.sent \in Nat /\ target.sent \in Nat
      /\ source.received \in Nat /\ target.received \in Nat
      /\ target.gained \in Nat /\ target.lost \in Nat
      /\ target.received \in 0 .. source.sent
      /\ source.received \in 0 .. target.sent
  BY <1>0 DEF TypeOK, SourceStates, TargetStates
<1>2. pushed[target.received] \in Nat /\ pulled[target.sent] \in Nat
  BY <1>1 DEF TypeOK
<1>3. ASSUME NEW amount \in Amounts, PushToTarget(amount) PROVE TransfersInv'
  <2>1. amount \in Nat
    BY OracleAssumption
  <2>2. pushed' = Totals(pushed, source.sent, amount)
        /\ pulled' = pulled /\ target' = target
    BY <1>3 DEF PushToTarget
  <2>3. source'.sent = source.sent + 1
    BY <1>3, <1>0 DEF PushToTarget, SourceStates
  <2>4. /\ Grows(pushed', source'.sent)
        /\ pushed'[target.received] = pushed[target.received]
    <3>1. pushed \in [0 .. source.sent -> Nat] /\ Grows(pushed, source.sent)
      BY DEF TypeOK, TransfersInv
    <3>2. source.sent \in Nat
      BY <1>1
    <3>3. /\ Grows(Totals(pushed, source.sent, amount), source.sent + 1)
          /\ \A m \in 0 .. source.sent :
               Totals(pushed, source.sent, amount)[m] = pushed[m]
          /\ Totals(pushed, source.sent, amount)[source.sent + 1]
               = pushed[source.sent] + amount
      BY <2>1, <3>1, <3>2, TotalsGrow
    <3> QED BY <1>1, <2>2, <2>3, <3>3
  <2> QED BY <2>2, <2>4 DEF TransfersInv, getTargetValue
<1>4. ASSUME NEW amount \in Amounts, PushToSource(amount) PROVE TransfersInv'
  <2>1. amount \in Nat
    BY OracleAssumption
  <2>2. pulled' = Totals(pulled, target.sent, amount)
        /\ pushed' = pushed /\ source' = source
    BY <1>4 DEF PushToSource
  <2>3. /\ target'.sent = target.sent + 1
        /\ target'.received = target.received
        /\ target'.gained = target.gained /\ target'.lost = target.lost
    BY <1>4, <1>0 DEF PushToSource, TargetStates
  <2>4. /\ Grows(pulled', target'.sent)
        /\ pulled'[target'.sent] = pulled[target.sent] + amount
    <3>1. pulled \in [0 .. target.sent -> Nat] /\ Grows(pulled, target.sent)
      BY DEF TypeOK, TransfersInv
    <3>2. target.sent \in Nat
      BY <1>1
    <3>3. /\ Grows(Totals(pulled, target.sent, amount), target.sent + 1)
          /\ \A m \in 0 .. target.sent :
               Totals(pulled, target.sent, amount)[m] = pulled[m]
          /\ Totals(pulled, target.sent, amount)[target.sent + 1]
               = pulled[target.sent] + amount
      BY <2>1, <3>1, <3>2, TotalsGrow
    <3> QED BY <1>1, <2>2, <2>3, <3>3
  <2>5. amount <= pushed[target.received] - pulled[target.sent] - target.lost
    BY <1>4, <1>1, <1>2, <2>1 DEF PushToSource, getTargetValue
  <2>6. pulled'[target'.sent] <= pushed'[target'.received]
    BY <1>1, <1>2, <2>1, <2>2, <2>3, <2>4, <2>5
  <2>7. getTargetValue(target)' >= 0
    BY <1>1, <1>2, <2>1, <2>2, <2>3, <2>4, <2>5 DEF getTargetValue
  <2> QED BY <2>2, <2>4, <2>6, <2>7 DEF TransfersInv
<1>5. ASSUME NEW amount \in Amounts, Gain(amount) \/ Lose(amount)
      PROVE  TransfersInv'
  <2>1. amount \in Nat
    BY OracleAssumption
  <2>2. /\ source' = source /\ pushed' = pushed /\ pulled' = pulled
        /\ target'.sent = target.sent /\ target'.received = target.received
        /\ \/ /\ target'.gained = target.gained + amount
              /\ target'.lost = target.lost
           \/ /\ target'.gained = target.gained
              /\ target'.lost = target.lost + amount
              /\ amount <= getTargetValue(target)
    BY <1>5, <1>0 DEF Gain, Lose, TargetStates
  <2>3. getTargetValue(target)' >= 0
    BY <1>1, <1>2, <2>1, <2>2 DEF TransfersInv, getTargetValue
  <2> QED BY <2>2, <2>3 DEF TransfersInv
<1>6. CASE DeliverAtTarget
  <2>1. /\ source' = source /\ pushed' = pushed /\ pulled' = pulled
        /\ target'.sent = target.sent
        /\ target'.received = target.received + 1
        /\ target'.gained = target.gained /\ target'.lost = target.lost
        /\ target.received + 1 \in 0 .. source.sent
    BY <1>6, <1>0, <1>1 DEF DeliverAtTarget, TargetStates
  <2>2. /\ pushed[target.received] <= pushed[target.received + 1]
        /\ pushed[target.received + 1] \in Nat
    BY <1>1, <2>1 DEF TransfersInv, Grows, TypeOK
  <2>3. getTargetValue(target)' >= 0
    BY <1>1, <1>2, <2>1, <2>2 DEF TransfersInv, getTargetValue
  <2>4. pulled[target.sent] <= pushed[target.received + 1]
    BY <1>1, <1>2, <2>2 DEF TransfersInv
  <2> QED BY <2>1, <2>3, <2>4 DEF TransfersInv
<1>7. ASSUME /\ pushed' = pushed /\ pulled' = pulled /\ target' = target
             /\ source'.sent = source.sent
      PROVE  TransfersInv'
  BY <1>7 DEF TransfersInv, getTargetValue
<1>8. CASE DeliverAtSource \/ Land \/ (\E v \in Prices : SafeSets(v))
           \/ \E amount \in Amounts : Deposit(amount) \/ Reward(amount)
  BY <1>8, <1>7, <1>0
  DEF DeliverAtSource, Land, SafeSets, Deposit, Reward, SourceStates
<1>9. CASE UNCHANGED chains
  BY <1>9, <1>7 DEF chains
<1>10. \/ UNCHANGED chains \/ Land \/ Chain
  BY DEF Next, Run, Start, PinSource, PinTarget, Decide, EstimateAccepted,
         EstimateAboveNav, EstimateFails, LandReverts, Break, vars
<1> QED BY <1>3, <1>4, <1>5, <1>6, <1>8, <1>9, <1>10 DEF Chain

\* What was pinned means the same after any step.
LEMMA PinnedKept ==
  ASSUME TypeOK, TransfersInv, PinsInv, [Next]_vars
  PROVE  /\ pin_source # None /\ pin_source' = pin_source =>
              /\ Backing(pin_source)' = Backing(pin_source)
              /\ pin_source.sent <= source'.sent
              /\ pin_source.received <= target'.sent
         /\ pin_target # None /\ pin_target' = pin_target =>
              /\ getTargetValue(pin_target)' = getTargetValue(pin_target)
              /\ pin_target.received <= source'.sent
              /\ pin_target.sent <= target'.sent
<1>1. /\ source.sent \in Nat /\ target.sent \in Nat
      /\ source'.sent \in Nat /\ target'.sent \in Nat
  BY TypeStep DEF TypeOK, SourceStates, TargetStates
<1>2. /\ \A n \in 0 .. source.sent : pushed'[n] = pushed[n]
      /\ \A n \in 0 .. target.sent : pulled'[n] = pulled[n]
      /\ source.sent <= source'.sent /\ target.sent <= target'.sent
  BY PastKept
<1>3. ASSUME pin_source # None, pin_source' = pin_source
      PROVE  /\ Backing(pin_source)' = Backing(pin_source)
             /\ pin_source.sent <= source'.sent
             /\ pin_source.received <= target'.sent
  <2>1. pin_source.sent \in Nat /\ pin_source.received \in Nat
    BY <1>3 DEF TypeOK, SourceStates
  <2>2. pin_source.sent <= source.sent /\ pin_source.received <= target.sent
    BY <1>3 DEF PinsInv
  <2>3. /\ pin_source.sent \in 0 .. source.sent
        /\ pin_source.received \in 0 .. target.sent
    BY <2>1, <2>2, <1>1
  <2>4. Backing(pin_source)' = Backing(pin_source)
    BY <2>3, <1>2, <1>3 DEF Backing, locked
  <2> QED BY <2>1, <2>2, <2>4, <1>1, <1>2
<1>4. ASSUME pin_target # None, pin_target' = pin_target
      PROVE  /\ getTargetValue(pin_target)' = getTargetValue(pin_target)
             /\ pin_target.received <= source'.sent
             /\ pin_target.sent <= target'.sent
  <2>1. pin_target.sent \in Nat /\ pin_target.received \in Nat
    BY <1>4 DEF TypeOK, TargetStates
  <2>2. pin_target.received <= source.sent /\ pin_target.sent <= target.sent
    BY <1>4 DEF PinsInv
  <2>3. /\ pin_target.received \in 0 .. source.sent
        /\ pin_target.sent \in 0 .. target.sent
    BY <2>1, <2>2, <1>1
  <2>4. getTargetValue(pin_target)' = getTargetValue(pin_target)
    BY <2>3, <1>2, <1>4 DEF getTargetValue
  <2> QED BY <2>1, <2>2, <2>4, <1>1, <1>2
<1> QED BY <1>3, <1>4

\* The ways a step moves the run: it does not, it begins or reads a chain, it
\* returns, it decides to send, or it gets on with the send.
LEMMA RunMoves ==
  ASSUME [Next]_vars
  PROVE  \/ UNCHANGED <<run, misread>>
         \/ Start \/ PinSource \/ PinTarget
         \/ \E result \in Outcomes : Return(result)
         \/ /\ Decide
            /\ ~TransferInFlight(pin_source, pin_target)
            /\ \E total \in {PinnedTotal} \cup WrongTotals :
                 /\ misread' = (total # PinnedTotal)
                 /\ \/ DecideHeartbeat(pin_source.oracle,
                         ShareValue(total, pin_source.supply))
                    \/ DecideResync(pin_source.oracle,
                         ShareValue(total, pin_source.supply))
         \/ EstimateAccepted \/ EstimateAboveNav
<1>1. CASE Decide
  BY <1>1 DEF Decide, Outcomes
<1>2. CASE EstimateFails \/ Land \/ LandReverts \/ Break
  BY <1>2 DEF EstimateFails, Land, LandReverts, Break, Outcomes
<1>3. CASE Chain
  BY <1>3 DEF Chain, Deposit, Reward, PushToTarget, PushToSource, Gain, Lose,
     DeliverAtTarget, DeliverAtSource, SafeSets, history
<1>4. CASE UNCHANGED vars
  BY <1>4 DEF vars, history
<1> QED BY <1>1, <1>2, <1>3, <1>4 DEF Next, Run

\* A decision sends, or it returns.
LEMMA Decides ==
  ASSUME NEW old, NEW new, DecideHeartbeat(old, new) \/ DecideResync(old, new)
  PROVE  \/ \E result \in Outcomes : Return(result)
         \/ /\ Send(old, new, write_value(old, new, maxValue))
            /\ \/ ~heartbeat_refuses(old, new, maxValue, force)
               \/ ~resync_refuses(old, new, maxValue)
  BY DEF DecideHeartbeat, DecideResync, Outcomes

LEMMA PinsStep ==
  ASSUME TypeOK, TransfersInv, PinsInv, [Next]_vars
  PROVE  PinsInv'
<1>1. TypeOK' /\ TransfersInv'
  BY TypeStep, TransfersStep
<1>2. CASE /\ pin_source' = pin_source /\ pin_target' = pin_target
           /\ \/ pc' = pc
              \/ pc' = "reading"
              \/ /\ pc' \in {"estimating", "flying"}
                 /\ pin_source # None /\ pin_target # None
  BY <1>2, PinnedKept DEF PinsInv
<1>3. ASSUME NEW result \in Outcomes, Return(result) PROVE PinsInv'
  BY <1>3 DEF PinsInv, Return
<1>4. CASE PinSource
  <2>1. /\ pin_source' = source /\ pin_target' = pin_target
        /\ source' = source /\ target' = target /\ pc' = "reading"
    BY <1>4 DEF PinSource, chains
  <2>2. source.sent \in Nat /\ source.received <= target.sent
    BY DEF TypeOK, SourceStates
  <2> QED BY <2>1, <2>2, PinnedKept DEF PinsInv
<1>5. CASE PinTarget
  <2>1. /\ pin_target' = target /\ pin_source' = pin_source
        /\ source' = source /\ target' = target /\ pc' = "reading"
        /\ pushed' = pushed /\ pulled' = pulled
    BY <1>5 DEF PinTarget, chains
  <2>2. /\ target.sent \in Nat /\ target.received <= source.sent
        /\ getTargetValue(target) >= 0
    BY DEF TypeOK, TargetStates, TransfersInv
  <2>3. getTargetValue(pin_target)' >= 0
    BY <2>1, <2>2 DEF getTargetValue
  <2> QED BY <2>1, <2>2, <2>3, PinnedKept DEF PinsInv
<1>6. CASE UNCHANGED <<run, misread>> \/ Start \/ EstimateAccepted
           \/ EstimateAboveNav
  <2>1. CASE UNCHANGED <<run, misread>>
    <3>1. pin_source' = pin_source /\ pin_target' = pin_target /\ pc' = pc
      BY <2>1 DEF run
    <3> QED BY <1>2, <3>1
  <2>2. CASE Start
    <3>1. /\ pin_source' = pin_source /\ pin_target' = pin_target
          /\ pc = "idle" /\ pc' = "reading"
      BY <2>2 DEF Start
    <3> QED BY <1>2, <3>1
  <2>3. CASE EstimateAccepted \/ EstimateAboveNav
    <3>1. pc = "estimating" /\ pc' \in {"estimating", "flying"}
      BY <2>3 DEF EstimateAccepted, EstimateAboveNav
    <3>2. pin_source # None /\ pin_target # None
      BY <3>1 DEF PinsInv
    <3> QED BY <1>2, <2>3, <3>1, <3>2 DEF EstimateAccepted, EstimateAboveNav
  <2> QED BY <1>6, <2>1, <2>2, <2>3
<1>7. ASSUME Decide, NEW new,
             DecideHeartbeat(pin_source.oracle, new)
               \/ DecideResync(pin_source.oracle, new)
      PROVE  PinsInv'
  <2>1. pin_source # None /\ pin_target # None
    BY <1>7 DEF Decide
  <2>2. CASE Send(pin_source.oracle, new,
                  write_value(pin_source.oracle, new, maxValue))
    BY <1>2, <2>1, <2>2 DEF Send
  <2> QED BY <1>7, <1>3, <2>2, Decides
<1> QED BY <1>3, <1>4, <1>5, <1>6, <1>7, RunMoves

\* A reading whose nonces agree is what the source block alone backed.
LEMMA NoncesAgree ==
  ASSUME TypeOK, PinsInv, pin_source # None, pin_target # None,
         ~TransferInFlight(pin_source, pin_target)
  PROVE  PinnedTotal
           = Backing(pin_source) + pin_target.gained - pin_target.lost
<1>1. /\ pin_source \in SourceStates /\ pin_target \in TargetStates
      /\ source.sent \in Nat /\ target.sent \in Nat
  BY DEF TypeOK, SourceStates, TargetStates
<1>2. /\ pin_source.sent = pin_target.received
      /\ pin_source.received = pin_target.sent
  BY DEF TransferInFlight
<1>3. /\ pin_source.sent \in 0 .. source.sent
      /\ pin_source.received \in 0 .. target.sent
  BY <1>1, <1>2 DEF PinsInv, SourceStates, TargetStates
<1>4. pushed[pin_source.sent] \in Nat /\ pulled[pin_source.received] \in Nat
  BY <1>3 DEF TypeOK
<1>5. /\ pin_source.held \in Nat
      /\ pin_target.gained \in Nat /\ pin_target.lost \in Nat
  BY <1>1 DEF SourceStates, TargetStates
<1> QED
  BY <1>2, <1>4, <1>5 DEF PinnedTotal, getTargetValue, Backing, locked

LEMMA ReadingStep ==
  ASSUME TypeOK, TransfersInv, PinsInv, ReadingComplete, [Next]_vars
  PROVE  ReadingComplete'
<1>1. CASE /\ pc' \in {"estimating", "flying"} =>
                 pc \in {"estimating", "flying"}
           /\ new_value' = new_value /\ misread' = misread
           /\ pin_source' = pin_source /\ pin_target' = pin_target
  <2>1. ASSUME pc' \in {"estimating", "flying"}
        PROVE  /\ pin_source # None
               /\ Backing(pin_source)' = Backing(pin_source)
    BY <1>1, <2>1, PinnedKept DEF PinsInv
  <2> QED BY <1>1, <2>1 DEF ReadingComplete, ShareValue
<1>2. ASSUME pc' \in {"idle", "reading"} PROVE ReadingComplete'
  BY <1>2 DEF ReadingComplete
<1>3. CASE Start \/ PinSource \/ PinTarget
           \/ \E result \in Outcomes : Return(result)
  BY <1>2, <1>3 DEF Start, PinSource, PinTarget, Return
<1>4. CASE EstimateAccepted \/ EstimateAboveNav
  BY <1>1, <1>4 DEF EstimateAccepted, EstimateAboveNav, history
<1>5. CASE UNCHANGED <<run, misread>>
  BY <1>1, <1>5 DEF run
<1>6. ASSUME Decide, ~TransferInFlight(pin_source, pin_target),
             NEW total \in {PinnedTotal} \cup WrongTotals,
             misread' = (total # PinnedTotal),
             \/ DecideHeartbeat(pin_source.oracle,
                  ShareValue(total, pin_source.supply))
             \/ DecideResync(pin_source.oracle,
                  ShareValue(total, pin_source.supply))
      PROVE  ReadingComplete'
  <2>1. /\ pin_source # None /\ pin_target # None
        /\ pushed' = pushed /\ pulled' = pulled
    BY <1>6 DEF Decide, chains
  <2>2. CASE Send(pin_source.oracle, ShareValue(total, pin_source.supply),
                  write_value(pin_source.oracle,
                    ShareValue(total, pin_source.supply), maxValue))
    <3>1. /\ new_value' = ShareValue(total, pin_source.supply)
          /\ pin_source' = pin_source /\ pin_target' = pin_target
      BY <2>2 DEF Send
    <3>2. ~misread' => total = Backing(pin_source) + pin_target.gained
                               - pin_target.lost
      BY <1>6, <2>1, NoncesAgree
    <3>3. Backing(pin_source)' = Backing(pin_source)
      BY <2>1, <3>1 DEF Backing, locked
    <3> QED BY <3>1, <3>2, <3>3 DEF ReadingComplete, ShareValue
  <2> QED BY <1>3, <1>6, <2>2, Decides
<1> QED BY <1>3, <1>4, <1>5, <1>6, RunMoves

LEMMA SourceAtFirst ==
  ASSUME Init
  PROVE  /\ source.held \in Nat /\ source.supply \in Nat \ {0}
         /\ source.oracle \in Nat \ {0} /\ source.sent = 0
         /\ source.received = 0 /\ source \in SourceStates
<1>1. source \in [held : Holdings, supply : Shares, oracle : Prices,
                  sent : {0}, received : {0}]
  BY DEF Init
<1>2. /\ \A n \in Holdings : n \in Nat
      /\ \A n \in Shares \cup Prices : n \in Nat \ {0}
  BY OracleAssumption
<1>3. /\ source.held \in Holdings /\ source.supply \in Shares
      /\ source.oracle \in Prices
      /\ source.sent = 0 /\ source.received = 0
  BY <1>1
<1>4. source = [held |-> source.held, supply |-> source.supply,
                oracle |-> source.oracle, sent |-> source.sent,
                received |-> source.received]
  BY <1>1
<1> QED BY <1>2, <1>3, <1>4 DEF SourceStates

\* The invariant of the reading holds throughout.
LEMMA ReadInvariant == Spec => []ReadInv
<1>1. Init => ReadInv
  <2> SUFFICES ASSUME Init PROVE ReadInv
    OBVIOUS
  <2>1. /\ source.held \in Nat /\ source.supply \in Nat \ {0}
        /\ source.oracle \in Nat \ {0} /\ source.sent = 0 /\ source.received = 0
        /\ source \in SourceStates
    BY SourceAtFirst
  <2>2. /\ target \in TargetStates /\ target.sent = 0 /\ target.received = 0
        /\ target.gained = 0 /\ target.lost = 0
    BY DEF Init, TargetStates
  <2>3. /\ pushed \in [0 .. 0 -> Nat] /\ pulled \in [0 .. 0 -> Nat]
        /\ pushed[0] = 0 /\ pulled[0] = 0
    BY DEF Init
  <2>4. TypeOK
    <3>1. /\ pushed \in [0 .. source.sent -> Nat]
          /\ pulled \in [0 .. target.sent -> Nat]
      BY <2>1, <2>2, <2>3
    <3>2. /\ pc = "idle" /\ kind = "heartbeat" /\ outcome = "none"
          /\ pin_source = None /\ pin_target = None
          /\ old_value = 0 /\ new_value = 0 /\ value = 0 /\ attempt = 0
          /\ faults = 0 /\ safe_writes = 0 /\ writer = "safe"
      BY DEF Init
    <3>3. {force, disturbed, misread} \subseteq BOOLEAN
      BY DEF Init
    <3>4. target.received <= source.sent /\ source.received <= target.sent
      BY <2>1, <2>2
    <3> QED
      BY <2>1, <2>2, <3>1, <3>2, <3>3, <3>4
      DEF TypeOK, Places, Kinds, Outcomes
  <2>5. TransfersInv
    BY <2>1, <2>2, <2>3 DEF TransfersInv, Grows, getTargetValue
  <2>6. PinsInv /\ ReadingComplete
    BY DEF Init, PinsInv, ReadingComplete
  <2> QED BY <2>4, <2>5, <2>6 DEF ReadInv
<1>2. ReadInv /\ [Next]_vars => ReadInv'
  BY TypeStep, TransfersStep, PinsStep, ReadingStep DEF ReadInv
<1> QED BY <1>1, <1>2, PTL DEF Spec

\* Type correctness.
THEOREM TypeCorrect == Spec => []TypeOK
<1>1. ReadInv => TypeOK
  BY DEF ReadInv
<1> QED BY <1>1, ReadInvariant, PTL

\* Read at two moments on two chains, every transfer is counted once.
THEOREM ReadingsAreComplete == Spec => []ReadingComplete
<1>1. ReadInv => ReadingComplete
  BY DEF ReadInv
<1> QED BY <1>1, ReadInvariant, PTL

---------------------------------------------------------------------------
(* A price the bot wrote is backed, and stays so.                          *)

\* Until the Safe has written, the price at first is backed as well.
Backed == writer = "bot" \/ safe_writes = 0 => source.oracle <= maxValue

\* The source chain's assets and shares stay as they are.
Unmoved ==
  Backing(source)' = Backing(source) /\ source'.supply = source.supply

Untouched ==
  /\ source'.oracle = source.oracle
  /\ writer' = writer /\ safe_writes' = safe_writes

Grown(amount) ==
  /\ Backing(source)' = Backing(source) + amount
  /\ source'.supply \in {source.supply,
                         source.supply + ShareValue(amount, source.oracle)}

\* What any step is, seen from the source chain.
LEMMA SourceMoves ==
  ASSUME TypeOK, TransfersInv, [Next]_vars
  PROVE  \/ Unmoved /\ Untouched
         \/ Untouched /\ \E amount \in Amounts : Grown(amount)
         \/ Unmoved /\ Land /\ source'.oracle = value
         \/ Unmoved /\ \E v \in Prices : SafeSets(v) /\ source'.oracle = v
<1>0. source \in SourceStates /\ target \in TargetStates
  BY DEF TypeOK
<1>1. /\ Backing(source) \in Nat /\ source.supply \in Nat \ {0}
      /\ source.oracle \in Nat \ {0} /\ source.held \in Nat
      /\ source.sent \in 0 .. source.sent
      /\ source.received \in 0 .. target.sent
      /\ pushed[source.sent] \in Nat /\ pulled[source.received] \in Nat
  <2>1. /\ source.sent \in 0 .. source.sent
        /\ source.received \in 0 .. target.sent
    BY <1>0 DEF TypeOK, SourceStates, TargetStates
  <2> QED BY <2>1, BackingIsNatural DEF TypeOK
<1>3. CASE UNCHANGED <<chains, writer, safe_writes>>
  <2>1. Backing(source)' = Backing(source)
    BY <1>3 DEF chains, Backing, locked
  <2> QED BY <1>3, <2>1 DEF chains, Unmoved, Untouched
<1>4. ASSUME NEW amount \in Amounts, Deposit(amount) \/ Reward(amount)
      PROVE  Untouched /\ Grown(amount)
  <2>1. amount \in Nat
    BY OracleAssumption
  <2>2. /\ source'.held = source.held + amount
        /\ source'.supply \in {source.supply,
                               source.supply + ShareValue(amount, source.oracle)}
        /\ source'.oracle = source.oracle
        /\ source'.sent = source.sent /\ source'.received = source.received
        /\ pushed' = pushed /\ pulled' = pulled
        /\ writer' = writer /\ safe_writes' = safe_writes
    BY <1>4, <1>0 DEF Deposit, Reward, SourceStates, history
  <2>3. Backing(source)' = Backing(source) + amount
    BY <1>1, <2>1, <2>2 DEF Backing, locked
  <2> QED BY <2>2, <2>3 DEF Untouched, Grown
<1>6. ASSUME NEW amount \in Amounts, PushToTarget(amount)
      PROVE  Unmoved /\ Untouched
  <2>1. amount \in Nat
    BY OracleAssumption
  <2>2. /\ source'.held = source.held - amount
        /\ source'.sent = source.sent + 1
        /\ source'.supply = source.supply /\ source'.oracle = source.oracle
        /\ source'.received = source.received /\ pulled' = pulled
        /\ writer' = writer /\ safe_writes' = safe_writes
    BY <1>6, <1>0 DEF PushToTarget, SourceStates, history
  <2>3. pushed'[source.sent + 1] = pushed[source.sent] + amount
    <3>1. pushed \in [0 .. source.sent -> Nat] /\ Grows(pushed, source.sent)
      BY DEF TypeOK, TransfersInv
    <3>2. source.sent \in Nat
      BY <1>0 DEF SourceStates
    <3> QED BY <1>6, <2>1, <3>1, <3>2, TotalsGrow DEF PushToTarget
  <2>4. Backing(source)' = Backing(source)
    BY <1>1, <2>1, <2>2, <2>3 DEF Backing, locked
  <2> QED BY <2>2, <2>4 DEF Unmoved, Untouched
<1>7. ASSUME NEW amount \in Amounts, PushToSource(amount)
      PROVE  Unmoved /\ Untouched
  <2>1. source' = source /\ pushed' = pushed
        /\ writer' = writer /\ safe_writes' = safe_writes
    BY <1>7 DEF PushToSource, history
  <2>2. pulled'[source.received] = pulled[source.received]
    BY <1>1, PastKept
  <2>3. Backing(source)' = Backing(source)
    BY <2>1, <2>2 DEF Backing, locked
  <2> QED BY <2>1, <2>3 DEF Unmoved, Untouched
<1>8. CASE DeliverAtSource
  <2>1. /\ source'.held = source.held + pulled[source.received + 1]
                          - pulled[source.received]
        /\ source'.received = source.received + 1
        /\ source'.supply = source.supply /\ source'.oracle = source.oracle
        /\ source'.sent = source.sent
        /\ pushed' = pushed /\ pulled' = pulled
        /\ writer' = writer /\ safe_writes' = safe_writes
    BY <1>8, <1>0 DEF DeliverAtSource, SourceStates, history
  <2>2. source.received + 1 \in 0 .. target.sent
    BY <1>0, <1>8 DEF DeliverAtSource, SourceStates, TargetStates
  <2>3. pulled[source.received + 1] \in Nat
    BY <2>2 DEF TypeOK
  <2>4. Backing(source)' = Backing(source)
    BY <1>1, <2>1, <2>3 DEF Backing, locked
  <2> QED BY <2>1, <2>4 DEF Unmoved, Untouched
<1>9. CASE DeliverAtTarget
           \/ \E amount \in Amounts : Gain(amount) \/ Lose(amount)
  <2>1. /\ source' = source /\ pushed' = pushed /\ pulled' = pulled
        /\ writer' = writer /\ safe_writes' = safe_writes
    BY <1>9 DEF DeliverAtTarget, Gain, Lose, history
  <2>2. Backing(source)' = Backing(source)
    BY <2>1 DEF Backing, locked
  <2> QED BY <2>1, <2>2 DEF Unmoved, Untouched
<1>10. CASE Land
  <2>1. /\ source'.oracle = value
        /\ source'.supply = source.supply /\ source'.held = source.held
        /\ source'.sent = source.sent /\ source'.received = source.received
        /\ pushed' = pushed /\ pulled' = pulled
    BY <1>10, <1>0 DEF Land, SourceStates
  <2> QED BY <1>10, <2>1 DEF Unmoved, Backing, locked
<1>11. ASSUME NEW v \in Prices, SafeSets(v)
       PROVE  Unmoved /\ source'.oracle = v
  <2>1. /\ source'.oracle = v
        /\ source'.supply = source.supply /\ source'.held = source.held
        /\ source'.sent = source.sent /\ source'.received = source.received
        /\ pushed' = pushed /\ pulled' = pulled
    BY <1>11, <1>0 DEF SafeSets, SourceStates
  <2> QED BY <2>1 DEF Unmoved, Backing, locked
<1>12. \/ UNCHANGED <<chains, writer, safe_writes>> \/ Land \/ Chain
  BY DEF Next, Run, Start, PinSource, PinTarget, Decide, EstimateAccepted,
         EstimateAboveNav, EstimateFails, LandReverts, Break, vars, history
<1> QED
  BY <1>3, <1>4, <1>6, <1>7, <1>8, <1>9, <1>10, <1>11, <1>12 DEF Chain

LEMMA BackedStep ==
  ASSUME TypeOK, TransfersInv, Backed, [Next]_vars
  PROVE  Backed'
<1>1. /\ Backing(source) \in Nat /\ source.supply \in Nat \ {0}
      /\ source.oracle \in Nat \ {0}
  BY BackingIsNatural
<1>2. CASE Unmoved
  <2>1. maxValue' = maxValue
    BY <1>2 DEF Unmoved, maxValue, ShareValue
  <2>2. CASE Untouched
    BY <2>1, <2>2 DEF Untouched, Backed
  <2>3. CASE Land /\ source'.oracle = value
    BY <2>1, <2>3 DEF Land, InBand, Backed
  <2>4. CASE \E v \in Prices : SafeSets(v)
    BY <2>4 DEF SafeSets, Backed, TypeOK
  <2> QED BY <1>2, <2>2, <2>3, <2>4, SourceMoves DEF Grown
<1>3. ASSUME NEW amount \in Amounts, Grown(amount), Untouched
      PROVE  Backed'
  <2>1. amount \in Nat
    BY OracleAssumption
  <2>2. maxValue' = ShareValue(Backing(source) + amount, source'.supply)
    BY <1>3 DEF Grown, maxValue, ShareValue
  <2>3. source.oracle <= maxValue => source.oracle <= maxValue'
    <3>1. CASE source'.supply = source.supply
      <4>1. Backing(source) + amount \in Nat
            /\ Backing(source) <= Backing(source) + amount
        BY <1>1, <2>1
      <4>2. /\ ShareValue(Backing(source), source.supply) \in Nat
            /\ ShareValue(Backing(source) + amount, source.supply) \in Nat
        BY <1>1, <4>1, AtMostShareValue
      <4>3. ShareValue(Backing(source), source.supply)
              <= ShareValue(Backing(source) + amount, source.supply)
        BY <1>1, <4>1, ShareValueGrows
      <4> QED BY <1>1, <2>2, <3>1, <4>2, <4>3 DEF maxValue
    <3>2. CASE source'.supply
                 = source.supply + ShareValue(amount, source.oracle)
      <4>1. source.oracle <= ShareValue(Backing(source), source.supply)
              => source.oracle <=
                   ShareValue(Backing(source) + amount,
                     source.supply + ShareValue(amount, source.oracle))
        BY <1>1, <2>1, DepositKeepsBacking
      <4> QED BY <2>2, <3>2, <4>1 DEF maxValue
    <3> QED BY <1>3, <3>1, <3>2 DEF Grown
  <2> QED BY <1>3, <2>3 DEF Untouched, Backed
<1> QED BY <1>2, <1>3, SourceMoves

LEMMA BackedInvariant == Spec => []Backed
<1>1. Init => Backed
  <2> SUFFICES ASSUME Init PROVE Backed
    OBVIOUS
  <2>1. source.sent = 0 /\ source.received = 0 /\ source.held \in Nat
    BY SourceAtFirst
  <2>2. pushed[0] = 0 /\ pulled[0] = 0
    BY DEF Init
  <2>3. Backing(source) = source.held
    BY <2>1, <2>2 DEF Backing, locked
  <2> QED BY <2>3 DEF Init, Backed, maxValue
<1>2. ReadInv /\ Backed /\ [Next]_vars => Backed'
  BY BackedStep DEF ReadInv
<1> QED BY <1>1, <1>2, ReadInvariant, PTL DEF Spec

\* A price the bot wrote never stands above what a share is worth, whatever is
\* deposited at it, moved between the chains or earned.
THEOREM PricesAreBacked == Spec => []PriceBacked
<1>1. Backed => PriceBacked
  BY DEF Backed, PriceBacked
<1> QED BY <1>1, BackedInvariant, PTL

---------------------------------------------------------------------------
(* What is written stays within the deviation guard.                       *)

\* What is in the air was read and judged, and unless the Safe came between,
\* the oracle is still what was read.
SendInv ==
  /\ pc \in {"estimating", "flying"} =>
       /\ old_value = pin_source.oracle
       /\ old_value <= value
       /\ value = old_value \/ value <= new_value
       /\ force \/ ~exceeds_deviation(old_value, new_value)
  /\ pin_source # None /\ ~disturbed => source.oracle = pin_source.oracle

LEMMA OracleMoves ==
  ASSUME TypeOK, [Next]_vars
  PROVE  \/ /\ source'.oracle = source.oracle
            /\ writer' = writer /\ safe_writes' = safe_writes
            /\ disturbed' = disturbed \/ Start \/ PinSource
         \/ Land
         \/ \E v \in Prices : SafeSets(v)
<1>1. source \in SourceStates
  BY DEF TypeOK
<1>2. ASSUME NEW amount \in Amounts,
             \/ Deposit(amount) \/ Reward(amount)
             \/ PushToTarget(amount) \/ PushToSource(amount)
             \/ Gain(amount) \/ Lose(amount)
      PROVE  /\ source'.oracle = source.oracle /\ disturbed' = disturbed
             /\ writer' = writer /\ safe_writes' = safe_writes
  BY <1>1, <1>2
  DEF Deposit, Reward, PushToTarget, PushToSource, Gain, Lose, history,
      SourceStates
<1>3. CASE DeliverAtTarget \/ DeliverAtSource
  BY <1>1, <1>3 DEF DeliverAtTarget, DeliverAtSource, history, SourceStates
<1>4. CASE \/ PinTarget \/ Decide \/ EstimateAccepted \/ EstimateAboveNav
           \/ EstimateFails \/ LandReverts \/ Break \/ UNCHANGED vars
  BY <1>4 DEF PinTarget, Decide, EstimateAccepted, EstimateAboveNav,
     EstimateFails, LandReverts, Break, vars, chains, history
<1>5. CASE Start \/ PinSource
  BY <1>5 DEF Start, PinSource, chains
<1> QED BY <1>2, <1>3, <1>4, <1>5 DEF Next, Run, Chain

\* What lies between an old value and a new one that is close is close itself.
LEMMA CloserIsWithin ==
  ASSUME NEW old \in Nat, NEW new \in Nat, NEW v \in Nat,
         old <= v, v = old \/ v <= new, ~exceeds_deviation(old, new)
  PROVE  ~exceeds_deviation(old, v)
<1>1. BPS_DENOMINATOR \in Nat /\ max_deviation_bps \in Nat
  BY OracleAssumption
<1>2. AbsDiff(v, old) \in Nat /\ AbsDiff(new, old) \in Nat
  BY DEF AbsDiff
<1>3. old # 0
      /\ ~(AbsDiff(new, old) * BPS_DENOMINATOR > old * max_deviation_bps)
  BY DEF exceeds_deviation
<1>4. AbsDiff(v, old) <= AbsDiff(new, old)
  BY DEF AbsDiff
<1>5. /\ AbsDiff(v, old) * BPS_DENOMINATOR
           <= AbsDiff(new, old) * BPS_DENOMINATOR
      /\ AbsDiff(v, old) * BPS_DENOMINATOR \in Nat
      /\ AbsDiff(new, old) * BPS_DENOMINATOR \in Nat
  BY <1>1, <1>2, <1>4, Product
<1>6. old * max_deviation_bps \in Nat
  BY <1>1, Product
<1> QED BY <1>3, <1>5, <1>6 DEF exceeds_deviation

LEMMA SendStep ==
  ASSUME TypeOK, TransfersInv, PinsInv, SendInv, [Next]_vars
  PROVE  SendInv'
<1> DEFINE Judged ==
      /\ old_value = pin_source.oracle
      /\ old_value <= value
      /\ value = old_value \/ value <= new_value
      /\ force \/ ~exceeds_deviation(old_value, new_value)
<1>1. pin_source' # None /\ ~disturbed' => source'.oracle = pin_source'.oracle
  <2>1. CASE Land
    BY <2>1 DEF Land, Return
  <2>2. CASE \E v \in Prices : SafeSets(v)
    BY <2>2 DEF SafeSets
  <2>3. CASE Start
    BY <2>3 DEF Start, PinsInv
  <2>4. CASE PinSource
    BY <2>4 DEF PinSource, chains
  <2>5. CASE /\ source'.oracle = source.oracle /\ disturbed' = disturbed
             /\ pin_source' = pin_source \/ pin_source' = None
    BY <2>5 DEF SendInv
  <2>6. PinSource \/ pin_source' = pin_source \/ pin_source' = None
    BY RunMoves, Decides
    DEF run, Start, PinTarget, EstimateAccepted, EstimateAboveNav, Return, Send
  <2> QED BY <2>1, <2>2, <2>3, <2>4, <2>5, <2>6, OracleMoves
<1>2. pc' \in {"estimating", "flying"} => Judged'
  <2>1. ASSUME pc' \notin {"estimating", "flying"}
        PROVE  pc' \in {"estimating", "flying"} => Judged'
    BY <2>1
  <2>2. CASE Start \/ PinSource \/ PinTarget
             \/ \E result \in Outcomes : Return(result)
    BY <2>1, <2>2 DEF Start, PinSource, PinTarget, Return
  <2>3. CASE UNCHANGED <<run, misread>> \/ EstimateAccepted
    <3>1. /\ pc' \in {"estimating", "flying"} => pc \in {"estimating", "flying"}
          /\ old_value' = old_value /\ new_value' = new_value
          /\ value' = value /\ pin_source' = pin_source /\ force' = force
      BY <2>3 DEF run, EstimateAccepted
    <3> QED BY <3>1 DEF SendInv, exceeds_deviation
  <2>4. CASE EstimateAboveNav
    <3> DEFINE retry == write_value(old_value, new_value, maxValue)
    <3>1. /\ pc = "estimating" /\ old_value' = old_value /\ force' = force
          /\ new_value' = new_value /\ pin_source' = pin_source
          /\ value' = retry
          /\ ~write_refused(old_value, new_value, maxValue, tolerance_of(kind))
      BY <2>4 DEF EstimateAboveNav, RetryRefused
    <3>2. /\ old_value \in Nat /\ new_value \in Nat /\ maxValue \in Nat
          /\ tolerance_of(kind) \in Nat
      BY MaxValueIsNatural, OracleAssumption DEF TypeOK, tolerance_of
    <3>3. old_value <= retry /\ (retry = old_value \/ retry <= new_value)
      BY <3>1, <3>2, BoundedWrite
    <3> HIDE DEF retry
    <3> QED BY <3>1, <3>3 DEF SendInv, exceeds_deviation
  <2>5. ASSUME Decide, NEW total \in {PinnedTotal} \cup WrongTotals,
               \/ DecideHeartbeat(pin_source.oracle,
                    ShareValue(total, pin_source.supply))
               \/ DecideResync(pin_source.oracle,
                    ShareValue(total, pin_source.supply))
        PROVE  pc' \in {"estimating", "flying"} => Judged'
    <3> DEFINE old == pin_source.oracle
               new == ShareValue(total, pin_source.supply)
    <3>1. old \in Nat /\ new \in Nat /\ maxValue \in Nat
      BY <2>5, PinsTyped, ReadingIsNatural, MaxValueIsNatural DEF Decide
    <3>2. CASE /\ Send(old, new, write_value(old, new, maxValue))
               /\ \/ ~heartbeat_refuses(old, new, maxValue, force)
                  \/ ~resync_refuses(old, new, maxValue)
      <4>1. PICK tol \in Nat : ~write_refused(old, new, maxValue, tol)
        BY <3>2, OracleAssumption DEF heartbeat_refuses, resync_refuses
      <4>2. force \/ ~exceeds_deviation(old, new)
        BY <3>2 DEF heartbeat_refuses, resync_refuses
      <4>3. /\ old <= write_value(old, new, maxValue)
            /\ \/ write_value(old, new, maxValue) = old
               \/ write_value(old, new, maxValue) <= new
        BY <3>1, <4>1, BoundedWrite
      <4>4. /\ old_value' = old /\ new_value' = new /\ pin_source' = pin_source
            /\ value' = write_value(old, new, maxValue) /\ force' = force
        BY <3>2 DEF Send
      <4> HIDE DEF new
      <4> QED BY <4>2, <4>3, <4>4 DEF exceeds_deviation
    <3> QED BY <2>2, <2>5, <3>2, Decides
  <2> QED BY <2>2, <2>3, <2>4, <2>5, RunMoves
<1> QED BY <1>1, <1>2 DEF SendInv

LEMMA SendInvariant == Spec => []SendInv
<1>1. Init => SendInv
  BY DEF Init, SendInv
<1>2. ReadInv /\ SendInv /\ [Next]_vars => SendInv'
  BY SendStep DEF ReadInv
<1> QED BY <1>1, <1>2, ReadInvariant, PTL DEF Spec

\* No write but a forced one moves the oracle past the deviation guard, however
\* wrong the reading was and whatever became of the send in the meantime.
THEOREM WritesStayWithinGuard == Spec => WritesWithinGuard
<1> DEFINE Within == BotWrites /\ ~force /\ ~disturbed =>
                       ~exceeds_deviation(source.oracle, source'.oracle)
<1>1. ReadInv /\ SendInv /\ [Next]_vars => [Within]_vars
  <2> SUFFICES ASSUME ReadInv, SendInv, [Next]_vars,
                      BotWrites, ~force, ~disturbed
               PROVE  ~exceeds_deviation(source.oracle, source'.oracle)
    OBVIOUS
  <2> USE DEF ReadInv
  <2>1. Land
    BY DEF BotWrites, Next, Run, Start, PinSource, PinTarget, Decide,
       EstimateAccepted, EstimateAboveNav, EstimateFails, LandReverts, Break,
       Return, Chain, Deposit, Reward, PushToTarget, PushToSource, Gain, Lose,
       DeliverAtTarget, DeliverAtSource, SafeSets, run, vars
  <2>2. source'.oracle = value
    BY <2>1 DEF Land, TypeOK, SourceStates
  <2>3. /\ source.oracle = old_value /\ old_value <= value
        /\ value = old_value \/ value <= new_value
        /\ ~exceeds_deviation(old_value, new_value)
    BY <2>1 DEF Land, SendInv, PinsInv
  <2>4. old_value \in Nat /\ new_value \in Nat /\ value \in Nat
    BY DEF TypeOK
  <2> QED BY <2>2, <2>3, <2>4, CloserIsWithin
<1> QED BY <1>1, ReadInvariant, SendInvariant, PTL DEF Spec, WritesWithinGuard
---------------------------------------------------------------------------
(* A refusal has a reason.                                                 *)

\* While the Safe has not written, what was read was backed by what was read,
\* and the oracle has only risen since.
AlarmInv ==
  safe_writes = 0 /\ pin_source # None =>
    /\ Backing(pin_source) \in Nat
    /\ pin_source.oracle <= source.oracle
    /\ pin_source.oracle <= ShareValue(Backing(pin_source), pin_source.supply)

LEMMA OracleRises ==
  ASSUME TypeOK, TransfersInv, [Next]_vars, safe_writes' = 0
  PROVE  safe_writes = 0 /\ source.oracle <= source'.oracle
<1>1. source.oracle \in Nat
  BY BackingIsNatural
<1>2. CASE Untouched
  BY <1>1, <1>2 DEF Untouched
<1>3. CASE Land /\ source'.oracle = value
  BY <1>3 DEF Land, InBand
<1>4. CASE \E v \in Prices : SafeSets(v)
  BY <1>4 DEF SafeSets, TypeOK
<1> QED BY <1>2, <1>3, <1>4, SourceMoves

LEMMA AlarmStep ==
  ASSUME TypeOK, TransfersInv, PinsInv, Backed, AlarmInv, [Next]_vars
  PROVE  AlarmInv'
<1> SUFFICES ASSUME safe_writes' = 0, pin_source' # None
             PROVE  /\ Backing(pin_source)' \in Nat
                    /\ pin_source'.oracle <= source'.oracle
                    /\ pin_source'.oracle
                         <= ShareValue(Backing(pin_source), pin_source.supply)'
  BY DEF AlarmInv
<1>1. /\ safe_writes = 0 /\ source.oracle <= source'.oracle
      /\ source.oracle \in Nat /\ source'.oracle \in Nat
  BY OracleRises, TypeStep, BackingIsNatural DEF TypeOK, SourceStates
<1>2. CASE pin_source' = pin_source
  <2>1. Backing(pin_source)' = Backing(pin_source)
    BY <1>2, PinnedKept
  <2>2. pin_source.oracle \in Nat
    BY <1>2 DEF TypeOK, SourceStates
  <2> QED BY <1>1, <1>2, <2>1, <2>2 DEF AlarmInv, ShareValue
<1>3. CASE PinSource
  <2>1. /\ pin_source' = source /\ source' = source
        /\ pushed' = pushed /\ pulled' = pulled
    BY <1>3 DEF PinSource, chains
  <2>2. /\ source.oracle <= ShareValue(Backing(source), source.supply)
        /\ Backing(source) \in Nat
    BY <1>1, BackingIsNatural DEF Backed, maxValue
  <2>3. Backing(pin_source)' = Backing(source)
    BY <2>1 DEF Backing, locked
  <2> QED BY <1>1, <2>1, <2>2, <2>3 DEF ShareValue
<1>4. PinSource \/ pin_source' = pin_source \/ pin_source' = None
  BY RunMoves, Decides
  DEF run, Start, PinTarget, EstimateAccepted, EstimateAboveNav, Return, Send
<1> QED BY <1>2, <1>3, <1>4

LEMMA AlarmInvariant == Spec => []AlarmInv
<1>1. Init => AlarmInv
  BY DEF Init, AlarmInv
<1>2. ReadInv /\ Backed /\ AlarmInv /\ [Next]_vars => AlarmInv'
  BY AlarmStep DEF ReadInv
<1> QED BY <1>1, <1>2, ReadInvariant, BackedInvariant, PTL DEF Spec

\* Whatever was deposited, rewarded or on its way while the chains were read,
\* a heartbeat that refuses saw a loss, a broken helper, the Safe, or a rise
\* past the deviation guard.
THEOREM RefusalsHaveReasons == Spec => AlarmsAreReal
<1> DEFINE Refused == /\ kind = "heartbeat" /\ pc = "reading"
                      /\ pc' = "idle" /\ outcome' = "refused"
                      /\ ~misread' /\ safe_writes = 0
                      /\ pin_target.lost = 0
           new == ShareValue(PinnedTotal, pin_source.supply)
<1>1. ReadInv /\ Backed /\ AlarmInv /\ [Next]_vars
        => [Refused => exceeds_deviation(pin_source.oracle, new)]_vars
  <2> SUFFICES ASSUME ReadInv, Backed, AlarmInv, [Next]_vars, Refused
               PROVE  exceeds_deviation(pin_source.oracle, new)
    OBVIOUS
  <2> USE DEF ReadInv
  <2>1. Decide
    BY DEF Next, Run, Start, PinSource, PinTarget, EstimateAccepted,
       EstimateAboveNav, EstimateFails, Land, LandReverts, Break, Return,
       Chain, Deposit, Reward, PushToTarget, PushToSource, Gain, Lose,
       DeliverAtTarget, DeliverAtSource, SafeSets, run, vars
  <2>2. /\ pin_source # None /\ pin_target # None
        /\ ~TransferInFlight(pin_source, pin_target)
        /\ heartbeat_refuses(pin_source.oracle, new, maxValue, force)
    BY <2>1 DEF Decide, DecideHeartbeat, Return, Send
  <2>3. /\ PinnedTotal \in Nat
        /\ pin_source.supply \in Nat \ {0} /\ pin_source.oracle \in Nat
        /\ pin_source \in SourceStates /\ pin_target \in TargetStates
    BY <2>2, PinsTyped
  <2>4. /\ PinnedTotal = Backing(pin_source) + pin_target.gained
        /\ pin_target.gained \in Nat
    <3>1. PinnedTotal = Backing(pin_source) + pin_target.gained
                        - pin_target.lost
      BY <2>2, NoncesAgree
    <3>2. pin_target.gained \in Nat /\ pin_target.lost = 0
      BY <2>3 DEF TargetStates
    <3>3. Backing(pin_source) \in Nat
      BY <2>2 DEF AlarmInv
    <3> QED BY <3>1, <3>2, <3>3
  <2>5. pin_source.oracle <= new /\ new \in Nat
    <3>1. Backing(pin_source) \in Nat /\ Backing(pin_source) <= PinnedTotal
      BY <2>2, <2>3, <2>4 DEF AlarmInv
    <3>2. /\ ShareValue(Backing(pin_source), pin_source.supply) <= new
          /\ ShareValue(Backing(pin_source), pin_source.supply) \in Nat
          /\ new \in Nat
      BY <2>3, <3>1, ShareValueGrows, AtMostShareValue
    <3>3. pin_source.oracle
            <= ShareValue(Backing(pin_source), pin_source.supply)
      BY <2>2 DEF AlarmInv
    <3> HIDE DEF new
    <3> QED BY <2>3, <3>2, <3>3
  <2>6. pin_source.oracle <= maxValue /\ maxValue \in Nat
    <3>1. source.oracle <= maxValue /\ pin_source.oracle <= source.oracle
      BY <2>2 DEF Backed, AlarmInv
    <3>2. source.oracle \in Nat /\ maxValue \in Nat
      BY BackingIsNatural, MaxValueIsNatural
    <3> QED BY <2>3, <3>1, <3>2
  <2>7. decrease_tolerance \in Nat
    BY OracleAssumption
  <2>8. ~write_refused(pin_source.oracle, new, maxValue, decrease_tolerance)
    <3> HIDE DEF new
    <3> QED BY <2>3, <2>5, <2>6, <2>7 DEF write_refused, is_decrease
  <2> QED BY <2>2, <2>8 DEF heartbeat_refuses
<1> QED
  BY <1>1, ReadInvariant, BackedInvariant, AlarmInvariant, PTL
  DEF Spec, AlarmsAreReal

---------------------------------------------------------------------------
(* Refinement.                                                             *)

LEMMA RefineInit == Init => Promise!Init
<1> SUFFICES ASSUME Init PROVE Promise!Init
  OBVIOUS
<1>1. /\ source.held \in Nat /\ source.supply \in Nat \ {0}
      /\ source.oracle \in Nat \ {0}
      /\ source.sent = 0 /\ source.received = 0
  BY SourceAtFirst
<1>2. Backing(source) = source.held
  BY <1>1 DEF Init, Backing, locked
<1>3. ShareValue(source.held, source.supply) \in Nat
  BY <1>1, AtMostShareValue
<1>4. source.oracle \in 1 .. ShareValue(source.held, source.supply)
  BY <1>1, <1>3 DEF Init
<1> QED
  BY <1>1, <1>2, <1>4 DEF Init, Promise!Init, Promise!ShareValue, ShareValue

LEMMA RefineStep ==
  ASSUME TypeOK, TransfersInv, [Next]_vars
  PROVE  [Promise!Next]_Promise!vars
<1>1. /\ Backing(source) \in Nat
      /\ source.supply \in Nat \ {0} /\ source.oracle \in Nat \ {0}
  BY BackingIsNatural
<1>2. CASE Unmoved /\ Untouched
  BY <1>2 DEF Unmoved, Untouched, Promise!vars
<1>3. ASSUME NEW amount \in Amounts, Grown(amount), Untouched
      PROVE  Promise!Deposit \/ Promise!Earn
  <2>1. amount \in Nat \ {0}
    BY OracleAssumption
  <2>2. /\ Backing(source)' > Backing(source) /\ Backing(source)' \in Nat
        /\ Backing(source)' - Backing(source) = amount
    BY <1>1, <1>3, <2>1 DEF Grown
  <2> QED
    BY <1>1, <1>3, <2>2
    DEF Grown, Untouched, Promise!Deposit, Promise!Earn, Promise!ShareValue,
        ShareValue
<1>4. CASE Unmoved /\ Land /\ source'.oracle = value
  <2>1. /\ source.oracle <= value /\ value <= maxValue /\ writer' = "bot"
        /\ value \in Nat /\ maxValue \in Nat
    BY <1>4, MaxValueIsNatural DEF Land, InBand, TypeOK
  <2>2. value \in source.oracle .. maxValue
    BY <1>1, <2>1
  <2>3. Promise!BotSets
    BY <1>4, <2>1, <2>2
    DEF Unmoved, Promise!BotSets, Promise!ShareValue, ShareValue, maxValue
  <2> QED BY <2>3 DEF Promise!Next
<1>5. ASSUME Unmoved, NEW v \in Prices, SafeSets(v), source'.oracle = v
      PROVE  Promise!SafeSets
  <2>1. v \in Nat \ {0}
    BY OracleAssumption
  <2> QED BY <1>5, <2>1 DEF Unmoved, SafeSets, Promise!SafeSets
<1> QED
  BY <1>2, <1>3, <1>4, <1>5, SourceMoves DEF Promise!Next

\* Seen from the source chain, the runs with all their reads, retries and
\* races are SharePrice: the bot moves the price up, and no further than the
\* assets back.
THEOREM OracleImplementsSharePrice == Spec => ImplementsSharePrice
<1>1. ReadInv /\ [Next]_vars => [Promise!Next]_Promise!vars
  BY RefineStep DEF ReadInv
<1> QED
  BY <1>1, RefineInit, ReadInvariant, PTL
  DEF Spec, ImplementsSharePrice, Promise!Spec
=============================================================================
