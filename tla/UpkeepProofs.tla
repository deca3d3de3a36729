----------------------------- MODULE UpkeepProofs -----------------------------
(***************************************************************************)
(* Proofs about Upkeep, for all amounts, rewarders, ratios and bounds: the *)
(* nonces stop a second transfer, and handle_epochs reports no epoch that  *)
(* did not go by.                                                          *)
(***************************************************************************)
EXTENDS Upkeep, TLAPS

---------------------------------------------------------------------------
(* One transfer.  Nothing under way, or one message either way: the nonces *)
(* of the two sides say which.                                             *)

Quiet ==
  /\ wire = [to_target |-> << >>, to_source |-> << >>]
  /\ source.received = target.sent
  /\ source.sent = target.received

Outbound ==
  /\ \E x : wire = [to_target |-> <<x>>, to_source |-> << >>]
  /\ source.received = target.sent
  /\ source.sent = NextNonce(target.received)

Inbound ==
  /\ \E x : wire = [to_target |-> << >>, to_source |-> <<x>>]
  /\ target.sent = NextNonce(source.received)
  /\ source.sent = target.received

Nonces ==
  /\ source = [held |-> source.held, supply |-> source.supply,
               received |-> source.received, sent |-> source.sent]
  /\ target = [idle |-> target.idle, claimable |-> target.claimable,
               pending |-> target.pending, staked |-> target.staked,
               received |-> target.received, sent |-> target.sent]
  /\ source.received \in 0 .. LastNonce
  /\ source.sent \in 0 .. LastNonce
  /\ target.received \in 0 .. LastNonce
  /\ target.sent \in 0 .. LastNonce

\* A view that is older than an arrival does not agree with the target side.
ViewHolds ==
  pc = "reading_target" =>
    /\ view.sent = source.sent
    /\ view.received = source.received \/ view.received # target.sent

\* What a pass has decided to send, it decided with nothing under way.
Decided == pc \in {"asking", "pulling", "surplus"} => Quiet

TransferInv ==
  /\ Nonces
  /\ Quiet \/ Outbound \/ Inbound
  /\ ViewHolds
  /\ Decided

LEMMA NonceMoves ==
  ASSUME NEW n \in 0 .. LastNonce
  PROVE  NextNonce(n) \in 0 .. LastNonce /\ NextNonce(n) # n
BY ChainsAssumption DEF NextNonce

\* What is sent or queued elsewhere is of no concern to the invariant.
LEMMA TransferStutter ==
  ASSUME TransferInv,
         source'.received = source.received, source'.sent = source.sent,
         target'.received = target.received, target'.sent = target.sent,
         source' = [held |-> source'.held, supply |-> source'.supply,
                    received |-> source.received, sent |-> source.sent],
         target' = [idle |-> target'.idle, claimable |-> target'.claimable,
                    pending |-> target'.pending, staked |-> target'.staked,
                    received |-> target.received, sent |-> target.sent],
         wire' = wire,
         \/ pc' = pc /\ view' = view
         \/ pc' \notin {"reading_target", "asking", "pulling", "surplus"}
         \/ Quiet /\ pc' # "reading_target"
  PROVE  TransferInv'
<1>1. Nonces'
  BY DEF TransferInv, Nonces
<1>2. (Quiet \/ Outbound \/ Inbound)' /\ (Quiet => Quiet')
  BY DEF TransferInv, Quiet, Outbound, Inbound
<1>3. ViewHolds'
  BY DEF TransferInv, ViewHolds
<1>4. Decided'
  BY <1>2 DEF TransferInv, Decided
<1> QED
  BY <1>1, <1>2, <1>3, <1>4 DEF TransferInv

\* Only the nonces of the two sides count for what is settled.
LEMMA SettledIsQuiet ==
  ASSUME TransferInv
  PROVE  /\ Settled(source, target) => Quiet
         /\ pc = "reading_target" /\ Settled(view, target) => Quiet
<1>1. Outbound => source.sent # target.received
  BY NonceMoves DEF Outbound, TransferInv, Nonces
<1>2. Inbound => source.received # target.sent
  BY NonceMoves DEF Inbound, TransferInv, Nonces
<1>3. Quiet \/ Outbound \/ Inbound
  BY DEF TransferInv
<1>4. Settled(source, target) => Quiet
  BY <1>1, <1>2, <1>3 DEF Settled
<1>5. pc = "reading_target" /\ Settled(view, target) => Settled(source, target)
  BY DEF TransferInv, ViewHolds, Settled
<1> QED
  BY <1>4, <1>5

LEMMA ArrivalsKeepOne ==
  ASSUME TransferInv, ArriveAtTarget \/ ArriveAtSource, UNCHANGED <<pc, view>>
  PROVE  TransferInv'
<1>1. CASE ArriveAtTarget
  <2>1. Outbound
    BY <1>1 DEF ArriveAtTarget, TransferInv, Quiet, Outbound, Inbound
  <2>2. PICK x : wire = [to_target |-> <<x>>, to_source |-> << >>]
    BY <2>1 DEF Outbound
  <2>3. wire' = [to_target |-> << >>, to_source |-> << >>]
    <3>1. wire' = [to_target |-> Tail(<<x>>), to_source |-> << >>]
      BY <1>1, <2>2 DEF ArriveAtTarget
    <3> QED
      BY <3>1
  <2>4. /\ target' = [idle |-> target'.idle, claimable |-> target.claimable,
                      pending |-> target.pending, staked |-> target.staked,
                      received |-> NextNonce(target.received),
                      sent |-> target.sent]
        /\ source' = source
    BY <1>1 DEF ArriveAtTarget, TransferInv, Nonces
  <2>5. Nonces'
    BY <2>4, NonceMoves DEF TransferInv, Nonces
  <2>6. Quiet'
    BY <2>1, <2>3, <2>4 DEF Outbound, Quiet
  <2>7. ViewHolds' /\ Decided'
    BY <2>4, <2>6 DEF TransferInv, ViewHolds, Decided
  <2> QED
    BY <2>5, <2>6, <2>7 DEF TransferInv
<1>2. CASE ArriveAtSource
  <2>1. Inbound
    BY <1>2 DEF ArriveAtSource, TransferInv, Quiet, Outbound, Inbound
  <2>2. PICK x : wire = [to_target |-> << >>, to_source |-> <<x>>]
    BY <2>1 DEF Inbound
  <2>3. wire' = [to_target |-> << >>, to_source |-> << >>]
    <3>1. wire' = [to_target |-> << >>, to_source |-> Tail(<<x>>)]
      BY <1>2, <2>2 DEF ArriveAtSource
    <3> QED
      BY <3>1
  <2>4. /\ source' = [held |-> source'.held, supply |-> source.supply,
                      received |-> NextNonce(source.received),
                      sent |-> source.sent]
        /\ target' = target
    BY <1>2 DEF ArriveAtSource, TransferInv, Nonces
  <2>5. Nonces'
    BY <2>4, NonceMoves DEF TransferInv, Nonces
  <2>6. Quiet'
    BY <2>1, <2>3, <2>4 DEF Inbound, Quiet
  <2>7. Decided'
    BY <2>6 DEF Decided
  <2>8. ViewHolds'
    <3>1. source.received # target.sent
      BY <2>1, NonceMoves DEF Inbound, TransferInv, Nonces
    <3> QED
      BY <2>4, <3>1 DEF TransferInv, ViewHolds
  <2> QED
    BY <2>5, <2>6, <2>7, <2>8 DEF TransferInv
<1> QED
  BY <1>1, <1>2

\* Users, time and the oracle send nothing.
LEMMA WorldKeepsOne ==
  ASSUME TransferInv, Environment, UNCHANGED <<pc, view>>
  PROVE  TransferInv'
<1>0. Nonces
  BY DEF TransferInv
<1>1. CASE ArriveAtTarget \/ ArriveAtSource
  BY <1>1, ArrivalsKeepOne
<1>2. CASE Tick \/ OracleWritten \/ Lag
  BY <1>0, <1>2, TransferStutter DEF Tick, OracleWritten, Lag, Nonces
<1>3. CASE Move
  <2>1. target' = target /\ wire' = wire
    BY <1>3 DEF Move, Deposit, RequestWithdrawal, Earn, SetDelay, UserAdvances,
                Advance
  <2>2. source' = [held |-> source'.held, supply |-> source'.supply,
                   received |-> source.received, sent |-> source.sent]
    BY <1>0, <1>3 DEF Move, Deposit, RequestWithdrawal, Earn, SetDelay,
                      UserAdvances, Advance, Nonces
  <2>3. source'.received = source.received /\ source'.sent = source.sent
    BY <2>2
  <2> QED
    BY <1>0, <2>1, <2>2, <2>3, TransferStutter DEF Nonces
<1> QED
  BY <1>1, <1>2, <1>3 DEF Environment

\* The steps of a pass that read, and those that end it.
LEMMA ReadingKeepsOne ==
  ASSUME TransferInv,
         \/ StartPass \/ ReadSource \/ ReadTarget \/ AskAmounts \/ Finalized
         \/ TimesOut \/ NothingToPush \/ AskClosing \/ NothingToDeposit
  PROVE  TransferInv'
<1>0. Nonces
  BY DEF TransferInv
<1>1. source' = source /\ target' = target /\ wire' = wire
  BY DEF StartPass, ReadSource, ReadTarget, AskAmounts, Finalized, TimesOut,
         NothingToPush, AskClosing, NothingToDeposit, chains
<1>2. CASE ReadSource
  <2>1. pc' = "reading_target"
    BY <1>2 DEF ReadSource
  <2>2. view'.sent = source.sent /\ view'.received = source.received
    BY <1>2 DEF ReadSource
  <2>3. ViewHolds' /\ Decided'
    BY <1>1, <2>1, <2>2 DEF ViewHolds, Decided
  <2>4. Nonces' /\ (Quiet \/ Outbound \/ Inbound)'
    BY <1>1 DEF TransferInv, Nonces, Quiet, Outbound, Inbound
  <2> QED
    BY <2>3, <2>4 DEF TransferInv
<1>3. CASE ReadTarget
  <2>1. pc' = "idle" \/ pc' = "closing" \/ (Quiet /\ pc' # "reading_target")
    <3>1. pc = "reading_target"
      BY <1>3 DEF ReadTarget
    <3>2. Settled(view, target) => Quiet
      BY <3>1, SettledIsQuiet
    <3>3. Settled(view, target) \/ pc' = "idle"
      BY <1>3 DEF ReadTarget, Over
    <3>4. pc' \in {"idle", "asking", "surplus", "closing"}
      BY <1>3 DEF ReadTarget, Over
    <3> QED
      BY <3>2, <3>3, <3>4
  <2> QED
    BY <1>0, <1>1, <2>1, TransferStutter DEF Nonces
<1>4. CASE AskAmounts
  <2>1. Quiet /\ pc' = "pulling"
    BY <1>4 DEF AskAmounts, TransferInv, Decided
  <2> QED
    BY <1>0, <1>1, <2>1, TransferStutter DEF Nonces
<1>5. CASE \/ StartPass \/ Finalized \/ TimesOut \/ NothingToPush \/ AskClosing
           \/ NothingToDeposit
  <2>1. pc' \in {"reading_source", "closing", "idle", "depositing"}
    BY <1>5 DEF StartPass, Finalized, TimesOut, NothingToPush, AskClosing,
                NothingToDeposit, Over
  <2> QED
    BY <1>0, <1>1, <2>1, TransferStutter DEF Nonces
<1> QED
  BY <1>2, <1>3, <1>4, <1>5

\* Assets that change their form on the target chain.
LEMMA TargetWorkKeepsOne ==
  ASSUME TransferInv, Redeem \/ Claim \/ DepositIdle \/ RipenNow
  PROVE  TransferInv'
<1>0. Nonces
  BY DEF TransferInv
<1>1. source' = source /\ wire' = wire
  BY DEF Redeem, Claim, DepositIdle, RipenNow, Ripen
<1>2. target' = [idle |-> target'.idle, claimable |-> target'.claimable,
                 pending |-> target'.pending, staked |-> target'.staked,
                 received |-> target.received, sent |-> target.sent]
  BY <1>0 DEF Redeem, Claim, DepositIdle, RipenNow, Ripen, Nonces
<1>3. target'.received = target.received /\ target'.sent = target.sent
  BY <1>2
<1>4. (pc' = pc /\ view' = view) \/ pc' = "idle"
  BY DEF Redeem, Claim, DepositIdle, RipenNow, Over
<1> QED
  BY <1>0, <1>1, <1>2, <1>3, <1>4, TransferStutter DEF Nonces

\* The two pushes find nothing under way, and leave one message.
LEMMA PushesKeepOne ==
  ASSUME TransferInv, PushToSource \/ PushToTarget
  PROVE  TransferInv'
<1>0. Nonces /\ Quiet
  BY DEF TransferInv, Decided, PushToSource, PushToTarget
<1>1. CASE PushToSource
  <2>1. wire' = [to_target |-> << >>, to_source |-> <<plan.push>>]
    <3>1. wire' = [to_target |-> << >>, to_source |-> Append(<< >>, plan.push)]
      BY <1>0, <1>1 DEF PushToSource, Quiet
    <3> QED
      BY <3>1
  <2>2. /\ target' = [idle |-> target'.idle, claimable |-> target.claimable,
                      pending |-> target.pending, staked |-> target.staked,
                      received |-> target.received,
                      sent |-> NextNonce(target.sent)]
        /\ source' = source
        /\ pc' = "waiting"
    BY <1>0, <1>1 DEF PushToSource, Nonces
  <2>3. Nonces'
    BY <1>0, <2>2, NonceMoves DEF Nonces
  <2>4. Inbound'
    <3>1. target'.sent = NextNonce(source'.received)
      BY <1>0, <2>2 DEF Quiet
    <3>2. source'.sent = target'.received
      BY <1>0, <2>2 DEF Quiet
    <3> QED
      BY <2>1, <3>1, <3>2 DEF Inbound
  <2>5. ViewHolds' /\ Decided'
    BY <2>2 DEF ViewHolds, Decided
  <2> QED
    BY <2>3, <2>4, <2>5 DEF TransferInv
<1>2. CASE PushToTarget /\ pc' = "idle"
  <2>1. source' = source /\ target' = target /\ wire' = wire
    BY <1>2 DEF PushToTarget, Over, chains
  <2> QED
    BY <1>0, <1>2, <2>1, TransferStutter DEF Nonces
<1>3. CASE PushToTarget /\ pc' # "idle"
  <2> DEFINE demand  == withdrawal_demand(Total, queue.demand, source.supply)
             surplus == source.held - demand
  <2>0. /\ source' = [source EXCEPT !.held = @ - surplus, !.sent = NextNonce(@)]
        /\ wire' = [wire EXCEPT !.to_target = Append(@, surplus)]
        /\ pc' = "waiting"
        /\ target' = target
    BY <1>3 DEF PushToTarget, Over
  <2> HIDE DEF demand, surplus
  <2>1. wire' = [to_target |-> <<surplus>>, to_source |-> << >>]
    <3>1. wire' = [to_target |-> Append(<< >>, surplus), to_source |-> << >>]
      BY <1>0, <2>0 DEF Quiet
    <3> QED
      BY <3>1
  <2>2. source' = [held |-> source'.held, supply |-> source.supply,
                   received |-> source.received,
                   sent |-> NextNonce(source.sent)]
    BY <1>0, <2>0 DEF Nonces
  <2>3. Nonces'
    BY <1>0, <2>0, <2>2, NonceMoves DEF Nonces
  <2>4. Outbound'
    <3>1. source'.sent = NextNonce(target'.received)
      BY <1>0, <2>0, <2>2 DEF Quiet
    <3>2. source'.received = target'.sent
      BY <1>0, <2>0, <2>2 DEF Quiet
    <3> QED
      BY <2>1, <3>1, <3>2 DEF Outbound
  <2>5. ViewHolds' /\ Decided'
    BY <2>0 DEF ViewHolds, Decided
  <2> QED
    BY <2>3, <2>4, <2>5 DEF TransferInv
<1> QED
  BY <1>1, <1>2, <1>3

\* The other two jobs send nothing across either.
LEMMA JobsKeepOne ==
  ASSUME TransferInv, StartEpochs \/ StartAscend \/ JobStep \/ Break
  PROVE  TransferInv'
<1>0. Nonces
  BY DEF TransferInv
<1>1. target' = target /\ wire' = wire
  BY DEF StartEpochs, StartAscend, JobStep, Break, ReadQueue, HandleEpoch,
         CheckProgress, ClaimReward, ReadRouter, Distribute, chains
<1>2. source' = [held |-> source'.held, supply |-> source'.supply,
                 received |-> source.received, sent |-> source.sent]
  BY <1>0 DEF StartEpochs, StartAscend, JobStep, Break, ReadQueue, HandleEpoch,
              CheckProgress, ClaimReward, ReadRouter, Distribute, Advance,
              chains, Nonces
<1>3. source'.received = source.received /\ source'.sent = source.sent
  BY <1>2
<1>4. \/ pc' = pc /\ view' = view
      \/ pc' \notin {"reading_target", "asking", "pulling", "surplus"}
  BY DEF StartEpochs, StartAscend, JobStep, Break, ReadQueue, HandleEpoch,
         CheckProgress, ClaimReward, ReadRouter, Distribute, Over, JobOver
<1> QED
  BY <1>0, <1>1, <1>2, <1>3, <1>4, TransferStutter DEF Nonces

LEMMA TransferInit ==
  ASSUME Init
  PROVE  TransferInv
BY ChainsAssumption DEF Init, ChainsInit, PassInit, TransferInv, Nonces, Quiet,
   ViewHolds, Decided

LEMMA TransferNext ==
  ASSUME TransferInv, [Next]_vars
  PROVE  TransferInv'
<1>1. CASE InWorld(Environment)
  BY <1>1, WorldKeepsOne DEF InWorld, pass
<1>2. CASE \/ InPass(RipenNow) \/ InPass(StartPass) \/ InPass(PassStep)
           \/ InPass(TimesOut)
  BY <1>2, ReadingKeepsOne, TargetWorkKeepsOne, PushesKeepOne
     DEF InPass, PassStep
<1>3. CASE \/ InJob(StartEpochs) \/ InJob(StartAscend) \/ InJob(JobStep)
           \/ InJob(Break)
  BY <1>3, JobsKeepOne DEF InJob
<1>4. CASE UNCHANGED vars
  BY <1>4, TransferStutter DEF vars, chains, pass, TransferInv, Nonces
<1> QED
  BY <1>1, <1>2, <1>3, <1>4 DEF Next

LEMMA OneOrNone ==
  ASSUME TransferInv
  PROVE  OneTransfer
<1>1. /\ \A x : Len(<<x>>) = 1
      /\ Len(<< >>) = 0
  OBVIOUS
<1>2. CASE Quiet
  BY <1>1, <1>2 DEF Quiet, OneTransfer
<1>3. CASE Outbound
  <2>1. PICK x : wire = [to_target |-> <<x>>, to_source |-> << >>]
    BY <1>3 DEF Outbound
  <2>2. Len(wire.to_target) = 1 /\ Len(wire.to_source) = 0
    BY <1>1, <2>1
  <2> QED
    BY <2>2 DEF OneTransfer
<1>4. CASE Inbound
  <2>1. PICK x : wire = [to_target |-> << >>, to_source |-> <<x>>]
    BY <1>4 DEF Inbound
  <2>2. Len(wire.to_target) = 0 /\ Len(wire.to_source) = 1
    BY <1>1, <2>1
  <2> QED
    BY <2>2 DEF OneTransfer
<1> QED
  BY <1>2, <1>3, <1>4 DEF TransferInv

\* At every moment at most one transfer is under way, whatever a pass gave up
\* waiting for and whatever block its validation saw.
THEOREM TransfersGoSingly == Spec => []OneTransfer
<1>1. Spec => []TransferInv
  BY TransferInit, TransferNext, PTL DEF Spec
<1>2. TransferInv => OneTransfer
  BY OneOrNone
<1> QED
  BY <1>1, <1>2, PTL

---------------------------------------------------------------------------
(* Progress.  Between the reading of the iterator and the check, whoever   *)
(* advanced the queue is counted in `advanced` at least as often as the    *)
(* iterator moved.                                                         *)

InEpochs == pc \in {"epochs", "handling", "checking"}

ProgressInv ==
  /\ queue = [iterator |-> queue.iterator, shares |-> queue.shares,
              demand |-> queue.demand, delay |-> queue.delay]
  /\ queue.iterator \in Nat /\ processed \in Nat /\ advanced \in Nat
  /\ ~InEpochs => processed = 0 /\ advanced = 0
  /\ pc = "epochs" => processed <= advanced
  /\ pc \in {"handling", "checking"} =>
       /\ seen \in Nat
       /\ seen <= queue.iterator
       /\ processed + (queue.iterator - seen) <= advanced

LEMMA AdvanceMoves ==
  ASSUME ProgressInv, Advance
  PROVE  /\ queue'.iterator = queue.iterator + 1
         /\ queue' = [iterator |-> queue'.iterator, shares |-> queue'.shares,
                      demand |-> queue'.demand, delay |-> queue'.delay]
BY DEF ProgressInv, Advance

LEMMA ProgressInWorld ==
  ASSUME ProgressInv, InWorld(Environment)
  PROVE  ProgressInv'
<1>1. /\ queue' = [iterator |-> queue'.iterator, shares |-> queue'.shares,
                   demand |-> queue'.demand, delay |-> queue'.delay]
      /\ queue'.iterator \in {queue.iterator, queue.iterator + 1}
  <2>1. CASE UNCHANGED queue
    BY <2>1 DEF ProgressInv
  <2>2. CASE UserAdvances
    BY <2>2, AdvanceMoves DEF UserAdvances
  <2>3. CASE RequestWithdrawal
    BY <2>3 DEF RequestWithdrawal, ProgressInv
  <2>4. CASE SetDelay
    BY <2>4 DEF SetDelay, ProgressInv
  <2> QED
    BY <2>1, <2>2, <2>3, <2>4
       DEF InWorld, Environment, ArriveAtTarget, ArriveAtSource, Move, Deposit,
           Earn, Tick, OracleWritten, Lag
<1>2. /\ pc' = pc /\ seen' = seen /\ processed' = processed
      /\ advanced' = IF InEpochs THEN advanced + queue'.iterator - queue.iterator
                                 ELSE advanced
  BY DEF InWorld, InEpochs
<1>3. queue'.iterator \in Nat /\ advanced' \in Nat /\ advanced <= advanced'
  BY <1>1, <1>2 DEF ProgressInv
<1> QED
  BY <1>1, <1>2, <1>3 DEF ProgressInv, InEpochs

\* A pass and ascend leave the queue alone, and run outside handle_epochs.
LEMMA ProgressElsewhere ==
  ASSUME ProgressInv, queue' = queue, UNCHANGED <<seen, processed, advanced>>,
         pc' = pc \/ (~InEpochs /\ ~InEpochs')
  PROVE  ProgressInv'
BY DEF ProgressInv, InEpochs

LEMMA ProgressInPass ==
  ASSUME ProgressInv,
         \/ InPass(RipenNow) \/ InPass(StartPass) \/ InPass(PassStep)
         \/ InPass(TimesOut)
  PROVE  ProgressInv'
<1>1. queue' = queue /\ UNCHANGED <<seen, processed, advanced>>
  BY DEF InPass, RipenNow, Ripen, StartPass, PassStep, TimesOut, ReadSource,
         ReadTarget, AskAmounts, Redeem, Claim, PushToSource, PushToTarget,
         Finalized, NothingToPush, AskClosing, DepositIdle, NothingToDeposit,
         chains, job
<1>2. pc' = pc \/ (~InEpochs /\ ~InEpochs')
  BY DEF InPass, RipenNow, Ripen, StartPass, PassStep, TimesOut, ReadSource,
         ReadTarget, AskAmounts, Redeem, Claim, PushToSource, PushToTarget,
         Finalized, NothingToPush, AskClosing, DepositIdle, NothingToDeposit,
         Over, InEpochs
<1> QED
  BY <1>1, <1>2, ProgressElsewhere

LEMMA ProgressInJobs ==
  ASSUME ProgressInv,
         StartEpochs \/ StartAscend \/ JobStep \/ Break
  PROVE  ProgressInv'
<1>1. CASE JobOver /\ queue' = queue
  BY <1>1 DEF JobOver, ProgressInv, InEpochs
<1>2. CASE StartEpochs
  BY <1>2 DEF StartEpochs, chains, job, ProgressInv, InEpochs
<1>3. CASE StartAscend \/ ClaimReward \/ ReadRouter
  <2>1. CASE JobOver
    BY <1>1, <1>3, <2>1 DEF ReadRouter, StartAscend, ClaimReward, chains
  <2>2. CASE ~JobOver
    <3>1. queue' = queue /\ UNCHANGED <<seen, processed, advanced>>
      BY <1>3, <2>2 DEF StartAscend, ClaimReward, ReadRouter, chains, job
    <3>2. ~InEpochs /\ ~InEpochs'
      BY <1>3, <2>2 DEF StartAscend, ClaimReward, ReadRouter, InEpochs
    <3> QED
      BY <3>1, <3>2, ProgressElsewhere
  <2> QED
    BY <2>1, <2>2
<1>4. CASE ReadQueue
  <2>1. queue' = queue
    BY <1>4 DEF ReadQueue, chains
  <2>2. CASE JobOver
    BY <1>1, <2>1, <2>2
  <2>3. CASE ~JobOver
    <3>1. /\ pc = "epochs" /\ pc' = "handling" /\ seen' = queue.iterator
          /\ processed' = processed /\ advanced' = advanced
      BY <1>4, <2>3 DEF ReadQueue
    <3> QED
      BY <2>1, <3>1 DEF ProgressInv, InEpochs
  <2> QED
    BY <2>2, <2>3
<1>5. CASE HandleEpoch
  <2>1. CASE JobOver /\ queue' = queue
    BY <1>1, <2>1
  <2>2. CASE UNCHANGED <<queue, job>> /\ pc = "handling" /\ pc' = "checking"
    BY <2>2 DEF ProgressInv, InEpochs, job
  <2>3. CASE /\ Advance /\ pc = "handling" /\ pc' = "checking"
             /\ advanced' = advanced + 1 /\ UNCHANGED <<seen, processed>>
    <3>1. /\ queue'.iterator = queue.iterator + 1
          /\ queue' = [iterator |-> queue'.iterator, shares |-> queue'.shares,
                       demand |-> queue'.demand, delay |-> queue'.delay]
      BY <2>3, AdvanceMoves
    <3> QED
      BY <2>3, <3>1 DEF ProgressInv, InEpochs
  <2> QED
    BY <1>5, <2>1, <2>2, <2>3 DEF HandleEpoch
<1>6. CASE CheckProgress
  <2>1. queue' = queue
    BY <1>6 DEF CheckProgress, chains
  <2>2. CASE JobOver
    BY <1>1, <2>1, <2>2
  <2>3. CASE ~JobOver
    <3>1. /\ pc = "checking" /\ pc' = "epochs" /\ queue.iterator # seen
          /\ processed' = processed + 1 /\ advanced' = advanced
      BY <1>6, <2>3 DEF CheckProgress
    <3> QED
      BY <2>1, <3>1 DEF ProgressInv, InEpochs
  <2> QED
    BY <2>2, <2>3
<1>7. CASE Distribute \/ Break
  BY <1>1, <1>7 DEF Distribute, Break, chains
<1> QED
  BY <1>2, <1>3, <1>4, <1>5, <1>6, <1>7 DEF JobStep

LEMMA ProgressNext ==
  ASSUME ProgressInv, [Next]_vars
  PROVE  ProgressInv'
<1>1. CASE UNCHANGED vars
  BY <1>1, ProgressElsewhere DEF vars, chains, job
<1>2. CASE \/ InJob(StartEpochs) \/ InJob(StartAscend) \/ InJob(JobStep)
           \/ InJob(Break)
  BY <1>2, ProgressInJobs DEF InJob
<1> QED
  BY <1>1, <1>2, ProgressInWorld, ProgressInPass DEF Next

LEMMA ProgressInit ==
  ASSUME Init
  PROVE  ProgressInv
BY DEF Init, ChainsInit, PassInit, ProgressInv, InEpochs

\* handle_epochs never reports an epoch that did not go by.
THEOREM ReportsAreEarned == Spec => []ReportsProgress
<1>1. Spec => []ProgressInv
  BY ProgressInit, ProgressNext, PTL DEF Spec
<1>2. ProgressInv => ReportsProgress
  BY DEF ProgressInv, ReportsProgress, InEpochs
<1> QED
  BY <1>1, <1>2, PTL
=============================================================================
