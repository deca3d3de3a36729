-------------------------------- MODULE Upkeep --------------------------------
(***************************************************************************)
(* The three jobs that move the vault's assets, taken in turn by one       *)
(* process: rebalancing (Rebalance), handle_epochs of                      *)
(* src/src/web3_scripts/withdrawal_queue.py and run_ascend of ascend.py.   *)
(* Which job is next is left open: Scheduler decides it by the clock, and  *)
(* every job comes round again.                                            *)
(***************************************************************************)
EXTENDS Rebalance

CONSTANTS
  max_iterations  \* epochs one run of handle_epochs may advance

ASSUME UpkeepAssumption == max_iterations \in Nat

VARIABLES
  seen,       \* epochIterator as read before handleEpoch was sent
  processed,  \* what handle_epochs will report
  nonce,      \* rewarders claimed in this run of ascend
  \* A history variable, which no guard of the program reads.
  advanced    \* epochs that went by since the run began

job == <<seen, processed, nonce, advanced>>
vars == <<chains, pc, force, pass, faults, job>>

Places == {"idle"} \cup PassPlaces
            \cup {"epochs", "handling", "checking"} \cup {"claiming", "distributing"}

---------------------------------------------------------------------------
(* handle_epochs.                                                          *)

JobOver ==
  /\ pc' = "idle"
  /\ seen' = None
  /\ processed' = 0
  /\ nonce' = 0
  /\ advanced' = 0

StartEpochs ==
  /\ pc = "idle"
  /\ pc' = "epochs"
  /\ UNCHANGED <<chains, pass, faults, job>>

\* A mistake: the withdrawal delay cached with the immutable parameters.
CachedMaturity ==
  /\ queue.iterator < currentEpoch
  /\ queue.iterator + 1 + 1 <= now

\* The next epoch has ended and its delay, read afresh, has passed.
EpochMatured == queue.iterator < currentEpoch /\ maturity(queue.iterator) <= now

ReadQueue ==
  /\ pc = "epochs"
  /\ \/ /\ processed < max_iterations /\ EpochMatured
        /\ pc' = "handling"
        /\ seen' = queue.iterator
        /\ UNCHANGED <<processed, nonce, advanced>>
     \/ /\ processed = max_iterations \/ ~EpochMatured
        /\ JobOver
  /\ UNCHANGED <<chains, pass, faults>>

\* The transaction is mined.  It advances the queue, or confirms and does
\* nothing: for want of liquidity, or because a user advanced the queue to an
\* epoch that is not mature.
HandleEpoch ==
  /\ pc = "handling"
  /\ \/ /\ CanAdvance
        /\ Advance
        /\ advanced' = advanced + 1
        /\ pc' = "checking"
        /\ UNCHANGED <<seen, processed, nonce>>
     \/ /\ ~CanAdvance
        /\ pc' = "checking"
        /\ UNCHANGED <<source, queue, job>>
  /\ UNCHANGED <<target, wire, rewards, router, in_line, behind, now, moves,
                 pass, faults>>

\* A mistake: a transaction that is mined counts as an epoch.
CountsReceipts ==
  /\ pc = "checking"
  /\ processed' = processed + 1
  /\ pc' = "epochs"
  /\ seen' = None
  /\ UNCHANGED <<nonce, advanced>>
  /\ UNCHANGED <<chains, pass, faults>>

\* Progress is what the chain says.
CheckProgress ==
  /\ pc = "checking"
  /\ \/ /\ queue.iterator = seen
        /\ JobOver
     \/ /\ queue.iterator # seen
        /\ processed' = processed + 1
        /\ pc' = "epochs"
        /\ seen' = None
        /\ UNCHANGED <<nonce, advanced>>
  /\ UNCHANGED <<chains, pass, faults>>

---------------------------------------------------------------------------
(* run_ascend.                                                             *)

Unswept == router + Sum(rewards)

\* A mistake: a run with nothing to claim is not begun.
StartWhenClaimable ==
  /\ pc = "idle"
  /\ Sum(rewards) > 0
  /\ pc' = "claiming"
  /\ UNCHANGED <<chains, pass, faults, job>>

StartAscend ==
  /\ pc = "idle"
  /\ pc' = "claiming"
  /\ UNCHANGED <<chains, pass, faults, job>>

ClaimReward ==
  /\ pc = "claiming"
  /\ nonce < Rewarders
  /\ LET r == nonce + 1
     IN  /\ rewards' = [rewards EXCEPT ![r] = 0]
         /\ router' = router + rewards[r]
         /\ nonce' = r
  /\ UNCHANGED <<source, target, wire, queue, in_line, behind, now, moves, pc,
                 pass, faults, seen, processed, advanced>>

\* The router's balance is read after the claims: nothing, or distribute.
ReadRouter ==
  /\ pc = "claiming"
  /\ nonce = Rewarders
  /\ \/ /\ router = 0
        /\ JobOver
     \/ /\ router > 0
        /\ pc' = "distributing"
        /\ UNCHANGED job
  /\ UNCHANGED <<chains, pass, faults>>

Distribute ==
  /\ pc = "distributing"
  /\ source' = [source EXCEPT !.held = @ + router]
  /\ router' = 0
  /\ in_line' = FALSE
  /\ JobOver
  /\ UNCHANGED <<target, wire, queue, rewards, behind, now, moves, pass,
                 faults>>

---------------------------------------------------------------------------
\* Any step may raise and the process may be killed at any of them.
Break ==
  /\ pc # "idle"
  /\ faults < MaxFaults
  /\ faults' = faults + 1
  /\ Over
  /\ JobOver
  /\ UNCHANGED chains

JobStep ==
  \/ ReadQueue \/ HandleEpoch \/ CheckProgress
  \/ ClaimReward \/ ReadRouter \/ Distribute

\* The history of advances sees the world's as well.
InWorld(A) ==
  /\ A
  /\ advanced' = IF pc \in {"epochs", "handling", "checking"}
                 THEN advanced + queue'.iterator - queue.iterator
                 ELSE advanced
  /\ UNCHANGED <<pc, force, pass, faults, seen, processed, nonce>>

\* force_withdrawal is read once per process.
InPass(A) == A /\ UNCHANGED <<job, force>>
InJob(A) == A /\ UNCHANGED force

Next ==
  \/ InWorld(Environment)
  \/ InPass(RipenNow) \/ InPass(StartPass) \/ InPass(PassStep)
  \/ InPass(TimesOut)
  \/ InJob(StartEpochs) \/ InJob(StartAscend) \/ InJob(JobStep)
  \/ InJob(Break)

Init ==
  /\ ChainsInit
  /\ PassInit
  /\ seen = None
  /\ processed = 0
  /\ nonce = 0
  /\ advanced = 0

Spec == Init /\ [][Next]_vars

---------------------------------------------------------------------------
\* Messages arrive, redemptions ripen, time passes, the oracle job comes round;
\* a job that has begun goes on, and each of the three begins again and again.
FairSpec ==
  /\ Spec
  /\ WF_vars(InWorld(ArriveAtTarget)) /\ WF_vars(InWorld(ArriveAtSource))
  /\ WF_vars(InWorld(Tick)) /\ WF_vars(InWorld(OracleWritten))
  /\ WF_vars(InWorld(Lag))
  /\ SF_vars(InPass(RipenNow))
  /\ WF_vars(InPass(PassStep)) /\ WF_vars(InJob(JobStep))
  /\ SF_vars(InPass(StartPass))
  /\ SF_vars(InJob(StartEpochs)) /\ SF_vars(InJob(StartAscend))

---------------------------------------------------------------------------
(* What the runs show.                                                     *)

TypeOK ==
  /\ pc \in Places
  /\ force \in BOOLEAN
  /\ {source.held, source.supply} \subseteq Nat
  /\ {target.idle, target.claimable, target.pending, target.staked} \subseteq Nat
  /\ {source.received, source.sent, target.received, target.sent}
       \subseteq 0 .. LastNonce
  /\ wire \in [to_target : Seq(Nat), to_source : Seq(Nat)]
  /\ {queue.demand, queue.delay} \cup {queue.shares[e] : e \in Epochs} \subseteq Nat
  /\ queue.iterator \in 0 .. now
  /\ rewards \in [1 .. Rewarders -> Nat]
  /\ plan.push \in Nat /\ plan.redeem \in Nat /\ plan.deposit \in Nat
  /\ {router, deficit, pushed, processed, advanced} \subseteq Nat
  /\ nonce \in 0 .. Rewarders
  /\ {in_line, behind} \subseteq BOOLEAN
  /\ now \in 0 .. MaxTime /\ moves \in 0 .. MaxMoves /\ faults \in 0 .. MaxFaults

\* At most one transfer is ever under way, though a pass may give up waiting
\* for it and the validation of the next may still see a block from before it:
\* the nonces read at the latest blocks stop the second one.
OneTransfer == Len(wire.to_target) + Len(wire.to_source) <= 1

\* What was freed to meet a deficit goes back into the vault only when the
\* deficit has been pushed in full, or when it became claimable between the two
\* readings of a pass.
RedepositsSurplusOnly ==
  [][ (pc = "depositing" /\ target'.staked > target.staked)
        => pushed >= deficit \/ ripened ]_vars

\* handle_epochs never reports an epoch that did not go by, whatever its
\* transactions did and whoever else advanced the queue.
ReportsProgress == processed <= advanced

\* An epoch that is mature is handled in the end, though the source chain is
\* short of liquidity, passes break off between their transactions and
\* messages come late.
WithdrawalsServed == Mature ~> ~Mature

\* What a rewarder pays out or the router holds reaches the vault, though a run
\* of ascend may break off between the claims and the distribution.
RewardsReachVault == Unswept > 0 ~> Unswept = 0

\* When the world has done its worst, the two sides come to rest: no pass moves
\* back what an earlier one moved.
TransfersCease ==
  <>[][ Len(wire'.to_target) <= Len(wire.to_target)
        /\ Len(wire'.to_source) <= Len(wire.to_source) ]_vars
=============================================================================
