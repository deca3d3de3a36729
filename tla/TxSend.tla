------------------------------- MODULE TxSend -------------------------------
(***************************************************************************)
(* send_and_confirm of src/src/web3_scripts/tx.py: one account signs one   *)
(* operation after another, and each send returns only when the chain has  *)
(* decided what became of its nonce.                                       *)
(*                                                                         *)
(* The modelled system is the sending process, the node that answers it,   *)
(* the block producers, and whoever else signs with the same key.  A       *)
(* signed payload is a record; its hash is its identity, so an unchanged   *)
(* operation signed again at unchanged fees is the same element.           *)
(*                                                                         *)
(* Fees are small integers in one unit.  The node (external) keeps one     *)
(* payload per nonce and takes a replacement only when both of its fees    *)
(* are higher.  What it has forgotten, or has replaced, a block producer   *)
(* may still hold and include.                                             *)
(***************************************************************************)
EXTENDS Integers, Sequences

CONSTANTS
  fee_cap,           \* the highest tip ever offered
  fee_bump_percent,  \* the step between two offers
  stuck_after,       \* how long a send may go unsettled before on_stuck
  BaseFees,          \* the base fees the network may ask
  Suggestions,       \* the tips the node may suggest (or the fallback tip)
  Rounds,            \* how long one round of the send loop may take
  ForeignFees,       \* what another user of the key may offer
  MaxSends,          \* bound: sends by this process and its successors
  MaxFaults          \* bound: evictions, foreign payloads, stops and kills

ASSUME FeesAssumption ==
  /\ fee_cap \in Nat \ {0}
  /\ fee_bump_percent \in Nat /\ fee_bump_percent > 100
  /\ BaseFees \subseteq Nat /\ BaseFees # {}
  /\ Suggestions \subseteq Nat /\ Suggestions # {}
  /\ ForeignFees \subseteq [max : Nat, tip : Nat]
  /\ {MaxSends, MaxFaults} \subseteq Nat

\* A round takes no longer than the patience it is measured against.
ASSUME PaceAssumption ==
  /\ stuck_after \in Nat \ {0}
  /\ Rounds # {} /\ Rounds \subseteq 1 .. stuck_after

\* op 0 is somebody else's transaction.
Payload == [op : Nat, nonce : Nat, max : Nat, tip : Nat]

VARIABLES
  \* The chain and the node.
  base,              \* the base fee now
  mined,             \* per nonce, what was included and whether it succeeded
  indexed,           \* how many of those have a receipt the node can serve
  pool,              \* the payloads the answering node holds
  minable,           \* the payloads some block producer may include
  faults,            \* evictions, foreign payloads, stops and kills so far
  \* The send.
  pc,                \* where the send is, see Places
  outcome,           \* how the last send ended, see Outcomes
  sends,             \* sends begun
  op,                \* the operation being sent
  nonce,             \* the nonce it is sent at
  max_fee,           \* maxFeePerGas of the current offer
  max_priority_fee,  \* maxPriorityFeePerGas of the current offer
  attempted,         \* attempt > 0
  sent_hashes,       \* the payloads polled for
  unheard,           \* time waited less stuck_after for each alert given
  stopping,          \* should_stop()
  offered            \* history: every payload this send gave the node

network == <<base, mined, indexed, pool, minable>>
offer == <<max_fee, max_priority_fee, attempted>>
vars == <<network, faults, pc, outcome, sends, op, nonce, offer, sent_hashes,
          unheard, stopping, offered>>

\* "top": the head of the loop.  "broadcast": about to sign and send.  "poll":
\* waiting for a receipt.  "spent": waiting for one after "nonce too low".
Places == {"idle", "top", "broadcast", "poll", "spent"}

\* "mined": a TxOutcome.  "reverted", "refused": TxReverted, decided by a
\* receipt or by the node's answer.  "taken": NonceAlreadyUsed.  "stopped":
\* TxNotConfirmed.  "unsent": a check before the first broadcast.  "error": an
\* RPC error that nothing caught.  "died": the process was killed.
Outcomes == {"none", "mined", "reverted", "refused", "taken", "stopped",
             "unsent", "error", "died"}

Lesser(a, b) == IF a < b THEN a ELSE b
Greater(a, b) == IF a < b THEN b ELSE a

---------------------------------------------------------------------------
(* Fees.                                                                   *)

\* The allowance for the base fee: twice what it is.
Headroom == 2 * base

\* Strictly increasing, even where the percentage would round back.
_bump(value) == Greater(value + 1, (value * fee_bump_percent) \div 100)

\* The opening tip: what the node suggests, within the cap.
compute_fees(suggested) == Lesser(suggested, fee_cap)

\* The next tip: a step up, or the network's suggestion when that is higher.
NextTip(suggested) ==
  Greater(Lesser(_bump(max_priority_fee), fee_cap), compute_fees(suggested))

\* Mutation: maxFeePerGas compounds without regard to the base fee.
CompoundedMax(tip) == Greater(Headroom + tip, _bump(max_fee))

\* Mutation: maxFeePerGas follows the last one and not the base fee.
FollowedMax(tip) == Lesser(_bump(max_fee), Headroom + fee_cap)

\* A ceiling on what is paid, bounded by the base fee of the moment.
NextMax(tip) == Lesser(Greater(Headroom + tip, _bump(max_fee)), Headroom + fee_cap)

\* No replacement is signed unless the tip can rise.
next_fees(suggested) ==
  IF NextTip(suggested) > max_priority_fee
  THEN /\ max_priority_fee' = NextTip(suggested)
       /\ max_fee' = NextMax(NextTip(suggested))
  ELSE UNCHANGED <<max_fee, max_priority_fee>>

---------------------------------------------------------------------------
(* The chain, the node and whoever else holds the key.                     *)

BaseFeeMoves ==
  /\ base' \in BaseFees \ {base}
  /\ UNCHANGED <<mined, indexed, pool, minable, faults, pc, outcome, sends, op,
                 nonce, offer, sent_hashes, unheard, stopping, offered>>

\* A block includes a payload at the next nonce that pays the base fee.  The
\* others at that nonce can never be included any more.
Mine ==
  /\ \E p \in minable, ok \in BOOLEAN :
       /\ p.nonce = Len(mined)
       /\ p.max >= base
       /\ mined' = Append(mined, [tx |-> p, ok |-> ok])
  /\ pool' = {q \in pool : q.nonce > Len(mined)}
  /\ minable' = {q \in minable : q.nonce > Len(mined)}
  /\ UNCHANGED <<base, indexed, faults, pc, outcome, sends, op, nonce, offer,
                 sent_hashes, unheard, stopping, offered>>

\* Receipts can be queried only some time after the block.
Index ==
  /\ indexed < Len(mined)
  /\ indexed' = indexed + 1
  /\ UNCHANGED <<base, mined, pool, minable, faults, pc, outcome, sends, op,
                 nonce, offer, sent_hashes, unheard, stopping, offered>>

Fault == faults < MaxFaults /\ faults' = faults + 1

\* The node drops a payload, or another endpoint answers from now on; the
\* block producers may or may not have dropped it too.
Evict ==
  /\ Fault
  /\ \E p \in pool :
       /\ pool' = pool \ {p}
       /\ minable' \in {minable, minable \ {p}}
  /\ UNCHANGED <<base, mined, indexed, pc, outcome, sends, op, nonce, offer,
                 sent_hashes, unheard, stopping, offered>>

\* The node's rule for a payload it does not hold yet.
Accepts(p) ==
  \A q \in pool : q.nonce = p.nonce => q.max < p.max /\ q.tip < p.tip

Place(p) ==
  /\ pool' = {q \in pool : q.nonce # p.nonce} \cup {p}
  /\ minable' = minable \cup {p}

\* Somebody else signs at the next nonce with the same key.
Foreign ==
  /\ Fault
  /\ \E fees \in ForeignFees :
       LET p == [op |-> 0, nonce |-> Len(mined), max |-> fees.max,
                 tip |-> fees.tip]
       IN  p \notin pool /\ Accepts(p) /\ Place(p)
  /\ UNCHANGED <<base, mined, indexed, pc, outcome, sends, op, nonce, offer,
                 sent_hashes, unheard, stopping, offered>>

Network == BaseFeeMoves \/ Mine \/ Index \/ Evict \/ Foreign

---------------------------------------------------------------------------
(* One send.                                                               *)

\* The send returns or raises, and its locals are gone.
End(how) ==
  /\ pc' = "idle"
  /\ outcome' = how
  /\ max_fee' = 0
  /\ max_priority_fee' = 0
  /\ attempted' = FALSE
  /\ sent_hashes' = {}
  /\ unheard' = 0

\* Mutation: transactions still pending are counted.
PendingNonce == Len(mined) + (IF pool = {} THEN 0 ELSE 1)

\* The transaction count at "latest", so that a pending one is replaced.
LatestNonce == Len(mined)

\* A send starts: the balance, the gas estimate, the opening fees, the nonce.
\* A caller whose last send was confirmed may name the nonce that follows it
\* (run_ascend); one whose last send failed tries the operation again.  After
\* a stop or a kill the caller is a new process.
Begin ==
  /\ pc = "idle"
  /\ sends < MaxSends
  /\ sends' = sends + 1
  /\ op' = IF outcome = "mined" THEN op + 1 ELSE op
  /\ stopping' = (stopping /\ outcome # "stopped")
  /\ nonce' \in {LatestNonce} \cup
       (IF outcome = "mined" THEN {nonce + 1} ELSE {})
  /\ offered' = {}
  /\ \/ /\ pc' = "top"
        /\ outcome' = "none"
        /\ \E suggested \in Suggestions :
             /\ max_priority_fee' = compute_fees(suggested)
             /\ max_fee' = Headroom + compute_fees(suggested)
        /\ UNCHANGED <<attempted, sent_hashes, unheard>>
     \/ End("unsent")
  /\ UNCHANGED <<network, faults>>

StopsHere == stopping

\* Mutation: an alert is counted in every round, due or not.
CountedAlways == TRUE

\* Mutation: nobody is asked once a replacement has been tried.
AskedOnce == unheard >= stuck_after /\ ~attempted

\* waiting >= stuck_after * (alerts_sent + 1)
Stuck == unheard >= stuck_after

StopAtTop ==
  /\ pc = "top"
  /\ StopsHere
  /\ End("stopped")
  /\ UNCHANGED <<network, faults, sends, op, nonce, stopping, offered>>

\* The head of the loop: on_stuck, then the fees of a replacement.
Top ==
  /\ pc = "top"
  /\ ~StopsHere
  /\ unheard' = IF Stuck THEN unheard - stuck_after ELSE unheard
  /\ \/ /\ ~attempted
        /\ UNCHANGED <<max_fee, max_priority_fee>>
     \/ /\ attempted
        /\ \E suggested \in Suggestions : next_fees(suggested)
  /\ attempted' = TRUE
  /\ pc' = "broadcast"
  /\ UNCHANGED <<network, faults, outcome, sends, op, nonce, sent_hashes,
                 stopping, offered>>

\* next_fees reads the latest block outside of any handler: its failure ends
\* the send.
FeeReadFails ==
  /\ pc = "top"
  /\ ~StopsHere
  /\ attempted
  /\ End("error")
  /\ UNCHANGED <<network, faults, sends, op, nonce, stopping, offered>>

Signed == [op |-> op, nonce |-> nonce, max |-> max_fee, tip |-> max_priority_fee]

\* Its nonce is not spent and the node does not hold it already.
Fresh == Signed.nonce >= Len(mined) /\ Signed \notin pool

\* The broadcast reached the node, which took the payload; the call may raise
\* all the same.
Accepted ==
  /\ pc = "broadcast"
  /\ Fresh
  /\ Accepts(Signed)
  /\ Place(Signed)
  /\ sent_hashes' = sent_hashes \cup {Signed}
  /\ offered' = offered \cup {Signed}
  /\ pc' = "poll"
  /\ UNCHANGED <<base, mined, indexed, faults, outcome, sends, op, nonce,
                 offer, unheard, stopping>>

\* "already known", or an error that tells nothing: the node is out of reach.
Unanswered ==
  /\ pc = "broadcast"
  /\ sent_hashes' = sent_hashes \cup {Signed}
  /\ offered' = offered \cup {Signed}
  /\ pc' = "poll"
  /\ UNCHANGED <<network, faults, outcome, sends, op, nonce, offer, unheard,
                 stopping>>

\* Building the transaction asks the node too, and may fail.
Unsigned ==
  /\ pc = "broadcast"
  /\ pc' = "poll"
  /\ UNCHANGED <<network, faults, outcome, sends, op, nonce, offer, sent_hashes,
                 unheard, stopping, offered>>

\* "transaction underpriced" or a revert while the node holds nothing equal:
\* the payload comes back out of the poll set.  A revert ends the send when
\* nothing is left to poll.
Refused ==
  /\ pc = "broadcast"
  /\ Fresh
  /\ offered' = offered \cup {Signed}
  /\ \/ /\ pc' = "poll"
        /\ sent_hashes' = sent_hashes \ {Signed}
        /\ UNCHANGED <<outcome, offer, unheard>>
     \/ sent_hashes \subseteq {Signed} /\ End("refused")
  /\ UNCHANGED <<network, faults, sends, op, nonce, stopping>>

\* Mutation: "nonce too low" is one more answer that tells nothing.
WaitOn == pc' = "poll"

WaitForOwnReceipt == pc' = "spent"

\* "nonce too low": the nonce is spent, perhaps by one of ours.
TooLow ==
  /\ pc = "broadcast"
  /\ Signed.nonce < Len(mined)
  /\ sent_hashes' = sent_hashes \cup {Signed}
  /\ offered' = offered \cup {Signed}
  /\ WaitForOwnReceipt
  /\ UNCHANGED <<network, faults, outcome, sends, op, nonce, offer, unheard,
                 stopping>>

\* Mutation: any receipt is taken for a success.
AnyReceipt(ok) == "mined"

\* _confirmed
Verdict(ok) == IF ok THEN "mined" ELSE "reverted"

\* A receipt of one of the polled hashes.  Reporting a success reads the chain
\* id, and a failure of that read is raised.
Receipt ==
  /\ pc \in {"poll", "spent"}
  /\ \E n \in 1 .. indexed :
       /\ mined[n].tx \in sent_hashes
       /\ \/ End(Verdict(mined[n].ok))
          \/ mined[n].ok /\ End("error")
  /\ UNCHANGED <<network, faults, sends, op, nonce, stopping, offered>>

\* The wait ended without one: no receipt yet, or the node did not answer.
NoReceipt ==
  /\ pc = "poll"
  /\ pc' = "top"
  /\ \E round \in Rounds : unheard' = unheard + round
  /\ UNCHANGED <<network, faults, outcome, sends, op, nonce, offer,
                 sent_hashes, stopping, offered>>

NotOurs ==
  /\ pc = "spent"
  /\ End("taken")
  /\ UNCHANGED <<network, faults, sends, op, nonce, stopping, offered>>

RequestStop ==
  /\ Fault
  /\ ~stopping
  /\ stopping' = TRUE
  /\ UNCHANGED <<network, pc, outcome, sends, op, nonce, offer, sent_hashes,
                 unheard, offered>>

Die ==
  /\ Fault
  /\ pc # "idle"
  /\ End("died")
  /\ stopping' = FALSE
  /\ UNCHANGED <<network, sends, op, nonce, offered>>

Broadcast == Accepted \/ Unanswered \/ Unsigned \/ Refused \/ TooLow

Wait == Receipt \/ NoReceipt \/ NotOurs

Sending == StopAtTop \/ Top \/ FeeReadFails \/ Broadcast \/ Wait

Init ==
  /\ base \in BaseFees
  /\ mined = <<>>
  /\ indexed = 0
  /\ pool = {}
  /\ minable = {}
  /\ faults = 0
  /\ pc = "idle"
  /\ outcome = "none"
  /\ sends = 0
  /\ op = 1
  /\ nonce = 0
  /\ max_fee = 0
  /\ max_priority_fee = 0
  /\ attempted = FALSE
  /\ sent_hashes = {}
  /\ unheard = 0
  /\ stopping = FALSE
  /\ offered = {}

Next == Network \/ Begin \/ Sending \/ RequestStop \/ Die

Spec == Init /\ [][Next]_vars

\* The process keeps executing, and each wait in it ends.
FairSpec == Spec /\ WF_vars(Sending)

---------------------------------------------------------------------------
(* Properties.                                                             *)

\* Every variable of the process, the node and the chain keeps its shape.
TypeOK ==
  /\ base \in BaseFees
  /\ mined \in Seq([tx : Payload, ok : BOOLEAN])
  /\ indexed \in 0 .. Len(mined)
  /\ pool \subseteq Payload
  /\ minable \subseteq Payload
  /\ faults \in Nat
  /\ pc \in Places
  /\ outcome \in Outcomes
  /\ sends \in Nat
  /\ op \in Nat \ {0}
  /\ nonce \in Nat
  /\ max_fee \in Nat
  /\ max_priority_fee \in Nat
  /\ attempted \in BOOLEAN
  /\ sent_hashes \subseteq Payload
  /\ unheard \in Nat
  /\ stopping \in BOOLEAN
  /\ offered \subseteq Payload

\* What a send reports is what the chain decided: a success, a failure and a
\* lost nonce are each in the chain at this nonce, and the next one is free
\* (send_and_confirm, _confirmed).
DecidedByChain ==
  pc = "idle" /\ outcome \in {"mined", "reverted", "taken"} =>
    /\ nonce < Len(mined)
    /\ outcome # "taken" =>
         /\ mined[nonce + 1].tx \in offered
         /\ mined[nonce + 1].ok = (outcome = "mined")

\* No transaction of the account waits behind another: whatever is in flight
\* competes for the next nonce, so at most one of them is ever included and an
\* operation tried again replaces what an earlier process left behind.
NothingQueuesBehind == \A p \in pool \cup minable : p.nonce = Len(mined)

\* What makes the two inductive: the chain holds each nonce at its place, a send
\* offers payloads at its own nonce only, and never one ahead of the chain.
ChainInv ==
  /\ \A n \in 1 .. Len(mined) : mined[n].tx.nonce = n - 1
  /\ sent_hashes \subseteq offered
  /\ pc = "idle" => sent_hashes = {}
  /\ \A p \in offered : p.nonce = nonce
  /\ nonce <= Len(mined)
  /\ pc = "spent" => nonce < Len(mined)
  /\ NothingQueuesBehind
  /\ DecidedByChain

\* Whatever the base fee does between two offers, nothing of ours offers a tip
\* above the cap or a maximum above the allowance for the base fee plus the cap
\* (next_fees's ceiling).
WithinCap(max, tip) ==
  /\ tip <= fee_cap
  /\ \E b \in BaseFees : max <= 2 * b + fee_cap

PaysWithinCap ==
  \A p \in pool \cup minable : p.op # 0 => WithinCap(p.max, p.tip)

PaysInv == PaysWithinCap /\ (pc # "idle" => WithinCap(max_fee, max_priority_fee))

\* A send that does not settle is reported once per stuck_after, however the
\* offers fare: no more than that and one round pass unheard.
SilenceBounded == unheard < 2 * stuck_after

SilenceInv == SilenceBounded /\ (pc # "top" => unheard < stuck_after)

\* A changed offer has a higher tip than everything this send has offered, so a
\* node that holds one of those payloads ends up with the larger of the two
\* maxima; and that maximum has room for the new tip over twice the base fee of
\* the moment.  So what a base-fee rise strands is replaced as long as the tip
\* can rise, and a maximum falls only beside a payload that still pays
\* (next_fees).
ReplacementsPay ==
  [][pc = "top" /\ pc' = "broadcast" /\ ~UNCHANGED <<max_fee, max_priority_fee>> =>
       \A q \in offered :
         /\ q.tip < max_priority_fee'
         /\ Greater(q.max, max_fee') >= Headroom + max_priority_fee']_vars

\* What makes it inductive: the tip of the moment is the highest offered so far.
OfferInv == pc # "idle" => \A q \in offered : q.tip <= max_priority_fee

\* The chain and the node are never out of reach for good.
Reachable ==
  /\ WF_vars(Index)
  /\ SF_vars(BaseFeeMoves /\ \A b \in BaseFees : base' <= b)
  /\ SF_vars(Mine)
  /\ SF_vars(Accepted)
  /\ SF_vars(TooLow)
  /\ SF_vars(Receipt)

\* Then every send comes to an end, with no limit on its attempts.
Settles == Reachable => (pc # "idle" ~> pc = "idle")

\* Only a stop (or a kill) leaves a transaction of a send in flight.
OnlyStopLeavesInFlight ==
  pc = "idle" /\ outcome \notin {"stopped", "died"} => offered \cap minable = {}
=============================================================================
