---------------------------- MODULE TxSendProofs ----------------------------
(***************************************************************************)
(* Theorems about TxSend, for every fee cap, step, suggestion and base fee *)
(* and any number of sends and faults.                                     *)
(***************************************************************************)
EXTENDS TxSend, TLAPS

USE DEF network, offer

---------------------------------------------------------------------------
(* Type correctness.                                                       *)

\* The fees of an offer are amounts.
LEMMA TipType ==
  ASSUME TypeOK, NEW suggested \in Suggestions
  PROVE  compute_fees(suggested) \in Nat /\ NextTip(suggested) \in Nat
<1>1. suggested \in Nat /\ fee_cap \in Nat /\ fee_bump_percent \in Nat
      /\ max_priority_fee \in Nat
  BY FeesAssumption DEF TypeOK
<1>2. max_priority_fee * fee_bump_percent \in Nat
  BY <1>1
<1>3. (max_priority_fee * fee_bump_percent) \div 100 \in Nat
  BY <1>2
<1>4. _bump(max_priority_fee) \in Nat
  BY <1>1, <1>3 DEF _bump, Greater
<1> QED BY <1>1, <1>4 DEF compute_fees, NextTip, Greater, Lesser

LEMMA MaxType ==
  ASSUME TypeOK, NEW tip \in Nat PROVE Headroom \in Nat /\ NextMax(tip) \in Nat
<1>1. base \in Nat /\ fee_cap \in Nat /\ fee_bump_percent \in Nat /\ max_fee \in Nat
  BY FeesAssumption DEF TypeOK
<1>2. max_fee * fee_bump_percent \in Nat
  BY <1>1
<1>3. (max_fee * fee_bump_percent) \div 100 \in Nat
  BY <1>2
<1>4. _bump(max_fee) \in Nat
  BY <1>1, <1>3 DEF _bump, Greater
<1> QED BY <1>1, <1>4 DEF NextMax, Headroom, Greater, Lesser

LEMMA SignedType == ASSUME TypeOK PROVE Signed \in Payload
  BY DEF TypeOK, Signed, Payload

LEMMA EndType ==
  ASSUME TypeOK, NEW how \in Outcomes, End(how)
  PROVE  /\ pc' \in Places /\ outcome' \in Outcomes
         /\ max_fee' \in Nat /\ max_priority_fee' \in Nat /\ attempted' \in BOOLEAN
         /\ sent_hashes' \subseteq Payload /\ unheard' \in Nat
  BY DEF End, Places

LEMMA TypeInit == Init => TypeOK
<1> SUFFICES ASSUME Init PROVE TypeOK
  OBVIOUS
<1>1. mined \in Seq([tx : Payload, ok : BOOLEAN]) /\ indexed \in 0 .. Len(mined)
  BY DEF Init
<1>2. /\ faults \in Nat /\ sends \in Nat /\ op \in Nat \ {0} /\ nonce \in Nat
      /\ max_fee \in Nat /\ max_priority_fee \in Nat /\ unheard \in Nat
  BY DEF Init
<1>3. pc \in Places /\ outcome \in Outcomes /\ attempted \in BOOLEAN
      /\ stopping \in BOOLEAN
  BY Zenon DEF Init, Places, Outcomes
<1> QED BY <1>1, <1>2, <1>3 DEF Init, TypeOK

LEMMA TypeNetwork == ASSUME TypeOK, Network PROVE TypeOK'
<1>1. CASE BaseFeeMoves
  BY <1>1 DEF BaseFeeMoves, TypeOK
<1>2. CASE Mine
  <2>1. PICK p \in minable, ok \in BOOLEAN :
          mined' = Append(mined, [tx |-> p, ok |-> ok])
    BY <1>2 DEF Mine
  <2>2. [tx |-> p, ok |-> ok] \in [tx : Payload, ok : BOOLEAN]
    BY DEF TypeOK
  <2>3. mined' \in Seq([tx : Payload, ok : BOOLEAN]) /\ Len(mined') = Len(mined) + 1
    BY <2>1, <2>2 DEF TypeOK
  <2>4. indexed' \in 0 .. Len(mined')
    BY <1>2, <2>3 DEF Mine, TypeOK
  <2> QED BY <1>2, <2>3, <2>4 DEF Mine, TypeOK
<1>3. CASE Index
  BY <1>3 DEF Index, TypeOK
<1>4. CASE Evict
  BY <1>4 DEF Evict, Fault, TypeOK
<1>5. CASE Foreign
  <2>1. PICK fees \in ForeignFees :
          Place([op |-> 0, nonce |-> Len(mined), max |-> fees.max, tip |-> fees.tip])
    BY <1>5 DEF Foreign
  <2>2. [op |-> 0, nonce |-> Len(mined), max |-> fees.max, tip |-> fees.tip]
          \in Payload
    BY FeesAssumption DEF Payload, TypeOK
  <2> QED BY <1>5, <2>1, <2>2 DEF Foreign, Fault, Place, TypeOK
<1> QED BY <1>1, <1>2, <1>3, <1>4, <1>5 DEF Network

LEMMA TypeSend == ASSUME TypeOK, Begin \/ Sending \/ RequestStop \/ Die PROVE TypeOK'
<1>1. CASE Begin
  <2>1. nonce' \in Nat /\ op' \in Nat \ {0} /\ sends' \in Nat /\ stopping' \in BOOLEAN
    BY <1>1 DEF Begin, LatestNonce, TypeOK
  <2>2. CASE End("unsent")
    BY <1>1, <2>1, <2>2, EndType DEF Begin, TypeOK, Outcomes
  <2>3. CASE pc' = "top" /\ outcome' = "none" /\ ~End("unsent")
    <3>1. PICK suggested \in Suggestions :
            /\ max_priority_fee' = compute_fees(suggested)
            /\ max_fee' = Headroom + compute_fees(suggested)
      BY <1>1, <2>3 DEF Begin
    <3>2. max_priority_fee' \in Nat /\ max_fee' \in Nat
      BY <3>1, TipType, MaxType
    <3> QED BY <1>1, <2>1, <2>3, <3>2 DEF Begin, TypeOK, Places, Outcomes
  <2> QED BY <1>1, <2>2, <2>3 DEF Begin
<1>2. CASE StopAtTop \/ FeeReadFails \/ NotOurs \/ Die
  <2>1. PICK how \in Outcomes : End(how)
    BY <1>2 DEF StopAtTop, FeeReadFails, NotOurs, Die, Outcomes
  <2>2. UNCHANGED <<network, sends, op, nonce, offered>>
    BY <1>2 DEF StopAtTop, FeeReadFails, NotOurs, Die
  <2>3. faults' \in Nat
    BY <1>2 DEF StopAtTop, FeeReadFails, NotOurs, Die, Fault, TypeOK
  <2>4. stopping' \in BOOLEAN
    BY <1>2, Zenon DEF StopAtTop, FeeReadFails, NotOurs, Die, TypeOK
  <2> QED BY <2>1, <2>2, <2>3, <2>4, EndType DEF TypeOK
<1>3. CASE Top
  <2>1. unheard' \in Nat
    BY <1>3, PaceAssumption DEF Top, Stuck, TypeOK
  <2>2. max_fee' \in Nat /\ max_priority_fee' \in Nat
    <3>1. CASE UNCHANGED <<max_fee, max_priority_fee>>
      BY <3>1 DEF TypeOK
    <3>2. CASE \E suggested \in Suggestions : next_fees(suggested)
      BY <3>2, TipType, MaxType DEF next_fees, TypeOK
    <3> QED BY <1>3, <3>1, <3>2 DEF Top
  <2> QED BY <1>3, <2>1, <2>2 DEF Top, TypeOK, Places
<1>4. CASE Accepted \/ Unanswered \/ Unsigned \/ TooLow
  BY <1>4, SignedType
  DEF Accepted, Unanswered, Unsigned, TooLow, Place, WaitForOwnReceipt, TypeOK, Places
<1>5. CASE Refused
  <2>1. CASE End("refused")
    BY <1>5, <2>1, EndType, SignedType DEF Refused, TypeOK, Outcomes
  <2>2. CASE pc' = "poll" /\ ~End("refused")
    BY <1>5, <2>2, SignedType DEF Refused, TypeOK, Places
  <2> QED BY <1>5, <2>1, <2>2 DEF Refused
<1>6. CASE Receipt
  <2>1. \E how \in Outcomes : End(how)
    BY <1>6 DEF Receipt, Verdict, Outcomes
  <2> QED BY <1>6, <2>1, EndType DEF Receipt, TypeOK
<1>7. CASE NoReceipt
  <2>1. unheard' \in Nat
    BY <1>7, PaceAssumption DEF NoReceipt, TypeOK
  <2> QED BY <1>7, <2>1 DEF NoReceipt, TypeOK, Places
<1>8. CASE RequestStop
  BY <1>8 DEF RequestStop, Fault, TypeOK
<1> QED BY <1>1, <1>2, <1>3, <1>4, <1>5, <1>6, <1>7, <1>8
        DEF Sending, Broadcast, Wait

LEMMA TypeStep == ASSUME TypeOK, [Next]_vars PROVE TypeOK'
<1>1. CASE UNCHANGED vars
  BY <1>1 DEF vars, TypeOK
<1> QED BY <1>1, TypeNetwork, TypeSend DEF Next

\* Every variable keeps its type.
THEOREM TypeCorrect == Spec => []TypeOK
  BY TypeInit, TypeStep, PTL DEF Spec

---------------------------------------------------------------------------
(* What a send reports, and what is in flight.                             *)

LEMMA ChainInit == Init => ChainInv
  BY DEF Init, ChainInv, NothingQueuesBehind, DecidedByChain

\* The step is stated for one step between two type-correct states.
ChainStep == TypeOK /\ TypeOK' /\ ChainInv

\* Steps that leave the chain, the payloads and the nonce alone, and end a send
\* in no way that claims to know the chain's decision.
LEMMA ChainKept ==
  ASSUME ChainInv, UNCHANGED <<mined, pool, minable, nonce, offered>>,
         sent_hashes' \in {sent_hashes, {}},
         pc' # "spent" \/ pc' = pc,
         pc' # "idle" \/ pc' = pc \/ sent_hashes' = {},
         \/ pc' # "idle"
         \/ pc' = pc /\ outcome' = outcome
         \/ outcome' \notin {"mined", "reverted", "taken"}
  PROVE  ChainInv'
  BY DEF ChainInv, NothingQueuesBehind, DecidedByChain

LEMMA ChainMine == ASSUME ChainStep, Mine PROVE ChainInv'
<1> USE DEF ChainStep
<1>1. PICK p \in minable, ok \in BOOLEAN :
        /\ p.nonce = Len(mined)
        /\ mined' = Append(mined, [tx |-> p, ok |-> ok])
  BY DEF Mine
<1>2. /\ mined \in Seq([tx : Payload, ok : BOOLEAN])
      /\ Len(mined') = Len(mined) + 1 /\ Len(mined) \in Nat
      /\ \A n \in 1 .. Len(mined) : mined'[n] = mined[n]
      /\ mined'[Len(mined) + 1] = [tx |-> p, ok |-> ok]
  <2>1. mined \in Seq([tx : Payload, ok : BOOLEAN]) /\ Len(mined) \in Nat
    BY DEF TypeOK
  <2>2. [tx |-> p, ok |-> ok] \in [tx : Payload, ok : BOOLEAN]
    BY DEF TypeOK
  <2> HIDE DEF ChainStep
  <2> DEFINE T == [tx : Payload, ok : BOOLEAN]
             e == [tx |-> p, ok |-> ok]
  <2>3. mined \in Seq(T) /\ e \in T /\ mined' = Append(mined, e)
    BY <1>1, <2>1, <2>2
  <2> HIDE DEF T, e
  <2>4. /\ Len(mined') = Len(mined) + 1
        /\ \A n \in 1 .. Len(mined) : mined'[n] = mined[n]
        /\ mined'[Len(mined) + 1] = e
    BY <2>3
  <2> QED BY <2>1, <2>4 DEF e
<1>3. \A n \in 1 .. Len(mined') : mined'[n].tx.nonce = n - 1
  BY <1>1, <1>2 DEF ChainInv
<1>4. NothingQueuesBehind'
  BY DEF Mine, ChainInv, NothingQueuesBehind
<1>5. DecidedByChain'
  <2> SUFFICES ASSUME pc' = "idle", outcome' \in {"mined", "reverted", "taken"}
               PROVE  /\ nonce' < Len(mined')
                      /\ outcome' # "taken" =>
                           /\ mined'[nonce' + 1].tx \in offered'
                           /\ mined'[nonce' + 1].ok = (outcome' = "mined")
    BY DEF DecidedByChain
  <2>1. /\ pc = "idle" /\ outcome' = outcome /\ nonce' = nonce
        /\ offered' = offered /\ nonce \in Nat
    BY DEF Mine, TypeOK
  <2>2. nonce < Len(mined) /\ nonce + 1 \in 1 .. Len(mined)
    BY <1>2, <2>1 DEF ChainInv, DecidedByChain
  <2>3. mined'[nonce' + 1] = mined[nonce + 1]
    BY <1>2, <2>1, <2>2
  <2>4. outcome # "taken" => mined[nonce + 1].tx \in offered
    BY <2>1 DEF ChainInv, DecidedByChain
  <2>5. outcome # "taken" => mined[nonce + 1].ok = (outcome = "mined")
    BY <2>1 DEF ChainInv, DecidedByChain
  <2> QED BY <1>2, <2>1, <2>2, <2>3, <2>4, <2>5
<1>6. /\ sent_hashes' \subseteq offered' /\ \A q \in offered' : q.nonce = nonce'
      /\ nonce' <= Len(mined')
      /\ pc' = "spent" => nonce' < Len(mined')
      /\ pc' = "idle" => sent_hashes' = {}
  BY <1>2 DEF Mine, ChainInv, TypeOK
<1> QED BY <1>3, <1>4, <1>5, <1>6 DEF ChainInv

\* A payload is placed only at the chain's next nonce.
LEMMA ChainForeign == ASSUME ChainStep, Foreign PROVE ChainInv'
<1>1. PICK p : p.nonce = Len(mined) /\ Place(p)
  BY DEF Foreign
<1>2. NothingQueuesBehind'
  BY <1>1 DEF Foreign, Place, ChainStep, ChainInv, NothingQueuesBehind
<1> QED BY <1>2 DEF Foreign, ChainStep, ChainInv, DecidedByChain

LEMMA ChainNetwork == ASSUME ChainStep, Network PROVE ChainInv'
<1>1. CASE BaseFeeMoves \/ Index
  BY <1>1, ChainKept DEF BaseFeeMoves, Index, ChainStep
<1>2. CASE Evict
  BY <1>2 DEF Evict, ChainStep, ChainInv, NothingQueuesBehind, DecidedByChain
<1> QED BY <1>1, <1>2, ChainMine, ChainForeign DEF Network

\* A new send takes the chain's next nonce, or one the chain has passed.
LEMMA ChainBegin == ASSUME ChainStep, Begin PROVE ChainInv'
<1> USE DEF ChainStep
<1>1. nonce' <= Len(mined)
  BY DEF Begin, LatestNonce, ChainInv, DecidedByChain, TypeOK
<1>2. /\ mined' = mined /\ UNCHANGED <<pool, minable>> /\ offered' = {}
      /\ pc' \in {"top", "idle"} /\ outcome' \in {"none", "unsent"}
      /\ sent_hashes' \in {sent_hashes, {}}
  BY DEF Begin, End
<1>3. sent_hashes' = {}
  BY <1>2 DEF Begin, ChainInv
<1> QED BY <1>1, <1>2, <1>3 DEF ChainInv, NothingQueuesBehind, DecidedByChain

LEMMA ChainBroadcast == ASSUME ChainStep, Broadcast PROVE ChainInv'
<1> USE DEF ChainStep
<1>1. /\ Signed.nonce = nonce /\ mined' = mined /\ nonce' = nonce
      /\ \/ offered' = offered \cup {Signed}
            /\ sent_hashes' \subseteq sent_hashes \cup {Signed}
         \/ UNCHANGED <<offered, sent_hashes>>
  BY DEF Broadcast, Accepted, Unanswered, Unsigned, Refused, TooLow, Signed, End
<1>2. /\ sent_hashes' \subseteq offered' /\ \A p \in offered' : p.nonce = nonce'
      /\ pc' = "idle" => sent_hashes' = {}
  BY <1>1 DEF ChainInv, Broadcast, Accepted, Unanswered, Unsigned, Refused, TooLow,
     WaitForOwnReceipt, End
<1>3. NothingQueuesBehind'
  <2>1. CASE Accepted
    <3>1. Signed.nonce = Len(mined)
      BY <1>1, <2>1 DEF Accepted, Fresh, ChainInv, TypeOK
    <3> QED BY <1>1, <2>1, <3>1
            DEF Accepted, Place, ChainInv, NothingQueuesBehind
  <2>2. CASE ~Accepted
    BY <2>2 DEF Broadcast, Unanswered, Unsigned, Refused, TooLow, ChainInv,
       NothingQueuesBehind
  <2> QED BY <2>1, <2>2
<1>4. pc' = "spent" => nonce' < Len(mined')
  BY <1>1 DEF Broadcast, Accepted, Unanswered, Unsigned, Refused, TooLow, End
<1>5. DecidedByChain'
  BY DEF Broadcast, Accepted, Unanswered, Unsigned, Refused, TooLow, WaitForOwnReceipt,
     End, DecidedByChain
<1> QED BY <1>1, <1>2, <1>3, <1>4, <1>5 DEF ChainInv

\* The receipt found is at this send's nonce, since the chain holds each
\* payload at its own.
LEMMA ChainReceipt == ASSUME ChainStep, Receipt PROVE ChainInv'
<1> USE DEF ChainStep
<1>1. PICK n \in 1 .. indexed :
        /\ mined[n].tx \in sent_hashes
        /\ End(Verdict(mined[n].ok)) \/ End("error")
  BY Zenon DEF Receipt
<1>2. n \in 1 .. Len(mined) /\ Len(mined) \in Nat /\ nonce \in Nat
  <2>1. indexed \in 0 .. Len(mined) /\ nonce \in Nat
    BY Zenon DEF TypeOK
  <2>2. Len(mined) \in Nat
    <3> DEFINE Entry == [tx : Payload, ok : BOOLEAN]
    <3>1. mined \in Seq(Entry)
      BY Zenon DEF TypeOK
    <3> HIDE DEF Entry
    <3> QED BY <3>1
  <2> HIDE DEF ChainStep
  <2> QED BY <2>1, <2>2
<1>3. mined[n].tx \in offered /\ nonce = n - 1
  BY <1>1, <1>2 DEF ChainInv
<1>4. nonce < Len(mined) /\ nonce + 1 = n
  BY <1>2, <1>3
<1>5. mined[n].ok \in BOOLEAN
  <2> DEFINE Entry == [tx : Payload, ok : BOOLEAN]
  <2>2. mined \in Seq(Entry)
    BY DEF TypeOK
  <2> HIDE DEF Entry
  <2>3. mined[n] \in Entry
    BY <1>2, <2>2
  <2> QED BY <2>3, Zenon DEF Entry
<1>6. UNCHANGED <<mined, pool, minable, nonce, offered>>
      /\ sent_hashes' = {} /\ pc' = "idle"
  BY <1>1 DEF Receipt, End
<1>7. DecidedByChain'
  <2>1. CASE outcome' = "error"
    BY <2>1 DEF DecidedByChain
  <2>2. CASE outcome' = Verdict(mined[n].ok)
    <3>1. outcome' = (IF mined[n].ok THEN "mined" ELSE "reverted")
      BY <2>2 DEF Verdict
    <3>2. mined[n].ok = (outcome' = "mined")
      BY <1>5, <3>1
    <3> QED BY <1>3, <1>4, <1>6, <3>2 DEF DecidedByChain
  <2> QED BY <1>1, <2>1, <2>2 DEF End
<1> QED BY <1>6, <1>7 DEF ChainInv, NothingQueuesBehind

LEMMA ChainRest ==
  ASSUME ChainStep, StopAtTop \/ Top \/ FeeReadFails \/ NoReceipt \/ NotOurs
                    \/ RequestStop \/ Die \/ UNCHANGED vars
  PROVE  ChainInv'
<1>1. CASE NotOurs
  BY <1>1 DEF NotOurs, End, ChainStep, ChainInv, NothingQueuesBehind,
     DecidedByChain
<1>2. CASE ~NotOurs
  BY <1>2, ChainKept
  DEF StopAtTop, Top, FeeReadFails, NoReceipt, RequestStop, Die, End, vars,
      ChainStep
<1> QED BY <1>1, <1>2

LEMMA ChainAlways == Spec => []ChainInv
<1>1. TypeOK /\ ChainInv /\ [Next]_vars => (TypeOK /\ ChainInv)'
  BY TypeStep, ChainNetwork, ChainBegin, ChainBroadcast, ChainReceipt, ChainRest
  DEF Next, Sending, Wait, ChainStep
<1> QED BY <1>1, TypeInit, ChainInit, PTL DEF Spec

\* Whatever the node answers, whatever it forgets and however often the process
\* dies: what a send reports as decided has been decided by the chain.
THEOREM SendDecidedByChain == Spec => []DecidedByChain
<1>1. ChainInv => DecidedByChain
  BY DEF ChainInv
<1> QED BY <1>1, ChainAlways, PTL

\* Every transaction of the account in flight is at the chain's next nonce, so
\* at most one of them is ever included.
THEOREM SendsReplace == Spec => []NothingQueuesBehind
<1>1. ChainInv => NothingQueuesBehind
  BY DEF ChainInv
<1> QED BY <1>1, ChainAlways, PTL

---------------------------------------------------------------------------
(* What is offered, and for how long nobody hears of it.                   *)

\* The opening offer and every replacement stay within the cap over the base
\* fee at which they were computed.
LEMMA OpeningWithin ==
  ASSUME TypeOK, NEW suggested \in Suggestions
  PROVE  WithinCap(Headroom + compute_fees(suggested), compute_fees(suggested))
<1>1. compute_fees(suggested) \in Nat /\ compute_fees(suggested) <= fee_cap
  BY TipType, FeesAssumption DEF compute_fees, Lesser
<1>2. Headroom + compute_fees(suggested) <= 2 * base + fee_cap
  BY <1>1, FeesAssumption DEF Headroom, TypeOK
<1> QED BY <1>1, <1>2 DEF WithinCap, TypeOK

LEMMA ReplacementWithin ==
  ASSUME TypeOK, NEW suggested \in Suggestions
  PROVE  WithinCap(NextMax(NextTip(suggested)), NextTip(suggested))
<1>1. compute_fees(suggested) \in Nat /\ compute_fees(suggested) <= fee_cap
  BY TipType, FeesAssumption DEF compute_fees, Lesser
<1>2. Lesser(_bump(max_priority_fee), fee_cap) <= fee_cap
  <2>1. max_priority_fee * fee_bump_percent \in Nat
    BY FeesAssumption DEF TypeOK
  <2>2. (max_priority_fee * fee_bump_percent) \div 100 \in Nat
    BY <2>1
  <2>3. _bump(max_priority_fee) \in Nat
    BY <2>2 DEF _bump, Greater, TypeOK
  <2> QED BY <2>3, FeesAssumption DEF Lesser
<1>3. NextTip(suggested) \in Nat /\ NextTip(suggested) <= fee_cap
  BY <1>1, <1>2, TipType DEF NextTip, Greater
<1>4. NextMax(NextTip(suggested)) <= 2 * base + fee_cap
  <2>1. max_fee * fee_bump_percent \in Nat
    BY FeesAssumption DEF TypeOK
  <2>2. (max_fee * fee_bump_percent) \div 100 \in Nat
    BY <2>1
  <2>3. _bump(max_fee) \in Nat
    BY <2>2 DEF _bump, Greater, TypeOK
  <2>4. Headroom \in Nat /\ fee_cap \in Nat /\ Headroom = 2 * base
    BY MaxType, FeesAssumption DEF Headroom
  <2> QED BY <1>3, <2>3, <2>4 DEF NextMax, Lesser, Greater
<1> QED BY <1>3, <1>4 DEF WithinCap, TypeOK

LEMMA PaysNext == ASSUME TypeOK, PaysInv, [Next]_vars PROVE PaysInv'
<1>1. CASE Begin
  <2>1. CASE pc' = "idle"
    BY <1>1, <2>1 DEF Begin, PaysInv, PaysWithinCap, WithinCap
  <2>2. CASE pc' # "idle"
    <3>1. PICK suggested \in Suggestions :
            /\ max_priority_fee' = compute_fees(suggested)
            /\ max_fee' = Headroom + compute_fees(suggested)
      BY <1>1, <2>2 DEF Begin, End
    <3> QED BY <1>1, <3>1, OpeningWithin
            DEF Begin, PaysInv, PaysWithinCap, WithinCap
  <2> QED BY <2>1, <2>2
<1>2. CASE Top
  <2>1. CASE UNCHANGED <<max_fee, max_priority_fee>>
    BY <1>2, <2>1 DEF Top, PaysInv, PaysWithinCap, WithinCap
  <2>2. CASE \E suggested \in Suggestions : next_fees(suggested)
    <3>1. PICK suggested \in Suggestions : next_fees(suggested)
      BY <2>2
    <3>2. WithinCap(max_fee', max_priority_fee')
      BY <1>2, <3>1, ReplacementWithin DEF next_fees, Top, PaysInv, WithinCap
    <3> QED BY <1>2, <3>2 DEF Top, PaysInv, PaysWithinCap, WithinCap
  <2> QED BY <1>2, <2>1, <2>2 DEF Top
<1>3. CASE Accepted
  <2>1. WithinCap(Signed.max, Signed.tip)
    BY <1>3 DEF Accepted, PaysInv, Signed
  <2> QED BY <1>3, <2>1 DEF Accepted, Place, PaysInv, PaysWithinCap, WithinCap
<1>4. CASE Foreign
  <2>1. PICK p : p.op = 0 /\ Place(p)
    BY <1>4 DEF Foreign
  <2> QED BY <1>4, <2>1 DEF Foreign, Place, PaysInv, PaysWithinCap, WithinCap
<1>5. CASE Mine \/ Evict
  BY <1>5 DEF Mine, Evict, PaysInv, PaysWithinCap, WithinCap
<1>6. CASE \/ BaseFeeMoves \/ Index \/ StopAtTop \/ FeeReadFails \/ Unanswered
           \/ Unsigned \/ Refused \/ TooLow \/ Receipt \/ NoReceipt \/ NotOurs
           \/ RequestStop \/ Die \/ UNCHANGED vars
  <2>1. /\ UNCHANGED <<pool, minable>>
        /\ \/ pc' = "idle"
           \/ pc # "idle" /\ UNCHANGED <<max_fee, max_priority_fee>>
           \/ pc' = pc /\ UNCHANGED <<max_fee, max_priority_fee>>
    BY <1>6 DEF BaseFeeMoves, Index, StopAtTop, FeeReadFails, Unanswered,
       Unsigned, Refused, TooLow, Receipt, NoReceipt, NotOurs, RequestStop, Die, vars, End
  <2> QED BY <2>1 DEF PaysInv, PaysWithinCap, WithinCap
<1> QED BY <1>1, <1>2, <1>3, <1>4, <1>5, <1>6
        DEF Next, Network, Sending, Broadcast, Wait

\* Whatever the base fee and the suggestions do, nothing of this account's own
\* offers more than the cap over some base fee the network has asked.
THEOREM OffersWithinCap == Spec => []PaysWithinCap
<1>1. Init => PaysInv
  BY DEF Init, PaysInv, PaysWithinCap
<1>2. TypeOK /\ PaysInv /\ [Next]_vars => (TypeOK /\ PaysInv)'
  BY TypeStep, PaysNext
<1>3. PaysInv => PaysWithinCap
  BY DEF PaysInv
<1> QED BY <1>1, <1>2, <1>3, TypeInit, PTL DEF Spec

LEMMA SilenceNext == ASSUME TypeOK, SilenceInv, [Next]_vars PROVE SilenceInv'
<1>1. unheard \in Nat /\ stuck_after \in Nat \ {0}
  BY PaceAssumption DEF TypeOK
<1>2. CASE NoReceipt
  <2>1. PICK round \in 1 .. stuck_after : unheard' = unheard + round
    BY <1>2, PaceAssumption DEF NoReceipt
  <2> QED BY <1>1, <1>2, <2>1 DEF NoReceipt, SilenceInv, SilenceBounded
<1>3. CASE Top
  BY <1>1, <1>3 DEF Top, Stuck, SilenceInv, SilenceBounded
<1>4. CASE ~NoReceipt /\ ~Top
  <2>1. \/ unheard' = 0
        \/ unheard' = unheard /\ pc' = pc
        \/ unheard' = unheard /\ pc # "top"
    BY <1>4 DEF Next, Network, Sending, Broadcast, Wait, BaseFeeMoves, Mine,
       Index, Evict, Foreign, Begin, StopAtTop, FeeReadFails, Accepted,
       Unanswered, Unsigned, Refused, TooLow, Receipt, NotOurs, RequestStop, Die, vars, End
  <2> QED BY <1>1, <2>1 DEF SilenceInv, SilenceBounded
<1> QED BY <1>2, <1>3, <1>4

\* A send that never settles is reported again and again: never does twice
\* stuck_after pass without a report.
THEOREM SilenceIsBounded == Spec => []SilenceBounded
<1>1. Init => SilenceInv
  BY PaceAssumption DEF Init, SilenceInv, SilenceBounded
<1>2. TypeOK /\ SilenceInv /\ [Next]_vars => (TypeOK /\ SilenceInv)'
  BY TypeStep, SilenceNext
<1>3. SilenceInv => SilenceBounded
  BY DEF SilenceInv
<1> QED BY <1>1, <1>2, <1>3, TypeInit, PTL DEF Spec
---------------------------------------------------------------------------
(* Replacements.                                                           *)

LEMMA TipWithinCap ==
  ASSUME TypeOK, NEW suggested \in Suggestions
  PROVE  NextTip(suggested) \in Nat /\ NextTip(suggested) <= fee_cap
<1>1. NextTip(suggested) \in Nat
  BY TipType
<1>2. NextTip(suggested) <= fee_cap
  BY ReplacementWithin DEF WithinCap
<1> QED BY <1>1, <1>2

\* The new maximum has room for the new tip: the ceiling never cuts into it.
LEMMA RoomForTip ==
  ASSUME TypeOK, NEW tip \in Nat, tip <= fee_cap
  PROVE  NextMax(tip) >= Headroom + tip
<1>1. max_fee * fee_bump_percent \in Nat
  BY FeesAssumption DEF TypeOK
<1>2. (max_fee * fee_bump_percent) \div 100 \in Nat
  BY <1>1
<1>3. _bump(max_fee) \in Nat
  BY <1>2 DEF _bump, Greater, TypeOK
<1>4. Headroom \in Nat /\ fee_cap \in Nat
  BY MaxType, FeesAssumption
<1> QED BY <1>3, <1>4 DEF NextMax, Lesser, Greater

\* Only the head of the loop changes an offer, and only by next_fees.
LEMMA OnlyTopReprices ==
  ASSUME [Next]_vars, pc = "top", pc' = "broadcast"
  PROVE  Top
BY DEF Next, Network, Sending, Broadcast, Wait, BaseFeeMoves, Mine, Index,
   Evict, Foreign, Begin, StopAtTop, FeeReadFails, Accepted, Unanswered,
   Unsigned, Refused, TooLow, Receipt, NoReceipt, NotOurs, RequestStop, Die,
   vars, End

LEMMA ReplacementStep ==
  ASSUME TypeOK, OfferInv, [Next]_vars, pc = "top", pc' = "broadcast",
         ~UNCHANGED <<max_fee, max_priority_fee>>, NEW q \in offered
  PROVE  /\ q.tip < max_priority_fee'
         /\ Greater(q.max, max_fee') >= Headroom + max_priority_fee'
<1>1. PICK suggested \in Suggestions : next_fees(suggested)
  BY OnlyTopReprices DEF Top
<1>2. /\ max_priority_fee' = NextTip(suggested)
      /\ max_fee' = NextMax(NextTip(suggested))
      /\ max_priority_fee < NextTip(suggested)
  BY <1>1 DEF next_fees
<1>3. NextTip(suggested) \in Nat /\ NextTip(suggested) <= fee_cap
  BY TipWithinCap
<1>4. NextMax(NextTip(suggested)) >= Headroom + NextTip(suggested)
  BY <1>3, RoomForTip
<1>5. /\ q.tip \in Nat /\ q.max \in Nat /\ max_priority_fee \in Nat
      /\ q.tip <= max_priority_fee
  BY DEF TypeOK, Payload, OfferInv
<1>6. Headroom \in Nat /\ NextMax(NextTip(suggested)) \in Nat
  BY <1>3, MaxType
<1> QED BY <1>2, <1>3, <1>4, <1>5, <1>6 DEF Greater

LEMMA OfferNext == ASSUME TypeOK, OfferInv, [Next]_vars PROVE OfferInv'
<1>1. max_priority_fee \in Nat /\ \A q \in offered : q.tip \in Nat
  BY DEF TypeOK, Payload
<1>2. CASE Begin
  BY <1>2 DEF Begin, OfferInv
<1>3. CASE Top
  <2>1. max_priority_fee' \in Nat /\ max_priority_fee <= max_priority_fee'
    <3>1. CASE UNCHANGED <<max_fee, max_priority_fee>>
      BY <1>1, <3>1
    <3>2. CASE \E suggested \in Suggestions : next_fees(suggested)
      BY <1>1, <3>2, TipType DEF next_fees
    <3> QED BY <1>3, <3>1, <3>2 DEF Top
  <2>2. offered' = offered /\ pc # "idle"
    BY <1>3 DEF Top
  <2> QED BY <1>1, <2>1, <2>2 DEF OfferInv
<1>4. CASE Accepted \/ Unanswered \/ Refused \/ TooLow
  <2>1. offered' = offered \cup {Signed} /\ pc # "idle"
    BY <1>4 DEF Accepted, Unanswered, Refused, TooLow
  <2>2. pc' = "idle" \/ max_priority_fee' = max_priority_fee
    BY <1>4 DEF Accepted, Unanswered, Refused, TooLow, End
  <2> QED BY <1>1, <2>1, <2>2 DEF OfferInv, Signed
<1>5. CASE ~Begin /\ ~Top /\ ~(Accepted \/ Unanswered \/ Refused \/ TooLow)
  <2>1. /\ offered' = offered
        /\ \/ pc' = "idle"
           \/ max_priority_fee' = max_priority_fee /\ pc # "idle"
           \/ max_priority_fee' = max_priority_fee /\ pc' = pc
    BY <1>5 DEF Next, Network, Sending, Broadcast, Wait, BaseFeeMoves, Mine,
       Index, Evict, Foreign, StopAtTop, FeeReadFails, Unsigned, Receipt,
       NoReceipt, NotOurs, RequestStop, Die, vars, End
  <2> QED BY <2>1 DEF OfferInv
<1> QED BY <1>2, <1>3, <1>4, <1>5

\* Whatever the node suggests and however the base fee moves: after a changed
\* offer the node, whichever payload of this send it held, holds one with a
\* higher tip or one that pays the new tip over twice the base fee.
THEOREM ReplacementsCover == Spec => ReplacementsPay
<1> DEFINE Pays ==
      pc = "top" /\ pc' = "broadcast" /\ ~UNCHANGED <<max_fee, max_priority_fee>> =>
        \A q \in offered :
          /\ q.tip < max_priority_fee'
          /\ Greater(q.max, max_fee') >= Headroom + max_priority_fee'
<1>1. Init => OfferInv
  BY DEF Init, OfferInv
<1>2. TypeOK /\ OfferInv /\ [Next]_vars => (TypeOK /\ OfferInv)'
  BY TypeStep, OfferNext
<1>3. TypeOK /\ OfferInv /\ [Next]_vars => [Pays]_vars
  BY ReplacementStep
<1> QED BY <1>1, <1>2, <1>3, TypeInit, PTL DEF Spec, ReplacementsPay
=============================================================================
