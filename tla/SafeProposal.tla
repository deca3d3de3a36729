----------------------------- MODULE SafeProposal -----------------------------
(***************************************************************************)
(* A proposal of oracle values to a Safe: propose_tx_if_needed of          *)
(* src/src/safe_global/propose_tx.py over either of the two services,      *)
(* transaction_api.py and client_gateway_api.py.                           *)
(*                                                                         *)
(* The Safe (on chain) executes one transaction per nonce.  A proposal is  *)
(* signed for the nonce read at the start and becomes a row of the         *)
(* service; the service shows a row some time after it accepted it.  All   *)
(* of this moves on while a proposal is under way: signers execute rows,   *)
(* other owners propose, answers get lost.                                 *)
(*                                                                         *)
(* A row is what its hash is made of: the nonce and the call.  A call is   *)
(* the value for each deployment it covers.                                *)
(***************************************************************************)
EXTENDS Naturals, FiniteSets

CONSTANTS
  Deployments,
  Values,
  MultiSend,      \* the contract that calls for several deployments go through
  post_attempts,  \* max_attempts of retry_with_backoff
  find_attempts,  \* attempts of find_after_failed_post
  read_attempts,  \* attempts of the read-back
  MaxNonce,       \* bound: transactions the Safe executes
  MaxOthers,      \* bound: proposals of other owners
  OthersCalls,    \* bound: the calls they propose
  None

ASSUME SafeAssumption ==
  /\ {post_attempts, find_attempts, read_attempts} \subseteq Nat \ {0}
  /\ {MaxNonce, MaxOthers} \subseteq Nat
  /\ OthersCalls \subseteq UNION {[D -> Values] : D \in (SUBSET Deployments) \ {{}}}

VARIABLES
  nonce,     \* the Safe's nonce, on chain
  rows,      \* what the service has accepted, whatever became of it since
  indexed,   \* the rows it shows
  executed,  \* the rows the Safe has executed
  others,
  gateway,   \* the configured service is the client gateway
  pc,        \* where propose_tx_if_needed is, see Places
  reason,    \* what a lookup is for: "first", "after_failure" or "read_back"
  signed,    \* safe_tx, signed for a row
  asked,     \* the nonce a lookup lists from
  left,      \* attempts left
  outcome,   \* how the proposal ended
  named,     \* the rows it names as superseded
  \* History variables, which no guard of the program reads.
  created,   \* rows this proposal added
  listed     \* the queue was read for the superseded ones

service == <<nonce, rows, indexed, executed, others, gateway>>
proposal == <<pc, reason, signed, asked, left, outcome, named, created, listed>>

Places == {"idle", "reading", "listing", "posting", "naming"}

Calls == UNION {[D -> Values] : D \in (SUBSET Deployments) \ {{}}}

Rows == [nonce : 0 .. MaxNonce, call : Calls]

ASSUME NoneAssumption ==
  None \notin Rows /\ None \notin {"queued", "success", "posted", "failed"}

\* One call goes straight to its oracle, several go through MultiSend.
resolve_call(c) ==
  IF Cardinality(DOMAIN c) > 1
  THEN [to |-> MultiSend, data |-> c]
  ELSE LET d == CHOOSE d \in DOMAIN c : TRUE IN [to |-> d, data |-> c[d]]

SameCall(r, s) == resolve_call(r.call) = resolve_call(s.call)

NotEnded == [kind |-> None, row |-> None]
Ended(kind, row) == [kind |-> kind, row |-> row]

---------------------------------------------------------------------------
(* The Safe, its service and its owners.                                   *)

Index == \E r \in rows \ indexed :
  /\ indexed' = indexed \cup {r}
  /\ UNCHANGED <<nonce, rows, executed, others, gateway, proposal>>

Execute == \E r \in indexed :
  /\ r.nonce = nonce
  /\ nonce < MaxNonce
  /\ nonce' = nonce + 1
  /\ executed' = executed \cup {r}
  /\ UNCHANGED <<rows, indexed, others, gateway, proposal>>

\* Another owner's proposal, at a nonce that is still open.
OtherProposes == \E n \in nonce .. MaxNonce, c \in OthersCalls :
  /\ others < MaxOthers
  /\ rows' = rows \cup {[nonce |-> n, call |-> c]}
  /\ indexed' = indexed \cup {[nonce |-> n, call |-> c]}
  /\ others' = others + 1
  /\ UNCHANGED <<nonce, executed, gateway, proposal>>

Outside == Index \/ Execute \/ OtherProposes

---------------------------------------------------------------------------
(* propose_tx_if_needed.                                                   *)

Finish(kind, row) ==
  /\ pc' = "idle"
  /\ reason' = "first"
  /\ signed' = None
  /\ asked' = 0
  /\ left' = 0
  /\ outcome' = Ended(kind, row)
  /\ UNCHANGED <<named, created, listed>>

Goto(place) ==
  /\ pc' = place
  /\ UNCHANGED <<reason, signed, outcome, named, created, listed>>

\* The Safe's nonce is read and the proposal signed for it, before anything is
\* asked of the service.
Sign(c) ==
  /\ pc = "idle"
  /\ pc' = "reading"
  /\ reason' = "first"
  /\ signed' = [nonce |-> nonce, call |-> c]
  /\ asked' = 0
  /\ left' = 1
  /\ outcome' = NotEnded
  /\ named' = {}
  /\ created' = {}
  /\ listed' = FALSE
  /\ UNCHANGED service

\* The gateway goes by what it knows of the chain, which may be behind.
KnownToGateway == 0 .. nonce

\* For a lookup, the service is told the nonce, read again.
ReadNonce ==
  /\ pc = "reading"
  /\ asked' \in IF gateway THEN KnownToGateway ELSE {nonce}
  /\ left' = left
  /\ Goto("listing")
  /\ UNCHANGED service

\* A lookup that raises or shows nothing is tried again.  Then the first one
\* ends the proposal or leads to the POST, the one after a failed POST leaves
\* its error, and the read-back leaves what was posted.
\* (A mistake: one attempt too many.)
OneMore ==
  /\ left >= 1
  /\ left' = left - 1
  /\ asked' = 0
  /\ Goto("reading")

LookAgain ==
  /\ left > 1
  /\ left' = left - 1
  /\ asked' = 0
  /\ Goto("reading")

\* A mistake: no answer about a failed POST is taken for a queued proposal.
AssumeQueued ==
  \/ LookAgain
  \/ /\ left = 1
     /\ Finish("posted", signed)

GiveUp ==
  \/ LookAgain
  \/ /\ left = 1
     /\ IF reason = "read_back" THEN Finish("posted", signed)
                                ELSE Finish("failed", None)

\* Which of the two services answers is found out before every request.
ServiceUnknown ==
  /\ pc = "reading"
  /\ GiveUp
  /\ UNCHANGED service

ListingFails ==
  /\ pc = "listing"
  /\ GiveUp
  /\ UNCHANGED service

\* What the service lists, and what of it has the call.  It may not know yet of
\* an execution.
Listing == {r \in indexed : r.nonce >= asked}

Matches == {r \in Listing : SameCall(r, signed)}

\* The row is there, but its owners and confirmations cannot be read or do not
\* add up.
DescriptionFails ==
  /\ pc = "listing"
  /\ Matches # {}
  /\ GiveUp
  /\ UNCHANGED service

NotQueued ==
  /\ pc = "listing"
  /\ Matches \subseteq executed
  /\ \/ /\ reason = "first"
        /\ left' = post_attempts
        /\ asked' = 0
        /\ Goto("posting")
     \/ reason # "first" /\ GiveUp
  /\ UNCHANGED service

\* The first lookup takes any row with the call; the later ones know which row
\* it has to be.
Found ==
  /\ pc = "listing"
  /\ \E r \in Matches :
       \/ /\ reason = "first"
          /\ Finish("queued", r)
       \/ /\ reason # "first" /\ r = signed
          /\ left' = 0
          /\ asked' = 0
          /\ Goto("naming")
       \/ /\ reason # "first" /\ r # signed
          /\ Finish("posted", IF reason = "read_back" THEN signed ELSE r)
  /\ UNCHANGED service

LookUp(why, attempts) ==
  /\ pc' = "reading"
  /\ reason' = why
  /\ left' = attempts
  /\ UNCHANGED <<signed, asked, outcome, named, listed>>

\* A POST that is not answered may have been accepted, and is repeated with the
\* same signature.  The gateway's own answer may be rejected, with no repetition.
SameAgain ==
  /\ left > 1
  /\ left' = left - 1
  /\ UNCHANGED <<pc, reason, signed, asked, outcome, named, listed>>

\* A mistake: every attempt signs afresh.
SignAfresh ==
  /\ left > 1
  /\ left' = left - 1
  /\ signed' = [signed EXCEPT !.nonce = nonce]
  /\ UNCHANGED <<pc, reason, asked, outcome, named, listed>>

Repost == SameAgain

Post ==
  /\ pc = "posting"
  /\ \E accepted \in BOOLEAN, answer \in {"accepted", "rejected", "none"} :
       /\ IF accepted
          THEN rows' = rows \cup {signed} /\ created' = created \cup ({signed} \ rows)
          ELSE UNCHANGED <<rows, created>>
       /\ \/ /\ answer = "accepted" /\ accepted
             /\ LookUp("read_back", read_attempts)
          \/ /\ answer = "rejected" /\ accepted /\ gateway
             /\ LookUp("after_failure", find_attempts)
          \/ answer = "none" /\ Repost
          \/ /\ answer = "none" /\ left = 1
             /\ LookUp("after_failure", find_attempts)
  /\ UNCHANGED <<nonce, indexed, executed, others, gateway>>

\* What competes with the proposal: rows shown at the nonce it was signed for.
\* (A mistake: those with the same target only.)
SameTargetOnly ==
  {r \in indexed \ executed : /\ r.nonce = signed.nonce
                              /\ ~SameCall(r, signed)
                              /\ resolve_call(r.call).to = resolve_call(signed.call).to}

superseded ==
  {r \in indexed \ executed : r.nonce = signed.nonce /\ ~SameCall(r, signed)}

\* Known to the transaction service only, and never fatal.
Name ==
  /\ pc = "naming"
  /\ \E answered \in BOOLEAN :
       /\ listed' = (answered /\ ~gateway)
       /\ named' = IF answered /\ ~gateway THEN superseded ELSE {}
  /\ pc' = "idle"
  /\ reason' = "first"
  /\ signed' = None
  /\ outcome' = Ended("success", signed)
  /\ UNCHANGED <<service, asked, left, created>>

Propose == ReadNonce \/ ServiceUnknown \/ ListingFails \/ DescriptionFails
             \/ NotQueued \/ Found \/ Post \/ Name

SafeInit ==
  /\ nonce = 0
  /\ rows = {} /\ indexed = {} /\ executed = {}
  /\ others = 0
  /\ gateway \in BOOLEAN
  /\ pc = "idle" /\ reason = "first"
  /\ signed = None /\ asked = 0 /\ left = 0
  /\ outcome = NotEnded
  /\ named = {} /\ created = {} /\ listed = FALSE

SafeTypeOK ==
  /\ nonce \in 0 .. MaxNonce
  /\ indexed \subseteq rows /\ rows \subseteq Rows
  /\ executed \subseteq indexed
  /\ others \in 0 .. MaxOthers
  /\ gateway \in BOOLEAN /\ listed \in BOOLEAN
  /\ pc \in Places
  /\ reason \in {"first", "after_failure", "read_back"}
  /\ signed \in Rows \cup {None} /\ (pc = "idle" <=> signed = None)
  /\ asked \in 0 .. MaxNonce
  /\ left \in Nat /\ (pc \in {"reading", "listing", "posting"} => left >= 1)
  /\ outcome \in [kind : {None, "queued", "success", "posted", "failed"},
                  row : Rows \cup {None}]
  /\ named \subseteq rows /\ created \subseteq rows

(***************************************************************************)
(* What a proposal reports as queued or signable, with a row to sign, is   *)
(* a row of the service: an error on the way is never taken for success.   *)
(***************************************************************************)
ReportedIsQueued ==
  outcome.kind \in {"queued", "success", "posted"} => outcome.row \in rows

(***************************************************************************)
(* However often a POST is repeated, whichever answers are lost and        *)
(* whatever the Safe executes in between: one proposal adds one row, so it *)
(* never competes with itself.                                             *)
(***************************************************************************)
OneRowPerProposal ==
  \A r, s \in created : r = s
=============================================================================
