--------------------------- MODULE OracleRunsProofs ---------------------------
(***************************************************************************)
(* Theorems about OracleRuns, for any deployments, values, attempts and    *)
(* bounds: what a proposal adds to the Safe's queue and says of it, who is *)
(* told of an update, and when the request for a resync is withdrawn.      *)
(***************************************************************************)
EXTENDS OracleRuns, TLAPS, FiniteSetTheorems, WellFoundedInduction

---------------------------------------------------------------------------
\* The next deployment of a loop is one of those still to come.
LEMMA FirstIsNext ==
  ASSUME NEW s \in SUBSET Deployments, s # {}
  PROVE  First(s) \in s
<1> DEFINE R == {p \in Nat \X Nat : p[1] < p[2]}
<1>1. OpToRel(<, Nat) = R
  BY DEF OpToRel
<1>2. IsWellFoundedOn(R, Nat)
  BY <1>1, NatLessThanWellFounded
<1>3. s \subseteq Nat
  BY OracleRunsAssumption, FS_CardinalityType
<1>4. PICK d \in s : \A e \in s : ~(<<e, d>> \in R)
  <2> HIDE DEF R
  <2> QED BY <1>2, <1>3, WFMin
<1>5. \A e \in s : d <= e
  <2>1. SUFFICES ASSUME NEW e \in s, ~(d <= e) PROVE FALSE
    OBVIOUS
  <2>2. e \in Nat /\ d \in Nat /\ e < d
    BY <1>3, <2>1
  <2>3. <<e, d>> \in R
    BY <2>2
  <2> QED
    BY <1>4, <2>3
<1> QED
  BY <1>5 DEF First

---------------------------------------------------------------------------
(* Type correctness, first of the Safe, its service and a proposal.        *)

LEMMA AttemptTypes ==
  /\ {post_attempts, find_attempts, read_attempts} \subseteq Nat \ {0}
  /\ MaxNonce \in Nat /\ OthersCalls \subseteq Calls
  /\ None \notin Rows
BY SafeAssumption, NoneAssumption DEF Calls

LEMMA SafeTypeRests ==
  ASSUME SafeTypeOK, UNCHANGED <<service, proposal>>
  PROVE  SafeTypeOK'
BY DEF SafeTypeOK, service, proposal

LEMMA OutsideType ==
  ASSUME SafeTypeOK, Outside
  PROVE  SafeTypeOK'
<1>1. CASE Index
  BY <1>1 DEF Index, SafeTypeOK, proposal
<1>2. CASE Execute
  BY <1>2, AttemptTypes DEF Execute, SafeTypeOK, proposal
<1>3. CASE OtherProposes
  <2>1. PICK n \in nonce .. MaxNonce, c \in OthersCalls :
          /\ others < MaxOthers
          /\ rows' = rows \cup {[nonce |-> n, call |-> c]}
          /\ indexed' = indexed \cup {[nonce |-> n, call |-> c]}
          /\ others' = others + 1
          /\ UNCHANGED <<nonce, executed, gateway, proposal>>
    BY <1>3 DEF OtherProposes
  <2>2. [nonce |-> n, call |-> c] \in Rows
    BY AttemptTypes DEF SafeTypeOK, Rows
  <2>3. others' \in 0 .. MaxOthers
    BY <2>1, SafeAssumption DEF SafeTypeOK
  <2> QED
    BY <2>1, <2>2, <2>3 DEF SafeTypeOK, proposal
<1> QED
  BY <1>1, <1>2, <1>3 DEF Outside

LEMMA SignType ==
  ASSUME SafeTypeOK, NEW c \in Calls, Sign(c)
  PROVE  SafeTypeOK'
<1>1. [nonce |-> nonce, call |-> c] \in Rows
  BY DEF SafeTypeOK, Rows
<1>2. outcome' \in [kind : {None, "queued", "success", "posted", "failed"},
                    row : Rows \cup {None}]
  BY DEF Sign, NotEnded
<1>3. /\ asked' \in 0 .. MaxNonce /\ left' \in Nat /\ left' >= 1
      /\ pc' = "reading" /\ reason' = "first" /\ signed' \in Rows
      /\ named' = {} /\ created' = {} /\ listed' = FALSE
  BY <1>1, AttemptTypes DEF Sign
<1> QED
  BY <1>2, <1>3, AttemptTypes DEF SafeTypeOK, Sign, service, Places

\* The ways a lookup ends.
LEMMA FinishType ==
  ASSUME SafeTypeOK, NEW kind \in {"queued", "success", "posted", "failed"},
         NEW r \in Rows \cup {None}, Finish(kind, r), UNCHANGED service
  PROVE  SafeTypeOK'
<1>1. outcome' \in [kind : {None, "queued", "success", "posted", "failed"},
                    row : Rows \cup {None}]
  BY DEF Finish, Ended
<1> QED
  BY <1>1, AttemptTypes DEF Finish, SafeTypeOK, service, Places

LEMMA GiveUpType ==
  ASSUME SafeTypeOK, pc \in {"reading", "listing"}, GiveUp, UNCHANGED service
  PROVE  SafeTypeOK'
<1>1. CASE LookAgain
  BY <1>1, AttemptTypes DEF LookAgain, Goto, SafeTypeOK, service, Places
<1>2. CASE ~LookAgain
  <2>1. signed \in Rows
    BY DEF SafeTypeOK
  <2>2. Finish("posted", signed) \/ Finish("failed", None)
    BY <1>2 DEF GiveUp
  <2> QED
    BY <2>1, <2>2, FinishType
<1> QED
  BY <1>1, <1>2

LEMMA ProposeType ==
  ASSUME SafeTypeOK, Propose
  PROVE  SafeTypeOK'
<1>1. CASE ReadNonce
  <2>0. nonce \in 0 .. MaxNonce /\ MaxNonce \in Nat
    BY AttemptTypes DEF SafeTypeOK
  <2>1. asked' \in 0 .. MaxNonce
    BY <1>1, <2>0 DEF ReadNonce, KnownToGateway
  <2> QED
    BY <1>1, <2>1 DEF ReadNonce, Goto, SafeTypeOK, service, Places
<1>2. CASE ServiceUnknown \/ ListingFails \/ DescriptionFails
  BY <1>2, GiveUpType DEF ServiceUnknown, ListingFails, DescriptionFails
<1>3. CASE NotQueued
  <2>1. CASE left' = post_attempts /\ asked' = 0 /\ Goto("posting")
    BY <1>3, <2>1, AttemptTypes
       DEF NotQueued, Goto, SafeTypeOK, service, Places
  <2> QED
    BY <1>3, <2>1, GiveUpType DEF NotQueued
<1>4. CASE Found
  <2>1. PICK r \in Matches :
          \/ Finish("queued", r)
          \/ left' = 0 /\ asked' = 0 /\ Goto("naming")
          \/ Finish("posted", IF reason = "read_back" THEN signed ELSE r)
    BY <1>4 DEF Found
  <2>2. r \in Rows /\ signed \in Rows
    BY <1>4 DEF Found, Matches, Listing, SafeTypeOK
  <2>3. CASE Finish("queued", r)
    BY <1>4, <2>2, <2>3, FinishType DEF Found
  <2>4. CASE left' = 0 /\ asked' = 0 /\ Goto("naming")
    BY <1>4, <2>2, <2>4, AttemptTypes
       DEF Found, Goto, SafeTypeOK, service, Places
  <2>5. CASE Finish("posted", IF reason = "read_back" THEN signed ELSE r)
    BY <1>4, <2>2, <2>5, FinishType DEF Found
  <2> QED
    BY <2>1, <2>3, <2>4, <2>5
<1>5. CASE Post
  <2>1. signed \in Rows /\ pc = "posting" /\ left \in Nat /\ left >= 1
    BY <1>5 DEF Post, SafeTypeOK
  <2>2. /\ rows \subseteq rows' /\ rows' \subseteq Rows
        /\ created' \subseteq rows'
    BY <1>5, <2>1 DEF Post, SafeTypeOK
  <2>3. UNCHANGED <<nonce, indexed, executed, others, gateway, signed, asked,
                    outcome, named, listed>>
    BY <1>5 DEF Post, LookUp, Repost, SameAgain
  <2>4. /\ pc' \in Places /\ pc' # "idle" /\ left' \in Nat
        /\ pc' \in {"reading", "listing", "posting"} => left' >= 1
        /\ reason' \in {"first", "after_failure", "read_back"}
    BY <1>5, <2>1, AttemptTypes
       DEF Post, LookUp, Repost, SameAgain, SafeTypeOK, Places
  <2> QED
    BY <2>1, <2>2, <2>3, <2>4, AttemptTypes DEF SafeTypeOK
<1>6. CASE Name
  <2>1. named' \subseteq rows /\ listed' \in BOOLEAN
    BY <1>6 DEF Name, superseded, SafeTypeOK
  <2>2. outcome' \in [kind : {None, "queued", "success", "posted", "failed"},
                      row : Rows \cup {None}]
    BY <1>6 DEF Name, Ended, SafeTypeOK
  <2> QED
    BY <1>6, <2>1, <2>2 DEF Name, SafeTypeOK, service, Places
<1> QED
  BY <1>1, <1>2, <1>3, <1>4, <1>5, <1>6 DEF Propose

---------------------------------------------------------------------------
(* Then of the commands.                                                   *)

\* What every command's steps keep of the rest.
RunTypeOK ==
  /\ cmd \in Commands \cup {"idle"} /\ caller \in Callers /\ announce \in BOOLEAN
  /\ todo \subseteq Deployments
  /\ results \in [Deployments -> UpdateOutcomes \cup ResyncOutcomes
                                   \cup RebalanceOutcomes \cup {None}]
  /\ pc # "idle" => cmd = "propose"

EndTypeOK ==
  /\ telegram \in BOOLEAN
  /\ ended \in [raised : BOOLEAN, notified : BOOLEAN, announced : BOOLEAN,
                written : 0 .. Cardinality(Deployments),
                lines : SUBSET Deployments, held : BOOLEAN, done : BOOLEAN]
  /\ exit \in {0, 1}

SchedulerTypeOK ==
  /\ refusal_announced \in BOOLEAN /\ resync_requested \in BOOLEAN
  /\ skipping \subseteq {"oracle_update", "rebalance"}

HistoryTypeOK ==
  /\ stopped \subseteq Deployments /\ skips \in [Deployments -> 0 .. 2]
  /\ told \subseteq indexed
  /\ commands \in 0 .. MaxCommands

LEMMA TypeParts ==
  TypeOK <=> SafeTypeOK /\ RunTypeOK /\ EndTypeOK /\ SchedulerTypeOK
               /\ HistoryTypeOK
BY DEF TypeOK, RunTypeOK, EndTypeOK, SchedulerTypeOK, HistoryTypeOK

LEMMA TypeTogether ==
  SafeTypeOK' /\ RunTypeOK' /\ EndTypeOK' /\ SchedulerTypeOK' /\ HistoryTypeOK'
    => TypeOK'
BY DEF TypeOK, RunTypeOK, EndTypeOK, SchedulerTypeOK, HistoryTypeOK

\* A step that leaves the history, or what ended, or the scheduler alone.
LEMMA PartsRest ==
  ASSUME TypeOK
  PROVE  /\ UNCHANGED <<service, proposal>> => SafeTypeOK'
         /\ UNCHANGED <<telegram, ended, exit>> => EndTypeOK'
         /\ UNCHANGED scheduler => SchedulerTypeOK'
         /\ UNCHANGED <<history, commands, indexed>> => HistoryTypeOK'
         /\ UNCHANGED run /\ pc' = pc => RunTypeOK'
BY SafeTypeRests, TypeParts
   DEF EndTypeOK, SchedulerTypeOK, HistoryTypeOK, RunTypeOK, scheduler, history,
       run

LEMMA NothingYet ==
  NotUpdated \in [raised : BOOLEAN, notified : BOOLEAN, announced : BOOLEAN,
                  written : 0 .. Cardinality(Deployments),
                  lines : SUBSET Deployments, held : BOOLEAN, done : BOOLEAN]
<1>1. 0 \in 0 .. Cardinality(Deployments)
  BY OracleRunsAssumption, FS_CardinalityType
<1> QED
  BY <1>1 DEF NotUpdated

LEMMA StartType ==
  ASSUME TypeOK, NEW command \in Commands, NEW who \in Callers,
         NEW scope \in SUBSET Deployments,
         Start(command, who, scope), announce' \in BOOLEAN, telegram' = telegram,
         stopped' = stopped, skips' = skips, told' = told, indexed' = indexed,
         pc' = "idle" \/ command = "propose"
  PROVE  RunTypeOK' /\ EndTypeOK' /\ HistoryTypeOK'
<1>1. commands' \in 0 .. MaxCommands
  BY OracleRunsAssumption DEF Start, TypeOK
<1>2. RunTypeOK'
  BY DEF Start, NoResults, RunTypeOK
<1>3. EndTypeOK'
  BY NothingYet DEF Start, EndTypeOK, TypeOK
<1>4. HistoryTypeOK'
  BY <1>1 DEF HistoryTypeOK, TypeOK
<1> QED
  BY <1>2, <1>3, <1>4

\* One deployment's turn.
LEMMA TurnType ==
  ASSUME TypeOK, NEW command,
         NEW result \in UpdateOutcomes \cup ResyncOutcomes \cup RebalanceOutcomes,
         Turn(command, result), pc' = pc
  PROVE  RunTypeOK' /\ First(todo) \in Deployments
<1>1. First(todo) \in Deployments
  BY FirstIsNext DEF Turn, TypeOK
<1>2. RunTypeOK'
  BY DEF Turn, RunTypeOK, TypeOK
<1> QED
  BY <1>1, <1>2

LEMMA OverType ==
  ASSUME TypeOK, Over, pc' = pc, pc = "idle"
  PROVE  RunTypeOK'
BY DEF Over, RunTypeOK, TypeOK

LEMMA ReportType ==
  ASSUME TypeOK, NEW ok \in BOOLEAN
  PROVE  Report(ok) \in
           [raised : BOOLEAN, notified : BOOLEAN, announced : BOOLEAN,
            written : 0 .. Cardinality(Deployments),
            lines : SUBSET Deployments, held : BOOLEAN, done : BOOLEAN]
<1>1. written \in SUBSET Deployments /\ attention \in SUBSET Deployments
  BY DEF written, attention, With
<1>2. Cardinality(written) \in 0 .. Cardinality(Deployments)
  BY <1>1, OracleRunsAssumption, FS_Subset, FS_CardinalityType
<1>3. compose_oracle_update_message \in SUBSET Deployments
  BY <1>1 DEF compose_oracle_update_message
<1>4. ok \in BOOLEAN /\ (~announce) \in BOOLEAN
  OBVIOUS
<1> HIDE DEF written, attention, compose_oracle_update_message
<1> QED
  BY <1>2, <1>3, <1>4 DEF Report

LEMMA UpdateType ==
  ASSUME TypeOK, StartUpdate \/ update_oracles \/ FinishUpdate
  PROVE  TypeOK'
<1>1. CASE StartUpdate
  <2>1. PICK who \in Callers : \E scope \in selected_sources(who) :
          /\ Start("update", who, scope)
          /\ announce' \in BOOLEAN
          /\ UNCHANGED <<service, proposal, telegram, scheduler, history>>
    BY <1>1 DEF StartUpdate
  <2>2. PICK scope \in SUBSET Deployments :
          /\ Start("update", who, scope)
          /\ announce' \in BOOLEAN
          /\ UNCHANGED <<service, proposal, telegram, scheduler, history>>
    BY <2>1 DEF selected_sources
  <2>3. pc' = "idle"
    BY <2>2 DEF Start, TypeOK, proposal
  <2>4. RunTypeOK' /\ EndTypeOK' /\ HistoryTypeOK'
    BY <2>2, <2>3, StartType DEF history, service, Commands
  <2> QED
    BY <2>2, <2>4, PartsRest, TypeTogether
<1>2. CASE update_oracles
  <2>1. PICK result \in UpdateOutcomes :
          /\ Turn("update", result)
          /\ Seen(result \in {"written", "written_alert"})
          /\ skips' = IF caller = "scheduler"
                      THEN [skips EXCEPT ![First(todo)] =
                              IF result # "skipped" THEN 0
                              ELSE IF @ < 2 THEN @ + 1 ELSE 2]
                      ELSE skips
          /\ UNCHANGED <<service, proposal, telegram, ended, exit, scheduler,
                         told, commands>>
    BY <1>2 DEF update_oracles
  <2>2. RunTypeOK' /\ First(todo) \in Deployments
    BY <2>1, TurnType DEF proposal
  <2>3. skips' \in [Deployments -> 0 .. 2]
    <3>1. skips \in [Deployments -> 0 .. 2] /\ skips[First(todo)] \in 0 .. 2
      BY <2>2 DEF TypeOK
    <3> DEFINE n == IF result # "skipped" THEN 0
                    ELSE IF skips[First(todo)] < 2 THEN skips[First(todo)] + 1
                                                   ELSE 2
    <3>2. n \in 0 .. 2
      BY <3>1
    <3>3. skips' = [skips EXCEPT ![First(todo)] = n] \/ skips' = skips
      BY <2>1
    <3> HIDE DEF n
    <3> QED
      BY <3>1, <3>2, <3>3
  <2>4. HistoryTypeOK'
    BY <2>1, <2>3 DEF HistoryTypeOK, TypeOK, Seen, service
  <2> QED
    BY <2>1, <2>2, <2>4, PartsRest, TypeTogether
<1>3. CASE FinishUpdate
  <2>1. PICK ok \in BOOLEAN :
          /\ ended' = Report(ok)
          /\ \/ task_oracle_update(Report(ok))
             \/ UNCHANGED scheduler
    BY <1>3 DEF FinishUpdate
  <2>2. /\ cmd = "update" /\ Over /\ exit' \in {0, 1}
        /\ UNCHANGED <<service, proposal, telegram, history, commands>>
    BY <1>3 DEF FinishUpdate
  <2>3. EndTypeOK'
    BY <2>1, <2>2, ReportType DEF EndTypeOK, TypeOK
  <2>4. SchedulerTypeOK'
    <3>1. CASE task_oracle_update(Report(ok))
      <4> DEFINE s == Report(ok)
      <4>1. s.announced \in BOOLEAN
        BY ReportType
      <4> HIDE DEF s
      <4>2. task_oracle_update(s)
        BY <3>1 DEF s
      <4> QED
        BY <4>1, <4>2 DEF task_oracle_update, SchedulerTypeOK, TypeOK
    <3> QED
      BY <2>1, <3>1, PartsRest
  <2>5. RunTypeOK'
    BY <2>2, OverType DEF proposal, TypeOK
  <2>6. SafeTypeOK' /\ HistoryTypeOK'
    BY <2>2, PartsRest DEF service
  <2> QED
    BY <2>3, <2>4, <2>5, <2>6, TypeTogether
<1> QED
  BY <1>1, <1>2, <1>3

LEMMA ResyncType ==
  ASSUME TypeOK, StartResync \/ ResyncOne \/ run_resync
  PROVE  TypeOK'
<1>1. CASE StartResync
  <2>1. pc' = "idle"
    BY <1>1 DEF StartResync, Start, TypeOK, proposal
  <2>2. RunTypeOK' /\ EndTypeOK' /\ HistoryTypeOK'
    BY <1>1, <2>1, StartType DEF StartResync, history, service, Commands, Callers
  <2> QED
    BY <1>1, <2>2, PartsRest, TypeTogether DEF StartResync
<1>2. CASE ResyncOne
  <2>1. PICK result \in ResyncOutcomes :
          /\ Turn("resync", result)
          /\ Seen(result \in {"write", "noop", "refuse"})
          /\ UNCHANGED <<service, proposal, telegram, ended, exit, scheduler,
                         skips, told, commands>>
    BY <1>2 DEF ResyncOne
  <2>2. RunTypeOK'
    BY <2>1, TurnType DEF proposal
  <2>3. HistoryTypeOK'
    BY <2>1 DEF HistoryTypeOK, TypeOK, Seen, service
  <2> QED
    BY <2>1, <2>2, <2>3, PartsRest, TypeTogether
<1>3. CASE run_resync
  <2>1. RunTypeOK'
    BY <1>3, OverType DEF run_resync, proposal, TypeOK
  <2>2. SchedulerTypeOK'
    BY <1>3 DEF run_resync, pending, SchedulerTypeOK, TypeOK
  <2> QED
    BY <1>3, <2>1, <2>2, PartsRest, TypeTogether DEF run_resync, service
<1> QED
  BY <1>1, <1>2, <1>3

LEMMA RebalanceType ==
  ASSUME TypeOK,
         StartRebalance \/ RebalanceOne \/ RebalanceRaises \/ task_rebalance
  PROVE  TypeOK'
<1>1. CASE StartRebalance
  <2>1. pc' = "idle"
    BY <1>1 DEF StartRebalance, Start, TypeOK, proposal
  <2>2. RunTypeOK' /\ EndTypeOK' /\ HistoryTypeOK'
    BY <1>1, <2>1, StartType DEF StartRebalance, history, service, Commands, Callers
  <2> QED
    BY <1>1, <2>2, PartsRest, TypeTogether DEF StartRebalance
<1>2. CASE RebalanceOne
  <2>1. PICK result \in RebalanceOutcomes :
          /\ Turn("rebalance", result)
          /\ stopped' = IF result = "ORACLE_VALUE_INCORRECT"
                        THEN stopped \cup {First(todo)}
                        ELSE stopped \ {First(todo)}
          /\ UNCHANGED <<service, proposal, telegram, ended, exit, scheduler,
                         skips, told, commands>>
    BY <1>2 DEF RebalanceOne
  <2>2. RunTypeOK' /\ First(todo) \in Deployments
    BY <2>1, TurnType DEF proposal
  <2>3. HistoryTypeOK'
    BY <2>1, <2>2 DEF HistoryTypeOK, TypeOK, service
  <2> QED
    BY <2>1, <2>2, <2>3, PartsRest, TypeTogether
<1>3. CASE RebalanceRaises
  <2>1. RunTypeOK'
    BY <1>3, OverType DEF RebalanceRaises, proposal, TypeOK
  <2> QED
    BY <1>3, <2>1, PartsRest, TypeTogether DEF RebalanceRaises, service
<1>4. CASE task_rebalance
  <2>1. RunTypeOK'
    BY <1>4, OverType DEF task_rebalance, proposal, TypeOK
  <2>2. SchedulerTypeOK'
    BY <1>4 DEF task_rebalance, SchedulerTypeOK, TypeOK
  <2> QED
    BY <1>4, <2>1, <2>2, PartsRest, TypeTogether DEF task_rebalance, service
<1> QED
  BY <1>1, <1>2, <1>3, <1>4

\* What is proposed is a call: a value for each of some deployments.
LEMMA PlanType ==
  ASSUME NEW scope \in SUBSET Deployments, NEW value_override \in Values \cup {None},
         NEW view \in validate_oracles(scope),
         DOMAIN plan_oracle_proposals(view, value_override) # {}
  PROVE  plan_oracle_proposals(view, value_override) \in Calls
<1> DEFINE covered == {d \in DOMAIN view :
                         /\ view[d] # "unread"
                         /\ view[d] = "in_flight" => value_override # None}
           call == [d \in covered |-> IF value_override # None
                                      THEN value_override ELSE view[d]]
<1>1. plan_oracle_proposals(view, value_override) = call
  BY DEF plan_oracle_proposals
<1>2. DOMAIN view = scope /\ \A d \in scope : view[d] \in Values \cup {"unread", "in_flight"}
  BY DEF validate_oracles
<1>3. \A d \in covered : call[d] \in Values
  BY <1>2
<1>4. call \in [covered -> Values]
  BY <1>3
<1>5. covered \in (SUBSET Deployments) \ {{}}
  <2>1. covered # {}
    BY <1>1
  <2> QED
    BY <1>2, <2>1
<1> HIDE DEF covered
<1>6. call \in Calls
  BY <1>4, <1>5 DEF Calls
<1> QED
  BY <1>1, <1>6

\* A row with a link is one the service shows.
Linked == outcome.kind \in {"queued", "success"} => outcome.row \in indexed

LEMMA ProposeCommandType ==
  ASSUME TypeOK, Linked, StartPropose \/ ProposeStep \/ FinishPropose \/ World
  PROVE  TypeOK'
<1>1. CASE StartPropose
  <2>1. PICK scope \in selected_sources("cli"), value_override \in Values \cup {None} :
          \E view \in validate_oracles(scope) :
            LET call == plan_oracle_proposals(view, value_override)
            IN  /\ DOMAIN call # {}
                /\ Start("propose", "cli", {})
                /\ Sign(call)
                /\ announce' = TRUE
                /\ UNCHANGED <<telegram, scheduler, history>>
    BY <1>1 DEF StartPropose
  <2>2. scope \in SUBSET Deployments
    BY DEF selected_sources
  <2>3. PICK call \in Calls : Sign(call)
    BY <2>1, <2>2, PlanType
  <2>4. SafeTypeOK'
    BY <2>3, SignType DEF TypeOK
  <2>5. RunTypeOK' /\ EndTypeOK' /\ HistoryTypeOK'
    BY <2>1, <2>3, StartType DEF Sign, service, history, Commands, Callers
  <2> QED
    BY <2>1, <2>4, <2>5, PartsRest, TypeTogether
<1>2. CASE ProposeStep
  <2>1. SafeTypeOK'
    BY <1>2, ProposeType DEF ProposeStep, TypeOK
  <2>2. indexed' = indexed
    BY <1>2 DEF ProposeStep, Propose, ReadNonce, ServiceUnknown, ListingFails,
                DescriptionFails, NotQueued, Found, Post, Name, service
  <2>3. cmd = "propose"
    BY <1>2 DEF ProposeStep, Propose, ReadNonce, ServiceUnknown, ListingFails,
                DescriptionFails, NotQueued, Found, Post, Name, TypeOK
  <2>4. RunTypeOK'
    BY <1>2, <2>3 DEF ProposeStep, RunTypeOK, TypeOK, run
  <2> QED
    BY <1>2, <2>1, <2>2, <2>4, PartsRest, TypeTogether DEF ProposeStep
<1>3. CASE FinishPropose
  <2>1. /\ pc = "idle" /\ Over /\ exit' \in {0, 1}
        /\ told' \subseteq told \cup compose_safe_proposal_message
        /\ UNCHANGED <<service, proposal, telegram, ended, scheduler, stopped,
                       skips, commands>>
    BY <1>3 DEF FinishPropose
  <2>2. RunTypeOK'
    BY <2>1, OverType DEF proposal
  <2>3. EndTypeOK'
    BY <2>1 DEF EndTypeOK, TypeOK
  <2>4. HistoryTypeOK'
    BY <2>1 DEF HistoryTypeOK, TypeOK, Linked, compose_safe_proposal_message,
                service
  <2> QED
    BY <2>1, <2>2, <2>3, <2>4, PartsRest, TypeTogether
<1>4. CASE World
  <2>1. SafeTypeOK' /\ pc' = pc
    BY <1>4, OutsideType
       DEF World, Outside, Index, Execute, OtherProposes, proposal, TypeOK
  <2>2. indexed \subseteq indexed'
    BY <1>4 DEF World, Outside, Index, Execute, OtherProposes
  <2>3. HistoryTypeOK'
    BY <1>4, <2>2 DEF World, HistoryTypeOK, TypeOK, history
  <2> QED
    BY <1>4, <2>1, <2>3, PartsRest, TypeTogether DEF World
<1> QED
  BY <1>1, <1>2, <1>3, <1>4

---------------------------------------------------------------------------
(* A proposal.  While it is under way it has added at most the row it is   *)
(* signed for; a lookup that reads back knows the POST was accepted, and   *)
(* what competes is named among rows that are shown.                       *)

ProposalInv ==
  /\ pc # "idle" => created \subseteq {signed} /\ outcome = NotEnded
  /\ pc # "idle" /\ reason = "read_back" => signed \in rows
  /\ pc = "naming" => signed \in indexed
  /\ OneRowPerProposal
  /\ ReportedIsQueued
  /\ Linked
  /\ NewRowNamesEarlier

\* The state a proposal is in while it is under way: nothing is reported yet.
LEMMA UnderWay ==
  ASSUME pc' # "idle", outcome' = NotEnded, created' \subseteq {signed'},
         reason' = "read_back" => signed' \in rows',
         pc' = "naming" => signed' \in indexed'
  PROVE  ProposalInv'
<1>1. /\ outcome'.kind = None
      /\ None \notin {"queued", "success", "posted", "failed"}
  BY NoneAssumption DEF NotEnded
<1> QED
  BY <1>1 DEF ProposalInv, OneRowPerProposal, ReportedIsQueued, Linked,
              NewRowNamesEarlier

\* A lookup that ends the proposal, with a row that is there.
LEMMA FinishKeeps ==
  ASSUME TypeOK, ProposalInv, NEW kind, NEW r, Finish(kind, r),
         UNCHANGED service, pc # "idle", kind # "success",
         kind = "queued" => r \in indexed,
         kind = "posted" => r \in rows
  PROVE  ProposalInv'
<1>1. /\ pc' = "idle" /\ outcome' = [kind |-> kind, row |-> r]
      /\ created' = created /\ listed' = listed /\ named' = named
      /\ rows' = rows /\ indexed' = indexed
  BY DEF Finish, Ended, service
<1>2. OneRowPerProposal'
  BY <1>1 DEF ProposalInv, OneRowPerProposal
<1>3. ReportedIsQueued' /\ Linked'
  BY <1>1 DEF ReportedIsQueued, Linked, TypeOK, SafeTypeOK
<1>4. NewRowNamesEarlier'
  BY <1>1 DEF NewRowNamesEarlier
<1> QED
  BY <1>1, <1>2, <1>3, <1>4 DEF ProposalInv

LEMMA GiveUpKeeps ==
  ASSUME TypeOK, ProposalInv, GiveUp, UNCHANGED service,
         pc \in {"reading", "listing"}
  PROVE  ProposalInv'
<1>1. CASE LookAgain
  <2>1. /\ pc' = "reading" /\ UNCHANGED <<reason, signed, outcome, created, rows>>
    BY <1>1 DEF LookAgain, Goto, service
  <2> QED
    BY <2>1, UnderWay DEF ProposalInv
<1>2. CASE ~LookAgain
  <2>1. \/ Finish("posted", signed) /\ reason = "read_back"
        \/ Finish("failed", None)
    BY <1>2 DEF GiveUp
  <2> QED
    BY <2>1, FinishKeeps DEF ProposalInv
<1> QED
  BY <1>1, <1>2

LEMMA LookupKeeps ==
  ASSUME TypeOK, ProposalInv,
         \/ ReadNonce \/ ServiceUnknown \/ ListingFails \/ DescriptionFails
         \/ NotQueued \/ Found
  PROVE  ProposalInv'
<1>1. CASE ReadNonce
  <2>1. /\ pc' = "listing" /\ pc # "idle"
        /\ UNCHANGED <<reason, signed, outcome, created, rows>>
    BY <1>1 DEF ReadNonce, Goto, service
  <2> QED
    BY <2>1, UnderWay DEF ProposalInv
<1>2. CASE ServiceUnknown \/ ListingFails \/ DescriptionFails
  BY <1>2, GiveUpKeeps DEF ServiceUnknown, ListingFails, DescriptionFails
<1>3. CASE NotQueued
  <2>1. CASE Goto("posting") /\ reason = "first"
    <3>1. /\ pc' = "posting" /\ pc # "idle"
          /\ UNCHANGED <<reason, signed, outcome, created, rows>>
      BY <1>3, <2>1 DEF NotQueued, Goto, service
    <3> QED
      BY <3>1, UnderWay DEF ProposalInv
  <2> QED
    BY <1>3, <2>1, GiveUpKeeps DEF NotQueued
<1>4. CASE Found
  <2>1. PICK r \in Matches :
          \/ Finish("queued", r)
          \/ r = signed /\ Goto("naming")
          \/ Finish("posted", IF reason = "read_back" THEN signed ELSE r)
    BY <1>4 DEF Found
  <2>2. r \in indexed /\ r \in rows /\ pc = "listing" /\ UNCHANGED service
    BY <1>4 DEF Found, Matches, Listing, TypeOK, SafeTypeOK
  <2>3. CASE Finish("queued", r)
    BY <2>2, <2>3, FinishKeeps
  <2>4. CASE r = signed /\ Goto("naming")
    <3>1. /\ pc' = "naming"
          /\ UNCHANGED <<reason, signed, outcome, created, rows, indexed>>
      BY <2>2, <2>4 DEF Goto, service
    <3> QED
      BY <2>2, <2>4, <3>1, UnderWay DEF ProposalInv
  <2>5. CASE Finish("posted", IF reason = "read_back" THEN signed ELSE r)
    <3>1. (IF reason = "read_back" THEN signed ELSE r) \in rows
      BY <2>2 DEF ProposalInv
    <3> QED
      BY <2>2, <2>5, <3>1, FinishKeeps
  <2> QED
    BY <2>1, <2>3, <2>4, <2>5
<1> QED
  BY <1>1, <1>2, <1>3, <1>4

\* However often it is repeated, a POST adds the row that was signed.
LEMMA PostKeeps ==
  ASSUME TypeOK, ProposalInv, Post
  PROVE  ProposalInv'
<1>1. /\ pc = "posting" /\ signed' = signed /\ outcome' = outcome
      /\ created' \subseteq created \cup {signed}
      /\ rows \subseteq rows'
      /\ pc' \in {"posting", "reading"}
  BY DEF Post, LookUp, Repost, SameAgain
<1>2. reason' = "read_back" => signed \in rows'
  <2>1. reason' = "read_back" => reason = "read_back" \/ signed \in rows'
    BY DEF Post, LookUp, Repost, SameAgain
  <2> QED
    BY <1>1, <2>1 DEF ProposalInv
<1> QED
  BY <1>1, <1>2, UnderWay DEF ProposalInv

LEMMA NameKeeps ==
  ASSUME TypeOK, ProposalInv, Name, told' = told
  PROVE  ProposalInv'
<1>1. /\ pc = "naming" /\ pc' = "idle"
      /\ outcome' = [kind |-> "success", row |-> signed]
      /\ UNCHANGED <<rows, indexed, executed, created>>
      /\ listed' => named' = superseded
  BY DEF Name, Ended, service
<1>2. OneRowPerProposal'
  BY <1>1 DEF ProposalInv, OneRowPerProposal
<1>3. signed \in indexed /\ signed \in rows
  BY <1>1 DEF ProposalInv, TypeOK, SafeTypeOK
<1>4. ReportedIsQueued' /\ Linked'
  BY <1>1, <1>3 DEF ReportedIsQueued, Linked
<1>5. NewRowNamesEarlier'
  <2>1. told \subseteq indexed
    BY DEF TypeOK
  <2> QED
    BY <1>1, <2>1 DEF NewRowNamesEarlier, superseded
<1> QED
  BY <1>1, <1>2, <1>4, <1>5 DEF ProposalInv

\* What happens outside only adds rows and executes them.
LEMMA OutsideKeeps ==
  ASSUME TypeOK, ProposalInv, Outside, told' = told
  PROVE  ProposalInv'
<1>1. /\ UNCHANGED <<proposal, told>>
      /\ rows \subseteq rows' /\ indexed \subseteq indexed'
      /\ executed \subseteq executed'
  BY DEF Outside, Index, Execute, OtherProposes
<1>2. NewRowNamesEarlier'
  BY <1>1 DEF ProposalInv, NewRowNamesEarlier, proposal
<1>3. OneRowPerProposal' /\ ReportedIsQueued' /\ Linked'
  BY <1>1 DEF ProposalInv, OneRowPerProposal, ReportedIsQueued, Linked, proposal
<1> QED
  BY <1>1, <1>2, <1>3 DEF ProposalInv, proposal

LEMMA ProposalRests ==
  ASSUME ProposalInv, UNCHANGED <<service, proposal, told>>
  PROVE  ProposalInv'
BY DEF ProposalInv, OneRowPerProposal, ReportedIsQueued, Linked,
       NewRowNamesEarlier, service, proposal

\* The link that is sent last is the one of the proposal itself.
LEMMA ToldKeeps ==
  ASSUME ProposalInv, FinishPropose
  PROVE  ProposalInv'
<1>1. /\ UNCHANGED <<service, proposal>>
      /\ told' \subseteq told \cup {outcome.row}
  BY DEF FinishPropose, compose_safe_proposal_message
<1>2. NewRowNamesEarlier'
  <2>1. SameCall(outcome.row, outcome.row)
    BY DEF SameCall
  <2> QED
    BY <1>1, <2>1 DEF ProposalInv, NewRowNamesEarlier, service, proposal
<1> QED
  BY <1>1, <1>2 DEF ProposalInv, OneRowPerProposal, ReportedIsQueued, Linked,
                    service, proposal

LEMMA ProposalNext ==
  ASSUME TypeOK, ProposalInv, [Next]_vars
  PROVE  ProposalInv'
<1>1. CASE ProposeStep
  BY <1>1, LookupKeeps, PostKeeps, NameKeeps DEF ProposeStep, Propose, history
<1>2. CASE World
  BY <1>2, OutsideKeeps DEF World, history
<1>3. CASE FinishPropose
  BY <1>3, ToldKeeps
<1>4. CASE StartPropose
  <2>1. PICK call : Sign(call)
    BY <1>4 DEF StartPropose
  <2> QED
    BY <2>1, UnderWay DEF Sign
<1>5. CASE \/ StartUpdate \/ update_oracles \/ FinishUpdate
           \/ StartResync \/ ResyncOne \/ run_resync
           \/ StartRebalance \/ RebalanceOne \/ RebalanceRaises \/ task_rebalance
           \/ UNCHANGED vars
  <2>1. UNCHANGED <<service, proposal, told>>
    BY <1>5 DEF StartUpdate, update_oracles, FinishUpdate, StartResync, ResyncOne,
                run_resync, StartRebalance, RebalanceOne, RebalanceRaises,
                task_rebalance, vars, history
  <2> QED
    BY <2>1, ProposalRests
<1> QED
  BY <1>1, <1>2, <1>3, <1>4, <1>5 DEF Next

LEMMA TypeNext ==
  ASSUME TypeOK, Linked, [Next]_vars
  PROVE  TypeOK'
<1>1. CASE UNCHANGED vars
  BY <1>1, PartsRest, TypeTogether DEF vars, service, proposal, run, scheduler,
                                       history
<1> QED
  BY <1>1, UpdateType, ResyncType, RebalanceType, ProposeCommandType DEF Next

LEMMA InitHolds ==
  ASSUME Init
  PROVE  TypeOK /\ ProposalInv
<1>1. SafeTypeOK
  <2>1. outcome \in [kind : {None, "queued", "success", "posted", "failed"},
                     row : Rows \cup {None}]
    BY DEF Init, SafeInit, NotEnded
  <2>2. 0 \in 0 .. MaxNonce /\ 0 \in 0 .. MaxOthers
    BY SafeAssumption
  <2>3. nonce \in 0 .. MaxNonce /\ asked \in 0 .. MaxNonce /\ others \in 0 .. MaxOthers
    BY <2>2 DEF Init, SafeInit
  <2>4. /\ rows = {} /\ indexed = {} /\ executed = {} /\ named = {} /\ created = {}
        /\ pc = "idle" /\ reason = "first" /\ signed = None /\ left = 0
        /\ gateway \in BOOLEAN /\ listed = FALSE
    BY DEF Init, SafeInit
  <2> QED
    BY <2>1, <2>3, <2>4 DEF SafeTypeOK, Places
<1>2. RunTypeOK /\ SchedulerTypeOK /\ HistoryTypeOK
  <2>1. results \in [Deployments -> UpdateOutcomes \cup ResyncOutcomes
                                      \cup RebalanceOutcomes \cup {None}]
    BY DEF Init, NoResults
  <2>2. skips \in [Deployments -> 0 .. 2]
    BY DEF Init
  <2>3. commands \in 0 .. MaxCommands
    BY OracleRunsAssumption DEF Init
  <2>4. RunTypeOK
    BY <2>1 DEF Init, SafeInit, RunTypeOK, Callers
  <2>5. SchedulerTypeOK /\ HistoryTypeOK
    BY <2>2, <2>3 DEF Init, SchedulerTypeOK, HistoryTypeOK
  <2> QED
    BY <2>4, <2>5
<1>3. EndTypeOK
  BY NothingYet DEF Init, EndTypeOK
<1>4. ProposalInv
  BY NoneAssumption
     DEF Init, SafeInit, NotEnded, ProposalInv, OneRowPerProposal,
         ReportedIsQueued, Linked, NewRowNamesEarlier
<1> QED
  BY <1>1, <1>2, <1>3, <1>4, TypeParts

\* The inductive invariant of proposals and of what the signers were sent, which
\* the next theorems read off.
THEOREM ProposalInvHolds == Spec => [](TypeOK /\ ProposalInv)
<1>1. TypeOK /\ ProposalInv /\ [Next]_vars => (TypeOK /\ ProposalInv)'
  BY TypeNext, ProposalNext DEF ProposalInv
<1> QED
  BY InitHolds, <1>1, PTL DEF Spec

\* Every state of the commands and of the Safe is of its type; in particular
\* the signers have links to rows the service shows, and to no others.
THEOREM RunsTypeCorrect == Spec => []TypeOK
  BY ProposalInvHolds, PTL

\* What a proposal reports as queued is a row of the service, whichever answers
\* were lost.
THEOREM ReportsAreQueued == Spec => []ReportedIsQueued
<1>1. ProposalInv => ReportedIsQueued
  BY DEF ProposalInv
<1> QED
  BY <1>1, ProposalInvHolds, PTL

\* One proposal adds at most one row to the queue, however often it is posted.
THEOREM ProposalAddsOneRow == Spec => []OneRowPerProposal
<1>1. ProposalInv => OneRowPerProposal
  BY DEF ProposalInv
<1> QED
  BY <1>1, ProposalInvHolds, PTL

\* The message of a proposal that posted its row, read it back and could read the
\* queue names the rows that compete with it and that the signers were sent
\* before; of one that found its call queued this says nothing.
THEOREM NewRowsNameCompetitors == Spec => []NewRowNamesEarlier
<1>1. ProposalInv => NewRowNamesEarlier
  BY DEF ProposalInv
<1> QED
  BY <1>1, ProposalInvHolds, PTL

---------------------------------------------------------------------------
(* Who is told of an update.                                               *)

NoticeInv ==
  /\ ended.done => cmd = "idle"
  /\ cmd = "update" /\ ~announce => caller = "scheduler" /\ refusal_announced
  /\ NobodyLeftOut

\* A new command begins with nothing to tell.
LEMMA NoticeStarts ==
  ASSUME ended' = NotUpdated,
         cmd' = "update" /\ ~announce' => caller' = "scheduler" /\ refusal_announced'
  PROVE  NoticeInv'
BY DEF NoticeInv, NobodyLeftOut, NotUpdated

\* While a command runs there is nothing to tell yet.
LEMMA NoticeRuns ==
  ASSUME NoticeInv, cmd # "idle", ended' = ended, cmd' = cmd \/ cmd' = "idle",
         UNCHANGED <<announce, caller, refusal_announced>>
  PROVE  NoticeInv'
BY DEF NoticeInv, NobodyLeftOut

\* What a message did not carry, the caller learns otherwise.
LEMMA NoticeFinishes ==
  ASSUME TypeOK, NoticeInv, FinishUpdate
  PROVE  NoticeInv'
<1>1. PICK ok \in BOOLEAN :
        /\ ended' = Report(ok)
        /\ \/ /\ caller = "scheduler"
              /\ task_oracle_update(Report(ok))
           \/ /\ caller = "cli"
              /\ exit' = IF cmd_oracle(Report(ok)) THEN 1 ELSE 0
              /\ UNCHANGED scheduler
           \/ /\ caller = "main"
              /\ exit' = IF main(Report(ok)) THEN 1 ELSE 0
              /\ UNCHANGED scheduler
  BY DEF FinishUpdate
<1>2. /\ cmd = "update" /\ cmd' = "idle"
      /\ UNCHANGED <<caller, announce, results, telegram>>
  BY DEF FinishUpdate, Over
<1> DEFINE message == compose_oracle_update_message # {}
           held == message /\ ~announce /\ written = {}
           raised == With(UpdateOutcomes) = With({"failed"})
           sent == ~raised /\ message /\ ~held /\ ok
           s == Report(ok)
<1>3. /\ s.raised = raised
      /\ s.notified = IF message THEN held \/ ok ELSE needs_attention_from = {}
      /\ s.lines = IF sent THEN compose_oracle_update_message ELSE {}
      /\ s.held = held
      /\ s.written = Cardinality(written)
  BY DEF Report
<1>4. s.held => caller = "scheduler" /\ refusal_announced
  BY <1>2, <1>3 DEF NoticeInv
<1>5. caller # "scheduler" /\ (s.raised \/ ~s.notified) => exit' = 1
  BY <1>1 DEF cmd_oracle, main
<1>6. s.held => refusal_announced'
  <2>1. SUFFICES ASSUME s.held PROVE refusal_announced'
    OBVIOUS
  <2>2. caller = "scheduler" /\ refusal_announced = TRUE
    BY <1>4, <2>1 DEF TypeOK
  <2>3. task_oracle_update(s)
    BY <1>1, <2>2
  <2>4. Cardinality(written) = 0
    <3>1. written = {}
      BY <1>3, <2>1
    <3> QED
      BY <3>1, FS_EmptySet
  <2>5. ~(s.written > 0)
    BY <1>3, <2>4
  <2> HIDE DEF s
  <2>6. CASE s.raised
    <3>1. refusal_announced' = refusal_announced
      BY <2>3, <2>5, <2>6 DEF task_oracle_update
    <3> QED
      BY <2>2, <3>1
  <2>7. CASE ~s.raised
    <3>1. refusal_announced' = (refusal_announced \/ s.announced)
      BY <2>3, <2>5, <2>7 DEF task_oracle_update
    <3> QED
      BY <2>2, <3>1
  <2> QED
    BY <2>6, <2>7
<1>7. \A d \in attention : d \in s.lines \/ s.raised \/ ~s.notified \/ s.held
  <2>1. SUFFICES ASSUME NEW d \in attention,
                        ~s.raised, s.notified, ~s.held
                 PROVE  d \in s.lines
    OBVIOUS
  <2>2. message
    <3>1. needs_attention_from # {}
      BY DEF needs_attention_from
    <3> QED
      BY <1>3, <2>1, <3>1
  <2>3. compose_oracle_update_message = attention
    BY <2>2 DEF compose_oracle_update_message
  <2> QED
    BY <1>3, <2>1, <2>2, <2>3
<1>8. With({"written_alert", "refused", "failed"})' = attention
  BY <1>2 DEF With, attention
<1>9. NobodyLeftOut'
  <2>1. ended' = s /\ caller' = caller
    BY <1>1, <1>2
  <2> HIDE DEF s
  <2> QED
    BY <1>5, <1>6, <1>7, <1>8, <2>1 DEF NobodyLeftOut, Complains
<1> QED
  BY <1>2, <1>9 DEF NoticeInv

LEMMA NoticeNext ==
  ASSUME TypeOK, NoticeInv, [Next]_vars
  PROVE  NoticeInv'
<1>1. CASE StartUpdate
  <2>1. PICK who \in Callers :
          /\ caller' = who /\ ended' = NotUpdated
          /\ announce' \in IF who = "scheduler" /\ refusal_announced
                           THEN BOOLEAN ELSE {TRUE}
          /\ refusal_announced' = refusal_announced
    BY <1>1 DEF StartUpdate, Start, scheduler
  <2> QED
    BY <2>1, NoticeStarts
<1>2. CASE StartResync \/ StartRebalance \/ StartPropose
  <2>1. ended' = NotUpdated /\ cmd' # "update"
    BY <1>2 DEF StartResync, StartRebalance, StartPropose, Start
  <2> QED
    BY <2>1, NoticeStarts
<1>3. CASE FinishUpdate
  BY <1>3, NoticeFinishes
<1>4. CASE update_oracles \/ ResyncOne \/ RebalanceOne
  <2>1. /\ cmd # "idle" /\ cmd' = cmd
        /\ UNCHANGED <<ended, announce, caller, refusal_announced>>
    BY <1>4 DEF update_oracles, ResyncOne, RebalanceOne, Turn, scheduler
  <2> QED
    BY <2>1, NoticeRuns
<1>5. CASE run_resync \/ RebalanceRaises \/ task_rebalance \/ FinishPropose
  <2>1. /\ cmd # "idle" /\ cmd' = "idle"
        /\ UNCHANGED <<ended, announce, caller, refusal_announced>>
    BY <1>5 DEF run_resync, RebalanceRaises, task_rebalance, FinishPropose, Over,
                scheduler
  <2> QED
    BY <2>1, NoticeRuns
<1>6. CASE ProposeStep \/ World \/ UNCHANGED vars
  <2>1. UNCHANGED <<cmd, caller, announce, results, ended, exit,
                    refusal_announced>>
    BY <1>6 DEF ProposeStep, World, vars, run, scheduler
  <2> QED
    BY <2>1 DEF NoticeInv, NobodyLeftOut, Complains, With
<1> QED
  BY <1>1, <1>2, <1>3, <1>4, <1>5, <1>6 DEF Next

\* A deployment that failed, was refused or was written with an alert is in a
\* message that was delivered, or the caller knows that it was not.
THEOREM EveryoneIsHeard == Spec => []NobodyLeftOut
<1>1. Init => NoticeInv
  BY DEF Init, NoticeInv, NobodyLeftOut, NotUpdated
<1>2. NoticeInv => NobodyLeftOut
  BY DEF NoticeInv
<1>3. TypeOK /\ NoticeInv /\ [Next]_vars => NoticeInv'
  BY NoticeNext
<1> QED
  BY <1>1, <1>2, <1>3, RunsTypeCorrect, PTL DEF Spec

---------------------------------------------------------------------------
(* The request for a resync.                                               *)

\* In a resync, whoever stopped a rebalancing is still to come or not settled.
ResyncInv ==
  cmd = "resync" =>
    \A d \in stopped : d \in todo \/ results[d] \in {"wait", "failed"}

LEMMA ResyncNext ==
  ASSUME TypeOK, ResyncInv, [Next]_vars
  PROVE  ResyncInv'
<1>1. CASE cmd' # "resync"
  BY <1>1 DEF ResyncInv
<1>2. CASE StartResync
  <2>1. todo' = Deployments /\ stopped' = stopped
    BY <1>2 DEF StartResync, Start, history
  <2> QED
    BY <2>1 DEF ResyncInv, TypeOK
<1>3. CASE ResyncOne
  <2>1. PICK result \in ResyncOutcomes :
          /\ cmd = "resync" /\ todo # {}
          /\ results' = [results EXCEPT ![First(todo)] = result]
          /\ todo' = todo \ {First(todo)}
          /\ stopped' = stopped \ (IF result \in {"write", "noop", "refuse"}
                                   THEN {First(todo)} ELSE {})
    BY <1>3 DEF ResyncOne, Turn, Seen
  <2>2. SUFFICES ASSUME NEW d \in stopped', d \notin todo'
                 PROVE  results'[d] \in {"wait", "failed"}
    BY DEF ResyncInv
  <2>3. d \in stopped /\ d \in Deployments
    BY <2>1, <2>2 DEF TypeOK
  <2>4. CASE d = First(todo)
    <3>1. result \in {"wait", "failed"}
      BY <2>1, <2>2, <2>4 DEF ResyncOutcomes
    <3> QED
      BY <2>1, <2>3, <2>4, <3>1 DEF TypeOK
  <2>5. CASE d # First(todo)
    BY <2>1, <2>2, <2>3, <2>5 DEF ResyncInv, TypeOK
  <2> QED
    BY <2>4, <2>5
<1>4. CASE UNCHANGED <<cmd, stopped, todo, results>>
  BY <1>4 DEF ResyncInv
<1>5. cmd' # "resync" \/ StartResync \/ ResyncOne
        \/ UNCHANGED <<cmd, stopped, todo, results>>
  <2>1. CASE StartUpdate \/ StartRebalance \/ StartPropose
    BY <2>1 DEF StartUpdate, StartRebalance, StartPropose, Start
  <2>2. CASE update_oracles \/ RebalanceOne
    BY <2>2 DEF update_oracles, RebalanceOne, Turn
  <2>3. CASE FinishUpdate \/ run_resync \/ RebalanceRaises \/ task_rebalance
             \/ FinishPropose
    BY <2>3 DEF FinishUpdate, run_resync, RebalanceRaises, task_rebalance,
                FinishPropose, Over
  <2>4. CASE ProposeStep \/ World \/ UNCHANGED vars
    BY <2>4 DEF ProposeStep, World, vars, run, history
  <2> QED
    BY <2>1, <2>2, <2>3, <2>4 DEF Next
<1> QED
  BY <1>1, <1>2, <1>3, <1>4, <1>5

\* The request for a resync is withdrawn only when every deployment whose oracle
\* stopped a rebalancing is settled.
THEOREM RequestOutlivesFailures == Spec => ResyncStaysOpen
<1>1. Init => ResyncInv
  BY DEF Init, ResyncInv
<1>2. TypeOK /\ ResyncInv /\ [Next]_vars => ResyncInv'
  BY ResyncNext
<1>3. TypeOK /\ ResyncInv /\ [Next]_vars
        => [resync_requested /\ ~resync_requested' => stopped' = {}]_vars
  <2>1. SUFFICES ASSUME TypeOK, ResyncInv, [Next]_vars,
                        resync_requested, ~resync_requested'
                 PROVE  stopped' = {}
    OBVIOUS
  <2>2. run_resync
    <3>1. UNCHANGED resync_requested \/ task_rebalance \/ run_resync
      BY <2>1 DEF Next, StartUpdate, update_oracles, FinishUpdate, StartResync,
                  ResyncOne, StartRebalance, RebalanceOne, RebalanceRaises,
                  StartPropose, ProposeStep, FinishPropose, World,
                  task_oracle_update, vars, scheduler
    <3>2. task_rebalance => resync_requested'
      BY <2>1 DEF task_rebalance
    <3> QED
      BY <2>1, <3>1, <3>2
  <2>3. /\ cmd = "resync" /\ todo = {} /\ stopped' = stopped
        /\ With({"wait", "failed"}) = {}
    BY <2>1, <2>2 DEF run_resync, pending, history
  <2> QED
    BY <2>1, <2>3 DEF ResyncInv, With, TypeOK
<1> QED
  BY <1>1, <1>2, <1>3, RunsTypeCorrect, PTL DEF Spec, ResyncStaysOpen
=============================================================================
