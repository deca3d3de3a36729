------------------------------ MODULE OracleRuns ------------------------------
(***************************************************************************)
(* The commands of src/src/main.py that go over all deployments, and the   *)
(* rebalancing that does, as the scheduler, the command line and the       *)
(* standalone program call them: what one deployment's failure, refusal or *)
(* skip does to the others, who is told, and what the caller concludes.    *)
(*                                                                         *)
(* What happens to one deployment is OracleValue's and Rebalance's subject *)
(* and an outcome here; a proposal to the Safe runs step by step.          *)
(* Deployments are numbered in the order of the configuration.             *)
(***************************************************************************)
EXTENDS SafeProposal

CONSTANTS
  MaxCommands  \* bound

ASSUME OracleRunsAssumption ==
  /\ IsFiniteSet(Deployments)
  /\ Deployments = 1 .. Cardinality(Deployments)
  /\ MaxCommands \in Nat

VARIABLES
  cmd,               \* the command under way
  caller,            \* who runs it
  announce,          \* the argument of run_oracle_update
  todo, results,     \* deployments still to come, and the others' outcomes
  telegram,          \* the bot's key and the group are configured
  ended,             \* what the last update came to
  exit,              \* the last command's exit status
  \* The scheduler's, in memory.
  refusal_announced, resync_requested,
  skipping,          \* tasks with an open window of skips
  \* History variables, which no guard of the program reads.
  stopped,           \* deployments whose oracle stopped a rebalancing, and has
                     \* not been looked at since
  skips,             \* skips[d]: scheduled updates in a row that skipped d
  told,              \* rows the signers have been sent a link to
  commands

scheduler == <<refusal_announced, resync_requested, skipping>>
run == <<cmd, caller, announce, todo, results>>
history == <<stopped, skips, told>>
vars == <<service, proposal, run, telegram, ended, exit, scheduler, history,
          commands>>

Commands == {"update", "resync", "rebalance", "propose"}
Callers == {"scheduler", "cli", "main"}

UpdateOutcomes == {"written", "written_alert", "skipped", "refused", "failed"}
ResyncOutcomes == {"write", "noop", "wait", "refuse", "failed"}
RebalanceOutcomes == {"done", "ORACLE_VALUE_INCORRECT", "other"}

With(outcomes) == {d \in Deployments : results[d] \in outcomes}

NoResults == [d \in Deployments |-> None]

NotUpdated == [raised |-> FALSE, notified |-> TRUE, announced |-> FALSE,
               written |-> 0, lines |-> {}, held |-> FALSE, done |-> FALSE]

\* --source selects one source's deployments, here one; the scheduler and the
\* standalone program take all.
selected_sources(who) ==
  {Deployments} \cup IF who = "cli" THEN {{d} : d \in Deployments} ELSE {}

First(s) == CHOOSE d \in s : \A e \in s : d <= e

---------------------------------------------------------------------------
Start(command, who, scope) ==
  /\ cmd = "idle"
  /\ commands < MaxCommands
  /\ commands' = commands + 1
  /\ cmd' = command
  /\ caller' = who
  /\ todo' = scope
  /\ results' = NoResults
  /\ ended' = NotUpdated
  /\ exit' = 0

Over ==
  /\ cmd' = "idle"
  /\ todo' = {}
  /\ UNCHANGED <<caller, announce, results>>

\* One deployment's turn; whatever comes of it, the loop goes on.
Turn(command, result) ==
  /\ cmd = command
  /\ todo # {}
  /\ results' = [results EXCEPT ![First(todo)] = result]
  /\ todo' = todo \ {First(todo)}
  /\ UNCHANGED <<cmd, caller, announce>>

Seen(cleared) == stopped' = stopped \ (IF cleared THEN {First(todo)} ELSE {})

---------------------------------------------------------------------------
(* run_oracle_update.                                                      *)

\* A retry of a refusal that was announced is not announced again until an
\* oracle interval has passed.
StartUpdate == \E who \in Callers : \E scope \in selected_sources(who) :
  /\ Start("update", who, scope)
  /\ announce' \in IF who = "scheduler" /\ refusal_announced THEN BOOLEAN ELSE {TRUE}
  /\ UNCHANGED <<service, proposal, telegram, scheduler, history>>

update_oracles == \E result \in UpdateOutcomes :
  /\ Turn("update", result)
  /\ Seen(result \in {"written", "written_alert"})
  /\ skips' = IF caller = "scheduler"
              THEN [skips EXCEPT ![First(todo)] =
                      IF result # "skipped" THEN 0 ELSE IF @ < 2 THEN @ + 1 ELSE 2]
              ELSE skips
  /\ UNCHANGED <<service, proposal, telegram, ended, exit, scheduler, told,
                 commands>>

written == With({"written", "written_alert"})
attention == With({"written_alert", "refused", "failed"})

\* A mistake: only alerts were considered, not the deployments that failed.
AlertsOnly == With({"written_alert", "refused"})

needs_attention_from == attention

\* A line for each deployment that needs a person; skips have none.
compose_oracle_update_message == IF telegram THEN attention ELSE {}

\* The message and the fate of its delivery.  Every deployment failing raises.
\* A run that wrote nothing is held back when its refusal is already announced.
Report(ok) ==
  LET message == compose_oracle_update_message # {}
      held == message /\ ~announce /\ written = {}
      raised == With(UpdateOutcomes) = With({"failed"})
      sent == ~raised /\ message /\ ~held /\ ok
  IN  [raised |-> raised,
       notified |-> IF message THEN held \/ ok ELSE needs_attention_from = {},
       announced |-> sent,
       written |-> Cardinality(written),
       lines |-> IF sent THEN compose_oracle_update_message ELSE {},
       held |-> held,
       done |-> TRUE]

\* Exit statuses.  To a person at the command line a skip is not done; to the
\* supervisor of the standalone program it is no failure.
cmd_oracle(summary) == summary.raised \/ summary.written = 0 \/ ~summary.notified

main(summary) ==
  \/ summary.raised
  \/ summary.written = 0 /\ With({"skipped"}) = {}
  \/ ~summary.notified

\* task_oracle_update: one deployment written is a run; none is a decline,
\* which stays due.
task_oracle_update(summary) ==
  /\ refusal_announced' = CASE summary.raised -> refusal_announced
                            [] summary.written > 0 -> FALSE
                            [] OTHER -> refusal_announced \/ summary.announced
  /\ skipping' = CASE summary.raised -> skipping
                   [] summary.written > 0 -> skipping \ {"oracle_update"}
                   [] OTHER -> skipping \cup {"oracle_update"}
  /\ UNCHANGED resync_requested

FinishUpdate == \E ok \in BOOLEAN :
  /\ cmd = "update" /\ todo = {}
  /\ ended' = Report(ok)
  /\ \/ /\ caller = "scheduler"
        /\ task_oracle_update(Report(ok))
        /\ exit' = 0
     \/ /\ caller = "cli"
        /\ exit' = IF cmd_oracle(Report(ok)) THEN 1 ELSE 0
        /\ UNCHANGED scheduler
     \/ /\ caller = "main"
        /\ exit' = IF main(Report(ok)) THEN 1 ELSE 0
        /\ UNCHANGED scheduler
  /\ Over
  /\ UNCHANGED <<service, proposal, telegram, history, commands>>

---------------------------------------------------------------------------
(* run_oracle_resync, run by the scheduler when a resync is requested.     *)

StartResync ==
  /\ resync_requested
  /\ Start("resync", "scheduler", Deployments)
  /\ announce' = TRUE
  /\ UNCHANGED <<service, proposal, telegram, scheduler, history>>

ResyncOne == \E result \in ResyncOutcomes :
  /\ Turn("resync", result)
  /\ Seen(result \in {"write", "noop", "refuse"})
  /\ UNCHANGED <<service, proposal, telegram, ended, exit, scheduler, skips,
                 told, commands>>

\* A mistake: a deployment that failed is listed with the refusals only.
PendingWhenWaiting == With({"wait"}) # {}

pending == With({"wait", "failed"}) # {}

run_resync ==
  /\ cmd = "resync" /\ todo = {}
  /\ resync_requested' = pending
  /\ Over
  /\ UNCHANGED <<service, proposal, telegram, ended, exit, refusal_announced,
                 skipping, history, commands>>

---------------------------------------------------------------------------
(* run_all of operator_bot.py, and the scheduler's task_rebalance.         *)

StartRebalance ==
  /\ Start("rebalance", "scheduler", Deployments)
  /\ announce' = TRUE
  /\ UNCHANGED <<service, proposal, telegram, scheduler, history>>

RebalanceOne == \E result \in RebalanceOutcomes :
  /\ Turn("rebalance", result)
  /\ stopped' = IF result = "ORACLE_VALUE_INCORRECT"
                THEN stopped \cup {First(todo)} ELSE stopped \ {First(todo)}
  /\ UNCHANGED <<service, proposal, telegram, ended, exit, scheduler, skips,
                 told, commands>>

\* A deployment's pass raises: so does run_all, and the reasons collected so
\* far are lost with it.
RebalanceRaises ==
  /\ cmd = "rebalance" /\ todo # {}
  /\ Over
  /\ UNCHANGED <<service, proposal, telegram, ended, exit, scheduler, history,
                 commands>>

\* A request is added to, never withdrawn here.
task_rebalance ==
  /\ cmd = "rebalance" /\ todo = {}
  /\ resync_requested' = (resync_requested \/ With({"ORACLE_VALUE_INCORRECT"}) # {})
  /\ skipping' = IF With({"done"}) = {} THEN skipping \cup {"rebalance"}
                                        ELSE skipping \ {"rebalance"}
  /\ Over
  /\ UNCHANGED <<service, proposal, telegram, ended, exit, refusal_announced,
                 history, commands>>

---------------------------------------------------------------------------
(* run_oracle_propose.                                                     *)

\* What the validation can say of each deployment.
validate_oracles(scope) == [scope -> Values \cup {"unread", "in_flight"}]

\* What is proposed for which deployment, one Safe's worth: nothing where the
\* validation failed, nor, unless the value is given by hand, where a transfer
\* is in flight.
plan_oracle_proposals(view, value_override) ==
  [d \in {d \in DOMAIN view : /\ view[d] # "unread"
                              /\ view[d] = "in_flight" => value_override # None}
     |-> IF value_override # None THEN value_override ELSE view[d]]

\* Nothing to propose raises before anything is done: it is no step here.
StartPropose ==
  \E scope \in selected_sources("cli"), value_override \in Values \cup {None} :
    \E view \in validate_oracles(scope) :
      LET call == plan_oracle_proposals(view, value_override)
      IN  /\ DOMAIN call # {}
          /\ Start("propose", "cli", {})
          /\ Sign(call)
          /\ announce' = TRUE
          /\ UNCHANGED <<telegram, scheduler, history>>

ProposeStep ==
  /\ Propose
  /\ UNCHANGED <<run, telegram, ended, exit, scheduler, history, commands>>

\* Only a row that was read back has a link.
compose_safe_proposal_message ==
  IF outcome.kind \in {"queued", "success"} THEN {outcome.row} ELSE {}

\* The status message, when there is something to say, and the one for the
\* proposal; each may be lost.
FinishPropose == \E status, status_ok, ok \in BOOLEAN :
  /\ cmd = "propose" /\ pc = "idle"
  /\ status_ok \/ ok => telegram
  /\ status => telegram
  /\ status_ok => status
  /\ told' = told \cup IF ok THEN compose_safe_proposal_message ELSE {}
  /\ exit' = IF outcome.kind # "failed" /\ ok /\ status = status_ok THEN 0 ELSE 1
  /\ Over
  /\ UNCHANGED <<service, proposal, telegram, ended, scheduler, stopped, skips,
                 commands>>

\* The other commands do not look at the Safe, so nothing is lost when it rests
\* while they run, and after the last one.
World ==
  /\ cmd = "propose" \/ (cmd = "idle" /\ commands < MaxCommands)
  /\ Outside
  /\ UNCHANGED <<run, telegram, ended, exit, scheduler, history, commands>>

---------------------------------------------------------------------------
Init ==
  /\ SafeInit
  /\ cmd = "idle" /\ caller = "cli" /\ announce = TRUE
  /\ todo = {} /\ results = NoResults
  /\ telegram \in BOOLEAN
  /\ ended = NotUpdated /\ exit = 0
  /\ refusal_announced = FALSE /\ resync_requested = FALSE /\ skipping = {}
  /\ stopped = {} /\ skips = [d \in Deployments |-> 0] /\ told = {}
  /\ commands = 0

Next ==
  \/ StartUpdate \/ update_oracles \/ FinishUpdate
  \/ StartResync \/ ResyncOne \/ run_resync
  \/ StartRebalance \/ RebalanceOne \/ RebalanceRaises \/ task_rebalance
  \/ StartPropose \/ ProposeStep \/ FinishPropose
  \/ World

Spec == Init /\ [][Next]_vars

TypeOK ==
  /\ SafeTypeOK
  /\ cmd \in Commands \cup {"idle"} /\ caller \in Callers /\ announce \in BOOLEAN
  /\ todo \subseteq Deployments
  /\ results \in [Deployments -> UpdateOutcomes \cup ResyncOutcomes
                                   \cup RebalanceOutcomes \cup {None}]
  /\ telegram \in BOOLEAN
  /\ ended \in [raised : BOOLEAN, notified : BOOLEAN, announced : BOOLEAN,
                written : 0 .. Cardinality(Deployments),
                lines : SUBSET Deployments, held : BOOLEAN, done : BOOLEAN]
  /\ exit \in {0, 1}
  /\ refusal_announced \in BOOLEAN /\ resync_requested \in BOOLEAN
  /\ skipping \subseteq {"oracle_update", "rebalance"}
  /\ stopped \subseteq Deployments /\ skips \in [Deployments -> 0 .. 2]
  /\ told \subseteq indexed
  /\ commands \in 0 .. MaxCommands
  /\ pc # "idle" => cmd = "propose"

(***************************************************************************)
(* Signers are asked for one row of several that share a nonce, of which   *)
(* one can execute.  A proposal that posted its row and read it back names *)
(* in its message, when the queue could be read for it, every row still    *)
(* open at its nonce that they were sent a link to before, whichever       *)
(* deployments either of the two covers and whatever executed in between.  *)
(* Nothing is said of a proposal that finds its call queued: it returns    *)
(* before the queue is read for competitors (propose_tx.py:274), and its   *)
(* link goes out without a name, although propose_tx.py:316 counts on the  *)
(* notice for a retry that turns out to be a duplicate.                    *)
(***************************************************************************)
NewRowNamesEarlier ==
  outcome.kind = "success" /\ listed =>
    \A r \in told \ executed :
      r.nonce = outcome.row.nonce /\ ~SameCall(r, outcome.row) => r \in named

\* The caller is not left with the impression of success.
Complains == (ended.raised \/ ~ended.notified) /\ (caller # "scheduler" => exit = 1)

(***************************************************************************)
(* A deployment that failed, was refused or was written with an alert is   *)
(* in a message that was delivered, or whoever runs the update knows       *)
(* better than to take it for done: it raised or reported that nobody was  *)
(* told, with an exit status that says so.  Silence is left for the retry  *)
(* of a refusal that was announced before.                                 *)
(***************************************************************************)
NobodyLeftOut ==
  ended.done =>
    \A d \in With({"written_alert", "refused", "failed"}) :
      d \in ended.lines \/ Complains \/ (ended.held /\ refusal_announced)

(***************************************************************************)
(* The request for a resync is withdrawn only when every deployment whose  *)
(* oracle stopped a rebalancing has been written, refused or found in      *)
(* line: one that failed or had to wait keeps it open, whatever came of    *)
(* the others and of the runs in between.                                  *)
(***************************************************************************)
ResyncStaysOpen ==
  [][resync_requested /\ ~resync_requested' => stopped' = {}]_vars

(***************************************************************************)
(* "Rebalance, and ask for a resync when the oracle is what stops it"      *)
(* (scheduler.py:370): a deployment whose oracle stopped the scheduler's   *)
(* rebalancing is looked at, or a request for it stands.                   *)
(***************************************************************************)
OracleStopsAreAsked == cmd = "idle" /\ stopped # {} => resync_requested

(***************************************************************************)
(* "Repeated skips do matter, and the scheduler is what notices them"      *)
(* (main.py:479): when one deployment was skipped in two scheduled updates *)
(* in a row, the scheduler's window of skips is open.                      *)
(***************************************************************************)
SkipsAreNoticed ==
  cmd = "idle" /\ (\E d \in Deployments : skips[d] = 2) => "oracle_update" \in skipping
=============================================================================
